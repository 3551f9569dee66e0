------------------------------ MODULE MCFsOps ------------------------------
(* Small instances of FsOps for TLC. *)
EXTENDS FsOps

CONSTANTS t1, t2, Movie, Show, Season, Pack

AllNames == {Movie, Show, Season, Pack, Extracted}
OwnNames == [t \in Torrents |-> IF t = t1 THEN Movie ELSE Show]
InnerNames == [t \in Torrents |-> IF t = t1 THEN Season ELSE Pack]

Policy(extract, flatten, mode, rest) ==
    [allowed |-> TRUE, par2 |-> rest, extract |-> extract, flatten |-> flatten,
     move_mode |-> mode, permissions |-> rest, rules |-> rest]

\* A payload that is neither an archive nor a directory cannot be extracted.
Denied == [Policy(FALSE, FALSE, "copy", FALSE) EXCEPT !.allowed = FALSE]
AnyMode == {Policy(x, f, m, TRUE) : x \in BOOLEAN, f \in BOOLEAN,
                                    m \in {"copy", "move", "hardlink"}}
             \cup {Policy(TRUE, FALSE, "copy", FALSE), Policy(FALSE, FALSE, "unsupported", FALSE), Denied}
MoveOnly == {Policy(FALSE, FALSE, "move", FALSE)}
NoExtract == {p \in AnyMode : ~p.extract}

\* The instances satisfy the hypothesis of the theorems.
ASSUME InstancesAreApart == NamesApart
=============================================================================
