---------------------------- MODULE FsOpsProofs ----------------------------
(***************************************************************************)
(* Proofs about FsOps, for any torrents, names and policies and any number *)
(* of crashes, I/O errors and policy changes.                              *)
(***************************************************************************)
EXTENDS FsOps, TLAPS

USE DEF ValidatePolicy, Allowlist, PrepareDirectories, CompileRules, LocateSource,
        VerifyPar2, PrepareWorkDir, Extract, Flatten, Transfer, SetPermissions,
        Cleanup, Checksum, Finalise

-----------------------------------------------------------------------------
(* The inductive invariant of types and durability.                        *)

\* A pipeline in progress: which phases a step has, and that its torrent is
\* not completed before Finalise is saved.
RunInv ==
    run.step # 0 =>
      /\ run.phase = "start" => run.step = Finalise
      /\ run.phase = "extract" => run.step = Extract
      /\ run.phase \in {"transfer", "copied", "removing"} => run.step = Transfer
      /\ run.phase \in {"copied", "removing"} => disk[mem.staging.at] # Absent
      /\ run.phase = "save" => PersistsSuccess(run.step)
      /\ mem.completed <=> run.step = Finalise /\ run.phase = "save"
      /\ ~Completed(run.t)

TypeInv == TypeOK /\ RunInv /\ CompletedIsDurable

-----------------------------------------------------------------------------
(* Values.                                                                 *)

LEMMA PlaceFacts ==
  /\ \A t \in Torrents : Src(t) \in Places /\ Ext(t) \in Places /\ SourcePath(t) \in Places
  /\ \A n \in Names : Lib(n) \in Places /\ At(Lib(n)) \in Paths
  /\ \A t \in Torrents : At(Ext(t)) \in Paths /\ At(SourcePath(t)) \in Paths
  /\ \A p \in Paths : p.at \in Places /\ p.inner \in BOOLEAN
  /\ NoPath \notin Paths /\ Absent \notin Content
<1>1. \A t \in Torrents : Src(t) \in Places /\ Ext(t) \in Places
  BY DEF Places
<1>2. \A n \in Names : Lib(n) \in Places
  BY DEF Places
<1>3. \A t \in Torrents : SourcePath(t) \in Places
  BY <1>1, <1>2, NamesAssumption DEF SourcePath
<1>4. \A p \in Paths : p.at \in Places /\ p.inner \in BOOLEAN
  BY DEF Paths
<1>5. \A p \in Places : At(p) \in Paths
  BY DEF Paths, At
<1>6. NoPath \notin Paths /\ Absent \notin Content
  BY DEF NoPath, Paths, Absent, Content
<1> QED BY <1>1, <1>2, <1>3, <1>4, <1>5, <1>6

LEMMA NameOfType ==
  ASSUME NEW t \in Torrents, NEW p \in Paths
  PROVE  NameOf(t, p) \in Names
<1>1. p.at \in Places /\ p.inner \in BOOLEAN
  BY PlaceFacts
<1>2. CASE p.inner
  BY <1>2, NamesAssumption DEF NameOf
<1>3. CASE ~p.inner /\ \E u \in Torrents : p.at = Src(u)
  BY <1>3, NamesAssumption DEF NameOf, Src
<1>4. CASE ~p.inner /\ \E u \in Torrents : p.at = Ext(u)
  BY <1>4, NamesAssumption DEF NameOf, Ext
<1>5. CASE ~p.inner /\ \E n \in Names : p.at = Lib(n)
  BY <1>5, NamesAssumption DEF NameOf, Lib
<1> QED BY <1>1, <1>2, <1>3, <1>4, <1>5 DEF Places

LEMMA MetaFacts ==
  ASSUME NEW m \in MetaType
  PROVE  /\ m.done \in SUBSET Steps /\ m.completed \in BOOLEAN /\ m.staging \in Paths
         /\ m.artifact \in Paths \cup {NoPath} /\ m.checksums \in Content \cup {Absent}
BY DEF MetaType

LEMMA NewMetaFacts ==
  ASSUME NEW t \in Torrents
  PROVE  NewMeta(t) \in MetaType /\ ~NewMeta(t).completed
<1>1. At(SourcePath(t)) \in Paths
  BY PlaceFacts
<1> QED BY <1>1 DEF NewMeta, MetaType

LEMMA FileFacts == NoFile \notin MetaType /\ TornFile \notin MetaType /\ NoFile # TornFile
BY DEF NoFile, TornFile, MetaType

LEMMA RunFacts ==
  ASSUME run \in {Idle} \cup RunType
  PROVE  /\ run.step # 0 <=> run \in RunType
         /\ run = Idle <=> run.step = 0
         /\ run \in RunType =>
              /\ run.t \in Torrents /\ run.policy \in Policies /\ run.step \in Steps
              /\ run.mem \in MetaType /\ mem \in MetaType
              /\ run.phase \in {"start", "op", "extract", "transfer", "copied", "removing", "save"}
BY DEF Idle, RunType, Steps, mem

LEMMA ContentFacts ==
  ASSUME NEW c \in Content
  PROVE  /\ c # Absent /\ c.of \in Torrents /\ c.form \in {"archive", "file", "dir"}
         /\ c.state \in {"whole", "part", "shell"} /\ c.nested \in BOOLEAN
BY PlaceFacts DEF Content

-----------------------------------------------------------------------------
(* The steps of the pipeline that are skipped.                             *)

LEMMA NextStepFacts ==
  ASSUME NEW m, NEW k \in 0..14
  PROVE  /\ NextStep(m, k) \in (k + 1)..15
         /\ NextStep(m, k) = 15 \/ ~Skipped(m, NextStep(m, k))
         /\ \A i \in (k + 1)..(NextStep(m, k) - 1) : Skipped(m, i)
<1> DEFINE Is(q, j) == /\ j = 15 \/ ~Skipped(m, j)
                       /\ \A i \in (q + 1)..(j - 1) : Skipped(m, i)
           Has(q) == \E j \in (q + 1)..15 : Is(q, j)
<1>1. Has(14)
  <2>1. 15 \in (14 + 1)..15 /\ Is(14, 15)
    OBVIOUS
  <2> QED BY <2>1
<1>2. ASSUME NEW q \in 0..13, Has(q + 1) PROVE Has(q)
  <2>1. CASE ~Skipped(m, q + 1)
    <3>1. q + 1 \in (q + 1)..15 /\ Is(q, q + 1)
      BY <2>1
    <3> QED BY <3>1
  <2>2. CASE Skipped(m, q + 1)
    <3>1. PICK j \in (q + 1 + 1)..15 : Is(q + 1, j)
      BY <1>2
    <3>2. j \in (q + 1)..15 /\ (j = 15 \/ ~Skipped(m, j))
      BY <3>1
    <3>3. ASSUME NEW i \in (q + 1)..(j - 1) PROVE Skipped(m, i)
      BY <2>2, <3>1
    <3> QED BY <3>2, <3>3
  <2> QED BY <2>1, <2>2
<1> HIDE DEF Has
<1>3. ASSUME NEW q \in 0..13, NEW p, p = q + 1, Has(p) PROVE Has(q)
  BY <1>2, <1>3
<1>4. Has(13) /\ Has(12) /\ Has(11) /\ Has(10) /\ Has(9) /\ Has(8) /\ Has(7)
  BY <1>1, <1>3
<1>5. Has(6) /\ Has(5) /\ Has(4) /\ Has(3) /\ Has(2) /\ Has(1) /\ Has(0)
  BY <1>4, <1>3
<1>6. Has(k)
  BY <1>1, <1>4, <1>5
<1>7. \E j \in (k + 1)..15 : Is(k, j)
  BY <1>6 DEF Has
<1>8. NextStep(m, k) = CHOOSE j \in (k + 1)..15 : Is(k, j)
  BY DEF NextStep
<1> HIDE DEF Is
<1>9. NextStep(m, k) \in (k + 1)..15 /\ Is(k, NextStep(m, k))
  BY <1>7, <1>8
<1> QED BY <1>9 DEF Is

-----------------------------------------------------------------------------
(* How the pipeline goes on.                                               *)

DiskType == [Places -> Content \cup {Absent}]

\* The result of the step in progress, m, is about to be saved.
Saving(m) ==
    /\ run' = [run EXCEPT !.mem = m, !.phase = "save"]
    /\ UNCHANGED <<degraded, outcome>>

\* The next step after k that is not done begins, with metadata m.
Onward(k, m) ==
    /\ run' \in RunType
    /\ run'.t = run.t /\ run'.policy = run.policy /\ run'.mem = m
    /\ run'.step \in (k + 1)..14
    /\ run'.phase = IF run'.step = Finalise THEN "start" ELSE "op"
    /\ \A i \in (k + 1)..(run'.step - 1) : i \in m.done
    /\ run'.step = Finalise \/ run'.step \notin m.done

LEMMA GotoLeads ==
  ASSUME TypeOK, run \in RunType, NEW k \in 0..14, NEW m \in MetaType,
         Goto(NextStep(m, k), m)
  PROVE  \/ /\ k = 14 \/ m.completed
            /\ run' = Idle /\ degraded' = FALSE
            /\ outcome' = [outcome EXCEPT ![run.t] = "completed"]
         \/ /\ Onward(k, m)
            /\ UNCHANGED <<degraded, outcome>>
<1> DEFINE j == NextStep(m, k)
<1>1. /\ j \in (k + 1)..15
      /\ j = 15 \/ ~Skipped(m, j)
      /\ \A i \in (k + 1)..(j - 1) : Skipped(m, i)
  BY NextStepFacts
<1>2. Goto(j, m)
  OBVIOUS
<1> HIDE DEF j
<1>3. CASE j = 15
  <2>1. /\ run' = Idle /\ degraded' = FALSE
        /\ outcome' = [outcome EXCEPT ![run.t] = "completed"]
    BY <1>2, <1>3 DEF Goto, MarkRecovered
  <2>2. k # 14 => Skipped(m, 14)
    BY <1>1, <1>3
  <2> QED BY <2>1, <2>2 DEF Skipped
<1>4. CASE j # 15
  <2>1. /\ run' = [run EXCEPT !.step = j, !.mem = m,
                              !.phase = IF j = Finalise THEN "start" ELSE "op"]
        /\ UNCHANGED <<degraded, outcome>>
    BY <1>2, <1>4 DEF Goto
  <2>2. /\ run' \in RunType
        /\ run'.t = run.t /\ run'.policy = run.policy /\ run'.mem = m
        /\ run'.step = j
        /\ run'.phase = IF j = Finalise THEN "start" ELSE "op"
    <3> DEFINE p == IF j = Finalise THEN "start" ELSE "op"
    <3>1. p \in {"start", "op"} /\ j \in Steps
      BY <1>1, <1>4 DEF Steps
    <3>2. run' = [run EXCEPT !.step = j, !.mem = m, !.phase = p]
      BY <2>1
    <3> HIDE DEF p
    <3>3. /\ run' \in RunType
          /\ run'.t = run.t /\ run'.policy = run.policy /\ run'.mem = m
          /\ run'.step = j /\ run'.phase = p
      BY <3>1, <3>2 DEF RunType
    <3> QED BY <3>3 DEF p
  <2>3. \A i \in (k + 1)..(j - 1) : i \in m.done
    BY <1>1 DEF Skipped
  <2>4. j = 14 \/ j \notin m.done
    BY <1>1, <1>4 DEF Skipped
  <2> QED BY <1>1, <1>4, <2>1, <2>2, <2>3, <2>4 DEF Onward
<1> QED BY <1>3, <1>4

LEMMA SucceedLeads ==
  ASSUME TypeOK, run \in RunType, NEW k \in Steps, NEW m \in MetaType, ~m.completed,
         Succeed(k, m), k # Finalise
  PROVE  /\ UNCHANGED <<meta, degraded, outcome, fsPolicy, crashes, faults, changes>>
         /\ IF PersistsSuccess(k) THEN Saving(m) ELSE Onward(k, m)
<1>1. UNCHANGED <<meta, fsPolicy, crashes, faults, changes>>
  BY DEF Succeed, env
<1>2. CASE PersistsSuccess(k)
  BY <1>1, <1>2 DEF Succeed, Saving
<1>3. CASE ~PersistsSuccess(k)
  <2>1. Goto(NextStep(m, k), m)
    BY <1>3 DEF Succeed
  <2>2. k \in 0..14 /\ k # 14
    BY DEF Steps
  <2>3. Onward(k, m) /\ UNCHANGED <<degraded, outcome>>
    BY <2>1, <2>2, GotoLeads
  <2> QED BY <1>1, <1>3, <2>3
<1> QED BY <1>2, <1>3

\* The pipeline of a torrent is over, without saving anything.
LEMMA RejectLeads ==
  ASSUME Reject
  PROVE  /\ run' = Idle /\ degraded' = TRUE
         /\ outcome' = [outcome EXCEPT ![run.t] = "failed"]
         /\ UNCHANGED <<meta, fsPolicy, crashes, faults, changes>>
BY DEF Reject, Fail, MarkDegraded, env

LEMMA PhaseLeads ==
  ASSUME NEW phase, Phase(phase)
  PROVE  /\ run' = [run EXCEPT !.phase = phase]
         /\ UNCHANGED <<meta, degraded, outcome, fsPolicy, crashes, faults, changes>>
BY DEF Phase, env

LEMMA SavingRun ==
  ASSUME run \in RunType, NEW m \in MetaType, Saving(m)
  PROVE  /\ run' \in RunType
         /\ run'.t = run.t /\ run'.policy = run.policy /\ run'.mem = m
         /\ run'.step = run.step /\ run'.phase = "save"
BY DEF Saving, RunType

LEMMA PhaseRun ==
  ASSUME run \in RunType,
         NEW phase \in {"start", "op", "extract", "transfer", "copied", "removing", "save"},
         Phase(phase)
  PROVE  /\ run' \in RunType
         /\ run'.t = run.t /\ run'.policy = run.policy /\ run'.mem = run.mem
         /\ run'.step = run.step /\ run'.phase = phase
BY DEF Phase, RunType

-----------------------------------------------------------------------------
(* Types and durability.                                                   *)

LEMMA SucceedTyped ==
  ASSUME TypeInv, run \in RunType, run.phase # "save", NEW k \in Steps, k = run.step,
         k # Finalise, NEW m \in MetaType, ~m.completed, Succeed(k, m), disk' \in DiskType
  PROVE  TypeInv'
<1>1. TypeOK /\ RunInv /\ CompletedIsDurable
  BY DEF TypeInv
<1>2. /\ UNCHANGED <<meta, degraded, outcome, fsPolicy, crashes, faults, changes>>
      /\ IF PersistsSuccess(k) THEN Saving(m) ELSE Onward(k, m)
  BY <1>1, SucceedLeads
<1>3. /\ run' \in RunType /\ run'.t = run.t /\ run'.mem = m
      /\ \/ PersistsSuccess(k) /\ run'.step = k /\ run'.phase = "save"
         \/ run'.phase = "op" \/ (run'.phase = "start" /\ run'.step = 14)
  BY <1>2, SavingRun DEF Onward
<1>4. TypeOK'
  BY <1>1, <1>2, <1>3 DEF TypeOK, DiskType
<1>5. ~Completed(run.t) /\ run.step # 0
  BY <1>1, RunFacts DEF RunInv, TypeOK
<1>6. Completed(run.t)' <=> Completed(run.t)
  BY <1>2, <1>3 DEF Completed, Readable
<1>7. RunInv'
  BY <1>3, <1>5, <1>2 DEF RunInv, mem, PersistsSuccess, Completed, Readable
<1>8. CompletedIsDurable'
  BY <1>1, <1>2 DEF CompletedIsDurable, Completed, Readable
<1> QED BY <1>4, <1>7, <1>8 DEF TypeInv

LEMMA RejectTyped ==
  ASSUME TypeInv, run \in RunType, Reject, disk' \in DiskType
  PROVE  TypeInv'
<1>1. TypeOK /\ RunInv /\ CompletedIsDurable
  BY DEF TypeInv
<1>2. /\ run' = Idle /\ degraded' = TRUE
      /\ outcome' = [outcome EXCEPT ![run.t] = "failed"]
      /\ UNCHANGED <<meta, fsPolicy, crashes, faults, changes>>
  BY RejectLeads
<1>3. TypeOK'
  BY <1>1, <1>2 DEF TypeOK, DiskType
<1>4. RunInv'
  BY <1>2 DEF RunInv, Idle
<1>5. CompletedIsDurable'
  BY <1>1, <1>2 DEF CompletedIsDurable, Completed, Readable, TypeOK
<1> QED BY <1>3, <1>4, <1>5 DEF TypeInv

LEMMA PhaseTyped ==
  ASSUME TypeInv, run \in RunType,
         NEW phase \in {"extract", "transfer", "copied", "removing"}, Phase(phase),
         disk' \in DiskType, run.phase # "save",
         run.step = IF phase = "extract" THEN Extract ELSE Transfer,
         phase \in {"copied", "removing"} => disk'[mem.staging.at] # Absent
  PROVE  TypeInv'
<1>1. TypeOK /\ RunInv /\ CompletedIsDurable
  BY DEF TypeInv
<1>2. UNCHANGED <<meta, degraded, outcome, fsPolicy, crashes, faults, changes>>
  BY PhaseLeads
<1>3. /\ run' \in RunType /\ run'.t = run.t /\ run'.mem = run.mem
      /\ run'.step = run.step /\ run'.phase = phase
  BY PhaseRun
<1>4. TypeOK'
  BY <1>1, <1>2, <1>3 DEF TypeOK, DiskType
<1>5. ~Completed(run.t) /\ run.step # 0 /\ ~mem.completed
  BY <1>1, RunFacts DEF RunInv, TypeOK
<1>6. RunInv'
  BY <1>3, <1>5, <1>2 DEF RunInv, mem, PersistsSuccess, Completed, Readable
<1>7. CompletedIsDurable'
  BY <1>1, <1>2 DEF CompletedIsDurable, Completed, Readable
<1> QED BY <1>4, <1>6, <1>7 DEF TypeInv

\* What the operations put on disk and into the metadata has its type.
LEMMA OperandFacts ==
  ASSUME TypeOK, run \in RunType
  PROVE  /\ mem \in MetaType /\ run.t \in Torrents /\ run.policy \in PolicyType
         /\ mem.staging \in Paths /\ mem.staging.at \in Places
         /\ mem.staging.inner \in BOOLEAN
         /\ disk[mem.staging.at] \in Content \cup {Absent}
         /\ Destination \in Paths /\ Destination.at \in Places
         /\ disk[Destination.at] \in Content \cup {Absent}
         /\ Ext(run.t) \in Places
<1>1. mem \in MetaType /\ run.t \in Torrents /\ run.policy \in PolicyType
  BY PolicyAssumption DEF RunType, mem
<1>2. mem.staging \in Paths /\ mem.artifact \in Paths \cup {NoPath}
  BY <1>1, MetaFacts
<1>3. mem.staging.at \in Places /\ mem.staging.inner \in BOOLEAN /\ Ext(run.t) \in Places
  BY <1>1, <1>2, PlaceFacts
<1>4. At(Lib(NameOf(run.t, mem.staging))) \in Paths
  BY <1>1, <1>2, NameOfType, PlaceFacts
<1>5. Destination \in Paths
  BY <1>2, <1>4 DEF Destination
<1>6. Destination.at \in Places
  BY <1>5, PlaceFacts
<1> QED BY <1>1, <1>2, <1>3, <1>5, <1>6 DEF TypeOK

LEMMA MetaUpdates ==
  ASSUME TypeOK, run \in RunType
  PROVE  /\ \A m \in MetaType, k \in Steps :
              [m EXCEPT !.done = @ \cup {k}] \in MetaType
         /\ [mem EXCEPT !.staging = At(Ext(run.t))] \in MetaType
         /\ [mem EXCEPT !.staging.inner = TRUE] \in MetaType
         /\ Placed(mem) \in MetaType
         /\ \A c \in Content \cup {Absent} : [mem EXCEPT !.checksums = c] \in MetaType
<1>1. /\ mem \in MetaType /\ run.t \in Torrents /\ mem.staging \in Paths /\ Destination \in Paths
  BY OperandFacts
<1>2. At(Ext(run.t)) \in Paths
  BY <1>1, PlaceFacts
<1>3. [mem.staging EXCEPT !.inner = TRUE] \in Paths
  BY <1>1 DEF Paths
<1>4. \A m \in MetaType, k \in Steps : [m EXCEPT !.done = @ \cup {k}] \in MetaType
  BY DEF MetaType
<1>5. \A q \in Paths : [mem EXCEPT !.staging = q] \in MetaType
  BY <1>1 DEF MetaType
<1>6. [mem EXCEPT !.staging.inner = TRUE] = [mem EXCEPT !.staging = [mem.staging EXCEPT !.inner = TRUE]]
  OBVIOUS
<1>7. Placed(mem) \in MetaType
  BY <1>1 DEF Placed, MetaType
<1>8. \A c \in Content \cup {Absent} : [mem EXCEPT !.checksums = c] \in MetaType
  BY <1>1 DEF MetaType
<1> QED BY <1>1, <1>2, <1>3, <1>4, <1>5, <1>6, <1>7, <1>8

\* The fields of those records.
LEMMA MetaUpdateFields ==
  ASSUME TypeOK, run \in RunType, NEW k \in Steps
  PROVE  /\ LET m == [mem EXCEPT !.done = @ \cup {k}] IN
              /\ m.done = mem.done \cup {k} /\ m.completed = mem.completed
              /\ m.staging = mem.staging /\ m.artifact = mem.artifact
              /\ m.checksums = mem.checksums
         /\ LET m == [mem EXCEPT !.staging = At(Ext(run.t))] IN
              /\ m.done = mem.done /\ m.completed = mem.completed
              /\ m.staging = At(Ext(run.t)) /\ m.artifact = mem.artifact
              /\ m.checksums = mem.checksums
         /\ LET m == [mem EXCEPT !.staging.inner = TRUE] IN
              /\ m.done = mem.done /\ m.completed = mem.completed
              /\ m.staging.at = mem.staging.at /\ m.staging.inner
              /\ m.artifact = mem.artifact /\ m.checksums = mem.checksums
         /\ /\ Placed(mem).done = mem.done /\ Placed(mem).completed = mem.completed
            /\ Placed(mem).staging = Destination /\ Placed(mem).artifact = Destination
            /\ Placed(mem).checksums = mem.checksums
<1>1. mem \in MetaType /\ mem.staging \in Paths
  BY OperandFacts
<1>2. /\ LET m == [mem EXCEPT !.done = @ \cup {k}] IN
           /\ m.done = mem.done \cup {k} /\ m.completed = mem.completed
           /\ m.staging = mem.staging /\ m.artifact = mem.artifact
           /\ m.checksums = mem.checksums
      /\ LET m == [mem EXCEPT !.staging = At(Ext(run.t))] IN
           /\ m.done = mem.done /\ m.completed = mem.completed
           /\ m.staging = At(Ext(run.t)) /\ m.artifact = mem.artifact
           /\ m.checksums = mem.checksums
  BY <1>1 DEF MetaType
<1>3. LET m == [mem EXCEPT !.staging.inner = TRUE] IN
        /\ m.done = mem.done /\ m.completed = mem.completed
        /\ m.staging.at = mem.staging.at /\ m.staging.inner
        /\ m.artifact = mem.artifact /\ m.checksums = mem.checksums
  BY <1>1 DEF MetaType, Paths
<1>4. /\ Placed(mem).done = mem.done /\ Placed(mem).completed = mem.completed
      /\ Placed(mem).staging = Destination /\ Placed(mem).artifact = Destination
      /\ Placed(mem).checksums = mem.checksums
  BY <1>1 DEF MetaType, Placed
<1> QED BY <1>2, <1>3, <1>4

LEMMA DiskPut ==
  ASSUME disk \in DiskType, NEW p \in Places, NEW c \in Content \cup {Absent}
  PROVE  [disk EXCEPT ![p] = c] \in DiskType
BY DEF DiskType

LEMMA PayloadFacts ==
  ASSUME TypeOK, run \in RunType, Exists(mem.staging),
         NEW state \in {"whole", "part", "shell"}
  PROVE  /\ Payload(state) \in Content /\ disk[mem.staging.at] \in Content
         /\ Payload(state).of = disk[mem.staging.at].of /\ Payload(state).state = state
         /\ Without(mem.staging) \in Content \cup {Absent}
<1>1. /\ disk[mem.staging.at] \in Content \cup {Absent} /\ mem.staging.inner \in BOOLEAN
  BY OperandFacts
<1>2. disk[mem.staging.at] \in Content
  BY <1>1 DEF Exists
<1>3. /\ disk[mem.staging.at].of \in Torrents
      /\ disk[mem.staging.at].form \in {"archive", "file", "dir"}
      /\ disk[mem.staging.at].nested \in BOOLEAN
  BY <1>2, ContentFacts
<1> DEFINE f == IF mem.staging.inner THEN "dir" ELSE disk[mem.staging.at].form
           n == ~mem.staging.inner /\ disk[mem.staging.at].nested
<1>4. f \in {"archive", "file", "dir"} /\ n \in BOOLEAN
  BY <1>3
<1>5. Payload(state) = [of |-> disk[mem.staging.at].of, form |-> f, state |-> state, nested |-> n]
  BY DEF Payload
<1> HIDE DEF f, n
<1>6. Payload(state) \in Content /\ Payload(state).of = disk[mem.staging.at].of
      /\ Payload(state).state = state
  BY <1>3, <1>4, <1>5 DEF Content
<1>7. Without(mem.staging) \in Content \cup {Absent}
  BY <1>2 DEF Without, Content
<1> QED BY <1>2, <1>6, <1>7

LEMMA TypeInvFacts ==
  ASSUME TypeInv
  PROVE  /\ TypeOK /\ RunInv /\ CompletedIsDurable /\ disk \in DiskType
         /\ run.step # 0 => run \in RunType
         /\ run.step # 0 /\ ~(run.step = Finalise /\ run.phase = "save") => ~mem.completed
<1>1. TypeOK /\ RunInv /\ CompletedIsDurable
  BY DEF TypeInv
<1>2. disk \in DiskType /\ run \in {Idle} \cup RunType
  BY <1>1 DEF TypeOK, DiskType
<1> QED BY <1>1, <1>2, RunFacts DEF RunInv

\* A step of the pipeline at its operation.
LEMMA RunningFacts ==
  ASSUME TypeInv, NEW k \in Steps, Running(k)
  PROVE  /\ TypeOK /\ RunInv /\ run \in RunType /\ run.step = k /\ run.phase = "op"
         /\ mem \in MetaType /\ ~mem.completed /\ disk \in DiskType
         /\ [mem EXCEPT !.done = @ \cup {k}] \in MetaType
<1>1. run.step = k /\ run.phase = "op" /\ run.step # 0
  BY DEF Running, Steps
<1>2. TypeOK /\ RunInv /\ run \in RunType /\ ~mem.completed /\ disk \in DiskType
  BY <1>1, TypeInvFacts
<1>3. mem \in MetaType
  BY <1>2, OperandFacts
<1> QED BY <1>1, <1>2, <1>3, MetaUpdates

\* Recording a step as completed, or not, does not change anything else.
LEMMA RecordedFacts ==
  ASSUME NEW k \in Steps, NEW m \in MetaType
  PROVE  /\ [m EXCEPT !.done = @ \cup {k}] \in MetaType
         /\ LET r == [m EXCEPT !.done = @ \cup {k}] IN
              /\ r.done = m.done \cup {k} /\ r.completed = m.completed
              /\ r.staging = m.staging /\ r.artifact = m.artifact
              /\ r.checksums = m.checksums
BY DEF MetaType

LEMMA PlainTyped ==
  ASSUME TypeInv, NEW k \in Steps, k # Finalise, Running(k), UNCHANGED disk,
         NEW m \in MetaType, m.completed = mem.completed,
         Complete(k, m) \/ Skip(k, m) \/ Reject
  PROVE  TypeInv'
<1>1. /\ TypeOK /\ RunInv /\ run \in RunType /\ run.step = k /\ run.phase = "op"
      /\ ~mem.completed /\ disk \in DiskType
  BY RunningFacts
<1>2. /\ [m EXCEPT !.done = @ \cup {k}] \in MetaType
      /\ ~[m EXCEPT !.done = @ \cup {k}].completed
  BY <1>1, RecordedFacts
<1>3. CASE Complete(k, m)
  BY <1>1, <1>2, <1>3, SucceedTyped DEF Complete
<1>4. CASE Skip(k, m)
  BY <1>1, <1>4, SucceedTyped DEF Skip
<1>5. CASE Reject
  BY <1>1, <1>5, RejectTyped
<1> QED BY <1>3, <1>4, <1>5

LEMMA PlainStepsTyped ==
  ASSUME TypeInv,
         \/ RunValidatePolicy \/ RunAllowlist \/ RunPrepareDirectories \/ RunCompileRules
         \/ RunLocateSource \/ RunVerifyPar2 \/ RunPrepareWorkDir \/ RunSetPermissions
  PROVE  TypeInv'
<1>1. PICK k \in {1, 2, 3, 4, 5, 6, 7, 11} :
        Running(k) /\ UNCHANGED disk /\ (Complete(k, mem) \/ Skip(k, mem) \/ Reject)
  BY DEF RunValidatePolicy, RunAllowlist, RunPrepareDirectories, RunCompileRules,
         RunLocateSource, RunVerifyPar2, RunPrepareWorkDir, RunSetPermissions, PlainStep,
         Par2Verified, ApplyPermissions
<1>2. k \in Steps /\ k # Finalise
  BY DEF Steps
<1>3. mem \in MetaType
  BY <1>1, <1>2, RunningFacts
<1> QED BY <1>1, <1>2, <1>3, PlainTyped

EmptyDir == [of |-> run.t, form |-> "dir", state |-> "part", nested |-> FALSE]

LEMMA RunExtractTyped ==
  ASSUME TypeInv, RunExtract
  PROVE  TypeInv'
<1>1. Running(Extract) /\ Extract \in Steps
  BY DEF RunExtract, Steps
<1>2. /\ TypeOK /\ RunInv /\ run \in RunType /\ run.step = Extract /\ run.phase = "op"
      /\ mem \in MetaType /\ disk \in DiskType
  BY <1>1, RunningFacts
<1>3. CASE Skip(Extract, mem) /\ UNCHANGED disk
  BY <1>1, <1>2, <1>3, PlainTyped
<1>4. CASE disk' = [disk EXCEPT ![Ext(run.t)] = EmptyDir] /\ Phase("extract")
  <2>1. Ext(run.t) \in Places /\ run.t \in Torrents
    BY <1>2, OperandFacts
  <2>2. EmptyDir \in Content
    BY <2>1 DEF EmptyDir, Content
  <2>3. disk' \in DiskType
    BY <1>2, <1>4, <2>1, <2>2, DiskPut
  <2> QED BY <1>2, <1>4, <2>3, PhaseTyped
<1> QED BY <1>3, <1>4 DEF RunExtract, EmptyDir

\* extract_archive succeeds, or is rejected.
Unpacked(n) == [of |-> disk[mem.staging.at].of, form |-> "dir", state |-> "whole", nested |-> n]

LEMMA ExtractArchiveLeads ==
  ASSUME ExtractArchive
  PROVE  /\ run.step = Extract /\ run.phase = "extract"
         /\ \/ /\ Exists(mem.staging)
               /\ \E n \in BOOLEAN : disk' = [disk EXCEPT ![Ext(run.t)] = Unpacked(n)]
               /\ Complete(Extract, [mem EXCEPT !.staging = At(Ext(run.t))])
            \/ Reject /\ UNCHANGED disk
BY DEF ExtractArchive, Unpacked

LEMMA ExtractArchiveTyped ==
  ASSUME TypeInv, ExtractArchive
  PROVE  TypeInv'
<1>1. run.step = Extract /\ run.phase = "extract"
  BY DEF ExtractArchive
<1>2. TypeOK /\ RunInv /\ run \in RunType /\ disk \in DiskType /\ ~mem.completed
  BY <1>1, TypeInvFacts
<1> DEFINE m == [mem EXCEPT !.staging = At(Ext(run.t))]
<1>3. m \in MetaType /\ ~m.completed /\ Extract \in Steps
  BY <1>2, MetaUpdates, MetaUpdateFields DEF Steps
<1>4. CASE /\ Exists(mem.staging)
           /\ \E n \in BOOLEAN : disk' = [disk EXCEPT ![Ext(run.t)] = Unpacked(n)]
           /\ Complete(Extract, m)
  <2>1. PICK n \in BOOLEAN : disk' = [disk EXCEPT ![Ext(run.t)] = Unpacked(n)]
    BY <1>4
  <2>2. Ext(run.t) \in Places /\ disk[mem.staging.at] \in Content
    BY <1>2, <1>4, OperandFacts, PayloadFacts
  <2>3. Unpacked(n) \in Content
    BY <2>2 DEF Content, Unpacked
  <2>4. disk' \in DiskType
    BY <1>2, <2>1, <2>2, <2>3, DiskPut
  <2> DEFINE r == [m EXCEPT !.done = @ \cup {Extract}]
  <2>5. r \in MetaType /\ ~r.completed
    BY <1>3, RecordedFacts
  <2>6. Succeed(Extract, r)
    BY <1>4 DEF Complete
  <2> HIDE DEF r
  <2> QED BY <1>1, <1>2, <1>3, <2>4, <2>5, <2>6, SucceedTyped
<1>5. CASE Reject /\ UNCHANGED disk
  BY <1>2, <1>5, RejectTyped
<1> QED BY <1>4, <1>5, ExtractArchiveLeads

LEMMA RunFlattenTyped ==
  ASSUME TypeInv, RunFlatten
  PROVE  TypeInv'
<1>1. Running(Flatten) /\ Flatten \in Steps /\ UNCHANGED disk
  BY DEF RunFlatten, Steps
<1>2. TypeOK /\ run \in RunType /\ mem \in MetaType
  BY <1>1, RunningFacts
<1> DEFINE m == [mem EXCEPT !.staging.inner = TRUE]
<1>3. m \in MetaType /\ m.completed = mem.completed
  BY <1>1, <1>2, MetaUpdates, MetaUpdateFields
<1>4. Complete(Flatten, m) \/ Skip(Flatten, mem)
  BY DEF RunFlatten
<1> HIDE DEF m
<1> QED BY <1>1, <1>2, <1>3, <1>4, PlainTyped

\* A transfer in progress.
LEMMA TransferringFacts ==
  ASSUME TypeInv, run.step = Transfer, run.phase # "save"
  PROVE  /\ TypeOK /\ RunInv /\ run \in RunType /\ mem \in MetaType /\ ~mem.completed
         /\ disk \in DiskType /\ Transfer \in Steps
         /\ Placed(mem) \in MetaType /\ ~Placed(mem).completed
         /\ Destination \in Paths /\ Destination.at \in Places /\ mem.staging.at \in Places
<1>1. TypeOK /\ RunInv /\ run \in RunType /\ disk \in DiskType /\ ~mem.completed
  BY TypeInvFacts
<1>2. Transfer \in Steps
  BY DEF Steps
<1> QED BY <1>1, <1>2, OperandFacts, MetaUpdates, MetaUpdateFields

\* A transfer that has placed the artifact.
LEMMA PlacedTyped ==
  ASSUME TypeInv, run.step = Transfer, run.phase # "save", disk' \in DiskType,
         Complete(Transfer, Placed(mem))
  PROVE  TypeInv'
<1>1. /\ TypeOK /\ RunInv /\ run \in RunType /\ Transfer \in Steps
      /\ Placed(mem) \in MetaType /\ ~Placed(mem).completed
  BY TransferringFacts
<1> DEFINE r == [Placed(mem) EXCEPT !.done = @ \cup {Transfer}]
<1>2. r \in MetaType /\ ~r.completed
  BY <1>1, RecordedFacts
<1>3. Succeed(Transfer, r)
  BY DEF Complete
<1> HIDE DEF r
<1> QED BY <1>1, <1>2, <1>3, SucceedTyped

LEMMA RunTransferTyped ==
  ASSUME TypeInv, RunTransfer
  PROVE  TypeInv'
<1>1. Running(Transfer) /\ run.step = Transfer /\ run.phase = "op"
  BY DEF RunTransfer, Running
<1>2. /\ TypeOK /\ RunInv /\ run \in RunType /\ disk \in DiskType /\ Transfer \in Steps
      /\ Placed(mem) \in MetaType /\ ~Placed(mem).completed /\ Destination.at \in Places
  BY <1>1, TransferringFacts
<1>3. CASE Skip(Transfer, Placed(mem)) /\ UNCHANGED disk
  BY <1>1, <1>2, <1>3, SucceedTyped DEF Skip
<1>4. CASE disk' = [disk EXCEPT ![Destination.at] = Absent] /\ Phase("transfer")
  <2>1. disk' \in DiskType
    BY <1>2, <1>4, DiskPut
  <2> QED BY <1>1, <1>2, <1>4, <2>1, PhaseTyped
<1> QED BY <1>3, <1>4 DEF RunTransfer

LEMMA TransferFailsTyped ==
  ASSUME TypeInv, TransferUnsupported \/ TransferMissing
  PROVE  TypeInv'
<1>1. run.step = Transfer /\ run.phase = "transfer" /\ Reject
  BY DEF TransferUnsupported, TransferMissing, Transferring
<1>2. TypeOK /\ run \in RunType /\ disk \in DiskType /\ Destination.at \in Places
  BY <1>1, TransferringFacts
<1>3. run.t \in Torrents
  BY <1>2, OperandFacts
<1>4. EmptyDir \in Content
  BY <1>3 DEF EmptyDir, Content
<1>5. disk' = disk \/ disk' = [disk EXCEPT ![Destination.at] = EmptyDir]
  BY DEF TransferUnsupported, TransferMissing, EmptyDir
<1>6. disk' \in DiskType
  BY <1>2, <1>4, <1>5, DiskPut
<1> QED BY <1>1, <1>2, <1>6, RejectTyped

LEMMA TransferRenameTyped ==
  ASSUME TypeInv, TransferRename
  PROVE  TypeInv'
<1>1. run.step = Transfer /\ run.phase = "transfer" /\ Complete(Transfer, Placed(mem))
      /\ Exists(mem.staging)
  BY DEF TransferRename, Transferring
<1>2. /\ TypeOK /\ run \in RunType /\ disk \in DiskType
      /\ Destination.at \in Places /\ mem.staging.at \in Places
  BY <1>1, TransferringFacts
<1> DEFINE s == disk[mem.staging.at].state
<1>3. disk[mem.staging.at] \in Content
  BY <1>1, <1>2, PayloadFacts
<1>4. s \in {"whole", "part", "shell"}
  BY <1>3, ContentFacts
<1>5. Payload(s) \in Content /\ Without(mem.staging) \in Content \cup {Absent}
  BY <1>1, <1>2, <1>4, PayloadFacts
<1>6. disk' = [disk EXCEPT ![Destination.at] = Payload(s),
                           ![mem.staging.at] = Without(mem.staging)]
  BY DEF TransferRename
<1> HIDE DEF s
<1>7. disk' \in DiskType
  BY <1>2, <1>5, <1>6 DEF DiskType
<1> QED BY <1>1, <1>7, PlacedTyped

LEMMA TransferBeginTyped ==
  ASSUME TypeInv, TransferBegin
  PROVE  TypeInv'
<1>1. run.step = Transfer /\ run.phase = "transfer" /\ Phase("transfer") /\ Exists(mem.staging)
  BY DEF TransferBegin, Transferring
<1>2. TypeOK /\ run \in RunType /\ disk \in DiskType /\ Destination.at \in Places
  BY <1>1, TransferringFacts
<1>3. Payload("part") \in Content
  BY <1>1, <1>2, PayloadFacts
<1>4. disk' \in DiskType
  BY <1>2, <1>3, DiskPut DEF TransferBegin
<1> QED BY <1>1, <1>2, <1>4, PhaseTyped

LEMMA TransferEndTyped ==
  ASSUME TypeInv, TransferEnd
  PROVE  TypeInv'
<1>1. /\ run.step = Transfer /\ run.phase = "transfer" /\ Exists(mem.staging)
      /\ Phase("copied") \/ Complete(Transfer, Placed(mem))
  BY DEF TransferEnd, Transferring
<1>2. /\ TypeOK /\ run \in RunType /\ disk \in DiskType
      /\ Destination.at \in Places /\ mem.staging.at \in Places
  BY <1>1, TransferringFacts
<1> DEFINE s == disk[mem.staging.at].state
<1>3. disk[mem.staging.at] \in Content /\ disk[mem.staging.at] # Absent
  BY <1>1, <1>2, PayloadFacts, ContentFacts
<1>4. s \in {"whole", "part", "shell"}
  BY <1>3, ContentFacts
<1>5. Payload(s) \in Content
  BY <1>1, <1>2, <1>4, PayloadFacts
<1>6. disk' = [disk EXCEPT ![Destination.at] = Payload(s)]
  BY DEF TransferEnd
<1> HIDE DEF s
<1>7. disk' \in DiskType /\ disk'[mem.staging.at] # Absent
  BY <1>2, <1>3, <1>5, <1>6, ContentFacts DEF DiskType
<1>8. CASE Phase("copied")
  BY <1>1, <1>2, <1>7, <1>8, PhaseTyped
<1>9. CASE Complete(Transfer, Placed(mem))
  BY <1>1, <1>7, <1>9, PlacedTyped
<1> QED BY <1>1, <1>8, <1>9

LEMMA TransferRemoveTyped ==
  ASSUME TypeInv, TransferRemoveBegin \/ TransferRemoveEnd
  PROVE  TypeInv'
<1>1. run.step = Transfer /\ run.phase \in {"copied", "removing"}
  BY DEF TransferRemoveBegin, TransferRemoveEnd
<1>2. /\ TypeOK /\ RunInv /\ run \in RunType /\ disk \in DiskType /\ mem.staging.at \in Places
  BY <1>1, TransferringFacts
<1>3. disk[mem.staging.at] \in Content
  BY <1>1, <1>2 DEF RunInv, DiskType
<1>4. CASE TransferRemoveBegin
  <2> DEFINE c == [disk[mem.staging.at] EXCEPT !.state = "part"]
  <2>1. c \in Content
    BY <1>3 DEF Content
  <2>2. disk' = [disk EXCEPT ![mem.staging.at] = c] /\ Phase("removing")
    BY <1>4 DEF TransferRemoveBegin
  <2> HIDE DEF c
  <2>3. disk' \in DiskType /\ disk'[mem.staging.at] # Absent
    BY <1>2, <2>1, <2>2, ContentFacts DEF DiskType
  <2> QED BY <1>1, <1>2, <2>2, <2>3, PhaseTyped
<1>5. CASE TransferRemoveEnd
  <2>1. Without(mem.staging) \in Content \cup {Absent}
    BY <1>3 DEF Without, Content
  <2>2. disk' \in DiskType
    BY <1>2, <1>5, <2>1, DiskPut DEF TransferRemoveEnd
  <2> QED BY <1>1, <1>5, <2>2, PlacedTyped DEF TransferRemoveEnd
<1> QED BY <1>4, <1>5

LEMMA RunCleanupTyped ==
  ASSUME TypeInv, RunCleanup
  PROVE  TypeInv'
<1>1. Running(Cleanup) /\ Cleanup \in Steps
  BY DEF RunCleanup, Steps
<1>2. /\ TypeOK /\ RunInv /\ run \in RunType /\ run.step = Cleanup /\ run.phase = "op"
      /\ mem \in MetaType /\ ~mem.completed /\ disk \in DiskType
  BY <1>1, RunningFacts
<1>3. CASE Skip(Cleanup, mem) /\ UNCHANGED disk
  BY <1>1, <1>2, <1>3, PlainTyped
<1>4. CASE ArtifactExists /\ Complete(Cleanup, mem) /\ CleanupDestination
  <2>1. mem.artifact \in Paths /\ disk[mem.artifact.at] # Absent
    BY <1>2, <1>4, MetaFacts DEF ArtifactExists, Exists
  <2>2. mem.artifact.at \in Places /\ disk[mem.artifact.at] \in Content
    BY <1>2, <2>1, PlaceFacts DEF DiskType
  <2>3. PICK n \in {disk[mem.artifact.at].nested, TRUE} :
          disk' = [disk EXCEPT ![mem.artifact.at].nested = n]
    BY <1>4 DEF CleanupDestination
  <2> DEFINE c == [disk[mem.artifact.at] EXCEPT !.nested = n]
  <2>4. c \in Content
    BY <2>2, <2>3 DEF Content
  <2>5. disk' = [disk EXCEPT ![mem.artifact.at] = c]
    BY <2>3
  <2> HIDE DEF c
  <2>6. disk' \in DiskType
    BY <1>2, <2>2, <2>4, <2>5, DiskPut
  <2> DEFINE r == [mem EXCEPT !.done = @ \cup {Cleanup}]
  <2>7. r \in MetaType /\ ~r.completed
    BY <1>1, <1>2, RecordedFacts
  <2>8. Succeed(Cleanup, r)
    BY <1>4 DEF Complete
  <2> HIDE DEF r
  <2> QED BY <1>1, <1>2, <2>6, <2>7, <2>8, SucceedTyped
<1> QED BY <1>3, <1>4 DEF RunCleanup

LEMMA RunChecksumTyped ==
  ASSUME TypeInv, RunChecksum
  PROVE  TypeInv'
<1>1. Running(Checksum) /\ Checksum \in Steps /\ UNCHANGED disk
  BY DEF RunChecksum, Steps
<1>2. TypeOK /\ run \in RunType /\ mem \in MetaType /\ disk \in DiskType
  BY <1>1, RunningFacts
<1> DEFINE c == IF ArtifactExists THEN disk[mem.artifact.at] ELSE Absent
           m == [mem EXCEPT !.checksums = c]
<1>3. ArtifactExists => mem.artifact.at \in Places
  BY <1>2, MetaFacts, PlaceFacts DEF ArtifactExists
<1>4. c \in Content \cup {Absent}
  BY <1>2, <1>3 DEF DiskType
<1>5. Complete(Checksum, m) \/ Skip(Checksum, m)
  BY DEF RunChecksum, BuildChecksums
<1> HIDE DEF c
<1>6. m \in MetaType /\ m.completed = mem.completed
  BY <1>2, <1>4 DEF MetaType
<1> HIDE DEF m
<1> QED BY <1>1, <1>2, <1>5, <1>6, PlainTyped

LEMMA RunFinaliseLeads ==
  ASSUME TypeInv, RunFinalise, NEW m, m = [mem EXCEPT !.done = @ \cup {Finalise}, !.completed = TRUE]
  PROVE  /\ run \in RunType /\ run.step = Finalise /\ run.phase = "op" /\ TypeOK /\ RunInv
         /\ m \in MetaType /\ Saving(m) /\ disk' \in DiskType
         /\ m.done = mem.done \cup {Finalise} /\ m.completed /\ m.staging = mem.staging
         /\ m.artifact = mem.artifact /\ m.checksums = mem.checksums
         /\ \/ disk' = [disk EXCEPT ![Ext(run.t)] = Absent] /\ faults' = faults
            \/ faults < MaxFaults /\ faults' = faults + 1 /\ disk' = disk
         /\ UNCHANGED <<meta, degraded, outcome, fsPolicy, crashes, changes>>
<1>1. Running(Finalise) /\ Finalise \in Steps
  BY DEF RunFinalise, Steps
<1>2. /\ TypeOK /\ RunInv /\ run \in RunType /\ run.step = Finalise /\ run.phase = "op"
      /\ mem \in MetaType /\ disk \in DiskType
  BY <1>1, RunningFacts
<1>3. /\ \/ disk' = [disk EXCEPT ![Ext(run.t)] = Absent] /\ faults' = faults
         \/ faults < MaxFaults /\ faults' = faults + 1 /\ disk' = disk
      /\ UNCHANGED <<meta, degraded, outcome, fsPolicy, crashes, changes>>
  BY DEF RunFinalise
<1>4. Ext(run.t) \in Places
  BY <1>2, OperandFacts
<1>5. disk' \in DiskType
  BY <1>2, <1>3, <1>4, DiskPut
<1>6. /\ m.done = mem.done \cup {Finalise} /\ m.completed = TRUE /\ m.staging = mem.staging
      /\ m.artifact = mem.artifact /\ m.checksums = mem.checksums /\ m \in MetaType
  BY <1>1, <1>2 DEF MetaType
<1>7. run' = [run EXCEPT !.mem = m, !.phase = "save"]
  <2>1. run' = [run EXCEPT !.mem.done = @ \cup {Finalise}, !.mem.completed = TRUE, !.phase = "save"]
    BY DEF RunFinalise
  <2> QED BY <1>2, <2>1 DEF RunType, MetaType, mem
<1> QED BY <1>2, <1>3, <1>5, <1>6, <1>7 DEF Saving

LEMMA RunFinaliseTyped ==
  ASSUME TypeInv, RunFinalise
  PROVE  TypeInv'
<1> DEFINE m == [mem EXCEPT !.done = @ \cup {Finalise}, !.completed = TRUE]
<1>1. /\ run \in RunType /\ run.step = Finalise /\ TypeOK /\ RunInv
      /\ m \in MetaType /\ Saving(m) /\ disk' \in DiskType /\ m.completed
      /\ faults' = faults \/ (faults < MaxFaults /\ faults' = faults + 1)
      /\ UNCHANGED <<meta, degraded, outcome, fsPolicy, crashes, changes>>
  BY RunFinaliseLeads
<1> HIDE DEF m
<1>2. /\ run' \in RunType /\ run'.t = run.t /\ run'.mem = m
      /\ run'.step = Finalise /\ run'.phase = "save"
  BY <1>1, SavingRun
<1>3. TypeOK'
  BY <1>1, <1>2, FaultAssumption DEF TypeOK, DiskType
<1>4. ~Completed(run.t)
  BY <1>1 DEF RunInv
<1>5. RunInv'
  BY <1>1, <1>2, <1>4 DEF RunInv, mem, PersistsSuccess, Completed, Readable
<1>6. CompletedIsDurable'
  BY <1>1 DEF TypeInv, CompletedIsDurable, Completed, Readable
<1> QED BY <1>3, <1>5, <1>6 DEF TypeInv

\* The metadata is saved: the operation of Finalise begins, the pipeline goes
\* on, or it is over and the torrent completed.
LEMMA SaveMetaLeads ==
  ASSUME TypeInv, SaveMeta
  PROVE  /\ TypeOK /\ RunInv /\ run \in RunType /\ run.t \in Torrents /\ mem \in MetaType
         /\ meta' = [meta EXCEPT ![run.t] = mem]
         /\ UNCHANGED <<disk, fsPolicy, crashes, faults, changes>>
         /\ \/ /\ run.phase = "start" /\ run.step = Finalise
               /\ run' = [run EXCEPT !.phase = "op"] /\ UNCHANGED <<degraded, outcome>>
            \/ /\ run.phase = "save" /\ mem.completed /\ run' = Idle /\ degraded' = FALSE
               /\ outcome' = [outcome EXCEPT ![run.t] = "completed"]
            \/ /\ run.phase = "save" /\ ~mem.completed
               /\ Onward(run.step, mem) /\ UNCHANGED <<degraded, outcome>>
<1>1. run.step # 0 /\ run.phase \in {"start", "save"}
  BY DEF SaveMeta
<1>2. TypeOK /\ RunInv /\ run \in RunType
  BY <1>1, TypeInvFacts
<1>3. mem \in MetaType /\ run.t \in Torrents /\ run.step \in 0..14
  BY <1>2, RunFacts DEF TypeOK, Steps
<1>4. /\ meta' = [meta EXCEPT ![run.t] = mem]
      /\ UNCHANGED <<disk, fsPolicy, crashes, faults, changes>>
  BY DEF SaveMeta, env
<1>5. CASE run.phase = "start"
  BY <1>1, <1>2, <1>3, <1>4, <1>5 DEF SaveMeta, RunInv
<1>6. CASE run.phase = "save"
  <2>1. Goto(NextStep(mem, run.step), mem)
    BY <1>6 DEF SaveMeta
  <2>2. \/ /\ run.step = 14 \/ mem.completed
           /\ run' = Idle /\ degraded' = FALSE
           /\ outcome' = [outcome EXCEPT ![run.t] = "completed"]
        \/ Onward(run.step, mem) /\ UNCHANGED <<degraded, outcome>>
    BY <1>2, <1>3, <2>1, GotoLeads
  <2>3. mem.completed <=> run.step = 14
    BY <1>1, <1>2, <1>6 DEF RunInv
  <2>4. run.step = 14 => ~Onward(run.step, mem)
    BY DEF Onward
  <2> QED BY <1>2, <1>3, <1>4, <1>6, <2>2, <2>3, <2>4
<1> QED BY <1>1, <1>5, <1>6

LEMMA SaveMetaTyped ==
  ASSUME TypeInv, SaveMeta
  PROVE  TypeInv'
<1>1. /\ TypeOK /\ RunInv /\ run \in RunType /\ run.t \in Torrents /\ mem \in MetaType
      /\ meta' = [meta EXCEPT ![run.t] = mem]
      /\ UNCHANGED <<disk, fsPolicy, crashes, faults, changes>>
  BY SaveMetaLeads
<1>2. CompletedIsDurable /\ run.step # 0 /\ ~Completed(run.t)
  BY <1>1, RunFacts DEF TypeInv, RunInv, TypeOK
<1>3. meta' \in [Torrents -> MetaType \cup {NoFile, TornFile}]
  BY <1>1 DEF TypeOK
<1>4. /\ meta'[run.t] = mem
      /\ \A u \in Torrents : u # run.t => meta'[u] = meta[u]
  BY <1>1 DEF TypeOK
<1>5. ASSUME NEW u \in Torrents, IF u = run.t THEN mem.completed ELSE Completed(u)
      PROVE  Completed(u)'
  BY <1>1, <1>4, <1>5, FileFacts DEF Completed, Readable
<1>6. outcome[run.t] # "completed"
  BY <1>1, <1>2 DEF CompletedIsDurable
<1>7. CASE /\ run.phase = "start" /\ run.step = Finalise
           /\ run' = [run EXCEPT !.phase = "op"] /\ UNCHANGED <<degraded, outcome>>
  <2>1. /\ run' \in RunType /\ run'.t = run.t /\ run'.mem = run.mem
        /\ run'.step = Finalise /\ run'.phase = "op"
    BY <1>1, <1>7 DEF RunType
  <2>2. ~mem.completed
    BY <1>1, <1>2, <1>7 DEF RunInv
  <2>3. TypeOK'
    BY <1>1, <1>3, <1>7, <2>1 DEF TypeOK
  <2>4. ~Completed(run.t)'
    BY <1>4, <2>1, <2>2 DEF Completed, Readable
  <2>5. RunInv'
    BY <2>1, <2>2, <2>4 DEF RunInv, mem
  <2>6. CompletedIsDurable'
    BY <1>2, <1>5, <1>6, <1>7 DEF CompletedIsDurable
  <2> QED BY <2>3, <2>5, <2>6 DEF TypeInv
<1>8. CASE /\ run.phase = "save" /\ mem.completed /\ run' = Idle /\ degraded' = FALSE
           /\ outcome' = [outcome EXCEPT ![run.t] = "completed"]
  <2>1. TypeOK'
    BY <1>1, <1>3, <1>8 DEF TypeOK
  <2>2. RunInv'
    BY <1>8 DEF RunInv, Idle
  <2>3. \A u \in Torrents : u # run.t => outcome'[u] = outcome[u]
    BY <1>1, <1>8 DEF TypeOK
  <2>4. CompletedIsDurable'
    BY <1>2, <1>5, <1>8, <2>3 DEF CompletedIsDurable
  <2> QED BY <2>1, <2>2, <2>4 DEF TypeInv
<1>9. CASE /\ run.phase = "save" /\ ~mem.completed
           /\ Onward(run.step, mem) /\ UNCHANGED <<degraded, outcome>>
  <2>1. /\ run' \in RunType /\ run'.t = run.t /\ run'.mem = mem
        /\ run'.phase = "op" \/ (run'.phase = "start" /\ run'.step = Finalise)
    BY <1>9 DEF Onward
  <2>2. TypeOK'
    BY <1>1, <1>3, <1>9, <2>1 DEF TypeOK
  <2>3. ~Completed(run.t)'
    BY <1>4, <1>9, <2>1 DEF Completed, Readable
  <2>4. RunInv'
    BY <1>9, <2>1, <2>3 DEF RunInv, mem
  <2>5. CompletedIsDurable'
    BY <1>2, <1>5, <1>6, <1>9 DEF CompletedIsDurable
  <2> QED BY <2>2, <2>4, <2>5 DEF TypeInv
<1> QED BY <1>7, <1>8, <1>9, SaveMetaLeads

\* An I/O error or a crash ends the pipeline, and may cut the metadata file
\* short that is being written.
LEMMA InterruptLeads ==
  ASSUME TypeInv, IoError \/ Crash
  PROVE  /\ TypeOK /\ RunInv /\ run \in RunType /\ run.t \in Torrents /\ run' = Idle
         /\ meta' = meta \/ (meta' = [meta EXCEPT ![run.t] = TornFile] /\ run.phase \in {"start", "save"})
         /\ ~Uninterrupted'
         /\ \/ crashes' = crashes /\ faults < MaxFaults /\ faults' = faults + 1
               /\ degraded' = TRUE /\ outcome' = [outcome EXCEPT ![run.t] = "failed"]
            \/ faults' = faults /\ crashes < MaxCrashes /\ crashes' = crashes + 1
               /\ degraded' = FALSE /\ outcome' = outcome
         /\ UNCHANGED <<disk, fsPolicy, changes>>
<1>1. run.step # 0
  BY DEF IoError, Crash
<1>2. TypeOK /\ RunInv /\ run \in RunType
  BY <1>1, TypeInvFacts
<1>3. run.t \in Torrents /\ crashes \in Nat /\ faults \in Nat
  BY <1>2, FaultAssumption DEF RunType, TypeOK
<1>4. meta' = meta \/ (meta' = [meta EXCEPT ![run.t] = TornFile] /\ run.phase \in {"start", "save"})
  BY DEF IoError, Crash, WriteInterrupted
<1>5. \/ crashes' = crashes /\ faults < MaxFaults /\ faults' = faults + 1
         /\ degraded' = TRUE /\ outcome' = [outcome EXCEPT ![run.t] = "failed"]
      \/ faults' = faults /\ crashes < MaxCrashes /\ crashes' = crashes + 1
         /\ degraded' = FALSE /\ outcome' = outcome
  BY DEF IoError, Crash, Fail, MarkDegraded
<1>6. UNCHANGED <<disk, fsPolicy, changes>> /\ run' = Idle
  BY DEF IoError, Crash, Fail
<1>7. ~Uninterrupted'
  BY <1>3, <1>5 DEF Uninterrupted
<1> QED BY <1>2, <1>3, <1>4, <1>5, <1>6, <1>7

LEMMA InterruptTyped ==
  ASSUME TypeInv, IoError \/ Crash
  PROVE  TypeInv'
<1>1. /\ TypeOK /\ RunInv /\ run \in RunType /\ run.t \in Torrents /\ run' = Idle
      /\ meta' = meta \/ meta' = [meta EXCEPT ![run.t] = TornFile]
      /\ \/ crashes' = crashes /\ faults < MaxFaults /\ faults' = faults + 1
            /\ degraded' = TRUE /\ outcome' = [outcome EXCEPT ![run.t] = "failed"]
         \/ faults' = faults /\ crashes < MaxCrashes /\ crashes' = crashes + 1
            /\ degraded' = FALSE /\ outcome' = outcome
      /\ UNCHANGED <<disk, fsPolicy, changes>>
  BY InterruptLeads
<1>2. CompletedIsDurable /\ ~Completed(run.t)
  BY <1>1, RunFacts DEF TypeInv, RunInv, TypeOK
<1>3. meta' \in [Torrents -> MetaType \cup {NoFile, TornFile}]
  BY <1>1 DEF TypeOK
<1>4. outcome' \in [Torrents -> {"none", "completed", "failed"}] /\ degraded' \in BOOLEAN
  BY <1>1 DEF TypeOK
<1>5. crashes' \in 0..MaxCrashes /\ faults' \in 0..MaxFaults
  BY <1>1, FaultAssumption DEF TypeOK
<1>6. TypeOK'
  BY <1>1, <1>3, <1>4, <1>5 DEF TypeOK
<1>7. RunInv'
  BY <1>1 DEF RunInv, Idle
<1>8. \A u \in Torrents : u # run.t => meta'[u] = meta[u] /\ outcome'[u] = outcome[u]
  BY <1>1 DEF TypeOK
<1>9. outcome'[run.t] # "completed"
  BY <1>1, <1>2 DEF TypeOK, CompletedIsDurable
<1>10. CompletedIsDurable'
  BY <1>2, <1>8, <1>9 DEF CompletedIsDurable, Completed, Readable
<1> QED BY <1>6, <1>7, <1>10 DEF TypeInv

LEMMA ApplyLeads ==
  ASSUME TypeInv, NEW t \in Torrents, Apply(t)
  PROVE  /\ run = Idle /\ UNCHANGED <<disk, meta, fsPolicy, crashes, faults, changes>>
         /\ \/ run' = Idle /\ degraded' \in BOOLEAN
               /\ \E o \in {"completed", "failed"} :
                    outcome' = [outcome EXCEPT ![t] = o] /\ (o = "completed" => Completed(t))
            \/ /\ meta[t] # TornFile /\ ~Completed(t)
               /\ Load(t) \in MetaType /\ ~Load(t).completed
               /\ run' \in RunType /\ run'.t = t /\ run'.policy = fsPolicy
               /\ run'.mem = Load(t)
               /\ run'.phase = IF run'.step = Finalise THEN "start" ELSE "op"
               /\ \A i \in 1..(run'.step - 1) : i \in Load(t).done
               /\ run'.step = Finalise \/ run'.step \notin Load(t).done
               /\ UNCHANGED <<degraded, outcome>>
<1>1. TypeOK
  BY DEF TypeInv
<1>2. run = Idle /\ UNCHANGED <<disk, meta, fsPolicy, crashes, faults, changes>>
  BY DEF Apply, env
<1>3. meta[t] # TornFile => Load(t) \in MetaType
  BY <1>1, NewMetaFacts DEF TypeOK, Load
<1>4. meta[t] # TornFile => (Load(t).completed <=> Completed(t))
  BY <1>1, NewMetaFacts, FileFacts DEF Load, Completed, Readable
<1>5. CASE meta[t] = TornFile
  BY <1>2, <1>5 DEF Apply, Fail, MarkDegraded
<1>6. CASE meta[t] # TornFile /\ Load(t).completed
  BY <1>2, <1>4, <1>6 DEF Apply, MarkRecovered
<1>7. CASE meta[t] # TornFile /\ ~Load(t).completed
  <2> DEFINE k == NextStep(Load(t), 0)
             p == IF k = Finalise THEN "start" ELSE "op"
  <2>1. /\ k \in (0 + 1)..15
        /\ k = 15 \/ ~Skipped(Load(t), k)
        /\ \A i \in (0 + 1)..(k - 1) : Skipped(Load(t), i)
    BY NextStepFacts
  <2>2. run' = [t |-> t, policy |-> fsPolicy, step |-> k, mem |-> Load(t), phase |-> p]
    BY <1>7 DEF Apply
  <2>3. UNCHANGED <<degraded, outcome>>
    BY <1>7 DEF Apply
  <2>4. p \in {"start", "op"}
    OBVIOUS
  <2>5. p = IF k = Finalise THEN "start" ELSE "op"
    OBVIOUS
  <2> HIDE DEF k, p
  <2>6. k # 15
    BY <1>7, <2>1 DEF Skipped
  <2>7. k \in Steps /\ \A i \in 1..(k - 1) : i \in Load(t).done
    BY <2>1, <2>6 DEF Steps, Skipped
  <2>8. k = 14 \/ k \notin Load(t).done
    BY <2>1, <2>6 DEF Skipped
  <2>9. /\ run' \in RunType /\ run'.t = t /\ run'.policy = fsPolicy /\ run'.mem = Load(t)
        /\ run'.step = k /\ run'.phase = p
    BY <1>1, <1>3, <1>7, <2>2, <2>4, <2>7 DEF RunType, TypeOK
  <2> QED BY <1>2, <1>3, <1>4, <1>7, <2>3, <2>5, <2>7, <2>8, <2>9
<1> QED BY <1>5, <1>6, <1>7

LEMMA ApplyTyped ==
  ASSUME TypeInv, NEW t \in Torrents, Apply(t)
  PROVE  TypeInv'
<1>1. TypeOK /\ CompletedIsDurable
  BY DEF TypeInv
<1>2. UNCHANGED <<disk, meta, fsPolicy, crashes, faults, changes>>
  BY ApplyLeads
<1>3. CASE run' = Idle /\ degraded' \in BOOLEAN
           /\ \E o \in {"completed", "failed"} :
                outcome' = [outcome EXCEPT ![t] = o] /\ (o = "completed" => Completed(t))
  <2>1. TypeOK'
    BY <1>1, <1>2, <1>3 DEF TypeOK
  <2>2. RunInv'
    BY <1>3 DEF RunInv, Idle
  <2>3. CompletedIsDurable'
    BY <1>1, <1>2, <1>3 DEF CompletedIsDurable, Completed, Readable, TypeOK
  <2> QED BY <2>1, <2>2, <2>3 DEF TypeInv
<1>4. CASE /\ ~Completed(t) /\ ~Load(t).completed
           /\ run' \in RunType /\ run'.t = t /\ run'.mem = Load(t)
           /\ run'.phase = IF run'.step = Finalise THEN "start" ELSE "op"
           /\ UNCHANGED <<degraded, outcome>>
  <2>1. TypeOK'
    BY <1>1, <1>2, <1>4 DEF TypeOK
  <2>2. RunInv'
    BY <1>2, <1>4 DEF RunInv, mem, Completed, Readable
  <2>3. CompletedIsDurable'
    BY <1>1, <1>2, <1>4 DEF CompletedIsDurable, Completed, Readable
  <2> QED BY <2>1, <2>2, <2>3 DEF TypeInv
<1> QED BY <1>3, <1>4, ApplyLeads

LEMMA UpdateFsPolicyTyped ==
  ASSUME TypeInv, UpdateFsPolicy
  PROVE  TypeInv'
<1>1. /\ fsPolicy' \in Policies /\ changes < MaxPolicyChanges /\ changes' = changes + 1
      /\ UNCHANGED <<disk, meta, run, degraded, outcome, crashes, faults>>
  BY DEF UpdateFsPolicy
<1>2. TypeOK'
  BY <1>1, FaultAssumption DEF TypeInv, TypeOK
<1>3. RunInv'
  BY <1>1 DEF TypeInv, RunInv, mem, Completed, Readable
<1>4. CompletedIsDurable'
  BY <1>1 DEF TypeInv, CompletedIsDurable, Completed, Readable
<1> QED BY <1>2, <1>3, <1>4 DEF TypeInv

LEMMA InitTyped == Init => TypeInv
<1> SUFFICES ASSUME Init PROVE TypeInv
  OBVIOUS
<1>1. PICK form \in [Torrents -> Forms], nested \in [Torrents -> BOOLEAN] :
        disk = [p \in Places |->
           IF \E t \in Torrents : p = SourcePath(t)
           THEN LET t == CHOOSE u \in Torrents : p = SourcePath(u) IN
                [of |-> t, form |-> form[t], state |-> "whole",
                 nested |-> form[t] = "dir" /\ nested[t]]
           ELSE Absent]
  BY DEF Init
<1>2. ASSUME NEW t \in Torrents
      PROVE  [of |-> t, form |-> form[t], state |-> "whole",
              nested |-> form[t] = "dir" /\ nested[t]] \in Content
  BY FormsAssumption DEF Content
<1>3. disk \in [Places -> Content \cup {Absent}]
  BY <1>1, <1>2
<1>4. /\ meta = [t \in Torrents |-> NoFile] /\ run = Idle /\ degraded = FALSE
      /\ outcome = [t \in Torrents |-> "none"] /\ fsPolicy \in Policies
      /\ crashes = 0 /\ faults = 0 /\ changes = 0
  BY DEF Init
<1>5. TypeOK
  <2>1. meta \in [Torrents -> MetaType \cup {NoFile, TornFile}]
    BY <1>4
  <2>2. outcome \in [Torrents -> {"none", "completed", "failed"}]
    BY <1>4
  <2>3. crashes \in 0..MaxCrashes /\ faults \in 0..MaxFaults /\ changes \in 0..MaxPolicyChanges
    BY <1>4, FaultAssumption
  <2> QED BY <1>3, <1>4, <2>1, <2>2, <2>3 DEF TypeOK
<1>6. RunInv
  BY <1>4 DEF RunInv, Idle
<1>7. CompletedIsDurable
  BY <1>4 DEF CompletedIsDurable
<1> QED BY <1>5, <1>6, <1>7 DEF TypeInv

LEMMA StepTyped == TypeInv /\ [Next]_vars => TypeInv'
<1> SUFFICES ASSUME TypeInv, [Next]_vars PROVE TypeInv'
  OBVIOUS
<1>1. CASE \E t \in Torrents : Apply(t)
  BY <1>1, ApplyTyped
<1>2. CASE PipelineStep
  BY <1>2, PlainStepsTyped, RunExtractTyped, ExtractArchiveTyped, RunFlattenTyped,
     RunTransferTyped, TransferFailsTyped, TransferRenameTyped, TransferBeginTyped,
     TransferEndTyped, TransferRemoveTyped, RunCleanupTyped, RunChecksumTyped,
     RunFinaliseTyped, SaveMetaTyped DEF PipelineStep
<1>3. CASE UpdateFsPolicy
  BY <1>3, UpdateFsPolicyTyped
<1>4. CASE IoError \/ Crash
  BY <1>4, InterruptTyped
<1>5. CASE UNCHANGED vars
  <2>1. UNCHANGED <<disk, meta, run, degraded, outcome, fsPolicy, crashes, faults, changes>>
    BY <1>5 DEF vars, env
  <2>2. TypeOK'
    BY <2>1 DEF TypeInv, TypeOK
  <2>3. RunInv'
    BY <2>1 DEF TypeInv, RunInv, mem, Completed, Readable
  <2>4. CompletedIsDurable'
    BY <2>1 DEF TypeInv, CompletedIsDurable, Completed, Readable
  <2> QED BY <2>2, <2>3, <2>4 DEF TypeInv
<1> QED BY <1>1, <1>2, <1>3, <1>4, <1>5 DEF Next

LEMMA Typed == Spec => []TypeInv
BY InitTyped, StepTyped, PTL DEF Spec

\* Every variable has its type, whatever is interrupted: a transfer in
\* progress always has a staging path, and something is there while a move
\* removes it.
THEOREM TypeCorrect == Spec => []TypeOK
<1>1. TypeInv => TypeOK
  BY DEF TypeInv
<1> QED BY <1>1, Typed, PTL

\* FsopsCompleted is published only for a torrent whose metadata file says
\* `completed`, and the file goes on saying so.
THEOREM CompletedDurable == Spec => []CompletedIsDurable
<1>1. TypeInv => CompletedIsDurable
  BY DEF TypeInv
<1> QED BY <1>1, Typed, PTL

-----------------------------------------------------------------------------
(* The files of different torrents.  The library root is shared: if two    *)
(* payloads have the same name, or two archives are extracted (each to an  *)
(* entry named "extracted"), then one torrent's transfer removes what the  *)
(* other has put there.  What follows is proved for payloads whose places  *)
(* are apart (NamesApart).                                                 *)

\* Metadata of the torrent: its paths are among the torrent's places.  Before
\* Transfer they follow from which of Extract and Flatten are done.
MetaShape(t, m) ==
    /\ m.staging.at \in Own(t)
    /\ m.staging.at.kind = "extracted" => Extract \in m.done /\ Extracts
    /\ m.artifact # NoPath =>
         ~m.artifact.inner /\ m.artifact.at.kind = "library" /\ m.artifact.at \in Own(t)
    /\ m.artifact = NoPath =>
         /\ Transfer \notin m.done /\ Cleanup \notin m.done /\ Checksum \notin m.done
         /\ ~m.completed
         /\ m.staging.at = IF Extract \in m.done THEN Ext(t) ELSE SourcePath(t)
         /\ m.staging.inner <=> Flatten \in m.done

\* The metadata differ at most in the steps that do not persist their success.
Same(a, b) ==
    /\ a.staging = b.staging /\ a.artifact = b.artifact
    /\ a.checksums = b.checksums /\ a.completed = b.completed
    /\ \A k \in Steps : PersistsSuccess(k) => (k \in a.done <=> k \in b.done)

\* A resumed run finds the artifact in position, whatever Flatten does.
Fixed(m) == Transfer \in m.done \/ m.staging = m.artifact

\* The pipeline has left step k behind.
Past(k) == run.step > k \/ (run.step = k /\ run.phase = "save")

RunShape ==
    /\ MetaShape(run.t, mem)
    /\ meta[run.t] # TornFile
    /\ run.phase = "extract" => run.policy.extract /\ ~IsDir(mem.staging)
    /\ run.phase \in {"copied", "removing"} => run.policy.move_mode = "move"
    /\ run.phase # "save" /\ run.step # Finalise => run.step \notin mem.done
    /\ Past(Transfer) => mem.artifact # NoPath /\ Fixed(mem)
    /\ run.phase # "save" => Same(Load(run.t), mem)
    /\ changes = 0 => run.policy = fsPolicy

ShapeInv ==
    /\ \A t \in Torrents : Readable(t) => MetaShape(t, meta[t])
    /\ run.step # 0 => RunShape

LEMMA KindFacts ==
  ASSUME NEW t \in Torrents, NEW n \in Names
  PROVE  /\ Ext(t).kind = "extracted" /\ Lib(n).kind = "library" /\ Src(t).kind = "source"
         /\ SourcePath(t).kind \in {"library", "source"}
         /\ SourcePath(t) # Ext(t) /\ Lib(n) # Ext(t)
BY DEF Ext, Lib, Src, SourcePath

LEMMA NewMetaShape ==
  ASSUME NEW t \in Torrents
  PROVE  MetaShape(t, NewMeta(t))
<1>1. /\ NewMeta(t).staging = At(SourcePath(t)) /\ NewMeta(t).artifact = NoPath
      /\ NewMeta(t).done = {} /\ ~NewMeta(t).completed
  BY DEF NewMeta
<1>2. At(SourcePath(t)).at = SourcePath(t) /\ ~At(SourcePath(t)).inner
  BY DEF At
<1>3. SourcePath(t).kind # "extracted" /\ SourcePath(t) \in Own(t)
  BY NamesAssumption, KindFacts DEF Own
<1> QED BY <1>1, <1>2, <1>3 DEF MetaShape

\* Where the payload goes is one of the torrent's places in the library.
LEMMA DestinationFacts ==
  ASSUME TypeOK, run \in RunType, MetaShape(run.t, mem)
  PROVE  /\ ~Destination.inner /\ Destination.at.kind = "library"
         /\ Destination.at \in Own(run.t) /\ mem.staging.at \in Own(run.t)
         /\ Destination \in Paths /\ Destination # NoPath
         /\ Ext(run.t) \in Own(run.t)
<1>1. /\ mem \in MetaType /\ run.t \in Torrents /\ mem.staging \in Paths
      /\ mem.staging.at \in Places /\ mem.staging.inner \in BOOLEAN /\ Destination \in Paths
  BY OperandFacts
<1>2. mem.staging.at \in Own(run.t) /\ Ext(run.t) \in Own(run.t) /\ Destination # NoPath
  BY <1>1, PlaceFacts DEF MetaShape, Own
<1>3. CASE mem.artifact # NoPath
  BY <1>1, <1>2, <1>3 DEF Destination, MetaShape
<1>4. CASE mem.artifact = NoPath
  <2> DEFINE n == NameOf(run.t, mem.staging)
  <2>1. Destination = At(Lib(n)) /\ n \in Names
    BY <1>1, <1>4, NameOfType DEF Destination
  <2>2. Lib(n) \in Own(run.t)
    <3>1. CASE mem.staging.inner
      BY <3>1 DEF NameOf, Own
    <3>2. CASE ~mem.staging.inner /\ \E u \in Torrents : mem.staging.at = Src(u)
      BY <3>2 DEF NameOf, Own, Src
    <3>3. CASE ~mem.staging.inner /\ \E u \in Torrents : mem.staging.at = Ext(u)
      <4>1. mem.staging.at.kind = "extracted"
        BY <3>3 DEF Ext
      <4>2. n = Extracted
        BY <3>3, <4>1 DEF NameOf
      <4>3. Extracts
        BY <4>1 DEF MetaShape
      <4> QED BY <4>2, <4>3 DEF Own
    <3>4. CASE ~mem.staging.inner /\ \E q \in Names : mem.staging.at = Lib(q)
      <4>1. PICK q \in Names : mem.staging.at = Lib(q)
        BY <3>4
      <4>2. n = q
        BY <3>4, <4>1 DEF NameOf, Lib
      <4> QED BY <1>2, <4>1, <4>2
    <3> QED BY <1>1, <3>1, <3>2, <3>3, <3>4 DEF Places
  <2> HIDE DEF n
  <2>3. Destination.at = Lib(n) /\ ~Destination.inner /\ Lib(n).kind = "library"
    BY <2>1 DEF At, Lib
  <2> QED BY <1>1, <1>2, <2>2, <2>3
<1> QED BY <1>3, <1>4

LEMMA SameFacts ==
  /\ \A m : Same(m, m)
  /\ \A a, b : Same(a, b) => Same(b, a)
BY DEF Same

\* What a step of the run leaves alone: the metadata of the other torrents,
\* and of the disk all but the torrent's own places.
Local == \A p \in Places : p \notin Own(run.t) => disk'[p] = disk[p]

ShapeCtx == TypeInv /\ TypeInv' /\ ShapeInv

LEMMA SucceedShape ==
  ASSUME ShapeCtx, run \in RunType, run.phase # "save", NEW k \in Steps, k = run.step,
         k # Finalise, NEW m \in MetaType, ~m.completed, Succeed(k, m),
         MetaShape(run.t, m),
         k >= Transfer => m.artifact # NoPath /\ Fixed(m),
         ~PersistsSuccess(k) => Same(mem, m)
  PROVE  ShapeInv'
<1>1. TypeOK /\ RunInv /\ ShapeInv /\ run.step # 0 /\ RunShape
  BY RunFacts DEF ShapeCtx, TypeInv, ShapeInv, TypeOK
<1>2. /\ UNCHANGED <<meta, fsPolicy, changes>>
      /\ IF PersistsSuccess(k) THEN Saving(m) ELSE Onward(k, m)
  BY <1>1, SucceedLeads
<1>3. (\A t \in Torrents : Readable(t) => MetaShape(t, meta[t]))'
  BY <1>1, <1>2 DEF ShapeInv, Readable
<1>4. CASE PersistsSuccess(k)
  <2>1. /\ run'.t = run.t /\ run'.policy = run.policy /\ run'.mem = m
        /\ run'.step = k /\ run'.phase = "save"
    BY <1>2, <1>4, SavingRun
  <2>2. Past(Transfer)' => k >= Transfer
    BY <2>1 DEF Past, Steps
  <2>3. RunShape'
    BY <1>1, <1>2, <2>1, <2>2 DEF RunShape, mem
  <2> QED BY <1>3, <2>3 DEF ShapeInv
<1>5. CASE ~PersistsSuccess(k)
  <2>1. Onward(k, m) /\ k \in {1, 2, 4}
    BY <1>2, <1>5 DEF PersistsSuccess
  <2>2. /\ run'.t = run.t /\ run'.policy = run.policy /\ run'.mem = m
        /\ run'.step \in Steps /\ run'.phase \in {"start", "op"}
        /\ run'.step # Finalise => run'.step \notin m.done
    BY <2>1 DEF Onward, Steps
  <2>3. ASSUME Past(Transfer)' PROVE m.artifact # NoPath /\ Fixed(m)
    <3>1. Transfer \in (k + 1)..(run'.step - 1)
      BY <2>1, <2>2, <2>3 DEF Past, Steps
    <3>2. Transfer \in m.done
      BY <2>1, <3>1 DEF Onward
    <3> QED BY <3>2 DEF MetaShape, Fixed
  <2>4. Same(Load(run.t), mem) /\ Same(mem, m)
    BY <1>1, <1>5 DEF RunShape
  <2>5. Same(Load(run.t), m)
    BY <2>4 DEF Same
  <2>6. Same(Load(run.t), mem)'
    BY <1>2, <2>2, <2>5 DEF mem, Load
  <2>7. RunShape'
    BY <1>1, <1>2, <2>2, <2>3, <2>6 DEF RunShape, mem
  <2> QED BY <1>3, <2>7 DEF ShapeInv
<1> QED BY <1>4, <1>5

LEMMA IdleShape ==
  ASSUME ShapeInv, run' = Idle, UNCHANGED meta
  PROVE  ShapeInv'
BY DEF ShapeInv, Idle, Readable

LEMMA PhaseShape ==
  ASSUME ShapeCtx, run \in RunType,
         NEW phase \in {"extract", "transfer", "copied", "removing"}, Phase(phase),
         run.phase # "save", run.step \in {Extract, Transfer},
         phase = "extract" => run.policy.extract /\ ~IsDir(mem.staging)',
         phase \in {"copied", "removing"} => run.policy.move_mode = "move"
  PROVE  ShapeInv'
<1>1. TypeOK /\ RunInv /\ ShapeInv /\ run.step # 0 /\ RunShape
  BY RunFacts DEF ShapeCtx, TypeInv, ShapeInv, TypeOK
<1>2. UNCHANGED <<meta, fsPolicy, changes>>
  BY PhaseLeads
<1>3. /\ run'.t = run.t /\ run'.policy = run.policy /\ run'.mem = run.mem
      /\ run'.step = run.step /\ run'.phase = phase
  BY PhaseRun
<1>4. (\A t \in Torrents : Readable(t) => MetaShape(t, meta[t]))'
  BY <1>1, <1>2 DEF ShapeInv, Readable
<1>5. ~Past(Transfer)'
  BY <1>3 DEF Past
<1>6. Same(Load(run.t), mem)'
  BY <1>1, <1>2, <1>3 DEF RunShape, mem, Load
<1>7. RunShape'
  BY <1>1, <1>2, <1>3, <1>5, <1>6 DEF RunShape, mem
<1> QED BY <1>4, <1>7 DEF ShapeInv

\* Steps that change nothing but which steps are done.
LEMMA PlainShape ==
  ASSUME ShapeCtx, NEW k \in {1, 2, 3, 4, 5, 6, 7, 8, 9, 11, 12}, Running(k),
         \/ Complete(k, mem) /\ k \notin {8, 9} /\ (k = 12 => mem.artifact # NoPath)
         \/ Skip(k, mem) \/ Reject
  PROVE  ShapeInv'
<1>1. k \in Steps /\ k # Finalise
  BY DEF Steps
<1>2. /\ TypeOK /\ RunInv /\ run \in RunType /\ run.step = k /\ run.phase = "op"
      /\ mem \in MetaType /\ ~mem.completed
  BY <1>1, RunningFacts DEF ShapeCtx
<1>3. RunShape /\ ShapeInv
  BY <1>1, <1>2 DEF ShapeCtx, ShapeInv, Steps
<1>4. MetaShape(run.t, mem) /\ (k > Transfer => mem.artifact # NoPath /\ Fixed(mem))
  BY <1>2, <1>3 DEF RunShape, Past
<1>5. CASE Complete(k, mem) /\ (k \notin {8, 9}) /\ (k = 12 => mem.artifact # NoPath)
  <2> DEFINE r == [mem EXCEPT !.done = @ \cup {k}]
  <2>1. /\ r \in MetaType /\ ~r.completed
        /\ r.done = mem.done \cup {k} /\ r.completed = mem.completed
        /\ r.staging = mem.staging /\ r.artifact = mem.artifact
        /\ r.checksums = mem.checksums
    BY <1>1, <1>2, RecordedFacts
  <2>2. Succeed(k, r)
    BY <1>5 DEF Complete
  <2> HIDE DEF r
  <2>3. MetaShape(run.t, r)
    BY <1>4, <1>5, <2>1 DEF MetaShape
  <2>4. k >= Transfer => r.artifact # NoPath /\ Fixed(r)
    BY <1>4, <2>1 DEF Fixed
  <2>5. ~PersistsSuccess(k) => Same(mem, r)
    BY <1>2, <2>1 DEF Same, PersistsSuccess
  <2> QED BY <1>1, <1>2, <2>1, <2>2, <2>3, <2>4, <2>5, SucceedShape
<1>6. CASE Skip(k, mem)
  <2>1. k >= Transfer => mem.artifact # NoPath /\ Fixed(mem)
    BY <1>4
  <2> QED BY <1>1, <1>2, <1>4, <1>6, <2>1, SameFacts, SucceedShape DEF Skip
<1>7. CASE Reject
  BY <1>3, <1>7, RejectLeads, IdleShape
<1> QED BY <1>5, <1>6, <1>7

\* Steps that change only what is recorded of the artifact: the disk is
\* changed in the torrent's places.
LEMMA PlainStepsShape ==
  ASSUME ShapeCtx,
         \/ RunValidatePolicy \/ RunAllowlist \/ RunPrepareDirectories \/ RunCompileRules
         \/ RunLocateSource \/ RunVerifyPar2 \/ RunPrepareWorkDir \/ RunSetPermissions
  PROVE  ShapeInv' /\ UNCHANGED <<disk, meta>>
<1>1. PICK k \in {1, 2, 3, 4, 5, 6, 7, 11} :
        Running(k) /\ UNCHANGED disk /\ (Complete(k, mem) \/ Skip(k, mem) \/ Reject)
  BY DEF RunValidatePolicy, RunAllowlist, RunPrepareDirectories, RunCompileRules,
         RunLocateSource, RunVerifyPar2, RunPrepareWorkDir, RunSetPermissions, PlainStep,
         Par2Verified, ApplyPermissions
<1>2. UNCHANGED meta
  BY <1>1 DEF Complete, Skip, Succeed, Reject
<1> QED BY <1>1, <1>2, PlainShape

LEMMA PutLocal ==
  ASSUME TypeInv, NEW q \in Own(run.t), NEW c, disk' = [disk EXCEPT ![q] = c]
  PROVE  Local
BY DEF Local, TypeInv, TypeOK

LEMMA RunExtractShape ==
  ASSUME ShapeCtx, RunExtract
  PROVE  ShapeInv' /\ Local /\ UNCHANGED meta
<1>1. Running(Extract) /\ Extract \in Steps /\ Extract \in {1, 2, 3, 4, 5, 6, 7, 8, 9, 11, 12}
  BY DEF RunExtract, Steps
<1>2. /\ TypeOK /\ RunInv /\ run \in RunType /\ run.step = Extract /\ run.phase = "op"
      /\ mem \in MetaType /\ disk \in DiskType
  BY <1>1, RunningFacts DEF ShapeCtx
<1>3. CASE Skip(Extract, mem) /\ UNCHANGED disk
  <2>1. UNCHANGED meta
    BY <1>3 DEF Skip, Succeed
  <2> QED BY <1>1, <1>3, <2>1, PlainShape DEF Local
<1>4. CASE /\ run.policy.extract /\ ~IsDir(mem.staging)
           /\ disk' = [disk EXCEPT ![Ext(run.t)] = EmptyDir] /\ Phase("extract")
  <2>1. RunShape
    BY <1>1, <1>2 DEF ShapeCtx, ShapeInv, Steps
  <2>2. MetaShape(run.t, mem) /\ Extract \notin mem.done
    BY <1>2, <2>1 DEF RunShape
  <2>3. mem.staging.at # Ext(run.t)
    BY <1>2, <2>2 DEF MetaShape, Ext
  <2>4. mem.staging.at \in Places /\ mem' = mem
    BY <1>2, <1>4, OperandFacts, PhaseRun DEF mem
  <2>5. disk'[mem.staging.at] = disk[mem.staging.at]
    BY <1>4, <1>2, <2>3, <2>4 DEF DiskType
  <2>6. ~IsDir(mem.staging)'
    BY <1>4, <2>4, <2>5 DEF IsDir, Exists
  <2>7. ShapeInv' /\ UNCHANGED meta
    BY <1>2, <1>4, <2>6, PhaseShape, PhaseLeads
  <2>8. Local
    BY <1>4, PutLocal DEF ShapeCtx, Own
  <2> QED BY <2>7, <2>8
<1> QED BY <1>3, <1>4 DEF RunExtract, EmptyDir

LEMMA ExtractArchiveShape ==
  ASSUME ShapeCtx, ExtractArchive
  PROVE  ShapeInv' /\ Local /\ UNCHANGED meta
<1>1. run.step = Extract /\ run.phase = "extract"
  BY DEF ExtractArchive
<1>2. TypeOK /\ RunInv /\ run \in RunType /\ disk \in DiskType /\ ~mem.completed
      /\ mem \in MetaType /\ run.t \in Torrents
  BY <1>1, TypeInvFacts, OperandFacts DEF ShapeCtx
<1>3. RunShape /\ ShapeInv
  BY <1>1 DEF ShapeCtx, ShapeInv
<1> DEFINE m == [mem EXCEPT !.staging = At(Ext(run.t))]
<1>4. /\ m \in MetaType /\ ~m.completed /\ Extract \in Steps
      /\ m.done = mem.done /\ m.completed = mem.completed
      /\ m.staging = At(Ext(run.t)) /\ m.artifact = mem.artifact
      /\ m.checksums = mem.checksums
  BY <1>2, MetaUpdates, MetaUpdateFields DEF Steps
<1>5. CASE /\ Exists(mem.staging)
           /\ \E n \in BOOLEAN : disk' = [disk EXCEPT ![Ext(run.t)] = Unpacked(n)]
           /\ Complete(Extract, m)
  <2> DEFINE r == [m EXCEPT !.done = @ \cup {Extract}]
  <2>1. /\ r \in MetaType /\ ~r.completed
        /\ r.done = m.done \cup {Extract} /\ r.completed = m.completed
        /\ r.staging = m.staging /\ r.artifact = m.artifact
        /\ r.checksums = m.checksums
    BY <1>4, RecordedFacts
  <2>2. Succeed(Extract, r)
    BY <1>5 DEF Complete
  <2> HIDE DEF r, m
  <2>3. /\ MetaShape(run.t, mem) /\ Extract \notin mem.done
        /\ run.policy.extract /\ ~IsDir(mem.staging)
    BY <1>1, <1>3 DEF RunShape
  <2>4. ~mem.staging.inner
    BY <1>5, <2>3 DEF IsDir
  <2>5. /\ r.staging.at = Ext(run.t) /\ ~r.staging.inner /\ Extracts
    BY <1>2, <1>4, <2>1, <2>3 DEF At, Extracts, RunType
  <2>6. MetaShape(run.t, r)
    BY <1>4, <2>1, <2>3, <2>4, <2>5 DEF MetaShape, Own
  <2>7. ShapeInv'
    BY <1>1, <1>2, <1>4, <2>1, <2>2, <2>6, SucceedShape DEF PersistsSuccess
  <2>8. Local /\ UNCHANGED meta
    BY <1>5, <2>2, PutLocal DEF ShapeCtx, Own, Succeed
  <2> QED BY <2>7, <2>8
<1>6. CASE Reject /\ UNCHANGED disk
  BY <1>3, <1>6, RejectLeads, IdleShape DEF Local
<1> QED BY <1>5, <1>6, ExtractArchiveLeads

\* The directory that Flatten finds.
LEMMA RunFlattenLeads ==
  ASSUME TypeInv, RunFlatten, NEW r,
         r = [[mem EXCEPT !.staging.inner = TRUE] EXCEPT !.done = @ \cup {Flatten}]
  PROVE  /\ Running(Flatten) /\ UNCHANGED disk
         /\ \/ /\ run.policy.flatten /\ IsDir(mem.staging) /\ disk[mem.staging.at].nested
               /\ Succeed(Flatten, r) /\ r \in MetaType /\ ~r.completed
               /\ r.done = mem.done \cup {Flatten} /\ r.staging.at = mem.staging.at
               /\ r.staging = [at |-> mem.staging.at, inner |-> TRUE]
               /\ r.staging.inner /\ r.artifact = mem.artifact /\ r.checksums = mem.checksums
            \/ /\ ~(run.policy.flatten /\ IsDir(mem.staging) /\ disk[mem.staging.at].nested)
               /\ Skip(Flatten, mem)
<1>1. Running(Flatten) /\ Flatten \in Steps /\ UNCHANGED disk
  BY DEF RunFlatten, Steps
<1>2. TypeOK /\ run \in RunType /\ mem \in MetaType /\ ~mem.completed
  BY <1>1, RunningFacts
<1> DEFINE m == [mem EXCEPT !.staging.inner = TRUE]
<1>3. /\ m \in MetaType /\ ~m.completed
      /\ m.done = mem.done /\ m.completed = mem.completed
      /\ m.staging.at = mem.staging.at /\ m.staging.inner
      /\ m.artifact = mem.artifact /\ m.checksums = mem.checksums
  BY <1>1, <1>2, MetaUpdates, MetaUpdateFields
<1>4. m.staging = [at |-> mem.staging.at, inner |-> TRUE]
  BY <1>2, OperandFacts DEF MetaType, Paths
<1>5. \/ /\ run.policy.flatten /\ IsDir(mem.staging) /\ disk[mem.staging.at].nested
         /\ Complete(Flatten, m)
      \/ /\ ~(run.policy.flatten /\ IsDir(mem.staging) /\ disk[mem.staging.at].nested)
         /\ Skip(Flatten, mem)
  BY DEF RunFlatten
<1>6. r = [m EXCEPT !.done = @ \cup {Flatten}]
  OBVIOUS
<1> HIDE DEF m
<1>7. /\ r \in MetaType /\ r.done = m.done \cup {Flatten} /\ r.completed = m.completed
      /\ r.staging = m.staging /\ r.artifact = m.artifact /\ r.checksums = m.checksums
  <2> DEFINE q == [m EXCEPT !.done = @ \cup {Flatten}]
  <2>1. /\ q \in MetaType /\ q.done = m.done \cup {Flatten} /\ q.completed = m.completed
        /\ q.staging = m.staging /\ q.artifact = m.artifact /\ q.checksums = m.checksums
    BY <1>1, <1>3, RecordedFacts
  <2> QED BY <1>6, <2>1
<1>8. Complete(Flatten, m) => Succeed(Flatten, r)
  BY <1>6 DEF Complete
<1> QED BY <1>1, <1>3, <1>4, <1>5, <1>7, <1>8

LEMMA RunFlattenShape ==
  ASSUME ShapeCtx, RunFlatten
  PROVE  ShapeInv' /\ Local /\ UNCHANGED meta
<1> DEFINE r == [[mem EXCEPT !.staging.inner = TRUE] EXCEPT !.done = @ \cup {Flatten}]
<1>0. TypeInv
  BY DEF ShapeCtx
<1>1. /\ Running(Flatten) /\ UNCHANGED disk
      /\ \/ /\ Succeed(Flatten, r) /\ r \in MetaType /\ ~r.completed
            /\ r.done = mem.done \cup {Flatten} /\ r.staging.at = mem.staging.at
            /\ r.staging.inner /\ r.artifact = mem.artifact
         \/ Skip(Flatten, mem)
  BY <1>0, RunFlattenLeads
<1> HIDE DEF r
<1>2. Flatten \in Steps /\ Flatten \in {1, 2, 3, 4, 5, 6, 7, 8, 9, 11, 12}
  BY DEF Steps
<1>3. TypeOK /\ run \in RunType /\ run.step = Flatten /\ run.phase = "op"
  BY <1>0, <1>1, <1>2, RunningFacts
<1>4. MetaShape(run.t, mem)
  BY <1>3 DEF ShapeCtx, ShapeInv, RunShape
<1>5. CASE Skip(Flatten, mem)
  BY <1>1, <1>2, <1>5, PlainShape DEF Local, Skip, Succeed
<1>6. CASE /\ Succeed(Flatten, r) /\ r \in MetaType /\ ~r.completed
           /\ r.done = mem.done \cup {Flatten} /\ r.staging.at = mem.staging.at
           /\ r.staging.inner /\ r.artifact = mem.artifact
  <2>1. MetaShape(run.t, r)
    BY <1>4, <1>6 DEF MetaShape
  <2>2. ShapeInv'
    BY <1>2, <1>3, <1>6, <2>1, SucceedShape DEF PersistsSuccess
  <2> QED BY <1>1, <1>6, <2>2 DEF Local, Succeed
<1> QED BY <1>1, <1>5, <1>6

\* The metadata once the artifact is placed, and Transfer recorded or not.
LEMMA PlacedFacts ==
  ASSUME TypeInv, run.step = Transfer, run.phase # "save", MetaShape(run.t, mem),
         NEW r, r \in {Placed(mem), [Placed(mem) EXCEPT !.done = @ \cup {Transfer}]}
  PROVE  /\ r \in MetaType /\ ~r.completed
         /\ r.done \in {mem.done, mem.done \cup {Transfer}}
         /\ r # Placed(mem) => r.done = mem.done \cup {Transfer}
         /\ r.staging = Destination /\ r.artifact = Destination
         /\ r.checksums = mem.checksums
         /\ MetaShape(run.t, r) /\ Fixed(r) /\ r.artifact # NoPath
<1>1. /\ TypeOK /\ run \in RunType /\ Transfer \in Steps
      /\ Placed(mem) \in MetaType /\ ~Placed(mem).completed
  BY TransferringFacts
<1>2. /\ Placed(mem).done = mem.done /\ Placed(mem).completed = mem.completed
      /\ Placed(mem).staging = Destination /\ Placed(mem).artifact = Destination
      /\ Placed(mem).checksums = mem.checksums
  BY <1>1, MetaUpdateFields
<1>3. /\ r \in MetaType /\ ~r.completed
      /\ r.done \in {mem.done, mem.done \cup {Transfer}}
      /\ r # Placed(mem) => r.done = mem.done \cup {Transfer}
      /\ r.staging = Destination /\ r.artifact = Destination
      /\ r.checksums = mem.checksums
  <2> DEFINE q == [Placed(mem) EXCEPT !.done = @ \cup {Transfer}]
  <2>1. /\ q \in MetaType /\ q.done = Placed(mem).done \cup {Transfer}
        /\ q.completed = Placed(mem).completed
        /\ q.staging = Placed(mem).staging /\ q.artifact = Placed(mem).artifact
        /\ q.checksums = Placed(mem).checksums
    BY <1>1, RecordedFacts
  <2>2. r \in {Placed(mem), q}
    OBVIOUS
  <2> HIDE DEF q
  <2> QED BY <1>1, <1>2, <2>1, <2>2
<1>4. /\ ~Destination.inner /\ Destination.at.kind = "library"
      /\ Destination.at \in Own(run.t) /\ Destination # NoPath
  BY <1>1, DestinationFacts
<1> QED BY <1>3, <1>4 DEF MetaShape, Fixed

LEMMA PlacedShape ==
  ASSUME ShapeCtx, run.step = Transfer, run.phase # "save",
         Complete(Transfer, Placed(mem)) \/ Skip(Transfer, Placed(mem))
  PROVE  ShapeInv' /\ UNCHANGED meta
<1>1. TypeInv /\ RunShape
  BY DEF ShapeCtx, ShapeInv
<1>2. TypeOK /\ run \in RunType /\ Transfer \in Steps /\ MetaShape(run.t, mem)
  BY <1>1, TransferringFacts DEF RunShape
<1>3. PICK r \in {Placed(mem), [Placed(mem) EXCEPT !.done = @ \cup {Transfer}]} :
        Succeed(Transfer, r)
  BY DEF Complete, Skip
<1>4. r \in MetaType /\ ~r.completed /\ MetaShape(run.t, r) /\ Fixed(r) /\ r.artifact # NoPath
  BY <1>1, <1>2, PlacedFacts
<1>5. UNCHANGED meta
  BY <1>3 DEF Succeed
<1> QED BY <1>2, <1>3, <1>4, <1>5, SucceedShape DEF PersistsSuccess

\* The facts about a transfer in progress that every step of it needs.
LEMMA TransferShape ==
  ASSUME ShapeCtx, run.step = Transfer, run.phase # "save"
  PROVE  /\ TypeInv /\ TypeOK /\ RunInv /\ RunShape /\ ShapeInv /\ run \in RunType
         /\ MetaShape(run.t, mem) /\ Transfer \notin mem.done
         /\ Destination.at \in Own(run.t) /\ mem.staging.at \in Own(run.t)
         /\ disk \in DiskType
<1>1. TypeInv /\ RunShape /\ ShapeInv
  BY DEF ShapeCtx, ShapeInv
<1>2. TypeOK /\ RunInv /\ run \in RunType /\ disk \in DiskType
  BY <1>1, TransferringFacts
<1>3. MetaShape(run.t, mem) /\ Transfer \notin mem.done
  BY <1>1 DEF RunShape
<1> QED BY <1>1, <1>2, <1>3, DestinationFacts

LEMMA RunTransferShape ==
  ASSUME ShapeCtx, RunTransfer
  PROVE  ShapeInv' /\ Local /\ UNCHANGED meta
<1>1. run.step = Transfer /\ run.phase = "op"
  BY DEF RunTransfer, Running
<1>2. run \in RunType /\ Destination.at \in Own(run.t) /\ TypeInv
  BY <1>1, TransferShape
<1>3. CASE Skip(Transfer, Placed(mem)) /\ UNCHANGED disk
  BY <1>1, <1>3, PlacedShape DEF Local
<1>4. CASE disk' = [disk EXCEPT ![Destination.at] = Absent] /\ Phase("transfer")
  BY <1>1, <1>2, <1>4, PutLocal, PhaseShape, PhaseLeads
<1> QED BY <1>3, <1>4 DEF RunTransfer

LEMMA TransferFailsShape ==
  ASSUME ShapeCtx, TransferUnsupported \/ TransferMissing
  PROVE  ShapeInv' /\ Local /\ UNCHANGED meta
<1>1. run.step = Transfer /\ run.phase = "transfer" /\ Reject
  BY DEF TransferUnsupported, TransferMissing, Transferring
<1>2. Destination.at \in Own(run.t) /\ TypeInv /\ ShapeInv
  BY <1>1, TransferShape
<1>3. disk' = disk \/ disk' = [disk EXCEPT ![Destination.at] = EmptyDir]
  BY DEF TransferUnsupported, TransferMissing, EmptyDir
<1>4. Local
  BY <1>2, <1>3, PutLocal DEF Local
<1> QED BY <1>1, <1>2, <1>4, RejectLeads, IdleShape

LEMMA TransferRenameShape ==
  ASSUME ShapeCtx, TransferRename
  PROVE  ShapeInv' /\ Local /\ UNCHANGED meta
<1>1. run.step = Transfer /\ run.phase = "transfer" /\ Complete(Transfer, Placed(mem))
  BY DEF TransferRename, Transferring
<1>2. Destination.at \in Own(run.t) /\ mem.staging.at \in Own(run.t) /\ disk \in DiskType
  BY <1>1, TransferShape
<1> DEFINE c == Payload(disk[mem.staging.at].state)
           w == Without(mem.staging)
<1>3. disk' = [disk EXCEPT ![Destination.at] = c, ![mem.staging.at] = w]
  BY DEF TransferRename
<1> HIDE DEF c, w
<1>4. Local
  BY <1>2, <1>3 DEF Local, DiskType
<1> QED BY <1>1, <1>4, PlacedShape

LEMMA TransferCopyShape ==
  ASSUME ShapeCtx, TransferBegin \/ TransferEnd
  PROVE  ShapeInv' /\ Local /\ UNCHANGED meta
<1>1. /\ run.step = Transfer /\ run.phase = "transfer"
      /\ \/ Phase("transfer") \/ Complete(Transfer, Placed(mem))
         \/ Phase("copied") /\ run.policy.move_mode = "move"
  BY DEF TransferBegin, TransferEnd, Transferring
<1>2. Destination.at \in Own(run.t) /\ TypeInv /\ run \in RunType
  BY <1>1, TransferShape
<1>3. \E c : disk' = [disk EXCEPT ![Destination.at] = c]
  BY DEF TransferBegin, TransferEnd
<1>4. Local
  BY <1>2, <1>3, PutLocal
<1>5. CASE Phase("transfer")
  BY <1>1, <1>2, <1>4, <1>5, PhaseShape, PhaseLeads
<1>6. CASE Phase("copied") /\ run.policy.move_mode = "move"
  BY <1>1, <1>2, <1>4, <1>6, PhaseShape, PhaseLeads
<1>7. CASE Complete(Transfer, Placed(mem))
  BY <1>1, <1>4, <1>7, PlacedShape
<1> QED BY <1>1, <1>5, <1>6, <1>7

LEMMA TransferRemoveShape ==
  ASSUME ShapeCtx, TransferRemoveBegin \/ TransferRemoveEnd
  PROVE  ShapeInv' /\ Local /\ UNCHANGED meta
<1>1. /\ run.step = Transfer /\ run.phase \in {"copied", "removing"}
      /\ Phase("removing") \/ Complete(Transfer, Placed(mem))
  BY DEF TransferRemoveBegin, TransferRemoveEnd
<1>2. mem.staging.at \in Own(run.t) /\ TypeInv /\ run \in RunType /\ RunShape
  BY <1>1, TransferShape
<1>3. \E c : disk' = [disk EXCEPT ![mem.staging.at] = c]
  BY DEF TransferRemoveBegin, TransferRemoveEnd
<1>4. Local
  BY <1>2, <1>3, PutLocal
<1>5. CASE Phase("removing")
  <2>1. run.policy.move_mode = "move"
    BY <1>1, <1>2 DEF RunShape
  <2> QED BY <1>1, <1>2, <1>4, <1>5, <2>1, PhaseShape, PhaseLeads
<1>6. CASE Complete(Transfer, Placed(mem))
  BY <1>1, <1>4, <1>6, PlacedShape
<1> QED BY <1>1, <1>5, <1>6

LEMMA RunCleanupLeads ==
  ASSUME TypeInv, RunCleanup
  PROVE  /\ Running(Cleanup)
         /\ \/ /\ ArtifactExists /\ IsDir(mem.artifact) /\ run.policy.rules
               /\ Complete(Cleanup, mem) /\ mem.artifact \in Paths
               /\ mem.artifact.at \in Places /\ disk[mem.artifact.at] \in Content
               /\ \E n \in BOOLEAN :
                    disk' = [disk EXCEPT ![mem.artifact.at] =
                               [disk[mem.artifact.at] EXCEPT !.nested = n]]
            \/ /\ ~(ArtifactExists /\ IsDir(mem.artifact) /\ run.policy.rules)
               /\ Skip(Cleanup, mem) /\ UNCHANGED disk
<1>1. Running(Cleanup) /\ Cleanup \in Steps
  BY DEF RunCleanup, Steps
<1>2. mem \in MetaType /\ disk \in DiskType
  BY <1>1, RunningFacts
<1>3. CASE ArtifactExists /\ IsDir(mem.artifact) /\ run.policy.rules
  <2>1. mem.artifact \in Paths /\ disk[mem.artifact.at] # Absent
    BY <1>2, <1>3, MetaFacts DEF ArtifactExists, Exists
  <2>2. mem.artifact.at \in Places /\ disk[mem.artifact.at] \in Content
    BY <1>2, <2>1, PlaceFacts DEF DiskType
  <2>3. Complete(Cleanup, mem) /\ CleanupDestination
    BY <1>3 DEF RunCleanup
  <2>4. PICK n \in {disk[mem.artifact.at].nested, TRUE} :
          disk' = [disk EXCEPT ![mem.artifact.at].nested = n]
    BY <2>3 DEF CleanupDestination
  <2>5. n \in BOOLEAN
    BY <2>2, <2>4, ContentFacts
  <2>6. disk' = [disk EXCEPT ![mem.artifact.at] = [disk[mem.artifact.at] EXCEPT !.nested = n]]
    BY <2>4
  <2> QED BY <1>1, <1>3, <2>1, <2>2, <2>3, <2>5, <2>6
<1>4. CASE ~(ArtifactExists /\ IsDir(mem.artifact) /\ run.policy.rules)
  BY <1>1, <1>4 DEF RunCleanup
<1> QED BY <1>3, <1>4

LEMMA RunCleanupShape ==
  ASSUME ShapeCtx, RunCleanup
  PROVE  ShapeInv' /\ Local /\ UNCHANGED meta
<1>1. TypeInv /\ Running(Cleanup) /\ Cleanup \in Steps
      /\ Cleanup \in {1, 2, 3, 4, 5, 6, 7, 8, 9, 11, 12}
  BY DEF ShapeCtx, RunCleanup, Steps
<1>2. run.step = Cleanup
  BY DEF RunCleanup, Running
<1>3. MetaShape(run.t, mem)
  BY <1>2 DEF ShapeCtx, ShapeInv, RunShape
<1>4. CASE /\ Complete(Cleanup, mem) /\ ArtifactExists
           /\ \E n \in BOOLEAN :
                disk' = [disk EXCEPT ![mem.artifact.at] =
                           [disk[mem.artifact.at] EXCEPT !.nested = n]]
  <2>1. mem.artifact # NoPath /\ mem.artifact.at \in Own(run.t)
    BY <1>3, <1>4 DEF ArtifactExists, MetaShape
  <2>2. Local
    BY <1>1, <1>4, <2>1, PutLocal
  <2> QED BY <1>1, <1>4, <2>1, <2>2, PlainShape DEF Complete, Succeed
<1>5. CASE Skip(Cleanup, mem) /\ UNCHANGED disk
  BY <1>1, <1>5, PlainShape DEF Skip, Succeed, Local
<1> QED BY <1>1, <1>4, <1>5, RunCleanupLeads

LEMMA RunChecksumLeads ==
  ASSUME TypeInv, RunChecksum
  PROVE  /\ Running(Checksum) /\ UNCHANGED disk
         /\ \E r \in MetaType :
              /\ Succeed(Checksum, r) /\ ~r.completed
              /\ r.staging = mem.staging /\ r.artifact = mem.artifact
              /\ \/ /\ ArtifactExists /\ r.done = mem.done \cup {Checksum}
                    /\ r.checksums = disk[mem.artifact.at]
                 \/ /\ ~ArtifactExists /\ r.done = mem.done /\ r.checksums = Absent
<1>1. Running(Checksum) /\ Checksum \in Steps /\ UNCHANGED disk
  BY DEF RunChecksum, Steps
<1>2. TypeOK /\ run \in RunType /\ mem \in MetaType /\ disk \in DiskType /\ ~mem.completed
  BY <1>1, RunningFacts
<1> DEFINE c == IF ArtifactExists THEN disk[mem.artifact.at] ELSE Absent
           m == [mem EXCEPT !.checksums = c]
           q == [m EXCEPT !.done = @ \cup {Checksum}]
<1>3. ArtifactExists => mem.artifact.at \in Places
  BY <1>2, MetaFacts, PlaceFacts DEF ArtifactExists
<1>4. c \in Content \cup {Absent}
  BY <1>2, <1>3 DEF DiskType
<1>5. IF ArtifactExists THEN Succeed(Checksum, q) ELSE Succeed(Checksum, m)
  BY DEF RunChecksum, BuildChecksums, Complete, Skip
<1>6. IF ArtifactExists THEN c = disk[mem.artifact.at] ELSE c = Absent
  OBVIOUS
<1> HIDE DEF c
<1>7. /\ m \in MetaType /\ m.completed = mem.completed /\ m.done = mem.done
      /\ m.staging = mem.staging /\ m.artifact = mem.artifact /\ m.checksums = c
  BY <1>2, <1>4 DEF MetaType
<1> HIDE DEF m
<1>8. /\ q \in MetaType /\ q.completed = m.completed /\ q.done = m.done \cup {Checksum}
      /\ q.staging = m.staging /\ q.artifact = m.artifact /\ q.checksums = m.checksums
  BY <1>1, <1>7, RecordedFacts
<1> HIDE DEF q
<1>9. CASE ArtifactExists
  <2>1. /\ q \in MetaType /\ Succeed(Checksum, q) /\ ~q.completed
        /\ q.staging = mem.staging /\ q.artifact = mem.artifact
        /\ q.done = mem.done \cup {Checksum} /\ q.checksums = disk[mem.artifact.at]
    BY <1>2, <1>5, <1>6, <1>7, <1>8, <1>9
  <2> QED BY <1>1, <1>9, <2>1
<1>10. CASE ~ArtifactExists
  <2>1. /\ m \in MetaType /\ Succeed(Checksum, m) /\ ~m.completed
        /\ m.staging = mem.staging /\ m.artifact = mem.artifact
        /\ m.done = mem.done /\ m.checksums = Absent
    BY <1>2, <1>5, <1>6, <1>7, <1>10
  <2> QED BY <1>1, <1>10, <2>1
<1> QED BY <1>9, <1>10

LEMMA RunChecksumShape ==
  ASSUME ShapeCtx, RunChecksum
  PROVE  ShapeInv' /\ Local /\ UNCHANGED meta
<1>1. TypeInv /\ Checksum \in Steps
  BY DEF ShapeCtx, Steps
<1>2. Running(Checksum) /\ UNCHANGED disk
  BY <1>1, RunChecksumLeads
<1>3. PICK r \in MetaType :
        /\ Succeed(Checksum, r) /\ ~r.completed
        /\ r.staging = mem.staging /\ r.artifact = mem.artifact
        /\ r.done \in {mem.done, mem.done \cup {Checksum}}
  BY <1>1, RunChecksumLeads
<1>4. run \in RunType /\ run.step = Checksum /\ run.phase = "op"
  BY <1>1, <1>2, RunningFacts
<1>5. RunShape
  BY <1>4 DEF ShapeCtx, ShapeInv
<1>6. MetaShape(run.t, mem) /\ mem.artifact # NoPath /\ Fixed(mem)
  BY <1>4, <1>5 DEF RunShape, Past
<1>7. MetaShape(run.t, r) /\ r.artifact # NoPath /\ Fixed(r)
  BY <1>3, <1>6 DEF MetaShape, Fixed
<1>8. ShapeInv'
  BY <1>1, <1>3, <1>4, <1>7, SucceedShape DEF PersistsSuccess
<1> QED BY <1>2, <1>3, <1>8 DEF Local, Succeed

LEMMA RunFinaliseShape ==
  ASSUME ShapeCtx, RunFinalise
  PROVE  ShapeInv' /\ Local /\ UNCHANGED meta
<1> DEFINE m == [mem EXCEPT !.done = @ \cup {Finalise}, !.completed = TRUE]
<1>1. TypeInv
  BY DEF ShapeCtx
<1>2. /\ run \in RunType /\ run.step = Finalise /\ run.phase = "op" /\ TypeOK
      /\ m \in MetaType /\ Saving(m)
      /\ m.done = mem.done \cup {Finalise} /\ m.staging = mem.staging
      /\ m.artifact = mem.artifact
      /\ disk' = [disk EXCEPT ![Ext(run.t)] = Absent] \/ disk' = disk
      /\ UNCHANGED <<meta, fsPolicy, changes>>
  BY <1>1, RunFinaliseLeads
<1> HIDE DEF m
<1>3. RunShape /\ ShapeInv
  BY <1>2 DEF ShapeCtx, ShapeInv
<1>4. MetaShape(run.t, mem) /\ mem.artifact # NoPath /\ Fixed(mem)
  BY <1>2, <1>3 DEF RunShape, Past
<1>5. MetaShape(run.t, m) /\ m.artifact # NoPath /\ Fixed(m)
  BY <1>2, <1>4 DEF MetaShape, Fixed
<1>6. /\ run'.t = run.t /\ run'.policy = run.policy /\ run'.mem = m
      /\ run'.step = Finalise /\ run'.phase = "save"
  BY <1>2, SavingRun
<1>7. RunShape'
  BY <1>2, <1>3, <1>5, <1>6 DEF RunShape, mem
<1>8. (\A t \in Torrents : Readable(t) => MetaShape(t, meta[t]))'
  BY <1>2, <1>3 DEF ShapeInv, Readable
<1>9. Local
  BY <1>1, <1>2, PutLocal DEF Local, Own
<1> QED BY <1>2, <1>7, <1>8, <1>9 DEF ShapeInv

LEMMA SaveMetaShape ==
  ASSUME ShapeCtx, SaveMeta
  PROVE  ShapeInv' /\ UNCHANGED disk /\ meta' = [meta EXCEPT ![run.t] = mem]
<1>1. TypeInv /\ run.step # 0
  BY DEF ShapeCtx, SaveMeta
<1>2. /\ TypeOK /\ RunInv /\ run \in RunType /\ run.t \in Torrents /\ mem \in MetaType
      /\ meta' = [meta EXCEPT ![run.t] = mem]
      /\ UNCHANGED <<disk, fsPolicy, crashes, faults, changes>>
  BY <1>1, SaveMetaLeads
<1>3. RunShape /\ ShapeInv
  BY <1>1 DEF ShapeCtx, ShapeInv
<1>4. /\ meta'[run.t] = mem /\ mem # NoFile /\ mem # TornFile
      /\ \A u \in Torrents : u # run.t => meta'[u] = meta[u]
  BY <1>2, FileFacts DEF TypeOK
<1>5. ASSUME NEW t \in Torrents, Readable(t)' PROVE MetaShape(t, meta'[t])
  BY <1>3, <1>4, <1>5 DEF ShapeInv, RunShape, Readable
<1>6. MetaShape(run.t, mem)
  BY <1>3 DEF RunShape
<1>7. CASE run' = Idle
  BY <1>2, <1>5, <1>7 DEF ShapeInv, Idle
<1>8. CASE run.phase = "start" /\ run.step = Finalise /\ run' = [run EXCEPT !.phase = "op"]
  <2>1. /\ run'.t = run.t /\ run'.policy = run.policy /\ run'.mem = mem
        /\ run'.step = Finalise /\ run'.phase = "op"
    BY <1>2, <1>8 DEF RunType, mem
  <2>2. mem.artifact # NoPath /\ Fixed(mem)
    BY <1>3, <1>8 DEF RunShape, Past
  <2>3. Same(Load(run.t), mem)'
    BY <1>4, <2>1, SameFacts DEF Load, mem
  <2>4. RunShape'
    BY <1>2, <1>3, <1>4, <1>6, <2>1, <2>2, <2>3 DEF RunShape, mem
  <2> QED BY <1>2, <1>5, <2>4 DEF ShapeInv
<1>9. CASE run.phase = "save" /\ Onward(run.step, mem)
  <2>1. /\ run'.t = run.t /\ run'.policy = run.policy /\ run'.mem = mem
        /\ run.step \in Steps /\ run'.step \in (run.step + 1)..14
        /\ run'.phase \in {"start", "op"}
        /\ run'.step # Finalise => run'.step \notin mem.done
        /\ \A i \in (run.step + 1)..(run'.step - 1) : i \in mem.done
    BY <1>2, <1>9 DEF Onward, RunType
  <2>2. ASSUME Past(Transfer)' PROVE mem.artifact # NoPath /\ Fixed(mem)
    <3>1. CASE run.step >= Transfer
      <4>1. Past(Transfer)
        BY <1>9, <2>1, <3>1 DEF Past, Steps
      <4> QED BY <1>3, <4>1 DEF RunShape
    <3>2. CASE run.step < Transfer
      <4>1. Transfer \in (run.step + 1)..(run'.step - 1)
        BY <2>1, <2>2, <3>2 DEF Past, Steps
      <4>2. Transfer \in mem.done
        BY <2>1, <4>1
      <4> QED BY <1>6, <4>2 DEF MetaShape, Fixed
    <3> QED BY <2>1, <3>1, <3>2 DEF Steps
  <2>3. Same(Load(run.t), mem)'
    BY <1>4, <2>1, SameFacts DEF Load, mem
  <2>4. RunShape'
    BY <1>2, <1>3, <1>4, <1>6, <2>1, <2>2, <2>3 DEF RunShape, mem
  <2> QED BY <1>2, <1>5, <2>4 DEF ShapeInv
<1> QED BY <1>1, <1>2, <1>7, <1>8, <1>9, SaveMetaLeads

LEMMA ApplyShape ==
  ASSUME ShapeCtx, NEW t \in Torrents, Apply(t)
  PROVE  ShapeInv' /\ UNCHANGED <<disk, meta>>
<1>1. TypeInv /\ TypeOK /\ ShapeInv
  BY DEF ShapeCtx, TypeInv
<1>2. UNCHANGED <<disk, meta, fsPolicy, changes>>
  BY <1>1, ApplyLeads
<1>3. CASE run' = Idle
  BY <1>1, <1>2, <1>3, IdleShape
<1>4. CASE /\ meta[t] # TornFile /\ ~Load(t).completed
           /\ run' \in RunType /\ run'.t = t /\ run'.policy = fsPolicy
           /\ run'.mem = Load(t)
           /\ run'.phase = IF run'.step = Finalise THEN "start" ELSE "op"
           /\ \A i \in 1..(run'.step - 1) : i \in Load(t).done
           /\ run'.step = Finalise \/ run'.step \notin Load(t).done
  <2>1. MetaShape(t, Load(t))
    BY <1>1, <1>4, NewMetaShape DEF ShapeInv, Readable, Load
  <2>2. run'.step \in Steps
    BY <1>4 DEF RunType
  <2>3. ASSUME Past(Transfer)' PROVE Load(t).artifact # NoPath /\ Fixed(Load(t))
    <3>1. Transfer \in 1..(run'.step - 1)
      BY <1>4, <2>2, <2>3 DEF Past, Steps
    <3>2. Transfer \in Load(t).done
      BY <1>4, <3>1
    <3> QED BY <2>1, <3>2 DEF MetaShape, Fixed
  <2>4. Same(Load(run.t), mem)'
    BY <1>2, <1>4, SameFacts DEF Load, mem
  <2>5. RunShape'
    BY <1>2, <1>4, <2>1, <2>3, <2>4 DEF RunShape, mem
  <2>6. (\A u \in Torrents : Readable(u) => MetaShape(u, meta[u]))'
    BY <1>1, <1>2 DEF ShapeInv, Readable
  <2> QED BY <1>2, <2>5, <2>6 DEF ShapeInv
<1> QED BY <1>1, <1>2, <1>3, <1>4, ApplyLeads

LEMMA InterruptShape ==
  ASSUME ShapeCtx, IoError \/ Crash
  PROVE  /\ ShapeInv' /\ UNCHANGED disk /\ run.step # 0
         /\ meta' = meta \/ meta' = [meta EXCEPT ![run.t] = TornFile]
<1>1. TypeInv /\ TypeOK /\ ShapeInv
  BY DEF ShapeCtx, TypeInv
<1>2. /\ run \in RunType /\ run.t \in Torrents /\ run' = Idle /\ UNCHANGED disk
      /\ meta' = meta \/ meta' = [meta EXCEPT ![run.t] = TornFile]
  BY <1>1, InterruptLeads
<1>3. \A u \in Torrents : meta'[u] = meta[u] \/ meta'[u] = TornFile
  BY <1>1, <1>2 DEF TypeOK
<1>4. ShapeInv'
  BY <1>1, <1>2, <1>3 DEF ShapeInv, Readable, Idle
<1> QED BY <1>2, <1>4 DEF IoError, Crash

LEMMA UpdateFsPolicyShape ==
  ASSUME ShapeCtx, UpdateFsPolicy
  PROVE  ShapeInv' /\ UNCHANGED <<disk, meta>>
<1>1. /\ changes' = changes + 1 /\ changes' # 0
      /\ UNCHANGED <<disk, meta, run>>
  BY FaultAssumption DEF UpdateFsPolicy, ShapeCtx, TypeInv, TypeOK
<1>2. ASSUME run.step # 0 PROVE RunShape'
  <2>1. RunShape
    BY <1>2 DEF ShapeCtx, ShapeInv
  <2>2. Same(Load(run.t), mem)' <=> Same(Load(run.t), mem)
    BY <1>1 DEF mem, Load
  <2> QED BY <1>1, <2>1, <2>2 DEF RunShape, mem, Past, IsDir, Exists
<1> QED BY <1>1, <1>2 DEF ShapeInv, ShapeCtx, Readable

\* A step of the pipeline keeps the shape, and changes only the torrent's own
\* places and metadata.
LEMMA PipelineShape ==
  ASSUME ShapeCtx, PipelineStep
  PROVE  /\ ShapeInv' /\ Local /\ run.step # 0
         /\ meta' = meta \/ meta' = [meta EXCEPT ![run.t] = mem]
<1>1. CASE \/ RunValidatePolicy \/ RunAllowlist \/ RunPrepareDirectories \/ RunCompileRules
           \/ RunLocateSource \/ RunVerifyPar2 \/ RunPrepareWorkDir \/ RunSetPermissions
  <2>1. run.step # 0
    BY <1>1 DEF RunValidatePolicy, RunAllowlist, RunPrepareDirectories, RunCompileRules,
         RunLocateSource, RunVerifyPar2, RunPrepareWorkDir, RunSetPermissions, PlainStep, Running
  <2> QED BY <1>1, <2>1, PlainStepsShape DEF Local
<1>2. CASE RunExtract \/ ExtractArchive \/ RunFlatten
  <2>1. run.step # 0
    BY <1>2 DEF RunExtract, ExtractArchive, RunFlatten, Running
  <2> QED BY <1>2, <2>1, RunExtractShape, ExtractArchiveShape, RunFlattenShape
<1>3. CASE RunTransfer \/ TransferUnsupported \/ TransferMissing \/ TransferRename
  BY <1>3, RunTransferShape, TransferFailsShape, TransferRenameShape
     DEF RunTransfer, TransferUnsupported, TransferMissing, TransferRename, Running, Transferring
<1>4. CASE TransferBegin \/ TransferEnd \/ TransferRemoveBegin \/ TransferRemoveEnd
  BY <1>4, TransferCopyShape, TransferRemoveShape
     DEF TransferBegin, TransferEnd, TransferRemoveBegin, TransferRemoveEnd, Transferring
<1>5. CASE RunCleanup \/ RunChecksum \/ RunFinalise
  BY <1>5, RunCleanupShape, RunChecksumShape, RunFinaliseShape
     DEF RunCleanup, RunChecksum, RunFinalise, Running
<1>6. CASE SaveMeta
  BY <1>6, SaveMetaShape DEF SaveMeta, Local
<1> QED BY <1>1, <1>2, <1>3, <1>4, <1>5, <1>6 DEF PipelineStep

\* A step of the system: either a run begins, ends, or nothing but the policy
\* changes, or a run's step changes its own places and metadata.
LEMMA StepShape ==
  ASSUME ShapeCtx, [Next]_vars
  PROVE  /\ ShapeInv'
         /\ \/ UNCHANGED <<disk, meta>>
            \/ /\ run.step # 0 /\ Local
               /\ \E f : meta' = meta \/ meta' = [meta EXCEPT ![run.t] = f]
<1>1. CASE \E t \in Torrents : Apply(t)
  BY <1>1, ApplyShape
<1>2. CASE PipelineStep
  BY <1>2, PipelineShape
<1>3. CASE UpdateFsPolicy
  BY <1>3, UpdateFsPolicyShape
<1>4. CASE IoError \/ Crash
  BY <1>4, InterruptShape DEF Local
<1>5. CASE UNCHANGED vars
  <2>1. UNCHANGED <<disk, meta, run, fsPolicy, changes>>
    BY <1>5 DEF vars, env
  <2>2. ASSUME run.step # 0 PROVE RunShape'
    <3>1. RunShape
      BY <2>2 DEF ShapeCtx, ShapeInv
    <3>2. Same(Load(run.t), mem)' <=> Same(Load(run.t), mem)
      BY <2>1 DEF mem, Load
    <3> QED BY <2>1, <3>1, <3>2 DEF RunShape, mem, Past, IsDir, Exists
  <2> QED BY <2>1, <2>2 DEF ShapeInv, ShapeCtx, Readable
<1> QED BY <1>1, <1>2, <1>3, <1>4, <1>5 DEF Next

LEMMA InitShape == Init => ShapeInv
BY DEF Init, ShapeInv, Idle, Readable

LEMMA Shaped == Spec => [](TypeInv /\ ShapeInv)
<1>1. Init => TypeInv /\ ShapeInv
  BY InitTyped, InitShape
<1>2. TypeInv /\ ShapeInv /\ [Next]_vars => (TypeInv /\ ShapeInv)'
  <2> SUFFICES ASSUME TypeInv, ShapeInv, [Next]_vars PROVE TypeInv' /\ ShapeInv'
    OBVIOUS
  <2>1. TypeInv'
    BY StepTyped
  <2> QED BY <2>1, StepShape DEF ShapeCtx
<1> QED BY <1>1, <1>2, PTL DEF Spec

\* Completed metadata names an artifact among the torrent's places.
LEMMA CompletedShape ==
  ASSUME TypeInv, ShapeInv, NEW t \in Torrents, Completed(t)
  PROVE  /\ meta[t] \in MetaType /\ meta[t].artifact \in Paths /\ meta[t].artifact # NoPath
         /\ meta[t].artifact.at \in Own(t) /\ meta[t].artifact.at \in Places
<1>1. meta[t] \in MetaType /\ Readable(t)
  BY DEF TypeInv, TypeOK, Completed, Readable
<1>2. MetaShape(t, meta[t])
  BY <1>1 DEF ShapeInv
<1>3. meta[t].artifact # NoPath
  BY <1>2 DEF MetaShape, Completed
<1> QED BY <1>1, <1>2, <1>3, MetaFacts, PlaceFacts DEF MetaShape

LEMMA StepFinal ==
  ASSUME NamesApart, ShapeCtx, [Next]_vars, NEW t \in Torrents, Completed(t)
  PROVE  /\ meta'[t] = meta[t]
         /\ disk'[meta[t].artifact.at] = disk[meta[t].artifact.at]
<1>1. meta[t].artifact.at \in Own(t) /\ meta[t].artifact.at \in Places
  BY CompletedShape DEF ShapeCtx
<1>2. CASE UNCHANGED <<disk, meta>>
  BY <1>2
<1>3. CASE /\ run.step # 0 /\ Local
           /\ \E f : meta' = meta \/ meta' = [meta EXCEPT ![run.t] = f]
  <2>1. TypeOK /\ RunInv /\ run.t \in Torrents
    BY <1>3, RunFacts DEF ShapeCtx, TypeInv, TypeOK
  <2>2. run.t # t
    BY <1>3, <2>1 DEF RunInv
  <2>3. meta[t].artifact.at \notin Own(run.t)
    BY <1>1, <2>1, <2>2 DEF NamesApart
  <2> QED BY <1>1, <1>3, <2>1, <2>2, <2>3 DEF Local, TypeOK
<1> QED BY <1>2, <1>3, StepShape

\* If the places of the torrents are apart, then no step, of this torrent's
\* pipeline or of another's, changes the metadata of a completed torrent or
\* what is at its artifact path.
THEOREM FinalOnceCompleted ==
  ASSUME NamesApart
  PROVE  Spec => CompletedIsFinal
<1>1. ASSUME TypeInv, ShapeInv, TypeInv', [Next]_vars
      PROVE  [\A t \in Torrents : Completed(t) =>
                 /\ meta'[t] = meta[t]
                 /\ disk'[meta[t].artifact.at] = disk[meta[t].artifact.at]]_vars
  BY <1>1, StepFinal DEF ShapeCtx
<1> QED BY <1>1, Shaped, PTL DEF Spec, CompletedIsFinal

-----------------------------------------------------------------------------
(* An artifact that is in position without a transfer: the download is in  *)
(* the library.  The predicates take the disk d and the policy f, so that  *)
(* they can be used of the state before a step and of the one after it.    *)

DirIn(d, p) == d[p] # Absent /\ d[p].form = "dir"

\* As long as the policy has not changed, what Extract and Flatten make of
\* metadata whose artifact was found in position: Extract skips it again, and
\* Flatten does unless the rules may have left one nested directory.
PosOK(t, m, d, f) ==
    m.artifact # NoPath /\ Transfer \notin m.done =>
      /\ t \in InLibrary
      /\ \/ /\ m.staging = m.artifact /\ Flatten \notin m.done /\ d[m.artifact.at] # Absent
            /\ f.extract /\ Extract \notin m.done => DirIn(d, m.artifact.at)
            /\ f.flatten /\ ~f.rules => ~(DirIn(d, m.artifact.at) /\ d[m.artifact.at].nested)
         \/ /\ m.staging = [at |-> m.artifact.at, inner |-> TRUE] /\ Flatten \in m.done
            /\ f.flatten /\ f.rules

\* What Extract and Flatten have skipped under policy f.
ExtractSkipped(m, d, f) ==
    m.artifact = NoPath /\ f.extract /\ Extract \notin m.done =>
      m.staging.inner \/ DirIn(d, m.staging.at)
FlattenSkipped(m, d, f) ==
    m.artifact = NoPath /\ f.flatten /\ Flatten \notin m.done =>
      ~(DirIn(d, m.staging.at) /\ d[m.staging.at].nested)

Moving == run.phase \in {"transfer", "copied", "removing"}

RunPos ==
    /\ changes = 0 => PosOK(run.t, mem, disk, fsPolicy)
    /\ changes = 0 /\ Moving /\ mem.artifact # NoPath => mem.staging # mem.artifact
    /\ Past(Extract) /\ ~Moving => ExtractSkipped(mem, disk, run.policy)
    /\ Past(Flatten) /\ ~Moving => FlattenSkipped(mem, disk, run.policy)

PosInv ==
    /\ changes = 0 => \A t \in Torrents : Readable(t) => PosOK(t, meta[t], disk, fsPolicy)
    /\ run.step # 0 => RunPos

LEMMA PosSame ==
  ASSUME NEW t, NEW a, NEW b, NEW d, NEW f, Same(a, b), PosOK(t, b, d, f)
  PROVE  PosOK(t, a, d, f)
<1>1. /\ Transfer \in Steps /\ PersistsSuccess(Transfer)
      /\ Extract \in Steps /\ PersistsSuccess(Extract)
      /\ Flatten \in Steps /\ PersistsSuccess(Flatten)
  BY DEF Steps, PersistsSuccess
<1>2. /\ a.staging = b.staging /\ a.artifact = b.artifact
      /\ Transfer \in a.done <=> Transfer \in b.done
      /\ Extract \in a.done <=> Extract \in b.done
      /\ Flatten \in a.done <=> Flatten \in b.done
  BY <1>1 DEF Same
<1> QED BY <1>2 DEF PosOK

\* The predicate depends on the disk at the artifact only.
LEMMA PosFrame ==
  ASSUME NEW t, NEW m, NEW d, NEW e, NEW f, PosOK(t, m, d, f),
         m.artifact # NoPath => e[m.artifact.at] = d[m.artifact.at]
  PROVE  PosOK(t, m, e, f)
BY DEF PosOK, DirIn

PosCtx == NamesApart /\ ShapeCtx /\ ShapeInv' /\ PosInv

\* What is recorded of a torrent whose run is not at work.
LEMMA OthersPos ==
  ASSUME PosCtx, run \in RunType, run.phase # "save", Local,
         UNCHANGED <<meta, fsPolicy, changes>>,
         changes = 0 => PosOK(run.t, mem, disk', fsPolicy)
  PROVE  changes' = 0 =>
           \A t \in Torrents : Readable(t)' => PosOK(t, meta'[t], disk', fsPolicy')
<1> SUFFICES ASSUME changes = 0, NEW t \in Torrents, Readable(t)
             PROVE  PosOK(t, meta[t], disk', fsPolicy)
  BY DEF Readable
<1>1. /\ TypeOK /\ run.t \in Torrents /\ run.step # 0 /\ RunShape
      /\ MetaShape(t, meta[t]) /\ PosOK(t, meta[t], disk, fsPolicy) /\ meta[t] \in MetaType
  BY RunFacts DEF PosCtx, ShapeCtx, ShapeInv, TypeInv, TypeOK, PosInv, Readable
<1>2. CASE t # run.t
  <2>1. meta[t].artifact # NoPath => meta[t].artifact.at \in Own(t) /\ meta[t].artifact.at \in Places
    BY <1>1, MetaFacts, PlaceFacts DEF MetaShape
  <2>2. meta[t].artifact # NoPath => disk'[meta[t].artifact.at] = disk[meta[t].artifact.at]
    BY <1>1, <1>2, <2>1 DEF PosCtx, NamesApart, Local
  <2> QED BY <1>1, <2>2, PosFrame
<1>3. CASE t = run.t
  <2>1. Same(meta[t], mem)
    BY <1>1, <1>3 DEF RunShape, Load, Readable
  <2>2. PosOK(t, mem, disk', fsPolicy)
    BY <1>3
  <2> QED BY <2>1, <2>2, PosSame
<1> QED BY <1>2, <1>3

LEMMA SucceedPos ==
  ASSUME PosCtx, run \in RunType, run.phase # "save", NEW k \in Steps, k = run.step,
         k # Finalise, NEW m \in MetaType, ~m.completed, Succeed(k, m), Local,
         changes = 0 => PosOK(run.t, mem, disk', fsPolicy),
         changes = 0 => PosOK(run.t, m, disk', fsPolicy),
         k >= Extract => ExtractSkipped(m, disk', run.policy),
         k >= Flatten => FlattenSkipped(m, disk', run.policy)
  PROVE  PosInv'
<1>1. TypeOK
  BY DEF PosCtx, ShapeCtx, TypeInv
<1>2. /\ UNCHANGED <<meta, fsPolicy, changes>>
      /\ IF PersistsSuccess(k) THEN Saving(m) ELSE Onward(k, m)
  BY <1>1, SucceedLeads
<1>3. changes' = 0 =>
        \A t \in Torrents : Readable(t)' => PosOK(t, meta'[t], disk', fsPolicy')
  BY <1>2, OthersPos
<1>4. CASE PersistsSuccess(k)
  <2>1. /\ run'.t = run.t /\ run'.policy = run.policy /\ run'.mem = m
        /\ run'.step = k /\ run'.phase = "save"
    BY <1>2, <1>4, SavingRun
  <2>2. (Past(Extract)' => k >= Extract) /\ (Past(Flatten)' => k >= Flatten)
    BY <2>1 DEF Past, Steps
  <2>3. RunPos'
    BY <1>2, <2>1, <2>2 DEF RunPos, mem, Moving
  <2> QED BY <1>3, <2>3 DEF PosInv
<1>5. CASE ~PersistsSuccess(k)
  <2>1. Onward(k, m) /\ k \in {1, 2, 4}
    BY <1>2, <1>5 DEF PersistsSuccess
  <2>2. /\ run'.t = run.t /\ run'.policy = run.policy /\ run'.mem = m
        /\ run'.step \in Steps /\ run'.phase \in {"start", "op"}
    BY <2>1 DEF Onward, Steps
  <2>3. ASSUME NEW j \in {Extract, Flatten}, Past(j)' PROVE j \in m.done
    <3>1. j \in (k + 1)..(run'.step - 1)
      BY <2>1, <2>2, <2>3 DEF Past, Steps
    <3> QED BY <2>1, <3>1 DEF Onward
  <2>4. /\ Past(Extract)' => ExtractSkipped(m, disk', run.policy)
        /\ Past(Flatten)' => FlattenSkipped(m, disk', run.policy)
    BY <2>3 DEF ExtractSkipped, FlattenSkipped
  <2>5. RunPos'
    BY <1>2, <2>2, <2>4 DEF RunPos, mem, Moving
  <2> QED BY <1>3, <2>5 DEF PosInv
<1> QED BY <1>4, <1>5

LEMMA PhasePos ==
  ASSUME PosCtx, run \in RunType,
         NEW phase \in {"extract", "transfer", "copied", "removing"}, Phase(phase),
         run.phase # "save", run.step = IF phase = "extract" THEN Extract ELSE Transfer,
         Local, changes = 0 => PosOK(run.t, mem, disk', fsPolicy),
         changes = 0 /\ phase # "extract" /\ mem.artifact # NoPath => mem.staging # mem.artifact
  PROVE  PosInv'
<1>1. UNCHANGED <<meta, fsPolicy, changes>>
  BY PhaseLeads
<1>2. /\ run'.t = run.t /\ run'.policy = run.policy /\ run'.mem = run.mem
      /\ run'.step = run.step /\ run'.phase = phase
  BY PhaseRun
<1>3. changes' = 0 =>
        \A t \in Torrents : Readable(t)' => PosOK(t, meta'[t], disk', fsPolicy')
  BY <1>1, OthersPos
<1>4. (Past(Extract)' \/ Past(Flatten)') => Moving'
  BY <1>2 DEF Past, Moving
<1>5. RunPos'
  BY <1>1, <1>2, <1>4 DEF RunPos, mem, Moving
<1> QED BY <1>3, <1>5 DEF PosInv

LEMMA IdlePos ==
  ASSUME PosCtx, run \in RunType, run.phase # "save", Local, run' = Idle,
         UNCHANGED <<meta, fsPolicy, changes>>,
         changes = 0 => PosOK(run.t, mem, disk', fsPolicy)
  PROVE  PosInv'
<1>1. changes' = 0 =>
        \A t \in Torrents : Readable(t)' => PosOK(t, meta'[t], disk', fsPolicy')
  BY OthersPos
<1> QED BY <1>1 DEF PosInv, Idle

\* What a step of the pipeline may use.
LEMMA PosFacts ==
  ASSUME PosCtx, run.step # 0
  PROVE  /\ TypeInv /\ TypeOK /\ RunInv /\ ShapeInv /\ RunShape /\ RunPos
         /\ run \in RunType /\ run.t \in Torrents /\ mem \in MetaType
         /\ MetaShape(run.t, mem) /\ disk \in DiskType /\ ShapeCtx /\ NamesApart
         /\ mem.staging \in Paths /\ mem.staging.at \in Places
         /\ changes = 0 => run.policy = fsPolicy
         /\ mem.artifact # NoPath => mem.artifact \in Paths /\ mem.artifact.at \in Places
                                     /\ mem.artifact.at # Ext(run.t) /\ ~mem.artifact.inner
                                     /\ mem.artifact.at \in Own(run.t)
<1>1. TypeInv /\ ShapeInv /\ RunShape /\ RunPos /\ ShapeCtx /\ NamesApart
  BY DEF PosCtx, ShapeCtx, ShapeInv, PosInv
<1>2. TypeOK /\ RunInv /\ run \in RunType /\ disk \in DiskType
  BY <1>1, TypeInvFacts
<1>3. /\ MetaShape(run.t, mem) /\ run.t \in Torrents /\ mem \in MetaType
      /\ changes = 0 => run.policy = fsPolicy
  BY <1>1, <1>2, OperandFacts DEF RunShape
<1>4. mem.artifact # NoPath => mem.artifact \in Paths /\ mem.artifact.at \in Places
                               /\ mem.artifact.at # Ext(run.t) /\ ~mem.artifact.inner
                               /\ mem.artifact.at \in Own(run.t)
  BY <1>3, MetaFacts, PlaceFacts DEF MetaShape, Ext
<1>5. mem.staging \in Paths /\ mem.staging.at \in Places
  BY <1>3, MetaFacts, PlaceFacts
<1> QED BY <1>1, <1>2, <1>3, <1>4, <1>5

\* Recording a plain step.
LEMMA PlainPos ==
  ASSUME PosCtx, NEW k \in Steps, k \notin {Extract, Flatten, Transfer, Finalise}, Running(k),
         UNCHANGED disk, NEW m \in MetaType, ~m.completed, Succeed(k, m),
         m.staging = mem.staging, m.artifact = mem.artifact,
         m.done = mem.done \/ m.done = mem.done \cup {k}
  PROVE  PosInv'
<1>1. run.step = k /\ run.phase = "op" /\ run.step # 0
  BY DEF Running, Steps
<1>2. RunPos /\ run \in RunType /\ RunShape
  BY <1>1, PosFacts
<1>3. /\ changes = 0 => PosOK(run.t, mem, disk', fsPolicy)
      /\ changes = 0 => PosOK(run.t, m, disk', fsPolicy)
  BY <1>2 DEF RunPos, PosOK
<1>4. /\ k >= Extract => ExtractSkipped(m, disk', run.policy)
      /\ k >= Flatten => FlattenSkipped(m, disk', run.policy)
  BY <1>1, <1>2 DEF RunShape, Past, ExtractSkipped, FlattenSkipped, Steps
<1> QED BY <1>1, <1>2, <1>3, <1>4, SucceedPos DEF Local

LEMMA RejectPos ==
  ASSUME PosCtx, run.step # 0, run.phase # "save", Reject, UNCHANGED disk
  PROVE  PosInv'
<1>1. RunPos /\ run \in RunType
  BY PosFacts
<1>2. changes = 0 => PosOK(run.t, mem, disk', fsPolicy)
  BY <1>1 DEF RunPos
<1> QED BY <1>1, <1>2, RejectLeads, IdlePos DEF Local

\* The same steps as one disjunction.
Plainly(k) ==
    /\ Running(k) /\ UNCHANGED disk
    /\ \/ Reject /\ k < Transfer
       \/ \E m \in MetaType :
            /\ ~m.completed /\ Succeed(k, m)
            /\ m.staging = mem.staging /\ m.artifact = mem.artifact
            /\ m.checksums = mem.checksums
            /\ m.done = mem.done \/ m.done = mem.done \cup {k}

LEMMA PlainStepsLead ==
  ASSUME TypeInv,
         \/ RunValidatePolicy \/ RunAllowlist \/ RunPrepareDirectories \/ RunCompileRules
         \/ RunLocateSource \/ RunVerifyPar2 \/ RunPrepareWorkDir \/ RunSetPermissions
  PROVE  \E k \in {1, 2, 3, 4, 5, 6, 7, 11} : k \in Steps /\ Plainly(k)
<1>1. PICK k \in {1, 2, 3, 4, 5, 6, 7, 11} :
        Running(k) /\ UNCHANGED disk
        /\ (Complete(k, mem) \/ Skip(k, mem) \/ (Reject /\ k < Transfer))
  BY DEF RunValidatePolicy, RunAllowlist, RunPrepareDirectories, RunCompileRules,
         RunLocateSource, RunVerifyPar2, RunPrepareWorkDir, RunSetPermissions, PlainStep,
         Par2Verified, ApplyPermissions
<1>2. k \in Steps
  BY DEF Steps
<1>3. mem \in MetaType /\ ~mem.completed
  BY <1>1, <1>2, RunningFacts
<1> DEFINE r == [mem EXCEPT !.done = @ \cup {k}]
<1>4. /\ r \in MetaType /\ r.done = mem.done \cup {k} /\ r.completed = mem.completed
      /\ r.staging = mem.staging /\ r.artifact = mem.artifact /\ r.checksums = mem.checksums
  BY <1>2, <1>3, RecordedFacts
<1>5. Complete(k, mem) => Succeed(k, r)
  BY DEF Complete
<1>6. Skip(k, mem) => Succeed(k, mem)
  BY DEF Skip
<1> HIDE DEF r
<1>7. Plainly(k)
  BY <1>1, <1>3, <1>4, <1>5, <1>6 DEF Plainly
<1> QED BY <1>2, <1>7

LEMMA PlainStepsPos ==
  ASSUME PosCtx,
         \/ RunValidatePolicy \/ RunAllowlist \/ RunPrepareDirectories \/ RunCompileRules
         \/ RunLocateSource \/ RunVerifyPar2 \/ RunPrepareWorkDir \/ RunSetPermissions
  PROVE  PosInv'
<1>1. TypeInv
  BY DEF PosCtx, ShapeCtx
<1>2. PICK k \in {1, 2, 3, 4, 5, 6, 7, 11} : k \in Steps /\ Plainly(k)
  BY <1>1, PlainStepsLead
<1>3. run.step # 0 /\ run.phase # "save" /\ Running(k) /\ UNCHANGED disk
  BY <1>2 DEF Plainly, Running
<1>4. CASE Reject
  BY <1>3, <1>4, RejectPos
<1>5. CASE \E m \in MetaType :
             /\ ~m.completed /\ Succeed(k, m)
             /\ m.staging = mem.staging /\ m.artifact = mem.artifact
             /\ m.done = mem.done \/ m.done = mem.done \cup {k}
  BY <1>2, <1>3, <1>5, PlainPos
<1> QED BY <1>2, <1>4, <1>5 DEF Plainly

\* Extract, if the policy has not changed, finds an artifact in position to
\* be a directory.
LEMMA RunExtractPos ==
  ASSUME PosCtx, RunExtract
  PROVE  PosInv'
<1>1. Running(Extract) /\ Extract \in Steps /\ run.step = Extract /\ run.phase = "op"
  BY DEF RunExtract, Running, Steps
<1>2. /\ RunPos /\ run \in RunType /\ RunShape /\ disk \in DiskType /\ mem \in MetaType
      /\ MetaShape(run.t, mem) /\ ShapeCtx
      /\ mem.artifact # NoPath => mem.artifact.at # Ext(run.t) /\ mem.artifact.at \in Places
  BY <1>1, PosFacts
<1>3. CASE /\ ~run.policy.extract \/ IsDir(mem.staging)
           /\ Skip(Extract, mem) /\ UNCHANGED disk
  <2>1. ~mem.completed
    BY <1>1, <1>2, RunningFacts DEF ShapeCtx
  <2>2. Extract \notin mem.done
    BY <1>1, <1>2 DEF RunShape
  <2>3. changes = 0 => PosOK(run.t, mem, disk', fsPolicy)
    BY <1>2, <1>3 DEF RunPos
  <2>4. ExtractSkipped(mem, disk', run.policy)
    <3> SUFFICES ASSUME mem.artifact = NoPath, run.policy.extract
                 PROVE  mem.staging.inner \/ DirIn(disk, mem.staging.at)
      BY <1>3 DEF ExtractSkipped
    <3>1. IsDir(mem.staging)
      BY <1>3
    <3> QED BY <3>1 DEF IsDir, Exists, DirIn
  <2> QED BY <1>1, <1>2, <1>3, <2>1, <2>3, <2>4, SucceedPos DEF Local, Skip
<1>4. CASE disk' = [disk EXCEPT ![Ext(run.t)] = EmptyDir] /\ Phase("extract")
  <2>1. mem.artifact # NoPath => disk'[mem.artifact.at] = disk[mem.artifact.at]
    BY <1>2, <1>4 DEF DiskType
  <2>2. changes = 0 => PosOK(run.t, mem, disk', fsPolicy)
    BY <1>2, <2>1, PosFrame DEF RunPos
  <2>3. Local
    BY <1>2, RunExtractShape
  <2> QED BY <1>1, <1>2, <1>4, <2>2, <2>3, PhasePos
<1> QED BY <1>3, <1>4 DEF RunExtract, EmptyDir

LEMMA ExtractArchivePos ==
  ASSUME PosCtx, ExtractArchive
  PROVE  PosInv'
<1>1. run.step = Extract /\ run.phase = "extract" /\ Extract \in Steps
  BY DEF ExtractArchive, Steps
<1>2. /\ RunPos /\ run \in RunType /\ RunShape /\ disk \in DiskType /\ mem \in MetaType
      /\ MetaShape(run.t, mem) /\ ShapeCtx /\ TypeOK /\ TypeInv
      /\ changes = 0 => run.policy = fsPolicy
      /\ mem.artifact # NoPath => mem.artifact.at # Ext(run.t) /\ mem.artifact.at \in Places
                                  /\ ~mem.artifact.inner
  BY <1>1, PosFacts
<1>3. Local
  BY <1>2, ExtractArchiveShape
<1> DEFINE m == [mem EXCEPT !.staging = At(Ext(run.t))]
<1>4. /\ m \in MetaType /\ ~m.completed /\ m.done = mem.done
      /\ m.staging = At(Ext(run.t)) /\ m.artifact = mem.artifact
  BY <1>1, <1>2, TypeInvFacts, MetaUpdates, MetaUpdateFields
<1>5. CASE /\ Exists(mem.staging)
           /\ \E n \in BOOLEAN : disk' = [disk EXCEPT ![Ext(run.t)] = Unpacked(n)]
           /\ Complete(Extract, m)
  <2> DEFINE r == [m EXCEPT !.done = @ \cup {Extract}]
  <2>1. /\ r \in MetaType /\ ~r.completed
        /\ r.done = m.done \cup {Extract} /\ r.completed = m.completed
        /\ r.staging = m.staging /\ r.artifact = m.artifact
    BY <1>1, <1>4, RecordedFacts
  <2>2. Succeed(Extract, r)
    BY <1>5 DEF Complete
  <2> HIDE DEF r, m
  <2>3. /\ Extract \notin mem.done /\ run.policy.extract /\ ~IsDir(mem.staging)
        /\ ~mem.staging.inner
    BY <1>1, <1>2, <1>5 DEF RunShape, IsDir
  <2>4. mem.artifact # NoPath => disk'[mem.artifact.at] = disk[mem.artifact.at]
    BY <1>2, <1>5 DEF DiskType
  <2>5. changes = 0 => PosOK(run.t, mem, disk', fsPolicy)
    BY <1>2, <2>4, PosFrame DEF RunPos
  <2>6. ASSUME changes = 0, mem.artifact # NoPath, Transfer \notin mem.done PROVE FALSE
    <3>1. PosOK(run.t, mem, disk, fsPolicy) /\ fsPolicy.extract
      BY <1>2, <2>3, <2>6 DEF RunPos
    <3>2. mem.staging # [at |-> mem.artifact.at, inner |-> TRUE]
      BY <2>3
    <3>3. mem.staging = mem.artifact /\ DirIn(disk, mem.artifact.at)
      BY <2>3, <2>6, <3>1, <3>2 DEF PosOK
    <3> QED BY <1>2, <2>3, <3>3 DEF IsDir, Exists, DirIn
  <2>7. changes = 0 => PosOK(run.t, r, disk', fsPolicy)
    BY <1>4, <2>1, <2>6 DEF PosOK
  <2>8. ExtractSkipped(r, disk', run.policy)
    BY <2>1 DEF ExtractSkipped
  <2> QED BY <1>1, <1>2, <1>3, <2>1, <2>2, <2>5, <2>7, <2>8, SucceedPos
<1>6. CASE Reject /\ UNCHANGED disk
  BY <1>1, <1>6, RejectPos
<1> QED BY <1>5, <1>6, ExtractArchiveLeads

\* Flatten, if the policy has not changed, leaves an artifact in position
\* alone unless there are rules.
LEMMA RunFlattenPos ==
  ASSUME PosCtx, RunFlatten
  PROVE  PosInv'
<1> DEFINE r == [[mem EXCEPT !.staging.inner = TRUE] EXCEPT !.done = @ \cup {Flatten}]
<1>1. run.step = Flatten /\ run.phase = "op" /\ Flatten \in Steps
  BY DEF RunFlatten, Running, Steps
<1>2. /\ RunPos /\ run \in RunType /\ RunShape /\ mem \in MetaType /\ TypeInv
      /\ MetaShape(run.t, mem) /\ ~mem.completed
      /\ changes = 0 => run.policy = fsPolicy
  BY <1>1, PosFacts, TypeInvFacts
<1>3. /\ UNCHANGED disk
      /\ \/ /\ run.policy.flatten /\ IsDir(mem.staging) /\ disk[mem.staging.at].nested
            /\ Succeed(Flatten, r) /\ r \in MetaType /\ ~r.completed
            /\ r.done = mem.done \cup {Flatten}
            /\ r.staging = [at |-> mem.staging.at, inner |-> TRUE]
            /\ r.staging.inner /\ r.artifact = mem.artifact
         \/ /\ ~(run.policy.flatten /\ IsDir(mem.staging) /\ disk[mem.staging.at].nested)
            /\ Skip(Flatten, mem)
  BY <1>2, RunFlattenLeads
<1> HIDE DEF r
<1>4. changes = 0 => PosOK(run.t, mem, disk', fsPolicy)
  BY <1>2, <1>3 DEF RunPos
<1>5. Flatten \notin mem.done
  BY <1>1, <1>2 DEF RunShape
<1>6. ExtractSkipped(mem, disk, run.policy)
  BY <1>1, <1>2 DEF RunPos, Past, Moving
<1>7. CASE /\ ~(run.policy.flatten /\ IsDir(mem.staging) /\ disk[mem.staging.at].nested)
           /\ Skip(Flatten, mem)
  <2>1. FlattenSkipped(mem, disk', run.policy)
    <3> SUFFICES ASSUME mem.artifact = NoPath, run.policy.flatten,
                        DirIn(disk, mem.staging.at), disk[mem.staging.at].nested
                 PROVE  FALSE
      BY <1>3 DEF FlattenSkipped
    <3>1. ~mem.staging.inner
      BY <1>2, <1>5 DEF MetaShape
    <3> QED BY <1>7, <3>1 DEF IsDir, Exists, DirIn
  <2>2. ExtractSkipped(mem, disk', run.policy)
    BY <1>3, <1>6
  <2> QED BY <1>1, <1>2, <1>3, <1>4, <1>7, <2>1, <2>2, SucceedPos DEF Local, Skip
<1>8. CASE /\ run.policy.flatten /\ IsDir(mem.staging) /\ disk[mem.staging.at].nested
           /\ Succeed(Flatten, r) /\ r \in MetaType /\ ~r.completed
           /\ r.done = mem.done \cup {Flatten}
           /\ r.staging = [at |-> mem.staging.at, inner |-> TRUE]
           /\ r.staging.inner /\ r.artifact = mem.artifact
  <2>1. FlattenSkipped(r, disk', run.policy) /\ ExtractSkipped(r, disk', run.policy)
    BY <1>8 DEF FlattenSkipped, ExtractSkipped
  <2>2. ASSUME changes = 0 PROVE PosOK(run.t, r, disk', fsPolicy)
    <3> SUFFICES ASSUME r.artifact # NoPath, Transfer \notin r.done
                 PROVE  /\ run.t \in InLibrary /\ fsPolicy.rules /\ fsPolicy.flatten
                        /\ r.staging = [at |-> r.artifact.at, inner |-> TRUE]
      BY <1>8 DEF PosOK
    <3>1. /\ run.t \in InLibrary /\ mem.staging = mem.artifact
          /\ fsPolicy.flatten /\ ~fsPolicy.rules =>
               ~(DirIn(disk, mem.artifact.at) /\ disk[mem.artifact.at].nested)
      BY <1>2, <1>5, <1>8, <2>2 DEF RunPos, PosOK
    <3>2. ~mem.artifact.inner
      BY <1>2, <1>8 DEF MetaShape
    <3>3. DirIn(disk, mem.artifact.at) /\ disk[mem.artifact.at].nested
      BY <1>8, <3>1, <3>2 DEF IsDir, Exists, DirIn
    <3> QED BY <1>2, <1>8, <2>2, <3>1, <3>3
  <2> QED BY <1>1, <1>2, <1>3, <1>4, <1>8, <2>1, <2>2, SucceedPos DEF Local
<1> QED BY <1>3, <1>7, <1>8

\* A step of a transfer that is under way cannot disturb an artifact in
\* position.
LEMMA MovingPos ==
  ASSUME PosCtx, run.step = Transfer, Moving, NEW d
  PROVE  changes = 0 => PosOK(run.t, mem, d, fsPolicy)
<1>1. RunPos
  BY PosFacts
<1> SUFFICES ASSUME changes = 0, mem.artifact # NoPath, Transfer \notin mem.done
             PROVE  PosOK(run.t, mem, d, fsPolicy)
  BY DEF PosOK
<1>2. PosOK(run.t, mem, disk, fsPolicy) /\ mem.staging # mem.artifact
  BY <1>1 DEF RunPos
<1> QED BY <1>2 DEF PosOK

\* The artifact has been placed.
LEMMA PlacedPos ==
  ASSUME PosCtx, run.step = Transfer, run.phase # "save", Local,
         Complete(Transfer, Placed(mem)), changes = 0 => PosOK(run.t, mem, disk', fsPolicy)
  PROVE  PosInv'
<1>1. run \in RunType /\ TypeInv /\ MetaShape(run.t, mem) /\ Transfer \in Steps
  BY PosFacts DEF Steps
<1> DEFINE r == [Placed(mem) EXCEPT !.done = @ \cup {Transfer}]
<1>2. /\ r \in MetaType /\ ~r.completed /\ r.artifact # NoPath
      /\ r # Placed(mem) => r.done = mem.done \cup {Transfer}
  BY <1>1, PlacedFacts
<1>3. Transfer \in r.done
  BY <1>1, TransferringFacts, RecordedFacts
<1>4. Succeed(Transfer, r)
  BY DEF Complete
<1> HIDE DEF r
<1>5. PosOK(run.t, r, disk', fsPolicy)
  BY <1>3 DEF PosOK
<1>6. ExtractSkipped(r, disk', run.policy) /\ FlattenSkipped(r, disk', run.policy)
  BY <1>2 DEF ExtractSkipped, FlattenSkipped
<1> QED BY <1>1, <1>2, <1>4, <1>5, <1>6, SucceedPos

LEMMA RunTransferPos ==
  ASSUME PosCtx, RunTransfer
  PROVE  PosInv'
<1>1. run.step = Transfer /\ run.phase = "op" /\ Transfer \in Steps
  BY DEF RunTransfer, Running, Steps
<1>2. /\ RunPos /\ run \in RunType /\ RunShape /\ mem \in MetaType /\ TypeInv /\ TypeOK
      /\ MetaShape(run.t, mem) /\ run.t \in Torrents /\ ShapeCtx /\ disk \in DiskType
      /\ changes = 0 => run.policy = fsPolicy
      /\ mem.artifact # NoPath => ~mem.artifact.inner /\ mem.artifact.at \in Places
  BY <1>1, PosFacts
<1>3. Local
  BY <1>2, RunTransferShape
<1>4. Transfer \notin mem.done
  BY <1>1, <1>2 DEF RunShape
<1>5. ExtractSkipped(mem, disk, run.policy) /\ FlattenSkipped(mem, disk, run.policy)
  BY <1>1, <1>2 DEF RunPos, Past, Moving
<1>6. ~Destination.inner /\ Destination.at.kind = "library"
  BY <1>2, DestinationFacts
<1>7. CASE /\ Exists(Destination) /\ mem.staging = Destination
           /\ Skip(Transfer, Placed(mem)) /\ UNCHANGED disk
  <2> DEFINE r == Placed(mem)
  <2>1. /\ r \in MetaType /\ ~r.completed /\ r.done = mem.done
        /\ r.staging = Destination /\ r.artifact = Destination /\ r.artifact # NoPath
    BY <1>1, <1>2, PlacedFacts, MetaUpdateFields
  <2>2. Succeed(Transfer, r)
    BY <1>7 DEF Skip
  <2> HIDE DEF r
  <2>3. changes = 0 => PosOK(run.t, mem, disk', fsPolicy)
    BY <1>2, <1>7 DEF RunPos
  <2>4. ASSUME changes = 0 PROVE PosOK(run.t, r, disk', fsPolicy)
    <3>1. CASE mem.artifact # NoPath
      BY <1>2, <1>7, <2>1, <2>3, <2>4, <3>1 DEF PosOK, Destination
    <3>2. CASE mem.artifact = NoPath
      <4>1. /\ mem.staging.at = IF Extract \in mem.done THEN Ext(run.t) ELSE SourcePath(run.t)
            /\ mem.staging.inner <=> Flatten \in mem.done
        BY <1>2, <3>2 DEF MetaShape
      <4>2. Flatten \notin mem.done /\ Extract \notin mem.done /\ run.t \in InLibrary
        BY <1>6, <1>7, <4>1 DEF Ext, SourcePath, Src
      <4>3. disk[mem.staging.at] # Absent
        BY <1>7 DEF Exists
      <4>4. run.policy.extract => DirIn(disk, mem.staging.at)
        BY <1>5, <1>6, <1>7, <3>2, <4>2 DEF ExtractSkipped
      <4>5. run.policy.flatten => ~(DirIn(disk, mem.staging.at) /\ disk[mem.staging.at].nested)
        BY <1>5, <3>2, <4>2 DEF FlattenSkipped
      <4> QED BY <1>2, <1>7, <2>1, <2>4, <4>2, <4>3, <4>4, <4>5 DEF PosOK
    <3> QED BY <3>1, <3>2
  <2>5. ExtractSkipped(r, disk', run.policy) /\ FlattenSkipped(r, disk', run.policy)
    BY <2>1 DEF ExtractSkipped, FlattenSkipped
  <2> QED BY <1>1, <1>2, <1>3, <2>1, <2>2, <2>3, <2>4, <2>5, SucceedPos
<1>8. CASE /\ ~(Exists(Destination) /\ mem.staging = Destination)
           /\ disk' = [disk EXCEPT ![Destination.at] = Absent] /\ Phase("transfer")
  <2>1. ASSUME changes = 0, mem.artifact # NoPath PROVE mem.staging # mem.artifact
    <3>1. Destination = mem.artifact
      BY <2>1 DEF Destination
    <3>2. PosOK(run.t, mem, disk, fsPolicy)
      BY <1>2, <2>1 DEF RunPos
    <3>3. mem.staging = mem.artifact => disk[mem.artifact.at] # Absent
      BY <1>2, <1>4, <2>1, <3>2 DEF PosOK
    <3> QED BY <1>2, <1>8, <2>1, <3>1, <3>3 DEF Exists
  <2>2. changes = 0 => PosOK(run.t, mem, disk', fsPolicy)
    BY <1>2, <2>1 DEF RunPos, PosOK
  <2> QED BY <1>1, <1>2, <1>3, <1>8, <2>1, <2>2, PhasePos
<1> QED BY <1>7, <1>8 DEF RunTransfer

\* The steps of a transfer that is under way, by what they do to the pipeline.
Transfers ==
    \/ TransferUnsupported \/ TransferMissing \/ TransferRename \/ TransferBegin
    \/ TransferEnd \/ TransferRemoveBegin \/ TransferRemoveEnd

LEMMA TransfersLead ==
  ASSUME ShapeCtx, Transfers
  PROVE  /\ run.step = Transfer /\ Moving /\ run.phase # "save" /\ run \in RunType /\ Local
         /\ \/ Reject \/ Complete(Transfer, Placed(mem))
            \/ \E p \in {"transfer", "copied", "removing"} : Phase(p)
<1>1. /\ run.step = Transfer /\ run.phase \in {"transfer", "copied", "removing"}
      /\ \/ Reject \/ Complete(Transfer, Placed(mem))
         \/ \E p \in {"transfer", "copied", "removing"} : Phase(p)
  BY DEF Transfers, TransferUnsupported, TransferMissing, TransferRename, TransferBegin,
         TransferEnd, TransferRemoveBegin, TransferRemoveEnd, Transferring
<1>2. run \in RunType
  BY <1>1, TransferShape
<1>3. Local
  BY TransferFailsShape, TransferRenameShape, TransferCopyShape, TransferRemoveShape DEF Transfers
<1> QED BY <1>1, <1>2, <1>3 DEF Moving

LEMMA TransfersPos ==
  ASSUME PosCtx, Transfers
  PROVE  PosInv'
<1>1. /\ run.step = Transfer /\ Moving /\ run.phase # "save" /\ run \in RunType /\ Local
      /\ \/ Reject \/ Complete(Transfer, Placed(mem))
         \/ \E p \in {"transfer", "copied", "removing"} : Phase(p)
  BY TransfersLead DEF PosCtx
<1>2. changes = 0 => PosOK(run.t, mem, disk', fsPolicy)
  BY <1>1, MovingPos
<1>3. changes = 0 /\ mem.artifact # NoPath => mem.staging # mem.artifact
  BY <1>1, PosFacts DEF RunPos
<1>4. CASE Reject
  BY <1>1, <1>2, <1>4, RejectLeads, IdlePos
<1>5. CASE Complete(Transfer, Placed(mem))
  BY <1>1, <1>2, <1>5, PlacedPos
<1>6. CASE \E p \in {"transfer", "copied", "removing"} : Phase(p)
  BY <1>1, <1>2, <1>3, <1>6, PhasePos
<1> QED BY <1>1, <1>4, <1>5, <1>6

LEMMA RunCleanupPos ==
  ASSUME PosCtx, RunCleanup
  PROVE  PosInv'
<1>1. Running(Cleanup) /\ run.step = Cleanup /\ run.phase = "op" /\ Cleanup \in Steps
  BY DEF RunCleanup, Running, Steps
<1>2. /\ RunPos /\ run \in RunType /\ RunShape /\ mem \in MetaType /\ TypeInv /\ ~mem.completed
      /\ ShapeCtx /\ disk \in DiskType
      /\ changes = 0 => run.policy = fsPolicy
  BY <1>1, PosFacts, TypeInvFacts
<1>3. Local
  BY <1>2, RunCleanupShape
<1>4. CASE Skip(Cleanup, mem) /\ UNCHANGED disk
  BY <1>1, <1>2, <1>4, PlainPos DEF Skip
<1>5. CASE /\ ArtifactExists /\ IsDir(mem.artifact) /\ run.policy.rules
           /\ Complete(Cleanup, mem) /\ mem.artifact \in Paths
           /\ mem.artifact.at \in Places /\ disk[mem.artifact.at] \in Content
           /\ \E n \in BOOLEAN :
                disk' = [disk EXCEPT ![mem.artifact.at] =
                           [disk[mem.artifact.at] EXCEPT !.nested = n]]
  <2>1. PICK n \in BOOLEAN :
          disk' = [disk EXCEPT ![mem.artifact.at] = [disk[mem.artifact.at] EXCEPT !.nested = n]]
    BY <1>5
  <2> DEFINE c == [disk[mem.artifact.at] EXCEPT !.nested = n]
  <2>2. c \in Content /\ c.form = disk[mem.artifact.at].form
    BY <1>5 DEF Content
  <2>3. disk'[mem.artifact.at] = c
    BY <1>2, <1>5, <2>1 DEF DiskType
  <2> HIDE DEF c
  <2>4. disk'[mem.artifact.at] # Absent /\ disk[mem.artifact.at] # Absent
    BY <1>5, <2>2, <2>3, ContentFacts
  <2>5. DirIn(disk, mem.artifact.at) => DirIn(disk', mem.artifact.at)
    BY <2>2, <2>3, <2>4 DEF DirIn
  <2>6. changes = 0 => PosOK(run.t, mem, disk', fsPolicy)
    BY <1>2, <1>5, <2>4, <2>5 DEF RunPos, PosOK
  <2> DEFINE r == [mem EXCEPT !.done = @ \cup {Cleanup}]
  <2>7. /\ r \in MetaType /\ ~r.completed /\ r.done = mem.done \cup {Cleanup}
        /\ r.staging = mem.staging /\ r.artifact = mem.artifact
    BY <1>1, <1>2, RecordedFacts
  <2>8. Succeed(Cleanup, r)
    BY <1>5 DEF Complete
  <2> HIDE DEF r
  <2>9. changes = 0 => PosOK(run.t, r, disk', fsPolicy)
    BY <2>6, <2>7 DEF PosOK
  <2>10. ExtractSkipped(r, disk', run.policy) /\ FlattenSkipped(r, disk', run.policy)
    BY <1>5, <2>7 DEF ExtractSkipped, FlattenSkipped, ArtifactExists
  <2> QED BY <1>1, <1>2, <1>3, <2>6, <2>7, <2>8, <2>9, <2>10, SucceedPos
<1> QED BY <1>2, <1>4, <1>5, RunCleanupLeads

LEMMA RunChecksumPos ==
  ASSUME PosCtx, RunChecksum
  PROVE  PosInv'
<1>1. TypeInv /\ Checksum \in Steps
  BY DEF PosCtx, ShapeCtx, Steps
<1>2. Running(Checksum) /\ UNCHANGED disk
  BY <1>1, RunChecksumLeads
<1>3. PICK r \in MetaType :
        /\ Succeed(Checksum, r) /\ ~r.completed
        /\ r.staging = mem.staging /\ r.artifact = mem.artifact
        /\ r.done = mem.done \/ r.done = mem.done \cup {Checksum}
  BY <1>1, RunChecksumLeads
<1> QED BY <1>1, <1>2, <1>3, PlainPos

LEMMA RunFinalisePos ==
  ASSUME PosCtx, RunFinalise
  PROVE  PosInv'
<1> DEFINE m == [mem EXCEPT !.done = @ \cup {Finalise}, !.completed = TRUE]
<1>1. TypeInv
  BY DEF PosCtx, ShapeCtx
<1>2. /\ run \in RunType /\ run.step = Finalise /\ run.phase = "op"
      /\ m \in MetaType /\ Saving(m)
      /\ m.done = mem.done \cup {Finalise} /\ m.staging = mem.staging
      /\ m.artifact = mem.artifact
      /\ disk' = [disk EXCEPT ![Ext(run.t)] = Absent] \/ disk' = disk
      /\ UNCHANGED <<meta, fsPolicy, changes>>
  BY <1>1, RunFinaliseLeads
<1> HIDE DEF m
<1>3. /\ RunPos /\ RunShape /\ ShapeCtx /\ disk \in DiskType
      /\ mem.artifact # NoPath => mem.artifact.at # Ext(run.t) /\ mem.artifact.at \in Places
  BY <1>2, PosFacts
<1>4. Local
  BY <1>3, RunFinaliseShape
<1>5. mem.artifact # NoPath
  BY <1>2, <1>3 DEF RunShape, Past
<1>6. disk'[mem.artifact.at] = disk[mem.artifact.at]
  BY <1>2, <1>3, <1>5 DEF DiskType
<1>7. changes = 0 => PosOK(run.t, mem, disk', fsPolicy)
  BY <1>3, <1>6, PosFrame DEF RunPos
<1>8. changes' = 0 =>
        \A t \in Torrents : Readable(t)' => PosOK(t, meta'[t], disk', fsPolicy')
  BY <1>2, <1>4, <1>7, OthersPos
<1>9. /\ run'.t = run.t /\ run'.mem = m /\ run'.phase = "save"
  BY <1>2, SavingRun
<1>10. changes = 0 => PosOK(run.t, m, disk', fsPolicy)
  BY <1>2, <1>7 DEF PosOK
<1>11. RunPos'
  BY <1>2, <1>5, <1>9, <1>10 DEF RunPos, mem, Moving, ExtractSkipped, FlattenSkipped
<1> QED BY <1>8, <1>11 DEF PosInv

LEMMA SaveMetaPos ==
  ASSUME PosCtx, SaveMeta
  PROVE  PosInv'
<1>1. TypeInv /\ run.step # 0
  BY DEF PosCtx, ShapeCtx, SaveMeta
<1>2. /\ TypeOK /\ run \in RunType /\ run.t \in Torrents
      /\ meta' = [meta EXCEPT ![run.t] = mem]
      /\ UNCHANGED <<disk, fsPolicy, crashes, faults, changes>>
  BY <1>1, SaveMetaLeads
<1>3. RunPos /\ RunShape
  BY <1>1, PosFacts
<1>4. meta'[run.t] = mem /\ \A u \in Torrents : u # run.t => meta'[u] = meta[u]
  BY <1>2 DEF TypeOK
<1>5. changes' = 0 =>
        \A t \in Torrents : Readable(t)' => PosOK(t, meta'[t], disk', fsPolicy')
  BY <1>2, <1>3, <1>4 DEF PosCtx, PosInv, RunPos, Readable
<1>6. CASE run' = Idle
  BY <1>5, <1>6 DEF PosInv, Idle
<1>7. CASE run.phase = "start" /\ run.step = Finalise /\ run' = [run EXCEPT !.phase = "op"]
  <2>1. /\ run'.t = run.t /\ run'.policy = run.policy /\ run'.mem = mem
        /\ run'.step = Finalise /\ run'.phase = "op"
    BY <1>2, <1>7 DEF RunType, mem
  <2>2. RunPos'
    BY <1>2, <1>3, <1>7, <2>1 DEF RunPos, mem, Past, Moving
  <2> QED BY <1>5, <2>2 DEF PosInv
<1>8. CASE run.phase = "save" /\ Onward(run.step, mem)
  <2>1. /\ run'.t = run.t /\ run'.policy = run.policy /\ run'.mem = mem
        /\ run.step \in Steps /\ run'.step \in (run.step + 1)..14
        /\ run'.phase \in {"start", "op"}
        /\ \A i \in (run.step + 1)..(run'.step - 1) : i \in mem.done
    BY <1>2, <1>8 DEF Onward, RunType
  <2>2. ASSUME NEW j \in {Extract, Flatten}, Past(j)', ~Past(j) PROVE j \in mem.done
    <3>1. j \in (run.step + 1)..(run'.step - 1)
      BY <1>8, <2>1, <2>2 DEF Past, Steps
    <3> QED BY <2>1, <3>1
  <2>3. /\ Past(Extract)' => ExtractSkipped(mem, disk, run.policy)
        /\ Past(Flatten)' => FlattenSkipped(mem, disk, run.policy)
    BY <1>3, <1>8, <2>2 DEF RunPos, Moving, ExtractSkipped, FlattenSkipped
  <2>4. RunPos'
    BY <1>2, <1>3, <2>1, <2>3 DEF RunPos, mem, Moving
  <2> QED BY <1>5, <2>4 DEF PosInv
<1> QED BY <1>1, <1>6, <1>7, <1>8, SaveMetaLeads

LEMMA ApplyPos ==
  ASSUME PosCtx, NEW t \in Torrents, Apply(t)
  PROVE  PosInv'
<1>1. TypeInv /\ TypeOK /\ PosInv
  BY DEF PosCtx, ShapeCtx, TypeInv
<1>2. UNCHANGED <<disk, meta, fsPolicy, changes>>
  BY <1>1, ApplyLeads
<1>3. changes' = 0 =>
        \A u \in Torrents : Readable(u)' => PosOK(u, meta'[u], disk', fsPolicy')
  BY <1>1, <1>2 DEF PosInv, Readable
<1>4. CASE run' = Idle
  BY <1>3, <1>4 DEF PosInv, Idle
<1>5. CASE /\ meta[t] # TornFile
           /\ run' \in RunType /\ run'.t = t /\ run'.policy = fsPolicy
           /\ run'.mem = Load(t)
           /\ run'.phase = IF run'.step = Finalise THEN "start" ELSE "op"
           /\ \A i \in 1..(run'.step - 1) : i \in Load(t).done
  <2>1. changes = 0 => PosOK(t, Load(t), disk, fsPolicy)
    <3>1. CASE meta[t] = NoFile
      BY <3>1 DEF Load, NewMeta, PosOK
    <3>2. CASE meta[t] # NoFile
      BY <1>1, <1>5, <3>2 DEF Load, PosInv, Readable
    <3> QED BY <3>1, <3>2
  <2>2. run'.step \in Steps
    BY <1>5 DEF RunType
  <2>3. ASSUME NEW j \in {Extract, Flatten}, Past(j)' PROVE j \in Load(t).done
    <3>1. j \in 1..(run'.step - 1)
      BY <1>5, <2>2, <2>3 DEF Past, Steps
    <3> QED BY <1>5, <3>1
  <2>4. /\ Past(Extract)' => ExtractSkipped(Load(t), disk, fsPolicy)
        /\ Past(Flatten)' => FlattenSkipped(Load(t), disk, fsPolicy)
    BY <2>3 DEF ExtractSkipped, FlattenSkipped
  <2>5. RunPos'
    BY <1>2, <1>5, <2>1, <2>4 DEF RunPos, mem, Moving
  <2> QED BY <1>3, <2>5 DEF PosInv
<1> QED BY <1>1, <1>4, <1>5, ApplyLeads

LEMMA InterruptPos ==
  ASSUME PosCtx, IoError \/ Crash
  PROVE  PosInv'
<1>1. TypeInv /\ TypeOK /\ PosInv
  BY DEF PosCtx, ShapeCtx, TypeInv
<1>2. /\ run.t \in Torrents /\ run' = Idle /\ UNCHANGED <<disk, fsPolicy, changes>>
      /\ meta' = meta \/ meta' = [meta EXCEPT ![run.t] = TornFile]
  BY <1>1, InterruptLeads
<1>3. \A u \in Torrents : meta'[u] = meta[u] \/ meta'[u] = TornFile
  BY <1>1, <1>2 DEF TypeOK
<1> QED BY <1>1, <1>2, <1>3 DEF PosInv, Readable, Idle

LEMMA UpdateFsPolicyPos ==
  ASSUME PosCtx, UpdateFsPolicy
  PROVE  PosInv'
<1>1. changes' # 0 /\ UNCHANGED <<disk, meta, run>>
  BY FaultAssumption DEF UpdateFsPolicy, PosCtx, ShapeCtx, TypeInv, TypeOK
<1>2. ASSUME run.step # 0 PROVE RunPos'
  <2>1. RunPos
    BY <1>2 DEF PosCtx, PosInv
  <2> QED BY <1>1, <2>1 DEF RunPos, mem, Past, Moving
<1> QED BY <1>1, <1>2 DEF PosInv

LEMMA StutterPos ==
  ASSUME PosCtx, UNCHANGED vars
  PROVE  PosInv'
<1>1. UNCHANGED <<disk, meta, run, fsPolicy, changes>>
  BY DEF vars, env
<1>2. ASSUME run.step # 0 PROVE RunPos'
  <2>1. RunPos
    BY <1>2 DEF PosCtx, PosInv
  <2> QED BY <1>1, <2>1 DEF RunPos, mem, Past, Moving
<1> QED BY <1>1, <1>2 DEF PosInv, PosCtx, Readable

LEMMA StepPos ==
  ASSUME PosCtx, [Next]_vars
  PROVE  PosInv'
<1>1. CASE \E t \in Torrents : Apply(t)
  BY <1>1, ApplyPos
<1>2. CASE PipelineStep
  BY <1>2, PlainStepsPos, RunExtractPos, ExtractArchivePos, RunFlattenPos, RunTransferPos,
     TransfersPos, RunCleanupPos, RunChecksumPos, RunFinalisePos, SaveMetaPos
     DEF PipelineStep, Transfers
<1>3. CASE UpdateFsPolicy
  BY <1>3, UpdateFsPolicyPos
<1>4. CASE IoError \/ Crash
  BY <1>4, InterruptPos
<1>5. CASE UNCHANGED vars
  BY <1>5, StutterPos
<1> QED BY <1>1, <1>2, <1>3, <1>4, <1>5 DEF Next

LEMMA InitPos == Init => PosInv
BY DEF Init, PosInv, Idle, Readable

-----------------------------------------------------------------------------
(* The payload.                                                            *)

\* The torrent is copied or linked, is not flattened late, and the policy has
\* been the same all along.
Steady(t) == NothingMoved /\ ~FlattensLate(t)

Active(t) == run.step # 0 /\ run.t = t

Holds(d, p, t) == d[p] # Absent /\ d[p].of = t /\ d[p].state = "whole"

\* All of the payload is where a run that goes on from metadata m takes it from.
KeptBy(t, m, d) ==
    IF m.artifact = NoPath
    THEN Holds(d, m.staging.at, t) /\ (m.staging.inner => d[m.staging.at].nested)
    ELSE Holds(d, m.artifact.at, t)

\* All of it is somewhere that no other torrent's run changes.
KeptIn(t, d) == \E p \in Places : p \in Own(t) /\ Holds(d, p, t)

\* What the metadata file says, for a run that begins or resumes.
AtRest(t) ==
    /\ Steady(t) \/ (Uninterrupted /\ ~Active(t)) =>
         IF meta[t] = TornFile THEN KeptIn(t, disk) ELSE KeptBy(t, Load(t), disk)
    /\ Uninterrupted /\ ~Active(t) /\ Readable(t) /\ meta[t].artifact # NoPath =>
         meta[t].completed

\* What the run in progress has: the payload at the source until it has been
\* transferred, and at the destination from then on.
RunSafe ==
    Uninterrupted \/ Steady(run.t) =>
      /\ IF run.phase \in {"copied", "removing"}
         THEN Holds(disk, Destination.at, run.t)
         ELSE KeptBy(run.t, mem, disk)
      /\ Moving => mem.artifact = NoPath /\ mem.staging.at # Destination.at
      /\ Uninterrupted /\ mem.artifact # NoPath => Past(Transfer)

SafeInv == (\A t \in Torrents : AtRest(t)) /\ (run.step # 0 => RunSafe)

SafeCtx == PosCtx /\ SafeInv

LEMMA KeptSame ==
  ASSUME NEW t, NEW a, NEW b, NEW d, Same(a, b), KeptBy(t, b, d)
  PROVE  KeptBy(t, a, d)
BY DEF Same, KeptBy

LEMMA KeptFrame ==
  ASSUME NEW t, NEW m, NEW d, NEW e, KeptBy(t, m, d),
         IF m.artifact = NoPath THEN e[m.staging.at] = d[m.staging.at]
                                ELSE e[m.artifact.at] = d[m.artifact.at]
  PROVE  KeptBy(t, m, e)
BY DEF KeptBy, Holds

LEMMA KeptIsSomewhere ==
  ASSUME NEW t, NEW m \in MetaType, MetaShape(t, m), NEW d, KeptBy(t, m, d)
  PROVE  KeptIn(t, d)
<1>1. CASE m.artifact = NoPath
  BY <1>1, MetaFacts, PlaceFacts DEF KeptBy, KeptIn, MetaShape
<1>2. CASE m.artifact # NoPath
  BY <1>2, MetaFacts, PlaceFacts DEF KeptBy, KeptIn, MetaShape
<1> QED BY <1>1, <1>2

LEMMA LoadShape ==
  ASSUME TypeOK, ShapeInv, NEW t \in Torrents, meta[t] # TornFile
  PROVE  Load(t) \in MetaType /\ MetaShape(t, Load(t))
BY NewMetaFacts, NewMetaShape DEF TypeOK, Load, ShapeInv, Readable

\* The places of a torrent with no run, or another one's run, are left alone.
LEMMA OthersAtRest ==
  ASSUME SafeCtx, run \in RunType, Local, NEW t \in Torrents, t # run.t,
         meta'[t] = meta[t], UNCHANGED <<fsPolicy, changes>>,
         Uninterrupted' => Uninterrupted, run'.step # 0 => run'.t = run.t
  PROVE  AtRest(t)'
<1>1. /\ TypeOK /\ run.t \in Torrents /\ run.step # 0 /\ NamesApart /\ AtRest(t)
      /\ meta[t] \in MetaType \cup {NoFile, TornFile} /\ ShapeInv
  BY RunFacts DEF SafeCtx, SafeInv, PosCtx, ShapeCtx, TypeInv, TypeOK
<1>2. ~Active(t) /\ ~Active(t)' /\ (Steady(t)' <=> Steady(t))
  BY DEF Active, Steady, NothingMoved, FlattensLate
<1>3. Steady(t) \/ Uninterrupted =>
        IF meta[t] = TornFile THEN KeptIn(t, disk) ELSE KeptBy(t, Load(t), disk)
  BY <1>1, <1>2 DEF AtRest
<1>4. \A p \in Places : p \in Own(t) => disk'[p] = disk[p]
  BY <1>1 DEF NamesApart, Local
<1>5. Load(t)' = Load(t) /\ (Readable(t)' <=> Readable(t))
  BY DEF Load, Readable
<1>6. ASSUME meta[t] # TornFile, KeptBy(t, Load(t), disk) PROVE KeptBy(t, Load(t), disk')
  <2>1. Load(t) \in MetaType /\ MetaShape(t, Load(t))
    BY <1>1, <1>6, LoadShape
  <2>2. /\ Load(t).staging.at \in Own(t) /\ Load(t).staging.at \in Places
        /\ Load(t).artifact # NoPath =>
             Load(t).artifact.at \in Own(t) /\ Load(t).artifact.at \in Places
    BY <2>1, MetaFacts, PlaceFacts DEF MetaShape
  <2> QED BY <1>4, <1>6, <2>2, KeptFrame
<1>7. KeptIn(t, disk) => KeptIn(t, disk')
  BY <1>4 DEF KeptIn, Holds
<1>8. /\ Steady(t)' \/ Uninterrupted' =>
           IF meta'[t] = TornFile THEN KeptIn(t, disk') ELSE KeptBy(t, Load(t)', disk')
      /\ Uninterrupted' /\ Readable(t)' /\ meta'[t].artifact # NoPath => meta'[t].completed
  BY <1>1, <1>2, <1>3, <1>5, <1>6, <1>7 DEF AtRest
<1> QED BY <1>2, <1>8 DEF AtRest

\* What a step of the pipeline may use.
LEMMA SafeFacts ==
  ASSUME SafeCtx, run.step # 0
  PROVE  /\ PosCtx /\ ShapeCtx /\ TypeInv /\ TypeOK /\ RunShape /\ RunPos /\ RunSafe
         /\ run \in RunType /\ run.t \in Torrents /\ mem \in MetaType
         /\ MetaShape(run.t, mem) /\ disk \in DiskType
         /\ AtRest(run.t) /\ meta[run.t] # TornFile
         /\ run.phase # "save" => Same(Load(run.t), mem)
         /\ Steady(run.t) => run.policy.move_mode # "move" /\ changes = 0 /\ run.policy = fsPolicy
<1>1. PosCtx /\ RunSafe
  BY DEF SafeCtx, SafeInv
<1>2. /\ ShapeCtx /\ TypeInv /\ TypeOK /\ RunShape /\ RunPos
      /\ run \in RunType /\ run.t \in Torrents /\ mem \in MetaType
      /\ MetaShape(run.t, mem) /\ disk \in DiskType
      /\ changes = 0 => run.policy = fsPolicy
  BY <1>1, PosFacts
<1>3. AtRest(run.t)
  BY <1>2 DEF SafeCtx, SafeInv
<1>4. meta[run.t] # TornFile /\ (run.phase # "save" => Same(Load(run.t), mem))
  BY <1>2 DEF RunShape
<1>5. Steady(run.t) => run.policy.move_mode # "move" /\ changes = 0 /\ run.policy = fsPolicy
  BY <1>2 DEF Steady, NothingMoved
<1> QED BY <1>1, <1>2, <1>3, <1>4, <1>5

\* The torrent's own metadata file, while its run goes on.
LEMMA OwnAtRest ==
  ASSUME SafeCtx, run \in RunType, run.phase # "save",
         UNCHANGED <<meta, fsPolicy, changes>>,
         NEW t, t = run.t, Active(t)',
         Steady(run.t) => KeptBy(run.t, mem, disk')
  PROVE  AtRest(t)'
<1>1. Same(Load(t), mem) /\ meta[t] # TornFile
  BY SafeFacts, RunFacts DEF SafeCtx, PosCtx, ShapeCtx, TypeInv, TypeOK
<1>2. Load(t)' = Load(t) /\ (Steady(t)' <=> Steady(t))
  BY DEF Load, Steady, NothingMoved, FlattensLate
<1>3. Steady(t) => KeptBy(t, Load(t), disk')
  BY <1>1, KeptSame
<1> QED BY <1>1, <1>2, <1>3 DEF AtRest

LEMMA SucceedSafe ==
  ASSUME SafeCtx, run \in RunType, run.phase # "save", NEW k \in Steps, k = run.step,
         k # Finalise, NEW m \in MetaType, ~m.completed, Succeed(k, m), Local,
         Steady(run.t) => KeptBy(run.t, mem, disk'),
         Uninterrupted \/ Steady(run.t) => KeptBy(run.t, m, disk'),
         Uninterrupted /\ m.artifact # NoPath => k >= Transfer
  PROVE  SafeInv'
<1>1. TypeOK
  BY DEF SafeCtx, PosCtx, ShapeCtx, TypeInv
<1>2. /\ UNCHANGED <<meta, fsPolicy, crashes, faults, changes>>
      /\ IF PersistsSuccess(k) THEN Saving(m) ELSE Onward(k, m)
  BY <1>1, SucceedLeads
<1>3. /\ run'.t = run.t /\ run'.mem = m /\ run' \in RunType
      /\ \/ PersistsSuccess(k) /\ run'.step = k /\ run'.phase = "save"
         \/ k \in {1, 2, 4} /\ run'.phase \in {"start", "op"}
  BY <1>2, SavingRun DEF Onward, PersistsSuccess
<1>4. run'.step # 0
  BY <1>3 DEF RunType, Steps
<1>5. /\ Uninterrupted' <=> Uninterrupted
      /\ Steady(run.t)' <=> Steady(run.t)
  BY <1>2, <1>3 DEF Uninterrupted, Steady, NothingMoved, FlattensLate
<1>6. ASSUME NEW t \in Torrents PROVE AtRest(t)'
  <2>1. CASE t # run.t
    BY <1>2, <1>3, <1>5, <2>1, OthersAtRest
  <2>2. CASE t = run.t
    BY <1>2, <1>3, <1>4, <2>2, OwnAtRest DEF Active
  <2> QED BY <2>1, <2>2
<1>7. Uninterrupted /\ m.artifact # NoPath => Past(Transfer)'
  BY <1>3 DEF Past, Steps
<1>8. RunSafe'
  BY <1>3, <1>5, <1>7 DEF RunSafe, mem, Moving
<1> QED BY <1>6, <1>8 DEF SafeInv

LEMMA PhaseSafe ==
  ASSUME SafeCtx, run \in RunType,
         NEW phase \in {"extract", "transfer", "copied", "removing"}, Phase(phase),
         run.phase # "save", run.step \in {Extract, Transfer}, Local,
         Steady(run.t) => KeptBy(run.t, mem, disk'),
         Uninterrupted \/ Steady(run.t) =>
           /\ IF phase \in {"copied", "removing"} THEN Holds(disk', Destination.at, run.t)
                                                  ELSE KeptBy(run.t, mem, disk')
           /\ phase # "extract" => mem.artifact = NoPath /\ mem.staging.at # Destination.at
  PROVE  SafeInv'
<1>1. UNCHANGED <<meta, fsPolicy, crashes, faults, changes>>
  BY PhaseLeads
<1>2. /\ run' \in RunType /\ run'.t = run.t /\ run'.mem = run.mem
      /\ run'.step = run.step /\ run'.phase = phase /\ run'.step # 0
  BY PhaseRun
<1>3. /\ Uninterrupted' <=> Uninterrupted
      /\ Steady(run.t)' <=> Steady(run.t)
      /\ Destination' = Destination /\ mem' = mem
  BY <1>1, <1>2 DEF Uninterrupted, Steady, NothingMoved, FlattensLate, Destination, mem
<1>4. ASSUME NEW t \in Torrents PROVE AtRest(t)'
  <2>1. CASE t # run.t
    BY <1>1, <1>2, <1>3, <2>1, OthersAtRest
  <2>2. CASE t = run.t
    BY <1>1, <1>2, <2>2, OwnAtRest DEF Active
  <2> QED BY <2>1, <2>2
<1>5. Uninterrupted => mem.artifact = NoPath
  <2>1. RunSafe /\ ~Past(Transfer)
    BY SafeFacts DEF Past
  <2> QED BY <2>1 DEF RunSafe
<1>6. RunSafe'
  BY <1>2, <1>3, <1>5 DEF RunSafe, Moving
<1> QED BY <1>4, <1>6 DEF SafeInv

LEMMA RejectSafe ==
  ASSUME SafeCtx, run.step # 0, run.phase # "save", Reject, Local, ~Past(Transfer),
         Uninterrupted \/ Steady(run.t) => KeptBy(run.t, mem, disk')
  PROVE  SafeInv'
<1>1. run' = Idle /\ UNCHANGED <<meta, fsPolicy, crashes, faults, changes>>
  BY RejectLeads
<1>2. /\ run \in RunType /\ RunSafe /\ Same(Load(run.t), mem) /\ meta[run.t] # TornFile
  BY SafeFacts
<1>3. run'.step = 0
  BY <1>1 DEF Idle
<1>4. /\ Uninterrupted' <=> Uninterrupted
      /\ \A t \in Torrents : Steady(t)' <=> Steady(t)
  BY <1>1 DEF Uninterrupted, Steady, NothingMoved, FlattensLate
<1>5. ASSUME NEW t \in Torrents PROVE AtRest(t)'
  <2>1. CASE t # run.t
    BY <1>1, <1>2, <1>3, <1>4, <2>1, OthersAtRest
  <2>2. CASE t = run.t
    <3>1. Load(t)' = Load(t) /\ (Readable(t)' <=> Readable(t))
      BY <1>1 DEF Load, Readable
    <3>2. Uninterrupted \/ Steady(t) => KeptBy(t, Load(t), disk')
      BY <1>2, <2>2, KeptSame
    <3>3. Uninterrupted => mem.artifact = NoPath
      BY <1>2 DEF RunSafe
    <3>4. Uninterrupted /\ Readable(t) => meta[t].artifact = NoPath
      BY <1>2, <2>2, <3>3 DEF Same, Load, Readable
    <3>5. Steady(t)' <=> Steady(t)
      BY <1>4
    <3> QED BY <1>1, <1>2, <1>4, <2>2, <3>1, <3>2, <3>4, <3>5 DEF AtRest
  <2> QED BY <2>1, <2>2
<1> QED BY <1>3, <1>5 DEF SafeInv

LEMMA PlainSafe ==
  ASSUME SafeCtx, NEW k \in Steps, k \notin {Extract, Flatten, Transfer, Finalise}, Running(k),
         UNCHANGED disk, NEW m \in MetaType, ~m.completed, Succeed(k, m),
         m.staging = mem.staging, m.artifact = mem.artifact
  PROVE  SafeInv'
<1>1. run.step = k /\ run.phase = "op" /\ run.step # 0
  BY DEF Running, Steps
<1>2. RunSafe /\ run \in RunType
  BY <1>1, SafeFacts
<1>3. Uninterrupted \/ Steady(run.t) =>
        KeptBy(run.t, mem, disk') /\ KeptBy(run.t, m, disk')
  BY <1>1, <1>2 DEF RunSafe, KeptBy
<1>4. Uninterrupted /\ m.artifact # NoPath => k >= Transfer
  BY <1>1, <1>2 DEF RunSafe, Past, Steps
<1> QED BY <1>1, <1>2, <1>3, <1>4, SucceedSafe DEF Local

LEMMA PlainStepsSafe ==
  ASSUME SafeCtx,
         \/ RunValidatePolicy \/ RunAllowlist \/ RunPrepareDirectories \/ RunCompileRules
         \/ RunLocateSource \/ RunVerifyPar2 \/ RunPrepareWorkDir \/ RunSetPermissions
  PROVE  SafeInv'
<1>1. TypeInv
  BY DEF SafeCtx, PosCtx, ShapeCtx
<1>2. PICK k \in {1, 2, 3, 4, 5, 6, 7, 11} : k \in Steps /\ Plainly(k)
  BY <1>1, PlainStepsLead
<1>3. run.step = k /\ run.step # 0 /\ run.phase = "op" /\ Running(k) /\ UNCHANGED disk
  BY <1>2 DEF Plainly, Running
<1>4. CASE Reject /\ k < Transfer
  <2>1. RunSafe
    BY <1>3, SafeFacts
  <2>2. Uninterrupted \/ Steady(run.t) => KeptBy(run.t, mem, disk')
    BY <1>3, <2>1 DEF RunSafe
  <2> QED BY <1>3, <1>4, <2>2, RejectSafe DEF Local, Past
<1>5. CASE \E m \in MetaType :
             /\ ~m.completed /\ Succeed(k, m)
             /\ m.staging = mem.staging /\ m.artifact = mem.artifact
  BY <1>2, <1>3, <1>5, PlainSafe
<1> QED BY <1>2, <1>4, <1>5 DEF Plainly

\* Extract leaves the archive, and an artifact, as they are.
LEMMA ExtractKeeps ==
  ASSUME SafeCtx, run.step = Extract, run.phase \in {"op", "extract"},
         NEW c, disk' = [disk EXCEPT ![Ext(run.t)] = c]
  PROVE  /\ Uninterrupted \/ Steady(run.t) => KeptBy(run.t, mem, disk')
         /\ Local /\ Extract \notin mem.done /\ mem.staging.at # Ext(run.t)
<1>1. /\ RunSafe /\ RunShape /\ MetaShape(run.t, mem) /\ disk \in DiskType /\ mem \in MetaType
      /\ run \in RunType /\ TypeInv /\ PosCtx
  BY SafeFacts
<1>2. Extract \notin mem.done
  BY <1>1 DEF RunShape
<1>3. mem.staging.at # Ext(run.t) /\ mem.staging.at \in Places
  BY <1>1, <1>2, MetaFacts, PlaceFacts DEF MetaShape, Ext
<1>4. mem.artifact # NoPath => mem.artifact.at # Ext(run.t) /\ mem.artifact.at \in Places
  BY <1>1, PosFacts
<1>5. /\ disk'[mem.staging.at] = disk[mem.staging.at]
      /\ mem.artifact # NoPath => disk'[mem.artifact.at] = disk[mem.artifact.at]
  BY <1>1, <1>3, <1>4 DEF DiskType
<1>6. Uninterrupted \/ Steady(run.t) => KeptBy(run.t, mem, disk)
  BY <1>1 DEF RunSafe
<1>7. Uninterrupted \/ Steady(run.t) => KeptBy(run.t, mem, disk')
  BY <1>5, <1>6, KeptFrame
<1>8. Local
  BY <1>1, PutLocal DEF Own
<1> QED BY <1>2, <1>3, <1>7, <1>8

LEMMA RunExtractSafe ==
  ASSUME SafeCtx, RunExtract
  PROVE  SafeInv'
<1>1. Running(Extract) /\ Extract \in Steps /\ run.step = Extract /\ run.phase = "op"
  BY DEF RunExtract, Running, Steps
<1>2. RunSafe /\ run \in RunType /\ mem \in MetaType /\ TypeInv /\ ~mem.completed
  BY <1>1, SafeFacts, TypeInvFacts
<1>3. CASE Skip(Extract, mem) /\ UNCHANGED disk
  <2>1. Uninterrupted \/ Steady(run.t) => KeptBy(run.t, mem, disk')
    BY <1>1, <1>2, <1>3 DEF RunSafe
  <2>2. Uninterrupted => mem.artifact = NoPath
    BY <1>1, <1>2 DEF RunSafe, Past
  <2> QED BY <1>1, <1>2, <1>3, <2>1, <2>2, SucceedSafe DEF Local, Skip
<1>4. CASE disk' = [disk EXCEPT ![Ext(run.t)] = EmptyDir] /\ Phase("extract")
  <2>1. (Uninterrupted \/ Steady(run.t) => KeptBy(run.t, mem, disk')) /\ Local
    BY <1>1, <1>4, ExtractKeeps
  <2> QED BY <1>1, <1>2, <1>4, <2>1, PhaseSafe
<1> QED BY <1>3, <1>4 DEF RunExtract, EmptyDir

LEMMA ExtractArchiveSafe ==
  ASSUME SafeCtx, ExtractArchive
  PROVE  SafeInv'
<1>1. run.step = Extract /\ run.phase = "extract" /\ Extract \in Steps
  BY DEF ExtractArchive, Steps
<1>2. /\ RunSafe /\ run \in RunType /\ disk \in DiskType /\ mem \in MetaType
      /\ MetaShape(run.t, mem) /\ TypeOK /\ TypeInv /\ run.t \in Torrents /\ PosCtx
  BY <1>1, SafeFacts
<1>3. Uninterrupted \/ Steady(run.t) => KeptBy(run.t, mem, disk)
  BY <1>1, <1>2 DEF RunSafe
<1> DEFINE m == [mem EXCEPT !.staging = At(Ext(run.t))]
<1>4. /\ m \in MetaType /\ ~m.completed /\ m.done = mem.done
      /\ m.staging = At(Ext(run.t)) /\ m.artifact = mem.artifact
  BY <1>1, <1>2, TypeInvFacts, MetaUpdates, MetaUpdateFields
<1>5. CASE /\ Exists(mem.staging)
           /\ \E n \in BOOLEAN : disk' = [disk EXCEPT ![Ext(run.t)] = Unpacked(n)]
           /\ Complete(Extract, m)
  <2> DEFINE r == [m EXCEPT !.done = @ \cup {Extract}]
  <2>1. /\ r \in MetaType /\ ~r.completed /\ r.staging = m.staging /\ r.artifact = m.artifact
    BY <1>1, <1>4, RecordedFacts
  <2>2. Succeed(Extract, r)
    BY <1>5 DEF Complete
  <2> HIDE DEF r, m
  <2>3. PICK n \in BOOLEAN : disk' = [disk EXCEPT ![Ext(run.t)] = Unpacked(n)]
    BY <1>5
  <2>4. (Uninterrupted \/ Steady(run.t) => KeptBy(run.t, mem, disk')) /\ Local
    BY <1>1, <2>3, ExtractKeeps
  <2>5. Ext(run.t) \in Places /\ disk[mem.staging.at] \in Content
    BY <1>2, <1>5, OperandFacts, PayloadFacts
  <2>6. disk'[Ext(run.t)] = Unpacked(n) /\ Unpacked(n) \in Content
    BY <1>2, <2>3, <2>5 DEF DiskType, Unpacked, Content
  <2>7. /\ disk'[Ext(run.t)] # Absent /\ disk'[Ext(run.t)].state = "whole"
        /\ disk'[Ext(run.t)].of = disk[mem.staging.at].of
    BY <2>6, ContentFacts DEF Unpacked
  <2>8. r.staging.at = Ext(run.t) /\ ~r.staging.inner
    BY <1>4, <2>1 DEF At
  <2>9. ASSUME Uninterrupted \/ Steady(run.t) PROVE KeptBy(run.t, r, disk')
    <3>1. CASE mem.artifact = NoPath
      BY <1>3, <1>4, <2>1, <2>7, <2>8, <2>9, <3>1 DEF KeptBy, Holds
    <3>2. CASE mem.artifact # NoPath
      BY <1>4, <2>1, <2>4, <2>9, <3>2 DEF KeptBy
    <3> QED BY <3>1, <3>2
  <2>10. Uninterrupted => r.artifact = NoPath
    BY <1>1, <1>2, <1>4, <2>1 DEF RunSafe, Past
  <2> QED BY <1>1, <1>2, <2>1, <2>2, <2>4, <2>9, <2>10, SucceedSafe
<1>6. CASE Reject /\ UNCHANGED disk
  BY <1>1, <1>3, <1>6, RejectSafe DEF Local, Past
<1> QED BY <1>5, <1>6, ExtractArchiveLeads

LEMMA RunFlattenSafe ==
  ASSUME SafeCtx, RunFlatten
  PROVE  SafeInv'
<1> DEFINE r == [[mem EXCEPT !.staging.inner = TRUE] EXCEPT !.done = @ \cup {Flatten}]
<1>1. run.step = Flatten /\ run.phase = "op" /\ Flatten \in Steps
  BY DEF RunFlatten, Running, Steps
<1>2. RunSafe /\ run \in RunType /\ mem \in MetaType /\ TypeInv /\ ~mem.completed
  BY <1>1, SafeFacts, TypeInvFacts
<1>3. /\ UNCHANGED disk
      /\ \/ /\ IsDir(mem.staging) /\ disk[mem.staging.at].nested
            /\ Succeed(Flatten, r) /\ r \in MetaType /\ ~r.completed
            /\ r.staging.at = mem.staging.at /\ r.artifact = mem.artifact
         \/ Skip(Flatten, mem)
  BY <1>2, RunFlattenLeads
<1> HIDE DEF r
<1>4. Uninterrupted \/ Steady(run.t) => KeptBy(run.t, mem, disk')
  BY <1>1, <1>2, <1>3 DEF RunSafe
<1>5. Uninterrupted => mem.artifact = NoPath
  BY <1>1, <1>2 DEF RunSafe, Past
<1>6. CASE Skip(Flatten, mem)
  BY <1>1, <1>2, <1>3, <1>4, <1>5, <1>6, SucceedSafe DEF Local, Skip
<1>7. CASE /\ IsDir(mem.staging) /\ disk[mem.staging.at].nested
           /\ Succeed(Flatten, r) /\ r \in MetaType /\ ~r.completed
           /\ r.staging.at = mem.staging.at /\ r.artifact = mem.artifact
  <2>1. Uninterrupted \/ Steady(run.t) => KeptBy(run.t, r, disk')
    BY <1>3, <1>4, <1>7 DEF KeptBy
  <2> QED BY <1>1, <1>2, <1>3, <1>4, <1>5, <1>7, <2>1, SucceedSafe DEF Local
<1> QED BY <1>3, <1>6, <1>7

\* A transfer that goes ahead is to another place: an artifact in position is
\* recognised as such.
LEMMA StagingApart ==
  ASSUME SafeCtx, run.step = Transfer, run.phase = "op", Uninterrupted \/ Steady(run.t),
         ~(Exists(Destination) /\ mem.staging = Destination)
  PROVE  mem.artifact = NoPath /\ mem.staging.at # Destination.at
<1>1. /\ RunSafe /\ RunShape /\ RunPos /\ run \in RunType /\ disk \in DiskType /\ TypeOK
      /\ MetaShape(run.t, mem) /\ run.t \in Torrents /\ mem \in MetaType /\ PosCtx
      /\ Steady(run.t) => changes = 0
  BY SafeFacts
<1>2. /\ ~Destination.inner /\ Destination.at.kind = "library" /\ Destination \in Paths
  BY <1>1, DestinationFacts
<1>3. KeptBy(run.t, mem, disk) /\ Transfer \notin mem.done
  BY <1>1 DEF RunSafe, RunShape
<1>4. ASSUME mem.artifact # NoPath PROVE FALSE
  <2>1. Steady(run.t) /\ PosOK(run.t, mem, disk, fsPolicy)
    BY <1>1, <1>4 DEF RunSafe, Past, RunPos
  <2>2. /\ Destination = mem.artifact /\ ~mem.artifact.inner
    BY <1>2, <1>4 DEF Destination
  <2>3. ~FlattensLate(run.t)
    BY <2>1 DEF Steady
  <2>4. mem.staging = mem.artifact /\ disk[mem.artifact.at] # Absent
    BY <1>3, <1>4, <2>1, <2>3 DEF PosOK, FlattensLate
  <2> QED BY <2>2, <2>4 DEF Exists
<1>5. mem.artifact = NoPath
  BY <1>4
<1>6. /\ mem.staging.at = IF Extract \in mem.done THEN Ext(run.t) ELSE SourcePath(run.t)
      /\ disk[mem.staging.at] # Absent
      /\ mem.staging \in Paths
      /\ Destination = At(Lib(NameOf(run.t, mem.staging)))
  BY <1>1, <1>3, <1>5, MetaFacts DEF MetaShape, KeptBy, Holds, Destination
<1>7. CASE mem.staging.at.kind # "library"
  BY <1>2, <1>5, <1>7
<1>8. CASE mem.staging.at.kind = "library"
  <2>1. mem.staging.at = Lib(FileName[run.t]) /\ run.t \in InLibrary
    BY <1>6, <1>8 DEF Ext, Src, SourcePath
  <2>2. CASE mem.staging.inner
    <3>1. Destination.at = Lib(InnerName[run.t])
      BY <1>6, <2>2 DEF NameOf, At
    <3>2. InnerName[run.t] # FileName[run.t]
      BY <1>1, <2>1 DEF PosCtx, NamesApart
    <3> QED BY <1>5, <2>1, <3>1, <3>2 DEF Lib
  <2>3. CASE ~mem.staging.inner
    <3>1. NameOf(run.t, mem.staging) = FileName[run.t]
      BY <1>8, <2>1, <2>3 DEF NameOf, Lib
    <3>2. Destination = At(mem.staging.at)
      BY <1>6, <2>1, <3>1
    <3>3. mem.staging = Destination
      BY <1>6, <2>3, <3>2 DEF Paths, At
    <3> QED BY <1>2, <1>6, <3>3 DEF Exists
  <2> QED BY <2>2, <2>3
<1> QED BY <1>7, <1>8

LEMMA RunTransferSafe ==
  ASSUME SafeCtx, RunTransfer
  PROVE  SafeInv'
<1>1. run.step = Transfer /\ run.phase = "op" /\ Transfer \in Steps
  BY DEF RunTransfer, Running, Steps
<1>2. /\ RunSafe /\ run \in RunType /\ mem \in MetaType /\ TypeInv /\ TypeOK /\ disk \in DiskType
      /\ MetaShape(run.t, mem) /\ ShapeCtx
  BY <1>1, SafeFacts
<1>3. Uninterrupted \/ Steady(run.t) => KeptBy(run.t, mem, disk)
  BY <1>1, <1>2 DEF RunSafe
<1>4. Local
  BY <1>2, RunTransferShape
<1>5. CASE /\ Exists(Destination) /\ mem.staging = Destination
           /\ Skip(Transfer, Placed(mem)) /\ UNCHANGED disk
  <2> DEFINE r == Placed(mem)
  <2>1. /\ r \in MetaType /\ ~r.completed /\ r.artifact = Destination /\ r.artifact # NoPath
    BY <1>1, <1>2, PlacedFacts
  <2>2. Succeed(Transfer, r)
    BY <1>5 DEF Skip
  <2> HIDE DEF r
  <2>3. KeptBy(run.t, mem, disk) => KeptBy(run.t, r, disk)
    BY <1>5, <2>1 DEF KeptBy, Destination
  <2> QED BY <1>1, <1>2, <1>3, <1>4, <1>5, <2>1, <2>2, <2>3, SucceedSafe
<1>6. CASE /\ ~(Exists(Destination) /\ mem.staging = Destination)
           /\ disk' = [disk EXCEPT ![Destination.at] = Absent] /\ Phase("transfer")
  <2>1. Destination.at \in Places /\ mem.staging.at \in Places
    BY <1>1, <1>2, TransferringFacts
  <2>2. Uninterrupted \/ Steady(run.t) => mem.artifact = NoPath /\ mem.staging.at # Destination.at
    BY <1>1, <1>6, StagingApart
  <2>3. mem.staging.at # Destination.at => disk'[mem.staging.at] = disk[mem.staging.at]
    BY <1>2, <1>6, <2>1 DEF DiskType
  <2>4. Uninterrupted \/ Steady(run.t) => KeptBy(run.t, mem, disk')
    BY <1>3, <2>2, <2>3, KeptFrame
  <2> QED BY <1>1, <1>2, <1>4, <1>6, <2>2, <2>4, PhaseSafe
<1> QED BY <1>5, <1>6 DEF RunTransfer

\* What a transfer that is under way writes at the destination leaves the
\* payload at the source.
LEMMA MovingKeeps ==
  ASSUME SafeCtx, run.step = Transfer, Moving, NEW c, disk' = [disk EXCEPT ![Destination.at] = c]
  PROVE  /\ run.phase = "transfer" /\ (Uninterrupted \/ Steady(run.t)) => KeptBy(run.t, mem, disk')
         /\ disk'[Destination.at] = c
<1>1. RunSafe /\ disk \in DiskType /\ TypeInv
  BY SafeFacts
<1>2. Destination.at \in Places /\ mem.staging.at \in Places
  BY <1>1, TransferringFacts DEF Moving
<1>3. mem.staging.at # Destination.at => disk'[mem.staging.at] = disk[mem.staging.at]
  BY <1>1, <1>2 DEF DiskType
<1>4. run.phase = "transfer" /\ (Uninterrupted \/ Steady(run.t)) =>
        /\ KeptBy(run.t, mem, disk) /\ mem.artifact = NoPath
        /\ mem.staging.at # Destination.at
  BY <1>1 DEF RunSafe, Moving
<1>5. run.phase = "transfer" /\ (Uninterrupted \/ Steady(run.t)) => KeptBy(run.t, mem, disk')
  BY <1>3, <1>4, KeptFrame
<1> QED BY <1>1, <1>2, <1>5 DEF DiskType

\* The artifact has been placed.
LEMMA PlacedSafe ==
  ASSUME SafeCtx, run.step = Transfer, Moving, Local, Complete(Transfer, Placed(mem)),
         Steady(run.t) => KeptBy(run.t, mem, disk'),
         Uninterrupted \/ Steady(run.t) => Holds(disk', Destination.at, run.t)
  PROVE  SafeInv'
<1>1. /\ run \in RunType /\ TypeInv /\ MetaShape(run.t, mem) /\ Transfer \in Steps
      /\ run.phase # "save"
  BY SafeFacts DEF Steps, Moving
<1> DEFINE r == [Placed(mem) EXCEPT !.done = @ \cup {Transfer}]
<1>2. r \in MetaType /\ ~r.completed /\ r.artifact = Destination /\ r.artifact # NoPath
  BY <1>1, PlacedFacts
<1>3. Succeed(Transfer, r)
  BY DEF Complete
<1> HIDE DEF r
<1>4. Uninterrupted \/ Steady(run.t) => KeptBy(run.t, r, disk')
  BY <1>2 DEF KeptBy
<1> QED BY <1>1, <1>2, <1>3, <1>4, SucceedSafe

\* All of what is at the source is copied.
LEMMA PayloadHeld ==
  ASSUME SafeCtx, run.step = Transfer, run.phase = "transfer", Exists(mem.staging),
         Uninterrupted \/ Steady(run.t)
  PROVE  LET c == Payload(disk[mem.staging.at].state) IN
           c # Absent /\ c.of = run.t /\ c.state = "whole"
<1>1. RunSafe /\ TypeOK /\ run \in RunType
  BY SafeFacts
<1>2. Holds(disk, mem.staging.at, run.t)
  BY <1>1 DEF RunSafe, Moving, KeptBy
<1>3. disk[mem.staging.at].state = "whole" /\ disk[mem.staging.at].of = run.t
  BY <1>2 DEF Holds
<1>4. Payload("whole") \in Content /\ Payload("whole").of = run.t /\ Payload("whole").state = "whole"
  BY <1>1, <1>3, PayloadFacts
<1> QED BY <1>3, <1>4, ContentFacts

LEMMA TransferFailsSafe ==
  ASSUME SafeCtx, TransferUnsupported \/ TransferMissing
  PROVE  SafeInv'
<1>1. run.step = Transfer /\ run.phase = "transfer" /\ Reject /\ run.phase # "save"
      /\ Moving /\ ~Past(Transfer) /\ run.step # 0
  BY DEF TransferUnsupported, TransferMissing, Transferring, Moving, Past
<1>2. Local /\ RunSafe
  BY <1>1, SafeFacts, TransferFailsShape
<1>3. disk' = disk \/ disk' = [disk EXCEPT ![Destination.at] = EmptyDir]
  BY DEF TransferUnsupported, TransferMissing, EmptyDir
<1>4. Uninterrupted \/ Steady(run.t) => KeptBy(run.t, mem, disk')
  <2>1. CASE disk' = disk
    BY <1>1, <1>2, <2>1 DEF RunSafe
  <2>2. CASE disk' = [disk EXCEPT ![Destination.at] = EmptyDir]
    BY <1>1, <2>2, MovingKeeps
  <2> QED BY <1>3, <2>1, <2>2
<1> QED BY <1>1, <1>2, <1>4, RejectSafe

LEMMA TransferRenameSafe ==
  ASSUME SafeCtx, TransferRename
  PROVE  SafeInv'
<1>1. /\ run.step = Transfer /\ run.phase = "transfer" /\ Complete(Transfer, Placed(mem))
      /\ run.policy.move_mode = "move" /\ Exists(mem.staging) /\ Moving /\ run.step # 0
  BY DEF TransferRename, Transferring, Moving
<1>2. Local /\ RunSafe /\ ~Steady(run.t) /\ disk \in DiskType /\ TypeInv
  BY <1>1, SafeFacts, TransferRenameShape
<1> DEFINE c == Payload(disk[mem.staging.at].state)
           w == Without(mem.staging)
<1>3. disk' = [disk EXCEPT ![Destination.at] = c, ![mem.staging.at] = w]
  BY DEF TransferRename
<1>4. Uninterrupted => c # Absent /\ c.of = run.t /\ c.state = "whole"
  BY <1>1, PayloadHeld
<1> HIDE DEF c, w
<1>5. Destination.at \in Places /\ mem.staging.at \in Places
  BY <1>1, <1>2, TransferringFacts
<1>6. mem.staging.at # Destination.at => disk'[Destination.at] = c
  BY <1>2, <1>3, <1>5 DEF DiskType
<1>7. Uninterrupted => mem.staging.at # Destination.at
  BY <1>1, <1>2 DEF RunSafe
<1>8. Uninterrupted => Holds(disk', Destination.at, run.t)
  BY <1>4, <1>6, <1>7 DEF Holds
<1> QED BY <1>1, <1>2, <1>8, PlacedSafe

LEMMA TransferCopySafe ==
  ASSUME SafeCtx, TransferBegin \/ TransferEnd
  PROVE  SafeInv'
<1>1. /\ run.step = Transfer /\ run.phase = "transfer" /\ Exists(mem.staging)
      /\ Moving /\ run.step # 0 /\ run.phase # "save"
  BY DEF TransferBegin, TransferEnd, Transferring, Moving
<1>2. /\ Local /\ RunSafe /\ run \in RunType
      /\ Steady(run.t) => run.policy.move_mode # "move"
  BY <1>1, SafeFacts, TransferCopyShape
<1>3. Uninterrupted \/ Steady(run.t) => mem.artifact = NoPath /\ mem.staging.at # Destination.at
  BY <1>1, <1>2 DEF RunSafe
<1>4. CASE TransferBegin
  <2>1. disk' = [disk EXCEPT ![Destination.at] = Payload("part")] /\ Phase("transfer")
    BY <1>4 DEF TransferBegin
  <2>2. Uninterrupted \/ Steady(run.t) => KeptBy(run.t, mem, disk')
    BY <1>1, <2>1, MovingKeeps
  <2> QED BY <1>1, <1>2, <1>3, <2>1, <2>2, PhaseSafe
<1>5. CASE TransferEnd
  <2> DEFINE c == Payload(disk[mem.staging.at].state)
  <2>1. /\ disk' = [disk EXCEPT ![Destination.at] = c]
        /\ IF run.policy.move_mode = "move" THEN Phase("copied")
                                            ELSE Complete(Transfer, Placed(mem))
    BY <1>5 DEF TransferEnd
  <2>2. Uninterrupted \/ Steady(run.t) => c # Absent /\ c.of = run.t /\ c.state = "whole"
    BY <1>1, PayloadHeld
  <2> HIDE DEF c
  <2>3. (Uninterrupted \/ Steady(run.t) => KeptBy(run.t, mem, disk')) /\ disk'[Destination.at] = c
    BY <1>1, <2>1, MovingKeeps
  <2>4. Uninterrupted \/ Steady(run.t) => Holds(disk', Destination.at, run.t)
    BY <2>2, <2>3 DEF Holds
  <2>5. CASE Phase("copied")
    BY <1>1, <1>2, <1>3, <2>3, <2>4, <2>5, PhaseSafe
  <2>6. CASE Complete(Transfer, Placed(mem))
    BY <1>1, <1>2, <2>3, <2>4, <2>6, PlacedSafe
  <2> QED BY <2>1, <2>5, <2>6
<1> QED BY <1>4, <1>5

LEMMA TransferRemoveSafe ==
  ASSUME SafeCtx, TransferRemoveBegin \/ TransferRemoveEnd
  PROVE  SafeInv'
<1>1. /\ run.step = Transfer /\ run.phase \in {"copied", "removing"} /\ Moving
      /\ Phase("removing") \/ Complete(Transfer, Placed(mem))
      /\ run.step # 0 /\ run.phase # "save"
  BY DEF TransferRemoveBegin, TransferRemoveEnd, Moving
<1>2. /\ Local /\ RunSafe /\ RunShape /\ run \in RunType /\ TypeInv /\ disk \in DiskType
      /\ Steady(run.t) => run.policy.move_mode # "move"
  BY <1>1, SafeFacts, TransferRemoveShape
<1>3. ~Steady(run.t)
  BY <1>1, <1>2 DEF RunShape
<1>4. \E c : disk' = [disk EXCEPT ![mem.staging.at] = c]
  BY DEF TransferRemoveBegin, TransferRemoveEnd
<1>5. Destination.at \in Places /\ mem.staging.at \in Places
  BY <1>1, <1>2, TransferringFacts
<1>6. mem.staging.at # Destination.at => disk'[Destination.at] = disk[Destination.at]
  BY <1>2, <1>4, <1>5 DEF DiskType
<1>7. Uninterrupted =>
        /\ mem.artifact = NoPath /\ mem.staging.at # Destination.at
        /\ Holds(disk, Destination.at, run.t)
  BY <1>1, <1>2 DEF RunSafe
<1>8. Uninterrupted => Holds(disk', Destination.at, run.t)
  BY <1>6, <1>7 DEF Holds
<1>9. CASE Phase("removing")
  BY <1>1, <1>2, <1>3, <1>7, <1>8, <1>9, PhaseSafe
<1>10. CASE Complete(Transfer, Placed(mem))
  BY <1>1, <1>2, <1>3, <1>8, <1>10, PlacedSafe
<1> QED BY <1>1, <1>9, <1>10

LEMMA RunCleanupSafe ==
  ASSUME SafeCtx, RunCleanup
  PROVE  SafeInv'
<1>1. Running(Cleanup) /\ run.step = Cleanup /\ run.phase = "op" /\ Cleanup \in Steps
  BY DEF RunCleanup, Running, Steps
<1>2. /\ RunSafe /\ run \in RunType /\ mem \in MetaType /\ TypeInv /\ ~mem.completed
      /\ ShapeCtx /\ disk \in DiskType
  BY <1>1, SafeFacts, TypeInvFacts
<1>3. Local
  BY <1>2, RunCleanupShape
<1>4. CASE Skip(Cleanup, mem) /\ UNCHANGED disk
  BY <1>1, <1>2, <1>4, PlainSafe DEF Skip
<1>5. CASE /\ ArtifactExists /\ Complete(Cleanup, mem)
           /\ mem.artifact.at \in Places /\ disk[mem.artifact.at] \in Content
           /\ \E n \in BOOLEAN :
                disk' = [disk EXCEPT ![mem.artifact.at] =
                           [disk[mem.artifact.at] EXCEPT !.nested = n]]
  <2>1. PICK n \in BOOLEAN :
          disk' = [disk EXCEPT ![mem.artifact.at] = [disk[mem.artifact.at] EXCEPT !.nested = n]]
    BY <1>5
  <2> DEFINE c == [disk[mem.artifact.at] EXCEPT !.nested = n]
  <2>2. /\ c \in Content /\ c.of = disk[mem.artifact.at].of
        /\ c.state = disk[mem.artifact.at].state
    BY <1>5 DEF Content
  <2>3. disk'[mem.artifact.at] = c
    BY <1>2, <1>5, <2>1 DEF DiskType
  <2> HIDE DEF c
  <2>4. mem.artifact # NoPath /\ disk'[mem.artifact.at] # Absent
    BY <1>5, <2>2, <2>3, ContentFacts DEF ArtifactExists
  <2>5. KeptBy(run.t, mem, disk) => KeptBy(run.t, mem, disk')
    BY <2>2, <2>3, <2>4 DEF KeptBy, Holds
  <2>6. Uninterrupted \/ Steady(run.t) => KeptBy(run.t, mem, disk')
    BY <1>1, <1>2, <2>5 DEF RunSafe
  <2> DEFINE r == [mem EXCEPT !.done = @ \cup {Cleanup}]
  <2>7. r \in MetaType /\ ~r.completed /\ r.staging = mem.staging /\ r.artifact = mem.artifact
    BY <1>1, <1>2, RecordedFacts
  <2>8. Succeed(Cleanup, r)
    BY <1>5 DEF Complete
  <2> HIDE DEF r
  <2>9. KeptBy(run.t, mem, disk') => KeptBy(run.t, r, disk')
    BY <2>7 DEF KeptBy
  <2> QED BY <1>1, <1>2, <1>3, <2>6, <2>7, <2>8, <2>9, SucceedSafe
<1> QED BY <1>2, <1>4, <1>5, RunCleanupLeads

LEMMA RunChecksumSafe ==
  ASSUME SafeCtx, RunChecksum
  PROVE  SafeInv'
<1>1. TypeInv /\ Checksum \in Steps
  BY DEF SafeCtx, PosCtx, ShapeCtx, Steps
<1>2. Running(Checksum) /\ UNCHANGED disk
  BY <1>1, RunChecksumLeads
<1>3. PICK r \in MetaType :
        /\ Succeed(Checksum, r) /\ ~r.completed
        /\ r.staging = mem.staging /\ r.artifact = mem.artifact
  BY <1>1, RunChecksumLeads
<1> QED BY <1>1, <1>2, <1>3, PlainSafe

LEMMA RunFinaliseSafe ==
  ASSUME SafeCtx, RunFinalise
  PROVE  SafeInv'
<1> DEFINE m == [mem EXCEPT !.done = @ \cup {Finalise}, !.completed = TRUE]
<1>1. TypeInv
  BY DEF SafeCtx, PosCtx, ShapeCtx
<1>2. /\ run \in RunType /\ run.step = Finalise /\ run.phase = "op"
      /\ m \in MetaType /\ Saving(m)
      /\ m.staging = mem.staging /\ m.artifact = mem.artifact
      /\ disk' = [disk EXCEPT ![Ext(run.t)] = Absent] \/ disk' = disk
      /\ faults' = faults \/ faults' = faults + 1
      /\ UNCHANGED <<meta, fsPolicy, crashes, changes>>
  BY <1>1, RunFinaliseLeads
<1> HIDE DEF m
<1>3. /\ RunSafe /\ RunShape /\ ShapeCtx /\ disk \in DiskType /\ PosCtx /\ TypeOK
      /\ run.t \in Torrents
  BY <1>2, SafeFacts
<1>4. mem.artifact # NoPath => mem.artifact.at # Ext(run.t) /\ mem.artifact.at \in Places
  BY <1>2, <1>3, PosFacts
<1>5. Local
  BY <1>3, RunFinaliseShape
<1>6. mem.artifact # NoPath
  BY <1>2, <1>3 DEF RunShape, Past
<1>7. disk'[mem.artifact.at] = disk[mem.artifact.at]
  BY <1>2, <1>3, <1>4, <1>6 DEF DiskType
<1>8. Uninterrupted \/ Steady(run.t) => KeptBy(run.t, mem, disk)
  BY <1>2, <1>3 DEF RunSafe
<1>9. Uninterrupted \/ Steady(run.t) => KeptBy(run.t, mem, disk')
  BY <1>6, <1>7, <1>8, KeptFrame
<1>10. KeptBy(run.t, mem, disk') => KeptBy(run.t, m, disk')
  BY <1>2 DEF KeptBy
<1>11. /\ run'.t = run.t /\ run'.mem = m /\ run'.phase = "save" /\ run'.step = Finalise
       /\ run'.step # 0
  BY <1>2, SavingRun
<1>12. /\ Uninterrupted' => Uninterrupted
       /\ Steady(run.t)' => Steady(run.t)
  BY <1>2, <1>3, <1>11, FaultAssumption DEF Uninterrupted, Steady, NothingMoved, FlattensLate, TypeOK
<1>13. ASSUME NEW t \in Torrents PROVE AtRest(t)'
  <2>1. CASE t # run.t
    BY <1>2, <1>5, <1>11, <1>12, <2>1, OthersAtRest
  <2>2. CASE t = run.t
    BY <1>2, <1>9, <1>11, <2>2, OwnAtRest DEF Active
  <2> QED BY <2>1, <2>2
<1>14. RunSafe'
  BY <1>9, <1>10, <1>11, <1>12 DEF RunSafe, mem, Moving, Past
<1> QED BY <1>13, <1>14 DEF SafeInv

LEMMA SaveMetaSafe ==
  ASSUME SafeCtx, SaveMeta
  PROVE  SafeInv'
<1>1. TypeInv /\ run.step # 0 /\ run.phase \in {"start", "save"}
  BY DEF SafeCtx, PosCtx, ShapeCtx, SaveMeta
<1>2. /\ TypeOK /\ run \in RunType /\ run.t \in Torrents /\ mem \in MetaType
      /\ meta' = [meta EXCEPT ![run.t] = mem]
      /\ UNCHANGED <<disk, fsPolicy, crashes, faults, changes>>
  BY <1>1, SaveMetaLeads
<1>3. RunSafe
  BY <1>1, SafeFacts
<1>4. meta'[run.t] = mem /\ \A u \in Torrents : u # run.t => meta'[u] = meta[u]
  BY <1>2 DEF TypeOK
<1>5. \/ run' = Idle /\ mem.completed
      \/ /\ run'.t = run.t /\ run'.mem = mem /\ run'.phase \in {"start", "op"}
         /\ run'.step \in Steps /\ run'.step >= run.step
         /\ run.phase = "save" => run'.step > run.step
  <2>1. run.step \in Steps
    BY <1>2 DEF RunType
  <2>2. CASE run.phase = "start" /\ run' = [run EXCEPT !.phase = "op"]
    BY <1>2, <2>1, <2>2 DEF RunType, mem, Steps
  <2>3. CASE run.phase = "save" /\ Onward(run.step, mem)
    BY <1>2, <2>1, <2>3 DEF Onward, Steps
  <2> QED BY <1>1, <2>2, <2>3, SaveMetaLeads
<1>6. /\ Uninterrupted' <=> Uninterrupted
      /\ \A t \in Torrents : Steady(t)' <=> Steady(t)
  BY <1>2 DEF Uninterrupted, Steady, NothingMoved, FlattensLate
<1>7. Uninterrupted \/ Steady(run.t) => KeptBy(run.t, mem, disk)
  BY <1>1, <1>3 DEF RunSafe
<1>8. mem # NoFile /\ mem # TornFile
  BY <1>2, FileFacts
<1>9. ASSUME NEW t \in Torrents PROVE AtRest(t)'
  <2>1. CASE t # run.t
    <3>1. run'.step # 0 => run'.t = run.t
      BY <1>5 DEF Idle
    <3> QED BY <1>2, <1>4, <1>6, <2>1, <3>1, OthersAtRest DEF Local
  <2>2. CASE t = run.t
    <3>1. Load(t)' = mem
      BY <1>4, <1>8, <2>2 DEF Load
    <3>2. ~Active(t)' => mem.completed
      BY <1>5, <2>2 DEF Active, Steps
    <3>3. (Steady(t)' => Steady(t)) /\ meta'[t] = mem
      BY <1>4, <1>6, <2>2
    <3> QED BY <1>2, <1>6, <1>7, <1>8, <2>2, <3>1, <3>2, <3>3 DEF AtRest
  <2> QED BY <2>1, <2>2
<1>10. ASSUME run'.step # 0 PROVE RunSafe'
  <2>1. /\ run'.t = run.t /\ run'.mem = mem /\ run'.phase \in {"start", "op"}
        /\ run'.step \in Steps /\ run'.step >= run.step
        /\ run.phase = "save" => run'.step > run.step
    BY <1>5, <1>10 DEF Idle
  <2>2. Past(Transfer) => Past(Transfer)'
    BY <1>1, <1>2, <2>1 DEF Past, Steps, RunType
  <2>3. Uninterrupted /\ mem.artifact # NoPath => Past(Transfer)'
    BY <1>3, <2>2 DEF RunSafe
  <2>4. Steady(run.t)' => Steady(run.t)
    BY <1>2, <2>1 DEF Steady, NothingMoved, FlattensLate
  <2> QED BY <1>2, <1>6, <1>7, <2>1, <2>3, <2>4 DEF RunSafe, mem, Moving
<1> QED BY <1>9, <1>10 DEF SafeInv

LEMMA ApplySafe ==
  ASSUME SafeCtx, NEW t \in Torrents, Apply(t)
  PROVE  SafeInv'
<1>1. TypeInv /\ TypeOK /\ SafeInv
  BY DEF SafeCtx, PosCtx, ShapeCtx, TypeInv
<1>2. run = Idle /\ UNCHANGED <<disk, meta, fsPolicy, crashes, faults, changes>>
  BY <1>1, ApplyLeads
<1>3. /\ Uninterrupted' <=> Uninterrupted
      /\ \A u \in Torrents : Steady(u)' <=> Steady(u)
      /\ \A u \in Torrents : ~Active(u)
  BY <1>2 DEF Uninterrupted, Steady, NothingMoved, FlattensLate, Active, Idle
<1>4. ASSUME NEW u \in Torrents PROVE AtRest(u)'
  <2>1. Load(u)' = Load(u) /\ (Readable(u)' <=> Readable(u)) /\ AtRest(u)
    BY <1>1, <1>2 DEF Load, Readable, SafeInv
  <2>2. ~Active(u) /\ (Steady(u)' <=> Steady(u))
    BY <1>3
  <2> QED BY <1>2, <1>3, <2>1, <2>2 DEF AtRest
<1>5. CASE run' = Idle
  BY <1>4, <1>5 DEF SafeInv, Idle
<1>6. CASE /\ meta[t] # TornFile /\ ~Load(t).completed
           /\ run'.t = t /\ run'.mem = Load(t)
           /\ run'.phase = IF run'.step = Finalise THEN "start" ELSE "op"
  <2>1. AtRest(t) /\ ~Active(t)
    BY <1>1, <1>3 DEF SafeInv
  <2>2. Uninterrupted \/ Steady(t) => KeptBy(t, Load(t), disk)
    BY <1>6, <2>1 DEF AtRest
  <2>3. Uninterrupted => Load(t).artifact = NoPath
    <3>1. CASE meta[t] = NoFile
      BY <3>1 DEF Load, NewMeta
    <3>2. CASE meta[t] # NoFile
      BY <1>6, <2>1, <3>2 DEF Load, AtRest, Readable
    <3> QED BY <3>1, <3>2
  <2>4. Steady(run.t)' => Steady(t)
    BY <1>2, <1>6 DEF Steady, NothingMoved, FlattensLate
  <2>5. RunSafe'
    BY <1>2, <1>3, <1>6, <2>2, <2>3, <2>4 DEF RunSafe, mem, Moving
  <2> QED BY <1>4, <2>5 DEF SafeInv
<1> QED BY <1>1, <1>5, <1>6, ApplyLeads

LEMMA InterruptSafe ==
  ASSUME SafeCtx, IoError \/ Crash
  PROVE  SafeInv'
<1>1. TypeInv /\ TypeOK /\ SafeInv /\ ShapeInv
  BY DEF SafeCtx, PosCtx, ShapeCtx, TypeInv
<1>2. /\ run.t \in Torrents /\ run' = Idle /\ UNCHANGED <<disk, fsPolicy, changes>>
      /\ meta' = meta \/ meta' = [meta EXCEPT ![run.t] = TornFile]
      /\ ~Uninterrupted'
  BY <1>1, InterruptLeads
<1>3. \A u \in Torrents : meta'[u] = meta[u] \/ meta'[u] = TornFile
  BY <1>1, <1>2 DEF TypeOK
<1>4. ASSUME NEW u \in Torrents PROVE AtRest(u)'
  <2>1. AtRest(u) /\ (Steady(u)' => Steady(u))
    BY <1>1, <1>2 DEF SafeInv, Steady, NothingMoved, FlattensLate
  <2>2. Steady(u) => IF meta[u] = TornFile THEN KeptIn(u, disk) ELSE KeptBy(u, Load(u), disk)
    BY <2>1 DEF AtRest
  <2>3. ASSUME meta[u] # TornFile, KeptBy(u, Load(u), disk) PROVE KeptIn(u, disk)
    BY <1>1, <2>3, LoadShape, KeptIsSomewhere
  <2>4. meta'[u] = meta[u] => Load(u)' = Load(u)
    BY DEF Load
  <2> QED BY <1>2, <1>3, <2>1, <2>2, <2>3, <2>4 DEF AtRest
<1> QED BY <1>2, <1>4 DEF SafeInv, Idle

LEMMA UpdateFsPolicySafe ==
  ASSUME SafeCtx, UpdateFsPolicy
  PROVE  SafeInv'
<1>1. /\ changes' # 0 /\ UNCHANGED <<disk, meta, run, crashes, faults>> /\ SafeInv
  BY FaultAssumption DEF UpdateFsPolicy, SafeCtx, PosCtx, ShapeCtx, TypeInv, TypeOK
<1>2. /\ Uninterrupted' <=> Uninterrupted
      /\ \A t : ~Steady(t)'
  BY <1>1 DEF Uninterrupted, Steady, NothingMoved
<1>3. ASSUME NEW t \in Torrents PROVE AtRest(t)'
  <2>1. AtRest(t) /\ Load(t)' = Load(t) /\ (Readable(t)' <=> Readable(t))
        /\ (Active(t)' <=> Active(t)) /\ ~Steady(t)'
    BY <1>1, <1>2 DEF SafeInv, Load, Readable, Active
  <2> QED BY <1>1, <1>2, <2>1 DEF AtRest
<1>4. ASSUME run.step # 0 PROVE RunSafe'
  <2>1. RunSafe /\ ~Steady(run.t)'
    BY <1>1, <1>4 DEF SafeInv, Steady, NothingMoved
  <2>2. mem' = mem /\ Destination' = Destination /\ (Past(Transfer)' <=> Past(Transfer))
        /\ (Moving' <=> Moving)
    BY <1>1 DEF mem, Destination, Past, Moving
  <2> QED BY <1>1, <1>2, <2>1, <2>2 DEF RunSafe
<1> QED BY <1>1, <1>3, <1>4 DEF SafeInv

LEMMA StutterSafe ==
  ASSUME SafeCtx, UNCHANGED vars
  PROVE  SafeInv'
BY DEF SafeCtx, SafeInv, vars, env, AtRest, RunSafe, Steady, NothingMoved, FlattensLate,
       Uninterrupted, Active, Load, Readable, KeptIn, KeptBy, Holds, Moving, Past, mem, Destination

LEMMA StepSafe ==
  ASSUME SafeCtx, [Next]_vars
  PROVE  SafeInv'
<1>1. CASE \E t \in Torrents : Apply(t)
  BY <1>1, ApplySafe
<1>2. CASE PipelineStep
  BY <1>2, PlainStepsSafe, RunExtractSafe, ExtractArchiveSafe, RunFlattenSafe, RunTransferSafe,
     TransferFailsSafe, TransferRenameSafe, TransferCopySafe, TransferRemoveSafe,
     RunCleanupSafe, RunChecksumSafe, RunFinaliseSafe, SaveMetaSafe
     DEF PipelineStep
<1>3. CASE UpdateFsPolicy
  BY <1>3, UpdateFsPolicySafe
<1>4. CASE IoError \/ Crash
  BY <1>4, InterruptSafe
<1>5. CASE UNCHANGED vars
  BY <1>5, StutterSafe
<1> QED BY <1>1, <1>2, <1>3, <1>4, <1>5 DEF Next

\* Each download starts out at the torrent's own source path.
LEMMA InitSafe ==
  ASSUME NamesApart, Init
  PROVE  SafeInv
<1>1. PICK form \in [Torrents -> Forms], nested \in [Torrents -> BOOLEAN] :
        disk = [p \in Places |->
           IF \E t \in Torrents : p = SourcePath(t)
           THEN LET t == CHOOSE u \in Torrents : p = SourcePath(u) IN
                [of |-> t, form |-> form[t], state |-> "whole",
                 nested |-> form[t] = "dir" /\ nested[t]]
           ELSE Absent]
  BY DEF Init
<1>2. /\ meta = [t \in Torrents |-> NoFile] /\ run = Idle
  BY DEF Init
<1>3. ASSUME NEW t \in Torrents PROVE KeptBy(t, NewMeta(t), disk)
  <2>1. SourcePath(t) \in Places
    BY PlaceFacts
  <2>2. ASSUME NEW u \in Torrents, SourcePath(t) = SourcePath(u) PROVE u = t
    <3>1. SourcePath(t) \in Own(t) /\ SourcePath(t) \in Own(u)
      BY <2>2 DEF Own
    <3> QED BY <3>1 DEF NamesApart
  <2>3. (CHOOSE u \in Torrents : SourcePath(t) = SourcePath(u)) = t
    BY <2>2
  <2>4. disk[SourcePath(t)] = [of |-> t, form |-> form[t], state |-> "whole",
                               nested |-> form[t] = "dir" /\ nested[t]]
    BY <1>1, <2>1, <2>3
  <2>5. disk[SourcePath(t)] # Absent
    BY <2>4 DEF Absent
  <2>6. /\ NewMeta(t).artifact = NoPath /\ NewMeta(t).staging.at = SourcePath(t)
        /\ ~NewMeta(t).staging.inner
    BY DEF NewMeta, At
  <2> QED BY <2>4, <2>5, <2>6 DEF KeptBy, Holds
<1>4. ASSUME NEW t \in Torrents PROVE AtRest(t)
  <2>1. Load(t) = NewMeta(t) /\ ~Readable(t) /\ meta[t] # TornFile
    BY <1>2, FileFacts DEF Load, Readable
  <2> QED BY <1>3, <2>1 DEF AtRest
<1> QED BY <1>2, <1>4 DEF SafeInv, Idle

\* The inductive invariant of the payload, with what it rests on.
SafetyInv == TypeInv /\ ShapeInv /\ PosInv /\ SafeInv

LEMMA Safe ==
  ASSUME NamesApart
  PROVE  Spec => []SafetyInv
<1>1. Init => SafetyInv
  BY InitTyped, InitShape, InitPos, InitSafe DEF SafetyInv
<1>2. ASSUME SafetyInv, [Next]_vars PROVE SafetyInv'
  <2>1. TypeInv'
    BY <1>2, StepTyped DEF SafetyInv
  <2>2. ShapeCtx
    BY <1>2, <2>1 DEF SafetyInv, ShapeCtx
  <2>3. ShapeInv'
    BY <1>2, <2>2, StepShape
  <2>4. PosCtx
    BY <1>2, <2>2, <2>3 DEF SafetyInv, PosCtx
  <2>5. PosInv'
    BY <1>2, <2>4, StepPos
  <2>6. SafeInv'
    BY <1>2, <2>4, StepSafe DEF SafetyInv, SafeCtx
  <2> QED BY <2>1, <2>3, <2>5, <2>6 DEF SafetyInv
<1> QED BY <1>1, <1>2, PTL DEF Spec

LEMMA SafetyIsKept ==
  ASSUME SafetyInv
  PROVE  SafeUnlessMoveInterrupted
<1> SUFFICES ASSUME NEW t \in Torrents, Uninterrupted \/ Steady(t)
             PROVE  IsPlaced(t) /\ IsKept(t)
  BY DEF SafeUnlessMoveInterrupted, Steady
<1>1. /\ TypeInv /\ TypeOK /\ RunInv /\ ShapeInv /\ AtRest(t)
      /\ run.step # 0 => RunSafe /\ RunShape /\ run \in RunType
  BY RunFacts DEF SafetyInv, TypeInv, TypeOK, SafeInv, ShapeInv
<1>2. Completed(t) => ~Active(t)
  BY <1>1 DEF RunInv, Active
<1>3. ~Active(t) \/ Steady(t) =>
        IF meta[t] = TornFile THEN KeptIn(t, disk) ELSE KeptBy(t, Load(t), disk)
  BY <1>1 DEF AtRest
<1>4. IsPlaced(t)
  <2>1. SUFFICES ASSUME Completed(t) PROVE meta[t].artifact # NoPath /\ HoldsAll(meta[t].artifact.at, t)
    BY DEF IsPlaced
  <2>2. meta[t].artifact # NoPath
    BY <1>1, <2>1, CompletedShape
  <2>3. meta[t] # TornFile /\ Load(t) = meta[t]
    BY <2>1 DEF Completed, Readable, Load
  <2> QED BY <1>2, <1>3, <2>1, <2>2, <2>3 DEF KeptBy, Holds, HoldsAll
<1>5. IsKept(t)
  <2>1. KeptIn(t, disk) => IsKept(t)
    BY DEF KeptIn, IsKept, Holds, HoldsAll
  <2>2. CASE ~Active(t) \/ Steady(t)
    BY <1>1, <1>3, <2>1, <2>2, LoadShape, KeptIsSomewhere
  <2>3. CASE Active(t) /\ Uninterrupted
    <3>1. /\ run.step # 0 /\ run.t = t /\ RunSafe /\ run \in RunType
          /\ mem \in MetaType /\ MetaShape(t, mem)
      BY <1>1, <2>3, OperandFacts DEF Active, RunShape
    <3>2. CASE run.phase \in {"copied", "removing"}
      <4>1. Holds(disk, Destination.at, t)
        BY <2>3, <3>1, <3>2 DEF RunSafe
      <4>2. Destination.at \in Places
        BY <1>1, <3>1, OperandFacts, PlaceFacts
      <4> QED BY <4>1, <4>2 DEF IsKept, Holds, HoldsAll
    <3>3. CASE run.phase \notin {"copied", "removing"}
      BY <2>1, <2>3, <3>1, <3>3, KeptIsSomewhere DEF RunSafe
    <3> QED BY <3>2, <3>3
  <2> QED BY <2>2, <2>3
<1> QED BY <1>4, <1>5

\* If the places of the torrents are apart: whatever crashes, I/O errors and
\* metadata files cut short the pipeline goes through, and at every moment
\* within a step, a torrent that is copied or linked under a policy that does
\* not change (and is not flattened late) has all of its payload on disk, and at its artifact path once it is
\* completed; and so has every torrent as long as no run was interrupted.
THEOREM PayloadSafe ==
  ASSUME NamesApart
  PROVE  Spec => []SafeUnlessMoveInterrupted
<1>1. SafetyInv => SafeUnlessMoveInterrupted
  BY SafetyIsKept
<1> QED BY <1>1, Safe, PTL

LEMMA UninterruptedIsSafe ==
  ASSUME SafeUnlessMoveInterrupted
  PROVE  CompletedIsPlaced /\ (Uninterrupted => PayloadKept)
BY DEF SafeUnlessMoveInterrupted, CompletedIsPlaced, PayloadKept

\* In particular, until a run is interrupted, in every move mode and through
\* every change of the policy, completed metadata names the artifact, and all
\* of the payload is there.
THEOREM PlacedUnlessInterrupted ==
  ASSUME NamesApart
  PROVE  Spec => []CompletedIsPlaced
<1>1. SafeUnlessMoveInterrupted => CompletedIsPlaced
  BY UninterruptedIsSafe
<1> QED BY <1>1, PayloadSafe, PTL

\* And until then, also half-way through a move, all of each payload is on disk.
THEOREM KeptUnlessInterrupted ==
  ASSUME NamesApart
  PROVE  Spec => [](Uninterrupted => PayloadKept)
<1>1. SafeUnlessMoveInterrupted => (Uninterrupted => PayloadKept)
  BY UninterruptedIsSafe
<1> QED BY <1>1, PayloadSafe, PTL

-----------------------------------------------------------------------------
(* The checksums.                                                          *)

Summed == Uninterrupted \/ changes = 0

\* Cleanup has nothing more to remove from the artifact under policy f.
CleanedUp(m, d, f) == Cleanup \in m.done \/ ~(DirIn(d, m.artifact.at) /\ f.rules)

\* What a run that goes on from metadata m will not sum again.
SumOK(m, d, f) ==
    m.artifact # NoPath /\ Checksum \in m.done /\ Fixed(m) =>
      m.checksums = d[m.artifact.at] /\ CleanedUp(m, d, f)

\* A resumed run skips a Checksum that is done, so as long as the policy is the
\* same nothing before it may change the artifact; a run that has never been
\* interrupted reaches Checksum once.
RunSum ==
    /\ changes = 0 => SumOK(mem, disk, fsPolicy)
    /\ Uninterrupted /\ Checksum \in mem.done => Past(Checksum)
    /\ Summed /\ Past(Checksum) => mem.checksums = disk[mem.artifact.at]
    /\ changes = 0 /\ Past(Cleanup) => CleanedUp(mem, disk, run.policy)
    /\ changes = 0 /\ Moving /\ mem.artifact # NoPath =>
         run.phase = "transfer" /\ disk[mem.artifact.at] = Absent

SumInv ==
    /\ changes = 0 => \A t \in Torrents : Readable(t) => SumOK(meta[t], disk, fsPolicy)
    /\ run.step # 0 => RunSum

SumCtx == SafeCtx /\ PosInv' /\ SumInv

LEMMA SumSame ==
  ASSUME NEW a, NEW b, NEW d, NEW f, Same(a, b), SumOK(b, d, f)
  PROVE  SumOK(a, d, f)
<1>1. /\ Transfer \in Steps /\ PersistsSuccess(Transfer)
      /\ Cleanup \in Steps /\ PersistsSuccess(Cleanup)
      /\ Checksum \in Steps /\ PersistsSuccess(Checksum)
  BY DEF Steps, PersistsSuccess
<1>2. /\ a.staging = b.staging /\ a.artifact = b.artifact /\ a.checksums = b.checksums
      /\ Transfer \in a.done <=> Transfer \in b.done
      /\ Cleanup \in a.done <=> Cleanup \in b.done
      /\ Checksum \in a.done <=> Checksum \in b.done
  BY <1>1 DEF Same
<1> QED BY <1>2 DEF SumOK, Fixed, CleanedUp

\* The predicate depends on the disk at the artifact only.
LEMMA SumFrame ==
  ASSUME NEW m, NEW d, NEW e, NEW f, SumOK(m, d, f),
         m.artifact # NoPath => e[m.artifact.at] = d[m.artifact.at]
  PROVE  SumOK(m, e, f)
BY DEF SumOK, CleanedUp, DirIn

\* What a step of the pipeline may use.
LEMMA SumFacts ==
  ASSUME SumCtx, run.step # 0
  PROVE  /\ SafeCtx /\ PosCtx /\ ShapeCtx /\ TypeInv /\ TypeOK /\ RunShape /\ RunPos /\ RunSum
         /\ run \in RunType /\ run.t \in Torrents /\ mem \in MetaType
         /\ MetaShape(run.t, mem) /\ disk \in DiskType
         /\ changes = 0 => run.policy = fsPolicy
         /\ mem.artifact # NoPath => mem.artifact \in Paths /\ mem.artifact.at \in Places
                                     /\ mem.artifact.at # Ext(run.t) /\ ~mem.artifact.inner
                                     /\ mem.artifact.at.kind = "library"
         /\ Uninterrupted /\ ~Past(Checksum) => Checksum \notin mem.done
<1>1. SafeCtx /\ RunSum /\ PosCtx
  BY DEF SumCtx, SumInv, SafeCtx
<1>2. /\ ShapeCtx /\ TypeInv /\ TypeOK /\ RunShape /\ RunPos
      /\ run \in RunType /\ run.t \in Torrents /\ mem \in MetaType
      /\ MetaShape(run.t, mem) /\ disk \in DiskType
  BY <1>1, SafeFacts
<1>3. /\ mem.artifact # NoPath => mem.artifact \in Paths /\ mem.artifact.at \in Places
                                  /\ mem.artifact.at # Ext(run.t) /\ ~mem.artifact.inner
      /\ changes = 0 => run.policy = fsPolicy
  BY <1>1, PosFacts
<1>4. mem.artifact # NoPath => mem.artifact.at.kind = "library"
  BY <1>2 DEF MetaShape
<1>5. Uninterrupted /\ ~Past(Checksum) => Checksum \notin mem.done
  BY <1>1 DEF RunSum
<1> QED BY <1>1, <1>2, <1>3, <1>4, <1>5

\* What is recorded of each torrent, while a run goes on.
LEMMA OthersSum ==
  ASSUME SumCtx, run \in RunType, run.phase # "save", Local,
         UNCHANGED <<meta, fsPolicy, changes>>,
         changes = 0 => SumOK(mem, disk', fsPolicy)
  PROVE  changes' = 0 =>
           \A t \in Torrents : Readable(t)' => SumOK(meta'[t], disk', fsPolicy')
<1> SUFFICES ASSUME changes = 0, NEW t \in Torrents, Readable(t)
             PROVE  SumOK(meta[t], disk', fsPolicy)
  BY DEF Readable
<1>1. /\ TypeOK /\ run.t \in Torrents /\ run.step # 0 /\ RunShape /\ NamesApart
      /\ MetaShape(t, meta[t]) /\ SumOK(meta[t], disk, fsPolicy) /\ meta[t] \in MetaType
  BY RunFacts DEF SumCtx, SafeCtx, PosCtx, ShapeCtx, ShapeInv, TypeInv, TypeOK, SumInv, Readable
<1>2. CASE t # run.t
  <2>1. meta[t].artifact # NoPath => meta[t].artifact.at \in Own(t) /\ meta[t].artifact.at \in Places
    BY <1>1, MetaFacts, PlaceFacts DEF MetaShape
  <2>2. meta[t].artifact # NoPath => disk'[meta[t].artifact.at] = disk[meta[t].artifact.at]
    BY <1>1, <1>2, <2>1 DEF NamesApart, Local
  <2> QED BY <1>1, <2>2, SumFrame
<1>3. CASE t = run.t
  <2>1. Same(meta[t], mem)
    BY <1>1, <1>3 DEF RunShape, Load, Readable
  <2> QED BY <2>1, SumSame
<1> QED BY <1>2, <1>3

\* Steps that were skipped, because they are done, to get past Checksum.
LEMMA JumpSum ==
  ASSUME NEW m, Checksum \in m.done, m.artifact # NoPath, Fixed(m),
         NEW d, NEW f, SumOK(m, d, f)
  PROVE  m.checksums = d[m.artifact.at]
BY DEF SumOK

LEMMA SucceedSum ==
  ASSUME SumCtx, run \in RunType, run.phase # "save", NEW k \in Steps, k = run.step,
         k # Finalise, NEW m \in MetaType, ~m.completed, Succeed(k, m), Local,
         changes = 0 => SumOK(mem, disk', fsPolicy),
         changes = 0 => SumOK(m, disk', fsPolicy),
         Uninterrupted /\ Checksum \in m.done => k = Checksum,
         k = Checksum => m.checksums = disk'[m.artifact.at],
         changes = 0 /\ k \in {Cleanup, Checksum} => CleanedUp(m, disk', run.policy)
  PROVE  SumInv'
<1>1. TypeOK /\ ShapeInv'
  BY DEF SumCtx, SafeCtx, PosCtx, ShapeCtx, TypeInv
<1>2. /\ UNCHANGED <<meta, fsPolicy, crashes, faults, changes>>
      /\ IF PersistsSuccess(k) THEN Saving(m) ELSE Onward(k, m)
  BY <1>1, SucceedLeads
<1>3. changes' = 0 =>
        \A t \in Torrents : Readable(t)' => SumOK(meta'[t], disk', fsPolicy')
  BY <1>2, OthersSum
<1>4. (Uninterrupted' <=> Uninterrupted) /\ (Summed' <=> Summed)
  BY <1>2 DEF Uninterrupted, Summed
<1>5. CASE PersistsSuccess(k)
  <2>1. /\ run'.t = run.t /\ run'.policy = run.policy /\ run'.mem = m
        /\ run'.step = k /\ run'.phase = "save"
    BY <1>2, <1>5, SavingRun
  <2>2. /\ Past(Checksum)' => k = Checksum
        /\ k = Checksum => Past(Checksum)'
        /\ Past(Cleanup)' => k \in {Cleanup, Checksum}
        /\ ~Moving'
    BY <2>1 DEF Past, Steps, Moving
  <2>3. RunSum'
    BY <1>2, <1>4, <2>1, <2>2 DEF RunSum, mem
  <2> QED BY <1>3, <2>3 DEF SumInv
<1>6. CASE ~PersistsSuccess(k)
  <2>1. Onward(k, m) /\ k \in {1, 2, 4}
    BY <1>2, <1>6 DEF PersistsSuccess
  <2>2. /\ run'.t = run.t /\ run'.policy = run.policy /\ run'.mem = m
        /\ run'.step \in Steps /\ run'.phase \in {"start", "op"} /\ run'.step # 0 /\ ~Moving'
    BY <2>1 DEF Onward, Steps, Moving
  <2>3. ASSUME NEW j \in {Cleanup, Checksum}, Past(j)' PROVE j \in m.done
    <3>1. j \in (k + 1)..(run'.step - 1)
      BY <2>1, <2>2, <2>3 DEF Past, Steps
    <3> QED BY <2>1, <3>1 DEF Onward
  <2>4. ASSUME Past(Checksum)' PROVE m.artifact # NoPath /\ Fixed(m)
    <3>1. Past(Transfer)' /\ RunShape'
      BY <1>1, <2>2, <2>4 DEF Past, ShapeInv, Steps
    <3> QED BY <2>2, <3>1 DEF RunShape, mem
  <2>5. Summed /\ Past(Checksum)' => m.checksums = disk'[m.artifact.at]
    BY <2>1, <2>3, <2>4, JumpSum DEF Summed
  <2>6. Past(Cleanup)' => CleanedUp(m, disk', run.policy)
    BY <2>3 DEF CleanedUp
  <2>7. Uninterrupted => Checksum \notin m.done
    BY <2>1
  <2>8. RunSum'
    BY <1>2, <1>4, <2>2, <2>5, <2>6, <2>7 DEF RunSum, mem
  <2> QED BY <1>3, <2>8 DEF SumInv
<1> QED BY <1>5, <1>6

LEMMA PhaseSum ==
  ASSUME SumCtx, run \in RunType,
         NEW phase \in {"extract", "transfer", "copied", "removing"}, Phase(phase),
         run.phase # "save", run.step \in {Extract, Transfer}, Local,
         changes = 0 => SumOK(mem, disk', fsPolicy),
         changes = 0 /\ phase # "extract" /\ mem.artifact # NoPath =>
           phase = "transfer" /\ disk'[mem.artifact.at] = Absent
  PROVE  SumInv'
<1>1. UNCHANGED <<meta, fsPolicy, crashes, faults, changes>>
  BY PhaseLeads
<1>2. /\ run'.t = run.t /\ run'.policy = run.policy /\ run'.mem = run.mem
      /\ run'.step = run.step /\ run'.phase = phase
  BY PhaseRun
<1>3. changes' = 0 =>
        \A t \in Torrents : Readable(t)' => SumOK(meta'[t], disk', fsPolicy')
  BY <1>1, OthersSum
<1>4. (Uninterrupted' <=> Uninterrupted) /\ (Summed' <=> Summed)
  BY <1>1 DEF Uninterrupted, Summed
<1>5. ~Past(Checksum) /\ ~Past(Checksum)' /\ ~Past(Cleanup)' /\ run.step # 0
  BY <1>2 DEF Past
<1>6. Uninterrupted => Checksum \notin mem.done
  BY <1>5, SumFacts
<1>7. RunSum'
  BY <1>1, <1>2, <1>4, <1>5, <1>6 DEF RunSum, mem, Moving
<1> QED BY <1>3, <1>7 DEF SumInv

LEMMA IdleSum ==
  ASSUME SumCtx, run \in RunType, run.phase # "save", Local, run' = Idle,
         UNCHANGED <<meta, fsPolicy, changes>>,
         changes = 0 => SumOK(mem, disk', fsPolicy)
  PROVE  SumInv'
<1>1. changes' = 0 =>
        \A t \in Torrents : Readable(t)' => SumOK(meta'[t], disk', fsPolicy')
  BY OthersSum
<1> QED BY <1>1 DEF SumInv, Idle

\* Recording a plain step.
LEMMA PlainSum ==
  ASSUME SumCtx, NEW k \in Steps, k \notin {Flatten, Transfer, Cleanup, Checksum, Finalise},
         Running(k), UNCHANGED disk, NEW m \in MetaType, ~m.completed, Succeed(k, m),
         m.staging = mem.staging, m.artifact = mem.artifact, m.checksums = mem.checksums,
         m.done = mem.done \/ m.done = mem.done \cup {k}
  PROVE  SumInv'
<1>1. run.step = k /\ run.phase = "op" /\ run.step # 0 /\ ~Past(Checksum)
  BY DEF Running, Steps, Past
<1>2. RunSum /\ run \in RunType /\ (Uninterrupted => Checksum \notin mem.done)
  BY <1>1, SumFacts
<1>3. /\ changes = 0 => SumOK(mem, disk', fsPolicy)
      /\ changes = 0 => SumOK(m, disk', fsPolicy)
  BY <1>2 DEF RunSum, SumOK, Fixed, CleanedUp
<1> QED BY <1>1, <1>2, <1>3, SucceedSum DEF Local

LEMMA RejectSum ==
  ASSUME SumCtx, run.step # 0, run.phase # "save", Reject, UNCHANGED disk
  PROVE  SumInv'
<1>1. RunSum /\ run \in RunType
  BY SumFacts
<1>2. changes = 0 => SumOK(mem, disk', fsPolicy)
  BY <1>1 DEF RunSum
<1> QED BY <1>1, <1>2, RejectLeads, IdleSum DEF Local

LEMMA PlainStepsSum ==
  ASSUME SumCtx,
         \/ RunValidatePolicy \/ RunAllowlist \/ RunPrepareDirectories \/ RunCompileRules
         \/ RunLocateSource \/ RunVerifyPar2 \/ RunPrepareWorkDir \/ RunSetPermissions
  PROVE  SumInv'
<1>1. TypeInv
  BY DEF SumCtx, SafeCtx, PosCtx, ShapeCtx
<1>2. PICK k \in {1, 2, 3, 4, 5, 6, 7, 11} : k \in Steps /\ Plainly(k)
  BY <1>1, PlainStepsLead
<1>3. run.step # 0 /\ run.phase # "save" /\ Running(k) /\ UNCHANGED disk
  BY <1>2 DEF Plainly, Running
<1>4. CASE Reject
  BY <1>3, <1>4, RejectSum
<1>5. CASE \E m \in MetaType :
             /\ ~m.completed /\ Succeed(k, m)
             /\ m.staging = mem.staging /\ m.artifact = mem.artifact
             /\ m.checksums = mem.checksums
             /\ m.done = mem.done \/ m.done = mem.done \cup {k}
  BY <1>2, <1>3, <1>5, PlainSum
<1> QED BY <1>2, <1>4, <1>5 DEF Plainly

\* Extract leaves an artifact as it is.
LEMMA ExtractSums ==
  ASSUME SumCtx, run.step = Extract, run.phase \in {"op", "extract"},
         NEW c, disk' = [disk EXCEPT ![Ext(run.t)] = c]
  PROVE  (changes = 0 => SumOK(mem, disk', fsPolicy)) /\ Local
<1>1. /\ RunSum /\ disk \in DiskType /\ run \in RunType /\ SafeCtx
      /\ mem.artifact # NoPath => mem.artifact.at \in Places /\ mem.artifact.at # Ext(run.t)
  BY SumFacts
<1>2. mem.artifact # NoPath => disk'[mem.artifact.at] = disk[mem.artifact.at]
  BY <1>1 DEF DiskType
<1>3. changes = 0 => SumOK(mem, disk', fsPolicy)
  BY <1>1, <1>2, SumFrame DEF RunSum
<1> QED BY <1>1, <1>3, ExtractKeeps

LEMMA RunExtractSum ==
  ASSUME SumCtx, RunExtract
  PROVE  SumInv'
<1>1. Running(Extract) /\ Extract \in Steps /\ run.step = Extract /\ run.phase = "op"
  BY DEF RunExtract, Running, Steps
<1>2. run \in RunType /\ mem \in MetaType /\ TypeInv /\ ~mem.completed
  BY <1>1, SumFacts, TypeInvFacts
<1>3. CASE Skip(Extract, mem) /\ UNCHANGED disk
  BY <1>1, <1>2, <1>3, PlainSum DEF Skip
<1>4. CASE disk' = [disk EXCEPT ![Ext(run.t)] = EmptyDir] /\ Phase("extract")
  <2>1. (changes = 0 => SumOK(mem, disk', fsPolicy)) /\ Local
    BY <1>1, <1>4, ExtractSums
  <2> QED BY <1>1, <1>2, <1>4, <2>1, PhaseSum
<1> QED BY <1>3, <1>4 DEF RunExtract, EmptyDir

LEMMA ExtractArchiveSum ==
  ASSUME SumCtx, ExtractArchive
  PROVE  SumInv'
<1>1. run.step = Extract /\ run.phase = "extract" /\ Extract \in Steps /\ ~Past(Checksum)
  BY DEF ExtractArchive, Steps, Past
<1>2. /\ RunSum /\ run \in RunType /\ mem \in MetaType /\ TypeInv /\ TypeOK
      /\ Uninterrupted => Checksum \notin mem.done
      /\ mem.artifact # NoPath => mem.artifact.at # Ext(run.t)
  BY <1>1, SumFacts
<1> DEFINE m == [mem EXCEPT !.staging = At(Ext(run.t))]
<1>3. /\ m \in MetaType /\ ~m.completed /\ m.done = mem.done /\ m.checksums = mem.checksums
      /\ m.staging = At(Ext(run.t)) /\ m.artifact = mem.artifact
  BY <1>1, <1>2, TypeInvFacts, MetaUpdates, MetaUpdateFields
<1>4. CASE /\ \E n \in BOOLEAN : disk' = [disk EXCEPT ![Ext(run.t)] = Unpacked(n)]
           /\ Complete(Extract, m)
  <2> DEFINE r == [m EXCEPT !.done = @ \cup {Extract}]
  <2>1. /\ r \in MetaType /\ ~r.completed /\ r.staging = m.staging /\ r.artifact = m.artifact
        /\ r.done = m.done \cup {Extract} /\ r.checksums = m.checksums
    BY <1>1, <1>3, RecordedFacts
  <2>2. Succeed(Extract, r)
    BY <1>4 DEF Complete
  <2> HIDE DEF r, m
  <2>3. (changes = 0 => SumOK(mem, disk', fsPolicy)) /\ Local
    BY <1>1, <1>4, ExtractSums
  <2>4. r.artifact # NoPath => r.staging # r.artifact
    BY <1>2, <1>3, <2>1 DEF At
  <2>5. changes = 0 => SumOK(r, disk', fsPolicy)
    BY <1>3, <2>1, <2>3, <2>4 DEF SumOK, Fixed, CleanedUp
  <2>6. Uninterrupted => Checksum \notin r.done
    BY <1>2, <1>3, <2>1
  <2> QED BY <1>1, <1>2, <2>1, <2>2, <2>3, <2>5, <2>6, SucceedSum
<1>5. CASE Reject /\ UNCHANGED disk
  BY <1>1, <1>5, RejectSum
<1> QED BY <1>4, <1>5, ExtractArchiveLeads

LEMMA RunFlattenSum ==
  ASSUME SumCtx, RunFlatten
  PROVE  SumInv'
<1> DEFINE r == [[mem EXCEPT !.staging.inner = TRUE] EXCEPT !.done = @ \cup {Flatten}]
<1>1. run.step = Flatten /\ run.phase = "op" /\ Flatten \in Steps /\ ~Past(Checksum)
  BY DEF RunFlatten, Running, Steps, Past
<1>2. /\ RunSum /\ run \in RunType /\ mem \in MetaType /\ TypeInv /\ ~mem.completed
      /\ Uninterrupted => Checksum \notin mem.done
      /\ mem.artifact # NoPath => ~mem.artifact.inner
  BY <1>1, SumFacts, TypeInvFacts
<1>3. /\ UNCHANGED disk
      /\ \/ /\ Succeed(Flatten, r) /\ r \in MetaType /\ ~r.completed
            /\ r.done = mem.done \cup {Flatten} /\ r.checksums = mem.checksums
            /\ r.staging.inner /\ r.artifact = mem.artifact
         \/ Skip(Flatten, mem)
  BY <1>2, RunFlattenLeads
<1> HIDE DEF r
<1>4. changes = 0 => SumOK(mem, disk', fsPolicy)
  BY <1>2, <1>3 DEF RunSum
<1>5. CASE Skip(Flatten, mem)
  BY <1>1, <1>2, <1>3, <1>4, <1>5, SucceedSum DEF Local, Skip
<1>6. CASE /\ Succeed(Flatten, r) /\ r \in MetaType /\ ~r.completed
           /\ r.done = mem.done \cup {Flatten} /\ r.checksums = mem.checksums
           /\ r.staging.inner /\ r.artifact = mem.artifact
  <2>1. r.artifact # NoPath => r.staging # r.artifact
    BY <1>2, <1>6
  <2>2. changes = 0 => SumOK(r, disk', fsPolicy)
    BY <1>4, <1>6, <2>1 DEF SumOK, Fixed, CleanedUp
  <2> QED BY <1>1, <1>2, <1>3, <1>4, <1>6, <2>2, SucceedSum DEF Local
<1> QED BY <1>3, <1>5, <1>6

\* Metadata that names an artifact, which a transfer is about to replace or
\* has removed, will not count as in position again.
LEMMA MovingSum ==
  ASSUME SumCtx, run.step = Transfer, run.phase # "save", NEW d,
         changes = 0 /\ mem.artifact # NoPath => mem.staging # mem.artifact
  PROVE  changes = 0 => SumOK(mem, d, fsPolicy)
<1>1. Transfer \notin mem.done
  BY SumFacts DEF RunShape
<1> QED BY <1>1 DEF SumOK, Fixed

LEMMA RunTransferSum ==
  ASSUME SumCtx, RunTransfer
  PROVE  SumInv'
<1>1. run.step = Transfer /\ run.phase = "op" /\ Transfer \in Steps /\ ~Past(Checksum)
  BY DEF RunTransfer, Running, Steps, Past
<1>2. /\ RunSum /\ run \in RunType /\ mem \in MetaType /\ TypeInv /\ TypeOK /\ ShapeCtx
      /\ MetaShape(run.t, mem) /\ disk \in DiskType
      /\ Uninterrupted => Checksum \notin mem.done
  BY <1>1, SumFacts
<1>3. Local
  BY <1>2, RunTransferShape
<1>4. CASE /\ mem.staging = Destination
           /\ Skip(Transfer, Placed(mem)) /\ UNCHANGED disk
  <2> DEFINE r == Placed(mem)
  <2>1. /\ r \in MetaType /\ ~r.completed /\ r.done = mem.done /\ r.checksums = mem.checksums
        /\ r.staging = Destination /\ r.artifact = Destination
    BY <1>1, <1>2, PlacedFacts, MetaUpdateFields
  <2>2. Succeed(Transfer, r)
    BY <1>4 DEF Skip
  <2> HIDE DEF r
  <2>3. changes = 0 => SumOK(mem, disk', fsPolicy)
    BY <1>2, <1>4 DEF RunSum
  <2>4. ASSUME changes = 0 PROVE SumOK(r, disk', fsPolicy)
    <3>1. CASE mem.artifact # NoPath
      <4>1. r.artifact = mem.artifact /\ r.staging = mem.staging
        BY <1>4, <2>1, <3>1 DEF Destination
      <4> QED BY <2>1, <2>3, <2>4, <3>1, <4>1 DEF SumOK, Fixed, CleanedUp
    <3>2. CASE mem.artifact = NoPath
      BY <1>2, <2>1, <3>2 DEF MetaShape, SumOK
    <3> QED BY <3>1, <3>2
  <2> QED BY <1>1, <1>2, <1>3, <2>1, <2>2, <2>3, <2>4, SucceedSum
<1>5. CASE disk' = [disk EXCEPT ![Destination.at] = Absent] /\ Phase("transfer")
  <2>1. /\ run'.t = run.t /\ run'.mem = run.mem /\ run'.step = Transfer /\ run'.phase = "transfer"
        /\ changes' = changes
    BY <1>1, <1>2, <1>5, PhaseRun, PhaseLeads
  <2>2. RunPos'
    BY <2>1 DEF SumCtx, PosInv
  <2>3. changes = 0 /\ mem.artifact # NoPath => mem.staging # mem.artifact
    BY <2>1, <2>2 DEF RunPos, Moving, mem
  <2>4. changes = 0 => SumOK(mem, disk', fsPolicy)
    BY <1>1, <2>3, MovingSum
  <2>5. Destination.at \in Places
    BY <1>1, <1>2, TransferringFacts
  <2>6. mem.artifact # NoPath => disk'[mem.artifact.at] = Absent
    BY <1>2, <1>5, <2>5 DEF DiskType, Destination
  <2> QED BY <1>1, <1>2, <1>3, <1>5, <2>4, <2>6, PhaseSum
<1> QED BY <1>4, <1>5 DEF RunTransfer

\* What was removed from under its own artifact cannot be copied there.
LEMMA NotMovedTwice ==
  ASSUME SumCtx, run.step = Transfer, Moving, changes = 0, mem.artifact # NoPath
  PROVE  run.phase = "transfer" /\ ~Exists(mem.staging)
<1>1. RunSum /\ RunPos /\ RunShape
  BY SumFacts
<1>2. run.phase = "transfer" /\ disk[mem.artifact.at] = Absent /\ mem.staging # mem.artifact
  BY <1>1 DEF RunSum, RunPos
<1>3. Transfer \notin mem.done /\ PosOK(run.t, mem, disk, fsPolicy)
  BY <1>1, <1>2 DEF RunShape, RunPos
<1>4. mem.staging.at = mem.artifact.at
  BY <1>2, <1>3 DEF PosOK
<1> QED BY <1>2, <1>4 DEF Exists

LEMMA TransfersSum ==
  ASSUME SumCtx, Transfers
  PROVE  SumInv'
<1>1. ShapeCtx
  BY DEF SumCtx, SafeCtx, PosCtx
<1>2. /\ run.step = Transfer /\ Moving /\ run.phase # "save" /\ run \in RunType /\ Local
      /\ \/ Reject \/ Complete(Transfer, Placed(mem))
         \/ \E p \in {"transfer", "copied", "removing"} : Phase(p)
  BY <1>1, TransfersLead
<1>3. /\ RunSum /\ RunPos /\ mem \in MetaType /\ TypeInv /\ MetaShape(run.t, mem)
      /\ Transfer \in Steps /\ ~Past(Checksum)
  BY <1>2, SumFacts DEF Steps, Past
<1>4. Uninterrupted => Checksum \notin mem.done
  BY <1>2, <1>3, SumFacts
<1>5. changes = 0 => SumOK(mem, disk', fsPolicy)
  BY <1>2, <1>3, MovingSum DEF RunPos
<1>6. ASSUME changes = 0, mem.artifact # NoPath PROVE TransferUnsupported \/ TransferMissing
  <2>1. run.phase = "transfer" /\ ~Exists(mem.staging)
    BY <1>2, <1>6, NotMovedTwice
  <2> QED BY <2>1 DEF Transfers, TransferRename, TransferBegin, TransferEnd,
                      TransferRemoveBegin, TransferRemoveEnd
<1>7. CASE Reject
  BY <1>2, <1>5, <1>7, RejectLeads, IdleSum
<1>8. CASE ~Reject
  <2>1. changes = 0 => mem.artifact = NoPath
    BY <1>6, <1>8 DEF TransferUnsupported, TransferMissing
  <2>2. CASE Complete(Transfer, Placed(mem))
    <3> DEFINE r == [Placed(mem) EXCEPT !.done = @ \cup {Transfer}]
    <3>1. /\ r \in MetaType /\ ~r.completed /\ r.done \in {mem.done, mem.done \cup {Transfer}}
      BY <1>2, <1>3, PlacedFacts
    <3>2. Succeed(Transfer, r)
      BY <2>2 DEF Complete
    <3> HIDE DEF r
    <3>3. Checksum \in r.done => Checksum \in mem.done
      BY <3>1
    <3>4. changes = 0 => SumOK(r, disk', fsPolicy)
      BY <1>3, <2>1, <3>3 DEF MetaShape, SumOK
    <3> QED BY <1>2, <1>3, <1>4, <1>5, <3>1, <3>2, <3>3, <3>4, SucceedSum
  <2>3. CASE \E p \in {"transfer", "copied", "removing"} : Phase(p)
    BY <1>2, <1>5, <2>1, <2>3, PhaseSum
  <2> QED BY <1>2, <1>8, <2>2, <2>3
<1> QED BY <1>7, <1>8

\* Cleanup does not touch an artifact that was summed.
LEMMA RunCleanupSum ==
  ASSUME SumCtx, RunCleanup
  PROVE  SumInv'
<1>1. /\ Running(Cleanup) /\ run.step = Cleanup /\ run.phase = "op" /\ Cleanup \in Steps
      /\ ~Past(Checksum) /\ Past(Transfer)
  BY DEF RunCleanup, Running, Steps, Past
<1>2. /\ RunSum /\ RunShape /\ run \in RunType /\ mem \in MetaType /\ TypeInv /\ ~mem.completed
      /\ ShapeCtx /\ disk \in DiskType
      /\ changes = 0 => run.policy = fsPolicy
      /\ mem.artifact # NoPath => ~mem.artifact.inner
      /\ Uninterrupted => Checksum \notin mem.done
  BY <1>1, SumFacts, TypeInvFacts
<1>3. Local
  BY <1>2, RunCleanupShape
<1>4. mem.artifact # NoPath /\ Fixed(mem) /\ Cleanup \notin mem.done
  BY <1>1, <1>2 DEF RunShape
<1>5. ArtifactExists /\ IsDir(mem.artifact) <=> DirIn(disk, mem.artifact.at)
  BY <1>2, <1>4 DEF ArtifactExists, IsDir, Exists, DirIn
<1>6. CASE /\ ~(ArtifactExists /\ IsDir(mem.artifact) /\ run.policy.rules)
           /\ Skip(Cleanup, mem) /\ UNCHANGED disk
  <2>1. CleanedUp(mem, disk', run.policy)
    BY <1>5, <1>6 DEF CleanedUp
  <2>2. changes = 0 => SumOK(mem, disk', fsPolicy)
    BY <1>2, <1>6 DEF RunSum
  <2> QED BY <1>1, <1>2, <1>3, <1>6, <2>1, <2>2, SucceedSum DEF Skip
<1>7. CASE ArtifactExists /\ IsDir(mem.artifact) /\ run.policy.rules /\ Complete(Cleanup, mem)
  <2>1. changes = 0 => Checksum \notin mem.done
    BY <1>2, <1>4, <1>5, <1>7 DEF RunSum, SumOK, CleanedUp
  <2> DEFINE r == [mem EXCEPT !.done = @ \cup {Cleanup}]
  <2>2. r \in MetaType /\ ~r.completed /\ r.done = mem.done \cup {Cleanup}
    BY <1>1, <1>2, RecordedFacts
  <2>3. Succeed(Cleanup, r)
    BY <1>7 DEF Complete
  <2> HIDE DEF r
  <2>4. /\ changes = 0 => SumOK(mem, disk', fsPolicy)
        /\ changes = 0 => SumOK(r, disk', fsPolicy)
    BY <2>1, <2>2 DEF SumOK
  <2>5. CleanedUp(r, disk', run.policy)
    BY <2>2 DEF CleanedUp
  <2> QED BY <1>1, <1>2, <1>3, <2>2, <2>3, <2>4, <2>5, SucceedSum
<1> QED BY <1>2, <1>6, <1>7, RunCleanupLeads

LEMMA RunChecksumSum ==
  ASSUME SumCtx, RunChecksum
  PROVE  SumInv'
<1>1. TypeInv /\ Checksum \in Steps
  BY DEF SumCtx, SafeCtx, PosCtx, ShapeCtx, Steps
<1>2. Running(Checksum) /\ UNCHANGED disk
  BY <1>1, RunChecksumLeads
<1>3. run.step = Checksum /\ run.phase = "op" /\ Past(Transfer) /\ Past(Cleanup)
  BY <1>2 DEF Running, Past
<1>4. /\ RunSum /\ RunShape /\ run \in RunType
      /\ changes = 0 => run.policy = fsPolicy
      /\ mem.artifact # NoPath => ~mem.artifact.inner
  BY <1>3, SumFacts
<1>5. PICK r \in MetaType :
        /\ Succeed(Checksum, r) /\ ~r.completed
        /\ r.staging = mem.staging /\ r.artifact = mem.artifact
        /\ \/ /\ ArtifactExists /\ r.done = mem.done \cup {Checksum}
              /\ r.checksums = disk[mem.artifact.at]
           \/ /\ ~ArtifactExists /\ r.done = mem.done /\ r.checksums = Absent
  BY <1>1, RunChecksumLeads
<1>6. mem.artifact # NoPath /\ Checksum \notin mem.done
  BY <1>3, <1>4 DEF RunShape
<1>7. r.checksums = disk'[r.artifact.at]
  BY <1>2, <1>4, <1>5, <1>6 DEF ArtifactExists, Exists
<1>8. changes = 0 => CleanedUp(r, disk', run.policy)
  BY <1>2, <1>3, <1>4, <1>5 DEF RunSum, CleanedUp
<1>9. /\ changes = 0 => SumOK(mem, disk', fsPolicy)
      /\ changes = 0 => SumOK(r, disk', fsPolicy)
  BY <1>2, <1>4, <1>7, <1>8 DEF RunSum, SumOK
<1> QED BY <1>1, <1>2, <1>3, <1>4, <1>5, <1>7, <1>8, <1>9, SucceedSum DEF Local

LEMMA RunFinaliseSum ==
  ASSUME SumCtx, RunFinalise
  PROVE  SumInv'
<1> DEFINE m == [mem EXCEPT !.done = @ \cup {Finalise}, !.completed = TRUE]
<1>1. TypeInv
  BY DEF SumCtx, SafeCtx, PosCtx, ShapeCtx
<1>2. /\ run \in RunType /\ run.step = Finalise /\ run.phase = "op"
      /\ m \in MetaType /\ Saving(m)
      /\ m.done = mem.done \cup {Finalise} /\ m.staging = mem.staging
      /\ m.artifact = mem.artifact /\ m.checksums = mem.checksums
      /\ disk' = [disk EXCEPT ![Ext(run.t)] = Absent] \/ disk' = disk
      /\ faults' = faults \/ faults' = faults + 1
      /\ UNCHANGED <<meta, fsPolicy, crashes, changes>>
  BY <1>1, RunFinaliseLeads
<1> HIDE DEF m
<1>3. /\ RunSum /\ RunShape /\ ShapeCtx /\ disk \in DiskType /\ TypeOK
      /\ mem.artifact # NoPath => mem.artifact.at # Ext(run.t) /\ mem.artifact.at \in Places
  BY <1>2, SumFacts
<1>4. Local
  BY <1>3, RunFinaliseShape
<1>5. mem.artifact # NoPath
  BY <1>2, <1>3 DEF RunShape, Past
<1>6. disk'[mem.artifact.at] = disk[mem.artifact.at]
  BY <1>2, <1>3, <1>5 DEF DiskType
<1>7. changes = 0 => SumOK(mem, disk', fsPolicy)
  BY <1>3, <1>6, SumFrame DEF RunSum
<1>8. changes' = 0 =>
        \A t \in Torrents : Readable(t)' => SumOK(meta'[t], disk', fsPolicy')
  BY <1>2, <1>4, <1>7, OthersSum
<1>9. /\ run'.t = run.t /\ run'.mem = m /\ run'.phase = "save" /\ run'.step = Finalise
      /\ run'.policy = run.policy
  BY <1>2, SavingRun
<1>10. Past(Checksum) /\ Past(Checksum)' /\ Past(Cleanup) /\ ~Moving'
  BY <1>2, <1>9 DEF Past, Moving
<1>11. Summed' => Summed
  BY <1>2, <1>3, FaultAssumption DEF Summed, Uninterrupted, TypeOK
<1>12. changes = 0 => SumOK(m, disk', fsPolicy)
  BY <1>2, <1>7 DEF SumOK, Fixed, CleanedUp
<1>13. Summed => m.checksums = disk'[m.artifact.at]
  BY <1>2, <1>3, <1>6, <1>10 DEF RunSum
<1>14. changes = 0 => CleanedUp(m, disk', run.policy)
  BY <1>2, <1>3, <1>6, <1>10 DEF RunSum, CleanedUp, DirIn
<1>15. RunSum'
  BY <1>2, <1>9, <1>10, <1>11, <1>12, <1>13, <1>14 DEF RunSum, mem
<1> QED BY <1>8, <1>15 DEF SumInv

LEMMA SaveMetaSum ==
  ASSUME SumCtx, SaveMeta
  PROVE  SumInv'
<1>1. TypeInv /\ run.step # 0 /\ run.phase \in {"start", "save"} /\ ShapeInv'
  BY DEF SumCtx, SafeCtx, PosCtx, ShapeCtx, SaveMeta
<1>2. /\ TypeOK /\ run \in RunType /\ run.t \in Torrents
      /\ meta' = [meta EXCEPT ![run.t] = mem]
      /\ UNCHANGED <<disk, fsPolicy, crashes, faults, changes>>
  BY <1>1, SaveMetaLeads
<1>3. RunSum
  BY <1>1, SumFacts
<1>4. meta'[run.t] = mem /\ \A u \in Torrents : u # run.t => meta'[u] = meta[u]
  BY <1>2 DEF TypeOK
<1>5. changes' = 0 =>
        \A t \in Torrents : Readable(t)' => SumOK(meta'[t], disk', fsPolicy')
  BY <1>2, <1>3, <1>4 DEF SumCtx, SumInv, RunSum, Readable
<1>6. CASE run' = Idle
  BY <1>5, <1>6 DEF SumInv, Idle
<1>7. (Uninterrupted' <=> Uninterrupted) /\ (Summed' <=> Summed)
  BY <1>2 DEF Uninterrupted, Summed
<1>8. CASE run.phase = "start" /\ run.step = Finalise /\ run' = [run EXCEPT !.phase = "op"]
  <2>1. /\ run'.t = run.t /\ run'.policy = run.policy /\ run'.mem = mem
        /\ run'.step = Finalise /\ run'.phase = "op"
    BY <1>2, <1>8 DEF RunType, mem
  <2>2. ~Moving' /\ Past(Checksum) /\ Past(Checksum)' /\ Past(Cleanup)
    BY <1>8, <2>1 DEF Moving, Past
  <2>3. RunSum'
    BY <1>2, <1>3, <1>7, <2>1, <2>2 DEF RunSum, mem
  <2> QED BY <1>5, <2>3 DEF SumInv
<1>9. CASE run.phase = "save" /\ Onward(run.step, mem)
  <2>1. /\ run'.t = run.t /\ run'.policy = run.policy /\ run'.mem = mem
        /\ run.step \in Steps /\ run'.step \in (run.step + 1)..14
        /\ run'.phase \in {"start", "op"}
        /\ \A i \in (run.step + 1)..(run'.step - 1) : i \in mem.done
    BY <1>2, <1>9 DEF Onward, RunType
  <2>2. ASSUME NEW j \in {Cleanup, Checksum}, Past(j)', ~Past(j) PROVE j \in mem.done
    <3>1. j \in (run.step + 1)..(run'.step - 1)
      BY <1>9, <2>1, <2>2 DEF Past, Steps
    <3> QED BY <2>1, <3>1
  <2>3. (Past(Checksum) => Past(Checksum)') /\ ~Moving' /\ run'.step # 0
    BY <2>1 DEF Past, Moving, Steps
  <2>4. ASSUME Past(Checksum)' PROVE mem.artifact # NoPath /\ Fixed(mem)
    <3>1. Past(Transfer)' /\ RunShape'
      BY <1>1, <2>1, <2>3, <2>4 DEF Past, ShapeInv, Steps
    <3> QED BY <2>1, <3>1 DEF RunShape, mem
  <2>5. ASSUME Summed, Past(Checksum)' PROVE mem.checksums = disk[mem.artifact.at]
    <3>1. CASE Past(Checksum)
      BY <1>3, <2>5, <3>1 DEF RunSum
    <3>2. CASE ~Past(Checksum)
      <4>1. Checksum \in mem.done /\ changes = 0
        BY <1>3, <2>2, <2>5, <3>2 DEF RunSum, Summed
      <4> QED BY <1>3, <2>4, <2>5, <4>1, JumpSum DEF RunSum
    <3> QED BY <3>1, <3>2
  <2>6. changes = 0 /\ Past(Cleanup)' => CleanedUp(mem, disk, run.policy)
    BY <1>3, <2>2 DEF RunSum, CleanedUp
  <2>7. RunSum'
    BY <1>2, <1>3, <1>7, <2>1, <2>3, <2>5, <2>6 DEF RunSum, mem
  <2> QED BY <1>5, <2>7 DEF SumInv
<1> QED BY <1>1, <1>6, <1>8, <1>9, SaveMetaLeads

LEMMA ApplySum ==
  ASSUME SumCtx, NEW t \in Torrents, Apply(t)
  PROVE  SumInv'
<1>1. TypeInv /\ TypeOK /\ SumInv /\ SafeInv /\ ShapeInv /\ ShapeInv'
  BY DEF SumCtx, SafeCtx, PosCtx, ShapeCtx, TypeInv
<1>2. run = Idle /\ UNCHANGED <<disk, meta, fsPolicy, crashes, faults, changes>>
  BY <1>1, ApplyLeads
<1>3. changes' = 0 =>
        \A u \in Torrents : Readable(u)' => SumOK(meta'[u], disk', fsPolicy')
  BY <1>1, <1>2 DEF SumInv, Readable
<1>4. CASE run' = Idle
  BY <1>3, <1>4 DEF SumInv, Idle
<1>5. CASE /\ meta[t] # TornFile /\ ~Load(t).completed
           /\ run' \in RunType /\ run'.t = t /\ run'.policy = fsPolicy
           /\ run'.mem = Load(t)
           /\ run'.phase = IF run'.step = Finalise THEN "start" ELSE "op"
           /\ \A i \in 1..(run'.step - 1) : i \in Load(t).done
  <2>1. changes = 0 => SumOK(Load(t), disk, fsPolicy)
    <3>1. CASE meta[t] = NoFile
      BY <3>1 DEF Load, NewMeta, SumOK
    <3>2. CASE meta[t] # NoFile
      BY <1>1, <1>5, <3>2 DEF Load, SumInv, Readable
    <3> QED BY <3>1, <3>2
  <2>2. Uninterrupted => Checksum \notin Load(t).done
    <3>1. AtRest(t) /\ ~Active(t) /\ MetaShape(t, Load(t))
      BY <1>1, <1>2, <1>5, LoadShape DEF SafeInv, Active, Idle
    <3>2. Uninterrupted => Load(t).artifact = NoPath
      BY <1>5, <3>1 DEF Load, NewMeta, AtRest, Readable
    <3> QED BY <3>1, <3>2 DEF MetaShape
  <2>3. run'.step \in Steps /\ run'.step # 0 /\ ~Moving'
    BY <1>5 DEF RunType, Steps, Moving
  <2>4. ASSUME NEW j \in {Cleanup, Checksum}, Past(j)' PROVE j \in Load(t).done
    <3>1. j \in 1..(run'.step - 1)
      BY <1>5, <2>3, <2>4 DEF Past, Steps
    <3> QED BY <1>5, <3>1
  <2>5. ASSUME Past(Checksum)' PROVE Load(t).artifact # NoPath /\ Fixed(Load(t))
    <3>1. Past(Transfer)' /\ RunShape'
      BY <1>1, <2>3, <2>5 DEF Past, ShapeInv, Steps
    <3> QED BY <1>5, <3>1 DEF RunShape, mem
  <2>6. (Uninterrupted' <=> Uninterrupted) /\ (Summed' <=> Summed)
    BY <1>2 DEF Uninterrupted, Summed
  <2>7. ASSUME Summed, Past(Checksum)' PROVE Load(t).checksums = disk[Load(t).artifact.at]
    <3>1. Checksum \in Load(t).done
      BY <2>4, <2>7
    <3>2. changes = 0
      BY <2>2, <2>7, <3>1 DEF Summed
    <3> QED BY <2>1, <2>5, <2>7, <3>1, <3>2, JumpSum
  <2>8. Past(Cleanup)' => CleanedUp(Load(t), disk, fsPolicy)
    BY <2>4 DEF CleanedUp
  <2>9. RunSum'
    BY <1>2, <1>5, <2>1, <2>2, <2>3, <2>6, <2>7, <2>8 DEF RunSum, mem
  <2> QED BY <1>3, <2>9 DEF SumInv
<1> QED BY <1>1, <1>4, <1>5, ApplyLeads

LEMMA InterruptSum ==
  ASSUME SumCtx, IoError \/ Crash
  PROVE  SumInv'
<1>1. TypeInv /\ TypeOK /\ SumInv
  BY DEF SumCtx, SafeCtx, PosCtx, ShapeCtx, TypeInv
<1>2. /\ run.t \in Torrents /\ run' = Idle /\ UNCHANGED <<disk, fsPolicy, changes>>
      /\ meta' = meta \/ meta' = [meta EXCEPT ![run.t] = TornFile]
  BY <1>1, InterruptLeads
<1>3. \A u \in Torrents : meta'[u] = meta[u] \/ meta'[u] = TornFile
  BY <1>1, <1>2 DEF TypeOK
<1> QED BY <1>1, <1>2, <1>3 DEF SumInv, Readable, Idle

LEMMA UpdateFsPolicySum ==
  ASSUME SumCtx, UpdateFsPolicy
  PROVE  SumInv'
<1>1. changes' # 0 /\ UNCHANGED <<disk, meta, run, crashes, faults>>
  BY FaultAssumption DEF UpdateFsPolicy, SumCtx, SafeCtx, PosCtx, ShapeCtx, TypeInv, TypeOK
<1>2. ASSUME run.step # 0 PROVE RunSum'
  <2>1. RunSum
    BY <1>2 DEF SumCtx, SumInv
  <2>2. /\ Uninterrupted' <=> Uninterrupted
        /\ Summed' => Summed
        /\ Past(Checksum)' <=> Past(Checksum)
    BY <1>1 DEF Uninterrupted, Summed, Past
  <2> QED BY <1>1, <2>1, <2>2 DEF RunSum, mem
<1> QED BY <1>1, <1>2 DEF SumInv

LEMMA StutterSum ==
  ASSUME SumCtx, UNCHANGED vars
  PROVE  SumInv'
<1>1. UNCHANGED <<disk, meta, run, fsPolicy, changes, crashes, faults>>
  BY DEF vars, env
<1>2. ASSUME run.step # 0 PROVE RunSum'
  <2>1. RunSum
    BY <1>2 DEF SumCtx, SumInv
  <2> QED BY <1>1, <2>1 DEF RunSum, mem, Past, Moving, Summed, Uninterrupted
<1> QED BY <1>1, <1>2 DEF SumInv, SumCtx, Readable

LEMMA StepSum ==
  ASSUME SumCtx, [Next]_vars
  PROVE  SumInv'
<1>1. CASE \E t \in Torrents : Apply(t)
  BY <1>1, ApplySum
<1>2. CASE PipelineStep
  BY <1>2, PlainStepsSum, RunExtractSum, ExtractArchiveSum, RunFlattenSum, RunTransferSum,
     TransfersSum, RunCleanupSum, RunChecksumSum, RunFinaliseSum, SaveMetaSum
     DEF PipelineStep, Transfers
<1>3. CASE UpdateFsPolicy
  BY <1>3, UpdateFsPolicySum
<1>4. CASE IoError \/ Crash
  BY <1>4, InterruptSum
<1>5. CASE UNCHANGED vars
  BY <1>5, StutterSum
<1> QED BY <1>1, <1>2, <1>3, <1>4, <1>5 DEF Next

LEMMA InitSum == Init => SumInv
BY DEF Init, SumInv, Idle, Readable

\* Only saving the metadata of its last step completes a torrent.
LEMMA OnlySaveCompletes ==
  ASSUME ShapeCtx, [Next]_vars, NEW t \in Torrents, Completed(t)', ~Completed(t)
  PROVE  /\ run.step # 0 /\ run.t = t /\ Past(Checksum)
         /\ meta'[t] = mem /\ UNCHANGED <<disk, crashes, faults, changes>>
<1>1. TypeInv /\ TypeOK
  BY DEF ShapeCtx, TypeInv
<1>2. meta'[t] # meta[t] /\ meta'[t] # TornFile
  BY DEF Completed, Readable
<1>3. ~UNCHANGED vars /\ ~UpdateFsPolicy /\ ~(\E u \in Torrents : Apply(u))
  BY <1>2 DEF vars, UpdateFsPolicy, Apply
<1>4. ~(IoError \/ Crash)
  <2>1. SUFFICES ASSUME IoError \/ Crash PROVE FALSE
    OBVIOUS
  <2>2. run.t \in Torrents /\ (meta' = meta \/ meta' = [meta EXCEPT ![run.t] = TornFile])
    BY <1>1, <2>1, InterruptLeads
  <2> QED BY <1>1, <1>2, <2>2 DEF TypeOK
<1>5. PipelineStep
  BY <1>3, <1>4 DEF Next
<1>6. run.step # 0 /\ (meta' = meta \/ meta' = [meta EXCEPT ![run.t] = mem])
  BY <1>5, PipelineShape
<1>7. run.t = t /\ meta'[t] = mem
  BY <1>1, <1>2, <1>6 DEF TypeOK
<1>8. mem.completed /\ RunInv
  BY <1>1, <1>7 DEF Completed, TypeInv
<1>9. run.phase = "save" /\ run.step = Finalise
  BY <1>6, <1>8 DEF RunInv
<1>10. SaveMeta
  BY <1>5, <1>9
     DEF PipelineStep, RunValidatePolicy, RunAllowlist, RunPrepareDirectories, RunCompileRules,
         RunLocateSource, RunVerifyPar2, RunPrepareWorkDir, RunExtract, ExtractArchive, RunFlatten,
         RunTransfer, TransferUnsupported, TransferMissing, TransferRename, TransferBegin,
         TransferEnd, TransferRemoveBegin, TransferRemoveEnd, RunSetPermissions, RunCleanup,
         RunChecksum, RunFinalise, PlainStep, Running, Transferring
<1>11. UNCHANGED <<disk, crashes, faults, changes>>
  BY <1>1, <1>10, SaveMetaLeads
<1> QED BY <1>6, <1>7, <1>9, <1>11 DEF Past

\* Interruptions and changes of the policy are never taken back.
LEMMA SummedBefore ==
  ASSUME TypeOK, [Next]_vars, Summed'
  PROVE  Summed
<1>1. changes \in Nat /\ crashes \in Nat /\ faults \in Nat
  BY FaultAssumption DEF TypeOK
<1>2. /\ changes' = changes \/ changes' = changes + 1
      /\ crashes' = crashes \/ crashes' = crashes + 1
      /\ faults' = faults \/ faults' = faults + 1
  <2>1. CASE \E t \in Torrents : Apply(t)
    BY <2>1 DEF Apply, env
  <2>2. CASE UpdateFsPolicy \/ IoError \/ Crash
    BY <2>2 DEF UpdateFsPolicy, IoError, Crash
  <2>3. CASE UNCHANGED vars
    BY <2>3 DEF vars, env
  <2>4. CASE RunFinalise
    BY <2>4 DEF RunFinalise
  <2>5. CASE UNCHANGED env
    BY <2>5 DEF env
  <2>6. PipelineStep => RunFinalise \/ UNCHANGED env
    BY DEF PipelineStep, RunValidatePolicy, RunAllowlist, RunPrepareDirectories, RunCompileRules,
         RunLocateSource, RunVerifyPar2, RunPrepareWorkDir, RunExtract, ExtractArchive, RunFlatten,
         RunTransfer, TransferUnsupported, TransferMissing, TransferRename, TransferBegin,
         TransferEnd, TransferRemoveBegin, TransferRemoveEnd, RunSetPermissions, RunCleanup,
         RunChecksum, PlainStep, Par2Verified, Complete, Skip, Succeed, Reject, Phase, SaveMeta
  <2> QED BY <2>1, <2>2, <2>3, <2>4, <2>5, <2>6 DEF Next
<1> QED BY <1>1, <1>2 DEF Summed, Uninterrupted

LEMMA StepCurrent ==
  ASSUME SumCtx, ChecksumsCurrent, [Next]_vars
  PROVE  ChecksumsCurrent'
<1>1. ShapeCtx /\ NamesApart /\ TypeOK
  BY DEF SumCtx, SafeCtx, PosCtx, ShapeCtx, TypeInv
<1> SUFFICES ASSUME Summed', NEW t \in Torrents, Completed(t)'
             PROVE  meta'[t].checksums = disk'[meta'[t].artifact.at]
  BY DEF ChecksumsCurrent, Summed
<1>2. Summed
  BY <1>1, SummedBefore
<1>3. CASE Completed(t)
  <2>1. /\ meta'[t] = meta[t]
        /\ disk'[meta[t].artifact.at] = disk[meta[t].artifact.at]
    BY <1>1, <1>3, StepFinal
  <2> QED BY <1>2, <1>3, <2>1 DEF ChecksumsCurrent, Summed
<1>4. CASE ~Completed(t)
  <2>1. run.step # 0 /\ Past(Checksum) /\ meta'[t] = mem /\ UNCHANGED disk
    BY <1>1, <1>4, OnlySaveCompletes
  <2>2. RunSum
    BY <2>1, SumFacts
  <2> QED BY <1>2, <2>1, <2>2 DEF RunSum
<1> QED BY <1>3, <1>4

\* If the places of the torrents are apart: however often the pipeline was
\* interrupted and resumed, as long as the policy is the same (and through
\* every change of the policy, as long as no run was interrupted), the
\* checksums in completed metadata are those of what is at the artifact path.
THEOREM SumsCurrent ==
  ASSUME NamesApart
  PROVE  Spec => []ChecksumsCurrent
<1>1. Init => SumInv /\ ChecksumsCurrent
  BY InitSum DEF Init, ChecksumsCurrent, Completed, Readable
<1>2. ASSUME SafetyInv, SafetyInv', SumInv, ChecksumsCurrent, [Next]_vars
      PROVE  SumInv' /\ ChecksumsCurrent'
  <2>1. SumCtx
    BY <1>2 DEF SafetyInv, SumCtx, SafeCtx, PosCtx, ShapeCtx
  <2> QED BY <1>2, <2>1, StepSum, StepCurrent
<1> QED BY <1>1, <1>2, Safe, PTL DEF Spec
=============================================================================
