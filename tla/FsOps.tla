------------------------------- MODULE FsOps -------------------------------
(***************************************************************************)
(* The filesystem post-processing pipeline of revaer-fsops                 *)
(* (service/mod.rs): FsOpsService::apply runs fourteen steps over a        *)
(* completed download, records in a metadata file which of them have       *)
(* completed, and on a later call resumes from that file.  The process may *)
(* crash, and an I/O operation may fail, at any point.                     *)
(*                                                                         *)
(* The orchestrator owns the service and awaits each call, so at most one  *)
(* pipeline runs at a time.  A directory tree is abstracted to whose       *)
(* payload it holds, whether all of it, and whether it is one directory    *)
(* nested in another; of a step's status only `Completed` is kept, the one *)
(* status that execute_step tests.                                         *)
(***************************************************************************)
EXTENDS Naturals, FiniteSets

CONSTANTS
    Torrents,     \* torrents whose download is complete
    Names,        \* names of entries of the library
    Extracted,    \* the name "extracted", one of Names
    FileName,     \* the file name of each torrent's payload
    InnerName,    \* the name of the directory nested in each payload, if any
    Forms,        \* what payloads can be: "archive", "file", "dir"
    InLibrary,    \* torrents downloaded directly into the library root
    Policies,     \* fs_policy snapshots that may be in force
    MaxCrashes,   \* bound: process crashes
    MaxPolicyChanges, \* bound: updates of the policy
    MaxFaults,    \* bound: I/O operations that fail
    TornWrites    \* whether a failing write may leave a truncated file

\* move_mode is free text in the policy: neither revaer-config nor the
\* database constrains it.  Policies whose library_root is empty, whose globs do
\* not compile or whose par2 text is no mode are left out: ValidatePolicy,
\* CompileRules and VerifyPar2 fail on them as Allowlist does on a denied path,
\* before anything of the payload is touched.
PolicyType == [allowed : BOOLEAN, par2 : BOOLEAN, extract : BOOLEAN,
               flatten : BOOLEAN,
               move_mode : {"copy", "move", "hardlink", "unsupported"},
               permissions : BOOLEAN, rules : BOOLEAN]

ASSUME NamesAssumption ==
    /\ Extracted \in Names
    /\ FileName \in [Torrents -> Names] /\ InnerName \in [Torrents -> Names]
    /\ InLibrary \subseteq Torrents
ASSUME PolicyAssumption == Policies \subseteq PolicyType
ASSUME FormsAssumption == Forms \subseteq {"archive", "file", "dir"}
ASSUME FaultAssumption ==
    /\ MaxCrashes \in Nat /\ MaxFaults \in Nat /\ MaxPolicyChanges \in Nat
    /\ TornWrites \in BOOLEAN

VARIABLES
    disk,      \* what is at each place of the file system
    meta,      \* each torrent's metadata file
    run,       \* the pipeline in progress: torrent, policy, step, phase, and
               \* its FsOpsMeta in memory
    fsPolicy,  \* the orchestrator's fs_policy
    degraded,  \* health_degraded
    outcome,   \* per torrent: what its last finished `apply` published
    crashes, faults, changes

env == <<fsPolicy, crashes, faults, changes>>
vars == <<disk, meta, run, degraded, outcome, env>>

-----------------------------------------------------------------------------
(* StepKind, in the order of execute_pipeline.                             *)

ValidatePolicy == 1
Allowlist == 2
PrepareDirectories == 3
CompileRules == 4
LocateSource == 5
VerifyPar2 == 6
PrepareWorkDir == 7
Extract == 8
Flatten == 9
Transfer == 10
SetPermissions == 11
Cleanup == 12
Checksum == 13
Finalise == 14
Steps == 1..14

\* StepPersistence.success of each step.
PersistsSuccess(k) == k \notin {ValidatePolicy, Allowlist, CompileRules}

-----------------------------------------------------------------------------
(* Places of the file system, and what can be there.                       *)

Src(t) == [kind |-> "source", of |-> t]       \* where the engine downloads to
Ext(t) == [kind |-> "extracted", of |-> t]    \* <meta dir>/work/<id>/extracted
Lib(n) == [kind |-> "library", of |-> n]      \* an entry of the library root
Places == {Src(t) : t \in Torrents} \cup {Ext(t) : t \in Torrents}
            \cup {Lib(n) : n \in Names}

\* A path is a place or the directory nested in it.
Paths == [at : Places, inner : BOOLEAN]
At(place) == [at |-> place, inner |-> FALSE]

\* `state` is "whole", "part" (an interrupted copy, an empty directory) or
\* "shell" (a directory whose nested directory was moved away).
Content == [of : Torrents, form : {"archive", "file", "dir"},
            state : {"whole", "part", "shell"}, nested : BOOLEAN]
Absent == [of |-> "absent"]

SourcePath(t) == IF t \in InLibrary THEN Lib(FileName[t]) ELSE Src(t)

Exists(p) == /\ disk[p.at] # Absent
             /\ p.inner => disk[p.at].nested /\ disk[p.at].state # "shell"
IsDir(p) == Exists(p) /\ (p.inner \/ disk[p.at].form = "dir")

\* Mutant: every transfer infers the same name.
NameOfFixed(t, p) == Extracted

\* Path::file_name of a staging path, and the destination it gives.
NameOf(t, p) ==
    CASE p.inner -> InnerName[t]
      [] ~p.inner /\ p.at.kind = "library" -> p.at.of
      [] ~p.inner /\ p.at.kind = "source" -> FileName[t]
      [] ~p.inner /\ p.at.kind = "extracted" -> Extracted

-----------------------------------------------------------------------------
(* FsOpsMeta.                                                              *)

NoPath == [at |-> "none"]
MetaType == [done : SUBSET Steps, completed : BOOLEAN, staging : Paths,
             artifact : Paths \cup {NoPath}, checksums : Content \cup {Absent}]
NoFile == [file |-> "none"]         \* no metadata file
TornFile == [file |-> "torn"]       \* a file that does not parse

NewMeta(t) == [done |-> {}, completed |-> FALSE, staging |-> At(SourcePath(t)),
               artifact |-> NoPath, checksums |-> Absent]

\* The first step after k that execute_step does not skip; 15 is the end.
Skipped(m, k) == k \in m.done /\ (k # Finalise \/ m.completed)
NextStep(m, k) ==
    CHOOSE j \in (k + 1)..15 :
      /\ j = 15 \/ ~Skipped(m, j)
      /\ \A i \in (k + 1)..(j - 1) : Skipped(m, i)

Idle == [step |-> 0]
RunType == [t : Torrents, policy : Policies, step : Steps, mem : MetaType,
            phase : {"start", "op", "extract", "transfer", "copied", "removing", "save"}]

mem == run.mem

MarkDegraded == degraded' = TRUE
MarkRecovered == degraded' = FALSE

Running(k) == run.step = k /\ run.phase = "op"

\* The pipeline goes on to step k with metadata m, or returns Ok (apply then
\* clears the degraded flag and publishes FsopsCompleted).  Finalise, alone,
\* saves the metadata when it starts.
Goto(k, m) ==
    IF k = 15
    THEN /\ run' = Idle /\ MarkRecovered
         /\ outcome' = [outcome EXCEPT ![run.t] = "completed"]
    ELSE /\ run' = [run EXCEPT !.step = k, !.mem = m,
                               !.phase = IF k = Finalise THEN "start" ELSE "op"]
         /\ UNCHANGED <<degraded, outcome>>

\* apply publishes FsopsFailed and degrades the health component.
Fail(t) ==
    /\ run' = Idle /\ MarkDegraded
    /\ outcome' = [outcome EXCEPT ![t] = "failed"]

\* execute_step after an operation returned Ok: record_step, which saves the
\* metadata for the steps that persist their success.
Succeed(k, m) ==
    /\ IF PersistsSuccess(k)
       THEN /\ run' = [run EXCEPT !.mem = m, !.phase = "save"]
            /\ UNCHANGED <<degraded, outcome>>
       ELSE Goto(NextStep(m, k), m)
    /\ UNCHANGED <<meta, env>>

Complete(k, m) == Succeed(k, [m EXCEPT !.done = @ \cup {k}])
Skip(k, m) == Succeed(k, m)

\* execute_step after an operation returned Err: failures are not persisted.
Reject == Fail(run.t) /\ UNCHANGED <<meta, env>>

\* The operation of a step has done its first part.
Phase(phase) ==
    /\ run' = [run EXCEPT !.phase = phase]
    /\ UNCHANGED <<meta, degraded, outcome, env>>

-----------------------------------------------------------------------------
(* FsOpsService::apply up to the first step: load_or_initialise_meta.      *)

\* Mutant: the metadata is initialised although there is a file.
LoadFresh(t) == NewMeta(t)

Load(t) == IF meta[t] = NoFile THEN NewMeta(t) ELSE meta[t]

\* TorrentOrchestrator::apply_fsops takes a snapshot of the policy.
Apply(t) ==
    /\ run = Idle
    /\ \/ meta[t] = TornFile /\ Fail(t)
       \/ /\ meta[t] # TornFile /\ Load(t).completed
          /\ run' = Idle /\ MarkRecovered
          /\ outcome' = [outcome EXCEPT ![t] = "completed"]
       \/ /\ meta[t] # TornFile /\ ~Load(t).completed
          /\ LET k == NextStep(Load(t), 0) IN
             run' = [t |-> t, policy |-> fsPolicy, step |-> k, mem |-> Load(t),
                     phase |-> IF k = Finalise THEN "start" ELSE "op"]
          /\ UNCHANGED <<degraded, outcome>>
    /\ UNCHANGED <<disk, meta, env>>

-----------------------------------------------------------------------------
(* The steps.                                                              *)

\* A step that changes nothing the model keeps.
PlainStep(k) == Running(k) /\ Complete(k, mem) /\ UNCHANGED disk

\* Their errors are those of the policies that PolicyType leaves out.
RunValidatePolicy == PlainStep(ValidatePolicy)
RunPrepareDirectories == PlainStep(PrepareDirectories)
RunCompileRules == PlainStep(CompileRules)
RunPrepareWorkDir == PlainStep(PrepareWorkDir)

\* enforce_allow_paths: whether the library root is under an allowed path.
EnforceAllowPaths == run.policy.allowed

RunAllowlist ==
    /\ Running(Allowlist)
    /\ IF EnforceAllowPaths THEN Complete(Allowlist, mem) ELSE Reject
    /\ UNCHANGED disk

RunLocateSource ==
    /\ Running(LocateSource)
    /\ IF Exists(At(SourcePath(run.t))) THEN Complete(LocateSource, mem) ELSE Reject
    /\ UNCHANGED disk

\* The par2 tool is external, and a payload may have no par2 file to give it.
Par2Verified == run.policy.par2 /\ Complete(VerifyPar2, mem)

RunVerifyPar2 ==
    /\ Running(VerifyPar2)
    /\ Par2Verified \/ Skip(VerifyPar2, mem)
    /\ UNCHANGED disk

\* Mutant: the extraction directory of an interrupted run is not reset.
RunExtractNoReset ==
    /\ Running(Extract)
    /\ \/ /\ ~run.policy.extract \/ IsDir(mem.staging)
          /\ Skip(Extract, mem) /\ UNCHANGED disk
       \/ /\ run.policy.extract /\ ~IsDir(mem.staging)
          /\ disk[Ext(run.t)] # Absent
          /\ Reject /\ UNCHANGED disk
       \/ /\ run.policy.extract /\ ~IsDir(mem.staging)
          /\ disk[Ext(run.t)] = Absent
          /\ disk' = [disk EXCEPT ![Ext(run.t)] =
               [of |-> run.t, form |-> "dir", state |-> "part", nested |-> FALSE]]
          /\ Phase("extract")

\* The first half of run_extract: nothing to do, or empty the target ...
RunExtract ==
    /\ Running(Extract)
    /\ IF ~run.policy.extract \/ IsDir(mem.staging)
       THEN Skip(Extract, mem) /\ UNCHANGED disk
       ELSE /\ disk' = [disk EXCEPT ![Ext(run.t)] =
                 [of |-> run.t, form |-> "dir", state |-> "part", nested |-> FALSE]]
            /\ Phase("extract")

\* ... and the second: extract_archive, for an archive that is there.
ExtractArchive ==
    /\ run.step = Extract /\ run.phase = "extract"
    /\ IF Exists(mem.staging) /\ disk[mem.staging.at].form = "archive"
       THEN /\ \E n \in BOOLEAN :
                 disk' = [disk EXCEPT ![Ext(run.t)] =
                   [of |-> disk[mem.staging.at].of, form |-> "dir",
                    state |-> "whole", nested |-> n]]
            /\ Complete(Extract, [mem EXCEPT !.staging = At(Ext(run.t))])
       ELSE Reject /\ UNCHANGED disk

RunFlatten ==
    /\ Running(Flatten)
    /\ IF run.policy.flatten /\ IsDir(mem.staging) /\ disk[mem.staging.at].nested
       THEN Complete(Flatten, [mem EXCEPT !.staging.inner = TRUE])
       ELSE Skip(Flatten, mem)
    /\ UNCHANGED disk

Destination ==
    IF mem.artifact # NoPath THEN mem.artifact ELSE At(Lib(NameOf(run.t, mem.staging)))

\* Mutant: staging_path is set from artifact_path before that is assigned.
PlacedSwapped(m) == [m EXCEPT !.staging = mem.artifact, !.artifact = Destination]

Placed(m) == [m EXCEPT !.staging = Destination, !.artifact = Destination]

\* Mutants: whatever is at the destination counts as already positioned;
\* nothing does.
RunTransferTrusting ==
    /\ Running(Transfer)
    /\ IF Exists(Destination)
       THEN Skip(Transfer, Placed(mem)) /\ UNCHANGED disk
       ELSE UNCHANGED disk /\ Phase("transfer")

RunTransferAlways ==
    /\ Running(Transfer)
    /\ disk' = [disk EXCEPT ![Destination.at] = Absent]
    /\ Phase("transfer")

\* run_transfer up to the match on move_mode: an artifact already in position
\* is left alone, anything else at the destination is removed (with whatever
\* is nested in it).
RunTransfer ==
    /\ Running(Transfer)
    /\ IF Exists(Destination) /\ mem.staging = Destination
       THEN Skip(Transfer, Placed(mem)) /\ UNCHANGED disk
       ELSE /\ disk' = [disk EXCEPT ![Destination.at] = Absent]
            /\ Phase("transfer")

Transferring == run.step = Transfer /\ run.phase = "transfer"

\* What a transfer of the staging path puts at the destination.
Payload(state) ==
    LET c == disk[mem.staging.at] IN
    [of |-> c.of, form |-> IF mem.staging.inner THEN "dir" ELSE c.form,
     state |-> state, nested |-> ~mem.staging.inner /\ c.nested]

TransferUnsupported ==
    /\ Transferring /\ run.policy.move_mode = "unsupported"
    /\ Reject /\ UNCHANGED disk

\* replicate_tree of a staging path that is not there: an empty directory is
\* created at the destination before the walk fails.
TransferMissing ==
    /\ Transferring /\ run.policy.move_mode # "unsupported"
    /\ ~Exists(mem.staging)
    /\ disk' = [disk EXCEPT ![Destination.at] =
         [of |-> run.t, form |-> "dir", state |-> "part", nested |-> FALSE]]
    /\ Reject

Without(path) ==
    IF path.inner THEN [disk[path.at] EXCEPT !.state = "shell"] ELSE Absent

\* move_tree's rename.
TransferRename ==
    /\ Transferring /\ run.policy.move_mode = "move"
    /\ Exists(mem.staging) /\ disk[Destination.at] = Absent
    /\ disk' = [disk EXCEPT ![Destination.at] = Payload(disk[mem.staging.at].state),
                            ![mem.staging.at] = Without(mem.staging)]
    /\ Complete(Transfer, Placed(mem))

\* copy_tree, hardlink_tree, or move_tree when the rename fails: the tree is
\* replicated file by file, so the destination is incomplete in between ...
TransferBegin ==
    /\ Transferring /\ run.policy.move_mode # "unsupported"
    /\ Exists(mem.staging) /\ disk[Destination.at] = Absent
    /\ disk' = [disk EXCEPT ![Destination.at] = Payload("part")]
    /\ Phase("transfer")

\* ... and complete at the end.
TransferEnd ==
    /\ Transferring
    /\ Exists(mem.staging) /\ disk[Destination.at] # Absent
    /\ disk' = [disk EXCEPT ![Destination.at] = Payload(disk[mem.staging.at].state)]
    /\ IF run.policy.move_mode = "move"
       THEN Phase("copied")
       ELSE Complete(Transfer, Placed(mem))

\* move_tree then removes the source, entry by entry.
TransferRemoveBegin ==
    /\ run.step = Transfer /\ run.phase = "copied"
    /\ disk' = [disk EXCEPT ![mem.staging.at].state = "part"]
    /\ Phase("removing")

TransferRemoveEnd ==
    /\ run.step = Transfer /\ run.phase = "removing"
    /\ disk' = [disk EXCEPT ![mem.staging.at] = Without(mem.staging)]
    /\ Complete(Transfer, Placed(mem))

ArtifactExists == mem.artifact # NoPath /\ Exists(mem.artifact)

\* chmod and chown leave the payload as it is.
ApplyPermissions == UNCHANGED disk

RunSetPermissions ==
    /\ Running(SetPermissions)
    /\ IF ArtifactExists /\ run.policy.permissions
       THEN ApplyPermissions /\ Complete(SetPermissions, mem)
       ELSE UNCHANGED disk /\ Skip(SetPermissions, mem)

\* The rules may remove all but one nested directory.
CleanupDestination ==
    \E n \in {disk[mem.artifact.at].nested, TRUE} :
      disk' = [disk EXCEPT ![mem.artifact.at].nested = n]

\* Mutant: a cleanup that removed something is recorded as skipped.
RunCleanupUnmarked ==
    /\ Running(Cleanup)
    /\ Skip(Cleanup, mem)
    /\ IF ArtifactExists /\ IsDir(mem.artifact) /\ run.policy.rules
       THEN CleanupDestination
       ELSE UNCHANGED disk

RunCleanup ==
    /\ Running(Cleanup)
    /\ IF ArtifactExists /\ IsDir(mem.artifact) /\ run.policy.rules
       THEN Complete(Cleanup, mem) /\ CleanupDestination
       ELSE Skip(Cleanup, mem) /\ UNCHANGED disk

\* A digest stands for the tree it was taken of.
BuildChecksums(path) == disk[path.at]

RunChecksum ==
    /\ Running(Checksum)
    /\ IF ArtifactExists
       THEN Complete(Checksum, [mem EXCEPT !.checksums = BuildChecksums(mem.artifact)])
       ELSE Skip(Checksum, [mem EXCEPT !.checksums = Absent])
    /\ UNCHANGED disk

\* The work directory goes; that it could not be removed is only logged.
RunFinalise ==
    /\ Running(Finalise)
    /\ \/ disk' = [disk EXCEPT ![Ext(run.t)] = Absent] /\ UNCHANGED faults
       \/ faults < MaxFaults /\ faults' = faults + 1 /\ UNCHANGED disk
    /\ run' = [run EXCEPT !.mem.done = @ \cup {Finalise}, !.mem.completed = TRUE,
                          !.phase = "save"]
    /\ UNCHANGED <<meta, degraded, outcome, fsPolicy, crashes, changes>>

-----------------------------------------------------------------------------
(* persist_meta, and what may go wrong.                                    *)

\* Mutant: the metadata is not saved after the last step.
SaveMetaUnlessLast ==
    /\ run.step # 0 /\ run.phase \in {"start", "save"}
    /\ meta' = IF run.step = Finalise THEN meta ELSE [meta EXCEPT ![run.t] = mem]
    /\ IF run.phase = "start"
       THEN run' = [run EXCEPT !.phase = "op"] /\ UNCHANGED <<degraded, outcome>>
       ELSE Goto(NextStep(mem, run.step), mem)
    /\ UNCHANGED <<disk, env>>

\* The metadata is written: at the start of Finalise, or after a step.
SaveMeta ==
    /\ run.step # 0 /\ run.phase \in {"start", "save"}
    /\ meta' = [meta EXCEPT ![run.t] = mem]
    /\ IF run.phase = "start"
       THEN run' = [run EXCEPT !.phase = "op"] /\ UNCHANGED <<degraded, outcome>>
       ELSE Goto(NextStep(mem, run.step), mem)
    /\ UNCHANGED <<disk, env>>

\* fs::write truncates the file before it writes it.
WriteInterrupted ==
    /\ TornWrites /\ run.phase \in {"start", "save"}
    /\ meta' = [meta EXCEPT ![run.t] = TornFile]

\* Operations that return an error when the file system or a tool does; what
\* Cleanup and Finalise cannot remove they only log.
DoesIO == run.phase # "op" \/ run.step \in {PrepareDirectories, VerifyPar2,
            PrepareWorkDir, Extract, Flatten, Transfer, SetPermissions, Checksum}

\* An I/O error in a step, or in saving its result, ends the pipeline.
IoError ==
    /\ run.step # 0 /\ DoesIO /\ faults < MaxFaults
    /\ faults' = faults + 1
    /\ Fail(run.t)
    /\ WriteInterrupted \/ UNCHANGED meta
    /\ UNCHANGED <<disk, fsPolicy, crashes, changes>>

\* TorrentOrchestrator::update_fs_policy; a running pipeline keeps its snapshot.
UpdateFsPolicy ==
    /\ changes < MaxPolicyChanges
    /\ changes' = changes + 1
    /\ fsPolicy' \in Policies \ {fsPolicy}
    /\ UNCHANGED <<disk, meta, run, degraded, outcome, crashes, faults>>

\* The process dies; the degraded flag and the pipeline die with it.
Crash ==
    /\ run.step # 0 /\ crashes < MaxCrashes
    /\ crashes' = crashes + 1
    /\ run' = Idle /\ degraded' = FALSE
    /\ WriteInterrupted \/ UNCHANGED meta
    /\ UNCHANGED <<disk, outcome, fsPolicy, faults, changes>>

-----------------------------------------------------------------------------
Init ==
    /\ \E form \in [Torrents -> Forms], nested \in [Torrents -> BOOLEAN] :
         disk = [p \in Places |->
           IF \E t \in Torrents : p = SourcePath(t)
           THEN LET t == CHOOSE u \in Torrents : p = SourcePath(u) IN
                [of |-> t, form |-> form[t], state |-> "whole",
                 nested |-> form[t] = "dir" /\ nested[t]]
           ELSE Absent]
    /\ meta = [t \in Torrents |-> NoFile]
    /\ run = Idle
    /\ degraded = FALSE
    /\ outcome = [t \in Torrents |-> "none"]
    /\ fsPolicy \in Policies
    /\ crashes = 0 /\ faults = 0 /\ changes = 0

PipelineStep ==
    \/ RunValidatePolicy \/ RunAllowlist \/ RunPrepareDirectories
    \/ RunCompileRules \/ RunLocateSource \/ RunVerifyPar2
    \/ RunPrepareWorkDir \/ RunExtract \/ ExtractArchive \/ RunFlatten
    \/ RunTransfer \/ TransferUnsupported \/ TransferMissing \/ TransferRename
    \/ TransferBegin \/ TransferEnd \/ TransferRemoveBegin \/ TransferRemoveEnd
    \/ RunSetPermissions \/ RunCleanup \/ RunChecksum \/ RunFinalise
    \/ SaveMeta

Next ==
    \/ \E t \in Torrents : Apply(t)
    \/ PipelineStep
    \/ UpdateFsPolicy
    \/ IoError
    \/ Crash

Spec == Init /\ [][Next]_vars

\* A pipeline that was started runs: its steps are synchronous calls.
FairSpec == Spec /\ WF_vars(PipelineStep)

-----------------------------------------------------------------------------
(* Torrents that do not share a place in the library: the hypothesis of    *)
(* what is proved about their payloads.                                    *)

\* Extracted archives all go to one entry of the library.
Extracts == \E p \in Policies : p.extract

\* The places that a pipeline of the torrent may change.
Own(t) == {SourcePath(t), Ext(t), Lib(FileName[t]), Lib(InnerName[t])}
            \cup (IF Extracts THEN {Lib(Extracted)} ELSE {})

\* No two torrents share a place, and a directory downloaded into the library
\* does not hold one of its own name.
NamesApart ==
    /\ \A t, u \in Torrents : t # u => Own(t) \cap Own(u) = {}
    /\ \A t \in InLibrary : InnerName[t] # FileName[t]

-----------------------------------------------------------------------------
(* Properties.                                                             *)

\* Every variable has its type: in particular a pipeline in progress always has
\* a staging path, through every resume.
TypeOK ==
    /\ disk \in [Places -> Content \cup {Absent}]
    /\ meta \in [Torrents -> MetaType \cup {NoFile, TornFile}]
    /\ run \in {Idle} \cup RunType
    /\ degraded \in BOOLEAN
    /\ outcome \in [Torrents -> {"none", "completed", "failed"}]
    /\ fsPolicy \in Policies
    /\ crashes \in 0..MaxCrashes /\ faults \in 0..MaxFaults
    /\ changes \in 0..MaxPolicyChanges

Readable(t) == meta[t] \notin {NoFile, TornFile}
Completed(t) == Readable(t) /\ meta[t].completed

HoldsAll(place, t) == /\ disk[place] # Absent
                      /\ disk[place].of = t /\ disk[place].state = "whole"

\* FsopsCompleted is published only for work that is recorded on disk as
\* completed, and stays so through later failures, crashes and retries.
CompletedIsDurable ==
    \A t \in Torrents : outcome[t] = "completed" => Completed(t)

\* Nothing has interrupted a run.
Uninterrupted == crashes = 0 /\ faults = 0

\* The policy has never been changed and is not to move, so no run has moved a
\* download.
NothingMoved == changes = 0 /\ fsPolicy.move_mode # "move"

\* The torrent's payload is where its completed metadata says, and somewhere.
IsPlaced(t) == Completed(t) => meta[t].artifact # NoPath /\ HoldsAll(meta[t].artifact.at, t)
IsKept(t) == \E p \in Places : HoldsAll(p, t)

\* Until a run is interrupted, whatever other pipelines did and however the
\* policy changed, metadata that says `completed` names an artifact, and all of
\* the torrent's payload is there.  An interrupted move breaks it.
CompletedIsPlaced == Uninterrupted => \A t \in Torrents : IsPlaced(t)

\* The checksums in completed metadata are those of the artifact as the
\* pipeline left it: no later step or resumed run changes what was summed,
\* unless a resumed run met other cleanup rules.
ChecksumsCurrent ==
    Uninterrupted \/ changes = 0 =>
      \A t \in Torrents : Completed(t) => meta[t].checksums = disk[meta[t].artifact.at]

\* At every moment, also half-way through a step, a complete copy of each
\* payload is on disk.  It holds as long as nothing interrupts a run; a crash in
\* the middle of a move breaks it.
PayloadKept == \A t \in Torrents : IsKept(t)

\* For a download into the library Transfer is skipped and so runs again on a
\* resume.  If the rules have by then left one nested directory, Flatten makes
\* that the staging path, and Transfer removes the artifact around it.
FlattensLate(t) == t \in InLibrary /\ fsPolicy.flatten /\ fsPolicy.rules

\* Both hold through every crash and I/O error under one policy that copies or
\* links and does not flatten late, and in every mode and through every change
\* of the policy as long as nothing interrupts a run.  Nothing is said of runs
\* that are interrupted once the policy has changed: the one before may have
\* been to move.
SafeUnlessMoveInterrupted ==
    \A t \in Torrents :
      Uninterrupted \/ (NothingMoved /\ ~FlattensLate(t)) => IsPlaced(t) /\ IsKept(t)

\* Once a torrent is completed no run, of it or of another torrent, changes
\* its metadata or what is at its artifact path.
CompletedIsFinal ==
    [][\A t \in Torrents : Completed(t) =>
          /\ meta'[t] = meta[t]
          /\ disk'[meta[t].artifact.at] = disk[meta[t].artifact.at]]_vars

Resumable(t) ==
    /\ meta[t] # TornFile
    /\ NothingMoved /\ fsPolicy.allowed /\ fsPolicy.move_mode # "unsupported"
    /\ fsPolicy.extract => disk[SourcePath(t)].form # "file"

\* A torrent whose processing is attempted again and again is completed in
\* the end, once crashes and I/O errors stop: no interruption leaves behind a
\* state that the resumed pipeline cannot get out of, unless it is a metadata
\* file cut short, a move, or a policy that rejects the torrent.
RetriesComplete ==
    \A t \in Torrents :
      []<>(run.step # 0 /\ run.t = t) => <>(Completed(t) \/ ~Resumable(t))
=============================================================================
