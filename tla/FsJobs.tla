------------------------------- MODULE FsJobs -------------------------------
(***************************************************************************)
(* The database record of filesystem jobs: FsOpsService::apply reports the *)
(* start and the outcome of each call to revaer_runtime.fs_jobs, but every *)
(* report is a tokio task of its own that `apply` does not wait for, so    *)
(* the writes of one call, and of successive calls, land in any order.     *)
(*                                                                         *)
(* One torrent is modelled: the rows of different torrents share nothing.  *)
(* An error message is the number of the call that failed.                 *)
(***************************************************************************)
EXTENDS Naturals

CONSTANTS
    MaxApplies,   \* bound: calls of `apply`
    MaxErrors,    \* bound: database calls that fail
    MaxRemovals,  \* bound: removals of the torrent
    MaxCrashes    \* bound: process crashes

ASSUME BoundsAssumption ==
    /\ MaxApplies \in Nat /\ MaxErrors \in Nat
    /\ MaxRemovals \in Nat /\ MaxCrashes \in Nat

VARIABLES
    applying,  \* whether a call of `apply` is in progress
    calls,     \* the number of calls so far
    last,      \* the outcome of the last call that returned, if the torrent has
               \* not been removed since
    outcomes,  \* history: the outcomes of all calls that returned
    tasks,     \* the spawned tasks that have not ended
    torrent,   \* whether the torrent has a row in revaer_runtime.torrents
    row,       \* the torrent's row in revaer_runtime.fs_jobs
    errors, removals, crashes

bounds == <<errors, removals, crashes>>
vars == <<applying, calls, last, outcomes, tasks, torrent, row, bounds>>

-----------------------------------------------------------------------------
NoError == 0
NoRow == [status |-> "none", last_error |-> NoError]
RowType == [status : {"none", "moving", "moved", "failed"}, last_error : Nat]

\* A task is the call that spawned it, what it reports and its next statement.
TaskType == [call : Nat, kind : {"started", "completed", "failed"},
             pc : {"inspect", "seed", "write"}]
Task(kind, pc) == [call |-> calls', kind |-> kind, pc |-> pc]

-----------------------------------------------------------------------------
(* The stored procedures.  A row refers to the torrent: inserting one for  *)
(* a torrent that is not there is an error.                                *)

\* Mutant: the procedure before migration 0121.
MarkStartedBefore0121(r) ==
    [status |-> IF r.status = "moved" THEN "moved" ELSE "moving",
     last_error |-> NoError]

\* mark_fs_job_started leaves an outcome alone.
MarkStarted(r) ==
    [status |-> IF r.status \in {"moved", "failed"} THEN r.status ELSE "moving",
     last_error |-> IF r.status = "failed" THEN r.last_error ELSE NoError]

\* Mutant: the error of an earlier failure is kept.
MarkCompletedKeepingError(r) == [status |-> "moved", last_error |-> r.last_error]

MarkCompleted(r) == [status |-> "moved", last_error |-> NoError]

\* mark_fs_job_failed only updates: without a row it does nothing.
MarkFailed(r, call) ==
    IF r = NoRow THEN NoRow ELSE [status |-> "failed", last_error |-> call]

Upsert(new) == row' = IF torrent THEN new ELSE row

-----------------------------------------------------------------------------
(* FsOpsService::apply.                                                    *)

\* The orchestrator stores the torrent's status, then calls `apply`, which
\* first spawns the report of its start.
Start ==
    /\ ~applying /\ calls < MaxApplies
    /\ applying' = TRUE
    /\ calls' = calls + 1
    /\ \/ torrent' = TRUE /\ UNCHANGED errors
       \/ errors < MaxErrors /\ errors' = errors + 1 /\ UNCHANGED torrent
    /\ tasks' = tasks \cup {Task("started", "write")}
    /\ UNCHANGED <<last, outcomes, row, removals, crashes>>

\* execute_pipeline returned Ok: record_job_completed.
FinishOk ==
    /\ applying /\ applying' = FALSE
    /\ last' = "completed" /\ outcomes' = outcomes \cup {"completed"}
    /\ UNCHANGED <<calls, torrent, row, bounds>>
    /\ tasks' = tasks \cup {Task("completed", "write")}

\* Mutant: the failure is reported, and then reported again.
FinishErrTwice ==
    /\ applying /\ UNCHANGED applying
    /\ last' = "failed" /\ outcomes' = outcomes \cup {"failed"}
    /\ UNCHANGED <<calls, torrent, row, bounds>>
    /\ tasks' = tasks \cup {Task("failed", "inspect")}

\* execute_pipeline returned Err: record_job_failed.
FinishErr ==
    /\ applying /\ applying' = FALSE
    /\ last' = "failed" /\ outcomes' = outcomes \cup {"failed"}
    /\ UNCHANGED <<calls, torrent, row, bounds>>
    /\ tasks' = tasks \cup {Task("failed", "inspect")}

-----------------------------------------------------------------------------
(* The spawned tasks, one database call per step.                          *)

End(task) == tasks' = tasks \ {task}
Continue(task, pc) == tasks' = (tasks \ {task}) \cup {[task EXCEPT !.pc = pc]}

Write(task) ==
    /\ task.pc = "write"
    /\ \/ task.kind = "started" /\ Upsert(MarkStarted(row))
       \/ task.kind = "completed" /\ Upsert(MarkCompleted(row))
       \/ task.kind = "failed" /\ row' = MarkFailed(row, task.call)
    /\ End(task)
    /\ UNCHANGED <<applying, calls, last, outcomes, torrent, bounds>>

\* Mutant: the failure is written without looking for a row first.
InspectNothing(task) ==
    /\ task.pc = "inspect"
    /\ Continue(task, "write")
    /\ UNCHANGED <<applying, calls, last, outcomes, torrent, row, bounds>>

\* record_job_failed looks whether there is a row to update ...
Inspect(task) ==
    /\ task.pc = "inspect"
    /\ Continue(task, IF row = NoRow THEN "seed" ELSE "write")
    /\ UNCHANGED <<applying, calls, last, outcomes, torrent, row, bounds>>

\* ... and inserts one if not.
Seed(task) ==
    /\ task.pc = "seed"
    /\ Upsert(MarkStarted(row))
    /\ Continue(task, "write")
    /\ UNCHANGED <<applying, calls, last, outcomes, torrent, bounds>>

\* A database call fails: that is logged, and the task goes on to its next one.
DatabaseError(task) ==
    /\ errors < MaxErrors /\ errors' = errors + 1
    /\ \/ task.pc = "write" /\ End(task)
       \/ task.pc = "inspect" /\ Continue(task, "seed")
       \/ task.pc = "seed" /\ Continue(task, "write")
    /\ UNCHANGED <<applying, calls, last, outcomes, torrent, row, removals, crashes>>

-----------------------------------------------------------------------------
(* What happens to the torrent and to the process.                         *)

\* The orchestrator, which runs `apply` itself, removes the torrent's row;
\* ON DELETE CASCADE takes the job with it.
RemoveTorrent ==
    /\ ~applying /\ torrent /\ removals < MaxRemovals
    /\ removals' = removals + 1
    /\ torrent' = FALSE /\ row' = NoRow /\ last' = "none"
    /\ UNCHANGED <<applying, calls, outcomes, tasks, errors, crashes>>

\* The orchestrator stores the status at any other event of the torrent.
UpsertTorrent ==
    /\ ~applying /\ ~torrent
    /\ torrent' = TRUE
    /\ UNCHANGED <<applying, calls, last, outcomes, tasks, row, bounds>>

\* The process dies, and with it the tasks that have not run.
Crash ==
    /\ crashes < MaxCrashes /\ crashes' = crashes + 1
    /\ tasks' = {} /\ applying' = FALSE
    /\ UNCHANGED <<calls, last, outcomes, torrent, row, errors, removals>>

-----------------------------------------------------------------------------
Init ==
    /\ applying = FALSE
    /\ calls = 0
    /\ last = "none" /\ outcomes = {}
    /\ tasks = {}
    /\ torrent \in BOOLEAN
    /\ row = NoRow
    /\ errors = 0 /\ removals = 0 /\ crashes = 0

Next ==
    \/ Start \/ FinishOk \/ FinishErr
    \/ \E task \in tasks : Write(task) \/ Inspect(task) \/ Seed(task) \/ DatabaseError(task)
    \/ RemoveTorrent \/ UpsertTorrent \/ Crash

Spec == Init /\ [][Next]_vars

\* The tokio runtime polls every spawned task, and the pipeline ends.
FairSpec == /\ Spec
            /\ WF_vars(\E task \in tasks : Write(task) \/ Inspect(task) \/ Seed(task))
            /\ WF_vars(FinishOk \/ FinishErr)

-----------------------------------------------------------------------------
(* Properties.                                                             *)

\* Every variable has its type; at most one task per call and report exists.
TypeOK ==
    /\ applying \in BOOLEAN
    /\ calls \in 0..MaxApplies
    /\ last \in {"none", "completed", "failed"}
    /\ outcomes \subseteq {"completed", "failed"}
    /\ tasks \subseteq TaskType
    /\ \A x, y \in tasks : x.call = y.call /\ x.kind = y.kind => x = y
    /\ torrent \in BOOLEAN
    /\ row \in RowType
    /\ errors \in 0..MaxErrors /\ removals \in 0..MaxRemovals
    /\ crashes \in 0..MaxCrashes

Settled == ~applying /\ tasks = {}
Reliable == errors = 0 /\ crashes = 0

\* The status that reports an outcome.
StatusOf(outcome) == IF outcome = "completed" THEN "moved" ELSE "failed"

\* However the writes of a call and of its predecessors were ordered, once
\* they have landed the row of a job that returned shows the outcome of a
\* call: a late report of a start never leaves it at 'moving', and a failure
\* is not lost for want of a row.
SettledHasOutcome ==
    Settled /\ Reliable /\ last # "none" =>
      row.status \in {StatusOf(o) : o \in outcomes}

\* last_error is there exactly when the status is 'failed', in every
\* interleaving, with errors, removals and crashes: and it is the message of
\* a call that was made.
ErrorIffFailed ==
    /\ row.status = "failed" <=> row.last_error # NoError
    /\ row.last_error \in 0..calls

\* A call that returned is eventually recorded as ended.
OutcomeIsRecorded ==
    last # "none" ~> (row.status \in {"moved", "failed"} \/ last = "none" \/ ~Reliable)
=============================================================================
