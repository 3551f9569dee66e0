---------------------------- MODULE FsJobsProofs ----------------------------
(***************************************************************************)
(* Proofs about the job records, for any number of calls, database errors, *)
(* removals and crashes.                                                   *)
(***************************************************************************)
EXTENDS FsJobs, TLAPS

-----------------------------------------------------------------------------
\* What each stored procedure makes of a row.
LEMMA RowProperties ==
  ASSUME NEW r \in RowType, NEW c \in Nat
  PROVE  /\ MarkStarted(r) \in RowType /\ MarkCompleted(r) \in RowType
         /\ MarkFailed(r, c) \in RowType
         /\ MarkStarted(r).status # "none"
         /\ r.status \in {"moved", "failed"} => MarkStarted(r).status = r.status
  BY DEF RowType, MarkStarted, MarkCompleted, MarkFailed, NoRow, NoError

\* The type of the state without the bounds on the counters' history.
StateOK ==
    /\ applying \in BOOLEAN
    /\ calls \in 0..MaxApplies
    /\ last \in {"none", "completed", "failed"}
    /\ outcomes \subseteq {"completed", "failed"}
    /\ tasks \subseteq TaskType
    /\ torrent \in BOOLEAN
    /\ row \in RowType
    /\ errors \in 0..MaxErrors /\ removals \in 0..MaxRemovals
    /\ crashes \in 0..MaxCrashes

\* A task belongs to a call that was made, and an outcome of the call in
\* progress has no task yet: that makes the tasks unique.
TasksOK ==
    /\ applying => calls # 0
    /\ \A x \in tasks : x.call \in 1..calls
    /\ \A x \in tasks : x.call = calls /\ applying => x.kind = "started"
    /\ \A x \in tasks : x.kind \in {"started", "completed"} => x.pc = "write"
    /\ \A x, y \in tasks : x.call = y.call /\ x.kind = y.kind => x = y

\* The absent row is a row.
LEMMA EmptyRow == NoRow \in RowType
  BY DEF NoRow, RowType, NoError

\* The invariants hold at the start.
LEMMA InitOK == Init => StateOK /\ TasksOK
<1> SUFFICES ASSUME Init PROVE StateOK /\ TasksOK
  OBVIOUS
<1>1. applying \in BOOLEAN /\ torrent \in BOOLEAN /\ row \in RowType
  BY EmptyRow DEF Init
<1>2. calls \in 0..MaxApplies /\ errors \in 0..MaxErrors
      /\ removals \in 0..MaxRemovals /\ crashes \in 0..MaxCrashes
  BY BoundsAssumption DEF Init
<1>3. last \in {"none", "completed", "failed"} /\ outcomes \subseteq {"completed", "failed"}
      /\ tasks \subseteq TaskType
  BY DEF Init
<1>4. TasksOK
  BY DEF Init, TasksOK
<1> QED BY <1>1, <1>2, <1>3, <1>4 DEF StateOK

\* A task that goes on to its next database call stays the task it was.
LEMMA ContinueOK ==
  ASSUME StateOK, TasksOK, NEW task \in tasks, task.kind = "failed",
         NEW pc \in {"inspect", "seed", "write"}, Continue(task, pc),
         UNCHANGED <<calls, applying>>
  PROVE  tasks' \subseteq TaskType /\ TasksOK'
<1> DEFINE new == [task EXCEPT !.pc = pc]
<1>1. tasks' = (tasks \ {task}) \cup {new}
  BY DEF Continue
<1>2. task \in TaskType
  BY DEF StateOK
<1>3. new \in TaskType /\ new.call = task.call /\ new.kind = "failed"
  BY <1>2 DEF TaskType
<1> HIDE DEF new
<1> QED BY <1>1, <1>2, <1>3 DEF StateOK, TasksOK

\* The type invariant is inductive with TasksOK.
LEMMA TypeInductive == StateOK /\ TasksOK /\ [Next]_vars => StateOK' /\ TasksOK'
<1> SUFFICES ASSUME StateOK, TasksOK, [Next]_vars PROVE StateOK' /\ TasksOK'
  OBVIOUS
<1> USE BoundsAssumption
<1>1. ASSUME Start PROVE StateOK' /\ TasksOK'
  <2> DEFINE new == [call |-> calls + 1, kind |-> "started", pc |-> "write"]
  <2>1. tasks' = tasks \cup {new} /\ calls' = calls + 1
    BY <1>1 DEF Start, Task
  <2>2. new \in TaskType /\ new.call = calls + 1 /\ new.kind = "started" /\ new.pc = "write"
    BY DEF TaskType, StateOK
  <2>3. \A x \in tasks : x.call \in 1..calls /\ x.call # calls + 1
    BY DEF StateOK, TasksOK
  <2> HIDE DEF new
  <2>4. StateOK'
    <3>1. torrent' \in BOOLEAN /\ applying' \in BOOLEAN
      BY <1>1 DEF Start, StateOK
    <3>2. calls' \in 0..MaxApplies /\ errors' \in 0..MaxErrors
      BY <1>1 DEF Start, StateOK
    <3> QED BY <1>1, <2>1, <2>2, <3>1, <3>2 DEF Start, StateOK
  <2>5. TasksOK'
    BY <2>1, <2>2, <2>3 DEF TasksOK, StateOK
  <2> QED BY <2>4, <2>5
<1>2. ASSUME FinishOk PROVE StateOK' /\ TasksOK'
  <2> DEFINE new == [call |-> calls, kind |-> "completed", pc |-> "write"]
  <2>1. tasks' = tasks \cup {new} /\ calls' = calls /\ applying /\ ~applying'
    BY <1>2 DEF FinishOk, Task
  <2>2. new \in TaskType /\ new.call = calls /\ new.kind = "completed" /\ new.pc = "write"
    BY DEF TaskType, StateOK
  <2>3. calls \in 1..calls
    BY <2>1 DEF StateOK, TasksOK
  <2> HIDE DEF new
  <2>4. StateOK'
    BY <1>2, <2>1, <2>2 DEF FinishOk, StateOK, bounds
  <2>5. \A x \in tasks : x.call = calls => x.kind = "started"
    BY <2>1 DEF TasksOK
  <2>6. TasksOK'
    BY <2>1, <2>2, <2>3, <2>5 DEF TasksOK
  <2> QED BY <2>4, <2>6
<1>3. ASSUME FinishErr PROVE StateOK' /\ TasksOK'
  <2> DEFINE new == [call |-> calls, kind |-> "failed", pc |-> "inspect"]
  <2>1. tasks' = tasks \cup {new} /\ calls' = calls /\ applying /\ ~applying'
    BY <1>3 DEF FinishErr, Task
  <2>2. new \in TaskType /\ new.call = calls /\ new.kind = "failed" /\ new.pc = "inspect"
    BY DEF TaskType, StateOK
  <2>3. calls \in 1..calls
    BY <2>1 DEF StateOK, TasksOK
  <2> HIDE DEF new
  <2>4. StateOK'
    BY <1>3, <2>1, <2>2 DEF FinishErr, StateOK, bounds
  <2>5. \A x \in tasks : x.call = calls => x.kind = "started"
    BY <2>1 DEF TasksOK
  <2>6. TasksOK'
    BY <2>1, <2>2, <2>3, <2>5 DEF TasksOK
  <2> QED BY <2>4, <2>6
<1>4. ASSUME NEW task \in tasks, Write(task) PROVE StateOK' /\ TasksOK'
  <2>1. row' \in RowType
    BY <1>4, RowProperties DEF Write, Upsert, StateOK, TaskType
  <2> QED BY <1>4, <2>1 DEF Write, End, StateOK, TasksOK, bounds
<1>5. ASSUME NEW task \in tasks, Inspect(task) PROVE StateOK' /\ TasksOK'
  <2>1. task.kind = "failed" /\ UNCHANGED <<calls, applying>>
    BY <1>5 DEF Inspect, StateOK, TasksOK, TaskType
  <2>2. tasks' \subseteq TaskType /\ TasksOK'
    BY <1>5, <2>1, ContinueOK DEF Inspect
  <2> QED BY <1>5, <2>2 DEF Inspect, StateOK, bounds
<1>6. ASSUME NEW task \in tasks, Seed(task) PROVE StateOK' /\ TasksOK'
  <2>1. row' \in RowType
    BY <1>6, RowProperties DEF Seed, Upsert, StateOK
  <2>2. task.kind = "failed" /\ UNCHANGED <<calls, applying>>
    BY <1>6 DEF Seed, StateOK, TasksOK, TaskType
  <2>3. tasks' \subseteq TaskType /\ TasksOK'
    BY <1>6, <2>2, ContinueOK DEF Seed
  <2> QED BY <1>6, <2>1, <2>3 DEF Seed, StateOK, bounds
<1>7. ASSUME NEW task \in tasks, DatabaseError(task) PROVE StateOK' /\ TasksOK'
  <2>1. CASE End(task)
    BY <1>7, <2>1 DEF DatabaseError, End, StateOK, TasksOK
  <2>2. ASSUME NEW pc \in {"seed", "write"}, task.pc # "write", Continue(task, pc)
        PROVE  StateOK' /\ TasksOK'
    <3>1. task.kind = "failed" /\ UNCHANGED <<calls, applying>>
      BY <1>7, <2>2 DEF DatabaseError, StateOK, TasksOK, TaskType
    <3>2. tasks' \subseteq TaskType /\ TasksOK'
      BY <2>2, <3>1, ContinueOK
    <3> QED BY <1>7, <3>2 DEF DatabaseError, StateOK
  <2> QED BY <1>7, <2>1, <2>2 DEF DatabaseError
<1>8. ASSUME RemoveTorrent PROVE StateOK' /\ TasksOK'
  <2>1. torrent' \in BOOLEAN /\ row' \in RowType
    BY <1>8, EmptyRow DEF RemoveTorrent
  <2>2. removals' \in 0..MaxRemovals
    BY <1>8 DEF RemoveTorrent, StateOK
  <2> QED BY <1>8, <2>1, <2>2 DEF RemoveTorrent, StateOK, TasksOK
<1>9. ASSUME UpsertTorrent PROVE StateOK' /\ TasksOK'
  BY <1>9 DEF UpsertTorrent, StateOK, TasksOK, bounds
<1>10. ASSUME Crash PROVE StateOK' /\ TasksOK'
  <2>1. applying' \in BOOLEAN /\ tasks' = {}
    BY <1>10 DEF Crash
  <2>2. crashes' \in 0..MaxCrashes
    BY <1>10 DEF Crash, StateOK
  <2>3. StateOK'
    BY <1>10, <2>1, <2>2 DEF Crash, StateOK
  <2> QED BY <1>10, <2>1, <2>3 DEF Crash, TasksOK
<1>11. CASE UNCHANGED vars
  BY <1>11 DEF vars, bounds, StateOK, TasksOK
<1> QED
  BY <1>1, <1>2, <1>3, <1>4, <1>5, <1>6, <1>7, <1>8, <1>9, <1>10, <1>11 DEF Next

\* Every state has its type, and no two tasks report the same thing of the
\* same call.
THEOREM TypeCorrect == Spec => []TypeOK
<1>1. Init => StateOK /\ TasksOK
  BY InitOK
<1>2. StateOK /\ TasksOK => TypeOK
  BY DEF StateOK, TasksOK, TypeOK
<1> QED BY <1>1, <1>2, TypeInductive, PTL DEF Spec

-----------------------------------------------------------------------------
\* A row has an error exactly when its status is 'failed', whatever the order
\* of the spawned writes and whichever of them are lost.
THEOREM ErrorMatchesStatus == Spec => []ErrorIffFailed
<1>1. Init => StateOK /\ TasksOK /\ ErrorIffFailed
  BY InitOK DEF Init, NoRow, NoError, ErrorIffFailed
<1>2. StateOK /\ TasksOK /\ ErrorIffFailed /\ [Next]_vars => ErrorIffFailed'
  <2> SUFFICES ASSUME StateOK, TasksOK, ErrorIffFailed, [Next]_vars
               PROVE  ErrorIffFailed'
    OBVIOUS
  <2>1. CASE row' = row /\ calls' \in {calls, calls + 1}
    BY <2>1 DEF ErrorIffFailed, StateOK
  <2>2. CASE row' = MarkStarted(row) /\ calls' = calls
    BY <2>2 DEF MarkStarted, ErrorIffFailed, NoError, StateOK, RowType
  <2>3. CASE row' = MarkCompleted(row) /\ calls' = calls
    BY <2>3 DEF MarkCompleted, ErrorIffFailed, NoError, StateOK, RowType
  <2>4. CASE /\ calls' = calls
             /\ \E task \in tasks : row' = MarkFailed(row, task.call)
    BY <2>4 DEF MarkFailed, NoRow, ErrorIffFailed, NoError, StateOK, TasksOK, RowType
  <2>5. CASE row' = NoRow /\ calls' = calls
    BY <2>5 DEF NoRow, ErrorIffFailed, NoError, StateOK
  <2> QED
    BY <2>1, <2>2, <2>3, <2>4, <2>5
    DEF Next, Start, FinishOk, FinishErr, Write, Inspect, Seed, DatabaseError, Upsert,
        RemoveTorrent, UpsertTorrent, Crash, vars, bounds, StateOK
<1> QED BY <1>1, <1>2, TypeInductive, TypeCorrect, PTL DEF Spec
-----------------------------------------------------------------------------
\* A task that will still give the row an outcome: a failure that has looked
\* for a row found one, or has inserted one.
Reports(x) == x.kind = "completed" \/ (x.kind = "failed" /\ (x.pc = "write" => row.status # "none"))

\* While no database call failed and the process did not crash: the torrent
\* is there for a call and after it, statuses and tasks report outcomes that
\* were reached, and a call that returned is in the row or has a task that
\* will put it there.
OutcomeInv ==
    /\ applying \/ last # "none" => torrent
    /\ row.status = "moved" => "completed" \in outcomes
    /\ row.status = "failed" => "failed" \in outcomes
    /\ \A x \in tasks : x.kind \in {"completed", "failed"} => x.kind \in outcomes
    /\ last # "none" => \/ row.status \in {"moved", "failed"}
                       \/ \E x \in tasks : Reports(x)

\* OutcomeInv is inductive as long as nothing fails.
LEMMA OutcomeInductive ==
  ASSUME StateOK, TasksOK, ErrorIffFailed, Reliable => OutcomeInv, [Next]_vars, Reliable'
  PROVE  OutcomeInv'
<1>0. Reliable /\ OutcomeInv
  BY DEF Reliable, Next, Start, FinishOk, FinishErr, Write, Inspect, Seed, DatabaseError,
         RemoveTorrent, UpsertTorrent, Crash, vars, bounds, StateOK
<1>1. ASSUME Start PROVE OutcomeInv'
  BY <1>0, <1>1 DEF Start, Task, Reliable, OutcomeInv, Reports, StateOK
<1>2. ASSUME FinishOk PROVE OutcomeInv'
  <2> DEFINE new == [call |-> calls, kind |-> "completed", pc |-> "write"]
  <2>1. /\ tasks' = tasks \cup {new} /\ torrent' = torrent /\ row' = row /\ applying
        /\ outcomes' = outcomes \cup {"completed"}
    BY <1>2 DEF FinishOk, Task
  <2>2. new.kind = "completed" /\ new.pc = "write" /\ new \in tasks'
    BY <2>1
  <2> HIDE DEF new
  <2>3. \E x \in tasks' : Reports(x)'
    BY <2>2 DEF Reports
  <2>4. \A x \in tasks' : x.kind \in {"completed", "failed"} => x.kind \in outcomes'
    BY <1>0, <2>1, <2>2 DEF OutcomeInv
  <2> QED BY <1>0, <2>1, <2>3, <2>4 DEF OutcomeInv, Reports
<1>3. ASSUME FinishErr PROVE OutcomeInv'
  <2> DEFINE new == [call |-> calls, kind |-> "failed", pc |-> "inspect"]
  <2>1. /\ tasks' = tasks \cup {new} /\ torrent' = torrent /\ row' = row /\ applying
        /\ outcomes' = outcomes \cup {"failed"}
    BY <1>3 DEF FinishErr, Task
  <2>2. new.kind = "failed" /\ new.pc = "inspect" /\ new \in tasks'
    BY <2>1
  <2> HIDE DEF new
  <2>3. \E x \in tasks' : Reports(x)'
    BY <2>2 DEF Reports
  <2>4. \A x \in tasks' : x.kind \in {"completed", "failed"} => x.kind \in outcomes'
    BY <1>0, <2>1, <2>2 DEF OutcomeInv
  <2> QED BY <1>0, <2>1, <2>3, <2>4 DEF OutcomeInv, Reports
<1>4. ASSUME NEW task \in tasks, Write(task) PROVE OutcomeInv'
  <2>1. /\ tasks' = tasks \ {task} /\ task.pc = "write"
        /\ UNCHANGED <<applying, last, outcomes, torrent>>
    BY <1>4 DEF Write, End
  <2>2. CASE task.kind = "started"
    <3>1. row' = row \/ row' = MarkStarted(row)
      BY <1>4, <2>2 DEF Write, Upsert
    <3>2. /\ row.status \in {"moved", "failed"} => row'.status = row.status
          /\ row.status # "none" => row'.status # "none"
          /\ row'.status \in {"moved", "failed"} => row'.status = row.status
      BY <3>1 DEF MarkStarted, StateOK, RowType
    <3> QED BY <1>0, <2>1, <2>2, <3>2 DEF OutcomeInv, Reports
  <2>3. CASE task.kind = "completed"
    <3>1. row' = IF torrent THEN MarkCompleted(row) ELSE row
      BY <1>4, <2>3 DEF Write, Upsert
    <3> QED BY <1>0, <2>1, <2>3, <3>1 DEF OutcomeInv, MarkCompleted
  <2>4. CASE task.kind = "failed"
    <3>1. row' = MarkFailed(row, task.call)
      BY <1>4, <2>4 DEF Write
    <3>2. CASE row = NoRow
      BY <1>0, <2>1, <2>4, <3>1, <3>2 DEF OutcomeInv, Reports, MarkFailed, NoRow
    <3>3. CASE row # NoRow
      BY <1>0, <2>1, <2>4, <3>1, <3>3 DEF OutcomeInv, MarkFailed
    <3> QED BY <3>2, <3>3
  <2> QED BY <2>2, <2>3, <2>4 DEF StateOK, TaskType
<1>5. ASSUME NEW task \in tasks, NEW pc \in {"seed", "write"},
             task.kind = "failed", Continue(task, pc),
             pc = "write" /\ torrent => row'.status # "none",
             row.status # "none" => row'.status # "none",
             row.status \in {"moved", "failed"} => row'.status = row.status,
             row'.status \in {"moved", "failed"} => row'.status = row.status,
             UNCHANGED <<applying, last, outcomes, torrent>>
      PROVE  OutcomeInv'
  <2> DEFINE new == [task EXCEPT !.pc = pc]
  <2>1. tasks' = (tasks \ {task}) \cup {new}
    BY <1>5 DEF Continue
  <2>2. new.kind = "failed" /\ new.pc = pc
    BY <1>5 DEF StateOK, TaskType
  <2> HIDE DEF new
  <2>3. last # "none" => Reports(new)'
    BY <1>0, <1>5, <2>2 DEF Reports, OutcomeInv
  <2> QED BY <1>0, <1>5, <2>1, <2>2, <2>3 DEF OutcomeInv
<1>6. ASSUME NEW task \in tasks, Inspect(task) PROVE OutcomeInv'
  <2>1. task.kind = "failed"
    BY <1>6 DEF Inspect, StateOK, TasksOK, TaskType
  <2>2. row # NoRow => row.status # "none"
    BY DEF ErrorIffFailed, NoRow, StateOK, RowType
  <2> QED BY <1>5, <1>6, <2>1, <2>2 DEF Inspect
<1>7. ASSUME NEW task \in tasks, Seed(task) PROVE OutcomeInv'
  <2>1. task.kind = "failed"
    BY <1>7 DEF Seed, StateOK, TasksOK, TaskType
  <2>2. row' = IF torrent THEN MarkStarted(row) ELSE row
    BY <1>7 DEF Seed, Upsert
  <2>3. /\ torrent => row'.status # "none"
        /\ row.status # "none" => row'.status # "none"
        /\ row.status \in {"moved", "failed"} => row'.status = row.status
        /\ row'.status \in {"moved", "failed"} => row'.status = row.status
    BY <2>2 DEF MarkStarted, StateOK, RowType
  <2> QED BY <1>5, <1>7, <2>1, <2>3 DEF Seed
<1>8. ASSUME RemoveTorrent PROVE OutcomeInv'
  BY <1>0, <1>8 DEF RemoveTorrent, OutcomeInv, NoRow
<1>9. ASSUME UpsertTorrent PROVE OutcomeInv'
  BY <1>0, <1>9 DEF UpsertTorrent, OutcomeInv, Reports
<1>10. CASE UNCHANGED vars
  BY <1>0, <1>10 DEF vars, OutcomeInv, Reports
<1>11. ASSUME NEW task \in tasks PROVE ~DatabaseError(task)
  BY <1>0 DEF DatabaseError, Reliable
<1>12. ~Crash
  BY <1>0 DEF Crash, Reliable
<1> QED
  BY <1>1, <1>2, <1>3, <1>4, <1>6, <1>7, <1>8, <1>9, <1>10, <1>11, <1>12 DEF Next

\* Once the spawned writes have landed, the row shows the outcome of a call:
\* for any number of calls and removals, in any order of the writes.
THEOREM SettledOutcome == Spec => []SettledHasOutcome
<1>1. Init => (Reliable => OutcomeInv)
  BY DEF Init, OutcomeInv, NoRow
<1>2. StateOK /\ TasksOK /\ ErrorIffFailed /\ (Reliable => OutcomeInv) /\ [Next]_vars
        => (Reliable => OutcomeInv)'
  BY OutcomeInductive
<1>3. StateOK /\ (Reliable => OutcomeInv) => SettledHasOutcome
  BY DEF SettledHasOutcome, Settled, OutcomeInv, StatusOf, StateOK
<1>4. Init => StateOK /\ TasksOK
  BY InitOK
<1> QED BY <1>1, <1>2, <1>3, <1>4, TypeInductive, ErrorMatchesStatus, PTL DEF Spec
=============================================================================
