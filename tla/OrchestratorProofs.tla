------------------------- MODULE OrchestratorProofs -------------------------
(***************************************************************************)
(* Proofs about Orchestrator, for any set of torrents, any capacities and  *)
(* any bounds: types, the database mirroring the catalog, post-processing   *)
(* knowing its source, and the catalog showing what the session has.       *)
(***************************************************************************)
EXTENDS Orchestrator, TLAPS

\* What the loop's position says about the event it handles: a removal that is
\* about to be stored has left no status, a completion one with its path, and
\* the one event that may leave none changed nothing.
HandledInv ==
    /\ phase = "persist" /\ current.kind = "TorrentRemoved" => catalog[current.id] = None
    /\ phase = "persist" /\ current.kind \notin {"TorrentRemoved", "SelectionReconciled"}
         => catalog[current.id] # None
    /\ phase = "persist" /\ current.kind = "SelectionReconciled" /\ current.id \notin unsaved
         => rows[current.id] = catalog[current.id]
    /\ phase = "persist" /\ current.kind = "Completed" => catalog[current.id].library_path

-----------------------------------------------------------------------------
(* The operators the actions are made of.                                  *)

\* Appending to a bounded sequence that drops its oldest element.
LEMMA PushType ==
  ASSUME NEW s \in Seq(Event), Len(s) <= Capacity, NEW e \in Event,
         NEW r, r = Append(IF Len(s) = Capacity THEN Tail(s) ELSE s, e)
  PROVE  r \in Seq(Event) /\ Len(r) <= Capacity
<1>1. CASE Len(s) = Capacity
  <2>1. s # <<>>
    BY <1>1, CapacityAssumption
  <2>2. Tail(s) \in Seq(Event) /\ Len(Tail(s)) = Len(s) - 1
    BY <2>1
  <2> QED BY <1>1, <2>2, CapacityAssumption
<1>2. CASE Len(s) # Capacity
  <2>1. r = Append(s, e)
    BY <1>2
  <2> QED BY <1>2, <2>1, CapacityAssumption
<1> QED BY <1>1, <1>2

\* The receiver after an event was sent, for a phase that does not change
\* whether the loop is subscribed.
ReceiverOK ==
    /\ unread \in Seq(Event) /\ Len(unread) <= Capacity
    /\ lagged \in BOOLEAN
    /\ ~Subscribed => unread = <<>> /\ ~lagged

LEMMA BroadcastType ==
  ASSUME ReceiverOK, NEW e \in Event, Broadcast(e), Subscribed' = Subscribed
  PROVE  ReceiverOK'
<1>1. CASE ~Subscribed
  BY <1>1 DEF Broadcast, ReceiverOK
<1>2. CASE Subscribed
  <2>1. /\ unread' = Append(IF Len(unread) = Capacity THEN Tail(unread) ELSE unread, e)
        /\ lagged' = (lagged \/ Len(unread) = Capacity)
    BY <1>2 DEF Broadcast
  <2>2. unread' \in Seq(Event) /\ Len(unread') <= Capacity
    BY <2>1, PushType DEF ReceiverOK
  <2> QED BY <1>2, <2>1, <2>2 DEF ReceiverOK
<1> QED BY <1>1, <1>2

LEMMA PublishType ==
  ASSUME ReceiverOK, replay \in Seq(Event), Len(replay) <= Capacity, excused \subseteq Torrents,
         NEW kind \in Kinds, NEW t \in Torrents, Publish(kind, t), Subscribed' = Subscribed
  PROVE  /\ ReceiverOK'
         /\ replay' \in Seq(Event) /\ Len(replay') <= Capacity
         /\ excused' \subseteq Torrents
<1>1. Ev(kind, t) \in Event
  BY DEF Ev, Event
<1>2. ReceiverOK'
  BY <1>1, BroadcastType DEF Publish
<1>3. replay' \in Seq(Event) /\ Len(replay') <= Capacity
  BY <1>1, PushType DEF Publish
<1>4. excused' \subseteq Torrents
  BY DEF Publish
<1> QED BY <1>2, <1>3, <1>4

LEMMA ApplyEventType ==
  ASSUME NEW entry \in Status \cup {None}, NEW kind \in Kinds
  PROVE  /\ ApplyEvent(entry, kind) \in Status \cup {None}
         /\ kind = "TorrentRemoved" => ApplyEvent(entry, kind) = None
         /\ kind \notin {"TorrentRemoved", "SelectionReconciled"} => ApplyEvent(entry, kind) \in Status
         /\ kind = "SelectionReconciled" => ApplyEvent(entry, kind) = entry
         /\ kind = "Completed" => ApplyEvent(entry, kind).library_path
<1>1. EnsureEntry(entry) \in Status /\ BlankStatus \in Status
  BY DEF EnsureEntry, BlankStatus, Status
<1>2. /\ [EnsureEntry(entry) EXCEPT !.state = "downloading"] \in Status
      /\ [EnsureEntry(entry) EXCEPT !.state = "completed"] \in Status
      /\ [EnsureEntry(entry) EXCEPT !.state = "failed"] \in Status
      /\ [state |-> "completed", library_path |-> TRUE] \in Status
  BY <1>1 DEF Status
<1> QED BY <1>1, <1>2 DEF ApplyEvent, Kinds
-----------------------------------------------------------------------------
(* Types.                                                                  *)

CountOK == count \in [DOMAIN Bounds -> Nat]

\* The other part of TypeOK.
StateOK ==
    /\ commands \in Seq(Command) /\ Len(commands) <= QueueCapacity
    /\ deleting \subseteq Torrents
    /\ session \in [Torrents -> {"none", "active", "finished"}]
    /\ reporting \in Torrents \cup {None}
    /\ replay \in Seq(Event) /\ Len(replay) <= Capacity
    /\ resending \in Seq(Event)
    /\ phase \in Phases
    /\ current \in Event \cup {None}
    /\ phase \in {"persist", "apply", "applying"} => current \in Event
    /\ catalog \in [Torrents -> Status \cup {None}]
    /\ rows \in [Torrents -> Status \cup {None}]
    /\ unsaved \subseteq Torrents /\ excused \subseteq Torrents
    /\ CountOK

LEMMA InitOK == Init => StateOK /\ ReceiverOK
<1> SUFFICES ASSUME Init PROVE StateOK /\ ReceiverOK
  OBVIOUS
<1>1. CountOK
  BY DEF Init, CountOK
<1>2. /\ <<>> \in Seq(Event) /\ <<>> \in Seq(Command)
      /\ Len(<<>>) <= Capacity /\ Len(<<>>) <= QueueCapacity
  BY CapacityAssumption
<1>3. ReceiverOK
  BY <1>2 DEF Init, ReceiverOK
<1>4. /\ session \in [Torrents -> {"none", "active", "finished"}]
      /\ catalog \in [Torrents -> Status \cup {None}]
      /\ rows \in [Torrents -> Status \cup {None}]
  BY DEF Init
<1>5. phase \in Phases /\ phase \notin {"persist", "apply", "applying"}
  BY DEF Init, Phases
<1> QED
  BY <1>1, <1>2, <1>3, <1>4, <1>5 DEF Init, StateOK

\* A bounded thing happens once more.
LEMMA WithinType ==
  ASSUME CountOK, NEW what \in DOMAIN Bounds, Within(what)
  PROVE  CountOK'
<1> DEFINE D == DOMAIN Bounds
<1>1. count' = [count EXCEPT ![what] = count[what] + 1]
  BY DEF Within
<1> HIDE DEF D
<1>2. count \in [D -> Nat] /\ what \in D
  BY DEF CountOK, D
<1>3. count' \in [D -> Nat]
  BY <1>1, <1>2
<1> QED BY <1>3 DEF CountOK, D

\* The names of the bounds.
LEMMA BoundNames ==
  {"adds", "removals", "reports", "resumes", "errors", "resets", "restarts"}
    \subseteq DOMAIN Bounds
  BY DEF Bounds

LEMMA EnqueueType ==
  ASSUME commands \in Seq(Command), Len(commands) <= QueueCapacity,
         NEW op \in {"add", "remove"}, NEW t \in Torrents, Enqueue(op, t)
  PROVE  commands' \in Seq(Command) /\ Len(commands') <= QueueCapacity
<1>1. [op |-> op, id |-> t] \in Command
  BY DEF Command
<1> QED BY <1>1, CapacityAssumption DEF Enqueue

LEMMA NextCommandType ==
  ASSUME commands \in Seq(Command), Len(commands) <= QueueCapacity,
         NEW op, NEW t, NextCommand(op, t)
  PROVE  commands' \in Seq(Command) /\ Len(commands') <= QueueCapacity
  BY CapacityAssumption DEF NextCommand

\* What the steps of clients, API and worker are: the loop stays where it is.
Outside ==
    \/ Resume \/ Resend
    \/ \E t \in Torrents :
         \/ CreateTorrent(t) \/ DeleteTorrent(t) \/ DeleteTorrentEnd(t) \/ RemoveAction(t)
         \/ ReconcileSelection(t) \/ HandleAdd(t) \/ HandleRemove(t)
         \/ CommandFails("add", t) \/ CommandFails("remove", t)
         \/ Poll(t, "Progress") \/ Poll(t, "Downloading")
         \/ HandleCompleted(t) \/ HandleCompletedEnd(t) \/ RemoveForCleanup(t)

LEMMA OutsideType ==
  ASSUME StateOK, ReceiverOK, Outside
  PROVE  StateOK' /\ ReceiverOK' /\ UNCHANGED loop
<1>0. UNCHANGED loop => Subscribed' = Subscribed
  BY DEF loop, Subscribed
<1>1. CASE Resume
  <2>1. CountOK'
    BY <1>1, WithinType, BoundNames DEF Resume, StateOK
  <2>2. resending' \in Seq(Event)
    BY <1>1 DEF Resume, StateOK
  <2> QED BY <1>0, <1>1, <2>1, <2>2 DEF Resume, StateOK, ReceiverOK, api, engine, channel, loop
<1>2. CASE Resend
  <2>1. Head(resending) \in Event /\ resending' \in Seq(Event)
    BY <1>2 DEF Resend, StateOK
  <2>2. ReceiverOK'
    BY <1>0, <1>2, <2>1, BroadcastType DEF Resend
  <2> QED BY <1>2, <2>1, <2>2 DEF Resend, StateOK, CountOK, api, engine, loop
<1>3. ASSUME NEW t \in Torrents, CreateTorrent(t) PROVE StateOK' /\ ReceiverOK' /\ UNCHANGED loop
  <2>1. CountOK'
    BY <1>3, WithinType, BoundNames DEF CreateTorrent, StateOK
  <2>2. commands' \in Seq(Command) /\ Len(commands') <= QueueCapacity
    BY <1>3, EnqueueType DEF CreateTorrent, StateOK
  <2> QED BY <1>0, <1>3, <2>1, <2>2 DEF CreateTorrent, StateOK, ReceiverOK, engine, channel, loop
<1>4. ASSUME NEW t \in Torrents, DeleteTorrent(t) PROVE StateOK' /\ ReceiverOK' /\ UNCHANGED loop
  <2>1. CountOK'
    BY <1>4, WithinType, BoundNames DEF DeleteTorrent, StateOK
  <2>2. commands' \in Seq(Command) /\ Len(commands') <= QueueCapacity
    BY <1>4, EnqueueType DEF DeleteTorrent, StateOK
  <2> QED BY <1>0, <1>4, <2>1, <2>2 DEF DeleteTorrent, StateOK, ReceiverOK, engine, channel, loop
<1>5. ASSUME NEW t \in Torrents, RemoveAction(t) PROVE StateOK' /\ ReceiverOK' /\ UNCHANGED loop
  <2>1. CountOK'
    BY <1>5, WithinType, BoundNames DEF RemoveAction, StateOK
  <2>2. commands' \in Seq(Command) /\ Len(commands') <= QueueCapacity
    BY <1>5, EnqueueType DEF RemoveAction, StateOK
  <2> QED BY <1>0, <1>5, <2>1, <2>2 DEF RemoveAction, StateOK, ReceiverOK, engine, channel, loop
<1>6. ASSUME NEW t \in Torrents, HandleRemove(t) PROVE StateOK' /\ ReceiverOK' /\ UNCHANGED loop
  <2>1. commands' \in Seq(Command) /\ Len(commands') <= QueueCapacity
    BY <1>6, NextCommandType DEF HandleRemove, StateOK
  <2>2. session' \in [Torrents -> {"none", "active", "finished"}]
    BY <1>6 DEF HandleRemove, StateOK
  <2> QED BY <1>0, <1>6, <2>1, <2>2 DEF HandleRemove, StateOK, CountOK, ReceiverOK, channel, loop
<1>7. ASSUME NEW t \in Torrents, NEW op, CommandFails(op, t) PROVE StateOK' /\ ReceiverOK' /\ UNCHANGED loop
  <2>1. CountOK'
    BY <1>7, WithinType, BoundNames DEF CommandFails, StateOK
  <2>2. commands' \in Seq(Command) /\ Len(commands') <= QueueCapacity
    BY <1>7, NextCommandType DEF CommandFails, StateOK
  <2>3. session' \in [Torrents -> {"none", "active", "finished"}]
    BY <1>7 DEF CommandFails, StateOK
  <2> QED BY <1>0, <1>7, <2>1, <2>2, <2>3 DEF CommandFails, StateOK, ReceiverOK, channel, loop
<1>8. ASSUME NEW t \in Torrents, RemoveForCleanup(t) PROVE StateOK' /\ ReceiverOK' /\ UNCHANGED loop
  <2>1. CountOK'
    BY <1>8, WithinType, BoundNames DEF RemoveForCleanup, StateOK
  <2>2. session' \in [Torrents -> {"none", "active", "finished"}]
    BY <1>8 DEF RemoveForCleanup, StateOK
  <2> QED BY <1>0, <1>8, <2>1, <2>2 DEF RemoveForCleanup, StateOK, ReceiverOK, api, channel, loop
<1>9. ASSUME NEW t \in Torrents, NEW kind \in Kinds, Publish(kind, t), UNCHANGED loop
      PROVE  /\ ReceiverOK'
             /\ replay' \in Seq(Event) /\ Len(replay') <= Capacity /\ excused' \subseteq Torrents
  BY <1>0, <1>9, PublishType DEF StateOK
<1>10. {"TorrentAdded", "TorrentRemoved", "SelectionReconciled", "Progress", "Downloading", "Finished", "Completed"} \subseteq Kinds
  BY DEF Kinds
<1>11. ASSUME NEW t \in Torrents, DeleteTorrentEnd(t) PROVE StateOK' /\ ReceiverOK' /\ UNCHANGED loop
  <2>1. Publish("TorrentRemoved", t) /\ UNCHANGED <<commands, engine, resending, loop, count>>
        /\ deleting' \subseteq deleting
    BY <1>11 DEF DeleteTorrentEnd
  <2> QED BY <1>9, <1>10, <2>1 DEF StateOK, CountOK, engine, loop
<1>12. ASSUME NEW t \in Torrents, HandleAdd(t) PROVE StateOK' /\ ReceiverOK' /\ UNCHANGED loop
  <2>1. commands' \in Seq(Command) /\ Len(commands') <= QueueCapacity
    BY <1>12, NextCommandType DEF HandleAdd, StateOK
  <2>2. Publish("TorrentAdded", t) /\ UNCHANGED <<deleting, reporting, resending, loop, count>>
    BY <1>12 DEF HandleAdd
  <2>3. session' \in [Torrents -> {"none", "active", "finished"}]
    BY <1>12 DEF HandleAdd, StateOK
  <2> QED BY <1>9, <1>10, <2>1, <2>2, <2>3 DEF StateOK, CountOK, loop
<1>13. ASSUME NEW t \in Torrents, NEW kind \in {"Progress", "Downloading"}, Poll(t, kind)
       PROVE  StateOK' /\ ReceiverOK' /\ UNCHANGED loop
  <2>1. CountOK'
    BY <1>13, WithinType, BoundNames DEF Poll, StateOK
  <2>2. Publish(kind, t) /\ UNCHANGED <<api, engine, resending, loop>>
    BY <1>13 DEF Poll
  <2> QED BY <1>9, <1>10, <2>1, <2>2 DEF StateOK, api, engine, loop
<1>14. ASSUME NEW t \in Torrents, HandleCompleted(t) PROVE StateOK' /\ ReceiverOK' /\ UNCHANGED loop
  <2>1. Publish("Finished", t) /\ UNCHANGED <<api, resending, loop, count>> /\ reporting' = t
    BY <1>14 DEF HandleCompleted
  <2>2. session' \in [Torrents -> {"none", "active", "finished"}]
    BY <1>14 DEF HandleCompleted, StateOK
  <2> QED BY <1>9, <1>10, <2>1, <2>2 DEF StateOK, CountOK, api, loop
<1>15. ASSUME NEW t \in Torrents, HandleCompletedEnd(t) PROVE StateOK' /\ ReceiverOK' /\ UNCHANGED loop
  <2>1. Publish("Completed", t) /\ UNCHANGED <<api, session, resending, loop, count>> /\ reporting' = None
    BY <1>15 DEF HandleCompletedEnd
  <2> QED BY <1>9, <1>10, <2>1 DEF StateOK, CountOK, api, loop
<1>16. ASSUME NEW t \in Torrents, ReconcileSelection(t) PROVE StateOK' /\ ReceiverOK' /\ UNCHANGED loop
  <2>1. CountOK'
    BY <1>16, WithinType, BoundNames DEF ReconcileSelection, StateOK
  <2>2. Publish("SelectionReconciled", t) /\ UNCHANGED <<api, engine, resending, loop>>
    BY <1>16 DEF ReconcileSelection
  <2> QED BY <1>9, <1>10, <2>1, <2>2 DEF StateOK, api, engine, loop
<1> QED
  BY <1>1, <1>2, <1>3, <1>4, <1>5, <1>6, <1>7, <1>8, <1>11, <1>12, <1>13, <1>14, <1>15, <1>16 DEF Outside
-----------------------------------------------------------------------------
(* The steps of the loop.                                                  *)

\* What they do to catalog and rows, given the types.
IInv == StateOK /\ ReceiverOK /\ HandledInv /\ RowsMirrorCatalog /\ SourceIsKnown

LEMMA ObserveInductive == IInv /\ Observe => IInv'
<1> SUFFICES ASSUME IInv, Observe PROVE IInv'
  OBVIOUS
<1> DEFINE e == Head(unread)
<1>1. e \in Event /\ unread' \in Seq(Event) /\ Len(unread') <= Capacity
  BY CapacityAssumption DEF IInv, ReceiverOK, Observe
<1>2. e.id \in Torrents /\ e.kind \in Kinds
  BY <1>1 DEF Event
<1>3. /\ current' = e /\ phase = "idle" /\ phase' = "persist" /\ ~lagged
      /\ catalog' = [catalog EXCEPT ![e.id] = ApplyEvent(catalog[e.id], e.kind)]
      /\ UNCHANGED <<api, engine, replay, lagged, resending, rows, unsaved, excused, count>>
  BY DEF Observe
<1> HIDE DEF e
<1> DEFINE new == ApplyEvent(catalog[e.id], e.kind)
<1>4. /\ new \in Status \cup {None}
      /\ e.kind = "TorrentRemoved" => new = None
      /\ e.kind \notin {"TorrentRemoved", "SelectionReconciled"} => new \in Status
      /\ e.kind = "SelectionReconciled" => new = catalog[e.id]
      /\ e.kind = "Completed" => new.library_path
  BY <1>2, ApplyEventType DEF IInv, StateOK
<1> HIDE DEF new
<1>5. /\ catalog' \in [Torrents -> Status \cup {None}]
      /\ catalog'[e.id] = new
      /\ \A t \in Torrents \ {e.id} : catalog'[t] = catalog[t]
  BY <1>2, <1>3, <1>4 DEF IInv, StateOK, new
<1>6. StateOK'
  BY <1>1, <1>3, <1>5 DEF IInv, StateOK, CountOK, Phases, api, engine
<1>7. ReceiverOK'
  BY <1>1, <1>3 DEF IInv, ReceiverOK, Subscribed
<1>8. HandledInv'
  <2>1. e.id \notin unsaved => rows[e.id] = catalog[e.id]
    BY <1>2, <1>3 DEF IInv, RowsMirrorCatalog
  <2> QED BY <1>3, <1>4, <1>5, <2>1, NoneAssumption DEF HandledInv
<1>9. RowsMirrorCatalog' /\ SourceIsKnown'
  BY <1>3, <1>5 DEF IInv, RowsMirrorCatalog, SourceIsKnown
<1> QED BY <1>6, <1>7, <1>8, <1>9 DEF IInv

\* What leaving the phase "persist" establishes.
LEMMA AfterPersistOK ==
  ASSUME IInv, phase = "persist", phase' = AfterPersist, UNCHANGED <<unread, lagged, current, catalog>>
  PROVE  ReceiverOK' /\ HandledInv' /\ SourceIsKnown' /\ phase' \in {"idle", "apply"}
<1>1. phase' \in {"idle", "apply"} /\ (phase' = "apply" => current.kind = "Completed")
  BY DEF AfterPersist
<1>2. Subscribed /\ Subscribed'
  BY <1>1 DEF Subscribed
<1>3. ReceiverOK'
  BY <1>2 DEF IInv, ReceiverOK
<1>4. HandledInv' /\ SourceIsKnown'
  BY <1>1 DEF IInv, HandledInv, SourceIsKnown
<1> QED BY <1>1, <1>3, <1>4

LEMMA PersistInductive == IInv /\ (PersistRuntime \/ PersistFails) => IInv'
<1>1. ASSUME IInv, PersistRuntime PROVE IInv'
  <2>1. ReceiverOK' /\ HandledInv' /\ SourceIsKnown' /\ phase' \in {"idle", "apply"}
    BY <1>1, AfterPersistOK DEF PersistRuntime, channel
  <2>2. current \in Event /\ current.id \in Torrents
    BY <1>1 DEF IInv, StateOK, PersistRuntime, Event
  <2> DEFINE new == IF current.kind = "TorrentRemoved" THEN None
                    ELSE IF catalog[current.id] = None THEN rows[current.id] ELSE catalog[current.id]
  <2>3. /\ new \in Status \cup {None}
        /\ current.id \notin unsaved' => new = catalog[current.id]
    BY <1>1, <2>2 DEF IInv, HandledInv, StateOK, PersistRuntime, StillUnsaved
  <2>4. rows' = [rows EXCEPT ![current.id] = new]
    BY <1>1 DEF PersistRuntime
  <2> HIDE DEF new
  <2>5. /\ rows' \in [Torrents -> Status \cup {None}]
        /\ current.id \notin unsaved' => rows'[current.id] = catalog[current.id]
        /\ \A t \in Torrents \ {current.id} : rows'[t] = rows[t] /\ (t \in unsaved' <=> t \in unsaved)
        /\ unsaved' \subseteq Torrents
    BY <1>1, <2>2, <2>3, <2>4 DEF IInv, StateOK, PersistRuntime, StillUnsaved
  <2>6. StateOK'
    BY <1>1, <2>1, <2>2, <2>5 DEF IInv, StateOK, CountOK, PersistRuntime, Phases, api, engine, channel
  <2>7. RowsMirrorCatalog'
    BY <1>1, <2>5 DEF IInv, RowsMirrorCatalog, PersistRuntime
  <2> QED BY <2>1, <2>6, <2>7 DEF IInv
<1>2. ASSUME IInv, PersistFails PROVE IInv'
  <2>1. ReceiverOK' /\ HandledInv' /\ SourceIsKnown' /\ phase' \in {"idle", "apply"}
    BY <1>2, AfterPersistOK DEF PersistFails, channel
  <2>2. CountOK'
    BY <1>2, WithinType, BoundNames DEF PersistFails, IInv, StateOK
  <2>3. current \in Event /\ unsaved' \subseteq Torrents
    BY <1>2 DEF IInv, StateOK, PersistFails, Event
  <2>4. StateOK'
    BY <1>2, <2>1, <2>2, <2>3 DEF IInv, StateOK, PersistFails, Phases, api, engine, channel
  <2>5. RowsMirrorCatalog'
    BY <1>2 DEF IInv, RowsMirrorCatalog, PersistFails
  <2> QED BY <2>1, <2>4, <2>5 DEF IInv
<1> QED BY <1>1, <1>2

\* The steps of `apply` publish, and move the phase on.
LEMMA ApplyInductive == IInv /\ (ApplyFsops \/ ApplyProgress \/ ApplyEnd) => IInv'
<1> SUFFICES ASSUME IInv, ApplyFsops \/ ApplyProgress \/ ApplyEnd PROVE IInv'
  OBVIOUS
<1> DEFINE t == current.id
<1>1. /\ phase \in {"apply", "applying"} /\ phase' \in {"applying", "idle"}
      /\ UNCHANGED <<api, engine, resending, current, catalog, rows, unsaved>>
  BY DEF ApplyFsops, ApplyProgress, ApplyEnd, loop
<1>2. current \in Event /\ t \in Torrents
  BY <1>1 DEF IInv, StateOK, Event
<1>3. PICK kind \in {"FsopsStarted", "FsopsProgress", "FsopsCompleted", "FsopsFailed"} : Publish(kind, t)
  BY DEF ApplyFsops, ApplyProgress, ApplyEnd
<1>4. kind \in Kinds
  BY DEF Kinds
<1>5. Subscribed' = Subscribed
  BY <1>1 DEF Subscribed
<1>6. /\ ReceiverOK'
      /\ replay' \in Seq(Event) /\ Len(replay') <= Capacity /\ excused' \subseteq Torrents
  <2> HIDE DEF t
  <2> QED BY <1>2, <1>3, <1>4, <1>5, PublishType DEF IInv, StateOK
<1>7. CountOK'
  <2>1. CASE ApplyProgress
    BY <2>1, WithinType, BoundNames DEF ApplyProgress, IInv, StateOK
  <2>2. CASE UNCHANGED count
    BY <2>2 DEF IInv, StateOK, CountOK
  <2> QED BY <2>1, <2>2 DEF ApplyFsops, ApplyEnd
<1>8. StateOK'
  BY <1>1, <1>2, <1>6, <1>7 DEF IInv, StateOK, Phases, api, engine
<1>9. HandledInv' /\ SourceIsKnown' /\ RowsMirrorCatalog'
  BY <1>1, <1>7 DEF IInv, HandledInv, SourceIsKnown, RowsMirrorCatalog
<1> QED BY <1>6, <1>8, <1>9 DEF IInv

LEMMA StartStopInductive == IInv /\ (Subscribe \/ LoopEnds \/ FactoryReset \/ Restart \/ RestartUnhydrated) => IInv'
<1>0. <<>> \in Seq(Event) /\ <<>> \in Seq(Command) /\ Len(<<>>) <= Capacity /\ Len(<<>>) <= QueueCapacity
  BY CapacityAssumption
<1>1. ASSUME IInv, Subscribe PROVE IInv'
  BY <1>1 DEF Subscribe, IInv, StateOK, CountOK, ReceiverOK, Subscribed, HandledInv, RowsMirrorCatalog,
              SourceIsKnown, Phases, api, engine, channel
<1>2. ASSUME IInv, LoopEnds PROVE IInv'
  <2>1. StateOK'
    BY <1>2 DEF LoopEnds, IInv, StateOK, CountOK, Phases, api, engine
  <2>2. ReceiverOK'
    BY <1>0, <1>2 DEF LoopEnds, ReceiverOK
  <2> QED BY <1>2, <2>1, <2>2 DEF LoopEnds, IInv, HandledInv, RowsMirrorCatalog, SourceIsKnown
<1>3. ASSUME IInv, Reset, CountOK', catalog' \in [Torrents -> Status \cup {None}], unsaved' \subseteq Torrents
      PROVE  StateOK' /\ ReceiverOK' /\ HandledInv' /\ SourceIsKnown'
  <2>1. session' \in [Torrents -> {"none", "active", "finished"}]
    BY <1>3 DEF Reset
  <2>2. StateOK'
    BY <1>0, <1>3, <2>1 DEF Reset, IInv, StateOK, Phases
  <2>3. ReceiverOK'
    BY <1>0, <1>3 DEF Reset, ReceiverOK
  <2> QED BY <1>3, <2>2, <2>3 DEF Reset, HandledInv, SourceIsKnown
<1>4. ASSUME IInv, Restart PROVE IInv'
  <2>1. CountOK'
    BY <1>4, WithinType, BoundNames DEF Restart, IInv, StateOK
  <2>2. StateOK' /\ ReceiverOK' /\ HandledInv' /\ SourceIsKnown'
    BY <1>3, <1>4, <2>1 DEF Restart, IInv, StateOK
  <2> QED BY <1>4, <2>2 DEF Restart, Reset, IInv, RowsMirrorCatalog
<1>5. ASSUME IInv, RestartUnhydrated PROVE IInv'
  <2> DEFINE D == DOMAIN Bounds
  <2>1. "restarts" \in D /\ "errors" \in D
    BY BoundNames
  <2> HIDE DEF D
  <2>2. count \in [D -> Nat]
    BY <1>5 DEF IInv, StateOK, CountOK, D
  <2>3. count' \in [D -> Nat]
    BY <1>5, <2>1, <2>2 DEF RestartUnhydrated
  <2>4. CountOK'
    BY <2>3 DEF CountOK, D
  <2>5. StateOK' /\ ReceiverOK' /\ HandledInv' /\ SourceIsKnown'
    BY <1>3, <1>5, <2>4 DEF RestartUnhydrated
  <2> QED BY <1>5, <2>5 DEF IInv, RowsMirrorCatalog, RestartUnhydrated, Reset
<1>6. ASSUME IInv, FactoryReset PROVE IInv'
  <2>1. CountOK'
    BY <1>6, WithinType, BoundNames DEF FactoryReset, IInv, StateOK
  <2>2. rows' \in [Torrents -> Status \cup {None}] /\ unsaved' \subseteq Torrents
    BY <1>6 DEF FactoryReset
  <2>3. StateOK' /\ ReceiverOK'
    BY <1>6, <2>1, <2>2 DEF FactoryReset, IInv, StateOK, ReceiverOK, Subscribed, api, engine, channel
  <2>4. HandledInv' /\ SourceIsKnown'
    <3>1. phase = "persist" => current.id \in Torrents
      BY <1>6 DEF IInv, StateOK, Event
    <3> QED BY <1>6, <3>1 DEF FactoryReset, IInv, HandledInv, SourceIsKnown
  <2>5. RowsMirrorCatalog'
    BY <1>6 DEF FactoryReset, RowsMirrorCatalog
  <2> QED BY <2>3, <2>4, <2>5 DEF IInv
<1> QED BY <1>1, <1>2, <1>4, <1>5, <1>6

LEMMA IInvInductive == IInv /\ [Next]_vars => IInv'
<1> SUFFICES ASSUME IInv, [Next]_vars PROVE IInv'
  OBVIOUS
<1>1. CASE Outside
  <2>1. StateOK' /\ ReceiverOK' /\ UNCHANGED loop
    BY <1>1, OutsideType DEF IInv
  <2> QED BY <2>1 DEF IInv, loop, HandledInv, RowsMirrorCatalog, SourceIsKnown
<1>2. CASE UNCHANGED vars
  BY <1>2 DEF vars, api, engine, channel, loop, IInv, StateOK, CountOK, ReceiverOK, Subscribed,
              HandledInv, RowsMirrorCatalog, SourceIsKnown
<1> QED
  BY <1>1, <1>2, ObserveInductive, PersistInductive, ApplyInductive, StartStopInductive
  DEF Next, LoopStep, Outside

LEMMA IInvHolds == Spec => []IInv
<1>1. Init => IInv
  BY InitOK DEF IInv, Init, HandledInv, RowsMirrorCatalog, SourceIsKnown
<1> QED BY <1>1, IInvInductive, PTL DEF Spec

-----------------------------------------------------------------------------
(* Torrents in the session are visible.                                    *)

Queued(op, t) == \E i \in 1 .. Len(commands) : commands[i] = [op |-> op, id |-> t]

\* During its DELETE a torrent is not added behind the remove command.
RemovalIsLast(t) ==
    /\ session[t] # "none" => Queued("remove", t)
    /\ \A i \in 1 .. Len(commands) : commands[i] = [op |-> "add", id |-> t] =>
         \E j \in 1 .. Len(commands) : j > i /\ commands[j] = [op |-> "remove", id |-> t]

\* The events that give a torrent a status if it has none.
Creates(e, t) == e.id = t /\ e.kind \notin {"TorrentRemoved", "SelectionReconciled"}
KeptAfter(i, t) == \A j \in 1 .. Len(unread) : j > i => unread[j] # Ev("TorrentRemoved", t)

\* The catalog has the torrent, or will once the unread events are observed.
Visible(t) ==
    \/ catalog[t] # None /\ KeptAfter(0, t)
    \/ \E i \in 1 .. Len(unread) : Creates(unread[i], t) /\ KeptAfter(i, t)

Clean == count["errors"] = 0 /\ count["resumes"] = 0

VisibleInv ==
    /\ resending = <<>>
    /\ lagged => unread # <<>>
    /\ \A t \in Torrents \ excused :
         /\ phase = "starting" => session[t] = "none"
         /\ t \in deleting => RemovalIsLast(t)
         /\ session[t] # "none" /\ Subscribed /\ ~lagged => Visible(t) \/ Queued("remove", t)

\* No failure and no resumed stream is forgotten.
LEMMA WithinClean ==
  ASSUME CountOK, NEW what \in DOMAIN Bounds, Within(what), Clean'
  PROVE  Clean /\ what \notin {"errors", "resumes"}
<1> DEFINE D == DOMAIN Bounds
<1>1. count' = [count EXCEPT ![what] = count[what] + 1]
  BY DEF Within
<1>2. "errors" \in D /\ "resumes" \in D
  BY BoundNames
<1> HIDE DEF D
<1>3. count \in [D -> Nat] /\ what \in D
  BY DEF CountOK, D
<1>4. \A w \in D : count'[w] = IF w = what THEN count[w] + 1 ELSE count[w]
  BY <1>1, <1>3
<1> QED BY <1>2, <1>3, <1>4 DEF Clean

LEMMA CleanStays ==
  ASSUME StateOK, [Next]_vars, Clean'
  PROVE  Clean /\ ~Resume /\ ~PersistFails /\ ~RestartUnhydrated
         /\ \A t \in Torrents : ~CommandFails("add", t) /\ ~CommandFails("remove", t)
<1>1. \A what \in DOMAIN Bounds : Within(what) => Clean /\ what \notin {"errors", "resumes"}
  BY WithinClean DEF StateOK
<1>2. ~RestartUnhydrated
  <2> DEFINE D == DOMAIN Bounds
  <2>1. "restarts" \in D /\ "errors" \in D
    BY BoundNames
  <2> HIDE DEF D
  <2>2. count \in [D -> Nat]
    BY DEF StateOK, CountOK, D
  <2> QED BY <2>1, <2>2 DEF RestartUnhydrated, Clean
<1>3. ~Resume /\ ~PersistFails /\ \A t \in Torrents : ~CommandFails("add", t) /\ ~CommandFails("remove", t)
  BY <1>1, BoundNames DEF Resume, PersistFails, CommandFails
<1>4. UNCHANGED count => Clean
  BY DEF Clean
<1>5. Clean
  <2>1. CASE \E t \in Torrents : CreateTorrent(t) \/ DeleteTorrent(t) \/ RemoveAction(t) \/ ReconcileSelection(t)
               \/ Poll(t, "Progress") \/ Poll(t, "Downloading") \/ RemoveForCleanup(t)
    BY <1>1, <2>1, BoundNames DEF CreateTorrent, DeleteTorrent, RemoveAction, ReconcileSelection, Poll, RemoveForCleanup
  <2>2. CASE ApplyProgress \/ FactoryReset \/ Restart
    BY <1>1, <2>2, BoundNames DEF ApplyProgress, FactoryReset, Restart
  <2>3. CASE \E t \in Torrents : DeleteTorrentEnd(t) \/ HandleAdd(t) \/ HandleRemove(t) \/ HandleCompleted(t) \/ HandleCompletedEnd(t)
    BY <1>4, <2>3 DEF DeleteTorrentEnd, HandleAdd, HandleRemove, HandleCompleted, HandleCompletedEnd
  <2>4. CASE Resend \/ LoopStep
    BY <1>4, <2>4 DEF Resend, LoopStep, Subscribe, Observe, PersistRuntime, ApplyFsops, ApplyEnd, LoopEnds
  <2>5. CASE UNCHANGED vars
    BY <1>4, <2>5 DEF vars
  <2> QED BY <1>2, <1>3, <2>1, <2>2, <2>3, <2>4, <2>5 DEF Next
<1> QED BY <1>2, <1>3, <1>5

\* An event that reaches a receiver which does not lag is read after the others.
LEMMA BroadcastVisible ==
  ASSUME ReceiverOK, Subscribed, NEW e \in Event, Broadcast(e), UNCHANGED catalog
  PROVE  /\ unread' # <<>>
         /\ ~lagged' => ~lagged
         /\ ~lagged' => \A t \in Torrents :
              /\ Creates(e, t) => Visible(t)'
              /\ e # Ev("TorrentRemoved", t) /\ Visible(t) => Visible(t)'
<1>1. /\ unread' = Append(IF Len(unread) = Capacity THEN Tail(unread) ELSE unread, e)
      /\ lagged' = (lagged \/ Len(unread) = Capacity)
  BY DEF Broadcast
<1>2. unread \in Seq(Event) /\ Len(unread) \in Nat
  BY DEF ReceiverOK
<1>3. unread' # <<>>
  <2>1. CASE Len(unread) = Capacity
    <3>1. unread # <<>>
      BY <2>1, CapacityAssumption
    <3> QED BY <1>1, <1>2, <2>1, <3>1
  <2>2. CASE Len(unread) # Capacity
    BY <1>1, <1>2, <2>2
  <2> QED BY <2>1, <2>2
<1>4. ASSUME ~lagged' PROVE ~lagged /\ unread' = Append(unread, e)
  BY <1>1, <1>4
<1>5. ASSUME ~lagged', NEW t \in Torrents
      PROVE  /\ Creates(e, t) => Visible(t)'
             /\ e # Ev("TorrentRemoved", t) /\ Visible(t) => Visible(t)'
  <2>1. /\ Len(unread') = Len(unread) + 1 /\ unread'[Len(unread) + 1] = e
        /\ \A i \in 1 .. Len(unread) : unread'[i] = unread[i]
    BY <1>2, <1>4, <1>5
  <2>2. Creates(e, t) => Visible(t)'
    BY <1>2, <2>1 DEF Visible, KeptAfter
  <2>3. ASSUME e # Ev("TorrentRemoved", t), NEW i \in Nat, KeptAfter(i, t) PROVE KeptAfter(i, t)'
    BY <1>2, <2>1, <2>3 DEF KeptAfter
  <2>4. ASSUME e # Ev("TorrentRemoved", t), catalog[t] # None, KeptAfter(0, t) PROVE Visible(t)'
    BY <2>3, <2>4 DEF Visible
  <2>5. ASSUME e # Ev("TorrentRemoved", t), NEW i \in 1 .. Len(unread), Creates(unread[i], t), KeptAfter(i, t)
        PROVE  Visible(t)'
    <3>1. KeptAfter(i, t)'
      BY <2>3, <2>5
    <3>2. i \in 1 .. Len(unread') /\ unread'[i] = unread[i]
      BY <1>2, <2>1
    <3> QED BY <2>5, <3>1, <3>2 DEF Visible, Creates
  <2> QED BY <2>2, <2>4, <2>5 DEF Visible
<1> QED BY <1>3, <1>4, <1>5

\* Publishing anything but a removal.
LEMMA PublishVisibleInv ==
  ASSUME ReceiverOK, VisibleInv, NEW kind \in Kinds \ {"TorrentRemoved"}, NEW u \in Torrents, Publish(kind, u),
         Subscribed' = Subscribed, phase' = "starting" <=> phase = "starting",
         UNCHANGED <<commands, deleting, resending, catalog>>,
         \A t \in Torrents : session'[t] = "none" <=> session[t] = "none"
  PROVE  VisibleInv'
<1>1. Ev(kind, u) \in Event /\ Broadcast(Ev(kind, u)) /\ \A t : Ev(kind, u) # Ev("TorrentRemoved", t)
  BY DEF Publish, Event, Ev
<1>2. excused \subseteq excused'
  BY DEF Publish
<1>3. CASE ~Subscribed
  <2>1. UNCHANGED <<unread, lagged>>
    BY <1>1, <1>3 DEF Broadcast
  <2> QED BY <1>2, <1>3, <2>1 DEF VisibleInv, RemovalIsLast, Queued
<1>4. CASE Subscribed
  <2>1. /\ unread' # <<>> /\ (~lagged' => ~lagged)
        /\ ~lagged' => \A t \in Torrents : Visible(t) => Visible(t)'
    BY <1>1, <1>4, BroadcastVisible
  <2> QED BY <1>2, <1>4, <2>1 DEF VisibleInv, RemovalIsLast, Queued
<1> QED BY <1>3, <1>4

\* The queue: a command is put behind the others ...
LEMMA EnqueueQueued ==
  ASSUME commands \in Seq(Command), NEW op \in {"add", "remove"}, NEW u \in Torrents, Enqueue(op, u), UNCHANGED session
  PROVE  /\ \A t \in Torrents : Queued("remove", t) => Queued("remove", t)'
         /\ \A t \in Torrents : RemovalIsLast(t) /\ ~(op = "add" /\ t = u) => RemovalIsLast(t)'
         /\ op = "remove" => RemovalIsLast(u)'
<1> DEFINE c == [op |-> op, id |-> u]
<1>1. /\ Len(commands) \in Nat /\ Len(commands') = Len(commands) + 1 /\ commands'[Len(commands) + 1] = c
      /\ \A i \in 1 .. Len(commands) : commands'[i] = commands[i]
  <2>1. c \in Command /\ commands' = Append(commands, c)
    BY DEF Enqueue, Command
  <2> QED BY <2>1
<1>2. \A t : (c = [op |-> "add", id |-> t] <=> op = "add" /\ t = u) /\ (c = [op |-> "remove", id |-> t] <=> op = "remove" /\ t = u)
  OBVIOUS
<1> HIDE DEF c
<1>3. \A t \in Torrents : Queued("remove", t) => Queued("remove", t)'
  BY <1>1 DEF Queued
<1>4. ASSUME NEW t \in Torrents, RemovalIsLast(t), ~(op = "add" /\ t = u) PROVE RemovalIsLast(t)'
  <2>1. session'[t] # "none" => Queued("remove", t)'
    BY <1>3, <1>4 DEF RemovalIsLast
  <2>2. ASSUME NEW i \in 1 .. Len(commands'), commands'[i] = [op |-> "add", id |-> t]
        PROVE  \E j \in 1 .. Len(commands') : j > i /\ commands'[j] = [op |-> "remove", id |-> t]
    <3>1. i \in 1 .. Len(commands) /\ commands[i] = [op |-> "add", id |-> t]
      BY <1>1, <1>2, <1>4, <2>2
    <3>2. PICK j \in 1 .. Len(commands) : j > i /\ commands[j] = [op |-> "remove", id |-> t]
      BY <1>4, <3>1 DEF RemovalIsLast
    <3> QED BY <1>1, <3>2
  <2> QED BY <2>1, <2>2 DEF RemovalIsLast
<1>5. ASSUME op = "remove" PROVE RemovalIsLast(u)'
  <2>1. Len(commands') \in 1 .. Len(commands') /\ commands'[Len(commands')] = [op |-> "remove", id |-> u]
    BY <1>1, <1>2, <1>5
  <2>2. \A i \in 1 .. Len(commands') : commands'[i] = [op |-> "add", id |-> u] => i < Len(commands')
    BY <1>1, <1>2, <1>5
  <2> QED BY <2>1, <2>2 DEF RemovalIsLast, Queued
<1> QED BY <1>3, <1>4, <1>5

\* ... and the first is taken.
LEMMA DequeueQueued ==
  ASSUME commands \in Seq(Command), NEW op \in {"add", "remove"}, NEW u \in Torrents, NextCommand(op, u),
         \A t \in Torrents : t # u => session'[t] = session[t],
         op = "remove" => session'[u] = "none"
  PROVE  /\ \A t \in Torrents : Queued("remove", t) /\ ~(op = "remove" /\ t = u) => Queued("remove", t)'
         /\ \A t \in Torrents : RemovalIsLast(t) => RemovalIsLast(t)'
<1> DEFINE c == [op |-> op, id |-> u]
<1>1. /\ commands # <<>> /\ commands[1] = c /\ Len(commands) \in Nat /\ Len(commands) >= 1
      /\ Len(commands') = Len(commands) - 1
      /\ \A i \in 1 .. Len(commands) - 1 : commands'[i] = commands[i + 1]
  BY DEF NextCommand
<1>2. \A t : (c = [op |-> "add", id |-> t] <=> op = "add" /\ t = u) /\ (c = [op |-> "remove", id |-> t] <=> op = "remove" /\ t = u)
  OBVIOUS
<1> HIDE DEF c
<1>3. ASSUME NEW i \in 1 .. Len(commands), i # 1
      PROVE  i - 1 \in 1 .. Len(commands') /\ commands'[i - 1] = commands[i]
  BY <1>1, <1>3
<1>4. ASSUME NEW t \in Torrents, Queued("remove", t), ~(op = "remove" /\ t = u) PROVE Queued("remove", t)'
  <2>1. PICK i \in 1 .. Len(commands) : commands[i] = [op |-> "remove", id |-> t]
    BY <1>4 DEF Queued
  <2>2. i # 1
    BY <1>1, <1>2, <1>4, <2>1
  <2> QED BY <1>3, <2>1, <2>2 DEF Queued
<1>5. ASSUME NEW t \in Torrents, RemovalIsLast(t) PROVE RemovalIsLast(t)'
  <2>1. ASSUME NEW i \in 1 .. Len(commands'), commands'[i] = [op |-> "add", id |-> t]
        PROVE  \E j \in 1 .. Len(commands') : j > i /\ commands'[j] = [op |-> "remove", id |-> t]
    <3>1. i + 1 \in 1 .. Len(commands) /\ commands[i + 1] = [op |-> "add", id |-> t]
      BY <1>1, <2>1
    <3>2. PICK j \in 1 .. Len(commands) : j > i + 1 /\ commands[j] = [op |-> "remove", id |-> t]
      BY <1>5, <3>1 DEF RemovalIsLast
    <3>3. j # 1 /\ j - 1 > i
      BY <3>2
    <3> QED BY <1>3, <3>2, <3>3
  <2>2. ASSUME session'[t] # "none" PROVE Queued("remove", t)'
    <3>1. CASE op = "add" /\ t = u
      <4>1. PICK j \in 1 .. Len(commands) : j > 1 /\ commands[j] = [op |-> "remove", id |-> t]
        BY <1>1, <1>2, <1>5, <3>1 DEF RemovalIsLast
      <4> QED BY <1>3, <4>1 DEF Queued
    <3>2. CASE ~(op = "add" /\ t = u)
      BY <1>4, <1>5, <2>2, <3>2 DEF RemovalIsLast
    <3> QED BY <3>1, <3>2
  <2> QED BY <2>1, <2>2 DEF RemovalIsLast
<1> QED BY <1>4, <1>5

\* The steps of the API and the worker on the queue and the session.
LEMMA CommandsVisible ==
  ASSUME StateOK, ReceiverOK, VisibleInv, NEW u \in Torrents,
         \/ CreateTorrent(u) \/ DeleteTorrent(u) \/ RemoveAction(u)
         \/ HandleAdd(u) \/ HandleRemove(u) \/ RemoveForCleanup(u)
  PROVE  VisibleInv'
<1>0. commands \in Seq(Command) /\ session \in [Torrents -> {"none", "active", "finished"}]
  BY DEF StateOK
<1>1. ASSUME UNCHANGED <<session, unread, lagged, resending, phase, catalog>>, excused \subseteq excused',
             \A t \in Torrents : Queued("remove", t) => Queued("remove", t)',
             \A t \in Torrents \ excused' : t \in deleting' => RemovalIsLast(t)'
      PROVE  VisibleInv'
  BY <1>1 DEF VisibleInv, Subscribed, Visible, KeptAfter
<1>2. CASE CreateTorrent(u)
  <2>1. /\ Enqueue("add", u) /\ excused' = IF u \in deleting THEN excused \cup {u} ELSE excused
        /\ UNCHANGED <<deleting, session, unread, lagged, resending, phase, catalog>>
    BY <1>2 DEF CreateTorrent, engine, channel, loop
  <2>2. /\ \A t \in Torrents : Queued("remove", t) => Queued("remove", t)'
        /\ \A t \in Torrents : RemovalIsLast(t) /\ t # u => RemovalIsLast(t)'
    BY <1>0, <2>1, EnqueueQueued
  <2> QED BY <1>1, <2>1, <2>2 DEF VisibleInv
<1>3. CASE DeleteTorrent(u) \/ RemoveAction(u)
  <2>1. /\ Enqueue("remove", u) /\ deleting' \subseteq deleting \cup {u}
        /\ UNCHANGED <<session, unread, lagged, resending, phase, catalog, excused>>
    BY <1>3 DEF DeleteTorrent, RemoveAction, engine, channel, loop
  <2>2. /\ \A t \in Torrents : Queued("remove", t) => Queued("remove", t)'
        /\ \A t \in Torrents : RemovalIsLast(t) => RemovalIsLast(t)'
        /\ RemovalIsLast(u)'
    BY <1>0, <2>1, EnqueueQueued
  <2> QED BY <1>1, <2>1, <2>2 DEF VisibleInv
<1>4. CASE HandleAdd(u)
  <2>1. /\ NextCommand("add", u) /\ session' = [session EXCEPT ![u] = "active"] /\ Publish("TorrentAdded", u)
        /\ UNCHANGED <<deleting, resending, phase, catalog>>
    BY <1>4 DEF HandleAdd, loop
  <2>2. session'[u] = "active" /\ \A t \in Torrents : t # u => session'[t] = session[t]
    BY <1>0, <2>1
  <2>3. /\ \A t \in Torrents : Queued("remove", t) => Queued("remove", t)'
        /\ \A t \in Torrents : RemovalIsLast(t) => RemovalIsLast(t)'
    BY <1>0, <2>1, <2>2, DequeueQueued
  <2>4. /\ Ev("TorrentAdded", u) \in Event /\ Broadcast(Ev("TorrentAdded", u)) /\ Creates(Ev("TorrentAdded", u), u)
        /\ \A t : Ev("TorrentAdded", u) # Ev("TorrentRemoved", t)
        /\ excused' = IF phase = "starting" THEN excused \cup {u} ELSE excused
    BY <2>1 DEF Publish, Event, Ev, Kinds, Creates
  <2>5. Subscribed' = Subscribed
    BY <2>1 DEF Subscribed
  <2>6. CASE ~Subscribed
    <3>1. UNCHANGED <<unread, lagged>>
      BY <2>4, <2>6 DEF Broadcast
    <3> QED BY <2>1, <2>2, <2>3, <2>4, <2>5, <2>6, <3>1 DEF VisibleInv
  <2>7. CASE Subscribed
    <3>1. /\ unread' # <<>> /\ (~lagged' => ~lagged)
          /\ ~lagged' => Visible(u)' /\ \A t \in Torrents : Visible(t) => Visible(t)'
      BY <2>1, <2>4, <2>7, BroadcastVisible
    <3>2. phase # "starting"
      BY <2>7 DEF Subscribed
    <3> QED BY <2>1, <2>2, <2>3, <2>4, <2>5, <3>1, <3>2 DEF VisibleInv
  <2> QED BY <2>6, <2>7
<1>5. CASE HandleRemove(u)
  <2>1. /\ NextCommand("remove", u) /\ session' = [session EXCEPT ![u] = "none"]
        /\ UNCHANGED <<deleting, unread, lagged, resending, phase, catalog, excused>>
    BY <1>5 DEF HandleRemove, channel, loop
  <2>2. session'[u] = "none" /\ \A t \in Torrents : t # u => session'[t] = session[t]
    BY <1>0, <2>1
  <2>3. /\ \A t \in Torrents : Queued("remove", t) /\ t # u => Queued("remove", t)'
        /\ \A t \in Torrents : RemovalIsLast(t) => RemovalIsLast(t)'
    BY <1>0, <2>1, <2>2, DequeueQueued
  <2>4. \A t \in Torrents : Visible(t)' = Visible(t) /\ Subscribed' = Subscribed
    BY <2>1 DEF Visible, KeptAfter, Subscribed
  <2> QED BY <2>1, <2>2, <2>3, <2>4 DEF VisibleInv
<1>6. CASE RemoveForCleanup(u)
  <2>1. /\ session' = [session EXCEPT ![u] = "none"]
        /\ UNCHANGED <<commands, deleting, unread, lagged, resending, phase, catalog, excused>>
    BY <1>6 DEF RemoveForCleanup, api, channel, loop
  <2>2. session'[u] = "none" /\ \A t \in Torrents : t # u => session'[t] = session[t]
    BY <1>0, <2>1
  <2>3. \A t \in Torrents : /\ Visible(t)' = Visible(t) /\ Subscribed' = Subscribed
                            /\ Queued("remove", t)' = Queued("remove", t)
                            /\ RemovalIsLast(t) => RemovalIsLast(t)'
    BY <2>1, <2>2 DEF Visible, KeptAfter, Subscribed, RemovalIsLast, Queued
  <2> QED BY <2>1, <2>2, <2>3 DEF VisibleInv
<1> QED BY <1>2, <1>3, <1>4, <1>5, <1>6

\* The removal is published: the remove command is queued or was run, and no
\* add command was queued behind it.
LEMMA DeleteTorrentEndVisible ==
  ASSUME StateOK, ReceiverOK, VisibleInv, NEW u \in Torrents, DeleteTorrentEnd(u)
  PROVE  VisibleInv'
<1>1. /\ u \in deleting /\ deleting' = deleting \ {u} /\ Publish("TorrentRemoved", u)
      /\ UNCHANGED <<commands, session, resending, phase, catalog>>
  BY DEF DeleteTorrentEnd, engine, loop
<1>2. /\ Ev("TorrentRemoved", u) \in Event /\ Broadcast(Ev("TorrentRemoved", u))
      /\ \A t : t # u => Ev("TorrentRemoved", u) # Ev("TorrentRemoved", t)
      /\ excused \subseteq excused'
  BY <1>1 DEF Publish, Event, Ev, Kinds
<1>3. \A t \in Torrents : Queued("remove", t)' = Queued("remove", t) /\ RemovalIsLast(t)' = RemovalIsLast(t)
  BY <1>1 DEF RemovalIsLast, Queued
<1>4. Subscribed' = Subscribed
  BY <1>1 DEF Subscribed
<1>5. CASE ~Subscribed
  <2>1. UNCHANGED <<unread, lagged>>
    BY <1>2, <1>5 DEF Broadcast
  <2> QED BY <1>1, <1>2, <1>3, <1>4, <1>5, <2>1 DEF VisibleInv
<1>6. CASE Subscribed
  <2>1. /\ unread' # <<>> /\ (~lagged' => ~lagged)
        /\ ~lagged' => \A t \in Torrents : t # u /\ Visible(t) => Visible(t)'
    BY <1>1, <1>2, <1>6, BroadcastVisible
  <2>2. u \notin excused /\ session[u] # "none" => Queued("remove", u)
    BY <1>1 DEF VisibleInv, RemovalIsLast
  <2> QED BY <1>1, <1>2, <1>3, <1>4, <2>1, <2>2 DEF VisibleInv
<1> QED BY <1>5, <1>6

\* Observing an event carries out what it was going to do.
LEMMA ObserveVisible ==
  ASSUME StateOK, ReceiverOK, VisibleInv, Observe
  PROVE  VisibleInv'
<1> DEFINE e == Head(unread)
<1>1. /\ unread # <<>> /\ unread' = Tail(unread) /\ ~lagged /\ phase = "idle" /\ phase' = "persist"
      /\ catalog' = [catalog EXCEPT ![e.id] = ApplyEvent(catalog[e.id], e.kind)]
      /\ UNCHANGED <<commands, deleting, session, lagged, resending, excused>>
  BY DEF Observe, api, engine
<1>2. /\ e \in Event /\ e = unread[1] /\ Len(unread) \in Nat /\ Len(unread) >= 1
      /\ Len(unread') = Len(unread) - 1
      /\ \A i \in 1 .. Len(unread) - 1 : unread'[i] = unread[i + 1]
  BY <1>1 DEF ReceiverOK
<1> HIDE DEF e
<1>3. e.id \in Torrents /\ e.kind \in Kinds /\ e = Ev(e.kind, e.id)
  BY <1>2 DEF Event, Ev
<1>4. /\ catalog \in [Torrents -> Status \cup {None}]
      /\ e.kind \notin {"TorrentRemoved", "SelectionReconciled"} => ApplyEvent(catalog[e.id], e.kind) \in Status
      /\ e.kind = "SelectionReconciled" => ApplyEvent(catalog[e.id], e.kind) = catalog[e.id]
  BY <1>3, ApplyEventType DEF StateOK
<1>5. ASSUME NEW t \in Torrents, Visible(t) PROVE Visible(t)'
  <2>1. ASSUME NEW i \in Nat, KeptAfter(i, t)
        PROVE  i > 0 => KeptAfter(i - 1, t)'
    BY <1>2, <2>1 DEF KeptAfter
  <2>2. ASSUME KeptAfter(0, t) \/ KeptAfter(1, t) PROVE KeptAfter(0, t)'
    BY <1>2, <2>2 DEF KeptAfter
  <2>3. CASE catalog[t] # None /\ KeptAfter(0, t)
    <3>1. e # Ev("TorrentRemoved", t)
      BY <1>2, <2>3 DEF KeptAfter
    <3>2. catalog'[t] # None
      BY <1>1, <1>3, <1>4, <2>3, <3>1, NoneAssumption
    <3> QED BY <2>2, <2>3, <3>2 DEF Visible
  <2>4. ASSUME Creates(unread[1], t), KeptAfter(1, t) PROVE Visible(t)'
    <3>1. e.id = t /\ e.kind \notin {"TorrentRemoved", "SelectionReconciled"}
      BY <1>2, <2>4 DEF Creates
    <3>2. catalog'[t] # None
      BY <1>1, <1>3, <1>4, <3>1, NoneAssumption
    <3> QED BY <2>2, <2>4, <3>2 DEF Visible
  <2>5. ASSUME NEW i \in 1 .. Len(unread), i # 1, Creates(unread[i], t), KeptAfter(i, t) PROVE Visible(t)'
    <3>1. i - 1 \in 1 .. Len(unread') /\ unread'[i - 1] = unread[i]
      BY <1>2, <2>5
    <3>2. KeptAfter(i - 1, t)'
      BY <1>2, <2>1, <2>5
    <3> QED BY <2>5, <3>1, <3>2 DEF Visible, Creates
  <2> QED BY <1>5, <2>3, <2>4, <2>5 DEF Visible
<1>6. \A t \in Torrents : Queued("remove", t)' = Queued("remove", t) /\ RemovalIsLast(t)' = RemovalIsLast(t)
  BY <1>1 DEF RemovalIsLast, Queued
<1>7. Subscribed /\ Subscribed'
  BY <1>1 DEF Subscribed
<1> QED BY <1>1, <1>5, <1>6, <1>7 DEF VisibleInv

VisibleIfClean == Clean => VisibleInv

LEMMA VisibleInductive == IInv /\ VisibleIfClean /\ [Next]_vars => VisibleIfClean'
<1> SUFFICES ASSUME StateOK, ReceiverOK, VisibleInv, [Next]_vars,
                    ~Resume, ~PersistFails, ~RestartUnhydrated,
                    \A t \in Torrents : ~CommandFails("add", t) /\ ~CommandFails("remove", t)
             PROVE  VisibleInv'
  BY CleanStays DEF IInv, VisibleIfClean
<1>1. CASE \E t \in Torrents : CreateTorrent(t) \/ DeleteTorrent(t) \/ RemoveAction(t)
             \/ HandleAdd(t) \/ HandleRemove(t) \/ RemoveForCleanup(t)
  BY <1>1, CommandsVisible
<1>2. CASE \E t \in Torrents : DeleteTorrentEnd(t)
  BY <1>2, DeleteTorrentEndVisible
<1>3. CASE Observe
  BY <1>3, ObserveVisible
<1>4. ASSUME NEW t \in Torrents,
             ReconcileSelection(t) \/ Poll(t, "Progress") \/ Poll(t, "Downloading") \/ HandleCompleted(t) \/ HandleCompletedEnd(t)
      PROVE  VisibleInv'
  <2>1. PICK kind \in {"SelectionReconciled", "Progress", "Downloading", "Finished", "Completed"} : Publish(kind, t)
    BY <1>4 DEF ReconcileSelection, Poll, HandleCompleted, HandleCompletedEnd
  <2>2. UNCHANGED <<commands, deleting, resending, phase, catalog>>
    BY <1>4 DEF ReconcileSelection, Poll, HandleCompleted, HandleCompletedEnd, api, loop
  <2>3. \A u \in Torrents : session'[u] = "none" <=> session[u] = "none"
    <3>1. UNCHANGED session \/ (session[t] = "active" /\ session' = [session EXCEPT ![t] = "finished"])
      BY <1>4 DEF ReconcileSelection, Poll, HandleCompleted, HandleCompletedEnd, engine
    <3> QED BY <3>1 DEF StateOK
  <2>4. kind \in Kinds \ {"TorrentRemoved"} /\ Subscribed' = Subscribed
    BY <2>2 DEF Kinds, Subscribed
  <2> QED BY <2>1, <2>2, <2>3, <2>4, PublishVisibleInv
<1>5. CASE ApplyFsops \/ ApplyProgress \/ ApplyEnd
  <2>1. /\ phase \in {"apply", "applying"} /\ phase' \in {"applying", "idle"}
        /\ UNCHANGED <<commands, deleting, session, resending, catalog>>
    BY <1>5 DEF ApplyFsops, ApplyProgress, ApplyEnd, loop, api, engine
  <2>2. PICK kind \in {"FsopsStarted", "FsopsProgress", "FsopsCompleted", "FsopsFailed"} : Publish(kind, current.id)
    BY <1>5 DEF ApplyFsops, ApplyProgress, ApplyEnd
  <2>3. kind \in Kinds \ {"TorrentRemoved"} /\ current.id \in Torrents
    BY <2>1 DEF Kinds, StateOK, Event
  <2>4. Subscribed' = Subscribed
    BY <2>1 DEF Subscribed
  <2> QED BY <2>1, <2>2, <2>3, <2>4, PublishVisibleInv
<1>6. CASE Resend
  BY <1>6 DEF Resend, VisibleInv
<1>7. ASSUME UNCHANGED <<commands, deleting, session, unread, lagged, resending, catalog, excused>>,
             phase' = "starting" => phase = "starting",
             Subscribed' => Subscribed \/ (phase = "starting")
      PROVE  VisibleInv'
  BY <1>7 DEF VisibleInv, RemovalIsLast, Queued, Visible, KeptAfter
<1>8. CASE Subscribe \/ PersistRuntime \/ FactoryReset \/ UNCHANGED vars
  <2>1. /\ UNCHANGED <<commands, deleting, session, unread, lagged, resending, catalog, excused>>
        /\ phase' = "starting" => phase = "starting"
        /\ phase \in {"starting", "persist"} \/ phase' = phase
    BY <1>8 DEF Subscribe, PersistRuntime, FactoryReset, AfterPersist, vars, api, engine, channel, loop
  <2> QED BY <1>7, <2>1 DEF Subscribed
<1>9. CASE LoopEnds
  <2>1. /\ phase' = "stopped" /\ lagged' = FALSE
        /\ UNCHANGED <<commands, deleting, session, resending, catalog, excused>>
    BY <1>9 DEF LoopEnds, api, engine
  <2> QED BY <2>1 DEF VisibleInv, Subscribed, RemovalIsLast, Queued
<1>10. CASE Restart
  <2>1. /\ deleting' = {} /\ session' = [t \in Torrents |-> "none"] /\ lagged' = FALSE /\ resending' = <<>>
    BY <1>10 DEF Restart, Reset
  <2> QED BY <2>1 DEF VisibleInv
<1> QED BY <1>1, <1>2, <1>3, <1>4, <1>5, <1>6, <1>8, <1>9, <1>10 DEF Next, LoopStep

LEMMA VisibleHolds == Spec => [](IInv /\ VisibleIfClean)
<1>1. Init => VisibleIfClean
  BY DEF Init, VisibleIfClean, VisibleInv
<1>2. (IInv /\ VisibleIfClean) /\ [Next]_vars => (IInv /\ VisibleIfClean)'
  BY IInvInductive, VisibleInductive
<1> QED BY <1>1, <1>2, IInvHolds, PTL DEF Spec

-----------------------------------------------------------------------------
(* The theorems.                                                           *)

\* Types; the queue, the channel and the replay buffer keep to their
\* capacities, and a loop that is not subscribed has nothing to read.
THEOREM TypeCorrect == Spec => []TypeOK
<1>1. IInv => TypeOK
  BY DEF IInv, StateOK, CountOK, ReceiverOK, TypeOK
<1> QED BY <1>1, IInvHolds, PTL

\* The database holds the catalog whenever the loop is not storing a status:
\* whatever is published meanwhile, re-sent, or cut short by a restart, but for
\* the torrents a failed call or a factory reset left behind.
THEOREM RowsMirror == Spec => []RowsMirrorCatalog
<1>1. IInv => RowsMirrorCatalog
  BY DEF IInv
<1> QED BY <1>1, IInvHolds, PTL

\* Post-processing never fails for want of a status or a library path.
THEOREM SourceKnown == Spec => []SourceIsKnown
<1>1. IInv => SourceIsKnown
  BY DEF IInv
<1> QED BY <1>1, IInvHolds, PTL

\* Once everything on its way has been handled, the catalog has every torrent
\* of the session, but for those created during their own DELETE or published
\* before the loop subscribed: in every order of requests, commands and events,
\* if no call failed and no client resumed its stream.
THEOREM LiveVisible == Spec => []LiveIsVisible
<1>1. IInv /\ VisibleIfClean => LiveIsVisible
  <2> SUFFICES ASSUME VisibleIfClean, Drained, Clean, NEW t \in Torrents \ excused, session[t] # "none"
               PROVE  catalog[t] # None
    BY DEF LiveIsVisible, Clean
  <2>1. /\ Len(commands) = 0 /\ Len(unread) = 0 /\ unread = <<>> /\ Subscribed
    BY DEF Drained, Subscribed
  <2>2. ~lagged /\ ~Queued("remove", t)
    BY <2>1 DEF VisibleIfClean, VisibleInv, Queued
  <2>3. Visible(t)
    BY <2>1, <2>2 DEF VisibleIfClean, VisibleInv
  <2> QED BY <2>1, <2>3 DEF Visible
<1> QED BY <1>1, VisibleHolds, PTL
=============================================================================
