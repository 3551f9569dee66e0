---------------------------- MODULE Orchestrator ----------------------------
(***************************************************************************)
(* The life of a torrent across the components: API handlers enqueue       *)
(* commands for the engine worker, the worker runs them and publishes what *)
(* the libtorrent session reports, and the orchestrator's loop reads these *)
(* events one by one, keeps the catalog the API answers from, stores each  *)
(* status in revaer_runtime.torrents and post-processes what completed.    *)
(*                                                                         *)
(* Sending an event is one step here (EventBus has the locks inside it);   *)
(* the pipeline `apply` is what it publishes (FsOps has its steps).  Of a  *)
(* status the state and the library path are kept; "Progress" stands for   *)
(* every event that creates a missing entry and changes neither,           *)
(* "Downloading" and "Finished" for a change of state; SelectionReconciled *)
(* is the one event that leaves the catalog alone.  The session is         *)
(* external: it reports on the torrents it holds, at any time.             *)
(***************************************************************************)
EXTENDS Naturals, Sequences

CONSTANTS
    Torrents,
    None,           \* no torrent, no status, no row
    Capacity,       \* of the broadcast channel and of the replay buffer
    QueueCapacity,  \* COMMAND_BUFFER
    MaxAdds,        \* bound: requests that add a torrent
    MaxRemovals,    \* bound: DELETE requests, remove actions and cleanups
    MaxReports,     \* bound: optional events of the session and the pipeline
    MaxResumes,     \* bound: event streams resumed with a Last-Event-ID
    MaxErrors,      \* bound: failing commands and database calls
    MaxResets,      \* bound: factory resets
    MaxRestarts     \* bound: crashes of the process

ASSUME CapacityAssumption == Capacity \in Nat \ {0} /\ QueueCapacity \in Nat \ {0}

Bounds == [adds |-> MaxAdds, removals |-> MaxRemovals, reports |-> MaxReports,
           resumes |-> MaxResumes, errors |-> MaxErrors, resets |-> MaxResets,
           restarts |-> MaxRestarts]

VARIABLES
    commands,   \* the worker's queue
    deleting,   \* torrents whose DELETE handler has yet to publish the removal
    session,    \* what the session holds, and whether it reported completion
    reporting,  \* the torrent whose Completed event the worker publishes next
    replay,     \* the replay buffer of the event bus
    unread,     \* the orchestrator's receiver
    lagged,     \* whether that receiver lost its oldest event
    resending,  \* what a resuming client's `subscribe` has yet to re-broadcast
    phase,      \* where the orchestrator's loop is
    current,    \* the event it handles
    catalog,    \* TorrentCatalog: a status or None for each torrent
    rows,       \* revaer_runtime.torrents
    unsaved,    \* history: torrents whose row a failed call or a reset left behind
    excused,    \* history: torrents created during their own DELETE, or with an
                \* event published before the loop subscribed
    count       \* how often each bounded thing has happened

api == <<commands, deleting>>
engine == <<session, reporting>>
channel == <<replay, unread, lagged>>
loop == <<phase, current, catalog, rows, unsaved>>
vars == <<api, engine, channel, resending, loop, excused, count>>

-----------------------------------------------------------------------------
(* Events and statuses.                                                    *)

Kinds == {"TorrentAdded", "SelectionReconciled", "Progress", "Downloading", "Finished", "Completed",
          "TorrentRemoved", "FsopsStarted", "FsopsProgress", "FsopsCompleted", "FsopsFailed"}
Event == [kind : Kinds, id : Torrents]
Ev(kind, t) == [kind |-> kind, id |-> t]

Status == [state : {"queued", "downloading", "completed", "failed"}, library_path : BOOLEAN]
ASSUME NoneAssumption == None \notin Torrents \cup Status
BlankStatus == [state |-> "queued", library_path |-> FALSE]
Command == [op : {"add", "remove"}, id : Torrents]

Within(what) == count[what] < Bounds[what] /\ count' = [count EXCEPT ![what] = @ + 1]

-----------------------------------------------------------------------------
(* The event bus, as the orchestrator sees it.                             *)

Subscribed == phase \notin {"starting", "stopped"}

\* Mutant: events are kept for a loop that has not subscribed.
BroadcastEarly(e) ==
    /\ unread' = Append(IF Len(unread) = Capacity THEN Tail(unread) ELSE unread, e)
    /\ lagged' = (lagged \/ Len(unread) = Capacity)

\* The channel keeps Capacity events; a receiver that has more to read loses
\* the oldest and is told so.
Broadcast(e) ==
    IF ~Subscribed THEN UNCHANGED <<unread, lagged>>
    ELSE /\ unread' = Append(IF Len(unread) = Capacity THEN Tail(unread) ELSE unread, e)
         /\ lagged' = (lagged \/ Len(unread) = Capacity)

Publish(kind, t) ==
    /\ replay' = Append(IF Len(replay) = Capacity THEN Tail(replay) ELSE replay, Ev(kind, t))
    /\ Broadcast(Ev(kind, t))
    /\ excused' = IF phase = "starting" THEN excused \cup {t} ELSE excused

\* A client subscribes with a Last-Event-ID: `replay` takes the later events ...
Resume ==
    /\ resending = <<>> /\ Within("resumes")
    /\ \E n \in 1..Len(replay) : resending' = SubSeq(replay, n, Len(replay))
    /\ UNCHANGED <<api, engine, channel, loop, excused>>

\* ... and sends each of them again, to every subscriber.
Resend ==
    /\ resending # <<>> /\ resending' = Tail(resending)
    /\ Broadcast(Head(resending))
    /\ UNCHANGED <<api, engine, replay, loop, excused, count>>

-----------------------------------------------------------------------------
(* API handlers.  A full queue makes the handler wait.                     *)

Enqueue(op, t) ==
    /\ Len(commands) < QueueCapacity
    /\ commands' = Append(commands, [op |-> op, id |-> t])

CreateTorrent(t) ==
    /\ Within("adds") /\ Enqueue("add", t)
    /\ excused' = IF t \in deleting THEN excused \cup {t} ELSE excused
    /\ UNCHANGED <<deleting, engine, channel, resending, loop>>

\* DELETE: the command is queued; the handler then refreshes the metrics, and
\* publishes the removal without waiting for the worker.
DeleteTorrent(t) ==
    /\ t \notin deleting /\ Within("removals") /\ Enqueue("remove", t)
    /\ deleting' = deleting \cup {t}
    /\ UNCHANGED <<engine, channel, resending, loop, excused>>

DeleteTorrentEnd(t) ==
    /\ t \in deleting /\ deleting' = deleting \ {t}
    /\ Publish("TorrentRemoved", t)
    /\ UNCHANGED <<commands, engine, resending, loop, count>>

\* The remove action, and the qBittorrent facade's delete: only a command.
RemoveAction(t) ==
    /\ Within("removals") /\ Enqueue("remove", t)
    /\ UNCHANGED <<deleting, engine, channel, resending, loop, excused>>

-----------------------------------------------------------------------------
(* The engine worker.                                                      *)

NextCommand(op, t) ==
    /\ reporting = None
    /\ commands # <<>> /\ Head(commands) = [op |-> op, id |-> t]
    /\ commands' = Tail(commands)

\* handle_add, for a torrent with a stored selection that differs.
ReconcileSelection(t) ==
    /\ reporting = None
    /\ commands # <<>> /\ Head(commands) = [op |-> "add", id |-> t]
    /\ Within("reports") /\ Publish("SelectionReconciled", t)
    /\ UNCHANGED <<api, engine, resending, loop>>

HandleAdd(t) ==
    /\ NextCommand("add", t)
    /\ session' = [session EXCEPT ![t] = "active"]
    /\ Publish("TorrentAdded", t)
    /\ UNCHANGED <<deleting, reporting, resending, loop, count>>

HandleRemove(t) ==
    /\ NextCommand("remove", t)
    /\ session' = [session EXCEPT ![t] = "none"]
    /\ UNCHANGED <<deleting, reporting, channel, resending, loop, excused, count>>

\* A call of the session fails, and only the worker's health shows it.  If it
\* is the one that reconciles the selection, the session has the torrent.
CommandFails(op, t) ==
    /\ NextCommand(op, t) /\ Within("errors")
    /\ \/ UNCHANGED session
       \/ op = "add" /\ session' = [session EXCEPT ![t] = "active"]
    /\ UNCHANGED <<deleting, reporting, channel, resending, loop, excused>>

\* flush_session_events, one event of the session at a time.
Poll(t, kind) ==
    /\ reporting = None /\ session[t] # "none"
    /\ kind = "Downloading" => session[t] = "active"
    /\ Within("reports") /\ Publish(kind, t)
    /\ UNCHANGED <<api, engine, resending, loop>>

\* handle_completed publishes two events.
HandleCompleted(t) ==
    /\ reporting = None /\ session[t] = "active"
    /\ session' = [session EXCEPT ![t] = "finished"]
    /\ reporting' = t
    /\ Publish("Finished", t)
    /\ UNCHANGED <<api, resending, loop, count>>

HandleCompletedEnd(t) ==
    /\ reporting = t /\ reporting' = None
    /\ Publish("Completed", t)
    /\ UNCHANGED <<api, session, resending, loop, count>>

\* apply_actions: the cleanup policy of a seeding torrent is met.
RemoveForCleanup(t) ==
    /\ reporting = None /\ session[t] = "finished" /\ Within("removals")
    /\ session' = [session EXCEPT ![t] = "none"]
    /\ UNCHANGED <<api, reporting, channel, resending, loop, excused>>

-----------------------------------------------------------------------------
(* TorrentCatalog.                                                         *)

EnsureEntry(entry) == IF entry = None THEN BlankStatus ELSE entry

\* Mutant: events only update entries that are there.
ApplyEventToKnown(entry, kind) ==
    IF entry = None \/ kind = "TorrentRemoved" THEN None
    ELSE CASE kind = "TorrentAdded" -> BlankStatus
           [] kind = "Completed" -> [state |-> "completed", library_path |-> TRUE]
           [] OTHER -> entry

\* apply_event: the status an event leaves a torrent with.
ApplyEvent(entry, kind) ==
    CASE kind = "TorrentRemoved" -> None
      [] kind = "TorrentAdded" -> BlankStatus
      [] kind = "Downloading" -> [EnsureEntry(entry) EXCEPT !.state = "downloading"]
      [] kind = "Finished" -> [EnsureEntry(entry) EXCEPT !.state = "completed"]
      [] kind = "Completed" -> [state |-> "completed", library_path |-> TRUE]
      [] kind = "FsopsFailed" -> [EnsureEntry(entry) EXCEPT !.state = "failed"]
      [] kind = "SelectionReconciled" -> entry
      [] OTHER -> EnsureEntry(entry)

-----------------------------------------------------------------------------
(* The orchestrator.                                                       *)

\* The spawned task runs for the first time.
Subscribe ==
    /\ phase = "starting" /\ phase' = "idle"
    /\ UNCHANGED <<api, engine, channel, resending, current, catalog, rows, unsaved, excused, count>>

\* handle_event: first the catalog ...
Observe ==
    /\ phase = "idle" /\ ~lagged /\ unread # <<>>
    /\ unread' = Tail(unread) /\ current' = Head(unread)
    /\ catalog' = [catalog EXCEPT ![Head(unread).id] = ApplyEvent(@, Head(unread).kind)]
    /\ phase' = "persist"
    /\ UNCHANGED <<api, engine, replay, lagged, resending, rows, unsaved, excused, count>>

AfterPersist == IF current.kind = "Completed" THEN "apply" ELSE "idle"

\* Storing the status mends the row; an event that left none stores nothing.
StillUnsaved ==
    IF current.kind # "TorrentRemoved" /\ catalog[current.id] = None THEN unsaved
    ELSE unsaved \ {current.id}

\* Mutant: a removal is not stored.
PersistRuntimeUpsertOnly ==
    /\ phase = "persist" /\ phase' = AfterPersist
    /\ rows' = [rows EXCEPT ![current.id] = IF catalog[current.id] = None THEN @ ELSE catalog[current.id]]
    /\ unsaved' = StillUnsaved
    /\ UNCHANGED <<api, engine, channel, resending, current, catalog, excused, count>>

\* ... then the database: the row is deleted or gets the catalog's status, if
\* there is one ...
PersistRuntime ==
    /\ phase = "persist" /\ phase' = AfterPersist
    /\ rows' = [rows EXCEPT ![current.id] =
                  IF current.kind = "TorrentRemoved" THEN None
                  ELSE IF catalog[current.id] = None THEN @ ELSE catalog[current.id]]
    /\ unsaved' = StillUnsaved
    /\ UNCHANGED <<api, engine, channel, resending, current, catalog, excused, count>>

\* ... which may fail, and is logged.
PersistFails ==
    /\ phase = "persist" /\ phase' = AfterPersist /\ Within("errors")
    /\ unsaved' = unsaved \cup {current.id}
    /\ UNCHANGED <<api, engine, channel, resending, current, catalog, rows, excused>>

\* ... then, for a completed torrent, apply_fsops.  It needs the library path
\* (SourceIsKnown); publishing is all the rest of it does here.
ApplyFsops ==
    /\ phase = "apply" /\ phase' = "applying"
    /\ catalog[current.id] # None /\ catalog[current.id].library_path
    /\ Publish("FsopsStarted", current.id)
    /\ UNCHANGED <<api, engine, resending, current, catalog, rows, unsaved, count>>

ApplyProgress ==
    /\ phase = "applying" /\ Within("reports")
    /\ Publish("FsopsProgress", current.id)
    /\ UNCHANGED <<api, engine, resending, loop>>

\* Mutant: an error of the pipeline ends the loop.
ApplyEndOrStop ==
    /\ phase = "applying"
    /\ \/ Publish("FsopsCompleted", current.id) /\ phase' = "idle"
       \/ Publish("FsopsFailed", current.id) /\ phase' = "failed"
    /\ UNCHANGED <<api, engine, resending, current, catalog, rows, unsaved, count>>

\* `apply` returns; an error is logged and the loop goes on.
ApplyEnd ==
    /\ phase = "applying" /\ phase' = "idle"
    /\ Publish("FsopsCompleted", current.id) \/ Publish("FsopsFailed", current.id)
    /\ UNCHANGED <<api, engine, resending, current, catalog, rows, unsaved, count>>

\* The receiver lagged: `while let Some(Ok(..))` ends, and with it the task.
LoopEnds ==
    /\ phase = "idle" /\ lagged
    /\ phase' = "stopped" /\ unread' = <<>> /\ lagged' = FALSE
    /\ UNCHANGED <<api, engine, replay, resending, current, catalog, rows, unsaved, excused, count>>

-----------------------------------------------------------------------------
\* POST /v1/factory-reset truncates every table of revaer_runtime, at any time;
\* the catalog, the worker and the session are not told.
FactoryReset ==
    /\ Within("resets")
    /\ rows' = [t \in Torrents |-> None]
    /\ unsaved' = {t \in Torrents : catalog[t] # None}
    /\ UNCHANGED <<api, engine, channel, resending, phase, current, catalog, excused>>

\* The process dies and is started again; the session starts empty.
Reset ==
    /\ commands' = <<>> /\ deleting' = {}
    /\ session' = [t \in Torrents |-> "none"] /\ reporting' = None
    /\ replay' = <<>> /\ unread' = <<>> /\ lagged' = FALSE /\ resending' = <<>>
    /\ phase' = "starting"
    /\ UNCHANGED <<current, rows, excused>>

\* spawn_libtorrent_orchestrator seeds the catalog from the database ...
Restart == Reset /\ Within("restarts") /\ catalog' = rows /\ unsaved' = {}

\* ... or logs that it could not, and goes on with an empty one.
RestartUnhydrated ==
    /\ Reset
    /\ count["restarts"] < MaxRestarts /\ count["errors"] < MaxErrors
    /\ count' = [count EXCEPT !["restarts"] = @ + 1, !["errors"] = @ + 1]
    /\ catalog' = [t \in Torrents |-> None]
    /\ unsaved' = {t \in Torrents : rows[t] # None}

Init ==
    /\ commands = <<>> /\ deleting = {}
    /\ session = [t \in Torrents |-> "none"] /\ reporting = None
    /\ replay = <<>> /\ unread = <<>> /\ lagged = FALSE /\ resending = <<>>
    /\ phase = "starting" /\ current = None
    /\ catalog = [t \in Torrents |-> None] /\ rows = [t \in Torrents |-> None]
    /\ unsaved = {} /\ excused = {}
    /\ count = [what \in DOMAIN Bounds |-> 0]

LoopStep == Subscribe \/ Observe \/ PersistRuntime \/ ApplyFsops \/ ApplyEnd \/ LoopEnds

Next ==
    \/ Resume \/ Resend
    \/ \E t \in Torrents :
         \/ CreateTorrent(t) \/ DeleteTorrent(t) \/ DeleteTorrentEnd(t) \/ RemoveAction(t)
         \/ ReconcileSelection(t) \/ HandleAdd(t) \/ HandleRemove(t)
         \/ CommandFails("add", t) \/ CommandFails("remove", t)
         \/ Poll(t, "Progress") \/ Poll(t, "Downloading")
         \/ HandleCompleted(t) \/ HandleCompletedEnd(t) \/ RemoveForCleanup(t)
    \/ LoopStep \/ PersistFails \/ ApplyProgress
    \/ FactoryReset \/ Restart \/ RestartUnhydrated

Spec == Init /\ [][Next]_vars

\* The runtime polls the loop's task.
FairSpec == Spec /\ WF_vars(LoopStep)

-----------------------------------------------------------------------------
(* Properties.                                                             *)

Phases == {"starting", "idle", "persist", "apply", "applying", "stopped"}

\* Types; neither the channel nor the queue outgrows its capacity, and only a
\* subscribed loop has anything to read.
TypeOK ==
    /\ commands \in Seq(Command) /\ Len(commands) <= QueueCapacity
    /\ deleting \subseteq Torrents
    /\ session \in [Torrents -> {"none", "active", "finished"}]
    /\ reporting \in Torrents \cup {None}
    /\ replay \in Seq(Event) /\ Len(replay) <= Capacity
    /\ unread \in Seq(Event) /\ Len(unread) <= Capacity
    /\ lagged \in BOOLEAN
    /\ resending \in Seq(Event)
    /\ phase \in Phases
    /\ ~Subscribed => unread = <<>> /\ ~lagged
    /\ current \in Event \cup {None}
    /\ phase \in {"persist", "apply", "applying"} => current \in Event
    /\ catalog \in [Torrents -> Status \cup {None}]
    /\ rows \in [Torrents -> Status \cup {None}]
    /\ unsaved \subseteq Torrents /\ excused \subseteq Torrents
    /\ count \in [DOMAIN Bounds -> Nat]

\* Between events the database holds exactly the catalog, for every torrent
\* but the one being stored: whatever is published or re-sent in between, and
\* across restarts in the middle of an event.  A row departs only for the
\* torrent whose own database call failed, or when a factory reset or a failed
\* seeding took one of the two away, and the next status stored mends it.
RowsMirrorCatalog ==
    \A t \in Torrents \ unsaved :
      rows[t] = catalog[t] \/ (phase = "persist" /\ current.id = t)

\* apply_fsops never fails for want of a status or of its library path: no
\* event read before can have taken them away.
SourceIsKnown ==
    phase = "apply" => catalog[current.id] # None /\ catalog[current.id].library_path

\* Nothing is on its way.
Drained ==
    /\ commands = <<>> /\ deleting = {} /\ reporting = None
    /\ unread = <<>> /\ resending = <<>> /\ phase = "idle"

\* Once everything has been handled, a torrent in the session is one the API
\* can show, unless one of the two known gaps hit it (excused).  A client that
\* resumes its stream opens a third: it has an old TorrentRemoved sent again,
\* which hides a torrent that was added anew.
LiveIsVisible ==
    Drained /\ count["errors"] = 0 /\ count["resumes"] = 0 =>
      \A t \in Torrents \ excused : session[t] # "none" => catalog[t] # None

Unread(kind, t) == \E i \in DOMAIN unread : unread[i] = Ev(kind, t)
Applying(t) == phase = "applying" /\ current.id = t

\* A completion the loop has been sent is post-processed, whatever failed
\* before it, unless the loop ends or the process does before that.
CompletionIsProcessed ==
    \A t \in Torrents, n \in 0..MaxRestarts :
      Unread("Completed", t) /\ count["restarts"] = n
        ~> (Applying(t) \/ phase = "stopped" \/ count["restarts"] > n)
=============================================================================
