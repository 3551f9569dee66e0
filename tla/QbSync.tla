------------------------------- MODULE QbSync -------------------------------
(* Incremental sync of the qBittorrent facade (compat_qb.rs, sync_maindata). *)
(* A client polls with the rid of the last answer; the server answers from   *)
(* three sources it reads one after another: the torrent catalog, which      *)
(* follows the event bus at a distance, the bus's replay buffer, and the     *)
(* facade's own metadata.  The client merges the answer into its view.       *)
EXTENDS Naturals, Sequences, SequencesExt

CONSTANTS
    Torrents,
    Statuses,       \* what the catalog may say of a torrent
    None,
    Capacity,       \* of the replay buffer
    MaxEvents,      \* bound on the events of one process
    MaxOdd          \* bound on restarts, events sent again and unannounced changes

ASSUME CapacityAssumption == Capacity \in Nat \ {0}
ASSUME BoundsAssumption == MaxEvents \in Nat
ASSUME NoneAssumption == None \notin Statuses \cup [status : Statuses, label : BOOLEAN]

VARIABLES
    nextId,         \* of the event bus
    sending,        \* events that have an id and are not in the buffer yet
    replay,         \* the replay buffer
    pushed,         \* events that are in the buffer and not broadcast yet
    unread,         \* events the orchestrator has yet to observe
    catalog,        \* per torrent its status, or None; stored in the database
    metadata,       \* per torrent the facade's metadata, in memory only
    unannounced,    \* torrents whose metadata was set and not yet published
    pc, statuses, last, backlog,    \* sync_maindata between its reads
    rid, view,      \* the client
    \* History: torrents whose status the client has been told too early, or that
    \* an event sent again may have changed since (late), torrents an answer left
    \* out (skipped), both of this answer (Now) and of earlier ones, torrents
    \* whose metadata changed with no event since they were last reported, and all
    \* events of this process.
    lateNow, late, skippedNow, skipped, silent, published,
    odd             \* restarts, events sent again and unannounced changes so far

bus == <<nextId, sending, replay, pushed, published>>
server == <<unread, catalog, metadata, unannounced>>
request == <<pc, statuses, last, backlog, lateNow, skippedNow>>
client == <<rid, view, late, skipped, silent>>
vars == <<bus, server, request, client, odd>>

\* What an event says: that the torrent is gone, that its metadata was set, or
\* anything else of it.
Event == [id : Nat \ {0}, torrent : Torrents, kind : {"removed", "metadata", "changed"}]
Entry == [status : Statuses, label : BOOLEAN]

\* Of the torrents in a set of events.
About(events) == {e.torrent : e \in events}
InBuffer == ToSet(replay)

-----------------------------------------------------------------------------
\* EventBus::send, with another publisher perhaps in between: an id, ...
Number(t, kind) ==
    /\ nextId <= MaxEvents
    /\ LET e == [id |-> nextId, torrent |-> t, kind |-> kind]
       IN sending' = sending \cup {e} /\ published' = published \cup {e}
    /\ nextId' = nextId + 1
    /\ UNCHANGED <<replay, pushed>>

\* ... then the buffer, ...  What is pushed while an answer is under way reaches
\* the buffer after the statuses were listed; what has a lower id than the
\* answer's rid is never asked for.
Push ==
    \E e \in sending :
        /\ sending' = sending \ {e} /\ pushed' = pushed \cup {e}
        /\ replay' = Append(IF Len(replay) = Capacity THEN Tail(replay) ELSE replay, e)
        /\ lateNow' = IF pc = "listed" THEN lateNow \cup {e.torrent} ELSE lateNow
        /\ UNCHANGED <<nextId, published, server, pc, statuses, last, backlog, skippedNow, client, odd>>

\* ... then the channel to the orchestrator.
Broadcast ==
    \E e \in pushed :
        /\ pushed' = pushed \ {e} /\ unread' = Append(unread, e)
        /\ UNCHANGED <<nextId, sending, replay, published, catalog, metadata, unannounced, request, client, odd>>

\* An SSE stream resumes: EventBus::replay sends what it found in the buffer to
\* everyone once more, with the ids it has.
Resend ==
    /\ odd < MaxOdd /\ odd' = odd + 1
    /\ \E e \in published \ sending :
        /\ unread' = Append(unread, e)
        /\ late' = late \cup {e.torrent}
        /\ lateNow' = IF pc = "idle" THEN lateNow ELSE lateNow \cup {e.torrent}
    /\ UNCHANGED <<bus, catalog, metadata, unannounced, pc, statuses, last, backlog, skippedNow,
                   rid, view, skipped, silent>>

\* The bound leaves room for the events of metadata already set.
Room == nextId + Cardinality(unannounced) <= MaxEvents

\* The engine adds, changes or removes a torrent and says so.
EngineEvent(t) ==
    /\ Room /\ \E kind \in {"removed", "changed"} : Number(t, kind)
    /\ UNCHANGED <<server, request, client, odd>>

\* The orchestrator's loop: TorrentCatalog::observe, and the database.  An event
\* of any other kind than a removal writes parts of the status, of a blank one
\* (ensure_entry) if the torrent is unknown.
Observe ==
    /\ unread # <<>> /\ unread' = Tail(unread)
    /\ LET e == Head(unread)
       IN \E status \in (IF e.kind = "removed" THEN {None} ELSE Statuses) :
            catalog' = [catalog EXCEPT ![e.torrent] = status]
    /\ UNCHANGED <<bus, metadata, unannounced, request, client, odd>>

\* update_metadata_and_publish: the metadata, then the event.
UpdateMetadata(t) ==
    /\ t \notin unannounced /\ Room
    /\ metadata' = [metadata EXCEPT ![t] = ~@] /\ unannounced' = unannounced \cup {t}
    /\ UNCHANGED <<bus, unread, catalog, request, client, odd>>

PublishMetadataRefresh(t) ==
    /\ t \in unannounced /\ Number(t, "metadata") /\ unannounced' = unannounced \ {t}
    /\ UNCHANGED <<unread, catalog, metadata, request, client, odd>>

\* Adding a torrent, and the actions that move and remove one, set or drop its
\* metadata and publish nothing.  (The engine's own events of the torrent come
\* before or after, or not at all.)
SetMetadata(t) ==
    /\ odd < MaxOdd /\ odd' = odd + 1
    /\ metadata' = [metadata EXCEPT ![t] = ~@] /\ silent' = silent \cup {t}
    /\ UNCHANGED <<bus, unread, catalog, unannounced, request, rid, view, late, skipped>>

-----------------------------------------------------------------------------
\* sync_maindata: list the statuses, ...
ListStatuses ==
    /\ pc = "idle" /\ pc' = "listed"
    /\ statuses' = catalog
    /\ lateNow' = About(ToSet(unread) \cup pushed) /\ skippedNow' = {}
    /\ UNCHANGED <<bus, server, last, backlog, client, odd>>

\* Mutant: the id the next event will have.
ReadNextEventId ==
    /\ pc = "listed" /\ pc' = "numbered"
    /\ last' = nextId
    /\ skippedNow' = skippedNow \cup About({e \in sending : e.id <= last'})
    /\ UNCHANGED <<bus, server, statuses, backlog, lateNow, client, odd>>

\* ... read last_event_id (the event at the back of the buffer), ...
ReadLastEventId ==
    /\ pc = "listed" /\ pc' = "numbered"
    /\ last' = IF replay = <<>> THEN rid ELSE Last(replay).id
    /\ skippedNow' = skippedNow \cup About({e \in sending : e.id <= last'})
    /\ UNCHANGED <<bus, server, statuses, backlog, lateNow, client, odd>>

\* ... collect the events since the client's rid, ...
BacklogSince ==
    /\ pc = "numbered" /\ pc' = "collected"
    /\ backlog' = IF rid = 0 THEN {} ELSE {e \in InBuffer : e.id > rid}
    /\ UNCHANGED <<bus, server, statuses, last, lateNow, skippedNow, client, odd>>

Gap == rid # 0 /\ last > rid /\ backlog = {}
NeedFullUpdate == rid = 0 \/ Gap

\* Mutant: MetadataUpdated is not among the events that are looked for.
ReportedUnlessMetadata == IF NeedFullUpdate THEN Torrents ELSE About({e \in backlog : e.kind # "metadata"})

Reported == IF NeedFullUpdate THEN Torrents ELSE About(backlog)

\* Mutant: the changed torrents that are gone are left out.
AnswerKept == [t \in Torrents |->
    IF t \notin Reported \/ statuses[t] = None THEN view[t]
    ELSE [status |-> statuses[t], label |-> metadata[t]]]

\* ... and answer with the listed status and the present metadata of what
\* changed; what has no status is reported as removed.
Answer == [t \in Torrents |->
    IF t \notin Reported THEN view[t]
    ELSE IF statuses[t] = None THEN None
    ELSE [status |-> statuses[t], label |-> metadata[t]]]

\* Events the client lacks and that had left the buffer, or all of them after a
\* restart, whose ids begin anew.
Unreported ==
    IF NeedFullUpdate THEN {}
    ELSE IF last < rid THEN Torrents
    ELSE About({e \in published \ sending : e.id > rid /\ (e.id <= last \/ e \notin InBuffer)}) \ About(backlog)

\* The handler's variables are gone when it ends.
Ended == /\ pc' = "idle" /\ statuses' = [t \in Torrents |-> None]
         /\ last' = 0 /\ backlog' = {} /\ lateNow' = {} /\ skippedNow' = {}

\* Mutant: an answer that has events later than its rid is held back.
RespondCurrent ==
    /\ pc = "collected" /\ Ended
    /\ \A e \in backlog : e.id <= last
    /\ view' = Answer /\ rid' = last
    /\ late' = (late \ Reported) \cup lateNow
    /\ skipped' = (skipped \ Reported) \cup skippedNow \cup Unreported
    /\ silent' = silent \ Reported
    /\ UNCHANGED <<bus, server, odd>>

Respond ==
    /\ pc = "collected" /\ Ended
    /\ view' = Answer /\ rid' = last
    /\ late' = (late \ Reported) \cup lateNow
    /\ skipped' = (skipped \ Reported) \cup skippedNow \cup Unreported
    /\ silent' = silent \ Reported
    /\ UNCHANGED <<bus, server, odd>>

\* The process ends and starts again; the client does not notice.
Restart ==
    /\ odd < MaxOdd /\ odd' = odd + 1
    /\ nextId' = 1 /\ sending' = {} /\ replay' = <<>> /\ pushed' = {} /\ published' = {}
    /\ unread' = <<>> /\ unannounced' = {} /\ metadata' = [t \in Torrents |-> FALSE]
    /\ Ended /\ skipped' = Torrents /\ late' = {} /\ silent' = {}
    /\ UNCHANGED <<catalog, rid, view>>

-----------------------------------------------------------------------------
Init ==
    /\ nextId = 1 /\ sending = {} /\ replay = <<>> /\ pushed = {} /\ published = {}
    /\ unread = <<>> /\ catalog = [t \in Torrents |-> None]
    /\ metadata = [t \in Torrents |-> FALSE] /\ unannounced = {}
    /\ pc = "idle" /\ statuses = [t \in Torrents |-> None] /\ last = 0 /\ backlog = {}
    /\ lateNow = {} /\ skippedNow = {}
    /\ rid = 0 /\ view = [t \in Torrents |-> None] /\ late = {} /\ skipped = {} /\ silent = {}
    /\ odd = 0

Sync == ListStatuses \/ ReadLastEventId \/ BacklogSince \/ Respond

Next ==
    \/ \E t \in Torrents : EngineEvent(t) \/ UpdateMetadata(t) \/ PublishMetadataRefresh(t) \/ SetMetadata(t)
    \/ Push \/ Broadcast \/ Resend \/ Observe
    \/ Sync \/ Restart

Spec == Init /\ [][Next]_vars

\* Publishers and the orchestrator's loop go on, and the client keeps polling.
FairSpec ==
    /\ Spec /\ WF_vars(Push) /\ WF_vars(Broadcast) /\ WF_vars(Observe) /\ WF_vars(Sync)

-----------------------------------------------------------------------------
(* Properties.                                                             *)

\* Types; the replay buffer keeps to its capacity.
TypeOK ==
    /\ nextId \in 1 .. MaxEvents + 1 /\ sending \cup pushed \subseteq Event
    /\ ToSet(replay) \subseteq Event /\ Len(replay) <= Capacity
    /\ ToSet(unread) \subseteq Event /\ published \subseteq Event
    /\ catalog \in [Torrents -> Statuses \cup {None}] /\ statuses \in [Torrents -> Statuses \cup {None}]
    /\ metadata \in [Torrents -> BOOLEAN] /\ unannounced \subseteq Torrents
    /\ pc \in {"idle", "listed", "numbered", "collected"}
    /\ last \in 0 .. MaxEvents /\ rid \in 0 .. MaxEvents /\ backlog \subseteq Event
    /\ view \in [Torrents -> Entry \cup {None}]
    /\ late \cup lateNow \cup skipped \cup skippedNow \cup silent \subseteq Torrents

\* An event of the torrent is still to reach the client.
Coming(t) == t \in About({e \in published : e.id > rid})
Seen(t) == IF view[t] = None THEN None ELSE view[t].status

\* A client that has synced once shows every torrent as the catalog has it, or
\* an event is still to come for it.  The exceptions are the torrents it was
\* told of from a catalog older than the rid of the answer or that an event sent
\* again has changed since, and those no answer mentioned although they changed:
\* because their events had left the buffer, were pushed after a later one, or
\* belong to another run of the process.
ViewFollowsCatalog ==
    rid # 0 => \A t \in Torrents \ (late \cup skipped) : Seen(t) = catalog[t] \/ Coming(t)

\* A change of the facade's metadata that is announced is never overtaken by the
\* rid of an answer that does not have it: the event is published after the
\* change and the metadata is read after last_event_id
\* (update_metadata_and_publish).  One that is not announced (add, move, remove)
\* is seen with the next report of the torrent.
MetadataIsSeen ==
    rid # 0 => \A t \in Torrents \ (skipped \cup silent) :
        view[t] # None => view[t].label = metadata[t] \/ t \in unannounced \/ Coming(t)

\* A client that keeps polling comes to show what the catalog has, again and
\* again and with the same exceptions.
ClientConverges == []<>(\A t \in Torrents \ (late \cup skipped) : Seen(t) = catalog[t])
=============================================================================
