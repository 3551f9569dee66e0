---------------------------- MODULE QbSyncProofs ----------------------------
(***************************************************************************)
(* Proofs about QbSync, for any torrents and statuses, any capacity of the *)
(* replay buffer and any bounds: types, and a client that is told of every *)
(* change, or at least of an event still to come for it.                   *)
(***************************************************************************)
EXTENDS QbSync, TLAPS

-----------------------------------------------------------------------------
(* The inductive invariant.                                                *)

SequencesOK == replay \in Seq(Event) /\ unread \in Seq(Event)

\* An event of the torrent has a higher id than this one.
Ahead(t, id) == \E e \in published : e.torrent = t /\ e.id > id
\* An event of the torrent has yet to reach the catalog.
Waiting(t) == \E e \in ToSet(unread) \cup pushed : e.torrent = t
Owed(t) == Waiting(t) \/ \E e \in sending : e.torrent = t

\* Every event anywhere was published by this process, with an id below the next.
IssuedInv ==
    /\ sending \subseteq published /\ pushed \subseteq published
    /\ ToSet(replay) \subseteq published /\ ToSet(unread) \subseteq published
    /\ \A e \in published : e.id < nextId

\* The statuses an answer has listed are those of the catalog, unless the
\* torrent is marked as late.
ListedInv ==
    pc = "listed" => \A t \in Torrents \ lateNow : statuses[t] = catalog[t] /\ ~Waiting(t)

\* The rid of an answer under way is the client's own or one this process has
\* given.  If it is new, then what it passes over is marked, and the status of
\* every other torrent is the catalog's or will be reported by a later answer.
NumberedInv ==
    pc \in {"numbered", "collected"} =>
        /\ last = rid \/ last < nextId
        /\ last # rid =>
            /\ \A e \in sending : e.id <= last => e.torrent \in skippedNow
            /\ \A t \in Torrents \ (lateNow \cup skippedNow) :
                 Ahead(t, last) \/ (statuses[t] = catalog[t] /\ ~Waiting(t))

CollectedInv == pc = "collected" => \A e \in backlog : e \in published /\ e.id > rid

\* What the client shows of a torrent that no answer has skipped and that no
\* event beyond its rid is about.
Settled(t) == rid # 0 /\ t \notin skipped /\ ~Ahead(t, rid)
ViewInv ==
    \A t \in Torrents :
        /\ rid # 0 /\ t \notin skipped => rid < nextId
        /\ Settled(t) /\ t \notin late => Seen(t) = catalog[t] /\ ~Owed(t)
        /\ Settled(t) /\ t \notin unannounced \cup silent /\ view[t] # None => view[t].label = metadata[t]

IInv ==
    /\ TypeOK /\ SequencesOK /\ IssuedInv
    /\ ListedInv /\ NumberedInv /\ CollectedInv
    /\ ViewInv

-----------------------------------------------------------------------------
(* The sequences of events.                                                *)

LEMMA EmptySet == ToSet(<<>>) = {}
BY DEF ToSet

LEMMA AppendSet ==
  ASSUME NEW s \in Seq(Event), NEW e \in Event
  PROVE  /\ Append(s, e) \in Seq(Event) /\ Len(Append(s, e)) = Len(s) + 1
         /\ ToSet(Append(s, e)) = ToSet(s) \cup {e}
<1> DEFINE r == Append(s, e)
<1>1. /\ r \in Seq(Event) /\ Len(s) \in Nat /\ Len(r) = Len(s) + 1
      /\ DOMAIN s = 1 .. Len(s) /\ DOMAIN r = 1 .. Len(s) + 1
  OBVIOUS
<1>2. (\A i \in 1 .. Len(s) : r[i] = s[i]) /\ r[Len(s) + 1] = e
  OBVIOUS
<1> HIDE DEF r
<1>3. ToSet(r) \subseteq ToSet(s) \cup {e}
  BY <1>1, <1>2 DEF ToSet
<1>4. ToSet(s) \subseteq ToSet(r) /\ e \in ToSet(r)
  BY <1>1, <1>2 DEF ToSet
<1>5. r \in Seq(Event) /\ Len(r) = Len(s) + 1 /\ ToSet(r) = ToSet(s) \cup {e}
  BY <1>1, <1>3, <1>4
<1> QED BY <1>5 DEF r

LEMMA TailSet ==
  ASSUME NEW s \in Seq(Event), s # <<>>
  PROVE  /\ Tail(s) \in Seq(Event) /\ Len(Tail(s)) = Len(s) - 1
         /\ Head(s) \in Event /\ Head(s) \in ToSet(s)
         /\ ToSet(Tail(s)) \subseteq ToSet(s)
         /\ ToSet(s) = {Head(s)} \cup ToSet(Tail(s))
<1>1. /\ Tail(s) \in Seq(Event) /\ Len(Tail(s)) = Len(s) - 1
      /\ Head(s) = s[1] /\ 1 \in DOMAIN s /\ Len(s) \in Nat /\ DOMAIN s = 1 .. Len(s)
      /\ DOMAIN Tail(s) = 1 .. Len(s) - 1
      /\ \A i \in 1 .. Len(s) - 1 : Tail(s)[i] = s[i + 1]
  OBVIOUS
<1>2. Head(s) \in Event /\ Head(s) \in ToSet(s)
  BY <1>1 DEF ToSet
<1>3. ToSet(Tail(s)) \subseteq ToSet(s)
  BY <1>1 DEF ToSet
<1>4. ASSUME NEW e \in ToSet(s), e # Head(s) PROVE e \in ToSet(Tail(s))
  <2>1. PICK i \in 1 .. Len(s) : e = s[i]
    BY <1>1 DEF ToSet
  <2>2. i # 1
    BY <1>1, <1>4, <2>1
  <2>3. i - 1 \in 1 .. Len(s) - 1 /\ Tail(s)[i - 1] = s[i]
    BY <1>1, <2>2
  <2> QED BY <1>1, <2>1, <2>3 DEF ToSet
<1> QED BY <1>1, <1>2, <1>3, <1>4

LEMMA LastInSet ==
  ASSUME NEW s \in Seq(Event), s # <<>>
  PROVE  Last(s) \in ToSet(s)
<1>1. Len(s) \in DOMAIN s
  OBVIOUS
<1> QED BY <1>1 DEF ToSet, Last

\* The replay buffer, when it is full or not.
LEMMA PushSet ==
  ASSUME NEW s \in Seq(Event), Len(s) <= Capacity, NEW e \in Event,
         NEW r, r = Append(IF Len(s) = Capacity THEN Tail(s) ELSE s, e)
  PROVE  r \in Seq(Event) /\ Len(r) <= Capacity /\ ToSet(r) \subseteq ToSet(s) \cup {e}
<1>1. CASE Len(s) = Capacity
  <2>1. s # <<>>
    BY <1>1, CapacityAssumption
  <2>2. Tail(s) \in Seq(Event) /\ Len(Tail(s)) = Len(s) - 1 /\ ToSet(Tail(s)) \subseteq ToSet(s)
    BY <2>1, TailSet
  <2>3. r = Append(Tail(s), e)
    BY <1>1
  <2>4. r \in Seq(Event) /\ ToSet(r) = ToSet(Tail(s)) \cup {e} /\ Len(r) = Len(Tail(s)) + 1
    BY <2>2, <2>3, AppendSet
  <2> QED BY <1>1, <2>2, <2>4, CapacityAssumption
<1>2. CASE Len(s) # Capacity
  <2>1. r = Append(s, e)
    BY <1>2
  <2>2. r \in Seq(Event) /\ ToSet(r) = ToSet(s) \cup {e} /\ Len(r) = Len(s) + 1
    BY <2>1, AppendSet
  <2>3. Len(s) \in Nat
    OBVIOUS
  <2> QED BY <1>2, <2>2, <2>3, CapacityAssumption
<1> QED BY <1>1, <1>2

-----------------------------------------------------------------------------
LEMMA InitInv == Init => IInv
<1> SUFFICES ASSUME Init PROVE IInv
  OBVIOUS
<1>1. SequencesOK /\ ToSet(replay) = {} /\ ToSet(unread) = {} /\ Len(replay) = 0
  BY EmptySet DEF Init, SequencesOK
<1>2. TypeOK
  BY <1>1, CapacityAssumption, BoundsAssumption DEF Init, TypeOK
<1> QED BY <1>1, <1>2 DEF Init, IInv, IssuedInv, ListedInv, NumberedInv, CollectedInv, ViewInv, Settled

\* An event gets its id: it is ahead of the rid of every client that no answer
\* of another process has given.
LEMMA NumberInv ==
  ASSUME IInv, NEW t \in Torrents, NEW kind \in {"removed", "metadata", "changed"}, Number(t, kind),
         UNCHANGED <<unread, catalog, request, client, odd>>
  PROVE  /\ SequencesOK' /\ IssuedInv' /\ ListedInv' /\ NumberedInv' /\ CollectedInv'
         /\ nextId' \in 1 .. MaxEvents + 1 /\ sending' \subseteq Event /\ published' \subseteq Event
         /\ \A u \in Torrents : rid # 0 /\ u \notin skipped =>
              /\ rid' < nextId' /\ (Ahead(u, rid) => Ahead(u, rid)') /\ (u = t => Ahead(t, rid)')
              /\ ~Ahead(u, rid)' => ~Ahead(u, rid) /\ (Owed(u)' => Owed(u))
         /\ UNCHANGED <<replay, pushed, unread, rid, view, late, skipped, silent>>
<1> DEFINE e == [id |-> nextId, torrent |-> t, kind |-> kind]
<1>1. /\ nextId <= MaxEvents /\ nextId' = nextId + 1
      /\ sending' = sending \cup {e} /\ published' = published \cup {e}
  BY DEF Number
<1>2. UNCHANGED <<replay, pushed, unread, catalog, pc, statuses, last, backlog, lateNow, skippedNow, rid, view, late, skipped, silent>>
  BY DEF Number, request, client
<1>3. nextId \in 1 .. MaxEvents + 1 /\ last \in Nat /\ rid \in Nat /\ MaxEvents \in Nat
  BY BoundsAssumption DEF IInv, TypeOK
<1>4. e \in Event /\ e.id = nextId /\ e.torrent = t
  BY <1>3 DEF Event
<1> HIDE DEF e
<1>5. \A f \in published : f.id \in Nat /\ f.id < nextId
  BY DEF IInv, TypeOK, IssuedInv, Event
<1>6. SequencesOK' /\ IssuedInv'
  BY <1>1, <1>2, <1>3, <1>4, <1>5 DEF IInv, SequencesOK, IssuedInv
<1>7. \A u \in Torrents : Waiting(u)' = Waiting(u)
  BY <1>2 DEF Waiting
<1>8. ListedInv'
  BY <1>2, <1>7 DEF IInv, ListedInv
<1>10. NumberedInv'
  <2> SUFFICES ASSUME pc \in {"numbered", "collected"} PROVE NumberedInv'
    BY <1>2 DEF NumberedInv
  <2>1. last = rid \/ last < nextId
    BY DEF IInv, NumberedInv
  <2>2. ASSUME last # rid
        PROVE  /\ \A f \in sending' : f.id <= last => f.torrent \in skippedNow
               /\ \A u \in Torrents \ (lateNow \cup skippedNow) :
                    Ahead(u, last)' \/ (statuses[u] = catalog[u] /\ ~Waiting(u))
    <3>1. last < nextId
      BY <2>1, <2>2
    <3>2. \A f \in sending' : f.id <= last => f.torrent \in skippedNow
      BY <1>1, <1>3, <1>4, <2>2, <3>1 DEF IInv, NumberedInv
    <3>3. \A u \in Torrents \ (lateNow \cup skippedNow) :
            Ahead(u, last) \/ (statuses[u] = catalog[u] /\ ~Waiting(u))
      BY <2>2 DEF IInv, NumberedInv
    <3>4. \A u \in Torrents : Ahead(u, last) => Ahead(u, last)'
      BY <1>1, <1>2 DEF Ahead
    <3> QED BY <3>2, <3>3, <3>4
  <2> QED BY <1>1, <1>2, <1>3, <1>7, <2>1, <2>2 DEF NumberedInv
<1>11. CollectedInv'
  BY <1>1, <1>2 DEF IInv, CollectedInv
<1>12. nextId' \in 1 .. MaxEvents + 1 /\ sending' \subseteq Event /\ published' \subseteq Event
  BY <1>1, <1>3, <1>4 DEF IInv, TypeOK
<1>13. ASSUME NEW u \in Torrents, rid # 0, u \notin skipped
       PROVE  /\ rid' < nextId' /\ (Ahead(u, rid) => Ahead(u, rid)') /\ (u = t => Ahead(t, rid)')
              /\ ~Ahead(u, rid)' => ~Ahead(u, rid) /\ (Owed(u)' => Owed(u))
  <2>1. rid < nextId
    BY <1>13 DEF IInv, ViewInv
  <2>2. Ahead(u, rid) => Ahead(u, rid)'
    BY <1>2, <1>1 DEF Ahead
  <2>3. u = t => Ahead(t, rid)'
    BY <1>1, <1>2, <1>4, <2>1, <1>3 DEF Ahead
  <2>4. u # t => (Owed(u)' => Owed(u))
    BY <1>1, <1>4, <1>7 DEF Owed
  <2> QED BY <1>1, <1>2, <1>3, <2>1, <2>2, <2>3, <2>4
<1> QED BY <1>2, <1>6, <1>8, <1>10, <1>11, <1>12, <1>13

LEMMA EngineEventInv == ASSUME IInv, NEW t \in Torrents, EngineEvent(t) PROVE IInv'
<1>1. PICK kind \in {"removed", "changed"} : Number(t, kind)
  BY DEF EngineEvent
<1>2. UNCHANGED <<unread, catalog, metadata, unannounced, request, client, odd>>
  BY DEF EngineEvent, server
<1>3. UNCHANGED <<pc, statuses, last, backlog, lateNow, skippedNow>>
  BY <1>2 DEF request
<1>4. /\ SequencesOK' /\ IssuedInv' /\ ListedInv' /\ NumberedInv' /\ CollectedInv'
      /\ nextId' \in 1 .. MaxEvents + 1 /\ sending' \subseteq Event /\ published' \subseteq Event
      /\ \A u \in Torrents : rid # 0 /\ u \notin skipped =>
           /\ rid' < nextId' /\ (Ahead(u, rid) => Ahead(u, rid)') /\ (u = t => Ahead(t, rid)')
           /\ ~Ahead(u, rid)' => ~Ahead(u, rid) /\ (Owed(u)' => Owed(u))
      /\ UNCHANGED <<replay, pushed, unread, rid, view, late, skipped, silent>>
  BY <1>1, <1>2, NumberInv
<1>5. TypeOK'
  BY <1>2, <1>3, <1>4 DEF IInv, TypeOK
<1>6. ViewInv'
  BY <1>2, <1>4 DEF IInv, ViewInv, Settled, Seen
<1> QED BY <1>4, <1>5, <1>6 DEF IInv

LEMMA PublishMetadataRefreshInv == ASSUME IInv, NEW t \in Torrents, PublishMetadataRefresh(t) PROVE IInv'
<1>1. Number(t, "metadata") /\ unannounced' = unannounced \ {t}
  BY DEF PublishMetadataRefresh
<1>2. UNCHANGED <<unread, catalog, metadata, request, client, odd>>
  BY DEF PublishMetadataRefresh
<1>3. UNCHANGED <<pc, statuses, last, backlog, lateNow, skippedNow>>
  BY <1>2 DEF request
<1>4. /\ SequencesOK' /\ IssuedInv' /\ ListedInv' /\ NumberedInv' /\ CollectedInv'
      /\ nextId' \in 1 .. MaxEvents + 1 /\ sending' \subseteq Event /\ published' \subseteq Event
      /\ \A u \in Torrents : rid # 0 /\ u \notin skipped =>
           /\ rid' < nextId' /\ (Ahead(u, rid) => Ahead(u, rid)') /\ (u = t => Ahead(t, rid)')
           /\ ~Ahead(u, rid)' => ~Ahead(u, rid) /\ (Owed(u)' => Owed(u))
      /\ UNCHANGED <<replay, pushed, unread, rid, view, late, skipped, silent>>
  BY <1>1, <1>2, NumberInv
<1>5. TypeOK'
  BY <1>1, <1>2, <1>3, <1>4 DEF IInv, TypeOK
<1>6. ViewInv'
  BY <1>1, <1>2, <1>4 DEF IInv, ViewInv, Settled, Seen
<1> QED BY <1>4, <1>5, <1>6 DEF IInv

LEMMA UpdateMetadataInv == ASSUME IInv, NEW t \in Torrents, UpdateMetadata(t) PROVE IInv'
<1>1. metadata' = [metadata EXCEPT ![t] = ~@] /\ unannounced' = unannounced \cup {t}
  BY DEF UpdateMetadata
<1>2. UNCHANGED <<nextId, sending, replay, pushed, published, unread, catalog, pc, statuses, last, backlog,
                  lateNow, skippedNow, rid, view, late, skipped, silent>>
  BY DEF UpdateMetadata, bus, request, client
<1>3. metadata' \in [Torrents -> BOOLEAN] /\ \A u \in Torrents : u # t => metadata'[u] = metadata[u]
  BY <1>1 DEF IInv, TypeOK
<1>4. TypeOK' /\ SequencesOK' /\ IssuedInv'
  BY <1>1, <1>2, <1>3 DEF IInv, TypeOK, SequencesOK, IssuedInv
<1>5. ListedInv' /\ NumberedInv' /\ CollectedInv'
  BY <1>2 DEF IInv, ListedInv, NumberedInv, CollectedInv, Ahead, Waiting
<1>6. \A u \in Torrents : Ahead(u, rid)' = Ahead(u, rid) /\ Owed(u)' = Owed(u) /\ Seen(u)' = Seen(u)
  BY <1>2 DEF Ahead, Owed, Waiting, Seen
<1>7. ViewInv'
  BY <1>1, <1>2, <1>3, <1>6 DEF IInv, ViewInv, Settled
<1> QED BY <1>4, <1>5, <1>7 DEF IInv

\* An unannounced change: the torrent is marked.
LEMMA SetMetadataInv == ASSUME IInv, NEW t \in Torrents, SetMetadata(t) PROVE IInv'
<1>1. metadata' = [metadata EXCEPT ![t] = ~@] /\ silent' = silent \cup {t}
  BY DEF SetMetadata
<1>2. UNCHANGED <<nextId, sending, replay, pushed, published, unread, catalog, unannounced, pc, statuses, last,
                  backlog, lateNow, skippedNow, rid, view, late, skipped>>
  BY DEF SetMetadata, bus, request
<1>3. metadata' \in [Torrents -> BOOLEAN] /\ \A u \in Torrents : u # t => metadata'[u] = metadata[u]
  BY <1>1 DEF IInv, TypeOK
<1>4. TypeOK' /\ SequencesOK' /\ IssuedInv'
  BY <1>1, <1>2, <1>3 DEF IInv, TypeOK, SequencesOK, IssuedInv
<1>5. ListedInv' /\ NumberedInv' /\ CollectedInv'
  BY <1>2 DEF IInv, ListedInv, NumberedInv, CollectedInv, Ahead, Waiting
<1>6. \A u \in Torrents : Ahead(u, rid)' = Ahead(u, rid) /\ Owed(u)' = Owed(u) /\ Seen(u)' = Seen(u)
  BY <1>2 DEF Ahead, Owed, Waiting, Seen
<1>7. ViewInv'
  BY <1>1, <1>2, <1>3, <1>6 DEF IInv, ViewInv, Settled
<1> QED BY <1>4, <1>5, <1>7 DEF IInv

\* An event reaches the buffer.  It is still on its way to the catalog; an
\* answer that has listed its statuses marks it as late, and one that has
\* passed its id has marked it as skipped.
LEMMA PushInv == ASSUME IInv, Push PROVE IInv'
<1>1. PICK e \in sending :
        /\ sending' = sending \ {e} /\ pushed' = pushed \cup {e}
        /\ replay' = Append(IF Len(replay) = Capacity THEN Tail(replay) ELSE replay, e)
        /\ lateNow' = IF pc = "listed" THEN lateNow \cup {e.torrent} ELSE lateNow
        /\ UNCHANGED <<nextId, published, server, pc, statuses, last, backlog, skippedNow, client, odd>>
  BY DEF Push
<1>2. UNCHANGED <<nextId, published, unread, catalog, metadata, unannounced, pc, statuses, last, backlog,
                  skippedNow, rid, view, late, skipped, silent>>
  BY <1>1 DEF server, client
<1>3. e \in Event /\ e \in published /\ e.torrent \in Torrents
  BY DEF IInv, TypeOK, IssuedInv, Event
<1>4. replay' \in Seq(Event) /\ Len(replay') <= Capacity /\ ToSet(replay') \subseteq ToSet(replay) \cup {e}
  BY <1>1, <1>3, PushSet DEF IInv, TypeOK, SequencesOK
<1>6. SequencesOK' /\ IssuedInv'
  BY <1>1, <1>2, <1>3, <1>4 DEF IInv, SequencesOK, IssuedInv
<1>7. TypeOK'
  <2>1. lateNow' \subseteq Torrents
    BY <1>1, <1>3 DEF IInv, TypeOK
  <2> QED BY <1>1, <1>2, <1>3, <1>4, <2>1 DEF IInv, TypeOK
<1>8. \A t \in Torrents : /\ Waiting(t)' <=> Waiting(t) \/ t = e.torrent
                          /\ Owed(t)' => Owed(t)
  BY <1>1, <1>2 DEF Waiting, Owed
<1>9. ListedInv'
  BY <1>1, <1>2, <1>8 DEF IInv, ListedInv
<1>10. \A t \in Torrents : Ahead(t, last)' = Ahead(t, last) /\ Ahead(t, rid)' = Ahead(t, rid)
                           /\ Seen(t)' = Seen(t)
  BY <1>2 DEF Ahead, Seen
<1>11. NumberedInv'
  <2> SUFFICES ASSUME pc \in {"numbered", "collected"}, last # rid
               PROVE  /\ \A f \in sending' : f.id <= last => f.torrent \in skippedNow
                      /\ \A t \in Torrents \ (lateNow \cup skippedNow) :
                           Ahead(t, last) \/ (statuses[t] = catalog[t] /\ ~Waiting(t)')
    <3>1. pc \in {"numbered", "collected"} => lateNow' = lateNow
      BY <1>1
    <3>2. pc \in {"numbered", "collected"} => last = rid \/ last < nextId
      BY DEF IInv, NumberedInv
    <3> QED BY <1>2, <1>10, <3>1, <3>2 DEF NumberedInv
  <2>1. \A f \in sending : f.id <= last => f.torrent \in skippedNow
    BY DEF IInv, NumberedInv
  <2>2. e.torrent \in skippedNow \/ Ahead(e.torrent, last)
    <3>1. e.id \in Nat /\ last \in Nat
      BY <1>3, BoundsAssumption DEF IInv, TypeOK, Event
    <3> QED BY <1>3, <2>1, <3>1 DEF Ahead
  <2>3. \A t \in Torrents \ (lateNow \cup skippedNow) :
          Ahead(t, last) \/ (statuses[t] = catalog[t] /\ ~Waiting(t))
    BY DEF IInv, NumberedInv
  <2> QED BY <1>1, <1>8, <2>1, <2>2, <2>3
<1>12. CollectedInv'
  BY <1>2 DEF IInv, CollectedInv
<1>13. ViewInv'
  BY <1>2, <1>8, <1>10 DEF IInv, ViewInv, Settled
<1> QED BY <1>6, <1>7, <1>9, <1>11, <1>12, <1>13 DEF IInv

LEMMA BroadcastInv == ASSUME IInv, Broadcast PROVE IInv'
<1>1. PICK e \in pushed :
        /\ pushed' = pushed \ {e} /\ unread' = Append(unread, e)
        /\ UNCHANGED <<nextId, sending, replay, published, catalog, metadata, unannounced, request, client, odd>>
  BY DEF Broadcast
<1>2. UNCHANGED <<nextId, sending, replay, published, catalog, metadata, unannounced, pc, statuses, last, backlog,
                  lateNow, skippedNow, rid, view, late, skipped, silent>>
  BY <1>1 DEF request, client
<1>3. e \in Event /\ e \in published
  BY DEF IInv, TypeOK, IssuedInv
<1>4. unread' \in Seq(Event) /\ ToSet(unread') = ToSet(unread) \cup {e}
  BY <1>1, <1>3, AppendSet DEF IInv, SequencesOK
<1>5. TypeOK' /\ SequencesOK' /\ IssuedInv'
  BY <1>1, <1>2, <1>3, <1>4 DEF IInv, TypeOK, SequencesOK, IssuedInv
<1>6. \A t \in Torrents : Waiting(t)' = Waiting(t) /\ Owed(t)' = Owed(t)
  BY <1>1, <1>2, <1>4 DEF Waiting, Owed
<1>7. \A t \in Torrents : Ahead(t, last)' = Ahead(t, last) /\ Ahead(t, rid)' = Ahead(t, rid)
                          /\ Seen(t)' = Seen(t)
  BY <1>2 DEF Ahead, Seen
<1>8. ListedInv' /\ NumberedInv' /\ CollectedInv'
  BY <1>2, <1>6, <1>7 DEF IInv, ListedInv, NumberedInv, CollectedInv
<1>9. ViewInv'
  BY <1>2, <1>6, <1>7 DEF IInv, ViewInv, Settled
<1> QED BY <1>5, <1>8, <1>9 DEF IInv

\* An event is sent again: its torrent is late, for the client and for an answer
\* under way.
LEMMA ResendInv == ASSUME IInv, Resend PROVE IInv'
<1>1. PICK e \in published \ sending :
        /\ unread' = Append(unread, e)
        /\ late' = late \cup {e.torrent}
        /\ lateNow' = IF pc = "idle" THEN lateNow ELSE lateNow \cup {e.torrent}
  BY DEF Resend
<1>2. UNCHANGED <<nextId, sending, replay, pushed, published, catalog, metadata, unannounced, pc, statuses, last,
                  backlog, skippedNow, rid, view, skipped, silent>>
  BY DEF Resend, bus
<1>3. e \in Event /\ e.torrent \in Torrents
  BY DEF IInv, TypeOK, Event
<1>4. unread' \in Seq(Event) /\ ToSet(unread') = ToSet(unread) \cup {e}
  BY <1>1, <1>3, AppendSet DEF IInv, SequencesOK
<1>5. late' \subseteq Torrents /\ lateNow' \subseteq Torrents /\ lateNow \subseteq lateNow' /\ late \subseteq late'
  BY <1>1, <1>3 DEF IInv, TypeOK
<1>6. TypeOK' /\ SequencesOK' /\ IssuedInv'
  BY <1>2, <1>3, <1>4, <1>5 DEF IInv, TypeOK, SequencesOK, IssuedInv
<1>7. \A t \in Torrents : t # e.torrent => Waiting(t)' = Waiting(t) /\ Owed(t)' = Owed(t)
  BY <1>2, <1>4 DEF Waiting, Owed
<1>8. \A t \in Torrents : Ahead(t, last)' = Ahead(t, last) /\ Ahead(t, rid)' = Ahead(t, rid)
                          /\ Seen(t)' = Seen(t)
  BY <1>2 DEF Ahead, Seen
<1>9. ListedInv' /\ CollectedInv'
  BY <1>1, <1>2, <1>5, <1>7 DEF IInv, ListedInv, CollectedInv
<1>10. NumberedInv'
  BY <1>1, <1>2, <1>5, <1>7, <1>8 DEF IInv, NumberedInv
<1>11. ViewInv'
  BY <1>1, <1>2, <1>5, <1>7, <1>8 DEF IInv, ViewInv, Settled
<1> QED BY <1>6, <1>9, <1>10, <1>11 DEF IInv

\* The orchestrator observes an event: the torrent was waiting for it, so an
\* answer under way has it as late, skipped or still to come.
LEMMA ObserveInv == ASSUME IInv, Observe PROVE IInv'
<1> DEFINE e == Head(unread)
<1>1. /\ unread # <<>> /\ unread' = Tail(unread)
      /\ \E status \in Statuses \cup {None} : catalog' = [catalog EXCEPT ![e.torrent] = status]
  BY DEF Observe
<1>2. UNCHANGED <<nextId, sending, replay, pushed, published, metadata, unannounced, pc, statuses, last, backlog,
                  lateNow, skippedNow, rid, view, late, skipped, silent>>
  BY DEF Observe, bus, request, client
<1>3. /\ unread' \in Seq(Event) /\ e \in Event /\ e \in ToSet(unread)
      /\ ToSet(unread') \subseteq ToSet(unread)
  BY <1>1, TailSet DEF IInv, SequencesOK
<1> HIDE DEF e
<1>4. e.torrent \in Torrents
  BY <1>3 DEF Event
<1>5. /\ catalog' \in [Torrents -> Statuses \cup {None}]
      /\ \A t \in Torrents : t # e.torrent => catalog'[t] = catalog[t]
  BY <1>1, <1>4 DEF IInv, TypeOK
<1>6. TypeOK' /\ SequencesOK' /\ IssuedInv'
  BY <1>2, <1>3, <1>5 DEF IInv, TypeOK, SequencesOK, IssuedInv
<1>7. /\ Waiting(e.torrent)
      /\ \A t \in Torrents : (Waiting(t)' => Waiting(t)) /\ (Owed(t)' => Owed(t))
  BY <1>2, <1>3 DEF Waiting, Owed
<1>8. \A t \in Torrents : Ahead(t, last)' = Ahead(t, last) /\ Ahead(t, rid)' = Ahead(t, rid)
                          /\ Seen(t)' = Seen(t)
  BY <1>2 DEF Ahead, Seen
<1>9. ListedInv'
  BY <1>2, <1>5, <1>7 DEF IInv, ListedInv
<1>10. NumberedInv'
  <2> SUFFICES ASSUME pc \in {"numbered", "collected"}, last # rid
               PROVE  \A t \in Torrents \ (lateNow \cup skippedNow) :
                        Ahead(t, last) \/ (statuses[t] = catalog'[t] /\ ~Waiting(t)')
    BY <1>2, <1>8 DEF IInv, NumberedInv
  <2>1. \A t \in Torrents \ (lateNow \cup skippedNow) :
          Ahead(t, last) \/ (statuses[t] = catalog[t] /\ ~Waiting(t))
    BY DEF IInv, NumberedInv
  <2> QED BY <1>5, <1>7, <2>1
<1>11. CollectedInv'
  BY <1>2 DEF IInv, CollectedInv
<1>12. ViewInv'
  <2>1. \A t \in Torrents : Waiting(t) => Owed(t)
    BY DEF Owed
  <2> QED BY <1>2, <1>5, <1>7, <1>8, <2>1 DEF IInv, ViewInv, Settled
<1> QED BY <1>6, <1>9, <1>10, <1>11, <1>12 DEF IInv

-----------------------------------------------------------------------------
(* The answer.                                                             *)

LEMMA ListStatusesInv == ASSUME IInv, ListStatuses PROVE IInv'
<1>1. pc' = "listed" /\ statuses' = catalog /\ lateNow' = About(ToSet(unread) \cup pushed) /\ skippedNow' = {}
  BY DEF ListStatuses
<1>2. UNCHANGED <<nextId, sending, replay, pushed, published, unread, catalog, metadata, unannounced,
                  last, backlog, rid, view, late, skipped, silent>>
  BY DEF ListStatuses, bus, server, client
<1>3. lateNow' \subseteq Torrents /\ \A t \in Torrents : Waiting(t) => t \in lateNow'
  BY <1>1 DEF About, Waiting, IInv, TypeOK, Event
<1>4. TypeOK' /\ SequencesOK' /\ IssuedInv'
  BY <1>1, <1>2, <1>3 DEF IInv, TypeOK, SequencesOK, IssuedInv
<1>5. \A t \in Torrents : /\ Ahead(t, rid)' = Ahead(t, rid) /\ Seen(t)' = Seen(t)
                          /\ Waiting(t)' = Waiting(t) /\ Owed(t)' = Owed(t)
  BY <1>2 DEF Ahead, Seen, Waiting, Owed
<1>6. ListedInv' /\ NumberedInv' /\ CollectedInv'
  BY <1>1, <1>2, <1>3, <1>5 DEF ListedInv, NumberedInv, CollectedInv
<1>7. ViewInv'
  BY <1>2, <1>5 DEF IInv, ViewInv, Settled
<1> QED BY <1>4, <1>6, <1>7 DEF IInv

\* The id at the back of the buffer passes over the events that are numbered
\* and not pushed, which are marked; every other event of an unmarked torrent
\* was observed before the statuses were listed.
LEMMA ReadLastEventIdInv == ASSUME IInv, ReadLastEventId PROVE IInv'
<1>1. /\ pc = "listed" /\ pc' = "numbered"
      /\ last' = IF replay = <<>> THEN rid ELSE Last(replay).id
      /\ skippedNow' = skippedNow \cup About({e \in sending : e.id <= last'})
  BY DEF ReadLastEventId
<1>2. UNCHANGED <<nextId, sending, replay, pushed, published, unread, catalog, metadata, unannounced,
                  statuses, backlog, lateNow, rid, view, late, skipped, silent>>
  BY DEF ReadLastEventId, bus, server, client
<1>3. last' \in 0 .. MaxEvents /\ (last' = rid \/ last' < nextId)
  <2>1. CASE replay = <<>>
    BY <1>1, <2>1 DEF IInv, TypeOK
  <2>2. CASE replay # <<>>
    <3>1. Last(replay) \in published
      BY <2>2, LastInSet DEF IInv, SequencesOK, IssuedInv
    <3>2. last' \in Nat /\ last' < nextId
      BY <1>1, <2>2, <3>1 DEF IInv, TypeOK, IssuedInv, Event
    <3> QED BY <3>2, BoundsAssumption DEF IInv, TypeOK
  <2> QED BY <2>1, <2>2
<1>4. /\ skippedNow' \subseteq Torrents /\ skippedNow \subseteq skippedNow'
      /\ \A e \in sending : e.id <= last' => e.torrent \in skippedNow'
  BY <1>1 DEF IInv, TypeOK, About, Event
<1>5. TypeOK' /\ SequencesOK' /\ IssuedInv'
  BY <1>1, <1>2, <1>3, <1>4 DEF IInv, TypeOK, SequencesOK, IssuedInv
<1>6. \A t \in Torrents : /\ Ahead(t, rid)' = Ahead(t, rid) /\ Seen(t)' = Seen(t)
                          /\ Waiting(t)' = Waiting(t) /\ Owed(t)' = Owed(t)
  BY <1>2 DEF Ahead, Seen, Waiting, Owed
<1>7. \A t \in Torrents \ lateNow : statuses[t] = catalog[t] /\ ~Waiting(t)
  BY <1>1 DEF IInv, ListedInv
<1>8. ListedInv' /\ NumberedInv' /\ CollectedInv'
  BY <1>1, <1>2, <1>3, <1>4, <1>6, <1>7 DEF ListedInv, NumberedInv, CollectedInv
<1>9. ViewInv'
  BY <1>2, <1>6 DEF IInv, ViewInv, Settled
<1> QED BY <1>5, <1>8, <1>9 DEF IInv

LEMMA BacklogSinceInv == ASSUME IInv, BacklogSince PROVE IInv'
<1>1. /\ pc = "numbered" /\ pc' = "collected"
      /\ backlog' = IF rid = 0 THEN {} ELSE {e \in InBuffer : e.id > rid}
  BY DEF BacklogSince
<1>2. UNCHANGED <<nextId, sending, replay, pushed, published, unread, catalog, metadata, unannounced,
                  statuses, last, lateNow, skippedNow, rid, view, late, skipped, silent>>
  BY DEF BacklogSince, bus, server, client
<1>3. \A e \in backlog' : e \in published /\ e.id > rid
  BY <1>1 DEF InBuffer, IInv, IssuedInv
<1>4. TypeOK' /\ SequencesOK' /\ IssuedInv'
  BY <1>1, <1>2, <1>3 DEF IInv, TypeOK, SequencesOK, IssuedInv
<1>5. \A t \in Torrents : /\ Ahead(t, rid)' = Ahead(t, rid) /\ Seen(t)' = Seen(t)
                          /\ Ahead(t, last)' = Ahead(t, last)
                          /\ Waiting(t)' = Waiting(t) /\ Owed(t)' = Owed(t)
  BY <1>2 DEF Ahead, Seen, Waiting, Owed
<1>6. ListedInv' /\ NumberedInv' /\ CollectedInv'
  BY <1>1, <1>2, <1>3, <1>5 DEF IInv, ListedInv, NumberedInv, CollectedInv
<1>7. ViewInv'
  BY <1>2, <1>5 DEF IInv, ViewInv, Settled
<1> QED BY <1>4, <1>6, <1>7 DEF IInv

\* A torrent that the answer leaves out, and that is neither skipped nor ahead
\* of the new rid, had nothing to report: an event between the two rids would
\* be in the buffer, and so in the backlog, or be marked as skipped.
LEMMA LeftOutIsUnchanged ==
  ASSUME IInv, pc = "collected", NEW t \in Torrents,
         t \notin Reported, t \notin skippedNow, t \notin Unreported, ~Ahead(t, last)
  PROVE  rid # 0 /\ ~Ahead(t, rid)
<1>1. ~NeedFullUpdate /\ t \notin About(backlog)
  BY DEF Reported
<1>2. rid # 0 /\ ~(last < rid)
  BY <1>1 DEF NeedFullUpdate, Unreported
<1>3. t \notin About({e \in published \ sending : e.id > rid /\ (e.id <= last \/ e \notin InBuffer)})
  BY <1>1, <1>2 DEF Unreported
<1>4. ASSUME NEW e \in published, e.torrent = t, e.id > rid PROVE FALSE
  <2>1. e.id \in Nat /\ last \in Nat /\ rid \in Nat
    BY BoundsAssumption DEF IInv, TypeOK, Event
  <2>2. e.id <= last
    BY <1>4, <2>1 DEF Ahead
  <2>3. last # rid
    BY <1>4, <2>1, <2>2
  <2>4. e \notin sending
    BY <1>4, <2>2, <2>3 DEF IInv, NumberedInv
  <2> QED BY <1>3, <1>4, <2>2, <2>4 DEF About
<1> QED BY <1>2, <1>4 DEF Ahead

\* A torrent the answer reports has a rid of this process below the next id,
\* and unless it is ahead of it the rid is a new one.
LEMMA ReportedIsNew ==
  ASSUME IInv, pc = "collected", NEW t \in Torrents, t \in Reported, last # 0
  PROVE  last < nextId /\ (Ahead(t, last) \/ last # rid)
<1>1. /\ last \in Nat /\ rid \in Nat /\ nextId \in Nat
      /\ \A e \in published : e.id \in Nat /\ e.id < nextId
  BY BoundsAssumption DEF IInv, TypeOK, IssuedInv, Event
<1>2. last = rid \/ last < nextId
  BY DEF IInv, NumberedInv
<1>3. CASE NeedFullUpdate
  BY <1>1, <1>2, <1>3 DEF NeedFullUpdate, Gap
<1>4. CASE ~NeedFullUpdate
  <2>1. PICK e \in backlog : e.torrent = t
    BY <1>4 DEF Reported, About
  <2>2. e \in published /\ e.id > rid
    BY DEF IInv, CollectedInv
  <2> QED BY <1>1, <1>2, <2>1, <2>2 DEF Ahead
<1> QED BY <1>3, <1>4

\* What the client shows after the answer.
LEMMA AnswerType ==
  ASSUME IInv
  PROVE  /\ Answer \in [Torrents -> Entry \cup {None}]
         /\ \A t \in Torrents : t \notin Reported => Answer[t] = view[t]
         /\ \A t \in Torrents : t \in Reported /\ statuses[t] = None => Answer[t] = None
         /\ \A t \in Torrents : t \in Reported /\ statuses[t] # None =>
              /\ Answer[t] # None
              /\ Answer[t].status = statuses[t] /\ Answer[t].label = metadata[t]
<1>1. ASSUME NEW t \in Torrents, statuses[t] # None
      PROVE  [status |-> statuses[t], label |-> metadata[t]] \in Entry
  <2>1. statuses[t] \in Statuses
    BY <1>1 DEF IInv, TypeOK
  <2>2. metadata[t] \in BOOLEAN
    BY DEF IInv, TypeOK
  <2> QED BY <2>1, <2>2 DEF Entry
<1>2. None \notin Entry
  BY NoneAssumption DEF Entry
<1>3. \A t \in Torrents : view[t] \in Entry \cup {None}
  BY DEF IInv, TypeOK
<1>4. Answer \in [Torrents -> Entry \cup {None}]
  BY <1>1, <1>3 DEF Answer
<1>5. ASSUME NEW t \in Torrents, t \in Reported, statuses[t] # None
      PROVE  /\ Answer[t] # None
             /\ Answer[t].status = statuses[t] /\ Answer[t].label = metadata[t]
  <2>1. Answer[t] = [status |-> statuses[t], label |-> metadata[t]]
    BY <1>5 DEF Answer
  <2> QED BY <1>1, <1>2, <1>5, <2>1
<1> QED BY <1>4, <1>5 DEF Answer

LEMMA RespondInv == ASSUME IInv, Respond PROVE IInv'
<1>1. /\ pc = "collected" /\ view' = Answer /\ rid' = last
      /\ late' = (late \ Reported) \cup lateNow
      /\ skipped' = (skipped \ Reported) \cup skippedNow \cup Unreported
      /\ silent' = silent \ Reported
  BY DEF Respond
<1>2. /\ pc' = "idle" /\ statuses' = [t \in Torrents |-> None]
      /\ last' = 0 /\ backlog' = {} /\ lateNow' = {} /\ skippedNow' = {}
  BY DEF Respond, Ended
<1>3. UNCHANGED <<nextId, sending, replay, pushed, published, unread, catalog, metadata, unannounced>>
  BY DEF Respond, bus, server
<1>4. Unreported \subseteq Torrents
  <2>1. About(published \ sending) \subseteq Torrents
    BY DEF IInv, TypeOK, About, Event
  <2>2. About({e \in published \ sending : e.id > rid /\ (e.id <= last \/ e \notin InBuffer)})
          \subseteq About(published \ sending)
    BY DEF About
  <2> QED BY <2>1, <2>2 DEF Unreported
<1>5. TypeOK'
  <2>1. late' \subseteq Torrents /\ skipped' \subseteq Torrents /\ silent' \subseteq Torrents
    BY <1>1, <1>4 DEF IInv, TypeOK
  <2>2. last' \in 0 .. MaxEvents /\ statuses' \in [Torrents -> Statuses \cup {None}]
    BY <1>2, BoundsAssumption
  <2> QED BY <1>1, <1>2, <1>3, <2>1, <2>2, AnswerType DEF IInv, TypeOK
<1>6. SequencesOK' /\ IssuedInv'
  BY <1>3 DEF IInv, SequencesOK, IssuedInv
<1>7. ListedInv' /\ NumberedInv' /\ CollectedInv'
  BY <1>2 DEF ListedInv, NumberedInv, CollectedInv
<1>8. \A t \in Torrents : /\ Ahead(t, rid)' = Ahead(t, last)
                          /\ Waiting(t)' = Waiting(t) /\ Owed(t)' = Owed(t)
  BY <1>1, <1>3 DEF Ahead, Waiting, Owed
<1>9. ASSUME NEW t \in Torrents, last # 0, t \notin skipped'
      PROVE  /\ last < nextId
             /\ ~Ahead(t, last) /\ t \notin late' => Seen(t)' = catalog[t] /\ ~Owed(t)
             /\ ~Ahead(t, last) /\ t \notin unannounced \cup silent' /\ view'[t] # None => view'[t].label = metadata[t]
  <2>1. t \notin skippedNow /\ t \notin Unreported
    BY <1>1, <1>9
  <2>2. CASE t \in Reported
    <3>1. last < nextId /\ (Ahead(t, last) \/ last # rid)
      BY <1>1, <1>9, <2>2, ReportedIsNew
    <3>2. Seen(t)' = statuses[t] /\ (view'[t] # None => view'[t].label = metadata[t])
      BY <1>1, <2>2, AnswerType DEF Seen
    <3>3. ASSUME ~Ahead(t, last), t \notin late'
          PROVE  statuses[t] = catalog[t] /\ ~Owed(t)
      <4>1. last # rid /\ t \notin lateNow
        BY <1>1, <3>1, <3>3
      <4>2. /\ \A e \in sending : e.id <= last => e.torrent \in skippedNow
            /\ statuses[t] = catalog[t] /\ ~Waiting(t)
        BY <1>1, <2>1, <3>3, <4>1 DEF IInv, NumberedInv
      <4>3. ASSUME NEW e \in sending, e.torrent = t PROVE FALSE
        <5>1. e \in published /\ e.id \in Nat /\ last \in Nat
          BY BoundsAssumption DEF IInv, TypeOK, IssuedInv, Event
        <5> QED BY <2>1, <3>3, <4>2, <4>3, <5>1 DEF Ahead
      <4> QED BY <4>2, <4>3 DEF Owed
    <3> QED BY <3>1, <3>2, <3>3
  <2>3. CASE t \notin Reported
    <3>1. t \notin skipped /\ (t \notin late' => t \notin late) /\ (t \notin silent' => t \notin silent)
      BY <1>1, <1>9, <2>3
    <3>2. Seen(t)' = Seen(t) /\ view'[t] = view[t]
      BY <1>1, <2>3, AnswerType DEF Seen
    <3>3. rid # 0
      BY <2>3 DEF Reported, NeedFullUpdate
    <3>4. last < nextId
      <4>1. rid < nextId
        BY <3>1, <3>3 DEF IInv, ViewInv
      <4>2. last = rid \/ last < nextId
        BY <1>1 DEF IInv, NumberedInv
      <4> QED BY <4>1, <4>2
    <3>5. ASSUME ~Ahead(t, last) PROVE Settled(t)
      BY <1>1, <2>1, <2>3, <3>1, <3>5, LeftOutIsUnchanged DEF Settled
    <3> QED BY <3>1, <3>2, <3>4, <3>5 DEF IInv, ViewInv
  <2> QED BY <2>2, <2>3
<1>10. ViewInv'
  BY <1>1, <1>3, <1>8, <1>9 DEF ViewInv, Settled
<1> QED BY <1>5, <1>6, <1>7, <1>10 DEF IInv

LEMMA RestartInv == ASSUME IInv, Restart PROVE IInv'
<1>1. /\ nextId' = 1 /\ sending' = {} /\ replay' = <<>> /\ pushed' = {} /\ published' = {}
      /\ unread' = <<>> /\ unannounced' = {} /\ metadata' = [t \in Torrents |-> FALSE]
      /\ skipped' = Torrents /\ late' = {} /\ silent' = {}
  BY DEF Restart
<1>2. /\ pc' = "idle" /\ statuses' = [t \in Torrents |-> None]
      /\ last' = 0 /\ backlog' = {} /\ lateNow' = {} /\ skippedNow' = {}
  BY DEF Restart, Ended
<1>3. UNCHANGED <<catalog, rid, view>>
  BY DEF Restart
<1>4. SequencesOK' /\ ToSet(replay') = {} /\ ToSet(unread') = {} /\ Len(replay') = 0
  BY <1>1, EmptySet DEF SequencesOK
<1>5. TypeOK'
  BY <1>1, <1>2, <1>3, <1>4, CapacityAssumption, BoundsAssumption DEF IInv, TypeOK
<1>6. IssuedInv' /\ ListedInv' /\ NumberedInv' /\ CollectedInv' /\ ViewInv'
  BY <1>1, <1>2, <1>4 DEF IssuedInv, ListedInv, NumberedInv, CollectedInv, ViewInv, Settled
<1> QED BY <1>4, <1>5, <1>6 DEF IInv

LEMMA StutterInv == ASSUME IInv, UNCHANGED vars PROVE IInv'
<1>1. UNCHANGED <<nextId, sending, replay, pushed, published, unread, catalog, metadata, unannounced, pc, statuses,
                  last, backlog, lateNow, skippedNow, rid, view, late, skipped, silent>>
  BY DEF vars, bus, server, request, client
<1>2. TypeOK' /\ SequencesOK' /\ IssuedInv'
  BY <1>1 DEF IInv, TypeOK, SequencesOK, IssuedInv
<1>3. ListedInv' /\ NumberedInv' /\ CollectedInv'
  BY <1>1 DEF IInv, ListedInv, NumberedInv, CollectedInv, Waiting, Ahead
<1>4. ViewInv'
  BY <1>1 DEF IInv, ViewInv, Settled, Seen, Ahead, Owed, Waiting
<1> QED BY <1>2, <1>3, <1>4 DEF IInv

LEMMA StepInv == IInv /\ [Next]_vars => IInv'
<1> SUFFICES ASSUME IInv, [Next]_vars PROVE IInv'
  OBVIOUS
<1>1. CASE \E t \in Torrents : EngineEvent(t) \/ UpdateMetadata(t) \/ PublishMetadataRefresh(t) \/ SetMetadata(t)
  BY <1>1, EngineEventInv, UpdateMetadataInv, PublishMetadataRefreshInv, SetMetadataInv
<1>2. CASE Push \/ Broadcast \/ Resend \/ Observe
  BY <1>2, PushInv, BroadcastInv, ResendInv, ObserveInv
<1>3. CASE Sync
  BY <1>3, ListStatusesInv, ReadLastEventIdInv, BacklogSinceInv, RespondInv DEF Sync
<1>4. CASE Restart
  BY <1>4, RestartInv
<1>5. CASE UNCHANGED vars
  BY <1>5, StutterInv
<1> QED BY <1>1, <1>2, <1>3, <1>4, <1>5 DEF Next

LEMMA Invariance == Spec => []IInv
BY InitInv, StepInv, PTL DEF Spec

\* What the invariant says of the client's view is more than the properties
\* need.
LEMMA IInvSafe == IInv => TypeOK /\ ViewFollowsCatalog /\ MetadataIsSeen
<1> SUFFICES ASSUME IInv PROVE ViewFollowsCatalog /\ MetadataIsSeen
  BY DEF IInv
<1>1. \A t \in Torrents : Ahead(t, rid) <=> Coming(t)
  BY DEF Ahead, Coming, About
<1> QED BY <1>1 DEF IInv, ViewInv, Settled, ViewFollowsCatalog, MetadataIsSeen

-----------------------------------------------------------------------------
(* The theorems.                                                           *)

\* Every variable has its type: the replay buffer is within its capacity and
\* the client's rid, before and after a restart, within the ids handed out.
THEOREM TypeCorrect == Spec => []TypeOK
BY Invariance, IInvSafe, PTL

\* A client that has synced shows every torrent as the catalog has it or an
\* event beyond its rid is about it, but for the torrents it was told of from
\* an older catalog or that an event sent again has changed, and those no
\* answer mentioned (sync_maindata, EventBus::replay).
THEOREM ViewFollows == Spec => []ViewFollowsCatalog
BY Invariance, IInvSafe, PTL

\* A change of the facade's metadata is shown, about to be announced, or
\* announced by an event beyond the client's rid (update_metadata_and_publish),
\* unless it is one of those that are never announced (create_torrent,
\* torrent_action) and the torrent was not reported since.
THEOREM MetadataReachesClient == Spec => []MetadataIsSeen
BY Invariance, IInvSafe, PTL
=============================================================================
