------------------------------ MODULE EventBus ------------------------------
(***************************************************************************)
(* The shared event bus of revaer-events (routing.rs) with the two ways    *)
(* the program uses it: publishers that call `send` from several threads,  *)
(* and SSE clients (revaer-api, handlers/sse.rs) that subscribe, read,     *)
(* disconnect and come back with the Last-Event-ID they stored.            *)
(*                                                                         *)
(* An envelope is its id: no property here depends on the payload.  The    *)
(* id 0 stands for `None` (ids start at 1).  The tokio broadcast channel   *)
(* is external: it is the sequence of everything ever broadcast, and a     *)
(* receiver is a position in it; a receiver that is more than Capacity     *)
(* messages behind has lost the oldest ones and is told so (`Lagged`).     *)
(***************************************************************************)
EXTENDS Naturals, Sequences, FiniteSets

CONSTANTS
    Senders,      \* tasks and threads that publish events
    Clients,      \* SSE clients
    Capacity,     \* replay_capacity, also the capacity of the channel
    MaxEvents,    \* bound: events published
    MaxConnects   \* bound: times a client (re)connects

\* with_capacity panics in tokio for a capacity of zero.
ASSUME CapacityAssumption == Capacity \in Nat \ {0}
ASSUME BoundsAssumption == MaxEvents \in Nat /\ MaxConnects \in Nat

VARIABLES
    nextId,   \* next_id: the id the next event will get
    replay,   \* replay: the buffer of recent envelopes, oldest first
    channel,  \* everything broadcast so far, oldest first
    snd,      \* per publisher: where it is in `send`, and the id it was given
    rx,       \* per client: its receiver (where it is in `subscribe`, how much
              \* it has taken from the channel, what it has left to resend)
    client    \* per client: its side of the stream (see ClientState)

vars == <<nextId, replay, channel, snd, rx, client>>

-----------------------------------------------------------------------------
EventId == Nat \ {0}

Ids(seq) == {seq[i] : i \in 1..Len(seq)}

\* The first position of the channel that is still readable.
Oldest == IF Len(channel) > Capacity THEN Len(channel) - Capacity ELSE 0

\* Mutant: one receiver counts as none.
HasReceiversOffByOne == Cardinality({c \in Clients : rx[c].pc # "off"}) > 1

\* Sender::receiver_count() > 0
HasReceivers == \E c \in Clients : rx[c].pc # "off"

\* The filter of replay and of backlog_since: where the buffered envelopes
\* emitted after `last` are.
After(last, seq) == {i \in 1..Len(seq) : seq[i] > last}

-----------------------------------------------------------------------------
(* Publishing: EventBus::send, one step per lock it takes.                 *)

SndState == [pc : {"idle", "numbered", "replayed", "counted"}, id : Nat]

\* Mutant: the id is read but not advanced before the lock is released.
SendNumberStale(s) ==
    /\ snd[s].pc = "idle"
    /\ nextId <= MaxEvents
    /\ snd' = [snd EXCEPT ![s] = [pc |-> "numbered", id |-> nextId]]
    /\ UNCHANGED <<nextId, replay, channel, rx, client>>

\* Take the id under the next_id lock, and release the lock.
SendNumber(s) ==
    /\ snd[s].pc = "idle"
    /\ nextId <= MaxEvents
    /\ snd' = [snd EXCEPT ![s] = [pc |-> "numbered", id |-> nextId]]
    /\ nextId' = nextId + 1
    /\ UNCHANGED <<replay, channel, rx, client>>

\* Mutants: the buffer drops its oldest envelope one push too late, too early.
PushReplayLate(seq, id) ==
    Append(IF Len(seq) > Capacity THEN Tail(seq) ELSE seq, id)

PushReplayEarly(seq, id) ==
    Append(IF Len(seq) + 1 = Capacity THEN Tail(seq) ELSE seq, id)

PushReplay(seq, id) ==
    Append(IF Len(seq) = Capacity THEN Tail(seq) ELSE seq, id)

\* Under the replay lock: drop the oldest envelope of a full buffer, push.
SendReplay(s) ==
    /\ snd[s].pc = "numbered"
    /\ replay' = PushReplay(replay, snd[s].id)
    /\ snd' = [snd EXCEPT ![s].pc = "replayed"]
    /\ UNCHANGED <<nextId, channel, rx, client>>

\* Without receivers `send` returns here, the event being only in the buffer.
SendCount(s) ==
    /\ snd[s].pc = "replayed"
    /\ snd' = [snd EXCEPT ![s].pc = IF HasReceivers THEN "counted" ELSE "idle"]
    /\ UNCHANGED <<nextId, replay, channel, rx, client>>

\* The last receiver may have gone since it was counted: SendFailed, which
\* the publishers only log.
SendBroadcast(s) ==
    /\ snd[s].pc = "counted"
    /\ channel' = IF HasReceivers THEN Append(channel, snd[s].id) ELSE channel
    /\ snd' = [snd EXCEPT ![s].pc = "idle"]
    /\ UNCHANGED <<nextId, replay, rx, client>>

-----------------------------------------------------------------------------
(* Subscribing: EventBus::subscribe, and the SSE stream built on it.       *)

RxState == [pc : {"off", "snapshot", "discard", "resend", "live"},
            next : Nat, past : Seq(EventId)]

\* lastId is the Last-Event-ID the client stores, prev the state of the
\* stream's `scan`; the rest is history: the connections made, the ids
\* yielded on this connection and whether it lagged, the first id handed out
\* after it subscribed, and the missed ids its replay set out to resend.
ClientState == [lastId : Nat, prev : Nat, connects : Nat, since : Nat,
                yielded : Seq(EventId), lagged : BOOLEAN, joined : Nat,
                owed : SUBSET EventId]

\* sender.subscribe(): the receiver sees what is broadcast from now on.
Subscribe(c) ==
    /\ rx[c].pc = "off"
    /\ client[c].connects < MaxConnects
    /\ rx' = [rx EXCEPT ![c] =
            [pc   |-> IF client[c].lastId = 0 THEN "live" ELSE "snapshot",
             next |-> Len(channel), past |-> <<>>]]
    /\ client' = [client EXCEPT ![c] =
            [lastId |-> @.lastId, prev |-> 0, connects |-> @.connects + 1,
             since |-> @.lastId, yielded |-> <<>>, lagged |-> FALSE,
             joined |-> nextId, owed |-> {}]]
    /\ UNCHANGED <<nextId, replay, channel, snd>>

\* The next step of replay()'s loop over what is left of `past`; the
\* envelopes that its filter leaves out are passed over.
ReplayPc(c, past) == IF After(client[c].since, past) = {} THEN "live" ELSE "discard"

\* replay(): copy the missed envelopes under the replay lock.
ReplaySnapshot(c) ==
    /\ rx[c].pc = "snapshot"
    /\ rx' = [rx EXCEPT ![c].past = replay, ![c].pc = ReplayPc(c, replay)]
    /\ client' = [client EXCEPT ![c].owed =
                    {replay[i] : i \in After(client[c].since, replay)}]
    /\ UNCHANGED <<nextId, replay, channel, snd>>

\* replay(): one try_recv per envelope, its result (a message, Empty or
\* Lagged) thrown away; the channel is never Closed while the bus lives.
ReplayDiscard(c) ==
    /\ rx[c].pc = "discard"
    /\ rx' = [rx EXCEPT ![c].pc = "resend",
                        ![c].next = IF @ < Oldest THEN Oldest
                                    ELSE IF @ < Len(channel) THEN @ + 1
                                    ELSE @]
    /\ UNCHANGED <<nextId, replay, channel, snd, client>>

\* replay(): broadcast the old envelope to every receiver of the bus.
ReplaySend(c) ==
    /\ rx[c].pc = "resend"
    /\ \E i \in After(client[c].since, rx[c].past) :
         /\ \A j \in After(client[c].since, rx[c].past) : i <= j
         /\ channel' = Append(channel, rx[c].past[i])
         /\ LET rest == SubSeq(rx[c].past, i + 1, Len(rx[c].past)) IN
              rx' = [rx EXCEPT ![c].past = rest, ![c].pc = ReplayPc(c, rest)]
    /\ UNCHANGED <<nextId, replay, snd, client>>

\* event_replay_stream skips the Lagged error and reads on.
ReceiveLagged(c) ==
    /\ rx[c].pc = "live"
    /\ rx[c].next < Oldest
    /\ rx' = [rx EXCEPT ![c].next = Oldest]
    /\ client' = [client EXCEPT ![c].lagged = TRUE]
    /\ UNCHANGED <<nextId, replay, channel, snd>>

\* Mutant: the stream drops every id that is not greater than the previous one.
ReceiveIncreasing(c) ==
    /\ rx[c].pc = "live"
    /\ Oldest <= rx[c].next /\ rx[c].next < Len(channel)
    /\ rx' = [rx EXCEPT ![c].next = @ + 1]
    /\ LET id == channel[rx[c].next + 1] IN
         IF client[c].prev >= id
         THEN UNCHANGED client
         ELSE client' = [client EXCEPT ![c].prev = id, ![c].lastId = id,
                                       ![c].yielded = Append(@, id)]
    /\ UNCHANGED <<nextId, replay, channel, snd>>

\* event_sse_stream yields the envelope unless it repeats the previous id.
Receive(c) ==
    /\ rx[c].pc = "live"
    /\ Oldest <= rx[c].next /\ rx[c].next < Len(channel)
    /\ rx' = [rx EXCEPT ![c].next = @ + 1]
    /\ LET id == channel[rx[c].next + 1] IN
         IF client[c].prev = id
         THEN UNCHANGED client
         ELSE client' = [client EXCEPT ![c].prev = id, ![c].lastId = id,
                                       ![c].yielded = Append(@, id)]
    /\ UNCHANGED <<nextId, replay, channel, snd>>

\* The client goes away: the stream and its receiver are dropped, the stored
\* Last-Event-ID is kept.  subscribe() does not await, so a stream cannot be
\* dropped inside it.
Disconnect(c) ==
    /\ rx[c].pc = "live"
    /\ rx' = [rx EXCEPT ![c].pc = "off"]
    /\ UNCHANGED <<nextId, replay, channel, snd, client>>

-----------------------------------------------------------------------------
Init ==
    /\ nextId = 1
    /\ replay = <<>>
    /\ channel = <<>>
    /\ snd = [s \in Senders |-> [pc |-> "idle", id |-> 0]]
    /\ rx = [c \in Clients |-> [pc |-> "off", next |-> 0, past |-> <<>>]]
    /\ client = [c \in Clients |->
            [lastId |-> 0, prev |-> 0, connects |-> 0, since |-> 0,
             yielded |-> <<>>, lagged |-> FALSE, joined |-> 1, owed |-> {}]]

SendStep(s) ==
    SendNumber(s) \/ SendReplay(s) \/ SendCount(s) \/ SendBroadcast(s)

SubscribeStep(c) ==
    Subscribe(c) \/ ReplaySnapshot(c) \/ ReplayDiscard(c) \/ ReplaySend(c)

ReceiveStep(c) == ReceiveLagged(c) \/ Receive(c)

Next ==
    \/ \E s \in Senders : SendStep(s)
    \/ \E c \in Clients : SubscribeStep(c) \/ ReceiveStep(c) \/ Disconnect(c)

Spec == Init /\ [][Next]_vars

\* A publisher never blocks inside `send`, and hyper polls the stream of a
\* connected client; nothing obliges a client to connect or to leave.
Fairness ==
    /\ \A s \in Senders : WF_vars(SendReplay(s) \/ SendCount(s) \/ SendBroadcast(s))
    /\ \A c \in Clients :
         WF_vars(ReplaySnapshot(c) \/ ReplayDiscard(c) \/ ReplaySend(c) \/ ReceiveStep(c))

FairSpec == Spec /\ Fairness

-----------------------------------------------------------------------------
(* Properties.                                                             *)

\* Every variable has its type; the replay buffer never outgrows
\* replay_capacity, and no receiver is past the end of the channel.
TypeOK ==
    /\ nextId \in EventId
    /\ replay \in Seq(EventId) /\ Len(replay) <= Capacity
    /\ channel \in Seq(EventId)
    /\ snd \in [Senders -> SndState]
    /\ rx \in [Clients -> RxState]
    /\ client \in [Clients -> ClientState]
    /\ \A c \in Clients : rx[c].next <= Len(channel)

InFlight(id) == \E s \in Senders : snd[s].id = id /\ snd[s].pc # "idle"

\* Although the id is taken under one lock and pushed under another, however
\* the publishers interleave no id is in the buffer twice, and no id still on
\* its way to the buffer is already there or held by a second publisher.
ReplayIdsUnique ==
    /\ \A i, j \in 1..Len(replay) : replay[i] = replay[j] => i = j
    /\ \A s \in Senders : snd[s].pc = "numbered" =>
         /\ \A i \in 1..Len(replay) : replay[i] # snd[s].id
         /\ \A t \in Senders : snd[t].pc = "numbered" /\ snd[t].id = snd[s].id => t = s

\* Until the buffer first fills up, every id handed out is in it or is held
\* by a publisher between the two locks: `send` loses no event.
NoGapBeforeEviction ==
    Len(replay) < Capacity =>
      1..(nextId - 1) = Ids(replay) \cup
         {snd[s].id : s \in {t \in Senders : snd[t].pc = "numbered"}}

\* A client that connected without a Last-Event-ID and has read all there is
\* to read, without lagging, was given every event whose publication began
\* after it subscribed and has ended: the receiver_count shortcut and the
\* duplicate suppression of the stream never cost it an event.
FreshSubscriberComplete ==
    \A c \in Clients :
      /\ rx[c].pc = "live" /\ client[c].since = 0 /\ ~client[c].lagged
      /\ rx[c].next = Len(channel)
      => \A id \in client[c].joined..(nextId - 1) :
            InFlight(id) \/ id \in Ids(client[c].yielded)

\* What a connected client has not read yet it will be given, unless it
\* falls so far behind that the channel drops it, or goes away.
UnreadIsDelivered ==
    \A c \in Clients : \A id \in 1..MaxEvents :
      (rx[c].pc = "live" /\ id \in Ids(SubSeq(channel, rx[c].next + 1, Len(channel))))
        ~> (id \in Ids(client[c].yielded) \/ client[c].lagged \/ rx[c].pc # "live")

\* The docs' promise for a reconnect: the client is given every missed event
\* that was in the replay buffer, once it has read all there is to read.
ResumeDeliversMissed ==
    \A c \in Clients :
      rx[c].pc = "live" /\ ~client[c].lagged /\ rx[c].next = Len(channel)
        => client[c].owed \subseteq Ids(client[c].yielded)
=============================================================================
