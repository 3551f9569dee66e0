--------------------------- MODULE EventBusProofs ---------------------------
(***************************************************************************)
(* Proofs about EventBus for every number of publishers and clients, every *)
(* capacity and every bound.                                               *)
(***************************************************************************)
EXTENDS EventBus, SequenceTheorems, TLAPS

\* What PushReplay does to the buffer: it keeps it a buffer, its last element
\* is the new id, and its other elements are those of the old one, in their
\* order and shifted by one position when the buffer was full.
LEMMA PushReplayProperties ==
    ASSUME NEW seq \in Seq(EventId), Len(seq) <= Capacity, NEW id \in EventId
    PROVE  LET new == PushReplay(seq, id)
               off == IF Len(seq) = Capacity THEN 1 ELSE 0
           IN  /\ new \in Seq(EventId)
               /\ Len(new) = Len(seq) + 1 - off
               /\ Len(new) <= Capacity
               /\ new[Len(new)] = id
               /\ \A i \in 1..(Len(new) - 1) : new[i] = seq[i + off]
  <1> DEFINE base == IF Len(seq) = Capacity THEN Tail(seq) ELSE seq
             off == IF Len(seq) = Capacity THEN 1 ELSE 0
  <1>1. Len(seq) \in Nat /\ (Len(seq) = Capacity => seq # <<>>)
    BY CapacityAssumption, EmptySeq, LenProperties
  <1>2. /\ base \in Seq(EventId) /\ Len(base) = Len(seq) - off
        /\ \A i \in 1..Len(base) : base[i] = seq[i + off]
    <2>1. CASE Len(seq) = Capacity
      BY <1>1, <2>1, HeadTailProperties
    <2>2. CASE Len(seq) # Capacity
      BY <1>1, <2>2
    <2> QED BY <2>1, <2>2
  <1>3. PushReplay(seq, id) = Append(base, id)
    BY DEF PushReplay
  <1> HIDE DEF base
  <1>4. /\ Append(base, id) \in Seq(EventId)
        /\ Len(Append(base, id)) = Len(base) + 1
        /\ \A i \in 1..Len(base) : Append(base, id)[i] = base[i]
        /\ Append(base, id)[Len(base) + 1] = id
    BY <1>2, AppendProperties
  <1> QED BY <1>1, <1>2, <1>3, <1>4, CapacityAssumption

\* Appending an id to the channel keeps it a channel and everything in it.
LEMMA AppendChannel ==
    ASSUME NEW seq \in Seq(EventId), NEW id \in EventId
    PROVE  /\ Append(seq, id) \in Seq(EventId)
           /\ Len(Append(seq, id)) = Len(seq) + 1
           /\ Len(seq) \in Nat
           /\ \A i \in 1..Len(seq) : Append(seq, id)[i] = seq[i]
           /\ Append(seq, id)[Len(seq) + 1] = id
           /\ Ids(Append(seq, id)) = Ids(seq) \cup {id}
  <1>1. /\ Append(seq, id) \in Seq(EventId)
        /\ Len(Append(seq, id)) = Len(seq) + 1
        /\ Len(seq) \in Nat
        /\ \A i \in 1..Len(seq) : Append(seq, id)[i] = seq[i]
        /\ Append(seq, id)[Len(seq) + 1] = id
    BY AppendProperties, LenProperties
  <1> QED BY <1>1 DEF Ids

\* An id that is held or buffered was handed out, and a held id is not 0.
IdsIssued ==
    /\ \A i \in 1..Len(replay) : replay[i] < nextId
    /\ \A s \in Senders : /\ snd[s].id < nextId
                          /\ snd[s].pc # "idle" => snd[s].id \in EventId

BusInv == TypeOK /\ IdsIssued

-----------------------------------------------------------------------------
\* Each action keeps the types, the buffer within replay_capacity and the ids
\* below next_id.
LEMMA BusInvInductive == BusInv /\ [Next]_vars => BusInv'
  <1> SUFFICES ASSUME BusInv, [Next]_vars PROVE BusInv'
    OBVIOUS
  <1> USE DEF BusInv, TypeOK, IdsIssued
  <1>1. ASSUME NEW s \in Senders, SendNumber(s) PROVE BusInv'
    <2>1. nextId' \in EventId /\ nextId < nextId'
      BY <1>1 DEF SendNumber, EventId
    <2>2. snd' \in [Senders -> SndState]
      BY <1>1 DEF SendNumber, SndState, EventId
    <2>3. \A t \in Senders : /\ snd'[t].id < nextId'
                             /\ snd'[t].pc # "idle" => snd'[t].id \in EventId
      BY <1>1, <2>1 DEF SendNumber, SndState, EventId
    <2>4. \A i \in 1..Len(replay) : replay[i] < nextId'
      BY <2>1 DEF EventId
    <2> QED BY <1>1, <2>1, <2>2, <2>3, <2>4 DEF SendNumber
  <1>2. ASSUME NEW s \in Senders, SendReplay(s) PROVE BusInv'
    <2>1. snd[s].id \in EventId /\ snd[s].id < nextId
      BY <1>2 DEF SendReplay
    <2>2. /\ replay' \in Seq(EventId) /\ Len(replay') <= Capacity
          /\ \A i \in 1..Len(replay') : replay'[i] < nextId
      <3>1. replay' = PushReplay(replay, snd[s].id)
        BY <1>2 DEF SendReplay
      <3>2. Len(replay) \in Nat /\ Capacity \in Nat
        BY LenProperties, CapacityAssumption
      <3> DEFINE off == IF Len(replay) = Capacity THEN 1 ELSE 0
      <3>3. /\ replay' \in Seq(EventId) /\ Len(replay') <= Capacity
            /\ Len(replay') = Len(replay) + 1 - off
            /\ replay'[Len(replay')] = snd[s].id
            /\ \A i \in 1..(Len(replay') - 1) : replay'[i] = replay[i + off]
        BY <2>1, <3>1, PushReplayProperties
      <3>4. \A i \in 1..(Len(replay') - 1) : i + off \in 1..Len(replay)
        BY <3>2, <3>3
      <3>5. \A i \in 1..Len(replay') : i = Len(replay') \/ i \in 1..(Len(replay') - 1)
        BY <3>2, <3>3
      <3> HIDE DEF off
      <3>6. \A i \in 1..Len(replay') : replay'[i] < nextId
        BY <2>1, <3>3, <3>4, <3>5
      <3> QED BY <3>3, <3>6
    <2>3. snd' \in [Senders -> SndState]
      BY <1>2 DEF SendReplay, SndState
    <2>4. \A t \in Senders : /\ snd'[t].id < nextId'
                             /\ snd'[t].pc # "idle" => snd'[t].id \in EventId
      BY <1>2, <2>1 DEF SendReplay, SndState
    <2> QED BY <1>2, <2>2, <2>3, <2>4 DEF SendReplay
  <1>3. ASSUME NEW s \in Senders, SendCount(s) PROVE BusInv'
    BY <1>3 DEF SendCount, SndState
  <1>4. ASSUME NEW s \in Senders, SendBroadcast(s) PROVE BusInv'
    <2>1. snd[s].id \in EventId /\ channel \in Seq(EventId)
      BY <1>4 DEF SendBroadcast
    <2>2. channel' \in Seq(EventId) /\ Len(channel) <= Len(channel')
      BY <1>4, <2>1, AppendChannel, LenProperties DEF SendBroadcast
    <2>3. \A c \in Clients : rx'[c].next <= Len(channel')
      BY <1>4, <2>2, LenProperties DEF SendBroadcast, RxState
    <2>4. snd' \in [Senders -> SndState]
      BY <1>4 DEF SendBroadcast, SndState
    <2>5. \A t \in Senders : /\ snd'[t].id < nextId'
                             /\ snd'[t].pc # "idle" => snd'[t].id \in EventId
      BY <1>4 DEF SendBroadcast, SndState
    <2> QED BY <1>4, <2>2, <2>3, <2>4, <2>5 DEF SendBroadcast
  <1>5. ASSUME NEW c \in Clients, Subscribe(c) PROVE BusInv'
    <2>1. rx' \in [Clients -> RxState]
      BY <1>5, LenProperties, EmptySeq DEF Subscribe, RxState
    <2>2. \A d \in Clients : rx'[d].next <= Len(channel)
      BY <1>5, LenProperties DEF Subscribe, RxState
    <2>3. client' \in [Clients -> ClientState]
      BY <1>5, EmptySeq DEF Subscribe, ClientState, EventId
    <2> QED BY <1>5, <2>1, <2>2, <2>3 DEF Subscribe
  <1>6. ASSUME NEW c \in Clients, ReplaySnapshot(c) PROVE BusInv'
    <2>1. {replay[i] : i \in After(client[c].since, replay)} \subseteq EventId
      BY DEF After
    <2>2. rx' \in [Clients -> RxState]
      BY <1>6 DEF ReplaySnapshot, RxState, ReplayPc
    <2>3. \A d \in Clients : rx'[d].next <= Len(channel)
      BY <1>6 DEF ReplaySnapshot, RxState
    <2>4. client' \in [Clients -> ClientState]
      BY <1>6, <2>1 DEF ReplaySnapshot, ClientState
    <2> QED BY <1>6, <2>2, <2>3, <2>4 DEF ReplaySnapshot
  <1>7. ASSUME NEW c \in Clients, ReplayDiscard(c) PROVE BusInv'
    <2>1. Len(channel) \in Nat /\ Oldest \in Nat /\ Oldest <= Len(channel)
      BY LenProperties, CapacityAssumption DEF Oldest
    <2> DEFINE n == IF rx[c].next < Oldest THEN Oldest
                    ELSE IF rx[c].next < Len(channel) THEN rx[c].next + 1
                    ELSE rx[c].next
    <2>2. rx' = [rx EXCEPT ![c].pc = "resend", ![c].next = n]
      BY <1>7 DEF ReplayDiscard
    <2>3. n \in Nat /\ n <= Len(channel)
      BY <2>1 DEF RxState
    <2> HIDE DEF n
    <2>4. rx' \in [Clients -> RxState] /\ \A d \in Clients : rx'[d].next <= Len(channel)
      BY <2>2, <2>3 DEF RxState
    <2> QED BY <1>7, <2>4 DEF ReplayDiscard
  <1>8. ASSUME NEW c \in Clients, ReplaySend(c) PROVE BusInv'
    <2>1. PICK i \in After(client[c].since, rx[c].past) :
            /\ channel' = Append(channel, rx[c].past[i])
            /\ LET rest == SubSeq(rx[c].past, i + 1, Len(rx[c].past)) IN
                 rx' = [rx EXCEPT ![c].past = rest, ![c].pc = ReplayPc(c, rest)]
      BY <1>8 DEF ReplaySend
    <2>2. rx[c].past \in Seq(EventId) /\ i \in 1..Len(rx[c].past)
      BY DEF After, RxState
    <2>3. rx[c].past[i] \in EventId
      BY <2>2
    <2> DEFINE rest == SubSeq(rx[c].past, i + 1, Len(rx[c].past))
    <2>4. rest \in Seq(EventId)
      BY <2>2, SubSeqProperties, LenProperties
    <2>5. channel' \in Seq(EventId) /\ Len(channel) <= Len(channel') /\ Len(channel) \in Nat
      BY <2>1, <2>3, AppendChannel, LenProperties
    <2>6. ReplayPc(c, rest) \in {"live", "discard"}
      BY DEF ReplayPc
    <2> HIDE DEF rest
    <2>7. rx' = [rx EXCEPT ![c].past = rest, ![c].pc = ReplayPc(c, rest)]
      BY <2>1 DEF rest
    <2>8. rx' \in [Clients -> RxState]
      BY <2>4, <2>6, <2>7 DEF RxState
    <2>9. \A d \in Clients : rx'[d].next <= Len(channel')
      BY <2>5, <2>7 DEF RxState
    <2> QED BY <1>8, <2>5, <2>8, <2>9 DEF ReplaySend
  <1>9. ASSUME NEW c \in Clients, ReceiveLagged(c) PROVE BusInv'
    <2>1. Len(channel) \in Nat /\ Oldest \in Nat /\ Oldest <= Len(channel)
      BY LenProperties, CapacityAssumption DEF Oldest
    <2>2. rx' \in [Clients -> RxState] /\ \A d \in Clients : rx'[d].next <= Len(channel)
      BY <1>9, <2>1 DEF ReceiveLagged, RxState
    <2>3. client' \in [Clients -> ClientState]
      BY <1>9 DEF ReceiveLagged, ClientState
    <2> QED BY <1>9, <2>2, <2>3 DEF ReceiveLagged
  <1>10. ASSUME NEW c \in Clients, Receive(c) PROVE BusInv'
    <2> DEFINE id == channel[rx[c].next + 1]
    <2>1. Len(channel) \in Nat /\ rx[c].next \in Nat /\ rx[c].next < Len(channel)
      BY <1>10, LenProperties DEF Receive, RxState
    <2>2. id \in EventId
      BY <2>1
    <2>4. rx' \in [Clients -> RxState] /\ \A d \in Clients : rx'[d].next <= Len(channel)
      <3> DEFINE n == rx[c].next + 1
      <3>1. rx' = [rx EXCEPT ![c].next = n]
        BY <1>10 DEF Receive
      <3>2. n \in Nat /\ n <= Len(channel)
        BY <2>1
      <3> HIDE DEF n
      <3> QED BY <3>1, <3>2 DEF RxState
    <2> DEFINE y == Append(client[c].yielded, id)
    <2>5. \/ client' = client
          \/ client' = [client EXCEPT ![c].prev = id, ![c].lastId = id, ![c].yielded = y]
      BY <1>10 DEF Receive
    <2> HIDE DEF id, y
    <2>6. id \in Nat /\ y \in Seq(EventId)
      BY <2>2, AppendChannel DEF ClientState, EventId, y
    <2>7. client' \in [Clients -> ClientState]
      <3> DEFINE r == [client[c] EXCEPT !.prev = id, !.lastId = id, !.yielded = y]
      <3>1. r \in ClientState
        BY <2>6 DEF ClientState
      <3>2. client' = client \/ client' = [client EXCEPT ![c] = r]
        BY <2>5
      <3> HIDE DEF r
      <3> QED BY <3>1, <3>2
    <2> QED BY <1>10, <2>4, <2>7 DEF Receive
  <1>11. ASSUME NEW c \in Clients, Disconnect(c) PROVE BusInv'
    BY <1>11 DEF Disconnect, RxState
  <1>12. CASE UNCHANGED vars
    BY <1>12 DEF vars
  <1> QED
    BY <1>1, <1>2, <1>3, <1>4, <1>5, <1>6, <1>7, <1>8, <1>9, <1>10, <1>11, <1>12
       DEF Next, SendStep, SubscribeStep, ReceiveStep

\* Type correctness of the bus: in particular the replay buffer never holds
\* more than replay_capacity envelopes.
THEOREM TypeCorrect == Spec => []TypeOK
  <1>1. Init => BusInv
    BY CapacityAssumption, EmptySeq DEF Init, BusInv, TypeOK, IdsIssued,
       SndState, RxState, ClientState, EventId
  <1> QED BY <1>1, BusInvInductive, PTL DEF Spec, BusInv

-----------------------------------------------------------------------------
\* Pushing a fresh id keeps the ids of the buffer distinct.
LEMMA UniqueInductive ==
    BusInv /\ ReplayIdsUnique /\ [Next]_vars => ReplayIdsUnique'
  <1> SUFFICES ASSUME BusInv, ReplayIdsUnique, [Next]_vars PROVE ReplayIdsUnique'
    OBVIOUS
  <1> USE DEF BusInv, TypeOK, IdsIssued
  <1>1. ASSUME NEW s \in Senders, SendNumber(s) PROVE ReplayIdsUnique'
    <2>1. /\ replay' = replay
          /\ snd' = [snd EXCEPT ![s] = [pc |-> "numbered", id |-> nextId]]
      BY <1>1 DEF SendNumber
    <2>2. \A i \in 1..Len(replay) : replay[i] # nextId
      BY DEF EventId
    <2>3. \A t \in Senders : snd[t].id # nextId
      BY DEF EventId, SndState
    <2> QED BY <2>1, <2>2, <2>3 DEF ReplayIdsUnique, SndState
  <1>2. ASSUME NEW s \in Senders, SendReplay(s) PROVE ReplayIdsUnique'
    <2> DEFINE off == IF Len(replay) = Capacity THEN 1 ELSE 0
               id == snd[s].id
    <2>1. /\ id \in EventId
          /\ \A i \in 1..Len(replay) : replay[i] # id
          /\ \A t \in Senders : snd[t].pc = "numbered" /\ snd[t].id = id => t = s
          /\ replay' = PushReplay(replay, id)
          /\ snd' = [snd EXCEPT ![s].pc = "replayed"]
      BY <1>2 DEF SendReplay, ReplayIdsUnique
    <2>2. /\ Len(replay') = Len(replay) + 1 - off /\ Len(replay) \in Nat
          /\ replay'[Len(replay')] = id
          /\ \A i \in 1..(Len(replay') - 1) : replay'[i] = replay[i + off]
      BY <2>1, PushReplayProperties, LenProperties
    <2>3. \A i \in 1..(Len(replay') - 1) : i + off \in 1..Len(replay)
      BY <2>2
    <2>4. \A i \in 1..Len(replay') : i = Len(replay') \/ i \in 1..(Len(replay') - 1)
      BY <2>2
    <2>5. off \in Nat
      OBVIOUS
    <2> HIDE DEF off, id
    <2>6. \A i, j \in 1..(Len(replay') - 1) : replay'[i] = replay'[j] => i = j
      <3> SUFFICES ASSUME NEW i \in 1..(Len(replay') - 1), NEW j \in 1..(Len(replay') - 1),
                          replay'[i] = replay'[j]
                   PROVE  i = j
        OBVIOUS
      <3>1. replay[i + off] = replay[j + off]
        BY <2>2
      <3>2. i + off = j + off
        BY <3>1, <2>3 DEF ReplayIdsUnique
      <3> QED BY <3>2, <2>5
    <2>7. \A i \in 1..(Len(replay') - 1) : replay'[i] # id
      BY <2>1, <2>2, <2>3
    <2>8. \A i, j \in 1..Len(replay') : replay'[i] = replay'[j] => i = j
      BY <2>2, <2>4, <2>6, <2>7
    <2>9. \A t \in Senders : snd'[t].pc = "numbered" =>
            t # s /\ snd'[t] = snd[t] /\ snd[t].id # id
      BY <2>1 DEF SndState
    <2>10. ASSUME NEW t \in Senders, snd'[t].pc = "numbered", NEW i \in 1..Len(replay')
           PROVE  replay'[i] # snd'[t].id
      <3>1. CASE i = Len(replay')
        BY <3>1, <2>2, <2>9, <2>10
      <3>2. CASE i \in 1..(Len(replay') - 1)
        BY <3>2, <2>2, <2>3, <2>9, <2>10 DEF ReplayIdsUnique
      <3> QED BY <3>1, <3>2, <2>4
    <2>11. \A t, u \in Senders :
             snd'[t].pc = "numbered" /\ snd'[u].pc = "numbered" /\ snd'[u].id = snd'[t].id
               => u = t
      BY <2>9 DEF ReplayIdsUnique
    <2> QED BY <2>8, <2>10, <2>11 DEF ReplayIdsUnique
  <1>3. ASSUME NEW s \in Senders, SendCount(s) \/ SendBroadcast(s) PROVE ReplayIdsUnique'
    <2>1. /\ replay' = replay
          /\ \A t \in Senders : snd'[t].pc = "numbered" =>
                snd[t].pc = "numbered" /\ snd'[t].id = snd[t].id
      BY <1>3 DEF SendCount, SendBroadcast, SndState
    <2> QED BY <2>1 DEF ReplayIdsUnique
  <1>4. ASSUME NEW c \in Clients, SubscribeStep(c) \/ ReceiveStep(c) \/ Disconnect(c)
        PROVE  ReplayIdsUnique'
    BY <1>4 DEF SubscribeStep, ReceiveStep, Subscribe, ReplaySnapshot, ReplayDiscard,
       ReplaySend, ReceiveLagged, Receive, Disconnect, ReplayIdsUnique
  <1>5. CASE UNCHANGED vars
    BY <1>5 DEF vars, ReplayIdsUnique
  <1> QED
    BY <1>1, <1>2, <1>3, <1>4, <1>5 DEF Next, SendStep

\* No event id is ever in the replay buffer twice, for any number of
\* concurrent publishers.
THEOREM ReplayIdsAreUnique == Spec => []ReplayIdsUnique
  <1>1. Init => BusInv /\ ReplayIdsUnique
    BY CapacityAssumption, EmptySeq DEF Init, BusInv, TypeOK, IdsIssued,
       SndState, RxState, ClientState, EventId, ReplayIdsUnique
  <1> QED BY <1>1, BusInvInductive, UniqueInductive, PTL DEF Spec

-----------------------------------------------------------------------------
\* Until the buffer is full, every step keeps the account of the ids.
LEMMA NoGapInductive ==
    BusInv /\ ReplayIdsUnique /\ NoGapBeforeEviction /\ [Next]_vars => NoGapBeforeEviction'
  <1> SUFFICES ASSUME BusInv, ReplayIdsUnique, NoGapBeforeEviction, [Next]_vars,
                      Len(replay') < Capacity
               PROVE  1..(nextId' - 1) = Ids(replay') \cup
                        {snd'[s].id : s \in {t \in Senders : snd'[t].pc = "numbered"}}
    BY DEF NoGapBeforeEviction
  <1> DEFINE Held == {snd[s].id : s \in {t \in Senders : snd[t].pc = "numbered"}}
             NewHeld == {snd'[s].id : s \in {t \in Senders : snd'[t].pc = "numbered"}}
  <1> SUFFICES 1..(nextId' - 1) = Ids(replay') \cup NewHeld
    OBVIOUS
  <1> USE DEF BusInv, TypeOK, IdsIssued
  <1>1. ASSUME NEW s \in Senders, SendNumber(s) PROVE 1..(nextId' - 1) = Ids(replay') \cup NewHeld
    <2>1. replay' = replay /\ nextId' = nextId + 1 /\ nextId \in Nat /\ nextId > 0
      BY <1>1 DEF SendNumber, EventId
    <2>2. snd[s].pc = "idle" /\ snd' = [snd EXCEPT ![s] = [pc |-> "numbered", id |-> nextId]]
      BY <1>1 DEF SendNumber
    <2>3. NewHeld = Held \cup {nextId}
      BY <2>2 DEF SndState
    <2>4. 1..(nextId - 1) = Ids(replay) \cup Held
      BY <2>1 DEF NoGapBeforeEviction
    <2>5. 1..(nextId' - 1) = 1..(nextId - 1) \cup {nextId}
      BY <2>1
    <2> QED BY <2>1, <2>3, <2>4, <2>5
  <1>2. ASSUME NEW s \in Senders, SendReplay(s) PROVE 1..(nextId' - 1) = Ids(replay') \cup NewHeld
    <2>1. /\ snd[s].pc = "numbered" /\ snd[s].id \in EventId
          /\ replay' = PushReplay(replay, snd[s].id)
          /\ snd' = [snd EXCEPT ![s].pc = "replayed"] /\ nextId' = nextId
      BY <1>2 DEF SendReplay
    <2>2. Len(replay) < Capacity /\ Len(replay) \in Nat
      <3>1. Len(replay) \in Nat /\ Capacity \in Nat
        BY LenProperties, CapacityAssumption
      <3>2. Len(replay') = Len(replay) + 1 - (IF Len(replay) = Capacity THEN 1 ELSE 0)
        BY <2>1, PushReplayProperties
      <3> QED BY <3>1, <3>2
    <2>3. replay' = Append(replay, snd[s].id)
      BY <2>1, <2>2, CapacityAssumption DEF PushReplay
    <2>4. Ids(replay') = Ids(replay) \cup {snd[s].id}
      BY <2>1, <2>3, AppendChannel
    <2>5. Held = NewHeld \cup {snd[s].id}
      BY <2>1 DEF ReplayIdsUnique, SndState
    <2>6. 1..(nextId - 1) = Ids(replay) \cup Held
      BY <2>2 DEF NoGapBeforeEviction
    <2> QED BY <2>1, <2>4, <2>5, <2>6
  <1>3. ASSUME NEW s \in Senders, SendCount(s) \/ SendBroadcast(s)
        PROVE  1..(nextId' - 1) = Ids(replay') \cup NewHeld
    <2>1. replay' = replay /\ nextId' = nextId
      BY <1>3 DEF SendCount, SendBroadcast
    <2>2. \A t \in Senders : /\ snd'[t].pc = "numbered" <=> snd[t].pc = "numbered"
                             /\ snd'[t].id = snd[t].id
      <3>1. CASE SendCount(s)
        BY <3>1 DEF SendCount, SndState
      <3>2. CASE SendBroadcast(s)
        BY <3>2 DEF SendBroadcast, SndState
      <3> QED BY <1>3, <3>1, <3>2
    <2>3. NewHeld = Held
      BY <2>2
    <2> QED BY <2>1, <2>3 DEF NoGapBeforeEviction
  <1>4. ASSUME NEW c \in Clients, SubscribeStep(c) \/ ReceiveStep(c) \/ Disconnect(c)
        PROVE  1..(nextId' - 1) = Ids(replay') \cup NewHeld
    <2>1. UNCHANGED <<nextId, replay, snd>>
      BY <1>4 DEF SubscribeStep, ReceiveStep, Subscribe, ReplaySnapshot, ReplayDiscard,
         ReplaySend, ReceiveLagged, Receive, Disconnect
    <2> QED BY <2>1 DEF NoGapBeforeEviction
  <1>5. CASE UNCHANGED vars
    BY <1>5 DEF vars, NoGapBeforeEviction
  <1> QED
    BY <1>1, <1>2, <1>3, <1>4, <1>5 DEF Next, SendStep

\* `send` loses no event before the buffer first fills up, for any number of
\* concurrent publishers.
THEOREM NoGap == Spec => []NoGapBeforeEviction
  <1>1. Init => BusInv /\ ReplayIdsUnique
    BY CapacityAssumption, EmptySeq DEF Init, BusInv, TypeOK, IdsIssued,
       SndState, RxState, ClientState, EventId, ReplayIdsUnique
  <1>2. Init => NoGapBeforeEviction
    BY DEF Init, NoGapBeforeEviction, Ids
  <1> QED BY <1>1, <1>2, BusInvInductive, UniqueInductive, NoGapInductive, PTL DEF Spec

-----------------------------------------------------------------------------
Unread(c) == {channel[i] : i \in (rx[c].next + 1)..Len(channel)}

\* The strengthening of FreshSubscriberComplete: what a fresh client has not
\* been given is still in flight or still unread.
FreshTracked ==
    \A c \in Clients :
      rx[c].pc = "live" /\ client[c].since = 0 /\ ~client[c].lagged
      => \A id \in client[c].joined..(nextId - 1) :
            InFlight(id) \/ id \in Ids(client[c].yielded) \/ id \in Unread(c)

\* A client inside replay() came with a Last-Event-ID, and the id that the
\* duplicate suppression remembers was yielded on this connection.
StreamState ==
    \A c \in Clients :
      /\ rx[c].pc \in {"snapshot", "discard", "resend"} => client[c].since # 0
      /\ client[c].prev # 0 => client[c].prev \in Ids(client[c].yielded)

\* No step of a publisher makes an id leave a client's account.
LEMMA SendKeepsTracked ==
    ASSUME BusInv, FreshTracked, NEW s \in Senders, SendStep(s)
    PROVE  FreshTracked'
  <1> USE DEF BusInv, TypeOK, IdsIssued
  <1> SUFFICES ASSUME NEW c \in Clients, rx'[c].pc = "live", client'[c].since = 0,
                      ~client'[c].lagged, NEW id \in client'[c].joined..(nextId' - 1)
               PROVE  \/ \E t \in Senders : snd'[t].id = id /\ snd'[t].pc # "idle"
                      \/ id \in Ids(client'[c].yielded)
                      \/ \E i \in (rx'[c].next + 1)..Len(channel') : channel'[i] = id
    BY DEF FreshTracked, InFlight, Unread
  <1>1. rx' = rx /\ client' = client
    BY DEF SendStep, SendNumber, SendReplay, SendCount, SendBroadcast
  <1>2. client[c].joined \in Nat /\ nextId \in Nat /\ rx[c].next \in Nat /\ Len(channel) \in Nat
    BY LenProperties DEF ClientState, EventId, RxState
  <1>3. HasReceivers
    BY <1>1 DEF HasReceivers
  <1>4. id \in client[c].joined..(nextId - 1) =>
          \/ \E t \in Senders : snd[t].id = id /\ snd[t].pc # "idle"
          \/ id \in Ids(client[c].yielded)
          \/ \E i \in (rx[c].next + 1)..Len(channel) : channel[i] = id
    BY <1>1 DEF FreshTracked, InFlight, Unread
  <1>5. CASE SendNumber(s)
    <2>1. /\ snd[s].pc = "idle" /\ nextId' = nextId + 1 /\ channel' = channel
          /\ snd' = [snd EXCEPT ![s] = [pc |-> "numbered", id |-> nextId]]
      BY <1>5 DEF SendNumber
    <2>2. id \in client[c].joined..(nextId - 1) \/ id = nextId
      BY <1>1, <1>2, <2>1
    <2>3. CASE id = nextId
      BY <2>1, <2>3
    <2>4. CASE id \in client[c].joined..(nextId - 1)
      BY <1>1, <1>4, <2>1, <2>4
    <2> QED BY <2>2, <2>3, <2>4
  <1>6. CASE SendReplay(s)
    BY <1>1, <1>4, <1>6 DEF SendReplay, SndState
  <1>7. CASE SendCount(s)
    BY <1>1, <1>3, <1>4, <1>7 DEF SendCount, SndState
  <1>8. CASE SendBroadcast(s)
    <2>1. /\ channel' = Append(channel, snd[s].id) /\ snd[s].id \in EventId
          /\ nextId' = nextId /\ snd' = [snd EXCEPT ![s].pc = "idle"]
      BY <1>3, <1>8 DEF SendBroadcast
    <2>2. /\ Len(channel') = Len(channel) + 1 /\ channel'[Len(channel) + 1] = snd[s].id
          /\ \A i \in 1..Len(channel) : channel'[i] = channel[i]
      BY <2>1, AppendChannel
    <2>3. rx[c].next <= Len(channel)
      OBVIOUS
    <2>4. CASE id = snd[s].id
      <3>1. Len(channel) + 1 \in (rx'[c].next + 1)..Len(channel')
        BY <1>1, <1>2, <2>2, <2>3
      <3> QED BY <3>1, <2>2, <2>4
    <2>5. CASE id # snd[s].id /\ \E t \in Senders : snd[t].id = id /\ snd[t].pc # "idle"
      BY <2>1, <2>5 DEF SndState
    <2>6. CASE id \in Ids(client[c].yielded)
      BY <1>1, <2>6
    <2>7. CASE \E i \in (rx[c].next + 1)..Len(channel) : channel[i] = id
      <3>1. PICK i \in (rx[c].next + 1)..Len(channel) : channel[i] = id
        BY <2>7
      <3>2. i \in 1..Len(channel) /\ i \in (rx'[c].next + 1)..Len(channel')
        BY <1>1, <1>2, <2>2, <3>1
      <3> QED BY <3>1, <3>2, <2>2
    <2> QED BY <1>1, <1>4, <2>1, <2>4, <2>5, <2>6, <2>7
  <1> QED BY <1>5, <1>6, <1>7, <1>8 DEF SendStep

\* Nor does a step of this or of another client.
LEMMA ClientKeepsTracked ==
    ASSUME BusInv, StreamState, FreshTracked, NEW d \in Clients,
           SubscribeStep(d) \/ ReceiveStep(d) \/ Disconnect(d)
    PROVE  FreshTracked'
  <1> USE DEF BusInv, TypeOK, IdsIssued
  <1> SUFFICES ASSUME NEW c \in Clients, rx'[c].pc = "live", client'[c].since = 0,
                      ~client'[c].lagged, NEW id \in client'[c].joined..(nextId' - 1)
               PROVE  \/ InFlight(id)'
                      \/ id \in Ids(client'[c].yielded)
                      \/ \E i \in (rx'[c].next + 1)..Len(channel') : channel'[i] = id
    BY DEF FreshTracked, Unread
  <1>1. snd' = snd /\ nextId' = nextId
    BY DEF SubscribeStep, ReceiveStep, Subscribe, ReplaySnapshot, ReplayDiscard,
       ReplaySend, ReceiveLagged, Receive, Disconnect
  <1>2. InFlight(id)' <=> InFlight(id)
    BY <1>1 DEF InFlight
  <1>3. client[c].joined \in Nat /\ nextId \in Nat /\ rx[c].next \in Nat /\ Len(channel) \in Nat
    BY LenProperties DEF ClientState, EventId, RxState
  <1>4. /\ Len(channel) <= Len(channel') /\ Len(channel') \in Nat
        /\ \A i \in 1..Len(channel) : channel'[i] = channel[i]
    <2>1. CASE ReplaySend(d)
      <3>1. PICK i \in After(client[d].since, rx[d].past) :
              channel' = Append(channel, rx[d].past[i])
        BY <2>1 DEF ReplaySend
      <3>2. rx[d].past[i] \in EventId
        BY <3>1 DEF After, RxState
      <3> QED BY <1>3, <3>1, <3>2, AppendChannel
    <2>2. CASE channel' = channel
      BY <1>3, <2>2
    <2> QED BY <2>1, <2>2 DEF SubscribeStep, ReceiveStep, Subscribe, ReplaySnapshot,
              ReplayDiscard, ReceiveLagged, Receive, Disconnect
  <1>5. ASSUME rx[c].pc = "live", client[c].since = 0, ~client[c].lagged,
               client'[c].joined = client[c].joined
        PROVE  InFlight(id) \/ id \in Ids(client[c].yielded)
               \/ \E i \in (rx[c].next + 1)..Len(channel) : channel[i] = id
    BY <1>1, <1>5 DEF FreshTracked, Unread
  <1>6. CASE rx'[c] = rx[c] /\ client'[c] = client[c]
    <2>1. InFlight(id) \/ id \in Ids(client[c].yielded)
             \/ \E i \in (rx[c].next + 1)..Len(channel) : channel[i] = id
      BY <1>5, <1>6
    <2>2. (rx[c].next + 1)..Len(channel) \subseteq (rx[c].next + 1)..Len(channel')
      BY <1>3, <1>4
    <2>3. (rx[c].next + 1)..Len(channel) \subseteq 1..Len(channel)
      BY <1>3
    <2> QED BY <1>2, <1>4, <1>6, <2>1, <2>2, <2>3
  <1>7. ASSUME c # d PROVE rx'[c] = rx[c] /\ client'[c] = client[c]
    <2>1. CASE SubscribeStep(d)
      BY <1>7, <2>1 DEF SubscribeStep, Subscribe, ReplaySnapshot, ReplayDiscard, ReplaySend
    <2>2. CASE ReceiveStep(d) \/ Disconnect(d)
      BY <1>7, <2>2 DEF ReceiveStep, ReceiveLagged, Receive, Disconnect
    <2> QED BY <2>1, <2>2
  <1>8. CASE c = d /\ Subscribe(d)
    <2>1. client'[c].joined = nextId
      BY <1>8 DEF Subscribe, ClientState
    <2> QED BY <1>1, <1>3, <2>1
  <1>9. CASE c = d /\ ReplaySnapshot(d)
    BY <1>9 DEF ReplaySnapshot, StreamState, ClientState
  <1>10. CASE c = d /\ (ReplayDiscard(d) \/ ReplaySend(d))
    BY <1>10 DEF ReplayDiscard, ReplaySend, StreamState
  <1>11. CASE c = d /\ ReceiveLagged(d)
    BY <1>11 DEF ReceiveLagged, ClientState
  <1>12. CASE c = d /\ Receive(d)
    <2> DEFINE new == channel[rx[c].next + 1]
    <2>1. /\ rx[c].pc = "live" /\ channel' = channel /\ rx[c].next < Len(channel)
          /\ rx'[c].next = rx[c].next + 1
      BY <1>12 DEF Receive, RxState
    <2>2. new \in EventId
      BY <1>3, <2>1
    <2>3. /\ client'[c].since = client[c].since /\ client'[c].lagged = client[c].lagged
          /\ client'[c].joined = client[c].joined
      BY <1>12 DEF Receive, ClientState
    <2>4. Ids(client[c].yielded) \cup {new} \subseteq Ids(client'[c].yielded)
      <3>1. CASE client[c].prev = new
        <4>1. client' = client
          BY <1>12, <3>1 DEF Receive
        <4>2. new \in Ids(client[c].yielded)
          BY <2>2, <3>1 DEF StreamState, EventId
        <4> QED BY <4>1, <4>2
      <3>2. CASE client[c].prev # new
        <4>1. client'[c].yielded = Append(client[c].yielded, new)
          BY <1>12, <3>2 DEF Receive, ClientState
        <4>2. client[c].yielded \in Seq(EventId)
          BY DEF ClientState
        <4> QED BY <2>2, <4>1, <4>2, AppendChannel
      <3> QED BY <3>1, <3>2
    <2>5. InFlight(id) \/ id \in Ids(client[c].yielded)
             \/ \E i \in (rx[c].next + 1)..Len(channel) : channel[i] = id
      BY <1>5, <2>1, <2>3
    <2>6. CASE \E i \in (rx[c].next + 1)..Len(channel) : channel[i] = id
      <3>1. PICK i \in (rx[c].next + 1)..Len(channel) : channel[i] = id
        BY <2>6
      <3>2. i = rx[c].next + 1 \/ i \in (rx'[c].next + 1)..Len(channel')
        BY <1>3, <2>1, <3>1
      <3> QED BY <2>1, <2>4, <3>1, <3>2
    <2> QED BY <1>2, <2>4, <2>5, <2>6
  <1>13. CASE c = d /\ Disconnect(d)
    BY <1>13 DEF Disconnect, RxState
  <1> QED
    BY <1>6, <1>7, <1>8, <1>9, <1>10, <1>11, <1>12, <1>13 DEF SubscribeStep, ReceiveStep

\* The stream invariant is inductive on top of the bus invariant.
LEMMA StreamStateInductive == BusInv /\ StreamState /\ [Next]_vars => StreamState'
  <1> SUFFICES ASSUME BusInv, StreamState, [Next]_vars, NEW c \in Clients
               PROVE  /\ rx'[c].pc \in {"snapshot", "discard", "resend"} => client'[c].since # 0
                      /\ client'[c].prev # 0 => client'[c].prev \in Ids(client'[c].yielded)
    BY DEF StreamState
  <1> USE DEF BusInv, TypeOK
  <1>1. CASE rx'[c] = rx[c] /\ client'[c] = client[c]
    BY <1>1 DEF StreamState
  <1>2. ASSUME NEW s \in Senders, SendStep(s) PROVE rx'[c] = rx[c] /\ client'[c] = client[c]
    BY <1>2 DEF SendStep, SendNumber, SendReplay, SendCount, SendBroadcast
  <1>3. ASSUME NEW d \in Clients, SubscribeStep(d) \/ ReceiveStep(d) \/ Disconnect(d), c # d
        PROVE  rx'[c] = rx[c] /\ client'[c] = client[c]
    <2>1. CASE SubscribeStep(d)
      BY <1>3, <2>1 DEF SubscribeStep, Subscribe, ReplaySnapshot, ReplayDiscard, ReplaySend
    <2>2. CASE ReceiveStep(d) \/ Disconnect(d)
      BY <1>3, <2>2 DEF ReceiveStep, ReceiveLagged, Receive, Disconnect
    <2> QED BY <1>3, <2>1, <2>2
  <1>4. CASE Subscribe(c)
    <2>1. /\ rx'[c].pc = (IF client[c].lastId = 0 THEN "live" ELSE "snapshot")
          /\ client'[c].since = client[c].lastId /\ client'[c].prev = 0
      BY <1>4 DEF Subscribe, RxState, ClientState
    <2> QED BY <2>1
  <1>5. CASE ReplaySnapshot(c)
    BY <1>5 DEF ReplaySnapshot, StreamState, RxState, ClientState
  <1>6. CASE ReplayDiscard(c) \/ ReplaySend(c)
    BY <1>6 DEF ReplayDiscard, ReplaySend, StreamState
  <1>7. CASE ReceiveLagged(c)
    <2>1. /\ rx'[c].pc = rx[c].pc /\ client'[c].since = client[c].since
          /\ client'[c].prev = client[c].prev /\ client'[c].yielded = client[c].yielded
      BY <1>7 DEF ReceiveLagged, RxState, ClientState
    <2> QED BY <2>1 DEF StreamState
  <1>8. CASE Receive(c)
    <2> DEFINE new == channel[rx[c].next + 1]
    <2>1. rx[c].pc = "live" /\ rx'[c].pc = rx[c].pc
      BY <1>8 DEF Receive, RxState
    <2>2. new \in EventId
      BY <1>8, LenProperties DEF Receive, RxState
    <2>3. CASE client[c].prev = new
      BY <1>8, <2>1, <2>3 DEF Receive, StreamState
    <2>4. CASE client[c].prev # new
      <3>1. client'[c].yielded = Append(client[c].yielded, new) /\ client'[c].prev = new
        BY <1>8, <2>4 DEF Receive, ClientState
      <3>2. client[c].yielded \in Seq(EventId)
        BY DEF ClientState
      <3>3. new \in Ids(client'[c].yielded)
        BY <2>2, <3>1, <3>2, AppendChannel
      <3> QED BY <2>1, <3>1, <3>3
    <2> QED BY <2>3, <2>4
  <1>9. CASE Disconnect(c)
    BY <1>9 DEF Disconnect, StreamState, RxState
  <1>10. CASE UNCHANGED vars
    BY <1>1, <1>10 DEF vars
  <1> QED
    BY <1>1, <1>2, <1>3, <1>4, <1>5, <1>6, <1>7, <1>8, <1>9, <1>10
       DEF Next, SubscribeStep, ReceiveStep

\* A client that connected without a Last-Event-ID, did not lag and has read
\* all there is to read was given every event published since, for any number
\* of publishers and of other clients, whatever those replay or resend.
THEOREM FreshComplete == Spec => []FreshSubscriberComplete
  <1>1. Init => BusInv
    BY CapacityAssumption, EmptySeq DEF Init, BusInv, TypeOK, IdsIssued,
       SndState, RxState, ClientState, EventId
  <1>2. Init => StreamState /\ FreshTracked
    BY DEF Init, StreamState, FreshTracked
  <1>3. BusInv /\ StreamState /\ FreshTracked /\ [Next]_vars => FreshTracked'
    <2>1. ASSUME BusInv, FreshTracked, UNCHANGED vars PROVE FreshTracked'
      BY <2>1 DEF vars, FreshTracked, InFlight, Unread
    <2> QED BY <2>1, SendKeepsTracked, ClientKeepsTracked DEF Next
  <1>4. BusInv /\ FreshTracked => FreshSubscriberComplete
    <2> SUFFICES ASSUME BusInv, FreshTracked, NEW c \in Clients,
                        rx[c].pc = "live", client[c].since = 0, ~client[c].lagged,
                        rx[c].next = Len(channel),
                        NEW id \in client[c].joined..(nextId - 1)
                 PROVE  InFlight(id) \/ id \in Ids(client[c].yielded)
      BY DEF FreshSubscriberComplete
    <2>1. Len(channel) \in Nat
      BY LenProperties DEF BusInv, TypeOK
    <2>2. Unread(c) = {}
      BY <2>1 DEF Unread
    <2> QED BY <2>2 DEF FreshTracked
  <1> QED
    BY <1>1, <1>2, <1>3, <1>4, BusInvInductive, StreamStateInductive, PTL DEF Spec
=============================================================================
