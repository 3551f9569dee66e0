--------------------------- MODULE SettingsProofs ---------------------------
(* Proofs about Settings: its types, and that a watcher that waits while the *)
(* engine runs on other settings than the stored ones will be woken, for any *)
(* number of changes, resets, lost connections and failing queries.         *)
EXTENDS Settings, TLAPS

Reading == pc \in {"engine", "policy", "revision"}

\* Something will tell the watcher of a change.
Noticed ==
    \/ missed
    \/ listening /\ notices # <<>>
    \/ ~listening /\ last_revision < revision

\* When there is a stream.
StreamInv ==
    /\ pc = "listen" => listening
    /\ pc \in {"sleep", "subscribe"} => ~listening
    /\ Reading => (listening <=> purpose = "change")
    /\ ~listening => notices = <<>>

\* The snapshot that is being read holds what is stored, or it is known that it
\* does not.
SnapInv ==
    /\ pc \in {"policy", "revision"} /\ snap.profile # profile => snap.torn \/ notices # <<>>
    /\ pc = "revision" /\ snap.policy # policy => snap.torn \/ notices # <<>>
    /\ pc = "subscribe" /\ (snap.profile # profile \/ snap.policy # policy) => missed
    /\ pc = "apply" /\ (snap.profile # profile \/ snap.policy # policy) => Noticed

\* So does the profile that is being applied, which has an address while a list
\* is downloaded from it ...
ApplyInv ==
    /\ pc \in {"refresh", "fetch", "persist", "secrets"} /\ (engine_profile.profile # profile \/ fs_policy # policy)
           => Noticed
    /\ pc = "fetch" => engine_profile.profile.url # None
    /\ pc = "persist" => found \in Meta

\* ... and the one in force, while the watcher waits or polls.
WaitInv ==
    (pc \in {"listen", "sleep"} \/ (Reading /\ purpose = "poll")) /\ Stale => Noticed \/ failed

FailedInv == (pc = "ended" => failed) /\ (failed => config_degraded)

Snap == [profile : Profiles, meta : Meta, policy : Policies, torn : BOOLEAN]
EngineProfile == [profile : Profiles, meta : Meta]
Phases == {"engine", "policy", "revision", "subscribe", "apply", "refresh", "fetch",
           "persist", "secrets", "listen", "sleep", "ended"}

\* The types, in the groups that the actions change separately.
StoredOK == profile \in Profiles /\ meta \in Meta /\ policy \in Policies /\ revision \in Nat
WatchOK ==
    /\ listening \in BOOLEAN /\ notices \in Seq(Nat) /\ pc \in Phases
    /\ purpose \in {"start", "change", "poll"} /\ change \in Nat /\ last_revision \in Nat /\ snap \in Snap
AppliedOK ==
    /\ engine_profile \in EngineProfile /\ fs_policy \in Policies
    /\ found \in Meta \cup {None} /\ cache \in Cached \cup {None} /\ sent \in Profiles \cup {None}
    /\ fetches \in 0 .. MaxFetches
FlagsOK == config_degraded \in BOOLEAN /\ missed \in BOOLEAN /\ failed \in BOOLEAN

IInv ==
    /\ StoredOK /\ WatchOK /\ AppliedOK /\ FlagsOK
    /\ StreamInv /\ SnapInv /\ ApplyInv /\ WaitInv /\ FailedInv

-----------------------------------------------------------------------------
(* The operators.                                                          *)

LEMMA NotifyOK ==
  ASSUME NEW rev \in Nat, NEW tables \in {1, 2}, listening \in BOOLEAN, notices \in Seq(Nat), Notify(rev, tables)
  PROVE  /\ notices' \in Seq(Nat)
         /\ listening => notices' # <<>>
         /\ ~listening => notices' = notices
<1>1. [i \in 1 .. tables |-> rev] \in Seq(Nat) /\ Len([i \in 1 .. tables |-> rev]) = tables
  OBVIOUS
<1> QED BY <1>1 DEF Notify

LEMMA BlindOK ==
  ASSUME snap \in Snap, Blind
  PROVE  /\ snap' \in Snap /\ snap'.profile = snap.profile /\ snap'.policy = snap.policy
         /\ purpose # "change" /\ pc \in {"policy", "revision"} => snap'.torn
         /\ snap.torn => snap'.torn
  BY DEF Blind, Snap

LEMMA MaxOfTwo ==
  ASSUME NEW a \in Nat, NEW b \in Nat PROVE Max({a, b}) \in Nat
<1>1. \E x \in {a, b} : \A y \in {a, b} : x >= y
  OBVIOUS
<1> QED BY <1>1 DEF Max

LEMMA NoMetaIsMeta == NoMeta \in Meta
  BY DEF NoMeta, Meta

LEMMA PersistedOK ==
  ASSUME NEW m \in Meta
  PROVE  Persisted(m) \in Meta
<1>1. CASE m.stamp = None
  BY <1>1 DEF Persisted
<1>2. CASE m.stamp # None
  <2>1. m.stamp \in Stamp
    BY <1>2 DEF Meta
  <2>2. [m.stamp EXCEPT !.fine = FALSE] \in Stamp
    BY <2>1 DEF Stamp
  <2>3. Persisted(m) = [m EXCEPT !.stamp = [m.stamp EXCEPT !.fine = FALSE]]
    BY <1>2 DEF Persisted
  <2> QED BY <2>2, <2>3 DEF Meta
<1> QED BY <1>1, <1>2

LEMMA DefaultsOK == DefaultProfile \in Profiles /\ DefaultPolicy \in Policies /\ NoSnap \in Snap
  BY DefaultsAssumption, NoMetaIsMeta DEF DefaultProfile, DefaultPolicy, Profiles, Policies, NoSnap, Snap

LEMMA ComeOK ==
  ASSUME NEW m \in Meta, Come(m), found \in Meta \cup {None}
  PROVE  /\ pc' \in {"secrets", "persist"} /\ found' \in Meta \cup {None}
         /\ pc' = "persist" => found' \in Meta
  BY DEF Come

LEMMA WithErrorOK == ASSUME NEW m \in Meta, NEW b \in BOOLEAN PROVE [m EXCEPT !.error = b] \in Meta
  BY DEF Meta

-----------------------------------------------------------------------------
LEMMA InitInv == Init => IInv
<1> SUFFICES ASSUME Init PROVE IInv
  OBVIOUS
<1>1. StoredOK
  <2>1. [at |-> 0, fine |-> FALSE] \in Stamp
    BY BoundsAssumption DEF Stamp
  <2>2. [etag |-> TRUE, stamp |-> [at |-> 0, fine |-> FALSE], error |-> FALSE] \in Meta
    BY <2>1 DEF Meta
  <2> QED BY <2>2, NoMetaIsMeta DEF Init, StoredOK
<1>2. snap \in Snap /\ engine_profile \in EngineProfile
  BY NoMetaIsMeta, DefaultsOK DEF Init, EngineProfile
<1>3. WatchOK /\ AppliedOK /\ FlagsOK
  <2>1. WatchOK
    <3>1. /\ listening = FALSE /\ notices = <<>> /\ pc = "engine" /\ purpose = "start"
          /\ change = 0 /\ last_revision = 0
      BY DEF Init
    <3>2. notices \in Seq(Nat)
      BY <3>1
    <3> QED BY <1>2, <3>1, <3>2 DEF WatchOK, Phases
  <2>2. AppliedOK
    BY <1>2, NoMetaIsMeta, DefaultsOK, BoundsAssumption DEF Init, AppliedOK
  <2>3. FlagsOK
    BY DEF Init, FlagsOK
  <2> QED BY <2>1, <2>2, <2>3
<1>4. StreamInv /\ SnapInv /\ ApplyInv /\ WaitInv /\ FailedInv
  BY DEF Init, StreamInv, SnapInv, ApplyInv, WaitInv, FailedInv, Reading
<1> QED BY <1>1, <1>3, <1>4 DEF IInv

LEMMA IInvSafe == IInv => TypeOK /\ StaleIsNoticed
<1> SUFFICES ASSUME IInv PROVE TypeOK /\ StaleIsNoticed
  OBVIOUS
<1>1. TypeOK
  BY DEF IInv, StoredOK, WatchOK, AppliedOK, FlagsOK, TypeOK, Snap, EngineProfile, Phases
<1>2. StaleIsNoticed
  BY DEF IInv, WaitInv, FailedInv, StreamInv, StaleIsNoticed, Noticed
<1> QED BY <1>1, <1>2

-----------------------------------------------------------------------------
(* The tables.  A client's change and a reset concern the watcher alike.   *)

LEMMA ChangeInv ==
  ASSUME IInv, StoredOK', NEW rev \in Nat, revision' = rev, NEW tables \in {1, 2}, Notify(rev, tables), Blind,
         UNCHANGED <<listening, pc, purpose, change, last_revision, applied, failed, fetches>>
  PROVE  IInv'
<1>1. /\ notices' \in Seq(Nat) /\ (listening => notices' # <<>>) /\ (~listening => notices' = notices)
  BY NotifyOK DEF IInv, WatchOK
<1>2. /\ snap' \in Snap /\ snap'.profile = snap.profile /\ snap'.policy = snap.policy
      /\ purpose # "change" /\ pc \in {"policy", "revision"} => snap'.torn
      /\ snap.torn => snap'.torn
  BY BlindOK DEF IInv, WatchOK
<1>3. /\ missed' \in BOOLEAN /\ (missed => missed') /\ (pc = "subscribe" => missed')
      /\ ~listening => missed' \/ last_revision < revision'
  <2>1. missed' = (missed \/ pc = "subscribe" \/ (~listening /\ revision' <= last_revision))
    BY DEF Blind
  <2>2. revision' \in Nat /\ last_revision \in Nat /\ (~(revision' <= last_revision) => last_revision < revision')
    BY DEF IInv, WatchOK
  <2> QED BY <2>1, <2>2
<1>4. UNCHANGED <<engine_profile, fs_policy, found, cache, config_degraded, sent>>
  BY DEF applied
<1>5. WatchOK' /\ AppliedOK' /\ FlagsOK'
  BY <1>1, <1>2, <1>3, <1>4 DEF IInv, WatchOK, AppliedOK, FlagsOK
<1>6. StreamInv' /\ FailedInv'
  BY <1>1, <1>4 DEF IInv, StreamInv, FailedInv, Reading
<1>7. Noticed'
  BY <1>1, <1>3 DEF Noticed, IInv, WatchOK
<1>8. SnapInv'
  BY <1>1, <1>2, <1>3, <1>7 DEF SnapInv, IInv, StreamInv, Reading
<1>9. ApplyInv' /\ WaitInv'
  BY <1>4, <1>7 DEF IInv, ApplyInv, WaitInv
<1> QED BY <1>5, <1>6, <1>8, <1>9 DEF IInv

\* A change of a policy's lists alone: nothing tells of it, and it is missed.
LEMMA UnannouncedInv ==
  ASSUME IInv, StoredOK', Unannounced, profile' = profile,
         UNCHANGED <<listening, pc, purpose, change, last_revision, applied, failed, fetches>>
  PROVE  IInv'
<1>1. /\ missed' = TRUE /\ notices' = notices /\ snap' = [snap EXCEPT !.torn = @ \/ pc = "revision"]
      /\ UNCHANGED <<engine_profile, fs_policy, found, cache, config_degraded, sent>>
  BY DEF Unannounced, applied
<1>2. /\ snap' \in Snap /\ snap'.profile = snap.profile /\ snap'.policy = snap.policy
      /\ pc = "revision" => snap'.torn
      /\ snap.torn => snap'.torn
  BY <1>1 DEF IInv, WatchOK, Snap
<1>3. missed' \in BOOLEAN
  BY <1>1, Zenon
<1>4. WatchOK' /\ AppliedOK' /\ FlagsOK'
  BY <1>1, <1>2, <1>3 DEF IInv, WatchOK, AppliedOK, FlagsOK
<1>5. StreamInv' /\ FailedInv'
  BY <1>1 DEF IInv, StreamInv, FailedInv, Reading
<1>6. SnapInv' /\ ApplyInv' /\ WaitInv'
  BY <1>1, <1>2 DEF IInv, SnapInv, ApplyInv, WaitInv, Noticed
<1> QED BY <1>4, <1>5, <1>6 DEF IInv

LEMMA TablesOK ==
  ASSUME NEW p, NEW f
  PROVE  /\ Tables(p, f) \in {0, 1, 2}
         /\ Tables(p, f) = 0 => p = profile
  BY DEF Tables

LEMMA ApplyChangesetInv == ASSUME IInv, ApplyChangeset PROVE IInv'
<1>1. PICK p \in Profiles, f \in Policies :
        /\ profile' = p /\ policy' = f
        /\ \/ /\ Tables(p, f) > 0
              /\ revision' = revision + 1 /\ Notify(revision + 1, Tables(p, f)) /\ Blind
           \/ Tables(p, f) = 0 /\ Unannounced
  BY DEF ApplyChangeset
<1>2. /\ meta' = meta
      /\ UNCHANGED <<listening, pc, purpose, change, last_revision, applied, failed, fetches>>
  BY DEF ApplyChangeset
<1>3. CASE Tables(p, f) > 0 /\ revision' = revision + 1 /\ Notify(revision + 1, Tables(p, f)) /\ Blind
  <2>1. revision + 1 \in Nat /\ StoredOK'
    BY <1>1, <1>2, <1>3 DEF IInv, StoredOK
  <2>2. PICK tables \in {1, 2} : Notify(revision + 1, tables)
    BY <1>3, TablesOK
  <2> QED BY <1>2, <1>3, <2>1, <2>2, ChangeInv
<1>4. CASE Tables(p, f) = 0 /\ Unannounced
  <2>1. StoredOK'
    BY <1>1, <1>2, <1>4 DEF IInv, StoredOK, Unannounced
  <2>2. profile' = profile
    BY <1>1, <1>4, TablesOK
  <2> QED BY <1>2, <1>4, <2>1, <2>2, UnannouncedInv
<1> QED BY <1>1, <1>3, <1>4

LEMMA FactoryResetInv == ASSUME IInv, FactoryReset PROVE IInv'
<1>1. /\ revision' = 1 /\ Notify(1, 2) /\ Blind
      /\ UNCHANGED <<listening, pc, purpose, change, last_revision, applied, failed, fetches>>
  BY DEF FactoryReset
<1>2. StoredOK'
  BY DefaultsOK, NoMetaIsMeta DEF FactoryReset, StoredOK
<1> QED BY <1>1, <1>2, ChangeInv

-----------------------------------------------------------------------------
(* The watcher.                                                            *)

LEMMA ReadEngineInv == ASSUME IInv, ReadEngine PROVE IInv'
<1>1. /\ pc = "engine" /\ pc' = "policy"
      /\ snap' = [snap EXCEPT !.profile = profile, !.meta = meta, !.torn = FALSE]
      /\ UNCHANGED <<profile, meta, policy, revision, listening, notices, purpose, change, last_revision, engine_profile,
                     fs_policy, found, cache, config_degraded, sent, missed, failed, fetches>>
  BY DEF ReadEngine, stored, applied, counters
<1>2. snap' \in Snap /\ snap'.profile = profile
  BY <1>1 DEF IInv, StoredOK, WatchOK, Snap
<1>3. StoredOK' /\ WatchOK' /\ AppliedOK' /\ FlagsOK'
  BY <1>1, <1>2 DEF IInv, StoredOK, WatchOK, AppliedOK, FlagsOK, Phases
<1>4. StreamInv' /\ FailedInv'
  BY <1>1 DEF IInv, StreamInv, FailedInv, Reading
<1>5. SnapInv' /\ ApplyInv' /\ WaitInv'
  BY <1>1, <1>2 DEF IInv, SnapInv, ApplyInv, WaitInv, Reading, Stale, Noticed
<1> QED BY <1>3, <1>4, <1>5 DEF IInv

LEMMA ReadPolicyInv == ASSUME IInv, ReadPolicy PROVE IInv'
<1>1. /\ pc = "policy" /\ pc' = "revision" /\ snap' = [snap EXCEPT !.policy = policy]
      /\ UNCHANGED <<profile, meta, policy, revision, listening, notices, purpose, change, last_revision, engine_profile,
                     fs_policy, found, cache, config_degraded, sent, missed, failed, fetches>>
  BY DEF ReadPolicy, stored, applied, counters
<1>2. snap' \in Snap /\ snap'.policy = policy /\ snap'.profile = snap.profile /\ snap'.torn = snap.torn
  BY <1>1 DEF IInv, StoredOK, WatchOK, Snap
<1>3. StoredOK' /\ WatchOK' /\ AppliedOK' /\ FlagsOK'
  BY <1>1, <1>2 DEF IInv, StoredOK, WatchOK, AppliedOK, FlagsOK, Phases
<1>4. StreamInv' /\ FailedInv'
  BY <1>1 DEF IInv, StreamInv, FailedInv, Reading
<1>5. SnapInv' /\ ApplyInv' /\ WaitInv'
  BY <1>1, <1>2 DEF IInv, SnapInv, ApplyInv, WaitInv, Reading, Stale, Noticed
<1> QED BY <1>3, <1>4, <1>5 DEF IInv

\* The snapshot is complete.  What it may lack is known: from torn if it came
\* from a notification or a poll, and from the notifications still to come.
LEMMA ReadRevisionInv == ASSUME IInv, ReadRevision PROVE IInv'
<1>1. /\ pc = "revision"
      /\ change' = 0
      /\ UNCHANGED <<profile, meta, policy, revision, listening, notices, purpose, engine_profile,
                     fs_policy, found, cache, config_degraded, sent, failed, fetches>>
  BY DEF ReadRevision, stored, applied, counters
<1>2. /\ snap.profile # profile \/ snap.policy # policy => snap.torn \/ notices # <<>>
      /\ snap.torn \in BOOLEAN
  BY <1>1 DEF IInv, SnapInv, WatchOK, Snap
<1>3. CASE /\ purpose # "change" /\ last_revision' = revision /\ pc' = "subscribe" /\ missed' = snap.torn /\ snap' = snap
  <2>1. ~listening /\ notices = <<>>
    BY <1>1, <1>3 DEF IInv, StreamInv, Reading
  <2>2. StoredOK' /\ WatchOK' /\ AppliedOK' /\ FlagsOK'
    BY <1>1, <1>2, <1>3 DEF IInv, StoredOK, WatchOK, AppliedOK, FlagsOK, Phases
  <2>3. StreamInv' /\ FailedInv'
    BY <1>1, <1>3, <2>1 DEF IInv, StreamInv, FailedInv, Reading
  <2>4. SnapInv' /\ ApplyInv' /\ WaitInv'
    BY <1>1, <1>2, <1>3, <2>1 DEF SnapInv, ApplyInv, WaitInv, Reading
  <2> QED BY <2>2, <2>3, <2>4 DEF IInv
<1>4. CASE /\ purpose = "change" /\ last_revision' = Max({change, revision}) /\ pc' = "apply" /\ missed' = snap.torn
           /\ snap' = snap
  <2>1. listening
    BY <1>1, <1>4 DEF IInv, StreamInv, Reading
  <2>2. last_revision' \in Nat
    BY <1>4, MaxOfTwo DEF IInv, StoredOK, WatchOK
  <2>3. StoredOK' /\ WatchOK' /\ AppliedOK' /\ FlagsOK'
    BY <1>1, <1>2, <1>4, <2>2 DEF IInv, StoredOK, WatchOK, AppliedOK, FlagsOK, Phases
  <2>4. StreamInv' /\ FailedInv'
    BY <1>1, <1>4, <2>1 DEF IInv, StreamInv, FailedInv, Reading
  <2>5. SnapInv' /\ ApplyInv' /\ WaitInv'
    BY <1>1, <1>2, <1>4, <2>1 DEF SnapInv, ApplyInv, WaitInv, Reading, Noticed
  <2> QED BY <2>3, <2>4, <2>5 DEF IInv
<1>5. CASE /\ purpose = "poll" /\ revision <= last_revision /\ pc' = "sleep"
           /\ last_revision' = last_revision /\ missed' = missed /\ snap' = NoSnap
  <2>1. ~listening /\ notices = <<>>
    BY <1>1, <1>5 DEF IInv, StreamInv, Reading
  <2>2. StoredOK' /\ WatchOK' /\ AppliedOK' /\ FlagsOK'
    BY <1>1, <1>5, DefaultsOK DEF IInv, StoredOK, WatchOK, AppliedOK, FlagsOK, Phases
  <2>3. StreamInv' /\ FailedInv'
    BY <1>1, <1>5, <2>1 DEF IInv, StreamInv, FailedInv, Reading
  <2>4. SnapInv' /\ ApplyInv' /\ WaitInv'
    BY <1>1, <1>5, <2>1 DEF IInv, SnapInv, ApplyInv, WaitInv, Reading, Stale, Noticed
  <2> QED BY <2>2, <2>3, <2>4 DEF IInv
<1> QED BY <1>3, <1>4, <1>5 DEF ReadRevision

LEMMA SnapshotFailsInv == ASSUME IInv, SnapshotFails PROVE IInv'
<1>1. /\ Reading /\ pc' = "ended" /\ config_degraded' = TRUE /\ failed' = TRUE
      /\ UNCHANGED <<profile, meta, policy, revision, listening, notices, purpose, change, snap, last_revision,
                     engine_profile, fs_policy, found, cache, sent, missed, fetches>>
  BY DEF SnapshotFails, Reading, stored, reader
<1>2. StoredOK' /\ WatchOK' /\ AppliedOK' /\ FlagsOK'
  BY <1>1 DEF IInv, StoredOK, WatchOK, AppliedOK, FlagsOK, Phases
<1>3. StreamInv' /\ FailedInv' /\ SnapInv' /\ ApplyInv' /\ WaitInv'
  BY <1>1 DEF IInv, StreamInv, FailedInv, SnapInv, ApplyInv, WaitInv, Reading
<1> QED BY <1>2, <1>3 DEF IInv

LEMMA SubscribeInv == ASSUME IInv, Subscribe PROVE IInv'
<1>1. /\ pc = "subscribe" /\ listening' \in BOOLEAN /\ notices' = <<>> /\ pc' = "apply"
      /\ UNCHANGED <<profile, meta, policy, revision, purpose, change, snap, last_revision, engine_profile,
                     fs_policy, found, cache, config_degraded, sent, missed, failed, fetches>>
  BY DEF Subscribe, stored, reader, applied
<1>2. StoredOK' /\ WatchOK' /\ AppliedOK' /\ FlagsOK'
  BY <1>1 DEF IInv, StoredOK, WatchOK, AppliedOK, FlagsOK, Phases
<1>3. StreamInv' /\ FailedInv' /\ SnapInv' /\ ApplyInv' /\ WaitInv'
  BY <1>1 DEF IInv, StreamInv, FailedInv, SnapInv, ApplyInv, WaitInv, Reading, Noticed
<1> QED BY <1>2, <1>3 DEF IInv

\* Giving up the stream: what was announced is seen by the poll, or missed.
LEMMA GiveUpInv ==
  ASSUME IInv, pc = "listen", listening' = FALSE, notices' = <<>>, pc' = "sleep", missed' = (missed \/ Unpolled),
         UNCHANGED <<profile, meta, policy, revision, purpose, change, snap, last_revision, engine_profile,
                     fs_policy, found, cache, config_degraded, sent, failed, fetches>>
  PROVE  IInv'
<1>1. listening
  BY DEF IInv, StreamInv
<1>2. Unpolled <=> notices # <<>> /\ ~(last_revision < revision)
  BY DEF Unpolled, IInv, StoredOK, WatchOK
<1>3. StoredOK' /\ WatchOK' /\ AppliedOK' /\ FlagsOK'
  <2>1. missed' \in BOOLEAN
    BY <1>2
  <2>2. listening' \in BOOLEAN /\ notices' \in Seq(Nat)
    <3>1. listening' \in BOOLEAN
      BY Zenon
    <3>2. <<>> \in Seq(Nat)
      BY SMT
    <3> QED BY <3>1, <3>2
  <2>3. WatchOK'
    BY <2>2 DEF IInv, WatchOK, Phases
  <2> QED BY <2>1, <2>3 DEF IInv, StoredOK, AppliedOK, FlagsOK
<1>4. StreamInv' /\ FailedInv' /\ SnapInv' /\ ApplyInv'
  BY DEF IInv, StreamInv, FailedInv, SnapInv, ApplyInv, Reading
<1>5. WaitInv'
  BY <1>1, <1>2 DEF IInv, WaitInv, Reading, Stale, Noticed
<1> QED BY <1>3, <1>4, <1>5 DEF IInv

LEMMA HandleNotificationInv == ASSUME IInv, HandleNotification PROVE IInv'
<1>1. PICK ok \in BOOLEAN :
        /\ listening' = ok
        /\ notices' = IF ok THEN Tail(notices) ELSE <<>>
        /\ change' = IF ok THEN Head(notices) ELSE change
        /\ purpose' = IF ok THEN "change" ELSE purpose
        /\ pc' = IF ok THEN "engine" ELSE "sleep"
        /\ missed' = (missed \/ (~ok /\ Unpolled))
  BY DEF HandleNotification
<1>2. /\ pc = "listen" /\ notices # <<>>
      /\ UNCHANGED <<profile, meta, policy, revision, snap, last_revision, engine_profile,
                     fs_policy, found, cache, config_degraded, sent, failed, fetches>>
  BY DEF HandleNotification, stored, applied
<1>3. CASE ~ok
  <2>1. /\ listening' = FALSE /\ notices' = <<>> /\ pc' = "sleep" /\ missed' = (missed \/ Unpolled)
        /\ purpose' = purpose /\ change' = change
    BY <1>1, <1>3
  <2> QED BY <1>2, <2>1, GiveUpInv
<1>4. CASE ok
  <2>1. Tail(notices) \in Seq(Nat) /\ Head(notices) \in Nat
    BY <1>2 DEF IInv, WatchOK
  <2>2. /\ listening' = TRUE /\ notices' = Tail(notices) /\ change' = Head(notices)
        /\ purpose' = "change" /\ pc' = "engine" /\ missed' = (missed \/ FALSE)
    BY <1>1, <1>4
  <2>3. missed' = missed
    BY <2>2 DEF IInv, FlagsOK
  <2>4. StoredOK' /\ WatchOK' /\ AppliedOK' /\ FlagsOK'
    BY <1>2, <2>1, <2>2, <2>3 DEF IInv, StoredOK, WatchOK, AppliedOK, FlagsOK, Phases
  <2>5. StreamInv' /\ FailedInv' /\ SnapInv' /\ ApplyInv' /\ WaitInv'
    BY <1>2, <2>2 DEF IInv, StreamInv, FailedInv, SnapInv, ApplyInv, WaitInv, Reading
  <2> QED BY <2>4, <2>5 DEF IInv
<1> QED BY <1>3, <1>4

LEMMA ListenFailsInv == ASSUME IInv, ListenFails PROVE IInv'
  BY GiveUpInv DEF ListenFails, stored, reader, applied

\* A connection that is lost and opened again costs the notifications.
LEMMA ReconnectsInv == ASSUME IInv, Reconnects PROVE IInv'
<1>1. /\ listening /\ pc # "subscribe" /\ notices' = <<>> /\ missed' = (missed \/ notices # <<>>)
      /\ snap' = [snap EXCEPT !.torn = @ \/ (notices # <<>> /\ pc \in {"policy", "revision"})]
      /\ UNCHANGED <<profile, meta, policy, revision, listening, pc, purpose, change, last_revision, engine_profile,
                     fs_policy, found, cache, config_degraded, sent, failed, fetches>>
  BY DEF Reconnects, stored, applied
<1>2. /\ snap' \in Snap /\ snap'.profile = snap.profile /\ snap'.policy = snap.policy
      /\ notices # <<>> /\ pc \in {"policy", "revision"} => snap'.torn
      /\ snap.torn => snap'.torn
  BY <1>1 DEF IInv, WatchOK, Snap
<1>3. missed' \in BOOLEAN /\ (missed => missed') /\ (notices # <<>> => missed')
  BY <1>1
<1>4. StoredOK' /\ WatchOK' /\ AppliedOK' /\ FlagsOK'
  BY <1>1, <1>2, <1>3 DEF IInv, StoredOK, WatchOK, AppliedOK, FlagsOK
<1>5. StreamInv' /\ FailedInv'
  BY <1>1 DEF IInv, StreamInv, FailedInv, Reading
<1>6. Noticed => Noticed'
  BY <1>1, <1>3 DEF Noticed
<1>7. SnapInv'
  BY <1>1, <1>2, <1>6 DEF IInv, SnapInv
<1>8. ApplyInv' /\ WaitInv'
  BY <1>1, <1>6 DEF IInv, ApplyInv, WaitInv, Reading, Stale
<1> QED BY <1>4, <1>5, <1>7, <1>8 DEF IInv

LEMMA PollInv == ASSUME IInv, Poll PROVE IInv'
<1>1. /\ pc = "sleep" /\ pc' = "engine" /\ purpose' = "poll"
      /\ UNCHANGED <<profile, meta, policy, revision, listening, notices, change, snap, last_revision, engine_profile,
                     fs_policy, found, cache, config_degraded, sent, missed, failed, fetches>>
  BY DEF Poll, stored, reader, applied, counters
<1>2. StoredOK' /\ WatchOK' /\ AppliedOK' /\ FlagsOK'
  BY <1>1 DEF IInv, StoredOK, WatchOK, AppliedOK, FlagsOK, Phases
<1>3. StreamInv' /\ FailedInv' /\ SnapInv' /\ ApplyInv' /\ WaitInv'
  BY <1>1 DEF IInv, StreamInv, FailedInv, SnapInv, ApplyInv, WaitInv, Reading, Stale, Noticed
<1> QED BY <1>2, <1>3 DEF IInv

-----------------------------------------------------------------------------
(* Applying a snapshot.                                                    *)

LEMMA ApplySnapshotInv == ASSUME IInv, ApplySnapshot PROVE IInv'
<1>1. /\ pc = "apply" /\ pc' = "refresh" /\ fs_policy' = snap.policy
      /\ engine_profile' = [profile |-> snap.profile, meta |-> snap.meta]
      /\ snap' = NoSnap
      /\ UNCHANGED <<profile, meta, policy, revision, listening, notices, purpose, change, last_revision,
                     found, cache, config_degraded, sent, missed, failed, fetches>>
  BY DEF ApplySnapshot, stored, reader, counters
<1>2. engine_profile' \in EngineProfile /\ engine_profile'.profile = snap.profile /\ fs_policy' \in Policies
  BY <1>1 DEF IInv, WatchOK, Snap, EngineProfile
<1>3. StoredOK' /\ WatchOK' /\ AppliedOK' /\ FlagsOK'
  BY <1>1, <1>2, DefaultsOK DEF IInv, StoredOK, WatchOK, AppliedOK, FlagsOK, Phases
<1>4. StreamInv' /\ FailedInv' /\ SnapInv' /\ WaitInv'
  BY <1>1 DEF IInv, StreamInv, FailedInv, SnapInv, WaitInv, Reading
<1>5. ApplyInv'
  BY <1>1, <1>2 DEF IInv, SnapInv, ApplyInv, Noticed
<1> QED BY <1>3, <1>4, <1>5 DEF IInv

\* What a refresh comes to concerns neither the profile nor the watcher.
LEMMA RefreshInv ==
  ASSUME IInv, pc \in {"refresh", "fetch"}, pc' \in {"fetch", "secrets", "persist"},
         found' \in Meta \cup {None}, pc' = "persist" => found' \in Meta, cache' \in Cached \cup {None},
         pc' = "fetch" => engine_profile.profile.url # None, fetches' \in 0 .. MaxFetches,
         UNCHANGED <<profile, meta, policy, revision, listening, notices, purpose, change, snap, last_revision,
                     engine_profile, fs_policy, config_degraded, sent, missed, failed>>
  PROVE  IInv'
<1>1. StoredOK' /\ WatchOK' /\ AppliedOK' /\ FlagsOK'
  BY DEF IInv, StoredOK, WatchOK, AppliedOK, FlagsOK, Phases
<1>2. StreamInv' /\ FailedInv' /\ SnapInv' /\ WaitInv'
  BY DEF IInv, StreamInv, FailedInv, SnapInv, WaitInv, Reading
<1>3. ApplyInv'
  BY DEF IInv, ApplyInv, Noticed
<1> QED BY <1>1, <1>2, <1>3 DEF IInv

LEMMA RefreshIpFilterInv == ASSUME IInv, RefreshIpFilter PROVE IInv'
<1> DEFINE url == engine_profile.profile.url
           kept == IF cache # None /\ cache.url = url THEN cache ELSE None
<1>1. /\ pc = "refresh"
      /\ UNCHANGED <<profile, meta, policy, revision, listening, notices, purpose, change, snap, last_revision,
                     engine_profile, fs_policy, config_degraded, sent, missed, failed, fetches>>
  BY DEF RefreshIpFilter, stored, reader, counters
<1>2. /\ cache' = kept
      /\ \/ url = None /\ Come([engine_profile.meta EXCEPT !.error = FALSE])
         \/ url # None /\ kept # None /\ Come([kept.meta EXCEPT !.error = FALSE])
         \/ url # None /\ pc' = "fetch" /\ UNCHANGED found
  BY DEF RefreshIpFilter
<1>3. /\ engine_profile.meta \in Meta /\ found \in Meta \cup {None} /\ fetches \in 0 .. MaxFetches
      /\ kept \in Cached \cup {None} /\ (kept # None => kept.meta \in Meta)
  BY DEF IInv, AppliedOK, EngineProfile, Cached
<1> HIDE DEF kept, url
<1>4. ASSUME NEW m \in Meta, Come([m EXCEPT !.error = FALSE]) PROVE IInv'
  <2>1. [m EXCEPT !.error = FALSE] \in Meta
    BY WithErrorOK
  <2>2. /\ pc' \in {"secrets", "persist"} /\ found' \in Meta \cup {None}
        /\ pc' = "persist" => found' \in Meta
    BY <1>3, <1>4, <2>1, ComeOK
  <2> QED BY <1>1, <1>2, <1>3, <2>2, RefreshInv
<1>5. CASE url # None /\ pc' = "fetch" /\ UNCHANGED found
  BY <1>1, <1>2, <1>3, <1>5, RefreshInv DEF url
<1> QED BY <1>2, <1>3, <1>4, <1>5

LEMMA LoadBlocklistInv == ASSUME IInv, LoadBlocklist PROVE IInv'
<1> DEFINE previous == engine_profile.meta
           now(fine) == [at |-> fetches + 1, fine |-> fine]
<1>1. /\ pc = "fetch"
      /\ UNCHANGED <<profile, meta, policy, revision, listening, notices, purpose, change, snap, last_revision,
                     engine_profile, fs_policy, config_degraded, sent, missed, failed>>
  BY DEF LoadBlocklist, stored, reader
<1>2. /\ previous \in Meta /\ previous.etag \in BOOLEAN /\ found \in Meta \cup {None}
      /\ fetches \in 0 .. MaxFetches /\ cache \in Cached \cup {None}
      /\ engine_profile.profile.url \in Urls
      /\ cache # None => cache.meta.etag \in BOOLEAN
  BY <1>1 DEF IInv, AppliedOK, ApplyInv, EngineProfile, Profiles, Cached, Meta
<1>3. ASSUME fetches < MaxFetches, NEW etag \in BOOLEAN, NEW fine \in BOOLEAN
      PROVE  [etag |-> etag, stamp |-> now(fine), error |-> FALSE] \in Meta
  <2>1. now(fine) \in Stamp
    BY <1>2, <1>3, BoundsAssumption DEF Stamp
  <2> HIDE DEF now
  <2> QED BY <2>1 DEF Meta
<1>4. fetches < MaxFetches => fetches + 1 \in 0 .. MaxFetches
  BY <1>2, BoundsAssumption
<1>5. ASSUME NEW m \in Meta, Come(m), cache' \in Cached \cup {None}, fetches' \in 0 .. MaxFetches PROVE IInv'
  BY <1>1, <1>2, <1>5, ComeOK, RefreshInv
<1>6. CASE /\ fetches < MaxFetches /\ fetches' = fetches + 1
           /\ \E etag, fine \in BOOLEAN :
                LET m == [etag |-> etag \/ previous.etag, stamp |-> now(fine), error |-> FALSE]
                IN Come(m) /\ cache' = [url |-> engine_profile.profile.url, meta |-> m]
  <2>1. PICK etag \in BOOLEAN, fine \in BOOLEAN :
                LET m == [etag |-> etag \/ previous.etag, stamp |-> now(fine), error |-> FALSE]
                IN Come(m) /\ cache' = [url |-> engine_profile.profile.url, meta |-> m]
    BY <1>6
  <2> DEFINE m == [etag |-> etag \/ previous.etag, stamp |-> now(fine), error |-> FALSE]
  <2>2. (etag \/ previous.etag) \in BOOLEAN
    OBVIOUS
  <2>3. m \in Meta
    BY <1>3, <1>6, <2>2
  <2>4. Come(m) /\ cache' = [url |-> engine_profile.profile.url, meta |-> m]
    BY <2>1
  <2> HIDE DEF m
  <2>5. cache' \in Cached
    BY <1>2, <2>3, <2>4 DEF Cached
  <2> QED BY <1>4, <1>5, <1>6, <2>3, <2>4, <2>5
<1>7. CASE /\ fetches < MaxFetches /\ fetches' = fetches + 1 /\ cache # None
           /\ \E fine \in BOOLEAN :
                LET m == [etag |-> cache.meta.etag, stamp |-> now(fine), error |-> FALSE]
                IN Come(m) /\ cache' = [cache EXCEPT !.meta = m]
  <2>1. PICK fine \in BOOLEAN :
                LET m == [etag |-> cache.meta.etag, stamp |-> now(fine), error |-> FALSE]
                IN Come(m) /\ cache' = [cache EXCEPT !.meta = m]
    BY <1>7
  <2> DEFINE m == [etag |-> cache.meta.etag, stamp |-> now(fine), error |-> FALSE]
  <2>2. m \in Meta
    BY <1>2, <1>3, <1>7
  <2>3. Come(m) /\ cache' = [cache EXCEPT !.meta = m]
    BY <2>1
  <2> HIDE DEF m
  <2>4. cache' \in Cached
    BY <1>2, <1>7, <2>2, <2>3 DEF Cached
  <2> QED BY <1>4, <1>5, <1>7, <2>2, <2>3, <2>4
<1>8. CASE Come([previous EXCEPT !.error = TRUE]) /\ UNCHANGED <<cache, fetches>>
  BY <1>2, <1>5, <1>8, WithErrorOK
<1> QED BY <1>6, <1>7, <1>8 DEF LoadBlocklist

\* The metadata is written together with the profile being applied, so what is
\* stored cannot come to differ from it by this.
LEMMA PersistMetadataInv == ASSUME IInv, PersistMetadata PROVE IInv'
<1>1. /\ pc = "persist" /\ pc' = "secrets" /\ found' = None
      /\ UNCHANGED <<policy, listening, purpose, change, snap, last_revision, engine_profile,
                     fs_policy, cache, config_degraded, sent, missed, failed, fetches>>
  BY DEF PersistMetadata, stored, reader, applied
<1>2. \/ /\ profile' = engine_profile.profile /\ meta' = Persisted(found)
         /\ revision' = revision + 1 /\ Notify(revision + 1, 1)
      \/ UNCHANGED <<profile, meta, revision, notices>>
  BY DEF PersistMetadata, stored
<1>3. StoredOK'
  BY <1>1, <1>2, PersistedOK DEF IInv, StoredOK, AppliedOK, ApplyInv, EngineProfile
<1>4. notices' \in Seq(Nat) /\ (notices # <<>> /\ listening => notices' # <<>>) /\ (~listening => notices' = notices)
  <2>1. revision + 1 \in Nat /\ listening \in BOOLEAN /\ notices \in Seq(Nat)
    BY DEF IInv, StoredOK, WatchOK
  <2> QED BY <1>2, <2>1, NotifyOK
<1>5. WatchOK' /\ AppliedOK' /\ FlagsOK'
  BY <1>1, <1>4 DEF IInv, WatchOK, AppliedOK, FlagsOK, Phases
<1>6. StreamInv' /\ FailedInv' /\ SnapInv' /\ WaitInv'
  BY <1>1, <1>4 DEF IInv, StreamInv, FailedInv, SnapInv, WaitInv, Reading
<1>7. Noticed => Noticed'
  BY <1>1, <1>2, <1>4 DEF Noticed, IInv, StoredOK, WatchOK
<1>8. ApplyInv'
  BY <1>1, <1>2, <1>7 DEF IInv, ApplyInv
<1> QED BY <1>3, <1>5, <1>6, <1>8 DEF IInv

LEMMA ResolveFailsInv == ASSUME IInv, ResolveFails PROVE IInv'
<1>1. /\ pc = "secrets" /\ pc' = (IF listening THEN "listen" ELSE "sleep")
      /\ config_degraded' = TRUE /\ failed' = TRUE
      /\ UNCHANGED <<profile, meta, policy, revision, listening, notices, purpose, change, snap, last_revision,
                     engine_profile, fs_policy, found, cache, sent, missed, fetches>>
  BY DEF ResolveFails, stored, reader
<1>2. StoredOK' /\ WatchOK' /\ AppliedOK' /\ FlagsOK'
  BY <1>1 DEF IInv, StoredOK, WatchOK, AppliedOK, FlagsOK, Phases
<1>3. StreamInv' /\ FailedInv' /\ SnapInv' /\ ApplyInv' /\ WaitInv'
  BY <1>1 DEF IInv, WatchOK, StreamInv, FailedInv, SnapInv, ApplyInv, WaitInv, Reading
<1> QED BY <1>2, <1>3 DEF IInv

LEMMA SendPlanInv == ASSUME IInv, SendPlan PROVE IInv'
<1>1. /\ pc = "secrets" /\ pc' = (IF listening THEN "listen" ELSE "sleep")
      /\ sent' = engine_profile.profile /\ config_degraded' \in BOOLEAN /\ failed' = FALSE
      /\ UNCHANGED <<profile, meta, policy, revision, listening, notices, purpose, change, snap, last_revision,
                     engine_profile, fs_policy, found, cache, missed, fetches>>
  BY DEF SendPlan, stored, reader, counters
<1>2. sent' \in Profiles
  BY <1>1 DEF IInv, AppliedOK, EngineProfile
<1>3. StoredOK' /\ WatchOK' /\ AppliedOK' /\ FlagsOK'
  BY <1>1, <1>2 DEF IInv, StoredOK, WatchOK, AppliedOK, FlagsOK, Phases
<1>4. StreamInv' /\ FailedInv' /\ SnapInv' /\ ApplyInv'
  BY <1>1 DEF IInv, WatchOK, StreamInv, FailedInv, SnapInv, ApplyInv, Reading
<1>5. WaitInv'
  BY <1>1 DEF IInv, WatchOK, ApplyInv, WaitInv, Reading, Stale, Noticed
<1> QED BY <1>3, <1>4, <1>5 DEF IInv

-----------------------------------------------------------------------------
LEMMA StepInv == IInv /\ [Next]_vars => IInv'
<1> SUFFICES ASSUME IInv, [Next]_vars PROVE IInv'
  OBVIOUS
<1>1. CASE UNCHANGED vars
  <2>1. UNCHANGED <<profile, meta, policy, revision, listening, notices, pc, purpose, change, snap, last_revision,
                    engine_profile, fs_policy, found, cache, config_degraded, sent, missed, failed, fetches>>
    BY <1>1 DEF vars, stored, watcher, applied, counters
  <2>2. StoredOK' /\ WatchOK' /\ AppliedOK' /\ FlagsOK'
    BY <2>1 DEF IInv, StoredOK, WatchOK, AppliedOK, FlagsOK
  <2>3. StreamInv' /\ FailedInv' /\ SnapInv' /\ ApplyInv' /\ WaitInv'
    BY <2>1 DEF IInv, StreamInv, FailedInv, SnapInv, ApplyInv, WaitInv, Reading, Stale, Noticed
  <2> QED BY <2>2, <2>3 DEF IInv
<1>2. CASE ApplyChangeset \/ FactoryReset
  BY <1>2, ApplyChangesetInv, FactoryResetInv
<1>3. CASE Snapshot \/ SnapshotFails \/ Subscribe
  BY <1>3, ReadEngineInv, ReadPolicyInv, ReadRevisionInv, SnapshotFailsInv, SubscribeInv DEF Snapshot
<1>4. CASE HandleNotification \/ ListenFails \/ Reconnects \/ Poll
  BY <1>4, HandleNotificationInv, ListenFailsInv, ReconnectsInv, PollInv
<1>5. CASE Apply \/ LoadBlocklist \/ ResolveFails
  BY <1>5, ApplySnapshotInv, LoadBlocklistInv, RefreshIpFilterInv, PersistMetadataInv, SendPlanInv, ResolveFailsInv DEF Apply
<1> QED BY <1>1, <1>2, <1>3, <1>4, <1>5 DEF Next

LEMMA Invariance == Spec => []IInv
  BY InitInv, StepInv, PTL DEF Spec

\* Every variable keeps its type.
THEOREM TypeCorrect == Spec => []TypeOK
  BY Invariance, IInvSafe, PTL

\* A watcher that waits while the engine runs on other settings than the stored
\* ones will be woken, unless the change could not be learnt of or the snapshot
\* not be applied, and then health is degraded (watch_settings, listen_once,
\* poll_once, apply_config_snapshot).
THEOREM StaleSettingsAreNoticed == Spec => []StaleIsNoticed
  BY Invariance, IInvSafe, PTL
=============================================================================
