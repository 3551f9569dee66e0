---------------------------- MODULE WorkerProofs ----------------------------
(* Proofs about Worker, for every set of torrents, settings and requests and *)
(* any number of commands, errors and crashes: the session does what the    *)
(* worker has stored, a removed torrent leaves nothing, a satisfied cleanup *)
(* goal is acted upon, and the worker implements TorrentSettings.           *)
EXTENDS Worker, TLAPS

\* Between two flushes none of a flush is left over.
QuietBetweenFlushes == pc # "events" => todo = {} /\ actions = {}

\* A process that is down has no session.
DownIsEmpty == pc = "down" => \A t \in Torrents : session[t] = None

\* What the invariants say of one torrent.  To be inductive they need two
\* facts more: the last step wrote no file of a torrent that is gone, so that
\* a crash tears none; and what the worker believes to be on disk is there.
Agree(s, m, default, other) ==
    /\ s.sequential = IF default THEN SequentialDefault ELSE m.sequential
    /\ s.rate = m.rate /\ (other \/ s.options = m.options)
    /\ s.selection \in {Default, m.selection}

Follows(t) ==
    /\ cache[t] # None /\ Agree(session[t], cache[t], t \in defaulted, t \in switched)
    /\ (goals[t] # None) <=> (cache[t].cleanup # {})

Nothing(t) ==
    /\ session[t] = None /\ cache[t] = None /\ goals[t] = None
    /\ payloads[t] = "none" /\ metaFile[t] = None /\ resumeFile[t] = "none"
    /\ <<"meta", t>> \notin written /\ <<"resume", t>> \notin written

TorrentInv(t) ==
    /\ session[t] # None /\ t \notin halfAdded => Follows(t)
    /\ t \in gone => Nothing(t)
    /\ goals[t] # None /\ goals[t].satisfied => t \in actions \cup dropped
    /\ t \notin unsaved => metaFile[t] = cache[t]

IInv ==
    /\ TypeOK /\ QuietBetweenFlushes /\ DownIsEmpty
    /\ \A t \in Torrents : TorrentInv(t)

-----------------------------------------------------------------------------
(* The operators.                                                          *)

LEMMA DefaultIsMetadata == DefaultMetadata \in Metadata
  BY DefaultAssumption DEF DefaultMetadata, Metadata

LEMMA StoredIsMetadata ==
  ASSUME NEW t \in Torrents, cache \in [Torrents -> Metadata \cup {None}]
  PROVE  Stored(t) \in Metadata /\ (cache[t] # None => Stored(t) = cache[t])
  BY DefaultIsMetadata DEF Stored

\* Storing one setting.
LEMMA SetField ==
  ASSUME NEW m \in Metadata
  PROVE  /\ \A b \in BOOLEAN : [m EXCEPT !["sequential"] = b] \in Metadata
         /\ \A r \in Rates \cup {None} : [m EXCEPT !["rate"] = r] \in Metadata
         /\ \A s \in Selections : [m EXCEPT !["selection"] = s] \in Metadata
         /\ \A o \in Options \cup {None} : [m EXCEPT !["options"] = o] \in Metadata
         /\ \A x \in SUBSET Trackers : [m EXCEPT !["trackers"] = x] \in Metadata
  BY DEF Metadata

LEMMA SetSessionField ==
  ASSUME NEW s \in SessionTorrent
  PROVE  /\ \A b \in BOOLEAN : [s EXCEPT !["sequential"] = b] \in SessionTorrent
         /\ \A r \in Rates \cup {None} : [s EXCEPT !["rate"] = r] \in SessionTorrent
         /\ \A x \in Selections : [s EXCEPT !["selection"] = x] \in SessionTorrent
         /\ \A o \in Options \cup {None} : [s EXCEPT !["options"] = o] \in SessionTorrent
  BY DEF SessionTorrent

LEMMA BackfillIsMetadata ==
  ASSUME NEW q \in Request, NEW stored \in Metadata \cup {None}
  PROVE  Backfill(q, stored) \in Metadata
<1>1. CASE stored = None
  BY <1>1 DEF Backfill, Wanted, Metadata, Request
<1>2. CASE stored # None
  BY <1>2 DEF Backfill, Metadata, Request
<1> QED BY <1>1, <1>2

\* What the session has after an add.
LEMMA SessionAddOK ==
  ASSUME NEW t \in Torrents, NEW q \in Request, NEW taken \in BOOLEAN, TypeOK
  PROVE  /\ SessionAdd(t, q, taken) \in SessionTorrent
         /\ SessionAdd(t, q, taken).sequential = AddedMode(q)
         /\ t \in Held => /\ SessionAdd(t, q, taken).rate = session[t].rate
                          /\ SessionAdd(t, q, taken).selection = session[t].selection
                          /\ SessionAdd(t, q, taken).options =
                                IF q.options = None \/ ~taken THEN session[t].options ELSE q.options
         /\ t \notin Held => /\ SessionAdd(t, q, taken).rate = None
                             /\ SessionAdd(t, q, taken).selection = Default
                             /\ SessionAdd(t, q, taken).options = q.options
<1>1. session[t] \in SessionTorrent \cup {None}
  BY DEF TypeOK
<1>2. AddedMode(q) \in BOOLEAN /\ q.options \in Options \cup {None}
  BY SequentialDefaultAssumption DEF AddedMode, Request
<1>3. CASE t \in Held
  <2>1. session[t] \in SessionTorrent
    BY <1>1, <1>3 DEF Held
  <2> QED BY <1>2, <1>3, <2>1 DEF SessionAdd, SessionTorrent, States
<1>4. CASE t \notin Held
  BY <1>2, <1>4, DefaultAssumption DEF SessionAdd, SessionTorrent, States
<1> QED BY <1>3, <1>4

\* update_cleanup_state and evaluate_cleanup_goal neither make nor drop a goal.
LEMMA ClockOK ==
  ASSUME NEW goal \in CleanupGoal \cup {None}, NEW state \in States
  PROVE  /\ Clock(goal, state) \in CleanupGoal \cup {None}
         /\ Clock(goal, state) = None <=> goal = None
         /\ goal # None => Clock(goal, state).satisfied = goal.satisfied
<1>1. CASE goal = None
  BY <1>1 DEF Clock
<1>2. CASE goal # None
  <2>1. goal \in CleanupGoal
    BY <1>2
  <2>2. Clock(goal, state) \in CleanupGoal /\ Clock(goal, state).satisfied = goal.satisfied
    BY <1>2, <2>1 DEF Clock, CleanupGoal
  <2> QED BY <1>2, <2>2, AbsentAssumption
<1> QED BY <1>1, <1>2

LEMMA EvaluateOK ==
  ASSUME NEW goal \in CleanupGoal \cup {None}, NEW ratio \in BOOLEAN
  PROVE  /\ Evaluate(goal, ratio) \in CleanupGoal \cup {None}
         /\ Evaluate(goal, ratio) = None <=> goal = None
<1>1. CASE goal = None
  BY <1>1 DEF Evaluate
<1>2. CASE goal # None
  <2>1. goal \in CleanupGoal
    BY <1>2
  <2>2. Evaluate(goal, ratio) \in CleanupGoal
    BY <1>2, <2>1 DEF Evaluate, CleanupGoal
  <2> QED BY <1>2, <2>2, AbsentAssumption
<1> QED BY <1>1, <1>2

LEMMA MarkOK ==
  ASSUME NEW h \in SUBSET {"session", "resume_store"}, NEW c \in {"session", "resume_store"}, NEW ok
  PROVE  Mark(h, c, ok) \in SUBSET {"session", "resume_store"}
  BY DEF Mark

LEMMA InitInv == Init => IInv
<1> SUFFICES ASSUME Init PROVE IInv
  OBVIOUS
<1>1. TypeOK
  BY DEF Init, TypeOK, Held, Payload
<1>2. QuietBetweenFlushes /\ DownIsEmpty
  BY DEF Init, QuietBetweenFlushes, DownIsEmpty
<1>3. \A t \in Torrents : TorrentInv(t)
  BY DEF Init, TorrentInv
<1> QED BY <1>1, <1>2, <1>3 DEF IInv

LEMMA IInvSafe ==
  IInv => TypeOK /\ EngineFollows /\ RemovedLeavesNothing /\ SatisfiedIsRemoved
<1> SUFFICES ASSUME IInv PROVE EngineFollows /\ RemovedLeavesNothing /\ SatisfiedIsRemoved
  BY DEF IInv
<1>1. EngineFollows
  BY DEF IInv, EngineFollows, TorrentInv, Follows, Agree, Held
<1>2. RemovedLeavesNothing
  BY DEF IInv, TypeOK, RemovedLeavesNothing, TorrentInv, Nothing
<1>3. SatisfiedIsRemoved
  BY DEF IInv, SatisfiedIsRemoved, TorrentInv
<1> QED BY <1>1, <1>2, <1>3

\* A step that concerns torrent t leaves the others alone ...
OthersKept(t) ==
    \A u \in Torrents \ {t} :
        /\ session'[u] = session[u] /\ cache'[u] = cache[u] /\ goals'[u] = goals[u]
        /\ payloads'[u] = payloads[u] /\ metaFile'[u] = metaFile[u] /\ resumeFile'[u] = resumeFile[u]
        /\ u \in halfAdded' <=> u \in halfAdded
        /\ u \in defaulted' <=> u \in defaulted
        /\ u \in switched' <=> u \in switched
        /\ u \in gone' <=> u \in gone
        /\ u \in unsaved' <=> u \in unsaved
        /\ u \in actions \cup dropped => u \in actions' \cup dropped'
        /\ <<"meta", u>> \in written' => <<"meta", u>> \in written
        /\ <<"resume", u>> \in written' => <<"resume", u>> \in written

\* ... and so has to keep what the invariant says of t.
LEMMA OneTorrent ==
  ASSUME IInv, NEW t \in Torrents, OthersKept(t), TorrentInv(t)',
         TypeOK', QuietBetweenFlushes', DownIsEmpty'
  PROVE  IInv'
<1>1. ASSUME NEW u \in Torrents, u # t PROVE TorrentInv(u)'
  <2>1. TorrentInv(u)
    BY DEF IInv
  <2> QED BY <1>1, <2>1 DEF OthersKept, TorrentInv, Follows, Nothing
<1> QED BY <1>1 DEF IInv

-----------------------------------------------------------------------------
(* Commands.                                                               *)

\* A command that changes nothing but the session's health or the flush.
LEMMA NothingChanges ==
  ASSUME IInv, UNCHANGED <<memory, store, flush, history>>, written' = {},
         \A t \in Torrents : session'[t] = session[t],
         TypeOK', QuietBetweenFlushes', DownIsEmpty'
  PROVE  IInv'
<1>1. ASSUME NEW t \in Torrents PROVE TorrentInv(t)'
  <2>1. TorrentInv(t)
    BY DEF IInv
  <2> QED BY <2>1 DEF TorrentInv, Follows, Nothing, memory, store, disk, flush, history, modes
<1> QED BY <1>1 DEF IInv

LEMMA SpendOK ==
  ASSUME errors \in Nat, NEW ok, Spend(ok)
  PROVE  errors' \in Nat
  BY DEF Spend

\* SetAndStore, with what is stored.
StoreStep(t, m) ==
    /\ pc = "idle" /\ commands' = commands + 1 /\ pc' \in {"idle", "flush"} /\ gone' = gone \ {t}
    /\ written' = {<<"meta", t>>}
    /\ UNCHANGED <<pending, payloads, goals, resumeFile, todo, actions, sawError, halfAdded, dropped, crashes>>
    /\ \E ok, done \in BOOLEAN :
          /\ Spend(ok /\ done) /\ StoreMetadata(t, m, ok)
          /\ health' = Mark(IF done THEN health ELSE health \cup {"session"}, "resume_store", ok)

LEMMA SetAndStoreStep ==
  ASSUME NEW t \in Torrents, NEW f, NEW v, NEW done \in BOOLEAN, SetAndStore(t, f, v, done)
  PROVE  StoreStep(t, [Stored(t) EXCEPT ![f] = v])
  BY DEF SetAndStore, Command, flush, StoreStep

LEMMA StoreStepInv ==
  ASSUME IInv, NEW t \in Torrents, NEW m \in Metadata, StoreStep(t, m),
         session' \in [Torrents -> SessionTorrent \cup {None}],
         \A u \in Torrents \ {t} : session'[u] = session[u],
         session'[t] = None <=> session[t] = None,
         defaulted' \in {defaulted, defaulted \ {t}}, switched' \in {switched, switched \cup {t}},
         session[t] # None /\ Follows(t) =>
             Agree(session'[t], m, t \in defaulted', t \in switched') /\ m.cleanup = cache[t].cleanup
  PROVE  IInv'
<1>1. PICK ok \in BOOLEAN, done \in BOOLEAN :
          /\ Spend(ok /\ done) /\ StoreMetadata(t, m, ok)
          /\ health' = Mark(IF done THEN health ELSE health \cup {"session"}, "resume_store", ok)
  BY DEF StoreStep
<1>2. /\ pc = "idle" /\ commands' = commands + 1 /\ pc' \in {"idle", "flush"} /\ gone' = gone \ {t}
      /\ written' = {<<"meta", t>>}
      /\ UNCHANGED <<pending, payloads, goals, resumeFile, todo, actions, sawError, halfAdded, dropped, crashes>>
  BY DEF StoreStep
<1>3. todo = {} /\ actions = {}
  BY <1>2 DEF IInv, QuietBetweenFlushes
<1>4. /\ cache' = [cache EXCEPT ![t] = m]
      /\ metaFile' \in {metaFile, [metaFile EXCEPT ![t] = Torn], [metaFile EXCEPT ![t] = m]}
      /\ unsaved' = (IF ok THEN unsaved \ {t} ELSE unsaved \cup {t})
      /\ ok => metaFile' = [metaFile EXCEPT ![t] = m]
  BY <1>1 DEF StoreMetadata
<1>5. TypeOK'
  <2>1. errors' \in Nat /\ health' \subseteq {"session", "resume_store"}
    BY <1>1, SpendOK, MarkOK DEF IInv, TypeOK
  <2>2. /\ cache' \in [Torrents -> Metadata \cup {None}]
        /\ metaFile' \in [Torrents -> Metadata \cup {None, Torn}]
        /\ unsaved' \subseteq Torrents
    BY <1>4 DEF IInv, TypeOK
  <2> QED BY <1>2, <1>3, <2>1, <2>2 DEF IInv, TypeOK
<1>6. QuietBetweenFlushes' /\ DownIsEmpty'
  BY <1>2, <1>3 DEF QuietBetweenFlushes, DownIsEmpty
<1>7. OthersKept(t)
  BY <1>2, <1>4 DEF OthersKept, IInv, TypeOK
<1>8. TorrentInv(t)'
  <2>1. TorrentInv(t) /\ cache'[t] = m /\ m # None
    BY <1>4, NoneAssumption DEF IInv, TypeOK
  <2>2. t \notin unsaved' => metaFile'[t] = cache'[t]
    BY <1>4 DEF IInv, TypeOK
  <2> QED BY <1>2, <2>1, <2>2 DEF TorrentInv, Follows
<1> QED BY <1>5, <1>6, <1>7, <1>8, OneTorrent

\* A setting of a held torrent is replaced.
LEMMA SessionSetOK ==
  ASSUME TypeOK, NEW t \in Torrents, NEW s,
         session' = IF t \in Held THEN [session EXCEPT ![t] = s] ELSE session,
         t \in Held => s \in SessionTorrent
  PROVE  /\ session' \in [Torrents -> SessionTorrent \cup {None}]
         /\ \A u \in Torrents \ {t} : session'[u] = session[u]
         /\ session'[t] = None <=> session[t] = None
         /\ session[t] # None => session'[t] = s
<1>1. CASE t \in Held
  BY <1>1, AbsentAssumption DEF TypeOK, Held
<1>2. CASE t \notin Held
  BY <1>2 DEF TypeOK, Held
<1> QED BY <1>1, <1>2

LEMMA HeldIsTorrent ==
  ASSUME TypeOK, NEW t \in Torrents
  PROVE  t \in Held <=> session[t] \in SessionTorrent
  BY AbsentAssumption DEF TypeOK, Held

LEMMA HandleSetSequentialInv ==
  ASSUME IInv, NEW t \in Torrents, HandleSetSequential(t) PROVE IInv'
<1>0. defaulted' = defaulted \ {t} /\ switched' = switched
  BY DEF HandleSetSequential
<1>1. PICK b \in BOOLEAN : SetAndStore(t, "sequential", b, TRUE) /\ SessionSet(t, "sequential", b)
  BY DEF HandleSetSequential
<1>2. TypeOK /\ Stored(t) \in Metadata /\ (cache[t] # None => Stored(t) = cache[t])
  BY StoredIsMetadata DEF IInv, TypeOK
<1> DEFINE m == [Stored(t) EXCEPT !["sequential"] = b]
           s == [session[t] EXCEPT !["sequential"] = b]
<1>3. StoreStep(t, m)
  BY <1>1, SetAndStoreStep
<1>4. /\ m \in Metadata /\ m.sequential = b /\ m.rate = Stored(t).rate
      /\ m.options = Stored(t).options /\ m.selection = Stored(t).selection /\ m.cleanup = Stored(t).cleanup
  BY <1>2 DEF Metadata
<1>5. t \in Held => /\ s \in SessionTorrent /\ s.sequential = b /\ s.rate = session[t].rate
                   /\ s.options = session[t].options /\ s.selection = session[t].selection
  BY <1>2, HeldIsTorrent DEF SessionTorrent
<1>6. session' = IF t \in Held THEN [session EXCEPT ![t] = s] ELSE session
  BY <1>1 DEF SessionSet
<1> HIDE DEF m, s
<1>7. /\ session' \in [Torrents -> SessionTorrent \cup {None}]
      /\ \A u \in Torrents \ {t} : session'[u] = session[u]
      /\ session'[t] = None <=> session[t] = None
      /\ session[t] # None => t \in Held /\ session'[t] = s
  BY <1>2, <1>5, <1>6, SessionSetOK DEF Held
<1>8. session[t] # None /\ Follows(t) =>
        Agree(session'[t], m, t \in defaulted', t \in switched') /\ m.cleanup = cache[t].cleanup
  BY <1>0, <1>2, <1>4, <1>5, <1>7 DEF Follows, Agree
<1> QED BY <1>0, <1>3, <1>4, <1>7, <1>8, StoreStepInv

LEMMA HandleUpdateLimitsInv ==
  ASSUME IInv, NEW t \in Torrents, HandleUpdateLimits(t) PROVE IInv'
<1>0. UNCHANGED <<defaulted, switched>>
  BY DEF HandleUpdateLimits, modes
<1>1. PICK r \in Rates \cup {None} : SetAndStore(t, "rate", r, TRUE) /\ SessionSet(t, "rate", r)
  BY DEF HandleUpdateLimits
<1>2. TypeOK /\ Stored(t) \in Metadata /\ (cache[t] # None => Stored(t) = cache[t])
  BY StoredIsMetadata DEF IInv, TypeOK
<1> DEFINE m == [Stored(t) EXCEPT !["rate"] = r]
           s == [session[t] EXCEPT !["rate"] = r]
<1>3. StoreStep(t, m)
  BY <1>1, SetAndStoreStep
<1>4. /\ m \in Metadata /\ m.rate = r /\ m.sequential = Stored(t).sequential
      /\ m.options = Stored(t).options /\ m.selection = Stored(t).selection /\ m.cleanup = Stored(t).cleanup
  BY <1>2 DEF Metadata
<1>5. t \in Held => /\ s \in SessionTorrent /\ s.rate = r /\ s.sequential = session[t].sequential
                   /\ s.options = session[t].options /\ s.selection = session[t].selection
  BY <1>2, HeldIsTorrent DEF SessionTorrent
<1>6. session' = IF t \in Held THEN [session EXCEPT ![t] = s] ELSE session
  BY <1>1 DEF SessionSet
<1> HIDE DEF m, s
<1>7. /\ session' \in [Torrents -> SessionTorrent \cup {None}]
      /\ \A u \in Torrents \ {t} : session'[u] = session[u]
      /\ session'[t] = None <=> session[t] = None
      /\ session[t] # None => t \in Held /\ session'[t] = s
  BY <1>2, <1>5, <1>6, SessionSetOK DEF Held
<1>8. session[t] # None /\ Follows(t) =>
        Agree(session'[t], m, t \in defaulted', t \in switched') /\ m.cleanup = cache[t].cleanup
  BY <1>0, <1>2, <1>4, <1>5, <1>7 DEF Follows, Agree
<1> QED BY <1>0, <1>3, <1>4, <1>7, <1>8, StoreStepInv

LEMMA HandleUpdateSelectionInv ==
  ASSUME IInv, NEW t \in Torrents, HandleUpdateSelection(t) PROVE IInv'
<1>0. UNCHANGED <<defaulted, switched>>
  BY DEF HandleUpdateSelection, modes
<1>1. PICK x \in Selections : SetAndStore(t, "selection", x, TRUE) /\ SessionSet(t, "selection", x)
  BY DEF HandleUpdateSelection
<1>2. TypeOK /\ Stored(t) \in Metadata /\ (cache[t] # None => Stored(t) = cache[t])
  BY StoredIsMetadata DEF IInv, TypeOK
<1> DEFINE m == [Stored(t) EXCEPT !["selection"] = x]
           s == [session[t] EXCEPT !["selection"] = x]
<1>3. StoreStep(t, m)
  BY <1>1, SetAndStoreStep
<1>4. /\ m \in Metadata /\ m.selection = x /\ m.sequential = Stored(t).sequential
      /\ m.rate = Stored(t).rate /\ m.options = Stored(t).options /\ m.cleanup = Stored(t).cleanup
  BY <1>2 DEF Metadata
<1>5. t \in Held => /\ s \in SessionTorrent /\ s.selection = x /\ s.sequential = session[t].sequential
                   /\ s.rate = session[t].rate /\ s.options = session[t].options
  BY <1>2, HeldIsTorrent DEF SessionTorrent
<1>6. session' = IF t \in Held THEN [session EXCEPT ![t] = s] ELSE session
  BY <1>1 DEF SessionSet
<1> HIDE DEF m, s
<1>7. /\ session' \in [Torrents -> SessionTorrent \cup {None}]
      /\ \A u \in Torrents \ {t} : session'[u] = session[u]
      /\ session'[t] = None <=> session[t] = None
      /\ session[t] # None => t \in Held /\ session'[t] = s
  BY <1>2, <1>5, <1>6, SessionSetOK DEF Held
<1>8. session[t] # None /\ Follows(t) =>
        Agree(session'[t], m, t \in defaulted', t \in switched') /\ m.cleanup = cache[t].cleanup
  BY <1>0, <1>2, <1>4, <1>5, <1>7 DEF Follows, Agree
<1> QED BY <1>0, <1>3, <1>4, <1>7, <1>8, StoreStepInv

LEMMA HandleUpdateOptionsInv ==
  ASSUME IInv, NEW t \in Torrents, HandleUpdateOptions(t) PROVE IInv'
<1>1. PICK o \in Options \cup {None}, new \in Options \cup {None}, done \in BOOLEAN :
        /\ SetAndStore(t, "options", o, done) /\ SessionSet(t, "options", new)
        /\ defaulted' = defaulted
        /\ switched' = (IF t \in Held /\ new # o THEN switched \cup {t} ELSE switched)
  BY DEF HandleUpdateOptions, SessionToggle, modes
<1>2. TypeOK /\ Stored(t) \in Metadata /\ (cache[t] # None => Stored(t) = cache[t])
  BY StoredIsMetadata DEF IInv, TypeOK
<1> DEFINE m == [Stored(t) EXCEPT !["options"] = o]
           s == [session[t] EXCEPT !["options"] = new]
<1>3. StoreStep(t, m)
  BY <1>1, SetAndStoreStep
<1>4. /\ m \in Metadata /\ m.options = o /\ m.sequential = Stored(t).sequential
      /\ m.rate = Stored(t).rate /\ m.selection = Stored(t).selection /\ m.cleanup = Stored(t).cleanup
  BY <1>2 DEF Metadata
<1>5. t \in Held => /\ s \in SessionTorrent /\ s.options = new /\ s.sequential = session[t].sequential
                   /\ s.rate = session[t].rate /\ s.selection = session[t].selection
  BY <1>2, HeldIsTorrent DEF SessionTorrent
<1>6. session' = IF t \in Held THEN [session EXCEPT ![t] = s] ELSE session
  BY <1>1 DEF SessionSet
<1> HIDE DEF m, s
<1>7. /\ session' \in [Torrents -> SessionTorrent \cup {None}]
      /\ \A u \in Torrents \ {t} : session'[u] = session[u]
      /\ session'[t] = None <=> session[t] = None
      /\ session[t] # None => t \in Held /\ session'[t] = s
  BY <1>2, <1>5, <1>6, SessionSetOK DEF Held
<1>8. session[t] # None /\ Follows(t) =>
        Agree(session'[t], m, t \in defaulted', t \in switched') /\ m.cleanup = cache[t].cleanup
  BY <1>1, <1>2, <1>4, <1>5, <1>7 DEF Follows, Agree
<1> QED BY <1>1, <1>3, <1>4, <1>7, <1>8, StoreStepInv

LEMMA HandleUpdateTrackersInv ==
  ASSUME IInv, NEW t \in Torrents, HandleUpdateTrackers(t) PROVE IInv'
<1>0. UNCHANGED <<defaulted, switched>>
  BY DEF HandleUpdateTrackers, modes
<1>1. PICK new \in SUBSET Trackers, replace \in BOOLEAN :
        SetAndStore(t, "trackers", IF replace THEN new ELSE Stored(t).trackers \cup new, TRUE)
  BY DEF HandleUpdateTrackers
<1>2. TypeOK /\ Stored(t) \in Metadata /\ (cache[t] # None => Stored(t) = cache[t])
  BY StoredIsMetadata DEF IInv, TypeOK
<1> DEFINE x == IF replace THEN new ELSE Stored(t).trackers \cup new
           m == [Stored(t) EXCEPT !["trackers"] = x]
<1>3. StoreStep(t, m)
  BY <1>1, SetAndStoreStep
<1>4. x \in SUBSET Trackers
  BY <1>2 DEF Metadata
<1> HIDE DEF x
<1>5. /\ m \in Metadata /\ m.sequential = Stored(t).sequential /\ m.rate = Stored(t).rate
      /\ m.options = Stored(t).options /\ m.selection = Stored(t).selection /\ m.cleanup = Stored(t).cleanup
  BY <1>2, <1>4 DEF Metadata
<1> HIDE DEF m
<1>6. session' = session
  BY DEF HandleUpdateTrackers
<1>7. session[t] # None /\ Follows(t) =>
        Agree(session'[t], m, t \in defaulted', t \in switched') /\ m.cleanup = cache[t].cleanup
  BY <1>0, <1>2, <1>5, <1>6 DEF Follows, Agree
<1>8. session' \in [Torrents -> SessionTorrent \cup {None}]
  BY <1>2, <1>6 DEF TypeOK
<1> QED BY <1>0, <1>3, <1>5, <1>6, <1>7, <1>8, StoreStepInv

\* add_torrent is refused.
LEMMA AddRejectedInv ==
  ASSUME IInv, NEW t \in Torrents, AddRejected(t) PROVE IInv'
<1>1. TypeOK'
  <2>1. errors' \in Nat /\ health' \subseteq {"session", "resume_store"}
    BY SpendOK, MarkOK DEF AddRejected, IInv, TypeOK
  <2>2. pending' \in [Torrents -> Payload]
    BY DEF AddRejected, IInv, TypeOK, Payload
  <2>3. Held' = Held /\ commands' \in Nat
    BY DEF AddRejected, Command, IInv, TypeOK, Held
  <2> QED BY <2>1, <2>2, <2>3 DEF AddRejected, memory, store, disk, flush, history, modes, IInv, TypeOK
<1>2. QuietBetweenFlushes' /\ DownIsEmpty'
  BY DEF AddRejected, flush, IInv, QuietBetweenFlushes, DownIsEmpty
<1> QED BY <1>1, <1>2, NothingChanges DEF AddRejected, history, modes

\* An add that fails in the middle: the torrent is in the session, half added.
LEMMA AddUnreconciledInv ==
  ASSUME IInv, NEW t \in Torrents, AddUnreconciled(t) PROVE IInv'
<1>1. PICK q \in Requests, taken \in BOOLEAN :
        session' = [session EXCEPT ![t] = SessionAdd(t, [q EXCEPT !.options = Backfill(q, cache[t]).options], taken)]
  BY DEF AddUnreconciled
<1>2. /\ pc = "idle" /\ commands' = commands + 1 /\ Spend(FALSE) /\ pending' = [pending EXCEPT ![t] = payloads[t]]
      /\ health' = Mark(health, "session", FALSE)
      /\ halfAdded' = halfAdded \cup {t} /\ gone' = gone \ {t} /\ written' = {}
      /\ UNCHANGED <<cache, payloads, goals, metaFile, resumeFile, unsaved, pc, todo, actions, sawError, defaulted, switched, dropped, crashes>>
  BY DEF AddUnreconciled, Command, memory, store, disk, flush, modes
<1>3. q \in Request /\ cache[t] \in Metadata \cup {None} /\ Backfill(q, cache[t]) \in Metadata
  BY RequestsAssumption, BackfillIsMetadata DEF IInv, TypeOK
<1>4. [q EXCEPT !.options = Backfill(q, cache[t]).options] \in Request
  BY <1>3 DEF Metadata, Request
<1>5. PICK s \in SessionTorrent : session' = [session EXCEPT ![t] = s]
  BY <1>1, <1>4, SessionAddOK DEF IInv
<1>6. TypeOK'
  <2>1. errors' \in Nat /\ health' \subseteq {"session", "resume_store"}
    BY <1>2, SpendOK, MarkOK DEF IInv, TypeOK
  <2>2. session' \in [Torrents -> SessionTorrent \cup {None}] /\ pending' \in [Torrents -> Payload]
    BY <1>2, <1>5 DEF IInv, TypeOK
  <2>3. todo' = {} /\ commands' \in Nat
    BY <1>2 DEF IInv, QuietBetweenFlushes, TypeOK
  <2> QED BY <1>2, <2>1, <2>2, <2>3 DEF IInv, TypeOK
<1>7. QuietBetweenFlushes' /\ DownIsEmpty'
  BY <1>2 DEF IInv, QuietBetweenFlushes, DownIsEmpty
<1>8. OthersKept(t)
  BY <1>2, <1>5 DEF OthersKept, IInv, TypeOK
<1>9. TorrentInv(t)'
  <2>1. TorrentInv(t)
    BY DEF IInv
  <2> QED BY <1>2, <2>1 DEF TorrentInv
<1> QED BY <1>6, <1>7, <1>8, <1>9, OneTorrent

\* What the session has of t after a whole add, for the settings m that the
\* request was completed to.
LEMMA AddedFollows ==
  ASSUME TypeOK, NEW t \in Torrents, NEW q \in Request, NEW m \in Metadata, NEW limited \in BOOLEAN,
         NEW taken \in BOOLEAN, NEW s, m = Backfill(q, cache[t]), s = AddedTorrent(t, q, m, limited, taken)
  PROVE  /\ s \in SessionTorrent
         /\ limited /\ (t \in Held => Follows(t)) =>
               Agree(s, m, ModeIsDefault(q, m), t \in Held /\ (t \in switched \/ ~taken))
<1> DEFINE added == SessionAdd(t, [q EXCEPT !.options = m.options], taken)
           x == IF cache[t] # None /\ m.selection # q.selection THEN m.selection ELSE added.selection
           y == IF m.sequential # Wanted(q) THEN m.sequential ELSE added.sequential
           reconciled == [[added EXCEPT !.selection = x] EXCEPT !.sequential = y]
<1>1. /\ [q EXCEPT !.options = m.options] \in Request /\ [q EXCEPT !.options = m.options].options = m.options
      /\ AddedMode([q EXCEPT !.options = m.options]) = AddedMode(q)
  BY DEF Metadata, Request, AddedMode
<1>2. /\ added \in SessionTorrent /\ added.sequential = AddedMode(q)
      /\ t \in Held => /\ added.rate = session[t].rate /\ added.selection = session[t].selection
                       /\ added.options = IF m.options = None \/ ~taken THEN session[t].options ELSE m.options
      /\ t \notin Held => added.rate = None /\ added.selection = Default /\ added.options = m.options
  <2> DEFINE r == [q EXCEPT !.options = m.options]
  <2>1. r \in Request /\ r.options = m.options /\ AddedMode(r) = AddedMode(q)
    BY <1>1
  <2>2. added = SessionAdd(t, r, taken)
    OBVIOUS
  <2> HIDE DEF r, added
  <2> QED BY <2>1, <2>2, SessionAddOK
<1> HIDE DEF added
<1>3. s = IF m.rate # None /\ limited THEN [reconciled EXCEPT !.rate = m.rate] ELSE reconciled
  BY DEF added, AddedTorrent
<1>4. x \in Selections
  BY <1>2 DEF SessionTorrent, Metadata
<1>5. m.sequential \in BOOLEAN /\ m.rate \in Rates \cup {None}
  BY DEF Metadata
<1>6. y \in BOOLEAN /\ y = IF ModeIsDefault(q, m) THEN SequentialDefault ELSE m.sequential
  <2>1. added.sequential \in BOOLEAN
    BY <1>2 DEF SessionTorrent
  <2> QED BY <1>2, <1>5, <2>1 DEF ModeIsDefault, AddedMode, Wanted
<1> HIDE DEF x, y
<1>7. /\ reconciled \in SessionTorrent /\ reconciled.selection = x /\ reconciled.sequential = y
      /\ reconciled.rate = added.rate /\ reconciled.options = added.options
  BY <1>2, <1>4, <1>6 DEF SessionTorrent
<1> HIDE DEF reconciled
<1>8. /\ s \in SessionTorrent /\ s.selection = x /\ s.sequential = y /\ s.options = added.options
      /\ s.rate = IF m.rate # None /\ limited THEN m.rate ELSE added.rate
  <2>1. CASE m.rate # None /\ limited
    <3>1. s = [reconciled EXCEPT !.rate = m.rate]
      BY <1>3, <2>1
    <3> QED BY <1>5, <1>7, <2>1, <3>1 DEF SessionTorrent
  <2>2. CASE ~(m.rate # None /\ limited)
    <3>1. s = reconciled
      BY <1>3, <2>2
    <3> QED BY <1>7, <2>2, <3>1
  <2> QED BY <2>1, <2>2
<1>9. ASSUME limited, t \in Held => Follows(t)
      PROVE  Agree(s, m, ModeIsDefault(q, m), t \in Held /\ (t \in switched \/ ~taken))
  <2>1. CASE t \in Held
    <3>1. /\ cache[t] # None /\ session[t].rate = cache[t].rate
          /\ t \in switched \/ session[t].options = cache[t].options
          /\ session[t].selection \in {Default, cache[t].selection}
      BY <1>9, <2>1 DEF Follows, Agree
    <3>2. /\ m.selection = cache[t].selection
          /\ m.rate = None => cache[t].rate = None
          /\ m.options = None => cache[t].options = None
      BY <3>1 DEF Backfill
    <3>3. s.selection \in {Default, m.selection} /\ s.rate = m.rate
      BY <1>2, <1>8, <1>9, <2>1, <3>1, <3>2 DEF x
    <3>4. t \in switched \/ ~taken \/ s.options = m.options
      BY <1>2, <1>8, <2>1, <3>1, <3>2
    <3> QED BY <1>6, <1>8, <2>1, <3>3, <3>4 DEF Agree
  <2>2. CASE t \notin Held
    BY <1>2, <1>6, <1>8, <1>9, <2>2 DEF Agree, x
  <2> QED BY <2>1, <2>2
<1> QED BY <1>8, <1>9

LEMMA HandleAddInv ==
  ASSUME IInv, NEW t \in Torrents, HandleAdd(t) PROVE IInv'
<1>1. PICK q \in Requests, stored \in BOOLEAN, limited \in BOOLEAN, taken \in BOOLEAN :
        /\ Spend(stored /\ limited)
        /\ session' = [session EXCEPT ![t] = AddedTorrent(t, q, Backfill(q, cache[t]), limited, taken)]
        /\ AddedModes(t, q, Backfill(q, cache[t]), taken)
        /\ StoreMetadata(t, Backfill(q, cache[t]), stored)
        /\ health' = Mark(IF limited THEN health ELSE health \cup {"session"}, "resume_store", stored)
        /\ IF limited THEN RegisterCleanupGoal(t, Backfill(q, cache[t]).cleanup) ELSE UNCHANGED goals
        /\ halfAdded' = IF ~limited THEN halfAdded \cup {t}
                         ELSE IF t \in Held THEN halfAdded ELSE halfAdded \ {t}
        /\ pc' = IF limited THEN "flush" ELSE "idle"
  BY ZenonT(60) DEF HandleAdd
<1>2. /\ pc = "idle" /\ commands' = commands + 1 /\ pending' = [pending EXCEPT ![t] = payloads[t]]
      /\ gone' = gone \ {t} /\ written' = {<<"meta", t>>}
      /\ UNCHANGED <<payloads, resumeFile, todo, actions, sawError, dropped, crashes>>
  BY DEF HandleAdd, Command, flush
<1>3. TypeOK /\ TorrentInv(t) /\ todo = {} /\ actions = {}
  BY <1>2 DEF IInv, QuietBetweenFlushes
<1>4. PICK m : m = Backfill(q, cache[t])
  OBVIOUS
<1>5. PICK s : s = AddedTorrent(t, q, m, limited, taken)
  OBVIOUS
<1>6. q \in Request /\ m \in Metadata /\ m # None
  BY <1>3, <1>4, RequestsAssumption, BackfillIsMetadata, NoneAssumption DEF TypeOK
<1>7. s \in SessionTorrent /\ (limited /\ (t \in Held => Follows(t)) =>
        Agree(s, m, ModeIsDefault(q, m), t \in Held /\ (t \in switched \/ ~taken)))
  BY <1>3, <1>4, <1>5, <1>6, AddedFollows
<1>8. /\ session' = [session EXCEPT ![t] = s]
      /\ StoreMetadata(t, m, stored)
      /\ limited => RegisterCleanupGoal(t, m.cleanup)
      /\ AddedModes(t, q, m, taken)
  BY <1>1, <1>4, <1>5
<1>9. /\ Spend(stored /\ limited)
      /\ health' = Mark(IF limited THEN health ELSE health \cup {"session"}, "resume_store", stored)
      /\ ~limited => UNCHANGED goals
      /\ halfAdded' = IF ~limited THEN halfAdded \cup {t}
                       ELSE IF t \in Held THEN halfAdded ELSE halfAdded \ {t}
      /\ pc' = IF limited THEN "flush" ELSE "idle"
  BY <1>1
<1>10. /\ cache' = [cache EXCEPT ![t] = m]
       /\ metaFile' \in {metaFile, [metaFile EXCEPT ![t] = Torn], [metaFile EXCEPT ![t] = m]}
       /\ unsaved' = (IF stored THEN unsaved \ {t} ELSE unsaved \cup {t})
       /\ stored => metaFile' = [metaFile EXCEPT ![t] = m]
  BY <1>8 DEF StoreMetadata
<1>11. PICK g : limited => goals' = [goals EXCEPT ![t] = g] /\ g \in CleanupGoal \cup {None}
                          /\ (g # None <=> m.cleanup # {}) /\ (g # None => ~g.satisfied)
  <2>1. m.cleanup \in SUBSET Goals
    BY <1>6 DEF Metadata
  <2>2. CASE m.cleanup = {}
    BY <1>8, <2>2 DEF RegisterCleanupGoal
  <2>3. CASE m.cleanup # {}
    <3> DEFINE g == [limits |-> m.cleanup, seeding_since |-> "no", satisfied |-> FALSE]
    <3>1. g \in CleanupGoal /\ ~g.satisfied
      BY <2>1, <2>3 DEF CleanupGoal
    <3>2. limited => goals' = [goals EXCEPT ![t] = g]
      BY <1>8, <2>3 DEF RegisterCleanupGoal
    <3> HIDE DEF g
    <3> QED BY <2>3, <3>1, <3>2, AbsentAssumption
  <2> QED BY <2>2, <2>3
<1>12. TypeOK'
  <2>1. errors' \in Nat /\ health' \subseteq {"session", "resume_store"}
    BY <1>3, <1>9, SpendOK, MarkOK DEF TypeOK
  <2>2. /\ cache' \in [Torrents -> Metadata \cup {None}]
        /\ metaFile' \in [Torrents -> Metadata \cup {None, Torn}]
        /\ unsaved' \subseteq Torrents
    BY <1>3, <1>6, <1>10 DEF TypeOK
  <2>3. goals' \in [Torrents -> CleanupGoal \cup {None}]
    BY <1>3, <1>9, <1>11 DEF TypeOK
  <2>4. session' \in [Torrents -> SessionTorrent \cup {None}] /\ pending' \in [Torrents -> Payload]
    BY <1>2, <1>3, <1>7, <1>8 DEF TypeOK
  <2>6. defaulted' \subseteq Torrents /\ switched' \subseteq Torrents
    BY <1>3, <1>8 DEF AddedModes, TypeOK
  <2>5. halfAdded' \subseteq Torrents /\ pc' \in {"idle", "flush", "events", "down"}
    BY <1>3, <1>9 DEF TypeOK
  <2> QED BY <1>2, <1>3, <2>1, <2>2, <2>3, <2>4, <2>5, <2>6 DEF TypeOK
<1>13. QuietBetweenFlushes' /\ DownIsEmpty'
  BY <1>2, <1>3, <1>9 DEF QuietBetweenFlushes, DownIsEmpty
<1>14. OthersKept(t)
  <2>1. \A u \in Torrents \ {t} : goals'[u] = goals[u]
    BY <1>3, <1>9, <1>11 DEF TypeOK
  <2>2. \A u \in Torrents \ {t} : u \in halfAdded' <=> u \in halfAdded
    BY <1>9
  <2>3. \A u \in Torrents \ {t} : (u \in defaulted' <=> u \in defaulted) /\ (u \in switched' <=> u \in switched)
    BY <1>8 DEF AddedModes
  <2> QED BY <1>2, <1>3, <1>8, <1>10, <2>1, <2>2, <2>3 DEF OthersKept, TypeOK
<1>15. TorrentInv(t)'
  <2>1. session'[t] = s /\ s # None /\ cache'[t] = m
    BY <1>3, <1>7, <1>8, <1>10, AbsentAssumption DEF TypeOK
  <2>2. t \notin unsaved' => metaFile'[t] = cache'[t]
    BY <1>3, <1>10 DEF TypeOK
  <2>3. limited => goals'[t] = g
    BY <1>3, <1>11 DEF TypeOK
  <2>4. t \notin halfAdded' => Follows(t)'
    <3> SUFFICES ASSUME t \notin halfAdded' PROVE Follows(t)'
      OBVIOUS
    <3>1. limited /\ (t \in Held => t \notin halfAdded)
      BY <1>9
    <3>2. t \in Held => Follows(t)
      BY <1>3, <3>1 DEF TorrentInv, Held
    <3>3. Agree(s, m, ModeIsDefault(q, m), t \in Held /\ (t \in switched \/ ~taken))
      BY <1>7, <3>1, <3>2
    <3>4. (t \in defaulted' <=> ModeIsDefault(q, m)) /\ (t \in switched' <=> t \in Held /\ (t \in switched \/ ~taken))
      BY <1>8 DEF AddedModes
    <3>5. Agree(s, m, t \in defaulted', t \in switched')
      BY <3>3, <3>4 DEF Agree
    <3> QED BY <1>6, <1>11, <2>1, <2>3, <3>1, <3>5 DEF Follows
  <2>5. goals'[t] # None /\ goals'[t].satisfied => t \in actions' \cup dropped'
    BY <1>2, <1>3, <1>9, <1>11, <2>3 DEF TorrentInv
  <2> QED BY <1>2, <2>2, <2>4, <2>5 DEF TorrentInv
<1> QED BY <1>12, <1>13, <1>14, <1>15, OneTorrent

\* handle_remove, called for a command and for a cleanup goal.
LEMMA RemoveInv ==
  ASSUME IInv, NEW t \in Torrents, NEW ok \in BOOLEAN, Spend(ok), Remove(t, ok),
         todo = {}, todo' = {}, actions' = actions \ {t}, sawError' \in BOOLEAN,
         pc' \in {"flush", "events"}, pc' = "flush" => actions = {},
         commands' \in Nat, crashes' \in Nat
  PROVE  IInv'
<1>1. /\ session' = [session EXCEPT ![t] = None] /\ cache' = [cache EXCEPT ![t] = None]
      /\ payloads' = [payloads EXCEPT ![t] = "none"] /\ goals' = [goals EXCEPT ![t] = None]
      /\ gone' = (IF ok THEN gone \cup {t} ELSE gone \ {t})
      /\ unsaved' = (IF ok THEN unsaved \ {t} ELSE unsaved \cup {t})
      /\ dropped' = dropped \ {t} /\ halfAdded' = halfAdded \ {t} /\ written' = {}
      /\ defaulted' = defaulted \ {t} /\ switched' = switched \ {t}
      /\ health' = Mark(health, "resume_store", ok) /\ pending' = pending
  BY DEF Remove, Forget
<1>2. /\ resumeFile' \in {resumeFile, [resumeFile EXCEPT ![t] = "none"]}
      /\ metaFile' \in {metaFile, [metaFile EXCEPT ![t] = None]}
      /\ ok => resumeFile' = [resumeFile EXCEPT ![t] = "none"] /\ metaFile' = [metaFile EXCEPT ![t] = None]
  BY DEF Remove, disk
<1>3. TypeOK /\ TorrentInv(t)
  BY DEF IInv
<1>4. TypeOK'
  <2>1. errors' \in Nat /\ health' \subseteq {"session", "resume_store"}
    BY <1>1, <1>3, SpendOK, MarkOK DEF TypeOK
  <2>2. /\ session' \in [Torrents -> SessionTorrent \cup {None}]
        /\ cache' \in [Torrents -> Metadata \cup {None}] /\ goals' \in [Torrents -> CleanupGoal \cup {None}]
        /\ payloads' \in [Torrents -> Payload]
    BY <1>1, <1>3 DEF TypeOK, Payload
  <2>3. /\ resumeFile' \in [Torrents -> Payload]
        /\ metaFile' \in [Torrents -> Metadata \cup {None, Torn}]
    BY <1>2, <1>3 DEF TypeOK, Payload
  <2>4. gone' \subseteq Torrents /\ unsaved' \subseteq Torrents
    BY <1>1, <1>3 DEF TypeOK
  <2> QED BY <1>1, <1>3, <2>1, <2>2, <2>3, <2>4 DEF TypeOK
<1>5. QuietBetweenFlushes' /\ DownIsEmpty'
  BY DEF QuietBetweenFlushes, DownIsEmpty
<1>6. OthersKept(t)
  BY <1>1, <1>2, <1>3 DEF OthersKept, TypeOK
<1>7. TorrentInv(t)'
  <2>1. session'[t] = None /\ cache'[t] = None /\ goals'[t] = None /\ payloads'[t] = "none"
    BY <1>1, <1>3 DEF TypeOK
  <2>2. ok => metaFile'[t] = None /\ resumeFile'[t] = "none"
    BY <1>2, <1>3 DEF TypeOK
  <2> QED BY <1>1, <2>1, <2>2 DEF TorrentInv, Nothing
<1> QED BY <1>4, <1>5, <1>6, <1>7, OneTorrent

LEMMA HandleRemoveInv ==
  ASSUME IInv, NEW t \in Torrents, HandleRemove(t) PROVE IInv'
<1>1. PICK ok \in BOOLEAN : Spend(ok) /\ Remove(t, ok)
  BY DEF HandleRemove
<1>2. /\ pc = "idle" /\ commands' = commands + 1 /\ pc' = "flush"
      /\ UNCHANGED <<todo, actions, sawError, crashes>>
  BY DEF HandleRemove, Command, flush
<1>3. todo = {} /\ actions = {} /\ TypeOK
  BY <1>2 DEF IInv, QuietBetweenFlushes
<1>4. sawError' \in BOOLEAN /\ commands' \in Nat /\ crashes' \in Nat
  BY <1>2, <1>3 DEF TypeOK
<1> QED BY <1>1, <1>2, <1>3, <1>4, RemoveInv

LEMMA ApplyActionInv ==
  ASSUME IInv, NEW t \in Torrents, ApplyAction(t) PROVE IInv'
<1>1. PICK ok \in BOOLEAN : Spend(ok) /\ Remove(t, ok)
  BY DEF ApplyAction
<1>2. pc = "events" /\ todo = {} /\ actions' = actions \ {t} /\ UNCHANGED <<pc, todo, sawError, commands, crashes>>
  BY DEF ApplyAction
<1>3. sawError' \in BOOLEAN /\ commands' \in Nat /\ crashes' \in Nat
  BY <1>2 DEF IInv, TypeOK
<1> QED BY <1>1, <1>2, <1>3, RemoveInv

-----------------------------------------------------------------------------
(* The session's own steps, and those that only look at it.                *)

\* What the session does with the settings it has changes none of them.
SessionKept(t) ==
    /\ session[t] \in SessionTorrent
    /\ \E s \in SessionTorrent :
          /\ session' = [session EXCEPT ![t] = s]
          /\ s.sequential = session[t].sequential /\ s.rate = session[t].rate
          /\ s.options = session[t].options /\ s.selection = session[t].selection

LEMMA SessionKeptInv ==
  ASSUME IInv, NEW t \in Torrents, SessionKept(t), written' \in {written, {}}, health' = health,
         UNCHANGED <<pending, memory, store, flush, history, errors, crashes>>,
         pc' \in {pc, "flush"}, pc' = "flush" => pc \in {"idle", "flush"}, commands' \in Nat
  PROVE  IInv'
<1>1. PICK s \in SessionTorrent :
          /\ session' = [session EXCEPT ![t] = s]
          /\ s.sequential = session[t].sequential /\ s.rate = session[t].rate
          /\ s.options = session[t].options /\ s.selection = session[t].selection
  BY DEF SessionKept
<1>2. /\ TypeOK /\ TorrentInv(t) /\ session'[t] = s /\ session[t] # None /\ s # None
      /\ \A u \in Torrents \ {t} : session'[u] = session[u]
  BY <1>1, AbsentAssumption DEF IInv, TypeOK, SessionKept
<1>3. UNCHANGED <<cache, payloads, goals, metaFile, resumeFile, unsaved, todo, actions, sawError,
               halfAdded, defaulted, switched, gone, dropped>>
  BY DEF memory, store, disk, flush, history, modes
<1>4. Held' = Held
  BY <1>1, <1>2 DEF TypeOK, Held
<1>5. TypeOK'
  <2>1. session' \in [Torrents -> SessionTorrent \cup {None}]
    BY <1>1, <1>2 DEF TypeOK
  <2> QED BY <1>2, <1>3, <1>4, <2>1 DEF TypeOK
<1>6. QuietBetweenFlushes' /\ DownIsEmpty'
  BY <1>2, <1>3 DEF IInv, QuietBetweenFlushes, DownIsEmpty
<1>7. OthersKept(t)
  BY <1>2, <1>3 DEF OthersKept
<1>8. TorrentInv(t)'
  BY <1>1, <1>2, <1>3 DEF TorrentInv, Follows, Agree, Nothing
<1> QED BY <1>5, <1>6, <1>7, <1>8, OneTorrent

LEMMA SessionStepKept ==
  ASSUME IInv, NEW t \in Torrents, Downloads(t) \/ Finishes(t) \/ ReachesRatio(t)
  PROVE  SessionKept(t)
<1>1. TypeOK /\ session[t] \in SessionTorrent
  BY HeldIsTorrent DEF IInv, Downloads, Finishes, ReachesRatio
<1> DEFINE d == [[session[t] EXCEPT !.state = "downloading"] EXCEPT !.fresh = TRUE]
           f == [[session[t] EXCEPT !.state = "seeding"] EXCEPT !.fresh = TRUE]
           r == [session[t] EXCEPT !.ratio = TRUE]
<1>2. /\ d \in SessionTorrent /\ d.sequential = session[t].sequential /\ d.rate = session[t].rate
      /\ d.options = session[t].options /\ d.selection = session[t].selection
  BY <1>1 DEF SessionTorrent, States
<1>3. /\ f \in SessionTorrent /\ f.sequential = session[t].sequential /\ f.rate = session[t].rate
      /\ f.options = session[t].options /\ f.selection = session[t].selection
  BY <1>1 DEF SessionTorrent, States
<1>4. /\ r \in SessionTorrent /\ r.sequential = session[t].sequential /\ r.rate = session[t].rate
      /\ r.options = session[t].options /\ r.selection = session[t].selection
  BY <1>1 DEF SessionTorrent, States
<1>5. \/ session' = [session EXCEPT ![t] = d]
      \/ session' = [session EXCEPT ![t] = f]
      \/ session' = [session EXCEPT ![t] = r]
  BY <1>1 DEF Downloads, Finishes, ReachesRatio, TypeOK
<1> HIDE DEF d, f, r
<1> QED BY <1>1, <1>2, <1>3, <1>4, <1>5 DEF SessionKept

LEMMA SessionStepInv ==
  ASSUME IInv, NEW t \in Torrents, Downloads(t) \/ Finishes(t) \/ ReachesRatio(t) PROVE IInv'
<1>1. SessionKept(t) /\ TypeOK
  BY SessionStepKept DEF IInv
<1>2. /\ UNCHANGED <<pending, memory, store, flush, history, errors, crashes>>
      /\ health' = health /\ written' = written /\ pc' = pc /\ commands' = commands
  BY DEF Downloads, Finishes, ReachesRatio
<1>3. pc' \in {pc, "flush"} /\ (pc' = "flush" => pc \in {"idle", "flush"}) /\ commands' \in Nat
  BY <1>1, <1>2 DEF TypeOK
<1>4. written' \in {written, {}}
  BY <1>2
<1> QED BY <1>1, <1>2, <1>3, <1>4, SessionKeptInv

LEMMA HandleRecheckInv ==
  ASSUME IInv, NEW t \in Torrents, HandleRecheck(t) PROVE IInv'
<1>1. /\ pc = "idle" /\ commands' = commands + 1 /\ pc' = "flush" /\ written' = {}
      /\ UNCHANGED <<pending, memory, store, health, flush, history, errors, crashes>>
  BY DEF HandleRecheck, Command
<1>2. TypeOK /\ commands' \in Nat
  BY <1>1 DEF IInv, TypeOK
<1>3. CASE t \in Held
  <2> DEFINE s == [[session[t] EXCEPT !.state = "queued"] EXCEPT !.fresh = TRUE]
  <2>1. session[t] \in SessionTorrent
    BY <1>2, <1>3, HeldIsTorrent
  <2>2. /\ s \in SessionTorrent /\ s.sequential = session[t].sequential /\ s.rate = session[t].rate
        /\ s.options = session[t].options /\ s.selection = session[t].selection
    BY <2>1 DEF SessionTorrent, States
  <2>3. session' = [session EXCEPT ![t] = s]
    BY <1>2, <1>3 DEF HandleRecheck, TypeOK
  <2> HIDE DEF s
  <2>4. SessionKept(t)
    BY <2>1, <2>2, <2>3 DEF SessionKept
  <2> QED BY <1>1, <1>2, <2>4, SessionKeptInv
<1>4. CASE t \notin Held
  <2>1. session' = session
    BY <1>4 DEF HandleRecheck
  <2>2. TypeOK'
    BY <1>1, <1>2, <2>1 DEF TypeOK, Held, memory, store, disk, flush, history, modes
  <2>3. QuietBetweenFlushes' /\ DownIsEmpty'
    BY <1>1 DEF IInv, QuietBetweenFlushes, DownIsEmpty, flush
  <2> QED BY <1>1, <2>1, <2>2, <2>3, NothingChanges DEF history, modes
<1> QED BY <1>3, <1>4

\* What a pause or a resume switches is excepted from then on.
LEMMA HandlePauseResumeInv ==
  ASSUME IInv, NEW t \in Torrents, HandlePauseResume(t) PROVE IInv'
<1>1. PICK new \in Options \cup {None} :
        /\ session' = [session EXCEPT ![t] = [session[t] EXCEPT !["options"] = new]]
        /\ switched' = (IF new # session[t].options THEN switched \cup {t} ELSE switched)
  BY DEF HandlePauseResume, SessionToggle, SessionSet
<1>2. /\ pc = "idle" /\ commands' = commands + 1 /\ pc' = "flush" /\ written' = {} /\ t \in Held
      /\ UNCHANGED <<pending, cache, payloads, goals, metaFile, resumeFile, unsaved, health, todo, actions, sawError,
                     halfAdded, defaulted, gone, dropped, errors, crashes>>
  BY DEF HandlePauseResume, SessionToggle, Command, memory, store, disk, flush
<1>3. TypeOK /\ TorrentInv(t) /\ session[t] \in SessionTorrent
  BY <1>2, HeldIsTorrent DEF IInv
<1> DEFINE s == [session[t] EXCEPT !["options"] = new]
<1>4. /\ s \in SessionTorrent /\ s.options = new /\ s.sequential = session[t].sequential
      /\ s.rate = session[t].rate /\ s.selection = session[t].selection
  BY <1>3 DEF SessionTorrent
<1>5. session' = [session EXCEPT ![t] = s]
  BY <1>1
<1> HIDE DEF s
<1>6. /\ session' \in [Torrents -> SessionTorrent \cup {None}] /\ session'[t] = s /\ session[t] # None
      /\ Held' = Held /\ \A u \in Torrents \ {t} : session'[u] = session[u]
  BY <1>3, <1>4, <1>5, AbsentAssumption DEF TypeOK, Held
<1>7. TypeOK'
  <2>1. switched' \subseteq Torrents /\ commands' \in Nat
    BY <1>1, <1>2, <1>3 DEF TypeOK
  <2> QED BY <1>2, <1>3, <1>6, <2>1 DEF TypeOK
<1>8. QuietBetweenFlushes' /\ DownIsEmpty'
  BY <1>2 DEF IInv, QuietBetweenFlushes, DownIsEmpty
<1>9. OthersKept(t)
  BY <1>1, <1>2, <1>6 DEF OthersKept
<1>10. TorrentInv(t)'
  <2>1. t \notin halfAdded => Follows(t)'
    BY <1>1, <1>2, <1>3, <1>4, <1>6 DEF TorrentInv, Follows, Agree
  <2> QED BY <1>2, <1>3, <1>6, <2>1 DEF TorrentInv, Nothing
<1> QED BY <1>7, <1>8, <1>9, <1>10, OneTorrent

LEMMA TimePassesInv ==
  ASSUME IInv, NEW t \in Torrents, TimePasses(t) PROVE IInv'
<1> DEFINE g == [goals[t] EXCEPT !.seeding_since = "due"]
<1>1. goals[t] \in CleanupGoal /\ TypeOK /\ TorrentInv(t)
  BY DEF TimePasses, IInv, TypeOK
<1>2. g \in CleanupGoal /\ g.satisfied = goals[t].satisfied
  BY <1>1 DEF CleanupGoal
<1>3. goals' = [goals EXCEPT ![t] = g]
  BY <1>1 DEF TimePasses, TypeOK
<1> HIDE DEF g
<1>4. UNCHANGED <<session, pending, cache, payloads, metaFile, resumeFile, unsaved, health, pc, todo, actions,
                  sawError, halfAdded, defaulted, switched, gone, dropped, written, commands, errors, crashes>>
  BY DEF TimePasses, engine, store, disk, flush, history, modes
<1>5. TypeOK'
  <2>1. goals' \in [Torrents -> CleanupGoal \cup {None}]
    BY <1>1, <1>2, <1>3 DEF TypeOK
  <2> QED BY <1>1, <1>4, <2>1 DEF TypeOK, Held
<1>6. QuietBetweenFlushes' /\ DownIsEmpty'
  BY <1>4 DEF IInv, QuietBetweenFlushes, DownIsEmpty
<1>7. OthersKept(t)
  BY <1>1, <1>3, <1>4 DEF OthersKept, TypeOK
<1>8. TorrentInv(t)'
  <2>1. goals'[t] = g /\ g # None /\ goals[t] # None
    BY <1>1, <1>2, <1>3, AbsentAssumption DEF TypeOK
  <2> QED BY <1>1, <1>2, <1>4, <2>1 DEF TorrentInv, Follows, Nothing
<1> QED BY <1>5, <1>6, <1>7, <1>8, OneTorrent

LEMMA HandlePassedInv ==
  ASSUME IInv, HandlePassed \/ CommandFails \/ PollFails \/ EndFlush PROVE IInv'
<1>1. /\ written' = {} /\ UNCHANGED <<session, pending, cache, payloads, goals, metaFile, resumeFile, unsaved,
                                      todo, actions, sawError, halfAdded, defaulted, switched, gone, dropped, crashes>>
  BY DEF HandlePassed, CommandFails, PollFails, EndFlush, engine, memory, store, disk, flush, history, modes
<1>2. pc' \in {"idle", "flush"} /\ todo = {} /\ actions = {}
  BY DEF HandlePassed, CommandFails, PollFails, EndFlush, Command, IInv, QuietBetweenFlushes
<1>3. health' \subseteq {"session", "resume_store"}
  <2>1. health \in SUBSET {"session", "resume_store"}
    BY DEF IInv, TypeOK
  <2>2. health' \in {health, health \ {"session"}, Mark(health, "session", FALSE)}
    BY DEF HandlePassed, CommandFails, PollFails, EndFlush
  <2> QED BY <2>1, <2>2, MarkOK
<1>4. errors' \in Nat /\ commands' \in Nat
  <2>1. errors' = errors \/ Spend(FALSE)
    BY DEF HandlePassed, CommandFails, PollFails, EndFlush
  <2>2. commands' \in {commands, commands + 1}
    BY DEF HandlePassed, CommandFails, PollFails, EndFlush, Command
  <2>3. errors \in Nat /\ commands \in Nat
    BY DEF IInv, TypeOK
  <2>4. errors' \in Nat
    BY <2>1, <2>3 DEF Spend
  <2> QED BY <2>2, <2>3, <2>4
<1>5. TypeOK'
  BY <1>1, <1>2, <1>3, <1>4 DEF IInv, TypeOK
<1>6. QuietBetweenFlushes' /\ DownIsEmpty'
  BY <1>1, <1>2 DEF QuietBetweenFlushes, DownIsEmpty
<1> QED BY <1>1, <1>5, <1>6, NothingChanges DEF memory, store, disk, flush, history, modes

-----------------------------------------------------------------------------
(* The flush.                                                              *)

LEMMA BeginFlushInv ==
  ASSUME IInv, BeginFlush PROVE IInv'
<1>1. /\ pc \in {"idle", "flush"} /\ pc' = "events" /\ todo' = Held /\ actions' = {t \in Torrents : Due(t)}
      /\ goals' = [t \in Torrents |-> IF Due(t) THEN [goals[t] EXCEPT !.satisfied = TRUE] ELSE goals[t]]
      /\ sawError' = FALSE /\ written' = {}
      /\ UNCHANGED <<session, pending, cache, payloads, metaFile, resumeFile, unsaved, health,
                     halfAdded, defaulted, switched, gone, dropped, commands, errors, crashes>>
  BY DEF BeginFlush, engine, store, disk, history, modes
<1>2. TypeOK /\ actions = {}
  BY <1>1 DEF IInv, QuietBetweenFlushes
<1>3. ASSUME NEW t \in Torrents
      PROVE  /\ goals'[t] \in CleanupGoal \cup {None}
             /\ goals'[t] = None <=> goals[t] = None
             /\ ~Due(t) => goals'[t] = goals[t]
  <2>1. CASE Due(t)
    <3>1. goals[t] \in CleanupGoal
      BY <1>2, <2>1 DEF Due, TypeOK
    <3>2. [goals[t] EXCEPT !.satisfied = TRUE] \in CleanupGoal
      BY <3>1 DEF CleanupGoal
    <3>3. goals'[t] = [goals[t] EXCEPT !.satisfied = TRUE]
      BY <1>1, <2>1
    <3> QED BY <2>1, <3>1, <3>2, <3>3, AbsentAssumption
  <2>2. CASE ~Due(t)
    BY <1>1, <1>2, <2>2 DEF TypeOK
  <2> QED BY <2>1, <2>2
<1>4. TypeOK'
  <2>1. goals' \in [Torrents -> CleanupGoal \cup {None}]
    BY <1>1, <1>3
  <2>2. todo' \subseteq Held' /\ actions' \subseteq Torrents
    BY <1>1 DEF Held
  <2> QED BY <1>1, <1>2, <2>1, <2>2 DEF TypeOK
<1>5. QuietBetweenFlushes' /\ DownIsEmpty'
  BY <1>1 DEF QuietBetweenFlushes, DownIsEmpty
<1>6. ASSUME NEW t \in Torrents PROVE TorrentInv(t)'
  <2>1. TorrentInv(t)
    BY DEF IInv
  <2>2. goals'[t] # None /\ goals'[t].satisfied => t \in actions' \cup dropped'
    BY <1>1, <1>2, <1>3, <2>1 DEF TorrentInv
  <2> QED BY <1>1, <1>3, <2>1, <2>2 DEF TorrentInv, Follows, Nothing
<1> QED BY <1>4, <1>5, <1>6 DEF IInv

LEMMA HandleEventsInv ==
  ASSUME IInv, NEW t \in Torrents, HandleEvents(t) PROVE IInv'
<1> DEFINE changed == session[t].state # session[t].reported
           finished == session[t].state = "seeding" /\ ~session[t].completed
           clocked == IF changed THEN Clock(goals[t], session[t].state) ELSE goals[t]
           progressed == IF session[t].fresh THEN Evaluate(clocked, session[t].ratio) ELSE clocked
           g == IF finished THEN Evaluate(Clock(progressed, "seeding"), FALSE) ELSE progressed
           s == [[[session[t] EXCEPT !.reported = session[t].state] EXCEPT !.fresh = FALSE]
                   EXCEPT !.completed = session[t].completed \/ finished]
<1>1. /\ pc = "events" /\ t \in todo /\ todo' = todo \ {t}
      /\ goals' = [goals EXCEPT ![t] = g]
      /\ actions' = IF g # None /\ g.satisfied /\ ~goals[t].satisfied THEN actions \cup {t} ELSE actions
      /\ UNCHANGED <<pending, pc, halfAdded, defaulted, switched, gone, dropped, commands, crashes>>
  BY DEF HandleEvents, history, modes
<1>2. TypeOK /\ TorrentInv(t) /\ session[t] \in SessionTorrent /\ goals[t] \in CleanupGoal \cup {None}
  BY <1>1, HeldIsTorrent DEF IInv, TypeOK
<1>3. session[t].state \in States /\ session[t].ratio \in BOOLEAN
  BY <1>2 DEF SessionTorrent
<1>4. g \in CleanupGoal \cup {None} /\ (g = None <=> goals[t] = None)
  <2>1. clocked \in CleanupGoal \cup {None} /\ (clocked = None <=> goals[t] = None)
    BY <1>2, <1>3, ClockOK
  <2>2. progressed \in CleanupGoal \cup {None} /\ (progressed = None <=> goals[t] = None)
    <3> HIDE DEF clocked
    <3> QED BY <1>3, <2>1, EvaluateOK
  <2> HIDE DEF progressed
  <2>3. /\ Clock(progressed, "seeding") \in CleanupGoal \cup {None}
        /\ Clock(progressed, "seeding") = None <=> goals[t] = None
    BY <2>2, ClockOK DEF States
  <2> QED BY <2>2, <2>3, EvaluateOK
<1>5. /\ s \in SessionTorrent /\ s.sequential = session[t].sequential /\ s.rate = session[t].rate
      /\ s.options = session[t].options /\ s.selection = session[t].selection
  <2>1. session[t].completed \/ finished \in BOOLEAN
    OBVIOUS
  <2> HIDE DEF finished
  <2> QED BY <1>2, <1>3 DEF SessionTorrent
<1>6. session' = [session EXCEPT ![t] = s]
  BY <1>2 DEF HandleEvents, TypeOK
<1> HIDE DEF s, g, changed, finished
<1>7. PICK error \in BOOLEAN, saved \in BOOLEAN, updated \in BOOLEAN, ok \in BOOLEAN :
        /\ Spend(~error /\ ok)
        /\ IF saved THEN StorePayload(t, ok) ELSE UNCHANGED <<payloads, resumeFile>>
        /\ IF updated THEN StoreMetadata(t, Stored(t), ok) ELSE UNCHANGED <<cache, metaFile, unsaved>>
        /\ sawError' = (sawError \/ error)
        /\ \E h \in {IF saved \/ updated THEN Mark(health, "resume_store", ok) ELSE health} :
             health' \in {h \ {"session"}, h \cup {"session"}, h}
        /\ written' = (IF updated THEN {<<"meta", t>>} ELSE {})
                        \cup (IF saved THEN {<<"resume", t>>} ELSE {})
  <2>1. StoreFromEvents(t, changed \/ session[t].fresh \/ finished)
    BY DEF HandleEvents, changed, finished
  <2> QED BY <2>1 DEF StoreFromEvents
<1>8. /\ payloads' \in {payloads, [payloads EXCEPT ![t] = "whole"]}
      /\ resumeFile' \in {resumeFile, [resumeFile EXCEPT ![t] = "whole"], [resumeFile EXCEPT ![t] = "torn"]}
  BY <1>7 DEF StorePayload
<1>9. Stored(t) \in Metadata /\ (cache[t] # None => Stored(t) = cache[t])
  BY <1>2, StoredIsMetadata DEF TypeOK
<1>10. /\ cache' \in {cache, [cache EXCEPT ![t] = Stored(t)]}
       /\ metaFile' \in {metaFile, [metaFile EXCEPT ![t] = Torn], [metaFile EXCEPT ![t] = Stored(t)]}
       /\ unsaved' \in {unsaved, unsaved \ {t}, unsaved \cup {t}}
       /\ t \notin unsaved' => \/ cache' = cache /\ metaFile' = metaFile /\ t \notin unsaved
                               \/ /\ cache' = [cache EXCEPT ![t] = Stored(t)]
                                  /\ metaFile' = [metaFile EXCEPT ![t] = Stored(t)]
  BY <1>7 DEF StoreMetadata
<1>11. \A u \in Torrents : cache[u] # None => cache'[u] = cache[u]
  BY <1>2, <1>9, <1>10 DEF TypeOK
<1>12. TypeOK'
  <2>1. errors' \in Nat
    BY <1>2, <1>7, SpendOK DEF TypeOK
  <2>2. health' \subseteq {"session", "resume_store"}
    <3>1. PICK h \in {IF saved \/ updated THEN Mark(health, "resume_store", ok) ELSE health} :
            health' \in {h \ {"session"}, h \cup {"session"}, h}
      BY <1>7
    <3>2. h \in SUBSET {"session", "resume_store"}
      BY <1>2, <1>7, <3>1, MarkOK DEF TypeOK
    <3> QED BY <3>1, <3>2
  <2>3. payloads' \in [Torrents -> Payload] /\ resumeFile' \in [Torrents -> Payload]
    BY <1>2, <1>8 DEF TypeOK, Payload
  <2>4. /\ cache' \in [Torrents -> Metadata \cup {None}] /\ unsaved' \subseteq Torrents
        /\ metaFile' \in [Torrents -> Metadata \cup {None, Torn}]
    BY <1>2, <1>9, <1>10 DEF TypeOK
  <2>5. session' \in [Torrents -> SessionTorrent \cup {None}] /\ Held' = Held
    BY <1>2, <1>5, <1>6, AbsentAssumption DEF TypeOK, Held
  <2>6. goals' \in [Torrents -> CleanupGoal \cup {None}] /\ actions' \subseteq Torrents /\ todo' \subseteq Held'
    BY <1>1, <1>2, <1>4, <2>5 DEF TypeOK
  <2>7. written' \subseteq {"meta", "resume"} \X Torrents /\ sawError' \in BOOLEAN
    BY <1>2, <1>7 DEF TypeOK
  <2> QED BY <1>1, <1>2, <2>1, <2>2, <2>3, <2>4, <2>5, <2>6, <2>7 DEF TypeOK
<1>13. QuietBetweenFlushes' /\ DownIsEmpty'
  BY <1>1 DEF QuietBetweenFlushes, DownIsEmpty
<1>14. OthersKept(t)
  <2>1. \A u \in Torrents \ {t} : /\ cache'[u] = cache[u] /\ payloads'[u] = payloads[u]
                                  /\ metaFile'[u] = metaFile[u] /\ resumeFile'[u] = resumeFile[u]
                                  /\ u \in unsaved' <=> u \in unsaved
    BY <1>2, <1>8, <1>10 DEF TypeOK
  <2>2. \A u \in Torrents \ {t} : /\ session'[u] = session[u] /\ goals'[u] = goals[u]
                                  /\ u \in actions \cup dropped => u \in actions' \cup dropped'
    BY <1>1, <1>2, <1>6 DEF TypeOK
  <2>3. \A u \in Torrents \ {t} : <<"meta", u>> \notin written' /\ <<"resume", u>> \notin written'
    BY <1>7
  <2> QED BY <1>1, <2>1, <2>2, <2>3 DEF OthersKept
<1>15. TorrentInv(t)'
  <2>1. session'[t] = s /\ session[t] # None /\ goals'[t] = g
    BY <1>1, <1>2, <1>6, AbsentAssumption DEF TypeOK
  <2>2. t \notin gone
    BY <1>2, <2>1 DEF TorrentInv, Nothing
  <2>3. t \notin halfAdded => Follows(t)'
    BY <1>1, <1>2, <1>4, <1>5, <1>11, <2>1 DEF TorrentInv, Follows, Agree
  <2>4. g # None /\ g.satisfied => t \in actions' \cup dropped'
    BY <1>1, <1>2, <1>4 DEF TorrentInv
  <2>5. t \notin unsaved' => metaFile'[t] = cache'[t]
    BY <1>2, <1>10 DEF TypeOK, TorrentInv
  <2> QED BY <1>1, <2>1, <2>2, <2>3, <2>4, <2>5 DEF TorrentInv
<1> QED BY <1>12, <1>13, <1>14, <1>15, OneTorrent

LEMMA HandleInvalidInv ==
  ASSUME IInv, NEW t \in Torrents, HandleInvalid(t) PROVE IInv'
<1>1. /\ pc = "events" /\ t \in todo /\ todo' = todo \ {t} /\ Spend(FALSE)
      /\ session' = [session EXCEPT ![t] = None] /\ pending' = [pending EXCEPT ![t] = "none"]
      /\ health' = Mark(health, "session", FALSE) /\ sawError' = TRUE /\ written' = {}
      /\ defaulted' = defaulted \ {t} /\ switched' = switched \ {t}
      /\ UNCHANGED <<cache, payloads, goals, metaFile, resumeFile, unsaved, pc, actions,
                     halfAdded, gone, dropped, commands, crashes>>
  BY DEF HandleInvalid, Forget, memory, store, disk
<1>2. TypeOK /\ TorrentInv(t)
  BY DEF IInv
<1>3. TypeOK'
  <2>1. errors' \in Nat /\ health' \subseteq {"session", "resume_store"}
    BY <1>1, <1>2, SpendOK, MarkOK DEF TypeOK
  <2>2. /\ session' \in [Torrents -> SessionTorrent \cup {None}] /\ pending' \in [Torrents -> Payload]
        /\ Held' = Held \ {t}
    BY <1>1, <1>2 DEF TypeOK, Held, Payload
  <2> QED BY <1>1, <1>2, <2>1, <2>2 DEF TypeOK
<1>4. QuietBetweenFlushes' /\ DownIsEmpty'
  BY <1>1 DEF QuietBetweenFlushes, DownIsEmpty
<1>5. OthersKept(t)
  BY <1>1, <1>2 DEF OthersKept, TypeOK
<1>6. TorrentInv(t)'
  BY <1>1, <1>2 DEF TypeOK, TorrentInv, Nothing
<1> QED BY <1>3, <1>4, <1>5, <1>6, OneTorrent

LEMMA ApplyActionFailsInv ==
  ASSUME IInv, ApplyActionFails PROVE IInv'
<1>1. /\ pc = "events" /\ todo = {} /\ Spend(FALSE) /\ dropped' = dropped \cup actions
      /\ actions' = {} /\ pc' = "idle" /\ health' = Mark(health, "session", FALSE) /\ written' = {}
      /\ UNCHANGED <<session, pending, cache, payloads, goals, metaFile, resumeFile, unsaved,
                     todo, sawError, halfAdded, defaulted, switched, gone, commands, crashes>>
  BY DEF ApplyActionFails, engine, memory, store, disk, modes
<1>2. TypeOK'
  <2>1. errors' \in Nat /\ health' \subseteq {"session", "resume_store"}
    BY <1>1, SpendOK, MarkOK DEF IInv, TypeOK
  <2> QED BY <1>1, <2>1 DEF IInv, TypeOK
<1>3. QuietBetweenFlushes' /\ DownIsEmpty'
  BY <1>1 DEF QuietBetweenFlushes, DownIsEmpty
<1>4. ASSUME NEW t \in Torrents PROVE TorrentInv(t)'
  <2>1. TorrentInv(t)
    BY DEF IInv
  <2> QED BY <1>1, <2>1 DEF TorrentInv, Follows, Nothing
<1> QED BY <1>2, <1>3, <1>4 DEF IInv

-----------------------------------------------------------------------------
(* The process.                                                            *)

LEMMA CrashInv ==
  ASSUME IInv, Crash PROVE IInv'
<1>1. /\ crashes' = crashes + 1 /\ pc' = "down" /\ session' = [t \in Torrents |-> None]
      /\ pending' = [t \in Torrents |-> "none"] /\ todo' = {} /\ actions' = {} /\ sawError' = FALSE
      /\ halfAdded' = {} /\ defaulted' = {} /\ switched' = {} /\ dropped' = {} /\ written' = {} /\ payloads' = [t \in Torrents |-> "none"]
      /\ goals' = [t \in Torrents |-> None] /\ health' = {}
      /\ UNCHANGED <<cache, gone, commands, errors>>
  BY DEF Crash
<1>2. \/ UNCHANGED <<metaFile, resumeFile, unsaved>>
      \/ \E t \in Torrents : /\ <<"meta", t>> \in written
                             /\ metaFile' = [metaFile EXCEPT ![t] = Torn]
                             /\ unsaved' = unsaved \cup {t}
                             /\ UNCHANGED resumeFile
      \/ \E t \in Torrents : /\ <<"resume", t>> \in written
                             /\ resumeFile' = [resumeFile EXCEPT ![t] = "torn"]
                             /\ UNCHANGED <<metaFile, unsaved>>
  BY DEF Crash, store, disk
<1>3. TypeOK
  BY DEF IInv
<1>4. TypeOK'
  <2>1. /\ metaFile' \in [Torrents -> Metadata \cup {None, Torn}] /\ resumeFile' \in [Torrents -> Payload]
        /\ unsaved' \subseteq Torrents
    BY <1>2, <1>3 DEF TypeOK, Payload
  <2>2. /\ session' \in [Torrents -> SessionTorrent \cup {None}] /\ goals' \in [Torrents -> CleanupGoal \cup {None}]
        /\ pending' \in [Torrents -> Payload] /\ payloads' \in [Torrents -> Payload]
    BY <1>1 DEF Payload
  <2>3. /\ cache' \in [Torrents -> Metadata \cup {None}] /\ gone' \subseteq Torrents
        /\ commands' \in Nat /\ errors' \in Nat /\ crashes' \in Nat
    BY <1>1, <1>3 DEF TypeOK
  <2> QED BY <1>1, <2>1, <2>2, <2>3 DEF TypeOK
<1>5. QuietBetweenFlushes' /\ DownIsEmpty'
  BY <1>1 DEF QuietBetweenFlushes, DownIsEmpty
<1>6. ASSUME NEW t \in Torrents PROVE TorrentInv(t)'
  <2>1. TorrentInv(t)
    BY DEF IInv
  <2>2. t \in gone => metaFile'[t] = None /\ resumeFile'[t] = "none"
    BY <1>2, <1>3, <2>1 DEF TypeOK, TorrentInv, Nothing
  <2>3. t \notin unsaved' => metaFile'[t] = cache'[t]
    BY <1>1, <1>2, <1>3, <2>1 DEF TypeOK, TorrentInv
  <2> QED BY <1>1, <2>1, <2>2, <2>3 DEF TorrentInv, Nothing
<1> QED BY <1>4, <1>5, <1>6 DEF IInv

LEMMA RestartInv ==
  ASSUME IInv, Restart PROVE IInv'
<1>1. /\ pc = "down" /\ pc' = "idle"
      /\ UNCHANGED <<session, pending, goals, metaFile, resumeFile, todo, actions, sawError,
                     halfAdded, defaulted, switched, gone, dropped, written, commands, errors, crashes>>
  BY DEF Restart, engine, disk, flush, history, modes
<1>2. TypeOK /\ todo = {} /\ actions = {} /\ \A t \in Torrents : session[t] = None
  BY <1>1 DEF IInv, QuietBetweenFlushes, DownIsEmpty
<1>3. \/ /\ cache' = [t \in Torrents |-> None] /\ payloads' = [t \in Torrents |-> "none"]
         /\ unsaved' = Torrents
      \/ /\ \A t \in Torrents : metaFile[t] # Torn
         /\ cache' = metaFile /\ payloads' = resumeFile /\ unsaved' = {}
  BY DEF Restart
<1>4. health' \subseteq {"session", "resume_store"}
  BY DEF Restart
<1>5. TypeOK'
  <2>1. cache' \in [Torrents -> Metadata \cup {None}] /\ payloads' \in [Torrents -> Payload] /\ unsaved' \subseteq Torrents
    BY <1>2, <1>3 DEF TypeOK, Payload
  <2> QED BY <1>1, <1>2, <1>4, <2>1 DEF TypeOK
<1>6. QuietBetweenFlushes' /\ DownIsEmpty'
  BY <1>1, <1>2 DEF QuietBetweenFlushes, DownIsEmpty
<1>7. ASSUME NEW t \in Torrents PROVE TorrentInv(t)'
  <2>1. TorrentInv(t)
    BY DEF IInv
  <2>2. t \in gone => cache'[t] = None /\ payloads'[t] = "none"
    BY <1>2, <1>3, <2>1 DEF TorrentInv, Nothing
  <2>3. t \notin unsaved' => metaFile'[t] = cache'[t]
    BY <1>1, <1>3
  <2> QED BY <1>1, <1>2, <2>1, <2>2, <2>3 DEF TorrentInv, Nothing
<1> QED BY <1>5, <1>6, <1>7 DEF IInv

-----------------------------------------------------------------------------
LEMMA StepInv == IInv /\ [Next]_vars => IInv'
<1> SUFFICES ASSUME IInv, [Next]_vars PROVE IInv'
  OBVIOUS
<1>1. ASSUME NEW t \in Torrents, CommandOn(t) PROVE IInv'
  BY <1>1, AddRejectedInv, AddUnreconciledInv, HandleAddInv, HandleRemoveInv, HandleSetSequentialInv,
     HandleUpdateLimitsInv, HandleUpdateSelectionInv, HandleUpdateOptionsInv, HandleUpdateTrackersInv,
     HandleRecheckInv, HandlePauseResumeInv DEF CommandOn
<1>2. ASSUME NEW t \in Torrents, FlushOn(t) PROVE IInv'
  BY <1>2, HandleEventsInv, HandleInvalidInv, ApplyActionInv DEF FlushOn
<1>3. ASSUME NEW t \in Torrents, SessionOn(t) PROVE IInv'
  BY <1>3, SessionStepInv, TimePassesInv DEF SessionOn
<1>4. CASE HandlePassed \/ CommandFails \/ PollFails \/ EndFlush
  BY <1>4, HandlePassedInv
<1>5. CASE BeginFlush
  BY <1>5, BeginFlushInv
<1>6. CASE ApplyActionFails
  BY <1>6, ApplyActionFailsInv
<1>7. CASE Crash
  BY <1>7, CrashInv
<1>8. CASE Restart
  BY <1>8, RestartInv
<1>9. CASE UNCHANGED vars
  <2>1. UNCHANGED <<session, pending, cache, payloads, goals, metaFile, resumeFile, unsaved, health, pc, todo,
                    actions, sawError, halfAdded, defaulted, switched, gone, dropped, written, commands, errors, crashes>>
    BY <1>9 DEF vars, engine, memory, store, disk, flush, history, modes
  <2>2. TypeOK' /\ QuietBetweenFlushes' /\ DownIsEmpty'
    BY <2>1 DEF IInv, TypeOK, Held, QuietBetweenFlushes, DownIsEmpty
  <2>3. \A t \in Torrents : TorrentInv(t)'
    BY <2>1 DEF IInv, TorrentInv, Follows, Nothing
  <2> QED BY <2>2, <2>3 DEF IInv
<1> QED BY <1>1, <1>2, <1>3, <1>4, <1>5, <1>6, <1>7, <1>8, <1>9 DEF Next

LEMMA Invariance == Spec => []IInv
  BY InitInv, StepInv, PTL DEF Spec

\* Every variable keeps its type.
THEOREM TypeCorrect == Spec => []TypeOK
  BY Invariance, IInvSafe, PTL

\* What the session does with a torrent is what the worker has stored for it,
\* unless its add failed half way; but it has the profile's sequential mode if
\* it was added without one, and other options once it was paused, resumed or
\* added again (handle_add, reconcile_from_resume and the update handlers, over
\* any sequence of commands, faults and restarts).
THEOREM SessionFollowsStore == Spec => []EngineFollows
  BY Invariance, IInvSafe, PTL

\* A torrent that was removed with its files leaves nothing behind, and no
\* event, crash or restart brings anything back (handle_remove).
THEOREM RemovalIsComplete == Spec => []RemovedLeavesNothing
  BY Invariance, IInvSafe, PTL

\* A satisfied cleanup goal is one that this flush will still act upon, or
\* whose removal failed (evaluate_cleanup_goal, enqueue_time_based_goals).
THEOREM SatisfiedGoalIsActedUpon == Spec => []SatisfiedIsRemoved
  BY Invariance, IInvSafe, PTL

-----------------------------------------------------------------------------
(* The worker implements TorrentSettings.                                  *)

\* The commands that change one setting are updates.
LEMMA SetAndStoreRefines ==
  ASSUME IInv, NEW t \in Torrents, NEW f \in {"sequential", "rate", "selection", "options", "trackers"}, NEW v,
         NEW done, SetAndStore(t, f, v, done), [Stored(t) EXCEPT ![f] = v] \in Metadata, Held' = Held
  PROVE  Promise!Next
<1> DEFINE m == [Stored(t) EXCEPT ![f] = v]
<1>1. Stored(t) \in Metadata /\ (cache[t] # None => Stored(t) = cache[t])
  BY StoredIsMetadata DEF IInv, TypeOK
<1>2. \A g \in DOMAIN m \ {f} : m[g] = Stored(t)[g]
  BY <1>1 DEF Metadata
<1>3. f \in DOMAIN m
  BY <1>1 DEF Metadata
<1>4. cache' = [cache EXCEPT ![t] = m]
  BY DEF SetAndStore, StoreMetadata
<1> HIDE DEF m
<1>5. cache[t] # None => \E x \in DOMAIN m : \A g \in DOMAIN m \ {x} : m[g] = cache[t][g]
  BY <1>1, <1>2, <1>3
<1>6. cache'[t] = m /\ m \in Metadata
  BY <1>4 DEF IInv, TypeOK, m
<1>7. Promise!Update(t)
  BY <1>4, <1>5, <1>6 DEF Promise!Update, Promise!Replace
<1> QED BY <1>7 DEF Promise!Next

LEMMA UpdatesRefine ==
  ASSUME IInv, NEW t \in Torrents,
         \/ HandleSetSequential(t) \/ HandleUpdateLimits(t) \/ HandleUpdateSelection(t)
         \/ HandleUpdateOptions(t) \/ HandleUpdateTrackers(t)
  PROVE  Promise!Next
<1>1. TypeOK /\ Stored(t) \in Metadata
  BY StoredIsMetadata DEF IInv, TypeOK
<1>2. ASSUME NEW f, NEW v, SessionSet(t, f, v), \A s \in SessionTorrent : [s EXCEPT ![f] = v] \in SessionTorrent
      PROVE  Held' = Held
  <2>1. CASE t \in Held
    <3>1. session' = [session EXCEPT ![t] = [session[t] EXCEPT ![f] = v]]
      BY <1>2, <2>1 DEF SessionSet
    <3>2. [session[t] EXCEPT ![f] = v] \in SessionTorrent
      BY <1>1, <1>2, <2>1, HeldIsTorrent
    <3> QED BY <1>1, <2>1, <3>1, <3>2, AbsentAssumption DEF Held, TypeOK
  <2>2. CASE t \notin Held
    BY <1>2, <2>2 DEF SessionSet, Held
  <2> QED BY <2>1, <2>2
<1>3. CASE HandleSetSequential(t)
  <2>1. PICK b \in BOOLEAN : SetAndStore(t, "sequential", b, TRUE) /\ SessionSet(t, "sequential", b)
    BY <1>3 DEF HandleSetSequential
  <2>2. Held' = Held
    BY <1>2, <2>1, SetSessionField
  <2> QED BY <1>1, <2>1, <2>2, SetField, SetAndStoreRefines
<1>4. CASE HandleUpdateLimits(t)
  <2>1. PICK r \in Rates \cup {None} : SetAndStore(t, "rate", r, TRUE) /\ SessionSet(t, "rate", r)
    BY <1>4 DEF HandleUpdateLimits
  <2>2. Held' = Held
    BY <1>2, <2>1, SetSessionField
  <2> QED BY <1>1, <2>1, <2>2, SetField, SetAndStoreRefines
<1>5. CASE HandleUpdateSelection(t)
  <2>1. PICK x \in Selections : SetAndStore(t, "selection", x, TRUE) /\ SessionSet(t, "selection", x)
    BY <1>5 DEF HandleUpdateSelection
  <2>2. Held' = Held
    BY <1>2, <2>1, SetSessionField
  <2> QED BY <1>1, <2>1, <2>2, SetField, SetAndStoreRefines
<1>6. CASE HandleUpdateOptions(t)
  <2>1. PICK o \in Options \cup {None}, new \in Options \cup {None}, done \in BOOLEAN :
          SetAndStore(t, "options", o, done) /\ SessionSet(t, "options", new)
    BY <1>6 DEF HandleUpdateOptions, SessionToggle
  <2>2. Held' = Held
    BY <1>2, <2>1, SetSessionField
  <2> QED BY <1>1, <2>1, <2>2, SetField, SetAndStoreRefines
<1>7. CASE HandleUpdateTrackers(t)
  <2>1. PICK new \in SUBSET Trackers, replace \in BOOLEAN :
          SetAndStore(t, "trackers", IF replace THEN new ELSE Stored(t).trackers \cup new, TRUE)
    BY <1>7 DEF HandleUpdateTrackers
  <2>2. (IF replace THEN new ELSE Stored(t).trackers \cup new) \in SUBSET Trackers
    BY <1>1 DEF Metadata
  <2>3. Held' = Held
    BY <1>7 DEF HandleUpdateTrackers, Held
  <2> QED BY <1>1, <2>1, <2>2, <2>3, SetField, SetAndStoreRefines
<1> QED BY <1>3, <1>4, <1>5, <1>6, <1>7

\* backfill_request_from_resume completes the request from what is stored.
LEMMA BackfillCompletes ==
  ASSUME NEW q \in Request, NEW old \in Metadata, NEW m, m = Backfill(q, old)
  PROVE  /\ m.selection = old.selection /\ m.sequential = old.sequential
         /\ Promise!Completed(old, m, "rate", None) /\ Promise!Completed(old, m, "options", None)
         /\ Promise!Completed(old, m, "trackers", {}) /\ Promise!Completed(old, m, "cleanup", {})
<1>1. old # None
  BY NoneAssumption
<1>2. /\ m.selection = old.selection /\ m.sequential = old.sequential
      /\ m.rate = IF q.rate = None THEN old.rate ELSE q.rate
      /\ m.options = IF q.options = None THEN old.options ELSE q.options
      /\ m.trackers = IF q.trackers = {} THEN old.trackers ELSE q.trackers
      /\ m.cleanup = IF q.cleanup = {} THEN old.cleanup ELSE q.cleanup
  BY <1>1 DEF Backfill
<1> QED BY <1>2 DEF Promise!Completed

LEMMA AddsRefine ==
  ASSUME IInv, NEW t \in Torrents, HandleAdd(t) \/ AddUnreconciled(t)
  PROVE  Promise!Next
<1>1. TypeOK /\ Requests \subseteq Request /\ cache[t] \in Metadata \cup {None}
  BY RequestsAssumption DEF IInv, TypeOK
<1>2. ASSUME NEW s \in SessionTorrent, session' = [session EXCEPT ![t] = s] PROVE Held' = Held \cup {t}
  BY <1>1, <1>2, AbsentAssumption DEF TypeOK, Held
<1>3. CASE AddUnreconciled(t)
  <2>1. PICK q \in Requests, taken \in BOOLEAN :
          session' = [session EXCEPT ![t] = SessionAdd(t, [q EXCEPT !.options = Backfill(q, cache[t]).options], taken)]
    BY <1>3 DEF AddUnreconciled
  <2>2. q \in Request /\ Backfill(q, cache[t]) \in Metadata
    BY <1>1, BackfillIsMetadata
  <2>3. [q EXCEPT !.options = Backfill(q, cache[t]).options] \in Request
    BY <2>2 DEF Metadata, Request
  <2>4. Held' = Held \cup {t}
    BY <1>1, <1>2, <2>1, <2>3, SessionAddOK
  <2>5. cache' = cache
    BY <1>3 DEF AddUnreconciled, memory
  <2>6. Promise!AddFails(t)
    BY <2>4, <2>5 DEF Promise!AddFails
  <2> QED BY <2>6 DEF Promise!Next
<1>4. CASE HandleAdd(t)
  <2>1. PICK q \in Requests, stored \in BOOLEAN, limited \in BOOLEAN, taken \in BOOLEAN :
          /\ session' = [session EXCEPT ![t] = AddedTorrent(t, q, Backfill(q, cache[t]), limited, taken)]
          /\ StoreMetadata(t, Backfill(q, cache[t]), stored)
    BY <1>4 DEF HandleAdd
  <2>2. PICK m : m = Backfill(q, cache[t])
    OBVIOUS
  <2>3. q \in Request /\ m \in Metadata
    BY <1>1, <2>2, BackfillIsMetadata
  <2>4. cache' = [cache EXCEPT ![t] = m]
    BY <2>1, <2>2 DEF StoreMetadata
  <2>5. Held' = Held \cup {t}
    BY <1>1, <1>2, <2>1, <2>2, <2>3, AddedFollows
  <2>6. cache[t] # None =>
          /\ m.selection = cache[t].selection /\ m.sequential = cache[t].sequential
          /\ Promise!Completed(cache[t], m, "rate", None) /\ Promise!Completed(cache[t], m, "options", None)
          /\ Promise!Completed(cache[t], m, "trackers", {}) /\ Promise!Completed(cache[t], m, "cleanup", {})
    BY <1>1, <2>2, <2>3, BackfillCompletes
  <2>7. cache'[t] = m
    BY <1>1, <2>4 DEF TypeOK
  <2>8. Promise!Replace(t)
    BY <2>3, <2>4, <2>7 DEF Promise!Replace
  <2>9. Promise!Add(t)
    BY <2>5, <2>6, <2>7, <2>8 DEF Promise!Add
  <2> QED BY <2>9 DEF Promise!Next
<1> QED BY <1>3, <1>4

LEMMA RemovalRefines ==
  ASSUME IInv, NEW t \in Torrents, NEW ok \in BOOLEAN, Remove(t, ok)
  PROVE  Promise!Next
<1>1. cache' = [cache EXCEPT ![t] = None] /\ Held' = Held \ {t}
  BY DEF Remove, Held, IInv, TypeOK
<1>2. Promise!Remove(t)
  BY <1>1 DEF Promise!Remove
<1> QED BY <1>2 DEF Promise!Next

\* Events store again what is stored already.
LEMMA EventsRefine ==
  ASSUME IInv, NEW t \in Torrents, HandleEvents(t)
  PROVE  Promise!Next
<1> DEFINE finished == session[t].state = "seeding" /\ ~session[t].completed
           s == [[[session[t] EXCEPT !.reported = session[t].state] EXCEPT !.fresh = FALSE]
                   EXCEPT !.completed = session[t].completed \/ finished]
<1>1. TypeOK /\ session[t] \in SessionTorrent
  BY HeldIsTorrent DEF HandleEvents, IInv, TypeOK
<1>2. session' = [session EXCEPT ![t] = s]
  BY <1>1 DEF HandleEvents, TypeOK
<1>3. s \in SessionTorrent
  <2>1. session[t].state \in States
    BY <1>1 DEF SessionTorrent
  <2> HIDE DEF finished
  <2> QED BY <1>1, <2>1 DEF SessionTorrent
<1> HIDE DEF s
<1>4. Held' = Held
  BY <1>1, <1>2, <1>3, AbsentAssumption DEF TypeOK, Held
<1>5. Stored(t) \in Metadata /\ (cache[t] # None => Stored(t) = cache[t])
  BY <1>1, StoredIsMetadata DEF TypeOK
<1>6. cache' \in {cache, [cache EXCEPT ![t] = Stored(t)]}
  <2>1. PICK working : StoreFromEvents(t, working)
    BY DEF HandleEvents
  <2> QED BY <2>1 DEF StoreFromEvents, StoreMetadata
<1>7. CASE cache' = cache
  BY <1>4, <1>7 DEF Promise!Next
<1>8. CASE cache' = [cache EXCEPT ![t] = Stored(t)]
  <2>1. PICK m : m = Stored(t)
    OBVIOUS
  <2>2. cache[t] # None => \E f \in DOMAIN m : \A g \in DOMAIN m \ {f} : m[g] = cache[t][g]
    <3>1. "rate" \in DOMAIN m
      BY <1>5, <2>1 DEF Metadata
    <3> QED BY <1>5, <2>1, <3>1
  <2>3. cache'[t] = m /\ cache' = [cache EXCEPT ![t] = m] /\ m \in Metadata
    BY <1>1, <1>5, <1>8, <2>1 DEF TypeOK
  <2>4. Promise!Update(t)
    BY <1>4, <2>2, <2>3 DEF Promise!Update, Promise!Replace
  <2> QED BY <2>4 DEF Promise!Next
<1> QED BY <1>6, <1>7, <1>8

\* A restart reads back the cache if the disk holds all of it.
LEMMA RestartRefines ==
  ASSUME IInv, Restart
  PROVE  Promise!Next
<1>1. pc = "down" /\ session' = session /\ TypeOK
  BY DEF Restart, engine, IInv
<1>2. Held = {} /\ Held' = Held
  BY <1>1 DEF IInv, DownIsEmpty, Held
<1>3. unsaved = {} => cache' = cache
  <2>1. SUFFICES ASSUME unsaved = {} PROVE cache' = cache
    OBVIOUS
  <2>2. \A t \in Torrents : metaFile[t] = cache[t]
    BY <2>1 DEF IInv, TorrentInv
  <2>3. metaFile = cache
    BY <1>1, <2>2 DEF TypeOK
  <2>4. \A t \in Torrents : metaFile[t] # Torn
    <3>1. \A t \in Torrents : cache[t] \in Metadata \cup {None}
      BY <1>1 DEF TypeOK
    <3> QED BY <2>2, <3>1, NoneAssumption, TornAssumption
  <2> QED BY <2>3, <2>4 DEF Restart
<1>4. cache' \in [Torrents -> Metadata \cup {None}]
  BY <1>1 DEF Restart, TypeOK
<1>5. \A t \in Torrents \ unsaved : cache'[t] \in {cache[t], None}
  <2>1. \A t \in Torrents \ unsaved : metaFile[t] = cache[t]
    BY DEF IInv, TorrentInv
  <2> QED BY <2>1 DEF Restart
<1>6. Promise!Restart
  BY <1>2, <1>3, <1>4, <1>5 DEF Promise!Restart
<1> QED BY <1>6 DEF Promise!Next

LEMMA StepRefines ==
  IInv /\ [Next]_vars => [Promise!Next]_(Promise!vars)
<1> SUFFICES ASSUME IInv, [Next]_vars PROVE Promise!Next \/ UNCHANGED Promise!vars
  OBVIOUS
<1>1. ASSUME cache' = cache, Held' = Held PROVE Promise!Next
  BY <1>1 DEF Promise!Next
<1>2. ASSUME UNCHANGED <<session, cache>> PROVE Promise!Next
  BY <1>1, <1>2 DEF Held
<1>3. ASSUME NEW t \in Torrents, CommandOn(t) PROVE Promise!Next
  <2>1. CASE AddRejected(t)
    BY <1>2, <2>1 DEF AddRejected, memory
  <2>2. CASE AddUnreconciled(t) \/ HandleAdd(t)
    BY <2>2, AddsRefine
  <2>3. CASE HandleRemove(t)
    BY <2>3, RemovalRefines DEF HandleRemove
  <2>4. CASE HandleRecheck(t)
    <3>1. cache' = cache
      BY <2>4 DEF HandleRecheck, memory
    <3>2. Held' = Held
      <4>1. TypeOK
        BY DEF IInv
      <4>2. t \in Held => session[t] \in SessionTorrent
        BY <4>1, HeldIsTorrent
      <4> DEFINE s == [[session[t] EXCEPT !.state = "queued"] EXCEPT !.fresh = TRUE]
      <4>3. t \in Held => s \in SessionTorrent
        BY <4>2 DEF SessionTorrent, States
      <4>4. session' = IF t \in Held THEN [session EXCEPT ![t] = s] ELSE session
        BY <2>4, <4>1 DEF HandleRecheck, TypeOK
      <4> HIDE DEF s
      <4> QED BY <4>1, <4>3, <4>4, AbsentAssumption DEF TypeOK, Held
    <3> QED BY <1>1, <3>1, <3>2
  <2>5. CASE HandlePauseResume(t)
    <3>1. cache' = cache /\ t \in Held /\ TypeOK
      BY <2>5 DEF HandlePauseResume, memory, IInv
    <3>2. PICK new \in Options \cup {None} : session' = [session EXCEPT ![t] = [session[t] EXCEPT !["options"] = new]]
      BY <2>5, <3>1 DEF HandlePauseResume, SessionToggle, SessionSet
    <3>3. [session[t] EXCEPT !["options"] = new] \in SessionTorrent
      BY <3>1, HeldIsTorrent, SetSessionField
    <3>4. Held' = Held
      BY <3>1, <3>2, <3>3, AbsentAssumption DEF TypeOK, Held
    <3> QED BY <1>1, <3>1, <3>4
  <2> QED BY <1>3, <2>1, <2>2, <2>3, <2>4, <2>5, UpdatesRefine DEF CommandOn
<1>4. ASSUME NEW t \in Torrents, FlushOn(t) PROVE Promise!Next
  <2>1. CASE HandleInvalid(t)
    <3>1. cache' = cache /\ Held' = Held \ {t}
      BY <2>1 DEF HandleInvalid, memory, Held, IInv, TypeOK
    <3>2. Promise!Drop(t)
      BY <3>1 DEF Promise!Drop
    <3> QED BY <3>2 DEF Promise!Next
  <2>2. CASE ApplyAction(t)
    BY <2>2, RemovalRefines DEF ApplyAction
  <2> QED BY <1>4, <2>1, <2>2, EventsRefine DEF FlushOn
<1>5. ASSUME NEW t \in Torrents, SessionOn(t) PROVE Promise!Next
  <2>1. CASE TimePasses(t)
    BY <1>2, <2>1 DEF TimePasses, engine
  <2>2. CASE Downloads(t) \/ Finishes(t) \/ ReachesRatio(t)
    <3>1. SessionKept(t) /\ cache' = cache
      BY <2>2, SessionStepKept DEF Downloads, Finishes, ReachesRatio, memory
    <3>2. Held' = Held
      BY <3>1, AbsentAssumption DEF SessionKept, Held, IInv, TypeOK
    <3> QED BY <1>1, <3>1, <3>2
  <2> QED BY <1>5, <2>1, <2>2 DEF SessionOn
<1>6. CASE HandlePassed \/ CommandFails \/ BeginFlush \/ PollFails \/ ApplyActionFails \/ EndFlush
  BY <1>2, <1>6 DEF HandlePassed, CommandFails, BeginFlush, PollFails, ApplyActionFails, EndFlush, engine, memory
<1>7. CASE Crash
  <2>1. cache' = cache /\ Held' = {}
    BY <1>7 DEF Crash, Held
  <2>2. Promise!Stop
    BY <2>1 DEF Promise!Stop
  <2> QED BY <2>2 DEF Promise!Next
<1>8. CASE Restart
  BY <1>8, RestartRefines
<1>9. CASE UNCHANGED vars
  BY <1>2, <1>9 DEF vars, engine, memory
<1> QED BY <1>3, <1>4, <1>5, <1>6, <1>7, <1>8, <1>9 DEF Next

\* The worker implements TorrentSettings: what the cache holds of a torrent is
\* what the commands asked for, a command changes what it names and nothing
\* else, and a restart brings back all of it if the disk held all of it.
THEOREM WorkerImplementsTorrentSettings == Spec => SettingsAreKept
<1>1. Init => Promise!Init
  BY DEF Init, Promise!Init, Held
<1> QED BY <1>1, Invariance, StepRefines, PTL DEF Spec, SettingsAreKept, Promise!Spec
=============================================================================
