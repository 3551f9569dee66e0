------------------------------- MODULE Worker -------------------------------
(***************************************************************************)
(* The engine worker: the task that runs torrent commands against the      *)
(* libtorrent session, keeps the settings of every torrent in memory and   *)
(* in two files per torrent (FastResumeStore), polls the session for       *)
(* events and removes torrents whose cleanup policy is met.                *)
(*                                                                         *)
(* A command runs to its end and is followed by a flush; a flush also      *)
(* starts every 200 ms.  Any call of the session and any write may fail.   *)
(* Of a torrent's settings the ones kept here stand for the groups the     *)
(* code treats differently: `selection` (with the priorities) and          *)
(* `sequential`, which a stored value overrides; `rate`, `options` (the    *)
(* connection limit, the queue position, PEX, super-seeding and automatic  *)
(* management) and `trackers` (with the web seeds), which a request        *)
(* overrides; `cleanup`.                                                   *)
(* What the worker publishes is in Orchestrator; the global limits are in  *)
(* SpeedLimits.                                                            *)
(***************************************************************************)
EXTENDS Naturals

CONSTANTS
    Torrents,
    None,           \* an absent torrent, setting, file, goal
    Torn,           \* a metadata file that was not written to its end
    Selections,     \* file selection rules
    Default,        \* FileSelectionRules::default
    Rates, Options, Trackers,
    Requests,       \* the options torrents are added with
    SequentialDefault,  \* sequential_default of the engine profile
    MaxCommands,    \* bound: commands
    MaxErrors,      \* bound: failing session calls and writes, with the crashes before them
    MaxCrashes      \* bound: crashes of the process

Goals == {"ratio", "time"}
Metadata == [selection : Selections, sequential : BOOLEAN, rate : Rates \cup {None},
             options : Options \cup {None}, trackers : SUBSET Trackers, cleanup : SUBSET Goals]

\* AddTorrentOptions: the sequential mode may be left out, too.
Request == [selection : Selections, sequential : BOOLEAN \cup {None}, rate : Rates \cup {None},
            options : Options \cup {None}, trackers : SUBSET Trackers, cleanup : SUBSET Goals]

ASSUME DefaultAssumption == Default \in Selections
ASSUME NoneAssumption == None \notin Rates \cup Options \cup Metadata \cup BOOLEAN \cup {Torn}
ASSUME TornAssumption == Torn \notin Metadata
ASSUME RequestsAssumption == Requests \subseteq Request
ASSUME SequentialDefaultAssumption == SequentialDefault \in BOOLEAN

VARIABLES
    session,        \* the session: what it does with each torrent it holds
    pending,        \* the session: payloads load_fastresume left for an add
    cache,          \* resume_cache
    payloads,       \* fastresume_payloads
    goals,          \* cleanup_goals
    metaFile,       \* the store: <id>.meta.json
    resumeFile,     \* the store: <id>.fastresume
    health,         \* the degraded components
    pc,             \* what the worker is at
    todo,           \* torrents whose events the flush has yet to handle
    actions,        \* torrents the flush has yet to remove
    sawError,       \* whether the flush met an error event
    halfAdded,      \* history: torrents in the session whose add failed in the middle
    defaulted,      \* history: torrents with the profile's sequential mode
    switched,       \* history: torrents with options the session has from no entry
    gone,           \* history: torrents removed and not mentioned since
    unsaved,        \* history: torrents whose file is not what was last stored
    dropped,        \* history: torrents whose removal failed in a flush
    written,        \* history: the files the last step wrote
    commands, errors, crashes

engine == <<session, pending>>
memory == <<cache, payloads, goals>>
disk == <<metaFile, resumeFile>>
flush == <<todo, actions, sawError>>
modes == <<defaulted, switched>>
history == <<halfAdded, modes, gone, dropped>>
store == <<disk, unsaved>>
vars == <<engine, memory, store, health, pc, flush, history, written, commands, errors, crashes>>

-----------------------------------------------------------------------------
(* Values.                                                                 *)

Payload == {"none", "whole", "torn"}
States == {"queued", "downloading", "seeding"}
\* What the session does with a torrent, and what its snapshot last reported:
\* `fresh` says that the byte counts changed since, `ratio` that the torrent
\* has uploaded what its policy asks for.
SessionTorrent ==
    [selection : Selections, sequential : BOOLEAN, rate : Rates \cup {None},
     options : Options \cup {None}, resumed : BOOLEAN, state : States, ratio : BOOLEAN,
     reported : States, fresh : BOOLEAN, completed : BOOLEAN]
CleanupGoal == [limits : (SUBSET Goals) \ {{}}, seeding_since : {"no", "recent", "due"},
                satisfied : BOOLEAN]

ASSUME AbsentAssumption == None \notin SessionTorrent \cup CleanupGoal

DefaultMetadata == [selection |-> Default, sequential |-> FALSE, rate |-> None,
                    options |-> None, trackers |-> {}, cleanup |-> {}]

Stored(t) == IF cache[t] = None THEN DefaultMetadata ELSE cache[t]
Held == {t \in Torrents : session[t] # None}

\* request.options.sequential.unwrap_or(false).
Wanted(q) == IF q.sequential = None THEN FALSE ELSE q.sequential

\* The settings an add ends with: backfill_request_from_resume completes the
\* request, reconcile_from_resume then prefers what is stored.
Backfill(q, stored) ==
    IF stored = None THEN [q EXCEPT !.sequential = Wanted(q)]
    ELSE [selection |-> stored.selection, sequential |-> stored.sequential,
          rate |-> IF q.rate = None THEN stored.rate ELSE q.rate,
          options |-> IF q.options = None THEN stored.options ELSE q.options,
          trackers |-> IF q.trackers = {} THEN stored.trackers ELSE q.trackers,
          cleanup |-> IF q.cleanup = {} THEN stored.cleanup ELSE q.cleanup]

-----------------------------------------------------------------------------
(* The session, as the worker uses it.                                     *)

\* The mode a torrent gets in add_torrent, and whether it is the profile's
\* default that reconcile_from_resume leaves in place.
AddedMode(q) == IF q.sequential = None THEN SequentialDefault ELSE q.sequential
ModeIsDefault(q, m) == q.sequential = None /\ m.sequential = Wanted(q)

\* add_torrent: a held torrent is the same one again, with a new snapshot.  It
\* takes the mode, the connection limit and the queue position; whether that
\* is all of the options asked for is `taken`.
SessionAdd(t, q, taken) ==
    IF t \in Held
    THEN [session[t] EXCEPT !.sequential = AddedMode(q),
                            !.options = IF q.options = None \/ ~taken THEN @ ELSE q.options,
                            !.reported = "queued", !.fresh = TRUE, !.completed = FALSE]
    ELSE [selection |-> Default, sequential |-> AddedMode(q), rate |-> None,
          options |-> q.options, resumed |-> pending[t] = "whole",
          state |-> "downloading", ratio |-> FALSE,
          reported |-> "queued", fresh |-> TRUE, completed |-> FALSE]

\* A call that sets something of one torrent: fine for an unknown one too.
SessionSet(t, field, value) ==
    session' = IF t \in Held THEN [session EXCEPT ![t][field] = value] ELSE session

\* pause_torrent and resume_torrent also switch the automatic management of
\* the torrent, which has the options `old`, and nothing records it.
SessionToggle(t, old) ==
    \E new \in Options \cup {None} :
        /\ SessionSet(t, "options", new)
        /\ switched' = IF t \in Held /\ new # old THEN switched \cup {t} ELSE switched
        /\ UNCHANGED defaulted

Forget(t) == defaulted' = defaulted \ {t} /\ switched' = switched \ {t}

\* The torrent downloads, finishes, and uploads until its ratio is reached.
Downloads(t) ==
    /\ t \in Held /\ session[t].state # "seeding" /\ ~session[t].fresh
    /\ session' = [session EXCEPT ![t].state = "downloading", ![t].fresh = TRUE]
    /\ UNCHANGED <<pending, memory, store, health, pc, flush, history, written, commands, errors, crashes>>

Finishes(t) ==
    /\ t \in Held /\ session[t].state # "seeding"
    /\ session' = [session EXCEPT ![t].state = "seeding", ![t].fresh = TRUE]
    /\ UNCHANGED <<pending, memory, store, health, pc, flush, history, written, commands, errors, crashes>>

ReachesRatio(t) ==
    /\ t \in Held /\ ~session[t].ratio
    /\ goals[t] # None /\ "ratio" \in goals[t].limits
    /\ session' = [session EXCEPT ![t].ratio = TRUE]
    /\ UNCHANGED <<pending, memory, store, health, pc, flush, history, written, commands, errors, crashes>>

\* The time limit of a policy passes while the torrent seeds.
TimePasses(t) ==
    /\ goals[t] # None /\ goals[t].seeding_since = "recent" /\ "time" \in goals[t].limits
    /\ goals' = [goals EXCEPT ![t].seeding_since = "due"]
    /\ UNCHANGED <<engine, cache, payloads, store, health, pc, flush, history, written, commands, errors, crashes>>

-----------------------------------------------------------------------------
(* The store and the health set.                                           *)

Mark(h, component, ok) == IF ok THEN h \ {component} ELSE h \cup {component}
Spend(ok) == (ok \/ errors + crashes < MaxErrors) /\ errors' = IF ok THEN errors ELSE errors + 1

\* Mutant: the cache is updated, the file is not.
StoreMetadataInMemory(t, m, ok) ==
    /\ cache' = [cache EXCEPT ![t] = m]
    /\ metaFile' = IF ok /\ metaFile[t] = None THEN [metaFile EXCEPT ![t] = m] ELSE metaFile
    /\ unsaved' = IF ok THEN unsaved \ {t} ELSE unsaved \cup {t}

\* update_metadata: the cache is updated whether or not the file could be
\* written; a failing write may have truncated the file.
StoreMetadata(t, m, ok) ==
    /\ cache' = [cache EXCEPT ![t] = m]
    /\ metaFile' \in IF ok THEN {[metaFile EXCEPT ![t] = m]}
                    ELSE {metaFile, [metaFile EXCEPT ![t] = Torn]}
    /\ unsaved' = IF ok THEN unsaved \ {t} ELSE unsaved \cup {t}

StorePayload(t, ok) ==
    /\ payloads' = [payloads EXCEPT ![t] = "whole"]
    /\ resumeFile' \in IF ok THEN {[resumeFile EXCEPT ![t] = "whole"]}
                      ELSE {resumeFile, [resumeFile EXCEPT ![t] = "torn"]}

-----------------------------------------------------------------------------
(* Commands.  One that succeeds is followed by a flush; one that fails is   *)
(* not, and degrades "session".                                            *)

Command == pc = "idle" /\ commands < MaxCommands /\ commands' = commands + 1

\* The session refuses the torrent; a pending payload is used up.
AddRejected(t) ==
    /\ Command
    /\ Spend(pending[t] = "torn")
    /\ pending' = [pending EXCEPT ![t] = "none"]
    /\ health' = Mark(health, "session", FALSE)
    /\ written' = {}
    /\ UNCHANGED <<session, memory, store, pc, flush, history, crashes>>

\* reconcile_from_resume fails: the torrent is in the session with the
\* request's settings, it is not announced and nothing is stored.
AddUnreconciled(t) ==
    /\ Command /\ Spend(FALSE)
    /\ pending[t] # "torn"
    /\ \E q \in Requests, taken \in BOOLEAN :
          /\ cache[t] # None
          /\ cache[t].selection # q.selection \/ cache[t].sequential # Wanted(q)
          /\ session' = [session EXCEPT ![t] = SessionAdd(t, [q EXCEPT !.options = Backfill(q, cache[t]).options], taken)]
    /\ pending' = [pending EXCEPT ![t] = payloads[t]]
    /\ health' = Mark(health, "session", FALSE)
    /\ halfAdded' = halfAdded \cup {t} /\ gone' = gone \ {t}
    /\ written' = {}
    /\ UNCHANGED <<memory, store, pc, flush, modes, dropped, crashes>>

\* register_cleanup_goal.
RegisterCleanupGoal(t, limits) ==
    goals' = [goals EXCEPT ![t] = IF limits = {} THEN None
                                  ELSE [limits |-> limits, seeding_since |-> "no", satisfied |-> FALSE]]

\* What the session has of the torrent after add_torrent, reconcile_from_resume
\* and, if it is not refused, update_limits.
AddedTorrent(t, q, m, limited, taken) ==
    LET added == SessionAdd(t, [q EXCEPT !.options = m.options], taken)
        reconciled == [added EXCEPT
            !.selection = IF cache[t] # None /\ m.selection # q.selection THEN m.selection ELSE @,
            !.sequential = IF m.sequential # Wanted(q) THEN m.sequential ELSE @]
    IN  IF m.rate # None /\ limited THEN [reconciled EXCEPT !.rate = m.rate] ELSE reconciled

\* No entry records a mode that is the profile's default, nor that a held
\* torrent did not take the options now stored for it.
AddedModes(t, q, m, taken) ==
    /\ defaulted' = IF ModeIsDefault(q, m) THEN defaulted \cup {t} ELSE defaulted \ {t}
    /\ switched' = IF t \notin Held THEN switched \ {t} ELSE IF taken THEN switched ELSE switched \cup {t}

\* The rest of handle_add: the settings are stored, then the rate limit is
\* applied, and only then is the cleanup goal registered.
HandleAdd(t) ==
    /\ Command /\ pending[t] # "torn"
    /\ \E q \in Requests, stored, limited, taken \in BOOLEAN :
          LET m == Backfill(q, cache[t])
          IN  /\ m.rate = None => limited
              /\ taken \/ (t \in Held /\ m.options \notin {None, session[t].options})
              /\ Spend(stored /\ limited)
              /\ session' = [session EXCEPT ![t] = AddedTorrent(t, q, m, limited, taken)]
              /\ AddedModes(t, q, m, taken)
              /\ StoreMetadata(t, m, stored)
              /\ health' = Mark(IF limited THEN health ELSE health \cup {"session"}, "resume_store", stored)
              /\ IF limited THEN RegisterCleanupGoal(t, m.cleanup) ELSE UNCHANGED goals
              /\ halfAdded' = IF ~limited THEN halfAdded \cup {t}
                               ELSE IF t \in Held THEN halfAdded ELSE halfAdded \ {t}
              /\ pc' = IF limited THEN "flush" ELSE "idle"
    /\ pending' = [pending EXCEPT ![t] = payloads[t]]
    /\ gone' = gone \ {t}
    /\ written' = {<<"meta", t>>}
    /\ UNCHANGED <<payloads, resumeFile, flush, dropped, crashes>>

\* A command that sets one thing in the session and stores it; `done` is
\* whether what it does after that succeeds.
SetAndStore(t, field, value, done) ==
    /\ Command
    /\ \E ok \in BOOLEAN :
          /\ Spend(ok /\ done)
          /\ StoreMetadata(t, [Stored(t) EXCEPT ![field] = value], ok)
          /\ health' = Mark(IF done THEN health ELSE health \cup {"session"}, "resume_store", ok)
    /\ pc' = IF done THEN "flush" ELSE "idle"
    /\ gone' = gone \ {t}
    /\ written' = {<<"meta", t>>}
    /\ UNCHANGED <<pending, payloads, goals, resumeFile, flush, halfAdded, dropped, crashes>>

HandleSetSequential(t) ==
    /\ \E b \in BOOLEAN : SetAndStore(t, "sequential", b, TRUE) /\ SessionSet(t, "sequential", b)
    /\ defaulted' = defaulted \ {t} /\ UNCHANGED switched

\* Mutant: lifting the limit is not stored.
HandleUpdateLimitsRaised(t) ==
    /\ \E r \in Rates \cup {None} :
          SetAndStore(t, "rate", IF r = None THEN Stored(t).rate ELSE r, TRUE) /\ SessionSet(t, "rate", r)
    /\ UNCHANGED modes

HandleUpdateLimits(t) ==
    /\ \E r \in Rates \cup {None} : SetAndStore(t, "rate", r, TRUE) /\ SessionSet(t, "rate", r)
    /\ UNCHANGED modes

HandleUpdateSelection(t) ==
    /\ \E s \in Selections : SetAndStore(t, "selection", s, TRUE) /\ SessionSet(t, "selection", s)
    /\ UNCHANGED modes

\* The options may say that the torrent is to pause or to resume, and that
\* may fail once they are stored.
HandleUpdateOptions(t) ==
    \E o \in Options \cup {None} :
        \/ SetAndStore(t, "options", o, TRUE) /\ SessionToggle(t, o)
        \/ /\ \E done \in BOOLEAN : SetAndStore(t, "options", o, done)
           /\ SessionSet(t, "options", o)
           /\ UNCHANGED modes

\* The trackers replace the stored ones or are added to them.
HandleUpdateTrackers(t) ==
    /\ \E new \in SUBSET Trackers, replace \in BOOLEAN :
          SetAndStore(t, "trackers", IF replace THEN new ELSE Stored(t).trackers \cup new, TRUE)
    /\ UNCHANGED <<session, modes>>

HandlePauseResume(t) ==
    /\ Command /\ t \in Held /\ SessionToggle(t, session[t].options)
    /\ pc' = "flush" /\ written' = {}
    /\ UNCHANGED <<pending, memory, store, health, flush, halfAdded, gone, dropped, errors, crashes>>

\* The session checks the files again.
HandleRecheck(t) ==
    /\ Command
    /\ session' = IF t \in Held THEN [session EXCEPT ![t].state = "queued", ![t].fresh = TRUE] ELSE session
    /\ pc' = "flush" /\ written' = {}
    /\ UNCHANGED <<pending, memory, store, health, flush, history, errors, crashes>>

\* A command that only calls the session (reannounce, move, a piece deadline,
\* a query) ...
HandlePassed ==
    /\ Command
    /\ pc' = "flush" /\ written' = {}
    /\ UNCHANGED <<engine, memory, store, health, flush, history, errors, crashes>>

\* ... and any command whose session call fails.
CommandFails ==
    /\ Command /\ Spend(FALSE)
    /\ health' = Mark(health, "session", FALSE)
    /\ written' = {}
    /\ UNCHANGED <<engine, memory, store, pc, flush, history, crashes>>

\* Mutant: the fastresume file is forgotten.
RemoveMetadata(t, ok) ==
    /\ session' = [session EXCEPT ![t] = None]
    /\ cache' = [cache EXCEPT ![t] = None]
    /\ payloads' = [payloads EXCEPT ![t] = "none"]
    /\ goals' = [goals EXCEPT ![t] = None]
    /\ metaFile' = IF ok THEN [metaFile EXCEPT ![t] = None] ELSE metaFile
    /\ health' = Mark(health, "resume_store", ok)
    /\ gone' = IF ok THEN gone \cup {t} ELSE gone \ {t}
    /\ unsaved' = IF ok THEN unsaved \ {t} ELSE unsaved \cup {t}
    /\ dropped' = dropped \ {t} /\ halfAdded' = halfAdded \ {t} /\ Forget(t)
    /\ written' = {}
    /\ UNCHANGED <<pending, resumeFile>>

\* handle_remove, once the session has let the torrent go (it keeps a pending
\* payload).  If a file cannot be removed the metadata file may stay, or both.
Remove(t, ok) ==
    /\ session' = [session EXCEPT ![t] = None]
    /\ cache' = [cache EXCEPT ![t] = None]
    /\ payloads' = [payloads EXCEPT ![t] = "none"]
    /\ goals' = [goals EXCEPT ![t] = None]
    /\ \/ /\ resumeFile' = [resumeFile EXCEPT ![t] = "none"]
          /\ metaFile' = IF ok THEN [metaFile EXCEPT ![t] = None] ELSE metaFile
       \/ ~ok /\ UNCHANGED disk
    /\ health' = Mark(health, "resume_store", ok)
    /\ gone' = IF ok THEN gone \cup {t} ELSE gone \ {t}
    /\ unsaved' = IF ok THEN unsaved \ {t} ELSE unsaved \cup {t}
    /\ dropped' = dropped \ {t} /\ halfAdded' = halfAdded \ {t} /\ Forget(t)
    /\ written' = {}
    /\ UNCHANGED pending

HandleRemove(t) ==
    /\ Command
    /\ \E ok \in BOOLEAN : Spend(ok) /\ Remove(t, ok)
    /\ pc' = "flush"
    /\ UNCHANGED <<flush, crashes>>

-----------------------------------------------------------------------------
(* flush_session_events.                                                   *)

Due(t) == goals[t] # None /\ ~goals[t].satisfied
          /\ "time" \in goals[t].limits /\ goals[t].seeding_since = "due"

\* Mutant: only torrents the session still holds are queued for removal.
BeginFlushHeld ==
    /\ pc \in {"idle", "flush"}
    /\ pc' = "events"
    /\ todo' = Held
    /\ actions' = {t \in Held : Due(t)}
    /\ goals' = [t \in Torrents |-> IF Due(t) THEN [goals[t] EXCEPT !.satisfied = TRUE] ELSE goals[t]]
    /\ sawError' = FALSE
    /\ written' = {}
    /\ UNCHANGED <<engine, cache, payloads, store, health, history, commands, errors, crashes>>

\* Mutant: the clock is left to the events of the torrent.
BeginFlushUntimed ==
    /\ pc \in {"idle", "flush"}
    /\ pc' = "events"
    /\ todo' = Held /\ actions' = {} /\ sawError' = FALSE
    /\ written' = {}
    /\ UNCHANGED <<engine, memory, store, health, history, commands, errors, crashes>>

\* The events are taken, and enqueue_time_based_goals looks at the clock.
BeginFlush ==
    /\ pc \in {"idle", "flush"}
    /\ pc' = "events"
    /\ todo' = Held
    /\ actions' = {t \in Torrents : Due(t)}
    /\ goals' = [t \in Torrents |-> IF Due(t) THEN [goals[t] EXCEPT !.satisfied = TRUE] ELSE goals[t]]
    /\ sawError' = FALSE
    /\ written' = {}
    /\ UNCHANGED <<engine, cache, payloads, store, health, history, commands, errors, crashes>>

PollFails ==
    /\ pc \in {"idle", "flush"} /\ Spend(FALSE)
    /\ pc' = "idle"
    /\ health' = Mark(health, "session", FALSE)
    /\ written' = {}
    /\ UNCHANGED <<engine, memory, store, flush, history, commands, crashes>>

\* update_cleanup_state.
Clock(goal, state) ==
    IF goal = None THEN goal
    ELSE [goal EXCEPT !.seeding_since = IF state # "seeding" THEN "no" ELSE IF @ = "no" THEN "recent" ELSE @]

\* evaluate_cleanup_goal.
Evaluate(goal, ratio) ==
    IF goal = None \/ goal.satisfied \/ goal.seeding_since = "no" THEN goal
    ELSE [goal EXCEPT !.satisfied = ("ratio" \in goal.limits /\ ratio)
                                     \/ ("time" \in goal.limits /\ goal.seeding_since = "due")]

\* What the handlers of events store, and what becomes of health: progress,
\* another state and completion (`working`) show that the session works.
StoreFromEvents(t, working) ==
    \E error, saved, updated, ok \in BOOLEAN :
        /\ Spend(~error /\ ok)
        /\ saved \/ updated \/ ok
        /\ IF saved THEN StorePayload(t, ok) ELSE UNCHANGED <<payloads, resumeFile>>
        /\ IF updated THEN StoreMetadata(t, Stored(t), ok) ELSE UNCHANGED <<cache, metaFile, unsaved>>
        /\ sawError' = (sawError \/ error)
        /\ health' = LET h == IF saved \/ updated THEN Mark(health, "resume_store", ok) ELSE health
                     IN  IF working THEN h \ {"session"} ELSE IF error THEN h \cup {"session"} ELSE h
        /\ written' = (IF updated THEN {<<"meta", t>>} ELSE {})
                        \cup (IF saved THEN {<<"resume", t>>} ELSE {})

\* What the poll found about one torrent, in the session's order: an error
\* or resume data; new metadata; another state; progress, if the byte counts
\* changed; completion.
HandleEvents(t) ==
    LET s == session[t]
        changed == s.state # s.reported
        finished == s.state = "seeding" /\ ~s.completed
        clocked == IF changed THEN Clock(goals[t], s.state) ELSE goals[t]
        progressed == IF s.fresh THEN Evaluate(clocked, s.ratio) ELSE clocked
        goal == IF finished THEN Evaluate(Clock(progressed, "seeding"), FALSE) ELSE progressed
    IN  /\ pc = "events" /\ t \in todo /\ todo' = todo \ {t}
        /\ session' = [session EXCEPT ![t].reported = s.state, ![t].fresh = FALSE,
                                      ![t].completed = s.completed \/ finished]
        /\ goals' = [goals EXCEPT ![t] = goal]
        /\ actions' = IF goal # None /\ goal.satisfied /\ ~goals[t].satisfied
                      THEN actions \cup {t} ELSE actions
        /\ StoreFromEvents(t, changed \/ s.fresh \/ finished)
        /\ UNCHANGED <<pending, pc, history, commands, crashes>>

\* Mutant: the other events of the torrent are handled too.
HandleInvalidKept(t) ==
    /\ pc = "events" /\ t \in todo
    /\ Spend(FALSE)
    /\ session' = [session EXCEPT ![t] = None]
    /\ pending' = [pending EXCEPT ![t] = "none"]
    /\ health' = Mark(health, "session", FALSE) /\ sawError' = TRUE
    /\ written' = {}
    /\ UNCHANGED <<memory, store, pc, todo, actions, history, commands, crashes>>

\* A handle became invalid: the session reports it and forgets the torrent.
HandleInvalid(t) ==
    /\ pc = "events" /\ t \in todo /\ todo' = todo \ {t}
    /\ Spend(FALSE)
    /\ session' = [session EXCEPT ![t] = None]
    /\ pending' = [pending EXCEPT ![t] = "none"]
    /\ health' = Mark(health, "session", FALSE) /\ sawError' = TRUE
    /\ written' = {} /\ Forget(t)
    /\ UNCHANGED <<memory, store, pc, actions, halfAdded, gone, dropped, commands, crashes>>

\* apply_actions: the removals come after all events ...
ApplyAction(t) ==
    /\ pc = "events" /\ todo = {} /\ t \in actions
    /\ actions' = actions \ {t}
    /\ \E ok \in BOOLEAN : Spend(ok) /\ Remove(t, ok)
    /\ UNCHANGED <<pc, todo, sawError, commands, crashes>>

\* ... and the first that fails drops the others.
ApplyActionFails ==
    /\ pc = "events" /\ todo = {} /\ actions # {}
    /\ Spend(FALSE)
    /\ dropped' = dropped \cup actions
    /\ actions' = {} /\ pc' = "idle"
    /\ health' = Mark(health, "session", FALSE)
    /\ written' = {}
    /\ UNCHANGED <<engine, memory, store, todo, sawError, halfAdded, modes, gone, commands, crashes>>

\* Mutant: the end of a flush leaves the health as it is.
EndFlushSilently ==
    /\ pc = "events" /\ todo = {} /\ actions = {}
    /\ pc' = "idle"
    /\ written' = {}
    /\ UNCHANGED <<engine, memory, store, health, flush, history, commands, errors, crashes>>

EndFlush ==
    /\ pc = "events" /\ todo = {} /\ actions = {}
    /\ pc' = "idle"
    /\ health' = IF sawError THEN health ELSE health \ {"session"}
    /\ written' = {}
    /\ UNCHANGED <<engine, memory, store, flush, history, commands, errors, crashes>>

-----------------------------------------------------------------------------
(* The process.                                                            *)

\* The process ends, perhaps while the last step was writing a file.  (The
\* cache is lost with the rest; the variable keeps what it held until Restart
\* replaces it, and nothing reads it in between.)
Crash ==
    /\ pc # "down" /\ crashes < MaxCrashes /\ crashes' = crashes + 1
    /\ pc' = "down"
    /\ session' = [t \in Torrents |-> None]
    /\ pending' = [t \in Torrents |-> "none"]
    /\ \/ UNCHANGED store
       \/ \E t \in Torrents : /\ <<"meta", t>> \in written
                             /\ metaFile' = [metaFile EXCEPT ![t] = Torn]
                             /\ unsaved' = unsaved \cup {t}
                             /\ UNCHANGED resumeFile
       \/ \E t \in Torrents : /\ <<"resume", t>> \in written
                             /\ resumeFile' = [resumeFile EXCEPT ![t] = "torn"]
                             /\ UNCHANGED <<metaFile, unsaved>>
    /\ todo' = {} /\ actions' = {} /\ sawError' = FALSE
    /\ halfAdded' = {} /\ defaulted' = {} /\ switched' = {} /\ dropped' = {} /\ written' = {}
    /\ payloads' = [t \in Torrents |-> "none"]
    /\ goals' = [t \in Torrents |-> None]
    /\ health' = {}
    /\ UNCHANGED <<cache, gone, commands, errors>>

\* Worker::new: load_all gives all or, at the first file that does not parse,
\* nothing.  A torrent without a payload degrades "resume_store" too.
Restart ==
    /\ pc = "down" /\ pc' = "idle"
    /\ IF \E t \in Torrents : metaFile[t] = Torn
       THEN /\ cache' = [t \in Torrents |-> None]
            /\ payloads' = [t \in Torrents |-> "none"]
            /\ health' = {"resume_store"}
            /\ unsaved' = Torrents
       ELSE /\ cache' = metaFile
            /\ payloads' = resumeFile
            /\ health' = IF \E t \in Torrents : metaFile[t] # None /\ resumeFile[t] = "none"
                         THEN {"resume_store"} ELSE {}
            /\ unsaved' = {}
    /\ UNCHANGED <<engine, goals, disk, flush, history, written, commands, errors, crashes>>

Init ==
    /\ session = [t \in Torrents |-> None]
    /\ pending = [t \in Torrents |-> "none"]
    /\ cache = [t \in Torrents |-> None]
    /\ payloads = [t \in Torrents |-> "none"]
    /\ goals = [t \in Torrents |-> None]
    /\ metaFile = [t \in Torrents |-> None]
    /\ resumeFile = [t \in Torrents |-> "none"]
    /\ health = {} /\ pc = "idle"
    /\ todo = {} /\ actions = {} /\ sawError = FALSE
    /\ halfAdded = {} /\ defaulted = {} /\ switched = {} /\ gone = {} /\ unsaved = {} /\ dropped = {} /\ written = {}
    /\ commands = 0 /\ errors = 0 /\ crashes = 0

CommandOn(t) ==
    \/ AddRejected(t) \/ AddUnreconciled(t) \/ HandleAdd(t) \/ HandleRemove(t)
    \/ HandleSetSequential(t) \/ HandleUpdateLimits(t) \/ HandleUpdateSelection(t)
    \/ HandleUpdateOptions(t) \/ HandleUpdateTrackers(t) \/ HandleRecheck(t)
    \/ HandlePauseResume(t)
FlushOn(t) == HandleEvents(t) \/ HandleInvalid(t) \/ ApplyAction(t)
SessionOn(t) == Downloads(t) \/ Finishes(t) \/ ReachesRatio(t) \/ TimePasses(t)

Next ==
    \/ \E t \in Torrents : CommandOn(t) \/ FlushOn(t) \/ SessionOn(t)
    \/ HandlePassed \/ CommandFails
    \/ BeginFlush \/ PollFails \/ ApplyActionFails \/ EndFlush
    \/ Crash \/ Restart

Spec == Init /\ [][Next]_vars

\* The worker is one task: the poll timer of 200 ms starts flushes, a flush
\* runs to its end, and a process that is down is started again.
WorkerStep ==
    \/ Restart \/ BeginFlush \/ EndFlush
    \/ \E t \in Torrents : HandleEvents(t) \/ ApplyAction(t)

FairSpec == Spec /\ WF_vars(WorkerStep)

-----------------------------------------------------------------------------
(* Properties.                                                             *)

\* Types; what a flush has yet to handle is in the session.
TypeOK ==
    /\ session \in [Torrents -> SessionTorrent \cup {None}]
    /\ pending \in [Torrents -> Payload] /\ payloads \in [Torrents -> Payload]
    /\ resumeFile \in [Torrents -> Payload]
    /\ cache \in [Torrents -> Metadata \cup {None}]
    /\ metaFile \in [Torrents -> Metadata \cup {None, Torn}]
    /\ goals \in [Torrents -> CleanupGoal \cup {None}]
    /\ health \subseteq {"session", "resume_store"}
    /\ pc \in {"idle", "flush", "events", "down"}
    /\ todo \subseteq Held /\ actions \subseteq Torrents /\ sawError \in BOOLEAN
    /\ halfAdded \subseteq Torrents /\ gone \subseteq Torrents /\ unsaved \subseteq Torrents /\ dropped \subseteq Torrents
    /\ defaulted \subseteq Torrents /\ switched \subseteq Torrents
    /\ written \subseteq {"meta", "resume"} \X Torrents
    /\ commands \in Nat /\ errors \in Nat /\ crashes \in Nat

\* What the session does with a torrent is what the worker has stored for it,
\* whatever was added, updated, removed or lost before, and a torrent with a
\* cleanup policy has a goal (handle_add, reconcile_from_resume, the update
\* handlers).  The exceptions: an add that failed half way; a torrent added
\* without a sequential mode, which has the profile's (the entry says FALSE)
\* until a mode is set; and, until the torrent leaves the session, the options
\* of one that was paused or resumed, which switches its automatic
\* management, or that was added again with options a held torrent ignores.
EngineFollows ==
    \A t \in Held \ halfAdded :
        /\ cache[t] # None
        /\ session[t].sequential = IF t \in defaulted THEN SequentialDefault ELSE cache[t].sequential
        /\ session[t].rate = cache[t].rate
        /\ t \in switched \/ session[t].options = cache[t].options
        /\ session[t].selection \in {Default, cache[t].selection}
        /\ (goals[t] # None) <=> (cache[t].cleanup # {})

\* Once a torrent and its files are removed, nothing of it is left in memory
\* or on disk until a command names it again: no event of a later flush and
\* no restart brings it back (handle_remove, FastResumeStore::remove).
RemovedLeavesNothing ==
    \A t \in gone : /\ session[t] = None /\ cache[t] = None /\ goals[t] = None
                    /\ payloads[t] = "none" /\ metaFile[t] = None /\ resumeFile[t] = "none"

\* A goal that is marked satisfied is one whose removal is still to come in
\* this flush, or failed: evaluate_cleanup_goal and enqueue_time_based_goals
\* look at no satisfied goal again, so apply_actions is its only chance.
SatisfiedIsRemoved ==
    \A t \in Torrents : goals[t] # None /\ goals[t].satisfied => t \in actions \cup dropped

\* A torrent that has seeded as long as its policy allows is removed, unless
\* it stops seeding, its removal fails or the process ends.
DueIsRemoved ==
    \A t \in Torrents : Due(t) ~> (goals[t] = None \/ t \in dropped \/ goals[t].seeding_since # "due")

\* "session" does not stay degraded once its errors have ceased.
SessionRecovers == "session" \in health ~> "session" \notin health

Promise == INSTANCE TorrentSettings WITH settings <- cache, active <- Held, atRisk <- unsaved

\* The worker implements TorrentSettings: what the cache holds is what the
\* commands asked for, and a restart brings back all of it.
SettingsAreKept == Promise!Spec

\* A torrent that enters the session while the worker has a whole fastresume
\* payload of it starts from that payload (apply_fastresume_if_present).
StartsFromPayload ==
    [][\A t \in Torrents : session[t] = None /\ session'[t] # None /\ payloads[t] = "whole"
                             => session'[t].resumed]_vars
=============================================================================
