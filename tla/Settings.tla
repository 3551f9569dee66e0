------------------------------ MODULE Settings ------------------------------
(* From a committed settings change to the engine: the settings tables and  *)
(* their revision, LISTEN with polling as a fallback (loader.rs), the task   *)
(* that applies snapshots (bootstrap.rs), the orchestrator that turns an     *)
(* engine profile into commands and writes blocklist metadata back          *)
(* (orchestrator.rs); SpeedLimits has what the worker then does with them.   *)
(* The tables survive a restart, so Init is any state they may be left in.   *)
EXTENDS Naturals, Sequences, FiniteSetsExt

CONSTANTS
    None,
    EngineRows,     \* what clients set in the engine profile, but for ...
    Urls,           \* ... its blocklist_url
    PolicyRows,     \* the fs_policy row, without ...
    PolicyLists,    \* ... cleanup_keep, cleanup_drop and allow_paths
    DefaultEngine, DefaultRow, DefaultLists,   \* of a factory reset
    MaxChanges,     \* bound on changes by clients
    MaxRefreshes,   \* bound on writes of blocklist metadata: later ones fail
    MaxFetches,     \* bound on downloads of the blocklist: later ones fail
    MaxErrors       \* bound on failing queries and lost connections

ASSUME DefaultsAssumption ==
    DefaultEngine \in EngineRows /\ DefaultRow \in PolicyRows /\ DefaultLists \in PolicyLists
ASSUME UrlsAssumption == None \notin Urls
ASSUME BoundsAssumption == MaxFetches \in Nat

VARIABLES
    profile, meta,  \* the engine_profile row: what clients set, and ip_filter's metadata
    policy,         \* the fs_policy row, and its rows of fs_policy_list_values
    revision,       \* settings_revision
    listening,      \* ConfigWatcher.stream
    notices,        \* revisions notified and not yet received
    pc, purpose,    \* where the watch task is, and what its snapshot is for
    change,         \* the revision of the notification being handled, or 0
    snap,           \* the snapshot being read; torn: a change was committed meanwhile (ghost)
    last_revision,
    engine_profile, fs_policy,      \* the orchestrator's copies
    found,          \* the metadata refresh_ip_filter has come to, or None
    cache,          \* ip_filter_cache: None, or a list's address and metadata
    config_degraded,
    sent,           \* the profile last sent to the engine
    missed,         \* the watcher could not learn of a change (ghost)
    failed,         \* the last snapshot was not applied (ghost)
    changes, refreshes, fetches, errors

stored == <<profile, meta, policy, revision>>
reader == <<change, snap, last_revision>>
watcher == <<listening, notices, pc, purpose, change, snap, last_revision>>
applied == <<engine_profile, fs_policy, found, cache, config_degraded, sent>>
counters == <<changes, refreshes, fetches, errors>>
vars == <<stored, watcher, applied, missed, failed, counters>>

Profiles == [row : EngineRows, url : Urls \cup {None}]
Policies == [row : PolicyRows, lists : PolicyLists]
DefaultProfile == [row |-> DefaultEngine, url |-> None]
DefaultPolicy == [row |-> DefaultRow, lists |-> DefaultLists]

\* etag, last_updated_at and last_error.  A time is the number of the
\* download it belongs to, and whether it is finer than a microsecond.
Stamp == [at : 0 .. MaxFetches, fine : BOOLEAN]
Meta == [etag : BOOLEAN, stamp : Stamp \cup {None}, error : BOOLEAN]
NoMeta == [etag |-> FALSE, stamp |-> None, error |-> FALSE]

\* TIMESTAMPTZ keeps microseconds.
Persisted(m) == IF m.stamp = None THEN m ELSE [m EXCEPT !.stamp.fine = FALSE]

Cached == [url : Urls, meta : Meta]

\* No snapshot is being read.
NoSnap == [profile |-> DefaultProfile, meta |-> NoMeta, policy |-> DefaultPolicy, torn |-> FALSE]

Spend(ok) == (~ok => errors < MaxErrors) /\ errors' = IF ok THEN errors ELSE errors + 1

\* While a snapshot that is to be current from here on is read, and until the
\* listener is attached, a change goes unnoticed; so does one that a poll cannot
\* tell from what it has seen, because a reset set the revision back.
Blind ==
    /\ snap' = [snap EXCEPT !.torn = @ \/ (purpose # "change" /\ pc \in {"policy", "revision"})]
    /\ missed' = (missed \/ pc = "subscribe" \/ (~listening /\ revision' <= last_revision))

\* Notifications given up for a poll that does not see what they announced: of
\* a reset, or of a change that came between the statements of a snapshot.
Unpolled == notices # <<>> /\ revision <= last_revision

-----------------------------------------------------------------------------
\* The tables.  revaer_bump_revision: a transaction has one revision, and one
\* notification for each table it changed.
Notify(rev, tables) ==
    notices' = IF listening THEN notices \o [i \in 1 .. tables |-> rev] ELSE notices

\* The tables with a trigger that a change writes to.
Tables(p, f) ==
    (IF p # profile THEN 1 ELSE 0) + (IF f.row # policy.row THEN 1 ELSE 0)

\* The lists of a policy are in a table without one.  A change of those alone
\* neither advances the revision nor notifies: a snapshot that has yet to read
\* the policy has it, and otherwise the next one, whatever that is taken for.
Unannounced ==
    /\ UNCHANGED <<revision, notices>>
    /\ snap' = [snap EXCEPT !.torn = @ \/ pc = "revision"]
    /\ missed' = TRUE

\* A client's apply_changeset; one that changes nothing is rolled back.
ApplyChangeset ==
    /\ changes < MaxChanges /\ changes' = changes + 1
    /\ \E p \in Profiles, f \in Policies :
        /\ <<p, f>> # <<profile, policy>>
        /\ profile' = p /\ policy' = f
        /\ \/ /\ Tables(p, f) > 0
              /\ revision' = revision + 1 /\ Notify(revision + 1, Tables(p, f)) /\ Blind
           \/ Tables(p, f) = 0 /\ Unannounced
    /\ UNCHANGED <<meta, listening, pc, purpose, change, last_revision, applied, failed, refreshes, fetches, errors>>

\* factory_reset: every row is inserted anew, under revision one.
FactoryReset ==
    /\ changes < MaxChanges /\ changes' = changes + 1
    /\ profile' = DefaultProfile /\ meta' = NoMeta /\ policy' = DefaultPolicy
    /\ revision' = 1
    /\ Notify(1, 2)
    /\ Blind
    /\ UNCHANGED <<listening, pc, purpose, change, last_revision, applied, failed, refreshes, fetches, errors>>

-----------------------------------------------------------------------------
\* ConfigService::snapshot, one statement after another.
ReadEngine ==
    /\ pc = "engine"
    /\ snap' = [snap EXCEPT !.profile = profile, !.meta = meta, !.torn = FALSE]
    /\ pc' = "policy"
    /\ UNCHANGED <<stored, listening, notices, purpose, change, last_revision, applied, missed, failed, counters>>

ReadPolicy ==
    /\ pc = "policy"
    /\ snap' = [snap EXCEPT !.policy = policy]
    /\ pc' = "revision"
    /\ UNCHANGED <<stored, listening, notices, purpose, change, last_revision, applied, missed, failed, counters>>

\* ... and what watch_settings, listen_once and poll_once do with it.
ReadRevision ==
    /\ pc = "revision"
    /\ \/ /\ purpose = "start" /\ last_revision' = revision /\ pc' = "subscribe"
       \/ /\ purpose = "change" /\ last_revision' = Max({change, revision}) /\ pc' = "apply"
       \/ /\ purpose = "poll" /\ revision > last_revision
          /\ last_revision' = revision /\ pc' = "subscribe"
       \/ /\ purpose = "poll" /\ revision <= last_revision
          /\ pc' = "sleep" /\ UNCHANGED last_revision
    /\ missed' = IF pc' = "sleep" THEN missed ELSE snap.torn
    /\ snap' = IF pc' = "sleep" THEN NoSnap ELSE snap
    /\ change' = 0
    /\ UNCHANGED <<stored, listening, notices, purpose, applied, failed, counters>>

\* A query fails: next returns the error, and the task ends.
SnapshotFails ==
    /\ pc \in {"engine", "policy", "revision"} /\ purpose # "start"
    /\ Spend(FALSE)
    /\ pc' = "ended" /\ config_degraded' = TRUE /\ failed' = TRUE
    /\ UNCHANGED <<stored, listening, notices, purpose, reader, engine_profile, fs_policy,
                   found, cache, sent, missed, changes, refreshes, fetches>>

\* subscribe_changes, from watch_settings and from try_reattach_listen.
Subscribe ==
    /\ pc = "subscribe"
    /\ \E ok \in BOOLEAN : Spend(ok) /\ listening' = ok
    /\ notices' = <<>> /\ pc' = "apply"
    /\ UNCHANGED <<stored, purpose, reader, applied, missed, failed, changes, refreshes, fetches>>

\* Mutant: the stream is kept, and the notification is lost.
HandleNotificationKept ==
    /\ pc = "listen" /\ notices # <<>>
    /\ \E ok \in BOOLEAN :
        /\ Spend(ok)
        /\ notices' = Tail(notices)
        /\ change' = IF ok THEN Head(notices) ELSE change
        /\ purpose' = IF ok THEN "change" ELSE purpose
        /\ pc' = IF ok THEN "engine" ELSE "listen"
    /\ UNCHANGED <<stored, listening, snap, last_revision, applied, missed, failed, changes, refreshes, fetches>>

\* A notification is received and its row fetched: a snapshot follows.  If
\* the fetch fails the stream is given up for polling.
HandleNotification ==
    /\ pc = "listen" /\ notices # <<>>
    /\ \E ok \in BOOLEAN :
        /\ Spend(ok)
        /\ listening' = ok
        /\ notices' = IF ok THEN Tail(notices) ELSE <<>>
        /\ change' = IF ok THEN Head(notices) ELSE change
        /\ purpose' = IF ok THEN "change" ELSE purpose
        /\ pc' = IF ok THEN "engine" ELSE "sleep"
        /\ missed' = (missed \/ (~ok /\ Unpolled))
    /\ UNCHANGED <<stored, snap, last_revision, applied, failed, changes, refreshes, fetches>>

\* recv fails: polling from here on.
ListenFails ==
    /\ pc = "listen" /\ Spend(FALSE)
    /\ listening' = FALSE /\ notices' = <<>> /\ pc' = "sleep"
    /\ missed' = (missed \/ Unpolled)
    /\ UNCHANGED <<stored, purpose, reader, applied, failed, changes, refreshes, fetches>>

\* PgListener loses its connection and opens another: recv returns nothing,
\* and the notifications in between are gone.
Reconnects ==
    /\ listening /\ pc # "subscribe" /\ Spend(FALSE)
    /\ notices' = <<>> /\ missed' = (missed \/ notices # <<>>)
    /\ snap' = [snap EXCEPT !.torn = @ \/ (notices # <<>> /\ pc \in {"policy", "revision"})]
    /\ UNCHANGED <<stored, listening, pc, purpose, change, last_revision, applied, failed, changes, refreshes, fetches>>

\* Mutant: a watcher without a stream waits for one.
PollListening ==
    /\ pc = "sleep" /\ listening
    /\ pc' = "engine" /\ purpose' = "poll"
    /\ UNCHANGED <<stored, listening, notices, reader, applied, missed, failed, counters>>

\* The poll interval is over.
Poll ==
    /\ pc = "sleep"
    /\ pc' = "engine" /\ purpose' = "poll"
    /\ UNCHANGED <<stored, listening, notices, reader, applied, missed, failed, counters>>

-----------------------------------------------------------------------------
\* Mutant: the metadata is left behind.
ApplySnapshotBare ==
    /\ pc = "apply"
    /\ fs_policy' = snap.policy
    /\ engine_profile' = [profile |-> snap.profile, meta |-> None]
    /\ pc' = "refresh" /\ snap' = NoSnap
    /\ UNCHANGED <<stored, listening, notices, purpose, change, last_revision, found, cache, config_degraded, sent, missed, failed, counters>>

\* apply_config_snapshot: update_fs_policy, then update_engine_profile, which
\* keeps the profile before anything can fail.
ApplySnapshot ==
    /\ pc = "apply"
    /\ fs_policy' = snap.policy
    /\ engine_profile' = [profile |-> snap.profile, meta |-> snap.meta]
    /\ pc' = "refresh" /\ snap' = NoSnap
    /\ UNCHANGED <<stored, listening, notices, purpose, change, last_revision, found, cache, config_degraded, sent, missed, failed, counters>>

\* The metadata a refresh has come to is written back if it is new.
Come(m) ==
    \/ m = engine_profile.meta /\ pc' = "secrets" /\ UNCHANGED found
    \/ m # engine_profile.meta /\ pc' = "persist" /\ found' = m

\* refresh_ip_filter, up to the download: there is no list to get, or the one in
\* the cache is that of the profile and fresh.  A cached list of another address
\* is dropped.
RefreshIpFilter ==
    /\ pc = "refresh"
    /\ LET url == engine_profile.profile.url
           kept == IF cache # None /\ cache.url = url THEN cache ELSE None
       IN /\ cache' = kept
          /\ \/ url = None /\ Come([engine_profile.meta EXCEPT !.error = FALSE])
             \/ url # None /\ kept # None /\ Come([kept.meta EXCEPT !.error = FALSE])
             \/ url # None /\ pc' = "fetch" /\ UNCHANGED found
    /\ UNCHANGED <<stored, listening, notices, purpose, reader, engine_profile, fs_policy,
                   config_degraded, sent, missed, failed, counters>>

\* load_blocklist's request is answered: with a list, with "not modified", which
\* is an error if nothing is cached, or with an error.
LoadBlocklist ==
    /\ pc = "fetch"
    /\ LET previous == engine_profile.meta
           now(fine) == [at |-> fetches + 1, fine |-> fine]
           tagged == previous.etag \/ cache.meta.etag
       IN \/ /\ fetches < MaxFetches /\ fetches' = fetches + 1
             /\ \E etag, fine \in BOOLEAN :
                  LET m == [etag |-> etag \/ previous.etag, stamp |-> now(fine), error |-> FALSE]
                  IN Come(m) /\ cache' = [url |-> engine_profile.profile.url, meta |-> m]
          \/ /\ fetches < MaxFetches /\ fetches' = fetches + 1
             /\ cache # None /\ tagged
             /\ \E fine \in BOOLEAN :
                  LET m == [etag |-> cache.meta.etag, stamp |-> now(fine), error |-> FALSE]
                  IN Come(m) /\ cache' = [cache EXCEPT !.meta = m]
          \/ Come([previous EXCEPT !.error = TRUE]) /\ UNCHANGED <<cache, fetches>>
    /\ UNCHANGED <<stored, listening, notices, purpose, reader, engine_profile, fs_policy,
                   config_degraded, sent, missed, failed, changes, refreshes, errors>>

\* persist_ip_filter_metadata: the orchestrator's whole profile is written
\* back with the new metadata.  The outcome is only logged.
PersistMetadata ==
    /\ pc = "persist" /\ pc' = "secrets" /\ found' = None
    /\ \/ /\ refreshes < MaxRefreshes
          /\ <<engine_profile.profile, found>> # <<profile, meta>>
          /\ refreshes' = refreshes + 1
          /\ profile' = engine_profile.profile /\ meta' = Persisted(found)
          /\ revision' = revision + 1
          /\ Notify(revision + 1, 1)
          /\ UNCHANGED policy
       \/ UNCHANGED <<stored, notices, refreshes>>
    /\ UNCHANGED <<listening, purpose, reader, engine_profile, fs_policy, cache, config_degraded, sent,
                   missed, failed, changes, fetches, errors>>

\* resolve_tracker_auth or resolve_proxy_auth cannot read a secret: the
\* snapshot is dropped.  (At the start this ends the process instead.)
ResolveFails ==
    /\ pc = "secrets" /\ purpose # "start" /\ Spend(FALSE)
    /\ pc' = IF listening THEN "listen" ELSE "sleep"
    /\ config_degraded' = TRUE /\ failed' = TRUE
    /\ UNCHANGED <<stored, listening, notices, purpose, reader, engine_profile, fs_policy,
                   found, cache, sent, missed, changes, refreshes, fetches>>

\* apply_engine_plan and update_limits: the plan goes to the worker.  The task
\* then waits for the next change, and clears its flag unless it took too long
\* (APPLY_SLA).
SendPlan ==
    /\ pc = "secrets" /\ pc' = IF listening THEN "listen" ELSE "sleep"
    /\ sent' = engine_profile.profile
    /\ config_degraded' \in (IF purpose = "start" THEN {FALSE} ELSE BOOLEAN)
    /\ failed' = FALSE
    /\ UNCHANGED <<stored, listening, notices, purpose, reader, engine_profile, fs_policy, found, cache, missed, counters>>

-----------------------------------------------------------------------------
Init ==
    /\ profile \in Profiles /\ policy \in Policies /\ revision = 1
    /\ meta \in {NoMeta, [etag |-> TRUE, stamp |-> [at |-> 0, fine |-> FALSE], error |-> FALSE]}
    /\ listening = FALSE /\ notices = <<>> /\ pc = "engine" /\ purpose = "start"
    /\ change = 0 /\ last_revision = 0
    /\ snap = NoSnap
    /\ engine_profile = [profile |-> DefaultProfile, meta |-> NoMeta] /\ fs_policy = DefaultPolicy
    /\ found = None /\ cache = None /\ config_degraded = FALSE /\ sent = None
    /\ missed = FALSE /\ failed = FALSE
    /\ changes = 0 /\ refreshes = 0 /\ fetches = 0 /\ errors = 0

Snapshot == ReadEngine \/ ReadPolicy \/ ReadRevision
Apply == ApplySnapshot \/ RefreshIpFilter \/ PersistMetadata \/ SendPlan

Next ==
    \/ ApplyChangeset \/ FactoryReset
    \/ Snapshot \/ SnapshotFails \/ Subscribe
    \/ HandleNotification \/ ListenFails \/ Reconnects \/ Poll
    \/ Apply \/ LoadBlocklist \/ ResolveFails

Spec == Init /\ [][Next]_vars

\* The watch task runs; a query that does not fail returns.  A download need
\* not: the HTTP client has no timeout.
FairSpec ==
    /\ Spec
    /\ WF_vars(Snapshot \/ Subscribe \/ HandleNotification \/ Poll \/ Apply)

-----------------------------------------------------------------------------
(* Properties.                                                             *)

\* Types of the tables, the stream, the snapshot in the making and the copies in
\* use.
TypeOK ==
    /\ profile \in Profiles /\ meta \in Meta /\ policy \in Policies /\ revision \in Nat
    /\ listening \in BOOLEAN /\ notices \in Seq(Nat)
    /\ pc \in {"engine", "policy", "revision", "subscribe", "apply", "refresh", "fetch",
               "persist", "secrets", "listen", "sleep", "ended"}
    /\ purpose \in {"start", "change", "poll"} /\ change \in Nat /\ last_revision \in Nat
    /\ snap \in [profile : Profiles, meta : Meta, policy : Policies, torn : BOOLEAN]
    /\ engine_profile \in [profile : Profiles, meta : Meta] /\ fs_policy \in Policies
    /\ found \in Meta \cup {None} /\ cache \in Cached \cup {None} /\ sent \in Profiles \cup {None}
    /\ {config_degraded, missed, failed} \subseteq BOOLEAN

Stale == sent # profile \/ fs_policy # policy

\* When the watcher waits while the engine runs on other settings than the
\* stored ones, something will wake it: a notification, or a revision the poll
\* has not seen.  The exceptions are the change it could not learn of, one of
\* the lists of a policy alone among them, and the snapshot it could not apply,
\* and that one is reported as degraded health.
StaleIsNoticed ==
    pc \in {"listen", "sleep", "ended"} /\ Stale =>
        \/ pc = "listen" /\ notices # <<>>
        \/ pc = "sleep" /\ last_revision < revision
        \/ failed /\ config_degraded
        \/ missed

\* If no download of the blocklist hangs for good, a change is applied in the
\* end, with the same exceptions.
ChangeIsApplied == []<>(pc # "fetch") => (Stale ~> (~Stale \/ failed \/ missed))
=============================================================================
