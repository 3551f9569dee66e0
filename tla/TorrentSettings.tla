-------------------------- MODULE TorrentSettings --------------------------
(***************************************************************************)
(* What the engine worker promises about the settings of a torrent,        *)
(* without its session, its cache or its files: they outlive a restart,    *)
(* adding the torrent again completes the request from them, and a command *)
(* changes what it names and nothing else.  Worker implements it.          *)
(***************************************************************************)
CONSTANTS Torrents, Metadata, None

VARIABLES
    settings,   \* what was last asked for each torrent, or None
    active,     \* the torrents in the session
    atRisk      \* the torrents whose settings the disk does not hold

vars == <<settings, active, atRisk>>

Init ==
    /\ settings = [t \in Torrents |-> None]
    /\ active = {} /\ atRisk = {}

\* A setting the request leaves out is taken from what is stored.
Completed(old, new, field, absent) == new[field] = old[field] \/ new[field] # absent

\* The torrent has settings, perhaps other ones than before.
Replace(t) ==
    /\ settings'[t] \in Metadata
    /\ settings' = [settings EXCEPT ![t] = settings'[t]]

Add(t) ==
    /\ active' \in {active, active \cup {t}}
    /\ Replace(t)
    /\ settings[t] # None =>
          /\ settings'[t].selection = settings[t].selection
          /\ settings'[t].sequential = settings[t].sequential
          /\ Completed(settings[t], settings'[t], "rate", None)
          /\ Completed(settings[t], settings'[t], "options", None)
          /\ Completed(settings[t], settings'[t], "trackers", {})
          /\ Completed(settings[t], settings'[t], "cleanup", {})

\* An add that fails after the session took the torrent.
AddFails(t) == active' = active \cup {t} /\ UNCHANGED settings

\* One setting changes; for a torrent without any the others are the defaults.
Update(t) ==
    /\ Replace(t)
    /\ settings[t] # None =>
          \E f \in DOMAIN settings'[t] :
              \A g \in DOMAIN settings'[t] \ {f} : settings'[t][g] = settings[t][g]
    /\ UNCHANGED active

Remove(t) ==
    /\ settings' = [settings EXCEPT ![t] = None]
    /\ active' = active \ {t}

\* The session loses a torrent.
Drop(t) == active' = active \ {t} /\ UNCHANGED settings

Stop == active' = {} /\ UNCHANGED settings

\* A restart forgets nothing, unless the disk did not hold all of it; and even
\* then a torrent that was not at risk comes back as it was or not at all.
Restart ==
    /\ active = {} /\ UNCHANGED active
    /\ settings' \in [Torrents -> Metadata \cup {None}]
    /\ atRisk = {} => UNCHANGED settings
    /\ \A t \in Torrents \ atRisk : settings'[t] \in {settings[t], None}

Next ==
    \/ \E t \in Torrents : Add(t) \/ AddFails(t) \/ Update(t) \/ Remove(t) \/ Drop(t)
    \/ Stop
    \/ Restart
    \/ UNCHANGED <<settings, active>>

Spec == Init /\ [][Next]_vars
=============================================================================
