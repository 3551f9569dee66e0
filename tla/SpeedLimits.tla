---------------------------- MODULE SpeedLimits ----------------------------
(* The global speed limits of the engine worker (worker.rs): the limits of  *)
(* the engine profile, the alternative limits that a weekly schedule turns  *)
(* on and off, and the limits a client sets directly.  The worker keeps     *)
(* base_limits, global_limits and the plan in memory; what counts is the    *)
(* limit the session enforces.  Commands arrive through a bounded channel   *)
(* whose senders never learn whether they succeeded (adapter.rs).           *)
EXTENDS Naturals, Sequences

CONSTANTS
    Rates,          \* download and upload limit, as one value
    Unlimited,      \* the limits of a session that was given none
    None,
    Capacity,       \* COMMAND_BUFFER
    MaxRequests,    \* bound on profiles applied and limits set by a client
    MaxFaults       \* bound on failing session calls

ASSUME RatesAssumption == Unlimited \in Rates /\ None \notin Rates
ASSUME BoundsAssumption == Capacity \in Nat \ {0} /\ MaxRequests \in Nat /\ MaxFaults \in Nat

VARIABLES
    inbox,          \* the command channel
    unsent,         \* limits update_engine_profile has yet to send, or None
    base_limits,
    global_limits,
    alt_speed,      \* None, or the plan and whether it is in force
    sessionLimits,  \* what libtorrent enforces
    window,         \* does the schedule contain the present minute?
    requests, faults

worker == <<base_limits, global_limits, alt_speed, sessionLimits>>
vars == <<inbox, unsent, worker, window, requests, faults>>

ConfigCommand == [type : {"config"}, limits : Rates, alt : Rates \cup {None}]
LimitCommand == [type : {"limits"}, limits : Rates]
Plan == [limits : Rates, active : BOOLEAN]
ASSUME NoneAssumption == None \notin Plan

\* Mutant: the channel has no bound.
SendAnyway(command) == inbox' = Append(inbox, command)

\* send_command: the sender waits for room.
Send(command) == Len(inbox) < Capacity /\ inbox' = Append(inbox, command)

\* A session call fails, within the bound.
Fault(ok) == (~ok => faults < MaxFaults) /\ faults' = IF ok THEN faults ELSE faults + 1

\* alt_speed_plan: alternative limits that limit nothing are no plan.
AltSpeedPlan(alt) ==
    IF alt \in {None, Unlimited} THEN None ELSE [limits |-> alt, active |-> FALSE]

-----------------------------------------------------------------------------
\* Mutant: the plan counts as in force before the session has been told.
ReconcileEagerly(base, plan, limits, ok) ==
    LET due == plan # None /\ plan.active # window
        target == IF window THEN plan.limits ELSE base
    IN /\ ~ok => due
       /\ base_limits' = base
       /\ sessionLimits' = IF due /\ ok THEN target ELSE limits
       /\ global_limits' = sessionLimits'
       /\ alt_speed' = IF due THEN [plan EXCEPT !.active = window] ELSE plan

\* Mutant: only the start of the schedule is looked for.
ReconcileStart(base, plan, limits, ok) ==
    LET due == plan # None /\ window /\ ~plan.active
    IN /\ ~ok => due
       /\ base_limits' = base
       /\ sessionLimits' = IF due /\ ok THEN plan.limits ELSE limits
       /\ global_limits' = sessionLimits'
       /\ alt_speed' = IF due /\ ok THEN [plan EXCEPT !.active = TRUE] ELSE plan

\* reconcile_alt_speed, from base limits, a plan and session limits that the
\* caller may just have set.  When the call fails nothing has changed.
Reconcile(base, plan, limits, ok) ==
    LET due == plan # None /\ plan.active # window
        target == IF window THEN plan.limits ELSE base
    IN /\ ~ok => due
       /\ base_limits' = base
       /\ sessionLimits' = IF due /\ ok THEN target ELSE limits
       /\ global_limits' = sessionLimits'
       /\ alt_speed' = IF due /\ ok THEN [plan EXCEPT !.active = window] ELSE plan

HandleApplyConfig ==
    /\ inbox # <<>> /\ Head(inbox).type = "config"
    /\ inbox' = Tail(inbox)
    /\ LET config == Head(inbox) IN
       \E ok \in BOOLEAN :
           Fault(ok) /\ Reconcile(config.limits, AltSpeedPlan(config.alt), config.limits, ok)
    /\ UNCHANGED <<unsent, window, requests>>

\* handle_update_limits without a torrent: the plan is taken out of force and
\* reconciled with the new base.
HandleUpdateLimits ==
    /\ inbox # <<>> /\ Head(inbox).type = "limits"
    /\ inbox' = Tail(inbox)
    /\ LET limits == Head(inbox).limits
           plan == IF alt_speed = None THEN None ELSE [alt_speed EXCEPT !.active = FALSE]
       IN \E ok \in BOOLEAN : Fault(ok) /\ Reconcile(limits, plan, limits, ok)
    /\ UNCHANGED <<unsent, window, requests>>

\* The first session call of either command fails: the command is dropped.
HandleFails ==
    /\ inbox # <<>> /\ inbox' = Tail(inbox)
    /\ Fault(FALSE)
    /\ UNCHANGED <<worker, unsent, window, requests>>

\* alt_tick, every thirty seconds.
AltTick ==
    /\ \E ok \in BOOLEAN : Fault(ok) /\ Reconcile(base_limits, alt_speed, sessionLimits, ok)
    /\ UNCHANGED <<inbox, unsent, window, requests>>

\* The present minute enters or leaves the schedule.
Shift == window' = ~window /\ UNCHANGED <<inbox, unsent, worker, requests, faults>>

\* update_engine_profile: the plan, then its limits once more.
ApplyEnginePlan ==
    /\ unsent = None
    /\ requests < MaxRequests /\ requests' = requests + 1
    /\ \E limits \in Rates, alt \in Rates \cup {None} :
          Send([type |-> "config", limits |-> limits, alt |-> alt]) /\ unsent' = limits
    /\ UNCHANGED <<worker, window, faults>>

UpdateLimits ==
    /\ unsent # None /\ unsent' = None
    /\ Send([type |-> "limits", limits |-> unsent])
    /\ UNCHANGED <<worker, window, requests, faults>>

\* A client of the facade sets the global limits (compat_qb.rs).
ApplyRateLimit ==
    /\ requests < MaxRequests /\ requests' = requests + 1
    /\ \E limits \in Rates : Send([type |-> "limits", limits |-> limits])
    /\ UNCHANGED <<worker, unsent, window, faults>>

-----------------------------------------------------------------------------
Init ==
    /\ inbox = <<>> /\ unsent = None /\ alt_speed = None
    /\ base_limits = Unlimited /\ global_limits = Unlimited /\ sessionLimits = Unlimited
    /\ window \in BOOLEAN
    /\ requests = 0 /\ faults = 0

Next ==
    \/ HandleApplyConfig \/ HandleUpdateLimits \/ HandleFails \/ AltTick
    \/ ApplyEnginePlan \/ UpdateLimits \/ ApplyRateLimit
    \/ Shift

Spec == Init /\ [][Next]_vars

\* The worker's task serves its channel and its timer; a call that does not
\* fail returns.
FairSpec ==
    /\ Spec
    /\ WF_vars(AltTick /\ faults' = faults)
    /\ WF_vars(HandleApplyConfig \/ HandleUpdateLimits)

-----------------------------------------------------------------------------
(* Properties.                                                             *)

TypeOK ==
    /\ inbox \in Seq(ConfigCommand \cup LimitCommand) /\ Len(inbox) <= Capacity
    /\ unsent \in Rates \cup {None}
    /\ {base_limits, global_limits, sessionLimits} \subseteq Rates
    /\ alt_speed \in Plan \cup {None} /\ window \in BOOLEAN
    /\ requests \in 0 .. MaxRequests /\ faults \in 0 .. MaxFaults

\* Whatever order configurations, limits and the schedule come in, and
\* whichever session call fails, the session enforces the alternative limits
\* exactly while the plan is marked as in force, and the base limits otherwise;
\* global_limits says the same (handle_update_limits, reconcile_alt_speed).
LimitsAgree ==
    /\ sessionLimits = global_limits
    /\ sessionLimits = IF alt_speed # None /\ alt_speed.active THEN alt_speed.limits ELSE base_limits

\* The plan follows the schedule: once the present minute stays inside or
\* outside, the plan is in force or not accordingly.
PlanFollowsSchedule ==
    /\ <>[]window => []<>(alt_speed # None => alt_speed.active)
    /\ <>[]~window => []<>(alt_speed # None => ~alt_speed.active)
=============================================================================
