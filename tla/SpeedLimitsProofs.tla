-------------------------- MODULE SpeedLimitsProofs --------------------------
(* Proofs about SpeedLimits: its types, and that the session enforces the     *)
(* limits the worker believes it does, for every set of rates, every capacity *)
(* of the channel and any number of requests and failing calls.              *)
EXTENDS SpeedLimits, TLAPS

\* The limits a plan calls for, on top of base limits.
InForce(base, plan) == IF plan # None /\ plan.active THEN plan.limits ELSE base

Commands == ConfigCommand \cup LimitCommand

\* The types, in the two groups that the actions change separately.
WorkerOK ==
    /\ base_limits \in Rates /\ global_limits \in Rates /\ sessionLimits \in Rates
    /\ alt_speed \in Plan \cup {None}

ChannelOK ==
    /\ inbox \in Seq(Commands) /\ Len(inbox) <= Capacity
    /\ unsent \in Rates \cup {None} /\ window \in BOOLEAN
    /\ requests \in 0 .. MaxRequests /\ faults \in 0 .. MaxFaults

IInv == WorkerOK /\ ChannelOK /\ LimitsAgree

LEMMA TypeOKParts == TypeOK <=> WorkerOK /\ ChannelOK
  BY DEF TypeOK, WorkerOK, ChannelOK, Commands

-----------------------------------------------------------------------------
\* reconcile_alt_speed, called with limits that are in force, leaves limits
\* that are in force, whether or not its session call fails.
LEMMA ReconcileAgrees ==
  ASSUME NEW base \in Rates, NEW plan \in Plan \cup {None}, NEW limits \in Rates,
         NEW ok \in BOOLEAN, window \in BOOLEAN,
         limits = InForce(base, plan), Reconcile(base, plan, limits, ok)
  PROVE  WorkerOK' /\ LimitsAgree'
<1>1. CASE plan # None /\ plan.active # window /\ ok
  <2>1. plan \in Plan
    BY <1>1
  <2>2. alt_speed' = [plan EXCEPT !.active = window] /\ base_limits' = base
    BY <1>1 DEF Reconcile
  <2>3. alt_speed' \in Plan /\ alt_speed'.active = window /\ alt_speed'.limits = plan.limits
    BY <2>1, <2>2 DEF Plan
  <2>4. sessionLimits' = (IF window THEN plan.limits ELSE base) /\ global_limits' = sessionLimits'
    BY <1>1 DEF Reconcile
  <2>5. alt_speed' # None
    BY <2>3, NoneAssumption
  <2>6. plan.limits \in Rates
    BY <2>1 DEF Plan
  <2>7. CASE window
    BY <2>2, <2>3, <2>4, <2>5, <2>6, <2>7 DEF WorkerOK, LimitsAgree
  <2>8. CASE ~window
    BY <2>2, <2>3, <2>4, <2>5, <2>6, <2>8 DEF WorkerOK, LimitsAgree
  <2> QED BY <2>7, <2>8
<1>2. CASE ~(plan # None /\ plan.active # window /\ ok)
  <2>1. /\ alt_speed' = plan /\ base_limits' = base
        /\ sessionLimits' = limits /\ global_limits' = limits
    BY <1>2 DEF Reconcile
  <2> QED BY <2>1 DEF WorkerOK, LimitsAgree, InForce
<1> QED BY <1>1, <1>2

\* What both commands and the timer do to the counter of failing calls.
LEMMA FaultOK ==
  ASSUME NEW ok \in BOOLEAN, faults \in 0 .. MaxFaults, Fault(ok)
  PROVE  faults' \in 0 .. MaxFaults
  BY BoundsAssumption DEF Fault

\* Taking a command from the channel.
LEMMA TakeOK ==
  ASSUME ChannelOK, inbox # <<>>
  PROVE  /\ Head(inbox) \in Commands
         /\ Tail(inbox) \in Seq(Commands) /\ Len(Tail(inbox)) <= Capacity
  BY BoundsAssumption DEF ChannelOK

\* Putting one into it.
LEMMA SendOK ==
  ASSUME ChannelOK, NEW c \in Commands, Send(c)
  PROVE  inbox' \in Seq(Commands) /\ Len(inbox') <= Capacity
  BY BoundsAssumption DEF ChannelOK, Send

\* A fresh plan is not in force, so the base limits are.
LEMMA FreshPlan ==
  ASSUME NEW alt \in Rates \cup {None}, NEW base \in Rates
  PROVE  AltSpeedPlan(alt) \in Plan \cup {None} /\ InForce(base, AltSpeedPlan(alt)) = base
<1>1. CASE alt \in {None, Unlimited}
  BY <1>1 DEF AltSpeedPlan, InForce
<1>2. CASE alt \notin {None, Unlimited}
  <2>1. AltSpeedPlan(alt) = [limits |-> alt, active |-> FALSE] /\ alt \in Rates
    BY <1>2 DEF AltSpeedPlan
  <2> QED BY <2>1 DEF InForce, Plan
<1> QED BY <1>1, <1>2

-----------------------------------------------------------------------------
LEMMA InitInv == Init => IInv
<1> SUFFICES ASSUME Init PROVE IInv
  OBVIOUS
<1>1. WorkerOK /\ LimitsAgree
  BY RatesAssumption DEF Init, WorkerOK, LimitsAgree
<1>2. ChannelOK
  BY BoundsAssumption DEF Init, ChannelOK
<1> QED BY <1>1, <1>2 DEF IInv

LEMMA StepInv == IInv /\ [Next]_vars => IInv'
<1> SUFFICES ASSUME IInv, [Next]_vars PROVE IInv'
  OBVIOUS
<1> USE DEF IInv
<1>1. CASE HandleApplyConfig
  <2>1. PICK ok \in BOOLEAN :
          Fault(ok) /\ Reconcile(Head(inbox).limits, AltSpeedPlan(Head(inbox).alt), Head(inbox).limits, ok)
    BY <1>1 DEF HandleApplyConfig
  <2>2. /\ inbox # <<>> /\ Head(inbox).type = "config" /\ inbox' = Tail(inbox)
        /\ UNCHANGED <<unsent, window, requests>>
    BY <1>1 DEF HandleApplyConfig
  <2>3. Head(inbox).limits \in Rates /\ Head(inbox).alt \in Rates \cup {None}
    BY <2>2, TakeOK DEF Commands, ConfigCommand, LimitCommand
  <2>4. WorkerOK' /\ LimitsAgree'
    BY <2>1, <2>3, FreshPlan, ReconcileAgrees DEF ChannelOK
  <2>5. ChannelOK'
    BY <2>1, <2>2, TakeOK, FaultOK DEF ChannelOK
  <2> QED BY <2>4, <2>5
<1>2. CASE HandleUpdateLimits
  <2> DEFINE limits == Head(inbox).limits
             plan == IF alt_speed = None THEN None ELSE [alt_speed EXCEPT !.active = FALSE]
  <2>1. PICK ok \in BOOLEAN : Fault(ok) /\ Reconcile(limits, plan, limits, ok)
    BY <1>2 DEF HandleUpdateLimits
  <2>2. /\ inbox # <<>> /\ Head(inbox).type = "limits" /\ inbox' = Tail(inbox)
        /\ UNCHANGED <<unsent, window, requests>>
    BY <1>2 DEF HandleUpdateLimits
  <2>3. limits \in Rates
    BY <2>2, TakeOK DEF Commands, ConfigCommand, LimitCommand
  <2>4. plan \in Plan \cup {None} /\ limits = InForce(limits, plan)
    BY <2>3 DEF WorkerOK, Plan, InForce
  <2>5. WorkerOK' /\ LimitsAgree'
    <3> HIDE DEF limits, plan
    <3> QED BY <2>1, <2>3, <2>4, ReconcileAgrees DEF ChannelOK
  <2>6. ChannelOK'
    BY <2>1, <2>2, TakeOK, FaultOK DEF ChannelOK
  <2> QED BY <2>5, <2>6
<1>3. CASE HandleFails
  <2>1. ChannelOK'
    BY <1>3, TakeOK, FaultOK DEF HandleFails, ChannelOK
  <2> QED BY <1>3, <2>1 DEF HandleFails, worker, WorkerOK, LimitsAgree
<1>4. CASE AltTick
  <2>1. PICK ok \in BOOLEAN : Fault(ok) /\ Reconcile(base_limits, alt_speed, sessionLimits, ok)
    BY <1>4 DEF AltTick
  <2>2. WorkerOK' /\ LimitsAgree'
    BY <2>1, ReconcileAgrees DEF WorkerOK, ChannelOK, LimitsAgree, InForce
  <2>3. ChannelOK'
    BY <1>4, <2>1, FaultOK DEF AltTick, ChannelOK
  <2> QED BY <2>2, <2>3
<1>5. CASE Shift
  BY <1>5 DEF Shift, worker, WorkerOK, ChannelOK, LimitsAgree
<1>6. CASE ApplyEnginePlan
  <2>1. PICK limits \in Rates, alt \in Rates \cup {None} :
          Send([type |-> "config", limits |-> limits, alt |-> alt]) /\ unsent' = limits
    BY <1>6 DEF ApplyEnginePlan
  <2>2. [type |-> "config", limits |-> limits, alt |-> alt] \in Commands
    BY DEF Commands, ConfigCommand
  <2>3. inbox' \in Seq(Commands) /\ Len(inbox') <= Capacity
    BY <2>1, <2>2, SendOK
  <2>4. /\ requests < MaxRequests /\ requests' = requests + 1
        /\ UNCHANGED <<worker, window, faults>>
    BY <1>6 DEF ApplyEnginePlan
  <2>5. ChannelOK'
    BY <2>1, <2>3, <2>4, BoundsAssumption DEF ChannelOK
  <2> QED BY <2>4, <2>5 DEF worker, WorkerOK, LimitsAgree
<1>7. CASE UpdateLimits
  <2>1. /\ unsent # None /\ unsent' = None /\ Send([type |-> "limits", limits |-> unsent])
        /\ UNCHANGED <<worker, window, requests, faults>>
    BY <1>7 DEF UpdateLimits
  <2>2. [type |-> "limits", limits |-> unsent] \in Commands
    BY <2>1 DEF Commands, LimitCommand, ChannelOK
  <2>3. inbox' \in Seq(Commands) /\ Len(inbox') <= Capacity
    BY <2>1, <2>2, SendOK
  <2> QED BY <2>1, <2>3 DEF worker, WorkerOK, ChannelOK, LimitsAgree
<1>8. CASE ApplyRateLimit
  <2>1. PICK limits \in Rates : Send([type |-> "limits", limits |-> limits])
    BY <1>8 DEF ApplyRateLimit
  <2>2. [type |-> "limits", limits |-> limits] \in Commands
    BY DEF Commands, LimitCommand
  <2>3. inbox' \in Seq(Commands) /\ Len(inbox') <= Capacity
    BY <2>1, <2>2, SendOK
  <2>4. /\ requests < MaxRequests /\ requests' = requests + 1
        /\ UNCHANGED <<worker, unsent, window, faults>>
    BY <1>8 DEF ApplyRateLimit
  <2>5. ChannelOK'
    BY <2>3, <2>4, BoundsAssumption DEF ChannelOK
  <2> QED BY <2>4, <2>5 DEF worker, WorkerOK, LimitsAgree
<1>9. CASE UNCHANGED vars
  BY <1>9 DEF vars, worker, WorkerOK, ChannelOK, LimitsAgree
<1> QED BY <1>1, <1>2, <1>3, <1>4, <1>5, <1>6, <1>7, <1>8, <1>9 DEF Next

LEMMA Invariance == Spec => []IInv
  BY InitInv, StepInv, PTL DEF Spec

-----------------------------------------------------------------------------
\* The worker's limits and its plan have their types, and the command channel
\* never holds more than COMMAND_BUFFER commands.
THEOREM TypeCorrect == Spec => []TypeOK
<1>1. IInv => TypeOK
  BY TypeOKParts DEF IInv
<1> QED BY <1>1, Invariance, PTL

\* Whatever order configurations, limits, ticks and failing calls come in, the
\* session enforces the limits that the worker's base limits and plan call for
\* (handle_apply_config, handle_update_limits, reconcile_alt_speed).
THEOREM LimitsAlwaysAgree == Spec => []LimitsAgree
<1>1. IInv => LimitsAgree
  BY DEF IInv
<1> QED BY <1>1, Invariance, PTL
=============================================================================
