SPECIFICATION FairSpec
CONSTANTS
  Rates = {Unlimited, slow, slower}
  Unlimited = Unlimited
  None = None
  Capacity = 2
  MaxRequests = 4
  MaxFaults = 2
INVARIANTS
  TypeOK
  LimitsAgree
PROPERTIES
  PlanFollowsSchedule
