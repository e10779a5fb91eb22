\* Two daemons that restart, and that may never have met.
SPECIFICATION Spec
CONSTANTS
  DirectFailedAfter = 6  DirectGracePeriod = 1  AgeCap = 7
  Rekey = 5  Gap = 2  Settle = 4
  Side = {a, b}  None = None
INVARIANTS
  TypeOK
  DeadPathRelayed
  LivePathDirect
  VerdictsSettle
PROPERTY HealthyStaysDirect
