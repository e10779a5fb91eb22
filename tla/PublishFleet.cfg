\* The admin, and a client that joins and runs two `up`s at once; a drop that
\* replays.
SPECIFICATION Spec
CONSTANTS
  adm = adm  cli = cli  spoke = spoke
  d1 = d1  d2 = d2  c1 = c1  c2 = c2
  Node = {adm, cli}  Plain = {}  Hubs = {adm}
  Domain = {noDomain}  NoDomain = noDomain
  Obs = {noObs}  NoObs = noObs
  MaxSerial = 3
  Machine = {adm, cli}  Proc = {d1, c1, c2}  NoProc = noProc
  host <- MCHostFleet
  Replay = TRUE
  Admin = adm
  Commands <- MCFleet
  LateWrites = FALSE  Restores = FALSE
  MaxCrashes = 0
SYMMETRY MCUps
INVARIANTS
  MarkCoversUse
  MarkWasSent
  CachesAgree
PROPERTY FollowsLog
