\* One process; a crash between two writes, then a drop outage.
SPECIFICATION Spec
CONSTANTS
  adm = adm  cli = cli  spoke = spoke
  d1 = d1  d2 = d2  c1 = c1  c2 = c2
  Node = {adm}  Plain = {}  Hubs = {adm}
  Domain = {noDomain}  NoDomain = noDomain
  Obs = {noObs}  NoObs = noObs
  MaxSerial = 3
  Machine = {adm}  Proc = {d1}  NoProc = noProc
  host <- MCHostAdmin
  Replay = FALSE
  Admin = adm
  Commands <- MCOneShell
  LateWrites = FALSE  Restores = FALSE
  MaxCrashes = 1
INVARIANT CacheFallbackAccepted
