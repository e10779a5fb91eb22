\* The admin's daemon and a shell that edits contend for both locks; fair, honest
\* drop, one crash.
SPECIFICATION LiveSpec
CONSTANTS
  adm = adm  cli = cli  spoke = spoke
  d1 = d1  d2 = d2  c1 = c1  c2 = c2
  Node = {adm, cli}  Plain = {}  Hubs = {adm}
  Domain = {noDomain}  NoDomain = noDomain
  Obs = {noObs, obs1}  NoObs = noObs
  MaxSerial = 3
  Machine = {adm}  Proc = {d1, d2}  NoProc = noProc
  host <- MCHostAdmin
  Replay = FALSE
  Admin = adm
  Commands <- MCDaemons
  LateWrites = FALSE  Restores = FALSE
  MaxCrashes = 1
PROPERTIES
  MembersConverge
  AdminLockReleased
