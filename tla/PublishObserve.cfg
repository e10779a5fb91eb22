\* The admin's daemon observing beside a shell that edits, stages and restores; an
\* honest drop.
SPECIFICATION Spec
CONSTANTS
  adm = adm  cli = cli  spoke = spoke
  d1 = d1  d2 = d2  c1 = c1  c2 = c2
  Node = {adm, cli}  Plain = {}  Hubs = {adm}
  Domain = {noDomain, vpn}  NoDomain = noDomain
  Obs = {noObs, obs1}  NoObs = noObs
  MaxSerial = 3
  Machine = {adm}  Proc = {d1, d2}  NoProc = noProc
  host <- MCHostAdmin
  Replay = FALSE
  Admin = adm
  Commands <- MCDaemonAndShell
  LateWrites = FALSE  Restores = TRUE
  MaxCrashes = 0
INVARIANT ObservationKeepsMembership
