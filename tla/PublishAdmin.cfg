\* Two shells on the admin machine; a drop that replays, loses and delays.
SPECIFICATION Spec
CONSTANTS
  adm = adm  cli = cli  spoke = spoke
  d1 = d1  d2 = d2  c1 = c1  c2 = c2
  Node = {adm, spoke}  Plain = {spoke}  Hubs = {adm}
  Domain = {noDomain}  NoDomain = noDomain
  Obs = {noObs}  NoObs = noObs
  MaxSerial = 3
  Machine = {adm}  Proc = {d1, d2}  NoProc = noProc
  host <- MCHostAdmin
  Replay = TRUE
  Admin = adm
  Commands <- MCShells
  LateWrites = TRUE  Restores = TRUE
  MaxCrashes = 1
INVARIANTS
  TypeOK
  OneSerialOnePayload
  UploadIsNewest
  MarkCoversUse
  MarkWasSent
PROPERTY MarkNeverLowers
