\* One member's device in fleets with hubs, relays and plain clients, through edits,
\* a shell and failures; and with one peer that roams.
SPECIFICATION Spec
CONSTANTS
  DirectFailedAfter = 1  DirectGracePeriod = 0  AgeCap = 2
  BeaconTTL = 0  GCAge = 1  HandshakeFresh = 1
  self = mine  Pool <- Pooled  Starts <- PeersStarts
  Talkers = {peer}  Addr <- Lan  host <- OneHost  MaxIP = 3
  None = None  NoAddr = None
  mine = mine  peer = peer  gateway = gateway  router = router  spoke = spoke
  a1 = a1  a2 = a2  myAddr = myAddr  hubAddr = hubAddr  relayAddr = relayAddr
  spokeAddr = spokeAddr  nat1 = nat1
SYMMETRY LanSymmetry
INVARIANTS
  TypeOK
  EveryMemberRouted
  SpokesViaHub
  ObservedWasProved
PROPERTIES
  LiveEndpointKept
  
