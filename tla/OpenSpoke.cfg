\* A plain client that publishes an endpoint, in a fleet without a marked relay.
SPECIFICATION Spec
CONSTANTS
  DirectFailedAfter = 1  DirectGracePeriod = 0  AgeCap = 2
  BeaconTTL = 0  GCAge = 1  HandshakeFresh = 1
  self = mine  Pool <- Pooled  Starts <- OpenSpokeStarts
  Talkers = {peer}  Addr <- Lan  host <- OneHost  MaxIP = 3
  None = None  NoAddr = None
  mine = mine  peer = peer  gateway = gateway  router = router  spoke = spoke
  a1 = a1  a2 = a2  myAddr = myAddr  hubAddr = hubAddr  relayAddr = relayAddr
  spokeAddr = spokeAddr  nat1 = nat1
INVARIANT SpokeIsNoCandidate
