SPECIFICATION Spec
CONSTANTS
  Hosts = {"a", "b", "c"}
  Devices = {"a1", "b1", "b2", "c1"}
  Host <- LineHost
  Wire <- LineWire
  Hops <- LineHops
  MaxDist = 2
  MaxQueue = 1
  MaxBusy = 0
  Mortal = {"b", "c"}
  MaxCrash = 1
INVARIANTS
  TypeOK
  NeverTooShort
  NextHopIsNeighbour
  OwnAddresses
  AgreedIsShortest
