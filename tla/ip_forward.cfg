SPECIFICATION IpSpec
CONSTANTS
  Hosts = {"a", "b", "c"}
  Devices = {"a1", "b1", "b2", "c1"}
  Host <- LineHost
  Wire <- LineWire
  Hops <- LineHops
  MaxDist = 3
  MaxQueue = 1
  MaxBusy = 1
  Mortal = {"c"}
  MaxCrash = 1
  Manual <- LineManual
  Traffic <- LineTraffic
  ArpAt = {"a1"}
INVARIANTS
  IpTypeOK
  NeverPutOff
PROPERTIES
  Leaves
  NearerEachHop
