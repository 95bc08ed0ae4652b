SPECIFICATION TimelySpec
CONSTANTS
  Hosts = {"a", "b", "c"}
  Devices = {"a1", "b1", "b2", "c1"}
  Host <- LineHost
  Wire <- LineWire
  Hops <- LineHops
  MaxDist = 3
  MaxQueue = 1
  MaxBusy = 1
  Mortal = {"a", "b", "c"}
  MaxCrash = 1
PROPERTIES
  Converges
