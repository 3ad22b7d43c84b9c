SPECIFICATION SpecAll
CONSTANTS
  v1 = v1
  v2 = v2
  a1 = a1
  a2 = a2
  NoConf = noConf
  NoAddr = noAddr
  Confs = {v1, v2}
  Addrs = {a1, a2}
  AddrOf <- TwoAddrOf
  FailsBeforeDown = 3
\* The deployed timing in ticks of 5 s.
  SleepTicks = 3
  ProbeTimeout = 1
  WriteTimeout = 2
  CheckEvery = 2
  StaleTicks = 12
  Rise = 2
  FailoverFaults = {"tunnel", "pod"}
  MaxLost = 1
  Horizon = 30
  GatewayNodes = {v1}
  LinkIds = {1}
  NoLinkId = 0
  RolloutFaults = 2
INVARIANTS TypesOK NoLeak DropBound HonestAgain
PROPERTIES Reports SteadyTraffic
