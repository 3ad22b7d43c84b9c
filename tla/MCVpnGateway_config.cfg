SPECIFICATION FairSpec
CONSTANTS
  v1 = v1
  v2 = v2
  a1 = a1
  a2 = a2
  NoConf = noConf
  NoAddr = noAddr
  Confs <- TwoConfs
  Addrs <- TwoAddrs
  AddrOf <- TwoAddrOf
  FailsBeforeDown = 1
PROPERTY ConfigApplied
