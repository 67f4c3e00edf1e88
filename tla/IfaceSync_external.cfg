\* Another lwIP user adds addresses to the Thread netif
CONSTANTS
  ll = ll  ml = ml  rloc = rloc  g1 = g1  g2 = g2  g3 = g3
  NoAddr = NoAddr
  LinkLocal <- MCLinkLocal
  RlocAddrs <- MCRloc
  NotValidAddrs = {}
  PreferredAddrs <- MCPreferred
  ThreadOrigin <- MCThreadOrigin
  NumAddresses = 3
  MaxListLen = 3
SPECIFICATION Spec
CONSTANTS Addr <- MCAddrSmall  ExternalWriters = TRUE
INVARIANTS TypeOK ShadowNamesLiveSlots
