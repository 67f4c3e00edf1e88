\* Synchronizer alone: room on the netif for every address the list can hold
CONSTANTS
  ll = ll  ml = ml  rloc = rloc  g1 = g1  g2 = g2  g3 = g3
  NoAddr = NoAddr
  Addr <- MCAddrSmall
  LinkLocal <- MCLinkLocal
  RlocAddrs <- MCRloc
  NotValidAddrs = {}
  PreferredAddrs <- MCPreferred
  ThreadOrigin <- MCThreadOrigin
  NumAddresses = 3
  MaxListLen = 3
  ExternalWriters = FALSE
SPECIFICATION FairSpec
INVARIANTS SyncedWhenIdle PrimaryLinkLocalInSlotZero
PROPERTY EventuallyMirrors
