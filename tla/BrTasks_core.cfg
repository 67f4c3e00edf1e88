\* mDNS and ND traffic from the infrastructure link, no routed traffic
CONSTANTS
  NoOne = NoOne
  InfraKinds <- MCHookTraffic
  TxHook = FALSE
  Packets <- MCPackets
  BringUp = FALSE
SPECIFICATION FairSpec
INVARIANTS NoLostWakeup LwipExclusive
PROPERTY WorkReachesTaskLoop
