\* mDNS and ND receive hooks against the ot task
CONSTANTS
  NoOne = NoOne
  InfraKinds <- MCHookTraffic
  TxHook = FALSE
  Packets <- MCPackets
  BringUp = FALSE
SPECIFICATION Spec
INVARIANT OtExclusive
