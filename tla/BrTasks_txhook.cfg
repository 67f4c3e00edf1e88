\* mDNS forwarding from the ot task against the tcpip thread
CONSTANTS
  NoOne = NoOne
  InfraKinds <- MCHookTraffic
  TxHook = TRUE
  Packets <- MCPackets
  BringUp = TRUE
SPECIFICATION Spec
INVARIANT LwipExclusive
