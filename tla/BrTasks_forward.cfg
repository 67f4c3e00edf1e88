\* Packets routed to the Thread netif, mDNS forwarded by the ot task
CONSTANTS
  NoOne = NoOne
  InfraKinds <- MCRoutedTraffic
  TxHook = TRUE
  Packets <- MCPackets
  BringUp = TRUE
SPECIFICATION Spec
INVARIANTS OtExclusive OtMsgIsPbufChain
