\* Routed traffic against the state-changed callback: lock order
CONSTANTS
  NoOne = NoOne
  InfraKinds <- MCRoutedTraffic
  TxHook = FALSE
  Packets <- MCPackets
  BringUp = FALSE
SPECIFICATION Spec
INVARIANT NoCircularWait
