\* Every radio_nxp command with argument texts at the edges of its checks
CONSTANTS
  Atoi <- MCAtoi
  Strtol16 <- MCStrtol16
  MfgArgs <- MCMfgArgs
  TxPwrArgs <- MCTxPwrArgs
  CcaArgs <- MCCcaArgs
  Eui64Args <- MCEui64Args
  OtherArgs <- MCOtherArgs
  RspLens = {3, 4, 5, 12}
  TxPwrLimitMax = 20
  HalfDbm = TRUE
SPECIFICATION Spec
INVARIANTS RcpSeesOnlyValid OneRcpCallPerCommand
PROPERTY MfgDisabledSendsNothing
