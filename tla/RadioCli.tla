------------------------------ MODULE RadioCli ------------------------------
(***************************************************************************)
(* The radio_nxp CLI commands of                                           *)
(* src/examples/cli/addons/platform/radio_cli.c.                           *)
(*                                                                         *)
(* ProcessRadio dispatches a command name to one of six handlers.  Each   *)
(* handler parses its argument texts (atoi, strtol base 16, truncated to  *)
(* the C type they are stored in), checks them, and makes at most one     *)
(* call to the radio co-processor (RCP): a 12-byte manufacturing payload  *)
(* (otPlatRadioMfgCommand) or a vendor property get/set.  The only state  *)
(* the file keeps is mfgEnable, which gates the manufacturing commands.   *)
(*                                                                         *)
(* An argument is a text; what the parsers make of it is given by the     *)
(* tables Atoi and Strtol16.  The RCP's answer is a reply [len, status]:  *)
(* outputLen, and the status byte payload[3] (for the property calls, the *)
(* transport error).  rcpCalls and result observe what the last command   *)
(* sent to the RCP and returned to the CLI.                               *)
(***************************************************************************)
EXTENDS Integers, Sequences, TLC

CONSTANTS
  Atoi,          \* atoi(text) of every argument text used below
  Strtol16,      \* strtol(text, NULL, 16) of the texts parsed as hex
  MfgArgs,       \* argument vectors of "mfgcmd"
  TxPwrArgs,     \* argument vectors of "txpwrlimit"
  CcaArgs,       \* argument vectors of "ccacfg"
  Eui64Args,     \* argument vectors of "seteui64"; an argument is
                 \* [len |-> strlen, x1 |-> hex[1] = 'x', hex |-> the 16
                 \*  characters after it are hex digits]
  OtherArgs,     \* argument vectors of "ircmd" and "fwversion"
  RspLens,       \* values of outputLen the RCP may answer with
  TxPwrLimitMax, \* OT_NXP_PLAT_TX_PWR_LIMIT_MAX (platform header)
  HalfDbm        \* OT_NXP_PLAT_TX_PWR_HALF_DBM (platform header)

ASSUME /\ TxPwrLimitMax \in 1 .. 255
       /\ HalfDbm \in BOOLEAN

VARIABLES
  mfgEnable,     \* static uint8_t mfgEnable
  rcpCalls,      \* the RCP calls made by the last command, in order
  result         \* the otError the last command returned

vars == <<mfgEnable, rcpCalls, result>>

Replies == [len : RspLens, status : {0, 1}]

\* C conversions to the narrow types the parsed values are stored in
U8(v)   == v % 256
U16(v)  == v % 65536
Int8(v) == ((v + 128) % 256) - 128

GET == 0    \* MFG_CMD_ACTION_GET
SET == 1    \* MFG_CMD_ACTION_SET

\* uint8_t payload[12] = {11}, with the bytes f sets
Payload(f) ==
  [i \in 0 .. 11 |-> IF i \in DOMAIN f THEN f[i] ELSE IF i = 0 THEN 11 ELSE 0]

Mfg(f) == [to |-> "mfg", payload |-> Payload(f)]

Outcome(err, calls) == [err |-> err, calls |-> calls]
Fail(err) == Outcome(err, <<>>)

\* the error a vendor property call returns
ReplyErr(reply) == IF reply.status = 0 THEN "NONE" ELSE "FAILED"

\* the success test after otPlatRadioMfgCommand: enough output, status 0
MfgErr(reply, minLen) ==
  IF reply.len >= minLen /\ reply.status = 0 THEN "NONE" ELSE "FAILED"

(***************************************************************************)
(* ProcessMfgGetInt8 and ProcessMfgSetInt8, and the commands that use      *)
(* them: the command id typed, the id sent, and the range of the value.   *)
(***************************************************************************)
GetInt8Cmds == {11, 15, 20, 47, 50, 56}

SetInt8Cmds ==
     (12 :> [id |-> 11, min |-> 11,   max |-> 26])
  @@ (16 :> [id |-> 15, min |-> -20,  max |-> 22])
  @@ (17 :> [id |-> 17, min |-> 0,    max |-> 1])
  @@ (21 :> [id |-> 20, min |-> 0,    max |-> 127])
  @@ (35 :> [id |-> 35, min |-> 0,    max |-> 1])
  @@ (48 :> [id |-> 47, min |-> -110, max |-> 0])
  @@ (55 :> [id |-> 55, min |-> -127, max |-> 127])
  @@ (58 :> [id |-> 58, min |-> 0,    max |-> 1])

TXPOWER == 15

ProcessMfgGetInt8(cmdId, n, reply) ==
  IF n # 1 THEN Fail("INVALID_ARGS")
  ELSE Outcome(MfgErr(reply, 5), <<Mfg((1 :> cmdId) @@ (2 :> GET))>>)

\* payload[4]: the value, in half dBm for the tx power
SetByte(cmdId, v) ==
  IF cmdId = TXPOWER /\ HalfDbm THEN (U8(v) * 2) % 256 ELSE U8(v)

\* mutant: the range test written with || instead of &&
ProcessMfgSetInt8Or(cmdId, args, min, max, reply) ==
  IF Len(args) # 2 THEN Fail("INVALID_ARGS")
  ELSE LET setValue == Int8(Atoi[args[2]]) IN
       IF setValue >= min \/ setValue <= max
       THEN Outcome(MfgErr(reply, 4),
              <<Mfg((1 :> cmdId) @@ (2 :> SET)
                    @@ (4 :> SetByte(cmdId, setValue)))>>)
       ELSE Fail("INVALID_ARGS")

\* mutant: the argument count is not checked
ProcessMfgSetInt8AnyCount(cmdId, args, min, max, reply) ==
  IF Len(args) < 2 THEN Fail("INVALID_ARGS")
  ELSE LET setValue == Int8(Atoi[args[2]]) IN
       IF setValue >= min /\ setValue <= max
       THEN Outcome(MfgErr(reply, 4),
              <<Mfg((1 :> cmdId) @@ (2 :> SET)
                    @@ (4 :> SetByte(cmdId, setValue)))>>)
       ELSE Fail("INVALID_ARGS")

\* setValue = (int8_t)atoi(aArgs[1]), checked against [min, max]
ProcessMfgSetInt8(cmdId, args, min, max, reply) ==
  IF Len(args) # 2 THEN Fail("INVALID_ARGS")
  ELSE LET setValue == Int8(Atoi[args[2]]) IN
       IF setValue >= min /\ setValue <= max
       THEN Outcome(MfgErr(reply, 4),
              <<Mfg((1 :> cmdId) @@ (2 :> SET)
                    @@ (4 :> SetByte(cmdId, setValue)))>>)
       ELSE Fail("INVALID_ARGS")

(***************************************************************************)
(* The cases of ProcessMfgCommands with their own parsing.                 *)
(***************************************************************************)
GetRxResult(n, reply) ==
  IF n # 1 THEN Fail("INVALID_ARGS")
  ELSE Outcome(IF reply.len >= 11 THEN "NONE" ELSE "FAILED",
               <<Mfg((1 :> 31) @@ (2 :> GET))>>)

\* the answer is not looked at
StartRxTest(n) ==
  IF n # 1 THEN Fail("INVALID_ARGS")
  ELSE Outcome("NONE", <<Mfg(1 :> 32)>>)

\* payload[2] is left at 0 and the answer is not looked at
BurstTx(args) ==
  IF Len(args) # 3 THEN Fail("INVALID_ARGS")
  ELSE LET mode == U8(Atoi[args[2]]) IN
       IF mode < 8
       THEN Outcome("NONE", <<Mfg((1 :> 33) @@ (4 :> mode)
                                  @@ (5 :> U8(Atoi[args[3]])))>>)
       ELSE Fail("INVALID_ARGS")

ContinuousCcaTest(args, reply) ==
  IF Len(args) # 3 THEN Fail("INVALID_ARGS")
  ELSE Outcome(MfgErr(reply, 4),
               <<Mfg((1 :> 49) @@ (2 :> SET) @@ (4 :> U8(Atoi[args[2]]))
                     @@ (5 :> U8(Atoi[args[3]])))>>)

PhyTxTestPsdu(args, reply) ==
  IF Len(args) # 4 THEN Fail("INVALID_ARGS")
  ELSE LET countOpt  == U8(Atoi[args[2]])
           gap       == U8(Atoi[args[3]])
           ackEnable == U8(Atoi[args[4]])
       IN IF countOpt < 8 /\ gap > 5 /\ ackEnable < 2
          THEN Outcome(MfgErr(reply, 5),
                 <<Mfg((1 :> 57) @@ (2 :> SET) @@ (4 :> countOpt)
                       @@ (5 :> gap) @@ (6 :> ackEnable))>>)
          ELSE Fail("FAILED")

\* PAN id and short addresses as two little-endian bytes each
SetGenericParam(args, reply) ==
  IF Len(args) # 5 THEN Fail("INVALID_ARGS")
  ELSE LET panid    == U16(Strtol16[args[3]])
           destaddr == U16(Strtol16[args[4]])
           srcaddr  == U16(Strtol16[args[5]])
       IN Outcome(MfgErr(reply, 5),
            <<Mfg((1 :> 59) @@ (2 :> SET) @@ (4 :> U8(Atoi[args[2]]))
                  @@ (5 :> panid % 256) @@ (6 :> panid \div 256)
                  @@ (7 :> destaddr % 256) @@ (8 :> destaddr \div 256)
                  @@ (9 :> srcaddr % 256) @@ (10 :> srcaddr \div 256))>>)

\* switch (cmdId)
MfgSwitch(args, reply) ==
  LET cmdId == U8(Atoi[args[1]])
      n     == Len(args)
  IN CASE cmdId \in GetInt8Cmds -> ProcessMfgGetInt8(cmdId, n, reply)
       [] cmdId \in DOMAIN SetInt8Cmds ->
            LET c == SetInt8Cmds[cmdId]
            IN ProcessMfgSetInt8(c.id, args, c.min, c.max, reply)
       [] cmdId = 31 -> GetRxResult(n, reply)
       [] cmdId = 32 -> StartRxTest(n)
       [] cmdId = 33 -> BurstTx(args)
       [] cmdId = 49 -> ContinuousCcaTest(args, reply)
       [] cmdId = 57 -> PhyTxTestPsdu(args, reply)
       [] cmdId = 59 -> SetGenericParam(args, reply)
       [] OTHER      -> Fail("NOT_IMPLEMENTED")

\* the 12 arguments sent as the payload itself
RawPayload(args) == [to |-> "raw", payload |-> [i \in 0 .. 11 |-> U8(Atoi[args[i + 1]])]]

\* "HANDLE ERRORS": a failed command with 12 arguments is sent raw, and the
\* command then reports success whatever the RCP answers
HandleErrors(o, args) ==
  IF o.err # "NONE" /\ Len(args) = 12
  THEN Outcome("NONE", Append(o.calls, RawPayload(args)))
  ELSE o

\* the toggle: one argument that atoi and the uint8_t cast make 0 or 1
IsToggle(args) == Len(args) = 1 /\ U8(Atoi[args[1]]) \in {0, 1}

\* mutant: the mfgEnable test does not break out of the do-while
ProcessMfgCommandsNoBreak(args, reply) ==
  IF IsToggle(args) THEN Fail("NONE")
  ELSE IF mfgEnable = 0 THEN HandleErrors(Fail("FAILED"), args)
  ELSE HandleErrors(IF Len(args) > 0 THEN MfgSwitch(args, reply)
                                     ELSE Fail("INVALID_ARGS"), args)

ProcessMfgCommands(args, reply) ==
  IF IsToggle(args) THEN Fail("NONE")
  ELSE IF mfgEnable = 0 THEN Fail("FAILED")
  ELSE HandleErrors(IF Len(args) > 0 THEN MfgSwitch(args, reply)
                                     ELSE Fail("INVALID_ARGS"), args)

(***************************************************************************)
(* The other handlers.                                                     *)
(***************************************************************************)
ProcessIRCmd(reply) == Outcome(ReplyErr(reply), <<[to |-> "reset"]>>)

ProcessSetEui64(args, reply) ==
  IF Len(args) = 1 /\ args[1].x1 /\ args[1].len = 18 /\ args[1].hex
  THEN Outcome(ReplyErr(reply), <<[to |-> "set", prop |-> "eui64", val |-> 0]>>)
  ELSE Fail("INVALID_ARGS")

ProcessTxPowerLimit(args, reply) ==
  CASE Len(args) = 1 ->
         LET limit == U8(Atoi[args[1]]) IN
         IF limit >= 1 /\ limit <= TxPwrLimitMax
         THEN Outcome(ReplyErr(reply),
                      <<[to |-> "set", prop |-> "txpwrlimit", val |-> limit]>>)
         ELSE Fail("INVALID_ARGS")
    [] Len(args) = 0 ->
         Outcome(ReplyErr(reply), <<[to |-> "get", prop |-> "txpwrlimit"]>>)
    [] OTHER -> Fail("INVALID_ARGS")

ProcessGetSetCcaCfg(args, reply) ==
  CASE Len(args) = 4 ->
         LET cfg == [i \in 1 .. 4 |-> U8(Strtol16[args[i]])] IN
         IF (cfg[1] \in 1 .. 4 \/ cfg[1] = 255) /\ cfg[4] <= 6
         THEN Outcome(ReplyErr(reply),
                      <<[to |-> "set", prop |-> "cca", val |-> cfg]>>)
         ELSE Fail("INVALID_ARGS")
    [] Len(args) = 0 ->
         Outcome(ReplyErr(reply), <<[to |-> "get", prop |-> "cca"]>>)
    [] OTHER -> Fail("INVALID_ARGS")

ProcessGetFwVersion(args, reply) ==
  IF Len(args) = 0
  THEN Outcome(ReplyErr(reply), <<[to |-> "get", prop |-> "fwversion"]>>)
  ELSE Fail("INVALID_ARGS")

(***************************************************************************)
(* ProcessRadio: one action per command of radioCommands; no name, or a   *)
(* name not in the table, is INVALID_ARGS.                                 *)
(***************************************************************************)
Done(o) ==
  /\ result' = o.err
  /\ rcpCalls' = o.calls

RadioInvalid ==
  /\ Done(Fail("INVALID_ARGS"))
  /\ UNCHANGED mfgEnable

MfgCmd ==
  \E args \in MfgArgs, reply \in Replies :
    /\ Done(ProcessMfgCommands(args, reply))
    /\ mfgEnable' = IF IsToggle(args) THEN U8(Atoi[args[1]]) ELSE mfgEnable

IrCmd ==
  \E reply \in Replies :
    /\ Done(ProcessIRCmd(reply))
    /\ UNCHANGED mfgEnable

SetEui64 ==
  \E args \in Eui64Args, reply \in Replies :
    /\ Done(ProcessSetEui64(args, reply))
    /\ UNCHANGED mfgEnable

TxPowerLimit ==
  \E args \in TxPwrArgs, reply \in Replies :
    /\ Done(ProcessTxPowerLimit(args, reply))
    /\ UNCHANGED mfgEnable

CcaCfg ==
  \E args \in CcaArgs, reply \in Replies :
    /\ Done(ProcessGetSetCcaCfg(args, reply))
    /\ UNCHANGED mfgEnable

FwVersion ==
  \E args \in OtherArgs, reply \in Replies :
    /\ Done(ProcessGetFwVersion(args, reply))
    /\ UNCHANGED mfgEnable

Init ==
  /\ mfgEnable = 0
  /\ rcpCalls = <<>>
  /\ result = "NONE"

Next ==
  \/ RadioInvalid \/ MfgCmd \/ IrCmd \/ SetEui64 \/ TxPowerLimit \/ CcaCfg
  \/ FwVersion

Spec == Init /\ [][Next]_vars

(***************************************************************************)
(* Properties                                                              *)
(***************************************************************************)
\* the value range of each manufacturing set command, by the id it sends
SetRange(id) ==
  LET c == CHOOSE k \in DOMAIN SetInt8Cmds : SetInt8Cmds[k].id = id
  IN SetInt8Cmds[c].min .. SetInt8Cmds[c].max

\* the fields of a manufacturing payload the RCP acts on, read as it
\* reads them (a signed byte; half dBm for the tx power), are in range
MfgFieldsValid(p) ==
  /\ (p[2] = SET /\ p[1] \in {SetInt8Cmds[k].id : k \in DOMAIN SetInt8Cmds})
       => IF p[1] = TXPOWER /\ HalfDbm
          THEN Int8(p[4]) \in {2 * v : v \in SetRange(p[1])}
          ELSE Int8(p[4]) \in SetRange(p[1])
  /\ p[1] = 33 => p[4] < 8
  /\ p[1] = 57 => p[4] < 8 /\ p[5] > 5 /\ p[6] < 2

(***************************************************************************)
(* Whatever the operator types, every value a parsed command hands to the *)
(* RCP is in the range its handler documents, as the RCP decodes it: a    *)
(* manufacturing set value, read as a signed byte (and as half dBm for    *)
(* the tx power), the burst and PSDU test options, the tx power limit     *)
(* and the CCA mode and correlation count.  The texts go through atoi or  *)
(* strtol, a cast to a narrow type and, for the tx power, a shift before  *)
(* they are sent; the raw 12-argument payload is sent unchecked by design *)
(* and is not covered.                                                    *)
(***************************************************************************)
RcpSeesOnlyValid ==
  \A i \in DOMAIN rcpCalls :
    LET c == rcpCalls[i] IN
    /\ c.to = "mfg" => MfgFieldsValid(c.payload)
    /\ (c.to = "set" /\ c.prop = "txpwrlimit") => c.val \in 1 .. TxPwrLimitMax
    /\ (c.to = "set" /\ c.prop = "cca")
         => (c.val[1] \in 1 .. 4 \/ c.val[1] = 255) /\ c.val[4] <= 6

(***************************************************************************)
(* A CLI command reaches the RCP at most once: the raw payload of a       *)
(* 12-argument mfgcmd is sent only when the parsed command sent nothing,  *)
(* which rests on every handler checking its argument count.              *)
(***************************************************************************)
OneRcpCallPerCommand == Len(rcpCalls) <= 1

(***************************************************************************)
(* While manufacturing mode is off, no command sends a manufacturing or   *)
(* raw payload to the RCP (the gate of ProcessMfgCommands, radio_cli.c    *)
(* 373-379, ahead of both the switch and the raw path).                   *)
(***************************************************************************)
MfgDisabledSendsNothing ==
  [][(mfgEnable = 0 /\ mfgEnable' = 0)
       => \A i \in DOMAIN rcpCalls' : rcpCalls'[i].to \notin {"mfg", "raw"}]_vars


=============================================================================
