---------------------------- MODULE MC_RadioCli ----------------------------
(***************************************************************************)
(* Model-checking instance of RadioCli.  The argument texts are chosen at *)
(* the edges of every check: each range's ends and one past them, values *)
(* that the uint8_t or int8_t cast wraps back into a range (256, 257,     *)
(* 240, 267, 0x106), and a text that is not a number.                     *)
(***************************************************************************)
EXTENDS RadioCli

\* atoi: the decimal value of a decimal text, 0 for a text that is not one
MCAtoi ==
     ("0" :> 0) @@ ("1" :> 1) @@ ("2" :> 2) @@ ("5" :> 5) @@ ("6" :> 6)
  @@ ("7" :> 7) @@ ("8" :> 8) @@ ("11" :> 11) @@ ("12" :> 12)
  @@ ("15" :> 15) @@ ("16" :> 16) @@ ("17" :> 17) @@ ("20" :> 20)
  @@ ("21" :> 21) @@ ("22" :> 22) @@ ("23" :> 23) @@ ("26" :> 26)
  @@ ("27" :> 27) @@ ("31" :> 31) @@ ("32" :> 32) @@ ("33" :> 33)
  @@ ("35" :> 35) @@ ("47" :> 47) @@ ("48" :> 48) @@ ("49" :> 49)
  @@ ("50" :> 50) @@ ("55" :> 55) @@ ("56" :> 56) @@ ("57" :> 57)
  @@ ("58" :> 58) @@ ("59" :> 59) @@ ("99" :> 99) @@ ("127" :> 127)
  @@ ("128" :> 128) @@ ("240" :> 240) @@ ("256" :> 256) @@ ("257" :> 257)
  @@ ("267" :> 267) @@ ("-20" :> -20) @@ ("-21" :> -21) @@ ("-110" :> -110)
  @@ ("-111" :> -111) @@ ("ff" :> 0) @@ ("1ff" :> 1) @@ ("106" :> 106)
  @@ ("x" :> 0)

\* strtol(text, NULL, 16)
MCStrtol16 ==
     ("1" :> 1) @@ ("4" :> 4) @@ ("5" :> 5) @@ ("6" :> 6) @@ ("7" :> 7)
  @@ ("ff" :> 255) @@ ("1ff" :> 511) @@ ("106" :> 262) @@ ("20" :> 32)
  @@ ("12345" :> 74565) @@ ("x" :> 0)

\* mfgcmd: the toggle and the one-argument commands, the set commands
\* with one value, the tests with more arguments, and 12 arguments
MCOneArg == {"0", "1", "256", "257", "x", "11", "12", "15", "31", "32",
             "47", "50", "56", "99"}
MCSetCmds == {"11", "12", "16", "17", "21", "35", "48", "55", "58"}
MCSetValues == {"0", "1", "2", "11", "26", "27", "-20", "-21", "22", "23",
                "-110", "-111", "127", "128", "240", "267", "x"}
MCTail(k) == [i \in 1 .. k |-> "0"]

MCMfgArgs ==
     {<<>>}
  \cup {<<c>> : c \in MCOneArg}
  \cup {<<c, v>> : c \in MCSetCmds, v \in MCSetValues}
  \cup {<<c, a, b>> : c \in {"33", "49"}, a \in {"7", "8"}, b \in {"1", "257"}}
  \cup {<<"57", a, b, d>> : a \in {"7", "8"}, b \in {"5", "6"}, d \in {"1", "2"}}
  \cup {<<"59", "1", "ff", "1ff", "12345">>}
  \cup {<<c, v>> \o MCTail(10) : c \in {"12", "99"}, v \in {"11", "267"}}

MCTxPwrArgs == {<<>>, <<"0">>, <<"1">>, <<"20">>, <<"21">>, <<"257">>,
                <<"1", "1">>}

MCCcaArgs ==
     {<<>>, <<"1">>}
  \cup {<<m, "20", "20", k>> : m \in {"1", "4", "5", "ff", "1ff"},
                               k \in {"6", "7", "106"}}

MCEui64Args ==
     {<<>>}
  \cup {<<[len |-> l, x1 |-> x, hex |-> h]>> : l \in {16, 18}, x \in BOOLEAN,
                                               h \in BOOLEAN}

MCOtherArgs == {<<>>, <<"1">>}
=============================================================================
