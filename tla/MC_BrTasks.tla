----------------------------- MODULE MC_BrTasks -----------------------------
(***************************************************************************)
(* Model-checking instance of BrTasks.  The kinds of infrastructure       *)
(* traffic are chosen per run.                                             *)
(***************************************************************************)
EXTENDS BrTasks, TLC

\* infrastructure traffic that reaches OpenThread through a receive hook
MCHookTraffic == {"mdns", "nd"}
\* infrastructure traffic routed to the Thread netif
MCRoutedTraffic == {"toThread"}

\* pbuf chains of one or two pbufs whose lengths sit at the ends of a
\* u16_t, with tot_len right and wrong (tot_len 0 for 1 + 65535 bytes)
MCLens == {0, 1, 65535}
MCPackets ==
  [totLen : MCLens, chain : [1 .. 1 -> MCLens] \cup [1 .. 2 -> MCLens]]
=============================================================================
