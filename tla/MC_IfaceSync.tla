---------------------------- MODULE MC_IfaceSync ----------------------------
(***************************************************************************)
(* Model-checking instance of IfaceSync.  The addresses are those an       *)
(* OpenThread border router holds: the link-local address ll (origin      *)
(* Thread), the mesh-local EID ml (origin Thread), the RLOC rloc, and      *)
(* SLAAC global addresses g1..g3 (g3 no longer preferred).                 *)
(***************************************************************************)
EXTENDS IfaceSync, TLC

\* ll, ml, rloc, g1, g2, g3 are model values declared in the .cfg files
CONSTANTS ll, ml, rloc, g1, g2, g3

MCAddrSmall == {ll, ml, rloc, g1}
MCAddrLarge == {ll, ml, rloc, g1, g2, g3}
MCLinkLocal == {ll}
MCRloc == {rloc}
MCPreferred == {ll, ml, g1, g2}
MCThreadOrigin == {ll, ml, rloc}
=============================================================================
