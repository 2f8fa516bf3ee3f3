---------------------------- MODULE MCHintManager ---------------------------
(***************************************************************************)
(* Model of HintManager on two nodes with the hints of a small power-hal  *)
(* config: LAUNCH and INTERACTION contend for both nodes, MASK_LAUNCH      *)
(* masks LAUNCH, CHAIN does LAUNCH and ends INTERACTION.                   *)
(***************************************************************************)
EXTENDS HintManager

CONSTANTS n0, n1, LAUNCH, INTERACTION, MASK_LAUNCH, CHAIN, c1

MCNodes == {n0, n1}
MCOwners == {LAUNCH, INTERACTION, MASK_LAUNCH, CHAIN}
MCDefault == [n \in MCNodes |-> 2]

Act(n, v, t) == [node |-> n, value |-> v, timeout |-> t]
HA(t, v) == [type |-> t, value |-> v]

\* LAUNCH: n0 -> 0 until cancelled, n1 -> 0 for 2 ticks.
\* INTERACTION: n0 -> 1 for 2 ticks, n1 -> 1 until cancelled.
MCHintNodeActions ==
  [h \in Owners |->
     CASE h = LAUNCH      -> {Act(n0, 0, 0), Act(n1, 0, 2)}
       [] h = INTERACTION -> {Act(n0, 1, 2), Act(n1, 1, 0)}
       [] OTHER           -> {}]

MCHintActions ==
  [h \in Owners |->
     CASE h = MASK_LAUNCH -> <<HA("MaskHint", LAUNCH)>>
       [] h = CHAIN       -> <<HA("DoHint", LAUNCH), HA("EndHint", INTERACTION)>>
       [] OTHER           -> <<>>]

MCCallers1 == {c1}
=============================================================================
