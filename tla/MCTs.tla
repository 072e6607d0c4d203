------------------------------- MODULE MCTs -------------------------------
(***************************************************************************)
(* Two markets, one obligation in the first and one or two in the second.  *)
(***************************************************************************)
EXTENDS TsLiquidator, TLC

CONSTANTS m1, m2, o1, o2, o3

MCMarkets == <<m1, m2>>
MCHeld2 == (m1 :> {o1}) @@ (m2 :> {o2, o3})
=============================================================================
