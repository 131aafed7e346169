----------------------------- MODULE MCTreasury -----------------------------
(***************************************************************************)
(* Two keys that take every role, one of them paying fees in the SDK's     *)
(* mint or another, rates at, below and above a cap of half the            *)
(* denominator, a u64 of 0..3 that the payer's fees can overflow, and two  *)
(* decisions.                                                              *)
(***************************************************************************)
EXTENDS Treasury, TLC

CONSTANTS a, b, usdc, other

MCFunds == <<a, usdc>> :> 0 @@ <<a, other>> :> 0 @@ <<b, usdc>> :> 2 @@ <<b, other>> :> 2
MCStartRates == [op \in Ops |-> 0]

=============================================================================
