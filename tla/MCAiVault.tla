----------------------------- MODULE MCAiVault -----------------------------
(***************************************************************************)
(* Two users with three and two tokens against a u64 scaled down to 0..4,  *)
(* so that their deposits together overflow it; two keys, of which the     *)
(* admin's is one; strategy arguments at and above MAX_STRATEGIES and      *)
(* confidence arguments on both sides of each limit.                       *)
(***************************************************************************)
EXTENDS AiVault

MCFunds == <<3, 2>>
MCStrategyArgs == {0, 8, 9}
MCConfidenceArgs == {69, 70, 101}

=============================================================================
