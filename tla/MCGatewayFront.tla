--------------------------- MODULE MCGatewayFront ---------------------------
(***************************************************************************)
(* Two payers and two administrators behind one address, one of these      *)
(* reading the list, the other the statistics.                             *)
(***************************************************************************)
EXTENDS GatewayFront

CONSTANTS payer1, payer2, reader, auditor

MCKind == (payer1 :> "payment") @@ (payer2 :> "payment") @@ (reader :> "page") @@ (auditor :> "stats")
MCIp == (payer1 :> "a") @@ (payer2 :> "a") @@ (reader :> "a") @@ (auditor :> "a")
Payers == Permutations({payer1, payer2})
MCAsks == (payer1 :> 1) @@ (payer2 :> 1) @@ (reader :> 2) @@ (auditor :> 1)

=============================================================================
