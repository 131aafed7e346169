----------------------------- MODULE MCLending -----------------------------
(***************************************************************************)
(* A marginfi bank and two Kamino reserves, the second for another mint of *)
(* the same symbol; one token supplied to each of the first two; two calls *)
(* that overlap, each one of the requests below.                           *)
(***************************************************************************)
EXTENDS Lending

CONSTANTS usdc, twin, sol

MCProtocol == <<"marginfi", "kamino", "kamino">>
MCMint == <<usdc, usdc, twin>>
MCFunds == [m \in {usdc, twin, sol} |-> IF m = sol THEN 0 ELSE 1]
MCSupply == <<0, 2, 0>>

Ask(op, protocol) == [NoRequest EXCEPT !.op = op, !.protocol = protocol, !.amount = 1]

MCRequests ==
    {Ask("lend", "auto"), Ask("lend", "marginfi"), Ask("borrow", "auto"),
     Ask("repay", "kamino"), Ask("swap", "auto"), Ask("rebalance", "kamino"),
     [Ask("lend", "kamino") EXCEPT !.dryRun = TRUE],
     [Ask("withdraw", "auto") EXCEPT !.all = TRUE],
     [Ask("repay", "marginfi") EXCEPT !.all = TRUE],
     [Ask("withdraw", "marginfi") EXCEPT !.venue = 2],
     [Ask("swap", "auto") EXCEPT !.dryRun = TRUE],
     [Ask("rebalance", "marginfi") EXCEPT !.target = "kamino", !.dryRun = TRUE],
     [Ask("rebalance", "auto") EXCEPT !.min = -1],
     [Ask("rebalance", "marginfi") EXCEPT !.target = "marginfi"]}

=============================================================================
