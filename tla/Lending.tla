------------------------------ MODULE Lending ------------------------------
(***************************************************************************)
(* The money operations of the SDK's agent facade (sdk/src/index.ts) that  *)
(* end in other programs: lend, borrow, withdraw, repay and rebalance of   *)
(* lending.ts, the Jupiter swap of swap.ts, and the best-effort fee after  *)
(* lend, borrow and swap. A call is an async function: between its awaits  *)
(* other calls of the same wallet run, rates move, a transaction that was  *)
(* sent can fail, or land after its await threw.                           *)
(*                                                                         *)
(* A venue is one marginfi bank or one Kamino reserve. Venues match an     *)
(* asset by mint or by symbol, so the venues of one asset may be of        *)
(* different mints. They are numbered in the order their rates are loaded. *)
(* Amounts are in one unit per mint. Rates are those a quote may contain,  *)
(* whatever they are. Definitions named X_Y are X with a mistake Y in it.  *)
(***************************************************************************)
EXTENDS Integers, Sequences, FiniteSetsExt

CONSTANTS
    Jobs,             \* calls of the facade
    Requests,         \* what a call may ask for
    NumVenues,        \* venues of the asset, 1..NumVenues
    Protocol,         \* Protocol[v]: "marginfi" or "kamino"
    Mint,             \* Mint[v]
    SwapTo,           \* the mint swaps buy
    StartFunds,       \* StartFunds[m]: tokens of mint m in the wallet
    StartSupply,      \* StartSupply[v]: supplied before, by account 1
    MaxApy            \* bound on the rates quoted

Venues == 1..NumVenues
Mints == {Mint[v] : v \in Venues} \cup {SwapTo}

\* Two marginfi accounts at most; Kamino's obligation is always number 1.
Accounts == 1..2
Selectors == {"auto", "marginfi", "kamino"}
None == 0

ASSUME VenuesAssumption ==
    /\ NumVenues \in Nat \ {0} /\ MaxApy \in Nat
    /\ Protocol \in [Venues -> {"marginfi", "kamino"}]
    /\ StartFunds \in [Mints -> Nat]
    /\ StartSupply \in [Venues -> Nat]

\* An amount that is not positive throws, one below half a unit rounds to 0.
\* The threshold of a rebalance is any number, a negative one too.
Operations == {"lend", "borrow", "withdraw", "repay", "rebalance", "swap"}

ASSUME RequestsAssumption ==
    /\ Requests \subseteq [op : Operations, protocol : Selectors, venue : Venues \cup {None},
                           target : Selectors, amount : Nat, all : BOOLEAN,
                           dryRun : BOOLEAN, min : Int]
    /\ IsFiniteSet(Jobs)

VARIABLES
    wallet,    \* wallet[m]: tokens of mint m
    supplied,  \* supplied[v][a]: supplied to v by account a
    owed,      \* owed[v][a]: borrowed from v by account a
    accounts,  \* how many marginfi accounts the wallet has
    fees,      \* fee transactions that have landed
    job        \* job[j]: where a call is, and what it holds

world == <<wallet, supplied, owed, accounts>>
vars == <<world, fees, job>>

Ended == {"done", "skipped", "threw"}

NoRequest == [op |-> "none", protocol |-> "auto", venue |-> None, target |-> "auto",
              amount |-> 0, all |-> FALSE, dryRun |-> FALSE, min |-> 0]

NoJob == [pc |-> "idle", req |-> NoRequest, legs |-> <<>>, account |-> None,
          quoted |-> <<>>, did |-> {}, fee |-> FALSE]

Init ==
    /\ wallet = StartFunds
    /\ supplied = [v \in Venues |-> [a \in Accounts |-> IF a = 1 THEN StartSupply[v] ELSE 0]]
    /\ owed = [v \in Venues |-> [a \in Accounts |-> 0]]
    /\ accounts \in {n \in 0..1 : (\E v \in Venues : Protocol[v] = "marginfi" /\ StartSupply[v] > 0)
                                     => n = 1}
    /\ fees = 0
    /\ job = [j \in Jobs |-> NoJob]

-----------------------------------------------------------------------------
(* Choosing a venue                                                        *)

SortRatesDescending_Ascending(S, rates) ==
    CHOOSE v \in S : \A w \in S \ {v} : rates[v] < rates[w] \/ (rates[v] = rates[w] /\ v < w)

\* sortRatesDescending(...)[0]: the sort is stable, so the first of the best.
SortRatesDescending(S, rates) ==
    CHOOSE v \in S : \A w \in S \ {v} : rates[v] > rates[w] \/ (rates[v] = rates[w] /\ v < w)

Of(selector) == {v \in Venues : selector \in {"auto", Protocol[v]}}

\* getMarginfiRates gives one venue for each matching bank,
GetMarginfiRates == {v \in Venues : Protocol[v] = "marginfi"}
\* getKaminoRates one for each matching reserve of each market.
GetKaminoRates == {v \in Venues : Protocol[v] = "kamino"}

\* getLendingRates: what a call loads; rebalance always loads everything.
GetLendingRates(selector) ==
    (IF selector \in {"auto", "marginfi"} THEN GetMarginfiRates ELSE {})
      \cup (IF selector \in {"auto", "kamino"} THEN GetKaminoRates ELSE {})

\* pickBestLendingRate
PickBestLendingRate(S, selector, rates) == SortRatesDescending(S \cap Of(selector), rates)

\* resolveOpportunity: the best of those that match the protocol and the
\* address asked for, whether or not the funds are there.
Matching(S, req) == {v \in S \cap Of(req.protocol) : req.venue \in {None, v}}
ResolveOpportunity(S, req, rates) == SortRatesDescending(Matching(S, req), rates)

\* pickRebalanceTarget: the best of the others (isSameOpportunity).
PickRebalanceTarget(current, selector, rates) ==
    SortRatesDescending(Of(selector) \ {current}, rates)

-----------------------------------------------------------------------------
(* What the other programs do with a transaction                           *)

Sum(f) == FoldSet(LAMBDA a, b : f[a] + b, 0, DOMAIN f)
InProtocol(f, p, a) == Sum([v \in {w \in Venues : Protocol[w] = p} |-> f[v][a]])

Deposit(v, a, n) ==
    /\ n <= wallet[Mint[v]]
    /\ wallet' = [wallet EXCEPT ![Mint[v]] = @ - n]
    /\ supplied' = [supplied EXCEPT ![v][a] = @ + n]
    /\ UNCHANGED <<owed, accounts>>

\* A withdrawal must leave the debt covered.
TakeOut(v, a, n) ==
    /\ n <= supplied[v][a]
    /\ InProtocol(owed, Protocol[v], a) <= InProtocol(supplied, Protocol[v], a) - n
    /\ wallet' = [wallet EXCEPT ![Mint[v]] = @ + n]
    /\ supplied' = [supplied EXCEPT ![v][a] = @ - n]
    /\ UNCHANGED <<owed, accounts>>

Lent(v, a, n) ==
    /\ InProtocol(owed, Protocol[v], a) + n <= InProtocol(supplied, Protocol[v], a)
    /\ wallet' = [wallet EXCEPT ![Mint[v]] = @ + n]
    /\ owed' = [owed EXCEPT ![v][a] = @ + n]
    /\ UNCHANGED <<supplied, accounts>>

PaidBack(v, a, n) ==
    /\ n <= wallet[Mint[v]] /\ n <= owed[v][a]
    /\ wallet' = [wallet EXCEPT ![Mint[v]] = @ - n]
    /\ owed' = [owed EXCEPT ![v][a] = @ - n]
    /\ UNCHANGED <<supplied, accounts>>

\* A swap gives what the quote promised, less the slippage at most.
Swapped(n, out) ==
    /\ n <= wallet[Mint[1]] /\ out >= 0
    /\ wallet' = [wallet EXCEPT ![Mint[1]] = @ - n, ![SwapTo] = @ + out]
    /\ UNCHANGED <<supplied, owed, accounts>>

-----------------------------------------------------------------------------
(* lending.ts: the transaction each leg sends                              *)

LendWithMarginfi(v, a, n) == Deposit(v, a, n)
LendWithKamino(v, n) == Deposit(v, 1, n)

BorrowWithMarginfi(v, a, n) == Lent(v, a, n)
BorrowWithKamino(v, n) == Lent(v, 1, n)

WithdrawWithMarginfi(v, a, n, all) == TakeOut(v, a, IF all THEN supplied[v][a] ELSE n)

\* The Kamino functions are not told about `all`.
WithdrawWithKamino(v, n) == TakeOut(v, 1, n)

RepayWithMarginfi(v, a, n, all) == PaidBack(v, a, IF all THEN owed[v][a] ELSE n)
RepayWithKamino(v, n) == PaidBack(v, 1, n)

\* The leg's function, with the account the call looked up.
Transact(leg, a, req) ==
    LET v == leg.venue
        n == req.amount
    IN  IF leg.op = "swap" THEN \E out \in {n - 1, n} : Swapped(n, out)
        ELSE IF Protocol[v] = "marginfi"
        THEN \/ leg.op = "lend" /\ LendWithMarginfi(v, a, n)
             \/ leg.op = "borrow" /\ BorrowWithMarginfi(v, a, n)
             \/ leg.op = "withdraw" /\ WithdrawWithMarginfi(v, a, n, req.all)
             \/ leg.op = "repay" /\ RepayWithMarginfi(v, a, n, req.all)
        ELSE \/ leg.op = "lend" /\ LendWithKamino(v, n)
             \/ leg.op = "borrow" /\ BorrowWithKamino(v, n)
             \/ leg.op = "withdraw" /\ WithdrawWithKamino(v, n)
             \/ leg.op = "repay" /\ RepayWithKamino(v, n)

-----------------------------------------------------------------------------
(* The calls                                                               *)

Leg(op, v) == [op |-> op, venue |-> v]

End(j, how) == [job EXCEPT ![j] = [@ EXCEPT !.pc = how, !.legs = <<>>, !.account = None,
                                            !.quoted = <<>>]]

\* A tool of the MCP server or a command of the CLI calls the facade.
Call(j, req) ==
    /\ job[j] = NoJob
    /\ job' = [job EXCEPT ![j].pc = "quoting", ![j].req = req]
    /\ UNCHANGED <<world, fees>>

\* The rates are here: with one leg to do, `j` goes on to send it, or, for a
\* dry run, on to its end. With account lookups the dry run of a marginfi
\* action comes after the lookup, see LookUpAccount.
Planned(j, legs, rates) ==
    job' = [job EXCEPT ![j].pc = "leg", ![j].legs = legs, ![j].quoted = rates]

\* lend
PlanLend(j, rates) ==
    LET req == job[j].req
        S == GetLendingRates(req.protocol)
    IN  /\ req.op = "lend" /\ S # {}
        /\ Planned(j, <<Leg("lend", PickBestLendingRate(S, req.protocol, rates))>>, rates)

\* borrow
PlanBorrow(j, rates) ==
    LET req == job[j].req
        S == GetLendingRates(req.protocol)
    IN  /\ req.op = "borrow" /\ Matching(S, req) # {}
        /\ Planned(j, <<Leg("borrow", ResolveOpportunity(S, req, rates))>>, rates)

\* withdraw
PlanWithdraw(j, rates) ==
    LET req == job[j].req
        S == GetLendingRates(req.protocol)
    IN  /\ req.op = "withdraw" /\ Matching(S, req) # {}
        /\ Planned(j, <<Leg("withdraw", ResolveOpportunity(S, req, rates))>>, rates)

\* repay
PlanRepay(j, rates) ==
    LET req == job[j].req
        S == GetLendingRates(req.protocol)
    IN  /\ req.op = "repay" /\ Matching(S, req) # {}
        /\ Planned(j, <<Leg("repay", ResolveOpportunity(S, req, rates))>>, rates)

\* rebalance: skipped without another venue or without enough of a gain;
\* a dry run says it was rebalanced.
PlanRebalance(j, rates) ==
    LET req == job[j].req
        from == ResolveOpportunity(Venues, req, rates)
        others == Of(req.target) \ {from}
        to == PickRebalanceTarget(from, req.target, rates)
    IN  /\ req.op = "rebalance" /\ Matching(Venues, req) # {}
        /\ IF others = {} THEN job' = End(j, "skipped")
           ELSE IF rates[to] - rates[from] <= req.min THEN job' = End(j, "skipped")
           ELSE IF req.dryRun THEN job' = End(j, "done")
           ELSE Planned(j, <<Leg("withdraw", from), Leg("lend", to)>>, rates)

\* getSwapQuote; a dry run returns the quote.
PlanSwap(j) ==
    /\ job[j].req.op = "swap"
    /\ job' = IF job[j].req.dryRun THEN End(j, "done")
              ELSE [job EXCEPT ![j].pc = "leg", ![j].legs = <<Leg("swap", 1)>>]

Quote(j) ==
    /\ job[j].pc = "quoting"
    /\ \/ \E rates \in [Venues -> 0..MaxApy] :
             \/ PlanLend(j, rates) \/ PlanBorrow(j, rates)
             \/ PlanWithdraw(j, rates) \/ PlanRepay(j, rates)
             \/ PlanRebalance(j, rates)
       \/ PlanSwap(j)
    /\ UNCHANGED <<world, fees>>

\* Nothing matches the request.
NoOpportunity(j) ==
    /\ job[j].pc = "quoting" /\ job[j].req.op # "swap"
    /\ Matching(GetLendingRates(job[j].req.protocol), job[j].req) = {}
    /\ job' = End(j, "threw")
    /\ UNCHANGED <<world, fees>>

\* The facade takes a fee after lend, borrow and swap, dry run or not.
AfterLegs(j) ==
    IF job[j].req.op \in {"lend", "borrow", "swap"} THEN [job EXCEPT ![j].pc = "fee"]
    ELSE End(j, "done")

\* Before its transaction a leg looks up the marginfi account: any of those
\* there are. lend makes one when it sees none, the others throw; a dry run
\* of a single action ends here, that of lend and of Kamino before the lookup.
LookUpAccount(j) ==
    LET req == job[j].req
        leg == Head(job[j].legs)
        looksUp == leg.op # "swap" /\ Protocol[leg.venue] = "marginfi"
                     /\ ~(req.dryRun /\ leg.op = "lend")
    IN  /\ job[j].pc = "leg"
        /\ IF looksUp /\ accounts = 0
           THEN job' = IF leg.op = "lend" THEN [job EXCEPT ![j].pc = "creating"]
                       ELSE End(j, "threw")
           ELSE IF req.dryRun THEN job' = AfterLegs(j)
           ELSE \E a \in IF looksUp THEN 1..accounts ELSE {1} :
                   job' = [job EXCEPT ![j].pc = "sent", ![j].account = a]
        /\ UNCHANGED <<world, fees>>

\* createMarginfiAccount, a transaction of its own.
CreateAccount(j) ==
    /\ job[j].pc = "creating"
    /\ accounts < 2
    /\ accounts' = accounts + 1
    /\ job' = [job EXCEPT ![j].pc = "sent", ![j].account = accounts + 1]
    /\ UNCHANGED <<wallet, supplied, owed, fees>>

\* The transaction lands and the await returns: on to the next leg.
Land(j) ==
    LET leg == Head(job[j].legs) IN
    /\ job[j].pc = "sent"
    /\ Transact(leg, job[j].account, job[j].req)
    /\ job' = IF Len(job[j].legs) > 1
              THEN [job EXCEPT ![j].pc = "leg", ![j].legs = Tail(@), ![j].did = @ \cup {leg.op}]
              ELSE [AfterLegs(j) EXCEPT ![j].did = @ \cup {leg.op}]
    /\ UNCHANGED fees

Fails_RestSent(j) ==
    /\ job[j].pc \in {"quoting", "leg", "creating", "sent"}
    /\ job' = IF job[j].pc = "sent" /\ Len(job[j].legs) > 1
              THEN [job EXCEPT ![j].pc = "leg", ![j].legs = Tail(@)]
              ELSE End(j, "threw")
    /\ UNCHANGED <<world, fees>>

Fails_FeeInFinally(j) ==
    /\ job[j].pc \in {"quoting", "leg", "creating", "sent"}
    /\ job' = IF job[j].req.op = "lend" THEN [job EXCEPT ![j].pc = "fee"] ELSE End(j, "threw")
    /\ UNCHANGED <<world, fees>>

\* A request or a transaction fails, and the call throws; nothing is undone.
Fails(j) ==
    /\ job[j].pc \in {"quoting", "leg", "creating", "sent"}
    /\ job' = End(j, "threw")
    /\ UNCHANGED <<world, fees>>

\* The await throws, or the process dies, with the transaction under way.
Loses(j) ==
    /\ job[j].pc = "sent"
    /\ job' = [job EXCEPT ![j].pc = "lost"]
    /\ UNCHANGED <<world, fees>>

LandsLate(j) ==
    LET leg == Head(job[j].legs) IN
    /\ job[j].pc = "lost"
    /\ Transact(leg, job[j].account, job[j].req)
    /\ job' = [End(j, "threw") EXCEPT ![j].did = @ \cup {leg.op}]
    /\ UNCHANGED fees

NeverLands(j) ==
    /\ job[j].pc = "lost"
    /\ job' = End(j, "threw")
    /\ UNCHANGED <<world, fees>>

\* tryCollectFee: a transaction of its own, whose failure is swallowed.
TryCollectFee(j) ==
    /\ job[j].pc = "fee"
    /\ \/ fees' = fees + 1 /\ job' = [End(j, "done") EXCEPT ![j].fee = TRUE]
       \/ fees' = fees /\ job' = End(j, "done")
    /\ UNCHANGED world

Settles(j) ==
    Quote(j) \/ NoOpportunity(j) \/ LookUpAccount(j) \/ CreateAccount(j) \/ Land(j)
      \/ Fails(j) \/ LandsLate(j) \/ NeverLands(j) \/ TryCollectFee(j)

Next ==
    \E j \in Jobs : (\E req \in Requests : Call(j, req)) \/ Settles(j) \/ Loses(j)

Spec == Init /\ [][Next]_vars

-----------------------------------------------------------------------------
(* Properties                                                              *)

\* Balances stay natural numbers, and a call holds an account that exists.
TypeOK ==
    /\ wallet \in [Mints -> Nat]
    /\ supplied \in [Venues -> [Accounts -> Nat]]
    /\ owed \in [Venues -> [Accounts -> Nat]]
    /\ accounts \in 0..2
    /\ fees \in Nat
    /\ \A j \in Jobs :
          /\ job[j].pc \in {"idle", "quoting", "leg", "creating", "sent", "lost", "fee"} \cup Ended
          /\ job[j].pc \in {"sent", "lost"} => job[j].account \in Accounts
          /\ (job[j].pc = "sent" /\ job[j].account > accounts) =>
                LET leg == Head(job[j].legs) IN leg.op = "swap" \/ Protocol[leg.venue] = "kamino"

\* rebalance moves the funds in two transactions and compensates nothing.
\* Still: it never lends what it has not taken out first; when it says
\* "rebalanced" it did both (or was a dry run and did neither); and funds
\* taken out and not lent belong to a call that threw or is under way.
RebalanceWholeOrThrown ==
    \A j \in Jobs :
        LET did == job[j].did IN
        job[j].req.op = "rebalance" =>
          /\ "lend" \in did => "withdraw" \in did
          /\ job[j].pc = "done" => did = IF job[j].req.dryRun THEN {} ELSE {"withdraw", "lend"}
          /\ job[j].pc = "skipped" => did = {}

\* With the rates a call has seen, and there may be others by now: a lend
\* goes where no eligible venue paid more, and a rebalance only to a venue
\* that paid more than the one it leaves by over the threshold (which may be
\* negative), the best of the others of the protocol asked for.
MovesUpOnly ==
    \A j \in Jobs :
        LET req == job[j].req
            rates == job[j].quoted
            legs == job[j].legs
        IN  rates # <<>> =>
              /\ req.op = "lend" => \A w \in Of(req.protocol) : rates[w] <= rates[legs[1].venue]
              /\ (req.op = "rebalance" /\ Len(legs) = 2) =>
                    /\ rates[legs[2].venue] > rates[legs[1].venue] + req.min
                    /\ \A w \in Of(req.target) \ {legs[1].venue} : rates[w] <= rates[legs[2].venue]

\* The fee comes after the operation and once: a call that threw paid none,
\* and one that paid did its operation (or was a dry run of lend or borrow).
FeeAfterOperation ==
    /\ fees = Cardinality({j \in Jobs : job[j].fee})
    /\ \A j \in Jobs : job[j].fee =>
          /\ job[j].pc = "done"
          /\ \/ job[j].did = {job[j].req.op}
             \/ job[j].req.dryRun /\ job[j].req.op # "swap" /\ job[j].did = {}

=============================================================================
