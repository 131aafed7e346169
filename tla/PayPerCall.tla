----------------------------- MODULE PayPerCall -----------------------------
(***************************************************************************)
(* The Solana payment method of the Machine Payments Protocol              *)
(* (sdk/src/mpp and its published copy mpp-solana): the client plans a     *)
(* transfer over its token accounts, sends it and answers the challenge    *)
(* with its signature; the server looks the transaction up, sums what it   *)
(* received and consumes the signature. The wallet's other transfers       *)
(* (SolobankAgent.send) draw on the same accounts meanwhile. A credential  *)
(* may reach the server more than once.                                    *)
(*                                                                         *)
(* Amounts are written in halves of a raw token unit, so that some have    *)
(* more decimals than the token. Definitions named X_Y are X with a        *)
(* mistake Y in it.                                                        *)
(***************************************************************************)
EXTENDS Integers, FiniteSets, Functions

CONSTANTS
    Jobs,          \* calls of pay and send by the client's wallet
    Requests,      \* what a job may be asked to do
    Verifications, \* runs of the server's verify
    NumAccounts,   \* token accounts of the wallet, 1..NumAccounts
    StartBalances, \* what is in them
    StartReceived, \* what is in the recipient's account
    MaxLookups     \* attempts of the server's lookup

PayerAccounts == 1..NumAccounts
Ata == 0          \* the recipient's associated account,
OtherAta == -1    \* and somebody else's
Accounts == PayerAccounts \cup {Ata, OtherAta}

ASSUME AccountsAssumption ==
    /\ NumAccounts \in Nat \ {0} /\ MaxLookups \in Nat \ {0}
    /\ StartBalances \in [PayerAccounts -> Nat] /\ StartReceived \in Nat

\* What is paid to a challenge of this server goes to its own account.
ASSUME RequestsAssumption ==
    /\ Requests \subseteq [kind : {"pay", "send", "sendSol"}, amount : Nat,
                           to : {Ata, OtherAta}, maxPrice : Nat]
    /\ \A req \in Requests : req.kind = "pay" => req.to = Ata
    /\ IsFiniteSet(Jobs) /\ IsFiniteSet(Verifications)

VARIABLES
    bal,       \* bal[a]: raw units in token account a
    job,       \* job[j]: where a call of pay or send is
    tx,        \* tx[j]: the transaction it signs
    ver,       \* ver[v]: where a run of verify is
    consumed,  \* the references the server's store holds
    honoured   \* the credentials honoured: pairs <<v, j>>

vars == <<bal, job, tx, ver, consumed, honoured>>

\* What becomes of a credential: the receipt; a verdict against it; no
\* transaction found; no answer from the store.
Answered == {"honoured", "refused", "not found", "unanswered"}

NoRequest == [kind |-> "none", amount |-> 0, to |-> OtherAta, maxPrice |-> 0]

\* A plan says what to take out of each account.
NoPlan == [a \in PayerAccounts |-> 0]

\* What getTransaction tells of a transaction: its transfers, the lamports it
\* moves, the token balances before and after.
NoTx == [state |-> "none", to |-> OtherAta, moves |-> NoPlan, lamports |-> 0,
         pre |-> <<>>, post |-> <<>>]

Init ==
    /\ bal = [a \in Accounts |-> IF a \in PayerAccounts THEN StartBalances[a]
                                 ELSE IF a = Ata THEN StartReceived ELSE 0]
    /\ job = [j \in Jobs |-> [pc |-> "idle", req |-> NoRequest, plan |-> NoPlan]]
    /\ tx = [j \in Jobs |-> NoTx]
    /\ ver = [v \in Verifications |-> [pc |-> "idle", of |-> {}, attempt |-> 0]]
    /\ consumed = {}
    /\ honoured = {}

-----------------------------------------------------------------------------
(* Amounts and plans                                                       *)

\* parseAmountToRaw: decimals beyond the token's are cut off.
ParseAmountToRaw(amount) == amount \div 2
Lamports(amount) == 500 * amount

\* fetchTokenAccounts: those with something in them, the richest first, so
\* that some come before a.
FetchTokenAccounts == {a \in PayerAccounts : bal[a] > 0}
Before(a) == {b \in PayerAccounts : bal[b] > bal[a] \/ (bal[b] = bal[a] /\ b < a)}

Total(plan) == SumFunctionOnSet(plan, PayerAccounts)

BuildTransferPlan_WholeAccounts(requested) ==
    [a \in PayerAccounts |->
        IF requested <= SumFunctionOnSet(bal, Before(a)) THEN 0 ELSE bal[a]]

\* buildTransferPlan: account after account until the amount is made up; a
\* gives what those before it leave to be made up, or all it has.
BuildTransferPlan(requested) ==
    [a \in PayerAccounts |->
        LET remaining == requested - SumFunctionOnSet(bal, Before(a)) IN
        IF remaining <= 0 THEN 0 ELSE IF bal[a] < remaining THEN bal[a] ELSE remaining]

-----------------------------------------------------------------------------
(* The client                                                              *)

Ended == {"credential", "sent it", "threw"}

Goto(j, pc) == [job EXCEPT ![j].pc = pc, ![j].plan = NoPlan]

\* pay is asked for a price by the challenge, and throws above maxPrice; send
\* throws for an amount that prints with an exponent (below one raw unit).
Ask(j, req) ==
    /\ job[j].pc = "idle"
    /\ LET refused == \/ req.kind = "pay" /\ req.amount > req.maxPrice
                      \/ req.kind = "send" /\ req.amount < 2
       IN  job' = [job EXCEPT ![j].pc = IF refused THEN "threw" ELSE "asked", ![j].req = req]
    /\ UNCHANGED <<bal, tx, ver, consumed, honoured>>

\* createCredential and send read the accounts and plan; what they read may
\* be spent by another call before the transaction lands.
Plan(j) ==
    LET raw == ParseAmountToRaw(job[j].req.amount)
        totalBalance == SumFunctionOnSet(bal, PayerAccounts)
    IN  /\ job[j].pc = "asked" /\ job[j].req.kind # "sendSol"
        /\ job' = IF FetchTokenAccounts = {} \/ totalBalance < raw THEN Goto(j, "threw")
                  ELSE [job EXCEPT ![j].pc = "planned", ![j].plan = BuildTransferPlan(raw)]
        /\ UNCHANGED <<bal, tx, ver, consumed, honoured>>

\* Sign and send: the transfers all go to one account, made if need be.
Send(j) ==
    /\ job[j].pc = "planned"
    /\ tx' = [tx EXCEPT ![j].state = "sent", ![j].to = job[j].req.to, ![j].moves = job[j].plan]
    /\ job' = Goto(j, "confirming")
    /\ UNCHANGED <<bal, ver, consumed, honoured>>

\* send with asset SOL: one system transfer.
SendSol(j) ==
    /\ job[j].pc = "asked" /\ job[j].req.kind = "sendSol"
    /\ tx' = [tx EXCEPT ![j].state = "sent", ![j].to = job[j].req.to,
                        ![j].lamports = Lamports(job[j].req.amount)]
    /\ job' = Goto(j, "confirming")
    /\ UNCHANGED <<bal, ver, consumed, honoured>>

\* sendAndConfirm returns at commitment "confirmed".
Confirm(j) ==
    /\ job[j].pc = "confirming" /\ tx[j].state \in {"landed", "final"}
    /\ job' = Goto(j, IF job[j].req.kind = "pay" THEN "credential" ELSE "sent it")
    /\ UNCHANGED <<bal, tx, ver, consumed, honoured>>

\* A request failed, the transaction failed or its blockhash expired; or the
\* subscription broke, and then the transaction may still land.
ClientThrows(j) ==
    /\ job[j].pc \in {"asked", "planned", "confirming"}
    /\ job' = Goto(j, "threw")
    /\ UNCHANGED <<bal, tx, ver, consumed, honoured>>

-----------------------------------------------------------------------------
(* The chain                                                               *)

Drawn(moves, a) == IF a \in PayerAccounts THEN moves[a] ELSE 0

\* All the transfers are made, or the transaction fails and makes none.
Land(j) ==
    LET t == tx[j]
        after == [a \in Accounts |-> IF a = t.to THEN bal[a] + Total(t.moves)
                                     ELSE bal[a] - Drawn(t.moves, a)]
    IN  /\ t.state = "sent"
        /\ IF \A a \in Accounts : after[a] >= 0
           THEN /\ bal' = after
                /\ tx' = [tx EXCEPT ![j].state = "landed", ![j].pre = bal, ![j].post = after]
           ELSE /\ tx' = [tx EXCEPT ![j].state = "failed", ![j].pre = bal, ![j].post = bal]
                /\ UNCHANGED bal
        /\ UNCHANGED <<job, ver, consumed, honoured>>

Finalize(j) ==
    /\ tx[j].state = "landed"
    /\ tx' = [tx EXCEPT ![j].state = "final"]
    /\ UNCHANGED <<bal, job, ver, consumed, honoured>>

Expire(j) ==
    /\ tx[j].state = "sent"
    /\ tx' = [tx EXCEPT ![j] = NoTx]
    /\ UNCHANGED <<bal, job, ver, consumed, honoured>>

-----------------------------------------------------------------------------
(* What a transaction paid, as three programs work it out                  *)

Gain(t, a) == t.post[a] - t.pre[a]

\* sumReceivedTokenAmount: the gains of the recipient's accounts.
SumReceivedTokenAmount(t) == IF Gain(t, Ata) > 0 THEN Gain(t, Ata) ELSE 0

\* sumReceivedAmount: the gateway's version of it,
SumReceivedAmount(t) == IF Gain(t, Ata) > 0 THEN Gain(t, Ata) ELSE 0

\* extractUsdcTransfers: the transfers to an account of the recipient's,
ExtractUsdcTransfers(t) == IF t.to = Ata THEN t.moves ELSE NoPlan

\* and verifyMainnet: the lesser of the two.
VerifyMainnet(t) ==
    LET balanceDelta == SumReceivedAmount(t)
        instructionTotal == Total(ExtractUsdcTransfers(t))
    IN  IF balanceDelta < instructionTotal THEN balanceDelta ELSE instructionTotal

\* extractSolTransfers and verifyDevnet.
ExtractSolTransfers(t) == IF t.to = Ata THEN t.lamports ELSE 0
VerifyDevnet(t) == ExtractSolTransfers(t)

-----------------------------------------------------------------------------
(* The server                                                              *)

\* A request brings the credential of job j.
Receive(v, j) ==
    /\ ver[v].pc = "idle" /\ job[j].pc = "credential"
    /\ ver' = [ver EXCEPT ![v] = [pc |-> "looking", of |-> {j}, attempt |-> 0]]
    /\ UNCHANGED <<bal, job, tx, consumed, honoured>>

LookupMiss_Forever(v) ==
    /\ ver[v].pc = "looking"
    /\ ver' = [ver EXCEPT ![v].attempt = (@ + 1) % MaxLookups]
    /\ UNCHANGED <<bal, job, tx, consumed, honoured>>

\* getTransaction finds nothing, the transaction being only confirmed as yet,
\* or fails; the last miss throws.
LookupMiss(v) ==
    /\ ver[v].pc = "looking"
    /\ ver' = [ver EXCEPT ![v].attempt = @ + 1,
                          ![v].pc = IF ver[v].attempt + 1 >= MaxLookups THEN "not found" ELSE @]
    /\ UNCHANGED <<bal, job, tx, consumed, honoured>>

\* The transaction comes without its meta: no further attempt is made.
MetaMissing(v) ==
    /\ ver[v].pc = "looking" /\ \A j \in ver[v].of : tx[j].state = "final"
    /\ ver' = [ver EXCEPT ![v].pc = "not found"]
    /\ UNCHANGED <<bal, job, tx, consumed, honoured>>

Verify_ConsumesFirst(v, j) ==
    LET requested == ParseAmountToRaw(job[j].req.amount)
        transferred == SumReceivedTokenAmount(tx[j])
    IN  /\ ver[v].pc = "looking" /\ ver[v].of = {j} /\ tx[j].state \in {"landed", "final"}
        /\ consumed' = consumed \cup {j}
        /\ ver' = [ver EXCEPT ![v].pc =
                       IF tx[j].state = "final" /\ transferred > 0 /\ transferred >= requested
                            /\ j \notin consumed
                       THEN "verified" ELSE "refused"]
        /\ UNCHANGED <<bal, job, tx, honoured>>

\* It finds the finalized transaction; what it received is checked against
\* the price in the credential's challenge.
Verify(v, j) ==
    LET requested == ParseAmountToRaw(job[j].req.amount)
        transferred == SumReceivedTokenAmount(tx[j])
    IN  /\ ver[v].pc = "looking" /\ ver[v].of = {j} /\ tx[j].state = "final"
        /\ ver' = [ver EXCEPT ![v].pc =
                       IF transferred > 0 /\ requested > 0 /\ transferred >= requested
                       THEN "verified" ELSE "refused"]
        /\ UNCHANGED <<bal, job, tx, consumed, honoured>>

Consume_GetThenSet(v, j) ==
    /\ ver[v].pc = "verified" /\ ver[v].of = {j}
    /\ \A entry \in honoured : entry[2] # j
    /\ consumed' = consumed \cup {j}
    /\ ver' = [ver EXCEPT ![v].pc = "consumed"]
    /\ UNCHANGED <<bal, job, tx, honoured>>

\* tryConsumeReference, atomic as its contract demands.
Consume(v, j) ==
    /\ ver[v].pc = "verified" /\ ver[v].of = {j}
    /\ consumed' = consumed \cup {j}
    /\ ver' = [ver EXCEPT ![v].pc = IF j \in consumed THEN "refused" ELSE "consumed"]
    /\ UNCHANGED <<bal, job, tx, honoured>>

\* The store's await rejects, before the store has set the reference or after:
\* verify throws, and no receipt is given.
ConsumeFails(v, j) ==
    /\ ver[v].pc = "verified" /\ ver[v].of = {j}
    /\ consumed' \in {consumed, consumed \cup {j}}
    /\ ver' = [ver EXCEPT ![v].pc = "unanswered"]
    /\ UNCHANGED <<bal, job, tx, honoured>>

\* The await returned true: the receipt is given.
GiveReceipt(v, j) ==
    /\ ver[v].pc = "consumed" /\ ver[v].of = {j}
    /\ ver' = [ver EXCEPT ![v].pc = "honoured"]
    /\ honoured' = honoured \cup {<<v, j>>}
    /\ UNCHANGED <<bal, job, tx, consumed>>

-----------------------------------------------------------------------------

ClientStep(j) == Plan(j) \/ Send(j) \/ SendSol(j) \/ Confirm(j) \/ ClientThrows(j)
ChainStep(j) == Land(j) \/ Finalize(j) \/ Expire(j)
ServerStep(v) ==
    \/ LookupMiss(v) \/ MetaMissing(v)
    \/ \E j \in Jobs : Verify(v, j) \/ Consume(v, j) \/ ConsumeFails(v, j) \/ GiveReceipt(v, j)

Next ==
    \/ \E j \in Jobs : (\E req \in Requests : Ask(j, req)) \/ ClientStep(j) \/ ChainStep(j)
    \/ \E v \in Verifications : (\E j \in Jobs : Receive(v, j)) \/ ServerStep(v)

\* The client and the server run on, and the chain lets no transaction hang.
Spec ==
    /\ Init /\ [][Next]_vars
    /\ \A j \in Jobs : WF_vars(ClientStep(j)) /\ WF_vars(ChainStep(j))
    /\ \A v \in Verifications : WF_vars(ServerStep(v))

-----------------------------------------------------------------------------
(* Properties                                                              *)

\* Balances never go below nothing, a lookup makes its attempts at most, and
\* what is honoured has been consumed.
TypeOK ==
    /\ bal \in [Accounts -> Nat]
    /\ \A j \in Jobs :
          /\ job[j].pc \in {"idle", "asked", "planned", "confirming"} \cup Ended
          /\ tx[j].state \in {"none", "sent", "landed", "final", "failed"}
    /\ \A v \in Verifications :
          /\ ver[v].pc \in {"idle", "looking", "verified", "consumed"} \cup Answered
          /\ ver[v].attempt \in 0..MaxLookups
    /\ consumed \subseteq Jobs
    /\ honoured \subseteq Verifications \X consumed

\* The client's plan, the MPP server and the gateway's verifiers of mainnet
\* and devnet work out the same amount, whatever accounts it came from and
\* whatever was in the recipient's; a transaction to somebody else pays
\* nothing, and one in SOL pays no tokens.
VerifiersAgree ==
    \A j \in Jobs : tx[j].state \in {"landed", "final"} =>
        LET paid == job[j].req.to = Ata
            raw == ParseAmountToRaw(job[j].req.amount)
            tokens == IF paid /\ job[j].req.kind # "sendSol" THEN raw ELSE 0
        IN  /\ SumReceivedTokenAmount(tx[j]) = tokens
            /\ VerifyMainnet(tx[j]) = tokens
            /\ VerifyDevnet(tx[j]) = IF paid /\ job[j].req.kind = "sendSol"
                                     THEN Lamports(job[j].req.amount) ELSE 0

\* What the server has honoured in all is covered by what its account has
\* gained, however often a credential comes and whoever spends meanwhile.
HonouredArePaid ==
    LET price == [entry \in honoured |-> ParseAmountToRaw(job[entry[2]].req.amount)] IN
    SumFunction(price) <= bal[Ata] - StartReceived

\* The verdict goes against a client that has paid only where its price rounds
\* to nothing or its payment has been consumed; and a payment is consumed only
\* by a run of verify for it that gets as far as the store, to be honoured
\* unless the store's answer is lost. So a credential that came too early, and
\* one that was overtaken by another run, cost the client nothing.
RefusedForCause ==
    /\ \A v \in Verifications : ver[v].pc = "refused" =>
          \A j \in ver[v].of :
             j \in consumed \/ ParseAmountToRaw(job[j].req.amount) = 0
    /\ \A j \in consumed :
          \E v \in Verifications :
             ver[v].of = {j} /\ ver[v].pc \in {"consumed", "honoured", "unanswered"}

\* Every call and every verification comes to an end.
ChargesEnd ==
    /\ \A j \in Jobs : job[j].pc = "asked" ~> job[j].pc \in Ended
    /\ \A v \in Verifications : ver[v].pc = "looking" ~> ver[v].pc \in Answered

\* A payment is a ticket, as it is for the gateway: good for one call.
Worth == [j \in Jobs |-> IF tx[j].state \in {"landed", "final"}
                         THEN SumReceivedTokenAmount(tx[j]) ELSE 0]

TicketOffice == INSTANCE Tickets WITH
    Signatures <- Jobs, Requests <- Verifications,
    Payments <- {ParseAmountToRaw(req.amount) : req \in Requests},
    Prices <- {ParseAmountToRaw(req.amount) : req \in Requests},
    worth <- Worth, torn <- consumed, let <- honoured

\* The server implements the ticket office: a reference is torn once, for a
\* payment that covers the price, and before its call is let through.
ImplementsTickets == TicketOffice!Spec

=============================================================================
