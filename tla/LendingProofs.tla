--------------------------- MODULE LendingProofs ---------------------------
(***************************************************************************)
(* Theorems about Lending, for any number of overlapping calls, venues and *)
(* requests, any rates and balances.                                       *)
(***************************************************************************)
EXTENDS Lending, SumLemmas

-----------------------------------------------------------------------------
(* The inductive invariant                                                 *)

Moving == {"leg", "creating", "sent", "lost"}
States == {"idle", "quoting", "fee"} \cup Moving \cup Ended

LegRecord == [op : Operations, venue : Venues]

JobRecord ==
    [pc : States, req : Requests \cup {NoRequest}, legs : Seq(LegRecord),
     account : {None} \cup Accounts, quoted : {<<>>} \cup [Venues -> 0..MaxApy],
     did : SUBSET Operations, fee : BOOLEAN]

WorldOK ==
    /\ wallet \in [Mints -> Nat]
    /\ supplied \in [Venues -> [Accounts -> Nat]]
    /\ owed \in [Venues -> [Accounts -> Nat]]
    /\ accounts \in 0..2

\* The legs a call has yet to do, and what it did.
OneLeg(b) == \E v \in Venues : b.legs = <<Leg(b.req.op, v)>> /\ b.did = {}
BothLegs(b) ==
    \E v, w \in Venues : b.legs = <<Leg("withdraw", v), Leg("lend", w)>> /\ b.did = {}
SecondLeg(b) == \E w \in Venues : b.legs = <<Leg("lend", w)>> /\ b.did = {"withdraw"}

\* A call with a fee has done its operation, or it was a dry run.
DidIt(b) ==
    \/ b.did = {b.req.op}
    \/ b.req.dryRun /\ b.req.op # "swap" /\ b.did = {}

\* How far a call is says what it has done and what it has left to do.
Progress(b) ==
    /\ b.pc = "quoting" => b.legs = <<>> /\ b.did = {} /\ b.quoted = <<>>
    /\ b.pc \in Moving =>
          IF b.req.op = "rebalance" THEN ~b.req.dryRun /\ (BothLegs(b) \/ SecondLeg(b))
          ELSE OneLeg(b) /\ ~(b.req.op = "swap" /\ b.req.dryRun)
    /\ b.pc = "fee" => b.req.op \in {"lend", "borrow", "swap"} /\ DidIt(b)
    /\ b.fee => b.pc = "done" /\ DidIt(b)
    /\ b.pc \in {"sent", "lost"} => b.account \in Accounts

\* What RebalanceWholeOrThrown and MovesUpOnly say of one call.
Whole(b) ==
    b.req.op = "rebalance" =>
      /\ "lend" \in b.did => "withdraw" \in b.did
      /\ b.pc = "done" => b.did = IF b.req.dryRun THEN {} ELSE {"withdraw", "lend"}
      /\ b.pc = "skipped" => b.did = {}

UpOnly(b) ==
    b.quoted # <<>> =>
      /\ b.req.op = "lend" =>
            \A w \in Of(b.req.protocol) : b.quoted[w] <= b.quoted[b.legs[1].venue]
      /\ (b.req.op = "rebalance" /\ Len(b.legs) = 2) =>
            /\ b.quoted[b.legs[2].venue] > b.quoted[b.legs[1].venue] + b.req.min
            /\ \A w \in Of(b.req.target) \ {b.legs[1].venue} :
                  b.quoted[w] <= b.quoted[b.legs[2].venue]

Sound(b) == Progress(b) /\ Whole(b) /\ UpOnly(b)

\* The account a call holds is one of n, if its transaction needs one.
AccountThere(b, n) ==
    (b.pc = "sent" /\ b.account > n) =>
        LET leg == Head(b.legs) IN leg.op = "swap" \/ Protocol[leg.venue] = "kamino"

Paying == {j \in Jobs : job[j].fee}
FeesCounted == fees = Cardinality(Paying)

LendingInv ==
    /\ WorldOK
    /\ job \in [Jobs -> JobRecord]
    /\ \A j \in Jobs : Sound(job[j]) /\ AccountThere(job[j], accounts)
    /\ FeesCounted

-----------------------------------------------------------------------------
(* The choice of a venue                                                   *)

\* sortRatesDescending puts a venue of the list first, and none pays more.
LEMMA BestIsBest ==
    ASSUME NEW S \in SUBSET Venues, S # {}, NEW rates \in [Venues -> 0..MaxApy]
    PROVE  /\ SortRatesDescending(S, rates) \in S
           /\ \A w \in S : rates[w] <= rates[SortRatesDescending(S, rates)]
<1> DEFINE Short == {MaxApy - rates[v] : v \in S}
<1>1. MaxApy \in Nat /\ \A v \in S : v \in Nat /\ rates[v] \in 0..MaxApy
  BY VenuesAssumption DEF Venues
<1>2. Short \in SUBSET Nat /\ Short # {}
  BY <1>1
<1>3. PICK n \in Short : \A m \in Short : n <= m
  BY <1>2, LeastNumber
<1> DEFINE First == {v \in S : MaxApy - rates[v] = n}
<1>4. First \in SUBSET Nat /\ First # {}
  BY <1>1, <1>3
<1>5. PICK v \in First : \A w \in First : v <= w
  BY <1>4, LeastNumber
<1>6. ASSUME NEW w \in S \ {v}
      PROVE  rates[v] > rates[w] \/ (rates[v] = rates[w] /\ v < w)
  <2>1. n <= MaxApy - rates[w] /\ n = MaxApy - rates[v]
    BY <1>3, <1>5
  <2>2. CASE MaxApy - rates[w] = n
    <3>1. v <= w
      BY <1>5, <2>2
    <3>2. QED
      BY <1>1, <1>5, <2>1, <2>2, <3>1
  <2>3. CASE MaxApy - rates[w] # n
    BY <1>1, <1>5, <2>1, <2>3
  <2>4. QED
    BY <2>2, <2>3
<1>7. PICK best : best = SortRatesDescending(S, rates)
  OBVIOUS
<1>8. /\ best \in S
      /\ \A w \in S \ {best} : rates[best] > rates[w] \/ (rates[best] = rates[w] /\ best < w)
  <2>1. v \in S
    BY <1>5
  <2>2. best = CHOOSE x \in S : \A w \in S \ {x} : rates[x] > rates[w] \/ (rates[x] = rates[w] /\ x < w)
    BY <1>7 DEF SortRatesDescending
  <2>3. QED
    BY <1>6, <2>1, <2>2
<1>9. ASSUME NEW w \in S PROVE rates[w] <= rates[best]
  BY <1>1, <1>8
<1>10. QED
  BY <1>7, <1>8, <1>9

LEMMA Selected ==
    ASSUME NEW selector \in Selectors
    PROVE  /\ Of(selector) \in SUBSET Venues
           /\ GetLendingRates(selector) = Of(selector)
  BY VenuesAssumption DEF Selectors, Of, GetLendingRates, GetMarginfiRates, GetKaminoRates

-----------------------------------------------------------------------------
(* What a transaction does to the balances                                 *)

LEMMA DepositType ==
    ASSUME WorldOK, NEW v \in Venues, NEW a \in Accounts, NEW n \in Nat, Deposit(v, a, n)
    PROVE  WorldOK' /\ accounts' = accounts
<1>1. Mint[v] \in Mints
  BY DEF Mints
<1>2. wallet[Mint[v]] - n \in Nat /\ supplied[v][a] + n \in Nat
  BY <1>1 DEF WorldOK, Deposit
<1>3. QED
  BY <1>1, <1>2 DEF WorldOK, Deposit

LEMMA TakeOutType ==
    ASSUME WorldOK, NEW v \in Venues, NEW a \in Accounts, NEW n \in Nat, TakeOut(v, a, n)
    PROVE  WorldOK' /\ accounts' = accounts
<1>1. Mint[v] \in Mints
  BY DEF Mints
<1>2. wallet[Mint[v]] + n \in Nat /\ supplied[v][a] - n \in Nat
  BY <1>1 DEF WorldOK, TakeOut
<1>3. QED
  BY <1>1, <1>2 DEF WorldOK, TakeOut

LEMMA LentType ==
    ASSUME WorldOK, NEW v \in Venues, NEW a \in Accounts, NEW n \in Nat, Lent(v, a, n)
    PROVE  WorldOK' /\ accounts' = accounts
<1>1. Mint[v] \in Mints
  BY DEF Mints
<1>2. wallet[Mint[v]] + n \in Nat /\ owed[v][a] + n \in Nat
  BY <1>1 DEF WorldOK
<1>3. QED
  BY <1>1, <1>2 DEF WorldOK, Lent

LEMMA PaidBackType ==
    ASSUME WorldOK, NEW v \in Venues, NEW a \in Accounts, NEW n \in Nat, PaidBack(v, a, n)
    PROVE  WorldOK' /\ accounts' = accounts
<1>1. Mint[v] \in Mints
  BY DEF Mints
<1>2. wallet[Mint[v]] - n \in Nat /\ owed[v][a] - n \in Nat
  BY <1>1 DEF WorldOK, PaidBack
<1>3. QED
  BY <1>1, <1>2 DEF WorldOK, PaidBack

LEMMA SwappedType ==
    ASSUME WorldOK, NEW n \in Nat, NEW out \in Int, Swapped(n, out)
    PROVE  WorldOK' /\ accounts' = accounts
<1>1. Mint[1] \in Mints /\ SwapTo \in Mints
  BY VenuesAssumption DEF Mints, Venues
<1>2. n <= wallet[Mint[1]] /\ out >= 0
  BY DEF Swapped
<1>3. wallet' \in [Mints -> Nat]
  <2>1. CASE SwapTo = Mint[1]
    BY <1>1, <1>2, <2>1 DEF WorldOK, Swapped
  <2>2. CASE SwapTo # Mint[1]
    BY <1>1, <1>2, <2>2 DEF WorldOK, Swapped
  <2>3. QED
    BY <2>1, <2>2
<1>4. QED
  BY <1>3 DEF WorldOK, Swapped

\* Whatever its leg, a transaction leaves natural numbers everywhere.
LEMMA TransactType ==
    ASSUME WorldOK, NEW leg \in LegRecord, NEW a \in Accounts, NEW req \in Requests,
           Transact(leg, a, req)
    PROVE  WorldOK' /\ accounts' = accounts
<1>1. leg.venue \in Venues /\ req.amount \in Nat /\ 1 \in Accounts
  BY RequestsAssumption DEF LegRecord, Accounts
<1>2. supplied[leg.venue][a] \in Nat /\ owed[leg.venue][a] \in Nat
  BY <1>1 DEF WorldOK
<1>3. CASE leg.op = "swap"
  <2>1. PICK out \in {req.amount - 1, req.amount} : Swapped(req.amount, out)
    BY <1>3 DEF Transact
  <2>2. out \in Int
    BY <1>1
  <2>3. QED
    BY <1>1, <2>1, <2>2, SwappedType
<1>4. CASE leg.op # "swap"
  <2>1. \E b \in Accounts, n \in Nat :
           \/ Deposit(leg.venue, b, n)
           \/ TakeOut(leg.venue, b, n)
           \/ Lent(leg.venue, b, n)
           \/ PaidBack(leg.venue, b, n)
    BY <1>1, <1>2, <1>4
       DEF Transact, LendWithMarginfi, LendWithKamino, BorrowWithMarginfi, BorrowWithKamino,
           WithdrawWithMarginfi, WithdrawWithKamino, RepayWithMarginfi, RepayWithKamino
  <2>2. PICK b \in Accounts, n \in Nat :
           \/ Deposit(leg.venue, b, n)
           \/ TakeOut(leg.venue, b, n)
           \/ Lent(leg.venue, b, n)
           \/ PaidBack(leg.venue, b, n)
    BY <2>1
  <2>3. QED
    BY <1>1, <2>2, DepositType, TakeOutType, LentType, PaidBackType
<1>5. QED
  BY <1>3, <1>4

-----------------------------------------------------------------------------
(* Steps of one call                                                       *)

\* The record of a call that has ended.
LEMMA EndRecord ==
    ASSUME NEW b \in JobRecord, NEW how \in Ended
    PROVE  \E e \in JobRecord :
              /\ e = [b EXCEPT !.pc = how, !.legs = <<>>, !.account = None, !.quoted = <<>>]
              /\ e.pc = how /\ e.req = b.req /\ e.legs = <<>> /\ e.quoted = <<>>
              /\ e.did = b.did /\ e.fee = b.fee
<1>1. PICK e : e = [b EXCEPT !.pc = how, !.legs = <<>>, !.account = None, !.quoted = <<>>]
  OBVIOUS
<1>2. how \in States /\ <<>> \in Seq(LegRecord)
  BY DEF States
<1>3. e \in JobRecord
  BY <1>1, <1>2 DEF JobRecord
<1>4. QED
  BY <1>1, <1>3 DEF JobRecord

\* A step that moves one call keeps the invariant when the call it makes of it
\* is sound, and pays the fee it counts.
LEMMA OneCallMoves ==
    ASSUME LendingInv, NEW j \in Jobs, NEW b \in JobRecord,
           job' = [job EXCEPT ![j] = b], Sound(b), AccountThere(b, accounts'),
           WorldOK', accounts <= accounts',
           job[j].fee => b.fee,
           fees' = IF b.fee /\ ~job[j].fee THEN fees + 1 ELSE fees
    PROVE  LendingInv'
<1>1. job' \in [Jobs -> JobRecord] /\ job \in [Jobs -> JobRecord]
  BY DEF LendingInv
<1>2. ASSUME NEW i \in Jobs
      PROVE  Sound(job'[i]) /\ AccountThere(job'[i], accounts')
  <2>1. CASE i = j
    BY <1>1, <2>1
  <2>2. CASE i # j
    <3>1. job'[i] = job[i] /\ Sound(job[i]) /\ AccountThere(job[i], accounts)
      BY <1>1, <2>2 DEF LendingInv
    <3>2. job[i].account \in Nat
      <4>1. job[i] \in JobRecord
        BY <1>1
      <4>2. job[i].account \in {None} \cup Accounts
        BY <4>1 DEF JobRecord
      <4>3. QED
        BY <4>2 DEF None, Accounts
    <3> accounts \in Nat /\ accounts' \in Nat
      BY DEF LendingInv, WorldOK
    <3>3. QED
      BY <3>1, <3>2 DEF AccountThere
  <2>3. QED
    BY <2>1, <2>2
<1>3. IsFiniteSet(Jobs) /\ Paying \in SUBSET Jobs /\ IsFiniteSet(Paying)
  BY RequestsAssumption, FS_Subset DEF Paying
<1>4. CASE b.fee /\ ~job[j].fee
  <2>1. Paying' = Paying \cup {j} /\ j \notin Paying
    BY <1>1, <1>4 DEF Paying
  <2>2. Cardinality(Paying \cup {j}) = Cardinality(Paying) + 1
    BY <1>3, <2>1, FS_AddElement
  <2>3. FeesCounted'
    BY <1>4, <2>1, <2>2 DEF FeesCounted, LendingInv
  <2>4. QED
    BY <1>1, <1>2, <2>3 DEF LendingInv
<1>5. CASE ~(b.fee /\ ~job[j].fee)
  <2>1. b.fee = job[j].fee
    BY <1>1, <1>5 DEF JobRecord
  <2>2. Paying' = Paying
    BY <1>1, <2>1 DEF Paying
  <2>3. FeesCounted'
    BY <1>5, <2>2 DEF FeesCounted, LendingInv
  <2>4. QED
    BY <1>1, <1>2, <2>3 DEF LendingInv
<1>6. QED
  BY <1>4, <1>5

\* The same for a step that touches neither balances nor fees.
LEMMA OneCallAlone ==
    ASSUME LendingInv, NEW j \in Jobs, NEW b \in JobRecord,
           job' = [job EXCEPT ![j] = b], Sound(b), AccountThere(b, accounts),
           UNCHANGED <<world, fees>>, b.fee = job[j].fee
    PROVE  LendingInv'
<1>1. WorldOK' /\ accounts' = accounts /\ accounts \in Nat
  BY DEF LendingInv, WorldOK, world
<1>2. fees' = IF b.fee /\ ~job[j].fee THEN fees + 1 ELSE fees
  OBVIOUS
<1>3. accounts <= accounts' /\ AccountThere(b, accounts')
  BY <1>1
<1>4. job[j].fee => b.fee
  OBVIOUS
<1>5. QED
  BY <1>1, <1>2, <1>3, <1>4, OneCallMoves

\* A call that has not done all that it set out to do may end by throwing.
LEMMA ThrowingIsSound ==
    ASSUME LendingInv, NEW j \in Jobs, ~job[j].fee, job' = End(j, "threw"),
           UNCHANGED <<world, fees>>
    PROVE  LendingInv'
<1>1. job[j] \in JobRecord /\ Sound(job[j]) /\ "threw" \in Ended
  BY DEF LendingInv, Ended
<1>2. PICK e \in JobRecord :
         /\ e = [job[j] EXCEPT !.pc = "threw", !.legs = <<>>, !.account = None, !.quoted = <<>>]
         /\ e.pc = "threw" /\ e.req = job[j].req /\ e.legs = <<>> /\ e.quoted = <<>>
         /\ e.did = job[j].did /\ e.fee = job[j].fee
  BY <1>1, EndRecord
<1>3. job' = [job EXCEPT ![j] = e]
  BY <1>2 DEF End, LendingInv
<1>4. Sound(e)
  BY <1>1, <1>2 DEF Sound, Progress, Whole, UpOnly, Moving
<1>5. AccountThere(e, accounts)
  BY <1>2 DEF AccountThere
<1>6. e.fee = job[j].fee
  BY <1>2
<1>7. QED
  BY <1>3, <1>4, <1>5, <1>6, OneCallAlone

LEMMA CallStep ==
    ASSUME LendingInv, NEW j \in Jobs, NEW req \in Requests, Call(j, req)
    PROVE  LendingInv'
<1>1. job[j] \in JobRecord /\ job[j] = NoJob
  BY DEF LendingInv, Call
<1>2. PICK b : b = [job[j] EXCEPT !.pc = "quoting", !.req = req]
  OBVIOUS
<1>3. b \in JobRecord
  BY <1>1, <1>2 DEF JobRecord, States
<1>4. job' = [job EXCEPT ![j] = b]
  BY <1>2 DEF Call, LendingInv
<1>5. /\ b.pc = "quoting" /\ b.legs = <<>> /\ b.did = {} /\ b.quoted = <<>> /\ ~b.fee
      /\ ~job[j].fee
  BY <1>1, <1>2 DEF NoJob, JobRecord
<1>6. Sound(b)
  BY <1>5 DEF Sound, Progress, Whole, UpOnly, Moving
<1>7. AccountThere(b, accounts)
  BY <1>5 DEF AccountThere
<1>8. b.fee = job[j].fee
  BY <1>1, <1>2 DEF JobRecord
<1>9. UNCHANGED <<world, fees>>
  BY DEF Call
<1>10. QED
  BY <1>3, <1>4, <1>6, <1>7, <1>8, <1>9, OneCallAlone

\* A call under way has paid no fee yet.
LEMMA FeeComesLast ==
    ASSUME LendingInv, NEW j \in Jobs, job[j].pc # "done"
    PROVE  ~job[j].fee
  BY DEF LendingInv, Sound, Progress

LEMMA ThrowingStep ==
    ASSUME LendingInv, NEW j \in Jobs, NoOpportunity(j) \/ Fails(j) \/ NeverLands(j)
    PROVE  LendingInv'
<1>1. job[j].pc # "done" /\ job' = End(j, "threw") /\ UNCHANGED <<world, fees>>
  BY DEF NoOpportunity, Fails, NeverLands
<1>2. QED
  BY <1>1, FeeComesLast, ThrowingIsSound

LEMMA LosesStep ==
    ASSUME LendingInv, NEW j \in Jobs, Loses(j)
    PROVE  LendingInv'
<1>1. job[j] \in JobRecord /\ Sound(job[j]) /\ job[j].pc = "sent"
  BY DEF LendingInv, Loses
<1>2. PICK b : b = [job[j] EXCEPT !.pc = "lost"]
  OBVIOUS
<1>3. b \in JobRecord
  BY <1>1, <1>2 DEF JobRecord, States, Moving
<1>4. job' = [job EXCEPT ![j] = b]
  BY <1>2 DEF Loses, LendingInv
<1>5. /\ b.pc = "lost" /\ b.legs = job[j].legs /\ b.did = job[j].did /\ b.req = job[j].req
      /\ b.quoted = job[j].quoted /\ b.fee = job[j].fee /\ b.account = job[j].account
  BY <1>1, <1>2 DEF JobRecord
<1>6. Sound(b)
  BY <1>1, <1>5
     DEF Sound, Progress, Whole, UpOnly, Moving, OneLeg, BothLegs, SecondLeg, DidIt
<1>7. AccountThere(b, accounts)
  BY <1>5 DEF AccountThere
<1>8. UNCHANGED <<world, fees>>
  BY DEF Loses
<1>9. b.fee = job[j].fee
  BY <1>5
<1>10. QED
  BY <1>3, <1>4, <1>6, <1>7, <1>8, <1>9, OneCallAlone

\* tryCollectFee ends the call, and counts its fee once.
LEMMA FeeStep ==
    ASSUME LendingInv, NEW j \in Jobs, TryCollectFee(j)
    PROVE  LendingInv'
<1>1. job[j] \in JobRecord /\ Sound(job[j]) /\ job[j].pc = "fee" /\ "done" \in Ended
  BY DEF LendingInv, TryCollectFee, Ended
<1>2. ~job[j].fee
  BY <1>1, FeeComesLast
<1>3. PICK e \in JobRecord :
         /\ e = [job[j] EXCEPT !.pc = "done", !.legs = <<>>, !.account = None, !.quoted = <<>>]
         /\ e.pc = "done" /\ e.req = job[j].req /\ e.legs = <<>> /\ e.quoted = <<>>
         /\ e.did = job[j].did /\ e.fee = job[j].fee
  BY <1>1, EndRecord
<1>4. DidIt(e) /\ e.req.op # "rebalance"
  BY <1>1, <1>3 DEF Sound, Progress, DidIt
<1>5. job \in [Jobs -> JobRecord] /\ End(j, "done") = [job EXCEPT ![j] = e]
  BY <1>3 DEF LendingInv, End
<1>6. ASSUME NEW b \in JobRecord, b.pc = "done", b.req = e.req, b.did = e.did,
             b.quoted = <<>>
      PROVE  Sound(b) /\ AccountThere(b, accounts')
  BY <1>4, <1>6 DEF Sound, Progress, DidIt, Whole, UpOnly, AccountThere, Moving
<1>7. UNCHANGED world /\ WorldOK' /\ accounts <= accounts'
  BY DEF TryCollectFee, world, LendingInv, WorldOK
<1>8. CASE fees' = fees + 1 /\ job' = [End(j, "done") EXCEPT ![j].fee = TRUE]
  <2>1. PICK b : b = [e EXCEPT !.fee = TRUE]
    OBVIOUS
  <2>2. /\ b \in JobRecord /\ b.fee /\ b.pc = "done" /\ b.req = e.req /\ b.did = e.did
        /\ b.quoted = <<>>
    BY <1>3, <2>1 DEF JobRecord
  <2>3. job' = [job EXCEPT ![j] = b]
    BY <1>5, <1>8, <2>1
  <2>4. Sound(b) /\ AccountThere(b, accounts')
    BY <1>6, <2>2
  <2>5. fees' = IF b.fee /\ ~job[j].fee THEN fees + 1 ELSE fees
    BY <1>2, <1>8, <2>2
  <2>6. QED
    BY <1>7, <2>2, <2>3, <2>4, <2>5, OneCallMoves
<1>9. CASE fees' = fees /\ job' = End(j, "done")
  <2>1. job' = [job EXCEPT ![j] = e]
    BY <1>5, <1>9
  <2>2. Sound(e) /\ AccountThere(e, accounts')
    BY <1>3, <1>6
  <2>3. fees' = IF e.fee /\ ~job[j].fee THEN fees + 1 ELSE fees
    BY <1>2, <1>3, <1>9
  <2>4. job[j].fee => e.fee
    BY <1>3
  <2>5. QED
    BY <1>7, <2>1, <2>2, <2>3, <2>4, OneCallMoves
<1>10. QED
  BY <1>8, <1>9 DEF TryCollectFee

LEMMA CreateStep ==
    ASSUME LendingInv, NEW j \in Jobs, CreateAccount(j)
    PROVE  LendingInv'
<1>1. job[j] \in JobRecord /\ Sound(job[j]) /\ job[j].pc = "creating" /\ accounts \in 0..1
  BY DEF LendingInv, CreateAccount, WorldOK
<1>2. PICK b : b = [job[j] EXCEPT !.pc = "sent", !.account = accounts + 1]
  OBVIOUS
<1>3. accounts + 1 \in Accounts /\ accounts' = accounts + 1
  BY <1>1 DEF Accounts, CreateAccount
<1>4. b \in JobRecord
  BY <1>1, <1>2, <1>3 DEF JobRecord, States, Moving
<1>5. job' = [job EXCEPT ![j] = b]
  BY <1>2 DEF CreateAccount, LendingInv
<1>6. /\ b.pc = "sent" /\ b.legs = job[j].legs /\ b.did = job[j].did /\ b.req = job[j].req
      /\ b.quoted = job[j].quoted /\ b.fee = job[j].fee /\ b.account = accounts'
  BY <1>1, <1>2, <1>3 DEF JobRecord
<1>7. Sound(b)
  BY <1>1, <1>3, <1>6
     DEF Sound, Progress, Whole, UpOnly, Moving, OneLeg, BothLegs, SecondLeg, DidIt
<1>8. AccountThere(b, accounts')
  BY <1>1, <1>3, <1>6 DEF AccountThere
<1>9. WorldOK' /\ accounts <= accounts' /\ fees' = fees
  BY <1>1, <1>3 DEF CreateAccount, LendingInv, WorldOK
<1>10. fees' = IF b.fee /\ ~job[j].fee THEN fees + 1 ELSE fees
  BY <1>6, <1>9
<1>11. job[j].fee => b.fee
  BY <1>6
<1>12. QED
  BY <1>4, <1>5, <1>7, <1>8, <1>9, <1>10, <1>11, OneCallMoves

\* A call under way has a request, and legs left of the venues there are.
LEMMA LegsLeft ==
    ASSUME LendingInv, NEW j \in Jobs, job[j].pc \in Moving
    PROVE  /\ job[j].req \in Requests
           /\ Head(job[j].legs) \in LegRecord
           /\ job[j].legs \in Seq(LegRecord)
           /\ Len(job[j].legs) > 1 => BothLegs(job[j])
           /\ ~(Len(job[j].legs) > 1) => OneLeg(job[j]) \/ SecondLeg(job[j])
<1>1. job[j] \in JobRecord /\ Sound(job[j])
  BY DEF LendingInv
<1>2. OneLeg(job[j]) \/ BothLegs(job[j]) \/ SecondLeg(job[j])
  BY <1>1 DEF Sound, Progress
<1>3. job[j].legs \in Seq(LegRecord) /\ job[j].req \in Requests \cup {NoRequest}
  BY <1>1 DEF JobRecord
<1>4. /\ job[j].legs # <<>>
      /\ Len(job[j].legs) > 1 => BothLegs(job[j])
      /\ ~(Len(job[j].legs) > 1) => OneLeg(job[j]) \/ SecondLeg(job[j])
  <2>1. CASE OneLeg(job[j])
    <3>1. Len(job[j].legs) = 1 /\ job[j].legs # <<>>
      BY <2>1 DEF OneLeg
    <3>2. ~(Len(job[j].legs) > 1)
      BY <3>1
    <3>3. QED
      BY <2>1, <3>1, <3>2
  <2>2. CASE SecondLeg(job[j])
    <3>1. Len(job[j].legs) = 1 /\ job[j].legs # <<>>
      BY <2>2 DEF SecondLeg
    <3>2. ~(Len(job[j].legs) > 1)
      BY <3>1
    <3>3. QED
      BY <2>2, <3>1, <3>2
  <2>3. CASE BothLegs(job[j])
    <3>1. Len(job[j].legs) = 2 /\ job[j].legs # <<>>
      BY <2>3 DEF BothLegs
    <3>2. Len(job[j].legs) > 1
      BY <3>1
    <3>3. QED
      BY <2>3, <3>1, <3>2
  <2>4. QED
    BY <1>2, <2>1, <2>2, <2>3
<1>5. Head(job[j].legs) \in LegRecord
  BY <1>3, <1>4
<1>6. job[j].req.op \in Operations
  <2>1. CASE job[j].req.op = "rebalance"
    BY <2>1 DEF Operations
  <2>2. CASE job[j].req.op # "rebalance"
    <3>1. OneLeg(job[j])
      BY <1>1, <2>2 DEF Sound, Progress
    <3>2. Head(job[j].legs).op = job[j].req.op
      BY <3>1 DEF OneLeg, Leg
    <3>3. QED
      BY <1>5, <3>2 DEF LegRecord
  <2>3. QED
    BY <2>1, <2>2
<1>7. NoRequest.op \notin Operations
  BY DEF NoRequest, Operations
<1>8. QED
  BY <1>3, <1>4, <1>5, <1>6, <1>7

LEMMA LookUpStep ==
    ASSUME LendingInv, NEW j \in Jobs, LookUpAccount(j)
    PROVE  LendingInv'
<1>1. job[j] \in JobRecord /\ Sound(job[j]) /\ job[j].pc = "leg" /\ accounts \in 0..2
  BY DEF LendingInv, LookUpAccount, WorldOK
<1>2. UNCHANGED <<world, fees>> /\ job \in [Jobs -> JobRecord] /\ ~job[j].fee
  BY <1>1, FeeComesLast DEF LookUpAccount, LendingInv
<1>3. PICK leg, looksUp :
         /\ leg = Head(job[j].legs)
         /\ looksUp = (leg.op # "swap" /\ Protocol[leg.venue] = "marginfi"
                          /\ ~(job[j].req.dryRun /\ leg.op = "lend"))
  OBVIOUS
<1>4. ASSUME NEW b \in JobRecord, job' = [job EXCEPT ![j] = b], b.req = job[j].req,
             b.legs = job[j].legs, b.did = job[j].did, b.quoted = job[j].quoted,
             b.fee = job[j].fee, b.pc \in {"creating", "sent"},
             b.pc = "sent" => b.account \in Accounts, AccountThere(b, accounts)
      PROVE  LendingInv'
  <2>1. Sound(b)
    BY <1>1, <1>4
       DEF Sound, Progress, Whole, UpOnly, Moving, OneLeg, BothLegs, SecondLeg, DidIt
  <2>2. b.fee = job[j].fee
    BY <1>4
  <2>3. QED
    BY <1>2, <1>4, <2>1, <2>2, OneCallAlone
<1>5. CASE job' = End(j, "threw")
  BY <1>2, <1>5, ThrowingIsSound
<1>6. CASE job' = [job EXCEPT ![j].pc = "creating"]
  <2>1. PICK b : b = [job[j] EXCEPT !.pc = "creating"]
    OBVIOUS
  <2>2. /\ b.req = job[j].req /\ b.legs = job[j].legs /\ b.did = job[j].did
        /\ b.quoted = job[j].quoted /\ b.fee = job[j].fee /\ b.pc = "creating"
        /\ b \in JobRecord
    BY <1>1, <2>1 DEF JobRecord, States, Moving
  <2>3. job' = [job EXCEPT ![j] = b] /\ AccountThere(b, accounts)
    BY <1>2, <1>6, <2>1, <2>2 DEF AccountThere
  <2>4. b.pc \in {"creating", "sent"} /\ (b.pc = "sent" => b.account \in Accounts)
    BY <2>2
  <2>5. QED
    BY <1>4, <2>2, <2>3, <2>4
<1>7. CASE \E a \in IF looksUp THEN 1..accounts ELSE {1} :
              job' = [job EXCEPT ![j].pc = "sent", ![j].account = a] /\ ~job[j].req.dryRun
  <2>1. PICK a \in IF looksUp THEN 1..accounts ELSE {1} :
           job' = [job EXCEPT ![j].pc = "sent", ![j].account = a] /\ ~job[j].req.dryRun
    BY <1>7
  <2>2. PICK b : b = [job[j] EXCEPT !.pc = "sent", !.account = a]
    OBVIOUS
  <2>3. a \in Accounts /\ (looksUp => a <= accounts)
    BY <1>1, <2>1 DEF Accounts
  <2>4. /\ b.req = job[j].req /\ b.legs = job[j].legs /\ b.did = job[j].did
        /\ b.quoted = job[j].quoted /\ b.fee = job[j].fee /\ b.pc = "sent"
        /\ b \in JobRecord /\ b.account = a
    BY <1>1, <2>2, <2>3 DEF JobRecord, States, Moving
  <2>5. job' = [job EXCEPT ![j] = b]
    BY <1>2, <2>1, <2>2
  <2>6. AccountThere(b, accounts)
    <3>1. CASE looksUp
      BY <1>1, <2>3, <2>4, <3>1 DEF AccountThere, Accounts
    <3>2. CASE ~looksUp
      <4>1. leg \in LegRecord
        BY <1>1, <1>3, LegsLeft DEF Moving
      <4>2. Protocol[leg.venue] \in {"marginfi", "kamino"}
        BY <4>1, VenuesAssumption DEF LegRecord
      <4>3. leg.op = "swap" \/ Protocol[leg.venue] = "kamino"
        BY <1>3, <2>1, <3>2, <4>2
      <4>4. QED
        BY <1>3, <2>4, <4>3 DEF AccountThere
    <3>3. QED
      BY <3>1, <3>2
  <2>7. b.pc \in {"creating", "sent"} /\ (b.pc = "sent" => b.account \in Accounts)
    BY <2>3, <2>4
  <2>8. QED
    BY <1>4, <2>4, <2>5, <2>6, <2>7
<1>8. CASE job' = AfterLegs(j) /\ job[j].req.dryRun
  <2>1. OneLeg(job[j]) /\ job[j].req.op \notin {"swap", "rebalance"}
    BY <1>1, <1>8 DEF Sound, Progress, Moving
  <2>2. job[j].did = {}
    BY <2>1 DEF OneLeg
  <2>3. CASE job[j].req.op \in {"lend", "borrow", "swap"}
    <3>1. PICK b : b = [job[j] EXCEPT !.pc = "fee"]
      OBVIOUS
    <3>2. /\ b.req = job[j].req /\ b.legs = job[j].legs /\ b.did = job[j].did
          /\ b.quoted = job[j].quoted /\ b.fee = job[j].fee /\ b.pc = "fee"
          /\ b \in JobRecord
      BY <1>1, <3>1 DEF JobRecord, States
    <3>3. job' = [job EXCEPT ![j] = b] /\ AccountThere(b, accounts)
      BY <1>2, <1>8, <2>3, <3>1, <3>2 DEF AccountThere, AfterLegs
    <3>4. Sound(b)
      BY <1>1, <1>2, <1>8, <2>1, <2>2, <2>3, <3>2
         DEF Sound, Progress, Whole, UpOnly, Moving, DidIt
    <3>5. b.fee = job[j].fee
      BY <3>2
    <3>6. QED
      BY <1>2, <3>2, <3>3, <3>4, <3>5, OneCallAlone
  <2>4. CASE job[j].req.op \notin {"lend", "borrow", "swap"}
    <3>1. "done" \in Ended
      BY DEF Ended
    <3>2. PICK e \in JobRecord :
             /\ e = [job[j] EXCEPT !.pc = "done", !.legs = <<>>, !.account = None,
                                   !.quoted = <<>>]
             /\ e.pc = "done" /\ e.req = job[j].req /\ e.legs = <<>> /\ e.quoted = <<>>
             /\ e.did = job[j].did /\ e.fee = job[j].fee
      BY <1>1, <3>1, EndRecord
    <3>3. job' = [job EXCEPT ![j] = e] /\ AccountThere(e, accounts)
      BY <1>2, <1>8, <2>4, <3>2 DEF AccountThere, AfterLegs, End
    <3>4. Sound(e)
      BY <1>2, <2>1, <3>2 DEF Sound, Progress, Whole, UpOnly, Moving
    <3>5. e.fee = job[j].fee
      BY <3>2
    <3>6. QED
      BY <1>2, <3>3, <3>4, <3>5, OneCallAlone
  <2>5. QED
    BY <2>3, <2>4
<1>9. QED
  BY <1>3, <1>5, <1>6, <1>7, <1>8 DEF LookUpAccount

\* When the last leg lands, the call has done all of its operation.
LEMMA LastLands ==
    ASSUME LendingInv, NEW j \in Jobs, job[j].pc \in {"sent", "lost"},
           ~(Len(job[j].legs) > 1)
    PROVE  job[j].did \cup {Head(job[j].legs).op}
             = IF job[j].req.op = "rebalance" THEN {"withdraw", "lend"} ELSE {job[j].req.op}
<1>1. Progress(job[j]) /\ job[j].pc \in Moving
  BY DEF LendingInv, Sound, Moving
<1>2. OneLeg(job[j]) \/ SecondLeg(job[j])
  BY <1>1, LegsLeft
<1>3. ASSUME BothLegs(job[j]) PROVE FALSE
  <2>1. Len(job[j].legs) = 2
    BY <1>3 DEF BothLegs
  <2>2. QED
    BY <2>1
<1>4. CASE job[j].req.op = "rebalance"
  <2>1. PICK w \in Venues : job[j].legs = <<Leg("lend", w)>> /\ job[j].did = {"withdraw"}
    BY <1>1, <1>3, <1>4 DEF Progress, SecondLeg
  <2>2. Head(job[j].legs).op = "lend"
    BY <2>1 DEF Leg
  <2>3. QED
    BY <1>4, <2>1, <2>2
<1>5. CASE job[j].req.op # "rebalance"
  <2>1. PICK v \in Venues : job[j].legs = <<Leg(job[j].req.op, v)>> /\ job[j].did = {}
    BY <1>1, <1>5 DEF Progress, OneLeg
  <2>2. Head(job[j].legs).op = job[j].req.op
    BY <2>1 DEF Leg
  <2>3. QED
    BY <1>5, <2>1, <2>2
<1>6. QED
  BY <1>4, <1>5

\* The account of a call that has sent is one of the two, and its transaction
\* keeps the balances natural numbers.
LEMMA LandedWorld ==
    ASSUME LendingInv, NEW j \in Jobs, job[j].pc \in {"sent", "lost"},
           Transact(Head(job[j].legs), job[j].account, job[j].req)
    PROVE  WorldOK' /\ accounts' = accounts /\ accounts <= accounts'
<1>1. job[j].pc \in Moving /\ job[j].account \in Accounts /\ WorldOK
  BY DEF Moving, LendingInv, Sound, Progress
<1>2. job[j].req \in Requests /\ Head(job[j].legs) \in LegRecord
  BY <1>1, LegsLeft
<1>3. WorldOK' /\ accounts' = accounts
  BY <1>1, <1>2, TransactType
<1>4. QED
  BY <1>1, <1>3 DEF WorldOK

LEMMA LandStep ==
    ASSUME LendingInv, NEW j \in Jobs, Land(j)
    PROVE  LendingInv'
<1>1. job[j] \in JobRecord /\ Sound(job[j]) /\ job[j].pc = "sent" /\ fees' = fees
  BY DEF LendingInv, Land
<1>2. job \in [Jobs -> JobRecord] /\ ~job[j].fee
  BY <1>1, FeeComesLast DEF LendingInv
<1>3. WorldOK' /\ accounts' = accounts /\ accounts <= accounts'
  BY <1>1, LandedWorld DEF Land
<1>4. PICK leg \in LegRecord : leg = Head(job[j].legs)
  BY <1>1, LegsLeft DEF Moving
<1>5. ASSUME NEW b \in JobRecord, job' = [job EXCEPT ![j] = b], Sound(b), ~b.fee,
             b.pc # "sent"
      PROVE  LendingInv'
  <2>1. AccountThere(b, accounts') /\ (job[j].fee => b.fee)
    BY <1>2, <1>5 DEF AccountThere
  <2>2. fees' = IF b.fee /\ ~job[j].fee THEN fees + 1 ELSE fees
    BY <1>1, <1>5
  <2>3. QED
    BY <1>3, <1>5, <2>1, <2>2, OneCallMoves
<1>6. CASE Len(job[j].legs) > 1
  <2>1. BothLegs(job[j])
    BY <1>1, <1>6, LegsLeft DEF Moving
  <2>2. PICK v \in Venues, w \in Venues :
           job[j].legs = <<Leg("withdraw", v), Leg("lend", w)>> /\ job[j].did = {}
    BY <2>1 DEF BothLegs
  <2>3. leg.op = "withdraw" /\ Tail(job[j].legs) = <<Leg("lend", w)>>
    BY <1>4, <2>2 DEF Leg
  <2>4. PICK b : b = [job[j] EXCEPT !.pc = "leg", !.legs = Tail(job[j].legs),
                                    !.did = job[j].did \cup {leg.op}]
    OBVIOUS
  <2>5. job' = [job EXCEPT ![j] = b]
    BY <1>2, <1>4, <1>6, <2>4 DEF Land
  <2>6. Leg("lend", w) \in LegRecord
    BY DEF Leg, LegRecord, Operations
  <2>7. /\ b.pc = "leg" /\ b.legs = <<Leg("lend", w)>> /\ b.did = {"withdraw"}
        /\ b.req = job[j].req /\ b.fee = job[j].fee /\ b.account = job[j].account
        /\ b.quoted = job[j].quoted
    BY <1>1, <2>2, <2>3, <2>4 DEF JobRecord
  <2>8. b \in JobRecord
    <3>1. <<Leg("lend", w)>> \in Seq(LegRecord) /\ "leg" \in States /\ {"withdraw"} \in SUBSET Operations
      BY <2>6 DEF States, Moving, Operations
    <3>2. QED
      BY <1>1, <2>2, <2>3, <2>4, <3>1 DEF JobRecord
  <2>9. job[j].req.op = "rebalance" /\ ~job[j].req.dryRun
    <3>1. ~OneLeg(job[j])
      <4>1. ASSUME OneLeg(job[j]) PROVE FALSE
        <5>1. Len(job[j].legs) = 1
          BY <4>1 DEF OneLeg
        <5>2. QED
          BY <1>6, <5>1
      <4>2. QED
        BY <4>1
    <3>2. QED
      BY <1>1, <3>1 DEF Sound, Progress, Moving
  <2>10. Sound(b)
    <3>1. SecondLeg(b)
      BY <2>7 DEF SecondLeg
    <3>2. Progress(b)
      BY <1>2, <2>7, <2>9, <3>1 DEF Progress, Moving
    <3>3. Whole(b)
      BY <2>7 DEF Whole
    <3>4. Len(b.legs) = 1 /\ b.req.op = "rebalance"
      BY <2>7, <2>9
    <3>5. UpOnly(b)
      BY <3>4 DEF UpOnly
    <3>6. QED
      BY <3>2, <3>3, <3>5 DEF Sound
  <2>11. ~b.fee /\ b.pc # "sent"
    BY <1>2, <2>7
  <2>12. QED
    BY <1>5, <2>5, <2>8, <2>10, <2>11
<1>7. CASE ~(Len(job[j].legs) > 1)
  <2>1. PICK did : did = job[j].did \cup {leg.op}
    OBVIOUS
  <2>2. did = IF job[j].req.op = "rebalance" THEN {"withdraw", "lend"} ELSE {job[j].req.op}
    BY <1>1, <1>4, <1>7, <2>1, LastLands
  <2>3. did \in SUBSET Operations
    BY <1>1, <1>4, <2>1 DEF JobRecord, LegRecord
  <2>4. job' = [AfterLegs(j) EXCEPT ![j].did = @ \cup {leg.op}]
    BY <1>4, <1>7 DEF Land
  <2>5. CASE job[j].req.op \in {"lend", "borrow", "swap"}
    <3>1. PICK b : b = [job[j] EXCEPT !.pc = "fee", !.did = did]
      OBVIOUS
    <3>2. /\ b.req = job[j].req /\ b.legs = job[j].legs /\ b.did = did
          /\ b.quoted = job[j].quoted /\ b.fee = job[j].fee /\ b.pc = "fee"
          /\ b \in JobRecord
      BY <1>1, <2>3, <3>1 DEF JobRecord, States
    <3>3. job' = [job EXCEPT ![j] = b]
      <4>1. AfterLegs(j) = [job EXCEPT ![j].pc = "fee"]
        BY <2>5 DEF AfterLegs
      <4>2. job[j] \in JobRecord
        BY <1>1
      <4>3. QED
        BY <1>2, <2>1, <2>4, <3>1, <4>1, <4>2 DEF JobRecord
    <3>4. Sound(b)
      BY <1>1, <1>2, <2>2, <2>5, <3>2 DEF Sound, Progress, Whole, UpOnly, Moving, DidIt
    <3>5. ~b.fee /\ b.pc # "sent"
      BY <1>2, <3>2
    <3>6. QED
      BY <1>5, <3>2, <3>3, <3>4, <3>5
  <2>6. CASE job[j].req.op \notin {"lend", "borrow", "swap"}
    <3>1. "done" \in Ended
      BY DEF Ended
    <3>2. PICK e \in JobRecord :
             /\ e = [job[j] EXCEPT !.pc = "done", !.legs = <<>>, !.account = None,
                                   !.quoted = <<>>]
             /\ e.pc = "done" /\ e.req = job[j].req /\ e.legs = <<>> /\ e.quoted = <<>>
             /\ e.did = job[j].did /\ e.fee = job[j].fee
      BY <1>1, <3>1, EndRecord
    <3>3. PICK b : b = [e EXCEPT !.did = did]
      OBVIOUS
    <3>4. /\ b.req = job[j].req /\ b.did = did /\ b.quoted = <<>> /\ b.fee = job[j].fee
          /\ b.pc = "done" /\ b \in JobRecord
      BY <2>3, <3>2, <3>3 DEF JobRecord
    <3>5. job' = [job EXCEPT ![j] = b]
      BY <1>2, <2>1, <2>4, <2>6, <3>2, <3>3 DEF AfterLegs, End
    <3>6. job[j].req.op = "rebalance" => ~job[j].req.dryRun
      BY <1>1 DEF Sound, Progress, Moving
    <3>7. Sound(b)
      BY <1>2, <2>2, <3>4, <3>6 DEF Sound, Progress, Whole, UpOnly, Moving
    <3>8. ~b.fee /\ b.pc # "sent"
      BY <1>2, <3>4
    <3>9. QED
      BY <1>5, <3>4, <3>5, <3>7, <3>8
  <2>7. QED
    BY <2>5, <2>6
<1>8. QED
  BY <1>6, <1>7

\* A call that threw may still have done a leg: never the second of a
\* rebalance without the first.
LEMMA LandsLateStep ==
    ASSUME LendingInv, NEW j \in Jobs, LandsLate(j)
    PROVE  LendingInv'
<1>1. job[j] \in JobRecord /\ Sound(job[j]) /\ job[j].pc = "lost" /\ fees' = fees
  BY DEF LendingInv, LandsLate
<1>2. job \in [Jobs -> JobRecord] /\ ~job[j].fee
  BY <1>1, FeeComesLast DEF LendingInv
<1>3. WorldOK' /\ accounts' = accounts /\ accounts <= accounts'
  BY <1>1, LandedWorld DEF LandsLate
<1>4. PICK leg \in LegRecord : leg = Head(job[j].legs)
  BY <1>1, LegsLeft DEF Moving
<1>5. PICK e \in JobRecord :
         /\ e = [job[j] EXCEPT !.pc = "threw", !.legs = <<>>, !.account = None,
                               !.quoted = <<>>]
         /\ e.pc = "threw" /\ e.req = job[j].req /\ e.legs = <<>> /\ e.quoted = <<>>
         /\ e.did = job[j].did /\ e.fee = job[j].fee
  <2>1. "threw" \in Ended
    BY DEF Ended
  <2>2. QED
    BY <1>1, <2>1, EndRecord
<1>6. PICK b : b = [e EXCEPT !.did = job[j].did \cup {leg.op}]
  OBVIOUS
<1>7. /\ b.pc = "threw" /\ b.req = job[j].req /\ b.quoted = <<>> /\ ~b.fee
      /\ b.did = job[j].did \cup {leg.op} /\ b \in JobRecord
  BY <1>1, <1>2, <1>4, <1>5, <1>6 DEF JobRecord, LegRecord
<1>8. job' = [job EXCEPT ![j] = b]
  BY <1>2, <1>4, <1>5, <1>6 DEF LandsLate, End
<1>9. Whole(b)
  <2>1. SUFFICES ASSUME job[j].req.op = "rebalance", "lend" \in b.did
                 PROVE  "withdraw" \in b.did
    BY <1>7 DEF Whole
  <2>2. CASE BothLegs(job[j])
    <3>1. leg.op = "withdraw"
      BY <1>4, <2>2 DEF BothLegs, Leg
    <3>2. QED
      BY <1>7, <3>1
  <2>3. CASE SecondLeg(job[j])
    BY <1>7, <2>3 DEF SecondLeg
  <2>4. QED
    BY <1>1, <2>1, <2>2, <2>3 DEF Sound, Progress, Moving
<1>10. Sound(b)
  BY <1>7, <1>9 DEF Sound, Progress, UpOnly, Moving
<1>11. AccountThere(b, accounts') /\ (job[j].fee => b.fee)
  BY <1>2, <1>7 DEF AccountThere
<1>12. fees' = IF b.fee /\ ~job[j].fee THEN fees + 1 ELSE fees
  BY <1>1, <1>7
<1>13. QED
  BY <1>3, <1>7, <1>8, <1>10, <1>11, <1>12, OneCallMoves

-----------------------------------------------------------------------------
(* The plans                                                               *)

\* A call that has its legs goes on, when what it chose is the best it saw.
LEMMA PlannedStep ==
    ASSUME LendingInv, NEW j \in Jobs, job[j].pc = "quoting", UNCHANGED <<world, fees>>,
           NEW legs \in Seq(LegRecord), NEW rates \in {<<>>} \cup [Venues -> 0..MaxApy],
           job' = [job EXCEPT ![j].pc = "leg", ![j].legs = legs, ![j].quoted = rates],
           ~(job[j].req.op \in {"rebalance", "swap"} /\ job[j].req.dryRun),
           \E v, w \in Venues :
              IF job[j].req.op = "rebalance"
              THEN /\ legs = <<Leg("withdraw", v), Leg("lend", w)>>
                   /\ rates[w] > rates[v] + job[j].req.min
                   /\ \A x \in Of(job[j].req.target) \ {v} : rates[x] <= rates[w]
              ELSE /\ legs = <<Leg(job[j].req.op, v)>>
                   /\ job[j].req.op = "lend" =>
                         \A x \in Of(job[j].req.protocol) : rates[x] <= rates[v]
    PROVE  LendingInv'
<1>1. job[j] \in JobRecord /\ Sound(job[j]) /\ job \in [Jobs -> JobRecord] /\ ~job[j].fee
  BY FeeComesLast DEF LendingInv
<1>2. job[j].did = {}
  BY <1>1 DEF Sound, Progress
<1>3. PICK b : b = [job[j] EXCEPT !.pc = "leg", !.legs = legs, !.quoted = rates]
  OBVIOUS
<1>4. /\ b.pc = "leg" /\ b.legs = legs /\ b.quoted = rates /\ b.req = job[j].req
      /\ b.did = {} /\ ~b.fee /\ b \in JobRecord
  BY <1>1, <1>2, <1>3 DEF JobRecord, States, Moving
<1>5. job' = [job EXCEPT ![j] = b]
  BY <1>1, <1>3
<1>6. AccountThere(b, accounts)
  BY <1>4 DEF AccountThere
<1>7. b.fee = job[j].fee
  BY <1>1, <1>3 DEF JobRecord
<1>8. PICK v \in Venues, w \in Venues :
         IF job[j].req.op = "rebalance"
         THEN /\ legs = <<Leg("withdraw", v), Leg("lend", w)>>
              /\ rates[w] > rates[v] + job[j].req.min
              /\ \A x \in Of(job[j].req.target) \ {v} : rates[x] <= rates[w]
         ELSE /\ legs = <<Leg(job[j].req.op, v)>>
              /\ job[j].req.op = "lend" =>
                    \A x \in Of(job[j].req.protocol) : rates[x] <= rates[v]
  OBVIOUS
<1>9. CASE job[j].req.op = "rebalance"
  <2>1. BothLegs(b)
    BY <1>4, <1>8, <1>9 DEF BothLegs
  <2>2. Progress(b) /\ Whole(b)
    BY <1>4, <1>9, <2>1 DEF Progress, Moving, Whole
  <2>3. legs[1].venue = v /\ legs[2].venue = w
    BY <1>8, <1>9 DEF Leg
  <2>4. UpOnly(b)
    BY <1>4, <1>8, <1>9, <2>3 DEF UpOnly
  <2>5. Sound(b)
    BY <2>2, <2>4 DEF Sound
  <2>6. QED
    BY <1>4, <1>5, <1>6, <1>7, <2>5, OneCallAlone
<1>10. CASE job[j].req.op # "rebalance"
  <2>1. OneLeg(b)
    BY <1>4, <1>8, <1>10 DEF OneLeg
  <2>2. Progress(b) /\ Whole(b)
    BY <1>4, <1>10, <2>1 DEF Progress, Moving, Whole
  <2>3. legs[1].venue = v
    BY <1>8, <1>10 DEF Leg
  <2>4. UpOnly(b)
    BY <1>4, <1>8, <1>10, <2>3 DEF UpOnly
  <2>5. Sound(b)
    BY <2>2, <2>4 DEF Sound
  <2>6. QED
    BY <1>4, <1>5, <1>6, <1>7, <2>5, OneCallAlone
<1>11. QED
  BY <1>9, <1>10

\* A call that has done nothing may end well if nothing was to be done.
LEMMA NothingToDo ==
    ASSUME LendingInv, NEW j \in Jobs, NEW how \in {"done", "skipped"},
           job[j].pc = "quoting", UNCHANGED <<world, fees>>, job' = End(j, how),
           how = "done" => job[j].req.dryRun
    PROVE  LendingInv'
<1>1. job[j] \in JobRecord /\ Sound(job[j]) /\ job \in [Jobs -> JobRecord] /\ ~job[j].fee
  BY FeeComesLast DEF LendingInv
<1>2. job[j].did = {}
  BY <1>1 DEF Sound, Progress
<1>3. PICK e \in JobRecord :
         /\ e = [job[j] EXCEPT !.pc = how, !.legs = <<>>, !.account = None, !.quoted = <<>>]
         /\ e.pc = how /\ e.req = job[j].req /\ e.legs = <<>> /\ e.quoted = <<>>
         /\ e.did = job[j].did /\ e.fee = job[j].fee
  <2>1. how \in Ended
    BY DEF Ended
  <2>2. QED
    BY <1>1, <2>1, EndRecord
<1>4. job' = [job EXCEPT ![j] = e]
  BY <1>3 DEF End
<1>5. AccountThere(e, accounts)
  BY <1>3 DEF AccountThere
<1>6. Sound(e)
  BY <1>1, <1>2, <1>3 DEF Sound, Progress, Whole, UpOnly, Moving
<1>7. e.fee = job[j].fee
  BY <1>3
<1>8. QED
  BY <1>4, <1>5, <1>6, <1>7, OneCallAlone

\* One leg, at a venue of the list.
LEMMA PlannedOne ==
    ASSUME LendingInv, NEW j \in Jobs, job[j].pc = "quoting", UNCHANGED <<world, fees>>,
           NEW op \in {"lend", "borrow", "withdraw", "repay"}, job[j].req.op = op,
           NEW v \in Venues, NEW rates \in [Venues -> 0..MaxApy],
           op = "lend" => \A x \in Of(job[j].req.protocol) : rates[x] <= rates[v],
           Planned(j, <<Leg(op, v)>>, rates)
    PROVE  LendingInv'
<1>1. PICK legs : legs = <<Leg(op, v)>>
  OBVIOUS
<1>2. Leg(op, v) \in LegRecord
  BY DEF Leg, LegRecord, Operations
<1>3. legs \in Seq(LegRecord)
  BY <1>1, <1>2
<1>4. rates \in {<<>>} \cup [Venues -> 0..MaxApy]
  OBVIOUS
<1>5. job' = [job EXCEPT ![j].pc = "leg", ![j].legs = legs, ![j].quoted = rates]
  BY <1>1 DEF Planned
<1>6. ~(job[j].req.op \in {"rebalance", "swap"} /\ job[j].req.dryRun)
  OBVIOUS
<1>7. \E x, w \in Venues :
         IF job[j].req.op = "rebalance"
         THEN /\ legs = <<Leg("withdraw", x), Leg("lend", w)>>
              /\ rates[w] > rates[x] + job[j].req.min
              /\ \A y \in Of(job[j].req.target) \ {x} : rates[y] <= rates[w]
         ELSE /\ legs = <<Leg(job[j].req.op, x)>>
              /\ job[j].req.op = "lend" =>
                    \A y \in Of(job[j].req.protocol) : rates[y] <= rates[x]
  BY <1>1
<1>8. QED
  BY <1>3, <1>4, <1>5, <1>6, <1>7, PlannedStep

LEMMA RequestType ==
    ASSUME LendingInv, NEW j \in Jobs, job[j].req.op # "none"
    PROVE  /\ job[j].req \in Requests
           /\ job[j].req.protocol \in Selectors /\ job[j].req.target \in Selectors
           /\ job[j].req.min \in Int
<1>1. job[j].req \in Requests \cup {NoRequest} /\ NoRequest.op = "none"
  BY DEF LendingInv, JobRecord, NoRequest
<1>2. job[j].req \in Requests
  BY <1>1
<1>3. QED
  BY <1>2, RequestsAssumption

LEMMA PlanLendStep ==
    ASSUME LendingInv, NEW j \in Jobs, job[j].pc = "quoting", UNCHANGED <<world, fees>>,
           NEW rates \in [Venues -> 0..MaxApy], PlanLend(j, rates)
    PROVE  LendingInv'
<1>1. PICK p, S : p = job[j].req.protocol /\ S = GetLendingRates(p)
  OBVIOUS
<1>2. job[j].req.op = "lend" /\ S # {} /\ p \in Selectors
  BY <1>1, RequestType DEF PlanLend
<1>3. S = Of(p) /\ S \cap Of(p) = Of(p) /\ Of(p) \in SUBSET Venues /\ Of(p) # {}
  BY <1>1, <1>2, Selected
<1>4. PICK v : v = SortRatesDescending(Of(p), rates)
  OBVIOUS
<1>5. v \in Venues /\ \A x \in Of(p) : rates[x] <= rates[v]
  BY <1>3, <1>4, BestIsBest
<1>6. PickBestLendingRate(S, p, rates) = v
  BY <1>3, <1>4, Zenon DEF PickBestLendingRate
<1>7. Planned(j, <<Leg("lend", v)>>, rates)
  BY <1>1, <1>6 DEF PlanLend
<1>8. QED
  BY <1>1, <1>2, <1>5, <1>7, PlannedOne

\* borrow, withdraw and repay resolve their venue alike.
LEMMA ResolvedVenue ==
    ASSUME NEW S \in SUBSET Venues, NEW req, NEW rates \in [Venues -> 0..MaxApy],
           Matching(S, req) # {}
    PROVE  ResolveOpportunity(S, req, rates) \in Venues
<1>1. Matching(S, req) \in SUBSET Venues
  BY DEF Matching
<1>2. QED
  BY <1>1, BestIsBest DEF ResolveOpportunity

LEMMA PlanSingleStep ==
    ASSUME LendingInv, NEW j \in Jobs, job[j].pc = "quoting", UNCHANGED <<world, fees>>,
           NEW rates \in [Venues -> 0..MaxApy],
           PlanBorrow(j, rates) \/ PlanWithdraw(j, rates) \/ PlanRepay(j, rates)
    PROVE  LendingInv'
<1>1. PICK S : S = GetLendingRates(job[j].req.protocol)
  OBVIOUS
<1>2. job[j].req.op \in {"borrow", "withdraw", "repay"} /\ Matching(S, job[j].req) # {}
  BY <1>1 DEF PlanBorrow, PlanWithdraw, PlanRepay
<1>3. job[j].req.protocol \in Selectors
  BY <1>2, RequestType
<1>4. S \in SUBSET Venues
  BY <1>1, <1>3, Selected
<1>5. PICK v \in Venues : v = ResolveOpportunity(S, job[j].req, rates)
  BY <1>2, <1>4, ResolvedVenue
<1>6. Planned(j, <<Leg(job[j].req.op, v)>>, rates)
  BY <1>1, <1>5 DEF PlanBorrow, PlanWithdraw, PlanRepay
<1>7. PICK op \in {"lend", "borrow", "withdraw", "repay"} : op = job[j].req.op /\ op # "lend"
  BY <1>2
<1>8. Planned(j, <<Leg(op, v)>>, rates)
  BY <1>6, <1>7
<1>9. QED
  BY <1>5, <1>7, <1>8, PlannedOne

LEMMA PlanRebalanceStep ==
    ASSUME LendingInv, NEW j \in Jobs, job[j].pc = "quoting", UNCHANGED <<world, fees>>,
           NEW rates \in [Venues -> 0..MaxApy], PlanRebalance(j, rates)
    PROVE  LendingInv'
<1>1. PICK req, from, others, to :
         /\ req = job[j].req
         /\ from = ResolveOpportunity(Venues, req, rates)
         /\ others = Of(req.target) \ {from}
         /\ to = PickRebalanceTarget(from, req.target, rates)
  OBVIOUS
<1>2. req.op = "rebalance" /\ Matching(Venues, req) # {}
  BY <1>1 DEF PlanRebalance
<1>3. from \in Venues /\ others \in SUBSET Venues /\ req.min \in Int
  <2>1. from \in Venues
    BY <1>1, <1>2, ResolvedVenue
  <2>2. req.target \in Selectors /\ req.min \in Int
    BY <1>1, <1>2, RequestType
  <2>3. QED
    BY <1>1, <2>1, <2>2, Selected
<1>4. CASE job' = End(j, "skipped")
  BY <1>4, NothingToDo
<1>5. CASE req.dryRun /\ job' = End(j, "done")
  BY <1>1, <1>5, NothingToDo
<1>6. CASE /\ others # {} /\ ~(rates[to] - rates[from] <= req.min) /\ ~req.dryRun
           /\ Planned(j, <<Leg("withdraw", from), Leg("lend", to)>>, rates)
  <2>1. to = SortRatesDescending(others, rates)
    BY <1>1 DEF PickRebalanceTarget
  <2>2. to \in Venues /\ \A x \in others : rates[x] <= rates[to]
    BY <1>3, <1>6, <2>1, BestIsBest
  <2>3. rates[to] > rates[from] + req.min
    <3>1. rates[to] \in 0..MaxApy /\ rates[from] \in 0..MaxApy /\ MaxApy \in Nat
      BY <1>3, <2>2, VenuesAssumption
    <3>2. rates[to] \in Int /\ rates[from] \in Int
      BY <3>1
    <3>3. QED
      BY <1>3, <1>6, <3>2
  <2>4. PICK legs : legs = <<Leg("withdraw", from), Leg("lend", to)>>
    OBVIOUS
  <2>5. legs \in Seq(LegRecord)
    <3>1. Leg("withdraw", from) \in LegRecord /\ Leg("lend", to) \in LegRecord
      BY <1>3, <2>2 DEF Leg, LegRecord, Operations
    <3>2. QED
      BY <2>4, <3>1
  <2>6. job' = [job EXCEPT ![j].pc = "leg", ![j].legs = legs, ![j].quoted = rates]
    BY <1>6, <2>4 DEF Planned
  <2>7. \E x, w \in Venues :
           IF job[j].req.op = "rebalance"
           THEN /\ legs = <<Leg("withdraw", x), Leg("lend", w)>>
                /\ rates[w] > rates[x] + job[j].req.min
                /\ \A y \in Of(job[j].req.target) \ {x} : rates[y] <= rates[w]
           ELSE /\ legs = <<Leg(job[j].req.op, x)>>
                /\ job[j].req.op = "lend" =>
                      \A y \in Of(job[j].req.protocol) : rates[y] <= rates[x]
    BY <1>1, <1>2, <1>3, <2>2, <2>3, <2>4
  <2>8. ~(job[j].req.op \in {"rebalance", "swap"} /\ job[j].req.dryRun)
    BY <1>1, <1>6
  <2>9. rates \in {<<>>} \cup [Venues -> 0..MaxApy]
    OBVIOUS
  <2>10. QED
    BY <2>5, <2>6, <2>7, <2>8, <2>9, PlannedStep
<1>7. QED
  BY <1>1, <1>4, <1>5, <1>6 DEF PlanRebalance

LEMMA PlanSwapStep ==
    ASSUME LendingInv, NEW j \in Jobs, job[j].pc = "quoting", UNCHANGED <<world, fees>>,
           PlanSwap(j)
    PROVE  LendingInv'
<1>1. job[j].req.op = "swap" /\ job[j] \in JobRecord /\ job \in [Jobs -> JobRecord]
  BY DEF PlanSwap, LendingInv
<1>2. CASE job[j].req.dryRun
  BY <1>2, NothingToDo DEF PlanSwap
<1>3. CASE ~job[j].req.dryRun
  <2>1. PICK legs : legs = <<Leg("swap", 1)>>
    OBVIOUS
  <2>2. 1 \in Venues
    BY VenuesAssumption DEF Venues
  <2>3. legs \in Seq(LegRecord)
    <3>1. Leg("swap", 1) \in LegRecord
      BY <2>2 DEF Leg, LegRecord, Operations
    <3>2. QED
      BY <2>1, <3>1
  <2>4. job[j].quoted = <<>>
    BY DEF LendingInv, Sound, Progress
  <2>5. PICK rates \in {<<>>} \cup [Venues -> 0..MaxApy] : rates = <<>>
    OBVIOUS
  <2>6. job' = [job EXCEPT ![j].pc = "leg", ![j].legs = legs, ![j].quoted = rates]
    <3>1. job' = [job EXCEPT ![j].pc = "leg", ![j].legs = legs]
      BY <1>3, <2>1 DEF PlanSwap
    <3>2. QED
      BY <1>1, <2>4, <2>5, <3>1 DEF JobRecord
  <2>7. \E x, w \in Venues :
           IF job[j].req.op = "rebalance"
           THEN /\ legs = <<Leg("withdraw", x), Leg("lend", w)>>
                /\ rates[w] > rates[x] + job[j].req.min
                /\ \A y \in Of(job[j].req.target) \ {x} : rates[y] <= rates[w]
           ELSE /\ legs = <<Leg(job[j].req.op, x)>>
                /\ job[j].req.op = "lend" =>
                      \A y \in Of(job[j].req.protocol) : rates[y] <= rates[x]
    BY <1>1, <2>1, <2>2
  <2>8. ~(job[j].req.op \in {"rebalance", "swap"} /\ job[j].req.dryRun)
    BY <1>3
  <2>9. QED
    BY <2>3, <2>6, <2>7, <2>8, PlannedStep
<1>4. QED
  BY <1>2, <1>3

LEMMA QuoteStep ==
    ASSUME LendingInv, NEW j \in Jobs, Quote(j)
    PROVE  LendingInv'
<1>1. job[j].pc = "quoting" /\ UNCHANGED <<world, fees>>
  BY DEF Quote
<1>2. CASE PlanSwap(j)
  BY <1>1, <1>2, PlanSwapStep
<1>3. CASE \E rates \in [Venues -> 0..MaxApy] :
              \/ PlanLend(j, rates) \/ PlanBorrow(j, rates)
              \/ PlanWithdraw(j, rates) \/ PlanRepay(j, rates)
              \/ PlanRebalance(j, rates)
  BY <1>1, <1>3, PlanLendStep, PlanSingleStep, PlanRebalanceStep
<1>4. QED
  BY <1>2, <1>3 DEF Quote

-----------------------------------------------------------------------------
(* The theorems                                                            *)

LEMMA LendingInit == Init => LendingInv
<1> SUFFICES ASSUME Init PROVE LendingInv
  OBVIOUS
<1>2. NoJob \in JobRecord
  <2>1. <<>> \in Seq(LegRecord)
    OBVIOUS
  <2>2. QED
    BY <2>1 DEF NoJob, JobRecord, States
<1>3. job \in [Jobs -> JobRecord] /\ \A j \in Jobs : job[j] = NoJob
  BY <1>2 DEF Init
<1>4. NoJob.pc = "idle" /\ NoJob.quoted = <<>> /\ NoJob.fee = FALSE /\ NoJob.req = NoRequest
      /\ NoRequest.op = "none"
  BY DEF NoJob, NoRequest
<1>5. Sound(NoJob)
  BY <1>4 DEF Sound, Progress, Whole, UpOnly, Moving
<1>6. AccountThere(NoJob, accounts)
  BY <1>4 DEF AccountThere
<1>7. WorldOK
  <2>1. accounts \in 0..1
    BY DEF Init
  <2>2. 1 \in Accounts /\ \A v \in Venues : StartSupply[v] \in Nat
    BY VenuesAssumption DEF Accounts
  <2>3. supplied \in [Venues -> [Accounts -> Nat]]
    BY <2>2 DEF Init
  <2>4. owed \in [Venues -> [Accounts -> Nat]]
    BY DEF Init
  <2>5. QED
    BY <2>1, <2>3, <2>4, VenuesAssumption DEF Init, WorldOK
<1>8. FeesCounted
  <2>1. Paying = {}
    BY <1>3, <1>4 DEF Paying
  <2>2. QED
    BY <2>1, FS_EmptySet DEF FeesCounted, Init
<1>9. QED
  BY <1>3, <1>5, <1>6, <1>7, <1>8 DEF LendingInv

LEMMA LendingNext == LendingInv /\ [Next]_vars => LendingInv'
<1> SUFFICES ASSUME LendingInv, [Next]_vars PROVE LendingInv'
  OBVIOUS
<1>2. CASE UNCHANGED vars
  BY <1>2 DEF vars, world, LendingInv, WorldOK, FeesCounted, Paying
<1>3. CASE Next
  <2>1. PICK j \in Jobs : (\E req \in Requests : Call(j, req)) \/ Settles(j) \/ Loses(j)
    BY <1>3 DEF Next
  <2>2. CASE \E req \in Requests : Call(j, req)
    BY <2>2, CallStep
  <2>3. CASE Loses(j)
    BY <2>3, LosesStep
  <2>4. CASE Settles(j)
    BY <2>4, QuoteStep, LookUpStep, CreateStep, LandStep, ThrowingStep, LandsLateStep, FeeStep
       DEF Settles
  <2>5. QED
    BY <2>1, <2>2, <2>3, <2>4
<1>4. QED
  BY <1>2, <1>3

LEMMA LendingAlways == Spec => []LendingInv
  BY LendingInit, LendingNext, PTL DEF Spec

\* Balances never go below nothing, and no call uses an account that is not
\* there, whatever overlaps.
THEOREM LendingTypes == Spec => []TypeOK
<1>1. ASSUME LendingInv PROVE TypeOK
  <2>1. ASSUME NEW j \in Jobs
        PROVE  /\ job[j].pc \in {"idle", "quoting", "leg", "creating", "sent", "lost", "fee"}
                                  \cup Ended
               /\ job[j].pc \in {"sent", "lost"} => job[j].account \in Accounts
               /\ (job[j].pc = "sent" /\ job[j].account > accounts) =>
                     LET leg == Head(job[j].legs)
                     IN  leg.op = "swap" \/ Protocol[leg.venue] = "kamino"
    <3>1. job[j] \in JobRecord /\ Sound(job[j]) /\ AccountThere(job[j], accounts)
      BY <1>1 DEF LendingInv
    <3>2. job[j].pc \in States
      BY <3>1 DEF JobRecord
    <3>3. QED
      BY <3>1, <3>2 DEF Sound, Progress, AccountThere, States, Moving
  <2>2. fees \in Nat
    <3>1. IsFiniteSet(Paying)
      BY RequestsAssumption, FS_Subset DEF Paying
    <3>2. QED
      BY <1>1, <3>1, FS_CardinalityType DEF LendingInv, FeesCounted
  <2>3. QED
    BY <1>1, <2>1, <2>2 DEF TypeOK, LendingInv, WorldOK
<1>2. QED
  BY <1>1, LendingAlways, PTL

\* rebalance compensates nothing, and yet it never lends what it has not taken
\* out, and says "rebalanced" only when it did both.
THEOREM RebalancesAreWhole == Spec => []RebalanceWholeOrThrown
<1>1. LendingInv => RebalanceWholeOrThrown
  BY DEF LendingInv, Sound, Whole, RebalanceWholeOrThrown
<1>2. QED
  BY <1>1, LendingAlways, PTL

\* A lend goes to the best venue of those it saw, and a rebalance gains more
\* than its threshold.
THEOREM MovesGoUp == Spec => []MovesUpOnly
<1>1. LendingInv => MovesUpOnly
  BY DEF LendingInv, Sound, UpOnly, MovesUpOnly
<1>2. QED
  BY <1>1, LendingAlways, PTL

\* The fee is taken after the operation, once, and from no call that threw.
THEOREM FeesFollow == Spec => []FeeAfterOperation
<1>1. LendingInv => FeeAfterOperation
  BY DEF LendingInv, Sound, Progress, DidIt, FeesCounted, Paying, FeeAfterOperation
<1>2. QED
  BY <1>1, LendingAlways, PTL

=============================================================================
