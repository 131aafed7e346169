-------------------------- MODULE PayPerCallProofs --------------------------
(***************************************************************************)
(* Theorems about PayPerCall, for any number of payments and verifications *)
(* that overlap, any number of token accounts, balances and prices.        *)
(***************************************************************************)
EXTENDS PayPerCall, SumLemmas

-----------------------------------------------------------------------------
(* The inductive invariant                                                 *)

JobStates == {"idle", "asked", "planned", "confirming"} \cup Ended
TxStates == {"none", "sent", "landed", "final", "failed"}
VerStates == {"idle", "looking", "verified", "consumed"} \cup Answered
Plans == [PayerAccounts -> Nat]
Balances == [Accounts -> Nat]

JobRecord == [pc : JobStates, req : Requests \cup {NoRequest}, plan : Plans]
TxRecord == [state : TxStates, to : {Ata, OtherAta}, moves : Plans, lamports : Nat,
             pre : {<<>>} \cup Balances, post : {<<>>} \cup Balances]
VerRecord == [pc : VerStates, of : SUBSET Jobs, attempt : 0..MaxLookups]

Types ==
    /\ bal \in Balances
    /\ job \in [Jobs -> JobRecord]
    /\ tx \in [Jobs -> TxRecord]
    /\ ver \in [Verifications -> VerRecord]
    /\ consumed \in SUBSET Jobs
    /\ honoured \in SUBSET (Verifications \X Jobs)

Landed(t) == t.state \in {"landed", "final"}
Raw(b) == ParseAmountToRaw(b.req.amount)

\* The transaction that b signs is the one it was asked for.
Signs(b, t) ==
    /\ t.to = b.req.to
    /\ b.pc \in {"confirming"} \cup Ended
    /\ IF b.req.kind = "sendSol" THEN t.moves = NoPlan /\ t.lamports = Lamports(b.req.amount)
       ELSE Total(t.moves) = Raw(b) /\ t.lamports = 0

\* What a landed transaction did to the recipient's balance.
Reports(t) ==
    /\ t.pre \in Balances /\ t.post \in Balances
    /\ Gain(t, Ata) = IF t.to = Ata THEN Total(t.moves) ELSE 0

ClientInv ==
    \A j \in Jobs :
        /\ job[j].pc # "idle" => job[j].req \in Requests
        /\ job[j].pc = "planned" => job[j].req.kind # "sendSol" /\ Total(job[j].plan) = Raw(job[j])
        /\ job[j].pc = "credential" => job[j].req.kind = "pay" /\ Landed(tx[j])
        /\ tx[j].state = "none" => tx[j] = NoTx
        /\ tx[j].state # "none" => Signs(job[j], tx[j])
        /\ Landed(tx[j]) => Reports(tx[j])

\* v is about a credential, and has got as far as it says.
Serving(v) == ver[v].pc \in {"consumed", "honoured"}

\* It has got as far as the store, which may have kept the answer to itself.
Stored(v) == Serving(v) \/ ver[v].pc = "unanswered"

VerifyInv ==
    \A v \in Verifications :
        /\ ver[v].pc = "idle" => ver[v].of = {}
        /\ ver[v].pc # "idle" => \E j \in Jobs : ver[v].of = {j} /\ job[j].pc = "credential"
        /\ ver[v].pc = "looking" => ver[v].attempt < MaxLookups
        /\ ver[v].pc = "verified" \/ Serving(v) =>
              \A j \in ver[v].of : Raw(job[j]) > 0 /\ tx[j].state = "final"
        /\ ver[v].pc = "refused" =>
              \A j \in ver[v].of : j \in consumed \/ Raw(job[j]) = 0

\* A reference is consumed for one verification, and honoured for that one.
OnceInv ==
    /\ \A v \in Verifications : Serving(v) => ver[v].of \subseteq consumed
    /\ \A v, w \in Verifications : Serving(v) /\ Serving(w) /\ ver[v].of = ver[w].of => v = w
    /\ \A j \in consumed : \E v \in Verifications : Stored(v) /\ ver[v].of = {j}
    /\ \A entry \in honoured :
          ver[entry[1]].pc = "honoured" /\ ver[entry[1]].of = {entry[2]}

\* What each payment brought, and what the honoured ones were to bring.
Brought(t) == IF Landed(t) THEN SumReceivedTokenAmount(t) ELSE 0
Gains == [j \in Jobs |-> Brought(tx[j])]
Prices == [j \in Jobs |-> Raw(job[j])]
Served == {j \in Jobs : \E entry \in honoured : entry[2] = j}
PriceOf == [entry \in honoured |-> Raw(job[entry[2]])]

GainInv == bal[Ata] = StartReceived + SumFunctionOnSet(Gains, Jobs)
PricesInv == SumFunctionOnSet(PriceOf, honoured) = SumFunctionOnSet(Prices, Served)

PaymentInv == Types /\ ClientInv /\ VerifyInv /\ OnceInv /\ GainInv /\ PricesInv

-----------------------------------------------------------------------------
(* Plans                                                                   *)

LEMMA PayersFinite ==
    /\ IsFiniteSet(PayerAccounts)
    /\ PayerAccounts \subseteq Nat /\ PayerAccounts \subseteq Accounts
    /\ Ata \in Accounts /\ Ata \notin PayerAccounts
<1>1. IsFiniteSet(1..NumAccounts)
  BY AccountsAssumption, FS_Interval
<1>2. QED
  BY <1>1, AccountsAssumption DEF PayerAccounts, Accounts, Ata

\* A plan adds up to a natural number, and one that takes nothing to nothing.
LEMMA TotalType == ASSUME NEW plan \in Plans PROVE Total(plan) \in Nat
<1>1. \A a \in PayerAccounts : plan[a] \in Nat
  BY DEF Plans
<1>2. QED
  BY <1>1, PayersFinite, SumNat DEF Total

LEMMA NoPlanType == NoPlan \in Plans /\ Total(NoPlan) = 0
<1>1. NoPlan \in Plans /\ \A a \in PayerAccounts : NoPlan[a] \in 0..0
  BY DEF NoPlan, Plans
<1>2. Total(NoPlan) \in Nat /\ Total(NoPlan) <= 0 * Cardinality(PayerAccounts)
  <2>1. 0 \in Nat /\ IsFiniteSet(PayerAccounts)
    BY PayersFinite
  <2>2. /\ SumFunctionOnSet(NoPlan, PayerAccounts) \in Nat
        /\ SumFunctionOnSet(NoPlan, PayerAccounts) <= 0 * Cardinality(PayerAccounts)
    BY <1>1, <2>1, SumBounds
  <2>3. QED
    BY <2>2 DEF Total
<1>3. Cardinality(PayerAccounts) \in Nat
  BY PayersFinite, FS_CardinalityType
<1>4. QED
  BY <1>1, <1>2, <1>3

\* A set of accounts that has all that come before any of its own.
Closed(D) == D \in SUBSET PayerAccounts /\ \A a \in D : Before(a) \subseteq D

\* It has a last one, if it is not empty, and the others come before that.
LEMMA LastAccount ==
    ASSUME bal \in Balances, NEW D, Closed(D), D # {}
    PROVE  \E z \in D : D \ {z} = Before(z) /\ Closed(D \ {z})
<1>1. D \subseteq PayerAccounts /\ \A a \in PayerAccounts : a \in Nat /\ bal[a] \in Nat
  BY PayersFinite DEF Closed, Balances
<1> DEFINE T == {bal[a] : a \in D}
<1>2. T \in SUBSET Nat /\ T # {}
  BY <1>1
<1>3. PICK n \in T : \A m \in T : n <= m
  BY <1>2, LeastNumber
<1> DEFINE Poorest == {a \in D : bal[a] = n}
           U == {NumAccounts - a : a \in Poorest}
<1>4. U \in SUBSET Nat /\ U # {}
  <2>1. \A a \in Poorest : a \in 1..NumAccounts
    BY <1>1 DEF PayerAccounts
  <2>2. \A a \in Poorest : NumAccounts - a \in Nat
    BY <2>1, AccountsAssumption
  <2>3. QED
    BY <1>3, <2>2
<1>5. PICK k \in U : \A m \in U : k <= m
  BY <1>4, LeastNumber
<1>6. PICK z \in Poorest : k = NumAccounts - z
  BY <1>5
<1>7. ASSUME NEW a \in D \ {z} PROVE bal[a] > bal[z] \/ (bal[a] = bal[z] /\ a < z)
  <2>1. bal[z] <= bal[a] /\ bal[z] \in Nat /\ bal[a] \in Nat /\ a \in Nat /\ z \in Nat /\ NumAccounts \in Nat
    BY <1>1, <1>3, <1>6, AccountsAssumption
  <2>2. CASE bal[a] = bal[z]
    <3>1. a \in Poorest
      BY <1>6, <2>2
    <3>2. k <= NumAccounts - a
      BY <1>5, <3>1
    <3>3. QED
      BY <1>6, <2>1, <2>2, <3>2
  <2>3. QED
    BY <2>1, <2>2
<1>8. z \in D /\ Before(z) \subseteq D
  BY <1>6 DEF Closed
<1>9. ASSUME NEW a \in D \ {z} PROVE a \in Before(z) /\ z \notin Before(a)
  <2>1. a \in PayerAccounts /\ z \in PayerAccounts
    BY <1>1, <1>8
  <2>2. bal[a] \in Nat /\ bal[z] \in Nat /\ a \in Nat /\ z \in Nat
    BY <1>1, <2>1
  <2>3. QED
    BY <1>7, <2>1, <2>2 DEF Before
<1>10. z \notin Before(z)
  BY <1>1, <1>8 DEF Before
<1>11. D \ {z} = Before(z)
  BY <1>8, <1>9, <1>10
<1>12. Closed(D \ {z})
  BY <1>9 DEF Closed
<1>13. QED
  BY <1>8, <1>11, <1>12

\* So far as the accounts of a closed set go, the plan has made up the amount,
\* or has taken all they have.
MadeUp(requested, D) ==
    LET given == SumFunctionOnSet(BuildTransferPlan(requested), D)
        had == SumFunctionOnSet(bal, D)
    IN  given = IF requested <= had THEN requested ELSE had

LEMMA PlanType ==
    ASSUME bal \in Balances, NEW requested \in Nat
    PROVE  BuildTransferPlan(requested) \in Plans
<1>1. ASSUME NEW a \in PayerAccounts
      PROVE  BuildTransferPlan(requested)[a] \in Nat
  <2>1. bal[a] \in Nat
    BY PayersFinite DEF Balances
  <2>2. SumFunctionOnSet(bal, Before(a)) \in Nat
    <3>1. IsFiniteSet(Before(a)) /\ \A x \in Before(a) : bal[x] \in Nat
      BY PayersFinite, FS_Subset DEF Before, Balances
    <3>2. QED
      BY <3>1, SumNat
  <2>3. PICK r \in Int : r = requested - SumFunctionOnSet(bal, Before(a))
    BY <2>2
  <2>4. BuildTransferPlan(requested)[a] = IF r <= 0 THEN 0 ELSE IF bal[a] < r THEN bal[a] ELSE r
    BY <2>3 DEF BuildTransferPlan
  <2>5. QED
    BY <2>1, <2>3, <2>4
<1>2. BuildTransferPlan(requested) = [a \in PayerAccounts |-> BuildTransferPlan(requested)[a]]
  BY DEF BuildTransferPlan
<1>3. QED
  BY <1>1, <1>2 DEF Plans

LEMMA PlanMakesUp ==
    ASSUME bal \in Balances, NEW requested \in Nat, NEW D, Closed(D)
    PROVE  MadeUp(requested, D)
<1> DEFINE Wrong == {d \in SUBSET PayerAccounts : Closed(d) /\ ~MadeUp(requested, d)}
           T == {Cardinality(d) : d \in Wrong}
<1>1. \A d \in SUBSET PayerAccounts : IsFiniteSet(d) /\ Cardinality(d) \in Nat
  BY PayersFinite, FS_Subset, FS_CardinalityType
<1>2. SUFFICES ASSUME Wrong # {} PROVE FALSE
  BY DEF Closed
<1>3. T \in SUBSET Nat /\ T # {}
  BY <1>1, <1>2
<1>4. PICK n \in T : \A m \in T : n <= m
  BY <1>3, LeastNumber
<1>5. PICK d \in Wrong : n = Cardinality(d)
  BY <1>4
<1>6. PICK plan : plan = BuildTransferPlan(requested)
  OBVIOUS
<1>7. plan \in Plans /\ \A a \in PayerAccounts : plan[a] \in Nat /\ bal[a] \in Nat
  BY <1>6, PlanType, PayersFinite DEF Plans, Balances
<1>8. d # {}
  <2>1. ASSUME d = {} PROVE FALSE
    <3>1. SumFunctionOnSet(plan, {}) = 0 /\ SumFunctionOnSet(bal, {}) = 0
      BY SumEmpty
    <3>2. SumFunctionOnSet(plan, d) = 0 /\ SumFunctionOnSet(bal, d) = 0
      BY <2>1, <3>1
    <3>3. MadeUp(requested, d)
      BY <1>6, <3>2 DEF MadeUp
    <3>4. QED
      BY <1>5, <3>3
  <2>2. QED
    BY <2>1
<1>9. PICK z \in d : d \ {z} = Before(z) /\ Closed(d \ {z})
  BY <1>5, <1>8, LastAccount
<1>10. PICK rest : rest = d \ {z}
  OBVIOUS
<1>11. rest \in SUBSET PayerAccounts /\ z \in PayerAccounts /\ IsFiniteSet(d)
  BY <1>1, <1>5, <1>9, <1>10
<1>12. MadeUp(requested, rest)
  <2>1. Cardinality(rest) < n /\ Cardinality(rest) \in Nat /\ n \in Nat
    BY <1>1, <1>3, <1>5, <1>9, <1>10, <1>11, FS_RemoveElement
  <2>2. CASE rest \in Wrong
    <3>1. Cardinality(rest) \in T
      BY <2>2
    <3>2. n <= Cardinality(rest)
      BY <1>4, <3>1
    <3>3. QED
      BY <2>1, <3>2
  <2>3. QED
    BY <1>9, <1>10, <1>11, <2>2
<1>13. PICK had \in Nat : had = SumFunctionOnSet(bal, rest)
  <2>1. IsFiniteSet(rest) /\ \A x \in rest : bal[x] \in Nat
    BY <1>1, <1>7, <1>11
  <2>2. QED
    BY <2>1, SumNat
<1>14. SumFunctionOnSet(plan, rest) = IF requested <= had THEN requested ELSE had
  BY <1>6, <1>12, <1>13 DEF MadeUp
<1>15. plan[z] = IF requested - had <= 0 THEN 0
                 ELSE IF bal[z] < requested - had THEN bal[z] ELSE requested - had
  <2>1. Before(z) = rest
    BY <1>9, <1>10
  <2>2. SumFunctionOnSet(bal, Before(z)) = had
    BY <1>13, <2>1
  <2>3. QED
    BY <1>6, <1>11, <2>2 DEF BuildTransferPlan
<1>16. /\ SumFunctionOnSet(plan, rest) = SumFunctionOnSet(plan, d) - plan[z]
       /\ had = SumFunctionOnSet(bal, d) - bal[z]
  <2>1. (\A x \in d : plan[x] \in Int) /\ (\A x \in d : bal[x] \in Int)
    BY <1>5, <1>7
  <2>2. SumFunctionOnSet(plan, d \ {z}) = SumFunctionOnSet(plan, d) - plan[z]
    BY <1>11, <2>1, SumRemoves
  <2>3. SumFunctionOnSet(bal, d \ {z}) = SumFunctionOnSet(bal, d) - bal[z]
    BY <1>11, <2>1, SumRemoves
  <2>4. QED
    BY <1>10, <1>13, <2>2, <2>3
<1>17. PICK whole, total \in Int : whole = SumFunctionOnSet(plan, d) /\ total = SumFunctionOnSet(bal, d)
  <2>1. (\A x \in d : plan[x] \in Int) /\ (\A x \in d : bal[x] \in Int)
    BY <1>5, <1>7
  <2>2. SumFunctionOnSet(plan, d) \in Int /\ SumFunctionOnSet(bal, d) \in Int
    BY <1>11, <2>1, SumType
  <2>3. QED
    BY <2>2
<1>18. plan[z] \in Nat /\ bal[z] \in Nat
  BY <1>7, <1>11
<1>19. whole = IF requested <= total THEN requested ELSE total
  BY <1>13, <1>14, <1>15, <1>16, <1>17, <1>18
<1>20. MadeUp(requested, d)
  BY <1>6, <1>17, <1>19 DEF MadeUp
<1>21. QED
  BY <1>5, <1>20

\* buildTransferPlan makes up the amount exactly when the wallet has it.
LEMMA PlanMeetsAmount ==
    ASSUME bal \in Balances, NEW requested \in Nat,
           ~(SumFunctionOnSet(bal, PayerAccounts) < requested)
    PROVE  Total(BuildTransferPlan(requested)) = requested
<1>1. Closed(PayerAccounts)
  BY DEF Closed, Before
<1>2. MadeUp(requested, PayerAccounts)
  BY <1>1, PlanMakesUp
<1>3. SumFunctionOnSet(bal, PayerAccounts) \in Nat
  <2>1. \A x \in PayerAccounts : bal[x] \in Nat
    BY PayersFinite DEF Balances
  <2>2. QED
    BY <2>1, PayersFinite, SumNat
<1>4. QED
  BY <1>2, <1>3 DEF MadeUp, Total

-----------------------------------------------------------------------------
(* Steps of the client and of the chain                                    *)

\* What a transaction brought is what its transfers add up to, if they go to
\* the recipient.
LEMMA BroughtIs ==
    ASSUME NEW t \in TxRecord, Landed(t) => Reports(t)
    PROVE  /\ Brought(t) \in Nat
           /\ Brought(t) = IF Landed(t) /\ t.to = Ata THEN Total(t.moves) ELSE 0
<1>1. Total(t.moves) \in Nat
  BY TotalType DEF TxRecord
<1>2. QED
  BY <1>1 DEF Brought, Reports, SumReceivedTokenAmount

LEMMA GainsType ==
    ASSUME PaymentInv
    PROVE  /\ IsFiniteSet(Jobs)
           /\ \A j \in Jobs : Gains[j] = Brought(tx[j]) /\ Gains[j] \in Nat
<1>1. ASSUME NEW j \in Jobs PROVE Brought(tx[j]) \in Nat
  <2>1. tx[j] \in TxRecord /\ (Landed(tx[j]) => Reports(tx[j]))
    BY DEF PaymentInv, Types, ClientInv
  <2>2. QED
    BY <2>1, BroughtIs
<1>2. QED
  BY <1>1, RequestsAssumption DEF Gains

\* Those that were served had asked, and their credentials stand.
LEMMA ServedHaveCredentials ==
    ASSUME PaymentInv, NEW j \in Served
    PROVE  job[j].pc = "credential"
<1>1. PICK entry \in honoured : entry[2] = j
  BY DEF Served
<1>2. entry[1] \in Verifications /\ ver[entry[1]].pc = "honoured" /\ ver[entry[1]].of = {j}
  BY <1>1 DEF PaymentInv, Types, OnceInv
<1>3. \E i \in Jobs : ver[entry[1]].of = {i} /\ job[i].pc = "credential"
  BY <1>2 DEF PaymentInv, VerifyInv
<1>4. QED
  BY <1>2, <1>3

\* A step of the client or of the chain moves one call and its transaction.
LEMMA CallMoves ==
    ASSUME PaymentInv, NEW j \in Jobs, NEW b \in JobRecord, NEW t \in TxRecord,
           job' = [job EXCEPT ![j] = b], tx' = [tx EXCEPT ![j] = t],
           UNCHANGED <<ver, consumed, honoured>>,
           bal' \in Balances, bal'[Ata] = bal[Ata] + Brought(t) - Brought(tx[j]),
           b.pc # "idle" => b.req \in Requests,
           b.pc = "planned" => b.req.kind # "sendSol" /\ Total(b.plan) = Raw(b),
           b.pc = "credential" => b.req.kind = "pay" /\ Landed(t),
           t.state = "none" => t = NoTx,
           t.state # "none" => Signs(b, t),
           Landed(t) => Reports(t),
           tx[j].state = "final" => t.state = "final",
           job[j].pc = "credential" => b.pc = "credential" /\ b.req = job[j].req
    PROVE  PaymentInv'
<1>1. Types /\ Types'
  BY DEF PaymentInv, Types
<1>2. /\ job'[j] = b /\ tx'[j] = t
      /\ \A i \in Jobs \ {j} : job'[i] = job[i] /\ tx'[i] = tx[i]
  BY <1>1 DEF Types
<1>3. ClientInv'
  <2>1. ASSUME NEW i \in Jobs
        PROVE  /\ job'[i].pc # "idle" => job'[i].req \in Requests
               /\ job'[i].pc = "planned" =>
                     job'[i].req.kind # "sendSol" /\ Total(job'[i].plan) = Raw(job'[i])
               /\ job'[i].pc = "credential" => job'[i].req.kind = "pay" /\ Landed(tx'[i])
               /\ tx'[i].state = "none" => tx'[i] = NoTx
               /\ tx'[i].state # "none" => Signs(job'[i], tx'[i])
               /\ Landed(tx'[i]) => Reports(tx'[i])
    <3>1. CASE i = j
      BY <1>2, <3>1
    <3>2. CASE i # j
      BY <1>2, <3>2 DEF PaymentInv, ClientInv
    <3>3. QED
      BY <3>1, <3>2
  <2>2. QED
    BY <2>1 DEF ClientInv
<1>4. ASSUME NEW i \in Jobs, job[i].pc = "credential"
      PROVE  /\ job'[i].pc = "credential" /\ Raw(job'[i]) = Raw(job[i])
             /\ tx[i].state = "final" => tx'[i].state = "final"
  BY <1>2, <1>4 DEF Raw
<1>5. VerifyInv'
  <2>1. ASSUME NEW v \in Verifications
        PROVE  /\ ver[v].pc = "idle" => ver[v].of = {}
               /\ ver[v].pc # "idle" =>
                     \E i \in Jobs : ver[v].of = {i} /\ job'[i].pc = "credential"
               /\ ver[v].pc = "looking" => ver[v].attempt < MaxLookups
               /\ ver[v].pc = "verified" \/ Serving(v) =>
                     \A i \in ver[v].of : Raw(job'[i]) > 0 /\ tx'[i].state = "final"
               /\ ver[v].pc = "refused" =>
                     \A i \in ver[v].of : i \in consumed \/ Raw(job'[i]) = 0
    <3>1. CASE ver[v].pc = "idle"
      BY <3>1 DEF PaymentInv, VerifyInv, Serving
    <3>2. CASE ver[v].pc # "idle"
      <4>1. PICK i \in Jobs : ver[v].of = {i} /\ job[i].pc = "credential"
        BY <3>2 DEF PaymentInv, VerifyInv
      <4>2. job'[i].pc = "credential" /\ Raw(job'[i]) = Raw(job[i])
            /\ (tx[i].state = "final" => tx'[i].state = "final")
        BY <1>4, <4>1
      <4>3. QED
        BY <3>2, <4>1, <4>2 DEF PaymentInv, VerifyInv
    <3>3. QED
      BY <3>1, <3>2
  <2>2. QED
    BY <2>1 DEF VerifyInv, Serving
<1>6. OnceInv'
  BY DEF PaymentInv, OnceInv, Serving, Stored
<1>7. GainInv'
  <2>1. PICK f, g : f = Gains /\ g = Gains'
    OBVIOUS
  <2>2. IsFiniteSet(Jobs) /\ \A i \in Jobs : f[i] = Brought(tx[i]) /\ f[i] \in Nat
    BY <2>1, GainsType
  <2>3. \A i \in Jobs : g[i] = Brought(tx'[i])
    BY <2>1 DEF Gains
  <2>4. Brought(t) \in Nat
    BY BroughtIs
  <2>5. g[j] = Brought(t) /\ \A i \in Jobs \ {j} : f[i] = g[i]
    BY <1>2, <2>2, <2>3
  <2>6. \A i \in Jobs : f[i] \in Int /\ g[i] \in Int
    BY <2>2, <2>4, <2>5
  <2>7. SumFunctionOnSet(g, Jobs) = SumFunctionOnSet(f, Jobs) - f[j] + g[j]
    <3>1. IsFiniteSet(Jobs)
      BY <2>2
    <3>2. \A i \in Jobs \ {j} : f[i] = g[i]
      BY <2>5
    <3>3. QED
      BY <2>6, <3>1, <3>2, SumChanges
  <2>8. \A i \in Jobs : f[i] \in Int
    BY <2>6
  <2>9. PICK before \in Int : before = SumFunctionOnSet(f, Jobs)
    BY <2>2, <2>8, SumType
  <2>10. bal[Ata] = StartReceived + before
    BY <2>1, <2>9 DEF PaymentInv, GainInv
  <2>11. f[j] = Brought(tx[j]) /\ f[j] \in Nat
    BY <2>2
  <2>12. bal'[Ata] = StartReceived + SumFunctionOnSet(g, Jobs)
    BY <2>4, <2>5, <2>7, <2>9, <2>10, <2>11, AccountsAssumption
  <2>13. QED
    BY <2>1, <2>12 DEF GainInv
<1>8. PricesInv'
  <2>1. Served' = Served /\ \A i \in Served : Prices'[i] = Prices[i]
    <3>1. Served' = Served
      BY DEF Served
    <3>2. ASSUME NEW i \in Served PROVE Prices'[i] = Prices[i]
      <4>1. i \in Jobs /\ job[i].pc = "credential"
        BY ServedHaveCredentials DEF Served
      <4>2. QED
        BY <1>4, <4>1 DEF Prices
    <3>3. QED
      BY <3>1, <3>2
  <2>2. PriceOf' = PriceOf
    <3>1. ASSUME NEW entry \in honoured PROVE Raw(job'[entry[2]]) = Raw(job[entry[2]])
      <4>1. entry[2] \in Served
        BY <1>1 DEF Types, Served
      <4>2. QED
        BY <1>4, <4>1, ServedHaveCredentials DEF Served
    <3>2. QED
      BY <3>1 DEF PriceOf
  <2>3. \A i \in Served : Prices[i] \in Int
    <3>1. ASSUME NEW i \in Served PROVE Prices[i] \in Int
      <4>1. i \in Jobs /\ job[i].pc = "credential"
        BY ServedHaveCredentials DEF Served
      <4>2. job[i].req.amount \in Nat
        BY <4>1, RequestsAssumption DEF PaymentInv, ClientInv
      <4>3. QED
        BY <4>1, <4>2 DEF Prices, Raw, ParseAmountToRaw
    <3>2. QED
      BY <3>1
  <2>4. PICK f, g, S : f = Prices /\ g = Prices' /\ S = Served
    OBVIOUS
  <2>5. IsFiniteSet(S) /\ \A i \in S : f[i] \in Int /\ f[i] = g[i]
    <3>1. IsFiniteSet(Served)
      BY RequestsAssumption, FS_Subset DEF Served
    <3>2. QED
      BY <2>1, <2>3, <2>4, <3>1
  <2>6. SumFunctionOnSet(f, S) = SumFunctionOnSet(g, S)
    BY <2>5, SumAgrees
  <2>7. SumFunctionOnSet(PriceOf, honoured) = SumFunctionOnSet(f, S)
    BY <2>4 DEF PaymentInv, PricesInv
  <2>8. SumFunctionOnSet(PriceOf', honoured') = SumFunctionOnSet(Prices', Served')
    BY <2>1, <2>2, <2>4, <2>6, <2>7
  <2>9. QED
    BY <2>8 DEF PricesInv
<1>9. QED
  BY <1>1, <1>3, <1>5, <1>6, <1>7, <1>8 DEF PaymentInv

\* The same for a step that leaves the transactions and the balances alone.
LEMMA JobMoves ==
    ASSUME PaymentInv, NEW j \in Jobs, NEW b \in JobRecord,
           job' = [job EXCEPT ![j] = b], UNCHANGED <<bal, tx, ver, consumed, honoured>>,
           b.pc # "idle" => b.req \in Requests,
           b.pc = "planned" => b.req.kind # "sendSol" /\ Total(b.plan) = Raw(b),
           b.pc = "credential" => b.req.kind = "pay" /\ Landed(tx[j]),
           tx[j].state # "none" => b.req = job[j].req /\ b.pc \in {"confirming"} \cup Ended,
           job[j].pc = "credential" => b.pc = "credential" /\ b.req = job[j].req
    PROVE  PaymentInv'
<1>1. PICK t \in TxRecord : t = tx[j]
  BY DEF PaymentInv, Types
<1>2. tx' = [tx EXCEPT ![j] = t] /\ bal' \in Balances
  BY <1>1 DEF PaymentInv, Types
<1>3. Brought(t) \in Nat /\ bal[Ata] \in Nat
  <2>1. Landed(t) => Reports(t)
    BY <1>1 DEF PaymentInv, ClientInv
  <2>2. QED
    BY <2>1, BroughtIs, PayersFinite DEF PaymentInv, Types, Balances
<1>4. bal'[Ata] = bal[Ata] + Brought(t) - Brought(tx[j])
  BY <1>1, <1>3
<1>5. /\ t.state = "none" => t = NoTx
      /\ Landed(t) => Reports(t)
      /\ t.state # "none" => Signs(b, t)
  BY <1>1 DEF PaymentInv, ClientInv, Signs, Raw
<1>6. (b.pc = "credential" => b.req.kind = "pay" /\ Landed(t)) /\ (tx[j].state = "final" => t.state = "final")
  BY <1>1
<1>7. UNCHANGED <<ver, consumed, honoured>>
  OBVIOUS
<1>8. QED
  BY <1>2, <1>4, <1>5, <1>6, <1>7, CallMoves

\* The record that Goto makes.
LEMMA GotoRecord ==
    ASSUME PaymentInv, NEW j \in Jobs, NEW pc \in JobStates
    PROVE  \E b \in JobRecord :
              /\ Goto(j, pc) = [job EXCEPT ![j] = b]
              /\ b.pc = pc /\ b.req = job[j].req /\ b.plan = NoPlan
<1>1. job \in [Jobs -> JobRecord] /\ job[j] \in JobRecord
  BY DEF PaymentInv, Types
<1>2. PICK b : b = [job[j] EXCEPT !.pc = pc, !.plan = NoPlan]
  OBVIOUS
<1>3. b \in JobRecord /\ b.pc = pc /\ b.req = job[j].req /\ b.plan = NoPlan
  BY <1>1, <1>2, NoPlanType DEF JobRecord
<1>4. Goto(j, pc) = [job EXCEPT ![j] = b]
  BY <1>1, <1>2 DEF Goto
<1>5. QED
  BY <1>3, <1>4

\* Before a call has signed, there is no transaction of it.
LEMMA NotSignedYet ==
    ASSUME PaymentInv, NEW j \in Jobs, job[j].pc \in {"idle", "asked", "planned"}
    PROVE  tx[j].state = "none" /\ tx[j] = NoTx
<1>1. "idle" \notin Ended /\ "asked" \notin Ended /\ "planned" \notin Ended
  BY DEF Ended
<1>2. tx[j].state = "none"
  BY <1>1 DEF PaymentInv, ClientInv, Signs
<1>3. QED
  BY <1>2 DEF PaymentInv, ClientInv

LEMMA AskStep ==
    ASSUME PaymentInv, NEW j \in Jobs, NEW req \in Requests, Ask(j, req)
    PROVE  PaymentInv'
<1>1. job[j] \in JobRecord /\ job[j].pc = "idle" /\ job \in [Jobs -> JobRecord]
  BY DEF PaymentInv, Types, Ask
<1>2. PICK pc \in {"threw", "asked"} : job' = [job EXCEPT ![j].pc = pc, ![j].req = req]
  BY DEF Ask
<1>3. PICK b : b = [job[j] EXCEPT !.pc = pc, !.req = req]
  OBVIOUS
<1>4. b \in JobRecord /\ b.pc = pc /\ b.req = req
  BY <1>1, <1>3 DEF JobRecord, JobStates, Ended
<1>5. job' = [job EXCEPT ![j] = b]
  BY <1>1, <1>2, <1>3
<1>6. tx[j].state = "none"
  BY <1>1, NotSignedYet
<1>7. UNCHANGED <<bal, tx, ver, consumed, honoured>>
  BY DEF Ask
<1>8. b.req \in Requests /\ b.pc # "planned" /\ b.pc # "credential" /\ job[j].pc # "credential"
  BY <1>1, <1>2, <1>4
<1>9. QED
  BY <1>4, <1>5, <1>6, <1>7, <1>8, JobMoves

LEMMA PlanStep ==
    ASSUME PaymentInv, NEW j \in Jobs, Plan(j)
    PROVE  PaymentInv'
<1>1. /\ job[j] \in JobRecord /\ job[j].pc = "asked" /\ job[j].req.kind # "sendSol"
      /\ job \in [Jobs -> JobRecord] /\ bal \in Balances /\ job[j].req \in Requests
  BY DEF PaymentInv, Types, ClientInv, Plan
<1>2. PICK raw \in Nat : raw = Raw(job[j]) /\ raw = ParseAmountToRaw(job[j].req.amount)
  <2>1. job[j].req.amount \in Nat
    BY <1>1, RequestsAssumption
  <2>2. QED
    BY <2>1 DEF Raw, ParseAmountToRaw
<1>3. tx[j].state = "none"
  BY <1>1, NotSignedYet
<1>4. UNCHANGED <<bal, tx, ver, consumed, honoured>>
  BY DEF Plan
<1>5. CASE job' = Goto(j, "threw")
  <2>1. PICK b \in JobRecord :
           /\ Goto(j, "threw") = [job EXCEPT ![j] = b]
           /\ b.pc = "threw" /\ b.req = job[j].req /\ b.plan = NoPlan
    BY GotoRecord DEF JobStates, Ended
  <2>2. job' = [job EXCEPT ![j] = b]
    BY <1>5, <2>1
  <2>3. b.req \in Requests /\ b.pc # "planned" /\ b.pc # "credential" /\ job[j].pc # "credential"
    BY <1>1, <2>1
  <2>4. QED
    BY <1>3, <1>4, <2>2, <2>3, JobMoves
<1>6. CASE /\ ~(SumFunctionOnSet(bal, PayerAccounts) < raw)
           /\ job' = [job EXCEPT ![j].pc = "planned", ![j].plan = BuildTransferPlan(raw)]
  <2>1. PICK plan \in Plans : plan = BuildTransferPlan(raw)
    BY <1>1, PlanType
  <2>2. Total(plan) = raw
    BY <1>1, <1>6, <2>1, PlanMeetsAmount
  <2>3. PICK b : b = [job[j] EXCEPT !.pc = "planned", !.plan = plan]
    OBVIOUS
  <2>4. b \in JobRecord /\ b.pc = "planned" /\ b.req = job[j].req /\ b.plan = plan
    BY <1>1, <2>3 DEF JobRecord, JobStates
  <2>5. job' = [job EXCEPT ![j] = b]
    BY <1>1, <1>6, <2>1, <2>3
  <2>6. b.req \in Requests /\ b.req.kind # "sendSol" /\ Total(b.plan) = Raw(b)
    BY <1>1, <1>2, <2>2, <2>4 DEF Raw
  <2>7. b.pc # "credential" /\ job[j].pc # "credential"
    BY <1>1, <2>4
  <2>8. QED
    BY <1>3, <1>4, <2>4, <2>5, <2>6, <2>7, JobMoves
<1>7. QED
  BY <1>2, <1>5, <1>6 DEF Plan

LEMMA ConfirmStep ==
    ASSUME PaymentInv, NEW j \in Jobs, Confirm(j) \/ ClientThrows(j)
    PROVE  PaymentInv'
<1>1. /\ job[j] \in JobRecord /\ job[j].pc \in {"asked", "planned", "confirming"}
      /\ job[j].req \in Requests
  BY DEF PaymentInv, Types, ClientInv, Confirm, ClientThrows
<1>2. PICK pc \in Ended : /\ job' = Goto(j, pc)
                          /\ pc = "credential" => job[j].req.kind = "pay" /\ Landed(tx[j])
  BY DEF Confirm, ClientThrows, Ended, Landed
<1>3. PICK b \in JobRecord :
         /\ Goto(j, pc) = [job EXCEPT ![j] = b]
         /\ b.pc = pc /\ b.req = job[j].req /\ b.plan = NoPlan
  BY GotoRecord DEF JobStates
<1>4. job' = [job EXCEPT ![j] = b] /\ b.pc \in {"confirming"} \cup Ended
  BY <1>2, <1>3
<1>5. /\ b.pc # "planned" /\ b.req \in Requests /\ b.req = job[j].req
      /\ b.pc = "credential" => b.req.kind = "pay" /\ Landed(tx[j])
      /\ job[j].pc # "credential"
  BY <1>1, <1>2, <1>3 DEF Ended
<1>6. UNCHANGED <<bal, tx, ver, consumed, honoured>>
  BY DEF Confirm, ClientThrows
<1>7. QED
  BY <1>4, <1>5, <1>6, JobMoves

\* A transaction that has not landed has brought nothing.
LEMMA NothingYet ==
    ASSUME NEW t, ~Landed(t)
    PROVE  Brought(t) = 0
  BY DEF Brought

LEMMA SendStep ==
    ASSUME PaymentInv, NEW j \in Jobs, Send(j) \/ SendSol(j)
    PROVE  PaymentInv'
<1>1. /\ job[j] \in JobRecord /\ job[j].pc \in {"planned", "asked"}
      /\ job[j].req \in Requests /\ bal \in Balances /\ tx \in [Jobs -> TxRecord]
  BY DEF PaymentInv, Types, ClientInv, Send, SendSol
<1>2. tx[j].state = "none" /\ tx[j] = NoTx
  BY <1>1, NotSignedYet
<1>3. PICK b \in JobRecord :
         /\ Goto(j, "confirming") = [job EXCEPT ![j] = b]
         /\ b.pc = "confirming" /\ b.req = job[j].req /\ b.plan = NoPlan
  BY GotoRecord DEF JobStates
<1>4. job' = [job EXCEPT ![j] = b] /\ UNCHANGED <<bal, ver, consumed, honoured>>
  BY <1>3 DEF Send, SendSol
<1>5. job[j].req.amount \in Nat /\ job[j].req.to \in {Ata, OtherAta}
  BY <1>1, RequestsAssumption
<1>6. /\ NoTx \in TxRecord
      /\ NoTx.state = "none" /\ NoTx.moves = NoPlan /\ NoTx.lamports = 0
  BY NoPlanType DEF NoTx, TxRecord, TxStates
<1>7. \E t \in TxRecord : tx' = [tx EXCEPT ![j] = t] /\ t.state = "sent" /\ Signs(b, t)
  <2>1. CASE Send(j)
    <3>1. PICK t : t = [NoTx EXCEPT !.state = "sent", !.to = job[j].req.to,
                                    !.moves = job[j].plan]
      OBVIOUS
    <3>2. /\ t \in TxRecord /\ t.state = "sent" /\ t.to = job[j].req.to
          /\ t.moves = job[j].plan /\ t.lamports = 0
      BY <1>1, <1>5, <1>6, <3>1 DEF TxRecord, TxStates, JobRecord, NoTx
    <3>3. tx' = [tx EXCEPT ![j] = t]
      BY <1>1, <1>2, <2>1, <3>1 DEF Send
    <3>4. job[j].req.kind # "sendSol" /\ Total(job[j].plan) = Raw(job[j])
      BY <2>1 DEF Send, PaymentInv, ClientInv
    <3>5. Signs(b, t)
      BY <1>3, <3>2, <3>4 DEF Signs, Raw
    <3>6. QED
      BY <3>2, <3>3, <3>5
  <2>2. CASE SendSol(j)
    <3>1. PICK t : t = [NoTx EXCEPT !.state = "sent", !.to = job[j].req.to,
                                    !.lamports = Lamports(job[j].req.amount)]
      OBVIOUS
    <3>2. Lamports(job[j].req.amount) \in Nat
      BY <1>5 DEF Lamports
    <3>3. /\ t \in TxRecord /\ t.state = "sent" /\ t.to = job[j].req.to
          /\ t.moves = NoPlan /\ t.lamports = Lamports(job[j].req.amount)
      BY <1>5, <1>6, <3>1, <3>2 DEF TxRecord, TxStates, NoTx
    <3>4. tx' = [tx EXCEPT ![j] = t]
      BY <1>1, <1>2, <2>2, <3>1 DEF SendSol
    <3>5. Signs(b, t)
      BY <1>3, <2>2, <3>3 DEF Signs, SendSol
    <3>6. QED
      BY <3>3, <3>4, <3>5
  <2>3. QED
    BY <2>1, <2>2
<1>8. PICK t \in TxRecord : tx' = [tx EXCEPT ![j] = t] /\ t.state = "sent" /\ Signs(b, t)
  BY <1>7
<1>9. ~Landed(t) /\ Brought(t) = 0 /\ Brought(tx[j]) = 0
  BY <1>2, <1>8, NothingYet DEF Landed
<1>10. bal' \in Balances /\ bal'[Ata] = bal[Ata] + Brought(t) - Brought(tx[j])
  BY <1>1, <1>4, <1>9, PayersFinite DEF Balances
<1>11. /\ b.pc # "idle" => b.req \in Requests
       /\ b.pc = "planned" => b.req.kind # "sendSol" /\ Total(b.plan) = Raw(b)
       /\ b.pc = "credential" => b.req.kind = "pay" /\ Landed(t)
       /\ t.state = "none" => t = NoTx
       /\ t.state # "none" => Signs(b, t)
       /\ Landed(t) => Reports(t)
       /\ tx[j].state = "final" => t.state = "final"
       /\ job[j].pc = "credential" => b.pc = "credential" /\ b.req = job[j].req
  BY <1>1, <1>2, <1>3, <1>8, <1>9
<1>12. UNCHANGED <<ver, consumed, honoured>>
  BY <1>4
<1>13. QED
  BY <1>4, <1>8, <1>10, <1>11, <1>12, CallMoves

\* The chain moves a transaction and not the call that signed it.
LEMMA TxMoves ==
    ASSUME PaymentInv, NEW j \in Jobs, NEW t \in TxRecord,
           tx' = [tx EXCEPT ![j] = t], UNCHANGED <<job, ver, consumed, honoured>>,
           bal' \in Balances, bal'[Ata] = bal[Ata] + Brought(t) - Brought(tx[j]),
           t.state = "none" => t = NoTx,
           t.state # "none" => Signs(job[j], t),
           Landed(t) => Reports(t),
           Landed(tx[j]) => Landed(t),
           tx[j].state = "final" => t.state = "final"
    PROVE  PaymentInv'
<1>1. PICK b \in JobRecord : b = job[j]
  BY DEF PaymentInv, Types
<1>2. job' = [job EXCEPT ![j] = b]
  BY <1>1 DEF PaymentInv, Types
<1>3. /\ b.pc # "idle" => b.req \in Requests
      /\ b.pc = "planned" => b.req.kind # "sendSol" /\ Total(b.plan) = Raw(b)
      /\ b.pc = "credential" => b.req.kind = "pay" /\ Landed(t)
      /\ t.state # "none" => Signs(b, t)
      /\ job[j].pc = "credential" => b.pc = "credential" /\ b.req = job[j].req
  BY <1>1 DEF PaymentInv, ClientInv
<1>4. UNCHANGED <<ver, consumed, honoured>>
  OBVIOUS
<1>5. QED
  BY <1>2, <1>3, <1>4, CallMoves

LEMMA FinalizeStep ==
    ASSUME PaymentInv, NEW j \in Jobs, Finalize(j)
    PROVE  PaymentInv'
<1>1. tx[j] \in TxRecord /\ tx[j].state = "landed" /\ tx \in [Jobs -> TxRecord] /\ bal \in Balances
  BY DEF PaymentInv, Types, Finalize
<1>2. PICK t : t = [tx[j] EXCEPT !.state = "final"]
  OBVIOUS
<1>3. /\ t \in TxRecord /\ t.state = "final" /\ t.to = tx[j].to /\ t.moves = tx[j].moves
      /\ t.lamports = tx[j].lamports /\ t.pre = tx[j].pre /\ t.post = tx[j].post
  BY <1>1, <1>2 DEF TxRecord, TxStates
<1>4. tx' = [tx EXCEPT ![j] = t] /\ UNCHANGED <<bal, job, ver, consumed, honoured>>
  BY <1>1, <1>2 DEF Finalize
<1>5. Landed(t) /\ Landed(tx[j]) /\ Signs(job[j], tx[j]) /\ Reports(tx[j])
  BY <1>1, <1>3 DEF Landed, PaymentInv, ClientInv
<1>6. Signs(job[j], t) /\ Reports(t) /\ Brought(t) = Brought(tx[j])
  BY <1>3, <1>5 DEF Signs, Reports, Gain, Brought, SumReceivedTokenAmount
<1>7. Brought(t) \in Nat
  BY <1>3, <1>6, BroughtIs
<1>8. bal' \in Balances /\ bal'[Ata] = bal[Ata] + Brought(t) - Brought(tx[j])
  BY <1>1, <1>4, <1>6, <1>7, PayersFinite DEF Balances
<1>9. t.state # "none" /\ (tx[j].state = "final" => t.state = "final")
  BY <1>3
<1>10. UNCHANGED <<job, ver, consumed, honoured>>
  BY <1>4
<1>11. QED
  BY <1>3, <1>4, <1>5, <1>6, <1>8, <1>9, <1>10, TxMoves

LEMMA ExpireStep ==
    ASSUME PaymentInv, NEW j \in Jobs, Expire(j)
    PROVE  PaymentInv'
<1>1. tx[j].state = "sent" /\ bal \in Balances
  BY DEF PaymentInv, Types, Expire
<1>2. PICK t \in TxRecord : t = NoTx /\ t.state = "none"
  <2>1. NoTx \in TxRecord /\ NoTx.state = "none"
    BY NoPlanType DEF NoTx, TxRecord, TxStates
  <2>2. QED
    BY <2>1
<1>3. tx' = [tx EXCEPT ![j] = t] /\ UNCHANGED <<bal, job, ver, consumed, honoured>>
  BY <1>2 DEF Expire
<1>4. ~Landed(t) /\ ~Landed(tx[j]) /\ Brought(t) = 0 /\ Brought(tx[j]) = 0
  BY <1>1, <1>2, NothingYet DEF Landed
<1>5. bal' \in Balances /\ bal'[Ata] = bal[Ata] + Brought(t) - Brought(tx[j])
  BY <1>1, <1>3, <1>4, PayersFinite DEF Balances
<1>6. tx[j].state # "final"
  BY <1>1
<1>7. UNCHANGED <<job, ver, consumed, honoured>>
  BY <1>3
<1>8. QED
  BY <1>2, <1>3, <1>4, <1>5, <1>6, <1>7, TxMoves

LEMMA LandStep ==
    ASSUME PaymentInv, NEW j \in Jobs, Land(j)
    PROVE  PaymentInv'
<1>1. /\ tx[j] \in TxRecord /\ tx[j].state = "sent" /\ tx \in [Jobs -> TxRecord]
      /\ bal \in Balances /\ UNCHANGED <<job, ver, consumed, honoured>>
  BY DEF PaymentInv, Types, Land
<1>2. ~Landed(tx[j]) /\ Brought(tx[j]) = 0 /\ Signs(job[j], tx[j]) /\ tx[j].state # "final"
  BY <1>1, NothingYet DEF Landed, PaymentInv, ClientInv
<1>3. PICK after : after = [a \in Accounts |-> IF a = tx[j].to THEN bal[a] + Total(tx[j].moves)
                                               ELSE bal[a] - Drawn(tx[j].moves, a)]
  OBVIOUS
<1>4. Total(tx[j].moves) \in Nat /\ bal[Ata] \in Nat
  BY <1>1, TotalType, PayersFinite DEF TxRecord, Balances
<1>5. ASSUME NEW state \in {"landed", "failed"}, NEW post \in Balances, 
             tx' = [tx EXCEPT ![j].state = state, ![j].pre = bal, ![j].post = post],
             bal' = post, 
             post[Ata] - bal[Ata] = IF state = "landed" /\ tx[j].to = Ata THEN Total(tx[j].moves) ELSE 0
      PROVE  PaymentInv'
  <2>1. PICK t : t = [tx[j] EXCEPT !.state = state, !.pre = bal, !.post = post]
    OBVIOUS
  <2>2. /\ t \in TxRecord /\ t.state = state /\ t.to = tx[j].to /\ t.moves = tx[j].moves
        /\ t.lamports = tx[j].lamports /\ t.pre = bal /\ t.post = post
    BY <1>1, <2>1 DEF TxRecord, TxStates
  <2>3. tx' = [tx EXCEPT ![j] = t]
    BY <1>1, <1>5, <2>1
  <2>4. Signs(job[j], t) /\ t.state # "none"
    BY <1>2, <2>2 DEF Signs
  <2>5. Landed(t) => Reports(t)
    BY <1>1, <1>5, <2>2 DEF Landed, Reports, Gain
  <2>6. Brought(t) = IF Landed(t) /\ t.to = Ata THEN Total(t.moves) ELSE 0
    BY <2>2, <2>5, BroughtIs
  <2>7. post[Ata] \in Nat
    BY PayersFinite DEF Balances
  <2>8. bal'[Ata] = bal[Ata] + Brought(t) - Brought(tx[j])
    BY <1>2, <1>4, <1>5, <2>2, <2>6, <2>7 DEF Landed
  <2>9. bal' \in Balances /\ UNCHANGED <<job, ver, consumed, honoured>>
    BY <1>1, <1>5
  <2>10. QED
    BY <1>2, <2>2, <2>3, <2>4, <2>5, <2>8, <2>9, TxMoves
<1>6. CASE /\ \A a \in Accounts : after[a] >= 0
           /\ bal' = after
           /\ tx' = [tx EXCEPT ![j].state = "landed", ![j].pre = bal, ![j].post = after]
  <2>1. ASSUME NEW a \in Accounts PROVE after[a] \in Nat
    <3>1. bal[a] \in Nat
      BY <1>1 DEF Balances
    <3>2. Drawn(tx[j].moves, a) \in Nat
      BY <1>1 DEF Drawn, TxRecord, Plans
    <3>3. after[a] \in Int
      BY <1>3, <1>4, <3>1, <3>2
    <3>4. QED
      BY <1>6, <3>3
  <2>2. after \in Balances
    BY <1>3, <2>1 DEF Balances
  <2>3. after[Ata] - bal[Ata] = IF tx[j].to = Ata THEN Total(tx[j].moves) ELSE 0
    <3>1. Drawn(tx[j].moves, Ata) = 0
      BY PayersFinite DEF Drawn
    <3>2. QED
      BY <1>3, <1>4, <3>1, PayersFinite
  <2>4. QED
    BY <1>5, <1>6, <2>2, <2>3
<1>7. CASE /\ bal' = bal
           /\ tx' = [tx EXCEPT ![j].state = "failed", ![j].pre = bal, ![j].post = bal]
  <2>1. bal[Ata] - bal[Ata] = 0
    BY <1>4
  <2>2. QED
    BY <1>1, <1>5, <1>7, <2>1
<1>8. QED
  BY <1>3, <1>6, <1>7 DEF Land

-----------------------------------------------------------------------------
(* Steps of the server                                                     *)

\* A step of a verification that honours nothing and consumes nothing, unless
\* the store keeps its answer to itself.
LEMMA VerifyMoves ==
    ASSUME PaymentInv, NEW v \in Verifications, NEW r \in VerRecord,
           ver' = [ver EXCEPT ![v] = r], UNCHANGED <<bal, job, tx, honoured>>,
           consumed' \in SUBSET Jobs, consumed \subseteq consumed',
           \A j \in consumed' \ consumed : r.pc = "unanswered" /\ r.of = {j},
           ~Stored(v), r.pc \notin {"consumed", "honoured"},
           r.pc = "idle" => r.of = {},
           r.pc # "idle" => \E j \in Jobs : r.of = {j} /\ job[j].pc = "credential",
           r.pc = "looking" => r.attempt < MaxLookups,
           r.pc = "verified" => \A j \in r.of : Raw(job[j]) > 0 /\ tx[j].state = "final",
           r.pc = "refused" => \A j \in r.of : j \in consumed \/ Raw(job[j]) = 0
    PROVE  PaymentInv'
<1>1. Types /\ Types'
  BY DEF PaymentInv, Types
<1>2. ver'[v] = r /\ \A w \in Verifications \ {v} : ver'[w] = ver[w]
  BY <1>1 DEF Types
<1>3. \A w \in Verifications : Serving(w)' <=> Serving(w)
  BY <1>2 DEF Serving, Stored
<1>4. VerifyInv'
  <2>1. ASSUME NEW w \in Verifications
        PROVE  /\ ver'[w].pc = "idle" => ver'[w].of = {}
               /\ ver'[w].pc # "idle" =>
                     \E i \in Jobs : ver'[w].of = {i} /\ job[i].pc = "credential"
               /\ ver'[w].pc = "looking" => ver'[w].attempt < MaxLookups
               /\ ver'[w].pc = "verified" \/ Serving(w)' =>
                     \A i \in ver'[w].of : Raw(job[i]) > 0 /\ tx[i].state = "final"
               /\ ver'[w].pc = "refused" =>
                     \A i \in ver'[w].of : i \in consumed' \/ Raw(job[i]) = 0
    <3>1. CASE w = v
      BY <1>2, <3>1 DEF Serving
    <3>2. CASE w # v
      BY <1>2, <1>3, <3>2 DEF PaymentInv, VerifyInv
    <3>3. QED
      BY <3>1, <3>2
  <2>2. QED
    BY <2>1 DEF VerifyInv, Serving, Raw
<1>5. OnceInv'
  <2>1. \A w \in Verifications : Serving(w)' => Serving(w) /\ ver'[w] = ver[w]
    BY <1>2, <1>3 DEF Serving, Stored
  <2>2. \A w \in Verifications : Stored(w) => Stored(w)' /\ ver'[w] = ver[w]
    BY <1>2, <1>3 DEF Stored
  <2>3. \A w \in Verifications : Serving(w)' => ver'[w].of \subseteq consumed'
    BY <2>1 DEF PaymentInv, OnceInv
  <2>4. \A x, w \in Verifications :
           Serving(x)' /\ Serving(w)' /\ ver'[x].of = ver'[w].of => x = w
    BY <2>1 DEF PaymentInv, OnceInv
  <2>5. ASSUME NEW j \in consumed'
        PROVE  \E w \in Verifications : Stored(w)' /\ ver'[w].of = {j}
    <3>1. CASE j \in consumed
      BY <2>2, <3>1 DEF PaymentInv, OnceInv
    <3>2. CASE j \notin consumed
      BY <1>2, <2>5, <3>2 DEF Stored
    <3>3. QED
      BY <3>1, <3>2
  <2>6. ASSUME NEW entry \in honoured
        PROVE  ver'[entry[1]].pc = "honoured" /\ ver'[entry[1]].of = {entry[2]}
    <3>1. /\ entry[1] \in Verifications /\ ver[entry[1]].pc = "honoured"
          /\ ver[entry[1]].of = {entry[2]}
      BY <1>1 DEF PaymentInv, OnceInv, Types
    <3>2. entry[1] # v
      BY <3>1 DEF Serving, Stored
    <3>3. QED
      BY <1>2, <3>1, <3>2
  <2>7. QED
    BY <2>3, <2>4, <2>5, <2>6 DEF OnceInv
<1>6. ClientInv'
  BY DEF PaymentInv, ClientInv
<1>7. GainInv' /\ PricesInv'
  BY DEF PaymentInv, GainInv, PricesInv, Gains, Prices, Served, PriceOf
<1>8. QED
  BY <1>1, <1>4, <1>5, <1>6, <1>7 DEF PaymentInv

LEMMA ReceiveStep ==
    ASSUME PaymentInv, NEW v \in Verifications, NEW j \in Jobs, Receive(v, j)
    PROVE  PaymentInv'
<1>1. PICK r : r = [pc |-> "looking", of |-> {j}, attempt |-> 0]
  OBVIOUS
<1>2. r \in VerRecord /\ r.pc = "looking" /\ r.of = {j} /\ r.attempt < MaxLookups
  BY <1>1, AccountsAssumption DEF VerRecord, VerStates
<1>3. ver' = [ver EXCEPT ![v] = r] /\ UNCHANGED <<bal, job, tx, consumed, honoured>>
  BY <1>1 DEF Receive
<1>4. ~Stored(v) /\ job[j].pc = "credential" /\ consumed' = consumed
  BY DEF Receive, Serving, Stored
<1>5. r.pc \notin {"idle", "verified", "consumed", "honoured", "refused"}
  BY <1>2
<1>6. \E i \in Jobs : r.of = {i} /\ job[i].pc = "credential"
  BY <1>2, <1>4
<1>7. QED
  BY <1>2, <1>3, <1>4, <1>5, <1>6, VerifyMoves DEF PaymentInv, Types

\* The lookup ends without a transaction: nothing is held against anybody.
LEMMA MetaMissingStep ==
    ASSUME PaymentInv, NEW v \in Verifications, MetaMissing(v)
    PROVE  PaymentInv'
<1>1. /\ Types /\ ver[v] \in VerRecord /\ ver[v].pc = "looking"
      /\ UNCHANGED <<bal, job, tx, consumed, honoured>>
  BY DEF PaymentInv, Types, MetaMissing
<1>2. PICK r : r = [ver[v] EXCEPT !.pc = "not found"]
  OBVIOUS
<1>3. r \in VerRecord /\ r.of = ver[v].of /\ r.pc = "not found"
  BY <1>1, <1>2 DEF VerRecord, VerStates, Answered
<1>4. ver' = [ver EXCEPT ![v] = r]
  BY <1>1, <1>2 DEF MetaMissing, Types
<1>5. ~Stored(v) /\ \E i \in Jobs : r.of = {i} /\ job[i].pc = "credential"
  BY <1>1, <1>3 DEF Serving, Stored, PaymentInv, VerifyInv
<1>6. r.pc \notin {"idle", "looking", "verified", "consumed", "honoured", "refused"}
  BY <1>3
<1>7. QED
  BY <1>1, <1>3, <1>4, <1>5, <1>6, VerifyMoves DEF Types

LEMMA LookupMissStep ==
    ASSUME PaymentInv, NEW v \in Verifications, LookupMiss(v)
    PROVE  PaymentInv'
<1>1. /\ ver \in [Verifications -> VerRecord] /\ ver[v] \in VerRecord /\ ver[v].pc = "looking"
      /\ ver[v].attempt < MaxLookups /\ consumed' = consumed /\ consumed \in SUBSET Jobs
  BY DEF PaymentInv, Types, VerifyInv, LookupMiss
<1>2. PICK r : r = [ver[v] EXCEPT !.attempt = ver[v].attempt + 1,
                                  !.pc = IF ver[v].attempt + 1 >= MaxLookups THEN "not found"
                                         ELSE ver[v].pc]
  OBVIOUS
<1>3. ver[v].attempt \in Nat /\ MaxLookups \in Nat /\ ver[v].attempt + 1 \in 0..MaxLookups
  <2>1. ver[v].attempt \in 0..MaxLookups
    BY <1>1 DEF VerRecord
  <2>2. QED
    BY <1>1, <2>1, AccountsAssumption
<1>4. /\ r \in VerRecord /\ r.of = ver[v].of /\ r.pc \in {"looking", "not found"}
      /\ r.attempt = ver[v].attempt + 1
      /\ r.pc = IF ver[v].attempt + 1 >= MaxLookups THEN "not found" ELSE "looking"
  BY <1>1, <1>2, <1>3 DEF VerRecord, VerStates, Answered
<1>5. r.pc = "looking" => r.attempt < MaxLookups
  <2>1. r.pc = "looking" => ~(ver[v].attempt + 1 >= MaxLookups)
    BY <1>4
  <2>2. r.attempt = ver[v].attempt + 1
    BY <1>4
  <2>3. ~(ver[v].attempt + 1 >= MaxLookups) => ver[v].attempt + 1 < MaxLookups
    BY <1>3
  <2>4. QED
    BY <2>1, <2>2, <2>3
<1>6. ver' = [ver EXCEPT ![v] = r] /\ UNCHANGED <<bal, job, tx, consumed, honoured>>
  BY <1>1, <1>2 DEF LookupMiss
<1>7. ~Stored(v) /\ \E i \in Jobs : r.of = {i} /\ job[i].pc = "credential"
  BY <1>1, <1>4 DEF Serving, Stored, PaymentInv, VerifyInv
<1>8. r.pc \notin {"idle", "verified", "consumed", "honoured", "refused"}
  BY <1>4
<1>9. QED
  BY <1>1, <1>4, <1>5, <1>6, <1>7, <1>8, VerifyMoves

\* A final transaction that pays the server brought what was asked for.
LEMMA PaidInFull ==
    ASSUME PaymentInv, NEW j \in Jobs, job[j].pc = "credential"
    PROVE  /\ Landed(tx[j]) /\ Raw(job[j]) \in Nat
           /\ SumReceivedTokenAmount(tx[j]) = Raw(job[j])
<1>1. /\ Landed(tx[j]) /\ job[j].req \in Requests /\ job[j].req.kind = "pay"
      /\ tx[j] \in TxRecord /\ Reports(tx[j])
  BY DEF PaymentInv, Types, ClientInv
<1>2. tx[j].state # "none"
  BY <1>1 DEF Landed
<1>3. Signs(job[j], tx[j])
  BY <1>2 DEF PaymentInv, ClientInv
<1>4. tx[j].to = Ata /\ job[j].req.amount \in Nat
  BY <1>1, <1>3, RequestsAssumption DEF Signs
<1>5. Total(tx[j].moves) = Raw(job[j])
  BY <1>1, <1>3 DEF Signs
<1>6. Brought(tx[j]) = Raw(job[j])
  BY <1>1, <1>4, <1>5, BroughtIs
<1>7. Raw(job[j]) \in Nat
  BY <1>4 DEF Raw, ParseAmountToRaw
<1>8. QED
  BY <1>1, <1>6, <1>7 DEF Brought

LEMMA VerifyStep ==
    ASSUME PaymentInv, NEW v \in Verifications, NEW j \in Jobs, Verify(v, j)
    PROVE  PaymentInv'
<1>1. /\ ver \in [Verifications -> VerRecord] /\ ver[v] \in VerRecord
      /\ ver[v].pc = "looking" /\ ver[v].of = {j} /\ tx[j].state = "final"
      /\ consumed' = consumed /\ consumed \in SUBSET Jobs
  BY DEF PaymentInv, Types, Verify
<1>2. PICK i \in Jobs : ver[v].of = {i} /\ job[i].pc = "credential"
  BY <1>1 DEF PaymentInv, VerifyInv
<1>3. i = j
  BY <1>1, <1>2
<1>4. /\ Raw(job[j]) \in Nat /\ SumReceivedTokenAmount(tx[j]) = Raw(job[j])
      /\ job[j].pc = "credential"
  BY <1>2, <1>3, PaidInFull
<1>5. PICK r : r = [ver[v] EXCEPT !.pc = IF Raw(job[j]) > 0 THEN "verified" ELSE "refused"]
  OBVIOUS
<1>6. /\ r \in VerRecord /\ r.of = {j}
      /\ r.pc = IF Raw(job[j]) > 0 THEN "verified" ELSE "refused"
  BY <1>1, <1>5 DEF VerRecord, VerStates, Answered
<1>7. ver' = [ver EXCEPT ![v] = r] /\ UNCHANGED <<bal, job, tx, consumed, honoured>>
  <2>1. Raw(job[j]) = ParseAmountToRaw(job[j].req.amount)
    BY DEF Raw
  <2>2. ver' = [ver EXCEPT ![v].pc = IF Raw(job[j]) > 0 THEN "verified" ELSE "refused"]
    <3>1. CASE Raw(job[j]) > 0
      <4>1. ver' = [ver EXCEPT ![v].pc = "verified"]
        <5>1. /\ SumReceivedTokenAmount(tx[j]) > 0
              /\ ParseAmountToRaw(job[j].req.amount) > 0
              /\ SumReceivedTokenAmount(tx[j]) >= ParseAmountToRaw(job[j].req.amount)
          BY <1>4, <2>1, <3>1
        <5>2. QED
          BY <5>1 DEF Verify
      <4>2. QED
        BY <3>1, <4>1
    <3>2. CASE ~(Raw(job[j]) > 0)
      <4>1. ver' = [ver EXCEPT ![v].pc = "refused"]
        BY <1>4, <2>1, <3>2 DEF Verify
      <4>2. QED
        BY <3>2, <4>1
    <3>3. QED
      BY <3>1, <3>2
  <2>3. QED
    BY <1>1, <1>5, <2>2 DEF Verify
<1>8. ~Stored(v)
  BY <1>1 DEF Serving, Stored
<1>9. r.pc \notin {"idle", "looking", "consumed", "honoured"}
  BY <1>6
<1>10. r.pc = "verified" => \A x \in r.of : Raw(job[x]) > 0 /\ tx[x].state = "final"
  BY <1>1, <1>6
<1>11. r.pc = "refused" => \A x \in r.of : x \in consumed \/ Raw(job[x]) = 0
  BY <1>4, <1>6
<1>12. \E x \in Jobs : r.of = {x} /\ job[x].pc = "credential"
  BY <1>4, <1>6
<1>13. QED
  BY <1>1, <1>6, <1>7, <1>8, <1>9, <1>10, <1>11, <1>12, VerifyMoves

\* The store's answer is lost, whatever the store has done.
LEMMA ConsumeFailsStep ==
    ASSUME PaymentInv, NEW v \in Verifications, NEW j \in Jobs, ConsumeFails(v, j)
    PROVE  PaymentInv'
<1>1. /\ Types /\ ver[v] \in VerRecord /\ ver[v].pc = "verified" /\ ver[v].of = {j}
      /\ UNCHANGED <<bal, job, tx, honoured>> /\ consumed' \in {consumed, consumed \cup {j}}
  BY DEF PaymentInv, Types, ConsumeFails
<1>2. PICK r : r = [ver[v] EXCEPT !.pc = "unanswered"]
  OBVIOUS
<1>3. r \in VerRecord /\ r.of = {j} /\ r.pc = "unanswered"
  BY <1>1, <1>2 DEF VerRecord, VerStates, Answered
<1>4. ver' = [ver EXCEPT ![v] = r]
  BY <1>1, <1>2 DEF ConsumeFails, Types
<1>5. ~Stored(v) /\ \E i \in Jobs : r.of = {i} /\ job[i].pc = "credential"
  BY <1>1, <1>3 DEF Serving, Stored, PaymentInv, VerifyInv
<1>6. /\ consumed' \in SUBSET Jobs /\ consumed \subseteq consumed'
      /\ \A i \in consumed' \ consumed : r.pc = "unanswered" /\ r.of = {i}
  BY <1>1, <1>3 DEF Types
<1>7. r.pc \notin {"idle", "looking", "verified", "consumed", "honoured", "refused"}
  BY <1>3
<1>8. QED
  BY <1>1, <1>3, <1>4, <1>5, <1>6, <1>7, VerifyMoves

LEMMA ConsumeStep ==
    ASSUME PaymentInv, NEW v \in Verifications, NEW j \in Jobs, Consume(v, j)
    PROVE  PaymentInv'
<1>1. /\ Types /\ ver[v] \in VerRecord /\ ver[v].pc = "verified" /\ ver[v].of = {j}
      /\ UNCHANGED <<bal, job, tx, honoured>> /\ consumed' = consumed \cup {j}
  BY DEF PaymentInv, Types, Consume
<1>2. CASE j \in consumed
  <2>1. PICK r : r = [ver[v] EXCEPT !.pc = "refused"]
    OBVIOUS
  <2>2. r \in VerRecord /\ r.of = {j} /\ r.pc = "refused"
    BY <1>1, <2>1 DEF VerRecord, VerStates, Answered
  <2>3. ver' = [ver EXCEPT ![v] = r] /\ UNCHANGED <<bal, job, tx, consumed, honoured>>
    BY <1>1, <1>2, <2>1 DEF Consume, Types
  <2>4. ~Stored(v) /\ \E x \in Jobs : r.of = {x} /\ job[x].pc = "credential"
    BY <1>1, <2>2 DEF Serving, Stored, PaymentInv, VerifyInv
  <2>5. r.pc \notin {"idle", "looking", "verified", "consumed", "honoured"}
    BY <2>2
  <2>6. r.pc = "refused" => \A x \in r.of : x \in consumed \/ Raw(job[x]) = 0
    BY <1>2, <2>2
  <2>7. QED
    BY <1>1, <1>2, <2>2, <2>3, <2>4, <2>5, <2>6, VerifyMoves DEF Types
<1>3. CASE j \notin consumed
  <2>1. PICK r : r = [ver[v] EXCEPT !.pc = "consumed"]
    OBVIOUS
  <2>2. r \in VerRecord /\ r.of = {j} /\ r.pc = "consumed"
    BY <1>1, <2>1 DEF VerRecord, VerStates, Answered
  <2>3. ver' = [ver EXCEPT ![v] = r]
    BY <1>1, <1>3, <2>1 DEF Consume, Types
  <2>4. ver'[v] = r /\ \A w \in Verifications \ {v} : ver'[w] = ver[w]
    BY <1>1, <2>3 DEF Types
  <2>5. Serving(v)' /\ \A w \in Verifications \ {v} : Serving(w)' <=> Serving(w)
    BY <2>2, <2>4 DEF Serving
  <2>6. Types'
    BY <1>1, <2>2, <2>3 DEF Types
  <2>7. VerifyInv'
    <3>1. ASSUME NEW w \in Verifications
          PROVE  /\ ver'[w].pc = "idle" => ver'[w].of = {}
                 /\ ver'[w].pc # "idle" =>
                       \E i \in Jobs : ver'[w].of = {i} /\ job[i].pc = "credential"
                 /\ ver'[w].pc = "looking" => ver'[w].attempt < MaxLookups
                 /\ ver'[w].pc = "verified" \/ Serving(w)' =>
                       \A i \in ver'[w].of : Raw(job[i]) > 0 /\ tx[i].state = "final"
                 /\ ver'[w].pc = "refused" =>
                       \A i \in ver'[w].of : i \in consumed' \/ Raw(job[i]) = 0
      <4>1. CASE w = v
        <5>1. /\ \E i \in Jobs : r.of = {i} /\ job[i].pc = "credential"
              /\ \A i \in r.of : Raw(job[i]) > 0 /\ tx[i].state = "final"
          BY <1>1, <2>2 DEF PaymentInv, VerifyInv
        <5>2. QED
          BY <2>2, <2>4, <4>1, <5>1
      <4>2. CASE w # v
        <5>1. ver'[w] = ver[w] /\ (Serving(w)' => Serving(w))
          BY <2>4, <2>5, <4>2
        <5>2. QED
          BY <1>1, <5>1 DEF PaymentInv, VerifyInv
      <4>3. QED
        BY <4>1, <4>2
    <3>2. QED
      BY <1>1, <3>1 DEF VerifyInv, Serving, Raw
  <2>8. OnceInv'
    <3>1. \A w \in Verifications : Stored(w) => w # v
      BY <1>1 DEF Serving, Stored
    <3>2. ASSUME NEW w \in Verifications, Serving(w)'
          PROVE  ver'[w].of \subseteq consumed'
      <4>1. CASE w = v
        BY <1>1, <2>2, <2>4, <4>1
      <4>2. CASE w # v
        BY <1>1, <2>4, <2>5, <3>2, <4>2 DEF PaymentInv, OnceInv
      <4>3. QED
        BY <4>1, <4>2
    <3>3. \A w \in Verifications \ {v} : Serving(w)' => ver'[w].of # {j}
      BY <1>3, <2>4, <2>5 DEF PaymentInv, OnceInv
    <3>4. ASSUME NEW x \in Verifications, NEW w \in Verifications,
                 Serving(x)', Serving(w)', ver'[x].of = ver'[w].of
          PROVE  x = w
      <4>1. CASE x = v \/ w = v
        BY <2>2, <2>4, <3>3, <3>4, <4>1
      <4>2. CASE x # v /\ w # v
        BY <2>4, <2>5, <3>4, <4>2 DEF PaymentInv, OnceInv
      <4>3. QED
        BY <4>1, <4>2
    <3>5. ASSUME NEW i \in consumed'
          PROVE  \E w \in Verifications : Stored(w)' /\ ver'[w].of = {i}
      <4>1. CASE i = j
        BY <2>2, <2>4, <2>5, <4>1 DEF Stored
      <4>2. CASE i # j
        <5>1. PICK w \in Verifications : Stored(w) /\ ver[w].of = {i}
          BY <1>1, <4>2 DEF PaymentInv, OnceInv
        <5>2. QED
          BY <2>4, <2>5, <3>1, <5>1 DEF Stored
      <4>3. QED
        BY <4>1, <4>2
    <3>6. ASSUME NEW entry \in honoured
          PROVE  ver'[entry[1]].pc = "honoured" /\ ver'[entry[1]].of = {entry[2]}
      <4>1. /\ entry[1] \in Verifications /\ ver[entry[1]].pc = "honoured"
            /\ ver[entry[1]].of = {entry[2]}
        BY <1>1 DEF PaymentInv, OnceInv, Types
      <4>2. entry[1] # v
        BY <1>1, <4>1
      <4>3. QED
        BY <2>4, <4>1, <4>2
    <3>7. QED
      BY <1>1, <3>2, <3>4, <3>5, <3>6 DEF OnceInv
  <2>9. ClientInv' /\ GainInv' /\ PricesInv'
    BY <1>1 DEF PaymentInv, ClientInv, GainInv, PricesInv, Gains, Prices, Served, PriceOf
  <2>10. QED
    BY <2>6, <2>7, <2>8, <2>9 DEF PaymentInv
<1>4. QED
  BY <1>2, <1>3

\* The credential that is honoured was not honoured before, so its price is
\* added to both sums.
LEMMA ReceiptStep ==
    ASSUME PaymentInv, NEW v \in Verifications, NEW j \in Jobs, GiveReceipt(v, j)
    PROVE  /\ PaymentInv'
           /\ j \in consumed /\ \A entry \in honoured : entry[2] # j
<1>1. /\ Types /\ ver[v] \in VerRecord /\ ver[v].pc = "consumed" /\ ver[v].of = {j}
      /\ UNCHANGED <<bal, job, tx, consumed>> /\ honoured' = honoured \cup {<<v, j>>}
  BY DEF PaymentInv, Types, GiveReceipt
<1>2. PICK r : r = [ver[v] EXCEPT !.pc = "honoured"]
  OBVIOUS
<1>3. r \in VerRecord /\ r.of = {j} /\ r.pc = "honoured"
  BY <1>1, <1>2 DEF VerRecord, VerStates, Answered
<1>4. ver' = [ver EXCEPT ![v] = r]
  BY <1>1, <1>2 DEF GiveReceipt, Types
<1>5. ver'[v] = r /\ \A w \in Verifications \ {v} : ver'[w] = ver[w]
  BY <1>1, <1>4 DEF Types
<1>6. \A w \in Verifications : (Serving(w)' <=> Serving(w)) /\ ver'[w].of = ver[w].of
  BY <1>1, <1>3, <1>5 DEF Serving
<1>7. Types'
  BY <1>1, <1>3, <1>4 DEF Types
<1>8. Serving(v) /\ j \in consumed
  BY <1>1 DEF Serving, PaymentInv, OnceInv
<1>9. \A entry \in honoured : entry[2] # j
  <2>1. ASSUME NEW entry \in honoured, entry[2] = j PROVE FALSE
    <3>1. /\ entry[1] \in Verifications /\ ver[entry[1]].pc = "honoured"
          /\ ver[entry[1]].of = {j}
      BY <1>1, <2>1 DEF PaymentInv, OnceInv, Types
    <3>2. entry[1] = v
      BY <1>1, <1>8, <3>1 DEF PaymentInv, OnceInv, Serving
    <3>3. QED
      BY <1>1, <3>1, <3>2
  <2>2. QED
    BY <2>1
<1>10. VerifyInv'
  <2>1. ASSUME NEW w \in Verifications
        PROVE  /\ ver'[w].pc = "idle" => ver'[w].of = {}
               /\ ver'[w].pc # "idle" =>
                     \E i \in Jobs : ver'[w].of = {i} /\ job[i].pc = "credential"
               /\ ver'[w].pc = "looking" => ver'[w].attempt < MaxLookups
               /\ ver'[w].pc = "verified" \/ Serving(w)' =>
                     \A i \in ver'[w].of : Raw(job[i]) > 0 /\ tx[i].state = "final"
               /\ ver'[w].pc = "refused" =>
                     \A i \in ver'[w].of : i \in consumed \/ Raw(job[i]) = 0
    <3>1. CASE w = v
      <4>1. /\ \E i \in Jobs : r.of = {i} /\ job[i].pc = "credential"
            /\ \A i \in r.of : Raw(job[i]) > 0 /\ tx[i].state = "final"
        BY <1>1, <1>3, <1>8 DEF PaymentInv, VerifyInv
      <4>2. QED
        BY <1>3, <1>5, <3>1, <4>1
    <3>2. CASE w # v
      <4>1. ver'[w] = ver[w] /\ (Serving(w)' => Serving(w))
        BY <1>5, <1>6, <3>2
      <4>2. QED
        BY <4>1 DEF PaymentInv, VerifyInv
    <3>3. QED
      BY <3>1, <3>2
  <2>2. QED
    BY <1>1, <2>1 DEF VerifyInv, Serving, Raw
<1>11. OnceInv'
  <2>1. \A w \in Verifications : Serving(w)' => ver'[w].of \subseteq consumed'
    BY <1>1, <1>6 DEF PaymentInv, OnceInv
  <2>2. \A x, w \in Verifications :
           Serving(x)' /\ Serving(w)' /\ ver'[x].of = ver'[w].of => x = w
    BY <1>6 DEF PaymentInv, OnceInv
  <2>3. \A i \in consumed' : \E w \in Verifications : Stored(w)' /\ ver'[w].of = {i}
    <3>1. \A w \in Verifications : Stored(w) => Stored(w)'
      BY <1>1, <1>5, <1>6 DEF Stored
    <3>2. QED
      BY <1>1, <1>6, <3>1 DEF PaymentInv, OnceInv
  <2>4. ASSUME NEW entry \in honoured'
        PROVE  ver'[entry[1]].pc = "honoured" /\ ver'[entry[1]].of = {entry[2]}
    <3>1. CASE entry = <<v, j>>
      BY <1>3, <1>5, <3>1
    <3>2. CASE entry \in honoured
      <4>1. /\ entry[1] \in Verifications /\ ver[entry[1]].pc = "honoured"
            /\ ver[entry[1]].of = {entry[2]}
        BY <1>1, <3>2 DEF PaymentInv, OnceInv, Types
      <4>2. entry[1] # v
        BY <1>1, <4>1
      <4>3. QED
        BY <1>5, <4>1, <4>2
    <3>3. QED
      BY <1>1, <3>1, <3>2
  <2>5. QED
    BY <2>1, <2>2, <2>3, <2>4 DEF OnceInv
<1>12. ClientInv' /\ GainInv'
  BY <1>1 DEF PaymentInv, ClientInv, GainInv, Gains
<1>13. PricesInv'
  <2>1. IsFiniteSet(Served) /\ j \notin Served /\ Served' = Served \cup {j}
    <3>1. IsFiniteSet(Served)
      BY RequestsAssumption, FS_Subset DEF Served
    <3>2. j \notin Served
      BY <1>9 DEF Served
    <3>3. ASSUME NEW i \in Jobs
          PROVE  (\E entry \in honoured' : entry[2] = i) <=> i \in Served \/ i = j
      <4>1. CASE i = j
        <5>1. <<v, j>> \in honoured' /\ <<v, j>>[2] = j
          BY <1>1
        <5>2. QED
          BY <4>1, <5>1
      <4>2. CASE i # j
        BY <1>1, <4>2 DEF Served
      <4>3. QED
        BY <4>1, <4>2
    <3>4. Served' = {i \in Jobs : \E entry \in honoured' : entry[2] = i}
      BY DEF Served
    <3>5. Served' = Served \cup {j}
      BY <3>3, <3>4 DEF Served
    <3>6. QED
      BY <3>1, <3>2, <3>5
  <2>2. IsFiniteSet(honoured) /\ <<v, j>> \notin honoured
    <3>1. IsFiniteSet(Verifications \X Jobs)
      BY RequestsAssumption, FS_Product
    <3>2. QED
      BY <1>1, <1>9, <3>1, FS_Subset DEF Types
  <2>3. ASSUME NEW i \in Served \cup {j} PROVE Prices[i] \in Int
    <3>1. i \in Jobs /\ job[i].pc = "credential"
      <4>1. job[j].pc = "credential"
        BY <1>1 DEF PaymentInv, VerifyInv
      <4>2. QED
        BY <4>1, ServedHaveCredentials DEF Served
    <3>2. Raw(job[i]) \in Nat
      BY <3>1, PaidInFull
    <3>3. QED
      BY <3>1, <3>2 DEF Prices
  <2>4. PICK f, g, S : f = PriceOf /\ g = PriceOf' /\ S = honoured
    OBVIOUS
  <2>5. /\ \A entry \in S : f[entry] = g[entry] /\ f[entry] = Prices[entry[2]] /\ f[entry] \in Int
        /\ g[<<v, j>>] = Prices[j] /\ g[<<v, j>>] \in Int
    <3>1. ASSUME NEW entry \in S
          PROVE  /\ entry[2] \in Served /\ f[entry] = Raw(job[entry[2]])
                 /\ g[entry] = Raw(job[entry[2]]) /\ f[entry] = Prices[entry[2]]
      BY <1>1, <2>4 DEF PriceOf, Types, Served, Prices
    <3>2. g[<<v, j>>] = Prices[j]
      BY <1>1, <2>4 DEF PriceOf, Prices
    <3>3. QED
      BY <2>3, <3>1, <3>2
  <2>6. SumFunctionOnSet(g, S \cup {<<v, j>>}) = SumFunctionOnSet(g, S) + g[<<v, j>>]
    <3>1. IsFiniteSet(S) /\ <<v, j>> \notin S
      BY <2>2, <2>4
    <3>2. \A x \in S \cup {<<v, j>>} : g[x] \in Int
      BY <2>5
    <3>3. QED
      BY <3>1, <3>2, SumAdds
  <2>7. SumFunctionOnSet(f, S) = SumFunctionOnSet(g, S)
    <3>1. IsFiniteSet(S) /\ \A x \in S : f[x] \in Int /\ f[x] = g[x]
      BY <2>2, <2>4, <2>5
    <3>2. QED
      BY <3>1, SumAgrees
  <2>8. SumFunctionOnSet(Prices, Served \cup {j}) = SumFunctionOnSet(Prices, Served) + Prices[j]
    BY <2>1, <2>3, SumAdds
  <2>9. SumFunctionOnSet(f, S) = SumFunctionOnSet(Prices, Served)
    BY <2>4 DEF PaymentInv, PricesInv
  <2>10. SumFunctionOnSet(g, S \cup {<<v, j>>}) = SumFunctionOnSet(Prices, Served \cup {j})
    BY <2>5, <2>6, <2>7, <2>8, <2>9
  <2>11. PriceOf' = g /\ honoured' = S \cup {<<v, j>>} /\ Prices' = Prices /\ Served' = Served \cup {j}
    BY <1>1, <2>1, <2>4 DEF Prices
  <2>12. SumFunctionOnSet(PriceOf', honoured') = SumFunctionOnSet(Prices', Served')
    BY <2>10, <2>11, Zenon
  <2>13. QED
    BY <2>12 DEF PricesInv
<1>14. QED
  BY <1>7, <1>8, <1>9, <1>10, <1>11, <1>12, <1>13 DEF PaymentInv

-----------------------------------------------------------------------------
(* The theorems                                                            *)

LEMMA PaymentInit == Init => PaymentInv
<1> SUFFICES ASSUME Init PROVE PaymentInv
  OBVIOUS
<1>1. bal \in Balances /\ bal[Ata] = StartReceived
  <2>1. Ata \in Accounts /\ Ata \notin PayerAccounts /\ PayerAccounts \subseteq Accounts
    BY PayersFinite
  <2>2. QED
    BY <2>1, AccountsAssumption DEF Init, Balances
<1>2. /\ NoTx \in TxRecord /\ NoTx.state = "none"
      /\ NoRequest \in Requests \cup {NoRequest} /\ NoPlan \in Plans
  BY NoPlanType DEF NoTx, TxRecord, TxStates
<1>3. Types
  <2>1. job \in [Jobs -> JobRecord]
    BY <1>2 DEF Init, JobRecord, JobStates
  <2>2. ver \in [Verifications -> VerRecord]
    BY AccountsAssumption DEF Init, VerRecord, VerStates
  <2>3. QED
    BY <1>1, <1>2, <2>1, <2>2 DEF Init, Types
<1>4. \A j \in Jobs : job[j].pc = "idle" /\ tx[j] = NoTx /\ ~Landed(tx[j])
  BY <1>2 DEF Init, Landed
<1>5. ClientInv
  BY <1>2, <1>4 DEF ClientInv
<1>6. VerifyInv
  BY DEF Init, VerifyInv, Serving
<1>7. OnceInv
  BY DEF Init, OnceInv, Serving
<1>8. GainInv
  <2>1. \A j \in Jobs : Gains[j] \in 0..0
    BY <1>4, NothingYet DEF Gains
  <2>2. IsFiniteSet(Jobs) /\ Cardinality(Jobs) \in Nat /\ 0 \in Nat
    BY RequestsAssumption, FS_CardinalityType
  <2>3. /\ SumFunctionOnSet(Gains, Jobs) \in Nat
        /\ SumFunctionOnSet(Gains, Jobs) <= 0 * Cardinality(Jobs)
    BY <2>1, <2>2, SumBounds
  <2>4. QED
    BY <1>1, <2>2, <2>3, AccountsAssumption DEF GainInv
<1>9. PricesInv
  <2>1. honoured = {} /\ Served = {}
    BY DEF Init, Served
  <2>2. SumFunctionOnSet(PriceOf, {}) = 0 /\ SumFunctionOnSet(Prices, {}) = 0
    BY SumEmpty
  <2>3. QED
    BY <2>1, <2>2 DEF PricesInv
<1>10. QED
  BY <1>3, <1>5, <1>6, <1>7, <1>8, <1>9 DEF PaymentInv

LEMMA PaymentNext == PaymentInv /\ [Next]_vars => PaymentInv'
<1> SUFFICES ASSUME PaymentInv, [Next]_vars PROVE PaymentInv'
  OBVIOUS
<1>1. CASE UNCHANGED vars
  <2>1. UNCHANGED <<bal, job, tx, ver, consumed, honoured>>
    BY <1>1 DEF vars
  <2>2. Types' /\ ClientInv' /\ VerifyInv' /\ OnceInv'
    <3>1. Types'
      BY <2>1 DEF PaymentInv, Types
    <3>2. ClientInv'
      BY <2>1 DEF PaymentInv, ClientInv
    <3>3. VerifyInv'
      BY <2>1 DEF PaymentInv, VerifyInv, Serving
    <3>4. OnceInv'
      BY <2>1 DEF PaymentInv, OnceInv, Serving, Stored
    <3>5. QED
      BY <3>1, <3>2, <3>3, <3>4
  <2>3. GainInv' /\ PricesInv'
    BY <2>1 DEF PaymentInv, GainInv, PricesInv, Gains, Prices, Served, PriceOf
  <2>4. QED
    BY <2>2, <2>3 DEF PaymentInv
<1>2. ASSUME NEW j \in Jobs, (\E req \in Requests : Ask(j, req)) \/ ClientStep(j) \/ ChainStep(j)
      PROVE  PaymentInv'
  BY <1>2, AskStep, PlanStep, SendStep, ConfirmStep, LandStep, FinalizeStep, ExpireStep
     DEF ClientStep, ChainStep
<1>3. ASSUME NEW v \in Verifications, (\E j \in Jobs : Receive(v, j)) \/ ServerStep(v)
      PROVE  PaymentInv'
  BY <1>3, ReceiveStep, LookupMissStep, MetaMissingStep, VerifyStep, ConsumeStep,
     ConsumeFailsStep, ReceiptStep DEF ServerStep
<1>4. QED
  BY <1>1, <1>2, <1>3 DEF Next

LEMMA PaymentAlways == Spec => []PaymentInv
  BY PaymentInit, PaymentNext, PTL DEF Spec

\* Balances never go below nothing, and what is honoured has been consumed.
THEOREM PaymentTypes == Spec => []TypeOK
<1>1. ASSUME PaymentInv PROVE TypeOK
  <2>1. ASSUME NEW j \in Jobs
        PROVE  /\ job[j].pc \in {"idle", "asked", "planned", "confirming"} \cup Ended
               /\ tx[j].state \in {"none", "sent", "landed", "final", "failed"}
    <3>1. job[j] \in JobRecord /\ tx[j] \in TxRecord
      BY <1>1 DEF PaymentInv, Types
    <3>2. QED
      BY <3>1 DEF JobRecord, JobStates, TxRecord, TxStates
  <2>2. ASSUME NEW v \in Verifications
        PROVE  /\ ver[v].pc \in {"idle", "looking", "verified", "consumed"} \cup Answered
               /\ ver[v].attempt \in 0..MaxLookups
    <3>1. ver[v] \in VerRecord
      BY <1>1 DEF PaymentInv, Types
    <3>2. QED
      BY <3>1 DEF VerRecord, VerStates
  <2>3. ASSUME NEW entry \in honoured PROVE entry \in Verifications \X consumed
    <3>1. /\ entry \in Verifications \X Jobs /\ Serving(entry[1])
          /\ ver[entry[1]].of = {entry[2]}
      BY <1>1 DEF PaymentInv, Types, OnceInv, Serving
    <3>2. entry[2] \in consumed
      BY <1>1, <3>1 DEF PaymentInv, OnceInv
    <3>3. QED
      BY <3>1, <3>2
  <2>4. bal \in [Accounts -> Nat] /\ consumed \subseteq Jobs /\ honoured \subseteq Verifications \X consumed
    BY <1>1, <2>3 DEF PaymentInv, Types, Balances
  <2>5. QED
    BY <2>1, <2>2, <2>4 DEF TypeOK
<1>2. QED
  BY <1>1, PaymentAlways, PTL

\* The client, the server and both verifiers of the gateway work out the same
\* amount from a transaction: the plan makes up just what was asked for,
\* however it is spread over the accounts.
THEOREM AmountsAgree == Spec => []VerifiersAgree
<1>1. ASSUME PaymentInv PROVE VerifiersAgree
  <2>1. ASSUME NEW j \in Jobs, Landed(tx[j]),
               NEW tokens, tokens = IF job[j].req.to = Ata /\ job[j].req.kind # "sendSol"
                                    THEN Raw(job[j]) ELSE 0
        PROVE  /\ SumReceivedTokenAmount(tx[j]) = tokens
               /\ VerifyMainnet(tx[j]) = tokens
               /\ VerifyDevnet(tx[j]) = IF job[j].req.to = Ata /\ job[j].req.kind = "sendSol"
                                        THEN Lamports(job[j].req.amount) ELSE 0
    <3>1. tx[j] \in TxRecord /\ Reports(tx[j]) /\ tx[j].state # "none"
      BY <1>1, <2>1 DEF PaymentInv, Types, ClientInv, Landed
    <3>2. Signs(job[j], tx[j])
      BY <1>1, <3>1 DEF PaymentInv, ClientInv
    <3>3. Total(tx[j].moves) \in Nat /\ Total(NoPlan) = 0
      BY <3>1, TotalType, NoPlanType DEF TxRecord
    <3>4. (IF tx[j].to = Ata THEN Total(tx[j].moves) ELSE 0) = tokens
      BY <2>1, <3>2, <3>3 DEF Signs
    <3>5. Brought(tx[j]) = tokens /\ tokens \in Nat
      BY <2>1, <3>1, <3>3, <3>4, BroughtIs
    <3>6. SumReceivedTokenAmount(tx[j]) = tokens /\ SumReceivedAmount(tx[j]) = tokens
      BY <2>1, <3>5 DEF Brought, SumReceivedTokenAmount, SumReceivedAmount
    <3>7. Total(ExtractUsdcTransfers(tx[j])) = tokens
      <4>1. CASE tx[j].to = Ata
        <5>1. ExtractUsdcTransfers(tx[j]) = tx[j].moves
          BY <4>1 DEF ExtractUsdcTransfers
        <5>2. QED
          BY <3>4, <4>1, <5>1
      <4>2. CASE tx[j].to # Ata
        <5>1. ExtractUsdcTransfers(tx[j]) = NoPlan
          BY <4>2 DEF ExtractUsdcTransfers
        <5>2. QED
          BY <3>3, <3>4, <4>2, <5>1
      <4>3. QED
        BY <4>1, <4>2
    <3>8. VerifyMainnet(tx[j]) = tokens
      BY <3>5, <3>6, <3>7 DEF VerifyMainnet
    <3>9. VerifyDevnet(tx[j]) = IF job[j].req.to = Ata /\ job[j].req.kind = "sendSol"
                                THEN Lamports(job[j].req.amount) ELSE 0
      BY <3>2 DEF VerifyDevnet, ExtractSolTransfers, Signs
    <3>10. QED
      BY <3>6, <3>8, <3>9
  <2>2. QED
    BY <2>1 DEF VerifiersAgree, Landed, Raw
<1>2. QED
  BY <1>1, PaymentAlways, PTL

\* What has been honoured is covered by what the server's account has gained.
THEOREM HonouredIsCovered == Spec => []HonouredArePaid
<1>1. ASSUME PaymentInv PROVE HonouredArePaid
  <2>1. Served \in SUBSET Jobs /\ IsFiniteSet(Served) /\ IsFiniteSet(Jobs)
    BY RequestsAssumption, FS_Subset DEF Served
  <2>2. \A j \in Jobs : Gains[j] = Brought(tx[j]) /\ Gains[j] \in Nat
    BY <1>1, GainsType
  <2>3. ASSUME NEW j \in Served PROVE Prices[j] \in Int /\ Prices[j] = Gains[j]
    <3>1. j \in Jobs /\ job[j].pc = "credential"
      BY <1>1, <2>1, ServedHaveCredentials
    <3>2. Landed(tx[j]) /\ Raw(job[j]) \in Nat /\ SumReceivedTokenAmount(tx[j]) = Raw(job[j])
      BY <1>1, <3>1, PaidInFull
    <3>3. QED
      BY <2>2, <3>1, <3>2 DEF Prices, Brought
  <2>4. SumFunctionOnSet(Prices, Served) = SumFunctionOnSet(Gains, Served)
    BY <2>1, <2>3, SumAgrees
  <2>5. \A j \in Jobs : Gains[j] \in Nat
    BY <2>2
  <2>6. SumFunctionOnSet(Gains, Served) <= SumFunctionOnSet(Gains, Jobs)
    BY <2>1, <2>5, SumGrows
  <2>7. SumFunctionOnSet(Gains, Jobs) \in Nat
    BY <2>1, <2>5, SumNat
  <2>8. SumFunctionOnSet(Gains, Served) \in Nat
    <3>1. \A j \in Served : Gains[j] \in Nat
      BY <2>1, <2>5
    <3>2. QED
      BY <2>1, <3>1, SumNat
  <2>9. SumFunctionOnSet(PriceOf, honoured) <= bal[Ata] - StartReceived
    BY <1>1, <2>4, <2>6, <2>7, <2>8, AccountsAssumption DEF PaymentInv, GainInv, PricesInv
  <2>10. PICK price : price = PriceOf
    OBVIOUS
  <2>11. SumFunction(price) = SumFunctionOnSet(price, honoured)
    <3>1. DOMAIN price = honoured
      BY <2>10 DEF PriceOf
    <3>2. SumFunction(price) = SumFunctionOnSet(price, DOMAIN price)
      BY DEF SumFunction
    <3>3. QED
      BY <3>1, <3>2, Zenon
  <2>12. price = [entry \in honoured |-> ParseAmountToRaw(job[entry[2]].req.amount)]
    BY <2>10 DEF PriceOf, Raw
  <2>13. SumFunction(price) <= bal[Ata] - StartReceived
    BY <2>9, <2>10, <2>11
  <2>14. QED
    BY <2>12, <2>13 DEF HonouredArePaid
<1>2. QED
  BY <1>1, PaymentAlways, PTL

\* The verdict goes against a client that has paid only for a price of nothing
\* or a payment consumed already, and what consumed it was a run of verify for
\* it that the store answered or should have.
THEOREM RefusalsHaveCause == Spec => []RefusedForCause
<1>1. ASSUME PaymentInv PROVE RefusedForCause
  <2>1. ASSUME NEW v \in Verifications, ver[v].pc = "refused", NEW j \in ver[v].of
        PROVE  j \in consumed \/ ParseAmountToRaw(job[j].req.amount) = 0
    BY <1>1, <2>1 DEF PaymentInv, VerifyInv, Raw
  <2>2. ASSUME NEW j \in consumed
        PROVE  \E v \in Verifications :
                  ver[v].of = {j} /\ ver[v].pc \in {"consumed", "honoured", "unanswered"}
    BY <1>1, <2>2 DEF PaymentInv, OnceInv, Stored, Serving
  <2>3. QED
    BY <2>1, <2>2 DEF RefusedForCause
<1>2. QED
  BY <1>1, PaymentAlways, PTL

-----------------------------------------------------------------------------
(* The refinement                                                          *)

Selling == <<Worth, consumed, honoured>>

\* What Tickets sees a payment to be worth is what it brought.
LEMMA WorthIs == Worth = Gains
  BY DEF Worth, Gains, Brought, Landed

LEMMA NothingSold ==
    ASSUME Gains' = Gains, UNCHANGED <<consumed, honoured>>
    PROVE  [TicketOffice!Next]_Selling
<1>1. Worth' = Worth
  BY WorthIs DEF Worth, Gains, Brought, Landed
<1>2. QED
  BY <1>1 DEF Selling

\* A transaction that lands pays the amount its call was asked for, or it
\* brings the server nothing.
LEMMA LandPays ==
    ASSUME PaymentInv, NEW j \in Jobs, Land(j)
    PROVE  [TicketOffice!Next]_Selling
<1>1. UNCHANGED <<job, consumed, honoured>> /\ tx \in [Jobs -> TxRecord] /\ tx[j].state = "sent"
  BY DEF Land, PaymentInv, Types
<1>2. PICK t : t = tx'[j]
  OBVIOUS
<1>3. tx' = [tx EXCEPT ![j] = t] /\ t.state # "none"
  <2>1. ASSUME NEW state \in {"landed", "failed"}, NEW post,
               tx' = [tx EXCEPT ![j].state = state, ![j].pre = bal, ![j].post = post]
        PROVE  tx' = [tx EXCEPT ![j] = t] /\ t.state # "none"
    <3>1. PICK u : u = [tx[j] EXCEPT !.state = state, !.pre = bal, !.post = post]
      OBVIOUS
    <3>2. u.state = state
      BY <1>1, <3>1 DEF TxRecord
    <3>3. tx' = [tx EXCEPT ![j] = u]
      BY <1>1, <2>1, <3>1
    <3>4. t = u
      BY <1>1, <1>2, <3>3
    <3>5. QED
      BY <3>2, <3>3, <3>4
  <2>2. QED
    BY <2>1 DEF Land
<1>4. PaymentInv'
  BY LandStep
<1>5. /\ t \in TxRecord /\ (Landed(t) => Reports(t)) /\ Signs(job[j], t)
      /\ job[j].req \in Requests
  <2>1. Types' /\ ClientInv'
    BY <1>4 DEF PaymentInv
  <2>2. t \in TxRecord
    BY <1>2, <2>1 DEF Types
  <2>3. (Landed(t) => Reports(t)) /\ Signs(job[j], t)
    BY <1>1, <1>2, <1>3, <2>1 DEF ClientInv
  <2>4. job[j].pc # "idle"
    BY <2>3 DEF Signs, Ended
  <2>5. QED
    BY <2>2, <2>3, <2>4 DEF PaymentInv, ClientInv
<1>6. Brought(t) = IF Landed(t) /\ t.to = Ata THEN Total(t.moves) ELSE 0
  BY <1>5, BroughtIs
<1>7. Gains[j] = 0
  BY <1>1, NothingYet DEF Gains, Landed
<1>8. Gains' = [Gains EXCEPT ![j] = Brought(t)]
  BY <1>1, <1>3 DEF Gains
<1>9. CASE Brought(t) = 0
  <2>1. Gains' = Gains
    BY <1>7, <1>8, <1>9 DEF Gains
  <2>2. QED
    BY <1>1, <2>1, NothingSold
<1>10. CASE Brought(t) # 0
  <2>1. Brought(t) = Raw(job[j])
    <3>1. Total(NoPlan) = 0
      BY NoPlanType
    <3>2. QED
      BY <1>5, <1>6, <1>10, <3>1 DEF Signs
  <2>2. Brought(t) \in {ParseAmountToRaw(req.amount) : req \in Requests}
    BY <1>5, <2>1 DEF Raw
  <2>3. Worth' = [Worth EXCEPT ![j] = Brought(t)] /\ Worth[j] = 0
    <3>1. Worth = Gains /\ Worth' = Gains'
      BY WorthIs DEF Worth, Gains, Brought, Landed
    <3>2. QED
      BY <1>7, <1>8, <3>1
  <2>4. TicketOffice!Pay(j, Brought(t))
    BY <1>1, <2>3 DEF TicketOffice!Pay
  <2>5. QED
    BY <2>2, <2>4 DEF TicketOffice!Next
<1>11. QED
  BY <1>9, <1>10

\* A reference that is consumed was paid for in full.
LEMMA ConsumeTears ==
    ASSUME PaymentInv, NEW v \in Verifications, NEW j \in Jobs,
           Consume(v, j) \/ ConsumeFails(v, j)
    PROVE  [TicketOffice!Next]_Selling
<1>1. /\ ver[v].pc = "verified" /\ ver[v].of = {j}
      /\ UNCHANGED <<bal, job, tx, honoured>> /\ consumed' \in {consumed, consumed \cup {j}}
  BY DEF Consume, ConsumeFails
<1>2. Worth' = Worth
  BY <1>1 DEF Worth
<1>3. CASE consumed' = consumed
  BY <1>1, <1>2, <1>3 DEF Selling
<1>4. CASE consumed' # consumed
  <2>1. job[j].pc = "credential"
    BY <1>1 DEF PaymentInv, VerifyInv
  <2>2. /\ Landed(tx[j]) /\ Raw(job[j]) \in Nat
        /\ SumReceivedTokenAmount(tx[j]) = Raw(job[j])
    BY <2>1, PaidInFull
  <2>3. Worth[j] = Raw(job[j])
    BY <2>2 DEF Worth, Landed
  <2>4. TicketOffice!Tear(j, Raw(job[j]))
    <3>1. consumed' = consumed \cup {j} /\ j \notin consumed
      BY <1>1, <1>4
    <3>2. QED
      BY <1>1, <1>2, <2>2, <2>3, <3>1 DEF TicketOffice!Tear
  <2>5. Raw(job[j]) \in {ParseAmountToRaw(req.amount) : req \in Requests}
    BY <2>1 DEF PaymentInv, ClientInv, Raw
  <2>6. QED
    BY <2>4, <2>5 DEF TicketOffice!Next
<1>5. QED
  BY <1>3, <1>4

LEMMA ReceiptLetsThrough ==
    ASSUME PaymentInv, NEW v \in Verifications, NEW j \in Jobs, GiveReceipt(v, j)
    PROVE  [TicketOffice!Next]_Selling
<1>1. j \in consumed /\ \A entry \in honoured : entry[2] # j
  BY ReceiptStep
<1>2. Worth' = Worth /\ consumed' = consumed /\ honoured' = honoured \cup {<<v, j>>}
  BY DEF GiveReceipt, Worth
<1>3. TicketOffice!LetThrough(v, j)
  BY <1>1, <1>2 DEF TicketOffice!LetThrough
<1>4. QED
  BY <1>3 DEF TicketOffice!Next

\* Signing and expiry bring nothing, and finality changes nothing that was
\* brought.
LEMMA TransactionSellsNothing ==
    ASSUME PaymentInv, NEW j \in Jobs, Send(j) \/ SendSol(j) \/ Finalize(j) \/ Expire(j)
    PROVE  [TicketOffice!Next]_Selling
<1>1. UNCHANGED <<consumed, honoured>> /\ tx \in [Jobs -> TxRecord]
  BY DEF Send, SendSol, Finalize, Expire, PaymentInv, Types
<1>2. tx[j] \in TxRecord /\ NoTx.state = "none"
  BY <1>1 DEF NoTx
<1>3. Brought(tx'[j]) = Brought(tx[j]) /\ \A x \in Jobs \ {j} : tx'[x] = tx[x]
  <2>1. CASE Send(j) \/ SendSol(j)
    <3>1. tx[j].state = "none"
      <4>1. job[j].pc \in {"planned", "asked"}
        BY <2>1 DEF Send, SendSol
      <4>2. QED
        BY <4>1, NotSignedYet
    <3>2. tx'[j].state = "sent" /\ \A x \in Jobs \ {j} : tx'[x] = tx[x]
      BY <1>1, <1>2, <2>1 DEF Send, SendSol, TxRecord
    <3>3. QED
      BY <3>1, <3>2, NothingYet DEF Landed
  <2>2. CASE Finalize(j)
    <3>1. PICK t : t = [tx[j] EXCEPT !.state = "final"]
      OBVIOUS
    <3>2. /\ tx' = [tx EXCEPT ![j] = t] /\ tx[j].state = "landed"
          /\ t.state = "final" /\ t.pre = tx[j].pre /\ t.post = tx[j].post
      BY <1>1, <1>2, <2>2, <3>1 DEF Finalize, TxRecord
    <3>3. tx'[j] = t /\ \A x \in Jobs \ {j} : tx'[x] = tx[x]
      BY <1>1, <3>2
    <3>4. Brought(t) = Brought(tx[j])
      BY <3>2 DEF Brought, Landed, SumReceivedTokenAmount, Gain
    <3>5. QED
      BY <3>3, <3>4
  <2>3. CASE Expire(j)
    <3>1. tx'[j] = NoTx /\ tx[j].state = "sent" /\ \A x \in Jobs \ {j} : tx'[x] = tx[x]
      BY <1>1, <2>3 DEF Expire
    <3>2. QED
      BY <1>2, <3>1, NothingYet DEF Landed
  <2>4. QED
    BY <2>1, <2>2, <2>3
<1>4. Gains' = Gains
  BY <1>3 DEF Gains
<1>5. QED
  BY <1>1, <1>4, NothingSold

LEMMA SellingInit == Init => TicketOffice!Init
<1> SUFFICES ASSUME Init PROVE TicketOffice!Init
  OBVIOUS
<1>1. \A j \in Jobs : tx[j].state = "none"
  BY DEF Init, NoTx
<1>2. Worth = [j \in Jobs |-> 0]
  BY <1>1 DEF Worth
<1>3. QED
  BY <1>2 DEF Init, TicketOffice!Init

LEMMA SellingStep == PaymentInv /\ [Next]_vars => [TicketOffice!Next]_Selling
<1> SUFFICES ASSUME PaymentInv, [Next]_vars PROVE [TicketOffice!Next]_Selling
  OBVIOUS
<1>1. ASSUME UNCHANGED <<tx, consumed, honoured>>
      PROVE  [TicketOffice!Next]_Selling
  BY <1>1, NothingSold DEF Gains
<1>2. CASE UNCHANGED vars
  BY <1>1, <1>2 DEF vars
<1>3. ASSUME NEW j \in Jobs, (\E req \in Requests : Ask(j, req)) \/ ClientStep(j) \/ ChainStep(j)
      PROVE  [TicketOffice!Next]_Selling
  <2>1. CASE (\E req \in Requests : Ask(j, req)) \/ Plan(j) \/ Confirm(j) \/ ClientThrows(j)
    BY <1>1, <2>1 DEF Ask, Plan, Confirm, ClientThrows
  <2>2. CASE Send(j) \/ SendSol(j) \/ Finalize(j) \/ Expire(j)
    BY <2>2, TransactionSellsNothing
  <2>3. CASE Land(j)
    BY <2>3, LandPays
  <2>4. QED
    BY <1>3, <2>1, <2>2, <2>3 DEF ClientStep, ChainStep
<1>4. ASSUME NEW v \in Verifications, (\E j \in Jobs : Receive(v, j)) \/ ServerStep(v)
      PROVE  [TicketOffice!Next]_Selling
  <2>1. CASE (\E j \in Jobs : Receive(v, j) \/ Verify(v, j)) \/ LookupMiss(v) \/ MetaMissing(v)
    BY <1>1, <2>1 DEF Receive, Verify, LookupMiss, MetaMissing
  <2>2. CASE \E j \in Jobs : Consume(v, j) \/ ConsumeFails(v, j)
    BY <2>2, ConsumeTears
  <2>3. CASE \E j \in Jobs : GiveReceipt(v, j)
    BY <2>3, ReceiptLetsThrough
  <2>4. QED
    BY <1>4, <2>1, <2>2, <2>3 DEF ServerStep
<1>5. QED
  BY <1>2, <1>3, <1>4 DEF Next

\* The server implements Tickets, as the gateway does: every step pays for,
\* tears or uses one ticket, or changes nothing that Tickets can see.
THEOREM ServerSellsTickets == Spec => ImplementsTickets
<1>1. Init => PaymentInv
  BY PaymentInit
<1>2. PaymentInv /\ [Next]_vars => PaymentInv'
  BY PaymentNext
<1>3. QED
  BY <1>1, <1>2, SellingInit, SellingStep, PTL
  DEF Spec, ImplementsTickets, TicketOffice!Spec, Selling

=============================================================================
