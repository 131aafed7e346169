---------------------------- MODULE VaultProofs ----------------------------
(***************************************************************************)
(* The vault and the oracle agent over it. The vault's safety is for any   *)
(* number of users, any balances and any width of its integers; the        *)
(* agent's for any number of ticks, demo runs and bootstrap runs and any   *)
(* answers of the model as well.                                           *)
(***************************************************************************)
EXTENDS OracleAgent, SumLemmas

-----------------------------------------------------------------------------
(* The vault                                                               *)

\* The truncating cast stays inside u64 and changes nothing that fits.
LEMMA CastRange == \A n \in Nat : AsU64(n) \in U64 /\ (n \in U64 => AsU64(n) = n)
  BY U64Assumption DEF AsU64, U64

\* The quotient of two naturals, by a positive one, is a natural.
LEMMA QuotientNat == \A a \in Nat, b \in Nat \ {0} : a \div b \in Nat
  OBVIOUS

LEMMA ProductNat == \A a \in Nat, b \in Nat : a * b \in Nat
  OBVIOUS

\* Pro rata at a ratio of one to one is exact: nothing is rounded away.
LEMMA ProRataExact == \A a \in Nat, t \in Nat \ {0} : (a * t) \div t = a
  OBVIOUS

\* Share arithmetic stays inside u64 on every reachable state.
LEMMA ShareArithmetic ==
  ASSUME TypeOK
  PROVE  /\ \A n \in U64 : SharesFor(n) \in U64
         /\ total_shares > 0 => \A s \in U64 : AssetsFor(s) \in U64
<1>1. U64 \subseteq Nat
  BY U64Assumption DEF U64
<1>2. total_deposits \in Nat /\ total_shares \in Nat
  BY <1>1 DEF TypeOK
<1>3. ASSUME NEW n \in U64 PROVE SharesFor(n) \in U64
  <2>1. CASE total_shares = 0 \/ total_deposits = 0
    BY <2>1, <1>3 DEF SharesFor
  <2>2. CASE ~(total_shares = 0 \/ total_deposits = 0)
    <3>1. n * total_shares \in Nat
      BY <1>1, <1>2, ProductNat
    <3>2. (n * total_shares) \div total_deposits \in Nat
      BY <3>1, <1>2, <2>2, QuotientNat
    <3> QED BY <3>2, <2>2, CastRange DEF SharesFor
  <2> QED BY <2>1, <2>2
<1>4. ASSUME total_shares > 0, NEW s \in U64 PROVE AssetsFor(s) \in U64
  <2>1. s * total_deposits \in Nat
    BY <1>1, <1>2, ProductNat
  <2>2. (s * total_deposits) \div total_shares \in Nat
    BY <2>1, <1>2, <1>4, QuotientNat
  <2> QED BY <2>2, CastRange DEF AssetsFor
<1> QED BY <1>3, <1>4

-----------------------------------------------------------------------------
(* Type correctness                                                        *)

\* Sums and differences that the code has checked stay inside u64.
LEMMA U64Closed ==
  /\ U64 \subseteq Nat
  /\ 0 \in U64
  /\ \A a \in U64, b \in U64 : a + b <= U64Max => a + b \in U64
  /\ \A a \in U64, b \in U64 : b <= a => a - b \in U64
  BY U64Assumption DEF U64

LEMMA DepositType ==
  ASSUME TypeOK, NEW u \in Users, NEW n \in U64, Deposit(u, n)
  PROVE  TypeOK'
<1> DEFINE minted == SharesFor(n)
<1>1. minted \in U64
  BY ShareArithmetic
<1> HIDE DEF minted
<1>2. /\ total_deposits' = total_deposits + n
      /\ total_deposits + n <= U64Max
      /\ total_shares' = total_shares + minted
      /\ total_shares + minted <= U64Max
      /\ shares' = [shares EXCEPT ![u] = @ + minted]
      /\ shares[u] + minted <= U64Max
      /\ deposited' = [deposited EXCEPT ![u] = @ + n]
      /\ deposited[u] + n <= U64Max
  BY DEF Deposit, minted
<1>3. total_deposits' \in U64 /\ total_shares' \in U64
  BY <1>1, <1>2, U64Closed DEF TypeOK
<1>4. shares[u] + minted \in U64 /\ deposited[u] + n \in U64
  BY <1>1, <1>2, U64Closed DEF TypeOK
<1>5. shares' \in [Users -> U64] /\ deposited' \in [Users -> U64]
  BY <1>2, <1>4 DEF TypeOK
<1>6. wallet[u] - n \in Nat /\ vault_balance + n \in Nat
  BY U64Closed DEF TypeOK, Deposit
<1>7. wallet' \in [Users -> Nat] /\ vault_balance' \in Nat
  BY <1>6 DEF TypeOK, Deposit
<1> QED
  BY <1>3, <1>5, <1>7 DEF TypeOK, Deposit, allocation, controls

LEMMA WithdrawType ==
  ASSUME TypeOK, NEW u \in Users, NEW n \in U64, Withdraw(u, n)
  PROVE  TypeOK'
<1> DEFINE amount == AssetsFor(n)
           basis == IF amount <= deposited[u] THEN deposited[u] - amount ELSE 0
<1>1. amount \in U64
  BY ShareArithmetic, U64Closed DEF TypeOK, Withdraw, WithdrawAccepted
<1> HIDE DEF amount
<1>2. /\ total_deposits' = total_deposits - amount
      /\ amount <= total_deposits
      /\ total_shares' = total_shares - n
      /\ n <= total_shares
      /\ shares' = [shares EXCEPT ![u] = @ - n]
      /\ n <= shares[u]
      /\ deposited' = [deposited EXCEPT ![u] = IF amount <= @ THEN @ - amount ELSE 0]
      /\ wallet' = [wallet EXCEPT ![u] = @ + amount]
      /\ vault_balance' = vault_balance - amount
      /\ amount <= vault_balance
  BY U64Closed DEF Withdraw, WithdrawAccepted, amount, TypeOK
<1>3. total_deposits' \in U64 /\ total_shares' \in U64
  BY <1>1, <1>2, U64Closed DEF TypeOK
<1>4. shares[u] - n \in U64 /\ basis \in U64
  BY <1>1, <1>2, U64Closed DEF TypeOK
<1>5. shares' \in [Users -> U64] /\ deposited' \in [Users -> U64]
  BY <1>2, <1>4 DEF TypeOK
<1>6. wallet[u] + amount \in Nat /\ vault_balance' \in Nat
  BY <1>1, <1>2, U64Closed DEF TypeOK
<1>7. wallet' \in [Users -> Nat]
  BY <1>2, <1>6 DEF TypeOK
<1> QED
  BY <1>3, <1>5, <1>6, <1>7 DEF TypeOK, Withdraw, allocation, controls

LEMMA RecordDecisionType ==
  ASSUME TypeOK,
         NEW signer \in Keys, NEW pda, NEW kind, NEW target \in 0..MAX_STRATEGIES,
         NEW n \in U64, NEW confidence \in Nat,
         kind \in {DECISION_ALLOCATE, DECISION_REBALANCE, DECISION_RISK_OFF},
         RecordDecision(signer, pda, kind, target, n, confidence)
  PROVE  /\ total_ai_decisions' \in 0..MaxDecisions
         /\ decisions' \in [0..(total_ai_decisions' - 1) -> Decision]
<1>1. total_ai_decisions' \in 0..MaxDecisions
  BY U64Assumption DEF TypeOK, RecordDecision
<1>2. DOMAIN decisions \cup {pda} = 0..(total_ai_decisions' - 1)
  BY U64Assumption DEF TypeOK, RecordDecision
<1>3. [decision_type |-> kind, target_strategy |-> target, amount |-> n,
       confidence |-> confidence, oracle |-> signer] \in Decision
  BY DEF Decision, RecordDecision, MIN_AI_CONFIDENCE
<1> QED
  BY <1>1, <1>2, <1>3 DEF TypeOK, RecordDecision

LEMMA AiType ==
  ASSUME TypeOK, AiNext
  PROVE  TypeOK'
<1> USE KeysAssumption, ArgsAssumption, U64Assumption
<1>1. PICK signer \in Keys, pda \in 0..MaxDecisions, confidence \in ConfidenceArgs :
        \/ \E target \in StrategyArgs, n \in U64 :
              AiAllocate(signer, pda, target, n, confidence)
        \/ \E target \in StrategyArgs : AiRebalance(signer, pda, target, confidence)
        \/ AiRiskOff(signer, pda, confidence)
  BY DEF AiNext
<1>2. confidence \in Nat
  OBVIOUS
<1>3. CASE \E target \in StrategyArgs, n \in U64 :
              AiAllocate(signer, pda, target, n, confidence)
  <2>1. PICK target \in StrategyArgs, n \in U64 :
              AiAllocate(signer, pda, target, n, confidence)
    BY <1>3
  <2>2. target \in 0..MAX_STRATEGIES
    BY <2>1 DEF AiAllocate, MAX_STRATEGIES
  <2>3. /\ total_ai_decisions' \in 0..MaxDecisions
        /\ decisions' \in [0..(total_ai_decisions' - 1) -> Decision]
    BY <1>2, <2>1, <2>2, RecordDecisionType DEF AiAllocate
  <2>4. allocated_amount' \in U64 /\ active_strategy' \in 0..MAX_STRATEGIES
    BY <2>1, <2>2 DEF TypeOK, AiAllocate, U64
  <2> QED
    BY <2>1, <2>3, <2>4 DEF TypeOK, AiAllocate, accounting, controls, tokens
<1>4. CASE \E target \in StrategyArgs : AiRebalance(signer, pda, target, confidence)
  <2>1. PICK target \in StrategyArgs : AiRebalance(signer, pda, target, confidence)
    BY <1>4
  <2>2. target \in 0..MAX_STRATEGIES
    BY <2>1 DEF AiRebalance, MAX_STRATEGIES
  <2>3. /\ total_ai_decisions' \in 0..MaxDecisions
        /\ decisions' \in [0..(total_ai_decisions' - 1) -> Decision]
    BY <1>2, <2>1, <2>2, RecordDecisionType DEF AiRebalance, TypeOK
  <2> QED
    BY <2>1, <2>2, <2>3 DEF TypeOK, AiRebalance, accounting, controls, tokens
<1>5. CASE AiRiskOff(signer, pda, confidence)
  <2>1. 0 \in 0..MAX_STRATEGIES /\ 0 \in U64
    BY DEF MAX_STRATEGIES, U64
  <2>2. /\ total_ai_decisions' \in 0..MaxDecisions
        /\ decisions' \in [0..(total_ai_decisions' - 1) -> Decision]
    BY <1>2, <1>5, <2>1, RecordDecisionType DEF AiRiskOff, TypeOK
  <2> QED
    BY <1>5, <2>1, <2>2 DEF TypeOK, AiRiskOff, accounting, controls, tokens
<1> QED BY <1>1, <1>3, <1>4, <1>5

LEMMA TypeInductive == TypeOK /\ [Next]_vars => TypeOK'
<1> SUFFICES ASSUME TypeOK, [Next]_vars PROVE TypeOK'
  OBVIOUS
<1>1. CASE UserNext
  BY <1>1, DepositType, WithdrawType DEF UserNext
<1>2. CASE AiNext
  BY <1>2, AiType
<1>3. CASE AdminNext
  BY <1>3 DEF AdminNext, SetAiOracle, SetPaused, TypeOK, accounting, allocation, tokens
<1>4. CASE \E n \in U64 : Donate(n)
  BY <1>4, U64Assumption DEF Donate, TypeOK, U64, accounting, allocation, controls
<1>5. CASE UNCHANGED vars
  BY <1>5 DEF TypeOK, vars, accounting, allocation, controls, tokens
<1> QED BY <1>1, <1>2, <1>3, <1>4, <1>5 DEF Next

LEMMA TypeInit == Init => TypeOK
<1> SUFFICES ASSUME Init PROVE TypeOK
  OBVIOUS
<1>1. 0..(total_ai_decisions - 1) = {}
  BY DEF Init
<1>2. decisions \in [0..(total_ai_decisions - 1) -> Decision]
  BY <1>1 DEF Init
<1>3. wallet \in [Users -> Nat]
  BY U64Closed, FundsAssumption DEF Init
<1>4. shares \in [Users -> U64] /\ deposited \in [Users -> U64]
  BY U64Closed DEF Init
<1>5. 0 \in 0..MaxDecisions /\ 0 \in 0..MAX_STRATEGIES
  BY U64Assumption DEF MAX_STRATEGIES
<1> QED
  BY <1>2, <1>3, <1>4, <1>5, U64Closed, FundsAssumption DEF Init, TypeOK

\* The vault's accounts keep the ranges of their Rust types, and the decision
\* ids are handed out without a gap.
THEOREM TypeCorrect == Spec => []TypeOK
  BY TypeInit, TypeInductive, PTL DEF Spec

-----------------------------------------------------------------------------
(* The ledger. SharesAddUp is not inductive alone: that a withdrawal leaves *)
(* every running total inside 0..total_shares needs the totals to be       *)
(* ordered, and that it subtracts the same number from both sides needs    *)
(* the ratio of one to one.                                                *)

RunningTotals(acc) ==
    /\ acc \in [0..NumUsers -> 0..total_shares]
    /\ acc[0] = 0
    /\ acc[NumUsers] = total_shares
    /\ \A u \in Users : acc[u] = acc[u - 1] + shares[u]
    /\ \A i, j \in 0..NumUsers : i <= j => acc[i] <= acc[j]

LedgerInv ==
    /\ TypeOK
    /\ \E acc : RunningTotals(acc)
    /\ ShareIsOneToken
    /\ Solvent
    /\ PrincipalKept

\* At one to one a deposit mints what it pays and a withdrawal pays what it
\* burns.
LEMMA OneToOne ==
  ASSUME TypeOK, ShareIsOneToken
  PROVE  /\ \A n \in U64 : SharesFor(n) = n
         /\ total_shares > 0 => \A n \in U64 : AssetsFor(n) = n
<1>1. total_shares = total_deposits /\ total_shares \in Nat
  BY U64Closed DEF TypeOK, ShareIsOneToken
<1>2. ASSUME NEW n \in U64, total_shares > 0
      PROVE  AsU64((n * total_shares) \div total_shares) = n
  <2>1. n \in Nat /\ total_shares \in Nat \ {0}
    BY <1>1, <1>2, U64Closed
  <2>2. (n * total_shares) \div total_shares = n
    BY <2>1, ProRataExact
  <2> QED BY <2>1, <2>2, CastRange
<1>3. ASSUME NEW n \in U64 PROVE SharesFor(n) = n
  <2>1. CASE total_shares = 0
    BY <2>1 DEF SharesFor
  <2>2. CASE total_shares > 0
    BY <1>1, <1>2, <2>2 DEF SharesFor
  <2> QED BY <1>1, <2>1, <2>2
<1>4. ASSUME total_shares > 0, NEW n \in U64 PROVE AssetsFor(n) = n
  BY <1>1, <1>2, <1>4 DEF AssetsFor
<1> QED BY <1>3, <1>4

LEMMA DepositLedger ==
  ASSUME LedgerInv, NEW u \in Users, NEW n \in U64, Deposit(u, n)
  PROVE  /\ \E acc : RunningTotals(acc)'
         /\ ShareIsOneToken' /\ Solvent' /\ PrincipalKept'
<1> USE U64Closed, UsersAssumption
<1>1. SharesFor(n) = n
  BY OneToOne DEF LedgerInv
<1>2. /\ total_deposits' = total_deposits + n
      /\ total_shares' = total_shares + n
      /\ shares' = [shares EXCEPT ![u] = shares[u] + n]
      /\ deposited' = [deposited EXCEPT ![u] = deposited[u] + n]
      /\ wallet' = [wallet EXCEPT ![u] = wallet[u] - n]
      /\ vault_balance' = vault_balance + n
      /\ allocated_amount' = allocated_amount
  BY <1>1 DEF Deposit, allocation
<1>3. /\ total_deposits \in Nat /\ total_shares \in Nat /\ n \in Nat
      /\ allocated_amount \in Nat /\ vault_balance \in Nat
      /\ shares \in [Users -> Nat] /\ deposited \in [Users -> Nat]
      /\ wallet \in [Users -> Nat]
  BY DEF LedgerInv, TypeOK
<1>4. \E acc : RunningTotals(acc)'
  <2>1. PICK acc : RunningTotals(acc)
    BY DEF LedgerInv
  <2> DEFINE new == [i \in 0..NumUsers |-> IF u <= i THEN acc[i] + n ELSE acc[i]]
  <2>2. u \in 1..NumUsers
    BY DEF Users
  <2>3. ASSUME NEW i \in 0..NumUsers PROVE new[i] \in 0..total_shares'
    <3>1. acc[i] \in 0..total_shares
      BY <2>1 DEF RunningTotals
    <3> QED BY <1>2, <1>3, <3>1
  <2>4. new[0] = 0 /\ new[NumUsers] = total_shares'
    BY <1>2, <1>3, <2>1, <2>2 DEF RunningTotals
  <2>5. ASSUME NEW v \in Users PROVE new[v] = new[v - 1] + shares'[v]
    <3>1. v \in 0..NumUsers /\ v - 1 \in 0..NumUsers /\ v \in Nat
      BY DEF Users
    <3>2. acc[v] = acc[v - 1] + shares[v] /\ acc[v - 1] \in Nat /\ shares[v] \in Nat
      BY <1>3, <2>1, <3>1 DEF RunningTotals
    <3>3. shares'[v] = IF v = u THEN shares[u] + n ELSE shares[v]
      BY <1>2, <1>3
    <3>4. new[v] = (IF u <= v THEN acc[v] + n ELSE acc[v])
          /\ new[v - 1] = (IF u <= v - 1 THEN acc[v - 1] + n ELSE acc[v - 1])
      BY <3>1
    <3> HIDE DEF new
    <3> QED BY <1>3, <2>2, <3>1, <3>2, <3>3, <3>4
  <2>6. ASSUME NEW i \in 0..NumUsers, NEW j \in 0..NumUsers, i <= j
        PROVE  new[i] <= new[j]
    BY <1>3, <2>1, <2>2, <2>6 DEF RunningTotals
  <2>7. new \in [0..NumUsers -> 0..total_shares']
    BY <2>3
  <2>8. RunningTotals(new)'
    BY <2>4, <2>5, <2>6, <2>7 DEF RunningTotals
  <2> QED BY <2>8
<1>5. ShareIsOneToken'
  BY <1>2, <1>3 DEF LedgerInv, ShareIsOneToken
<1>6. Solvent'
  BY <1>2, <1>3 DEF LedgerInv, Solvent
<1>7. PrincipalKept'
  BY <1>2, <1>3 DEF LedgerInv, PrincipalKept
<1> QED BY <1>4, <1>5, <1>6, <1>7

LEMMA WithdrawLedger ==
  ASSUME LedgerInv, NEW u \in Users, NEW n \in U64, Withdraw(u, n)
  PROVE  /\ \E acc : RunningTotals(acc)'
         /\ ShareIsOneToken' /\ Solvent' /\ PrincipalKept'
<1> USE U64Closed, UsersAssumption
<1>1. AssetsFor(n) = n
  BY OneToOne DEF LedgerInv, Withdraw, WithdrawAccepted
<1>2. /\ total_deposits \in Nat /\ total_shares \in Nat /\ n \in Nat
      /\ allocated_amount \in Nat /\ vault_balance \in Nat
      /\ shares \in [Users -> Nat] /\ deposited \in [Users -> Nat]
      /\ wallet \in [Users -> Nat]
  BY DEF LedgerInv, TypeOK
<1>3. deposited[u] = shares[u] /\ n <= shares[u]
  BY DEF LedgerInv, ShareIsOneToken, Withdraw, WithdrawAccepted
<1>4. /\ total_deposits' = total_deposits - n
      /\ total_shares' = total_shares - n
      /\ shares' = [shares EXCEPT ![u] = shares[u] - n]
      /\ deposited' = [deposited EXCEPT ![u] = deposited[u] - n]
      /\ wallet' = [wallet EXCEPT ![u] = wallet[u] + n]
      /\ vault_balance' = vault_balance - n
      /\ allocated_amount' = allocated_amount
      /\ n <= total_deposits - allocated_amount
      /\ n <= total_shares
  BY <1>1, <1>3 DEF Withdraw, WithdrawAccepted, Liquid, allocation
<1>5. \E acc : RunningTotals(acc)'
  <2>1. PICK acc : RunningTotals(acc)
    BY DEF LedgerInv
  <2> DEFINE new == [i \in 0..NumUsers |-> IF u <= i THEN acc[i] - n ELSE acc[i]]
  <2>2. u \in 1..NumUsers
    BY DEF Users
  <2>3. ASSUME NEW i \in 0..NumUsers PROVE new[i] \in 0..total_shares'
    <3>1. acc[u] = acc[u - 1] + shares[u] /\ acc[u] <= total_shares
      BY <2>1, <2>2 DEF RunningTotals
    <3>2. acc[i] \in 0..total_shares /\ acc[u - 1] \in Nat /\ acc[u] \in Nat
      BY <2>1, <2>2 DEF RunningTotals
    <3>3. CASE u <= i
      <4>1. acc[u] <= acc[i]
        BY <2>1, <2>2, <3>3 DEF RunningTotals
      <4> QED BY <1>2, <1>3, <1>4, <3>1, <3>2, <3>3, <4>1
    <3>4. CASE ~(u <= i)
      <4>1. acc[i] <= acc[u - 1]
        BY <2>1, <2>2, <3>4 DEF RunningTotals
      <4> QED BY <1>2, <1>3, <1>4, <3>1, <3>2, <3>4, <4>1
    <3> QED BY <3>3, <3>4
  <2>4. new[0] = 0 /\ new[NumUsers] = total_shares'
    BY <1>2, <1>4, <2>1, <2>2 DEF RunningTotals
  <2>5. ASSUME NEW v \in Users PROVE new[v] = new[v - 1] + shares'[v]
    <3>1. v \in 0..NumUsers /\ v - 1 \in 0..NumUsers /\ v \in Nat
      BY DEF Users
    <3>2. acc[v] = acc[v - 1] + shares[v] /\ acc[v - 1] \in Nat /\ shares[v] \in Nat
      BY <1>2, <2>1, <3>1 DEF RunningTotals
    <3>3. shares'[v] = IF v = u THEN shares[u] - n ELSE shares[v]
      BY <1>2, <1>4
    <3>4. new[v] = (IF u <= v THEN acc[v] - n ELSE acc[v])
          /\ new[v - 1] = (IF u <= v - 1 THEN acc[v - 1] - n ELSE acc[v - 1])
      BY <3>1
    <3> HIDE DEF new
    <3> QED BY <1>2, <2>2, <3>1, <3>2, <3>3, <3>4
  <2>6. ASSUME NEW i \in 0..NumUsers, NEW j \in 0..NumUsers, i <= j
        PROVE  new[i] <= new[j]
    <3>1. acc[i] <= acc[j] /\ acc[i] \in Nat /\ acc[j] \in Nat
      BY <2>1, <2>6 DEF RunningTotals
    <3>2. CASE u <= i \/ ~(u <= j)
      BY <1>2, <2>2, <2>6, <3>1, <3>2
    <3>3. CASE ~(u <= i) /\ u <= j
      <4>1. acc[i] <= acc[u - 1] /\ acc[u] <= acc[j] /\ acc[u] = acc[u - 1] + shares[u]
        BY <2>1, <2>2, <3>3 DEF RunningTotals
      <4>2. acc[u - 1] \in Nat /\ acc[u] \in Nat /\ shares[u] \in Nat
        BY <1>2, <2>1, <2>2 DEF RunningTotals
      <4> QED BY <1>2, <1>3, <3>1, <3>3, <4>1, <4>2
    <3> QED BY <3>2, <3>3
  <2>7. new \in [0..NumUsers -> 0..total_shares']
    BY <2>3
  <2>8. RunningTotals(new)'
    BY <2>4, <2>5, <2>6, <2>7 DEF RunningTotals
  <2> QED BY <2>8
<1>6. ShareIsOneToken'
  BY <1>2, <1>3, <1>4 DEF LedgerInv, ShareIsOneToken
<1>7. Solvent'
  BY <1>2, <1>4 DEF LedgerInv, Solvent
<1>8. PrincipalKept'
  BY <1>2, <1>4 DEF LedgerInv, PrincipalKept
<1> QED BY <1>5, <1>6, <1>7, <1>8

\* Steps that touch no position: the allocation may change, up to what is
\* liquid, and the vault's token account may grow.
LEMMA OtherLedger ==
  ASSUME LedgerInv,
         UNCHANGED <<accounting, wallet>>,
         allocated_amount' <= total_deposits,
         vault_balance <= vault_balance',
         vault_balance' \in Nat
  PROVE  /\ \E acc : RunningTotals(acc)'
         /\ ShareIsOneToken' /\ Solvent' /\ PrincipalKept'
<1> USE DEF accounting
<1>1. \E acc : RunningTotals(acc)'
  BY DEF LedgerInv, RunningTotals
<1>2. ShareIsOneToken' /\ PrincipalKept'
  BY DEF LedgerInv, ShareIsOneToken, PrincipalKept
<1>3. Solvent'
  BY U64Closed DEF LedgerInv, Solvent, TypeOK
<1> QED BY <1>1, <1>2, <1>3

LEMMA LedgerInductive == LedgerInv /\ [Next]_vars => LedgerInv'
<1> SUFFICES ASSUME LedgerInv, [Next]_vars PROVE LedgerInv'
  OBVIOUS
<1>1. TypeOK'
  BY TypeInductive DEF LedgerInv
<1>2. /\ total_deposits \in Nat /\ allocated_amount \in Nat
      /\ vault_balance \in Nat /\ vault_balance' \in Nat
      /\ allocated_amount <= total_deposits
  BY <1>1, U64Closed DEF LedgerInv, TypeOK, Solvent
<1>3. CASE UserNext
  BY <1>1, <1>3, DepositLedger, WithdrawLedger DEF UserNext, LedgerInv
<1>4. CASE AiNext
  <2>1. UNCHANGED <<accounting, tokens>> /\ allocated_amount' <= total_deposits
    BY <1>2, <1>4, U64Closed DEF AiNext, AiAllocate, AiRebalance, AiRiskOff, Liquid
  <2> QED
    BY <1>1, <1>2, <2>1, OtherLedger DEF LedgerInv, tokens
<1>5. CASE AdminNext
  <2>1. UNCHANGED <<accounting, allocation, tokens>>
    BY <1>5 DEF AdminNext, SetAiOracle, SetPaused
  <2> QED
    BY <1>1, <1>2, <2>1, OtherLedger DEF LedgerInv, allocation, tokens
<1>6. CASE \E n \in U64 : Donate(n)
  <2>1. UNCHANGED <<accounting, allocation, wallet>> /\ vault_balance <= vault_balance'
    BY <1>2, <1>6, U64Closed DEF Donate, TypeOK, LedgerInv
  <2> QED
    BY <1>1, <1>2, <2>1, OtherLedger DEF LedgerInv, allocation
<1>7. CASE UNCHANGED vars
  BY <1>1, <1>2, <1>7, OtherLedger DEF LedgerInv, vars, allocation, tokens
<1> QED BY <1>3, <1>4, <1>5, <1>6, <1>7 DEF Next

LEMMA LedgerInit == Init => LedgerInv
<1> SUFFICES ASSUME Init PROVE LedgerInv
  OBVIOUS
<1>1. TypeOK
  BY TypeInit
<1> DEFINE zero == [i \in 0..NumUsers |-> 0]
<1>2. RunningTotals(zero)
  BY UsersAssumption DEF Init, RunningTotals, Users
<1>3. \A u \in Users : wallet[u] + shares[u] = Funds[u]
  <2>1. Funds \in [Users -> Nat]
    BY FundsAssumption, U64Closed
  <2> QED BY <2>1 DEF Init
<1> QED
  BY <1>1, <1>2, <1>3 DEF Init, LedgerInv, ShareIsOneToken, Solvent, PrincipalKept

LEMMA LedgerAlways == Spec => []LedgerInv
  BY LedgerInit, LedgerInductive, PTL DEF Spec

\* The positions always add up to the vault's total, for any number of users.
THEOREM SharesAlwaysAddUp == Spec => []SharesAddUp
<1>1. LedgerInv => SharesAddUp
  BY DEF LedgerInv, RunningTotals, SharesAddUp
<1> QED BY <1>1, LedgerAlways, PTL

\* No deposit or withdrawal ever moves the price of a share off one token.
THEOREM ShareAlwaysOneToken == Spec => []ShareIsOneToken
<1>1. LedgerInv => ShareIsOneToken
  BY DEF LedgerInv
<1> QED BY <1>1, LedgerAlways, PTL

\* The token account always covers the books, the books the allocation.
THEOREM AlwaysSolvent == Spec => []Solvent
<1>1. LedgerInv => Solvent
  BY DEF LedgerInv
<1> QED BY <1>1, LedgerAlways, PTL

\* No user ever gains or loses a token through the vault.
THEOREM PrincipalAlwaysKept == Spec => []PrincipalKept
<1>1. LedgerInv => PrincipalKept
  BY DEF LedgerInv
<1> QED BY <1>1, LedgerAlways, PTL

-----------------------------------------------------------------------------
(* The vault implements a one-to-one custody account                       *)

LEMMA CustodyStep ==
  ASSUME LedgerInv, [Next]_vars
  PROVE  [Ledger!Next]_<<wallet, shares>>
<1>1. /\ shares \in [Users -> Nat] /\ wallet \in [Users -> Nat]
      /\ U64 \subseteq Nat
  BY U64Closed DEF LedgerInv, TypeOK
<1>2. ASSUME NEW u \in Users, NEW n \in U64, Deposit(u, n)
      PROVE  Ledger!Next
  <2>1. SharesFor(n) = n
    BY OneToOne DEF LedgerInv
  <2>2. n \in 1..wallet[u]
    BY <1>1, <1>2 DEF Deposit
  <2>3. Ledger!Pay(u, n)
    BY <1>1, <1>2, <2>1, <2>2 DEF Deposit, Ledger!Pay
  <2> QED BY <2>2, <2>3 DEF Ledger!Next
<1>3. ASSUME NEW u \in Users, NEW n \in U64, Withdraw(u, n)
      PROVE  Ledger!Next
  <2>1. AssetsFor(n) = n
    BY <1>3, OneToOne DEF LedgerInv, Withdraw, WithdrawAccepted
  <2>2. n \in 1..shares[u]
    BY <1>1, <1>3 DEF Withdraw, WithdrawAccepted
  <2>3. Ledger!TakeBack(u, n)
    BY <1>1, <1>3, <2>1, <2>2 DEF Withdraw, Ledger!TakeBack
  <2> QED BY <2>2, <2>3 DEF Ledger!Next
<1>4. CASE UserNext
  BY <1>2, <1>3, <1>4 DEF UserNext
<1>5. CASE AiNext
  BY <1>5 DEF AiNext, AiAllocate, AiRebalance, AiRiskOff, accounting, tokens
<1>6. CASE AdminNext
  BY <1>6 DEF AdminNext, SetAiOracle, SetPaused, accounting, tokens
<1>7. CASE \E n \in U64 : Donate(n)
  BY <1>7 DEF Donate, accounting
<1>8. CASE UNCHANGED vars
  BY <1>8 DEF vars, accounting, tokens
<1> QED BY <1>4, <1>5, <1>6, <1>7, <1>8 DEF Next

\* Whatever the other users, the oracle, the admin and strangers do, every
\* step of the vault is, for the users, a payment in or back out of a plain
\* custody account, or nothing at all.
THEOREM VaultImplementsCustody == Spec => ImplementsCustody
<1>1. Init => Ledger!Init
  BY DEF Init, Ledger!Init
<1> QED BY <1>1, LedgerAlways, CustodyStep, PTL DEF Spec, ImplementsCustody, Ledger!Spec

-----------------------------------------------------------------------------
(* The audit trail                                                         *)

LEMMA RecordDecisionStep ==
  ASSUME TypeOK, NEW signer, NEW pda, NEW kind, NEW target, NEW n, NEW confidence,
         RecordDecision(signer, pda, kind, target, n, confidence)
  PROVE  /\ total_ai_decisions' = total_ai_decisions + 1
         /\ decisions'[total_ai_decisions] =
              [decision_type |-> kind, target_strategy |-> target, amount |-> n,
               confidence |-> confidence, oracle |-> ai_oracle]
         /\ \A id \in DOMAIN decisions :
               id \in DOMAIN decisions' /\ decisions'[id] = decisions[id]
  BY DEF RecordDecision

\* A step leaves the allocation and the accounts alone, or it writes the next
\* account and that one explains it.
Audited ==
    \/ UNCHANGED allocation
    \/ /\ total_ai_decisions' = total_ai_decisions + 1
       /\ \A id \in DOMAIN decisions :
             id \in DOMAIN decisions' /\ decisions'[id] = decisions[id]
       /\ decisions'[total_ai_decisions].oracle = ai_oracle
       /\ Explains(decisions'[total_ai_decisions])

LEMMA AuditedStep ==
  ASSUME TypeOK, [Next]_vars
  PROVE  Audited
<1>2. CASE UserNext
  BY <1>2 DEF UserNext, Deposit, Withdraw, Audited
<1>3. CASE AdminNext
  BY <1>3 DEF AdminNext, SetAiOracle, SetPaused, Audited
<1>4. CASE \E n \in U64 : Donate(n)
  BY <1>4 DEF Donate, Audited
<1>5. ASSUME NEW signer, NEW pda, NEW target, NEW n, NEW confidence,
             AiAllocate(signer, pda, target, n, confidence)
      PROVE  Audited
  <2>1. RecordDecision(signer, pda, DECISION_ALLOCATE, target, n, confidence)
    BY <1>5 DEF AiAllocate
  <2> DEFINE d == decisions'[total_ai_decisions]
  <2>2. /\ total_ai_decisions' = total_ai_decisions + 1
        /\ d = [decision_type |-> DECISION_ALLOCATE, target_strategy |-> target,
                amount |-> n, confidence |-> confidence, oracle |-> ai_oracle]
        /\ \A id \in DOMAIN decisions :
              id \in DOMAIN decisions' /\ decisions'[id] = decisions[id]
    BY <2>1, RecordDecisionStep
  <2>3. Explains(d) /\ d.oracle = ai_oracle
    BY <1>5, <2>2 DEF AiAllocate, Explains
  <2> QED
    BY <2>2, <2>3 DEF Audited
<1>6. ASSUME NEW signer, NEW pda, NEW target, NEW confidence,
             AiRebalance(signer, pda, target, confidence)
      PROVE  Audited
  <2>1. RecordDecision(signer, pda, DECISION_REBALANCE, target, allocated_amount, confidence)
    BY <1>6 DEF AiRebalance
  <2> DEFINE d == decisions'[total_ai_decisions]
  <2>2. /\ total_ai_decisions' = total_ai_decisions + 1
        /\ d = [decision_type |-> DECISION_REBALANCE, target_strategy |-> target,
                amount |-> allocated_amount, confidence |-> confidence, oracle |-> ai_oracle]
        /\ \A id \in DOMAIN decisions :
              id \in DOMAIN decisions' /\ decisions'[id] = decisions[id]
    BY <2>1, RecordDecisionStep
  <2>3. Explains(d) /\ d.oracle = ai_oracle
    BY <1>6, <2>2 DEF AiRebalance, Explains
  <2> QED
    BY <2>2, <2>3 DEF Audited
<1>7. ASSUME NEW signer, NEW pda, NEW confidence, AiRiskOff(signer, pda, confidence)
      PROVE  Audited
  <2>1. RecordDecision(signer, pda, DECISION_RISK_OFF, 0, allocated_amount, confidence)
    BY <1>7 DEF AiRiskOff
  <2> DEFINE d == decisions'[total_ai_decisions]
  <2>2. /\ total_ai_decisions' = total_ai_decisions + 1
        /\ d = [decision_type |-> DECISION_RISK_OFF, target_strategy |-> 0,
                amount |-> allocated_amount, confidence |-> confidence, oracle |-> ai_oracle]
        /\ \A id \in DOMAIN decisions :
              id \in DOMAIN decisions' /\ decisions'[id] = decisions[id]
    BY <2>1, RecordDecisionStep
  <2>3. Explains(d) /\ d.oracle = ai_oracle
    BY <1>7, <2>2 DEF AiRiskOff, Explains
  <2> QED
    BY <2>2, <2>3 DEF Audited
<1>8. CASE AiNext
  BY <1>5, <1>6, <1>7, <1>8 DEF AiNext
<1>9. CASE UNCHANGED vars
  BY <1>9 DEF vars, Audited
<1> QED BY <1>2, <1>3, <1>4, <1>8, <1>9 DEF Next

LEMMA AuditStep ==
  ASSUME TypeOK, [Next]_vars
  PROVE  AuditTrailStep
  BY AuditedStep DEF Audited, AuditTrailStep, allocation

\* No step changes what is allocated, or where, without the next decision
\* account saying so, and no decision account is ever rewritten.
THEOREM AuditTrailKept == Spec => AuditTrail
  BY TypeCorrect, AuditStep, PTL DEF Spec, AuditTrail

-----------------------------------------------------------------------------
(* Replaying the audit trail                                               *)

\* What one account makes of what was allocated before it.
ReplayedOne(d, before) ==
    [strategy |-> d.target_strategy,
     allocated |-> CASE d.decision_type = DECISION_ALLOCATE -> before.allocated + d.amount
                     [] d.decision_type = DECISION_REBALANCE -> d.amount
                     [] d.decision_type = DECISION_RISK_OFF -> before.allocated - d.amount]

\* f tells what the accounts ds make of it, up to the first k of them.
Story(f, ds, k) ==
    f = [n \in 0..k |-> IF n = 0 THEN [allocated |-> 0, strategy |-> 0]
                        ELSE ReplayedOne(ds[n - 1], f[n - 1])]

\* Any accounts have a story: the shortest that had none would have one that
\* is shorter by an account, and that account would continue it.
LEMMA StoryExists ==
  ASSUME NEW ds, NEW k \in Nat
  PROVE  \E f : Story(f, ds, k)
<1> DEFINE T == {n \in Nat : ~ \E f : Story(f, ds, n)}
<1>1. SUFFICES ASSUME T # {} PROVE FALSE
  OBVIOUS
<1>2. PICK n \in T : \A m \in T : n <= m
  <2>1. T \in SUBSET Nat
    OBVIOUS
  <2>2. QED
    BY <1>1, <2>1, LeastNumber
<1>3. n \in Nat /\ ~ \E f : Story(f, ds, n)
  OBVIOUS
<1> HIDE DEF T
<1>4. CASE n = 0
  <2>1. PICK f : f = [m \in 0..0 |-> [allocated |-> 0, strategy |-> 0]]
    OBVIOUS
  <2>2. Story(f, ds, 0)
    BY <2>1 DEF Story
  <2>3. QED
    BY <1>3, <1>4, <2>2
<1>5. CASE n # 0
  <2>1. n - 1 \in Nat /\ n - 1 \notin T
    BY <1>2, <1>3, <1>5
  <2>2. PICK g : Story(g, ds, n - 1)
    BY <2>1 DEF T
  <2>3. PICK f : f = [m \in 0..n |-> IF m = n THEN ReplayedOne(ds[n - 1], g[n - 1]) ELSE g[m]]
    OBVIOUS
  <2>4. ASSUME NEW m \in 0..n
        PROVE  f[m] = IF m = 0 THEN [allocated |-> 0, strategy |-> 0]
                      ELSE ReplayedOne(ds[m - 1], f[m - 1])
    <3>1. CASE m = n
      <4>1. n - 1 \in 0..n /\ n - 1 # n
        BY <1>3, <1>5
      <4>2. f[n - 1] = g[n - 1] /\ f[n] = ReplayedOne(ds[n - 1], g[n - 1])
        BY <1>3, <2>3, <4>1
      <4>3. QED
        BY <1>5, <3>1, <4>2
    <3>2. CASE m # n /\ m # 0
      <4>1. m \in 0..(n - 1) /\ m - 1 \in 0..n /\ m - 1 # n
        BY <1>3, <3>2
      <4>2. g[m] = ReplayedOne(ds[m - 1], g[m - 1])
        BY <2>2, <3>2, <4>1 DEF Story
      <4>3. f[m] = g[m] /\ f[m - 1] = g[m - 1]
        BY <2>3, <3>2, <4>1
      <4>4. QED
        BY <3>2, <4>2, <4>3
    <3>3. CASE m # n /\ m = 0
      <4>1. 0 \in 0..(n - 1)
        BY <1>3, <1>5
      <4>2. g[0] = [allocated |-> 0, strategy |-> 0]
        BY <2>2, <4>1 DEF Story
      <4>3. QED
        BY <2>3, <3>3, <4>2
    <3>4. QED
      BY <3>1, <3>2, <3>3
  <2>5. f = [m \in 0..n |-> f[m]]
    BY <2>3
  <2>6. Story(f, ds, n)
    BY <2>4, <2>5 DEF Story
  <2>7. QED
    BY <1>3, <2>6
<1>6. QED
  BY <1>4, <1>5

LEMMA ChosenStory ==
  ASSUME NEW ds, NEW k \in Nat, NEW r, r = CHOOSE f : Story(f, ds, k)
  PROVE  Story(r, ds, k)
<1>1. \E f : Story(f, ds, k)
  BY StoryExists
<1>2. QED
  BY <1>1, Zenon

\* Accounts that begin alike have stories that begin alike.
LEMMA StoriesAgree ==
  ASSUME NEW k \in Nat, NEW l \in Nat, k <= l, NEW ds, NEW es, NEW f, NEW g,
         Story(f, ds, k), Story(g, es, l), \A i \in 0..(k - 1) : es[i] = ds[i]
  PROVE  f[k] = g[k]
<1> DEFINE T == {n \in 0..k : f[n] # g[n]}
<1>1. SUFFICES ASSUME T # {} PROVE FALSE
  OBVIOUS
<1>2. PICK n \in T : \A m \in T : n <= m
  <2>1. T \in SUBSET Nat
    OBVIOUS
  <2>2. QED
    BY <1>1, <2>1, LeastNumber
<1>3. n \in 0..k /\ n \in 0..l /\ f[n] # g[n]
  OBVIOUS
<1> HIDE DEF T
<1>4. n # 0
  <2>1. 0 \in 0..k /\ 0 \in 0..l
    OBVIOUS
  <2>2. f[0] = g[0]
    BY <2>1 DEF Story
  <2>3. QED
    BY <1>3, <2>2
<1>5. n - 1 \in 0..k /\ n - 1 \in 0..(k - 1) /\ n - 1 \notin T
  BY <1>2, <1>3, <1>4
<1>6. f[n - 1] = g[n - 1] /\ es[n - 1] = ds[n - 1]
  BY <1>5 DEF T
<1>7. /\ f[n] = ReplayedOne(ds[n - 1], f[n - 1])
      /\ g[n] = ReplayedOne(es[n - 1], g[n - 1])
  BY <1>3, <1>4 DEF Story
<1>8. QED
  BY <1>3, <1>6, <1>7

\* The recursive definition of Replayed, now and after a step.
LEMMA ReplayedIsStory ==
  /\ total_ai_decisions \in Nat => Story(Replayed, decisions, total_ai_decisions)
  /\ total_ai_decisions' \in Nat => Story(Replayed', decisions', total_ai_decisions')
<1>1. Replayed = CHOOSE f : Story(f, decisions, total_ai_decisions)
  BY DEF Replayed, Story, ReplayedOne
<1>2. Replayed' = CHOOSE f : Story(f, decisions', total_ai_decisions')
  BY DEF Replayed, Story, ReplayedOne
<1>3. QED
  BY <1>1, <1>2, ChosenStory

LEMMA ReplayInit == Init => AuditTrailReplays
<1> SUFFICES ASSUME Init PROVE AuditTrailReplays
  OBVIOUS
<1>1. total_ai_decisions = 0 /\ allocated_amount = 0 /\ active_strategy = 0
  BY DEF Init
<1>2. Story(Replayed, decisions, 0)
  BY <1>1, ReplayedIsStory
<1>3. Replayed[0] = [allocated |-> 0, strategy |-> 0]
  BY <1>2 DEF Story
<1>4. QED
  BY <1>1, <1>3 DEF AuditTrailReplays

LEMMA ReplayStep == TypeOK /\ AuditTrailReplays /\ [Next]_vars => AuditTrailReplays'
<1> SUFFICES ASSUME TypeOK, AuditTrailReplays, [Next]_vars PROVE AuditTrailReplays'
  OBVIOUS
<1>1. Audited
  BY AuditedStep
<1>2. PICK k \in Nat : k = total_ai_decisions
  BY DEF TypeOK
<1>3. Story(Replayed, decisions, k) /\ Replayed[k].allocated = allocated_amount
  BY <1>2, ReplayedIsStory DEF AuditTrailReplays
<1>4. DOMAIN decisions = 0..(k - 1) /\ allocated_amount \in Nat
  BY <1>2, U64Closed DEF TypeOK
<1>5. CASE UNCHANGED allocation
  <2>1. UNCHANGED <<allocated_amount, active_strategy, decisions, total_ai_decisions>>
    BY <1>5 DEF allocation
  <2>2. Story(Replayed', decisions, k)
    BY <1>2, <2>1, ReplayedIsStory
  <2>3. Replayed'[k] = Replayed[k]
    BY <1>3, <2>2, StoriesAgree
  <2>4. QED
    BY <1>2, <2>1, <2>3 DEF AuditTrailReplays
<1>6. CASE /\ total_ai_decisions' = total_ai_decisions + 1
           /\ \A id \in DOMAIN decisions :
                 id \in DOMAIN decisions' /\ decisions'[id] = decisions[id]
           /\ Explains(decisions'[total_ai_decisions])
  <2>1. PICK d : d = decisions'[k]
    OBVIOUS
  <2>2. Story(Replayed', decisions', k + 1)
    BY <1>2, <1>6, ReplayedIsStory
  <2>3. Replayed'[k] = Replayed[k]
    <3>1. k + 1 \in Nat /\ k <= k + 1
      OBVIOUS
    <3>2. \A i \in 0..(k - 1) : decisions'[i] = decisions[i]
      BY <1>4, <1>6
    <3>3. Replayed[k] = Replayed'[k]
      BY <1>3, <2>2, <3>1, <3>2, StoriesAgree
    <3>4. QED
      BY <3>3
  <2>4. Replayed'[k + 1] = ReplayedOne(d, Replayed[k])
    <3>1. k + 1 \in 0..(k + 1) /\ k + 1 # 0 /\ (k + 1) - 1 = k
      OBVIOUS
    <3>2. QED
      BY <2>1, <2>2, <2>3, <3>1 DEF Story
  <2>5. Explains(d)
    BY <1>2, <1>6, <2>1
  <2>6. ReplayedOne(d, Replayed[k]) = [allocated |-> allocated_amount', strategy |-> active_strategy']
    BY <1>3, <1>4, <2>5
    DEF ReplayedOne, Explains, DECISION_ALLOCATE, DECISION_REBALANCE, DECISION_RISK_OFF
  <2>7. QED
    BY <1>2, <1>6, <2>4, <2>6 DEF AuditTrailReplays
<1>7. QED
  BY <1>1, <1>5, <1>6 DEF Audited

\* Whoever replays the decision accounts gets the vault's allocation.
THEOREM TrailAlwaysReplays == Spec => []AuditTrailReplays
<1>1. Init => TypeOK /\ AuditTrailReplays
  BY TypeInit, ReplayInit
<1>2. TypeOK /\ AuditTrailReplays /\ [Next]_vars => (TypeOK /\ AuditTrailReplays)'
  BY TypeInductive, ReplayStep
<1>3. QED
  BY <1>1, <1>2, PTL DEF Spec

-----------------------------------------------------------------------------
(* The bootstrap scripts                                                   *)

Created(s) == script[s] = "created"

\* There is a vault when a script has created it, and never two that have.
ScriptInv ==
    /\ vault_exists \in BOOLEAN
    /\ script \in [Scripts -> {"idle", "sent", "created", "failed"}]
    /\ vault_exists <=> \E s \in Scripts : Created(s)
    /\ \A r, s \in Scripts : Created(r) /\ Created(s) => r = s

\* Every step but a script's leaves the scripts alone.
LEMMA ScriptStep == ScriptInv /\ [AgentNext]_<<vars, agent>> => ScriptInv'
<1> SUFFICES ASSUME ScriptInv, [AgentNext]_<<vars, agent>> PROVE ScriptInv'
  OBVIOUS
<1>1. ASSUME NEW s \in Scripts, CheckVault(s) PROVE ScriptInv'
  BY <1>1 DEF ScriptInv, Created, CheckVault
<1>2. ASSUME NEW s \in Scripts, CreateVault(s) PROVE ScriptInv'
  BY <1>2 DEF ScriptInv, Created, CreateVault
<1>3. ASSUME NEW s \in Scripts, ScriptFails(s) PROVE ScriptInv'
  BY <1>3 DEF ScriptInv, Created, ScriptFails
<1>4. CASE UNCHANGED <<vault_exists, script>>
  BY <1>4 DEF ScriptInv, Created
<1>5. ASSUME NEW t \in Signers, TickStep(t) \/ TickThrows(t)
      PROVE  UNCHANGED <<vault_exists, script>>
  BY <1>5 DEF TickStep, TickThrows, AnswerTick, ReadDecisionId, VaultNotFound, Submit, Land, Expire
<1>6. ASSUME NEW t \in Ticks, StartTick(t) PROVE UNCHANGED <<vault_exists, script>>
  BY <1>6 DEF StartTick
<1>7. ASSUME NEW d \in Demos, NEW decision \in SCRIPTED, StartDemo(d, decision)
      PROVE  UNCHANGED <<vault_exists, script>>
  BY <1>7 DEF StartDemo
<1>8. CASE UNCHANGED agent
  BY <1>4, <1>8 DEF agent
<1> QED
  BY <1>1, <1>2, <1>3, <1>4, <1>5, <1>6, <1>7, <1>8 DEF AgentNext

\* The bootstrap scripts' own invariant.
LEMMA ScriptAlways == AgentSpec => []ScriptInv
<1>1. AgentInit => ScriptInv
  BY DEF AgentInit, ScriptInv, Created
<1> QED BY <1>1, ScriptStep, PTL DEF AgentSpec

\* Of any number of bootstrap runs that overlap, one at most creates the
\* vault and so chooses its oracle.
THEOREM VaultAlwaysCreatedOnce == AgentSpec => []VaultCreatedOnce
<1>1. ASSUME ScriptInv PROVE VaultCreatedOnce
  <2> DEFINE S == {s \in Scripts : Created(s)}
  <2>1. CASE S = {}
    BY <1>1, <2>1, FS_EmptySet DEF ScriptInv, VaultCreatedOnce, Created
  <2>2. CASE S # {}
    <3>1. PICK s : s \in S
      BY <2>2
    <3>2. S = {s}
      BY <1>1, <3>1 DEF ScriptInv
    <3>3. Cardinality(S) = 1
      BY <3>2, FS_Singleton
    <3> QED BY <1>1, <3>3 DEF ScriptInv, VaultCreatedOnce, Created
  <2> QED BY <2>1, <2>2
<1> QED BY <1>1, ScriptAlways, PTL

-----------------------------------------------------------------------------
(* The decisions                                                           *)

Pcs == {"idle", "asked", "decided", "read", "sent"} \cup Ended

Tick == [pc : Pcs, answer : Answers \cup SCRIPTED \cup {NoAnswer}, id : Nat, saw : Nat]

\* An answer and the decision account that is to say it.
Says(d, a) ==
    InSchema(a) =>
      /\ WholeOf(d.confidence, a.confidence)
      /\ CASE a.action = "allocate" ->
                /\ d.decision_type = DECISION_ALLOCATE
                /\ d.target_strategy = a.target
                /\ \E off \in -Drift..Drift : WholeOf(d.amount, a.amount + off)
           [] a.action = "rebalance" ->
                /\ d.decision_type = DECISION_REBALANCE
                /\ d.target_strategy = a.target
           [] a.action = "risk_off" ->
                /\ d.decision_type = DECISION_RISK_OFF
                /\ d.target_strategy = 0

\* The accounts have no gap, no counter that was read lies in the future, and
\* those that landed are as many as the decisions, each on its own.
DecisionInv ==
    /\ total_ai_decisions \in Nat
    /\ DOMAIN decisions = 0..(total_ai_decisions - 1)
    /\ tick \in [Signers -> Tick]
    /\ \A t \in Signers : tick[t].id <= tick[t].saw /\ tick[t].saw <= total_ai_decisions
    /\ \A t \in Landed : tick[t].saw = tick[t].id
    /\ \A t \in Landed : Says(decisions[tick[t].id], tick[t].answer)
    /\ IsFiniteSet(Landed)
    /\ Cardinality(Landed) = total_ai_decisions
    /\ {tick[t].id : t \in Landed} = 0..(total_ai_decisions - 1)

\* A step of one tick that lands nothing.
LEMMA QuietStep ==
  ASSUME DecisionInv, NEW t \in Signers, NEW r \in Tick,
         tick[t].pc # "landed", r.pc # "landed",
         r.id <= r.saw, r.saw <= total_ai_decisions,
         tick' = [tick EXCEPT ![t] = r],
         UNCHANGED <<total_ai_decisions, decisions>>
  PROVE  DecisionInv'
<1>1. tick' \in [Signers -> Tick] /\ tick'[t] = r
        /\ \A u \in Signers : u # t => tick'[u] = tick[u]
  BY DEF DecisionInv
<1>2. Landed' = Landed /\ t \notin Landed
  BY <1>1 DEF Landed
<1>3. \A u \in Landed : u \in Signers /\ tick'[u] = tick[u]
  BY <1>1, <1>2 DEF Landed
<1>4. {tick'[u].id : u \in Landed} = {tick[u].id : u \in Landed}
  BY <1>3
<1>5. \A u \in Signers : tick'[u].id <= tick'[u].saw /\ tick'[u].saw <= total_ai_decisions
  BY <1>1 DEF DecisionInv
<1>6. \A u \in Landed : tick'[u].saw = tick'[u].id
                          /\ Says(decisions[tick'[u].id], tick'[u].answer)
  BY <1>3 DEF DecisionInv
<1> QED
  BY <1>1, <1>2, <1>4, <1>5, <1>6 DEF DecisionInv

\* A tick once it has read the counter.
LEMMA ReadRecord ==
  ASSUME NEW P, NEW A, NEW k \in [pc : P, answer : A, id : Nat, saw : Nat],
         NEW id \in Nat, NEW saw \in Nat, NEW pc \in P,
         NEW r, r = [k EXCEPT !.id = id, !.saw = saw, !.pc = pc]
  PROVE  /\ r \in [pc : P, answer : A, id : Nat, saw : Nat]
         /\ r.id = id /\ r.saw = saw /\ r.pc = pc
OBVIOUS

\* Whatever a tick does besides landing is such a step.
LEMMA TickQuiet ==
  ASSUME DecisionInv, NEW t \in Signers,
         \/ \E answer \in Answers : AnswerTick(t, answer)
         \/ \E id \in 0..MaxDecisions : ReadDecisionId(t, id)
         \/ VaultNotFound(t) \/ Submit(t) \/ Expire(t) \/ TickThrows(t)
         \/ t \in Ticks /\ StartTick(t)
         \/ \E decision \in SCRIPTED : StartDemo(t, decision)
  PROVE  DecisionInv'
<1>1. tick[t] \in Tick /\ tick[t].id <= tick[t].saw /\ tick[t].saw <= total_ai_decisions
        /\ total_ai_decisions \in Nat
  BY DEF DecisionInv
<1>2. \A pc \in Pcs : /\ At(pc) \in Tick /\ At(pc).pc = pc
                      /\ At(pc).id <= At(pc).saw /\ At(pc).saw <= total_ai_decisions
  BY <1>1 DEF At, Tick
<1>3. \A pc \in Pcs : [tick[t] EXCEPT !.pc = pc] \in Tick
  BY <1>1 DEF Tick
<1>4. {"idle", "asked", "decided", "read", "sent", "over", "lost"} \subseteq Pcs
  BY DEF Pcs, Ended
<1>5. ASSUME UNCHANGED vars, NEW pc \in Pcs, pc # "landed", tick[t].pc # "landed",
             \/ tick' = [tick EXCEPT ![t].pc = pc]
             \/ tick' = [tick EXCEPT ![t] = At(pc)]
      PROVE  DecisionInv'
  <2>1. UNCHANGED <<total_ai_decisions, decisions>>
    BY <1>5 DEF vars, allocation
  <2>2. CASE tick' = [tick EXCEPT ![t] = At(pc)]
    BY <1>1, <1>2, <1>5, <2>1, <2>2, QuietStep
  <2>3. CASE tick' = [tick EXCEPT ![t].pc = pc]
    <3> DEFINE r == [tick[t] EXCEPT !.pc = pc]
    <3>1. r \in Tick /\ r.pc = pc /\ r.id = tick[t].id /\ r.saw = tick[t].saw
      BY <1>1, <1>3 DEF Tick
    <3>2. tick' = [tick EXCEPT ![t] = r]
      BY <2>3
    <3> HIDE DEF r
    <3> QED BY <1>1, <1>5, <2>1, <3>1, <3>2, QuietStep
  <2> QED BY <1>5, <2>2, <2>3
<1>6. ASSUME UNCHANGED vars, NEW answer \in Answers \cup SCRIPTED, tick[t].pc # "landed",
             tick' = [tick EXCEPT ![t] = [At("decided") EXCEPT !.answer = answer]]
      PROVE  DecisionInv'
  <2> DEFINE r == [At("decided") EXCEPT !.answer = answer]
  <2>1. /\ r \in Tick /\ r.pc = "decided"
        /\ r.id <= r.saw /\ r.saw <= total_ai_decisions
    BY <1>1, <1>4 DEF At, Tick
  <2>2. UNCHANGED <<total_ai_decisions, decisions>>
    BY <1>6 DEF vars, allocation
  <2> HIDE DEF r
  <2> QED BY <1>1, <1>6, <2>1, <2>2, QuietStep DEF r
<1>7. CASE \E answer \in Answers : AnswerTick(t, answer)
  <2>1. PICK answer \in Answers : AnswerTick(t, answer)
    BY <1>7
  <2>2. CASE Actionable(answer)
    BY <1>6, <2>1, <2>2 DEF AnswerTick
  <2>3. CASE ~Actionable(answer)
    BY <1>4, <1>5, <2>1, <2>3 DEF AnswerTick
  <2> QED BY <2>2, <2>3
<1>8. CASE \E id \in 0..MaxDecisions : ReadDecisionId(t, id)
  <2>1. PICK id \in 0..MaxDecisions : ReadDecisionId(t, id)
    BY <1>8
  <2> DEFINE r == [tick[t] EXCEPT !.id = id, !.saw = total_ai_decisions, !.pc = "read"]
  <2>2. /\ tick[t].pc # "landed" /\ id <= total_ai_decisions
        /\ tick' = [tick EXCEPT ![t] = r]
        /\ UNCHANGED <<total_ai_decisions, decisions>>
    BY <2>1 DEF ReadDecisionId, vars, allocation
  <2>3. tick[t] \in [pc : Pcs, answer : Answers \cup SCRIPTED \cup {NoAnswer}, id : Nat, saw : Nat]
    BY <1>1 DEF Tick
  <2>4. /\ r \in Tick /\ r.pc = "read" /\ r.id = id /\ r.saw = total_ai_decisions
    <3>1. id \in Nat /\ total_ai_decisions \in Nat /\ "read" \in Pcs
      BY <1>1, <1>4, U64Assumption
    <3>2. r = [tick[t] EXCEPT !.id = id, !.saw = total_ai_decisions, !.pc = "read"]
      OBVIOUS
    <3> HIDE DEF r
    <3> QED BY <2>3, <3>1, <3>2, ReadRecord DEF Tick
  <2>5. r.id <= r.saw /\ r.saw <= total_ai_decisions
    BY <1>1, <2>2, <2>4
  <2> HIDE DEF r
  <2> QED BY <1>1, <2>2, <2>4, <2>5, QuietStep
<1>9. CASE VaultNotFound(t)
  BY <1>4, <1>5, <1>9 DEF VaultNotFound
<1>10. CASE Submit(t)
  BY <1>4, <1>5, <1>10 DEF Submit
<1>11. CASE Expire(t)
  BY <1>4, <1>5, <1>11 DEF Expire
<1>12. CASE TickThrows(t)
  BY <1>4, <1>5, <1>12 DEF TickThrows
<1>13. CASE t \in Ticks /\ StartTick(t)
  BY <1>4, <1>5, <1>13 DEF StartTick
<1>14. CASE \E decision \in SCRIPTED : StartDemo(t, decision)
  BY <1>6, <1>14 DEF StartDemo
<1> QED BY <1>7, <1>8, <1>9, <1>10, <1>11, <1>12, <1>13, <1>14

\* Division drops the fraction.
LEMMA Fraction ==
  ASSUME NEW n \in Int
  PROVE  LET q == n \div Parts IN q \in Int /\ WholeOf(q, n) /\ (n >= 0 => q >= 0)
BY PartsAssumption DEF WholeOf

\* A confidence up to 100 fits the byte it is put into.
LEMMA WholeConfidence ==
  ASSUME NEW a, a.confidence \in Int, InSchema(a)
  PROVE  WholeOf(ToU8(a.confidence), a.confidence)
<1> DEFINE q == a.confidence \div Parts
<1>1. q \in Int /\ q >= 0 /\ WholeOf(q, a.confidence)
  BY Fraction DEF InSchema
<1> HIDE DEF q
<1>2. q <= 100
  <2>1. q * Parts <= 100 * Parts
    BY <1>1, PartsAssumption DEF InSchema, WholeOf
  <2>2. ~(q > 100) \/ q * Parts >= 101 * Parts
    BY <1>1, PartsAssumption
  <2> QED BY <1>1, <2>1, <2>2, PartsAssumption
<1>3. ToU8(a.confidence) = q
  <2>1. ToU8(a.confidence) = q % 256
    BY DEF ToU8, InSchema, q
  <2>2. q % 256 = q
    BY <1>1, <1>2
  <2> QED BY <2>1, <2>2
<1> QED BY <1>1, <1>3

\* An amount in the schema fits the field, whichever product is signed.
LEMMA WholeAmount ==
  ASSUME NEW t \in Signers, tick[t].answer.amount \in Int, InSchema(tick[t].answer),
         NEW u64 \in Signed(t)
  PROVE  \E off \in -Drift..Drift : WholeOf(u64, tick[t].answer.amount + off)
<1> DEFINE amount == tick[t].answer.amount
<1>1. PICK n \in Int : /\ n >= 0 /\ n - amount \in -Drift..Drift
                       /\ u64 = ToU64(Floored(n))
  BY DriftAssumption, PartsAssumption DEF Signed, Products, InSchema
<1>2. amount \in Int /\ amount + Drift <= U64Max * Parts
  BY DEF InSchema
<1> DEFINE q == n \div Parts
<1>3. q \in Int /\ q >= 0 /\ WholeOf(q, n)
  BY <1>1, Fraction
<1> HIDE DEF q, amount
<1>4. q <= U64Max
  <2>1. q * Parts <= U64Max * Parts
    BY <1>1, <1>2, <1>3, PartsAssumption, DriftAssumption, U64Assumption DEF WholeOf
  <2>2. q > U64Max => q * Parts >= (U64Max + 1) * Parts
    BY <1>3, PartsAssumption, U64Assumption
  <2> QED BY <1>3, <2>1, <2>2, PartsAssumption, U64Assumption
<1>5. u64 = q
  <2>1. u64 = q % (U64Max + 1)
    BY <1>1 DEF Floored, ToU64, q
  <2>2. q % (U64Max + 1) = q
    BY <1>3, <1>4, U64Assumption
  <2> QED BY <2>1, <2>2
<1>6. n = amount + (n - amount)
  BY <1>1, <1>2
<1> QED BY <1>1, <1>3, <1>5, <1>6 DEF amount

LEMMA AnswerNumbers ==
  ASSUME NEW t \in Signers, tick[t] \in Tick
  PROVE  tick[t].answer.amount \in Int /\ tick[t].answer.confidence \in Int
<1>1. \A a \in SCRIPTED : a.amount \in Int /\ a.confidence \in Int
  BY DemoAssumption, PartsAssumption DEF SCRIPTED
<1> QED
  BY <1>1, AnswersAssumption DEF Tick, NoAnswer

\* What a transaction that executes does to the vault's decisions.
LEMMA ExecuteRecords ==
  ASSUME NEW t \in Signers, tick[t] \in Tick, Execute(t)
  PROVE  /\ tick[t].id = total_ai_decisions
         /\ total_ai_decisions' = total_ai_decisions + 1
         /\ \E d : /\ Says(d, tick[t].answer)
                  /\ decisions' = [id \in DOMAIN decisions \cup {total_ai_decisions} |->
                                     IF id = total_ai_decisions THEN d ELSE decisions[id]]
<1> DEFINE a == tick[t].answer
           u8 == ToU8(a.confidence)
<1>1. a.amount \in Int /\ a.confidence \in Int
  BY AnswerNumbers
<1>2. CASE a.action = "allocate" /\ \E u64 \in Signed(t) :
              AiAllocate(AgentKey, tick[t].id, a.target, u64, u8)
  <2>1. PICK u64 \in Signed(t) : AiAllocate(AgentKey, tick[t].id, a.target, u64, u8)
    BY <1>2
  <2> DEFINE d == [decision_type |-> DECISION_ALLOCATE, target_strategy |-> a.target,
                   amount |-> u64, confidence |-> u8, oracle |-> AgentKey]
  <2>2. InSchema(a) => WholeOf(u8, a.confidence)
                        /\ \E off \in -Drift..Drift : WholeOf(u64, a.amount + off)
    BY <1>1, WholeConfidence, WholeAmount
  <2>3. Says(d, a)
    BY <1>2, <2>2 DEF Says
  <2> QED BY <2>1, <2>3 DEF AiAllocate, RecordDecision
<1>3. CASE a.action = "rebalance" /\ AiRebalance(AgentKey, tick[t].id, a.target, u8)
  <2> DEFINE d == [decision_type |-> DECISION_REBALANCE, target_strategy |-> a.target,
                   amount |-> allocated_amount, confidence |-> u8, oracle |-> AgentKey]
  <2>1. Says(d, a)
    BY <1>1, <1>3, WholeConfidence DEF Says
  <2> QED BY <1>3, <2>1 DEF AiRebalance, RecordDecision
<1>4. CASE a.action = "risk_off" /\ AiRiskOff(AgentKey, tick[t].id, u8)
  <2> DEFINE d == [decision_type |-> DECISION_RISK_OFF, target_strategy |-> 0,
                   amount |-> allocated_amount, confidence |-> u8, oracle |-> AgentKey]
  <2>1. Says(d, a)
    BY <1>1, <1>4, WholeConfidence DEF Says
  <2> QED BY <1>4, <2>1 DEF AiRiskOff, RecordDecision
<1> QED BY <1>2, <1>3, <1>4 DEF Execute

\* A transaction that lands adds the next decision, and its tick to Landed.
LEMMA LandStep ==
  ASSUME DecisionInv, NEW t \in Signers, Land(t)
  PROVE  DecisionInv'
<1> DEFINE n == total_ai_decisions
           k == tick[t]
<1>1. /\ k.pc # "landed" /\ k.id = n /\ n' = n + 1
      /\ tick' = [tick EXCEPT ![t].pc = "landed"]
  BY ExecuteRecords DEF Land, DecisionInv
<1>2. PICK d : /\ Says(d, k.answer)
               /\ decisions' = [id \in DOMAIN decisions \cup {n} |->
                                  IF id = n THEN d ELSE decisions[id]]
  BY ExecuteRecords DEF Land, DecisionInv
<1>3. n \in Nat /\ DOMAIN decisions = 0..(n - 1) /\ k \in Tick /\ k.saw = n
  BY <1>1 DEF DecisionInv, Tick
<1>4. /\ DOMAIN decisions' = 0..(n' - 1) /\ decisions'[n] = d
      /\ \A id \in 0..(n - 1) : decisions'[id] = decisions[id]
  <2>1. 0..(n - 1) \cup {n} = 0..(n' - 1)
    BY <1>1, <1>3
  <2> QED BY <1>2, <1>3, <2>1
<1>5. /\ tick' \in [Signers -> Tick]
      /\ tick'[t].pc = "landed" /\ tick'[t].id = n /\ tick'[t].saw = n
      /\ tick'[t].answer = k.answer
      /\ \A u \in Signers : u # t => tick'[u] = tick[u]
  <2> DEFINE r == [k EXCEPT !.pc = "landed"]
  <2>1. /\ r \in Tick /\ r.pc = "landed" /\ r.id = k.id /\ r.saw = k.saw
        /\ r.answer = k.answer
    BY <1>3 DEF Tick, Pcs, Ended
  <2>2. tick' = [tick EXCEPT ![t] = r]
    BY <1>1
  <2> HIDE DEF r
  <2> QED BY <1>1, <1>3, <2>1, <2>2 DEF DecisionInv
<1>6. Landed' = Landed \cup {t} /\ t \notin Landed /\ Landed \subseteq Signers
  BY <1>1, <1>5 DEF Landed
<1>7. \A u \in Landed : tick'[u] = tick[u] /\ tick[u].id \in 0..(n - 1)
  BY <1>5, <1>6 DEF DecisionInv
<1>8. IsFiniteSet(Landed') /\ Cardinality(Landed') = n'
  BY <1>1, <1>6, FS_AddElement DEF DecisionInv
<1>9. {tick'[u].id : u \in Landed'} = 0..(n' - 1)
  <2>1. {tick'[u].id : u \in Landed} = {tick[u].id : u \in Landed}
    BY <1>7
  <2>2. {tick'[u].id : u \in Landed \cup {t}} = {tick'[u].id : u \in Landed} \cup {n}
    BY <1>5
  <2>3. {tick[u].id : u \in Landed} \cup {n} = 0..(n' - 1)
    BY <1>1, <1>3 DEF DecisionInv
  <2> QED BY <1>6, <2>1, <2>2, <2>3
<1>10. \A u \in Landed' : /\ tick'[u].saw = tick'[u].id
                          /\ Says(decisions'[tick'[u].id], tick'[u].answer)
  BY <1>2, <1>4, <1>5, <1>6, <1>7 DEF DecisionInv
<1>11. \A u \in Signers : tick'[u].id <= tick'[u].saw /\ tick'[u].saw <= n'
  BY <1>1, <1>3, <1>5 DEF DecisionInv, Tick
<1> QED
  BY <1>1, <1>3, <1>4, <1>5, <1>8, <1>9, <1>10, <1>11 DEF DecisionInv

\* Nobody else touches the decisions or the ticks.
LEMMA DecisionStep == DecisionInv /\ [AgentNext]_<<vars, agent>> => DecisionInv'
<1> SUFFICES ASSUME DecisionInv, [AgentNext]_<<vars, agent>> PROVE DecisionInv'
  OBVIOUS
<1>1. CASE UNCHANGED <<tick, total_ai_decisions, decisions>>
  BY <1>1 DEF DecisionInv, Landed
<1>2. ASSUME NEW s \in Scripts, CheckVault(s) \/ CreateVault(s) \/ ScriptFails(s)
      PROVE  UNCHANGED <<tick, total_ai_decisions, decisions>>
  BY <1>2 DEF CheckVault, CreateVault, ScriptFails, vars, allocation
<1>3. ASSUME NEW t \in Ticks, StartTick(t) PROVE DecisionInv'
  BY <1>3, TickQuiet DEF Signers
<1>4. ASSUME NEW d \in Demos, NEW decision \in SCRIPTED, StartDemo(d, decision)
      PROVE  DecisionInv'
  BY <1>4, TickQuiet DEF Signers
<1>5. ASSUME NEW t \in Signers, TickStep(t) \/ TickThrows(t) PROVE DecisionInv'
  BY <1>5, TickQuiet, LandStep DEF TickStep
<1>6. CASE (UserNext \/ AdminNext) /\ UNCHANGED agent
  <2>1. UserNext => UNCHANGED allocation
    BY DEF UserNext, Deposit, Withdraw
  <2>2. AdminNext => UNCHANGED allocation
    BY DEF AdminNext, SetAiOracle, SetPaused
  <2> QED BY <1>1, <1>6, <2>1, <2>2 DEF agent, allocation
<1>7. CASE UNCHANGED <<vars, agent>>
  BY <1>1, <1>7 DEF vars, agent, allocation
<1> QED
  BY <1>1, <1>2, <1>3, <1>4, <1>5, <1>6, <1>7 DEF AgentNext

\* The invariant the theorems below are parts of.
LEMMA DecisionAlways == AgentSpec => []DecisionInv
<1>1. AgentInit => DecisionInv
  <2> SUFFICES ASSUME AgentInit PROVE DecisionInv
    OBVIOUS
  <2>1. total_ai_decisions = 0 /\ DOMAIN decisions = {}
    BY DEF AgentInit, Init
  <2>2. tick = [t \in Signers |-> At("idle")]
    BY DEF AgentInit
  <2>3. At("idle") \in Tick /\ At("idle").pc = "idle" /\ At("idle").id = 0 /\ At("idle").saw = 0
    BY DEF At, Tick, Pcs
  <2>4. Landed = {}
    BY <2>2, <2>3 DEF Landed
  <2>5. IsFiniteSet(Landed) /\ Cardinality(Landed) = 0
    BY <2>4, FS_EmptySet
  <2> QED BY <2>1, <2>2, <2>3, <2>4, <2>5 DEF DecisionInv
<1> QED BY <1>1, DecisionStep, PTL DEF AgentSpec

\* What every tick and script holds keeps its type, and no counter read from
\* the chain is ahead of the chain's.
THEOREM AgentTypeCorrect == AgentSpec => []AgentTypeOK
<1>1. DecisionInv => \A t \in Signers : tick[t].pc \in Pcs
  BY DEF DecisionInv, Tick
<1>2. ScriptInv /\ DecisionInv => AgentTypeOK
  BY <1>1 DEF ScriptInv, DecisionInv, AgentTypeOK, Pcs
<1> QED BY <1>2, ScriptAlways, DecisionAlways, PTL

\* However the ticks and demo runs overlap, and whatever lands late, every
\* decision of the vault is of one of them alone.
THEOREM AlwaysOneDecisionPerTick == AgentSpec => []OneDecisionPerTick
<1>1. DecisionInv => OneDecisionPerTick
  BY DEF DecisionInv, OneDecisionPerTick
<1> QED BY <1>1, DecisionAlways, PTL

\* No decision signed before another one lands after it.
THEOREM AlwaysLandsOnLatest == AgentSpec => []LandsOnLatestDecision
<1>1. DecisionInv => LandsOnLatestDecision
  BY DEF DecisionInv, LandsOnLatestDecision
<1> QED BY <1>1, DecisionAlways, PTL

\* A decision account says what the model answered, if that is in the schema
\* of the prompt, for as long as the vault lives.
THEOREM AnswersAlwaysKept == AgentSpec => []AnswersKeptOnChain
<1>1. DecisionInv => AnswersKeptOnChain
  BY DEF DecisionInv, AnswersKeptOnChain, Says
<1> QED BY <1>1, DecisionAlways, PTL

=============================================================================
