--------------------------- MODULE TreasuryProofs ---------------------------
(***************************************************************************)
(* The treasury's safety for any number of keys and mints, any rates under *)
(* any cap, and any width of its integers.                                 *)
(***************************************************************************)
EXTENDS Treasury, TLAPS

-----------------------------------------------------------------------------
(* Arithmetic of fees                                                      *)

\* What truncating division leaves.
LEMMA Quotient ==
  ASSUME NEW a \in Nat, NEW d \in Nat \ {0}
  PROVE  /\ a \div d \in Nat
         /\ (a \div d) * d <= a
         /\ a < (a \div d + 1) * d
  OBVIOUS

\* Products of naturals are natural.
LEMMA ProductNat == \A a \in Nat, b \in Nat : a * b \in Nat
  OBVIOUS

\* A product grows with either factor.
LEMMA ProductMonotone ==
  ASSUME NEW a \in Nat, NEW b \in Nat, NEW c \in Nat, b <= c
  PROVE  a * b <= a * c /\ b * a <= c * a
  OBVIOUS

\* A common positive factor can be cancelled.
LEMMA Cancel ==
  ASSUME NEW a \in Nat, NEW b \in Nat, NEW d \in Nat \ {0}, a * d <= b * d
  PROVE  a <= b
  OBVIOUS

\* The truncating cast never adds, and keeps what fits.
LEMMA CastRange ==
  ASSUME NEW n \in Nat
  PROVE  AsU64(n) \in U64 /\ AsU64(n) <= n /\ (n \in U64 => AsU64(n) = n)
  BY AmountsAssumption DEF AsU64, U64

\* A fee is the exact share rounded down, in u64, and within the cap.
LEMMA FeeArithmetic ==
  ASSUME TypeOK, NEW op \in Ops, NEW amount \in U64
  PROVE  LET fee == CalculateFee(op, amount) IN
         /\ fee \in U64
         /\ fee * BPS_DENOMINATOR <= amount * fee_bps[op]
         /\ amount * fee_bps[op] < (fee + 1) * BPS_DENOMINATOR
         /\ fee * BPS_DENOMINATOR <= amount * MAX_FEE_BPS
<1> DEFINE d == BPS_DENOMINATOR
           r == fee_bps[op]
           q == (amount * r) \div d
<1>1. amount \in Nat /\ r \in Nat /\ r <= MAX_FEE_BPS /\ MAX_FEE_BPS \in Nat
        /\ MAX_FEE_BPS <= d /\ d \in Nat \ {0}
  BY RatesAssumption, AmountsAssumption DEF TypeOK, U64
<1> HIDE DEF d, r
<1>2. amount * r \in Nat /\ amount * MAX_FEE_BPS \in Nat
  BY <1>1, ProductNat
<1>3. q \in Nat /\ q * d <= amount * r /\ amount * r < (q + 1) * d
  BY <1>1, <1>2, Quotient
<1>4. amount * r <= amount * MAX_FEE_BPS /\ amount * MAX_FEE_BPS <= amount * d
  BY <1>1, ProductMonotone
<1> HIDE DEF q
<1>5. q * d \in Nat /\ amount * d \in Nat
  BY <1>1, <1>3, ProductNat
<1>6. q * d <= amount * d
  BY <1>2, <1>3, <1>4, <1>5
<1>7. q <= amount
  BY <1>1, <1>3, <1>6, Cancel
<1>8. q \in U64
  BY <1>1, <1>3, <1>7, AmountsAssumption DEF U64
<1>9. CalculateFee(op, amount) = q
  BY <1>3, <1>8, CastRange DEF CalculateFee, q, r, d
<1>10. q * d <= amount * MAX_FEE_BPS
  BY <1>2, <1>3, <1>4, <1>5
<1> QED
  BY <1>3, <1>8, <1>9, <1>10 DEF d, r

-----------------------------------------------------------------------------
(* Type correctness                                                        *)

\* Signing a fee keeps every field in its type.
LEMMA SignFeeType ==
  ASSUME TypeOK, NEW k \in Payers, NEW tx \in FeeTransaction, SignFee(k, tx)
  PROVE  TypeOK'
  BY DEF TypeOK, SignFee, roles, trail

\* So does a fee that lands: a payer has what it pays.
LEMMA LandFeeType ==
  ASSUME TypeOK, NEW k \in Payers, LandFee(k)
  PROVE  TypeOK'
<1>1. PICK tx \in signed[k] :
        /\ FeeAccepted(k, tx)
        /\ tokens' = Transferred(k, tx, CalculateFee(tx.op, tx.amount))
        /\ total_fees_collected' = total_fees_collected + CalculateFee(tx.op, tx.amount)
        /\ signed' = [signed EXCEPT ![k] = {}]
        /\ UNCHANGED <<roles, fee_bps, paused, trail>>
  BY DEF LandFee
<1> DEFINE fee == CalculateFee(tx.op, tx.amount)
<1>2. tx \in FeeTransaction
  BY DEF TypeOK
<1>3. fee \in U64
  BY <1>2, FeeArithmetic DEF FeeTransaction
<1>4. total_fees_collected' \in U64 /\ fee \in Nat /\ fee <= tokens[<<k, tx.mint>>]
  BY <1>1, <1>3, AmountsAssumption DEF TypeOK, U64, FeeAccepted
<1> HIDE DEF fee
<1>5. <<k, tx.mint>> \in Keys \X Mints /\ <<tx.owner, tx.mint>> \in Keys \X Mints
  BY <1>2, KeysAssumption DEF FeeTransaction
<1>6. tokens' \in [Keys \X Mints -> Nat]
  <2>1. tokens' = [tokens EXCEPT ![<<k, tx.mint>>] = @ - fee,
                                 ![<<tx.owner, tx.mint>>] = @ + fee]
    BY <1>1 DEF Transferred, fee
  <2>2. tokens[<<k, tx.mint>>] - fee \in Nat
    BY <1>4, <1>5 DEF TypeOK
  <2>3. [tokens EXCEPT ![<<k, tx.mint>>] = @ - fee] \in [Keys \X Mints -> Nat]
    BY <2>2 DEF TypeOK
  <2> QED BY <2>1, <2>3, <1>4, <1>5
<1> QED
  BY <1>1, <1>4, <1>6 DEF TypeOK, roles, trail

\* And a fee transaction that is dropped.
LEMMA DropFeeType ==
  ASSUME TypeOK, NEW k \in Payers, DropFee(k)
  PROVE  TypeOK'
  BY DEF TypeOK, DropFee, roles, trail

\* New rates that respect the cap leave rates that do.
LEMMA RatesType ==
  ASSUME TypeOK, NEW given \in RateArgs, NewRates(given)
  PROVE  WithRates(given) \in [Ops -> 0..MAX_FEE_BPS]
<1>1. PICK ops \in {{"save"}, {"borrow", "swap"}}, rate \in Rates :
        given = [op \in ops |-> rate]
  BY DEF RateArgs
<1>2. \A op \in DOMAIN given : given[op] = rate /\ rate \in Nat
  BY <1>1, RatesAssumption
<1>3. \A op \in DOMAIN given : given[op] \in 0..MAX_FEE_BPS
  BY <1>2, RatesAssumption DEF NewRates
<1> QED
  BY <1>3 DEF TypeOK, WithRates

\* The admin's change of rates,
LEMMA UpdateFeesType ==
  ASSUME TypeOK, NEW signer \in Keys, NEW given \in RateArgs, UpdateFees(signer, given)
  PROVE  TypeOK'
  BY RatesType DEF TypeOK, UpdateFees, roles, trail, money

\* the oracle's, which takes the next decision number,
LEMMA AiUpdateFeesType ==
  ASSUME TypeOK, NEW signer \in Keys, NEW given \in RateArgs, NEW confidence \in Confidences,
         AiUpdateFees(signer, given, confidence)
  PROVE  TypeOK'
<1>1. fee_bps' \in [Ops -> 0..MAX_FEE_BPS]
  BY RatesType DEF AiUpdateFees
<1>2. total_ai_decisions' \in 0..MaxDecisions
        /\ DOMAIN decisions' \subseteq 0..(total_ai_decisions' - 1)
  BY AmountsAssumption DEF TypeOK, AiUpdateFees
<1> QED
  BY <1>1, <1>2 DEF TypeOK, AiUpdateFees, roles, money

\* a recorded decision, which opens the next account,
LEMMA RecordAiDecisionType ==
  ASSUME TypeOK, NEW signer \in Keys, NEW type \in DecisionTypes, NEW confidence \in Confidences,
         RecordAiDecision(signer, type, confidence)
  PROVE  TypeOK'
<1> DEFINE id == total_ai_decisions
           decision == [oracle |-> signer, decision_type |-> type, confidence |-> confidence]
<1>1. /\ decision \in Decision
      /\ id \in 0..MaxDecisions /\ id < MaxDecisions
      /\ decisions' = [i \in DOMAIN decisions \cup {id} |->
                         IF i = id THEN decision ELSE decisions[i]]
      /\ total_ai_decisions' = id + 1
  BY DEF RecordAiDecision, TypeOK, Decision
<1> HIDE DEF decision
<1>2. total_ai_decisions' \in 0..MaxDecisions
        /\ DOMAIN decisions' \subseteq 0..(total_ai_decisions' - 1)
  BY <1>1, AmountsAssumption DEF TypeOK
<1>3. \A i \in DOMAIN decisions' : decisions'[i] \in Decision
  BY <1>1 DEF TypeOK
<1> QED
  BY <1>2, <1>3 DEF TypeOK, RecordAiDecision, roles, money

\* and the admin's other instructions.
LEMMA AdminType ==
  ASSUME TypeOK, NEW signer \in Keys, NEW new \in Keys, NEW value \in BOOLEAN,
         \/ SetAiOracle(signer, new) \/ UpdateTreasury(signer, new)
         \/ TransferAdmin(signer, new) \/ SetPaused(signer, value)
  PROVE  TypeOK'
  BY DEF TypeOK, SetAiOracle, UpdateTreasury, TransferAdmin, SetPaused, roles, trail, money

\* The treasury starts in type.
LEMMA InitType == Init => TypeOK
<1> SUFFICES ASSUME Init PROVE TypeOK
  OBVIOUS
<1>1. fee_bps \in [Ops -> 0..MAX_FEE_BPS] /\ tokens \in [Keys \X Mints -> Nat]
  BY RatesAssumption, KeysAssumption DEF Init
<1>2. DOMAIN decisions = {} /\ 0 \in U64 /\ 0 \in 0..MaxDecisions
  BY AmountsAssumption DEF Init, U64
<1> QED
  BY <1>1, <1>2, KeysAssumption DEF Init, TypeOK

\* The two kinds of steps, with the inputs they are given.
LEMMA FeeSteps ==
  ASSUME TypeOK, FeeNext
  PROVE  \E k \in Payers :
           \/ \E tx \in FeeTransaction : SignFee(k, tx)
           \/ LandFee(k)
           \/ DropFee(k)
<1>1. PICK k \in Payers :
        \/ \E op \in Ops, amount \in Amounts : CollectFee(k, op, amount)
        \/ \E amount \in Amounts, mint \in Mints, owner \in Keys :
              SignFee(k, [op |-> "save", amount |-> amount, mint |-> mint, owner |-> owner])
        \/ LandFee(k)
        \/ DropFee(k)
  BY DEF FeeNext
<1>2. ASSUME NEW op \in Ops, NEW amount \in Amounts, CollectFee(k, op, amount)
      PROVE  \E tx \in FeeTransaction : SignFee(k, tx)
  <2> DEFINE tx == [op |-> op, amount |-> amount, mint |-> FeeMint, owner |-> TREASURY_WALLET]
  <2>1. tx \in FeeTransaction
    BY AmountsAssumption, KeysAssumption DEF FeeTransaction
  <2> QED BY <1>2, <2>1 DEF CollectFee
<1>3. ASSUME NEW amount \in Amounts, NEW mint \in Mints, NEW owner \in Keys,
             SignFee(k, [op |-> "save", amount |-> amount, mint |-> mint, owner |-> owner])
      PROVE  \E tx \in FeeTransaction : SignFee(k, tx)
  <2> DEFINE tx == [op |-> "save", amount |-> amount, mint |-> mint, owner |-> owner]
  <2>1. tx \in FeeTransaction
    BY AmountsAssumption DEF FeeTransaction, Ops
  <2> QED BY <1>3, <2>1
<1> QED BY <1>1, <1>2, <1>3

\* Every step keeps the types: TypeOK is inductive as it stands.
LEMMA TypeStep == TypeOK /\ [Next]_vars => TypeOK'
<1> SUFFICES ASSUME TypeOK, [Next]_vars PROVE TypeOK'
  OBVIOUS
<1>1. CASE FeeNext
  BY <1>1, FeeSteps, SignFeeType, LandFeeType, DropFeeType
<1>2. CASE RoleNext
  BY <1>2, UpdateFeesType, AiUpdateFeesType, RecordAiDecisionType, AdminType DEF RoleNext
<1>3. CASE UNCHANGED vars
  BY <1>3 DEF TypeOK, vars, roles, trail, money
<1> QED BY <1>1, <1>2, <1>3 DEF Next

\* Every field keeps the range of its Rust type, for any bound of u64.
THEOREM TypeCorrect == Spec => []TypeOK
  BY InitType, TypeStep, PTL DEF Spec

\* The cast from u128 to u64 never cuts a fee short, whatever the rates.
THEOREM FeesAlwaysExact == Spec => []FeeExact
<1>1. TypeOK => FeeExact
  BY FeeArithmetic DEF FeeExact
<1> QED BY <1>1, TypeCorrect, PTL

-----------------------------------------------------------------------------
(* What a payer can be charged                                             *)

\* The one step that moves tokens takes a fee of what its payer signed.
LEMMA LandFeeCapped ==
  ASSUME TypeOK, NEW payer \in Payers, LandFee(payer), NEW k \in Keys, NEW m \in Mints
  PROVE  /\ tokens'[<<k, m>>] < tokens[<<k, m>>] =>
              k \in Payers /\ \E tx \in signed[k] :
                 /\ tx.mint = m
                 /\ (tokens[<<k, m>>] - tokens'[<<k, m>>]) * BPS_DENOMINATOR
                      <= tx.amount * MAX_FEE_BPS
         /\ tokens'[<<k, m>>] > tokens[<<k, m>>] => k = treasury
<1>1. PICK tx \in signed[payer] :
        /\ FeeAccepted(payer, tx)
        /\ tokens' = Transferred(payer, tx, CalculateFee(tx.op, tx.amount))
  BY DEF LandFee
<1> DEFINE fee == CalculateFee(tx.op, tx.amount)
           spent == <<payer, tx.mint>>
           gained == <<tx.owner, tx.mint>>
           here == <<k, m>>
<1>2. tx \in FeeTransaction
  BY DEF TypeOK
<1>3. fee \in Nat /\ fee * BPS_DENOMINATOR <= tx.amount * MAX_FEE_BPS
  BY <1>2, FeeArithmetic, AmountsAssumption DEF FeeTransaction, U64
<1> HIDE DEF fee
<1>4. /\ spent \in Keys \X Mints /\ gained \in Keys \X Mints /\ here \in Keys \X Mints
      /\ tx.owner = treasury
      /\ tokens \in [Keys \X Mints -> Nat]
  BY <1>1, <1>2, KeysAssumption DEF FeeTransaction, FeeAccepted, TypeOK
<1>5. tokens' = [tokens EXCEPT ![spent] = @ - fee, ![gained] = @ + fee]
  BY <1>1 DEF Transferred, fee
<1>6. CASE spent = gained
  <2>1. tokens'[here] = tokens[here]
    BY <1>3, <1>4, <1>5, <1>6
  <2> QED BY <2>1, <1>4
<1>7. CASE spent # gained /\ here = spent
  <2>1. tokens[here] \in Nat /\ tokens'[here] = tokens[here] - fee
    BY <1>3, <1>4, <1>5, <1>7
  <2>2. k = payer /\ m = tx.mint /\ tokens[here] - tokens'[here] = fee
    BY <2>1, <1>3, <1>7
  <2> QED BY <2>1, <2>2, <1>1, <1>3
<1>8. CASE spent # gained /\ here = gained
  <2>1. tokens[here] \in Nat /\ tokens'[here] = tokens[here] + fee
    BY <1>3, <1>4, <1>5, <1>8
  <2>2. k = treasury
    BY <1>4, <1>8
  <2> QED BY <2>1, <2>2, <1>3
<1>9. CASE here # spent /\ here # gained
  <2>1. tokens[here] \in Nat /\ tokens'[here] = tokens[here]
    BY <1>4, <1>5, <1>9
  <2> QED BY <2>1
<1> QED BY <1>6, <1>7, <1>8, <1>9

\* Whatever happens between signing and landing, no payer is charged more
\* than the cap's share of the amount it signed, and only the treasury gains.
THEOREM ChargesAlwaysCapped == Spec => ChargeCapped
<1> DEFINE Capped ==
      \A k \in Keys, m \in Mints :
         /\ tokens'[<<k, m>>] < tokens[<<k, m>>] =>
              k \in Payers /\ \E tx \in signed[k] :
                 /\ tx.mint = m
                 /\ (tokens[<<k, m>>] - tokens'[<<k, m>>]) * BPS_DENOMINATOR
                      <= tx.amount * MAX_FEE_BPS
         /\ tokens'[<<k, m>>] > tokens[<<k, m>>] => k = treasury
<1>1. ASSUME TypeOK, Next PROVE Capped
  <2>1. CASE tokens' = tokens
    <3>1. \A k \in Keys, m \in Mints : tokens[<<k, m>>] \in Nat
      BY <1>1 DEF TypeOK
    <3>2. \A n \in Nat : ~(n < n)
      OBVIOUS
    <3> QED BY <2>1, <3>1, <3>2, Zenon
  <2>2. CASE \E payer \in Payers : LandFee(payer)
    BY <1>1, <2>2, LandFeeCapped
  <2>3. CASE FeeNext
    BY <1>1, <2>1, <2>2, <2>3, FeeSteps DEF SignFee, DropFee
  <2>4. CASE RoleNext
    BY <2>1, <2>4 DEF RoleNext, UpdateFees, AiUpdateFees, RecordAiDecision,
       SetAiOracle, UpdateTreasury, SetPaused, TransferAdmin, money
  <2> QED BY <1>1, <2>3, <2>4 DEF Next
<1> HIDE DEF Capped
<1>2. TypeOK /\ [Next]_vars => [Capped]_vars
  BY <1>1
<1>3. Spec => [][Capped]_vars
  BY <1>2, TypeCorrect, PTL DEF Spec
<1> QED BY <1>3 DEF ChargeCapped, Capped

-----------------------------------------------------------------------------
(* The trail of decisions                                                  *)

RateEvent == [id : Nat, by : Keys, old : [Ops -> 0..MAX_FEE_BPS], new : [Ops -> 0..MAX_FEE_BPS]]
DecisionEvent == [id : Nat, by : Keys, decision : Decision]

\* The events are a sequence, as long as the counter.
TrailInv ==
    /\ announced \in Seq(RateEvent \cup DecisionEvent)
    /\ Len(announced) = total_ai_decisions

\* What one more event does to a sequence.
LEMMA AppendOne ==
  ASSUME NEW S, NEW seq \in Seq(S), NEW e \in S
  PROVE  /\ Append(seq, e) \in Seq(S)
         /\ Len(Append(seq, e)) = Len(seq) + 1
         /\ \A n \in 1..Len(seq) : Append(seq, e)[n] = seq[n]
         /\ Append(seq, e)[Len(seq) + 1] = e
         /\ Len(seq) \in Nat
  OBVIOUS

\* The two kinds of events can be told apart by their fields.
LEMMA EventFields ==
  /\ \A e \in RateEvent : "old" \in DOMAIN e
  /\ \A e \in DecisionEvent : "decision" \in DOMAIN e /\ "old" \notin DOMAIN e
  BY DEF RateEvent, DecisionEvent

\* The event of a change of rates, and what else the step does to the trail.
LEMMA RatesAnnounced ==
  ASSUME TypeOK, TrailInv, NEW signer \in Keys, NEW given \in RateArgs,
         NEW confidence \in Confidences, AiUpdateFees(signer, given, confidence)
  PROVE  \E e \in RateEvent :
           /\ announced' = Append(announced, e)
           /\ e.id = total_ai_decisions + 1 /\ e.by = ai_oracle
           /\ e.old = fee_bps /\ e.new = fee_bps'
           /\ total_ai_decisions' = total_ai_decisions + 1
           /\ decisions' = decisions
<1> DEFINE e == [id |-> total_ai_decisions + 1, by |-> signer, old |-> fee_bps, new |-> fee_bps']
<1>1. fee_bps' \in [Ops -> 0..MAX_FEE_BPS]
  BY RatesType DEF AiUpdateFees
<1>2. e \in RateEvent
  BY <1>1, AmountsAssumption DEF RateEvent, TypeOK
<1> QED BY <1>2 DEF AiUpdateFees

\* The event of a decision account, likewise.
LEMMA DecisionAnnounced ==
  ASSUME TypeOK, TrailInv, NEW signer \in Keys, NEW type \in DecisionTypes,
         NEW confidence \in Confidences, RecordAiDecision(signer, type, confidence)
  PROVE  \E e \in DecisionEvent :
           /\ announced' = Append(announced, e)
           /\ e.id = total_ai_decisions /\ e.by = ai_oracle
           /\ total_ai_decisions' = total_ai_decisions + 1
           /\ decisions' = [i \in DOMAIN decisions \cup {total_ai_decisions} |->
                              IF i = total_ai_decisions THEN e.decision ELSE decisions[i]]
           /\ UNCHANGED fee_bps
<1> DEFINE decision == [oracle |-> signer, decision_type |-> type, confidence |-> confidence]
           e == [id |-> total_ai_decisions, by |-> signer, decision |-> decision]
<1>1. decision \in Decision
  BY DEF RecordAiDecision, Decision
<1>2. e \in DecisionEvent
  BY <1>1, AmountsAssumption DEF DecisionEvent, TypeOK
<1>3. e.decision = decision
  OBVIOUS
<1> QED BY <1>2, <1>3 DEF RecordAiDecision

\* No other step touches the trail.
TrailKept == UNCHANGED <<total_ai_decisions, decisions, announced>>

\* A step announces rates, records a decision, or leaves the trail.
LEMMA TrailSteps ==
  ASSUME TypeOK, Next
  PROVE  \/ \E signer \in Keys, given \in RateArgs, confidence \in Confidences :
               AiUpdateFees(signer, given, confidence)
         \/ \E signer \in Keys, type \in DecisionTypes, confidence \in Confidences :
               RecordAiDecision(signer, type, confidence)
         \/ TrailKept
<1>1. CASE FeeNext
  BY <1>1, FeeSteps DEF SignFee, LandFee, DropFee, trail, TrailKept
<1>2. CASE RoleNext
  BY <1>2 DEF RoleNext, UpdateFees, SetAiOracle, UpdateTreasury, SetPaused, TransferAdmin,
     trail, TrailKept
<1> QED BY <1>1, <1>2 DEF Next

\* The events stay a sequence as long as the counter.
LEMMA TrailStep == TypeOK /\ TrailInv /\ [Next]_vars => TrailInv'
<1> SUFFICES ASSUME TypeOK, TrailInv, [Next]_vars PROVE TrailInv'
  OBVIOUS
<1> DEFINE Event == RateEvent \cup DecisionEvent
<1>1. ASSUME NEW e \in Event, announced' = Append(announced, e),
             total_ai_decisions' = total_ai_decisions + 1
      PROVE  TrailInv'
  BY <1>1, AppendOne DEF TrailInv
<1>2. CASE TrailKept
  BY <1>2 DEF TrailKept, TrailInv
<1>3. CASE UNCHANGED vars
  BY <1>3 DEF vars, trail, TrailInv
<1> HIDE DEF Event
<1>4. RateEvent \subseteq Event /\ DecisionEvent \subseteq Event
  BY DEF Event
<1> QED BY <1>1, <1>2, <1>3, <1>4, TrailSteps, RatesAnnounced, DecisionAnnounced

\* What the theorems about the trail rest on.
LEMMA TrailAlways == Spec => [](TypeOK /\ TrailInv)
<1>1. Init => TrailInv
  BY DEF Init, TrailInv
<1> QED BY <1>1, TrailStep, TypeCorrect, PTL DEF Spec

\* The oracle's changes of rates leave events that can be trusted: in order,
\* kept, by the oracle of that moment, with the rates before and after.
THEOREM FeeChangesAlwaysAnnounced == Spec => FeeChangesAnnounced
<1> DEFINE Announced ==
      /\ Len(announced') - Len(announced) = total_ai_decisions' - total_ai_decisions
      /\ \A n \in 1..Len(announced) : announced'[n] = announced[n]
      /\ \A n \in (Len(announced) + 1)..Len(announced') :
            /\ announced'[n].by = ai_oracle
            /\ "old" \in DOMAIN announced'[n] =>
                 announced'[n].old = fee_bps /\ announced'[n].new = fee_bps'
<1>1. ASSUME TypeOK, TrailInv, Next PROVE Announced
  <2> DEFINE Event == RateEvent \cup DecisionEvent
             Told(e) == /\ e.by = ai_oracle
                        /\ "old" \in DOMAIN e => e.old = fee_bps /\ e.new = fee_bps'
  <2>1. ASSUME NEW e \in Event, announced' = Append(announced, e), Told(e),
               total_ai_decisions' = total_ai_decisions + 1
        PROVE  Announced
    <3> HIDE DEF Event, Told
    <3>1. announced \in Seq(Event) /\ total_ai_decisions \in Nat
      BY <1>1, AmountsAssumption DEF Event, TrailInv, TypeOK
    <3>2. /\ Len(announced) \in Nat
          /\ Len(announced') = Len(announced) + 1
          /\ \A n \in 1..Len(announced) : announced'[n] = announced[n]
          /\ announced'[Len(announced) + 1] = e
      BY <2>1, <3>1, AppendOne
    <3>3. ASSUME NEW n \in (Len(announced) + 1)..Len(announced')
          PROVE  announced'[n] = e
      BY <3>2, <3>3
    <3>4. Len(announced') - Len(announced) = total_ai_decisions' - total_ai_decisions
      BY <2>1, <3>1, <3>2
    <3> QED BY <2>1, <3>2, <3>3, <3>4, Zenon DEF Told
  <2>2. CASE TrailKept
    BY <1>1, <2>2, AmountsAssumption DEF TrailKept, TrailInv, TypeOK
  <2>3. ASSUME NEW signer \in Keys, NEW given \in RateArgs, NEW confidence \in Confidences,
               AiUpdateFees(signer, given, confidence)
        PROVE  Announced
    <3> HIDE DEF Announced
    <3> QED BY <1>1, <2>1, <2>3, RatesAnnounced
  <2>4. ASSUME NEW signer \in Keys, NEW type \in DecisionTypes, NEW confidence \in Confidences,
               RecordAiDecision(signer, type, confidence)
        PROVE  Announced
    <3> HIDE DEF Announced
    <3> QED BY <1>1, <2>1, <2>4, DecisionAnnounced, EventFields
  <2> QED BY <1>1, <2>2, <2>3, <2>4, TrailSteps
<1> HIDE DEF Announced
<1>2. TypeOK /\ TrailInv /\ [Next]_vars => [Announced]_vars
  BY <1>1
<1>3. Spec => [][Announced]_vars
  BY <1>2, TrailAlways, PTL DEF Spec
<1> QED BY <1>3 DEF FeeChangesAnnounced, Announced

\* With the rule that fee events count from one and decisions from zero, the
\* events number every decision once, and describe each account.
NumberedRight(n) ==
    LET event == announced[n] IN
    IF n - 1 \in DOMAIN decisions
    THEN /\ event.id = n - 1
         /\ "decision" \in DOMAIN event
         /\ event.decision = decisions[n - 1]
    ELSE event.id = n /\ "old" \in DOMAIN event

Numbered == \A n \in 1..total_ai_decisions : NumberedRight(n)

\* The events before the last one keep their numbers.
LEMMA NumberedKept ==
  ASSUME TypeOK, TrailInv, Numbered, NEW e \in RateEvent \cup DecisionEvent,
         announced' = Append(announced, e),
         \A i \in 0..(total_ai_decisions - 1) :
            /\ i \in DOMAIN decisions' <=> i \in DOMAIN decisions
            /\ i \in DOMAIN decisions => decisions'[i] = decisions[i],
         NEW n \in 1..total_ai_decisions
  PROVE  NumberedRight(n)'
<1>1. n - 1 \in 0..(total_ai_decisions - 1) /\ n \in 1..Len(announced)
  BY AmountsAssumption DEF TypeOK, TrailInv
<1>2. announced'[n] = announced[n]
  BY <1>1, AppendOne DEF TrailInv
<1>3. NumberedRight(n)
  BY DEF Numbered
<1> QED BY <1>1, <1>2, <1>3 DEF NumberedRight

\* Every step keeps the events numbered right: Numbered is inductive beside TypeOK
\* and TrailInv.
LEMMA NumberedStep ==
  ASSUME TypeOK, TrailInv, Numbered, [Next]_vars
  PROVE  Numbered'
<1> DEFINE total == total_ai_decisions
           Event == RateEvent \cup DecisionEvent
<1>1. total \in Nat /\ Len(announced) = total /\ DOMAIN decisions \subseteq 0..(total - 1)
  BY AmountsAssumption DEF TypeOK, TrailInv
<1>2. CASE TrailKept
  BY <1>2 DEF TrailKept, Numbered, NumberedRight
<1>3. CASE UNCHANGED vars
  BY <1>3 DEF vars, trail, Numbered, NumberedRight
<1>4. ASSUME NEW signer \in Keys, NEW given \in RateArgs, NEW confidence \in Confidences,
             AiUpdateFees(signer, given, confidence)
      PROVE  Numbered'
  <2>1. PICK e \in RateEvent :
          /\ announced' = Append(announced, e) /\ e.id = total + 1
          /\ total' = total + 1 /\ decisions' = decisions
    BY <1>4, RatesAnnounced
  <2>2. announced'[total + 1] = e
    BY <1>1, <2>1, AppendOne DEF TrailInv
  <2>3. total + 1 - 1 \notin DOMAIN decisions'
    BY <1>1, <2>1
  <2>4. ASSUME NEW n \in Nat, n = total + 1 PROVE NumberedRight(n)'
    BY <1>1, <2>1, <2>2, <2>3, <2>4, EventFields DEF NumberedRight
  <2>5. \A n \in 1..total : NumberedRight(n)'
    BY <2>1, NumberedKept
  <2>6. \A n \in 1..(total + 1) : NumberedRight(n)'
    BY <1>1, <2>4, <2>5
  <2> QED BY <2>1, <2>6 DEF Numbered
<1>5. ASSUME NEW signer \in Keys, NEW type \in DecisionTypes, NEW confidence \in Confidences,
             RecordAiDecision(signer, type, confidence)
      PROVE  Numbered'
  <2>1. PICK e \in DecisionEvent :
          /\ announced' = Append(announced, e) /\ e.id = total
          /\ total' = total + 1
          /\ decisions' = [i \in DOMAIN decisions \cup {total} |->
                              IF i = total THEN e.decision ELSE decisions[i]]
    BY <1>5, DecisionAnnounced
  <2>2. announced'[total + 1] = e
    BY <1>1, <2>1, AppendOne DEF TrailInv
  <2>3. total \in DOMAIN decisions' /\ decisions'[total] = e.decision /\ total + 1 - 1 = total
    BY <1>1, <2>1
  <2>4. ASSUME NEW n \in Nat, n = total + 1 PROVE NumberedRight(n)'
    BY <1>1, <2>1, <2>2, <2>3, <2>4, EventFields DEF NumberedRight
  <2>5. \A i \in 0..(total - 1) :
          /\ i \in DOMAIN decisions' <=> i \in DOMAIN decisions
          /\ i \in DOMAIN decisions => decisions'[i] = decisions[i]
    BY <1>1, <2>1
  <2>6. \A n \in 1..total : NumberedRight(n)'
    BY <2>1, <2>5, NumberedKept
  <2>7. \A n \in 1..(total + 1) : NumberedRight(n)'
    BY <1>1, <2>4, <2>6
  <2> QED BY <2>1, <2>7 DEF Numbered
<1> QED BY <1>2, <1>3, <1>4, <1>5, TrailSteps

\* Whoever reads the events can tell every decision by its number, and what its
\* account holds.
THEOREM TrailAlwaysNumbers == Spec => []TrailNumbersEachDecision
<1>1. Init => Numbered
  BY DEF Init, Numbered
<1>2. TypeOK /\ TrailInv /\ Numbered /\ [Next]_vars => Numbered'
  BY NumberedStep
<1>3. TrailInv /\ Numbered => TrailNumbersEachDecision
  BY DEF TrailInv, Numbered, NumberedRight, TrailNumbersEachDecision
<1> QED BY <1>1, <1>2, <1>3, TrailAlways, PTL DEF Spec

=============================================================================
