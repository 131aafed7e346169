------------------------------ MODULE Treasury ------------------------------
(***************************************************************************)
(* The fee treasury of contracts/programs/contracts: one config account    *)
(* that charges fees on save, borrow and swap operations, an AI oracle     *)
(* that changes the rates and leaves decision accounts, and an admin. The  *)
(* SDK's treasury.ts signs a fee transaction at one time and the cluster   *)
(* executes it at another, if at all: the config may change in between.    *)
(*                                                                         *)
(* A transaction is atomic: an instruction that fails changes nothing.     *)
(* Events are kept in the order they are emitted, without hashes and times.*)
(* Definitions named X_Y are X with a plausible mistake Y in it.           *)
(***************************************************************************)
EXTENDS Integers, Sequences

CONSTANTS
    Keys,             \* public keys: payers, the admin, oracles, treasuries
    Payers,           \* those of them that sign fee transactions
    Deployer,         \* the admin that calls initialize
    TREASURY_WALLET,  \* the treasury the SDK was compiled with
    Mints, FeeMint,   \* token mints; the one the SDK charges in
    Funds,            \* Funds[<<k, m>>]: tokens of mint m held by key k
    Amounts,          \* amounts fees are charged on
    Rates,            \* fee rates tried, in basis points
    StartRates,       \* SAVE_FEE_BPS, BORROW_FEE_BPS, SWAP_FEE_BPS
    BPS_DENOMINATOR, MAX_FEE_BPS,
    U64Max,           \* u64::MAX, scaled down
    MaxDecisions      \* bound on the decision counter

MIN_AI_CONFIDENCE == 70

Ops == {"save", "borrow", "swap"}
U64 == 0..U64Max

\* Arguments on both sides of each limit.
Confidences == {69, 70, 101}
DecisionTypes == {0, 5}

ASSUME RatesAssumption ==
    /\ BPS_DENOMINATOR \in Nat \ {0}
    /\ MAX_FEE_BPS \in 0..BPS_DENOMINATOR
    /\ Rates \subseteq Nat
    /\ StartRates \in [Ops -> 0..MAX_FEE_BPS]
ASSUME AmountsAssumption == U64Max \in Nat /\ Amounts \subseteq U64 /\ MaxDecisions \in Nat
ASSUME KeysAssumption ==
    /\ Payers \subseteq Keys /\ Deployer \in Keys
    /\ TREASURY_WALLET \in Keys /\ FeeMint \in Mints
    /\ Funds \in [Keys \X Mints -> Nat]

VARIABLES
    \* TreasuryConfig
    admin, treasury, ai_oracle, fee_bps, paused,
    total_fees_collected, total_ai_decisions,
    decisions,  \* the AiDecision accounts, by the id that seeds their address
    announced,  \* the events, in order
    tokens,     \* the token account of each key and mint
    signed      \* signed[k]: fee transactions of k that may still land

roles == <<admin, treasury, ai_oracle>>
trail == <<total_ai_decisions, decisions, announced>>
money == <<total_fees_collected, tokens, signed>>
vars == <<roles, fee_bps, paused, trail, money>>

FeeTransaction == [op : Ops, amount : U64, mint : Mints, owner : Keys]

Decision == [oracle : Keys, decision_type : 1..5, confidence : 0..100]

\* initialize: the deployer is admin and first oracle.
Init ==
    /\ admin = Deployer
    /\ treasury \in Keys
    /\ ai_oracle = Deployer
    /\ fee_bps = StartRates
    /\ paused = FALSE
    /\ total_fees_collected = 0
    /\ total_ai_decisions = 0
    /\ decisions = [id \in {} |-> 0]
    /\ announced = <<>>
    /\ tokens = Funds
    /\ signed = [k \in Payers |-> {}]

-----------------------------------------------------------------------------
(* Fees                                                                    *)

AsU64(n) == n % (U64Max + 1)

\* calculate_fee: a u128 product, a truncating division, a truncating cast.
CalculateFee(op, amount) == AsU64((amount * fee_bps[op]) \div BPS_DENOMINATOR)

\* Anybody can sign a fee transaction for any mint and any destination.
SignFee(k, tx) ==
    /\ signed[k] = {}
    /\ signed' = [signed EXCEPT ![k] = {tx}]
    /\ UNCHANGED <<roles, fee_bps, paused, trail, total_fees_collected, tokens>>

\* collectFee: the SDK signs for its own mint and its own treasury wallet.
CollectFee(k, op, amountRaw) ==
    SignFee(k, [op |-> op, amount |-> amountRaw, mint |-> FeeMint, owner |-> TREASURY_WALLET])

\* The account constraints of CollectFee and what the instruction requires.
FeeAccepted(k, tx) ==
    /\ tx.owner = treasury
    /\ ~paused
    /\ CalculateFee(tx.op, tx.amount) <= tokens[<<k, tx.mint>>]
    /\ total_fees_collected + CalculateFee(tx.op, tx.amount) <= U64Max

\* transfer_fee; a treasury that pays itself moves nothing.
Transferred(k, tx, fee) ==
    [tokens EXCEPT ![<<k, tx.mint>>] = @ - fee, ![<<tx.owner, tx.mint>>] = @ + fee]

LandFee_SignedOwnerPaid(k) ==
    \E tx \in signed[k] :
        LET fee == CalculateFee(tx.op, tx.amount) IN
        /\ FeeAccepted(k, [tx EXCEPT !.owner = treasury])
        /\ tokens' = Transferred(k, tx, fee)
        /\ total_fees_collected' = total_fees_collected + fee
        /\ signed' = [signed EXCEPT ![k] = {}]
        /\ UNCHANGED <<roles, fee_bps, paused, trail>>

\* collect_save_fee, collect_borrow_fee, collect_swap_fee: the transaction
\* lands and is charged at the rate of that moment. (A fee of zero returns
\* before the transfer, which changes nothing either way.)
LandFee(k) ==
    \E tx \in signed[k] :
        LET fee == CalculateFee(tx.op, tx.amount) IN
        /\ FeeAccepted(k, tx)
        /\ tokens' = Transferred(k, tx, fee)
        /\ total_fees_collected' = total_fees_collected + fee
        /\ signed' = [signed EXCEPT ![k] = {}]
        /\ UNCHANGED <<roles, fee_bps, paused, trail>>

\* The blockhash expires, or the transaction lands and fails.
DropFee(k) ==
    /\ signed[k] # {}
    /\ signed' = [signed EXCEPT ![k] = {}]
    /\ UNCHANGED <<roles, fee_bps, paused, trail, total_fees_collected, tokens>>

-----------------------------------------------------------------------------
(* Rates and decisions                                                     *)

\* The Option arguments that are Some must respect the cap, each of them.
NewRates(given) == \A op \in DOMAIN given : given[op] <= MAX_FEE_BPS

WithRates(given) == [op \in Ops |-> IF op \in DOMAIN given THEN given[op] ELSE fee_bps[op]]

AiUpdateFees_OldReadLate(signer, given, confidence) ==
    /\ signer = ai_oracle
    /\ confidence \in MIN_AI_CONFIDENCE..100
    /\ NewRates(given)
    /\ total_ai_decisions < MaxDecisions
    /\ fee_bps' = WithRates(given)
    /\ total_ai_decisions' = total_ai_decisions + 1
    /\ announced' = Append(announced,
         [id |-> total_ai_decisions', by |-> signer, old |-> fee_bps', new |-> fee_bps'])
    /\ UNCHANGED <<roles, paused, decisions, money>>

\* ai_update_fees: paused or not. Its event carries the counter after the
\* increment, and no account is left.
AiUpdateFees(signer, given, confidence) ==
    /\ signer = ai_oracle
    /\ confidence \in MIN_AI_CONFIDENCE..100
    /\ NewRates(given)
    /\ total_ai_decisions < MaxDecisions
    /\ fee_bps' = WithRates(given)
    /\ total_ai_decisions' = total_ai_decisions + 1
    /\ announced' = Append(announced,
         [id |-> total_ai_decisions', by |-> signer, old |-> fee_bps, new |-> fee_bps'])
    /\ UNCHANGED <<roles, paused, decisions, money>>

RecordAiDecision_AnnouncedAfter(signer, decision_type, confidence) ==
    LET id == total_ai_decisions
        decision == [oracle |-> signer, decision_type |-> decision_type,
                     confidence |-> confidence]
    IN
    /\ signer = ai_oracle /\ decision_type \in 1..5 /\ confidence \in 0..100
    /\ id < MaxDecisions /\ id \notin DOMAIN decisions
    /\ decisions' = [i \in DOMAIN decisions \cup {id} |->
                       IF i = id THEN decision ELSE decisions[i]]
    /\ total_ai_decisions' = id + 1
    /\ announced' = Append(announced, [id |-> id + 1, by |-> signer, decision |-> decision])
    /\ UNCHANGED <<roles, fee_bps, paused, money>>

\* record_ai_decision: the account is seeded with the counter before the
\* increment, and so is the event; any confidence up to 100 will do.
RecordAiDecision(signer, decision_type, confidence) ==
    LET id == total_ai_decisions
        decision == [oracle |-> signer, decision_type |-> decision_type,
                     confidence |-> confidence]
    IN
    /\ signer = ai_oracle /\ decision_type \in 1..5 /\ confidence \in 0..100
    /\ id < MaxDecisions /\ id \notin DOMAIN decisions
    /\ decisions' = [i \in DOMAIN decisions \cup {id} |->
                       IF i = id THEN decision ELSE decisions[i]]
    /\ total_ai_decisions' = id + 1
    /\ announced' = Append(announced, [id |-> id, by |-> signer, decision |-> decision])
    /\ UNCHANGED <<roles, fee_bps, paused, money>>

-----------------------------------------------------------------------------
(* The admin                                                               *)

UpdateFees(signer, given) ==
    /\ signer = admin
    /\ NewRates(given)
    /\ fee_bps' = WithRates(given)
    /\ UNCHANGED <<roles, paused, trail, money>>

SetAiOracle(signer, new_oracle) ==
    /\ signer = admin
    /\ ai_oracle' = new_oracle
    /\ UNCHANGED <<admin, treasury, fee_bps, paused, trail, money>>

UpdateTreasury(signer, new_treasury) ==
    /\ signer = admin
    /\ treasury' = new_treasury
    /\ UNCHANGED <<admin, ai_oracle, fee_bps, paused, trail, money>>

SetPaused(signer, value) ==
    /\ signer = admin
    /\ paused' = value
    /\ UNCHANGED <<roles, fee_bps, trail, money>>

\* transfer_admin: at once, the new admin is not asked.
TransferAdmin(signer, new_admin) ==
    /\ signer = admin
    /\ admin' = new_admin
    /\ UNCHANGED <<treasury, ai_oracle, fee_bps, paused, trail, money>>

-----------------------------------------------------------------------------

\* Option arguments: those that are Some, all of one rate.
RateArgs == {[op \in given |-> rate] : given \in {{"save"}, {"borrow", "swap"}}, rate \in Rates}

FeeNext ==
    \E k \in Payers :
        \/ \E op \in Ops, amount \in Amounts : CollectFee(k, op, amount)
        \/ \E amount \in Amounts, mint \in Mints, owner \in Keys :
              SignFee(k, [op |-> "save", amount |-> amount, mint |-> mint, owner |-> owner])
        \/ LandFee(k)
        \/ DropFee(k)

RoleNext ==
    \E k \in Keys :
        \/ \E given \in RateArgs :
              UpdateFees(k, given)
                \/ \E confidence \in Confidences : AiUpdateFees(k, given, confidence)
        \/ \E type \in DecisionTypes, confidence \in Confidences :
              RecordAiDecision(k, type, confidence)
        \/ \E new \in Keys :
              SetAiOracle(k, new) \/ UpdateTreasury(k, new) \/ TransferAdmin(k, new)
        \/ \E value \in BOOLEAN : SetPaused(k, value)

Next == FeeNext \/ RoleNext

Spec == Init /\ [][Next]_vars

-----------------------------------------------------------------------------
(* Properties                                                              *)

\* Every field keeps the range of its Rust type: the unchecked-looking sum of
\* collected fees never leaves u64 and no rate ever exceeds its cap.
TypeOK ==
    /\ admin \in Keys /\ treasury \in Keys /\ ai_oracle \in Keys
    /\ fee_bps \in [Ops -> 0..MAX_FEE_BPS]
    /\ paused \in BOOLEAN
    /\ total_fees_collected \in U64
    /\ total_ai_decisions \in 0..MaxDecisions
    /\ DOMAIN decisions \subseteq 0..(total_ai_decisions - 1)
    /\ \A id \in DOMAIN decisions : decisions[id] \in Decision
    /\ tokens \in [Keys \X Mints -> Nat]
    /\ signed \in [Payers -> SUBSET FeeTransaction]

\* Whatever rates the oracle and the admin have set, and for every amount of
\* the type, the fee is the exact share rounded down: the cast from u128 to
\* u64 in calculate_fee never cuts a fee short.
FeeExact ==
    \A op \in Ops, amount \in U64 :
        LET fee == CalculateFee(op, amount) IN
        /\ fee * BPS_DENOMINATOR <= amount * fee_bps[op]
        /\ amount * fee_bps[op] < (fee + 1) * BPS_DENOMINATOR

\* A payer signs an amount and never a fee, and rates and treasury may change
\* before the transaction lands: still no step takes from a key more than the
\* cap's share of the amount that key signed, nor credits any key but the
\* treasury of that moment.
ChargeCapped ==
    [][\A k \in Keys, m \in Mints :
         /\ tokens'[<<k, m>>] < tokens[<<k, m>>] =>
              k \in Payers /\ \E tx \in signed[k] :
                 /\ tx.mint = m
                 /\ (tokens[<<k, m>>] - tokens'[<<k, m>>]) * BPS_DENOMINATOR
                      <= tx.amount * MAX_FEE_BPS
         /\ tokens'[<<k, m>>] > tokens[<<k, m>>] => k = treasury]_vars

\* Two numberings share one counter: decision events carry the id of their
\* account and fee events one more. Read with that rule, the events name
\* every number handed out exactly once, in order, and every decision account
\* says what its event said.
TrailNumbersEachDecision ==
    /\ Len(announced) = total_ai_decisions
    /\ \A n \in 1..total_ai_decisions :
          LET event == announced[n] IN
          IF n - 1 \in DOMAIN decisions
          THEN /\ event.id = n - 1
               /\ "decision" \in DOMAIN event
               /\ event.decision = decisions[n - 1]
          ELSE event.id = n /\ "old" \in DOMAIN event

\* The trail of the oracle's rate changes can be trusted: an event appears
\* when the oracle changes rates, signed by the oracle of that moment, with
\* the rates it found and the rates it left; no event disappears, and
\* only events advance the counter.
FeeChangesAnnounced ==
    [][/\ Len(announced') - Len(announced) = total_ai_decisions' - total_ai_decisions
       /\ \A n \in 1..Len(announced) : announced'[n] = announced[n]
       /\ \A n \in (Len(announced) + 1)..Len(announced') :
             /\ announced'[n].by = ai_oracle
             /\ "old" \in DOMAIN announced'[n] =>
                  announced'[n].old = fee_bps /\ announced'[n].new = fee_bps']_vars

=============================================================================
