------------------------------ MODULE AiVault ------------------------------
(***************************************************************************)
(* The on-chain vault of contracts/programs/ai-vault: users deposit one    *)
(* asset against shares, an AI oracle commits the deposits to strategies   *)
(* and leaves one decision account per call, an admin pauses the vault and *)
(* rotates the oracle key.                                                 *)
(*                                                                         *)
(* A transaction is atomic: one action is one successful instruction, and  *)
(* an instruction that fails a `require!`, a checked operation or an       *)
(* account constraint leaves every account as it was, so it is no step.    *)
(*                                                                         *)
(* Users pay from and are paid into token accounts of their own, and the   *)
(* mint withholds no transfer fee.                                         *)
(*                                                                         *)
(* Definitions named X_Y are X with a plausible mistake Y in it; nothing   *)
(* but the comparison of the two uses them.                                *)
(***************************************************************************)
EXTENDS Integers, FiniteSets

CONSTANTS
    NumUsers,      \* depositors, numbered 1..NumUsers
    Funds,         \* Funds[u]: tokens u holds before the vault exists
    OutsideFunds,  \* tokens of holders who never open a position
    Keys,          \* public keys that may sign
    Admin,         \* vault.admin, fixed by initialize_vault
    U64Max,        \* u64::MAX, scaled down
    MaxDecisions,  \* u64::MAX of the decision counter, scaled down
    StrategyArgs,  \* target_strategy arguments tried (u8)
    ConfidenceArgs \* confidence arguments tried (u8)

MIN_AI_CONFIDENCE == 70
MAX_STRATEGIES == 8

DECISION_ALLOCATE == 1
DECISION_REBALANCE == 2
DECISION_RISK_OFF == 3

Users == 1..NumUsers
U64 == 0..U64Max

ASSUME UsersAssumption == NumUsers \in Nat
ASSUME U64Assumption == U64Max \in Nat /\ MaxDecisions \in Nat
ASSUME FundsAssumption == Funds \in [Users -> U64] /\ OutsideFunds \in U64
ASSUME KeysAssumption == Admin \in Keys
ASSUME ArgsAssumption == StrategyArgs \subseteq Nat /\ ConfidenceArgs \subseteq Nat

VARIABLES
    \* the Vault account
    total_deposits, total_shares, allocated_amount, active_strategy,
    total_ai_decisions, ai_oracle, paused,
    \* the UserPosition accounts; no account reads as zero shares
    shares, deposited,
    \* the AiDecision accounts, by the id that seeds their address
    decisions,
    \* SPL token accounts: the users', the vault's, everybody else's
    wallet, vault_balance, outside

accounting == <<total_deposits, total_shares, shares, deposited>>
allocation == <<allocated_amount, active_strategy, decisions, total_ai_decisions>>
controls == <<ai_oracle, paused>>
tokens == <<wallet, vault_balance, outside>>
vars == <<accounting, allocation, controls, tokens>>

Decision == [decision_type : {DECISION_ALLOCATE, DECISION_REBALANCE, DECISION_RISK_OFF},
             target_strategy : 0..MAX_STRATEGIES,
             amount : U64,
             confidence : MIN_AI_CONFIDENCE..100,
             oracle : Keys]

\* initialize_vault: the vault as its admin creates it, for one oracle key.
Init ==
    /\ total_deposits = 0
    /\ total_shares = 0
    /\ total_ai_decisions = 0
    /\ active_strategy = 0
    /\ allocated_amount = 0
    /\ paused = FALSE
    /\ ai_oracle \in Keys
    /\ shares = [u \in Users |-> 0]
    /\ deposited = [u \in Users |-> 0]
    /\ decisions = [id \in {} |-> 0]
    /\ wallet = Funds
    /\ vault_balance = 0
    /\ outside = OutsideFunds

-----------------------------------------------------------------------------
(* Share arithmetic: u128 products, u64 results by a truncating cast.      *)

AsU64(n) == n % (U64Max + 1)

SharesFor_DepositCountedFirst(amount) ==
    IF total_shares = 0 \/ total_deposits = 0
    THEN amount
    ELSE AsU64((amount * total_shares) \div (total_deposits + amount))

SharesFor(amount) ==
    IF total_shares = 0 \/ total_deposits = 0
    THEN amount
    ELSE AsU64((amount * total_shares) \div total_deposits)

AssetsFor_OfLiquid(s) == AsU64((s * (total_deposits - allocated_amount)) \div total_shares)

AssetsFor(s) == AsU64((s * total_deposits) \div total_shares)

Liquid_IgnoresAllocation == total_deposits

\* Deposits that no allocation has claimed (checked_sub in the code).
Liquid == total_deposits - allocated_amount

-----------------------------------------------------------------------------
(* Users                                                                   *)

\* deposit: tokens in, shares minted 1:1 into an empty vault, else pro rata.
Deposit(u, amount) ==
    LET shares_minted == SharesFor(amount) IN
    /\ ~paused
    /\ amount > 0
    /\ amount <= wallet[u]
    /\ shares[u] + shares_minted <= U64Max
    /\ deposited[u] + amount <= U64Max
    /\ total_deposits + amount <= U64Max
    /\ total_shares + shares_minted <= U64Max
    /\ shares' = [shares EXCEPT ![u] = @ + shares_minted]
    /\ deposited' = [deposited EXCEPT ![u] = @ + amount]
    /\ total_deposits' = total_deposits + amount
    /\ total_shares' = total_shares + shares_minted
    /\ wallet' = [wallet EXCEPT ![u] = @ - amount]
    /\ vault_balance' = vault_balance + amount
    /\ UNCHANGED <<allocation, controls, outside>>

\* What withdraw requires before it touches a balance.
WithdrawAccepted(u, s) ==
    /\ ~paused
    /\ s > 0
    /\ shares[u] >= s
    /\ total_shares > 0
    /\ AssetsFor(s) <= Liquid
    /\ AssetsFor(s) <= vault_balance

Withdraw_TotalSharesKept(u, s) ==
    LET amount == AssetsFor(s) IN
    /\ WithdrawAccepted(u, s)
    /\ shares' = [shares EXCEPT ![u] = @ - s]
    /\ deposited' = [deposited EXCEPT ![u] = IF amount <= @ THEN @ - amount ELSE 0]
    /\ total_deposits' = total_deposits - amount
    /\ total_shares' = total_shares
    /\ wallet' = [wallet EXCEPT ![u] = @ + amount]
    /\ vault_balance' = vault_balance - amount
    /\ UNCHANGED <<allocation, controls, outside>>

\* withdraw: shares burnt for their part of the deposits; the last three
\* subtractions are unwrapped, so one that underflows panics and reverts.
Withdraw(u, s) ==
    LET amount == AssetsFor(s) IN
    /\ WithdrawAccepted(u, s)
    /\ amount <= total_deposits
    /\ s <= total_shares
    /\ shares' = [shares EXCEPT ![u] = @ - s]
    /\ deposited' = [deposited EXCEPT ![u] = IF amount <= @ THEN @ - amount ELSE 0]
    /\ total_deposits' = total_deposits - amount
    /\ total_shares' = total_shares - s
    /\ wallet' = [wallet EXCEPT ![u] = @ + amount]
    /\ vault_balance' = vault_balance - amount
    /\ UNCHANGED <<allocation, controls, outside>>

\* Anybody may send tokens straight to the vault's token account: the SPL
\* token program asks the receiver nothing, and the vault's books ignore it.
Donate(amount) ==
    /\ amount \in 1..outside
    /\ outside' = outside - amount
    /\ vault_balance' = vault_balance + amount
    /\ UNCHANGED <<accounting, allocation, controls, wallet>>

-----------------------------------------------------------------------------
(* The oracle                                                              *)

RecordDecision_AnyId(signer, pda, decision_type, target, amount, confidence) ==
    /\ signer = ai_oracle
    /\ confidence >= MIN_AI_CONFIDENCE
    /\ confidence <= 100
    /\ ~paused
    /\ total_ai_decisions < MaxDecisions
    /\ decisions' =
         [id \in DOMAIN decisions \cup {pda} |->
            IF id = pda
            THEN [decision_type |-> decision_type, target_strategy |-> target,
                  amount |-> amount, confidence |-> confidence, oracle |-> signer]
            ELSE decisions[id]]
    /\ total_ai_decisions' = total_ai_decisions + 1

\* The accounts of AiOracleAction and the fields all three instructions
\* fill in: signer must be the oracle, and pda, the id the caller derived the
\* decision address from, must be the next id and not in use.
RecordDecision(signer, pda, decision_type, target, amount, confidence) ==
    /\ signer = ai_oracle
    /\ pda = total_ai_decisions
    /\ pda \notin DOMAIN decisions
    /\ confidence >= MIN_AI_CONFIDENCE
    /\ confidence <= 100
    /\ ~paused
    /\ total_ai_decisions < MaxDecisions
    /\ decisions' =
         [id \in DOMAIN decisions \cup {pda} |->
            IF id = pda
            THEN [decision_type |-> decision_type, target_strategy |-> target,
                  amount |-> amount, confidence |-> confidence, oracle |-> signer]
            ELSE decisions[id]]
    /\ total_ai_decisions' = total_ai_decisions + 1

\* ai_allocate: liquid deposits are marked allocated, and the target becomes
\* the one active strategy of everything allocated so far.
AiAllocate(signer, pda, target, amount, confidence) ==
    /\ target <= MAX_STRATEGIES
    /\ amount > 0
    /\ amount <= Liquid
    /\ allocated_amount + amount <= U64Max
    /\ RecordDecision(signer, pda, DECISION_ALLOCATE, target, amount, confidence)
    /\ allocated_amount' = allocated_amount + amount
    /\ active_strategy' = target
    /\ UNCHANGED <<accounting, controls, tokens>>

AiRebalance_RecordsOldStrategy(signer, pda, target, confidence) ==
    /\ target <= MAX_STRATEGIES
    /\ allocated_amount > 0
    /\ target # active_strategy
    /\ RecordDecision(signer, pda, DECISION_REBALANCE, active_strategy,
                      allocated_amount, confidence)
    /\ active_strategy' = target
    /\ UNCHANGED <<allocated_amount, accounting, controls, tokens>>

\* ai_rebalance: everything allocated changes strategy.
AiRebalance(signer, pda, target, confidence) ==
    /\ target <= MAX_STRATEGIES
    /\ allocated_amount > 0
    /\ target # active_strategy
    /\ RecordDecision(signer, pda, DECISION_REBALANCE, target,
                      allocated_amount, confidence)
    /\ active_strategy' = target
    /\ UNCHANGED <<allocated_amount, accounting, controls, tokens>>

AiRiskOff_RecordsAfterReset(signer, pda, confidence) ==
    /\ allocated_amount > 0
    /\ allocated_amount' = 0
    /\ active_strategy' = 0
    /\ RecordDecision(signer, pda, DECISION_RISK_OFF, 0, allocated_amount', confidence)
    /\ UNCHANGED <<accounting, controls, tokens>>

\* ai_risk_off: everything allocated is idle again.
AiRiskOff(signer, pda, confidence) ==
    /\ allocated_amount > 0
    /\ RecordDecision(signer, pda, DECISION_RISK_OFF, 0, allocated_amount, confidence)
    /\ allocated_amount' = 0
    /\ active_strategy' = 0
    /\ UNCHANGED <<accounting, controls, tokens>>

-----------------------------------------------------------------------------
(* The admin                                                               *)

SetAiOracle(signer, new_oracle) ==
    /\ signer = Admin
    /\ ai_oracle' = new_oracle
    /\ UNCHANGED <<accounting, allocation, paused, tokens>>

SetPaused(signer, value) ==
    /\ signer = Admin
    /\ paused' = value
    /\ UNCHANGED <<accounting, allocation, ai_oracle, tokens>>

-----------------------------------------------------------------------------

UserNext ==
    \E u \in Users, n \in U64 : Deposit(u, n) \/ Withdraw(u, n)

AiNext ==
    \E signer \in Keys, pda \in 0..MaxDecisions, confidence \in ConfidenceArgs :
        \/ \E target \in StrategyArgs, amount \in U64 :
              AiAllocate(signer, pda, target, amount, confidence)
        \/ \E target \in StrategyArgs : AiRebalance(signer, pda, target, confidence)
        \/ AiRiskOff(signer, pda, confidence)

AdminNext ==
    \E signer \in Keys :
        \/ \E key \in Keys : SetAiOracle(signer, key)
        \/ \E value \in BOOLEAN : SetPaused(signer, value)

Next == UserNext \/ AiNext \/ AdminNext \/ (\E n \in U64 : Donate(n))

Spec == Init /\ [][Next]_vars

-----------------------------------------------------------------------------
(* Properties                                                              *)

\* Every account field stays in the range of its Rust type, and the decision
\* accounts are those of the ids handed out so far, with no gap.
TypeOK ==
    /\ total_deposits \in U64
    /\ total_shares \in U64
    /\ allocated_amount \in U64
    /\ active_strategy \in 0..MAX_STRATEGIES
    /\ total_ai_decisions \in 0..MaxDecisions
    /\ ai_oracle \in Keys
    /\ paused \in BOOLEAN
    /\ shares \in [Users -> U64]
    /\ deposited \in [Users -> U64]
    /\ decisions \in [0..(total_ai_decisions - 1) -> Decision]
    /\ wallet \in [Users -> Nat]
    /\ vault_balance \in Nat
    /\ outside \in U64

\* The shares of all positions add up to vault.total_shares, whatever order
\* deposits and withdrawals of different users come in. The sum is written as
\* its running totals: acc[u] is the sum over users 1..u.
SharesAddUp ==
    \E acc \in [0..NumUsers -> 0..total_shares] :
        /\ acc[0] = 0
        /\ acc[NumUsers] = total_shares
        /\ \A u \in Users : acc[u] = acc[u - 1] + shares[u]

\* A share is worth one token, for ever: neither the pro-rata rounding of
\* deposit and withdraw nor the truncating cast ever moves the ratio, and a
\* position's cost basis never drifts from its shares (saturating_sub never
\* saturates).
ShareIsOneToken ==
    /\ total_shares = total_deposits
    /\ \A u \in Users : deposited[u] = shares[u]

\* The deposits on the books are in the vault's token account, and no more
\* is allocated than was deposited: withdraw's checked_sub cannot fail.
Solvent ==
    /\ allocated_amount <= total_deposits
    /\ total_deposits <= vault_balance

\* Nobody's tokens go to anybody else: what a user holds outside the vault
\* and the shares in it are together what that user started with, through
\* every interleaving with other users, the oracle and the admin.
PrincipalKept == \A u \in Users : wallet[u] + shares[u] = Funds[u]

\* d explains the step that changed the allocation.
Explains(d) ==
    /\ d.target_strategy = active_strategy'
    /\ \/ /\ d.decision_type = DECISION_ALLOCATE
          /\ allocated_amount' = allocated_amount + d.amount
       \/ /\ d.decision_type = DECISION_REBALANCE
          /\ allocated_amount' = allocated_amount
          /\ d.amount = allocated_amount
       \/ /\ d.decision_type = DECISION_RISK_OFF
          /\ allocated_amount' = 0
          /\ d.amount = allocated_amount

\* The audit trail cannot be rewritten or bypassed: a decision account never
\* changes once written, and a step that changes the allocation or the active
\* strategy writes exactly the next decision, signed by the oracle of that
\* moment, whose type, target and amount say what the step did.
AuditTrailStep ==
    /\ \A id \in DOMAIN decisions :
          id \in DOMAIN decisions' /\ decisions'[id] = decisions[id]
    /\ UNCHANGED <<allocated_amount, active_strategy>>
         \/ /\ total_ai_decisions' = total_ai_decisions + 1
            /\ decisions'[total_ai_decisions].oracle = ai_oracle
            /\ Explains(decisions'[total_ai_decisions])

AuditTrail == [][AuditTrailStep]_vars

\* The allocation recomputed from the first n decision accounts.
Replayed[n \in 0..total_ai_decisions] ==
    IF n = 0 THEN [allocated |-> 0, strategy |-> 0]
    ELSE LET d == decisions[n - 1] IN
         [strategy |-> d.target_strategy,
          allocated |-> CASE d.decision_type = DECISION_ALLOCATE ->
                                Replayed[n - 1].allocated + d.amount
                          [] d.decision_type = DECISION_REBALANCE -> d.amount
                          [] d.decision_type = DECISION_RISK_OFF ->
                                Replayed[n - 1].allocated - d.amount]

\* Anyone who replays the decision accounts gets the vault's allocation and
\* strategy: the accounts alone tell the whole story.
AuditTrailReplays ==
    Replayed[total_ai_decisions]
      = [allocated |-> allocated_amount, strategy |-> active_strategy]

\* Tokens per strategy if the first n decisions are read the way the program's
\* comments describe them: ai_allocate moves `amount` of liquid funds into its
\* target, ai_rebalance everything allocated, ai_risk_off everything to idle.
Placed[n \in 0..total_ai_decisions] ==
    IF n = 0 THEN [s \in 0..MAX_STRATEGIES |-> 0]
    ELSE LET d == decisions[n - 1]
             moved == IF d.decision_type = DECISION_RISK_OFF THEN 0 ELSE d.amount
         IN  [s \in 0..MAX_STRATEGIES |->
                (IF s = d.target_strategy THEN moved ELSE 0)
                + (IF d.decision_type = DECISION_ALLOCATE THEN Placed[n - 1][s] ELSE 0)]

\* Documented of ai_rebalance ("moves funds from the active strategy ... The
\* amount moved is the entire `allocated_amount`"): everything allocated is in
\* the active strategy. The code lets ai_allocate name another strategy than
\* the active one, so earlier allocations stay behind in a strategy that the
\* vault no longer names.
AllocationInActiveStrategy ==
    Placed[total_ai_decisions][active_strategy] = allocated_amount

\* What the users can see of the vault is a plain one-to-one custody account:
\* all of the share arithmetic, the oracle, the admin and the donations
\* implement Custody with a user's shares as the balance.
Ledger == INSTANCE Custody WITH Clients <- Users, account <- shares

ImplementsCustody == Ledger!Spec

=============================================================================
