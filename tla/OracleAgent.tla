---------------------------- MODULE OracleAgent ----------------------------
(***************************************************************************)
(* The off-chain side of the vault: the oracle agent (contracts/agent),    *)
(* whose timer starts a tick whether or not the last one has ended, the    *)
(* demo script that sends scripted decisions with the same key, and the    *)
(* bootstrap script that creates the vault. They act on the vault of       *)
(* AiVault through transactions that land later, or never.                 *)
(*                                                                         *)
(* The market snapshot is a stub that knows nothing of the vault, so a     *)
(* model's answer depends on no state: any of Answers may come, in or out  *)
(* of the schema.                                                          *)
(* Definitions named X_Y are X with a plausible mistake Y in it.           *)
(***************************************************************************)
EXTENDS AiVault, FiniteSets

CONSTANTS
    NumTicks,       \* ticks of the agent, in the order the timer starts them
    Demos,          \* runs of the demo script
    Scripts,        \* runs of the bootstrap script, each with an oracle key
    OracleOf,       \* OracleOf[s]: the oracle key script s is given
    AgentKey,       \* the key pair the agent and the demo sign with
    MIN_CONFIDENCE, \* the agent's own threshold, from the environment
    Parts,          \* an answer's numbers are fractions: it counts Parts-ths of
                    \* a raw unit (amount) and of a percent (confidence)
    Drift,          \* how far, in such parts, a product of doubles may be off
    Answers,        \* what the model may answer
    DemoAmount      \* the amount of the scripted allocation, in raw units

ASSUME PartsAssumption == Parts \in Nat \ {0}
ASSUME DriftAssumption == Drift \in 0..(Parts - 1)   \* raw amounts under 2^52
ASSUME AnswersAssumption == \A a \in Answers : a.amount \in Int /\ a.confidence \in Int
ASSUME DemoAssumption == DemoAmount \in Nat

Ticks == 1..NumTicks
Signers == Ticks \cup Demos

\* Indices of the strategies the agent knows; None for a name it does not.
STRATEGIES == 0..4
None == -1

VARIABLES
    vault_exists,
    script,  \* script[s]: where a run of the bootstrap script is
    tick     \* tick[t]: where a tick or demo run is, and what it holds

agent == <<vault_exists, script, tick>>

NoAnswer == [action |-> "hold", target |-> None, amount |-> 0, confidence |-> 0]

At(pc) == [pc |-> pc, answer |-> NoAnswer, id |-> 0, saw |-> 0]

AgentInit ==
    /\ Init
    /\ vault_exists = FALSE
    /\ script = [s \in Scripts |-> "idle"]
    /\ tick = [t \in Signers |-> At("idle")]

Ended == {"over", "landed", "lost"}

-----------------------------------------------------------------------------
(* init-vault.ts                                                           *)

\* main: refuses to go on when it sees a vault, else signs initialize_vault.
CheckVault(s) ==
    /\ script[s] = "idle"
    /\ script' = [script EXCEPT ![s] = IF vault_exists THEN "failed" ELSE "sent"]
    /\ UNCHANGED <<vars, vault_exists, tick>>

\* initialize_vault creates the account, so it can succeed only once.
CreateVault(s) ==
    /\ script[s] = "sent"
    /\ ~vault_exists
    /\ vault_exists' = TRUE
    /\ ai_oracle' = OracleOf[s]
    /\ script' = [script EXCEPT ![s] = "created"]
    /\ UNCHANGED <<accounting, allocation, paused, tokens, tick>>

\* The transaction fails or never lands.
ScriptFails(s) ==
    /\ script[s] = "sent"
    /\ script' = [script EXCEPT ![s] = "failed"]
    /\ UNCHANGED <<vars, vault_exists, tick>>

-----------------------------------------------------------------------------
(* index.ts and demo-tick.ts                                               *)

\* amount_usdc * 1_000_000 in doubles: the amount itself only if Drift is 0 (the
\* product of 1.001 is a little under 1001000); the sign is right.
Products(amount) ==
    {n \in (amount - Drift)..(amount + Drift) : n >= 0 <=> amount >= 0}

Floored_Rounded(n) == (2 * n + Parts) \div (2 * Parts)

\* Math.floor, then BigInt.
Floored(n) == n \div Parts

\* Into the fields of the instruction: one byte, which drops the fraction, and
\* eight bytes.
ToU8(n) == (IF n < 0 THEN -((-n) \div Parts) ELSE n \div Parts) % 256
ToU64(n) == n % (U64Max + 1)

\* main: setInterval starts a tick though its predecessors may still run.
\* (The first tick of all is awaited: it is one that nothing overlaps.) The
\* tick asks the model.
StartTick(t) ==
    /\ tick[t].pc = "idle"
    /\ t > 1 => tick[t - 1].pc # "idle"
    /\ tick' = [tick EXCEPT ![t].pc = "asked"]
    /\ UNCHANGED <<vars, vault_exists, script>>

\* What tick requires of an answer before it reads the chain. A risk-off
\* without a strategy name is dropped too.
Actionable(answer) ==
    /\ answer.action # "hold"
    /\ answer.confidence >= MIN_CONFIDENCE * Parts
    /\ answer.target # None

\* askLLM returns, and tick goes on or returns.
AnswerTick(t, answer) ==
    /\ tick[t].pc = "asked"
    /\ tick' = [tick EXCEPT ![t] =
                  IF Actionable(answer) THEN [At("decided") EXCEPT !.answer = answer]
                  ELSE At("over")]
    /\ UNCHANGED <<vars, vault_exists, script>>

\* The scripted decisions of demo-tick.ts.
SCRIPTED ==
    {[action |-> "allocate", target |-> 1, amount |-> DemoAmount * Parts, confidence |-> 87 * Parts],
     [action |-> "rebalance", target |-> 2, amount |-> 0, confidence |-> 91 * Parts],
     [action |-> "risk_off", target |-> 0, amount |-> 0, confidence |-> 95 * Parts]}

StartDemo(d, decision) ==
    /\ tick[d].pc = "idle"
    /\ tick' = [tick EXCEPT ![d] = [At("decided") EXCEPT !.answer = decision]]
    /\ UNCHANGED <<vars, vault_exists, script>>

\* fetchVaultDecisionId, readDecisionId: the RPC may answer with an older
\* finalized state. saw is the counter on the chain at that moment.
ReadDecisionId(t, id) ==
    /\ tick[t].pc = "decided"
    /\ vault_exists
    /\ id <= total_ai_decisions
    /\ tick' = [tick EXCEPT ![t].id = id, ![t].saw = total_ai_decisions, ![t].pc = "read"]
    /\ UNCHANGED <<vars, vault_exists, script>>

\* Both throw when there is no vault.
VaultNotFound(t) ==
    /\ tick[t].pc = "decided"
    /\ ~vault_exists
    /\ tick' = [tick EXCEPT ![t] = At("over")]
    /\ UNCHANGED <<vars, vault_exists, script>>

\* buildAiInstruction; any other action is not supported.
Submit(t) ==
    /\ tick[t].pc = "read"
    /\ tick' = [tick EXCEPT ![t] =
                  IF @.answer.action \in {"allocate", "rebalance", "risk_off"}
                  THEN [@ EXCEPT !.pc = "sent"] ELSE At("over")]
    /\ UNCHANGED <<vars, vault_exists, script>>

\* An await throws, or the process dies: the tick is over. A transaction that
\* was sent may land all the same until its blockhash expires ("lost").
TickThrows(t) ==
    /\ tick[t].pc \in {"asked", "decided", "read", "sent"}
    /\ tick' = [tick EXCEPT ![t] =
                  IF @.pc = "sent" THEN [@ EXCEPT !.pc = "lost"] ELSE At("over")]
    /\ UNCHANGED <<vars, vault_exists, script>>

\* The amounts t may sign: the agent's are a product of doubles, the script's
\* are whole numbers as they stand.
Signed(t) ==
    LET amount == tick[t].answer.amount
    IN  {ToU64(Floored(n)) : n \in IF t \in Demos THEN {amount} ELSE Products(amount)}

\* The instruction a signed transaction of t carries.
Execute(t) ==
    LET a == tick[t].answer
        confidence == ToU8(a.confidence)
    IN  \/ /\ a.action = "allocate"
           /\ \E amount \in Signed(t) :
                 AiAllocate(AgentKey, tick[t].id, a.target, amount, confidence)
        \/ /\ a.action = "rebalance"
           /\ AiRebalance(AgentKey, tick[t].id, a.target, confidence)
        \/ a.action = "risk_off" /\ AiRiskOff(AgentKey, tick[t].id, confidence)

Land(t) ==
    /\ tick[t].pc \in {"sent", "lost"}
    /\ Execute(t)
    /\ tick' = [tick EXCEPT ![t].pc = "landed"]
    /\ UNCHANGED <<vault_exists, script>>

\* The instruction fails on chain, or the blockhash expires unused.
Expire(t) ==
    /\ tick[t].pc \in {"sent", "lost"}
    /\ tick' = [tick EXCEPT ![t] = At("over")]
    /\ UNCHANGED <<vars, vault_exists, script>>

-----------------------------------------------------------------------------

TickStep(t) ==
    \/ t \in Ticks /\ \E answer \in Answers : AnswerTick(t, answer)
    \/ \E id \in 0..MaxDecisions : ReadDecisionId(t, id)
    \/ VaultNotFound(t)
    \/ Submit(t)
    \/ Land(t)
    \/ Expire(t)

AgentNext ==
    \/ \E s \in Scripts : CheckVault(s) \/ CreateVault(s) \/ ScriptFails(s)
    \/ \E t \in Ticks : StartTick(t)
    \/ \E d \in Demos, decision \in SCRIPTED : StartDemo(d, decision)
    \/ \E t \in Signers : TickStep(t) \/ TickThrows(t)
    \/ vault_exists /\ (UserNext \/ AdminNext) /\ UNCHANGED agent

AgentSpec == AgentInit /\ [][AgentNext]_<<vars, agent>>

-----------------------------------------------------------------------------
(* Properties                                                              *)

\* The states of a tick, and that the counter it derived its decision
\* account from is one the vault has had.
AgentTypeOK ==
    /\ vault_exists \in BOOLEAN
    /\ script \in [Scripts -> {"idle", "sent", "created", "failed"}]
    /\ \A t \in Signers :
          /\ tick[t].pc \in {"idle", "asked", "decided", "read", "sent"} \cup Ended
          /\ tick[t].id <= tick[t].saw /\ tick[t].saw <= total_ai_decisions

Landed == {t \in Signers : tick[t].pc = "landed"}

\* Two ticks, or a tick and a demo run, that overlap and derive the same
\* decision account: every decision of the vault is of exactly one of them,
\* and none that landed was overwritten by another.
OneDecisionPerTick ==
    /\ Cardinality(Landed) = total_ai_decisions
    /\ {tick[t].id : t \in Landed} = 0..(total_ai_decisions - 1)

\* Whoever lands read the vault after the decision before its own: a
\* transaction signed before another tick's decision (its risk-off, say) never
\* lands after it, however late it comes and however old a state it read.
\* (What the model was asked before that decision may still be acted upon: the
\* counter is read after the answer.)
LandsOnLatestDecision == \A t \in Landed : tick[t].saw = tick[t].id

\* The schema the prompt asks for, in the range of the field.
InSchema(a) ==
    /\ 0 <= a.confidence /\ a.confidence <= 100 * Parts
    /\ 0 <= a.amount /\ a.amount + Drift <= U64Max * Parts

\* n is what is left of x without its fraction.
WholeOf(n, x) == n * Parts <= x /\ x < (n + 1) * Parts

\* An answer in the schema the prompt asks for is on the chain as it was given
\* or not at all, whatever happened in between: action and strategy as they
\* were, the confidence without its fraction, and an amount that is above what
\* the model said by the error of one product of doubles at most, and under it
\* by that and less than a raw unit. (An answer outside the schema may come to
\* anything: a confidence of 326 is one byte of 70.)
AnswersKeptOnChain ==
    \A t \in Landed :
        LET a == tick[t].answer
            d == decisions[tick[t].id]
        IN  InSchema(a) =>
              /\ WholeOf(d.confidence, a.confidence)
              /\ CASE a.action = "allocate" ->
                        /\ d.decision_type = DECISION_ALLOCATE
                        /\ d.target_strategy = a.target
                        /\ \E off \in -Drift..Drift : WholeOf(d.amount, a.amount + off)
                   [] a.action = "rebalance" ->
                        /\ d.decision_type = DECISION_REBALANCE
                        /\ d.target_strategy = a.target
                   [] a.action = "risk_off" ->
                        /\ d.decision_type = DECISION_RISK_OFF
                        /\ d.target_strategy = 0

\* Two bootstrap runs that both find no vault: one creates it, and the other
\* cannot replace the oracle of a vault that users may already be using.
VaultCreatedOnce ==
    /\ vault_exists <=> \E s \in Scripts : script[s] = "created"
    /\ Cardinality({s \in Scripts : script[s] = "created"}) <= 1

=============================================================================
