# Solobank in TLA+

Models, model checks and machine-checked proofs of the parts of solobank that
move, guard or account for money: the on-chain AI vault with the oracle agent
that drives it, the fee treasury, the spending safeguards of the agent, its
lending and swap calls, the pay-per-call protocol and the gateway that sells
calls, and the files all of these share on the user's machine.

- [The system](#the-system)
- [Modules](#modules)
- [What is checked](#what-is-checked)
- [What is proved](#what-is-proved)
- [Where the code and its documentation disagree](#where-the-code-and-its-documentation-disagree)
- [What the models show of the code besides](#what-the-models-show-of-the-code-besides)
- [Abstractions and their limits](#abstractions-and-their-limits)
- [Not modelled](#not-modelled)
- [Plan](#plan)
- [Running it](#running-it)

## The system

An AI agent holds a Solana wallet. It talks to an MCP server (or a human talks
to the CLI); both use the SDK, which signs transactions, swaps, lends, and pays
for API calls at a gateway. Two on-chain programs keep a vault that an AI oracle
allocates and a treasury that collects fees.

| Component | State | Operations | Talks to | Modelled in |
|---|---|---|---|---|
| AI vault (`contracts/programs/ai-vault`) | `Vault`, `UserPosition` and `AiDecision` accounts, token accounts | deposit, withdraw, ai_allocate, ai_rebalance, ai_risk_off, set_ai_oracle, set_paused | SPL token program; called by users, admin, oracle agent | `AiVault` |
| Treasury (`contracts/programs/contracts`) | `TreasuryConfig`, decision accounts, events | collect_{save,borrow,swap}_fee, ai_update_fees, record_ai_decision, update_fees, set_*, transfer_admin | called by the SDK after a swap, loan or borrow | `Treasury` |
| Oracle agent (`contracts/agent`) | none; one `tick` per interval | snapshot, ask the model, read the decision counter, send; demo and bootstrap scripts | LLM, RPC, AI vault | `OracleAgent` (composed with `AiVault`) |
| Safeguards (`sdk/src/safeguards`) | a configuration in memory per process, one `config.json` | load, check, assertNotLocked, recordUsage, lock, unlock, set, getConfig | called by the MCP tools and the CLI | `Safeguards` |
| MCP server (`packages/mcp`) | one agent; calls interleave at awaits | write tools behind the enforcer, safety tools, read tools | SDK | `Safeguards` |
| CLI (`packages/cli`) | none | every SDK operation, and the safeguard commands | SDK | `Safeguards`, `LocalFiles` |
| Lending and swap (`sdk/src/lending.ts`, `swap.ts`, facade in `index.ts`) | on-chain positions at Kamino and Marginfi | lend, borrow, withdraw, repay, rebalance, swap, best-effort fee | venues, Jupiter, RPC, treasury | `Lending` |
| MPP method (`sdk/src/mpp`, `mpp-solana`) | none (the server's reference store is the user's) | createCredential, verify; `send` beside it | RPC, a paying or paid HTTP peer | `PayPerCall` |
| Gateway, payment path (`backend`) | Redis keys, Postgres `transactions` | 402 challenge, verify, replay protection, proxy with retries | RPC, Redis, Postgres, upstream APIs | `MppGateway` |
| Gateway, front (`backend`) | rate-limit buckets, Postgres `transactions` | limiter, administrators' list and totals | Postgres | `GatewayFront` |
| Local files (`sdk`, `cli`) | `wallet.json`, session, contacts, the hosts' MCP files, the legacy safeguards' file | init, create, PIN wallet, session, contacts, install, uninstall, lock | processes of CLI, MCP server, SDK users | `LocalFiles` |
| Route registry (`backend/src/services/registry.ts`, the proxy handler of `index.ts`) | a table; the environment of the process; what clients have read of the catalogue | match a path, list services, build and forward a paid call | payment path, upstream APIs, MCP server and frontend as readers | `Registry` |
| History, prompts, frontend, skills, price bot, end-to-end payment script | none shared | I/O, text and formatting | | [not modelled](#not-modelled) |

What is hard here, and where:

- *Several depositors, one pot.* The vault's books are sums over positions kept
  by truncating arithmetic in u64, while an oracle commits the same deposits
  elsewhere and an admin pauses and rotates keys.
- *An audit trail.* Every allocation decision is an account whose address comes
  from a counter the caller has read earlier, and the agent's timer starts a
  tick whether or not the last one has ended.
- *Signed now, charged later.* A fee transaction names an amount; rates, treasury
  and pause are those of the moment it lands.
- *Check, await, record.* The MCP server judges a call before an awaited
  transaction and records its usage after it; calls of one server interleave.
- *Two transactions, no compensation.* `rebalance` withdraws and then lends; a
  fee follows an operation that has already happened; an await that throws says
  nothing about whether its transaction lands.
- *One file, several processes.* Servers and CLI commands read and rewrite whole
  files from copies that may be old; a save truncates first.
- *Replay protection in two stores.* Redis and Postgres, either of which may fail
  before or after it has done its part, while the same signature arrives in
  several requests and the process may die between any two steps.
- *Four programs, one sum.* The client's plan, the MPP server and the gateway's two
  verifiers each work out what a transaction paid, from different data.
- *Listed here, sold there.* A client reads the catalogue of one process and pays
  another, with other keys in its environment, by a table in which the first row
  that matches wins.

`PROJECT.json` lists these hazards one by one, each at its line and with the
properties that would catch it.

## Modules

| Module | What it is |
|---|---|
| `AiVault` | the vault program: one action per instruction |
| `Custody` | abstract: a one-to-one custody account |
| `OracleAgent` | extends `AiVault` with the agent's ticks, the demo script and the bootstrap script |
| `Treasury` | the fee program and the SDK's transactions for it |
| `Safeguards` | the enforcer in every process, the shared file, the MCP tools and CLI commands that use it |
| `Lending` | the facade's calls into lending venues and swaps, and what the venues do with them |
| `PayPerCall` | MPP client, chain and MPP server, beside the wallet's other transfers; the sums of all verifiers |
| `MppGateway` | the gateway's payment middleware, verifier, Redis, Postgres and proxy handler |
| `Tickets` | abstract: a payment is a ticket, good for one call; both `MppGateway` and `PayPerCall` implement it |
| `Registry` | the gateway's catalogue, and a paid call from path to upstream, over any table of routes |
| `RouteTable` | the table of routes as it is written down, and the two lists of services beside it |
| `GatewayFront` | rate limiter, paged list and totals over the payments table |
| `LocalFiles` | the wallet and the other files processes share |
| `VaultProofs` | theorems about `AiVault` and `OracleAgent` |
| `FrontRegistryProofs` | theorems about `GatewayFront` and `Registry` |
| `SafeguardsProofs` | theorems about `Safeguards` and `LocalFiles` |
| `TreasuryProofs`, `LendingProofs`, `PayPerCallProofs`, `MppGatewayProofs` | theorems about the module of that name |
| `SumLemmas` | sums over finite sets, least numbers and induction on finite sets, which those proofs share |
| `MC...` | constants for TLC, one module for each component, one `.cfg` for each run |

Definitions carry the names of the code where TLA+ allows it. A definition
`X_Y` is `X` with the plausible mistake `Y` in it; it shows that the property
paired with it in `PROJECT.json` is not idle, and no specification uses it.

### AiVault

State: the fields of the `Vault` account as variables of the same name, `shares`
and `deposited` of the positions (an account that does not exist reads as zero,
which is how `init_if_needed` creates it), `decisions` by the id that seeds their
address, and the token balances `wallet`, `vault_balance` and `outside`.

A Solana transaction is atomic, so an instruction is one step, and one that
fails is no step. `Deposit`, `Withdraw`, `AiAllocate`, `AiRebalance`, `AiRiskOff`,
`SetAiOracle` and `SetPaused` are the instructions with all their `require!`s and
account constraints; signer and decision address are inputs chosen freely, and
the guards of `RecordDecision` and of the admin actions say which are accepted.
Products are exact (u128 in the code), results are cast to u64 by `AsU64`, and
checked additions fail at `U64Max`. `Donate` is a plain token transfer into the
vault's token account, which the program cannot prevent and does not count.

### OracleAgent

Extends `AiVault`; its state is `script[s]` (a run of the bootstrap script),
`vault_exists`, and `tick[t]` (a tick of the agent or a run of the demo script).
A step is what the code does between two awaits: `StartTick` (the timer, which
does not ask whether the last tick has ended), `AnswerTick` (the model's answer,
any of `Answers`, in the prompt's schema or not), `ReadDecisionId` (the counter, of
this or an older finalized state), `Submit`, `TickThrows`. `Land` is the signed
instruction executing on the vault of `AiVault` through that module's own
actions; it may come long after the tick that sent it has thrown. The model
answers with doubles: here an amount or a confidence counts `Parts`-ths of a raw
unit or of a percent. The product `amount_usdc * 1_000_000` may be off by
`Drift` of these parts (that of 1.001 is a little under 1001000), `Floored` is
`Math.floor`, and `ToU64` and `ToU8` cut the result to the bytes of the
instruction, `ToU8` dropping the fraction of a confidence. `CheckVault` and `CreateVault` are
`init-vault.ts`, which looks and then creates. Users and the admin act meanwhile.

### Treasury

State: the fields of `TreasuryConfig`, `decisions`, the events `announced` in the order
they are emitted, `tokens` and `signed[k]`, a transaction that `k` has signed and
that may still land. `CollectFee` is what the SDK signs, `SignFee` what anybody may;
`LandFee` is the instruction, at the rates of that moment. `AiUpdateFees` and
`RecordAiDecision` share one counter and number their events differently, which
is kept.

### Safeguards

State: `disk` and `readable` (the file, and whether it parses), `mem[p]`
(every process's `this.config`), `task[p]` (where its synchronous code is) and
`call[c]` (a transfer from its check to its recording); `spent` is what the chain
has seen today, which no process knows, and `lost` the part of it that no server
records because the await threw, the server died or the CLI made the transfer. A
call's `day` is the day its payment was confirmed, which the code does not keep
either; `Loose` is what `spent` already counts and the file does not yet.

JavaScript runs one handler at a time, so between two awaits a process is
interrupted only by *other processes*, and those see only the file: a step ends
where the file becomes different. A save is therefore `Truncate` and `Write` (or
`SaveFails`, an error the code swallows), and what the code does after the save
is part of `Write` (`AfterSave`): judge the daily limit, add the usage, or return.
The MCP calls are `CallRejected`, `CallUnlimited`, `CallJudged` and
`CallOnNewDay` (by what `check` or `assertNotLocked` finds), `Confirm`, `Throw` and
`SettleLate` (the awaited transaction), and `RecordUsage`. `Lock`, `SetLimit` and
`ShowConfig` are both the tools and the CLI commands, `StartCli`, `Unlock` and
`CliSend` the rest of the CLI, `StartServer`, `Crash` and `Midnight` what is around.
`send` stands for `send` and `pay`, `swap` for every tool that only asks
`assertNotLocked`.

A call's `day` also tells that a payment was seen confirmed: `Paid` are those of
the servers, which `UsageNotInvented` compares with the usage in the file and in
every copy.

`Tools`, `Commands` and `Faults` switch parts of the environment on: which
properties hold depends on who else is there, and that is what the runs show.

### Lending

State: `wallet`, `supplied` and `owed` per venue and account, how many marginfi
`accounts` the wallet has, the landed `fees`, and `job[j]`, a call of the facade with
its remaining transactions (`legs`). `Quote` loads rates (any) and plans: the
choice of venue is `SortRatesDescending` and the functions named as in the code.
`LookUpAccount` finds a marginfi account, any of those there are, or goes on to
`CreateAccount`; `Land` executes a leg through `Deposit`, `TakeOut`, `Lent`, `PaidBack` or
`Swapped`, which stand for the venues' programs; `Fails` throws, `Loses` leaves a
transaction that `LandsLate` or `NeverLands`; `TryCollectFee` swallows its failure.
A threshold of `rebalance` may be negative: nothing in the code rules it out.

### PayPerCall

State: `bal` (token accounts), `job[j]` (a call of `pay` or `send` by one wallet),
`tx[j]` (the transaction it signs, with balances before and after once it has
landed), `ver[v]` (a run of the server's `verify`), the store's `consumed` references
and what was `honoured`. `Ask`, `Plan`, `Send`, `Confirm`, `ClientThrows` are the client;
`Land`, `Finalize`, `Expire` the chain; `Receive` (which may bring the same credential
twice), `LookupMiss`, `MetaMissing`, `Verify`, `Consume`, `ConsumeFails` (the store's
await rejects, having set the reference or not), `GiveReceipt` the server. A plan is what
it takes from each account: the loop of `buildTransferPlan`, which goes through
the accounts from the richest on, takes from each what those `Before` it have left
to take, as far as it goes. The algorithms
`BuildTransferPlan`, `SumReceivedTokenAmount`, `SumReceivedAmount`, `VerifyMainnet` and
`VerifyDevnet` are operators, compared with one another by `VerifiersAgree`.

### MppGateway

State: `tx` (the chain), `key` (the Redis keys with their expiry), `rows`
(the Postgres table), `req` (every request's progress) and a clock. A step is
what a handler does between two awaits together with the effect of the call it
awaited: `Arrive` up to the first lookup, `LookupMiss` and `LookupHit`,
`MarkUsed`/`MarkThrows`, `Record`/`RecordThrows`, `RejectCall`, `StartFetch`,
`FetchEnds`/`FetchFails`. `MarkThrows` and `RecordThrows` choose whether the store
did its part before the error; `Flush` loses Redis keys; `Crash` breaks every
connection and keeps chain, keys and rows. `redisWorks` is no state of the code: it
remembers whether Redis has failed or forgotten, which `KeyOutlivesPayment` asks.

### Registry

State: `env` (the keys of the running process), the page the frontend has `fetched`,
the `catalogue` each client has read and its `call`. `MatchPath`,
`ResolveGatewayRoute`, `GetMissingRequiredEnv`, `BuildServices` and `Safe` are the
functions of the code; `Ask`, `Present` and `Forward` what the middleware and the
proxy handler make of a call before, with and after its payment; `Redeploy` a
process with other keys. The table, the list of services sold and the list of
services described are constants, and the assumptions on them are what the code
must keep by hand: no path has two rows (`NoShadowAssumption`: rows of one service
and one length differ in a literal), a row uses the keys it declares and the name
of a key in a query is one that is blocked (`KeysAssumption`), and what is sold is
described (`ServicesAssumption`). `RouteTable` is the code's table: all 111 rows in
their order, with path, price, method, keys and where the keys go, and both
lists of 52 services. TLC checks the assumptions on it. The payment itself is one step
here: `MppGateway` has it in full. The specification is `RegistrySpec`, since one proof
module extends this module and `GatewayFront`.

### GatewayFront

State: `bucket[ip]`, the committed `rows`, what every client's request is at
(`handler`), and what clients remember (`walk`, `promise`). `Refuse` and `LetThrough` are
the limiter, `Cleanup` its timer, `Restart` a new process. `Insert` draws an id and a
time and `Commit` shows the row later, so rows may appear below ones already read;
`ListRows`/`CountRows` and `Totals`/`Groups` are the routes' pairs of queries.

### LocalFiles

State: `files[f]` (absent, torn, or whole with a set of entries), what every process
is doing, the keys `made` and the addresses `announced`. Every write is `Open`
(truncate) and `Fill`; a process may be `Killed` anywhere between. `InitWallet`,
`CreateAgent`, `MakeWallet`, `CreatePinEncryptedKeypair` and `LoadSecretKey` are the
wallet, `ReadFile` the read-change-write of contacts, MCP install and the legacy
configuration, which take a file they cannot parse for an empty one. The specification
is `FilesSpec`, for the same reason as above.

## What is checked

| Run | Module, cfg | States | Shows |
|---|---|---|---|
| `vault` | `MCAiVault` | 77,624 | `SharesAddUp`, `Solvent`, `PrincipalKept`, `AuditTrail`, `AuditTrailReplays`, and that the vault implements `Custody` |
| `treasury` | `MCTreasury` | 572,544 | `ChargeCapped`, `TrailNumbersEachDecision`, `FeeChangesAnnounced` |
| `oracle` | `MCOracleAgent` | 909,606 | overlapping ticks, a demo run and two bootstrap runs: each decision is of one tick, nobody lands on a decision it has not seen, and answers survive the product of doubles, the floor and the conversion to bytes |
| `safeguards` | `MCSafeguards` | 206,266 | one server with overlapping calls, crashes, failed transactions and midnight, no CLI: file and memory agree, lock and limits stick across restarts, spending overshoots the daily limit by `MaxInFlight - 1` calls at most |
| `safeguards_shared` | `MCSafeguardsShared` | 1,464,063 | a server with two calls beside a CLI that locks, unlocks, sets and sends, on a disk that may refuse a write, over two days: no copy of the usage counts a payment twice or one that was not made, and a lock on disk stops the next call |
| `safeguards_lock_lost` | `MCSafeguardsLockLost` | | ends in a violation, see [below](#where-the-code-and-its-documentation-disagree) |
| `lending` | `MCLending` | 124,132 | two overlapping calls: a rebalance is whole, or threw; funds move to better rates only; a fee follows an operation that was done |
| `payments` | `MCPayPerCall` | 157,900 | the verifiers agree, what is honoured was received, a refusal has a cause, everything ends, and the server implements `Tickets` |
| `gateway` | `MCMppGateway` | 277,887 | one payment one call, books match the chain, the gateway implements `Tickets`, a key outlives the acceptance of its transaction until Redis fails or forgets, and every request is answered, with every fault |
| `registry` | `MCRegistry` | 6,244 | over the whole table: what is listed is counted, and resolves to the row and price listed in every later process; a payment in the books sends its call out with the gateway's keys, or fails for one of three causes |
| `front` | `MCGatewayFront` | 822,062 | less than twice the maximum in any window, Retry-After is kept, paging misses no row but one that shares its time |
| `files` | `MCLocalFiles` | 481,376 | no command destroys a key somebody relies on unless told to; a command alone on its file does its change and no other, whatever crashed before |

Every module of a component also states its type invariant, which is proved.

**Bounds.** *Vault*: two depositors with 3 and 2 tokens, `U64Max = 4`, so that
together they reach the overflow guards; a donation of 1; two keys, so that the
oracle may or may not be the admin and may be rotated to the other; three
decisions, which allow any pair of allocate, rebalance and risk-off and one after
it; strategies 0, 8 and 9 and confidences 69, 70 and 101 lie on both sides of
each check. Because a share always turns out to be one token, more tokens add no
new ratios; the theorems drop the bounds. *Treasury*: two keys that can take every
role, rates at, below and above the cap, amounts whose fees round and a u64 small
enough for the collected sum to overflow; two decisions, so that each kind comes
after each. *Oracle agent*: two ticks (the least that overlap) and a demo run, two
decisions, answers inside and outside the schema, with half a raw unit, half a
percent, and a whole amount whose product may fall short. *Safeguards*: limits of 2 a
call and 3 a day against amounts 2 and 3, two calls in flight of three; two days, so that midnight
falls anywhere once. `MCSafeguardsShared` has two calls, so that one copy of the
usage can be older than another by a payment, and a server and a CLI that
interleave freely; it counts states up to a renaming of the calls, which no definition
tells apart. `MCSafeguardsLockLost` starts with a file that is already dated
today, so that no daily reset saves anything. *Lending*: a
marginfi bank and two Kamino reserves, one of a twin mint, so that every choice has
a wrong answer; rates 0 and 1; two calls out of fourteen requests. *Payments*: two
accounts of which a payment may need both, amounts of one, two, two and a half
and three units, two calls and two verifications (a credential that comes twice),
two lookups. *Gateway*: two requests that may share one signature, which is the least
that can collide (the theorems are about any number); a cheap and a dear
route with a payment that covers only the cheap one, and a route without its keys; a
clock that runs past the age limit and the key's expiry; two lookups and three
fetches. *Registry*: one client, since calls share nothing but the environment;
four paths: to a row with another of its service and length, to one that
throws without a key it does not declare, to one with its key in the query, and one
with a parameter that is not safe (`ListedResolves` tries every row that is listed
besides); a body
that is JSON with a field whose name is a key in capitals, and one that is no
JSON; processes with all keys, with none, and with some of them, one blank.
*Front*: four clients behind one address, a
window of two ticks and four ticks of time, two rows and pages of one. *Files*:
two processes, four commands of fifteen between them, one crash, three keys.
`MaxTime`, `MaxDay`, `MaxInFlight`, `MaxDecisions`, `MaxRows`, `MaxRestarts`, `Asks`,
`MaxCommands` and `MaxCrashes` are the only counters capped.

**Fairness.** Only two specifications state fairness, for the two liveness
properties. `MppGateway!FairSpec`: weak fairness of a request's own steps. Every
await in the handlers is bounded: the lookup sleeps between a bounded number of
attempts, ioredis is configured with `maxRetriesPerRequest`, postgres fails with its
connection, and the fetch is aborted after `FETCH_TIMEOUT_MS`. Requests need not
arrive, and faults may happen for ever. `PayPerCall!Spec`: client and server run
on, and the chain lands, finalizes or forgets every transaction. Nobody is obliged
to call, to throw or to send a credential. Ticks of the agent, calls of the facade
and calls of the MCP server have no such property: their code is a straight line
of awaits without a loop or a wait for one another, so that they end is what
fairness itself would say.

**Deadlock** is checked for the vault, the treasury and the registry, where an
admin's call or a restart is always possible. The others may stop: calls, requests, ticks and commands are
finite in number and clocks end.

## What is proved

For every value of the constants that satisfies the modules' assumptions (any
number of users, requests, signatures, ticks, payers, mints, servers, calls,
venues, token accounts, clients or processes, any u64 bound, any prices, limits, rates,
environments, request paths, windows and page sizes):

| Theorem | States |
|---|---|
| `VaultProofs!TypeCorrect` | `Spec => []TypeOK` |
| `VaultProofs!SharesAlwaysAddUp` | `Spec => []SharesAddUp` |
| `VaultProofs!ShareAlwaysOneToken` | `Spec => []ShareIsOneToken` |
| `VaultProofs!AlwaysSolvent` | `Spec => []Solvent` |
| `VaultProofs!PrincipalAlwaysKept` | `Spec => []PrincipalKept` |
| `VaultProofs!AuditTrailKept` | `Spec => AuditTrail` |
| `VaultProofs!VaultImplementsCustody` | `Spec => ImplementsCustody` |
| `VaultProofs!TrailAlwaysReplays` | `Spec => []AuditTrailReplays` |
| `TreasuryProofs!TypeCorrect` | `Spec => []TypeOK` |
| `TreasuryProofs!FeesAlwaysExact` | `Spec => []FeeExact` |
| `TreasuryProofs!ChargesAlwaysCapped` | `Spec => ChargeCapped` |
| `TreasuryProofs!FeeChangesAlwaysAnnounced` | `Spec => FeeChangesAnnounced` |
| `TreasuryProofs!TrailAlwaysNumbers` | `Spec => []TrailNumbersEachDecision` |
| `VaultProofs!AgentTypeCorrect` | `AgentSpec => []AgentTypeOK` |
| `VaultProofs!VaultAlwaysCreatedOnce` | `AgentSpec => []VaultCreatedOnce` |
| `VaultProofs!AlwaysOneDecisionPerTick` | `AgentSpec => []OneDecisionPerTick` |
| `VaultProofs!AlwaysLandsOnLatest` | `AgentSpec => []LandsOnLatestDecision` |
| `VaultProofs!AnswersAlwaysKept` | `AgentSpec => []AnswersKeptOnChain` |
| `MppGatewayProofs!TypeCorrect` | `Spec => []TypeOK` |
| `MppGatewayProofs!OnePaymentOneCall` | `Spec => []OneCallPerPayment` |
| `MppGatewayProofs!BooksAlwaysBalance` | `Spec => []BooksBalance` |
| `MppGatewayProofs!GatewaySellsTickets` | `Spec => SellsTickets` |
| `MppGatewayProofs!KeysOutlivePayments` | `KeysLast`: `Spec => []KeyOutlivesPayment` |
| `SafeguardsProofs!TypesHold` | `Spec => []TypeOK` |
| `SafeguardsProofs!ServersSeeLock` | `Spec => LockSeenByServers` |
| `SafeguardsProofs!UsageNeverInvented` | `Spec => []UsageNotInvented` |
| `SafeguardsProofs!FileIsMemory` | `Alone`: `Spec => []DiskMatchesMemory` |
| `SafeguardsProofs!LockStaysOn` | `Alone`: `Spec => LockSticks` |
| `SafeguardsProofs!LimitsStayAsSet` | `Alone`: `Spec => LimitsStick` |
| `SafeguardsProofs!OvershootIsBounded` | `Steady`: `Spec => []OvershootBounded` |
| `LendingProofs!LendingTypes` | `Spec => []TypeOK` |
| `LendingProofs!RebalancesAreWhole` | `Spec => []RebalanceWholeOrThrown` |
| `LendingProofs!MovesGoUp` | `Spec => []MovesUpOnly` |
| `LendingProofs!FeesFollow` | `Spec => []FeeAfterOperation` |
| `PayPerCallProofs!PaymentTypes` | `Spec => []TypeOK` |
| `PayPerCallProofs!AmountsAgree` | `Spec => []VerifiersAgree` |
| `PayPerCallProofs!HonouredIsCovered` | `Spec => []HonouredArePaid` |
| `PayPerCallProofs!RefusalsHaveCause` | `Spec => []RefusedForCause` |
| `PayPerCallProofs!ServerSellsTickets` | `Spec => ImplementsTickets` |
| `FrontRegistryProofs!FrontTypeCorrect` | `Spec => []TypeOK` (of `GatewayFront`) |
| `FrontRegistryProofs!AlwaysLessThanTwiceMax` | `Spec => []LessThanTwiceMax` |
| `FrontRegistryProofs!RetryAfterAlwaysKept` | `Spec => RetryAfterKept` |
| `FrontRegistryProofs!PagingAlwaysMissesNothing` | `Spec => []PagingMissesNothing` |
| `FrontRegistryProofs!RegistryTypeCorrect` | `RegistrySpec => []RegistryTypeOK` |
| `FrontRegistryProofs!ListedAlwaysResolves` | `RegistrySpec => []ListedResolves` |
| `FrontRegistryProofs!PaidAlwaysFailsForCause` | `RegistrySpec => PaidFailsForCause` |
| `SafeguardsProofs!FilesTypeCorrect` | `FilesSpec => []FilesTypeOK` |
| `SafeguardsProofs!WalletsAlwaysSpared` | `FilesSpec => WalletsSpared` |
| `SafeguardsProofs!AloneAlwaysAtomic` | `FilesSpec => AloneIsAtomic` |

Three hypotheses are named in the table. They restrict who else is there, or relate
two constants of the code, never what the code is called with; and each is needed:
where it fails, the property does.

- `Alone`: one server, no CLI command and a disk that takes every write. With a CLI
  the run `safeguards_lock_lost` takes a lock off the file, and the other cases are
  [below](#where-the-code-and-its-documentation-disagree). Any number of calls
  overlap in that server, which may die and start again anywhere.
- `Steady`: `Alone`, and no client of the server sets limits; a limit that is
  lowered in the middle of a day leaves spending above it.
- `KeysLast`: `TX_TTL` exceeds `MAX_TX_AGE` (600 and 300 seconds in the code).

**The vault.** The inductive invariant `LedgerInv` is the conjunction of the
type invariant, the running totals, `ShareIsOneToken`, `Solvent` and
`PrincipalKept`, and no part of it is inductive without the others. A deposit
mints `amount * total_shares / total_deposits` shares; only because the two
totals are equal is this `amount`, and only because of the guard on
`total_deposits` does the cast to u64 change nothing. A withdrawal needs that a
position holds no more than the total, which is what the running totals say.
The totals are written as an accumulating function, `acc[u]` being the sum over
the users up to `u`, so that no induction over users is needed: a step of one
user shifts the function from that user on.

That the trail replays is an induction over the accounts, which `AuditTrailReplays`
hides in a `CHOOSE` of the recursive function `Replayed`. `StoryExists` shows that there
is such a function: the shortest list of accounts without one would have a list one
shorter with one, which the last account continues. `StoriesAgree` shows that two
trails that begin alike replay alike: else take the first number where they
differ. So an instruction that writes one account and keeps the others continues
the replay by one step (`Audited`), and the rest is what that instruction does to
`allocated_amount` and `active_strategy`.

**Sums.** `Safeguards`, `PayPerCall` and `GatewayFront` add over sets with `SumFunctionOnSet` of the
community modules, a fold that takes elements out in an order given by `CHOOSE`.
`SumLemmas` proves what such a sum is, again by taking the smallest set that breaks
the claim: `SumAdds` (an element more), `SumChanges` (one value other), `SumAgrees`,
`SumBounds`, `SumGrows`, `SumSkipsZeros`. No induction theorem with an operator parameter is used.

**The treasury.** `TypeOK` is inductive as it stands. A fee is
`amount * rate \div BPS_DENOMINATOR` and a rate is at most `MAX_FEE_BPS`, which is at
most the denominator: so the quotient is at most the amount, the cast is the
identity (`FeeArithmetic`), and the sum that `checked_add` guards stays in u64.
`ChargeCapped` is a property of the one step that moves tokens, by cases on whether
an account is the payer's, the treasury's, both or neither. The trail needs two
more conjuncts: `TrailInv` (the events are a sequence as long as the counter) and
`Numbered` (every event has the number its kind gives it, and a decision's event
describes its account), which a new event keeps because neither old events nor
old accounts change.

**The oracle agent.** `DecisionInv` says that the decision accounts are those of
`0..total_ai_decisions - 1`, that no tick holds a counter the vault has not
reached, and that the landed ticks are as many as the decisions, their ids being
exactly these numbers. The heart of it is one line: a tick lands only if its id
*is* the counter, ids are at most what the chain had when they were read, and what
it had is at most what it has; so all three are equal, which is
`LandsOnLatestDecision`, and the new id is none of the old ones. `ScriptInv` is
separate: a vault exists exactly when a script has created it, and no two have.

**The gateway.** The inductive invariant is `TypeOK` and `TicketInv`: a request
past verification has a transaction that pays its route; every row stands for a
transaction that covers it; an admitted or forwarded request has its row; and
two admitted requests never share a signature. The last one is what the insert
guarantees, and is independent of Redis: the proof uses no fact about `key`
beyond its type, which is the precise sense in which the database is
authoritative and Redis a fast path.

What Redis adds is `KeyInv`: no transaction has a block time in the future, and the key
of every request that Redis let through, and of every row, outlives the age at which
the verifier refuses. It says of `markUsed` what matters: the time is that of the
marking, so it is the order verify, mark, record which makes the key last. The
invariant proved is `redisWorks => KeyInv`: a Redis that has once failed or forgotten is
never again taken to work (`StillWorks`), so the other steps keep it.

**The safeguards.** `Typed` ties every task to the call it works on and holds for any
processes. `ServersSeeLock` follows from it and the step alone: `check` and
`assertNotLocked` load the file first, so a call that starts reads a lock that is on
disk, whatever the copies in memory say. `FileInv` is about one server: between
saves the file is the copy in memory; during one it is torn, and what is about to
be written keeps the lock, and the limits unless it is to set them.

`AddedInv` is about usage, for any processes and faults. `Added` are the payments
whose amount a server has put into its copy, a call of which the daily reset is still
being saved not being one of them yet. A step makes a copy's usage nothing, that of
another copy, or that of a copy and the amount of a payment which it moves into
`Added` (`UsageStep`); so no copy exceeds the sum over `Added`, which is at most that over
`Paid`.

The bound on spending needs most. `UsageInv`: what was spent today and is not `lost` is
in the file or is `Loose`, confirmed and about to be added. `Saves` says what a save may
do to the usage (nothing, a reset on a new day, the amount of its call); `FlightInv` that
the calls between check and recording are at most `MaxInFlight`, none above the limit
per transaction. A call is let through only if its amount and the usage in the file
stay within the limit; what is loose then and what is still being sent belongs to
the *other* calls in flight, and is at most `MaxInFlight - 1` times the limit per
transaction (`Room`). The reset at midnight is the hard case: a payment confirmed
yesterday is recorded into today's usage, so the file may count more than today's
spending and never less.

**Lending.** `LendingInv` is about each call by itself (`Progress`: how far it is says
which legs it has left and what it has done; `Whole`; `UpOnly`) and about what calls share:
a transaction under way names an account the wallet has (`AccountThere`), debts and supplies are
natural numbers, and `fees` counts the calls that paid one. A step of one call
leaves the records of the others alone, so only the shared part is proved across
calls. That `SortRatesDescending` picks a best venue (`BestIsBest`) is by two least
numbers, the shortfall of the rate and then the index; `MovesUpOnly` is this and the guard on
`minApyDelta`.

**The payments.** `PaymentInv` has one part for each actor and two sums. `ClientInv`: what
`j` signs is what it was asked for, and its plan adds up to the amount exactly.
The last is the algorithm's own correctness: call a set of accounts closed that contains with
an account all those richer; the plan takes from a closed set its whole
balance or the amount, whichever is less, by the smallest closed set that fails
(it has a last account, `LastAccount`); all accounts together are closed, and
cover the amount. `VerifyInv` and `OnceInv`: a verification past the sums has a final
transaction, and a consumed reference is of exactly one verification that is past the
store, its answer lost or not. `GainInv` and
`PricesInv` are the books: the server's account has gained the sum of what landed
payments brought, and the honoured entries cost the sum of the prices of their
payments. `HonouredArePaid` is then that a sum over some payments is at most that
over all (`SumGrows`). The refinement maps a landed payment to a paid ticket, a
consumed one to a used ticket and a receipt to the call it was good for.

**The limiter.** The number let through in a window is a sum over times, of
which all but the present ones are fixed. `AddressInv` says of each address what its
bucket tells about those sums. While the bucket is fresh (`WhileFresh`), what it
`Granted` all came since it was opened; fewer came after its first request; and what
came before, in any window that reaches to now, is fewer than `Allowance`, the maximum
for this process and for each it replaced. Once it is stale (`OnceStale`), the
last window got fewer than the allowance, so a new bucket may open. Any window then
holds fewer than the allowance and one maximum more, which is `LessThanTwiceMax`; and that is
a conjunct of the invariant, since of windows already past nothing else is kept.
`RetryAfterKept` needs that a promise is of the bucket that is fresh or ends before
that bucket opened (`PromiseInv`): so who comes back and is refused meets a full
bucket, all of whose grants came after the promised time.

**Paging.** The list is sorted by time with an order among equal times that may be
another one in each query, so the invariant avoids the order: the rank of a row is
`Newer`, the number of rows with a later time, and is its place in the list if no
other row shares its time. `RowsRead` says that a row there was at the start,
alone at its time and with a rank below the client's offset, has been read. An insert
only raises ranks, so what was below the offset was read and what is raised is still
ahead. A client ends when the count is at most its offset, and a rank is
below the count.

**The registry.** Table, lists, parameters and paths are any that satisfy the
[assumptions](#registry), so the proof is of what makes a path meet one row. A path that
is filled from a listed endpoint matches the row that lists it. If it matched another
row, that row would have the same service and length, so the two would differ in a
segment which is a parameter in neither; and the path has the one's text there, which
`MatchPath` compares with the other's (`RowsDiffer`, `ResolvesTo`). By the same fact rows
and endpoints are one to one (`EndpointsDiffer`), so `configuredRoutes` counts what
`/services` lists (`CountsAgree`), provided that what is sold is described. `CatalogueInv`: what anybody has read is offered by some row, whatever
process listed it. `CallInv` is about the await on the payment: the keys an admitted
call needs are set (`IsRouteConfigured`), and stay so because only `Redeploy` changes
`env`, and it ends the calls.

**The files.** `FilesInv` says that a file other than the session's is what it was
when it was last whole, or is torn (`FileOk`). `AloneRight`: a
command that has been alone on its file since it read it is about to write the change
of exactly those entries, whichever commands crashed before it began. `Unknowing` is
the half about keys: while there is no wallet nobody knows a key, and a command that is to
write a wallet unforced found none; so when another one has written it meanwhile, the
key that is overwritten is none that anybody knew when the command began.
`CommandsAssumption` only says that a command is about a file of its own kind.

**Only model-checked.** Liveness (`EveryRequestAnswered`, `ChargesEnd`), which is out
of the prover's reach. Every other property that a passing run checks is stated by one
of the theorems above.

## Where the code and its documentation disagree

One disagreement has a run of its own:

| Run | Statement | What happens |
|---|---|---|
| `safeguards_lock_lost` | only a human can unlock (`mcp/src/index.ts:351`) | `RecordingKeepsLock`: a server judges a call, `solobank lock` puts the lock on disk, the payment is confirmed, and `recordUsage` saves the server's old, unlocked copy over it |

The following are statements of the modules that no run checks because the code
does not keep them; each can be put in a `.cfg` to see TLC's counterexample:

| Definition | Statement | What happens |
|---|---|---|
| `AiVault!AllocationInActiveStrategy` | ai_rebalance moves the entire `allocated_amount` from the active strategy | two allocations to different strategies: the first is no longer in the active one |
| `Safeguards!LimitsStick`, with `Commands = {"set"}` | limits persist across restarts | a CLI that loads during a server's save takes the defaults and saves them |
| `Safeguards!LockStopsEverything` | lock disables all transactions | the CLI's send and pay do not ask the enforcer |
| `Safeguards!DailyLimitKept` | spending stays under the daily limit | two overlapping calls are judged against the same usage |
| `Safeguards!LockHolds`, with `Faults = {"disk"}` | after `solobank_lock` only a human can unlock | the save fails silently and the next check loads the unlocked file |
| `Registry!ListedIsServed` | `/services` gives "Available services and pricing" (`backend/README.md:70`) | a row whose bearer key is unset and not in its `requiredEnv` is listed and takes a payment; `bearer()` then throws in the proxy handler, and the paid call is answered 500 |
| `MppGateway!ReplaysAreRecorded` | the database decides what is a replay | a failed insert leaves the Redis key, and the payer's retry is refused as a replay |

Others are plain in a line or two, and the models follow the code:

- *Vault.* ai_allocate and ai_rebalance accept 0, the marker of an idle vault, as
  a target strategy (`lib.rs:214`, `:269`).
- *Limits.* `solobank_config` lets the agent set both limits to 0, which is
  unlimited (`mcp/src/index.ts:396`), where the skill's page says that it cannot
  disable them (`solobank-safeguards/SKILL.md:27`). Amounts are compared with
  the limits in units of the asset: 5 SOL count as 5 dollars
  (`mcp/src/index.ts:208`).
- *Fees.* `treasury.ts:17` says that a fee follows an operation that succeeded; a
  dry run of lend or borrow pays one too (`sdk/src/index.ts:584`, `:595`), which
  is why `FeeAfterOperation` makes an exception for them. The fee of a swap is
  reckoned on the raw amount of the source asset, whatever its decimals and
  price (`:562`), and that of a loan on the amount as if it were USDC.
- *Lending.* `minApyDelta` is documented as percent (`mcp/src/index.ts:336`, "0.5 =
  0.5%") and compared with fractions (`lending.ts:852`). The Kamino functions ignore
  `withdrawAll` and `repayAll`.
- *MPP.* The published server requires a reference store; the SDK's copy only warns
  without one (`sdk/src/mpp/server.ts:43`). The model has a store.
- *CLI.* `init` calls the asynchronous `getInstallStatus` and `installToConfig`
  without awaiting them, so `status.installed` is always undefined, and prints
  `p.name`, which does not exist (`program.ts:140`).
- *Scripts.* `contracts/agent/scripts/deposit.ts` imports `vaultDeposit` from an SDK
  that does not export it.
- *Statistics.* The frontend's page asks for `/stats?period=` without the
  administrator's token; a late answer for one period may replace a newer one.

## What the models show of the code besides

Behaviours that contradict no document and that the properties had to be stated
around:

- A rebalance whose second transaction fails leaves the funds in the wallet; the
  call throws and does not say that the first one landed
  (`RebalanceWholeOrThrown`). A rebalance without a protocol takes the *best*
  venue for the one to leave, so it always skips. Venues are matched by symbol or
  mint, so the two legs may be of different mints of one symbol.
- Two first lends that overlap each create a marginfi account; later calls use
  whichever `getMarginfiAccountsForAuthority` returns first (`lending.ts:377`).
- A client that throws though its transaction lands has paid; calling again pays
  again (`HonouredArePaid` holds because each payment is honoured once). The
  client confirms at `confirmed`, the server looks for `finalized` for about ten
  seconds: a refused credential may be presented again later
  (`RefusedForCause`). A store that sets the reference and loses its answer uses up a
  payment with no call served. `send` throws for amounts that print with an exponent.
- Two commands that create a wallet may overlap, and one of the two keys is lost
  before anybody relied on it; `createPinEncryptedKeypair` replaces any wallet
  without asking, and `--force` does so by intent (`WalletsSpared`). A wallet that a
  crash left torn blocks `init` until `--force`. The CLI and the MCP server pass no
  password, so an encrypted wallet only opens through the SDK. A session PIN is
  trimmed when it is read.
- Contacts, the hosts' MCP files and the legacy configuration load as empty when
  they are torn, and the next save makes that final (`AloneIsAtomic` speaks of
  files that were whole).
- The list of payments is ordered by `created_at` alone: rows of the same time may
  be missed by a client that pages (`PagingMissesNothing`). The two queries of the
  totals may disagree with each other.
- The limiter is in memory and fixed-window: almost twice the maximum can pass around
  a boundary, and a restart forgets it (`LessThanTwiceMax`). Requests without an
  address header share the bucket `unknown`.
- The model's confidence is cut to a byte: 326 lands as 70, and 70.5 as 70. The amount
  is floored after a product of doubles, so a whole number of raw units may land as
  one less. `AnswersKeptOnChain` is about answers in the prompt's schema.
- A rate-change event carries the counter after its increment and a decision event
  before: an id may appear on two events (`TrailNumbersEachDecision` says how to
  read them).

## Abstractions and their limits

- *Vault.* Users deposit from and withdraw into token accounts of their own, and
  do not pay each other outside the vault; the mint withholds no transfer fee
  (with one the vault would book more than it receives, `lib.rs:90`).
  `reasoning_hash`, timestamps, events, rent and the wording of errors are left
  out. One mint, hence one vault. The oracle's real-world moves are not on chain
  (the program says so) and not in the model.
- *Treasury.* `BPS_DENOMINATOR` and the cap are constants (2 and 1 for TLC); the
  SDK's 6 decimals are in the amounts. A payer has one transaction under way.
- *Oracle agent.* The product of doubles is off by less than one raw unit
  (`DriftAssumption`), which is so below 2^52 raw units, some four thousand million
  dollars. Strategy names are indices; the RPC's answer for a finalized state
  is any earlier counter.
- *Safeguards.* Amounts are small integers; the code's are JavaScript numbers in
  units of the asset. The other keys of `config.json` are left out. Two saves
  that overlap leave the later text over the earlier: readable if they are the
  same, either way otherwise. `pay` records `maxPrice`, not the price paid, and
  is the same as `send` here.
- *Lending.* Amounts are in one unit per mint; no interest accrues; a venue's program
  is its balances and the rule that debt stays covered by what is supplied to the
  protocol, for want of prices. Rates quoted are any.
- *Payments.* Amounts are halves of a raw unit, so that some have more decimals than
  the token. The wallet spends through the SDK only.
- *Gateway.* A transaction is the amount it moved to the recipient, whether it
  failed, and its block time or none; how the amount is worked out is in
  `PayPerCall`. A status below 500 from upstream is 200 and a final 5xx, which the
  code passes on, is 502; a header that passes the format check and then makes the
  verifier throw is counted with the malformed ones, both being answered 400.
- *Registry.* Of a row, the upstream address, the description and headers other than
  the keys' are left out. Paths are sequences of segments; a parameter is safe or
  not.
- *Front.* An address is what the header says. Filters of the list are left out.
- *Files.* A file is a set of named entries; a password either opens a key or does
  not. A write is one truncation and one fill.

## Not modelled

- *History, balances, position lists, tables and messages*: reads of the chain and
  their formatting; they change nothing and nothing is decided from them.
- *MCP prompts and the skills' pages*: prose for a language model. Where the pages
  make a claim about the safeguards it is compared with the code above.
- *The frontend*: documentation and marketing pages, which are most of the
  repository's remaining lines, and the statistics page, which keeps nothing.
- *The price-tracker bot*: a script that compares two columns of a table of its own,
  copied by hand from the registry and the providers' pages, and sends the result
  to a Telegram chat, once.
- *The end-to-end payment script*: one payment after another against a running gateway,
  and nothing kept; its requests are among those of `MppGateway`.
- *The providers in the registry's table*: their addresses and the other headers of their
  requests are data that nothing is decided by.
- *The client's `execute` relay* of the MPP method: the SDK does not pass it.
- *The legacy enforcer's checks*: functions of a configuration that nothing calls;
  the file it shares is in `LocalFiles`.
- *Health and discovery routes; reading the environment; finding host
  applications on the machine; `getStats` of the database layer, which no route
  calls.*

## Plan

1. A transfer fee of the mint as a constant of `AiVault`, with `Solvent` as it then
   is.
2. `PayPerCall` composed with `MppGateway`'s stores, so that the client's second
   payment meets the gateway's replay protection.
3. Interest in `Lending`, as far as it changes which venue a later call leaves.

## Running it

    tlc -config MCAiVault.cfg MCAiVault
    tlapm VaultProofs.tla

and likewise for the other configurations, each of which belongs to the MC module
whose name it begins with.
