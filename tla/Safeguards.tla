----------------------------- MODULE Safeguards -----------------------------
(***************************************************************************)
(* Spending limits and the emergency lock: SafeguardEnforcer (sdk) as the  *)
(* MCP servers and the CLI use it. Every process keeps its own copy of the *)
(* configuration and shares one file, config.json, with the others; a      *)
(* server is single-threaded but awaits the network between the check of a *)
(* call and the recording of its usage, so its calls interleave.           *)
(*                                                                         *)
(* One step is what a process does between two system calls that another   *)
(* process can see: a save is the truncation of the file and then the      *)
(* write, and a read in between finds no JSON.                             *)
(*                                                                         *)
(* Definitions named X_Y are X with a plausible mistake Y in it; nothing   *)
(* but the comparison of the two uses them.                                *)
(***************************************************************************)
EXTENDS Integers, FiniteSets, Functions

CONSTANTS
    Servers,      \* MCP server processes
    Cli,          \* the terminal, one command at a time
    Calls,        \* write-tool calls, and transfers made from the CLI
    NoCall,
    Amounts,      \* amounts of a call
    LimitValues,  \* values tried for maxPerTx and maxDailySend; 0 = unlimited
    MaxDay,       \* bound: days are 1..MaxDay, 0 stands for the empty date
    MaxInFlight,  \* bound: calls of all servers between check and record
    Tools,        \* safety tools the servers' clients use: lock, set, show
    Commands,     \* CLI commands used: lock, unlock, set, show, send
    Faults,       \* faults that may happen: crash, throw, disk
    InitialConfig \* what `solobank init` left in config.json

Procs == Servers \cup {Cli}
Days == 0..MaxDay

SafeguardConfig == [locked : BOOLEAN, maxPerTx : Nat, maxDailySend : Nat,
                    dailyUsed : Nat, dailyResetDate : Days]

DEFAULT_SAFEGUARD_CONFIG ==
    [locked |-> FALSE, maxPerTx |-> 0, maxDailySend |-> 0,
     dailyUsed |-> 0, dailyResetDate |-> 0]

OUTBOUND_OPS == {"send"}   \* and "pay", which differs only in its amount
Operations == OUTBOUND_OPS \cup {"swap"}

ASSUME ProcsAssumption == Cli \notin Servers /\ NoCall \notin Calls /\ IsFiniteSet(Calls)
ASSUME AmountsAssumption == Amounts \subseteq Nat /\ LimitValues \subseteq Nat
ASSUME BoundsAssumption == MaxDay \in Nat \ {0} /\ MaxInFlight \in Nat \ {0}
ASSUME ConfigAssumption ==
    InitialConfig \in SafeguardConfig /\ InitialConfig.dailyResetDate <= 1

VARIABLES
    today,     \* UTC calendar day
    disk,      \* the last configuration written to config.json
    readable,  \* config.json parses
    mem,       \* mem[p]: p's in-memory config
    task,      \* task[p]: where p is in its synchronous code
    call,      \* call[c]: progress of a transfer
    spent,     \* sent and paid on chain today (not visible to the enforcer)
    lost       \* the part of spent that no server records

vars == <<today, disk, readable, mem, task, call, spent, lost>>

\* step: down | idle | save (about to truncate) | opened (truncated)
\* then: what the code does once the save is over
Task == [step : {"down", "idle", "save", "opened"},
         then : {"return", "daily", "usage", "answer", "set", "unlock"},
         call : Calls \cup {NoCall}]

Down == [step |-> "down", then |-> "return", call |-> NoCall]
Idle == [step |-> "idle", then |-> "return", call |-> NoCall]
Saving(then, c) == [step |-> "save", then |-> then, call |-> c]

CallStates == {"new", "refused", "checking", "sending", "confirmed",
               "recording", "threw", "done"}

\* day: when the transaction was confirmed (not visible to the enforcer)
Call == [state : CallStates, op : Operations, amount : Nat, proc : Procs, day : Days]

\* A call between its check and the recording of its usage.
Unrecorded(c) == call[c].state \in {"sending", "confirmed", "recording"}

Init ==
    /\ today = 1
    /\ disk = InitialConfig
    /\ readable = TRUE
    /\ mem = [p \in Procs |-> DEFAULT_SAFEGUARD_CONFIG]
    /\ task = [p \in Procs |-> Down]
    /\ call = [c \in Calls |-> [state |-> "new", op |-> "swap", amount |-> 0, proc |-> Cli, day |-> 0]]
    /\ spent = 0
    /\ lost = 0

-----------------------------------------------------------------------------
(* SafeguardEnforcer                                                       *)

\* load: an unreadable file is the default configuration, which limits
\* nothing.
OnDisk == IF readable THEN disk ELSE DEFAULT_SAFEGUARD_CONFIG

\* isConfigured
IsConfigured(cfg) == cfg.maxPerTx > 0 \/ cfg.maxDailySend > 0

\* resetDailyIfNewDay, without the save it calls for.
NewDay(cfg) == cfg.dailyResetDate # today

ResetDaily_FromDefaults(cfg) ==
    [DEFAULT_SAFEGUARD_CONFIG EXCEPT !.maxPerTx = cfg.maxPerTx,
                                     !.maxDailySend = cfg.maxDailySend,
                                     !.dailyResetDate = today]

ResetDaily(cfg) == [cfg EXCEPT !.dailyUsed = 0, !.dailyResetDate = today]

\* The part of check that precedes resetDailyIfNewDay.
Rejected(cfg, op, amount) ==
    \/ cfg.locked
    \/ op \in OUTBOUND_OPS /\ cfg.maxPerTx > 0 /\ amount > cfg.maxPerTx

\* The part of check that follows it.
OverDaily(cfg, amount) ==
    cfg.maxDailySend > 0 /\ cfg.dailyUsed + amount > cfg.maxDailySend

Verdict(cfg, amount) == IF OverDaily(cfg, amount) THEN "refused" ELSE "sending"

\* recordUsage, past its resetDailyIfNewDay.
AddUsage(cfg, amount) == [cfg EXCEPT !.dailyUsed = @ + amount]

\* save begins: writeFileSync truncates.
Truncate(p) ==
    /\ task[p].step = "save"
    /\ readable' = FALSE
    /\ task' = [task EXCEPT ![p].step = "opened"]
    /\ UNCHANGED <<today, disk, mem, call, spent, lost>>

\* save ends. If another process has written since p truncated, p's text
\* lies over that text, and unless they are as long the file no longer parses.
PutOnDisk(p) ==
    /\ disk' = mem[p]
    /\ readable' \in (IF readable /\ disk # mem[p] THEN BOOLEAN ELSE {TRUE})

\* Where p's task stands once the synchronous code has returned.
Returned(p) == IF p = Cli THEN Down ELSE Idle

\* What p does after a save: return; answer the call whose usage was saved;
\* or, when it was the save of a daily reset, judge the daily limit (check) or
\* add the usage and save again (recordUsage).
AfterSave(p) ==
    LET c == task[p].call IN
    \/ /\ task[p].then \in {"return", "set", "unlock"}
       /\ task' = [task EXCEPT ![p] = Returned(p)]
       /\ UNCHANGED <<mem, call>>
    \/ /\ task[p].then = "answer"
       /\ call' = [call EXCEPT ![c].state = "done"]
       /\ task' = [task EXCEPT ![p] = Idle]
       /\ UNCHANGED mem
    \/ /\ task[p].then = "daily"
       /\ call' = [call EXCEPT ![c].state = Verdict(mem[p], call[c].amount)]
       /\ task' = [task EXCEPT ![p] = Idle]
       /\ UNCHANGED mem
    \/ /\ task[p].then = "usage"
       /\ mem' = [mem EXCEPT ![p] = AddUsage(@, call[c].amount)]
       /\ task' = [task EXCEPT ![p] = Saving("answer", c)]
       /\ UNCHANGED call

Write(p) ==
    /\ task[p].step = "opened"
    /\ PutOnDisk(p)
    /\ AfterSave(p)
    /\ UNCHANGED <<today, spent, lost>>

\* The file cannot be written (no space, no permission), before it has been
\* truncated or after: save swallows the error.
SaveFails(p) ==
    /\ "disk" \in Faults
    /\ task[p].step \in {"save", "opened"}
    /\ AfterSave(p)
    /\ UNCHANGED <<today, disk, readable, spent, lost>>

-----------------------------------------------------------------------------
(* The MCP server                                                          *)

StartServer_AnyConfig(p) ==
    /\ p \in Servers
    /\ task[p].step = "down"
    /\ mem' = [mem EXCEPT ![p] = OnDisk]
    /\ task' = [task EXCEPT ![p] = Idle]
    /\ UNCHANGED <<today, disk, readable, call, spent, lost>>

\* startMcpServer: the agent is loaded, and the process exits unless a limit
\* is set.
StartServer(p) ==
    /\ p \in Servers
    /\ task[p].step = "down"
    /\ IsConfigured(OnDisk)
    /\ mem' = [mem EXCEPT ![p] = OnDisk]
    /\ task' = [task EXCEPT ![p] = Idle]
    /\ UNCHANGED <<today, disk, readable, call, spent, lost>>

InFlight == {c \in Calls : call[c].state = "checking" \/ Unrecorded(c)}

CanCall(p, c) ==
    /\ p \in Servers
    /\ task[p].step = "idle"
    /\ call[c].state = "new"
    /\ Cardinality(InFlight) < MaxInFlight

\* The call's state after check (send, pay) or assertNotLocked (the rest).
StartedAs(p, c, op, amount, state) ==
    /\ mem' = [mem EXCEPT ![p] = OnDisk]
    /\ call' = [call EXCEPT ![c] = [state |-> state, op |-> op,
                                    amount |-> amount, proc |-> p, day |-> 0]]
    /\ UNCHANGED <<today, disk, readable, task, spent, lost>>

CallRejected(p, c, op, amount) ==
    /\ CanCall(p, c)
    /\ Rejected(OnDisk, op, amount)
    /\ StartedAs(p, c, op, amount, "refused")

CallUnlimited_TrustsMemory(p, c, op) ==
    /\ CanCall(p, c)
    /\ ~Rejected(mem[p], op, 0)
    /\ op \notin OUTBOUND_OPS
    /\ StartedAs(p, c, op, 0, "sending")

\* assertNotLocked: any other write, whatever its amount.
CallUnlimited(p, c, op) ==
    /\ CanCall(p, c)
    /\ ~Rejected(OnDisk, op, 0)
    /\ op \notin OUTBOUND_OPS
    /\ StartedAs(p, c, op, 0, "sending")

CallJudged(p, c, op, amount) ==
    /\ CanCall(p, c)
    /\ ~Rejected(OnDisk, op, amount)
    /\ op \in OUTBOUND_OPS
    /\ ~NewDay(OnDisk)
    /\ StartedAs(p, c, op, amount, Verdict(OnDisk, amount))

CallOnNewDay(p, c, op, amount) ==
    /\ CanCall(p, c)
    /\ ~Rejected(OnDisk, op, amount)
    /\ op \in OUTBOUND_OPS
    /\ NewDay(OnDisk)
    /\ mem' = [mem EXCEPT ![p] = ResetDaily(OnDisk)]
    /\ call' = [call EXCEPT ![c] = [state |-> "checking", op |-> op,
                                    amount |-> amount, proc |-> p, day |-> 0]]
    /\ task' = [task EXCEPT ![p] = Saving("daily", c)]
    /\ UNCHANGED <<today, disk, readable, spent, lost>>

\* The awaited transaction is confirmed; only send and pay on a server have
\* usage to record.
Confirm(c) ==
    /\ call[c].state = "sending"
    /\ call' = [call EXCEPT ![c].day = today,
                             ![c].state =
                   IF call[c].op \in OUTBOUND_OPS /\ call[c].proc # Cli
                   THEN "confirmed" ELSE "done"]
    /\ spent' = spent + call[c].amount
    /\ lost' = IF call[c].proc = Cli THEN lost + call[c].amount ELSE lost
    /\ UNCHANGED <<today, disk, readable, mem, task>>

\* The await throws (an RPC error, a lost confirmation): the tool answers with
\* an error and records nothing, whatever becomes of the transaction.
Throw(c) ==
    /\ "throw" \in Faults
    /\ call[c].state = "sending"
    /\ call' = [call EXCEPT ![c].state = "threw"]
    /\ UNCHANGED <<today, disk, readable, mem, task, spent, lost>>

\* A transaction whose await threw is settled by the chain all the same.
SettleLate(c) ==
    /\ call[c].state = "threw"
    /\ call' = [call EXCEPT ![c].state = "done"]
    /\ \E settled \in {0, call[c].amount} :
          /\ spent' = spent + settled
          /\ lost' = lost + settled
    /\ UNCHANGED <<today, disk, readable, mem, task>>

\* p resumes after the await of c.
Resumes(p, c) ==
    /\ p \in Servers
    /\ task[p].step = "idle"
    /\ call[c].state = "confirmed"
    /\ call[c].proc = p

RecordOnNewDay_CountsTwice(p, c) ==
    /\ NewDay(mem[p])
    /\ mem' = [mem EXCEPT ![p] = AddUsage(ResetDaily(@), call[c].amount)]
    /\ call' = [call EXCEPT ![c].state = "recording"]
    /\ task' = [task EXCEPT ![p] = Saving("usage", c)]

\* Past midnight since p's copy was dated: the reset and its save come first.
RecordOnNewDay(p, c) ==
    /\ NewDay(mem[p])
    /\ mem' = [mem EXCEPT ![p] = ResetDaily(@)]
    /\ call' = [call EXCEPT ![c].state = "recording"]
    /\ task' = [task EXCEPT ![p] = Saving("usage", c)]

RecordUsage_ForgetsUsage(p, c) ==
    /\ Resumes(p, c)
    /\ \/ RecordOnNewDay(p, c)
       \/ /\ ~NewDay(mem[p])
          /\ mem' = mem
          /\ call' = [call EXCEPT ![c].state = "recording"]
          /\ task' = [task EXCEPT ![p] = Saving("answer", c)]
    /\ UNCHANGED <<today, disk, readable, spent, lost>>

RecordUsage_Unsaved(p, c) ==
    /\ Resumes(p, c)
    /\ \/ RecordOnNewDay(p, c)
       \/ /\ ~NewDay(mem[p])
          /\ mem' = [mem EXCEPT ![p] = AddUsage(@, call[c].amount)]
          /\ call' = [call EXCEPT ![c].state = "done"]
          /\ task' = task
    /\ UNCHANGED <<today, disk, readable, spent, lost>>

\* recordUsage works on the configuration in memory: it does not load.
RecordUsage(p, c) ==
    /\ Resumes(p, c)
    /\ \/ RecordOnNewDay(p, c)
       \/ /\ ~NewDay(mem[p])
          /\ mem' = [mem EXCEPT ![p] = AddUsage(@, call[c].amount)]
          /\ call' = [call EXCEPT ![c].state = "recording"]
          /\ task' = [task EXCEPT ![p] = Saving("answer", c)]
    /\ UNCHANGED <<today, disk, readable, spent, lost>>

-----------------------------------------------------------------------------
(* lock, set and show: the safety tools and the CLI commands of that name. *)
(* lock and set, like unlock, change the copy in memory and save all of it. *)

Allowed(p, name) == name \in (IF p = Cli THEN Commands ELSE Tools)

SaveAs(p, cfg, then) ==
    /\ task[p].step = "idle"
    /\ mem' = [mem EXCEPT ![p] = cfg]
    /\ task' = [task EXCEPT ![p] = Saving(then, NoCall)]
    /\ UNCHANGED <<today, disk, readable, call, spent, lost>>

Lock(p) ==
    /\ Allowed(p, "lock")
    /\ SaveAs(p, [mem[p] EXCEPT !.locked = TRUE], "return")

SetLimit(p) ==
    /\ Allowed(p, "set")
    /\ \E value \in LimitValues :
          \/ SaveAs(p, [mem[p] EXCEPT !.maxPerTx = value], "set")
          \/ SaveAs(p, [mem[p] EXCEPT !.maxDailySend = value], "set")

\* getConfig
ShowConfig(p) ==
    /\ Allowed(p, "show")
    /\ \/ NewDay(OnDisk) /\ SaveAs(p, ResetDaily(OnDisk), "return")
       \/ /\ ~NewDay(OnDisk)
          /\ task[p].step = "idle"
          /\ mem' = [mem EXCEPT ![p] = OnDisk]
          /\ task' = [task EXCEPT ![p] = Returned(p)]
          /\ UNCHANGED <<today, disk, readable, call, spent, lost>>

-----------------------------------------------------------------------------
(* The CLI                                                                 *)

\* createProgram: every command loads before it acts.
StartCli ==
    /\ Commands # {}
    /\ task[Cli].step = "down"
    /\ mem' = [mem EXCEPT ![Cli] = OnDisk]
    /\ task' = [task EXCEPT ![Cli] = Idle]
    /\ UNCHANGED <<today, disk, readable, call, spent, lost>>

Unlock ==
    /\ Allowed(Cli, "unlock")
    /\ SaveAs(Cli, [mem[Cli] EXCEPT !.locked = FALSE], "unlock")

\* solobank send and pay never ask the enforcer.
CliSend(c, amount) ==
    /\ Allowed(Cli, "send")
    /\ task[Cli].step = "idle"
    /\ call[c].state = "new"
    /\ call' = [call EXCEPT ![c] = [state |-> "sending", op |-> "send",
                                    amount |-> amount, proc |-> Cli, day |-> 0]]
    /\ task' = [task EXCEPT ![Cli] = Down]
    /\ UNCHANGED <<today, disk, readable, mem, spent, lost>>

-----------------------------------------------------------------------------

\* Calls whose payment is in what was spent today and not yet in the file.
Loose == {c \in Calls : call[c].state \in {"confirmed", "recording"} /\ call[c].day = today}

\* Calls of servers that were seen confirmed.
Paid == {c \in Calls : call[c].proc \in Servers /\ call[c].day # 0}

Total(S) == SumFunctionOnSet([c \in Calls |-> call[c].amount], S)

\* A process dies: the transactions it was awaiting settle without it, those
\* it had not recorded it never will, and a file it had truncated stays empty.
Crash(p) ==
    /\ "crash" \in Faults
    /\ task[p].step # "down"
    /\ task' = [task EXCEPT ![p] = Down]
    /\ call' = [c \in Calls |->
                  IF call[c].proc = p
                  THEN CASE call[c].state = "sending" -> [call[c] EXCEPT !.state = "threw"]
                         [] call[c].state \in {"checking", "confirmed", "recording"} ->
                                [call[c] EXCEPT !.state = "done"]
                         [] OTHER -> call[c]
                  ELSE call[c]]
    /\ lost' = lost + Total({c \in Loose : call[c].proc = p})
    /\ UNCHANGED <<today, disk, readable, mem, spent>>

Midnight ==
    /\ today < MaxDay
    /\ today' = today + 1
    /\ spent' = 0
    /\ lost' = 0
    /\ UNCHANGED <<disk, readable, mem, task, call>>

CallNext ==
    \E c \in Calls :
        \/ \E p \in Servers, op \in Operations, amount \in Amounts :
              \/ CallRejected(p, c, op, amount)
              \/ CallUnlimited(p, c, op)
              \/ CallJudged(p, c, op, amount)
              \/ CallOnNewDay(p, c, op, amount)
        \/ Confirm(c)
        \/ Throw(c)
        \/ SettleLate(c)
        \/ \E p \in Servers : RecordUsage(p, c)
        \/ \E amount \in Amounts : CliSend(c, amount)

ProcNext ==
    \E p \in Procs :
        \/ Truncate(p) \/ Write(p) \/ SaveFails(p)
        \/ StartServer(p) \/ Lock(p) \/ SetLimit(p) \/ ShowConfig(p) \/ Crash(p)

Next == CallNext \/ ProcNext \/ StartCli \/ Unlock \/ Midnight

Spec == Init /\ [][Next]_vars

-----------------------------------------------------------------------------
(* Properties                                                              *)

\* Types, and a call that a server checks or records is one of its task's.
TypeOK ==
    /\ today \in 1..MaxDay
    /\ disk \in SafeguardConfig
    /\ readable \in BOOLEAN
    /\ mem \in [Procs -> SafeguardConfig]
    /\ task \in [Procs -> Task]
    /\ call \in [Calls -> Call]
    /\ spent \in Nat /\ lost \in Nat
    /\ \A c \in Calls :
          call[c].state \in {"checking", "recording"} =>
              \E p \in Servers : call[c].proc = p /\ task[p].call = c

\* "Only a human can unlock via: solobank unlock" (mcp/src/index.ts): the lock
\* on disk goes from on to off in no step but the write of that command. True
\* of one server by itself, false as soon as a CLI writes beside it.
LockSticks ==
    [][disk.locked /\ ~disk'.locked => task[Cli].then = "unlock"]_vars

\* The same sentence of the docs, of the save that ends a call: recording what
\* a call has used takes no lock off the file. recordUsage saves the copy in
\* memory, which may be older than the lock.
RecordingKeepsLock ==
    [][\A p \in Servers :
          disk.locked /\ ~disk'.locked /\ task[p].then = "answer"
          => task'[p] = task[p]]_vars

\* "Built-in spending controls that persist across restarts" (README.md): on
\* disk the limits change only in the write of a process that sets them.
LimitsStick ==
    [][UNCHANGED <<disk.maxPerTx, disk.maxDailySend>>
         \/ \E p \in Procs : task[p].then = "set"]_vars

\* What goes out on chain in a day overshoots the daily limit at most by the
\* calls that were checked beside the last one, each within the limit per
\* transaction, and by what no server records; with MaxInFlight = 1 and no
\* failure the limit is exact. Through midnight, crashes, restarts and failed
\* calls of one server.
OvershootBounded ==
    \A p \in Servers :
        task[p].step # "down" /\ mem[p].maxDailySend > 0 /\ mem[p].maxPerTx > 0 =>
            spent - lost <= mem[p].maxDailySend + (MaxInFlight - 1) * mem[p].maxPerTx

\* With one server and no CLI the file is that server's memory whenever the
\* server is not in the middle of a save, so a restart loses no limit, no
\* lock and no recorded usage.
DiskMatchesMemory ==
    \A p \in Servers : task[p].step = "idle" => readable /\ disk = mem[p]

\* A server obeys a lock that any process has put on disk, in memory or not:
\* while the file reads locked no call of a server gets past its check.
LockSeenByServers ==
    [][\A c \in Calls :
          /\ readable /\ disk.locked
          /\ call[c].state = "new"
          /\ call'[c].state \in {"sending", "checking"}
          => call'[c].proc = Cli]_vars

\* The usage a process decides by, and the usage on disk, count payments that
\* a server saw confirmed and none of them twice: whatever copies processes
\* read and write over each other, whatever saves fail, past midnight or not,
\* nothing eats up the limit but payments (before the first, what `init` left).
UsageNotInvented ==
    \A cfg \in {disk} \cup {mem[p] : p \in Procs} :
        cfg.dailyUsed <= InitialConfig.dailyUsed + Total(Paid)

\* "disables all transactions" (cli/src/program.ts): nothing is sent past a
\* lock. The CLI's own send and pay do not ask the enforcer.
LockStopsEverything ==
    [][\A c \in Calls :
          readable /\ disk.locked /\ call[c].state = "new"
          => call'[c].state \notin {"sending", "checking"}]_vars

\* "Freeze all agent operations immediately. Only a human can unlock"
\* (mcp/src/index.ts): the copy a running server decides by goes from locked
\* to unlocked only when the file does, by the unlock command. save swallows
\* its errors and the next check loads the file again.
LockHolds ==
    [][\A p \in Servers :
          task[p].step # "down" /\ mem[p].locked /\ ~mem'[p].locked
          => "unlock" \in Commands]_vars

\* "cumulative ... spend stays under maxDailySend. Any failure aborts before
\* broadcasting" (skills/solobank-safeguards/SKILL.md). Two calls of one
\* server that overlap are both checked against the usage before either.
DailyLimitKept ==
    InitialConfig.maxDailySend > 0 => spent <= InitialConfig.maxDailySend

=============================================================================
