-------------------------- MODULE SafeguardsProofs --------------------------
(***************************************************************************)
(* What holds of the spending limits and the lock for any processes, calls *)
(* and amounts; and what one server that has its file to itself adds. Then *)
(* the other local files, for any processes, commands and keys.            *)
(***************************************************************************)
EXTENDS Safeguards, LocalFiles, SumLemmas

-----------------------------------------------------------------------------
(* Types                                                                   *)

\* What calls add up to is a natural number.
LEMMA TotalNat ==
    ASSUME TypeOK, NEW S \in SUBSET Calls
    PROVE  Total(S) \in Nat
<1> DEFINE f == [c \in Calls |-> call[c].amount]
<1>1. IsFiniteSet(S)
  BY ProcsAssumption, FS_Subset
<1>2. \A c \in S : f[c] \in Nat
  BY DEF TypeOK, Call
<1> HIDE DEF f
<1>3. SumFunctionOnSet(f, S) \in Nat
  BY <1>1, <1>2, SumNat
<1>4. QED
  BY <1>3 DEF Total, f

\* A task and the call it works on name each other.
TaskInv ==
    \A p \in Procs :
        /\ task[p].step \in {"down", "idle"} => task[p] \in {Down, Idle}
        /\ task[p].then \in {"return", "set", "unlock"} => task[p].call = NoCall
        /\ task[p].then = "daily" =>
              /\ p \in Servers /\ task[p].call \in Calls
              /\ call[task[p].call].state = "checking" /\ call[task[p].call].proc = p
        /\ task[p].then \in {"usage", "answer"} =>
              /\ p \in Servers /\ task[p].call \in Calls
              /\ call[task[p].call].state = "recording" /\ call[task[p].call].proc = p

Typed == TypeOK /\ TaskInv

\* Every configuration the code writes down is a configuration.
LEMMA ConfigTypes ==
    ASSUME TypeOK
    PROVE  /\ OnDisk \in SafeguardConfig
           /\ \A cfg \in SafeguardConfig :
                 /\ ResetDaily(cfg) \in SafeguardConfig
                 /\ \A n \in Nat : /\ AddUsage(cfg, n) \in SafeguardConfig
                                   /\ [cfg EXCEPT !.maxPerTx = n] \in SafeguardConfig
                                   /\ [cfg EXCEPT !.maxDailySend = n] \in SafeguardConfig
                 /\ \A b \in BOOLEAN : [cfg EXCEPT !.locked = b] \in SafeguardConfig
<1>1. today \in Days /\ 0 \in Days
  BY BoundsAssumption DEF TypeOK, Days
<1>2. DEFAULT_SAFEGUARD_CONFIG \in SafeguardConfig
  BY <1>1 DEF DEFAULT_SAFEGUARD_CONFIG, SafeguardConfig
<1>3. OnDisk \in SafeguardConfig
  BY <1>2 DEF TypeOK, OnDisk
<1>4. ASSUME NEW cfg \in SafeguardConfig
      PROVE  /\ ResetDaily(cfg) \in SafeguardConfig
             /\ \A b \in BOOLEAN : [cfg EXCEPT !.locked = b] \in SafeguardConfig
             /\ \A n \in Nat : [cfg EXCEPT !.maxPerTx = n] \in SafeguardConfig
             /\ \A n \in Nat : [cfg EXCEPT !.maxDailySend = n] \in SafeguardConfig
  BY <1>1 DEF ResetDaily, SafeguardConfig
<1>5. ASSUME NEW cfg \in SafeguardConfig, NEW n \in Nat
      PROVE  AddUsage(cfg, n) \in SafeguardConfig
  BY DEF AddUsage, SafeguardConfig
<1>6. QED
  BY <1>3, <1>4, <1>5

\* The calls a server is checking or recording when a save of p ends: only
\* p's own may be one, and it is then p's task.
LEMMA TaskOfCall ==
    ASSUME Typed, NEW p \in Procs, NEW c \in Calls,
           call[c].state \in {"checking", "recording"}
    PROVE  call[c].proc \in Servers /\ task[call[c].proc].call = c
  BY DEF Typed, TypeOK

\* What follows a save keeps the types.
LEMMA AfterSaveTypes ==
    ASSUME Typed, NEW p \in Procs, task[p].step \in {"save", "opened"}, AfterSave(p),
           UNCHANGED <<today, spent, lost>>,
           disk' \in SafeguardConfig, readable' \in BOOLEAN
    PROVE  Typed'
<1> DEFINE c == task[p].call
<1>1. CASE /\ task[p].then \in {"return", "set", "unlock"}
           /\ task' = [task EXCEPT ![p] = Returned(p)] /\ UNCHANGED <<mem, call>>
  <2>1. Returned(p) \in {Down, Idle} /\ Down \in Task /\ Idle \in Task
    BY DEF Returned, Down, Idle, Task
  <2>2. \A d \in Calls : call[d].state \in {"checking", "recording"} => call[d].proc # p
    BY <1>1, ProcsAssumption DEF Typed, TypeOK, TaskInv
  <2>3. TypeOK'
    BY <1>1, <2>1, <2>2 DEF Typed, TypeOK
  <2>4. QED
    BY <1>1, <2>1, <2>2, <2>3 DEF Typed, TaskInv, TypeOK, Down, Idle
<1>2. ASSUME NEW s \in {"done", "refused", "sending"},
             task[p].then \in {"answer", "daily"},
             call' = [call EXCEPT ![c].state = s],
             task' = [task EXCEPT ![p] = Idle], UNCHANGED mem
      PROVE  Typed'
  <2>1. c \in Calls /\ call[c].state \in {"checking", "recording"} /\ Idle \in Task
    BY <1>2 DEF Typed, TaskInv, Idle, Task
  <2>2. call' \in [Calls -> Call]
    BY <1>2, <2>1 DEF Typed, TypeOK, Call, CallStates
  <2>3. \A d \in Calls : call[d].state \in {"checking", "recording"} /\ d # c => call[d].proc # p
    BY TaskOfCall
  <2>4. TypeOK'
    BY <1>2, <2>1, <2>2, <2>3 DEF Typed, TypeOK
  <2>5. \A q \in Procs : q # p => task[q].call # c \/ task[q].then \in {"return", "set", "unlock"}
    BY <2>1, <1>2 DEF Typed, TaskInv, TypeOK, Task
  <2>6. QED
    BY <1>2, <2>1, <2>4, <2>5 DEF Typed, TaskInv, TypeOK, Idle
<1>3. CASE /\ task[p].then = "usage"
           /\ mem' = [mem EXCEPT ![p] = AddUsage(@, call[c].amount)]
           /\ task' = [task EXCEPT ![p] = Saving("answer", c)] /\ UNCHANGED call
  <2>1. c \in Calls /\ p \in Servers /\ call[c].state = "recording"
    BY <1>3 DEF Typed, TaskInv
  <2>2. mem' \in [Procs -> SafeguardConfig]
    BY <1>3, <2>1, ConfigTypes DEF Typed, TypeOK, Call
  <2>3. Saving("answer", c) \in Task
    BY <2>1 DEF Saving, Task
  <2>4. TypeOK'
    BY <1>3, <2>1, <2>2, <2>3 DEF Typed, TypeOK, Saving
  <2>5. QED
    BY <1>3, <2>1, <2>3, <2>4 DEF Typed, TaskInv, TypeOK, Saving
<1>4. \A cfg \in SafeguardConfig, n \in Nat : Verdict(cfg, n) \in {"refused", "sending"}
  BY DEF Verdict
<1>5. QED
  BY <1>1, <1>2, <1>3, <1>4 DEF AfterSave, Verdict

\* Init, and every step, is typed, and a task stays in step with its call.
LEMMA TypedInit == Init => Typed
<1>1. SUFFICES ASSUME Init PROVE Typed
  OBVIOUS
<1>2. 0 \in Days /\ 1 \in 1..MaxDay /\ DEFAULT_SAFEGUARD_CONFIG \in SafeguardConfig
  BY BoundsAssumption DEF Days, DEFAULT_SAFEGUARD_CONFIG, SafeguardConfig
<1>3. Down \in Task /\ Cli \in Procs
  BY DEF Down, Task, Procs
<1>4. TypeOK
  BY <1>1, <1>2, <1>3, ConfigAssumption
     DEF Init, TypeOK, Call, CallStates, Operations, OUTBOUND_OPS
<1>5. TaskInv
  BY <1>1 DEF Init, TaskInv, Down
<1>6. QED
  BY <1>4, <1>5 DEF Typed

\* The steps of a process that touch no call.
LEMMA TypedProc ==
    ASSUME Typed, NEW p \in Procs,
           NEW cfg \in SafeguardConfig, NEW tk \in Task,
           mem' = [mem EXCEPT ![p] = cfg], task' = [task EXCEPT ![p] = tk],
           task[p].step \in {"down", "idle"},
           tk \in {Down, Idle} \/ \E then \in {"return", "set", "unlock"} : tk = Saving(then, NoCall),
           UNCHANGED <<today, disk, readable, call, spent, lost>>
    PROVE  Typed'
<1>1. \A d \in Calls : call[d].state \in {"checking", "recording"} => call[d].proc # p
  BY ProcsAssumption DEF Typed, TypeOK, TaskInv, Down, Idle
<1>2. TypeOK'
  BY <1>1 DEF Typed, TypeOK
<1>3. TaskInv'
  BY <1>1, <1>2 DEF Typed, TypeOK, TaskInv, Down, Idle, Saving
<1>4. QED
  BY <1>2, <1>3 DEF Typed

\* The steps that change one call.
LEMMA TypedCall ==
    ASSUME Typed, NEW c \in Calls, NEW r \in Call,
           call' = [call EXCEPT ![c] = r],
           call[c].state \notin {"checking", "recording"},
           r.state \notin {"checking", "recording"},
           mem' \in [Procs -> SafeguardConfig],
           task' \in [Procs -> Task],
           \A p \in Procs : task'[p] = task[p]
                \/ (task[p].step \in {"down", "idle"} /\ task'[p] \in {Down, Idle}),
           spent' \in Nat, lost' \in Nat, UNCHANGED <<today, disk, readable>>
    PROVE  Typed'
<1>1. call' \in [Calls -> Call]
  BY DEF Typed, TypeOK
<1>2. \A d \in Calls : \A p \in Procs :
         call[d].state \in {"checking", "recording"} /\ call[d].proc = p =>
             task'[p] = task[p]
  BY ProcsAssumption DEF Typed, TypeOK, TaskInv, Down, Idle
<1>3. TypeOK'
  BY <1>1, <1>2 DEF Typed, TypeOK, Procs
<1>4. TaskInv'
  BY <1>1, <1>2, <1>3 DEF Typed, TypeOK, TaskInv, Down, Idle
<1>5. QED
  BY <1>3, <1>4 DEF Typed

\* The steps in which a server turns to a call and saves.
LEMMA TypedTurn ==
    ASSUME Typed, NEW p \in Servers, NEW c \in Calls, NEW r \in Call,
           NEW cfg \in SafeguardConfig, NEW then \in {"daily", "usage", "answer"},
           r.state = IF then = "daily" THEN "checking" ELSE "recording",
           task[p].step = "idle", call[c].state \notin {"checking", "recording"}, r.proc = p,
           mem' = [mem EXCEPT ![p] = cfg], call' = [call EXCEPT ![c] = r],
           task' = [task EXCEPT ![p] = Saving(then, c)],
           UNCHANGED <<today, disk, readable, spent, lost>>
    PROVE  Typed'
<1>1. p \in Procs /\ task[p].then = "return" /\ Saving(then, c) \in Task
  BY DEF Typed, TypeOK, TaskInv, Down, Idle, Procs, Saving, Task
<1>2. \A d \in Calls : call[d].state \in {"checking", "recording"} => d # c /\ call[d].proc # p
  BY <1>1, ProcsAssumption DEF Typed, TypeOK, TaskInv, Idle, Down
<1>3. TypeOK'
  BY <1>1, <1>2 DEF Typed, TypeOK, Saving
<1>4. TaskInv'
  BY <1>1, <1>2, <1>3 DEF Typed, TypeOK, TaskInv, Down, Idle, Saving
<1>5. QED
  BY <1>3, <1>4 DEF Typed

LEMMA TypedCrash ==
    ASSUME Typed, NEW p \in Procs, Crash(p)
    PROVE  Typed'
<1>1. call' \in [Calls -> Call]
  BY DEF Crash, Typed, TypeOK, Call, CallStates
<1>2. lost' \in Nat
  <2>1. {c \in Loose : call[c].proc = p} \in SUBSET Calls
    BY DEF Loose
  <2>2. Total({c \in Loose : call[c].proc = p}) \in Nat
    BY <2>1, TotalNat DEF Typed
  <2>3. QED
    BY <2>2 DEF Crash, Typed, TypeOK
<1>3. \A d \in Calls : call'[d].state \in {"checking", "recording"} =>
         call[d] = call'[d] /\ call[d].proc # p
  BY DEF Crash, Typed, TypeOK, Call, CallStates
<1>4. \A q \in Procs : task'[q] = IF q = p THEN Down ELSE task[q]
  BY DEF Crash, Typed, TypeOK
<1>5. TypeOK'
  BY <1>1, <1>2, <1>3, <1>4 DEF Crash, Typed, TypeOK, Down, Task, Procs
<1>6. TaskInv'
  BY <1>4 DEF Crash, Typed, TypeOK, TaskInv, Down, Idle
<1>7. QED
  BY <1>5, <1>6 DEF Typed

\* Every step keeps the types, and tasks and calls in step.
LEMMA TypedStep ==
    ASSUME Typed, [Next]_vars
    PROVE  Typed'
<1>1. /\ \A p \in Servers : p \in Procs
      /\ Cli \in Procs /\ Down \in Task /\ Idle \in Task
      /\ \A then \in {"return", "set", "unlock"} : Saving(then, NoCall) \in Task
      /\ \A p \in Procs : Returned(p) \in {Down, Idle} /\ mem[p] \in SafeguardConfig
      /\ \A c \in Calls : call[c] \in Call
      /\ OnDisk \in SafeguardConfig /\ ResetDaily(OnDisk) \in SafeguardConfig
  BY ConfigTypes DEF Typed, TypeOK, Procs, Down, Idle, Task, Saving, Returned
<1>2. \A p \in Servers, op \in Operations, n \in Nat, d \in Days, s \in CallStates :
         [state |-> s, op |-> op, amount |-> n, proc |-> p, day |-> d] \in Call
  BY <1>1 DEF Call
<1>3. today \in Days /\ 0 \in Days /\ today \in 1..MaxDay /\ spent \in Nat /\ lost \in Nat
  BY BoundsAssumption DEF Typed, TypeOK, Days
<1>4. ASSUME NEW c \in Calls, NEW p \in Servers, NEW op \in Operations, NEW amount \in Nat,
             NEW state \in {"refused", "sending"}, CanCall(p, c),
             StartedAs(p, c, op, amount, state)
      PROVE  Typed'
  <2>1. [state |-> state, op |-> op, amount |-> amount, proc |-> p, day |-> 0] \in Call
    BY <1>2, <1>3 DEF CallStates
  <2>2. mem' \in [Procs -> SafeguardConfig] /\ task' \in [Procs -> Task]
    BY <1>1, <1>4 DEF StartedAs, Typed, TypeOK
  <2>3. QED
    <3>1. PICK r \in Call : r.state = state /\ call' = [call EXCEPT ![c] = r]
      BY <1>4, <2>1 DEF StartedAs
    <3>2. /\ call[c].state \notin {"checking", "recording"} /\ r.state \notin {"checking", "recording"}
          /\ \A q \in Procs : task'[q] = task[q]
          /\ spent' \in Nat /\ lost' \in Nat /\ UNCHANGED <<today, disk, readable>>
      BY <1>3, <1>4, <3>1 DEF StartedAs, CanCall
    <3>3. QED
      BY <2>2, <3>1, <3>2, TypedCall
<1>5. ASSUME NEW c \in Calls, NEW p \in Servers, NEW op \in Operations, NEW amount \in Amounts
      PROVE  /\ amount \in Nat
             /\ CallRejected(p, c, op, amount) => Typed'
             /\ CallUnlimited(p, c, op) => Typed'
             /\ CallJudged(p, c, op, amount) => Typed'
  <2>1. amount \in Nat /\ 0 \in Nat /\ Verdict(OnDisk, amount) \in {"refused", "sending"}
    BY AmountsAssumption DEF Verdict
  <2>2. QED
    BY <1>4, <2>1 DEF CallRejected, CallUnlimited, CallJudged
<1>6. ASSUME NEW c \in Calls, NEW p \in Servers, NEW op \in Operations, NEW amount \in Nat,
             CallOnNewDay(p, c, op, amount)
      PROVE  Typed'
  <2>1. [state |-> "checking", op |-> op, amount |-> amount, proc |-> p, day |-> 0] \in Call
    BY <1>2, <1>3 DEF CallStates
  <2>2. QED
    <3>1. PICK r \in Call, cfg \in SafeguardConfig :
             /\ r.state = "checking" /\ r.proc = p
             /\ call' = [call EXCEPT ![c] = r] /\ mem' = [mem EXCEPT ![p] = cfg]
      BY <1>1, <1>6, <2>1 DEF CallOnNewDay
    <3>2. /\ task[p].step = "idle" /\ call[c].state \notin {"checking", "recording"}
          /\ task' = [task EXCEPT ![p] = Saving("daily", c)]
          /\ r.state = IF "daily" = "daily" THEN "checking" ELSE "recording"
          /\ UNCHANGED <<today, disk, readable, spent, lost>>
      BY <1>6, <3>1 DEF CallOnNewDay, CanCall
    <3>3. QED
      BY <3>1, <3>2, TypedTurn
<1>7. ASSUME NEW c \in Calls, Confirm(c) PROVE Typed'
  <2>1. PICK s \in {"confirmed", "done"} : call' = [call EXCEPT ![c].day = today, ![c].state = s]
    BY <1>7 DEF Confirm
  <2>2. [call[c] EXCEPT !.day = today, !.state = s] \in Call
    BY <1>1, <1>3 DEF Call, CallStates
  <2>3. call' = [call EXCEPT ![c] = [call[c] EXCEPT !.day = today, !.state = s]]
    BY <2>1 DEF Typed, TypeOK
  <2>4. spent' \in Nat /\ lost' \in Nat
    BY <1>1, <1>3, <1>7 DEF Confirm, Call
  <2>5. QED
    <3>1. PICK r \in Call : r.state = s /\ call' = [call EXCEPT ![c] = r]
      BY <1>1, <2>2, <2>3 DEF Call
    <3>2. /\ call[c].state \notin {"checking", "recording"} /\ r.state \notin {"checking", "recording"}
          /\ \A q \in Procs : task'[q] = task[q]
          /\ UNCHANGED <<today, disk, readable>>
          /\ mem' \in [Procs -> SafeguardConfig] /\ task' \in [Procs -> Task]
      BY <1>7, <3>1 DEF Confirm, Typed, TypeOK
    <3>3. QED
      BY <2>4, <3>1, <3>2, TypedCall
<1>8. ASSUME NEW c \in Calls, Throw(c) \/ SettleLate(c) PROVE Typed'
  <2>1. PICK s \in {"threw", "done"} : call' = [call EXCEPT ![c].state = s]
    BY <1>8 DEF Throw, SettleLate
  <2>2. [call[c] EXCEPT !.state = s] \in Call
    BY <1>1 DEF Call, CallStates
  <2>3. call' = [call EXCEPT ![c] = [call[c] EXCEPT !.state = s]]
    BY <2>1 DEF Typed, TypeOK
  <2>4. spent' \in Nat /\ lost' \in Nat
    BY <1>1, <1>3, <1>8 DEF Throw, SettleLate, Call
  <2>5. UNCHANGED <<today, disk, readable, mem, task>> /\ call[c].state \in {"sending", "threw"}
    BY <1>8 DEF Throw, SettleLate
  <2>6. QED
    <3>1. PICK r \in Call : r.state = s /\ call' = [call EXCEPT ![c] = r]
      BY <1>1, <2>2, <2>3 DEF Call
    <3>2. /\ call[c].state \notin {"checking", "recording"} /\ r.state \notin {"checking", "recording"}
          /\ \A q \in Procs : task'[q] = task[q]
          /\ UNCHANGED <<today, disk, readable>>
          /\ mem' \in [Procs -> SafeguardConfig] /\ task' \in [Procs -> Task]
      BY <2>5, <3>1 DEF Typed, TypeOK
    <3>3. QED
      BY <2>4, <3>1, <3>2, TypedCall
<1>9. ASSUME NEW c \in Calls, NEW p \in Servers, RecordUsage(p, c) PROVE Typed'
  <2>1. PICK cfg \in SafeguardConfig, then \in {"usage", "answer"} :
           /\ mem' = [mem EXCEPT ![p] = cfg]
           /\ task' = [task EXCEPT ![p] = Saving(then, c)]
           /\ call' = [call EXCEPT ![c].state = "recording"]
    <3>1. ResetDaily(mem[p]) \in SafeguardConfig
      BY <1>1, ConfigTypes DEF Typed
    <3>2. AddUsage(mem[p], call[c].amount) \in SafeguardConfig
      BY <1>1, ConfigTypes DEF Typed, Call
    <3>3. CASE RecordOnNewDay(p, c)
      BY <1>1, <3>1, <3>3 DEF RecordOnNewDay
    <3>4. CASE ~RecordOnNewDay(p, c)
      BY <1>1, <1>9, <3>2, <3>4 DEF RecordUsage
    <3>5. QED
      BY <3>3, <3>4
  <2>2. [call[c] EXCEPT !.state = "recording"] \in Call
    BY <1>1 DEF Call, CallStates
  <2>3. call' = [call EXCEPT ![c] = [call[c] EXCEPT !.state = "recording"]]
    BY <2>1 DEF Typed, TypeOK
  <2>4. QED
    <3>1. PICK r \in Call : r.state = "recording" /\ r.proc = p /\ call' = [call EXCEPT ![c] = r]
      BY <1>1, <1>9, <2>2, <2>3 DEF Call, RecordUsage, Resumes
    <3>2. /\ task[p].step = "idle" /\ call[c].state \notin {"checking", "recording"}
          /\ UNCHANGED <<today, disk, readable, spent, lost>>
          /\ r.state = IF then = "daily" THEN "checking" ELSE "recording"
      BY <1>9, <2>1, <3>1 DEF RecordUsage, Resumes
    <3>3. QED
      BY <2>1, <3>1, <3>2, TypedTurn
<1>10. ASSUME NEW c \in Calls, NEW amount \in Amounts, CliSend(c, amount) PROVE Typed'
  <2>1. [state |-> "sending", op |-> "send", amount |-> amount, proc |-> Cli, day |-> 0] \in Call
    BY <1>1, <1>3, AmountsAssumption DEF Call, CallStates, Operations, OUTBOUND_OPS
  <2>2. QED
    <3>1. PICK r \in Call : r.state = "sending" /\ call' = [call EXCEPT ![c] = r]
      BY <1>10, <2>1 DEF CliSend
    <3>2. /\ call[c].state \notin {"checking", "recording"} /\ r.state \notin {"checking", "recording"}
          /\ \A q \in Procs : task'[q] = task[q]
                \/ (task[q].step \in {"down", "idle"} /\ task'[q] \in {Down, Idle})
          /\ spent' \in Nat /\ lost' \in Nat /\ UNCHANGED <<today, disk, readable>>
          /\ mem' \in [Procs -> SafeguardConfig] /\ task' \in [Procs -> Task]
      BY <1>1, <1>10, <3>1 DEF CliSend, Typed, TypeOK
    <3>3. QED
      BY <3>1, <3>2, TypedCall
<1>11. ASSUME NEW p \in Procs, Truncate(p) PROVE Typed'
  <2>1. [task[p] EXCEPT !.step = "opened"] \in Task
    BY DEF Typed, TypeOK, Task
  <2>2. TypeOK'
    <3>1. \A q \in Procs : task'[q].call = task[q].call
      BY <1>11, <2>1 DEF Truncate, Typed, TypeOK, Task
    <3>2. QED
      BY <1>11, <2>1, <3>1 DEF Truncate, Typed, TypeOK, Procs
  <2>3. QED
    BY <1>11, <2>1, <2>2 DEF Truncate, Typed, TypeOK, TaskInv, Task, Down, Idle
<1>12. ASSUME NEW p \in Procs, Write(p) \/ SaveFails(p) PROVE Typed'
  <2>1. disk' \in SafeguardConfig /\ readable' \in BOOLEAN
    BY <1>1, <1>12 DEF Write, PutOnDisk, SaveFails, Typed, TypeOK
  <2>2. QED
    BY <1>12, <2>1, AfterSaveTypes DEF Write, SaveFails
<1>13. ASSUME NEW p \in Procs, NEW cfg \in SafeguardConfig, NEW then \in {"return", "set", "unlock"},
              SaveAs(p, cfg, then)
       PROVE  Typed'
  <2>1. Saving(then, NoCall) \in Task
    BY <1>1
  <2>2. \E th \in {"return", "set", "unlock"} : Saving(then, NoCall) = Saving(th, NoCall)
    OBVIOUS
  <2>3. QED
    BY <1>13, <2>1, <2>2, TypedProc DEF SaveAs
<1>14. ASSUME NEW p \in Procs, NEW tk \in {Down, Idle}, task[p].step \in {"down", "idle"},
              mem' = [mem EXCEPT ![p] = OnDisk], task' = [task EXCEPT ![p] = tk],
              UNCHANGED <<today, disk, readable, call, spent, lost>>
       PROVE  Typed'
  <2>1. tk \in Task
    BY <1>1
  <2>2. QED
    BY <1>1, <1>14, <2>1, TypedProc
<1>15. ASSUME NEW p \in Procs, StartServer(p) PROVE Typed'
  BY <1>14, <1>15 DEF StartServer
<1>16. ASSUME NEW p \in Procs, ShowConfig(p) PROVE Typed'
  BY <1>1, <1>13, <1>14, <1>16 DEF ShowConfig
<1>17. ASSUME NEW p \in Procs, Lock(p) PROVE Typed'
  <2>1. [mem[p] EXCEPT !.locked = TRUE] \in SafeguardConfig
    BY <1>1, ConfigTypes DEF Typed
  <2>2. QED
    BY <1>13, <1>17, <2>1 DEF Lock
<1>18. ASSUME NEW p \in Procs, SetLimit(p) PROVE Typed'
  <2>1. \A value \in LimitValues :
           /\ [mem[p] EXCEPT !.maxPerTx = value] \in SafeguardConfig
           /\ [mem[p] EXCEPT !.maxDailySend = value] \in SafeguardConfig
    BY <1>1, AmountsAssumption, ConfigTypes DEF Typed
  <2>2. QED
    BY <1>13, <1>18, <2>1 DEF SetLimit
<1>19. ASSUME StartCli PROVE Typed'
  BY <1>1, <1>14, <1>19 DEF StartCli
<1>20. ASSUME Unlock PROVE Typed'
  <2>1. [mem[Cli] EXCEPT !.locked = FALSE] \in SafeguardConfig
    BY <1>1, ConfigTypes DEF Typed
  <2>2. QED
    BY <1>1, <1>13, <1>20, <2>1 DEF Unlock
<1>21. ASSUME Midnight PROVE Typed'
  BY <1>3, <1>21, BoundsAssumption DEF Midnight, Typed, TypeOK, TaskInv
<1>22. ASSUME UNCHANGED vars PROVE Typed'
  BY <1>22 DEF vars, Typed, TypeOK, TaskInv
<1>23. CASE CallNext
  BY <1>5, <1>6, <1>7, <1>8, <1>9, <1>10, <1>23 DEF CallNext
<1>24. CASE ProcNext
  BY <1>11, <1>12, <1>15, <1>16, <1>17, <1>18, <1>24, TypedCrash DEF ProcNext
<1>25. QED
  BY <1>19, <1>20, <1>21, <1>22, <1>23, <1>24 DEF Next

\* Type correctness: configurations stay configurations, and a call that a
\* server is checking or recording is the call of that server's task.
THEOREM TypesHold == Spec => []TypeOK
<1>1. Init => Typed
  BY TypedInit
<1>2. Typed /\ [Next]_vars => Typed'
  BY TypedStep
<1>3. Typed => TypeOK
  BY DEF Typed
<1>4. QED
  BY <1>1, <1>2, <1>3, PTL DEF Spec

-----------------------------------------------------------------------------
(* The lock, whoever writes the file                                       *)

LockSeenStep ==
    \A c \in Calls :
        /\ readable /\ disk.locked
        /\ call[c].state = "new"
        /\ call'[c].state \in {"sending", "checking"}
        => call'[c].proc = Cli

\* A new call is let through by its check alone, and the check loads the file.
LEMMA CheckSeesLock ==
    ASSUME Typed, [Next]_vars
    PROVE  LockSeenStep
<1>1. SUFFICES ASSUME NEW c \in Calls, readable, disk.locked, call[c].state = "new",
                      call'[c].state \in {"sending", "checking"}
               PROVE  call'[c].proc = Cli
  BY DEF LockSeenStep
<1>2. \A n : \A op \in Operations : Rejected(OnDisk, op, n)
  BY <1>1 DEF Rejected, OnDisk
<1>3. \A d \in Calls : d # c \/ ~ \E p \in Servers, op \in Operations, amount \in Amounts :
             \/ CallUnlimited(p, d, op) \/ CallJudged(p, d, op, amount)
             \/ CallOnNewDay(p, d, op, amount)
  BY <1>2 DEF CallUnlimited, CallJudged, CallOnNewDay
<1>4. call \in [Calls -> Call]
  BY DEF Typed, TypeOK
<1>5. ASSUME NEW d \in Calls, NEW p \in Servers, NEW op \in Operations, NEW amount \in Amounts,
             \/ CallRejected(p, d, op, amount) \/ CallUnlimited(p, d, op)
             \/ CallJudged(p, d, op, amount) \/ CallOnNewDay(p, d, op, amount)
      PROVE  FALSE
  <2>1. CASE d = c
    <3>1. CallRejected(p, d, op, amount)
      BY <1>3, <1>5, <2>1
    <3>2. call'[d].state = "refused"
      BY <1>4, <3>1 DEF CallRejected, StartedAs
    <3>3. QED
      BY <1>1, <2>1, <3>2
  <2>2. CASE d # c
    <3>1. call'[c] = call[c]
      BY <1>4, <1>5, <2>2
         DEF CallRejected, CallUnlimited, CallJudged, CallOnNewDay, StartedAs
    <3>2. QED
      BY <1>1, <3>1
  <2>3. QED
    BY <2>1, <2>2
<1>6. ASSUME NEW d \in Calls, Confirm(d) \/ Throw(d) \/ SettleLate(d)
      PROVE  FALSE
  <2>1. d # c
    BY <1>1, <1>6 DEF Confirm, Throw, SettleLate
  <2>2. call'[c] = call[c]
    BY <1>4, <1>6, <2>1 DEF Confirm, Throw, SettleLate
  <2>3. QED
    BY <1>1, <2>2
<1>7. ASSUME NEW d \in Calls, NEW p \in Servers, RecordUsage(p, d)
      PROVE  FALSE
  <2>1. d # c /\ call' = [call EXCEPT ![d].state = "recording"]
    BY <1>1, <1>7 DEF RecordUsage, Resumes, RecordOnNewDay
  <2>2. QED
    BY <1>1, <1>4, <2>1
<1>8. ASSUME NEW d \in Calls, NEW amount \in Amounts, CliSend(d, amount)
      PROVE  call'[c].proc = Cli
  BY <1>1, <1>4, <1>8 DEF CliSend
<1>9. ASSUME NEW p \in Procs, AfterSave(p) PROVE FALSE
  <2>1. CASE call' = call
    BY <1>1, <2>1
  <2>2. CASE task[p].then \in {"answer", "daily"}
    <3>1. task[p].call # c
      BY <1>1, <2>2 DEF Typed, TaskInv
    <3>2. call'[c] = call[c]
      BY <1>4, <1>9, <2>2, <3>1 DEF AfterSave
    <3>3. QED
      BY <1>1, <3>2
  <2>3. QED
    BY <1>9, <2>1, <2>2 DEF AfterSave
<1>10. ASSUME NEW p \in Procs, Crash(p) PROVE FALSE
  BY <1>1, <1>4, <1>10 DEF Crash
<1>11. ASSUME UNCHANGED call PROVE FALSE
  BY <1>1, <1>11
<1>12. CASE CallNext
  BY <1>5, <1>6, <1>7, <1>8, <1>12 DEF CallNext
<1>13. CASE ProcNext
  BY <1>9, <1>10, <1>11, <1>13
     DEF ProcNext, Truncate, Write, SaveFails, StartServer, Lock, SetLimit, ShowConfig, SaveAs
<1>14. CASE StartCli \/ Unlock \/ Midnight \/ UNCHANGED vars
  BY <1>11, <1>14 DEF StartCli, Unlock, SaveAs, Midnight, vars
<1>15. QED
  BY <1>12, <1>13, <1>14 DEF Next

\* A server obeys a lock that any process has put on disk: while the file reads
\* locked, no call of a server gets past its check.
THEOREM ServersSeeLock == Spec => LockSeenByServers
<1>1. Init => Typed
  BY TypedInit
<1>2. Typed /\ [Next]_vars => Typed'
  BY TypedStep
<1>3. Typed /\ [Next]_vars => [LockSeenStep]_vars
  BY CheckSeesLock
<1>4. QED
  BY <1>1, <1>2, <1>3, PTL DEF Spec, LockSeenByServers, LockSeenStep

-----------------------------------------------------------------------------
(* One server that has config.json to itself                               *)

\* One server, no CLI command beside it, and a disk that takes every write.
Alone == (\A p, q \in Servers : p = q) /\ Commands = {} /\ "disk" \notin Faults

\* The file is the server's memory except while the server is saving; what is
\* then about to be written keeps the lock, and the limits unless it sets them.
FileInv ==
    /\ task[Cli] = Down
    /\ \A c \in Calls : call[c].state # "new" => call[c].proc \in Servers
    /\ \A p \in Servers :
          /\ task[p].step = "idle" => readable /\ disk = mem[p]
          /\ task[p].step = "save" => readable
          /\ task[p].step = "opened" => ~readable
          /\ task[p].step \in {"save", "opened"} =>
                /\ disk.locked => mem[p].locked
                /\ task[p].then # "set" =>
                      /\ disk.maxPerTx = mem[p].maxPerTx
                      /\ disk.maxDailySend = mem[p].maxDailySend

AloneInv == Typed /\ FileInv

\* A configuration that keeps another's lock and limits.
Keeps(new, old) ==
    /\ old.locked => new.locked
    /\ new.maxPerTx = old.maxPerTx /\ new.maxDailySend = old.maxDailySend

\* The daily reset and the recording of usage touch neither.
LEMMA ResetKeeps ==
    \A cfg \in SafeguardConfig : \A n \in Nat :
        Keeps(ResetDaily(cfg), cfg) /\ Keeps(AddUsage(cfg, n), cfg)
  BY DEF Keeps, ResetDaily, AddUsage, SafeguardConfig

\* The file says what the server's memory says, when the server is idle.
LEMMA IdleReads ==
    ASSUME AloneInv, NEW p \in Servers, task[p].step = "idle"
    PROVE  readable /\ disk = mem[p] /\ OnDisk = mem[p]
  BY DEF AloneInv, FileInv, OnDisk

LEMMA FileInit == Init => FileInv
  BY DEF Init, FileInv, Procs, Down

\* A server that starts has read a file.
LEMMA StartReads == IsConfigured(OnDisk) => readable
  BY DEF IsConfigured, OnDisk, DEFAULT_SAFEGUARD_CONFIG

\* A step that leaves the file, and every task and copy but those of p.
LEMMA FileProc ==
    ASSUME Alone, AloneInv, Typed', NEW p \in Servers, UNCHANGED <<disk, readable>>, readable,
           task'[Cli] = task[Cli],
           \A c \in Calls : call'[c].state # "new" => call'[c].proc \in Servers,
           \/ task'[p].step = "down"
           \/ task'[p].step = "idle" /\ mem'[p] = disk
           \/ /\ task'[p].step = "save"
              /\ Keeps(mem'[p], disk) \/ (task'[p].then = "set" /\ mem'[p].locked = disk.locked)
    PROVE  FileInv'
<1>1. \A q \in Servers : q = p
  BY DEF Alone
<1>2. QED
  BY <1>1 DEF AloneInv, FileInv, Keeps

\* p's save ends.
LEMMA FileWrite ==
    ASSUME Alone, AloneInv, Typed', NEW p \in Servers, Write(p)
    PROVE  FileInv'
<1>1. \A q \in Servers : q = p
  BY DEF Alone
<1>2. task[p].step = "opened" /\ ~readable /\ readable' = TRUE /\ disk' = mem[p]
  BY DEF Write, PutOnDisk, AloneInv, FileInv
<1>3. p # Cli /\ p \in Procs /\ Cli \in Procs
  BY ProcsAssumption DEF Procs
<1>4. task'[Cli] = task[Cli]
  BY <1>3 DEF Write, AfterSave, AloneInv, Typed, TypeOK
<1>5. \A c \in Calls : call'[c].state # "new" => call'[c].proc \in Servers
  <2>1. CASE call' = call
    BY <2>1 DEF AloneInv, FileInv
  <2>2. CASE task[p].then \in {"answer", "daily"}
    <3>1. /\ call \in [Calls -> Call] /\ task[p].call \in Calls /\ call[task[p].call].proc = p
          /\ \A c \in Calls : call[c].state # "new" => call[c].proc \in Servers
      BY <1>3, <2>2 DEF AloneInv, FileInv, Typed, TypeOK, TaskInv
    <3>2. \E s : call' = [call EXCEPT ![task[p].call].state = s]
      BY <2>2 DEF Write, AfterSave
    <3>3. QED
      BY <3>1, <3>2
  <2>3. QED
    BY <2>1, <2>2 DEF Write, AfterSave
<1>6. CASE task[p].then = "usage"
  <2>1. call[task[p].call].amount \in Nat /\ mem[p] \in SafeguardConfig
    BY <1>3, <1>6 DEF AloneInv, Typed, TypeOK, TaskInv, Call
  <2>2. mem'[p] = AddUsage(mem[p], call[task[p].call].amount) /\ task'[p].step = "save"
    BY <1>3, <1>6 DEF Write, AfterSave, Saving, AloneInv, Typed, TypeOK
  <2>3. Keeps(mem'[p], disk')
    BY <1>2, <2>1, <2>2, ResetKeeps
  <2>4. QED
    BY <1>1, <1>2, <1>4, <1>5, <2>2, <2>3 DEF FileInv, AloneInv, Keeps
<1>7. CASE task[p].then # "usage"
  <2>1. mem' = mem /\ task'[p].step = "idle"
    BY <1>3, <1>7 DEF Write, AfterSave, Returned, Idle, AloneInv, Typed, TypeOK
  <2>2. QED
    BY <1>1, <1>2, <1>4, <1>5, <2>1 DEF FileInv, AloneInv
<1>8. QED
  BY <1>6, <1>7

\* Every step keeps the file and the memory together.
LEMMA FileStep ==
    ASSUME Alone, AloneInv, [Next]_vars
    PROVE  AloneInv'
<1> USE DEF AloneInv
<1>1. Typed'
  BY TypedStep
<1>2. /\ Cli \notin Servers /\ Cli \in Procs /\ \A p \in Servers : p \in Procs /\ p # Cli
      /\ \A p, q \in Servers : p = q
      /\ \A name : ~Allowed(Cli, name)
      /\ task[Cli].step = "down"
  BY ProcsAssumption DEF Alone, Procs, FileInv, Down, Allowed
<1>3. /\ call \in [Calls -> Call] /\ task \in [Procs -> Task]
      /\ mem \in [Procs -> SafeguardConfig] /\ disk \in SafeguardConfig
      /\ \A c \in Calls : call[c].state # "new" => call[c].proc \in Servers
  BY DEF Typed, TypeOK, FileInv
<1>4. ASSUME NEW c \in Calls, NEW p \in Servers, NEW op \in Operations, NEW amount \in Amounts,
             \/ CallRejected(p, c, op, amount) \/ CallUnlimited(p, c, op)
             \/ CallJudged(p, c, op, amount)
      PROVE  FileInv'
  <2>1. /\ task[p].step = "idle" /\ UNCHANGED <<disk, readable, task>>
        /\ mem' = [mem EXCEPT ![p] = OnDisk]
    BY <1>4 DEF CallRejected, CallUnlimited, CallJudged, StartedAs, CanCall
  <2>2. readable /\ OnDisk = disk
    BY <2>1, IdleReads
  <2>3. \A d \in Calls : call'[d].state # "new" => call'[d].proc \in Servers
    BY <1>3, <1>4 DEF CallRejected, CallUnlimited, CallJudged, StartedAs
  <2>4. task'[p].step = "idle" /\ mem'[p] = disk
    BY <1>2, <1>3, <2>1, <2>2
  <2>5. QED
    BY <1>1, <2>1, <2>2, <2>3, <2>4, FileProc
<1>5. ASSUME NEW c \in Calls, NEW p \in Servers, NEW op \in Operations, NEW amount \in Amounts,
             CallOnNewDay(p, c, op, amount)
      PROVE  FileInv'
  <2>1. readable /\ OnDisk = disk
    BY <1>5, IdleReads DEF CallOnNewDay, CanCall
  <2>2. \A d \in Calls : call'[d].state # "new" => call'[d].proc \in Servers
    BY <1>3, <1>5 DEF CallOnNewDay
  <2>3. task'[p].step = "save" /\ mem'[p] = ResetDaily(disk) /\ task'[Cli] = task[Cli]
    BY <1>2, <1>3, <1>5, <2>1 DEF CallOnNewDay, Saving
  <2>4. Keeps(mem'[p], disk)
    BY <1>3, <2>3, ResetKeeps
  <2>5. UNCHANGED <<disk, readable>>
    BY <1>5 DEF CallOnNewDay
  <2>6. QED
    BY <1>1, <2>1, <2>2, <2>3, <2>4, <2>5, FileProc
<1>6. ASSUME NEW c \in Calls, Confirm(c) \/ Throw(c) \/ SettleLate(c)
      PROVE  FileInv'
  <2>1. UNCHANGED <<disk, readable, mem, task>> /\ call[c].state # "new"
    BY <1>6 DEF Confirm, Throw, SettleLate
  <2>2. \A d \in Calls : call'[d].proc = call[d].proc /\ (call[d].state = "new" => call'[d] = call[d])
    <3>1. CASE Confirm(c)
      BY <1>3, <2>1, <3>1 DEF Confirm
    <3>2. CASE Throw(c)
      BY <1>3, <2>1, <3>2 DEF Throw
    <3>3. CASE SettleLate(c)
      BY <1>3, <2>1, <3>3 DEF SettleLate
    <3>4. QED
      BY <1>6, <3>1, <3>2, <3>3
  <2>3. \A d \in Calls : call'[d].state # "new" => call'[d].proc \in Servers
    BY <1>3, <2>2
  <2>4. QED
    BY <2>1, <2>3 DEF FileInv
<1>7. ASSUME NEW c \in Calls, NEW p \in Servers, RecordUsage(p, c) PROVE FileInv'
  <2>1. /\ readable /\ mem[p] = disk /\ call[c].state # "new" /\ UNCHANGED <<disk, readable>>
        /\ call' = [call EXCEPT ![c].state = "recording"]
    BY <1>7, IdleReads DEF RecordUsage, Resumes, RecordOnNewDay
  <2>2. \A d \in Calls : call'[d].state # "new" => call'[d].proc \in Servers
    BY <1>3, <2>1
  <2>3. /\ task'[p].step = "save" /\ task'[Cli] = task[Cli]
        /\ mem'[p] = ResetDaily(mem[p]) \/ mem'[p] = AddUsage(mem[p], call[c].amount)
    BY <1>2, <1>3, <1>7 DEF RecordUsage, RecordOnNewDay, Saving
  <2>4. Keeps(mem'[p], disk)
    BY <1>3, <2>1, <2>3, ResetKeeps DEF Call
  <2>5. QED
    BY <1>1, <2>1, <2>2, <2>3, <2>4, FileProc
<1>8. ASSUME NEW p \in Procs, Truncate(p) PROVE FileInv'
  <2>1. p \in Servers
    BY <1>2, <1>8 DEF Truncate, Procs
  <2>2. \A q \in Procs : /\ task'[q].then = task[q].then
                         /\ q # p => task'[q] = task[q]
    BY <1>3, <1>8 DEF Truncate
  <2>3. task'[p].step = "opened" /\ readable' = FALSE /\ UNCHANGED <<disk, mem, call>>
    BY <1>2, <1>3, <1>8, <2>1 DEF Truncate
  <2>4. task[p].step = "save"
    BY <1>8 DEF Truncate
  <2>5. QED
    BY <1>2, <2>1, <2>2, <2>3, <2>4 DEF FileInv
<1>9. ASSUME NEW p \in Procs, Write(p) PROVE FileInv'
  BY <1>1, <1>2, <1>9, FileWrite DEF Write, Procs
<1>10. ASSUME NEW p \in Procs, StartServer(p) PROVE FileInv'
  <2>1. /\ p \in Servers /\ readable /\ OnDisk = disk /\ UNCHANGED <<disk, readable, call>>
        /\ task'[p].step = "idle" /\ mem'[p] = disk /\ task'[Cli] = task[Cli]
    BY <1>2, <1>3, <1>10, StartReads DEF StartServer, OnDisk, Idle
  <2>2. QED
    BY <1>1, <1>3, <2>1, FileProc
<1>11. ASSUME NEW p \in Procs, NEW cfg \in SafeguardConfig, NEW then, SaveAs(p, cfg, then),
              Keeps(cfg, mem[p]) \/ (then = "set" /\ cfg.locked = mem[p].locked)
       PROVE  FileInv'
  <2>1. p \in Servers
    BY <1>2, <1>11 DEF SaveAs, Procs
  <2>2. readable /\ mem[p] = disk /\ UNCHANGED <<disk, readable, call>>
    BY <1>11, <2>1, IdleReads DEF SaveAs
  <2>3. /\ task'[p].step = "save" /\ task'[p].then = then /\ mem'[p] = cfg
        /\ task'[Cli] = task[Cli]
    BY <1>2, <1>3, <1>11, <2>1 DEF SaveAs, Saving
  <2>4. QED
    BY <1>1, <1>3, <1>11, <2>1, <2>2, <2>3, FileProc
<1>12. ASSUME NEW p \in Procs, Lock(p) \/ SetLimit(p) PROVE FileInv'
  <2>1. mem[p] \in SafeguardConfig
    BY <1>3
  <2>2. CASE Lock(p)
    <3> DEFINE cfg == [mem[p] EXCEPT !.locked = TRUE]
    <3>1. cfg \in SafeguardConfig /\ Keeps(cfg, mem[p])
      BY <2>1 DEF SafeguardConfig, Keeps
    <3>2. SaveAs(p, cfg, "return")
      BY <2>2 DEF Lock
    <3> HIDE DEF cfg
    <3>3. QED
      BY <1>11, <3>1, <3>2
  <2>3. CASE SetLimit(p)
    <3>1. PICK value \in LimitValues :
             \/ SaveAs(p, [mem[p] EXCEPT !.maxPerTx = value], "set")
             \/ SaveAs(p, [mem[p] EXCEPT !.maxDailySend = value], "set")
      BY <2>3 DEF SetLimit
    <3>2. PICK cfg \in SafeguardConfig : SaveAs(p, cfg, "set") /\ cfg.locked = mem[p].locked
      BY <2>1, <3>1, AmountsAssumption DEF SafeguardConfig
    <3>3. QED
      BY <1>11, <3>2
  <2>4. QED
    BY <1>12, <2>2, <2>3
<1>13. ASSUME NEW p \in Procs, ShowConfig(p) PROVE FileInv'
  <2>1. p \in Servers /\ task[p].step = "idle"
    BY <1>2, <1>13 DEF ShowConfig, SaveAs, Procs
  <2>2. readable /\ OnDisk = disk /\ disk = mem[p]
    BY <2>1, IdleReads
  <2>3. CASE SaveAs(p, ResetDaily(OnDisk), "return")
    <3>1. ResetDaily(OnDisk) \in SafeguardConfig /\ Keeps(ResetDaily(OnDisk), mem[p])
      BY <1>3, <2>2, ConfigTypes, ResetKeeps DEF Typed
    <3>2. QED
      BY <1>11, <2>3, <3>1
  <2>4. CASE mem' = [mem EXCEPT ![p] = OnDisk] /\ task' = [task EXCEPT ![p] = Returned(p)]
             /\ UNCHANGED <<disk, readable, call>>
    <3>1. task'[p].step = "idle" /\ mem'[p] = disk /\ task'[Cli] = task[Cli]
      BY <1>2, <1>3, <2>1, <2>2, <2>4 DEF Returned, Idle
    <3>2. QED
      BY <1>1, <1>3, <2>1, <2>2, <2>4, <3>1, FileProc
  <2>5. QED
    BY <1>13, <2>3, <2>4 DEF ShowConfig
<1>14. ASSUME NEW p \in Procs, Crash(p) PROVE FileInv'
  <2>1. p \in Servers /\ UNCHANGED <<disk, readable, mem>>
    BY <1>2, <1>14 DEF Crash, Procs
  <2>2. task'[p] = Down /\ task'[Cli] = task[Cli]
    BY <1>2, <1>3, <1>14, <2>1 DEF Crash
  <2>3. \A d \in Calls : call'[d].proc = call[d].proc /\ (call[d].state = "new" => call'[d] = call[d])
    BY <1>3, <1>14 DEF Crash
  <2>4. \A d \in Calls : call'[d].state # "new" => call'[d].proc \in Servers
    BY <1>3, <2>3
  <2>5. QED
    BY <1>2, <2>1, <2>2, <2>4 DEF FileInv, Down
<1>15. ASSUME UNCHANGED <<disk, readable, mem, task, call>> PROVE FileInv'
  BY <1>15 DEF FileInv
<1>16. CASE CallNext
  <2>1. \A c \in Calls, n \in Amounts : ~CliSend(c, n)
    BY <1>2 DEF CliSend
  <2>2. QED
    BY <1>1, <1>4, <1>5, <1>6, <1>7, <1>16, <2>1 DEF CallNext
<1>17. CASE ProcNext
  <2>1. \A p \in Procs : ~SaveFails(p)
    BY DEF Alone, SaveFails
  <2>2. QED
    BY <1>1, <1>8, <1>9, <1>10, <1>12, <1>13, <1>14, <1>17, <2>1 DEF ProcNext
<1>18. ~StartCli /\ ~Unlock
  BY <1>2 DEF StartCli, Unlock, Alone
<1>19. CASE Midnight \/ UNCHANGED vars
  BY <1>1, <1>15, <1>19 DEF Midnight, vars
<1>20. QED
  BY <1>16, <1>17, <1>18, <1>19 DEF Next

LEMMA AloneAlways ==
    ASSUME Alone
    PROVE  Spec => []AloneInv
<1>1. Init => AloneInv
  BY TypedInit, FileInit DEF AloneInv
<1>2. AloneInv /\ [Next]_vars => AloneInv'
  BY FileStep
<1>3. QED
  BY <1>1, <1>2, PTL DEF Spec

\* Whenever the one server is not in the middle of a save, config.json is what
\* it has in memory: a restart loses no limit, no lock and no recorded usage.
THEOREM FileIsMemory ==
    ASSUME Alone
    PROVE  Spec => []DiskMatchesMemory
<1>1. AloneInv => DiskMatchesMemory
  BY DEF AloneInv, FileInv, DiskMatchesMemory
<1>2. QED
  BY <1>1, AloneAlways, PTL

\* The file changes in the write that ends a save and nowhere else.
LEMMA OnlyWritesChangeDisk ==
    ASSUME Alone, AloneInv, [Next]_vars, disk' # disk
    PROVE  \E p \in Servers : task[p].step = "opened" /\ disk' = mem[p]
<1>1. \A p \in Procs : Write(p) => p \in Servers /\ task[p].step = "opened" /\ disk' = mem[p]
  BY ProcsAssumption DEF Write, PutOnDisk, AloneInv, FileInv, Down, Procs
<1>2. CASE CallNext
  BY <1>2 DEF CallNext, CallRejected, CallUnlimited, CallJudged, CallOnNewDay, StartedAs,
              Confirm, Throw, SettleLate, RecordUsage, CliSend
<1>3. CASE ProcNext
  BY <1>1, <1>3 DEF ProcNext, Truncate, SaveFails, StartServer, Lock, SetLimit, ShowConfig,
                    SaveAs, Crash
<1>4. QED
  BY <1>2, <1>3 DEF Next, StartCli, Unlock, SaveAs, Midnight, vars

\* No step of the server takes the lock off the file: that is left to the
\* unlock command.
THEOREM LockStaysOn ==
    ASSUME Alone
    PROVE  Spec => LockSticks
<1>1. AloneInv /\ [Next]_vars =>
         [disk.locked /\ ~disk'.locked => task[Cli].then = "unlock"]_vars
  <2>1. SUFFICES ASSUME AloneInv, [Next]_vars, disk.locked, ~disk'.locked PROVE FALSE
    OBVIOUS
  <2>2. PICK p \in Servers : task[p].step = "opened" /\ disk' = mem[p]
    BY <2>1, OnlyWritesChangeDisk
  <2>3. QED
    BY <2>1, <2>2 DEF AloneInv, FileInv
<1>2. QED
  BY <1>1, AloneAlways, PTL DEF Spec, LockSticks

\* The limits in the file change only in a write of a server that sets them: no
\* usage, no daily reset and no lock is saved over them.
THEOREM LimitsStayAsSet ==
    ASSUME Alone
    PROVE  Spec => LimitsStick
<1> DEFINE A == \/ UNCHANGED <<disk.maxPerTx, disk.maxDailySend>>
                \/ \E p \in Procs : task[p].then = "set"
<1>1. AloneInv /\ [Next]_vars => [A]_vars
  <2>1. SUFFICES ASSUME AloneInv, [Next]_vars PROVE A
    OBVIOUS
  <2>2. CASE disk' = disk
    BY <2>2
  <2>3. CASE disk' # disk
    <3>1. PICK p \in Servers : task[p].step = "opened" /\ disk' = mem[p]
      BY <2>1, <2>3, OnlyWritesChangeDisk
    <3>2. QED
      BY <2>1, <3>1 DEF AloneInv, FileInv, Procs
  <2>4. QED
    BY <2>2, <2>3
<1>2. QED
  BY <1>1, AloneAlways, PTL DEF Spec, LimitsStick

-----------------------------------------------------------------------------
(* The daily limit of one server                                           *)

\* The server's clients set no limits, so those of the first file stay; and
\* there are both limits.
Steady == Alone /\ "set" \notin Tools

PerTx == InitialConfig.maxPerTx
PerDay == InitialConfig.maxDailySend
Limited == PerTx > 0 /\ PerDay > 0

\* Transactions on their way, and the usage of today in the file.
Sending == {c \in Calls : call[c].state = "sending"}
UsedToday == IF disk.dailyResetDate = today THEN disk.dailyUsed ELSE 0

\* What a save is about to change of the usage in the file.
Saves(p) ==
    task[p].step \in {"save", "opened"} =>
        LET c == task[p].call
            m == mem[p] IN
        /\ task[p].then \in {"return", "daily", "usage", "answer"}
        /\ m.dailyResetDate <= today
        /\ task[p].then \in {"daily", "usage"} => m.dailyUsed = 0 /\ disk.dailyResetDate # today
        /\ task[p].then = "return" =>
              \/ m.dailyResetDate = disk.dailyResetDate /\ m.dailyUsed = disk.dailyUsed
              \/ m.dailyUsed = 0 /\ disk.dailyResetDate # today
        /\ task[p].then = "answer" =>
              /\ m.dailyResetDate = disk.dailyResetDate
              /\ m.dailyUsed = disk.dailyUsed + call[c].amount
        /\ task[p].then \in {"usage", "answer"} => call[c].day <= m.dailyResetDate

SavingInv == \A p \in Servers : Saves(p)

\* The limits of the first file are in force, and nothing is dated tomorrow.
LimitsInv ==
    /\ disk.maxPerTx = PerTx /\ disk.maxDailySend = PerDay
    /\ disk.dailyResetDate <= today
    /\ \A c \in Calls :
          /\ call[c].day <= today
          /\ call[c].state \in {"checking", "sending"} /\ call[c].op \notin OUTBOUND_OPS =>
                call[c].amount = 0

\* Calls in flight are few, and none is larger than the limit per transaction.
FlightInv ==
    /\ Cardinality(InFlight) <= MaxInFlight
    /\ \A c \in InFlight : call[c].amount <= PerTx

\* What was spent today is in the file, or will be, or is lost.
UsageInv == spent - lost <= UsedToday + Total(Loose)

\* With what is on its way it stays under the daily limit and one transaction
\* for each other call in flight.
SendingInv ==
    /\ spent - lost + Total(Sending) <= PerDay + (MaxInFlight - 1) * PerTx
    /\ Total(Sending) <= PerDay + (MaxInFlight - 1) * PerTx

\* The sum of the amounts of S under the calls cl.
SumOf(cl, S) == SumFunctionOnSet([c \in Calls |-> cl[c].amount], S)

LEMMA TotalIsSum ==
    /\ \A S : Total(S) = SumOf(call, S)
    /\ Total(Loose)' = SumOf(call', Loose')
    /\ Total(Sending)' = SumOf(call', Sending')
  BY DEF Total, SumOf

LEMMA SumOfFacts ==
    ASSUME NEW cl \in [Calls -> Call], NEW S \in SUBSET Calls
    PROVE  /\ SumOf(cl, S) \in Nat
           /\ S = {} => SumOf(cl, S) = 0
           /\ \A y \in S : SumOf(cl, S \ {y}) = SumOf(cl, S) - cl[y].amount
           /\ \A y \in Calls : y \notin S => SumOf(cl, S \cup {y}) = SumOf(cl, S) + cl[y].amount
<1> DEFINE f == [c \in Calls |-> cl[c].amount]
<1>1. IsFiniteSet(S) /\ \A c \in Calls : f[c] \in Nat /\ f[c] = cl[c].amount
  BY ProcsAssumption, FS_Subset DEF Call
<1> HIDE DEF f
<1>2. SumFunctionOnSet(f, S) \in Nat
  BY <1>1, SumNat
<1>3. S = {} => SumFunctionOnSet(f, S) = 0
  BY SumEmpty
<1>4. ASSUME NEW y \in S
      PROVE  SumFunctionOnSet(f, S \ {y}) = SumFunctionOnSet(f, S) - f[y]
  <2>1. \A x \in S : f[x] \in Int
    BY <1>1
  <2>2. QED
    BY <1>1, <2>1, SumRemoves
<1>5. ASSUME NEW y \in Calls, y \notin S
      PROVE  SumFunctionOnSet(f, S \cup {y}) = SumFunctionOnSet(f, S) + f[y]
  <2>1. \A x \in S \cup {y} : f[x] \in Int
    BY <1>1
  <2>2. IsFiniteSet(S)
    BY <1>1
  <2>3. QED
    BY <1>5, <2>1, <2>2, SumAdds, Zenon
<1>6. \A R : SumFunctionOnSet(f, R) = SumOf(cl, R)
  BY DEF SumOf, f
<1>7. QED
  BY <1>1, <1>2, <1>3, <1>4, <1>5, <1>6

LEMMA SumOfAgrees ==
    ASSUME NEW a \in [Calls -> Call], NEW b \in [Calls -> Call], NEW S \in SUBSET Calls,
           \A c \in S : a[c].amount = b[c].amount
    PROVE  SumOf(a, S) = SumOf(b, S)
<1> DEFINE f == [c \in Calls |-> a[c].amount]
           g == [c \in Calls |-> b[c].amount]
<1>1. IsFiniteSet(S) /\ \A c \in S : f[c] \in Int /\ f[c] = g[c]
  BY ProcsAssumption, FS_Subset DEF Call
<1> HIDE DEF f, g
<1>2. SumFunctionOnSet(f, S) = SumFunctionOnSet(g, S)
  BY <1>1, SumAgrees
<1>3. QED
  BY <1>2 DEF SumOf, f, g

\* How a step that changes the one call c changes the sets and their sums.
LEMMA OneCall ==
    ASSUME Typed, NEW c \in Calls, NEW r \in Call, call' = [call EXCEPT ![c] = r], today' = today
    PROVE  /\ Loose' = IF r.state \in {"confirmed", "recording"} /\ r.day = today
                       THEN Loose \cup {c} ELSE Loose \ {c}
           /\ Sending' = IF r.state = "sending" THEN Sending \cup {c} ELSE Sending \ {c}
           /\ InFlight' = IF r.state \in {"checking", "sending", "confirmed", "recording"}
                          THEN InFlight \cup {c} ELSE InFlight \ {c}
           /\ \A S \in SUBSET Calls : c \notin S \/ r.amount = call[c].amount =>
                 SumOf(call', S) = SumOf(call, S)
<1>1. call \in [Calls -> Call] /\ call' \in [Calls -> Call]
  BY DEF Typed, TypeOK
<1>2. /\ Loose' = IF r.state \in {"confirmed", "recording"} /\ r.day = today
                 THEN Loose \cup {c} ELSE Loose \ {c}
      /\ Sending' = IF r.state = "sending" THEN Sending \cup {c} ELSE Sending \ {c}
  BY <1>1 DEF Loose, Sending
<1>3. InFlight' = IF r.state \in {"checking", "sending", "confirmed", "recording"}
                  THEN InFlight \cup {c} ELSE InFlight \ {c}
  BY <1>1 DEF InFlight, Unrecorded
<1>4. ASSUME NEW S \in SUBSET Calls, c \notin S \/ r.amount = call[c].amount
      PROVE  SumOf(call', S) = SumOf(call, S)
  <2>1. \A d \in S : call'[d].amount = call[d].amount
    BY <1>1, <1>4
  <2>2. QED
    BY <1>1, <2>1, SumOfAgrees
<1>5. QED
  BY <1>2, <1>3, <1>4

\* Every call in flight but c leaves the room of one transaction each.
LEMMA Room ==
    ASSUME Typed, FlightInv, UsageInv, NEW c \in Calls, c \notin Loose, c \notin Sending,
           Cardinality(InFlight \ {c}) <= MaxInFlight - 1,
           NEW used \in Nat, NEW amount \in Nat, UsedToday <= used, used + amount <= PerDay
    PROVE  /\ spent - lost + Total(Sending) + amount <= PerDay + (MaxInFlight - 1) * PerTx
           /\ Total(Sending) + amount <= PerDay + (MaxInFlight - 1) * PerTx
<1> DEFINE f == [d \in Calls |-> call[d].amount]
<1>1. /\ IsFiniteSet(Loose) /\ IsFiniteSet(Sending) /\ IsFiniteSet(InFlight \ {c})
      /\ Loose \subseteq Calls /\ Sending \subseteq Calls
  BY ProcsAssumption, FS_Subset DEF Loose, Sending, InFlight
<1>2. Loose \cap Sending = {} /\ Loose \cup Sending \subseteq InFlight \ {c}
  BY DEF Loose, Sending, InFlight, Unrecorded
<1>3. PerTx \in Nat /\ PerDay \in Nat /\ MaxInFlight - 1 \in Nat
  BY ConfigAssumption, BoundsAssumption DEF PerTx, PerDay, SafeguardConfig
<1>4. \A d \in Loose \cup Sending : f[d] \in 0..PerTx
  BY <1>1, <1>2, <1>3 DEF Typed, TypeOK, Call, FlightInv
<1> HIDE DEF f
<1>5. /\ SumFunctionOnSet(f, Loose) \in Nat /\ SumFunctionOnSet(f, Sending) \in Nat
      /\ SumFunctionOnSet(f, Loose) <= PerTx * Cardinality(Loose)
      /\ SumFunctionOnSet(f, Sending) <= PerTx * Cardinality(Sending)
  BY <1>1, <1>3, <1>4, SumBounds
<1>6. SumFunctionOnSet(f, Loose) = Total(Loose) /\ SumFunctionOnSet(f, Sending) = Total(Sending)
  BY DEF f, Total
<1>7. /\ Cardinality(Loose) \in Nat /\ Cardinality(Sending) \in Nat
      /\ Cardinality(Loose) + Cardinality(Sending) <= MaxInFlight - 1
  <2>1. Cardinality(Loose \cup Sending) = Cardinality(Loose) + Cardinality(Sending)
    <3>1. Cardinality(Loose \cap Sending) = 0
      BY <1>2, FS_EmptySet
    <3>2. QED
      <4>1. Cardinality(Loose \cup Sending) =
               Cardinality(Loose) + Cardinality(Sending) - Cardinality(Loose \cap Sending)
        BY <1>1, FS_Union
      <4>2. Cardinality(Loose) \in Nat /\ Cardinality(Sending) \in Nat
        BY <1>1, FS_CardinalityType
      <4>3. QED
        BY <3>1, <4>1, <4>2
  <2>2. Cardinality(Loose \cup Sending) <= Cardinality(InFlight \ {c})
    BY <1>1, <1>2, FS_Subset
  <2>3. QED
    BY <1>1, <1>3, <2>1, <2>2, FS_CardinalityType
<1>8. \A m, a, b, k \in Nat : a + b <= k => m * a + m * b <= k * m
  OBVIOUS
<1>9. Total(Loose) + Total(Sending) <= (MaxInFlight - 1) * PerTx
  <2>1. PerTx * Cardinality(Loose) + PerTx * Cardinality(Sending) <= (MaxInFlight - 1) * PerTx
    BY <1>3, <1>7, <1>8
  <2>2. PerTx * Cardinality(Loose) \in Nat /\ PerTx * Cardinality(Sending) \in Nat
        /\ (MaxInFlight - 1) * PerTx \in Nat
    BY <1>3, <1>7
  <2>3. QED
    BY <1>5, <1>6, <2>1, <2>2
<1>10. PICK room \in Nat : room = (MaxInFlight - 1) * PerTx
  BY <1>3
<1>11. spent \in Nat /\ lost \in Nat /\ UsedToday \in Nat
  BY DEF Typed, TypeOK, UsedToday, SafeguardConfig
<1>12. QED
  BY <1>3, <1>5, <1>6, <1>9, <1>10, <1>11 DEF UsageInv

\* What dated limits and a dated save rest on: where the one server stands.
LEMMA OnlySaves ==
    ASSUME Alone, NEW p \in Servers, Saves(p)'
    PROVE  SavingInv'
  BY DEF Alone, SavingInv

LEMMA DatedStep ==
    ASSUME Steady, AloneInv, SavingInv, LimitsInv, [Next]_vars
    PROVE  SavingInv' /\ LimitsInv'
<1> USE DEF AloneInv
<1>1. AloneInv'
  BY FileStep DEF Steady
<1>2. /\ Cli \notin Servers /\ Cli \in Procs /\ \A p \in Servers : p \in Procs /\ p # Cli
      /\ \A p, q \in Servers : p = q
      /\ \A name : ~Allowed(Cli, name)
      /\ task[Cli].step = "down" /\ Alone /\ \A p \in Servers : ~Allowed(p, "set")
  BY ProcsAssumption DEF Steady, Alone, Procs, FileInv, Down, Allowed
<1>3. /\ call \in [Calls -> Call] /\ task \in [Procs -> Task]
      /\ mem \in [Procs -> SafeguardConfig] /\ disk \in SafeguardConfig /\ today \in Nat
      /\ \A c \in Calls : call[c] \in Call /\ call[c].day \in Nat /\ call[c].amount \in Nat
  BY DEF Typed, TypeOK, Call, Days
<1>4. ASSUME NEW c \in Calls, NEW p \in Servers, NEW op \in Operations, NEW amount \in Amounts,
             \/ CallRejected(p, c, op, amount) \/ CallUnlimited(p, c, op)
             \/ CallJudged(p, c, op, amount)
      PROVE  SavingInv' /\ LimitsInv'
  <2>1. task[p].step = "idle" /\ UNCHANGED <<today, disk, task>>
    BY <1>4 DEF CallRejected, CallUnlimited, CallJudged, StartedAs, CanCall
  <2>2. PICK r : /\ r.day = 0
                 /\ r.state \in {"checking", "sending"} /\ r.op \notin OUTBOUND_OPS =>
                       r.amount = 0
                 /\ call' = [call EXCEPT ![c] = r]
    <3>1. CASE CallUnlimited(p, c, op)
      BY <3>1 DEF CallUnlimited, StartedAs
    <3>2. CASE CallJudged(p, c, op, amount)
      BY <3>2 DEF CallJudged, StartedAs
    <3>3. CASE CallRejected(p, c, op, amount)
      BY <3>3 DEF CallRejected, StartedAs
    <3>4. QED
      BY <1>4, <3>1, <3>2, <3>3
  <2>3. LimitsInv'
    BY <1>3, <2>1, <2>2 DEF LimitsInv
  <2>4. Saves(p)'
    BY <2>1 DEF Saves
  <2>5. QED
    BY <1>2, <2>3, <2>4, OnlySaves
<1>5. ASSUME NEW c \in Calls, NEW p \in Servers, NEW op \in Operations, NEW amount \in Amounts,
             CallOnNewDay(p, c, op, amount)
      PROVE  SavingInv' /\ LimitsInv'
  <2>1. UNCHANGED <<today, disk>> /\ OnDisk = disk /\ disk.dailyResetDate # today
    BY <1>5, IdleReads DEF CallOnNewDay, CanCall, NewDay
  <2>2. LimitsInv'
    BY <1>3, <1>5, <2>1 DEF CallOnNewDay, LimitsInv
  <2>3. task'[p] = Saving("daily", c) /\ mem'[p] = ResetDaily(disk)
    BY <1>2, <1>3, <1>5, <2>1 DEF CallOnNewDay
  <2>4. mem'[p].dailyUsed = 0 /\ mem'[p].dailyResetDate = today
    BY <1>3, <2>3 DEF ResetDaily, SafeguardConfig
  <2>5. Saves(p)'
    BY <1>3, <2>1, <2>3, <2>4 DEF Saves, Saving
  <2>6. QED
    BY <1>2, <2>2, <2>5, OnlySaves
<1>6. ASSUME NEW c \in Calls, Confirm(c) \/ Throw(c) \/ SettleLate(c)
      PROVE  SavingInv' /\ LimitsInv'
  <2>1. /\ UNCHANGED <<today, disk, mem, task>>
        /\ call[c].state \in {"sending", "threw"}
    BY <1>6 DEF Confirm, Throw, SettleLate
  <2>2. /\ \A d \in Calls : d # c => call'[d] = call[d]
        /\ call'[c].state \notin {"checking", "sending", "recording"} /\ call'[c].day \in {call[c].day, today}
        /\ call'[c].amount = call[c].amount
    <3>1. CASE Confirm(c)
      BY <1>3, <3>1 DEF Confirm
    <3>2. CASE Throw(c)
      BY <1>3, <3>2 DEF Throw
    <3>3. CASE SettleLate(c)
      BY <1>3, <3>3 DEF SettleLate
    <3>4. QED
      BY <1>6, <3>1, <3>2, <3>3
  <2>3. LimitsInv'
    BY <1>3, <2>1, <2>2 DEF LimitsInv
  <2>4. ASSUME NEW p \in Servers PROVE Saves(p)'
    <3>1. task[p].then \in {"usage", "answer"} => task[p].call # c /\ task[p].call \in Calls
      BY <1>2, <2>1 DEF Typed, TaskInv
    <3>2. Saves(p)
      BY DEF SavingInv
    <3>3. QED
      BY <2>1, <2>2, <3>1, <3>2 DEF Saves
  <2>5. QED
    BY <2>3, <2>4 DEF SavingInv
<1>7. ASSUME NEW c \in Calls, NEW p \in Servers, RecordUsage(p, c)
      PROVE  SavingInv' /\ LimitsInv'
  <2>1. /\ UNCHANGED <<today, disk>> /\ disk = mem[p] /\ call' = [call EXCEPT ![c].state = "recording"]
    BY <1>7, IdleReads DEF RecordUsage, Resumes, RecordOnNewDay
  <2>2. LimitsInv'
    BY <1>3, <2>1 DEF LimitsInv
  <2>3. call'[c].day <= today /\ call'[c].amount = call[c].amount
    BY <1>3, <2>1 DEF LimitsInv
  <2>4. CASE RecordOnNewDay(p, c)
    <3>1. task'[p] = Saving("usage", c) /\ mem'[p] = ResetDaily(mem[p]) /\ disk.dailyResetDate # today
      BY <1>2, <1>3, <2>1, <2>4 DEF RecordOnNewDay, NewDay
    <3>2. mem'[p].dailyUsed = 0 /\ mem'[p].dailyResetDate = today
      BY <1>2, <1>3, <3>1 DEF ResetDaily, SafeguardConfig
    <3>3. Saves(p)'
      BY <1>3, <2>1, <2>3, <3>1, <3>2 DEF Saves, Saving
    <3>4. QED
      BY <1>2, <2>2, <3>3, OnlySaves
  <2>5. CASE ~RecordOnNewDay(p, c)
    <3>1. /\ task'[p] = Saving("answer", c) /\ mem'[p] = AddUsage(mem[p], call[c].amount)
          /\ disk.dailyResetDate = today
      BY <1>2, <1>3, <1>7, <2>1, <2>5 DEF RecordUsage, NewDay
    <3>2. /\ mem'[p].dailyUsed = disk.dailyUsed + call[c].amount
          /\ mem'[p].dailyResetDate = disk.dailyResetDate
      BY <1>2, <1>3, <2>1, <3>1 DEF AddUsage, SafeguardConfig
    <3>3. Saves(p)'
      BY <1>3, <2>1, <2>3, <3>1, <3>2 DEF Saves, Saving
    <3>4. QED
      BY <1>2, <2>2, <3>3, OnlySaves
  <2>6. QED
    BY <2>4, <2>5
<1>8. ASSUME NEW p \in Servers, Truncate(p) PROVE SavingInv' /\ LimitsInv'
  <2>1. UNCHANGED <<today, disk, mem, call>> /\ task[p].step = "save"
        /\ task'[p].then = task[p].then /\ task'[p].call = task[p].call
    BY <1>2, <1>3, <1>8 DEF Truncate
  <2>2. Saves(p)'
    BY <2>1 DEF SavingInv, Saves
  <2>3. QED
    BY <1>2, <2>1, <2>2, OnlySaves DEF LimitsInv
<1>9. ASSUME NEW p \in Servers, Write(p) PROVE SavingInv' /\ LimitsInv'
  <2>1. /\ disk' = mem[p] /\ today' = today /\ Saves(p) /\ task[p].step = "opened"
        /\ disk.maxPerTx = mem[p].maxPerTx /\ disk.maxDailySend = mem[p].maxDailySend
    <3>1. task[p].step = "opened" /\ disk' = mem[p] /\ today' = today
      BY <1>9 DEF Write, PutOnDisk
    <3>2. Saves(p)
      BY DEF SavingInv
    <3>3. task[p].then # "set"
      BY <3>1, <3>2 DEF Saves
    <3>4. QED
      BY <3>1, <3>2, <3>3 DEF FileInv
  <2>2. LimitsInv'
    <3>1. ASSUME NEW d \in Calls
          PROVE  /\ call'[d].day <= today
                 /\ call'[d].state \in {"checking", "sending"} /\ call[d].op \notin OUTBOUND_OPS =>
                       call[d].amount = 0
                 /\ call'[d].op = call[d].op /\ call'[d].amount = call[d].amount
      <4>1. CASE call'[d] = call[d]
        BY <4>1 DEF LimitsInv
      <4>2. CASE call'[d] # call[d]
        <5>1. /\ d = task[p].call /\ task[p].then \in {"answer", "daily"}
              /\ \E s : call' = [call EXCEPT ![d].state = s]
          BY <1>3, <1>9, <4>2 DEF Write, AfterSave
        <5>2. call[d].state = "checking" \/ call'[d].state = "done"
          <6>1. CASE task[p].then = "daily"
            BY <1>2, <5>1, <6>1 DEF Typed, TaskInv
          <6>2. CASE task[p].then = "answer"
            <7>1. call' = [call EXCEPT ![d].state = "done"]
              BY <1>9, <5>1, <6>2 DEF Write, AfterSave
            <7>2. QED
              BY <1>3, <7>1
          <6>3. QED
            BY <5>1, <6>1, <6>2
        <5>3. /\ call'[d].day = call[d].day /\ call'[d].op = call[d].op
              /\ call'[d].amount = call[d].amount
          BY <1>3, <5>1
        <5>4. QED
          BY <5>2, <5>3 DEF LimitsInv
      <4>3. QED
        BY <4>1, <4>2
    <3>2. mem[p].dailyResetDate <= today
      BY <2>1 DEF Saves
    <3>3. QED
      BY <2>1, <3>1, <3>2 DEF LimitsInv
  <2>3. CASE task[p].then = "usage"
    <3> DEFINE c == task[p].call
    <3>1. c \in Calls
      BY <1>2, <2>3 DEF Typed, TaskInv
    <3>2. /\ task'[p] = Saving("answer", c) /\ mem'[p] = AddUsage(mem[p], call[c].amount)
          /\ call' = call
      BY <1>2, <1>3, <1>9, <2>3 DEF Write, AfterSave
    <3>3. /\ mem'[p].dailyUsed = mem[p].dailyUsed + call[c].amount
          /\ mem'[p].dailyResetDate = mem[p].dailyResetDate
      BY <1>2, <1>3, <3>2 DEF AddUsage, SafeguardConfig
    <3>4. mem[p].dailyResetDate <= today /\ call[c].day <= mem[p].dailyResetDate
      BY <2>1, <2>3 DEF Saves
    <3>5. Saves(p)'
      BY <1>3, <2>1, <3>2, <3>3, <3>4 DEF Saves, Saving
    <3>6. QED
      BY <1>2, <2>2, <3>5, OnlySaves
  <2>4. CASE task[p].then # "usage"
    <3>1. task'[p].step = "idle"
      BY <1>2, <1>3, <1>9, <2>4 DEF Write, AfterSave, Returned, Idle
    <3>2. Saves(p)'
      BY <3>1 DEF Saves
    <3>3. QED
      BY <1>2, <2>2, <3>2, OnlySaves
  <2>5. QED
    BY <2>3, <2>4
<1>10. ASSUME NEW p \in Servers, UNCHANGED <<today, disk, call>>, task'[p].step \in {"idle", "down"}
       PROVE  SavingInv' /\ LimitsInv'
  <2>1. Saves(p)'
    BY <1>10 DEF Saves
  <2>2. QED
    BY <1>2, <1>10, <2>1, OnlySaves DEF LimitsInv
<1>11. ASSUME NEW p \in Procs, Lock(p) PROVE SavingInv' /\ LimitsInv'
  <2>1. p \in Servers /\ task[p].step = "idle"
    BY <1>2, <1>11 DEF Lock, SaveAs, Procs
  <2>2. /\ disk = mem[p] /\ UNCHANGED <<today, disk, call>> /\ task'[p] = Saving("return", NoCall)
        /\ mem'[p] = [mem[p] EXCEPT !.locked = TRUE]
    BY <1>2, <1>3, <1>11, <2>1, IdleReads DEF Lock, SaveAs
  <2>3. mem'[p].dailyUsed = disk.dailyUsed /\ mem'[p].dailyResetDate = disk.dailyResetDate
    BY <1>3, <2>2 DEF SafeguardConfig
  <2>4. disk.dailyResetDate <= today
    BY DEF LimitsInv
  <2>5. Saves(p)'
    BY <1>3, <2>2, <2>3, <2>4 DEF Saves, Saving
  <2>6. QED
    BY <1>2, <2>1, <2>2, <2>5, OnlySaves DEF LimitsInv
<1>12. ASSUME NEW p \in Procs, ShowConfig(p) PROVE SavingInv' /\ LimitsInv'
  <2>1. p \in Servers /\ task[p].step = "idle"
    BY <1>2, <1>12 DEF ShowConfig, SaveAs, Procs
  <2>2. OnDisk = disk /\ disk = mem[p] /\ UNCHANGED <<today, disk, call>>
    BY <1>12, <2>1, IdleReads DEF ShowConfig, SaveAs
  <2>3. CASE NewDay(OnDisk) /\ SaveAs(p, ResetDaily(OnDisk), "return")
    <3>1. /\ task'[p] = Saving("return", NoCall) /\ mem'[p] = ResetDaily(disk)
          /\ disk.dailyResetDate # today
      BY <1>2, <1>3, <2>1, <2>2, <2>3 DEF SaveAs, NewDay
    <3>2. mem'[p].dailyUsed = 0 /\ mem'[p].dailyResetDate = today
      BY <1>3, <3>1 DEF ResetDaily, SafeguardConfig
    <3>3. Saves(p)'
      BY <1>3, <2>2, <3>1, <3>2 DEF Saves, Saving
    <3>4. QED
      BY <1>2, <2>1, <2>2, <3>3, OnlySaves DEF LimitsInv
  <2>4. CASE task' = [task EXCEPT ![p] = Returned(p)]
    BY <1>2, <1>3, <1>10, <2>1, <2>2, <2>4 DEF Returned, Idle
  <2>5. QED
    BY <1>12, <2>3, <2>4 DEF ShowConfig
<1>13. ASSUME NEW p \in Servers, StartServer(p) PROVE SavingInv' /\ LimitsInv'
  BY <1>2, <1>3, <1>10, <1>13 DEF StartServer, Idle
<1>14. ASSUME NEW p \in Servers, Crash(p) PROVE SavingInv' /\ LimitsInv'
  <2>1. UNCHANGED <<today, disk, mem>> /\ task'[p] = Down
    BY <1>2, <1>3, <1>14 DEF Crash
  <2>2. \A d \in Calls : /\ call'[d].day = call[d].day /\ call'[d].op = call[d].op
                         /\ call'[d].amount = call[d].amount
                         /\ call'[d].state \in {"checking", "sending"} => call'[d].state = call[d].state
    BY <1>3, <1>14 DEF Crash
  <2>3. LimitsInv' /\ Saves(p)'
    BY <2>1, <2>2 DEF LimitsInv, Saves, Down
  <2>4. QED
    BY <1>2, <2>3, OnlySaves
<1>15. ASSUME Midnight PROVE SavingInv' /\ LimitsInv'
  <2>1. today' = today + 1 /\ UNCHANGED <<disk, mem, task, call>>
    BY <1>15 DEF Midnight
  <2>2. LimitsInv'
    BY <1>3, <2>1 DEF LimitsInv, SafeguardConfig, Days
  <2>3. ASSUME NEW p \in Servers PROVE Saves(p)'
    <3>1. Saves(p) /\ mem[p] \in SafeguardConfig
      BY <1>2, <1>3 DEF SavingInv
    <3>2. disk.dailyResetDate <= today
      BY DEF LimitsInv
    <3>3. QED
      BY <1>3, <2>1, <3>1, <3>2 DEF Saves, SafeguardConfig, Days
  <2>4. QED
    BY <2>2, <2>3 DEF SavingInv
<1>16. ASSUME UNCHANGED vars PROVE SavingInv' /\ LimitsInv'
  BY <1>16 DEF SavingInv, Saves, LimitsInv, vars
<1>17. CASE CallNext
  <2>1. \A c \in Calls, n \in Amounts : ~CliSend(c, n)
    BY <1>2 DEF CliSend
  <2>2. QED
    BY <1>4, <1>5, <1>6, <1>7, <1>17, <2>1 DEF CallNext
<1>18. CASE ProcNext
  <2>1. \A p \in Procs : ~SaveFails(p) /\ ~SetLimit(p)
    BY <1>2 DEF Alone, SaveFails, SetLimit, Procs
  <2>2. \A p \in Procs : Truncate(p) \/ Write(p) \/ StartServer(p) \/ Crash(p) => p \in Servers
    BY <1>2 DEF Truncate, Write, StartServer, Crash, Procs
  <2>3. QED
    BY <1>8, <1>9, <1>11, <1>12, <1>13, <1>14, <1>18, <2>1, <2>2 DEF ProcNext
<1>19. ~StartCli /\ ~Unlock
  BY <1>2 DEF StartCli, Unlock, Alone
<1>20. QED
  BY <1>15, <1>16, <1>17, <1>18, <1>19 DEF Next
\* Nobody takes off.
LEMMA FlightKeeps ==
    ASSUME Typed, FlightInv, InFlight' \subseteq InFlight,
           \A d \in Calls : call'[d].amount = call[d].amount
    PROVE  FlightInv'
<1>1. IsFiniteSet(InFlight) /\ InFlight \subseteq Calls
  BY ProcsAssumption, FS_Subset DEF InFlight
<1>2. Cardinality(InFlight') <= Cardinality(InFlight)
  BY <1>1, FS_Subset
<1>3. IsFiniteSet(InFlight')
  BY <1>1, FS_Subset
<1>4. Cardinality(InFlight') \in Nat /\ Cardinality(InFlight) \in Nat
  BY <1>1, <1>3, FS_CardinalityType
<1>5. Cardinality(InFlight') <= MaxInFlight
  BY <1>2, <1>4, BoundsAssumption DEF FlightInv
<1>6. \A d \in InFlight' : call'[d].amount <= PerTx
  BY <1>1 DEF FlightInv
<1>7. QED
  BY <1>5, <1>6 DEF FlightInv

\* A call takes off, of an amount within the limit per transaction.
LEMMA FlightJoins ==
    ASSUME Typed, FlightInv, NEW c \in Calls, NEW r \in Call, call' = [call EXCEPT ![c] = r],
           today' = today, Cardinality(InFlight) < MaxInFlight, r.amount <= PerTx
    PROVE  FlightInv'
<1>1. IsFiniteSet(InFlight) /\ InFlight \subseteq Calls
  BY ProcsAssumption, FS_Subset DEF InFlight
<1>2. InFlight' \subseteq InFlight \cup {c}
  BY OneCall
<1>3. /\ IsFiniteSet(InFlight \cup {c}) /\ Cardinality(InFlight) \in Nat
      /\ Cardinality(InFlight \cup {c}) <= Cardinality(InFlight) + 1
  <2>1. Cardinality(InFlight) \in Nat
    BY <1>1, FS_CardinalityType
  <2>2. /\ IsFiniteSet(InFlight \cup {c})
        /\ Cardinality(InFlight \cup {c}) \in {Cardinality(InFlight), Cardinality(InFlight) + 1}
    BY <1>1, FS_AddElement
  <2>3. QED
    BY <2>1, <2>2
<1>4. /\ Cardinality(InFlight') <= Cardinality(InFlight \cup {c})
      /\ Cardinality(InFlight') \in Nat /\ Cardinality(InFlight \cup {c}) \in Nat
  BY <1>2, <1>3, FS_Subset, FS_CardinalityType
<1>5. Cardinality(InFlight') <= MaxInFlight
  BY <1>3, <1>4, BoundsAssumption
<1>6. call \in [Calls -> Call]
  BY DEF Typed, TypeOK
<1>7. \A d \in InFlight' : call'[d].amount <= PerTx
  BY <1>1, <1>2, <1>6 DEF FlightInv
<1>8. QED
  BY <1>5, <1>7 DEF FlightInv

AmountInv == FlightInv /\ UsageInv /\ SendingInv

\* A step that changes no call, no sum and nothing of today's usage.
LEMMA AmountsStay ==
    ASSUME Typed, AmountInv, UNCHANGED <<call, today, spent, lost>>, UsedToday' = UsedToday
    PROVE  AmountInv'
  BY DEF AmountInv, FlightInv, UsageInv, SendingInv, Total, Loose, Sending, InFlight, Unrecorded

\* The server lets a call through its check at once, or refuses it.
LEMMA AmountsCall ==
    ASSUME Typed, LimitsInv, AmountInv, Limited, NEW c \in Calls, NEW r \in Call,
           call' = [call EXCEPT ![c] = r], call[c].state = "new", r.day = 0,
           UNCHANGED <<today, disk, spent, lost>>,
           Cardinality(InFlight) < MaxInFlight,
           \/ r.state = "refused"
           \/ r.state = "checking" /\ r.amount <= PerTx
           \/ r.state = "sending" /\ r.amount = 0
           \/ /\ r.state = "sending" /\ r.amount <= PerTx
              /\ disk.dailyUsed + r.amount <= PerDay
    PROVE  AmountInv'
<1> USE DEF AmountInv
<1>1. /\ call \in [Calls -> Call] /\ call' \in [Calls -> Call] /\ r.amount \in Nat
      /\ Loose \in SUBSET Calls /\ Sending \in SUBSET Calls
      /\ PerTx \in Nat /\ PerDay \in Nat /\ spent \in Nat /\ lost \in Nat
  BY ConfigAssumption DEF Typed, TypeOK, Call, Loose, Sending, PerTx, PerDay, SafeguardConfig
<1>2. c \notin Loose /\ c \notin Sending /\ c \notin InFlight /\ call'[c] = r
  BY <1>1 DEF Loose, Sending, InFlight, Unrecorded
<1>3. Loose' = Loose /\ Sending' = IF r.state = "sending" THEN Sending \cup {c} ELSE Sending
  <2>1. r.state \notin {"confirmed", "recording"}
    OBVIOUS
  <2>2. /\ Loose' = Loose \ {c}
        /\ Sending' = IF r.state = "sending" THEN Sending \cup {c} ELSE Sending \ {c}
    BY <2>1, OneCall
  <2>3. QED
    BY <1>2, <2>2
<1>4. SumOf(call', Loose) = SumOf(call, Loose) /\ SumOf(call', Sending) = SumOf(call, Sending)
  BY <1>1, <1>2, OneCall
<1>5. SumOf(call', Sending \cup {c}) = SumOf(call', Sending) + r.amount
  BY <1>1, <1>2, SumOfFacts
<1>6. UsageInv'
  <2>1. UsedToday' = UsedToday /\ Total(Loose)' = Total(Loose)
    BY <1>3, <1>4, TotalIsSum DEF UsedToday
  <2>2. QED
    BY <2>1 DEF UsageInv
<1>7. FlightInv'
  <2>1. CASE r.state = "refused"
    <3>1. InFlight' \subseteq InFlight
      BY <2>1, OneCall
    <3>2. Cardinality(InFlight') <= MaxInFlight /\ \A d \in InFlight' : d # c
      <4>1. IsFiniteSet(InFlight) /\ Cardinality(InFlight) \in Nat
        BY ProcsAssumption, FS_Subset, FS_CardinalityType DEF InFlight
      <4>2. Cardinality(InFlight') <= Cardinality(InFlight) /\ Cardinality(InFlight') \in Nat
        BY <3>1, <4>1, FS_Subset, FS_CardinalityType
      <4>3. QED
        BY <1>2, <3>1, <4>1, <4>2, BoundsAssumption
    <3>3. \A d \in InFlight' : call'[d].amount <= PerTx
      BY <1>1, <3>1, <3>2 DEF FlightInv, InFlight
    <3>4. QED
      BY <3>2, <3>3 DEF FlightInv
  <2>2. CASE r.state # "refused"
    <3>1. r.amount <= PerTx
      BY <1>1, <2>2
    <3>2. QED
      BY <3>1, FlightJoins
  <2>3. QED
    BY <2>1, <2>2
<1>8. SendingInv'
  <2>1. CASE r.state # "sending"
    <3>1. Total(Sending)' = Total(Sending)
      BY <1>3, <1>4, <2>1, TotalIsSum
    <3>2. QED
      BY <3>1 DEF SendingInv
  <2>2. CASE r.state = "sending"
    <3>1. Total(Sending)' = Total(Sending) + r.amount
      BY <1>3, <1>4, <1>5, <2>2, TotalIsSum
    <3>2. Total(Sending) \in Nat
      BY <1>1, SumOfFacts, TotalIsSum
    <3>3. PICK room : room = PerDay + (MaxInFlight - 1) * PerTx
      OBVIOUS
    <3>4. CASE r.amount = 0
      <4>1. Total(Sending)' = Total(Sending)
        BY <3>1, <3>2, <3>4
      <4>2. QED
        BY <4>1 DEF SendingInv
    <3>5. CASE disk.dailyUsed + r.amount <= PerDay
      <4>1. Cardinality(InFlight \ {c}) <= MaxInFlight - 1
        <5>1. InFlight \ {c} = InFlight
          BY <1>2
        <5>2. Cardinality(InFlight) \in Nat
          BY ProcsAssumption, FS_Subset, FS_CardinalityType DEF InFlight
        <5>3. Cardinality(InFlight) <= MaxInFlight - 1
          BY <5>2, BoundsAssumption
        <5>4. QED
          BY <5>1, <5>3, Zenon
      <4>2. disk.dailyUsed \in Nat /\ UsedToday <= disk.dailyUsed
        BY DEF Typed, TypeOK, SafeguardConfig, UsedToday
      <4>3. /\ spent - lost + Total(Sending) + r.amount <= PerDay + (MaxInFlight - 1) * PerTx
            /\ Total(Sending) + r.amount <= PerDay + (MaxInFlight - 1) * PerTx
        BY <1>1, <1>2, <3>5, <4>1, <4>2, Room
      <4>4. UNCHANGED <<spent, lost>> /\ PerTx' = PerTx /\ PerDay' = PerDay
        BY DEF PerTx, PerDay
      <4>5. QED
        BY <1>1, <3>1, <3>2, <3>3, <4>3, <4>4 DEF SendingInv
    <3>6. QED
      BY <2>2, <3>4, <3>5
  <2>3. QED
    BY <2>1, <2>2
<1>9. QED
  BY <1>6, <1>7, <1>8

\* Payments confirm, fail, settle and are taken up for recording.
LEMMA AmountsMove ==
    ASSUME Typed, LimitsInv, AmountInv, FileInv, NEW c \in Calls,
           \/ Confirm(c) \/ Throw(c) \/ SettleLate(c) \/ \E p \in Servers : RecordUsage(p, c)
    PROVE  AmountInv'
<1> USE DEF AmountInv
<1>1. /\ call \in [Calls -> Call] /\ call[c] \in Call /\ call[c].amount \in Nat
      /\ Loose \in SUBSET Calls /\ Sending \in SUBSET Calls
      /\ spent \in Nat /\ lost \in Nat /\ today \in Days
      /\ PerTx \in Nat /\ PerDay \in Nat
  BY ConfigAssumption
     DEF Typed, TypeOK, Call, Loose, Sending, PerTx, PerDay, SafeguardConfig, Days
<1>2. /\ UNCHANGED <<today, disk>>
      /\ call[c].state \in {"sending", "threw", "confirmed"}
  BY DEF Confirm, Throw, SettleLate, RecordUsage, Resumes
<1>3. PICK r \in Call :
         /\ call' = [call EXCEPT ![c] = r] /\ r.amount = call[c].amount
         /\ \/ Confirm(c) /\ call[c].state = "sending" /\ r.day = today
               /\ \/ r.state = "confirmed"
                  \/ r.state = "done" /\ call[c].op \notin OUTBOUND_OPS
            \/ Throw(c) /\ ~Confirm(c) /\ call[c].state = "sending" /\ r.state = "threw"
            \/ SettleLate(c) /\ call[c].state = "threw" /\ r.state = "done"
            \/ /\ UNCHANGED <<spent, lost>>
               /\ call[c].state = "confirmed" /\ r.state = "recording" /\ r.day = call[c].day
  <2>1. CASE Confirm(c)
    <3>1. call[c].proc # Cli
      BY <1>1, <1>2, ProcsAssumption DEF FileInv
    <3>2. PICK s : /\ call' = [call EXCEPT ![c].day = today, ![c].state = s]
                   /\ s = "confirmed" \/ (s = "done" /\ call[c].op \notin OUTBOUND_OPS)
      BY <2>1, <3>1 DEF Confirm
    <3>3. [call[c] EXCEPT !.day = today, !.state = s] \in Call
      BY <1>1, <3>2 DEF Call, CallStates
    <3>4. call' = [call EXCEPT ![c] = [call[c] EXCEPT !.day = today, !.state = s]]
      BY <1>1, <3>2
    <3>5. call[c].state = "sending"
      BY <2>1 DEF Confirm
    <3>6. PICK r \in Call : /\ r = [call[c] EXCEPT !.day = today, !.state = s]
                           /\ r.amount = call[c].amount /\ r.day = today /\ r.state = s
      BY <1>1, <3>3 DEF Call
    <3>7. QED
      BY <2>1, <3>2, <3>4, <3>5, <3>6
  <2>2. ASSUME NEW s \in {"threw", "done", "recording"}, call' = [call EXCEPT ![c].state = s]
        PROVE  \E r \in Call : /\ call' = [call EXCEPT ![c] = r] /\ r.amount = call[c].amount
                              /\ r.state = s /\ r.day = call[c].day
    <3>1. [call[c] EXCEPT !.state = s] \in Call
      BY <1>1, <2>2 DEF Call, CallStates
    <3>2. call' = [call EXCEPT ![c] = [call[c] EXCEPT !.state = s]]
      BY <1>1, <2>2
    <3>3. PICK r \in Call : /\ r = [call[c] EXCEPT !.state = s]
                           /\ r.amount = call[c].amount /\ r.day = call[c].day /\ r.state = s
      BY <1>1, <3>1 DEF Call
    <3>4. QED
      BY <3>2, <3>3
  <2>3. CASE Throw(c) /\ ~Confirm(c)
    BY <2>2, <2>3 DEF Throw
  <2>4. CASE SettleLate(c)
    BY <2>2, <2>4 DEF SettleLate
  <2>5. CASE \E p \in Servers : RecordUsage(p, c)
    <3>1. /\ UNCHANGED <<spent, lost>> /\ call[c].state = "confirmed"
          /\ call' = [call EXCEPT ![c].state = "recording"]
      BY <2>5 DEF RecordUsage, Resumes, RecordOnNewDay
    <3>2. QED
      BY <2>2, <3>1
  <2>6. QED
    BY <2>1, <2>3, <2>4, <2>5
<1>4. /\ Loose' = IF r.state \in {"confirmed", "recording"} /\ r.day = today
                 THEN Loose \cup {c} ELSE Loose \ {c}
      /\ Sending' = Sending \ {c}
      /\ SumOf(call', Loose) = SumOf(call, Loose) /\ SumOf(call', Sending) = SumOf(call, Sending)
  <2>1. r.state # "sending" /\ today' = today /\ call' = [call EXCEPT ![c] = r]
    BY <1>2, <1>3
  <2>2. Sending' = Sending \ {c}
    BY <2>1, OneCall
  <2>3. /\ Loose' = IF r.state \in {"confirmed", "recording"} /\ r.day = today
                   THEN Loose \cup {c} ELSE Loose \ {c}
        /\ \A S \in SUBSET Calls : r.amount = call[c].amount => SumOf(call', S) = SumOf(call, S)
    BY <2>1, OneCall
  <2>4. QED
    BY <1>1, <1>3, <2>2, <2>3
<1>5. /\ c \in Sending <=> call[c].state = "sending"
      /\ c \in Loose <=> call[c].state = "confirmed" /\ call[c].day = today
  BY <1>2 DEF Sending, Loose
<1>6. call' \in [Calls -> Call] /\ call'[c].amount = call[c].amount
  BY <1>1, <1>3
<1>7. FlightInv'
  <2>1. InFlight' \subseteq InFlight
    <3>1. InFlight' \subseteq InFlight \cup {c}
      BY <1>2, <1>3, OneCall
    <3>2. call[c].state = "threw" => c \notin InFlight'
      <4>1. call[c].state = "threw" => r.state = "done"
        BY <1>3
      <4>2. QED
        BY <1>1, <1>3, <4>1 DEF InFlight, Unrecorded
    <3>3. call[c].state # "threw" => c \in InFlight
      BY <1>2 DEF InFlight, Unrecorded
    <3>4. QED
      BY <3>1, <3>2, <3>3
  <2>2. \A d \in Calls : call'[d].amount = call[d].amount
    BY <1>1, <1>3
  <2>3. QED
    BY <2>1, <2>2, FlightKeeps
<1>8. PICK A \in Nat, B \in Nat :
         /\ A = SumOf(call', Loose) /\ B = SumOf(call', Sending)
         /\ A = Total(Loose) /\ B = Total(Sending)
  BY <1>1, <1>4, SumOfFacts, TotalIsSum
<1>9. /\ c \in Sending => SumOf(call', Sending \ {c}) = B - call[c].amount
      /\ c \notin Sending => SumOf(call', Sending \ {c}) = B
  <2>1. c \in Sending => SumOf(call', Sending \ {c}) = SumOf(call', Sending) - call'[c].amount
    BY <1>1, <1>6, SumOfFacts
  <2>2. c \notin Sending => Sending \ {c} = Sending
    OBVIOUS
  <2>3. c \notin Sending => SumOf(call', Sending \ {c}) = SumOf(call', Sending)
    BY <2>2, Zenon
  <2>4. QED
    BY <1>6, <1>8, <2>1, <2>3
<1>10. Total(Sending)' = IF call[c].state = "sending" THEN B - call[c].amount ELSE B
  <2>1. Total(Sending)' = SumOf(call', Sending \ {c})
    BY <1>4, TotalIsSum, Zenon
  <2>2. QED
    BY <1>5, <1>9, <2>1
<1>11. Total(Loose)' = IF Confirm(c) /\ r.state = "confirmed" THEN A + call[c].amount ELSE A
  <2>1. CASE Confirm(c) /\ r.state = "confirmed"
    <3>1. Loose' = Loose \cup {c} /\ c \notin Loose
      <4>1. r.day = today /\ call[c].state = "sending"
        BY <1>3, <2>1 DEF Confirm, Throw, SettleLate
      <4>2. QED
        BY <1>4, <1>5, <2>1, <4>1
    <3>2. SumOf(call', Loose \cup {c}) = SumOf(call', Loose) + call'[c].amount
      BY <1>1, <1>6, <3>1, SumOfFacts
    <3>3. Total(Loose)' = SumOf(call', Loose \cup {c})
      BY <3>1, TotalIsSum, Zenon
    <3>4. QED
      BY <1>6, <1>8, <2>1, <3>2, <3>3
  <2>2. CASE ~(Confirm(c) /\ r.state = "confirmed")
    <3>1. Loose' = Loose
      <4>1. CASE r.state \in {"threw", "done"}
        <5>1. c \notin Loose
          BY <1>3, <1>5, <4>1
        <5>2. Loose' = Loose \ {c}
          BY <1>4, <4>1
        <5>3. QED
          BY <5>1, <5>2
      <4>2. CASE r.state = "recording"
        <5>1. r.day = call[c].day /\ call[c].state = "confirmed"
          BY <1>3, <4>2
        <5>2. QED
          BY <1>4, <1>5, <4>2, <5>1
      <4>3. QED
        BY <1>3, <2>2, <4>1, <4>2
    <3>2. Total(Loose)' = SumOf(call', Loose)
      BY <3>1, TotalIsSum, Zenon
    <3>3. QED
      BY <1>8, <2>2, <3>2
  <2>3. QED
    BY <2>1, <2>2
<1>12. CASE Confirm(c)
  <2>1. /\ spent' = spent + call[c].amount /\ lost' = lost /\ call[c].state = "sending"
    <3>1. call[c].proc # Cli
      BY <1>1, <1>2, ProcsAssumption DEF FileInv
    <3>2. QED
      BY <1>12, <3>1 DEF Confirm
  <2>2. r.state # "confirmed" => call[c].amount = 0
    <3>1. r.state # "confirmed" => call[c].op \notin OUTBOUND_OPS
      BY <1>3, <1>12, <2>1
    <3>2. QED
      BY <2>1, <3>1 DEF LimitsInv
  <2>3. UsedToday' = UsedToday /\ UsedToday \in Nat
    BY <1>2 DEF UsedToday, Typed, TypeOK, SafeguardConfig
  <2>4. UsageInv'
    BY <1>1, <1>8, <1>11, <1>12, <2>1, <2>2, <2>3 DEF UsageInv
  <2>5. PICK room \in Int : room = PerDay + (MaxInFlight - 1) * PerTx
    BY <1>1, BoundsAssumption
  <2>6. SendingInv'
    BY <1>1, <1>8, <1>10, <2>1, <2>5 DEF SendingInv, PerTx, PerDay
  <2>7. QED
    BY <1>7, <2>4, <2>6
<1>13. CASE ~Confirm(c)
  <2>1. spent' - lost' = spent - lost
    <3>1. CASE SettleLate(c)
      BY <1>1, <3>1 DEF SettleLate
    <3>2. CASE ~SettleLate(c)
      BY <1>3, <1>13, <3>2 DEF Throw
    <3>3. QED
      BY <3>1, <3>2
  <2>2. UsedToday' = UsedToday
    BY <1>2 DEF UsedToday
  <2>3. UsageInv'
    BY <1>8, <1>11, <1>13, <2>1, <2>2 DEF UsageInv
  <2>4. PICK room \in Int : room = PerDay + (MaxInFlight - 1) * PerTx
    BY <1>1, BoundsAssumption
  <2>5. SendingInv'
    BY <1>1, <1>8, <1>10, <2>1, <2>4 DEF SendingInv, PerTx, PerDay
  <2>6. QED
    BY <1>7, <2>3, <2>5
<1>14. QED
  BY <1>12, <1>13

\* A save ends: today's usage in the file moves with the calls it records.
LEMMA AmountsWrite ==
    ASSUME Typed, FileInv, SavingInv, LimitsInv, AmountInv, Limited,
           NEW p \in Servers, Write(p)
    PROVE  AmountInv'
<1> USE DEF AmountInv
<1> DEFINE c == task[p].call
<1>1. /\ call \in [Calls -> Call] /\ Loose \in SUBSET Calls /\ Sending \in SUBSET Calls
      /\ spent \in Nat /\ lost \in Nat /\ today \in Nat /\ disk \in SafeguardConfig
      /\ PerTx \in Nat /\ PerDay \in Nat /\ mem[p] \in SafeguardConfig /\ p \in Procs
  BY ConfigAssumption DEF Typed, TypeOK, Loose, Sending, PerTx, PerDay, SafeguardConfig, Procs
<1>2. /\ disk' = mem[p] /\ UNCHANGED <<today, spent, lost>> /\ Saves(p) /\ task[p].step = "opened"
      /\ mem[p].maxDailySend = PerDay /\ mem[p].maxPerTx = PerTx
      /\ mem[p].dailyResetDate <= today /\ mem[p].dailyResetDate \in Nat
  <2>1. /\ disk' = mem[p] /\ UNCHANGED <<today, spent, lost>> /\ task[p].step = "opened"
    BY DEF Write, PutOnDisk
  <2>2. Saves(p)
    BY DEF SavingInv
  <2>3. task[p].then # "set" /\ mem[p].dailyResetDate <= today
    BY <2>1, <2>2 DEF Saves
  <2>4. QED
    BY <1>1, <2>1, <2>2, <2>3 DEF FileInv, LimitsInv, SafeguardConfig, Days
<1>3. disk.dailyUsed \in Nat /\ mem[p].dailyUsed \in Nat /\ UsedToday \in Nat
  BY <1>1 DEF SafeguardConfig, UsedToday
<1>4. CASE task[p].then \in {"return", "usage"}
  <2>1. UNCHANGED <<call, today, spent, lost>>
    BY <1>2, <1>4 DEF Write, AfterSave
  <2>2. UsedToday' = UsedToday
    BY <1>1, <1>2, <1>4 DEF UsedToday, Saves
  <2>3. QED
    BY <2>1, <2>2, AmountsStay
<1>5. ASSUME task[p].then \in {"answer", "daily"}
      PROVE  /\ c \in Calls /\ call[c].state = IF task[p].then = "daily" THEN "checking" ELSE "recording"
             /\ call[c] \in Call /\ call[c].amount \in Nat
             /\ \E r \in Call : /\ call' = [call EXCEPT ![c] = r] /\ r.amount = call[c].amount
                              /\ r.state = IF task[p].then = "daily"
                                           THEN Verdict(mem[p], call[c].amount) ELSE "done"
  <2>1. /\ c \in Calls /\ call[c].state = IF task[p].then = "daily" THEN "checking" ELSE "recording"
    BY <1>1, <1>5 DEF Typed, TaskInv
  <2>2. call[c] \in Call /\ call[c].amount \in Nat
    BY <1>1, <2>1 DEF Call
  <2>3. PICK s \in {"done", "refused", "sending"} :
           /\ s = IF task[p].then = "daily" THEN Verdict(mem[p], call[c].amount) ELSE "done"
           /\ call' = [call EXCEPT ![c].state = s]
    BY <1>5 DEF Write, AfterSave, Verdict
  <2>4. PICK r \in Call : r = [call[c] EXCEPT !.state = s] /\ r.amount = call[c].amount /\ r.state = s
    <3>1. [call[c] EXCEPT !.state = s] \in Call
      BY <2>2, <2>3 DEF Call, CallStates
    <3>2. [call[c] EXCEPT !.state = s].amount = call[c].amount /\ [call[c] EXCEPT !.state = s].state = s
      BY <2>2 DEF Call
    <3>3. QED
      BY <3>1, <3>2
  <2>5. call' = [call EXCEPT ![c] = r]
    BY <1>1, <2>3, <2>4
  <2>6. QED
    BY <2>1, <2>2, <2>3, <2>4, <2>5
<1> HIDE DEF c
<1>6. ASSUME task[p].then \in {"answer", "daily"} PROVE FlightInv'
  <2>1. PICK r \in Call : call' = [call EXCEPT ![c] = r] /\ r.amount = call[c].amount
    BY <1>5, <1>6
  <2>2. c \in InFlight
    BY <1>5, <1>6 DEF InFlight, Unrecorded
  <2>3. InFlight' \subseteq InFlight \cup {c}
    BY <1>2, <1>5, <1>6, <2>1, OneCall
  <2>4. InFlight' \subseteq InFlight /\ \A d \in Calls : call'[d].amount = call[d].amount
    BY <1>1, <2>1, <2>2, <2>3
  <2>5. QED
    BY <2>4, FlightKeeps
<1>7. CASE task[p].then = "answer"
  <2>1. PICK r \in Call : /\ call' = [call EXCEPT ![c] = r] /\ r.amount = call[c].amount
                         /\ r.state = "done"
    BY <1>5, <1>7
  <2>2. c \in Calls /\ call[c].state = "recording" /\ call[c].amount \in Nat
    BY <1>5, <1>7
  <2>3. /\ Loose' = Loose \ {c} /\ Sending' = Sending \ {c}
        /\ SumOf(call', Loose) = SumOf(call, Loose) /\ SumOf(call', Sending) = SumOf(call, Sending)
    <3>1. Loose' = Loose \ {c} /\ Sending' = Sending \ {c}
      BY <1>2, <2>1, <2>2, OneCall
    <3>2. \A S \in SUBSET Calls : SumOf(call', S) = SumOf(call, S)
      BY <1>2, <2>1, <2>2, OneCall
    <3>3. QED
      BY <1>1, <3>1, <3>2
  <2>4. /\ mem[p].dailyResetDate = disk.dailyResetDate
        /\ mem[p].dailyUsed = disk.dailyUsed + call[c].amount
        /\ call[c].day <= mem[p].dailyResetDate
    BY <1>2, <1>7 DEF Saves, c
  <2>5. Sending' = Sending
    BY <2>2, <2>3 DEF Sending
  <2>6. Total(Sending)' = Total(Sending)
    BY <2>3, <2>5, TotalIsSum, Zenon
  <2>7. PICK A \in Nat : A = SumOf(call', Loose) /\ A = Total(Loose)
    BY <1>1, <2>3, SumOfFacts, TotalIsSum
  <2>8. call' \in [Calls -> Call] /\ call'[c].amount = call[c].amount
    BY <1>1, <2>1, <2>2
  <2>9. Total(Loose)' = SumOf(call', Loose \ {c})
    BY <2>3, TotalIsSum, Zenon
  <2>10. UsageInv'
    <3>1. CASE c \in Loose
      <4>1. call[c].day = today
        BY <3>1 DEF Loose
      <4>2. UsedToday' = UsedToday + call[c].amount
        BY <1>1, <1>2, <2>4, <4>1 DEF UsedToday
      <4>3. SumOf(call', Loose \ {c}) = A - call[c].amount
        <5>1. SumOf(call', Loose \ {c}) = SumOf(call', Loose) - call'[c].amount
          BY <1>1, <2>8, <3>1, SumOfFacts
        <5>2. QED
          BY <2>7, <2>8, <5>1
      <4>4. QED
        BY <1>1, <1>2, <1>3, <2>2, <2>7, <2>9, <4>2, <4>3 DEF UsageInv
    <3>2. CASE c \notin Loose
      <4>1. Loose \ {c} = Loose
        BY <3>2
      <4>2. SumOf(call', Loose \ {c}) = SumOf(call', Loose)
        BY <4>1, Zenon
      <4>3. UsedToday' >= UsedToday /\ UsedToday' \in Nat
        BY <1>2, <1>3, <2>2, <2>4 DEF UsedToday
      <4>4. QED
        BY <1>1, <1>2, <1>3, <2>7, <2>9, <4>2, <4>3 DEF UsageInv
    <3>3. QED
      BY <3>1, <3>2
  <2>11. SendingInv'
    BY <1>2, <2>6 DEF SendingInv, PerTx, PerDay
  <2>12. QED
    BY <1>6, <1>7, <2>10, <2>11
<1>8. CASE task[p].then = "daily"
  <2>1. PICK r \in Call : /\ call' = [call EXCEPT ![c] = r] /\ r.amount = call[c].amount
                         /\ r.state = Verdict(mem[p], call[c].amount)
    BY <1>5, <1>8
  <2>2. c \in Calls /\ call[c].state = "checking" /\ call[c].amount \in Nat
    BY <1>5, <1>8
  <2>3. c \notin Loose /\ c \notin Sending /\ c \in InFlight
    BY <2>2 DEF Loose, Sending, InFlight
  <2>4. r.state \in {"refused", "sending"}
    BY <2>1 DEF Verdict
  <2>5. /\ Loose' = Loose /\ Sending' = IF r.state = "sending" THEN Sending \cup {c} ELSE Sending
    <3>1. /\ Loose' = Loose \ {c}
          /\ Sending' = IF r.state = "sending" THEN Sending \cup {c} ELSE Sending \ {c}
      BY <1>2, <2>1, <2>2, <2>4, OneCall
    <3>2. QED
      BY <2>3, <3>1
  <2>6. /\ SumOf(call', Loose) = SumOf(call, Loose) /\ SumOf(call', Sending) = SumOf(call, Sending)
    <3>1. \A S \in SUBSET Calls : SumOf(call', S) = SumOf(call, S)
      BY <1>2, <2>1, <2>2, OneCall
    <3>2. QED
      BY <1>1, <3>1
  <2>7. mem[p].dailyUsed = 0 /\ disk.dailyResetDate # today
    BY <1>2, <1>8 DEF Saves
  <2>8. UsageInv'
    <3>1. Total(Loose)' = Total(Loose)
      BY <2>5, <2>6, TotalIsSum, Zenon
    <3>2. UsedToday' = UsedToday
      BY <1>2, <2>7 DEF UsedToday
    <3>3. QED
      BY <1>2, <3>1, <3>2 DEF UsageInv
  <2>9. SendingInv'
    <3>1. CASE r.state # "sending"
      <4>1. Total(Sending)' = Total(Sending)
        BY <2>5, <2>6, <3>1, TotalIsSum
      <4>2. QED
        BY <1>2, <4>1 DEF SendingInv, PerTx, PerDay
    <3>2. CASE r.state = "sending"
      <4>1. Sending' = Sending \cup {c}
        BY <2>5, <3>2
      <4>2. call' \in [Calls -> Call] /\ call'[c].amount = call[c].amount
        BY <1>1, <2>1, <2>2
      <4>3. SumOf(call', Sending \cup {c}) = SumOf(call', Sending) + call'[c].amount
        BY <1>1, <2>2, <2>3, <4>2, SumOfFacts
      <4>4. Total(Sending)' = SumOf(call', Sending \cup {c})
        BY <4>1, TotalIsSum, Zenon
      <4>5. Total(Sending)' = Total(Sending) + call[c].amount
        BY <2>6, <4>2, <4>3, <4>4, TotalIsSum
      <4>6. PerDay > 0 => mem[p].dailyUsed + call[c].amount <= PerDay
        BY <1>1, <1>2, <1>3, <2>1, <2>2, <3>2 DEF Verdict, OverDaily
      <4>7. Cardinality(InFlight \ {c}) <= MaxInFlight - 1
        <5>1. IsFiniteSet(InFlight) /\ Cardinality(InFlight) \in Nat
          BY ProcsAssumption, FS_Subset, FS_CardinalityType DEF InFlight
        <5>2. Cardinality(InFlight \ {c}) = Cardinality(InFlight) - 1
          BY <2>3, <5>1, FS_RemoveElement
        <5>3. QED
          BY <5>1, <5>2, BoundsAssumption DEF FlightInv
      <4>8. UsedToday = 0
        BY <2>7 DEF UsedToday
      <4>9. /\ spent - lost + Total(Sending) + call[c].amount <= PerDay + (MaxInFlight - 1) * PerTx
            /\ Total(Sending) + call[c].amount <= PerDay + (MaxInFlight - 1) * PerTx
        <5>1. 0 + call[c].amount <= PerDay /\ UsedToday <= 0
          BY <2>7, <4>6, <4>8 DEF Limited
        <5>2. QED
          BY <2>2, <2>3, <4>7, <5>1, Room
      <4>10. Total(Sending) \in Nat
        BY <1>1, SumOfFacts, TotalIsSum
      <4>11. PICK room \in Int : room = PerDay + (MaxInFlight - 1) * PerTx
        BY <1>1, BoundsAssumption
      <4>12. QED
        BY <1>1, <1>2, <2>2, <4>5, <4>9, <4>10, <4>11 DEF SendingInv, PerTx, PerDay
    <3>3. QED
      BY <3>1, <3>2
  <2>10. QED
    BY <1>6, <1>8, <2>8, <2>9
<1>9. QED
  <2>1. task[p].then \in {"return", "daily", "usage", "answer"}
    BY <1>2 DEF Saves
  <2>2. QED
    BY <1>4, <1>7, <1>8, <2>1

\* The server dies: what it had not recorded counts as lost.
LEMMA AmountsCrash ==
    ASSUME Alone, Typed, FileInv, AmountInv, NEW p \in Servers, Crash(p)
    PROVE  AmountInv'
<1> USE DEF AmountInv
<1>1. /\ call \in [Calls -> Call] /\ Loose \in SUBSET Calls /\ Sending \in SUBSET Calls
      /\ spent \in Nat /\ lost \in Nat
      /\ UNCHANGED <<today, disk, spent>> /\ \A q \in Servers : q = p
  BY DEF Typed, TypeOK, Loose, Sending, Crash, Alone
<1>2. \A d \in Calls :
         /\ call'[d].amount = call[d].amount
         /\ call'[d].state \notin {"checking", "sending", "confirmed", "recording"}
  BY <1>1 DEF Crash, FileInv, Call, CallStates
<1>3. Loose' = {} /\ Sending' = {} /\ InFlight' = {}
  BY <1>2 DEF Loose, Sending, InFlight, Unrecorded
<1>4. {c \in Loose : call[c].proc = p} = Loose
  BY <1>1 DEF Loose, FileInv
<1>5. lost' = lost + Total(Loose)
  BY <1>4 DEF Crash
<1>6. call' \in [Calls -> Call]
  BY TypedStep DEF Next, ProcNext, Procs, Typed, TypeOK
<1>7. Total(Loose)' = 0 /\ Total(Sending)' = 0
  <2>1. SumOf(call', {}) = 0
    BY <1>6, SumOfFacts
  <2>2. QED
    BY <1>3, <2>1, TotalIsSum
<1>8. Total(Loose) \in Nat /\ Total(Sending) \in Nat /\ UsedToday \in Nat /\ UsedToday' = UsedToday
  BY <1>1, SumOfFacts, TotalIsSum DEF UsedToday, Typed, TypeOK, SafeguardConfig
<1>9. FlightInv'
  <2>1. InFlight' \subseteq InFlight
    BY <1>3
  <2>2. QED
    BY <1>2, <2>1, FlightKeeps
<1>10. UsageInv'
  BY <1>1, <1>5, <1>7, <1>8 DEF UsageInv
<1>11. SendingInv'
  <2>1. PICK room \in Int : room = PerDay + (MaxInFlight - 1) * PerTx
    BY ConfigAssumption, BoundsAssumption DEF PerTx, PerDay, SafeguardConfig
  <2>2. QED
    BY <1>1, <1>5, <1>7, <1>8, <2>1 DEF SendingInv, PerTx, PerDay
<1>12. QED
  BY <1>9, <1>10, <1>11

\* A day begins with nothing spent.
LEMMA AmountsMidnight ==
    ASSUME Typed, LimitsInv, AmountInv, Midnight
    PROVE  AmountInv'
<1> USE DEF AmountInv
<1>1. /\ call \in [Calls -> Call] /\ Sending \in SUBSET Calls /\ today \in Nat
      /\ spent' = 0 /\ lost' = 0 /\ UNCHANGED <<call, disk>> /\ today' = today + 1
  BY DEF Typed, TypeOK, Sending, Midnight
<1>2. Loose' = {} /\ Sending' = Sending /\ InFlight' = InFlight
  BY <1>1 DEF LimitsInv, Typed, TypeOK, Call, Days, Loose, Sending, InFlight, Unrecorded
<1>3. Total(Loose)' = 0 /\ Total(Sending)' = Total(Sending) /\ Total(Sending) \in Nat
  <2>1. SumOf(call, {}) = 0 /\ SumOf(call, Sending) \in Nat
    BY <1>1, SumOfFacts
  <2>2. QED
    BY <1>1, <1>2, <2>1, TotalIsSum
<1>4. UsedToday' \in Nat
  BY <1>1 DEF UsedToday, Typed, TypeOK, SafeguardConfig
<1>5. UsageInv'
  <2>1. PICK used \in Nat : used = UsedToday'
    BY <1>4
  <2>2. spent' - lost' = 0
    BY <1>1
  <2>3. QED
    BY <1>3, <2>1, <2>2 DEF UsageInv
<1>6. SendingInv'
  <2>1. PICK room \in Int : room = PerDay + (MaxInFlight - 1) * PerTx
    BY ConfigAssumption, BoundsAssumption DEF PerTx, PerDay, SafeguardConfig
  <2>2. QED
    BY <1>1, <1>3, <2>1 DEF SendingInv, PerTx, PerDay
<1>7. FlightInv'
  BY <1>1, <1>2 DEF FlightInv, PerTx
<1>8. QED
  BY <1>5, <1>6, <1>7

SteadyInv == AloneInv /\ SavingInv /\ LimitsInv

\* No step lets more out than the file accounts for.
LEMMA AmountStep ==
    ASSUME Steady, Limited, SteadyInv, AmountInv, [Next]_vars
    PROVE  AmountInv'
<1> USE DEF SteadyInv, AloneInv
<1>1. /\ Cli \notin Servers /\ Cli \in Procs /\ \A p \in Servers : p \in Procs /\ p # Cli
      /\ \A name : ~Allowed(Cli, name)
      /\ task[Cli].step = "down" /\ Alone /\ disk \in SafeguardConfig
      /\ disk.maxPerTx = PerTx /\ disk.maxDailySend = PerDay /\ PerTx > 0 /\ PerDay > 0
      /\ PerTx \in Nat /\ PerDay \in Nat /\ today \in Days /\ 0 \in Days
  BY ProcsAssumption, ConfigAssumption, BoundsAssumption
     DEF Steady, Alone, Procs, FileInv, Down, Allowed, Limited, LimitsInv, Typed, TypeOK, Days,
         PerTx, PerDay, SafeguardConfig
<1>2. ASSUME NEW c \in Calls, NEW p \in Servers, NEW op \in Operations, NEW amount \in Amounts,
             \/ CallRejected(p, c, op, amount) \/ CallUnlimited(p, c, op)
             \/ CallJudged(p, c, op, amount) \/ CallOnNewDay(p, c, op, amount)
      PROVE  AmountInv'
  <2>1. /\ call[c].state = "new" /\ Cardinality(InFlight) < MaxInFlight /\ OnDisk = disk
        /\ UNCHANGED <<today, disk, spent, lost>>
    BY <1>2, IdleReads
       DEF CallRejected, CallUnlimited, CallJudged, CallOnNewDay, StartedAs, CanCall
  <2>2. amount \in Nat /\ p \in Procs
    BY <1>1, AmountsAssumption
  <2>3. \A s \in CallStates, n \in Nat :
           [state |-> s, op |-> op, amount |-> n, proc |-> p, day |-> 0] \in Call
    BY <1>1, <2>2 DEF Call
  <2>4. PICK r \in Call :
           /\ call' = [call EXCEPT ![c] = r] /\ r.day = 0
           /\ \/ r.state = "refused"
              \/ r.state = "checking" /\ r.amount <= PerTx
              \/ r.state = "sending" /\ r.amount = 0
              \/ /\ r.state = "sending" /\ r.amount <= PerTx
                 /\ disk.dailyUsed + r.amount <= PerDay
    <3>1. CASE CallRejected(p, c, op, amount)
      BY <2>2, <2>3, <3>1 DEF CallRejected, StartedAs, CallStates
    <3>2. CASE CallUnlimited(p, c, op)
      <4>1. call' = [call EXCEPT ![c] = [state |-> "sending", op |-> op, amount |-> 0,
                                         proc |-> p, day |-> 0]]
        BY <3>2 DEF CallUnlimited, StartedAs
      <4>2. [state |-> "sending", op |-> op, amount |-> 0, proc |-> p, day |-> 0] \in Call
        BY <2>3 DEF CallStates
      <4>3. QED
        BY <4>1, <4>2
    <3>3. op \in OUTBOUND_OPS /\ ~Rejected(disk, op, amount) => amount <= PerTx
      BY <1>1, <2>2 DEF Rejected
    <3>4. CASE CallJudged(p, c, op, amount)
      <4>1. /\ amount <= PerTx
            /\ call' = [call EXCEPT ![c] = [state |-> Verdict(disk, amount), op |-> op,
                                            amount |-> amount, proc |-> p, day |-> 0]]
        BY <2>1, <3>3, <3>4 DEF CallJudged, StartedAs
      <4>2. \/ Verdict(disk, amount) = "refused"
            \/ Verdict(disk, amount) = "sending" /\ disk.dailyUsed + amount <= PerDay
        BY <1>1, <2>2 DEF Verdict, OverDaily, SafeguardConfig
      <4>3. QED
        BY <2>2, <2>3, <4>1, <4>2 DEF CallStates
    <3>5. CASE CallOnNewDay(p, c, op, amount)
      BY <2>1, <2>2, <2>3, <3>3, <3>5 DEF CallOnNewDay, CallStates
    <3>6. QED
      BY <1>2, <3>1, <3>2, <3>4, <3>5
  <2>5. QED
    BY <2>1, <2>4, AmountsCall
<1>3. ASSUME NEW c \in Calls,
             \/ Confirm(c) \/ Throw(c) \/ SettleLate(c) \/ \E p \in Servers : RecordUsage(p, c)
      PROVE  AmountInv'
  BY <1>3, AmountsMove
<1>4. ASSUME UNCHANGED <<call, today, spent, lost, disk>> PROVE AmountInv'
  <2>1. UsedToday' = UsedToday
    BY <1>4 DEF UsedToday
  <2>2. QED
    BY <1>4, <2>1, AmountsStay
<1>5. CASE CallNext
  <2>1. \A c \in Calls, n \in Amounts : ~CliSend(c, n)
    BY <1>1 DEF CliSend
  <2>2. QED
    BY <1>2, <1>3, <1>5, <2>1 DEF CallNext
<1>6. CASE ProcNext
  <2>1. \A p \in Procs : ~SaveFails(p)
    BY <1>1 DEF Alone, SaveFails
  <2>2. \A p \in Procs : Write(p) \/ Crash(p) => p \in Servers
    BY <1>1 DEF Write, Crash, Procs
  <2>3. ASSUME NEW p \in Procs, Write(p) PROVE AmountInv'
    BY <2>2, <2>3, AmountsWrite
  <2>4. ASSUME NEW p \in Procs, Crash(p) PROVE AmountInv'
    BY <1>1, <2>2, <2>4, AmountsCrash
  <2>5. ASSUME NEW p \in Procs,
               \/ Truncate(p) \/ StartServer(p) \/ Lock(p) \/ SetLimit(p) \/ ShowConfig(p)
        PROVE  AmountInv'
    BY <1>4, <2>5 DEF Truncate, StartServer, Lock, SetLimit, ShowConfig, SaveAs
  <2>6. QED
    BY <1>6, <2>1, <2>3, <2>4, <2>5 DEF ProcNext
<1>7. CASE Midnight
  BY <1>7, AmountsMidnight
<1>8. QED
  BY <1>1, <1>4, <1>5, <1>6, <1>7 DEF Next, StartCli, Unlock, SaveAs, vars, Alone

LEMMA SteadyInit ==
    ASSUME Init
    PROVE  SavingInv /\ LimitsInv /\ AmountInv
<1>1. /\ InitialConfig \in SafeguardConfig /\ disk = InitialConfig /\ today = 1
      /\ spent = 0 /\ lost = 0 /\ \A c \in Calls : call[c].state = "new" /\ call[c].day = 0
      /\ InitialConfig.dailyResetDate <= 1
  BY ConfigAssumption DEF Init
<1>2. SavingInv
  BY DEF Init, SavingInv, Saves, Procs, Down
<1>3. LimitsInv
  BY <1>1 DEF LimitsInv, PerTx, PerDay
<1>4. Loose = {} /\ Sending = {} /\ InFlight = {}
  BY <1>1 DEF Loose, Sending, InFlight, Unrecorded
<1>5. Total(Loose) = 0 /\ Total(Sending) = 0
  BY <1>4, SumEmpty DEF Total
<1>6. Cardinality(InFlight) = 0
  BY <1>4, FS_EmptySet
<1>7. PerTx \in Nat /\ PerDay \in Nat /\ UsedToday \in Nat
  BY <1>1 DEF PerTx, PerDay, UsedToday, SafeguardConfig
<1>8. (MaxInFlight - 1) * PerTx \in Nat
  BY <1>7, BoundsAssumption
<1>9. AmountInv
  BY <1>1, <1>4, <1>5, <1>6, <1>7, <1>8, BoundsAssumption
     DEF AmountInv, FlightInv, UsageInv, SendingInv
<1>10. QED
  BY <1>2, <1>3, <1>9

\* One server that nobody sets other limits for: what goes out in a day, past
\* what is lost to crashes and failed calls, is at most the daily limit and one
\* transaction for each other call that was in flight with the last. One call
\* at a time keeps the limit exactly.
THEOREM OvershootIsBounded ==
    ASSUME Steady
    PROVE  Spec => []OvershootBounded
<1>1. Init => SteadyInv /\ (Limited => AmountInv)
  BY TypedInit, FileInit, SteadyInit DEF SteadyInv, AloneInv
<1>2. SteadyInv /\ (Limited => AmountInv) /\ [Next]_vars =>
         (SteadyInv /\ (Limited => AmountInv))'
  <2>1. SUFFICES ASSUME SteadyInv, Limited => AmountInv, [Next]_vars
                 PROVE  SteadyInv' /\ (Limited => AmountInv)'
    OBVIOUS
  <2>2. SteadyInv'
    BY <2>1, FileStep, DatedStep DEF SteadyInv, Steady
  <2>3. Limited' = Limited
    BY DEF Limited, PerTx, PerDay
  <2>4. ASSUME Limited PROVE AmountInv'
    BY <2>1, <2>4, AmountStep
  <2>5. QED
    BY <2>2, <2>3, <2>4
<1>3. SteadyInv /\ (Limited => AmountInv) => OvershootBounded
  <2>1. SUFFICES ASSUME SteadyInv, Limited => AmountInv, NEW p \in Servers,
                        task[p].step # "down", mem[p].maxDailySend > 0, mem[p].maxPerTx > 0
                 PROVE  spent - lost <= mem[p].maxDailySend + (MaxInFlight - 1) * mem[p].maxPerTx
    BY DEF OvershootBounded
  <2>2. mem[p].maxPerTx = PerTx /\ mem[p].maxDailySend = PerDay
    <3>1. p \in Procs /\ task[p] \in Task
      BY <2>1 DEF SteadyInv, AloneInv, Typed, TypeOK, Procs
    <3>2. CASE task[p].step = "idle"
      BY <2>1, <3>2 DEF SteadyInv, AloneInv, FileInv, LimitsInv
    <3>3. CASE task[p].step \in {"save", "opened"}
      BY <2>1, <3>3 DEF SteadyInv, AloneInv, FileInv, LimitsInv, SavingInv, Saves
    <3>4. QED
      BY <2>1, <3>1, <3>2, <3>3 DEF Task
  <2>3. AmountInv
    BY <2>1, <2>2 DEF Limited
  <2>4. PICK A \in Nat : A = Total(Sending)
    BY <2>1, TotalNat DEF SteadyInv, AloneInv, Typed, Sending
  <2>5. spent \in Nat /\ lost \in Nat /\ PerTx \in Nat /\ PerDay \in Nat
    BY <2>1, ConfigAssumption DEF SteadyInv, AloneInv, Typed, TypeOK, PerTx, PerDay, SafeguardConfig
  <2>6. PICK room \in Int : room = PerDay + (MaxInFlight - 1) * PerTx
    BY <2>5, BoundsAssumption
  <2>7. QED
    BY <2>2, <2>3, <2>4, <2>5, <2>6 DEF AmountInv, SendingInv
<1>4. QED
  BY <1>1, <1>2, <1>3, PTL DEF Spec

-----------------------------------------------------------------------------
(* Usage, whoever writes the file                                          *)

\* The payments whose amount a server has added to its copy. A call that is
\* being recorded is one of them once its reset, if any, has been saved.
Added == {c \in Paid : \/ call[c].state = "done"
                       \/ call[c].state = "recording" /\ task[call[c].proc].then = "answer"}

Copies == {disk} \cup {mem[p] : p \in Procs}

\* What a server records was confirmed to it, and no copy counts more than the
\* payments added (inductive with the types).
PaidInv ==
    \A c \in Calls : call[c].state \in {"confirmed", "recording"} =>
                        call[c].day # 0 /\ call[c].proc \in Servers

CountInv ==
    \A cfg \in Copies : cfg.dailyUsed <= InitialConfig.dailyUsed + Total(Added)

AddedInv == Typed /\ PaidInv /\ CountInv

\* What one step makes of a copy's usage: it is nothing, or that of a copy
\* there was, or the step adds a payment to one that was in none.
FromCopies(cfg) ==
    \/ cfg.dailyUsed = 0
    \/ \E old \in Copies : cfg.dailyUsed = old.dailyUsed
    \/ \E old \in Copies, c \in Calls \ Added :
          /\ cfg.dailyUsed = old.dailyUsed + call[c].amount
          /\ c \in Added' /\ call'[c].amount = call[c].amount

UsageStep ==
    /\ PaidInv'
    /\ \A c \in Added : c \in Added' /\ call'[c].amount = call[c].amount
    /\ \A cfg \in Copies' : FromCopies(cfg)

\* A copy loaded, reset or edited is as good as one there was.
LEMMA CopiesRead ==
    ASSUME Typed
    PROVE  /\ \A cfg \in Copies : FromCopies(cfg)
           /\ FromCopies(OnDisk)
           /\ \A cfg \in SafeguardConfig : FromCopies(ResetDaily(cfg))
           /\ \A cfg \in Copies :
                 /\ \A b \in BOOLEAN : FromCopies([cfg EXCEPT !.locked = b])
                 /\ \A n \in Nat : /\ FromCopies([cfg EXCEPT !.maxPerTx = n])
                                   /\ FromCopies([cfg EXCEPT !.maxDailySend = n])
<1>1. Copies \subseteq SafeguardConfig
  BY DEF Typed, TypeOK, Copies
<1>2. \A cfg \in Copies :
         /\ \A b \in BOOLEAN : [cfg EXCEPT !.locked = b].dailyUsed = cfg.dailyUsed
         /\ \A n \in Nat : /\ [cfg EXCEPT !.maxPerTx = n].dailyUsed = cfg.dailyUsed
                           /\ [cfg EXCEPT !.maxDailySend = n].dailyUsed = cfg.dailyUsed
  BY <1>1 DEF SafeguardConfig
<1>3. \A cfg \in SafeguardConfig : ResetDaily(cfg).dailyUsed = 0
  BY DEF ResetDaily, SafeguardConfig
<1>4. disk \in Copies /\ DEFAULT_SAFEGUARD_CONFIG.dailyUsed = 0
  BY DEF Copies, DEFAULT_SAFEGUARD_CONFIG
<1>5. QED
  BY <1>2, <1>3, <1>4 DEF FromCopies, OnDisk

\* A step of p that leaves the payments added as they are or done.
LEMMA UsageMove ==
    ASSUME Typed, Typed', PaidInv', NEW p \in Procs,
           FromCopies(mem'[p]), \A q \in Procs : q # p => mem'[q] = mem[q],
           disk' \in Copies, \A q \in Procs : q # p => task'[q] = task[q],
           \A c \in Added :
              \/ call'[c] = [call[c] EXCEPT !.state = "done"]
              \/ /\ call'[c] = call[c]
                 /\ call[c].state = "recording" /\ call[c].proc = p => task'[p].then = "answer"
    PROVE  UsageStep
<1>1. \A cfg \in Copies' : FromCopies(cfg)
  BY CopiesRead DEF Copies
<1>2. ASSUME NEW c \in Added
      PROVE  c \in Added' /\ call'[c].amount = call[c].amount
  <2>1. c \in Calls /\ call[c] \in Call /\ call[c].proc \in Procs
    BY DEF Added, Paid, Typed, TypeOK, Procs
  <2>2. CASE call'[c] = [call[c] EXCEPT !.state = "done"]
    BY <2>1, <2>2 DEF Added, Paid, Call
  <2>3. CASE /\ call'[c] = call[c]
             /\ call[c].state = "recording" /\ call[c].proc = p => task'[p].then = "answer"
    BY <2>1, <2>3 DEF Added, Paid
  <2>4. QED
    BY <2>2, <2>3
<1>3. QED
  BY <1>1, <1>2 DEF UsageStep

\* The steps of a process that has no call at hand.
LEMMA UsageFree ==
    ASSUME Typed, Typed', PaidInv', NEW p \in Procs, task[p].step \in {"down", "idle"},
           FromCopies(mem'[p]), \A q \in Procs : q # p => mem'[q] = mem[q],
           disk' = disk, \A q \in Procs : q # p => task'[q] = task[q],
           \A c \in Added : call'[c] = call[c]
    PROVE  UsageStep
<1>1. \A c \in Added : ~(call[c].state = "recording" /\ call[c].proc = p)
  BY ProcsAssumption DEF Typed, TypeOK, TaskInv, Down, Idle, Added, Paid
<1>2. disk' \in Copies
  BY DEF Copies
<1>3. QED
  BY <1>1, <1>2, UsageMove

\* What follows a save, whether the save succeeded or not.
LEMMA UsageAfterSave ==
    ASSUME Typed, Typed', PaidInv, NEW p \in Procs, task[p].step \in {"save", "opened"},
           AfterSave(p), disk' \in Copies
    PROVE  UsageStep
<1> DEFINE c == task[p].call
<1>1. mem[p] \in Copies /\ FromCopies(mem[p]) /\ mem \in [Procs -> SafeguardConfig]
  BY CopiesRead DEF Copies, Typed, TypeOK
<1>2. /\ call \in [Calls -> Call] /\ task \in [Procs -> Task]
      /\ \A d \in Added : d \in Calls /\ (call[d].state = "recording" \/ call[d].state = "done")
  BY DEF Typed, TypeOK, Added, Paid
<1>3. \A d \in Added : call[d].state = "recording" /\ call[d].proc = p =>
         d = c /\ task[p].then = "answer"
  BY <1>2, TaskOfCall DEF Added, Paid
<1>4. CASE /\ task[p].then \in {"return", "set", "unlock"}
           /\ task' = [task EXCEPT ![p] = Returned(p)] /\ UNCHANGED <<mem, call>>
  <2>1. PaidInv'
    BY <1>4 DEF PaidInv
  <2>2. QED
    BY <1>1, <1>2, <1>3, <1>4, <2>1, UsageMove
<1>5. CASE /\ task[p].then = "answer" /\ call' = [call EXCEPT ![c].state = "done"]
           /\ task' = [task EXCEPT ![p] = Idle] /\ UNCHANGED mem
  <2>1. c \in Calls
    BY <1>5 DEF Typed, TaskInv
  <2>2. PaidInv' /\ \A d \in Added : call'[d] = call[d] \/ d = c
    BY <1>2, <1>5, <2>1 DEF PaidInv
  <2>3. call'[c] = [call[c] EXCEPT !.state = "done"]
    BY <1>2, <1>5, <2>1
  <2>4. \A d \in Added :
           \/ call'[d] = [call[d] EXCEPT !.state = "done"]
           \/ /\ call'[d] = call[d]
              /\ call[d].state = "recording" /\ call[d].proc = p => task'[p].then = "answer"
    BY <1>3, <2>2, <2>3
  <2>5. /\ FromCopies(mem'[p])
        /\ \A q \in Procs : q # p => mem'[q] = mem[q] /\ task'[q] = task[q]
    BY <1>1, <1>2, <1>5
  <2>6. QED
    BY <2>2, <2>4, <2>5, UsageMove
<1>6. CASE /\ task[p].then = "daily"
           /\ call' = [call EXCEPT ![c].state = Verdict(mem[p], call[c].amount)]
           /\ task' = [task EXCEPT ![p] = Idle] /\ UNCHANGED mem
  <2>1. c \in Calls /\ call[c].state = "checking"
    BY <1>6 DEF Typed, TaskInv
  <2>2. PaidInv' /\ \A d \in Added : call'[d] = call[d]
    BY <1>2, <1>6, <2>1 DEF PaidInv, Verdict
  <2>3. QED
    BY <1>1, <1>2, <1>3, <1>6, <2>2, UsageMove
<1>7. CASE /\ task[p].then = "usage"
           /\ mem' = [mem EXCEPT ![p] = AddUsage(@, call[c].amount)]
           /\ task' = [task EXCEPT ![p] = Saving("answer", c)] /\ UNCHANGED call
  <2>1. c \in Calls /\ call[c].state = "recording" /\ call[c].proc = p /\ p \in Servers
    BY <1>7 DEF Typed, TaskInv
  <2>2. PaidInv'
    BY <1>7 DEF PaidInv
  <2>3. c \notin Added
    BY <1>7, <2>1 DEF Added
  <2>4. task'[p].then = "answer"
    BY <1>2, <1>7 DEF Saving
  <2>5. c \in Added'
    BY <1>7, <2>1, <2>4, PaidInv DEF Added, Paid, PaidInv
  <2>6. mem'[p].dailyUsed = mem[p].dailyUsed + call[c].amount
    BY <1>1, <1>7 DEF AddUsage, SafeguardConfig
  <2>7. FromCopies(mem'[p])
    BY <1>1, <1>7, <2>1, <2>3, <2>5, <2>6 DEF FromCopies
  <2>8. QED
    BY <1>1, <1>2, <1>3, <1>7, <2>2, <2>4, <2>7, UsageMove
<1>8. QED
  BY <1>4, <1>5, <1>6, <1>7 DEF AfterSave

\* A payment is added once it was confirmed, and once.
LEMMA UsageRecorded ==
    ASSUME Typed, Typed', PaidInv, NEW p \in Servers, NEW c \in Calls, RecordUsage(p, c)
    PROVE  UsageStep
<1>1. /\ call \in [Calls -> Call] /\ task \in [Procs -> Task] /\ p \in Procs
      /\ mem \in [Procs -> SafeguardConfig] /\ mem[p] \in Copies
      /\ call[c].state = "confirmed" /\ call[c].proc = p /\ task[p].step = "idle"
      /\ call' = [call EXCEPT ![c].state = "recording"] /\ disk' = disk
  BY DEF Typed, TypeOK, Procs, RecordUsage, RecordOnNewDay, Resumes, Copies
<1>2. PaidInv'
  BY <1>1 DEF PaidInv
<1>3. c \notin Added /\ \A d \in Added : call'[d] = call[d]
  BY <1>1 DEF Added, Paid
<1>4. (\A q \in Procs : q # p => mem'[q] = mem[q] /\ task'[q] = task[q])
  BY <1>1 DEF RecordUsage, RecordOnNewDay
<1>5. CASE NewDay(mem[p])
  <2>1. mem'[p] = ResetDaily(mem[p]) /\ mem[p] \in SafeguardConfig
    BY <1>1, <1>5 DEF RecordUsage, RecordOnNewDay
  <2>2. FromCopies(mem'[p])
    BY <2>1, CopiesRead
  <2>3. QED
    BY <1>1, <1>2, <1>3, <1>4, <2>2, UsageFree
<1>6. CASE ~NewDay(mem[p])
  <2>1. mem'[p] = AddUsage(mem[p], call[c].amount) /\ task'[p].then = "answer"
    BY <1>1, <1>6 DEF RecordUsage, RecordOnNewDay, Saving
  <2>2. mem'[p].dailyUsed = mem[p].dailyUsed + call[c].amount
    BY <1>1, <2>1 DEF AddUsage, SafeguardConfig
  <2>3. call'[c] = [call[c] EXCEPT !.state = "recording"] /\ call[c] \in Call
    BY <1>1
  <2>4. c \in Added' /\ call'[c].amount = call[c].amount
    BY <1>1, <2>1, <2>3 DEF Added, Paid, PaidInv, Call
  <2>5. FromCopies(mem'[p])
    BY <1>1, <1>3, <2>2, <2>4 DEF FromCopies
  <2>6. QED
    BY <1>1, <1>2, <1>3, <1>4, <2>5, UsageFree
<1>7. QED
  BY <1>5, <1>6

LEMMA UsageCrash ==
    ASSUME Typed, Typed', PaidInv, NEW p \in Procs, Crash(p)
    PROVE  UsageStep
<1>1. /\ call \in [Calls -> Call] /\ task \in [Procs -> Task] /\ mem[p] \in Copies
      /\ disk' \in Copies /\ mem' = mem
      /\ \A q \in Procs : q # p => task'[q] = task[q]
  BY DEF Typed, TypeOK, Copies, Crash
<1>2. \A c \in Calls : IF call[c].proc = p /\ call[c].state \in {"checking", "confirmed", "recording"}
                        THEN call'[c] = [call[c] EXCEPT !.state = "done"]
                        ELSE \/ call'[c] = call[c]
                             \/ call[c].state = "sending" /\ call'[c] = [call[c] EXCEPT !.state = "threw"]
  BY DEF Crash
<1>3. PaidInv'
  <2>1. ASSUME NEW c \in Calls, call'[c].state \in {"confirmed", "recording"}
        PROVE  call'[c] = call[c]
    <3>1. call[c] \in Call
      BY <1>1
    <3>2. call'[c] # [call[c] EXCEPT !.state = "done"] /\ call'[c] # [call[c] EXCEPT !.state = "threw"]
      BY <2>1, <3>1 DEF Call
    <3>3. QED
      BY <1>2, <3>2
  <2>2. QED
    BY <2>1 DEF PaidInv
<1>4. \A c \in Added : c \in Calls /\ (call[c].state = "recording" \/ call[c].state = "done")
  BY DEF Added, Paid
<1>5. \A c \in Added : \/ call'[c] = [call[c] EXCEPT !.state = "done"]
                       \/ call'[c] = call[c] /\ ~(call[c].state = "recording" /\ call[c].proc = p)
  BY <1>2, <1>4
<1>6. FromCopies(mem'[p])
  BY <1>1, CopiesRead
<1>7. QED
  BY <1>1, <1>3, <1>5, <1>6, UsageMove

LEMMA UsageCall ==
    ASSUME Typed, Typed', PaidInv, CallNext
    PROVE  UsageStep
<1>1. /\ call \in [Calls -> Call] /\ task \in [Procs -> Task]
      /\ \A p \in Procs : mem[p] \in Copies /\ FromCopies(mem[p])
      /\ FromCopies(OnDisk) /\ FromCopies(ResetDaily(OnDisk)) /\ disk \in Copies
      /\ Servers \subseteq Procs /\ Cli \in Procs /\ mem \in [Procs -> SafeguardConfig]
      /\ today \in Days /\ today # 0
  BY CopiesRead, ConfigTypes DEF Typed, TypeOK, Copies, Procs, Days
<1>2. \A c \in Calls : c \in Added => call[c].state \in {"done", "recording"}
  BY DEF Added, Paid
<1>3. PICK c \in Calls :
         \/ \E p \in Servers, op \in Operations, amount \in Amounts :
               \/ CallRejected(p, c, op, amount) \/ CallUnlimited(p, c, op)
               \/ CallJudged(p, c, op, amount) \/ CallOnNewDay(p, c, op, amount)
         \/ Confirm(c) \/ Throw(c) \/ SettleLate(c)
         \/ \E p \in Servers : RecordUsage(p, c)
         \/ \E amount \in Amounts : CliSend(c, amount)
  BY DEF CallNext
<1>4. ASSUME NEW p \in Servers, NEW op \in Operations, NEW amount \in Amounts,
             \/ CallRejected(p, c, op, amount) \/ CallUnlimited(p, c, op)
             \/ CallJudged(p, c, op, amount) \/ CallOnNewDay(p, c, op, amount)
      PROVE  UsageStep
  <2>1. PICK r : call' = [call EXCEPT ![c] = r] /\ r.state \in {"refused", "sending", "checking"}
    <3>1. ASSUME NEW a, NEW state \in {"refused", "sending"}, StartedAs(p, c, op, a, state)
          PROVE  \E r : call' = [call EXCEPT ![c] = r] /\ r.state = state
      <4> DEFINE r == [state |-> state, op |-> op, amount |-> a, proc |-> p, day |-> 0]
      <4>1. call' = [call EXCEPT ![c] = r] /\ r.state = state
        BY <3>1 DEF StartedAs
      <4>2. QED
        BY <4>1
    <3>2. Verdict(OnDisk, amount) \in {"refused", "sending"}
      BY DEF Verdict
    <3>3. ASSUME CallOnNewDay(p, c, op, amount)
          PROVE  \E r : call' = [call EXCEPT ![c] = r] /\ r.state = "checking"
      <4> DEFINE r == [state |-> "checking", op |-> op, amount |-> amount, proc |-> p, day |-> 0]
      <4>1. call' = [call EXCEPT ![c] = r] /\ r.state = "checking"
        BY <3>3 DEF CallOnNewDay
      <4>2. QED
        BY <4>1
    <3>4. QED
      BY <1>4, <3>1, <3>2, <3>3 DEF CallRejected, CallUnlimited, CallJudged
  <2>2. c \notin Added /\ PaidInv' /\ task[p].step = "idle" /\ disk' = disk
    BY <1>1, <1>2, <1>4, <2>1 DEF PaidInv, CallRejected, CallUnlimited, CallJudged, CallOnNewDay,
                                  CanCall, StartedAs
  <2>3. \A d \in Added : call'[d] = call[d]
    BY <1>1, <2>1, <2>2 DEF Added, Paid
  <2>4. /\ mem'[p] \in {OnDisk, ResetDaily(OnDisk)}
        /\ \A q \in Procs : q # p => mem'[q] = mem[q] /\ task'[q] = task[q]
    BY <1>1, <1>4 DEF CallRejected, CallUnlimited, CallJudged, CallOnNewDay, StartedAs
  <2>5. QED
    BY <1>1, <2>2, <2>3, <2>4, UsageFree
<1>5. ASSUME Confirm(c) \/ Throw(c) \/ SettleLate(c) \/ \E amount \in Amounts : CliSend(c, amount)
      PROVE  UsageStep
  <2>1. c \notin Added /\ disk' = disk /\ mem' = mem
    BY <1>2, <1>5 DEF Confirm, Throw, SettleLate, CliSend
  <2>2. \A d \in Calls : d # c => call'[d] = call[d]
    BY <1>1, <1>5 DEF Confirm, Throw, SettleLate, CliSend
  <2>3. call'[c].state \in {"confirmed", "recording"} => call'[c].day # 0 /\ call'[c].proc \in Servers
    <3>1. CASE Confirm(c)
      BY <1>1, <3>1 DEF Confirm, Call, Procs
    <3>2. CASE Throw(c) \/ SettleLate(c) \/ \E amount \in Amounts : CliSend(c, amount)
      <4>1. call'[c].state \in {"threw", "done", "sending"}
        <5>1. call[c] \in Call
          BY <1>1
        <5>2. CASE Throw(c) \/ SettleLate(c)
          BY <1>1, <5>1, <5>2 DEF Throw, SettleLate, Call
        <5>3. CASE \E amount \in Amounts : CliSend(c, amount)
          BY <1>1, <5>3 DEF CliSend
        <5>4. QED
          BY <3>2, <5>2, <5>3
      <4>2. QED
        BY <4>1
    <3>3. QED
      BY <1>5, <3>1, <3>2
  <2>4. PaidInv'
    BY <2>2, <2>3 DEF PaidInv
  <2>5. \A d \in Added : call'[d] = call[d]
    BY <2>1, <2>2 DEF Added, Paid
  <2>6. \/ task[Cli].step = "idle" /\ \A q \in Procs : q # Cli => task'[q] = task[q]
        \/ task' = task
    BY <1>1, <1>5 DEF Confirm, Throw, SettleLate, CliSend
  <2>7. CASE task' = task
    <3>1. \A d \in Added : call[d].state = "recording" => task'[call[d].proc].then = "answer"
      BY <2>7 DEF Added, Paid
    <3>2. QED
      BY <1>1, <2>1, <2>4, <2>5, <2>7, <3>1, UsageMove
  <2>8. QED
    BY <1>1, <2>1, <2>4, <2>5, <2>6, <2>7, UsageFree
<1>6. QED
  BY <1>3, <1>4, <1>5, UsageRecorded

LEMMA UsageProc ==
    ASSUME Typed, Typed', PaidInv, NEW p \in Procs,
           \/ StartServer(p) \/ Lock(p) \/ SetLimit(p) \/ ShowConfig(p)
           \/ p = Cli /\ (StartCli \/ Unlock)
    PROVE  UsageStep
<1>1. /\ mem[p] \in Copies /\ OnDisk \in SafeguardConfig /\ LimitValues \subseteq Nat
      /\ mem \in [Procs -> SafeguardConfig] /\ task \in [Procs -> Task]
  BY ConfigTypes, AmountsAssumption DEF Copies, Typed, TypeOK
<1>2. FromCopies(mem'[p])
  <2>1. CASE SetLimit(p)
    <3>1. PICK value \in LimitValues :
             mem'[p] \in {[mem[p] EXCEPT !.maxPerTx = value], [mem[p] EXCEPT !.maxDailySend = value]}
      BY <1>1, <2>1 DEF SetLimit, SaveAs
    <3>2. QED
      BY <1>1, <3>1, CopiesRead
  <2>2. CASE StartServer(p) \/ ShowConfig(p) \/ (p = Cli /\ StartCli)
    <3>1. mem'[p] \in {OnDisk, ResetDaily(OnDisk)}
      BY <1>1, <2>2 DEF StartServer, ShowConfig, SaveAs, StartCli
    <3>2. QED
      BY <1>1, <3>1, CopiesRead
  <2>3. CASE Lock(p) \/ (p = Cli /\ Unlock)
    <3>1. PICK b \in BOOLEAN : mem'[p] = [mem[p] EXCEPT !.locked = b]
      BY <1>1, <2>3 DEF Lock, Unlock, SaveAs
    <3>2. QED
      BY <1>1, <3>1, CopiesRead
  <2>4. QED
    BY <2>1, <2>2, <2>3
<1>3. /\ task[p].step \in {"down", "idle"} /\ disk' = disk /\ call' = call
      /\ \A q \in Procs : q # p => mem'[q] = mem[q] /\ task'[q] = task[q]
  BY <1>1 DEF StartServer, Lock, SetLimit, ShowConfig, StartCli, Unlock, SaveAs
<1>4. PaidInv'
  BY <1>3 DEF PaidInv
<1>5. QED
  BY <1>2, <1>3, <1>4, UsageFree

\* What the added payments come to grows with them.
LEMMA AddedGrows ==
    ASSUME Typed, Typed', UsageStep
    PROVE  /\ Total(Added) \in Nat /\ Total(Added)' \in Nat /\ Total(Added) <= Total(Added)'
           /\ \A c \in Calls \ Added : c \in Added' /\ call'[c].amount = call[c].amount =>
                 Total(Added) + call[c].amount <= Total(Added)'
<1> DEFINE B == Added'
           f == [c \in Calls |-> call'[c].amount]
<1>1. /\ call \in [Calls -> Call] /\ call' \in [Calls -> Call]
      /\ Added \in SUBSET Calls /\ B \in SUBSET Calls /\ Added \subseteq B
  BY DEF Typed, TypeOK, Added, Paid, UsageStep
<1>2. Total(Added) = SumOf(call, Added) /\ Total(Added)' = SumOf(call', B)
  BY DEF Total, SumOf
<1> HIDE DEF B
<1>3. SumOf(call, Added) = SumOf(call', Added)
  <2>1. \A c \in Added : call[c].amount = call'[c].amount
    BY DEF UsageStep
  <2>2. QED
    BY <1>1, <2>1, SumOfAgrees
<1>4. ASSUME NEW S \in SUBSET B
      PROVE  SumOf(call', S) <= SumOf(call', B)
  <2>1. IsFiniteSet(B) /\ \A c \in B : f[c] \in Nat
    BY <1>1, ProcsAssumption, FS_Subset DEF Call
  <2> HIDE DEF f
  <2>2. SumFunctionOnSet(f, S) <= SumFunctionOnSet(f, B)
    BY <2>1, SumGrows
  <2>3. QED
    BY <2>2 DEF SumOf, f
<1>5. SumOf(call, Added) \in Nat /\ SumOf(call', B) \in Nat
  BY <1>1, SumOfFacts
<1>6. ASSUME NEW c \in Calls \ Added, c \in B, call'[c].amount = call[c].amount
      PROVE  SumOf(call', Added) + call[c].amount <= SumOf(call', B)
  <2>1. SumOf(call', Added \cup {c}) = SumOf(call', Added) + call'[c].amount
    BY <1>1, <1>6, SumOfFacts
  <2>2. Added \cup {c} \in SUBSET B
    BY <1>1, <1>6
  <2>3. QED
    BY <1>4, <1>6, <2>1, <2>2
<1>7. SumOf(call', Added) <= SumOf(call', B)
  BY <1>1, <1>4
<1>8. QED
  BY <1>2, <1>3, <1>5, <1>6, <1>7 DEF B

LEMMA UsageSteps ==
    ASSUME AddedInv, Typed', [Next]_vars
    PROVE  UsageStep
<1>1. ASSUME UNCHANGED <<disk, mem, task, call>> PROVE UsageStep
  <2>1. PaidInv' /\ Copies' = Copies /\ \A c \in Added : c \in Added' /\ call'[c].amount = call[c].amount
    BY <1>1 DEF AddedInv, PaidInv, Copies, Added, Paid
  <2>2. QED
    BY <2>1, CopiesRead DEF AddedInv, UsageStep
<1>2. ASSUME NEW p \in Procs, Truncate(p) PROVE UsageStep
  <2>1. PaidInv' /\ Copies' = Copies
    BY <1>2 DEF AddedInv, PaidInv, Copies, Truncate
  <2>2. \A c \in Added : c \in Added' /\ call'[c].amount = call[c].amount
    BY <1>2 DEF AddedInv, Typed, TypeOK, Procs, Task, Added, Paid, Truncate
  <2>3. QED
    BY <2>1, <2>2, CopiesRead DEF AddedInv, UsageStep
<1>3. ASSUME NEW p \in Procs, Write(p) \/ SaveFails(p) PROVE UsageStep
  BY <1>3, UsageAfterSave DEF AddedInv, Write, PutOnDisk, SaveFails, Copies
<1>4. Cli \in Procs
  BY DEF Procs
<1>5. CASE ProcNext
  BY <1>2, <1>3, <1>5, UsageProc, UsageCrash DEF ProcNext, AddedInv
<1>6. CASE Midnight \/ UNCHANGED vars
  BY <1>1, <1>6 DEF Midnight, vars
<1>7. QED
  BY <1>4, <1>5, <1>6, UsageCall, UsageProc DEF Next, AddedInv

\* No copy of the configuration, on disk or in a process, says that more was
\* used than payments the servers saw confirmed, whatever processes there are,
\* whatever they write over each other, and whatever fails.
THEOREM UsageNeverInvented == Spec => []UsageNotInvented
<1>1. Init => AddedInv
  <2>1. SUFFICES ASSUME Init PROVE AddedInv
    OBVIOUS
  <2>2. Typed
    BY <2>1, TypedInit
  <2>3. PaidInv /\ Added = {}
    BY <2>1 DEF Init, PaidInv, Added, Paid
  <2>4. Total(Added) = 0
    BY <2>3, SumEmpty DEF Total
  <2>5. InitialConfig.dailyUsed \in Nat
    BY ConfigAssumption DEF SafeguardConfig
  <2>6. \A cfg \in Copies : cfg.dailyUsed \in {0, InitialConfig.dailyUsed}
    BY <2>1 DEF Init, Copies, DEFAULT_SAFEGUARD_CONFIG
  <2>7. QED
    BY <2>2, <2>3, <2>4, <2>5, <2>6 DEF AddedInv, CountInv
<1>2. AddedInv /\ [Next]_vars => AddedInv'
  <2>1. SUFFICES ASSUME AddedInv, [Next]_vars PROVE AddedInv'
    OBVIOUS
  <2>2. Typed' /\ UsageStep
    BY <2>1, TypedStep, UsageSteps DEF AddedInv
  <2>3. ASSUME NEW cfg \in Copies' PROVE cfg.dailyUsed <= InitialConfig.dailyUsed + Total(Added)'
    <3>1. /\ Total(Added) \in Nat /\ Total(Added)' \in Nat /\ Total(Added) <= Total(Added)'
          /\ \A c \in Calls \ Added : c \in Added' /\ call'[c].amount = call[c].amount =>
                Total(Added) + call[c].amount <= Total(Added)'
      BY <2>1, <2>2, AddedGrows DEF AddedInv
    <3>2. FromCopies(cfg) /\ InitialConfig.dailyUsed \in Nat
      BY <2>2, <2>3, ConfigAssumption DEF UsageStep, SafeguardConfig
    <3>3. \A old \in Copies : old.dailyUsed \in Nat /\ old.dailyUsed <= InitialConfig.dailyUsed + Total(Added)
      BY <2>1 DEF AddedInv, Typed, TypeOK, Copies, SafeguardConfig, CountInv
    <3>4. \A c \in Calls : call[c].amount \in Nat
      BY <2>1 DEF AddedInv, Typed, TypeOK, Call
    <3>5. QED
      BY <3>1, <3>2, <3>3, <3>4 DEF FromCopies
  <2>4. QED
    BY <2>2, <2>3 DEF AddedInv, UsageStep, CountInv
<1>3. AddedInv => UsageNotInvented
  <2>1. SUFFICES ASSUME AddedInv PROVE UsageNotInvented
    OBVIOUS
  <2> DEFINE f == [c \in Calls |-> call[c].amount]
  <2>2. IsFiniteSet(Paid) /\ Added \in SUBSET Paid /\ \A c \in Paid : f[c] \in Nat
    BY <2>1, ProcsAssumption, FS_Subset DEF Paid, Added, AddedInv, Typed, TypeOK, Call
  <2> HIDE DEF f
  <2>3. SumFunctionOnSet(f, Added) <= SumFunctionOnSet(f, Paid)
    BY <2>2, SumGrows
  <2>4. Total(Added) <= Total(Paid)
    BY <2>3 DEF Total, f
  <2>5. Total(Added) \in Nat /\ Total(Paid) \in Nat
    <3>1. Added \in SUBSET Calls /\ Paid \in SUBSET Calls
      BY DEF Added, Paid
    <3>2. QED
      BY <2>1, <3>1, TotalNat DEF AddedInv, Typed
  <2>6. \A cfg \in Copies : cfg.dailyUsed \in Nat /\ cfg.dailyUsed <= InitialConfig.dailyUsed + Total(Added)
    BY <2>1 DEF AddedInv, Typed, TypeOK, Copies, SafeguardConfig, CountInv
  <2>7. InitialConfig.dailyUsed \in Nat
    BY ConfigAssumption DEF SafeguardConfig
  <2>8. \A cfg \in Copies : cfg.dailyUsed <= InitialConfig.dailyUsed + Total(Paid)
    BY <2>4, <2>5, <2>6, <2>7
  <2>9. QED
    BY <2>8 DEF UsageNotInvented, Copies
<1>4. QED
  BY <1>1, <1>2, <1>3, PTL DEF Spec

-----------------------------------------------------------------------------
(* The other local files                                                   *)

\* What a command makes of the entries it finds.
Change(S, cmd) == IF cmd.op = "add" THEN Add(S, cmd) ELSE Remove(S, cmd)

\* What is in a wallet: nothing, or one key that was made.
Pair(S) == S = {} \/ \E k \in made : \E password : S = {<<k, password>>}

OnItsFile(cmd) ==
    /\ DOMAIN cmd = DOMAIN NoCommand
    /\ \/ cmd.op \in {"init", "agent", "pin", "open"} /\ cmd.file = "wallet"
       \/ cmd.op \in {"save", "clear"} /\ cmd.file = "session"
       \/ cmd.op \in {"add", "remove"} /\ cmd.file \in {"contacts", "mcp", "config"}

WritesWallet(doing) == doing.pc \in {"opening", "writing"} /\ doing.cmd.file = "wallet"

\* The shapes of what a process does; keys: those made.
ProcTypes(doing, keys) ==
    /\ DOMAIN doing = {"pc", "cmd", "out", "key", "alone", "mixed", "before"}
    /\ doing.pc \in {"resting", "begun", "making", "opening", "writing", "loading", "agent"}
    /\ doing.pc # "resting" => OnItsFile(doing.cmd)
    /\ doing.pc = "making" => doing.cmd.op = "agent"
    /\ IF doing.pc = "agent" THEN \E k \in keys : doing.key = {k} ELSE doing.key = {}
    /\ WritesWallet(doing) => \E k \in keys : \E password : doing.out = {<<k, password>>}

\* A command that is alone on its file holds the change of what the file had when
\* it was last whole.
AloneRight(doing) ==
    (doing.pc \in {"opening", "writing"} /\ doing.cmd.op \in {"add", "remove"} /\ doing.alone) =>
        /\ doing.out = Change(last[doing.cmd.file], doing.cmd)
        /\ doing.pc = "writing" => ~doing.mixed

\* While there is no wallet nobody knows a key; and who is to write one unforced
\* began at such a time.
Unknowing(doing) ==
    /\ ~WalletExists => doing.key = {} /\ doing.before = {}
    /\ (doing.pc = "opening" /\ doing.cmd.file = "wallet" /\ ~doing.cmd.force /\ doing.cmd.op # "pin")
          => doing.before = {}

ProcOk(doing, keys) == ProcTypes(doing, keys) /\ AloneRight(doing) /\ Unknowing(doing)

\* A file, but for the session's, is as it was last whole, or torn.
FileOk(f) ==
    /\ files[f] = [state |-> files[f].state, data |-> files[f].data]
    /\ files[f].state \in {"absent", "torn", "whole"}
    /\ files[f].state # "whole" => files[f].data = {}
    /\ f # "session" =>
          /\ files[f].state = "whole" => files[f].data = last[f]
          /\ files[f].state = "absent" => last[f] = {}

\* Inductive.
FilesInv ==
    /\ DOMAIN files = Files /\ DOMAIN last = Files /\ DOMAIN proc = Processes
    /\ crashes \in Nat /\ made \subseteq Keys /\ announced \subseteq made
    /\ ~WalletExists => announced = {}
    /\ \A f \in Files : FileOk(f)
    /\ Pair(files["wallet"].data)
    /\ \A p \in Processes : ProcOk(proc[p], made)

LEMMA RestingOk == \A keys : ProcOk(Resting, keys)
  BY DEF ProcOk, ProcTypes, AloneRight, Unknowing, Resting, WritesWallet

LEMMA FilesStart == FilesInit => FilesInv
<1> SUFFICES ASSUME FilesInit PROVE FilesInv
  OBVIOUS
<1>1. \A f \in Files : FileOk(f)
  BY DEF FilesInit, FileOk, Whole, Absent, Files
<1>2. Pair(files["wallet"].data) /\ files["wallet"].state = "absent"
  BY DEF FilesInit, Pair, Absent, Files
<1>3. \A p \in Processes : ProcOk(proc[p], made)
  BY RestingOk DEF FilesInit
<1>4. DOMAIN files = Files /\ DOMAIN last = Files /\ DOMAIN proc = Processes
  BY DEF FilesInit
<1>5. crashes \in Nat /\ made \subseteq Keys /\ announced \subseteq made /\ announced = {}
  BY DEF FilesInit
<1>6. QED
  BY <1>1, <1>2, <1>3, <1>4, <1>5 DEF FilesInv

\* More keys may have been made.
LEMMA MoreKeys ==
    ASSUME NEW doing, NEW K, NEW L, K \subseteq L, ProcTypes(doing, K) PROVE ProcTypes(doing, L)
<1>1. \A S : (\E k \in K : S = {k}) => \E k \in L : S = {k}
  OBVIOUS
<1>2. \A S : (\E k \in K : \E w : S = {<<k, w>>}) => \E k \in L : \E w : S = {<<k, w>>}
  OBVIOUS
<1>3. QED
  BY <1>1, <1>2, Zenon DEF ProcTypes

\* Steps of one process that write no file:
LEMMA OneProc ==
    ASSUME FilesInv, NEW p \in Processes, NEW doing, proc' = [proc EXCEPT ![p] = doing],
           UNCHANGED <<files, last, announced>>, crashes' \in Nat,
           made \subseteq made', made' \subseteq Keys, ProcOk(doing, made')
    PROVE  FilesInv'
<1>1. ASSUME NEW q \in Processes, q # p PROVE ProcOk(proc[q], made)'
  <2>1. proc'[q] = proc[q] /\ ProcOk(proc[q], made)
    BY <1>1 DEF FilesInv
  <2>2. ProcTypes(proc[q], made)'
    BY <2>1, MoreKeys, Zenon DEF ProcOk
  <2>3. AloneRight(proc[q])' /\ Unknowing(proc[q])'
    BY <2>1 DEF ProcOk, AloneRight, Unknowing, WalletExists
  <2>4. QED
    BY <2>2, <2>3 DEF ProcOk
<1>2. ProcOk(proc[p], made)'
  <2>1. proc'[p] = doing
    BY DEF FilesInv
  <2>2. ProcTypes(proc[p], made)'
    BY <2>1 DEF ProcOk, ProcTypes, WritesWallet
  <2>3. AloneRight(proc[p])' /\ Unknowing(proc[p])'
    BY <2>1 DEF ProcOk, AloneRight, Unknowing, WalletExists
  <2>4. QED
    BY <2>2, <2>3 DEF ProcOk
<1>3. Pair(files["wallet"].data)'
  BY DEF FilesInv, Pair
<1>4. \A f \in Files : FileOk(f)'
  BY DEF FilesInv, FileOk
<1>5. QED
  BY <1>1, <1>2, <1>3, <1>4 DEF FilesInv, WalletExists

LEMMA ProcChanges ==
    ASSUME FilesInv, NEW p \in Processes, NEW doing, proc' = [proc EXCEPT ![p] = doing],
           UNCHANGED <<files, last, announced, made, crashes>>, ProcOk(doing, made)
    PROVE  FilesInv'
  BY OneProc DEF FilesInv

\* those that begin,
LEMMA StartFiles ==
    ASSUME FilesInv, NEW p \in Processes, NEW cmd \in FileCommands, Start(p, cmd) PROVE FilesInv'
<1> DEFINE before == announced \cup UNION {proc[q].key : q \in Processes}
           doing == [proc[p] EXCEPT !.pc = "begun", !.cmd = cmd, !.before = before]
<1>1. ProcOk(proc[p], made) /\ proc[p].pc = "resting"
  BY DEF FilesInv, Start, At
<1>2. ~WalletExists => before = {}
  BY DEF FilesInv, ProcOk, Unknowing
<1>3. OnItsFile(cmd)
  BY CommandsAssumption DEF OnItsFile
<1>4. proc' = [proc EXCEPT ![p] = doing]
  BY DEF Start
<1> HIDE DEF before
<1>5. /\ DOMAIN doing = DOMAIN proc[p] /\ doing.pc = "begun" /\ doing.cmd = cmd
      /\ doing.before = before /\ doing.key = proc[p].key
  BY <1>1 DEF ProcOk, ProcTypes
<1> HIDE DEF doing
<1>6. ProcOk(doing, made)
  BY <1>1, <1>2, <1>3, <1>5 DEF ProcOk, ProcTypes, AloneRight, Unknowing, WritesWallet
<1>7. QED
  BY <1>4, <1>6, ProcChanges DEF Start

\* those on the wallet, in which a key is made only if there is no wallet or for
\* a command that may overwrite one,
LEMMA KeySaved ==
    ASSUME FilesInv, NEW p \in Processes, NEW password, SaveSecretKey(p, password),
           UNCHANGED <<files, last, announced, crashes>>, proc[p].cmd.op \in {"init", "agent", "pin"},
           proc[p].pc \in {"begun", "making"},
           WalletExists => proc[p].cmd.force \/ proc[p].cmd.op = "pin"
    PROVE  FilesInv'
<1>1. PICK k \in Keys \ made :
        /\ made' = made \cup {k}
        /\ proc' = [proc EXCEPT ![p].pc = "opening", ![p].out = {<<k, password>>},
                                ![p].alone = files["wallet"] # Torn]
  BY DEF SaveSecretKey
<1> DEFINE doing == [proc[p] EXCEPT !.pc = "opening", !.out = {<<k, password>>},
                                   !.alone = files["wallet"] # Torn]
<1>2. ProcOk(proc[p], made) /\ proc[p].pc # "resting" /\ OnItsFile(proc[p].cmd)
  BY DEF FilesInv, ProcOk, ProcTypes
<1>3. proc' = [proc EXCEPT ![p] = doing]
  BY <1>1
<1>4. /\ DOMAIN doing = DOMAIN proc[p] /\ doing.pc = "opening" /\ doing.cmd = proc[p].cmd
      /\ doing.out = {<<k, password>>} /\ doing.before = proc[p].before /\ doing.key = proc[p].key
  BY <1>2 DEF ProcOk, ProcTypes
<1> HIDE DEF doing
<1>5. proc[p].key = {}
  BY <1>2 DEF ProcOk, ProcTypes
<1>6. ProcTypes(doing, made')
  BY <1>1, <1>2, <1>4, <1>5 DEF ProcOk, ProcTypes, WritesWallet
<1>7. AloneRight(doing) /\ Unknowing(doing)
  BY <1>2, <1>4, <1>5 DEF ProcOk, AloneRight, Unknowing
<1>8. made \subseteq made' /\ made' \subseteq Keys /\ crashes' \in Nat
  BY <1>1 DEF FilesInv
<1>9. QED
  BY <1>3, <1>6, <1>7, <1>8, OneProc DEF ProcOk

LEMMA RestFiles ==
    ASSUME FilesInv, NEW p \in Processes, proc' = Rest(p),
           UNCHANGED <<files, last, announced, made>>, crashes' \in Nat
    PROVE  FilesInv'
  BY OneProc, RestingOk DEF Rest, FilesInv

LEMMA PcChanges ==
    ASSUME FilesInv, NEW p \in Processes, NEW pc \in {"making", "loading"},
           proc' = Step(p, pc), proc[p].pc = "begun", pc = "making" => proc[p].cmd.op = "agent",
           UNCHANGED <<files, last, announced, made, crashes>>
    PROVE  FilesInv'
<1> DEFINE doing == [proc[p] EXCEPT !.pc = pc]
<1>1. ProcOk(proc[p], made) /\ OnItsFile(proc[p].cmd)
  BY DEF FilesInv, ProcOk, ProcTypes
<1>2. proc' = [proc EXCEPT ![p] = doing]
  BY DEF Step
<1>3. /\ DOMAIN doing = DOMAIN proc[p] /\ doing.pc = pc /\ doing.cmd = proc[p].cmd
      /\ doing.before = proc[p].before /\ doing.key = proc[p].key
  BY <1>1 DEF ProcOk, ProcTypes
<1> HIDE DEF doing
<1>4. ProcOk(doing, made)
  BY <1>1, <1>3 DEF ProcOk, ProcTypes, AloneRight, Unknowing, WritesWallet
<1>5. QED
  BY <1>2, <1>4, ProcChanges

LEMMA WalletFiles ==
    ASSUME FilesInv, NEW p \in Processes,
           InitWallet(p) \/ CreateAgent(p) \/ MakeWallet(p) \/ CreatePinEncryptedKeypair(p)
    PROVE  FilesInv'
<1>1. crashes \in Nat
  BY DEF FilesInv
<1>2. CASE InitWallet(p)
  BY <1>1, <1>2, KeySaved, RestFiles DEF InitWallet, At
<1>3. CASE CreateAgent(p)
  BY <1>1, <1>3, PcChanges, RestFiles DEF CreateAgent, At
<1>4. CASE MakeWallet(p)
  <2>1. proc[p].cmd.op = "agent" /\ proc[p].pc = "making"
    BY <1>4 DEF MakeWallet, At, FilesInv, ProcOk, ProcTypes
  <2>2. QED
    BY <1>1, <1>4, <2>1, KeySaved, RestFiles DEF MakeWallet
<1>5. CASE CreatePinEncryptedKeypair(p)
  BY <1>1, <1>5, KeySaved DEF CreatePinEncryptedKeypair, At
<1>6. QED
  BY <1>2, <1>3, <1>4, <1>5

\* and those that load it,
LEMMA LoadFiles ==
    ASSUME FilesInv, NEW p \in Processes, LoadSecretKey(p) PROVE FilesInv'
<1> DEFINE opened == {entry \in files["wallet"].data : Opens(entry, proc[p].cmd.password)}
           doing == [proc[p] EXCEPT !.pc = "agent", !.key = {entry[1] : entry \in opened}]
<1>1. /\ ProcOk(proc[p], made) /\ proc[p].pc = "loading" /\ Pair(files["wallet"].data)
      /\ FileOk("wallet") /\ crashes \in Nat
  BY DEF FilesInv, LoadSecretKey, At, Files
<1>2. CASE opened = {}
  BY <1>1, <1>2, RestFiles DEF LoadSecretKey
<1>3. CASE opened # {}
  <2>1. proc' = [proc EXCEPT ![p] = doing]
    BY <1>3 DEF LoadSecretKey
  <2>2. \E k \in made : {entry[1] : entry \in opened} = {k}
    BY <1>1, <1>3 DEF Pair
  <2>3. files["wallet"].state = "whole"
    BY <1>1, <1>3 DEF FileOk
  <2> HIDE DEF opened
  <2>4. /\ DOMAIN doing = DOMAIN proc[p] /\ doing.pc = "agent" /\ doing.cmd = proc[p].cmd
        /\ doing.before = proc[p].before /\ doing.key = {entry[1] : entry \in opened}
    BY <1>1 DEF ProcOk, ProcTypes
  <2> HIDE DEF doing
  <2>5. ProcOk(doing, made)
    BY <1>1, <2>2, <2>3, <2>4 DEF ProcOk, ProcTypes, AloneRight, Unknowing, WritesWallet, WalletExists
  <2>6. QED
    BY <2>1, <2>5, ProcChanges DEF LoadSecretKey
<1>4. QED
  BY <1>2, <1>3

\* and those on the other files: what is read of a file that is not torn is what
\* it had when it was last whole.
LEMMA ReadFiles ==
    ASSUME FilesInv, NEW p \in Processes, ReadFile(p) PROVE FilesInv'
<1> DEFINE cmd == proc[p].cmd
           f == cmd.file
           S == ReadOrEmpty(f)
           out == IF cmd.op = "add" THEN Add(S, cmd) ELSE Remove(S, cmd)
           doing == [proc[p] EXCEPT !.pc = "opening", !.out = out, !.alone = files[f] # Torn]
<1>1. /\ ProcOk(proc[p], made) /\ proc[p].pc = "begun" /\ cmd.op \in {"add", "remove"}
      /\ crashes \in Nat /\ f \in {"contacts", "mcp", "config"} /\ OnItsFile(cmd)
  BY DEF FilesInv, ReadFile, At, ProcOk, ProcTypes, OnItsFile
<1>2. CASE Nothing(S, cmd)
  BY <1>1, <1>2, RestFiles DEF ReadFile
<1>3. CASE ~Nothing(S, cmd)
  <2>1. proc' = [proc EXCEPT ![p] = doing]
    BY <1>3 DEF ReadFile
  <2>2. FileOk(f) /\ f # "session" /\ f # "wallet"
    BY <1>1 DEF FilesInv, Files
  <2>3. files[f] # Torn => S = last[f]
    <3>1. files[f].state = "torn" => files[f] = Torn
      BY <2>2 DEF FileOk, Torn
    <3>2. QED
      BY <2>2, <3>1 DEF FileOk, ReadOrEmpty
  <2>4. out = Change(S, cmd)
    BY DEF Change
  <2> HIDE DEF S, out
  <2>5. /\ DOMAIN doing = DOMAIN proc[p] /\ doing.pc = "opening" /\ doing.cmd = cmd /\ doing.out = out
        /\ doing.before = proc[p].before /\ doing.key = proc[p].key /\ doing.alone = (files[f] # Torn)
    BY <1>1 DEF ProcOk, ProcTypes
  <2> HIDE DEF doing
  <2>6. AloneRight(doing)
    BY <2>3, <2>4, <2>5 DEF AloneRight
  <2>7. ProcTypes(doing, made) /\ Unknowing(doing)
    <3> HIDE DEF cmd
    <3>1. QED
      BY <1>1, <2>2, <2>5 DEF ProcOk, ProcTypes, Unknowing, WritesWallet
  <2>8. QED
    BY <2>1, <2>6, <2>7, ProcChanges DEF ReadFile, ProcOk
<1>4. QED
  BY <1>2, <1>3

LEMMA SessionFiles ==
    ASSUME FilesInv, NEW p \in Processes, SaveSession(p) PROVE FilesInv'
<1> DEFINE out == {proc[p].cmd.password}
           doing == [proc[p] EXCEPT !.pc = "opening", !.out = out]
<1>1. /\ ProcOk(proc[p], made) /\ proc[p].pc = "begun" /\ proc[p].cmd.op = "save"
      /\ OnItsFile(proc[p].cmd) /\ proc[p].cmd.file = "session"
  BY DEF FilesInv, SaveSession, At, ProcOk, ProcTypes, OnItsFile
<1>2. proc' = [proc EXCEPT ![p] = doing]
  BY DEF SaveSession
<1>3. /\ DOMAIN doing = DOMAIN proc[p] /\ doing.pc = "opening" /\ doing.cmd = proc[p].cmd
      /\ doing.before = proc[p].before /\ doing.key = proc[p].key
  BY <1>1 DEF ProcOk, ProcTypes
<1> HIDE DEF doing
<1>4. ProcOk(doing, made)
  BY <1>1, <1>3 DEF ProcOk, ProcTypes, AloneRight, Unknowing, WritesWallet
<1>5. QED
  BY <1>2, <1>4, ProcChanges DEF SaveSession

LEMMA PinFiles ==
    ASSUME FilesInv, NEW p \in Processes, ResolvePin(p) PROVE FilesInv'
<1> DEFINE pins == files["session"].data
           pin == CHOOSE x \in pins : TRUE
           doing == [proc[p] EXCEPT !.pc = "loading", !.cmd = [@ EXCEPT !.password = pin]]
<1>1. /\ ProcOk(proc[p], made) /\ proc[p].pc = "begun" /\ crashes \in Nat
      /\ OnItsFile(proc[p].cmd)
  BY DEF FilesInv, ResolvePin, At, ProcOk, ProcTypes
<1>2. CASE proc' = Rest(p)
  BY <1>1, <1>2, RestFiles DEF ResolvePin
<1>3. CASE proc' = [proc EXCEPT ![p] = doing]
  <2> HIDE DEF pin
  <2>1. /\ DOMAIN doing = DOMAIN proc[p] /\ doing.pc = "loading"
        /\ doing.cmd = [proc[p].cmd EXCEPT !.password = pin]
        /\ doing.before = proc[p].before /\ doing.key = proc[p].key
    BY <1>1 DEF ProcOk, ProcTypes
  <2> HIDE DEF doing
  <2>2. OnItsFile(doing.cmd)
    BY <1>1, <2>1 DEF OnItsFile, NoCommand
  <2>3. ProcOk(doing, made)
    BY <1>1, <2>1, <2>2 DEF ProcOk, ProcTypes, AloneRight, Unknowing, WritesWallet
  <2>4. QED
    BY <1>3, <2>3, ProcChanges DEF ResolvePin
<1>4. QED
  BY <1>2, <1>3 DEF ResolvePin

\* Steps that write: the session may go without a trace,
LEMMA ClearFiles ==
    ASSUME FilesInv, NEW p \in Processes, ClearSession(p) PROVE FilesInv'
<1>1. files' = [files EXCEPT !["session"] = Absent] /\ DOMAIN files = Files
  BY DEF ClearSession, FilesInv
<1>2. \A f \in Files : FileOk(f)'
  <2>1. TAKE f \in Files
  <2>2. CASE f = "session"
    BY <1>1, <2>2 DEF FileOk, Absent
  <2>3. CASE f # "session"
    BY <1>1, <2>3 DEF FileOk, ClearSession, FilesInv
  <2>4. QED
    BY <2>2, <2>3
<1>3. files'["wallet"] = files["wallet"]
  BY <1>1 DEF Files
<1>4. \A q \in Processes : ProcOk(proc[q], made)'
  <2>1. TAKE q \in Processes
  <2>2. ProcOk(proc'[q], made)
    BY RestingOk DEF ClearSession, Rest, FilesInv
  <2>3. QED
    BY <1>3, <2>2 DEF ClearSession, ProcOk, ProcTypes, AloneRight, Unknowing, WalletExists, WritesWallet
<1>5. Pair(files["wallet"].data)'
  BY <1>3 DEF ClearSession, FilesInv, Pair
<1>6. QED
  BY <1>1, <1>2, <1>3, <1>4, <1>5 DEF FilesInv, ClearSession, Rest, WalletExists

\* a file is torn, and whoever has read it is not alone any more,
LEMMA OpenFiles ==
    ASSUME FilesInv, NEW p \in Processes, Open(p) PROVE FilesInv'
<1> DEFINE f == File(p)
           opened == [proc[p] EXCEPT !.pc = "writing", !.mixed = FALSE]
           disturbed(q) == [proc[q] EXCEPT !.alone = FALSE]
<1>1. /\ ProcOk(proc[p], made) /\ proc[p].pc = "opening" /\ OnItsFile(proc[p].cmd)
      /\ f = proc[p].cmd.file /\ f \in Files /\ DOMAIN files = Files
  BY DEF FilesInv, Open, At, ProcOk, ProcTypes, OnItsFile, Files, File
<1>2. files' = [files EXCEPT ![f] = Torn] /\ UNCHANGED <<last, announced, made, crashes>>
  BY DEF Open
<1>3. \A g \in Files : FileOk(g)'
  <2>1. TAKE g \in Files
  <2>2. CASE g = f
    BY <1>1, <1>2, <2>2 DEF FileOk, Torn
  <2>3. CASE g # f
    BY <1>1, <1>2, <2>3 DEF FileOk, FilesInv
  <2>4. QED
    BY <2>2, <2>3
<1>4. files'["wallet"] = IF f = "wallet" THEN Torn ELSE files["wallet"]
  BY <1>1, <1>2 DEF Files
<1>5. WalletExists' <=> WalletExists \/ f = "wallet"
  BY <1>4 DEF WalletExists, Torn
<1>6. Pair(files["wallet"].data)'
  <2>1. files'["wallet"].data = IF f = "wallet" THEN {} ELSE files["wallet"].data
    BY <1>4 DEF Torn
  <2> HIDE DEF f
  <2>2. QED
    BY <1>2, <2>1 DEF FilesInv, Pair
<1>7. proc' = [q \in Processes |-> IF q = p THEN opened
                                    ELSE IF q \in Others(p, f) THEN disturbed(q) ELSE proc[q]]
  BY DEF Open
<1>8. ProcOk(opened, made)
  <2>1. /\ DOMAIN opened = DOMAIN proc[p] /\ opened.pc = "writing" /\ opened.cmd = proc[p].cmd
        /\ opened.out = proc[p].out /\ opened.before = proc[p].before /\ opened.key = proc[p].key
        /\ opened.alone = proc[p].alone /\ opened.mixed = FALSE
    BY <1>1 DEF ProcOk, ProcTypes
  <2> HIDE DEF opened
  <2>2. QED
    BY <1>1, <2>1 DEF ProcOk, ProcTypes, AloneRight, Unknowing, WritesWallet
<1>9. \A q \in Processes : ProcOk(disturbed(q), made)
  <2>1. TAKE q \in Processes
  <2>2. ProcOk(proc[q], made)
    BY DEF FilesInv
  <2> DEFINE doing == disturbed(q)
  <2>3. /\ DOMAIN doing = DOMAIN proc[q] /\ doing.pc = proc[q].pc /\ doing.cmd = proc[q].cmd
        /\ doing.out = proc[q].out /\ doing.before = proc[q].before /\ doing.key = proc[q].key
        /\ doing.alone = FALSE
    BY <2>2 DEF ProcOk, ProcTypes
  <2> HIDE DEF disturbed
  <2>4. QED
    BY <2>2, <2>3 DEF ProcOk, ProcTypes, AloneRight, Unknowing, WritesWallet
<1> HIDE DEF opened, disturbed
<1>10. \A q \in Processes : ProcOk(proc'[q], made)
  BY <1>7, <1>8, <1>9 DEF FilesInv
<1>11. \A q \in Processes : ProcOk(proc[q], made)'
  <2>1. TAKE q \in Processes
  <2>2. ProcOk(proc'[q], made)
    BY <1>10
  <2>3. QED
    BY <1>2, <1>5, <2>2 DEF ProcOk, ProcTypes, AloneRight, Unknowing, WritesWallet
<1>12. DOMAIN files' = Files /\ DOMAIN proc' = Processes
  BY <1>1, <1>2, <1>7
<1>13. QED
  BY <1>2, <1>3, <1>5, <1>6, <1>11, <1>12 DEF FilesInv

\* and filled, or left torn, and the key of a wallet told.
LEMMA FillFiles ==
    ASSUME FilesInv, NEW p \in Processes, Fill(p) PROVE FilesInv'
<1> DEFINE f == File(p)
           out == proc[p].out
           filled == IF proc[p].cmd.op = "agent"
                     THEN [proc[p] EXCEPT !.pc = "loading", !.out = {}] ELSE Resting
           disturbed(q) == [proc[q] EXCEPT !.alone = FALSE, !.mixed = At(q, "writing")]
<1>1. /\ ProcOk(proc[p], made) /\ proc[p].pc = "writing" /\ OnItsFile(proc[p].cmd)
      /\ f = proc[p].cmd.file /\ f \in Files /\ DOMAIN files = Files /\ DOMAIN last = Files
  BY DEF FilesInv, Fill, At, ProcOk, ProcTypes, OnItsFile, Files, File
<1>2. PICK result \in {Whole(out), Torn} : files' = [files EXCEPT ![f] = result]
  BY DEF Fill
<1>3. last' = [last EXCEPT ![f] = out] /\ UNCHANGED <<made, crashes>>
  BY DEF Fill
<1>4. \A g \in Files : FileOk(g)'
  <2>1. TAKE g \in Files
  <2>2. CASE g = f
    <3>1. files'[g] = result /\ last'[g] = out
      BY <1>1, <1>2, <1>3, <2>2
    <3> HIDE DEF out
    <3>2. QED
      BY <1>2, <3>1 DEF FileOk, Torn, Whole
  <2>3. CASE g # f
    BY <1>1, <1>2, <1>3, <2>3 DEF FileOk, FilesInv
  <2>4. QED
    BY <2>2, <2>3
<1>5. files'["wallet"] = IF f = "wallet" THEN result ELSE files["wallet"]
  BY <1>1, <1>2 DEF Files
<1>6. WalletExists' <=> WalletExists \/ f = "wallet"
  BY <1>2, <1>5 DEF WalletExists, Torn, Whole
<1>7. f = "wallet" => \E k \in made : \E password : out = {<<k, password>>}
  BY <1>1 DEF ProcOk, ProcTypes, WritesWallet
<1>8. Pair(files["wallet"].data)'
  <2>1. result.data \in {out, {}}
    <3> HIDE DEF out
    <3>1. QED
      BY <1>2 DEF Torn, Whole
  <2>2. files'["wallet"].data = IF f = "wallet" THEN result.data ELSE files["wallet"].data
    BY <1>5
  <2> HIDE DEF f, out
  <2>3. QED
    BY <1>3, <1>7, <2>1, <2>2 DEF FilesInv, Pair
<1>9. announced' \subseteq made /\ (announced' = announced \/ f = "wallet")
  <2>1. proc[p].cmd.op \in {"init", "pin"} => f = "wallet"
    BY <1>1 DEF OnItsFile
  <2>2. f = "wallet" => {entry[1] : entry \in out} \subseteq made
    BY <1>7
  <2>3. announced' = announced \cup
           IF proc[p].cmd.op \in {"init", "pin"} THEN {entry[1] : entry \in out} ELSE {}
    BY DEF Fill
  <2> HIDE DEF f, out
  <2>4. QED
    BY <2>1, <2>2, <2>3 DEF FilesInv
<1>10. proc' = [q \in Processes |-> IF q = p THEN filled
                                    ELSE IF q \in Others(p, f) THEN disturbed(q) ELSE proc[q]]
  BY DEF Fill
<1>11. ProcOk(filled, made) /\ filled.pc \notin {"opening", "writing"}
  <2>1. CASE proc[p].cmd.op = "agent"
    <3> DEFINE doing == [proc[p] EXCEPT !.pc = "loading", !.out = {}]
    <3>1. /\ DOMAIN doing = DOMAIN proc[p] /\ doing.pc = "loading" /\ doing.cmd = proc[p].cmd
          /\ doing.before = proc[p].before /\ doing.key = proc[p].key
      BY <1>1 DEF ProcOk, ProcTypes
    <3>2. filled = doing
      BY <2>1
    <3> HIDE DEF doing, filled
    <3>3. QED
      BY <1>1, <3>1, <3>2 DEF ProcOk, ProcTypes, AloneRight, Unknowing, WritesWallet
  <2>2. CASE proc[p].cmd.op # "agent"
    <3>1. filled = Resting /\ Resting.pc = "resting"
      BY <2>2 DEF Resting
    <3> HIDE DEF filled
    <3>2. QED
      BY <3>1, RestingOk
  <2>3. QED
    BY <2>1, <2>2
<1>12. \A q \in Processes : ProcOk(disturbed(q), made) /\ ~disturbed(q).alone
  <2>1. TAKE q \in Processes
  <2>2. ProcOk(proc[q], made)
    BY DEF FilesInv
  <2> DEFINE doing == disturbed(q)
  <2>3. /\ DOMAIN doing = DOMAIN proc[q] /\ doing.pc = proc[q].pc /\ doing.cmd = proc[q].cmd
        /\ doing.out = proc[q].out /\ doing.before = proc[q].before /\ doing.key = proc[q].key
        /\ doing.alone = FALSE
    BY <2>2 DEF ProcOk, ProcTypes
  <2> HIDE DEF disturbed
  <2>4. QED
    BY <2>2, <2>3 DEF ProcOk, ProcTypes, AloneRight, Unknowing, WritesWallet
<1> HIDE DEF filled, disturbed
<1>13. \A q \in Processes : ProcOk(proc[q], made)'
  <2>1. TAKE q \in Processes
  <2>2. ProcOk(proc'[q], made) /\ AloneRight(proc[q])'
    <3>1. CASE q = p
      BY <1>10, <1>11, <3>1 DEF AloneRight
    <3>2. CASE q # p /\ q \in Others(p, f)
      BY <1>10, <1>12, <3>2 DEF AloneRight
    <3>3. CASE q # p /\ q \notin Others(p, f)
      <4>1. proc'[q] = proc[q] /\ ProcOk(proc[q], made)
        BY <1>10, <3>3 DEF FilesInv
      <4>2. proc[q].pc = "resting" \/ (proc[q].cmd.file \in Files /\ proc[q].cmd.file # f)
        BY <3>3, <4>1 DEF ProcOk, ProcTypes, OnItsFile, Files, Others
      <4>3. proc[q].pc = "resting" \/ last'[proc[q].cmd.file] = last[proc[q].cmd.file]
        BY <1>1, <1>3, <4>2
      <4>4. AloneRight(proc[q])'
        BY <4>1, <4>3 DEF ProcOk, AloneRight
      <4>5. QED
        BY <4>1, <4>4
    <3>4. QED
      BY <3>1, <3>2, <3>3
  <2>3. ProcTypes(proc[q], made)' /\ Unknowing(proc[q])'
    BY <1>3, <1>6, <2>2 DEF ProcOk, ProcTypes, Unknowing, WritesWallet
  <2>4. QED
    BY <2>2, <2>3 DEF ProcOk
<1>14. DOMAIN files' = Files /\ DOMAIN last' = Files /\ DOMAIN proc' = Processes
  BY <1>1, <1>2, <1>3, <1>10
<1>15. QED
  BY <1>3, <1>4, <1>6, <1>8, <1>9, <1>13, <1>14 DEF FilesInv

LEMMA FilesStep == FilesInv /\ [FilesNext]_filesVars => FilesInv'
<1> SUFFICES ASSUME FilesInv, [FilesNext]_filesVars PROVE FilesInv'
  OBVIOUS
<1>1. CASE UNCHANGED filesVars
  <2>1. /\ files' = files /\ last' = last /\ proc' = proc /\ made' = made
        /\ announced' = announced /\ crashes' = crashes
    BY <1>1 DEF filesVars
  <2>2. \A f \in Files : FileOk(f)'
    BY <2>1 DEF FilesInv, FileOk
  <2>3. ASSUME NEW p \in Processes PROVE ProcOk(proc[p], made)'
    BY <2>1 DEF FilesInv, ProcOk, ProcTypes, AloneRight, Unknowing, WritesWallet, WalletExists
  <2>4. Pair(files["wallet"].data)'
    BY <2>1 DEF FilesInv, Pair
  <2>5. QED
    BY <2>1, <2>2, <2>3, <2>4 DEF FilesInv, WalletExists
<1>2. ASSUME NEW p \in Processes, StopAgent(p) \/ Killed(p) PROVE FilesInv'
  <2>1. crashes \in Nat /\ crashes + 1 \in Nat
    BY DEF FilesInv
  <2>2. QED
    BY <1>2, <2>1, RestFiles DEF StopAgent, Killed
<1>3. QED
  BY <1>1, <1>2, StartFiles, WalletFiles, LoadFiles, ReadFiles, SessionFiles, PinFiles, ClearFiles,
     OpenFiles, FillFiles DEF FilesNext

\* Shapes of files and processes, and a wallet, like an agent, has one key.
THEOREM FilesTypeCorrect == FilesSpec => []FilesTypeOK
<1>1. FilesInv => FilesTypeOK
  <2> SUFFICES ASSUME FilesInv PROVE FilesTypeOK
    OBVIOUS
  <2>1. \A x : Cardinality({x}) = 1
    BY FS_Singleton
  <2>2. Cardinality({}) = 0
    BY FS_EmptySet
  <2>3. Cardinality(files["wallet"].data) <= 1
    <3>1. Pair(files["wallet"].data)
      BY DEF FilesInv
    <3>2. Cardinality(files["wallet"].data) \in {0, 1}
      BY <2>1, <2>2, <3>1 DEF Pair
    <3>3. QED
      BY <3>2
  <2>4. ASSUME NEW p \in Processes
        PROVE  /\ proc[p].pc \in {"resting", "begun", "making", "opening", "writing", "loading",
                                   "agent"}
               /\ Cardinality(proc[p].key) = IF At(p, "agent") THEN 1 ELSE 0
    BY <2>1, <2>2 DEF FilesInv, ProcOk, ProcTypes, At
  <2>5. QED
    BY <2>3, <2>4 DEF FilesInv, FileOk, FilesTypeOK
<1>2. QED
  BY <1>1, FilesStart, FilesStep, PTL DEF FilesSpec

\* SaveSecretKey, init, createPinEncryptedKeypair: no command overwrites unasked
\* a key that anybody knew when the command began, whatever overlaps and dies.
THEOREM WalletsAlwaysSpared == FilesSpec => WalletsSpared
<1>1. FilesInv /\ [FilesNext]_filesVars =>
        [\A p \in Processes :
           (Opening(p) /\ File(p) = "wallet" /\ ~proc[p].cmd.force /\ proc[p].cmd.op # "pin")
              => \A entry \in files["wallet"].data : entry[1] \notin proc[p].before]_filesVars
  <2> SUFFICES ASSUME FilesInv, NEW p \in Processes, Opening(p), File(p) = "wallet",
                      ~proc[p].cmd.force, proc[p].cmd.op # "pin"
               PROVE  proc[p].before = {}
    BY Zenon
  <2>1. QED
    BY DEF FilesInv, ProcOk, Unknowing, Opening, At, File
<1>2. QED
  BY <1>1, FilesStart, FilesStep, PTL DEF FilesSpec, WalletsSpared

\* add, remove, install, uninstall, lock, unlock: a command alone on a file that
\* is not torn makes the change it was asked for and no other.
THEOREM AloneAlwaysAtomic == FilesSpec => AloneIsAtomic
<1>1. FilesInv /\ [FilesNext]_filesVars =>
        [\A p \in Processes :
          LET cmd == proc[p].cmd
              S == last[cmd.file]
          IN  (At(p, "writing") /\ proc'[p] = Resting /\ crashes' = crashes
                 /\ cmd.op \in {"add", "remove"} /\ proc[p].alone)
              => files'[cmd.file] = Whole({entry \in S : entry[1] # cmd.entry[1]}
                   \cup IF cmd.op = "add" THEN {cmd.entry} ELSE {})]_filesVars
  <2> DEFINE cmd(p) == proc[p].cmd
             new(p) == {entry \in last[cmd(p).file] : entry[1] # cmd(p).entry[1]}
                         \cup IF cmd(p).op = "add" THEN {cmd(p).entry} ELSE {}
  <2> SUFFICES ASSUME FilesInv, FilesNext, NEW p \in Processes, At(p, "writing"),
                      proc'[p] = Resting, crashes' = crashes,
                      cmd(p).op \in {"add", "remove"}, proc[p].alone
               PROVE  files'[cmd(p).file] = Whole(new(p))
    BY Zenon
  <2>1. ProcOk(proc[p], made) /\ proc[p].pc = "writing" /\ Resting.pc = "resting" /\ crashes \in Nat
    BY DEF FilesInv, At, Resting
  <2>2. proc[p].out = new(p) /\ ~proc[p].mixed
    BY <2>1 DEF ProcOk, AloneRight, Change, Add, Remove, Named
  <2> HIDE DEF new
  <2>3. Fill(p)
    <3>1. PICK q \in Processes :
            \/ \E c \in FileCommands : Start(q, c)
            \/ InitWallet(q) \/ CreateAgent(q) \/ MakeWallet(q) \/ CreatePinEncryptedKeypair(q)
            \/ LoadSecretKey(q) \/ StopAgent(q)
            \/ ReadFile(q) \/ SaveSession(q) \/ ClearSession(q) \/ ResolvePin(q)
            \/ Open(q) \/ Fill(q) \/ Killed(q)
      BY DEF FilesNext
    <3>2. ~Killed(q)
      BY <2>1 DEF Killed
    <3>3. CASE Open(q)
      <4>1. q # p
        BY <2>1, <3>3 DEF Open, At
      <4>2. proc'[p] = IF p \in Others(q, File(q)) THEN [proc[p] EXCEPT !.alone = FALSE] ELSE proc[p]
        BY <3>3, <4>1 DEF Open
      <4>3. proc'[p].pc = "writing"
        BY <2>1, <4>2 DEF ProcOk, ProcTypes
      <4>4. QED
        BY <2>1, <4>3
    <3>4. CASE Fill(q)
      <4>1. CASE q = p
        BY <3>4, <4>1
      <4>2. CASE q # p
        <5>1. proc'[p] = IF p \in Others(q, File(q))
                         THEN [proc[p] EXCEPT !.alone = FALSE, !.mixed = At(p, "writing")] ELSE proc[p]
          BY <3>4, <4>2 DEF Fill
        <5>2. proc'[p].pc = "writing"
          BY <2>1, <5>1 DEF ProcOk, ProcTypes
        <5>3. QED
          BY <2>1, <5>2
      <4>3. QED
        BY <4>1, <4>2
    <3>5. CASE ~Open(q) /\ ~Fill(q)
      <4>1. proc[q].pc # "writing"
        BY <3>1, <3>2, <3>5 DEF Start, InitWallet, CreateAgent, MakeWallet,
             CreatePinEncryptedKeypair,
             LoadSecretKey, StopAgent, ReadFile, SaveSession, ClearSession, ResolvePin, At
      <4>2. q # p
        BY <2>1, <4>1
      <4> DEFINE OnlyOf(a) == \E doing : proc' = [proc EXCEPT ![a] = doing]
      <4>3. OnlyOf(q)
        <5>1. \A c : Start(q, c) => OnlyOf(q)
          BY DEF Start
        <5>2. /\ Rest(q) = [proc EXCEPT ![q] = Resting]
              /\ \A pc : Step(q, pc) = [proc EXCEPT ![q] = [proc[q] EXCEPT !.pc = pc]]
          BY DEF Rest, Step
        <5>3. \A w : SaveSecretKey(q, w) => OnlyOf(q)
          BY DEF SaveSecretKey
        <5>4. InitWallet(q) \/ MakeWallet(q) \/ CreatePinEncryptedKeypair(q) => OnlyOf(q)
          BY <5>2, <5>3 DEF InitWallet, MakeWallet, CreatePinEncryptedKeypair
        <5>5. CreateAgent(q) \/ StopAgent(q) \/ ClearSession(q) => OnlyOf(q)
          BY <5>2 DEF CreateAgent, StopAgent, ClearSession
        <5>6. LoadSecretKey(q) \/ ReadFile(q) => OnlyOf(q)
          BY <5>2 DEF LoadSecretKey, ReadFile
        <5>7. SaveSession(q) \/ ResolvePin(q) => OnlyOf(q)
          BY <5>2 DEF SaveSession, ResolvePin
        <5>8. QED
          BY <3>1, <3>2, <3>5, <5>1, <5>4, <5>5, <5>6, <5>7
      <4>4. proc'[p] = proc[p]
        BY <4>2, <4>3 DEF FilesInv
      <4>5. QED
        BY <2>1, <4>4
    <3>6. QED
      BY <3>3, <3>4, <3>5
  <2>4. files' = [files EXCEPT ![File(p)] = Whole(proc[p].out)]
    BY <2>2, <2>3 DEF Fill
  <2>5. File(p) \in DOMAIN files /\ File(p) = cmd(p).file
    BY <2>1 DEF FilesInv, ProcOk, ProcTypes, OnItsFile, Files, File
  <2>6. QED
    BY <2>2, <2>4, <2>5
<1>2. QED
  BY <1>1, FilesStart, FilesStep, PTL DEF FilesSpec, AloneIsAtomic

=============================================================================
