----------------------------- MODULE LocalFiles -----------------------------
(***************************************************************************)
(* The files that processes of the CLI, the MCP server and users of the    *)
(* SDK share without a lock: the wallet (sdk/src/index.ts, encryption.ts,  *)
(* session.ts), the address book (contacts.ts), the host applications' MCP *)
(* configuration (cli/src/mcp-install.ts) and the configuration of the     *)
(* legacy safeguards (sdk/src/safeguards.ts).                              *)
(*                                                                         *)
(* Each command reads a file, changes what it read and writes it back. A   *)
(* write truncates the file and then fills it; a process may stop between  *)
(* the two, another one may read or write meanwhile. The files differ in   *)
(* what they do with one that cannot be parsed. The enforcer's own file is *)
(* in Safeguards. Definitions named X_Y are X with a mistake Y in it.      *)
(***************************************************************************)
EXTENDS Integers, FiniteSets

CONSTANTS
    Processes,
    FileCommands,  \* what a process may be told to do
    Keys,          \* keypairs there are to generate
    NoPassword,    \* the wallet is saved as plain bytes
    OtherServers,  \* MCP servers of other people in the host's file
    MaxCommands,   \* bound: commands run in all
    MaxCrashes     \* bound

Files == {"wallet", "contacts", "mcp", "config", "session"}

ASSUME FilesBounds == MaxCommands \in Nat /\ MaxCrashes \in Nat

VARIABLES
    files,      \* files[f]: absent, torn, or whole with a set of entries
    last,       \* last[f]: the entries it had when it was last whole
    proc,       \* proc[p]: what a process is doing
    made,       \* keys generated, ever
    announced,  \* keys whose address init has told somebody
    commands, crashes

filesVars == <<files, last, proc, made, announced, commands, crashes>>

Absent == [state |-> "absent", data |-> {}]
Torn == [state |-> "torn", data |-> {}]
Whole(S) == [state |-> "whole", data |-> S]

NoCommand == [op |-> "none", file |-> "session", entry |-> <<>>,
              password |-> NoPassword, force |-> FALSE, create |-> FALSE]

\* out: what it is about to write; key: the agent it has loaded; alone: no
\* other process has touched the file since it was read; mixed: another one
\* wrote between the truncation and the write. before: the keys known to
\* somebody when the command began.
Resting == [pc |-> "resting", cmd |-> NoCommand, out |-> {}, key |-> {},
            alone |-> TRUE, mixed |-> FALSE, before |-> {}]

\* Each command is about a file of its own kind.
ASSUME CommandsAssumption ==
    \A cmd \in FileCommands :
        /\ DOMAIN cmd = DOMAIN NoCommand
        /\ \/ cmd.op \in {"init", "agent", "pin", "open"} /\ cmd.file = "wallet"
           \/ cmd.op \in {"save", "clear"} /\ cmd.file = "session"
           \/ cmd.op \in {"add", "remove"} /\ cmd.file \in {"contacts", "mcp", "config"}

FilesInit ==
    /\ files = [f \in Files |-> IF f = "mcp" THEN Whole(OtherServers) ELSE Absent]
    /\ last = [f \in Files |-> IF f = "mcp" THEN OtherServers ELSE {}]
    /\ proc = [p \in Processes |-> Resting]
    /\ made = {} /\ announced = {}
    /\ commands = 0 /\ crashes = 0

At(p, pc) == proc[p].pc = pc
File(p) == proc[p].cmd.file
Step(p, pc) == [proc EXCEPT ![p].pc = pc]
Rest(p) == [proc EXCEPT ![p] = Resting]

\* A command is told to a process; the CLI runs one and exits.
Start(p, cmd) ==
    /\ At(p, "resting") /\ commands < MaxCommands
    /\ commands' = commands + 1
    /\ proc' = [proc EXCEPT ![p].pc = "begun", ![p].cmd = cmd,
                            ![p].before = announced \cup UNION {proc[q].key : q \in Processes}]
    /\ UNCHANGED <<files, last, made, announced, crashes>>

-----------------------------------------------------------------------------
(* The wallet                                                              *)

\* walletExists: the file is there, whatever is in it.
WalletExists == files["wallet"].state # "absent"

\* Keypair.generate, and saveSecretKey with it; encrypted given a password.
SaveSecretKey(p, password) ==
    \E k \in Keys \ made :
        /\ made' = made \cup {k}
        /\ proc' = [proc EXCEPT ![p].pc = "opening", ![p].out = {<<k, password>>},
                                ![p].alone = files["wallet"] # Torn]

InitWallet_Unchecked(p) ==
    /\ At(p, "begun") /\ proc[p].cmd.op = "init"
    /\ SaveSecretKey(p, proc[p].cmd.password)
    /\ UNCHANGED <<files, last, announced, commands, crashes>>

\* Solobank.init: unforced, it throws when there is a wallet.
InitWallet(p) ==
    LET cmd == proc[p].cmd IN
    /\ At(p, "begun") /\ cmd.op = "init"
    /\ \/ WalletExists /\ ~cmd.force /\ proc' = Rest(p) /\ made' = made
       \/ (WalletExists => cmd.force) /\ SaveSecretKey(p, cmd.password)
    /\ UNCHANGED <<files, last, announced, commands, crashes>>

\* Solobank.create: the wallet is loaded, or made first if that was asked for.
CreateAgent(p) ==
    /\ At(p, "begun") /\ proc[p].cmd.op = "agent"
    /\ proc' = IF WalletExists THEN Step(p, "loading")
               ELSE IF proc[p].cmd.create THEN Step(p, "making") ELSE Rest(p)
    /\ UNCHANGED <<files, last, made, announced, commands, crashes>>

\* The init inside create is not told of force or the password.
MakeWallet(p) ==
    /\ At(p, "making")
    /\ \/ WalletExists /\ proc' = Rest(p) /\ made' = made
       \/ ~WalletExists /\ SaveSecretKey(p, NoPassword)
    /\ UNCHANGED <<files, last, announced, commands, crashes>>

\* createPinEncryptedKeypair looks for nothing before it writes.
CreatePinEncryptedKeypair(p) ==
    /\ At(p, "begun") /\ proc[p].cmd.op = "pin"
    /\ SaveSecretKey(p, proc[p].cmd.password)
    /\ UNCHANGED <<files, last, announced, commands, crashes>>

\* decryptKeypair succeeds with the password of encryptKeypair only.
Opens(entry, password) == entry[2] \in {NoPassword, password}

\* loadSecretKey: throws for a file it cannot parse or decrypt.
LoadSecretKey(p) ==
    LET opened == {entry \in files["wallet"].data : Opens(entry, proc[p].cmd.password)} IN
    /\ At(p, "loading")
    /\ proc' = IF opened = {} THEN Rest(p)
               ELSE [proc EXCEPT ![p].pc = "agent", ![p].key = {entry[1] : entry \in opened}]
    /\ UNCHANGED <<files, last, made, announced, commands, crashes>>

\* The agent's process ends, and a server's host stops it.
StopAgent(p) ==
    /\ At(p, "agent")
    /\ proc' = Rest(p)
    /\ UNCHANGED <<files, last, made, announced, commands, crashes>>

-----------------------------------------------------------------------------
(* Files that are read, changed and written back                           *)

\* load, readConfig and loadSafeguardConfig: a file that is missing or
\* cannot be parsed is as good as an empty one.
ReadOrEmpty(f) == files[f].data

Named(S, name) == {entry \in S : entry[1] = name}

Add_Alone(S, cmd) == {cmd.entry}

\* add replaces the entry of that name; install and lock are of this kind.
Add(S, cmd) == (S \ Named(S, cmd.entry[1])) \cup {cmd.entry}

\* remove, uninstall and unlock.
Remove(S, cmd) == S \ Named(S, cmd.entry[1])

\* contacts remove and mcp uninstall do not save when there is nothing to
\* remove; unlockWallet saves all the same.
Nothing(S, cmd) == cmd.op = "remove" /\ cmd.file # "config" /\ Named(S, cmd.entry[1]) = {}

ReadFile(p) ==
    LET cmd == proc[p].cmd
        S == ReadOrEmpty(cmd.file)
    IN  /\ At(p, "begun") /\ cmd.op \in {"add", "remove"}
        /\ proc' = IF Nothing(S, cmd) THEN Rest(p)
                   ELSE [proc EXCEPT ![p].pc = "opening",
                            ![p].out = IF cmd.op = "add" THEN Add(S, cmd) ELSE Remove(S, cmd),
                            ![p].alone = files[cmd.file] # Torn]
        /\ UNCHANGED <<files, last, made, announced, commands, crashes>>

\* saveSession writes whatever there is; clearSession unlinks the file.
SaveSession(p) ==
    /\ At(p, "begun") /\ proc[p].cmd.op = "save"
    /\ proc' = [proc EXCEPT ![p].pc = "opening", ![p].out = {proc[p].cmd.password}]
    /\ UNCHANGED <<files, last, made, announced, commands, crashes>>

ClearSession(p) ==
    /\ At(p, "begun") /\ proc[p].cmd.op = "clear"
    /\ files' = [files EXCEPT !["session"] = Absent]
    /\ proc' = Rest(p)
    /\ UNCHANGED <<last, made, announced, commands, crashes>>

\* An SDK user opens the wallet with the PIN that resolvePin finds.
ResolvePin(p) ==
    LET pins == files["session"].data IN
    /\ At(p, "begun") /\ proc[p].cmd.op = "open"
    /\ proc' = IF pins = {} \/ ~WalletExists THEN Rest(p)
               ELSE [proc EXCEPT ![p].pc = "loading",
                                 ![p].cmd.password = CHOOSE pin \in pins : TRUE]
    /\ UNCHANGED <<files, last, made, announced, commands, crashes>>

-----------------------------------------------------------------------------
(* Writing                                                                 *)

Others(p, f) == {q \in Processes \ {p} : proc[q].pc # "resting" /\ proc[q].cmd.file = f}

\* The file is truncated; what others have read of it is out of date.
Open(p) ==
    LET f == File(p) IN
    /\ At(p, "opening")
    /\ files' = [files EXCEPT ![f] = Torn]
    /\ proc' = [q \in Processes |->
                   IF q = p THEN [proc[q] EXCEPT !.pc = "writing", !.mixed = FALSE]
                   ELSE IF q \in Others(p, f) THEN [proc[q] EXCEPT !.alone = FALSE]
                   ELSE proc[q]]
    /\ UNCHANGED <<last, made, announced, commands, crashes>>

\* It is filled. Over what another process wrote in the meantime, the rest of
\* the longer text may stick out.
Fill(p) ==
    LET f == File(p)
        cmd == proc[p].cmd
    IN  /\ At(p, "writing")
        /\ \E result \in {Whole(proc[p].out)} \cup (IF proc[p].mixed THEN {Torn} ELSE {}) :
              files' = [files EXCEPT ![f] = result]
        /\ last' = [last EXCEPT ![f] = proc[p].out]
        /\ announced' = announced \cup
              IF cmd.op \in {"init", "pin"} THEN {entry[1] : entry \in proc[p].out} ELSE {}
        /\ proc' = [q \in Processes |->
                       IF q = p
                       THEN IF cmd.op = "agent"
                            THEN [proc[q] EXCEPT !.pc = "loading", !.out = {}]
                            ELSE Resting
                       ELSE IF q \in Others(p, f)
                       THEN [proc[q] EXCEPT !.alone = FALSE, !.mixed = At(q, "writing")]
                       ELSE proc[q]]
        /\ UNCHANGED <<made, commands, crashes>>

\* A process is killed, or its write fails half-way.
Killed(p) ==
    /\ crashes < MaxCrashes /\ ~At(p, "resting")
    /\ crashes' = crashes + 1
    /\ proc' = Rest(p)
    /\ UNCHANGED <<files, last, made, announced, commands>>

FilesNext ==
    \E p \in Processes :
        \/ \E cmd \in FileCommands : Start(p, cmd)
        \/ InitWallet(p) \/ CreateAgent(p) \/ MakeWallet(p) \/ CreatePinEncryptedKeypair(p)
        \/ LoadSecretKey(p) \/ StopAgent(p)
        \/ ReadFile(p) \/ SaveSession(p) \/ ClearSession(p) \/ ResolvePin(p)
        \/ Open(p) \/ Fill(p) \/ Killed(p)

FilesSpec == FilesInit /\ [][FilesNext]_filesVars

-----------------------------------------------------------------------------
(* Properties                                                              *)

\* A file has entries only while it is whole, the wallet one key at most, and
\* an agent has just one.
FilesTypeOK ==
    /\ \A f \in Files : files[f].state \in {"absent", "torn", "whole"}
                          /\ (files[f].state # "whole" => files[f].data = {})
    /\ Cardinality(files["wallet"].data) <= 1
    /\ \A p \in Processes :
          /\ proc[p].pc \in {"resting", "begun", "making", "opening", "writing", "loading", "agent"}
          /\ Cardinality(proc[p].key) = IF At(p, "agent") THEN 1 ELSE 0
    /\ announced \subseteq made /\ made \subseteq Keys

Opening(p) == At(p, "opening") /\ proc'[p].pc = "writing"

\* Unless told to by --force, or by a PIN wallet's creation, which asks
\* nobody, a process never overwrites a key that somebody knew when its
\* command began: an address told by init, or an agent at work. Two commands
\* that overlap may lose one key, the one made after the other command began.
WalletsSpared ==
    [][\A p \in Processes :
          (Opening(p) /\ File(p) = "wallet" /\ ~proc[p].cmd.force /\ proc[p].cmd.op # "pin")
             => \A entry \in files["wallet"].data : entry[1] \notin proc[p].before]_filesVars

\* What a command on the address book, the hosts' MCP file or the legacy
\* configuration comes to when it read a whole file, or none, and no other
\* process touched it since: the change it was asked for and no other,
\* whatever crashed or overlapped on its way before or on other files. (Of a
\* file that a crash left torn, it keeps nothing.)
AloneIsAtomic ==
    [][\A p \in Processes :
          LET cmd == proc[p].cmd
              S == last[cmd.file]
          IN  (At(p, "writing") /\ proc'[p] = Resting /\ crashes' = crashes
                 /\ cmd.op \in {"add", "remove"} /\ proc[p].alone)
              => files'[cmd.file] = Whole({entry \in S : entry[1] # cmd.entry[1]}
                                            \cup IF cmd.op = "add" THEN {cmd.entry} ELSE {})]_filesVars

=============================================================================
