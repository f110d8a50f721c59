------------------------------ MODULE Session ------------------------------
(***************************************************************************)
(* One process of the program from its command line to its end (Run,       *)
(* interactiveMode and the handlers of cli/cli.go, the address locks of    *)
(* NewTransaction, and the settings that SetConsistency and                *)
(* UpdateTrustScore change).  Module Node has many such processes and      *)
(* takes each command to end with the database closed; this one says when  *)
(* it does.                                                                *)
(*                                                                         *)
(* External: whether another process has the database open, what wallets   *)
(* and funds there are, and what the user types; flag.Parse, for which     *)
(* "args" stands for the flags of the command, all given; a process whose  *)
(* main goroutine ended with Goexit lives on while a shard monitor ticks.  *)
(***************************************************************************)
EXTENDS Naturals, SequencesExt, FiniteSetsExt

CONSTANTS
    CommandLines,   \* the contents of os.Args, the program's name first
    Addresses,      \* the addresses of the user's wallets
    NodeIDs         \* the node IDs the user may type, "" among them

ASSUME SessionAssumption ==
    /\ CommandLines \subseteq Seq(STRING) /\ <<>> \notin CommandLines
    /\ "" \in NodeIDs

VARIABLES
    args,              \* the array of os.Args, <<>> once Run has read it
    argc,              \* the length of os.Args
    at,                \* where the loop over the global flags is
    line,              \* history: what os.Args was at first
    pc,                \* where the main goroutine is
    menu,              \* did Run enter interactiveMode?
    manage,            \* NodeManagementMode
    eof,               \* has standard input ended?
    cmd,               \* the command being run
    arg,               \* what the properties need to know of its arguments
    exists,            \* does the database exist?
    open,              \* has this process opened it?
    monitor,           \* does a shard monitor tick?
    addressLocks,      \* addressLocks of transaction.go
    NodeConsistency,   \* chain.ConsistencyMgr.NodeConsistency
    trustScores,       \* chain.trustScores, in tenths
    commitments,       \* has chain.SyncMgr a commitment?
    chosen             \* history: the level last reported to be set

arguments == <<args, argc, at, line>>
process == <<pc, menu, manage, eof>>
request == <<cmd, arg>>
database == <<exists, open, monitor>>
settings == <<NodeConsistency, trustScores, commitments, chosen>>
vars == <<arguments, process, request, database, addressLocks, settings>>

(* All but pc.                                                              *)
rest == <<arguments, menu, manage, eof, request, database, addressLocks, settings>>

-----------------------------------------------------------------------------
(* The global flags.  The loop ranges over the slice as it was, while every *)
(* flag it finds is cut out of the same array with its value: what follows  *)
(* moves down two places, and the last two places keep what they had.       *)

GlobalFlags == {"-consistency", "-node", "-trustscore"}

Numbers == {"0.2", "0.9"}     \* the tokens that parse as a number

IsFlag(i) == args[i] \in GlobalFlags

CutWithoutValue ==      \* faulty: leaves the value behind
    /\ args' = [k \in DOMAIN args |-> IF k \in at .. argc - 1 THEN args[k + 1] ELSE args[k]]
    /\ argc' = argc - 1

Cut ==
    /\ args' = [k \in DOMAIN args |-> IF k \in at .. argc - 2 THEN args[k + 2] ELSE args[k]]
    /\ argc' = argc - 2

HandleFlag ==
    /\ pc = "flags" /\ at <= Len(args)
    /\ IF IsFlag(at)
       THEN /\ at + 1 <= argc
            /\ args[at] = "-trustscore" => args[at + 1] \in Numbers
            /\ Cut
       ELSE UNCHANGED <<args, argc>>
    /\ at' = at + 1
    /\ UNCHANGED <<line, process, request, database, addressLocks, settings>>

(* The index is out of range, or the value is not a number.                 *)
FlagPanic ==
    /\ pc = "flags" /\ at <= Len(args)
    /\ IsFlag(at)
    /\ at + 1 <= argc => args[at] = "-trustscore" /\ args[at + 1] \notin Numbers
    /\ pc' = "ended"
    /\ UNCHANGED rest

-----------------------------------------------------------------------------
(* Commands.                                                                *)

WalletCommands == {"createwallet", "listaddresses"}
Readers == {"getbalance", "printchain", "validatechain"}
Commands == WalletCommands \cup Readers
    \cup {"createblockchain", "send", "addfunds", "setconsistency", "settrust"}

(* "status" is viewNetworkStatus, which only the menu has.                  *)
MainMenu == Commands \ {"setconsistency", "settrust"}
NodeMenu == {"setconsistency", "settrust", "status"}

(* Those the menu asks nothing further for.                                 *)
Unasked == WalletCommands \cup {"printchain", "validatechain", "status"}

(* The levels of setconsistency, the command and the menu.                  *)
Levels == {"strong", "causal", "eventual"}

Default(words, flag, value) ==
    IF \E k \in 3 .. Len(words) - 1 : words[k] = flag
    THEN words[Min({k \in 3 .. Len(words) - 1 : words[k] = flag}) + 1] ELSE value

(* The address of send, the level, or the node ID; none of the others is    *)
(* looked at.                                                               *)
Argument(words) ==
    IF Contains(words, "send") THEN Addresses
    ELSE IF Contains(words, "setconsistency") THEN {Default(words, "-level", "")}
    ELSE IF Contains(words, "settrust") THEN {Default(words, "-node", "")}
    ELSE {""}

Answers ==
    CASE cmd = "send" -> Addresses
      [] cmd = "setconsistency" -> Levels
      [] cmd = "settrust" -> NodeIDs
      [] OTHER -> {""}

(* Does Run call the handler, or does it end in a usage message, in the     *)
(* panic about the missing level, or in flag's exit?                        *)
Complete(words) ==
    CASE words[2] \in WalletCommands \cup {"printchain", "validatechain", "settrust"} -> TRUE
      [] words[2] = "setconsistency" -> Default(words, "-level", "") # ""
      [] OTHER -> Contains(words, "args")

End == pc' = "ended"

(* What follows a command: the menu waits for Enter; main returns, or, in   *)
(* settrust, only its goroutine ends and the monitor ticks on.              *)
Return ==
    pc' = IF menu THEN "enter" ELSE IF cmd = "settrust" /\ monitor THEN "parked" ELSE "ended"

Begin(c) == cmd' = c /\ pc' = IF c \in WalletCommands THEN "wallets" ELSE "open"

-----------------------------------------------------------------------------
(* Run after the loop.                                                      *)
Run ==
    /\ pc = "flags" /\ at > Len(args)
    /\ LET words == SubSeq(args, 1, argc)
       IN  IF argc < 2 \/ words[2] \notin Commands
           THEN pc' = "menu" /\ menu' = TRUE /\ UNCHANGED request
           ELSE /\ IF Complete(words) THEN Begin(words[2]) ELSE End /\ cmd' = words[2]
                /\ arg' \in Argument(words)
                /\ UNCHANGED menu
    /\ args' = <<>> /\ line' = <<>> /\ argc' = 0 /\ at' = 1
    /\ UNCHANGED <<manage, eof, database, addressLocks, settings>>

(* The interactive menu.  Without input every answer is "".                 *)
ReadChoice(c) ==
    /\ pc = "menu" /\ ~eof
    /\ c \in IF manage THEN NodeMenu ELSE MainMenu
    /\ IF c \in Unasked THEN Begin(c) ELSE cmd' = c /\ pc' = "ask"
    /\ UNCHANGED <<arguments, menu, manage, eof, arg, database, addressLocks, settings>>

SwitchMenu ==
    /\ pc = "menu" /\ ~eof
    /\ manage' = ~manage
    /\ pc' = "enter"
    /\ UNCHANGED <<arguments, menu, eof, request, database, addressLocks, settings>>

Exit ==
    /\ pc = "menu" /\ ~eof /\ ~manage
    /\ End
    /\ UNCHANGED rest

InvalidOption ==
    /\ pc = "menu"
    /\ pc' = "enter"
    /\ UNCHANGED rest

WaitForEnter ==
    /\ pc = "enter"
    /\ pc' = "menu"
    /\ UNCHANGED rest

(* The answers to a handler's questions, all of them good ...               *)
Ask ==
    /\ pc = "ask" /\ ~eof
    /\ pc' = "open"
    /\ arg' \in Answers
    /\ UNCHANGED <<arguments, menu, manage, eof, cmd, database, addressLocks, settings>>

AskAgain ==      \* faulty: repeats the question until the answer is good
    /\ pc = "ask"
    /\ UNCHANGED vars

(* ... or not: no wallet to choose from, an invalid choice, 0, not a number.*)
Cancel ==
    /\ pc = "ask"
    /\ pc' = "enter"
    /\ UNCHANGED rest

(* The user closes standard input.                                          *)
EndOfInput ==
    /\ pc \in {"menu", "ask", "enter"}
    /\ eof' = TRUE
    /\ UNCHANGED <<arguments, pc, menu, manage, request, database, addressLocks, settings>>

-----------------------------------------------------------------------------
(* The handlers.                                                            *)

Wallet ==
    /\ pc = "wallets"
    /\ Return
    /\ UNCHANGED rest

(* An invalid address or, also from the menu, nothing to add.               *)
Reject ==
    /\ pc = "open"
    /\ \/ cmd = "addfunds"
       \/ ~menu /\ cmd \in {"createblockchain", "getbalance", "send"}
    /\ End
    /\ UNCHANGED rest

(* Badger refuses while another process has the database.                   *)
OpenRefused ==
    /\ pc = "open"
    /\ exists \/ cmd = "createblockchain"
    /\ End
    /\ UNCHANGED rest

(* InitBlockChain over a database, or ContinueBlockChain without one: the   *)
(* process exits.  Only the menu asks before it creates.                    *)
WrongDatabase ==
    /\ pc = "open"
    /\ exists = (cmd = "createblockchain")
    /\ IF menu /\ exists THEN Return ELSE End
    /\ UNCHANGED rest

(* A new chain object, with settings of its own.                            *)
OpenChain ==
    /\ pc = "open"
    /\ exists # (cmd = "createblockchain")
    /\ exists' = TRUE /\ open' = TRUE /\ monitor' = TRUE
    /\ NodeConsistency' = << >> /\ trustScores' = << >> /\ commitments' = FALSE
    /\ pc' = IF cmd = "createblockchain" THEN "close" ELSE "work"
    /\ UNCHANGED <<arguments, menu, manage, eof, request, addressLocks, chosen>>

Read ==
    /\ pc = "work" /\ cmd \in Readers \cup {"status"}
    /\ pc' = "close"
    /\ UNCHANGED rest

(* NewTransaction: a locked address is a panic.                             *)
LockAddress ==
    /\ pc = "work" /\ cmd = "send"
    /\ IF arg \in addressLocks
       THEN End /\ UNCHANGED addressLocks
       ELSE pc' = "transact" /\ addressLocks' = addressLocks \cup {arg}
    /\ UNCHANGED <<arguments, menu, manage, eof, request, database, settings>>

NewTransactionKeepsLock ==    \* faulty: no deferred UnlockAddress
    /\ pc = "transact"
    /\ pc' \in {"mine", "ended"}
    /\ UNCHANGED rest

(* It returns and unlocks, or unlocks and panics for lack of funds.         *)
NewTransaction ==
    /\ pc = "transact"
    /\ pc' \in {"mine", "ended"}
    /\ addressLocks' = addressLocks \ {arg}
    /\ UNCHANGED <<arguments, menu, manage, eof, request, database, settings>>

Coinbase ==
    /\ pc = "work" /\ cmd = "addfunds"
    /\ pc' = "mine"
    /\ UNCHANGED rest

(* generateNodeID makes the same ID of zeros every time.                    *)
NodeID == "0000"

GetConsistencyLevel ==
    IF NodeID \in DOMAIN NodeConsistency THEN NodeConsistency[NodeID] ELSE "causal"

(* The block is stored, and committed to at the level "strong", or it fails *)
(* verification before that: a panic.                                       *)
AddBlock ==
    /\ pc = "mine"
    /\ \/ pc' = "close" /\ commitments' = (GetConsistencyLevel = "strong")
       \/ End /\ UNCHANGED commitments
    /\ UNCHANGED <<arguments, menu, manage, eof, request, database, addressLocks,
                   NodeConsistency, trustScores, chosen>>

(* Every node that has a level gets the new one.  The command knows no      *)
(* "causal" and panics after closing.                                       *)
SetConsistency ==
    /\ pc = "work" /\ cmd = "setconsistency"
    /\ IF menu \/ arg \in {"strong", "eventual"}
       THEN /\ NodeConsistency' = [n \in DOMAIN NodeConsistency |-> arg]
            /\ chosen' = arg
            /\ pc' = "close"
            /\ UNCHANGED open
       ELSE /\ End
            /\ open' = FALSE
            /\ UNCHANGED <<NodeConsistency, chosen>>
    /\ UNCHANGED <<arguments, menu, manage, eof, request, exists, monitor, addressLocks,
                   trustScores, commitments>>

SetTrustUnbounded(success) ==      \* faulty: forgets the bounds
    /\ pc = "work" /\ cmd = "settrust"
    /\ trustScores' = [n \in {arg} |-> IF success THEN 1 ELSE 0 - 2]
    /\ pc' = "close"
    /\ UNCHANGED <<arguments, menu, manage, eof, request, database, addressLocks,
                   NodeConsistency, commitments, chosen>>

(* UpdateTrustScore, with success when the score typed is 0.5 or more.      *)
SetTrust(success) ==
    LET current == IF arg \in DOMAIN trustScores THEN trustScores[arg] ELSE 0
        updated == IF success THEN Min({current + 1, 10})
                   ELSE IF current < 2 THEN 0 ELSE current - 2
    IN  /\ pc = "work" /\ cmd = "settrust"
        /\ trustScores' = [n \in DOMAIN trustScores \cup {arg} |->
                              IF n = arg THEN updated ELSE trustScores[n]]
        /\ pc' = "close"
        /\ UNCHANGED <<arguments, menu, manage, eof, request, database, addressLocks,
                       NodeConsistency, commitments, chosen>>

CloseUnlessCreated ==      \* faulty: the new chain is not closed
    /\ pc = "close"
    /\ open' = (cmd = "createblockchain")
    /\ Return
    /\ UNCHANGED <<arguments, menu, manage, eof, request, exists, monitor, addressLocks, settings>>

(* Database.Close, deferred or not.                                         *)
Close ==
    /\ pc = "close"
    /\ open' = FALSE
    /\ Return
    /\ UNCHANGED <<arguments, menu, manage, eof, request, exists, monitor, addressLocks, settings>>

-----------------------------------------------------------------------------
Init ==
    /\ line \in CommandLines
    /\ args = line /\ argc = Len(line) /\ at = 1
    /\ pc = "flags"
    /\ menu = FALSE /\ manage = FALSE /\ eof = FALSE
    /\ cmd = "" /\ arg = ""
    /\ exists \in BOOLEAN /\ open = FALSE /\ monitor = FALSE
    /\ addressLocks = {}
    /\ NodeConsistency = << >> /\ trustScores = << >> /\ commitments = FALSE /\ chosen = ""

Interactive ==
    \/ \E c \in MainMenu \cup NodeMenu : ReadChoice(c)
    \/ SwitchMenu \/ Exit \/ InvalidOption \/ WaitForEnter \/ Ask \/ Cancel

Handler ==
    \/ Wallet \/ Reject \/ OpenRefused \/ WrongDatabase \/ OpenChain
    \/ Read \/ LockAddress \/ NewTransaction \/ Coinbase \/ AddBlock
    \/ SetConsistency \/ (\E success \in BOOLEAN : SetTrust(success)) \/ Close

Next == HandleFlag \/ FlagPanic \/ Run \/ Interactive \/ Handler \/ EndOfInput

(* The main goroutine runs, but for the input it waits for; once that has   *)
(* ended it does not wait any more.                                         *)
Spec == Init /\ [][Next]_vars /\ WF_vars(HandleFlag \/ FlagPanic \/ Run \/ Handler \/ (eof /\ Interactive))

-----------------------------------------------------------------------------
Working == {"open", "wallets", "work", "transact", "mine", "close"}
Waiting == {"menu", "ask", "enter"}

(* Types, and the database is open only while a command works on it.        *)
TypeOK ==
    /\ pc \in Working \cup Waiting \cup {"flags", "ended", "parked"}
    /\ Len(args) = Len(line) /\ argc \in 0 .. Len(args) /\ at \in 1 .. Len(args) + 1
    /\ menu \in BOOLEAN /\ manage \in BOOLEAN /\ eof \in BOOLEAN
    /\ cmd \in Commands \cup {"", "status"}
    /\ exists \in BOOLEAN /\ open \in BOOLEAN /\ monitor \in BOOLEAN
    /\ addressLocks \subseteq Addresses
    /\ Range(NodeConsistency) \subseteq Levels
    /\ Range(trustScores) \subseteq 0 .. 10
    /\ commitments \in BOOLEAN /\ chosen \in Levels \cup {""}
    /\ pc \in {"work", "transact", "mine", "close"} => open /\ exists /\ monitor

(* Run works on the line without the flags that the loop took, each with    *)
(* its value, and on all the rest in its order: what is kept has moved down *)
(* two places for every flag before it.  Taken is a flag unless it is the   *)
(* value of another or stands right behind one's value, where the loop does *)
(* not look.  Flags that stand apart are all taken and never end in a panic;*)
(* others may, for the loop also looks at what is left behind the slice.    *)
Places == {i \in DOMAIN line : line[i] \in GlobalFlags}

TakenAre(taken) == \A i \in Places : i \in taken <=> {i - 1, i - 2} \cap taken = {}

Kept(taken) == {i \in DOMAIN line : {i, i - 1} \cap taken = {}}

Before(taken, i) == Cardinality({p \in taken : p < i})

Separate ==
    /\ \A i \in Places :
          /\ i < Len(line)
          /\ line[i] = "-trustscore" => line[i + 1] \in Numbers
          /\ \A j \in Places : i < j => j - i >= 3
    /\ Cardinality(Places) > 1 => \A i \in Places : i + 1 < Len(line)

FlagsStripped ==
    line # <<>> =>
        /\ Separate => pc = "flags"
        /\ pc = "flags" /\ at > Len(line) => \E taken \in SUBSET Places :
              /\ TakenAre(taken)
              /\ argc = Len(line) - 2 * Cardinality(taken)
              /\ \A i \in Kept(taken) : args[i - 2 * Before(taken, i)] = line[i]

(* No send of a session is refused as a double spend because of an earlier  *)
(* one: NewTransaction always finds its address unlocked.                   *)
NeverLockedOut == pc = "work" => addressLocks = {}

(* A process that waits for its user, or that settrust leaves behind for    *)
(* ever, does not keep other processes out of the database.                 *)
ClosedWhileWaiting == pc \in Waiting \cup {"parked"} => ~open

(* Once standard input has ended no command starts for lack of an answer,   *)
(* and the one that runs ends: the program is back in its menu for good.    *)
NothingAfterEnd ==
    /\ [][eof /\ pc \in Waiting => pc' \in Waiting]_vars
    /\ eof ~> [](pc \in {"menu", "enter", "ended"})

(* "setconsistency [strong|eventual] - Set consistency mode": a block that  *)
(* is added after the user was told that the level is set is added at that  *)
(* level, with a commitment at "strong" and without one at the others.      *)
LevelTakesEffect ==
    pc = "close" /\ cmd \in {"send", "addfunds"} /\ chosen # "" =>
        (commitments <=> chosen = "strong")
=============================================================================
