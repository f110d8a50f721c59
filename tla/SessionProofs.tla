--------------------------- MODULE SessionProofs ---------------------------
(***************************************************************************)
(* Theorems about module Session, for every command line, every set of     *)
(* addresses and every sequence of inputs: when locks are held and the     *)
(* database is open, the types, and what the loop over the global flags    *)
(* leaves of the command line.                                             *)
(***************************************************************************)
EXTENDS Session, FiniteSetTheorems, TLAPS

(* A lock is held only within NewTransaction, by the sender; the database   *)
(* is open only in the steps between OpenChain and Close, or when the       *)
(* process has ended; and no node has a level that could be set.            *)
Locks == addressLocks = IF pc = "transact" THEN {arg} ELSE {}

Handle == open => pc \in {"work", "transact", "mine", "close", "ended"}

NoLevels == DOMAIN NodeConsistency = {}

Inv == (pc # "ended" => Locks) /\ Handle /\ NoLevels

-----------------------------------------------------------------------------
(* The steps outside the handlers.                                          *)
LEMMA FlagsKeepInv ==
  ASSUME Inv, HandleFlag \/ FlagPanic \/ Run
  PROVE  Inv'
<1>1. CASE HandleFlag
  BY <1>1 DEF HandleFlag, Inv, Locks, Handle, NoLevels, process, request, database, settings
<1>2. CASE FlagPanic
  BY <1>2 DEF FlagPanic, rest, Inv, Locks, Handle, NoLevels, database, settings
<1>3. CASE Run
  <2>1. pc = "flags" /\ pc' \in {"menu", "ended", "wallets", "open"}
    BY <1>3 DEF Run, End, Begin
  <2>2. UNCHANGED <<open, addressLocks, NodeConsistency>>
    BY <1>3 DEF Run, database, settings
  <2>3. QED BY <2>1, <2>2 DEF Inv, Locks, Handle, NoLevels
<1>4. QED BY <1>1, <1>2, <1>3

LEMMA MenuKeepsInv ==
  ASSUME Inv, Interactive \/ EndOfInput
  PROVE  Inv'
<1>1. /\ pc \in {"menu", "ask", "enter"}
      /\ pc' \in {"menu", "ask", "enter", "ended", "wallets", "open"}
      /\ UNCHANGED <<open, addressLocks, NodeConsistency>>
  BY DEF Interactive, ReadChoice, SwitchMenu, Exit, InvalidOption, WaitForEnter, Ask, Cancel,
         EndOfInput, Begin, End, rest, database, settings
<1>2. QED BY <1>1 DEF Inv, Locks, Handle, NoLevels

(* The steps of a handler.                                                  *)
LEMMA HandlerKeepsInv ==
  ASSUME Inv, Handler
  PROVE  Inv'
<1>1. CASE Wallet
  BY <1>1 DEF Wallet, Return, rest, Inv, Locks, Handle, NoLevels, database, settings
<1>2. CASE Reject
  BY <1>2 DEF Reject, End, rest, Inv, Locks, Handle, NoLevels, database, settings
<1>3. CASE OpenRefused
  BY <1>3 DEF OpenRefused, End, rest, Inv, Locks, Handle, NoLevels, database, settings
<1>4. CASE WrongDatabase
  BY <1>4 DEF WrongDatabase, Return, End, rest, Inv, Locks, Handle, NoLevels, database, settings
<1>5. CASE OpenChain
  <2>1. /\ pc = "open" /\ pc' \in {"close", "work"}
        /\ DOMAIN NodeConsistency' = {}
        /\ UNCHANGED addressLocks
    BY <1>5 DEF OpenChain
  <2>2. QED BY <2>1 DEF Inv, Locks, Handle, NoLevels
<1>6. CASE Read
  BY <1>6 DEF Read, rest, Inv, Locks, Handle, NoLevels, database, settings
<1>7. CASE LockAddress
  BY <1>7 DEF LockAddress, End, Inv, Locks, Handle, NoLevels, request, database, settings
<1>8. CASE NewTransaction
  BY <1>8 DEF NewTransaction, Inv, Locks, Handle, NoLevels, request, database, settings
<1>9. CASE Coinbase
  BY <1>9 DEF Coinbase, rest, Inv, Locks, Handle, NoLevels, database, settings
<1>10. CASE AddBlock
  <2>1. /\ pc = "mine" /\ pc' \in {"close", "ended"}
        /\ UNCHANGED <<open, addressLocks, NodeConsistency>>
    BY <1>10 DEF AddBlock, End, database
  <2>2. QED BY <2>1 DEF Inv, Locks, Handle, NoLevels
<1>11. CASE SetConsistency
  <2>1. DOMAIN NodeConsistency' = {}
    BY <1>11 DEF SetConsistency, Inv, NoLevels
  <2>2. /\ pc = "work" /\ pc' \in {"close", "ended"}
        /\ UNCHANGED addressLocks
    BY <1>11 DEF SetConsistency, End
  <2>3. QED BY <2>1, <2>2 DEF Inv, Locks, Handle, NoLevels
<1>12. ASSUME NEW success \in BOOLEAN, SetTrust(success) PROVE Inv'
  <2>1. /\ pc = "work" /\ pc' = "close"
        /\ UNCHANGED <<open, addressLocks, NodeConsistency>>
    BY <1>12 DEF SetTrust, database
  <2>2. QED BY <2>1 DEF Inv, Locks, Handle, NoLevels
<1>13. CASE Close
  BY <1>13 DEF Close, Return, Inv, Locks, Handle, NoLevels, settings
<1>14. QED BY <1>1, <1>2, <1>3, <1>4, <1>5, <1>6, <1>7, <1>8, <1>9, <1>10, <1>11, <1>12, <1>13
           DEF Handler

LEMMA InvInductive == Spec => []Inv
<1>1. Init => Inv
  <2>1. DOMAIN << >> = {}
    OBVIOUS
  <2>2. QED BY <2>1 DEF Init, Inv, Locks, Handle, NoLevels
<1>2. Inv /\ [Next]_vars => Inv'
  <2>1. ASSUME Inv, UNCHANGED vars PROVE Inv'
    BY <2>1 DEF vars, process, request, database, settings, Inv, Locks, Handle, NoLevels
  <2>2. QED BY <2>1, FlagsKeepInv, MenuKeepsInv, HandlerKeepsInv DEF Next
<1>3. QED BY <1>1, <1>2, PTL DEF Spec

-----------------------------------------------------------------------------
(* Every send of a session finds its address unlocked: the lock, which the  *)
(* comment keeps until the transaction is mined, never refuses anything.    *)
THEOREM SendsNeverLockedOut == Spec => []NeverLockedOut
<1>1. Inv => NeverLockedOut
  BY DEF Inv, Locks, NeverLockedOut
<1>2. QED BY <1>1, InvInductive, PTL

(* A process that waits, for its user or for ever, has closed the database. *)
THEOREM WaitingIsClosed == Spec => []ClosedWhileWaiting
<1>1. Inv => ClosedWhileWaiting
  BY DEF Inv, Handle, ClosedWhileWaiting, Waiting
<1>2. QED BY <1>1, InvInductive, PTL

-----------------------------------------------------------------------------
(* Types.  The command line stays a sequence of tokens while flags are cut  *)
(* out of it, and whoever sends does so from an address of the user.        *)
LineTypes == args \in Seq(STRING) /\ line \in Seq(STRING)

Sender ==
    /\ pc = "flags" => ~menu
    /\ pc \in {"open", "work", "transact", "mine", "close"} =>
          /\ cmd = "send" => arg \in Addresses
          /\ cmd = "setconsistency" /\ menu => arg \in Levels

Types == TypeOK /\ LineTypes /\ Sender

(* Cutting a flag out of the array keeps its length.                        *)
LEMMA CutFacts ==
  ASSUME args \in Seq(STRING), argc \in 0 .. Len(args), at \in 1 .. Len(args), at + 1 <= argc, Cut
  PROVE  /\ args' \in Seq(STRING) /\ Len(args') = Len(args)
         /\ argc' \in 0 .. Len(args) /\ argc' = argc - 2
         /\ \A k \in 1 .. Len(args) :
               args'[k] = IF k \in at .. argc - 2 THEN args[k + 2] ELSE args[k]
<1> DEFINE n == Len(args)
<1>1. n \in Nat /\ DOMAIN args = 1 .. n /\ \A k \in 1 .. n : args[k] \in STRING
  OBVIOUS
<1>2. args' = [k \in 1 .. n |-> IF k \in at .. argc - 2 THEN args[k + 2] ELSE args[k]]
  BY <1>1 DEF Cut
<1> HIDE DEF n
<1>3. \A k \in at .. argc - 2 : k + 2 \in 1 .. n
  BY <1>1 DEF n
<1>4. \A k \in 1 .. n : (IF k \in at .. argc - 2 THEN args[k + 2] ELSE args[k]) \in STRING
  BY <1>1, <1>3
<1>5. args' \in Seq(STRING) /\ Len(args') = n
  BY <1>1, <1>2, <1>4
<1>6. argc' = argc - 2 /\ argc' \in 0 .. n
  BY DEF Cut, n
<1>7. QED BY <1>2, <1>5, <1>6 DEF n

(* What a step of the loop does to the command line.                        *)
LEMMA HandleFlagFacts ==
  ASSUME Types, HandleFlag
  PROVE  /\ args' \in Seq(STRING) /\ Len(args') = Len(args)
         /\ argc' \in 0 .. Len(args) /\ at' \in 1 .. Len(args) + 1
<1>1. /\ args \in Seq(STRING) /\ Len(args) \in Nat
      /\ at \in 1 .. Len(args) /\ argc \in 0 .. Len(args) /\ at' = at + 1
  <2>1. args \in Seq(STRING) /\ argc \in 0 .. Len(args) /\ at \in 1 .. Len(args) + 1
    BY DEF Types, TypeOK, LineTypes
  <2>2. at <= Len(args) /\ at' = at + 1
    BY DEF HandleFlag
  <2>3. QED BY <2>1, <2>2
<1>2. CASE IsFlag(at)
  <2>1. at + 1 <= argc /\ Cut
    BY <1>2 DEF HandleFlag
  <2>2. QED BY <1>1, <2>1, CutFacts
<1>3. CASE ~IsFlag(at)
  BY <1>1, <1>3 DEF HandleFlag
<1>4. QED BY <1>2, <1>3

(* Steps that keep the settings keep the types, if the rest is well typed.  *)
LEMMA KeepsTypeOK ==
  ASSUME Types,
         Len(args') = Len(line') /\ argc' \in 0 .. Len(args') /\ at' \in 1 .. Len(args') + 1,
         UNCHANGED <<NodeConsistency, trustScores, commitments, chosen>>,
         \/ UNCHANGED <<pc, menu, manage, eof, cmd, exists, open, monitor, addressLocks>>
         \/ /\ pc' \in Working \cup Waiting \cup {"flags", "ended", "parked"}
            /\ pc' \notin {"work", "transact", "mine", "close"}
            /\ menu' \in BOOLEAN /\ manage' \in BOOLEAN /\ eof' \in BOOLEAN
            /\ cmd' \in Commands \cup {"", "status"}
            /\ exists' \in BOOLEAN /\ open' \in BOOLEAN /\ monitor' \in BOOLEAN
            /\ addressLocks' \subseteq Addresses
  PROVE  TypeOK'
<1>1. /\ Range(NodeConsistency') \subseteq Levels
      /\ Range(trustScores') \subseteq 0 .. 10
      /\ commitments' \in BOOLEAN /\ chosen' \in Levels \cup {""}
  BY DEF Types, TypeOK
<1>2. /\ pc' \in Working \cup Waiting \cup {"flags", "ended", "parked"}
      /\ menu' \in BOOLEAN /\ manage' \in BOOLEAN /\ eof' \in BOOLEAN
      /\ cmd' \in Commands \cup {"", "status"}
      /\ exists' \in BOOLEAN /\ open' \in BOOLEAN /\ monitor' \in BOOLEAN
      /\ addressLocks' \subseteq Addresses
      /\ pc' \in {"work", "transact", "mine", "close"} => open' /\ exists' /\ monitor'
  BY DEF Types, TypeOK
<1>3. QED BY <1>1, <1>2 DEF TypeOK

LEMMA FlagsKeepTypes ==
  ASSUME Types, HandleFlag \/ FlagPanic \/ Run
  PROVE  Types'
<1>1. CASE HandleFlag
  <2>1. UNCHANGED <<line, process, request, database, addressLocks, settings>>
    BY <1>1 DEF HandleFlag
  <2>2. /\ args' \in Seq(STRING) /\ Len(args') = Len(args)
        /\ argc' \in 0 .. Len(args') /\ at' \in 1 .. Len(args') + 1
    BY <1>1, HandleFlagFacts
  <2>3. Sender' /\ LineTypes'
    BY <2>1, <2>2 DEF Types, LineTypes, Sender, process, request
  <2>4. Len(line') = Len(line) /\ Len(args) = Len(line)
    BY <2>1 DEF Types, TypeOK
  <2>5. TypeOK'
    <3>1. Len(args') = Len(line') /\ argc' \in 0 .. Len(args') /\ at' \in 1 .. Len(args') + 1
      BY <2>1, <2>2, <2>4 DEF Types, TypeOK
    <3>2. UNCHANGED <<pc, menu, manage, eof, cmd, exists, open, monitor, addressLocks,
                      NodeConsistency, trustScores, commitments, chosen>>
      BY <2>1 DEF process, request, database, settings
    <3>3. QED BY <3>1, <3>2, KeepsTypeOK
  <2>6. QED BY <2>3, <2>5 DEF Types
<1>2. CASE FlagPanic
  BY <1>2 DEF FlagPanic, rest, Types, TypeOK, LineTypes, Sender, arguments, request, database, settings
<1>3. CASE Run
  <2> DEFINE words == SubSeq(args, 1, argc)
  <2>1. /\ pc = "flags" /\ args' = <<>> /\ line' = <<>> /\ argc' = 0 /\ at' = 1
        /\ UNCHANGED <<manage, eof, exists, open, monitor, addressLocks,
                       NodeConsistency, trustScores, commitments, chosen>>
    BY <1>3 DEF Run, database, settings
  <2>2. args' \in Seq(STRING) /\ line' \in Seq(STRING) /\ Len(args') = 0 /\ Len(line') = 0
    BY <2>1
  <2>3. CASE argc < 2 \/ words[2] \notin Commands
    <3>1. pc' = "menu" /\ menu' = TRUE /\ UNCHANGED <<cmd, arg>>
      BY <1>3, <2>3 DEF Run, request
    <3>2. /\ LineTypes' /\ Sender'
          /\ Len(args') = Len(line') /\ argc' \in 0 .. Len(args') /\ at' \in 1 .. Len(args') + 1
      BY <2>1, <2>2, <3>1 DEF LineTypes, Sender
    <3>3. QED BY <2>1, <3>1, <3>2 DEF Types, TypeOK, Waiting, Working
  <2>4. CASE ~(argc < 2 \/ words[2] \notin Commands)
    <3>1. /\ pc' \in {"wallets", "open", "ended"} /\ menu' = menu /\ ~menu
          /\ cmd' = words[2] /\ words[2] \in Commands
          /\ arg' \in Argument(words)
      BY <1>3, <2>4 DEF Run, Begin, End, Types, Sender
    <3>2. words[2] = "send" => arg' \in Addresses
      <4>1. argc \in Nat /\ argc >= 2 /\ argc <= Len(args) /\ args \in Seq(STRING)
        <5>1. argc \in 0 .. Len(args) /\ args \in Seq(STRING)
          BY DEF Types, TypeOK, LineTypes
        <5>2. QED BY <2>4, <5>1
      <4>2. Len(words) = argc
        BY <4>1
      <4>3. words[2] = "send" => Contains(words, "send")
        BY <4>1, <4>2 DEF Contains
      <4>4. QED BY <3>1, <4>3 DEF Argument
    <3>3. /\ LineTypes' /\ Sender'
          /\ Len(args') = Len(line') /\ argc' \in 0 .. Len(args') /\ at' \in 1 .. Len(args') + 1
      <4>1. /\ Len(args') = Len(line') /\ argc' \in 0 .. Len(args') /\ at' \in 1 .. Len(args') + 1
        BY <2>1, <2>2
      <4> HIDE DEF words
      <4>2. Sender'
        BY <3>1, <3>2 DEF Sender
      <4>3. QED BY <2>2, <4>1, <4>2 DEF LineTypes
    <3>4. QED BY <2>1, <3>1, <3>3 DEF Types, TypeOK, Waiting, Working
  <2>5. QED BY <2>3, <2>4
<1>4. QED BY <1>1, <1>2, <1>3

(* Which steps the menu and the handlers take.                              *)
LEMMA MenuSteps ==
  ASSUME Interactive \/ EndOfInput
  PROVE  pc \in Waiting /\ pc' # "flags" /\ UNCHANGED <<arguments, menu, database, addressLocks, settings>>
BY DEF Interactive, ReadChoice, SwitchMenu, Exit, InvalidOption, WaitForEnter, Ask, Cancel,
       EndOfInput, Begin, End, rest, Waiting

LEMMA HandlerSteps ==
  ASSUME Handler
  PROVE  pc \in Working /\ pc' # "flags" /\ UNCHANGED <<arguments, menu, manage, eof, request>>
BY DEF Handler, Wallet, Reject, OpenRefused, WrongDatabase, OpenChain, Read, LockAddress,
       NewTransaction, Coinbase, AddBlock, SetConsistency, SetTrust, Close, Return, End, rest,
       Working

LEMMA MenuKeepsTypes ==
  ASSUME Types, Interactive \/ EndOfInput
  PROVE  Types'
<1>1. CASE Ask
  <2>1. (cmd = "send" => arg' \in Addresses) /\ (cmd = "setconsistency" => arg' \in Levels)
    BY <1>1 DEF Ask, Answers
  <2>2. QED BY <1>1, <2>1 DEF Ask, Types, TypeOK, LineTypes, Sender, Working, arguments, database, settings
<1>2. CASE Interactive /\ ~Ask
  <2>1. /\ pc \in Waiting
        /\ pc' \in {"menu", "ask", "enter", "ended", "wallets", "open"}
        /\ UNCHANGED <<arguments, menu, eof, arg, database, addressLocks, settings>>
        /\ manage' \in BOOLEAN
        /\ \/ cmd' = cmd /\ pc' # "open"
           \/ cmd' \in MainMenu \cup NodeMenu /\ (pc' = "open" => cmd' \notin {"send", "setconsistency"})
    BY <1>2 DEF Interactive, ReadChoice, SwitchMenu, Exit, InvalidOption, WaitForEnter, Cancel,
           Begin, End, rest, Types, TypeOK, Unasked, WalletCommands, request, Waiting
  <2>2. cmd' \in Commands \cup {"", "status"}
    BY <2>1 DEF Types, TypeOK, MainMenu, NodeMenu, Commands
  <2>3. LineTypes' /\ Sender'
    BY <2>1 DEF Types, LineTypes, Sender, Waiting, arguments
  <2>4. pc' \in Working \cup Waiting \cup {"flags", "ended", "parked"}
    BY <2>1 DEF Working, Waiting
  <2>5. pc' \notin {"work", "transact", "mine", "close"}
    BY <2>1
  <2>6. TypeOK'
    <3>1. UNCHANGED <<args, argc, at, line, menu, eof, exists, open, monitor, addressLocks,
                      NodeConsistency, trustScores, commitments, chosen>>
      BY <2>1 DEF arguments, database, settings
    <3>2. /\ UNCHANGED <<NodeConsistency, trustScores, commitments, chosen>>
          /\ Len(args') = Len(line') /\ argc' \in 0 .. Len(args') /\ at' \in 1 .. Len(args') + 1
      BY <3>1 DEF Types, TypeOK
    <3>3. /\ menu' \in BOOLEAN /\ manage' \in BOOLEAN /\ eof' \in BOOLEAN
          /\ exists' \in BOOLEAN /\ open' \in BOOLEAN /\ monitor' \in BOOLEAN
          /\ addressLocks' \subseteq Addresses
      BY <2>1, <3>1 DEF Types, TypeOK
    <3>4. QED BY <2>2, <2>4, <2>5, <3>2, <3>3, KeepsTypeOK
  <2>7. QED BY <2>3, <2>6 DEF Types
<1>3. CASE EndOfInput
  <2>1. /\ UNCHANGED <<args, argc, at, line, pc, menu, manage, cmd, arg>> /\ eof' = TRUE
        /\ UNCHANGED <<exists, open, monitor, addressLocks>>
        /\ UNCHANGED <<NodeConsistency, trustScores, commitments, chosen>>
        /\ pc \in Waiting
    BY <1>3 DEF EndOfInput, arguments, request, database, settings, Waiting
  <2>2. LineTypes' /\ Sender'
    BY <2>1 DEF Types, LineTypes, Sender
  <2>3. Len(args') = Len(line') /\ argc' \in 0 .. Len(args') /\ at' \in 1 .. Len(args') + 1
    BY <2>1 DEF Types, TypeOK
  <2>4. pc' \in Waiting /\ pc' \notin {"work", "transact", "mine", "close"}
    BY <2>1 DEF Waiting
  <2>5. /\ menu' \in BOOLEAN /\ manage' \in BOOLEAN /\ eof' \in BOOLEAN
        /\ cmd' \in Commands \cup {"", "status"}
        /\ exists' \in BOOLEAN /\ open' \in BOOLEAN /\ monitor' \in BOOLEAN
        /\ addressLocks' \subseteq Addresses
    BY <2>1 DEF Types, TypeOK
  <2>6. TypeOK'
    BY <2>1, <2>3, <2>4, <2>5, KeepsTypeOK
  <2>7. QED BY <2>2, <2>6 DEF Types
<1>4. QED BY <1>1, <1>2, <1>3

LEMMA CappedScore ==
  ASSUME NEW n \in 0 .. 10
  PROVE  Min({n + 1, 10}) \in 0 .. 10
<1>1. \E x \in {n + 1, 10} : \A y \in {n + 1, 10} : x <= y
  OBVIOUS
<1>2. Min({n + 1, 10}) \in {n + 1, 10} /\ \A y \in {n + 1, 10} : Min({n + 1, 10}) <= y
  BY <1>1 DEF Min
<1>3. QED BY <1>2

(* A handler neither reads the command line nor changes the command.        *)
LEMMA HandlerKeepsTypes ==
  ASSUME Types, Inv, Handler
  PROVE  Types'
<1>1. /\ pc \in Working
      /\ UNCHANGED <<arguments, menu, manage, eof, request>>
  BY HandlerSteps
<1>2. /\ LineTypes'
      /\ Len(args') = Len(line') /\ argc' \in 0 .. Len(args') /\ at' \in 1 .. Len(args') + 1
      /\ menu' \in BOOLEAN /\ manage' \in BOOLEAN /\ eof' \in BOOLEAN
      /\ cmd' \in Commands \cup {"", "status"}
  BY <1>1 DEF Types, TypeOK, LineTypes, arguments, request
<1>3. /\ pc' \in {"enter", "parked", "ended", "close", "work", "transact", "mine"}
      /\ pc' \in {"work", "transact", "mine", "close"} =>
            pc \in {"open", "work", "transact", "mine", "close"}
  BY DEF Handler, Wallet, Reject, OpenRefused, WrongDatabase, OpenChain, Read, LockAddress,
         NewTransaction, Coinbase, AddBlock, SetConsistency, SetTrust, Close, Return, End
<1>4. /\ exists' \in BOOLEAN /\ open' \in BOOLEAN /\ monitor' \in BOOLEAN
      /\ pc' \in {"work", "transact", "mine", "close"} => open' /\ exists' /\ monitor'
  BY DEF Handler, Wallet, Reject, OpenRefused, WrongDatabase, OpenChain, Read, LockAddress,
         NewTransaction, Coinbase, AddBlock, SetConsistency, SetTrust, Close, Return, End, rest,
         database, Types, TypeOK
<1>5. Sender'
  BY <1>1, <1>3 DEF Types, Sender, request
<1>6. addressLocks' \subseteq Addresses
  <2>1. CASE LockAddress
    <3>1. arg \in Addresses
      BY <2>1 DEF LockAddress, Types, Sender
    <3>2. QED BY <2>1, <3>1 DEF LockAddress, Types, TypeOK
  <2>2. CASE ~LockAddress
    <3>1. addressLocks' \subseteq addressLocks
      BY <2>2 DEF Handler, Wallet, Reject, OpenRefused, WrongDatabase, OpenChain, Read,
           NewTransaction, Coinbase, AddBlock, SetConsistency, SetTrust, Close, rest
    <3>2. QED BY <3>1 DEF Types, TypeOK
  <2>3. QED BY <2>1, <2>2
<1>7. Range(NodeConsistency') \subseteq Levels
  <2>1. DOMAIN NodeConsistency' = {}
    BY HandlerKeepsInv DEF Inv, NoLevels
  <2>2. QED BY <2>1 DEF Range
<1>commitment. commitments' \in BOOLEAN
  <2>1. CASE AddBlock
    <3>1. (GetConsistencyLevel = "strong") \in BOOLEAN
      BY Zenon
    <3>2. commitments' = (GetConsistencyLevel = "strong") \/ commitments' = commitments
      BY <2>1, Zenon DEF AddBlock
    <3>3. QED BY <3>1, <3>2, Zenon DEF Types, TypeOK
  <2>2. CASE ~AddBlock
    BY <2>2 DEF Handler, Wallet, Reject, OpenRefused, WrongDatabase, OpenChain, Read, LockAddress,
       NewTransaction, Coinbase, SetConsistency, SetTrust, Close, rest, settings, Types, TypeOK
  <2>3. QED BY <2>1, <2>2
<1>chosen. chosen' \in Levels \cup {""}
  <2>1. CASE SetConsistency
    <3>1. pc = "work" /\ cmd = "setconsistency"
      BY <2>1 DEF SetConsistency
    <3>2. chosen' = chosen \/ (chosen' = arg /\ (menu \/ arg \in {"strong", "eventual"}))
      BY <2>1 DEF SetConsistency
    <3>3. menu => arg \in Levels
      BY <3>1 DEF Types, Sender
    <3>4. QED BY <3>2, <3>3 DEF Types, TypeOK, Levels
  <2>2. CASE ~SetConsistency
    BY <2>2 DEF Handler, Wallet, Reject, OpenRefused, WrongDatabase, OpenChain, Read, LockAddress,
       NewTransaction, Coinbase, AddBlock, SetTrust, Close, rest, settings, Types, TypeOK
  <2>3. QED BY <2>1, <2>2
<1>8. Range(trustScores') \subseteq 0 .. 10
  <2>1. ASSUME NEW success \in BOOLEAN, SetTrust(success)
        PROVE  Range(trustScores') \subseteq 0 .. 10
    <3> DEFINE current == IF arg \in DOMAIN trustScores THEN trustScores[arg] ELSE 0
               updated == IF success THEN Min({current + 1, 10})
                          ELSE IF current < 2 THEN 0 ELSE current - 2
    <3>1. \A n \in DOMAIN trustScores : trustScores[n] \in 0 .. 10
      BY DEF Types, TypeOK, Range
    <3>2. current \in 0 .. 10
      BY <3>1
    <3>3. updated \in 0 .. 10
      <4> HIDE DEF current
      <4>1. QED BY <3>2, CappedScore
    <3>4. trustScores' = [n \in DOMAIN trustScores \cup {arg} |->
                             IF n = arg THEN updated ELSE trustScores[n]]
      BY <2>1 DEF SetTrust
    <3> HIDE DEF updated
    <3>5. QED BY <3>1, <3>3, <3>4 DEF Range
  <2>2. CASE OpenChain
    BY <2>2 DEF OpenChain, Range
  <2>3. CASE ~OpenChain /\ ~\E success \in BOOLEAN : SetTrust(success)
    <3>1. trustScores' = trustScores
      BY <2>3 DEF Handler, Wallet, Reject, OpenRefused, WrongDatabase, Read, LockAddress,
           NewTransaction, Coinbase, AddBlock, SetConsistency, Close, rest, settings
    <3>2. QED BY <3>1 DEF Types, TypeOK
  <2>4. QED BY <2>1, <2>2, <2>3
<1>9. pc' \in Working \cup Waiting \cup {"flags", "ended", "parked"}
  BY <1>3 DEF Working, Waiting
<1>10. QED BY <1>2, <1>4, <1>5, <1>6, <1>7, <1>8, <1>9, <1>commitment, <1>chosen DEF Types, TypeOK

LEMMA InitTypes == Init => Types
<1> SUFFICES ASSUME Init PROVE Types
  OBVIOUS
<1>1. /\ line \in Seq(STRING) /\ args = line /\ Len(args) \in Nat
      /\ argc = Len(args) /\ at = 1 /\ Len(args) = Len(line)
  <2>1. line \in CommandLines /\ args = line /\ argc = Len(line) /\ at = 1
    BY DEF Init
  <2>2. line \in Seq(STRING)
    BY <2>1, SessionAssumption
  <2>3. QED BY <2>1, <2>2
<1>2. Range(NodeConsistency) = {} /\ Range(trustScores) = {}
  <2>1. DOMAIN << >> = {}
    OBVIOUS
  <2>2. NodeConsistency = << >> /\ trustScores = << >>
    BY DEF Init
  <2>3. QED BY <2>1, <2>2 DEF Range
<1>3. /\ LineTypes /\ Sender
      /\ Len(args) = Len(line) /\ argc \in 0 .. Len(args) /\ at \in 1 .. Len(args) + 1
  <2>1. LineTypes
    BY <1>1 DEF LineTypes
  <2>2. Sender
    BY DEF Init, Sender
  <2>3. Len(args) = Len(line) /\ argc \in 0 .. Len(args) /\ at \in 1 .. Len(args) + 1
    BY <1>1
  <2>4. QED BY <2>1, <2>2, <2>3
<1>4. /\ pc = "flags" /\ menu = FALSE /\ manage = FALSE /\ eof = FALSE /\ cmd = ""
      /\ exists \in BOOLEAN /\ open = FALSE /\ monitor = FALSE /\ addressLocks = {}
      /\ commitments = FALSE /\ chosen = ""
  BY DEF Init
<1>5. QED BY <1>2, <1>3, <1>4 DEF Types, TypeOK

LEMMA TypesInductive == Spec => []Types
<1>1. Types /\ Inv /\ [Next]_vars => Types'
  <2>1. ASSUME Types, UNCHANGED vars PROVE Types'
    <3>1. TypeOK'
      <4>1. /\ UNCHANGED <<args, argc, at, line, pc, menu, manage, eof, cmd>>
            /\ UNCHANGED <<exists, open, monitor, addressLocks>>
            /\ UNCHANGED <<NodeConsistency, trustScores, commitments, chosen>>
        BY <2>1 DEF vars, arguments, process, request, database, settings
      <4>2. Len(args') = Len(line') /\ argc' \in 0 .. Len(args') /\ at' \in 1 .. Len(args') + 1
        BY <2>1, <4>1 DEF Types, TypeOK
      <4>3. QED BY <2>1, <4>1, <4>2, KeepsTypeOK
    <3>2. LineTypes' /\ Sender'
      BY <2>1 DEF vars, arguments, process, request, Types, LineTypes, Sender
    <3>3. QED BY <3>1, <3>2 DEF Types
  <2>2. QED BY <2>1, FlagsKeepTypes, MenuKeepsTypes, HandlerKeepsTypes DEF Next
<1>2. QED BY <1>1, InitTypes, InvInductive, PTL DEF Spec

(* The types, and the database open whenever a command works on it.         *)
THEOREM TypeCorrect == Spec => []TypeOK
<1>1. Types => TypeOK
  BY DEF Types
<1>2. QED BY <1>1, TypesInductive, PTL

-----------------------------------------------------------------------------
(* The loop over the global flags.  Gone tokens have been cut out so far:   *)
(* the one at place "at" was at place at + Gone, those before it are either *)
(* gone with a flag that was taken or have their final places already, and  *)
(* those after it are all still there.                                      *)
Gone == Len(line) - argc

Loop(taken) ==
    /\ Gone = 2 * Cardinality(taken)
    /\ \A p \in taken : p + 2 < at + Gone
    /\ \A p \in Places : p < at + Gone => (p \in taken <=> {p - 1, p - 2} \cap taken = {})
    /\ \A j \in at .. argc : args[j] = line[j + Gone]
    /\ \A i \in Kept(taken) : i < at + Gone =>
          /\ i - 2 * Before(taken, i) \in 1 .. at - 1
          /\ args[i - 2 * Before(taken, i)] = line[i]

(* Of the stale places at the end of a line whose flags stand apart none    *)
(* holds a flag.                                                            *)
Stale == \A j \in argc + 1 .. Len(line) : j >= at => args[j] \notin GlobalFlags

Stripping ==
    line # <<>> =>
        /\ Separate => pc = "flags" /\ Stale
        /\ pc = "flags" => \E taken \in SUBSET Places : Loop(taken)

LEMMA PlacesFacts ==
  ASSUME line \in Seq(STRING)
  PROVE  /\ Len(line) \in Nat
         /\ Places \subseteq 1 .. Len(line)
         /\ \A S : Kept(S) \subseteq 1 .. Len(line)
         /\ \A i \in 1 .. Len(line) : i \in Places <=> line[i] \in GlobalFlags
         /\ \A S \in SUBSET Places : IsFiniteSet(S) /\ Cardinality(S) \in Nat
<1>1. Len(line) \in Nat /\ DOMAIN line = 1 .. Len(line)
  OBVIOUS
<1>2. /\ Places \subseteq 1 .. Len(line) /\ \A S : Kept(S) \subseteq 1 .. Len(line)
      /\ \A i \in 1 .. Len(line) : i \in Places <=> line[i] \in GlobalFlags
  BY <1>1 DEF Places, Kept
<1>3. IsFiniteSet(1 .. Len(line))
  BY <1>1, FS_Interval
<1>4. IsFiniteSet(Places)
  BY <1>2, <1>3, FS_Subset
<1>5. \A S \in SUBSET Places : IsFiniteSet(S) /\ Cardinality(S) \in Nat
  BY <1>4, FS_Subset, FS_CardinalityType
<1>6. QED BY <1>1, <1>2, <1>5

(* Where the loop is, in the old line and in the shortened one.             *)
LEMMA LoopFacts ==
  ASSUME Types, HandleFlag
  PROVE  /\ args \in Seq(STRING) /\ line \in Seq(STRING)
         /\ Len(line) \in Nat /\ Len(args) = Len(line)
         /\ argc \in 0 .. Len(line) /\ at \in 1 .. Len(line)
         /\ Gone = Len(line) - argc /\ Gone \in Nat /\ at + Gone \in Nat
         /\ at' = at + 1 /\ line' = line /\ pc = "flags" /\ pc' = "flags"
         /\ Places' = Places /\ \A S : Kept(S)' = Kept(S)
<1>1. /\ args \in Seq(STRING) /\ line \in Seq(STRING) /\ Len(args) = Len(line)
      /\ argc \in 0 .. Len(args) /\ at \in 1 .. Len(args) + 1
  BY DEF Types, TypeOK, LineTypes
<1>2. at <= Len(args) /\ at' = at + 1 /\ line' = line /\ pc = "flags" /\ pc' = "flags"
  BY DEF HandleFlag, process
<1>3. Len(line) \in Nat
  BY <1>1
<1>4. Places' = Places /\ \A S : Kept(S)' = Kept(S)
  BY <1>2 DEF Places, Kept
<1>5. QED BY <1>1, <1>2, <1>3, <1>4 DEF Gone

(* A token that is no flag stays where it is.                               *)
LEMMA StepOverToken ==
  ASSUME Types, HandleFlag, ~IsFlag(at), NEW taken \in SUBSET Places, Loop(taken)
  PROVE  Loop(taken)'
<1>1. PICK n, d, q : n = Len(line) /\ d = Gone /\ q = at + d
  OBVIOUS
<1>2. /\ args \in Seq(STRING) /\ line \in Seq(STRING) /\ n \in Nat
      /\ argc \in 0 .. n /\ at \in 1 .. n /\ d = n - argc /\ d \in Nat /\ q \in Nat
      /\ at' = at + 1 /\ line' = line /\ UNCHANGED <<args, argc>>
  BY <1>1, LoopFacts DEF HandleFlag
<1>3. Places' = Places /\ Kept(taken)' = Kept(taken) /\ Kept(taken) \subseteq 1 .. n
  BY <1>1, <1>2, LoopFacts, PlacesFacts
<1>4. Gone' = d /\ at' + Gone' = q + 1 /\ at' - 1 = at
  BY <1>1, <1>2 DEF Gone
<1>count. d = 2 * Cardinality(taken)
  BY <1>1 DEF Loop
<1>past. \A p \in taken : p + 2 < q
  BY <1>1 DEF Loop
<1>greedy. \A p \in Places : p < q => (p \in taken <=> {p - 1, p - 2} \cap taken = {})
  BY <1>1 DEF Loop
<1>ahead. \A j \in at .. argc : args[j] = line[j + d]
  BY <1>1 DEF Loop
<1>behind. \A i \in Kept(taken) : i < q =>
              /\ i - 2 * Before(taken, i) \in 1 .. at - 1
              /\ args[i - 2 * Before(taken, i)] = line[i]
  BY <1>1 DEF Loop
<1>5. q <= n => line[q] = args[at]
  BY <1>1, <1>2, <1>ahead
<1>6. q \notin Places
  <2>1. q \in 1 .. n => line[q] \notin GlobalFlags
    BY <1>5 DEF IsFlag
  <2>2. QED BY <1>1, <1>2, <2>1, PlacesFacts
<1>7. Places \subseteq 1 .. n /\ taken \subseteq 1 .. n
  BY <1>1, <1>2, PlacesFacts
<1>8. \A p \in taken : p + 2 < q + 1
  BY <1>2, <1>7, <1>past
<1>9. \A p \in Places : p < q + 1 => (p \in taken <=> {p - 1, p - 2} \cap taken = {})
  <2>1. \A p \in Places : p < q + 1 => p < q
    BY <1>2, <1>6, <1>7
  <2>2. QED BY <1>greedy, <2>1
<1>10. \A j \in at + 1 .. argc : args[j] = line[j + d]
  BY <1>2, <1>ahead
<1>11. \A i \in Kept(taken) : i < q + 1 =>
          /\ i - 2 * Before(taken, i) \in 1 .. at
          /\ args[i - 2 * Before(taken, i)] = line[i]
  <2> SUFFICES ASSUME NEW i \in Kept(taken), i < q + 1
               PROVE  /\ i - 2 * Before(taken, i) \in 1 .. at
                      /\ args[i - 2 * Before(taken, i)] = line[i]
    OBVIOUS
  <2>1. i \in 1 .. n
    BY <1>3
  <2>2. CASE i < q
    BY <1>2, <1>behind, <2>2
  <2>3. CASE i = q
    <3>0. \A p \in taken : p < i
      BY <1>2, <1>7, <1>past, <2>3
    <3>1. {p \in taken : p < i} = taken
      BY <3>0
    <3>2. i - 2 * Before(taken, i) = q - d
      BY <1>count, <2>3, <3>1 DEF Before
    <3>3. q - d = at
      BY <1>1, <1>2
    <3>4. QED BY <1>2, <1>5, <2>1, <2>3, <3>2, <3>3
  <2>4. QED BY <1>2, <2>1, <2>2, <2>3
<1>12. \A i : Before(taken, i)' = Before(taken, i)
  BY DEF Before
<1>13. QED BY <1>2, <1>3, <1>4, <1>8, <1>9, <1>10, <1>11, <1>12, <1>count DEF Loop

(* A flag goes with its value, and the loop goes on behind the token after  *)
(* both.                                                                    *)
LEMMA StepOverFlag ==
  ASSUME Types, HandleFlag, IsFlag(at), NEW taken \in SUBSET Places, Loop(taken)
  PROVE  \E more \in SUBSET Places' : Loop(more)'
<1>1. PICK n, d, q, a, c : n = Len(line) /\ d = Gone /\ q = at + d /\ a = at /\ c = argc
  OBVIOUS
<1>2. /\ args \in Seq(STRING) /\ line \in Seq(STRING) /\ n \in Nat
      /\ c \in 0 .. n /\ a \in 1 .. n /\ d = n - c /\ d \in Nat /\ q \in Nat /\ q = a + d
      /\ a + 1 <= c /\ at' = a + 1 /\ line' = line /\ argc' = c - 2
      /\ \A k \in 1 .. n : args'[k] = IF k \in a .. c - 2 THEN args[k + 2] ELSE args[k]
  <2>1. /\ args \in Seq(STRING) /\ line \in Seq(STRING) /\ n \in Nat /\ Len(args) = n
        /\ c \in 0 .. n /\ a \in 1 .. n /\ d = n - c /\ d \in Nat /\ q \in Nat /\ q = a + d
        /\ at' = a + 1 /\ line' = line
    BY <1>1, LoopFacts
  <2>2. a + 1 <= c /\ Cut
    BY <1>1 DEF HandleFlag
  <2>3. QED BY <1>1, <2>1, <2>2, CutFacts
<1>3. Places' = Places /\ \A S : Kept(S)' = Kept(S) /\ Kept(S) \subseteq 1 .. n
  BY <1>1, <1>2, LoopFacts, PlacesFacts
<1>4. Gone' = d + 2 /\ at' + Gone' = q + 3 /\ at' - 1 = a
  BY <1>1, <1>2 DEF Gone
<1>count. d = 2 * Cardinality(taken)
  BY <1>1 DEF Loop
<1>past. \A p \in taken : p + 2 < q
  BY <1>1 DEF Loop
<1>greedy. \A p \in Places : p < q => (p \in taken <=> {p - 1, p - 2} \cap taken = {})
  BY <1>1 DEF Loop
<1>ahead. \A j \in a .. c : args[j] = line[j + d]
  BY <1>1 DEF Loop
<1>behind. \A i \in Kept(taken) : i < q =>
              /\ i - 2 * Before(taken, i) \in 1 .. a - 1
              /\ args[i - 2 * Before(taken, i)] = line[i]
  BY <1>1 DEF Loop
<1>5. /\ Places \subseteq 1 .. n /\ taken \subseteq 1 .. n
      /\ IsFiniteSet(taken) /\ Cardinality(taken) \in Nat
  BY <1>1, <1>2, PlacesFacts
<1>6. q \in Places
  <2>0. a \in a .. c /\ q \in 1 .. n
    BY <1>2
  <2>1. q \in 1 .. n /\ args[a] = line[q] /\ args[a] \in GlobalFlags
    BY <1>1, <1>2, <1>ahead, <2>0 DEF IsFlag
  <2>2. QED BY <1>1, <1>2, <2>1, PlacesFacts
<1> DEFINE more == taken \cup {q}
<1>7. q \notin taken /\ \A x \in taken : x # q - 1 /\ x # q - 2
  BY <1>2, <1>5, <1>past
<1>8. Cardinality(more) = Cardinality(taken) + 1
  BY <1>5, <1>7, FS_AddElement
<1>9. d + 2 = 2 * Cardinality(more)
  <2>1. PICK m : m = Cardinality(taken)
    OBVIOUS
  <2>2. m \in Nat /\ d = 2 * m
    BY <1>5, <1>count, <2>1
  <2>3. d + 2 = 2 * (m + 1)
    BY <2>2
  <2>4. QED BY <1>8, <2>1, <2>3
<1>10. \A p \in more : p + 2 < q + 3
  BY <1>2, <1>5, <1>past
<1>11. \A p \in Places : p < q + 3 => (p \in more <=> {p - 1, p - 2} \cap more = {})
  <2> SUFFICES ASSUME NEW p \in Places, p < q + 3
               PROVE  p \in more <=> {p - 1, p - 2} \cap more = {}
    OBVIOUS
  <2>1. p \in 1 .. n
    BY <1>5
  <2>2. CASE p < q
    <3>1. p # q /\ p - 1 # q /\ p - 2 # q
      BY <1>2, <2>1, <2>2
    <3>2. {p - 1, p - 2} \cap more = {p - 1, p - 2} \cap taken
      BY <3>1
    <3>3. QED BY <1>greedy, <2>2, <3>1, <3>2
  <2>3. CASE p = q
    <3>1. q - 1 # q /\ q - 2 # q
      BY <1>2
    <3>2. QED BY <1>7, <2>3, <3>1
  <2>4. CASE p = q + 1 \/ p = q + 2
    <3>1. q \in {p - 1, p - 2} \cap more /\ p # q
      BY <1>2, <2>4
    <3>2. p \notin taken
      BY <1>2, <1>5, <1>past, <2>4
    <3>3. QED BY <3>1, <3>2
  <2>5. QED BY <1>2, <2>1, <2>2, <2>3, <2>4
<1>12. \A j \in a + 1 .. c - 2 : args'[j] = line[j + (d + 2)]
  <2> SUFFICES ASSUME NEW j \in a + 1 .. c - 2 PROVE args'[j] = line[j + (d + 2)]
    OBVIOUS
  <2>1. j \in 1 .. n /\ j \in a .. c - 2 /\ j + 2 \in a .. c /\ (j + 2) + d = j + (d + 2)
    BY <1>2
  <2>2. QED BY <1>2, <1>ahead, <2>1
<1>13. \A i \in Kept(more) : i < q + 3 =>
          /\ i - 2 * Before(more, i) \in 1 .. a
          /\ args'[i - 2 * Before(more, i)] = line[i]
  <2> SUFFICES ASSUME NEW i \in Kept(more), i < q + 3
               PROVE  /\ i - 2 * Before(more, i) \in 1 .. a
                      /\ args'[i - 2 * Before(more, i)] = line[i]
    OBVIOUS
  <2>1. i \in 1 .. n /\ i # q /\ i - 1 # q
    BY <1>3 DEF Kept
  <2>2. CASE i < q
    <3>1. i \in Kept(taken)
      BY DEF Kept
    <3>2. {p \in more : p < i} = {p \in taken : p < i}
      BY <1>2, <2>1, <2>2
    <3>3. PICK k : k = i - 2 * Before(taken, i)
      OBVIOUS
    <3>4. k = i - 2 * Before(more, i)
      BY <3>2, <3>3 DEF Before
    <3>5. k \in 1 .. a - 1 /\ args[k] = line[i]
      BY <1>behind, <2>2, <3>1, <3>3
    <3>numbers. a \in 1 .. n /\ c \in 0 .. n /\ n \in Nat
      BY <1>2
    <3>6. k \in 1 .. n /\ ~(k \in a .. c - 2) /\ k \in 1 .. a
      BY <3>numbers, <3>5
    <3>7. args'[k] = args[k]
      BY <1>2, <3>6
    <3>8. QED BY <3>4, <3>5, <3>6, <3>7
  <2>3. CASE i = q + 2
    <3>numbers. q \in Nat /\ n \in Nat
      BY <1>2
    <3>before. \A p \in taken : p < i
      BY <1>5, <1>past, <2>3, <3>numbers
    <3>0. \A p \in more : p < i
      BY <2>3, <3>before, <3>numbers
    <3>1. {p \in more : p < i} = more
      BY <3>0
    <3>2. 2 * Before(more, i) = d + 2
      BY <1>9, <3>1 DEF Before
    <3>3. /\ i - 2 * Before(more, i) = a /\ a \in a .. c - 2
          /\ a \in 1 .. n /\ a + 2 \in a .. c /\ (a + 2) + d = i
      BY <1>2, <2>1, <2>3, <3>2
    <3>4. args'[a] = args[a + 2] /\ args[a + 2] = line[(a + 2) + d]
      BY <1>2, <1>ahead, <3>3
    <3>5. QED BY <1>2, <3>3, <3>4
  <2>4. QED BY <1>2, <2>1, <2>2, <2>3
<1>14. more \in SUBSET Places'
  BY <1>3, <1>6
<1> HIDE DEF more
<1>15. Loop(more)'
  <2>1. Kept(more)' = Kept(more) /\ \A i : Before(more, i)' = Before(more, i)
    BY <1>3 DEF Before
  <2>2. QED BY <1>2, <1>3, <1>4, <1>9, <1>10, <1>11, <1>12, <1>13, <2>1 DEF Loop
<1>16. QED BY <1>14, <1>15

(* What the cuts leave behind the slice holds no flag.                      *)
LEMMA StaysStale ==
  ASSUME Types, Separate, HandleFlag, Stale, NEW taken \in SUBSET Places, Loop(taken)
  PROVE  Stale'
<1>1. PICK n, d, a, c : n = Len(line) /\ d = Gone /\ a = at /\ c = argc
  OBVIOUS
<1>2. /\ args \in Seq(STRING) /\ line \in Seq(STRING) /\ n \in Nat /\ Len(args) = n
      /\ c \in 0 .. n /\ a \in 1 .. n /\ d = n - c /\ d \in Nat
      /\ at' = a + 1 /\ line' = line
  BY <1>1, LoopFacts
<1>ahead. \A j \in a .. c : args[j] = line[j + d]
  BY <1>1 DEF Loop
<1>stale. \A j \in c + 1 .. n : j >= a => args[j] \notin GlobalFlags
  BY <1>1 DEF Stale
<1>last. Cardinality(Places) > 1 => \A p \in Places : p + 1 < n
  BY <1>1 DEF Separate
<1>3. /\ \A i \in 1 .. n : i \in Places <=> line[i] \in GlobalFlags
      /\ IsFiniteSet(Places) /\ Cardinality(Places) \in Nat
  BY <1>1, <1>2, PlacesFacts
<1>4. CASE ~IsFlag(at)
  <2>1. UNCHANGED <<args, argc>>
    BY <1>4 DEF HandleFlag
  <2>2. \A j \in c + 1 .. n : j >= a + 1 => args[j] \notin GlobalFlags
    BY <1>2, <1>stale
  <2>3. QED BY <1>1, <1>2, <2>1, <2>2 DEF Stale
<1>5. CASE IsFlag(at)
  <2>1. /\ a + 1 <= c /\ argc' = c - 2
        /\ \A k \in 1 .. n : args'[k] = IF k \in a .. c - 2 THEN args[k + 2] ELSE args[k]
    <3>1. a + 1 <= c /\ Cut
      BY <1>1, <1>5 DEF HandleFlag
    <3>2. QED BY <1>1, <1>2, <3>1, CutFacts
  <2>2. a + d \in Places
    <3>0. a \in a .. c /\ a + d \in 1 .. n
      BY <1>2, <2>1
    <3>1. a + d \in 1 .. n /\ args[a] = line[a + d] /\ args[a] \in GlobalFlags
      BY <1>1, <1>5, <1>ahead, <3>0 DEF IsFlag
    <3>2. QED BY <1>3, <3>1
  <2>3. \A j \in (c - 2) + 1 .. n : j >= a + 1 => args'[j] \notin GlobalFlags
    <3> SUFFICES ASSUME NEW j \in (c - 2) + 1 .. n, j >= a + 1 PROVE args'[j] \notin GlobalFlags
      OBVIOUS
    <3>1. j \in 1 .. n /\ ~(j \in a .. c - 2) /\ j > a
      BY <1>2, <2>1
    <3>2. args'[j] = args[j]
      BY <2>1, <3>1
    <3>3. CASE j > c
      <4>1. j \in c + 1 .. n /\ j >= a
        BY <1>2, <3>1, <3>3
      <4>2. QED BY <1>stale, <3>2, <4>1
    <3>4. CASE j <= c
      <4>1. j \in a .. c /\ j + d \in 1 .. n /\ j + d >= n - 1 /\ j + d # a + d
        BY <1>2, <2>1, <3>1, <3>4
      <4>2. j + d \notin Places
        <5>1. CASE Cardinality(Places) > 1
          <6>1. ~((j + d) + 1 < n)
            BY <1>2, <4>1
          <6>2. QED BY <1>last, <5>1, <6>1
        <5>2. CASE ~(Cardinality(Places) > 1)
          <6>1. Cardinality(Places) # 0
            BY <1>3, <2>2, FS_EmptySet
          <6>2. Cardinality(Places) = 1
            BY <1>3, <5>2, <6>1
          <6>3. PICK x : Places = {x}
            BY <1>3, <6>2, FS_Singleton
          <6>4. QED BY <2>2, <4>1, <6>3
        <5>3. QED BY <5>1, <5>2
      <4>3. line[j + d] \notin GlobalFlags
        BY <1>3, <4>1, <4>2
      <4>4. args[j] = line[j + d]
        BY <1>ahead, <4>1
      <4>5. QED BY <3>2, <4>3, <4>4
    <3>5. QED BY <1>2, <3>1, <3>3, <3>4
  <2>4. QED BY <1>1, <1>2, <2>1, <2>3 DEF Stale
<1>6. QED BY <1>4, <1>5

(* Flags that stand apart have their values: the loop neither runs out of   *)
(* the array nor meets a value that is no number.                           *)
LEMMA NoFlagPanic ==
  ASSUME Types, Separate, Stale, NEW taken \in SUBSET Places, Loop(taken), FlagPanic
  PROVE  FALSE
<1>1. PICK n, d, a, c : n = Len(line) /\ d = Gone /\ a = at /\ c = argc
  OBVIOUS
<1>2. /\ args \in Seq(STRING) /\ line \in Seq(STRING) /\ n \in Nat
      /\ c \in 0 .. n /\ a \in 1 .. n /\ d = n - c /\ d \in Nat
  <2>1. /\ args \in Seq(STRING) /\ line \in Seq(STRING) /\ Len(args) = Len(line)
        /\ argc \in 0 .. Len(args) /\ at \in 1 .. Len(args) + 1
    BY DEF Types, TypeOK, LineTypes
  <2>2. at <= Len(args)
    BY DEF FlagPanic
  <2>3. QED BY <1>1, <2>1, <2>2 DEF Gone
<1>3. /\ args[a] \in GlobalFlags
      /\ a + 1 <= c => args[a] = "-trustscore" /\ args[a + 1] \notin Numbers
  BY <1>1 DEF FlagPanic, IsFlag
<1>4. /\ \A j \in a .. c : args[j] = line[j + d]
      /\ \A j \in c + 1 .. n : j >= a => args[j] \notin GlobalFlags
  BY <1>1 DEF Loop, Stale
<1>5. a <= c
  <2>1. ~(a \in c + 1 .. n)
    BY <1>2, <1>3, <1>4
  <2>2. QED BY <1>2, <2>1
<1>6. PICK q : q = a + d
  OBVIOUS
<1>7. q \in 1 .. n /\ args[a] = line[q]
  BY <1>2, <1>4, <1>5, <1>6
<1>8. q \in Places
  BY <1>1, <1>2, <1>3, <1>7, PlacesFacts
<1>9. q < n /\ (line[q] = "-trustscore" => line[q + 1] \in Numbers)
  BY <1>1, <1>8 DEF Separate
<1>10. a + 1 \in a .. c /\ (a + 1) + d = q + 1
  BY <1>2, <1>5, <1>6, <1>7, <1>9
<1>11. args[a + 1] = line[q + 1]
  BY <1>4, <1>10
<1>12. QED BY <1>2, <1>3, <1>7, <1>9, <1>10, <1>11

(* Only the loop takes steps while there are flags.                         *)
LEMMA StrippingStep ==
  ASSUME Types, Stripping, [Next]_vars
  PROVE  Stripping'
<1>apart. line' = line => Places' = Places /\ (Separate' <=> Separate)
  <2> SUFFICES ASSUME line' = line PROVE Places' = Places /\ (Separate' <=> Separate)
    OBVIOUS
  <2>1. Places' = Places
    BY DEF Places
  <2>2. QED BY <2>1 DEF Separate
<1>1. CASE UNCHANGED vars
  <2>1. UNCHANGED <<args, argc, at, line, pc>>
    BY <1>1 DEF vars, arguments, process
  <2>2. Gone' = Gone /\ \A S : Kept(S)' = Kept(S) /\ \A i : Before(S, i)' = Before(S, i)
    BY <2>1 DEF Kept, Before, Gone
  <2>3. (Stale => Stale') /\ \A S : Loop(S) => Loop(S)'
    BY <1>apart, <2>1, <2>2 DEF Loop, Stale
  <2>4. QED BY <1>apart, <2>1, <2>3 DEF Stripping
<1>2. CASE HandleFlag
  <2> SUFFICES ASSUME line' # <<>>
               PROVE  /\ Separate' => (pc = "flags")' /\ Stale'
                      /\ (pc = "flags")' => \E more \in SUBSET Places' : Loop(more)'
    BY DEF Stripping
  <2>1. line' = line /\ pc = "flags" /\ pc' = "flags"
    BY <1>2, LoopFacts
  <2>2. PICK taken \in SUBSET Places : Loop(taken)
    BY <2>1 DEF Stripping
  <2>3. \E more \in SUBSET Places' : Loop(more)'
    <3>1. CASE IsFlag(at)
      BY <1>2, <2>2, <3>1, StepOverFlag
    <3>2. CASE ~IsFlag(at)
      BY <1>2, <1>apart, <2>1, <2>2, <3>2, StepOverToken
    <3>3. QED BY <3>1, <3>2
  <2>4. Separate' => Stale'
    BY <1>2, <1>apart, <2>1, <2>2, StaysStale DEF Stripping
  <2>5. QED BY <2>1, <2>3, <2>4
<1>3. CASE FlagPanic
  <2>1. line' = line /\ pc = "flags" /\ pc' = "ended"
    BY <1>3 DEF FlagPanic, End, rest, arguments
  <2>2. line # <<>> => ~Separate
    <3> SUFFICES ASSUME line # <<>>, Separate PROVE FALSE
      OBVIOUS
    <3>1. PICK taken \in SUBSET Places : Loop(taken)
      BY <2>1 DEF Stripping
    <3>2. QED BY <1>3, <3>1, NoFlagPanic DEF Stripping
  <2>3. QED BY <1>apart, <2>1, <2>2 DEF Stripping
<1>4. CASE Run
  BY <1>4 DEF Run, Stripping
<1>5. CASE Interactive \/ Handler \/ EndOfInput
  <2>1. pc # "flags" /\ pc' # "flags" /\ line' = line
    BY <1>5, MenuSteps, HandlerSteps DEF Waiting, Working, arguments
  <2>2. QED BY <1>apart, <2>1 DEF Stripping
<1>6. QED BY <1>1, <1>2, <1>3, <1>4, <1>5 DEF Next

LEMMA InitStripping == Init => Stripping
<1> SUFFICES ASSUME Init PROVE Stripping
  OBVIOUS
<1>1. pc = "flags" /\ args = line /\ argc = Len(line) /\ at = 1 /\ line \in CommandLines
  BY DEF Init
<1>2. line \in Seq(STRING) /\ Len(line) \in Nat
  <2>1. line \in Seq(STRING)
    BY <1>1, SessionAssumption
  <2>2. QED BY <2>1
<1>3. Gone = 0 /\ at + Gone = 1
  BY <1>1, <1>2 DEF Gone
<1>4. \A p \in Places : ~(p < at + Gone)
  BY <1>2, <1>3, PlacesFacts
<1>5. \A i \in Kept({}) : ~(i < at + Gone)
  BY <1>2, <1>3, PlacesFacts
<1>6. Gone = 2 * Cardinality({})
  BY <1>3, FS_EmptySet
<1>7. \A j \in at .. argc : args[j] = line[j + Gone]
  BY <1>1, <1>2, <1>3
<1>8. Loop({})
  BY <1>4, <1>5, <1>6, <1>7 DEF Loop
<1>9. Stale
  BY <1>1, <1>2 DEF Stale
<1>10. QED BY <1>1, <1>8, <1>9 DEF Stripping

(* Of every command line, Run sees exactly the tokens that belong to no     *)
(* flag that was taken, in their order; taken is every flag that is neither *)
(* the value of a taken one nor right behind such a value.  If the flags    *)
(* stand apart, the loop does not panic.                                    *)
THEOREM FlagsAreStripped == Spec => []FlagsStripped
<1>1. Types /\ Stripping => FlagsStripped
  <2> SUFFICES ASSUME Types, Stripping, line # <<>>
               PROVE  /\ Separate => pc = "flags"
                      /\ pc = "flags" /\ at > Len(line) => \E taken \in SUBSET Places :
                            /\ TakenAre(taken)
                            /\ argc = Len(line) - 2 * Cardinality(taken)
                            /\ \A i \in Kept(taken) : args[i - 2 * Before(taken, i)] = line[i]
    BY DEF FlagsStripped
  <2>1. Separate => pc = "flags"
    BY DEF Stripping
  <2>2. ASSUME pc = "flags", at > Len(line)
        PROVE  \E taken \in SUBSET Places :
                  /\ TakenAre(taken)
                  /\ argc = Len(line) - 2 * Cardinality(taken)
                  /\ \A i \in Kept(taken) : args[i - 2 * Before(taken, i)] = line[i]
    <3>1. PICK taken \in SUBSET Places : Loop(taken)
      BY <2>2 DEF Stripping
    <3>2. /\ line \in Seq(STRING) /\ Len(line) \in Nat
          /\ argc \in 0 .. Len(line) /\ at \in 1 .. Len(line) + 1
      <4>1. /\ line \in Seq(STRING) /\ Len(args) = Len(line)
            /\ argc \in 0 .. Len(args) /\ at \in 1 .. Len(args) + 1
        BY DEF Types, TypeOK, LineTypes
      <4>2. QED BY <4>1
    <3>3. Gone = Len(line) - argc /\ Gone \in Nat /\ at + Gone > Len(line)
      BY <2>2, <3>2 DEF Gone
    <3>4. /\ Places \subseteq 1 .. Len(line) /\ Kept(taken) \subseteq 1 .. Len(line)
          /\ Cardinality(taken) \in Nat
      BY <3>2, PlacesFacts
    <3>5. (\A p \in Places : p < at + Gone) /\ (\A i \in Kept(taken) : i < at + Gone)
      BY <3>2, <3>3, <3>4
    <3>6. TakenAre(taken)
      BY <3>1, <3>5 DEF Loop, TakenAre
    <3>7. \A i \in Kept(taken) : args[i - 2 * Before(taken, i)] = line[i]
      BY <3>1, <3>5 DEF Loop
    <3>8. argc = Len(line) - 2 * Cardinality(taken)
      <4>1. Gone = 2 * Cardinality(taken)
        BY <3>1 DEF Loop
      <4>2. QED BY <3>2, <3>3, <3>4, <4>1
    <3>9. QED BY <3>6, <3>7, <3>8
  <2>3. QED BY <2>1, <2>2
<1>2. QED BY <1>1, StrippingStep, InitStripping, TypesInductive, PTL DEF Spec
=============================================================================
