--------------------------- MODULE WalletsProofs ---------------------------
(***************************************************************************)
(* Theorems about module Wallets, for any number of processes and wallets: *)
(* the only ways to lose a wallet are a write that is torn and two         *)
(* createwallet commands at once.                                          *)
(***************************************************************************)
EXTENDS Wallets, TLAPS

LEMMA GoTypes ==
  ASSUME TypeOK, NEW p \in Processes, NEW from,
         NEW to \in {"idle", "add", "open", "write", "reopen", "rewrite", "print"},
         Go(p, from, to)
  PROVE  /\ pc[p] = from /\ pc'[p] = to
         /\ \A q \in Processes \ {p} : pc'[q] = pc[q]
         /\ pc' \in [Processes -> {"idle", "add", "open", "write", "reopen", "rewrite", "print"}]
BY DEF Go, TypeOK

(* No process holds, stores or prints an address that nobody made.          *)
THEOREM TypeCorrect == Spec => []TypeOK
<1>1. Init => TypeOK
  <2> SUFFICES ASSUME Init PROVE TypeOK
    OBVIOUS
  <2>1. made \in Nat /\ file \subseteq 1 .. made /\ printed \subseteq 1 .. made
    BY DEF Init
  <2>2. ws \in [Processes -> SUBSET (1 .. made)] /\ mine \in [Processes -> 0 .. made]
    BY DEF Init
  <2>3. QED BY <2>1, <2>2 DEF Init, TypeOK
<1>2. TypeOK /\ [Next]_vars => TypeOK'
  <2> SUFFICES ASSUME TypeOK, [Next]_vars PROVE TypeOK'
    OBVIOUS
  <2>1. ASSUME NEW p \in Processes, CreateWallets(p) PROVE TypeOK'
    <3>1. pc' \in [Processes -> {"idle", "add", "open", "write", "reopen", "rewrite", "print"}]
      BY <2>1, GoTypes DEF CreateWallets
    <3>2. LoadFile \subseteq 1 .. made
      BY DEF LoadFile, TypeOK
    <3>3. raced' \in BOOLEAN
      BY <2>1, Zenon DEF CreateWallets, TypeOK
    <3>4. \A q \in Processes : mine'[q] = 0 => pc'[q] \in {"idle", "add"}
      BY <2>1, GoTypes DEF CreateWallets, TypeOK
    <3>5. QED BY <2>1, <3>1, <3>2, <3>3, <3>4 DEF CreateWallets, TypeOK
  <2>2. ASSUME NEW p \in Processes, AddWallet(p) PROVE TypeOK'
    <3>1. pc' \in [Processes -> {"idle", "add", "open", "write", "reopen", "rewrite", "print"}]
      BY <2>2, GoTypes DEF AddWallet
    <3>2. made' = made + 1 /\ made \in Nat /\ 1 .. made \subseteq 1 .. made'
          /\ 0 .. made \subseteq 0 .. made' /\ made' \in 1 .. made'
      BY <2>2 DEF AddWallet, TypeOK
    <3>3. file' \subseteq 1 .. made' /\ printed' \subseteq 1 .. made'
      BY <2>2, <3>2 DEF AddWallet, TypeOK
    <3>4. ws' \in [Processes -> SUBSET (1 .. made')]
      BY <2>2, <3>2 DEF AddWallet, TypeOK
    <3>5. mine' \in [Processes -> 0 .. made']
      BY <2>2, <3>2 DEF AddWallet, TypeOK
    <3>6. \A q \in Processes : mine'[q] = 0 => pc'[q] \in {"idle", "add"}
      BY <2>2, <3>2, GoTypes DEF AddWallet, TypeOK
    <3>7. QED BY <2>2, <3>1, <3>2, <3>3, <3>4, <3>5, <3>6 DEF AddWallet, TypeOK
  <2>3. ASSUME NEW p \in Processes, Truncate(p) PROVE TypeOK'
    <3>1. pc' \in [Processes -> {"idle", "add", "open", "write", "reopen", "rewrite", "print"}]
      BY <2>3, GoTypes DEF Truncate
    <3>2. \A q \in Processes : mine'[q] = 0 => pc'[q] \in {"idle", "add"}
      BY <2>3, GoTypes DEF Truncate, TypeOK
    <3>3. QED BY <2>3, <3>1, <3>2 DEF Truncate, TypeOK
  <2>4. ASSUME NEW p \in Processes, WriteFile(p) PROVE TypeOK'
    <3>1. pc' \in [Processes -> {"idle", "add", "open", "write", "reopen", "rewrite", "print"}]
      BY <2>4, GoTypes DEF WriteFile
    <3>2. \A q \in Processes : mine'[q] = 0 => pc'[q] \in {"idle", "add"}
      BY <2>4, GoTypes DEF WriteFile, TypeOK
    <3>3. QED BY <2>4, <3>1, <3>2 DEF WriteFile, TypeOK
  <2>5. ASSUME NEW p \in Processes, PrintAddress(p) PROVE TypeOK'
    <3>1. /\ pc' \in [Processes -> {"idle", "add", "open", "write", "reopen", "rewrite", "print"}]
          /\ pc[p] = "print"
      BY <2>5, GoTypes DEF PrintAddress
    <3>2. \A q \in Processes : mine'[q] = 0 => pc'[q] \in {"idle", "add"}
      BY <2>5, GoTypes DEF PrintAddress, TypeOK
    <3>3. mine[p] \in 1 .. made
      BY <3>1 DEF TypeOK
    <3>4. QED BY <2>5, <3>1, <3>2, <3>3 DEF PrintAddress, TypeOK
  <2>6. ASSUME NEW p \in Processes, Crash(p) PROVE TypeOK'
    <3>1. torn' \in BOOLEAN
      BY <2>6, Zenon DEF Crash, TypeOK
    <3>2. QED BY <2>6, <3>1 DEF Crash, TypeOK
  <2>7. CASE UNCHANGED vars
    BY <2>7 DEF vars, TypeOK
  <2>8. QED BY <2>1, <2>2, <2>3, <2>4, <2>5, <2>6, <2>7 DEF Next
<1>3. QED BY <1>1, <1>2, PTL DEF Spec

-----------------------------------------------------------------------------
(* What holds while no write was torn and no two commands met: one process  *)
(* at most is in createWallet; what users were told is in the file, unless  *)
(* that process is writing, and it carries all of it with it.               *)
OneAtATime ==
    \A p, q \in Processes : pc[p] # "idle" /\ pc[q] # "idle" => p = q

InFile ==
    (\A p \in Processes : pc[p] \notin {"write", "rewrite"}) => printed \subseteq LoadFile

Carried ==
    \A p \in Processes :
        /\ pc[p] # "idle" => printed \subseteq ws[p]
        /\ pc[p] \notin {"idle", "add"} => mine[p] \in ws[p]
        /\ pc[p] = "print" => mine[p] \in LoadFile

Inv == ~torn /\ ~raced => OneAtATime /\ InFile /\ Carried

LEMMA StepKeepsInv ==
  ASSUME TypeOK, Inv, NEW p \in Processes,
         \/ CreateWallets(p) \/ AddWallet(p) \/ Truncate(p)
         \/ WriteFile(p) \/ PrintAddress(p) \/ Crash(p)
  PROVE  Inv'
<1> SUFFICES ASSUME ~torn', ~raced' PROVE (OneAtATime /\ InFile /\ Carried)'
  BY DEF Inv
<1>1. CASE CreateWallets(p)
  <2>1. pc[p] = "idle" /\ pc'[p] = "add" /\ \A q \in Processes \ {p} : pc'[q] = pc[q]
    BY <1>1, GoTypes DEF CreateWallets
  <2>2. ~torn /\ ~raced /\ \A q \in Processes : pc[q] = "idle"
    BY <1>1 DEF CreateWallets
  <2>3. printed \subseteq LoadFile
    BY <2>2 DEF Inv, InFile
  <2>4. printed' = printed /\ LoadFile' = LoadFile /\ ws'[p] = LoadFile
    BY <1>1 DEF CreateWallets, LoadFile, TypeOK
  <2>5. QED BY <2>1, <2>2, <2>3, <2>4 DEF OneAtATime, InFile, Carried
<1>2. CASE AddWallet(p)
  <2>1. pc[p] = "add" /\ pc'[p] = "open" /\ \A q \in Processes \ {p} : pc'[q] = pc[q]
    BY <1>2, GoTypes DEF AddWallet
  <2>2. OneAtATime /\ InFile /\ Carried
    BY <1>2 DEF AddWallet, Inv
  <2>3. printed' = printed /\ LoadFile' = LoadFile
    BY <1>2 DEF AddWallet, LoadFile
  <2>4. ws'[p] = ws[p] \cup {mine'[p]}
    BY <1>2 DEF AddWallet, TypeOK
  <2>5. QED BY <2>1, <2>2, <2>3, <2>4 DEF OneAtATime, InFile, Carried
<1>3. CASE Truncate(p)
  <2>1. /\ pc[p] \in {"open", "reopen"} /\ pc'[p] \in {"write", "rewrite"}
        /\ \A q \in Processes \ {p} : pc'[q] = pc[q]
    BY <1>3, GoTypes DEF Truncate
  <2>2. OneAtATime /\ Carried
    BY <1>3 DEF Truncate, Inv
  <2>3. printed' = printed /\ ws' = ws /\ mine' = mine
    BY <1>3 DEF Truncate
  <2>4. QED BY <2>1, <2>2, <2>3 DEF OneAtATime, InFile, Carried
<1>4. CASE WriteFile(p)
  <2>1. /\ pc[p] \in {"write", "rewrite"} /\ pc'[p] \in {"reopen", "print"}
        /\ \A q \in Processes \ {p} : pc'[q] = pc[q]
    BY <1>4, GoTypes DEF WriteFile
  <2>2. OneAtATime /\ Carried
    BY <1>4 DEF WriteFile, Inv
  <2>3. printed' = printed /\ ws' = ws /\ mine' = mine /\ LoadFile' = ws[p]
    BY <1>4 DEF WriteFile, LoadFile
  <2>4. QED BY <2>1, <2>2, <2>3 DEF OneAtATime, InFile, Carried
<1>5. CASE PrintAddress(p)
  <2>1. pc[p] = "print" /\ pc'[p] = "idle" /\ \A q \in Processes \ {p} : pc'[q] = pc[q]
    BY <1>5, GoTypes DEF PrintAddress
  <2>2. OneAtATime /\ InFile /\ Carried
    BY <1>5 DEF PrintAddress, Inv
  <2>3. printed' = printed \cup {mine[p]} /\ LoadFile' = LoadFile
    BY <1>5 DEF PrintAddress, LoadFile
  <2>4. \A q \in Processes : q # p => pc[q] = "idle"
    BY <2>1, <2>2 DEF OneAtATime
  <2>5. printed \subseteq LoadFile /\ mine[p] \in LoadFile
    BY <2>1, <2>2, <2>4 DEF InFile, Carried
  <2>6. QED BY <2>1, <2>3, <2>4, <2>5 DEF OneAtATime, InFile, Carried
<1>6. CASE Crash(p)
  <2>1. pc[p] # "idle" /\ pc'[p] = "idle" /\ \A q \in Processes \ {p} : pc'[q] = pc[q]
    BY <1>6 DEF Crash, TypeOK
  <2>2. ~torn /\ pc[p] \notin {"write", "rewrite"}
    BY <1>6 DEF Crash
  <2>3. OneAtATime /\ InFile /\ Carried
    BY <1>6, <2>2 DEF Crash, Inv
  <2>4. printed' = printed /\ LoadFile' = LoadFile
    BY <1>6 DEF Crash, LoadFile
  <2>5. \A q \in Processes : q # p => pc[q] = "idle"
    BY <2>1, <2>3 DEF OneAtATime
  <2>6. printed \subseteq LoadFile
    BY <2>2, <2>3, <2>5 DEF InFile
  <2>7. QED BY <2>1, <2>4, <2>5, <2>6 DEF OneAtATime, InFile, Carried
<1>7. QED BY <1>1, <1>2, <1>3, <1>4, <1>5, <1>6

(* If no process died in the middle of a write and no two createwallet      *)
(* commands ran at once, then, whenever none runs, the file has every       *)
(* address that was printed: no other crash loses one.                      *)
THEOREM WalletsKept == Spec => []AllListedUnlessTornOrRaced
<1>1. Init => Inv
  BY DEF Init, Inv, OneAtATime, InFile, Carried
<1>2. TypeOK /\ Inv /\ [Next]_vars => Inv'
  <2>1. ASSUME Inv, UNCHANGED vars PROVE Inv'
    BY <2>1 DEF vars, Inv, OneAtATime, InFile, Carried, LoadFile
  <2>2. QED BY <2>1, StepKeepsInv DEF Next
<1>3. Inv => AllListedUnlessTornOrRaced
  BY DEF Inv, InFile, AllListedUnlessTornOrRaced, AllListed, Quiet
<1>4. QED BY <1>1, <1>2, <1>3, TypeCorrect, PTL DEF Spec
=============================================================================
