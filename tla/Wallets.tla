------------------------------ MODULE Wallets ------------------------------
(***************************************************************************)
(* The wallet file ./tmp/wallets.data and the processes that read it whole *)
(* and write it back whole (wallet/wallets.go, createWallet and            *)
(* listAddresses of cli/cli.go).  No lock protects the file, and SaveFile  *)
(* empties it before it writes.  A wallet is its address; MakeWallet never *)
(* makes the same twice.                                                   *)
(*                                                                         *)
(* External, from how src uses ioutil: WriteFile truncates the file, then  *)
(* writes it; an empty file does not decode.  When two writes overlap gob  *)
(* decodes the one that came last.                                         *)
(***************************************************************************)
EXTENDS Naturals, FiniteSets

CONSTANTS
    Processes,    \* the terminals
    MaxWallets,   \* bound: no createwallet starts once so many were made
    Crashes       \* may a process die in the middle of createwallet?

ASSUME WalletsAssumption ==
    /\ MaxWallets \in Nat
    /\ Crashes \in BOOLEAN

VARIABLES
    file,       \* the addresses in the file
    readable,   \* is the file there, and not empty?
    pc,         \* pc[p]: where process p is in createWallet
    ws,         \* ws[p]: ws.Wallets of p
    mine,       \* mine[p]: the address p makes
    made,       \* how many addresses were made
    printed,    \* the addresses users were told
    torn,       \* history: did a process die in the middle of SaveFile?
    raced       \* history: did two createwallet commands run at once?

vars == <<file, readable, pc, ws, mine, made, printed, torn, raced>>

Go(p, from, to) == pc[p] = from /\ pc' = [pc EXCEPT ![p] = to]

-----------------------------------------------------------------------------
LoadFileNothing == {}     \* faulty: what was decoded is not kept

(* What CreateWallets returns, its error ignored, and what listAddresses    *)
(* prints.                                                                  *)
LoadFile == IF readable THEN file ELSE {}

CreateWallets(p) ==
    /\ made < MaxWallets
    /\ Go(p, "idle", "add")
    /\ ws' = [ws EXCEPT ![p] = LoadFile]
    /\ raced' = (raced \/ \E q \in Processes : pc[q] # "idle")
    /\ UNCHANGED <<file, readable, mine, made, printed, torn>>

AddWalletSameKey(p) ==     \* faulty: the key is not a new one
    /\ Go(p, "add", "open")
    /\ mine' = [mine EXCEPT ![p] = made + 1]
    /\ ws' = [ws EXCEPT ![p] = @ \cup {made + 1}]
    /\ UNCHANGED <<file, readable, made, printed, torn, raced>>

AddWallet(p) ==
    /\ Go(p, "add", "open")
    /\ made' = made + 1
    /\ mine' = [mine EXCEPT ![p] = made']
    /\ ws' = [ws EXCEPT ![p] = @ \cup {made'}]
    /\ UNCHANGED <<file, readable, printed, torn, raced>>

(* SaveFile runs twice: at the end of AddWallet ("open", "write") and again *)
(* in createWallet ("reopen", "rewrite").                                   *)
Truncate(p) ==
    /\ Go(p, "open", "write") \/ Go(p, "reopen", "rewrite")
    /\ readable' = FALSE
    /\ file' = {}
    /\ UNCHANGED <<ws, mine, made, printed, torn, raced>>

WriteFile(p) ==
    /\ Go(p, "write", "reopen") \/ Go(p, "rewrite", "print")
    /\ readable' = TRUE
    /\ file' = ws[p]
    /\ UNCHANGED <<ws, mine, made, printed, torn, raced>>

PrintAddress(p) ==
    /\ Go(p, "print", "idle")
    /\ printed' = printed \cup {mine[p]}
    /\ UNCHANGED <<file, readable, ws, mine, made, torn, raced>>

Crash(p) ==
    /\ Crashes
    /\ pc[p] # "idle"
    /\ pc' = [pc EXCEPT ![p] = "idle"]
    /\ torn' = (torn \/ pc[p] \in {"write", "rewrite"})
    /\ UNCHANGED <<file, readable, ws, mine, made, printed, raced>>

Init ==
    /\ file = {}
    /\ readable = FALSE
    /\ pc = [p \in Processes |-> "idle"]
    /\ ws = [p \in Processes |-> {}]
    /\ mine = [p \in Processes |-> 0]
    /\ made = 0
    /\ printed = {}
    /\ torn = FALSE
    /\ raced = FALSE

Next ==
    \E p \in Processes :
        \/ CreateWallets(p)
        \/ AddWallet(p)
        \/ Truncate(p)
        \/ WriteFile(p)
        \/ PrintAddress(p)
        \/ Crash(p)

Spec == Init /\ [][Next]_vars

-----------------------------------------------------------------------------
(* Types: nothing is stored, held or printed that was never made.           *)
TypeOK ==
    /\ file \subseteq 1 .. made /\ readable \in BOOLEAN
    /\ pc \in [Processes -> {"idle", "add", "open", "write", "reopen", "rewrite", "print"}]
    /\ ws \in [Processes -> SUBSET (1 .. made)]
    /\ mine \in [Processes -> 0 .. made]
    /\ \A p \in Processes : mine[p] = 0 => pc[p] \in {"idle", "add"}
    /\ made \in Nat
    /\ printed \subseteq 1 .. made
    /\ torn \in BOOLEAN /\ raced \in BOOLEAN

Quiet == \A p \in Processes : pc[p] = "idle"

(* "listaddresses - List all addresses in the wallet": while no createwallet *)
(* is running, the file has every address a user was told.                  *)
AllListed == Quiet => printed \subseteq LoadFile

(* The same, but for the two ways the code loses one: a process that died  *)
(* between truncating the file and writing it, and a createwallet that      *)
(* started while another ran.  No other crash loses a wallet, and the       *)
(* second SaveFile puts back what was there.                                *)
AllListedUnlessTornOrRaced == ~torn /\ ~raced => AllListed
=============================================================================
