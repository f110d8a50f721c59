-------------------------------- MODULE Node --------------------------------
(***************************************************************************)
(* The processes that share the directory ./tmp/blocks.  Every command of  *)
(* the command line is a process of its own (or one turn of an interactive *)
(* one): it looks whether the database exists, opens it, reads the last    *)
(* hash, works, commits and closes; and it may die between any two steps.  *)
(* Module Ledger takes a command to be one step; this module checks when   *)
(* that is right.                                                          *)
(*                                                                         *)
(* A block hash commits to the whole chain below the block, so the hash of *)
(* a block is represented by the chain that ends with it.                  *)
(*                                                                         *)
(* External, from how src uses badger: Open takes an exclusive lock on the *)
(* directory or fails, and creates MANIFEST when it is missing; Update is  *)
(* atomic; the operating system drops the lock of a process that dies.     *)
(***************************************************************************)
EXTENDS Naturals, Sequences, FiniteSets

CONSTANTS
    Processes,   \* the terminals
    Creators,    \* those whose user may type createblockchain
    Crashes,     \* may a process die in the middle of a command?
    MaxBlocks,   \* bound: no writing command starts on a chain this long
    Nobody       \* not a process

ASSUME NodeAssumption ==
    /\ Creators \subseteq Processes
    /\ Crashes \in BOOLEAN
    /\ MaxBlocks \in Nat
    /\ Nobody \notin Processes

VARIABLES
    manifest,    \* does ./tmp/blocks/MANIFEST exist?
    store,       \* the hashes the database has a block for
    lh,          \* what it has under the key "lh", <<>> when it has nothing
    lock,        \* who has the database open
    pc,          \* pc[p]: where process p is
    cmd,         \* cmd[p]: the command p runs
    LastHash,    \* LastHash[p]: chain.LastHash of p
    tx,          \* tx[p]: the chain that NewTransaction of p read
    tip          \* tip[p]: lastHash of p in AddBlock

disk == <<manifest, store, lh, lock>>
local == <<LastHash, tx, tip>>
vars == <<manifest, store, lh, lock, pc, cmd, LastHash, tx, tip>>

NewBlock(p, saw) == [by |-> p, saw |-> saw]

Go(p, from, to) == pc[p] = from /\ pc' = [pc EXCEPT ![p] = to]

(* The process is gone or back at its menu, and so is its lock.             *)
Leave(p) ==
    /\ pc' = [pc EXCEPT ![p] = "idle"]
    /\ lock' = IF lock = p THEN Nobody ELSE lock

-----------------------------------------------------------------------------
Start(p, c) ==
    /\ Go(p, "idle", "stat")
    /\ c = "create" => p \in Creators
    /\ c = "write" => Len(lh) < MaxBlocks
    /\ cmd' = [cmd EXCEPT ![p] = c]
    /\ UNCHANGED <<disk, local>>

CheckExistsCreatorOnly(p) ==    \* faulty: a missing database stops nobody
    /\ pc[p] = "stat"
    /\ pc' = [pc EXCEPT ![p] = IF manifest /\ cmd[p] = "create" THEN "idle" ELSE "open"]
    /\ UNCHANGED <<disk, cmd, local>>

(* DBExists and the exits that depend on it: a creator goes on without a    *)
(* database, everybody else with one.                                       *)
CheckExists(p) ==
    /\ pc[p] = "stat"
    /\ pc' = [pc EXCEPT ![p] =
                IF manifest = (cmd[p] = "create") THEN "idle" ELSE "open"]
    /\ UNCHANGED <<disk, cmd, local>>

OpenUnlocked(p) ==      \* faulty: does not look at the lock
    /\ pc[p] = "open"
    /\ lock' = p
    /\ manifest' = TRUE
    /\ pc' = [pc EXCEPT ![p] = IF cmd[p] = "create" THEN "genesis" ELSE "load"]
    /\ UNCHANGED <<store, lh, cmd, local>>

Open(p) ==
    /\ pc[p] = "open"
    /\ IF lock = Nobody
       THEN /\ lock' = p
            /\ manifest' = TRUE
            /\ pc' = [pc EXCEPT ![p] = IF cmd[p] = "create" THEN "genesis" ELSE "load"]
       ELSE /\ Leave(p)
            /\ UNCHANGED manifest
    /\ UNCHANGED <<store, lh, cmd, local>>

(* InitBlockChain: the genesis block and "lh" in one Update.                *)
StoreGenesis(p) ==
    /\ Go(p, "genesis", "close")
    /\ lh' = <<NewBlock(p, <<>>)>>
    /\ store' = store \cup {lh'}
    /\ LastHash' = [LastHash EXCEPT ![p] = lh']
    /\ UNCHANGED <<manifest, lock, cmd, tx, tip>>

(* ContinueBlockChain reads "lh"; a database without it is a panic, and the *)
(* deferred Close is not yet there.                                         *)
Load(p) ==
    /\ pc[p] = "load"
    /\ IF lh = <<>>
       THEN Leave(p) /\ UNCHANGED LastHash
       ELSE /\ pc' = [pc EXCEPT ![p] = "walk"]
            /\ LastHash' = [LastHash EXCEPT ![p] = lh]
            /\ UNCHANGED lock
    /\ UNCHANGED <<manifest, store, lh, cmd, tx, tip>>

(* The walk of the iterator from chain.LastHash to genesis finds a block    *)
(* under every hash.                                                        *)
Readable(hash) == \A n \in 1 .. Len(hash) : SubSeq(hash, 1, n) \in store

(* rebuildAMF and the command's own walks.  A reader is done.  A writer     *)
(* builds its transaction (addfunds ignores what it read), or panics for    *)
(* lack of funds, which closes the database like a normal end does.         *)
Walk(p) ==
    /\ pc[p] = "walk"
    /\ Readable(LastHash[p])
    /\ \/ /\ cmd[p] = "read"
          /\ pc' = [pc EXCEPT ![p] = "close"]
          /\ UNCHANGED tx
       \/ /\ cmd[p] = "write"
          /\ pc' = [pc EXCEPT ![p] = "add"]
          /\ tx' = [tx EXCEPT ![p] = LastHash[p]]
       \/ /\ cmd[p] = "write"
          /\ pc' = [pc EXCEPT ![p] = "close"]
          /\ UNCHANGED tx
    /\ UNCHANGED <<disk, cmd, LastHash, tip>>

(* AddBlock reads "lh" again and mines on top of it.                        *)
ReadTip(p) ==
    /\ Go(p, "add", "commit")
    /\ tip' = [tip EXCEPT ![p] = lh]
    /\ UNCHANGED <<disk, cmd, LastHash, tx>>

CommitKeepsLastHash(p) ==    \* faulty: chain.LastHash is left behind
    /\ Go(p, "commit", "close")
    /\ lh' = Append(tip[p], NewBlock(p, tx[p]))
    /\ store' = store \cup {lh'}
    /\ UNCHANGED <<manifest, lock, cmd, LastHash, tx, tip>>

CommitLastHashOnly(p) ==     \* faulty: the block itself is not yet written
    /\ Go(p, "commit", "close")
    /\ lh' = Append(tip[p], NewBlock(p, tx[p]))
    /\ LastHash' = [LastHash EXCEPT ![p] = lh']
    /\ UNCHANGED <<manifest, store, lock, cmd, tx, tip>>

(* The block and "lh" in one Update, which also sets chain.LastHash.        *)
Commit(p) ==
    /\ Go(p, "commit", "close")
    /\ lh' = Append(tip[p], NewBlock(p, tx[p]))
    /\ store' = store \cup {lh'}
    /\ LastHash' = [LastHash EXCEPT ![p] = lh']
    /\ UNCHANGED <<manifest, lock, cmd, tx, tip>>

CloseLeavesLock(p) ==        \* faulty: returns without closing
    /\ Go(p, "close", "idle")
    /\ UNCHANGED <<disk, cmd, local>>

Close(p) ==
    /\ pc[p] = "close"
    /\ Leave(p)
    /\ UNCHANGED <<manifest, store, lh, cmd, local>>

(* The process is killed.                                                   *)
Crash(p) ==
    /\ Crashes
    /\ pc[p] # "idle"
    /\ Leave(p)
    /\ UNCHANGED <<manifest, store, lh, cmd, local>>

Init ==
    /\ manifest = FALSE
    /\ store = {}
    /\ lh = <<>>
    /\ lock = Nobody
    /\ pc = [p \in Processes |-> "idle"]
    /\ cmd = [p \in Processes |-> "read"]
    /\ LastHash = [p \in Processes |-> <<>>]
    /\ tx = [p \in Processes |-> <<>>]
    /\ tip = [p \in Processes |-> <<>>]

Next ==
    \E p \in Processes :
        \/ \E c \in {"create", "write", "read"} : Start(p, c)
        \/ CheckExists(p)
        \/ Open(p)
        \/ StoreGenesis(p)
        \/ Load(p)
        \/ Walk(p)
        \/ ReadTip(p)
        \/ Commit(p)
        \/ Close(p)
        \/ Crash(p)

Spec == Init /\ [][Next]_vars

-----------------------------------------------------------------------------
Opened == {"genesis", "load", "walk", "add", "commit", "close"}

IsChain(c) ==
    /\ c \in Seq({c[n] : n \in DOMAIN c})
    /\ \A n \in DOMAIN c : DOMAIN c[n] = {"by", "saw"} /\ c[n].by \in Processes

(* Types, and the database is locked by exactly the process that has it     *)
(* open.                                                                    *)
TypeOK ==
    /\ manifest \in BOOLEAN
    /\ IsChain(lh)
    /\ lh # <<>> => lh \in store
    /\ \A c \in store : c # <<>> /\ IsChain(c)
    /\ pc \in [Processes -> {"idle", "stat", "open"} \cup Opened]
    /\ cmd \in [Processes -> {"create", "write", "read"}]
    /\ DOMAIN LastHash = Processes /\ DOMAIN tx = Processes /\ DOMAIN tip = Processes
    /\ \A p \in Processes : IsChain(LastHash[p]) /\ IsChain(tx[p]) /\ IsChain(tip[p])
    /\ \A p \in Processes : lock = p <=> pc[p] \in Opened

(* No walk from the last hash meets a hash without a block, whatever        *)
(* crashed: block and "lh" are written together.                            *)
ChainReadable == Readable(lh)

(* chain.LastHash, which every walk starts from, is what the database has   *)
(* under "lh" for as long as the process has the database open.             *)
LastHashFresh ==
    \A p \in Processes :
        pc[p] \in {"walk", "add", "commit", "close"} => LastHash[p] = lh

(* A block that was committed stays in the chain: the chain a user reads    *)
(* later extends the chain any user read before.                            *)
ChainOnlyGrows ==
    [][lh' # lh => Len(lh) < Len(lh') /\ SubSeq(lh', 1, Len(lh)) = lh]_vars

HalfMade == manifest /\ lh = <<>> /\ \A p \in Processes : pc[p] # "genesis"

(* Only a creator that dies between opening the database and storing the    *)
(* genesis block leaves a database that can neither be created again nor    *)
(* continued; commands that fail for any other reason leave none.           *)
HalfMadeOnlyByCrash ==
    [][~HalfMade /\ HalfMade' => \E p \in Creators : pc[p] = "genesis" /\ Crash(p)]_vars

(* Every writing command takes effect in one step, on the chain it read.    *)
Log == INSTANCE CommandLog WITH log <- lh

ImplementsLog == Log!Spec
=============================================================================
