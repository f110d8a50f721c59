------------------------------- MODULE Forest -------------------------------
(***************************************************************************)
(* The Adaptive Merkle Forest (Blockchain/adaptive_merkle_forest.go) and   *)
(* the two goroutines that share it: the one that runs a command           *)
(* (rebuildAMF, then AddBlock or the verification of every block) and the  *)
(* shard monitor.  Nothing of it is stored: every command starts a forest. *)
(*                                                                         *)
(* The Data of a shard is a Go slice, so it is modelled as one: a window   *)
(* (offset, length) on a backing array that other shards may look at too.  *)
(* External: append, which writes in place while the array has room and    *)
(* otherwise copies to a larger one, as large as the runtime of Go 1.24    *)
(* makes it for elements of three 64-bit words.                            *)
(*                                                                         *)
(* The choice of the best shard and the search of GenerateMerkleProof hold *)
(* the forest lock for reading throughout, and only the two goroutines     *)
(* exist: both are one step here.  The lock of a shard is held from        *)
(* AddToShard to the end of Split.  When two shards on one array are used  *)
(* under their two locks the code races on the elements; the model orders  *)
(* the two uses one way or the other.                                      *)
(***************************************************************************)
EXTENDS Naturals, SequencesExt

CONSTANTS
    shardThreshold,   \* a shard with more load than this is split
    ChainLengths,     \* how many blocks the chain may have
    Monitor           \* does the forest live to see the monitor tick, a minute or more?

ASSUME ForestAssumption ==
    /\ shardThreshold \in Nat \ {0}
    /\ ChainLengths \subseteq Nat \ {0}
    /\ Monitor \in BOOLEAN

VARIABLES
    arrays,      \* the backing arrays, each as long as its capacity
    shard,       \* every AMFShard ever made
    Shards,      \* amf.Shards: indices in shard
    height,      \* blocks of the chain, with the one being added
    stage,       \* "rebuild", "add" (AddBlock) or "validate" (validateChain)
    todo,        \* the data still to be handed to AddData
    unverified,  \* the blocks that VerifyBlockIntegrity has yet to look at
    retried,     \* has it tried to recover the first of them?
    failed,      \* did it return false?
    pc,          \* where AddData is: "idle", "append" or "split"
    best,        \* bestShard of AddData
    scan,        \* the monitor: 0 asleep, else at Shards[scan] holding the forest lock
    candidates   \* mergeCandidates of the monitor

forest == <<arrays, shard, Shards>>
command == <<height, stage, todo, unverified, retried, failed>>
adder == <<pc, best>>
monitor == <<scan, candidates>>
vars == <<forest, command, adder, monitor>>

-----------------------------------------------------------------------------
(* Slices.                                                                  *)

Empty == <<0, "nothing">>      \* what a fresh array holds

Slice(arr, off, len) == [arr |-> arr, off |-> off, len |-> len]

Contents(mem, s) == SubSeq(mem[s.arr], s.off + 1, s.off + s.len)

Write(array, from, new) ==
    [k \in DOMAIN array |-> IF k \in from + 1 .. from + Len(new)
                            THEN new[k - from] ELSE array[k]]

(* The places that the size classes of the allocator hold, up to 32 KB.     *)
SizeClasses == 1 .. 10 \cup
    {12, 13, 14, 16, 17, 18, 20, 21, 23, 26, 29, 31, 37, 42, 47, 53, 58, 63, 74, 85, 95, 111, 127,
     133, 143, 170, 202, 213, 223, 255, 271, 282, 287, 341, 394, 405, 426, 453, 511, 565, 597,
     682, 767, 794, 853, 906, 1023, 1135, 1194, 1365}

Smallest(S, need) == Min({n \in S : n >= need})

(* Larger arrays get whole pages.                                           *)
RoundUp(need) ==
    IF need <= 1365 THEN Smallest(SizeClasses, need)
    ELSE (((24 * need + 8191) \div 8192) * 8192) \div 24

(* From 256 places on the capacity no longer doubles: it grows, step by     *)
(* step, by a quarter and a bit.                                            *)
Grown(old, need) ==
    LET next(n) == n + (n + 768) \div 4
        steps == {next(old), next(next(old)), next(next(next(old))), next(next(next(next(old))))}
    IN  RoundUp(IF need > 2 * old THEN need
                ELSE IF old < 256 THEN 2 * old
                ELSE Smallest(steps, need))

(* The memory and the slice after s = append(s, new...).                    *)
Appended(mem, s, new) ==
    LET end == s.off + s.len
        cap == Len(mem[s.arr]) - s.off
        size == s.len + Len(new)
        fresh == [k \in 1 .. Grown(cap, size) |-> Empty]
    IN  IF size <= cap
        THEN [mem |-> [mem EXCEPT ![s.arr] = Write(@, end, new)],
              slice |-> Slice(s.arr, s.off, size)]
        ELSE [mem |-> Append(mem, Write(fresh, 0, Contents(mem, s) \o new)),
              slice |-> Slice(Len(mem) + 1, 0, size)]

Data(s) == Contents(arrays, s.data)

-----------------------------------------------------------------------------
(* Shards.  The root of buildMerkleTree commits to the data it was built    *)
(* from, and is represented by them.                                        *)

NewShard(s, mem) == [data |-> s, root |-> Contents(mem, s), load |-> 0, idle |-> FALSE]

Load(k) == shard[Shards[k]].load

FindOptimalShard ==
    LET k == CHOOSE k \in DOMAIN Shards :
                \A j \in DOMAIN Shards : /\ Load(k) <= Load(j)
                                         /\ Load(k) = Load(j) => k <= j
    IN  Shards[k]

(* amf.Shards without one shard, which is there at most once.               *)
Without(list, s) ==
    IF s \in Range(list) THEN RemoveAt(list, CHOOSE k \in DOMAIN list : list[k] = s) ELSE list

GenerateMerkleProof(data) ==
    \E k \in DOMAIN Shards : data \in Range(Data(shard[Shards[k]]))

-----------------------------------------------------------------------------
(* The command.                                                             *)

Hash(b) == <<b, "hash">>
Serialized(b) == <<b, "block">>
TxIDOf(b) == <<b, "tx">>

RebuildWithoutGenesis(n) ==    \* faulty: stops before the block it should stop after
    SubSeq([k \in 1 .. 3 * n |->
               LET b == n - (k - 1) \div 3
               IN  <<Hash(b), Serialized(b), TxIDOf(b)>>[((k - 1) % 3) + 1]],
           1, 3 * n - 3)

(* rebuildAMF goes from the last block to genesis.                          *)
Rebuild(n) ==
    [k \in 1 .. 3 * n |->
        LET b == n - (k - 1) \div 3
        IN  <<Hash(b), Serialized(b), TxIDOf(b)>>[((k - 1) % 3) + 1]]

AddDataDone == pc = "idle" /\ todo = <<>>

AddBlockWithoutHash ==    \* faulty: the hash is not handed to the forest
    /\ stage = "rebuild" /\ AddDataDone
    /\ stage' = "add"
    /\ height' = height + 1
    /\ todo' = <<TxIDOf(height'), Serialized(height')>>
    /\ unverified' = <<height'>>
    /\ UNCHANGED <<forest, retried, failed, adder, monitor>>

AddBlock ==
    /\ stage = "rebuild" /\ AddDataDone
    /\ stage' = "add"
    /\ height' = height + 1
    /\ todo' = <<TxIDOf(height'), Hash(height'), Serialized(height')>>
    /\ unverified' = <<height'>>
    /\ UNCHANGED <<forest, retried, failed, adder, monitor>>

(* Genesis is not looked up in the forest.                                  *)
ValidateChain ==
    /\ stage = "rebuild" /\ AddDataDone
    /\ stage' = "validate"
    /\ unverified' = [k \in 1 .. height - 1 |-> height + 1 - k]
    /\ UNCHANGED <<forest, height, todo, retried, failed, adder, monitor>>

(* VerifyBlockIntegrity of the next block.                                  *)
Verified ==
    /\ AddDataDone /\ unverified # <<>>
    /\ GenerateMerkleProof(Hash(Head(unverified)))
    /\ unverified' = Tail(unverified)
    /\ retried' = FALSE
    /\ UNCHANGED <<forest, height, stage, todo, failed, adder, monitor>>

RecoverBlockOnly ==      \* faulty: adds the block, not the hash it looks for
    /\ AddDataDone /\ unverified # <<>>
    /\ ~retried /\ ~GenerateMerkleProof(Hash(Head(unverified)))
    /\ todo' = <<Serialized(Head(unverified))>>
    /\ retried' = TRUE
    /\ UNCHANGED <<forest, height, stage, unverified, failed, adder, monitor>>

Recover ==
    /\ AddDataDone /\ unverified # <<>>
    /\ ~retried /\ ~GenerateMerkleProof(Hash(Head(unverified)))
    /\ todo' = <<Hash(Head(unverified)), Serialized(Head(unverified))>>
    /\ retried' = TRUE
    /\ UNCHANGED <<forest, height, stage, unverified, failed, adder, monitor>>

GiveUp ==
    /\ AddDataDone /\ unverified # <<>>
    /\ retried /\ ~GenerateMerkleProof(Hash(Head(unverified)))
    /\ failed' = TRUE
    /\ unverified' = Tail(unverified)
    /\ retried' = FALSE
    /\ UNCHANGED <<forest, height, stage, todo, adder, monitor>>

-----------------------------------------------------------------------------
(* AddData: the choice of the shard, then the work under its lock, then the *)
(* split, which waits for the forest lock.                                  *)

PickShard ==
    /\ pc = "idle" /\ todo # <<>>
    /\ scan = 0
    /\ best' = FindOptimalShard
    /\ pc' = "append"
    /\ UNCHANGED <<forest, command, monitor>>

AddToShardOldRoot ==      \* faulty: the tree is not rebuilt
    /\ pc = "append"
    /\ LET s == shard[best]
           after == Appended(arrays, s.data, <<Head(todo)>>)
       IN  /\ arrays' = after.mem
           /\ shard' = [shard EXCEPT ![best] = [data |-> after.slice, root |-> s.root,
                                                load |-> s.load + 1, idle |-> FALSE]]
           /\ pc' = IF s.load + 1 > shardThreshold THEN "split" ELSE "idle"
    /\ todo' = Tail(todo)
    /\ UNCHANGED <<Shards, height, stage, unverified, retried, failed, best, monitor>>

AddToShard ==
    /\ pc = "append"
    /\ LET s == shard[best]
           after == Appended(arrays, s.data, <<Head(todo)>>)
       IN  /\ arrays' = after.mem
           /\ shard' = [shard EXCEPT ![best] =
                 [data |-> after.slice, root |-> Contents(after.mem, after.slice),
                  load |-> s.load + 1, idle |-> FALSE]]
           /\ pc' = IF s.load + 1 > shardThreshold THEN "split" ELSE "idle"
    /\ todo' = Tail(todo)
    /\ UNCHANGED <<Shards, height, stage, unverified, retried, failed, best, monitor>>

HalvesSkipMiddle(s) ==     \* faulty: Data[midPoint+1:]
    LET mid == s.len \div 2
    IN  <<Slice(s.arr, s.off, mid), Slice(s.arr, s.off + mid + 1, s.len - mid - 1)>>

HalvesLeftWhole(s) ==      \* faulty: the left shard keeps everything
    LET mid == s.len \div 2
    IN  <<Slice(s.arr, s.off, s.len), Slice(s.arr, s.off + mid, s.len - mid)>>

Halves(s) ==
    LET mid == s.len \div 2
    IN  <<Slice(s.arr, s.off, mid), Slice(s.arr, s.off + mid, s.len - mid)>>

SplitKeepsParent ==      \* faulty: the overloaded shard stays in the list
    /\ pc = "split"
    /\ scan = 0
    /\ LET halves == Halves(shard[best].data)
       IN  shard' = shard \o <<NewShard(halves[1], arrays), NewShard(halves[2], arrays)>>
    /\ Shards' = Shards \o <<Len(shard) + 1, Len(shard) + 2>>
    /\ pc' = "idle"
    /\ UNCHANGED <<arrays, command, best, monitor>>

Split ==
    /\ pc = "split"
    /\ scan = 0
    /\ LET halves == Halves(shard[best].data)
       IN  shard' = shard \o <<NewShard(halves[1], arrays), NewShard(halves[2], arrays)>>
    /\ Shards' = Without(Shards, best) \o <<Len(shard) + 1, Len(shard) + 2>>
    /\ pc' = "idle"
    /\ UNCHANGED <<arrays, command, best, monitor>>

-----------------------------------------------------------------------------
(* mergeLowActivityShards, on every tick of the monitor.                    *)

LockForest ==
    /\ Monitor
    /\ scan = 0 /\ Len(Shards) > 1
    /\ scan' = 1
    /\ candidates' = <<>>
    /\ UNCHANGED <<forest, command, adder>>

LockedByAdder(s) == pc = "split" /\ best = s

ScanShard ==
    /\ scan \in DOMAIN Shards
    /\ ~LockedByAdder(Shards[scan])
    /\ candidates' =
          IF shard[Shards[scan]].idle /\ Load(scan) < shardThreshold \div 2
          THEN Append(candidates, Shards[scan]) ELSE candidates
    /\ scan' = scan + 1
    /\ UNCHANGED <<forest, command, adder>>

NothingToMergeKeepsLock ==      \* faulty: returns with the forest locked
    /\ scan > Len(Shards) /\ Len(candidates) < 2
    /\ UNCHANGED vars

NothingToMerge ==
    /\ scan > Len(Shards) /\ Len(candidates) < 2
    /\ scan' = 0
    /\ UNCHANGED <<forest, command, adder, candidates>>

MergeFirstOnly ==        \* faulty: the data of the second shard are left out
    /\ scan > Len(Shards) /\ Len(candidates) >= 2
    /\ \A k \in {1, 2} : ~LockedByAdder(candidates[k])
    /\ shard' = Append(shard, NewShard(shard[candidates[1]].data, arrays))
    /\ Shards' = Append(Without(Without(Shards, candidates[1]), candidates[2]), Len(shard) + 1)
    /\ scan' = 0
    /\ UNCHANGED <<arrays, command, adder, candidates>>

Merge ==
    /\ scan > Len(Shards) /\ Len(candidates) >= 2
    /\ \A k \in {1, 2} : ~LockedByAdder(candidates[k])
    /\ LET s1 == shard[candidates[1]]
           s2 == shard[candidates[2]]
           merged == Appended(arrays, s1.data, Data(s2))
       IN  /\ arrays' = merged.mem
           /\ shard' = Append(shard, NewShard(merged.slice, merged.mem))
    /\ Shards' = Append(Without(Without(Shards, candidates[1]), candidates[2]), Len(shard) + 1)
    /\ scan' = 0
    /\ UNCHANGED <<command, adder, candidates>>

(* More than mergeInterval passes without a use of any shard: the process   *)
(* was stopped and continued.                                               *)
TimePasses ==
    /\ Monitor
    /\ shard' = [s \in DOMAIN shard |-> [shard[s] EXCEPT !.idle = TRUE]]
    /\ UNCHANGED <<arrays, Shards, command, adder, monitor>>

-----------------------------------------------------------------------------
Init ==
    /\ arrays = << <<>> >>
    /\ shard = <<NewShard(Slice(1, 0, 0), arrays)>>
    /\ Shards = <<1>>
    /\ height \in ChainLengths
    /\ stage = "rebuild"
    /\ todo = Rebuild(height)
    /\ unverified = <<>>
    /\ retried = FALSE
    /\ failed = FALSE
    /\ pc = "idle"
    /\ best = 1
    /\ scan = 0
    /\ candidates = <<>>

Command == AddBlock \/ ValidateChain \/ Verified \/ Recover \/ GiveUp

AddData == PickShard \/ AddToShard \/ Split

MergeLowActivityShards == LockForest \/ ScanShard \/ NothingToMerge \/ Merge

Next == Command \/ AddData \/ MergeLowActivityShards \/ TimePasses

Spec == Init /\ [][Next]_vars

(* The Go scheduler runs both goroutines, and its mutexes pass to whoever   *)
(* waits longest: AddData is not overtaken by the monitor for ever.         *)
FairSpec ==
    /\ Spec
    /\ WF_vars(Command)
    /\ SF_vars(AddData)
    /\ WF_vars(MergeLowActivityShards)

-----------------------------------------------------------------------------
Blocks == 1 .. height

Items == Blocks \X {"hash", "block", "tx"}

(* Types; every slice lies in its array; no shard is listed twice; and the  *)
(* adder stops for the forest lock exactly when its shard is overloaded.    *)
TypeOK ==
    /\ \A a \in DOMAIN arrays : Range(arrays[a]) \subseteq Items \cup {Empty}
    /\ \A s \in DOMAIN shard :
          /\ shard[s].data.arr \in DOMAIN arrays
          /\ shard[s].data.off + shard[s].data.len <= Len(arrays[shard[s].data.arr])
          /\ Range(shard[s].root) \subseteq Items
          /\ shard[s].load \in Nat /\ shard[s].idle \in BOOLEAN
    /\ Range(Shards) \subseteq DOMAIN shard /\ IsInjective(Shards) /\ Shards # <<>>
    /\ stage \in {"rebuild", "add", "validate"}
    /\ Range(todo) \subseteq Items /\ Range(unverified) \subseteq Blocks
    /\ retried \in BOOLEAN /\ failed \in BOOLEAN
    /\ pc \in {"idle", "append", "split"} /\ best \in DOMAIN shard
    /\ pc = "split" <=> shard[best].load > shardThreshold /\ best \in Range(Shards)
    /\ scan \in 0 .. Len(Shards) + 1 /\ Range(candidates) \subseteq DOMAIN shard

(* AddBlock finds the hash of the new block in the forest at once: none of  *)
(* the data added after it, or the splits they caused, overwrote it.        *)
NewBlockFound == stage = "add" => ~retried

(* VerifyBlockIntegrity never gives up on a block of the chain: adding the  *)
(* hash once more is enough, even if adding the block follows.              *)
VerificationSucceeds == ~failed

(* A shard has at most shardThreshold + 1 elements more than its load says, *)
(* so that splitting by load keeps shards small.                            *)
SizeBounded ==
    \A k \in DOMAIN Shards :
        shard[Shards[k]].data.len <= Load(k) + shardThreshold + 1

(* The two halves of a split share an array and may overwrite each other's  *)
(* elements, and then a root no longer commits to the data of its shard.  A *)
(* shard that append has moved to an array of its own is safe from that.    *)
OwnArrayIntact ==
    \A k \in DOMAIN Shards :
        LET s == shard[Shards[k]]
            alone == \A t \in DOMAIN shard \ {Shards[k]} : shard[t].data.arr # s.data.arr
        IN  alone => s.root = Data(s)

Entries == SumFunctionOnSet([s \in DOMAIN shard |-> shard[s].data.len], Range(Shards))

(* The forest gains one entry with every AddData and none otherwise:        *)
(* splitting neither drops nor duplicates an entry.                         *)
OneEntryPerAdd ==
    [][Entries' = Entries + IF AddToShard THEN 1 ELSE 0]_vars

(* Merging and splitting never make the forest smaller.                     *)
EntriesNeverDrop == [][Entries' >= Entries]_vars

(* Until the first split, everything that the blocks of the chain consist   *)
(* of has been handed to AddData or can be proved.  (Afterwards shards      *)
(* share arrays, and the next data added to a left half overwrite what the  *)
(* right half had.)                                                         *)
NothingLostUnsplit ==
    Len(Shards) = 1 => \A x \in Items : x \in Range(todo) \/ GenerateMerkleProof(x)

(* The adder waits for the forest lock and the monitor, which has it, for   *)
(* the adder's shard.                                                       *)
Crossed ==
    /\ pc = "split" /\ scan # 0
    /\ \/ scan \in DOMAIN Shards /\ Shards[scan] = best
       \/ scan > Len(Shards) /\ Len(candidates) >= 2 /\ best \in {candidates[1], candidates[2]}

(* Then they wait for ever: no lock is given up, and time does not help.    *)
CrossedForever == [][Crossed => Crossed']_vars

(* That is the only way for AddData not to return: whatever else the        *)
(* monitor does, the data are added and an overloaded shard is split.       *)
AddDataReturnsUnlessCrossed == pc # "idle" ~> (pc = "idle" \/ Crossed)
=============================================================================
