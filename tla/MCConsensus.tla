---------------------------- MODULE MCConsensus ----------------------------
(* Small instances of Consensus and Block for TLC.                          *)
EXTENDS Consensus, TLC

CONSTANTS n1, n2, n3, n4, n5, left, right

NodeSymmetry == Permutations(Nodes)

(* One nonce of four solves a block, another one for another block.         *)
OneOfFour(digest) == (digest.nonce + Len(digest.root)) % 4 = 0

Payment(id) == [ID |-> <<id>>, outputs |-> "paid"]

Txs(ids) == [i \in DOMAIN ids |-> Payment(ids[i])]

(* Every block of up to four of three transactions, mined from each of some *)
(* random starts.                                                           *)
SomeBlocks ==
    UNION {CreateBlock(Txs(ids), "tip", 1, start, 0 .. 10) :
              ids \in UNION {[1 .. k -> {"t", "u", "v"}] : k \in 0 .. 4}, start \in 0 .. 3}

(* Two blocks for the same height, which hold the same transactions in two  *)
(* orders.                                                                  *)
TwoOrders ==
    left :> (CHOOSE block \in CreateBlock(Txs(<<"t", "u">>), "tip", 1, 0, 0 .. 10) : TRUE)
    @@ right :> (CHOOSE block \in CreateBlock(Txs(<<"u", "t">>), "tip", 1, 3, 0 .. 10) : TRUE)

(* A mined block validates, and so does its archived copy, which has the    *)
(* same hash, however the transactions are paired in the tree.              *)
ASSUME MinedBlocksValidate ==
    \A block \in SomeBlocks :
        /\ Validate(block) /\ Validate(PruneBlockData(block))
        /\ initData(PruneBlockData(block), block.Nonce) = block.Hash

(* Different lists of transactions have different roots: a root stands for  *)
(* the list, also where an odd node goes up alone.                          *)
ASSUME RootsDiffer ==
    \A s, t \in UNION {[1 .. k -> {<<"t">>, <<"u">>, <<"v">>}] : k \in 1 .. 4} :
        MerkleRoot(s) = MerkleRoot(t) => s = t
=============================================================================
