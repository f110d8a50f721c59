-------------------------------- MODULE Block --------------------------------
(***************************************************************************)
(* Blocks, their Merkle roots and their proof of work: Blockchain/block.go *)
(* and the first half of Blockchain/proof.go.                              *)
(*                                                                         *)
(* SHA-256 is taken to be injective: a digest is represented by what was   *)
(* hashed, two nodes of a tree by the pair of their hashes.  Whether a     *)
(* digest lies below the target is up to BelowTarget.  A pointer is the    *)
(* empty sequence (nil) or the sequence of what it points to.              *)
(***************************************************************************)
EXTENDS Integers, Sequences

CONSTANT BelowTarget(_)     \* is this digest below the target of the difficulty?

nil == <<>>

-----------------------------------------------------------------------------
(* One level of the tree: neighbours are hashed together, the last node of  *)
(* an odd level goes up as it is.                                           *)
Level(nodes) ==
    [i \in 1 .. (Len(nodes) + 1) \div 2 |->
        IF 2 * i <= Len(nodes) THEN <<nodes[2 * i - 1], nodes[2 * i]>>
                               ELSE nodes[2 * i - 1]]

(* The root: a level has at most half of the nodes below it, and a single   *)
(* node stays what it is, so as many rounds as there are nodes will do.     *)
MerkleRoot(nodes) ==
    LET up[k \in Nat] == IF k = 0 THEN nodes ELSE Level(up[k - 1])
    IN  up[Len(nodes)][1]

IDs(txs) == [i \in DOMAIN txs |-> txs[i].ID]

(* The trie that an earlier call left is used as it is.                     *)
HashTransactions(b) ==
    IF b.TxTrie # nil THEN b.TxTrie[1]
    ELSE IF b.Transactions # <<>> THEN MerkleRoot(IDs(b.Transactions))
    ELSE "hash of nothing"

(* What is hashed together with a nonce.                                    *)
initData(b, nonce) ==
    [PrevHash |-> b.PrevHash, root |-> HashTransactions(b), StateRoot |-> b.StateRoot,
     AccumulatorRoot |-> b.AccumulatorRoot, Timestamp |-> b.Timestamp, nonce |-> nonce]

(* Run of ProofOfWork returns the first nonce from the random start on.     *)
Run(b, startNonce, nonce) ==
    /\ nonce >= startNonce
    /\ BelowTarget(initData(b, nonce))
    /\ \A n \in startNonce .. nonce - 1 : ~BelowTarget(initData(b, n))

Validate(b) == BelowTarget(initData(b, b.Nonce))

(* A block before it is mined.  string(block.Timestamp) is the string of    *)
(* the rune with that number; a time of our days is no rune, and the string *)
(* is U+FFFD whatever the time.                                             *)
Unmined(txs, prevHash, time) ==
    LET b == [Transactions |-> txs, PrevHash |-> prevHash, Timestamp |-> time, TxTrie |-> nil]
        root == HashTransactions(b)
        accumulatorRoot == <<root, prevHash>>
    IN  [Transactions |-> txs, PrevHash |-> prevHash, Timestamp |-> time,
         TxTrie |-> IF txs # <<>> THEN <<root>> ELSE nil,
         AccumulatorRoot |-> accumulatorRoot,
         StateRoot |-> <<accumulatorRoot, "U+FFFD">>]

WithNonce(b, nonce) ==
    [Transactions |-> b.Transactions, PrevHash |-> b.PrevHash, Timestamp |-> b.Timestamp,
     TxTrie |-> b.TxTrie, AccumulatorRoot |-> b.AccumulatorRoot, StateRoot |-> b.StateRoot,
     Nonce |-> nonce, Hash |-> initData(b, nonce)]

(* The blocks CreateBlock may return for a start nonce.                     *)
CreateBlock(txs, prevHash, time, startNonce, nonces) ==
    LET b == Unmined(txs, prevHash, time)
    IN  {WithNonce(b, nonce) : nonce \in {n \in nonces : Run(b, startNonce, n)}}

(* The archived block: no trie, and of a transaction only its ID.           *)
PruneBlockData(b) ==
    [Transactions |-> [i \in DOMAIN b.Transactions |-> [ID |-> b.Transactions[i].ID]],
     PrevHash |-> b.PrevHash, Timestamp |-> b.Timestamp, TxTrie |-> nil,
     AccumulatorRoot |-> b.AccumulatorRoot, StateRoot |-> b.StateRoot,
     Nonce |-> b.Nonce, Hash |-> b.Hash]
=============================================================================
