-------------------------- MODULE ConsensusProofs --------------------------
(***************************************************************************)
(* Theorems about modules Block and Consensus, for every set of nodes,     *)
(* blocks and scores: mined blocks and their archived copies validate, the *)
(* root and the hash of a block identify its transactions, accepted blocks *)
(* of one height exclude each other, and no block is accepted against most *)
(* of the nodes.                                                           *)
(***************************************************************************)
EXTENDS Consensus, SumLemmas, SequenceTheorems

-----------------------------------------------------------------------------
(* Blocks.                                                                  *)

(* A mined block validates, and so does its archived copy, which has lost   *)
(* the trie and the contents of its transactions: what is hashed again is   *)
(* what was mined.                                                          *)
THEOREM ArchivedBlocksValidate ==
  ASSUME NEW T, NEW txs \in Seq(T), NEW prevHash, NEW time, NEW startNonce, NEW nonces,
         NEW b \in CreateBlock(txs, prevHash, time, startNonce, nonces)
  PROVE  /\ Validate(b) /\ Validate(PruneBlockData(b))
         /\ initData(b, b.Nonce) = b.Hash
         /\ initData(PruneBlockData(b), b.Nonce) = b.Hash
<1> DEFINE u == Unmined(txs, prevHash, time)
           w == PruneBlockData(b)
           root == HashTransactions([Transactions |-> txs, PrevHash |-> prevHash,
                                     Timestamp |-> time, TxTrie |-> nil])
<1>1. PICK nonce \in nonces : Run(u, startNonce, nonce) /\ b = WithNonce(u, nonce)
  BY DEF CreateBlock
<1>2. /\ u.Transactions = txs /\ u.TxTrie = IF txs # <<>> THEN <<root>> ELSE nil
      /\ root = IF txs # <<>> THEN MerkleRoot(IDs(txs)) ELSE "hash of nothing"
  BY DEF Unmined, HashTransactions, nil
<1>3. HashTransactions(u) = root
  <2> HIDE DEF u, root
  <2>1. CASE txs # <<>>
    BY <1>2, <2>1 DEF HashTransactions, nil
  <2>2. CASE txs = <<>>
    BY <1>2, <2>2 DEF HashTransactions, nil
  <2>3. QED BY <2>1, <2>2
<1>4. /\ b.Transactions = u.Transactions /\ b.PrevHash = u.PrevHash
      /\ b.Timestamp = u.Timestamp /\ b.TxTrie = u.TxTrie /\ b.StateRoot = u.StateRoot
      /\ b.AccumulatorRoot = u.AccumulatorRoot /\ b.Nonce = nonce
      /\ b.Hash = initData(u, nonce)
  BY <1>1 DEF WithNonce
<1>5. HashTransactions(b) = root
  BY <1>2, <1>3, <1>4 DEF HashTransactions
<1>6. /\ w.PrevHash = b.PrevHash /\ w.Timestamp = b.Timestamp /\ w.TxTrie = nil
      /\ w.StateRoot = b.StateRoot /\ w.AccumulatorRoot = b.AccumulatorRoot
      /\ w.Nonce = b.Nonce
      /\ w.Transactions = [i \in DOMAIN txs |-> [ID |-> txs[i].ID]]
  BY <1>2, <1>4 DEF PruneBlockData
<1>7. IDs(w.Transactions) = IDs(txs) /\ (w.Transactions # <<>> <=> txs # <<>>)
  BY <1>6 DEF IDs
<1>8. HashTransactions(w) = root
  BY <1>2, <1>6, <1>7 DEF HashTransactions
<1> HIDE DEF u, w, root
<1>9. initData(b, b.Nonce) = initData(u, nonce)
  BY <1>3, <1>4, <1>5 DEF initData
<1>10. initData(w, b.Nonce) = initData(u, nonce)
  BY <1>3, <1>4, <1>6, <1>8 DEF initData
<1>11. QED BY <1>1, <1>4, <1>6, <1>9, <1>10 DEF Validate, Run, w

-----------------------------------------------------------------------------
(* Merkle roots.                                                            *)

(* The rounds of MerkleRoot, as the recursive function that they are, and   *)
(* the first n of them.                                                     *)
IsRounds(up, nodes) == up = [k \in Nat |-> IF k = 0 THEN nodes ELSE Level(up[k - 1])]

Rounds(nodes) == CHOOSE up : IsRounds(up, nodes)

AreFirst(g, nodes, n) == g = [k \in 0 .. n |-> IF k = 0 THEN nodes ELSE Level(g[k - 1])]

FirstRounds(nodes, n) == CHOOSE g : AreFirst(g, nodes, n)

LEMMA RootIsLastRound ==
  ASSUME NEW nodes
  PROVE  MerkleRoot(nodes) = Rounds(nodes)[Len(nodes)][1]
  BY Zenon DEF MerkleRoot, Rounds, IsRounds

LEMMA FirstAgree ==
  ASSUME NEW nodes, NEW m \in Nat, NEW n \in Nat, NEW g, NEW h,
         AreFirst(g, nodes, m), AreFirst(h, nodes, n), NEW k \in Nat, k <= m, k <= n
  PROVE  g[k] = h[k]
<1> DEFINE Bad == {i \in Nat : i <= m /\ i <= n /\ g[i] # h[i]}
<1>1. SUFFICES ASSUME Bad # {} PROVE FALSE
  OBVIOUS
<1>2. PICK i \in Bad : \A j \in Bad : i <= j
  <2>1. Bad \in SUBSET Nat
    OBVIOUS
  <2> HIDE DEF Bad
  <2>2. QED BY <1>1, <2>1, LeastNat
<1>3. i \in 0 .. m /\ i \in 0 .. n
  OBVIOUS
<1>4. i # 0
  BY <1>3 DEF AreFirst
<1>5. i - 1 \in Nat /\ i - 1 <= m /\ i - 1 <= n /\ ~(i <= i - 1)
  BY <1>3, <1>4
<1>6. g[i - 1] = h[i - 1]
  BY <1>2, <1>5
<1>7. g[i] = Level(g[i - 1]) /\ h[i] = Level(h[i - 1])
  BY <1>3, <1>4 DEF AreFirst
<1>8. QED BY <1>6, <1>7

LEMMA FirstExist ==
  ASSUME NEW nodes, NEW n \in Nat
  PROVE  AreFirst(FirstRounds(nodes, n), nodes, n)
<1> DEFINE Bad == {i \in Nat : ~\E g : AreFirst(g, nodes, i)}
<1>1. ASSUME Bad # {} PROVE FALSE
  <2>1. PICK i \in Bad : \A j \in Bad : i <= j
    <3>1. Bad \in SUBSET Nat
      OBVIOUS
    <3> HIDE DEF Bad
    <3>2. QED BY <1>1, <3>1, LeastNat
  <2>2. CASE i = 0
    <3> DEFINE g == [k \in 0 .. 0 |-> nodes]
    <3>1. g = [k \in 0 .. 0 |-> IF k = 0 THEN nodes ELSE Level(g[k - 1])]
      OBVIOUS
    <3>2. AreFirst(g, nodes, 0)
      BY <3>1 DEF AreFirst
    <3>3. QED BY <2>2, <3>2
  <2>3. CASE i # 0
    <3>1. i \in Nat /\ i - 1 \in Nat /\ ~(i <= i - 1)
      BY <2>3
    <3>2. PICK g : AreFirst(g, nodes, i - 1)
      BY <2>1, <3>1
    <3> DEFINE h == [k \in 0 .. i |-> IF k = i THEN Level(g[i - 1]) ELSE g[k]]
               again == [k \in 0 .. i |-> IF k = 0 THEN nodes ELSE Level(h[k - 1])]
    <3>3. ASSUME NEW k \in 0 .. i PROVE h[k] = again[k]
      <4>1. CASE k = 0
        <5>1. k # i /\ k \in 0 .. i - 1
          BY <2>3, <3>1, <4>1
        <5>2. g[k] = nodes
          BY <3>2, <4>1, <5>1 DEF AreFirst
        <5>3. QED BY <4>1, <5>1, <5>2
      <4>2. CASE k = i
        <5>1. i - 1 \in 0 .. i /\ i - 1 # i /\ k # 0
          BY <2>3, <3>1, <4>2
        <5>2. h[i - 1] = g[i - 1] /\ h[k] = Level(g[i - 1])
          BY <4>2, <5>1
        <5>3. again[k] = Level(h[i - 1])
          BY <4>2, <5>1
        <5>4. QED BY <5>2, <5>3
      <4>3. CASE k # 0 /\ k # i
        <5>1. k \in 0 .. i - 1 /\ k - 1 \in 0 .. i /\ k - 1 # i /\ k # 0
          BY <3>1, <4>3
        <5>2. g[k] = Level(g[k - 1])
          BY <3>2, <5>1 DEF AreFirst
        <5>3. h[k] = g[k] /\ h[k - 1] = g[k - 1] /\ again[k] = Level(h[k - 1])
          BY <4>3, <5>1
        <5>4. QED BY <5>2, <5>3
      <4>4. QED BY <4>1, <4>2, <4>3
    <3>4. h = again
      <4>1. DOMAIN h = 0 .. i /\ DOMAIN again = 0 .. i
        OBVIOUS
      <4>2. h = [k \in 0 .. i |-> h[k]] /\ again = [k \in 0 .. i |-> again[k]]
        OBVIOUS
      <4> HIDE DEF h, again
      <4>3. QED BY <3>3, <4>2
    <3>5. AreFirst(h, nodes, i)
      BY <3>4 DEF AreFirst
    <3>6. QED BY <3>5
  <2>4. QED BY <2>2, <2>3
<1>2. \E g : AreFirst(g, nodes, n)
  BY <1>1
<1>3. QED BY <1>2, Zenon DEF FirstRounds

(* Each round is one level of the one before.                               *)
LEMMA RoundsUnfold ==
  ASSUME NEW nodes
  PROVE  /\ Rounds(nodes)[0] = nodes
         /\ \A k \in Nat : Rounds(nodes)[k + 1] = Level(Rounds(nodes)[k])
<1> DEFINE F(n) == FirstRounds(nodes, n)
           up == [k \in Nat |-> F(k)[k]]
           again == [k \in Nat |-> IF k = 0 THEN nodes ELSE Level(up[k - 1])]
<1>1. ASSUME NEW k \in Nat PROVE up[k] = again[k]
  <2>1. AreFirst(F(k), nodes, k) /\ k \in 0 .. k
    BY FirstExist
  <2>2. CASE k = 0
    <3>1. F(k)[k] = nodes
      BY <2>1, <2>2 DEF AreFirst
    <3>2. QED BY <2>2, <3>1
  <2>3. CASE k # 0
    <3>1. k - 1 \in Nat /\ k - 1 <= k /\ k - 1 <= k - 1
      BY <2>3
    <3>2. AreFirst(F(k - 1), nodes, k - 1)
      BY <3>1, FirstExist
    <3>3. F(k)[k] = Level(F(k)[k - 1])
      BY <2>1, <2>3 DEF AreFirst
    <3>4. F(k)[k - 1] = F(k - 1)[k - 1]
      <4> HIDE DEF F
      <4>1. QED BY <2>1, <3>1, <3>2, FirstAgree
    <3> HIDE DEF F
    <3>5. QED BY <2>3, <3>1, <3>3, <3>4
  <2>4. QED BY <2>2, <2>3
<1>2. up = again
  <2>1. up = [k \in Nat |-> up[k]] /\ again = [k \in Nat |-> again[k]]
    OBVIOUS
  <2> HIDE DEF up, again
  <2>2. QED BY <1>1, <2>1
<1>3. \E g : IsRounds(g, nodes)
  <2>1. IsRounds(up, nodes)
    BY <1>2 DEF IsRounds
  <2>2. QED BY <2>1
<1>4. IsRounds(Rounds(nodes), nodes)
  BY <1>3, Zenon DEF Rounds
<1> DEFINE r == Rounds(nodes)
<1>5. r = [k \in Nat |-> IF k = 0 THEN nodes ELSE Level(r[k - 1])]
  BY <1>4 DEF IsRounds
<1> HIDE DEF r
<1>6. r[0] = nodes
  BY <1>5
<1>7. ASSUME NEW k \in Nat PROVE r[k + 1] = Level(r[k])
  <2>1. k + 1 \in Nat /\ k + 1 # 0 /\ (k + 1) - 1 = k
    OBVIOUS
  <2>2. QED BY <1>5, <2>1
<1>8. QED BY <1>6, <1>7 DEF r

(* Half of a number, rounded up.                                            *)
LEMMA HalfUp ==
  ASSUME NEW n \in Nat
  PROVE  /\ (n + 1) \div 2 \in Nat
         /\ n = 2 * ((n + 1) \div 2) \/ n = 2 * ((n + 1) \div 2) - 1
  OBVIOUS

(* One level of a list.                                                     *)
LEMMA LevelFacts ==
  ASSUME NEW S, NEW s \in Seq(S)
  PROVE  /\ Level(s) \in Seq(S \cup (S \X S))
         /\ Len(Level(s)) = (Len(s) + 1) \div 2
         /\ \A i \in 1 .. (Len(s) + 1) \div 2 :
               /\ 2 * i <= Len(s) => Level(s)[i] = <<s[2 * i - 1], s[2 * i]>>
               /\ ~(2 * i <= Len(s)) => Level(s)[i] = s[2 * i - 1]
<1> DEFINE n == Len(s)
           m == (n + 1) \div 2
           w == [i \in 1 .. m |-> IF 2 * i <= n THEN <<s[2 * i - 1], s[2 * i]>> ELSE s[2 * i - 1]]
<1>1. n \in Nat /\ m \in Nat /\ \A i \in 1 .. n : s[i] \in S
  OBVIOUS
<1>2. ASSUME NEW i \in 1 .. m PROVE w[i] \in S \cup (S \X S)
  <2>1. 2 * i - 1 \in 1 .. n /\ (2 * i <= n => 2 * i \in 1 .. n)
    BY <1>1
  <2>2. QED BY <1>1, <2>1
<1>3. w \in Seq(S \cup (S \X S)) /\ Len(w) = m
  BY <1>1, <1>2
<1>4. Level(s) = w
  BY DEF Level
<1>5. QED BY <1>1, <1>3, <1>4

(* The number of steps to the left that lead from a node to a leaf.         *)
LeftDepth(x, k, I) ==
    \E p : /\ p[0] = x /\ p[k] \in I
           /\ \A i \in 0 .. k - 1 : \E y : p[i] = <<p[i + 1], y>>

NoPairs(I) == \A x, y : <<x, y>> \notin I

LEMMA DepthOfPair ==
  ASSUME NEW I, NEW k \in Nat, NEW x, NEW y, LeftDepth(x, k, I)
  PROVE  LeftDepth(<<x, y>>, k + 1, I)
<1>1. PICK p : /\ p[0] = x /\ p[k] \in I
               /\ \A i \in 0 .. k - 1 : \E z : p[i] = <<p[i + 1], z>>
  BY DEF LeftDepth
<1> DEFINE q == [i \in 0 .. k + 1 |-> IF i = 0 THEN <<x, y>> ELSE p[i - 1]]
<1>2. q[0] = <<x, y>> /\ \A i \in 0 .. k : q[i + 1] = p[i]
  <2>1. \A i \in 0 .. k : i + 1 \in 0 .. k + 1 /\ i + 1 # 0 /\ (i + 1) - 1 = i
    OBVIOUS
  <2>2. 0 \in 0 .. k + 1
    OBVIOUS
  <2>3. QED BY <2>1, <2>2
<1> HIDE DEF q
<1>3. q[k + 1] \in I
  BY <1>1, <1>2
<1>4. ASSUME NEW i \in 0 .. (k + 1) - 1 PROVE \E z : q[i] = <<q[i + 1], z>>
  <2>1. CASE i = 0
    <3>1. q[i] = <<q[i + 1], y>>
      BY <1>1, <1>2, <2>1
    <3>2. QED BY <3>1
  <2>2. CASE i # 0
    <3>1. i - 1 \in 0 .. k - 1 /\ i - 1 \in 0 .. k /\ i \in 0 .. k /\ (i - 1) + 1 = i
      BY <2>2
    <3>2. PICK z : p[i - 1] = <<p[i], z>>
      BY <1>1, <3>1
    <3>3. q[i] = p[i - 1] /\ q[i + 1] = p[i]
      BY <1>2, <3>1
    <3>4. q[i] = <<q[i + 1], z>>
      BY <3>2, <3>3
    <3>5. QED BY <3>4
  <2>3. QED BY <2>1, <2>2
<1>5. QED BY <1>2, <1>3, <1>4 DEF LeftDepth

(* It is a number of the node: a leaf is no pair.                           *)
LEMMA DepthIsUnique ==
  ASSUME NEW I, NoPairs(I), NEW x, NEW j \in Nat, NEW k \in Nat,
         LeftDepth(x, j, I), LeftDepth(x, k, I)
  PROVE  ~(j < k)
<1> SUFFICES ASSUME j < k PROVE FALSE
  OBVIOUS
<1>1. PICK p : /\ p[0] = x /\ p[j] \in I
               /\ \A i \in 0 .. j - 1 : \E z : p[i] = <<p[i + 1], z>>
  BY DEF LeftDepth
<1>2. PICK q : /\ q[0] = x /\ q[k] \in I
               /\ \A i \in 0 .. k - 1 : \E z : q[i] = <<q[i + 1], z>>
  BY DEF LeftDepth
<1> DEFINE Bad == {i \in Nat : i <= j /\ p[i] # q[i]}
<1>3. ASSUME Bad # {} PROVE FALSE
  <2>1. PICK i \in Bad : \A l \in Bad : i <= l
    <3>1. Bad \in SUBSET Nat
      OBVIOUS
    <3> HIDE DEF Bad
    <3>2. QED BY <1>3, <3>1, LeastNat
  <2>2. i \in Nat /\ i <= j /\ p[i] # q[i] /\ i # 0
    BY <1>1, <1>2
  <2>3. /\ i - 1 \in Nat /\ i - 1 <= j /\ ~(i <= i - 1) /\ (i - 1) + 1 = i
        /\ i - 1 \in 0 .. j - 1 /\ i - 1 \in 0 .. k - 1
    BY <2>2
  <2>4. p[i - 1] = q[i - 1]
    BY <2>1, <2>3
  <2>5. PICK y : p[i - 1] = <<p[i], y>>
    BY <1>1, <2>3
  <2>6. PICK z : q[i - 1] = <<q[i], z>>
    BY <1>2, <2>3
  <2>7. <<p[i], y>> = <<q[i], z>>
    BY <2>4, <2>5, <2>6
  <2>8. p[i] = q[i]
    BY <2>7
  <2>9. QED BY <2>2, <2>8
<1>4. p[j] = q[j]
  BY <1>3
<1>5. j \in 0 .. k - 1
  OBVIOUS
<1>6. PICK z : q[j] = <<q[j + 1], z>>
  BY <1>2, <1>5
<1>7. <<q[j + 1], z>> \in I
  BY <1>1, <1>4, <1>6
<1>8. QED BY <1>7 DEF NoPairs

(* After k rounds every node but the last has k steps to its left, and the  *)
(* last, which may have gone up alone, not more.                            *)
Even(s, k, I) ==
    /\ s # <<>>
    /\ \A i \in 1 .. Len(s) - 1 : LeftDepth(s[i], k, I)
    /\ \E j \in 0 .. k : LeftDepth(s[Len(s)], j, I)

LEMMA LevelIsEven ==
  ASSUME NEW S, NEW s \in Seq(S), NEW I, NEW k \in Nat, Even(s, k, I)
  PROVE  Even(Level(s), k + 1, I)
<1> PICK n : n = Len(s)
  OBVIOUS
<1> PICK m : m = (n + 1) \div 2
  OBVIOUS
<1> PICK w : w = Level(s)
  OBVIOUS
<1>1. /\ n \in Nat /\ n >= 1 /\ m \in Nat /\ m >= 1
      /\ w \in Seq(S \cup (S \X S)) /\ Len(w) = m
      /\ \A i \in 1 .. m :
            /\ 2 * i <= n => w[i] = <<s[2 * i - 1], s[2 * i]>>
            /\ ~(2 * i <= n) => w[i] = s[2 * i - 1]
  <2>1. s # <<>>
    BY DEF Even
  <2>2. n \in Nat /\ n >= 1
    BY <2>1
  <2>3. m \in Nat /\ m >= 1
    BY <2>2, HalfUp
  <2>4. /\ w \in Seq(S \cup (S \X S)) /\ Len(w) = m
        /\ \A i \in 1 .. m :
              /\ 2 * i <= n => w[i] = <<s[2 * i - 1], s[2 * i]>>
              /\ ~(2 * i <= n) => w[i] = s[2 * i - 1]
    BY LevelFacts
  <2>5. QED BY <2>2, <2>3, <2>4
<1>2. w # <<>> /\ (n = 2 * m \/ n = 2 * m - 1)
  <2>1. n \in Nat /\ m >= 1 /\ Len(w) = m
    BY <1>1
  <2>2. n = 2 * m \/ n = 2 * m - 1
    BY <2>1, HalfUp
  <2>3. Len(<<>>) = 0
    OBVIOUS
  <2>4. QED BY <2>1, <2>2, <2>3
<1>3. \A j \in 1 .. n - 1 : LeftDepth(s[j], k, I)
  BY DEF Even
<1>4. ASSUME NEW i \in 1 .. m - 1 PROVE LeftDepth(w[i], k + 1, I)
  <2>1. i \in 1 .. m /\ 2 * i <= n /\ 2 * i - 1 \in 1 .. n - 1
    BY <1>1, <1>2
  <2>2. LeftDepth(s[2 * i - 1], k, I)
    BY <1>3, <2>1
  <2>3. w[i] = <<s[2 * i - 1], s[2 * i]>>
    BY <1>1, <2>1
  <2>4. QED BY <2>2, <2>3, DepthOfPair
<1>5. \E j \in 0 .. k + 1 : LeftDepth(w[m], j, I)
  <2>1. CASE 2 * m <= n
    <3>1. 2 * m - 1 \in 1 .. n - 1 /\ m \in 1 .. m
      BY <1>1, <2>1
    <3>2. LeftDepth(s[2 * m - 1], k, I)
      BY <1>3, <3>1
    <3>3. w[m] = <<s[2 * m - 1], s[2 * m]>>
      BY <1>1, <2>1, <3>1
    <3>4. LeftDepth(w[m], k + 1, I) /\ k + 1 \in 0 .. k + 1
      BY <3>2, <3>3, DepthOfPair
    <3>5. QED BY <3>4
  <2>2. CASE ~(2 * m <= n)
    <3>1. 2 * m - 1 = n /\ m \in 1 .. m
      BY <1>1, <1>2, <2>2
    <3>2. w[m] = s[n]
      BY <1>1, <2>2, <3>1
    <3>3. PICK j \in 0 .. k : LeftDepth(s[n], j, I)
      BY DEF Even
    <3>4. j \in 0 .. k + 1 /\ LeftDepth(w[m], j, I)
      BY <3>2, <3>3
    <3>5. QED BY <3>4
  <2>3. QED BY <2>1, <2>2
<1>6. QED BY <1>1, <1>2, <1>4, <1>5 DEF Even

(* A pair is not taken for a node that went up alone.                       *)
LEMMA OddIsNotEven ==
  ASSUME NEW S, NEW s \in Seq(S), NEW t \in Seq(S), NEW I, NoPairs(I), NEW k \in Nat,
         Even(s, k, I), Even(t, k, I), Level(s) = Level(t)
  PROVE  ~(Len(t) < Len(s))
<1> PICK n : n = Len(s)
  OBVIOUS
<1> PICK p : p = Len(t)
  OBVIOUS
<1> PICK m : m = (n + 1) \div 2
  OBVIOUS
<1> SUFFICES ASSUME p < n PROVE FALSE
  OBVIOUS
<1>1. /\ n \in Nat /\ n >= 1 /\ p \in Nat /\ p >= 1
      /\ Len(Level(s)) = m /\ Len(Level(t)) = (p + 1) \div 2
  <2>1. s # <<>> /\ t # <<>>
    BY DEF Even
  <2>2. n \in Nat /\ n >= 1 /\ p \in Nat /\ p >= 1
    BY <2>1
  <2>3. Len(Level(s)) = m
    BY LevelFacts
  <2>4. Len(Level(t)) = (p + 1) \div 2
    BY LevelFacts
  <2>5. QED BY <2>2, <2>3, <2>4
<1>2. /\ n = 2 * m /\ p = 2 * m - 1 /\ m \in Nat /\ m >= 1
      /\ (n + 1) \div 2 = m /\ (p + 1) \div 2 = m
  <2>1. (n + 1) \div 2 = m /\ (p + 1) \div 2 = m
    BY <1>1
  <2>2. m \in Nat /\ (n = 2 * m \/ n = 2 * m - 1) /\ (p = 2 * m \/ p = 2 * m - 1)
    <3>1. n \in Nat /\ p \in Nat
      BY <1>1
    <3>2. /\ (n + 1) \div 2 \in Nat
          /\ n = 2 * ((n + 1) \div 2) \/ n = 2 * ((n + 1) \div 2) - 1
          /\ p = 2 * ((p + 1) \div 2) \/ p = 2 * ((p + 1) \div 2) - 1
      BY <3>1, HalfUp
    <3>3. QED BY <2>1, <3>2
  <2>3. QED BY <1>1, <2>1, <2>2
<1>3. Level(s)[m] = <<s[2 * m - 1], s[2 * m]>>
  <2>1. m \in 1 .. (n + 1) \div 2 /\ 2 * m <= n
    BY <1>2
  <2>2. QED BY <2>1, LevelFacts
<1>4. Level(t)[m] = t[p]
  <2>1. m \in 1 .. (p + 1) \div 2 /\ ~(2 * m <= p) /\ p \in Nat
    BY <1>1, <1>2
  <2>2. Level(t)[m] = t[2 * m - 1]
    BY <2>1, LevelFacts
  <2>3. QED BY <1>2, <2>2
<1>5. LeftDepth(s[2 * m - 1], k, I)
  <2>1. 2 * m - 1 \in 1 .. n - 1
    BY <1>2
  <2>2. QED BY <2>1 DEF Even
<1>6. LeftDepth(t[p], k + 1, I)
  BY <1>3, <1>4, <1>5, DepthOfPair
<1>7. PICK j \in 0 .. k : LeftDepth(t[p], j, I)
  BY DEF Even
<1>8. j \in Nat /\ k + 1 \in Nat /\ j < k + 1
  OBVIOUS
<1>9. QED BY <1>6, <1>7, <1>8, DepthIsUnique

(* A level determines the level below.                                      *)
LEMMA LevelInjective ==
  ASSUME NEW S, NEW s \in Seq(S), NEW t \in Seq(S), NEW I, NoPairs(I), NEW k \in Nat,
         Even(s, k, I), Even(t, k, I), Level(s) = Level(t)
  PROVE  s = t
<1> PICK n : n = Len(s)
  OBVIOUS
<1>1. n \in Nat /\ Len(t) = n
  <2>1. ~(Len(t) < Len(s)) /\ ~(Len(s) < Len(t))
    BY OddIsNotEven
  <2>2. QED BY <2>1
<1>2. ASSUME NEW i \in 1 .. n PROVE s[i] = t[i]
  <2> DEFINE r == (i + 1) \div 2
  <2>1. /\ r \in 1 .. (n + 1) \div 2 /\ (i = 2 * r - 1 \/ i = 2 * r)
    BY <1>1
  <2> HIDE DEF r
  <2>2. /\ 2 * r <= n => /\ Level(s)[r] = <<s[2 * r - 1], s[2 * r]>>
                        /\ Level(t)[r] = <<t[2 * r - 1], t[2 * r]>>
        /\ ~(2 * r <= n) => Level(s)[r] = s[2 * r - 1] /\ Level(t)[r] = t[2 * r - 1]
    BY <1>1, <2>1, LevelFacts
  <2>3. CASE 2 * r <= n
    <3>1. <<s[2 * r - 1], s[2 * r]>> = <<t[2 * r - 1], t[2 * r]>>
      BY <2>2, <2>3
    <3>2. s[2 * r - 1] = t[2 * r - 1] /\ s[2 * r] = t[2 * r]
      BY <3>1
    <3>3. QED BY <2>1, <3>2
  <2>4. CASE ~(2 * r <= n)
    <3>1. i = 2 * r - 1
      BY <1>1, <2>1, <2>4
    <3>2. QED BY <2>2, <2>4, <3>1
  <2>5. QED BY <2>3, <2>4
<1>3. QED BY <1>1, <1>2, SeqEqual

(* The rounds of a list of leaves are even lists, each with a node less     *)
(* than the one before until there is only one.                             *)
LEMMA RoundsAreEven ==
  ASSUME NEW I, NEW s \in Seq(I), s # <<>>, NEW k \in Nat
  PROVE  /\ \E S : Rounds(s)[k] \in Seq(S)
         /\ Even(Rounds(s)[k], k, I)
         /\ Len(Rounds(s)[k]) = 1 \/ Len(Rounds(s)[k]) + k <= Len(s)
<1> DEFINE up == Rounds(s)
           Good(i) == /\ \E S : up[i] \in Seq(S)
                      /\ Even(up[i], i, I)
                      /\ Len(up[i]) = 1 \/ Len(up[i]) + i <= Len(s)
           Bad == {i \in Nat : ~Good(i)}
<1>1. up[0] = s /\ \A i \in Nat : up[i + 1] = Level(up[i])
  BY RoundsUnfold
<1> HIDE DEF up
<1>2. ASSUME NEW x \in I PROVE LeftDepth(x, 0, I)
  <2> DEFINE p == [i \in {0} |-> x]
  <2>1. p[0] = x /\ p[0] \in I /\ \A i \in 0 .. 0 - 1 : \E y : p[i] = <<p[i + 1], y>>
    OBVIOUS
  <2> HIDE DEF p
  <2>2. QED BY <2>1 DEF LeftDepth
<1>3. Good(0)
  <2>1. Len(s) \in Nat /\ Len(s) >= 1 /\ \A i \in 1 .. Len(s) : s[i] \in I
    OBVIOUS
  <2>2. \A i \in 1 .. Len(s) : LeftDepth(s[i], 0, I)
    BY <1>2, <2>1
  <2>3. Even(s, 0, I)
    <3>1. 0 \in 0 .. 0 /\ LeftDepth(s[Len(s)], 0, I)
      BY <2>1, <2>2
    <3>2. QED BY <2>1, <2>2, <3>1 DEF Even
  <2>4. QED BY <1>1, <2>1, <2>3
<1>4. ASSUME NEW i \in Nat, Good(i) PROVE Good(i + 1)
  <2>1. PICK S : up[i] \in Seq(S)
    BY <1>4
  <2>2. Even(up[i], i, I) /\ up[i + 1] = Level(up[i])
    BY <1>1, <1>4
  <2>3. /\ up[i + 1] \in Seq(S \cup (S \X S))
        /\ Len(up[i + 1]) = (Len(up[i]) + 1) \div 2
    <3> PICK u : u = up[i]
      OBVIOUS
    <3>1. u \in Seq(S)
      BY <2>1
    <3>2. Level(u) \in Seq(S \cup (S \X S)) /\ Len(Level(u)) = (Len(u) + 1) \div 2
      BY <3>1, LevelFacts
    <3>3. QED BY <2>2, <3>2
  <2>4. Even(up[i + 1], i + 1, I)
    BY <2>1, <2>2, LevelIsEven
  <2>5. Len(up[i + 1]) = 1 \/ Len(up[i + 1]) + (i + 1) <= Len(s)
    <3>1. Len(up[i]) \in Nat /\ Len(s) \in Nat
      BY <2>1
    <3>2. Len(up[i]) = 1 \/ Len(up[i]) + i <= Len(s)
      BY <1>4
    <3>3. Len(up[i]) >= 1
      <4>1. up[i] # <<>>
        BY <2>2 DEF Even
      <4>2. QED BY <2>1, <4>1
    <3> DEFINE a == Len(up[i])
               b == Len(up[i + 1])
    <3>4. b \in Nat /\ (a = 2 * b \/ a = 2 * b - 1)
      BY <2>3, <3>1, HalfUp
    <3> HIDE DEF a, b
    <3>5. (a = 1 \/ a + i <= Len(s)) /\ a >= 1 /\ a \in Nat /\ Len(s) \in Nat
      BY <3>1, <3>2, <3>3 DEF a
    <3>6. b = 1 \/ b + (i + 1) <= Len(s)
      BY <3>4, <3>5
    <3>7. QED BY <3>6 DEF b
  <2>6. QED BY <2>3, <2>4, <2>5
<1> HIDE DEF Good
<1>5. ASSUME Bad # {} PROVE FALSE
  <2>1. PICK i \in Bad : \A j \in Bad : i <= j
    <3>1. Bad \in SUBSET Nat
      OBVIOUS
    <3> HIDE DEF Bad
    <3>2. QED BY <1>5, <3>1, LeastNat
  <2>2. i \in Nat /\ ~Good(i) /\ i # 0
    BY <1>3
  <2>3. i - 1 \in Nat /\ ~(i <= i - 1) /\ (i - 1) + 1 = i
    BY <2>2
  <2>4. Good(i - 1)
    BY <2>1, <2>3
  <2>5. Good((i - 1) + 1)
    BY <1>4, <2>3, <2>4
  <2>6. QED BY <2>2, <2>3, <2>5
<1>6. Good(k)
  BY <1>5
<1>7. QED BY <1>6 DEF Good, up

(* From a certain round on the root is all that is left.                    *)
LEMMA RootRemains ==
  ASSUME NEW I, NEW s \in Seq(I), s # <<>>, NEW k \in Nat, k >= Len(s)
  PROVE  Rounds(s)[k] = <<MerkleRoot(s)>>
<1> DEFINE up == Rounds(s)
           Bad == {i \in Nat : i >= Len(s) /\ up[i] # up[Len(s)]}
<1>1. ASSUME NEW i \in Nat, i >= Len(s)
      PROVE  (\E S : up[i] \in Seq(S)) /\ Len(up[i]) = 1
  <2>1. /\ \E S : up[i] \in Seq(S)
        /\ Even(up[i], i, I)
        /\ Len(up[i]) = 1 \/ Len(up[i]) + i <= Len(s)
    BY RoundsAreEven
  <2> HIDE DEF up
  <2>2. PICK S : up[i] \in Seq(S)
    BY <2>1
  <2>3. Len(up[i]) \in Nat /\ up[i] # <<>> /\ Len(s) \in Nat
    BY <2>1, <2>2 DEF Even
  <2>4. Len(up[i]) # 0
    BY <2>2, <2>3
  <2>5. QED BY <1>1, <2>1, <2>3, <2>4
<1>2. \A i \in Nat : up[i + 1] = Level(up[i])
  BY RoundsUnfold
<1>3. MerkleRoot(s) = up[Len(s)][1]
  BY RootIsLastRound
<1> HIDE DEF up
<1>4. ASSUME NEW i \in Nat, i >= Len(s) PROVE up[i + 1] = up[i]
  <2>1. PICK S : up[i] \in Seq(S)
    BY <1>1, <1>4
  <2>2. Len(up[i]) = 1 /\ up[i + 1] = Level(up[i])
    BY <1>1, <1>2, <1>4
  <2> PICK u : u = up[i]
    OBVIOUS
  <2>3. u \in Seq(S) /\ Len(u) = 1 /\ up[i + 1] = Level(u)
    BY <2>1, <2>2
  <2>4. /\ Level(u) \in Seq(S \cup (S \X S)) /\ Len(Level(u)) = (Len(u) + 1) \div 2
        /\ \A l \in 1 .. (Len(u) + 1) \div 2 :
              ~(2 * l <= Len(u)) => Level(u)[l] = u[2 * l - 1]
    BY <2>3, LevelFacts
  <2>5. Len(Level(u)) = 1 /\ Level(u)[1] = u[1]
    BY <2>3, <2>4
  <2>6. u \in Seq(S \cup (S \X S))
    BY <2>3
  <2>7. \A l \in 1 .. Len(u) : u[l] = Level(u)[l]
    BY <2>3, <2>5
  <2>8. u = Level(u)
    BY <2>3, <2>4, <2>5, <2>6, <2>7, SeqEqual
  <2>9. QED BY <2>3, <2>8
<1>5. ASSUME Bad # {} PROVE FALSE
  <2>1. PICK i \in Bad : \A j \in Bad : i <= j
    <3>1. Bad \in SUBSET Nat
      OBVIOUS
    <3> HIDE DEF Bad
    <3>2. QED BY <1>5, <3>1, LeastNat
  <2>2. Len(s) \in Nat
    OBVIOUS
  <2>3. i \in Nat /\ i >= Len(s) /\ up[i] # up[Len(s)] /\ i # Len(s)
    OBVIOUS
  <2>4. i - 1 \in Nat /\ i - 1 >= Len(s) /\ ~(i <= i - 1) /\ (i - 1) + 1 = i
    BY <2>2, <2>3
  <2>5. up[i - 1] = up[Len(s)]
    BY <2>1, <2>4
  <2>6. up[(i - 1) + 1] = up[i - 1]
    BY <1>4, <2>4
  <2>7. QED BY <2>3, <2>4, <2>5, <2>6
<1>6. Len(s) \in Nat /\ up[k] = up[Len(s)]
  BY <1>5
<1>7. PICK S : up[k] \in Seq(S)
  BY <1>1
<1>8. Len(up[k]) = 1
  BY <1>1
<1> PICK u : u = up[k]
  OBVIOUS
<1>9. u \in Seq(S) /\ Len(u) = 1
  BY <1>7, <1>8
<1>10. u = <<u[1]>>
  BY <1>9
<1>11. QED BY <1>3, <1>6, <1>10 DEF up

(* Different lists of transactions have different roots: a root of          *)
(* HashTransactions stands for its list, of whatever length, also where an  *)
(* odd node goes up alone.  That no ID is the hash of two hashes (NoPairs)  *)
(* is what tells a leaf from a node.                                        *)
THEOREM RootsIdentifyLists ==
  ASSUME NEW I, NoPairs(I), NEW s \in Seq(I), NEW t \in Seq(I), s # <<>>, t # <<>>,
         MerkleRoot(s) = MerkleRoot(t)
  PROVE  s = t
<1> DEFINE u == Rounds(s)
           v == Rounds(t)
           Same == {i \in Nat : u[i] = v[i]}
<1>1. Len(s) + Len(t) \in Same
  <2>1. /\ Len(s) \in Nat /\ Len(t) \in Nat /\ Len(s) + Len(t) \in Nat
        /\ Len(s) + Len(t) >= Len(s) /\ Len(s) + Len(t) >= Len(t)
    OBVIOUS
  <2>2. u[Len(s) + Len(t)] = <<MerkleRoot(s)>> /\ v[Len(s) + Len(t)] = <<MerkleRoot(t)>>
    BY <2>1, RootRemains
  <2>3. QED BY <2>1, <2>2
<1>2. PICK i \in Same : \A j \in Same : i <= j
  <2>1. Same \in SUBSET Nat /\ Same # {}
    BY <1>1
  <2> HIDE DEF Same
  <2>2. QED BY <2>1, LeastNat
<1>3. i = 0
  <2> SUFFICES ASSUME i # 0 PROVE FALSE
    OBVIOUS
  <2>1. i - 1 \in Nat /\ ~(i <= i - 1) /\ (i - 1) + 1 = i
    OBVIOUS
  <2>2. u[i] = Level(u[i - 1]) /\ v[i] = Level(v[i - 1])
    BY <2>1, RoundsUnfold
  <2>3. /\ \E S : u[i - 1] \in Seq(S)
        /\ Even(u[i - 1], i - 1, I)
    BY <2>1, RoundsAreEven
  <2>4. /\ \E S : v[i - 1] \in Seq(S)
        /\ Even(v[i - 1], i - 1, I)
    BY <2>1, RoundsAreEven
  <2> HIDE DEF u, v
  <2>5. PICK S : u[i - 1] \in Seq(S)
    BY <2>3
  <2>6. PICK T : v[i - 1] \in Seq(T)
    BY <2>4
  <2> PICK a : a = u[i - 1]
    OBVIOUS
  <2> PICK b : b = v[i - 1]
    OBVIOUS
  <2>7. a \in Seq(S \cup T) /\ b \in Seq(S \cup T)
    BY <2>5, <2>6
  <2>8. Level(a) = Level(b)
    BY <2>2
  <2>9. a = b
    BY <2>1, <2>3, <2>4, <2>7, <2>8, LevelInjective
  <2>10. QED BY <1>2, <2>1, <2>9
<1>4. u[0] = s /\ v[0] = t
  BY RoundsUnfold
<1>5. QED BY <1>2, <1>3, <1>4

(* A mined block's hash commits to it: two blocks of CreateBlock with one   *)
(* hash have the same transactions in the same order, the same block before *)
(* them, the same time and the same nonce.                                  *)
THEOREM HashIdentifiesBlock ==
  ASSUME NEW I, NoPairs(I), NEW T,
         NEW txs \in Seq(T), txs # <<>>, IDs(txs) \in Seq(I),
         NEW others \in Seq(T), others # <<>>, IDs(others) \in Seq(I),
         NEW prevHash, NEW time, NEW start, NEW nonces,
         NEW otherPrev, NEW otherTime, NEW otherStart, NEW otherNonces,
         NEW b \in CreateBlock(txs, prevHash, time, start, nonces),
         NEW c \in CreateBlock(others, otherPrev, otherTime, otherStart, otherNonces),
         b.Hash = c.Hash
  PROVE  /\ IDs(txs) = IDs(others) /\ prevHash = otherPrev
         /\ time = otherTime /\ b.Nonce = c.Nonce
<1>1. ASSUME NEW q \in Seq(T), q # <<>>, NEW p, NEW w, NEW s, NEW N,
             NEW d \in CreateBlock(q, p, w, s, N)
      PROVE  /\ d.Hash.root = MerkleRoot(IDs(q)) /\ d.Hash.PrevHash = p
             /\ d.Hash.Timestamp = w /\ d.Hash.nonce = d.Nonce
  <2> DEFINE x == Unmined(q, p, w)
  <2>1. PICK n \in N : d = WithNonce(x, n)
    BY DEF CreateBlock
  <2>2. /\ x.PrevHash = p /\ x.Timestamp = w
        /\ HashTransactions(x) = MerkleRoot(IDs(q))
    BY <1>1 DEF Unmined, HashTransactions, nil
  <2> HIDE DEF x
  <2>3. d.Nonce = n /\ d.Hash = initData(x, n)
    BY <2>1 DEF WithNonce
  <2>4. QED BY <2>2, <2>3 DEF initData
<1>2. /\ b.Hash.root = MerkleRoot(IDs(txs)) /\ b.Hash.PrevHash = prevHash
      /\ b.Hash.Timestamp = time /\ b.Hash.nonce = b.Nonce
  BY <1>1
<1>3. /\ c.Hash.root = MerkleRoot(IDs(others)) /\ c.Hash.PrevHash = otherPrev
      /\ c.Hash.Timestamp = otherTime /\ c.Hash.nonce = c.Nonce
  BY <1>1
<1>4. IDs(txs) # <<>> /\ IDs(others) # <<>>
  BY DEF IDs
<1>5. MerkleRoot(IDs(txs)) = MerkleRoot(IDs(others))
  BY <1>2, <1>3
<1>6. IDs(txs) = IDs(others)
  BY <1>4, <1>5, RootsIdentifyLists
<1>7. QED BY <1>2, <1>3, <1>6

-----------------------------------------------------------------------------
(* Types.                                                                   *)

LEMMA AnswerKeepsTypes ==
  ASSUME TypeOK, NEW n \in Nodes, NEW b \in Blocks, NEW isValid \in BOOLEAN,
         Answer(n, b, isValid)
  PROVE  TypeOK'
<1> DEFINE D == DOMAIN validations[b] \cup {n}
           answers == [m \in D |-> IF m = n THEN isValid ELSE validations[b][m]]
<1>1. /\ TrustScores' = TrustScores
      /\ DOMAIN validations' = Blocks
      /\ validations'[b] = answers
      /\ \A c \in Blocks \ {b} : validations'[c] = validations[c]
  BY DEF Answer, TypeOK
<1>2. DOMAIN answers = D /\ D \subseteq Nodes /\ \A m \in D : answers[m] \in BOOLEAN
  BY DEF TypeOK
<1> HIDE DEF D, answers
<1>3. \A c \in Blocks : /\ DOMAIN validations'[c] \subseteq Nodes
                       /\ \A m \in DOMAIN validations'[c] : validations'[c][m] \in BOOLEAN
  BY <1>1, <1>2 DEF TypeOK
<1>4. QED BY <1>1, <1>3 DEF TypeOK

(* Every answer is a yes or a no of a node and every score lies between 0   *)
(* and 1: what ValidateBlock reads.                                         *)
THEOREM TypeCorrect == Spec => []TypeOK
<1>1. Init => TypeOK
  <2>1. DOMAIN << >> = {}
    OBVIOUS
  <2>2. QED BY <2>1 DEF Init, TypeOK
<1>2. TypeOK /\ [Next]_vars => TypeOK'
  <2> SUFFICES ASSUME TypeOK, [Next]_vars PROVE TypeOK'
    OBVIOUS
  <2>1. ASSUME NEW n \in Nodes, NEW score \in Scores, AddTrustScore(n, score)
        PROVE  TypeOK'
    <3>1. TrustScores' \in [Nodes -> 0 .. 100]
      BY <2>1, ConsensusAssumption DEF AddTrustScore, TypeOK
    <3>2. QED BY <2>1, <3>1 DEF AddTrustScore, TypeOK
  <2>2. ASSUME NEW n \in Nodes, NEW b \in Blocks, NEW isValid \in BOOLEAN,
               Answer(n, b, isValid)
        PROVE  TypeOK'
    BY <2>2, AnswerKeepsTypes
  <2>3. CASE UNCHANGED vars
    BY <2>3 DEF vars, TypeOK
  <2>4. QED BY <2>1, <2>2, <2>3 DEF Next
<1>3. QED BY <1>1, <1>2, PTL DEF Spec

-----------------------------------------------------------------------------
(* What ValidateBlock counts.                                               *)

LEMMA Counts ==
  ASSUME TypeOK, NEW b \in Blocks
  PROVE  /\ IsFiniteSet(DOMAIN validations[b]) /\ IsFiniteSet(Yes(b))
         /\ Yes(b) \subseteq DOMAIN validations[b]
         /\ Cardinality(DOMAIN validations[b]) \in Nat
         /\ Cardinality(Yes(b)) \in Nat
         /\ Cardinality(Yes(b)) <= Cardinality(DOMAIN validations[b])
<1>1. IsFiniteSet(DOMAIN validations[b])
  BY ConsensusAssumption, FS_Subset DEF TypeOK
<1>2. Yes(b) \subseteq DOMAIN validations[b]
  BY DEF Yes
<1>3. QED BY <1>1, <1>2, FS_Subset, FS_CardinalityType

LEMMA TrustRange ==
  ASSUME TypeOK, NEW n \in Nodes
  PROVE  /\ Trust(n) \in 1 .. 100
         /\ Trust(n) >= TrustThreshold => TrustScores[n] >= TrustThreshold
BY DEF TypeOK, Trust, TrustThreshold

(* Nobody's trust, or that of one node alone.                               *)
LEMMA TrustOfFew ==
  ASSUME TypeOK, NEW b \in Blocks
  PROVE  /\ Yes(b) = {} => TotalTrust(b) = 0
         /\ \A n : Yes(b) = {n} => TotalTrust(b) = Trust(n)
<1>1. ASSUME Yes(b) = {} PROVE TotalTrust(b) = 0
  BY <1>1, SumEmpty DEF TotalTrust
<1>2. ASSUME NEW n, Yes(b) = {n} PROVE TotalTrust(b) = Trust(n)
  <2> DEFINE f == [m \in Yes(b) |-> Trust(m)]
  <2>1. n \in Nodes
    BY <1>2 DEF Yes, TypeOK
  <2>2. f[n] = Trust(n) /\ Trust(n) \in Int
    BY <1>2, <2>1, TrustRange
  <2>3. SumFunctionOnSet(f, {n}) = f[n] + SumFunctionOnSet(f, {n} \ {n})
    <3> HIDE DEF f
    <3>1. IsFiniteSet({n}) /\ n \in {n} /\ \A x \in {n} : f[x] \in Int
      BY <2>2, FS_Singleton
    <3>2. QED BY <3>1, SumRemove
  <2>4. SumFunctionOnSet(f, {n} \ {n}) = 0
    <3>1. {n} \ {n} = {} OBVIOUS
    <3>2. QED BY <3>1, SumEmpty
  <2>5. QED BY <1>2, <2>2, <2>3, <2>4 DEF TotalTrust
<1>3. QED BY <1>1, <1>2

(* Two thirds, rounded down.                                                *)
LEMMA TwoThirds ==
  ASSUME NEW n \in Nat
  PROVE  /\ (n * 2) \div 3 \in Nat
         /\ n # 1 => 2 * ((n * 2) \div 3) >= n
         /\ n \notin {0, 1, 2, 4} => 2 * ((n * 2) \div 3) > n
OBVIOUS

LEMMA AcceptedHasYes ==
  ASSUME TypeOK, NEW b \in Blocks, ValidateBlock(b)
  PROVE  Yes(b) # {} /\ Cardinality(Yes(b)) >= 1
<1>1. Yes(b) # {}
  BY TrustOfFew DEF ValidateBlock, TrustThreshold
<1>2. QED BY <1>1, Counts, FS_EmptySet

-----------------------------------------------------------------------------
(* A block that is accepted has the yes of at least half of the nodes that  *)
(* answered, and of two of them unless a single node is trusted with the    *)
(* whole threshold.                                                         *)
THEOREM AcceptedByHalf == Spec => []HalfAgreed
<1>1. TypeOK => HalfAgreed
  <2> SUFFICES ASSUME TypeOK, NEW b \in Blocks, ValidateBlock(b)
               PROVE  /\ 2 * Cardinality(Yes(b)) >= Cardinality(DOMAIN validations[b])
                      /\ \/ Cardinality(Yes(b)) >= 2
                         \/ \E n \in Yes(b) : TrustScores[n] >= TrustThreshold
    BY DEF HalfAgreed
  <2> DEFINE n == Cardinality(DOMAIN validations[b])
             y == Cardinality(Yes(b))
  <2>1. n \in Nat /\ y \in Nat /\ y >= 1
    BY Counts, AcceptedHasYes
  <2>2. y >= (n * 2) \div 3
    BY DEF ValidateBlock, NodeThreshold
  <2> HIDE DEF n, y
  <2>3. 2 * y >= n
    BY <2>1, <2>2, TwoThirds
  <2>4. ASSUME y = 1 PROVE \E k \in Yes(b) : TrustScores[k] >= TrustThreshold
    <3>1. PICK k : Yes(b) = {k}
      BY <2>4, Counts, FS_Singleton DEF y
    <3>2. k \in Nodes
      BY <3>1 DEF Yes, TypeOK
    <3>3. Trust(k) >= TrustThreshold
      BY <3>1, TrustOfFew DEF ValidateBlock
    <3>4. QED BY <3>1, <3>2, <3>3, TrustRange
  <2>5. QED BY <2>1, <2>3, <2>4 DEF n, y
<1>2. QED BY <1>1, TypeCorrect, PTL

(* Of two blocks that the same nodes answered for, none of them with a yes  *)
(* for both, at most one is accepted, however many nodes there are, but for *)
(* a tie of two or of four.                                                 *)
THEOREM OneBlockAccepted == Spec => []NoFork
<1>1. TypeOK => NoFork
  <2> SUFFICES ASSUME TypeOK, NEW a \in Blocks, NEW b \in Blocks, a # b,
                      DOMAIN validations[a] = DOMAIN validations[b],
                      Yes(a) \cap Yes(b) = {},
                      ValidateBlock(a), ValidateBlock(b)
               PROVE  /\ Cardinality(DOMAIN validations[a]) \in {2, 4}
                      /\ 2 * Cardinality(Yes(a)) = Cardinality(DOMAIN validations[a])
                      /\ Cardinality(Yes(b)) = Cardinality(Yes(a))
    BY DEF NoFork
  <2> DEFINE D == DOMAIN validations[a]
             n == Cardinality(D)
             y == Cardinality(Yes(a))
             z == Cardinality(Yes(b))
  <2>1. n \in Nat /\ y \in Nat /\ z \in Nat /\ y >= 1 /\ z >= 1
    BY Counts, AcceptedHasYes
  <2>2. y >= (n * 2) \div 3 /\ z >= (n * 2) \div 3
    BY DEF ValidateBlock, NodeThreshold
  <2>3. y + z <= n
    <3>1. IsFiniteSet(D) /\ Yes(a) \cup Yes(b) \subseteq D
      BY Counts
    <3>2. Cardinality(Yes(a) \cup Yes(b)) <= n
      BY <3>1, FS_Subset
    <3>3. Cardinality(Yes(a) \cup Yes(b)) = y + z - Cardinality({})
      BY Counts, FS_Union
    <3>4. QED BY <2>1, <3>2, <3>3, FS_EmptySet
  <2> HIDE DEF n, y, z
  <2>4. n \in {2, 4} /\ 2 * y = n /\ z = y
    BY <2>1, <2>2, <2>3, TwoThirds
  <2>5. QED BY <2>4 DEF n, y, z
<1>2. QED BY <1>1, TypeCorrect, PTL

-----------------------------------------------------------------------------
(* Support.                                                                 *)

(* Of a set and its extension by others, the latter has the larger sum.     *)
LEMMA SumOfMore ==
  ASSUME NEW S, IsFiniteSet(S), NEW T \in SUBSET S, NEW f, NEW g,
         \A x \in S : g[x] \in Nat, \A x \in T : f[x] = g[x]
  PROVE  SumFunctionOnSet(f, T) <= SumFunctionOnSet(g, S)
<1>1. IsFiniteSet(T) /\ IsFiniteSet(S \ T)
  BY FS_Subset
<1>2. SumFunctionOnSet(f, T) = SumFunctionOnSet(g, T)
  BY <1>1, SumAgree
<1>3. SumFunctionOnSet(g, S) = SumFunctionOnSet(g, T) + SumFunctionOnSet(g, S \ T)
  <2>1. \A x \in S : g[x] \in Int
    OBVIOUS
  <2>2. QED BY <2>1, SumSplit
<1>4. SumFunctionOnSet(g, T) \in Nat /\ SumFunctionOnSet(g, S \ T) \in Nat
  <2>1. \A x \in T : g[x] \in Nat
    OBVIOUS
  <2>2. \A x \in S \ T : g[x] \in Nat
    OBVIOUS
  <2>3. QED BY <1>1, <2>1, <2>2, SumNonNegative
<1>5. QED BY <1>2, <1>3, <1>4

LEMMA AnswersStay ==
  ASSUME TypeOK, [Next]_vars, NEW b \in Blocks
  PROVE  DOMAIN validations[b] \subseteq DOMAIN validations'[b]
<1>1. ASSUME NEW n \in Nodes, NEW score \in Scores, AddTrustScore(n, score)
      PROVE  DOMAIN validations[b] \subseteq DOMAIN validations'[b]
  BY <1>1 DEF AddTrustScore
<1>2. ASSUME NEW n \in Nodes, NEW c \in Blocks, NEW isValid \in BOOLEAN, Answer(n, c, isValid)
      PROVE  DOMAIN validations[b] \subseteq DOMAIN validations'[b]
  <2> DEFINE answers == [m \in DOMAIN validations[c] \cup {n} |->
                            IF m = n THEN isValid ELSE validations[c][m]]
  <2>1. validations'[b] = IF b = c THEN answers ELSE validations[b]
    BY <1>2 DEF Answer, TypeOK
  <2>2. DOMAIN answers = DOMAIN validations[c] \cup {n}
    OBVIOUS
  <2>3. QED BY <2>1, <2>2
<1>3. CASE UNCHANGED vars
  BY <1>3 DEF vars
<1>4. QED BY <1>1, <1>2, <1>3 DEF Next

LEMMA DisjointUnion ==
  ASSUME NEW S, NEW T, IsFiniteSet(S), IsFiniteSet(T), S \cap T = {}
  PROVE  Cardinality(S \cup T) = Cardinality(S) + Cardinality(T)
<1>1. Cardinality(S) \in Nat /\ Cardinality(T) \in Nat
  BY FS_CardinalityType
<1>2. Cardinality(S \cup T) = Cardinality(S) + Cardinality(T) - Cardinality(S \cap T)
  BY FS_Union
<1>3. Cardinality(S \cap T) = 0
  BY FS_EmptySet
<1>4. QED BY <1>1, <1>2, <1>3

(* A further yes: the threshold grows by no more than the number of yes.    *)
LEMMA YesNeverHurts ==
  ASSUME TypeOK, TypeOK', [Next]_vars, NEW b \in Blocks, ValidateBlock(b),
         TrustScores' = TrustScores, Yes(b) \subseteq Yes(b)',
         DOMAIN validations'[b] \ DOMAIN validations[b] \subseteq Yes(b)'
  PROVE  ValidateBlock(b)'
<1> DEFINE D == DOMAIN validations[b]
           E == DOMAIN validations'[b]
           N == E \ D
           Y == Yes(b)
           Z == Yes(b)'
           f == [m \in Y |-> Trust(m)]
           g == [m \in Z |-> Trust(m)']
<1>1. D \subseteq E
  BY AnswersStay
<1>2. /\ IsFiniteSet(D) /\ IsFiniteSet(Yes(b)) /\ Yes(b) \subseteq D
      /\ Cardinality(D) \in Nat /\ Cardinality(Yes(b)) \in Nat
  BY Counts
<1>3. /\ IsFiniteSet(E) /\ Yes(b)' \subseteq E /\ IsFiniteSet(Yes(b)')
  <2>1. E \subseteq Nodes /\ Yes(b)' \subseteq E
    BY DEF TypeOK, Yes
  <2>2. QED BY <2>1, ConsensusAssumption, FS_Subset
<1>4. IsFiniteSet(N) /\ Cardinality(N) \in Nat
  BY <1>3, FS_Subset, FS_CardinalityType
<1>5. Cardinality(E) = Cardinality(D) + Cardinality(N)
  <2>1. E = D \cup N /\ D \cap N = {}
    BY <1>1
  <2> HIDE DEF D, E, N
  <2>2. QED BY <1>2, <1>4, <2>1, DisjointUnion
<1>6. Cardinality(Yes(b)) + Cardinality(N) <= Cardinality(Yes(b)')
  <2>1. Yes(b) \cap N = {} /\ Yes(b) \cup N \subseteq Yes(b)'
    BY <1>2
  <2> HIDE DEF D, N
  <2>2. Cardinality(Yes(b) \cup N) = Cardinality(Yes(b)) + Cardinality(N)
    BY <1>2, <1>4, <2>1, DisjointUnion
  <2>3. QED BY <1>3, <2>1, <2>2, FS_Subset
<1>7. Cardinality(Yes(b)') >= (Cardinality(E) * 2) \div 3
  <2>1. Cardinality(Yes(b)) >= (Cardinality(D) * 2) \div 3
    BY DEF ValidateBlock, NodeThreshold
  <2>2. Cardinality(Yes(b)') \in Nat
    BY <1>3, FS_CardinalityType
  <2> HIDE DEF D, E, N
  <2>3. QED BY <1>2, <1>4, <1>5, <1>6, <2>1, <2>2
<1>8. \A x \in Y : f[x] \in Int /\ f[x] = g[x]
  BY <1>2 DEF TypeOK, Trust
<1>9. \A x \in Z : g[x] \in Nat
  BY <1>3 DEF TypeOK, Trust
<1>10. TotalTrust(b) = SumFunctionOnSet(f, Y) /\ TotalTrust(b)' = SumFunctionOnSet(g, Z)
  BY DEF TotalTrust
<1>11. IsFiniteSet(Y) /\ IsFiniteSet(Z) /\ Y \subseteq Z
  BY <1>2, <1>3
<1>12. b \in Mined /\ SumFunctionOnSet(f, Y) >= 67
  BY <1>10 DEF ValidateBlock, TrustThreshold
<1>13. SumFunctionOnSet(g, Z) >= 67
  <2> HIDE DEF Y, Z, f, g
  <2>1. SumFunctionOnSet(f, Y) <= SumFunctionOnSet(g, Z)
    BY <1>8, <1>9, <1>11, SumOfMore
  <2>2. SumFunctionOnSet(f, Y) \in Int
    BY <1>8, <1>11, SumType
  <2>3. SumFunctionOnSet(g, Z) \in Nat
    BY <1>9, <1>11, SumNonNegative
  <2>4. QED BY <1>12, <2>1, <2>2, <2>3
<1>14. QED BY <1>7, <1>10, <1>12, <1>13 DEF ValidateBlock, NodeThreshold, TrustThreshold

(* More trust in nodes that have some.                                      *)
LEMMA TrustNeverHurts ==
  ASSUME TypeOK, TypeOK', NEW b \in Blocks, ValidateBlock(b),
         validations' = validations,
         \A n \in Nodes : \/ TrustScores'[n] = TrustScores[n]
                          \/ 0 < TrustScores[n] /\ TrustScores[n] < TrustScores'[n]
  PROVE  ValidateBlock(b)'
<1> DEFINE f == [m \in Yes(b) |-> Trust(m)]
           g == [m \in Yes(b) |-> Trust(m)']
<1>1. Yes(b)' = Yes(b) /\ NodeThreshold(b)' = NodeThreshold(b)
  BY DEF Yes, NodeThreshold
<1>2. \A x \in Yes(b) : x \in Nodes
  BY Counts DEF TypeOK
<1>3. \A x \in Yes(b) : f[x] \in Int /\ g[x] \in Int /\ f[x] <= g[x]
  BY <1>2 DEF TypeOK, Trust
<1>4. TotalTrust(b) = SumFunctionOnSet(f, Yes(b)) /\ TotalTrust(b)' = SumFunctionOnSet(g, Yes(b))
  BY <1>1 DEF TotalTrust
<1>5. IsFiniteSet(Yes(b))
  BY Counts
<1> HIDE DEF f, g
<1>6. TotalTrust(b) <= TotalTrust(b)' /\ TotalTrust(b) \in Int /\ TotalTrust(b)' \in Int
  BY <1>3, <1>4, <1>5, SumMonotone, SumType
<1>7. QED BY <1>1, <1>6 DEF ValidateBlock, TrustThreshold

(* A further yes and more trust never turn an accepted block into a refused *)
(* one, although both the number of nodes asked for and the sum of their    *)
(* trust are computed anew.                                                 *)
THEOREM SupportIsMonotone == Spec => SupportNeverHurts
<1>1. ASSUME TypeOK, TypeOK', [Next]_vars, NEW b \in Blocks, ValidateBlock(b), Supports(b)
      PROVE  ValidateBlock(b)'
  <2>1. CASE /\ TrustScores' = TrustScores
             /\ Yes(b) \subseteq Yes(b)'
             /\ DOMAIN validations'[b] \ DOMAIN validations[b] \subseteq Yes(b)'
    BY <1>1, <2>1, YesNeverHurts
  <2>2. CASE /\ validations' = validations
             /\ \A n \in Nodes : \/ TrustScores'[n] = TrustScores[n]
                                 \/ 0 < TrustScores[n] /\ TrustScores[n] < TrustScores'[n]
    BY <1>1, <2>2, TrustNeverHurts
  <2>3. QED BY <1>1, <2>1, <2>2 DEF Supports
<1>2. TypeOK /\ TypeOK' /\ [Next]_vars =>
        [\A b \in Blocks : ValidateBlock(b) /\ Supports(b) => ValidateBlock(b)']_vars
  BY <1>1
<1>3. QED BY <1>2, TypeCorrect, PTL DEF Spec, SupportNeverHurts
=============================================================================
