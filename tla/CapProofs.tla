----------------------------- MODULE CapProofs -----------------------------
(***************************************************************************)
(* Theorems about module CapOptimizer, for any number of replicas, changes *)
(* and peers: what the vector clocks mean, that the resolver prefers the   *)
(* version with everything and looks at the order of its list only between *)
(* versions it cannot tell apart, and that the level and the timeout follow*)
(* the statistics.                                                         *)
(***************************************************************************)
EXTENDS CapOptimizer, SumLemmas, TLAPS

-----------------------------------------------------------------------------
(* Clocks and histories.                                                    *)

LEMMA HistoryMember ==
  ASSUME NEW vc \in [Replicas -> Nat], NEW k \in Replicas, NEW n \in Nat
  PROVE  <<k, n>> \in History(vc) <=> 1 <= n /\ n <= vc[k]
BY DEF History

LEMMA HistoryGrows ==
  ASSUME NEW vc \in [Replicas -> Nat], NEW r \in Replicas
  PROVE  History([vc EXCEPT ![r] = @ + 1]) = History(vc) \cup {<<r, vc[r] + 1>>}
<1> DEFINE new == [vc EXCEPT ![r] = @ + 1]
<1>1. /\ new \in [Replicas -> Nat]
      /\ new[r] = vc[r] + 1
      /\ \A k \in Replicas \ {r} : new[k] = vc[k]
  OBVIOUS
<1> HIDE DEF new
<1>2. History(new) \subseteq History(vc) \cup {<<r, vc[r] + 1>>}
  BY <1>1 DEF History
<1>3. History(vc) \cup {<<r, vc[r] + 1>>} \subseteq History(new)
  BY <1>1 DEF History
<1>4. QED BY <1>2, <1>3 DEF new

LEMMA HistoryOfMerged ==
  ASSUME NEW vc \in [Replicas -> Nat], NEW other \in [Replicas -> Nat]
  PROVE  /\ Merged(vc, other) \in [Replicas -> Nat]
         /\ History(Merged(vc, other)) = History(vc) \cup History(other)
<1>1. Merged(vc, other) \in [Replicas -> Nat]
  BY DEF Merged
<1>2. \A k \in Replicas :
         1 .. Merged(vc, other)[k] = (1 .. vc[k]) \cup (1 .. other[k])
  BY DEF Merged
<1>3. QED BY <1>1, <1>2 DEF History

(* A clock dominates another exactly when its history contains the other.   *)
LEMMA DominatesIsHistory ==
  ASSUME NEW vc \in [Replicas -> Nat], NEW other \in [Replicas -> Nat]
  PROVE  Dominates(vc, other) <=> History(other) \subseteq History(vc)
<1>1. ASSUME Dominates(vc, other) PROVE History(other) \subseteq History(vc)
  BY <1>1 DEF Dominates, History
<1>2. ASSUME History(other) \subseteq History(vc), NEW k \in Replicas
      PROVE  vc[k] >= other[k]
  <2>1. CASE other[k] = 0
    BY <2>1
  <2>2. CASE other[k] # 0
    <3>1. <<k, other[k]>> \in History(other)
      BY <2>2, HistoryMember
    <3>2. QED BY <1>2, <3>1, HistoryMember
  <2>3. QED BY <2>1, <2>2
<1>3. QED BY <1>1, <1>2 DEF Dominates

-----------------------------------------------------------------------------
(* Types.                                                                   *)

LEMMA IncrementKeepsTypes ==
  ASSUME TypeOK, NEW r \in Replicas, Increment(r)
  PROVE  TypeOK'
<1> DEFINE new == [clock[r] EXCEPT ![r] = @ + 1]
<1>1. clock[r] \in [Replicas -> Nat]
  BY DEF TypeOK
<1>2. clock' = [clock EXCEPT ![r] = new]
  BY <1>1 DEF Increment, TypeOK
<1>3. seen' = [seen EXCEPT ![r] = @ \cup {<<r, clock[r][r] + 1>>}]
  BY DEF Increment
<1>4. new \in [Replicas -> Nat] /\ History(new) = seen[r] \cup {<<r, clock[r][r] + 1>>}
  <2>1. new \in [Replicas -> Nat]
    BY <1>1
  <2>2. History(new) = History(clock[r]) \cup {<<r, clock[r][r] + 1>>}
    BY <1>1, HistoryGrows
  <2>3. seen[r] = History(clock[r])
    BY DEF TypeOK
  <2> HIDE DEF new
  <2>4. QED BY <2>1, <2>2, <2>3
<1> HIDE DEF new
<1>5. clock' \in [Replicas -> [Replicas -> Nat]]
  BY <1>2, <1>4 DEF TypeOK
<1>6. seen' = [s \in Replicas |-> History(clock'[s])]
  BY <1>2, <1>3, <1>4 DEF TypeOK
<1>7. QED BY <1>5, <1>6 DEF Increment, statistics, TypeOK, History

LEMMA MergeKeepsTypes ==
  ASSUME TypeOK, NEW r \in Replicas, NEW s \in Replicas, Merge(r, s)
  PROVE  TypeOK'
<1> DEFINE new == Merged(clock[r], clock[s])
<1>1. clock[r] \in [Replicas -> Nat] /\ clock[s] \in [Replicas -> Nat]
  BY DEF TypeOK
<1>2. clock' = [clock EXCEPT ![r] = new] /\ seen' = [seen EXCEPT ![r] = @ \cup seen[s]]
  BY DEF Merge
<1>3. new \in [Replicas -> Nat] /\ History(new) = seen[r] \cup seen[s]
  BY <1>1, HistoryOfMerged DEF TypeOK
<1> HIDE DEF new
<1>4. clock' \in [Replicas -> [Replicas -> Nat]]
  BY <1>2, <1>3 DEF TypeOK
<1>5. seen' = [t \in Replicas |-> History(clock'[t])]
  BY <1>2, <1>3 DEF TypeOK
<1>6. QED BY <1>4, <1>5 DEF Merge, statistics, TypeOK, History

(* A version always has a prefix of the changes of every replica, namely    *)
(* what its clock counts, however the replicas merge.                       *)
THEOREM TypeCorrect == Spec => []TypeOK
<1>1. Init => TypeOK
  <2> SUFFICES ASSUME Init PROVE TypeOK
    OBVIOUS
  <2>1. clock \in [Replicas -> [Replicas -> Nat]]
    BY DEF Init
  <2>2. \A r \in Replicas : History(clock[r]) = {}
    BY DEF Init, History
  <2>3. seen = [r \in Replicas |-> History(clock[r])]
    BY <2>2 DEF Init
  <2>4. DOMAIN << >> = {}
    OBVIOUS
  <2>5. QED BY <2>1, <2>3, <2>4 DEF Init, TypeOK, Range
<1>2. TypeOK /\ [Next]_vars => TypeOK'
  <2> SUFFICES ASSUME TypeOK, [Next]_vars PROVE TypeOK'
    OBVIOUS
  <2>1. ASSUME NEW r \in Replicas, Increment(r) PROVE TypeOK'
    BY <2>1, IncrementKeepsTypes
  <2>2. ASSUME NEW r \in Replicas, NEW s \in Replicas, Merge(r, s) PROVE TypeOK'
    BY <2>2, MergeKeepsTypes
  <2>3. ASSUME NEW p \in Peers, UpdateNodeHeartbeat(p) PROVE TypeOK'
    BY <2>3 DEF UpdateNodeHeartbeat, TypeOK, History, Range
  <2>4. ASSUME NEW p \in Peers, Silence(p) PROVE TypeOK'
    BY <2>4 DEF Silence, TypeOK, History, Range
  <2>4a. ASSUME NEW latency \in Latencies, Measure(latency) PROVE TypeOK'
    BY <2>4a, CapAssumption DEF Measure, TypeOK, History, Range
  <2>5. ASSUME NEW p \in Peers, DynamicAdjustConsistency(p) PROVE TypeOK'
    <3>1. Adjusted \in Eventual .. Strong
      BY DEF Adjusted, Eventual, Causal, Strong
    <3>2. QED BY <2>5, <3>1 DEF DynamicAdjustConsistency, statistics, TypeOK, History, Range
  <2>6. ASSUME NEW level \in {Eventual, Causal, Strong}, SetConsistency(level) PROVE TypeOK'
    <3>1. level \in Eventual .. Strong
      BY DEF Eventual, Causal, Strong
    <3>2. QED BY <2>6, <3>1 DEF SetConsistency, statistics, TypeOK, History, Range
  <2>7. CASE UNCHANGED vars
    BY <2>7 DEF vars, statistics, TypeOK, History
  <2>8. QED BY <2>1, <2>2, <2>3, <2>4, <2>4a, <2>5, <2>6, <2>7 DEF Next
<1>3. QED BY <1>1, <1>2, PTL DEF Spec

(* The comparison of ResolveConflicts decides the inclusion of histories.   *)
THEOREM ClocksMeanHistories == Spec => []ClockIsHistory
<1>1. TypeOK => ClockIsHistory
  BY DominatesIsHistory DEF TypeOK, ClockIsHistory
<1>2. QED BY <1>1, TypeCorrect, PTL

-----------------------------------------------------------------------------
(* The resolver.                                                            *)

LEMMA MinOfNats ==
  ASSUME NEW S \in SUBSET Nat, S # {}
  PROVE  Min(S) \in S
BY LeastNat DEF Min

(* The changes of the replicas in R that a clock counts.                    *)
HistoryOf(vc, R) == UNION {{k} \X (1 .. vc[k]) : k \in R}

LEMMA ColumnCounts ==
  ASSUME NEW k, NEW n \in Nat
  PROVE  IsFiniteSet({k} \X (1 .. n)) /\ Cardinality({k} \X (1 .. n)) = n
<1>1. IsFiniteSet(1 .. n) /\ Cardinality(1 .. n) = n
  BY FS_Interval
<1>2. IsFiniteSet({k}) /\ Cardinality({k}) = 1
  BY FS_Singleton
<1>3. /\ IsFiniteSet({k} \X (1 .. n))
      /\ Cardinality({k} \X (1 .. n)) = Cardinality({k}) * Cardinality(1 .. n)
  BY <1>1, <1>2, FS_Product
<1>4. QED BY <1>1, <1>2, <1>3

(* The entropy of a clock is the number of changes it counts.               *)
LEMMA EntropyCounts ==
  ASSUME NEW vc \in [Replicas -> Nat]
  PROVE  IsFiniteSet(History(vc)) /\ Cardinality(History(vc)) = Entropy(vc) /\ Entropy(vc) \in Nat
<1> DEFINE Counted(X) == /\ IsFiniteSet(HistoryOf(vc, X))
                         /\ Cardinality(HistoryOf(vc, X)) = SumFunctionOnSet(vc, X)
           Bad == {X \in SUBSET Replicas : ~Counted(X)}
<1>1. IsFiniteSet(Replicas)
  BY CapAssumption
<1>2. Bad = {}
  <2> SUFFICES ASSUME Bad # {} PROVE FALSE
    OBVIOUS
  <2>1. PICK W \in Bad : \A V \in SUBSET W : V # W => V \notin Bad
    <3>1. Bad \in SUBSET SUBSET Replicas
      OBVIOUS
    <3> HIDE DEF Bad
    <3>2. QED BY <1>1, <3>1, MinimalSubset
  <2>2. W \in SUBSET Replicas /\ ~Counted(W)
    BY <2>1
  <2>3. W # {}
    <3>1. HistoryOf(vc, {}) = {}
      BY DEF HistoryOf
    <3>2. Counted({})
      BY <3>1, FS_EmptySet, SumEmpty
    <3>3. QED BY <2>2, <3>2
  <2>4. PICK k : k \in W
    BY <2>3
  <2> DEFINE rest == HistoryOf(vc, W \ {k})
             column == {k} \X (1 .. vc[k])
  <2>5. Counted(W \ {k})
    BY <2>1, <2>2, <2>4
  <2>6. HistoryOf(vc, W) = rest \cup column /\ rest \cap column = {}
    BY <2>2, <2>4 DEF HistoryOf
  <2>7. vc[k] \in Nat
    BY <2>2, <2>4
  <2>8. IsFiniteSet(column) /\ Cardinality(column) = vc[k]
    BY <2>7, ColumnCounts
  <2>9. /\ IsFiniteSet(rest \cup column)
        /\ Cardinality(rest \cup column) =
              Cardinality(rest) + Cardinality(column) - Cardinality(rest \cap column)
    BY <2>5, <2>8, FS_Union
  <2>10. SumFunctionOnSet(vc, W) = vc[k] + SumFunctionOnSet(vc, W \ {k})
    <3>1. IsFiniteSet(W) /\ \A x \in W : vc[x] \in Int
      BY <1>1, <2>2, FS_Subset
    <3>2. QED BY <2>4, <3>1, SumRemove
  <2>11. Cardinality(rest) \in Nat /\ Cardinality(rest \cap column) = 0
    BY <2>5, <2>6, FS_CardinalityType, FS_EmptySet
  <2>12. Cardinality(rest) = SumFunctionOnSet(vc, W \ {k})
    BY <2>5
  <2> HIDE DEF rest, column, Counted
  <2>13. Cardinality(rest \cup column) = SumFunctionOnSet(vc, W)
    BY <2>7, <2>8, <2>9, <2>10, <2>11, <2>12
  <2>14. Counted(W)
    BY <2>6, <2>9, <2>13 DEF Counted
  <2>15. QED BY <2>2, <2>14
<1>3. Counted(Replicas)
  BY <1>2
<1>4. History(vc) = HistoryOf(vc, Replicas)
  BY DEF History, HistoryOf
<1>5. QED BY <1>3, <1>4, FS_CardinalityType DEF Entropy

(* Some listed version has the changes of all of them.                      *)
HasLatest(R) == \E top \in R : \A s \in R : seen[s] \subseteq seen[top]

(* What ResolveConflicts returns, by the set of the listed versions alone.  *)
LEMMA Resolved ==
  ASSUME TypeOK, NEW versions \in Listings
  PROVE  LET R == Range(versions)
             r == ResolveConflicts(versions)
         IN  /\ R \subseteq Replicas /\ r \in R
             /\ HasLatest(R) => \A s \in R : seen[s] \subseteq seen[r]
             /\ ~HasLatest(R) => \A s \in R : Cardinality(seen[r]) <= Cardinality(seen[s])
<1> DEFINE R == Range(versions)
           r == ResolveConflicts(versions)
<1>1. PICK k \in 1 .. MaxListed : versions \in [1 .. k -> Replicas]
  BY DEF Listings
<1>2. /\ k \in Nat /\ k >= 1
      /\ \A i \in 1 .. k : versions[i] \in Replicas /\ versions[i] \in R
  <2>1. MaxListed \in Nat
    BY CapAssumption
  <2>2. QED BY <1>1, <2>1 DEF Range
<1>3. R \subseteq Replicas /\ \A s \in R : \E i \in 1 .. k : versions[i] = s
  BY <1>1 DEF Range
<1>4. \A i, j \in 1 .. k : Dominates(clock[versions[i]], clock[versions[j]])
                           <=> seen[versions[j]] \subseteq seen[versions[i]]
  BY <1>2, DominatesIsHistory DEF TypeOK
<1>5. CASE DOMAIN versions = {1}
  <2>1. r = versions[1] /\ R = {r}
    BY <1>5 DEF ResolveConflicts, Range
  <2>2. QED BY <1>3, <2>1 DEF HasLatest
<1>6. CASE DOMAIN versions # {1} /\ Dominant(versions) # {}
  <2> DEFINE m == Min(Dominant(versions))
  <2>1. Dominant(versions) \in SUBSET Nat
    BY <1>1, <1>2 DEF Dominant
  <2>2. m \in Dominant(versions)
    BY <1>6, <2>1, MinOfNats
  <2>3. m \in 1 .. k /\ \A j \in 1 .. k : seen[versions[j]] \subseteq seen[versions[m]]
    BY <1>1, <1>4, <2>2 DEF Dominant
  <2>4. r = versions[m]
    BY <1>6 DEF ResolveConflicts
  <2> HIDE DEF m, r, R
  <2>5. r \in R /\ \A s \in R : seen[s] \subseteq seen[r]
    BY <1>2, <1>3, <2>3, <2>4
  <2>6. QED BY <1>3, <2>5 DEF HasLatest, r, R
<1>7. CASE DOMAIN versions # {1} /\ Dominant(versions) = {}
  <2> DEFINE m == Min(Smallest(versions))
             amount(i) == Entropy(clock[versions[i]])
             Amounts == {amount(i) : i \in 1 .. k}
  <2>1. \A i \in 1 .. k : amount(i) \in Nat /\ amount(i) = Cardinality(seen[versions[i]])
    <3> SUFFICES ASSUME NEW i \in 1 .. k
                 PROVE  amount(i) \in Nat /\ amount(i) = Cardinality(seen[versions[i]])
      OBVIOUS
    <3>1. /\ clock[versions[i]] \in [Replicas -> Nat]
          /\ seen[versions[i]] = History(clock[versions[i]])
      BY <1>2 DEF TypeOK
    <3>2. QED BY <3>1, EntropyCounts
  <2>2. Smallest(versions) \in SUBSET Nat
    BY <1>1, <1>2 DEF Smallest
  <2>3. Smallest(versions) # {}
    <3>1. Amounts \in SUBSET Nat
      BY <2>1
    <3>2. amount(1) \in Amounts
      BY <1>2
    <3>3. PICK n \in Amounts : \A l \in Amounts : n <= l
      <4> HIDE DEF Amounts
      <4>1. Amounts # {}
        BY <3>2
      <4>2. QED BY <3>1, <4>1, LeastNat
    <3>4. PICK i \in 1 .. k : n = amount(i)
      BY <3>3
    <3>5. \A j \in 1 .. k : amount(i) <= amount(j)
      BY <3>3, <3>4
    <3>6. i \in Smallest(versions)
      BY <1>1, <3>4, <3>5 DEF Smallest
    <3>7. QED BY <3>6
  <2>4. m \in Smallest(versions)
    BY <2>2, <2>3, MinOfNats
  <2>5. m \in 1 .. k /\ \A j \in 1 .. k : amount(m) <= amount(j)
    BY <1>1, <2>4 DEF Smallest
  <2>6. r = versions[m]
    BY <1>7 DEF ResolveConflicts
  <2>7. ~HasLatest(R)
    <3> SUFFICES ASSUME HasLatest(R) PROVE FALSE
      OBVIOUS
    <3>1. PICK t \in 1 .. k : \A s \in R : seen[s] \subseteq seen[versions[t]]
      BY <1>3 DEF HasLatest
    <3>2. \A j \in 1 .. k : Dominates(clock[versions[t]], clock[versions[j]])
      BY <1>2, <1>4, <3>1
    <3>3. t \in Dominant(versions)
      BY <1>1, <3>2 DEF Dominant
    <3>4. QED BY <1>7, <3>3
  <2> HIDE DEF m, r, R
  <2>8. r \in R /\ \A s \in R : Cardinality(seen[r]) <= Cardinality(seen[s])
    BY <1>2, <1>3, <2>1, <2>5, <2>6
  <2>9. QED BY <1>3, <2>7, <2>8 DEF r, R
<1>8. QED BY <1>5, <1>6, <1>7

(* Of listed versions one of which has the changes of all, ResolveConflicts *)
(* returns such a one: it never drops a change that it need not drop.       *)
THEOREM ResolverKeepsLatest == Spec => []LatestWins
<1>1. TypeOK => LatestWins
  <2> SUFFICES ASSUME TypeOK, NEW versions \in Listings,
                      NEW top \in Range(versions),
                      \A s \in Range(versions) : seen[s] \subseteq seen[top]
               PROVE  /\ ResolveConflicts(versions) \in Range(versions)
                      /\ \A s \in Range(versions) :
                            seen[s] \subseteq seen[ResolveConflicts(versions)]
    BY DEF LatestWins
  <2>1. HasLatest(Range(versions))
    BY DEF HasLatest
  <2>2. QED BY <2>1, Resolved
<1>2. QED BY <1>1, TypeCorrect, PTL

(* Two callers of ResolveConflicts who list the same versions, in different *)
(* orders and each as often as they like, get the same changes, or else     *)
(* versions of which neither has all changes of the other and both have     *)
(* equally many: among those of least entropy the first of the list is      *)
(* taken.                                                                   *)
THEOREM ResolverIgnoresOrder == Spec => []OrderOnlyBreaksTies
<1>1. TypeOK => OrderOnlyBreaksTies
  <2> SUFFICES ASSUME TypeOK, NEW v \in Listings, NEW w \in Listings, Range(v) = Range(w)
               PROVE  LET r == ResolveConflicts(v)
                          s == ResolveConflicts(w)
                      IN  \/ seen[r] = seen[s]
                          \/ Concurrent(r, s) /\ Cardinality(seen[r]) = Cardinality(seen[s])
    BY DEF OrderOnlyBreaksTies
  <2> DEFINE R == Range(v)
             r == ResolveConflicts(v)
             s == ResolveConflicts(w)
  <2>1. /\ r \in R /\ s \in R /\ R \subseteq Replicas
        /\ HasLatest(R) => \A t \in R : seen[t] \subseteq seen[r] /\ seen[t] \subseteq seen[s]
        /\ ~HasLatest(R) => \A t \in R : /\ Cardinality(seen[r]) <= Cardinality(seen[t])
                                         /\ Cardinality(seen[s]) <= Cardinality(seen[t])
    BY Resolved
  <2>2. \A t \in {r, s} : IsFiniteSet(seen[t]) /\ Cardinality(seen[t]) \in Nat
    <3> SUFFICES ASSUME NEW t \in Replicas
                 PROVE  IsFiniteSet(seen[t]) /\ Cardinality(seen[t]) \in Nat
      BY <2>1
    <3>1. clock[t] \in [Replicas -> Nat] /\ seen[t] = History(clock[t])
      BY DEF TypeOK
    <3>2. QED BY <3>1, EntropyCounts
  <2> HIDE DEF r, s, R
  <2>3. CASE HasLatest(R)
    <3>1. seen[r] = seen[s]
      BY <2>1, <2>3
    <3>2. QED BY <3>1 DEF r, s
  <2>4. CASE ~HasLatest(R)
    <3>1. Cardinality(seen[r]) = Cardinality(seen[s])
      BY <2>1, <2>2, <2>4
    <3>2. seen[r] \subseteq seen[s] => seen[r] = seen[s]
      BY <2>2, <3>1, FS_Subset
    <3>3. seen[s] \subseteq seen[r] => seen[r] = seen[s]
      BY <2>2, <3>1, FS_Subset
    <3>4. seen[r] = seen[s] \/ (Concurrent(r, s) /\ Cardinality(seen[r]) = Cardinality(seen[s]))
      BY <3>1, <3>2, <3>3 DEF Concurrent
    <3>5. QED BY <3>4 DEF r, s
  <2>5. QED BY <2>3, <2>4
<1>2. QED BY <1>1, TypeCorrect, PTL

-----------------------------------------------------------------------------
(* The statistics.                                                          *)

LEMMA LateAreHeard ==
  ASSUME TypeOK
  PROVE  Heard \in Nat /\ TimedOut \in Nat /\ TimedOut <= Heard
<1>1. IsFiniteSet(DOMAIN LastHeartbeats)
  BY CapAssumption, FS_Subset DEF TypeOK
<1>2. {p \in DOMAIN LastHeartbeats : LastHeartbeats[p] = "late"} \subseteq DOMAIN LastHeartbeats
  OBVIOUS
<1>3. QED BY <1>1, <1>2, FS_Subset, FS_CardinalityType DEF Heard, TimedOut

LEMMA MinOfTwo ==
  ASSUME NEW x \in Nat, NEW y \in Nat
  PROVE  Min({x, y}) = IF x <= y THEN x ELSE y
BY DEF Min

LEMMA Cancel ==
  ASSUME NEW x \in Nat, NEW y \in Nat, NEW c \in Nat, c > 0, x * c <= y * c
  PROVE  x <= y
<1> SUFFICES ASSUME x > y PROVE FALSE
  OBVIOUS
<1>1. PICK d \in Nat : x = y + 1 + d
  <2>1. x - y - 1 \in Nat /\ x = y + 1 + (x - y - 1)
    OBVIOUS
  <2>2. QED BY <2>1
<1>2. x * c = y * c + c + d * c /\ d * c \in Nat /\ y * c \in Nat
  BY <1>1
<1>3. QED BY <1>2

(* What integer division means.                                             *)
LEMMA Quotient ==
  ASSUME NEW x \in Nat, NEW c \in Nat, c > 0
  PROVE  /\ x \div c \in Nat
         /\ \A n \in Nat : n <= x \div c <=> n * c <= x
<1> DEFINE q == x \div c
<1>1. q \in Nat /\ q * c <= x /\ x < (q + 1) * c
  OBVIOUS
<1> HIDE DEF q
<1>2. ASSUME NEW n \in Nat, n <= q PROVE n * c <= x
  <2>1. PICK d \in Nat : q = n + d
    <3>1. q - n \in Nat /\ q = n + (q - n)
      BY <1>1, <1>2
    <3>2. QED BY <3>1
  <2>2. q * c = n * c + d * c /\ d * c \in Nat /\ n * c \in Nat
    BY <2>1
  <2>3. QED BY <1>1, <2>2
<1>3. ASSUME NEW n \in Nat, n * c <= x PROVE n <= q
  <2> SUFFICES ASSUME n > q PROVE FALSE
    BY <1>1
  <2>1. PICK d \in Nat : n = q + 1 + d
    <3>1. n - q - 1 \in Nat /\ n = q + 1 + (n - q - 1)
      BY <1>1
    <3>2. QED BY <3>1
  <2>2. n * c = (q + 1) * c + d * c /\ d * c \in Nat /\ (q + 1) * c \in Nat
    BY <1>1, <2>1
  <2>3. QED BY <1>1, <1>3, <2>2
<1>4. QED BY <1>1, <1>2, <1>3 DEF q

(* The probability, and by how much it makes the timeout longer.            *)
Backoff == (15 * BaseTimeout * PredictPartitionProbability) \div (10 * One)

LEMMA ProbabilityFacts ==
  ASSUME TypeOK
  PROVE  /\ One \in Nat /\ One > 0 /\ One = 2000 * (Heard + 1)
         /\ PredictPartitionProbability \in Nat
         /\ LET evidence == 1000 * TimedOut + (Heard + 1) * Latency
            IN  /\ evidence \in Nat
                /\ PredictPartitionProbability = IF evidence <= One THEN evidence ELSE One
<1> DEFINE evidence == 1000 * TimedOut + (Heard + 1) * Latency
<1>1. Heard \in Nat /\ TimedOut \in Nat /\ Latency \in Nat
  BY LateAreHeard DEF TypeOK
<1>2. evidence \in Nat
  <2>1. (Heard + 1) * Latency \in Nat
    BY <1>1
  <2>2. QED BY <1>1, <2>1
<1>3. One \in Nat /\ One > 0 /\ One = 2000 * (Heard + 1)
  BY <1>1 DEF One
<1>4. PredictPartitionProbability = Min({evidence, One})
  BY DEF PredictPartitionProbability
<1> HIDE DEF evidence
<1>5. PredictPartitionProbability = IF evidence <= One THEN evidence ELSE One
  BY <1>2, <1>3, <1>4, MinOfTwo
<1>6. QED BY <1>2, <1>3, <1>5 DEF evidence

LEMMA TimeoutFacts ==
  ASSUME TypeOK
  PROVE  /\ Backoff \in Nat
         /\ \A n \in Nat : n <= Backoff <=> n * (10 * One) <= 1500 * PredictPartitionProbability
         /\ Backoff <= 150
         /\ CalculateTimeout = IF Exceeds(5) THEN BaseTimeout + Backoff ELSE BaseTimeout
         /\ Exceeds(5) => Backoff >= 75
<1> DEFINE P == PredictPartitionProbability
<1>1. One \in Nat /\ One > 0 /\ P \in Nat /\ P <= One
  BY ProbabilityFacts
<1>2. Backoff = (1500 * P) \div (10 * One)
  BY DEF Backoff, BaseTimeout
<1>3. Exceeds(5) <=> 10 * P > 5 * One
  BY DEF Exceeds
<1> HIDE DEF P
<1>4. /\ Backoff \in Nat
      /\ \A n \in Nat : n <= Backoff <=> n * (10 * One) <= 1500 * P
  BY <1>1, <1>2, Quotient
<1>5. Backoff <= 150
  <2>1. Backoff * (10 * One) <= 150 * (10 * One)
    BY <1>1, <1>4
  <2>2. QED BY <1>1, <1>4, <2>1, Cancel
<1>6. Exceeds(5) => Backoff >= 75
  BY <1>1, <1>3, <1>4
<1>7. CalculateTimeout = IF Exceeds(5) THEN BaseTimeout + Backoff ELSE BaseTimeout
  <2> DEFINE adjusted == IF Exceeds(5) THEN BaseTimeout + Backoff ELSE BaseTimeout
  <2>1. CalculateTimeout = Min({adjusted, MaxTimeout})
    BY DEF CalculateTimeout, Backoff
  <2>2. adjusted \in Nat /\ adjusted <= MaxTimeout /\ MaxTimeout \in Nat
    BY <1>4, <1>5 DEF BaseTimeout, MaxTimeout
  <2> HIDE DEF adjusted
  <2>3. CalculateTimeout = adjusted
    BY <2>1, <2>2, MinOfTwo
  <2>4. QED BY <2>3 DEF adjusted
<1>8. QED BY <1>4, <1>5, <1>6, <1>7 DEF P

(* When everybody is silent for long and the latency is a second the level  *)
(* is relaxed and the timeout longer, when nothing is wrong neither; and    *)
(* the two agree in between, for any number of peers and any latency.       *)
THEOREM RiskIsHeeded == Spec => []RiskDecides
<1>1. TypeOK => RiskDecides
  <2> SUFFICES ASSUME TypeOK PROVE RiskDecides
    OBVIOUS
  <2> DEFINE P == PredictPartitionProbability
             evidence == 1000 * TimedOut + (Heard + 1) * Latency
  <2>1. /\ Heard \in Nat /\ TimedOut \in Nat /\ Latency \in Nat
        /\ One = 2000 * (Heard + 1)
        /\ P = IF evidence <= One THEN evidence ELSE One
    BY LateAreHeard, ProbabilityFacts DEF TypeOK
  <2>2. ASSUME Heard > 0, TimedOut = Heard, Latency >= 1000
        PROVE  Exceeds(7)
    <3>1. (Heard + 1) * Latency >= (Heard + 1) * 1000
      <4>1. PICK d \in Nat : Latency = 1000 + d
        <5>1. Latency - 1000 \in Nat /\ Latency = 1000 + (Latency - 1000)
          BY <2>1, <2>2
        <5>2. QED BY <5>1
      <4>2. (Heard + 1) * Latency = (Heard + 1) * 1000 + (Heard + 1) * d /\ (Heard + 1) * d \in Nat
        BY <2>1, <4>1
      <4>3. QED BY <2>1, <4>2
    <3>2. 10 * evidence > 7 * One
      BY <2>1, <2>2, <3>1
    <3>3. 10 * P > 7 * One
      BY <2>1, <3>2
    <3>4. QED BY <3>3 DEF Exceeds
  <2>3. ASSUME TimedOut = 0, Latency < 600
        PROVE  ~Exceeds(3)
    <3>1. (Heard + 1) * Latency <= (Heard + 1) * 600
      <4>1. PICK d \in Nat : 600 = Latency + d
        <5>1. 600 - Latency \in Nat /\ 600 = Latency + (600 - Latency)
          BY <2>1, <2>3
        <5>2. QED BY <5>1
      <4>2. (Heard + 1) * 600 = (Heard + 1) * Latency + (Heard + 1) * d
            /\ (Heard + 1) * d \in Nat /\ (Heard + 1) * Latency \in Nat
        BY <2>1, <4>1
      <4>3. QED BY <2>1, <4>2
    <3>2. 10 * evidence <= 3 * One
      BY <2>1, <2>3, <3>1
    <3>3. ~(10 * P > 3 * One)
      BY <2>1, <3>2
    <3>4. QED BY <3>3 DEF Exceeds
  <2>4. (Exceeds(7) => Exceeds(5)) /\ (Exceeds(5) => Exceeds(3))
    <3>1. P \in Nat /\ One \in Nat
      BY ProbabilityFacts
    <3>2. QED BY <3>1 DEF Exceeds
  <2>5. CalculateTimeout > BaseTimeout <=> Exceeds(5)
    BY TimeoutFacts DEF BaseTimeout
  <2>6. /\ Adjusted = Eventual <=> Exceeds(7)
        /\ Adjusted = Strong => ~Exceeds(3)
        /\ ~Exceeds(3) => Adjusted = Strong
    BY <2>4 DEF Adjusted, Eventual, Causal, Strong
  <2>7. QED BY <2>2, <2>3, <2>4, <2>5, <2>6 DEF RiskDecides
<1>2. QED BY <1>1, TypeCorrect, PTL

-----------------------------------------------------------------------------
(* News.  Fractions are compared by multiplying out.                        *)

LEMMA TimesMonotone ==
  ASSUME NEW x \in Nat, NEW y \in Nat, NEW c \in Nat, x <= y
  PROVE  x * c \in Nat /\ y * c \in Nat /\ x * c <= y * c
<1>1. PICK d \in Nat : y = x + d
  <2>1. y - x \in Nat /\ y = x + (y - x)
    OBVIOUS
  <2>2. QED BY <2>1
<1>2. y * c = x * c + d * c /\ d * c \in Nat /\ x * c \in Nat
  BY <1>1
<1>3. QED BY <1>2

(* Of two fractions p / o and q / r the smaller one exceeds less.           *)
LEMMA RatioDecides ==
  ASSUME NEW p \in Nat, NEW o \in Nat, NEW q \in Nat, NEW r \in Nat,
         o > 0, r > 0, p * r <= q * o, NEW c \in Nat
  PROVE  \A n \in Nat : /\ n * o <= c * p => n * r <= c * q
                        /\ c * p > n * o => c * q > n * r
<1> SUFFICES ASSUME NEW n \in Nat
             PROVE  /\ n * o <= c * p => n * r <= c * q
                    /\ c * p > n * o => c * q > n * r
  OBVIOUS
<1>1. /\ p * r \in Nat /\ q * o \in Nat /\ n * o \in Nat /\ n * r \in Nat
      /\ c * p \in Nat /\ c * q \in Nat
  OBVIOUS
<1>2. (c * p) * r <= (c * q) * o
  <2>1. (p * r) * c <= (q * o) * c
    BY <1>1, TimesMonotone
  <2>2. (p * r) * c = (c * p) * r /\ (q * o) * c = (c * q) * o
    OBVIOUS
  <2>3. QED BY <2>1, <2>2
<1>3. (n * o) * r = (n * r) * o
  OBVIOUS
<1>4. ASSUME n * o <= c * p PROVE n * r <= c * q
  <2>1. (n * o) * r <= (c * p) * r
    BY <1>1, <1>4, TimesMonotone
  <2>2. (c * p) * r \in Nat /\ (c * q) * o \in Nat /\ (n * o) * r \in Nat
    BY <1>1
  <2>3. (n * r) * o <= (c * q) * o
    BY <1>2, <1>3, <2>1, <2>2
  <2>4. QED BY <1>1, <2>3, Cancel
<1>5. ASSUME c * p > n * o PROVE c * q > n * r
  <2> SUFFICES ASSUME c * q <= n * r PROVE c * p <= n * o
    BY <1>1, <1>5
  <2>1. (c * q) * o <= (n * r) * o
    BY <1>1, TimesMonotone
  <2>2. (c * p) * r \in Nat /\ (c * q) * o \in Nat /\ (n * r) * o \in Nat
    BY <1>1
  <2>3. (c * p) * r <= (n * o) * r
    BY <1>2, <1>3, <2>1, <2>2
  <2>4. QED BY <1>1, <2>3, Cancel
<1>6. QED BY <1>4, <1>5

Full(heard) == 2000 * (heard + 1)

Capped(heard, silent, latency) ==
  IF 1000 * silent + (heard + 1) * latency <= 2000 * (heard + 1)
  THEN 1000 * silent + (heard + 1) * latency ELSE 2000 * (heard + 1)

LEMMA CappedIsNat ==
  ASSUME NEW h \in Nat, NEW t \in Nat, NEW l \in Nat
  PROVE  Capped(h, t, l) \in Nat
<1>1. (h + 1) * l \in Nat
  OBVIOUS
<1>2. QED BY <1>1 DEF Capped

(* More peers heard of, fewer of them silent and less latency: less risk.   *)
LEMMA LessRisk ==
  ASSUME NEW h \in Nat, NEW t \in Nat, NEW l \in Nat,
         NEW i \in Nat, NEW u \in Nat, NEW m \in Nat,
         h <= i, u <= t, m <= l
  PROVE  Capped(i, u, m) * Full(h) <= Capped(h, t, l) * Full(i)
<1> DEFINE a == h + 1
           b == i + 1
           old == 1000 * t + a * l
           new == 1000 * u + b * m
<1>1. a \in Nat /\ b \in Nat /\ a > 0 /\ b > 0 /\ a <= b
  OBVIOUS
<1>2. a * l \in Nat /\ b * m \in Nat /\ old \in Nat /\ new \in Nat
  <2>1. a * l \in Nat /\ b * m \in Nat
    BY <1>1
  <2>2. QED BY <2>1
<1>3. new * a <= old * b
  <2>1. u * a <= t * b
    <3>1. u * a <= t * a /\ u * a \in Nat /\ t * a \in Nat
      BY <1>1, TimesMonotone
    <3>2. a * t <= b * t
      BY <1>1, TimesMonotone
    <3>3. a * t = t * a /\ b * t = t * b /\ t * b \in Nat
      BY <1>1
    <3>4. QED BY <3>1, <3>2, <3>3
  <2>2. m * (a * b) <= l * (a * b)
    <3>1. a * b \in Nat
      BY <1>1
    <3>2. QED BY <3>1, TimesMonotone
  <2>3. new * a = 1000 * (u * a) + m * (a * b)
    BY <1>1
  <2>4. old * b = 1000 * (t * b) + l * (a * b)
    BY <1>1
  <2>5. u * a \in Nat /\ t * b \in Nat /\ m * (a * b) \in Nat /\ l * (a * b) \in Nat
    <3>1. a * b \in Nat
      BY <1>1
    <3>2. QED BY <1>1, <3>1
  <2>6. QED BY <2>1, <2>2, <2>3, <2>4, <2>5
<1>4. /\ Capped(i, u, m) = IF new <= 2000 * b THEN new ELSE 2000 * b
      /\ Capped(h, t, l) = IF old <= 2000 * a THEN old ELSE 2000 * a
  BY DEF Capped
<1> HIDE DEF a, b, old, new
<1>5. Capped(i, u, m) \in Nat /\ Capped(i, u, m) <= new /\ Capped(i, u, m) <= 2000 * b
  BY <1>1, <1>2, <1>4
<1>6. Capped(i, u, m) * a <= Capped(h, t, l) * b
  <2>1. CASE old <= 2000 * a
    <3>1. Capped(i, u, m) * a <= new * a /\ Capped(i, u, m) * a \in Nat
      BY <1>1, <1>2, <1>5, TimesMonotone
    <3>2. new * a \in Nat /\ old * b \in Nat
      BY <1>1, <1>2
    <3>3. Capped(h, t, l) = old
      BY <1>4, <2>1
    <3>4. QED BY <1>3, <3>1, <3>2, <3>3
  <2>2. CASE ~(old <= 2000 * a)
    <3>1. Capped(i, u, m) * a <= (2000 * b) * a
      <4>1. 2000 * b \in Nat
        BY <1>1
      <4>2. QED BY <1>1, <1>5, <4>1, TimesMonotone
    <3>2. (2000 * b) * a = (2000 * a) * b
      BY <1>1
    <3>3. Capped(h, t, l) = 2000 * a
      BY <1>4, <2>2
    <3>4. QED BY <3>1, <3>2, <3>3
  <2>3. QED BY <2>1, <2>2
<1>7. Capped(h, t, l) \in Nat
  BY <1>1, <1>2, <1>4
<1> DEFINE p == Capped(i, u, m)
           q == Capped(h, t, l)
<1>8. p \in Nat /\ q \in Nat /\ p * a <= q * b
  BY <1>5, <1>6, <1>7
<1> HIDE DEF p, q
<1>9. p * (2000 * a) <= q * (2000 * b)
  <2>1. p * a \in Nat /\ q * b \in Nat
    BY <1>1, <1>8
  <2>2. p * (2000 * a) = 2000 * (p * a) /\ q * (2000 * b) = 2000 * (q * b)
    BY <1>1, <1>8
  <2>3. QED BY <1>8, <2>1, <2>2
<1>10. QED BY <1>9 DEF a, b, p, q, Full

(* The level and the timeout by the fraction p / o.                         *)
LevelAt(p, o) == IF 10 * p > 7 * o THEN Eventual ELSE IF 10 * p > 3 * o THEN Causal ELSE Strong

TimeoutAt(p, o, backoff) == IF 10 * p > 5 * o THEN BaseTimeout + backoff ELSE BaseTimeout

(* s is the whole part of 150 times p / o.                                  *)
Percentage(s, p, o) == \A n \in Nat : n <= s <=> n * (10 * o) <= 1500 * p

(* What the statistics are when h peers were heard, t are silent and the    *)
(* latency is l; the timeout is b longer.                                   *)
Follows ==
  \E h, t, l, b \in Nat :
     /\ Percentage(b, Capped(h, t, l), Full(h)) /\ b <= 150
     /\ Heard = h /\ TimedOut = t /\ Latency = l
     /\ Adjusted = LevelAt(Capped(h, t, l), Full(h))
     /\ CalculateTimeout = TimeoutAt(Capped(h, t, l), Full(h), b)

LEMMA StatisticsFollow == TypeOK => Follows
<1> SUFFICES ASSUME TypeOK PROVE Follows
  OBVIOUS
<1>1. /\ Heard \in Nat /\ TimedOut \in Nat /\ Latency \in Nat
      /\ One = 2000 * (Heard + 1)
      /\ PredictPartitionProbability = Capped(Heard, TimedOut, Latency)
  BY LateAreHeard, ProbabilityFacts DEF Capped, TypeOK
<1>2. Adjusted = LevelAt(PredictPartitionProbability, One)
  BY DEF Adjusted, LevelAt, Exceeds
<1>3. CalculateTimeout = TimeoutAt(PredictPartitionProbability, One, Backoff)
  BY TimeoutFacts DEF TimeoutAt, Exceeds
<1>4. /\ Backoff \in Nat /\ Backoff <= 150
      /\ Percentage(Backoff, PredictPartitionProbability, One)
  BY TimeoutFacts DEF Percentage
<1>5. One = Full(Heard)
  BY <1>1 DEF Full
<1>6. QED BY <1>1, <1>2, <1>3, <1>4, <1>5 DEF Follows

(* A smaller fraction has no laxer level and no longer timeout.             *)
LEMMA SmallerFraction ==
  ASSUME NEW p \in Nat, NEW o \in Nat, NEW q \in Nat, NEW r \in Nat,
         o > 0, r > 0, p * r <= q * o,
         NEW s \in Nat, NEW t \in Nat, Percentage(s, p, o), Percentage(t, q, r)
  PROVE  LevelAt(p, o) >= LevelAt(q, r) /\ TimeoutAt(p, o, s) <= TimeoutAt(q, r, t)
<1>1. \A n \in Nat : 10 * p > n * o => 10 * q > n * r
  BY RatioDecides
<1>2. LevelAt(p, o) >= LevelAt(q, r)
  <2>1. (10 * p > 7 * o => 10 * q > 7 * r) /\ (10 * p > 3 * o => 10 * q > 3 * r)
    BY <1>1
  <2>2. 10 * q > 7 * r => 10 * q > 3 * r
    OBVIOUS
  <2>3. QED BY <2>1, <2>2 DEF LevelAt, Eventual, Causal, Strong
<1>3. s <= t
  <2>1. \A n \in Nat : n * (10 * o) <= 1500 * p => n * (10 * r) <= 1500 * q
    <3>1. 10 * o \in Nat /\ 10 * r \in Nat /\ 10 * o > 0 /\ 10 * r > 0
      OBVIOUS
    <3>2. p * (10 * r) <= q * (10 * o)
      <4>1. p * r \in Nat /\ q * o \in Nat
        OBVIOUS
      <4>2. p * (10 * r) = 10 * (p * r) /\ q * (10 * o) = 10 * (q * o)
        OBVIOUS
      <4>3. QED BY <4>1, <4>2
    <3>3. QED BY <3>1, <3>2, RatioDecides
  <2>2. s * (10 * o) <= 1500 * p
    BY DEF Percentage
  <2>3. s * (10 * r) <= 1500 * q
    BY <2>1, <2>2
  <2>4. QED BY <2>3 DEF Percentage
<1>4. QED BY <1>1, <1>2, <1>3 DEF TimeoutAt, BaseTimeout

LEMMA LessRiskAt ==
  ASSUME NEW h \in Nat, NEW t \in Nat, NEW l \in Nat, NEW b \in Nat,
         NEW i \in Nat, NEW u \in Nat, NEW m \in Nat, NEW c \in Nat,
         h <= i, u <= t, m <= l,
         Percentage(b, Capped(h, t, l), Full(h)), Percentage(c, Capped(i, u, m), Full(i))
  PROVE  /\ LevelAt(Capped(i, u, m), Full(i)) >= LevelAt(Capped(h, t, l), Full(h))
         /\ TimeoutAt(Capped(i, u, m), Full(i), c) <= TimeoutAt(Capped(h, t, l), Full(h), b)
<1>1. Capped(i, u, m) \in Nat /\ Capped(h, t, l) \in Nat
  BY CappedIsNat
<1>2. Full(i) \in Nat /\ Full(i) > 0 /\ Full(h) \in Nat /\ Full(h) > 0
  BY DEF Full
<1>3. Capped(i, u, m) * Full(h) <= Capped(h, t, l) * Full(i)
  BY LessRisk
<1>4. QED BY <1>1, <1>2, <1>3, SmallerFraction

(* Whatever happens, and from whatever state the statistics have got into,  *)
(* a silence or more latency never makes the level stricter or the timeout  *)
(* shorter, a heartbeat or less latency never the opposite, and no timeout  *)
(* is longer than two and a half times the first.                           *)
THEOREM NewsIsHeeded == Spec => NewsCountsTheRightWay
<1>1. TypeOK /\ Follows => (TypeOK' /\ Follows' =>
         /\ Worse => Adjusted' <= Adjusted /\ CalculateTimeout' >= CalculateTimeout
         /\ Better => Adjusted' >= Adjusted /\ CalculateTimeout' <= CalculateTimeout
         /\ 2 * CalculateTimeout' <= 5 * BaseTimeout)
  <2> SUFFICES ASSUME TypeOK, Follows, TypeOK', Follows'
               PROVE  /\ Worse => Adjusted' <= Adjusted /\ CalculateTimeout' >= CalculateTimeout
                      /\ Better => Adjusted' >= Adjusted /\ CalculateTimeout' <= CalculateTimeout
                      /\ 2 * CalculateTimeout' <= 5 * BaseTimeout
    OBVIOUS
  <2>1. PICK h, t, l, b \in Nat :
           /\ Percentage(b, Capped(h, t, l), Full(h)) /\ b <= 150
           /\ Heard = h /\ TimedOut = t /\ Latency = l
           /\ Adjusted = LevelAt(Capped(h, t, l), Full(h))
           /\ CalculateTimeout = TimeoutAt(Capped(h, t, l), Full(h), b)
    BY DEF Follows
  <2>2. PICK i, u, m, c \in Nat :
           /\ Percentage(c, Capped(i, u, m), Full(i)) /\ c <= 150
           /\ Heard' = i /\ TimedOut' = u /\ Latency' = m
           /\ Adjusted' = LevelAt(Capped(i, u, m), Full(i))
           /\ CalculateTimeout' = TimeoutAt(Capped(i, u, m), Full(i), c)
    BY DEF Follows
  <2>3. /\ IsFiniteSet(DOMAIN LastHeartbeats) /\ IsFiniteSet(Late)
        /\ IsFiniteSet(DOMAIN LastHeartbeats') /\ IsFiniteSet(Late')
    <3>1. IsFiniteSet(DOMAIN LastHeartbeats) /\ IsFiniteSet(DOMAIN LastHeartbeats')
      BY CapAssumption, FS_Subset DEF TypeOK
    <3>2. Late \subseteq DOMAIN LastHeartbeats /\ Late' \subseteq DOMAIN LastHeartbeats'
      BY DEF Late
    <3>3. QED BY <3>1, <3>2, FS_Subset
  <2>4. h = Cardinality(DOMAIN LastHeartbeats) /\ t = Cardinality(Late)
    BY <2>1 DEF Heard, TimedOut, Late
  <2>5. i = Cardinality(DOMAIN LastHeartbeats') /\ u = Cardinality(Late')
    BY <2>2 DEF Heard, TimedOut, Late
  <2>6. /\ Percentage(b, Capped(h, t, l), Full(h))
        /\ Percentage(c, Capped(i, u, m), Full(i)) /\ c <= 150
    BY <2>1, <2>2
  <2>7. ASSUME Worse
        PROVE  Adjusted' <= Adjusted /\ CalculateTimeout' >= CalculateTimeout
    <3>1. h = i /\ t <= u
      BY <2>3, <2>4, <2>5, <2>7, FS_Subset DEF Worse
    <3>2. l <= m
      BY <2>1, <2>2, <2>7 DEF Worse
    <3>3. /\ LevelAt(Capped(h, t, l), Full(h)) >= LevelAt(Capped(i, u, m), Full(i))
          /\ TimeoutAt(Capped(h, t, l), Full(h), b) <= TimeoutAt(Capped(i, u, m), Full(i), c)
      <4>1. i <= h
        BY <3>1
      <4>2. QED BY <2>6, <3>1, <3>2, <4>1, LessRiskAt
    <3>4. QED BY <2>1, <2>2, <3>3
  <2>8. ASSUME Better
        PROVE  Adjusted' >= Adjusted /\ CalculateTimeout' <= CalculateTimeout
    <3>1. h <= i /\ u <= t
      BY <2>3, <2>4, <2>5, <2>8, FS_Subset DEF Better
    <3>2. m <= l
      BY <2>1, <2>2, <2>8 DEF Better
    <3>3. /\ LevelAt(Capped(i, u, m), Full(i)) >= LevelAt(Capped(h, t, l), Full(h))
          /\ TimeoutAt(Capped(i, u, m), Full(i), c) <= TimeoutAt(Capped(h, t, l), Full(h), b)
      BY <2>6, <3>1, <3>2, LessRiskAt
    <3>4. QED BY <2>1, <2>2, <3>3
  <2>9. 2 * TimeoutAt(Capped(i, u, m), Full(i), c) <= 5 * BaseTimeout
    BY <2>6 DEF TimeoutAt, BaseTimeout
  <2>10. QED BY <2>2, <2>7, <2>8, <2>9
<1>2. TypeOK => Follows
  BY StatisticsFollow
<1>3. QED BY <1>1, <1>2, TypeCorrect, PTL DEF NewsCountsTheRightWay
=============================================================================
