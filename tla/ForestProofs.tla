---------------------------- MODULE ForestProofs ----------------------------
(***************************************************************************)
(* Theorems about module Forest, for every threshold and length of chain.  *)
(*                                                                         *)
(* With the monitor at work: the list of shards and the slices stay well   *)
(* formed (TypeCorrect), the forest never loses entries                    *)
(* (ForestNeverShrinks), and a shard alone on its array is what its root   *)
(* says (OwnArrayStaysIntact).  The first two rest on the invariant Inv,   *)
(* which says what is written in the arrays, what the monitor has          *)
(* collected and which shard may be overloaded, the third on Inv and       *)
(* Shared, which says who stays on an array that is shared.  Each action   *)
(* has a lemma on its effect on the memory and the list, and one for each  *)
(* invariant it has to keep.                                               *)
(*                                                                         *)
(* Before the monitor's first tick (Monitor = FALSE): AddData adds one     *)
(* entry, shards stay small, and an unsplit forest proves all of its       *)
(* entries.  Ticks make these false: a merge can take a shard out of the   *)
(* list while AddData waits with it, and make a large one without load.    *)
(*                                                                         *)
(* As long as only one shard was ever made there is nothing to merge, and  *)
(* with ticks or without the forest proves the new block and every block   *)
(* of the chain (UnsplitForestFinds); chains whose data the threshold      *)
(* allows for stay with one shard (ShortChainsVerify).  And the two lock   *)
(* orders, once they have met, block for good (CrossedForGood).            *)
(***************************************************************************)
EXTENDS Forest, SumLemmas, SequenceTheorems

-----------------------------------------------------------------------------
(* The list of shards.                                                      *)

(* A list loses the shard that is taken out and nothing else.               *)
LEMMA WithoutFacts ==
  ASSUME NEW S, NEW list \in Seq(S), IsInjective(list), NEW s
  PROVE  /\ Without(list, s) \in Seq(S)
         /\ IsInjective(Without(list, s))
         /\ Range(Without(list, s)) = Range(list) \ {s}
         /\ s \notin Range(list) => Without(list, s) = list
         /\ s \in Range(list) => Len(Without(list, s)) = Len(list) - 1
<1>1. CASE s \notin Range(list)
  BY <1>1 DEF Without
<1>2. CASE s \in Range(list)
  <2> DEFINE k == CHOOSE i \in DOMAIN list : list[i] = s
             left == SubSeq(list, 1, k - 1)
             right == SubSeq(list, k + 1, Len(list))
             w == left \o right
  <2>1. k \in 1 .. Len(list) /\ list[k] = s /\ Len(list) \in Nat
    BY <1>2 DEF Range
  <2>2. Without(list, s) = w
    BY <1>2 DEF Without, RemoveAt
  <2> HIDE DEF k
  <2>3. /\ left \in Seq(S) /\ Len(left) = k - 1
        /\ \A i \in 1 .. k - 1 : left[i] = list[i]
    <3>1. \A i \in 1 .. k - 1 : list[i] \in S
      BY <2>1
    <3>2. QED BY <2>1, <3>1, SubSeqProperties
  <2>4. /\ right \in Seq(S) /\ Len(right) = Len(list) - k
        /\ \A i \in 1 .. Len(list) - k : right[i] = list[k + i]
    <3>1. \A i \in k + 1 .. Len(list) : list[i] \in S
      BY <2>1
    <3>2. QED BY <2>1, <3>1, SubSeqProperties
  <2> HIDE DEF left, right
  <2>5. /\ w \in Seq(S) /\ Len(w) = Len(list) - 1
        /\ \A i \in 1 .. Len(list) - 1 : w[i] = IF i < k THEN list[i] ELSE list[i + 1]
    <3>1. /\ w \in Seq(S) /\ Len(w) = Len(left) + Len(right)
          /\ \A i \in 1 .. Len(left) + Len(right) :
                w[i] = IF i <= Len(left) THEN left[i] ELSE right[i - Len(left)]
      BY <2>3, <2>4, ConcatProperties
    <3> HIDE DEF w
    <3>2. Len(left) + Len(right) = Len(list) - 1
      BY <2>1, <2>3, <2>4
    <3>3. ASSUME NEW i \in 1 .. Len(list) - 1
          PROVE  w[i] = IF i < k THEN list[i] ELSE list[i + 1]
      <4>1. CASE i < k
        BY <2>1, <2>3, <3>1, <3>2, <4>1
      <4>2. CASE ~(i < k)
        <5>1. i - (k - 1) \in 1 .. Len(list) - k /\ k + (i - (k - 1)) = i + 1 /\ ~(i <= k - 1)
          BY <2>1, <4>2
        <5>2. w[i] = right[i - (k - 1)]
          BY <2>3, <3>1, <3>2, <5>1
        <5>3. QED BY <2>4, <4>2, <5>1, <5>2
      <4>3. QED BY <4>1, <4>2
    <3>4. QED BY <3>1, <3>2, <3>3
  <2> HIDE DEF w
  <2>6. \A i \in DOMAIN w : \E j \in DOMAIN list : j # k /\ w[i] = list[j]
    <3> TAKE i \in DOMAIN w
    <3>1. CASE i < k
      BY <2>1, <2>5, <3>1
    <3>2. CASE ~(i < k)
      <4>1. i + 1 \in DOMAIN list /\ i + 1 # k /\ w[i] = list[i + 1]
        BY <2>1, <2>5, <3>2
      <4>2. QED BY <4>1
    <3>3. QED BY <3>1, <3>2
  <2>7. \A j \in DOMAIN list : j # k => \E i \in DOMAIN w : w[i] = list[j]
    <3> TAKE j \in DOMAIN list
    <3>1. CASE j < k
      <4>1. j \in DOMAIN w /\ w[j] = list[j]
        BY <2>1, <2>5, <3>1
      <4>2. QED BY <4>1
    <3>2. CASE j > k
      <4>1. j - 1 \in DOMAIN w /\ w[j - 1] = list[j]
        BY <2>1, <2>5, <3>2
      <4>2. QED BY <4>1
    <3>3. QED BY <2>1, <3>1, <3>2
  <2>8. \A j \in DOMAIN list : list[j] = s => j = k
    BY <2>1 DEF IsInjective
  <2>9. Range(w) = Range(list) \ {s}
    BY <2>1, <2>6, <2>7, <2>8 DEF Range
  <2>10. IsInjective(w)
    BY SMTT(20), <2>1, <2>5 DEF IsInjective
  <2>11. QED BY <1>2, <2>2, <2>5, <2>9, <2>10
<1>3. QED BY <1>1, <1>2

(* A shard appended to the list.                                            *)
LEMMA AppendFacts ==
  ASSUME NEW S, NEW list \in Seq(S), NEW e \in S
  PROVE  /\ Append(list, e) \in Seq(S)
         /\ Range(Append(list, e)) = Range(list) \cup {e}
         /\ Append(list, e) # <<>>
         /\ IsInjective(list) /\ e \notin Range(list) => IsInjective(Append(list, e))
<1> DEFINE w == Append(list, e)
<1>1. /\ w \in Seq(S) /\ w # <<>> /\ Len(w) = Len(list) + 1 /\ Len(list) \in Nat
      /\ \A i \in 1 .. Len(list) : w[i] = list[i]
      /\ w[Len(list) + 1] = e
      /\ DOMAIN w = 1 .. Len(list) + 1 /\ DOMAIN list = 1 .. Len(list)
  BY AppendProperties
<1> HIDE DEF w
<1>2. Range(w) = Range(list) \cup {e}
  <2>1. \A i \in DOMAIN w : w[i] \in Range(list) \cup {e}
    BY <1>1 DEF Range
  <2>2. e \in Range(w)
    BY <1>1 DEF Range
  <2>3. \A i \in DOMAIN list : list[i] \in Range(w)
    BY <1>1 DEF Range
  <2>4. QED BY <2>1, <2>2, <2>3 DEF Range
<1>3. IsInjective(list) /\ e \notin Range(list) => IsInjective(w)
  BY <1>1 DEF IsInjective, Range
<1>4. QED BY <1>1, <1>2, <1>3 DEF w

(* Two elements appended at once are appended one after the other.          *)
LEMMA AppendTwo ==
  ASSUME NEW S, NEW list \in Seq(S), NEW d \in S, NEW e \in S
  PROVE  /\ list \o <<d, e>> = Append(Append(list, d), e)
         /\ Append(list, d) \in Seq(S)
<1>1. /\ <<d, e>> \in Seq(S) /\ Len(<<d, e>>) = 2 /\ <<d, e>>[1] = d /\ <<d, e>>[2] = e
  OBVIOUS
<1>2. /\ list \o <<d, e>> \in Seq(S) /\ Len(list \o <<d, e>>) = Len(list) + 2
      /\ \A i \in 1 .. Len(list) + 2 :
            (list \o <<d, e>>)[i] = IF i <= Len(list) THEN list[i] ELSE <<d, e>>[i - Len(list)]
  BY <1>1, ConcatProperties
<1> DEFINE v == Append(list, d)
           w == Append(v, e)
<1>3. /\ v \in Seq(S) /\ Len(v) = Len(list) + 1 /\ v[Len(list) + 1] = d
      /\ \A i \in 1 .. Len(list) : v[i] = list[i]
  BY AppendProperties
<1> HIDE DEF v
<1>4. /\ w \in Seq(S) /\ Len(w) = Len(v) + 1 /\ w[Len(v) + 1] = e
      /\ \A i \in 1 .. Len(v) : w[i] = v[i]
  BY <1>3, AppendProperties
<1> HIDE DEF w
<1>5. Len(list) \in Nat
  OBVIOUS
<1>6. \A i \in 1 .. Len(list) + 2 : (list \o <<d, e>>)[i] = w[i]
  <2> TAKE i \in 1 .. Len(list) + 2
  <2>1. CASE i <= Len(list)
    BY <1>2, <1>3, <1>4, <1>5, <2>1
  <2>2. CASE i = Len(list) + 1
    BY <1>1, <1>2, <1>3, <1>4, <1>5, <2>2
  <2>3. CASE i = Len(list) + 2
    BY <1>1, <1>2, <1>3, <1>4, <1>5, <2>3
  <2>4. QED BY <1>5, <2>1, <2>2, <2>3
<1>7. list \o <<d, e>> = w
  <2> HIDE <1>1
  <2> DEFINE c == list \o <<d, e>>
  <2>1. c \in Seq(S) /\ Len(c) = Len(w) /\ \A i \in 1 .. Len(c) : c[i] = w[i]
    BY <1>2, <1>3, <1>4, <1>5, <1>6
  <2> HIDE DEF c
  <2>2. c = w
    BY <1>4, <2>1, SeqEqual
  <2>3. QED BY <2>2 DEF c
<1>8. QED BY <1>3, <1>7 DEF v, w

(* Two new shards in a list.                                                *)
LEMMA AppendTwoFacts ==
  ASSUME NEW S, NEW list \in Seq(S), NEW d \in S, NEW e \in S
  PROVE  /\ list \o <<d, e>> \in Seq(S)
         /\ list \o <<d, e>> # <<>>
         /\ Len(list \o <<d, e>>) = Len(list) + 2
         /\ \A i \in 1 .. Len(list) : (list \o <<d, e>>)[i] = list[i]
         /\ (list \o <<d, e>>)[Len(list) + 1] = d
         /\ (list \o <<d, e>>)[Len(list) + 2] = e
         /\ Range(list \o <<d, e>>) = Range(list) \cup {d, e}
         /\ IsInjective(list) /\ d # e /\ d \notin Range(list) /\ e \notin Range(list)
              => IsInjective(list \o <<d, e>>)
<1> DEFINE v == Append(list, d)
           w == Append(v, e)
<1>1. list \o <<d, e>> = w
  BY AppendTwo
<1>2. /\ v \in Seq(S) /\ Len(v) = Len(list) + 1 /\ v[Len(list) + 1] = d
      /\ \A i \in 1 .. Len(list) : v[i] = list[i]
  BY AppendProperties
<1>3. /\ Range(v) = Range(list) \cup {d}
      /\ IsInjective(list) /\ d \notin Range(list) => IsInjective(v)
  BY AppendFacts
<1> HIDE DEF v
<1>4. /\ w \in Seq(S) /\ w # <<>> /\ Len(w) = Len(v) + 1 /\ w[Len(v) + 1] = e
      /\ \A i \in 1 .. Len(v) : w[i] = v[i]
  BY <1>2, AppendProperties
<1>5. /\ Range(w) = Range(v) \cup {e}
      /\ IsInjective(v) /\ e \notin Range(v) => IsInjective(w)
  BY <1>2, AppendFacts
<1> HIDE DEF w
<1>6. Len(list) \in Nat
  OBVIOUS
<1>7. /\ Len(w) = Len(list) + 2 /\ w[Len(list) + 2] = e /\ w[Len(list) + 1] = d
      /\ \A i \in 1 .. Len(list) : w[i] = list[i]
  BY <1>2, <1>4, <1>6
<1>8. Range(w) = Range(list) \cup {d, e}
  BY <1>3, <1>5
<1>9. IsInjective(list) /\ d # e /\ d \notin Range(list) /\ e \notin Range(list) => IsInjective(w)
  BY <1>3, <1>5
<1>10. QED BY <1>1, <1>4, <1>7, <1>8, <1>9

-----------------------------------------------------------------------------
(* Slices and append.                                                       *)

SliceType == [arr : Nat, off : Nat, len : Nat]

(* The slice lies in its array, in the part that has been written.          *)
Holds(mem, s, V) ==
    /\ s.arr \in DOMAIN mem
    /\ s.off + s.len <= Len(mem[s.arr])
    /\ \A k \in 1 .. s.len : mem[s.arr][s.off + k] \in V

(* The elements of such a slice.                                            *)
LEMMA ContentsFacts ==
  ASSUME NEW V, NEW mem, NEW s \in SliceType, Holds(mem, s, V)
  PROVE  /\ Contents(mem, s) \in Seq(V)
         /\ Len(Contents(mem, s)) = s.len
         /\ \A k \in 1 .. s.len : Contents(mem, s)[k] = mem[s.arr][s.off + k]
<1> DEFINE a == mem[s.arr]
<1>1. s.off \in Nat /\ s.len \in Nat
  BY DEF SliceType
<1>2. \A i \in s.off + 1 .. s.off + s.len : a[i] \in V
  <2> TAKE i \in s.off + 1 .. s.off + s.len
  <2>1. i - s.off \in 1 .. s.len /\ s.off + (i - s.off) = i
    BY <1>1
  <2>2. a[s.off + (i - s.off)] \in V
    BY <2>1 DEF Holds
  <2>3. QED BY <2>1, <2>2
<1> HIDE DEF a
<1>3. /\ SubSeq(a, s.off + 1, s.off + s.len) \in Seq(V)
      /\ Len(SubSeq(a, s.off + 1, s.off + s.len)) = s.len
      /\ \A k \in 1 .. s.len : SubSeq(a, s.off + 1, s.off + s.len)[k] = a[s.off + k]
  BY <1>1, <1>2, SubSeqProperties
<1>4. QED BY <1>3 DEF Contents, a

(* What is written is there and the rest is as before.                      *)
LEMMA WriteFacts ==
  ASSUME NEW W, NEW array \in Seq(W), NEW from \in Nat, NEW new \in Seq(W),
         from + Len(new) <= Len(array)
  PROVE  /\ Write(array, from, new) \in Seq(W)
         /\ Len(Write(array, from, new)) = Len(array)
         /\ \A k \in 1 .. Len(new) : Write(array, from, new)[from + k] = new[k]
         /\ \A k \in 1 .. Len(array) :
               \/ Write(array, from, new)[k] = array[k]
               \/ \E j \in 1 .. Len(new) : Write(array, from, new)[k] = new[j]
         /\ \A k \in 1 .. from : Write(array, from, new)[k] = array[k]
<1> DEFINE w == [k \in DOMAIN array |-> IF k \in from + 1 .. from + Len(new)
                                       THEN new[k - from] ELSE array[k]]
<1>1. Len(array) \in Nat /\ DOMAIN array = 1 .. Len(array) /\ Len(new) \in Nat
  OBVIOUS
<1>2. \A k \in 1 .. Len(array) : k \in from + 1 .. from + Len(new) => k - from \in 1 .. Len(new)
  BY <1>1
<1>3. \A k \in 1 .. Len(array) : w[k] \in W
  BY <1>1, <1>2
<1>4. w \in Seq(W) /\ Len(w) = Len(array)
  BY <1>1, <1>3
<1>5. ASSUME NEW k \in 1 .. Len(new)
      PROVE  w[from + k] = new[k]
  <2>1. from + k \in DOMAIN array /\ from + k \in from + 1 .. from + Len(new) /\ (from + k) - from = k
    BY <1>1
  <2>2. QED BY <2>1
<1>6. \A k \in 1 .. Len(array) : w[k] = array[k] \/ \E j \in 1 .. Len(new) : w[k] = new[j]
  BY <1>1, <1>2
<1>7. \A k \in 1 .. from : w[k] = array[k]
  BY <1>1
<1> HIDE DEF w
<1>8. Write(array, from, new) = w
  BY DEF Write, w
<1>9. QED BY <1>4, <1>5, <1>6, <1>7, <1>8

(* append: the slice grows by the new elements; what other slices hold may  *)
(* change but they still lie in the part that has been written; and the     *)
(* array stays the same one if it has room, and is else a new one that      *)
(* nobody else has.                                                         *)
Extends(mem, s, new, mem2, t, V) ==
    /\ t.len = s.len + Len(new)
    /\ \A k \in 1 .. s.len : mem2[t.arr][t.off + k] = mem[s.arr][s.off + k]
    /\ \A k \in 1 .. Len(new) : mem2[t.arr][t.off + s.len + k] = new[k]
    /\ t.arr \in DOMAIN mem2
    /\ t.off + t.len <= Len(mem2[t.arr])
    /\ \A a \in DOMAIN mem :
          /\ a \in DOMAIN mem2 /\ Len(mem2[a]) = Len(mem[a])
          /\ \A k \in 1 .. Len(mem[a]) : mem2[a][k] = mem[a][k] \/ mem2[a][k] \in V
          /\ a # t.arr => mem2[a] = mem[a]
    /\ t.arr = s.arr \/ t.arr \notin DOMAIN mem
    /\ t.arr = s.arr <=> s.off + s.len + Len(new) <= Len(mem[s.arr])

(* A new array has room for what it is made for.                            *)
LEMMA SmallestFacts ==
  ASSUME NEW S \in SUBSET Nat, NEW need \in Nat, \E n \in S : n >= need
  PROVE  Smallest(S, need) \in S /\ Smallest(S, need) >= need
<1> DEFINE T == {n \in S : n >= need}
<1>1. T \subseteq Nat /\ T # {}
  OBVIOUS
<1>2. \E n \in T : \A k \in T : n <= k
  BY <1>1, LeastNat
<1>3. Min(T) \in T
  BY <1>2 DEF Min
<1>4. QED BY <1>3 DEF Smallest

LEMMA RoundUpFacts ==
  ASSUME NEW need \in Nat
  PROVE  RoundUp(need) \in Nat /\ RoundUp(need) >= need
<1>1. CASE need <= 1365
  <2>1. 1365 \in SizeClasses /\ SizeClasses \subseteq Nat
    BY DEF SizeClasses
  <2>2. \E n \in SizeClasses : n >= need
    BY <1>1, <2>1
  <2>3. Smallest(SizeClasses, need) \in Nat /\ Smallest(SizeClasses, need) >= need
    BY <2>1, <2>2, SmallestFacts
  <2>4. QED BY <1>1, <2>3 DEF RoundUp
<1>2. CASE need > 1365
  <2>1. PICK pages : pages = (24 * need + 8191) \div 8192
    OBVIOUS
  <2>2. pages \in Nat /\ pages * 8192 >= 24 * need
    BY <2>1
  <2>3. (pages * 8192) \div 24 \in Nat /\ (pages * 8192) \div 24 >= need
    BY <2>2
  <2>4. RoundUp(need) = (pages * 8192) \div 24
    BY <1>2, <2>1 DEF RoundUp
  <2>5. QED BY <2>3, <2>4
<1>3. QED BY <1>1, <1>2

LEMMA GrownFacts ==
  ASSUME NEW old \in Nat, NEW need \in Nat
  PROVE  Grown(old, need) \in Nat /\ Grown(old, need) >= need
<1> DEFINE next(n) == n + (n + 768) \div 4
           steps == {next(old), next(next(old)), next(next(next(old))), next(next(next(next(old))))}
           wanted == IF need > 2 * old THEN need
                     ELSE IF old < 256 THEN 2 * old
                     ELSE Smallest(steps, need)
<1>1. wanted \in Nat /\ wanted >= need
  <2>1. CASE need > 2 * old \/ old < 256
    BY <2>1
  <2>2. CASE ~(need > 2 * old) /\ ~(old < 256)
    <3>1. \A n \in Nat : next(n) \in Nat /\ 4 * next(n) >= 5 * n + 765
      OBVIOUS
    <3> HIDE DEF next
    <3>2. PICK a, b, c, d : a = next(old) /\ b = next(a) /\ c = next(b) /\ d = next(c)
      OBVIOUS
    <3>3. /\ a \in Nat /\ b \in Nat /\ c \in Nat /\ d \in Nat
          /\ 4 * a >= 5 * old + 765 /\ 4 * b >= 5 * a + 765
          /\ 4 * c >= 5 * b + 765 /\ 4 * d >= 5 * c + 765
      BY <3>1, <3>2
    <3>4. d >= need
      BY <2>2, <3>3
    <3>5. steps = {a, b, c, d}
      BY <3>2
    <3> HIDE DEF steps
    <3>6. Smallest(steps, need) \in steps /\ Smallest(steps, need) >= need
      BY <3>3, <3>4, <3>5, SmallestFacts
    <3>7. QED BY <2>2, <3>3, <3>5, <3>6
  <2>3. QED BY <2>1, <2>2
<1>2. Grown(old, need) = RoundUp(wanted)
  BY DEF Grown
<1> HIDE DEF wanted
<1>3. RoundUp(wanted) \in Nat /\ RoundUp(wanted) >= wanted
  BY <1>1, RoundUpFacts
<1>4. QED BY <1>1, <1>2, <1>3

LEMMA AppendedExtends ==
  ASSUME NEW V, NEW mem \in Seq(Seq(V \cup {Empty})), NEW s \in SliceType, Holds(mem, s, V),
         NEW new \in Seq(V), NEW r, r = Appended(mem, s, new)
  PROVE  /\ r.mem \in Seq(Seq(V \cup {Empty})) /\ r.slice \in SliceType
         /\ Extends(mem, s, new, r.mem, r.slice, V)
<1> DEFINE W == V \cup {Empty}
           end == s.off + s.len
           array == mem[s.arr]
           size == s.len + Len(new)
           cap == Len(array) - s.off
<1>1. /\ s.arr \in Nat /\ s.off \in Nat /\ s.len \in Nat /\ Len(new) \in Nat
      /\ s.arr \in DOMAIN mem /\ array \in Seq(W) /\ Len(array) \in Nat /\ end <= Len(array)
      /\ DOMAIN mem = 1 .. Len(mem) /\ Len(mem) \in Nat
      /\ \A a \in DOMAIN mem : mem[a] \in Seq(W)
  BY DEF SliceType, Holds
<1>2. new \in Seq(W) /\ end \in Nat /\ size \in Nat /\ cap \in Nat
  BY SMTT(20), <1>1
<1>3. CASE size <= cap
  <2> DEFINE w == Write(array, end, new)
  <2>1. r = [mem |-> [mem EXCEPT ![s.arr] = w], slice |-> Slice(s.arr, s.off, size)]
    BY <1>3 DEF Appended
  <2>2. end + Len(new) <= Len(array)
    BY <1>1, <1>3
  <2>3. /\ w \in Seq(W) /\ Len(w) = Len(array)
        /\ \A k \in 1 .. Len(new) : w[end + k] = new[k]
        /\ \A k \in 1 .. Len(array) : w[k] = array[k] \/ \E j \in 1 .. Len(new) : w[k] = new[j]
        /\ \A k \in 1 .. end : w[k] = array[k]
    <3>1. array \in Seq(W) /\ end \in Nat /\ new \in Seq(W) /\ end + Len(new) <= Len(array)
      BY <1>1, <1>2, <2>2
    <3> HIDE DEF array, end, size, cap, W
    <3>2. QED BY <3>1, WriteFacts
  <2> HIDE DEF w
  <2>4. /\ r.mem = [mem EXCEPT ![s.arr] = w]
        /\ r.slice.arr = s.arr /\ r.slice.off = s.off /\ r.slice.len = size
        /\ r.slice \in SliceType
    BY <1>1, <1>2, <2>1 DEF Slice, SliceType
  <2>5. /\ r.mem \in Seq(Seq(W)) /\ DOMAIN r.mem = DOMAIN mem /\ r.mem[s.arr] = w
        /\ \A a \in DOMAIN mem : a # s.arr => r.mem[a] = mem[a]
    BY <1>1, <2>3, <2>4
  <2>6. \A k \in 1 .. s.len : w[s.off + k] = array[s.off + k]
    <3> TAKE k \in 1 .. s.len
    <3>1. s.off + k \in 1 .. end
      BY <1>1
    <3>2. QED BY <2>3, <3>1
  <2>7. \A k \in 1 .. Len(new) : w[s.off + s.len + k] = new[k]
    BY <2>3
  <2>8. \A k \in 1 .. Len(array) : w[k] = array[k] \/ w[k] \in V
    BY <2>3
  <2>9. s.off + size <= Len(w) /\ s.off + s.len + Len(new) <= Len(array)
    BY <1>1, <2>2, <2>3
  <2> HIDE DEF W, size, end, cap
  <2>10. QED BY <1>1, <2>3, <2>4, <2>5, <2>6, <2>7, <2>8, <2>9 DEF W, size, Extends
<1>4. CASE ~(size <= cap)
  <2> DEFINE fresh == [k \in 1 .. Grown(cap, size) |-> Empty]
             both == Contents(mem, s) \o new
             w == Write(fresh, 0, both)
  <2>1. r = [mem |-> Append(mem, w), slice |-> Slice(Len(mem) + 1, 0, size)]
    BY <1>4 DEF Appended
  <2>2. Grown(cap, size) \in Nat /\ size <= Grown(cap, size)
    BY <1>2, GrownFacts
  <2>3. /\ Contents(mem, s) \in Seq(V) /\ Len(Contents(mem, s)) = s.len
        /\ \A k \in 1 .. s.len : Contents(mem, s)[k] = array[s.off + k]
    BY ContentsFacts
  <2>4. /\ both \in Seq(V) /\ Len(both) = size
        /\ \A k \in 1 .. s.len : both[k] = array[s.off + k]
        /\ \A k \in 1 .. Len(new) : both[s.len + k] = new[k]
    <3> DEFINE old == Contents(mem, s)
    <3> HIDE DEF array, old
    <3>1. /\ both \in Seq(V) /\ Len(both) = size
          /\ \A k \in 1 .. size : both[k] = IF k <= s.len THEN old[k] ELSE new[k - s.len]
      <4>1. /\ old \o new \in Seq(V) /\ Len(old \o new) = Len(old) + Len(new)
            /\ \A k \in 1 .. Len(old) + Len(new) :
                  (old \o new)[k] = IF k <= Len(old) THEN old[k] ELSE new[k - Len(old)]
        BY <2>3, ConcatProperties DEF old
      <4>2. Len(old) = s.len
        BY <2>3 DEF old
      <4>3. QED BY <4>1, <4>2 DEF old
    <3> HIDE DEF both
    <3>2. \A k \in 1 .. s.len : both[k] = array[s.off + k]
      BY SMTT(20), <1>1, <2>3, <3>1 DEF old
    <3>3. ASSUME NEW k \in 1 .. Len(new) PROVE both[s.len + k] = new[k]
      <4>1. s.len + k \in 1 .. size /\ ~(s.len + k <= s.len) /\ (s.len + k) - s.len = k
        BY <1>1
      <4>2. QED BY <3>1, <4>1
    <3>4. QED BY <3>1, <3>2, <3>3
  <2> HIDE DEF both
  <2>5. fresh \in Seq(W) /\ Len(fresh) = Grown(cap, size)
    BY <2>2
  <2> HIDE DEF fresh
  <2>6. /\ w \in Seq(W) /\ Len(w) = Grown(cap, size)
        /\ \A k \in 1 .. size : w[k] = both[k]
    <3>1. both \in Seq(W) /\ 0 + Len(both) <= Len(fresh) /\ 0 \in Nat
      BY <1>2, <2>2, <2>4, <2>5
    <3>2. /\ w \in Seq(W) /\ Len(w) = Len(fresh)
          /\ \A k \in 1 .. Len(both) : w[0 + k] = both[k]
      BY <2>5, <3>1, WriteFacts
    <3>3. QED BY <1>2, <2>4, <2>5, <3>2
  <2> HIDE DEF w
  <2>7. /\ r.mem = Append(mem, w)
        /\ r.slice.arr = Len(mem) + 1 /\ r.slice.off = 0 /\ r.slice.len = size
        /\ r.slice \in SliceType
    BY <1>1, <1>2, <2>1 DEF Slice, SliceType
  <2>8. /\ r.mem \in Seq(Seq(W)) /\ DOMAIN r.mem = 1 .. Len(mem) + 1
        /\ r.mem[Len(mem) + 1] = w
        /\ \A a \in DOMAIN mem : r.mem[a] = mem[a]
    BY <1>1, <2>6, <2>7, AppendProperties
  <2>9. ASSUME NEW k \in 1 .. s.len PROVE w[0 + k] = array[s.off + k]
    <3>1. 0 + k = k /\ k \in 1 .. size
      BY <1>1
    <3>2. QED BY <2>4, <2>6, <3>1
  <2>10. ASSUME NEW k \in 1 .. Len(new) PROVE w[0 + s.len + k] = new[k]
    <3>1. 0 + s.len + k = s.len + k /\ s.len + k \in 1 .. size
      BY <1>1
    <3>2. QED BY <2>4, <2>6, <3>1
  <2>11. Len(mem) + 1 \notin DOMAIN mem /\ Len(mem) + 1 \in 1 .. Len(mem) + 1
         /\ \A a \in DOMAIN mem : a \in 1 .. Len(mem) + 1
    BY <1>1
  <2>12. 0 + size <= Len(w)
    BY <1>2, <2>2, <2>6
  <2>13. ~(s.off + s.len + Len(new) <= Len(array))
    <3> HIDE DEF array
    <3>1. QED BY <1>1, <1>4
  <2> HIDE DEF W, size, end, cap
  <2>14. QED BY SMTT(20), <1>1, <2>6, <2>7, <2>8, <2>9, <2>10, <2>11, <2>12, <2>13 DEF W, size, Extends
<1>5. QED BY <1>3, <1>4

(* Every slice of written elements stays one, and the longer one is one.    *)
LEMMA ExtendsHolds ==
  ASSUME NEW V, NEW mem \in Seq(Seq(V \cup {Empty})), NEW s \in SliceType, Holds(mem, s, V),
         NEW new \in Seq(V), NEW mem2, NEW t \in SliceType, Extends(mem, s, new, mem2, t, V)
  PROVE  /\ Holds(mem2, t, V)
         /\ \A u \in SliceType : Holds(mem, u, V) => Holds(mem2, u, V)
<1>1. /\ s.len \in Nat /\ Len(new) \in Nat /\ t.off \in Nat /\ t.len = s.len + Len(new)
      /\ t.arr \in DOMAIN mem2 /\ t.off + t.len <= Len(mem2[t.arr])
  BY DEF SliceType, Extends
<1>2. ASSUME NEW k \in 1 .. t.len
      PROVE  mem2[t.arr][t.off + k] \in V
  <2>1. CASE k <= s.len
    <3>1. k \in 1 .. s.len
      BY <1>1, <2>1
    <3>2. QED BY <3>1 DEF Holds, Extends
  <2>2. CASE k > s.len
    <3>1. /\ k - s.len \in 1 .. Len(new)
          /\ t.off + s.len + (k - s.len) = t.off + k
      BY <1>1, <2>2
    <3>2. mem2[t.arr][t.off + s.len + (k - s.len)] = new[k - s.len]
      BY <3>1 DEF Extends
    <3>3. QED BY <3>1, <3>2
  <2>3. QED BY <1>1, <2>1, <2>2
<1>3. ASSUME NEW u \in SliceType, Holds(mem, u, V)
      PROVE  Holds(mem2, u, V)
  <2>1. u.arr \in DOMAIN mem /\ u.off \in Nat /\ u.len \in Nat
        /\ u.off + u.len <= Len(mem[u.arr]) /\ Len(mem[u.arr]) \in Nat
    BY <1>3 DEF Holds, SliceType
  <2>2. /\ u.arr \in DOMAIN mem2 /\ Len(mem2[u.arr]) = Len(mem[u.arr])
        /\ \A k \in 1 .. Len(mem[u.arr]) :
              mem2[u.arr][k] = mem[u.arr][k] \/ mem2[u.arr][k] \in V
    BY <2>1 DEF Extends
  <2>3. \A k \in 1 .. u.len : u.off + k \in 1 .. Len(mem[u.arr])
    BY <2>1
  <2>4. QED BY <1>3, <2>1, <2>2, <2>3 DEF Holds
<1>4. QED BY <1>1, <1>2, <1>3 DEF Holds

-----------------------------------------------------------------------------
(* The invariant.                                                           *)

Shard == [data : SliceType, root : Seq(Items), load : Nat, idle : BOOLEAN]

(* Every shard's slice lies in the written part of its array.               *)
ForestTypes ==
    /\ arrays \in Seq(Seq(Items \cup {Empty}))
    /\ shard \in Seq(Shard)
    /\ \A s \in DOMAIN shard : Holds(arrays, shard[s].data, Items)
    /\ Shards \in Seq(DOMAIN shard) /\ IsInjective(Shards) /\ Shards # <<>>

CommandTypes ==
    /\ height \in Nat
    /\ stage \in {"rebuild", "add", "validate"}
    /\ todo \in Seq(Items) /\ unverified \in Seq(Blocks)
    /\ retried \in BOOLEAN /\ failed \in BOOLEAN

WorkerTypes ==
    /\ pc \in {"idle", "append", "split"} /\ best \in DOMAIN shard
    /\ pc = "append" => todo # <<>>
    /\ scan \in 0 .. Len(Shards) + 1 /\ candidates \in Seq(DOMAIN shard)

(* What the monitor has collected under the forest lock are different       *)
(* shards of the list it has gone through.                                  *)
Collected ==
    scan # 0 =>
        /\ IsInjective(candidates)
        /\ \A c \in Range(candidates) :
              \E k \in DOMAIN Shards : k < scan /\ Shards[k] = c

(* Only the shard that waits to be split is overloaded.  A shard that the   *)
(* monitor takes from under the adder has too little load to become so with *)
(* the one element that the adder still brings.                             *)
Loads ==
    /\ \A s \in Range(Shards) : shard[s].load <= shardThreshold \/ (pc = "split" /\ s = best)
    /\ pc = "split" => best \in Range(Shards) /\ shard[best].load > shardThreshold
    /\ pc = "append" => best \in Range(Shards) \/ shard[best].load < shardThreshold
    /\ scan # 0 => \A c \in Range(candidates) :
                      \/ shard[c].load < shardThreshold \div 2
                      \/ shard[c].load = shardThreshold \div 2 /\ ~(pc = "append" /\ best = c)

Inv == ForestTypes /\ CommandTypes /\ WorkerTypes /\ Collected /\ Loads

(* More blocks, more items: what was well typed stays so.                   *)
LEMMA ForestKeeps ==
  ASSUME ForestTypes, UNCHANGED forest, Blocks \subseteq Blocks'
  PROVE  ForestTypes'
<1>1. Items \subseteq Items'
  BY DEF Items
<1>2. \A q \in Seq(Items) : q \in Seq(Items')
  BY <1>1
<1>3. Shard \subseteq Shard'
  BY <1>2 DEF Shard
<1>4. shard' \in Seq(Shard')
  BY <1>3 DEF ForestTypes, forest
<1>5. arrays' \in Seq(Seq(Items' \cup {Empty}))
  <2>1. \A q \in Seq(Items \cup {Empty}) : q \in Seq(Items' \cup {Empty})
    BY <1>1
  <2> DEFINE P == Seq(Items \cup {Empty})
             Q == Seq(Items' \cup {Empty})
  <2>2. arrays' \in Seq(P) /\ P \subseteq Q
    BY <2>1 DEF ForestTypes, forest
  <2> HIDE DEF P, Q
  <2>3. arrays' \in Seq(Q)
    BY <2>2
  <2>4. QED BY <2>3 DEF Q
<1>6. \A s \in DOMAIN shard' : Holds(arrays', shard'[s].data, Items')
  BY <1>1 DEF ForestTypes, forest, Holds
<1>7. QED BY <1>4, <1>5, <1>6 DEF ForestTypes, forest

(* Everything of the chain that rebuildAMF hands over, and only that.       *)
LEMMA RebuildFacts ==
  ASSUME NEW n \in Nat
  PROVE  /\ Rebuild(n) \in Seq((1 .. n) \X {"hash", "block", "tx"})
         /\ \A x \in (1 .. n) \X {"hash", "block", "tx"} : x \in Range(Rebuild(n))
<1> DEFINE I == (1 .. n) \X {"hash", "block", "tx"}
           q == Rebuild(n)
           B(k) == n - (k - 1) \div 3
<1>1. \A k \in 1 .. 3 * n : B(k) \in 1 .. n /\ ((k - 1) % 3) + 1 \in 1 .. 3
  OBVIOUS
<1>2. \A k \in 1 .. 3 * n :
         q[k] = <<Hash(B(k)), Serialized(B(k)), TxIDOf(B(k))>>[((k - 1) % 3) + 1]
  BY DEF Rebuild
<1>3. q \in [1 .. 3 * n -> I]
  <2>1. \A b \in 1 .. n, j \in 1 .. 3 : <<Hash(b), Serialized(b), TxIDOf(b)>>[j] \in I
    BY DEF Hash, Serialized, TxIDOf
  <2>2. \A k \in 1 .. 3 * n : q[k] \in I
    BY <1>1, <1>2, <2>1
  <2>3. DOMAIN q = 1 .. 3 * n /\ q = [k \in 1 .. 3 * n |-> q[k]]
    BY DEF Rebuild
  <2>4. QED BY <2>2, <2>3
<1>4. ASSUME NEW b \in 1 .. n, NEW j \in 1 .. 3
      PROVE  \E k \in 1 .. 3 * n : q[k] = <<Hash(b), Serialized(b), TxIDOf(b)>>[j]
  <2> DEFINE k == 3 * (n - b) + j
  <2>1. k \in 1 .. 3 * n /\ (k - 1) \div 3 = n - b /\ (k - 1) % 3 = j - 1
    OBVIOUS
  <2>2. B(k) = b /\ ((k - 1) % 3) + 1 = j
    BY <2>1
  <2> HIDE DEF k, B
  <2>3. QED BY <1>2, <2>1, <2>2
<1>5. ASSUME NEW x \in I
      PROVE  x \in Range(q)
  <2>1. PICK b \in 1 .. n : x = Hash(b) \/ x = Serialized(b) \/ x = TxIDOf(b)
    BY DEF Hash, Serialized, TxIDOf
  <2>2. PICK j \in 1 .. 3 : x = <<Hash(b), Serialized(b), TxIDOf(b)>>[j]
    BY <2>1
  <2>3. QED BY <1>3, <1>4, <2>2 DEF Range
<1>6. q \in Seq(I)
  BY <1>3
<1>7. QED BY <1>5, <1>6

LEMMA InitInv == Init => Inv
<1> SUFFICES ASSUME Init PROVE Inv
  OBVIOUS
<1>1. height \in Nat
  BY ForestAssumption DEF Init
<1>2. ForestTypes
  <2> DEFINE root == NewShard(Slice(1, 0, 0), arrays)
  <2>1. arrays = << <<>> >> /\ shard = <<root>> /\ Shards = <<1>>
    BY DEF Init
  <2>2. arrays \in Seq(Seq(Items \cup {Empty})) /\ DOMAIN arrays = {1} /\ arrays[1] = <<>>
    BY <2>1
  <2>3. /\ Slice(1, 0, 0) \in SliceType
        /\ Slice(1, 0, 0).arr = 1 /\ Slice(1, 0, 0).off = 0 /\ Slice(1, 0, 0).len = 0
    BY DEF Slice, SliceType
  <2>4. Holds(arrays, Slice(1, 0, 0), Items)
    BY <2>2, <2>3 DEF Holds
  <2>5. Contents(arrays, Slice(1, 0, 0)) \in Seq(Items)
    BY <2>3, <2>4, ContentsFacts
  <2>6. root \in Shard /\ root.data = Slice(1, 0, 0)
    BY <2>3, <2>5 DEF NewShard, Shard
  <2> HIDE DEF root
  <2>7. shard \in Seq(Shard) /\ DOMAIN shard = {1} /\ shard[1] = root
    BY <2>1, <2>6
  <2>8. Shards \in Seq(DOMAIN shard) /\ IsInjective(Shards) /\ Shards # <<>>
    BY <2>1, <2>7 DEF IsInjective
  <2>9. QED BY <2>2, <2>4, <2>6, <2>7, <2>8 DEF ForestTypes
<1>3. CommandTypes
  <2>1. todo \in Seq(Items)
    <3>1. Rebuild(height) \in Seq((1 .. height) \X {"hash", "block", "tx"})
      BY <1>1, RebuildFacts
    <3>2. todo = Rebuild(height)
      BY DEF Init
    <3>3. Items = (1 .. height) \X {"hash", "block", "tx"}
      BY DEF Items, Blocks
    <3>4. QED BY <3>1, <3>2, <3>3
  <2>2. stage = "rebuild" /\ unverified = <<>> /\ retried = FALSE /\ failed = FALSE
    BY DEF Init
  <2>3. unverified \in Seq(Blocks)
    BY <2>2
  <2>4. retried \in BOOLEAN /\ failed \in BOOLEAN
    BY <2>2, Zenon
  <2>5. QED BY <1>1, <2>1, <2>2, <2>3, <2>4 DEF CommandTypes
<1>4. WorkerTypes
  BY <1>2 DEF Init, WorkerTypes, ForestTypes
<1>5. Collected
  BY DEF Init, Collected
<1>6. Loads
  <2>1. shard[1].load = 0 /\ Range(Shards) = {1}
    BY DEF Init, NewShard, Range
  <2>2. QED BY <2>1, ForestAssumption DEF Init, Loads
<1>7. QED BY <1>2, <1>3, <1>4, <1>5, <1>6 DEF Inv

(* The command hands data to AddData and looks for blocks.                  *)
LEMMA CommandStep ==
  ASSUME Inv, Command
  PROVE  Inv'
<1>1. /\ UNCHANGED <<forest, adder, monitor>> /\ pc = "idle" /\ todo = <<>>
      /\ height' \in Nat /\ Blocks \subseteq Blocks'
  BY DEF Command, AddBlock, ValidateChain, Verified, Recover, GiveUp, AddDataDone,
         Inv, CommandTypes, Blocks
<1>2. ForestTypes'
  BY <1>1, ForestKeeps DEF Inv
<1>3. CommandTypes'
  <2>1. ASSUME NEW b \in Blocks'
        PROVE  Hash(b) \in Items' /\ Serialized(b) \in Items' /\ TxIDOf(b) \in Items'
    BY <2>1 DEF Items, Hash, Serialized, TxIDOf
  <2>2. CASE AddBlock
    <3>1. height' \in Blocks'
      BY <2>2 DEF AddBlock, Blocks, Inv, CommandTypes
    <3>2. todo' \in Seq(Items') /\ unverified' \in Seq(Blocks')
      BY <2>1, <2>2, <3>1 DEF AddBlock
    <3>3. QED BY <1>1, <2>2, <3>2 DEF AddBlock, Inv, CommandTypes
  <2>3. CASE ValidateChain
    <3>1. unverified' \in Seq(Blocks')
      BY <2>3 DEF ValidateChain, Inv, CommandTypes, Blocks
    <3>2. QED BY <2>3, <3>1 DEF ValidateChain, Inv, CommandTypes, Items, Blocks
  <2>4. CASE Verified \/ Recover \/ GiveUp
    <3>1. /\ unverified \in Seq(Blocks) /\ unverified # <<>>
          /\ height' = height /\ stage' = stage
          /\ unverified' = Tail(unverified) \/ unverified' = unverified
      BY <2>4 DEF Verified, Recover, GiveUp, Inv, CommandTypes
    <3>2. Blocks' = Blocks /\ Items' = Items
      BY <3>1 DEF Blocks, Items
    <3>3. Head(unverified) \in Blocks' /\ unverified' \in Seq(Blocks')
      BY <3>1, <3>2
    <3>4. todo' \in Seq(Items')
      <4>1. \/ todo' = todo
            \/ todo' = <<Hash(Head(unverified)), Serialized(Head(unverified))>>
        BY <2>4 DEF Verified, Recover, GiveUp
      <4>2. todo \in Seq(Items')
        BY <3>2 DEF Inv, CommandTypes
      <4>3. Hash(Head(unverified)) \in Items' /\ Serialized(Head(unverified)) \in Items'
        BY <2>1, <3>3
      <4> DEFINE h == Hash(Head(unverified))
                 d == Serialized(Head(unverified))
      <4> HIDE DEF h, d
      <4>4. <<h, d>> \in Seq(Items')
        BY <4>3 DEF h, d
      <4>5. QED BY <4>1, <4>2, <4>4 DEF h, d
    <3>5. retried' \in BOOLEAN /\ failed' \in BOOLEAN
      BY <2>4 DEF Verified, Recover, GiveUp, Inv, CommandTypes
    <3>6. QED BY <1>1, <3>1, <3>3, <3>4, <3>5 DEF Inv, CommandTypes
  <2>5. QED BY <2>2, <2>3, <2>4 DEF Command
<1>4. WorkerTypes'
  BY <1>1 DEF Inv, WorkerTypes, forest, adder, monitor
<1>5. Collected' /\ Loads'
  BY <1>1 DEF Inv, Collected, Loads, forest, adder, monitor
<1>6. QED BY <1>2, <1>3, <1>4, <1>5 DEF Inv

(* The fields of the shards, and which shards are listed.                   *)
LEMMA ShardFacts ==
  ASSUME ForestTypes
  PROVE  /\ \A s \in DOMAIN shard :
               /\ shard[s].data \in SliceType /\ Holds(arrays, shard[s].data, Items)
               /\ shard[s].load \in Nat /\ shard[s].idle \in BOOLEAN
               /\ shard[s].root \in Seq(Items)
         /\ Len(shard) \in Nat /\ DOMAIN shard = 1 .. Len(shard)
         /\ Len(Shards) \in Nat /\ DOMAIN Shards = 1 .. Len(Shards) /\ 1 \in DOMAIN Shards
         /\ Range(Shards) \subseteq DOMAIN shard
<1>1. \A s \in DOMAIN shard : shard[s] \in Shard /\ Holds(arrays, shard[s].data, Items)
  BY DEF ForestTypes
<1>2. Shards \in Seq(DOMAIN shard) /\ Shards # <<>> /\ shard \in Seq(Shard)
  BY DEF ForestTypes
<1>3. QED BY <1>1, <1>2 DEF Shard, Range

(* There is a shard with least load, and AddData chooses it.                *)
LEMMA OptimalIsListed ==
  ASSUME ForestTypes
  PROVE  FindOptimalShard \in Range(Shards)
<1> DEFINE Least(k) == \A j \in DOMAIN Shards : Load(k) <= Load(j) /\ (Load(k) = Load(j) => k <= j)
<1>1. /\ DOMAIN Shards = 1 .. Len(Shards) /\ 1 \in DOMAIN Shards
      /\ \A k \in DOMAIN Shards : Load(k) \in Nat
  BY ShardFacts DEF Load, Range
<1>2. PICK l \in {Load(k) : k \in DOMAIN Shards} : \A m \in {Load(k) : k \in DOMAIN Shards} : l <= m
  <2> DEFINE L == {Load(k) : k \in DOMAIN Shards}
  <2>1. L \in SUBSET Nat /\ L # {}
    BY <1>1
  <2> HIDE DEF L
  <2>2. QED BY <2>1, LeastNat DEF L
<1>3. PICK k \in {i \in DOMAIN Shards : Load(i) = l} : \A j \in {i \in DOMAIN Shards : Load(i) = l} : k <= j
  <2> DEFINE K == {i \in DOMAIN Shards : Load(i) = l}
  <2>1. K \in SUBSET Nat /\ K # {}
    BY <1>1, <1>2
  <2> HIDE DEF K
  <2>2. QED BY <2>1, LeastNat DEF K
<1>4. Least(k)
  BY <1>2, <1>3
<1>5. FindOptimalShard = Shards[CHOOSE i \in DOMAIN Shards : Least(i)]
  BY DEF FindOptimalShard
<1> HIDE DEF Least
<1>6. QED BY <1>4, <1>5 DEF Range

(* AddData chooses a shard.                                                 *)
LEMMA PickShardStep ==
  ASSUME Inv, PickShard
  PROVE  Inv'
<1>1. /\ UNCHANGED <<forest, command, monitor>> /\ pc = "idle" /\ pc' = "append"
      /\ scan = 0 /\ todo # <<>> /\ best' = FindOptimalShard
  BY DEF PickShard
<1>2. best' \in Range(Shards) /\ best' \in DOMAIN shard
  BY <1>1, OptimalIsListed DEF Inv, ForestTypes, Range
<1>3. Blocks' = Blocks /\ Items' = Items
  BY <1>1 DEF command, Blocks, Items
<1>4. ForestTypes'
  BY <1>1, <1>3, ForestKeeps DEF Inv
<1>5. CommandTypes'
  BY <1>1, <1>3 DEF Inv, CommandTypes, command
<1>6. WorkerTypes' /\ Collected' /\ Loads'
  BY <1>1, <1>2 DEF Inv, WorkerTypes, Collected, Loads, forest, command, monitor
<1>7. QED BY <1>4, <1>5, <1>6 DEF Inv

(* What AddData does to the shard it has chosen.                            *)
LEMMA AddToShardEffect ==
  ASSUME Inv, AddToShard
  PROVE  /\ Extends(arrays, shard[best].data, <<Head(todo)>>, arrays', shard'[best].data, Items)
         /\ arrays' \in Seq(Seq(Items \cup {Empty}))
         /\ shard' \in Seq(Shard) /\ DOMAIN shard' = DOMAIN shard
         /\ \A s \in DOMAIN shard : s # best => shard'[s] = shard[s]
         /\ \A s \in DOMAIN shard : Holds(arrays', shard'[s].data, Items)
         /\ shard'[best].load = shard[best].load + 1
         /\ shard'[best].root = Contents(arrays', shard'[best].data)
<1> DEFINE s == shard[best]
           r == Appended(arrays, s.data, <<Head(todo)>>)
           new == [data |-> r.slice, root |-> Contents(r.mem, r.slice),
                   load |-> s.load + 1, idle |-> FALSE]
<1>1. /\ pc = "append" /\ best \in DOMAIN shard
      /\ arrays' = r.mem /\ shard' = [shard EXCEPT ![best] = new]
  BY DEF AddToShard, Inv, WorkerTypes
<1>2. /\ s.data \in SliceType /\ Holds(arrays, s.data, Items) /\ s.load \in Nat
      /\ arrays \in Seq(Seq(Items \cup {Empty}))
  BY <1>1, ShardFacts DEF Inv, ForestTypes
<1>3. <<Head(todo)>> \in Seq(Items)
  BY <1>1 DEF Inv, WorkerTypes, CommandTypes
<1>4. /\ r.mem \in Seq(Seq(Items \cup {Empty})) /\ r.slice \in SliceType
      /\ Extends(arrays, s.data, <<Head(todo)>>, r.mem, r.slice, Items)
  <2> DEFINE q == <<Head(todo)>>
  <2>1. q \in Seq(Items)
    BY <1>3
  <2> HIDE DEF q, s
  <2>2. QED BY <1>2, <2>1, AppendedExtends DEF q
<1> HIDE DEF r, s
<1>5. /\ Holds(r.mem, r.slice, Items)
      /\ \A u \in SliceType : Holds(arrays, u, Items) => Holds(r.mem, u, Items)
  <2> DEFINE q == <<Head(todo)>>
  <2>1. q \in Seq(Items) /\ Extends(arrays, s.data, q, r.mem, r.slice, Items)
    BY <1>3, <1>4
  <2> HIDE DEF q
  <2>2. QED BY <1>2, <1>4, <2>1, ExtendsHolds
<1>6. new \in Shard /\ new.data = r.slice /\ new.load = s.load + 1
      /\ new.root = Contents(r.mem, r.slice)
  BY <1>2, <1>4, <1>5, ContentsFacts DEF Shard
<1> HIDE DEF new
<1>7. /\ shard' \in Seq(Shard) /\ DOMAIN shard' = DOMAIN shard /\ shard'[best] = new
      /\ \A t \in DOMAIN shard : t # best => shard'[t] = shard[t]
  <2>1. shard \in Seq(Shard)
    BY DEF Inv, ForestTypes
  <2>2. QED BY <1>1, <1>6, <2>1
<1>8. \A t \in DOMAIN shard : Holds(arrays', shard'[t].data, Items)
  <2>1. \A t \in DOMAIN shard : shard[t].data \in SliceType /\ Holds(arrays, shard[t].data, Items)
    BY ShardFacts DEF Inv
  <2>2. QED BY <1>1, <1>5, <1>6, <1>7, <2>1
<1>9. QED BY <1>1, <1>4, <1>6, <1>7, <1>8 DEF s

(* The shard takes the element; then it is overloaded or AddData returns.   *)
LEMMA AddToShardStep ==
  ASSUME Inv, AddToShard
  PROVE  Inv'
<1>1. /\ UNCHANGED <<Shards, height, stage, unverified, retried, failed, best, monitor>>
      /\ pc = "append" /\ todo' = Tail(todo)
      /\ pc' = IF shard[best].load + 1 > shardThreshold THEN "split" ELSE "idle"
  BY DEF AddToShard
<1>2. /\ arrays' \in Seq(Seq(Items \cup {Empty}))
      /\ shard' \in Seq(Shard) /\ DOMAIN shard' = DOMAIN shard
      /\ \A s \in DOMAIN shard : s # best => shard'[s] = shard[s]
      /\ \A s \in DOMAIN shard : Holds(arrays', shard'[s].data, Items)
      /\ shard'[best].load = shard[best].load + 1
  BY AddToShardEffect
<1>3. Blocks' = Blocks /\ Items' = Items /\ Shard' = Shard
  BY <1>1 DEF Blocks, Items, Shard
<1>4. ForestTypes'
  BY <1>1, <1>2, <1>3 DEF Inv, ForestTypes
<1>5. CommandTypes'
  <2>1. todo # <<>> /\ todo \in Seq(Items)
    BY <1>1 DEF Inv, WorkerTypes, CommandTypes
  <2>2. todo' \in Seq(Items')
    BY <1>1, <1>3, <2>1
  <2>3. QED BY <1>1, <1>3, <2>2 DEF Inv, CommandTypes
<1>6. WorkerTypes'
  BY <1>1, <1>2 DEF Inv, WorkerTypes, monitor
<1>7. Collected'
  BY <1>1 DEF Inv, Collected, monitor
<1>8. Loads'
  <2>1. /\ \A s \in DOMAIN shard : shard[s].load \in Nat
        /\ best \in DOMAIN shard /\ Range(Shards) \subseteq DOMAIN shard
        /\ Range(candidates) \subseteq DOMAIN shard
        /\ shardThreshold \in Nat
        /\ scan' = scan /\ candidates' = candidates
    <3>1. Range(candidates) \subseteq DOMAIN shard
      BY DEF Inv, WorkerTypes, Range
    <3>2. QED BY <1>1, <3>1, ShardFacts, ForestAssumption DEF Inv, WorkerTypes, monitor
  <2>2. \A s \in Range(Shards) :
           shard'[s].load <= shardThreshold \/ (pc' = "split" /\ s = best)
    <3> TAKE s \in Range(Shards)
    <3>1. CASE s = best
      BY <1>1, <1>2, <2>1, <3>1
    <3>2. CASE s # best
      BY <1>1, <1>2, <2>1, <3>2 DEF Inv, Loads
    <3>3. QED BY <3>1, <3>2
  <2>3. pc' = "split" => best \in Range(Shards) /\ shard'[best].load > shardThreshold
    BY <1>1, <1>2, <2>1 DEF Inv, Loads
  <2>4. ASSUME scan # 0, NEW c \in Range(candidates)
        PROVE  shard'[c].load < shardThreshold \div 2 \/ shard'[c].load = shardThreshold \div 2
    <3>1. \/ shard[c].load < shardThreshold \div 2
          \/ shard[c].load = shardThreshold \div 2 /\ best # c
      BY <1>1, <2>4 DEF Inv, Loads
    <3>2. shardThreshold \div 2 \in Nat
      BY <2>1
    <3>3. CASE c = best
      <4> DEFINE half == shardThreshold \div 2
      <4>1. half \in Nat /\ shard[c].load \in Nat /\ shard[c].load < half
        BY <2>1, <3>1, <3>2, <3>3
      <4> HIDE DEF half
      <4>2. shard[c].load + 1 < half \/ shard[c].load + 1 = half
        BY <4>1
      <4>3. QED BY <1>2, <3>3, <4>2 DEF half
    <3>4. CASE c # best
      BY <1>2, <2>1, <3>1, <3>4
    <3>5. QED BY <3>3, <3>4
  <2>5. pc' # "append"
    BY <1>1
  <2>6. QED BY <1>1, <2>1, <2>2, <2>3, <2>4, <2>5 DEF Loads
<1>9. QED BY <1>4, <1>5, <1>6, <1>7, <1>8 DEF Inv

(* A new shard has no load and the root of its data.                        *)
LEMMA NewShardFacts ==
  ASSUME NEW mem, NEW t \in SliceType, Holds(mem, t, Items)
  PROVE  /\ NewShard(t, mem) \in Shard
         /\ NewShard(t, mem).data = t /\ NewShard(t, mem).load = 0
         /\ NewShard(t, mem).root = Contents(mem, t)
<1>1. Contents(mem, t) \in Seq(Items)
  BY ContentsFacts
<1>2. QED BY <1>1 DEF NewShard, Shard

(* The two halves partition the slice.                                      *)
LEMMA HalvesFacts ==
  ASSUME NEW mem, NEW V, NEW s \in SliceType, Holds(mem, s, V),
         NEW left, left = Halves(s)[1], NEW right, right = Halves(s)[2]
  PROVE  /\ left \in SliceType /\ Holds(mem, left, V) /\ left.arr = s.arr
         /\ right \in SliceType /\ Holds(mem, right, V) /\ right.arr = s.arr
         /\ left.len + right.len = s.len /\ left.len <= right.len /\ right.len <= left.len + 1
<1> DEFINE mid == s.len \div 2
<1>1. s.arr \in Nat /\ s.off \in Nat /\ s.len \in Nat
  BY DEF SliceType
<1>2. mid \in Nat /\ mid <= s.len /\ s.len - mid \in Nat /\ mid <= s.len - mid /\ s.len - mid <= mid + 1
  BY <1>1
<1>3. left = Slice(s.arr, s.off, mid) /\ right = Slice(s.arr, s.off + mid, s.len - mid)
  BY DEF Halves
<1> HIDE DEF mid
<1>4. /\ left \in SliceType /\ left.arr = s.arr /\ left.off = s.off /\ left.len = mid
      /\ right \in SliceType /\ right.arr = s.arr /\ right.off = s.off + mid
      /\ right.len = s.len - mid
  BY <1>1, <1>2, <1>3 DEF Slice, SliceType
<1>5. s.arr \in DOMAIN mem /\ s.off + s.len <= Len(mem[s.arr])
      /\ \A k \in 1 .. s.len : mem[s.arr][s.off + k] \in V
  BY DEF Holds
<1>6. Holds(mem, left, V)
  <2>1. left.off + left.len <= Len(mem[s.arr])
    <3>1. left.off + left.len <= s.off + s.len
      BY <1>1, <1>2, <1>4
    <3>2. QED BY <1>1, <1>2, <1>4, <1>5, <3>1
  <2>2. \A k \in 1 .. left.len : k \in 1 .. s.len
    BY <1>1, <1>2, <1>4
  <2>3. QED BY <1>4, <1>5, <2>1, <2>2 DEF Holds
<1>7. Holds(mem, right, V)
  <2>1. right.off + right.len = s.off + s.len
    BY <1>1, <1>2, <1>4
  <2>2. ASSUME NEW k \in 1 .. right.len
        PROVE  mem[right.arr][right.off + k] \in V
    <3>1. mid + k \in 1 .. s.len /\ s.off + (mid + k) = right.off + k
      BY <1>1, <1>2, <1>4
    <3>2. mem[s.arr][s.off + (mid + k)] \in V
      BY <1>5, <3>1
    <3>3. QED BY <1>4, <3>1, <3>2
  <2>3. QED BY <1>4, <1>5, <2>1, <2>2 DEF Holds
<1>8. left.len + right.len = s.len /\ left.len <= right.len /\ right.len <= left.len + 1
  BY <1>1, <1>2, <1>4
<1>9. QED BY <1>4, <1>6, <1>7, <1>8

(* What the split of a shard makes of the forest.                           *)
LEMMA SplitEffect ==
  ASSUME Inv, Split, NEW n, n = Len(shard)
  PROVE  /\ UNCHANGED <<arrays, command, best, monitor>> /\ pc = "split" /\ pc' = "idle" /\ scan = 0
         /\ best \in Range(Shards)
         /\ shard' \in Seq(Shard) /\ Len(shard') = n + 2
         /\ \A s \in DOMAIN shard : s \in DOMAIN shard' /\ shard'[s] = shard[s]
         /\ \A s \in {n + 1, n + 2} :
               /\ s \in DOMAIN shard' /\ s \notin DOMAIN shard
               /\ shard'[s].data \in SliceType /\ Holds(arrays, shard'[s].data, Items)
               /\ shard'[s].load = 0 /\ shard'[s].data.arr = shard[best].data.arr
               /\ shard'[s].root = Contents(arrays, shard'[s].data)
         /\ \A s \in DOMAIN shard' : s \in DOMAIN shard \/ s = n + 1 \/ s = n + 2
         /\ shard'[n + 1].data.len + shard'[n + 2].data.len = shard[best].data.len
         /\ shard'[n + 1].data.len <= shard'[n + 2].data.len
         /\ shard'[n + 2].data.len <= shard'[n + 1].data.len + 1
         /\ Range(Shards') = (Range(Shards) \ {best}) \cup {n + 1, n + 2}
         /\ Shards' \in Seq(DOMAIN shard') /\ Shards' # <<>> /\ IsInjective(Shards')
         /\ Len(Shards') = Len(Shards) + 1
<1> DEFINE halves == Halves(shard[best].data)
           left == NewShard(halves[1], arrays)
           right == NewShard(halves[2], arrays)
           list == Without(Shards, best)
<1>1. /\ UNCHANGED <<arrays, command, best, monitor>> /\ pc = "split" /\ pc' = "idle" /\ scan = 0
      /\ shard' = shard \o <<left, right>>
      /\ Shards' = list \o <<n + 1, n + 2>>
  BY DEF Split
<1>2. best \in Range(Shards) /\ best \in DOMAIN shard
  BY <1>1 DEF Inv, Loads, WorkerTypes
<1>3. /\ n \in Nat /\ DOMAIN shard = 1 .. n /\ shard \in Seq(Shard) /\ Len(Shards) \in Nat
      /\ Range(Shards) \subseteq DOMAIN shard
      /\ shard[best].data \in SliceType /\ Holds(arrays, shard[best].data, Items)
  <2>1. shard \in Seq(Shard)
    BY DEF Inv, ForestTypes
  <2>2. QED BY <1>2, <2>1, ShardFacts DEF Inv
<1>4. /\ halves[1] \in SliceType /\ Holds(arrays, halves[1], Items)
      /\ halves[1].arr = shard[best].data.arr
      /\ halves[2] \in SliceType /\ Holds(arrays, halves[2], Items)
      /\ halves[2].arr = shard[best].data.arr
      /\ halves[1].len + halves[2].len = shard[best].data.len
      /\ halves[1].len <= halves[2].len /\ halves[2].len <= halves[1].len + 1
  BY <1>3, HalvesFacts
<1> HIDE DEF halves
<1>5. /\ left \in Shard /\ left.data = halves[1] /\ left.load = 0
      /\ left.root = Contents(arrays, halves[1])
      /\ right \in Shard /\ right.data = halves[2] /\ right.load = 0
      /\ right.root = Contents(arrays, halves[2])
  BY <1>4, NewShardFacts
<1> HIDE DEF left, right
<1>6. /\ shard' \in Seq(Shard) /\ Len(shard') = n + 2
      /\ \A s \in 1 .. n : shard'[s] = shard[s]
      /\ shard'[n + 1] = left /\ shard'[n + 2] = right
  BY <1>1, <1>3, <1>5, AppendTwoFacts
<1>7. /\ DOMAIN shard' = 1 .. n + 2
      /\ \A s \in DOMAIN shard' : s \in DOMAIN shard \/ s = n + 1 \/ s = n + 2
      /\ DOMAIN shard \subseteq DOMAIN shard' /\ n + 1 \in DOMAIN shard' /\ n + 2 \in DOMAIN shard'
      /\ n + 1 \notin DOMAIN shard /\ n + 2 \notin DOMAIN shard /\ n + 1 # n + 2
  BY <1>3, <1>6
<1>8. /\ list \in Seq(DOMAIN shard') /\ IsInjective(list) /\ Range(list) = Range(Shards) \ {best}
      /\ Len(list) = Len(Shards) - 1
  <2>1. Shards \in Seq(DOMAIN shard') /\ IsInjective(Shards)
    BY <1>7 DEF Inv, ForestTypes
  <2>2. QED BY <1>2, <2>1, WithoutFacts
<1> HIDE DEF list
<1>9. /\ Shards' \in Seq(DOMAIN shard') /\ Shards' # <<>> /\ Len(Shards') = Len(list) + 2
      /\ Range(Shards') = Range(list) \cup {n + 1, n + 2}
      /\ IsInjective(Shards')
  <2> DEFINE D == DOMAIN shard'
             d == n + 1
             e == n + 2
  <2>1. list \in Seq(D) /\ d \in D /\ e \in D /\ d # e /\ d \notin Range(list) /\ e \notin Range(list)
    BY <1>3, <1>7, <1>8
  <2>2. Shards' = list \o <<d, e>>
    BY <1>1
  <2> HIDE DEF D, d, e
  <2>3. /\ Shards' \in Seq(D) /\ Shards' # <<>> /\ Len(Shards') = Len(list) + 2
        /\ Range(Shards') = Range(list) \cup {d, e}
        /\ IsInjective(Shards')
    BY <1>8, <2>1, <2>2, AppendTwoFacts
  <2>4. QED BY <2>3 DEF D, d, e
<1>10. Len(Shards') = Len(Shards) + 1
  BY <1>3, <1>8, <1>9
<1>11. \A s \in {n + 1, n + 2} :
          /\ s \in DOMAIN shard' /\ s \notin DOMAIN shard
          /\ shard'[s].data \in SliceType /\ Holds(arrays, shard'[s].data, Items)
          /\ shard'[s].load = 0 /\ shard'[s].data.arr = shard[best].data.arr
          /\ shard'[s].root = Contents(arrays, shard'[s].data)
  BY <1>4, <1>5, <1>6, <1>7
<1>12. /\ shard'[n + 1].data.len + shard'[n + 2].data.len = shard[best].data.len
       /\ shard'[n + 1].data.len <= shard'[n + 2].data.len
       /\ shard'[n + 2].data.len <= shard'[n + 1].data.len + 1
  BY <1>4, <1>5, <1>6
<1>13. QED BY <1>1, <1>2, <1>3, <1>6, <1>7, <1>8, <1>9, <1>10, <1>11, <1>12

(* The split.                                                               *)
LEMMA SplitStep ==
  ASSUME Inv, Split
  PROVE  Inv'
<1> DEFINE n == Len(shard)
<1>1. /\ UNCHANGED <<arrays, command, best, monitor>> /\ pc = "split" /\ pc' = "idle" /\ scan = 0
      /\ shard' \in Seq(Shard)
      /\ \A s \in DOMAIN shard : s \in DOMAIN shard' /\ shard'[s] = shard[s]
      /\ \A s \in {n + 1, n + 2} :
            /\ s \notin DOMAIN shard
            /\ Holds(arrays, shard'[s].data, Items) /\ shard'[s].load = 0
      /\ \A s \in DOMAIN shard' : s \in DOMAIN shard \/ s = n + 1 \/ s = n + 2
      /\ Range(Shards') = (Range(Shards) \ {best}) \cup {n + 1, n + 2}
      /\ Shards' \in Seq(DOMAIN shard') /\ Shards' # <<>> /\ IsInjective(Shards')
  BY SplitEffect
<1> HIDE DEF n
<1>2. Blocks' = Blocks /\ Items' = Items /\ Shard' = Shard
  BY <1>1 DEF command, Blocks, Items, Shard
<1>3. /\ \A s \in DOMAIN shard : Holds(arrays, shard[s].data, Items)
      /\ arrays \in Seq(Seq(Items \cup {Empty}))
      /\ Range(Shards) \subseteq DOMAIN shard
      /\ best \in DOMAIN shard /\ candidates \in Seq(DOMAIN shard)
  BY ShardFacts DEF Inv, ForestTypes, WorkerTypes
<1>4. ForestTypes'
  <2>1. \A s \in DOMAIN shard' : Holds(arrays, shard'[s].data, Items)
    BY <1>1, <1>3
  <2>2. arrays' = arrays
    BY <1>1
  <2>3. QED BY <1>1, <1>2, <1>3, <2>1, <2>2 DEF ForestTypes
<1>5. CommandTypes'
  BY <1>1, <1>2 DEF Inv, CommandTypes, command
<1>6. WorkerTypes'
  <2>1. best' \in DOMAIN shard' /\ candidates' \in Seq(DOMAIN shard')
    BY <1>1, <1>3 DEF monitor
  <2>2. scan' = 0 /\ Len(Shards') \in Nat
    BY <1>1 DEF monitor
  <2>3. QED BY <1>1, <2>1, <2>2 DEF WorkerTypes
<1>7. Collected'
  BY <1>1 DEF Collected, monitor
<1>8. Loads'
  <2>1. \A s \in Range(Shards') : shard'[s].load <= shardThreshold
    BY <1>1, <1>3, ForestAssumption DEF Inv, Loads
  <2>2. QED BY <1>1, <2>1 DEF Loads, monitor
<1>9. QED BY <1>4, <1>5, <1>6, <1>7, <1>8 DEF Inv

(* The monitor looks at the shards one after the other.                     *)
LEMMA ScanStep ==
  ASSUME Inv, LockForest \/ ScanShard \/ NothingToMerge
  PROVE  Inv'
<1>1. UNCHANGED <<forest, command, adder>>
  BY DEF LockForest, ScanShard, NothingToMerge
<1>2. Blocks' = Blocks /\ Items' = Items
  BY <1>1 DEF command, Blocks, Items
<1>3. ForestTypes'
  BY <1>1, <1>2, ForestKeeps DEF Inv
<1>4. CommandTypes'
  BY <1>1, <1>2 DEF Inv, CommandTypes, command
<1>5. /\ Len(Shards) \in Nat /\ DOMAIN Shards = 1 .. Len(Shards)
      /\ Range(Shards) \subseteq DOMAIN shard /\ IsInjective(Shards)
      /\ \A s \in DOMAIN shard : shard[s].load \in Nat
      /\ shardThreshold \div 2 \in Nat
  BY ShardFacts, ForestAssumption DEF Inv, ForestTypes
<1>6. candidates \in Seq(DOMAIN shard) /\ scan \in 0 .. Len(Shards) + 1
  BY DEF Inv, WorkerTypes
<1>7. CASE LockForest
  <2>1. scan' = 1 /\ candidates' = <<>>
    BY <1>7 DEF LockForest
  <2>2. candidates' \in Seq(DOMAIN shard) /\ Range(candidates') = {} /\ IsInjective(candidates')
    BY <2>1 DEF Range, IsInjective
  <2>3. WorkerTypes'
    BY <1>1, <1>5, <2>1, <2>2 DEF Inv, WorkerTypes, forest, command, adder
  <2>4. Collected' /\ Loads'
    BY <1>1, <2>2 DEF Inv, Collected, Loads, forest, adder
  <2>5. QED BY <1>3, <1>4, <2>3, <2>4 DEF Inv
<1>8. CASE NothingToMerge
  <2>1. scan' = 0 /\ candidates' = candidates
    BY <1>8 DEF NothingToMerge
  <2>2. WorkerTypes'
    BY <1>1, <1>5, <1>6, <2>1 DEF Inv, WorkerTypes, forest, command, adder
  <2>3. Collected' /\ Loads'
    BY <1>1, <2>1 DEF Inv, Collected, Loads, forest, adder
  <2>4. QED BY <1>3, <1>4, <2>2, <2>3 DEF Inv
<1>9. CASE ScanShard
  <2> DEFINE c == Shards[scan]
  <2>1. scan \in DOMAIN Shards /\ scan' = scan + 1 /\ scan # 0
    BY <1>5, <1>9 DEF ScanShard
  <2>2. c \in Range(Shards) /\ c \in DOMAIN shard
    BY <1>5, <2>1 DEF Range
  <2>3. \/ candidates' = candidates
        \/ candidates' = Append(candidates, c) /\ shard[c].load < shardThreshold \div 2
    BY <1>9 DEF ScanShard, Load
  <2>4. /\ IsInjective(candidates)
        /\ \A d \in Range(candidates) : \E k \in DOMAIN Shards : k < scan /\ Shards[k] = d
    BY <2>1 DEF Inv, Collected
  <2>5. c \notin Range(candidates)
    <3> SUFFICES ASSUME c \in Range(candidates) PROVE FALSE
      OBVIOUS
    <3>1. PICK k \in DOMAIN Shards : k < scan /\ Shards[k] = c
      BY <2>4
    <3>2. k = scan
      BY <1>5, <2>1, <3>1 DEF IsInjective
    <3>3. QED BY <1>5, <2>1, <3>1, <3>2
  <2>6. /\ Append(candidates, c) \in Seq(DOMAIN shard)
        /\ Range(Append(candidates, c)) = Range(candidates) \cup {c}
        /\ IsInjective(Append(candidates, c))
    BY <1>6, <2>2, <2>4, <2>5, AppendFacts
  <2>7. /\ candidates' \in Seq(DOMAIN shard) /\ IsInjective(candidates')
        /\ \A d \in Range(candidates') :
              d \in Range(candidates) \/ (d = c /\ shard[c].load < shardThreshold \div 2)
    BY <1>6, <2>3, <2>4, <2>6
  <2>8. WorkerTypes'
    <3>1. scan' \in 0 .. Len(Shards) + 1
      BY <1>5, <2>1
    <3>2. QED BY <1>1, <2>7, <3>1 DEF Inv, WorkerTypes, forest, command, adder
  <2>9. Collected'
    <3>1. ASSUME NEW d \in Range(candidates')
          PROVE  \E k \in DOMAIN Shards : k < scan + 1 /\ Shards[k] = d
      <4>1. CASE d \in Range(candidates)
        <5>1. PICK k \in DOMAIN Shards : k < scan /\ Shards[k] = d
          BY <2>4, <4>1
        <5>2. k < scan + 1
          BY <1>5, <2>1, <5>1
        <5>3. QED BY <5>1, <5>2
      <4>2. CASE d = c
        <5>1. scan < scan + 1
          BY <1>5, <2>1
        <5>2. QED BY <2>1, <4>2, <5>1
      <4>3. QED BY <2>7, <4>1, <4>2
    <3>2. QED BY <1>1, <2>1, <2>7, <3>1 DEF Collected, forest
  <2>10. Loads'
    <3> HIDE DEF c
    <3>1. ASSUME NEW d \in Range(candidates')
          PROVE  \/ shard[d].load < shardThreshold \div 2
                 \/ shard[d].load = shardThreshold \div 2 /\ ~(pc = "append" /\ best = d)
      BY <2>1, <2>7 DEF Inv, Loads
    <3>2. QED BY <1>1, <3>1 DEF Inv, Loads, forest, adder
  <2>11. QED BY <1>3, <1>4, <2>8, <2>9, <2>10 DEF Inv
<1>10. QED BY <1>7, <1>8, <1>9

(* What the merge of the first two candidates makes of the forest.          *)
LEMMA MergeEffect ==
  ASSUME Inv, Merge, NEW c, c = candidates[1], NEW d, d = candidates[2],
         NEW n, n = Len(shard) + 1
  PROVE  /\ UNCHANGED <<command, adder, candidates>> /\ scan # 0 /\ scan' = 0
         /\ c # d /\ c \in Range(Shards) /\ d \in Range(Shards)
         /\ c \in Range(candidates) /\ d \in Range(candidates)
         /\ pc = "split" => best # c /\ best # d
         /\ arrays' \in Seq(Seq(Items \cup {Empty}))
         /\ shard' \in Seq(Shard)
         /\ n \in DOMAIN shard' /\ n \notin DOMAIN shard
         /\ \A s \in DOMAIN shard : s \in DOMAIN shard' /\ shard'[s] = shard[s]
         /\ \A s \in DOMAIN shard' : s \in DOMAIN shard \/ s = n
         /\ \A s \in DOMAIN shard' : Holds(arrays', shard'[s].data, Items)
         /\ shard'[n].load = 0
         /\ shard'[n].root = Contents(arrays', shard'[n].data)
         /\ shard'[n].data.len = shard[c].data.len + shard[d].data.len
         /\ Len(Data(shard[d])) = shard[d].data.len
         /\ Extends(arrays, shard[c].data, Data(shard[d]), arrays', shard'[n].data, Items)
         /\ Range(Shards') = (Range(Shards) \ {c, d}) \cup {n}
         /\ Shards' \in Seq(DOMAIN shard') /\ Shards' # <<>> /\ IsInjective(Shards')
<1>1. /\ scan > Len(Shards) /\ Len(candidates) >= 2
      /\ pc = "split" => best # c /\ best # d
      /\ UNCHANGED <<command, adder, candidates>> /\ scan' = 0
  BY DEF Merge, LockedByAdder
<1>2. /\ shard \in Seq(Shard) /\ Len(shard) \in Nat /\ DOMAIN shard = 1 .. Len(shard)
      /\ Len(Shards) \in Nat /\ Range(Shards) \subseteq DOMAIN shard
      /\ arrays \in Seq(Seq(Items \cup {Empty}))
      /\ Shards \in Seq(DOMAIN shard) /\ IsInjective(Shards)
      /\ \A s \in DOMAIN shard : shard[s].data \in SliceType /\ Holds(arrays, shard[s].data, Items)
  BY ShardFacts DEF Inv, ForestTypes
<1>3. scan # 0
  BY <1>1, <1>2 DEF Inv, WorkerTypes
<1>4. c # d /\ c \in Range(candidates) /\ d \in Range(candidates)
  <2>1. candidates \in Seq(DOMAIN shard)
    BY DEF Inv, WorkerTypes
  <2>2. 1 \in DOMAIN candidates /\ 2 \in DOMAIN candidates
    BY <1>1, <2>1
  <2>3. QED BY <1>3, <2>2 DEF Inv, Collected, IsInjective, Range
<1>5. c \in Range(Shards) /\ d \in Range(Shards) /\ c \in DOMAIN shard /\ d \in DOMAIN shard
  BY <1>2, <1>3, <1>4 DEF Inv, Collected, Range
<1> DEFINE q == Data(shard[d])
           m == Appended(arrays, shard[c].data, q)
           new == NewShard(m.slice, m.mem)
           list == Without(Without(Shards, c), d)
<1>6. /\ arrays' = m.mem /\ shard' = Append(shard, new) /\ Shards' = Append(list, n)
  BY DEF Merge
<1>7. q \in Seq(Items) /\ Len(q) = shard[d].data.len
  BY <1>2, <1>5, ContentsFacts DEF Data
<1> HIDE DEF q
<1>8. /\ m.mem \in Seq(Seq(Items \cup {Empty})) /\ m.slice \in SliceType
      /\ Extends(arrays, shard[c].data, q, m.mem, m.slice, Items)
  <2> DEFINE u == shard[c].data
  <2>1. u \in SliceType /\ Holds(arrays, u, Items)
    BY <1>2, <1>5
  <2> HIDE DEF u
  <2>2. QED BY <1>2, <1>7, <2>1, AppendedExtends DEF u
<1> HIDE DEF m
<1>9. /\ Holds(m.mem, m.slice, Items)
      /\ \A u \in SliceType : Holds(arrays, u, Items) => Holds(m.mem, u, Items)
  BY <1>2, <1>5, <1>7, <1>8, ExtendsHolds
<1>10. m.slice.len = shard[c].data.len + shard[d].data.len
  BY <1>7, <1>8 DEF Extends
<1>11. /\ new \in Shard /\ new.data = m.slice /\ new.load = 0
       /\ new.root = Contents(m.mem, m.slice)
  BY <1>8, <1>9, NewShardFacts
<1> HIDE DEF new
<1>12. /\ shard' \in Seq(Shard) /\ DOMAIN shard' = 1 .. n /\ shard'[n] = new
       /\ \A s \in DOMAIN shard : shard'[s] = shard[s]
  BY <1>2, <1>6, <1>11, AppendProperties
<1>13. /\ n \in DOMAIN shard' /\ n \notin DOMAIN shard /\ DOMAIN shard \subseteq DOMAIN shard'
       /\ \A s \in DOMAIN shard' : s \in DOMAIN shard \/ s = n
  BY <1>2, <1>12
<1>14. /\ list \in Seq(DOMAIN shard') /\ IsInjective(list) /\ Range(list) = Range(Shards) \ {c, d}
  <2> DEFINE D == DOMAIN shard'
             v == Without(Shards, c)
  <2>1. Shards \in Seq(D) /\ IsInjective(Shards)
    <3> DEFINE E == DOMAIN shard
    <3>1. Shards \in Seq(E) /\ E \subseteq D /\ IsInjective(Shards)
      BY <1>2, <1>13
    <3> HIDE DEF D, E
    <3>2. QED BY <3>1
  <2> HIDE DEF D
  <2>2. v \in Seq(D) /\ IsInjective(v) /\ Range(v) = Range(Shards) \ {c}
    BY <2>1, WithoutFacts
  <2> HIDE DEF v
  <2>3. /\ Without(v, d) \in Seq(D) /\ IsInjective(Without(v, d))
        /\ Range(Without(v, d)) = Range(v) \ {d}
    BY <2>2, WithoutFacts
  <2>4. QED BY <2>2, <2>3 DEF v, D
<1> HIDE DEF list
<1>15. /\ Shards' \in Seq(DOMAIN shard') /\ Shards' # <<>> /\ IsInjective(Shards')
       /\ Range(Shards') = (Range(Shards) \ {c, d}) \cup {n}
  <2> DEFINE D == DOMAIN shard'
  <2>1. list \in Seq(D) /\ n \in D /\ n \notin Range(list)
    BY <1>2, <1>13, <1>14
  <2> HIDE DEF D
  <2>2. /\ Shards' \in Seq(D) /\ Shards' # <<>> /\ IsInjective(Shards')
        /\ Range(Shards') = Range(list) \cup {n}
    BY <1>6, <1>14, <2>1, AppendFacts
  <2>3. QED BY <1>14, <2>2 DEF D
<1>16. \A s \in DOMAIN shard' : Holds(arrays', shard'[s].data, Items)
  BY <1>2, <1>6, <1>9, <1>11, <1>12, <1>13
<1>17. /\ shard'[n].root = Contents(arrays', shard'[n].data)
       /\ Len(Data(shard[d])) = shard[d].data.len
       /\ Extends(arrays, shard[c].data, Data(shard[d]), arrays', shard'[n].data, Items)
  BY <1>6, <1>7, <1>8, <1>11, <1>12 DEF q
<1>18. QED BY <1>1, <1>3, <1>4, <1>5, <1>6, <1>8, <1>10, <1>11, <1>12, <1>13, <1>15, <1>16, <1>17

(* The merge.                                                               *)
LEMMA MergeStep ==
  ASSUME Inv, Merge
  PROVE  Inv'
<1> DEFINE n == Len(shard) + 1
           c == candidates[1]
           d == candidates[2]
<1>1. /\ UNCHANGED <<command, adder, candidates>> /\ scan # 0 /\ scan' = 0
      /\ c \in Range(candidates) /\ d \in Range(candidates)
      /\ pc = "split" => best # c /\ best # d
      /\ arrays' \in Seq(Seq(Items \cup {Empty}))
      /\ shard' \in Seq(Shard) /\ n \notin DOMAIN shard
      /\ \A s \in DOMAIN shard : s \in DOMAIN shard' /\ shard'[s] = shard[s]
      /\ \A s \in DOMAIN shard' : Holds(arrays', shard'[s].data, Items)
      /\ shard'[n].load = 0
      /\ Range(Shards') = (Range(Shards) \ {c, d}) \cup {n}
      /\ Shards' \in Seq(DOMAIN shard') /\ Shards' # <<>> /\ IsInjective(Shards')
  BY SMTT(20), MergeEffect
<1> HIDE DEF n, c, d
<1>2. Blocks' = Blocks /\ Items' = Items /\ Shard' = Shard
  BY <1>1 DEF command, Blocks, Items, Shard
<1>3. ForestTypes'
  BY <1>1, <1>2 DEF ForestTypes
<1>4. CommandTypes'
  BY <1>1, <1>2 DEF Inv, CommandTypes, command
<1>5. /\ best \in DOMAIN shard /\ candidates \in Seq(DOMAIN shard)
      /\ Range(Shards) \subseteq DOMAIN shard
      /\ \A s \in DOMAIN shard : shard[s].load \in Nat
      /\ shardThreshold \in Nat
  BY ShardFacts, ForestAssumption DEF Inv, WorkerTypes
<1>6. WorkerTypes'
  <2>1. best' \in DOMAIN shard' /\ candidates' \in Seq(DOMAIN shard')
    BY <1>1, <1>5 DEF adder
  <2>2. scan' \in 0 .. Len(Shards') + 1
    BY <1>1
  <2>3. QED BY <1>1, <2>1, <2>2 DEF Inv, WorkerTypes, command, adder
<1>7. Collected'
  BY <1>1 DEF Collected
<1>8. Loads'
  <2>1. \A s \in Range(Shards') : shard'[s].load <= shardThreshold \/ (pc = "split" /\ s = best)
    <3> TAKE s \in Range(Shards')
    <3>1. CASE s = n
      BY <1>1, <1>5, <3>1
    <3>2. CASE s # n
      BY <1>1, <1>5, <3>2 DEF Inv, Loads
    <3>3. QED BY <3>1, <3>2
  <2>2. pc = "split" => best \in Range(Shards') /\ shard'[best].load > shardThreshold
    BY <1>1, <1>5 DEF Inv, Loads
  <2>3. pc = "append" => best \in Range(Shards') \/ shard'[best].load < shardThreshold
    <3> SUFFICES ASSUME pc = "append", best \notin Range(Shards')
                 PROVE  shard[best].load < shardThreshold
      BY <1>1, <1>5
    <3>1. CASE best \in Range(Shards)
      <4>1. best = c \/ best = d
        BY <1>1, <3>1
      <4>2. shard[best].load < shardThreshold \div 2
        BY <1>1, <4>1 DEF Inv, Loads
      <4>3. QED BY <1>5, <4>2
    <3>2. CASE best \notin Range(Shards)
      BY <3>2 DEF Inv, Loads
    <3>3. QED BY <3>1, <3>2
  <2>4. QED BY <1>1, <2>1, <2>2, <2>3 DEF Loads, adder
<1>9. QED BY <1>3, <1>4, <1>6, <1>7, <1>8 DEF Inv

(* The clock.                                                               *)
LEMMA TimeEffect ==
  ASSUME Inv, TimePasses
  PROVE  /\ shard' \in Seq(Shard) /\ DOMAIN shard' = DOMAIN shard
         /\ \A s \in DOMAIN shard : shard'[s].data = shard[s].data /\ shard'[s].load = shard[s].load
<1>0. shard' = [s \in DOMAIN shard |-> [shard[s] EXCEPT !.idle = TRUE]]
  BY DEF TimePasses
<1>1. shard \in Seq(Shard) /\ DOMAIN shard' = DOMAIN shard
  BY <1>0 DEF Inv, ForestTypes
<1>2. ASSUME NEW t \in Shard
      PROVE  /\ [t EXCEPT !.idle = TRUE] \in Shard
             /\ [t EXCEPT !.idle = TRUE].data = t.data /\ [t EXCEPT !.idle = TRUE].load = t.load
  BY DEF Shard
<1>3. \A s \in DOMAIN shard : shard[s] \in Shard /\ shard'[s] = [shard[s] EXCEPT !.idle = TRUE]
  BY <1>0, <1>1
<1>4. \A s \in DOMAIN shard : /\ shard'[s] \in Shard /\ shard'[s].data = shard[s].data
                              /\ shard'[s].load = shard[s].load
  BY <1>2, <1>3
<1>5. shard' \in Seq(Shard)
  <2>1. DOMAIN shard' = 1 .. Len(shard) /\ Len(shard) \in Nat
        /\ shard' = [s \in DOMAIN shard' |-> shard'[s]]
    BY <1>0, <1>1
  <2>2. QED BY <1>1, <1>4, <2>1
<1>6. QED BY <1>1, <1>4, <1>5

LEMMA TimeStep ==
  ASSUME Inv, TimePasses
  PROVE  Inv'
<1>1. /\ shard' = [s \in DOMAIN shard |-> [shard[s] EXCEPT !.idle = TRUE]]
      /\ UNCHANGED <<arrays, Shards, command, adder, monitor>>
  BY DEF TimePasses
<1>2. Blocks' = Blocks /\ Items' = Items /\ Shard' = Shard
  BY <1>1 DEF command, Blocks, Items, Shard
<1>3. /\ shard' \in Seq(Shard) /\ DOMAIN shard' = DOMAIN shard
      /\ \A s \in DOMAIN shard : shard'[s].data = shard[s].data /\ shard'[s].load = shard[s].load
  BY TimeEffect
<1>4. ForestTypes'
  BY <1>1, <1>2, <1>3 DEF Inv, ForestTypes
<1>5. CommandTypes'
  BY <1>1, <1>2 DEF Inv, CommandTypes, command
<1>6. WorkerTypes' /\ Collected'
  BY <1>1, <1>3 DEF Inv, WorkerTypes, Collected, command, adder, monitor
<1>7. Loads'
  <2>1. Range(Shards) \subseteq DOMAIN shard /\ Range(candidates) \subseteq DOMAIN shard
        /\ best \in DOMAIN shard
    BY ShardFacts DEF Inv, WorkerTypes, Range
  <2>2. QED BY <1>1, <1>3, <2>1 DEF Inv, Loads, adder, monitor
<1>8. QED BY <1>4, <1>5, <1>6, <1>7 DEF Inv

LEMMA Invariance == Spec => []Inv
<1>1. Inv /\ UNCHANGED vars => Inv'
  <2> SUFFICES ASSUME Inv, UNCHANGED vars PROVE Inv'
    OBVIOUS
  <2>1. UNCHANGED <<forest, command, adder, monitor>>
    BY DEF vars
  <2>2. Blocks' = Blocks /\ Items' = Items
    BY <2>1 DEF command, Blocks, Items
  <2>3. ForestTypes'
    BY <2>1, <2>2, ForestKeeps DEF Inv
  <2>4. CommandTypes'
    BY <2>1, <2>2 DEF Inv, CommandTypes, command
  <2>5. WorkerTypes' /\ Collected' /\ Loads'
    BY <2>1 DEF Inv, WorkerTypes, Collected, Loads, forest, command, adder, monitor
  <2>6. QED BY <2>3, <2>4, <2>5 DEF Inv
<1>2. Inv /\ [Next]_vars => Inv'
  BY <1>1, CommandStep, PickShardStep, AddToShardStep, SplitStep, ScanStep, MergeStep, TimeStep
     DEF Next, AddData, MergeLowActivityShards
<1>3. QED BY <1>2, InitInv, PTL DEF Spec

(* The types hold whatever the threshold is and whatever the monitor does.  *)
THEOREM TypeCorrect == Spec => []TypeOK
<1>1. Inv => TypeOK
  <2> SUFFICES ASSUME Inv PROVE TypeOK
    OBVIOUS
  <2>1. \A a \in DOMAIN arrays : Range(arrays[a]) \subseteq Items \cup {Empty}
    <3>1. \A a \in DOMAIN arrays : arrays[a] \in Seq(Items \cup {Empty})
      BY DEF Inv, ForestTypes
    <3>2. QED BY <3>1 DEF Range
  <2>2. \A s \in DOMAIN shard :
           /\ shard[s].data.arr \in DOMAIN arrays
           /\ shard[s].data.off + shard[s].data.len <= Len(arrays[shard[s].data.arr])
           /\ Range(shard[s].root) \subseteq Items
           /\ shard[s].load \in Nat /\ shard[s].idle \in BOOLEAN
    <3>1. \A s \in DOMAIN shard : shard[s].root \in Seq(Items) => Range(shard[s].root) \subseteq Items
      BY DEF Range
    <3>2. QED BY <3>1, ShardFacts DEF Inv, Holds
  <2>3. Range(Shards) \subseteq DOMAIN shard /\ IsInjective(Shards) /\ Shards # <<>>
    BY ShardFacts DEF Inv, ForestTypes
  <2>4. Range(todo) \subseteq Items /\ Range(unverified) \subseteq Blocks
    BY DEF Inv, CommandTypes, Range
  <2>5. stage \in {"rebuild", "add", "validate"} /\ retried \in BOOLEAN /\ failed \in BOOLEAN
    BY DEF Inv, CommandTypes
  <2>6. pc \in {"idle", "append", "split"} /\ best \in DOMAIN shard
    BY DEF Inv, WorkerTypes
  <2>7. pc = "split" <=> shard[best].load > shardThreshold /\ best \in Range(Shards)
    BY <2>6, ShardFacts, ForestAssumption DEF Inv, Loads
  <2>8. scan \in 0 .. Len(Shards) + 1 /\ Range(candidates) \subseteq DOMAIN shard
    BY DEF Inv, WorkerTypes, Range
  <2>9. QED BY <2>1, <2>2, <2>3, <2>4, <2>5, <2>6, <2>7, <2>8 DEF TypeOK
<1>2. QED BY <1>1, Invariance, PTL

-----------------------------------------------------------------------------
(* The entries of the forest.                                               *)

Lengths == [s \in DOMAIN shard |-> shard[s].data.len]

LEMMA EntriesFacts ==
  ASSUME ForestTypes
  PROVE  /\ Entries = SumFunctionOnSet(Lengths, Range(Shards))
         /\ IsFiniteSet(Range(Shards))
         /\ \A s \in DOMAIN shard : Lengths[s] = shard[s].data.len /\ Lengths[s] \in Int
         /\ Range(Shards) \subseteq DOMAIN shard
         /\ Entries \in Int
<1>1. Entries = SumFunctionOnSet(Lengths, Range(Shards))
  BY DEF Entries, Lengths
<1>2. Range(Shards) \subseteq 1 .. Len(shard) /\ Len(shard) \in Nat /\ DOMAIN shard = 1 .. Len(shard)
  BY ShardFacts
<1>3. IsFiniteSet(1 .. Len(shard))
  BY <1>2, FS_Interval
<1>4. IsFiniteSet(Range(Shards))
  BY <1>2, <1>3, FS_Subset
<1>5. \A s \in DOMAIN shard : Lengths[s] = shard[s].data.len /\ Lengths[s] \in Int
  BY ShardFacts DEF Lengths, SliceType
<1>6. Entries \in Int
  <2>1. \A s \in Range(Shards) : Lengths[s] \in Int
    BY <1>2, <1>5
  <2>2. QED BY <1>1, <1>4, <2>1, SumType
<1>7. QED BY <1>1, <1>2, <1>4, <1>5, <1>6

(* A step that changes the length of no listed shard.                       *)
LEMMA EntriesSame ==
  ASSUME ForestTypes, ForestTypes', Shards' = Shards,
         \A s \in Range(Shards) : shard'[s].data.len = shard[s].data.len
  PROVE  Entries' = Entries
<1> DEFINE R == Range(Shards)
           f == Lengths
           g == Lengths'
<1>1. /\ Entries = SumFunctionOnSet(f, R) /\ IsFiniteSet(R) /\ R \subseteq DOMAIN shard
      /\ \A s \in DOMAIN shard : f[s] = shard[s].data.len /\ f[s] \in Int
  BY EntriesFacts
<1>2. /\ Entries' = SumFunctionOnSet(g, R) /\ R \subseteq DOMAIN shard'
      /\ \A s \in DOMAIN shard' : g[s] = shard'[s].data.len /\ g[s] \in Int
  <2>1. (ForestTypes =>
         /\ Entries = SumFunctionOnSet(Lengths, Range(Shards))
         /\ Range(Shards) \subseteq DOMAIN shard
         /\ \A s \in DOMAIN shard : Lengths[s] = shard[s].data.len /\ Lengths[s] \in Int)'
    BY EntriesFacts, PTL
  <2>2. QED BY <2>1
<1>3. \A s \in R : f[s] = g[s]
  BY <1>1, <1>2
<1> HIDE DEF R, f, g
<1>4. QED BY <1>1, <1>2, <1>3, SumAgree

(* One listed shard grows.                                                  *)
LEMMA EntriesAdd ==
  ASSUME ForestTypes, ForestTypes', Shards' = Shards, NEW b \in Range(Shards),
         shard'[b].data.len = shard[b].data.len + 1,
         \A s \in Range(Shards) : s # b => shard'[s].data.len = shard[s].data.len
  PROVE  Entries' = Entries + 1
<1> DEFINE R == Range(Shards)
           f == Lengths
           g == Lengths'
<1>1. /\ Entries = SumFunctionOnSet(f, R) /\ IsFiniteSet(R) /\ R \subseteq DOMAIN shard
      /\ \A s \in DOMAIN shard : f[s] = shard[s].data.len /\ f[s] \in Int
  BY EntriesFacts
<1>2. /\ Entries' = SumFunctionOnSet(g, R) /\ R \subseteq DOMAIN shard'
      /\ \A s \in DOMAIN shard' : g[s] = shard'[s].data.len /\ g[s] \in Int
  <2>1. (ForestTypes =>
         /\ Entries = SumFunctionOnSet(Lengths, Range(Shards))
         /\ Range(Shards) \subseteq DOMAIN shard
         /\ \A s \in DOMAIN shard : Lengths[s] = shard[s].data.len /\ Lengths[s] \in Int)'
    BY EntriesFacts, PTL
  <2>2. QED BY <2>1
<1>3. /\ \A s \in R : f[s] \in Int /\ g[s] \in Int
      /\ \A s \in R \ {b} : f[s] = g[s]
      /\ g[b] = f[b] + 1 /\ b \in R
  BY <1>1, <1>2
<1>4. IsFiniteSet(R \ {b})
  BY <1>1, FS_Subset
<1> HIDE DEF R, f, g
<1>5. SumFunctionOnSet(f, R) = f[b] + SumFunctionOnSet(f, R \ {b})
  BY <1>1, <1>3, SumRemove
<1>6. SumFunctionOnSet(g, R) = g[b] + SumFunctionOnSet(g, R \ {b})
  BY <1>1, <1>3, SumRemove
<1>7. SumFunctionOnSet(f, R \ {b}) = SumFunctionOnSet(g, R \ {b})
  BY <1>3, <1>4, SumAgree
<1>8. SumFunctionOnSet(f, R \ {b}) \in Int
  BY <1>3, <1>4, SumType
<1>9. f[b] \in Int
  BY <1>3
<1>10. QED BY <1>1, <1>2, <1>3, <1>5, <1>6, <1>7, <1>8, <1>9

(* Listed shards are replaced by new ones of the same total length.         *)
LEMMA EntriesReplaced ==
  ASSUME ForestTypes, ForestTypes',
         NEW Old \in SUBSET Range(Shards), NEW New, New \subseteq DOMAIN shard',
         New \cap Range(Shards) = {},
         Range(Shards') = (Range(Shards) \ Old) \cup New,
         \A s \in Range(Shards) : shard'[s] = shard[s],
         SumFunctionOnSet(Lengths', New) = SumFunctionOnSet(Lengths, Old)
  PROVE  Entries' = Entries
<1> DEFINE R == Range(Shards)
           P == Range(Shards')
           f == Lengths
           g == Lengths'
<1>1. /\ Entries = SumFunctionOnSet(f, R) /\ IsFiniteSet(R) /\ R \subseteq DOMAIN shard
      /\ \A s \in DOMAIN shard : f[s] = shard[s].data.len /\ f[s] \in Int
  BY EntriesFacts
<1>2. /\ Entries' = SumFunctionOnSet(g, P) /\ IsFiniteSet(P) /\ P \subseteq DOMAIN shard'
      /\ \A s \in DOMAIN shard' : g[s] = shard'[s].data.len /\ g[s] \in Int
  <2>1. (ForestTypes =>
         /\ Entries = SumFunctionOnSet(Lengths, Range(Shards)) /\ IsFiniteSet(Range(Shards))
         /\ Range(Shards) \subseteq DOMAIN shard
         /\ \A s \in DOMAIN shard : Lengths[s] = shard[s].data.len /\ Lengths[s] \in Int)'
    BY EntriesFacts, PTL
  <2>2. QED BY <2>1
<1>3. /\ \A s \in R : f[s] \in Int
      /\ \A s \in P : g[s] \in Int
      /\ \A s \in R \ Old : f[s] = g[s]
  BY <1>1, <1>2
<1>4. P \ New = R \ Old /\ New \in SUBSET P /\ Old \in SUBSET R /\ IsFiniteSet(R \ Old)
  BY <1>1, FS_Subset
<1>5. SumFunctionOnSet(g, New) = SumFunctionOnSet(f, Old)
  OBVIOUS
<1> HIDE DEF R, P, f, g
<1>6. SumFunctionOnSet(f, R) = SumFunctionOnSet(f, Old) + SumFunctionOnSet(f, R \ Old)
  BY <1>1, <1>3, <1>4, SumSplit
<1>7. SumFunctionOnSet(g, P) = SumFunctionOnSet(g, New) + SumFunctionOnSet(g, P \ New)
  BY <1>2, <1>3, <1>4, SumSplit
<1>8. SumFunctionOnSet(f, R \ Old) = SumFunctionOnSet(g, R \ Old)
  BY <1>3, <1>4, SumAgree
<1>9. QED BY <1>1, <1>2, <1>4, <1>5, <1>6, <1>7, <1>8

(* The sums over one and over two shards.                                   *)
LEMMA SumOfOne ==
  ASSUME NEW f, NEW a, f[a] \in Int
  PROVE  SumFunctionOnSet(f, {a}) = f[a]
<1>1. IsFiniteSet({a}) /\ \A x \in {a} : f[x] \in Int
  BY FS_Singleton
<1>2. SumFunctionOnSet(f, {a}) = f[a] + SumFunctionOnSet(f, {a} \ {a})
  BY <1>1, SumRemove
<1>3. {a} \ {a} = {}
  OBVIOUS
<1>4. QED BY <1>2, <1>3, SumEmpty

LEMMA SumOfTwo ==
  ASSUME NEW f, NEW a, NEW b, a # b, f[a] \in Int, f[b] \in Int
  PROVE  SumFunctionOnSet(f, {a, b}) = f[a] + f[b]
<1>1. IsFiniteSet({a, b}) /\ \A x \in {a, b} : f[x] \in Int
  <2>1. IsFiniteSet({a} \cup {b}) /\ {a} \cup {b} = {a, b}
    BY FS_Singleton, FS_AddElement
  <2>2. QED BY <2>1
<1>2. SumFunctionOnSet(f, {a, b}) = f[a] + SumFunctionOnSet(f, {a, b} \ {a})
  BY <1>1, SumRemove
<1>3. {a, b} \ {a} = {b}
  OBVIOUS
<1>4. QED BY <1>2, <1>3, SumOfOne

(* Every step but AddToShard keeps the number of entries, and AddToShard    *)
(* adds one if its shard has not been merged away in the meantime.          *)
LEMMA EntriesStep ==
  ASSUME Inv, Inv', [Next]_vars
  PROVE  /\ AddToShard /\ best \in Range(Shards) => Entries' = Entries + 1
         /\ ~(AddToShard /\ best \in Range(Shards)) => Entries' = Entries
<1>1. ForestTypes /\ ForestTypes' /\ Range(Shards) \subseteq DOMAIN shard
  BY ShardFacts DEF Inv
<1>2. CASE UNCHANGED forest
  <2>1. Entries' = Entries
    BY <1>1, <1>2, EntriesSame DEF forest
  <2>2. ~AddToShard
    <3> SUFFICES ASSUME AddToShard PROVE FALSE
      OBVIOUS
    <3>1. /\ shard'[best].load = shard[best].load + 1
      BY AddToShardEffect
    <3>2. shard[best].load \in Nat
      BY ShardFacts DEF Inv, WorkerTypes
    <3>3. QED BY <1>2, <3>1, <3>2 DEF forest
  <2>3. QED BY <2>1, <2>2
<1>3. CASE AddToShard
  <2>1. /\ Shards' = Shards
        /\ \A s \in DOMAIN shard : s # best => shard'[s] = shard[s]
    BY <1>3, AddToShardEffect DEF AddToShard
  <2>2. shard'[best].data.len = shard[best].data.len + 1
    <3>1. Extends(arrays, shard[best].data, <<Head(todo)>>, arrays', shard'[best].data, Items)
      BY <1>3, AddToShardEffect
    <3>2. Len(<<Head(todo)>>) = 1
      OBVIOUS
    <3>3. QED BY <3>1, <3>2 DEF Extends
  <2>3. CASE best \in Range(Shards)
    <3> PICK b : b = best
      OBVIOUS
    <3>1. /\ b \in Range(Shards)
          /\ shard'[b].data.len = shard[b].data.len + 1
          /\ \A s \in Range(Shards) : s # b => shard'[s].data.len = shard[s].data.len
      BY <1>1, <2>1, <2>2, <2>3
    <3>2. Shards' = Shards
      BY <2>1
    <3>3. Entries' = Entries + 1
      BY <1>1, <3>1, <3>2, EntriesAdd
    <3>4. QED BY <1>3, <2>3, <3>3
  <2>4. CASE best \notin Range(Shards)
    BY <1>1, <2>1, <2>4, EntriesSame
  <2>5. QED BY <1>3, <2>3, <2>4
<1>4. CASE Split
  <2> PICK n : n = Len(shard)
    OBVIOUS
  <2>1. /\ pc = "split" /\ best \in Range(Shards)
        /\ \A s \in DOMAIN shard : shard'[s] = shard[s]
        /\ \A s \in {n + 1, n + 2} : s \in DOMAIN shard' /\ s \notin DOMAIN shard
        /\ shard'[n + 1].data.len + shard'[n + 2].data.len = shard[best].data.len
        /\ Range(Shards') = (Range(Shards) \ {best}) \cup {n + 1, n + 2}
    BY <1>4, SplitEffect
  <2>2. n + 1 # n + 2
    BY ShardFacts DEF Inv
  <2>3. \A s \in DOMAIN shard : Lengths[s] = shard[s].data.len /\ Lengths[s] \in Int
    BY <1>1, EntriesFacts
  <2>4. \A s \in DOMAIN shard' : Lengths'[s] = shard'[s].data.len /\ Lengths'[s] \in Int
    <3>1. (ForestTypes =>
             \A s \in DOMAIN shard : Lengths[s] = shard[s].data.len /\ Lengths[s] \in Int)'
      BY EntriesFacts, PTL
    <3>2. QED BY <1>1, <3>1
  <2>5. SumFunctionOnSet(Lengths, {best}) = shard[best].data.len
    <3>1. Lengths[best] \in Int /\ Lengths[best] = shard[best].data.len
      BY <1>1, <2>1, <2>3
    <3>2. SumFunctionOnSet(Lengths, {best}) = Lengths[best]
      BY <3>1, SumOfOne, Zenon
    <3>3. QED BY <3>1, <3>2
  <2>6. SumFunctionOnSet(Lengths', {n + 1, n + 2}) = shard'[n + 1].data.len + shard'[n + 2].data.len
    <3>1. /\ Lengths'[n + 1] \in Int /\ Lengths'[n + 1] = shard'[n + 1].data.len
          /\ Lengths'[n + 2] \in Int /\ Lengths'[n + 2] = shard'[n + 2].data.len
      BY <2>1, <2>4
    <3>2. SumFunctionOnSet(Lengths', {n + 1, n + 2}) = Lengths'[n + 1] + Lengths'[n + 2]
      BY <2>2, <3>1, SumOfTwo, ZenonT(30)
    <3>3. QED BY <3>1, <3>2
  <2>7. Entries' = Entries
    BY <1>1, <2>1, <2>5, <2>6, EntriesReplaced
  <2>8. ~AddToShard
    BY <2>1 DEF AddToShard
  <2>9. QED BY <2>7, <2>8
<1>5. CASE Merge
  <2> DEFINE n == Len(shard) + 1
             c == candidates[1]
             d == candidates[2]
  <2>1. /\ c # d /\ c \in Range(Shards) /\ d \in Range(Shards)
        /\ n \in DOMAIN shard' /\ n \notin DOMAIN shard
        /\ \A s \in DOMAIN shard : shard'[s] = shard[s]
        /\ shard'[n].data.len = shard[c].data.len + shard[d].data.len
        /\ Range(Shards') = (Range(Shards) \ {c, d}) \cup {n}
        /\ scan # 0 /\ scan' = 0
    BY <1>5, MergeEffect
  <2> HIDE DEF n, c, d
  <2>2. \A s \in DOMAIN shard : Lengths[s] = shard[s].data.len /\ Lengths[s] \in Int
    BY <1>1, EntriesFacts
  <2>3. \A s \in DOMAIN shard' : Lengths'[s] = shard'[s].data.len /\ Lengths'[s] \in Int
    <3>1. (ForestTypes =>
             \A s \in DOMAIN shard : Lengths[s] = shard[s].data.len /\ Lengths[s] \in Int)'
      BY EntriesFacts, PTL
    <3>2. QED BY <1>1, <3>1
  <2>4. SumFunctionOnSet(Lengths, {c, d}) = shard[c].data.len + shard[d].data.len
    <3>1. /\ Lengths[c] \in Int /\ Lengths[c] = shard[c].data.len
          /\ Lengths[d] \in Int /\ Lengths[d] = shard[d].data.len
      BY <1>1, <2>1, <2>2
    <3>2. SumFunctionOnSet(Lengths, {c, d}) = Lengths[c] + Lengths[d]
      BY <2>1, <3>1, SumOfTwo, Zenon
    <3>3. QED BY <3>1, <3>2
  <2>5. SumFunctionOnSet(Lengths', {n}) = shard'[n].data.len
    <3>1. Lengths'[n] \in Int /\ Lengths'[n] = shard'[n].data.len
      BY <2>1, <2>3
    <3>2. SumFunctionOnSet(Lengths', {n}) = Lengths'[n]
      BY <3>1, SumOfOne, Zenon
    <3>3. QED BY <3>1, <3>2
  <2>6. Entries' = Entries
    BY <1>1, <2>1, <2>4, <2>5, EntriesReplaced
  <2>7. ~AddToShard
    BY <2>1 DEF AddToShard, monitor
  <2>8. QED BY <2>6, <2>7
<1>6. CASE TimePasses
  <2>1. /\ shard' = [s \in DOMAIN shard |-> [shard[s] EXCEPT !.idle = TRUE]]
        /\ Shards' = Shards /\ pc' = pc
    BY <1>6 DEF TimePasses, adder
  <2>2. \A s \in DOMAIN shard : shard[s] \in Shard
    BY DEF Inv, ForestTypes
  <2>3. \A s \in DOMAIN shard : shard'[s].data = shard[s].data /\ shard'[s].load = shard[s].load
    BY <2>1, <2>2 DEF Shard
  <2>4. Entries' = Entries
    BY <1>1, <2>1, <2>3, EntriesSame
  <2>5. ~AddToShard
    <3> SUFFICES ASSUME AddToShard PROVE FALSE
      OBVIOUS
    <3>1. shard'[best].load = shard[best].load + 1
      BY AddToShardEffect
    <3>2. best \in DOMAIN shard /\ shard[best].load \in Nat
      BY ShardFacts DEF Inv, WorkerTypes
    <3>3. QED BY <2>3, <3>1, <3>2
  <2>6. QED BY <2>4, <2>5
<1>7. [Next]_vars => UNCHANGED forest \/ AddToShard \/ Split \/ Merge \/ TimePasses
  BY DEF Next, Command, AddBlock, ValidateChain, Verified, Recover, GiveUp, AddData, PickShard,
         MergeLowActivityShards, LockForest, ScanShard, NothingToMerge, vars
<1>8. QED BY <1>2, <1>3, <1>4, <1>5, <1>6, <1>7

(* Splits and merges lose no entry, whatever the monitor does meanwhile.    *)
THEOREM ForestNeverShrinks == Spec => EntriesNeverDrop
<1>1. Inv /\ Inv' /\ [Next]_vars => [Entries' >= Entries]_vars
  <2> SUFFICES ASSUME Inv, Inv', [Next]_vars PROVE Entries' >= Entries
    OBVIOUS
  <2>1. Entries' = Entries + 1 \/ Entries' = Entries
    BY EntriesStep
  <2>2. Entries \in Int
    BY EntriesFacts DEF Inv
  <2>3. QED BY <2>1, <2>2
<1>2. QED BY <1>1, Invariance, PTL DEF Spec, EntriesNeverDrop

-----------------------------------------------------------------------------
(* Shards that share an array.                                              *)

(* No shard that counts is empty once there are several.                    *)
Filled ==
    /\ \A s \in DOMAIN shard : shard[s].load <= shard[s].data.len
    /\ Len(Shards) > 1 => \A s \in Range(Shards) : shard[s].data.len > 0

(* Shards that share an array share it with one that has been split or      *)
(* merged and stays there: nobody works on it any more, except an AddData   *)
(* that chose it before the merge, and for that it has room.                *)
Anchor(d, a) ==
    /\ d \in DOMAIN shard /\ d \notin Range(Shards)
    /\ shard[d].data.arr = a
    /\ pc = "append" /\ d = best => shard[d].data.off + shard[d].data.len < Len(arrays[a])

Anchored ==
    \A a \in DOMAIN arrays : \A s, t \in DOMAIN shard :
        s # t /\ shard[s].data.arr = a /\ shard[t].data.arr = a => \E d : Anchor(d, a)

(* A shard that is alone on its array has the root of its data.             *)
AloneIntact ==
    \A s \in Range(Shards) :
        (\A t \in DOMAIN shard \ {s} : shard[t].data.arr # shard[s].data.arr) =>
            shard[s].root = Data(shard[s])

Shared == Filled /\ Anchored /\ AloneIntact

LEMMA InitShared == Init => Shared
<1> SUFFICES ASSUME Init PROVE Shared
  OBVIOUS
<1>1. /\ DOMAIN shard = {1} /\ Len(Shards) = 1 /\ Range(Shards) = {1}
      /\ shard[1] = NewShard(Slice(1, 0, 0), arrays)
  BY DEF Init, Range
<1>2. /\ shard[1].load = 0 /\ shard[1].data = Slice(1, 0, 0) /\ shard[1].data.len = 0
      /\ shard[1].root = Contents(arrays, shard[1].data)
  BY <1>1 DEF NewShard, Slice
<1>3. Filled
  BY <1>1, <1>2 DEF Filled
<1>4. Anchored
  BY <1>1 DEF Anchored
<1>5. AloneIntact
  BY <1>1, <1>2 DEF AloneIntact, Data
<1>6. QED BY <1>3, <1>4, <1>5 DEF Shared

(* Whoever leaves the memory, the slices and the list alone keeps Shared,   *)
(* unless it starts to work on an anchor.                                   *)
LEMMA SharedKeeps ==
  ASSUME Inv, Shared, arrays' = arrays, Shards' = Shards, DOMAIN shard' = DOMAIN shard,
         \A s \in DOMAIN shard : /\ shard'[s].data = shard[s].data
                                 /\ shard'[s].load = shard[s].load
                                 /\ shard'[s].root = shard[s].root,
         pc' = "append" => best' \in Range(Shards) \/ (pc = "append" /\ best' = best)
  PROVE  Shared'
<1>1. Range(Shards) \subseteq DOMAIN shard
  BY ShardFacts DEF Inv
<1>2. Filled'
  BY <1>1 DEF Shared, Filled
<1>3. Anchored'
  <2>1. \A d, a : Anchor(d, a) => Anchor(d, a)'
    BY DEF Anchor
  <2>2. QED BY <2>1 DEF Shared, Anchored
<1>4. AloneIntact'
  BY <1>1 DEF Shared, AloneIntact, Data
<1>5. QED BY <1>2, <1>3, <1>4 DEF Shared

(* An append moves a shard only if it has no room, and an anchor has room.  *)
LEMMA SharedAdd ==
  ASSUME Inv, Shared, AddToShard
  PROVE  Shared'
<1> PICK b : b = best
  OBVIOUS
<1>1. /\ Extends(arrays, shard[b].data, <<Head(todo)>>, arrays', shard'[b].data, Items)
      /\ DOMAIN shard' = DOMAIN shard
      /\ \A s \in DOMAIN shard : s # b => shard'[s] = shard[s]
      /\ shard'[b].load = shard[b].load + 1
      /\ shard'[b].root = Contents(arrays', shard'[b].data)
  BY AddToShardEffect
<1>2. pc = "append" /\ best' = best /\ Shards' = Shards /\ pc' # "append"
  BY DEF AddToShard
<1>3. /\ b \in DOMAIN shard /\ Range(Shards) \subseteq DOMAIN shard
      /\ \A s \in DOMAIN shard :
            /\ shard[s].data.arr \in DOMAIN arrays
            /\ shard[s].data.off \in Nat /\ shard[s].data.len \in Nat
            /\ shard[s].load \in Nat
      /\ \A a \in DOMAIN arrays : Len(arrays[a]) \in Nat
  <2>1. \A a \in DOMAIN arrays : Len(arrays[a]) \in Nat
    BY DEF Inv, ForestTypes
  <2>2. QED BY <2>1, ShardFacts DEF Inv, WorkerTypes, Holds, SliceType
<1>4. /\ shard'[b].data.len = shard[b].data.len + 1
      /\ \A a \in DOMAIN arrays : a # shard'[b].data.arr => arrays'[a] = arrays[a]
      /\ shard'[b].data.arr = shard[b].data.arr \/ shard'[b].data.arr \notin DOMAIN arrays
      /\ shard'[b].data.arr = shard[b].data.arr
            <=> shard[b].data.off + shard[b].data.len + 1 <= Len(arrays[shard[b].data.arr])
  <2>1. Len(<<Head(todo)>>) = 1
    OBVIOUS
  <2>2. QED BY <1>1, <2>1 DEF Extends
<1>5. Filled'
  <2>1. \A s \in DOMAIN shard : shard[s].load <= shard[s].data.len
    BY DEF Shared, Filled
  <2>2. \A s \in DOMAIN shard : /\ shard'[s].load <= shard'[s].data.len
                                /\ shard[s].data.len > 0 => shard'[s].data.len > 0
    <3> TAKE s \in DOMAIN shard
    <3>1. CASE s = b
      BY <1>1, <1>3, <1>4, <2>1, <3>1
    <3>2. CASE s # b
      BY <1>1, <2>1, <3>2
    <3>3. QED BY <3>1, <3>2
  <2>3. ASSUME Len(Shards) > 1, NEW s \in Range(Shards) PROVE shard'[s].data.len > 0
    <3>1. shard[s].data.len > 0
      BY <2>3 DEF Shared, Filled
    <3>2. s \in DOMAIN shard
      BY <1>3
    <3>3. QED BY <2>2, <3>1, <3>2
  <2>4. \A s \in DOMAIN shard' : shard'[s].load <= shard'[s].data.len
    BY <1>1, <2>2
  <2>5. Len(Shards') > 1 => \A s \in Range(Shards') : shard'[s].data.len > 0
    BY <1>2, <2>3
  <2>6. QED BY <2>4, <2>5 DEF Filled
<1>6. ASSUME NEW a, NEW d, Anchor(d, a)
      PROVE  Anchor(d, a)' /\ (d = b => shard'[b].data.arr = shard[b].data.arr)
  <2>1. d \in DOMAIN shard /\ d \notin Range(Shards) /\ shard[d].data.arr = a
    BY <1>6 DEF Anchor
  <2>2. CASE d = b
    <3>1. shard[b].data.off + shard[b].data.len < Len(arrays[shard[b].data.arr])
      BY <1>2, <1>6, <2>2 DEF Anchor
    <3>2. shard'[b].data.arr = shard[b].data.arr
      BY <1>3, <1>4, <3>1
    <3>3. QED BY <1>1, <1>2, <2>1, <2>2, <3>2 DEF Anchor
  <2>3. CASE d # b
    BY <1>1, <1>2, <2>1, <2>3 DEF Anchor
  <2>4. QED BY <2>2, <2>3
<1>7. Anchored'
  <2> SUFFICES ASSUME NEW a \in DOMAIN arrays', NEW s \in DOMAIN shard, NEW t \in DOMAIN shard,
                      s # t, shard'[s].data.arr = a, shard'[t].data.arr = a
               PROVE  \E d : Anchor(d, a)'
    BY <1>1 DEF Anchored
  <2>1. shard[s].data.arr = a /\ shard[t].data.arr = a
    <3>1. CASE s = b
      BY <1>1, <1>3, <1>4, <3>1
    <3>2. CASE t = b
      BY <1>1, <1>3, <1>4, <3>2
    <3>3. CASE s # b /\ t # b
      BY <1>1, <3>3
    <3>4. QED BY <3>1, <3>2, <3>3
  <2>2. PICK d : Anchor(d, a)
    BY <1>3, <2>1 DEF Shared, Anchored
  <2>3. QED BY <1>6, <2>2
<1>8. AloneIntact'
  <2> SUFFICES ASSUME NEW s \in Range(Shards),
                      \A t \in DOMAIN shard \ {s} : shard'[t].data.arr # shard'[s].data.arr
               PROVE  shard'[s].root = Contents(arrays', shard'[s].data)
    BY <1>1, <1>2 DEF AloneIntact, Data
  <2>1. CASE s = b
    BY <1>1, <2>1
  <2>2. CASE s # b
    <3>1. shard'[s] = shard[s] /\ s \in DOMAIN shard
      BY <1>1, <1>3, <2>2
    <3>2. \A t \in DOMAIN shard \ {s} : shard[t].data.arr # shard[s].data.arr
      <4> SUFFICES ASSUME NEW t \in DOMAIN shard \ {s}, shard[t].data.arr = shard[s].data.arr
                   PROVE  FALSE
        OBVIOUS
      <4> PICK a : a = shard[s].data.arr
        OBVIOUS
      <4>1. PICK d : Anchor(d, a)
        BY <1>3, <3>1 DEF Shared, Anchored
      <4>2. d \in DOMAIN shard /\ d # s /\ shard'[d].data.arr = a
        BY <1>1, <1>6, <4>1 DEF Anchor
      <4>3. QED BY <3>1, <4>2
    <3>3. shard[s].root = Contents(arrays, shard[s].data)
      BY <3>2 DEF Shared, AloneIntact, Data
    <3>4. arrays'[shard[s].data.arr] = arrays[shard[s].data.arr]
      BY <1>3, <1>4, <2>2, <3>1
    <3>5. QED BY <3>1, <3>3, <3>4 DEF Contents
  <2>3. QED BY <2>1, <2>2
<1>9. QED BY <1>5, <1>7, <1>8 DEF Shared

(* The halves share the array of their parent, which is not listed any more *)
(* and not worked on.                                                       *)
LEMMA SharedSplit ==
  ASSUME Inv, Shared, Split
  PROVE  Shared'
<1> PICK n : n = Len(shard)
  OBVIOUS
<1>1. /\ arrays' = arrays /\ pc = "split" /\ pc' = "idle"
      /\ best \in Range(Shards)
      /\ \A s \in DOMAIN shard : s \in DOMAIN shard' /\ shard'[s] = shard[s]
      /\ \A s \in {n + 1, n + 2} :
            /\ s \in DOMAIN shard' /\ s \notin DOMAIN shard
            /\ shard'[s].data \in SliceType
            /\ shard'[s].load = 0 /\ shard'[s].data.arr = shard[best].data.arr
      /\ \A s \in DOMAIN shard' : s \in DOMAIN shard \/ s = n + 1 \/ s = n + 2
      /\ shard'[n + 1].data.len + shard'[n + 2].data.len = shard[best].data.len
      /\ shard'[n + 1].data.len <= shard'[n + 2].data.len
      /\ shard'[n + 2].data.len <= shard'[n + 1].data.len + 1
      /\ Range(Shards') = (Range(Shards) \ {best}) \cup {n + 1, n + 2}
  BY SMTT(20), SplitEffect
<1>2. /\ Range(Shards) \subseteq DOMAIN shard /\ Len(Shards) \in Nat
      /\ DOMAIN Shards = 1 .. Len(Shards)
      /\ \A s \in DOMAIN shard : shard[s].data \in SliceType /\ shard[s].load \in Nat
      /\ shardThreshold \in Nat \ {0}
  BY ShardFacts, ForestAssumption DEF Inv
<1>3. best \in DOMAIN shard' /\ best \notin Range(Shards') /\ shard'[best] = shard[best]
  BY <1>1, <1>2
<1>4. Filled'
  <2>1. /\ shard[best].data.len \in Nat /\ shard[best].data.len >= 2
        /\ shard'[n + 1].data.len \in Nat /\ shard'[n + 2].data.len \in Nat
    <3>1. shard[best].load > shardThreshold /\ shard[best].load <= shard[best].data.len
      BY <1>1, <1>2 DEF Inv, Loads, Shared, Filled
    <3>2. shard[best].data.len \in Nat /\ shard[best].load \in Nat
          /\ shard'[n + 1].data.len \in Nat /\ shard'[n + 2].data.len \in Nat
      BY <1>1, <1>2 DEF SliceType
    <3>3. QED BY <1>2, <3>1, <3>2
  <2>2. shard'[n + 1].data.len > 0 /\ shard'[n + 2].data.len > 0
    <3>1. \A x, y \in Nat : x + y >= 2 /\ x <= y /\ y <= x + 1 => x > 0 /\ y > 0
      OBVIOUS
    <3>2. QED BY <1>1, <2>1, <3>1
  <2>3. ASSUME NEW s \in Range(Shards), s # best
        PROVE  shard[s].data.len > 0
    <3>1. Len(Shards) > 1
      BY <1>1, <1>2, <2>3 DEF Range
    <3>2. QED BY <3>1 DEF Shared, Filled
  <2>4. \A s \in Range(Shards') : shard'[s].data.len > 0
    BY <1>1, <1>2, <2>2, <2>3
  <2>5. \A s \in DOMAIN shard' : shard'[s].load <= shard'[s].data.len
    BY <1>1, <2>1 DEF Shared, Filled
  <2>6. QED BY <2>4, <2>5 DEF Filled
<1>5. \A d, a : Anchor(d, a) => Anchor(d, a)'
  BY <1>1 DEF Anchor
<1>6. Anchored'
  <2> SUFFICES ASSUME NEW a \in DOMAIN arrays, NEW s \in DOMAIN shard', NEW t \in DOMAIN shard',
                      s # t, shard'[s].data.arr = a, shard'[t].data.arr = a
               PROVE  \E d : Anchor(d, a)'
    BY <1>1 DEF Anchored
  <2>1. CASE s \in DOMAIN shard /\ t \in DOMAIN shard
    <3>1. shard[s].data.arr = a /\ shard[t].data.arr = a
      BY <1>1, <2>1
    <3>2. PICK d : Anchor(d, a)
      BY <2>1, <3>1 DEF Shared, Anchored
    <3>3. QED BY <1>5, <3>2
  <2>2. CASE ~(s \in DOMAIN shard /\ t \in DOMAIN shard)
    <3>1. s \in {n + 1, n + 2} \/ t \in {n + 1, n + 2}
      BY <1>1, <2>2
    <3>2. shard'[best].data.arr = a
      BY <1>1, <1>3, <3>1
    <3> PICK d : d = best
      OBVIOUS
    <3>3. Anchor(d, a)'
      BY <1>1, <1>3, <3>2 DEF Anchor
    <3>4. QED BY <3>3
  <2>3. QED BY <2>1, <2>2
<1>7. AloneIntact'
  <2> SUFFICES ASSUME NEW s \in Range(Shards'),
                      \A t \in DOMAIN shard' \ {s} : shard'[t].data.arr # shard'[s].data.arr
               PROVE  shard'[s].root = Contents(arrays, shard'[s].data)
    BY <1>1 DEF AloneIntact, Data
  <2>1. s # best /\ s \notin {n + 1, n + 2}
    BY <1>1, <1>3
  <2>2. s \in Range(Shards) /\ s \in DOMAIN shard /\ shard'[s] = shard[s]
    BY <1>1, <1>2, <2>1
  <2>3. \A t \in DOMAIN shard \ {s} : shard[t].data.arr # shard[s].data.arr
    BY <1>1, <2>2
  <2>4. QED BY <2>2, <2>3 DEF Shared, AloneIntact, Data
<1>8. QED BY <1>4, <1>6, <1>7 DEF Shared

(* A merge in place needs room for the second shard, which is not empty, so *)
(* the first one becomes an anchor.                                         *)
LEMMA SharedMerge ==
  ASSUME Inv, Shared, Merge
  PROVE  Shared'
<1> PICK n, c, d : n = Len(shard) + 1 /\ c = candidates[1] /\ d = candidates[2]
  OBVIOUS
<1>1. /\ UNCHANGED adder
      /\ c # d /\ c \in Range(Shards) /\ d \in Range(Shards)
      /\ n \in DOMAIN shard' /\ n \notin DOMAIN shard
      /\ \A s \in DOMAIN shard : s \in DOMAIN shard' /\ shard'[s] = shard[s]
      /\ \A s \in DOMAIN shard' : s \in DOMAIN shard \/ s = n
      /\ shard'[n].load = 0
      /\ shard'[n].root = Contents(arrays', shard'[n].data)
      /\ shard'[n].data.len = shard[c].data.len + shard[d].data.len
      /\ Len(Data(shard[d])) = shard[d].data.len
      /\ Extends(arrays, shard[c].data, Data(shard[d]), arrays', shard'[n].data, Items)
      /\ Range(Shards') = (Range(Shards) \ {c, d}) \cup {n}
  BY SMTT(20), MergeEffect
<1>2. /\ Range(Shards) \subseteq DOMAIN shard /\ Len(Shards) \in Nat
      /\ DOMAIN Shards = 1 .. Len(Shards)
      /\ \A s \in DOMAIN shard :
            /\ shard[s].data.arr \in DOMAIN arrays
            /\ shard[s].data.off \in Nat /\ shard[s].data.len \in Nat
            /\ shard[s].load \in Nat
      /\ \A a \in DOMAIN arrays : Len(arrays[a]) \in Nat
  <2>1. \A a \in DOMAIN arrays : Len(arrays[a]) \in Nat
    BY DEF Inv, ForestTypes
  <2>2. QED BY <2>1, ShardFacts DEF Inv, Holds, SliceType
<1>3. /\ \A a \in DOMAIN arrays : /\ Len(arrays'[a]) = Len(arrays[a])
                                  /\ a # shard'[n].data.arr => arrays'[a] = arrays[a]
      /\ shard'[n].data.arr = shard[c].data.arr \/ shard'[n].data.arr \notin DOMAIN arrays
      /\ shard'[n].data.arr = shard[c].data.arr
            => shard[c].data.off + shard[c].data.len + shard[d].data.len
                  <= Len(arrays[shard[c].data.arr])
  BY <1>1 DEF Extends
<1>4. \A s \in Range(Shards) : shard[s].data.len > 0
  <2>1. Len(Shards) > 1
    BY <1>1, <1>2 DEF Range
  <2>2. QED BY <2>1 DEF Shared, Filled
<1>5. Filled'
  <2>1. shard[c].data.len > 0 /\ shard[d].data.len > 0 /\ c \in DOMAIN shard /\ d \in DOMAIN shard
    BY <1>1, <1>2, <1>4
  <2>2. shard'[n].data.len > 0 /\ shard'[n].load <= shard'[n].data.len
    BY <1>1, <1>2, <2>1
  <2>3. \A s \in DOMAIN shard' : shard'[s].load <= shard'[s].data.len
    BY <1>1, <2>2 DEF Shared, Filled
  <2>4. \A s \in Range(Shards') : shard'[s].data.len > 0
    BY <1>1, <1>2, <1>4, <2>2
  <2>5. QED BY <2>3, <2>4 DEF Filled
<1>6. ASSUME NEW a, NEW e, Anchor(e, a)
      PROVE  Anchor(e, a)'
  <2>1. e \in DOMAIN shard /\ e \notin Range(Shards) /\ shard[e].data.arr = a
    BY <1>6 DEF Anchor
  <2>2. e \in DOMAIN shard' /\ shard'[e] = shard[e] /\ e \notin Range(Shards')
    BY <1>1, <2>1
  <2>3. Len(arrays'[a]) = Len(arrays[a])
    BY <1>2, <1>3, <2>1
  <2>4. QED BY <1>1, <1>6, <2>2, <2>3 DEF Anchor, adder
<1>7. ASSUME NEW a, shard'[n].data.arr = a, shard[c].data.arr = a
      PROVE  Anchor(c, a)'
  <2>1. c \in DOMAIN shard' /\ shard'[c] = shard[c] /\ c \notin Range(Shards')
    BY <1>1, <1>2
  <2>2. shard[c].data.off + shard[c].data.len < Len(arrays'[a])
    <3>1. shard[d].data.len > 0 /\ c \in DOMAIN shard /\ d \in DOMAIN shard
      BY <1>1, <1>2, <1>4
    <3>2. \A x, y, z, l \in Nat : z > 0 /\ x + y + z <= l => x + y < l
      OBVIOUS
    <3>3. /\ shard[c].data.off + shard[c].data.len + shard[d].data.len <= Len(arrays[a])
          /\ Len(arrays'[a]) = Len(arrays[a]) /\ Len(arrays[a]) \in Nat
      BY <1>2, <1>3, <1>7, <3>1
    <3>4. QED BY <1>2, <3>1, <3>2, <3>3
  <2>3. QED BY <1>7, <2>1, <2>2 DEF Anchor
<1>8. Anchored'
  <2> SUFFICES ASSUME NEW a \in DOMAIN arrays', NEW s \in DOMAIN shard', NEW t \in DOMAIN shard',
                      s # t, shard'[s].data.arr = a, shard'[t].data.arr = a
               PROVE  \E e : Anchor(e, a)'
    BY DEF Anchored
  <2>1. CASE s \in DOMAIN shard /\ t \in DOMAIN shard
    <3>1. shard[s].data.arr = a /\ shard[t].data.arr = a /\ a \in DOMAIN arrays
      BY <1>1, <1>2, <2>1
    <3>2. PICK e : Anchor(e, a)
      BY <2>1, <3>1 DEF Shared, Anchored
    <3>3. QED BY <1>6, <3>2
  <2>2. CASE ~(s \in DOMAIN shard /\ t \in DOMAIN shard)
    <3>1. PICK u \in DOMAIN shard : shard'[u].data.arr = a /\ shard'[n].data.arr = a
      BY <1>1, <2>2
    <3>2. shard[u].data.arr = a /\ a \in DOMAIN arrays
      BY <1>1, <1>2, <3>1
    <3>3. shard[c].data.arr = a
      BY <1>3, <3>1, <3>2
    <3>4. QED BY <1>7, <3>1, <3>3
  <2>3. QED BY <2>1, <2>2
<1>9. AloneIntact'
  <2> SUFFICES ASSUME NEW s \in Range(Shards'),
                      \A t \in DOMAIN shard' \ {s} : shard'[t].data.arr # shard'[s].data.arr
               PROVE  shard'[s].root = Contents(arrays', shard'[s].data)
    BY DEF AloneIntact, Data
  <2>1. CASE s = n
    BY <1>1, <2>1
  <2>2. CASE s # n
    <3>1. s \in Range(Shards) /\ s \in DOMAIN shard /\ shard'[s] = shard[s]
      BY <1>1, <1>2, <2>2
    <3>2. \A t \in DOMAIN shard \ {s} : shard[t].data.arr # shard[s].data.arr
      BY <1>1, <3>1
    <3>3. shard[s].root = Contents(arrays, shard[s].data)
      BY <3>1, <3>2 DEF Shared, AloneIntact, Data
    <3>4. arrays'[shard[s].data.arr] = arrays[shard[s].data.arr]
      BY <1>1, <1>2, <1>3, <2>2, <3>1
    <3>5. QED BY <3>1, <3>3, <3>4 DEF Contents
  <2>3. QED BY <2>1, <2>2
<1>10. QED BY <1>5, <1>8, <1>9 DEF Shared

LEMMA SharedInvariance == Spec => []Shared
<1>1. ASSUME Inv, Shared, [Next]_vars PROVE Shared'
  <2>1. CASE Command
    <3>1. UNCHANGED <<forest, adder>>
      BY <2>1 DEF Command, AddBlock, ValidateChain, Verified, Recover, GiveUp
    <3>2. QED BY <1>1, <3>1, SharedKeeps DEF forest, adder
  <2>2. CASE PickShard
    <3>1. UNCHANGED forest /\ best' \in Range(Shards)
      BY <1>1, <2>2, OptimalIsListed DEF PickShard, Inv
    <3>2. QED BY <1>1, <3>1, SharedKeeps DEF forest
  <2>3. CASE AddToShard
    BY <1>1, <2>3, SharedAdd
  <2>4. CASE Split
    BY <1>1, <2>4, SharedSplit
  <2>5. CASE LockForest \/ ScanShard \/ NothingToMerge
    <3>1. UNCHANGED <<forest, adder>>
      BY <2>5 DEF LockForest, ScanShard, NothingToMerge
    <3>2. QED BY <1>1, <3>1, SharedKeeps DEF forest, adder
  <2>6. CASE Merge
    BY <1>1, <2>6, SharedMerge
  <2>7. CASE TimePasses
    <3>1. /\ arrays' = arrays /\ Shards' = Shards /\ UNCHANGED adder
          /\ shard' = [s \in DOMAIN shard |-> [shard[s] EXCEPT !.idle = TRUE]]
      BY <2>7 DEF TimePasses
    <3>2. \A s \in DOMAIN shard : shard[s] \in Shard
      BY <1>1 DEF Inv, ForestTypes
    <3>3. /\ DOMAIN shard' = DOMAIN shard
          /\ \A s \in DOMAIN shard : /\ shard'[s].data = shard[s].data
                                     /\ shard'[s].load = shard[s].load
                                     /\ shard'[s].root = shard[s].root
      BY <3>1, <3>2 DEF Shard
    <3>4. QED BY <1>1, <3>1, <3>3, SharedKeeps DEF adder
  <2>8. CASE UNCHANGED vars
    BY <1>1, <2>8, SharedKeeps DEF vars, forest, adder
  <2>9. QED BY <1>1, <2>1, <2>2, <2>3, <2>4, <2>5, <2>6, <2>7, <2>8
           DEF Next, AddData, MergeLowActivityShards
<1>2. QED BY <1>1, InitShared, Invariance, PTL DEF Spec

(* The root of a shard that has its array to itself is that of its data,    *)
(* whatever was split and merged before.                                    *)
THEOREM OwnArrayStaysIntact == Spec => []OwnArrayIntact
<1>1. Shared => OwnArrayIntact
  BY DEF Shared, AloneIntact, OwnArrayIntact, Range
<1>2. QED BY <1>1, SharedInvariance, PTL

-----------------------------------------------------------------------------
(* Without the monitor (the command ends before the first tick).            *)

QuietLoads ==
    /\ scan = 0
    /\ pc # "idle" => best \in Range(Shards)
    /\ \A s \in Range(Shards) :
          /\ shard[s].load <= shardThreshold + 1
          /\ shard[s].data.len <= shard[s].load + shardThreshold + 1

(* Until the first split the root shard is the forest.                      *)
Unsplit ==
    Len(Shards) = 1 =>
        /\ Shards = <<1>> /\ Len(shard) = 1
        /\ \A x \in Items : x \in Range(todo) \/ x \in Range(Data(shard[1]))

Quiet == Inv /\ QuietLoads /\ Unsplit

(* Without the monitor only the command acts.                               *)
LEMMA QuietNext ==
  ASSUME Inv, scan = 0, Monitor = FALSE, [Next]_vars
  PROVE  Command \/ PickShard \/ AddToShard \/ Split \/ UNCHANGED vars
<1>1. Len(Shards) \in Nat /\ DOMAIN Shards = 1 .. Len(Shards)
  BY ShardFacts DEF Inv
<1>2. ~MergeLowActivityShards /\ ~TimePasses
  BY <1>1 DEF MergeLowActivityShards, LockForest, ScanShard, NothingToMerge, Merge, TimePasses
<1>3. QED BY <1>2 DEF Next, AddData

LEMMA InitQuiet == Init => Quiet
<1> SUFFICES ASSUME Init PROVE Quiet
  OBVIOUS
<1>1. Inv
  BY InitInv
<1>2. /\ shard = <<NewShard(Slice(1, 0, 0), arrays)>> /\ Shards = <<1>> /\ scan = 0 /\ pc = "idle"
      /\ todo = Rebuild(height)
  BY DEF Init
<1>3. /\ DOMAIN shard = {1} /\ Len(shard) = 1 /\ Range(Shards) = {1}
      /\ shard[1] = NewShard(Slice(1, 0, 0), arrays)
  BY <1>2 DEF Range
<1>4. /\ shard[1].load = 0 /\ shard[1].data = Slice(1, 0, 0) /\ shard[1].data.len = 0
      /\ shard[1].root = Contents(arrays, shard[1].data)
  BY <1>3 DEF NewShard, Slice
<1>5. QuietLoads
  BY <1>2, <1>3, <1>4, ForestAssumption DEF QuietLoads
<1>6. Unsplit
  <2>1. \A x \in Items : x \in Range(todo)
    <3>1. height \in Nat
      BY <1>1 DEF Inv, CommandTypes
    <3>2. \A x \in (1 .. height) \X {"hash", "block", "tx"} : x \in Range(Rebuild(height))
      BY <3>1, RebuildFacts
    <3>3. Items = (1 .. height) \X {"hash", "block", "tx"}
      BY DEF Items, Blocks
    <3>4. QED BY <1>2, <3>2, <3>3
  <2>2. QED BY <1>2, <1>3, <2>1 DEF Unsplit
<1>7. QED BY <1>1, <1>5, <1>6 DEF Quiet

(* What a command adds to the chain it hands to AddData.                     *)
LEMMA CommandItems ==
  ASSUME Inv, Command
  PROVE  /\ UNCHANGED <<forest, adder, monitor>> /\ pc = "idle" /\ todo = <<>>
         /\ \A x \in Items' : x \in Items \/ x \in Range(todo')
<1>1. UNCHANGED <<forest, adder, monitor>> /\ pc = "idle" /\ todo = <<>>
  BY DEF Command, AddBlock, ValidateChain, Verified, Recover, GiveUp, AddDataDone
<1>2. \A x \in Items' : x \in Items \/ x \in Range(todo')
  <2>1. CASE AddBlock
    <3>1. height' = height + 1 /\ todo' = <<TxIDOf(height'), Hash(height'), Serialized(height')>>
      BY <2>1 DEF AddBlock
    <3>2. Hash(height') \in Range(todo') /\ Serialized(height') \in Range(todo') /\ TxIDOf(height') \in Range(todo')
      BY <3>1 DEF Range
    <3>3. height \in Nat
      BY DEF Inv, CommandTypes
    <3>4. ASSUME NEW x \in Items'
          PROVE  x \in Items \/ x = Hash(height') \/ x = Serialized(height') \/ x = TxIDOf(height')
      BY <3>1, <3>3 DEF Items, Blocks, Hash, Serialized, TxIDOf
    <3>5. QED BY <3>2, <3>4
  <2>2. CASE ValidateChain \/ Verified \/ Recover \/ GiveUp
    <3>1. height' = height
      BY <2>2 DEF ValidateChain, Verified, Recover, GiveUp
    <3>2. QED BY <3>1 DEF Items, Blocks
  <2>3. QED BY <2>1, <2>2 DEF Command
<1>3. QED BY <1>1, <1>2

LEMMA QuietCommand ==
  ASSUME Quiet, Inv', Command
  PROVE  Quiet'
<1>1. /\ UNCHANGED <<forest, adder, monitor>> /\ pc = "idle" /\ todo = <<>>
      /\ \A x \in Items' : x \in Items \/ x \in Range(todo')
  BY CommandItems DEF Quiet
<1>2. arrays' = arrays /\ shard' = shard /\ Shards' = Shards /\ pc' = pc /\ best' = best /\ scan' = scan
  BY <1>1 DEF forest, adder, monitor
<1>3. QuietLoads'
  BY <1>2 DEF Quiet, QuietLoads
<1>4. \A x : x \notin Range(todo)
  BY <1>1 DEF Range
<1>5. Unsplit'
  BY <1>1, <1>2, <1>4 DEF Quiet, Unsplit, Data
<1>6. QED BY <1>3, <1>5 DEF Quiet

LEMMA QuietPick ==
  ASSUME Quiet, Inv', PickShard
  PROVE  Quiet'
<1>1. /\ UNCHANGED <<forest, command, monitor>> /\ best' = FindOptimalShard
  BY DEF PickShard
<1>2. arrays' = arrays /\ shard' = shard /\ Shards' = Shards /\ scan' = scan
      /\ todo' = todo /\ height' = height
  BY <1>1 DEF forest, command, monitor
<1>3. best' \in Range(Shards)
  BY <1>1, OptimalIsListed DEF Quiet, Inv
<1>4. QuietLoads'
  BY <1>2, <1>3 DEF Quiet, QuietLoads
<1>5. Unsplit'
  BY <1>2 DEF Quiet, Data, Unsplit, Items, Blocks
<1>6. QED BY <1>4, <1>5 DEF Quiet

(* AddData loses nothing: the shard that takes the next datum keeps those    *)
(* it has.                                                                  *)
LEMMA AddKeepsEntries ==
  ASSUME Inv, AddToShard
  PROVE  \A x : \/ x \in Range(todo)
                \/ x \in Range(Contents(arrays, shard[best].data))
           => \/ x \in Range(Tail(todo))
              \/ x \in Range(Contents(arrays', shard'[best].data))
<1>1. /\ Extends(arrays, shard[best].data, <<Head(todo)>>, arrays', shard'[best].data, Items)
      /\ DOMAIN shard' = DOMAIN shard /\ shard' \in Seq(Shard)
      /\ \A s \in DOMAIN shard : Holds(arrays', shard'[s].data, Items)
  BY AddToShardEffect
<1>2. best \in DOMAIN shard /\ todo \in Seq(Items) /\ todo # <<>>
  BY DEF AddToShard, Inv, CommandTypes, WorkerTypes
<1> DEFINE old == Contents(arrays, shard[best].data)
           new == Contents(arrays', shard'[best].data)
           len == shard[best].data.len
<1>3. /\ old \in Seq(Items) /\ Len(old) = len /\ len \in Nat
      /\ \A k \in 1 .. len : old[k] = arrays[shard[best].data.arr][shard[best].data.off + k]
  <2>1. shard[best].data \in SliceType /\ Holds(arrays, shard[best].data, Items)
    BY <1>2, ShardFacts DEF Inv
  <2>2. QED BY <2>1, ContentsFacts DEF SliceType
<1>4. /\ shard'[best].data.len = len + 1
      /\ \A k \in 1 .. len : arrays'[shard'[best].data.arr][shard'[best].data.off + k]
                             = arrays[shard[best].data.arr][shard[best].data.off + k]
      /\ \A k \in 1 .. 1 :
            arrays'[shard'[best].data.arr][shard'[best].data.off + len + k] = <<Head(todo)>>[k]
  <2> DEFINE q == <<Head(todo)>>
  <2>1. Len(q) = 1
    OBVIOUS
  <2>2. Extends(arrays, shard[best].data, q, arrays', shard'[best].data, Items)
    BY <1>1
  <2> HIDE DEF q
  <2>3. /\ shard'[best].data.len = len + Len(q)
        /\ \A k \in 1 .. len : arrays'[shard'[best].data.arr][shard'[best].data.off + k]
                               = arrays[shard[best].data.arr][shard[best].data.off + k]
        /\ \A k \in 1 .. Len(q) :
              arrays'[shard'[best].data.arr][shard'[best].data.off + len + k] = q[k]
    BY <2>2 DEF Extends
  <2>4. QED BY <2>1, <2>3 DEF q
<1>5. shard'[best].data \in SliceType
  <2>1. shard'[best] \in Shard
    BY <1>1, <1>2
  <2>2. QED BY <2>1 DEF Shard
<1>6. /\ new \in Seq(Items) /\ Len(new) = len + 1
      /\ \A k \in 1 .. len + 1 : new[k] = arrays'[shard'[best].data.arr][shard'[best].data.off + k]
  BY <1>1, <1>2, <1>4, <1>5, ContentsFacts
<1>7. /\ \A k \in 1 .. len : new[k] = old[k]
      /\ new[len + 1] = Head(todo)
  <2>1. shard'[best].data.off + len + 1 = shard'[best].data.off + (len + 1)
    BY <1>3, <1>5 DEF SliceType
  <2>2. \A k \in 1 .. len : new[k] = old[k]
    BY <1>3, <1>4, <1>6
  <2>3. new[len + 1] = Head(todo)
    BY SMTT(20), <1>3, <1>4, <1>6, <2>1
  <2>4. QED BY <2>2, <2>3
<1> HIDE DEF old, new, len
<1>8. \A x \in Range(old) : x \in Range(new)
  BY <1>3, <1>6, <1>7 DEF Range
<1>9. Head(todo) \in Range(new)
  BY <1>3, <1>6, <1>7 DEF Range
<1>10. \A x \in Range(todo) : x = Head(todo) \/ x \in Range(Tail(todo))
  <2>1. ASSUME NEW k \in DOMAIN todo
        PROVE  todo[k] = Head(todo) \/ todo[k] \in Range(Tail(todo))
    <3>1. CASE k = 1
      BY <1>2, <3>1
    <3>2. CASE k # 1
      <4>1. k - 1 \in DOMAIN Tail(todo) /\ Tail(todo)[k - 1] = todo[k]
        BY <1>2, <3>2
      <4>2. QED BY <4>1 DEF Range
    <3>3. QED BY <3>1, <3>2
  <2>2. QED BY <2>1 DEF Range
<1>11. QED BY <1>8, <1>9, <1>10 DEF old, new

LEMMA QuietAdd ==
  ASSUME Quiet, Inv', AddToShard
  PROVE  Quiet'
<1>1. /\ Extends(arrays, shard[best].data, <<Head(todo)>>, arrays', shard'[best].data, Items)
      /\ DOMAIN shard' = DOMAIN shard
      /\ \A s \in DOMAIN shard : s # best => shard'[s] = shard[s]
      /\ shard'[best].load = shard[best].load + 1
      /\ shard'[best].root = Contents(arrays', shard'[best].data)
  BY AddToShardEffect DEF Quiet
<1>2. /\ pc = "append" /\ best' = best /\ Shards' = Shards /\ scan' = scan
      /\ height' = height /\ todo' = Tail(todo)
  BY DEF AddToShard, monitor
<1>3. /\ best \in Range(Shards) /\ Range(Shards) \subseteq DOMAIN shard
      /\ \A s \in DOMAIN shard :
            /\ shard[s].data \in SliceType /\ Holds(arrays, shard[s].data, Items)
            /\ shard[s].load \in Nat
      /\ shardThreshold \in Nat
  BY <1>2, ShardFacts, ForestAssumption DEF Quiet, QuietLoads, Inv
<1>4. /\ shard'[best].data.len = shard[best].data.len + 1
      /\ \A a \in DOMAIN arrays : a # shard'[best].data.arr => arrays'[a] = arrays[a]
      /\ \/ shard'[best].data.arr = shard[best].data.arr
         \/ shard'[best].data.arr \notin DOMAIN arrays
  <2>1. Len(<<Head(todo)>>) = 1
    OBVIOUS
  <2>2. QED BY <1>1, <2>1 DEF Extends
<1>5. \A s \in DOMAIN shard : shard[s].data.arr \in DOMAIN arrays
  BY <1>3 DEF Holds
<1>6. QuietLoads'
  <2>1. ASSUME NEW s \in Range(Shards)
        PROVE  /\ shard'[s].load <= shardThreshold + 1
               /\ shard'[s].data.len <= shard'[s].load + shardThreshold + 1
    <3>1. CASE s = best
      <4>1. shard[best].load <= shardThreshold
        BY <1>2, <1>3 DEF Quiet, Inv, Loads
      <4>2. shard[best].data.len <= shard[best].load + shardThreshold + 1
        BY <1>3 DEF Quiet, QuietLoads
      <4>3. shard[best].data.len \in Nat /\ shard[best].load \in Nat
        BY <1>3 DEF SliceType
      <4>4. QED BY <1>1, <1>3, <1>4, <3>1, <4>1, <4>2, <4>3
    <3>2. CASE s # best
      BY <1>1, <1>3, <3>2 DEF Quiet, QuietLoads
    <3>3. QED BY <3>1, <3>2
  <2>2. QED BY <1>2, <1>3, <2>1 DEF Quiet, QuietLoads
<1>7. Unsplit'
  <2> SUFFICES ASSUME Len(Shards) = 1
               PROVE  /\ Shards = <<1>> /\ Len(shard') = 1
                      /\ \A x \in Items : \/ x \in Range(Tail(todo))
                                          \/ x \in Range(Contents(arrays', shard'[1].data))
    BY <1>2 DEF Unsplit, Data, Items, Blocks
  <2>1. /\ Shards = <<1>> /\ Len(shard) = 1
        /\ \A x \in Items : x \in Range(todo) \/ x \in Range(Contents(arrays, shard[1].data))
    BY DEF Quiet, Unsplit, Data
  <2>2. best = 1
    BY <1>3, <2>1 DEF Range
  <2>3. Len(shard') = 1
    <3>1. shard' \in Seq(Shard') /\ shard \in Seq(Shard)
      BY DEF Quiet, Inv, ForestTypes
    <3>2. QED BY <1>1, <2>1, <3>1
  <2>4. QED BY <2>1, <2>2, <2>3, AddKeepsEntries DEF Quiet
<1>8. QED BY <1>6, <1>7 DEF Quiet

LEMMA QuietSplit ==
  ASSUME Quiet, Inv', Split
  PROVE  Quiet'
<1> PICK n : n = Len(shard)
  OBVIOUS
<1>1. /\ arrays' = arrays /\ pc' = "idle" /\ scan = 0 /\ scan' = 0
      /\ best \in Range(Shards)
      /\ \A s \in DOMAIN shard : s \in DOMAIN shard' /\ shard'[s] = shard[s]
      /\ \A s \in {n + 1, n + 2} :
            /\ s \in DOMAIN shard' /\ s \notin DOMAIN shard
            /\ shard'[s].data \in SliceType
            /\ shard'[s].load = 0 /\ shard'[s].data.arr = shard[best].data.arr
      /\ \A s \in DOMAIN shard' : s \in DOMAIN shard \/ s = n + 1 \/ s = n + 2
      /\ shard'[n + 1].data.len + shard'[n + 2].data.len = shard[best].data.len
      /\ shard'[n + 1].data.len <= shard'[n + 2].data.len
      /\ shard'[n + 2].data.len <= shard'[n + 1].data.len + 1
      /\ Range(Shards') = (Range(Shards) \ {best}) \cup {n + 1, n + 2}
      /\ Len(Shards') = Len(Shards) + 1
  BY SMTT(20), SplitEffect DEF Quiet, monitor
<1>2. /\ Range(Shards) \subseteq DOMAIN shard /\ Len(Shards) \in Nat /\ 1 \in DOMAIN Shards
      /\ DOMAIN Shards = 1 .. Len(Shards)
      /\ \A s \in DOMAIN shard : shard[s].data \in SliceType /\ shard[s].load \in Nat
      /\ shardThreshold \in Nat
  BY ShardFacts, ForestAssumption DEF Quiet, Inv
<1>3. QuietLoads'
  <2>1. /\ shard[best].data.len <= 2 * shardThreshold + 2
        /\ shard[best].data.len \in Nat
        /\ shard'[n + 1].data.len \in Nat /\ shard'[n + 2].data.len \in Nat
    <3>1. /\ shard[best].load <= shardThreshold + 1
          /\ shard[best].data.len <= shard[best].load + shardThreshold + 1
      BY <1>1 DEF Quiet, QuietLoads
    <3>2. /\ shard[best].data.len \in Nat /\ shard[best].load \in Nat
          /\ shard'[n + 1].data.len \in Nat /\ shard'[n + 2].data.len \in Nat
      BY <1>1, <1>2 DEF SliceType
    <3>3. shardThreshold \in Nat
      BY <1>2
    <3>4. shard[best].data.len <= 2 * shardThreshold + 2
      BY SMTT(20), <3>1, <3>2, <3>3
    <3>5. QED BY <3>2, <3>4
  <2>2. /\ shard'[n + 1].data.len <= shardThreshold + 1
        /\ shard'[n + 2].data.len <= shardThreshold + 1
    BY SMTT(20), <1>1, <1>2, <2>1
  <2>3. \A s \in {n + 1, n + 2} :
           /\ shard'[s].load <= shardThreshold + 1
           /\ shard'[s].data.len <= shard'[s].load + shardThreshold + 1
    BY <1>1, <1>2, <2>1, <2>2
  <2>4. \A s \in Range(Shards) \ {best} :
           /\ shard'[s].load <= shardThreshold + 1
           /\ shard'[s].data.len <= shard'[s].load + shardThreshold + 1
    BY <1>1, <1>2 DEF Quiet, QuietLoads
  <2>5. QED BY <1>1, <2>3, <2>4 DEF QuietLoads
<1>4. Unsplit'
  <2>1. Len(Shards') # 1
    BY <1>1, <1>2
  <2>2. QED BY <2>1 DEF Unsplit
<1>5. QED BY <1>3, <1>4 DEF Quiet

LEMMA QuietInvariance == Monitor = FALSE => (Spec => []Quiet)
<1> SUFFICES ASSUME Monitor = FALSE PROVE Spec => []Quiet
  OBVIOUS
<1>1. Quiet /\ Inv' /\ UNCHANGED vars => Quiet'
  BY DEF Quiet, QuietLoads, Data, Unsplit, Items, Blocks,
         vars, forest, command, adder, monitor
<1>2. Quiet /\ Inv' /\ [Next]_vars => Quiet'
  BY <1>1, QuietNext, QuietCommand, QuietPick, QuietAdd, QuietSplit DEF Quiet, QuietLoads
<1>3. QED BY <1>2, InitQuiet, Invariance, PTL DEF Spec

(* A command that ends before the first tick adds an entry with every       *)
(* AddData and none otherwise.                                              *)
THEOREM OneEntryEach == Monitor = FALSE => (Spec => OneEntryPerAdd)
<1> SUFFICES ASSUME Monitor = FALSE PROVE Spec => OneEntryPerAdd
  OBVIOUS
<1>1. Quiet /\ Inv' /\ [Next]_vars => [Entries' = Entries + IF AddToShard THEN 1 ELSE 0]_vars
  <2> SUFFICES ASSUME Quiet, Inv', [Next]_vars
               PROVE  Entries' = Entries + IF AddToShard THEN 1 ELSE 0
    OBVIOUS
  <2>1. Entries \in Int
    BY EntriesFacts DEF Quiet, Inv
  <2>2. CASE AddToShard
    <3>1. best \in Range(Shards)
      BY <2>2 DEF AddToShard, Quiet, QuietLoads
    <3>2. Entries' = Entries + 1
      BY <2>2, <3>1, EntriesStep DEF Quiet
    <3>3. QED BY <2>2, <3>2
  <2>3. CASE ~AddToShard
    <3>1. Entries' = Entries
      BY <2>3, EntriesStep DEF Quiet
    <3>2. QED BY <2>1, <2>3, <3>1
  <2>4. QED BY <2>2, <2>3
<1>2. QED BY <1>1, QuietInvariance, Invariance, PTL DEF Spec, OneEntryPerAdd

(* Splitting by load keeps shards small.                                    *)
THEOREM ShardsStaySmall == Monitor = FALSE => (Spec => []SizeBounded)
<1> SUFFICES ASSUME Monitor = FALSE PROVE Spec => []SizeBounded
  OBVIOUS
<1>1. Quiet => SizeBounded
  BY DEF Quiet, QuietLoads, SizeBounded, Load, Range
<1>2. QED BY <1>1, QuietInvariance, PTL

(* Until the first split nothing of the chain is lost.                      *)
THEOREM NothingLostBeforeSplit == Monitor = FALSE => (Spec => []NothingLostUnsplit)
<1> SUFFICES ASSUME Monitor = FALSE PROVE Spec => []NothingLostUnsplit
  OBVIOUS
<1>1. Quiet => NothingLostUnsplit
  <2> SUFFICES ASSUME Quiet, Len(Shards) = 1, NEW x \in Items
               PROVE  x \in Range(todo) \/ GenerateMerkleProof(x)
    BY DEF NothingLostUnsplit
  <2>1. Shards = <<1>> /\ (x \in Range(todo) \/ x \in Range(Data(shard[1])))
    BY DEF Quiet, Unsplit
  <2>2. 1 \in DOMAIN Shards /\ Shards[1] = 1
    BY <2>1
  <2>3. QED BY <2>1, <2>2 DEF GenerateMerkleProof
<1>2. QED BY <1>1, QuietInvariance, PTL

-----------------------------------------------------------------------------
(* Before the first split, with the monitor or without.                     *)

(* The only shard ever made has what was added, so nothing is added again;  *)
(* and the monitor, which wants two shards, has not begun.                  *)
Whole ==
    Len(shard) = 1 =>
        /\ Shards = <<1>> /\ scan = 0 /\ ~retried /\ ~failed
        /\ \A x \in Items : x \in Range(todo) \/ x \in Range(Data(shard[1]))

(* A chain whose data fit in one shard, those of the next block included.   *)
Room ==
    3 * height <= shardThreshold =>
        /\ Len(shard) = 1 /\ pc # "split"
        /\ shard[1].load + Len(todo) <= 3 * height

LEMMA InitWhole == Init => Whole /\ Room
<1> SUFFICES ASSUME Init PROVE Whole /\ Room
  OBVIOUS
<1>1. /\ shard = <<NewShard(Slice(1, 0, 0), arrays)>> /\ Shards = <<1>> /\ scan = 0 /\ pc = "idle"
      /\ retried = FALSE /\ failed = FALSE /\ todo = Rebuild(height) /\ height \in Nat
  BY InitInv DEF Init, Inv, CommandTypes
<1>2. Len(shard) = 1 /\ Len(Shards) = 1 /\ shard[1].load = 0
  BY <1>1 DEF NewShard
<1>3. Whole
  BY <1>1, <1>2, InitQuiet DEF Whole, Quiet, Unsplit
<1>4. Len(todo) = 3 * height
  BY <1>1 DEF Rebuild
<1>5. QED BY <1>1, <1>2, <1>3, <1>4 DEF Room

(* Until then every item that is not still to be added can be proved.       *)
LEMMA WholeProves ==
  ASSUME Inv, Whole, Len(shard) = 1, NEW x \in Items
  PROVE  x \in Range(todo) \/ GenerateMerkleProof(x)
<1>1. Shards = <<1>> /\ (x \in Range(todo) \/ x \in Range(Data(shard[1])))
  BY DEF Whole
<1>2. 1 \in DOMAIN Shards /\ Shards[1] = 1
  BY <1>1
<1>3. QED BY <1>1, <1>2 DEF GenerateMerkleProof

(* And the command never has to add anything a second time.                 *)
LEMMA WholeCommand ==
  ASSUME Inv, Whole, Len(shard) = 1, Command
  PROVE  AddBlock \/ ValidateChain \/ Verified
<1>1. ASSUME Recover \/ GiveUp PROVE FALSE
  <2>1. /\ todo = <<>> /\ unverified # <<>> /\ unverified \in Seq(Blocks)
        /\ ~GenerateMerkleProof(Hash(Head(unverified)))
    BY <1>1 DEF Recover, GiveUp, AddDataDone, Inv, CommandTypes
  <2>2. Head(unverified) \in Blocks
    BY <2>1
  <2>3. Hash(Head(unverified)) \in Items
    BY <2>2 DEF Items, Hash
  <2>4. Hash(Head(unverified)) \notin Range(todo)
    BY <2>1 DEF Range
  <2>5. QED BY <2>1, <2>3, <2>4, WholeProves
<1>2. QED BY <1>1 DEF Command

(* No shard is ever unmade, and what acts while there is one.               *)
LEMMA FirstShard ==
  ASSUME Inv, Whole, [Next]_vars, Len(shard') = 1
  PROVE  /\ Len(shard) = 1
         /\ Command \/ PickShard \/ AddToShard \/ TimePasses \/ UNCHANGED vars
<1>1. Len(shard) \in Nat /\ DOMAIN shard = 1 .. Len(shard) /\ shard \in Seq(Shard)
      /\ best \in DOMAIN shard
  BY ShardFacts DEF Inv, ForestTypes, WorkerTypes
<1>2. ~Split
  <2>1. ASSUME Split PROVE Len(shard') = Len(shard) + 2
    BY <2>1, SplitEffect
  <2>2. QED BY <1>1, <2>1
<1>3. ASSUME Merge PROVE FALSE
  <2> DEFINE n == Len(shard) + 1
  <2>1. shard' \in Seq(Shard) /\ n \in DOMAIN shard'
    BY <1>3, MergeEffect
  <2>2. QED BY <1>1, <2>1
<1>4. CASE Command \/ PickShard \/ UNCHANGED vars
  <2>1. shard' = shard
    BY <1>4, CommandItems DEF PickShard, vars, forest
  <2>2. QED BY <1>4, <2>1
<1>5. CASE AddToShard
  <2>1. DOMAIN shard' = DOMAIN shard /\ shard' \in Seq(Shard)
    BY <1>5, AddToShardEffect
  <2>2. QED BY <1>1, <1>5, <2>1
<1>6. CASE TimePasses
  <2>1. DOMAIN shard' = DOMAIN shard /\ shard' \in Seq(Shard)
    BY <1>6, TimeEffect
  <2>2. QED BY <1>1, <1>6, <2>1
<1>7. CASE LockForest \/ ScanShard \/ NothingToMerge
  <2>1. shard' = shard
    BY <1>7 DEF LockForest, ScanShard, NothingToMerge, forest
  <2>2. Shards = <<1>> /\ scan = 0
    BY <2>1 DEF Whole
  <2>3. Len(Shards) = 1 /\ DOMAIN Shards = {1}
    BY <2>2
  <2>4. QED BY <1>7, <2>2, <2>3 DEF LockForest, ScanShard, NothingToMerge
<1>8. QED BY <1>2, <1>3, <1>4, <1>5, <1>6, <1>7 DEF Next, AddData, MergeLowActivityShards

LEMMA WholeStep ==
  ASSUME Inv, Whole, [Next]_vars
  PROVE  Whole'
<1> SUFFICES ASSUME Len(shard') = 1
             PROVE  /\ Shards' = <<1>> /\ scan' = 0 /\ ~retried' /\ ~failed'
                    /\ \A x \in Items' : x \in Range(todo') \/ x \in Range(Data(shard[1])')
  BY DEF Whole
<1>1. /\ Len(shard) = 1 /\ Shards = <<1>> /\ scan = 0 /\ ~retried /\ ~failed
      /\ \A x \in Items : x \in Range(todo) \/ x \in Range(Data(shard[1]))
  BY FirstShard DEF Whole
<1>2. 1 \in DOMAIN shard /\ best = 1
  <2>1. DOMAIN shard = 1 .. Len(shard) /\ best \in DOMAIN shard
    BY ShardFacts DEF Inv, WorkerTypes
  <2>2. QED BY <1>1, <2>1
<1>3. CASE Command
  <2>1. /\ arrays' = arrays /\ shard' = shard /\ Shards' = Shards /\ scan' = scan /\ todo = <<>>
        /\ \A x \in Items' : x \in Items \/ x \in Range(todo')
    BY <1>3, CommandItems DEF forest, monitor
  <2>2. ~retried' /\ ~failed'
    <3>1. ~retried /\ ~failed
      BY <1>1
    <3>2. AddBlock \/ ValidateChain \/ Verified
      BY <1>1, <1>3, WholeCommand
    <3>3. (retried' = retried \/ retried' = FALSE) /\ failed' = failed
      BY <3>2 DEF AddBlock, ValidateChain, Verified
    <3>4. QED BY <3>1, <3>3
  <2>3. \A x : x \notin Range(todo)
    BY <2>1 DEF Range
  <2>4. QED BY <1>1, <2>1, <2>2, <2>3 DEF Data
<1>4. CASE PickShard \/ UNCHANGED vars
  BY <1>1, <1>4 DEF PickShard, vars, forest, command, monitor, Data, Items, Blocks
<1>5. CASE AddToShard
  <2>1. /\ Shards' = Shards /\ scan' = scan /\ height' = height /\ retried' = retried
        /\ failed' = failed /\ todo' = Tail(todo)
    BY <1>5 DEF AddToShard, monitor
  <2>2. \A x \in Items : \/ x \in Range(Tail(todo))
                        \/ x \in Range(Contents(arrays', shard'[1].data))
    BY <1>1, <1>2, <1>5, AddKeepsEntries DEF Data
  <2>3. Items' = Items
    BY <2>1 DEF Items, Blocks
  <2>4. QED BY <1>1, <2>1, <2>2, <2>3 DEF Data
<1>6. CASE TimePasses
  <2>1. UNCHANGED <<arrays, Shards, command, monitor>>
    BY <1>6 DEF TimePasses
  <2>2. shard'[1].data = shard[1].data
    BY <1>2, <1>6, TimeEffect
  <2>3. QED BY <1>1, <2>1, <2>2 DEF command, monitor, Data, Items, Blocks
<1>7. QED BY <1>3, <1>4, <1>5, <1>6, FirstShard

LEMMA RoomStep ==
  ASSUME Inv, Whole, Room, [Next]_vars
  PROVE  Room'
<1> SUFFICES ASSUME 3 * height' <= shardThreshold
             PROVE  /\ Len(shard') = 1 /\ pc' # "split"
                    /\ shard'[1].load + Len(todo') <= 3 * height'
  BY DEF Room
<1>1. /\ height \in Nat /\ shardThreshold \in Nat /\ todo \in Seq(Items) /\ shard \in Seq(Shard)
      /\ DOMAIN shard = 1 .. Len(shard) /\ best \in DOMAIN shard
      /\ pc = "append" => todo # <<>>
  BY ShardFacts, ForestAssumption DEF Inv, CommandTypes, ForestTypes, WorkerTypes
<1>2. height' = height \/ height' = height + 1
  BY DEF Next, Command, AddData, MergeLowActivityShards, AddBlock, ValidateChain, Verified, Recover,
         GiveUp, PickShard, AddToShard, Split, LockForest, ScanShard, NothingToMerge, Merge,
         TimePasses, vars, command
<1>3. /\ Len(shard) = 1 /\ pc # "split" /\ shard[1].load + Len(todo) <= 3 * height
      /\ Shards = <<1>> /\ scan = 0
  <2>1. 3 * height <= shardThreshold
    BY <1>1, <1>2
  <2>2. QED BY <2>1 DEF Room, Whole
<1>4. 1 \in DOMAIN shard /\ best = 1 /\ shard[1].load \in Nat /\ Len(todo) \in Nat
  BY <1>1, <1>3, ShardFacts DEF Inv
<1>5. CASE Command
  <2>1. shard' = shard /\ pc' = pc /\ todo = <<>>
    BY <1>5, CommandItems DEF forest, adder
  <2>2. CASE AddBlock
    <3>1. Len(todo') = 3 /\ height' = height + 1
      BY <2>2 DEF AddBlock
    <3>2. QED BY <1>1, <1>3, <1>4, <2>1, <3>1
  <2>3. CASE ValidateChain \/ Verified
    BY <1>3, <2>1, <2>3 DEF ValidateChain, Verified
  <2>4. QED BY <1>3, <1>5, <2>2, <2>3, WholeCommand
<1>6. CASE PickShard
  BY <1>3, <1>6 DEF PickShard, forest, command
<1>7. CASE UNCHANGED vars
  BY <1>3, <1>7 DEF vars, forest, command, adder
<1>8. CASE AddToShard
  <2>1. /\ pc' = IF shard[best].load + 1 > shardThreshold THEN "split" ELSE "idle"
        /\ todo' = Tail(todo) /\ pc = "append" /\ height' = height
    BY <1>8 DEF AddToShard
  <2>2. Len(todo') = Len(todo) - 1 /\ Len(todo) >= 1
    BY <1>1, <2>1
  <2>3. /\ DOMAIN shard' = DOMAIN shard /\ shard' \in Seq(Shard)
        /\ shard'[best].load = shard[best].load + 1
    BY <1>8, AddToShardEffect
  <2>4. Len(shard') = 1
    BY <1>1, <1>3, <2>3
  <2>5. shard[1].load + 1 <= shardThreshold /\ shard'[1].load + Len(todo') <= 3 * height'
    BY <1>1, <1>3, <1>4, <2>1, <2>2, <2>3
  <2>6. QED BY <1>1, <1>4, <2>1, <2>4, <2>5
<1>9. CASE TimePasses
  <2>1. /\ DOMAIN shard' = DOMAIN shard /\ shard' \in Seq(Shard)
        /\ shard'[1].load = shard[1].load
    BY <1>4, <1>9, TimeEffect
  <2>2. Len(shard') = 1
    BY <1>1, <1>3, <2>1
  <2>3. QED BY <1>3, <1>9, <2>1, <2>2 DEF TimePasses, command, adder
<1>10. ~Split /\ ~MergeLowActivityShards
  <2>1. Len(Shards) = 1 /\ DOMAIN Shards = {1}
    BY <1>3
  <2>2. QED BY <1>3, <2>1
            DEF Split, MergeLowActivityShards, LockForest, ScanShard, NothingToMerge, Merge
<1>11. QED BY <1>5, <1>6, <1>7, <1>8, <1>9, <1>10 DEF Next, AddData

LEMMA WholeInvariance == Spec => [](Inv /\ Whole /\ Room)
<1>1. Inv /\ Whole /\ Room /\ [Next]_vars => Whole' /\ Room'
  BY WholeStep, RoomStep
<1>2. QED BY <1>1, InitWhole, Invariance, PTL DEF Spec

(* As long as no shard has been split, and be the monitor at work or not,   *)
(* AddBlock finds its block at once, no block of the chain is given up, and *)
(* all that was added can be proved.                                        *)
THEOREM UnsplitForestFinds ==
  Spec => [](Len(shard) = 1 => NewBlockFound /\ VerificationSucceeds /\ NothingLostUnsplit)
<1>1. Inv /\ Whole => (Len(shard) = 1 => NewBlockFound /\ VerificationSucceeds /\ NothingLostUnsplit)
  <2> SUFFICES ASSUME Inv, Whole, Len(shard) = 1
               PROVE  NewBlockFound /\ VerificationSucceeds /\ NothingLostUnsplit
    OBVIOUS
  <2>1. ~retried /\ ~failed
    BY DEF Whole
  <2>2. QED BY <2>1, WholeProves DEF NewBlockFound, VerificationSucceeds, NothingLostUnsplit
<1>2. QED BY <1>1, WholeInvariance, PTL

(* While the three data of each of its blocks fit in one shard, which with  *)
(* the threshold of the code they do up to 33 blocks, a chain is not split, *)
(* its new blocks are found and its verification does not fail.             *)
THEOREM ShortChainsVerify ==
  Spec => [](3 * height <= shardThreshold => Len(shard) = 1 /\ NewBlockFound /\ VerificationSucceeds)
<1>1. Whole /\ Room =>
        (3 * height <= shardThreshold => Len(shard) = 1 /\ NewBlockFound /\ VerificationSucceeds)
  BY DEF Whole, Room, NewBlockFound, VerificationSucceeds
<1>2. QED BY <1>1, WholeInvariance, PTL

-----------------------------------------------------------------------------
(* The two lock orders.                                                     *)

(* When AddData and the monitor wait for each other, no step of anybody     *)
(* ends it: whatever the threshold, the forest is lost to the process.      *)
THEOREM CrossedForGood == Spec => CrossedForever
<1>1. Inv /\ [Next]_vars => [Crossed => Crossed']_vars
  <2> SUFFICES ASSUME Inv, [Next]_vars, Crossed PROVE Crossed'
    OBVIOUS
  <2>1. /\ pc = "split" /\ scan # 0
        /\ \/ scan \in DOMAIN Shards /\ Shards[scan] = best
           \/ /\ scan > Len(Shards) /\ Len(candidates) >= 2
              /\ best \in {candidates[1], candidates[2]}
    BY DEF Crossed
  <2>2. DOMAIN Shards = 1 .. Len(Shards) /\ Len(Shards) \in Nat /\ Len(candidates) \in Nat
        /\ scan \in Nat
    BY ShardFacts DEF Inv, WorkerTypes
  <2>3. ~Command /\ ~AddData
    BY <2>1 DEF Command, AddBlock, ValidateChain, Verified, Recover, GiveUp, AddDataDone,
                AddData, PickShard, AddToShard, Split
  <2>4. ~MergeLowActivityShards
    <3>1. ~LockForest
      BY <2>1 DEF LockForest
    <3>2. ~ScanShard
      BY <2>1, <2>2 DEF ScanShard, LockedByAdder
    <3>3. ~NothingToMerge
      BY <2>1, <2>2 DEF NothingToMerge
    <3>4. ~Merge
      BY <2>1, <2>2 DEF Merge, LockedByAdder
    <3>5. QED BY <3>1, <3>2, <3>3, <3>4 DEF MergeLowActivityShards
  <2>5. UNCHANGED <<Shards, adder, monitor>>
    BY <2>3, <2>4 DEF Next, TimePasses, vars, forest
  <2>6. QED BY <2>5 DEF Crossed, adder, monitor
<1>2. QED BY <1>1, Invariance, PTL DEF Spec, CrossedForever
=============================================================================
