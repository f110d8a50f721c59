---------------------------- MODULE CapOptimizer ----------------------------
(***************************************************************************)
(* Blockchain/cap_optimizer.go: vector clocks and the resolver that picks  *)
(* one of several versions by them, the network statistics, and the levels *)
(* of consistency and the timeout that are derived from these.  Of all     *)
(* this the program uses the levels and the statistics (module Session);   *)
(* who calls the rest is external: replicas that change a version of their *)
(* own and take over what others have, peers that send heartbeats, and     *)
(* whoever measures the latency.                                           *)
(***************************************************************************)
EXTENDS Integers, FiniteSets, FiniteSetsExt, Functions

CONSTANTS
    Replicas,    \* those who hold a version
    Peers,       \* the nodes that heartbeats and levels are about
    Latencies,   \* what may be measured, in milliseconds
    MaxEvents,   \* bound: no further change after so many
    MaxListed    \* bound: no longer list of versions is resolved

ASSUME CapAssumption ==
    /\ IsFiniteSet(Replicas)
    /\ IsFiniteSet(Peers)
    /\ Latencies \subseteq Nat
    /\ MaxEvents \in Nat /\ MaxListed \in Nat

VARIABLES
    clock,            \* clock[r]: the vector clock of r's version
    seen,             \* history: the changes that went into that version
    LastHeartbeats,   \* of the peers ever heard, "fresh" or more than 5 seconds old, "late"
    Latency,          \* in milliseconds
    NodeConsistency   \* the levels of the peers that have one

statistics == <<LastHeartbeats, Latency>>
vars == <<clock, seen, statistics, NodeConsistency>>

-----------------------------------------------------------------------------
(* Vector clocks; a node without an entry counts 0.                         *)

Events == UNION {seen[r] : r \in Replicas}

Increment(r) ==
    /\ Cardinality(Events) < MaxEvents
    /\ clock' = [clock EXCEPT ![r][r] = @ + 1]
    /\ seen' = [seen EXCEPT ![r] = @ \cup {<<r, clock[r][r] + 1>>}]
    /\ UNCHANGED <<statistics, NodeConsistency>>

MergedKeepsOwn(vc, other) ==       \* faulty: only adds entries that are missing
    [k \in Replicas |-> IF vc[k] = 0 THEN other[k] ELSE vc[k]]

Merged(vc, other) == [k \in Replicas |-> IF other[k] > vc[k] THEN other[k] ELSE vc[k]]

Merge(r, s) ==
    /\ clock' = [clock EXCEPT ![r] = Merged(clock[r], clock[s])]
    /\ seen' = [seen EXCEPT ![r] = @ \cup seen[s]]
    /\ UNCHANGED <<statistics, NodeConsistency>>

Entropy(vc) == SumFunctionOnSet(vc, Replicas)

DominatesStrictly(vc, other) == \A k \in Replicas : vc[k] > other[k]    \* faulty

Dominates(vc, other) == \A k \in Replicas : vc[k] >= other[k]

-----------------------------------------------------------------------------
(* ResolveConflicts of a list of versions, each named by its replica: the   *)
(* first that dominates all others, or else the first with fewest events.   *)

DominantOverLast(versions) ==    \* faulty: the last comparison decides
    {i \in DOMAIN versions :
        LET j == Max(DOMAIN versions \ {i})
        IN  Dominates(clock[versions[i]], clock[versions[j]])}

Dominant(versions) ==
    {i \in DOMAIN versions : \A j \in DOMAIN versions \ {i} :
        Dominates(clock[versions[i]], clock[versions[j]])}

Smallest(versions) ==
    {i \in DOMAIN versions : \A j \in DOMAIN versions :
        Entropy(clock[versions[i]]) <= Entropy(clock[versions[j]])}

ResolveConflicts(versions) ==
    IF DOMAIN versions = {1} THEN versions[1]
    ELSE IF Dominant(versions) # {} THEN versions[Min(Dominant(versions))]
    ELSE versions[Min(Smallest(versions))]

-----------------------------------------------------------------------------
(* Network statistics.  The probability is the mean of the share of silent  *)
(* peers and the latency in seconds, at most 1.                             *)

Heard == Cardinality(DOMAIN LastHeartbeats)

FreshOnes ==    \* faulty: counts those that are not late
    Cardinality({p \in DOMAIN LastHeartbeats : LastHeartbeats[p] = "fresh"})

TimedOut == Cardinality({p \in DOMAIN LastHeartbeats : LastHeartbeats[p] = "late"})

One == 2000 * (Heard + 1)     \* a probability is so many parts of One

PredictPartitionProbability == Min({1000 * TimedOut + (Heard + 1) * Latency, One})

(* Is it more than n tenths?                                                *)
Exceeds(n) == 10 * PredictPartitionProbability > n * One

BaseTimeout == 100     \* milliseconds
MaxTimeout == 10000

(* baseTimeout times 1 + 1.5 times the probability.                         *)
CalculateTimeout ==
    LET backoff == (15 * BaseTimeout * PredictPartitionProbability) \div (10 * One)
    IN  Min({IF Exceeds(5) THEN BaseTimeout + backoff ELSE BaseTimeout, MaxTimeout})

UpdateNodeHeartbeat(p) ==
    /\ LastHeartbeats' = [q \in DOMAIN LastHeartbeats \cup {p} |->
                             IF q = p THEN "fresh" ELSE LastHeartbeats[q]]
    /\ UNCHANGED <<clock, seen, Latency, NodeConsistency>>

(* Five seconds pass without a heartbeat of p.                              *)
Silence(p) ==
    /\ p \in DOMAIN LastHeartbeats
    /\ LastHeartbeats' = [LastHeartbeats EXCEPT ![p] = "late"]
    /\ UNCHANGED <<clock, seen, Latency, NodeConsistency>>

Measure(latency) ==
    /\ Latency' = latency
    /\ UNCHANGED <<clock, seen, LastHeartbeats, NodeConsistency>>

Eventual == 1
Causal == 2
Strong == 3

AdjustedByOneTest ==     \* faulty: the tests in the wrong order
    IF Exceeds(3) THEN Causal ELSE IF Exceeds(7) THEN Eventual ELSE Strong

Adjusted == IF Exceeds(7) THEN Eventual ELSE IF Exceeds(3) THEN Causal ELSE Strong

DynamicAdjustConsistency(p) ==
    /\ NodeConsistency' = [q \in DOMAIN NodeConsistency \cup {p} |->
                              IF q = p THEN Adjusted ELSE NodeConsistency[q]]
    /\ UNCHANGED <<clock, seen, statistics>>

SetConsistency(level) ==
    /\ NodeConsistency' = [q \in DOMAIN NodeConsistency |-> level]
    /\ UNCHANGED <<clock, seen, statistics>>

Init ==
    /\ clock = [r \in Replicas |-> [k \in Replicas |-> 0]]
    /\ seen = [r \in Replicas |-> {}]
    /\ LastHeartbeats = << >> /\ Latency = 0
    /\ NodeConsistency = << >>

Next ==
    \/ \E r \in Replicas : Increment(r)
    \/ \E r, s \in Replicas : Merge(r, s)
    \/ \E p \in Peers : UpdateNodeHeartbeat(p)
    \/ \E p \in Peers : Silence(p)
    \/ \E latency \in Latencies : Measure(latency)
    \/ \E p \in Peers : DynamicAdjustConsistency(p)
    \/ \E level \in {Eventual, Causal, Strong} : SetConsistency(level)

Spec == Init /\ [][Next]_vars

-----------------------------------------------------------------------------
History(vc) == UNION {{k} \X (1 .. vc[k]) : k \in Replicas}

(* Types; and what a version has of one replica is a prefix of its changes. *)
TypeOK ==
    /\ clock \in [Replicas -> [Replicas -> Nat]]
    /\ seen = [r \in Replicas |-> History(clock[r])]
    /\ DOMAIN LastHeartbeats \subseteq Peers /\ Range(LastHeartbeats) \subseteq {"fresh", "late"}
    /\ Latency \in Nat
    /\ DOMAIN NodeConsistency \subseteq Peers /\ Range(NodeConsistency) \subseteq Eventual .. Strong

(* Clocks are histories: one dominates another exactly when its version has *)
(* all changes of the other.                                                *)
ClockIsHistory ==
    \A r, s \in Replicas : Dominates(clock[r], clock[s]) <=> seen[s] \subseteq seen[r]

(* The lists a caller may make of the versions, in any order and with       *)
(* repetitions.                                                             *)
Listings == UNION {[1 .. k -> Replicas] : k \in 1 .. MaxListed}

Concurrent(r, s) == ~(seen[r] \subseteq seen[s]) /\ ~(seen[s] \subseteq seen[r])

(* No change is lost without need: if some listed version has the changes   *)
(* of all the others, so has the one ResolveConflicts returns.              *)
LatestWins ==
    \A versions \in Listings :
        LET listed == Range(versions)
            latest == {r \in listed : \A s \in listed : seen[s] \subseteq seen[r]}
        IN  latest # {} => ResolveConflicts(versions) \in latest

(* The order of the list and its repetitions decide only between equal or   *)
(* concurrent versions: of one that has all changes of another and more,    *)
(* the answer is the same for every list.                                   *)
OrderOnlyBreaksTies ==
    \A listed \in SUBSET Replicas :
        LET answers == {ResolveConflicts(v) : v \in {w \in Listings : Range(w) = listed}}
        IN  \A r, s \in answers : \/ seen[r] = seen[s]
                                  \/ Concurrent(r, s) /\ Cardinality(seen[r]) = Cardinality(seen[s])

(* "High risk of partitions, prioritize availability": when all peers ever  *)
(* heard are silent and the latency is a second, the level is Eventual and  *)
(* the timeout longer.  "Low risk, prioritize consistency": when none is    *)
(* silent and the latency below 0.6 seconds, neither happens.  In between,  *)
(* whoever waits longer does not go on at the level Strong, and whoever     *)
(* goes on at the level Eventual waits longer.                              *)
RiskDecides ==
    LET longer == CalculateTimeout > BaseTimeout
    IN  /\ Heard > 0 /\ TimedOut = Heard /\ Latency >= 1000 => Adjusted = Eventual
        /\ TimedOut = 0 /\ Latency < 600 => Adjusted = Strong
        /\ Adjusted = Eventual => longer
        /\ longer => Adjusted # Strong

(* The news may get worse or better in many ways.                           *)
Late == {p \in DOMAIN LastHeartbeats : LastHeartbeats[p] = "late"}
Worse == DOMAIN LastHeartbeats' = DOMAIN LastHeartbeats /\ Late \subseteq Late' /\ Latency <= Latency'
Better == DOMAIN LastHeartbeats \subseteq DOMAIN LastHeartbeats' /\ Late' \subseteq Late /\ Latency' <= Latency

(* No news moves the level or the timeout the wrong way: a silence or a     *)
(* rise of the latency never makes the level stricter or the timeout        *)
(* shorter, a heartbeat, of a new peer too, or a fall of the latency never  *)
(* the opposite; and the timeout at most grows to two and a half times.     *)
NewsCountsTheRightWay ==
    [][/\ Worse => Adjusted' <= Adjusted /\ CalculateTimeout' >= CalculateTimeout
       /\ Better => Adjusted' >= Adjusted /\ CalculateTimeout' <= CalculateTimeout
       /\ 2 * CalculateTimeout' <= 5 * BaseTimeout]_vars
=============================================================================
