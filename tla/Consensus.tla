----------------------------- MODULE Consensus -----------------------------
(***************************************************************************)
(* MultipartyConsensus of Blockchain/proof.go: the trust scores of the     *)
(* nodes and the acceptance of a block from the validations that other     *)
(* nodes sent.  No command uses it, so how validations come together is    *)
(* external: any node answers for any block, for several of one height,    *)
(* and may change its mind.                                                *)
(*                                                                         *)
(* Scores are in hundredths and added exactly; the code adds binary        *)
(* fractions in the order of a Go map.  The two differ only for sums that  *)
(* equal TrustThreshold.                                                   *)
(***************************************************************************)
EXTENDS Block, FiniteSets, Functions

CONSTANTS
    Nodes,     \* the nodes that validate
    Blocks,    \* names of blocks for one height of the chain
    Content,   \* Content[b]: the block of that name
    Scores     \* the scores that may be given, in hundredths

ASSUME ConsensusAssumption ==
    /\ IsFiniteSet(Nodes)
    /\ Scores \subseteq 0 .. 100

VARIABLES
    TrustScores,   \* TrustScores[n], 0 without an entry
    validations    \* validations[b]: the answers for block b so far

vars == <<TrustScores, validations>>

-----------------------------------------------------------------------------
TrustThreshold == 67

(* A node without a score, or with score 0, counts as 0.5.                  *)
Trust(n) == IF TrustScores[n] = 0 THEN 50 ELSE TrustScores[n]

Yes(b) == {n \in DOMAIN validations[b] : validations[b][n]}

TotalTrust(b) == SumFunctionOnSet([n \in Yes(b) |-> Trust(n)], Yes(b))

NodeThresholdPart(b) == Cardinality(DOMAIN validations[b]) \div 3      \* faulty: a third

NodeThreshold(b) == (Cardinality(DOMAIN validations[b]) * 2) \div 3

Mined == {b \in Blocks : Validate(Content[b])}

ValidateBlockOnAverage(b) ==     \* faulty: asks for the trust of the average validator
    /\ b \in Mined
    /\ Cardinality(Yes(b)) >= NodeThreshold(b)
    /\ TotalTrust(b) >= TrustThreshold * Cardinality(DOMAIN validations[b])

ValidateBlock(b) ==
    /\ b \in Mined
    /\ Cardinality(Yes(b)) >= NodeThreshold(b)
    /\ TotalTrust(b) >= TrustThreshold

-----------------------------------------------------------------------------
AddTrustScoreSum(n, score) ==      \* faulty: adds to the score it should set
    /\ TrustScores' = [TrustScores EXCEPT ![n] = @ + score]
    /\ UNCHANGED validations

AddTrustScore(n, score) ==
    /\ TrustScores' = [TrustScores EXCEPT ![n] = score]
    /\ UNCHANGED validations

(* Node n answers for block b.                                              *)
Answer(n, b, isValid) ==
    /\ validations' = [validations EXCEPT
          ![b] = [m \in DOMAIN @ \cup {n} |-> IF m = n THEN isValid ELSE @[m]]]
    /\ UNCHANGED TrustScores

Init ==
    /\ TrustScores = [n \in Nodes |-> 0]
    /\ validations = [b \in Blocks |-> << >>]

Next ==
    \/ \E n \in Nodes, score \in Scores : AddTrustScore(n, score)
    \/ \E n \in Nodes, b \in Blocks, isValid \in BOOLEAN : Answer(n, b, isValid)

Spec == Init /\ [][Next]_vars

-----------------------------------------------------------------------------
(* Types: every answer is a yes or a no of a node.                          *)
TypeOK ==
    /\ TrustScores \in [Nodes -> 0 .. 100]
    /\ DOMAIN validations = Blocks
    /\ \A b \in Blocks : /\ DOMAIN validations[b] \subseteq Nodes
                        /\ \A n \in DOMAIN validations[b] : validations[b][n] \in BOOLEAN

(* When the same nodes have answered for two blocks of one height and none  *)
(* says yes to both, the two are not both accepted, whatever the scores,    *)
(* but for a tie of two or of four nodes: rounded down, the threshold asks  *)
(* for half of them only.                                                   *)
NoFork ==
    \A a, b \in Blocks :
        /\ a # b /\ DOMAIN validations[a] = DOMAIN validations[b]
        /\ Yes(a) \cap Yes(b) = {}
        /\ ValidateBlock(a) /\ ValidateBlock(b)
        => /\ Cardinality(DOMAIN validations[a]) \in {2, 4}
           /\ 2 * Cardinality(Yes(a)) = Cardinality(DOMAIN validations[a])
           /\ Cardinality(Yes(b)) = Cardinality(Yes(a))

(* No block is accepted against the answers of more than half of the nodes, *)
(* nor without two of them unless a single one is trusted with 0.67.        *)
HalfAgreed ==
    \A b \in Blocks : ValidateBlock(b) =>
        /\ 2 * Cardinality(Yes(b)) >= Cardinality(DOMAIN validations[b])
        /\ Cardinality(Yes(b)) >= 2 \/ \E n \in Yes(b) : TrustScores[n] >= TrustThreshold

(* The step adds a yes for b, or trust in a node that has some; what a node *)
(* gets with its first score may be less than the 0.5 it had without.       *)
Supports(b) ==
    \/ /\ TrustScores' = TrustScores
       /\ Yes(b) \subseteq Yes(b)'
       /\ DOMAIN validations'[b] \ DOMAIN validations[b] \subseteq Yes(b)'
    \/ /\ validations' = validations
       /\ \A n \in Nodes : \/ TrustScores'[n] = TrustScores[n]
                           \/ 0 < TrustScores[n] /\ TrustScores[n] < TrustScores'[n]

(* Support never hurts: a further yes, though it may raise the number of    *)
(* nodes that have to agree, and more trust leave an accepted block         *)
(* accepted.                                                                *)
SupportNeverHurts ==
    [][\A b \in Blocks : ValidateBlock(b) /\ Supports(b) => ValidateBlock(b)']_vars
=============================================================================
