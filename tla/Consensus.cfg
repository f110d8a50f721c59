\* Up to five nodes answer for two blocks.  No sum of two scores of the
\* instance equals the threshold.
SPECIFICATION Spec
CONSTANTS
    n1 = n1
    n2 = n2
    n3 = n3
    n4 = n4
    n5 = n5
    Nodes = {n1, n2, n3, n4, n5}
    left = left
    right = right
    Blocks = {left, right}
    Content <- TwoOrders
    BelowTarget <- OneOfFour
    Scores = {10, 67}
INVARIANTS
    TypeOK
    NoFork
    HalfAgreed
PROPERTIES
    SupportNeverHurts
SYMMETRY NodeSymmetry
