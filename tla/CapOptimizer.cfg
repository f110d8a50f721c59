\* Three replicas change their versions and take over each other's; two peers,
\* and a latency of less than a second or of more.
SPECIFICATION Spec
CONSTANTS
    a = a
    b = b
    c = c
    p = p
    q = q
    Replicas = {a, b, c}
    Peers = {p, q}
    Latencies = {500, 2500}
    MaxEvents = 4
    MaxListed = 3
INVARIANTS
    TypeOK
    LatestWins
    OrderOnlyBreaksTies
    RiskDecides
PROPERTIES
    NewsCountsTheRightWay
SYMMETRY Symmetry
