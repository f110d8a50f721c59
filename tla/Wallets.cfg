\* Two terminals make wallets, at once or in turn, and any of them may die.
SPECIFICATION Spec
CONSTANTS
    p = p
    q = q
    Processes = {p, q}
    MaxWallets = 4
    Crashes = TRUE
INVARIANTS
    TypeOK
    AllListedUnlessTornOrRaced
SYMMETRY ProcessSymmetry
CHECK_DEADLOCK FALSE
