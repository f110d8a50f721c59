------------------------------ MODULE Accounts ------------------------------
(***************************************************************************)
(* What the command line promises a user of the chain, said without blocks *)
(* or outputs: a book of balances.  "createblockchain" opens the book with *)
(* the genesis reward, "addfunds" credits one address, "send" moves an     *)
(* amount the sender owns, and nothing else ever changes a balance.        *)
(* Module Ledger, which models the code, is checked to implement it.       *)
(***************************************************************************)
EXTENDS Integers

CONSTANTS
    Addresses,      \* the addresses of the book
    Credits,        \* what can be credited at a time, positive
    Payments,       \* what can be moved at a time, positive
    GenesisReward   \* what opening the book pays

VARIABLES
    open,           \* has the blockchain been created?
    balance         \* balance[a]: what address a owns

bookVars == <<open, balance>>

Init ==
    /\ open = FALSE
    /\ balance = [a \in Addresses |-> 0]

Open(a) ==
    /\ ~open
    /\ open' = TRUE
    /\ balance' = [balance EXCEPT ![a] = @ + GenesisReward]

Mint(a, amount) ==
    /\ open
    /\ balance' = [balance EXCEPT ![a] = @ + amount]
    /\ UNCHANGED open

Transfer(from, to, amount) ==
    /\ open
    /\ amount <= balance[from]
    /\ balance' = [[balance EXCEPT ![from] = @ - amount] EXCEPT ![to] = @ + amount]
    /\ UNCHANGED open

Next ==
    \/ \E a \in Addresses : Open(a)
    \/ \E a \in Addresses, amount \in Credits : Mint(a, amount)
    \/ \E from, to \in Addresses, amount \in Payments : Transfer(from, to, amount)

Spec == Init /\ [][Next]_bookVars
=============================================================================
