------------------------------- MODULE Ledger -------------------------------
(***************************************************************************)
(* The chain of blocks as a ledger of transaction outputs: what            *)
(* createblockchain, addfunds and send write, and how the walks behind     *)
(* getbalance and send read it back (Blockchain/blockchain.go,             *)
(* Blockchain/transaction.go, Blockchain/tx.go and the handlers of         *)
(* cli/cli.go).  One action is one whole command: the commands of one      *)
(* process run one after the other and the database is locked meanwhile.   *)
(*                                                                         *)
(* Every block the program writes holds exactly one transaction            *)
(* (Genesis, addFunds and send pass a list of one), so a block is its      *)
(* transaction and the chain a sequence of transactions, genesis first.    *)
(***************************************************************************)
EXTENDS Integers, Sequences, FiniteSets, Functions

CONSTANTS
    Addresses,     \* the addresses that pass ValidateAddress
    FundAmounts,   \* the amounts typed to addfunds
    SendAmounts,   \* the amounts typed to send
    MaxBlocks,     \* bound: the chain stops growing at this length
    SelfSends,     \* may a user send to the address she sends from?
    SameSecond     \* may a command get the timestamp of the one before it?

ASSUME LedgerAssumption ==
    /\ FundAmounts \subseteq Int
    /\ SendAmounts \subseteq Int
    /\ MaxBlocks \in Nat
    /\ SelfSends \in BOOLEAN
    /\ SameSecond \in BOOLEAN
    /\ IsFiniteSet(Addresses)
    /\ Addresses \cap {"genesis", "reward"} = {}

VARIABLE chain     \* chain[h]: the transaction of the block at height h

-----------------------------------------------------------------------------
(* Transactions.  The inputs are a bag (TxInput -> how often): the code     *)
(* collects them in a map it then ranges over, so they have no order.       *)

GenesisReward == 100

NoInput(data) == [id |-> 0, out |-> -1, sig |-> data]

CoinbaseTxSwapped(to, data, amount, now) ==   \* faulty: pays the wrong field
    [inputs  |-> [in \in {NoInput(to)} |-> 1],
     outputs |-> <<[value |-> amount, key |-> data]>>,
     time    |-> now]

CoinbaseTx(to, data, amount, now) ==
    [inputs  |-> [in \in {NoInput(data)} |-> 1],
     outputs |-> <<[value |-> amount, key |-> to]>>,
     time    |-> now]

IsCoinbase(tx) ==
    \E in \in DOMAIN tx.inputs :
        /\ DOMAIN tx.inputs = {in} /\ tx.inputs[in] = 1
        /\ in.id = 0 /\ in.out = -1

(* SetID hashes the whole transaction: two transactions have the same ID    *)
(* exactly when they have the same contents.  An ID is represented by the   *)
(* height of the first block whose transaction has it.                      *)
TxID(h) ==
    CHOOSE g \in DOMAIN chain :
        /\ chain[g] = chain[h]
        /\ \A k \in DOMAIN chain : chain[k] = chain[h] => g <= k

(* The input that spends output o of the transaction at height h, signed by *)
(* address a (the "signature" of an input is the address in clear).         *)
InputFor(h, o, a) == [id |-> TxID(h), out |-> o, sig |-> a]

-----------------------------------------------------------------------------
(* Reading the chain: the walk from the last block back to genesis.         *)

CanBeUnlocked(out, a) == out.key = a

(* spentTXOs when the walk reaches height h: filled by the later blocks,    *)
(* from the inputs that address a can unlock.                               *)
IsSpentTXOShifted(h, o, a) ==    \* faulty: compares with the next output
    \E g \in h+1 .. Len(chain) :
        ~IsCoinbase(chain[g]) /\ InputFor(h, o + 1, a) \in DOMAIN chain[g].inputs

IsSpentTXOAnyOutput(h, o, a) ==  \* faulty: forgets which output was spent
    \E g \in h+1 .. Len(chain) : \E p \in 1..2 :
        ~IsCoinbase(chain[g]) /\ InputFor(h, p, a) \in DOMAIN chain[g].inputs

IsSpentTXO(h, o, a) ==
    \E g \in h+1 .. Len(chain) :
        ~IsCoinbase(chain[g]) /\ InputFor(h, o, a) \in DOMAIN chain[g].inputs

AllOutputs(h, a) == DOMAIN chain[h].outputs     \* faulty: anybody's

OwnedOutputs(h, a) ==
    {o \in DOMAIN chain[h].outputs : CanBeUnlocked(chain[h].outputs[o], a)}

(* How often the transaction at height h is in the returned slice: it is    *)
(* appended once per unspent output of the address.                         *)
FindUnspentTransactions(h, a) ==
    Cardinality({o \in OwnedOutputs(h, a) : ~IsSpentTXO(h, o, a)})

(* FindUTXO takes every output of the address from every transaction of     *)
(* that slice.  <<h, n, o>> is output o met in the n-th copy of block h.    *)
FindUTXO(a) ==
    {v \in (DOMAIN chain) \X (1..2) \X (1..2) :
        v[2] <= FindUnspentTransactions(v[1], a) /\ v[3] \in OwnedOutputs(v[1], a)}

Value(v) == chain[v[1]].outputs[v[3]].value

Total(visits) == SumFunctionOnSet([v \in visits |-> Value(v)], visits)

GetBalance(a) == Total(FindUTXO(a))

(* The order of the walk: newest block first, then copy by copy.            *)
MetBefore(u, v) ==
    \/ u[1] > v[1]
    \/ u[1] = v[1] /\ u[2] < v[2]
    \/ u[1] = v[1] /\ u[2] = v[2] /\ u[3] < v[3]

FindFirstOutput(a, amount) ==    \* faulty: gives up after the first output
    {v \in FindUTXO(a) : 0 < amount /\ \A u \in FindUTXO(a) : ~MetBefore(u, v)}

(* An output is taken while what was accumulated is still below the amount. *)
FindSpendableOutputs(a, amount) ==
    LET utxo == FindUTXO(a)
        UpTo(u) == {w \in utxo : w = u \/ MetBefore(w, u)}
    IN  {v \in utxo : /\ 0 < amount
                      /\ \A u \in utxo : MetBefore(u, v) => Total(UpTo(u)) < amount}

-----------------------------------------------------------------------------
(* Writing the chain.                                                       *)

ChangeOfAll(from, acc, amount) ==    \* faulty: the amount is not subtracted
    IF acc > amount THEN <<[value |-> acc, key |-> from]>> ELSE <<>>

ChangeOfNothing(from, acc, amount) ==    \* faulty: >= for >
    IF acc >= amount THEN <<[value |-> acc - amount, key |-> from]>> ELSE <<>>

Change(from, acc, amount) ==
    IF acc > amount THEN <<[value |-> acc - amount, key |-> from]>> ELSE <<>>

ChangeToRecipient(from, to, amount, taken, now) ==   \* faulty
    LET In(v) == InputFor(v[1], v[3], from)
    IN  [inputs  |-> [in \in {In(v) : v \in taken} |->
                        Cardinality({v \in taken : In(v) = in})],
         outputs |-> <<[value |-> amount, key |-> to]>>
                        \o Change(to, Total(taken), amount),
         time    |-> now]

NewTransaction(from, to, amount, taken, now) ==
    LET In(v) == InputFor(v[1], v[3], from)
    IN  [inputs  |-> [in \in {In(v) : v \in taken} |->
                        Cardinality({v \in taken : In(v) = in})],
         outputs |-> <<[value |-> amount, key |-> to]>>
                        \o Change(from, Total(taken), amount),
         time    |-> now]

(* The clock has a resolution of one second.                                *)
Now ==
    IF chain = <<>> THEN {1}
    ELSE LET last == chain[Len(chain)].time
         IN  IF SameSecond THEN {last, last + 1} ELSE {last + 1}

AddBlock(tx) ==
    /\ Len(chain) < MaxBlocks
    /\ chain' = Append(chain, tx)

CreateBlockChain(a) ==
    /\ chain = <<>>
    /\ \E now \in Now : AddBlock(CoinbaseTx(a, "genesis", GenesisReward, now))

AddFunds(a, amount) ==
    /\ amount > 0
    /\ chain # <<>>
    /\ \E now \in Now : AddBlock(CoinbaseTx(a, "reward", amount, now))

(* cli.send.  With too little to spend NewTransaction panics and nothing is *)
(* written.                                                                 *)
Send(from, to, amount) ==
    /\ chain # <<>>
    /\ SelfSends \/ from # to
    /\ LET taken == FindSpendableOutputs(from, amount)
       IN  /\ Total(taken) >= amount
           /\ \E now \in Now : AddBlock(NewTransaction(from, to, amount, taken, now))

(* The send command of the command line insists on a positive amount, the   *)
(* send of the interactive menu takes any number.                           *)
SendCommand(from, to, amount) == amount > 0 /\ Send(from, to, amount)

SendInteractive(from, to, amount) == Send(from, to, amount)

Init == chain = <<>>

Next ==
    \/ \E a \in Addresses : CreateBlockChain(a)
    \/ \E a \in Addresses, amount \in FundAmounts : AddFunds(a, amount)
    \/ \E from, to \in Addresses, amount \in SendAmounts :
            SendCommand(from, to, amount)
    \/ \E from, to \in Addresses, amount \in SendAmounts :
            SendInteractive(from, to, amount)

Spec == Init /\ [][Next]_chain

-----------------------------------------------------------------------------
(* Type invariant.                                                          *)

TxInput == [id : Nat, out : Int, sig : Addresses \cup {"genesis", "reward"}]
TxOutput == [value : Int, key : Addresses]

TransactionOK(tx) ==
    /\ DOMAIN tx = {"inputs", "outputs", "time"}
    /\ DOMAIN tx.inputs \subseteq TxInput
    /\ \A in \in DOMAIN tx.inputs : tx.inputs[in] \in Nat \ {0}
    /\ tx.outputs \in Seq(TxOutput)
    /\ Len(tx.outputs) \in 1..2
    /\ tx.time \in Nat

(* The chain is a sequence of transactions of one or two outputs; heights   *)
(* of blocks, values and addresses have the types of block.go and tx.go.    *)
TypeOK ==
    /\ chain \in Seq({chain[h] : h \in DOMAIN chain})
    /\ Len(chain) <= MaxBlocks
    /\ \A h \in DOMAIN chain : TransactionOK(chain[h])

-----------------------------------------------------------------------------
(* Reference definitions, independent of the walk.                          *)

Outpoint(in) == <<in.id, in.out>>

Spent(h, o) ==
    \E g \in DOMAIN chain : \E in \in DOMAIN chain[g].inputs :
        Outpoint(in) = <<TxID(h), o>>

UnspentOutputs(a) ==
    {p \in (DOMAIN chain) \X (1..2) :
        /\ p[2] \in DOMAIN chain[p[1]].outputs
        /\ chain[p[1]].outputs[p[2]].key = a
        /\ ~Spent(p[1], p[2])}

balance == [a \in Addresses |-> GetBalance(a)]

Supply ==
    SumFunctionOnSet([h \in DOMAIN chain |->
                        IF IsCoinbase(chain[h]) THEN chain[h].outputs[1].value ELSE 0],
                     DOMAIN chain)

-----------------------------------------------------------------------------
(* Properties.                                                              *)

(* No output is consumed twice: neither by two transactions nor twice by    *)
(* one.  (NewTransaction spends what FindSpendableOutputs returns.)         *)
NoDoubleSpend ==
    \A g \in DOMAIN chain : ~IsCoinbase(chain[g]) =>
        \A in \in DOMAIN chain[g].inputs :
            /\ chain[g].inputs[in] = 1
            /\ \A k \in DOMAIN chain : \A other \in DOMAIN chain[k].inputs :
                    Outpoint(other) = Outpoint(in) => k = g /\ other = in

(* Whatever a transaction spends is an output of an earlier block that      *)
(* belongs to the address that signs the input.                             *)
SpendsAuthorised ==
    \A g \in DOMAIN chain : ~IsCoinbase(chain[g]) =>
        \A in \in DOMAIN chain[g].inputs :
            \E h \in 1 .. g-1 :
                /\ TxID(h) = in.id
                /\ in.out \in DOMAIN chain[h].outputs
                /\ chain[h].outputs[in.out].key = in.sig

(* FindUTXO returns every unspent output of the address, once each, and     *)
(* nothing else: "finds all unspent transaction outputs for an address".    *)
FindUTXOExact ==
    \A a \in Addresses :
        FindUTXO(a) = {<<p[1], 1, p[2]>> : p \in UnspentOutputs(a)}

(* The balances that getbalance prints add up to what the coinbase          *)
(* transactions ever paid: sends neither create nor destroy coins.          *)
Conserved ==
    SumFunctionOnSet(balance, Addresses) = Supply

(* Every output pays a positive amount: no send leaves a worthless output   *)
(* as change.  (With a negative amount typed into the menu it does not      *)
(* hold: only the send command and addFunds check the amount.)              *)
PositiveOutputs ==
    \A h \in DOMAIN chain : \A o \in DOMAIN chain[h].outputs :
        chain[h].outputs[o].value > 0

(* The two readers of the chain agree: send accepts every amount that       *)
(* getbalance says the address has and, unless a negative amount typed into *)
(* the menu has made worthless outputs, no other.                           *)
RefusedIffUnfunded ==
    \A a \in Addresses, amount \in SendAmounts :
        LET accepted == Total(FindSpendableOutputs(a, amount)) >= amount
        IN  /\ GetBalance(a) >= amount => accepted
            /\ accepted /\ PositiveOutputs => GetBalance(a) >= amount

(* getbalance never hides an unspent output of the address.                 *)
NothingHidden ==
    \A a \in Addresses, p \in (DOMAIN chain) \X (1..2) :
        p \in UnspentOutputs(a) => <<p[1], 1, p[2]>> \in FindUTXO(a)

(* What makes a history orderly: no two blocks have the same transaction    *)
(* ID, and no transaction has two outputs for one address, as a send to     *)
(* oneself with change has.                                                 *)
Orderly ==
    \A h \in DOMAIN chain :
        /\ TxID(h) = h
        /\ \A o, p \in DOMAIN chain[h].outputs :
              chain[h].outputs[o].key = chain[h].outputs[p].key => o = p

(* Nothing else can make the ledger wrong: in every orderly history no      *)
(* output is spent twice, the walks find the unspent outputs and coins are  *)
(* conserved, also with sends to oneself and several commands a second.     *)
OrderlyIsExact == Orderly => NoDoubleSpend /\ FindUTXOExact /\ Conserved

(* As long as the history is orderly, a block with new coins credits its    *)
(* first output to the address that is paid and does nothing else, and any  *)
(* other block moves that amount to this address from the one that signs,   *)
(* also an amount of 0 or less, which the send of the menu accepts and      *)
(* which gives the sender what it takes from the recipient.                 *)
Moves(tx) ==
    LET paid == tx.outputs[1]
    IN  IF IsCoinbase(tx)
        THEN balance' = [balance EXCEPT ![paid.key] = @ + paid.value]
        ELSE \E from \in Addresses :
                /\ \A in \in DOMAIN tx.inputs : in.sig = from
                /\ balance' = [[balance EXCEPT ![from] = @ - paid.value]
                                       EXCEPT ![paid.key] = @ + paid.value]

OnlyTransfers == [][Orderly' => Moves(chain'[Len(chain')])]_chain

(* The chain is a book of balances: a send moves exactly its amount from    *)
(* the sender to the recipient, addfunds credits exactly its amount, and    *)
(* no command touches the balance of an address it does not name.           *)
Book == INSTANCE Accounts WITH
            Credits  <- {n \in FundAmounts : n > 0},
            Payments <- {n \in SendAmounts : n > 0},
            open     <- chain # <<>>,
            balance  <- balance

ImplementsAccounts == Book!Spec
=============================================================================
