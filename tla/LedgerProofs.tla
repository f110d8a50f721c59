---------------------------- MODULE LedgerProofs ----------------------------
(***************************************************************************)
(* Theorems about module Ledger, for every set of addresses, all amounts   *)
(* and chains of every length.                                             *)
(*                                                                         *)
(* Inv is inductive and assumes nothing: types, authorised spends and      *)
(* visibility of unspent outputs hold always, and no output is spent twice *)
(* as long as the history is orderly, that is, no transaction is repeated  *)
(* within a second and none pays both ways to one address.  So every       *)
(* orderly history keeps the ledger exact, whatever the users may do later *)
(* (OrderlyHistoriesAreExact); and users who are careful, who never send   *)
(* to the address they send from nor twice in a second, have no other      *)
(* histories.  TLC shows what happens without this care.                   *)
(*                                                                         *)
(* The chain then implements the book of balances of module Accounts: a    *)
(* block consumes some of the visits FindUTXO returns and adds at most one *)
(* for each address (NextUTXO); a balance is the sum over the visits, so   *)
(* it loses what was consumed and gains what was paid (BalanceUnpaid,      *)
(* BalancePaid); the amounts then cancel because NewTransaction pays the   *)
(* difference back as change.  In an orderly history that is so for        *)
(* amounts of either sign (SendsMoveTheirAmount).                          *)
(***************************************************************************)
EXTENDS Ledger, SumLemmas, SequenceTheorems

-----------------------------------------------------------------------------
(* Facts about the operators.                                               *)

(* The ID of a transaction is the least height that holds its contents.     *)
LEMMA TxIDProperty ==
  ASSUME DOMAIN chain = 1 .. Len(chain), Len(chain) \in Nat, NEW h \in DOMAIN chain
  PROVE  /\ TxID(h) \in DOMAIN chain /\ chain[TxID(h)] = chain[h]
         /\ \A k \in DOMAIN chain : chain[k] = chain[h] => TxID(h) <= k
<1> DEFINE S == 1 .. Len(chain)
           Bad == {X \in SUBSET S : \E k \in S : X = 1 .. k /\ chain[k] = chain[h]}
<1>1. IsFiniteSet(S)
  BY FS_Interval
<1>2. 1 .. h \in Bad
  OBVIOUS
<1>3. PICK W \in Bad : \A V \in SUBSET W : V # W => V \notin Bad
  <2>1. Bad \in SUBSET SUBSET S
    OBVIOUS
  <2> HIDE DEF Bad, S
  <2>2. QED BY <1>1, <1>2, <2>1, MinimalSubset
<1>4. PICK g \in S : W = 1 .. g /\ chain[g] = chain[h]
  OBVIOUS
<1>5. \A k \in S : chain[k] = chain[h] => g <= k
  <2> SUFFICES ASSUME NEW k \in S, chain[k] = chain[h], k < g PROVE FALSE
    OBVIOUS
  <2>1. 1 .. k \in Bad /\ 1 .. k \in SUBSET W /\ 1 .. k # W
    BY <1>4
  <2>2. QED BY <1>3, <2>1
<1>6. QED BY <1>4, <1>5 DEF TxID

(* The visits of a walk are finitely many.                                  *)
LEMMA TriplesFinite ==
  ASSUME NEW S, IsFiniteSet(S)
  PROVE  IsFiniteSet(S \X (1..2) \X (1..2))
<1> DEFINE T == S \X (1..2) \X (1..2)
           U == (S \X (1..2)) \X (1..2)
           f == [t \in T |-> <<<<t[1], t[2]>>, t[3]>>]
<1>1. IsFiniteSet(1..2)
  <2>1. 1 \in Int /\ 2 \in Int
    OBVIOUS
  <2>2. QED BY <2>1, FS_Interval, Zenon
<1>2. IsFiniteSet(U)
  BY <1>1, FS_Product
<1>3. f \in [T -> U]
  OBVIOUS
<1>4. \A t, u \in T : f[t] = f[u] => t = u
  OBVIOUS
<1>5. f \in Injection(T, U)
  BY <1>3, <1>4 DEF Injection, IsInjective
<1> HIDE DEF f, T, U
<1>6. IsFiniteSet(T)
  BY <1>2, <1>5, FS_Injection
<1>7. QED BY <1>6 DEF T

(* The heights are 1 to the length of the chain, a finite set.              *)
LEMMA ChainDomain ==
  ASSUME TypeOK
  PROVE  /\ Len(chain) \in Nat
         /\ DOMAIN chain = 1 .. Len(chain)
         /\ IsFiniteSet(DOMAIN chain)
<1>1. Len(chain) \in Nat /\ DOMAIN chain = 1 .. Len(chain)
  BY DEF TypeOK
<1>2. 1 \in Int /\ Len(chain) \in Int
  BY <1>1
<1>3. IsFiniteSet(1 .. Len(chain))
  BY <1>2, FS_Interval, Zenon
<1>4. QED BY <1>1, <1>3

(* What AddBlock leaves in the chain.                                       *)
LEMMA AppendedChain ==
  ASSUME TypeOK, NEW tx, chain' = Append(chain, tx)
  PROVE  /\ Len(chain') = Len(chain) + 1
         /\ DOMAIN chain' = 1 .. Len(chain) + 1
         /\ \A h \in DOMAIN chain : chain'[h] = chain[h]
         /\ chain'[Len(chain) + 1] = tx
         /\ chain' \in Seq({chain'[h] : h \in DOMAIN chain'})
<1> DEFINE S == {chain[h] : h \in DOMAIN chain}
           T == {chain'[h] : h \in DOMAIN chain'}
<1>1. chain \in Seq(S \cup {tx})
  BY DEF TypeOK
<1>2. /\ Len(chain') = Len(chain) + 1
      /\ DOMAIN chain' = 1 .. Len(chain) + 1
      /\ \A h \in DOMAIN chain : chain'[h] = chain[h]
      /\ chain'[Len(chain) + 1] = tx
      /\ chain' \in Seq(S \cup {tx})
  <2> HIDE DEF S
  <2> QED BY <1>1
<1>3. S \cup {tx} \subseteq T
  BY <1>2, ChainDomain
<1>4. chain' \in Seq(T)
  <2> HIDE DEF S, T
  <2> QED BY <1>2, <1>3
<1>5. QED BY <1>2, <1>4

(* The walk returns outputs of the address, finitely many.                  *)
LEMMA FindUTXOType ==
  ASSUME TypeOK, NEW a
  PROVE  /\ IsFiniteSet(FindUTXO(a))
         /\ \A v \in FindUTXO(a) :
              /\ v[1] \in DOMAIN chain
              /\ v[2] \in 1..2
              /\ v[3] \in DOMAIN chain[v[1]].outputs
              /\ chain[v[1]].outputs[v[3]].key = a
              /\ Value(v) \in Int
<1>1. IsFiniteSet((DOMAIN chain) \X (1..2) \X (1..2))
  BY ChainDomain, TriplesFinite
<1>2. FindUTXO(a) \in SUBSET ((DOMAIN chain) \X (1..2) \X (1..2))
  BY DEF FindUTXO
<1>3. IsFiniteSet(FindUTXO(a))
  BY <1>1, <1>2, FS_Subset
<1>4. ASSUME NEW v \in FindUTXO(a)
      PROVE  /\ v[1] \in DOMAIN chain
             /\ v[2] \in 1..2
             /\ v[3] \in DOMAIN chain[v[1]].outputs
             /\ chain[v[1]].outputs[v[3]].key = a
  BY <1>4 DEF FindUTXO, OwnedOutputs, CanBeUnlocked
<1>5. ASSUME NEW h \in DOMAIN chain, NEW o \in DOMAIN chain[h].outputs
      PROVE  chain[h].outputs[o].value \in Int
  <2>1. chain[h].outputs \in Seq(TxOutput)
    BY DEF TypeOK, TransactionOK
  <2>2. chain[h].outputs[o] \in TxOutput
    BY <2>1
  <2>3. QED BY <2>2 DEF TxOutput
<1>6. QED BY <1>3, <1>4, <1>5 DEF Value

(* The value of some of the outputs of an address is an integer, and they   *)
(* are finitely many.                                                       *)
LEMMA TotalType ==
  ASSUME TypeOK, NEW a, NEW taken \in SUBSET FindUTXO(a)
  PROVE  Total(taken) \in Int /\ IsFiniteSet(taken)
<1>1. IsFiniteSet(taken)
  BY FindUTXOType, FS_Subset
<1> DEFINE f == [v \in taken |-> Value(v)]
<1>2. \A v \in taken : f[v] \in Int
  BY FindUTXOType
<1> HIDE DEF f
<1>3. SumFunctionOnSet(f, taken) \in Int
  BY <1>1, <1>2, SumType
<1>4. QED BY <1>1, <1>3 DEF Total, f

(* FindSpendableOutputs returns some of what FindUTXO returns.              *)
LEMMA SpendableIsUTXO ==
  \A a, amount : FindSpendableOutputs(a, amount) \in SUBSET FindUTXO(a)
BY DEF FindSpendableOutputs

-----------------------------------------------------------------------------
(* Type correctness.                                                        *)

(* CoinbaseTx builds a well-typed transaction.                              *)
LEMMA CoinbaseOK ==
  ASSUME NEW to \in Addresses, NEW data \in {"genesis", "reward"},
         NEW amount \in Int, NEW now \in Nat
  PROVE  TransactionOK(CoinbaseTx(to, data, amount, now))
<1> DEFINE tx == CoinbaseTx(to, data, amount, now)
<1>1. NoInput(data) \in TxInput
  BY DEF NoInput, TxInput
<1>2. DOMAIN tx.inputs = {NoInput(data)} /\ tx.inputs[NoInput(data)] = 1
  BY DEF CoinbaseTx
<1>3. tx.outputs \in Seq(TxOutput) /\ Len(tx.outputs) = 1
  BY DEF CoinbaseTx, TxOutput
<1>4. DOMAIN tx = {"inputs", "outputs", "time"} /\ tx.time = now
  BY DEF CoinbaseTx
<1> HIDE DEF tx
<1>5. TransactionOK(tx)
  BY <1>1, <1>2, <1>3, <1>4 DEF TransactionOK
<1>6. QED BY <1>5 DEF tx

(* NewTransaction builds a well-typed transaction of one or two outputs.    *)
LEMMA NewTransactionOK ==
  ASSUME TypeOK, NEW from \in Addresses, NEW to \in Addresses, NEW amount \in Int,
         NEW taken \in SUBSET FindUTXO(from), NEW now \in Nat
  PROVE  TransactionOK(NewTransaction(from, to, amount, taken, now))
<1> DEFINE tx == NewTransaction(from, to, amount, taken, now)
           In(v) == InputFor(v[1], v[3], from)
           Same(in) == {v \in taken : In(v) = in}
<1>1. /\ DOMAIN tx = {"inputs", "outputs", "time"}
      /\ DOMAIN tx.inputs = {In(v) : v \in taken}
      /\ \A in \in DOMAIN tx.inputs : tx.inputs[in] = Cardinality(Same(in))
      /\ tx.outputs = <<[value |-> amount, key |-> to]>>
                        \o Change(from, Total(taken), amount)
      /\ tx.time = now
  BY DEF NewTransaction
<1>2. ASSUME NEW v \in taken
      PROVE  In(v) \in TxInput
  <2>1. v[1] \in DOMAIN chain /\ v[3] \in DOMAIN chain[v[1]].outputs
    BY FindUTXOType
  <2>2. TxID(v[1]) \in Nat
    BY <2>1, ChainDomain, TxIDProperty
  <2>3. v[3] \in Int
    BY <2>1 DEF TypeOK, TransactionOK
  <2>4. QED BY <2>2, <2>3 DEF TxInput, InputFor
<1>3. ASSUME NEW v \in taken
      PROVE  Cardinality(Same(In(v))) \in Nat \ {0}
  <2>1. IsFiniteSet(Same(In(v)))
    BY TotalType, FS_Subset
  <2>2. v \in Same(In(v))
    OBVIOUS
  <2> HIDE DEF Same
  <2>3. Cardinality(Same(In(v))) \in Nat /\ Cardinality(Same(In(v))) # 0
    BY <2>1, <2>2, FS_CardinalityType, FS_EmptySet
  <2>4. QED BY <2>3
<1>4. tx.outputs \in Seq(TxOutput) /\ Len(tx.outputs) \in 1..2
  <2>1. [value |-> amount, key |-> to] \in TxOutput
    BY DEF TxOutput
  <2>2. Total(taken) \in Int
    BY TotalType
  <2>3. CASE Total(taken) > amount
    <3>1. [value |-> Total(taken) - amount, key |-> from] \in TxOutput
      BY <2>2 DEF TxOutput
    <3> HIDE DEF tx
    <3>2. QED BY <1>1, <2>1, <2>3, <3>1 DEF Change
  <2>4. CASE ~(Total(taken) > amount)
    <3> HIDE DEF tx
    <3> QED BY <1>1, <2>1, <2>4 DEF Change
  <2>5. QED BY <2>3, <2>4
<1> HIDE DEF tx, In, Same
<1>5. TransactionOK(tx)
  BY <1>1, <1>2, <1>3, <1>4 DEF TransactionOK
<1>6. QED BY <1>5 DEF tx

(* A block with a well-typed transaction keeps TypeOK.                      *)
LEMMA AddBlockOK ==
  ASSUME TypeOK, NEW tx, TransactionOK(tx), AddBlock(tx)
  PROVE  TypeOK'
<1>1. chain' = Append(chain, tx) /\ Len(chain) < MaxBlocks
  BY DEF AddBlock
<1>2. /\ Len(chain') = Len(chain) + 1
      /\ DOMAIN chain' = 1 .. Len(chain) + 1
      /\ \A h \in DOMAIN chain : chain'[h] = chain[h]
      /\ chain'[Len(chain) + 1] = tx
      /\ chain' \in Seq({chain'[h] : h \in DOMAIN chain'})
  BY <1>1, AppendedChain
<1>3. Len(chain') <= MaxBlocks
  BY <1>1, <1>2, ChainDomain, LedgerAssumption
<1>4. \A h \in DOMAIN chain' : chain'[h] = tx \/ \E g \in DOMAIN chain : chain'[h] = chain[g]
  BY <1>2, ChainDomain
<1>5. \A h \in DOMAIN chain' : TransactionOK(chain'[h])
  BY <1>4 DEF TypeOK
<1>6. QED BY <1>2, <1>3, <1>5 DEF TypeOK, TransactionOK

(* Timestamps are natural numbers.                                          *)
LEMMA NowType ==
  ASSUME TypeOK
  PROVE  Now \subseteq Nat
<1>1. CASE chain = <<>>
  BY <1>1 DEF Now
<1>2. CASE chain # <<>>
  <2>1. Len(chain) \in DOMAIN chain
    BY <1>2 DEF TypeOK
  <2>2. chain[Len(chain)].time \in Nat
    BY <2>1 DEF TypeOK, TransactionOK
  <2>3. QED BY <1>2, <2>2 DEF Now
<1>3. QED BY <1>1, <1>2

(* send keeps TypeOK.                                                       *)
LEMMA SendStep ==
  ASSUME TypeOK, NEW from \in Addresses, NEW to \in Addresses,
         NEW amount \in SendAmounts, Send(from, to, amount)
  PROVE  TypeOK'
<1> DEFINE taken == FindSpendableOutputs(from, amount)
<1>1. PICK now \in Now : AddBlock(NewTransaction(from, to, amount, taken, now))
  BY DEF Send
<1>2. taken \in SUBSET FindUTXO(from)
  BY SpendableIsUTXO
<1>3. now \in Nat /\ amount \in Int
  BY NowType, LedgerAssumption
<1> HIDE DEF taken
<1>4. TransactionOK(NewTransaction(from, to, amount, taken, now))
  BY <1>2, <1>3, NewTransactionOK
<1>5. QED BY <1>1, <1>4, AddBlockOK

(* Every command keeps TypeOK.                                              *)
LEMMA TypeStep ==
  ASSUME TypeOK, [Next]_chain
  PROVE  TypeOK'
<1>1. CASE UNCHANGED chain
  BY <1>1 DEF TypeOK, TransactionOK
<1>2. ASSUME NEW a \in Addresses, CreateBlockChain(a)
      PROVE  TypeOK'
  <2>1. PICK now \in Now : AddBlock(CoinbaseTx(a, "genesis", GenesisReward, now))
    BY <1>2 DEF CreateBlockChain
  <2>2. TransactionOK(CoinbaseTx(a, "genesis", GenesisReward, now))
    BY NowType, CoinbaseOK DEF GenesisReward
  <2>3. QED BY <2>1, <2>2, AddBlockOK
<1>3. ASSUME NEW a \in Addresses, NEW amount \in FundAmounts, AddFunds(a, amount)
      PROVE  TypeOK'
  <2>1. PICK now \in Now : AddBlock(CoinbaseTx(a, "reward", amount, now))
    BY <1>3 DEF AddFunds
  <2>2. TransactionOK(CoinbaseTx(a, "reward", amount, now))
    BY NowType, LedgerAssumption, CoinbaseOK
  <2>3. QED BY <2>1, <2>2, AddBlockOK
<1>4. ASSUME NEW from \in Addresses, NEW to \in Addresses, NEW amount \in SendAmounts,
             SendCommand(from, to, amount) \/ SendInteractive(from, to, amount)
      PROVE  TypeOK'
  BY <1>4, SendStep DEF SendCommand, SendInteractive
<1>5. QED BY <1>1, <1>2, <1>3, <1>4 DEF Next

(* Whatever commands are run, in whatever order and with whatever amounts,  *)
(* the chain stays a sequence of well-formed transactions.                  *)
THEOREM TypeCorrect == Spec => []TypeOK
<1>1. Init => TypeOK
  BY LedgerAssumption DEF Init, TypeOK
<1>2. TypeOK /\ [Next]_chain => TypeOK'
  BY TypeStep
<1>3. QED BY <1>1, <1>2, PTL DEF Spec

-----------------------------------------------------------------------------
(* What holds whatever users do.                                            *)

(* An ID is the least height of its contents.                               *)
IDsAreLeast ==
    \A h \in DOMAIN chain :
        /\ TxID(h) \in DOMAIN chain /\ chain[TxID(h)] = chain[h]
        /\ \A k \in DOMAIN chain : chain[k] = chain[h] => TxID(h) <= k

(* It is in every chain of well-typed transactions.                         *)
LEMMA TxIDIsLeast == TypeOK => IDsAreLeast
  BY ChainDomain, TxIDProperty DEF IDsAreLeast

(* A new block does not change the ID of an older one, not even when it has *)
(* the same contents.                                                       *)
LEMMA TxIDKept ==
  ASSUME TypeOK, NEW tx, TransactionOK(tx), AddBlock(tx), NEW h \in DOMAIN chain
  PROVE  TxID(h)' = TxID(h)
<1>1. TypeOK'
  BY AddBlockOK
<1>2. /\ DOMAIN chain = 1 .. Len(chain) /\ Len(chain) \in Nat
      /\ DOMAIN chain' = 1 .. Len(chain) + 1
      /\ \A k \in DOMAIN chain : chain'[k] = chain[k]
  BY AppendedChain, ChainDomain DEF AddBlock
<1>3. TypeOK' => IDsAreLeast'
  BY TxIDIsLeast, PTL
<1>4. h \in DOMAIN chain'
  BY <1>2
<1>5. /\ TxID(h)' \in DOMAIN chain' /\ chain'[TxID(h)'] = chain'[h]
      /\ \A k \in DOMAIN chain' : chain'[k] = chain'[h] => TxID(h)' <= k
  BY <1>1, <1>3, <1>4 DEF IDsAreLeast
<1>6. /\ TxID(h) \in DOMAIN chain /\ chain[TxID(h)] = chain[h]
      /\ \A k \in DOMAIN chain : chain[k] = chain[h] => TxID(h) <= k
  BY TxIDIsLeast DEF IDsAreLeast
<1>7. TxID(h)' <= TxID(h)
  BY <1>2, <1>5, <1>6
<1>8. TxID(h)' \in DOMAIN chain /\ TxID(h) \in Nat
  BY <1>2, <1>5, <1>6, <1>7
<1>9. TxID(h) <= TxID(h)'
  BY <1>2, <1>5, <1>6, <1>8
<1>10. QED BY <1>2, <1>7, <1>8, <1>9

(* What an input of a transaction must refer to for SpendsAuthorised.       *)
Owned(in) ==
    \E h \in DOMAIN chain :
        /\ TxID(h) = in.id
        /\ in.out \in DOMAIN chain[h].outputs
        /\ chain[h].outputs[in.out].key = in.sig

(* A block whose inputs refer to outputs of the chain and carry their       *)
(* owners' addresses keeps SpendsAuthorised.                                *)
LEMMA OwnedKeeps ==
  ASSUME TypeOK, SpendsAuthorised, NEW tx, TransactionOK(tx), AddBlock(tx),
         IsCoinbase(tx) \/ \A in \in DOMAIN tx.inputs : Owned(in)
  PROVE  SpendsAuthorised'
<1> DEFINE n == Len(chain) + 1
<1>1. /\ DOMAIN chain = 1 .. Len(chain) /\ Len(chain) \in Nat
      /\ DOMAIN chain' = 1 .. n
      /\ \A h \in DOMAIN chain : chain'[h] = chain[h]
      /\ chain'[n] = tx
  BY AppendedChain, ChainDomain DEF AddBlock
<1>2. \A h \in DOMAIN chain : TxID(h)' = TxID(h)
  BY TxIDKept
<1> SUFFICES ASSUME NEW g \in DOMAIN chain', ~IsCoinbase(chain'[g]),
                    NEW in \in DOMAIN chain'[g].inputs
             PROVE  \E h \in 1 .. g-1 :
                       /\ TxID(h)' = in.id
                       /\ in.out \in DOMAIN chain'[h].outputs
                       /\ chain'[h].outputs[in.out].key = in.sig
  BY DEF SpendsAuthorised
<1>3. CASE g \in DOMAIN chain
  <2>1. PICK h \in 1 .. g-1 : /\ TxID(h) = in.id
                              /\ in.out \in DOMAIN chain[h].outputs
                              /\ chain[h].outputs[in.out].key = in.sig
    BY <1>1, <1>3 DEF SpendsAuthorised
  <2>2. h \in DOMAIN chain
    BY <1>1, <1>3
  <2>3. QED BY <1>1, <1>2, <2>1, <2>2
<1>4. CASE g = n
  <2>1. PICK h \in DOMAIN chain : /\ TxID(h) = in.id
                                  /\ in.out \in DOMAIN chain[h].outputs
                                  /\ chain[h].outputs[in.out].key = in.sig
    BY <1>1, <1>4 DEF Owned
  <2>2. h \in 1 .. g-1
    BY <1>1, <1>4, <2>1
  <2>3. QED BY <1>1, <1>2, <2>1, <2>2
<1>5. QED BY <1>1, <1>3, <1>4

(* NewTransaction signs only outputs of the sender.                         *)
LEMMA NewTransactionOwned ==
  ASSUME TypeOK, NEW from, NEW to, NEW amount, NEW now,
         NEW taken \in SUBSET FindUTXO(from),
         NEW in \in DOMAIN NewTransaction(from, to, amount, taken, now).inputs
  PROVE  Owned(in)
<1>1. PICK v \in taken : in = InputFor(v[1], v[3], from)
  BY DEF NewTransaction
<1>2. /\ v[1] \in DOMAIN chain
      /\ v[3] \in DOMAIN chain[v[1]].outputs
      /\ chain[v[1]].outputs[v[3]].key = from
  BY FindUTXOType
<1>3. QED BY <1>1, <1>2 DEF Owned, InputFor

(* CoinbaseTx makes coinbase transactions.                                  *)
LEMMA CoinbaseIsCoinbase ==
  ASSUME NEW to, NEW data, NEW amount, NEW now
  PROVE  IsCoinbase(CoinbaseTx(to, data, amount, now))
<1> DEFINE tx == CoinbaseTx(to, data, amount, now)
<1>1. DOMAIN tx.inputs = {NoInput(data)} /\ tx.inputs[NoInput(data)] = 1
  BY DEF CoinbaseTx
<1>2. NoInput(data).id = 0 /\ NoInput(data).out = -1
  BY DEF NoInput
<1> HIDE DEF tx
<1>3. IsCoinbase(tx)
  BY <1>1, <1>2 DEF IsCoinbase
<1>4. QED BY <1>3 DEF tx

(* Every command keeps SpendsAuthorised.                                    *)
LEMMA AuthorisedStep ==
  ASSUME TypeOK, SpendsAuthorised, [Next]_chain
  PROVE  SpendsAuthorised'
<1>1. CASE UNCHANGED chain
  <2>1. \A h : TxID(h)' = TxID(h)
    BY <1>1, Zenon DEF TxID
  <2>2. QED BY <1>1, <2>1 DEF SpendsAuthorised, IsCoinbase
<1>2. ASSUME NEW a \in Addresses, CreateBlockChain(a)
      PROVE  SpendsAuthorised'
  <2>1. PICK now \in Now : AddBlock(CoinbaseTx(a, "genesis", GenesisReward, now))
    BY <1>2 DEF CreateBlockChain
  <2>2. TransactionOK(CoinbaseTx(a, "genesis", GenesisReward, now))
    BY NowType, CoinbaseOK DEF GenesisReward
  <2>3. QED BY <2>1, <2>2, CoinbaseIsCoinbase, OwnedKeeps
<1>3. ASSUME NEW a \in Addresses, NEW amount \in FundAmounts, AddFunds(a, amount)
      PROVE  SpendsAuthorised'
  <2>1. PICK now \in Now : AddBlock(CoinbaseTx(a, "reward", amount, now))
    BY <1>3 DEF AddFunds
  <2>2. TransactionOK(CoinbaseTx(a, "reward", amount, now))
    BY NowType, LedgerAssumption, CoinbaseOK
  <2>3. QED BY <2>1, <2>2, CoinbaseIsCoinbase, OwnedKeeps
<1>4. ASSUME NEW from \in Addresses, NEW to \in Addresses, NEW amount \in SendAmounts,
             Send(from, to, amount)
      PROVE  SpendsAuthorised'
  <2> DEFINE taken == FindSpendableOutputs(from, amount)
  <2>1. PICK now \in Now : AddBlock(NewTransaction(from, to, amount, taken, now))
    BY <1>4 DEF Send
  <2>2. taken \in SUBSET FindUTXO(from)
    BY SpendableIsUTXO
  <2>3. now \in Nat /\ amount \in Int
    BY NowType, LedgerAssumption
  <2> HIDE DEF taken
  <2> DEFINE tx == NewTransaction(from, to, amount, taken, now)
  <2>4. TransactionOK(tx)
    BY <2>2, <2>3, NewTransactionOK
  <2>5. \A in \in DOMAIN tx.inputs : Owned(in)
    BY <2>2, NewTransactionOwned
  <2> HIDE DEF tx
  <2>6. AddBlock(tx)
    BY <2>1 DEF tx
  <2>7. QED BY <2>4, <2>5, <2>6, OwnedKeeps
<1>5. QED BY <1>1, <1>2, <1>3, <1>4 DEF Next, SendCommand, SendInteractive

(* A transaction spends only outputs of earlier blocks that belong to the   *)
(* address that signs: also with self-sends, equal timestamps and any       *)
(* amounts.                                                                 *)
THEOREM OnlyOwnerSpends == Spec => []SpendsAuthorised
<1>1. Init => SpendsAuthorised
  BY DEF Init, SpendsAuthorised
<1>2. TypeOK /\ SpendsAuthorised /\ [Next]_chain => SpendsAuthorised'
  BY AuthorisedStep
<1>3. QED BY <1>1, <1>2, TypeCorrect, PTL DEF Spec

(* No unspent output is hidden from its owner: also with self-sends, equal  *)
(* timestamps and any amounts.  (Coins of equal transactions get lost       *)
(* because one input then spends the outputs of both.)                      *)
THEOREM NothingIsHidden == Spec => []NothingHidden
<1>1. TypeOK => NothingHidden
  <2> SUFFICES ASSUME TypeOK, NEW a \in Addresses, NEW p \in UnspentOutputs(a)
               PROVE  <<p[1], 1, p[2]>> \in FindUTXO(a)
    BY DEF NothingHidden
  <2> DEFINE Live == {o \in OwnedOutputs(p[1], a) : ~IsSpentTXO(p[1], o, a)}
  <2>1. /\ p[1] \in DOMAIN chain /\ p[2] \in 1..2
        /\ p[2] \in OwnedOutputs(p[1], a)
        /\ ~Spent(p[1], p[2])
    BY DEF UnspentOutputs, OwnedOutputs, CanBeUnlocked
  <2>2. ~IsSpentTXO(p[1], p[2], a)
    <3> SUFFICES ASSUME IsSpentTXO(p[1], p[2], a) PROVE FALSE
      OBVIOUS
    <3> DEFINE in == InputFor(p[1], p[2], a)
    <3>1. PICK g \in p[1]+1 .. Len(chain) : in \in DOMAIN chain[g].inputs
      BY DEF IsSpentTXO
    <3>2. g \in DOMAIN chain
      BY <2>1, <3>1, ChainDomain
    <3>3. Outpoint(in) = <<TxID(p[1]), p[2]>>
      BY DEF Outpoint, InputFor
    <3>4. QED BY <2>1, <3>1, <3>2, <3>3 DEF Spent
  <2>3. IsFiniteSet(Live)
    <3>1. 1 \in Int /\ 2 \in Int
      OBVIOUS
    <3>2. IsFiniteSet(1..2)
      BY <3>1, FS_Interval, Zenon
    <3>3. OwnedOutputs(p[1], a) \in SUBSET (1..2)
      <4>1. /\ chain[p[1]].outputs \in Seq(TxOutput)
            /\ Len(chain[p[1]].outputs) \in 1..2
        BY <2>1 DEF TypeOK, TransactionOK
      <4>2. DOMAIN chain[p[1]].outputs \in SUBSET (1..2)
        BY <4>1
      <4>3. QED BY <4>2 DEF OwnedOutputs
    <3>4. Live \in SUBSET (1..2)
      BY <3>3
    <3>5. QED BY <3>2, <3>4, FS_Subset
  <2>4. p[2] \in Live
    BY <2>1, <2>2
  <2> HIDE DEF Live
  <2>5. Cardinality(Live) \in Nat /\ Cardinality(Live) # 0
    BY <2>3, <2>4, FS_CardinalityType, FS_EmptySet
  <2>6. 1 <= FindUnspentTransactions(p[1], a)
    BY <2>5 DEF Live, FindUnspentTransactions
  <2> DEFINE v == <<p[1], 1, p[2]>>
  <2>7. v \in (DOMAIN chain) \X (1..2) \X (1..2) /\ v[1] = p[1] /\ v[2] = 1 /\ v[3] = p[2]
    BY <2>1
  <2> HIDE DEF v
  <2>8. v \in FindUTXO(a)
    BY <2>1, <2>6, <2>7 DEF FindUTXO
  <2>9. QED BY <2>8 DEF v
<1>2. QED BY <1>1, TypeCorrect, PTL

-----------------------------------------------------------------------------
(* What the ledger means in an orderly history.  Nothing is assumed of the  *)
(* users here: a history that is orderly was so all along, since a new      *)
(* block changes neither the IDs nor the outputs of the older ones.         *)

IDsAreHeights == \A h \in DOMAIN chain : TxID(h) = h

OnePerAddress ==
    \A h \in DOMAIN chain : \A o, p \in DOMAIN chain[h].outputs :
        chain[h].outputs[o].key = chain[h].outputs[p].key => o = p

(* What is shown of orderly histories ...                                   *)
Sound == TypeOK /\ Orderly /\ SpendsAuthorised /\ NoDoubleSpend

(* ... and the inductive invariant that shows it of all of them.            *)
Inv == TypeOK /\ SpendsAuthorised /\ (Orderly => NoDoubleSpend)

(* The two halves of an orderly history.                                    *)
LEMMA OrderlyHalves == Orderly <=> IDsAreHeights /\ OnePerAddress
BY DEF Orderly, IDsAreHeights, OnePerAddress

LEMMA SoundHalves == Sound => IDsAreHeights /\ OnePerAddress
BY OrderlyHalves DEF Sound

(* A history that is orderly after a block was orderly before it.           *)
LEMMA OrderlyBefore ==
  ASSUME TypeOK, NEW tx, TransactionOK(tx), AddBlock(tx), Orderly'
  PROVE  Orderly
<1>1. /\ DOMAIN chain = 1 .. Len(chain) /\ Len(chain) \in Nat
      /\ DOMAIN chain' = 1 .. Len(chain) + 1
      /\ \A h \in DOMAIN chain : chain'[h] = chain[h]
  BY AppendedChain, ChainDomain DEF AddBlock
<1>2. \A h \in DOMAIN chain : h \in DOMAIN chain' /\ TxID(h)' = TxID(h)
  BY <1>1, TxIDKept
<1>3. QED BY <1>1, <1>2 DEF Orderly

(* What FindUTXO returns, said without the walk.                            *)
LEMMA FindUTXOMeaning ==
  ASSUME TypeOK, OnePerAddress, NEW a, NEW v
  PROVE  v \in FindUTXO(a) <=>
           /\ v \in (DOMAIN chain) \X {1} \X (1..2)
           /\ v[3] \in OwnedOutputs(v[1], a)
           /\ ~IsSpentTXO(v[1], v[3], a)
<1>1. SUFFICES ASSUME NEW h \in DOMAIN chain, NEW n \in 1..2, NEW o \in 1..2,
                      o \in OwnedOutputs(h, a)
               PROVE  n <= FindUnspentTransactions(h, a) <=>
                      n = 1 /\ ~IsSpentTXO(h, o, a)
  BY <1>1 DEF FindUTXO
<1> DEFINE U == {p \in OwnedOutputs(h, a) : ~IsSpentTXO(h, p, a)}
<1>2. \A p \in OwnedOutputs(h, a) : p = o
  BY <1>1 DEF OnePerAddress, OwnedOutputs, CanBeUnlocked
<1>3. CASE IsSpentTXO(h, o, a)
  <2>1. U = {}
    BY <1>2, <1>3
  <2> HIDE DEF U
  <2>2. Cardinality(U) = 0
    BY <2>1, FS_EmptySet
  <2>3. QED BY <1>3, <2>2 DEF FindUnspentTransactions, U
<1>4. CASE ~IsSpentTXO(h, o, a)
  <2>1. U = {o}
    BY <1>1, <1>2, <1>4
  <2> HIDE DEF U
  <2>2. Cardinality(U) = 1
    BY <2>1, FS_Singleton
  <2>3. QED BY <1>4, <2>2 DEF FindUnspentTransactions, U
<1>5. QED BY <1>3, <1>4

(* Which visits a command may spend: their outputs are unspent in every     *)
(* block, not only in the blocks the walk looked at.                        *)
LEMMA SpendableIsUnspent ==
  ASSUME Sound, NEW a \in Addresses, NEW v \in FindUTXO(a),
         NEW g \in DOMAIN chain, NEW in \in DOMAIN chain[g].inputs
  PROVE  Outpoint(in) # <<v[1], v[3]>>
<1>1. /\ v[1] \in 1 .. Len(chain) /\ v[3] \in DOMAIN chain[v[1]].outputs
      /\ chain[v[1]].outputs[v[3]].key = a
      /\ ~IsSpentTXO(v[1], v[3], a)
  BY FindUTXOType, FindUTXOMeaning, SoundHalves, ChainDomain DEF Sound
<1>2. CASE IsCoinbase(chain[g])
  BY <1>1, <1>2 DEF IsCoinbase, Outpoint
<1>3. CASE ~IsCoinbase(chain[g])
  <2>1. SUFFICES ASSUME in.id = v[1], in.out = v[3] PROVE FALSE
    BY DEF Outpoint
  <2>2. PICK h \in 1 .. g-1 : /\ TxID(h) = in.id
                              /\ in.out \in DOMAIN chain[h].outputs
                              /\ chain[h].outputs[in.out].key = in.sig
    BY <1>3 DEF Sound, SpendsAuthorised
  <2>3. h \in DOMAIN chain /\ h = v[1] /\ TxID(v[1]) = v[1]
    BY <2>1, <2>2, ChainDomain, SoundHalves DEF IDsAreHeights, Sound
  <2>4. in.sig = a
    BY <1>1, <2>1, <2>2, <2>3
  <2>5. in \in TxInput
    BY DEF Sound, TypeOK, TransactionOK
  <2>6. in = InputFor(v[1], v[3], a)
    BY <2>1, <2>3, <2>4, <2>5 DEF TxInput, InputFor
  <2>7. g \in v[1]+1 .. Len(chain)
    BY <1>1, <2>2, <2>3, ChainDomain DEF Sound
  <2>8. QED BY <1>1, <1>3, <2>6, <2>7 DEF IsSpentTXO
<1>4. QED BY <1>2, <1>3

(* What the next block must satisfy to keep an orderly history sound.       *)
Fits(tx) ==
    /\ TransactionOK(tx)
    /\ IsCoinbase(tx) \/
        \A in \in DOMAIN tx.inputs :
            /\ tx.inputs[in] = 1
            /\ in.id \in DOMAIN chain
            /\ in.out \in DOMAIN chain[in.id].outputs
            /\ chain[in.id].outputs[in.out].key = in.sig
            /\ \A g \in DOMAIN chain : \A old \in DOMAIN chain[g].inputs :
                    Outpoint(old) # Outpoint(in)
            /\ \A other \in DOMAIN tx.inputs :
                    Outpoint(other) = Outpoint(in) => other = in

(* A block whose transaction fits an orderly chain and leaves it orderly    *)
(* keeps it sound.                                                          *)
LEMMA FitsKeepsSound ==
  ASSUME Sound, NEW tx, Fits(tx), AddBlock(tx), Orderly'
  PROVE  Sound'
<1> DEFINE n == Len(chain) + 1
<1>1. TypeOK'
  BY AddBlockOK DEF Fits, Sound
<1>2. /\ DOMAIN chain = 1 .. Len(chain) /\ Len(chain) \in Nat
      /\ DOMAIN chain' = 1 .. n
      /\ \A h \in DOMAIN chain : chain'[h] = chain[h]
      /\ chain'[n] = tx
  BY AppendedChain, ChainDomain DEF AddBlock, Sound
<1>3. \A h \in DOMAIN chain' : h \in DOMAIN chain \/ h = n
  BY <1>2
<1>4. \A h \in DOMAIN chain : TxID(h) = h
  BY SoundHalves DEF IDsAreHeights
<1>5. SpendsAuthorised'
  <2>1. IsCoinbase(tx) \/ \A in \in DOMAIN tx.inputs : Owned(in)
    BY <1>4 DEF Fits, Owned
  <2>2. QED BY <2>1, OwnedKeeps DEF Fits, Sound
<1>6. NoDoubleSpend'
  <2> SUFFICES ASSUME NEW g \in DOMAIN chain', ~IsCoinbase(chain'[g]),
                      NEW in \in DOMAIN chain'[g].inputs
               PROVE  /\ chain'[g].inputs[in] = 1
                      /\ \A k \in DOMAIN chain' : \A other \in DOMAIN chain'[k].inputs :
                            Outpoint(other) = Outpoint(in) => k = g /\ other = in
    BY DEF NoDoubleSpend
  <2>1. CASE g \in DOMAIN chain
    <3>1. /\ chain[g].inputs[in] = 1
          /\ \A k \in DOMAIN chain : \A other \in DOMAIN chain[k].inputs :
                Outpoint(other) = Outpoint(in) => k = g /\ other = in
      BY <1>2, <2>1 DEF Sound, NoDoubleSpend
    <3>2. \A other \in DOMAIN tx.inputs : Outpoint(other) # Outpoint(in)
      <4>1. CASE IsCoinbase(tx)
        <5>1. in.id \in DOMAIN chain
          BY <1>2, <1>4, <2>1 DEF Sound, SpendsAuthorised
        <5>2. QED BY <1>2, <4>1, <5>1 DEF IsCoinbase, Outpoint
      <4>2. CASE ~IsCoinbase(tx)
        BY <1>2, <2>1, <4>2 DEF Fits
      <4>3. QED BY <4>1, <4>2
    <3>3. QED BY <1>2, <1>3, <2>1, <3>1, <3>2
  <2>2. CASE g = n
    <3>1. /\ tx.inputs[in] = 1
          /\ \A k \in DOMAIN chain : \A old \in DOMAIN chain[k].inputs :
                Outpoint(old) # Outpoint(in)
          /\ \A other \in DOMAIN tx.inputs : Outpoint(other) = Outpoint(in) => other = in
      BY <1>2, <2>2 DEF Fits
    <3>2. QED BY <1>2, <1>3, <2>2, <3>1
  <2>3. QED BY <1>3, <2>1, <2>2
<1>7. QED BY <1>1, <1>5, <1>6 DEF Sound

(* What NewTransaction builds from unspent outputs fits the chain: the      *)
(* outputs it consumes exist, belong to the sender and were not consumed    *)
(* before.                                                                  *)
LEMMA NewTransactionFits ==
  ASSUME Sound, NEW from \in Addresses, NEW to \in Addresses,
         NEW amount \in Int, NEW taken \in SUBSET FindUTXO(from), NEW now \in Nat
  PROVE  Fits(NewTransaction(from, to, amount, taken, now))
<1> DEFINE tx == NewTransaction(from, to, amount, taken, now)
           In(v) == InputFor(v[1], v[3], from)
           Same(in) == {v \in taken : In(v) = in}
<1>1. TransactionOK(tx)
  BY NewTransactionOK DEF Sound
<1>2. /\ DOMAIN tx.inputs = {In(v) : v \in taken}
      /\ \A in \in DOMAIN tx.inputs : tx.inputs[in] = Cardinality(Same(in))
  BY DEF NewTransaction
<1>3. ASSUME NEW v \in taken
      PROVE  /\ v \in (DOMAIN chain) \X {1} \X (1..2)
             /\ v[3] \in DOMAIN chain[v[1]].outputs
             /\ chain[v[1]].outputs[v[3]].key = from
             /\ In(v).id = v[1] /\ In(v).out = v[3] /\ In(v).sig = from
  <2>1. v \in FindUTXO(from)
    OBVIOUS
  <2>2. TxID(v[1]) = v[1]
    BY <2>1, FindUTXOType, SoundHalves DEF IDsAreHeights, Sound
  <2>3. In(v).id = v[1] /\ In(v).out = v[3] /\ In(v).sig = from
    BY <2>2 DEF InputFor
  <2>4. QED BY <2>1, <2>3, FindUTXOType, FindUTXOMeaning, SoundHalves DEF Sound
<1>4. \A v, w \in taken : Outpoint(In(v)) = Outpoint(In(w)) => v = w
  <2> SUFFICES ASSUME NEW v \in taken, NEW w \in taken,
                      Outpoint(In(v)) = Outpoint(In(w))
               PROVE  v = w
    OBVIOUS
  <2>1. v[1] = w[1] /\ v[3] = w[3]
    <3>1. Outpoint(In(v)) = <<v[1], v[3]>> /\ Outpoint(In(w)) = <<w[1], w[3]>>
      BY <1>3 DEF Outpoint
    <3>2. <<v[1], v[3]>> = <<w[1], w[3]>>
      BY <3>1, Zenon
    <3>3. QED BY <3>2
  <2>2. v \in (DOMAIN chain) \X {1} \X (1..2) /\ w \in (DOMAIN chain) \X {1} \X (1..2)
    BY <1>3
  <2>3. QED BY <2>1, <2>2
<1>5. ASSUME NEW v \in taken
      PROVE  Cardinality(Same(In(v))) = 1
  <2>1. Same(In(v)) = {v}
    BY <1>4
  <2> HIDE DEF Same
  <2>2. QED BY <2>1, FS_Singleton
<1>6. ASSUME NEW in \in DOMAIN tx.inputs
      PROVE  /\ tx.inputs[in] = 1
             /\ in.id \in DOMAIN chain
             /\ in.out \in DOMAIN chain[in.id].outputs
             /\ chain[in.id].outputs[in.out].key = in.sig
             /\ \A g \in DOMAIN chain : \A old \in DOMAIN chain[g].inputs :
                    Outpoint(old) # Outpoint(in)
             /\ \A other \in DOMAIN tx.inputs :
                    Outpoint(other) = Outpoint(in) => other = in
  <2>1. PICK v \in taken : in = In(v)
    BY <1>2
  <2>2. tx.inputs[in] = 1
    BY <1>2, <1>5, <2>1
  <2>3. \A g \in DOMAIN chain : \A old \in DOMAIN chain[g].inputs :
          Outpoint(old) # Outpoint(in)
    <3>1. Outpoint(in) = <<v[1], v[3]>>
      BY <1>3, <2>1 DEF Outpoint
    <3>2. QED BY <3>1, SpendableIsUnspent
  <2>4. \A other \in DOMAIN tx.inputs : Outpoint(other) = Outpoint(in) => other = in
    BY <1>2, <1>4, <2>1
  <2> HIDE DEF tx, In, Same
  <2>5. QED BY <1>3, <2>1, <2>2, <2>3, <2>4
<1> HIDE DEF tx, In, Same
<1>7. Fits(tx)
  BY <1>1, <1>6 DEF Fits
<1>8. QED BY <1>7 DEF tx

-----------------------------------------------------------------------------
(* What a command may write.                                                *)

Minted(tx) ==
    \E to \in Addresses, data \in {"genesis", "reward"}, amount \in Int, now \in Now :
        tx = CoinbaseTx(to, data, amount, now)

Sent(tx) ==
    \E from, to \in Addresses, amount \in SendAmounts, now \in Now :
        LET taken == FindSpendableOutputs(from, amount)
        IN  /\ SelfSends \/ from # to
            /\ Total(taken) >= amount
            /\ tx = NewTransaction(from, to, amount, taken, now)

(* Every command appends one block, of new coins or of a send.              *)
LEMMA NextBlock ==
  ASSUME TypeOK, Next
  PROVE  \E tx : AddBlock(tx) /\ TransactionOK(tx) /\ (Minted(tx) \/ Sent(tx))
<1>1. ASSUME NEW to \in Addresses, NEW data \in {"genesis", "reward"},
             NEW amount \in Int, NEW now \in Now, AddBlock(CoinbaseTx(to, data, amount, now))
      PROVE  \E tx : AddBlock(tx) /\ TransactionOK(tx) /\ Minted(tx)
  <2> DEFINE tx == CoinbaseTx(to, data, amount, now)
  <2>1. TransactionOK(tx)
    BY NowType, CoinbaseOK
  <2>2. Minted(tx)
    BY DEF Minted
  <2>3. AddBlock(tx)
    BY <1>1
  <2> HIDE DEF tx
  <2>4. QED BY <2>1, <2>2, <2>3
<1>2. ASSUME NEW a \in Addresses, CreateBlockChain(a)
      PROVE  \E tx : AddBlock(tx) /\ TransactionOK(tx) /\ Minted(tx)
  BY <1>1, <1>2 DEF CreateBlockChain, GenesisReward
<1>3. ASSUME NEW a \in Addresses, NEW amount \in FundAmounts, AddFunds(a, amount)
      PROVE  \E tx : AddBlock(tx) /\ TransactionOK(tx) /\ Minted(tx)
  BY <1>1, <1>3, LedgerAssumption DEF AddFunds
<1>4. ASSUME NEW from \in Addresses, NEW to \in Addresses, NEW amount \in SendAmounts,
             Send(from, to, amount)
      PROVE  \E tx : AddBlock(tx) /\ TransactionOK(tx) /\ Sent(tx)
  <2> DEFINE taken == FindSpendableOutputs(from, amount)
  <2>1. PICK now \in Now : AddBlock(NewTransaction(from, to, amount, taken, now))
    BY <1>4 DEF Send
  <2> DEFINE tx == NewTransaction(from, to, amount, taken, now)
  <2>2. Sent(tx)
    BY <1>4 DEF Send, Sent
  <2>3. taken \in SUBSET FindUTXO(from) /\ now \in Nat /\ amount \in Int
    BY SpendableIsUTXO, NowType, LedgerAssumption
  <2> HIDE DEF taken
  <2>4. TransactionOK(tx)
    BY <2>3, NewTransactionOK
  <2>5. AddBlock(tx)
    BY <2>1
  <2> HIDE DEF tx
  <2>6. QED BY <2>2, <2>4, <2>5
<1>5. QED BY <1>2, <1>3, <1>4 DEF Next, SendCommand, SendInteractive

(* In a sound history, what a command writes fits.                          *)
LEMMA WrittenFits ==
  ASSUME Sound, NEW tx, TransactionOK(tx), Minted(tx) \/ Sent(tx)
  PROVE  Fits(tx)
<1>1. CASE Minted(tx)
  BY <1>1, CoinbaseIsCoinbase DEF Minted, Fits
<1>2. CASE Sent(tx)
  <2>1. PICK from \in Addresses, to \in Addresses, amount \in SendAmounts, now \in Now :
           tx = NewTransaction(from, to, amount, FindSpendableOutputs(from, amount), now)
    BY <1>2 DEF Sent
  <2>2. /\ now \in Nat /\ amount \in Int
        /\ FindSpendableOutputs(from, amount) \in SUBSET FindUTXO(from)
    BY NowType, SpendableIsUTXO, LedgerAssumption DEF Sound
  <2>3. QED BY <2>1, <2>2, NewTransactionFits
<1>3. QED BY <1>1, <1>2

(* What a command does to an orderly history that stays orderly.            *)
LEMMA OrderlyStep ==
  ASSUME Inv, Next, Orderly'
  PROVE  \E tx : Sound /\ Sound' /\ Fits(tx) /\ AddBlock(tx) /\ (Minted(tx) \/ Sent(tx))
<1>1. PICK tx : AddBlock(tx) /\ TransactionOK(tx) /\ (Minted(tx) \/ Sent(tx))
  BY NextBlock DEF Inv
<1>2. Sound
  BY <1>1, OrderlyBefore DEF Inv, Sound
<1>3. Fits(tx)
  BY <1>1, <1>2, WrittenFits
<1>4. Sound'
  BY <1>1, <1>2, <1>3, FitsKeepsSound
<1>5. QED BY <1>1, <1>2, <1>3, <1>4

(* A step that adds no block changes neither IDs nor what they mean.        *)
LEMMA Unchanged ==
  ASSUME UNCHANGED chain
  PROVE  /\ Orderly' <=> Orderly
         /\ NoDoubleSpend' <=> NoDoubleSpend
<1>1. \A h : TxID(h)' = TxID(h)
  BY Zenon DEF TxID
<1>2. QED BY <1>1 DEF Orderly, NoDoubleSpend, IsCoinbase, Outpoint

(* The inductive invariant holds in every reachable chain.                  *)
LEMMA Invariance == Spec => []Inv
<1>1. Init => Inv
  BY LedgerAssumption DEF Init, Inv, TypeOK, SpendsAuthorised, NoDoubleSpend
<1>2. Inv /\ [Next]_chain => Inv'
  <2> SUFFICES ASSUME Inv, [Next]_chain PROVE Inv'
    OBVIOUS
  <2>1. TypeOK' /\ SpendsAuthorised'
    BY TypeStep, AuthorisedStep DEF Inv
  <2>2. ASSUME Orderly' PROVE NoDoubleSpend'
    <3>1. CASE Next
      BY <2>2, <3>1, OrderlyStep DEF Sound
    <3>2. CASE UNCHANGED chain
      BY <2>2, <3>2, Unchanged DEF Inv
    <3>3. QED BY <3>1, <3>2
  <2>3. QED BY <2>1, <2>2 DEF Inv
<1>3. QED BY <1>1, <1>2, PTL DEF Spec

-----------------------------------------------------------------------------
(* Careful users: nobody sends to the address she sends from and no two     *)
(* commands get the same timestamp.  Their histories are orderly: the       *)
(* timestamp tells a transaction from every other, and the change of a send *)
(* is the sender's only output.                                             *)

Careful == SelfSends = FALSE /\ SameSecond = FALSE

Clock == \A h \in DOMAIN chain : chain[h].time = h

CarefulInv == Clock /\ OnePerAddress

(* When no two blocks have the same time no two transactions have the same  *)
(* ID.                                                                      *)
LEMMA CarefulInvIsOrderly ==
  TypeOK /\ CarefulInv => Orderly
<1> SUFFICES ASSUME TypeOK, CarefulInv, NEW h \in DOMAIN chain PROVE TxID(h) = h
  BY OrderlyHalves DEF IDsAreHeights, CarefulInv
<1>1. TxID(h) \in DOMAIN chain /\ chain[TxID(h)] = chain[h]
  BY ChainDomain, TxIDProperty
<1>2. QED BY <1>1 DEF Clock, CarefulInv

(* When every command takes a new second, the clock shows the next height.  *)
LEMMA NextSecond ==
  ASSUME TypeOK, Clock, Careful
  PROVE  Now = {Len(chain) + 1}
<1>1. CASE chain = <<>>
  BY <1>1 DEF Now
<1>2. CASE chain # <<>>
  <2>1. Len(chain) \in DOMAIN chain
    BY <1>2 DEF TypeOK
  <2>2. QED BY <1>2, <2>1 DEF Now, Clock, Careful
<1>3. QED BY <1>1, <1>2

(* Two sequences of one element, one after the other.                       *)
LEMMA Concat1 ==
  ASSUME NEW S, NEW s \in Seq(S), NEW t \in Seq(S), Len(s) = 1, Len(t) = 1
  PROVE  /\ s \o t \in Seq(S) /\ Len(s \o t) = 2 /\ DOMAIN (s \o t) = {1, 2}
         /\ (s \o t)[1] = s[1] /\ (s \o t)[2] = t[1]
<1>1. /\ s \o t \in Seq(S) /\ Len(s \o t) = Len(s) + Len(t)
      /\ \A i \in 1 .. Len(s) + Len(t) :
            (s \o t)[i] = IF i <= Len(s) THEN s[i] ELSE t[i - Len(s)]
  BY ConcatProperties
<1>2. DOMAIN (s \o t) = 1 .. Len(s \o t)
  BY <1>1
<1>3. QED BY <1>1, <1>2

(* The outputs of a send: the amount, and what is left over if anything is. *)
LEMMA NewOutputs ==
  ASSUME NEW from, NEW to, NEW amount, NEW taken, NEW now
  PROVE  LET out == NewTransaction(from, to, amount, taken, now).outputs
             acc == Total(taken)
         IN  /\ out[1].value = amount /\ out[1].key = to
             /\ acc > amount => /\ DOMAIN out = {1, 2}
                                /\ out[2].value = acc - amount
                                /\ out[2].key = from
             /\ ~(acc > amount) => DOMAIN out = {1}
<1> DEFINE out == NewTransaction(from, to, amount, taken, now).outputs
           acc == Total(taken)
           paid == [value |-> amount, key |-> to]
           change == [value |-> acc - amount, key |-> from]
<1>1. out = <<paid>> \o Change(from, acc, amount)
  BY DEF NewTransaction
<1>2. CASE acc > amount
  <2>1. Change(from, acc, amount) = <<change>>
    BY <1>2 DEF Change
  <2> HIDE DEF out, acc, paid, change
  <2>2. DOMAIN out = {1, 2} /\ out[1] = paid /\ out[2] = change
    <3> DEFINE s == <<paid>>
               t == <<change>>
    <3>1. /\ s \in Seq({paid, change}) /\ Len(s) = 1 /\ s[1] = paid
          /\ t \in Seq({paid, change}) /\ Len(t) = 1 /\ t[1] = change
      OBVIOUS
    <3>2. out = s \o t
      BY <1>1, <2>1
    <3> HIDE DEF s, t
    <3>3. QED BY <3>1, <3>2, Concat1
  <2>3. QED BY <1>2, <2>2 DEF out, acc, paid, change
<1>3. CASE ~(acc > amount)
  <2>1. Change(from, acc, amount) = <<>>
    BY <1>3 DEF Change
  <2> HIDE DEF out, acc, paid
  <2>2. out = <<paid>>
    BY <1>1, <2>1
  <2>3. DOMAIN out = {1} /\ out[1] = paid
    BY <2>2
  <2>4. QED BY <1>3, <2>3 DEF out, acc, paid
<1>4. QED BY <1>2, <1>3

(* What careful users write has its own time and one output per address.    *)
LEMMA CarefulWrites ==
  ASSUME TypeOK, Clock, Careful, NEW tx, Minted(tx) \/ Sent(tx)
  PROVE  /\ tx.time = Len(chain) + 1
         /\ \A o, p \in DOMAIN tx.outputs : tx.outputs[o].key = tx.outputs[p].key => o = p
<1>1. CASE Minted(tx)
  <2>1. PICK to \in Addresses, data \in {"genesis", "reward"}, amount \in Int, now \in Now :
           tx = CoinbaseTx(to, data, amount, now)
    BY <1>1 DEF Minted
  <2>2. tx.time = now /\ DOMAIN tx.outputs = {1}
    BY <2>1 DEF CoinbaseTx
  <2>3. QED BY <2>2, NextSecond
<1>2. CASE Sent(tx)
  <2>1. PICK from \in Addresses, to \in Addresses, amount \in SendAmounts, now \in Now :
           /\ SelfSends \/ from # to
           /\ tx = NewTransaction(from, to, amount, FindSpendableOutputs(from, amount), now)
    BY <1>2 DEF Sent
  <2>2. tx.time = now
    BY <2>1 DEF NewTransaction
  <2>3. from # to
    BY <2>1, Zenon DEF Careful
  <2>4. \/ DOMAIN tx.outputs = {1, 2} /\ tx.outputs[1].key = to /\ tx.outputs[2].key = from
        \/ DOMAIN tx.outputs = {1}
    BY <2>1, NewOutputs
  <2>5. QED BY <2>2, <2>3, <2>4, NextSecond
<1>3. QED BY <1>1, <1>2

(* Careful users have orderly histories.                                    *)
LEMMA CarefulAreOrderly == Careful => (Spec => []Orderly)
<1> SUFFICES ASSUME Careful PROVE Spec => []Orderly
  OBVIOUS
<1>1. Init => CarefulInv
  BY DEF Init, CarefulInv, Clock, OnePerAddress
<1>2. TypeOK /\ CarefulInv /\ [Next]_chain => CarefulInv'
  <2> SUFFICES ASSUME TypeOK, CarefulInv, [Next]_chain PROVE CarefulInv'
    OBVIOUS
  <2>1. CASE UNCHANGED chain
    BY <2>1 DEF CarefulInv, Clock, OnePerAddress
  <2>2. CASE Next
    <3>1. PICK tx : AddBlock(tx) /\ (Minted(tx) \/ Sent(tx))
      BY <2>2, NextBlock
    <3>2. /\ DOMAIN chain = 1 .. Len(chain) /\ Len(chain) \in Nat
          /\ DOMAIN chain' = 1 .. Len(chain) + 1
          /\ \A h \in DOMAIN chain : chain'[h] = chain[h]
          /\ chain'[Len(chain) + 1] = tx
      BY <3>1, AppendedChain, ChainDomain DEF AddBlock
    <3>3. \A h \in DOMAIN chain' : h \in DOMAIN chain \/ h = Len(chain) + 1
      BY <3>2
    <3>4. /\ tx.time = Len(chain) + 1
          /\ \A o, p \in DOMAIN tx.outputs : tx.outputs[o].key = tx.outputs[p].key => o = p
      BY <3>1, CarefulWrites DEF CarefulInv
    <3>5. QED BY <3>2, <3>3, <3>4 DEF CarefulInv, Clock, OnePerAddress
  <2>3. QED BY <2>1, <2>2
<1>3. QED BY <1>1, <1>2, TypeCorrect, CarefulInvIsOrderly, PTL DEF Spec

(* ... and no output of theirs is ever consumed twice.                      *)
THEOREM NeverSpentTwice == Careful => (Spec => []NoDoubleSpend)
<1> SUFFICES ASSUME Careful PROVE Spec => []NoDoubleSpend
  OBVIOUS
<1>1. Inv /\ Orderly => NoDoubleSpend
  BY DEF Inv
<1>2. QED BY <1>1, CarefulAreOrderly, Invariance, PTL

(* What the walk of FindUTXO returns is what an auditor who reads the whole *)
(* chain finds: the unspent outputs of the address, each once.              *)
LEMMA SoundIsExact == Sound => FindUTXOExact
<1> SUFFICES ASSUME Sound, NEW a \in Addresses
             PROVE  FindUTXO(a) = {<<p[1], 1, p[2]>> : p \in UnspentOutputs(a)}
  BY DEF FindUTXOExact
<1>1. ASSUME NEW v \in FindUTXO(a)
      PROVE  \E p \in UnspentOutputs(a) : v = <<p[1], 1, p[2]>>
  <2>1. /\ v \in (DOMAIN chain) \X {1} \X (1..2)
        /\ v[3] \in DOMAIN chain[v[1]].outputs
        /\ chain[v[1]].outputs[v[3]].key = a
    BY FindUTXOMeaning, FindUTXOType, SoundHalves DEF Sound
  <2>2. TxID(v[1]) = v[1]
    BY <2>1, SoundHalves DEF IDsAreHeights
  <2>3. ~Spent(v[1], v[3])
    BY <2>2, SpendableIsUnspent DEF Spent
  <2> DEFINE q == <<v[1], v[3]>>
  <2>4. q \in UnspentOutputs(a)
    BY <2>1, <2>3 DEF UnspentOutputs
  <2>5. v = <<q[1], 1, q[2]>>
    BY <2>1
  <2>6. QED BY <2>4, <2>5
<1>2. ASSUME NEW p \in UnspentOutputs(a)
      PROVE  <<p[1], 1, p[2]>> \in FindUTXO(a)
  <2>1. /\ p[1] \in DOMAIN chain /\ p[2] \in 1..2
        /\ p[2] \in DOMAIN chain[p[1]].outputs
        /\ chain[p[1]].outputs[p[2]].key = a
        /\ ~Spent(p[1], p[2])
    BY DEF UnspentOutputs
  <2>2. p[2] \in OwnedOutputs(p[1], a)
    BY <2>1 DEF OwnedOutputs, CanBeUnlocked
  <2>3. ~IsSpentTXO(p[1], p[2], a)
    <3> SUFFICES ASSUME IsSpentTXO(p[1], p[2], a) PROVE FALSE
      OBVIOUS
    <3> DEFINE in == InputFor(p[1], p[2], a)
    <3>1. PICK g \in p[1]+1 .. Len(chain) : in \in DOMAIN chain[g].inputs
      BY DEF IsSpentTXO
    <3>2. g \in DOMAIN chain
      BY <2>1, <3>1, ChainDomain DEF Sound
    <3>3. Outpoint(in) = <<TxID(p[1]), p[2]>>
      BY DEF Outpoint, InputFor
    <3>4. QED BY <2>1, <3>1, <3>2, <3>3 DEF Spent
  <2> DEFINE v == <<p[1], 1, p[2]>>
  <2>4. v \in (DOMAIN chain) \X {1} \X (1..2) /\ v[1] = p[1] /\ v[3] = p[2]
    BY <2>1
  <2> HIDE DEF v
  <2>5. v \in FindUTXO(a)
    BY <2>2, <2>3, <2>4, FindUTXOMeaning, SoundHalves DEF Sound
  <2>6. QED BY <2>5 DEF v
<1>3. QED BY <1>1, <1>2

(* Careful users read what they own.                                        *)
THEOREM FindUTXOIsExact == Careful => (Spec => []FindUTXOExact)
<1> SUFFICES ASSUME Careful PROVE Spec => []FindUTXOExact
  OBVIOUS
<1>1. Inv /\ Orderly => FindUTXOExact
  BY SoundIsExact DEF Inv, Sound
<1>2. QED BY <1>1, CarefulAreOrderly, Invariance, PTL

-----------------------------------------------------------------------------
(* The amounts.                                                             *)

Positive == \A n \in SendAmounts : n > 0

-----------------------------------------------------------------------------
(* With positive amounts no output ever pays nothing or less.               *)

(* A block that pays positive amounts keeps every output positive.          *)
LEMMA PositiveStep ==
  ASSUME TypeOK, PositiveOutputs, NEW tx, AddBlock(tx),
         \A o \in DOMAIN tx.outputs : tx.outputs[o].value > 0
  PROVE  PositiveOutputs'
<1>1. /\ DOMAIN chain = 1 .. Len(chain) /\ Len(chain) \in Nat
      /\ DOMAIN chain' = 1 .. Len(chain) + 1
      /\ \A h \in DOMAIN chain : chain'[h] = chain[h]
      /\ chain'[Len(chain) + 1] = tx
  BY AppendedChain, ChainDomain DEF AddBlock
<1>2. \A h \in DOMAIN chain' : h \in DOMAIN chain \/ h = Len(chain) + 1
  BY <1>1
<1>3. QED BY <1>1, <1>2 DEF PositiveOutputs

(* NewTransaction pays positive amounts: the one that was asked for and the *)
(* difference that is left.                                                 *)
LEMMA NewTransactionPositive ==
  ASSUME TypeOK, NEW from \in Addresses, NEW to \in Addresses,
         NEW amount \in Int, amount > 0,
         NEW taken \in SUBSET FindUTXO(from), NEW now
  PROVE  LET tx == NewTransaction(from, to, amount, taken, now)
         IN  \A o \in DOMAIN tx.outputs : tx.outputs[o].value > 0
<1> DEFINE out == NewTransaction(from, to, amount, taken, now).outputs
<1>1. Total(taken) \in Int
  BY TotalType
<1>2. CASE Total(taken) > amount
  BY <1>1, <1>2, NewOutputs
<1>3. CASE ~(Total(taken) > amount)
  BY <1>3, NewOutputs
<1>4. QED BY <1>2, <1>3

(* The menu lets a user type any amount; when she never types one that is   *)
(* zero or negative, every output of the chain pays a positive amount.      *)
THEOREM OutputsPositive == Positive => (Spec => []PositiveOutputs)
<1> SUFFICES ASSUME Positive PROVE Spec => []PositiveOutputs
  OBVIOUS
<1>1. Init => PositiveOutputs
  BY DEF Init, PositiveOutputs
<1>2. TypeOK /\ PositiveOutputs /\ [Next]_chain => PositiveOutputs'
  <2> SUFFICES ASSUME TypeOK, PositiveOutputs, [Next]_chain PROVE PositiveOutputs'
    OBVIOUS
  <2>1. CASE UNCHANGED chain
    BY <2>1 DEF PositiveOutputs
  <2>2. ASSUME NEW a, NEW data, NEW amount \in Int, amount > 0, NEW now,
               AddBlock(CoinbaseTx(a, data, amount, now))
        PROVE  PositiveOutputs'
    <3> DEFINE tx == CoinbaseTx(a, data, amount, now)
    <3>1. \A o \in DOMAIN tx.outputs : tx.outputs[o].value > 0
      BY <2>2 DEF CoinbaseTx
    <3> HIDE DEF tx
    <3>2. AddBlock(tx)
      BY <2>2 DEF tx
    <3>3. QED BY <3>1, <3>2, PositiveStep
  <2>3. ASSUME NEW a \in Addresses, CreateBlockChain(a)
        PROVE  PositiveOutputs'
    BY <2>2, <2>3 DEF CreateBlockChain, GenesisReward
  <2>4. ASSUME NEW a \in Addresses, NEW amount \in FundAmounts, AddFunds(a, amount)
        PROVE  PositiveOutputs'
    BY <2>2, <2>4, LedgerAssumption DEF AddFunds
  <2>5. ASSUME NEW from \in Addresses, NEW to \in Addresses, NEW amount \in SendAmounts,
               Send(from, to, amount)
        PROVE  PositiveOutputs'
    <3> DEFINE taken == FindSpendableOutputs(from, amount)
    <3>1. PICK now \in Now : AddBlock(NewTransaction(from, to, amount, taken, now))
      BY <2>5 DEF Send
    <3>2. taken \in SUBSET FindUTXO(from)
      BY SpendableIsUTXO
    <3>3. amount \in Int /\ amount > 0
      BY LedgerAssumption DEF Positive
    <3> DEFINE tx == NewTransaction(from, to, amount, taken, now)
    <3> HIDE DEF taken
    <3>4. \A o \in DOMAIN tx.outputs : tx.outputs[o].value > 0
      BY <3>2, <3>3, NewTransactionPositive
    <3> HIDE DEF tx
    <3>5. QED BY <3>1, <3>4, PositiveStep DEF tx
  <2>6. QED BY <2>1, <2>3, <2>4, <2>5 DEF Next, SendCommand, SendInteractive
<1>3. QED BY <1>1, <1>2, TypeCorrect, PTL DEF Spec

-----------------------------------------------------------------------------
(* How one more block changes what FindUTXO returns.                        *)

UTXOMeans ==
    \A a \in Addresses :
        FindUTXO(a) = {v \in (DOMAIN chain) \X {1} \X (1..2) :
                          v[3] \in OwnedOutputs(v[1], a) /\ ~IsSpentTXO(v[1], v[3], a)}

(* FindUTXO said without the walk, as an equality of sets.                  *)
LEMMA UTXOMeaning == Sound => UTXOMeans
<1> SUFFICES ASSUME Sound, NEW a \in Addresses
             PROVE  FindUTXO(a) = {v \in (DOMAIN chain) \X {1} \X (1..2) :
                       v[3] \in OwnedOutputs(v[1], a) /\ ~IsSpentTXO(v[1], v[3], a)}
  BY DEF UTXOMeans
<1>1. \A v : v \in FindUTXO(a) <=>
           /\ v \in (DOMAIN chain) \X {1} \X (1..2)
           /\ v[3] \in OwnedOutputs(v[1], a)
           /\ ~IsSpentTXO(v[1], v[3], a)
  BY FindUTXOMeaning, SoundHalves DEF Sound
<1>2. QED BY <1>1

(* The visits a transaction consumes, and the ones its own outputs add.     *)
Consumed(tx, a) ==
    {v \in FindUTXO(a) :
        ~IsCoinbase(tx) /\ [id |-> v[1], out |-> v[3], sig |-> a] \in DOMAIN tx.inputs}

Paid(tx, a) == {<<Len(chain) + 1, 1, o>> : o \in {p \in DOMAIN tx.outputs : tx.outputs[p].key = a}}

(* A block takes from FindUTXO what its transaction consumes and adds what  *)
(* it pays.                                                                 *)
LEMMA NextUTXO ==
  ASSUME Sound, Sound', NEW tx, Fits(tx), AddBlock(tx), NEW a \in Addresses
  PROVE  FindUTXO(a)' = (FindUTXO(a) \ Consumed(tx, a)) \cup Paid(tx, a)
<1>0. PICK n : n = Len(chain) + 1
  OBVIOUS
<1>1. Sound'
  OBVIOUS
<1>2. /\ DOMAIN chain = 1 .. Len(chain) /\ Len(chain) \in Nat
      /\ n = Len(chain) + 1 /\ n \in Nat
      /\ DOMAIN chain' = 1 .. n /\ Len(chain') = n
      /\ \A h \in DOMAIN chain : chain'[h] = chain[h]
      /\ chain'[n] = tx
  BY <1>0, AppendedChain, ChainDomain DEF AddBlock, Sound
<1>3. Sound' => UTXOMeans'
  BY UTXOMeaning, PTL
<1>4. FindUTXO(a)' = {v \in (DOMAIN chain') \X {1} \X (1..2) :
                         v[3] \in OwnedOutputs(v[1], a)' /\ ~IsSpentTXO(v[1], v[3], a)'}
  BY <1>1, <1>3 DEF UTXOMeans
<1>5. FindUTXO(a) = {v \in (DOMAIN chain) \X {1} \X (1..2) :
                         v[3] \in OwnedOutputs(v[1], a) /\ ~IsSpentTXO(v[1], v[3], a)}
  BY UTXOMeaning DEF UTXOMeans
<1>6. \A h \in DOMAIN chain : OwnedOutputs(h, a)' = OwnedOutputs(h, a)
  BY <1>2 DEF OwnedOutputs, CanBeUnlocked
<1>7. OwnedOutputs(n, a)' = {p \in DOMAIN tx.outputs : tx.outputs[p].key = a}
  BY <1>2 DEF OwnedOutputs, CanBeUnlocked
<1>8. Sound' => IDsAreHeights'
  BY SoundHalves, PTL
<1>9. \A h \in DOMAIN chain, o \in 1..2 :
        /\ InputFor(h, o, a) = [id |-> h, out |-> o, sig |-> a]
        /\ InputFor(h, o, a)' = [id |-> h, out |-> o, sig |-> a]
  <2>1. \A h \in DOMAIN chain : TxID(h) = h /\ TxID(h)' = h
    BY <1>1, <1>2, <1>8, SoundHalves DEF IDsAreHeights
  <2>2. QED BY <2>1 DEF InputFor
<1>10. ASSUME NEW h \in DOMAIN chain, NEW o \in 1..2
       PROVE  IsSpentTXO(h, o, a)' <=>
                \/ IsSpentTXO(h, o, a)
                \/ ~IsCoinbase(tx) /\ [id |-> h, out |-> o, sig |-> a] \in DOMAIN tx.inputs
  <2> DEFINE in == [id |-> h, out |-> o, sig |-> a]
  <2>1. IsSpentTXO(h, o, a) <=>
          \E g \in h+1 .. Len(chain) : ~IsCoinbase(chain[g]) /\ in \in DOMAIN chain[g].inputs
    BY <1>9 DEF IsSpentTXO
  <2>2. IsSpentTXO(h, o, a)' <=>
          \E g \in h+1 .. n : ~IsCoinbase(chain'[g]) /\ in \in DOMAIN chain'[g].inputs
    BY <1>2, <1>9 DEF IsSpentTXO, IsCoinbase
  <2>3. \A g \in h+1 .. n : g \in h+1 .. Len(chain) \/ g = n
    BY <1>2
  <2>4. \A g \in h+1 .. Len(chain) : g \in DOMAIN chain /\ g \in h+1 .. n
    BY <1>2
  <2>5. n \in h+1 .. n
    BY <1>2
  <2> HIDE DEF in
  <2>6. QED BY <1>2, <2>1, <2>2, <2>3, <2>4, <2>5 DEF in
<1>11. \A o \in 1..2 : ~IsSpentTXO(n, o, a)'
  BY <1>2 DEF IsSpentTXO
<1>12. \A p \in DOMAIN tx.outputs : p \in 1..2
  BY DEF Fits, TransactionOK
<1>13. ASSUME NEW v
       PROVE  v \in FindUTXO(a)' <=> v \in (FindUTXO(a) \ Consumed(tx, a)) \cup Paid(tx, a)
  <2>1. CASE v \in (DOMAIN chain) \X {1} \X (1..2)
    <3>1. v \notin Paid(tx, a)
      BY <1>0, <1>2, <2>1 DEF Paid
    <3>2. v[1] \in DOMAIN chain /\ v[3] \in 1..2 /\ v \in (DOMAIN chain') \X {1} \X (1..2)
      BY <1>2, <2>1
    <3>3. v \in FindUTXO(a)' <=>
            v[3] \in OwnedOutputs(v[1], a)' /\ ~IsSpentTXO(v[1], v[3], a)'
      BY <1>4, <3>2
    <3>4. v \in FindUTXO(a) <=>
            v[3] \in OwnedOutputs(v[1], a) /\ ~IsSpentTXO(v[1], v[3], a)
      BY <1>5, <2>1
    <3>5. QED BY <1>6, <1>10, <3>1, <3>2, <3>3, <3>4 DEF Consumed
  <2>2. CASE v \in {n} \X {1} \X (1..2)
    <3>1. v = <<n, 1, v[3]>> /\ v[1] = n /\ v[3] \in 1..2
          /\ v \in (DOMAIN chain') \X {1} \X (1..2)
      BY <1>2, <2>2
    <3>2. v \notin FindUTXO(a)
      BY <1>2, <1>5, <3>1
    <3>3. v \in FindUTXO(a)' <=> v[3] \in {p \in DOMAIN tx.outputs : tx.outputs[p].key = a}
      BY <1>4, <1>7, <1>11, <3>1
    <3>4. v \in Paid(tx, a) <=> v[3] \in {p \in DOMAIN tx.outputs : tx.outputs[p].key = a}
      BY <1>0, <3>1 DEF Paid
    <3>5. QED BY <3>2, <3>3, <3>4
  <2>3. CASE v \notin (DOMAIN chain) \X {1} \X (1..2) /\ v \notin {n} \X {1} \X (1..2)
    <3>1. v \notin FindUTXO(a) /\ v \notin FindUTXO(a)'
      BY <1>2, <1>4, <1>5, <2>3
    <3>2. v \notin Paid(tx, a)
      BY <1>0, <1>12, <2>3 DEF Paid
    <3>3. QED BY <3>1, <3>2
  <2>4. QED BY <2>1, <2>2, <2>3
<1>14. QED BY <1>13

-----------------------------------------------------------------------------
(* How one more block changes a balance.                                    *)

(* The value of a set of outputs is the value of a part and of the rest.    *)
LEMMA TotalSplit ==
  ASSUME TypeOK, NEW a, NEW S \in SUBSET FindUTXO(a), NEW T \in SUBSET S
  PROVE  Total(S) = Total(T) + Total(S \ T)
<1> DEFINE f(X) == [v \in X |-> Value(v)]
<1>1. IsFiniteSet(S) /\ IsFiniteSet(T) /\ IsFiniteSet(S \ T)
  BY TotalType, FS_Subset
<1>2. \A v \in S : f(S)[v] \in Int
  BY FindUTXOType
<1>3. /\ \A v \in T : f(S)[v] = f(T)[v]
      /\ \A v \in S \ T : f(S)[v] = f(S \ T)[v]
  OBVIOUS
<1> DEFINE g == f(S)   gT == f(T)   gR == f(S \ T)
<1>4. /\ \A v \in S : g[v] \in Int
      /\ \A v \in T : g[v] = gT[v]
      /\ \A v \in S \ T : g[v] = gR[v]
  BY <1>2, <1>3
<1>5. /\ Total(S) = SumFunctionOnSet(g, S)
      /\ Total(T) = SumFunctionOnSet(gT, T)
      /\ Total(S \ T) = SumFunctionOnSet(gR, S \ T)
  BY DEF Total
<1> HIDE DEF g, gT, gR
<1>6. SumFunctionOnSet(g, S) = SumFunctionOnSet(g, T) + SumFunctionOnSet(g, S \ T)
  BY <1>1, <1>4, SumSplit
<1>7. SumFunctionOnSet(g, T) = SumFunctionOnSet(gT, T)
  BY <1>1, <1>4, SumAgree
<1>8. SumFunctionOnSet(g, S \ T) = SumFunctionOnSet(gR, S \ T)
  BY <1>1, <1>4, SumAgree
<1>9. QED BY <1>5, <1>6, <1>7, <1>8

(* No outputs are worth nothing.                                            *)
LEMMA TotalEmpty == Total({}) = 0
BY SumEmpty DEF Total

(* A balance is the sum over what the block left of the old visits and over *)
(* what it added.                                                           *)
LEMMA BalanceSum ==
  ASSUME Sound, Sound', NEW tx, Fits(tx), AddBlock(tx), NEW a \in Addresses
  PROVE  \E f : /\ GetBalance(a)' = SumFunctionOnSet(f, FindUTXO(a)')
                /\ \A v \in FindUTXO(a) \ Consumed(tx, a) : f[v] = Value(v)
                /\ \A v \in Paid(tx, a) : f[v] = tx.outputs[v[3]].value
<1> DEFINE f == [v \in FindUTXO(a)' |-> Value(v)']
<1>1. GetBalance(a)' = SumFunctionOnSet(f, FindUTXO(a)')
  BY DEF GetBalance, Total
<1>2. FindUTXO(a)' = (FindUTXO(a) \ Consumed(tx, a)) \cup Paid(tx, a)
  BY NextUTXO
<1>3. /\ \A h \in DOMAIN chain : chain'[h] = chain[h]
      /\ chain'[Len(chain) + 1] = tx
  BY AppendedChain DEF AddBlock, Sound
<1>4. ASSUME NEW v \in FindUTXO(a) \ Consumed(tx, a)
      PROVE  f[v] = Value(v)
  BY <1>2, <1>3, FindUTXOType DEF Value, Sound
<1>5. ASSUME NEW v \in Paid(tx, a)
      PROVE  f[v] = tx.outputs[v[3]].value
  <2>1. v[1] = Len(chain) + 1
    BY DEF Paid
  <2>2. QED BY <1>2, <1>3, <2>1 DEF Value
<1>6. QED BY <1>1, <1>4, <1>5

(* What a block leaves of the old outputs is worth the old balance less     *)
(* what it consumed.                                                        *)
LEMMA BalanceKept ==
  ASSUME Sound, NEW a, NEW C \in SUBSET FindUTXO(a), NEW f,
         \A v \in FindUTXO(a) \ C : f[v] = Value(v)
  PROVE  /\ SumFunctionOnSet(f, FindUTXO(a) \ C) = GetBalance(a) - Total(C)
         /\ GetBalance(a) \in Int /\ Total(C) \in Int
         /\ IsFiniteSet(FindUTXO(a) \ C)
<1> DEFINE K == FindUTXO(a) \ C
           g == [v \in K |-> Value(v)]
<1>1. TypeOK
  BY DEF Sound
<1>2. K \in SUBSET FindUTXO(a)
  OBVIOUS
<1>3. IsFiniteSet(K) /\ Total(K) \in Int /\ Total(C) \in Int
  BY <1>1, <1>2, TotalType
<1>4. GetBalance(a) = Total(C) + Total(K)
  BY <1>1, TotalSplit DEF GetBalance
<1>5. Total(K) = SumFunctionOnSet(g, K)
  BY DEF Total
<1>6. \A v \in K : f[v] = g[v]
  OBVIOUS
<1> HIDE DEF g, K
<1>7. SumFunctionOnSet(f, K) = SumFunctionOnSet(g, K)
  BY <1>3, <1>6, SumAgree
<1>8. QED BY <1>3, <1>4, <1>5, <1>7 DEF K

(* The balance of an address the block does not pay.                        *)
LEMMA BalanceUnpaid ==
  ASSUME Sound, Sound', NEW tx, Fits(tx), AddBlock(tx), NEW a \in Addresses,
         \A o \in DOMAIN tx.outputs : tx.outputs[o].key # a
  PROVE  GetBalance(a)' = GetBalance(a) - Total(Consumed(tx, a))
<1>1. PICK f : /\ GetBalance(a)' = SumFunctionOnSet(f, FindUTXO(a)')
               /\ \A v \in FindUTXO(a) \ Consumed(tx, a) : f[v] = Value(v)
  BY BalanceSum
<1>2. FindUTXO(a)' = FindUTXO(a) \ Consumed(tx, a)
  BY NextUTXO DEF Paid
<1>3. Consumed(tx, a) \in SUBSET FindUTXO(a)
  BY DEF Consumed
<1>4. QED BY <1>1, <1>2, <1>3, BalanceKept

(* The balance of an address the block pays with output o.                  *)
LEMMA BalancePaid ==
  ASSUME Sound, Sound', NEW tx, Fits(tx), AddBlock(tx), NEW a \in Addresses,
         NEW o \in DOMAIN tx.outputs, tx.outputs[o].key = a
  PROVE  GetBalance(a)' = GetBalance(a) - Total(Consumed(tx, a)) + tx.outputs[o].value
<1> DEFINE K == FindUTXO(a) \ Consumed(tx, a)
           u == <<Len(chain) + 1, 1, o>>
<1>1. PICK f : /\ GetBalance(a)' = SumFunctionOnSet(f, FindUTXO(a)')
               /\ \A v \in K : f[v] = Value(v)
               /\ \A v \in Paid(tx, a) : f[v] = tx.outputs[v[3]].value
  BY BalanceSum
<1>2. Paid(tx, a) = {u}
  <2>1. Sound' => OnePerAddress'
    BY SoundHalves, PTL
  <2>2. Len(chain) + 1 \in DOMAIN chain' /\ chain'[Len(chain) + 1] = tx
    BY AppendedChain, ChainDomain DEF AddBlock, Sound
  <2>3. \A p \in DOMAIN tx.outputs : tx.outputs[p].key = a => p = o
    BY <2>1, <2>2 DEF OnePerAddress
  <2>4. QED BY <2>3 DEF Paid
<1>3. FindUTXO(a)' = K \cup {u}
  BY <1>2, NextUTXO
<1>4. f[u] = tx.outputs[o].value
  BY <1>1, <1>2
<1>5. tx.outputs[o].value \in Int
  <2>1. tx.outputs \in Seq(TxOutput)
    BY DEF Fits, TransactionOK
  <2>2. tx.outputs[o] \in TxOutput
    BY <2>1
  <2>3. QED BY <2>2 DEF TxOutput
<1>6. u \notin K
  <2>1. Len(chain) + 1 \notin DOMAIN chain
    BY ChainDomain DEF Sound
  <2>2. QED BY <2>1, FindUTXOType DEF Sound
<1>7. Consumed(tx, a) \in SUBSET FindUTXO(a)
  BY DEF Consumed
<1>8. /\ SumFunctionOnSet(f, K) = GetBalance(a) - Total(Consumed(tx, a))
      /\ IsFiniteSet(K)
      /\ GetBalance(a) \in Int /\ Total(Consumed(tx, a)) \in Int
  <2>1. \A v \in FindUTXO(a) \ Consumed(tx, a) : f[v] = Value(v)
    BY <1>1
  <2>2. QED BY <1>7, <2>1, BalanceKept
<1>9. \A v \in K : Value(v) \in Int
  BY FindUTXOType DEF Sound
<1> HIDE DEF K, u
<1>10. SumFunctionOnSet(f, K \cup {u}) = f[u] + SumFunctionOnSet(f, K)
  <2>1. IsFiniteSet(K \cup {u})
    BY <1>8, FS_AddElement
  <2>2. \A v \in K \cup {u} : f[v] \in Int
    BY <1>1, <1>4, <1>5, <1>9
  <2>3. (K \cup {u}) \ {u} = K
    BY <1>6
  <2>4. u \in K \cup {u}
    OBVIOUS
  <2>5. SumFunctionOnSet(f, K \cup {u}) = f[u] + SumFunctionOnSet(f, (K \cup {u}) \ {u})
    BY <2>1, <2>2, <2>4, SumRemove
  <2>6. QED BY <2>3, <2>5
<1>11. QED BY <1>1, <1>3, <1>4, <1>5, <1>8, <1>10

-----------------------------------------------------------------------------
(* Every command is a step of the book.                                     *)

(* Balances are integers.                                                   *)
LEMMA BalanceType ==
  ASSUME TypeOK
  PROVE  \A a : GetBalance(a) \in Int
BY TotalType DEF GetBalance

(* A coinbase transaction credits its recipient and nobody else.            *)
LEMMA CoinbaseCredits ==
  ASSUME Sound, Sound', NEW to \in Addresses, NEW data, NEW amount \in Int, NEW now,
         LET tx == CoinbaseTx(to, data, amount, now) IN Fits(tx) /\ AddBlock(tx)
  PROVE  balance' = [balance EXCEPT ![to] = @ + amount]
<1> DEFINE tx == CoinbaseTx(to, data, amount, now)
<1>1. Fits(tx) /\ AddBlock(tx)
  OBVIOUS
<1>2. IsCoinbase(tx)
  BY CoinbaseIsCoinbase
<1>3. DOMAIN tx.outputs = {1} /\ tx.outputs[1].key = to /\ tx.outputs[1].value = amount
  BY DEF CoinbaseTx
<1> HIDE DEF tx
<1>4. \A a : Consumed(tx, a) = {}
  BY <1>2 DEF Consumed
<1>5. GetBalance(to)' = GetBalance(to) + amount
  <2>1. GetBalance(to)' = GetBalance(to) - Total(Consumed(tx, to)) + tx.outputs[1].value
    <3>1. 1 \in DOMAIN tx.outputs /\ tx.outputs[1].key = to
      BY <1>3
    <3>2. QED BY <1>1, <3>1, BalancePaid
  <2>2. Total(Consumed(tx, to)) = 0 /\ GetBalance(to) \in Int /\ tx.outputs[1].value = amount
    BY <1>3, <1>4, TotalEmpty, BalanceType DEF Sound
  <2>3. QED BY <2>1, <2>2
<1>6. ASSUME NEW a \in Addresses, a # to
      PROVE  GetBalance(a)' = GetBalance(a)
  <2>1. GetBalance(a)' = GetBalance(a) - Total(Consumed(tx, a))
    BY <1>1, <1>3, <1>6, BalanceUnpaid
  <2>2. QED BY <1>4, <2>1, TotalEmpty, BalanceType DEF Sound
<1>7. QED BY <1>5, <1>6 DEF balance

(* A send is no coinbase transaction and consumes exactly the outputs it    *)
(* took.                                                                    *)
LEMMA SendConsumes ==
  ASSUME Sound, NEW from \in Addresses, NEW to, NEW amount, NEW now,
         NEW taken \in SUBSET FindUTXO(from), NEW tx,
         tx = NewTransaction(from, to, amount, taken, now)
  PROVE  /\ ~IsCoinbase(tx)
         /\ Consumed(tx, from) = taken
         /\ \A a \in Addresses \ {from} : Consumed(tx, a) = {}
<1>1. DOMAIN tx.inputs = {InputFor(v[1], v[3], from) : v \in taken}
  BY DEF NewTransaction
<1>2. \A v \in FindUTXO(from) : /\ v \in (DOMAIN chain) \X {1} \X (1..2)
                                /\ InputFor(v[1], v[3], from)
                                     = [id |-> v[1], out |-> v[3], sig |-> from]
  <2>1. \A v \in FindUTXO(from) : v \in (DOMAIN chain) \X {1} \X (1..2)
    BY FindUTXOMeaning, SoundHalves DEF Sound
  <2>2. \A h \in DOMAIN chain : TxID(h) = h
    BY SoundHalves DEF IDsAreHeights
  <2>3. QED BY <2>1, <2>2 DEF InputFor
<1>3. ~IsCoinbase(tx)
  <2> SUFFICES ASSUME NEW in \in DOMAIN tx.inputs PROVE in.id # 0
    BY DEF IsCoinbase
  <2>1. PICK v \in taken : in = InputFor(v[1], v[3], from)
    BY <1>1
  <2>2. v \in (DOMAIN chain) \X {1} \X (1..2) /\ in = [id |-> v[1], out |-> v[3], sig |-> from]
    BY <1>2, <2>1
  <2>3. in.id = v[1] /\ v[1] \in DOMAIN chain
    BY <2>2
  <2>4. QED BY <2>3, ChainDomain DEF Sound
<1>4. Consumed(tx, from) = taken
  <2>1. ASSUME NEW v \in taken PROVE v \in Consumed(tx, from)
    BY <1>1, <1>2, <1>3 DEF Consumed
  <2>2. ASSUME NEW v \in Consumed(tx, from) PROVE v \in taken
    <3>1. v \in FindUTXO(from) /\ [id |-> v[1], out |-> v[3], sig |-> from] \in DOMAIN tx.inputs
      BY DEF Consumed
    <3>2. PICK w \in taken : [id |-> v[1], out |-> v[3], sig |-> from]
                                = InputFor(w[1], w[3], from)
      BY <1>1, <3>1
    <3>3. [id |-> v[1], out |-> v[3], sig |-> from] = [id |-> w[1], out |-> w[3], sig |-> from]
      BY <1>2, <3>2
    <3>4. v[1] = w[1] /\ v[3] = w[3]
      BY <3>3
    <3>5. v = w
      BY <1>2, <3>1, <3>4
    <3>6. QED BY <3>5
  <2>3. QED BY <2>1, <2>2
<1>5. ASSUME NEW a \in Addresses, a # from
      PROVE  Consumed(tx, a) = {}
  <2> SUFFICES ASSUME NEW v, [id |-> v[1], out |-> v[3], sig |-> a] \in DOMAIN tx.inputs
               PROVE  FALSE
    BY DEF Consumed
  <2>1. PICK w \in taken : [id |-> v[1], out |-> v[3], sig |-> a]
                              = [id |-> w[1], out |-> w[3], sig |-> from]
    BY <1>1, <1>2
  <2>2. a = from
    BY <2>1
  <2>3. QED BY <1>5, <2>2
<1>6. QED BY <1>3, <1>4, <1>5

(* send moves its amount: the sender consumes outputs worth acc and gets    *)
(* acc - amount back.  Also to herself, as long as there is no change.      *)
LEMMA SendMoves ==
  ASSUME Sound, Sound', NEW from \in Addresses, NEW to \in Addresses, NEW amount \in Int,
         NEW taken \in SUBSET FindUTXO(from), Total(taken) >= amount, NEW now, NEW tx,
         tx = NewTransaction(from, to, amount, taken, now), Fits(tx), AddBlock(tx)
  PROVE  balance' = [[balance EXCEPT ![from] = @ - amount] EXCEPT ![to] = @ + amount]
<1> DEFINE acc == Total(taken)
<1>1. /\ tx.outputs[1].value = amount /\ tx.outputs[1].key = to
      /\ acc > amount => /\ DOMAIN tx.outputs = {1, 2}
                         /\ tx.outputs[2].value = acc - amount
                         /\ tx.outputs[2].key = from
      /\ ~(acc > amount) => DOMAIN tx.outputs = {1}
  BY NewOutputs
<1>2. 1 \in DOMAIN tx.outputs
  BY <1>1
<1>3. /\ Consumed(tx, from) = taken
      /\ \A a \in Addresses \ {from} : Consumed(tx, a) = {}
  BY SendConsumes
<1>4. acc \in Int /\ \A a \in Addresses : GetBalance(a) \in Int
  BY TotalType, BalanceType DEF Sound
<1>5. GetBalance(to)' = GetBalance(to) - Total(Consumed(tx, to)) + amount
  BY <1>1, <1>2, BalancePaid
<1>6. ASSUME NEW a \in Addresses, a # from, a # to
      PROVE  GetBalance(a)' = GetBalance(a)
  <2>1. GetBalance(a)' = GetBalance(a) - Total(Consumed(tx, a))
    BY <1>1, <1>6, BalanceUnpaid
  <2>2. QED BY <1>3, <1>4, <1>6, <2>1, TotalEmpty
<1>7. CASE from = to
  <2>1. ~(acc > amount)
    <3>1. Sound' => OnePerAddress'
      BY SoundHalves, PTL
    <3>2. Len(chain) + 1 \in DOMAIN chain' /\ chain'[Len(chain) + 1] = tx
      BY AppendedChain, ChainDomain DEF AddBlock, Sound
    <3>3. QED BY <1>1, <1>7, <3>1, <3>2 DEF OnePerAddress
  <2>2. acc = amount
    BY <1>4, <2>1
  <2>3. GetBalance(to)' = GetBalance(to)
    BY <1>3, <1>4, <1>5, <1>7, <2>2
  <2>4. QED BY <1>4, <1>6, <1>7, <2>3 DEF balance
<1>8. CASE from # to
  <2>1. GetBalance(from)' = GetBalance(from) - amount
    <3>1. CASE acc > amount
      <4>1. GetBalance(from)' = GetBalance(from) - Total(Consumed(tx, from)) + tx.outputs[2].value
        BY <1>1, <3>1, BalancePaid
      <4>2. QED BY <1>1, <1>3, <1>4, <3>1, <4>1
    <3>2. CASE ~(acc > amount)
      <4>1. GetBalance(from)' = GetBalance(from) - Total(Consumed(tx, from))
        BY <1>1, <1>8, <3>2, BalanceUnpaid
      <4>2. acc = amount
        BY <1>4, <3>2
      <4>3. QED BY <1>3, <4>1, <4>2
    <3>3. QED BY <3>1, <3>2
  <2>2. GetBalance(to)' = GetBalance(to) + amount
    <3>1. Consumed(tx, to) = {}
      BY <1>3, <1>8
    <3>2. Total(Consumed(tx, to)) = 0
      BY <3>1, TotalEmpty
    <3>3. QED BY <1>4, <1>5, <3>2
  <2>3. QED BY <1>6, <1>8, <2>1, <2>2 DEF balance
<1>9. QED BY <1>7, <1>8

(* Balances do not change without a block.                                  *)
LEMMA BalancesStay ==
  ASSUME UNCHANGED chain
  PROVE  balance' = balance /\ \A a : GetBalance(a)' = GetBalance(a)
BY DEF balance, GetBalance, Total, FindUTXO, FindUnspentTransactions, OwnedOutputs,
       CanBeUnlocked, IsSpentTXO, IsCoinbase, InputFor, TxID, Value

(* Without worthless outputs, some of an address's outputs are worth no     *)
(* more than all of them.                                                   *)
LEMMA PartIsWorthLess ==
  ASSUME TypeOK, PositiveOutputs, NEW a, NEW taken \in SUBSET FindUTXO(a)
  PROVE  Total(taken) <= GetBalance(a)
<1> DEFINE K == FindUTXO(a) \ taken
           g == [v \in K |-> Value(v)]
<1>1. GetBalance(a) = Total(taken) + Total(K) /\ Total(taken) \in Int
  BY TotalSplit, TotalType DEF GetBalance
<1>2. IsFiniteSet(K)
  BY TotalType
<1>3. \A v \in K : g[v] \in Nat
  BY FindUTXOType DEF PositiveOutputs, Value
<1>4. Total(K) = SumFunctionOnSet(g, K)
  BY DEF Total
<1> HIDE DEF K, g
<1>5. Total(K) \in Nat
  BY <1>2, <1>3, <1>4, SumNonNegative
<1>6. QED BY <1>1, <1>5

-----------------------------------------------------------------------------
(* Conservation of coins.                                                   *)

(* What the coinbase transactions paid grows with new coins and otherwise   *)
(* not.                                                                     *)
LEMMA NextSupply ==
  ASSUME TypeOK, NEW tx, TransactionOK(tx), AddBlock(tx)
  PROVE  /\ Supply \in Int
         /\ Supply' = Supply + IF IsCoinbase(tx) THEN tx.outputs[1].value ELSE 0
<1> DEFINE n == Len(chain) + 1
           S == DOMAIN chain
           f == [h \in S |-> IF IsCoinbase(chain[h]) THEN chain[h].outputs[1].value ELSE 0]
           g == [h \in DOMAIN chain' |->
                    IF IsCoinbase(chain'[h]) THEN chain'[h].outputs[1].value ELSE 0]
<1>1. /\ S = 1 .. Len(chain) /\ Len(chain) \in Nat /\ IsFiniteSet(S)
      /\ DOMAIN chain' = 1 .. n
      /\ \A h \in S : chain'[h] = chain[h]
      /\ chain'[n] = tx
  BY AppendedChain, ChainDomain DEF AddBlock
<1>2. ASSUME NEW t, TransactionOK(t)
      PROVE  t.outputs[1].value \in Int
  <2>1. t.outputs \in Seq(TxOutput) /\ 1 \in DOMAIN t.outputs
    BY <1>2 DEF TransactionOK
  <2>2. t.outputs[1] \in TxOutput
    BY <2>1
  <2>3. QED BY <2>2 DEF TxOutput
<1>3. \A h \in S : TransactionOK(chain[h])
  BY DEF TypeOK
<1>4. \A h \in S : f[h] \in Int
  BY <1>2, <1>3
<1>5. /\ g[n] = IF IsCoinbase(tx) THEN tx.outputs[1].value ELSE 0
      /\ g[n] \in Int
      /\ \A h \in S : g[h] = f[h]
  BY <1>1, <1>2
<1>6. Supply = SumFunctionOnSet(f, S) /\ Supply' = SumFunctionOnSet(g, 1 .. n)
  BY <1>1 DEF Supply, IsCoinbase
<1>7. 1 .. n = S \cup {n} /\ n \notin S /\ (1 .. n) \ {n} = S
  BY <1>1
<1> HIDE DEF f, g, S, n
<1>8. IsFiniteSet(1 .. n) /\ \A h \in 1 .. n : g[h] \in Int
  <2>1. IsFiniteSet(S \cup {n})
    BY <1>1, FS_AddElement
  <2>2. \A h \in 1 .. n : h \in S \/ h = n
    BY <1>7
  <2>3. QED BY <1>4, <1>5, <1>7, <2>1, <2>2
<1>9. SumFunctionOnSet(g, 1 .. n) = g[n] + SumFunctionOnSet(g, S)
  BY <1>7, <1>8, SumRemove
<1>10. SumFunctionOnSet(g, S) = SumFunctionOnSet(f, S)
  BY <1>1, <1>5, SumAgree
<1>11. SumFunctionOnSet(f, S) \in Int
  BY <1>1, <1>4, SumType
<1>12. QED BY <1>5, <1>6, <1>9, <1>10, <1>11

(* What a balance gains the sum of the balances gains.                      *)
LEMMA SumOfBalances ==
  ASSUME NEW f \in [Addresses -> Int], NEW b \in Addresses, NEW d \in Int
  PROVE  /\ SumFunctionOnSet([f EXCEPT ![b] = @ + d], Addresses)
              = SumFunctionOnSet(f, Addresses) + d
         /\ SumFunctionOnSet(f, Addresses) \in Int
         /\ [f EXCEPT ![b] = @ + d] \in [Addresses -> Int]
<1> DEFINE g == [f EXCEPT ![b] = @ + d]
<1>1. g \in [Addresses -> Int] /\ g[b] = f[b] + d /\ \A a \in Addresses : a # b => g[a] = f[a]
  OBVIOUS
<1> HIDE DEF g
<1>2. IsFiniteSet(Addresses)
  BY LedgerAssumption
<1>3. SumFunctionOnSet(g, Addresses) = SumFunctionOnSet(f, Addresses) + (g[b] - f[b])
  <2>1. SumFunctionOnSet(g, Addresses) = g[b] + SumFunctionOnSet(g, Addresses \ {b})
    BY <1>1, <1>2, SumRemove
  <2>2. SumFunctionOnSet(f, Addresses) = f[b] + SumFunctionOnSet(f, Addresses \ {b})
    BY <1>2, SumRemove
  <2>3. IsFiniteSet(Addresses \ {b}) /\ \A a \in Addresses \ {b} : f[a] \in Int
    BY <1>2, FS_Subset
  <2>4. SumFunctionOnSet(g, Addresses \ {b}) = SumFunctionOnSet(f, Addresses \ {b})
    BY <1>1, <2>3, SumAgree
  <2>5. SumFunctionOnSet(f, Addresses \ {b}) \in Int
    BY <2>3, SumType
  <2>6. f[b] \in Int /\ g[b] \in Int
    BY <1>1
  <2>7. QED BY <2>1, <2>2, <2>4, <2>5, <2>6
<1>4. SumFunctionOnSet(f, Addresses) \in Int
  BY <1>2, SumType
<1>5. SumFunctionOnSet(g, Addresses) = SumFunctionOnSet(f, Addresses) + d
  BY <1>1, <1>3, <1>4
<1>6. QED BY <1>1, <1>4, <1>5, Zenon DEF g

(* Coins are conserved by every block that fits an orderly chain.           *)
LEMMA ConservedStep ==
  ASSUME Sound, Sound', Conserved, NEW tx, Fits(tx), AddBlock(tx), Minted(tx) \/ Sent(tx)
  PROVE  Conserved'
<1>1. /\ Supply \in Int
      /\ Supply' = Supply + IF IsCoinbase(tx) THEN tx.outputs[1].value ELSE 0
  BY NextSupply DEF Sound, Fits
<1>2. balance \in [Addresses -> Int]
  BY BalanceType DEF balance, Sound
<1>3. SumFunctionOnSet(balance, Addresses) = Supply
  BY DEF Conserved, balance
<1>4. SumFunctionOnSet(balance', Addresses) = Supply'
  <2>1. CASE Minted(tx)
    <3>1. PICK to \in Addresses, data \in {"genesis", "reward"}, amount \in Int, now \in Now :
             tx = CoinbaseTx(to, data, amount, now)
      BY <2>1 DEF Minted
    <3>2. balance' = [balance EXCEPT ![to] = @ + amount]
      BY <3>1, CoinbaseCredits
    <3>3. IsCoinbase(tx) /\ tx.outputs[1].value = amount
      BY <3>1, CoinbaseIsCoinbase DEF CoinbaseTx
    <3>4. Supply' = Supply + amount
      BY <1>1, <3>3
    <3>5. SumFunctionOnSet(balance', Addresses) = SumFunctionOnSet(balance, Addresses) + amount
      BY <1>2, <3>2, SumOfBalances
    <3>6. QED BY <1>3, <3>4, <3>5
  <2>2. CASE Sent(tx)
    <3>1. PICK from \in Addresses, to \in Addresses, amount \in SendAmounts, now \in Now :
             /\ Total(FindSpendableOutputs(from, amount)) >= amount
             /\ tx = NewTransaction(from, to, amount, FindSpendableOutputs(from, amount), now)
      BY <2>2 DEF Sent
    <3>2. amount \in Int /\ FindSpendableOutputs(from, amount) \in SUBSET FindUTXO(from)
      BY SpendableIsUTXO, LedgerAssumption
    <3> DEFINE f == [balance EXCEPT ![from] = @ - amount]
    <3>3. balance' = [f EXCEPT ![to] = @ + amount]
      BY <3>1, <3>2, SendMoves
    <3>4. /\ -amount \in Int
          /\ balance[from] - amount = balance[from] + (-amount)
          /\ f = [balance EXCEPT ![from] = @ + (-amount)]
      <4>1. -amount \in Int /\ balance[from] - amount = balance[from] + (-amount)
        BY <1>2, <3>2
      <4>2. QED BY <4>1
    <3> HIDE DEF f
    <3>5. /\ SumFunctionOnSet(f, Addresses) = SumFunctionOnSet(balance, Addresses) + (-amount)
          /\ SumFunctionOnSet(balance, Addresses) \in Int
          /\ f \in [Addresses -> Int]
      BY <1>2, <3>4, SumOfBalances
    <3>6. SumFunctionOnSet(balance', Addresses) = SumFunctionOnSet(f, Addresses) + amount
      <4>1. SumFunctionOnSet([f EXCEPT ![to] = @ + amount], Addresses)
              = SumFunctionOnSet(f, Addresses) + amount
        <5>1. amount \in Int /\ f \in [Addresses -> Int] /\ to \in Addresses
          BY <3>2, <3>5
        <5>2. QED BY <5>1, SumOfBalances, Zenon
      <4> DEFINE g == [f EXCEPT ![to] = @ + amount]
      <4>2. balance' = g
        BY <3>3
      <4>3. SumFunctionOnSet(g, Addresses) = SumFunctionOnSet(f, Addresses) + amount
        BY <4>1
      <4> HIDE DEF g
      <4>4. QED BY <4>2, <4>3
    <3>7. ~IsCoinbase(tx)
      BY <3>1, <3>2, SendConsumes
    <3>8. Supply' = Supply
      BY <1>1, <3>7
    <3>9. QED BY <1>3, <3>2, <3>5, <3>6, <3>8
  <2>3. QED BY <2>1, <2>2
<1>5. QED BY <1>4 DEF Conserved, balance

(* In every orderly history coins are conserved.                            *)
LEMMA OrderlyConserves == Spec => [](Orderly => Conserved)
<1>1. Init => Conserved
  <2> SUFFICES ASSUME chain = <<>> PROVE Conserved
    BY DEF Init
  <2> DEFINE f == [a \in Addresses |-> GetBalance(a)]
             g == [h \in DOMAIN chain |-> IF IsCoinbase(chain[h])
                                          THEN chain[h].outputs[1].value ELSE 0]
  <2>1. \A a : FindUTXO(a) = {}
    BY DEF FindUTXO
  <2>2. \A a \in Addresses : f[a] = 0
    BY <2>1, TotalEmpty DEF GetBalance
  <2>3. DOMAIN chain = {}
    OBVIOUS
  <2>4. Supply = SumFunctionOnSet(g, {})
    BY <2>3 DEF Supply
  <2> HIDE DEF f, g
  <2>5. SumFunctionOnSet(f, Addresses) = 0
    BY <2>2, SumZero, LedgerAssumption
  <2>6. QED BY <2>4, <2>5, SumEmpty DEF Conserved, balance, f
<1>2. Inv /\ (Orderly => Conserved) /\ [Next]_chain => (Orderly => Conserved)'
  <2> SUFFICES ASSUME Inv, Orderly => Conserved, [Next]_chain, Orderly' PROVE Conserved'
    OBVIOUS
  <2>1. CASE Next
    <3>1. PICK tx : Sound /\ Sound' /\ Fits(tx) /\ AddBlock(tx) /\ (Minted(tx) \/ Sent(tx))
      BY <2>1, OrderlyStep
    <3>2. Conserved
      BY <3>1 DEF Sound
    <3>3. QED BY <3>1, <3>2, ConservedStep
  <2>2. CASE UNCHANGED chain
    <3>1. Conserved
      BY <2>2, Unchanged
    <3>2. \A a : GetBalance(a)' = GetBalance(a)
      BY <2>2, BalancesStay
    <3>3. QED BY <2>2, <3>1, <3>2 DEF Conserved, balance, Supply, IsCoinbase
  <2>3. QED BY <2>1, <2>2
<1>3. QED BY <1>1, <1>2, Invariance, PTL DEF Spec

(* Sends to oneself and equal timestamps do no harm by themselves: as long  *)
(* as no two blocks have one ID and no transaction two outputs for one      *)
(* address, no output is spent twice, FindUTXO finds what is unspent, and   *)
(* coins are conserved, whatever amounts are typed.                         *)
THEOREM OrderlyHistoriesAreExact == Spec => []OrderlyIsExact
<1>1. Inv /\ (Orderly => Conserved) => OrderlyIsExact
  BY SoundIsExact DEF Inv, Sound, OrderlyIsExact
<1>2. QED BY <1>1, Invariance, OrderlyConserves, PTL

(* For careful users the balances always add up to what was ever minted.    *)
THEOREM CoinsAreConserved == Careful => (Spec => []Conserved)
BY CarefulAreOrderly, OrderlyConserves, PTL

(* A block that keeps the history orderly moves what its first output says, *)
(* whatever the sign of the amount.                                         *)
LEMMA BlockMoves ==
  ASSUME Sound, Sound', NEW tx, Fits(tx), AddBlock(tx), Minted(tx) \/ Sent(tx)
  PROVE  Moves(tx)
<1>1. CASE Minted(tx)
  <2>1. PICK to \in Addresses, data \in {"genesis", "reward"}, amount \in Int, now \in Now :
           tx = CoinbaseTx(to, data, amount, now)
    BY <1>1 DEF Minted
  <2>2. balance' = [balance EXCEPT ![to] = @ + amount]
    BY <2>1, CoinbaseCredits
  <2>3. IsCoinbase(tx) /\ tx.outputs[1].value = amount /\ tx.outputs[1].key = to
    BY <2>1, CoinbaseIsCoinbase DEF CoinbaseTx
  <2>4. QED BY <2>2, <2>3 DEF Moves
<1>2. CASE Sent(tx)
  <2>1. PICK from \in Addresses, to \in Addresses, amount \in SendAmounts, now \in Now :
           /\ Total(FindSpendableOutputs(from, amount)) >= amount
           /\ tx = NewTransaction(from, to, amount, FindSpendableOutputs(from, amount), now)
    BY <1>2 DEF Sent
  <2>2. amount \in Int /\ FindSpendableOutputs(from, amount) \in SUBSET FindUTXO(from)
    BY SpendableIsUTXO, LedgerAssumption
  <2>3. balance' = [[balance EXCEPT ![from] = @ - amount] EXCEPT ![to] = @ + amount]
    BY <2>1, <2>2, SendMoves
  <2>4. tx.outputs[1].value = amount /\ tx.outputs[1].key = to
    BY <2>1, NewOutputs
  <2>5. ~IsCoinbase(tx)
    BY <2>1, <2>2, SendConsumes
  <2>6. \A in \in DOMAIN tx.inputs : in.sig = from
    BY <2>1 DEF NewTransaction, InputFor
  <2>7. QED BY <2>3, <2>4, <2>5, <2>6 DEF Moves
<1>3. QED BY <1>1, <1>2

(* In every orderly history new coins are credited to the address they are  *)
(* made for, and a send moves its amount from the address that signs to the *)
(* one that is paid, whoever types whatever: a send of a negative amount    *)
(* takes from the recipient what it gives to the sender, and mints nothing. *)
THEOREM SendsMoveTheirAmount == Spec => OnlyTransfers
<1>1. Inv /\ [Next]_chain => [Orderly' => Moves(chain'[Len(chain')])]_chain
  <2> SUFFICES ASSUME Inv, Next, Orderly' PROVE Moves(chain'[Len(chain')])
    OBVIOUS
  <2>1. PICK tx : Sound /\ Sound' /\ Fits(tx) /\ AddBlock(tx) /\ (Minted(tx) \/ Sent(tx))
    BY OrderlyStep
  <2>2. Len(chain') = Len(chain) + 1 /\ chain'[Len(chain) + 1] = tx
    BY <2>1, AppendedChain, ChainDomain DEF AddBlock, Sound
  <2>3. Moves(tx)
    BY <2>1, BlockMoves
  <2>4. QED BY <2>2, <2>3
<1>2. QED BY <1>1, Invariance, PTL DEF Spec, OnlyTransfers

-----------------------------------------------------------------------------
(* The two readers of the chain, getbalance and send.                       *)

(* The walk meets the outputs it finds one after the other.                 *)
LEMMA WalkIsLinear ==
  ASSUME TypeOK, NEW a, NEW u \in FindUTXO(a), NEW v \in FindUTXO(a), NEW w \in FindUTXO(a)
  PROVE  /\ ~MetBefore(u, u)
         /\ MetBefore(u, v) /\ MetBefore(v, w) => MetBefore(u, w)
         /\ u = v \/ MetBefore(u, v) \/ MetBefore(v, u)
<1>1. FindUTXO(a) \subseteq Nat \X (1..2) \X (1..2)
  BY ChainDomain DEF FindUTXO
<1>2. u \in Nat \X (1..2) \X (1..2) /\ v \in Nat \X (1..2) \X (1..2)
      /\ w \in Nat \X (1..2) \X (1..2)
  BY <1>1
<1>3. QED BY <1>2 DEF MetBefore

(* FindSpendableOutputs collects the whole amount if the address owns it.   *)
LEMMA SpendableSuffices ==
  ASSUME TypeOK, NEW a, NEW amount \in Int, amount > 0, GetBalance(a) >= amount
  PROVE  Total(FindSpendableOutputs(a, amount)) >= amount
<1> DEFINE utxo == FindUTXO(a)
           UpTo(u) == {w \in utxo : w = u \/ MetBefore(w, u)}
           Late == {u \in utxo : Total(UpTo(u)) >= amount}
           taken == FindSpendableOutputs(a, amount)
<1>1. taken = {v \in utxo : \A u \in utxo : MetBefore(u, v) => Total(UpTo(u)) < amount}
  BY DEF FindSpendableOutputs
<1>2. \A u \in utxo : Total(UpTo(u)) \in Int
  BY TotalType
<1>3. CASE Late = {}
  <2>1. taken = utxo
    BY <1>1, <1>2, <1>3
  <2> HIDE DEF taken, utxo
  <2>2. QED BY <2>1 DEF utxo, taken, GetBalance
<1>4. CASE Late # {}
  <2> DEFINE Prefixes == {UpTo(u) : u \in Late}
  <2>1. IsFiniteSet(utxo)
    BY FindUTXOType
  <2>2. Prefixes \in SUBSET SUBSET utxo /\ Prefixes # {}
    BY <1>4
  <2>3. PICK W \in Prefixes : \A V \in SUBSET W : V # W => V \notin Prefixes
    <3> HIDE DEF Prefixes, utxo
    <3> QED BY <2>1, <2>2, MinimalSubset
  <2>4. PICK u \in Late : W = UpTo(u)
    OBVIOUS
  <2>5. ASSUME NEW w \in Late PROVE ~MetBefore(w, u)
    <3> SUFFICES ASSUME MetBefore(w, u) PROVE FALSE
      OBVIOUS
    <3>1. UpTo(w) \in SUBSET UpTo(u)
      BY WalkIsLinear
    <3>2. u \in UpTo(u) /\ u \notin UpTo(w)
      BY WalkIsLinear
    <3>3. UpTo(w) \in Prefixes
      OBVIOUS
    <3> HIDE DEF UpTo, Prefixes
    <3>4. QED BY <2>3, <2>4, <3>1, <3>2, <3>3
  <2>6. ASSUME NEW v \in UpTo(u) PROVE v \in taken
    <3> SUFFICES ASSUME NEW x \in utxo, MetBefore(x, v) PROVE Total(UpTo(x)) < amount
      BY <1>1
    <3>1. MetBefore(x, u)
      BY WalkIsLinear
    <3>2. x \notin Late
      BY <2>5, <3>1
    <3>3. QED BY <1>2, <3>2
  <2>7. ASSUME NEW v \in taken PROVE v \in UpTo(u)
    <3>1. v \in utxo /\ ~MetBefore(u, v)
      BY <1>1, <1>2
    <3>2. QED BY <3>1, WalkIsLinear
  <2>8. taken = UpTo(u) /\ Total(UpTo(u)) >= amount
    BY <2>6, <2>7
  <2> HIDE DEF UpTo, taken
  <2>9. QED BY <2>8 DEF taken
<1>5. QED BY <1>3, <1>4

(* Whatever is typed, also with sends to oneself and several commands a     *)
(* second: send refuses nothing that getbalance says the address has, and   *)
(* while no output is worthless nothing else is accepted.                   *)
THEOREM RefusalsMatchBalances == Spec => []RefusedIffUnfunded
<1>1. TypeOK => RefusedIffUnfunded
  <2> SUFFICES ASSUME TypeOK, NEW a \in Addresses, NEW amount \in SendAmounts
               PROVE  LET accepted == Total(FindSpendableOutputs(a, amount)) >= amount
                      IN  /\ GetBalance(a) >= amount => accepted
                          /\ accepted /\ PositiveOutputs => GetBalance(a) >= amount
    BY DEF RefusedIffUnfunded
  <2>1. amount \in Int
    BY LedgerAssumption
  <2> DEFINE taken == FindSpendableOutputs(a, amount)
  <2>2. taken \in SUBSET FindUTXO(a)
    BY SpendableIsUTXO
  <2>3. ~(amount > 0) => taken = {}
    BY <2>1 DEF FindSpendableOutputs
  <2> HIDE DEF taken
  <2>4. Total(taken) \in Int /\ GetBalance(a) \in Int
    BY <2>2, TotalType, BalanceType
  <2>5. GetBalance(a) >= amount => Total(taken) >= amount
    <3>1. CASE amount > 0
      BY <2>1, <3>1, SpendableSuffices DEF taken
    <3>2. CASE ~(amount > 0)
      BY <2>1, <2>3, <3>2, TotalEmpty
    <3>3. QED BY <3>1, <3>2
  <2>6. PositiveOutputs => Total(taken) <= GetBalance(a)
    BY <2>2, PartIsWorthLess
  <2>7. QED BY <2>1, <2>4, <2>5, <2>6 DEF taken
<1>2. QED BY <1>1, TypeCorrect, PTL

-----------------------------------------------------------------------------
(* The refinement.                                                          *)

(* For users who send positive amounts to others, one command a second, the *)
(* chain is a book of balances: createblockchain pays the genesis reward,   *)
(* addfunds credits its amount, send moves its amount from an address that  *)
(* owns it, and no balance ever changes otherwise.                          *)
THEOREM LedgerIsABook == Careful /\ Positive => (Spec => ImplementsAccounts)
<1> SUFFICES ASSUME Careful, Positive PROVE Spec => ImplementsAccounts
  OBVIOUS
<1>1. Init => Book!Init
  <2> SUFFICES ASSUME chain = <<>> PROVE Book!Init
    BY DEF Init
  <2>1. \A a : FindUTXO(a) = {}
    BY DEF FindUTXO
  <2>2. \A a : GetBalance(a) = 0
    BY <2>1, TotalEmpty DEF GetBalance
  <2>3. QED BY <2>2 DEF Book!Init, balance
<1>2. Inv /\ Orderly /\ Orderly' /\ PositiveOutputs /\ [Next]_chain
        => [Book!Next]_(Book!bookVars)
  <2> SUFFICES ASSUME Sound, Orderly', PositiveOutputs, [Next]_chain
               PROVE  [Book!Next]_(Book!bookVars)
    BY DEF Inv, Sound
  <2> DEFINE Credits == {n \in FundAmounts : n > 0}
             Payments == {n \in SendAmounts : n > 0}
  <2>0. ASSUME NEW tx, AddBlock(tx)
        PROVE  chain' # <<>>
    <3>1. Len(chain') = Len(chain) + 1 /\ Len(chain) \in Nat
      BY <2>0, AppendedChain, ChainDomain DEF AddBlock, Sound
    <3>2. QED BY <3>1
  <2>1. CASE UNCHANGED chain
    BY <2>1, BalancesStay DEF Book!bookVars, balance
  <2>2. ASSUME NEW a \in Addresses, NEW data \in {"genesis", "reward"}, NEW amount \in Int,
               NEW now \in Now, AddBlock(CoinbaseTx(a, data, amount, now))
        PROVE  balance' = [balance EXCEPT ![a] = @ + amount]
    <3>1. Fits(CoinbaseTx(a, data, amount, now))
      BY NowType, CoinbaseOK, CoinbaseIsCoinbase DEF Fits, Sound
    <3>2. Sound'
      BY <2>2, <3>1, FitsKeepsSound
    <3>3. QED BY <2>2, <3>1, <3>2, CoinbaseCredits
  <2>3. ASSUME NEW a \in Addresses, CreateBlockChain(a)
        PROVE  Book!Next
    <3>1. PICK now \in Now : AddBlock(CoinbaseTx(a, "genesis", GenesisReward, now))
      BY <2>3 DEF CreateBlockChain
    <3>2. balance' = [balance EXCEPT ![a] = @ + GenesisReward]
      BY <2>2, <3>1 DEF GenesisReward
    <3>3. chain = <<>> /\ chain' # <<>>
      BY <2>0, <2>3, <3>1 DEF CreateBlockChain
    <3>4. Book!Open(a)
      BY <3>2, <3>3 DEF Book!Open, balance
    <3>5. QED BY <3>4 DEF Book!Next
  <2>4. ASSUME NEW a \in Addresses, NEW amount \in FundAmounts, AddFunds(a, amount)
        PROVE  Book!Next
    <3>1. PICK now \in Now : AddBlock(CoinbaseTx(a, "reward", amount, now))
      BY <2>4 DEF AddFunds
    <3>2. amount \in Int /\ amount \in Credits
      BY <2>4, LedgerAssumption DEF AddFunds
    <3>3. balance' = [balance EXCEPT ![a] = @ + amount]
      BY <2>2, <3>1, <3>2
    <3>4. chain # <<>> /\ chain' # <<>>
      BY <2>0, <2>4, <3>1 DEF AddFunds
    <3>5. Book!Mint(a, amount)
      BY <3>3, <3>4 DEF Book!Mint, balance
    <3>6. QED BY <3>2, <3>5 DEF Book!Next
  <2>5. ASSUME NEW from \in Addresses, NEW to \in Addresses, NEW amount \in SendAmounts,
               Send(from, to, amount)
        PROVE  Book!Next
    <3> DEFINE taken == FindSpendableOutputs(from, amount)
    <3>1. amount \in Int /\ amount \in Payments
      BY LedgerAssumption DEF Positive
    <3>2. PICK now \in Now : AddBlock(NewTransaction(from, to, amount, taken, now))
      BY <2>5 DEF Send
    <3>3. taken \in SUBSET FindUTXO(from) /\ Total(taken) >= amount /\ now \in Nat
      BY <2>5, SpendableIsUTXO, NowType DEF Send, Sound
    <3>4. chain # <<>> /\ chain' # <<>>
      BY <2>0, <2>5, <3>2 DEF Send
    <3> HIDE DEF taken
    <3>5. PICK tx : tx = NewTransaction(from, to, amount, taken, now)
      OBVIOUS
    <3>6. Fits(tx) /\ AddBlock(tx)
      BY <3>1, <3>2, <3>3, <3>5, NewTransactionFits
    <3>7. Sound'
      BY <3>6, FitsKeepsSound
    <3>8. balance' = [[balance EXCEPT ![from] = @ - amount] EXCEPT ![to] = @ + amount]
      BY <3>1, <3>3, <3>5, <3>6, <3>7, SendMoves
    <3>9. amount <= balance[from]
      <4>1. Total(taken) <= GetBalance(from) /\ Total(taken) \in Int /\ GetBalance(from) \in Int
        BY <3>3, PartIsWorthLess, TotalType, BalanceType DEF Sound
      <4>2. QED BY <3>1, <3>3, <4>1 DEF balance
    <3>10. Book!Transfer(from, to, amount)
      BY <3>4, <3>8, <3>9 DEF Book!Transfer, balance
    <3>11. QED BY <3>1, <3>10 DEF Book!Next
  <2>6. QED BY <2>1, <2>3, <2>4, <2>5 DEF Next, SendCommand, SendInteractive
<1>3. Spec => []Inv /\ []Orderly /\ []PositiveOutputs
  BY Invariance, CarefulAreOrderly, OutputsPositive
<1>4. QED BY <1>1, <1>2, <1>3, PTL DEF Spec, ImplementsAccounts, Book!Spec
=============================================================================
