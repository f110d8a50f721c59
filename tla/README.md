# A TLA+ model of Blockchain_Test

`Blockchain_Test` is a small single-node blockchain in Go: a command line (and an
interactive menu) over a badger database that holds a chain of mined blocks, a file
of wallets, and an in-memory "Adaptive Merkle Forest" (AMF) in which blocks are
looked up before they are stored.  Around that core stand parts that no command
uses yet: trust-weighted consensus, vector clocks, network statistics.  This
directory holds TLA+ modules that model it, TLC configurations that check them, and
proofs checked by TLAPS.

All line numbers refer to the files under `src/`.

## 1. The system

| Part | State | Operations | Interacts with |
|---|---|---|---|
| **Ledger of outputs** `Blockchain/blockchain.go`, `transaction.go`, `tx.go` | the chain of blocks, one transaction each | `createblockchain`, `addfunds`, `send`, `getbalance`; the walks `FindUnspentTransactions`, `FindUTXO`, `FindSpendableOutputs` | called by the command line, stored by the database |
| **Processes and database** `blockchain.go`, `cli/cli.go` | `./tmp/blocks`: MANIFEST, blocks by hash, `lh`; the lock badger holds on the directory; per process `chain.LastHash` | `DBExists`, open, genesis, load, iterate, `AddBlock`, close; the process may die anywhere | every command is a process, or one turn of an interactive one |
| **Adaptive Merkle Forest** `adaptive_merkle_forest.go` | a list of shards (data slice, root, load, last use), rebuilt by every command | `AddData`, `splitShard`, `mergeLowActivityShards` on a timer, `GenerateMerkleProof` | `rebuildAMF`, `AddBlock`, `VerifyBlockIntegrity`; a goroutine `runShardMonitor` |
| **Wallet file** `wallet/wallets.go`, `cli.go` | `./tmp/wallets.data` | `CreateWallets`, `AddWallet`, `SaveFile`, `listaddresses` | read and written whole by every process |
| **Command line, menus, address locks** `cli.go`, `blockchain.go`, `transaction.go` | `os.Args`, the menu shown, the handle of the database, `addressLocks`, the goroutines that are left | the loop over the global flags, dispatch, the handlers, both menus, `LockAddress`/`UnlockAddress`, `Goexit` | runs the commands of all other parts |
| **Consistency levels, statistics, trust** `cap_optimizer.go`, `blockchain.go` | levels, heartbeats and scores, all in the memory of one chain object | `SetConsistency`, `GetConsistencyLevel`, `UpdateTrustScore`; `UpdateNodeHeartbeat`, `PredictPartitionProbability`, `DynamicAdjustConsistency`, `CalculateTimeout` | `AddBlock` asks for the level; nothing calls the last four |
| **Vector clocks and conflicts** `cap_optimizer.go` | the clocks | `Increment`, `Merge`, `Entropy`, `ResolveConflicts` | nothing calls them |
| **Multiparty consensus** `proof.go` | trust scores | `AddTrustScore`, `ValidateBlock`, `SelectLeader` | nothing calls it; it asks the proof of work |
| **Block, Merkle tree, proof of work** `block.go`, `proof.go` | the block, with its cached tree | `CreateBlock`, `HashTransactions`, `Run`, `Validate`, `PruneBlockData` | `AddBlock`, `VerifyBlockIntegrity`, the consensus |
| **VRF, bloom filter, accumulator, commitments** `proof.go`, `adaptive_merkle_forest.go` | small | `Generate`/`Verify`, `Add`/`Contains`, `CreateCommitment` | only `CreateCommitment` has a caller, which never gets to it |
| **Keys and addresses** `wallet/wallet.go`, `utils.go` | none | key pairs, Base58, `ValidateAddress` | the command line checks addresses |

What is hard, and what each part must get right:

* **Ledger.**  Sequential, but no test will find what needs a history of several
  commands.  Spent outputs are found by a backward walk and remembered by
  transaction ID and address; the ID is a hash of the contents with a timestamp of
  one second; an output list is filtered per transaction and not per output.
  Correct means: no output is spent twice, only its owner spends it, what is listed
  is exactly what is unspent, coins are conserved.
* **Processes.**  The existence check, the opening, the walk and the commit are
  separate steps of processes that share a directory and may be killed.  Correct
  means: the chain stays readable, grows only, and every command is one atomic
  append to the chain it read.
* **Forest.**  Two goroutines, two levels of locks, and Go slices that share
  backing arrays after a split.  Correct means: what was added is found, shards
  stay bounded, and `AddData` returns.
* **Wallet file.**  Read, change, write back without a lock; the file is truncated
  before it is written.  Correct means: an address that was printed stays listed.
* **Command line.**  The flag loop shortens the slice it ranges over; commands leave
  by return, panic, `os.Exit` and `Goexit`; an interactive session runs many commands
  on the same globals; standard input may end.  Correct means: the command sees its own
  arguments, no command disturbs the next, and nobody is left with the database.
* **Consensus.**  Two thresholds, one rounded down and one that does not grow with the
  number of nodes; a score of zero that counts as one half.  Correct means: not two blocks of one
  height, none against the majority, and support never hurts.
* **Blocks.**  The root is cached in the block and computed anew for an archived copy.
  Correct means: the copy still has the hash it was mined with.
* **Clocks and statistics.**  Correct means: the resolver does not throw away the version
  that has everything; high risk relaxes the level and lengthens the timeout, low risk does neither, and
  worse news never counts as better.

`PROJECT.json` lists the hazards at their lines with the properties that watch them.

## 2. Modules

| Module | What it is |
|---|---|
| `Accounts` | abstract: a book of balances |
| `Ledger` | the chain as a ledger; implements `Accounts` |
| `CommandLog` | abstract: a log to which whole commands append |
| `Node` | the processes, the lock, the database and crashes; implements `CommandLog` |
| `Forest` | the AMF, the command that fills it and the shard monitor |
| `Wallets` | the wallet file and the processes that share it |
| `Session` | one process from its command line to its end |
| `Block` | blocks, their roots and their proof of work (no state of its own) |
| `Consensus` | scores, answers and the acceptance of blocks; extends `Block` |
| `CapOptimizer` | vector clocks, the resolver, statistics and what is derived from them |
| `SumLemmas` | sums over finite sets, proved from the library's definition |
| `LedgerProofs`, `NodeProofs`, `ForestProofs`, `WalletsProofs`, `SessionProofs`, `ConsensusProofs`, `CapProofs` | the theorems (section 4) |
| `MC*` | the instances for TLC |

`Ledger`, `Node`, `Session` and `Forest` look at the same command from four sides.
`Ledger` takes it as one step and says what the blocks mean.  `Node` breaks it into the
steps by which it shares the disk with others and shows (`ImplementsLog`) that its effect is
one append, computed from the chain it appends to, which is the step `Ledger` takes.
`Session` is one of `Node`'s processes with its command line, its menus and its globals;
it shows that between commands the database is closed (`ClosedWhileWaiting`), as `Node`
assumes by starting every command from `idle`.  `Forest` looks at what happens in memory
in `Node`'s steps `Walk` to `Commit`.

Operators marked `faulty` (`CommitLastHashOnly`, `HalvesLeftWhole`, ...) belong to
no specification.  They are the code with a plausible bug, and each property has
one that TLC shows it to detect.

### Ledger

A block is its one transaction (every caller of `AddBlock` passes one), the state is
`chain`.  Decisions:

* Inputs are a bag: `NewTransaction` collects them in a Go map and ranges over it, so
  their order is arbitrary and no property depends on it.
* `SetID` hashes the contents.  `TxID(h)` is the first height with the same
  contents, so equal contents give equal IDs and different contents different ones.
* `FindUnspentTransactions` returns a slice in which a transaction occurs once for
  each unspent output of the address.  `FindUTXO` walks that slice and takes
  *every* output of the address.  An element of the model's `FindUTXO(a)` is
  therefore a visit `<<height, copy, output>>`: duplicates and spent outputs stay
  visible.
* `FindSpendableOutputs` takes visits in walk order while the sum is below the amount.
* Output indices start at 1 here, at 0 in Go.
* `Send` is guarded by what `NewTransaction` panics on.  `SendCommand` is the send
  of the command line (positive amounts), `SendInteractive` that of the menu (any).
* The clock never goes backwards; `SameSecond` says whether it may stand still
  between two commands.  `SelfSends` says whether sender and recipient may coincide.
  Both are allowed by the code; they are constants so that the runs and the
  theorems can say what depends on them.

### Node

One variable `pc[p]` per process and one action per step: `Start`, `CheckExists`,
`Open`, `StoreGenesis`, `Load`, `Walk`, `ReadTip`, `Commit`, `Close`, `Crash`.  A
block hash commits to everything below it (`HashIdentifiesBlock`), so it is represented by the chain it
ends.  A block remembers the chain its transaction was computed from.  External:
badger's exclusive directory lock, its atomic `Update`, and the operating system
that drops the lock of a dead process.  `Walk` covers `rebuildAMF` and the walks of the
command; a command without funds ends in it and closes.  A process that dies between
`Open` and `StoreGenesis` leaves a MANIFEST and no `lh`; from then on neither
creation nor any other command works (`CheckExists` refuses the one, `Load` panics in
the other).  `HalfMadeOnlyByCrash` says that nothing else leads there.

### Forest

`shard[s].data` is a Go slice, `Slice(arr, off, len)`, on `arrays`; `Appended` is `append`, and
`Without` is how `splitShard` and the merge take a shard out of the list.  `stage`,
`todo` and `unverified` are the command: `rebuildAMF` adds three data per block
from the last to genesis, then either `AddBlock` adds three more and verifies the new
block, or `validateChain` verifies every block.  `PickShard`, `AddToShard` and
`Split` are `AddData` between its lock operations; `LockForest`, `ScanShard`,
`NothingToMerge` and `Merge` are the monitor.  `TimePasses` is the five minutes
without use that make a shard a merge candidate.  `InitBlockChain` adds one
datum to an empty forest, a case the longer ones contain.

A full array is copied to a larger one, whose capacity decides which later appends overwrite what.
`Grown` is what the runtime of Go 1.24 does for the 24-byte elements of `Data`: double
the capacity below 256 places, a quarter and a bit more from there on, and the size that results
rounded up to a class of the allocator (`RoundUp`).

Where two shards that share an array are used under their two locks, the code has a
data race on the elements; the model lets either use come first.

### Wallets

`CreateWallets` (load), `AddWallet`, `Truncate`, `WriteFile` (each of the two saves) and
`PrintAddress` per process, and `Crash`.  A wallet is its address.  When two writes
overlap, the file is what was written last.  `torn` and `raced` are history: a
process died inside a save, or a `createwallet` started while another ran.

### Session

* `args`, `argc` and `at` are the array behind `os.Args`, the length of the slice and the
  index of the loop (cli.go:479).  `append(os.Args[:i], os.Args[i+2:]...)` moves the rest down within
  the array the loop ranges over, so the loop sees moved tokens, and the last two
  places twice.
* A token is a string; `"args"` stands for the flags of a command, all given, since
  `flag.Parse` is the library's.  `-level` and `-node` are looked at, because what they
  give reaches the settings.
* `pc` is the main goroutine.  `Return` says what becomes of it: the menu, the end of the process,
  or `"parked"`, when `settrust` ends it with `Goexit` (cli.go:584) while the shard monitor
  keeps the process alive.
* Whether another process has the database, whether there are wallets and funds, and what
  the user types are external: `OpenRefused`, `Reject`, `Cancel`, and the choice in
  `NewTransaction` may always happen.
* `line` and `chosen` are history, what `os.Args` was and the level last reported to be set; after
  `Run`, which is the last to read `os.Args`, the three argument variables are reset.
* `AddBlock` ends with the block stored, or in the panic of the verification before that, which the
  deferred `Close` does not keep from ending the process.
* The loop over the global flags takes whatever looks like one, also a `-node` that stands behind `settrust`;
  the score then goes to the node with the empty name.  The model does the same (`HandleFlag`, `Argument`).
* `generateNodeID` encodes a buffer of zeros, so the ID is the same every time (`NodeID`).
* Levels, scores and commitments belong to the chain object and are empty in each new one (`OpenChain`);
  scores are in tenths, and of the commitments only whether there is one matters.

### Block and Consensus

Hashing is injective: a digest is represented by what was hashed, and whether it is below
the target is the constant operator `BelowTarget`.  Two facts of the code are kept that are easy to
miss: `HashTransactions` returns a root that an earlier call left in the block, so
the Merkle check of `VerifyBlockIntegrity` (blockchain.go:348) compares that root with
itself and never fails; and `string(block.Timestamp)` is the string of one rune,
U+FFFD for every time of our days, so the state root does not depend on the time.
`Validate` hashes anew and does not look at the `Hash` of the block.

In `Consensus`, `ValidateBlock` is the whole method.  Who collects the answers is external
(`Answer`): any node, in any order, changing its mind, with a yes for several blocks of one height if it
likes.  `Content` gives the block behind each name, and what is `Mined` is decided by
`Validate`.  Scores are in hundredths and sums are exact, where Go adds binary fractions;
the two differ only for sums equal to the threshold, and no sum of scores in
the instance is.

### CapOptimizer

Who changes and merges versions, sends heartbeats and measures the latency is external.  `seen` is
history: the changes that went into a version, against which clocks and resolver are
judged.  `Silence` is the five seconds without a heartbeat, `Measure` a new value of the field `Latency`.
Nothing in the program writes that field, and with silence alone the probability stays below one half; the
model lets it be any of `Latencies`, so that all the thresholds are met.  `PredictPartitionProbability` is
a fraction of `One`, exact where Go rounds; the two could differ only if the probability equalled a threshold.
It also writes its result to `PartitionProb` while it holds the statistics' lock for reading; nothing else reads the
field, and the model computes the value anew.
`SetConsistency` appears here with its effect on levels that exist, which `DynamicAdjustConsistency`
makes, and in `Session` as the commands use it, where none exists.

## 3. Runs

Passing runs:

| Run | Instance | Shows |
|---|---|---|
| `LedgerCore` | 3 addresses, amounts 50 (fund; 0 is refused), 30 and 100 (send; in the book only addfunds credits 50 and only send moves 30 or 100), 5 blocks; no self-sends, a new second per command | `NoDoubleSpend`, `FindUTXOExact`, `PositiveOutputs`, and that the chain implements `Accounts` |
| `LedgerLoose` | 2 addresses, amounts 50 (fund), 30 and -30 (send), 4 blocks; self-sends and equal timestamps allowed | what survives: `SpendsAuthorised`, `NothingHidden`, `RefusedIffUnfunded`; and `OrderlyIsExact`, `OnlyTransfers`: the ledger is right and balances change only by what is paid, as long as no two blocks share an ID and no transaction has two outputs for one address |
| `NodeCore` | 3 processes, one of which may create, crashes everywhere, 3 blocks | `ChainReadable`, `LastHashFresh`, `HalfMadeOnlyByCrash`, and that the processes implement `CommandLog` |
| `ForestQuiet` | threshold 100 as in the code; 44 lengths of chains: 33, 34 and every seventh from 6 to 300 blocks; no tick | `NewBlockFound`, `VerificationSucceeds`, `SizeBounded`, `NothingLostUnsplit`, `OneEntryPerAdd` |
| `ForestMonitor` | threshold 4, chains of 2 and 6 blocks, ticks and pauses at any time, `FairSpec` | `TypeOK` (the list of shards is never empty and has no shard twice), `OwnArrayIntact`, `EntriesNeverDrop`, `AddDataReturnsUnlessCrossed` |
| `Wallets` | 2 processes, 4 wallets, overlapping commands, crashes everywhere | `AllListedUnlessTornOrRaced` |
| `Session` | all command lines of up to 6 tokens (a global flag, a number, a command) after the program's name, and every command with and without its flags; 2 addresses, 2 node IDs; the menu for ever | `FlagsStripped`, `NeverLockedOut`, `ClosedWhileWaiting`, `NothingAfterEnd` |
| `Consensus` | 5 nodes, which may say yes to both, 2 mined blocks of one height, scores 0.10 and 0.67 | `NoFork`, `HalfAgreed`, `SupportNeverHurts` |
| `CapOptimizer` | 3 replicas, 4 changes, lists of up to 3 versions with repetitions; 2 peers, latencies of 0, 0.5 and 2.5 seconds | `LatestWins`, `OrderOnlyBreaksTies`, `RiskDecides`, `NewsCountsTheRightWay` |

Each run but `LedgerLoose` and `ForestQuiet` also checks the `TypeOK` of its module; those
two check the modules of the rows next to them.

Runs in which the code does not do what a message or a comment of it says:

| Run | Violated | Why |
|---|---|---|
| `LedgerSelfSend` | `NoDoubleSpend` | after a send to oneself with change, a transaction has two unspent outputs of one address, is listed twice, and the next send has each as input twice |
| `NodeTwoCreators` | `ChainOnlyGrows` | two `createblockchain` look before either opens; the second replaces `lh` |
| `SessionLevel` | `LevelTakesEffect` | `setconsistency` changes only nodes that already have a level, none does, and the next command has a new chain object: after "Successfully set to strong consistency" the next block is added at the level causal |

**What the conditions in the properties stand for.**  Several properties say "unless"; what
happens otherwise is what the code does today:

* `OrderlyIsExact`: two equal `addfunds` within a second have the same ID, and spending
  one makes the other disappear.
* `OnlyTransfers`: a negative amount in the menu makes a transaction without inputs that pays the
  recipient a negative output and the sender the same amount as change.  The sum of the balances stays what was
  minted, but a balance can become negative.  So `PositiveOutputs` and `ImplementsAccounts` are about positive amounts, and the
  second half of `RefusedIffUnfunded` about histories without worthless outputs: the walk of `send` may stop before it
  meets the negative ones.
* `NothingLostUnsplit`: from 34 blocks on (102 data, threshold 100) the forest has been split, the next
  append to the left half overwrites the first element of the right half, and an entry
  of the chain cannot be proved any more.  `VerificationSucceeds` says that the retry of
  `VerifyBlockIntegrity` makes up for it.
* `AddDataReturnsUnlessCrossed`: `AddData` holds a shard and waits for the forest while
  `mergeLowActivityShards` holds the forest and waits for the shard; neither moves again (`CrossedForGood` of section 4).
* `AllListedUnlessTornOrRaced`: of two overlapping `createwallet` the later save wins; a process that dies between
  truncating and writing leaves an empty file, which the next `createwallet` takes for no wallets.
* `HalfMadeOnlyByCrash`: the half-made database has to be removed by hand.
* `NoFork`: with two or four answers, one or two of them are enough, so two blocks can be
  accepted on a tie.  The comment of proof.go:219, "Require both majority of
  nodes and sufficient trust", asks for more than the rounded division gives in these cases.
  A node that says yes to both blocks is not excluded by the code; the property is about those that do not.
* `FlagsStripped`: the loop skips the token behind a flag's value, so of two flags side by side the second
  stays, and Run sees it.  What the loop finds behind the shortened slice may be a flag that it has
  taken before; it then indexes beyond the end and panics.
* `HalfAgreed`: a single node with a score of 0.67 suffices where one vote passes the node threshold.
* `NothingAfterEnd`: at the end of input the process does not stop, it prints its menu over and
  over; no command is run.
* `ClosedWhileWaiting`: the process of `settrust` never exits by itself, but does not block others.
* `RiskDecides`: between its two cases the level may be relaxed before the timeout grows (at 0.3 and at 0.5 of the
  probability); the property says that the two never contradict each other.

With ticks and pauses, `NewBlockFound` and `VerificationSucceeds` no longer hold at
threshold 4: a datum added to a shard that was merged away is not found, and repeated
merges can overwrite what the retry put back.  That needs a process stopped for minutes
in the middle of a command (mining at this difficulty takes milliseconds), so
`ForestQuiet` and not `ForestMonitor` claims them.

**Assumptions of `MCConsensus`.**  What is true of values and not of behaviours is checked
as assumptions: `MinedBlocksValidate` (every block of up to four of three transactions validates, its archived copy
too, with the same hash) and `RootsDiffer` (different lists of up to four IDs have different
roots; duplicating the odd node of a level, as other chains do, would break it).
`ArchivedBlocksValidate` and `RootsIdentifyLists` of section 4 prove both for all lists.

**Bounds.**  In the ledger, the shortest history that spends an output,
makes change, spends the change together with another output and then reads has five
blocks, and the violation above appears within five; amounts 50/30/100 with the
reward of 100 give exact payment, change and payment from several outputs.  A third
process is needed in `NodeCore` for one that waits while another crashes.  The forest uses
the real threshold when it is alone, with the last chain that is not split, the
first that is, and 42 spread evenly up to 300 blocks, which differ in where the last splits and copies fall; with the monitor the threshold is
small so that split, merge and their overlap happen within a few data.  Four
wallets let both processes save, crash and start again over a file of several.  Six
tokens hold two flags with their values, a token between them and one after, the shortest line
in which the shortened array matters; the session itself is not bounded.  One to
five nodes meet every way of rounding the threshold: exact at three, down to a majority at five, to less
than one at one, two and four; two scores, one that passes the trust threshold alone and one that needs company,
plus the missing score, give all the cases of the sum.  Three replicas are the least for which the
resolver's winner over its neighbours may not win over all.  Two peers, none of them to both silent, and the
three latencies put the probability below 0.3, between any two of the three thresholds, and at its cap.

Deadlock checking is on for `Consensus` and `CapOptimizer`, where an answer or a heartbeat may always
come.  It is off elsewhere: a chain or a wallet file at its bound and a process that has ended
stop by design, and the deadlock the code has is the `Crossed` of `Forest`.

**Fairness.**  Two runs need it.

* `ForestMonitor` checks `FairSpec`: weak fairness for the
  command and the monitor (the Go scheduler runs every runnable goroutine) and strong
  fairness for `AddData`, which competes for locks: Go's mutexes hand over to the longest
  waiter, so the monitor cannot overtake for ever.
* `Session` has weak fairness for the main goroutine: for the flag loop, `Run` and the handlers
  always, for the menus only once input has ended.  Nothing makes a user type, but a
  read from an input that has ended returns at once.

## 4. Proofs

Proved for every value of the constants, and for behaviours of every length:

| Module | Theorem | Assumes | States |
|---|---|---|---|
| `LedgerProofs` | `TypeCorrect` | nothing | `Spec => []TypeOK` |
| | `OnlyOwnerSpends` | nothing | `Spec => []SpendsAuthorised` |
| | `NothingIsHidden` | nothing | `Spec => []NothingHidden` |
| | `OrderlyHistoriesAreExact` | nothing | `Spec => []OrderlyIsExact` |
| | `RefusalsMatchBalances` | nothing | `Spec => []RefusedIffUnfunded` |
| | `SendsMoveTheirAmount` | nothing | `Spec => OnlyTransfers` |
| | `NeverSpentTwice` | `Careful` | `Spec => []NoDoubleSpend` |
| | `FindUTXOIsExact` | `Careful` | `Spec => []FindUTXOExact` |
| | `CoinsAreConserved` | `Careful` | `Spec => []Conserved` |
| | `OutputsPositive` | `Positive` | `Spec => []PositiveOutputs` |
| | `LedgerIsABook` | `Careful`, `Positive` | `Spec => ImplementsAccounts` |
| `NodeProofs` | `TypeCorrect` | nothing | `Spec => []TypeOK` |
| | `ChainAlwaysReadable` | nothing | `Spec => []ChainReadable` |
| | `LastHashNeverStale` | nothing | `Spec => []LastHashFresh` |
| | `OnlyCrashesHalfMake` | nothing | `Spec => HalfMadeOnlyByCrash` |
| | `CommandsAreAtomic` | `OneCreator` | `Spec => ImplementsLog` |
| `ForestProofs` | `TypeCorrect` | nothing | `Spec => []TypeOK` |
| | `ForestNeverShrinks` | nothing | `Spec => EntriesNeverDrop` |
| | `OneEntryEach` | no tick | `Spec => OneEntryPerAdd` |
| | `ShardsStaySmall` | no tick | `Spec => []SizeBounded` |
| | `OwnArrayStaysIntact` | nothing | `Spec => []OwnArrayIntact` |
| | `NothingLostBeforeSplit` | no tick | `Spec => []NothingLostUnsplit` |
| | `UnsplitForestFinds` | nothing | `NewBlockFound`, `VerificationSucceeds` and `NothingLostUnsplit` hold while only one shard was ever made |
| | `ShortChainsVerify` | nothing | a chain with `3 * height <= shardThreshold` keeps to one shard, and `NewBlockFound` and `VerificationSucceeds` hold |
| | `CrossedForGood` | nothing | `Spec => CrossedForever` |
| `WalletsProofs` | `TypeCorrect` | nothing | `Spec => []TypeOK` |
| | `WalletsKept` | nothing | `Spec => []AllListedUnlessTornOrRaced` |
| `SessionProofs` | `TypeCorrect` | nothing | `Spec => []TypeOK` |
| | `FlagsAreStripped` | nothing | `Spec => []FlagsStripped` |
| | `SendsNeverLockedOut` | nothing | `Spec => []NeverLockedOut` |
| | `WaitingIsClosed` | nothing | `Spec => []ClosedWhileWaiting` |
| `ConsensusProofs` | `ArchivedBlocksValidate` | nothing | mined blocks and their archived copies validate |
| | `RootsIdentifyLists` | no ID is a pair of digests | two lists with one Merkle root are the same list |
| | `HashIdentifiesBlock` | the same | two mined blocks with one hash have the same transactions, previous hash, time and nonce |
| | `TypeCorrect` | nothing | `Spec => []TypeOK` |
| | `AcceptedByHalf` | nothing | `Spec => []HalfAgreed` |
| | `OneBlockAccepted` | nothing | `Spec => []NoFork` |
| | `SupportIsMonotone` | nothing | `Spec => SupportNeverHurts` |
| `CapProofs` | `TypeCorrect` | nothing | `Spec => []TypeOK` |
| | `ClocksMeanHistories` | nothing | `Spec => []ClockIsHistory` |
| | `ResolverKeepsLatest` | nothing | `Spec => []LatestWins` |
| | `ResolverIgnoresOrder` | nothing | `Spec => []OrderOnlyBreaksTies` |
| | `RiskIsHeeded` | nothing | `Spec => []RiskDecides` |
| | `NewsIsHeeded` | nothing | `Spec => NewsCountsTheRightWay` |

"Nothing" means nothing beyond the assumptions on constants that each module names
(`NodeAssumption`, `ConsensusAssumption`, ...), which TLC evaluates in the runs.

**Ledger.**  `Orderly` says of a chain that IDs identify blocks and no transaction has two outputs for one
address.  The inductive invariant, without any assumption on how users behave, is

    Inv == TypeOK /\ SpendsAuthorised /\ (Orderly => NoDoubleSpend)

`TxIDKept` is why an input keeps its meaning: an ID is the *least* height of its contents, so a later
equal transaction does not change what an older input refers to.  For the same reason a chain that is
orderly was so before its last block, and the last conjunct can be shown step by step (`OrderlyStep`).
`NoDoubleSpend` alone is not inductive: that a new transaction is not a second spend depends on
`FindUTXO` telling spent from unspent, for which IDs must identify blocks, "some output of this address
is unspent" must say which, and inputs must carry their owner's address, since the walk only remembers
inputs the address can unlock.  From these, `FindUTXOMeaning` says exactly what the walk returns.
That is `OrderlyHistoriesAreExact`, for all users and clocks.

`Careful` is `SelfSends = FALSE /\ SameSecond = FALSE`.  Under it every chain is orderly (block *h* was made in
second *h*, hence `TxID(h) = h`), and the other theorems follow; `LedgerSelfSend` shows that `NeverSpentTwice`
fails without the first half.  `Positive` says that only positive amounts are sent.  The
command line enforces it, the menu does not: a negative amount makes a transaction without
inputs that pays the recipient a negative output and the sender "change".
`RefusedIffUnfunded` compares two walks, the one that stops at the amount and the one that sums up
everything.  The first stops early only with enough, so what `getbalance` shows is never refused, whatever was typed;
that nothing else is accepted needs that the sums on the way do not fall, hence outputs that are
not negative.

`SendsMoveTheirAmount` needs neither assumption.  A step into an orderly history starts in one
(`OrderlyStep`), and there the inputs of a send are exactly the visits it took (`SendConsumes`), so what it pays out
less the change is the amount, whatever its sign; a send to oneself that leaves change
ends in a history that is not orderly, and one without change takes and gives the same outputs' worth.

The refinement adds arithmetic.  A balance is a sum over the visits of a walk;
`NextUTXO` says which visits a new block adds and removes, and the lemmas of
`SumLemmas` turn this into credit and debit.  `Conserved` sums the
balances over all addresses.  The library defines sums by a choice over functions, and induction schemes with
an operator parameter are not available to the provers; `SumLemmas` argues by a minimal
counterexample among the subsets of a finite set (`MinimalSubset`), which is a first-order statement.

**Node.**  The inductive invariant is

    Inv == TypeOK /\ Readable(lh) /\ (~manifest => lh = <<>>)
           /\ \A p \in Processes : Work(p) /\ Way(p)

`Work(p)` is what a process at work knows of the database: its last hash, the chain
its transaction was computed from and the tip it mines on are all `lh`.  It survives the steps of
the others because whoever changes `lh` holds the lock, and `TypeOK` makes the holder
unique (`Alone`).  `Way(p)` is how a process came to where it is: only creators reach `genesis`,
and everybody else found a manifest.  For `CommandsAreAtomic`, `Fresh` adds that whoever is about to create
does so on nothing.  That needs `OneCreator`, at most one terminal that creates;
`NodeTwoCreators` shows why.

**Forest.**  The inductive invariant, for the command and the monitor interleaved in any way, is

    Inv == ForestTypes /\ CommandTypes /\ WorkerTypes /\ Collected /\ Loads

The parts that `TypeOK` lacks are these.  `Collected`: while the monitor holds the forest lock, what it has
collected are two different shards that are still in the list, since nobody else can change the list; a merge therefore
takes out exactly two and puts in one.  `Loads`: only the shard the adder
works on can be overloaded, and a listed shard that is overloaded is the one the adder stopped at; with
`scan` this decides who waits for whom.  Each action is proved to have an effect on the list
(`WithoutFacts`), the memory (`AppendedExtends`: `append` gives the old contents followed by the new ones,
in place or in a fresh array) and the sum over the list (`SumLemmas`), and the theorems read off these effects.  That entries never drop needs that
a split gives all elements to its halves and a merge all of both shards to one.

`OwnArrayStaysIntact` needs to know why a shard that is alone on its array has been so since
its data were copied.  `Shared`, the second invariant, says it (`Anchored`): shards that share an
array share it with one that was split or merged, is not listed any more and never moves away.  The
difficult case is an `AddData` that chose a shard before a merge took it from the list: it still appends to
it, and leaves the array if that is full.  But a shard whose array the merge went on with had room for
the data of another, which were not empty (`Filled`), so there is room for one entry more.

`OneEntryEach`, `ShardsStaySmall` and `NothingLostBeforeSplit` assume `Monitor = FALSE`, a command that ends before the first tick,
one minute after it started ("no tick" in the table).  They are about that case because they are
false beyond it: a datum added to a shard that was merged away adds no entry to the forest, a merge makes
shards larger than any load accounts for, and after a merge back to one shard entries may have been overwritten.
The invariant `Quiet` adds to `Inv` that a listed shard is at most `shardThreshold + 1` larger
than its load and the adder's shard is listed (`QuietLoads`), and that the only shard of an unsplit forest
has every datum that is not still to be added (`Unsplit`).

`UnsplitForestFinds` and `ShortChainsVerify` hold with the monitor too, because it does nothing
to one shard: it wants two candidates.  The invariant `Whole` says of a forest with one shard that the monitor has not
begun to collect and every datum of the chain is in the shard or still to be added; therefore the retry of
`VerifyBlockIntegrity` never comes about, and the root, made of all elements
(`OwnArrayStaysIntact`), proves the block.  `Room` counts: the load of the shard and the data still to be added are at most
three per block, the new block's included, so no `AddData` finds more than the threshold.
With the threshold of 100 that covers chains of up to 33 blocks, the new one included.

`CrossedForGood` is about the two goroutines that wait in a circle.  While `AddData` holds
its shard and waits for the forest, and the monitor holds the forest and has that shard next to scan
or to merge, every action is disabled but the passing of time, which moves no lock.

**Blocks.**  A tree is decoded by its left depth, the number of pairs on the way down to its leftmost ID (`LeftDepth`),
which is unique because no ID is a pair (`DepthIsUnique`).  In the *k*-th level over a list all nodes
have depth *k* but the last, which may have gone up alone and has at most that (`Even`).  So two levels
that are equal come from equal levels below (`LevelInjective`): the pairs fix all nodes but perhaps the last,
and if one list had ended in a pair and the other in a single node, that node would be a pair
whose left half has depth *k*, and so have depth *k* + 1, more than it can.  Going down from the root
is an induction on the number of levels, which the provers do not do; `RootsIdentifyLists` takes the least level at which the two trees
agree (`LeastNat`) and shows that it is 0.  The hash of a block is what was hashed, the root among it,
hence `HashIdentifiesBlock`.

**Wallets.**  As long as nothing was torn and no commands raced, at most one process is in
`createwallet`, the file has all printed addresses except between truncation and writing, and
the copy the process carries has them all the time: the three parts of `Inv`.

**Session.**  `Locks`, `Handle` and `NoLevels`: an address is locked exactly
within `NewTransaction`, the database is open only between `OpenChain` and `Close`, and the
map of levels is empty.  `Types` adds to `TypeOK` that the tokens are
strings and that the sender of a transaction at work is an address (`Sender`), which is what gets locked.
`Loop(taken)`, for `FlagsAreStripped`, describes the array in the middle of the loop over the
flags: `taken` are the places in the command line of the flags that are gone, each kept token in front of the index is
where it belongs in the end, and the others have moved down by two for every
flag that is gone.  A flag cut out adds its place to `taken` (`StepOverFlag`), any other token leaves it as it is (`StepOverToken`),
and the invariant says that some such set exists.  Behind the shortened slice the loop finds what earlier moves left there
(`Stale`); on a line whose flags are apart (`Separate`) none of it is a flag, hence no panic (`NoFlagPanic`).

**Consensus.**  `HalfAgreed` and `NoFork` are consequences of `TypeOK` and arithmetic: with *n* answers and
`2n div 3` needed, two disjoint sets of yes have more than *n* members unless *n* is 2 or
4, where they must have exactly half each (for *n* = 1 the threshold is 0, and the trust threshold is what asks for a yes).
`SupportNeverHurts` needs that a further yes raises the threshold by at most one, and that a
sum over a larger set of non-negative scores is not smaller (`SumLemmas`).

**CapOptimizer.**  `TypeOK` says that what a version has seen of each replica is a prefix of that replica's changes;
then a clock dominates another exactly when its history contains the other's
(`DominatesIsHistory`), and the first dominant version of a list has everything.  Where there is
none, the entropy decides: it is the number of changes in the version (`EntropyCounts`, a sum over replicas against the
size of a union of columns).  `Resolved` puts both into one description of the winner that mentions only the *set*
of versions listed, and two versions that fit it have the same changes or are
concurrent with equally many, since of two comparable finite sets of one size neither is larger.
`RiskIsHeeded` and `NewsIsHeeded` are arithmetic with products of two variables, the number of peers and the latency, which
the provers are led through by comparing fractions over their denominators.  A heartbeat of a new peer adds one to the denominator
and nothing to the numerator.

Only model-checked:

* `NewBlockFound` and `VerificationSucceeds` of `Forest` beyond the first split.  There they are not true of every threshold, even without ticks:
  with 9 instead of 100 the hash of a block added to a chain of 53 is overwritten at once, and with 5
  the verification of a chain of 14 gives up.  Whether it happens depends on where the copies
  of `append` fall between the splits, that is on the capacities (1, 2, 4, ..., 128, and for the halves of splits others) against the threshold,
  so there is nothing to prove for all constants.  `ForestQuiet` follows both for the threshold of the code and 44 lengths of chains from 6 to 300 blocks.
* `AddDataReturnsUnlessCrossed` and `NothingAfterEnd`, liveness under fairness, which is out of the prover's reach.
* What is only checked to be violated.

## 5. Not modelled

* Elliptic curves, Base58, address checks, serialisation and printing.  The search for a nonce is taken to succeed.
* The VRF and `SelectLeader`: the first hashes the clock, the second draws at random from a list in which every node
  has a place; neither changes any state.
* The bloom filter and the accumulator: nothing calls them, and an item that was added is always contained.
  Commitments: the one call of `CreateCommitment` is behind the strong level, and that setting this level
  does not lead there is what `SessionLevel` shows; nothing reads them.
* `VerifyTransaction` and `CreateStateProof`, which nothing calls.  Each makes its proof differently (the hash of the
  ID, the hash of ID and timestamp), which no transaction of the program meets, since `NewTransaction`
  stores the first.
* The entropy value of a block, which is only printed.

## 6. Plan

1. The accumulator and leader selection, once something in the program uses them.

Runs are kept to one per distinct question; new modules bring theirs and take the
place of those that ask the least.
