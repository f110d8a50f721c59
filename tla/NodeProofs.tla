----------------------------- MODULE NodeProofs -----------------------------
(***************************************************************************)
(* Theorems about module Node, for any number of processes, with crashes   *)
(* at any step and chains of any length.                                   *)
(***************************************************************************)
EXTENDS Node, SequenceTheorems, TLAPS

-----------------------------------------------------------------------------
(* Chains.                                                                  *)

IsBlock(x) == DOMAIN x = {"by", "saw"} /\ x.by \in Processes

LEMMA NewBlockIsBlock ==
  ASSUME NEW p \in Processes, NEW saw
  PROVE  IsBlock(NewBlock(p, saw))
BY DEF IsBlock, NewBlock

LEMMA ChainLen ==
  ASSUME NEW c, IsChain(c)
  PROVE  /\ Len(c) \in Nat /\ DOMAIN c = 1 .. Len(c)
         /\ c # <<>> => Len(c) >= 1
<1> DEFINE S == {c[n] : n \in DOMAIN c}
<1>1. c \in Seq(S)
  BY DEF IsChain
<1> HIDE DEF S
<1>2. QED BY <1>1, EmptySeq, LenProperties

LEMMA OneBlock ==
  ASSUME NEW x, IsBlock(x)
  PROVE  /\ IsChain(<<x>>) /\ <<x>> # <<>> /\ Len(<<x>>) = 1
         /\ SubSeq(<<x>>, 1, 1) = <<x>>
<1>1. <<x>> \in Seq({x}) /\ <<x>> # <<>> /\ Len(<<x>>) = 1 /\ DOMAIN <<x>> = 1 .. 1
  OBVIOUS
<1>2. {<<x>>[n] : n \in DOMAIN <<x>>} = {x}
  BY <1>1
<1>3. SubSeq(<<x>>, 1, Len(<<x>>)) = <<x>>
  BY <1>1, SubSeqFull
<1>4. QED BY <1>1, <1>2, <1>3 DEF IsChain, IsBlock

LEMMA Longer ==
  ASSUME NEW c, IsChain(c), NEW x, IsBlock(x)
  PROVE  /\ IsChain(Append(c, x)) /\ Append(c, x) # <<>>
         /\ Len(Append(c, x)) = Len(c) + 1
         /\ \A n \in 1 .. Len(c) : SubSeq(Append(c, x), 1, n) = SubSeq(c, 1, n)
         /\ SubSeq(Append(c, x), 1, Len(c) + 1) = Append(c, x)
<1> DEFINE S == {c[n] : n \in DOMAIN c}
           d == Append(c, x)
           T == {d[n] : n \in DOMAIN d}
<1>1. c \in Seq(S \cup {x}) /\ x \in S \cup {x} /\ <<x>> \in Seq(S \cup {x})
  BY DEF IsChain
<1>2. /\ d \in Seq(S \cup {x}) /\ d # <<>>
      /\ Len(d) = Len(c) + 1
      /\ \A n \in 1 .. Len(c) : d[n] = c[n]
      /\ d[Len(c) + 1] = x
  <2> HIDE DEF S
  <2>1. QED BY <1>1, AppendProperties
<1>3. Len(c) \in Nat /\ DOMAIN c = 1 .. Len(c) /\ DOMAIN d = 1 .. Len(c) + 1
  <2> HIDE DEF S, d
  <2>1. QED BY <1>1, <1>2, LenProperties
<1>4. IsChain(d)
  <2>1. S \cup {x} \subseteq T
    BY <1>2, <1>3
  <2>2. d \in Seq(T)
    <3> HIDE DEF S, T, d
    <3>1. QED BY <1>2, <2>1
  <2>3. \A n \in DOMAIN d : IsBlock(d[n])
    BY <1>2, <1>3 DEF IsChain, IsBlock
  <2>4. QED BY <2>2, <2>3 DEF IsChain, IsBlock
<1>5. ASSUME NEW n \in 1 .. Len(c) PROVE SubSeq(d, 1, n) = SubSeq(c, 1, n)
  <2> HIDE DEF S
  <2>1. d = c \o <<x>>
    BY <1>1, AppendIsConcat
  <2>2. 1 \in 1 .. Len(c)
    BY <1>3
  <2>3. SubSeq(c \o <<x>>, 1, n) = SubSeq(c, 1, n)
    BY <1>1, <2>2, SubSeqOfConcat1
  <2>4. QED BY <2>1, <2>3
<1>6. SubSeq(d, 1, Len(d)) = d
  <2> HIDE DEF S, d
  <2>1. QED BY <1>2, SubSeqFull
<1>7. QED BY <1>2, <1>4, <1>5, <1>6

-----------------------------------------------------------------------------
(* Types, and who holds the lock.                                           *)

PC == {"idle", "stat", "open"} \cup Opened

LEMMA LeaveEffect ==
  ASSUME TypeOK, NEW p \in Processes, Leave(p)
  PROVE  /\ pc' \in [Processes -> PC]
         /\ pc'[p] = "idle" /\ \A q \in Processes \ {p} : pc'[q] = pc[q]
         /\ \A q \in Processes : lock' = q <=> pc'[q] \in Opened
<1>1. /\ pc' \in [Processes -> PC]
      /\ pc'[p] = "idle" /\ \A q \in Processes \ {p} : pc'[q] = pc[q]
  BY DEF Leave, TypeOK, PC
<1>2. lock' = IF lock = p THEN Nobody ELSE lock
  BY DEF Leave
<1>3. \A q \in Processes : lock = q <=> pc[q] \in Opened
  BY DEF TypeOK
<1>4. QED BY <1>1, <1>2, <1>3, NodeAssumption DEF Opened

LEMMA GoEffect ==
  ASSUME TypeOK, NEW p \in Processes, NEW from \in PC, NEW to \in PC, Go(p, from, to)
  PROVE  /\ pc' \in [Processes -> PC]
         /\ pc[p] = from /\ pc'[p] = to /\ \A q \in Processes \ {p} : pc'[q] = pc[q]
BY DEF Go, TypeOK, PC

LEMMA TypeOKInit == Init => TypeOK
<1>1. IsChain(<<>>)
  BY DEF IsChain
<1>2. QED BY <1>1, NodeAssumption DEF Init, TypeOK, Opened

LEMMA TypeOKNext == TypeOK /\ [Next]_vars => TypeOK'
<1> SUFFICES ASSUME TypeOK, [Next]_vars PROVE TypeOK'
  OBVIOUS
<1>1. ASSUME NEW p \in Processes, NEW c \in {"create", "write", "read"}, Start(p, c)
      PROVE  TypeOK'
  <2>1. pc' \in [Processes -> PC] /\ \A q \in Processes : lock' = q <=> pc'[q] \in Opened
    BY <1>1, GoEffect DEF Start, PC, Opened, TypeOK, disk
  <2>2. QED BY <1>1, <2>1 DEF Start, TypeOK, PC, disk, local
<1>2. ASSUME NEW p \in Processes, CheckExists(p) PROVE TypeOK'
  <2>1. pc' \in [Processes -> PC] /\ \A q \in Processes : lock' = q <=> pc'[q] \in Opened
    BY <1>2 DEF CheckExists, PC, Opened, TypeOK, disk
  <2>2. QED BY <1>2, <2>1 DEF CheckExists, TypeOK, PC, disk, local
<1>3. ASSUME NEW p \in Processes, Open(p) PROVE TypeOK'
  <2>1. /\ pc' \in [Processes -> PC] /\ manifest' \in BOOLEAN
        /\ \A q \in Processes : lock' = q <=> pc'[q] \in Opened
    <3>1. CASE lock = Nobody
      BY <1>3, <3>1, NodeAssumption DEF Open, PC, Opened, TypeOK
    <3>2. CASE lock # Nobody
      BY <1>3, <3>2, LeaveEffect DEF Open, TypeOK
    <3>3. QED BY <3>1, <3>2
  <2>2. QED BY <1>3, <2>1 DEF Open, TypeOK, PC, local
<1>4. ASSUME NEW p \in Processes, StoreGenesis(p) PROVE TypeOK'
  <2>1. pc' \in [Processes -> PC] /\ \A q \in Processes : lock' = q <=> pc'[q] \in Opened
    BY <1>4, GoEffect DEF StoreGenesis, PC, Opened, TypeOK
  <2>2. IsChain(lh') /\ lh' # <<>>
    BY <1>4, OneBlock, NewBlockIsBlock DEF StoreGenesis
  <2>3. LastHash' = [LastHash EXCEPT ![p] = lh'] /\ store' = store \cup {lh'}
        /\ UNCHANGED <<manifest, cmd, tx, tip>>
    BY <1>4 DEF StoreGenesis
  <2>4. \A q \in Processes : IsChain(LastHash'[q])
    BY <2>2, <2>3 DEF TypeOK
  <2>5. QED BY <2>1, <2>2, <2>3, <2>4 DEF TypeOK, PC
<1>5. ASSUME NEW p \in Processes, Load(p) PROVE TypeOK'
  <2>1. pc' \in [Processes -> PC] /\ \A q \in Processes : lock' = q <=> pc'[q] \in Opened
    <3>1. CASE lh = <<>>
      BY <1>5, <3>1, LeaveEffect DEF Load
    <3>2. CASE lh # <<>>
      BY <1>5, <3>2 DEF Load, PC, Opened, TypeOK
    <3>3. QED BY <3>1, <3>2
  <2>2. \A q \in Processes : IsChain(LastHash'[q])
    <3>1. LastHash' = [LastHash EXCEPT ![p] = lh] \/ LastHash' = LastHash
      BY <1>5 DEF Load
    <3>2. /\ IsChain(lh) /\ DOMAIN LastHash = Processes
         /\ \A q \in Processes : IsChain(LastHash[q])
      BY DEF TypeOK
    <3>3. QED BY <3>1, <3>2
  <2>3. QED BY <1>5, <2>1, <2>2 DEF Load, TypeOK, PC
<1>6. ASSUME NEW p \in Processes, Walk(p) PROVE TypeOK'
  <2>1. pc' \in [Processes -> PC] /\ \A q \in Processes : lock' = q <=> pc'[q] \in Opened
    BY <1>6 DEF Walk, PC, Opened, TypeOK, disk
  <2>2. \A q \in Processes : IsChain(tx'[q])
    <3>1. tx' = [tx EXCEPT ![p] = LastHash[p]] \/ tx' = tx
      BY <1>6 DEF Walk
    <3>2. IsChain(LastHash[p]) /\ DOMAIN tx = Processes
          /\ \A q \in Processes : IsChain(tx[q])
      BY DEF TypeOK
    <3>3. QED BY <3>1, <3>2
  <2>3. QED BY <1>6, <2>1, <2>2 DEF Walk, TypeOK, PC, disk
<1>7. ASSUME NEW p \in Processes, ReadTip(p) PROVE TypeOK'
  <2>1. pc' \in [Processes -> PC] /\ \A q \in Processes : lock' = q <=> pc'[q] \in Opened
    BY <1>7, GoEffect DEF ReadTip, PC, Opened, TypeOK, disk
  <2>2. \A q \in Processes : IsChain(tip'[q])
    <3>1. IsChain(lh) /\ DOMAIN tip = Processes
          /\ \A q \in Processes : IsChain(tip[q])
      BY DEF TypeOK
    <3>2. QED BY <1>7, <3>1 DEF ReadTip
  <2>3. QED BY <1>7, <2>1, <2>2 DEF ReadTip, TypeOK, PC, disk
<1>8. ASSUME NEW p \in Processes, Commit(p) PROVE TypeOK'
  <2>1. pc' \in [Processes -> PC] /\ \A q \in Processes : lock' = q <=> pc'[q] \in Opened
    BY <1>8, GoEffect DEF Commit, PC, Opened, TypeOK
  <2>2. IsChain(lh') /\ lh' # <<>>
    <3>1. IsChain(tip[p])
      BY DEF TypeOK
    <3>2. QED BY <1>8, <3>1, Longer, NewBlockIsBlock DEF Commit
  <2>3. LastHash' = [LastHash EXCEPT ![p] = lh'] /\ store' = store \cup {lh'}
        /\ UNCHANGED <<manifest, cmd, tx, tip>>
    BY <1>8 DEF Commit
  <2>4. \A q \in Processes : IsChain(LastHash'[q])
    BY <2>2, <2>3 DEF TypeOK
  <2>5. QED BY <2>1, <2>2, <2>3, <2>4 DEF TypeOK, PC
<1>9. ASSUME NEW p \in Processes, Close(p) PROVE TypeOK'
  BY <1>9, LeaveEffect DEF Close, TypeOK, PC, local
<1>10. ASSUME NEW p \in Processes, Crash(p) PROVE TypeOK'
  BY <1>10, LeaveEffect DEF Crash, TypeOK, PC, local
<1>11. CASE UNCHANGED vars
  BY <1>11 DEF vars, TypeOK
<1>12. QED BY <1>1, <1>2, <1>3, <1>4, <1>5, <1>6, <1>7, <1>8, <1>9, <1>10, <1>11 DEF Next

(* No process ever computes on something that is not a chain, and the lock  *)
(* of the directory belongs to the process that works on the database.      *)
THEOREM TypeCorrect == Spec => []TypeOK
BY TypeOKInit, TypeOKNext, PTL DEF Spec

-----------------------------------------------------------------------------
(* What a process knows of the database between its steps, and how it came  *)
(* to where it is.                                                          *)

Work(p) ==
  /\ pc[p] \in {"walk", "add", "commit", "close"} => LastHash[p] = lh
  /\ pc[p] \in {"walk", "add", "commit"} => lh # <<>>
  /\ pc[p] \in {"add", "commit"} => tx[p] = lh
  /\ pc[p] = "commit" => tip[p] = lh

Way(p) ==
  /\ pc[p] \in Opened => manifest
  /\ pc[p] = "open" => manifest \/ cmd[p] = "create"
  /\ pc[p] = "genesis" => cmd[p] = "create"
  /\ cmd[p] = "create" => p \in Creators

Inv ==
  /\ TypeOK
  /\ Readable(lh)
  /\ ~manifest => lh = <<>>
  /\ \A p \in Processes : Work(p) /\ Way(p)

(* A process that is not at work on the database, or on which nothing       *)
(* changes, knows no less than before.                                      *)
LEMMA Untouched ==
  ASSUME NEW q, Work(q),
         LastHash'[q] = LastHash[q], tx'[q] = tx[q], tip'[q] = tip[q],
         \/ pc'[q] = pc[q] /\ lh' = lh
         \/ pc'[q] \in {"idle", "stat", "open", "genesis", "load"}
  PROVE  Work(q)'
BY DEF Work

(* Whoever writes is alone with the database.                               *)
LEMMA Alone ==
  ASSUME TypeOK, NEW p \in Processes, pc[p] \in Opened, NEW q \in Processes \ {p}
  PROVE  pc[q] \in {"idle", "stat", "open"}
BY DEF TypeOK

LEMMA InvInit == Init => Inv
<1>1. Init => TypeOK
  BY TypeOKInit
<1>2. Init => Readable(lh)
  BY DEF Init, Readable
<1>3. QED BY <1>1, <1>2 DEF Init, Inv, Work, Way, Opened

LEMMA InvNext == Inv /\ [Next]_vars => Inv'
<1> SUFFICES ASSUME Inv, [Next]_vars PROVE Inv'
  OBVIOUS
<1>0. TypeOK /\ TypeOK'
  BY TypeOKNext DEF Inv
<1>1. ASSUME NEW p \in Processes, NEW c \in {"create", "write", "read"}, Start(p, c)
      PROVE  Inv'
  <2>1. pc[p] = "idle" /\ pc'[p] = "stat" /\ \A q \in Processes \ {p} : pc'[q] = pc[q]
    BY <1>0, <1>1, GoEffect DEF Start, PC
  <2>2. UNCHANGED <<manifest, store, lh, LastHash, tx, tip>>
    BY <1>1 DEF Start, disk, local
  <2>3. /\ cmd'[p] = c /\ (c = "create" => p \in Creators)
        /\ \A q \in Processes \ {p} : cmd'[q] = cmd[q]
    BY <1>0, <1>1 DEF Start, TypeOK
  <2>4. ASSUME NEW q \in Processes PROVE Work(q)'
    BY <2>1, <2>2, Untouched DEF Inv
  <2>5. ASSUME NEW q \in Processes PROVE Way(q)'
    BY <2>1, <2>2, <2>3 DEF Inv, Way, Opened
  <2>6. QED BY <1>0, <2>2, <2>4, <2>5 DEF Inv, Readable
<1>2. ASSUME NEW p \in Processes, CheckExists(p) PROVE Inv'
  <2>1. /\ pc[p] = "stat" /\ pc'[p] \in {"idle", "open"}
        /\ pc'[p] = "open" => manifest # (cmd[p] = "create")
        /\ \A q \in Processes \ {p} : pc'[q] = pc[q]
    BY <1>0, <1>2 DEF CheckExists, TypeOK
  <2>2. UNCHANGED <<manifest, store, lh, cmd, LastHash, tx, tip>>
    BY <1>2 DEF CheckExists, disk, local
  <2>3. ASSUME NEW q \in Processes PROVE Work(q)'
    BY <2>1, <2>2, Untouched DEF Inv
  <2>4. ASSUME NEW q \in Processes PROVE Way(q)'
    BY <1>0, <2>1, <2>2 DEF Inv, Way, Opened, TypeOK
  <2>5. QED BY <1>0, <2>2, <2>3, <2>4 DEF Inv, Readable
<1>3. ASSUME NEW p \in Processes, Open(p) PROVE Inv'
  <2>1. /\ pc[p] = "open" /\ UNCHANGED <<store, lh, cmd, LastHash, tx, tip>>
        /\ \A q \in Processes \ {p} : pc'[q] = pc[q]
        /\ \/ manifest' /\ pc'[p] = IF cmd[p] = "create" THEN "genesis" ELSE "load"
           \/ manifest' = manifest /\ pc'[p] = "idle"
    <3>1. CASE lock = Nobody
      BY <1>0, <1>3, <3>1 DEF Open, local, TypeOK
    <3>2. CASE lock # Nobody
      BY <1>0, <1>3, <3>2, LeaveEffect DEF Open, local
    <3>3. QED BY <3>1, <3>2
  <2>2. manifest => manifest'
    BY <1>0, <2>1 DEF TypeOK
  <2>3. ~manifest' => lh' = <<>>
    BY <2>1, <2>2 DEF Inv
  <2>4. ASSUME NEW q \in Processes PROVE Work(q)'
    BY <2>1, Untouched DEF Inv
  <2>5. ASSUME NEW q \in Processes PROVE Way(q)'
    <3>1. CASE q = p
      BY <2>1, <2>2, <3>1 DEF Inv, Way, Opened
    <3>2. CASE q # p
      BY <2>1, <2>2, <3>2 DEF Inv, Way, Opened
    <3>3. QED BY <3>1, <3>2
  <2>6. QED BY <1>0, <2>1, <2>3, <2>4, <2>5 DEF Inv, Readable
<1>4. ASSUME NEW p \in Processes, StoreGenesis(p) PROVE Inv'
  <2>1. pc[p] = "genesis" /\ pc'[p] = "close" /\ \A q \in Processes \ {p} : pc'[q] = pc[q]
    BY <1>0, <1>4, GoEffect DEF StoreGenesis, PC, Opened
  <2>2. /\ UNCHANGED <<manifest, cmd, tx, tip>>
        /\ LastHash'[p] = lh' /\ \A q \in Processes \ {p} : LastHash'[q] = LastHash[q]
    BY <1>0, <1>4 DEF StoreGenesis, TypeOK
  <2>3. manifest
    BY <2>1 DEF Inv, Way, Opened
  <2>4. Readable(lh)'
    BY <1>4, OneBlock, NewBlockIsBlock DEF StoreGenesis, Readable
  <2>5. ASSUME NEW q \in Processes PROVE Work(q)'
    <3>1. CASE q = p
      BY <2>1, <2>2, <3>1 DEF Work
    <3>2. CASE q # p
      <4>1. pc'[q] \in {"idle", "stat", "open"}
        BY <1>0, <2>1, <3>2, Alone DEF Opened
      <4>2. QED BY <2>2, <3>2, <4>1, Untouched DEF Inv
    <3>3. QED BY <3>1, <3>2
  <2>6. ASSUME NEW q \in Processes PROVE Way(q)'
    BY <2>1, <2>2, <2>3 DEF Inv, Way, Opened
  <2>7. QED BY <1>0, <2>2, <2>3, <2>4, <2>5, <2>6 DEF Inv
<1>5. ASSUME NEW p \in Processes, Load(p) PROVE Inv'
  <2>1. /\ pc[p] = "load" /\ UNCHANGED <<manifest, store, lh, cmd, tx, tip>>
        /\ \A q \in Processes \ {p} : pc'[q] = pc[q] /\ LastHash'[q] = LastHash[q]
        /\ \/ pc'[p] = "idle" /\ LastHash' = LastHash
           \/ pc'[p] = "walk" /\ LastHash'[p] = lh /\ lh # <<>>
    <3>1. CASE lh = <<>>
      BY <1>0, <1>5, <3>1, LeaveEffect DEF Load
    <3>2. CASE lh # <<>>
      BY <1>0, <1>5, <3>2 DEF Load, TypeOK
    <3>3. QED BY <3>1, <3>2
  <2>2. ASSUME NEW q \in Processes PROVE Work(q)'
    <3>1. CASE q # p \/ pc'[p] = "idle"
      BY <2>1, <3>1, Untouched DEF Inv
    <3>2. CASE q = p /\ pc'[p] = "walk"
      BY <2>1, <3>2 DEF Work
    <3>3. QED BY <2>1, <3>1, <3>2
  <2>3. ASSUME NEW q \in Processes PROVE Way(q)'
    BY <2>1 DEF Inv, Way, Opened
  <2>4. QED BY <1>0, <2>1, <2>2, <2>3 DEF Inv, Readable
<1>6. ASSUME NEW p \in Processes, Walk(p) PROVE Inv'
  <2>1. /\ pc[p] = "walk" /\ pc'[p] \in {"add", "close"}
        /\ UNCHANGED <<manifest, store, lh, cmd, LastHash, tip>>
        /\ \A q \in Processes \ {p} : pc'[q] = pc[q] /\ tx'[q] = tx[q]
        /\ pc'[p] = "add" => tx'[p] = LastHash[p]
    BY <1>0, <1>6 DEF Walk, disk, TypeOK
  <2>2. ASSUME NEW q \in Processes PROVE Work(q)'
    <3>1. CASE q # p
      BY <2>1, <3>1, Untouched DEF Inv
    <3>2. CASE q = p
      BY <2>1, <3>2 DEF Inv, Work
    <3>3. QED BY <3>1, <3>2
  <2>3. ASSUME NEW q \in Processes PROVE Way(q)'
    BY <2>1 DEF Inv, Way, Opened
  <2>4. QED BY <1>0, <2>1, <2>2, <2>3 DEF Inv, Readable
<1>7. ASSUME NEW p \in Processes, ReadTip(p) PROVE Inv'
  <2>1. /\ pc[p] = "add" /\ pc'[p] = "commit"
        /\ UNCHANGED <<manifest, store, lh, cmd, LastHash, tx>>
        /\ \A q \in Processes \ {p} : pc'[q] = pc[q] /\ tip'[q] = tip[q]
        /\ tip'[p] = lh
    BY <1>0, <1>7 DEF ReadTip, Go, disk, TypeOK
  <2>2. ASSUME NEW q \in Processes PROVE Work(q)'
    <3>1. CASE q # p
      BY <2>1, <3>1, Untouched DEF Inv
    <3>2. CASE q = p
      BY <2>1, <3>2 DEF Inv, Work
    <3>3. QED BY <3>1, <3>2
  <2>3. ASSUME NEW q \in Processes PROVE Way(q)'
    BY <2>1 DEF Inv, Way, Opened
  <2>4. QED BY <1>0, <2>1, <2>2, <2>3 DEF Inv, Readable
<1>8. ASSUME NEW p \in Processes, Commit(p) PROVE Inv'
  <2>1. pc[p] = "commit" /\ pc'[p] = "close" /\ \A q \in Processes \ {p} : pc'[q] = pc[q]
    BY <1>0, <1>8, GoEffect DEF Commit, PC, Opened
  <2>2. /\ UNCHANGED <<manifest, cmd, tx, tip>>
        /\ LastHash'[p] = lh' /\ \A q \in Processes \ {p} : LastHash'[q] = LastHash[q]
    BY <1>0, <1>8 DEF Commit, TypeOK
  <2>3. manifest
    BY <2>1 DEF Inv, Way, Opened
  <2>4. Readable(lh)'
    <3>1. /\ lh' = Append(lh, NewBlock(p, tx[p])) /\ store' = store \cup {lh'}
          /\ IsChain(lh) /\ Readable(lh)
      BY <1>0, <1>8, <2>1 DEF Commit, Inv, Work, TypeOK
    <3>2. /\ Len(lh') = Len(lh) + 1
          /\ \A n \in 1 .. Len(lh) : SubSeq(lh', 1, n) = SubSeq(lh, 1, n)
          /\ SubSeq(lh', 1, Len(lh) + 1) = lh'
      BY <3>1, Longer, NewBlockIsBlock
    <3>3. Len(lh) \in Nat
      BY <3>1, ChainLen
    <3>4. ASSUME NEW n \in 1 .. Len(lh') PROVE SubSeq(lh', 1, n) \in store'
      <4>1. n \in 1 .. Len(lh) \/ n = Len(lh) + 1
        BY <3>2, <3>3
      <4>2. QED BY <3>1, <3>2, <4>1 DEF Readable
    <3>5. QED BY <3>4 DEF Readable
  <2>5. ASSUME NEW q \in Processes PROVE Work(q)'
    <3>1. CASE q = p
      BY <2>1, <2>2, <3>1 DEF Work
    <3>2. CASE q # p
      <4>1. pc'[q] \in {"idle", "stat", "open"}
        BY <1>0, <2>1, <3>2, Alone DEF Opened
      <4>2. QED BY <2>2, <3>2, <4>1, Untouched DEF Inv
    <3>3. QED BY <3>1, <3>2
  <2>6. ASSUME NEW q \in Processes PROVE Way(q)'
    BY <2>1, <2>2, <2>3 DEF Inv, Way, Opened
  <2>7. QED BY <1>0, <2>2, <2>3, <2>4, <2>5, <2>6 DEF Inv
<1>9. ASSUME NEW p \in Processes, Close(p) \/ Crash(p) PROVE Inv'
  <2>1. /\ pc'[p] = "idle" /\ \A q \in Processes \ {p} : pc'[q] = pc[q]
        /\ UNCHANGED <<manifest, store, lh, cmd, LastHash, tx, tip>>
    BY <1>0, <1>9, LeaveEffect DEF Close, Crash, local
  <2>2. ASSUME NEW q \in Processes PROVE Work(q)'
    BY <2>1, Untouched DEF Inv
  <2>3. ASSUME NEW q \in Processes PROVE Way(q)'
    BY <2>1 DEF Inv, Way, Opened
  <2>4. QED BY <1>0, <2>1, <2>2, <2>3 DEF Inv, Readable
<1>10. CASE UNCHANGED vars
  BY <1>0, <1>10 DEF vars, Inv, Work, Way, Readable
<1>11. QED BY <1>1, <1>2, <1>3, <1>4, <1>5, <1>6, <1>7, <1>8, <1>9, <1>10 DEF Next

LEMMA InvCorrect == Spec => []Inv
BY InvInit, InvNext, PTL DEF Spec

(* Whatever dies and whenever, every hash from the last one down to genesis *)
(* has its block.                                                           *)
THEOREM ChainAlwaysReadable == Spec => []ChainReadable
<1>1. Inv => ChainReadable
  BY DEF Inv, ChainReadable
<1>2. QED BY <1>1, InvCorrect, PTL

(* The last hash a command walks from is never stale.                       *)
THEOREM LastHashNeverStale == Spec => []LastHashFresh
<1>1. Inv => LastHashFresh
  BY DEF Inv, Work, LastHashFresh
<1>2. QED BY <1>1, InvCorrect, PTL

(* A database without a chain comes from a creator that died in the middle, *)
(* and from nothing else.                                                   *)
THEOREM OnlyCrashesHalfMake == Spec => HalfMadeOnlyByCrash
<1>1. ASSUME Inv, [Next]_vars, ~HalfMade, HalfMade'
      PROVE  \E p \in Creators : pc[p] = "genesis" /\ Crash(p)
  <2>0. TypeOK
    BY <1>1 DEF Inv
  <2> DEFINE SameHalf == manifest' = manifest /\ lh' = lh
                         /\ \A q \in Processes : pc[q] = "genesis" => pc'[q] = "genesis"
  <2>1. ~SameHalf
    BY <1>1 DEF HalfMade
  <2> HIDE DEF SameHalf
  <2>2. ASSUME NEW p \in Processes, NEW c \in {"create", "write", "read"}, Start(p, c)
        PROVE  FALSE
    BY <2>0, <2>1, <2>2 DEF SameHalf, Start, Go, disk, TypeOK
  <2>3. ASSUME NEW p \in Processes, CheckExists(p) PROVE FALSE
    BY <2>0, <2>1, <2>3 DEF SameHalf, CheckExists, disk, TypeOK
  <2>4. ASSUME NEW p \in Processes, Open(p) PROVE FALSE
    <3>1. lock = Nobody
      <4>1. CASE lock # Nobody
        BY <2>0, <2>1, <2>4, <4>1, LeaveEffect DEF Open, SameHalf
      <4>2. QED BY <4>1
    <3>2. cmd[p] # "create"
      <4>1. CASE cmd[p] = "create"
        <5>1. pc'[p] = "genesis"
          BY <2>0, <2>4, <3>1, <4>1 DEF Open, TypeOK
        <5>2. QED BY <1>1, <5>1 DEF HalfMade
      <4>2. QED BY <4>1
    <3>3. manifest /\ manifest' = TRUE
      BY <1>1, <2>4, <3>1, <3>2 DEF Open, Inv, Way
    <3>4. QED BY <2>0, <2>1, <2>4, <3>1, <3>3 DEF SameHalf, Open, TypeOK
  <2>5. ASSUME NEW p \in Processes, StoreGenesis(p) PROVE FALSE
    BY <1>1, <2>5, OneBlock, NewBlockIsBlock DEF StoreGenesis, HalfMade
  <2>6. ASSUME NEW p \in Processes, Load(p) PROVE FALSE
    <3>1. /\ pc[p] = "load" /\ UNCHANGED <<manifest, lh>>
          /\ \A q \in Processes \ {p} : pc'[q] = pc[q]
      <4>1. CASE lh = <<>>
        BY <2>0, <2>6, <4>1, LeaveEffect DEF Load
      <4>2. CASE lh # <<>>
        BY <2>0, <2>6, <4>2 DEF Load, TypeOK
      <4>3. QED BY <2>6, <4>1, <4>2 DEF Load
    <3>2. QED BY <2>1, <3>1 DEF SameHalf
  <2>7. ASSUME NEW p \in Processes, Walk(p) PROVE FALSE
    BY <2>0, <2>1, <2>7 DEF SameHalf, Walk, disk, TypeOK
  <2>8. ASSUME NEW p \in Processes, ReadTip(p) PROVE FALSE
    BY <2>0, <2>1, <2>8 DEF SameHalf, ReadTip, Go, disk, TypeOK
  <2>9. ASSUME NEW p \in Processes, Commit(p) PROVE FALSE
    <3>1. IsChain(tip[p])
      BY <2>0 DEF TypeOK
    <3>2. lh' # <<>>
      BY <2>9, <3>1, Longer, NewBlockIsBlock DEF Commit
    <3>3. QED BY <1>1, <3>2 DEF HalfMade
  <2>10. ASSUME NEW p \in Processes, Close(p) PROVE FALSE
    BY <2>0, <2>1, <2>10, LeaveEffect DEF SameHalf, Close
  <2>11. ASSUME NEW p \in Processes, Crash(p)
         PROVE  p \in Creators /\ pc[p] = "genesis"
    <3>1. UNCHANGED <<manifest, lh>> /\ \A q \in Processes \ {p} : pc'[q] = pc[q]
      BY <2>0, <2>11, LeaveEffect DEF Crash
    <3>2. pc[p] = "genesis"
      BY <2>1, <3>1 DEF SameHalf
    <3>3. QED BY <1>1, <3>2 DEF Inv, Way
  <2>12. ~UNCHANGED vars
    BY <2>1 DEF SameHalf, vars
  <2>13. QED BY <1>1, <2>2, <2>3, <2>4, <2>5, <2>6, <2>7, <2>8, <2>9, <2>10, <2>11, <2>12
         DEF Next
<1>2. ASSUME Inv, [Next]_vars
      PROVE  [~HalfMade /\ HalfMade' => \E p \in Creators : pc[p] = "genesis" /\ Crash(p)]_vars
  BY <1>1, <1>2
<1>3. QED BY <1>2, InvCorrect, PTL DEF Spec, HalfMadeOnlyByCrash

-----------------------------------------------------------------------------
(* With one terminal that creates, the processes implement the log.         *)

OneCreator == \A c, d \in Creators : c = d

(* Whoever is about to create does it on nothing.                           *)
Fresh ==
  \A p \in Processes : cmd[p] = "create" =>
    /\ pc[p] = "open" => ~manifest
    /\ pc[p] = "genesis" => lh = <<>>

LEMMA FreshNext ==
  ASSUME OneCreator, Inv, Fresh, [Next]_vars
  PROVE  Fresh'
<1>0. TypeOK
  BY DEF Inv
<1> SUFFICES ASSUME NEW q \in Processes, cmd'[q] = "create"
             PROVE  (pc'[q] = "open" => ~manifest') /\ (pc'[q] = "genesis" => lh' = <<>>)
  BY DEF Fresh
<1>1. ASSUME NEW p \in Processes, NEW c \in {"create", "write", "read"}, Start(p, c)
      PROVE  (pc'[q] = "open" => ~manifest') /\ (pc'[q] = "genesis" => lh' = <<>>)
  BY <1>0, <1>1 DEF Fresh, Start, Go, disk, TypeOK
<1>2. ASSUME NEW p \in Processes, CheckExists(p)
      PROVE  (pc'[q] = "open" => ~manifest') /\ (pc'[q] = "genesis" => lh' = <<>>)
  BY <1>0, <1>2 DEF Fresh, CheckExists, disk, TypeOK
<1>3. ASSUME NEW p \in Processes, Open(p)
      PROVE  (pc'[q] = "open" => ~manifest') /\ (pc'[q] = "genesis" => lh' = <<>>)
  <2>1. /\ pc[p] = "open" /\ UNCHANGED <<lh, cmd>>
        /\ \A r \in Processes \ {p} : pc'[r] = pc[r]
        /\ pc'[p] \in {"idle", "load", "genesis"}
        /\ \/ manifest' = manifest
           \/ lock = Nobody /\ (pc'[p] = "genesis" => cmd[p] = "create")
    <3>1. CASE lock = Nobody
      BY <1>0, <1>3, <3>1 DEF Open, TypeOK
    <3>2. CASE lock # Nobody
      BY <1>0, <1>3, <3>2, LeaveEffect DEF Open
    <3>3. QED BY <3>1, <3>2
  <2>2. CASE q = p
    <3>1. ~manifest /\ lh = <<>>
      BY <2>1, <2>2 DEF Fresh, Inv
    <3>2. QED BY <2>1, <2>2, <3>1
  <2>3. CASE q # p
    <3>1. p \notin Creators
      BY <2>1, <2>3 DEF Inv, Way, OneCreator
    <3>2. manifest
      BY <2>1, <3>1 DEF Inv, Way
    <3>3. pc[q] # "open" /\ (pc[q] = "genesis" => lh = <<>>)
      BY <2>1, <3>2 DEF Fresh
    <3>4. pc'[q] = pc[q] /\ lh' = lh
      BY <2>1, <2>3
    <3>5. QED BY <3>3, <3>4
  <2>4. QED BY <2>2, <2>3
<1>4. ASSUME NEW p \in Processes, StoreGenesis(p) \/ Commit(p)
      PROVE  (pc'[q] = "open" => ~manifest') /\ (pc'[q] = "genesis" => lh' = <<>>)
  <2>1. /\ pc[p] \in Opened /\ pc'[p] = "close" /\ UNCHANGED <<manifest, cmd>>
        /\ \A r \in Processes \ {p} : pc'[r] = pc[r]
    BY <1>0, <1>4 DEF StoreGenesis, Commit, Go, Opened, TypeOK
  <2>2. CASE q = p
    BY <2>1, <2>2
  <2>3. CASE q # p
    BY <1>0, <2>1, <2>3, Alone DEF Fresh
  <2>4. QED BY <2>2, <2>3
<1>5. ASSUME NEW p \in Processes, Load(p)
      PROVE  (pc'[q] = "open" => ~manifest') /\ (pc'[q] = "genesis" => lh' = <<>>)
  <2>1. /\ pc'[p] \in {"idle", "walk"} /\ UNCHANGED <<manifest, lh, cmd>>
        /\ \A r \in Processes \ {p} : pc'[r] = pc[r]
    <3>1. CASE lh = <<>>
      BY <1>0, <1>5, <3>1, LeaveEffect DEF Load
    <3>2. CASE lh # <<>>
      BY <1>0, <1>5, <3>2 DEF Load, TypeOK
    <3>3. QED BY <1>5, <3>1, <3>2 DEF Load
  <2>2. QED BY <2>1 DEF Fresh
<1>6. ASSUME NEW p \in Processes, Walk(p) \/ ReadTip(p)
      PROVE  (pc'[q] = "open" => ~manifest') /\ (pc'[q] = "genesis" => lh' = <<>>)
  BY <1>0, <1>6 DEF Fresh, Walk, ReadTip, Go, disk, TypeOK
<1>7. ASSUME NEW p \in Processes, Close(p) \/ Crash(p)
      PROVE  (pc'[q] = "open" => ~manifest') /\ (pc'[q] = "genesis" => lh' = <<>>)
  <2>1. /\ pc'[p] = "idle" /\ UNCHANGED <<manifest, lh, cmd>>
        /\ \A r \in Processes \ {p} : pc'[r] = pc[r]
    BY <1>0, <1>7, LeaveEffect DEF Close, Crash
  <2>2. QED BY <2>1 DEF Fresh
<1>8. CASE UNCHANGED vars
  BY <1>8 DEF vars, Fresh
<1>9. QED BY <1>1, <1>2, <1>3, <1>4, <1>5, <1>6, <1>7, <1>8 DEF Next

(* A step of a process appends one block to the log, made from the whole    *)
(* log, or leaves it alone.                                                 *)
LEMMA StepsRefine ==
  ASSUME Inv, Fresh, [Next]_vars
  PROVE  [Log!Next]_lh
<1>1. ASSUME NEW p \in Processes, StoreGenesis(p) PROVE Log!Create(p)
  BY <1>1 DEF Inv, Way, Fresh, StoreGenesis, Go, NewBlock, Log!Create, Log!Block
<1>2. ASSUME NEW p \in Processes, Commit(p) PROVE Log!Extend(p)
  <2>1. pc[p] = "commit" /\ lh' = Append(tip[p], NewBlock(p, tx[p]))
    BY <1>2 DEF Commit, Go
  <2>2. QED BY <2>1 DEF Inv, Work, NewBlock, Log!Extend, Log!Block
<1>3. ASSUME NEW p \in Processes,
             \/ \E c \in {"create", "write", "read"} : Start(p, c)
             \/ CheckExists(p) \/ Open(p) \/ Load(p) \/ Walk(p) \/ ReadTip(p)
             \/ Close(p) \/ Crash(p)
      PROVE  lh' = lh
  BY <1>3 DEF Start, CheckExists, Open, Load, Walk, ReadTip, Close, Crash, disk
<1>4. CASE UNCHANGED vars
  BY <1>4 DEF vars
<1>5. QED BY <1>1, <1>2, <1>3, <1>4 DEF Next, Log!Next

(* When at most one terminal creates the chain, every writing command takes *)
(* effect at once on the chain it read, whatever dies and whenever.         *)
THEOREM CommandsAreAtomic == OneCreator => (Spec => ImplementsLog)
<1> SUFFICES ASSUME OneCreator PROVE Spec => ImplementsLog
  OBVIOUS
<1>1. Init => Log!Init /\ Fresh
  BY DEF Init, Log!Init, Fresh
<1>2. Inv /\ Fresh /\ [Next]_vars => Fresh'
  BY FreshNext
<1>3. Inv /\ Fresh /\ [Next]_vars => [Log!Next]_lh
  BY StepsRefine
<1>4. QED BY <1>1, <1>2, <1>3, InvCorrect, PTL DEF Spec, ImplementsLog, Log!Spec
=============================================================================
