----------------------------- MODULE CommandLog -----------------------------
(***************************************************************************)
(* The chain as the users of several terminals should see it: a log to     *)
(* which every writing command appends one block, all at once, having seen *)
(* the whole log.  Module Node, which models the processes, the database   *)
(* lock and crashes, is checked to implement it.                           *)
(***************************************************************************)
EXTENDS Sequences

CONSTANT Processes

VARIABLE log        \* the blocks, genesis first

(* A block remembers who wrote it and the log its transaction was made from. *)
Block(p, saw) == [by |-> p, saw |-> saw]

Init == log = <<>>

Create(p) ==
    /\ log = <<>>
    /\ log' = <<Block(p, <<>>)>>

Extend(p) ==
    /\ log # <<>>
    /\ log' = Append(log, Block(p, log))

Next == \E p \in Processes : Create(p) \/ Extend(p)

Spec == Init /\ [][Next]_log
=============================================================================
