----------------------------- MODULE KeyChannel -----------------------------
(***************************************************************************)
(* What the transmit half of the console promises: the keys a user typed   *)
(* wait in one queue, the terminal receives them from its front, in the    *)
(* order they were typed and none of them twice.  A batch at the front may *)
(* be lost with a failed request; nothing behind it may overtake.          *)
(***************************************************************************)
EXTENDS Naturals, Sequences

CONSTANT MaxBatch        \* the most keys one input may add

VARIABLES
  typed,                 \* how many keys were typed: key k is the k-th of them
  pending,               \* the keys that have not reached the terminal
  received               \* the keys that have

channel == <<typed, pending, received>>

Init == typed = 0 /\ pending = <<>> /\ received = <<>>

Type(n) ==
  /\ typed' = typed + n
  /\ pending' = pending \o [i \in 1..n |-> typed + i]
  /\ UNCHANGED received

Leave(n) == pending' = SubSeq(pending, n + 1, Len(pending)) /\ UNCHANGED typed

Deliver(n) == Leave(n) /\ received' = received \o SubSeq(pending, 1, n)

Lose(n) == Leave(n) /\ UNCHANGED received

Next ==
  \/ \E n \in 1..MaxBatch : Type(n)
  \/ \E n \in 1..Len(pending) : Deliver(n) \/ Lose(n)

Spec == Init /\ [][Next]_channel
=============================================================================
