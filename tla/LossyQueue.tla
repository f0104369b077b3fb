------------------------------ MODULE LossyQueue ------------------------------
(***************************************************************************)
(* What the mailbox promises to a peer that cannot be dialled: a queue of  *)
(* numbered texts that hands over each text at most once, in order, makes  *)
(* nothing up, refuses a text only when it is full, and may lose a run of  *)
(* texts with an answer that reached nobody.  Nothing here knows of locks, *)
(* sessions, requests or timeouts.                                         *)
(***************************************************************************)
EXTENDS Naturals, Sequences

CONSTANT Capacity \* a natural number

VARIABLES
  submitted, \* how many texts have been submitted; they are numbered from 1
  queue,     \* those that wait
  received   \* those that have been handed over

lqVars == <<submitted, queue, received>>

LQInit ==
  /\ submitted = 0
  /\ queue = <<>>
  /\ received = <<>>

\* At most Capacity texts wait at the sender, and as many are on their way.
Put ==
  /\ Len(queue) < 2 * Capacity
  /\ submitted' = submitted + 1
  /\ queue' = Append(queue, submitted + 1)
  /\ UNCHANGED received

Refuse ==
  /\ Len(queue) >= Capacity
  /\ submitted' = submitted + 1
  /\ UNCHANGED <<queue, received>>

Deliver ==
  \E k \in 1 .. Len(queue) :
    /\ received' = received \o SubSeq(queue, 1, k)
    /\ queue' = SubSeq(queue, k + 1, Len(queue))
    /\ UNCHANGED submitted

Lose ==
  \E i, j \in 1 .. Len(queue) :
    /\ i <= j
    /\ queue' = SubSeq(queue, 1, i - 1) \o SubSeq(queue, j + 1, Len(queue))
    /\ UNCHANGED <<submitted, received>>

LQNext == Put \/ Refuse \/ Deliver \/ Lose

LQSpec == LQInit /\ [][LQNext]_lqVars

=============================================================================
