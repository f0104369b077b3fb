-------------------------- MODULE LossyQueue_proofs --------------------------
(***************************************************************************)
(* What the lossy queue promises to those who use it, for any capacity:    *)
(* what a host sends to a client behind NAT arrives in order and once.     *)
(***************************************************************************)
EXTENDS LossyQueue, SequenceTheorems, TLAPS

Increasing(s) == \A i, j \in 1 .. Len(s) : i < j => s[i] < s[j]

\* The inductive invariant: what was handed over is older than what waits.
QueueInv ==
  /\ submitted \in Nat
  /\ queue \in Seq(Nat)
  /\ received \in Seq(Nat)
  /\ Increasing(received)
  /\ Increasing(queue)
  /\ \A i \in 1 .. Len(queue) : queue[i] <= submitted
  /\ \A i \in 1 .. Len(received) : received[i] <= submitted
  /\ \A i \in 1 .. Len(received), j \in 1 .. Len(queue) : received[i] < queue[j]

\* What is at one of the positions first .. last of s.
Among(x, s, first, last) == \E k \in first .. last : x = s[k]

\* A part of a queue keeps its order and holds nothing else.
LEMMA PartOfQueue ==
  ASSUME NEW s \in Seq(Nat), Increasing(s),
         NEW first \in 1 .. Len(s) + 1, NEW last \in 0 .. Len(s),
         NEW part, part = SubSeq(s, first, last)
  PROVE  /\ part \in Seq(Nat)
         /\ Increasing(part)
         /\ \A i \in 1 .. Len(part) : Among(part[i], s, first, last)
<1>1. \A i \in first .. last : s[i] \in Nat
  OBVIOUS
<1>2. first \in Int /\ last \in Int /\ Len(s) \in Nat
  OBVIOUS
<1>3. /\ part \in Seq(Nat)
      /\ Len(part) = IF first <= last THEN last - first + 1 ELSE 0
      /\ \A i \in 1 .. last - first + 1 : part[i] = s[first + i - 1]
  BY <1>1, <1>2, SubSeqProperties
<1>4. ASSUME NEW i \in 1 .. Len(part)
      PROVE  part[i] = s[first + i - 1] /\ first + i - 1 \in first .. last
  <2>1. i \in 1 .. last - first + 1 /\ first + i - 1 \in first .. last
    BY <1>2, <1>3
  <2> QED
    BY <2>1, <1>3
<1>5. ASSUME NEW i \in 1 .. Len(part)
      PROVE  Among(part[i], s, first, last)
  BY <1>4 DEF Among
<1>6. ASSUME NEW i \in 1 .. Len(part), NEW j \in 1 .. Len(part), i < j
      PROVE  part[i] < part[j]
  <2>1. /\ first + i - 1 \in 1 .. Len(s)
        /\ first + j - 1 \in 1 .. Len(s)
        /\ first + i - 1 < first + j - 1
    BY <1>2, <1>4, <1>6
  <2>2. s[first + i - 1] < s[first + j - 1]
    BY <2>1 DEF Increasing
  <2> QED
    BY <2>2, <1>4
<1> QED
  BY <1>3, <1>5, <1>6 DEF Increasing

\* An older part holds smaller numbers than a younger one.
LEMMA PartsInOrder ==
  ASSUME NEW s \in Seq(Nat), Increasing(s),
         NEW i \in 0 .. Len(s), NEW j \in 1 .. Len(s) + 1, i < j,
         NEW x, Among(x, s, 1, i), NEW y, Among(y, s, j, Len(s))
  PROVE  x < y
<1>1. PICK k \in 1 .. i : x = s[k]
  BY DEF Among
<1>2. PICK l \in j .. Len(s) : y = s[l]
  BY DEF Among
<1>3. k \in 1 .. Len(s) /\ l \in 1 .. Len(s) /\ k < l
  OBVIOUS
<1> QED
  BY <1>1, <1>2, <1>3 DEF Increasing

\* Two ordered sequences, the first older than the second, are one.
LEMMA OrderedConcat ==
  ASSUME NEW s \in Seq(Nat), NEW t \in Seq(Nat), Increasing(s), Increasing(t),
         \A i \in 1 .. Len(s), j \in 1 .. Len(t) : s[i] < t[j]
  PROVE  /\ s \o t \in Seq(Nat)
         /\ Increasing(s \o t)
         /\ \A k \in 1 .. Len(s \o t) :
              \/ \E i \in 1 .. Len(s) : (s \o t)[k] = s[i]
              \/ \E j \in 1 .. Len(t) : (s \o t)[k] = t[j]
<1> DEFINE st == s \o t
<1>1. /\ st \in Seq(Nat)
      /\ Len(st) = Len(s) + Len(t)
      /\ \A i \in 1 .. Len(s) + Len(t) :
           st[i] = IF i <= Len(s) THEN s[i] ELSE t[i - Len(s)]
  BY ConcatProperties
<1>2. Len(s) \in Nat /\ Len(t) \in Nat
  OBVIOUS
<1> HIDE DEF st
<1>3. \A k \in 1 .. Len(st) :
        IF k <= Len(s) THEN k \in 1 .. Len(s) /\ st[k] = s[k]
        ELSE k - Len(s) \in 1 .. Len(t) /\ st[k] = t[k - Len(s)]
  BY <1>1, <1>2
<1>4. Increasing(st)
  <2> SUFFICES ASSUME NEW i \in 1 .. Len(st), NEW j \in 1 .. Len(st), i < j
               PROVE  st[i] < st[j]
    BY DEF Increasing
  <2>1. CASE j <= Len(s)
    BY <2>1, <1>2, <1>3 DEF Increasing
  <2>2. CASE i > Len(s)
    <3>1. i - Len(s) \in 1 .. Len(t) /\ j - Len(s) \in 1 .. Len(t)
          /\ i - Len(s) < j - Len(s) /\ st[i] = t[i - Len(s)] /\ st[j] = t[j - Len(s)]
      BY <2>2, <1>1, <1>2, <1>3
    <3> QED
      BY <3>1 DEF Increasing
  <2>3. CASE i <= Len(s) /\ j > Len(s)
    BY <2>3, <1>2, <1>3
  <2> QED
    BY <2>1, <2>2, <2>3, <1>1, <1>2
<1> QED
  BY <1>1, <1>3, <1>4, <1>2 DEF st

LEMMA InitQueueInv == LQInit => QueueInv
  BY DEF LQInit, QueueInv, Increasing

LEMMA PutQueueInv == ASSUME QueueInv, Put PROVE QueueInv'
<1>1. /\ queue' \in Seq(Nat)
      /\ Len(queue') = Len(queue) + 1
      /\ \A i \in 1 .. Len(queue) : queue'[i] = queue[i]
      /\ queue'[Len(queue) + 1] = submitted + 1
  BY AppendProperties DEF QueueInv, Put
<1>2. Len(queue) \in Nat
  BY DEF QueueInv
<1>3. \A i \in 1 .. Len(queue') :
        \/ i \in 1 .. Len(queue) /\ queue'[i] = queue[i]
        \/ i = Len(queue) + 1 /\ queue'[i] = submitted + 1
  BY <1>1, <1>2
<1>4. ASSUME NEW i \in 1 .. Len(queue'), NEW j \in 1 .. Len(queue'), i < j
      PROVE  queue'[i] < queue'[j]
  <2>1. i \in 1 .. Len(queue) /\ queue'[i] = queue[i]
    BY <1>1, <1>2, <1>3, <1>4
  <2>2. CASE j \in 1 .. Len(queue) /\ queue'[j] = queue[j]
    BY <2>1, <2>2, <1>4 DEF QueueInv, Increasing
  <2>3. CASE queue'[j] = submitted + 1
    BY <2>1, <2>3 DEF QueueInv
  <2> QED
    BY <2>2, <2>3, <1>3
<1>5. \A i \in 1 .. Len(queue') : queue'[i] <= submitted'
  BY <1>3 DEF QueueInv, Put
<1>6. ASSUME NEW i \in 1 .. Len(received'), NEW j \in 1 .. Len(queue')
      PROVE  received'[i] < queue'[j]
  <2>1. i \in 1 .. Len(received) /\ received'[i] = received[i]
    BY DEF Put
  <2>2. CASE j \in 1 .. Len(queue) /\ queue'[j] = queue[j]
    BY <2>1, <2>2 DEF QueueInv
  <2>3. CASE queue'[j] = submitted + 1
    BY <2>1, <2>3 DEF QueueInv
  <2> QED
    BY <2>2, <2>3, <1>3
<1>7. \A i \in 1 .. Len(received') : received'[i] <= submitted'
  BY DEF QueueInv, Put
<1> QED
  BY <1>1, <1>4, <1>5, <1>6, <1>7 DEF QueueInv, Put, Increasing

LEMMA DeliverQueueInv == ASSUME QueueInv, Deliver PROVE QueueInv'
<1>1. PICK k \in 1 .. Len(queue) :
        /\ received' = received \o SubSeq(queue, 1, k)
        /\ queue' = SubSeq(queue, k + 1, Len(queue))
        /\ submitted' = submitted
  BY DEF Deliver
<1> DEFINE head == SubSeq(queue, 1, k)
<1>2. /\ queue \in Seq(Nat) /\ Increasing(queue) /\ Len(queue) \in Nat
      /\ received \in Seq(Nat) /\ Increasing(received)
  BY DEF QueueInv
<1>3. /\ head \in Seq(Nat)
      /\ Increasing(head)
      /\ \A i \in 1 .. Len(head) : Among(head[i], queue, 1, k)
  <2>1. 1 \in 1 .. Len(queue) + 1 /\ k \in 0 .. Len(queue)
    BY <1>2
  <2> QED
    BY <2>1, <1>2, PartOfQueue
<1>4. /\ queue' \in Seq(Nat)
      /\ Increasing(queue')
      /\ \A i \in 1 .. Len(queue') : Among(queue'[i], queue, k + 1, Len(queue))
  <2>1. k + 1 \in 1 .. Len(queue) + 1 /\ Len(queue) \in 0 .. Len(queue)
    BY <1>2
  <2> QED
    BY <2>1, <1>1, <1>2, PartOfQueue
<1> HIDE DEF head
<1>5. \A i \in 1 .. Len(received), j \in 1 .. Len(head) : received[i] < head[j]
  BY <1>2, <1>3 DEF QueueInv, Among
<1>6. /\ received' \in Seq(Nat)
      /\ Increasing(received')
      /\ \A n \in 1 .. Len(received') :
           \/ \E i \in 1 .. Len(received) : received'[n] = received[i]
           \/ \E j \in 1 .. Len(head) : received'[n] = head[j]
  BY <1>1, <1>2, <1>3, <1>5, OrderedConcat DEF head
<1>7. ASSUME NEW n \in 1 .. Len(received'), NEW j \in 1 .. Len(queue')
      PROVE  received'[n] < queue'[j]
  <2>1. CASE \E i \in 1 .. Len(received) : received'[n] = received[i]
    BY <2>1, <1>2, <1>4 DEF QueueInv, Among
  <2>2. CASE \E i \in 1 .. Len(head) : received'[n] = head[i]
    <3>1. /\ Among(received'[n], queue, 1, k)
          /\ Among(queue'[j], queue, k + 1, Len(queue))
      BY <2>2, <1>3, <1>4
    <3>2. k \in 0 .. Len(queue) /\ k + 1 \in 1 .. Len(queue) + 1 /\ k < k + 1
      BY <1>2
    <3> QED
      BY <3>1, <3>2, <1>2, PartsInOrder
  <2> QED
    BY <2>1, <2>2, <1>6
<1>8. \A i \in 1 .. Len(queue') : queue'[i] <= submitted'
  BY <1>1, <1>2, <1>4 DEF QueueInv, Among
<1>9. \A i \in 1 .. Len(received') : received'[i] <= submitted'
  BY <1>1, <1>2, <1>3, <1>6 DEF QueueInv, Among
<1> QED
  BY <1>1, <1>4, <1>6, <1>7, <1>8, <1>9 DEF QueueInv

LEMMA LoseQueueInv == ASSUME QueueInv, Lose PROVE QueueInv'
<1>1. PICK i \in 1 .. Len(queue), j \in 1 .. Len(queue) :
        /\ i <= j
        /\ queue' = SubSeq(queue, 1, i - 1) \o SubSeq(queue, j + 1, Len(queue))
        /\ UNCHANGED <<submitted, received>>
  BY DEF Lose
<1> DEFINE head == SubSeq(queue, 1, i - 1)
           tail == SubSeq(queue, j + 1, Len(queue))
<1>2. queue \in Seq(Nat) /\ Increasing(queue) /\ Len(queue) \in Nat
  BY DEF QueueInv
<1>3. /\ head \in Seq(Nat)
      /\ Increasing(head)
      /\ \A k \in 1 .. Len(head) : Among(head[k], queue, 1, i - 1)
  <2>1. 1 \in 1 .. Len(queue) + 1 /\ i - 1 \in 0 .. Len(queue)
    BY <1>2
  <2> QED
    BY <2>1, <1>2, PartOfQueue
<1>4. /\ tail \in Seq(Nat)
      /\ Increasing(tail)
      /\ \A k \in 1 .. Len(tail) : Among(tail[k], queue, j + 1, Len(queue))
  <2>1. j + 1 \in 1 .. Len(queue) + 1 /\ Len(queue) \in 0 .. Len(queue)
    BY <1>2
  <2> QED
    BY <2>1, <1>2, PartOfQueue
<1> HIDE DEF head, tail
<1>5. ASSUME NEW k \in 1 .. Len(head), NEW l \in 1 .. Len(tail)
      PROVE  head[k] < tail[l]
  <2>1. i - 1 \in 0 .. Len(queue) /\ j + 1 \in 1 .. Len(queue) + 1 /\ i - 1 < j + 1
    BY <1>1, <1>2
  <2>2. /\ Among(head[k], queue, 1, i - 1)
        /\ Among(tail[l], queue, j + 1, Len(queue))
    BY <1>3, <1>4
  <2> QED
    BY <2>1, <2>2, <1>2, PartsInOrder
<1>6. /\ queue' \in Seq(Nat)
      /\ Increasing(queue')
      /\ \A n \in 1 .. Len(queue') :
           \/ \E k \in 1 .. Len(head) : queue'[n] = head[k]
           \/ \E l \in 1 .. Len(tail) : queue'[n] = tail[l]
  BY <1>1, <1>3, <1>4, <1>5, OrderedConcat DEF head, tail
<1>7. ASSUME NEW n \in 1 .. Len(queue')
      PROVE  Among(queue'[n], queue, 1, Len(queue))
  <2>1. Among(queue'[n], queue, 1, i - 1) \/ Among(queue'[n], queue, j + 1, Len(queue))
    BY <1>3, <1>4, <1>6
  <2> QED
    BY <2>1, <1>2 DEF Among
<1>8. \A n \in 1 .. Len(queue') : queue'[n] <= submitted'
  BY <1>1, <1>7 DEF QueueInv, Among
<1>9. \A n \in 1 .. Len(received'), m \in 1 .. Len(queue') : received'[n] < queue'[m]
  BY <1>1, <1>7 DEF QueueInv, Among
<1> QED
  BY <1>1, <1>6, <1>8, <1>9 DEF QueueInv

\* What is handed over comes in the order it was submitted and at most once, and
\* nothing that was not submitted is handed over.  Conversation implements this
\* queue (ImplementsLossyQueue), so this is what send_text, the outbox and
\* poll_once owe a client that announced no URL.
InOrder ==
  /\ \A i, j \in 1 .. Len(received) : i < j => received[i] < received[j]
  /\ \A i \in 1 .. Len(received) : received[i] <= submitted

\* A lossy queue of any capacity hands over each text once, in order.
THEOREM HandedOverInOrder == LQSpec => []InOrder
<1>1. QueueInv /\ [LQNext]_lqVars => QueueInv'
  <2> SUFFICES ASSUME QueueInv, [LQNext]_lqVars
               PROVE  QueueInv'
    OBVIOUS
  <2>1. CASE Put
    BY <2>1, PutQueueInv
  <2>2. CASE Refuse
    BY <2>2 DEF Refuse, QueueInv, Increasing
  <2>3. CASE Deliver
    BY <2>3, DeliverQueueInv
  <2>4. CASE Lose
    BY <2>4, LoseQueueInv
  <2>5. CASE UNCHANGED lqVars
    BY <2>5 DEF lqVars, QueueInv, Increasing
  <2> QED
    BY <2>1, <2>2, <2>3, <2>4, <2>5 DEF LQNext
<1>2. QueueInv => InOrder
  BY DEF QueueInv, Increasing, InOrder
<1> QED
  BY <1>1, <1>2, InitQueueInv, PTL DEF LQSpec

=============================================================================
