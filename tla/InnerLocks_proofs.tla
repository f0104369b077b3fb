--------------------------- MODULE InnerLocks_proofs ---------------------------
(***************************************************************************)
(* Proofs about InnerLocks for any number of tasks: who has which guard    *)
(* follows from where in its program each task is, so that a call is alone *)
(* at the node between its sections, and no tasks wait for each other in a *)
(* circle.                                                                 *)
(***************************************************************************)
EXTENDS InnerLocks, Integers, SequenceTheorems, WellFoundedInduction, TLAPS

Operations == DOMAIN Program

Commands ==
  {"start_listener", "get_status", "set_advertise_host", "connect_again", "connect_new",
   "send_chat_message"}

Calls == {"connect_again", "connect_new", "send_chat_message"}

Takes(lock) == [act |-> "write", lock |-> lock]
Reads(lock) == [act |-> "read", lock |-> lock]
Drops(lock) == [act |-> "drop", lock |-> lock]

\* Before which steps an operation has io_lock.
IoSection ==
  [start_listener |-> {}, get_status |-> {}, set_advertise_host |-> {},
   connect_again |-> 3 .. 7, connect_new |-> 3 .. 13, send_chat_message |-> 3 .. 9,
   handshake |-> 2 .. 4, message |-> 2 .. 4, identity |-> {}, poll |-> 6 .. 8]

\* Whether an operation has the write guard of a lock before its p-th step: the
\* node mutex is kept throughout a command, the three inner locks for one step.
Has(op, p, lock) ==
  IF lock = "node" THEN op \in Commands /\ p \in 2 .. Len(Program[op])
  ELSE IF lock = "io" THEN p \in IoSection[op]
  ELSE p > 1 /\ Program[op][p - 1] = Takes(lock)

\* How many of its read guards.
ReadGuards(op, p, lock) ==
  IF lock # "inner" \/ p = 1 THEN 0
  ELSE IF op = "connect_again" THEN (IF p = 5 THEN 2 ELSE IF p \in {4, 6} THEN 1 ELSE 0)
  ELSE IF Program[op][p - 1].act = "read" THEN 1 ELSE 0

\* The order in which the locks are taken.
Rank(lock) == IF lock = "node" THEN 1 ELSE IF lock = "io" THEN 2 ELSE 3

\* The p-th step takes or drops the one guard.
GuardsFollow(op, p) ==
  LET step == Program[op][p]
  IN /\ step.act \in {"write", "read", "drop"} /\ step.lock \in Locks
     /\ \A lock \in Locks \ {step.lock} :
          /\ Has(op, p + 1, lock) <=> Has(op, p, lock)
          /\ ReadGuards(op, p + 1, lock) = ReadGuards(op, p, lock)
     /\ Has(op, p + 1, step.lock) <=>
          step.act = "write" \/ (step.act = "read" /\ Has(op, p, step.lock))
     /\ ReadGuards(op, p + 1, step.lock) =
          IF step.act = "read" THEN ReadGuards(op, p, step.lock) + 1
          ELSE IF step.act = "drop" /\ ~Has(op, p, step.lock)
          THEN ReadGuards(op, p, step.lock) - 1
          ELSE ReadGuards(op, p, step.lock)

\* Guards are taken in the order of the ranks, but for the second read guard of
\* connect_to; who writes to the node has io_lock or the node mutex, and who is in
\* a call has both.
Disciplined(op, p) ==
  LET step == Program[op][p]
  IN /\ step.act # "drop" =>
          \A lock \in Locks :
            /\ Has(op, p, lock) => Rank(lock) < Rank(step.lock)
            /\ ReadGuards(op, p, lock) > 0 =>
                 /\ step.act = "read"
                 /\ Has(op, p, "node")
                 /\ Has(op, p, "io")
     /\ (step.act = "write" /\ step.lock = "inner") \/ Has(op, p, "inner") =>
          Has(op, p, "node") \/ Has(op, p, "io")
     /\ op \in Calls /\ Has(op, p, "io") => Has(op, p, "node")

-----------------------------------------------------------------------------
(* The programs, step by step.                                             *)

Follows(op) ==
  /\ Len(Program[op]) \in Nat \ {0}
  /\ \A p \in 1 .. Len(Program[op]) : GuardsFollow(op, p) /\ Disciplined(op, p)
  /\ \A p \in 1 .. Len(Program[op]) + 1, lock \in Locks : ReadGuards(op, p, lock) \in 0 .. 2
  /\ \A lock \in Locks :
       /\ ~Has(op, 1, lock) /\ ~Has(op, Len(Program[op]) + 1, lock)
       /\ ReadGuards(op, 1, lock) = 0 /\ ReadGuards(op, Len(Program[op]) + 1, lock) = 0

\* Each of the ten programs takes and drops its guards like this.
LEMMA ProgramsFollow == \A op \in Operations : Follows(op)
<1>1. Follows("start_listener")
  <2>1. LET prog == Program["start_listener"]
        IN /\ Len(prog) = 6
           /\ prog[1] = Takes("node") /\ prog[2] = Reads("inner")
           /\ prog[3] = Drops("inner") /\ prog[4] = Takes("server")
           /\ prog[5] = Drops("server") /\ prog[6] = Drops("node")
    BY DEF Program, start_listener, WithNode, Lock, Drop, snapshot, Read, Takes, Reads, Drops
  <2> QED
    BY <2>1
    DEF Follows, GuardsFollow, Disciplined, Has, ReadGuards, Rank, Takes, Reads, Drops, Locks,
        IoSection, Commands, Calls
<1>2. Follows("get_status")
  <2>1. LET prog == Program["get_status"]
        IN /\ Len(prog) = 4
           /\ prog[1] = Takes("node") /\ prog[2] = Reads("inner")
           /\ prog[3] = Drops("inner") /\ prog[4] = Drops("node")
    BY DEF Program, WithNode, Lock, Drop, snapshot, Read, Takes, Reads, Drops
  <2> QED
    BY <2>1
    DEF Follows, GuardsFollow, Disciplined, Has, ReadGuards, Rank, Takes, Reads, Drops, Locks,
        IoSection, Commands, Calls
<1>3. Follows("set_advertise_host")
  <2>1. LET prog == Program["set_advertise_host"]
        IN /\ Len(prog) = 6
           /\ prog[1] = Takes("node") /\ prog[2] = Takes("inner")
           /\ prog[3] = Drops("inner") /\ prog[4] = Reads("inner")
           /\ prog[5] = Drops("inner") /\ prog[6] = Drops("node")
    BY DEF Program, set_advertise_host, WithNode, Lock, Drop, update, Write, snapshot, Read,
           Takes, Reads, Drops
  <2> QED
    BY <2>1
    DEF Follows, GuardsFollow, Disciplined, Has, ReadGuards, Rank, Takes, Reads, Drops, Locks,
        IoSection, Commands, Calls
<1>4. Follows("connect_again")
  <2>1. LET prog == Program["connect_again"]
        IN /\ Len(prog) = 8
           /\ prog[1] = Takes("node") /\ prog[2] = Takes("io")
           /\ prog[3] = Reads("inner") /\ prog[4] = Reads("inner")
           /\ prog[5] = Drops("inner") /\ prog[6] = Drops("inner")
           /\ prog[7] = Drops("io") /\ prog[8] = Drops("node")
    BY DEF Program, connect_again, WithNode, Lock, Drop, WithIoLock, snapshot, Read, Takes,
           Reads, Drops
  <2> QED
    BY <2>1
    DEF Follows, GuardsFollow, Disciplined, Has, ReadGuards, Rank, Takes, Reads, Drops, Locks,
        IoSection, Commands, Calls
<1>5. Follows("connect_new")
  <2>1. LET prog == Program["connect_new"]
        IN /\ Len(prog) = 14
           /\ prog[1] = Takes("node") /\ prog[2] = Takes("io")
           /\ prog[3] = Reads("inner") /\ prog[4] = Drops("inner")
           /\ prog[5] = Reads("inner") /\ prog[6] = Drops("inner")
           /\ prog[7] = Takes("inner") /\ prog[8] = Drops("inner")
           /\ prog[9] = Takes("poller") /\ prog[10] = Drops("poller")
           /\ prog[11] = Reads("inner") /\ prog[12] = Drops("inner")
           /\ prog[13] = Drops("io") /\ prog[14] = Drops("node")
    BY DEF Program, connect_new, WithNode, Lock, Drop, WithIoLock, ensure_poller, update,
           Write, snapshot, Read, Takes, Reads, Drops
  <2>2. \A p \in 1 .. 14 : GuardsFollow("connect_new", p)
    BY <2>1 DEF GuardsFollow, Has, ReadGuards, Takes, Reads, Drops, Locks, IoSection, Commands
  <2>3. \A p \in 1 .. 14 : Disciplined("connect_new", p)
    BY <2>1 DEF Disciplined, Has, ReadGuards, Rank, Takes, Reads, Drops, Locks, IoSection,
              Commands, Calls
  <2> QED
    BY <2>1, <2>2, <2>3
    DEF Follows, Has, ReadGuards, Takes, Reads, Drops, Locks, IoSection, Commands
<1>6. Follows("send_chat_message")
  <2>1. LET prog == Program["send_chat_message"]
        IN /\ Len(prog) = 12
           /\ prog[1] = Takes("node") /\ prog[2] = Takes("io")
           /\ prog[3] = Reads("inner") /\ prog[4] = Drops("inner")
           /\ prog[5] = Takes("inner") /\ prog[6] = Drops("inner")
           /\ prog[7] = Takes("inner") /\ prog[8] = Drops("inner")
           /\ prog[9] = Drops("io") /\ prog[10] = Reads("inner")
           /\ prog[11] = Drops("inner") /\ prog[12] = Drops("node")
    BY DEF Program, send_text, WithNode, Lock, Drop, WithIoLock, update, Write, snapshot,
           Read, Takes, Reads, Drops
  <2>2. \A p \in 1 .. 12 : GuardsFollow("send_chat_message", p)
    BY <2>1 DEF GuardsFollow, Has, ReadGuards, Takes, Reads, Drops, Locks, IoSection, Commands
  <2>3. \A p \in 1 .. 12 : Disciplined("send_chat_message", p)
    BY <2>1 DEF Disciplined, Has, ReadGuards, Rank, Takes, Reads, Drops, Locks, IoSection,
              Commands, Calls
  <2> QED
    BY <2>1, <2>2, <2>3
    DEF Follows, Has, ReadGuards, Takes, Reads, Drops, Locks, IoSection, Commands
<1>7. Follows("handshake")
  <2>1. LET prog == Program["handshake"]
        IN /\ Len(prog) = 6
           /\ prog[1] = Takes("io") /\ prog[2] = Takes("inner")
           /\ prog[3] = Drops("inner") /\ prog[4] = Drops("io")
           /\ prog[5] = Takes("poller") /\ prog[6] = Drops("poller")
    BY DEF Program, handshake, message, ensure_poller, WithIoLock, Lock, Drop, update, Write,
           Takes, Reads, Drops
  <2> QED
    BY <2>1
    DEF Follows, GuardsFollow, Disciplined, Has, ReadGuards, Rank, Takes, Reads, Drops, Locks,
        IoSection, Commands, Calls
<1>8. Follows("message")
  <2>1. LET prog == Program["message"]
        IN /\ Len(prog) = 4
           /\ prog[1] = Takes("io") /\ prog[2] = Takes("inner")
           /\ prog[3] = Drops("inner") /\ prog[4] = Drops("io")
    BY DEF Program, message, WithIoLock, Lock, Drop, update, Write, Takes, Reads, Drops
  <2> QED
    BY <2>1
    DEF Follows, GuardsFollow, Disciplined, Has, ReadGuards, Rank, Takes, Reads, Drops, Locks,
        IoSection, Commands, Calls
<1>9. Follows("identity")
  <2>1. LET prog == Program["identity"]
        IN /\ Len(prog) = 2
           /\ prog[1] = Reads("inner") /\ prog[2] = Drops("inner")
    BY SMTT(20) DEF Program, identity, Drop, snapshot, Read, Takes, Reads, Drops
  <2> QED
    BY <2>1
    DEF Follows, GuardsFollow, Disciplined, Has, ReadGuards, Rank, Takes, Reads, Drops, Locks,
        IoSection, Commands, Calls
<1>10. Follows("poll")
  <2>1. LET prog == Program["poll"]
        IN /\ Len(prog) = 8
           /\ prog[1] = Reads("inner") /\ prog[2] = Drops("inner")
           /\ prog[3] = Reads("inner") /\ prog[4] = Drops("inner")
           /\ prog[5] = Takes("io") /\ prog[6] = Takes("inner")
           /\ prog[7] = Drops("inner") /\ prog[8] = Drops("io")
    BY DEF Program, poll, WithIoLock, Lock, Drop, update, Write, snapshot, Read, Takes,
           Reads, Drops
  <2> QED
    BY <2>1
    DEF Follows, GuardsFollow, Disciplined, Has, ReadGuards, Rank, Takes, Reads, Drops, Locks,
        IoSection, Commands, Calls
<1>11. Operations =
         {"start_listener", "get_status", "set_advertise_host", "connect_again", "connect_new",
          "send_chat_message", "handshake", "message", "identity", "poll"}
  BY DEF Operations, Program
<1> QED
  BY <1>1, <1>2, <1>3, <1>4, <1>5, <1>6, <1>7, <1>8, <1>9, <1>10, <1>11


-----------------------------------------------------------------------------
(* The invariant.                                                          *)

\* The guards of a task follow from where it is.
Guarded(t) ==
  /\ ~Busy(t) => pc[t] = 1
  /\ Busy(t) => pc[t] \in 1 .. Len(Program[doing[t]]) + 1
  /\ \A lock \in Locks :
       /\ t \in writing[lock] <=> Busy(t) /\ Has(doing[t], pc[t], lock)
       /\ reading[lock][t] = IF Busy(t) THEN ReadGuards(doing[t], pc[t], lock) ELSE 0

AboutToTake(t, lock) ==
  Busy(t) /\ ~Ended(t) /\ Step(t).act # "drop" /\ Step(t).lock = lock

\* Who waits for a lock is about to take it, and waits once.
InLine(lock) ==
  /\ \A k \in DOMAIN queue[lock] : AboutToTake(queue[lock][k], lock)
  /\ \A j, k \in DOMAIN queue[lock] : queue[lock][j] = queue[lock][k] => j = k

\* A write guard is the only guard of its lock.
Exclusive(lock) ==
  \A t \in writing[lock], other \in Tasks :
    /\ other \in writing[lock] => other = t
    /\ reading[lock][other] = 0

LockTypes ==
  /\ doing \in [Tasks -> Operations \cup {"idle"}]
  /\ pc \in [Tasks -> Nat]
  /\ queue \in [Locks -> Seq(Tasks)]
  /\ writing \in [Locks -> SUBSET Tasks]
  /\ reading \in [Locks -> [Tasks -> Int]]

LockInv ==
  /\ LockTypes
  /\ \A t \in Tasks : Guarded(t)
  /\ \A lock \in Locks : InLine(lock) /\ Exclusive(lock)

\* A task in the middle of an operation, and its step.
LEMMA BusyFollows ==
  ASSUME LockInv, NEW t \in Tasks, Busy(t)
  PROVE  /\ doing[t] \in Operations /\ Follows(doing[t])
         /\ pc[t] \in 1 .. Len(Program[doing[t]]) + 1
         /\ ~Ended(t) => pc[t] \in 1 .. Len(Program[doing[t]])
<1>1. doing[t] \in Operations
  BY DEF LockInv, LockTypes, Busy
<1>2. Follows(doing[t])
  BY <1>1, ProgramsFollow
<1>3. pc[t] \in 1 .. Len(Program[doing[t]]) + 1
  BY DEF LockInv, Guarded
<1> QED
  BY <1>1, <1>2, <1>3 DEF Follows, Ended

LEMMA WaitsAboutToTake ==
  ASSUME LockInv, NEW t \in Tasks, NEW lock \in Locks, WaitsFor(lock, t)
  PROVE  AboutToTake(t, lock)
BY DEF LockInv, InLine, WaitsFor

\* What a step leaves alone.
LEMMA OthersGuarded ==
  ASSUME LockInv, NEW u \in Tasks, doing'[u] = doing[u], pc'[u] = pc[u],
         \A lock \in Locks : /\ u \in writing'[lock] <=> u \in writing[lock]
                             /\ reading'[lock][u] = reading[lock][u]
  PROVE  Guarded(u)'
<1>1. Guarded(u)
  BY DEF LockInv
<1> QED
  BY <1>1 DEF Guarded, Busy

LEMMA LineStays ==
  ASSUME LockInv, NEW t \in Tasks, \A u \in Tasks \ {t} : doing'[u] = doing[u] /\ pc'[u] = pc[u],
         NEW lock \in Locks, queue'[lock] = queue[lock], ~WaitsFor(lock, t)
  PROVE  InLine(lock)'
<1>1. InLine(lock) /\ queue[lock] \in Seq(Tasks)
  BY DEF LockInv, LockTypes
<1>2. ASSUME NEW k \in DOMAIN queue[lock]
      PROVE  AboutToTake(queue[lock][k], lock)'
  <2>1. PICK u \in Tasks \ {t} : u = queue[lock][k]
    BY <1>1 DEF WaitsFor
  <2>2. AboutToTake(u, lock)
    BY <1>1, <2>1 DEF InLine
  <2>3. doing'[u] = doing[u] /\ pc'[u] = pc[u]
    OBVIOUS
  <2>4. AboutToTake(u, lock)'
    BY <2>2, <2>3 DEF AboutToTake, Busy, Ended, Step
  <2> QED
    BY <2>1, <2>4 DEF AboutToTake, Busy, Ended, Step
<1> QED
  BY <1>1, <1>2 DEF InLine

-----------------------------------------------------------------------------
(* The steps.                                                              *)

LEMMA LockInvInit == LockInit => LockInv
<1> SUFFICES ASSUME LockInit PROVE LockInv
  OBVIOUS
<1>1. LockTypes
  BY DEF LockInit, LockTypes
<1>2. ASSUME NEW t \in Tasks PROVE Guarded(t)
  BY DEF LockInit, Guarded, Busy
<1>3. ASSUME NEW lock \in Locks PROVE InLine(lock) /\ Exclusive(lock)
  BY DEF LockInit, InLine, Exclusive
<1> QED
  BY <1>1, <1>2, <1>3 DEF LockInv

LEMMA BeginKeeps ==
  ASSUME LockInv, NEW t \in Tasks, Begin(t)
  PROVE  LockInv'
<1>1. PICK op \in Operations : doing' = [doing EXCEPT ![t] = op]
  BY DEF Begin, Operations
<1>2. /\ ~Busy(t) /\ UNCHANGED <<pc, queue, writing, reading>>
      /\ LockTypes /\ Guarded(t) /\ Follows(op)
  BY ProgramsFollow DEF Begin, LockInv
<1>3. LockTypes'
  BY <1>1, <1>2 DEF LockTypes
<1>4. \A u \in Tasks \ {t} : doing'[u] = doing[u] /\ pc'[u] = pc[u]
  BY <1>1, <1>2 DEF LockTypes
<1>5. ASSUME NEW u \in Tasks PROVE Guarded(u)'
  <2>1. CASE u = t
    <3>1. doing'[t] = op /\ op # "idle" /\ pc'[t] = 1
      BY <1>1, <1>2 DEF LockTypes, Guarded, Operations, Program
    <3>2. \A lock \in Locks : t \notin writing'[lock] /\ reading'[lock][t] = 0
      BY <1>2 DEF Guarded
    <3> QED
      BY <1>2, <2>1, <3>1, <3>2 DEF Guarded, Busy, Follows
  <2>2. CASE u # t
    BY <1>2, <1>4, <2>2, OthersGuarded
  <2> QED
    BY <2>1, <2>2
<1>6. ASSUME NEW lock \in Locks PROVE InLine(lock)' /\ Exclusive(lock)'
  <2>1. ~WaitsFor(lock, t)
    BY <1>2, WaitsAboutToTake DEF AboutToTake
  <2>2. InLine(lock)'
    BY <1>2, <1>4, <2>1, LineStays
  <2> QED
    BY <1>2, <2>2 DEF LockInv, Exclusive
<1> QED
  BY <1>3, <1>5, <1>6 DEF LockInv

LEMMA RequestKeeps ==
  ASSUME LockInv, NEW t \in Tasks, Request(t)
  PROVE  LockInv'
<1>1. PICK lock : lock = Step(t).lock
  OBVIOUS
<1>2. /\ Busy(t) /\ ~Ended(t) /\ ~Waits(t) /\ Step(t).act # "drop"
      /\ queue' = [queue EXCEPT ![lock] = Append(@, t)]
      /\ UNCHANGED <<doing, pc, writing, reading>>
      /\ LockTypes
  BY <1>1 DEF Request, LockInv
<1>3. lock \in Locks
  BY <1>1, <1>2, BusyFollows DEF Follows, GuardsFollow, Step
<1>4. LockTypes'
  BY <1>2, <1>3 DEF LockTypes
<1>5. ASSUME NEW u \in Tasks PROVE Guarded(u)'
  BY <1>2, OthersGuarded
<1>6. ASSUME NEW other \in Locks PROVE InLine(other)'
  <2>1. CASE other = lock
    <3>1. PICK line : line = queue[lock]
      OBVIOUS
    <3>2. /\ line \in Seq(Tasks) /\ queue'[lock] = Append(line, t)
          /\ \A k \in DOMAIN line : line[k] # t
          /\ \A k \in DOMAIN line : AboutToTake(line[k], lock)
          /\ \A j, k \in DOMAIN line : line[j] = line[k] => j = k
      BY <1>2, <1>3, <3>1 DEF LockInv, LockTypes, InLine, Waits, WaitsFor
    <3>3. /\ DOMAIN Append(line, t) = 1 .. Len(line) + 1 /\ DOMAIN line = 1 .. Len(line)
          /\ Len(line) \in Nat
          /\ \A k \in 1 .. Len(line) : Append(line, t)[k] = line[k]
          /\ Append(line, t)[Len(line) + 1] = t
      BY <3>2, AppendProperties
    <3>4. AboutToTake(t, lock)
      BY <1>1, <1>2 DEF AboutToTake
    <3>5. PICK longer : longer = Append(line, t)
      OBVIOUS
    <3>6. /\ \A k \in DOMAIN longer : AboutToTake(longer[k], lock)
          /\ \A j, k \in DOMAIN longer : longer[j] = longer[k] => j = k
      BY <3>2, <3>3, <3>4, <3>5
    <3>7. \A k \in DOMAIN longer : AboutToTake(longer[k], lock)'
      BY <1>2, <3>6 DEF AboutToTake, Busy, Ended, Step
    <3> QED
      BY <2>1, <3>2, <3>5, <3>6, <3>7 DEF InLine, AboutToTake, Busy, Ended, Step
  <2>2. CASE other # lock
    <3>1. queue'[other] = queue[other] /\ ~WaitsFor(other, t)
      BY <1>2, <2>2 DEF LockTypes, Waits
    <3> QED
      BY <1>2, <3>1, LineStays
  <2> QED
    BY <2>1, <2>2
<1>7. ASSUME NEW other \in Locks PROVE Exclusive(other)'
  BY <1>2 DEF LockInv, Exclusive
<1> QED
  BY <1>4, <1>5, <1>6, <1>7 DEF LockInv

\* One task's count of read guards changes.
LEMMA Recounted ==
  ASSUME NEW old \in [Locks -> [Tasks -> Int]], NEW lock \in Locks, NEW t \in Tasks, NEW x \in Int,
         NEW new, new = [old EXCEPT ![lock][t] = x]
  PROVE  /\ new \in [Locks -> [Tasks -> Int]]
         /\ \A other \in Locks, u \in Tasks :
              new[other][u] = IF other = lock /\ u = t THEN x ELSE old[other][u]
<1>1. PICK row : row = [old[lock] EXCEPT ![t] = x]
  OBVIOUS
<1>2. row \in [Tasks -> Int] /\ \A u \in Tasks : row[u] = IF u = t THEN x ELSE old[lock][u]
  <2>1. old[lock] \in [Tasks -> Int]
    OBVIOUS
  <2> QED
    BY <1>1, <2>1
<1>3. new = [old EXCEPT ![lock] = row]
  BY <1>1
<1>4. /\ new \in [Locks -> [Tasks -> Int]]
      /\ \A other \in Locks : new[other] = IF other = lock THEN row ELSE old[other]
  BY <1>2, <1>3
<1> QED
  BY <1>2, <1>4

\* The guards of a task that has taken or dropped one.
LEMMA StepGuards ==
  ASSUME LockInv, NEW t \in Tasks, Busy(t), ~Ended(t), doing' = doing,
         pc' = [pc EXCEPT ![t] = @ + 1],
         \A lock \in Locks :
           /\ t \in writing'[lock] <=> Has(doing[t], pc[t] + 1, lock)
           /\ reading'[lock][t] = ReadGuards(doing[t], pc[t] + 1, lock),
         \A u \in Tasks \ {t}, lock \in Locks :
           /\ u \in writing'[lock] <=> u \in writing[lock]
           /\ reading'[lock][u] = reading[lock][u]
  PROVE  /\ \A u \in Tasks : Guarded(u)'
         /\ \A u \in Tasks \ {t} : doing'[u] = doing[u] /\ pc'[u] = pc[u]
<1>1. LockTypes /\ pc[t] \in 1 .. Len(Program[doing[t]]) /\ Len(Program[doing[t]]) \in Nat
  BY BusyFollows DEF LockInv, Follows
<1>2. pc'[t] = pc[t] + 1 /\ \A u \in Tasks \ {t} : pc'[u] = pc[u]
  BY <1>1 DEF LockTypes
<1>3. Guarded(t)'
  BY <1>1, <1>2 DEF Guarded, Busy
<1>4. ASSUME NEW u \in Tasks \ {t} PROVE Guarded(u)'
  BY <1>2, OthersGuarded
<1> QED
  BY <1>2, <1>3, <1>4

\* What a step does to the guards, act by act.
LEMMA StepFollows ==
  ASSUME NEW op, NEW p, GuardsFollow(op, p), NEW lock, lock = Program[op][p].lock
  PROVE  /\ lock \in Locks
         /\ \A other \in Locks \ {lock} :
              /\ Has(op, p + 1, other) <=> Has(op, p, other)
              /\ ReadGuards(op, p + 1, other) = ReadGuards(op, p, other)
         /\ Program[op][p].act = "write" =>
              /\ Has(op, p + 1, lock)
              /\ ReadGuards(op, p + 1, lock) = ReadGuards(op, p, lock)
         /\ Program[op][p].act = "read" /\ ~Has(op, p, lock) =>
              /\ ~Has(op, p + 1, lock)
              /\ ReadGuards(op, p + 1, lock) = ReadGuards(op, p, lock) + 1
         /\ Program[op][p].act = "drop" =>
              /\ ~Has(op, p + 1, lock)
              /\ ReadGuards(op, p + 1, lock) =
                   IF Has(op, p, lock) THEN ReadGuards(op, p, lock) ELSE ReadGuards(op, p, lock) - 1
BY DEF GuardsFollow

LEMMA AcquireKeeps ==
  ASSUME LockInv, NEW t \in Tasks, Acquire(t)
  PROVE  LockInv'
<1>1. PICK lock : lock = Step(t).lock
  OBVIOUS
<1>2. /\ Busy(t) /\ Waits(t) /\ Head(queue[lock]) = t /\ writing[lock] = {}
      /\ queue' = [queue EXCEPT ![lock] = Tail(@)]
      /\ IF Step(t).act = "read"
         THEN /\ reading' = [reading EXCEPT ![lock][t] = @ + 1]
              /\ UNCHANGED writing
         ELSE /\ \A other \in Tasks : reading[lock][other] = 0
              /\ writing' = [writing EXCEPT ![lock] = {t}]
              /\ UNCHANGED reading
      /\ pc' = [pc EXCEPT ![t] = @ + 1]
      /\ doing' = doing
      /\ LockTypes
  BY <1>1 DEF Acquire, LockInv
<1>3. lock \in Locks /\ WaitsFor(lock, t) /\ AboutToTake(t, lock)
  BY <1>1, <1>2, WaitsAboutToTake DEF Waits, AboutToTake
<1>4. /\ pc[t] \in 1 .. Len(Program[doing[t]]) /\ doing[t] \in Operations /\ Follows(doing[t])
      /\ Guarded(t)
  BY <1>2, <1>3, BusyFollows DEF AboutToTake, LockInv
<1>5. GuardsFollow(doing[t], pc[t])
  BY <1>4 DEF Follows
<1>6. \A other \in Locks :
        /\ t \in writing'[other] <=> Has(doing[t], pc[t] + 1, other)
        /\ reading'[other][t] = ReadGuards(doing[t], pc[t] + 1, other)
  <2>1. ASSUME NEW other \in Locks \ {lock}
        PROVE  /\ t \in writing'[other] <=> Has(doing[t], pc[t] + 1, other)
               /\ reading'[other][t] = ReadGuards(doing[t], pc[t] + 1, other)
    <3>1. writing'[other] = writing[other] /\ reading'[other] = reading[other]
      BY <1>2 DEF LockTypes
    <3>2. /\ Has(doing[t], pc[t] + 1, other) <=> Has(doing[t], pc[t], other)
          /\ ReadGuards(doing[t], pc[t] + 1, other) = ReadGuards(doing[t], pc[t], other)
      BY <1>1, <1>5, StepFollows DEF Step
    <3> QED
      BY <1>2, <1>4, <3>1, <3>2 DEF Guarded
  <2>2. /\ ~Has(doing[t], pc[t], lock)
        /\ reading[lock][t] = ReadGuards(doing[t], pc[t], lock)
    BY <1>2, <1>3, <1>4 DEF Guarded
  <2>3. CASE Step(t).act = "read"
    <3>1. /\ ~Has(doing[t], pc[t] + 1, lock)
          /\ ReadGuards(doing[t], pc[t] + 1, lock) = ReadGuards(doing[t], pc[t], lock) + 1
      BY <1>1, <1>5, <2>2, <2>3, StepFollows DEF Step
    <3>2. t \notin writing'[lock] /\ reading'[lock][t] = reading[lock][t] + 1
      BY <1>2, <1>3, <2>3 DEF LockTypes
    <3> QED
      BY <2>1, <2>2, <3>1, <3>2
  <2>4. CASE Step(t).act = "write"
    <3>1. /\ Has(doing[t], pc[t] + 1, lock)
          /\ ReadGuards(doing[t], pc[t] + 1, lock) = ReadGuards(doing[t], pc[t], lock)
      BY <1>1, <1>5, <2>4, StepFollows DEF Step
    <3>2. t \in writing'[lock] /\ reading'[lock][t] = reading[lock][t]
      BY <1>2, <1>3, <2>4 DEF LockTypes
    <3> QED
      BY <2>1, <2>2, <3>1, <3>2
  <2> QED
    BY <1>3, <1>5, <2>3, <2>4 DEF GuardsFollow, Step, AboutToTake
<1>7. /\ reading' \in [Locks -> [Tasks -> Int]] /\ writing' \in [Locks -> SUBSET Tasks]
      /\ \A u \in Tasks \ {t}, other \in Locks :
           /\ u \in writing'[other] <=> u \in writing[other]
           /\ reading'[other][u] = reading[other][u]
  <2>1. CASE Step(t).act = "read"
    <3>1. PICK x \in Int : reading' = [reading EXCEPT ![lock][t] = x]
      <4>1. reading[lock][t] + 1 \in Int
        BY <1>2, <1>3 DEF LockTypes
      <4> QED
        BY <1>2, <2>1, <4>1
    <3>2. /\ reading' \in [Locks -> [Tasks -> Int]]
          /\ \A other \in Locks, u \in Tasks :
               reading'[other][u] = IF other = lock /\ u = t THEN x ELSE reading[other][u]
      BY <1>2, <1>3, <3>1, Recounted DEF LockTypes
    <3> QED
      BY <1>2, <2>1, <3>2 DEF LockTypes
  <2>2. CASE Step(t).act # "read"
    <3>1. writing' = [writing EXCEPT ![lock] = {t}] /\ reading' = reading
      BY <1>2, <2>2
    <3>2. writing' \in [Locks -> SUBSET Tasks]
      BY <1>2, <3>1 DEF LockTypes
    <3>3. \A other \in Locks : writing'[other] = IF other = lock THEN {t} ELSE writing[other]
      BY <1>2, <3>1 DEF LockTypes
    <3> QED
      BY <1>2, <3>1, <3>2, <3>3 DEF LockTypes
  <2> QED
    BY <2>1, <2>2
<1>8. /\ \A u \in Tasks : Guarded(u)'
      /\ \A u \in Tasks \ {t} : doing'[u] = doing[u] /\ pc'[u] = pc[u]
  BY <1>2, <1>3, <1>6, <1>7, StepGuards DEF AboutToTake
<1>9. PICK line : line = queue[lock]
  OBVIOUS
<1>10. /\ line \in Seq(Tasks) /\ line # <<>> /\ line[1] = t
       /\ \A j, k \in DOMAIN line : line[j] = line[k] => j = k
       /\ \A k \in DOMAIN line : AboutToTake(line[k], lock)
  BY <1>2, <1>3, <1>9 DEF LockInv, LockTypes, InLine, WaitsFor
<1>11. PICK rest : rest = Tail(line)
  OBVIOUS
<1>12. /\ rest \in Seq(Tasks)
       /\ \A k \in DOMAIN rest : k + 1 \in DOMAIN line /\ k + 1 # 1 /\ rest[k] = line[k + 1]
       /\ \A j, k \in DOMAIN rest : j + 1 = k + 1 => j = k
       /\ 1 \in DOMAIN line
  <2>1. Len(rest) = Len(line) - 1 /\ \A k \in 1 .. Len(rest) : rest[k] = line[k + 1]
    BY <1>10, <1>11, HeadTailProperties
  <2>2. rest \in Seq(Tasks) /\ DOMAIN rest = 1 .. Len(rest) /\ DOMAIN line = 1 .. Len(line)
        /\ Len(line) \in Nat
    BY <1>10, <1>11, HeadTailProperties
  <2> QED
    BY <1>10, <2>1, <2>2
<1>13. InLine(lock)'
  <2>1. queue'[lock] = rest
    BY <1>2, <1>3, <1>9, <1>11 DEF LockTypes
  <2>2. ASSUME NEW k \in DOMAIN rest
        PROVE  AboutToTake(rest[k], lock)'
    <3>1. PICK u : u = rest[k]
      OBVIOUS
    <3>2. u \in Tasks \ {t} /\ AboutToTake(u, lock)
      BY <1>10, <1>12, <3>1
    <3>3. doing'[u] = doing[u] /\ pc'[u] = pc[u]
      BY <1>8, <3>2
    <3>4. AboutToTake(u, lock)'
      BY <3>2, <3>3 DEF AboutToTake, Busy, Ended, Step
    <3> QED
      BY <3>1, <3>4 DEF AboutToTake, Busy, Ended, Step
  <2>3. \A j, k \in DOMAIN rest : rest[j] = rest[k] => j = k
    BY <1>10, <1>12
  <2> QED
    BY <2>1, <2>2, <2>3 DEF InLine, AboutToTake, Busy, Ended, Step
<1>14. ASSUME NEW other \in Locks PROVE InLine(other)'
  <2>1. CASE other # lock
    <3>1. queue'[other] = queue[other] /\ ~WaitsFor(other, t)
      BY <1>2, <1>3, <2>1, WaitsAboutToTake DEF LockTypes, AboutToTake
    <3> QED
      BY <1>8, <3>1, LineStays
  <2> QED
    BY <1>13, <2>1
<1>15. ASSUME NEW other \in Locks PROVE Exclusive(other)'
  <2>1. Exclusive(other) /\ Exclusive(lock)
    BY <1>3 DEF LockInv
  <2>2. CASE other = lock
    BY <1>2, <1>3, <2>2 DEF Exclusive, LockTypes
  <2>3. CASE other # lock
    BY <1>2, <1>3, <2>1, <2>3 DEF Exclusive, LockTypes
  <2> QED
    BY <2>2, <2>3
<1>16. LockTypes'
  <2>1. queue' \in [Locks -> Seq(Tasks)]
    BY <1>2, <1>3, <1>9, <1>11, <1>12 DEF LockTypes
  <2>2. doing' \in [Tasks -> Operations \cup {"idle"}] /\ pc' \in [Tasks -> Nat]
    BY <1>2 DEF LockTypes
  <2> QED
    BY <1>7, <2>1, <2>2 DEF LockTypes
<1> QED
  BY <1>8, <1>14, <1>15, <1>16 DEF LockInv

LEMMA DropGuardKeeps ==
  ASSUME LockInv, NEW t \in Tasks, DropGuard(t)
  PROVE  LockInv'
<1>1. PICK lock : lock = Step(t).lock
  OBVIOUS
<1>2. /\ Busy(t) /\ ~Ended(t) /\ Step(t).act = "drop"
      /\ IF t \in writing[lock]
         THEN writing' = [writing EXCEPT ![lock] = @ \ {t}] /\ UNCHANGED reading
         ELSE reading' = [reading EXCEPT ![lock][t] = @ - 1] /\ UNCHANGED writing
      /\ pc' = [pc EXCEPT ![t] = @ + 1]
      /\ doing' = doing /\ queue' = queue
      /\ LockTypes
  BY <1>1 DEF DropGuard, LockInv
<1>3. /\ pc[t] \in 1 .. Len(Program[doing[t]]) /\ doing[t] \in Operations /\ Follows(doing[t])
      /\ Guarded(t) /\ Busy(t)
  BY <1>2, BusyFollows DEF LockInv
<1>4. GuardsFollow(doing[t], pc[t]) /\ lock \in Locks
  BY <1>1, <1>3 DEF Follows, GuardsFollow, Step
<1>5. \A other \in Locks :
        /\ t \in writing'[other] <=> Has(doing[t], pc[t] + 1, other)
        /\ reading'[other][t] = ReadGuards(doing[t], pc[t] + 1, other)
  <2>1. ASSUME NEW other \in Locks \ {lock}
        PROVE  /\ t \in writing'[other] <=> Has(doing[t], pc[t] + 1, other)
               /\ reading'[other][t] = ReadGuards(doing[t], pc[t] + 1, other)
    <3>1. writing'[other] = writing[other] /\ reading'[other] = reading[other]
      BY <1>2 DEF LockTypes
    <3>2. /\ Has(doing[t], pc[t] + 1, other) <=> Has(doing[t], pc[t], other)
          /\ ReadGuards(doing[t], pc[t] + 1, other) = ReadGuards(doing[t], pc[t], other)
      BY <1>1, <1>4, StepFollows DEF Step
    <3> QED
      BY <1>2, <1>3, <3>1, <3>2 DEF Guarded
  <2>2. /\ t \in writing[lock] <=> Has(doing[t], pc[t], lock)
        /\ reading[lock][t] = ReadGuards(doing[t], pc[t], lock)
    BY SMTT(30), <1>3, <1>4 DEF Guarded
  <2>3. /\ ~Has(doing[t], pc[t] + 1, lock)
        /\ ReadGuards(doing[t], pc[t] + 1, lock) =
             IF Has(doing[t], pc[t], lock) THEN ReadGuards(doing[t], pc[t], lock)
             ELSE ReadGuards(doing[t], pc[t], lock) - 1
    BY <1>1, <1>2, <1>4, StepFollows DEF Step
  <2>4. /\ t \notin writing'[lock]
        /\ reading'[lock][t] =
             IF t \in writing[lock] THEN reading[lock][t] ELSE reading[lock][t] - 1
    BY <1>2, <1>4 DEF LockTypes
  <2> QED
    BY <2>1, <2>2, <2>3, <2>4
<1>6. /\ reading' \in [Locks -> [Tasks -> Int]] /\ writing' \in [Locks -> SUBSET Tasks]
      /\ \A u \in Tasks, other \in Locks :
           /\ u \in writing'[other] => u \in writing[other]
           /\ ~(t \notin writing[lock] /\ other = lock /\ u = t) =>
                reading'[other][u] = reading[other][u]
           /\ u # t => (u \in writing'[other] <=> u \in writing[other])
  <2>1. reading[lock][t] \in Int
    BY <1>2, <1>4 DEF LockTypes
  <2>2. CASE t \in writing[lock]
    <3>1. reading' = reading /\ writing' = [writing EXCEPT ![lock] = @ \ {t}]
      BY <1>2, <2>2
    <3>2. /\ writing' \in [Locks -> SUBSET Tasks]
          /\ \A other \in Locks :
               writing'[other] = IF other = lock THEN writing[lock] \ {t} ELSE writing[other]
      BY <1>2, <1>4, <3>1 DEF LockTypes
    <3> QED
      BY <1>2, <2>2, <3>1, <3>2 DEF LockTypes
  <2>3. CASE t \notin writing[lock]
    <3>1. PICK x \in Int : reading' = [reading EXCEPT ![lock][t] = x]
      <4>1. reading[lock][t] - 1 \in Int
        BY <2>1
      <4> QED
        BY <1>2, <2>3, <4>1
    <3>2. /\ reading' \in [Locks -> [Tasks -> Int]]
          /\ \A other \in Locks, u \in Tasks :
               reading'[other][u] = IF other = lock /\ u = t THEN x ELSE reading[other][u]
      BY <1>2, <1>4, <3>1, Recounted DEF LockTypes
    <3> QED
      BY <1>2, <2>3, <3>2 DEF LockTypes
  <2> QED
    BY <2>2, <2>3
<1>7. /\ \A u \in Tasks : Guarded(u)'
      /\ \A u \in Tasks \ {t} : doing'[u] = doing[u] /\ pc'[u] = pc[u]
  <2>1. \A u \in Tasks \ {t}, other \in Locks :
          /\ u \in writing'[other] <=> u \in writing[other]
          /\ reading'[other][u] = reading[other][u]
    BY <1>6
  <2> QED
    BY <1>2, <1>5, <2>1, StepGuards
<1>8. ASSUME NEW other \in Locks PROVE InLine(other)'
  BY <1>2, <1>7, WaitsAboutToTake, LineStays DEF AboutToTake
<1>9. ASSUME NEW other \in Locks PROVE Exclusive(other)'
  <2>1. Exclusive(other) /\ (\A u \in Tasks : reading[other][u] \in Int)
    BY DEF LockInv, LockTypes
  <2>2. /\ writing'[other] \subseteq writing[other]
        /\ \A u \in Tasks : ~(t \notin writing[lock] /\ other = lock /\ u = t) =>
             reading'[other][u] = reading[other][u]
    BY <1>2, <1>6 DEF LockTypes
  <2>3. CASE t \notin writing[lock] /\ other = lock
    <3>1. writing'[lock] = {}
      <4>1. ASSUME NEW u \in writing[lock] PROVE FALSE
        <5>1. reading[lock][t] = 0
          BY <2>1, <2>3, <4>1 DEF Exclusive
        <5>2. ReadGuards(doing[t], pc[t], lock) = 0
          BY SMTT(30), <1>3, <1>4, <5>1 DEF Guarded
        <5>3. ReadGuards(doing[t], pc[t] + 1, lock) = 0 - 1
          <6>1. ~Has(doing[t], pc[t], lock)
            BY <1>3, <1>4, <2>3 DEF Guarded
          <6> QED
            BY <1>1, <1>2, <1>4, <5>2, <6>1, StepFollows DEF Step
        <5>4. ReadGuards(doing[t], pc[t] + 1, lock) \in 0 .. 2
          BY <1>3, <1>4 DEF Follows
        <5> QED
          BY <5>3, <5>4
      <4> QED
        BY <2>2, <2>3, <4>1
    <3> QED
      BY <2>3, <3>1 DEF Exclusive
  <2>4. CASE ~(t \notin writing[lock] /\ other = lock)
    BY <2>1, <2>2, <2>4 DEF Exclusive
  <2> QED
    BY <2>3, <2>4
<1>10. LockTypes'
  BY <1>2, <1>4, <1>6 DEF LockTypes
<1> QED
  BY <1>7, <1>8, <1>9, <1>10 DEF LockInv

LEMMA EndKeeps ==
  ASSUME LockInv, NEW t \in Tasks, End(t)
  PROVE  LockInv'
<1>1. /\ Busy(t) /\ Ended(t) /\ UNCHANGED <<queue, writing, reading>>
      /\ doing' = [doing EXCEPT ![t] = "idle"]
      /\ pc' = [pc EXCEPT ![t] = 1]
      /\ LockTypes /\ Guarded(t)
  BY DEF End, LockInv
<1>2. LockTypes'
  BY <1>1 DEF LockTypes
<1>3. \A u \in Tasks \ {t} : doing'[u] = doing[u] /\ pc'[u] = pc[u]
  BY <1>1 DEF LockTypes
<1>4. ASSUME NEW u \in Tasks PROVE Guarded(u)'
  <2>1. CASE u = t
    <3>1. Follows(doing[t]) /\ pc[t] = Len(Program[doing[t]]) + 1
      BY <1>1, BusyFollows DEF Ended, Follows
    <3>2. \A lock \in Locks : t \notin writing[lock] /\ reading[lock][t] = 0
      BY <1>1, <3>1 DEF Guarded, Follows
    <3>3. doing'[t] = "idle" /\ pc'[t] = 1
      BY <1>1 DEF LockTypes
    <3> QED
      BY <1>1, <2>1, <3>2, <3>3 DEF Guarded, Busy
  <2>2. CASE u # t
    BY <1>1, <1>3, <2>2, OthersGuarded
  <2> QED
    BY <2>1, <2>2
<1>5. ASSUME NEW lock \in Locks PROVE InLine(lock)' /\ Exclusive(lock)'
  <2>1. ~WaitsFor(lock, t)
    BY <1>1, WaitsAboutToTake DEF AboutToTake
  <2>2. InLine(lock)'
    BY <1>1, <1>3, <2>1, LineStays
  <2> QED
    BY <1>1, <2>2 DEF LockInv, Exclusive
<1> QED
  BY <1>2, <1>4, <1>5 DEF LockInv

\* A queue without the one place that a task has in it.
LEMMA PlaceGivenUp ==
  ASSUME NEW S, NEW s \in Seq(S), NEW e, NEW k \in DOMAIN s, s[k] = e,
         \A i, j \in DOMAIN s : s[i] = s[j] => i = j
  PROVE  /\ RemoveFirst(s, e) \in Seq(S)
         /\ Len(RemoveFirst(s, e)) = Len(s) - 1
         /\ \A i \in 1 .. Len(s) - 1 :
              RemoveFirst(s, e)[i] = IF i < k THEN s[i] ELSE s[i + 1]
<1> DEFINE at == {i \in 1 .. Len(s) : s[i] = e}
           before == SubSeq(s, 1, k - 1)
           after == SubSeq(s, k + 1, Len(s))
<1>1. k \in 1 .. Len(s) /\ Len(s) \in Nat /\ at = {k}
  OBVIOUS
<1>2. Min(at) = k
  BY <1>1 DEF Min
<1>3. RemoveFirst(s, e) = before \o after
  BY <1>1, <1>2, Zenon DEF RemoveFirst, RemoveAt, SelectInSeq
<1>4. /\ before \in Seq(S) /\ Len(before) = k - 1
      /\ \A i \in 1 .. k - 1 : before[i] = s[i]
  <2>1. \A i \in 1 .. k - 1 : s[i] \in S
    BY <1>1
  <2> QED
    BY <1>1, <2>1, SubSeqProperties
<1>5. /\ after \in Seq(S) /\ Len(after) = Len(s) - k
      /\ \A i \in 1 .. Len(s) - k : after[i] = s[k + i]
  <2>1. \A i \in k + 1 .. Len(s) : s[i] \in S
    BY <1>1
  <2> QED
    BY <1>1, <2>1, SubSeqProperties
<1> HIDE DEF before, after
<1>6. PICK n : n = Len(s)
  OBVIOUS
<1>7. PICK both : both = before \o after
  OBVIOUS
<1>8. /\ both \in Seq(S)
      /\ Len(both) = Len(before) + Len(after)
      /\ \A i \in 1 .. Len(before) + Len(after) :
           both[i] = IF i <= Len(before) THEN before[i] ELSE after[i - Len(before)]
  BY <1>4, <1>5, <1>7, ConcatProperties
<1>9. ASSUME NEW i \in 1 .. n - 1
      PROVE  both[i] = IF i < k THEN s[i] ELSE s[i + 1]
  <2>1. k \in Int /\ n \in Int /\ i \in Int /\ 1 <= i /\ i <= n - 1 /\ 1 <= k
    BY <1>1, <1>6
  <2>2. i \in 1 .. Len(before) + Len(after)
    BY <1>4, <1>5, <1>6, <2>1
  <2>3. both[i] = IF i <= k - 1 THEN before[i] ELSE after[i - (k - 1)]
    BY <1>4, <1>8, <2>2
  <2>4. CASE i < k
    <3>1. i \in 1 .. k - 1 /\ i <= k - 1
      BY <2>1, <2>4
    <3> QED
      BY <1>4, <2>3, <2>4, <3>1
  <2>5. CASE i >= k
    <3>1. PICK j \in 1 .. n - k : j = i - (k - 1) /\ k + j = i + 1
      BY <2>1, <2>5
    <3>2. ~(i <= k - 1) /\ ~(i < k)
      BY <2>1, <2>5
    <3> QED
      BY <1>5, <1>6, <2>3, <3>1, <3>2
  <2> QED
    BY <2>1, <2>4, <2>5
<1>10. Len(both) = n - 1
  BY <1>1, <1>4, <1>5, <1>6, <1>8
<1> QED
  BY <1>3, <1>6, <1>7, <1>8, <1>9, <1>10

\* The others keep their places in order; none is left to the task.
LEMMA LineWithout ==
  ASSUME NEW line \in Seq(Tasks), \A j, k \in DOMAIN line : line[j] = line[k] => j = k, NEW t
  PROVE  /\ RemoveFirst(line, t) \in Seq(Tasks)
         /\ \A k \in DOMAIN RemoveFirst(line, t) :
              /\ RemoveFirst(line, t)[k] # t
              /\ \E j \in DOMAIN line : RemoveFirst(line, t)[k] = line[j]
         /\ \A j, k \in DOMAIN RemoveFirst(line, t) :
              RemoveFirst(line, t)[j] = RemoveFirst(line, t)[k] => j = k
<1>1. CASE \A i \in DOMAIN line : line[i] # t
  <2>1. RemoveFirst(line, t) = line
    BY <1>1 DEF RemoveFirst
  <2> QED
    BY <1>1, <2>1
<1>2. CASE \E i \in DOMAIN line : line[i] = t
  <2>1. PICK i \in DOMAIN line : line[i] = t
    BY <1>2
  <2>2. PICK left, n : left = RemoveFirst(line, t) /\ n = Len(line)
    OBVIOUS
  <2>3. /\ left \in Seq(Tasks) /\ Len(left) = n - 1 /\ n \in Nat
        /\ DOMAIN line = 1 .. n /\ DOMAIN left = 1 .. n - 1
        /\ \A k \in 1 .. n - 1 : left[k] = IF k < i THEN line[k] ELSE line[k + 1]
    <3>1. /\ RemoveFirst(line, t) \in Seq(Tasks)
          /\ Len(RemoveFirst(line, t)) = Len(line) - 1
          /\ \A k \in 1 .. Len(line) - 1 :
               RemoveFirst(line, t)[k] = IF k < i THEN line[k] ELSE line[k + 1]
      BY <2>1, PlaceGivenUp
    <3>2. left \in Seq(Tasks) /\ Len(left) = n - 1
      BY <2>2, <3>1
    <3> QED
      BY <2>2, <3>1, <3>2
  <2>4. /\ \A k \in DOMAIN left : left[k] # t /\ \E j \in DOMAIN line : left[k] = line[j]
        /\ \A j, k \in DOMAIN left : left[j] = left[k] => j = k
    <3>1. ASSUME NEW k \in DOMAIN left
          PROVE  \E j \in DOMAIN line \ {i} : left[k] = line[j] /\ j = IF k < i THEN k ELSE k + 1
      BY <2>1, <2>3
    <3>2. \A j, k \in DOMAIN line : line[j] = line[k] => j = k
      OBVIOUS
    <3>3. \A k \in DOMAIN left : left[k] # t /\ \E j \in DOMAIN line : left[k] = line[j]
      BY <2>1, <3>1, <3>2
    <3>4. ASSUME NEW j \in DOMAIN left, NEW k \in DOMAIN left, left[j] = left[k]
          PROVE  j = k
      <4>1. j \in Int /\ k \in Int /\ i \in Int
        BY <2>1, <2>3
      <4>2. (IF j < i THEN j ELSE j + 1) = (IF k < i THEN k ELSE k + 1)
        BY <3>1, <3>2, <3>4
      <4> QED
        BY <4>1, <4>2
    <3> QED
      BY <3>3, <3>4
  <2> QED
    BY <2>2, <2>3, <2>4
<1> QED
  BY <1>1, <1>2

LEMMA LeavesKeeps ==
  ASSUME LockInv, NEW t \in Tasks, Leaves(t)
  PROVE  LockInv'
<1>1. /\ doing' = [doing EXCEPT ![t] = "idle"]
      /\ pc' = [pc EXCEPT ![t] = 1]
      /\ queue' = [lock \in Locks |-> RemoveFirst(queue[lock], t)]
      /\ writing' = [lock \in Locks |-> writing[lock] \ {t}]
      /\ reading' = [lock \in Locks |-> [reading[lock] EXCEPT ![t] = 0]]
      /\ LockTypes
  BY DEF Leaves, LockInv
<1>2. \A u \in Tasks \ {t} : doing'[u] = doing[u] /\ pc'[u] = pc[u]
  BY <1>1 DEF LockTypes
<1>3. \A u \in Tasks, lock \in Locks :
        /\ u \in writing'[lock] <=> u # t /\ u \in writing[lock]
        /\ reading'[lock][u] = IF u = t THEN 0 ELSE reading[lock][u]
  BY <1>1 DEF LockTypes
<1>4. ASSUME NEW lock \in Locks
      PROVE  /\ queue[lock] \in Seq(Tasks)
             /\ \A j, k \in DOMAIN queue[lock] : queue[lock][j] = queue[lock][k] => j = k
             /\ \A k \in DOMAIN queue[lock] : AboutToTake(queue[lock][k], lock)
  BY <1>1 DEF LockInv, LockTypes, InLine
<1>5. ASSUME NEW lock \in Locks
      PROVE  queue'[lock] \in Seq(Tasks) /\ InLine(lock)'
  <2>1. PICK line, left : line = queue[lock] /\ left = RemoveFirst(line, t)
    OBVIOUS
  <2>2. /\ line \in Seq(Tasks)
        /\ \A j, k \in DOMAIN line : line[j] = line[k] => j = k
        /\ \A k \in DOMAIN line : AboutToTake(line[k], lock)
    BY <1>4, <2>1
  <2>3. /\ left \in Seq(Tasks)
        /\ \A k \in DOMAIN left : left[k] # t /\ \E j \in DOMAIN line : left[k] = line[j]
        /\ \A j, k \in DOMAIN left : left[j] = left[k] => j = k
    BY <2>1, <2>2, LineWithout
  <2>4. queue'[lock] = left
    BY <1>1, <2>1
  <2>5. ASSUME NEW k \in DOMAIN left
        PROVE  AboutToTake(left[k], lock)'
    <3>1. PICK u : u = left[k]
      OBVIOUS
    <3>2. u \in Tasks \ {t} /\ AboutToTake(u, lock)
      BY <2>2, <2>3, <3>1
    <3>3. doing'[u] = doing[u] /\ pc'[u] = pc[u]
      BY <1>2, <3>2
    <3>4. AboutToTake(u, lock)'
      BY <3>2, <3>3 DEF AboutToTake, Busy, Ended, Step
    <3> QED
      BY <3>1, <3>4 DEF AboutToTake, Busy, Ended, Step
  <2> QED
    BY <2>3, <2>4, <2>5 DEF InLine, AboutToTake, Busy, Ended, Step
<1>6. ASSUME NEW u \in Tasks PROVE Guarded(u)'
  <2>1. CASE u = t
    <3>1. doing'[t] = "idle" /\ pc'[t] = 1
      BY <1>1 DEF LockTypes
    <3> QED
      BY <1>3, <2>1, <3>1 DEF Guarded, Busy
  <2>2. CASE u # t
    BY <1>2, <1>3, <2>2, OthersGuarded
  <2> QED
    BY <2>1, <2>2
<1>7. ASSUME NEW lock \in Locks PROVE Exclusive(lock)'
  <2>1. Exclusive(lock) /\ writing'[lock] \subseteq Tasks
    BY <1>1 DEF LockInv, LockTypes
  <2> QED
    BY <1>3, <2>1 DEF Exclusive
<1>8. LockTypes'
  <2>1. writing' \in [Locks -> SUBSET Tasks]
    BY <1>1 DEF LockTypes
  <2>2. reading' \in [Locks -> [Tasks -> Int]]
    BY <1>1 DEF LockTypes
  <2>3. queue' \in [Locks -> Seq(Tasks)]
    BY <1>1, <1>5
  <2>4. doing' \in [Tasks -> Operations \cup {"idle"}] /\ pc' \in [Tasks -> Nat]
    BY <1>1 DEF LockTypes
  <2> QED
    BY <2>1, <2>2, <2>3, <2>4 DEF LockTypes
<1> QED
  BY <1>5, <1>6, <1>7, <1>8 DEF LockInv

LEMMA LockInvNext == LockInv /\ [LockNext]_lockVars => LockInv'
<1> SUFFICES ASSUME LockInv, [LockNext]_lockVars PROVE LockInv'
  OBVIOUS
<1>1. ASSUME NEW t \in Tasks, Begin(t) \/ Proceeds(t) \/ Leaves(t)
      PROVE  LockInv'
  BY <1>1, BeginKeeps, RequestKeeps, AcquireKeeps, DropGuardKeeps, EndKeeps, LeavesKeeps
  DEF Proceeds
<1>2. CASE UNCHANGED lockVars
  BY <1>2
  DEF lockVars, LockInv, LockTypes, Guarded, InLine, AboutToTake, Exclusive, Busy, Ended,
      Step
<1> QED
  BY <1>1, <1>2 DEF LockNext

LEMMA LocksFollow == LockSpec => []LockInv
BY LockInvInit, LockInvNext, PTL DEF LockSpec

-----------------------------------------------------------------------------
(* What follows.                                                           *)

\* The types, for any number of tasks: no task ever has more than two read guards
\* of a lock, and one that has ended its operation keeps neither a guard nor a
\* place in a queue.
THEOREM LockTypesHold == LockSpec => []LockTypeOK
<1>1. LockInv => LockTypeOK
  <2> SUFFICES ASSUME LockInv PROVE LockTypeOK
    OBVIOUS
  <2>1. LockTypes /\ \A t \in Tasks : Guarded(t)
    BY DEF LockInv
  <2>2. pc \in [Tasks -> Nat \ {0}]
    <3>1. ASSUME NEW t \in Tasks PROVE pc[t] \in Nat \ {0}
      BY <2>1, BusyFollows DEF Guarded, LockTypes
    <3> QED
      BY <2>1, <3>1 DEF LockTypes
  <2>3. reading \in [Locks -> [Tasks -> 0 .. 2]]
    <3>1. ASSUME NEW t \in Tasks, NEW lock \in Locks PROVE reading[lock][t] \in 0 .. 2
      <4>1. Guarded(t)
        BY <2>1
      <4>2. CASE Busy(t)
        BY <4>1, <4>2, BusyFollows DEF Guarded, Follows
      <4>3. CASE ~Busy(t)
        BY <4>1, <4>3 DEF Guarded
      <4> QED
        BY <4>2, <4>3
    <3>2. ASSUME NEW lock \in Locks PROVE reading[lock] \in [Tasks -> 0 .. 2]
      BY <2>1, <3>1 DEF LockTypes
    <3> QED
      BY <2>1, <3>2 DEF LockTypes
  <2>4. ASSUME NEW t \in Tasks, NEW lock \in Locks, doing[t] = "idle"
        PROVE  ~Waits(t) /\ t \notin writing[lock] /\ reading[lock][t] = 0
    BY <2>1, <2>4, WaitsAboutToTake DEF Guarded, Busy, Waits, AboutToTake
  <2> QED
    BY <2>1, <2>2, <2>3, <2>4 DEF LockTypeOK, LockTypes, Operations
<1> QED
  BY <1>1, LocksFollow, PTL

\* The atomic sections of the other modules are justified for any number of tasks:
\* while connect_to or send_text is between its sections, nobody else writes to
\* the node, for who does has io_lock, or the node mutex, and the call has both.
THEOREM CallsUndisturbed == LockSpec => []CallsAlone
<1>1. LockInv => CallsAlone
  <2> SUFFICES ASSUME LockInv, NEW t \in Tasks, InMidCall(t), NEW other \in writing["inner"]
               PROVE  other = t
    BY DEF CallsAlone
  <2>1. /\ LockTypes /\ "io" \in Locks /\ "node" \in Locks /\ "inner" \in Locks
        /\ Exclusive("io") /\ Exclusive("node")
        /\ other \in Tasks
    BY DEF LockInv, LockTypes, Locks
  <2>2. \A u \in Tasks, lock \in Locks : 
          u \in writing[lock] => /\ Busy(u) /\ Has(doing[u], pc[u], lock)
                                 /\ pc[u] \in 1 .. Len(Program[doing[u]])
                                 /\ Disciplined(doing[u], pc[u])
    <3>1. ASSUME NEW u \in Tasks, NEW lock \in Locks, u \in writing[lock]
          PROVE  /\ Busy(u) /\ Has(doing[u], pc[u], lock)
                 /\ pc[u] \in 1 .. Len(Program[doing[u]])
                 /\ Disciplined(doing[u], pc[u])
      <4>1. Busy(u) /\ Has(doing[u], pc[u], lock)
        BY <3>1 DEF LockInv, Guarded
      <4>2. /\ Follows(doing[u]) /\ pc[u] \in 1 .. Len(Program[doing[u]]) + 1
        BY <4>1, BusyFollows
      <4>3. pc[u] # Len(Program[doing[u]]) + 1
        BY <4>1, <4>2 DEF Follows
      <4>4. pc[u] \in 1 .. Len(Program[doing[u]])
        BY <4>2, <4>3 DEF Follows
      <4> QED
        BY <4>1, <4>2, <4>4 DEF Follows
    <3> QED
      BY <3>1
  <2>3. Has(doing[other], pc[other], "node") \/ Has(doing[other], pc[other], "io")
    BY <2>1, <2>2 DEF Disciplined
  <2>4. other \in writing["node"] \/ other \in writing["io"]
    BY <2>1, <2>2, <2>3 DEF LockInv, Guarded
  <2>5. t \in writing["io"] /\ Has(doing[t], pc[t], "node")
    BY <2>1, <2>2 DEF InMidCall, Calls, Disciplined
  <2>6. t \in writing["node"]
    BY <2>1, <2>2, <2>5 DEF LockInv, Guarded
  <2> QED
    BY <2>1, <2>4, <2>5, <2>6 DEF Exclusive
<1> QED
  BY <1>1, LocksFollow, PTL

\* A set of numbers has a least one.
LEMMA LeastNumber ==
  ASSUME NEW T \in SUBSET Nat, T # {}
  PROVE  \E x \in T : \A y \in T : x <= y
<1> DEFINE R == OpToRel(<, Nat)
<1>1. IsWellFoundedOn(R, Nat)
  BY NatLessThanWellFounded, Zenon
<1>2. \A x \in Nat, y \in Nat : y < x => <<y, x>> \in R
  BY Zenon DEF OpToRel
<1> HIDE DEF R
<1>3. PICK x \in T : \A y \in T : <<y, x>> \notin R
  BY <1>1, WFMin, Zenon
<1>4. \A y \in T : ~(y < x)
  BY <1>2, <1>3
<1> QED
  BY <1>4

\* Of some locks one is taken last.
LEMMA LastLock ==
  ASSUME NEW some \in SUBSET Locks, some # {}
  PROVE  \E last \in some : \A lock \in some : Rank(lock) <= Rank(last)
<1>1. \A lock \in Locks : Rank(lock) \in 1 .. 3
  BY DEF Rank
<1>2. CASE \E last \in some : Rank(last) = 3
  BY <1>1, <1>2
<1>3. CASE (\A lock \in some : Rank(lock) # 3) /\ \E last \in some : Rank(last) = 2
  BY <1>1, <1>3
<1>4. CASE \A lock \in some : Rank(lock) # 3 /\ Rank(lock) # 2
  BY <1>1, <1>4
<1> QED
  BY <1>2, <1>3, <1>4

\* A task that waits for a lock has only guards of locks that come before it, but
\* for a second read guard.
LEMMA WaitsDisciplined ==
  ASSUME LockInv, NEW t \in Tasks, NEW lock \in Locks, WaitsFor(lock, t)
  PROVE  /\ AboutToTake(t, lock) /\ Disciplined(doing[t], pc[t])
         /\ \A other \in Locks :
              /\ t \in writing[other] <=> Has(doing[t], pc[t], other)
              /\ reading[other][t] = ReadGuards(doing[t], pc[t], other)
<1>1. AboutToTake(t, lock)
  BY WaitsAboutToTake
<1>2. Follows(doing[t]) /\ pc[t] \in 1 .. Len(Program[doing[t]]) /\ Guarded(t)
  BY <1>1, BusyFollows DEF AboutToTake, LockInv
<1> QED
  BY <1>1, <1>2 DEF Follows, Guarded, AboutToTake

\* No deadlock over the five locks, for any number of tasks: of the tasks that wait
\* in a would-be circle, the first in line for the lock that is taken last waits
\* for none of the others, and a writer never comes between the two read guards of
\* connect_to.
THEOREM NoDeadlock == LockSpec => []NoCircle
<1>1. LockInv => NoCircle
  <2> SUFFICES ASSUME LockInv, NEW circle \in (SUBSET Tasks) \ {{}}
               PROVE  \E t \in circle : \A other \in circle : ~BlockedBy(t, other)
    BY DEF NoCircle
  <2>1. CASE \E t \in circle : ~Waits(t)
    BY <2>1 DEF BlockedBy, Waits
  <2>2. CASE \A t \in circle : Waits(t)
    <3> DEFINE some == {lock \in Locks : \E t \in circle : WaitsFor(lock, t)}
    <3>1. some \in SUBSET Locks /\ some # {}
      <4>1. PICK t \in circle : Waits(t)
        BY <2>2
      <4>2. PICK lock \in Locks : WaitsFor(lock, t)
        BY <4>1 DEF Waits
      <4>3. lock \in some
        BY <4>2
      <4> QED
        BY <4>3
    <3>2. PICK last \in some : \A lock \in some : Rank(lock) <= Rank(last)
      BY <3>1, LastLock
    <3>3. /\ last \in Locks
          /\ \E t \in circle : WaitsFor(last, t)
          /\ \A lock \in Locks, t \in circle : WaitsFor(lock, t) => Rank(lock) <= Rank(last)
      BY <3>2
    <3> HIDE DEF some
    <3>4. PICK line : line = queue[last]
      OBVIOUS
    <3>5. /\ line \in Seq(Tasks)
          /\ \A j, k \in DOMAIN line : line[j] = line[k] => j = k
      BY <3>3, <3>4 DEF LockInv, LockTypes, InLine
    <3> DEFINE places == {k \in DOMAIN line : line[k] \in circle}
    <3>6. places \in SUBSET Nat /\ places # {}
      BY <3>3, <3>4, <3>5 DEF WaitsFor
    <3>7. PICK first \in places : \A k \in places : first <= k
      BY <3>6, LeastNumber
    <3>8. PICK t \in circle : t = line[first] /\ first \in DOMAIN line
      BY <3>7
    <3>9. \A k \in DOMAIN line : line[k] \in circle => first <= k
      BY <3>7
    <3> HIDE DEF places
    <3>10. WaitsFor(last, t) /\ t \in Tasks
      BY <3>4, <3>8 DEF WaitsFor
    <3>11. AboutToTake(t, last) /\ Disciplined(doing[t], pc[t])
      BY <3>3, <3>10, WaitsDisciplined
    <3>12. ASSUME NEW other \in circle, BlockedBy(t, other)
           PROVE  FALSE
      <4>1. PICK lock \in Locks : /\ WaitsFor(lock, t)
                                  /\ Ahead(lock, t, other) \/ Excludes(lock, t, other)
        BY <3>12 DEF BlockedBy
      <4>2. lock = last
        BY <3>10, <3>11, <4>1, WaitsAboutToTake DEF AboutToTake
      <4>3. PICK awaited \in Locks : WaitsFor(awaited, other) /\ other \in Tasks
        BY <2>2 DEF Waits
      <4>4. /\ AboutToTake(other, awaited) /\ Disciplined(doing[other], pc[other])
            /\ \A any \in Locks :
                 /\ other \in writing[any] <=> Has(doing[other], pc[other], any)
                 /\ reading[any][other] = ReadGuards(doing[other], pc[other], any)
        BY <4>3, WaitsDisciplined
      <4>5. CASE Ahead(last, t, other)
        <5>1. PICK j, k \in DOMAIN line : j < k /\ line[j] = other /\ line[k] = t
          BY <3>4, <4>5 DEF Ahead
        <5>2. k = first /\ first <= j /\ j \in Int /\ k \in Int
          BY <3>5, <3>8, <3>9, <5>1
        <5> QED
          BY <5>1, <5>2
      <4>6. CASE other \in writing[last]
        <5>1. Rank(last) < Rank(awaited)
          BY <3>3, <4>4, <4>6 DEF Disciplined, AboutToTake, Step
        <5>2. Rank(awaited) <= Rank(last)
          BY <3>3, <4>3
        <5> QED
          BY <5>1, <5>2 DEF Rank
      <4>7. CASE Step(t).act = "write" /\ reading[last][other] > 0
        <5>1. ReadGuards(doing[other], pc[other], last) > 0
          BY <3>3, <4>4, <4>7
        <5>2. last = "inner"
          BY <5>1 DEF ReadGuards
        <5>3. Step(other).act = "read" /\ other \in writing["node"] /\ other \in writing["io"]
          BY <3>3, <4>4, <5>1 DEF Disciplined, AboutToTake, Step, Locks
        <5>4. Has(doing[t], pc[t], "node") \/ Has(doing[t], pc[t], "io")
          BY <3>11, <4>7, <5>2 DEF Disciplined, AboutToTake, Step
        <5>5. t \in writing["node"] \/ t \in writing["io"]
          BY <3>3, <3>10, <5>4, WaitsDisciplined DEF Locks
        <5>6. t = other
          BY <3>10, <4>3, <5>3, <5>5 DEF LockInv, Exclusive, Locks
        <5> QED
          BY <4>7, <5>3, <5>6
      <4> QED
        BY <4>1, <4>2, <4>5, <4>6, <4>7 DEF Excludes
    <3> QED
      BY <3>8, <3>12
  <2> QED
    BY <2>1, <2>2
<1> QED
  BY <1>1, LocksFollow, PTL

=============================================================================
