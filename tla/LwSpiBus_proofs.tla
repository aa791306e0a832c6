-------------------------- MODULE LwSpiBus_proofs --------------------------
(***************************************************************************)
(* Proofs about LwSpiBus.  Interrupt-mode NU_SPI_Write_Read is the one call *)
(* that gives the bus back while its transaction is in progress: the        *)
(* theorems are for any number of tasks that do not call it, and all but    *)
(* BusIsSafe also for a single task that may.                               *)
(***************************************************************************)
EXTENDS LwSpiBus, Integers, FiniteSetTheorems, TLAPS

\* No task calls NU_SPI_Write_Read in interrupt mode.
NoAsyncWriteRead ==
  \A c \in Calls : c.op = "write_read" => c.io = "polled"

\* The calls for which the bus is safe, or a task that has nobody to meet.
NobodyOverlaps == NoAsyncWriteRead \/ \E t \in Task : Task = {t}

\* t is alone and may have a transaction in progress on a bus it gave back.
MayOverlap(t) == ~NoAsyncWriteRead /\ Task = {t}

\* Types of the variables the argument is about.
LockTypes ==
  /\ pc \in [Task -> Labels]
  /\ call \in [Task -> Calls \cup {NoCall}]
  /\ bus_lock \in Task \cup {NoTask}
  /\ async_io_lock \in Nat
  /\ waiting \in Seq(Task)
  /\ io \in [Task -> {"polled", "interrupt", "none"}]
  /\ rx_irp \in Irp
  /\ tx_irp \in Irp
  /\ isr_queue \in Nat
  /\ rxneie \in BOOLEAN

HoldLabels == {"relbus", "relasync", "cc_relbus", "cc_relasync"}
LockLabels == {"lock", "locking"}
BusLabels  == {"start", "poll", "pollrx", "lock", "locking"}

\* What holds of task t at label l, with a transaction in mode m, arguments c
\* and bus owner b: a transaction in progress is the bus owner's, so is a call
\* between its claim of the bus and its last step, and the call does not give
\* the bus back over its transaction unless there is nobody else.
TaskOK(t, l, m, c, b) ==
  /\ m # "none" => b = t \/ MayOverlap(t)
  /\ l \in BusLabels => b = t
  /\ m = "polled" <=> l \in {"poll", "pollrx"}
  /\ l \in {"claim", "start"} => m = "none"
  /\ l \in LockLabels => c.op # "write_read" \/ MayOverlap(t)
  /\ l = "end" /\ c.op = "write_read" => m = "none" \/ MayOverlap(t)

TasksOK == \A t \in Task : TaskOK(t, pc[t], io[t], call[t], bus_lock)

\* The tasks on a suspension list w are suspended, each listed once.
SuspendLabels == {"locking", "cc_wait", "cc_ticks"}
SuspendedAt(p, w) ==
  /\ \A i \in 1 .. Len(w) : p[w[i]] \in SuspendLabels
  /\ \A i, j \in 1 .. Len(w) : w[i] = w[j] => i = j

IndInv ==
  /\ LockTypes
  /\ TasksOK
  /\ SuspendedAt(pc, waiting)
  /\ AsyncLockBalance
  /\ HisrHasTransaction

-----------------------------------------------------------------------------
(* Counting the instances of async_io_lock *)

Modes == {"polled", "interrupt", "none"}
HoldersAt(p)   == {t \in Task : p[t] \in HoldLabels}
LockedAt(p, i) == {t \in Task : i[t] = "interrupt" /\ p[t] \notin LockLabels}
EarlyAt(p, i)  == {t \in Task : i[t] = "none" /\ p[t] \in LockLabels}

\* The balance for labels p, modes i and count a.
Balance(p, i, a) ==
  a + Cardinality(HoldersAt(p)) + Cardinality(LockedAt(p, i))
    = 1 + Cardinality(EarlyAt(p, i))

\* What a task at label l with mode m contributes to it.
HolderWeight(l)    == IF l \in HoldLabels THEN 1 ELSE 0
LockedWeight(l, m) == IF m = "interrupt" /\ l \notin LockLabels THEN 1 ELSE 0
EarlyWeight(l, m)  == IF m = "none" /\ l \in LockLabels THEN 1 ELSE 0
Weight(l, m) == HolderWeight(l) + LockedWeight(l, m) - EarlyWeight(l, m)

\* Sets of tasks that differ in one task only differ in size by that task.
LEMMA CardChange ==
  ASSUME NEW S \in SUBSET Task, NEW R \in SUBSET Task, NEW t \in Task,
         S \ {t} = R \ {t}
  PROVE  /\ Cardinality(S) \in Nat
         /\ Cardinality(R) \in Nat
         /\ Cardinality(R) + (IF t \in S THEN 1 ELSE 0)
              = Cardinality(S) + (IF t \in R THEN 1 ELSE 0)
<1>1. IsFiniteSet(S) /\ IsFiniteSet(R)
  BY FS_Subset, TaskAssumption
<1>2. Cardinality(S) \in Nat /\ Cardinality(R) \in Nat
  BY <1>1, FS_CardinalityType
<1>3. Cardinality(S \ {t}) = IF t \in S THEN Cardinality(S) - 1 ELSE Cardinality(S)
  BY <1>1, FS_RemoveElement
<1>4. Cardinality(R \ {t}) = IF t \in R THEN Cardinality(R) - 1 ELSE Cardinality(R)
  BY <1>1, FS_RemoveElement
<1>. QED  BY <1>2, <1>3, <1>4

\* A step of one task keeps the balance when the count changes by what the
\* task's weight changes.
LEMMA BalanceChange ==
  ASSUME NEW p \in [Task -> Labels], NEW i \in [Task -> Modes],
         NEW t \in Task, NEW l \in Labels, NEW m \in Modes,
         NEW a \in Int, NEW b \in Int,
         Balance(p, i, a),
         b + Weight(l, m) = a + Weight(p[t], i[t])
  PROVE  Balance([p EXCEPT ![t] = l], [i EXCEPT ![t] = m], b)
<1> DEFINE q == [p EXCEPT ![t] = l]
           j == [i EXCEPT ![t] = m]
<1>0. /\ q[t] = l /\ j[t] = m
      /\ \A u \in Task \ {t} : q[u] = p[u] /\ j[u] = i[u]
  OBVIOUS
<1> HIDE DEF q, j
<1>1. /\ Cardinality(HoldersAt(p)) \in Nat /\ Cardinality(HoldersAt(q)) \in Nat
      /\ Cardinality(HoldersAt(q)) + HolderWeight(p[t])
           = Cardinality(HoldersAt(p)) + HolderWeight(l)
  <2>1. HoldersAt(p) \in SUBSET Task /\ HoldersAt(q) \in SUBSET Task
    BY DEF HoldersAt
  <2>2. HoldersAt(p) \ {t} = HoldersAt(q) \ {t}
    BY <1>0 DEF HoldersAt
  <2>3. /\ HolderWeight(p[t]) = IF t \in HoldersAt(p) THEN 1 ELSE 0
        /\ HolderWeight(l) = IF t \in HoldersAt(q) THEN 1 ELSE 0
    BY <1>0 DEF HoldersAt, HolderWeight
  <2>4. /\ Cardinality(HoldersAt(p)) \in Nat
        /\ Cardinality(HoldersAt(q)) \in Nat
        /\ Cardinality(HoldersAt(q)) + (IF t \in HoldersAt(p) THEN 1 ELSE 0)
             = Cardinality(HoldersAt(p)) + (IF t \in HoldersAt(q) THEN 1 ELSE 0)
    BY <2>1, <2>2, CardChange
  <2>. QED  BY <2>3, <2>4
<1>2. /\ Cardinality(LockedAt(p, i)) \in Nat /\ Cardinality(LockedAt(q, j)) \in Nat
      /\ Cardinality(LockedAt(q, j)) + LockedWeight(p[t], i[t])
           = Cardinality(LockedAt(p, i)) + LockedWeight(l, m)
  <2>1. LockedAt(p, i) \in SUBSET Task /\ LockedAt(q, j) \in SUBSET Task
    BY DEF LockedAt
  <2>2. LockedAt(p, i) \ {t} = LockedAt(q, j) \ {t}
    BY <1>0 DEF LockedAt
  <2>3. /\ LockedWeight(p[t], i[t]) = IF t \in LockedAt(p, i) THEN 1 ELSE 0
        /\ LockedWeight(l, m) = IF t \in LockedAt(q, j) THEN 1 ELSE 0
    BY <1>0 DEF LockedAt, LockedWeight
  <2>4. /\ Cardinality(LockedAt(p, i)) \in Nat
        /\ Cardinality(LockedAt(q, j)) \in Nat
        /\ Cardinality(LockedAt(q, j)) + (IF t \in LockedAt(p, i) THEN 1 ELSE 0)
             = Cardinality(LockedAt(p, i)) + (IF t \in LockedAt(q, j) THEN 1 ELSE 0)
    BY <2>1, <2>2, CardChange
  <2>. QED  BY <2>3, <2>4
<1>3. /\ Cardinality(EarlyAt(p, i)) \in Nat /\ Cardinality(EarlyAt(q, j)) \in Nat
      /\ Cardinality(EarlyAt(q, j)) + EarlyWeight(p[t], i[t])
           = Cardinality(EarlyAt(p, i)) + EarlyWeight(l, m)
  <2>1. EarlyAt(p, i) \in SUBSET Task /\ EarlyAt(q, j) \in SUBSET Task
    BY DEF EarlyAt
  <2>2. EarlyAt(p, i) \ {t} = EarlyAt(q, j) \ {t}
    BY <1>0 DEF EarlyAt
  <2>3. /\ EarlyWeight(p[t], i[t]) = IF t \in EarlyAt(p, i) THEN 1 ELSE 0
        /\ EarlyWeight(l, m) = IF t \in EarlyAt(q, j) THEN 1 ELSE 0
    BY <1>0 DEF EarlyAt, EarlyWeight
  <2>4. /\ Cardinality(EarlyAt(p, i)) \in Nat
        /\ Cardinality(EarlyAt(q, j)) \in Nat
        /\ Cardinality(EarlyAt(q, j)) + (IF t \in EarlyAt(p, i) THEN 1 ELSE 0)
             = Cardinality(EarlyAt(p, i)) + (IF t \in EarlyAt(q, j) THEN 1 ELSE 0)
    BY <2>1, <2>2, CardChange
  <2>. QED  BY <2>3, <2>4
<1>4. /\ HolderWeight(l) \in Int /\ HolderWeight(p[t]) \in Int
      /\ LockedWeight(l, m) \in Int /\ LockedWeight(p[t], i[t]) \in Int
      /\ EarlyWeight(l, m) \in Int /\ EarlyWeight(p[t], i[t]) \in Int
  BY DEF HolderWeight, LockedWeight, EarlyWeight
<1>5. Balance(q, j, b)
  <2>1. a + Cardinality(HoldersAt(p)) + Cardinality(LockedAt(p, i))
          = 1 + Cardinality(EarlyAt(p, i))
    BY DEF Balance
  <2>2. b + (HolderWeight(l) + LockedWeight(l, m) - EarlyWeight(l, m))
          = a + (HolderWeight(p[t]) + LockedWeight(p[t], i[t])
                   - EarlyWeight(p[t], i[t]))
    BY DEF Weight
  <2>3. b + Cardinality(HoldersAt(q)) + Cardinality(LockedAt(q, j))
          = 1 + Cardinality(EarlyAt(q, j))
    BY <1>1, <1>2, <1>3, <1>4, <2>1, <2>2
  <2>. QED  BY <2>3 DEF Balance
<1>. QED  BY <1>5 DEF q, j

\* The invariant of the runs is the balance at the current labels.
LEMMA BalanceIs == AsyncLockBalance <=> Balance(pc, io, async_io_lock)
  BY DEF AsyncLockBalance, Balance, Holders, Locked, Early, HoldersAt, LockedAt,
         EarlyAt, HoldLabels, LockLabels

-----------------------------------------------------------------------------
(* Steps of one task, and releases *)

\* Once the caller of an interrupt-mode transaction has locked async_io_lock,
\* no instance of it is left until the HISR releases it.
LEMMA LockedExcludes ==
  ASSUME IndInv, NEW t \in Task, io[t] = "interrupt", pc[t] \notin LockLabels
  PROVE  async_io_lock = 0 /\ \A u \in Task : pc[u] \notin HoldLabels
<1>1. HoldersAt(pc) \in SUBSET Task /\ LockedAt(pc, io) \in SUBSET Task
  BY DEF HoldersAt, LockedAt
<1>2. IsFiniteSet(HoldersAt(pc)) /\ IsFiniteSet(LockedAt(pc, io))
  BY <1>1, FS_Subset, TaskAssumption
<1>3. EarlyAt(pc, io) = {}
  BY DEF EarlyAt, IndInv, TasksOK, TaskOK, BusLabels, LockLabels, MayOverlap
<1>4. Cardinality(EarlyAt(pc, io)) = 0
  BY <1>3, FS_EmptySet
<1>5. Cardinality(LockedAt(pc, io)) \in Nat \ {0}
  <2>1. LockedAt(pc, io) # {}
    BY DEF LockedAt
  <2>. QED  BY <1>2, <2>1, FS_EmptySet, FS_CardinalityType
<1>6. Cardinality(HoldersAt(pc)) \in Nat
  BY <1>2, FS_CardinalityType
<1>7. async_io_lock \in Nat
  BY DEF IndInv, LockTypes
<1>8. async_io_lock + Cardinality(HoldersAt(pc)) + Cardinality(LockedAt(pc, io)) = 1
  BY <1>4, BalanceIs DEF IndInv, Balance
<1>9. async_io_lock = 0 /\ Cardinality(HoldersAt(pc)) = 0
  BY <1>5, <1>6, <1>7, <1>8
<1>10. HoldersAt(pc) = {}
  BY <1>2, <1>9, FS_EmptySet
<1>. QED  BY <1>9, <1>10 DEF HoldersAt

\* A step that moves one task, takes or gives the bus for it only, and changes
\* the count by the change of its weight.
LEMMA OwnStep ==
  ASSUME IndInv, NEW t \in Task, NEW l \in Labels, NEW m \in Modes,
         async_io_lock' \in Int,
         pc' = [pc EXCEPT ![t] = l], io' = [io EXCEPT ![t] = m],
         \A u \in Task \ {t} : call'[u] = call[u],
         \/ bus_lock' = bus_lock
         \/ bus_lock \in {NoTask, t} /\ bus_lock' \in {NoTask, t},
         TaskOK(t, l, m, call'[t], bus_lock'),
         async_io_lock' + Weight(l, m) = async_io_lock + Weight(pc[t], io[t])
  PROVE  TasksOK' /\ AsyncLockBalance'
<1>0. pc \in [Task -> Labels] /\ io \in [Task -> Modes] /\ async_io_lock \in Int
  BY DEF IndInv, LockTypes, Modes
<1>1. TasksOK'
  <2> SUFFICES ASSUME NEW u \in Task
               PROVE  TaskOK(u, pc'[u], io'[u], call'[u], bus_lock')
    BY DEF TasksOK
  <2>1. CASE u = t
    BY <2>1, <1>0
  <2>2. CASE u # t
    <3>1. pc'[u] = pc[u] /\ io'[u] = io[u] /\ call'[u] = call[u]
      BY <2>2, <1>0
    <3>2. TaskOK(u, pc[u], io[u], call[u], bus_lock)
      BY DEF IndInv, TasksOK
    <3>3. u # NoTask
      BY TaskAssumption
    <3>. QED  BY <2>2, <3>1, <3>2, <3>3 DEF TaskOK
  <2>. QED  BY <2>1, <2>2
<1>2. AsyncLockBalance'
  <2>1. Balance(pc, io, async_io_lock)
    BY BalanceIs DEF IndInv
  <2>2. Balance(pc', io', async_io_lock')
    BY <1>0, <2>1, BalanceChange
  <2>. QED  BY <2>2 DEF AsyncLockBalance, Balance, Holders, Locked, Early,
                        HoldersAt, LockedAt, EarlyAt, HoldLabels, LockLabels
<1>. QED  BY <1>1, <1>2

\* The suspension list stays right when a running task moves, ...
LEMMA RunningStep ==
  ASSUME IndInv, NEW t \in Task, NEW l, pc[t] \notin SuspendLabels
  PROVE  SuspendedAt([pc EXCEPT ![t] = l], waiting)
<1>0. pc \in [Task -> Labels] /\ waiting \in Seq(Task)
  BY DEF IndInv, LockTypes
<1>1. \A k \in 1 .. Len(waiting) : waiting[k] \in Task /\ waiting[k] # t
  BY <1>0 DEF IndInv, SuspendedAt
<1>. QED  BY <1>0, <1>1 DEF IndInv, SuspendedAt

\* ... when it suspends, ...
LEMMA SuspendStep ==
  ASSUME IndInv, NEW t \in Task, NEW l \in SuspendLabels, pc[t] \notin SuspendLabels
  PROVE  /\ Append(waiting, t) \in Seq(Task)
         /\ SuspendedAt([pc EXCEPT ![t] = l], Append(waiting, t))
<1> DEFINE q == [pc EXCEPT ![t] = l]
           w == Append(waiting, t)
<1>0. pc \in [Task -> Labels] /\ waiting \in Seq(Task)
  BY DEF IndInv, LockTypes
<1>1. \A k \in 1 .. Len(waiting) : waiting[k] \in Task /\ waiting[k] # t
  BY <1>0 DEF IndInv, SuspendedAt
<1>2. /\ w \in Seq(Task) /\ Len(w) = Len(waiting) + 1 /\ w[Len(waiting) + 1] = t
      /\ \A k \in 1 .. Len(waiting) : w[k] = waiting[k]
  BY <1>0
<1>3. q[t] = l /\ \A u \in Task \ {t} : q[u] = pc[u]
  BY <1>0
<1>4. Len(waiting) \in Nat
  BY <1>0
<1> HIDE DEF q, w
<1>5. \A k \in 1 .. Len(w) : k \in 1 .. Len(waiting) \/ k = Len(waiting) + 1
  BY <1>2, <1>4
<1>6. \A k \in 1 .. Len(w) : q[w[k]] \in SuspendLabels
  BY <1>1, <1>2, <1>3, <1>5 DEF IndInv, SuspendedAt
<1>7. \A k, n \in 1 .. Len(w) : w[k] = w[n] => k = n
  BY <1>1, <1>2, <1>5 DEF IndInv, SuspendedAt
<1>8. SuspendedAt(q, w)
  BY <1>6, <1>7 DEF SuspendedAt
<1>. QED  BY <1>2, <1>8 DEF q, w

\* ... and when it gives up waiting.
LEMMA TimeoutStep ==
  ASSUME IndInv, NEW t \in Task, NEW l, NEW k \in 1 .. Len(waiting),
         waiting[k] = t, NEW w,
         w = [i \in 1 .. Len(waiting) - 1 |->
                IF i < k THEN waiting[i] ELSE waiting[i + 1]]
  PROVE  w \in Seq(Task) /\ SuspendedAt([pc EXCEPT ![t] = l], w)
<1>0. pc \in [Task -> Labels] /\ waiting \in Seq(Task)
  BY DEF IndInv, LockTypes
<1>1. Len(waiting) \in Nat /\ Len(waiting) - 1 \in Nat /\ k \in Nat
  BY <1>0
<1>2. \A i \in 1 .. Len(waiting) - 1 :
        /\ i \in Nat /\ i \in 1 .. Len(waiting) /\ i + 1 \in 1 .. Len(waiting)
        /\ waiting[i] \in Task /\ waiting[i + 1] \in Task
  BY <1>0, <1>1
<1>3. w \in Seq(Task) /\ Len(w) = Len(waiting) - 1
  BY <1>1, <1>2
<1>4. \A i \in 1 .. Len(w) : \E j \in 1 .. Len(waiting) :
        /\ j = IF i < k THEN i ELSE i + 1
        /\ j # k /\ w[i] = waiting[j]
  BY <1>1, <1>2, <1>3
<1>5. \A i \in 1 .. Len(w) : w[i] \in Task /\ w[i] # t /\ pc[w[i]] \in SuspendLabels
  BY <1>0, <1>4 DEF IndInv, SuspendedAt
<1>6. \A i, j \in 1 .. Len(w) : w[i] = w[j] => i = j
  <2> SUFFICES ASSUME NEW i \in 1 .. Len(w), NEW j \in 1 .. Len(w), w[i] = w[j]
               PROVE  i = j
    OBVIOUS
  <2>1. (IF i < k THEN i ELSE i + 1) = (IF j < k THEN j ELSE j + 1)
    BY <1>4 DEF IndInv, SuspendedAt
  <2>2. i \in Nat /\ j \in Nat
    BY <1>3, <1>1
  <2>. QED  BY <2>1, <2>2, <1>1
<1>. QED  BY <1>0, <1>3, <1>5, <1>6 DEF SuspendedAt

\* A release of async_io_lock that leaves the tasks at p: whether an instance
\* is added or handed to the first suspended task, the balance that counts
\* the released instance is kept.
LEMMA ReleaseStep ==
  ASSUME LockTypes, NEW p \in [Task -> Labels], NEW i \in [Task -> Modes],
         NEW c, NEW b,
         Release_async(p),
         Balance(p, i, async_io_lock + 1),
         SuspendedAt(p, waiting),
         \A u \in Task : TaskOK(u, p[u], i[u], c[u], b)
  PROVE  /\ pc' \in [Task -> Labels]
         /\ async_io_lock' \in Nat
         /\ waiting' \in Seq(Task)
         /\ Balance(pc', i, async_io_lock')
         /\ SuspendedAt(pc', waiting')
         /\ \A u \in Task : TaskOK(u, pc'[u], i[u], c[u], b)
<1>0. async_io_lock \in Nat /\ waiting \in Seq(Task)
  BY DEF LockTypes
<1>1. CASE waiting = <<>>
  BY <1>0, <1>1 DEF Release_async
<1>2. CASE waiting # <<>>
  <2> DEFINE h == Head(waiting)
             l == Granted(p[h])
  <2>0. /\ h \in Task /\ h = waiting[1] /\ 1 \in 1 .. Len(waiting)
        /\ p[h] \in SuspendLabels
    BY <1>0, <1>2 DEF SuspendedAt
  <2>1. /\ pc' = [p EXCEPT ![h] = l] /\ waiting' = Tail(waiting)
        /\ async_io_lock' = async_io_lock
    BY <1>2 DEF Release_async
  <2>2. /\ p[h] = "locking" => l = "end"
        /\ p[h] \in {"cc_wait", "cc_ticks"} => l = "cc_relbus"
        /\ l \in Labels
    BY <2>0 DEF Granted, SuspendLabels, Labels
  <2>3. TaskOK(h, p[h], i[h], c[h], b)
    BY <2>0
  <2>4. i[h] \in {"interrupt", "none"}
    BY <2>0, <2>3 DEF TaskOK, SuspendLabels, Modes
  <2>5. TaskOK(h, l, i[h], c[h], b)
    BY <2>0, <2>2, <2>3, <2>4 DEF TaskOK, SuspendLabels, BusLabels, LockLabels
  <2>6. async_io_lock + Weight(l, i[h]) = async_io_lock + 1 + Weight(p[h], i[h])
    BY <1>0, <2>0, <2>2, <2>4
       DEF Weight, HolderWeight, LockedWeight, EarlyWeight, HoldLabels, LockLabels,
           SuspendLabels
  <2> HIDE DEF h, l
  <2>7. Balance([p EXCEPT ![h] = l], [i EXCEPT ![h] = i[h]], async_io_lock)
    <3>1. /\ h \in Task /\ l \in Labels /\ i[h] \in Modes
          /\ async_io_lock \in Int /\ async_io_lock + 1 \in Int
      BY <1>0, <2>0, <2>2
    <3>. QED  BY <3>1, <2>6, BalanceChange
  <2>8. [i EXCEPT ![h] = i[h]] = i
    OBVIOUS
  <2>9. Balance(pc', i, async_io_lock')
    BY <2>1, <2>7, <2>8
  <2>10. waiting' \in Seq(Task) /\ Len(waiting') = Len(waiting) - 1
         /\ \A k \in 1 .. Len(waiting') : waiting'[k] = waiting[k + 1]
    BY <1>0, <1>2, <2>1
  <2>11. SuspendedAt(pc', waiting')
    <3>1. \A k \in 1 .. Len(waiting') :
            /\ k + 1 \in 1 .. Len(waiting)
            /\ waiting[k + 1] \in Task /\ waiting[k + 1] # h
      BY <1>0, <2>0, <2>10 DEF SuspendedAt
    <3>2. \A k \in 1 .. Len(waiting') : pc'[waiting'[k]] \in SuspendLabels
      BY <2>1, <2>10, <3>1 DEF SuspendedAt
    <3>3. \A k, n \in 1 .. Len(waiting') : waiting'[k] = waiting'[n] => k = n
      <4> SUFFICES ASSUME NEW k \in 1 .. Len(waiting'), NEW n \in 1 .. Len(waiting'),
                          waiting'[k] = waiting'[n]
                   PROVE  k = n
        OBVIOUS
      <4>1. waiting[k + 1] = waiting[n + 1]
        BY <2>10
      <4>2. k + 1 = n + 1
        BY <4>1, <3>1 DEF SuspendedAt
      <4>3. k \in Int /\ n \in Int
        OBVIOUS
      <4>. QED  BY <4>2, <4>3
    <3>. QED  BY <3>2, <3>3 DEF SuspendedAt
  <2>12. \A u \in Task : TaskOK(u, pc'[u], i[u], c[u], b)
    BY <2>0, <2>1, <2>5
  <2>. QED  BY <1>0, <2>0, <2>1, <2>2, <2>9, <2>10, <2>11, <2>12
<1>. QED  BY <1>1, <1>2

-----------------------------------------------------------------------------
(* The HISR's part *)

\* A task that owns the bus without an interrupt-mode transaction finds the
\* interrupts off and nothing queued.
LEMMA NoInterrupts ==
  ASSUME IndInv, NEW t \in Task, bus_lock = t, io[t] # "interrupt"
  PROVE  ~rxneie /\ isr_queue = 0
<1>1. ASSUME NEW u, u # NoTask, io[u] = "interrupt", u \in Task \cup {NoTask}
      PROVE  FALSE
  BY <1>1 DEF IndInv, TasksOK, TaskOK, MayOverlap
<1>2. rx_irp.task \in Task \cup {NoTask} /\ tx_irp.task \in Task \cup {NoTask}
  BY DEF IndInv, LockTypes, Irp
<1>3. ~(rxneie \/ isr_queue > 0)
  BY <1>1, <1>2 DEF IndInv, HisrHasTransaction
<1>4. isr_queue \in Nat
  BY DEF IndInv, LockTypes
<1>. QED  BY <1>3, <1>4

\* Steps that touch neither the IRPs, nor the controller, nor a transaction.
LEMMA HisrKept ==
  ASSUME IndInv, UNCHANGED <<irpVars, hwVars, io>>
  PROVE  HisrHasTransaction'
  BY DEF IndInv, HisrHasTransaction, irpVars, hwVars

\* Steps that leave the interrupts off.
LEMMA HisrOff ==
  ASSUME ~rxneie', isr_queue' = 0
  PROVE  HisrHasTransaction'
  BY DEF HisrHasTransaction

-----------------------------------------------------------------------------
(* One lemma per group of actions *)

\* The facts every step of task t starts from.
LEMMA TaskFacts ==
  ASSUME IndInv, NEW t \in Task
  PROVE  /\ pc \in [Task -> Labels] /\ pc[t] \in Labels
         /\ io \in [Task -> Modes] /\ io[t] \in Modes
         /\ call \in [Task -> Calls \cup {NoCall}]
         /\ call[t] \in Calls \cup {NoCall}
         /\ async_io_lock \in Nat /\ async_io_lock \in Int
         /\ TaskOK(t, pc[t], io[t], call[t], bus_lock)
         /\ io = [io EXCEPT ![t] = io[t]]
         /\ t # NoTask
  BY TaskAssumption DEF IndInv, LockTypes, TasksOK, Modes

\* The weights of the labels.
LEMMA Weights ==
  ASSUME NEW m \in Modes
  PROVE  /\ \A l \in {"idle", "check", "claim", "start", "end", "cc_wait", "cc_ticks"} :
              Weight(l, m) = IF m = "interrupt" THEN 1 ELSE 0
         /\ \A l \in HoldLabels : Weight(l, m) = IF m = "interrupt" THEN 2 ELSE 1
         /\ \A l \in LockLabels : Weight(l, m) = IF m = "none" THEN -1 ELSE 0
         /\ \A l \in {"poll", "pollrx"} : Weight(l, "polled") = 0
  BY DEF Weight, HolderWeight, LockedWeight, EarlyWeight, HoldLabels, LockLabels, Modes

\* A task that holds an instance of async_io_lock has no transaction.
LEMMA HolderIdle ==
  ASSUME IndInv, NEW t \in Task, pc[t] \in HoldLabels
  PROVE  io[t] = "none"
<1>1. io[t] # "interrupt"
  BY LockedExcludes DEF HoldLabels, LockLabels
<1>2. io[t] # "polled"
  BY TaskFacts DEF TaskOK, HoldLabels
<1>. QED  BY <1>1, <1>2, TaskFacts DEF Modes

\* Calls, the check of async_io_lock and the claim of the bus.
LEMMA EntrySteps ==
  ASSUME IndInv, NEW t \in Task, CallIo(t) \/ CheckAsync(t) \/ ClaimBus(t)
  PROVE  IndInv'
<1>0. UNCHANGED <<irpVars, hwVars, io, waiting>>
  BY DEF CallIo, CheckAsync, ClaimBus, lockVars
<1>1. HisrHasTransaction'
  BY <1>0, HisrKept
<1>2. /\ rx_irp' \in Irp /\ tx_irp' \in Irp /\ isr_queue' \in Nat
      /\ rxneie' \in BOOLEAN /\ io' \in [Task -> {"polled", "interrupt", "none"}]
      /\ waiting' \in Seq(Task)
  BY <1>0 DEF IndInv, LockTypes, irpVars, hwVars
<1>3. io' = [io EXCEPT ![t] = io[t]]
  BY <1>0, TaskFacts
<1>4. CASE CallIo(t)
  <2>1. /\ pc' = [pc EXCEPT ![t] = "check"] /\ pc[t] = "idle"
        /\ bus_lock' = bus_lock /\ async_io_lock' = async_io_lock
    BY <1>4 DEF CallIo, Goto, lockVars
  <2>2. PICK c \in Calls : call' = [call EXCEPT ![t] = c]
    BY <1>4 DEF CallIo
  <2>3. LockTypes'
    BY <1>2, <2>1, <2>2 DEF IndInv, LockTypes, Labels
  <2>4. TasksOK' /\ AsyncLockBalance'
    <3>1. TaskOK(t, "check", io[t], call'[t], bus_lock')
      BY <2>1, TaskFacts DEF TaskOK, BusLabels, LockLabels
    <3>2. "check" \in Labels /\ \A u \in Task \ {t} : call'[u] = call[u]
      BY <2>2, TaskFacts DEF Labels
    <3>3. async_io_lock' + Weight("check", io[t]) = async_io_lock + Weight(pc[t], io[t])
      BY <2>1, Weights, TaskFacts
    <3>. QED  BY <1>3, <2>1, <3>1, <3>2, <3>3, TaskFacts, OwnStep
  <2>5. SuspendedAt(pc', waiting')
    BY <1>0, <2>1, RunningStep DEF SuspendLabels
  <2>. QED  BY <1>1, <2>3, <2>4, <2>5 DEF IndInv
<1>5. ASSUME NEW l \in {"idle", "relbus"}, pc' = [pc EXCEPT ![t] = l], pc[t] = "check",
             bus_lock' = bus_lock,
             call' = IF l = "idle" THEN [call EXCEPT ![t] = NoCall] ELSE call,
             async_io_lock' = IF l = "idle" THEN async_io_lock ELSE async_io_lock - 1,
             l = "relbus" => async_io_lock > 0
      PROVE  IndInv'
  <2>1. async_io_lock' \in Nat /\ async_io_lock' \in Int
    BY <1>5, TaskFacts
  <2>2. LockTypes'
    BY <1>2, <1>5, <2>1, TaskFacts DEF IndInv, LockTypes, Labels
  <2>3. TasksOK' /\ AsyncLockBalance'
    <3>1. TaskOK(t, l, io[t], call'[t], bus_lock')
      BY <1>5, TaskFacts DEF TaskOK, BusLabels, LockLabels
    <3>2. l \in Labels /\ \A u \in Task \ {t} : call'[u] = call[u]
      BY <1>5, TaskFacts DEF Labels
    <3>3. async_io_lock' + Weight(l, io[t]) = async_io_lock + Weight(pc[t], io[t])
      BY <1>5, Weights, TaskFacts DEF HoldLabels
    <3>. QED  BY <1>3, <1>5, <2>1, <3>1, <3>2, <3>3, TaskFacts, OwnStep
  <2>4. SuspendedAt(pc', waiting')
    BY <1>0, <1>5, RunningStep DEF SuspendLabels
  <2>. QED  BY <1>1, <2>2, <2>3, <2>4 DEF IndInv
<1>6. CASE CheckAsync(t)
  BY <1>5, <1>6 DEF CheckAsync, Obtain_async, Goto, ReturnFrom
<1>7. ASSUME NEW l \in {"idle", "start"}, pc' = [pc EXCEPT ![t] = l], pc[t] = "claim",
             async_io_lock' = async_io_lock,
             call' = IF l = "idle" THEN [call EXCEPT ![t] = NoCall] ELSE call,
             bus_lock' = IF l = "idle" THEN bus_lock ELSE t,
             l = "start" => bus_lock = NoTask
      PROVE  IndInv'
  <2>2. LockTypes'
    BY <1>2, <1>7, TaskFacts DEF IndInv, LockTypes, Labels
  <2>3. TasksOK' /\ AsyncLockBalance'
    <3>1. TaskOK(t, l, io[t], call'[t], bus_lock')
      BY <1>7, TaskFacts DEF TaskOK, BusLabels, LockLabels
    <3>2. l \in Labels /\ \A u \in Task \ {t} : call'[u] = call[u]
      BY <1>7, TaskFacts DEF Labels
    <3>3. async_io_lock' + Weight(l, io[t]) = async_io_lock + Weight(pc[t], io[t])
      BY <1>7, Weights, TaskFacts
    <3>4. \/ bus_lock' = bus_lock
          \/ bus_lock \in {NoTask, t} /\ bus_lock' \in {NoTask, t}
      BY <1>7
    <3>. QED  BY <1>3, <1>7, <3>1, <3>2, <3>3, <3>4, TaskFacts, OwnStep
  <2>4. SuspendedAt(pc', waiting')
    BY <1>0, <1>7, RunningStep DEF SuspendLabels
  <2>. QED  BY <1>1, <2>2, <2>3, <2>4 DEF IndInv
<1>8. CASE ClaimBus(t)
  BY <1>7, <1>8 DEF ClaimBus, Goto, ReturnFrom
<1>. QED  BY <1>4, <1>6, <1>8

\* The steps that give back the bus never do so over a transaction.
LEMMA BusSteps ==
  ASSUME IndInv, NEW t \in Task, ReleaseBus(t) \/ CcReleaseBus(t) \/ Return(t)
  PROVE  IndInv'
<1>0. UNCHANGED <<irpVars, hwVars, io, waiting, async_io_lock>>
  BY DEF ReleaseBus, CcReleaseBus, Return
<1>1. HisrHasTransaction'
  BY <1>0, HisrKept
<1>2. /\ rx_irp' \in Irp /\ tx_irp' \in Irp /\ isr_queue' \in Nat
      /\ rxneie' \in BOOLEAN /\ io' \in [Task -> {"polled", "interrupt", "none"}]
      /\ waiting' \in Seq(Task) /\ async_io_lock' \in Nat
  BY <1>0 DEF IndInv, LockTypes, irpVars, hwVars
<1>3. io' = [io EXCEPT ![t] = io[t]]
  BY <1>0, TaskFacts
<1>4. PICK l \in {"relasync", "cc_relasync", "idle"} :
        /\ pc' = [pc EXCEPT ![t] = l]
        /\ pc[t] = CASE l = "relasync"    -> "relbus"
                     [] l = "cc_relasync" -> "cc_relbus"
                     [] l = "idle"        -> "end"
        /\ call' = IF l = "idle" THEN [call EXCEPT ![t] = NoCall] ELSE call
        /\ \/ Release_bus(t) /\ (l = "idle" => call[t].op = "write_read")
           \/ l = "idle" /\ bus_lock' = bus_lock
  BY DEF ReleaseBus, CcReleaseBus, Return, Goto, ReturnFrom
<1>5. /\ bus_lock' \in {bus_lock, NoTask}
      /\ bus_lock' # bus_lock => bus_lock = t /\ (io[t] = "none" \/ MayOverlap(t))
  <2>1. l # "idle" => io[t] = "none"
    BY <1>4, HolderIdle DEF HoldLabels
  <2>2. l = "idle" /\ call[t].op = "write_read" => io[t] = "none" \/ MayOverlap(t)
    BY <1>4, TaskFacts DEF TaskOK
  <2>. QED  BY <1>4, <2>1, <2>2 DEF Release_bus
<1>6. LockTypes'
  <2>1. pc' \in [Task -> Labels] /\ call' \in [Task -> Calls \cup {NoCall}]
    BY <1>4, TaskFacts DEF Labels
  <2>2. bus_lock' \in Task \cup {NoTask}
    BY <1>5 DEF IndInv, LockTypes
  <2>. QED  BY <1>2, <2>1, <2>2 DEF LockTypes
<1>7. TasksOK' /\ AsyncLockBalance'
  <2>1. TaskOK(t, l, io[t], call'[t], bus_lock')
    BY <1>4, <1>5, TaskFacts DEF TaskOK, BusLabels, LockLabels
  <2>2. l \in Labels /\ \A u \in Task \ {t} : call'[u] = call[u]
    BY <1>4, TaskFacts DEF Labels
  <2>3. async_io_lock' + Weight(l, io[t]) = async_io_lock + Weight(pc[t], io[t])
    BY <1>0, <1>4, Weights, TaskFacts DEF HoldLabels
  <2>4. \/ bus_lock' = bus_lock
        \/ bus_lock \in {NoTask, t} /\ bus_lock' \in {NoTask, t}
    BY <1>5
  <2>5. async_io_lock' \in Int
    BY <1>2
  <2>. QED  BY <1>3, <1>4, <2>1, <2>2, <2>3, <2>4, <2>5, TaskFacts, OwnStep
<1>8. SuspendedAt(pc', waiting')
  BY <1>0, <1>4, RunningStep DEF SuspendLabels
<1>. QED  BY <1>1, <1>6, <1>7, <1>8 DEF IndInv

\* The driver's updates of an IRP.
LEMMA IrpAdvance ==
  ASSUME NEW irp \in Irp
  PROVE  /\ [irp EXCEPT !.actual_length = @ + 1] \in Irp
         /\ [irp EXCEPT !.actual_length = @ + 1].task = irp.task
         /\ [irp EXCEPT !.actual_length = @ + 1, !.buffer = @ + 1] \in Irp
         /\ [irp EXCEPT !.actual_length = @ + 1, !.buffer = @ + 1].task = irp.task
<1>1. irp.actual_length \in Nat /\ irp.buffer \in Nat
  BY DEF Irp
<1>2. irp.actual_length + 1 \in Nat /\ irp.buffer + 1 \in Nat
  BY <1>1
<1>3. ASSUME NEW n \in Nat, NEW k \in Nat
      PROVE  /\ [irp EXCEPT !.actual_length = n] \in Irp
             /\ [irp EXCEPT !.actual_length = n].task = irp.task
             /\ [irp EXCEPT !.actual_length = n].buffer = irp.buffer
             /\ [[irp EXCEPT !.actual_length = n] EXCEPT !.buffer = k] \in Irp
             /\ [[irp EXCEPT !.actual_length = n] EXCEPT !.buffer = k].task = irp.task
  <2>1. [irp EXCEPT !.actual_length = n] \in Irp
    BY DEF Irp
  <2>2. \A r \in Irp : [r EXCEPT !.buffer = k] \in Irp /\ [r EXCEPT !.buffer = k].task = r.task
    BY DEF Irp
  <2>3. /\ [irp EXCEPT !.actual_length = n].task = irp.task
        /\ [irp EXCEPT !.actual_length = n].buffer = irp.buffer
    BY DEF Irp
  <2>. QED  BY <2>1, <2>2, <2>3
<1>. QED  BY <1>2, <1>3

\* The target driver's steps in the caller's context.
LEMMA DriverSteps ==
  ASSUME IndInv, NobodyOverlaps, NEW t \in Task,
         Start(t) \/ PollWrite(t) \/ PollRead(t) \/ PollEnd(t)
  PROVE  IndInv'
<1>0. UNCHANGED <<call, bus_lock, async_io_lock, waiting, isr_queue>>
  BY DEF Start, PollWrite, PollRead, PollEnd, lockVars, hwVars
<1>1. PICK l \in {"poll", "pollrx", "lock", "end"}, m \in Modes :
        /\ pc' = [pc EXCEPT ![t] = l] /\ io' = [io EXCEPT ![t] = m]
        /\ pc[t] \in {"start", "poll", "pollrx"}
        /\ l \in {"poll", "pollrx"} => m = "polled"
        /\ l = "lock" => m = "interrupt" /\ pc[t] = "start" /\ call[t].io = "interrupt"
        /\ l = "end" => m = "none"
  <2>1. CASE Start(t)
    BY <2>1 DEF Start, Goto, Modes
  <2>2. CASE PollWrite(t) \/ PollRead(t)
    <3>1. pc[t] \in {"poll", "pollrx"} /\ io' = io
      BY <2>2 DEF PollWrite, PollRead
    <3>2. io[t] = "polled"
      BY <3>1, TaskFacts DEF TaskOK
    <3>. QED  BY <2>2, <3>1, <3>2, TaskFacts DEF PollWrite, PollRead, Goto
  <2>3. CASE PollEnd(t)
    BY <2>3 DEF PollEnd, Goto, Modes
  <2>. QED  BY <2>1, <2>2, <2>3
<1>2. bus_lock = t /\ io[t] # "interrupt" /\ ~rxneie /\ isr_queue = 0
  <2>1. bus_lock = t /\ io[t] # "interrupt"
    BY <1>1, TaskFacts DEF TaskOK, BusLabels
  <2>. QED  BY <2>1, NoInterrupts
<1>3. rx_irp' \in Irp /\ tx_irp' \in Irp
  <2>0. rx_irp \in Irp /\ tx_irp \in Irp
    BY DEF IndInv, LockTypes
  <2>1. CASE Start(t)
    <3>1. call[t].len \in Nat
      BY TaskFacts, TaskAssumption DEF Call, NoCall
    <3>2. NewIrp(t, call[t].len) \in Irp
      BY <3>1 DEF NewIrp, Irp
    <3>. QED  BY <2>0, <2>1, <3>2 DEF Start
  <2>2. CASE PollWrite(t)
    BY <2>0, <2>2 DEF PollWrite, Irp
  <2>3. CASE PollRead(t)
    <3>1. /\ rx_irp' \in {rx_irp, [rx_irp EXCEPT !.actual_length = @ + 1]}
          /\ \/ tx_irp' = tx_irp
             \/ tx_irp' = [tx_irp EXCEPT !.actual_length = @ + 1, !.buffer = @ + 1]
      BY <2>3 DEF PollRead
    <3>. QED  BY <2>0, <3>1, IrpAdvance
  <2>4. CASE PollEnd(t)
    BY <2>0, <2>4 DEF PollEnd, irpVars
  <2>. QED  BY <2>1, <2>2, <2>3, <2>4
<1>4. rxneie' \in BOOLEAN
  <2>1. rxneie' = TRUE \/ rxneie' = rxneie
    BY Zenon DEF Start, PollWrite, PollRead, PollEnd, hwVars
  <2>2. rxneie \in BOOLEAN
    BY DEF IndInv, LockTypes
  <2>. QED  BY <2>1, <2>2
<1>5. LockTypes'
  <2>1. pc' \in [Task -> Labels] /\ io' \in [Task -> {"polled", "interrupt", "none"}]
    BY <1>1, TaskFacts DEF Labels, Modes
  <2>. QED  BY <1>0, <1>3, <1>4, <2>1 DEF IndInv, LockTypes
<1>6. TasksOK' /\ AsyncLockBalance'
  <2>1. l = "lock" => call[t].op # "write_read" \/ MayOverlap(t)
    BY <1>1, TaskFacts DEF NobodyOverlaps, NoAsyncWriteRead, MayOverlap, NoCall
  <2>2. TaskOK(t, l, m, call'[t], bus_lock')
    BY <1>0, <1>1, <1>2, <2>1 DEF TaskOK, BusLabels, LockLabels
  <2>3. l \in Labels /\ async_io_lock' \in Int /\ \A u \in Task \ {t} : call'[u] = call[u]
    BY <1>0, <1>1, TaskFacts DEF Labels
  <2>4. Weight(pc[t], io[t]) = 0
    BY <1>1, <1>2, Weights, TaskFacts DEF TaskOK, Modes
  <2>5. Weight(l, m) = 0
    BY <1>1, Weights DEF LockLabels, Modes
  <2>6. async_io_lock' + Weight(l, m) = async_io_lock + Weight(pc[t], io[t])
    BY <1>0, <2>4, <2>5, TaskFacts
  <2>. QED  BY <1>0, <1>1, <2>2, <2>3, <2>6, OwnStep
<1>7. SuspendedAt(pc', waiting')
  BY <1>0, <1>1, RunningStep DEF SuspendLabels
<1>8. HisrHasTransaction'
  <2>1. CASE rxneie'
    <3>1. Start(t) /\ call[t].io = "interrupt"
      BY <1>2, <2>1 DEF Start, PollWrite, PollRead, PollEnd, hwVars
    <3>2. /\ io_operation' = call[t].op
          /\ rx_irp' = IF call[t].op = "write" THEN rx_irp ELSE NewIrp(t, call[t].len)
          /\ tx_irp' = IF call[t].op = "read" THEN tx_irp ELSE NewIrp(t, call[t].len)
          /\ io' = [io EXCEPT ![t] = call[t].io]
      BY <3>1 DEF Start
    <3>3. call[t].op \in {"read", "write", "write_read"}
      BY TaskFacts, TaskAssumption DEF Call, NoCall
    <3>4. io'[t] = "interrupt"
      BY <3>1, <3>2, TaskFacts
    <3>5. NewIrp(t, call[t].len).task = t /\ t # NoTask
      BY TaskFacts DEF NewIrp
    <3>6. ~(isr_queue' > 0)
      BY <1>0, <1>2
    <3>. QED  BY <3>2, <3>3, <3>4, <3>5, <3>6 DEF HisrHasTransaction
  <2>2. CASE ~rxneie'
    BY <1>0, <1>2, <2>2, HisrOff
  <2>. QED  BY <2>1, <2>2
<1>. QED  BY <1>5, <1>6, <1>7, <1>8 DEF IndInv

\* The steps that obtain async_io_lock, suspend for it or give up waiting.
LEMMA ObtainSteps ==
  ASSUME IndInv, NEW t \in Task, LockAsync(t) \/ CheckComplete(t) \/ CcTimeout(t)
  PROVE  IndInv'
<1>0. UNCHANGED <<irpVars, hwVars, io, call, bus_lock>>
  BY DEF LockAsync, CheckComplete, CcTimeout
<1>1. HisrHasTransaction'
  BY <1>0, HisrKept
<1>2. PICK l \in {"end", "locking", "cc_relbus", "cc_wait", "cc_ticks", "idle"} :
        /\ pc' = [pc EXCEPT ![t] = l]
        /\ l \in {"end", "cc_relbus"} =>
             /\ async_io_lock > 0 /\ async_io_lock' = async_io_lock - 1
             /\ waiting' = waiting
        /\ l \in SuspendLabels =>
             async_io_lock' = async_io_lock /\ waiting' = Append(waiting, t)
        /\ l = "idle" =>
             /\ async_io_lock' = async_io_lock
             /\ \E k \in 1 .. Len(waiting) :
                  /\ waiting[k] = t
                  /\ waiting' = [i \in 1 .. Len(waiting) - 1 |->
                                   IF i < k THEN waiting[i] ELSE waiting[i + 1]]
        /\ pc[t] = CASE l \in {"end", "locking"} -> "lock"
                     [] l \in {"cc_relbus", "cc_wait", "cc_ticks"} -> "idle"
                     [] l = "idle" -> "cc_ticks"
  <2>1. CASE LockAsync(t)
    BY <2>1 DEF LockAsync, Obtain_async, Goto, SuspendLabels
  <2>2. CASE CheckComplete(t)
    BY <2>2 DEF CheckComplete, Obtain_async, Goto, SuspendLabels
  <2>3. CASE CcTimeout(t)
    BY <2>3 DEF CcTimeout, Goto, SuspendLabels
  <2>. QED  BY <2>1, <2>2, <2>3
<1>3. async_io_lock' \in Nat /\ l \in Labels
  BY <1>2, TaskFacts DEF SuspendLabels, Labels
<1>4. waiting' \in Seq(Task) /\ SuspendedAt(pc', waiting')
  <2>1. CASE l \in {"end", "cc_relbus"}
    <3>1. waiting' \in Seq(Task)
      BY <1>2, <2>1 DEF IndInv, LockTypes
    <3>2. pc[t] \notin SuspendLabels
      BY <1>2, <2>1 DEF SuspendLabels
    <3>. QED  BY <1>2, <2>1, <3>1, <3>2, RunningStep
  <2>2. CASE l \in SuspendLabels
    <3>1. pc[t] \notin SuspendLabels
      BY <1>2, <2>2 DEF SuspendLabels
    <3>. QED  BY <1>2, <2>2, <3>1, SuspendStep
  <2>3. CASE l = "idle"
    <3>1. PICK k \in 1 .. Len(waiting) :
            /\ waiting[k] = t
            /\ waiting' = [i \in 1 .. Len(waiting) - 1 |->
                             IF i < k THEN waiting[i] ELSE waiting[i + 1]]
      BY <1>2, <2>3
    <3>. QED  BY <1>2, <3>1, TimeoutStep
  <2>. QED  BY <2>1, <2>2, <2>3 DEF SuspendLabels
<1>5. LockTypes'
  <2>1. pc' \in [Task -> Labels]
    BY <1>2, <1>3, TaskFacts
  <2>. QED  BY <1>0, <1>3, <1>4, <2>1 DEF IndInv, LockTypes, irpVars, hwVars
<1>6. TasksOK' /\ AsyncLockBalance'
  <2>1. TaskOK(t, l, io[t], call'[t], bus_lock')
    BY <1>0, <1>2, TaskFacts DEF TaskOK, BusLabels, LockLabels
  <2>2. l = "end" \/ l = "locking" => io[t] # "polled"
    BY <1>2, TaskFacts DEF TaskOK
  <2>3. async_io_lock' + Weight(l, io[t]) = async_io_lock + Weight(pc[t], io[t])
    <3>1. CASE l = "end" \/ l = "locking"
      BY <1>2, <2>2, <3>1, Weights, TaskFacts DEF LockLabels, SuspendLabels, Modes
    <3>2. CASE l \in {"cc_relbus", "cc_wait", "cc_ticks", "idle"}
      BY <1>2, <3>2, Weights, TaskFacts DEF HoldLabels, SuspendLabels
    <3>. QED  BY <3>1, <3>2
  <2>4. io' = [io EXCEPT ![t] = io[t]] /\ async_io_lock' \in Int
    BY <1>0, <1>3, TaskFacts
  <2>. QED  BY <1>0, <1>2, <1>3, <2>1, <2>3, <2>4, TaskFacts, OwnStep
<1>. QED  BY <1>1, <1>4, <1>5, <1>6 DEF IndInv

\* A release keeps the invariant when the balance before it counts the
\* released instance.
LEMMA ReleaseKeeps ==
  ASSUME IndInv, NEW p \in [Task -> Labels],
         Release_async(p),
         io' \in [Task -> Modes],
         UNCHANGED <<call, bus_lock>>,
         rx_irp' \in Irp, tx_irp' \in Irp, isr_queue' \in Nat, rxneie' \in BOOLEAN,
         Balance(p, io', async_io_lock + 1),
         SuspendedAt(p, waiting),
         \A u \in Task : TaskOK(u, p[u], io'[u], call[u], bus_lock),
         HisrHasTransaction'
  PROVE  IndInv'
<1>0. LockTypes
  BY DEF IndInv
<1>1. /\ pc' \in [Task -> Labels]
      /\ async_io_lock' \in Nat
      /\ waiting' \in Seq(Task)
      /\ Balance(pc', io', async_io_lock')
      /\ SuspendedAt(pc', waiting')
      /\ \A u \in Task : TaskOK(u, pc'[u], io'[u], call[u], bus_lock)
  BY <1>0, ReleaseStep
<1>2. LockTypes'
  BY <1>0, <1>1 DEF LockTypes, Modes
<1>3. TasksOK'
  BY <1>1 DEF TasksOK
<1>4. AsyncLockBalance'
  BY <1>1 DEF AsyncLockBalance, Balance, Holders, Locked, Early,
              HoldersAt, LockedAt, EarlyAt, HoldLabels, LockLabels
<1>. QED  BY <1>1, <1>2, <1>3, <1>4 DEF IndInv

\* The releases of async_io_lock by a task that probed it.
LEMMA ReleaseSteps ==
  ASSUME IndInv, NEW t \in Task, ReleaseAsync(t) \/ CcReleaseAsync(t)
  PROVE  IndInv'
<1>0. UNCHANGED <<irpVars, hwVars, io, call, bus_lock>>
  BY DEF ReleaseAsync, CcReleaseAsync
<1>1. HisrHasTransaction'
  BY <1>0, HisrKept
<1>2. PICK l \in {"claim", "idle"} :
        /\ pc[t] \in {"relasync", "cc_relasync"}
        /\ Release_async([pc EXCEPT ![t] = l])
  BY DEF ReleaseAsync, CcReleaseAsync
<1> DEFINE p == [pc EXCEPT ![t] = l]
<1>3. p \in [Task -> Labels] /\ l \in Labels
  BY <1>2, TaskFacts DEF Labels
<1>4. Balance(p, io', async_io_lock + 1)
  <2>1. (async_io_lock + 1) + Weight(l, io[t]) = async_io_lock + Weight(pc[t], io[t])
    BY <1>2, Weights, TaskFacts DEF HoldLabels
  <2>2. Balance(pc, io, async_io_lock) /\ async_io_lock + 1 \in Int
    BY BalanceIs, TaskFacts DEF IndInv
  <2>3. Balance([pc EXCEPT ![t] = l], [io EXCEPT ![t] = io[t]], async_io_lock + 1)
    BY <1>3, <2>1, <2>2, TaskFacts, BalanceChange
  <2>. QED  BY <1>0, <2>3, TaskFacts
<1>5. SuspendedAt(p, waiting)
  BY <1>2, RunningStep DEF SuspendLabels
<1>6. \A u \in Task : TaskOK(u, p[u], io'[u], call[u], bus_lock)
  <2>1. TaskOK(t, l, io[t], call[t], bus_lock)
    BY <1>2, TaskFacts, HolderIdle DEF TaskOK, BusLabels, LockLabels, HoldLabels
  <2>. QED  BY <1>0, <2>1, TaskFacts DEF IndInv, TasksOK
<1>7. /\ rx_irp' \in Irp /\ tx_irp' \in Irp /\ isr_queue' \in Nat
      /\ rxneie' \in BOOLEAN /\ io' \in [Task -> Modes]
  BY <1>0 DEF IndInv, LockTypes, irpVars, hwVars, Modes
<1> HIDE DEF p
<1>8. Release_async(p)
  BY <1>2 DEF p
<1>. QED  BY <1>0, <1>1, <1>3, <1>4, <1>5, <1>6, <1>7, <1>8, ReleaseKeeps

\* The controller and the LISR touch no lock.
LEMMA ControllerSteps ==
  ASSUME IndInv, Shift \/ LWSPI_TGT_LISR
  PROVE  IndInv'
<1>0. UNCHANGED <<pc, call, bus_lock, async_io_lock, waiting, io, rx_irp, tx_irp,
                  io_operation>>
  BY DEF Shift, LWSPI_TGT_LISR, lockVars, irpVars
<1>1. isr_queue \in Nat /\ rxneie \in BOOLEAN
  BY DEF IndInv, LockTypes
<1>2. isr_queue' \in Nat /\ rxneie' \in BOOLEAN
  <2>1. CASE Shift
    BY <1>1, <2>1 DEF Shift
  <2>2. CASE LWSPI_TGT_LISR
    <3>1. isr_queue' \in Nat
      BY <1>1, <2>2 DEF LWSPI_TGT_LISR
    <3>2. rxneie' \in BOOLEAN
      BY <2>2, Zenon DEF LWSPI_TGT_LISR
    <3>. QED  BY <3>1, <3>2
  <2>. QED  BY <2>1, <2>2
<1>3. LockTypes'
  BY <1>0, <1>2 DEF IndInv, LockTypes
<1>4. TasksOK' /\ SuspendedAt(pc, waiting)' /\ AsyncLockBalance'
  BY <1>0 DEF IndInv, TasksOK, SuspendedAt, AsyncLockBalance, Holders, Locked, Early
<1>5. HisrHasTransaction'
  <2>1. CASE Shift
    BY <1>0, <2>1 DEF IndInv, HisrHasTransaction, Shift
  <2>2. CASE LWSPI_TGT_LISR
    BY <1>0, <1>1, <2>2 DEF IndInv, HisrHasTransaction, LWSPI_TGT_LISR
  <2>. QED  BY <2>1, <2>2
<1>. QED  BY <1>3, <1>4, <1>5 DEF IndInv

\* The HISR finds the transaction it works for, and on completion unlocks what
\* the caller has locked or will lock.
LEMMA HisrSteps ==
  ASSUME IndInv, LWSPI_HISR_Entry
  PROVE  IndInv'
<1> DEFINE irp == IF io_operation = "write" THEN tx_irp ELSE rx_irp
           t == irp.task
<1>0. isr_queue > 0 /\ isr_queue \in Nat /\ rx_irp \in Irp /\ tx_irp \in Irp
  BY DEF LWSPI_HISR_Entry, IndInv, LockTypes
<1>1. /\ isr_queue = 1 /\ ~rxneie /\ io_operation # "none"
      /\ t # NoTask /\ io[t] = "interrupt"
  BY <1>0 DEF IndInv, HisrHasTransaction
<1>2. t \in Task
  BY <1>0, <1>1 DEF Irp
<1>3. UNCHANGED <<call, bus_lock, io_operation>> /\ isr_queue' = 0
  BY <1>1 DEF LWSPI_HISR_Entry
<1>4. IoContinues \/ IoComplete(t)
  BY DEF LWSPI_HISR_Entry, ISR_Read, ISR_Write, ISR_Write_Read
<1>5. /\ rx_irp' \in Irp /\ rx_irp'.task = rx_irp.task
      /\ tx_irp' \in Irp /\ tx_irp'.task = tx_irp.task
  <2>1. /\ \/ rx_irp' = rx_irp
           \/ rx_irp' = [rx_irp EXCEPT !.actual_length = @ + 1]
        /\ \/ tx_irp' = tx_irp
           \/ tx_irp' = [tx_irp EXCEPT !.actual_length = @ + 1]
           \/ tx_irp' = [tx_irp EXCEPT !.actual_length = @ + 1, !.buffer = @ + 1]
    BY DEF LWSPI_HISR_Entry, ISR_Read, ISR_Write, ISR_Write_Read
  <2>. QED  BY <1>0, <2>1, IrpAdvance
<1>6. isr_queue' \in Nat
  BY <1>3
<1> HIDE DEF irp, t
<1>7. CASE IoContinues
  <2>1. UNCHANGED <<pc, async_io_lock, waiting, io>> /\ rxneie' = TRUE
    BY <1>7 DEF IoContinues
  <2>2. LockTypes'
    BY <1>3, <1>5, <1>6, <2>1 DEF IndInv, LockTypes
  <2>3. TasksOK' /\ SuspendedAt(pc, waiting)' /\ AsyncLockBalance'
    BY <1>3, <2>1 DEF IndInv, TasksOK, SuspendedAt, AsyncLockBalance, Holders, Locked, Early
  <2>4. HisrHasTransaction'
    <3>1. (IF io_operation' = "write" THEN tx_irp' ELSE rx_irp').task = t
      BY <1>3, <1>5 DEF irp, t
    <3>2. io' = io
      BY <2>1
    <3>. QED  BY <1>1, <1>3, <3>1, <3>2 DEF HisrHasTransaction
  <2>. QED  BY <2>2, <2>3, <2>4 DEF IndInv
<1>8. CASE IoComplete(t)
  <2>1. /\ io' = [io EXCEPT ![t] = "none"] /\ Release_async(pc)
        /\ rxneie' = rxneie
    BY <1>8 DEF IoComplete
  <2>2. io' \in [Task -> Modes] /\ rxneie' \in BOOLEAN
    <3>1. io' \in [Task -> Modes]
      BY <1>2, <2>1, TaskFacts DEF Modes
    <3>2. rxneie' \in BOOLEAN
      BY <2>1, Zenon DEF IndInv, LockTypes
    <3>. QED  BY <3>1, <3>2
  <2>3. HisrHasTransaction'
    BY <1>1, <1>3, <2>1, HisrOff
  <2>4. TaskOK(t, pc[t], "none", call[t], bus_lock)
    BY <1>1, <1>2, TaskFacts DEF TaskOK
  <2>5. Balance(pc, io', async_io_lock + 1)
    <3>1. (async_io_lock + 1) + Weight(pc[t], "none")
            = async_io_lock + Weight(pc[t], io[t])
      <4>1. pc[t] \in Labels /\ pc[t] \notin {"poll", "pollrx"}
        BY <1>1, <1>2, TaskFacts DEF TaskOK
      <4>. QED  BY <1>1, <1>2, <4>1, Weights, TaskFacts
                   DEF Labels, Modes, HoldLabels, LockLabels
    <3>2. Balance(pc, io, async_io_lock) /\ async_io_lock + 1 \in Int /\ "none" \in Modes
      BY <1>2, BalanceIs, TaskFacts DEF IndInv, Modes
    <3>3. Balance([pc EXCEPT ![t] = pc[t]], [io EXCEPT ![t] = "none"], async_io_lock + 1)
      BY <1>2, <3>1, <3>2, TaskFacts, BalanceChange
    <3>4. [pc EXCEPT ![t] = pc[t]] = pc
      BY <1>2, TaskFacts
    <3>. QED  BY <2>1, <3>3, <3>4
  <2>6. \A u \in Task : TaskOK(u, pc[u], io'[u], call[u], bus_lock)
    BY <1>2, <2>1, <2>4, TaskFacts DEF IndInv, TasksOK
  <2>7. pc \in [Task -> Labels] /\ SuspendedAt(pc, waiting)
    BY DEF IndInv, LockTypes
  <2>. QED  BY <1>3, <1>5, <1>6, <2>1, <2>2, <2>3, <2>5, <2>6, <2>7, ReleaseKeeps
<1>. QED  BY <1>4, <1>7, <1>8

-----------------------------------------------------------------------------
(* The theorems about the locks *)

LEMMA IndInvInit == Init => IndInv
<1> SUFFICES ASSUME Init PROVE IndInv
  OBVIOUS
<1> USE DEF Init
<1>1. LockTypes
  <2>1. pc \in [Task -> Labels] /\ call \in [Task -> Calls \cup {NoCall}]
    BY DEF Labels
  <2>2. /\ bus_lock \in Task \cup {NoTask} /\ async_io_lock \in Nat
        /\ waiting \in Seq(Task) /\ isr_queue \in Nat
        /\ io \in [Task -> {"polled", "interrupt", "none"}]
    OBVIOUS
  <2>3. rx_irp \in Irp /\ tx_irp \in Irp
    BY DEF NewIrp, Irp
  <2>4. rxneie \in BOOLEAN
    BY Zenon
  <2>. QED  BY <2>1, <2>2, <2>3, <2>4 DEF LockTypes
<1>2. TasksOK /\ SuspendedAt(pc, waiting) /\ HisrHasTransaction
  BY TaskAssumption DEF TasksOK, TaskOK, SuspendedAt, HisrHasTransaction,
     BusLabels, LockLabels
<1>3. AsyncLockBalance
  <2>1. Holders = {} /\ Locked = {} /\ Early = {}
    BY DEF Holders, Locked, Early
  <2>. QED  BY <2>1, FS_EmptySet DEF AsyncLockBalance
<1>. QED  BY <1>1, <1>2, <1>3 DEF IndInv

LEMMA IndInvStep ==
  ASSUME NobodyOverlaps, IndInv, [Next]_vars
  PROVE  IndInv'
<1>1. CASE UNCHANGED vars
  BY <1>1 DEF IndInv, LockTypes, TasksOK, SuspendedAt, AsyncLockBalance, Holders, Locked,
     Early, HisrHasTransaction, vars, lockVars, irpVars, hwVars
<1>2. ASSUME NEW t \in Task,
             CallIo(t) \/ CheckComplete(t) \/ CcTimeout(t) \/ TaskStep(t)
      PROVE  IndInv'
  <2>1. CASE CallIo(t) \/ CheckAsync(t) \/ ClaimBus(t)
    BY <2>1, EntrySteps
  <2>2. CASE ReleaseBus(t) \/ CcReleaseBus(t) \/ Return(t)
    BY <2>2, BusSteps
  <2>3. CASE Start(t) \/ PollWrite(t) \/ PollRead(t) \/ PollEnd(t)
    BY <2>3, DriverSteps
  <2>4. CASE LockAsync(t) \/ CheckComplete(t) \/ CcTimeout(t)
    BY <2>4, ObtainSteps
  <2>5. CASE ReleaseAsync(t) \/ CcReleaseAsync(t)
    BY <2>5, ReleaseSteps
  <2>. QED  BY <1>2, <2>1, <2>2, <2>3, <2>4, <2>5 DEF TaskStep
<1>3. CASE Shift \/ LWSPI_TGT_LISR
  BY <1>3, ControllerSteps
<1>4. CASE LWSPI_HISR_Entry
  BY <1>4, HisrSteps
<1>. QED  BY <1>1, <1>2, <1>3, <1>4 DEF Next

LEMMA Invariant ==
  ASSUME NobodyOverlaps
  PROVE  Spec => []IndInv
<1>1. Init => IndInv
  BY IndInvInit
<1>2. IndInv /\ [Next]_vars => IndInv'
  BY IndInvStep
<1>. QED  BY <1>1, <1>2, PTL DEF Spec

\* For any number of tasks: as long as nobody calls NU_SPI_Write_Read in
\* interrupt mode, no two transactions overlap on the bus and the transaction
\* in progress is the bus owner's.
THEOREM BusIsSafe ==
  ASSUME NoAsyncWriteRead
  PROVE  Spec => []BusExclusive
<1>1. NobodyOverlaps
  BY DEF NobodyOverlaps
<1>2. IndInv => BusExclusive
  BY DEF IndInv, TasksOK, TaskOK, MayOverlap, BusExclusive, InProgress
<1>. QED  BY <1>1, <1>2, Invariant, PTL

\* Under the same condition, or for a single task and all calls, async_io_lock
\* neither loses nor gains an instance, however the HISR that completes a
\* transaction, the caller that locks async_io_lock late and the tasks that
\* probe it interleave.
THEOREM AsyncLockAccounted ==
  ASSUME NobodyOverlaps
  PROVE  Spec => []AsyncLockBalance
<1>1. IndInv => AsyncLockBalance
  BY DEF IndInv
<1>. QED  BY <1>1, Invariant, PTL

\* Under the same condition LWSPI_HISR_Entry never runs without a transaction:
\* every interrupt and every entry of the queue belongs to one in progress.
THEOREM HisrServesTransaction ==
  ASSUME NobodyOverlaps
  PROVE  Spec => []HisrHasTransaction
<1>1. IndInv => HisrHasTransaction
  BY DEF IndInv
<1>. QED  BY <1>1, Invariant, PTL

-----------------------------------------------------------------------------
(* What a transaction has moved *)

\* The types of the history and of the local pointers; a word can be stored
\* behind the end of the caller's buffer.
Buffers  == UNION {[D -> Nat] : D \in SUBSET Nat}
Moved    == [call : Call, in : Buffers, out : Seq(Nat), complete : BOOLEAN]
DataType == xfer \in [Task -> Moved] /\ local_pos \in [Task -> Nat]

PollLabels == {"poll", "pollrx"}

\* The first n words of a buffer of len are stored.
StoredTo(s, len, n) == s = [i \in 1 .. len |-> IF i <= n THEN i ELSE 0]

\* A polled loop at label l has moved the words its IRPs count, and its local
\* pointer p is at the next one; at "pollrx" a word is under way.
PollRd(l, x, rx, p) ==
  /\ rx.length = x.call.len
  /\ rx.actual_length <= x.call.len
  /\ l = "pollrx" => rx.actual_length < x.call.len
  /\ p = rx.actual_length + 1
  /\ StoredTo(x.in, x.call.len, rx.actual_length)

PollWr(l, x, tx) ==
  /\ tx.length = x.call.len
  /\ tx.actual_length <= x.call.len
  /\ l = "pollrx" => tx.actual_length < x.call.len
  /\ tx.buffer = tx.actual_length + 1
  /\ InOrder(x.out, IF l = "pollrx" THEN tx.actual_length + 1 ELSE tx.actual_length)

PollWrRd(l, x, rx, tx, p) ==
  /\ PollRd(l, x, rx, p)
  /\ tx.length = x.call.len
  /\ tx.actual_length = IF l = "pollrx" THEN rx.actual_length + 1 ELSE rx.actual_length
  /\ InOrder(x.out, tx.actual_length)

PollOK(l, x, rx, tx, p) ==
  /\ x.call.op = "read" => PollRd(l, x, rx, p)
  /\ x.call.op = "write" => PollWr(l, x, tx)
  /\ x.call.op = "write_read" => PollWrRd(l, x, rx, tx, p)

\* An interrupt-mode write is one word ahead of its IRP.
AsyncWr(x, tx) ==
  /\ tx.length = x.call.len
  /\ x.call.len > 0 => tx.actual_length < x.call.len
  /\ tx.buffer = tx.actual_length + 1
  /\ InOrder(x.out, tx.actual_length + 1)

\* What a completed transaction has moved.
Whole(x) ==
  x.call.io = "polled" \/ (x.call.op = "write" /\ x.call.len > 0) =>
    /\ x.call.op # "write" => InOrder(x.in, x.call.len)
    /\ x.call.op # "read"  => InOrder(x.out, x.call.len)

\* Task at label l with arguments c, mode m, history x and local pointer p,
\* where the driver has the IRPs rx and tx and works on operation op.
MovedOK(l, c, m, x, p, rx, tx, op) ==
  /\ x.complete => m = "none" /\ Whole(x)
  /\ m # "none" => x.call.io = m
  /\ l \in PollLabels => x.call = c /\ PollOK(l, x, rx, tx, p)
  /\ l \notin PollLabels => p = 1
  /\ m = "interrupt" => x.call.op = op /\ (op = "write" => AsyncWr(x, tx))

DataOK ==
  /\ DataType
  /\ \A t \in Task : MovedOK(pc[t], call[t], io[t], xfer[t], local_pos[t], rx_irp, tx_irp,
                             io_operation)

-----------------------------------------------------------------------------
(* Updates of the history *)

LEMMA InOrderGrows ==
  ASSUME NEW n \in Nat, NEW s, InOrder(s, n)
  PROVE  InOrder(Append(s, n + 1), n + 1)
<1>1. s \in Seq(Nat) /\ Len(s) = n /\ \A i \in 1 .. n : s[i] = i
  BY DEF InOrder
<1>2. PICK t \in Seq(Nat) : t = Append(s, n + 1)
  <2>1. Append(s, n + 1) \in Seq(Nat)
    BY <1>1
  <2>. QED  BY <2>1
<1>3. /\ Len(t) = n + 1 /\ t[n + 1] = n + 1 /\ \A i \in 1 .. n : t[i] = i
  BY <1>1, <1>2
<1>4. t = [i \in 1 .. n + 1 |-> t[i]]
  BY <1>2, <1>3
<1>5. \A i \in 1 .. n + 1 : t[i] = i
  BY <1>3
<1>. QED  BY <1>2, <1>4, <1>5 DEF InOrder

LEMMA StoredGrows ==
  ASSUME NEW len \in Nat, NEW n \in Nat, n < len, NEW s, StoredTo(s, len, n)
  PROVE  StoredTo([j \in DOMAIN s \cup {n + 1} |-> IF j = n + 1 THEN n + 1 ELSE s[j]],
                  len, n + 1)
<1>1. DOMAIN s = 1 .. len /\ \A i \in 1 .. len : s[i] = IF i <= n THEN i ELSE 0
  BY DEF StoredTo
<1>2. (1 .. len) \cup {n + 1} = 1 .. len
  OBVIOUS
<1>3. \A j \in 1 .. len : (IF j = n + 1 THEN n + 1 ELSE s[j]) = IF j <= n + 1 THEN j ELSE 0
  BY <1>1
<1>. QED  BY <1>1, <1>2, <1>3 DEF StoredTo

LEMMA StoredAll ==
  ASSUME NEW len \in Nat, NEW s, StoredTo(s, len, len)
  PROVE  InOrder(s, len)
BY DEF StoredTo, InOrder

\* The parts of a history after an update of one of them.
LEMMA MovedUpdates ==
  ASSUME NEW x \in Moved, NEW v
  PROVE  /\ LET y == [x EXCEPT !.out = v]
            IN  /\ y.call = x.call /\ y.in = x.in /\ y.out = v /\ y.complete = x.complete
                /\ v \in Seq(Nat) => y \in Moved
         /\ LET y == [x EXCEPT !.in = v]
            IN  /\ y.call = x.call /\ y.in = v /\ y.out = x.out /\ y.complete = x.complete
                /\ v \in Buffers => y \in Moved
         /\ LET y == [x EXCEPT !.complete = v]
            IN  /\ y.call = x.call /\ y.in = x.in /\ y.out = x.out /\ y.complete = v
                /\ v \in BOOLEAN => y \in Moved
BY DEF Moved

LEMMA PutType ==
  ASSUME NEW s \in Buffers, NEW i \in Nat, NEW n \in Nat
  PROVE  [j \in DOMAIN s \cup {i} |-> IF j = i THEN n ELSE s[j]] \in Buffers
<1>1. PICK D \in SUBSET Nat : s \in [D -> Nat]
  BY DEF Buffers
<1>2. [j \in DOMAIN s \cup {i} |-> IF j = i THEN n ELSE s[j]] \in [D \cup {i} -> Nat]
      /\ D \cup {i} \in SUBSET Nat
  BY <1>1
<1>. QED  BY <1>2 DEF Buffers

LEMMA SentIs ==
  ASSUME DataType, NEW t \in Task, NEW i \in Nat
  PROVE  /\ Sent(t, i) = [xfer EXCEPT ![t] = [xfer[t] EXCEPT !.out = Append(xfer[t].out, i)]]
         /\ [xfer[t] EXCEPT !.out = Append(xfer[t].out, i)] \in Moved
<1>1. xfer[t] \in Moved /\ xfer[t].out \in Seq(Nat)
  BY DEF DataType, Moved
<1>2. Append(xfer[t].out, i) \in Seq(Nat)
  BY <1>1
<1>3. [xfer[t] EXCEPT !.out = Append(xfer[t].out, i)] \in Moved
  BY <1>1, <1>2, MovedUpdates
<1>. QED  BY <1>3 DEF Sent

\* The caller's buffer s with word n at index i.
Put(s, i, n) == [j \in DOMAIN s \cup {i} |-> IF j = i THEN n ELSE s[j]]

LEMMA StoredIs ==
  ASSUME DataType, NEW t \in Task, NEW i \in Nat, NEW n \in Nat
  PROVE  /\ Stored(t, i, n) = [xfer EXCEPT ![t] = [xfer[t] EXCEPT !.in = Put(xfer[t].in, i, n)]]
         /\ [xfer[t] EXCEPT !.in = Put(xfer[t].in, i, n)] \in Moved
<1>1. xfer[t] \in Moved /\ xfer[t].in \in Buffers
  BY DEF DataType, Moved
<1>2. Put(xfer[t].in, i, n) \in Buffers
  BY <1>1, PutType DEF Put
<1>3. [xfer[t] EXCEPT !.in = Put(xfer[t].in, i, n)] \in Moved
  BY <1>1, <1>2, MovedUpdates
<1>4. Stored(t, i, n) = [xfer EXCEPT ![t] = [xfer[t] EXCEPT !.in = Put(xfer[t].in, i, n)]]
  BY DEF Stored, Put
<1>. QED  BY <1>3, <1>4

LEMMA CompletedIs ==
  ASSUME NEW h \in [Task -> Moved], NEW t \in Task
  PROVE  /\ [h EXCEPT ![t].complete = TRUE] = [h EXCEPT ![t] = [h[t] EXCEPT !.complete = TRUE]]
         /\ [h[t] EXCEPT !.complete = TRUE] \in Moved
<1>1. h[t] \in Moved /\ TRUE \in BOOLEAN
  OBVIOUS
<1>2. [h[t] EXCEPT !.complete = TRUE] \in Moved
  BY <1>1, MovedUpdates
<1>. QED  BY <1>2

-----------------------------------------------------------------------------
(* Steps that move no word, and steps of the transaction in progress *)

LEMMA QuietStep ==
  ASSUME DataOK, UNCHANGED <<xfer, local_pos, io, irpVars>>,
         \A u \in Task : IF pc[u] \in PollLabels THEN pc'[u] = pc[u] /\ call'[u] = call[u]
                                                 ELSE pc'[u] \notin PollLabels
  PROVE  DataOK'
<1>1. DataType'
  BY DEF DataOK, DataType
<1>2. ASSUME NEW u \in Task
      PROVE  MovedOK(pc'[u], call'[u], io'[u], xfer'[u], local_pos'[u], rx_irp', tx_irp',
                     io_operation')
  <2>1. MovedOK(pc[u], call[u], io[u], xfer[u], local_pos[u], rx_irp, tx_irp, io_operation)
    BY DEF DataOK
  <2>2. MovedOK(pc'[u], call'[u], io[u], xfer[u], local_pos[u], rx_irp, tx_irp, io_operation)
    <3>1. CASE pc[u] \in PollLabels
      BY <2>1, <3>1
    <3>2. CASE pc[u] \notin PollLabels
      BY <2>1, <3>2 DEF MovedOK
    <3>. QED  BY <3>1, <3>2
  <2>. QED  BY <2>2 DEF irpVars
<1>. QED  BY <1>1, <1>2 DEF DataOK

\* Without the bus a task has no transaction the driver works on.
LEMMA OtherTask ==
  ASSUME IndInv, DataOK, NEW t \in Task, bus_lock = t \/ MayOverlap(t), NEW u \in Task, u # t
  PROVE  /\ io[u] = "none" /\ pc[u] \notin PollLabels
         /\ \A l, c, rx, tx, op : l \notin PollLabels =>
              MovedOK(l, c, io[u], xfer[u], local_pos[u], rx, tx, op)
<1>1. TaskOK(u, pc[u], io[u], call[u], bus_lock)
  BY TaskFacts
<1>2. io[u] = "none" /\ pc[u] \notin PollLabels
  BY <1>1 DEF TaskOK, PollLabels, BusLabels, MayOverlap
<1>3. MovedOK(pc[u], call[u], io[u], xfer[u], local_pos[u], rx_irp, tx_irp, io_operation)
  BY DEF DataOK
<1>. QED  BY <1>2, <1>3 DEF MovedOK

LEMMA OwnerMoves ==
  ASSUME IndInv, DataOK, NEW t \in Task, bus_lock = t \/ MayOverlap(t), NEW x \in Moved, NEW p \in Nat, NEW m,
         xfer' = [xfer EXCEPT ![t] = x], local_pos' = [local_pos EXCEPT ![t] = p],
         io' = [io EXCEPT ![t] = m],
         \A u \in Task : u # t => pc'[u] \notin PollLabels,
         MovedOK(pc'[t], call'[t], m, x, p, rx_irp', tx_irp', io_operation')
  PROVE  DataOK'
<1>1. xfer \in [Task -> Moved] /\ local_pos \in [Task -> Nat]
  BY DEF DataOK, DataType
<1>2. DataType'
  BY <1>1 DEF DataType
<1>3. io \in [Task -> Modes]
  BY TaskFacts
<1>4. xfer'[t] = x /\ local_pos'[t] = p /\ io'[t] = m
  BY <1>1, <1>3
<1>5. ASSUME NEW u \in Task
      PROVE  MovedOK(pc'[u], call'[u], io'[u], xfer'[u], local_pos'[u], rx_irp', tx_irp',
                     io_operation')
  <2>1. CASE u = t
    BY <1>4, <2>1
  <2>2. CASE u # t
    <3>1. xfer'[u] = xfer[u] /\ local_pos'[u] = local_pos[u] /\ io'[u] = io[u]
      BY <1>1, <1>3, <2>2
    <3>2. \A l, c, rx, tx, op : l \notin PollLabels =>
            MovedOK(l, c, io[u], xfer[u], local_pos[u], rx, tx, op)
      BY <2>2, OtherTask
    <3>. QED  BY <2>2, <3>1, <3>2
  <2>. QED  BY <2>1, <2>2
<1>. QED  BY <1>2, <1>5 DEF DataOK

-----------------------------------------------------------------------------
(* The target driver's steps *)

\* What is known of the task t that owns the bus.
LEMMA OwnerFacts ==
  ASSUME IndInv, DataOK, NEW t \in Task
  PROVE  /\ call[t] \in Call /\ xfer[t] \in Moved /\ local_pos[t] \in Nat
         /\ xfer = [xfer EXCEPT ![t] = xfer[t]]
         /\ local_pos = [local_pos EXCEPT ![t] = local_pos[t]]
         /\ io = [io EXCEPT ![t] = io[t]]
         /\ rx_irp \in Irp /\ tx_irp \in Irp
         /\ MovedOK(pc[t], call[t], io[t], xfer[t], local_pos[t], rx_irp, tx_irp, io_operation)
         /\ TaskOK(t, pc[t], io[t], call[t], bus_lock)
         /\ xfer[t].call \in Call /\ xfer[t].call.len \in Nat
<1>1. call[t] \in Call
  <2>1. NoCall \in Call
    BY DEF NoCall, Call, IoType
  <2>. QED  BY <2>1, TaskFacts, TaskAssumption
<1>2. /\ xfer \in [Task -> Moved] /\ local_pos \in [Task -> Nat] /\ io \in [Task -> Modes]
  BY TaskFacts DEF DataOK, DataType
<1>3. xfer[t] \in Moved /\ local_pos[t] \in Nat
  BY <1>2
<1>4. xfer[t].call \in Call
  BY <1>3 DEF Moved
<1>5. xfer[t].call.len \in Nat
  BY <1>4 DEF Call
<1>6. /\ xfer = [xfer EXCEPT ![t] = xfer[t]]
      /\ local_pos = [local_pos EXCEPT ![t] = local_pos[t]]
      /\ io = [io EXCEPT ![t] = io[t]]
  BY <1>2
<1>7. rx_irp \in Irp /\ tx_irp \in Irp
  BY DEF IndInv, LockTypes
<1>8. TaskOK(t, pc[t], io[t], call[t], bus_lock)
  BY TaskFacts
<1>9. MovedOK(pc[t], call[t], io[t], xfer[t], local_pos[t], rx_irp, tx_irp, io_operation)
  BY DEF DataOK
<1>. QED  BY <1>1, <1>3, <1>4, <1>5, <1>6, <1>7, <1>8, <1>9

LEMMA NewIrpParts ==
  ASSUME NEW t, NEW len
  PROVE  /\ NewIrp(t, len).length = len /\ NewIrp(t, len).actual_length = 0
         /\ NewIrp(t, len).buffer = 1
BY DEF NewIrp

LEMMA StartMoves ==
  ASSUME IndInv, DataOK, NEW t \in Task, Start(t)
  PROVE  DataOK'
<1>1. PICK c \in Call : c = call[t]
  BY OwnerFacts
<1>2. c.op \in {"read", "write", "write_read"} /\ c.len \in Nat /\ c.io \in IoType
  BY DEF Call
<1>3. pc[t] = "start" /\ bus_lock = t /\ local_pos[t] = 1
  BY OwnerFacts DEF Start, TaskOK, BusLabels, MovedOK, PollLabels
<1>4. PICK f : f = [call |-> c, in |-> [i \in 1 .. c.len |-> 0], out |-> <<>>,
                    complete |-> FALSE]
  OBVIOUS
<1>5. /\ rx_irp' = IF c.op = "write" THEN rx_irp ELSE NewIrp(t, c.len)
      /\ tx_irp' = IF c.op = "read" THEN tx_irp ELSE NewIrp(t, c.len)
      /\ io' = [io EXCEPT ![t] = c.io]
      /\ call' = call /\ local_pos' = local_pos
      /\ \/ /\ c.io = "polled" /\ xfer' = [xfer EXCEPT ![t] = f]
            /\ pc' = [pc EXCEPT ![t] = "poll"]
         \/ /\ c.io = "interrupt" /\ io_operation' = c.op
            /\ xfer' = [xfer EXCEPT ![t] = IF c.op = "read" THEN f ELSE [f EXCEPT !.out = <<1>>]]
            /\ pc' = [pc EXCEPT ![t] = "lock"]
  BY <1>1, <1>4 DEF Start, Goto
<1>6. /\ f.call = c /\ f.in = [i \in 1 .. c.len |-> 0] /\ f.out = <<>> /\ f.complete = FALSE
      /\ f \in Moved
  <2>1. [i \in 1 .. c.len |-> 0] \in Buffers
    <3>1. [i \in 1 .. c.len |-> 0] \in [1 .. c.len -> Nat] /\ 1 .. c.len \in SUBSET Nat
      BY <1>2
    <3>. QED  BY <3>1 DEF Buffers
  <2>2. <<>> \in Seq(Nat)
    OBVIOUS
  <2>3. f \in Moved
    BY <1>4, <2>1, <2>2 DEF Moved
  <2>. QED  BY <1>4, <2>3
<1>7. StoredTo(f.in, c.len, 0) /\ InOrder(f.out, 0)
  <2>1. \A i \in 1 .. c.len : (IF i <= 0 THEN i ELSE 0) = 0
    BY <1>2
  <2>. QED  BY <1>6, <2>1 DEF StoredTo, InOrder
<1>8. /\ pc \in [Task -> Labels]
      /\ local_pos' = [local_pos EXCEPT ![t] = 1]
  BY <1>3, <1>5, TaskFacts, OwnerFacts
<1>9. \A u \in Task : u # t => pc'[u] = pc[u] /\ pc[u] \notin PollLabels
  BY <1>3, <1>5, <1>8, OtherTask
<1>10. CASE c.io = "polled"
  <2>1. pc'[t] = "poll" /\ xfer' = [xfer EXCEPT ![t] = f] /\ io' = [io EXCEPT ![t] = "polled"]
    BY <1>5, <1>8, <1>10
  <2>2. c.op \in {"read", "write_read"} => PollRd("poll", f, rx_irp', 1)
    BY <1>2, <1>5, <1>6, <1>7, NewIrpParts DEF PollRd
  <2>3. c.op = "write" => PollWr("poll", f, tx_irp')
    BY <1>2, <1>5, <1>6, <1>7, NewIrpParts DEF PollWr
  <2>4. c.op = "write_read" => PollWrRd("poll", f, rx_irp', tx_irp', 1)
    BY <1>2, <1>5, <1>6, <1>7, <2>2, NewIrpParts DEF PollWrRd
  <2>5. PollOK("poll", f, rx_irp', tx_irp', 1)
    BY <1>6, <2>2, <2>3, <2>4 DEF PollOK
  <2>6. MovedOK("poll", c, "polled", f, 1, rx_irp', tx_irp', io_operation')
    BY <1>6, <1>10, <2>5 DEF MovedOK, PollLabels
  <2>7. MovedOK(pc'[t], call'[t], "polled", f, 1, rx_irp', tx_irp', io_operation')
        /\ 1 \in Nat /\ \A u \in Task : u # t => pc'[u] \notin PollLabels
    BY <1>1, <1>5, <1>9, <2>1, <2>6
  <2>. QED  BY ONLY IndInv, DataOK, t \in Task, <1>3, <1>6, <1>8, <2>1, <2>7, OwnerMoves
<1>11. CASE c.io = "interrupt"
  <2>1. PICK x \in Moved : /\ x.call = c /\ x.complete = FALSE
                           /\ c.op # "read" => x.out = <<1>>
                           /\ xfer' = [xfer EXCEPT ![t] = x]
    <3>1. PICK w \in Seq(Nat) : w = <<1>>
      <4>1. <<1>> \in Seq(Nat)
        OBVIOUS
      <4>. QED  BY <4>1
    <3>2. PICK y : y = [f EXCEPT !.out = w]
      OBVIOUS
    <3>3. y \in Moved /\ y.call = c /\ y.complete = FALSE /\ y.out = <<1>>
      <4>1. y.call = f.call /\ y.out = w /\ y.complete = f.complete /\ y \in Moved
        BY <1>6, <3>2 DEF Moved
      <4>. QED  BY <1>6, <3>1, <4>1
    <3>4. CASE c.op = "read"
      BY <1>5, <1>6, <1>11, <3>4
    <3>5. CASE c.op # "read"
      <4>1. xfer' = [xfer EXCEPT ![t] = y]
        BY <1>5, <1>11, <3>1, <3>2, <3>5
      <4>. QED  BY <3>3, <3>5, <4>1
    <3>. QED  BY <3>4, <3>5
  <2>2. pc'[t] = "lock" /\ io' = [io EXCEPT ![t] = "interrupt"] /\ io_operation' = c.op
    BY <1>5, <1>8, <1>11
  <2>3. InOrder(<<1>>, 1)
    BY DEF InOrder
  <2>4. c.op = "write" => AsyncWr(x, tx_irp')
    BY <1>2, <1>5, <2>1, <2>3, NewIrpParts DEF AsyncWr
  <2>5. MovedOK("lock", c, "interrupt", x, 1, rx_irp', tx_irp', io_operation')
    BY <1>11, <2>1, <2>2, <2>4 DEF MovedOK, PollLabels
  <2>6. MovedOK(pc'[t], call'[t], "interrupt", x, 1, rx_irp', tx_irp', io_operation')
        /\ 1 \in Nat /\ \A u \in Task : u # t => pc'[u] \notin PollLabels
    BY <1>1, <1>5, <1>9, <2>2, <2>5
  <2>. QED  BY ONLY IndInv, DataOK, t \in Task, x \in Moved, <1>3, <1>8, <2>1, <2>2, <2>6,
                    OwnerMoves
<1>. QED  BY <1>2, <1>10, <1>11 DEF IoType

\* What a step of the polled loop finds.
LEMMA PollFacts ==
  ASSUME IndInv, DataOK, NEW t \in Task, pc[t] \in PollLabels
  PROVE  /\ bus_lock = t /\ io[t] = "polled" /\ xfer[t].call = call[t]
         /\ ~xfer[t].complete /\ xfer[t].call.io = "polled"
         /\ PollOK(pc[t], xfer[t], rx_irp, tx_irp, local_pos[t])
         /\ \A u \in Task : u # t => pc[u] \notin PollLabels
<1>1. bus_lock = t /\ io[t] = "polled"
  BY OwnerFacts DEF TaskOK, PollLabels, BusLabels
<1>2. /\ xfer[t].call = call[t] /\ ~xfer[t].complete /\ xfer[t].call.io = "polled"
      /\ PollOK(pc[t], xfer[t], rx_irp, tx_irp, local_pos[t])
  BY <1>1, OwnerFacts DEF MovedOK
<1>. QED  BY <1>1, <1>2, OtherTask

\* The owner's next state decides whether DataOK is kept.
LEMMA PollKeeps ==
  ASSUME IndInv, DataOK, NEW t \in Task, pc[t] \in PollLabels, NEW l \in PollLabels,
         NEW x \in Moved, NEW p \in Nat,
         pc' = [pc EXCEPT ![t] = l], call' = call, io' = io,
         xfer' = [xfer EXCEPT ![t] = x], local_pos' = [local_pos EXCEPT ![t] = p],
         x.call = xfer[t].call, x.complete = xfer[t].complete,
         PollOK(l, x, rx_irp', tx_irp', p)
  PROVE  DataOK'
<1>1. /\ bus_lock = t /\ io[t] = "polled" /\ xfer[t].call = call[t]
      /\ ~xfer[t].complete /\ xfer[t].call.io = "polled"
      /\ \A u \in Task : u # t => pc[u] \notin PollLabels
  BY PollFacts
<1>2. pc \in [Task -> Labels] /\ io' = [io EXCEPT ![t] = "polled"]
  BY <1>1, TaskFacts, OwnerFacts
<1>3. pc'[t] = l /\ call'[t] = call[t] /\ \A u \in Task : u # t => pc'[u] \notin PollLabels
  BY <1>1, <1>2
<1>4. MovedOK(l, call[t], "polled", x, p, rx_irp', tx_irp', io_operation')
  BY <1>1 DEF MovedOK
<1>. QED  BY <1>1, <1>2, <1>3, <1>4, OwnerMoves

LEMMA IrpNat ==
  ASSUME NEW irp \in Irp
  PROVE  irp.actual_length \in Nat /\ irp.buffer \in Nat /\ irp.length \in Nat
BY DEF Irp

\* The driver's updates of an IRP, part by part.
LEMMA IrpParts ==
  ASSUME NEW irp \in Irp
  PROVE  /\ LET j == [irp EXCEPT !.actual_length = @ + 1]
            IN  /\ j.length = irp.length /\ j.actual_length = irp.actual_length + 1
                /\ j.buffer = irp.buffer
         /\ LET j == [irp EXCEPT !.actual_length = @ + 1, !.buffer = @ + 1]
            IN  /\ j.length = irp.length /\ j.actual_length = irp.actual_length + 1
                /\ j.buffer = irp.buffer + 1
BY DEF Irp

LEMMA PollWriteMoves ==
  ASSUME IndInv, DataOK, NEW t \in Task, PollWrite(t)
  PROVE  DataOK'
<1>1. /\ pc[t] = "poll" /\ pc' = [pc EXCEPT ![t] = "pollrx"] /\ ~PolledAll(call[t].op)
      /\ UNCHANGED <<call, io, rx_irp, local_pos>>
      /\ "poll" \in PollLabels /\ "pollrx" \in PollLabels
  BY DEF PollWrite, Goto, PollLabels
<1>2. PICK x \in Moved, len \in Nat, a \in Nat, b \in Nat, p \in Nat :
        /\ x = xfer[t] /\ len = x.call.len /\ a = rx_irp.actual_length
        /\ b = tx_irp.actual_length /\ p = local_pos[t]
  BY OwnerFacts, IrpNat
<1>3. /\ x.call = call[t] /\ PollOK("poll", x, rx_irp, tx_irp, p)
      /\ x.call.op \in {"read", "write", "write_read"}
  BY <1>1, <1>2, PollFacts, OwnerFacts DEF Call
<1>4. /\ local_pos' = [local_pos EXCEPT ![t] = p] /\ tx_irp \in Irp /\ rx_irp \in Irp
      /\ tx_irp.buffer \in Nat /\ DataType
  BY <1>1, <1>2, OwnerFacts, IrpNat DEF DataOK
<1>5. CASE x.call.op = "read"
  <2>1. xfer' = [xfer EXCEPT ![t] = x] /\ rx_irp.actual_length # rx_irp.length
    BY <1>1, <1>2, <1>3, <1>5, OwnerFacts DEF PollWrite, PolledAll
  <2>2. PollRd("poll", x, rx_irp, p)
    BY <1>3, <1>5 DEF PollOK
  <2>3. a < len
    BY <1>2, <2>1, <2>2 DEF PollRd
  <2>4. PollRd("pollrx", x, rx_irp, p)
    BY <1>2, <2>2, <2>3 DEF PollRd
  <2>5. PollOK("pollrx", x, rx_irp', tx_irp', p)
    BY <1>1, <1>5, <2>4 DEF PollOK
  <2>. QED  BY <1>1, <1>2, <1>4, <2>1, <2>5, PollKeeps
<1>6. CASE x.call.op = "write"
  <2>1. /\ xfer' = Sent(t, tx_irp.buffer) /\ tx_irp' = tx_irp
        /\ tx_irp.actual_length # tx_irp.length
    BY <1>1, <1>3, <1>6 DEF PollWrite, PolledAll
  <2>2. PollWr("poll", x, tx_irp)
    BY <1>3, <1>6 DEF PollOK
  <2>3. /\ tx_irp.length = len /\ b < len /\ tx_irp.buffer = b + 1 /\ InOrder(x.out, b)
    BY <1>2, <2>1, <2>2 DEF PollWr
  <2>4. PICK y \in Moved : /\ xfer' = [xfer EXCEPT ![t] = y]
                           /\ y.call = x.call /\ y.complete = x.complete
                           /\ y.out = Append(x.out, b + 1)
    <3>1. PICK y : y = [xfer[t] EXCEPT !.out = Append(xfer[t].out, tx_irp.buffer)]
      OBVIOUS
    <3>2. xfer' = [xfer EXCEPT ![t] = y] /\ y \in Moved
      BY <1>4, <2>1, <3>1, SentIs
    <3>3. y.call = x.call /\ y.complete = x.complete /\ y.out = Append(x.out, tx_irp.buffer)
      BY <1>2, <3>1 DEF Moved
    <3>. QED  BY <2>3, <3>2, <3>3
  <2>5. InOrder(y.out, b + 1)
    BY <2>3, <2>4, InOrderGrows
  <2>6. PollWr("pollrx", y, tx_irp)
    BY <1>2, <2>3, <2>4, <2>5 DEF PollWr
  <2>7. PollOK("pollrx", y, rx_irp', tx_irp', p)
    BY <1>6, <2>1, <2>4, <2>6 DEF PollOK
  <2>. QED  BY <1>1, <1>2, <1>4, <2>4, <2>7, PollKeeps
<1>7. CASE x.call.op = "write_read"
  <2>1. /\ xfer' = Sent(t, p) /\ tx_irp' = [tx_irp EXCEPT !.actual_length = @ + 1]
        /\ rx_irp.actual_length # rx_irp.length
    BY <1>1, <1>2, <1>3, <1>7 DEF PollWrite, PolledAll
  <2>2. PollWrRd("poll", x, rx_irp, tx_irp, p)
    BY <1>3, <1>7 DEF PollOK
  <2>3. /\ rx_irp.length = len /\ tx_irp.length = len /\ a < len /\ p = a + 1 /\ b = a
        /\ InOrder(x.out, b) /\ StoredTo(x.in, len, a)
    BY <1>2, <2>1, <2>2 DEF PollWrRd, PollRd
  <2>4. PICK y \in Moved : /\ xfer' = [xfer EXCEPT ![t] = y]
                           /\ y.call = x.call /\ y.complete = x.complete /\ y.in = x.in
                           /\ y.out = Append(x.out, a + 1)
    <3>1. PICK y : y = [xfer[t] EXCEPT !.out = Append(xfer[t].out, p)]
      OBVIOUS
    <3>2. xfer' = [xfer EXCEPT ![t] = y] /\ y \in Moved
      BY <1>4, <2>1, <3>1, SentIs
    <3>3. /\ y.call = x.call /\ y.complete = x.complete /\ y.out = Append(x.out, p)
          /\ y.in = x.in
      BY <1>2, <3>1 DEF Moved
    <3>. QED  BY <2>3, <3>2, <3>3
  <2>5. InOrder(y.out, a + 1)
    BY <2>3, <2>4, InOrderGrows
  <2>6. tx_irp'.length = len /\ tx_irp'.actual_length = a + 1
    BY <1>2, <1>4, <2>1, <2>3, IrpParts
  <2>7. PollRd("pollrx", y, rx_irp, p)
    BY <1>2, <2>3, <2>4 DEF PollRd
  <2>8. PollWrRd("pollrx", y, rx_irp, tx_irp', p)
    BY <1>2, <2>4, <2>5, <2>6, <2>7 DEF PollWrRd
  <2>9. PollOK("pollrx", y, rx_irp', tx_irp', p)
    BY <1>1, <1>7, <2>4, <2>8 DEF PollOK
  <2>. QED  BY <1>1, <1>2, <1>4, <2>4, <2>9, PollKeeps
<1>. QED  BY <1>3, <1>5, <1>6, <1>7

LEMMA PollReadMoves ==
  ASSUME IndInv, DataOK, NEW t \in Task, PollRead(t)
  PROVE  DataOK'
<1>1. /\ pc[t] = "pollrx" /\ pc' = [pc EXCEPT ![t] = "poll"] /\ UNCHANGED <<call, io>>
      /\ "poll" \in PollLabels /\ "pollrx" \in PollLabels
  BY DEF PollRead, Goto, PollLabels
<1>2. PICK x \in Moved, len \in Nat, a \in Nat, b \in Nat, p \in Nat :
        /\ x = xfer[t] /\ len = x.call.len /\ a = rx_irp.actual_length
        /\ b = tx_irp.actual_length /\ p = local_pos[t]
  BY OwnerFacts, IrpNat
<1>3. /\ x.call = call[t] /\ PollOK("pollrx", x, rx_irp, tx_irp, p)
      /\ x.call.op \in {"read", "write", "write_read"}
  BY <1>1, <1>2, PollFacts, OwnerFacts DEF Call
<1>4. /\ local_pos = [local_pos EXCEPT ![t] = p] /\ tx_irp \in Irp /\ rx_irp \in Irp
      /\ DataType
  BY <1>2, OwnerFacts DEF DataOK
<1>5. CASE x.call.op = "write"
  <2>1. /\ tx_irp' = [tx_irp EXCEPT !.actual_length = @ + 1, !.buffer = @ + 1]
        /\ UNCHANGED <<rx_irp, local_pos, xfer>>
    BY <1>3, <1>5 DEF PollRead
  <2>2. PollWr("pollrx", x, tx_irp)
    BY <1>3, <1>5 DEF PollOK
  <2>3. /\ tx_irp.length = len /\ b < len /\ tx_irp.buffer = b + 1 /\ InOrder(x.out, b + 1)
    BY <1>2, <2>2 DEF PollWr
  <2>4. /\ tx_irp'.length = len /\ tx_irp'.actual_length = b + 1 /\ tx_irp'.buffer = (b + 1) + 1
    BY <1>2, <1>4, <2>1, <2>3, IrpParts
  <2>5. PollWr("poll", x, tx_irp')
    BY <1>2, <2>3, <2>4 DEF PollWr
  <2>6. PollOK("poll", x, rx_irp', tx_irp', p) /\ xfer' = [xfer EXCEPT ![t] = x]
        /\ local_pos' = [local_pos EXCEPT ![t] = p]
    BY <1>2, <1>4, <1>5, <2>1, <2>5, OwnerFacts DEF PollOK
  <2>. QED  BY <1>1, <1>2, <2>6, PollKeeps
<1>6. CASE x.call.op # "write"
  <2>1. /\ xfer' = Stored(t, p, a + 1)
        /\ rx_irp' = [rx_irp EXCEPT !.actual_length = @ + 1] /\ tx_irp' = tx_irp
        /\ local_pos' = [local_pos EXCEPT ![t] = @ + 1]
    BY <1>2, <1>3, <1>6 DEF PollRead
  <2>2. PollRd("pollrx", x, rx_irp, p)
    BY <1>3, <1>6 DEF PollOK, PollWrRd
  <2>3. rx_irp.length = len /\ a < len /\ p = a + 1 /\ StoredTo(x.in, len, a)
    BY <1>2, <2>2 DEF PollRd
  <2>4. PICK y \in Moved : /\ xfer' = [xfer EXCEPT ![t] = y]
                           /\ y.call = x.call /\ y.complete = x.complete /\ y.out = x.out
                           /\ y.in = Put(x.in, a + 1, a + 1)
    <3>1. PICK y : y = [xfer[t] EXCEPT !.in = Put(xfer[t].in, p, a + 1)]
      OBVIOUS
    <3>2. xfer' = [xfer EXCEPT ![t] = y] /\ y \in Moved
      <4>1. PICK n \in Nat : n = a + 1
        OBVIOUS
      <4>2. xfer' = Stored(t, p, n) /\ y = [xfer[t] EXCEPT !.in = Put(xfer[t].in, p, n)]
        BY <2>1, <3>1, <4>1
      <4>. QED  BY ONLY <1>4, <4>2, t \in Task, p \in Nat, n \in Nat, StoredIs
    <3>3. /\ y.call = x.call /\ y.complete = x.complete /\ y.out = x.out
          /\ y.in = Put(x.in, p, a + 1)
      BY <1>2, <3>1 DEF Moved
    <3>. QED  BY <2>3, <3>2, <3>3
  <2>5. StoredTo(y.in, len, a + 1)
    BY <2>3, <2>4, StoredGrows DEF Put
  <2>6. rx_irp'.length = len /\ rx_irp'.actual_length = a + 1
    BY <1>2, <1>4, <2>1, <2>3, IrpParts
  <2>7. PollRd("poll", y, rx_irp', p + 1)
    BY <1>2, <2>3, <2>4, <2>5, <2>6 DEF PollRd
  <2>8. x.call.op = "write_read" => PollWrRd("poll", y, rx_irp', tx_irp', p + 1)
    <3>1. SUFFICES ASSUME x.call.op = "write_read"
                   PROVE  PollWrRd("poll", y, rx_irp', tx_irp', p + 1)
      OBVIOUS
    <3>2. tx_irp.length = len /\ b = a + 1 /\ InOrder(x.out, b)
      BY <1>2, <1>3, <3>1 DEF PollOK, PollWrRd
    <3>. QED  BY <1>2, <2>1, <2>4, <2>6, <2>7, <3>2 DEF PollWrRd
  <2>9. PollOK("poll", y, rx_irp', tx_irp', p + 1)
    BY <1>6, <2>4, <2>7, <2>8 DEF PollOK
  <2>10. local_pos' = [local_pos EXCEPT ![t] = p + 1] /\ p + 1 \in Nat
    BY <1>2, <2>1
  <2>. QED  BY <1>1, <1>2, <2>4, <2>9, <2>10, PollKeeps
<1>. QED  BY <1>5, <1>6

LEMMA PollEndMoves ==
  ASSUME IndInv, DataOK, NEW t \in Task, PollEnd(t)
  PROVE  DataOK'
<1>1. /\ pc[t] = "poll" /\ pc' = [pc EXCEPT ![t] = "end"] /\ PolledAll(call[t].op)
      /\ call' = call /\ UNCHANGED irpVars
      /\ io' = [io EXCEPT ![t] = "none"] /\ local_pos' = [local_pos EXCEPT ![t] = 1]
      /\ xfer' = [xfer EXCEPT ![t].complete = TRUE]
      /\ "poll" \in PollLabels /\ "end" \notin PollLabels
  BY DEF PollEnd, Goto, PollLabels
<1>2. PICK x \in Moved, len \in Nat, a \in Nat, b \in Nat, p \in Nat :
        /\ x = xfer[t] /\ len = x.call.len /\ a = rx_irp.actual_length
        /\ b = tx_irp.actual_length /\ p = local_pos[t]
  BY OwnerFacts, IrpNat
<1>3. /\ x.call = call[t] /\ PollOK("poll", x, rx_irp, tx_irp, p) /\ bus_lock = t
      /\ x.call.op \in {"read", "write", "write_read"}
      /\ \A u \in Task : u # t => pc[u] \notin PollLabels
  BY <1>1, <1>2, PollFacts, OwnerFacts DEF Call
<1>4. PICK y \in Moved : /\ xfer' = [xfer EXCEPT ![t] = y] /\ y.call = x.call
                         /\ y.in = x.in /\ y.out = x.out
  <2>1. PICK y : y = [xfer[t] EXCEPT !.complete = TRUE]
    OBVIOUS
  <2>2. xfer' = [xfer EXCEPT ![t] = y] /\ y \in Moved
    BY <1>1, <2>1, CompletedIs DEF DataOK, DataType
  <2>3. y.call = x.call /\ y.in = x.in /\ y.out = x.out
    BY <1>2, <2>1 DEF Moved
  <2>. QED  BY <2>2, <2>3
<1>5. Whole(y)
  <2>1. CASE x.call.op = "read"
    <3>1. PollRd("poll", x, rx_irp, p) /\ rx_irp.actual_length = rx_irp.length
      BY <1>1, <1>3, <2>1 DEF PollOK, PolledAll
    <3>2. StoredTo(x.in, len, len)
      BY <1>2, <3>1 DEF PollRd
    <3>. QED  BY <1>2, <1>4, <2>1, <3>2, StoredAll DEF Whole
  <2>2. CASE x.call.op = "write"
    <3>1. PollWr("poll", x, tx_irp) /\ tx_irp.actual_length = tx_irp.length
      BY <1>1, <1>3, <2>2 DEF PollOK, PolledAll
    <3>2. InOrder(x.out, len)
      BY <1>2, <3>1 DEF PollWr
    <3>. QED  BY <1>2, <1>4, <2>2, <3>2 DEF Whole
  <2>3. CASE x.call.op = "write_read"
    <3>1. /\ PollWrRd("poll", x, rx_irp, tx_irp, p)
          /\ rx_irp.actual_length = rx_irp.length \/ tx_irp.actual_length = tx_irp.length
      BY <1>1, <1>3, <2>3 DEF PollOK, PolledAll
    <3>2. InOrder(x.out, len) /\ StoredTo(x.in, len, len)
      BY <1>2, <3>1 DEF PollWrRd, PollRd
    <3>. QED  BY <1>2, <1>4, <2>3, <3>2, StoredAll DEF Whole
  <2>. QED  BY <1>3, <2>1, <2>2, <2>3
<1>6. pc \in [Task -> Labels] /\ 1 \in Nat
  BY TaskFacts
<1>7. pc'[t] = "end" /\ \A u \in Task : u # t => pc'[u] \notin PollLabels
  BY <1>1, <1>3, <1>6
<1>8. MovedOK(pc'[t], call'[t], "none", y, 1, rx_irp', tx_irp', io_operation')
  BY <1>1, <1>5, <1>7 DEF MovedOK
<1>. QED  BY ONLY IndInv, DataOK, t \in Task, y \in Moved, <1>1, <1>3, <1>4, <1>6, <1>7, <1>8,
                  OwnerMoves

-----------------------------------------------------------------------------
(* The HISR, and the theorem *)

\* No step of the HISR brings a task into a polled loop.
LEMMA HisrLabels ==
  ASSUME IndInv, IoContinues \/ Release_async(pc), NEW u \in Task, pc[u] \notin PollLabels
  PROVE  pc'[u] \notin PollLabels
<1>1. pc \in [Task -> Labels] /\ waiting \in Seq(Task)
  BY DEF IndInv, LockTypes
<1>2. CASE pc' = pc
  BY <1>2
<1>3. CASE waiting # <<>> /\ pc' = [pc EXCEPT ![Head(waiting)] = Granted(pc[Head(waiting)])]
  <2>1. Head(waiting) \in Task
    BY <1>1, <1>3
  <2>2. Granted(pc[Head(waiting)]) \notin PollLabels
    BY DEF Granted, PollLabels
  <2>. QED  BY <1>1, <1>3, <2>1, <2>2
<1>. QED  BY <1>2, <1>3 DEF IoContinues, Release_async

LEMMA HisrMoves ==
  ASSUME IndInv, DataOK, LWSPI_HISR_Entry
  PROVE  DataOK'
<1>1. PICK irp \in Irp, t \in Task :
        /\ irp = (IF io_operation = "write" THEN tx_irp ELSE rx_irp) /\ t = irp.task
        /\ io[t] = "interrupt" /\ io_operation # "none"
  <2>1. isr_queue > 0 /\ rx_irp \in Irp /\ tx_irp \in Irp
    BY DEF LWSPI_HISR_Entry, IndInv, LockTypes
  <2>2. PICK irp \in Irp : irp = IF io_operation = "write" THEN tx_irp ELSE rx_irp
    BY <2>1
  <2>3. irp.task # NoTask /\ io[irp.task] = "interrupt" /\ io_operation # "none"
    BY <2>1, <2>2 DEF IndInv, HisrHasTransaction
  <2>4. irp.task \in Task
    BY <2>3 DEF Irp
  <2>. QED  BY <2>2, <2>3, <2>4
<1>2. PICK x \in Moved, len \in Nat, p \in Nat :
        x = xfer[t] /\ len = x.call.len /\ p = local_pos[t]
  BY OwnerFacts
<1>3. /\ bus_lock = t \/ MayOverlap(t)
      /\ ~x.complete /\ x.call.io = "interrupt" /\ x.call.op = io_operation
      /\ io_operation = "write" => AsyncWr(x, tx_irp)
      /\ pc[t] \notin PollLabels /\ p = 1
  BY <1>1, <1>2, OwnerFacts DEF TaskOK, MovedOK, PollLabels
<1>4. /\ UNCHANGED <<call, bus_lock, io_operation, local_pos>>
      /\ local_pos' = [local_pos EXCEPT ![t] = p] /\ DataType
      /\ rx_irp \in Irp /\ tx_irp \in Irp
  BY <1>2, OwnerFacts DEF LWSPI_HISR_Entry, DataOK
<1>5. /\ rx_irp.buffer \in Nat /\ rx_irp.actual_length + 1 \in Nat
      /\ tx_irp.buffer + 1 \in Nat /\ tx_irp.actual_length \in Nat
  BY <1>4, IrpNat
<1>6. ASSUME NEW y \in Moved, NEW m, xfer' = [xfer EXCEPT ![t] = y],
             io' = [io EXCEPT ![t] = m], IoContinues \/ Release_async(pc),
             MovedOK("idle", call[t], m, y, p, rx_irp', tx_irp', io_operation)
      PROVE  DataOK'
  <2>1. \A u \in Task : pc[u] \notin PollLabels
    BY <1>3, OtherTask
  <2>2. \A u \in Task : pc'[u] \notin PollLabels
    BY <1>6, <2>1, HisrLabels
  <2>3. MovedOK(pc'[t], call'[t], m, y, p, rx_irp', tx_irp', io_operation')
    BY <1>4, <1>6, <2>2 DEF MovedOK, PollLabels
  <2>. QED  BY ONLY IndInv, DataOK, t \in Task, y \in Moved, p \in Nat, <1>3, <1>4, <1>6,
                    <2>2, <2>3, OwnerMoves
<1>7. IoContinues => io' = [io EXCEPT ![t] = "interrupt"]
  BY <1>1, OwnerFacts DEF IoContinues
<1>8. IoComplete(t) => io' = [io EXCEPT ![t] = "none"] /\ Release_async(pc)
  BY DEF IoComplete
<1>9. CASE ISR_Write
  <2>1. /\ io_operation = "write" /\ t = tx_irp.task
        /\ tx_irp' = [tx_irp EXCEPT !.actual_length = @ + 1, !.buffer = @ + 1]
        /\ \/ /\ More(tx_irp) /\ IoContinues /\ xfer' = Sent(t, tx_irp.buffer + 1)
           \/ /\ ~More(tx_irp) /\ IoComplete(t)
              /\ xfer' = [xfer EXCEPT ![t].complete = TRUE]
    BY <1>1, <1>9 DEF ISR_Write
  <2>2. PICK a \in Nat : a = tx_irp.actual_length
    BY <1>5
  <2>3. /\ tx_irp.length = len /\ (len > 0 => a < len) /\ tx_irp.buffer = a + 1
        /\ InOrder(x.out, a + 1) /\ a + 1 \in Nat
    BY <1>2, <1>3, <2>1, <2>2 DEF AsyncWr
  <2>4. /\ tx_irp'.length = len /\ tx_irp'.actual_length = a + 1
        /\ tx_irp'.buffer = (a + 1) + 1
    BY <1>4, <2>1, <2>2, <2>3, IrpParts
  <2>5. CASE More(tx_irp) /\ IoContinues /\ xfer' = Sent(t, tx_irp.buffer + 1)
    <3>1. PICK y : y = [xfer[t] EXCEPT !.out = Append(xfer[t].out, tx_irp.buffer + 1)]
      OBVIOUS
    <3>2. xfer' = [xfer EXCEPT ![t] = y] /\ y \in Moved
      BY ONLY <1>4, <1>5, <2>5, <3>1, t \in Task, SentIs
    <3>3. y.call = x.call /\ y.complete = x.complete /\ y.out = Append(x.out, (a + 1) + 1)
      BY <1>2, <2>3, <3>1 DEF Moved
    <3>4. InOrder(y.out, (a + 1) + 1) /\ a + 1 < len
      BY <2>2, <2>3, <2>5, <3>3, InOrderGrows DEF More
    <3>5. AsyncWr(y, tx_irp')
      BY <1>2, <2>4, <3>3, <3>4 DEF AsyncWr
    <3>6. MovedOK("idle", call[t], "interrupt", y, p, rx_irp', tx_irp', io_operation)
      BY <1>3, <3>3, <3>5 DEF MovedOK, PollLabels
    <3>. QED  BY <1>6, <1>7, <2>5, <3>2, <3>6
  <2>6. CASE ~More(tx_irp) /\ IoComplete(t) /\ xfer' = [xfer EXCEPT ![t].complete = TRUE]
    <3>1. PICK y : y = [xfer[t] EXCEPT !.complete = TRUE]
      OBVIOUS
    <3>2. xfer' = [xfer EXCEPT ![t] = y] /\ y \in Moved
      BY <1>4, <2>6, <3>1, CompletedIs DEF DataType
    <3>3. y.call = x.call /\ y.out = x.out
      BY <1>2, <3>1 DEF Moved
    <3>4. len > 0 => a + 1 = len
      BY <2>2, <2>3, <2>6 DEF More
    <3>5. Whole(y)
      BY <1>2, <1>3, <2>1, <2>3, <3>3, <3>4 DEF Whole
    <3>6. MovedOK("idle", call[t], "none", y, p, rx_irp', tx_irp', io_operation)
      BY <1>3, <3>5 DEF MovedOK, PollLabels
    <3>. QED  BY <1>6, <1>8, <2>6, <3>2, <3>6
  <2>. QED  BY <2>1, <2>5, <2>6
<1>10. ASSUME NEW y \in Moved, xfer' = [xfer EXCEPT ![t] = y], y.call = x.call,
              io_operation # "write",
              (IoContinues /\ ~y.complete) \/ IoComplete(t)
       PROVE  DataOK'
  <2>1. Whole(y)
    BY <1>3, <1>10 DEF Whole
  <2>2. CASE IoContinues /\ ~y.complete
    <3>1. MovedOK("idle", call[t], "interrupt", y, p, rx_irp', tx_irp', io_operation)
      BY <1>3, <1>10, <2>2 DEF MovedOK, PollLabels
    <3>. QED  BY <1>6, <1>7, <1>10, <2>2, <3>1
  <2>3. CASE IoComplete(t)
    <3>1. MovedOK("idle", call[t], "none", y, p, rx_irp', tx_irp', io_operation)
      BY <1>3, <2>1 DEF MovedOK, PollLabels
    <3>. QED  BY <1>6, <1>8, <1>10, <2>3, <3>1
  <2>. QED  BY <1>10, <2>2, <2>3
<1>11. PICK s \in Moved :
         /\ Stored(t, rx_irp.buffer, rx_irp.actual_length + 1) = [xfer EXCEPT ![t] = s]
         /\ s.call = x.call /\ s.complete = x.complete /\ s.out \in Seq(Nat)
  <2>1. PICK s : s = [xfer[t] EXCEPT !.in = Put(xfer[t].in, rx_irp.buffer,
                                                rx_irp.actual_length + 1)]
    OBVIOUS
  <2>2. /\ Stored(t, rx_irp.buffer, rx_irp.actual_length + 1) = [xfer EXCEPT ![t] = s]
        /\ s \in Moved
    <3>1. PICK i \in Nat, n \in Nat : i = rx_irp.buffer /\ n = rx_irp.actual_length + 1
      BY <1>5
    <3>2. Stored(t, i, n) = [xfer EXCEPT ![t] = s] /\ s \in Moved
      <4>1. s = [xfer[t] EXCEPT !.in = Put(xfer[t].in, i, n)]
        BY <2>1, <3>1
      <4>. QED  BY ONLY <1>4, <4>1, t \in Task, i \in Nat, n \in Nat, StoredIs
    <3>. QED  BY <3>1, <3>2
  <2>3. s.call = x.call /\ s.complete = x.complete /\ s.out \in Seq(Nat)
    BY <1>2, <2>1 DEF Moved
  <2>. QED  BY <2>2, <2>3
<1>12. PICK h \in [Task -> Moved] : h = [xfer EXCEPT ![t] = s] /\ h[t] = s
  <2>1. xfer \in [Task -> Moved]
    BY <1>4 DEF DataType
  <2>2. [xfer EXCEPT ![t] = s] \in [Task -> Moved] /\ [xfer EXCEPT ![t] = s][t] = s
    BY <2>1
  <2>. QED  BY <2>2
<1>13. PICK done \in Moved : /\ [h EXCEPT ![t].complete = TRUE] = [xfer EXCEPT ![t] = done]
                             /\ done.call = x.call
  <2>1. PICK z : z = [h[t] EXCEPT !.complete = TRUE]
    OBVIOUS
  <2>2. [h EXCEPT ![t].complete = TRUE] = [h EXCEPT ![t] = z] /\ z \in Moved
    BY <2>1, CompletedIs
  <2>3. z.call = x.call
    BY <1>11, <1>12, <2>1 DEF Moved
  <2>4. [h EXCEPT ![t] = z] = [xfer EXCEPT ![t] = z]
    BY <1>4, <1>12 DEF DataType
  <2>. QED  BY <2>2, <2>3, <2>4
<1>14. CASE ISR_Read
  <2>1. /\ io_operation = "read" /\ t = rx_irp.task
        /\ \/ IoContinues /\ xfer' = h
           \/ IoComplete(t) /\ xfer' = [h EXCEPT ![t].complete = TRUE]
    BY <1>1, <1>11, <1>12, <1>14 DEF ISR_Read
  <2>2. CASE IoContinues /\ xfer' = h
    BY <1>3, <1>10, <1>11, <1>12, <2>1, <2>2
  <2>3. CASE IoComplete(t) /\ xfer' = [h EXCEPT ![t].complete = TRUE]
    BY <1>10, <1>13, <2>1, <2>3
  <2>. QED  BY <2>1, <2>2, <2>3
<1>15. CASE ISR_Write_Read
  <2>1. /\ io_operation = "write_read" /\ t = rx_irp.task
        /\ \/ /\ IoContinues
              /\ xfer' = [h EXCEPT ![t].out = Append(@, tx_irp.buffer + 1)]
           \/ IoComplete(t) /\ xfer' = [h EXCEPT ![t].complete = TRUE]
    BY <1>1, <1>11, <1>12, <1>15 DEF ISR_Write_Read
  <2>2. CASE IoContinues /\ xfer' = [h EXCEPT ![t].out = Append(@, tx_irp.buffer + 1)]
    <3>1. PICK w \in Seq(Nat) : w = Append(s.out, tx_irp.buffer + 1)
      <4>1. Append(s.out, tx_irp.buffer + 1) \in Seq(Nat)
        BY <1>5, <1>11
      <4>. QED  BY <4>1
    <3>2. PICK y : y = [s EXCEPT !.out = w]
      OBVIOUS
    <3>3. y \in Moved /\ y.call = x.call /\ y.complete = x.complete
      BY <1>11, <3>2 DEF Moved
    <3>4. xfer' = [h EXCEPT ![t] = y]
      BY <1>12, <2>2, <3>1, <3>2
    <3>5. xfer' = [xfer EXCEPT ![t] = y]
      BY <1>4, <1>12, <3>4 DEF DataType
    <3>. QED  BY <1>3, <1>10, <2>1, <2>2, <3>3, <3>5
  <2>3. CASE IoComplete(t) /\ xfer' = [h EXCEPT ![t].complete = TRUE]
    BY <1>10, <1>13, <2>1, <2>3
  <2>. QED  BY <2>1, <2>2, <2>3
<1>. QED  BY <1>9, <1>14, <1>15 DEF LWSPI_HISR_Entry

LEMMA DataInit == Init => DataOK
<1> SUFFICES ASSUME Init
             PROVE  DataOK
  OBVIOUS
<1>1. PICK x : x = [call |-> NoCall, in |-> <<>>, out |-> <<>>, complete |-> FALSE]
  OBVIOUS
<1>2. x \in Moved /\ x.complete = FALSE
  <2>1. NoCall \in Call /\ <<>> \in Seq(Nat)
    BY DEF NoCall, Call, IoType
  <2>2. <<>> \in Buffers
    <3>1. <<>> \in [1 .. 0 -> Nat] /\ 1 .. 0 \in SUBSET Nat
      OBVIOUS
    <3>. QED  BY <3>1 DEF Buffers
  <2>3. x \in Moved
    BY <1>1, <2>1, <2>2 DEF Moved
  <2>. QED  BY <1>1, <2>3
<1>3. xfer = [t \in Task |-> x] /\ local_pos = [t \in Task |-> 1]
  BY <1>1 DEF Init
<1>4. DataType
  BY <1>2, <1>3 DEF DataType
<1>5. ASSUME NEW t \in Task
      PROVE  MovedOK(pc[t], call[t], io[t], xfer[t], local_pos[t], rx_irp, tx_irp,
                     io_operation)
  BY <1>2, <1>3 DEF Init, MovedOK, PollLabels
<1>. QED  BY <1>4, <1>5 DEF DataOK

LEMMA DataStep ==
  ASSUME IndInv, DataOK, [Next]_vars
  PROVE  DataOK'
<1>0. pc \in [Task -> Labels] /\ waiting \in Seq(Task)
  BY DEF IndInv, LockTypes
<1>1. ASSUME NEW t \in Task, NEW l, l \notin PollLabels, pc[t] \notin PollLabels,
             pc' = [pc EXCEPT ![t] = l], \A u \in Task : u # t => call'[u] = call[u],
             UNCHANGED <<xfer, local_pos, io, irpVars>>
      PROVE  DataOK'
  <2>1. \A u \in Task : IF pc[u] \in PollLabels THEN pc'[u] = pc[u] /\ call'[u] = call[u]
                                                ELSE pc'[u] \notin PollLabels
    BY <1>0, <1>1
  <2>. QED  BY <1>1, <2>1, QuietStep
<1>2. ASSUME NEW t \in Task, CallIo(t) \/ CheckAsync(t) \/ ClaimBus(t)
      PROVE  DataOK'
  <2>1. PICK l \in {"check", "relbus", "idle", "start"} : pc' = [pc EXCEPT ![t] = l]
    BY <1>2 DEF CallIo, CheckAsync, ClaimBus, Goto, ReturnFrom
  <2>2. /\ pc[t] \in {"idle", "check", "claim"}
        /\ UNCHANGED <<xfer, local_pos, io, irpVars>>
    BY <1>2 DEF CallIo, CheckAsync, ClaimBus
  <2>3. \A u \in Task : u # t => call'[u] = call[u]
    <3>1. call \in [Task -> Calls \cup {NoCall}]
      BY DEF IndInv, LockTypes
    <3>2. call' = call \/ \E c : call' = [call EXCEPT ![t] = c]
      BY <1>2 DEF CallIo, CheckAsync, ClaimBus, ReturnFrom
    <3>. QED  BY <3>1, <3>2
  <2>4. l \notin PollLabels /\ pc[t] \notin PollLabels
    BY <2>1, <2>2 DEF PollLabels
  <2>. QED  BY <1>1, <2>1, <2>2, <2>3, <2>4
<1>3. ASSUME NEW t \in Task, ReleaseBus(t) \/ CcReleaseBus(t) \/ Return(t)
      PROVE  DataOK'
  <2>1. PICK l \in {"relasync", "cc_relasync", "idle"} : pc' = [pc EXCEPT ![t] = l]
    BY <1>3 DEF ReleaseBus, CcReleaseBus, Return, Goto, ReturnFrom
  <2>2. /\ pc[t] \in {"relbus", "cc_relbus", "end"}
        /\ UNCHANGED <<xfer, local_pos, io, irpVars>>
    BY <1>3 DEF ReleaseBus, CcReleaseBus, Return
  <2>3. \A u \in Task : u # t => call'[u] = call[u]
    <3>1. call \in [Task -> Calls \cup {NoCall}]
      BY DEF IndInv, LockTypes
    <3>2. call' = call \/ \E c : call' = [call EXCEPT ![t] = c]
      BY <1>3 DEF ReleaseBus, CcReleaseBus, Return, ReturnFrom
    <3>. QED  BY <3>1, <3>2
  <2>4. l \notin PollLabels /\ pc[t] \notin PollLabels
    BY <2>1, <2>2 DEF PollLabels
  <2>. QED  BY <1>1, <2>1, <2>2, <2>3, <2>4
<1>4. ASSUME NEW t \in Task, LockAsync(t) \/ CheckComplete(t) \/ CcTimeout(t)
      PROVE  DataOK'
  <2>1. PICK l \in {"end", "locking", "cc_relbus", "cc_ticks", "cc_wait", "idle"} :
          pc' = [pc EXCEPT ![t] = l]
    BY <1>4 DEF LockAsync, CheckComplete, CcTimeout, Goto
  <2>2. /\ pc[t] \in {"lock", "idle", "cc_ticks"} /\ call' = call
        /\ UNCHANGED <<xfer, local_pos, io, irpVars>>
    BY <1>4 DEF LockAsync, CheckComplete, CcTimeout
  <2>3. l \notin PollLabels /\ pc[t] \notin PollLabels
    BY <2>1, <2>2 DEF PollLabels
  <2>. QED  BY <1>1, <2>1, <2>2, <2>3
<1>5. ASSUME NEW t \in Task, ReleaseAsync(t) \/ CcReleaseAsync(t)
      PROVE  DataOK'
  <2>1. PICK q : /\ q \in {[pc EXCEPT ![t] = "claim"], [pc EXCEPT ![t] = "idle"]}
                 /\ Release_async(q)
    BY <1>5 DEF ReleaseAsync, CcReleaseAsync
  <2>2. /\ pc[t] \in {"relasync", "cc_relasync"} /\ call' = call
        /\ UNCHANGED <<xfer, local_pos, io, irpVars>>
    BY <1>5 DEF ReleaseAsync, CcReleaseAsync
  <2>3. \A u \in Task : IF pc[u] \in PollLabels THEN q[u] = pc[u] ELSE q[u] \notin PollLabels
    BY <1>0, <2>1, <2>2 DEF PollLabels
  <2>4. q \in [Task -> Labels]
    BY <1>0, <2>1 DEF Labels
  <2>5. CASE pc' = q
    BY <2>2, <2>3, <2>5, QuietStep
  <2>6. CASE waiting # <<>> /\ pc' = [q EXCEPT ![Head(waiting)] = Granted(q[Head(waiting)])]
    <3>1. Head(waiting) \in Task /\ Head(waiting) = waiting[1] /\ 1 \in 1 .. Len(waiting)
      BY <1>0, <2>6
    <3>2. pc[Head(waiting)] \in SuspendLabels
      BY <3>1 DEF IndInv, SuspendedAt
    <3>3. pc[Head(waiting)] \notin PollLabels
      BY <3>2 DEF SuspendLabels, PollLabels
    <3>4. Granted(q[Head(waiting)]) \notin PollLabels
      BY DEF Granted, PollLabels
    <3>5. \A u \in Task : IF pc[u] \in PollLabels THEN pc'[u] = pc[u] /\ call'[u] = call[u]
                                                  ELSE pc'[u] \notin PollLabels
      BY <2>2, <2>3, <2>4, <2>6, <3>1, <3>3, <3>4
    <3>. QED  BY <2>2, <3>5, QuietStep
  <2>. QED  BY <2>1, <2>5, <2>6 DEF Release_async
<1>6. CASE Shift \/ LWSPI_TGT_LISR \/ UNCHANGED vars
  <2>1. UNCHANGED <<pc, call, xfer, local_pos, io, irpVars>>
    BY <1>6 DEF Shift, LWSPI_TGT_LISR, vars
  <2>. QED  BY <2>1, QuietStep
<1>7. ASSUME NEW t \in Task, Start(t) \/ PollWrite(t) \/ PollRead(t) \/ PollEnd(t)
      PROVE  DataOK'
  BY <1>7, StartMoves, PollWriteMoves, PollReadMoves, PollEndMoves
<1>8. CASE LWSPI_HISR_Entry
  BY <1>8, HisrMoves
<1>. QED  BY <1>2, <1>3, <1>4, <1>5, <1>6, <1>7, <1>8 DEF Next, TaskStep

\* For any number of tasks and transactions of any length: as long as nobody
\* calls NU_SPI_Write_Read in interrupt mode, or a single task calls what it
\* likes, a completed polled transaction has moved every word of the caller's
\* buffers, in order, and so has a completed interrupt-mode write, whatever is
\* called meanwhile.
THEOREM TransfersAreWhole ==
  ASSUME NobodyOverlaps
  PROVE  Spec => []TransferWhole
<1>1. DataOK => TransferWhole
  BY DEF DataOK, MovedOK, Whole, TransferWhole
<1>2. Init => DataOK
  BY DataInit
<1>3. IndInv /\ DataOK /\ [Next]_vars => DataOK'
  BY DataStep
<1>. QED  BY <1>1, <1>2, <1>3, Invariant, PTL DEF Spec

-----------------------------------------------------------------------------
(* The types of all variables *)

\* What TypeOK has beyond LockTypes and DataType, and the receive IRP's buffer
\* pointer, which no code path advances: it is why a word stored for an empty
\* read lies directly behind the buffer.
OtherTypes ==
  /\ io_operation \in {"none", "read", "write", "write_read"}
  /\ dr \in {"empty", "shifting", "full"}
  /\ rx_irp.buffer = 1
  /\ \A t \in Task : xfer[t].in \in Seq(Nat)

LEMMA PutInSeq ==
  ASSUME NEW s \in Seq(Nat), NEW i \in 1 .. Len(s) + 1, NEW n \in Nat
  PROVE  Put(s, i, n) \in Seq(Nat)
<1>1. PICK k \in Nat : k = Len(s) /\ DOMAIN s = 1 .. k
  OBVIOUS
<1>2. PICK m \in Nat : m = IF i = k + 1 THEN k + 1 ELSE k
  BY <1>1
<1>3. DOMAIN s \cup {i} = 1 .. m
  BY <1>1, <1>2
<1>4. ASSUME NEW j \in 1 .. m
      PROVE  (IF j = i THEN n ELSE s[j]) \in Nat
  <2>1. j # i => j \in 1 .. k
    BY <1>1, <1>2, <1>4
  <2>2. \A h \in 1 .. k : s[h] \in Nat
    BY <1>1
  <2>. QED  BY <2>1, <2>2
<1>5. Put(s, i, n) = [j \in 1 .. m |-> IF j = i THEN n ELSE s[j]]
  BY <1>3 DEF Put
<1>. QED  BY <1>4, <1>5

\* A step that stores at most one word, in the buffer of t.
LEMMA InStored ==
  ASSUME DataType, OtherTypes, NEW t \in Task, NEW i \in Nat, NEW n \in Nat,
         i \in 1 .. Len(xfer[t].in) + 1, NEW f, f = Stored(t, i, n)
  PROVE  /\ f \in [Task -> Moved]
         /\ \A u \in Task : f[u].in \in Seq(Nat)
<1>1. PICK y : y = [xfer[t] EXCEPT !.in = Put(xfer[t].in, i, n)]
  OBVIOUS
<1>2. f = [xfer EXCEPT ![t] = y] /\ y \in Moved
  BY <1>1, StoredIs
<1>3. xfer \in [Task -> Moved]
  BY DEF DataType
<1>4. y.in = Put(xfer[t].in, i, n)
  BY <1>1, <1>3 DEF Moved
<1>5. y.in \in Seq(Nat)
  BY <1>4, PutInSeq DEF OtherTypes
<1>. QED  BY <1>2, <1>3, <1>5 DEF OtherTypes

\* Updates of the other parts of the history leave the buffers alone.
InParts(g, f, t) ==
  \/ g = f
  \/ \E v : g = [f EXCEPT ![t].out = Append(@, v)]
  \/ g = [f EXCEPT ![t].complete = TRUE]

LEMMA InKept ==
  ASSUME NEW f \in [Task -> Moved], NEW t \in Task, NEW g, InParts(g, f, t)
  PROVE  \A u \in Task : g[u].in = f[u].in
<1>1. CASE \E v : g = [f EXCEPT ![t].out = Append(@, v)]
  BY <1>1 DEF Moved
<1>2. CASE g = [f EXCEPT ![t].complete = TRUE]
  BY <1>2 DEF Moved
<1>. QED  BY <1>1, <1>2 DEF InParts

LEMMA OtherInit == Init => OtherTypes
<1> SUFFICES ASSUME Init
             PROVE  OtherTypes
  OBVIOUS
<1>1. \A t \in Task : xfer[t].in \in Seq(Nat)
  <2>1. PICK x : x = [call |-> NoCall, in |-> <<>>, out |-> <<>>, complete |-> FALSE]
    OBVIOUS
  <2>2. \A t \in Task : xfer[t] = x
    BY <2>1 DEF Init
  <2>3. x.in = <<>> /\ <<>> \in Seq(Nat)
    BY <2>1
  <2>. QED  BY <2>2, <2>3
<1>2. rx_irp.buffer = 1
  BY DEF Init, NewIrp
<1>. QED  BY <1>1, <1>2 DEF Init, OtherTypes

LEMMA OtherStep ==
  ASSUME IndInv, DataOK, OtherTypes, [Next]_vars
  PROVE  OtherTypes'
<1>0. /\ xfer \in [Task -> Moved] /\ local_pos \in [Task -> Nat] /\ DataType
      /\ rx_irp \in Irp /\ rx_irp.actual_length + 1 \in Nat
  BY IrpNat DEF DataOK, DataType, IndInv, LockTypes
<1>1. ASSUME UNCHANGED <<io_operation, dr, rx_irp, xfer>>
      PROVE  OtherTypes'
  BY <1>1 DEF OtherTypes
<1>2. ASSUME NEW t \in Task, CallIo(t) \/ CheckAsync(t) \/ ReleaseBus(t) \/ ReleaseAsync(t)
                             \/ ClaimBus(t) \/ LockAsync(t) \/ Return(t)
      PROVE  OtherTypes'
  BY <1>1, <1>2 DEF CallIo, CheckAsync, ReleaseBus, ReleaseAsync, ClaimBus, LockAsync, Return,
                    irpVars, hwVars
<1>3. ASSUME NEW t \in Task, CheckComplete(t) \/ CcTimeout(t) \/ CcReleaseBus(t)
                             \/ CcReleaseAsync(t)
      PROVE  OtherTypes'
  BY <1>1, <1>3 DEF CheckComplete, CcTimeout, CcReleaseBus, CcReleaseAsync, irpVars, hwVars
<1>4. CASE Shift \/ LWSPI_TGT_LISR \/ UNCHANGED vars
  BY <1>4 DEF Shift, LWSPI_TGT_LISR, vars, irpVars, hwVars, OtherTypes
<1>5. ASSUME NEW t \in Task, Start(t)
      PROVE  OtherTypes'
  <2>1. PICK c \in Call, len \in Nat : c = call[t] /\ len = c.len
    BY OwnerFacts DEF Call
  <2>2. PICK z : z = [call |-> c, in |-> [i \in 1 .. len |-> 0], out |-> <<>>, complete |-> FALSE]
    OBVIOUS
  <2>3. z.in \in Seq(Nat) /\ [z EXCEPT !.out = <<1>>].in = z.in
    <3>1. [i \in 1 .. len |-> 0] \in Seq(Nat)
      OBVIOUS
    <3>. QED  BY <2>2, <3>1
  <2>4. PICK y : xfer' = [xfer EXCEPT ![t] = y] /\ y.in \in Seq(Nat)
    BY <1>5, <2>1, <2>2, <2>3 DEF Start
  <2>5. \A u \in Task : xfer'[u].in \in Seq(Nat)
    BY <1>0, <2>4 DEF OtherTypes
  <2>6. rx_irp'.buffer = 1
    BY <1>5 DEF Start, NewIrp, OtherTypes
  <2>7. /\ io_operation' \in {"none", "read", "write", "write_read"}
        /\ dr' \in {"empty", "shifting", "full"}
    BY <1>5, <2>1 DEF Start, OtherTypes, Call
  <2>. QED  BY <2>5, <2>6, <2>7 DEF OtherTypes
<1>6. ASSUME NEW t \in Task, PollWrite(t) \/ PollEnd(t)
      PROVE  OtherTypes'
  <2>1. InParts(xfer', xfer, t)
    BY <1>6 DEF PollWrite, PollEnd, Sent, InParts
  <2>2. \A u \in Task : xfer'[u].in = xfer[u].in
    BY <1>0, <2>1, InKept
  <2>3. UNCHANGED <<io_operation, rx_irp>> /\ dr' \in {"empty", "shifting", "full"}
    BY <1>6 DEF PollWrite, PollEnd, irpVars, hwVars, OtherTypes
  <2>. QED  BY <2>2, <2>3 DEF OtherTypes
<1>7. ASSUME NEW t \in Task, PollRead(t)
      PROVE  OtherTypes'
  <2>1. /\ io_operation' = io_operation /\ dr' = "empty" /\ rx_irp'.buffer = rx_irp.buffer
    BY <1>0, <1>7 DEF PollRead, Irp
  <2>2. \A u \in Task : xfer'[u].in \in Seq(Nat)
    <3>1. CASE call[t].op = "write"
      BY <1>7, <3>1 DEF PollRead, OtherTypes
    <3>2. CASE call[t].op # "write"
      <4>1. PICK i \in Nat, n \in Nat, a \in Nat, len \in Nat :
              /\ i = local_pos[t] /\ n = rx_irp.actual_length + 1 /\ a = rx_irp.actual_length
              /\ len = xfer[t].call.len
        BY <1>0, OwnerFacts, IrpNat
      <4>2. pc[t] = "pollrx" /\ call[t].op \in {"read", "write", "write_read"}
        BY <1>7, OwnerFacts DEF PollRead, Call
      <4>3. PollRd("pollrx", xfer[t], rx_irp, i)
        BY <3>2, <4>1, <4>2, PollFacts DEF PollOK, PollWrRd, PollLabels
      <4>4. a < len /\ i = a + 1 /\ Len(xfer[t].in) = len
        BY <4>1, <4>3 DEF PollRd, StoredTo
      <4>5. i \in 1 .. Len(xfer[t].in) + 1
        BY <4>4
      <4>6. xfer' = Stored(t, i, n)
        BY <1>7, <3>2, <4>1 DEF PollRead
      <4>. QED  BY <1>0, <4>5, <4>6, InStored
    <3>. QED  BY <3>1, <3>2
  <2>. QED  BY <2>1, <2>2 DEF OtherTypes
<1>8. CASE LWSPI_HISR_Entry
  <2>1. io_operation' = io_operation /\ (ISR_Read \/ ISR_Write \/ ISR_Write_Read)
    BY <1>8 DEF LWSPI_HISR_Entry
  <2>2. dr' \in {"empty", "shifting", "full"} /\ rx_irp'.buffer = rx_irp.buffer
    BY <1>0, <2>1 DEF ISR_Read, ISR_Write, ISR_Write_Read, IoContinues, IoComplete, Irp
  <2>3. PICK t \in Task : t = IF io_operation = "write" THEN tx_irp.task ELSE rx_irp.task
    <3>1. isr_queue > 0 /\ rx_irp \in Irp /\ tx_irp \in Irp
      BY <1>8 DEF LWSPI_HISR_Entry, IndInv, LockTypes
    <3>. QED  BY <3>1 DEF IndInv, HisrHasTransaction, Irp
  <2>4. CASE ISR_Write
    <3>1. InParts(xfer', xfer, t)
      BY <2>3, <2>4 DEF ISR_Write, Sent, InParts
    <3>2. \A u \in Task : xfer'[u].in = xfer[u].in
      BY <1>0, <3>1, InKept
    <3>. QED  BY <2>1, <2>2, <3>2 DEF OtherTypes
  <2>5. CASE ISR_Read \/ ISR_Write_Read
    <3>0. PICK n \in Nat : n = rx_irp.actual_length + 1
      BY <1>0
    <3>1. PICK f : n = rx_irp.actual_length + 1 /\ f = Stored(t, 1, n)
      BY <3>0
    <3>2. f \in [Task -> Moved] /\ \A u \in Task : f[u].in \in Seq(Nat)
      <4>1. 1 \in 1 .. Len(xfer[t].in) + 1 /\ 1 \in Nat
        BY DEF OtherTypes
      <4>. QED  BY <1>0, <3>1, <4>1, InStored
    <3>3. rx_irp.buffer = 1 /\ io_operation # "write" /\ t = rx_irp.task
      BY <2>3, <2>5 DEF OtherTypes, ISR_Read, ISR_Write_Read
    <3>4. InParts(xfer', f, t)
      BY <2>5, <3>1, <3>3 DEF ISR_Read, ISR_Write_Read, InParts
    <3>5. \A u \in Task : xfer'[u].in = f[u].in
      BY <3>2, <3>4, InKept
    <3>. QED  BY <2>1, <2>2, <3>2, <3>5 DEF OtherTypes
  <2>. QED  BY <2>1, <2>4, <2>5
<1>. QED  BY <1>2, <1>3, <1>4, <1>5, <1>6, <1>7, <1>8 DEF Next, TaskStep

\* Under the same hypothesis every variable keeps its type.  The caller's
\* buffer stays a sequence though a word is stored behind the end of an empty one.
THEOREM TypesHold ==
  ASSUME NobodyOverlaps
  PROVE  Spec => []TypeOK
<1>1. IndInv /\ DataOK /\ OtherTypes => TypeOK
  <2> SUFFICES ASSUME IndInv, DataOK, OtherTypes
               PROVE  TypeOK
    OBVIOUS
  <2>1. call \in [Task -> Call]
    <3>1. NoCall \in Call
      BY DEF NoCall, Call, IoType
    <3>. QED  BY <3>1, TaskAssumption DEF IndInv, LockTypes
  <2>2. xfer \in [Task -> Xfer]
    <3>1. xfer \in [Task -> Moved]
      BY DEF DataOK, DataType
    <3>2. \A t \in Task : xfer[t] \in Xfer
      BY <3>1 DEF OtherTypes, Moved, Xfer
    <3>. QED  BY <3>1, <3>2
  <2>. QED  BY <2>1, <2>2 DEF TypeOK, IndInv, LockTypes, DataOK, DataType, OtherTypes, IoType
<1>2. IndInv /\ DataOK /\ OtherTypes /\ [Next]_vars => DataOK' /\ OtherTypes'
  BY DataStep, OtherStep
<1>. QED  BY <1>1, <1>2, DataInit, OtherInit, Invariant, PTL DEF Spec
=============================================================================
