-------------------------- MODULE TaskPool_proofs --------------------------
(***************************************************************************)
(* Theorems about TaskPool, for any finite set of threads and any set of   *)
(* posters.  PoolIInv is the inductive invariant: a thread has a task      *)
(* exactly while it is in one, the queue holds the last tasks posted in    *)
(* their order, the count of work is that of the tasks and one more until  *)
(* join, and the pool is stopped by its destructor only.                   *)
(***************************************************************************)
EXTENDS TaskPool, FiniteSetTheorems, FunctionTheorems, SequenceTheorems, TLAPS

Busy == {t \in Threads : task[t] /= NoTask}

Occupied == \A t \in Threads : task[t] /= NoTask <=> pc[t] \in {"run", "signal"}

QueueOrder ==
  /\ Len(queue) <= posted
  /\ \A i \in 1..Len(queue) : queue[i] = posted - Len(queue) + i

Started ==
  /\ \A t \in Threads : task[t] /= NoTask => task[t] <= posted - Len(queue)
  /\ \A t, u \in Threads : t /= u /\ task[t] /= NoTask => task[t] /= task[u]

Counted ==
  work = (IF pool \in {"open", "stopped"} THEN 1 ELSE 0) + Len(queue) + Cardinality(Busy)

StoppedByClose == stopped <=> pool /= "open"

AllEnded == pool = "gone" => \A t \in Threads : pc[t] = "ended"

PoolIInv ==
  /\ PoolTypeOK
  /\ Occupied
  /\ QueueOrder
  /\ Started
  /\ Counted
  /\ StoppedByClose
  /\ AllEnded
  /\ NoLostWakeup

PC == {"idle", "loop", "signal", "run", "asleep", "awake", "ended"}

-----------------------------------------------------------------------------
LEMMA BusyFinite == Busy \subseteq Threads /\ IsFiniteSet(Busy) /\ Cardinality(Busy) \in Nat
BY PoolAssumption, FS_Subset, FS_CardinalityType DEF Busy

LEMMA Quiet ==
  ASSUME PoolIInv, UNCHANGED <<task, queue, posted, work, signalled, stopped, pool>>,
         pc' \in [Threads \cup Posters -> PC],
         \A t \in Threads : pc'[t] /= "idle",
         \A p \in Posters : pc'[p] \in {"idle", "signal"},
         \A t \in Threads : pc'[t] \in {"run", "signal"} <=> pc[t] \in {"run", "signal"},
         pool = "gone" => \A t \in Threads : pc'[t] = "ended",
         NoLostWakeup'
  PROVE  PoolIInv'
<1>1. PoolTypeOK'
  BY DEF PoolIInv, PoolTypeOK, PC
<1>2. Counted'
  BY DEF PoolIInv, Counted, Busy
<1> QED BY <1>1, <1>2 DEF PoolIInv, Occupied, QueueOrder, Started, StoppedByClose, AllEnded

LEMMA PoolStarts == PoolInit => PoolIInv
<1> SUFFICES ASSUME PoolInit PROVE PoolIInv
  OBVIOUS
<1>1. PoolTypeOK
  <2>1. queue \in Seq(1..posted)
    BY EmptySeq DEF PoolInit
  <2>2. pc \in [Threads \cup Posters -> PC] /\ \A t \in Threads : pc[t] = "loop"
    BY DEF PoolInit, PC
  <2>3. \A p \in Posters : pc[p] = "idle"
    BY PoolAssumption DEF PoolInit
  <2>4. /\ task \in [Threads -> 1..posted \cup {NoTask}] /\ posted \in Nat /\ work \in Nat
        /\ pool \in {"open", "stopped", "joining", "gone"}
    BY DEF PoolInit
  <2>5. signalled \in BOOLEAN /\ stopped \in BOOLEAN
    BY DEF PoolInit
  <2> QED BY <2>1, <2>2, <2>3, <2>4, <2>5 DEF PoolTypeOK, PC
<1>2. Busy = {}
  BY DEF PoolInit, Busy
<1>3. Counted
  BY <1>2, FS_EmptySet DEF PoolInit, Counted
<1>4. Occupied
  BY PoolAssumption DEF PoolInit, Occupied
<1> QED BY <1>1, <1>3, <1>4
        DEF PoolInit, PoolIInv, QueueOrder, Started, StoppedByClose, AllEnded, NoLostWakeup

LEMMA PostStep ==
  ASSUME PoolIInv, NEW p \in Posters, pool = "open", PostTask(p)
  PROVE  PoolIInv'
<1>1. /\ p \notin Threads /\ posted \in Nat /\ posted' = posted + 1
      /\ queue' = Append(queue, posted + 1) /\ task' = task
      /\ pc \in [Threads \cup Posters -> PC]
      /\ pc' = [pc EXCEPT ![p] = IF Waiters(p) THEN "signal" ELSE "idle"]
  BY PoolAssumption DEF PostTask, PoolIInv, PoolTypeOK, PC
<1>2. /\ queue \in Seq(1..posted) /\ 1..posted \subseteq 1..posted'
      /\ queue \in Seq(1..posted')
  <2>1. queue \in Seq(1..posted) /\ 1..posted \subseteq 1..posted'
    BY <1>1 DEF PoolIInv, PoolTypeOK
  <2> QED BY <2>1, SeqMonotonic
<1>3. /\ queue' \in Seq(1..posted') /\ Len(queue') = Len(queue) + 1 /\ Len(queue) \in Nat
      /\ \A i \in 1..Len(queue) : queue'[i] = queue[i]
      /\ queue'[Len(queue) + 1] = posted + 1
  BY <1>1, <1>2, AppendProperties, LenProperties
<1>4. pc' \in [Threads \cup Posters -> PC] /\ \A t \in Threads : pc'[t] = pc[t]
  BY <1>1 DEF PC
<1>5. pc'[p] \in {"idle", "signal"} /\ \A x \in Posters : x /= p => pc'[x] = pc[x]
  BY <1>1
<1>6. PoolTypeOK'
  <2>1. task' \in [Threads -> 1..posted' \cup {NoTask}]
    BY <1>1, <1>2 DEF PoolIInv, PoolTypeOK
  <2>2. work' \in Nat /\ posted' \in Nat
    BY <1>1 DEF PoolIInv, PoolTypeOK, PostTask
  <2> QED BY <1>1, <1>3, <1>4, <1>5, <2>1, <2>2 DEF PoolIInv, PoolTypeOK, PostTask, PC
<1>7. QueueOrder'
  <2>1. ASSUME NEW i \in 1..Len(queue') PROVE queue'[i] = posted' - Len(queue') + i
    <3>1. CASE i \in 1..Len(queue)
      BY <3>1, <1>1, <1>3 DEF PoolIInv, QueueOrder
    <3>2. CASE i = Len(queue) + 1
      BY <3>2, <1>1, <1>3
    <3> QED BY <3>1, <3>2, <1>3
  <2>2. Len(queue') <= posted'
    BY <1>1, <1>3 DEF PoolIInv, QueueOrder
  <2> QED BY <2>1, <2>2 DEF QueueOrder
<1>8. Started'
  BY <1>1, <1>3 DEF PoolIInv, Started
<1>9. Counted'
  BY <1>1, <1>3, BusyFinite DEF PoolIInv, Counted, Busy, PostTask
<1>10. NoLostWakeup'
  <2>1. signalled' = TRUE
    BY DEF PostTask
  <2>2. CASE Waiters(p)
    BY <2>1, <2>2, <1>1 DEF NoLostWakeup
  <2>3. CASE ~Waiters(p)
    BY <2>1, <2>3, <1>1, <1>4 DEF NoLostWakeup, Waiters
  <2> QED BY <2>2, <2>3
<1> QED BY <1>1, <1>4, <1>6, <1>7, <1>8, <1>9, <1>10
        DEF PoolIInv, Occupied, StoppedByClose, AllEnded, PostTask

LEMMA SignalStep ==
  ASSUME PoolIInv, NEW x \in Threads \cup Posters, Signal(x)
  PROVE  PoolIInv'
<1> DEFINE next == [pc EXCEPT ![x] = IF x \in Threads THEN "run" ELSE "idle"]
<1>1. /\ pc[x] = "signal" /\ pc \in [Threads \cup Posters -> PC]
      /\ Threads \cap Posters = {}
  BY PoolAssumption DEF Signal, PoolIInv, PoolTypeOK, PC
<1>2. /\ next \in [Threads \cup Posters -> PC]
      /\ \A y \in Threads \cup Posters : y /= x => next[y] = pc[y]
      /\ next[x] = IF x \in Threads THEN "run" ELSE "idle"
  BY <1>1 DEF PC
<1>3. CASE \E t \in Threads : pc[t] = "asleep" /\ pc' = [next EXCEPT ![t] = "awake"]
  <2>1. PICK t \in Threads : pc[t] = "asleep" /\ pc' = [next EXCEPT ![t] = "awake"]
    BY <1>3
  <2> HIDE DEF next
  <2>2. /\ pc' \in [Threads \cup Posters -> PC] /\ pc'[t] = "awake" /\ t /= x
        /\ pc'[x] = IF x \in Threads THEN "run" ELSE "idle"
        /\ \A y \in Threads \cup Posters : y /= x /\ y /= t => pc'[y] = pc[y]
    BY <1>1, <1>2, <2>1 DEF PC
  <2>3. NoLostWakeup'
    BY <2>2 DEF PoolIInv, NoLostWakeup, Signal
  <2> QED BY <1>1, <2>1, <2>2, <2>3, Quiet DEF Signal, PoolIInv, PoolTypeOK, AllEnded
<1>4. CASE (\A t \in Threads : pc[t] /= "asleep") /\ pc' = next
  <2> HIDE DEF next
  <2>1. NoLostWakeup'
    BY <1>1, <1>2, <1>4 DEF PoolIInv, NoLostWakeup, Signal, Waiting, PC
  <2> QED BY <1>1, <1>2, <1>4, <2>1, Quiet DEF Signal, PoolIInv, PoolTypeOK, AllEnded
<1> QED BY <1>3, <1>4 DEF Signal

LEMMA TakeStep ==
  ASSUME PoolIInv, NEW t \in Threads, Take(t)
  PROVE  PoolIInv'
<1> DEFINE h == Head(queue)
<1>1. /\ queue \in Seq(1..posted) /\ queue /= <<>> /\ posted \in Nat /\ posted' = posted
      /\ pc \in [Threads \cup Posters -> PC] /\ task \in [Threads -> 1..posted \cup {NoTask}]
      /\ pc[t] \in {"loop", "awake"} /\ ~stopped /\ NoTask \notin Nat /\ Threads \cap Posters = {}
      /\ queue' = Tail(queue) /\ task' = [task EXCEPT ![t] = h]
      /\ UNCHANGED <<work, stopped, pool>>
  BY PoolAssumption DEF Take, AtHead, PoolIInv, PoolTypeOK, PC
<1>2. /\ queue' \in Seq(1..posted) /\ Len(queue') = Len(queue) - 1 /\ Len(queue) \in Nat /\ Len(queue) > 0
      /\ \A i \in 1..Len(queue') : queue'[i] = queue[i + 1]
      /\ h \in 1..posted /\ h = posted - Len(queue) + 1
  <2>1. Len(queue) \in Nat /\ Len(queue) > 0 /\ h = queue[1] /\ h \in 1..posted
    BY <1>1, LenProperties, EmptySeq, HeadTailProperties
  <2>2. h = posted - Len(queue) + 1
    BY <2>1 DEF PoolIInv, QueueOrder
  <2> QED BY <1>1, <2>1, <2>2, HeadTailProperties
<1>3. \E s \in {"signal", "run"} : pc' = [pc EXCEPT ![t] = s]
  BY DEF Take
<1>4. /\ pc' \in [Threads \cup Posters -> PC] /\ pc'[t] \in {"signal", "run"}
      /\ \A x \in Threads \cup Posters : x /= t => pc'[x] = pc[x]
  BY <1>1, <1>3 DEF PC
<1>5. task[t] = NoTask
  BY <1>1 DEF PoolIInv, Occupied
<1> HIDE DEF h
<1>6. /\ task' \in [Threads -> 1..posted \cup {NoTask}] /\ task'[t] = h /\ h /= NoTask
      /\ \A u \in Threads : u /= t => task'[u] = task[u]
  BY <1>1, <1>2
<1>7. PoolTypeOK'
  <2>1. signalled' \in BOOLEAN
    BY DEF Take, PoolIInv, PoolTypeOK
  <2> QED BY <1>1, <1>2, <1>4, <1>6, <2>1 DEF PoolIInv, PoolTypeOK, PC
<1>8. Occupied'
  BY <1>4, <1>6 DEF PoolIInv, Occupied
<1>9. QueueOrder'
  <2>1. ASSUME NEW i \in 1..Len(queue') PROVE queue'[i] = posted - Len(queue') + i
    <3>1. i + 1 \in 1..Len(queue) /\ queue[i + 1] = posted - Len(queue) + (i + 1)
      BY <1>2 DEF PoolIInv, QueueOrder
    <3> QED BY <3>1, <1>1, <1>2
  <2> QED BY <2>1, <1>1, <1>2 DEF PoolIInv, QueueOrder
<1>10. Started'
  <2>1. ASSUME NEW u \in Threads, task'[u] /= NoTask PROVE task'[u] <= posted' - Len(queue')
    <3>1. CASE u = t
      BY <3>1, <1>1, <1>2, <1>6
    <3>2. CASE u /= t
      <4>1. task[u] \in Nat /\ task[u] <= posted - Len(queue)
        BY <2>1, <3>2, <1>1, <1>6 DEF PoolIInv, Started
      <4> QED BY <3>2, <4>1, <1>1, <1>2, <1>6
    <3> QED BY <3>1, <3>2
  <2>2. ASSUME NEW u \in Threads, u /= t, task[u] /= NoTask PROVE task[u] /= h
    <3>1. task[u] \in Nat /\ task[u] <= posted - Len(queue)
      BY <2>2, <1>1 DEF PoolIInv, Started
    <3> QED BY <3>1, <1>1, <1>2
  <2>3. ASSUME NEW u \in Threads, NEW v \in Threads, u /= v, task'[u] /= NoTask
        PROVE  task'[u] /= task'[v]
    BY <2>2, <2>3, <1>6 DEF PoolIInv, Started
  <2> QED BY <2>1, <2>3 DEF Started
<1>11. Counted'
  <2>1. Busy' = Busy \cup {t} /\ t \notin Busy
    BY <1>5, <1>6 DEF Busy
  <2>2. Cardinality(Busy') = Cardinality(Busy) + 1
    BY <2>1, BusyFinite, FS_AddElement
  <2>3. /\ work' = work /\ pool' = pool /\ Len(queue') = Len(queue) - 1
        /\ Cardinality(Busy) \in Nat /\ Len(queue) \in Nat
        /\ work = (IF pool \in {"open", "stopped"} THEN 1 ELSE 0) + Len(queue) + Cardinality(Busy)
    BY <1>1, <1>2, BusyFinite DEF PoolIInv, Counted
  <2> QED BY <2>2, <2>3 DEF Counted
<1>12. NoLostWakeup'
  <2> SUFFICES ASSUME queue' /= <<>>
               PROVE  /\ signalled'
                      /\ (\E x \in Threads \cup Posters : pc'[x] = "signal")
                         \/ \A u \in Threads : pc'[u] \notin Waiting
    BY DEF NoLostWakeup
  <2>1. Len(queue) > 1
    BY <1>2, EmptySeq
  <2>2. signalled' /\ pc' = [pc EXCEPT ![t] = IF Waiters(t) THEN "signal" ELSE "run"]
    BY <2>1 DEF Take
  <2>3. CASE Waiters(t)
    BY <2>2, <2>3, <1>1
  <2>4. CASE ~Waiters(t)
    <3>1. \A u \in Threads : pc'[u] \notin Waiting
      BY <2>2, <2>4, <1>1, <1>4 DEF Waiters, Waiting
    <3> QED BY <2>2, <3>1
  <2> QED BY <2>3, <2>4
<1> QED BY <1>1, <1>4, <1>7, <1>8, <1>9, <1>10, <1>11, <1>12
        DEF PoolIInv, StoppedByClose, AllEnded

LEMMA SleepStep ==
  ASSUME PoolIInv, NEW t \in Threads, Sleep(t) \/ SleepAgain(t)
  PROVE  PoolIInv'
<1>1. /\ pc \in [Threads \cup Posters -> PC] /\ pc[t] \in {"loop", "awake"}
      /\ pc' = [pc EXCEPT ![t] = "asleep"] /\ Threads \cap Posters = {}
      /\ UNCHANGED <<task, queue, posted, work, stopped, pool>>
      /\ queue = <<>> \/ stopped \/ ~signalled
      /\ signalled' \in BOOLEAN
      /\ queue = <<>> \/ signalled' = signalled
  BY PoolAssumption DEF Sleep, SleepAgain, AtHead, PoolIInv, PoolTypeOK, PC
<1>2. /\ pc' \in [Threads \cup Posters -> PC] /\ pc'[t] = "asleep"
      /\ \A x \in Threads \cup Posters : x /= t => pc'[x] = pc[x]
  BY <1>1 DEF PC
<1>3. PoolTypeOK'
  BY <1>1, <1>2 DEF PoolIInv, PoolTypeOK, PC
<1>4. NoLostWakeup'
  BY <1>1 DEF PoolIInv, NoLostWakeup
<1>5. Counted'
  BY <1>1 DEF PoolIInv, Counted, Busy
<1>6. Occupied'
  BY <1>1, <1>2 DEF PoolIInv, Occupied
<1> QED BY <1>1, <1>2, <1>3, <1>4, <1>5, <1>6
        DEF PoolIInv, QueueOrder, Started, StoppedByClose, AllEnded

LEMMA WakeStep ==
  ASSUME PoolIInv, NEW t \in Threads, WakeUnasked(t)
  PROVE  PoolIInv'
<1>1. /\ pc \in [Threads \cup Posters -> PC] /\ pc[t] = "asleep" /\ Threads \cap Posters = {}
      /\ pc' = [pc EXCEPT ![t] = "awake"]
  BY PoolAssumption DEF WakeUnasked, PoolIInv, PoolTypeOK, PC
<1>2. /\ pc' \in [Threads \cup Posters -> PC] /\ pc'[t] = "awake"
      /\ \A x \in Threads \cup Posters : x /= t => pc'[x] = pc[x]
  BY <1>1 DEF PC
<1>3. NoLostWakeup'
  BY <1>2 DEF PoolIInv, NoLostWakeup, WakeUnasked
<1> QED BY <1>1, <1>2, <1>3, Quiet DEF WakeUnasked, PoolIInv, PoolTypeOK, AllEnded

LEMMA LeaveStep ==
  ASSUME PoolIInv, NEW t \in Threads, Leave(t)
  PROVE  PoolIInv'
<1>1. /\ pc \in [Threads \cup Posters -> PC] /\ pc[t] \in {"loop", "awake"} /\ stopped
      /\ Threads \cap Posters = {} /\ pc' = [pc EXCEPT ![t] = "ended"]
  BY PoolAssumption DEF Leave, AtHead, PoolIInv, PoolTypeOK, PC
<1>2. /\ pc' \in [Threads \cup Posters -> PC] /\ pc'[t] = "ended"
      /\ \A x \in Threads \cup Posters : x /= t => pc'[x] = pc[x]
  BY <1>1 DEF PC
<1>3. NoLostWakeup'
  BY <1>1 DEF NoLostWakeup, Leave
<1> QED BY <1>1, <1>2, <1>3, Quiet DEF Leave, PoolIInv, PoolTypeOK, AllEnded

\* stop_all_threads.
LEMMA WakenedKeeps ==
  ASSUME NEW f \in [Threads \cup Posters -> PC]
  PROVE  /\ Wakened(f) \in [Threads \cup Posters -> PC]
         /\ \A x \in Threads \cup Posters :
              \/ Wakened(f)[x] = f[x]
              \/ f[x] = "asleep" /\ Wakened(f)[x] = "awake"
BY DEF Wakened, PC

LEMMA FinishStep ==
  ASSUME PoolIInv, NEW t \in Threads, Finish(t)
  PROVE  PoolIInv'
<1> DEFINE next == [pc EXCEPT ![t] = "loop"]
<1>1. /\ pc \in [Threads \cup Posters -> PC] /\ pc[t] = "run" /\ Threads \cap Posters = {}
      /\ task \in [Threads -> 1..posted \cup {NoTask}] /\ task' = [task EXCEPT ![t] = NoTask]
      /\ WorkFinished(next) /\ UNCHANGED <<queue, posted, pool>> /\ Len(queue) \in Nat
      /\ task[t] /= NoTask
  BY PoolAssumption, LenProperties DEF Finish, PoolIInv, PoolTypeOK, PC, Occupied
<1>2. /\ next \in [Threads \cup Posters -> PC] /\ next[t] = "loop"
      /\ \A x \in Threads \cup Posters : x /= t => next[x] = pc[x]
  BY <1>1 DEF PC
<1> HIDE DEF next
<1>3. /\ pc' \in [Threads \cup Posters -> PC] /\ pc'[t] = "loop"
      /\ \A x \in Threads \cup Posters : x /= t =>
           pc'[x] = pc[x] \/ (pc[x] = "asleep" /\ pc'[x] = "awake")
  <2>1. pc' = next \/ pc' = Wakened(next)
    BY <1>1 DEF WorkFinished
  <2>2. /\ Wakened(next) \in [Threads \cup Posters -> PC]
        /\ \A x \in Threads \cup Posters :
             \/ Wakened(next)[x] = next[x]
             \/ next[x] = "asleep" /\ Wakened(next)[x] = "awake"
    BY <1>2, WakenedKeeps
  <2> QED BY <2>1, <2>2, <1>2
<1>4. /\ task' \in [Threads -> 1..posted \cup {NoTask}] /\ task'[t] = NoTask
      /\ \A u \in Threads : u /= t => task'[u] = task[u]
  BY <1>1
<1>5. Busy' = Busy \ {t} /\ t \in Busy
  BY <1>1, <1>4 DEF Busy
<1>6. /\ Cardinality(Busy') = Cardinality(Busy) - 1 /\ Cardinality(Busy) \in Nat
      /\ Cardinality(Busy') \in Nat
  <2>1. IsFiniteSet(Busy')
    BY <1>5, BusyFinite, FS_RemoveElement
  <2> QED BY <2>1, <1>5, BusyFinite, FS_RemoveElement, FS_CardinalityType
<1>7. work \in Nat /\ work' = work - 1 /\ work' \in Nat
  BY <1>1, <1>6 DEF WorkFinished, PoolIInv, PoolTypeOK, Counted
<1>8. Counted'
  BY <1>1, <1>6, <1>7 DEF PoolIInv, Counted
<1>9. stopped' = stopped /\ (signalled' = signalled \/ stopped)
  <2>1. CASE work = 1
    <3>1. pool /= "open"
      BY <2>1, <1>1, <1>6 DEF PoolIInv, Counted
    <3> QED BY <2>1, <3>1, <1>1 DEF WorkFinished, PoolIInv, StoppedByClose, PoolTypeOK
  <2>2. CASE work /= 1
    BY <2>2, <1>1 DEF WorkFinished
  <2> QED BY <2>1, <2>2
<1>10. PoolTypeOK'
  <2>1. signalled' \in BOOLEAN
    BY <1>1 DEF WorkFinished, PoolIInv, PoolTypeOK
  <2> QED BY <1>1, <1>3, <1>4, <1>7, <1>9, <2>1 DEF PoolIInv, PoolTypeOK, PC
<1>11. Occupied'
  BY <1>1, <1>3, <1>4 DEF PoolIInv, Occupied
<1>12. Started'
  BY <1>1, <1>4 DEF PoolIInv, Started
<1>13. NoLostWakeup'
  BY <1>1, <1>3, <1>9 DEF PoolIInv, NoLostWakeup
<1>14. AllEnded'
  BY <1>1 DEF PoolIInv, AllEnded
<1> QED BY <1>1, <1>8, <1>9, <1>10, <1>11, <1>12, <1>13, <1>14
        DEF PoolIInv, QueueOrder, StoppedByClose

LEMMA CloseStep ==
  ASSUME PoolIInv, Close
  PROVE  PoolIInv'
<1>1. /\ pc \in [Threads \cup Posters -> PC] /\ Len(queue) \in Nat
      /\ UNCHANGED <<task, queue, posted>> /\ work \in Nat /\ Cardinality(Busy) \in Nat
  BY LenProperties, BusyFinite
     DEF Close, StopPool, JoinPool, DestroyPool, PoolIInv, PoolTypeOK, PC
<1>2. /\ pc' \in [Threads \cup Posters -> PC]
      /\ \A x \in Threads \cup Posters :
           pc'[x] = pc[x] \/ (pc[x] = "asleep" /\ pc'[x] = "awake")
  <2>1. pc' = pc \/ pc' = Wakened(pc)
    BY DEF Close, StopPool, JoinPool, DestroyPool, WorkFinished
  <2>2. /\ Wakened(pc) \in [Threads \cup Posters -> PC]
        /\ \A x \in Threads \cup Posters :
             \/ Wakened(pc)[x] = pc[x]
             \/ pc[x] = "asleep" /\ Wakened(pc)[x] = "awake"
    BY <1>1, WakenedKeeps
  <2> QED BY <2>1, <2>2, <1>1
<1>3. /\ stopped' = TRUE /\ pool' /= "open" /\ pool' \in {"stopped", "joining", "gone"}
      /\ signalled' \in BOOLEAN
  BY DEF Close, StopPool, JoinPool, DestroyPool, WorkFinished, PoolIInv, StoppedByClose, PoolTypeOK
<1>4. Counted' /\ work' \in Nat
  <2>1. CASE StopPool
    BY <2>1, <1>1 DEF StopPool, PoolIInv, Counted, Busy
  <2>2. CASE JoinPool
    BY <2>2, <1>1 DEF JoinPool, WorkFinished, PoolIInv, Counted, Busy
  <2>3. CASE DestroyPool
    BY <2>3, <1>1 DEF DestroyPool, PoolIInv, Counted, Busy
  <2> QED BY <2>1, <2>2, <2>3 DEF Close
<1>5. PoolTypeOK'
  BY <1>1, <1>2, <1>3, <1>4 DEF PoolIInv, PoolTypeOK, PC
<1>6. AllEnded'
  BY <1>2 DEF Close, StopPool, JoinPool, DestroyPool, PoolIInv, AllEnded
<1>7. Occupied'
  BY <1>1, <1>2 DEF PoolIInv, Occupied
<1>8. NoLostWakeup' /\ StoppedByClose'
  BY <1>3 DEF NoLostWakeup, StoppedByClose
<1> QED BY <1>1, <1>4, <1>5, <1>6, <1>7, <1>8 DEF PoolIInv, QueueOrder, Started

LEMMA PoolInductive == PoolIInv /\ [PoolNext]_poolVars => PoolIInv'
<1> SUFFICES ASSUME PoolIInv, [PoolNext]_poolVars PROVE PoolIInv'
  OBVIOUS
<1>1. CASE UNCHANGED poolVars
  BY <1>1 DEF poolVars, PoolIInv, PoolTypeOK, Occupied, QueueOrder, Started, Counted, Busy,
              StoppedByClose, AllEnded, NoLostWakeup
<1>2. CASE PoolNext
  BY <1>2, PostStep, SignalStep, TakeStep, SleepStep, WakeStep, LeaveStep, FinishStep, CloseStep
     DEF PoolNext, Work
<1> QED BY <1>1, <1>2

(* The pool's variables have their types.                                  *)
THEOREM PoolTypeCorrect == PoolSpec => []PoolTypeOK
<1>1. PoolIInv => PoolTypeOK
  BY DEF PoolIInv
<1> QED BY <1>1, PoolStarts, PoolInductive, PTL DEF PoolSpec

(* While a task waits, somebody is on the way to it, or all threads are at *)
(* work, for any number of threads (scheduler.ipp 356-413).                *)
THEOREM NoWakeupIsLost == PoolSpec => []NoLostWakeup
<1>1. PoolIInv => NoLostWakeup
  BY DEF PoolIInv
<1> QED BY <1>1, PoolStarts, PoolInductive, PTL DEF PoolSpec

-----------------------------------------------------------------------------
(* The pool implements Executor                                            *)

Run == {task[t] : t \in Threads} \ {NoTask}

LEMMA PromiseSame ==
  ASSUME posted' = posted, queue' = queue, task' = task, stopped' = stopped,
         (pool = "gone") = (pool' = "gone")
  PROVE  UNCHANGED Promise!vars
BY DEF Promise!vars

LEMMA PromisePost ==
  ASSUME PoolIInv, NEW p \in Posters, pool = "open", PostTask(p)
  PROVE  Promise!Next
<1>1. queue \in Seq(1..posted) /\ posted \in Nat
  BY DEF PoolIInv, PoolTypeOK
<1>2. Len(queue') = Len(queue) + 1 /\ Len(queue) \in Nat
  <2>1. queue' = Append(queue, posted + 1)
    BY DEF PostTask
  <2> QED BY <1>1, <2>1, LenProperties
<1>3. posted' - Len(queue') = posted - Len(queue)
  BY <1>1, <1>2 DEF PostTask
<1> QED BY <1>3 DEF PostTask, Promise!Next, Promise!Post

LEMMA PromiseTake ==
  ASSUME PoolIInv, NEW t \in Threads, Take(t)
  PROVE  Promise!Next
<1> DEFINE h == Head(queue)
<1>1. /\ queue \in Seq(1..posted) /\ queue /= <<>> /\ posted \in Nat
      /\ task \in [Threads -> 1..posted \cup {NoTask}] /\ NoTask \notin Nat
      /\ task' = [task EXCEPT ![t] = h] /\ queue' = Tail(queue)
      /\ UNCHANGED <<posted, stopped, pool>> /\ ~stopped /\ task[t] = NoTask
  BY PoolAssumption DEF Take, AtHead, PoolIInv, PoolTypeOK, Occupied
<1>2. /\ Len(queue) \in Nat /\ Len(queue) > 0 /\ Len(queue') = Len(queue) - 1
      /\ h \in 1..posted /\ h = queue[1]
  BY <1>1, LenProperties, EmptySeq, HeadTailProperties
<1>3. h = (posted - Len(queue)) + 1 /\ Len(queue) <= posted
  BY <1>2 DEF PoolIInv, QueueOrder
<1> HIDE DEF h
<1>4. Run' = Run \cup {h}
  <2>1. task'[t] = h /\ h /= NoTask /\ \A u \in Threads : u /= t => task'[u] = task[u]
    BY <1>1, <1>2
  <2> QED BY <1>1, <2>1 DEF Run
<1>5. Cardinality(Run) < Cardinality(Threads)
  <2>1. IsFiniteSet(Threads \ {t}) /\ Cardinality(Threads \ {t}) = Cardinality(Threads) - 1
        /\ Cardinality(Threads) \in Nat
    BY PoolAssumption, FS_RemoveElement, FS_CardinalityType
  <2>2. DEFINE T == {task[u] : u \in Threads \ {t}}
  <2>3. IsFiniteSet(T) /\ Cardinality(T) <= Cardinality(Threads \ {t})
    <3> DEFINE f == [u \in Threads \ {t} |-> task[u]]
    <3>1. f \in Surjection(Threads \ {t}, T)
      BY DEF Surjection
    <3> QED BY <2>1, <3>1, FS_Surjection
  <2>4. Run \subseteq T
    BY <1>1 DEF Run
  <2>5. Cardinality(Run) <= Cardinality(T)
    BY <2>3, <2>4, FS_Subset
  <2>6. Cardinality(Run) \in Nat /\ Cardinality(T) \in Nat
    BY <2>3, <2>4, FS_Subset, FS_CardinalityType
  <2> QED BY <2>1, <2>3, <2>5, <2>6
<1>6. /\ posted - Len(queue) < posted
      /\ posted' - Len(queue') = (posted - Len(queue)) + 1
  BY <1>1, <1>2, <1>3
<1>7. Promise!Start
  <2>1. ({task[u] : u \in Threads} \ {NoTask})'
          = ({task[u] : u \in Threads} \ {NoTask}) \cup {(posted - Len(queue)) + 1}
    BY <1>3, <1>4 DEF Run
  <2>2. Cardinality({task[u] : u \in Threads} \ {NoTask}) < Cardinality(Threads)
    BY <1>5 DEF Run
  <2>4. Promise!Cardinality({task[u] : u \in Threads} \ {NoTask}) < Cardinality(Threads)
    <3>1. Promise!Cardinality({task[u] : u \in Threads} \ {NoTask})
            = Cardinality({task[u] : u \in Threads} \ {NoTask})
      BY Zenon DEF Promise!Cardinality, Cardinality
    <3> QED BY <2>2, <3>1
  <2>3. /\ ~stopped
        /\ (posted - Len(queue))' = (posted - Len(queue)) + 1
        /\ posted' = posted
        /\ (~stopped)' = ~stopped
        /\ (pool = "gone")' = (pool = "gone")
    BY <1>1, <1>6
  <2> QED BY <1>6, <2>1, <2>4, <2>3, Zenon DEF Promise!Start
<1> QED BY <1>7 DEF Promise!Next

LEMMA PromiseFinish ==
  ASSUME PoolIInv, PoolIInv', NEW t \in Threads, Finish(t)
  PROVE  Promise!Next
<1>1. /\ task \in [Threads -> 1..posted \cup {NoTask}] /\ task[t] /= NoTask
      /\ task' = [task EXCEPT ![t] = NoTask] /\ UNCHANGED <<posted, queue, pool>>
  BY DEF Finish, PoolIInv, PoolTypeOK, Occupied
<1>2. stopped' = stopped
  BY <1>1 DEF PoolIInv, StoppedByClose, PoolTypeOK
<1>3. Run' = Run \ {task[t]} /\ task[t] \in Run
  <2>1. task'[t] = NoTask /\ \A u \in Threads : u /= t => task'[u] = task[u]
    BY <1>1
  <2>2. \A u \in Threads : u /= t => task[u] /= task[t]
    BY <1>1 DEF PoolIInv, Started
  <2> QED BY <1>1, <2>1, <2>2 DEF Run
<1>4. /\ posted' = posted
      /\ (posted - Len(queue))' = posted - Len(queue)
      /\ (~stopped)' = ~stopped
      /\ (pool = "gone")' = (pool = "gone")
  BY <1>1, <1>2
<1>5. \E x \in Run : Promise!End(x)
  BY <1>3, <1>4, Zenon DEF Promise!End, Run
<1> QED BY <1>5, Zenon DEF Promise!Next, Run

LEMMA PromiseClose ==
  ASSUME PoolIInv, PoolIInv', Close
  PROVE  Promise!Next \/ UNCHANGED Promise!vars
<1>1. CASE StopPool
  <2>1. Promise!Close
    BY <1>1 DEF StopPool, PoolIInv, StoppedByClose, Promise!Close
  <2> QED BY <2>1 DEF Promise!Next
<1>2. CASE JoinPool
  BY <1>2, PromiseSame DEF JoinPool, WorkFinished, PoolIInv, StoppedByClose, PoolTypeOK
<1>3. CASE DestroyPool
  <2>1. /\ pool = "joining" /\ pool' = "gone" /\ stopped
        /\ UNCHANGED <<posted, queue, task, stopped>>
        /\ \A t \in Threads : task[t] = NoTask
    BY <1>3 DEF DestroyPool, PoolIInv, StoppedByClose, Occupied
  <2>2. Promise!Destroy
    BY <2>1 DEF Promise!Destroy
  <2> QED BY <2>2 DEF Promise!Next
<1> QED BY <1>1, <1>2, <1>3 DEF Close

LEMMA PromiseStep == PoolIInv /\ PoolIInv' /\ [PoolNext]_poolVars => [Promise!Next]_Promise!vars
<1> SUFFICES ASSUME PoolIInv, PoolIInv', [PoolNext]_poolVars
             PROVE  Promise!Next \/ UNCHANGED Promise!vars
  OBVIOUS
<1>1. CASE UNCHANGED poolVars
  BY <1>1, PromiseSame DEF poolVars
<1>2. CASE \E p \in Posters : pool = "open" /\ PostTask(p)
  BY <1>2, PromisePost
<1>3. CASE \E x \in Threads \cup Posters : Signal(x)
  BY <1>3, PromiseSame DEF Signal
<1>4. ASSUME NEW t \in Threads, Work(t) \/ WakeUnasked(t) \/ Finish(t)
      PROVE  Promise!Next \/ UNCHANGED Promise!vars
  <2>1. CASE Sleep(t) \/ SleepAgain(t) \/ Leave(t) \/ WakeUnasked(t)
    BY <2>1, PromiseSame DEF Sleep, SleepAgain, Leave, WakeUnasked
  <2> QED BY <1>4, <2>1, PromiseTake, PromiseFinish DEF Work
<1>5. CASE Close
  BY <1>5, PromiseClose
<1> QED BY <1>1, <1>2, <1>3, <1>4, <1>5 DEF PoolNext

LEMMA PromiseStarts == PoolInit => Promise!Init
<1> SUFFICES ASSUME PoolInit PROVE Promise!Init
  OBVIOUS
<1>1. posted - Len(queue) = 0
  <2>1. Len(queue) = 0
    BY EmptySeq DEF PoolInit
  <2>2. posted = 0
    BY DEF PoolInit
  <2> QED BY <2>1, <2>2
<1>2. {task[t] : t \in Threads} \ {NoTask} = {}
  BY DEF PoolInit
<1> QED BY <1>1, <1>2 DEF PoolInit, Promise!Init

(* Tasks start in the order of posting, each once, no more than there are  *)
(* threads at a time, none after the pool is closed; and it is not gone    *)
(* before those that run have ended (main.cpp 21, 81, 174, 187).           *)
THEOREM PoolImplements == PoolSpec => Promise!Spec
BY PoolStarts, PoolInductive, PromiseStarts, PromiseStep, PTL DEF PoolSpec, Promise!Spec
=============================================================================
