------------------------------ MODULE TaskPool ------------------------------
(***************************************************************************)
(* asio::thread_pool as MyClient uses it (main.cpp 21-27): scheduler.ipp   *)
(* without a reactor task, posix_event.hpp, thread_pool.ipp.               *)
(*                                                                         *)
(* What a thread does while it holds the scheduler's mutex is one action.  *)
(* pthread_cond_signal comes after the unlock and is an action of its own: *)
(* "signal" is the place between the two.  A thread in "asleep" is blocked *)
(* in pthread_cond_wait; in "awake" it has been signalled, or has woken    *)
(* for no reason, and waits for the mutex.  signalled is the bit of        *)
(* posix_event::state_; the waiters counted in its upper bits are the      *)
(* threads in "asleep" and "awake".                                        *)
(*                                                                         *)
(* A task is named by its position in the order of posting.  Abstracted:   *)
(* what a task does (Work of the module that extends this one), and        *)
(* operations a task posts to its own thread, of which there are none.     *)
(***************************************************************************)
EXTENDS Naturals, Sequences, FiniteSets

CONSTANTS Threads,  \* the threads of the pool
          Posters,  \* the threads that post to it
          NoTask    \* a thread that runs none

ASSUME PoolAssumption ==
  /\ IsFiniteSet(Threads) /\ Threads /= {}
  /\ Threads \cap Posters = {}
  /\ NoTask \notin Nat

VARIABLES
  pc,       \* pc[t]: what a thread of the pool, or one that posts, is doing
  task,     \* task[t]: the operation t has popped
  queue,    \* op_queue_
  posted,   \* history: the number of tasks posted
  work,     \* outstanding_work_
  signalled, \* the lowest bit of state_
  stopped,  \* stopped_
  pool      \* how far ~thread_pool has come

poolVars == <<pc, task, queue, posted, work, signalled, stopped, pool>>

Waiting == {"asleep", "awake"}

PoolTypeOK ==
  /\ pc \in [Threads \cup Posters ->
               {"idle", "loop", "signal", "run", "asleep", "awake", "ended"}]
  /\ \A t \in Threads : pc[t] /= "idle"
  /\ \A p \in Posters : pc[p] \in {"idle", "signal"}
  /\ posted \in Nat
  /\ task \in [Threads -> 1..posted \cup {NoTask}]
  /\ queue \in Seq(1..posted)
  /\ work \in Nat
  /\ signalled \in BOOLEAN
  /\ stopped \in BOOLEAN
  /\ pool \in {"open", "stopped", "joining", "gone"}

\* Mutant: the constructor does not call work_started.
PoolInitIdle ==
  /\ pc = [t \in Threads \cup Posters |-> IF t \in Threads THEN "loop" ELSE "idle"]
  /\ task = [t \in Threads |-> NoTask]
  /\ queue = <<>>
  /\ posted = 0
  /\ work = 0
  /\ signalled = FALSE
  /\ stopped = FALSE
  /\ pool = "open"

\* The constructor's work_started keeps outstanding_work_ above 0.
PoolInit ==
  /\ pc = [t \in Threads \cup Posters |-> IF t \in Threads THEN "loop" ELSE "idle"]
  /\ task = [t \in Threads |-> NoTask]
  /\ queue = <<>>
  /\ posted = 0
  /\ work = 1
  /\ signalled = FALSE
  /\ stopped = FALSE
  /\ pool = "open"

\* Somebody other than t is counted as a waiter.
Waiters(t) == \E u \in Threads \ {t} : pc[u] \in Waiting

\* Mutant: stop() signals nobody.
WakenedNone(f) == f

\* stop_all_threads: every blocked thread is woken.  Here as the value of pc.
Wakened(f) == [x \in DOMAIN f |-> IF f[x] = "asleep" THEN "awake" ELSE f[x]]

\* work_finished, after which pc would be next.
WorkFinished(next) ==
  /\ work' = work - 1
  /\ IF work = 1
     THEN /\ stopped' = TRUE
          /\ signalled' = TRUE
          /\ pc' = Wakened(next)
     ELSE /\ UNCHANGED <<stopped, signalled>>
          /\ pc' = next

-----------------------------------------------------------------------------
(* post_immediate_completion, by a thread that is not in the pool          *)

\* Mutant: the new operation goes to the front.
PostTaskFirst(p) ==
  /\ pc[p] = "idle"
  /\ posted' = posted + 1
  /\ work' = work + 1
  /\ queue' = <<posted + 1>> \o queue
  /\ signalled' = TRUE
  /\ pc' = [pc EXCEPT ![p] = IF Waiters(p) THEN "signal" ELSE "idle"]
  /\ UNCHANGED <<task, stopped, pool>>

PostTask(p) ==
  /\ pc[p] = "idle"
  /\ posted' = posted + 1
  /\ work' = work + 1
  /\ queue' = Append(queue, posted + 1)
  /\ signalled' = TRUE
  /\ pc' = [pc EXCEPT ![p] = IF Waiters(p) THEN "signal" ELSE "idle"]
  /\ UNCHANGED <<task, stopped, pool>>

\* pthread_cond_signal: one blocked thread is woken, if there is any.
Signal(x) ==
  /\ pc[x] = "signal"
  /\ LET next == [pc EXCEPT ![x] = IF x \in Threads THEN "run" ELSE "idle"]
     IN \/ \E t \in Threads : pc[t] = "asleep" /\ pc' = [next EXCEPT ![t] = "awake"]
        \/ (\A t \in Threads : pc[t] /= "asleep") /\ pc' = next
  /\ UNCHANGED <<task, queue, posted, work, signalled, stopped, pool>>

-----------------------------------------------------------------------------
(* do_run_one, by a thread of the pool                                     *)

\* t holds the mutex at the head of the loop: it comes there from outside,
\* or from a wait that has seen the event.
AtHead(t) == pc[t] = "loop" \/ (pc[t] = "awake" /\ signalled)

\* Mutant: the event is reset by the thread that comes for the operation.
TakeAndReset(t) ==
  /\ AtHead(t)
  /\ ~stopped
  /\ queue /= <<>>
  /\ task' = [task EXCEPT ![t] = Head(queue)]
  /\ queue' = Tail(queue)
  /\ signalled' = FALSE
  /\ pc' = [pc EXCEPT ![t] = "run"]
  /\ UNCHANGED <<posted, work, stopped, pool>>

\* The front is popped; if there is more, another thread is woken for it.
Take(t) ==
  /\ AtHead(t)
  /\ ~stopped
  /\ queue /= <<>>
  /\ task' = [task EXCEPT ![t] = Head(queue)]
  /\ queue' = Tail(queue)
  /\ LET more == Len(queue) > 1
     IN /\ signalled' = (signalled \/ more)
        /\ pc' = [pc EXCEPT ![t] = IF more /\ Waiters(t) THEN "signal" ELSE "run"]
  /\ UNCHANGED <<posted, work, stopped, pool>>

\* The event is cleared, and the wait finds it so.
Sleep(t) ==
  /\ AtHead(t)
  /\ ~stopped
  /\ queue = <<>>
  /\ signalled' = FALSE
  /\ pc' = [pc EXCEPT ![t] = "asleep"]
  /\ UNCHANGED <<task, queue, posted, work, stopped, pool>>

\* The wait finds the event cleared by another thread.
SleepAgain(t) ==
  /\ pc[t] = "awake"
  /\ ~signalled
  /\ pc' = [pc EXCEPT ![t] = "asleep"]
  /\ UNCHANGED <<task, queue, posted, work, signalled, stopped, pool>>

\* POSIX allows pthread_cond_wait to return without a signal.
WakeUnasked(t) ==
  /\ pc[t] = "asleep"
  /\ pc' = [pc EXCEPT ![t] = "awake"]
  /\ UNCHANGED <<task, queue, posted, work, signalled, stopped, pool>>

\* The task has returned: work_cleanup.
Finish(t) ==
  /\ pc[t] = "run"
  /\ task' = [task EXCEPT ![t] = NoTask]
  /\ WorkFinished([pc EXCEPT ![t] = "loop"])
  /\ UNCHANGED <<queue, posted, pool>>

\* The loop ends and with it the thread.
Leave(t) ==
  /\ AtHead(t)
  /\ stopped
  /\ pc' = [pc EXCEPT ![t] = "ended"]
  /\ UNCHANGED <<task, queue, posted, work, signalled, stopped, pool>>

-----------------------------------------------------------------------------
(* ~thread_pool                                                            *)

StopPool ==
  /\ pool = "open"
  /\ pool' = "stopped"
  /\ stopped' = TRUE
  /\ signalled' = TRUE
  /\ pc' = Wakened(pc)
  /\ UNCHANGED <<task, queue, posted, work>>

JoinPool ==
  /\ pool = "stopped"
  /\ pool' = "joining"
  /\ WorkFinished(pc)
  /\ UNCHANGED <<task, queue, posted>>

\* The threads have ended; what is left in the queue is destroyed with it.
DestroyPool ==
  /\ pool = "joining"
  /\ \A t \in Threads : pc[t] = "ended"
  /\ pool' = "gone"
  /\ UNCHANGED <<pc, task, queue, posted, work, signalled, stopped>>

-----------------------------------------------------------------------------
Work(t) == Take(t) \/ Sleep(t) \/ SleepAgain(t) \/ Leave(t)

Close == StopPool \/ JoinPool \/ DestroyPool

PoolNext ==
  \/ \E p \in Posters : pool = "open" /\ PostTask(p)
  \/ \E x \in Threads \cup Posters : Signal(x)
  \/ \E t \in Threads : Work(t) \/ WakeUnasked(t) \/ Finish(t)
  \/ (\A p \in Posters : pc[p] = "idle") /\ Close

PoolSpec == PoolInit /\ [][PoolNext]_poolVars

\* How the state shows to those who post.
Promise == INSTANCE Executor WITH
  Size <- Cardinality(Threads),
  started <- posted - Len(queue),
  running <- {task[t] : t \in Threads} \ {NoTask},
  open <- ~stopped,
  gone <- pool = "gone"

(* No wakeup is lost: while a task waits in the queue, a thread is on its  *)
(* way to it, a signal is, or all threads are at work.  Posting signals    *)
(* after the unlock, one signal may meet a thread that is awake already,   *)
(* and a thread may empty the queue before the one that was woken for it   *)
(* has the mutex (scheduler.ipp 356-413, posix_event.hpp 80-123).          *)
NoLostWakeup ==
  queue /= <<>> /\ ~stopped =>
    /\ signalled
    /\ \/ \E t \in Threads : pc[t] \in {"loop", "awake"}
       \/ \E x \in Threads \cup Posters : pc[x] = "signal"
       \/ \A t \in Threads : pc[t] \notin Waiting
=============================================================================
