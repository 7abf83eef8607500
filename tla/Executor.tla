------------------------------ MODULE Executor ------------------------------
(***************************************************************************)
(* What a thread pool promises to those who post tasks to it: a task is    *)
(* started once, in the order of posting, and no more of them run at a     *)
(* time than there are threads.  A closed pool starts nothing more: what   *)
(* is still waiting is dropped, what is running goes on to its end, and    *)
(* only then is the pool gone.                                             *)
(*                                                                         *)
(* A task is named by its position in the order of posting.                *)
(***************************************************************************)
EXTENDS Naturals, FiniteSets

CONSTANT Size        \* tasks that may run at a time

VARIABLES posted,    \* tasks posted so far
          started,   \* tasks started so far
          running,   \* the tasks that run
          open,      \* the pool has not been closed
          gone       \* the pool has been destroyed

vars == <<posted, started, running, open, gone>>

Init ==
  /\ posted = 0
  /\ started = 0
  /\ running = {}
  /\ open = TRUE
  /\ gone = FALSE

Post ==
  /\ ~gone
  /\ posted' = posted + 1
  /\ UNCHANGED <<started, running, open, gone>>

Start ==
  /\ open
  /\ started < posted
  /\ Cardinality(running) < Size
  /\ started' = started + 1
  /\ running' = running \cup {started + 1}
  /\ UNCHANGED <<posted, open, gone>>

End(task) ==
  /\ running' = running \ {task}
  /\ UNCHANGED <<posted, started, open, gone>>

Close ==
  /\ open
  /\ open' = FALSE
  /\ UNCHANGED <<posted, started, running, gone>>

Destroy ==
  /\ ~open
  /\ running = {}
  /\ ~gone
  /\ gone' = TRUE
  /\ UNCHANGED <<posted, started, running, open>>

Next == Post \/ Start \/ (\E task \in running : End(task)) \/ Close \/ Destroy

Spec == Init /\ [][Next]_vars

\* A free thread does not leave a waiting task to itself.
FairSpec == Spec /\ WF_vars(Start)
=============================================================================
