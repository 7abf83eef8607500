-------------------------- MODULE MyClient_proofs --------------------------
(***************************************************************************)
(* Theorems about MyClient, for any number of threads, events and          *)
(* commands.  Every step of the client is a step of its pool or leaves the *)
(* pool alone, so that the pool's inductive invariant holds here as well;  *)
(* ClientInv says what the client adds: who may post when, and that the    *)
(* pool is closed by ~MyClient only, when nobody is left who would.        *)
(***************************************************************************)
EXTENDS MyClient, TaskPool_proofs

PostersAtRest ==
  /\ pc[Io] = "signal" => loaded /= NoEvent
  /\ pc[Console] = "signal" => console = "prompt"

HandlesWhileRunning ==
  /\ todo /= <<>> => loaded /= NoEvent
  /\ loaded /= NoEvent => main = "run"

ClosedOnLeaving ==
  /\ main = "leave" => console = "ended"
  /\ pool /= "open" => main = "leave"

ClientInv == PostersAtRest /\ HandlesWhileRunning /\ ClosedOnLeaving

IInv == PoolIInv /\ ClientInv

-----------------------------------------------------------------------------
LEMMA Starts == Init => IInv
BY PoolStarts, ClientAssumption, PoolAssumption
   DEF Init, PoolInit, IInv, ClientInv, PostersAtRest, HandlesWhileRunning, ClosedOnLeaving

\* What the pool's threads do, and its destruction, leaves those who post alone.
LEMMA PostersKept ==
  ASSUME PoolIInv, NEW p \in Posters, NEW t \in Threads,
         Work(t) \/ WakeUnasked(t) \/ Finish(t) \/ Close
  PROVE  pc'[p] = pc[p]
<1>1. /\ pc \in [Threads \cup Posters -> PC] /\ p /= t
      /\ pc[p] \in {"idle", "signal"}
  BY PoolAssumption DEF PoolIInv, PoolTypeOK, PC
<1>2. CASE Work(t) \/ WakeUnasked(t)
  BY <1>1, <1>2 DEF Work, Take, Sleep, SleepAgain, Leave, WakeUnasked
<1>3. CASE Finish(t) \/ Close
  BY <1>1, <1>3 DEF Finish, Close, StopPool, JoinPool, DestroyPool, WorkFinished, Wakened
<1> QED BY <1>2, <1>3

\* A post of p's changes pc at p only.
LEMMA OthersKept ==
  ASSUME PoolIInv, NEW p \in Posters, NEW q \in Posters, p /= q,
         PostTask(p) \/ Signal(p)
  PROVE  pc'[q] = pc[q]
<1>1. /\ pc \in [Threads \cup Posters -> PC] /\ q \notin Threads
  BY PoolAssumption DEF PoolIInv, PoolTypeOK, PC
<1> QED BY <1>1 DEF PostTask, Signal

-----------------------------------------------------------------------------
LEMMA ReceiveStep ==
  ASSUME IInv, NEW event \in Events, Receive(event)
  PROVE  UNCHANGED poolVars /\ ClientInv'
<1>1. CASE LoadAborts(event)
  BY <1>1 DEF Receive, poolVars, IInv, ClientInv, PostersAtRest, HandlesWhileRunning,
              ClosedOnLeaving, consoleVars
<1>2. CASE ~LoadAborts(event)
  <2>1. loaded'.class /= NoEvent.class
    BY <1>2, ClientAssumption DEF Receive, NoEvent, Handled
  <2> QED BY <1>2, <2>1 DEF Receive, poolVars, IInv, ClientInv, PostersAtRest,
                            HandlesWhileRunning, ClosedOnLeaving, consoleVars
<1> QED BY <1>1, <1>2

LEMMA HandlerStep ==
  ASSUME IInv, Handler
  PROVE  (UNCHANGED poolVars \/ (pool = "open" /\ PostTask(Io))) /\ ClientInv'
<1>1. CASE PushGuild
  BY <1>1 DEF PushGuild, poolVars, IInv, ClientInv, PostersAtRest, HandlesWhileRunning,
              ClosedOnLeaving, consoleVars
<1>2. CASE Greet
  <2>1. pool = "open" /\ PostTask(Io) /\ loaded /= NoEvent
    BY <1>2 DEF Greet, AtChannel, Post, IInv, ClientInv, HandlesWhileRunning, ClosedOnLeaving
  <2>2. pc'[Console] = pc[Console]
    BY <2>1, OthersKept, ClientAssumption DEF IInv
  <2> QED BY <1>2, <2>1, <2>2 DEF Greet, PostTask, IInv, ClientInv, PostersAtRest,
             HandlesWhileRunning, ClosedOnLeaving, consoleVars
<1>3. CASE EndHandler
  BY <1>3 DEF EndHandler, poolVars, IInv, ClientInv, PostersAtRest, HandlesWhileRunning,
              ClosedOnLeaving, consoleVars
<1>4. CASE PassChannel
  BY <1>4 DEF PassChannel, AtChannel, poolVars, IInv, ClientInv, PostersAtRest,
              HandlesWhileRunning, ClosedOnLeaving, consoleVars
<1> QED BY <1>1, <1>2, <1>3, <1>4 DEF Handler

LEMMA ConsoleStep ==
  ASSUME IInv, Type \/ Listing
  PROVE  (UNCHANGED poolVars \/ (pool = "open" /\ PostTask(Console))) /\ ClientInv'
<1>1. ASSUME NEW what, SendMsg(what)
      PROVE  pool = "open" /\ PostTask(Console) /\ ClientInv'
  <2>1. pool = "open" /\ PostTask(Console) /\ console = "prompt"
    BY <1>1 DEF SendMsg, Command, CanType, Post, IInv, ClientInv, ClosedOnLeaving
  <2>2. pc'[Io] = pc[Io]
    BY <2>1, OthersKept, ClientAssumption DEF IInv
  <2> QED BY <1>1, <2>1, <2>2 DEF SendMsg, PostTask, IInv, ClientInv, PostersAtRest,
             HandlesWhileRunning, ClosedOnLeaving, ioVars
<1>2. CASE SendMsgWithoutText
  BY <1>2 DEF SendMsgWithoutText, poolVars, ioVars, IInv, ClientInv, PostersAtRest,
              HandlesWhileRunning, ClosedOnLeaving
<1>3. CASE CountGuilds \/ Quit
  BY <1>3 DEF CountGuilds, Quit, Command, CanType, poolVars, ioVars, IInv, ClientInv,
              PostersAtRest, HandlesWhileRunning, ClosedOnLeaving
<1>4. CASE Listing
  BY <1>4 DEF Listing, BeginPrint, PrintGuild, EndPrint, poolVars, ioVars, IInv, ClientInv,
              PostersAtRest, HandlesWhileRunning, ClosedOnLeaving
<1> QED BY <1>1, <1>2, <1>3, <1>4 DEF Type

LEMMA ThreadStep ==
  ASSUME IInv, NEW t \in Threads,
         ((Work(t) \/ WakeUnasked(t)) /\ OnlyPool) \/ Request(t) \/ Answer(t)
             \/ EndTask(t)
  PROVE  [PoolNext]_poolVars /\ ClientInv'
<1>1. CASE Request(t) \/ Answer(t)
  BY <1>1 DEF Request, Answer, poolVars, ioVars, consoleVars, IInv, ClientInv, PostersAtRest,
              HandlesWhileRunning, ClosedOnLeaving
<1>2. CASE ((Work(t) \/ WakeUnasked(t)) /\ OnlyPool) \/ EndTask(t)
  <2>1. (Work(t) \/ WakeUnasked(t) \/ Finish(t)) /\ UNCHANGED <<ioVars, consoleVars>>
    BY <1>2 DEF EndTask, OnlyPool
  <2>2. pool' = pool
    BY <2>1 DEF Work, Take, Sleep, SleepAgain, Leave, WakeUnasked, Finish
  <2>3. pc'[Io] = pc[Io] /\ pc'[Console] = pc[Console]
    BY <2>1, PostersKept, ClientAssumption DEF IInv
  <2> QED BY <2>1, <2>2, <2>3 DEF PoolNext, ioVars, consoleVars, IInv, ClientInv,
             PostersAtRest, HandlesWhileRunning, ClosedOnLeaving
<1> QED BY <1>1, <1>2

LEMMA SignalledStep ==
  ASSUME IInv, NEW x \in Threads \cup Posters, Signal(x) /\ OnlyPool
  PROVE  PoolNext /\ ClientInv'
<1>1. PoolNext /\ UNCHANGED <<ioVars, consoleVars>> /\ pool' = pool
  BY DEF PoolNext, OnlyPool, Signal
<1>2. \A p \in Posters : pc'[p] = "signal" => pc[p] = "signal"
  BY PoolAssumption DEF Signal, IInv, PoolIInv, PoolTypeOK
<1> QED BY <1>1, <1>2, ClientAssumption DEF ioVars, consoleVars, IInv, ClientInv,
           PostersAtRest, HandlesWhileRunning, ClosedOnLeaving

LEMMA EndingStep ==
  ASSUME IInv, RunReturns \/ Ending
  PROVE  [PoolNext]_poolVars /\ ClientInv'
<1>1. CASE RunReturns \/ LeaveMain
  BY <1>1 DEF RunReturns, LeaveMain, poolVars, consoleVars, IInv, ClientInv, PostersAtRest,
              HandlesWhileRunning, ClosedOnLeaving
<1>2. CASE DestroyClient
  <2>1. PICK t \in Threads : TRUE
    BY PoolAssumption
  <2>2. pc'[Io] = pc[Io] /\ pc'[Console] = pc[Console]
    BY <1>2, <2>1, PostersKept, ClientAssumption DEF DestroyClient, IInv
  <2>3. pc[Io] = "idle" /\ pc[Console] = "idle"
    BY <1>2, ClientAssumption DEF DestroyClient, IInv, ClientInv, PostersAtRest, HandlesWhileRunning,
              ClosedOnLeaving, PoolIInv, PoolTypeOK
  <2>4. PoolNext
    BY <1>2, <2>3, ClientAssumption DEF DestroyClient, PoolNext
  <2> QED BY <1>2, <2>2, <2>3, <2>4 DEF DestroyClient, ioVars, consoleVars, IInv, ClientInv,
             PostersAtRest, HandlesWhileRunning, ClosedOnLeaving
<1> QED BY <1>1, <1>2 DEF Ending

LEMMA ClientSteps == IInv /\ [Next]_vars => [PoolNext]_poolVars /\ ClientInv'
<1> SUFFICES ASSUME IInv, [Next]_vars PROVE [PoolNext]_poolVars /\ ClientInv'
  OBVIOUS
<1>1. CASE UNCHANGED vars
  BY <1>1 DEF vars, poolVars, ioVars, consoleVars, IInv, ClientInv, PostersAtRest,
              HandlesWhileRunning, ClosedOnLeaving
<1>2. CASE \E event \in Events : Receive(event)
  BY <1>2, ReceiveStep
<1>3. CASE Handler
  BY <1>3, HandlerStep, ClientAssumption DEF PoolNext
<1>4. CASE Type \/ Listing
  BY <1>4, ConsoleStep, ClientAssumption DEF PoolNext
<1>5. ASSUME NEW t \in Threads,
             ((Work(t) \/ WakeUnasked(t)) /\ OnlyPool) \/ Request(t) \/ Answer(t)
             \/ EndTask(t)
      PROVE  [PoolNext]_poolVars /\ ClientInv'
  BY <1>5, ThreadStep
<1>6. CASE \E x \in Threads \cup Posters : Signal(x) /\ OnlyPool
  BY <1>6, SignalledStep
<1>7. CASE RunReturns \/ Ending
  BY <1>7, EndingStep
<1> QED BY <1>1, <1>2, <1>3, <1>4, <1>5, <1>6, <1>7 DEF Next

LEMMA Inductive == IInv /\ [Next]_vars => IInv'
BY ClientSteps, PoolInductive DEF IInv

-----------------------------------------------------------------------------
(* The pool inside the client behaves as the pool by itself.               *)
THEOREM ClientUsesPool == Spec => PoolSpec
<1>1. Init => PoolInit
  BY DEF Init
<1> QED BY <1>1, Starts, Inductive, ClientSteps, PTL DEF Spec, PoolSpec

(* No wakeup is lost, whoever posts (main.cpp 81, 174, 187).               *)
THEOREM ClientLosesNoWakeup == Spec => []NoLostWakeup
BY ClientUsesPool, NoWakeupIsLost, PTL

(* The pool is open until main leaves (thread_pool.ipp 44-53).             *)
THEOREM PoolStaysOpen == Spec => []OpenWhileClientRuns
<1>1. IInv => OpenWhileClientRuns
  BY DEF IInv, PoolIInv, StoppedByClose, ClientInv, ClosedOnLeaving, OpenWhileClientRuns
<1> QED BY <1>1, Starts, Inductive, PTL DEF Spec

-----------------------------------------------------------------------------
(* The client's pool implements Executor                                   *)

\* A step after which the process lives is one of the pool's promise.
LEMMA PromiseAlive ==
  ASSUME fate = "alive", fate' = "alive", [Promise!Next]_Promise!vars
  PROVE  [Pool!Next]_Pool!vars
<1>1. (~stopped /\ fate = "alive") = ~stopped
      /\ (~stopped /\ fate = "alive")' = (~stopped)'
  OBVIOUS
<1>2. CASE UNCHANGED Promise!vars
  BY <1>1, <1>2, Zenon DEF Promise!vars, Pool!vars
<1>3. CASE Promise!Next
  BY <1>1, <1>3, Zenon DEF Promise!Next, Promise!Post, Promise!Start, Promise!End, Promise!Close,
     Promise!Destroy, Promise!Cardinality, Pool!Next, Pool!Post, Pool!Start, Pool!End,
     Pool!Close, Pool!Destroy, Pool!Cardinality
<1> QED BY <1>2, <1>3

LEMMA FateStep ==
  ASSUME IInv, Next
  PROVE  /\ fate = "alive"
         /\ fate' = "alive" \/ UNCHANGED poolVars \/ (DestroyClient /\ pool' = "gone")
BY DEF Next, Handler, PushGuild, Greet, PassChannel, EndHandler, Receive, Type, SendMsg, SendMsgWithoutText,
       CountGuilds, Quit, Command, Listing, BeginPrint, PrintGuild, EndPrint, OnlyPool, Request, Answer,
       EndTask, RunReturns, Ending, LeaveMain, DestroyClient, Alive, consoleVars, poolVars

LEMMA PoolStep == IInv /\ IInv' /\ [Next]_vars => [Pool!Next]_Pool!vars
<1> SUFFICES ASSUME IInv, IInv', [Next]_vars PROVE [Pool!Next]_Pool!vars
  OBVIOUS
<1>1. CASE UNCHANGED vars
  BY <1>1 DEF vars, poolVars, Pool!vars
<1>2. CASE Next /\ fate' = "alive"
  BY <1>2, FateStep, ClientSteps, PromiseStep, PromiseAlive DEF IInv
<1>3. CASE fate = "alive" /\ fate' /= "alive" /\ UNCHANGED poolVars
  <2>1. CASE stopped
    BY <1>3, <2>1 DEF poolVars, Pool!vars
  <2>2. CASE ~stopped
    <3>1. Pool!Close
      BY <1>3, <2>2 DEF poolVars, Pool!Close
    <3> QED BY <3>1 DEF Pool!Next
  <2> QED BY <2>1, <2>2
<1>4. CASE DestroyClient /\ pool' = "gone"
  <2>1. /\ pool = "joining" /\ pool' = "gone" /\ stopped
        /\ UNCHANGED <<posted, queue, task, stopped>>
        /\ \A t \in Threads : task[t] = NoTask
    BY <1>4 DEF DestroyClient, Close, StopPool, JoinPool, DestroyPool, IInv, PoolIInv,
                StoppedByClose, Occupied
  <2>2. Pool!Destroy
    BY <2>1 DEF Pool!Destroy
  <2> QED BY <2>2 DEF Pool!Next
<1> QED BY <1>1, <1>2, <1>3, <1>4, FateStep

LEMMA PoolBegins == Init => Pool!Init
<1> SUFFICES ASSUME Init PROVE Pool!Init
  OBVIOUS
<1>1. posted - Len(queue) = 0
  <2>1. Len(queue) = 0
    BY EmptySeq DEF Init, PoolInit
  <2>2. posted = 0
    BY DEF Init, PoolInit
  <2> QED BY <2>1, <2>2
<1>2. {task[t] : t \in Threads} \ {NoTask} = {}
  BY DEF Init, PoolInit
<1> QED BY <1>1, <1>2 DEF Init, PoolInit, Pool!Init

(* As long as the process lives, what is posted to the client's pool is    *)
(* started in its order, once, and dropped by a closed pool only: the      *)
(* safety part of ImplementsExecutor (main.cpp 81, 174, 187).              *)
THEOREM ClientImplements == Spec => Pool!Spec
BY Starts, Inductive, PoolBegins, PoolStep, PTL DEF Spec, Pool!Spec

-----------------------------------------------------------------------------
(* The types of what the client keeps                                      *)

Names ==
  {Guild(event.doc).name : event \in Events}
    \cup {ReadyPacket(event.doc).guilds[i].name : event \in Events, i \in Nat}

Todo == {<<"push", name>> : name \in Names} \cup {<<"channel", i>> : i \in Nat}

\* The channels to come are those of a GUILD_CREATE.
TodoTyped ==
  /\ todo \in Seq(Todo)
  /\ \A i \in DOMAIN todo : todo[i][1] = "channel" => loaded.class = "GUILD_CREATE"

\* Nothing is ever taken off the guild list, so the iterator's end stays in it.
ListTyped ==
  /\ guilds \in Seq(Names) /\ room \in Nat
  /\ listing \in [at : Nat, end : Nat, of : Nat]
  /\ listing.end <= Len(guilds) + 1
  /\ shown \in Seq(Names \cup {Garbage})
  /\ Len(shown) < listing.at

TypedInv == TypeOK /\ TodoTyped /\ ListTyped

LEMMA ReadyGuilds ==
  ASSUME NEW doc
  PROVE  ReadyPacket(doc).guilds =
           IF Has(doc, "guilds", "array")
           THEN [i \in DOMAIN doc.guilds.val |-> Guild(Members(doc.guilds.val[i]))] ELSE <<>>
BY DEF ReadyPacket, With, List, Flat, ReadyFields

LEMMA GuildChannels ==
  ASSUME NEW doc
  PROVE  Guild(doc).channels =
           IF Has(doc, "channels", "array")
           THEN [i \in DOMAIN doc.channels.val |-> Channel(Members(doc.channels.val[i]))] ELSE <<>>
BY DEF Guild, With, List, Flat, GuildFields

LEMMA ChannelPlaces ==
  ASSUME NEW event \in Events
  PROVE  \E n \in Nat : DOMAIN Guild(event.doc).channels = 1..n
<1> DEFINE doc == event.doc
           cs == Guild(doc).channels
<1>1. CASE Has(doc, "channels", "array")
  <2>1. "channels" \in DOMAIN doc /\ Array(doc, "channels")
    BY <1>1, ClientAssumption DEF Has
  <2>2. Len(doc.channels.val) \in Nat /\ DOMAIN doc.channels.val = 1..Len(doc.channels.val)
    BY <2>1 DEF Array
  <2>3. DOMAIN cs = DOMAIN doc.channels.val
    BY <1>1, GuildChannels
  <2> QED BY <2>2, <2>3
<1>2. CASE ~Has(doc, "channels", "array")
  <2>1. cs = <<>>
    BY <1>2, GuildChannels
  <2> HIDE DEF cs
  <2>2. DOMAIN cs = 1..0
    BY <2>1
  <2> QED BY <2>2 DEF cs
<1> QED BY <1>1, <1>2

LEMMA ToDoTyped ==
  ASSUME NEW event \in Events
  PROVE  /\ ToDo(event.name, Load(event)) \in Seq(Todo)
         /\ \A i \in DOMAIN ToDo(event.name, Load(event)) :
              ToDo(event.name, Load(event))[i][1] = "channel" => event.name = "GUILD_CREATE"
<1> DEFINE doc == event.doc
<1>1. CASE event.name = "READY"
  <2> DEFINE gs == ReadyPacket(doc).guilds
  <2>1. PICK n \in Nat : DOMAIN gs = 1..n
    <3>1. CASE Has(doc, "guilds", "array")
      <4>1. "guilds" \in DOMAIN doc /\ Array(doc, "guilds")
        BY <3>1, ClientAssumption DEF Has
      <4>2. Len(doc.guilds.val) \in Nat /\ DOMAIN doc.guilds.val = 1..Len(doc.guilds.val)
        BY <4>1 DEF Array
      <4>3. DOMAIN gs = DOMAIN doc.guilds.val
        BY <3>1, ReadyGuilds
      <4> QED BY <4>2, <4>3
    <3>2. CASE ~Has(doc, "guilds", "array")
      <4>1. gs = <<>>
        BY <3>2, ReadyGuilds
      <4> HIDE DEF gs
      <4>2. DOMAIN gs = 1..0
        BY <4>1
      <4> QED BY <4>2
    <3> QED BY <3>1, <3>2
  <2>2. \A i \in 1..n : <<"push", gs[i].name>> \in Todo
    BY DEF Todo, Names
  <2>3. ToDo(event.name, Load(event)) = [i \in 1..n |-> <<"push", gs[i].name>>]
    BY <1>1, <2>1 DEF ToDo, Load
  <2> HIDE DEF gs
  <2> QED BY <1>1, <2>2, <2>3
<1>2. CASE event.name = "GUILD_CREATE"
  <2> DEFINE cs == Guild(doc).channels
  <2>1. PICK n \in Nat : DOMAIN cs = 1..n
    BY ChannelPlaces
  <2> DEFINE push == <<<<"push", Guild(doc).name>>>>
             rest == [i \in 1..n |-> <<"channel", i>>]
  <2>2. push \in Seq(Todo) /\ rest \in Seq(Todo)
    BY DEF Todo, Names
  <2>3. ToDo(event.name, Load(event)) = push \o rest
    BY <1>2, <2>1 DEF ToDo, Load
  <2> HIDE DEF cs, push, rest
  <2> QED BY <1>2, <2>2, <2>3, ConcatProperties
<1>3. CASE event.name \notin {"READY", "GUILD_CREATE"}
  <2>1. ToDo(event.name, Load(event)) = <<>>
    BY <1>3 DEF ToDo
  <2> HIDE DEF doc
  <2> QED BY <2>1, EmptySeq
<1> QED BY <1>1, <1>2, <1>3

LEMMA TypedStarts == Init => TypedInv
<1> SUFFICES ASSUME Init PROVE TypedInv
  OBVIOUS
<1>1. PoolTypeOK
  BY Starts DEF IInv, PoolIInv
<1>2. todo = <<>> /\ guilds = <<>> /\ shown = <<>> /\ kind = <<>> /\ greeted = {}
  BY DEF Init
<1>3. listing = [at |-> 1, end |-> 1, of |-> 0] /\ room = 0 /\ moved = 0 /\ found = 0
  BY DEF Init
<1>4. posted = 0
  BY DEF Init, PoolInit
<1>5. TodoTyped /\ ListTyped
  BY <1>2, <1>3, EmptySeq DEF TodoTyped, ListTyped
<1>6. TypeOK
  BY <1>1, <1>2, <1>3, <1>4, EmptySeq, ClientAssumption DEF Init, TypeOK, NoEvent, Stage
<1> QED BY <1>5, <1>6 DEF TypedInv

LEMMA ReceiveTyped ==
  ASSUME IInv', TypedInv, NEW event \in Events, Receive(event) PROVE TypedInv'
<1>1. PoolTypeOK'
  BY DEF IInv, PoolIInv
<1>2. UNCHANGED <<poolVars, main, greeted, guilds, room, moved, consoleVars, taskVars>>
  BY DEF Receive
<1>3. ListTyped'
  BY <1>2 DEF TypedInv, ListTyped, consoleVars
<1>4. loaded.class = "none" /\ greeted = {} /\ events' \in 0..MaxEvents
  BY ClientAssumption DEF Receive, NoEvent, TypedInv, TypeOK
<1>5. TodoTyped' /\ DOMAIN loaded' = DOMAIN NoEvent /\ fate' \in {"alive", "terminated"}
  <2>1. CASE LoadAborts(event)
    BY <2>1 DEF Receive, Alive, TypedInv, TodoTyped, TypeOK
  <2>2. CASE ~LoadAborts(event)
    <3>1. loaded' = [class |-> event.name, doc |-> event.doc, struct |-> Load(event)]
          /\ todo' = ToDo(event.name, Load(event)) /\ fate' = "alive"
      BY <2>2 DEF Receive, Alive
    <3> QED BY <3>1, ToDoTyped DEF TodoTyped, NoEvent
  <2> QED BY <2>1, <2>2
<1>6. \A i \in DOMAIN todo' : todo'[i][1] \in {"push", "channel"}
  BY <1>5 DEF TodoTyped, Todo
<1>7. TypeOK'
  BY <1>1, <1>2, <1>4, <1>5, <1>6 DEF TypedInv, TypeOK, consoleVars, taskVars, poolVars
<1> QED BY <1>3, <1>5, <1>7 DEF TypedInv

LEMMA PopTodo ==
  ASSUME NEW q \in Seq(Todo), q /= <<>>
  PROVE  /\ Tail(q) \in Seq(Todo) /\ q[1] \in Todo
         /\ \A i \in DOMAIN Tail(q) : i + 1 \in DOMAIN q /\ Tail(q)[i] = q[i + 1]
         /\ \A i \in DOMAIN q : i = 1 \/ (i - 1 \in DOMAIN Tail(q) /\ Tail(q)[i - 1] = q[i])
<1>1. Len(q) \in Nat \ {0} /\ DOMAIN q = 1..Len(q)
  BY EmptySeq, LenProperties
<1>2. /\ Tail(q) \in Seq(Todo) /\ Len(Tail(q)) = Len(q) - 1
      /\ \A i \in 1..Len(q) - 1 : Tail(q)[i] = q[i + 1]
  BY HeadTailProperties
<1>3. DOMAIN Tail(q) = 1..Len(q) - 1
  BY <1>1, <1>2, LenProperties
<1>4. q[1] \in Todo
  BY <1>1, ElementOfSeq
<1>5. \A i \in DOMAIN Tail(q) : i + 1 \in DOMAIN q /\ Tail(q)[i] = q[i + 1]
  BY <1>1, <1>2, <1>3
<1>6. \A i \in DOMAIN q : i = 1 \/ (i - 1 \in DOMAIN Tail(q) /\ Tail(q)[i - 1] = q[i])
  <2> SUFFICES ASSUME NEW i \in DOMAIN q, i /= 1
               PROVE  i - 1 \in DOMAIN Tail(q) /\ Tail(q)[i - 1] = q[i]
    OBVIOUS
  <2>1. i - 1 \in 1..Len(q) - 1 /\ (i - 1) + 1 = i
    BY <1>1
  <2> QED BY <1>2, <1>3, <2>1
<1> QED BY <1>2, <1>4, <1>5, <1>6

\* What a post by p adds to the types.
LEMMA PostTyped ==
  ASSUME IInv', TypedInv, NEW p, NEW what \in {"send", "delay", "greet"}, Post(p, what)
  PROVE  /\ kind' \in Seq({"send", "delay", "greet"}) /\ Len(kind') = posted'
         /\ stage' \in [Threads -> Stage]
<1>1. kind \in Seq({"send", "delay", "greet"}) /\ Len(kind) = posted /\ posted \in Nat
  BY DEF TypedInv, TypeOK, PoolTypeOK
<1>2. kind' = Append(kind, what) /\ posted' = posted + 1 /\ stage' = stage
  BY DEF Post, PostTask
<1> QED BY <1>1, <1>2, AppendProperties DEF TypedInv, TypeOK

LEMMA HandlerTyped ==
  ASSUME IInv', TypedInv, Handler PROVE TypedInv'
<1>1. PoolTypeOK'
  BY DEF IInv, PoolIInv
<1>2. /\ todo \in Seq(Todo) /\ guilds \in Seq(Names) /\ room \in Nat /\ moved \in Nat
      /\ listing \in [at : Nat, end : Nat, of : Nat]
      /\ listing.end <= Len(guilds) + 1 /\ Len(guilds) \in Nat /\ Len(guilds) <= room
      /\ listing.of <= moved /\ listing.end <= room + 1
  BY LenProperties DEF TypedInv, TypeOK, TodoTyped, ListTyped
<1>3. CASE PushGuild
  <2>1. /\ todo /= <<>> /\ todo[1][1] = "push" /\ todo' = Tail(todo)
        /\ guilds' = Append(guilds, todo[1][2])
        /\ UNCHANGED <<poolVars, fate, main, events, loaded, greeted, consoleVars, taskVars>>
    BY <1>3 DEF PushGuild
  <2>2. todo[1][2] \in Names
    <3>1. todo[1] \in Todo
      BY <1>2, <2>1, PopTodo
    <3> QED BY <2>1, <3>1 DEF Todo
  <2>3. guilds' \in Seq(Names) /\ Len(guilds') = Len(guilds) + 1
    BY <1>2, <2>1, <2>2, AppendProperties
  <2>4. /\ room' \in Nat /\ moved' \in Nat /\ Len(guilds') <= room' /\ room <= room'
        /\ moved <= moved'
    <3>1. CASE Len(guilds) = room
      <4>1. room' = (IF room = 0 THEN 1 ELSE 2 * room) /\ moved' = moved + 1
        BY <1>3, <3>1 DEF PushGuild
      <4> QED BY <1>2, <2>3, <3>1, <4>1
    <3>2. CASE Len(guilds) /= room
      <4>1. room' = room /\ moved' = moved
        BY <1>3, <3>2 DEF PushGuild
      <4> QED BY <1>2, <2>3, <3>2, <4>1
    <3> QED BY <3>1, <3>2
  <2>5. TodoTyped'
    <3>1. /\ Tail(todo) \in Seq(Todo)
          /\ \A i \in DOMAIN Tail(todo) : i + 1 \in DOMAIN todo /\ Tail(todo)[i] = todo[i + 1]
      BY <1>2, <2>1, PopTodo
    <3> QED BY <2>1, <3>1 DEF TodoTyped, TypedInv
  <2>6. ListTyped'
    BY <1>2, <2>1, <2>3, <2>4 DEF TypedInv, ListTyped, consoleVars
  <2>7. \A i \in DOMAIN todo' : todo'[i][1] \in {"push", "channel"}
    BY <2>5 DEF TodoTyped, Todo
  <2>8. listing.end <= room' + 1 /\ listing.of <= moved'
    <3>1. listing.end \in Nat /\ listing.of \in Nat
      BY <1>2
    <3> QED BY <1>2, <2>4, <3>1
  <2>9. TypeOK'
    BY <1>1, <1>2, <2>1, <2>4, <2>7, <2>8 DEF TypedInv, TypeOK, consoleVars, taskVars, poolVars
  <2> QED BY <2>5, <2>6, <2>9 DEF TypedInv
<1>4. CASE Greet \/ PassChannel
  <2>1. /\ todo /= <<>> /\ todo[1][1] = "channel" /\ todo' = Tail(todo)
        /\ UNCHANGED <<fate, main, events, loaded, guilds, room, moved, consoleVars>>
    BY <1>4 DEF Greet, PassChannel, AtChannel
  <2>2. loaded.class = "GUILD_CREATE"
    <3>1. 1 \in DOMAIN todo
      BY <1>2, <2>1
    <3> QED BY <2>1, <3>1 DEF TypedInv, TodoTyped
  <2>3. TodoTyped'
    <3>1. /\ Tail(todo) \in Seq(Todo)
          /\ \A i \in DOMAIN Tail(todo) : i + 1 \in DOMAIN todo /\ Tail(todo)[i] = todo[i + 1]
      BY <1>2, <2>1, PopTodo
    <3> QED BY <2>1, <3>1 DEF TodoTyped, TypedInv
  <2>4. ListTyped'
    BY <2>1 DEF TypedInv, ListTyped, consoleVars
  <2>5. \A i \in DOMAIN todo' : todo'[i][1] \in {"push", "channel"}
    BY <2>3 DEF TodoTyped, Todo
  <2>6. /\ kind' \in Seq({"send", "delay", "greet"}) /\ Len(kind') = posted'
        /\ stage' \in [Threads -> Stage]
    <3>1. CASE Greet
      BY <3>1, PostTyped DEF Greet
    <3>2. CASE PassChannel
      BY <3>2 DEF PassChannel, TypedInv, TypeOK, taskVars, poolVars
    <3> QED BY <1>4, <3>1, <3>2
  <2>7. TypeOK'
    BY <1>1, <2>1, <2>2, <2>5, <2>6 DEF TypedInv, TypeOK, consoleVars
  <2> QED BY <2>3, <2>4, <2>7 DEF TypedInv
<1>5. CASE EndHandler
  <2>1. /\ todo = <<>> /\ todo' = todo /\ loaded' = NoEvent /\ greeted' = {}
        /\ UNCHANGED <<poolVars, fate, main, events, guilds, room, moved, consoleVars, taskVars>>
    BY <1>5 DEF EndHandler
  <2>2. TodoTyped'
    BY <1>2, <2>1 DEF TodoTyped
  <2>3. ListTyped'
    BY <2>1 DEF TypedInv, ListTyped, consoleVars
  <2>4. TypeOK'
    BY <1>1, <2>1 DEF TypedInv, TypeOK, consoleVars, taskVars, poolVars
  <2> QED BY <2>2, <2>3, <2>4 DEF TypedInv
<1> QED BY <1>3, <1>4, <1>5 DEF Handler

LEMMA ConsoleTyped ==
  ASSUME IInv', TypedInv, Type \/ Listing PROVE TypedInv'
<1>1. PoolTypeOK'
  BY DEF IInv, PoolIInv
<1>2. /\ listing \in [at : Nat, end : Nat, of : Nat] /\ listing.end <= Len(guilds) + 1
      /\ guilds \in Seq(Names) /\ Len(guilds) \in Nat /\ DOMAIN guilds = 1..Len(guilds)
      /\ Len(guilds) <= room /\ room \in Nat /\ moved \in Nat
      /\ shown \in Seq(Names \cup {Garbage}) /\ Len(shown) \in Nat /\ Len(shown) < listing.at
      /\ listing.at \in 1..listing.end /\ listing.end <= room + 1 /\ listing.of <= moved
  BY LenProperties DEF TypedInv, TypeOK, ListTyped
<1>3. ASSUME NEW what \in {"send", "delay"}, SendMsg(what) PROVE TypedInv'
  <2>1. /\ UNCHANGED <<fate, ioVars, console, found, listing, shown>> /\ Post(Console, what)
        /\ commands < MaxCommands /\ commands' = commands + 1
    BY <1>3 DEF SendMsg, Command
  <2>2. /\ kind' \in Seq({"send", "delay", "greet"}) /\ Len(kind') = posted'
        /\ stage' \in [Threads -> Stage]
    BY <2>1, PostTyped
  <2>3. TodoTyped' /\ ListTyped'
    BY <2>1 DEF TypedInv, TodoTyped, ListTyped, ioVars
  <2>4. commands' \in 0..MaxCommands
    BY <2>1, ClientAssumption DEF TypedInv, TypeOK
  <2>5. TypeOK'
    BY <1>1, <2>1, <2>2, <2>4 DEF TypedInv, TypeOK, ioVars
  <2> QED BY <2>3, <2>5 DEF TypedInv
<1>4. CASE SendMsgWithoutText
  <2>1. /\ UNCHANGED <<poolVars, ioVars, console, found, listing, shown, taskVars>>
        /\ commands < MaxCommands /\ commands' = commands + 1 /\ fate' = "terminated"
    BY <1>4 DEF SendMsgWithoutText, Command
  <2>2. TodoTyped' /\ ListTyped'
    BY <2>1 DEF TypedInv, TodoTyped, ListTyped, ioVars
  <2>3. commands' \in 0..MaxCommands
    BY <2>1, ClientAssumption DEF TypedInv, TypeOK
  <2>4. TypeOK'
    BY <1>1, <2>1, <2>3 DEF TypedInv, TypeOK, ioVars, taskVars, poolVars
  <2> QED BY <2>2, <2>4 DEF TypedInv
<1>5. CASE CountGuilds
  <2>1. /\ UNCHANGED <<poolVars, fate, ioVars, listing, shown, taskVars>>
        /\ commands < MaxCommands /\ commands' = commands + 1
        /\ found' = Len(guilds) /\ console' = "count"
    BY <1>5 DEF CountGuilds, Command
  <2>2. TodoTyped' /\ ListTyped'
    BY <2>1 DEF TypedInv, TodoTyped, ListTyped, ioVars
  <2>3. commands' \in 0..MaxCommands
    BY <2>1, ClientAssumption DEF TypedInv, TypeOK
  <2>4. TypeOK'
    BY <1>1, <1>2, <2>1, <2>3 DEF TypedInv, TypeOK, ioVars, taskVars, poolVars
  <2> QED BY <2>2, <2>4 DEF TypedInv
<1>6. CASE Quit \/ EndPrint
  <2>1. /\ UNCHANGED <<poolVars, fate, ioVars, found, listing, shown, commands, taskVars>>
        /\ console' \in {"ended", "prompt"}
    BY <1>6 DEF Quit, EndPrint
  <2>2. TodoTyped' /\ ListTyped'
    BY <2>1 DEF TypedInv, TodoTyped, ListTyped, ioVars
  <2>3. TypeOK'
    BY <1>1, <2>1 DEF TypedInv, TypeOK, ioVars, taskVars, poolVars
  <2> QED BY <2>2, <2>3 DEF TypedInv
<1>7. CASE BeginPrint
  <2>1. /\ UNCHANGED <<poolVars, fate, ioVars, found, commands, taskVars>>
        /\ listing' = [at |-> 1, end |-> Len(guilds) + 1, of |-> moved]
        /\ shown' = <<>> /\ console' = "print"
    BY <1>7 DEF BeginPrint
  <2>2. Len(shown') = 0 /\ shown' \in Seq(Names \cup {Garbage})
    BY <2>1
  <2>3. /\ listing' \in [at : Nat, end : Nat, of : Nat]
        /\ listing'.at = 1 /\ listing'.end = Len(guilds) + 1 /\ listing'.of = moved
    BY <1>2, <2>1
  <2>4. TodoTyped' /\ ListTyped'
    BY <1>2, <2>1, <2>2, <2>3 DEF TypedInv, TodoTyped, ListTyped, ioVars
  <2>5. TypeOK'
    BY <1>1, <1>2, <2>1, <2>2, <2>3 DEF TypedInv, TypeOK, ioVars, taskVars, poolVars
  <2> QED BY <2>4, <2>5 DEF TypedInv
<1>8. CASE PrintGuild
  <2>1. /\ UNCHANGED <<poolVars, ioVars, console, found, commands, taskVars>>
        /\ listing.at < listing.end
        /\ listing' = [listing EXCEPT !.at = @ + 1]
        /\ fate' \in {"alive", "undefined"}
        /\ \/ listing.of = moved /\ shown' = Append(shown, guilds[listing.at])
           \/ shown' = Append(shown, Garbage)
    BY <1>8 DEF PrintGuild, Alive
  <2>2. /\ listing' \in [at : Nat, end : Nat, of : Nat]
        /\ listing'.at = listing.at + 1 /\ listing'.end = listing.end /\ listing'.of = listing.of
    <3>1. listing \in [at : Nat, end : Nat, of : Nat]
      BY <1>2
    <3>2. listing.at \in Nat /\ listing.at + 1 \in Nat
      BY <3>1
    <3>3. listing' = [listing EXCEPT !.at = @ + 1]
      BY <2>1
    <3> QED BY <3>1, <3>2, <3>3
  <2>3. \E x \in Names \cup {Garbage} : shown' = Append(shown, x)
    <3>1. listing.at \in 1..Len(guilds)
      BY <1>2, <2>1
    <3>2. guilds[listing.at] \in Names
      BY <1>2, <3>1, ElementOfSeq
    <3> QED BY <2>1, <3>2
  <2>4. shown' \in Seq(Names \cup {Garbage}) /\ Len(shown') = Len(shown) + 1
    BY <1>2, <2>3, AppendProperties
  <2>5. /\ listing'.at \in 1..listing'.end /\ Len(shown') < listing'.at
        /\ Len(shown') <= listing'.end
    <3>1. listing.at \in Nat /\ listing.end \in Nat
      BY <1>2
    <3> QED BY <1>2, <2>1, <2>2, <2>4, <3>1
  <2>6. TodoTyped' /\ ListTyped'
    BY <1>2, <2>1, <2>2, <2>4, <2>5 DEF TypedInv, TodoTyped, ListTyped, ioVars
  <2>7. TypeOK'
    BY <1>1, <1>2, <2>1, <2>2, <2>5 DEF TypedInv, TypeOK, ioVars, taskVars, poolVars
  <2> QED BY <2>6, <2>7 DEF TypedInv
<1> QED BY <1>3, <1>4, <1>5, <1>6, <1>7, <1>8 DEF Type, Listing

LEMMA PoolTyped ==
  ASSUME IInv', TypedInv, posted' = posted, UNCHANGED <<consoleVars, kind>>,
         UNCHANGED <<events, loaded, todo, greeted, guilds, room, moved>>,
         main' \in {"run", "join", "leave"},
         fate' \in {"alive", "undefined", "exited"},
         stage' \in [Threads -> Stage]
  PROVE  TypedInv'
<1>1. PoolTypeOK'
  BY DEF IInv, PoolIInv
<1>2. TodoTyped' /\ ListTyped'
  BY DEF TypedInv, TodoTyped, ListTyped, consoleVars
<1>3. TypeOK'
  BY <1>1 DEF TypedInv, TypeOK, consoleVars
<1> QED BY <1>2, <1>3 DEF TypedInv

LEMMA TypedInductive == IInv /\ TypedInv /\ [Next]_vars => TypedInv'
<1> SUFFICES ASSUME IInv, TypedInv, [Next]_vars PROVE TypedInv'
  OBVIOUS
<1>1. IInv'
  BY Inductive
<1>2. stage \in [Threads -> Stage] /\ fate \in {"alive", "undefined", "terminated", "exited"}
      /\ main \in {"run", "join", "leave"}
  BY DEF TypedInv, TypeOK
<1>3. CASE UNCHANGED vars
  <2>1. PoolTypeOK'
    BY <1>1 DEF IInv, PoolIInv
  <2> QED BY <1>3, <2>1 DEF vars, poolVars, ioVars, consoleVars, taskVars, TypedInv, TypeOK,
             TodoTyped, ListTyped
<1>4. CASE \E event \in Events : Receive(event)
  BY <1>1, <1>4, ReceiveTyped
<1>5. CASE Handler
  BY <1>1, <1>5, HandlerTyped
<1>6. CASE Type \/ Listing
  BY <1>1, <1>6, ConsoleTyped
<1>7. ASSUME NEW t \in Threads, (Work(t) \/ WakeUnasked(t)) /\ OnlyPool PROVE TypedInv'
  <2>1. posted' = posted
    BY <1>7 DEF Work, Take, Sleep, SleepAgain, Leave, WakeUnasked
  <2> QED BY <1>1, <1>2, <1>7, <2>1, PoolTyped DEF OnlyPool, Alive, ioVars, taskVars
<1>8. ASSUME NEW t \in Threads, Request(t) \/ Answer(t) PROVE TypedInv'
  <2>1. fate' \in {"alive", "undefined"}
    BY <1>8 DEF Request, Answer, Alive
  <2>2. {"typing", "typed", "sending", "sent"} \subseteq Stage
    BY DEF Stage
  <2>3. stage' \in [Threads -> Stage]
    BY <1>2, <1>8, <2>2 DEF Request, Answer
  <2> QED BY <1>1, <1>2, <1>8, <2>1, <2>3, PoolTyped DEF Request, Answer, ioVars, poolVars
<1>9. ASSUME NEW t \in Threads, EndTask(t) PROVE TypedInv'
  <2>1. stage' \in [Threads -> Stage] /\ fate' = "alive" /\ posted' = posted
    BY <1>2, <1>9 DEF EndTask, Finish, Alive, Stage
  <2> QED BY <1>1, <1>2, <1>9, <2>1, PoolTyped DEF EndTask, ioVars
<1>10. ASSUME NEW x \in Threads \cup Posters, Signal(x) /\ OnlyPool PROVE TypedInv'
  BY <1>1, <1>2, <1>10, PoolTyped DEF Signal, OnlyPool, Alive, ioVars, taskVars
<1>11. CASE RunReturns \/ LeaveMain
  BY <1>1, <1>2, <1>11, PoolTyped DEF RunReturns, LeaveMain, Alive, taskVars, poolVars
<1>12. CASE DestroyClient
  <2>1. posted' = posted
    BY <1>12 DEF DestroyClient, Close, StopPool, JoinPool, DestroyPool, WorkFinished
  <2> QED BY <1>1, <1>2, <1>12, <2>1, PoolTyped DEF DestroyClient, Alive, ioVars, taskVars
<1> QED BY <1>3, <1>4, <1>5, <1>6, <1>7, <1>8, <1>9, <1>10, <1>11, <1>12 DEF Next, Ending

(* Every variable of the client has its type: the guild list is never      *)
(* longer than its vector, the iterator of guilds stays within the vector  *)
(* it was made for, and each task has a kind.                              *)
THEOREM ClientTypeCorrect == Spec => []TypeOK
<1>1. TypedInv => TypeOK
  BY DEF TypedInv
<1> QED BY <1>1, Starts, Inductive, TypedStarts, TypedInductive, PTL DEF Spec

-----------------------------------------------------------------------------
(* What is loaded is what was sent.  The documents are those for which the *)
(* structs can agree (EventsFit, as Serializers says); what the proof      *)
(* shows is that the fields of no struct are mixed up, at any depth, and   *)
(* that a handler works on the struct of one event from end to end.        *)

EventsFit == \A event \in Events : EventFits(event.name, event.doc)

LEMMA FlatSays ==
  ASSUME NEW fields, NEW doc, Fits(fields, doc),
         NEW m \in DOMAIN fields \cap DOMAIN doc, doc[m].is /= "null"
  PROVE  Flat(fields, doc)[m] = doc[m].val
<1>1. /\ doc[m].is = Asked(fields[m])
      /\ fields[m] = "uint8" => doc[m].val \in 0..255
  BY DEF Fits
<1>2. Has(doc, m, Asked(fields[m]))
  BY <1>1 DEF Has
<1>3. Converted(fields[m], doc[m].val) = doc[m].val
  <2>1. ASSUME NEW n \in 0..255 PROVE n % 256 = n
    OBVIOUS
  <2> QED BY <1>1, <2>1 DEF Converted
<1> QED BY <1>2, <1>3 DEF Flat

LEMMA FlatFits ==
  ASSUME NEW fields, NEW doc, Fits(fields, doc)
  PROVE  FlatAgrees(Flat(fields, doc), doc)
<1> SUFFICES ASSUME NEW m \in DOMAIN fields \cap DOMAIN doc, doc[m].is \in Scalar
             PROVE  Flat(fields, doc)[m] = doc[m].val
  BY DEF FlatAgrees, Flat
<1>1. doc[m].is /= "null"
  BY DEF Scalar
<1> QED BY <1>1, FlatSays

\* The other members of the struct are no scalars of the document.
LEMMA WithFits ==
  ASSUME NEW fields, NEW doc, NEW g, Fits(fields, doc), NotScalar(doc, DOMAIN g)
  PROVE  FlatAgrees(With(Flat(fields, doc), g), doc)
<1> DEFINE x == With(Flat(fields, doc), g)
<1>1. DOMAIN Flat(fields, doc) = DOMAIN fields
  BY DEF Flat
<1>2. DOMAIN x = DOMAIN fields \cup DOMAIN g
  BY <1>1 DEF With
<1> SUFFICES ASSUME NEW m \in DOMAIN x \cap DOMAIN doc, doc[m].is \in Scalar
             PROVE  x[m] = doc[m].val
  BY DEF FlatAgrees
<1>3. m \in DOMAIN fields
  BY <1>2 DEF NotScalar
<1>4. x[m] = Flat(fields, doc)[m]
  BY <1>1, <1>3 DEF With
<1>5. doc[m].is /= "null"
  BY DEF Scalar
<1> QED BY <1>3, <1>4, <1>5, FlatSays

LEMMA WithOther ==
  ASSUME NEW fields, NEW doc, NEW g, NEW m \in DOMAIN g, m \notin DOMAIN fields
  PROVE  With(Flat(fields, doc), g)[m] = g[m]
BY DEF With, Flat

LEMMA Seen ==
  ASSUME NEW value, value.is = "object"
  PROVE  Members(value) = value.val
BY DEF Members

LEMMA UserSays == ASSUME NEW doc, UserFits(doc) PROVE FlatAgrees(User(doc), doc)
BY FlatFits DEF UserFits, User

LEMMA RoleSays == ASSUME NEW doc, RoleFits(doc) PROVE FlatAgrees(Role(doc), doc)
BY FlatFits DEF RoleFits, Role

LEMMA EmojiSays == ASSUME NEW doc, EmojiFits(doc) PROVE FlatAgrees(Emoji(doc), doc)
BY FlatFits DEF EmojiFits, Emoji

LEMMA ChannelSays == ASSUME NEW doc, ChannelFits(doc) PROVE FlatAgrees(Channel(doc), doc)
<1> DEFINE g == [recipients |-> List(doc, "recipients", User)]
<1>1. Fits(ChannelFields, doc) /\ NotScalar(doc, DOMAIN g)
  BY DEF ChannelFits
<1>2. Channel(doc) = With(Flat(ChannelFields, doc), g)
  BY DEF Channel
<1> HIDE DEF g
<1> QED BY <1>1, <1>2, WithFits

LEMMA MemberSays == ASSUME NEW doc, MemberFits(doc) PROVE MemberAgrees(Member(doc), doc)
<1> DEFINE roles == IF Has(doc, "roles", "array")
                    THEN [i \in DOMAIN doc.roles.val |-> doc.roles.val[i].val] ELSE <<>>
           g == [user |-> Inner(doc, "user", User), roles |-> roles]
<1>1. /\ "user" \in DOMAIN doc => doc.user.is = "object" /\ UserFits(doc.user.val)
      /\ Array(doc, "roles") /\ Fits(MemberFields, doc)
  BY DEF MemberFits, ObjectFits
<1>2. NotScalar(doc, {"user", "roles"})
  BY <1>1 DEF NotScalar, Array, Scalar
<1>3. Member(doc) = With(Flat(MemberFields, doc), g)
  BY DEF Member
<1>4. g.user = Inner(doc, "user", User) /\ g.roles = roles /\ DOMAIN g = {"user", "roles"}
  OBVIOUS
<1>5. "user" \notin DOMAIN MemberFields /\ "roles" \notin DOMAIN MemberFields
  BY DEF MemberFields
<1>6. AllAgree(roles, doc, "roles", Same)
  BY <1>1 DEF AllAgree, Same, Array, Has
<1> HIDE DEF g, roles
<1>7. FlatAgrees(Member(doc), doc)
  BY <1>1, <1>2, <1>3, <1>4, WithFits
<1>8. Member(doc).user = Inner(doc, "user", User) /\ Member(doc).roles = roles
  BY <1>3, <1>4, <1>5, WithOther
<1>9. InnerAgrees(Inner(doc, "user", User), doc, "user", FlatAgrees)
  BY <1>1, UserSays DEF InnerAgrees, Inner, Has
<1> QED BY <1>6, <1>7, <1>8, <1>9 DEF MemberAgrees

LEMMA RolesSay ==
  ASSUME NEW doc, ArrayFits(doc, "roles", RoleFits)
  PROVE  AllAgree(List(doc, "roles", Role), doc, "roles", FlatAgrees)
<1> SUFFICES ASSUME "roles" \in DOMAIN doc
             PROVE  /\ Len(List(doc, "roles", Role)) = Len(doc.roles.val)
                    /\ \A i \in DOMAIN List(doc, "roles", Role) :
                         FlatAgrees(List(doc, "roles", Role)[i], doc.roles.val[i].val)
  BY DEF AllAgree
<1> DEFINE s == doc.roles.val
<1>1. /\ Has(doc, "roles", "array") /\ Len(s) \in Nat /\ DOMAIN s = 1..Len(s)
      /\ \A i \in DOMAIN s : s[i].is = "object" /\ RoleFits(s[i].val)
  BY DEF ArrayFits, Array, Has
<1>2. List(doc, "roles", Role) = [i \in 1..Len(s) |-> Role(Members(s[i]))]
  BY <1>1 DEF List
<1>3. \A i \in 1..Len(s) : FlatAgrees(Role(Members(s[i])), s[i].val)
  BY <1>1, Seen, RoleSays
<1> HIDE DEF s
<1>4. Len(List(doc, "roles", Role)) = Len(s)
  BY <1>1, <1>2
<1>5. \A i \in DOMAIN List(doc, "roles", Role) : FlatAgrees(List(doc, "roles", Role)[i], s[i].val)
  BY <1>2, <1>3
<1> QED BY <1>4, <1>5 DEF s

LEMMA MembersSay ==
  ASSUME NEW doc, ArrayFits(doc, "members", MemberFits)
  PROVE  AllAgree(List(doc, "members", Member), doc, "members", MemberAgrees)
<1> SUFFICES ASSUME "members" \in DOMAIN doc
             PROVE  /\ Len(List(doc, "members", Member)) = Len(doc.members.val)
                    /\ \A i \in DOMAIN List(doc, "members", Member) :
                         MemberAgrees(List(doc, "members", Member)[i], doc.members.val[i].val)
  BY DEF AllAgree
<1> DEFINE s == doc.members.val
<1>1. /\ Has(doc, "members", "array") /\ Len(s) \in Nat /\ DOMAIN s = 1..Len(s)
      /\ \A i \in DOMAIN s : s[i].is = "object" /\ MemberFits(s[i].val)
  BY DEF ArrayFits, Array, Has
<1>2. List(doc, "members", Member) = [i \in 1..Len(s) |-> Member(Members(s[i]))]
  BY <1>1 DEF List
<1>3. \A i \in 1..Len(s) : MemberAgrees(Member(Members(s[i])), s[i].val)
  BY <1>1, Seen, MemberSays
<1> HIDE DEF s
<1>4. Len(List(doc, "members", Member)) = Len(s)
  BY <1>1, <1>2
<1>5. \A i \in DOMAIN List(doc, "members", Member) : MemberAgrees(List(doc, "members", Member)[i], s[i].val)
  BY <1>2, <1>3
<1> QED BY <1>4, <1>5 DEF s

LEMMA ChannelsSay ==
  ASSUME NEW doc, ArrayFits(doc, "channels", ChannelFits)
  PROVE  AllAgree(List(doc, "channels", Channel), doc, "channels", FlatAgrees)
<1> SUFFICES ASSUME "channels" \in DOMAIN doc
             PROVE  /\ Len(List(doc, "channels", Channel)) = Len(doc.channels.val)
                    /\ \A i \in DOMAIN List(doc, "channels", Channel) :
                         FlatAgrees(List(doc, "channels", Channel)[i], doc.channels.val[i].val)
  BY DEF AllAgree
<1> DEFINE s == doc.channels.val
<1>1. /\ Has(doc, "channels", "array") /\ Len(s) \in Nat /\ DOMAIN s = 1..Len(s)
      /\ \A i \in DOMAIN s : s[i].is = "object" /\ ChannelFits(s[i].val)
  BY DEF ArrayFits, Array, Has
<1>2. List(doc, "channels", Channel) = [i \in 1..Len(s) |-> Channel(Members(s[i]))]
  BY <1>1 DEF List
<1>3. \A i \in 1..Len(s) : FlatAgrees(Channel(Members(s[i])), s[i].val)
  BY <1>1, Seen, ChannelSays
<1> HIDE DEF s
<1>4. Len(List(doc, "channels", Channel)) = Len(s)
  BY <1>1, <1>2
<1>5. \A i \in DOMAIN List(doc, "channels", Channel) : FlatAgrees(List(doc, "channels", Channel)[i], s[i].val)
  BY <1>2, <1>3
<1> QED BY <1>4, <1>5 DEF s

LEMMA GuildSays == ASSUME NEW doc, GuildFits(doc) PROVE GuildAgrees(Guild(doc), doc)
<1> DEFINE g == [roles |-> List(doc, "roles", Role), emoji |-> List(doc, "emoji", Emoji),
                 features |-> Features(doc),
                 members |-> List(doc, "members", Member),
                 channels |-> List(doc, "channels", Channel)]
<1>1. NotScalar(doc, {"roles", "members", "channels"})
  BY DEF GuildFits, ArrayFits, Array, NotScalar, Scalar
<1>2. Fits(GuildFields, doc) /\ NotScalar(doc, DOMAIN g)
  BY <1>1 DEF GuildFits, NotScalar
<1>3. Guild(doc) = With(Flat(GuildFields, doc), g)
  BY DEF Guild
<1>4. /\ {"roles", "members", "channels"} \subseteq DOMAIN g
      /\ g.roles = List(doc, "roles", Role)
      /\ g.members = List(doc, "members", Member)
      /\ g.channels = List(doc, "channels", Channel)
  OBVIOUS
<1>5. {"roles", "members", "channels"} \cap DOMAIN GuildFields = {}
  BY DEF GuildFields
<1> HIDE DEF g
<1>6. FlatAgrees(Guild(doc), doc)
  BY <1>2, <1>3, WithFits
<1>7. /\ Guild(doc).roles = List(doc, "roles", Role)
      /\ Guild(doc).members = List(doc, "members", Member)
      /\ Guild(doc).channels = List(doc, "channels", Channel)
  BY <1>3, <1>4, <1>5, WithOther
<1>8. /\ AllAgree(Guild(doc).roles, doc, "roles", FlatAgrees)
      /\ AllAgree(Guild(doc).members, doc, "members", MemberAgrees)
      /\ AllAgree(Guild(doc).channels, doc, "channels", FlatAgrees)
  BY <1>7, RolesSay, MembersSay, ChannelsSay DEF GuildFits
<1> QED BY <1>6, <1>8 DEF GuildAgrees

LEMMA GuildsSay ==
  ASSUME NEW doc, ArrayFits(doc, "guilds", GuildFits)
  PROVE  AllAgree(List(doc, "guilds", Guild), doc, "guilds", GuildAgrees)
<1> SUFFICES ASSUME "guilds" \in DOMAIN doc
             PROVE  /\ Len(List(doc, "guilds", Guild)) = Len(doc.guilds.val)
                    /\ \A i \in DOMAIN List(doc, "guilds", Guild) :
                         GuildAgrees(List(doc, "guilds", Guild)[i], doc.guilds.val[i].val)
  BY DEF AllAgree
<1> DEFINE s == doc.guilds.val
<1>1. /\ Has(doc, "guilds", "array") /\ Len(s) \in Nat /\ DOMAIN s = 1..Len(s)
      /\ \A i \in DOMAIN s : s[i].is = "object" /\ GuildFits(s[i].val)
  BY DEF ArrayFits, Array, Has
<1>2. List(doc, "guilds", Guild) = [i \in 1..Len(s) |-> Guild(Members(s[i]))]
  BY <1>1 DEF List
<1>3. \A i \in 1..Len(s) : GuildAgrees(Guild(Members(s[i])), s[i].val)
  BY <1>1, Seen, GuildSays
<1> HIDE DEF s
<1>4. Len(List(doc, "guilds", Guild)) = Len(s)
  BY <1>1, <1>2
<1>5. \A i \in DOMAIN List(doc, "guilds", Guild) : GuildAgrees(List(doc, "guilds", Guild)[i], s[i].val)
  BY <1>2, <1>3
<1> QED BY <1>4, <1>5 DEF s

LEMMA ReadySays ==
  ASSUME NEW doc, EventFits("READY", doc)
  PROVE  EventAgrees("READY", ReadyPacket(doc), doc)
<1> DEFINE g == [user |-> Inner(doc, "user", User),
                 private_channels |-> List(doc, "private_channels", Channel),
                 guilds |-> List(doc, "guilds", Guild)]
           x == ReadyPacket(doc)
<1>1. /\ Fits(ReadyFields, doc) /\ NotScalar(doc, {"private_channels"})
      /\ ObjectFits(doc, "user", UserFits) /\ ArrayFits(doc, "guilds", GuildFits)
  BY DEF EventFits
<1>2. NotScalar(doc, DOMAIN g)
  BY <1>1 DEF ObjectFits, ArrayFits, Array, NotScalar, Scalar
<1>3. x = With(Flat(ReadyFields, doc), g)
  BY DEF ReadyPacket
<1>4. /\ {"user", "guilds"} \subseteq DOMAIN g
      /\ g.user = Inner(doc, "user", User) /\ g.guilds = List(doc, "guilds", Guild)
  OBVIOUS
<1>5. {"user", "guilds"} \cap DOMAIN ReadyFields = {}
  BY DEF ReadyFields
<1> HIDE DEF g, x
<1>6. FlatAgrees(x, doc)
  BY <1>1, <1>2, <1>3, WithFits
<1>7. x.user = Inner(doc, "user", User) /\ x.guilds = List(doc, "guilds", Guild)
  BY <1>3, <1>4, <1>5, WithOther
<1>8. InnerAgrees(x.user, doc, "user", FlatAgrees)
  BY <1>1, <1>7, UserSays DEF InnerAgrees, ObjectFits, Inner, Has
<1>9. AllAgree(x.guilds, doc, "guilds", GuildAgrees)
  BY <1>1, <1>7, GuildsSay
<1> QED BY <1>6, <1>8, <1>9 DEF EventAgrees, x

LEMMA MessageSays ==
  ASSUME NEW doc, EventFits("MESSAGE_CREATE", doc)
  PROVE  EventAgrees("MESSAGE_CREATE", Message(doc), doc)
<1> DEFINE g == [author |-> Inner(doc, "author", User)]
           x == Message(doc)
<1>1. Fits(MessageFields, doc) /\ ObjectFits(doc, "author", UserFits)
  BY DEF EventFits
<1>2. NotScalar(doc, DOMAIN g)
  BY <1>1 DEF ObjectFits, NotScalar, Scalar
<1>3. x = With(Flat(MessageFields, doc), g)
  BY DEF Message
<1>4. "author" \in DOMAIN g /\ g.author = Inner(doc, "author", User)
  OBVIOUS
<1>5. "author" \notin DOMAIN MessageFields
  BY DEF MessageFields
<1> HIDE DEF g, x
<1>6. FlatAgrees(x, doc)
  BY <1>1, <1>2, <1>3, WithFits
<1>7. x.author = Inner(doc, "author", User)
  BY <1>3, <1>4, <1>5, WithOther
<1>8. InnerAgrees(x.author, doc, "author", FlatAgrees)
  BY <1>1, <1>7, UserSays DEF InnerAgrees, ObjectFits, Inner, Has
<1> QED BY <1>6, <1>8 DEF EventAgrees, x

LEMMA TypingSays ==
  ASSUME NEW doc, EventFits("TYPING_START", doc)
  PROVE  EventAgrees("TYPING_START", TypingStartPacket(doc), doc)
<1> DEFINE g == [member |-> IF Has(doc, "member", "object") THEN Member(doc.member.val) ELSE Empty]
           x == TypingStartPacket(doc)
<1>1. Fits(TypingFields, doc) /\ ObjectFits(doc, "member", MemberFits)
  BY DEF EventFits
<1>2. NotScalar(doc, DOMAIN g)
  BY <1>1 DEF ObjectFits, NotScalar, Scalar
<1>3. x = With(Flat(TypingFields, doc), g)
  BY DEF TypingStartPacket
<1>4. /\ "member" \in DOMAIN g
      /\ Has(doc, "member", "object") => g.member = Member(doc.member.val)
  OBVIOUS
<1>5. "member" \notin DOMAIN TypingFields
  BY DEF TypingFields
<1> HIDE DEF g, x
<1>6. FlatAgrees(x, doc)
  BY <1>1, <1>2, <1>3, WithFits
<1>7. x.member = g.member
  BY <1>3, <1>4, <1>5, WithOther
<1>8. InnerAgrees(x.member, doc, "member", MemberAgrees)
  BY <1>1, <1>4, <1>7, MemberSays DEF InnerAgrees, ObjectFits, Has
<1> QED BY <1>6, <1>8 DEF EventAgrees, x

LEMMA ReactionSays ==
  ASSUME NEW doc, NEW class \in {"MESSAGE_REACTION_ADD", "MESSAGE_REACTION_REMOVE"},
         EventFits(class, doc)
  PROVE  EventAgrees(class, MessageReactionPacket(doc), doc)
<1> DEFINE g == [emoji |-> Inner(doc, "emoji", Emoji)]
           x == MessageReactionPacket(doc)
<1>1. Fits(ReactionFields, doc) /\ ObjectFits(doc, "emoji", EmojiFits)
  BY DEF EventFits
<1>2. NotScalar(doc, DOMAIN g)
  BY <1>1 DEF ObjectFits, NotScalar, Scalar
<1>3. x = With(Flat(ReactionFields, doc), g)
  BY DEF MessageReactionPacket
<1>4. "emoji" \in DOMAIN g /\ g.emoji = Inner(doc, "emoji", Emoji)
  OBVIOUS
<1>5. "emoji" \notin DOMAIN ReactionFields
  BY DEF ReactionFields
<1> HIDE DEF g, x
<1>6. FlatAgrees(x, doc)
  BY <1>1, <1>2, <1>3, WithFits
<1>7. x.emoji = Inner(doc, "emoji", Emoji)
  BY <1>3, <1>4, <1>5, WithOther
<1>8. InnerAgrees(x.emoji, doc, "emoji", FlatAgrees)
  BY <1>1, <1>7, EmojiSays DEF InnerAgrees, ObjectFits, Inner, Has
<1> QED BY <1>6, <1>8 DEF EventAgrees, x

LEMMA LoadSays ==
  ASSUME EventsFit, NEW event \in Events
  PROVE  EventAgrees(event.name, Load(event), event.doc)
<1>1. EventFits(event.name, event.doc) /\ event.name \in Handled
  BY ClientAssumption DEF EventsFit
<1>2. CASE event.name = "READY"
  BY <1>1, <1>2, ReadySays DEF Load
<1>3. CASE event.name = "GUILD_CREATE"
  <2>1. GuildAgrees(Guild(event.doc), event.doc)
    BY <1>1, <1>3, GuildSays DEF EventFits
  <2>2. FlatAgrees(Guild(event.doc), event.doc)
    BY <2>1 DEF GuildAgrees
  <2>3. EventAgrees("GUILD_CREATE", Guild(event.doc), event.doc)
    BY <2>1, <2>2 DEF EventAgrees
  <2> QED BY <1>3, <2>3 DEF Load
<1>4. CASE event.name = "MESSAGE_CREATE"
  BY <1>1, <1>4, MessageSays DEF Load
<1>5. CASE event.name = "TYPING_START"
  BY <1>1, <1>5, TypingSays DEF Load
<1>6. CASE event.name \in {"MESSAGE_REACTION_ADD", "MESSAGE_REACTION_REMOVE"}
  <2>1. Load(event) = MessageReactionPacket(event.doc)
    BY <1>6 DEF Load
  <2> QED BY <1>1, <1>6, <2>1, ReactionSays
<1> QED BY <1>1, <1>2, <1>3, <1>4, <1>5, <1>6 DEF Handled

LoadInv ==
  loaded = NoEvent \/ \E event \in Events :
    loaded = [class |-> event.name, doc |-> event.doc, struct |-> Load(event)]

\* Only the arrival of an event and its handler touch what is loaded.
LEMMA OthersLeaveEvent ==
  ASSUME Next
  PROVE  \/ \E event \in Events : Receive(event)
         \/ Handler
         \/ UNCHANGED <<loaded, todo, greeted>>
<1>1. CASE Type \/ Listing
  BY <1>1 DEF Type, SendMsg, SendMsgWithoutText, CountGuilds, Quit, Listing, BeginPrint, PrintGuild,
     EndPrint, ioVars
<1>2. ASSUME NEW t \in Threads,
             (Work(t) /\ OnlyPool) \/ (WakeUnasked(t) /\ OnlyPool) \/ Request(t) \/ Answer(t)
             \/ EndTask(t)
      PROVE  UNCHANGED <<loaded, todo, greeted>>
  BY <1>2 DEF OnlyPool, Request, Answer, EndTask, ioVars
<1>3. ASSUME NEW x \in Threads \cup Posters, Signal(x) /\ OnlyPool
      PROVE  UNCHANGED <<loaded, todo, greeted>>
  BY <1>3 DEF OnlyPool, ioVars
<1>4. CASE RunReturns \/ Ending
  BY <1>4 DEF RunReturns, Ending, LeaveMain, DestroyClient, ioVars
<1> QED BY <1>1, <1>2, <1>3, <1>4 DEF Next

LEMMA LoadKept == LoadInv /\ [Next]_vars => LoadInv'
<1> SUFFICES ASSUME LoadInv, [Next]_vars PROVE LoadInv'
  OBVIOUS
<1>1. CASE UNCHANGED loaded
  BY <1>1 DEF LoadInv
<1>2. ASSUME NEW event \in Events, Receive(event) PROVE LoadInv'
  <2>1. CASE LoadAborts(event)
    BY <1>1, <1>2, <2>1 DEF Receive
  <2>2. CASE ~LoadAborts(event)
    BY <1>2, <2>2 DEF Receive, LoadInv
  <2> QED BY <2>1, <2>2
<1>3. CASE Handler
  BY <1>1, <1>3 DEF Handler, PushGuild, Greet, PassChannel, EndHandler, LoadInv
<1>4. CASE UNCHANGED vars
  BY <1>1, <1>4 DEF vars, ioVars
<1> QED BY <1>1, <1>2, <1>3, <1>4, OthersLeaveEvent

(* A handler is given what the document says: no member of a struct, and   *)
(* of no struct within it, is taken from another member of the document,   *)
(* whatever the documents that fit (serializers.cpp).                      *)
THEOREM LoadsWhatWasSent == ASSUME EventsFit PROVE Spec => []LoadedAsSent
<1>1. Init => LoadInv
  BY DEF Init, LoadInv
<1>2. LoadInv => LoadedAsSent
  <2>1. EventAgrees("none", NoDocument, NoDocument)
    BY DEF EventAgrees, FlatAgrees, NoDocument
  <2>2. loaded = NoEvent => LoadedAsSent
    BY <2>1 DEF NoEvent, LoadedAsSent
  <2>3. ASSUME NEW event \in Events,
               loaded = [class |-> event.name, doc |-> event.doc, struct |-> Load(event)]
        PROVE  LoadedAsSent
    BY <2>3, LoadSays DEF LoadedAsSent
  <2> QED BY <2>2, <2>3 DEF LoadInv
<1> QED BY <1>1, <1>2, LoadKept, PTL DEF Spec

-----------------------------------------------------------------------------
(* Who is greeted.  Of the channels of the guild in hand, those that have  *)
(* been greeted are text channels or have no type, and a text channel that *)
(* has not been greeted is still in the list.                              *)

Place(j) == <<"channel", j>>

GreetInv ==
  loaded.class = "GUILD_CREATE" =>
    LET chans == loaded.struct.channels
    IN /\ \A i \in DOMAIN todo : todo[i][1] = "channel" => todo[i][2] \in DOMAIN chans
       /\ \A g \in greeted : \E j \in DOMAIN chans : chans[j].id = g /\ chans[j].type \in {0, Garbage}
       /\ \A j \in DOMAIN chans :
            chans[j].type = 0 =>
              chans[j].id \in greeted \/ \E i \in DOMAIN todo : todo[i] = Place(j)

LEMMA ToDoChannels ==
  ASSUME NEW event \in Events, event.name = "GUILD_CREATE"
  PROVE  LET q == ToDo(event.name, Load(event))
             chans == Load(event).channels
         IN /\ \A i \in DOMAIN q : q[i][1] = "channel" => q[i][2] \in DOMAIN chans
            /\ \A j \in DOMAIN chans : \E i \in DOMAIN q : q[i] = Place(j)
<1> DEFINE q == ToDo(event.name, Load(event))
           chans == Load(event).channels
           push == <<<<"push", Guild(event.doc).name>>>>
<1>1. PICK n \in Nat : DOMAIN Guild(event.doc).channels = 1..n
  BY ChannelPlaces
<1>2. chans = Guild(event.doc).channels
  BY DEF Load
<1> DEFINE rest == [i \in 1..n |-> Place(i)]
<1>3. push \in Seq(Todo) /\ rest \in Seq(Todo) /\ Len(push) = 1 /\ Len(rest) = n
      /\ push[1][1] = "push"
  BY DEF Todo, Names, Place
<1>4. q = push \o rest
  BY <1>1 DEF ToDo, Load, Place
<1> HIDE DEF q, chans, push, rest
<1>5. DOMAIN q = 1..n + 1 /\ q[1] = push[1]
  <2>1. q \in Seq(Todo) /\ Len(q) = 1 + n
    <3>1. push \o rest \in Seq(Todo) /\ Len(push \o rest) = Len(push) + Len(rest)
      BY <1>3, ConcatProperties
    <3> QED BY <1>3, <1>4, <3>1
  <2>2. 1 \in 1..Len(push) + Len(rest) /\ 1 <= Len(push)
    BY <1>3
  <2>3. q[1] = push[1]
    BY <1>3, <1>4, <2>2, ConcatProperties
  <2> QED BY <2>1, <2>3, LenProperties
<1>6. \A i \in 2..n + 1 : q[i] = rest[i - 1]
  <2> SUFFICES ASSUME NEW i \in 2..n + 1 PROVE q[i] = rest[i - 1]
    OBVIOUS
  <2>1. i \in 1..Len(push) + Len(rest) /\ ~(i <= Len(push)) /\ i - Len(push) = i - 1
    BY <1>3
  <2>2. q[i] = rest[i - Len(push)]
    BY <1>3, <1>4, <2>1, ConcatProperties
  <2> QED BY <2>1, <2>2
<1>7. \A i \in 2..n + 1 : i - 1 \in 1..n /\ q[i] = Place(i - 1)
  BY <1>6 DEF rest
<1>8. \A j \in 1..n : j + 1 \in 2..n + 1 /\ j + 1 \in 1..n + 1 /\ q[j + 1] = Place(j)
  <2> SUFFICES ASSUME NEW j \in 1..n PROVE j + 1 \in 2..n + 1 /\ j + 1 \in 1..n + 1 /\ q[j + 1] = Place(j)
    OBVIOUS
  <2>1. j + 1 \in 2..n + 1 /\ j + 1 \in 1..n + 1 /\ (j + 1) - 1 = j
    OBVIOUS
  <2> QED BY <1>7, <2>1
<1>9. \A i \in DOMAIN q : q[i][1] = "channel" => q[i][2] \in DOMAIN chans
  <2> SUFFICES ASSUME NEW i \in DOMAIN q, q[i][1] = "channel" PROVE q[i][2] \in DOMAIN chans
    OBVIOUS
  <2>1. i \in 2..n + 1
    BY <1>3, <1>5
  <2>2. q[i][2] = i - 1
    BY <1>7, <2>1 DEF Place
  <2> QED BY <1>1, <1>2, <1>7, <2>1, <2>2
<1>10. \A j \in DOMAIN chans : \E i \in DOMAIN q : q[i] = Place(j)
  BY <1>1, <1>2, <1>5, <1>8
<1> QED BY <1>9, <1>10 DEF q, chans

LEMMA GreetKept == TypedInv /\ GreetInv /\ [Next]_vars => GreetInv'
<1> SUFFICES ASSUME TypedInv, GreetInv, [Next]_vars PROVE GreetInv'
  OBVIOUS
<1>1. CASE UNCHANGED <<loaded, todo, greeted>>
  BY <1>1 DEF GreetInv
<1>2. ASSUME NEW event \in Events, Receive(event) PROVE GreetInv'
  <2>1. CASE LoadAborts(event)
    BY <1>1, <1>2, <2>1 DEF Receive
  <2>2. CASE ~LoadAborts(event)
    <3>1. /\ loaded' = [class |-> event.name, doc |-> event.doc, struct |-> Load(event)]
          /\ todo' = ToDo(event.name, Load(event)) /\ greeted' = greeted
      BY <1>2, <2>2 DEF Receive
    <3>2. greeted = {}
      BY <1>2 DEF Receive, NoEvent, TypedInv, TypeOK
    <3> QED BY <3>1, <3>2, ToDoChannels DEF GreetInv
  <2> QED BY <2>1, <2>2
<1>3. CASE Handler
  <2>1. CASE EndHandler
    BY <2>1 DEF EndHandler, NoEvent, GreetInv
  <2> SUFFICES ASSUME PushGuild \/ Greet \/ PassChannel, loaded.class = "GUILD_CREATE" PROVE GreetInv'
    BY <1>3, <2>1 DEF Handler, PushGuild, Greet, PassChannel, GreetInv
  <2> DEFINE chans == loaded.struct.channels
  <2>2. /\ todo \in Seq(Todo) /\ todo /= <<>> /\ todo' = Tail(todo) /\ loaded' = loaded
    BY DEF PushGuild, Greet, PassChannel, AtChannel, TypedInv, TodoTyped
  <2>3. /\ 1 \in DOMAIN todo
        /\ \A i \in DOMAIN todo' : i + 1 \in DOMAIN todo /\ todo'[i] = todo[i + 1]
        /\ \A i \in DOMAIN todo : i = 1 \/ (i - 1 \in DOMAIN todo' /\ todo'[i - 1] = todo[i])
    BY <2>2, PopTodo
  <2>4. \A i \in DOMAIN todo' : todo'[i][1] = "channel" => todo'[i][2] \in DOMAIN chans
    BY <2>3 DEF GreetInv
  <2>5. \A g \in greeted' : \E j \in DOMAIN chans : chans[j].id = g /\ chans[j].type \in {0, Garbage}
    <3>1. CASE Greet
      <4>1. /\ todo[1][1] = "channel" /\ chans[todo[1][2]].type \in {0, Garbage}
            /\ greeted' = greeted \cup {chans[todo[1][2]].id}
        BY <3>1 DEF Greet, AtChannel, Chan
      <4>2. todo[1][2] \in DOMAIN chans
        BY <2>3, <4>1 DEF GreetInv
      <4> QED BY <4>1, <4>2 DEF GreetInv
    <3>2. CASE PushGuild \/ PassChannel
      BY <3>2 DEF PushGuild, PassChannel, GreetInv
    <3> QED BY <3>1, <3>2
  <2>6. ASSUME NEW j \in DOMAIN chans, chans[j].type = 0
        PROVE  chans[j].id \in greeted' \/ \E i \in DOMAIN todo' : todo'[i] = Place(j)
    <3>1. greeted \subseteq greeted'
      BY DEF PushGuild, Greet, PassChannel
    <3>2. CASE chans[j].id \in greeted
      BY <3>1, <3>2
    <3>3. CASE chans[j].id \notin greeted
      <4>1. PICK i \in DOMAIN todo : todo[i] = Place(j)
        BY <2>6, <3>3 DEF GreetInv
      <4>2. CASE i = 1
        <5>1. todo[1][1] = "channel" /\ todo[1][2] = j
          BY <4>1, <4>2 DEF Place
        <5>2. Greet
          BY <2>6, <5>1 DEF PushGuild, PassChannel, Chan
        <5> QED BY <5>1, <5>2 DEF Greet, Chan
      <4>3. CASE i /= 1
        BY <2>3, <4>1, <4>3
      <4> QED BY <4>2, <4>3
    <3> QED BY <3>2, <3>3
  <2> QED BY <2>2, <2>4, <2>5, <2>6 DEF GreetInv
<1>4. CASE UNCHANGED vars
  BY <1>1, <1>4 DEF vars, ioVars
<1> QED BY <1>1, <1>2, <1>3, <1>4, OthersLeaveEvent

\* A struct of a channel has its id, and its type if it has one.
LEMMA ChannelTells ==
  ASSUME NEW c, ChannelFits(c)
  PROVE  /\ Channel(c).id = c.id.val
         /\ "type" \in DOMAIN c /\ c.type.is /= "null" =>
              Channel(c).type = c.type.val /\ c.type.val /= Garbage
<1>1. \A m \in DOMAIN ChannelFields : Channel(c)[m] = Flat(ChannelFields, c)[m]
  BY DEF Channel, With, Flat
<1>2. {"id", "type"} \subseteq DOMAIN ChannelFields
  BY DEF ChannelFields
<1>3. Fits(ChannelFields, c) /\ "id" \in DOMAIN c /\ c.id.is = "string"
  BY DEF ChannelFits, Has
<1>4. Channel(c).id = c.id.val
  BY <1>1, <1>2, <1>3, FlatSays
<1>5. ASSUME "type" \in DOMAIN c, c.type.is /= "null"
      PROVE  Channel(c).type = c.type.val /\ c.type.val /= Garbage
  <2>1. c.type.val /= Garbage
    BY <1>2, <1>3, <1>5 DEF Fits
  <2> QED BY <1>1, <1>2, <1>3, <1>5, <2>1, FlatSays
<1> QED BY <1>4, <1>5

LEMMA GreetedRight == EventsFit /\ LoadInv /\ GreetInv => GreetsTextChannels
<1> SUFFICES ASSUME EventsFit, LoadInv, GreetInv, loaded.class = "GUILD_CREATE",
                    Has(loaded.doc, "channels", "array")
             PROVE  LET chans == {loaded.doc.channels.val[i].val : i \in DOMAIN loaded.doc.channels.val}
                        typed(c) == "type" \in DOMAIN c /\ c.type.is /= "null"
                    IN /\ \A g \in greeted : \E c \in chans : c.id.val = g /\ (typed(c) => c.type.val = 0)
                       /\ todo = <<>> => \A c \in chans : typed(c) /\ c.type.val = 0 => c.id.val \in greeted
  BY DEF GreetsTextChannels
<1> DEFINE s == loaded.doc.channels.val
           cs == loaded.struct.channels
           typed(c) == "type" \in DOMAIN c /\ c.type.is /= "null"
<1>1. PICK event \in Events : loaded = [class |-> event.name, doc |-> event.doc, struct |-> Load(event)]
  BY DEF LoadInv, NoEvent
<1>2. event.name = "GUILD_CREATE" /\ loaded.doc = event.doc /\ loaded.struct = Guild(event.doc)
  BY <1>1 DEF Load
<1>3. GuildFits(loaded.doc)
  BY <1>2 DEF EventsFit, EventFits
<1>4. \A i \in DOMAIN s : s[i].is = "object" /\ ChannelFits(s[i].val)
  BY <1>3 DEF GuildFits, ArrayFits, Has
<1>5. cs = [i \in DOMAIN s |-> Channel(Members(s[i]))]
  BY <1>2, GuildChannels
<1>6. ASSUME NEW i \in DOMAIN s
      PROVE  /\ cs[i].id = s[i].val.id.val
             /\ typed(s[i].val) => cs[i].type = s[i].val.type.val /\ cs[i].type /= Garbage
  <2>1. cs[i] = Channel(s[i].val)
    BY <1>4, <1>5, Seen
  <2> QED BY <1>4, <2>1, ChannelTells
<1>7. DOMAIN cs = DOMAIN s
  BY <1>5
<1>8. /\ \A g \in greeted : \E j \in DOMAIN cs : cs[j].id = g /\ cs[j].type \in {0, Garbage}
      /\ \A j \in DOMAIN cs :
           cs[j].type = 0 => cs[j].id \in greeted \/ \E i \in DOMAIN todo : todo[i] = Place(j)
  BY DEF GreetInv
<1>9. todo = <<>> => \A i \in DOMAIN todo : FALSE
  OBVIOUS
<1> HIDE DEF s, cs
<1>10. ASSUME NEW g \in greeted
       PROVE  \E i \in DOMAIN s : s[i].val.id.val = g /\ (typed(s[i].val) => s[i].val.type.val = 0)
  <2>1. PICK j \in DOMAIN cs : cs[j].id = g /\ cs[j].type \in {0, Garbage}
    BY <1>8
  <2> QED BY <1>6, <1>7, <2>1
<1>11. ASSUME todo = <<>>, NEW i \in DOMAIN s, typed(s[i].val), s[i].val.type.val = 0
       PROVE  s[i].val.id.val \in greeted
  BY <1>6, <1>7, <1>8, <1>9, <1>11
<1> QED BY <1>10, <1>11 DEF s

(* Those who are greeted are the text channels of the guild, and those     *)
(* that do not say what they are; and none of the text channels is left    *)
(* out, however many channels the guild has (main.cpp 75-76).              *)
THEOREM GreetsTheRight == ASSUME EventsFit PROVE Spec => []GreetsTextChannels
<1>1. Init => LoadInv /\ GreetInv
  BY DEF Init, LoadInv, GreetInv, NoEvent
<1>2. LoadInv /\ GreetInv => GreetsTextChannels
  BY GreetedRight
<1> QED BY <1>1, <1>2, Starts, Inductive, TypedStarts, TypedInductive, LoadKept, GreetKept, PTL DEF Spec
=============================================================================
