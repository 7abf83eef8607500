----------------------------- MODULE EventLoop -----------------------------
(***************************************************************************)
(* The life of one run of the program: main and Client::Run, the websocket *)
(* client's start() and stop() (client_ws.hpp 322-346), the chain of       *)
(* asynchronous operations that opens and reads the connection, the        *)
(* heartbeat timer (discord.cpp 86-118), and quit on the console thread.   *)
(*                                                                         *)
(* The main thread runs start(), which ends in io_service.run(): one       *)
(* handler at a time, taken from the FIFO ready, until the io_service is   *)
(* stopped.  It is stopped by stop() on the console thread, and by itself  *)
(* when no work is left (asio, scheduler.ipp): no pending operation, no    *)
(* pending wait, no handler.                                               *)
(*                                                                         *)
(* A wait whose time has come is a handler in ready: cancel() and          *)
(* expires_from_now() no longer reach it.  HELLO replaces heartbeatTimer   *)
(* by a new timer and leaks the old one, whose wait goes on; timers are    *)
(* named by the HELLO that made them, so the current one is timer hellos.  *)
(*                                                                         *)
(* Abstracted: what frames carry; send_queue, reduced to whether a write   *)
(* is outstanding (module SendQueue); the length of the interval; the      *)
(* proxy branch and the library's own timeouts, both off in this program.  *)
(***************************************************************************)
EXTENDS Naturals, Sequences, FiniteSets

CONSTANT MaxHellos  \* bound: HELLO frames of one connection

ASSUME HelloAssumption == MaxHellos \in Nat

VARIABLES
  main,      \* where the main thread is
  console,   \* where the console thread is
  internal,  \* internal_io_service
  stopped,   \* the io_service is stopped
  stage,     \* how far the connection is
  op,        \* an operation of the chain (resolve, ..., read) is pending
  broken,    \* the socket was shut down or has failed
  opened,    \* Client::connection is set
  hellos,    \* HELLO frames handled
  armed,     \* timers with a pending wait
  writing,   \* an async_write is outstanding
  ready,     \* handlers waiting to be run
  crashed    \* a null pointer was dereferenced

net == <<stage, op, broken>>
vars == <<main, console, internal, stopped, net, opened, hellos, armed, writing, ready, crashed>>

MainPC == {"create", "internal", "restart", "connect", "run", "join", "exited"}

Chain == <<"resolve", "connect", "handshake", "upgrade", "read">>

Stage == {"none", "closed", "failed"} \cup {Chain[i] : i \in DOMAIN Chain}

Handler == {"op", "error", "hello", "message", "close", "timer", "aborted"}

TypeOK ==
  /\ main \in MainPC
  /\ console \in {"idle", "close", "stop", "done"}
  /\ internal \in BOOLEAN
  /\ stopped \in BOOLEAN
  /\ stage \in Stage
  /\ op \in BOOLEAN
  /\ broken \in BOOLEAN
  /\ opened \in BOOLEAN
  /\ hellos \in 0..MaxHellos
  /\ armed \subseteq 1..hellos
  /\ writing \in BOOLEAN
  /\ ready \in Seq(Handler)
  /\ crashed \in BOOLEAN

Init ==
  /\ main = "create"
  /\ console = "idle"
  /\ internal = FALSE
  /\ stopped = FALSE
  /\ stage = "none"
  /\ op = FALSE
  /\ broken = FALSE
  /\ opened = FALSE
  /\ hellos = 0
  /\ armed = {}
  /\ writing = FALSE
  /\ ready = <<>>
  /\ crashed = FALSE

-----------------------------------------------------------------------------
(* main, Client::Run, SocketClientBase::start                              *)

Step(from, to) == ~crashed /\ main = from /\ main' = to

CreateService ==
  /\ Step("create", "internal")
  /\ UNCHANGED <<console, internal, stopped, net, opened, hellos, armed, writing, ready, crashed>>

SetInternal ==
  /\ Step("internal", "restart")
  /\ internal' = TRUE
  /\ UNCHANGED <<console, stopped, net, opened, hellos, armed, writing, ready, crashed>>

RestartIfStopped ==
  /\ Step("restart", "connect")
  /\ stopped' = FALSE
  /\ UNCHANGED <<console, internal, net, opened, hellos, armed, writing, ready, crashed>>

\* connect() makes the connection and starts to resolve.
Connect ==
  /\ Step("connect", "run")
  /\ stage' = "resolve"
  /\ op' = TRUE
  /\ UNCHANGED <<console, internal, stopped, broken, opened, hellos, armed, writing, ready, crashed>>

Work == op \/ writing \/ armed /= {} \/ ready /= <<>>

\* The last work has finished: the io_service stops itself.
OutOfWork ==
  /\ ~crashed /\ main = "run" /\ ~stopped
  /\ ~Work
  /\ stopped' = TRUE
  /\ UNCHANGED <<main, console, internal, net, opened, hellos, armed, writing, ready, crashed>>

\* run() returns, and with it start() and Client::Run.
Return ==
  /\ Step("run", "join")
  /\ stopped
  /\ UNCHANGED <<console, internal, stopped, net, opened, hellos, armed, writing, ready, crashed>>

Join ==
  /\ Step("join", "exited")
  /\ console = "done"
  /\ UNCHANGED <<console, internal, stopped, net, opened, hellos, armed, writing, ready, crashed>>

-----------------------------------------------------------------------------
(* The console thread                                                      *)

\* identify and resume: connection->send, a null dereference before on_open.
ConsoleSend ==
  /\ ~crashed /\ console = "idle"
  /\ IF opened THEN writing' = TRUE /\ UNCHANGED crashed
               ELSE crashed' = TRUE /\ UNCHANGED writing
  /\ UNCHANGED <<main, console, internal, stopped, net, opened, hellos, armed, ready>>

Quit ==
  /\ ~crashed /\ console = "idle"
  /\ console' = "close"
  /\ UNCHANGED <<main, internal, stopped, net, opened, hellos, armed, writing, ready, crashed>>

\* stop(), first half: connection->close() shuts a connected socket down and
\* cancels what is pending on it; a resolve is not an operation of the socket.
CloseConnection ==
  /\ ~crashed /\ console = "close"
  /\ console' = "stop"
  /\ broken' = (broken \/ stage \in {"handshake", "upgrade", "read", "closed"})
  /\ IF op /\ stage /= "resolve"
     THEN op' = FALSE /\ ready' = Append(ready, "error")
     ELSE UNCHANGED <<op, ready>>
  /\ UNCHANGED <<main, internal, stopped, stage, opened, hellos, armed, writing, crashed>>

\* Mutant: the io_service is left running.
StopServiceNever ==
  /\ ~crashed /\ console = "stop"
  /\ console' = "done"
  /\ UNCHANGED <<main, internal, stopped, net, opened, hellos, armed, writing, ready, crashed>>

\* Second half, and the end of the command loop.
StopService ==
  /\ ~crashed /\ console = "stop"
  /\ console' = "done"
  /\ stopped' = (stopped \/ internal)
  /\ UNCHANGED <<main, internal, net, opened, hellos, armed, writing, ready, crashed>>

-----------------------------------------------------------------------------
(* Completions: the network, the peer and the clock post handlers          *)

Post(h) == ready' = Append(ready, h)

Succeed ==
  /\ ~crashed /\ op /\ ~broken /\ stage /= "read"
  /\ op' = FALSE
  /\ Post("op")
  /\ UNCHANGED <<main, console, internal, stopped, stage, broken, opened, hellos, armed, writing, crashed>>

\* A frame arrives.
Arrive(frame) ==
  /\ ~crashed /\ op /\ ~broken /\ stage = "read"
  /\ frame = "hello" => hellos < MaxHellos
  /\ op' = FALSE
  /\ Post(frame)
  /\ UNCHANGED <<main, console, internal, stopped, stage, broken, opened, hellos, armed, writing, crashed>>

FailOp ==
  /\ ~crashed /\ op
  /\ op' = FALSE
  /\ broken' = TRUE
  /\ Post("error")
  /\ UNCHANGED <<main, console, internal, stopped, stage, opened, hellos, armed, writing, crashed>>

EndWrite ==
  /\ ~crashed /\ main = "run" /\ ~stopped
  /\ writing
  /\ writing' = FALSE
  /\ UNCHANGED <<main, console, internal, stopped, net, opened, hellos, armed, ready, crashed>>

Expire(timer) ==
  /\ ~crashed /\ timer \in armed
  /\ armed' = armed \ {timer}
  /\ Post("timer")
  /\ UNCHANGED <<main, console, internal, stopped, net, opened, hellos, writing, crashed>>

-----------------------------------------------------------------------------
(* Handlers, run one at a time by io_service.run()                         *)

Running(h) ==
  /\ ~crashed /\ main = "run" /\ ~stopped
  /\ ready /= <<>> /\ ready[1] = h

\* One link of the chain done, the next operation begins; on_open before the
\* first read.
Advance ==
  /\ Running("op")
  /\ \E i \in 1..Len(Chain) - 1 :
       /\ stage = Chain[i]
       /\ stage' = Chain[i + 1]
       /\ opened' = (opened \/ Chain[i + 1] = "read")
  /\ op' = TRUE
  /\ ready' = Tail(ready)
  /\ UNCHANGED <<main, console, internal, stopped, broken, hellos, armed, writing, crashed>>

\* Mutant: on_error cancels the timer as on_close does.
OnErrorCancels ==
  /\ Running("error")
  /\ stage' = "failed"
  /\ armed' = armed \ {hellos}
  /\ ready' = Tail(ready) \o IF hellos \in armed THEN <<"aborted">> ELSE <<>>
  /\ UNCHANGED <<main, console, internal, stopped, op, broken, opened, hellos, writing, crashed>>

\* connection_error, on_error: the chain ends, the timer goes on.
OnError ==
  /\ Running("error")
  /\ stage' = "failed"
  /\ ready' = Tail(ready)
  /\ UNCHANGED <<main, console, internal, stopped, op, broken, opened, hellos, armed, writing, crashed>>

\* ProcessHello; then the next read.
OnHello ==
  /\ Running("hello")
  /\ hellos' = hellos + 1
  /\ armed' = armed \cup {hellos + 1}
  /\ op' = TRUE
  /\ ready' = Tail(ready)
  /\ UNCHANGED <<main, console, internal, stopped, stage, broken, opened, writing, crashed>>

\* Any other frame.
OnMessage ==
  /\ Running("message")
  /\ op' = TRUE
  /\ ready' = Tail(ready)
  /\ UNCHANGED <<main, console, internal, stopped, stage, broken, opened, hellos, armed, writing, crashed>>

\* Waits of the current timer end with operation_aborted.
CancelCurrent == IF hellos \in armed THEN <<"aborted">> ELSE <<>>

\* A close frame: it is answered, on_close cancels the timer -- which is
\* null before HELLO -- and reading ends.
OnClose ==
  /\ Running("close")
  /\ stage' = "closed"
  /\ writing' = TRUE
  /\ crashed' = (hellos = 0)
  /\ armed' = armed \ {hellos}
  /\ ready' = Tail(ready) \o CancelCurrent
  /\ UNCHANGED <<main, console, internal, stopped, op, broken, opened, hellos>>

\* Mutant: the heartbeat is sent and the timer not reset.
HeartbeatOnce ==
  /\ Running("timer")
  /\ writing' = TRUE
  /\ ready' = Tail(ready)
  /\ UNCHANGED <<main, console, internal, stopped, net, opened, hellos, armed, crashed>>

\* Mutant: the wait is on a timer that no HELLO made.
HeartbeatNextTimer ==
  /\ Running("timer")
  /\ writing' = TRUE
  /\ armed' = armed \cup {hellos + 1}
  /\ ready' = Tail(ready)
  /\ UNCHANGED <<main, console, internal, stopped, net, opened, hellos, crashed>>

\* SendHeartbeatAndResetTimer without error: it uses the current timer,
\* whichever timer the wait was on.
Heartbeat ==
  /\ Running("timer")
  /\ writing' = TRUE
  /\ armed' = armed \cup {hellos}
  /\ ready' = Tail(ready) \o CancelCurrent
  /\ UNCHANGED <<main, console, internal, stopped, net, opened, hellos, crashed>>

\* Mutant: the error code of the wait is not looked at.
AbortedRearms ==
  /\ Running("aborted")
  /\ writing' = TRUE
  /\ armed' = armed \cup {hellos}
  /\ ready' = Tail(ready) \o CancelCurrent
  /\ UNCHANGED <<main, console, internal, stopped, net, opened, hellos, crashed>>

\* SendHeartbeatAndResetTimer with operation_aborted.
Aborted ==
  /\ Running("aborted")
  /\ ready' = Tail(ready)
  /\ UNCHANGED <<main, console, internal, stopped, net, opened, hellos, armed, writing, crashed>>

-----------------------------------------------------------------------------
Main == CreateService \/ SetInternal \/ RestartIfStopped \/ Connect \/ OutOfWork \/ Return \/ Join

Stop == CloseConnection \/ StopService

Run == Advance \/ OnError \/ OnHello \/ OnMessage \/ OnClose \/ Heartbeat \/ Aborted

Environment ==
  \/ Succeed \/ FailOp \/ EndWrite
  \/ \E frame \in {"hello", "message", "close"} : Arrive(frame)
  \/ \E timer \in armed : Expire(timer)

Next == Main \/ ConsoleSend \/ Quit \/ Stop \/ Run \/ Environment

(* Threads go on, run() runs what is ready, timers expire, and operations  *)
(* on a broken socket fail.  Nothing obliges the network to succeed, the   *)
(* peer to speak or the user to quit.                                      *)
Fairness ==
  /\ WF_vars(Main)
  /\ WF_vars(Stop)
  /\ WF_vars(Run)
  /\ WF_vars(broken /\ (FailOp \/ EndWrite))
  /\ \A timer \in 1..MaxHellos : WF_vars(Expire(timer))

Spec == Init /\ [][Next]_vars

FairSpec == Spec /\ Fairness

-----------------------------------------------------------------------------
Expired(s) == Cardinality({i \in DOMAIN s : s[i] = "timer"})

Waits == Cardinality(armed) + Expired(ready)

(* From HELLO until the peer closes the connection there is always a wait  *)
(* for the next heartbeat, and never more waits than HELLO frames: neither *)
(* a cancelled wait nor a second timer breaks or multiplies the chain      *)
(* (discord.cpp 86-118).                                                   *)
HeartbeatChain ==
  ~crashed /\ hellos > 0 =>
    /\ Waits <= hellos
    /\ stage /= "closed" => Waits >= 1

(* Client::Run returns only after stop(), after a close frame, or when the *)
(* connection failed before HELLO; a connection that fails later keeps     *)
(* the event loop alive with heartbeats nobody gets (discord.cpp 208-215). *)
WhyRunReturned ==
  main \in {"join", "exited"} =>
    console = "done" \/ stage = "closed" \/ (stage = "failed" /\ hellos = 0)

(* While HELLO has been handled, no close frame has and the loop runs,     *)
(* heartbeats are sent for ever.                                           *)
HeartbeatsContinue ==
  <>[](hellos > 0 /\ stage /= "closed" /\ console = "idle" /\ ~crashed) => []<><<Heartbeat>>_vars

(* stop() reaching an io_service that start() has already restarted ends   *)
(* the program (main.cpp 149-157, 245-250).                                *)
LateQuitEnds ==
  (console = "stop" /\ main \in {"connect", "run", "join"}) ~> (main = "exited" \/ crashed)

(* Once a close frame is answered and no wait is left, Client::Run returns *)
(* unless the user types something first: a cancelled wait does not start  *)
(* the chain again (discord.cpp 87, 208-211).                              *)
CloseEndsRun ==
  (stage = "closed" /\ Waits = 0 /\ ~writing /\ console = "idle" /\ ~crashed) ~>
    (main = "join" \/ console /= "idle" \/ (writing /\ Waits = 0))

(* discord.hpp 39-41: Run "will block until the event loop is stopped      *)
(* (websocket.stop())", and main.cpp 149-157: once quit has called stop(), *)
(* Run ends.                                                               *)
StopEndsRun == (console = "done") ~> (main = "exited" \/ crashed)
=============================================================================
