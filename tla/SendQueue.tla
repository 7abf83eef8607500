----------------------------- MODULE SendQueue -----------------------------
(***************************************************************************)
(* The sending half of SocketClientBase::Connection (client_ws.hpp): send, *)
(* send_from_queue and its completion handler, around send_queue_mutex.    *)
(*                                                                         *)
(* Every thread of Threads may call send: the console thread does          *)
(* (identify, resume), and so does IoThread, the thread inside             *)
(* io_service.run() (heartbeats, pongs, the close frame).  Only IoThread   *)
(* runs completion handlers and moves bytes to and from the socket.        *)
(*                                                                         *)
(* The frame at the front of send_queue stays there while it is being      *)
(* written; an empty queue is what tells send to start the write itself.   *)
(* A frame is named by its position in the order of the emplace_back       *)
(* calls; async_write is a composed operation that moves it to the socket  *)
(* in Chunks pieces.                                                       *)
(*                                                                         *)
(* Abstracted: the frame's bytes, header and mask; the callbacks (every    *)
(* send of the program passes none); the idle timer (timeout_idle is 0).   *)
(***************************************************************************)
EXTENDS Naturals, Sequences, FiniteSets

CONSTANTS Threads,   \* the threads that send
          IoThread,  \* the one inside io_service.run()
          NoThread,  \* nobody holds the mutex
          Chunks,    \* async_write_some calls a frame takes
          MaxSends   \* bound: send calls of one thread

ASSUME SendAssumption ==
  /\ IoThread \in Threads
  /\ NoThread \notin Threads
  /\ Chunks \in Nat \ {0}
  /\ MaxSends \in Nat

VARIABLES
  mutex,     \* holder of send_queue_mutex
  pc,        \* pc[t]: what t is doing
  queue,     \* send_queue
  writes,    \* the async_writes that have not ended: frame -> pieces written
  ended,     \* completions posted to the io_service, not handled yet
  accepted,  \* history: accepted[i] is the thread of the i-th emplace_back
  wire,      \* history: the pieces that reached the socket
  up         \* the socket can still be written to

vars == <<mutex, pc, queue, writes, ended, accepted, wire, up>>

Stream == INSTANCE FrameStream

-----------------------------------------------------------------------------
(* send holds the mutex in "emplace", "test" and "initiate"; the           *)
(* completion handler in "erase", "next" and "initiate".  A thread is      *)
(* inside the TLS stream object in "initiate", "write" and "read".         *)
PC == {"idle", "emplace", "test", "erase", "clear", "next", "initiate",
       "write", "read"}

Locked == {"emplace", "test", "erase", "clear", "next", "initiate"}

InStream == {"initiate", "write", "read"}

TypeOK ==
  /\ mutex \in Threads \cup {NoThread}
  /\ pc \in [Threads -> PC]
  /\ queue \in Seq(Nat \ {0})
  /\ writes = [f \in DOMAIN writes |-> writes[f]]
  /\ \A f \in DOMAIN writes : f \in Nat \ {0} /\ writes[f] \in 0..Chunks - 1
  /\ ended \in Seq([frame : Nat \ {0}, ok : BOOLEAN])
  /\ accepted \in Seq(Threads)
  /\ wire \in Seq([frame : Nat \ {0}, chunk : 1..Chunks])
  /\ up \in BOOLEAN

Init ==
  /\ mutex = NoThread
  /\ pc = [t \in Threads |-> "idle"]
  /\ queue = <<>>
  /\ writes = <<>>
  /\ ended = <<>>
  /\ accepted = <<>>
  /\ wire = <<>>
  /\ up = TRUE

Goto(t, label) == pc' = [pc EXCEPT ![t] = label]

\* async_write of the front of the queue; the mutex is held by t, which
\* enters the stream to start the operation.
StartWrite(t) ==
  /\ writes' = [f \in DOMAIN writes \cup {queue[1]} |->
                  IF f = queue[1] THEN 0 ELSE writes[f]]
  /\ Goto(t, "initiate")
  /\ UNCHANGED <<mutex, queue>>

Release(t) ==
  /\ mutex' = NoThread
  /\ Goto(t, "idle")
  /\ UNCHANGED <<queue, writes>>

-----------------------------------------------------------------------------
(* send                                                                    *)

SendsOf(t) == Cardinality({i \in DOMAIN accepted : accepted[i] = t})

LockToSend(t) ==
  /\ pc[t] = "idle"
  /\ mutex = NoThread
  /\ SendsOf(t) < MaxSends
  /\ mutex' = t
  /\ Goto(t, "emplace")
  /\ UNCHANGED <<queue, writes, ended, accepted, wire, up>>

\* Mutant: the new frame goes to the front.
EmplaceFront(t) ==
  /\ pc[t] = "emplace"
  /\ accepted' = Append(accepted, t)
  /\ queue' = <<Len(accepted) + 1>> \o queue
  /\ Goto(t, "test")
  /\ UNCHANGED <<mutex, writes, ended, wire, up>>

Emplace(t) ==
  /\ pc[t] = "emplace"
  /\ accepted' = Append(accepted, t)
  /\ queue' = Append(queue, Len(accepted) + 1)
  /\ Goto(t, "test")
  /\ UNCHANGED <<mutex, writes, ended, wire, up>>

\* Mutant: send starts a write whatever the queue already held.
TestAndStartAlways(t) ==
  /\ pc[t] = "test"
  /\ StartWrite(t)
  /\ UNCHANGED <<ended, accepted, wire, up>>

TestAndStart(t) ==
  /\ pc[t] = "test"
  /\ IF Len(queue) = 1 THEN StartWrite(t) ELSE Release(t)
  /\ UNCHANGED <<ended, accepted, wire, up>>

\* async_write returns; so do send_from_queue and the scope of the lock.
Initiated(t) ==
  /\ pc[t] = "initiate"
  /\ Release(t)
  /\ UNCHANGED <<ended, accepted, wire, up>>

-----------------------------------------------------------------------------
(* The completion handler of async_write, on IoThread                      *)

LockToComplete ==
  /\ pc[IoThread] = "idle"
  /\ mutex = NoThread
  /\ ended /= <<>>
  /\ mutex' = IoThread
  /\ Goto(IoThread, IF ended[1].ok THEN "erase" ELSE "clear")
  /\ UNCHANGED <<queue, writes, ended, accepted, wire, up>>

EraseFront ==
  /\ pc[IoThread] = "erase"
  /\ queue' = Tail(queue)
  /\ ended' = Tail(ended)
  /\ Goto(IoThread, "next")
  /\ UNCHANGED <<mutex, writes, accepted, wire, up>>

\* Mutant: the handler does not start the write of the new front.
StartNextNever ==
  /\ pc[IoThread] = "next"
  /\ Release(IoThread)
  /\ UNCHANGED <<ended, accepted, wire, up>>

StartNext ==
  /\ pc[IoThread] = "next"
  /\ IF Len(queue) > 0 THEN StartWrite(IoThread) ELSE Release(IoThread)
  /\ UNCHANGED <<ended, accepted, wire, up>>

\* Mutant: only the frame that failed is dropped.
ClearFront ==
  /\ pc[IoThread] = "clear"
  /\ queue' = Tail(queue)
  /\ ended' = Tail(ended)
  /\ mutex' = NoThread
  /\ Goto(IoThread, "idle")
  /\ UNCHANGED <<writes, accepted, wire, up>>

\* A write ended with an error: everything queued is dropped.
ClearQueue ==
  /\ pc[IoThread] = "clear"
  /\ queue' = <<>>
  /\ ended' = Tail(ended)
  /\ mutex' = NoThread
  /\ Goto(IoThread, "idle")
  /\ UNCHANGED <<writes, accepted, wire, up>>

-----------------------------------------------------------------------------
(* The socket under the composed operations, driven by IoThread            *)

Retire(f) == [g \in DOMAIN writes \ {f} |-> writes[g]]

BeginWriteSome ==
  /\ pc[IoThread] = "idle"
  /\ DOMAIN writes /= {}
  /\ Goto(IoThread, "write")
  /\ UNCHANGED <<mutex, queue, writes, ended, accepted, wire, up>>

\* Mutant: the operation ends one piece late.
WriteSomeMore(f) ==
  /\ pc[IoThread] = "write"
  /\ up
  /\ wire' = Append(wire, [frame |-> f, chunk |-> writes[f] + 1])
  /\ IF writes[f] = Chunks
     THEN /\ writes' = Retire(f)
          /\ ended' = Append(ended, [frame |-> f, ok |-> TRUE])
     ELSE /\ writes' = [writes EXCEPT ![f] = @ + 1]
          /\ UNCHANGED ended
  /\ Goto(IoThread, "idle")
  /\ UNCHANGED <<mutex, queue, accepted, up>>

\* One more piece of f is written; the last one posts the completion.
WriteSome(f) ==
  /\ pc[IoThread] = "write"
  /\ up
  /\ wire' = Append(wire, [frame |-> f, chunk |-> writes[f] + 1])
  /\ IF writes[f] + 1 = Chunks
     THEN /\ writes' = Retire(f)
          /\ ended' = Append(ended, [frame |-> f, ok |-> TRUE])
     ELSE /\ writes' = [writes EXCEPT ![f] = @ + 1]
          /\ UNCHANGED ended
  /\ Goto(IoThread, "idle")
  /\ UNCHANGED <<mutex, queue, accepted, up>>

\* The operation fails: the socket was lost, or is lost now.
FailWrite(f) ==
  /\ pc[IoThread] = "write"
  /\ up' = FALSE
  /\ writes' = Retire(f)
  /\ ended' = Append(ended, [frame |-> f, ok |-> FALSE])
  /\ Goto(IoThread, "idle")
  /\ UNCHANGED <<mutex, queue, accepted, wire>>

\* The peer, the network, or close() called by stop() from another thread.
LoseSocket ==
  /\ up
  /\ up' = FALSE
  /\ UNCHANGED <<mutex, pc, queue, writes, ended, accepted, wire>>

\* The pending async_read of the frame reader uses the same stream.
BeginReadSome ==
  /\ pc[IoThread] = "idle"
  /\ up
  /\ Goto(IoThread, "read")
  /\ UNCHANGED <<mutex, queue, writes, ended, accepted, wire, up>>

EndReadSome ==
  /\ pc[IoThread] = "read"
  /\ Goto(IoThread, "idle")
  /\ UNCHANGED <<mutex, queue, writes, ended, accepted, wire, up>>

-----------------------------------------------------------------------------
Send(t) == LockToSend(t) \/ Emplace(t) \/ TestAndStart(t) \/ Initiated(t)

Complete == LockToComplete \/ EraseFront \/ StartNext \/ ClearQueue

Transfer == BeginWriteSome \/ \E f \in DOMAIN writes : WriteSome(f) \/ FailWrite(f)

Read == BeginReadSome \/ EndReadSome

Next == Complete \/ Transfer \/ Read \/ LoseSocket \/ \E t \in Threads : Send(t)

(* While Client::Run is running, io_service.run() takes handlers from a    *)
(* FIFO: a ready completion or a ready write is not overtaken for ever by  *)
(* reads or by other locks of the mutex.  A thread inside send goes on.    *)
(* Nothing obliges a thread to send, the peer to speak, or the socket to   *)
(* break.                                                                  *)
Fairness ==
  /\ \A t \in Threads : WF_vars(Emplace(t) \/ TestAndStart(t) \/ Initiated(t))
  /\ WF_vars(EraseFront \/ StartNext \/ ClearQueue \/ EndReadSome)
  /\ WF_vars(\E f \in DOMAIN writes : WriteSome(f) \/ FailWrite(f))
  /\ SF_vars(LockToComplete)
  /\ SF_vars(BeginWriteSome)

Spec == Init /\ [][Next]_vars

FairSpec == Spec /\ Fairness

-----------------------------------------------------------------------------
(* With the mutex free, the only async_write outstanding -- in progress or *)
(* ended and not handled -- is that of the front of send_queue, and there  *)
(* is one exactly when the queue is not empty: no frame is stranded, and   *)
(* two frames are never written at once (client_ws.hpp 166-202, 258-262).  *)
FrontIsInFlight ==
  mutex = NoThread =>
    /\ Cardinality(DOMAIN writes) + Len(ended) = IF queue = <<>> THEN 0 ELSE 1
    /\ \A f \in DOMAIN writes : f = queue[1]
    /\ \A i \in DOMAIN ended : ended[i].frame = queue[1]

(* Frames reach the socket whole, in the order of emplace_back, and none   *)
(* after a failure: the sending half implements the abstract byte stream,  *)
(* accepted, wire and up being its state.                                  *)
ImplementsStream == Stream!Spec

(* A frame handed to send leaves the queue while Run is running: it is     *)
(* completely written or the socket is lost.  The program passes no        *)
(* callback, so nothing else would tell it that a frame is stuck           *)
(* (client_ws.hpp 174-199).                                                *)
EveryFrameLeaves ==
  \A i \in 1..MaxSends * Cardinality(Threads) :
    i <= Len(accepted) ~>
      /\ \A j \in DOMAIN queue : queue[j] /= i
      /\ ~up \/ \E k \in DOMAIN wire : wire[k] = [frame |-> i, chunk |-> Chunks]

(* asio/ssl/stream.hpp 44-49: a shared ssl::stream is "Unsafe.  The        *)
(* application must also ensure that all asynchronous operations are       *)
(* performed within the same implicit or explicit strand."  send starts    *)
(* async_write on the caller's thread, so this does not hold.              *)
OneThreadInStream ==
  \A s, t \in Threads : pc[s] \in InStream /\ pc[t] \in InStream => s = t
=============================================================================
