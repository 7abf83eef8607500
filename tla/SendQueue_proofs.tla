-------------------------- MODULE SendQueue_proofs --------------------------
(***************************************************************************)
(* SendQueue keeps one write in flight and implements FrameStream, for any *)
(* set of sending threads, any number of pieces per frame and any bound on *)
(* the sends.                                                              *)
(*                                                                         *)
(* IInv is inductive.  Its parts: the mutex is held by the thread inside   *)
(* the critical sections; only IoThread runs handlers and transfers; the   *)
(* queue is the tail of the order of acceptance; what is outstanding is    *)
(* the write of the front, except between the decision to start it and its *)
(* start; and the piece that has to follow the stream is the next piece of *)
(* that write.                                                             *)
(***************************************************************************)
EXTENDS SendQueue, FiniteSetTheorems, SequenceTheorems, TLAPS

MutexHeld ==
  \A t \in Threads : pc[t] \in Locked <=> mutex = t

IoHandlers ==
  \A t \in Threads : pc[t] \in {"erase", "clear", "next", "write", "read"} => t = IoThread

QueueOrder ==
  /\ Len(queue) <= Len(accepted)
  /\ \A i \in 1..Len(queue) : queue[i] = Len(accepted) - Len(queue) + i

\* The frame the next write is of: the front, or the next one accepted.
FrontNumber == Len(accepted) - Len(queue) + 1

Starting ==
  \E t \in Threads : pc[t] = "next" \/ (pc[t] = "test" /\ Len(queue) = 1)

NoneInFlight == DOMAIN writes = {} /\ ended = <<>>

OneInFlight ==
  \/ DOMAIN writes = {FrontNumber} /\ ended = <<>>
  \/ DOMAIN writes = {} /\ Len(ended) = 1 /\ ended[1].frame = FrontNumber

InFlight == IF Starting \/ queue = <<>> THEN NoneInFlight ELSE OneInFlight

Handled ==
  /\ \A t \in Threads : pc[t] = "test" => queue /= <<>>
  /\ \A t \in Threads : pc[t] = "erase" => ended /= <<>> /\ ended[1].ok
  /\ \A t \in Threads : pc[t] = "clear" => ended /= <<>> /\ ~ended[1].ok

\* What the stream waits for.
Expected ==
  IF ended /= <<>> THEN [frame |-> FrontNumber + 1, chunk |-> 1]
  ELSE IF DOMAIN writes /= {} THEN [frame |-> FrontNumber, chunk |-> writes[FrontNumber] + 1]
  ELSE [frame |-> FrontNumber, chunk |-> 1]

StreamWaits ==
  up => /\ Stream!NextChunk(wire) = Expected
        /\ ended /= <<>> => ended[1].ok

IInv ==
  /\ TypeOK
  /\ MutexHeld
  /\ IoHandlers
  /\ QueueOrder
  /\ Handled
  /\ InFlight
  /\ StreamWaits

-----------------------------------------------------------------------------
(* Each action keeps IInv.  The mutex, the roles of the threads and the    *)
(* handlers' preconditions are control, and follow from pc; the others are *)
(* about sequences and take a step each.                                   *)

(* What the proofs need of a queue that is not empty.                      *)
LEMMA NonEmpty ==
  ASSUME NEW S, NEW s \in Seq(S), s /= <<>>
  PROVE  /\ Len(s) \in Nat \ {0} /\ s[1] \in S
         /\ Tail(s) \in Seq(S) /\ Len(Tail(s)) = Len(s) - 1
         /\ \A i \in 1..Len(Tail(s)) : Tail(s)[i] = s[i + 1]
         /\ Len(s) = 1 => Tail(s) = <<>>
<1>1. Len(s) \in Nat \ {0}
  BY EmptySeq
<1>2. s[1] \in S
  BY <1>1, ElementOfSeq
<1>3. /\ Tail(s) \in Seq(S) /\ Len(Tail(s)) = Len(s) - 1
      /\ \A i \in 1..Len(Tail(s)) : Tail(s)[i] = s[i + 1]
  BY HeadTailProperties
<1>4. Len(s) = 1 => Tail(s) = <<>>
  <2>1. Len(s) = 1 => Len(Tail(s)) = 0
    BY <1>3
  <2>2. QED
    BY <1>3, <2>1, EmptySeq
<1>5. QED
  BY <1>1, <1>2, <1>3, <1>4

(* Without its first element a queue of consecutive numbers still is one.  *)
LEMMA TailOrder ==
  ASSUME NEW q \in Seq(Nat \ {0}), q /= <<>>, NEW n \in Nat, Len(q) <= n,
         \A i \in 1..Len(q) : q[i] = n - Len(q) + i
  PROVE  /\ Len(Tail(q)) <= n
         /\ \A i \in 1..Len(Tail(q)) : Tail(q)[i] = n - Len(Tail(q)) + i
<1>1. /\ Len(q) \in Nat \ {0} /\ Len(Tail(q)) = Len(q) - 1
      /\ \A i \in 1..Len(Tail(q)) : Tail(q)[i] = q[i + 1]
  BY NonEmpty
<1>2. ASSUME NEW i \in 1..Len(Tail(q)) PROVE Tail(q)[i] = n - Len(Tail(q)) + i
  <2>1. i + 1 \in 1..Len(q) /\ Tail(q)[i] = q[i + 1]
    BY <1>1
  <2>2. QED
    BY <1>1, <2>1
<1>3. QED
  BY <1>1, <1>2

(* An appended sequence is not empty and ends with the new element.        *)
LEMMA LastOfAppend ==
  ASSUME NEW S, NEW s \in Seq(S), NEW e \in S
  PROVE  /\ Append(s, e) \in Seq(S)
         /\ Append(s, e) /= <<>>
         /\ Append(s, e)[Len(Append(s, e))] = e
  BY AppendProperties

(* The front of the queue has the number that QueueOrder gives it.         *)
LEMMA Front ==
  ASSUME TypeOK, QueueOrder, queue /= <<>>
  PROVE  /\ queue[1] = FrontNumber
         /\ FrontNumber \in Nat \ {0}
         /\ FrontNumber <= Len(accepted)
<1>1. Len(queue) \in Nat \ {0} /\ queue[1] \in Nat \ {0}
  BY NonEmpty DEF TypeOK
<1>2. Len(accepted) \in Nat
  BY LenProperties DEF TypeOK
<1>3. 1 \in 1..Len(queue)
  BY <1>1
<1>4. queue[1] = Len(accepted) - Len(queue) + 1
  BY <1>3 DEF QueueOrder
<1>5. QED
  BY <1>1, <1>2, <1>4 DEF FrontNumber

(* The initial states satisfy the invariant.                               *)
LEMMA Initially == Init => IInv
  BY SendAssumption
  DEF Init, IInv, TypeOK, PC, MutexHeld, IoHandlers, QueueOrder, Handled, InFlight, StreamWaits,
      Starting, NoneInFlight, FrontNumber, Expected, Stream!NextChunk, Locked

(* send takes the mutex: only control changes.                             *)
LEMMA LockToSendStep == ASSUME IInv, NEW t \in Threads, LockToSend(t) PROVE IInv'
<1> USE SendAssumption DEF IInv, TypeOK, PC, MutexHeld, IoHandlers, Locked, LockToSend, Goto
<1>1. TypeOK' /\ MutexHeld' /\ IoHandlers' /\ QueueOrder' /\ Handled'
  BY DEF QueueOrder, Handled
<1>2. Starting' = Starting
  BY DEF Starting
<1>3. InFlight' /\ StreamWaits'
  BY <1>2 DEF InFlight, NoneInFlight, OneInFlight, StreamWaits, FrontNumber, Expected, Stream!NextChunk
<1>4. QED
  BY <1>1, <1>3

(* emplace_back gives the new frame the next number.                       *)
LEMMA EmplaceStep == ASSUME IInv, NEW t \in Threads, Emplace(t) PROVE IInv'
<1> USE SendAssumption DEF IInv, TypeOK, PC, MutexHeld, IoHandlers, Locked, Emplace, Goto
<1>1. /\ Len(accepted') = Len(accepted) + 1
      /\ Len(queue') = Len(queue) + 1
      /\ queue'[Len(queue) + 1] = Len(accepted) + 1
      /\ \A i \in 1..Len(queue) : queue'[i] = queue[i]
      /\ queue' /= <<>>
  OBVIOUS
<1>2. FrontNumber' = FrontNumber
  BY <1>1 DEF FrontNumber
<1>3. TypeOK'
  <2>1. queue' \in Seq(Nat \ {0}) /\ accepted' \in Seq(Threads)
    OBVIOUS
  <2>2. QED
    BY <2>1
<1>4. MutexHeld' /\ IoHandlers' /\ Handled'
  BY <1>1 DEF Handled
<1>5. QueueOrder'
  BY <1>1 DEF QueueOrder
<1>6. ~Starting /\ (Starting' <=> queue = <<>>)
  BY <1>1 DEF Starting
<1>7. InFlight'
  BY <1>1, <1>2, <1>6 DEF InFlight, NoneInFlight, OneInFlight
<1>8. StreamWaits'
  BY <1>2 DEF StreamWaits, Expected, Stream!NextChunk
<1>9. QED
  BY <1>3, <1>4, <1>5, <1>7, <1>8

(* Starting the write of the front, in send and in the handler alike.      *)
LEMMA StartWriteStep ==
  ASSUME IInv, NEW t \in Threads, pc[t] = "next" \/ pc[t] = "test", Starting,
         queue /= <<>>, StartWrite(t), UNCHANGED <<ended, accepted, wire, up>>
  PROVE  IInv'
<1> USE SendAssumption DEF IInv, TypeOK, PC, MutexHeld, IoHandlers, Locked, StartWrite, Goto
<1>1. queue[1] = FrontNumber /\ queue[1] \in Nat \ {0}
  BY Front
<1>2. NoneInFlight
  BY DEF InFlight
<1>3. DOMAIN writes' = {FrontNumber} /\ writes'[FrontNumber] = 0
  BY <1>1, <1>2 DEF NoneInFlight
<1>4. TypeOK'
  <2>1. /\ writes' = [f \in DOMAIN writes' |-> writes'[f]]
        /\ \A f \in DOMAIN writes' : f \in Nat \ {0} /\ writes'[f] \in 0..Chunks - 1
    BY <1>1, <1>3
  <2>2. QED
    BY <2>1
<1>5. MutexHeld' /\ IoHandlers' /\ QueueOrder' /\ Handled'
  BY DEF QueueOrder, Handled
<1>6. ~Starting'
  BY DEF Starting
<1>7. FrontNumber' = FrontNumber
  BY DEF FrontNumber
<1>8. InFlight'
  BY <1>2, <1>3, <1>6, <1>7 DEF InFlight, NoneInFlight, OneInFlight
<1>9. Stream!NextChunk(wire)' = Stream!NextChunk(wire)
  BY DEF Stream!NextChunk
<1>10. StreamWaits'
  BY <1>2, <1>3, <1>7, <1>9 DEF StreamWaits, Expected, NoneInFlight
<1>11. QED
  BY <1>4, <1>5, <1>8, <1>10

(* The mutex is released with nothing decided: the queue is empty, or its  *)
(* front is being written.                                                 *)
LEMMA ReleaseStep ==
  ASSUME IInv, NEW t \in Threads, pc[t] \in Locked, ~(pc[t] \in {"erase", "clear"}),
         Starting => queue = <<>>, Release(t), UNCHANGED <<ended, accepted, wire, up>>
  PROVE  IInv'
<1> USE SendAssumption DEF IInv, TypeOK, PC, MutexHeld, IoHandlers, Locked, Release, Goto
<1>1. TypeOK' /\ MutexHeld' /\ IoHandlers' /\ QueueOrder' /\ Handled'
  BY DEF QueueOrder, Handled
<1>2. ~Starting'
  BY DEF Starting
<1>3. FrontNumber' = FrontNumber /\ Stream!NextChunk(wire)' = Stream!NextChunk(wire)
  BY DEF FrontNumber, Stream!NextChunk
<1>4. InFlight'
  BY <1>2, <1>3 DEF InFlight, NoneInFlight, OneInFlight
<1>5. StreamWaits'
  BY <1>3 DEF StreamWaits, Expected
<1>6. QED
  BY <1>1, <1>4, <1>5

(* send starts the write of a frame that found the queue empty.            *)
LEMMA TestAndStartStep == ASSUME IInv, NEW t \in Threads, TestAndStart(t) PROVE IInv'
<1>1. CASE Len(queue) = 1
  <2>1. Starting /\ StartWrite(t)
    BY <1>1 DEF TestAndStart, Starting
  <2>2. queue /= <<>> /\ pc[t] = "test"
    BY DEF TestAndStart, IInv, Handled
  <2>3. QED
    BY <2>1, <2>2, StartWriteStep DEF TestAndStart
<1>2. CASE Len(queue) /= 1
  <2>1. ~Starting
    BY <1>2 DEF TestAndStart, Starting, IInv, MutexHeld, Locked
  <2>2. Release(t) /\ pc[t] = "test"
    BY <1>2 DEF TestAndStart
  <2>3. pc[t] \in Locked /\ ~(pc[t] \in {"erase", "clear"})
    BY <2>2 DEF Locked
  <2>4. QED
    BY <2>1, <2>2, <2>3, ReleaseStep DEF TestAndStart
<1>3. QED
  BY <1>1, <1>2

(* async_write has returned: the mutex is released.                        *)
LEMMA InitiatedStep == ASSUME IInv, NEW t \in Threads, Initiated(t) PROVE IInv'
<1>1. ~Starting
  BY DEF Initiated, Starting, IInv, MutexHeld, Locked
<1>2. pc[t] \in Locked /\ ~(pc[t] \in {"erase", "clear"})
  BY DEF Locked, Initiated
<1>3. QED
  BY <1>1, <1>2, ReleaseStep DEF Initiated

(* A completion is taken: its handler is in the branch of its result.      *)
LEMMA LockToCompleteStep == ASSUME IInv, LockToComplete PROVE IInv'
<1> USE SendAssumption DEF IInv, TypeOK, PC, MutexHeld, IoHandlers, Locked, LockToComplete, Goto
<1>1. TypeOK' /\ MutexHeld' /\ IoHandlers' /\ QueueOrder'
  BY DEF QueueOrder
<1>2. Handled'
  BY DEF Handled
<1>3. Starting' = Starting
  BY DEF Starting
<1>4. InFlight' /\ StreamWaits'
  BY <1>3 DEF InFlight, NoneInFlight, OneInFlight, StreamWaits, FrontNumber, Expected, Stream!NextChunk
<1>5. QED
  BY <1>1, <1>2, <1>4

(* The frame that has been written leaves the queue.                       *)
LEMMA EraseFrontStep == ASSUME IInv, EraseFront PROVE IInv'
<1> USE SendAssumption DEF IInv, TypeOK, PC, MutexHeld, IoHandlers, Locked, EraseFront, Goto
<1>1. ended /= <<>> /\ ended[1].ok
  BY DEF Handled
<1>2. queue /= <<>> /\ OneInFlight
  BY <1>1 DEF InFlight, NoneInFlight
<1>3. DOMAIN writes = {} /\ Len(ended) = 1
  BY <1>1, <1>2 DEF OneInFlight
<1>4. ended' = <<>>
  BY <1>1, <1>3, NonEmpty
<1>5. /\ queue' \in Seq(Nat \ {0})
      /\ Len(queue') = Len(queue) - 1
      /\ \A i \in 1..Len(queue') : queue'[i] = queue[i + 1]
  BY <1>2, NonEmpty
<1>6. FrontNumber' = FrontNumber + 1
  BY <1>5 DEF FrontNumber
<1>7. TypeOK'
  <2>1. ended' \in Seq([frame : Nat \ {0}, ok : BOOLEAN])
    BY <1>1, NonEmpty
  <2>2. QED
    BY <1>5, <2>1
<1>8. MutexHeld' /\ IoHandlers' /\ Handled'
  BY DEF Handled
<1>9. QueueOrder'
  <2>1. /\ queue' = Tail(queue) /\ accepted' = accepted
        /\ queue \in Seq(Nat \ {0}) /\ accepted \in Seq(Threads)
    OBVIOUS
  <2>2. Len(accepted) \in Nat
    BY <2>1, LenProperties
  <2>3. /\ Len(Tail(queue)) <= Len(accepted)
        /\ \A i \in 1..Len(Tail(queue)) : Tail(queue)[i] = Len(accepted) - Len(Tail(queue)) + i
    BY <1>2, <2>1, <2>2, TailOrder DEF QueueOrder
  <2>4. QED
    BY <2>1, <2>3 DEF QueueOrder
<1>10. InFlight'
  BY <1>3, <1>4 DEF InFlight, Starting, NoneInFlight
<1>11. StreamWaits'
  <2>1. Expected' = Expected
    BY <1>1, <1>3, <1>4, <1>6 DEF Expected
  <2>2. Stream!NextChunk(wire)' = Stream!NextChunk(wire)
    BY DEF Stream!NextChunk
  <2>3. QED
    BY <1>4, <2>1, <2>2 DEF StreamWaits
<1>12. QED
  BY <1>7, <1>8, <1>9, <1>10, <1>11

(* The handler starts the write of the new front, if there is one.         *)
LEMMA StartNextStep == ASSUME IInv, StartNext PROVE IInv'
<1> USE SendAssumption
<1>1. Starting
  BY DEF Starting, StartNext
<1>2. CASE Len(queue) > 0
  <2>1. queue /= <<>> /\ StartWrite(IoThread)
    BY <1>2 DEF StartNext, IInv, TypeOK
  <2>2. QED
    BY <1>1, <2>1, StartWriteStep DEF StartNext
<1>3. CASE ~(Len(queue) > 0)
  <2>1. queue = <<>> /\ Release(IoThread)
    BY <1>3 DEF StartNext, IInv, TypeOK
  <2>2. pc[IoThread] \in Locked /\ ~(pc[IoThread] \in {"erase", "clear"})
    BY DEF Locked, StartNext
  <2>3. QED
    BY <2>1, <2>2, ReleaseStep DEF StartNext
<1>4. QED
  BY <1>2, <1>3

(* A failed write empties the queue; the socket is already lost.           *)
LEMMA ClearQueueStep == ASSUME IInv, ClearQueue PROVE IInv'
<1> USE SendAssumption DEF IInv, TypeOK, PC, MutexHeld, IoHandlers, Locked, ClearQueue, Goto
<1>1. ended /= <<>> /\ ~ended[1].ok
  BY DEF Handled
<1>2. ~up
  BY <1>1 DEF StreamWaits
<1>3. DOMAIN writes = {} /\ Len(ended) = 1
  BY <1>1 DEF InFlight, NoneInFlight, OneInFlight
<1>4. ended' = <<>> /\ queue' = <<>>
  BY <1>1, <1>3, NonEmpty
<1>5. TypeOK' /\ MutexHeld' /\ IoHandlers' /\ Handled'
  BY <1>4 DEF Handled
<1>6. QueueOrder'
  BY <1>4 DEF QueueOrder
<1>7. InFlight' /\ StreamWaits'
  BY <1>2, <1>3, <1>4 DEF InFlight, NoneInFlight, StreamWaits
<1>8. QED
  BY <1>5, <1>6, <1>7

(* A step of IoThread that only moves its pc between "idle", "write" and   *)
(* "read", and the loss of the socket.                                     *)
LEMMA QuietStep ==
  ASSUME IInv, BeginWriteSome \/ BeginReadSome \/ EndReadSome \/ LoseSocket PROVE IInv'
<1> USE SendAssumption DEF IInv, TypeOK, PC, MutexHeld, IoHandlers, Locked, Goto,
      BeginWriteSome, BeginReadSome, EndReadSome, LoseSocket
<1>1. /\ UNCHANGED <<mutex, queue, writes, ended, accepted, wire>>
      /\ up' = up \/ up' = FALSE
  OBVIOUS
<1>2. /\ pc' \in [Threads -> PC]
      /\ \A t \in Threads : pc'[t] = pc[t] \/ (t = IoThread /\ pc'[t] \in {"idle", "write", "read"}
                                                          /\ pc[t] \in {"idle", "write", "read"})
  OBVIOUS
<1>3. TypeOK'
  BY <1>1, <1>2
<1>4. MutexHeld' /\ IoHandlers' /\ QueueOrder' /\ Handled'
  BY <1>1, <1>2 DEF QueueOrder, Handled
<1>5. Starting' = Starting
  BY <1>1, <1>2 DEF Starting
<1>6. InFlight'
  BY <1>1, <1>5 DEF InFlight, NoneInFlight, OneInFlight, FrontNumber
<1>7. StreamWaits'
  BY <1>1 DEF StreamWaits, FrontNumber, Expected, Stream!NextChunk
<1>8. QED
  BY <1>3, <1>4, <1>6, <1>7

(* What a write in progress says of the rest.                              *)
LEMMA OutstandingWrite ==
  ASSUME IInv, NEW f \in DOMAIN writes
  PROVE  /\ ~Starting /\ queue /= <<>>
         /\ f = FrontNumber /\ DOMAIN writes = {f} /\ ended = <<>>
         /\ f = queue[1] /\ f <= Len(accepted)
         /\ up => Stream!NextChunk(wire) = [frame |-> f, chunk |-> writes[f] + 1]
<1> USE DEF IInv, TypeOK
<1>1. ~Starting /\ queue /= <<>> /\ OneInFlight
  BY DEF InFlight, NoneInFlight
<1>2. f = FrontNumber /\ DOMAIN writes = {f} /\ ended = <<>>
  BY <1>1 DEF OneInFlight
<1>3. f = queue[1] /\ f <= Len(accepted)
  BY <1>1, <1>2, Front
<1>4. up => Stream!NextChunk(wire) = [frame |-> f, chunk |-> writes[f] + 1]
  BY <1>2 DEF StreamWaits, Expected
<1>5. QED
  BY <1>1, <1>2, <1>3, <1>4

(* The stream ends with the piece just written.                            *)
LEMMA PieceWritten ==
  ASSUME NEW f, WriteSome(f),
         wire \in Seq([frame : Nat \ {0}, chunk : 1..Chunks]),
         [frame |-> f, chunk |-> writes[f] + 1] \in [frame : Nat \ {0}, chunk : 1..Chunks]
  PROVE  /\ wire' \in Seq([frame : Nat \ {0}, chunk : 1..Chunks])
         /\ wire' /= <<>>
         /\ wire'[Len(wire')] = [frame |-> f, chunk |-> writes[f] + 1]
<1> DEFINE T == [frame : Nat \ {0}, chunk : 1..Chunks]
           piece == [frame |-> f, chunk |-> writes[f] + 1]
<1>1. wire' = Append(wire, piece)
  BY DEF WriteSome
<1>2. wire \in Seq(T) /\ piece \in T
  OBVIOUS
<1> HIDE DEF T, piece
<1>3. /\ Append(wire, piece) \in Seq(T)
      /\ Append(wire, piece) /= <<>>
      /\ Append(wire, piece)[Len(Append(wire, piece))] = piece
  BY <1>2, LastOfAppend
<1>4. wire' \in Seq(T) /\ wire' /= <<>> /\ wire'[Len(wire')] = piece
  BY <1>1, <1>3, Zenon
<1>5. QED
  BY <1>4 DEF T, piece

(* One more piece, and with the last one the completion.                   *)
LEMMA WriteSomeStep == ASSUME IInv, NEW f \in DOMAIN writes, WriteSome(f) PROVE IInv'
<1> DEFINE piece == [frame |-> f, chunk |-> writes[f] + 1]
<1> USE SendAssumption DEF IInv, TypeOK, PC, MutexHeld, IoHandlers, Locked, WriteSome, Goto
<1>1. /\ ~Starting /\ queue /= <<>>
      /\ f = FrontNumber /\ DOMAIN writes = {f} /\ ended = <<>>
  BY OutstandingWrite
<1>2. f \in Nat \ {0} /\ writes[f] \in 0..Chunks - 1
  OBVIOUS
<1>3. piece \in [frame : Nat \ {0}, chunk : 1..Chunks]
  BY <1>2
<1>4. /\ wire' \in Seq([frame : Nat \ {0}, chunk : 1..Chunks])
      /\ wire' /= <<>> /\ wire'[Len(wire')] = piece
  BY <1>3, PieceWritten
<1>5. MutexHeld' /\ IoHandlers' /\ QueueOrder' /\ Handled'
  BY <1>1 DEF QueueOrder, Handled
<1>6. ~Starting' /\ FrontNumber' = FrontNumber
  BY <1>1 DEF Starting, FrontNumber
<1>7. CASE writes[f] + 1 = Chunks
  <2>1. DOMAIN writes' = {} /\ ended' = <<[frame |-> f, ok |-> TRUE]>>
    <3>1. ended' = Append(<<>>, [frame |-> f, ok |-> TRUE]) /\ writes' = Retire(f)
      BY <1>1, <1>7
    <3>2. QED
      BY <1>1, <3>1 DEF Retire
  <2>2. writes' = [g \in DOMAIN writes' |-> writes'[g]]
    BY <1>7 DEF Retire
  <2>3. TypeOK'
    BY <1>2, <1>4, <2>1, <2>2
  <2>4. InFlight'
    BY <1>1, <1>6, <2>1 DEF InFlight, OneInFlight
  <2>5. Stream!NextChunk(wire)' = [frame |-> f + 1, chunk |-> 1]
    <3>1. ~(piece.chunk < Chunks) /\ piece.frame = f
      BY <1>2, <1>7
    <3> HIDE DEF piece
    <3>2. QED
      BY <1>4, <3>1 DEF Stream!NextChunk
  <2>6. StreamWaits'
    BY <1>1, <1>6, <2>1, <2>5 DEF StreamWaits, Expected
  <2>7. QED
    BY <1>5, <2>3, <2>4, <2>6
<1>8. CASE writes[f] + 1 /= Chunks
  <2>1. writes' = [writes EXCEPT ![f] = @ + 1] /\ ended' = ended
    BY <1>8
  <2>2. DOMAIN writes' = {f} /\ writes'[f] = writes[f] + 1
    BY <1>1, <2>1
  <2>3. writes' = [g \in DOMAIN writes' |-> writes'[g]]
    BY <2>1
  <2>4. TypeOK'
    BY <1>2, <1>4, <1>8, <2>1, <2>2, <2>3
  <2>5. InFlight'
    BY <1>1, <1>6, <2>1, <2>2 DEF InFlight, OneInFlight
  <2>6. Stream!NextChunk(wire)' = [frame |-> f, chunk |-> writes[f] + 2]
    <3>1. piece.chunk < Chunks /\ piece.frame = f /\ piece.chunk + 1 = writes[f] + 2
      BY <1>2, <1>8
    <3> HIDE DEF piece
    <3>2. QED
      BY <1>4, <3>1 DEF Stream!NextChunk
  <2>7. StreamWaits'
    BY <1>1, <1>2, <1>6, <2>1, <2>2, <2>6 DEF StreamWaits, Expected
  <2>8. QED
    BY <1>5, <2>4, <2>5, <2>7
<1>9. QED
  BY <1>7, <1>8

(* The write in progress fails.                                            *)
LEMMA FailWriteStep == ASSUME IInv, NEW f \in DOMAIN writes, FailWrite(f) PROVE IInv'
<1> USE SendAssumption DEF IInv, TypeOK, PC, MutexHeld, IoHandlers, Locked, FailWrite, Goto
<1>1. /\ ~Starting /\ queue /= <<>>
      /\ f = FrontNumber /\ DOMAIN writes = {f} /\ ended = <<>>
  BY OutstandingWrite
<1>2. DOMAIN writes' = {} /\ ended' = <<[frame |-> f, ok |-> FALSE]>>
  BY <1>1 DEF Retire
<1>3. TypeOK'
  <2>1. ended' \in Seq([frame : Nat \ {0}, ok : BOOLEAN])
    BY <1>2
  <2>2. writes' = [g \in DOMAIN writes' |-> writes'[g]]
    BY DEF Retire
  <2>3. QED
    BY <1>2, <2>1, <2>2
<1>4. MutexHeld' /\ IoHandlers' /\ QueueOrder' /\ Handled'
  BY <1>1 DEF QueueOrder, Handled
<1>5. ~Starting' /\ FrontNumber' = FrontNumber
  BY <1>1 DEF Starting, FrontNumber
<1>6. InFlight' /\ StreamWaits'
  BY <1>1, <1>2, <1>5 DEF InFlight, OneInFlight, StreamWaits
<1>7. QED
  BY <1>3, <1>4, <1>6

(* Every step keeps the invariant.                                         *)
LEMMA Inductive == Spec => []IInv
<1>1. IInv /\ [Next]_vars => IInv'
  <2> SUFFICES ASSUME IInv, [Next]_vars PROVE IInv'
    OBVIOUS
  <2>1. CASE UNCHANGED vars
    BY <2>1
    DEF vars, IInv, TypeOK, MutexHeld, IoHandlers, QueueOrder, Handled, InFlight, StreamWaits,
        Starting, NoneInFlight, OneInFlight, FrontNumber, Expected, Stream!NextChunk
  <2>2. CASE Complete
    BY <2>2, LockToCompleteStep, EraseFrontStep, StartNextStep, ClearQueueStep DEF Complete
  <2>3. CASE Transfer
    BY <2>3, QuietStep, WriteSomeStep, FailWriteStep DEF Transfer
  <2>4. CASE Read \/ LoseSocket
    BY <2>4, QuietStep DEF Read
  <2>5. ASSUME NEW t \in Threads, Send(t) PROVE IInv'
    BY <2>5, LockToSendStep, EmplaceStep, TestAndStartStep, InitiatedStep DEF Send
  <2>6. QED
    BY <2>1, <2>2, <2>3, <2>4, <2>5 DEF Next
<1>2. QED
  BY <1>1, Initially, PTL DEF Spec

-----------------------------------------------------------------------------
(* Every variable keeps its type, whatever the constants: the queue, the    *)
(* posted completions and the stream stay sequences of frames, and no       *)
(* async_write goes past its last piece (client_ws.hpp 164-263).            *)
THEOREM TypeCorrect == Spec => []TypeOK
  BY Inductive, PTL DEF IInv

(* One async_write at a time, of the front of the queue, and none for an   *)
(* empty queue, for any number of sending threads (client_ws.hpp 166-202). *)
THEOREM OneWriteInFlight == Spec => []FrontIsInFlight
<1>1. IInv => FrontIsInFlight
  <2> SUFFICES ASSUME IInv, mutex = NoThread
               PROVE  /\ Cardinality(DOMAIN writes) + Len(ended) = IF queue = <<>> THEN 0 ELSE 1
                      /\ \A f \in DOMAIN writes : f = queue[1]
                      /\ \A i \in DOMAIN ended : ended[i].frame = queue[1]
    BY DEF FrontIsInFlight
  <2>1. ~Starting
    BY SendAssumption DEF IInv, Starting, MutexHeld, Locked
  <2>2. CASE queue = <<>>
    BY <2>2, FS_EmptySet DEF IInv, InFlight, NoneInFlight
  <2>3. CASE queue /= <<>>
    <3>1. FrontNumber = queue[1]
      BY <2>3, Front DEF IInv
    <3>2. OneInFlight
      BY <2>1, <2>3 DEF IInv, InFlight
    <3>3. Cardinality({}) = 0 /\ Cardinality({FrontNumber}) = 1
      BY FS_EmptySet, FS_Singleton
    <3>4. Len(<<>>) = 0 /\ DOMAIN ended = 1..Len(ended)
      BY DEF IInv, TypeOK
    <3>5. QED
      BY <2>3, <3>1, <3>2, <3>3, <3>4 DEF OneInFlight
  <2>4. QED
    BY <2>2, <2>3
<1>2. QED
  BY <1>1, Inductive, PTL

(* The sending half implements the abstract byte stream: frames whole, in  *)
(* the order of acceptance, nothing after a loss (client_ws.hpp 166-263).  *)
THEOREM Implements == Spec => ImplementsStream
<1>1. Init => Stream!Init
  BY DEF Init, Stream!Init
<1>2. IInv /\ [Next]_vars => [Stream!Next]_Stream!vars
  <2> SUFFICES ASSUME IInv, [Next]_vars PROVE [Stream!Next]_Stream!vars
    OBVIOUS
  <2> USE DEF Stream!vars
  <2>1. CASE UNCHANGED vars
    BY <2>1 DEF vars
  <2>2. CASE Complete
    BY <2>2 DEF Complete, LockToComplete, EraseFront, StartNext, ClearQueue
  <2>3. CASE Transfer
    <3>1. CASE BeginWriteSome
      BY <3>1 DEF BeginWriteSome
    <3>2. ASSUME NEW f \in DOMAIN writes, WriteSome(f) PROVE Stream!Write
      <4>1. up /\ Stream!NextChunk(wire) = [frame |-> f, chunk |-> writes[f] + 1]
        BY <3>2, OutstandingWrite DEF WriteSome
      <4>2. f <= Len(accepted)
        BY OutstandingWrite
      <4>3. QED
        BY <3>2, <4>1, <4>2 DEF WriteSome, Stream!Write
    <3>3. ASSUME NEW f \in DOMAIN writes, FailWrite(f) PROVE Stream!Lose \/ UNCHANGED Stream!vars
      BY <3>3 DEF FailWrite, Stream!Lose, IInv, TypeOK
    <3>4. QED
      BY <2>3, <3>1, <3>2, <3>3 DEF Transfer, Stream!Next
  <2>4. CASE Read \/ LoseSocket
    BY <2>4 DEF Read, BeginReadSome, EndReadSome, LoseSocket, Stream!Lose, Stream!Next
  <2>5. ASSUME NEW t \in Threads, Send(t) PROVE [Stream!Next]_Stream!vars
    BY <2>5 DEF Send, LockToSend, Emplace, TestAndStart, Initiated, Stream!Accept, Stream!Next
  <2>6. QED
    BY <2>1, <2>2, <2>3, <2>4, <2>5 DEF Next
<1>3. QED
  BY <1>1, <1>2, Inductive, PTL DEF Spec, Stream!Spec, ImplementsStream
=============================================================================
