---------------------------- MODULE FrameStream ----------------------------
(***************************************************************************)
(* What SocketClientBase::Connection::send promises: the frames handed to  *)
(* it are accepted in some order, and the byte stream to the gateway is    *)
(* the accepted frames one after the other, each of them whole, until the  *)
(* connection is lost.  A lost connection writes nothing more.             *)
(*                                                                         *)
(* A frame is named by its position in the order of acceptance; it reaches *)
(* the stream as Chunks pieces (one per async_write_some).                 *)
(***************************************************************************)
EXTENDS Naturals, Sequences

CONSTANTS Threads,   \* the threads that call send
          Chunks     \* pieces a frame is written in

VARIABLES accepted,  \* accepted[i]: the thread whose send was the i-th accepted
          wire,      \* the pieces written, oldest first
          up         \* the connection can still be written to

vars == <<accepted, wire, up>>

Chunk == [frame : Nat \ {0}, chunk : 1..Chunks]

\* The piece that has to follow the stream w.
NextChunk(w) ==
  IF w = <<>> THEN [frame |-> 1, chunk |-> 1]
  ELSE IF w[Len(w)].chunk < Chunks
       THEN [frame |-> w[Len(w)].frame, chunk |-> w[Len(w)].chunk + 1]
       ELSE [frame |-> w[Len(w)].frame + 1, chunk |-> 1]

TypeOK ==
  /\ accepted \in Seq(Threads)
  /\ wire \in Seq(Chunk)
  /\ up \in BOOLEAN

Init ==
  /\ accepted = <<>>
  /\ wire = <<>>
  /\ up = TRUE

Accept(t) ==
  /\ accepted' = Append(accepted, t)
  /\ UNCHANGED <<wire, up>>

Write ==
  /\ up
  /\ NextChunk(wire).frame <= Len(accepted)
  /\ wire' = Append(wire, NextChunk(wire))
  /\ UNCHANGED <<accepted, up>>

Lose ==
  /\ up
  /\ up' = FALSE
  /\ UNCHANGED <<accepted, wire>>

Next == Write \/ Lose \/ \E t \in Threads : Accept(t)

Spec == Init /\ [][Next]_vars
=============================================================================
