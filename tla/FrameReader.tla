---------------------------- MODULE FrameReader ----------------------------
(***************************************************************************)
(* The receiving half of SocketClientBase (client_ws.hpp): the end of      *)
(* upgrade, read_message and read_message_content, over asio's             *)
(* async_read_until and async_read.                                        *)
(*                                                                         *)
(* The bytes of the connection are numbered from 0: first Response, then   *)
(* the frames of the gateway one after the other.  The streambuf holds the *)
(* bytes taken..got-1.  async_read_until may receive bytes past the end of *)
(* the response; num_additional_bytes is what the code knows of them, and  *)
(* it decides how many more bytes each async_read waits for.               *)
(*                                                                         *)
(* A payload is the interval <<first, end>> of its bytes.  pc names the    *)
(* read that is outstanding; its completion handler is one action.  When   *)
(* the reader takes bytes for a header that are not one, or more bytes     *)
(* than the buffer has, pc is "misread" and the model stops there.         *)
(*                                                                         *)
(* Abstracted: the fields of the response, of which the verdict is left;   *)
(* the opcodes 0, 1 and 2 of data frames; max_message_size, which is       *)
(* SIZE_MAX; continue_lock, which is never null while Run is running.      *)
(***************************************************************************)
EXTENDS Integers, Sequences

CONSTANTS Response,   \* the upgrade response, of "r", "n" and other bytes
          Lengths,    \* the payload lengths the gateway uses
          MaxFrames,  \* bound: frames the gateway sends
          MaxRead,    \* bytes async_read_until asks for at most
          CutFrames   \* may a frame be cut at the end of those bytes?

Delimiter == <<"r", "n", "r", "n">>

\* The byte that follows the first p; those of frames are no part of a match.
Byte(p) == IF p < Len(Response) THEN Response[p + 1] ELSE "x"

\* Of the first n bytes, those from p on begin, or are, the delimiter.
Matches(p, n) == \A i \in 1..4 : p + i <= n => Byte(p + i - 1) = Delimiter[i]

ASSUME ReaderAssumption ==
  /\ Response \in Seq({"x", "r", "n"})
  /\ Len(Response) >= 4
  /\ \A p \in 0..Len(Response) - 4 :
       Matches(p, Len(Response)) <=> p = Len(Response) - 4
  /\ Lengths \subseteq Nat
  /\ MaxFrames \in Nat
  /\ MaxRead \in Nat \ {0}
  /\ CutFrames \in BOOLEAN

VARIABLES
  sent,        \* the frames of the gateway, in order
  draft,       \* the payloads of the message it has not finished
  said,        \* history: what it has said, see MessageStream
  got,         \* bytes received
  taken,       \* bytes taken out of the streambuf
  searched,    \* search_position_ of async_read_until
  additional,  \* num_additional_bytes of the outstanding read
  pc,          \* the outstanding read
  message,     \* fin_rsv_opcode and length of in_message
  fragmented,  \* fragmented_in_message: its payloads; <<>> is nullptr
  heard        \* history: what has been handled

gateway == <<sent, draft, said>>

vars == <<sent, draft, said, got, taken, searched, additional, pc, message,
          fragmented, heard>>

Reading == {"upgrade", "header", "length", "content"}

Stream == INSTANCE MessageStream WITH said <- said, heard <- heard,
                                      over <- pc \in {"closed", "failed"}

-----------------------------------------------------------------------------
(* Frames                                                                  *)

\* The opcode, of which the codes of data are one; or a frame with a mask,
\* whose opcode nobody looks at.
Kinds == {"data", "ping", "pong", "close", "masked"}

\* Bytes of the length that follow the first two.
LengthBytes(length) == IF length <= 125 THEN 0 ELSE IF length <= 65535 THEN 2 ELSE 8

Start(f) == f.at + 2 + LengthBytes(f.length)

End(f) == Start(f) + f.length

Payload(f) == <<Start(f), End(f)>>

StreamEnd == IF sent = <<>> THEN Len(Response) ELSE End(sent[Len(sent)])

\* Bytes after which no frame is cut.  The last of several frames received
\* with the response is not of length 1 either: see LeftoverCompleted.
Boundary(p) ==
  \/ p <= Len(Response)
  \/ \E i \in DOMAIN sent : p = End(sent[i]) /\ sent[i].length /= 1

Interval == Nat \X Nat

Item == [kind : {"message", "ping", "close"}, body : Seq(Interval)]

Header == [kind : Kinds, fin : BOOLEAN, length : Nat]

\* draft and index: of what the gateway had said when it sent the frame.
Frame == [kind : Kinds, fin : BOOLEAN, length : Nat, at : Nat,
          draft : Seq(Interval), index : Nat]

TypeOK ==
  /\ sent \in Seq(Frame)
  /\ draft \in Seq(Interval)
  /\ said \in Seq(Item)
  /\ got \in 0..StreamEnd
  /\ taken \in 0..got
  /\ searched \in 0..Len(Response)
  /\ additional \in Nat
  /\ pc \in Reading \cup {"closed", "failed", "misread"}
  /\ message \in Header
  /\ fragmented \in Seq(Interval)
  /\ heard \in Seq(Item)

NoMessage == [kind |-> "data", fin |-> FALSE, length |-> 0]

Init ==
  /\ sent = <<>>
  /\ draft = <<>>
  /\ said = <<>>
  /\ got = 0
  /\ taken = 0
  /\ searched = 0
  /\ additional = 0
  /\ pc = "upgrade"
  /\ message = NoMessage
  /\ fragmented = <<>>
  /\ heard = <<>>

-----------------------------------------------------------------------------
(* The gateway, which keeps to RFC 6455 but may mask a frame               *)

Silent == sent /= <<>> /\ sent[Len(sent)].kind \in {"close", "masked"}

SendFrame(kind, fin, length) ==
  /\ Len(sent) < MaxFrames
  /\ ~Silent
  /\ kind /= "data" => fin /\ length <= 125
  /\ LET frame == [kind |-> kind, fin |-> fin, length |-> length,
                   at |-> StreamEnd, draft |-> draft, index |-> Len(said)]
         parts == IF kind = "data" THEN Append(draft, Payload(frame))
                  ELSE <<Payload(frame)>>
         name  == IF kind = "data" THEN "message" ELSE kind
     IN /\ sent' = Append(sent, frame)
        /\ draft' = IF kind /= "data" THEN draft ELSE IF fin THEN <<>> ELSE parts
        /\ said' = IF ~fin \/ kind \in {"pong", "masked"} THEN said
                   ELSE Append(said, [kind |-> name, body |-> parts])
  /\ UNCHANGED <<got, taken, searched, additional, pc, message, fragmented, heard>>

-----------------------------------------------------------------------------
(* async_read_until and its handler                                        *)

\* Mutant: a partial match at the end is not kept for the next search.
FirstFull(from, n) ==
  CHOOSE p \in from..n :
    /\ p = n \/ (p + 4 <= n /\ Matches(p, n))
    /\ \A q \in from..p - 1 : ~(q + 4 <= n /\ Matches(q, n))

\* partial_search: the first full or partial match, or the end.
First(from, n) ==
  CHOOSE p \in from..n :
    /\ p = n \/ Matches(p, n)
    /\ \A q \in from..p - 1 : ~Matches(q, n)

\* n more bytes arrive.  With the whole response received it is parsed and
\* taken, and refused or accepted (status 101 and the right key).
ReadUpgrade(n) ==
  /\ pc = "upgrade"
  /\ got + n <= StreamEnd
  /\ CutFrames \/ Boundary(got + n)
  /\ got' = got + n
  /\ LET p == First(searched, got')
     IN IF p + 4 <= got'
        THEN /\ searched' = p + 4
             /\ \/ /\ taken' = p + 4
                   /\ additional' = got' - (p + 4)
                   /\ pc' = "header"
                \/ /\ pc' = "failed"
                   /\ UNCHANGED <<taken, additional>>
        ELSE /\ searched' = p
             /\ UNCHANGED <<taken, additional, pc>>
  /\ UNCHANGED <<gateway, message, fragmented, heard>>

-----------------------------------------------------------------------------
(* async_read of a message                                                 *)

\* Mutant: the difference is taken without the comparison.
MissingUnguarded(n) == n - additional

\* Bytes that async_read has to wait for when the caller needs n.
Missing(n) == IF additional > n THEN 0 ELSE n - additional

\* The read of a part of n bytes completes.
Complete(n) ==
  /\ got + Missing(n) <= StreamEnd
  /\ got' = got + Missing(n)

Misread ==
  /\ pc' = "misread"
  /\ UNCHANGED <<taken, additional, message>>

\* Mutant: an empty buffer is taken for a broken connection.
ReadHeaderOnce ==
  /\ pc = "header"
  /\ Complete(2)
  /\ IF got' - taken < 2 THEN Misread
     ELSE IF \A i \in DOMAIN sent : sent[i].at /= taken THEN Misread
     ELSE \E i \in DOMAIN sent :
       /\ sent[i].at = taken
       /\ taken' = taken + 2
       /\ message' = [kind |-> sent[i].kind, fin |-> sent[i].fin, length |-> sent[i].length]
       /\ IF sent[i].kind = "masked"
          THEN /\ pc' = "closed"
               /\ UNCHANGED additional
          ELSE /\ pc' = IF LengthBytes(sent[i].length) = 0 THEN "content" ELSE "length"
               /\ additional' = got' - taken - Missing(2)
  /\ UNCHANGED <<gateway, searched, fragmented, heard>>

\* The first two bytes of a frame.  An empty buffer after a read of nothing
\* means that num_additional_bytes was the length of the frame before: the
\* code starts again with none.
ReadHeader ==
  /\ pc = "header"
  /\ Complete(2)
  /\ IF got' = taken
     THEN /\ additional' = 0
          /\ UNCHANGED <<taken, pc, message>>
     ELSE IF got' - taken < 2 \/ \A i \in DOMAIN sent : sent[i].at /= taken
     THEN Misread
     ELSE \E i \in DOMAIN sent :
       /\ sent[i].at = taken
       /\ taken' = taken + 2
       /\ message' = [kind |-> sent[i].kind, fin |-> sent[i].fin, length |-> sent[i].length]
       /\ IF sent[i].kind = "masked"
          THEN /\ pc' = "closed"
               /\ UNCHANGED additional
          ELSE /\ pc' = IF LengthBytes(sent[i].length) = 0 THEN "content" ELSE "length"
               /\ additional' = got' - taken - Missing(2)
  /\ UNCHANGED <<gateway, searched, fragmented, heard>>

\* The 2 or 8 bytes of a longer length.
ReadLength ==
  /\ pc = "length"
  /\ LET n == LengthBytes(message.length)
     IN /\ Complete(n)
        /\ IF got' - taken < n THEN Misread
           ELSE /\ taken' = taken + n
                /\ additional' = got' - taken - Missing(n)
                /\ pc' = "content"
                /\ UNCHANGED message
  /\ UNCHANGED <<gateway, searched, fragmented, heard>>

-----------------------------------------------------------------------------
(* read_message_content                                                    *)

Hear(kind, body) == heard' = Append(heard, [kind |-> kind, body |-> body])

\* Mutant: a control frame resets the fragments too.
DeliverAll(payload) ==
  \/ /\ message.kind = "close"
     /\ Hear("close", <<payload>>)
     /\ pc' = "closed"
     /\ UNCHANGED fragmented
  \/ /\ message.kind = "ping"
     /\ Hear("ping", <<payload>>)
     /\ pc' = "header"
     /\ fragmented' = <<>>
  \/ /\ message.kind = "pong"
     /\ pc' = "header"
     /\ fragmented' = <<>>
     /\ UNCHANGED heard
  \/ /\ message.kind = "data" /\ ~message.fin
     /\ fragmented' = Append(fragmented, payload)
     /\ pc' = "header"
     /\ UNCHANGED heard
  \/ /\ message.kind = "data" /\ message.fin
     /\ Hear("message", Append(fragmented, payload))
     /\ fragmented' = <<>>
     /\ pc' = "header"

\* What the handler does with a payload: on_close and the closing frame, a
\* pong of the same bytes, nothing, a fragment kept, or on_message.
Deliver(payload) ==
  \/ /\ message.kind = "close"
     /\ Hear("close", <<payload>>)
     /\ pc' = "closed"
     /\ UNCHANGED fragmented
  \/ /\ message.kind = "ping"
     /\ Hear("ping", <<payload>>)
     /\ pc' = "header"
     /\ UNCHANGED fragmented
  \/ /\ message.kind = "pong"
     /\ pc' = "header"
     /\ UNCHANGED <<fragmented, heard>>
  \/ /\ message.kind = "data" /\ ~message.fin
     /\ fragmented' = Append(fragmented, payload)
     /\ pc' = "header"
     /\ UNCHANGED heard
  \/ /\ message.kind = "data" /\ message.fin
     /\ Hear("message", Append(fragmented, payload))
     /\ fragmented' = <<>>
     /\ pc' = "header"

\* With bytes in the buffer before the read, the payload is moved to a
\* message of its own and the rest kept for the next; otherwise the buffer
\* is the payload.  The next frame is told of the bytes before the read.
ReadContent ==
  /\ pc = "content"
  /\ Complete(message.length)
  /\ LET rest == got' - taken - Missing(message.length)
     IN IF rest > 0 /\ got' - taken < message.length
        THEN Misread /\ UNCHANGED <<fragmented, heard>>
        ELSE /\ taken' = IF rest > 0 THEN taken + message.length ELSE got'
             /\ Deliver(<<taken, taken'>>)
             /\ additional' = rest
             /\ UNCHANGED message
  /\ UNCHANGED <<gateway, searched>>

\* The outstanding read fails: connection_error, and no read follows.
Fail ==
  /\ pc \in Reading
  /\ pc' = "failed"
  /\ UNCHANGED <<gateway, got, taken, searched, additional, message, fragmented, heard>>

-----------------------------------------------------------------------------
Gateway ==
  \E kind \in Kinds, fin \in BOOLEAN, length \in Lengths : SendFrame(kind, fin, length)

Read == ReadHeader \/ ReadLength \/ ReadContent

Next ==
  \/ Gateway
  \/ \E n \in 1..MaxRead : ReadUpgrade(n)
  \/ Read
  \/ Fail

Spec == Init /\ [][Next]_vars

(* io_service.run() runs the handler of a read whose bytes have arrived.   *)
(* Nothing obliges the gateway to speak or the network to fail.            *)
FairSpec ==
  /\ Spec
  /\ WF_vars(\E n \in 1..MaxRead : ReadUpgrade(n))
  /\ WF_vars(Read)

-----------------------------------------------------------------------------
(* However the upgrade response is cut into reads, its end is found with   *)
(* the read that brings it, and not before: async_read_until neither waits *)
(* for bytes that may never come nor stops early (read_until.hpp 711-794). *)
ResponseFound ==
  /\ pc = "upgrade" => got < Len(Response)
  /\ pc \notin {"upgrade", "failed"} => searched = Len(Response)

(* Frames received along with the response are completed by the reads that *)
(* follow: no read takes payload for a header or bytes that have not come. *)
(* client_ws.hpp 445-448 says so of what is left in the streambuf: it "is  *)
(* appended to in the next async_read-function".  The arithmetic holds     *)
(* when no frame is cut by the reads of the response and the last of them  *)
(* is not of length 1 (CutFrames = FALSE); it does not hold otherwise.     *)
LeftoverCompleted == pc /= "misread"

(* Messages, pings and the close frame are handled in order, each once and *)
(* with its own bytes, whatever the fragments, the control frames between  *)
(* them and the bytes that came with the response; and as long as the      *)
(* connection lives each is handled in the end (client_ws.hpp 478-676).    *)
HearsWhatIsSaid == Stream!FairSpec
=============================================================================
