------------------------- MODULE FrameReader_proofs -------------------------
(***************************************************************************)
(* Theorems about FrameReader, for any response, any lengths and any       *)
(* number of frames.  Types and the search for the end of the response     *)
(* need nothing else; that the reader keeps its place among the frames,    *)
(* and hears what is said, is proved for frames that are not cut by the    *)
(* reads of the response (CutFrames = FALSE).                              *)
(*                                                                         *)
(* The frames are looked at together with the place behind the last one:   *)
(* AtOf(i), IndexOf(i) and DraftOf(i) are the place of frame i in the      *)
(* stream, in what is said and in the message, or where the next frame     *)
(* will be.                                                                *)
(***************************************************************************)
EXTENDS FrameReader, WellFoundedInduction, TLAPS

Places == 1..Len(sent) + 1

AtOf(i) == IF i <= Len(sent) THEN sent[i].at ELSE StreamEnd

IndexOf(i) == IF i <= Len(sent) THEN sent[i].index ELSE Len(said)

DraftOf(i) == IF i <= Len(sent) THEN sent[i].draft ELSE draft

Says(f) == f.kind \in {"ping", "close"} \/ (f.kind = "data" /\ f.fin)

ItemOf(f) == IF f.kind = "data"
             THEN [kind |-> "message", body |-> Append(f.draft, Payload(f))]
             ELSE [kind |-> f.kind, body |-> <<Payload(f)>>]

\* Frames follow one another; each continues the message that the ones
\* before have begun, and what it says has its place in said.
Chain ==
  /\ AtOf(1) = Len(Response) /\ IndexOf(1) = 0 /\ DraftOf(1) = <<>>
  /\ \A i \in DOMAIN sent :
       LET f == sent[i] IN
       /\ AtOf(i + 1) = End(f)
       /\ IndexOf(i + 1) = IF Says(f) THEN f.index + 1 ELSE f.index
       /\ DraftOf(i + 1) = IF f.kind /= "data" THEN f.draft
                           ELSE IF f.fin THEN <<>> ELSE Append(f.draft, Payload(f))
       /\ f.index + (IF Says(f) THEN 1 ELSE 0) <= Len(said)
       /\ Says(f) => said[f.index + 1] = ItemOf(f)

Ordered == \A i, j \in Places : i < j => AtOf(i) + 2 <= AtOf(j)

\* async_read_until: a match can still begin at searched.
Search ==
  /\ pc = "upgrade" => /\ got < Len(Response)
                       /\ searched <= got /\ searched <= Len(Response) - 4
                       /\ heard = <<>> /\ fragmented = <<>>
  /\ pc \notin {"upgrade", "failed"} => searched = Len(Response)

\* The buffer ends where frame d begins, and the frame before it was not of
\* length 1.
Whole(d) == d \in Places /\ got = AtOf(d) /\ sent[d - 1].length /= 1

\* Before frame c: with nothing in the buffer, num_additional_bytes may be
\* the length of the frame before.
AtHeader(c) ==
  /\ c \in Places
  /\ taken = AtOf(c)
  /\ \/ got = taken /\ additional /= 1
     \/ \E d \in Places : c < d /\ Whole(d) /\ additional >= got - taken

\* Inside frame c, at the byte p: either nothing was there before it was
\* read, or it is there as a whole and the bytes of its header still count.
Inside(c, p) ==
  /\ c \in DOMAIN sent
  /\ taken = p
  /\ message = [kind |-> sent[c].kind, fin |-> sent[c].fin, length |-> sent[c].length]
  /\ \/ got = taken /\ additional = 0
     \/ \E d \in Places : c < d /\ Whole(d) /\ additional >= got - taken + 2

\* What the reader has handled is what was said before frame c.
UpTo(c) == Len(heard) = IndexOf(c) /\ fragmented = DraftOf(c)

Place ==
  /\ pc = "header" => \E c \in Places : AtHeader(c) /\ UpTo(c)
  /\ pc = "length" =>
       \E c \in Places : /\ Inside(c, sent[c].at + 2) /\ UpTo(c)
                         /\ LengthBytes(sent[c].length) > 0
  /\ pc = "content" => \E c \in Places : Inside(c, Start(sent[c])) /\ UpTo(c)
  /\ pc /= "misread"

PlaceIInv == TypeOK /\ Chain /\ Ordered /\ Search /\ Place

-----------------------------------------------------------------------------
(* The search for the end of the response                                  *)

Less == {ss \in Nat \X Nat : ss[1] < ss[2]}

LEMMA LessIsWellFounded == IsWellFoundedOn(Less, Nat)
BY NatLessThanWellFounded DEF OpToRel, Less

LEMMA Least ==
  ASSUME NEW T \in SUBSET Nat, T /= {}
  PROVE  \E m \in T : \A n \in T : m <= n
<1>1. PICK x \in T : \A y \in T : ~(<<y, x>> \in Less)
  BY LessIsWellFounded, WFMin
<1>2. \A y \in T : x \in Nat /\ y \in Nat /\ (y < x => <<y, x>> \in Less)
  BY DEF Less
<1>3. \A y \in T : x <= y
  <2> SUFFICES ASSUME NEW y \in T, y < x PROVE FALSE
    BY <1>2
  <2> QED BY <1>1, <1>2
<1> QED BY <1>3

\* What First returns, apart from how it is found.
LEMMA FirstMatch ==
  ASSUME NEW from \in Nat, NEW n \in Nat, from <= n
  PROVE  /\ First(from, n) \in from..n
         /\ First(from, n) = n \/ Matches(First(from, n), n)
         /\ \A q \in from..First(from, n) - 1 : ~Matches(q, n)
<1> DEFINE T == {p \in from..n : p = n \/ Matches(p, n)}
<1>1. T \in SUBSET Nat /\ n \in T
  OBVIOUS
<1>2. PICK m \in T : \A q \in T : m <= q
  BY <1>1, Least
<1>3. m \in from..n /\ (m = n \/ Matches(m, n))
  OBVIOUS
<1>4. \A q \in from..m - 1 : ~Matches(q, n)
  <2> SUFFICES ASSUME NEW q \in from..m - 1, Matches(q, n) PROVE FALSE
    OBVIOUS
  <2>1. q \in T /\ q < m
    BY <1>3
  <2> QED BY <1>2, <1>3, <2>1
<1> HIDE DEF T
<1> QED BY <1>3, <1>4 DEF First

\* Of a prefix of the bytes, the delimiter is still a match; a whole match
\* lies within every longer one.
LEMMA MatchesLess ==
  ASSUME NEW p \in Nat, NEW n \in Nat, NEW m \in Nat, Matches(p, n), m <= n \/ p + 4 <= n
  PROVE  Matches(p, m)
BY DEF Matches

LEMMA DelimiterIsLast ==
  /\ Len(Response) \in Nat /\ Len(Response) - 4 \in Nat
  /\ \A n \in Nat : Matches(Len(Response) - 4, n)
  /\ \A p \in Nat, n \in Nat :
       p + 4 <= n /\ p <= Len(Response) - 4 /\ Matches(p, n) => p = Len(Response) - 4
<1>1. Len(Response) \in Nat /\ Len(Response) - 4 \in Nat
  BY ReaderAssumption
<1>2. Matches(Len(Response) - 4, Len(Response))
  BY <1>1, ReaderAssumption
<1>3. \A n \in Nat : Matches(Len(Response) - 4, n)
  <2> TAKE n \in Nat
  <2>1. (Len(Response) - 4) + 4 <= Len(Response)
    BY <1>1
  <2> QED BY <1>1, <1>2, <2>1, MatchesLess
<1>4. ASSUME NEW p \in Nat, NEW n \in Nat, p + 4 <= n, p <= Len(Response) - 4, Matches(p, n)
      PROVE  p = Len(Response) - 4
  <2>1. Matches(p, Len(Response))
    BY <1>1, <1>4, MatchesLess
  <2>2. p \in 0..Len(Response) - 4
    BY <1>1, <1>4
  <2> QED BY <2>1, <2>2, ReaderAssumption
<1> QED BY <1>1, <1>3, <1>4

\* Whether the read of n bytes in all finds the end of the response.
LEMMA SearchStep ==
  ASSUME NEW from \in Nat, NEW n \in Nat, from <= n, from <= Len(Response) - 4
  PROVE  LET p == First(from, n) IN
         /\ p \in Nat
         /\ p + 4 <= n => p + 4 = Len(Response)
         /\ ~(p + 4 <= n) => /\ n < Len(Response)
                             /\ p <= n /\ p <= Len(Response) - 4
<1> DEFINE p == First(from, n)
           end == Len(Response) - 4
<1>1. /\ p \in from..n
      /\ p = n \/ Matches(p, n)
      /\ \A q \in from..p - 1 : ~Matches(q, n)
  BY FirstMatch
<1>2. end \in Nat /\ Len(Response) \in Nat /\ from <= end /\ Matches(end, n)
  BY DelimiterIsLast
<1> HIDE DEF p
<1>3. p <= end
  <2> SUFFICES ASSUME end < p PROVE FALSE
    BY <1>1, <1>2
  <2>1. end \in from..p - 1
    BY <1>1, <1>2
  <2> QED BY <1>1, <1>2, <2>1
<1>4. p + 4 <= n => p = end
  <2> SUFFICES ASSUME p + 4 <= n PROVE p = end
    OBVIOUS
  <2>1. Matches(p, n)
    BY <1>1
  <2> QED BY <1>1, <1>3, <2>1, DelimiterIsLast
<1>5. ~(p + 4 <= n) => n < Len(Response)
  <2> SUFFICES ASSUME ~(p + 4 <= n), Len(Response) <= n PROVE FALSE
    BY <1>2
  <2> QED BY <1>1, <1>2, <1>3
<1>6. p \in Nat /\ p <= n /\ p + 4 <= n => p + 4 = Len(Response)
  BY <1>1, <1>2, <1>4
<1> QED BY <1>1, <1>2, <1>3, <1>5, <1>6 DEF p

-----------------------------------------------------------------------------
(* Types                                                                   *)

LEMMA LengthTyped ==
  ASSUME NEW n \in Nat
  PROVE  LengthBytes(n) \in {0, 2, 8}
BY DEF LengthBytes

LEMMA FrameTyped ==
  ASSUME NEW f \in Frame
  PROVE  /\ Start(f) \in Nat /\ End(f) \in Nat
         /\ Start(f) = f.at + 2 + LengthBytes(f.length) /\ End(f) = Start(f) + f.length
         /\ LengthBytes(f.length) \in {0, 2, 8}
         /\ Payload(f) \in Interval
<1>1. f.at \in Nat /\ f.length \in Nat /\ LengthBytes(f.length) \in {0, 2, 8}
  BY LengthTyped DEF Frame
<1>2. Start(f) \in Nat
  BY <1>1 DEF Start
<1> QED BY <1>1, <1>2 DEF Start, End, Payload, Interval

LEMMA StreamEndTyped == TypeOK => StreamEnd \in Nat
<1> SUFFICES ASSUME TypeOK PROVE StreamEnd \in Nat
  OBVIOUS
<1>1. CASE sent = <<>>
  BY <1>1, DelimiterIsLast DEF StreamEnd
<1>2. CASE sent /= <<>>
  <2>1. sent[Len(sent)] \in Frame
    BY <1>2 DEF TypeOK
  <2> QED BY <1>2, <2>1, FrameTyped DEF StreamEnd
<1> QED BY <1>1, <1>2

\* The end of the stream is where the last frame ends.
LEMMA StreamGrows ==
  ASSUME TypeOK, NEW frame \in Frame, sent' = Append(sent, frame), frame.at = StreamEnd
  PROVE  StreamEnd' = End(frame) /\ StreamEnd' >= StreamEnd + 2
<1>1. StreamEnd' = End(frame)
  BY DEF StreamEnd, TypeOK
<1> QED BY <1>1, FrameTyped, StreamEndTyped DEF Frame

\* A read of what is missing: what is there after it, less what had to
\* come, is what was there before.
LEMMA Completed ==
  ASSUME TypeOK, NEW n \in Nat, Complete(n)
  PROVE  /\ Missing(n) \in Nat /\ got' = got + Missing(n) /\ got' <= StreamEnd
         /\ got' - taken - Missing(n) = got - taken
         /\ additional > n => Missing(n) = 0
         /\ ~(additional > n) => Missing(n) = n - additional
BY StreamEndTyped DEF TypeOK, Complete, Missing

Framed(kind, fin, length) ==
  [kind |-> kind, fin |-> fin, length |-> length, at |-> StreamEnd,
   draft |-> draft, index |-> Len(said)]

\* What SendFrame does, in terms of the frame.
LEMMA Sending ==
  ASSUME TypeOK, NEW kind \in Kinds, NEW fin \in BOOLEAN, NEW length \in Lengths,
         SendFrame(kind, fin, length)
  PROVE  LET f == Framed(kind, fin, length) IN
         /\ f \in Frame /\ f.at = StreamEnd /\ f.draft = draft /\ f.index = Len(said)
         /\ sent' = Append(sent, f)
         /\ draft' = IF f.kind /= "data" THEN draft
                     ELSE IF f.fin THEN <<>> ELSE Append(draft, Payload(f))
         /\ said' = IF Says(f) THEN Append(said, ItemOf(f)) ELSE said
         /\ ItemOf(f).body \in Seq(Interval)
         /\ Says(f) => ItemOf(f) \in Item
         /\ UNCHANGED <<got, taken, searched, additional, pc, message, fragmented, heard>>
<1> DEFINE f == Framed(kind, fin, length)
<1>1. f \in Frame
  BY StreamEndTyped, ReaderAssumption DEF Framed, Frame, TypeOK
<1>2. /\ f.kind = kind /\ f.fin = fin /\ f.at = StreamEnd
      /\ f.draft = draft /\ f.index = Len(said)
  BY DEF Framed
<1>3. kind /= "data" => fin
  BY DEF SendFrame
<1>4. Says(f) <=> ~(~fin \/ kind \in {"pong", "masked"})
  BY <1>2, <1>3 DEF Says, Kinds
<1>5. /\ sent' = Append(sent, f)
      /\ draft' = IF kind /= "data" THEN draft
                  ELSE IF fin THEN <<>> ELSE Append(draft, Payload(f))
      /\ UNCHANGED <<got, taken, searched, additional, pc, message, fragmented, heard>>
  BY DEF SendFrame, Framed
<1>6. said' = IF Says(f) THEN Append(said, ItemOf(f)) ELSE said
  <2>1. said' = IF ~fin \/ kind \in {"pong", "masked"} THEN said
                ELSE Append(said, [kind |-> IF kind = "data" THEN "message" ELSE kind,
                                   body |-> IF kind = "data" THEN Append(draft, Payload(f))
                                            ELSE <<Payload(f)>>])
    BY DEF SendFrame, Framed
  <2>2. ItemOf(f) = [kind |-> IF kind = "data" THEN "message" ELSE kind,
                     body |-> IF kind = "data" THEN Append(draft, Payload(f))
                              ELSE <<Payload(f)>>]
    BY <1>2 DEF ItemOf
  <2> QED BY <1>4, <2>1, <2>2
<1>7. ItemOf(f).body \in Seq(Interval)
  <2>1. Payload(f) \in Interval /\ f.draft \in Seq(Interval)
    BY <1>1, FrameTyped DEF Frame
  <2> QED BY <2>1 DEF ItemOf
<1>8. Says(f) => ItemOf(f) \in Item
  BY <1>7 DEF Says, ItemOf, Item
<1> QED BY <1>1, <1>2, <1>5, <1>6, <1>7, <1>8

TypeIInv == TypeOK /\ Search

LEMMA TypeStarts == Init => TypeIInv
<1> SUFFICES ASSUME Init PROVE TypeIInv
  OBVIOUS
<1>1. sent = <<>> /\ StreamEnd = Len(Response)
  BY DEF Init, StreamEnd
<1>2. NoMessage \in Header
  BY DEF NoMessage, Header, Kinds
<1>3. TypeOK
  BY <1>1, <1>2, DelimiterIsLast DEF Init, TypeOK, Reading
<1>4. Search
  BY <1>1, DelimiterIsLast DEF Init, Search
<1> QED BY <1>3, <1>4 DEF TypeIInv

LEMMA TypeSend ==
  ASSUME TypeIInv, NEW kind \in Kinds, NEW fin \in BOOLEAN, NEW length \in Lengths,
         SendFrame(kind, fin, length)
  PROVE  TypeIInv'
<1> DEFINE f == Framed(kind, fin, length)
<1>1. TypeOK
  BY DEF TypeIInv
<1>2. /\ f \in Frame /\ f.at = StreamEnd /\ sent' = Append(sent, f)
      /\ draft' = IF f.kind /= "data" THEN draft
                  ELSE IF f.fin THEN <<>> ELSE Append(draft, Payload(f))
      /\ said' = IF Says(f) THEN Append(said, ItemOf(f)) ELSE said
      /\ Says(f) => ItemOf(f) \in Item
      /\ UNCHANGED <<got, taken, searched, additional, pc, message, fragmented, heard>>
  BY <1>1, Sending
<1> HIDE DEF f
<1>3. Payload(f) \in Interval /\ StreamEnd' >= StreamEnd + 2 /\ StreamEnd' \in Nat
  BY <1>1, <1>2, FrameTyped, StreamGrows
<1>4. sent' \in Seq(Frame) /\ draft' \in Seq(Interval) /\ said' \in Seq(Item)
  BY <1>1, <1>2, <1>3 DEF TypeOK
<1>5. got' \in 0..StreamEnd'
  BY <1>1, <1>2, <1>3, StreamEndTyped DEF TypeOK
<1> QED BY <1>1, <1>2, <1>4, <1>5 DEF TypeIInv, TypeOK, Search

LEMMA TypeUpgrade ==
  ASSUME TypeIInv, NEW n \in 1..MaxRead, ReadUpgrade(n)
  PROVE  TypeIInv'
<1> DEFINE p == First(searched, got')
<1>1. TypeOK /\ Search /\ pc = "upgrade" /\ n \in Nat /\ StreamEnd \in Nat
  BY ReaderAssumption, StreamEndTyped DEF TypeIInv, ReadUpgrade
<1>2. got' = got + n /\ got + n <= StreamEnd /\ got \in Nat /\ searched \in Nat
  BY <1>1, DelimiterIsLast DEF ReadUpgrade, TypeOK
<1>3. UNCHANGED <<sent, draft, said, message, fragmented, heard>> /\ StreamEnd' = StreamEnd
  BY DEF ReadUpgrade, gateway, StreamEnd
<1>4. searched <= got' /\ searched <= Len(Response) - 4
  BY <1>1, <1>2 DEF Search
<1>5. /\ p \in Nat
      /\ p + 4 <= got' => p + 4 = Len(Response)
      /\ ~(p + 4 <= got') => got' < Len(Response) /\ p <= got' /\ p <= Len(Response) - 4
  BY <1>2, <1>4, SearchStep
<1>6. CASE p + 4 <= got'
  <2>1. searched' = p + 4
    BY <1>6 DEF ReadUpgrade
  <2>2. \/ taken' = p + 4 /\ additional' = got' - (p + 4) /\ pc' = "header"
        \/ pc' = "failed" /\ UNCHANGED <<taken, additional>>
    BY <1>6 DEF ReadUpgrade
  <2> HIDE DEF p
  <2>3. taken' \in 0..got' /\ additional' \in Nat
    BY <1>1, <1>2, <1>5, <1>6, <2>2 DEF TypeOK
  <2> QED BY <1>1, <1>2, <1>3, <1>5, <1>6, <2>1, <2>2, <2>3, DelimiterIsLast
          DEF TypeIInv, TypeOK, Search, Reading
<1>7. CASE ~(p + 4 <= got')
  <2>1. searched' = p /\ UNCHANGED <<taken, additional, pc>>
    BY <1>7 DEF ReadUpgrade
  <2> HIDE DEF p
  <2>2. taken' \in 0..got'
    BY <1>1, <1>2, <2>1 DEF TypeOK
  <2> QED BY <1>1, <1>2, <1>3, <1>5, <1>7, <2>1, <2>2, DelimiterIsLast
          DEF TypeIInv, TypeOK, Search, Reading
<1> QED BY <1>6, <1>7

LEMMA Fits ==
  ASSUME NEW g \in Nat, NEW t \in Nat, NEW n \in Nat
  PROVE  /\ ~(g - t < n) <=> g - t >= n
         /\ g - t >= n <=> t + n <= g
         /\ t + n <= g => t + n \in 0..g
OBVIOUS

\* Of a completed read of n bytes, and how the handlers take them.
LEMMA TakenTyped ==
  ASSUME TypeOK, NEW n \in Nat, Complete(n), NEW m \in Nat, UNCHANGED gateway
  PROVE  /\ got' \in Nat /\ taken \in Nat
         /\ got' \in 0..StreamEnd' /\ taken \in 0..got' /\ got' - taken \in Nat
         /\ got' - taken - Missing(n) \in Nat
         /\ taken + m <= got' => taken + m \in 0..got'
<1>1. StreamEnd' = StreamEnd
  BY DEF gateway, StreamEnd
<1>2. got \in Nat /\ taken \in Nat /\ taken <= got /\ StreamEnd \in Nat
  BY StreamEndTyped DEF TypeOK
<1>3. /\ Missing(n) \in Nat /\ got' = got + Missing(n) /\ got' <= StreamEnd
      /\ got' - taken - Missing(n) = got - taken
  BY Completed
<1> QED BY <1>1, <1>2, <1>3

LEMMA TypeHeader == TypeIInv /\ ReadHeader => TypeIInv'
<1> SUFFICES ASSUME TypeIInv, ReadHeader PROVE TypeIInv'
  OBVIOUS
<1>1. TypeOK /\ Search /\ pc = "header" /\ UNCHANGED <<gateway, searched, fragmented, heard>>
      /\ Complete(2)
  BY DEF TypeIInv, ReadHeader
<1>2. /\ got' \in Nat /\ taken \in Nat
      /\ got' \in 0..StreamEnd' /\ taken \in 0..got' /\ got' - taken - Missing(2) \in Nat
      /\ got' - taken \in Nat
      /\ taken + 2 <= got' => taken + 2 \in 0..got'
  BY <1>1, TakenTyped
<1>3. /\ taken' \in 0..got' /\ additional' \in Nat /\ message' \in Header
      /\ pc' \in {"header", "length", "content", "closed", "misread"}
  <2>1. CASE additional' = 0 /\ UNCHANGED <<taken, pc, message>>
    BY <1>1, <1>2, <2>1 DEF TypeOK
  <2>2. CASE Misread
    BY <1>1, <1>2, <2>2 DEF TypeOK, Misread
  <2>3. ASSUME got' - taken >= 2, NEW i \in DOMAIN sent, taken' = taken + 2,
               message' = [kind |-> sent[i].kind, fin |-> sent[i].fin, length |-> sent[i].length],
               pc' \in {"closed", "content", "length"},
               additional' \in {additional, got' - taken - Missing(2)}
        PROVE  <1>3!1
    <3>1. sent[i] \in Frame
      BY <1>1 DEF TypeOK
    <3>2. message' \in Header
      BY <2>3, <3>1 DEF Frame, Header
    <3>3. taken' \in 0..got'
      BY <1>2, <2>3, Fits
    <3>4. additional' \in Nat
      BY <1>1, <1>2, <2>3 DEF TypeOK
    <3> QED BY <2>3, <3>2, <3>3, <3>4
  <2>4. CASE /\ ~(got' = taken)
             /\ ~(got' - taken < 2 \/ \A i \in DOMAIN sent : sent[i].at /= taken)
    <3>1. PICK i \in DOMAIN sent :
            /\ taken' = taken + 2
            /\ message' = [kind |-> sent[i].kind, fin |-> sent[i].fin, length |-> sent[i].length]
            /\ IF sent[i].kind = "masked"
               THEN pc' = "closed" /\ UNCHANGED additional
               ELSE /\ pc' = IF LengthBytes(sent[i].length) = 0 THEN "content" ELSE "length"
                    /\ additional' = got' - taken - Missing(2)
      BY <2>4 DEF ReadHeader
    <3>2. got' - taken >= 2
      BY <1>2, <2>4, Fits
    <3> QED BY <2>3, <3>1, <3>2
  <2> QED BY <2>1, <2>2, <2>4 DEF ReadHeader
<1> QED BY <1>1, <1>2, <1>3 DEF TypeIInv, TypeOK, Search, Reading, gateway

LEMMA MessageTyped == TypeOK => message.length \in Nat /\ LengthBytes(message.length) \in Nat
<1> SUFFICES ASSUME TypeOK
             PROVE  message.length \in Nat /\ LengthBytes(message.length) \in Nat
  OBVIOUS
<1>1. message.length \in Nat
  BY DEF TypeOK, Header
<1>2. LengthBytes(message.length) \in {0, 2, 8}
  BY <1>1, LengthTyped
<1> QED BY <1>1, <1>2

LEMMA TypeLength == TypeIInv /\ ReadLength => TypeIInv'
<1> SUFFICES ASSUME TypeIInv, ReadLength PROVE TypeIInv'
  OBVIOUS
<1> DEFINE n == LengthBytes(message.length)
<1>1. TypeOK /\ Search /\ pc = "length" /\ UNCHANGED <<gateway, searched, fragmented, heard>>
      /\ Complete(n) /\ n \in Nat
  BY MessageTyped DEF TypeIInv, ReadLength
<1>2. /\ got' \in Nat /\ taken \in Nat
      /\ got' \in 0..StreamEnd' /\ taken \in 0..got' /\ got' - taken - Missing(n) \in Nat
      /\ got' - taken \in Nat
      /\ taken + n <= got' => taken + n \in 0..got'
  BY <1>1, TakenTyped
<1>3. \/ Misread
      \/ ~(got' - taken < n) /\ taken' = taken + n /\ additional' = got' - taken - Missing(n)
         /\ pc' = "content" /\ UNCHANGED message
  BY DEF ReadLength
<1> HIDE DEF n
<1>4. CASE Misread
  BY <1>1, <1>2, <1>4 DEF TypeIInv, TypeOK, Search, Reading, gateway, Misread
<1>5. CASE ~Misread
  <2>1. taken' \in 0..got'
    BY <1>1, <1>2, <1>3, <1>5, Fits
  <2>2. additional' \in Nat
    BY <1>2, <1>3, <1>5
  <2> QED BY <1>1, <1>2, <1>3, <1>5, <2>1, <2>2 DEF TypeIInv, TypeOK, Search, Reading, gateway
<1> QED BY <1>4, <1>5

\* What the handlers of a payload leave behind.
LEMMA DeliverTyped ==
  ASSUME TypeOK, NEW payload \in Interval, Deliver(payload)
  PROVE  /\ fragmented' \in Seq(Interval) /\ heard' \in Seq(Item)
         /\ pc' \in {"header", "closed"}
<1>1. <<payload>> \in Seq(Interval) /\ Append(fragmented, payload) \in Seq(Interval)
  BY DEF TypeOK
<1>2. \A kind \in {"message", "ping", "close"}, body \in Seq(Interval) :
        Append(heard, [kind |-> kind, body |-> body]) \in Seq(Item)
  BY DEF TypeOK, Item
<1>3. CASE pc' = "closed" /\ Hear("close", <<payload>>) /\ UNCHANGED fragmented
  BY <1>1, <1>2, <1>3 DEF Hear, TypeOK
<1>4. CASE pc' = "header" /\ Hear("ping", <<payload>>) /\ UNCHANGED fragmented
  BY <1>1, <1>2, <1>4 DEF Hear, TypeOK
<1>5. CASE pc' = "header" /\ UNCHANGED heard
           /\ fragmented' \in {fragmented, Append(fragmented, payload)}
  BY <1>1, <1>5 DEF TypeOK
<1>6. CASE pc' = "header" /\ Hear("message", Append(fragmented, payload)) /\ fragmented' = <<>>
  <2>1. fragmented' \in Seq(Interval)
    BY <1>6
  <2> QED BY <1>1, <1>2, <1>6, <2>1 DEF Hear
<1> QED BY <1>3, <1>4, <1>5, <1>6 DEF Deliver

LEMMA TypeContent == TypeIInv /\ ReadContent => TypeIInv'
<1> SUFFICES ASSUME TypeIInv, ReadContent PROVE TypeIInv'
  OBVIOUS
<1> DEFINE n == message.length
           rest == got' - taken - Missing(n)
<1>1. TypeOK /\ Search /\ pc = "content" /\ UNCHANGED <<gateway, searched>>
      /\ Complete(n) /\ n \in Nat
  BY MessageTyped DEF TypeIInv, ReadContent
<1>2. /\ got' \in Nat /\ taken \in Nat
      /\ got' \in 0..StreamEnd' /\ taken \in 0..got' /\ rest \in Nat
      /\ got' - taken \in Nat
      /\ taken + n <= got' => taken + n \in 0..got'
  BY <1>1, TakenTyped
<1>3. CASE Misread /\ UNCHANGED <<fragmented, heard>>
  BY <1>1, <1>2, <1>3 DEF TypeIInv, TypeOK, Search, Reading, gateway, Misread
<1>4. CASE ~(Misread /\ UNCHANGED <<fragmented, heard>>)
  <2>1. /\ ~(rest > 0 /\ got' - taken < n)
        /\ taken' = IF rest > 0 THEN taken + n ELSE got'
        /\ Deliver(<<taken, taken'>>)
        /\ additional' = rest
        /\ UNCHANGED message
    BY <1>4 DEF ReadContent
  <2> HIDE DEF n, rest
  <2>2. taken' \in 0..got' /\ additional' \in Nat
    <3>1. CASE rest > 0
      BY <1>1, <1>2, <2>1, <3>1, Fits
    <3>2. CASE ~(rest > 0)
      BY <1>2, <2>1, <3>2
    <3> QED BY <3>1, <3>2
  <2>3. <<taken, taken'>> \in Interval
    BY <1>2, <2>2 DEF Interval
  <2>4. /\ fragmented' \in Seq(Interval) /\ heard' \in Seq(Item)
        /\ pc' \in {"header", "closed"}
    BY <1>1, <2>1, <2>3, DeliverTyped
  <2> QED BY <1>1, <1>2, <2>1, <2>2, <2>4 DEF TypeIInv, TypeOK, Search, Reading, gateway
<1> QED BY <1>3, <1>4

LEMMA TypeFail == TypeIInv /\ Fail => TypeIInv'
BY DEF TypeIInv, TypeOK, Search, Reading, Fail, gateway, StreamEnd

LEMMA TypeKept == TypeIInv /\ [Next]_vars => TypeIInv'
<1> SUFFICES ASSUME TypeIInv, [Next]_vars PROVE TypeIInv'
  OBVIOUS
<1>1. CASE UNCHANGED vars
  BY <1>1 DEF TypeIInv, TypeOK, Search, Reading, vars, StreamEnd
<1> QED BY <1>1, TypeSend, TypeUpgrade, TypeHeader, TypeLength, TypeContent, TypeFail
        DEF Next, Gateway, Read

LEMMA Typed == Spec => []TypeIInv
BY TypeStarts, TypeKept, PTL DEF Spec

(* Every variable has its type, whatever the response, the lengths and the *)
(* cuts: in particular num_additional_bytes never becomes negative, also   *)
(* where it is wrong (client_ws.hpp 488-676).                              *)
THEOREM TypeCorrect == Spec => []TypeOK
BY Typed, PTL DEF TypeIInv

(* For every response and every way it is cut into reads, its end is found *)
(* with the read that brings it (read_until.hpp 711-794).                  *)
THEOREM ResponseIsFound == Spec => []ResponseFound
<1>1. TypeIInv => ResponseFound
  BY DEF TypeIInv, Search, ResponseFound
<1> QED BY <1>1, Typed, PTL

-----------------------------------------------------------------------------
(* The stream of frames                                                    *)

LEMMA PlacesTyped ==
  ASSUME TypeOK, NEW i \in Places
  PROVE  /\ AtOf(i) \in Nat
         /\ i \in DOMAIN sent \/ i = Len(sent) + 1
         /\ i \in DOMAIN sent => /\ sent[i] \in Frame /\ AtOf(i) = sent[i].at /\ i + 1 \in Places
                                 /\ IndexOf(i) = sent[i].index /\ DraftOf(i) = sent[i].draft
         /\ i = Len(sent) + 1 => /\ AtOf(i) = StreamEnd /\ IndexOf(i) = Len(said)
                                 /\ DraftOf(i) = draft
<1>1. Len(sent) \in Nat /\ (i \in DOMAIN sent \/ i = Len(sent) + 1)
  BY DEF TypeOK, Places
<1>2. CASE i \in DOMAIN sent
  <2>1. sent[i] \in Frame /\ i <= Len(sent) /\ i /= Len(sent) + 1
    BY <1>2 DEF TypeOK
  <2>2. sent[i].at \in Nat /\ i + 1 \in Places
    BY <1>1, <1>2, <2>1 DEF Frame, Places
  <2> QED BY <1>2, <2>1, <2>2 DEF AtOf, IndexOf, DraftOf
<1>3. CASE i = Len(sent) + 1
  <2>1. ~(i <= Len(sent)) /\ i \notin DOMAIN sent
    BY <1>1, <1>3 DEF TypeOK
  <2> QED BY <1>3, <2>1, StreamEndTyped DEF AtOf, IndexOf, DraftOf
<1> QED BY <1>1, <1>2, <1>3

\* A new frame stands where the next one was to be, and moves nothing.
LEMMA SendKeepsPlaces ==
  ASSUME TypeOK, NEW f \in Frame, sent' = Append(sent, f),
         f.at = StreamEnd, f.draft = draft, f.index = Len(said),
         NEW last \in Nat, last = Len(sent) + 1
  PROVE  /\ Len(sent') = Len(sent) + 1
         /\ DOMAIN sent' = Places /\ Places' = Places \cup {last + 1}
         /\ sent'[last] = f
         /\ \A i \in DOMAIN sent : sent'[i] = sent[i]
         /\ \A i \in Places : /\ AtOf(i)' = AtOf(i) /\ IndexOf(i)' = IndexOf(i)
                              /\ DraftOf(i)' = DraftOf(i)
         /\ AtOf(last + 1)' = End(f)
         /\ IndexOf(last + 1)' = Len(said')
         /\ DraftOf(last + 1)' = draft'
<1>1. /\ Len(sent) \in Nat /\ Len(sent') = Len(sent) + 1
      /\ DOMAIN sent' = Places /\ Places' = Places \cup {last + 1}
      /\ sent'[last] = f
      /\ \A i \in DOMAIN sent : sent'[i] = sent[i]
  <2>1. sent \in Seq(Frame) /\ Len(sent) \in Nat
    BY DEF TypeOK
  <2>2. Len(sent') = Len(sent) + 1 /\ sent'[Len(sent) + 1] = f
        /\ \A i \in DOMAIN sent : sent'[i] = sent[i]
    BY <2>1
  <2>3. DOMAIN sent' = 1..Len(sent) + 1
    BY <2>1
  <2>4. Places' = Places \cup {last + 1}
    BY <2>1, <2>2 DEF Places
  <2> QED BY <2>1, <2>2, <2>3, <2>4 DEF Places
<1>2. ASSUME NEW i \in Places
      PROVE  /\ AtOf(i)' = AtOf(i) /\ IndexOf(i)' = IndexOf(i) /\ DraftOf(i)' = DraftOf(i)
  <2>1. i <= Len(sent')
    BY <1>1, <1>2 DEF Places
  <2>2. AtOf(i)' = sent'[i].at /\ IndexOf(i)' = sent'[i].index /\ DraftOf(i)' = sent'[i].draft
    BY <2>1 DEF AtOf, IndexOf, DraftOf
  <2> QED BY <1>1, <2>2, PlacesTyped
<1>3. StreamEnd' = End(f)
  BY StreamGrows
<1>4. /\ AtOf(last + 1)' = End(f)
      /\ IndexOf(last + 1)' = Len(said')
      /\ DraftOf(last + 1)' = draft'
  <2>1. ~(last + 1 <= Len(sent'))
    BY <1>1
  <2> QED BY <1>3, <2>1 DEF AtOf, IndexOf, DraftOf
<1> QED BY <1>1, <1>2, <1>4

LEMMA ChainStarts == Init => Chain /\ Ordered
<1> SUFFICES ASSUME Init PROVE Chain /\ Ordered
  OBVIOUS
<1>1. sent = <<>> /\ said = <<>> /\ draft = <<>> /\ StreamEnd = Len(Response)
  BY DEF Init, StreamEnd
<1>2. AtOf(1) = Len(Response) /\ IndexOf(1) = 0 /\ DraftOf(1) = <<>>
  BY <1>1 DEF AtOf, IndexOf, DraftOf
<1>3. Places = {1} /\ DOMAIN sent = {}
  BY <1>1 DEF Places
<1> QED BY <1>2, <1>3 DEF Chain, Ordered

\* What Chain says of frame i.
Link(i) ==
  LET f == sent[i] IN
  /\ AtOf(i + 1) = End(f)
  /\ IndexOf(i + 1) = IF Says(f) THEN f.index + 1 ELSE f.index
  /\ DraftOf(i + 1) = IF f.kind /= "data" THEN f.draft
                      ELSE IF f.fin THEN <<>> ELSE Append(f.draft, Payload(f))
  /\ f.index + (IF Says(f) THEN 1 ELSE 0) <= Len(said)
  /\ Says(f) => said[f.index + 1] = ItemOf(f)

LEMMA ChainIsLinks ==
  Chain <=> /\ AtOf(1) = Len(Response) /\ IndexOf(1) = 0 /\ DraftOf(1) = <<>>
            /\ \A i \in DOMAIN sent : Link(i)
BY DEF Chain, Link

LEMMA SendKeepsChain ==
  ASSUME TypeOK, Chain, Ordered,
         NEW kind \in Kinds, NEW fin \in BOOLEAN, NEW length \in Lengths,
         SendFrame(kind, fin, length)
  PROVE  Chain' /\ Ordered'
<1> DEFINE f == Framed(kind, fin, length)
<1>1. /\ f \in Frame /\ f.at = StreamEnd /\ f.draft = draft /\ f.index = Len(said)
      /\ sent' = Append(sent, f)
      /\ draft' = IF f.kind /= "data" THEN draft
                  ELSE IF f.fin THEN <<>> ELSE Append(draft, Payload(f))
      /\ said' = IF Says(f) THEN Append(said, ItemOf(f)) ELSE said
      /\ Says(f) => ItemOf(f) \in Item
  BY Sending
<1> HIDE DEF f
<1> PICK last \in Nat : last = Len(sent) + 1
  BY DEF TypeOK
<1>2. Len(sent) \in Nat /\ Len(said) \in Nat /\ said \in Seq(Item) /\ last \in Places
  BY DEF TypeOK, Places
<1>3. /\ DOMAIN sent' = Places /\ Places' = Places \cup {last + 1}
      /\ sent'[last] = f
      /\ \A i \in DOMAIN sent : sent'[i] = sent[i]
      /\ \A i \in Places : /\ AtOf(i)' = AtOf(i) /\ IndexOf(i)' = IndexOf(i)
                           /\ DraftOf(i)' = DraftOf(i)
      /\ AtOf(last + 1)' = End(f)
      /\ IndexOf(last + 1)' = Len(said') /\ DraftOf(last + 1)' = draft'
  BY <1>1, SendKeepsPlaces
<1>4. /\ Len(said') = IF Says(f) THEN Len(said) + 1 ELSE Len(said)
      /\ \A i \in 1..Len(said) : said'[i] = said[i]
      /\ Says(f) => said'[Len(said) + 1] = ItemOf(f)
  BY <1>1, <1>2
<1>5. ASSUME NEW i \in DOMAIN sent PROVE Link(i)'
  <2>1. Link(i) /\ i \in Places /\ i + 1 \in Places /\ sent[i] \in Frame /\ sent'[i] = sent[i]
    BY <1>3, <1>5, ChainIsLinks, PlacesTyped DEF Places, TypeOK
  <2>2. AtOf(i + 1)' = AtOf(i + 1) /\ IndexOf(i + 1)' = IndexOf(i + 1)
        /\ DraftOf(i + 1)' = DraftOf(i + 1)
    BY <1>3, <2>1
  <2>3. sent[i].index \in Nat
    BY <2>1 DEF Frame
  <2>4. sent[i].index + (IF Says(sent[i]) THEN 1 ELSE 0) <= Len(said')
    BY <1>2, <1>4, <2>1, <2>3 DEF Link
  <2>5. Says(sent[i]) => said'[sent[i].index + 1] = ItemOf(sent[i])
    BY <1>2, <1>4, <2>1, <2>3 DEF Link
  <2> QED BY <2>1, <2>2, <2>4, <2>5 DEF Link
<1>6. Link(last)'
  <2>1. f.index + (IF Says(f) THEN 1 ELSE 0) <= Len(said')
    BY <1>1, <1>2, <1>4
  <2>2. /\ AtOf(last + 1)' = End(f)
        /\ IndexOf(last + 1)' = IF Says(f) THEN f.index + 1 ELSE f.index
        /\ DraftOf(last + 1)' = IF f.kind /= "data" THEN f.draft
                                ELSE IF f.fin THEN <<>> ELSE Append(f.draft, Payload(f))
        /\ Says(f) => said'[f.index + 1] = ItemOf(f)
    BY <1>1, <1>3, <1>4
  <2> QED BY <1>3, <2>1, <2>2 DEF Link
<1>7. Chain'
  <2>1. 1 \in Places /\ \A i \in Places : i \in DOMAIN sent \/ i = last
    BY <1>2, PlacesTyped DEF Places
  <2>2. AtOf(1)' = Len(Response) /\ IndexOf(1)' = 0 /\ DraftOf(1)' = <<>>
    BY <1>3, <2>1 DEF Chain
  <2>3. \A i \in DOMAIN sent' : Link(i)'
    BY <1>3, <1>5, <1>6, <2>1
  <2> QED BY <2>2, <2>3 DEF Chain, Link
<1>8. Ordered'
  <2> SUFFICES ASSUME NEW i \in Places', NEW j \in Places', i < j
               PROVE  AtOf(i)' + 2 <= AtOf(j)'
    BY DEF Ordered
  <2>1. i \in Places /\ AtOf(i)' = AtOf(i) /\ AtOf(i) \in Nat
    BY <1>2, <1>3, PlacesTyped DEF Places
  <2>2. CASE j \in Places
    BY <1>3, <2>1, <2>2 DEF Ordered
  <2>3. CASE j = last + 1
    <3>1. StreamEnd \in Nat /\ End(f) \in Nat /\ AtOf(j)' = End(f)
      BY <1>1, <1>3, <2>3, StreamEndTyped, FrameTyped
    <3>4. End(f) >= StreamEnd + 2
      BY <1>1, StreamGrows
    <3>2. AtOf(last) = StreamEnd
      BY <1>2, PlacesTyped
    <3>3. i = last \/ AtOf(i) + 2 <= AtOf(last)
      BY <1>2, <2>1 DEF Ordered, Places
    <3> QED BY <2>1, <3>1, <3>2, <3>3, <3>4
  <2> QED BY <1>3, <2>2, <2>3
<1> QED BY <1>7, <1>8

-----------------------------------------------------------------------------
(* The place of the reader                                                 *)

StreamIInv == TypeOK /\ Chain /\ Ordered

\* Frame c, seen from its place in the stream.
LEMMA FrameAt ==
  ASSUME StreamIInv, NEW c \in DOMAIN sent
  PROVE  /\ sent[c] \in Frame /\ c \in Places /\ c + 1 \in Places
         /\ AtOf(c) = sent[c].at /\ AtOf(c + 1) = End(sent[c]) /\ Link(c)
         /\ IndexOf(c) = sent[c].index /\ DraftOf(c) = sent[c].draft
         /\ sent[c].at \in Nat /\ sent[c].length \in Nat
         /\ LengthBytes(sent[c].length) \in {0, 2, 8}
         /\ Start(sent[c]) = sent[c].at + 2 + LengthBytes(sent[c].length)
         /\ End(sent[c]) = Start(sent[c]) + sent[c].length
<1>1. c \in Places /\ sent[c] \in Frame
  BY DEF StreamIInv, TypeOK, Places
<1>2. Link(c)
  BY ChainIsLinks DEF StreamIInv
<1> QED BY <1>1, <1>2, PlacesTyped, FrameTyped DEF StreamIInv, Frame, Link

\* Only one frame begins at a place, and none where the stream ends.
LEMMA OneFrameAt ==
  ASSUME StreamIInv, NEW c \in Places, NEW i \in DOMAIN sent, sent[i].at = AtOf(c)
  PROVE  i = c
<1>1. i \in Places /\ AtOf(i) = AtOf(c) /\ i \in Nat /\ c \in Nat
  BY FrameAt DEF Places
<1>2. AtOf(i) \in Nat /\ AtOf(c) \in Nat
  BY <1>1, PlacesTyped DEF StreamIInv
<1> QED BY <1>1, <1>2 DEF StreamIInv, Ordered

LEMMA StreamEndIsLast ==
  ASSUME StreamIInv, NEW c \in Places
  PROVE  AtOf(c) <= StreamEnd /\ (AtOf(c) < StreamEnd => c \in DOMAIN sent)
<1>1. Len(sent) + 1 \in Places /\ AtOf(Len(sent) + 1) = StreamEnd /\ AtOf(c) \in Nat
  BY PlacesTyped DEF StreamIInv, TypeOK, Places
<1>2. c = Len(sent) + 1 \/ AtOf(c) + 2 <= StreamEnd
  BY <1>1 DEF StreamIInv, TypeOK, Ordered, Places
<1>3. c \in DOMAIN sent \/ c = Len(sent) + 1
  BY PlacesTyped DEF StreamIInv
<1> QED BY <1>1, <1>2, <1>3, StreamEndTyped DEF StreamIInv

\* A frame before the end of the buffer is in it as a whole, and what is
\* behind it is nothing or another one.
LEMMA WholeFrame ==
  ASSUME StreamIInv, NEW c \in Places, NEW d \in Places, c < d, Whole(d)
  PROVE  /\ c \in DOMAIN sent
         /\ got >= End(sent[c])
         /\ c + 1 = d => got = End(sent[c]) /\ sent[c].length /= 1
         /\ c + 1 /= d => c + 1 < d
<1>1. c \in DOMAIN sent
  BY DEF StreamIInv, TypeOK, Places
<1>2. c + 1 \in Places /\ AtOf(c + 1) = End(sent[c]) /\ got = AtOf(d)
  BY <1>1, FrameAt DEF Whole
<1>3. AtOf(c + 1) \in Nat /\ AtOf(d) \in Nat /\ c \in Nat /\ d \in Nat
  BY <1>2, PlacesTyped DEF StreamIInv, Places
<1>4. c + 1 /= d => c + 1 < d /\ AtOf(c + 1) + 2 <= AtOf(d)
  BY <1>2, <1>3 DEF StreamIInv, Ordered
<1>5. c + 1 = d => sent[c].length /= 1
  BY <1>3 DEF Whole
<1> QED BY <1>1, <1>2, <1>3, <1>4, <1>5

LEMMA WholeStill ==
  ASSUME NEW d, Whole(d), UNCHANGED gateway, UNCHANGED got
  PROVE  Whole(d)'
BY DEF Whole, gateway, Places, AtOf, StreamEnd

LEMMA PlacesStill ==
  ASSUME UNCHANGED gateway
  PROVE  /\ Places' = Places
         /\ \A i : AtOf(i)' = AtOf(i) /\ IndexOf(i)' = IndexOf(i) /\ DraftOf(i)' = DraftOf(i)
BY DEF gateway, Places, AtOf, IndexOf, DraftOf, StreamEnd

LEMMA SendKeepsPlace ==
  ASSUME PlaceIInv, NEW kind \in Kinds, NEW fin \in BOOLEAN, NEW length \in Lengths,
         SendFrame(kind, fin, length)
  PROVE  Place'
<1> DEFINE f == Framed(kind, fin, length)
<1>1. TypeOK /\ Place
  BY DEF PlaceIInv
<1>2. /\ f \in Frame /\ f.at = StreamEnd /\ f.draft = draft /\ f.index = Len(said)
      /\ sent' = Append(sent, f)
      /\ UNCHANGED <<got, taken, searched, additional, pc, message, fragmented, heard>>
  BY <1>1, Sending
<1> HIDE DEF f
<1> PICK last \in Nat : last = Len(sent) + 1
  BY <1>1 DEF TypeOK
<1>3. /\ DOMAIN sent' = Places /\ Places' = Places \cup {last + 1}
      /\ \A i \in DOMAIN sent : sent'[i] = sent[i]
      /\ \A i \in Places : /\ AtOf(i)' = AtOf(i) /\ IndexOf(i)' = IndexOf(i)
                           /\ DraftOf(i)' = DraftOf(i)
  BY <1>1, <1>2, SendKeepsPlaces
<1>4. ASSUME NEW c \in Places, NEW d \in Places, c < d, Whole(d)
      PROVE  Whole(d)'
  <2>1. d - 1 \in DOMAIN sent
    BY <1>1, <1>4 DEF TypeOK, Places
  <2> QED BY <1>2, <1>3, <1>4, <2>1 DEF Whole
<1>5. ASSUME NEW c \in Places, UpTo(c) PROVE UpTo(c)'
  BY <1>2, <1>3, <1>5 DEF UpTo
<1>6. ASSUME NEW c \in Places, AtHeader(c) PROVE AtHeader(c)'
  BY <1>2, <1>3, <1>4, <1>6 DEF AtHeader
<1>7. ASSUME NEW c \in Places, NEW p, Inside(c, p)
      PROVE  Inside(c, p)' /\ sent'[c] = sent[c]
  <2>1. c \in DOMAIN sent /\ c \in DOMAIN sent' /\ sent'[c] = sent[c]
    BY <1>3, <1>7 DEF Inside
  <2> QED BY <1>2, <1>3, <1>4, <1>7, <2>1 DEF Inside
<1>8. pc' = "header" => \E c \in Places' : AtHeader(c)' /\ UpTo(c)'
  BY <1>1, <1>2, <1>3, <1>5, <1>6 DEF Place
<1>9. pc' = "length" => \E c \in Places' : /\ Inside(c, sent[c].at + 2)' /\ UpTo(c)'
                                           /\ LengthBytes(sent'[c].length) > 0
  <2> SUFFICES ASSUME pc' = "length"
               PROVE  \E c \in Places' : /\ Inside(c, sent[c].at + 2)' /\ UpTo(c)'
                                         /\ LengthBytes(sent'[c].length) > 0
    OBVIOUS
  <2>1. PICK c \in Places : /\ Inside(c, sent[c].at + 2) /\ UpTo(c)
                            /\ LengthBytes(sent[c].length) > 0
    BY <1>1, <1>2 DEF Place
  <2>2. PICK p : p = sent[c].at + 2
    OBVIOUS
  <2>3. Inside(c, p)' /\ sent'[c] = sent[c] /\ UpTo(c)'
    BY <1>5, <1>7, <2>1, <2>2
  <2>4. Inside(c, sent[c].at + 2)'
    BY <2>2, <2>3 DEF Inside
  <2> QED BY <1>3, <2>1, <2>3, <2>4
<1>10. pc' = "content" => \E c \in Places' : Inside(c, Start(sent[c]))' /\ UpTo(c)'
  <2> SUFFICES ASSUME pc' = "content"
               PROVE  \E c \in Places' : Inside(c, Start(sent[c]))' /\ UpTo(c)'
    OBVIOUS
  <2>1. PICK c \in Places : Inside(c, Start(sent[c])) /\ UpTo(c)
    BY <1>1, <1>2 DEF Place
  <2>2. PICK p : p = Start(sent[c])
    OBVIOUS
  <2>3. Inside(c, p)' /\ sent'[c] = sent[c] /\ UpTo(c)'
    BY <1>5, <1>7, <2>1, <2>2
  <2>4. Inside(c, Start(sent[c]))'
    BY <2>2, <2>3 DEF Inside, Start
  <2> QED BY <1>3, <2>3, <2>4
<1> QED BY <1>1, <1>2, <1>8, <1>9, <1>10 DEF Place

LEMMA UpgradeReachesPlace ==
  ASSUME ~CutFrames, PlaceIInv, NEW n \in 1..MaxRead, ReadUpgrade(n)
  PROVE  Place'
<1> DEFINE p == First(searched, got')
<1>1. TypeOK /\ Chain /\ Search /\ pc = "upgrade" /\ n \in Nat /\ n > 0
  BY ReaderAssumption DEF PlaceIInv, ReadUpgrade
<1>2. got' = got + n /\ Boundary(got') /\ got \in Nat /\ searched \in Nat /\ got' \in Nat
  BY <1>1, DelimiterIsLast, StreamEndTyped DEF ReadUpgrade, TypeOK
<1>3. searched <= got' /\ searched <= Len(Response) - 4
  BY <1>1, <1>2 DEF Search
<1>4. p \in Nat /\ (p + 4 <= got' => p + 4 = Len(Response))
  BY <1>2, <1>3, SearchStep
<1>5. UNCHANGED <<gateway, message, fragmented, heard>>
  BY DEF ReadUpgrade
<1>6. CASE pc' /= "header"
  BY <1>1, <1>6 DEF ReadUpgrade, Place
<1>7. CASE pc' = "header"
  <2>1. p + 4 <= got' /\ taken' = p + 4 /\ additional' = got' - (p + 4)
    BY <1>1, <1>7 DEF ReadUpgrade
  <2> HIDE DEF p
  <2>2. taken' = Len(Response) /\ additional' = got' - taken' /\ taken' <= got'
    BY <1>4, <2>1
  <2>3. 1 \in Places /\ 1 \in Places' /\ AtOf(1)' = taken' /\ IndexOf(1)' = 0 /\ DraftOf(1)' = <<>>
    BY <1>1, <1>5, <2>2, PlacesStill DEF Chain, Places, TypeOK
  <2>4. UpTo(1)'
    BY <1>1, <1>5, <2>3 DEF UpTo, Search
  <2>5. AtHeader(1)'
    <3>1. CASE got' = Len(Response)
      BY <1>2, <2>2, <2>3, <3>1, DelimiterIsLast DEF AtHeader
    <3>2. CASE got' /= Len(Response)
      <4>1. PICK i \in DOMAIN sent : got' = End(sent[i]) /\ sent[i].length /= 1
        BY <1>2, <2>2, <3>2, DelimiterIsLast DEF Boundary
      <4>2. /\ i + 1 \in Places /\ 1 < i + 1 /\ AtOf(i + 1) = End(sent[i])
            /\ (i + 1) - 1 = i
        <5>1. i \in Nat /\ i >= 1
          BY <1>1 DEF TypeOK
        <5> QED BY <4>1, <5>1, FrameAt DEF PlaceIInv, StreamIInv
      <4>3. Whole(i + 1)'
        <5>1. i + 1 \in Places' /\ got' = AtOf(i + 1)' /\ sent'[i].length /= 1
          BY <1>5, <4>1, <4>2, PlacesStill DEF gateway
        <5> QED BY <4>2, <5>1 DEF Whole
      <4>4. additional' >= got' - taken'
        BY <1>2, <2>2, DelimiterIsLast
      <4>5. i + 1 \in Places'
        BY <4>3 DEF Whole
      <4> QED BY <2>3, <4>2, <4>3, <4>4, <4>5 DEF AtHeader
    <3> QED BY <3>1, <3>2
  <2> QED BY <1>7, <2>3, <2>4, <2>5 DEF Place
<1> QED BY <1>6, <1>7

LEMMA HeaderKeepsPlace ==
  ASSUME PlaceIInv, ReadHeader
  PROVE  Place'
<1>1. StreamIInv /\ TypeOK /\ Place /\ pc = "header" /\ Complete(2)
  BY DEF PlaceIInv, StreamIInv, ReadHeader
<1>2. UNCHANGED <<sent, draft, said, searched, fragmented, heard>> /\ UNCHANGED gateway
  BY DEF ReadHeader, gateway
<1>3. PICK c \in Places : AtHeader(c) /\ UpTo(c)
  BY <1>1 DEF Place
<1>4. UpTo(c)' /\ c \in Places'
  BY <1>2, <1>3, PlacesStill DEF UpTo
<1>5. got \in Nat /\ taken \in Nat /\ additional \in Nat /\ taken = AtOf(c) /\ StreamEnd \in Nat
  BY <1>1, <1>3, StreamEndTyped DEF TypeOK, AtHeader
<1>6. /\ got' = got + Missing(2) /\ got' <= StreamEnd
      /\ additional > 2 => Missing(2) = 0
      /\ ~(additional > 2) => Missing(2) = 2 - additional
  BY <1>1, Completed
\* What a handler that takes the header of frame c leaves.
<1>7. ASSUME c \in DOMAIN sent, got' - taken >= 2, Missing(2) \in Nat,
             \/ got' = taken + 2 /\ got' - taken - Missing(2) = 0
             \/ \E d \in Places : /\ c < d /\ Whole(d)'
                                  /\ got' - taken - Missing(2) >= got' - (taken + 2) + 2
      PROVE  Place'
  <2>1. ~(got' = taken) /\ ~(got' - taken < 2)
    BY <1>5, <1>6, <1>7
  <2>2. sent[c].at = taken /\ sent[c] \in Frame /\ LengthBytes(sent[c].length) \in {0, 2, 8}
        /\ Start(sent[c]) = sent[c].at + 2 + LengthBytes(sent[c].length)
    BY <1>1, <1>5, <1>7, FrameAt
  <2>3. PICK i \in DOMAIN sent :
       /\ sent[i].at = taken
       /\ taken' = taken + 2
       /\ message' = [kind |-> sent[i].kind, fin |-> sent[i].fin, length |-> sent[i].length]
       /\ IF sent[i].kind = "masked"
          THEN pc' = "closed"
          ELSE /\ pc' = IF LengthBytes(sent[i].length) = 0 THEN "content" ELSE "length"
               /\ additional' = got' - taken - Missing(2)
    <3>1. ~(\A i \in DOMAIN sent : sent[i].at /= taken)
      BY <1>7, <2>2
    <3> QED BY <2>1, <3>1 DEF ReadHeader
  <2>4. i = c
    BY <1>1, <1>5, <2>3, OneFrameAt
  <2>5. CASE sent[c].kind = "masked"
    BY <2>3, <2>4, <2>5 DEF Place
  <2>6. CASE sent[c].kind /= "masked"
    <3>1. /\ c \in DOMAIN sent' /\ sent' = sent /\ Places' = Places
          /\ taken' = sent[c].at + 2
          /\ message' = [kind |-> sent[c].kind, fin |-> sent[c].fin, length |-> sent[c].length]
          /\ additional' = got' - taken - Missing(2)
          /\ pc' = IF LengthBytes(sent[c].length) = 0 THEN "content" ELSE "length"
      BY <1>2, <1>7, <2>2, <2>3, <2>4, <2>6, PlacesStill
    <3>2. \/ got' = taken' /\ additional' = 0
          \/ \E d \in Places' : c < d /\ Whole(d)' /\ additional' >= got' - taken' + 2
      BY <1>7, <2>2, <3>1
    <3>3. \A q : q = taken' => Inside(c, q)'
      BY <3>1, <3>2 DEF Inside
    <3>4. CASE LengthBytes(sent[c].length) = 0
      <4>1. taken' = Start(sent'[c])
        BY <1>5, <2>2, <3>1, <3>4
      <4>2. Inside(c, Start(sent[c]))'
        BY <3>1, <3>2, <4>1 DEF Inside
      <4> QED BY <1>4, <3>1, <3>4, <4>2 DEF Place
    <3>5. CASE LengthBytes(sent[c].length) /= 0
      <4>1. LengthBytes(sent'[c].length) > 0
        BY <2>2, <3>1, <3>5
      <4>2. Inside(c, sent[c].at + 2)'
        BY <3>1, <3>2 DEF Inside
      <4> QED BY <1>4, <3>1, <3>5, <4>1, <4>2 DEF Place
    <3> QED BY <3>4, <3>5
  <2> QED BY <2>5, <2>6
<1>8. CASE got = taken /\ additional /= 1 /\ additional /= 0
  <2>1. got' = taken
    BY <1>5, <1>6, <1>8
  <2>2. additional' = 0 /\ UNCHANGED <<taken, pc, message>>
    BY <2>1 DEF ReadHeader
  <2>3. AtHeader(c)'
    BY <1>2, <1>3, <1>4, <2>1, <2>2, PlacesStill DEF AtHeader
  <2> QED BY <1>1, <1>4, <2>2, <2>3 DEF Place
<1>9. CASE got = taken /\ additional = 0
  <2>1. Missing(2) = 2 /\ got' = taken + 2
    BY <1>5, <1>6, <1>9
  <2>2. c \in DOMAIN sent
    BY <1>1, <1>5, <1>6, <2>1, StreamEndIsLast
  <2> QED BY <1>5, <1>7, <2>1, <2>2
<1>10. CASE \E d \in Places : c < d /\ Whole(d) /\ additional >= got - taken
  <2>1. PICK d \in Places : c < d /\ Whole(d) /\ additional >= got - taken
    BY <1>10
  <2>2. c \in DOMAIN sent
    BY <1>1, <2>1, WholeFrame
  <2>3. got >= taken + 2
    <3>1. got = AtOf(d)
      BY <2>1 DEF Whole
    <3> QED BY <1>1, <1>5, <2>1, <3>1 DEF StreamIInv, Ordered
  <2>4. Missing(2) = 0 /\ got' = got
    BY <1>5, <1>6, <2>1, <2>3
  <2>5. Whole(d)'
    BY <1>2, <2>1, <2>4, WholeStill
  <2> QED BY <1>5, <1>7, <2>1, <2>2, <2>3, <2>4, <2>5
<1> QED BY <1>3, <1>8, <1>9, <1>10 DEF AtHeader

LEMMA LengthKeepsPlace ==
  ASSUME PlaceIInv, ReadLength
  PROVE  Place'
<1> DEFINE n == LengthBytes(message.length)
<1>1. StreamIInv /\ TypeOK /\ Place /\ pc = "length" /\ Complete(n) /\ n \in Nat
  BY MessageTyped DEF PlaceIInv, StreamIInv, ReadLength
<1>2. UNCHANGED <<sent, draft, said, searched, fragmented, heard>> /\ UNCHANGED gateway
  BY DEF ReadLength, gateway
<1>3. PICK c \in Places : /\ Inside(c, sent[c].at + 2) /\ UpTo(c)
                          /\ LengthBytes(sent[c].length) > 0
  BY <1>1 DEF Place
<1>4. UpTo(c)' /\ c \in Places' /\ c \in DOMAIN sent /\ Places' = Places
  BY <1>2, <1>3, PlacesStill DEF UpTo, Inside
<1>5. /\ n = LengthBytes(sent[c].length) /\ n \in {2, 8} /\ taken = sent[c].at + 2
      /\ message = [kind |-> sent[c].kind, fin |-> sent[c].fin, length |-> sent[c].length]
      /\ Start(sent[c]) = taken + n /\ End(sent[c]) = Start(sent[c]) + sent[c].length
      /\ sent[c].length \in Nat
  BY <1>1, <1>3, <1>4, FrameAt DEF Inside
<1>6. ~(got' - taken < n)
      => taken' = taken + n /\ additional' = got' - taken - Missing(n)
         /\ pc' = "content" /\ UNCHANGED message
  BY DEF ReadLength
<1>7. got \in Nat /\ taken \in Nat /\ additional \in Nat
  BY <1>1 DEF TypeOK
<1> HIDE DEF n
<1>8. /\ got' = got + Missing(n)
      /\ additional > n => Missing(n) = 0
      /\ ~(additional > n) => Missing(n) = n - additional
  BY <1>1, Completed
<1>9. /\ taken' = taken + n /\ pc' = "content" /\ UNCHANGED message
      /\ \/ got' = taken' /\ additional' = 0
         \/ \E d \in Places : c < d /\ Whole(d)' /\ additional' >= got' - taken' + 2
  <2>1. CASE got = taken /\ additional = 0
    <3>1. Missing(n) = n /\ got' = taken + n
      BY <1>1, <1>7, <1>8, <2>1
    <3>2. ~(got' - taken < n)
      BY <1>1, <1>7, <3>1
    <3> QED BY <1>1, <1>6, <1>7, <3>1, <3>2
  <2>2. CASE \E d \in Places : c < d /\ Whole(d) /\ additional >= got - taken + 2
    <3>1. PICK d \in Places : c < d /\ Whole(d) /\ additional >= got - taken + 2
      BY <2>2
    <3>2. got >= taken + n
      BY <1>1, <1>5, <1>7, <3>1, WholeFrame
    <3>3. Missing(n) = 0 /\ got' = got
      BY <1>1, <1>7, <1>8, <3>1, <3>2
    <3>4. Whole(d)'
      BY <1>2, <3>1, <3>3, WholeStill
    <3>5. ~(got' - taken < n)
      BY <1>1, <1>7, <3>2, <3>3
    <3>6. additional' >= got' - taken' + 2
      BY <1>5, <1>6, <1>7, <3>3, <3>5
    <3> QED BY <1>6, <3>1, <3>4, <3>5, <3>6
  <2> QED BY <1>3, <2>1, <2>2 DEF Inside
<1>10. Inside(c, Start(sent[c]))'
  BY <1>2, <1>4, <1>5, <1>9 DEF Inside, Start
<1> QED BY <1>4, <1>9, <1>10 DEF Place

\* Unless it ends the connection, a payload handled leaves the reader with
\* what was said before the next frame.
LEMMA DeliverFollows ==
  ASSUME StreamIInv, NEW c \in DOMAIN sent, UpTo(c), UNCHANGED gateway,
         message = [kind |-> sent[c].kind, fin |-> sent[c].fin, length |-> sent[c].length],
         Deliver(Payload(sent[c]))
  PROVE  /\ pc' = "closed" \/ (pc' = "header" /\ UpTo(c + 1)')
         /\ heard' = IF Says(sent[c]) THEN Append(heard, ItemOf(sent[c])) ELSE heard
         /\ Says(sent[c]) => Len(heard) < Len(said) /\ said[Len(heard) + 1] = ItemOf(sent[c])
         /\ pc' = "closed" => Says(sent[c])
<1> DEFINE f == sent[c]
<1>1. /\ f \in Frame /\ Link(c) /\ Len(heard) = f.index /\ fragmented = f.draft
      /\ message.kind = f.kind /\ message.fin = f.fin
  BY FrameAt DEF UpTo
<1>2. /\ IndexOf(c + 1)' = IF Says(f) THEN f.index + 1 ELSE f.index
      /\ DraftOf(c + 1)' = IF f.kind /= "data" THEN f.draft
                           ELSE IF f.fin THEN <<>> ELSE Append(f.draft, Payload(f))
  BY <1>1, PlacesStill DEF Link
<1>3. Says(f) => Len(heard) < Len(said) /\ said[Len(heard) + 1] = ItemOf(f)
  <2>1. f.index \in Nat /\ Len(said) \in Nat
    BY <1>1 DEF Frame, StreamIInv, TypeOK
  <2> QED BY <1>1, <2>1 DEF Link
<1> HIDE DEF f
<1>4. \A item : Len(Append(heard, item)) = Len(heard) + 1
  BY DEF StreamIInv, TypeOK
<1>5. CASE f.kind = "close"
  BY <1>1, <1>3, <1>5 DEF Deliver, Hear, Says, ItemOf, f
<1>6. CASE f.kind = "ping"
  BY <1>1, <1>2, <1>3, <1>4, <1>6 DEF Deliver, Hear, Says, ItemOf, UpTo, f
<1>7. CASE f.kind = "data" /\ f.fin
  BY <1>1, <1>2, <1>3, <1>4, <1>7 DEF Deliver, Hear, Says, ItemOf, UpTo, f
<1>8. CASE f.kind = "pong" \/ (f.kind = "data" /\ ~f.fin)
  BY <1>1, <1>2, <1>3, <1>8 DEF Deliver, Says, UpTo, f
<1> QED BY <1>1, <1>5, <1>6, <1>7, <1>8 DEF Deliver

\* The payload of frame c is handled, whole.
LEMMA ContentStep ==
  ASSUME PlaceIInv, ReadContent
  PROVE  \E c \in DOMAIN sent :
           /\ UpTo(c)
           /\ message = [kind |-> sent[c].kind, fin |-> sent[c].fin, length |-> sent[c].length]
           /\ Deliver(Payload(sent[c]))
           /\ taken' = AtOf(c + 1)
           /\ \/ got' = taken' /\ additional' /= 1
              \/ \E d \in Places : c + 1 < d /\ Whole(d)' /\ additional' >= got' - taken'
<1> DEFINE n == message.length
           rest == got' - taken - Missing(n)
<1>1. StreamIInv /\ TypeOK /\ Place /\ pc = "content" /\ Complete(n) /\ n \in Nat
  BY MessageTyped DEF PlaceIInv, StreamIInv, ReadContent
<1>2. UNCHANGED gateway
  BY DEF ReadContent
<1>3. PICK c \in Places : Inside(c, Start(sent[c])) /\ UpTo(c)
  BY <1>1 DEF Place
<1>4. /\ c \in DOMAIN sent
      /\ message = [kind |-> sent[c].kind, fin |-> sent[c].fin, length |-> sent[c].length]
      /\ taken = Start(sent[c]) /\ n = sent[c].length
      /\ End(sent[c]) = taken + n /\ AtOf(c + 1) = End(sent[c])
  BY <1>1, <1>3, FrameAt DEF Inside
<1>5. got \in Nat /\ taken \in Nat /\ additional \in Nat
  BY <1>1 DEF TypeOK
<1>6. ~(rest > 0 /\ got' - taken < n)
      => /\ taken' = IF rest > 0 THEN taken + n ELSE got'
         /\ Deliver(<<taken, taken'>>)
         /\ additional' = rest
  BY DEF ReadContent
<1> HIDE DEF n
<1>7. /\ got' = got + Missing(n) /\ rest = got - taken
      /\ additional > n => Missing(n) = 0
      /\ ~(additional > n) => Missing(n) = n - additional
  BY <1>1, Completed
<1> HIDE DEF rest
<1>8. /\ taken' = taken + n /\ Deliver(<<taken, taken'>>)
      /\ \/ got' = taken' /\ additional' /= 1
         \/ \E d \in Places : c + 1 < d /\ Whole(d)' /\ additional' >= got' - taken'
  <2>1. CASE got = taken /\ additional = 0
    <3>1. Missing(n) = n /\ got' = taken + n /\ rest = 0
      BY <1>1, <1>5, <1>7, <2>1
    <3> QED BY <1>6, <3>1
  <2>2. CASE \E d \in Places : c < d /\ Whole(d) /\ additional >= got - taken + 2
    <3>1. PICK d \in Places : c < d /\ Whole(d) /\ additional >= got - taken + 2
      BY <2>2
    <3>2. /\ got >= taken + n
          /\ c + 1 = d => got = taken + n /\ n /= 1
          /\ c + 1 /= d => c + 1 < d
      BY <1>1, <1>4, <3>1, WholeFrame
    <3>3. Missing(n) = 0 /\ got' = got
      BY <1>1, <1>5, <1>7, <3>1, <3>2
    <3>4. Whole(d)'
      BY <1>2, <3>1, <3>3, WholeStill
    <3>5. ~(rest > 0 /\ got' - taken < n) /\ (rest = 0 => n = 0) /\ rest >= 0
      BY <1>1, <1>5, <1>7, <3>2, <3>3
    <3>6. taken' = taken + n /\ Deliver(<<taken, taken'>>) /\ additional' = got - taken
      BY <1>1, <1>5, <1>6, <1>7, <3>3, <3>5
    <3>7. CASE c + 1 = d
      <4>1. additional' = n
        BY <1>1, <1>5, <3>2, <3>6, <3>7
      <4> QED BY <3>2, <3>3, <3>6, <3>7, <4>1
    <3>8. CASE c + 1 /= d
      <4>1. additional' >= got' - taken'
        BY <1>1, <1>5, <3>3, <3>6
      <4> QED BY <3>2, <3>4, <3>6, <3>8, <4>1
    <3> QED BY <3>7, <3>8
  <2> QED BY <1>3, <2>1, <2>2 DEF Inside
<1>9. Payload(sent[c]) = <<taken, taken'>>
  BY <1>4, <1>8 DEF Payload
<1> QED BY <1>3, <1>4, <1>8, <1>9

LEMMA ContentKeepsPlace ==
  ASSUME PlaceIInv, ReadContent
  PROVE  Place'
<1>1. PICK c \in DOMAIN sent :
        /\ UpTo(c)
        /\ message = [kind |-> sent[c].kind, fin |-> sent[c].fin, length |-> sent[c].length]
        /\ Deliver(Payload(sent[c]))
        /\ taken' = AtOf(c + 1)
        /\ \/ got' = taken' /\ additional' /= 1
           \/ \E d \in Places : c + 1 < d /\ Whole(d)' /\ additional' >= got' - taken'
  BY ContentStep
<1>2. UNCHANGED gateway /\ StreamIInv
  BY DEF ReadContent, PlaceIInv, StreamIInv
<1>3. pc' = "closed" \/ (pc' = "header" /\ UpTo(c + 1)')
  BY <1>1, <1>2, DeliverFollows
<1>4. c + 1 \in Places' /\ taken' = AtOf(c + 1)' /\ Places' = Places
  BY <1>1, <1>2, FrameAt, PlacesStill
<1>5. AtHeader(c + 1)'
  BY <1>1, <1>4 DEF AtHeader
<1> QED BY <1>3, <1>4, <1>5 DEF Place

LEMMA PlaceStarts == Init => PlaceIInv
BY TypeStarts, ChainStarts DEF Init, PlaceIInv, TypeIInv, Place

LEMMA ChainStill == Chain /\ Ordered /\ UNCHANGED gateway => Chain' /\ Ordered'
<1> SUFFICES ASSUME Chain, Ordered, UNCHANGED gateway PROVE Chain' /\ Ordered'
  OBVIOUS
<1>1. /\ Places' = Places /\ UNCHANGED <<sent, said, draft>>
      /\ \A i : AtOf(i)' = AtOf(i) /\ IndexOf(i)' = IndexOf(i) /\ DraftOf(i)' = DraftOf(i)
  BY PlacesStill DEF gateway
<1>2. Ordered'
  BY <1>1 DEF Ordered
<1>3. \A i \in DOMAIN sent : Link(i) => Link(i)'
  BY <1>1 DEF Link
<1>4. Chain'
  BY <1>1, <1>3, ChainIsLinks DEF Chain, Link
<1> QED BY <1>2, <1>4

LEMMA PlaceKept ==
  ASSUME ~CutFrames
  PROVE  PlaceIInv /\ [Next]_vars => PlaceIInv'
<1> SUFFICES ASSUME PlaceIInv, [Next]_vars PROVE PlaceIInv'
  OBVIOUS
<1>1. TypeOK' /\ Search'
  BY TypeKept DEF PlaceIInv, TypeIInv
<1>2. Chain' /\ Ordered'
  <2>1. CASE Gateway
    BY <2>1, SendKeepsChain DEF Gateway, PlaceIInv
  <2>2. CASE UNCHANGED gateway
    BY <2>2, ChainStill DEF PlaceIInv
  <2> QED BY <2>1, <2>2 DEF Next, ReadUpgrade, Read, ReadHeader, ReadLength, ReadContent,
                            Fail, vars, gateway
<1>3. Place'
  <2>1. CASE Gateway
    BY <2>1, SendKeepsPlace DEF Gateway
  <2>2. CASE \E n \in 1..MaxRead : ReadUpgrade(n)
    BY <2>2, UpgradeReachesPlace
  <2>3. CASE Read
    BY <2>3, HeaderKeepsPlace, LengthKeepsPlace, ContentKeepsPlace DEF Read
  <2>4. CASE Fail
    BY <2>4 DEF Fail, Place
  <2>5. CASE UNCHANGED vars
    BY <2>5 DEF PlaceIInv, Place, AtHeader, Inside, UpTo, Whole, Places, AtOf, IndexOf,
                DraftOf, StreamEnd, vars
  <2> QED BY <2>1, <2>2, <2>3, <2>4, <2>5 DEF Next
<1> QED BY <1>1, <1>2, <1>3 DEF PlaceIInv

LEMMA Placed ==
  ASSUME ~CutFrames
  PROVE  Spec => []PlaceIInv
BY PlaceStarts, PlaceKept, PTL DEF Spec

(* When no frame is cut by the reads of the response, and the last of the  *)
(* frames that come with it is not of length 1, the reads that follow      *)
(* complete them, for any frames: the arithmetic of num_additional_bytes   *)
(* counts too much and never too little (client_ws.hpp 488-676).           *)
THEOREM LeftoverIsCompleted ==
  ASSUME ~CutFrames
  PROVE  Spec => []LeftoverCompleted
<1>1. PlaceIInv => LeftoverCompleted
  BY DEF PlaceIInv, Place, LeftoverCompleted
<1> QED BY <1>1, Placed, PTL

-----------------------------------------------------------------------------
(* The refinement                                                          *)

Over == pc \in {"closed", "failed"}

LEMMA ContentHears ==
  ASSUME PlaceIInv, ReadContent
  PROVE  Stream!Hear \/ UNCHANGED Stream!vars
<1>1. PICK c \in DOMAIN sent :
        /\ UpTo(c) /\ Deliver(Payload(sent[c]))
        /\ message = [kind |-> sent[c].kind, fin |-> sent[c].fin, length |-> sent[c].length]
  BY ContentStep
<1>2. UNCHANGED gateway /\ StreamIInv /\ pc = "content" /\ UNCHANGED said
  BY DEF ReadContent, PlaceIInv, StreamIInv, gateway
<1>3. /\ pc' \in {"closed", "header"}
      /\ heard' = IF Says(sent[c]) THEN Append(heard, ItemOf(sent[c])) ELSE heard
      /\ Says(sent[c]) => Len(heard) < Len(said) /\ said[Len(heard) + 1] = ItemOf(sent[c])
      /\ pc' = "closed" => Says(sent[c])
  BY <1>1, <1>2, DeliverFollows
<1> QED BY <1>2, <1>3 DEF Stream!Hear, Stream!vars

LEMMA SendSays ==
  ASSUME TypeOK, NEW kind \in Kinds, NEW fin \in BOOLEAN, NEW length \in Lengths,
         SendFrame(kind, fin, length)
  PROVE  Stream!Say \/ UNCHANGED Stream!vars
<1>1. UNCHANGED <<pc, heard>>
  BY DEF SendFrame
<1>2. \/ UNCHANGED said
      \/ \E item : said' = Append(said, item)
  BY DEF SendFrame
<1>3. ASSUME NEW item, said' = Append(said, item)
      PROVE  Len(said') = Len(said) + 1 /\ said = SubSeq(said', 1, Len(said))
  BY <1>3 DEF TypeOK
<1> QED BY <1>1, <1>2, <1>3 DEF Stream!Say, Stream!vars

LEMMA StepImplements ==
  PlaceIInv /\ [Next]_vars => [Stream!Next]_(Stream!vars)
<1> SUFFICES ASSUME PlaceIInv, [Next]_vars PROVE Stream!Next \/ UNCHANGED Stream!vars
  OBVIOUS
<1>1. CASE Gateway
  BY <1>1, SendSays DEF Gateway, PlaceIInv, Stream!Next
<1>2. CASE ReadContent
  BY <1>2, ContentHears DEF Stream!Next
<1>3. CASE \/ \E n \in 1..MaxRead : ReadUpgrade(n)
           \/ ReadHeader \/ ReadLength \/ Fail \/ UNCHANGED vars
  <2>1. UNCHANGED <<said, heard>>
    BY <1>3 DEF ReadUpgrade, ReadHeader, ReadLength, Fail, vars, gateway
  <2>2. ~Over \/ UNCHANGED pc
    BY <1>3 DEF ReadUpgrade, ReadHeader, ReadLength, Fail, vars, Over, Reading
  <2> QED BY <2>1, <2>2 DEF Stream!Next, Stream!End, Stream!vars, Over
<1> QED BY <1>1, <1>2, <1>3 DEF Next, Read

(* The receiving half keeps the promise of MessageStream under the same    *)
(* condition, for any number of frames: what is handled is what was said,  *)
(* in order, once and with its own bytes (client_ws.hpp 478-676).          *)
THEOREM ImplementsMessageStream ==
  ASSUME ~CutFrames
  PROVE  Spec => Stream!Spec
<1>1. Init => Stream!Init
  BY DEF Init, Stream!Init
<1> QED BY <1>1, Placed, StepImplements, PTL DEF Spec, Stream!Spec
=============================================================================
