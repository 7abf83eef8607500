----------------------- MODULE GatewayHistory_proofs -----------------------
(***************************************************************************)
(* Which dispatches of a session can be skipped, whatever runs of the      *)
(* program its history is made of: proofs for GatewaySession, for any set  *)
(* of sessions and any bounds.                                             *)
(*                                                                         *)
(* NoEventSkipped speaks of all runs together, so the inductive invariant  *)
(* HistoryIInv must say where the numbers of a session can be between two  *)
(* runs and on their way.  Its part Always holds in every run.  Its part   *)
(* Orderly holds as long as no run has opened two sessions on its          *)
(* connection (~reopened), and its parts need each other:                  *)
(* A number is covered when its handler has returned or has it in hand:    *)
(*   - a dispatch is sent after one that is covered or on its way          *)
(*     (InOrder), because a RESUME carries a number that is covered        *)
(*     (SavedCovered);                                                     *)
(*   - the saved number is covered in the session it is saved with,        *)
(*     because sequenceNumber is in whatever live session the process      *)
(*     names (NumberCovered);                                              *)
(*   - what is in hand when the process dies is not in the file, unless    *)
(*     quit saved it (Unsaved), so it does not matter that it is covered   *)
(*     no more: the gateway sends it again;                                *)
(*   - that holds although sequenceNumber and sessionID are set apart,     *)
(*     because before the first READY of a run there is one session in     *)
(*     sight (OneSession, ResumesFirst), and after it one that lives       *)
(*     (OneLive, Asked, LiveFrames).                                       *)
(* HandlerSavesAdvance needs besides that the frames of a new session are  *)
(* preceded by its READY (Announced), and where the file can be ahead of   *)
(* the process (Ahead, Advances).                                          *)
(*                                                                         *)
(* The lemmas are in this order: what a step does to the frames for the    *)
(* client (FrameSteps), to the process (ProcessSteps) and to the frames    *)
(* for the gateway (ServerSteps); then one lemma for each part of the      *)
(* invariant, named for the part it keeps.                                 *)
(***************************************************************************)
EXTENDS GatewaySession_proofs

\* covered[s]: dispatches of s that are settled, or in hand.  What it holds is
\* only taken back when the process dies.
covered == [s \in Sessions |-> settled[s] \cup InHand(s)]

\* Dispatch n of s was covered, or there is nothing to receive.
Covered(s, n) == n = 0 \/ n \in covered[s]

\* s is named somewhere in the system.
InUse(s) ==
  \/ s \in {sessionID, attached, file.doc.sid}
  \/ \E t \in Threads : doc[t].sid = s
  \/ \E i \in DOMAIN toServer : toServer[i].sid = s
  \/ \E i \in DOMAIN toClient : toClient[i].sid = s

\* Console is between the two halves of a resume.
Resuming == pc[Console] \in {"assign", "send"}

ResumeAt(i) == i \in DOMAIN toServer /\ toServer[i].op = "RESUME"

\* Io is about to assign the id of a READY.
ReadyInHand == pc[Io] = "handle" /\ hand.kind = "READY"

\* The process holds the id s.
Held(s) == s = sessionID \/ \E t \in Threads : doc[t].sid = s

Event(i) == i \in DOMAIN toClient /\ toClient[i].seq > 0

-----------------------------------------------------------------------------
(* What holds in every run                                                 *)

\* A session that is named anywhere has had its READY.
Created == \A s \in Sessions : s \in live \/ InUse(s) => sent[s] > 0

Kinds ==
  \A i \in DOMAIN toClient :
    /\ toClient[i].kind = "READY" <=> toClient[i].seq = 1
    /\ toClient[i].kind = "EVENT" <=> toClient[i].seq > 1

Unconnected == conn /= "open" => toClient = <<>> /\ toServer = <<>> /\ attached = NoId

\* What is on its way from a live session comes from the attached one.
LiveAttached == \A i \in DOMAIN toClient : Event(i) /\ toClient[i].sid \in live => attached = toClient[i].sid

\* A thread's document holds what UpdateSessionJson has read so far.
DocsCleared ==
  /\ \A t \in Threads :
      /\ pc[t] \in {"idle", "readSid", "stop", "stopped"} => doc[t] = NoDoc
      /\ pc[t] = "readSeq" => doc[t].seq = 0
      /\ pc[t] \in {"open", "write"} => doc[t].seq <= sequenceNumber
  /\ pc[Io] = "assign" => doc[Io].seq = 0
  /\ pc[Io] = "handle" => doc[Io] = [sid |-> IF hand.kind = "READY" THEN hand.sid ELSE NoId, seq |-> 0]
  /\ pc[Io] \in {"open", "write"} => doc[Io].seq = sequenceNumber
  /\ pc[Io] /= "idle" => sequenceNumber > 0
  /\ pc[Io] \in {"idle", "handle", "assign", "readSid", "readSeq", "open", "write"}

\* While the file is ahead of the process, all that can reach the process
\* from the file's session is ahead of the file.
Ahead ==
  LET y == file.doc.sid
      n == file.doc.seq
  IN  y \in Sessions /\ n > sequenceNumber =>
        /\ \A i \in DOMAIN toClient : Event(i) /\ toClient[i].sid = y => toClient[i].seq > n
        /\ attached = y => sent[y] >= n
        /\ \A i \in DOMAIN toServer : ResumeAt(i) /\ toServer[i].sid = y => toServer[i].seq >= n
        /\ Resuming /\ doc[Console].sid = y => doc[Console].seq >= n

Always == Created /\ Kinds /\ Unconnected /\ LiveAttached /\ DocsCleared /\ Ahead

-----------------------------------------------------------------------------
(* What holds until a run opens two sessions on its connection             *)

Gapless ==
  /\ \A s \in Sessions : \A n \in covered[s] : n <= sent[s] /\ 1..n \subseteq covered[s]
  /\ \A s \in Sessions : \A n \in settled[s] : 1..n \subseteq settled[s]

\* Only quit saves the number of a dispatch while its handler runs.
Unsaved ==
  \A s \in live : \A n \in InHand(s) :
    file.kind = "json" /\ file.doc.sid = s /\ pc[Console] \notin {"stop", "stopped"} =>
      file.doc.seq < n \/ n \in settled[s]

\* Each dispatch on its way, and the next one to be sent, follows one that
\* is covered or that is in front of it.
InOrder ==
  /\ \A i \in DOMAIN toClient : Event(i) =>
      /\ toClient[i].seq <= sent[toClient[i].sid]
      /\ \/ Covered(toClient[i].sid, toClient[i].seq - 1)
         \/ \E j \in 1..i - 1 : toClient[j].sid = toClient[i].sid /\ toClient[j].seq = toClient[i].seq - 1
  /\ attached /= NoId =>
      \/ Covered(attached, sent[attached])
      \/ \E j \in DOMAIN toClient : toClient[j].sid = attached /\ toClient[j].seq = sent[attached]

\* Wherever a live session is written with a number, the number is covered.
SavedCovered ==
  /\ file.kind = "json" /\ file.doc.sid \in live => Covered(file.doc.sid, file.doc.seq)
  /\ \A t \in Threads : doc[t].sid \in live => Covered(doc[t].sid, doc[t].seq)
  /\ \A i \in DOMAIN toServer : ResumeAt(i) /\ toServer[i].sid \in live => Covered(toServer[i].sid, toServer[i].seq)

\* sequenceNumber can be saved or sent with the ids the process has.
NumberCovered ==
  /\ \A s \in live : Held(s) => Covered(s, sequenceNumber)
  /\ ~identified /\ file.doc.sid \in live => Covered(file.doc.sid, sequenceNumber)

\* No session was started in this run yet.
Early == ~identified \/ \E i \in DOMAIN toServer : ResumeAt(i)

OneSession == Early => \A a, b \in Sessions : InUse(a) /\ InUse(b) => a = b

ResumesFirst ==
  /\ identified => ~Resuming
  /\ \A i \in DOMAIN toServer : toServer[i].op = "IDENTIFY" =>
      /\ identified
      /\ \A j \in DOMAIN toServer : j > i => toServer[j].op = "IDENTIFY"

OneLive ==
  \A a, b \in live :
     (Held(a) \/ attached = a) /\ (Held(b) \/ attached = b) => a = b

\* A live session that the process names is attached, or will be asked for.
Asked ==
  conn /= "closed" =>
    \A s \in live : Held(s) =>
      \/ attached = s
      \/ attached = NoId /\ \/ \E i \in DOMAIN toServer : ResumeAt(i) /\ toServer[i].sid = s
                            \/ Resuming /\ doc[Console].sid = s

LiveFrames ==
  /\ \A s \in live : Held(s) => \A i \in DOMAIN toClient : Event(i) => toClient[i].sid = s
  /\ \A i, j \in DOMAIN toClient :
       i < j /\ Event(i) /\ Event(j) /\ toClient[i].sid \in live => toClient[j].sid = toClient[i].sid

\* sessionID is that of s, if it is one, or is about to be, and will be.
Known(s) ==
  /\ sessionID \in Sessions => sessionID = s \/ ReadyInHand
  /\ \A t \in Threads : pc[t] = "assign" /\ doc[t].sid \in Sessions => doc[t].sid = s
  /\ pc[Io] = "handle" /\ doc[Io].sid \in Sessions => doc[Io].sid = s

ReadyAt(i, s) == toClient[i].kind = "READY" /\ toClient[i].sid = s

\* After the first m frames sessionID is that of w.
Told(w, m) ==
  /\ Known(w) \/ \E j \in 1..m : ReadyAt(j, w)
  /\ \A i \in 1..m : Event(i) /\ toClient[i].sid /= w => \E j \in i + 1..m : ReadyAt(j, w)

Announced ==
  /\ \A k \in DOMAIN toClient : Event(k) => Told(toClient[k].sid, k)
  /\ attached /= NoId => Told(attached, Len(toClient))

\* While Io works on a frame, and before a run starts a session, the file is
\* not ahead of the process in a session that the process names.
Advances ==
  LET y == file.doc.sid
      n == file.doc.seq
  IN  y \in Sessions =>
        /\ /\ pc[Io] /= "idle"
           /\ (y = sessionID /\ ~ReadyInHand) \/ y = doc[Io].sid \/ (pc[Console] = "assign" /\ doc[Console].sid = y)
           => n <= sequenceNumber
        /\ Early /\ sequenceNumber > 0 => n <= sequenceNumber

Orderly ==
  /\ Gapless /\ Unsaved /\ InOrder
  /\ SavedCovered /\ NumberCovered
  /\ OneSession /\ ResumesFirst
  /\ OneLive /\ Asked /\ LiveFrames
  /\ Announced /\ Advances

HistoryIInv == TypeIInv /\ Always /\ (~reopened => Orderly)

-----------------------------------------------------------------------------
(* What is in hand                                                         *)

\* Between two frames nothing is in hand.
LEMMA HandEmpty ==
  ASSUME TypeIInv, pc[Io] = "idle", NEW s
  PROVE  InHand(s) = {}
<1>1. hand = NoFrame /\ NoFrame.seq = 0
  BY DEF TypeIInv, Holding, NoFrame
<1> QED BY <1>1, SessionAssumption DEF InHand

LEMMA CoveredIs ==
  ASSUME TypeIInv, NEW s \in Sessions
  PROVE  /\ covered[s] = settled[s] \cup InHand(s)
         /\ settled[s] \subseteq 1..MaxSeq /\ InHand(s) \subseteq 1..MaxSeq
         /\ \A n : n \in covered[s] => n \in Nat /\ n > 0
<1>1. covered[s] = settled[s] \cup InHand(s)
  BY DEF covered
<1>2. settled[s] \subseteq 1..MaxSeq
  BY DEF TypeIInv, TypeOK
<1>3. InHand(s) \subseteq 1..MaxSeq
  BY DEF InHand
<1> QED BY <1>1, <1>2, <1>3, SessionAssumption

LEMMA CoveredPrimed ==
  ASSUME TypeIInv', NEW s \in Sessions, NEW n \in covered'[s]
  PROVE  n \in Nat /\ n > 0
<1>1. covered'[s] = settled'[s] \cup InHand(s)'
  BY DEF covered
<1>2. settled'[s] \subseteq 1..MaxSeq /\ InHand(s)' \subseteq 1..MaxSeq
  BY DEF TypeIInv, TypeOK, InHand
<1> QED BY <1>1, <1>2, SessionAssumption

\* A number is settled when its handler returns, and was covered before.
LEMMA ReturnSettles ==
  ASSUME TypeIInv, pc[Io] /= "idle", HandlerReturns
  PROVE  /\ covered' = covered
         /\ \A s \in Sessions : settled'[s] = settled[s] \cup InHand(s)
         /\ \A s : InHand(s)' = {}
<1>1. hand.seq \in 1..MaxSeq /\ hand.sid \in Sessions
  <2>1. hand.seq \in 0..MaxSeq
    BY DEF TypeIInv, TypeOK, FrameToClient, SeqNumber
  <2> QED BY <2>1, SessionAssumption DEF TypeIInv, Holding
<1>2. settled' = [settled EXCEPT ![hand.sid] = @ \cup {hand.seq}]
      /\ settled \in [Sessions -> SUBSET (1..MaxSeq)]
  BY DEF HandlerReturns, TypeIInv, TypeOK
<1>3. \A s : InHand(s) = IF s = hand.sid THEN {hand.seq} ELSE {}
  BY <1>1 DEF InHand
<1>4. \A s : InHand(s)' = {}
  <2>1. hand'.seq = 0
    BY DEF HandlerReturns, NoFrame
  <2> QED BY <2>1, SessionAssumption DEF InHand
<1>5. \A s \in Sessions : settled'[s] = settled[s] \cup InHand(s)
  BY <1>1, <1>2, <1>3
<1> QED BY <1>4, <1>5 DEF covered

\* What a step does to the dispatch in hand.
LEMMA HandSteps ==
  ASSUME TypeIInv, [Next]_vars
  PROVE  \/ UNCHANGED <<hand, settled>>
         \/ Receive
         \/ Die
         \/ pc[Io] /= "idle" /\ HandlerReturns
<1>1. CASE UNCHANGED vars \/ Open \/ Lose \/ Start \/ Server
  BY <1>1 DEF vars, Open, Lose, Start, Server, ServerReceive, ServerEvent, ServerForget, history
<1>2. CASE Command /\ ~Die
  BY <1>2 DEF Command, Identify, Resume, SendResume, Quit, Stop, Crash, history
<1>3. CASE Handle
  BY <1>3 DEF Handle
<1>4. CASE \E t \in Threads : EndAssign(t) \/ Save(t)
  BY <1>4 DEF EndAssign, Save, ReadSid, ReadSeq, OpenFile, WriteFile, history
<1> QED BY <1>1, <1>2, <1>3, <1>4 DEF Next, Exit

LEMMA CoveredSame ==
  ASSUME UNCHANGED <<hand, settled>>
  PROVE  covered' = covered
BY DEF covered, InHand

LEMMA CoveredSteps ==
  ASSUME TypeIInv, [Next]_vars
  PROVE  covered' = covered \/ Receive \/ Die
BY HandSteps, CoveredSame, ReturnSettles

-----------------------------------------------------------------------------
(* What the gateway adds to the frames for the client                      *)

\* Frames are added at the end of toClient, or none is.
Longer ==
  /\ toClient' \in Seq(FrameToClient)
  /\ Len(toClient') >= Len(toClient)
  /\ \A i \in 1..Len(toClient) : toClient'[i] = toClient[i]

\* The connection is gone, and the frames on it.
Cut ==
  /\ toClient' = <<>> /\ attached' = NoId
  /\ UNCHANGED <<sent, live>>
  /\ covered' = covered \/ Die

\* No numbered frame is added: something happens to sessions that are not
\* attached, or the client is told that its session is invalid.
Noted ==
  /\ Longer
  /\ \A i \in Len(toClient) + 1..Len(toClient') : toClient'[i] = Invalid
  /\ live' \subseteq live /\ covered' = covered
  /\ sent' \in [Sessions -> Nat]
  /\ \A s \in Sessions : sent'[s] >= sent[s]
  /\ attached /= NoId => sent'[attached] = sent[attached]
  /\ attached' = attached \/ (attached' = NoId /\ attached \notin live')

\* The dispatches of s after a are added.
Extends(s, a) ==
  /\ Longer
  /\ attached' = s /\ live' = live \cup {s} /\ covered' = covered
  /\ sent' \in [Sessions -> Nat]
  /\ \A x \in Sessions : x /= s => sent'[x] = sent[x]
  /\ sent'[s] >= sent[s] /\ sent'[s] >= a
  /\ Len(toClient') >= Len(toClient) + (sent'[s] - a)
  /\ \A i \in Len(toClient) + 1..Len(toClient') :
       IF i - Len(toClient) <= sent'[s] - a
       THEN toClient'[i] = Dispatch(s, a + (i - Len(toClient)))
       ELSE toClient'[i] = [kind |-> "RESUMED", sid |-> s, seq |-> 0]

LEMMA Pushes ==
  ASSUME TypeIInv, NEW frames \in Seq(FrameToClient), Push(frames)
  PROVE  /\ Longer /\ Len(toClient') = Len(toClient) + Len(frames)
         /\ \A i \in Len(toClient) + 1..Len(toClient') :
              /\ i - Len(toClient) \in 1..Len(frames)
              /\ toClient'[i] = frames[i - Len(toClient)]
<1>1. toClient' = toClient \o frames /\ toClient \in Seq(FrameToClient)
  BY DEF Push, TypeIInv, TypeOK
<1>2. /\ toClient' \in Seq(FrameToClient) /\ Len(toClient') = Len(toClient) + Len(frames)
      /\ \A i \in 1..Len(toClient) + Len(frames) :
           toClient'[i] = IF i <= Len(toClient) THEN toClient[i] ELSE frames[i - Len(toClient)]
  BY <1>1, ConcatProperties
<1>3. Len(toClient) \in Nat /\ Len(frames) \in Nat
  BY <1>1, LenProperties
<1> QED BY <1>2, <1>3 DEF Longer

LEMMA PushesOne ==
  ASSUME TypeIInv, NEW f \in FrameToClient, Push(<<f>>)
  PROVE  /\ Longer /\ Len(toClient') = Len(toClient) + 1
         /\ toClient'[Len(toClient) + 1] = f
<1>1. <<f>> \in Seq(FrameToClient) /\ Len(<<f>>) = 1 /\ <<f>>[1] = f
  OBVIOUS
<1>2. Len(toClient) \in Nat
  BY DEF TypeIInv, TypeOK
<1> DEFINE one == <<f>>
<1>3. one \in Seq(FrameToClient) /\ Len(one) = 1 /\ one[1] = f /\ Push(one)
  BY <1>1
<1> HIDE DEF one
<1>4. /\ Longer /\ Len(toClient') = Len(toClient) + Len(one)
      /\ \A i \in Len(toClient) + 1..Len(toClient') : toClient'[i] = one[i - Len(toClient)]
  BY <1>3, Pushes
<1>5. Len(toClient) + 1 \in Len(toClient) + 1..Len(toClient') /\ (Len(toClient) + 1) - Len(toClient) = 1
  BY <1>2, <1>3, <1>4
<1> QED BY <1>3, <1>4, <1>5

LEMMA NewSessionExtends ==
  ASSUME TypeIInv, NEW s \in Sessions, NewSession(s), UNCHANGED covered
  PROVE  Extends(s, 0)
<1>1. 1 \in 1..MaxSeq /\ Len(toClient) \in Nat
  BY SessionAssumption DEF TypeIInv, TypeOK
<1>2. /\ Longer /\ Len(toClient') = Len(toClient) + 1
      /\ toClient'[Len(toClient) + 1] = Dispatch(s, 1)
  BY <1>1, DispatchTyped, PushesOne DEF NewSession
<1>3. /\ sent' = [sent EXCEPT ![s] = 1] /\ sent \in [Sessions -> 0..MaxSeq] /\ sent[s] = 0
      /\ live' = live \cup {s} /\ attached' = s
  BY DEF NewSession, TypeIInv, TypeOK
<1>4. \A i \in Len(toClient) + 1..Len(toClient') : i = Len(toClient) + 1 /\ i - Len(toClient) = 1 /\ 0 + 1 = 1
  BY <1>1, <1>2
<1>5. /\ sent' \in [Sessions -> Nat] /\ sent'[s] = 1 /\ 0 \in Nat
      /\ \A x \in Sessions : x /= s => sent'[x] = sent[x]
  BY <1>1, <1>3
<1> QED BY <1>1, <1>2, <1>3, <1>4, <1>5 DEF Extends

LEMMA ReplayExtends ==
  ASSUME TypeIInv, NEW f \in FrameToServer, Resumable(f), Replay(f), UNCHANGED <<sent, live, covered>>
  PROVE  Extends(f.sid, f.seq)
<1> DEFINE s == f.sid
           a == f.seq
           m == sent[s] - a
           r == [kind |-> "RESUMED", sid |-> s, seq |-> 0]
           frames == [i \in 1..m |-> Dispatch(s, a + i)]
<1>1. s \in Sessions /\ a \in 0..MaxSeq /\ sent[s] \in 0..MaxSeq /\ m \in Nat /\ s \in live
  BY SessionAssumption DEF TypeIInv, TypeOK, Resumable, FrameToServer, SeqNumber
<1>2. \A i \in 1..m : a + i \in 1..MaxSeq
  BY <1>1, SessionAssumption
<1>3. \A i \in 1..m : frames[i] \in FrameToClient
  BY <1>1, <1>2, DispatchTyped
<1>4. frames \in Seq(FrameToClient) /\ Len(frames) = m /\ \A i \in 1..m : frames[i] = Dispatch(s, a + i)
  BY <1>1, <1>3
<1>5. r \in FrameToClient
  BY <1>1, SessionAssumption DEF FrameToClient, SeqNumber, Ids
<1>6. Push(frames \o <<r>>) /\ attached' = s
  BY DEF Replay
<1>7. sent \in [Sessions -> Nat] /\ Len(toClient) \in Nat
  BY SessionAssumption DEF TypeIInv, TypeOK
<1> HIDE DEF frames, r, m
<1>8. /\ frames \o <<r>> \in Seq(FrameToClient) /\ Len(frames \o <<r>>) = m + 1
      /\ \A i \in 1..m + 1 : (frames \o <<r>>)[i] = IF i <= m THEN frames[i] ELSE r
  BY <1>1, <1>4, <1>5
<1>9. /\ Longer /\ Len(toClient') = Len(toClient) + (m + 1)
      /\ \A i \in Len(toClient) + 1..Len(toClient') :
           /\ i - Len(toClient) \in 1..m + 1
           /\ toClient'[i] = (frames \o <<r>>)[i - Len(toClient)]
  BY <1>6, <1>8, Pushes
<1>10. ASSUME NEW i \in Len(toClient) + 1..Len(toClient')
       PROVE  IF i - Len(toClient) <= m
              THEN toClient'[i] = Dispatch(s, a + (i - Len(toClient)))
              ELSE toClient'[i] = r
  <2>1. PICK k \in 1..m + 1 : k = i - Len(toClient) /\ toClient'[i] = (frames \o <<r>>)[k]
    BY <1>9
  <2>2. CASE k <= m
    BY <1>1, <1>4, <1>8, <2>1, <2>2
  <2>3. CASE ~(k <= m)
    BY <1>8, <2>1, <2>3
  <2> QED BY <2>1, <2>2, <2>3
<1>11. live' = live \cup {s} /\ sent' = sent /\ covered' = covered /\ sent[s] >= a
  BY <1>1 DEF Resumable
<1>12. m = sent'[s] - a /\ Len(toClient') >= Len(toClient) + m
  BY <1>1, <1>7, <1>9, <1>11 DEF m
<1>13. /\ attached' = s /\ live' = live \cup {s} /\ covered' = covered
       /\ sent' \in [Sessions -> Nat]
       /\ \A x \in Sessions : x /= s => sent'[x] = sent[x]
       /\ sent'[s] >= sent[s] /\ sent'[s] >= a
  BY <1>1, <1>6, <1>7, <1>11
<1>14. ASSUME NEW i \in Len(toClient) + 1..Len(toClient')
       PROVE  IF i - Len(toClient) <= sent'[s] - a
              THEN toClient'[i] = Dispatch(s, a + (i - Len(toClient)))
              ELSE toClient'[i] = [kind |-> "RESUMED", sid |-> s, seq |-> 0]
  BY <1>10, <1>12 DEF r
<1>15. Len(toClient') >= Len(toClient) + (sent'[s] - a)
  BY <1>12
<1> HIDE DEF s, a
<1>16. Extends(s, a)
  BY <1>9, <1>13, <1>14, <1>15 DEF Extends
<1> QED BY <1>16 DEF s, a

LEMMA EventExtends ==
  ASSUME TypeIInv, NEW s \in Sessions, ServerEvent(s)
  PROVE  IF attached = s THEN Extends(s, sent[s]) ELSE Noted
<1>1. sent[s] \in Nat /\ sent[s] + 1 \in 1..MaxSeq /\ Len(toClient) \in Nat /\ s \in live
  BY SessionAssumption DEF TypeIInv, TypeOK, ServerEvent
<1>2. /\ sent' = [sent EXCEPT ![s] = @ + 1] /\ sent \in [Sessions -> Nat]
      /\ live' = live /\ attached' = attached /\ covered' = covered
  BY SessionAssumption, CoveredSame DEF ServerEvent, history, TypeIInv, TypeOK
<1>3. /\ sent' \in [Sessions -> Nat] /\ sent'[s] = sent[s] + 1
      /\ \A x \in Sessions : x /= s => sent'[x] = sent[x]
  BY <1>1, <1>2
<1>4. CASE attached = s
  <2>1. /\ Longer /\ Len(toClient') = Len(toClient) + 1
        /\ toClient'[Len(toClient) + 1] = Dispatch(s, sent[s] + 1)
    BY <1>1, <1>4, DispatchTyped, PushesOne DEF ServerEvent
  <2>2. \A i \in Len(toClient) + 1..Len(toClient') : i = Len(toClient) + 1 /\ i - Len(toClient) = 1
    BY <1>1, <2>1
  <2>3. sent'[s] - sent[s] = 1
    BY <1>1, <1>3
  <2>4. \A i \in Len(toClient) + 1..Len(toClient') :
          i - Len(toClient) <= sent'[s] - sent[s] /\ toClient'[i] = Dispatch(s, sent[s] + (i - Len(toClient)))
    BY <2>1, <2>2, <2>3
  <2>5. Len(toClient') >= Len(toClient) + (sent'[s] - sent[s]) /\ sent'[s] >= sent[s]
    BY <1>1, <2>1, <2>3, <1>3
  <2>6. live' = live \cup {s}
    BY <1>1, <1>2
  <2> QED BY <1>2, <1>3, <1>4, <2>1, <2>4, <2>5, <2>6 DEF Extends
<1>5. CASE attached /= s
  <2>1. toClient' = toClient /\ toClient \in Seq(FrameToClient)
    BY <1>5 DEF ServerEvent, TypeIInv, TypeOK
  <2>2. Longer /\ \A i \in Len(toClient) + 1..Len(toClient') : toClient'[i] = Invalid
    BY <1>1, <2>1 DEF Longer
  <2>3. \A x \in Sessions : sent'[x] >= sent[x]
    BY <1>2, <1>3
  <2>4. attached /= NoId => sent'[attached] = sent[attached]
    BY <1>3, <1>5 DEF TypeIInv, TypeOK
  <2>5. live' \subseteq live
    BY <1>2
  <2>6. Noted
    BY <1>2, <1>3, <2>2, <2>3, <2>4, <2>5 DEF Noted
  <2> QED BY <1>5, <2>6
<1> QED BY <1>4, <1>5

LEMMA StillNoted ==
  ASSUME TypeIInv, toClient' = toClient, live' \subseteq live, UNCHANGED <<sent, covered>>,
         attached' = attached \/ (attached' = NoId /\ attached \notin live')
  PROVE  Noted
<1>1. toClient \in Seq(FrameToClient) /\ Len(toClient) \in Nat
  BY DEF TypeIInv, TypeOK
<1>2. Longer /\ ~ \E i \in Len(toClient) + 1..Len(toClient') : TRUE
  BY <1>1 DEF Longer
<1>3. sent \in [Sessions -> Nat]
  BY SessionAssumption DEF TypeIInv, TypeOK
<1> QED BY <1>2, <1>3 DEF Noted

LEMMA InvalidNoted ==
  ASSUME TypeIInv, Push(<<Invalid>>), live' \subseteq live, UNCHANGED <<sent, covered>>,
         attached' = attached \/ (attached' = NoId /\ attached \notin live')
  PROVE  Noted
<1>1. Len(toClient) \in Nat /\ sent \in [Sessions -> Nat]
  BY SessionAssumption DEF TypeIInv, TypeOK
<1>2. /\ Longer /\ Len(toClient') = Len(toClient) + 1
      /\ toClient'[Len(toClient) + 1] = Invalid
  BY InvalidTyped, PushesOne
<1>3. \A i \in Len(toClient) + 1..Len(toClient') : i = Len(toClient) + 1
  BY <1>1, <1>2
<1> QED BY <1>1, <1>2, <1>3 DEF Noted

LEMMA ForgetNoted ==
  ASSUME TypeIInv, NEW s \in Sessions, ServerForget(s)
  PROVE  Noted
<1>1. live' = live \ {s} /\ UNCHANGED <<sent, covered>>
  BY CoveredSame DEF ServerForget, history
<1>2. CASE attached = s
  BY <1>1, <1>2, InvalidNoted DEF ServerForget
<1>3. CASE attached /= s
  <2>1. toClient' = toClient /\ attached' = attached
    BY <1>3 DEF ServerForget
  <2>2. live' \subseteq live
    BY <1>1
  <2> QED BY <1>1, <2>1, <2>2, StillNoted
<1> QED BY <1>2, <1>3

\* The gateway answers the frame at the head of toServer, or hangs up.
Answered(f) ==
  /\ conn = "open" /\ UNCHANGED conn /\ attached = NoId
  /\ toServer' = Tail(toServer)
  /\ \/ f.op = "IDENTIFY" /\ \E s \in Sessions : NewSession(s) /\ Extends(s, 0)
     \/ f.op = "RESUME" /\ Resumable(f) /\ Extends(f.sid, f.seq) /\ UNCHANGED <<sent, live>>
     \/ f.op = "RESUME" /\ ~Resumable(f) /\ Noted /\ UNCHANGED gateway

LEMMA Answers ==
  ASSUME TypeIInv, ServerReceive
  PROVE  /\ UNCHANGED <<running, pc, doc, sessionID, sequenceNumber, hand, file, history>>
         /\ toServer /= <<>> /\ Head(toServer) \in FrameToServer
         /\ \/ Disconnect /\ Cut
            \/ Answered(Head(toServer))
<1> DEFINE f == Head(toServer)
<1>1. UNCHANGED <<running, pc, doc, sessionID, sequenceNumber, hand, file, history>> /\ UNCHANGED covered
  BY CoveredSame DEF ServerReceive, history
<1>2. toServer /= <<>> /\ f \in FrameToServer /\ conn = "open"
  BY DEF ServerReceive, TypeIInv, TypeOK
<1>3. CASE attached /= NoId
  <2>1. Disconnect /\ UNCHANGED <<sent, live>>
    BY <1>3 DEF ServerReceive
  <2> QED BY <1>1, <1>2, <2>1 DEF Disconnect, Drop, Cut
<1>4. CASE attached = NoId
  <2>1. toServer' = Tail(toServer) /\ UNCHANGED conn
    BY <1>4 DEF ServerReceive
  <2>2. CASE f.op = "IDENTIFY" /\ \E s \in Sessions : NewSession(s)
    BY <1>1, <1>2, <1>4, <2>1, <2>2, NewSessionExtends DEF Answered
  <2>3. CASE f.op = "RESUME" /\ Resumable(f) /\ Replay(f) /\ UNCHANGED <<sent, live>>
    BY <1>1, <1>2, <1>4, <2>1, <2>3, ReplayExtends DEF Answered
  <2>4. CASE f.op = "RESUME" /\ ~Resumable(f) /\ Push(<<Invalid>>) /\ UNCHANGED gateway
    <3>1. attached' = attached /\ live' = live /\ UNCHANGED <<sent, covered>>
      BY <1>1, <2>4 DEF gateway
    <3>2. live' \subseteq live
      BY <3>1
    <3>3. Noted
      BY <2>4, <3>1, <3>2, InvalidNoted
    <3> QED BY <1>1, <1>2, <1>4, <2>1, <2>4, <3>3 DEF Answered
  <2> QED BY <1>4, <2>2, <2>3, <2>4 DEF ServerReceive
<1> QED BY <1>3, <1>4

-----------------------------------------------------------------------------
(* What a step does to the frames for the client                           *)

\* What makes the gateway send dispatches of s after a.
Starts(s) ==
  /\ NewSession(s) /\ attached = NoId
  /\ toServer /= <<>> /\ toServer[1].op = "IDENTIFY" /\ toServer' = Tail(toServer)

Replays(s, a) ==
  /\ attached = NoId /\ s \in live /\ sent' = sent
  /\ ResumeAt(1) /\ toServer[1].sid = s /\ toServer[1].seq = a /\ toServer' = Tail(toServer)

Grows(s, a) ==
  /\ Extends(s, a)
  /\ \/ Starts(s) /\ a = 0
     \/ Replays(s, a)
     \/ attached = s /\ s \in live /\ a = sent[s] /\ UNCHANGED toServer

LEMMA AnswerGrows ==
  ASSUME TypeIInv, ServerReceive
  PROVE  \/ Cut /\ (conn' = "closed" \/ Die)
         \/ Noted
         \/ \E s \in Sessions, a \in 0..MaxSeq : Grows(s, a)
<1> DEFINE f == Head(toServer)
<1>1. toServer \in Seq(FrameToServer) /\ toServer /= <<>> /\ f \in FrameToServer /\ f = toServer[1]
      /\ 1 \in DOMAIN toServer
  BY Answers DEF TypeIInv, TypeOK
<1> HIDE DEF f
<1>2. (Cut /\ conn' = "closed") \/ Answered(f)
  BY Answers DEF f, Disconnect
<1>3. ASSUME Answered(f), f.op = "IDENTIFY", NEW s \in Sessions, NewSession(s), Extends(s, 0)
      PROVE  Grows(s, 0)
  BY <1>1, <1>3 DEF Grows, Starts, Answered
<1>4. ASSUME Answered(f), f.op = "RESUME", Resumable(f), Extends(f.sid, f.seq), UNCHANGED <<sent, live>>
      PROVE  f.sid \in Sessions /\ f.seq \in 0..MaxSeq /\ Grows(f.sid, f.seq)
  <2>1. f.sid \in live /\ f.sid \in Sessions /\ f.seq \in 0..MaxSeq
    BY <1>1, <1>4 DEF Resumable, TypeIInv, TypeOK, FrameToServer, SeqNumber
  <2>2. Replays(f.sid, f.seq)
    BY <1>1, <1>4, <2>1 DEF Replays, Answered, ResumeAt
  <2> QED BY <1>4, <2>1, <2>2 DEF Grows
<1>5. 0 \in 0..MaxSeq
  BY SessionAssumption
<1> QED BY <1>2, <1>3, <1>4, <1>5 DEF Answered

LEMMA EventGrows ==
  ASSUME TypeIInv, NEW s \in Sessions, ServerEvent(s)
  PROVE  Noted \/ \E a \in 0..MaxSeq : Grows(s, a)
<1>1. CASE attached = s
  <2>1. sent[s] \in 0..MaxSeq /\ s \in live /\ UNCHANGED toServer
    BY DEF TypeIInv, TypeOK, ServerEvent
  <2>2. Extends(s, sent[s])
    BY <1>1, EventExtends
  <2>3. Grows(s, sent[s])
    BY <1>1, <2>1, <2>2 DEF Grows
  <2> QED BY <2>1, <2>3
<1>2. CASE attached /= s
  BY <1>2, EventExtends
<1> QED BY <1>1, <1>2

\* What a step can do to the frames for the client.
LEMMA FrameSteps ==
  ASSUME TypeIInv, [Next]_vars
  PROVE  \/ Cut /\ (conn' = "closed" \/ Die)
         \/ Noted
         \/ \E s \in Sessions, a \in 0..MaxSeq : Grows(s, a)
         \/ Receive
<1>0. covered' = covered \/ Receive \/ Die
  BY CoveredSteps
<1>1. ASSUME UNCHANGED <<gateway, toClient>>, ~Receive, ~Die PROVE Noted
  BY <1>0, <1>1, StillNoted DEF gateway
<1>2. CASE Die
  BY <1>2 DEF Die, Drop, Cut
<1>3. CASE Open \/ Start \/ Quit \/ Handle \/ UNCHANGED vars
  <2>1. UNCHANGED <<gateway, toClient>>
    BY <1>3 DEF Open, Start, Quit, Handle, connection, vars
  <2> QED BY <1>1, <1>2, <2>1
<1>4. CASE (Lose \/ Stop) /\ ~Receive
  BY <1>0, <1>4 DEF Cut, Lose, Stop, Disconnect, Drop
<1>5. CASE Server
  BY <1>5, AnswerGrows, EventGrows, ForgetNoted DEF Server
<1>6. CASE (Identify \/ Resume \/ SendResume) /\ ~Die
  <2>1. UNCHANGED <<gateway, toClient>>
    BY <1>6 DEF Identify, Resume, SendResume, Crash, connection
  <2> QED BY <1>1, <1>6, <2>1
<1>7. CASE \E t \in Threads : EndAssign(t) \/ Save(t)
  <2>1. UNCHANGED <<gateway, toClient>>
    BY <1>7 DEF EndAssign, Save, ReadSid, ReadSeq, OpenFile, WriteFile, connection
  <2> QED BY <1>1, <1>2, <2>1
<1> QED BY <1>2, <1>3, <1>4, <1>5, <1>6, <1>7 DEF Next, Command, Exit

\* The frame f is taken.
Takes(f) ==
  /\ toClient /= <<>> /\ toClient' \in Seq(FrameToClient) /\ Len(toClient') = Len(toClient) - 1
  /\ \A i \in 1..Len(toClient') : i + 1 \in 1..Len(toClient) /\ toClient'[i] = toClient[i + 1]
  /\ 1 \in 1..Len(toClient) /\ f = toClient[1] /\ f \in FrameToClient /\ f.seq \in 0..MaxSeq
  /\ f.seq > 0 => f.sid \in Sessions

LEMMA Taken ==
  ASSUME TypeIInv, Receive
  PROVE  /\ Takes(Head(toClient))
         /\ UNCHANGED <<gateway, conn, toServer, running, file, settled, disturbed, identified>>
         /\ \A s \in Sessions : covered[s] = settled[s]
         /\ \A s \in Sessions, n \in Nat :
              n \in covered'[s] <=> n \in covered[s] \/ (n > 0 /\ s = Head(toClient).sid /\ n = Head(toClient).seq)
<1> DEFINE f == Head(toClient)
<1>1. UNCHANGED <<gateway, conn, toServer, running, file, settled, disturbed, identified>>
  BY DEF Receive
<1>2. toClient \in Seq(FrameToClient) /\ toClient /= <<>> /\ toClient' = Tail(toClient)
  BY DEF Receive, TypeIInv, TypeOK
<1>3. /\ f \in FrameToClient /\ toClient' \in Seq(FrameToClient) /\ Len(toClient') = Len(toClient) - 1
      /\ \A i \in 1..Len(toClient') : toClient'[i] = toClient[i + 1]
      /\ Len(toClient) \in Nat /\ Len(toClient) >= 1 /\ f = toClient[1]
  BY <1>2, HeadTailProperties
<1>4. f.seq > 0 => f.sid \in Sessions
  BY <1>2, <1>3 DEF TypeIInv, Numbered
<1>5. f.seq \in 0..MaxSeq
  BY <1>3 DEF FrameToClient, SeqNumber
<1> HIDE DEF f
<1>6. Takes(f)
  BY <1>2, <1>3, <1>4, <1>5 DEF Takes
<1>7. \A s : InHand(s) = {}
  BY HandEmpty DEF Receive
<1>8. \A s \in Sessions : covered[s] = settled[s]
  BY <1>7 DEF covered
<1>9. \A s : \A n \in Nat : n \in InHand(s)' <=> n > 0 /\ s = f.sid /\ n = f.seq
  <2>1. CASE f.seq > 0
    <3>1. hand' = f
      BY <2>1 DEF Receive, f
    <3> QED BY <1>5, <3>1, SessionAssumption DEF InHand
  <2>2. CASE ~(f.seq > 0)
    <3>1. hand' = hand
      BY <2>2 DEF Receive, f
    <3>2. \A s : InHand(s)' = {}
      BY <1>7, <3>1 DEF InHand
    <3> QED BY <1>5, <2>2, <3>2
  <2> QED BY <2>1, <2>2
<1>10. \A s \in Sessions, n \in Nat :
        n \in covered'[s] <=> n \in covered[s] \/ (n > 0 /\ s = f.sid /\ n = f.seq)
  <2>1. \A s \in Sessions : covered'[s] = settled[s] \cup InHand(s)'
    BY <1>1 DEF covered
  <2> QED BY <1>8, <1>9, <2>1
<1> QED BY <1>1, <1>6, <1>8, <1>10 DEF f

\* An old frame, or a new one.
LEMMA LongerCases ==
  ASSUME TypeIInv, Longer
  PROVE  /\ Len(toClient) \in Nat /\ Len(toClient') \in Nat /\ Len(toClient') >= Len(toClient)
         /\ DOMAIN toClient = 1..Len(toClient) /\ DOMAIN toClient' = 1..Len(toClient')
         /\ \A i \in DOMAIN toClient : i \in DOMAIN toClient' /\ toClient'[i] = toClient[i]
         /\ \A i \in DOMAIN toClient' : i \in DOMAIN toClient \/ i \in Len(toClient) + 1..Len(toClient')
<1>1. toClient \in Seq(FrameToClient) /\ toClient' \in Seq(FrameToClient)
  BY DEF TypeIInv, TypeOK, Longer
<1>2. /\ Len(toClient) \in Nat /\ Len(toClient') \in Nat
      /\ DOMAIN toClient = 1..Len(toClient) /\ DOMAIN toClient' = 1..Len(toClient')
  BY <1>1, LenProperties
<1> QED BY <1>2 DEF Longer

\* What is new when the gateway sends dispatches of s after a.
LEMMA NewFrames ==
  ASSUME TypeIInv, NEW s \in Sessions, NEW a \in 0..MaxSeq, Extends(s, a),
         NEW i \in Len(toClient) + 1..Len(toClient')
  PROVE  /\ i - Len(toClient) \in Nat /\ i - Len(toClient) > 0 /\ sent'[s] \in Nat
         /\ IF i - Len(toClient) <= sent'[s] - a
            THEN /\ toClient'[i].sid = s /\ toClient'[i].seq = a + (i - Len(toClient))
                 /\ toClient'[i].seq > 0 /\ toClient'[i].seq <= sent'[s]
                 /\ toClient'[i].kind = IF toClient'[i].seq = 1 THEN "READY" ELSE "EVENT"
            ELSE toClient'[i].seq = 0 /\ toClient'[i].sid = s /\ toClient'[i].kind = "RESUMED"
<1>1. Len(toClient) \in Nat /\ Len(toClient') \in Nat /\ sent'[s] \in Nat
  BY LongerCases DEF Extends
<1>2. PICK k \in Nat : k = i - Len(toClient) /\ k > 0
  BY <1>1
<1>3. IF k <= sent'[s] - a
      THEN toClient'[i] = Dispatch(s, a + k)
      ELSE toClient'[i] = [kind |-> "RESUMED", sid |-> s, seq |-> 0]
  BY <1>2 DEF Extends
<1>4. /\ Dispatch(s, a + k).sid = s /\ Dispatch(s, a + k).seq = a + k
      /\ Dispatch(s, a + k).kind = IF a + k = 1 THEN "READY" ELSE "EVENT"
  BY DEF Dispatch
<1>5. CASE k <= sent'[s] - a
  <2>1. toClient'[i] = Dispatch(s, a + k) /\ a + k > 0 /\ a + k <= sent'[s] /\ a + k \in Nat
    BY <1>1, <1>2, <1>3, <1>5, SessionAssumption
  <2> QED BY <1>1, <1>2, <1>4, <1>5, <2>1
<1>6. CASE ~(k <= sent'[s] - a)
  BY <1>1, <1>2, <1>3, <1>6
<1> QED BY <1>5, <1>6

LEMMA NoNewEvents ==
  ASSUME TypeIInv, Noted, NEW i \in Len(toClient) + 1..Len(toClient')
  PROVE  toClient'[i].seq = 0 /\ toClient'[i].sid = NoId /\ toClient'[i].kind = "INVALID"
BY DEF Noted, Invalid

LEMMA KindsKept == TypeIInv /\ Kinds /\ [Next]_vars => Kinds'
<1> SUFFICES ASSUME TypeIInv, Kinds, [Next]_vars, NEW i \in DOMAIN toClient'
             PROVE  /\ toClient'[i].kind = "READY" <=> toClient'[i].seq = 1
                    /\ toClient'[i].kind = "EVENT" <=> toClient'[i].seq > 1
  BY DEF Kinds
<1>1. CASE Cut
  BY <1>1 DEF Cut
<1>2. CASE Noted
  <2>1. CASE i \in DOMAIN toClient
    BY <1>2, <2>1, LongerCases DEF Noted, Kinds
  <2>2. CASE i \in Len(toClient) + 1..Len(toClient')
    BY <1>2, <2>2, NoNewEvents
  <2> QED BY <1>2, <2>1, <2>2, LongerCases DEF Noted
<1>3. ASSUME NEW s \in Sessions, NEW a \in 0..MaxSeq, Extends(s, a)
      PROVE  /\ toClient'[i].kind = "READY" <=> toClient'[i].seq = 1
             /\ toClient'[i].kind = "EVENT" <=> toClient'[i].seq > 1
  <2>1. CASE i \in DOMAIN toClient
    BY <1>3, <2>1, LongerCases DEF Extends, Kinds
  <2>2. CASE i \in Len(toClient) + 1..Len(toClient')
    <3>1. /\ toClient'[i].seq \in Nat
          /\ \/ toClient'[i].seq > 0 /\ toClient'[i].kind = IF toClient'[i].seq = 1 THEN "READY" ELSE "EVENT"
             \/ toClient'[i].seq = 0 /\ toClient'[i].kind = "RESUMED"
      BY <1>3, <2>2, NewFrames
    <3> QED BY <3>1
  <2> QED BY <1>3, <2>1, <2>2, LongerCases DEF Extends
<1>4. CASE Receive
  <2>1. Takes(Head(toClient))
    BY <1>4, Taken
  <2>2. i + 1 \in DOMAIN toClient /\ toClient'[i] = toClient[i + 1]
    BY <2>1 DEF Takes
  <2> QED BY <2>2 DEF Kinds
<1> QED BY <1>1, <1>2, <1>3, <1>4, FrameSteps DEF Grows

\* A session that is being started is not named anywhere.
LEMMA StartsFresh ==
  ASSUME Created, NEW s \in Sessions, NewSession(s)
  PROVE  ~InUse(s) /\ s \notin live
BY DEF Created, NewSession

LEMMA LiveAttachedKept ==
  TypeIInv /\ Created /\ LiveAttached /\ [Next]_vars => LiveAttached'
<1> SUFFICES ASSUME TypeIInv, Created, LiveAttached, [Next]_vars,
                    NEW i \in DOMAIN toClient', toClient'[i].seq > 0, toClient'[i].sid \in live'
             PROVE  attached' = toClient'[i].sid
  BY DEF LiveAttached, Event
<1>1. CASE Cut
  BY <1>1 DEF Cut
<1>2. CASE Noted
  <2>1. CASE i \in DOMAIN toClient
    <3>1. toClient'[i] = toClient[i] /\ toClient[i].sid \in live /\ toClient[i].seq > 0
      BY <1>2, <2>1, LongerCases DEF Noted
    <3>2. attached = toClient[i].sid
      BY <2>1, <3>1 DEF LiveAttached, Event
    <3> QED BY <1>2, <3>1, <3>2 DEF Noted
  <2>2. CASE i \in Len(toClient) + 1..Len(toClient')
    BY <1>2, <2>2, NoNewEvents
  <2> QED BY <1>2, <2>1, <2>2, LongerCases DEF Noted
<1>3. ASSUME NEW s \in Sessions, NEW a \in 0..MaxSeq, Grows(s, a)
      PROVE  attached' = toClient'[i].sid
  <2>1. Extends(s, a) /\ attached' = s
    BY <1>3 DEF Grows, Extends
  <2>2. CASE i \in DOMAIN toClient
    <3>1. toClient'[i] = toClient[i] /\ toClient[i].sid \in live \cup {s} /\ toClient[i].seq > 0
      BY <2>1, <2>2, LongerCases DEF Extends
    <3>2. toClient[i].sid \in live => attached = toClient[i].sid /\ attached /= NoId
      BY <2>2, <3>1, SessionAssumption DEF LiveAttached, Event, TypeIInv, TypeOK
    <3>3. InUse(toClient[i].sid)
      BY <2>2 DEF InUse
    <3> QED BY <1>3, <2>1, <3>1, <3>2, <3>3, StartsFresh DEF Grows, Starts, Replays
  <2>3. CASE i \in Len(toClient) + 1..Len(toClient')
    BY <2>1, <2>3, NewFrames
  <2> QED BY <2>1, <2>2, <2>3, LongerCases DEF Extends
<1>4. CASE Receive
  <2>1. Takes(Head(toClient)) /\ UNCHANGED gateway
    BY <1>4, Taken
  <2>2. i + 1 \in DOMAIN toClient /\ toClient'[i] = toClient[i + 1]
    BY <2>1 DEF Takes
  <2> QED BY <2>1, <2>2 DEF LiveAttached, Event, gateway
<1> QED BY <1>1, <1>2, <1>3, <1>4, FrameSteps

-----------------------------------------------------------------------------
(* The numbers of a session have no gap, covered and on their way          *)

\* What is covered stays covered while the process lives.
LEMMA CoveredStays ==
  ASSUME TypeIInv, [Next]_vars, ~Die, NEW s \in Sessions, NEW n, Covered(s, n)
  PROVE  Covered(s, n)'
<1>1. CASE covered' = covered
  BY <1>1 DEF Covered
<1>2. CASE Receive
  <2>1. n \in Nat
    BY CoveredIs DEF Covered
  <2> QED BY <1>2, <2>1, Taken DEF Covered
<1> QED BY <1>1, <1>2, CoveredSteps

\* The gateway never takes back a number.
LEMMA SentGrows ==
  ASSUME TypeIInv, [Next]_vars, NEW s \in Sessions
  PROVE  sent[s] \in Nat /\ sent'[s] \in Nat /\ sent'[s] >= sent[s]
<1>1. sent[s] \in Nat
  BY SessionAssumption DEF TypeIInv, TypeOK
<1>2. CASE sent' = sent
  BY <1>1, <1>2
<1>3. CASE Noted
  BY <1>1, <1>3 DEF Noted
<1>4. ASSUME NEW x \in Sessions, NEW a \in 0..MaxSeq, Extends(x, a)
      PROVE  sent'[s] \in Nat /\ sent'[s] >= sent[s]
  <2>1. CASE x = s
    BY <1>4, <2>1 DEF Extends
  <2>2. CASE x /= s
    <3>1. sent'[s] = sent[s]
      BY <1>4, <2>2 DEF Extends
    <3> QED BY <1>1, <3>1
  <2> QED BY <2>1, <2>2
<1> QED BY <1>1, <1>2, <1>3, <1>4, FrameSteps, Taken DEF Cut, Grows, gateway

\* s is covered up to n, or what is missing is on its way.
Coming(s, n) ==
  Covered(s, n) \/ \E j \in DOMAIN toClient : toClient[j].sid = s /\ toClient[j].seq = n

\* Dying keeps of what is in hand what quit has saved.
LEMMA DieCovers ==
  ASSUME TypeIInv, Die, NEW s \in Sessions
  PROVE  covered'[s] = settled[s] \cup Lost(s) /\ settled'[s] = settled[s] \cup Lost(s)
<1>1. settled'[s] = settled[s] \cup Lost(s)
  BY DEF Die
<1>2. hand'.seq = 0
  BY DEF Die, NoFrame
<1>3. InHand(s)' = {}
  BY <1>2, SessionAssumption DEF InHand
<1> QED BY <1>1, <1>3 DEF covered

LEMMA LostGapless ==
  ASSUME TypeIInv, Gapless, NEW s \in Sessions, NEW n \in settled[s] \cup Lost(s)
  PROVE  n <= sent[s] /\ 1..n \subseteq settled[s] \cup Lost(s)
<1>1. CASE n \in settled[s]
  BY <1>1, CoveredIs DEF Gapless
<1>2. CASE n \in Lost(s)
  <2>1. n \in InHand(s) /\ n = hand.seq
    BY <1>2 DEF Lost, InHand
  <2>2. n <= sent[s] /\ 1..n \subseteq settled[s] \cup InHand(s)
    BY <2>1, CoveredIs DEF Gapless
  <2>3. \A m \in InHand(s) : m = n
    BY <2>1 DEF InHand
  <2> QED BY <1>2, <2>2, <2>3
<1> QED BY <1>1, <1>2

LEMMA GaplessKept ==
  TypeIInv /\ Gapless /\ InOrder /\ [Next]_vars => Gapless'
<1> SUFFICES ASSUME TypeIInv, Gapless, InOrder, [Next]_vars PROVE Gapless'
  OBVIOUS
<1>a. CASE Die
  <2>1. UNCHANGED sent
    BY <1>a DEF Die
  <2> QED BY <1>a, <2>1, DieCovers, LostGapless DEF Gapless
<1> SUFFICES ASSUME ~Die PROVE Gapless'
  BY <1>a
<1>b. ASSUME NEW s \in Sessions, NEW n \in settled'[s] PROVE 1..n \subseteq settled'[s]
  <2>1. CASE settled' = settled
    BY <1>b, <2>1 DEF Gapless
  <2>2. CASE pc[Io] /= "idle" /\ HandlerReturns
    <3>1. settled'[s] = covered[s]
      BY <2>2, ReturnSettles, CoveredIs
    <3> QED BY <1>b, <3>1 DEF Gapless
  <2> QED BY <2>1, <2>2, HandSteps, Taken
<1> SUFFICES ASSUME NEW s \in Sessions, NEW n \in covered'[s]
             PROVE  n <= sent'[s] /\ 1..n \subseteq covered'[s]
  BY <1>b DEF Gapless
<1>1. sent[s] \in Nat /\ sent'[s] \in Nat /\ sent'[s] >= sent[s]
  BY SentGrows
<1>2. CASE covered' = covered
  <2>1. n \in covered[s] /\ n \in Nat
    BY <1>2, CoveredIs
  <2> QED BY <1>1, <1>2, <2>1 DEF Gapless
<1>3. CASE Receive
  <2> DEFINE f == Head(toClient)
  <2>1. Takes(f)
    BY <1>3, Taken
  <2>2. n \in Nat /\ \A m \in Nat : m \in covered[s] => m \in covered'[s]
    <3>1. n \in Nat
      BY TypeKept, CoveredPrimed
    <3> QED BY <1>3, <3>1, Taken
  <2>3. n \in covered[s] \/ (n > 0 /\ s = f.sid /\ n = f.seq)
    BY <1>3, <2>2, Taken
  <2>4. UNCHANGED sent
    BY <1>3, Taken DEF gateway
  <2>5. CASE n \in covered[s]
    <3>1. n <= sent[s] /\ 1..n \subseteq covered[s]
      BY <2>5 DEF Gapless
    <3> QED BY <2>2, <2>4, <3>1
  <2>6. CASE n > 0 /\ s = f.sid /\ n = f.seq
    <3>1. 1 \in DOMAIN toClient /\ Event(1) /\ toClient[1] = f /\ ~ \E j \in 1..1 - 1 : TRUE
      BY <2>1, <2>6 DEF Takes, Event, TypeIInv, TypeOK
    <3> HIDE DEF f
    <3>2. n <= sent[s] /\ Covered(s, n - 1)
      BY <2>6, <3>1 DEF InOrder
    <3>3. n - 1 \in Nat /\ n - 1 > 0 => 1..n - 1 \subseteq covered[s]
      BY <2>2, <2>6, <3>2 DEF Gapless, Covered
    <3>4. n \in covered'[s]
      OBVIOUS
    <3> QED BY <2>2, <2>4, <2>6, <3>2, <3>3, <3>4
  <2> QED BY <2>3, <2>5, <2>6
<1> QED BY <1>2, <1>3, CoveredSteps

\* Dispatches are only added after one that is coming.
LEMMA GrowsAfter ==
  ASSUME TypeIInv, InOrder, SavedCovered, NEW s \in Sessions, NEW a \in 0..MaxSeq, Grows(s, a)
  PROVE  Coming(s, a)
<1>1. CASE Starts(s) /\ a = 0
  BY <1>1 DEF Coming, Covered
<1>2. CASE Replays(s, a)
  BY <1>2 DEF Replays, SavedCovered, Coming, ResumeAt
<1>3. CASE attached = s /\ a = sent[s]
  <2>1. attached /= NoId
    BY <1>3, SessionAssumption
  <2> QED BY <1>3, <2>1 DEF InOrder, Coming
<1> QED BY <1>1, <1>2, <1>3 DEF Grows

LEMMA ComingFirst ==
  ASSUME TypeIInv, NEW s \in Sessions, NEW n \in Nat, Receive,
         toClient[1].sid = s, toClient[1].seq = n
  PROVE  Covered(s, n)'
<1>1. toClient[1] = Head(toClient)
  BY Taken DEF Takes
<1> QED BY <1>1, Taken DEF Covered

LEMMA InOrderKept ==
  TypeIInv /\ InOrder /\ SavedCovered /\ [Next]_vars => InOrder'
<1> SUFFICES ASSUME TypeIInv, InOrder, SavedCovered, [Next]_vars PROVE InOrder'
  OBVIOUS
<1>6. CASE Cut
  <2>1. DOMAIN toClient' = {} /\ attached' = NoId
    BY <1>6 DEF Cut
  <2> QED BY <2>1 DEF InOrder
<1> SUFFICES ASSUME ~Die PROVE InOrder'
  BY <1>6 DEF Die, Drop, Cut
<1>0. toClient \in Seq(FrameToClient) /\ DOMAIN toClient = 1..Len(toClient) /\ Len(toClient) \in Nat
  BY DEF TypeIInv, TypeOK
<1> DEFINE Prev(i) == \/ Covered(toClient[i].sid, toClient[i].seq - 1)
                      \/ \E j \in 1..i - 1 : /\ toClient[j].sid = toClient[i].sid
                                             /\ toClient[j].seq = toClient[i].seq - 1
           Rest == attached /= NoId => Coming(attached, sent[attached])
<1>1. \A i \in DOMAIN toClient : Event(i) => toClient[i].seq <= sent[toClient[i].sid] /\ Prev(i)
  BY DEF InOrder
<1>2. Rest
  BY DEF InOrder, Coming
<1>3. ASSUME NEW i \in DOMAIN toClient, toClient[i].seq > 0
      PROVE  /\ toClient[i].sid \in Sessions /\ toClient[i].seq \in Nat
             /\ toClient[i].seq <= sent[toClient[i].sid] /\ Prev(i)
  <2>1. toClient[i] \in FrameToClient /\ toClient[i].sid \in Sessions
    BY <1>0, <1>3 DEF TypeIInv, Numbered
  <2>2. toClient[i].seq \in Nat
    BY <2>1, SessionAssumption DEF FrameToClient, SeqNumber
  <2>3. Event(i)
    BY <1>3 DEF Event
  <2> QED BY <1>1, <2>1, <2>2, <2>3
<1>4. ASSUME Longer, NEW i \in DOMAIN toClient, toClient[i].seq > 0
      PROVE  /\ toClient'[i].seq <= sent'[toClient'[i].sid] /\ Prev(i)'
  <2>1. toClient'[i] = toClient[i] /\ i \in Nat /\ \A j \in 1..i - 1 : toClient'[j] = toClient[j]
    BY <1>0, <1>4, LongerCases
  <2>2. toClient'[i].seq <= sent'[toClient'[i].sid]
    BY <1>3, <1>4, <2>1, SentGrows
  <2>3. CASE Covered(toClient[i].sid, toClient[i].seq - 1)
    <3>1. PICK x \in Sessions, n \in Int : x = toClient[i].sid /\ n = toClient[i].seq - 1
      BY <1>3, <1>4
    <3>2. Covered(x, n)'
      BY <2>3, <3>1, CoveredStays
    <3> QED BY <2>1, <2>2, <3>1, <3>2 DEF Covered
  <2>4. ASSUME NEW j \in 1..i - 1, toClient[j].sid = toClient[i].sid, toClient[j].seq = toClient[i].seq - 1
        PROVE  Prev(i)'
    BY <2>1, <2>4
  <2> QED BY <1>3, <1>4, <2>2, <2>3, <2>4
<1>5. ASSUME Longer, NEW s \in Sessions, NEW n, Coming(s, n)
      PROVE  Coming(s, n)'
  <2>1. CASE Covered(s, n)
    BY <2>1, CoveredStays DEF Coming
  <2>2. ASSUME NEW j \in DOMAIN toClient, toClient[j].sid = s, toClient[j].seq = n
        PROVE  Coming(s, n)'
    BY <1>5, <2>2, LongerCases DEF Coming
  <2> QED BY <1>5, <2>1, <2>2 DEF Coming
<1>7. CASE Noted
  <2>1. ASSUME NEW i \in DOMAIN toClient', toClient'[i].seq > 0
        PROVE  /\ toClient'[i].seq <= sent'[toClient'[i].sid] /\ Prev(i)'
    <3>1. i \in DOMAIN toClient /\ toClient'[i] = toClient[i]
      BY <1>7, <2>1, LongerCases, NoNewEvents DEF Noted
    <3> QED BY <1>4, <1>7, <2>1, <3>1 DEF Noted
  <2>2. ASSUME attached' /= NoId PROVE Coming(attached, sent[attached])'
    <3>1. attached' = attached /\ sent'[attached] = sent[attached] /\ attached \in Sessions
          /\ sent[attached] \in Nat
      BY <1>7, <2>2, SessionAssumption DEF Noted, TypeIInv, TypeOK
    <3>2. PICK x \in Sessions, n \in Nat : x = attached /\ n = sent[attached]
      BY <3>1
    <3>3. Coming(x, n)'
      BY <1>2, <1>5, <1>7, <2>2, <3>1, <3>2 DEF Noted
    <3> QED BY <3>1, <3>2, <3>3 DEF Coming, Covered
  <2> QED BY <2>1, <2>2 DEF InOrder, Event, Coming
<1>8. ASSUME NEW s \in Sessions, NEW a \in 0..MaxSeq, Grows(s, a) PROVE InOrder'
  <2>0. Extends(s, a) /\ Longer
    BY <1>8 DEF Grows, Extends
  <2>1. Coming(s, a)
    BY <1>8, GrowsAfter
  <2>2. ASSUME NEW i \in DOMAIN toClient', toClient'[i].seq > 0
        PROVE  /\ toClient'[i].seq <= sent'[toClient'[i].sid] /\ Prev(i)'
    <3>1. CASE i \in DOMAIN toClient
      BY <1>4, <2>0, <2>2, <3>1, LongerCases
    <3>2. CASE i \in Len(toClient) + 1..Len(toClient')
      <4>1. /\ i - Len(toClient) \in Nat /\ i - Len(toClient) > 0 /\ sent'[s] \in Nat
            /\ i - Len(toClient) <= sent'[s] - a
            /\ toClient'[i].sid = s /\ toClient'[i].seq = a + (i - Len(toClient))
            /\ toClient'[i].seq <= sent'[s]
        BY <2>0, <2>2, <3>2, NewFrames
      <4>2. CASE i = Len(toClient) + 1
        <5>1. toClient'[i].seq - 1 = a
          BY <1>0, <4>1, <4>2, SessionAssumption
        <5>2. CASE Covered(s, a)
          <6>1. Covered(s, a)'
            BY <5>2, CoveredStays
          <6> QED BY <4>1, <5>1, <6>1 DEF Covered
        <5>3. ASSUME NEW j \in DOMAIN toClient, toClient[j].sid = s, toClient[j].seq = a
              PROVE  Prev(i)'
          <6>1. j \in 1..i - 1 /\ toClient'[j] = toClient[j]
            BY <1>0, <2>0, <4>2, LongerCases
          <6> QED BY <4>1, <5>1, <5>3, <6>1
        <5> QED BY <2>1, <4>1, <5>2, <5>3 DEF Coming
      <4>3. CASE i /= Len(toClient) + 1
        <5>0. i - 1 \in Len(toClient) + 1..Len(toClient')
          BY <1>0, <3>2, <4>3
        <5>1. PICK j \in Len(toClient) + 1..Len(toClient') : j = i - 1
          BY <5>0
        <5>2. j - Len(toClient) = (i - Len(toClient)) - 1 /\ j - Len(toClient) <= sent'[s] - a /\ j \in 1..i - 1
          BY <1>0, <4>1, <5>1, SessionAssumption
        <5>3. toClient'[j].sid = s /\ toClient'[j].seq = a + (j - Len(toClient))
          BY <2>0, <5>1, <5>2, NewFrames
        <5>4. toClient'[j].seq = toClient'[i].seq - 1
          BY <4>1, <5>2, <5>3, SessionAssumption
        <5> QED BY <4>1, <5>2, <5>3, <5>4
      <4> QED BY <4>2, <4>1, <4>3
    <3> QED BY <2>0, <2>2, <3>1, <3>2, LongerCases
  <2>3. attached' = s /\ \E m \in Nat : m = sent'[s] /\ Coming(s, m)'
    <3>1. attached' = s /\ sent'[s] \in Nat /\ sent'[s] >= a /\ Len(toClient') >= Len(toClient) + (sent'[s] - a)
      BY <2>0 DEF Extends
    <3>2. CASE sent'[s] = a
      <4>1. Coming(s, a)'
        BY <1>5, <2>0, <2>1
      <4> QED BY <3>1, <3>2, <4>1
    <3>3. CASE sent'[s] /= a
      <4>0. PICK n \in Nat : n = sent'[s]
        BY <3>1
      <4>1. PICK j \in Len(toClient) + 1..Len(toClient') : j = Len(toClient) + (sent'[s] - a)
        BY <1>0, <2>0, <3>1, <3>3, LongerCases, SessionAssumption
      <4>2. j - Len(toClient) = sent'[s] - a /\ j \in DOMAIN toClient' /\ a + (sent'[s] - a) = sent'[s]
        <5>1. a \in Nat /\ j \in Nat /\ j >= 1 /\ j <= Len(toClient')
          BY <1>0, <2>0, <4>1, LongerCases, SessionAssumption
        <5>2. j \in DOMAIN toClient'
          BY <2>0, <5>1, LongerCases
        <5> QED BY <1>0, <3>1, <4>1, <5>1, <5>2
      <4>3. toClient'[j].sid = s /\ toClient'[j].seq = sent'[s]
        BY <2>0, <3>1, <4>1, <4>2, NewFrames
      <4>4. Coming(s, n)'
        BY <4>0, <4>2, <4>3 DEF Coming
      <4> QED BY <3>1, <4>0, <4>4
    <3> QED BY <3>2, <3>3
  <2>4. Rest'
    BY <2>3 DEF Coming, Covered
  <2> QED BY <2>2, <2>4 DEF InOrder, Event, Coming
<1>9. CASE Receive
  <2>1. Takes(Head(toClient)) /\ UNCHANGED gateway
    BY <1>9, Taken
  <2>2. ASSUME NEW i \in DOMAIN toClient', toClient'[i].seq > 0
        PROVE  /\ toClient'[i].seq <= sent'[toClient'[i].sid] /\ Prev(i)'
    <3>1. i \in 1..Len(toClient') /\ i + 1 \in DOMAIN toClient /\ toClient'[i] = toClient[i + 1]
      BY <2>1 DEF Takes
    <3>2. PICK k \in DOMAIN toClient : k = i + 1
      BY <3>1
    <3>3. /\ toClient[k].sid \in Sessions /\ toClient[k].seq \in Nat
          /\ toClient[k].seq <= sent[toClient[k].sid] /\ Prev(k)
      BY <1>3, <2>2, <3>1, <3>2
    <3>0. PICK x \in Sessions, n \in Int : x = toClient[k].sid /\ n = toClient[k].seq - 1
      BY <3>3
    <3>4. CASE Covered(x, n)
      <4>1. Covered(x, n)'
        BY <3>4, CoveredStays
      <4> QED BY <2>1, <3>0, <3>3, <3>1, <3>2, <4>1 DEF Covered, gateway
    <3>5. ASSUME NEW j \in 1..k - 1, toClient[j].sid = toClient[k].sid, toClient[j].seq = toClient[k].seq - 1
          PROVE  Prev(i)'
      <4>1. CASE j = 1
        <5>0. n \in Nat
          BY <2>2, <3>0, <3>1, <3>2, <3>3
        <5>1. Covered(x, n)'
          BY <1>9, <3>0, <3>5, <4>1, <5>0, ComingFirst
        <5> QED BY <3>0, <3>1, <3>2, <5>1 DEF Covered
      <4>2. CASE j /= 1
        <5>1. PICK m \in 1..i - 1 : m = j - 1
          BY <3>1, <3>2, <3>5, <4>2, <1>0
        <5>2. m \in 1..Len(toClient') /\ m + 1 = j
          BY <3>1, <5>1, <3>2, <1>0
        <5>3. toClient'[m] = toClient[j]
          BY <2>1, <5>2 DEF Takes
        <5> QED BY <3>1, <3>2, <3>5, <5>1, <5>3
      <4> QED BY <4>1, <4>2
    <3> QED BY <2>1, <3>0, <3>1, <3>2, <3>3, <3>4, <3>5 DEF gateway
  <2>3. ASSUME attached' /= NoId PROVE Coming(attached, sent[attached])'
    <3>1. attached' = attached /\ sent' = sent /\ attached \in Sessions /\ sent[attached] \in Nat
      BY <2>1, <2>3, SessionAssumption DEF gateway, TypeIInv, TypeOK
    <3>0. PICK x \in Sessions, n \in Nat : x = attached /\ n = sent[attached]
      BY <3>1
    <3>2. CASE Covered(attached, sent[attached])
      <4>1. Covered(x, n)'
        BY <3>0, <3>2, CoveredStays
      <4> QED BY <3>0, <3>1, <4>1 DEF Coming, Covered
    <3>3. ASSUME NEW j \in DOMAIN toClient, toClient[j].sid = attached, toClient[j].seq = sent[attached]
          PROVE  Coming(attached, sent[attached])'
      <4>1. CASE j = 1
        <5>1. Covered(x, n)'
          BY <1>9, <3>0, <3>3, <4>1, ComingFirst
        <5> QED BY <3>0, <3>1, <5>1 DEF Coming, Covered
      <4>2. CASE j /= 1
        <5>1. PICK m \in 1..Len(toClient') : m = j - 1 /\ m + 1 = j
          BY <1>0, <2>1, <3>3, <4>2 DEF Takes
        <5>2. toClient'[m] = toClient[j] /\ m \in DOMAIN toClient'
          BY <2>1, <5>1 DEF Takes
        <5> QED BY <3>1, <3>3, <5>2 DEF Coming
      <4> QED BY <4>1, <4>2
    <3> QED BY <1>2, <2>3, <3>1, <3>2, <3>3 DEF Coming
  <2> QED BY <2>2, <2>3 DEF InOrder, Event, Coming
<1> QED BY <1>6, <1>7, <1>8, <1>9, FrameSteps

-----------------------------------------------------------------------------
(* What a step does to the process and to the frames for the gateway       *)

\* What a step does to the thread t, and not to the other.
Moves(t, to) ==
  /\ pc'[t] = to
  /\ \A u \in Threads : u /= t => pc'[u] = pc[u] /\ doc'[u] = doc[u]

ProcessStill == UNCHANGED <<pc, doc, sessionID, sequenceNumber, hand, settled, file, identified, reopened>>

Wire == <<gateway, connection, hand, settled>>

LEMMA Goes ==
  ASSUME TypeIInv, NEW t \in Threads, NEW to, Goto(t, to)
  PROVE  pc'[t] = to /\ \A u \in Threads : u /= t => pc'[u] = pc[u]
BY DEF TypeIInv, TypeOK, Goto

LEMMA EndAssignDoes ==
  ASSUME TypeIInv, NEW t \in Threads, EndAssign(t)
  PROVE  /\ pc[t] = "assign" /\ sessionID' \in {doc[t].sid, Torn}
         /\ t = Io => Moves(t, "readSid") /\ doc'[t] = NoDoc
         /\ t /= Io => Moves(t, "send") /\ doc'[t] = doc[t]
         /\ UNCHANGED <<Wire, sequenceNumber, file, identified, reopened>>
<1>1. doc \in [Threads -> Doc]
  BY DEF TypeIInv, TypeOK
<1>2. CASE t = Io
  BY <1>1, <1>2, Goes DEF EndAssign, Moves, history, Wire
<1>3. CASE t /= Io
  BY <1>1, <1>3, Goes DEF EndAssign, Moves, history, Wire
<1> QED BY <1>2, <1>3

LEMMA ReadSidDoes ==
  ASSUME TypeIInv, NEW t \in Threads, ReadSid(t)
  PROVE  /\ pc[t] = "readSid" /\ Moves(t, "readSeq")
         /\ doc'[t].sid = sessionID /\ doc'[t].seq = doc[t].seq
         /\ UNCHANGED <<Wire, sessionID, sequenceNumber, file, identified, reopened>>
<1>1. doc \in [Threads -> Doc] /\ doc[t] \in Doc
  BY DEF TypeIInv, TypeOK
<1>2. doc' = [doc EXCEPT ![t].sid = sessionID]
  BY DEF ReadSid
<1>3. doc'[t].sid = sessionID /\ doc'[t].seq = doc[t].seq /\ \A u \in Threads : u /= t => doc'[u] = doc[u]
  BY <1>1, <1>2 DEF Doc
<1> QED BY <1>3, Goes DEF ReadSid, Moves, history, Wire

LEMMA ReadSeqDoes ==
  ASSUME TypeIInv, NEW t \in Threads, ReadSeq(t)
  PROVE  /\ pc[t] = "readSeq" /\ Moves(t, "open")
         /\ doc'[t].seq = sequenceNumber /\ doc'[t].sid = doc[t].sid
         /\ UNCHANGED <<Wire, sessionID, sequenceNumber, file, identified, reopened>>
<1>1. doc \in [Threads -> Doc] /\ doc[t] \in Doc
  BY DEF TypeIInv, TypeOK
<1>2. doc' = [doc EXCEPT ![t].seq = sequenceNumber]
  BY DEF ReadSeq
<1>3. doc'[t].seq = sequenceNumber /\ doc'[t].sid = doc[t].sid /\ \A u \in Threads : u /= t => doc'[u] = doc[u]
  BY <1>1, <1>2 DEF Doc
<1> QED BY <1>3, Goes DEF ReadSeq, Moves, history, Wire

LEMMA OpenFileDoes ==
  ASSUME TypeIInv, NEW t \in Threads, OpenFile(t)
  PROVE  /\ pc[t] = "open" /\ Moves(t, "write") /\ doc' = doc
         /\ file'.doc = file.doc /\ file'.kind = "empty"
         /\ UNCHANGED <<Wire, sessionID, sequenceNumber, identified, reopened>>
<1>1. file'.doc = file.doc /\ file'.kind = "empty"
  BY DEF OpenFile, TypeIInv, TypeOK, File
<1> QED BY <1>1, Goes DEF OpenFile, Moves, Wire

LEMMA WriteFileDoes ==
  ASSUME TypeIInv, NEW t \in Threads, WriteFile(t)
  PROVE  /\ pc[t] = "write" /\ Moves(t, IF t = Io THEN "idle" ELSE "stop") /\ doc'[t] = NoDoc
         /\ file'.doc = doc[t]
         /\ IF t = Io THEN HandlerReturns ELSE UNCHANGED <<hand, settled>>
         /\ UNCHANGED <<gateway, connection, sessionID, sequenceNumber, identified, reopened>>
<1>1. doc \in [Threads -> Doc] /\ doc' = [doc EXCEPT ![t] = NoDoc]
  BY DEF WriteFile, TypeIInv, TypeOK
<1>2. file'.doc = doc[t]
  BY DEF WriteFile
<1> QED BY <1>1, <1>2, Goes DEF WriteFile, Moves

LEMMA DieDoes ==
  ASSUME Die
  PROVE  /\ Cut /\ toServer' = <<>> /\ conn' = "none"
         /\ \A t \in Threads : pc'[t] = "idle" /\ doc'[t] = NoDoc
         /\ sessionID' = NoId /\ sequenceNumber' = 0 /\ file' = file
         /\ hand' = NoFrame /\ live' = live
         /\ identified' = FALSE /\ reopened' = reopened
BY DEF Die, Drop, Cut, Idle, NoDocs

LEMMA ReceiveDoes ==
  ASSUME TypeIInv, Receive
  PROVE  LET f == Head(toClient) IN
         /\ conn = "open" /\ pc[Io] = "idle" /\ Io \in Threads
         /\ sequenceNumber' = Later(sequenceNumber, f)
         /\ sequenceNumber \in Nat /\ sequenceNumber' \in Nat
         /\ sequenceNumber' = IF f.seq > sequenceNumber THEN f.seq ELSE sequenceNumber
         /\ reopened' = (reopened \/ (f.kind = "READY" /\ sequenceNumber > 0))
         /\ UNCHANGED sessionID
         /\ IF f.kind = "READY"
            THEN /\ doc'[Io].sid = f.sid /\ doc'[Io].seq = doc[Io].seq
                 /\ \A u \in Threads : u /= Io => doc'[u] = doc[u]
            ELSE UNCHANGED doc
         /\ IF f.seq > 0
            THEN hand' = f /\ pc'[Io] = "handle"
            ELSE UNCHANGED <<hand, pc>>
         /\ \A u \in Threads : u /= Io => pc'[u] = pc[u]
<1> DEFINE f == Head(toClient)
<1>1. doc \in [Threads -> Doc] /\ Io \in Threads /\ doc[Io] \in Doc
  BY BothThreads DEF TypeIInv, TypeOK
<1>2. sequenceNumber \in Nat /\ Takes(f)
  BY Taken, SessionAssumption DEF TypeIInv, TypeOK, SeqNumber
<1>3. f.seq \in Nat
  BY <1>2, SessionAssumption DEF Takes
<1>4. sequenceNumber' = Later(sequenceNumber, f)
  BY DEF Receive
<1>5. /\ sequenceNumber' \in Nat
      /\ sequenceNumber' = IF f.seq > sequenceNumber THEN f.seq ELSE sequenceNumber
  <2> HIDE DEF f
  <2> QED BY <1>2, <1>3, <1>4 DEF Later
<1>6. IF f.kind = "READY"
      THEN /\ doc'[Io].sid = f.sid /\ doc'[Io].seq = doc[Io].seq
           /\ \A u \in Threads : u /= Io => doc'[u] = doc[u]
      ELSE UNCHANGED doc
  <2>1. doc' = IF f.kind = "READY" THEN [doc EXCEPT ![Io].sid = f.sid] ELSE doc
    BY DEF Receive
  <2> HIDE DEF f
  <2> QED BY <1>1, <2>1 DEF Doc
<1>7. /\ IF f.seq > 0 THEN hand' = f /\ pc'[Io] = "handle" ELSE UNCHANGED <<hand, pc>>
      /\ \A u \in Threads : u /= Io => pc'[u] = pc[u]
  <2>1. IF f.seq > 0 THEN hand' = f /\ Goto(Io, "handle") ELSE UNCHANGED <<hand, pc>>
    BY DEF Receive
  <2> HIDE DEF f
  <2> QED BY <1>1, <2>1, Goes
<1>8. /\ conn = "open" /\ pc[Io] = "idle" /\ UNCHANGED sessionID
      /\ reopened' = (reopened \/ (f.kind = "READY" /\ sequenceNumber > 0))
  BY DEF Receive
<1> QED BY <1>1, <1>2, <1>4, <1>5, <1>6, <1>7, <1>8

LEMMA HandleDoes ==
  ASSUME TypeIInv, Handle
  PROVE  /\ pc[Io] = "handle" /\ Io \in Threads /\ doc' = doc
         /\ UNCHANGED <<gateway, connection, sequenceNumber, file, identified, reopened>>
         /\ \/ hand.kind = "READY" /\ Moves(Io, "assign") /\ sessionID' = Torn /\ UNCHANGED <<hand, settled>>
            \/ hand.kind = "EVENT" /\ Moves(Io, "readSid") /\ UNCHANGED <<sessionID, hand, settled>>
            \/ hand.kind = "EVENT" /\ Moves(Io, "idle") /\ UNCHANGED sessionID /\ HandlerReturns
<1>1. Io \in Threads /\ doc' = doc
  BY BothThreads DEF Handle
<1>2. \A label : Goto(Io, label) => Moves(Io, label)
  BY <1>1, Goes DEF Moves
<1> QED BY <1>1, <1>2 DEF Handle

\* A frame is written if the connection is open.
Sends(f) ==
  IF conn = "open"
  THEN /\ Len(toServer') = Len(toServer) + 1 /\ toServer'[Len(toServer) + 1] = f
       /\ \A i \in DOMAIN toServer : toServer'[i] = toServer[i]
  ELSE toServer' = toServer

LEMMA SendsOne ==
  ASSUME TypeIInv, NEW f, Transmit(f), f \in FrameToServer
  PROVE  Sends(f)
BY DEF TypeIInv, TypeOK, Transmit, Sends

Opening == [op |-> "IDENTIFY", sid |-> NoId, seq |-> 0]

LEMMA IdentifyDoes ==
  ASSUME TypeIInv, Identify, ~Die
  PROVE  /\ Sends(Opening) /\ identified' = TRUE /\ pc[Console] = "idle"
         /\ UNCHANGED <<gateway, conn, toClient, pc, doc, sessionID, sequenceNumber, hand, settled, file, reopened>>
<1>1. Opening \in FrameToServer
  BY Empty DEF FrameToServer, Opening
<1> QED BY <1>1, SendsOne DEF Identify, Crash, CanType, Opening

LEMMA ResumeDoes ==
  ASSUME TypeIInv, Resume, ~Die
  PROVE  /\ Console \in Threads /\ pc[Console] = "idle" /\ Moves(Console, "assign")
         /\ file.kind = "json"
         /\ doc'[Console] = file.doc /\ sessionID' = Torn
         /\ reopened' = (reopened \/ identified)
         /\ UNCHANGED <<Wire, sequenceNumber, file, identified>>
<1>1. doc \in [Threads -> Doc] /\ Console \in Threads /\ doc' = [doc EXCEPT ![Console] = file.doc]
  BY BothThreads DEF Resume, TypeIInv, TypeOK
<1> QED BY <1>1, Goes DEF Resume, CanType, Moves, Wire

Reopening(d) == [op |-> "RESUME", sid |-> d.sid, seq |-> d.seq]

LEMMA SendResumeDoes ==
  ASSUME TypeIInv, SendResume, ~Die
  PROVE  /\ Console \in Threads /\ pc[Console] = "send" /\ Moves(Console, "idle")
         /\ doc'[Console] = NoDoc
         /\ Sends(Reopening(doc[Console]))
         /\ UNCHANGED <<gateway, conn, toClient, sessionID, sequenceNumber, hand, settled, file, identified, reopened>>
<1>1. doc \in [Threads -> Doc] /\ Console \in Threads /\ doc' = [doc EXCEPT ![Console] = NoDoc]
  BY BothThreads DEF SendResume, Crash, TypeIInv, TypeOK
<1>2. Reopening(doc[Console]) \in FrameToServer
  BY <1>1 DEF FrameToServer, Doc, Reopening
<1>3. Sends(Reopening(doc[Console]))
  BY <1>2, SendsOne DEF SendResume, Crash, Reopening
<1> QED BY <1>1, <1>3, Goes DEF SendResume, Crash, Moves, history

LEMMA QuitDoes ==
  ASSUME TypeIInv, Quit
  PROVE  /\ Console \in Threads /\ pc[Console] = "idle" /\ Moves(Console, "readSid") /\ doc' = doc
         /\ UNCHANGED <<Wire, sessionID, sequenceNumber, file, identified, reopened>>
BY BothThreads, Goes DEF Quit, CanType, Moves, history, Wire

LEMMA StopDoes ==
  ASSUME TypeIInv, Stop
  PROVE  /\ Console \in Threads /\ pc[Console] = "stop" /\ Moves(Console, "stopped") /\ doc' = doc
         /\ Cut /\ toServer' = <<>> /\ conn' = "closed"
         /\ UNCHANGED <<sessionID, sequenceNumber, hand, settled, file, identified, reopened>>
BY BothThreads, Goes, CoveredSame DEF Stop, Disconnect, Drop, Moves, history, Cut

\* What a step can do to the process.
LEMMA ProcessSteps ==
  ASSUME TypeIInv, [Next]_vars
  PROVE  \/ ProcessStill
         \/ Die
         \/ Receive
         \/ Handle
         \/ Identify /\ ~Die
         \/ Resume /\ ~Die
         \/ SendResume /\ ~Die
         \/ Quit
         \/ Stop
         \/ \E t \in Threads : EndAssign(t) \/ ReadSid(t) \/ ReadSeq(t) \/ OpenFile(t) \/ WriteFile(t)
<1>1. CASE UNCHANGED vars
  BY <1>1 DEF vars, history, ProcessStill
<1>2. CASE Open \/ Lose \/ Start
  BY <1>2 DEF Open, Lose, Start, history, ProcessStill
<1>3. CASE Server
  BY <1>3 DEF Server, ServerReceive, ServerForget, ServerEvent, history, ProcessStill
<1> QED BY <1>1, <1>2, <1>3 DEF Next, Exit, Command, Save

\* What a step can do to the frames for the gateway.
LEMMA ServerSteps ==
  ASSUME TypeIInv, [Next]_vars
  PROVE  \/ toServer' = <<>> /\ (conn' = "closed" \/ Die)
         \/ toServer' = toServer
         \/ toServer /= <<>> /\ toServer' = Tail(toServer) /\ Answered(Head(toServer)) /\ ProcessStill
         \/ Identify /\ ~Die
         \/ SendResume /\ ~Die
<1>1. CASE UNCHANGED vars
  BY <1>1 DEF vars, connection
<1>2. CASE Open \/ Start
  BY <1>2 DEF Open, Start, connection
<1>3. CASE Lose \/ Die \/ Exit \/ Stop
  BY <1>3 DEF Lose, Die, Exit, Stop, Disconnect, Drop
<1>4. CASE ServerReceive
  <2>1. ProcessStill
    BY <1>4, Answers DEF ProcessStill, history
  <2> QED BY <1>4, <2>1, Answers DEF Disconnect, Drop, Answered
<1>5. CASE \E s \in Sessions : ServerForget(s) \/ ServerEvent(s)
  BY <1>5 DEF ServerForget, ServerEvent
<1>6. CASE Receive \/ Handle \/ Quit \/ \E t \in Threads : EndAssign(t) \/ Save(t)
  BY <1>6 DEF Receive, Handle, Quit, EndAssign, Save, ReadSid, ReadSeq, OpenFile, WriteFile, connection
<1>7. CASE Resume /\ ~Die
  BY <1>7 DEF Resume, connection
<1> QED BY <1>1, <1>2, <1>3, <1>4, <1>5, <1>6, <1>7 DEF Next, Command, Server, Identify, SendResume, Crash

-----------------------------------------------------------------------------
(* Ids are named before they are used                                      *)

LEMMA ServerFrames ==
  ASSUME TypeIInv, [Next]_vars, NEW i \in DOMAIN toServer'
  PROVE  /\ i \in Nat /\ i > 0 /\ Len(toServer) \in Nat /\ DOMAIN toServer = 1..Len(toServer)
         /\ \/ i \in DOMAIN toServer /\ toServer'[i] = toServer[i]
            \/ /\ i + 1 \in DOMAIN toServer /\ toServer'[i] = toServer[i + 1]
               /\ toServer' = Tail(toServer) /\ toServer /= <<>> /\ Answered(Head(toServer)) /\ ProcessStill
            \/ Identify /\ ~Die /\ i = Len(toServer) + 1 /\ toServer'[i] = Opening
            \/ SendResume /\ ~Die /\ i = Len(toServer) + 1 /\ toServer'[i] = Reopening(doc[Console])
<1>1. toServer \in Seq(FrameToServer) /\ toServer' \in Seq(FrameToServer)
  BY TypeKept DEF TypeIInv, TypeOK
<1>2. /\ i \in Nat /\ i > 0 /\ Len(toServer) \in Nat /\ DOMAIN toServer = 1..Len(toServer)
      /\ DOMAIN toServer' = 1..Len(toServer') /\ Len(toServer') \in Nat
  BY <1>1
<1>3. CASE toServer' = toServer
  BY <1>2, <1>3
<1>4. CASE toServer' = <<>>
  BY <1>4
<1>5. CASE toServer /= <<>> /\ toServer' = Tail(toServer) /\ Answered(Head(toServer)) /\ ProcessStill
  <2>1. i + 1 \in DOMAIN toServer /\ toServer'[i] = toServer[i + 1]
    BY <1>1, <1>2, <1>5, HeadTailProperties
  <2> QED BY <1>2, <1>5, <2>1
<1>6. ASSUME NEW f, Sends(f)
      PROVE  (i \in DOMAIN toServer /\ toServer'[i] = toServer[i]) \/ (i = Len(toServer) + 1 /\ toServer'[i] = f)
  <2>1. CASE conn = "open"
    <3>1. i \in 1..Len(toServer) + 1
      BY <1>2, <1>6, <2>1 DEF Sends
    <3>2. i \in DOMAIN toServer \/ i = Len(toServer) + 1
      BY <1>2, <3>1
    <3> QED BY <1>6, <2>1, <3>2 DEF Sends
  <2>2. CASE conn /= "open"
    BY <1>3, <1>6, <2>2 DEF Sends
  <2> QED BY <2>1, <2>2
<1>7. CASE Identify /\ ~Die
  BY <1>2, <1>6, <1>7, IdentifyDoes
<1>8. CASE SendResume /\ ~Die
  BY <1>2, <1>6, <1>8, SendResumeDoes
<1> QED BY <1>3, <1>4, <1>5, <1>7, <1>8, ServerSteps

LEMMA NoIdNoSession == NoId \notin Sessions /\ Torn \notin Sessions /\ NoDoc.sid = NoId /\ Invalid.sid = NoId
                       /\ NoDoc.seq = 0 /\ NoFrame.sid = NoId /\ NoFrame.seq = 0
BY SessionAssumption DEF NoDoc, Invalid, NoFrame

LEMMA FramesInUse ==
  ASSUME TypeIInv, [Next]_vars, NEW s \in Sessions,
         attached' = s \/ \E i \in DOMAIN toClient' : toClient'[i].sid = s
  PROVE  InUse(s) \/ Starts(s)
<1>1. CASE Cut
  BY <1>1, NoIdNoSession DEF Cut
<1>2. CASE Noted
  <2>1. CASE attached' = s
    BY <1>2, <2>1, NoIdNoSession DEF Noted, InUse
  <2>2. ASSUME NEW i \in DOMAIN toClient', toClient'[i].sid = s PROVE InUse(s)
    <3>1. i \in DOMAIN toClient /\ toClient'[i] = toClient[i]
      BY <1>2, <2>2, LongerCases, NoNewEvents, NoIdNoSession DEF Noted
    <3> QED BY <2>2, <3>1 DEF InUse
  <2> QED BY <2>1, <2>2
<1>3. ASSUME NEW x \in Sessions, NEW a \in 0..MaxSeq, Grows(x, a)
      PROVE  InUse(s) \/ Starts(s)
  <2>1. Extends(x, a) /\ attached' = x
    BY <1>3 DEF Grows, Extends
  <2>2. InUse(x) \/ Starts(x)
    BY <1>3 DEF Grows, Replays, ResumeAt, InUse
  <2>3. ASSUME NEW i \in DOMAIN toClient', toClient'[i].sid = s PROVE InUse(s) \/ x = s
    <3>1. CASE i \in DOMAIN toClient
      BY <2>1, <2>3, <3>1, LongerCases DEF Extends, InUse
    <3>2. CASE i \in Len(toClient) + 1..Len(toClient')
      BY <2>1, <2>3, <3>2, NewFrames
    <3> QED BY <2>1, <2>3, <3>1, <3>2, LongerCases DEF Extends
  <2> QED BY <2>1, <2>2, <2>3
<1>4. CASE Receive
  <2>1. Takes(Head(toClient)) /\ attached' = attached
    BY <1>4, Taken DEF gateway
  <2>2. ASSUME NEW i \in DOMAIN toClient', toClient'[i].sid = s PROVE InUse(s)
    <3>1. i + 1 \in DOMAIN toClient /\ toClient'[i] = toClient[i + 1]
      BY <2>1, <2>2 DEF Takes
    <3> QED BY <2>2, <3>1 DEF InUse
  <2> QED BY <2>1, <2>2 DEF InUse
<1> QED BY <1>1, <1>2, <1>3, <1>4, FrameSteps

LEMMA HeadInUse ==
  ASSUME TypeIInv, Receive
  PROVE  InUse(Head(toClient).sid)
BY Taken DEF Takes, InUse, TypeIInv, TypeOK

\* What the process holds, and session.json, come from what is in use.
LEMMA ProcessInUse ==
  ASSUME TypeIInv, [Next]_vars, NEW s \in Sessions,
         Held(s)' \/ file'.doc.sid = s
  PROVE  InUse(s)
<1> USE NoIdNoSession
<1>0. \A t \in Threads : doc[t].sid = s => InUse(s)
  BY DEF InUse
<1>1. CASE ProcessStill
  BY <1>1 DEF ProcessStill, InUse, Held
<1>2. CASE Die
  BY <1>2, DieDoes DEF InUse, Held
<1>3. CASE Receive
  <2>1. UNCHANGED file
    BY <1>3, Taken
  <2> QED BY <1>0, <1>3, <2>1, HeadInUse, ReceiveDoes DEF InUse, Held, Moves
<1>4. CASE Identify /\ ~Die
  BY <1>4, IdentifyDoes DEF InUse, Held
<1>5. CASE Resume /\ ~Die
  BY <1>0, <1>5, ResumeDoes DEF InUse, Held, Moves
<1>6. CASE SendResume /\ ~Die
  BY <1>0, <1>6, SendResumeDoes DEF InUse, Held, Moves
<1>7. CASE Quit
  BY <1>7, QuitDoes DEF InUse, Held
<1>8. CASE Stop
  BY <1>8, StopDoes DEF InUse, Held
<1>9. ASSUME NEW t \in Threads, EndAssign(t) PROVE InUse(s)
  BY <1>0, <1>9, EndAssignDoes DEF InUse, Held, Moves
<1>10. ASSUME NEW t \in Threads, ReadSid(t) PROVE InUse(s)
  BY <1>0, <1>10, ReadSidDoes DEF InUse, Held, Moves
<1>11. ASSUME NEW t \in Threads, ReadSeq(t) PROVE InUse(s)
  BY <1>0, <1>11, ReadSeqDoes DEF InUse, Held, Moves
<1>12. ASSUME NEW t \in Threads, OpenFile(t) PROVE InUse(s)
  BY <1>0, <1>12, OpenFileDoes DEF InUse, Held
<1>13. ASSUME NEW t \in Threads, WriteFile(t) PROVE InUse(s)
  BY <1>0, <1>13, WriteFileDoes DEF InUse, Held, Moves
<1>14. CASE Handle
  BY <1>0, <1>14, HandleDoes DEF InUse, Held, Moves
<1> QED BY <1>1, <1>2, <1>3, <1>4, <1>5, <1>6, <1>7, <1>8, <1>9, <1>10, <1>11, <1>12, <1>13, <1>14, ProcessSteps

LEMMA InUseSteps ==
  ASSUME TypeIInv, [Next]_vars, NEW s \in Sessions, InUse(s)'
  PROVE  InUse(s) \/ Starts(s)
<1>1. ASSUME NEW i \in DOMAIN toServer', toServer'[i].sid = s PROVE InUse(s)
  <2>1. i \in DOMAIN toServer /\ toServer'[i] = toServer[i] => InUse(s)
    BY <1>1 DEF InUse
  <2>2. i + 1 \in DOMAIN toServer /\ toServer'[i] = toServer[i + 1] => InUse(s)
    BY <1>1 DEF InUse
  <2>3. toServer'[i] /= Opening
    BY <1>1, NoIdNoSession DEF Opening
  <2>4. toServer'[i] = Reopening(doc[Console]) => InUse(s)
    BY <1>1, BothThreads DEF Reopening, InUse
  <2> QED BY <2>1, <2>2, <2>3, <2>4, ServerFrames
<1> QED BY <1>1, FramesInUse, ProcessInUse DEF InUse, Held

LEMMA LiveSteps ==
  ASSUME TypeIInv, [Next]_vars, NEW s \in live'
  PROVE  s \in Sessions /\ (s \in live \/ Starts(s))
<1>1. s \in Sessions
  BY TypeKept DEF TypeIInv, TypeOK
<1>2. ASSUME NEW x \in Sessions, NEW a \in 0..MaxSeq, Grows(x, a) PROVE s \in live \/ Starts(s)
  BY <1>2 DEF Grows, Extends, Replays
<1> QED BY <1>1, <1>2, FrameSteps, Taken DEF Cut, Noted, gateway

LEMMA CreatedKept == TypeIInv /\ Created /\ [Next]_vars => Created'
<1> SUFFICES ASSUME TypeIInv, Created, [Next]_vars, NEW s \in Sessions, s \in live' \/ InUse(s)'
             PROVE  sent'[s] > 0
  BY DEF Created
<1>1. (s \in live \/ InUse(s)) \/ Starts(s)
  BY LiveSteps, InUseSteps
<1>2. CASE s \in live \/ InUse(s)
  BY <1>2, SentGrows DEF Created
<1>3. CASE Starts(s)
  BY <1>3 DEF Starts, NewSession, TypeIInv, TypeOK
<1> QED BY <1>1, <1>2, <1>3

LEMMA UnconnectedKept == TypeIInv /\ Unconnected /\ [Next]_vars => Unconnected'
<1> SUFFICES ASSUME TypeIInv, Unconnected, [Next]_vars, conn' /= "open"
             PROVE  toClient' = <<>> /\ toServer' = <<>> /\ attached' = NoId
  BY DEF Unconnected
<1>1. CASE UNCHANGED vars
  BY <1>1 DEF vars, connection, gateway, Unconnected
<1>2. CASE Open \/ Start
  BY <1>2 DEF Open, Start, connection, gateway, Unconnected
<1>3. CASE Lose \/ Die \/ Exit \/ Stop
  BY <1>3 DEF Lose, Die, Exit, Stop, Disconnect, Drop
<1>4. CASE ServerReceive
  BY <1>4, Answers DEF Disconnect, Drop, Answered
<1>5. ASSUME NEW s \in Sessions, ServerForget(s) \/ ServerEvent(s)
      PROVE  toClient' = <<>> /\ toServer' = <<>> /\ attached' = NoId
  <2>1. s /= NoId /\ conn' = conn /\ toServer' = toServer
    BY <1>5, NoIdNoSession DEF ServerForget, ServerEvent
  <2> QED BY <1>5, <2>1 DEF ServerForget, ServerEvent, Unconnected
<1>6. CASE Receive
  BY <1>6, ReceiveDoes DEF Receive
<1>7. CASE Handle \/ Quit \/ (Resume /\ ~Die) \/ \E t \in Threads : EndAssign(t) \/ Save(t)
  BY <1>7 DEF Handle, Resume, Quit, EndAssign, Save, ReadSid, ReadSeq, OpenFile, WriteFile, connection, gateway, Unconnected
<1>8. CASE (Identify \/ SendResume) /\ ~Die
  BY <1>8, IdentifyDoes, SendResumeDoes DEF Sends, Unconnected, gateway
<1> QED BY <1>1, <1>2, <1>3, <1>4, <1>5, <1>6, <1>7, <1>8 DEF Next, Command, Server, Exit

-----------------------------------------------------------------------------
(* Documents and numbers of the process                                    *)

LEMMA Numbers ==
  ASSUME TypeIInv
  PROVE  /\ sequenceNumber \in Nat /\ file.doc.seq \in Nat
         /\ \A t \in Threads : doc[t].seq \in Nat
         /\ \A s \in Sessions : sent[s] \in Nat
         /\ \A i \in DOMAIN toServer : toServer[i].seq \in Nat
         /\ \A i \in DOMAIN toClient : toClient[i].seq \in Nat
<1>1. \A p \in SeqNumber : p \in Nat
  BY SessionAssumption DEF SeqNumber
<1>2. sequenceNumber \in SeqNumber /\ file.doc.seq \in SeqNumber /\ \A t \in Threads : doc[t].seq \in SeqNumber
  BY DEF TypeIInv, TypeOK, File, Doc
<1>3. \A i \in DOMAIN toServer : toServer[i].seq \in SeqNumber
  <2> TAKE i \in DOMAIN toServer
  <2>1. toServer \in Seq(FrameToServer)
    BY DEF TypeIInv, TypeOK
  <2>2. toServer[i] \in FrameToServer
    BY <2>1
  <2> QED BY <2>2 DEF FrameToServer
<1>4. \A i \in DOMAIN toClient : toClient[i].seq \in Nat
  <2> TAKE i \in DOMAIN toClient
  <2>1. toClient \in Seq(FrameToClient)
    BY DEF TypeIInv, TypeOK
  <2>2. toClient[i] \in FrameToClient
    BY <2>1
  <2> QED BY <2>2, SessionAssumption DEF FrameToClient, SeqNumber
<1>5. \A s \in Sessions : sent[s] \in Nat
  BY SessionAssumption DEF TypeIInv, TypeOK
<1> QED BY <1>1, <1>2, <1>3, <1>4, <1>5

LEMMA DocsClearedKept == TypeIInv /\ Kinds /\ DocsCleared /\ [Next]_vars => DocsCleared'
<1> SUFFICES ASSUME TypeIInv, Kinds, DocsCleared, [Next]_vars PROVE DocsCleared'
  OBVIOUS
<1> USE BothThreads, NoIdNoSession
<1>1. CASE ProcessStill
  BY <1>1 DEF ProcessStill, DocsCleared
<1>2. CASE Die
  BY <1>2, DieDoes DEF DocsCleared
<1>3. CASE Receive
  <2> DEFINE f == Head(toClient)
  <2>1. /\ pc[Io] = "idle" /\ doc[Io] = NoDoc /\ sequenceNumber' >= sequenceNumber
        /\ sequenceNumber \in Nat /\ sequenceNumber' \in Nat
    BY <1>3, ReceiveDoes DEF DocsCleared
  <2>2. doc[Console].seq \in Nat
    BY Numbers
  <2>3. f.kind = "READY" => f.seq > 0
    <3>1. Takes(f) /\ 1 \in DOMAIN toClient
      BY <1>3, Taken DEF Takes
    <3> QED BY <3>1, Numbers DEF Takes, Kinds
  <2>4. doc'[Io] = [sid |-> IF f.kind = "READY" THEN f.sid ELSE NoId, seq |-> 0] /\ doc'[Io].seq = 0
    <3>1. doc'[Io] \in Doc /\ NoDoc = [sid |-> NoId, seq |-> 0]
      BY TypeKept DEF NoDoc, TypeIInv, TypeOK
    <3>2. f.kind /= "READY" => doc' = doc
      BY <1>3, ReceiveDoes
    <3>3. f.kind = "READY" => doc'[Io].sid = f.sid /\ doc'[Io].seq = 0
      BY <1>3, <2>1, ReceiveDoes
    <3> HIDE DEF f
    <3> QED BY <2>1, <3>1, <3>2, <3>3 DEF Doc
  <2>5. pc'[Console] = pc[Console] /\ doc'[Console] = doc[Console] /\ Threads = {Io, Console}
    BY <1>3, ReceiveDoes
  <2>6. CASE f.seq > 0
    <3>1. hand' = f /\ pc'[Io] = "handle"
      BY <1>3, <2>6, ReceiveDoes
    <3>2. sequenceNumber' > 0
      <4>1. f.seq \in Nat
        BY <1>3, Taken, SessionAssumption DEF Takes
      <4> HIDE DEF f
      <4>2. sequenceNumber' = IF f.seq > sequenceNumber THEN f.seq ELSE sequenceNumber
        BY <1>3, ReceiveDoes DEF f
      <4> QED BY <2>1, <2>6, <4>1, <4>2
    <3> HIDE DEF f
    <3> QED BY <2>1, <2>2, <2>4, <2>5, <3>1, <3>2 DEF DocsCleared
  <2>7. CASE ~(f.seq > 0)
    <3>1. UNCHANGED <<hand, pc, doc>>
      BY <1>3, <2>3, <2>7, ReceiveDoes
    <3> QED BY <2>1, <2>2, <3>1 DEF DocsCleared
  <2> QED BY <2>6, <2>7
<1>4. CASE Identify /\ ~Die
  BY <1>4, IdentifyDoes DEF DocsCleared
<1>5. CASE Resume /\ ~Die
  BY <1>5, ResumeDoes DEF DocsCleared, Moves, Wire
<1>6. CASE SendResume /\ ~Die
  BY <1>6, SendResumeDoes DEF DocsCleared, Moves, Wire
<1>7. CASE Quit
  BY <1>7, QuitDoes DEF DocsCleared, Moves, Wire
<1>8. CASE Stop
  BY <1>8, StopDoes DEF DocsCleared, Moves, Wire
<1>9. ASSUME NEW t \in Threads, EndAssign(t) PROVE DocsCleared'
  BY <1>9, EndAssignDoes DEF DocsCleared, Moves, Wire
<1>10. ASSUME NEW t \in Threads, ReadSid(t) PROVE DocsCleared'
  BY <1>10, ReadSidDoes DEF DocsCleared, Moves, Wire
<1>11. ASSUME NEW t \in Threads, ReadSeq(t) PROVE DocsCleared'
  BY <1>11, ReadSeqDoes, Numbers DEF DocsCleared, Moves, Wire
<1>12. ASSUME NEW t \in Threads, OpenFile(t) PROVE DocsCleared'
  BY <1>12, OpenFileDoes DEF DocsCleared, Moves, Wire
<1>13. ASSUME NEW t \in Threads, WriteFile(t) PROVE DocsCleared'
  BY <1>13, WriteFileDoes DEF DocsCleared, Moves
<1>14. CASE Handle
  <2>1. NoDoc = [sid |-> NoId, seq |-> 0]
    BY DEF NoDoc
  <2> QED BY <1>14, <2>1, HandleDoes DEF DocsCleared, Moves
<1> QED BY <1>1, <1>2, <1>3, <1>4, <1>5, <1>6, <1>7, <1>8, <1>9, <1>10, <1>11, <1>12, <1>13, <1>14, ProcessSteps

\* The saved document changes in WriteFile only, and then to a number that
\* is not above sequenceNumber.
LEMMA FileSteps ==
  ASSUME TypeIInv, DocsCleared, [Next]_vars
  PROVE  (file'.doc = file.doc /\ (file'.kind = "json" => file.kind = "json"))
         \/ \E t \in Threads : WriteFile(t) /\ file'.doc = doc[t] /\ file'.doc.seq <= sequenceNumber'
<1>1. ASSUME NEW t \in Threads, WriteFile(t)
      PROVE  file'.doc = doc[t] /\ file'.doc.seq <= sequenceNumber'
  BY <1>1, WriteFileDoes DEF DocsCleared
<1>2. ASSUME NEW t \in Threads, EndAssign(t) \/ ReadSid(t) \/ ReadSeq(t) \/ OpenFile(t)
      PROVE  (file'.doc = file.doc /\ (file'.kind = "json" => file.kind = "json"))
  BY <1>2, EndAssignDoes, ReadSidDoes, ReadSeqDoes, OpenFileDoes
<1> QED BY <1>1, <1>2, ProcessSteps, DieDoes, Taken, HandleDoes, IdentifyDoes, ResumeDoes, SendResumeDoes, QuitDoes, StopDoes
        DEF ProcessStill

LEMMA NumberSteps ==
  ASSUME TypeIInv, [Next]_vars
  PROVE  \/ sequenceNumber' = sequenceNumber
         \/ Die
         \/ Receive /\ sequenceNumber' >= sequenceNumber
<1>1. ASSUME NEW t \in Threads, EndAssign(t) \/ ReadSid(t) \/ ReadSeq(t) \/ OpenFile(t) \/ WriteFile(t)
      PROVE  sequenceNumber' = sequenceNumber
  BY <1>1, EndAssignDoes, ReadSidDoes, ReadSeqDoes, OpenFileDoes, WriteFileDoes
<1>2. CASE Receive
  BY <1>2, ReceiveDoes
<1> QED BY <1>1, <1>2, ProcessSteps, HandleDoes, IdentifyDoes, ResumeDoes, SendResumeDoes, QuitDoes, StopDoes DEF ProcessStill

\* The thread Console resumes with a document that it had, or with the file's.
LEMMA ResumingSteps ==
  ASSUME TypeIInv, [Next]_vars, Resuming'
  PROVE  \/ Resuming /\ doc'[Console] = doc[Console]
         \/ Resume /\ ~Die /\ doc'[Console] = file.doc
<1> USE BothThreads
<1>1. ASSUME NEW t \in Threads, EndAssign(t) \/ ReadSid(t) \/ ReadSeq(t) \/ OpenFile(t) \/ WriteFile(t)
      PROVE  Resuming /\ doc'[Console] = doc[Console]
  <2>1. CASE t = Console
    BY <1>1, <2>1, EndAssignDoes, ReadSidDoes, ReadSeqDoes, OpenFileDoes, WriteFileDoes DEF Resuming, Moves
  <2>2. CASE t = Io
    BY <1>1, <2>2, EndAssignDoes, ReadSidDoes, ReadSeqDoes, OpenFileDoes, WriteFileDoes DEF Resuming, Moves
  <2> QED BY <2>1, <2>2
<1>2. CASE Receive
  BY <1>2, ReceiveDoes DEF Resuming
<1>3. CASE Handle
  BY <1>3, HandleDoes DEF Resuming, Moves
<1> QED BY <1>1, <1>2, <1>3, ProcessSteps, DieDoes, IdentifyDoes, ResumeDoes, SendResumeDoes, QuitDoes, StopDoes
        DEF ProcessStill, Resuming, Moves

LEMMA AheadKept == TypeIInv /\ Created /\ DocsCleared /\ Ahead /\ [Next]_vars => Ahead'
<1> SUFFICES ASSUME TypeIInv, Created, DocsCleared, Ahead, [Next]_vars PROVE Ahead'
  OBVIOUS
<1> DEFINE y == file.doc.sid
           n == file.doc.seq
<1>0. n \in Nat /\ n' \in Nat /\ sequenceNumber \in Nat /\ sequenceNumber' \in Nat
  <2>1. file'.doc.seq \in SeqNumber /\ sequenceNumber' \in SeqNumber
    BY TypeKept DEF TypeIInv, TypeOK, File, Doc
  <2>2. \A p \in SeqNumber : p \in Nat
    BY SessionAssumption DEF SeqNumber
  <2> QED BY <2>1, <2>2, Numbers
<1>1. ASSUME NEW t \in Threads, WriteFile(t), file'.doc.seq <= sequenceNumber' PROVE Ahead'
  BY <1>0, <1>1 DEF Ahead
<1>2. CASE Die
  <2>1. toClient' = <<>> /\ toServer' = <<>> /\ attached' = NoId /\ pc'[Console] = "idle"
    BY <1>2, DieDoes, BothThreads DEF Cut
  <2>2. DOMAIN toClient' = {} /\ DOMAIN toServer' = {} /\ ~Resuming'
    BY <2>1 DEF Resuming
  <2> QED BY <2>1, <2>2, NoIdNoSession DEF Ahead
<1>3. CASE file'.doc = file.doc /\ ~Die
  <2> SUFFICES ASSUME y \in Sessions, n > sequenceNumber'
               PROVE  /\ \A i \in DOMAIN toClient' : toClient'[i].seq > 0 /\ toClient'[i].sid = y => toClient'[i].seq > n
                      /\ attached' = y => sent'[y] >= n
                      /\ \A i \in DOMAIN toServer' : toServer'[i].op = "RESUME" /\ toServer'[i].sid = y => toServer'[i].seq >= n
                      /\ Resuming' /\ doc'[Console].sid = y => doc'[Console].seq >= n
    BY <1>3 DEF Ahead, Event, ResumeAt
  <2>0. n > sequenceNumber
    BY <1>0, <1>3, NumberSteps
  <2>1. /\ \A i \in DOMAIN toClient : toClient[i].seq > 0 /\ toClient[i].sid = y => toClient[i].seq > n
        /\ attached = y => sent[y] >= n
        /\ \A i \in DOMAIN toServer : toServer[i].op = "RESUME" /\ toServer[i].sid = y => toServer[i].seq >= n
        /\ Resuming /\ doc[Console].sid = y => doc[Console].seq >= n
    BY <2>0 DEF Ahead, Event, ResumeAt
  <2>2. \A i \in DOMAIN toServer' : toServer'[i].op = "RESUME" /\ toServer'[i].sid = y => toServer'[i].seq >= n
    <3> SUFFICES ASSUME NEW i \in DOMAIN toServer', toServer'[i].op = "RESUME", toServer'[i].sid = y
                 PROVE  toServer'[i].seq >= n
      OBVIOUS
    <3>1. CASE SendResume /\ ~Die /\ toServer'[i] = Reopening(doc[Console])
      BY <2>1, <3>1, SendResumeDoes DEF Reopening, Resuming
    <3>2. toServer'[i] /= Opening
      BY DEF Opening
    <3> QED BY <2>1, <3>1, <3>2, ServerFrames
  <2>3. Resuming' /\ doc'[Console].sid = y => doc'[Console].seq >= n
    BY <1>0, <2>1, ResumingSteps
  <2>4. /\ \A i \in DOMAIN toClient' : toClient'[i].seq > 0 /\ toClient'[i].sid = y => toClient'[i].seq > n
        /\ attached' = y => sent'[y] >= n
    <3>1. CASE Cut
      BY <3>1, NoIdNoSession DEF Cut
    <3>2. CASE Noted
      <4>1. ASSUME NEW i \in DOMAIN toClient', toClient'[i].seq > 0, toClient'[i].sid = y PROVE toClient'[i].seq > n
        <5>1. i \in DOMAIN toClient /\ toClient'[i] = toClient[i]
          BY <3>2, <4>1, LongerCases, NoNewEvents DEF Noted
        <5> QED BY <2>1, <4>1, <5>1
      <4>2. attached' = y => sent'[y] >= n
        BY <2>1, <3>2, NoIdNoSession DEF Noted
      <4> QED BY <4>1, <4>2
    <3>3. ASSUME NEW s \in Sessions, NEW a \in 0..MaxSeq, Grows(s, a)
          PROVE  /\ \A i \in DOMAIN toClient' : toClient'[i].seq > 0 /\ toClient'[i].sid = y => toClient'[i].seq > n
                 /\ attached' = y => sent'[y] >= n
      <4>1. Extends(s, a) /\ attached' = s /\ sent'[s] >= a /\ sent'[s] \in Nat /\ a \in Nat /\ Len(toClient) \in Nat
        BY <3>3, SessionAssumption DEF Grows, Extends, TypeIInv, TypeOK
      <4>2. s = y => a >= n
        <5>1. CASE Starts(s)
          <6>1. InUse(y)
            BY DEF InUse
          <6> QED BY <5>1, <6>1, StartsFresh DEF Starts
        <5>2. CASE Replays(s, a)
          BY <2>1, <5>2 DEF Replays, ResumeAt
        <5>3. CASE attached = s /\ a = sent[s]
          BY <2>1, <5>3
        <5> QED BY <3>3, <5>1, <5>2, <5>3 DEF Grows
      <4>3. ASSUME NEW i \in DOMAIN toClient', toClient'[i].seq > 0, toClient'[i].sid = y PROVE toClient'[i].seq > n
        <5>1. CASE i \in DOMAIN toClient
          BY <2>1, <4>1, <4>3, <5>1, LongerCases DEF Extends
        <5>2. CASE i \in Len(toClient) + 1..Len(toClient')
          <6>1. s = y /\ i - Len(toClient) \in Nat /\ i - Len(toClient) > 0 /\ toClient'[i].seq = a + (i - Len(toClient))
            BY <4>1, <4>3, <5>2, NewFrames
          <6> HIDE DEF n
          <6> QED BY <1>0, <4>1, <4>2, <6>1
        <5> QED BY <4>1, <4>3, <5>1, <5>2, LongerCases DEF Extends
      <4>4. attached' = y => sent'[y] >= n
        BY <1>0, <4>1, <4>2
      <4> QED BY <4>3, <4>4
    <3>4. CASE Receive
      <4>1. Takes(Head(toClient)) /\ UNCHANGED gateway
        BY <3>4, Taken
      <4>2. ASSUME NEW i \in DOMAIN toClient', toClient'[i].seq > 0, toClient'[i].sid = y PROVE toClient'[i].seq > n
        <5>1. i + 1 \in DOMAIN toClient /\ toClient'[i] = toClient[i + 1]
          BY <4>1 DEF Takes
        <5> QED BY <2>1, <4>2, <5>1
      <4> QED BY <2>1, <4>1, <4>2 DEF gateway
    <3> QED BY <3>1, <3>2, <3>3, <3>4, FrameSteps
  <2> QED BY <2>2, <2>3, <2>4
<1> QED BY <1>1, <1>2, <1>3, FileSteps

-----------------------------------------------------------------------------
(* The first session of a run                                              *)

LEMMA IdentifiedSteps ==
  ASSUME TypeIInv, [Next]_vars
  PROVE  identified' = identified \/ Die \/ (Identify /\ ~Die /\ identified' = TRUE)
<1>1. ASSUME NEW t \in Threads, EndAssign(t) \/ ReadSid(t) \/ ReadSeq(t) \/ OpenFile(t) \/ WriteFile(t)
      PROVE  identified' = identified
  BY <1>1, EndAssignDoes, ReadSidDoes, ReadSeqDoes, OpenFileDoes, WriteFileDoes
<1> QED BY <1>1, ProcessSteps, Taken, HandleDoes, IdentifyDoes, ResumeDoes, SendResumeDoes, QuitDoes, StopDoes DEF ProcessStill

\* IDENTIFY starts a session after every RESUME of this run was answered.
LEMMA StartsLate ==
  ASSUME TypeIInv, Always, Orderly, NEW s \in Sessions, Starts(s)
  PROVE  /\ identified /\ ~Early /\ ~Resuming /\ attached = NoId /\ conn = "open"
         /\ ~InUse(s) /\ \A x \in live : ~Held(x)
<1>1. toServer \in Seq(FrameToServer) /\ toServer /= <<>> /\ toServer[1].op = "IDENTIFY" /\ attached = NoId
  BY DEF Starts, TypeIInv, TypeOK
<1>2. 1 \in DOMAIN toServer /\ \A j \in DOMAIN toServer : j = 1 \/ j > 1
  BY <1>1
<1>3. identified /\ \A j \in DOMAIN toServer : toServer[j].op = "IDENTIFY"
  BY <1>1, <1>2 DEF Orderly, ResumesFirst
<1>4. (\A i \in DOMAIN toServer : ~ResumeAt(i)) /\ ~Resuming
  BY <1>3 DEF ResumeAt, Orderly, ResumesFirst
<1>5. conn = "open"
  BY <1>1 DEF Always, Unconnected
<1>6. \A x \in live : ~Held(x)
  BY <1>1, <1>4, <1>5, NoIdNoSession DEF Orderly, Asked, TypeIInv, TypeOK
<1>7. ~InUse(s)
  BY StartsFresh DEF Starts, Always
<1> QED BY <1>1, <1>3, <1>4, <1>5, <1>6, <1>7 DEF Early

LEMMA EarlySteps ==
  ASSUME TypeIInv, ResumesFirst, [Next]_vars, ~Die, Early'
  PROVE  Early
<1>1. CASE ~identified'
  BY <1>1, IdentifiedSteps DEF Early
<1>2. ASSUME NEW i \in DOMAIN toServer', toServer'[i].op = "RESUME" PROVE Early
  <2>1. toServer'[i] /= Opening
    BY <1>2 DEF Opening
  <2>2. CASE SendResume /\ ~Die
    BY <2>2, SendResumeDoes DEF ResumesFirst, Resuming, Early
  <2>3. CASE \E j \in DOMAIN toServer : toServer'[i] = toServer[j]
    BY <1>2, <2>3 DEF Early, ResumeAt
  <2> QED BY <2>1, <2>2, <2>3, ServerFrames
<1> QED BY <1>1, <1>2 DEF Early, ResumeAt

LEMMA OneSessionKept == TypeIInv /\ Always /\ Orderly /\ [Next]_vars => OneSession'
<1> SUFFICES ASSUME TypeIInv, Always, Orderly, [Next]_vars, Early',
                    NEW a \in Sessions, NEW b \in Sessions, InUse(a)', InUse(b)'
             PROVE  a = b
  BY DEF OneSession
<1>1. CASE Die
  <2>1. ASSUME NEW s \in Sessions, InUse(s)' PROVE file.doc.sid = s
    <3>1. DOMAIN toClient' = {} /\ DOMAIN toServer' = {}
      BY <1>1, DieDoes DEF Cut
    <3> QED BY <1>1, <2>1, <3>1, DieDoes, NoIdNoSession DEF Cut, InUse
  <2> QED BY <2>1
<1>2. CASE ~Die
  <2>1. Early
    BY <1>2, EarlySteps DEF Orderly
  <2>2. ASSUME NEW s \in Sessions, InUse(s)' PROVE InUse(s)
    BY <2>1, <2>2, InUseSteps, StartsLate
  <2> QED BY <2>1, <2>2 DEF Orderly, OneSession
<1> QED BY <1>1, <1>2

LEMMA ResumesFirstKept ==
  TypeIInv /\ Always /\ Orderly /\ [Next]_vars /\ ~reopened' => ResumesFirst'
<1> SUFFICES ASSUME TypeIInv, Always, Orderly, [Next]_vars, ~reopened' PROVE ResumesFirst'
  OBVIOUS
<1>1. ASSUME identified', Resuming' PROVE FALSE
  <2>1. CASE Resume /\ ~Die
    BY <1>1, <2>1, ResumeDoes
  <2>2. CASE Resuming
    <3>1. ~identified /\ pc[Console] /= "idle"
      BY <2>2 DEF Resuming, Orderly, ResumesFirst
    <3> QED BY <1>1, <3>1, IdentifiedSteps, IdentifyDoes, DieDoes
  <2> QED BY <1>1, <2>1, <2>2, ResumingSteps
<1>2. ASSUME NEW i \in DOMAIN toServer', toServer'[i].op = "IDENTIFY"
      PROVE  identified' /\ \A j \in DOMAIN toServer' : j > i => toServer'[j].op = "IDENTIFY"
  <2>0. ~Die
    <3> SUFFICES ASSUME Die PROVE FALSE
      OBVIOUS
    <3>1. DOMAIN toServer' = {}
      BY DieDoes
    <3> QED BY <3>1
  <2>1. ASSUME NEW k \in DOMAIN toServer, k >= i, toServer'[i] = toServer[k], k <= i + 1
        PROVE  identified' /\ \A j \in DOMAIN toServer' : j > i => toServer'[j].op = "IDENTIFY"
    <3>0. i \in Nat /\ k \in Nat
      BY <2>1, ServerFrames
    <3>1. identified /\ \A j \in DOMAIN toServer : j >= k => toServer[j].op = "IDENTIFY"
      BY <1>2, <2>1, <3>0, ServerFrames DEF Orderly, ResumesFirst
    <3>2. identified'
      BY <2>0, <3>1, IdentifiedSteps
    <3>3. ASSUME NEW j \in DOMAIN toServer', j > i PROVE toServer'[j].op = "IDENTIFY"
      <4>0. j \in Nat /\ j >= k /\ j + 1 >= k
        BY <2>1, <3>0, <3>3, ServerFrames
      <4>1. Opening.op = "IDENTIFY"
        BY DEF Opening
      <4>2. ~SendResume
        BY <2>0, <3>1, SendResumeDoes DEF Resuming, Orderly, ResumesFirst
      <4> QED BY <3>1, <4>0, <4>1, <4>2, ServerFrames
    <3> QED BY <3>2, <3>3
  <2>2. ASSUME Identify /\ ~Die, i = Len(toServer) + 1
        PROVE  identified' /\ \A j \in DOMAIN toServer' : j > i => toServer'[j].op = "IDENTIFY"
    <3>1. identified'
      BY <2>2, IdentifyDoes
    <3>2. ASSUME NEW j \in DOMAIN toServer', j > i PROVE FALSE
      BY <2>2, <3>2, ServerFrames
    <3> QED BY <3>1, <3>2
  <2>3. Reopening(doc[Console]) /= toServer'[i]
    BY <1>2 DEF Reopening
  <2> QED BY <2>1, <2>2, <2>3, ServerFrames
<1> QED BY <1>1, <1>2 DEF ResumesFirst

-----------------------------------------------------------------------------
(* The live session of a run                                               *)

LEMMA HeldSteps ==
  ASSUME TypeIInv, [Next]_vars, NEW s \in Sessions, Held(s)'
  PROVE  /\ ~Die
         /\ \/ Held(s)
            \/ Receive /\ Head(toClient).kind = "READY" /\ Head(toClient).sid = s
            \/ Resume /\ ~Die /\ file.doc.sid = s
<1> USE NoIdNoSession
<1>0. ~Die
  BY DieDoes DEF Held
<1>1. CASE ProcessStill
  BY <1>0, <1>1 DEF ProcessStill, Held
<1>2. CASE Receive
  BY <1>0, <1>2, ReceiveDoes DEF Held
<1>3. CASE Identify /\ ~Die
  BY <1>0, <1>3, IdentifyDoes DEF Held
<1>4. CASE Resume /\ ~Die
  BY <1>0, <1>4, ResumeDoes DEF Held, Moves
<1>5. CASE SendResume /\ ~Die
  BY <1>0, <1>5, SendResumeDoes DEF Held, Moves
<1>6. CASE Quit \/ Stop
  BY <1>0, <1>6, QuitDoes, StopDoes DEF Held
<1>7. ASSUME NEW t \in Threads, EndAssign(t) PROVE Held(s)
  BY <1>7, EndAssignDoes DEF Held, Moves
<1>8. ASSUME NEW t \in Threads, ReadSid(t) PROVE Held(s)
  BY <1>8, ReadSidDoes DEF Held, Moves
<1>9. ASSUME NEW t \in Threads, ReadSeq(t) PROVE Held(s)
  BY <1>9, ReadSeqDoes DEF Held, Moves
<1>10. ASSUME NEW t \in Threads, OpenFile(t) PROVE Held(s)
  BY <1>10, OpenFileDoes DEF Held
<1>11. ASSUME NEW t \in Threads, WriteFile(t) PROVE Held(s)
  BY <1>11, WriteFileDoes DEF Held, Moves
<1>12. CASE Handle
  BY <1>0, <1>12, HandleDoes DEF Held
<1> QED BY <1>0, <1>1, <1>2, <1>3, <1>4, <1>5, <1>6, <1>7, <1>8, <1>9, <1>10, <1>11, <1>12, ProcessSteps

\* READY at the head is dispatch 1 of a session.
LEMMA ReadyFirst ==
  ASSUME TypeIInv, Kinds, Receive, Head(toClient).kind = "READY"
  PROVE  /\ 1 \in DOMAIN toClient /\ toClient[1] = Head(toClient)
         /\ Event(1) /\ toClient[1].seq = 1 /\ toClient[1].sid \in Sessions
<1>1. Takes(Head(toClient)) /\ 1 \in DOMAIN toClient
  BY Taken DEF Takes, TypeIInv, TypeOK
<1> QED BY <1>1 DEF Takes, Kinds, Event

\* In an orderly run a resume is the first thing the process does.
LEMMA ResumeEarly ==
  ASSUME TypeIInv, Resume, ~Die, ~reopened'
  PROVE  Early
BY ResumeDoes DEF Early

\* A session that the process or the connection has got, it had before, or
\* it is the one of this run.
LEMMA PartnerSteps ==
  ASSUME TypeIInv, Always, Orderly, [Next]_vars, ~reopened',
         NEW x \in live', Held(x)' \/ attached' = x
  PROVE  /\ x \in Sessions
         /\ \/ x \in live /\ (Held(x) \/ attached = x)
            \/ Starts(x)
            \/ x \in live /\ Early /\ InUse(x)
<1>1. x \in Sessions /\ (x \in live \/ Starts(x))
  BY LiveSteps
<1>2. CASE Held(x)'
  <2>1. CASE Receive /\ Head(toClient).kind = "READY" /\ Head(toClient).sid = x
    BY <1>1, <2>1, ReadyFirst DEF Always, LiveAttached
  <2>2. CASE Resume /\ ~Die /\ file.doc.sid = x
    BY <1>1, <2>2, ResumeEarly DEF InUse
  <2> QED BY <1>1, <1>2, <2>1, <2>2, HeldSteps
<1>3. CASE attached' = x
  <2>1. CASE Cut
    BY <1>1, <1>3, <2>1, NoIdNoSession DEF Cut
  <2>2. CASE Noted
    BY <1>1, <1>3, <2>2, NoIdNoSession DEF Noted
  <2>3. ASSUME NEW y \in Sessions, NEW a \in 0..MaxSeq, Grows(y, a)
        PROVE  (x \in live /\ attached = x) \/ Starts(x) \/ (x \in live /\ Early /\ InUse(x))
    <3>1. y = x
      BY <1>3, <2>3 DEF Grows, Extends
    <3>2. CASE Replays(x, a)
      <4>1. 1 \in DOMAIN toServer /\ ResumeAt(1) /\ toServer[1].sid = x
        BY <3>2 DEF Replays, ResumeAt
      <4> QED BY <3>2, <4>1 DEF Replays, Early, InUse
    <3> QED BY <2>3, <3>1, <3>2 DEF Grows
  <2>4. CASE Receive
    BY <1>1, <1>3, <2>4, Taken DEF gateway
  <2> QED BY <1>1, <2>1, <2>2, <2>3, <2>4, FrameSteps
<1> QED BY <1>1, <1>2, <1>3

LEMMA OneLiveKept ==
  TypeIInv /\ Always /\ Orderly /\ [Next]_vars /\ ~reopened' => OneLive'
<1> SUFFICES ASSUME TypeIInv, Always, Orderly, [Next]_vars, ~reopened',
                    NEW a \in live', Held(a)' \/ attached' = a,
                    NEW b \in live', Held(b)' \/ attached' = b
             PROVE  a = b
  BY DEF OneLive
<1> DEFINE Had(x) == x \in live /\ (Held(x) \/ attached = x)
           Used(x) == x \in live /\ Early /\ InUse(x)
<1>0. a \in Sessions /\ b \in Sessions /\ a /= NoId /\ b /= NoId
  BY PartnerSteps, NoIdNoSession
<1>1. (Had(a) \/ Starts(a) \/ Used(a)) /\ (Had(b) \/ Starts(b) \/ Used(b))
  BY PartnerSteps
<1>2. CASE Had(a) /\ Had(b)
  BY <1>2 DEF Orderly, OneLive
<1>3. CASE Starts(a) \/ Starts(b)
  <2>1. Starts(a) /\ Starts(b)
    BY <1>0, <1>1, <1>3, StartsLate
  <2> QED BY <2>1 DEF Starts, NewSession
<1>4. CASE (Used(a) /\ (Had(b) \/ Used(b))) \/ (Used(b) /\ Had(a))
  <2>1. Early /\ InUse(a) /\ InUse(b)
    BY <1>4 DEF Held, InUse
  <2> QED BY <1>0, <2>1 DEF Orderly, OneSession
<1> QED BY <1>1, <1>2, <1>3, <1>4

\* Where a numbered frame comes from.
LEMMA FrameOrigin ==
  ASSUME TypeIInv, [Next]_vars, NEW i \in DOMAIN toClient', toClient'[i].seq > 0
  PROVE  /\ Len(toClient) \in Nat /\ DOMAIN toClient = 1..Len(toClient) /\ i \in Nat
         /\ \/ i \in DOMAIN toClient /\ toClient'[i] = toClient[i]
            \/ i + 1 \in DOMAIN toClient /\ toClient'[i] = toClient[i + 1] /\ Receive
            \/ /\ i > Len(toClient) /\ toClient'[i].sid = attached' /\ attached' \in live'
               /\ \E x \in Sessions, a \in 0..MaxSeq : Grows(x, a) /\ attached' = x
<1>0. Len(toClient) \in Nat /\ DOMAIN toClient = 1..Len(toClient) /\ i \in Nat
  <2>1. toClient \in Seq(FrameToClient) /\ toClient' \in Seq(FrameToClient)
    BY TypeKept DEF TypeIInv, TypeOK
  <2> QED BY <2>1
<1>1. CASE Cut
  BY <1>1 DEF Cut
<1>2. CASE Noted
  BY <1>0, <1>2, LongerCases, NoNewEvents DEF Noted
<1>3. ASSUME NEW x \in Sessions, NEW a \in 0..MaxSeq, Grows(x, a)
      PROVE  \/ i \in DOMAIN toClient /\ toClient'[i] = toClient[i]
             \/ i > Len(toClient) /\ toClient'[i].sid = x /\ attached' = x /\ x \in live'
  <2>1. Extends(x, a) /\ attached' = x /\ x \in live'
    BY <1>3 DEF Grows, Extends
  <2>2. CASE i \in Len(toClient) + 1..Len(toClient')
    BY <1>0, <2>1, <2>2, NewFrames
  <2> QED BY <2>1, <2>2, LongerCases DEF Extends
<1>4. CASE Receive
  BY <1>4, Taken DEF Takes
<1> QED BY <1>0, <1>1, <1>2, <1>3, <1>4, FrameSteps

-----------------------------------------------------------------------------
(* A live session is attached or asked for, and sends all frames           *)

\* A resume that has begun goes on, or its frame is written.
LEMMA StaysResuming ==
  ASSUME TypeIInv, [Next]_vars, ~Die, Resuming
  PROVE  \/ Resuming' /\ doc'[Console] = doc[Console]
         \/ SendResume /\ ~Die
<1> USE BothThreads
<1>1. ASSUME NEW t \in Threads, EndAssign(t) \/ ReadSid(t) \/ ReadSeq(t) \/ OpenFile(t) \/ WriteFile(t)
      PROVE  Resuming' /\ doc'[Console] = doc[Console]
  <2>1. CASE t = Console
    BY <1>1, <2>1, EndAssignDoes, ReadSidDoes, ReadSeqDoes, OpenFileDoes, WriteFileDoes DEF Resuming, Moves
  <2>2. CASE t = Io
    BY <1>1, <2>2, EndAssignDoes, ReadSidDoes, ReadSeqDoes, OpenFileDoes, WriteFileDoes DEF Resuming, Moves
  <2> QED BY <2>1, <2>2
<1>2. CASE Receive
  BY <1>2, ReceiveDoes DEF Resuming
<1>3. CASE Handle
  BY <1>3, HandleDoes DEF Resuming, Moves
<1> QED BY <1>1, <1>2, <1>3, ProcessSteps, IdentifyDoes, ResumeDoes, QuitDoes, StopDoes
        DEF ProcessStill, Resuming, Moves

\* Frames for the gateway stay until they are answered.
LEMMA StaysToServer ==
  ASSUME TypeIInv, Unconnected, [Next]_vars, ~Die, conn' /= "closed", NEW i \in DOMAIN toServer
  PROVE  \/ i \in DOMAIN toServer' /\ toServer'[i] = toServer[i]
         \/ /\ toServer /= <<>> /\ Answered(Head(toServer))
            /\ \/ i = 1 /\ toServer[i] = Head(toServer)
               \/ i - 1 \in DOMAIN toServer' /\ toServer'[i - 1] = toServer[i]
<1>1. toServer \in Seq(FrameToServer) /\ toServer' \in Seq(FrameToServer)
  BY TypeKept DEF TypeIInv, TypeOK
<1>2. i \in 1..Len(toServer) /\ Len(toServer) \in Nat /\ DOMAIN toServer' = 1..Len(toServer') /\ toServer /= <<>>
  BY <1>1
<1>3. CASE toServer' = Tail(toServer) /\ Answered(Head(toServer))
  <2>1. CASE i = 1
    BY <1>1, <1>2, <1>3, <2>1
  <2>2. CASE i /= 1
    <3>1. PICK k \in 1..Len(toServer) - 1 : k = i - 1
      BY <1>2, <2>2
    <3>2. k \in DOMAIN toServer' /\ toServer'[k] = toServer[k + 1] /\ k + 1 = i
      BY <1>1, <1>2, <1>3, <3>1, HeadTailProperties
    <3> QED BY <1>2, <1>3, <3>1, <3>2
  <2> QED BY <2>1, <2>2
<1>4. ASSUME NEW f, Sends(f) PROVE i \in DOMAIN toServer' /\ toServer'[i] = toServer[i]
  <2>1. conn = "open"
    BY <1>2 DEF Unconnected
  <2> QED BY <1>2, <1>4, <2>1 DEF Sends
<1> QED BY <1>2, <1>3, <1>4, ServerSteps, IdentifyDoes, SendResumeDoes

LEMMA ConnSteps ==
  ASSUME [Next]_vars, conn = "closed"
  PROVE  conn' = "closed" \/ Die
<1>1. CASE UNCHANGED vars
  BY <1>1 DEF vars, connection
<1>2. CASE Open \/ Lose \/ Start \/ Exit
  BY <1>2 DEF Open, Lose, Start, Exit, connection
<1>3. CASE Server \/ Receive \/ Handle
  BY <1>3 DEF Server, ServerReceive, ServerForget, ServerEvent, Receive, Handle, connection
<1>4. CASE Command
  BY <1>4 DEF Command, Identify, Resume, SendResume, Quit, Stop, Crash, Disconnect, connection
<1>5. CASE \E t \in Threads : EndAssign(t) \/ Save(t)
  BY <1>5 DEF EndAssign, Save, ReadSid, ReadSeq, OpenFile, WriteFile, connection
<1> QED BY <1>1, <1>2, <1>3, <1>4, <1>5 DEF Next

\* A session that the process holds is not one that is being started.
LEMMA HeldNotStarted ==
  ASSUME TypeIInv, Always, Orderly, [Next]_vars, NEW s \in live', Held(s)'
  PROVE  s \in Sessions /\ s \in live /\ InUse(s)
<1>1. s \in Sessions /\ (s \in live \/ Starts(s))
  BY LiveSteps
<1> QED BY <1>1, ProcessInUse, StartsLate

LEMMA AskedKept ==
  TypeIInv /\ Always /\ Orderly /\ [Next]_vars /\ ~reopened' => Asked'
<1> SUFFICES ASSUME TypeIInv, Always, Orderly, [Next]_vars, ~reopened',
                    conn' /= "closed", NEW s \in live', Held(s)'
             PROVE  \/ attached' = s
                    \/ attached' = NoId /\ \/ \E i \in DOMAIN toServer' : ResumeAt(i)' /\ toServer'[i].sid = s
                                           \/ Resuming' /\ doc'[Console].sid = s
  BY DEF Asked
<1>0. /\ s \in Sessions /\ s \in live /\ InUse(s) /\ ~Die /\ s /= NoId /\ conn /= "closed"
  BY HeldNotStarted, HeldSteps, ConnSteps, NoIdNoSession
<1>1. ASSUME NEW i \in DOMAIN toServer, ResumeAt(i), toServer[i].sid = s
      PROVE  \/ attached' = s
             \/ \E j \in DOMAIN toServer' : ResumeAt(j)' /\ toServer'[j].sid = s
  <2>1. CASE i = 1 /\ toServer[i] = Head(toServer) /\ Answered(Head(toServer))
    <3>1. toServer[i].op = "RESUME" /\ Resumable(toServer[i])
      <4>1. Covered(s, toServer[i].seq) /\ toServer[i].seq \in Nat /\ sent[s] \in Nat
        BY <1>0, <1>1, Numbers DEF Orderly, SavedCovered
      <4>2. toServer[i].seq <= sent[s]
        BY <1>0, <4>1 DEF Covered, Orderly, Gapless
      <4> QED BY <1>0, <1>1, <4>2 DEF Resumable, ResumeAt
    <3> QED BY <1>1, <2>1, <3>1 DEF Answered, Extends
  <2> QED BY <1>0, <1>1, <2>1, StaysToServer DEF Always, ResumeAt
<1>2. attached = s => attached' = s
  <2> SUFFICES ASSUME attached = s PROVE attached' = s
    OBVIOUS
  <2> QED BY <1>0, FrameSteps, Taken DEF Noted, Grows, Extends, Starts, Replays, gateway
<1>3. attached = NoId /\ (Held(s) \/ Early) => attached' \in {NoId, s}
  <2> SUFFICES ASSUME attached = NoId, Held(s) \/ Early PROVE attached' \in {NoId, s}
    OBVIOUS
  <2>1. ASSUME NEW x \in Sessions, NEW a \in 0..MaxSeq, Grows(x, a) PROVE attached' = s
    <3>1. Replays(x, a)
      BY <1>0, <2>1, StartsLate, NoIdNoSession DEF Grows
    <3>2. 1 \in DOMAIN toServer /\ ResumeAt(1) /\ toServer[1].sid = x
      BY <3>1 DEF Replays, ResumeAt
    <3>3. Early /\ InUse(x)
      BY <3>2 DEF Early, InUse
    <3> QED BY <1>0, <2>1, <3>3 DEF Grows, Extends, Orderly, OneSession
  <2> QED BY <1>0, <2>1, FrameSteps, Taken DEF Noted, gateway
<1>4. CASE Held(s)
  <2>1. \/ attached = s
        \/ attached = NoId /\ \/ \E i \in DOMAIN toServer : ResumeAt(i) /\ toServer[i].sid = s
                              \/ Resuming /\ doc[Console].sid = s
    BY <1>0, <1>4 DEF Orderly, Asked
  <2>2. CASE attached = NoId /\ Resuming /\ doc[Console].sid = s
    <3>1. CASE Resuming' /\ doc'[Console] = doc[Console]
      BY <1>3, <1>4, <2>2, <3>1
    <3>2. CASE SendResume /\ ~Die
      <4>1. conn = "open" /\ Sends(Reopening(doc[Console]))
        BY <1>0, <3>2, SendResumeDoes DEF SendResume, Crash, TypeIInv, TypeOK
      <4>2. /\ Len(toServer') = Len(toServer) + 1 /\ toServer'[Len(toServer) + 1] = Reopening(doc[Console])
            /\ Len(toServer) \in Nat /\ DOMAIN toServer' = 1..Len(toServer')
        BY <4>1, TypeKept DEF Sends, TypeIInv, TypeOK
      <4>3. PICK j \in DOMAIN toServer' : toServer'[j] = Reopening(doc[Console])
        BY <4>2
      <4>4. ResumeAt(j)' /\ toServer'[j].sid = s
        BY <2>2, <4>3 DEF ResumeAt, Reopening
      <4> QED BY <1>3, <1>4, <2>2, <4>4
    <3> QED BY <1>0, <2>2, <3>1, <3>2, StaysResuming
  <2> QED BY <1>1, <1>2, <1>3, <1>4, <2>1, <2>2
<1>5. CASE Receive /\ Head(toClient).kind = "READY" /\ Head(toClient).sid = s
  BY <1>0, <1>2, <1>5, ReadyFirst DEF Always, LiveAttached
<1>6. CASE Resume /\ ~Die /\ file.doc.sid = s
  <2>1. Early
    BY <1>6, ResumeEarly
  <2>2. attached = NoId \/ attached = s
    <3>1. attached \in Sessions => InUse(attached)
      BY DEF InUse
    <3> QED BY <1>0, <2>1, <3>1 DEF Orderly, OneSession, TypeIInv, TypeOK
  <2>3. Resuming' /\ doc'[Console].sid = s
    BY <1>6, ResumeDoes DEF Resuming, Moves
  <2> QED BY <1>2, <1>3, <2>1, <2>2, <2>3
<1> QED BY <1>0, <1>4, <1>5, <1>6, HeldSteps

LEMMA LiveFramesKept ==
  TypeIInv /\ Always /\ Orderly /\ [Next]_vars /\ ~reopened' => LiveFrames'
<1> SUFFICES ASSUME TypeIInv, Always, Orderly, [Next]_vars, ~reopened' PROVE LiveFrames'
  OBVIOUS
<1>0. /\ OneLive' /\ LiveAttached'
      /\ \A i \in DOMAIN toClient' : toClient'[i].seq > 0 => toClient'[i].sid \in Sessions
      /\ \A i \in DOMAIN toClient : toClient[i].seq > 0 => toClient[i].sid \in Sessions /\ InUse(toClient[i].sid)
  <2>1. \A i \in DOMAIN toClient' : toClient'[i].seq > 0 => toClient'[i].sid \in Sessions
    BY TypeKept DEF TypeIInv, Numbered
  <2>2. \A i \in DOMAIN toClient : toClient[i].seq > 0 => toClient[i].sid \in Sessions /\ InUse(toClient[i].sid)
    BY DEF TypeIInv, Numbered, InUse
  <2> QED BY <2>1, <2>2, OneLiveKept, LiveAttachedKept DEF Always
<1>1. ASSUME NEW s \in live', Held(s)', NEW i \in DOMAIN toClient', toClient'[i].seq > 0
      PROVE  toClient'[i].sid = s
  <2>0. s \in Sessions /\ s \in live /\ InUse(s)
    BY <1>1, HeldNotStarted
  <2>1. CASE i > Len(toClient) /\ toClient'[i].sid = attached' /\ attached' \in live'
    BY <1>0, <1>1, <2>1 DEF OneLive, Held
  <2>2. ASSUME NEW k \in DOMAIN toClient, toClient'[i] = toClient[k], k = i \/ (k = i + 1 /\ Receive), i \in Nat
        PROVE  toClient'[i].sid = s
    <3>1. Event(k) /\ toClient[k].sid \in Sessions /\ InUse(toClient[k].sid)
      BY <1>0, <1>1, <2>2 DEF Event
    <3>2. CASE Held(s)
      BY <2>0, <2>2, <3>1, <3>2 DEF Orderly, LiveFrames
    <3>3. CASE Receive /\ Head(toClient).kind = "READY" /\ Head(toClient).sid = s
      <4>1. 1 \in DOMAIN toClient /\ Event(1) /\ toClient[1].sid = s
        BY <3>3, ReadyFirst DEF Always
      <4>2. k \in Nat /\ (k = 1 \/ 1 < k)
        BY <1>1, <2>2, FrameOrigin
      <4> QED BY <2>0, <2>2, <3>1, <4>1, <4>2 DEF Orderly, LiveFrames
    <3>4. CASE Resume /\ ~Die /\ file.doc.sid = s
      BY <2>0, <2>2, <3>1, <3>4, ResumeEarly DEF Orderly, OneSession
    <3> QED BY <1>1, <2>0, <3>2, <3>3, <3>4, HeldSteps
  <2> QED BY <1>1, <2>1, <2>2, FrameOrigin
<1>2. ASSUME NEW i \in DOMAIN toClient', NEW j \in DOMAIN toClient', i < j,
             toClient'[i].seq > 0, toClient'[j].seq > 0, toClient'[i].sid \in live'
      PROVE  toClient'[j].sid = toClient'[i].sid
  <2>0. attached' = toClient'[i].sid
    BY <1>0, <1>2 DEF LiveAttached, Event
  <2>1. CASE j > Len(toClient) /\ toClient'[j].sid = attached' /\ attached' \in live'
    BY <2>0, <2>1
  <2>2. ASSUME NEW l \in DOMAIN toClient, toClient'[j] = toClient[l], l \in {j, j + 1}
        PROVE  toClient'[j].sid = toClient'[i].sid
    <3>0. i \in Nat /\ j \in Nat /\ l \in Nat /\ l <= Len(toClient) /\ Len(toClient) \in Nat
      BY <1>2, <2>2, FrameOrigin
    <3>1. ~(i > Len(toClient))
      BY <1>2, <2>2, <3>0
    <3>2. PICK k \in DOMAIN toClient : toClient'[i] = toClient[k] /\ k \in {i, i + 1}
      BY <1>2, <3>1, FrameOrigin
    <3>3. k = l \/ k < l
      BY <1>2, <2>2, <3>0, <3>2
    <3>4. Event(k) /\ Event(l) /\ InUse(toClient[k].sid) /\ toClient[k].sid \in Sessions
      BY <1>0, <1>2, <2>2, <3>2 DEF Event
    <3>5. toClient[k].sid \in live
      BY <1>2, <3>2, <3>4, LiveSteps, StartsLate
    <3> QED BY <2>2, <3>2, <3>3, <3>4, <3>5 DEF Orderly, LiveFrames
  <2> QED BY <1>2, <2>1, <2>2, FrameOrigin
<1> QED BY <1>1, <1>2 DEF LiveFrames, Event, Held

-----------------------------------------------------------------------------
(* Sessions are announced                                                  *)

LEMMA KnownSteps ==
  ASSUME TypeIInv, DocsCleared, Orderly, [Next]_vars, ~reopened', NEW s \in Sessions, InUse(s), Known(s),
         ~(Receive /\ Head(toClient).kind = "READY")
  PROVE  Known(s)'
<1> USE BothThreads, NoIdNoSession
<1>1. CASE ProcessStill
  BY <1>1 DEF ProcessStill, Known, ReadyInHand
<1>2. CASE Die
  BY <1>2, DieDoes DEF Known, ReadyInHand
<1>3. CASE Receive
  <2>1. pc[Io] = "idle" /\ doc[Io] = NoDoc /\ ~ReadyInHand
    BY <1>3, ReceiveDoes DEF DocsCleared, ReadyInHand
  <2> QED BY <1>3, <2>1, ReceiveDoes DEF Known
<1>4. CASE Identify /\ ~Die
  BY <1>4, IdentifyDoes DEF Known, ReadyInHand
<1>5. CASE Resume /\ ~Die
  <2>1. file.doc.sid \in Sessions => file.doc.sid = s
    <3>1. file.doc.sid \in Sessions => InUse(file.doc.sid)
      BY DEF InUse
    <3> QED BY <1>5, <3>1, ResumeEarly DEF Orderly, OneSession
  <2> QED BY <1>5, <2>1, ResumeDoes DEF Known, ReadyInHand, Moves, Wire
<1>6. CASE SendResume /\ ~Die
  BY <1>6, SendResumeDoes DEF Known, ReadyInHand, Moves, Wire
<1>7. CASE Quit
  BY <1>7, QuitDoes DEF Known, ReadyInHand, Moves, Wire
<1>8. CASE Stop
  BY <1>8, StopDoes DEF Known, ReadyInHand, Moves, Wire
<1>9. ASSUME NEW t \in Threads, EndAssign(t) PROVE Known(s)'
  BY <1>9, EndAssignDoes DEF Known, ReadyInHand, Moves, Wire
<1>10. ASSUME NEW t \in Threads, ReadSid(t) PROVE Known(s)'
  BY <1>10, ReadSidDoes DEF Known, ReadyInHand, Moves, Wire
<1>11. ASSUME NEW t \in Threads, ReadSeq(t) PROVE Known(s)'
  BY <1>11, ReadSeqDoes DEF Known, ReadyInHand, Moves, Wire
<1>12. ASSUME NEW t \in Threads, OpenFile(t) PROVE Known(s)'
  BY <1>12, OpenFileDoes DEF Known, ReadyInHand, Moves, Wire
<1>13. ASSUME NEW t \in Threads, WriteFile(t) PROVE Known(s)'
  BY <1>13, WriteFileDoes DEF Known, ReadyInHand, Moves, Wire
<1>14. CASE Handle
  BY <1>14, HandleDoes DEF Known, ReadyInHand, Moves
<1> QED BY <1>1, <1>2, <1>3, <1>4, <1>5, <1>6, <1>7, <1>8, <1>9, <1>10, <1>11, <1>12, <1>13, <1>14, ProcessSteps

LEMMA ReadyKnown ==
  ASSUME TypeIInv, Kinds, Orderly, Receive, Head(toClient).kind = "READY"
  PROVE  \E h \in Sessions : h = Head(toClient).sid /\ Known(h)'
<1>1. PICK h \in Sessions : h = Head(toClient).sid
  BY ReadyFirst
<1>2. /\ Head(toClient).seq > 0 /\ pc'[Io] = "handle" /\ hand'.kind = "READY" /\ doc'[Io].sid = h
      /\ pc'[Console] = pc[Console] /\ doc'[Console] = doc[Console]
  <2>1. Head(toClient).seq > 0
    BY ReadyFirst
  <2> QED BY <1>1, <2>1, ReceiveDoes, BothThreads
<1>3. ASSUME pc[Console] = "assign", doc[Console].sid \in Sessions PROVE doc[Console].sid = h
  <2>1. Early
    BY <1>3 DEF Early, Resuming, Orderly, ResumesFirst
  <2>2. InUse(h) /\ InUse(doc[Console].sid)
    BY <1>1, HeadInUse, BothThreads DEF InUse
  <2> QED BY <1>3, <2>1, <2>2 DEF Orderly, OneSession
<1>4. Known(h)'
  BY <1>2, <1>3, BothThreads DEF Known, ReadyInHand
<1> QED BY <1>1, <1>4

\* Frames of w, or without a number, do not take from what w was told.
LEMMA ToldGrows ==
  ASSUME TypeIInv, Always, Orderly, [Next]_vars, ~reopened', ~Receive, Longer,
         NEW w \in Sessions, InUse(w), NEW m \in 0..Len(toClient), Told(w, m), NEW q \in m..Len(toClient'),
         \A i \in m + 1..q : toClient'[i].seq > 0 => toClient'[i].sid = w
  PROVE  Told(w, q)'
<1>0. /\ Len(toClient) \in Nat /\ m \in Nat /\ q \in Nat /\ m <= q
      /\ \A i \in 1..m : i \in DOMAIN toClient /\ toClient'[i] = toClient[i]
  BY LongerCases
<1>1. Known(w) => Known(w)'
  BY KnownSteps DEF Always
<1>2. \A j \in 1..m : ReadyAt(j, w) => ReadyAt(j, w)'
  BY <1>0 DEF ReadyAt
<1>3. ASSUME NEW i \in 1..q, toClient'[i].seq > 0, toClient'[i].sid /= w
      PROVE  \E j \in i + 1..q : ReadyAt(j, w)'
  <2>1. i \in 1..m /\ toClient[i] = toClient'[i]
    BY <1>0, <1>3
  <2>2. Event(i) /\ toClient[i].sid /= w
    BY <1>0, <1>3, <2>1 DEF Event
  <2>3. PICK j \in i + 1..m : ReadyAt(j, w)
    BY <2>1, <2>2 DEF Told
  <2>4. j \in 1..m /\ j \in i + 1..q
    BY <1>0, <2>1, <2>3
  <2> QED BY <1>2, <2>3, <2>4
<1>4. Known(w)' \/ \E j \in 1..q : ReadyAt(j, w)'
  BY <1>0, <1>1, <1>2 DEF Told
<1> QED BY <1>3, <1>4 DEF Told, Event

LEMMA AnnouncedKept ==
  TypeIInv /\ Always /\ Orderly /\ [Next]_vars /\ ~reopened' => Announced'
<1> SUFFICES ASSUME TypeIInv, Always, Orderly, [Next]_vars, ~reopened' PROVE Announced'
  OBVIOUS
<1>0. /\ Len(toClient) \in Nat /\ DOMAIN toClient = 1..Len(toClient)
      /\ Len(toClient') \in Nat /\ DOMAIN toClient' = 1..Len(toClient')
  BY TypeKept DEF TypeIInv, TypeOK
<1>1. ASSUME NEW k \in DOMAIN toClient, toClient[k].seq > 0
      PROVE  toClient[k].sid \in Sessions /\ InUse(toClient[k].sid) /\ Told(toClient[k].sid, k)
  BY <1>1 DEF TypeIInv, Numbered, InUse, Event, Orderly, Announced
<1>2. ASSUME attached /= NoId
      PROVE  attached \in Sessions /\ InUse(attached) /\ Told(attached, Len(toClient))
  BY <1>2 DEF TypeIInv, TypeOK, InUse, Orderly, Announced
<1>3. ASSUME Longer, ~Receive, NEW k \in DOMAIN toClient, toClient'[k].seq > 0
      PROVE  \E w : w = toClient'[k].sid /\ Told(w, k)'
  <2>1. toClient'[k] = toClient[k] /\ k \in 0..Len(toClient) /\ k \in k..Len(toClient') /\ k + 1..k = {}
    BY <1>0, <1>3, LongerCases
  <2>2. PICK w \in Sessions : w = toClient[k].sid /\ InUse(w) /\ Told(w, k)
    BY <1>1, <1>3, <2>1
  <2>3. Told(w, k)'
    BY <1>3, <2>1, <2>2, ToldGrows
  <2> QED BY <2>1, <2>2, <2>3
<1>4. CASE Cut
  BY <1>4 DEF Cut, Announced
<1>5. CASE Noted /\ ~Receive
  <2>1. ASSUME NEW k \in DOMAIN toClient', toClient'[k].seq > 0 PROVE \E w : w = toClient'[k].sid /\ Told(w, k)'
    BY <1>3, <1>5, <2>1, LongerCases, NoNewEvents DEF Noted
  <2>2. ASSUME attached' /= NoId PROVE \E w, q : w = attached' /\ q = Len(toClient') /\ Told(w, q)'
    <3>1. attached' = attached
      BY <1>5, <2>2 DEF Noted
    <3>2. PICK w \in Sessions : w = attached /\ InUse(w) /\ Told(w, Len(toClient))
      BY <1>2, <2>2, <3>1
    <3>3. Len(toClient) \in 0..Len(toClient) /\ Len(toClient') \in Len(toClient)..Len(toClient')
      BY <1>0, <1>5, LongerCases DEF Noted
    <3>4. \A i \in Len(toClient) + 1..Len(toClient') : ~(toClient'[i].seq > 0)
      BY <1>5, NoNewEvents
    <3>5. PICK m, q : m = Len(toClient) /\ q = Len(toClient')
      OBVIOUS
    <3>6. Told(w, q)'
      BY <1>5, <3>2, <3>3, <3>4, <3>5, ToldGrows DEF Noted
    <3> QED BY <3>1, <3>2, <3>5, <3>6
  <2> QED BY <2>1, <2>2 DEF Announced, Event, Told, Known, ReadyAt
<1>6. ASSUME NEW s \in Sessions, NEW a \in 0..MaxSeq, Grows(s, a), ~Receive PROVE Announced'
  <2>0. Extends(s, a) /\ Longer /\ attached' = s
    BY <1>6 DEF Grows, Extends
  <2>1. /\ Len(toClient') >= Len(toClient)
        /\ \A i \in DOMAIN toClient' : i \in DOMAIN toClient \/ i \in Len(toClient) + 1..Len(toClient')
        /\ \A i \in Len(toClient) + 1..Len(toClient') : toClient'[i].seq > 0 => toClient'[i].sid = s
    BY <2>0, LongerCases, NewFrames
  <2>5. ASSUME Starts(s) PROVE a = 0 /\ sent'[s] = 1 /\ Len(toClient') >= Len(toClient) + 1
    <3>1. sent'[s] = 1
      BY <2>5 DEF Starts, NewSession, TypeIInv, TypeOK
    <3>2. attached /= s
      BY <2>5, NoIdNoSession DEF Starts
    <3>3. ~Replays(s, a)
      BY <2>5 DEF Starts, Replays, ResumeAt
    <3>4. a = 0
      BY <1>6, <3>2, <3>3 DEF Grows
    <3> QED BY <1>0, <2>0, <3>1, <3>4 DEF Extends
  <2>2. ASSUME NEW q \in Len(toClient)..Len(toClient'), Starts(s) => q > Len(toClient) PROVE Told(s, q)'
    <3>1. CASE Starts(s)
      <4>0. a = 0 /\ sent'[s] = 1
        BY <2>5, <3>1
      <4>1. PICK j \in Len(toClient) + 1..Len(toClient') : j = Len(toClient) + 1
        BY <1>0, <2>5, <3>1
      <4>2. j - Len(toClient) = 1 /\ j \in 1..q
        BY <1>0, <2>2, <3>1, <4>1
      <4>3. toClient'[j].sid = s /\ toClient'[j].kind = "READY"
        BY <2>0, <4>0, <4>1, <4>2, NewFrames
      <4>4. ReadyAt(j, s)'
        BY <4>3 DEF ReadyAt
      <4>5. ASSUME NEW i \in 1..q, toClient'[i].seq > 0, toClient'[i].sid /= s
            PROVE  j \in i + 1..q
        <5>1. i \in DOMAIN toClient'
          BY <1>0, <2>2, <4>2
        <5>2. i \in DOMAIN toClient
          BY <2>1, <4>5, <5>1
        <5> QED BY <1>0, <2>2, <3>1, <4>1, <5>2
      <4> QED BY <4>2, <4>4, <4>5 DEF Told, Event
    <3>2. CASE Replays(s, a) \/ attached = s
      <4>1. InUse(s) /\ Told(s, Len(toClient))
        <5>1. CASE attached = s
          BY <1>2, <5>1, NoIdNoSession
        <5>2. CASE Replays(s, a)
          <6>1. 1 \in DOMAIN toServer /\ ResumeAt(1) /\ toServer[1].sid = s
            BY <5>2 DEF Replays, ResumeAt
          <6>2. Early /\ InUse(s)
            BY <6>1 DEF Early, InUse
          <6>3. \A x \in Sessions : InUse(x) => x = s
            BY <6>2 DEF Orderly, OneSession
          <6>4. Known(s)
            BY <6>3, BothThreads DEF Known, InUse
          <6>5. \A i \in DOMAIN toClient : Event(i) => toClient[i].sid = s
            BY <1>1, <6>3 DEF Event
          <6> QED BY <1>0, <6>2, <6>4, <6>5 DEF Told
        <5> QED BY <3>2, <5>1, <5>2
      <4>6. Len(toClient) \in 0..Len(toClient)
        BY <1>0
      <4>2. PICK m \in 0..Len(toClient) : m = Len(toClient)
        BY <4>6
      <4>3. q \in m..Len(toClient') /\ \A i \in m + 1..q : i \in Len(toClient) + 1..Len(toClient')
        BY <1>0, <2>2, <4>2
      <4>5. \A i \in m + 1..q : toClient'[i].seq > 0 => toClient'[i].sid = s
        BY <2>1, <4>3
      <4>4. Told(s, m)
        BY <4>1, <4>2
      <4> QED BY <1>6, <2>0, <4>1, <4>3, <4>4, <4>5, ToldGrows
    <3> QED BY <1>6, <3>1, <3>2 DEF Grows
  <2>3. ASSUME NEW k \in DOMAIN toClient', toClient'[k].seq > 0 PROVE \E w : w = toClient'[k].sid /\ Told(w, k)'
    <3>1. CASE k \in DOMAIN toClient
      BY <1>3, <1>6, <2>0, <2>3, <3>1
    <3>2. CASE k \in Len(toClient) + 1..Len(toClient')
      <4>1. k \in Len(toClient)..Len(toClient') /\ k > Len(toClient) /\ toClient'[k].sid = s
        BY <1>0, <2>1, <2>3, <3>2
      <4>2. Told(s, k)'
        BY <2>2, <4>1
      <4> QED BY <4>1, <4>2
    <3> QED BY <2>1, <2>3, <3>1, <3>2
  <2>4. \E w, q : w = attached' /\ q = Len(toClient') /\ Told(w, q)'
    <3>4. Len(toClient') \in Len(toClient)..Len(toClient')
      BY <1>0, <2>1
    <3>1. PICK q \in Len(toClient)..Len(toClient') : q = Len(toClient')
      BY <3>4
    <3>2. Starts(s) => q > Len(toClient)
      BY <1>0, <2>5, <3>1
    <3>3. Told(s, q)'
      BY <2>2, <3>2
    <3> QED BY <2>0, <3>1, <3>3
  <2> QED BY <2>3, <2>4 DEF Announced, Event, Told, Known, ReadyAt
<1>7. CASE Receive
  <2>1. PICK h \in FrameToClient : h = Head(toClient) /\ Takes(h)
    BY <1>7, Taken DEF Takes
  <2>2. /\ 1 \in DOMAIN toClient /\ toClient[1] = h /\ Len(toClient') = Len(toClient) - 1
        /\ \A i \in DOMAIN toClient' : i + 1 \in DOMAIN toClient /\ toClient'[i] = toClient[i + 1]
    BY <1>0, <2>1 DEF Takes
  <2>3. ASSUME NEW w \in Sessions, InUse(w), NEW k \in DOMAIN toClient, Told(w, k), NEW m, m = k - 1
        PROVE  Told(w, m)'
    <3>0. m \in Nat /\ m + 1 = k /\ \A i \in 1..m : i \in DOMAIN toClient' /\ i + 1 \in 2..k
      BY <1>0, <2>2, <2>3
    <3>1. ASSUME NEW j \in 2..k, ReadyAt(j, w)
          PROVE  \E l \in 1..m : l = j - 1 /\ ReadyAt(l, w)'
      <4>1. PICK l \in 1..m : l = j - 1 /\ l + 1 = j
        BY <1>0, <3>0, <3>1
      <4>2. toClient'[l] = toClient[j]
        BY <2>2, <3>0, <4>1
      <4> QED BY <3>1, <4>1, <4>2 DEF ReadyAt
    <3>2. Known(w)' \/ \E j \in 1..m : ReadyAt(j, w)'
      <4>1. CASE h.kind = "READY"
        <5>1. PICK x \in Sessions : x = h.sid /\ Known(x)'
          BY <1>7, <2>1, <4>1, ReadyKnown DEF Always
        <5>2. CASE x /= w
          <6>1. Event(1) /\ toClient[1].sid /= w /\ 1 \in 1..k
            BY <1>0, <1>7, <2>1, <2>2, <2>3, <4>1, <5>1, <5>2, ReadyFirst DEF Always
          <6>2. PICK j \in 1 + 1..k : ReadyAt(j, w)
            BY <2>3, <6>1 DEF Told
          <6> QED BY <3>1, <6>2
        <5> QED BY <5>1, <5>2
      <4>2. CASE h.kind /= "READY"
        <5>1. Known(w) => Known(w)'
          BY <2>1, <2>3, <4>2, KnownSteps DEF Always
        <5>2. ASSUME NEW j \in 1..k, ReadyAt(j, w) PROVE \E l \in 1..m : ReadyAt(l, w)'
          <6>1. j /= 1
            BY <2>2, <4>2, <5>2 DEF ReadyAt
          <6>2. j \in 2..k
            BY <1>0, <2>3, <6>1
          <6> QED BY <3>1, <5>2, <6>2
        <5> QED BY <2>3, <5>1, <5>2 DEF Told
      <4> QED BY <4>1, <4>2
    <3>3. ASSUME NEW i \in 1..m, toClient'[i].seq > 0, toClient'[i].sid /= w
          PROVE  \E j \in i + 1..m : ReadyAt(j, w)'
      <4>1. PICK n \in 1..k : n = i + 1 /\ n \in DOMAIN toClient /\ toClient[n] = toClient'[i]
        BY <1>0, <2>2, <3>0
      <4>2. PICK j \in n + 1..k : ReadyAt(j, w)
        BY <2>3, <3>3, <4>1 DEF Told, Event
      <4>3. j \in 2..k
        BY <1>0, <3>0, <4>1, <4>2
      <4>4. PICK l \in 1..m : l = j - 1 /\ ReadyAt(l, w)'
        BY <3>1, <4>2, <4>3
      <4>5. l \in i + 1..m
        BY <1>0, <3>0, <4>1, <4>2, <4>4
      <4> QED BY <4>4, <4>5
    <3> QED BY <3>2, <3>3 DEF Told, Event
  <2>4. ASSUME NEW i \in DOMAIN toClient', toClient'[i].seq > 0 PROVE \E w : w = toClient'[i].sid /\ Told(w, i)'
    <3>1. PICK k \in DOMAIN toClient : k = i + 1 /\ i = k - 1 /\ toClient[k] = toClient'[i]
      BY <1>0, <2>2
    <3>2. PICK w \in Sessions : w = toClient[k].sid /\ InUse(w) /\ Told(w, k)
      BY <1>1, <2>4, <3>1
    <3>3. Told(w, i)'
      BY <2>3, <3>1, <3>2
    <3> QED BY <3>1, <3>2, <3>3
  <2>5. ASSUME attached' /= NoId PROVE \E w, q : w = attached' /\ q = Len(toClient') /\ Told(w, q)'
    <3>1. attached' = attached
      BY <1>7, Taken DEF gateway
    <3>2. PICK w \in Sessions, k \in DOMAIN toClient :
            w = attached /\ InUse(w) /\ k = Len(toClient) /\ Told(w, k)
      BY <1>0, <1>2, <2>2, <2>5, <3>1
    <3>3. PICK q : q = Len(toClient')
      OBVIOUS
    <3>4. q = k - 1
      BY <2>2, <3>2, <3>3
    <3>5. Told(w, q)'
      BY <2>3, <3>2, <3>4
    <3> QED BY <3>1, <3>2, <3>3, <3>5
  <2> QED BY <2>4, <2>5 DEF Announced, Event, Told, Known, ReadyAt
<1> QED BY <1>4, <1>5, <1>6, <1>7, FrameSteps

-----------------------------------------------------------------------------
(* What is saved was covered                                               *)

\* Where the document of a thread comes from.
LEMMA DocSteps ==
  ASSUME TypeIInv, DocsCleared, [Next]_vars, NEW t \in Threads
  PROVE  \/ doc'[t] = doc[t]
         \/ doc'[t].seq = 0
         \/ Resume /\ ~Die /\ file.kind = "json" /\ doc'[t] = file.doc
         \/ doc'[t].sid = doc[t].sid /\ doc'[t].seq = sequenceNumber
<1> USE BothThreads, NoIdNoSession
<1>1. CASE ProcessStill
  BY <1>1 DEF ProcessStill
<1>2. CASE Die
  BY <1>2, DieDoes
<1>3. CASE Receive
  <2>1. pc[Io] = "idle" /\ doc[Io] = NoDoc
    BY <1>3, ReceiveDoes DEF DocsCleared
  <2> QED BY <1>3, <2>1, ReceiveDoes DEF Moves
<1>4. CASE Identify /\ ~Die
  BY <1>4, IdentifyDoes
<1>5. CASE Resume /\ ~Die
  BY <1>5, ResumeDoes DEF Moves
<1>6. CASE SendResume /\ ~Die
  BY <1>6, SendResumeDoes DEF Moves
<1>7. CASE Quit \/ Stop
  BY <1>7, QuitDoes, StopDoes
<1>8. ASSUME NEW u \in Threads, EndAssign(u) PROVE doc'[t] = doc[t] \/ doc'[t].seq = 0
  BY <1>8, EndAssignDoes DEF Moves
<1>9. ASSUME NEW u \in Threads, ReadSid(u) PROVE doc'[t] = doc[t] \/ doc'[t].seq = 0
  BY <1>9, ReadSidDoes DEF Moves, DocsCleared
<1>10. ASSUME NEW u \in Threads, ReadSeq(u)
       PROVE  doc'[t] = doc[t] \/ (doc'[t].sid = doc[t].sid /\ doc'[t].seq = sequenceNumber)
  BY <1>10, ReadSeqDoes DEF Moves
<1>11. ASSUME NEW u \in Threads, OpenFile(u) PROVE doc'[t] = doc[t]
  BY <1>11, OpenFileDoes
<1>12. ASSUME NEW u \in Threads, WriteFile(u) PROVE doc'[t] = doc[t] \/ doc'[t].seq = 0
  BY <1>12, WriteFileDoes DEF Moves
<1>13. CASE Handle
  BY <1>13, HandleDoes
<1> QED BY <1>1, <1>2, <1>3, <1>4, <1>5, <1>6, <1>7, <1>8, <1>9, <1>10, <1>11, <1>12, <1>13, ProcessSteps

\* A session that the file names is not one that is being started.
LEMMA SavedNotStarted ==
  ASSUME TypeIInv, Always, Orderly, [Next]_vars, NEW s \in live', file'.doc.sid = s
  PROVE  s \in Sessions /\ s \in live /\ InUse(s)
<1>1. s \in Sessions /\ (s \in live \/ Starts(s))
  BY LiveSteps
<1> QED BY <1>1, ProcessInUse, StartsLate

LEMMA SavedCoveredKept ==
  TypeIInv /\ Always /\ Orderly /\ [Next]_vars => SavedCovered'
<1> SUFFICES ASSUME TypeIInv, Always, Orderly, [Next]_vars PROVE SavedCovered'
  OBVIOUS
<1>a. CASE Die
  <2>1. ASSUME file.kind = "json", NEW s \in live, file.doc.sid = s
        PROVE  file.doc.seq = 0 \/ file.doc.seq \in covered'[s]
    <3>1. s \in Sessions /\ Covered(s, file.doc.seq)
      BY <2>1 DEF TypeIInv, TypeOK, Orderly, SavedCovered
    <3>2. ASSUME file.doc.seq \in InHand(s) PROVE file.doc.seq \in settled[s] \cup Lost(s)
      <4>1. file.doc.seq \in Nat /\ ~(file.doc.seq < file.doc.seq) /\ file.doc.seq >= file.doc.seq
        BY Numbers
      <4>2. file.doc.seq \in settled[s] \/ pc[Console] \in {"stop", "stopped"}
        BY <2>1, <3>2, <4>1 DEF Orderly, Unsaved
      <4> QED BY <2>1, <3>2, <4>1, <4>2 DEF Lost, SavedByQuit
    <3> QED BY <1>a, <3>1, <3>2, CoveredIs, DieCovers DEF Covered
  <2>2. /\ file' = file /\ live' = live /\ DOMAIN toServer' = {}
        /\ \A t \in Threads : doc'[t] = NoDoc
    BY <1>a, DieDoes
  <2>3. NoId \notin live
    BY NoIdNoSession DEF TypeIInv, TypeOK
  <2> QED BY <2>1, <2>2, <2>3, NoIdNoSession DEF SavedCovered, Covered, ResumeAt
<1> SUFFICES ASSUME ~Die PROVE SavedCovered'
  BY <1>a
<1>0. \A s \in Sessions : Covered(s, 0)
  BY DEF Covered
<1>1. ASSUME file'.kind = "json", file'.doc.sid \in live'
      PROVE  \E s, n : s \in Sessions /\ s = file'.doc.sid /\ n = file'.doc.seq /\ Covered(s, n)
  <2>1. file'.doc.sid \in Sessions /\ file'.doc.sid \in live
    BY <1>1, SavedNotStarted
  <2> QED BY <1>1, <2>1, FileSteps DEF Always, Orderly, SavedCovered
<1>2. ASSUME NEW t \in Threads, doc'[t].sid \in live'
      PROVE  \E s, n : s \in Sessions /\ s = doc'[t].sid /\ n = doc'[t].seq /\ Covered(s, n)
  <2>1. doc'[t].sid \in Sessions /\ doc'[t].sid \in live
    BY <1>2, HeldNotStarted DEF Held
  <2>2. doc[t].sid \in live => Covered(doc[t].sid, sequenceNumber)
    BY DEF Held, Orderly, NumberCovered
  <2> QED BY <1>0, <2>1, <2>2, DocSteps DEF Always, Orderly, SavedCovered
<1>3. ASSUME NEW i \in DOMAIN toServer', toServer'[i].op = "RESUME", toServer'[i].sid \in live'
      PROVE  \E s, n : s \in Sessions /\ s = toServer'[i].sid /\ n = toServer'[i].seq /\ Covered(s, n)
  <2>0. toServer'[i].sid \in Sessions /\ (toServer'[i].sid \in live \/ Starts(toServer'[i].sid))
    BY <1>3, LiveSteps
  <2>1. ASSUME NEW k \in DOMAIN toServer, toServer'[i] = toServer[k]
        PROVE  \E s, n : s \in Sessions /\ s = toServer'[i].sid /\ n = toServer'[i].seq /\ Covered(s, n)
    <3>1. InUse(toServer[k].sid)
      BY DEF InUse
    <3>2. toServer[k].sid \in live /\ ResumeAt(k)
      BY <1>3, <2>0, <2>1, <3>1, StartsLate DEF ResumeAt
    <3> QED BY <2>0, <2>1, <3>2 DEF Orderly, SavedCovered
  <2>2. CASE toServer'[i] = Reopening(doc[Console])
    <3>1. InUse(doc[Console].sid)
      BY BothThreads DEF InUse
    <3>2. doc[Console].sid \in live /\ toServer'[i].sid = doc[Console].sid /\ toServer'[i].seq = doc[Console].seq
      BY <2>0, <2>2, <3>1, StartsLate DEF Reopening
    <3> QED BY <2>0, <3>2, BothThreads DEF Orderly, SavedCovered
  <2>3. toServer'[i] /= Opening
    BY <1>3 DEF Opening
  <2> QED BY <2>1, <2>2, <2>3, ServerFrames
<1>4. ASSUME NEW s \in Sessions, NEW n, Covered(s, n) PROVE n = 0 \/ n \in covered'[s]
  BY <1>4, CoveredStays DEF Covered
<1>5. file'.kind = "json" /\ file'.doc.sid \in live' => file'.doc.seq = 0 \/ file'.doc.seq \in covered'[file'.doc.sid]
  BY <1>1, <1>4
<1>6. \A t \in Threads : doc'[t].sid \in live' => doc'[t].seq = 0 \/ doc'[t].seq \in covered'[doc'[t].sid]
  BY <1>2, <1>4
<1>7. \A i \in DOMAIN toServer' : toServer'[i].op = "RESUME" /\ toServer'[i].sid \in live' =>
        toServer'[i].seq = 0 \/ toServer'[i].seq \in covered'[toServer'[i].sid]
  BY <1>3, <1>4
<1> QED BY <1>5, <1>6, <1>7 DEF SavedCovered, Covered, ResumeAt

\* A number that is taken is one of the session s.
LEMMA TakenCovered ==
  ASSUME TypeIInv, Receive, NEW s \in Sessions, Covered(s, sequenceNumber),
         Head(toClient).seq > 0 => Head(toClient).sid = s
  PROVE  sequenceNumber' = 0 \/ sequenceNumber' \in covered'[s]
<1> DEFINE f == Head(toClient)
<1>1. /\ sequenceNumber \in Nat /\ f.seq \in Nat
      /\ sequenceNumber' = IF f.seq > sequenceNumber THEN f.seq ELSE sequenceNumber
  <2>1. Takes(f)
    BY Taken
  <2>2. f.seq \in Nat
    BY <2>1, SessionAssumption DEF Takes
  <2> QED BY <2>2, ReceiveDoes
<1>2. \A n \in Nat : n \in covered'[s] <=> n \in covered[s] \/ (n > 0 /\ s = f.sid /\ n = f.seq)
  BY Taken
<1> HIDE DEF f
<1>3. f.seq > 0 => f.sid = s
  BY DEF f
<1> QED BY <1>1, <1>2, <1>3 DEF Covered

LEMMA NumberCoveredKept ==
  TypeIInv /\ Always /\ Orderly /\ [Next]_vars /\ ~reopened' => NumberCovered'
<1> SUFFICES ASSUME TypeIInv, Always, Orderly, [Next]_vars, ~reopened' PROVE NumberCovered'
  OBVIOUS
<1>0. Head(toClient).seq > 0 /\ Receive =>
        /\ 1 \in DOMAIN toClient /\ toClient[1] = Head(toClient) /\ Event(1)
        /\ Head(toClient).sid \in Sessions /\ InUse(Head(toClient).sid)
  BY Taken, HeadInUse DEF Takes, Event, TypeIInv, TypeOK
<1>1. ASSUME NEW s \in Sessions, Covered(s, sequenceNumber), ~Die,
             Receive /\ Head(toClient).seq > 0 => Head(toClient).sid = s
      PROVE  sequenceNumber' = 0 \/ sequenceNumber' \in covered'[s]
  <2>1. CASE sequenceNumber' = sequenceNumber
    <3>1. PICK n : n = sequenceNumber /\ Covered(s, n)
      BY <1>1
    <3>2. Covered(s, n)'
      BY <1>1, <3>1, CoveredStays
    <3> QED BY <2>1, <3>1, <3>2 DEF Covered
  <2>2. CASE Receive
    BY <1>1, <2>2, TakenCovered
  <2> QED BY <1>1, <2>1, <2>2, NumberSteps
<1>2. ASSUME NEW s \in live', Held(s)' PROVE sequenceNumber' = 0 \/ sequenceNumber' \in covered'[s]
  <2>0. s \in Sessions /\ s \in live /\ InUse(s) /\ ~Die
    BY <1>2, HeldNotStarted, HeldSteps
  <2>1. CASE Held(s)
    BY <1>0, <1>1, <2>0, <2>1 DEF Orderly, NumberCovered, LiveFrames
  <2>2. CASE Receive /\ Head(toClient).kind = "READY" /\ Head(toClient).sid = s
    <3>3. reopened' = (reopened \/ (Head(toClient).kind = "READY" /\ sequenceNumber > 0))
      BY <2>2, ReceiveDoes
    <3>4. ~(sequenceNumber > 0)
      BY <2>2, <3>3
    <3>1. sequenceNumber = 0
      BY <3>4, Numbers
    <3>2. Covered(s, sequenceNumber)
      BY <3>1 DEF Covered
    <3> QED BY <1>1, <2>0, <2>2, <3>2
  <2>3. CASE Resume /\ ~Die /\ file.doc.sid = s
    <3>1. Covered(s, sequenceNumber)
      BY <2>0, <2>3, ResumeDoes DEF Orderly, NumberCovered
    <3>2. sequenceNumber' = sequenceNumber
      BY <2>3, ResumeDoes
    <3>3. PICK n : n = sequenceNumber /\ Covered(s, n)
      BY <3>1
    <3>4. Covered(s, n)'
      BY <2>0, <3>3, CoveredStays
    <3> QED BY <3>2, <3>3, <3>4 DEF Covered
  <2> QED BY <1>2, <2>0, <2>1, <2>2, <2>3, HeldSteps
<1>3. ASSUME ~identified', file'.doc.sid \in live'
      PROVE  sequenceNumber' = 0 \/ sequenceNumber' \in covered'[file'.doc.sid]
  <2>1. CASE Die
    BY <2>1, DieDoes, NoIdNoSession
  <2>2. CASE ~Die
    <3>1. PICK y \in Sessions : y = file'.doc.sid /\ y \in live /\ InUse(y)
      BY <1>3, SavedNotStarted
    <3>2. ~identified
      BY <1>3, <2>2, IdentifiedSteps
    <3>3. Covered(y, sequenceNumber)
      BY <3>1, <3>2, FileSteps DEF Always, Orderly, NumberCovered, Held
    <3>4. Receive /\ Head(toClient).seq > 0 => Head(toClient).sid = y
      BY <1>0, <3>1, <3>2 DEF Early, Orderly, OneSession
    <3> QED BY <1>1, <2>2, <3>1, <3>3, <3>4
  <2> QED BY <2>1, <2>2
<1> QED BY <1>2, <1>3 DEF NumberCovered, Covered, Held

-----------------------------------------------------------------------------
(* Only quit saves a number before its handler has returned                *)

LEMMA UnsavedKept ==
  TypeIInv /\ Always /\ Orderly /\ [Next]_vars => Unsaved'
<1> SUFFICES ASSUME TypeIInv, Always, Orderly, [Next]_vars,
                    NEW s \in live', NEW n \in InHand(s)',
                    file'.kind = "json", file'.doc.sid = s, pc'[Console] \notin {"stop", "stopped"}
             PROVE  file'.doc.seq < n \/ n \in settled'[s]
  BY DEF Unsaved
<1> USE BothThreads
<1>0. s \in Sessions /\ s \in live
  BY SavedNotStarted
<1>1. CASE UNCHANGED <<hand, settled>>
  <2>1. n \in InHand(s)
    BY <1>1 DEF InHand
  <2>2. ASSUME file'.doc = file.doc, file.kind = "json", pc[Console] \notin {"stop", "stopped"}
        PROVE  file'.doc.seq < n \/ n \in settled'[s]
    BY <1>0, <1>1, <2>1, <2>2 DEF Orderly, Unsaved
  <2>3. ASSUME NEW t \in Threads, WriteFile(t) PROVE FALSE
    <3>1. CASE t = Console
      BY <2>3, <3>1, WriteFileDoes DEF Moves
    <3>2. CASE t = Io
      <4>1. \A x : InHand(x)' = {}
        BY <2>3, <3>2, WriteFileDoes, ReturnSettles
      <4> QED BY <4>1
    <3> QED BY <3>1, <3>2
  <2>4. file'.doc = file.doc /\ file.kind = "json"
    BY <2>3, FileSteps DEF Always
  <2>5. pc[Console] \notin {"stop", "stopped"}
    <3>1. ~Die
      <4>1. Die => hand'.seq = 0
        BY DieDoes, NoIdNoSession
      <4> QED BY <4>1, SessionAssumption DEF InHand
    <3>2. ASSUME NEW t \in Threads, EndAssign(t) \/ ReadSid(t) \/ ReadSeq(t) \/ OpenFile(t)
          PROVE  pc[Console] \notin {"stop", "stopped"}
      <4>1. CASE t = Console
        BY <3>2, <4>1, EndAssignDoes, ReadSidDoes, ReadSeqDoes, OpenFileDoes
      <4>2. CASE t = Io
        BY <3>2, <4>2, EndAssignDoes, ReadSidDoes, ReadSeqDoes, OpenFileDoes DEF Moves
      <4> QED BY <4>1, <4>2
    <3> QED BY <2>3, <3>1, <3>2, ProcessSteps, ReceiveDoes, HandleDoes, IdentifyDoes, ResumeDoes,
               SendResumeDoes, QuitDoes, StopDoes DEF ProcessStill, Moves
  <2> QED BY <2>2, <2>4, <2>5
<1>2. CASE Receive
  <2>1. /\ \A x \in Sessions : covered[x] = settled[x]
        /\ file' = file /\ settled' = settled
    BY <1>2, Taken
  <2>2. Covered(s, file.doc.seq) /\ file.doc.seq \in Nat
    BY <1>0, <2>1, Numbers DEF Orderly, SavedCovered
  <2>3. n \in Nat /\ n > 0
    BY SessionAssumption DEF InHand
  <2>4. ASSUME n <= file.doc.seq PROVE n \in settled[s]
    <3>1. file.doc.seq \in covered[s] /\ n \in 1..file.doc.seq
      BY <2>2, <2>3, <2>4 DEF Covered
    <3> QED BY <1>0, <2>1, <3>1 DEF Orderly, Gapless
  <2> QED BY <2>1, <2>2, <2>3, <2>4
<1>3. CASE Die
  <2>1. hand'.seq = 0
    BY <1>3, DieDoes, NoIdNoSession
  <2> QED BY <2>1, SessionAssumption DEF InHand
<1>4. CASE pc[Io] /= "idle" /\ HandlerReturns
  BY <1>4, ReturnSettles
<1> QED BY <1>1, <1>2, <1>3, <1>4, HandSteps

-----------------------------------------------------------------------------
(* The file is not ahead of the process                                    *)

\* The numbered frame that is taken.
LEMMA HeadEvent ==
  ASSUME TypeIInv, Receive, Head(toClient).seq > 0
  PROVE  /\ 1 \in DOMAIN toClient /\ toClient[1] = Head(toClient) /\ Event(1)
         /\ Head(toClient).sid \in Sessions /\ InUse(Head(toClient).sid)
         /\ Head(toClient).seq \in Nat
BY Taken, HeadInUse, Numbers DEF Takes, Event, TypeIInv, TypeOK

\* A dispatch of the session in the file moves the number past it.
LEMMA CatchesUp ==
  ASSUME TypeIInv, Ahead, Receive, Head(toClient).seq > 0, Head(toClient).sid = file.doc.sid
  PROVE  file.doc.seq <= sequenceNumber'
<1>1. Event(1) /\ toClient[1] = Head(toClient) /\ 1 \in DOMAIN toClient /\ file.doc.sid \in Sessions
      /\ Head(toClient).seq \in Nat
  BY HeadEvent
<1>2. file.doc.seq > sequenceNumber => toClient[1].seq > file.doc.seq
  BY <1>1 DEF Ahead
<1>3. /\ sequenceNumber \in Nat /\ file.doc.seq \in Nat
      /\ sequenceNumber' = IF Head(toClient).seq > sequenceNumber THEN Head(toClient).seq ELSE sequenceNumber
  BY Numbers, ReceiveDoes
<1> QED BY <1>1, <1>2, <1>3

\* What names the session y while Io works on a frame.
Names(y) ==
  \/ y = sessionID /\ ~ReadyInHand
  \/ y = doc[Io].sid
  \/ pc[Console] = "assign" /\ doc[Console].sid = y

LEMMA NamesSteps ==
  ASSUME TypeIInv, [Next]_vars, ~Receive, NEW y \in Sessions, pc'[Io] /= "idle", Names(y)'
  PROVE  /\ pc[Io] /= "idle" /\ ~Die
         /\ Names(y) \/ (Resume /\ ~Die /\ file.doc.sid = y)
<1> USE BothThreads, NoIdNoSession
<1>0. ~Die
  BY DieDoes
<1>1. CASE ProcessStill
  BY <1>0, <1>1 DEF ProcessStill, Names, ReadyInHand
<1>2. CASE Identify /\ ~Die
  BY <1>0, <1>2, IdentifyDoes DEF Names, ReadyInHand
<1>3. CASE Resume /\ ~Die
  BY <1>0, <1>3, ResumeDoes DEF Names, ReadyInHand, Moves, Wire
<1>4. CASE SendResume /\ ~Die
  BY <1>0, <1>4, SendResumeDoes DEF Names, ReadyInHand, Moves, Wire
<1>5. CASE Quit \/ Stop
  BY <1>0, <1>5, QuitDoes, StopDoes DEF Names, ReadyInHand, Moves, Wire
<1>6. ASSUME NEW t \in Threads, EndAssign(t) PROVE pc[Io] /= "idle" /\ Names(y)
  BY <1>6, EndAssignDoes DEF Names, ReadyInHand, Moves, Wire, Threads
<1>7. ASSUME NEW t \in Threads, ReadSid(t) PROVE pc[Io] /= "idle" /\ Names(y)
  BY <1>7, ReadSidDoes DEF Names, ReadyInHand, Moves, Wire, Threads
<1>8. ASSUME NEW t \in Threads, ReadSeq(t) PROVE pc[Io] /= "idle" /\ Names(y)
  BY <1>8, ReadSeqDoes DEF Names, ReadyInHand, Moves, Wire, Threads
<1>9. ASSUME NEW t \in Threads, OpenFile(t) PROVE pc[Io] /= "idle" /\ Names(y)
  BY <1>9, OpenFileDoes DEF Names, ReadyInHand, Moves, Wire, Threads
<1>10. ASSUME NEW t \in Threads, WriteFile(t) PROVE pc[Io] /= "idle" /\ Names(y)
  BY <1>10, WriteFileDoes DEF Names, ReadyInHand, Moves, Wire, Threads
<1>11. CASE Handle
  BY <1>0, <1>11, HandleDoes DEF Names, ReadyInHand, Moves
<1> QED BY <1>0, <1>1, <1>2, <1>3, <1>4, <1>5, <1>6, <1>7, <1>8, <1>9, <1>10, <1>11, ProcessSteps

LEMMA AdvancesKept ==
  TypeIInv /\ Always /\ Orderly /\ [Next]_vars /\ ~reopened' => Advances'
<1> SUFFICES ASSUME TypeIInv, Always, Orderly, [Next]_vars, ~reopened' PROVE Advances'
  OBVIOUS
<1> USE BothThreads
<1>0. /\ file.doc.seq \in Nat /\ file'.doc.seq \in Nat /\ sequenceNumber \in Nat /\ sequenceNumber' \in Nat
  <2>1. file'.doc.seq \in SeqNumber /\ sequenceNumber' \in SeqNumber
    BY TypeKept DEF TypeIInv, TypeOK, File, Doc
  <2>2. \A p \in SeqNumber : p \in Nat
    BY SessionAssumption DEF SeqNumber
  <2> QED BY <2>1, <2>2, Numbers
<1>1. CASE file'.doc.seq <= sequenceNumber'
  BY <1>1 DEF Advances
<1>2. CASE Die
  <2>1. pc'[Io] = "idle" /\ ~(sequenceNumber' > 0)
    BY <1>2, DieDoes, NoIdNoSession
  <2> QED BY <2>1 DEF Advances
<1>3. CASE file'.doc = file.doc /\ ~Die /\ file.doc.sid \in Sessions
  <2>1. PICK y \in Sessions : y = file.doc.sid /\ InUse(y)
    BY <1>3 DEF InUse
  <2>2. Early' /\ sequenceNumber' > 0 => file.doc.seq <= sequenceNumber'
    <3> SUFFICES ASSUME Early', sequenceNumber' > 0 PROVE file.doc.seq <= sequenceNumber'
      OBVIOUS
    <3>1. Early
      BY <1>3, EarlySteps DEF Orderly
    <3>2. CASE sequenceNumber > 0
      <4>1. file.doc.seq <= sequenceNumber
        BY <1>3, <3>1, <3>2 DEF Orderly, Advances
      <4> QED BY <1>0, <1>3, <4>1, NumberSteps
    <3>3. CASE ~(sequenceNumber > 0)
      <4>1. Receive
        BY <1>3, <3>3, NumberSteps
      <4>2. Head(toClient).seq > 0
        BY <1>0, <3>3, <4>1, ReceiveDoes
      <4>3. Head(toClient).sid = file.doc.sid
        BY <2>1, <3>1, <4>1, <4>2, HeadEvent DEF Orderly, OneSession
      <4> QED BY <4>1, <4>2, <4>3, CatchesUp DEF Always
    <3> QED BY <3>2, <3>3
  <2>3. ASSUME pc'[Io] /= "idle", Names(y)' PROVE file.doc.seq <= sequenceNumber'
    <3>1. CASE ~Receive
      <4>1. pc[Io] /= "idle" /\ sequenceNumber > 0
        BY <2>3, <3>1, NamesSteps DEF Always, DocsCleared
      <4>2. file.doc.seq <= sequenceNumber
        <5>1. CASE Names(y)
          BY <2>1, <4>1, <5>1 DEF Orderly, Advances, Names
        <5>2. CASE Resume /\ ~Die
          BY <1>3, <4>1, <5>2, ResumeEarly DEF Orderly, Advances
        <5> QED BY <2>3, <3>1, <5>1, <5>2, NamesSteps
      <4> QED BY <1>0, <1>3, <4>2, NumberSteps
    <3>2. CASE Receive
      <4>0. pc[Io] = "idle" /\ doc[Io] = NoDoc
        BY <3>2, ReceiveDoes DEF Always, DocsCleared
      <4>1. Head(toClient).seq > 0 /\ sequenceNumber' > 0
        <5>1. Head(toClient).seq > 0
          BY <2>3, <3>2, <4>0, ReceiveDoes
        <5>2. Head(toClient).seq \in Nat
          BY <3>2, <5>1, HeadEvent
        <5> QED BY <1>0, <3>2, <5>1, <5>2, ReceiveDoes
      <4>2. CASE Head(toClient).sid = y
        BY <2>1, <3>2, <4>1, <4>2, CatchesUp DEF Always
      <4>3. CASE Head(toClient).kind = "READY" /\ Head(toClient).sid /= y
        <5>1. pc'[Console] = "assign" /\ doc'[Console].sid = y /\ pc'[Console] = pc[Console]
          <6>1. ReadyInHand' /\ doc'[Io].sid /= y
            BY <3>2, <4>1, <4>3, ReceiveDoes DEF ReadyInHand
          <6>2. pc'[Console] = pc[Console]
            BY <3>2, ReceiveDoes
          <6> QED BY <2>3, <6>1, <6>2 DEF Names
        <5>2. Early
          BY <5>1 DEF Resuming, Early, Orderly, ResumesFirst
        <5>3. InUse(Head(toClient).sid) /\ Head(toClient).sid \in Sessions
          BY <3>2, <4>1, HeadEvent
        <5> QED BY <2>1, <4>3, <5>2, <5>3 DEF Orderly, OneSession
      <4>4. CASE Head(toClient).kind /= "READY" /\ Head(toClient).sid /= y
        <5>1. Names(y)
          <6>1. ~ReadyInHand /\ UNCHANGED <<doc, sessionID>> /\ pc'[Console] = pc[Console]
            BY <3>2, <4>0, <4>4, ReceiveDoes DEF ReadyInHand
          <6> QED BY <2>3, <6>1 DEF Names
        <5>2. Event(1) /\ 1 \in DOMAIN toClient /\ toClient[1] = Head(toClient) /\ Head(toClient).sid \in Sessions
          BY <3>2, <4>1, HeadEvent
        <5>3. Told(Head(toClient).sid, 1)
          BY <5>2 DEF Orderly, Announced
        <5>4. Known(Head(toClient).sid)
          BY <4>4, <5>2, <5>3 DEF Told, ReadyAt
        <5>5. y = sessionID \/ (pc[Console] = "assign" /\ doc[Console].sid = y)
          BY <4>0, <5>1, NoIdNoSession DEF Names
        <5>6. Head(toClient).sid = y
          BY <4>0, <5>4, <5>5 DEF Known, ReadyInHand
        <5> QED BY <4>4, <5>6
      <4> QED BY <4>2, <4>3, <4>4
    <3> QED BY <3>1, <3>2
  <2> QED BY <1>3, <2>1, <2>2, <2>3 DEF Advances, Names
<1>4. file'.doc.sid \notin Sessions => Advances'
  BY DEF Advances
<1> QED BY <1>1, <1>2, <1>3, <1>4, FileSteps DEF Always

-----------------------------------------------------------------------------
(* The invariant, and what follows from it                                 *)

LEMMA HistoryStarts == Init => HistoryIInv
<1> SUFFICES ASSUME Init PROVE HistoryIInv
  OBVIOUS
<1> USE NoIdNoSession, BothThreads
<1>0. /\ toClient = <<>> /\ toServer = <<>> /\ live = {} /\ attached = NoId /\ conn = "none" /\ ~identified
      /\ \A t \in Threads : pc[t] = "idle" /\ doc[t] = NoDoc
      /\ sessionID = NoId /\ sequenceNumber = 0 /\ file.doc = NoDoc
      /\ \A s \in Sessions : settled[s] = {}
  BY DEF Init, Idle, NoDocs
<1>5. \A s \in Sessions : covered[s] = {}
  BY <1>0, TypeStarts, HandEmpty DEF covered
<1>1. DOMAIN toClient = {} /\ DOMAIN toServer = {}
  BY <1>0
<1>2. \A s \in Sessions : ~InUse(s) /\ ~Held(s)
  BY <1>0, <1>1 DEF InUse, Held
<1>3. Always
  <2>1. Created /\ Kinds /\ Unconnected /\ LiveAttached /\ Ahead
    BY <1>0, <1>1, <1>2 DEF Created, Kinds, Unconnected, LiveAttached, Ahead
  <2>2. DocsCleared
    BY <1>0 DEF DocsCleared
  <2> QED BY <2>1, <2>2 DEF Always
<1>4. Orderly
  <2>1. Gapless /\ Unsaved /\ InOrder /\ SavedCovered /\ NumberCovered
    BY <1>0, <1>1, <1>5 DEF Gapless, Unsaved, InOrder, SavedCovered, NumberCovered
  <2>2. OneSession /\ ResumesFirst /\ OneLive /\ Asked
    BY <1>0, <1>1, <1>2 DEF OneSession, ResumesFirst, OneLive, Asked
  <2>3. LiveFrames /\ Announced /\ Advances
    BY <1>0, <1>1 DEF LiveFrames, Announced, Advances
  <2> QED BY <2>1, <2>2, <2>3 DEF Orderly
<1> QED BY <1>3, <1>4, TypeStarts DEF HistoryIInv

LEMMA ReopenedStays == ASSUME TypeIInv, [Next]_vars, reopened PROVE reopened'
<1>1. ASSUME NEW t \in Threads, EndAssign(t) \/ ReadSid(t) \/ ReadSeq(t) \/ OpenFile(t) \/ WriteFile(t)
      PROVE  reopened' = reopened
  BY <1>1, EndAssignDoes, ReadSidDoes, ReadSeqDoes, OpenFileDoes, WriteFileDoes
<1> QED BY <1>1, ProcessSteps, DieDoes, ReceiveDoes, HandleDoes, IdentifyDoes, ResumeDoes, SendResumeDoes, QuitDoes, StopDoes
        DEF ProcessStill

LEMMA HistoryKept == HistoryIInv /\ [Next]_vars => HistoryIInv'
<1> SUFFICES ASSUME TypeIInv, Always, ~reopened => Orderly, [Next]_vars
             PROVE  TypeIInv' /\ Always' /\ (~reopened' => Orderly')
  BY DEF HistoryIInv
<1>1. TypeIInv'
  BY TypeKept
<1>2. Always'
  BY CreatedKept, KindsKept, UnconnectedKept, LiveAttachedKept, DocsClearedKept, AheadKept DEF Always
<1>3. ASSUME ~reopened' PROVE Orderly'
  <2>1. Orderly
    BY <1>3, ReopenedStays
  <2>2. Gapless' /\ Unsaved' /\ InOrder' /\ SavedCovered'
    BY <2>1, GaplessKept, UnsavedKept, InOrderKept, SavedCoveredKept DEF Orderly
  <2>3. NumberCovered' /\ OneSession' /\ ResumesFirst' /\ OneLive'
    BY <1>3, <2>1, NumberCoveredKept, OneSessionKept, ResumesFirstKept, OneLiveKept
  <2>4. Asked' /\ LiveFrames' /\ Announced' /\ Advances'
    BY <1>3, <2>1, AskedKept, LiveFramesKept, AnnouncedKept, AdvancesKept
  <2> QED BY <2>2, <2>3, <2>4 DEF Orderly
<1> QED BY <1>1, <1>2, <1>3

LEMMA HistoryCorrect == Spec => []HistoryIInv
BY HistoryStarts, HistoryKept, PTL DEF Spec

(* Over all runs of the client, the dispatches of a session whose handler  *)
(* has returned have no gap, through lost connections, crashes in the      *)
(* middle of anything, a handler's included, saves that overlap and        *)
(* resumes, for any number of sessions and dispatches.  Two exceptions are *)
(* real: a run that opens a second session on its connection, and the one  *)
(* dispatch that quit saves while its handler runs and the handler then    *)
(* kills the process (discord.cpp 99-105, 136, 168-171; main.cpp 33-54,    *)
(* 116-136).                                                               *)
THEOREM NothingSkipped == Spec => []NoEventSkipped
<1>1. HistoryIInv => NoEventSkipped
  BY DEF HistoryIInv, Orderly, Gapless, NoEventSkipped
<1> QED BY <1>1, HistoryCorrect, PTL

(* What session.json says of a session that can still be resumed is never  *)
(* ahead of what was handled by more than the dispatch that is in its      *)
(* handler, with the two exceptions of NothingSkipped: although a save     *)
(* reads the id and the number one after the other while the other thread  *)
(* changes them, and counts what on_message has only begun with            *)
(* (main.cpp 33-54; discord.cpp 168-171).                                  *)
THEOREM SavedHandled == Spec => []SavedWasHandled
<1>1. HistoryIInv => SavedWasHandled
  <2> SUFFICES ASSUME HistoryIInv, ~reopened, file.kind = "json", file.doc.sid \in live,
                      NEW s, s = file.doc.sid
               PROVE  1..file.doc.seq \subseteq settled[s] \cup InHand(s)
    BY DEF SavedWasHandled
  <2>1. s \in Sessions /\ file.doc.seq \in Nat
    BY Numbers DEF HistoryIInv, TypeIInv, TypeOK
  <2>2. Covered(s, file.doc.seq)
    BY DEF HistoryIInv, Orderly, SavedCovered
  <2>3. \A n \in covered[s] : 1..n \subseteq covered[s]
    BY <2>1 DEF HistoryIInv, Orderly, Gapless
  <2>4. covered[s] = settled[s] \cup InHand(s)
    BY <2>1, CoveredIs DEF HistoryIInv
  <2> QED BY <2>1, <2>2, <2>3, <2>4 DEF Covered
<1> QED BY <1>1, HistoryCorrect, PTL

\* A save by Io does not take the number back.
LEMMA IoSaveAdvances ==
  HistoryIInv /\ [Next]_vars => [EndsSave(Io) /\ ~reopened => ~Back(file.doc, file'.doc)]_vars
<1> SUFFICES ASSUME TypeIInv, Always, Orderly, [Next]_vars, EndsSave(Io), Back(file.doc, file'.doc)
             PROVE  FALSE
  BY DEF HistoryIInv
<1> USE BothThreads
<1>1. file.doc.sid \in Sessions /\ file'.doc.sid = file.doc.sid /\ file'.doc.seq < file.doc.seq
  BY DEF Back
<1>2. pc[Io] = "write" /\ doc[Io].seq = sequenceNumber
  BY DEF EndsSave, Always, DocsCleared
<1>3. file.doc.sid = doc[Io].sid => file.doc.seq <= sequenceNumber
  BY <1>1, <1>2 DEF Orderly, Advances
<1>4. ASSUME WriteFile(Io) PROVE FALSE
  BY <1>1, <1>2, <1>3, <1>4, WriteFileDoes, Numbers
<1>5. ASSUME WriteFile(Console) PROVE FALSE
  BY <1>2, <1>5, WriteFileDoes, SessionAssumption DEF EndsSave, Moves
<1>6. file'.doc /= file.doc
  BY <1>1, Numbers
<1> QED BY <1>4, <1>5, <1>6, FileSteps DEF Always, Threads

(* A save that a websocket handler makes, after READY or GUILD_CREATE,     *)
(* never takes the number in session.json back for the session that is     *)
(* there, whichever run and thread wrote it (main.cpp 61-88).              *)
THEOREM HandlersAdvance == Spec => HandlerSavesAdvance
<1>1. HistoryIInv /\ [Next]_vars => [EndsSave(Io) /\ ~reopened => ~Back(file.doc, file'.doc)]_vars
  BY IoSaveAdvances
<1> QED BY <1>1, HistoryCorrect, PTL DEF Spec, HandlerSavesAdvance
=============================================================================
