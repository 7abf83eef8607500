----------------------- MODULE GatewaySession_proofs -----------------------
(***************************************************************************)
(* Theorems about GatewaySession, for any set of sessions and any bounds.  *)
(* Numbered says what the types leave open: a frame with a number belongs  *)
(* to a session.  FileIInv follows session.json through overlapping saves: *)
(* while one save is between fopen and fclose the file is empty, and two   *)
(* that are there at once leave their mark until the next save that is by  *)
(* itself.                                                                 *)
(***************************************************************************)
EXTENDS GatewaySession, SequenceTheorems, TLAPS

Numbered == \A i \in DOMAIN toClient : toClient[i].seq > 0 => toClient[i].sid \in Sessions

\* Between two frames nothing is in hand, and then a dispatch is.
Holding ==
  IF pc[Io] = "idle" THEN hand = NoFrame ELSE hand.seq > 0 /\ hand.sid \in Sessions

TypeIInv == TypeOK /\ Numbered /\ Holding

\* The part of it that each action keeps by itself.
WellTyped == TypeOK /\ Numbered

Writing(t) == pc[t] = "write"

FileIInv ==
  /\ Writing(Io) /\ Writing(Console) => disturbed
  /\ ~disturbed /\ (Writing(Io) \/ Writing(Console)) => file.size = 0
  /\ FileReadable

-----------------------------------------------------------------------------
(* Types                                                                   *)

LEMMA Empty ==
  /\ 0 \in SeqNumber /\ NoDoc \in Doc /\ {NoId, Torn} \subseteq Ids
  /\ NoFrame \in FrameToClient
BY SessionAssumption DEF SeqNumber, NoDoc, NoFrame, FrameToClient, Doc, Ids

LEMMA BothThreads ==
  /\ Threads = {Io, Console} /\ Io /= Console
  /\ Other(Io) = Console /\ Other(Console) = Io
BY SessionAssumption DEF Threads, Other

LEMMA TypeStarts == Init => TypeIInv
<1> SUFFICES ASSUME Init PROVE TypeIInv
  OBVIOUS
<1>1. /\ sent \in [Sessions -> 0..MaxSeq]
      /\ live \subseteq Sessions
      /\ attached \in live \cup {NoId}
      /\ conn \in {"none", "open", "closed"}
      /\ running \in BOOLEAN
  BY SessionAssumption DEF Init
<1>2. toClient \in Seq(FrameToClient) /\ toServer \in Seq(FrameToServer) /\ Numbered
  BY DEF Init, Numbered
<1>3. pc \in [Threads -> PC] /\ doc \in [Threads -> Doc]
  BY Empty DEF Init, Idle, NoDocs, PC
<1>4. sessionID \in Ids /\ sequenceNumber \in SeqNumber /\ file \in File
  BY Empty DEF Init, File
<1>5. /\ settled \in [Sessions -> SUBSET (1..MaxSeq)]
      /\ disturbed \in BOOLEAN /\ identified \in BOOLEAN /\ reopened \in BOOLEAN
  BY DEF Init
<1>6. hand \in FrameToClient
  BY Empty DEF Init
<1>7. Holding
  BY BothThreads DEF Init, Idle, Holding
<1> QED BY <1>1, <1>2, <1>3, <1>4, <1>5, <1>6, <1>7 DEF TypeIInv, TypeOK

\* Frames are added at the end.
LEMMA PushTyped ==
  ASSUME TypeIInv, NEW frames \in Seq(FrameToClient), Push(frames),
         \A i \in DOMAIN frames : frames[i].seq > 0 => frames[i].sid \in Sessions
  PROVE  toClient' \in Seq(FrameToClient) /\ Numbered'
<1>1. toClient' = toClient \o frames /\ toClient \in Seq(FrameToClient)
  BY DEF Push, TypeIInv, TypeOK
<1>2. toClient' \in Seq(FrameToClient)
  BY <1>1, ConcatProperties
<1>3. ASSUME NEW i \in DOMAIN toClient', toClient'[i].seq > 0
      PROVE  toClient'[i].sid \in Sessions
  <2>1. CASE i <= Len(toClient)
    <3>1. i \in DOMAIN toClient /\ toClient'[i] = toClient[i]
      BY <1>1, <1>3, <2>1, ConcatProperties
    <3> QED BY <1>3, <3>1 DEF TypeIInv, Numbered
  <2>2. CASE i > Len(toClient)
    <3>1. i - Len(toClient) \in DOMAIN frames /\ toClient'[i] = frames[i - Len(toClient)]
      BY <1>1, <1>3, <2>2, ConcatProperties
    <3> QED BY <1>3, <3>1
  <2> QED BY <1>1, <1>3, <2>1, <2>2
<1> QED BY <1>2, <1>3 DEF Numbered

LEMMA DropTyped ==
  ASSUME TypeIInv, Drop
  PROVE  /\ toClient' \in Seq(FrameToClient) /\ toServer' \in Seq(FrameToServer)
         /\ attached' = NoId /\ Numbered'
BY DEF Drop, Numbered

LEMMA Moved ==
  ASSUME TypeOK, NEW t, NEW label \in PC, Goto(t, label)
  PROVE  pc' \in [Threads -> PC]
BY DEF TypeOK, Goto

\* A document of a thread, or a part of it, is replaced.
LEMMA DocTyped ==
  ASSUME TypeOK, NEW t \in Threads, NEW d \in Doc, NEW id \in Ids, NEW p \in SeqNumber
  PROVE  /\ [doc EXCEPT ![t] = d] \in [Threads -> Doc]
         /\ [doc EXCEPT ![t].sid = id] \in [Threads -> Doc]
         /\ [doc EXCEPT ![t].seq = p] \in [Threads -> Doc]
         /\ doc[t] \in Doc /\ doc[t].sid \in Ids /\ doc[t].seq \in SeqNumber
<1>1. doc \in [Threads -> Doc]
  BY DEF TypeOK
<1>2. doc[t] \in Doc /\ doc[t].sid \in Ids /\ doc[t].seq \in SeqNumber
  BY <1>1 DEF Doc
<1>3. [doc[t] EXCEPT !.sid = id] \in Doc /\ [doc[t] EXCEPT !.seq = p] \in Doc
  BY <1>2 DEF Doc
<1> QED BY <1>1, <1>2, <1>3

LEMMA TypeOpen == TypeIInv /\ Open => WellTyped'
BY DEF TypeIInv, WellTyped, TypeOK, Numbered, Open, gateway, history

LEMMA TypeStart == TypeIInv /\ Start => WellTyped'
BY DEF TypeIInv, WellTyped, TypeOK, Numbered, Start, gateway, connection, history

LEMMA TypeLose == TypeIInv /\ Lose => WellTyped'
BY DropTyped DEF TypeIInv, WellTyped, TypeOK, Lose, Disconnect, history

LEMMA TypeDie == TypeIInv /\ Die => WellTyped'
<1> SUFFICES ASSUME TypeIInv, Die PROVE WellTyped'
  OBVIOUS
<1>1. Idle \in [Threads -> PC] /\ NoDocs \in [Threads -> Doc]
  BY Empty DEF Idle, NoDocs, PC
<1>2. disturbed' \in BOOLEAN
  BY DEF Die, TypeIInv, TypeOK
<1>3. /\ toClient' \in Seq(FrameToClient) /\ toServer' \in Seq(FrameToServer)
      /\ attached' = NoId /\ Numbered'
  BY DropTyped DEF Die
<1>4. settled' \in [Sessions -> SUBSET (1..MaxSeq)]
  <2>1. \A s \in Sessions : settled[s] \subseteq 1..MaxSeq /\ Lost(s) \subseteq 1..MaxSeq
    BY DEF TypeIInv, TypeOK, Lost, InHand
  <2>2. settled' = [s \in Sessions |-> settled[s] \cup Lost(s)]
    BY DEF Die
  <2> HIDE DEF Lost
  <2> QED BY <2>1, <2>2
<1> QED BY <1>1, <1>2, <1>3, <1>4, Empty DEF TypeIInv, WellTyped, TypeOK, Die

LEMMA TypeExit == TypeIInv /\ Exit => WellTyped'
BY TypeDie DEF Exit

-----------------------------------------------------------------------------
LEMMA DispatchTyped ==
  ASSUME NEW s \in Sessions, NEW i \in 1..MaxSeq
  PROVE  /\ Dispatch(s, i) \in FrameToClient
         /\ Dispatch(s, i).seq > 0 /\ Dispatch(s, i).sid \in Sessions
BY SessionAssumption DEF Dispatch, FrameToClient, SeqNumber, Ids

LEMMA PushOne ==
  ASSUME TypeIInv, NEW f \in FrameToClient, f.seq > 0 => f.sid \in Sessions, Push(<<f>>)
  PROVE  toClient' \in Seq(FrameToClient) /\ Numbered'
<1>1. <<f>> \in Seq(FrameToClient) /\ DOMAIN <<f>> = {1} /\ <<f>>[1] = f
  OBVIOUS
<1>2. \A i \in DOMAIN <<f>> : <<f>>[i].seq > 0 => <<f>>[i].sid \in Sessions
  BY <1>1
<1> QED BY <1>1, <1>2, PushTyped

LEMMA InvalidTyped == Invalid \in FrameToClient /\ Invalid.seq = 0
BY SessionAssumption DEF Invalid, FrameToClient, SeqNumber, Ids

LEMMA NewSessionTyped ==
  ASSUME TypeIInv, NEW s \in Sessions, NewSession(s)
  PROVE  /\ sent' \in [Sessions -> 0..MaxSeq] /\ live' \subseteq Sessions
         /\ attached' \in live' /\ toClient' \in Seq(FrameToClient) /\ Numbered'
<1>1. 1 \in 1..MaxSeq
  BY SessionAssumption
<1>2. toClient' \in Seq(FrameToClient) /\ Numbered'
  BY <1>1, DispatchTyped, PushOne DEF NewSession
<1> QED BY <1>1, <1>2 DEF NewSession, TypeIInv, WellTyped, TypeOK

LEMMA ReplayTyped ==
  ASSUME TypeIInv, NEW f \in FrameToServer, Resumable(f), Replay(f)
  PROVE  attached' \in live /\ toClient' \in Seq(FrameToClient) /\ Numbered'
<1> DEFINE m == sent[f.sid] - f.seq
           r == [kind |-> "RESUMED", sid |-> f.sid, seq |-> 0]
           frames == [i \in 1..m |-> Dispatch(f.sid, f.seq + i)]
<1>1. f.sid \in Sessions /\ f.seq \in 0..MaxSeq /\ sent[f.sid] \in 0..MaxSeq /\ m \in Nat
  BY SessionAssumption DEF TypeIInv, TypeOK, Resumable, FrameToServer, SeqNumber
<1>2. \A i \in 1..m : f.seq + i \in 1..MaxSeq
  BY <1>1, SessionAssumption
<1>3. \A i \in 1..m : frames[i] \in FrameToClient /\ frames[i].sid \in Sessions
  BY <1>1, <1>2, DispatchTyped
<1>4. frames \in Seq(FrameToClient) /\ Len(frames) = m
  BY <1>1, <1>3
<1>5. r \in FrameToClient /\ r.seq = 0
  BY <1>1, SessionAssumption DEF FrameToClient, SeqNumber, Ids
<1> HIDE DEF frames, r, m
<1>6. /\ frames \o <<r>> \in Seq(FrameToClient)
      /\ \A i \in DOMAIN (frames \o <<r>>) :
           (frames \o <<r>>)[i] = IF i <= m THEN frames[i] ELSE r
  BY <1>1, <1>4, <1>5
<1>7. \A i \in DOMAIN (frames \o <<r>>) :
        (frames \o <<r>>)[i].seq > 0 => (frames \o <<r>>)[i].sid \in Sessions
  <2> SUFFICES ASSUME NEW i \in DOMAIN (frames \o <<r>>), (frames \o <<r>>)[i].seq > 0
               PROVE  (frames \o <<r>>)[i].sid \in Sessions
    OBVIOUS
  <2>1. CASE i <= m
    <3>1. i \in 1..m
      BY <1>1, <1>4, <1>5, <1>6, <2>1
    <3> QED BY <1>3, <1>6, <2>1, <3>1
  <2>2. CASE ~(i <= m)
    BY <1>5, <1>6, <2>2
  <2> QED BY <2>1, <2>2
<1>8. Push(frames \o <<r>>)
  BY DEF Replay, frames, r, m
<1>9. toClient' \in Seq(FrameToClient) /\ Numbered'
  BY <1>6, <1>7, <1>8, PushTyped
<1> QED BY <1>9 DEF Replay, Resumable

LEMMA InvalidPushed ==
  ASSUME TypeIInv, Push(<<Invalid>>)
  PROVE  toClient' \in Seq(FrameToClient) /\ Numbered'
<1>1. ~(Invalid.seq > 0)
  BY InvalidTyped
<1> QED BY <1>1, InvalidTyped, PushOne

LEMMA TypeServerReceive == TypeIInv /\ ServerReceive => WellTyped'
<1> SUFFICES ASSUME TypeIInv, ServerReceive PROVE WellTyped'
  OBVIOUS
<1> DEFINE f == Head(toServer)
<1>1. UNCHANGED <<running, pc, doc, sessionID, sequenceNumber, hand, file, history>>
  BY DEF ServerReceive
<1>2. toServer \in Seq(FrameToServer) /\ toServer /= <<>>
  BY DEF ServerReceive, TypeIInv, TypeOK
<1>3. f \in FrameToServer /\ Tail(toServer) \in Seq(FrameToServer)
  BY <1>2, HeadTailProperties
<1>4. CASE Disconnect /\ UNCHANGED <<sent, live>>
  BY <1>1, <1>4, DropTyped DEF TypeIInv, WellTyped, TypeOK, Disconnect, history
<1>5. CASE toServer' = Tail(toServer) /\ UNCHANGED conn /\ \E s \in Sessions : NewSession(s)
  BY <1>1, <1>3, <1>5, NewSessionTyped DEF TypeIInv, WellTyped, TypeOK, history
<1>6. CASE /\ toServer' = Tail(toServer) /\ UNCHANGED conn
           /\ Resumable(f) /\ Replay(f) /\ UNCHANGED <<sent, live>>
  <2>1. attached' \in live /\ toClient' \in Seq(FrameToClient) /\ Numbered'
    BY <1>3, <1>6, ReplayTyped
  <2> QED BY <1>1, <1>3, <1>6, <2>1 DEF TypeIInv, WellTyped, TypeOK, history
<1>7. CASE /\ toServer' = Tail(toServer) /\ UNCHANGED conn
           /\ Push(<<Invalid>>) /\ UNCHANGED gateway
  BY <1>1, <1>3, <1>7, InvalidPushed DEF TypeIInv, WellTyped, TypeOK, history, gateway
<1> QED BY <1>4, <1>5, <1>6, <1>7 DEF ServerReceive

LEMMA TypeServerEvent == ASSUME NEW s \in Sessions PROVE TypeIInv /\ ServerEvent(s) => WellTyped'
<1> SUFFICES ASSUME TypeIInv, ServerEvent(s) PROVE WellTyped'
  OBVIOUS
<1>1. sent[s] + 1 \in 1..MaxSeq /\ sent' \in [Sessions -> 0..MaxSeq]
  BY SessionAssumption DEF TypeIInv, TypeOK, ServerEvent
<1>2. toClient' \in Seq(FrameToClient) /\ Numbered'
  <2>1. CASE Push(<<Dispatch(s, sent[s] + 1)>>)
    BY <1>1, <2>1, DispatchTyped, PushOne
  <2>2. CASE UNCHANGED toClient
    BY <2>2 DEF TypeIInv, TypeOK, Numbered
  <2> QED BY <2>1, <2>2 DEF ServerEvent
<1> QED BY <1>1, <1>2 DEF TypeIInv, WellTyped, TypeOK, ServerEvent, history

LEMMA TypeServerForget == ASSUME NEW s \in Sessions PROVE TypeIInv /\ ServerForget(s) => WellTyped'
<1> SUFFICES ASSUME TypeIInv, ServerForget(s) PROVE WellTyped'
  OBVIOUS
<1>1. toClient' \in Seq(FrameToClient) /\ Numbered'
  <2>1. CASE Push(<<Invalid>>)
    BY <2>1, InvalidPushed
  <2>2. CASE UNCHANGED toClient
    BY <2>2 DEF TypeIInv, TypeOK, Numbered
  <2> QED BY <2>1, <2>2 DEF ServerForget
<1>2. attached' \in live' \cup {NoId} /\ live' \subseteq Sessions
  BY DEF TypeIInv, TypeOK, ServerForget
<1> QED BY <1>1, <1>2 DEF TypeIInv, WellTyped, TypeOK, ServerForget, history

-----------------------------------------------------------------------------
LEMMA TypeReceive == TypeIInv /\ Receive => WellTyped'
<1> SUFFICES ASSUME TypeIInv, Receive PROVE WellTyped'
  OBVIOUS
<1> DEFINE f == Head(toClient)
<1>1. UNCHANGED <<gateway, conn, toServer, running, file, disturbed, identified>>
  BY DEF Receive
<1>2. toClient \in Seq(FrameToClient) /\ toClient /= <<>> /\ toClient' = Tail(toClient)
  BY DEF Receive, TypeIInv, TypeOK
<1>3. f \in FrameToClient /\ toClient' \in Seq(FrameToClient)
  BY <1>2, HeadTailProperties
<1>4. f.seq > 0 => f.sid \in Sessions
  <2>1. 1 \in DOMAIN toClient /\ f = toClient[1]
    BY <1>2
  <2> QED BY <2>1 DEF TypeIInv, Numbered
<1>5. Numbered'
  <2> SUFFICES ASSUME NEW i \in DOMAIN toClient', toClient'[i].seq > 0
               PROVE  toClient'[i].sid \in Sessions
    BY DEF Numbered
  <2>1. i + 1 \in DOMAIN toClient /\ toClient'[i] = toClient[i + 1]
    BY <1>2, HeadTailProperties
  <2> QED BY <2>1 DEF TypeIInv, Numbered
<1>6. f.seq \in 0..MaxSeq /\ f.sid \in Ids
  BY <1>3 DEF FrameToClient, SeqNumber
<1> HIDE DEF f
<1>7. sequenceNumber' = Later(sequenceNumber, f)
  BY DEF Receive, f
<1>8. sequenceNumber' \in SeqNumber
  <2>1. sequenceNumber \in SeqNumber /\ f.seq \in SeqNumber
    BY <1>6 DEF TypeIInv, TypeOK, SeqNumber
  <2> QED BY <1>7, <2>1 DEF Later
<1>9. reopened' \in BOOLEAN
  BY DEF Receive, TypeIInv, TypeOK
<1>10. doc' \in [Threads -> Doc]
  <2>1. doc' = IF f.kind = "READY" THEN [doc EXCEPT ![Io].sid = f.sid] ELSE doc
    BY DEF Receive, f
  <2>2. Io \in Threads /\ f.sid \in Ids
    BY <1>6, BothThreads
  <2> QED BY <2>1, <2>2, DocTyped, Empty DEF TypeIInv, TypeOK
<1>11. pc' \in [Threads -> PC] /\ hand' \in FrameToClient
  <2>1. CASE hand' = f /\ Goto(Io, "handle")
    BY <1>3, <2>1, Moved DEF TypeIInv, PC
  <2>2. CASE UNCHANGED <<hand, pc>>
    BY <2>2 DEF TypeIInv, TypeOK
  <2> QED BY <2>1, <2>2 DEF Receive, f
<1>12. UNCHANGED <<settled, sessionID>>
  BY DEF Receive
<1> QED BY <1>1, <1>3, <1>5, <1>8, <1>9, <1>10, <1>11, <1>12 DEF TypeIInv, WellTyped, TypeOK, gateway

\* The number in hand is one of a session.
LEMMA ReturnsTyped ==
  ASSUME TypeIInv, pc[Io] /= "idle", HandlerReturns
  PROVE  settled' \in [Sessions -> SUBSET (1..MaxSeq)] /\ hand' \in FrameToClient
<1>1. hand.seq \in 0..MaxSeq /\ hand.seq > 0
  BY DEF TypeIInv, TypeOK, Holding, FrameToClient, SeqNumber
<1>2. hand.seq \in 1..MaxSeq
  BY <1>1, SessionAssumption
<1>3. settled' = [settled EXCEPT ![hand.sid] = @ \cup {hand.seq}]
  BY DEF HandlerReturns
<1>4. settled \in [Sessions -> SUBSET (1..MaxSeq)]
  BY DEF TypeIInv, TypeOK
<1>5. settled' \in [Sessions -> SUBSET (1..MaxSeq)]
  BY <1>2, <1>3, <1>4
<1> QED BY <1>5, Empty DEF HandlerReturns

LEMMA TypeHandle == TypeIInv /\ Handle => WellTyped'
<1> SUFFICES ASSUME TypeIInv, Handle PROVE WellTyped'
  OBVIOUS
<1>1. pc[Io] /= "idle"
  BY DEF Handle
<1>2. pc' \in [Threads -> PC] /\ sessionID' \in Ids
  BY Moved, Empty DEF Handle, TypeIInv, TypeOK, PC
<1>3. settled' \in [Sessions -> SUBSET (1..MaxSeq)] /\ hand' \in FrameToClient
  BY <1>1, ReturnsTyped DEF Handle, TypeIInv, TypeOK
<1> QED BY <1>2, <1>3 DEF TypeIInv, WellTyped, TypeOK, Numbered, Handle, gateway, connection

LEMMA TypeEndAssign == ASSUME NEW t \in Threads PROVE TypeIInv /\ EndAssign(t) => WellTyped'
<1> SUFFICES ASSUME TypeIInv, EndAssign(t) PROVE WellTyped'
  OBVIOUS
<1>1. sessionID' \in Ids
  BY DocTyped, Empty DEF EndAssign, TypeIInv
<1>2. pc' \in [Threads -> PC] /\ doc' \in [Threads -> Doc]
  <2>1. CASE t = Io
    <3>1. pc' \in [Threads -> PC]
      BY <2>1, Moved DEF EndAssign, TypeIInv, PC
    <3>2. doc' = [doc EXCEPT ![t] = NoDoc]
      BY <2>1 DEF EndAssign
    <3> QED BY <3>1, <3>2, Empty DEF TypeIInv, WellTyped, TypeOK
  <2>2. CASE t /= Io
    BY <2>2, Moved DEF EndAssign, TypeIInv, TypeOK, PC
  <2> QED BY <2>1, <2>2
<1> QED BY <1>1, <1>2 DEF TypeIInv, WellTyped, TypeOK, Numbered, EndAssign, gateway, connection, history

LEMMA SizeTyped == ASSUME NEW d PROVE Size(d) \in Nat
BY DEF Size

LEMMA TypeSave == ASSUME NEW t \in Threads PROVE TypeIInv /\ Save(t) => WellTyped'
<1> SUFFICES ASSUME TypeIInv, Save(t) PROVE WellTyped'
  OBVIOUS
<1>1. CASE ReadSid(t)
  <2>1. pc' \in [Threads -> PC] /\ doc' \in [Threads -> Doc]
    <3>1. sessionID \in Ids
      BY DEF TypeIInv, TypeOK
    <3>2. doc' \in [Threads -> Doc]
      BY <1>1, <3>1, DocTyped, Empty DEF ReadSid, TypeIInv
    <3> QED BY <1>1, <3>2, Moved DEF ReadSid, TypeIInv, PC
  <2> QED BY <1>1, <2>1 DEF ReadSid, TypeIInv, WellTyped, TypeOK, Numbered, gateway, connection, history
<1>2. CASE ReadSeq(t)
  <2>1. pc' \in [Threads -> PC] /\ doc' \in [Threads -> Doc]
    <3>1. sequenceNumber \in SeqNumber
      BY DEF TypeIInv, TypeOK
    <3>2. doc' \in [Threads -> Doc]
      BY <1>2, <3>1, DocTyped, Empty DEF ReadSeq, TypeIInv
    <3> QED BY <1>2, <3>2, Moved DEF ReadSeq, TypeIInv, PC
  <2> QED BY <1>2, <2>1 DEF ReadSeq, TypeIInv, WellTyped, TypeOK, Numbered, gateway, connection, history
<1>3. CASE OpenFile(t)
  <2>1. pc' \in [Threads -> PC]
    BY <1>3, Moved DEF OpenFile, TypeIInv, PC
  <2>2. file' \in File /\ disturbed' \in BOOLEAN
    BY <1>3 DEF OpenFile, TypeIInv, TypeOK, File
  <2> QED BY <1>3, <2>1, <2>2 DEF OpenFile, TypeIInv, WellTyped, TypeOK, Numbered, gateway, connection
<1>4. CASE WriteFile(t)
  <2>1. pc' \in [Threads -> PC] /\ doc' \in [Threads -> Doc]
    BY <1>4, DocTyped, Empty, Moved DEF WriteFile, TypeIInv, PC
  <2>2. file' \in File
    <3>1. doc[t] \in Doc /\ Size(doc[t]) \in Nat /\ file.size \in Nat
      BY SizeTyped DEF TypeIInv, TypeOK, File
    <3> QED BY <1>4, <3>1 DEF WriteFile, File
  <2>3. settled' \in [Sessions -> SUBSET (1..MaxSeq)] /\ hand' \in FrameToClient
    <3>1. CASE t = Io
      BY <1>4, <3>1, ReturnsTyped DEF WriteFile
    <3>2. CASE t /= Io
      BY <1>4, <3>2 DEF WriteFile, TypeIInv, TypeOK
    <3> QED BY <3>1, <3>2
  <2> QED BY <1>4, <2>1, <2>2, <2>3 DEF WriteFile, TypeIInv, WellTyped, TypeOK, Numbered, gateway, connection
<1> QED BY <1>1, <1>2, <1>3, <1>4 DEF Save

LEMMA TransmitTyped ==
  ASSUME TypeIInv, NEW f \in FrameToServer, Transmit(f)
  PROVE  toServer' \in Seq(FrameToServer)
BY DEF Transmit, TypeIInv, TypeOK

LEMMA TypeCommand == TypeIInv /\ Command => WellTyped'
<1> SUFFICES ASSUME TypeIInv, Command PROVE WellTyped'
  OBVIOUS
<1>1. CASE Die
  BY <1>1, TypeDie
<1>2. CASE Identify /\ ~Die
  <2>1. [op |-> "IDENTIFY", sid |-> NoId, seq |-> 0] \in FrameToServer
    BY Empty DEF FrameToServer
  <2>2. toServer' \in Seq(FrameToServer)
    BY <1>2, <2>1, TransmitTyped DEF Identify, Crash
  <2> QED BY <1>2, <2>2 DEF Identify, Crash, TypeIInv, WellTyped, TypeOK, Numbered, gateway
<1>3. CASE Resume /\ ~Die
  <2>1. file.doc \in Doc /\ Console \in Threads /\ Torn \in Ids
    BY Empty DEF TypeIInv, TypeOK, File, Threads
  <2>2. pc' \in [Threads -> PC] /\ doc' \in [Threads -> Doc] /\ sessionID' \in Ids
    BY <1>3, <2>1, DocTyped, Moved, Empty DEF Resume, TypeIInv, PC
  <2>3. reopened' \in BOOLEAN
    BY <1>3 DEF Resume, TypeIInv, TypeOK
  <2> QED BY <1>3, <2>2, <2>3 DEF Resume, TypeIInv, WellTyped, TypeOK, Numbered, gateway, connection
<1>4. CASE SendResume /\ ~Die
  <2>1. Console \in Threads /\ doc[Console].sid \in Ids /\ doc[Console].seq \in SeqNumber
    BY DocTyped, Empty DEF TypeIInv, Threads
  <2>2. [op |-> "RESUME", sid |-> doc[Console].sid, seq |-> doc[Console].seq] \in FrameToServer
    BY <2>1 DEF FrameToServer
  <2>3. toServer' \in Seq(FrameToServer)
    BY <1>4, <2>2, TransmitTyped DEF SendResume, Crash
  <2>4. pc' \in [Threads -> PC] /\ doc' \in [Threads -> Doc]
    BY <1>4, <2>1, DocTyped, Moved, Empty DEF SendResume, Crash, TypeIInv, PC
  <2> QED BY <1>4, <2>3, <2>4 DEF SendResume, Crash, TypeIInv, WellTyped, TypeOK, Numbered, gateway, history
<1>5. CASE Quit
  <2>1. pc' \in [Threads -> PC]
    BY <1>5, Moved DEF Quit, TypeIInv, PC
  <2> QED BY <1>5, <2>1 DEF Quit, TypeIInv, WellTyped, TypeOK, Numbered, gateway, connection, history
<1>6. CASE Stop
  <2>1. pc' \in [Threads -> PC]
    BY <1>6, Moved DEF Stop, TypeIInv, PC
  <2> QED BY <1>6, <2>1, DropTyped DEF Stop, Disconnect, TypeIInv, WellTyped, TypeOK, history
<1> QED BY <1>1, <1>2, <1>3, <1>4, <1>5, <1>6 DEF Command

\* What is in hand when Io, or the other thread, goes on.
LEMMA HoldingKept == TypeIInv /\ [Next]_vars => Holding'
<1> SUFFICES ASSUME TypeIInv, [Next]_vars PROVE Holding'
  OBVIOUS
<1> USE BothThreads
<1>1. CASE UNCHANGED <<pc, hand>>
  BY <1>1 DEF TypeIInv, Holding
<1>2. CASE Die
  BY <1>2 DEF Die, Idle, Holding
<1>3. CASE UNCHANGED vars \/ Open \/ Lose \/ Start \/ Server
  BY <1>1, <1>3 DEF vars, Open, Lose, Start, Server, ServerReceive, ServerEvent, ServerForget
<1>4. CASE Receive
  <2> DEFINE f == Head(toClient)
  <2>1. f = toClient[1] /\ 1 \in DOMAIN toClient
    BY <1>4 DEF Receive, TypeIInv, TypeOK
  <2>2. f.seq > 0 => f.sid \in Sessions
    BY <2>1 DEF TypeIInv, Numbered
  <2>3. \/ f.seq > 0 /\ hand' = f /\ Goto(Io, "handle")
        \/ UNCHANGED <<hand, pc>>
    BY <1>4 DEF Receive
  <2> HIDE DEF f
  <2>4. CASE f.seq > 0 /\ hand' = f /\ Goto(Io, "handle")
    BY <2>2, <2>4 DEF Goto, TypeIInv, TypeOK, Holding
  <2> QED BY <1>1, <2>3, <2>4
<1>5. ASSUME NEW label, Goto(Console, label), UNCHANGED hand
      PROVE  Holding'
  BY <1>5 DEF Goto, TypeIInv, TypeOK, Holding
<1>6. ASSUME pc[Io] /= "idle", NEW label, label /= "idle", Goto(Io, label), UNCHANGED hand
      PROVE  Holding'
  BY <1>6 DEF Goto, TypeIInv, TypeOK, Holding
<1>7. ASSUME Goto(Io, "idle"), HandlerReturns
      PROVE  Holding'
  BY <1>7 DEF Goto, HandlerReturns, TypeIInv, TypeOK, Holding
<1>8. CASE Command /\ ~Die
  <2>1. UNCHANGED hand
    BY <1>8 DEF Command, Identify, Resume, SendResume, Quit, Stop, Crash
  <2>2. UNCHANGED pc \/ \E label : Goto(Console, label)
    BY <1>8 DEF Command, Identify, Resume, SendResume, Quit, Stop, Crash
  <2> QED BY <1>1, <1>5, <2>1, <2>2
<1>9. CASE Handle
  BY <1>6, <1>7, <1>9 DEF Handle
<1>10. ASSUME NEW t \in Threads, EndAssign(t) \/ Save(t)
       PROVE  Holding'
  <2>1. CASE t = Console
    BY <1>5, <1>10, <2>1 DEF EndAssign, Save, ReadSid, ReadSeq, OpenFile, WriteFile
  <2>2. CASE t = Io
    BY <1>6, <1>7, <1>10, <2>2 DEF EndAssign, Save, ReadSid, ReadSeq, OpenFile, WriteFile
  <2> QED BY <2>1, <2>2
<1> QED BY <1>2, <1>3, <1>4, <1>8, <1>9, <1>10 DEF Next, Exit

LEMMA TypeKept == TypeIInv /\ [Next]_vars => TypeIInv'
<1> SUFFICES ASSUME TypeIInv, [Next]_vars PROVE WellTyped'
  BY HoldingKept DEF TypeIInv, WellTyped
<1>1. CASE UNCHANGED vars
  BY <1>1 DEF TypeIInv, WellTyped, TypeOK, Numbered, vars, gateway, connection, history
<1>2. CASE Server
  BY <1>2, TypeServerReceive, TypeServerEvent, TypeServerForget DEF Server
<1>3. CASE Open \/ Lose \/ Die \/ Exit \/ Start
  BY <1>3, TypeOpen, TypeLose, TypeDie, TypeExit, TypeStart
<1> QED BY <1>1, <1>2, <1>3, TypeReceive, TypeHandle, TypeCommand, TypeEndAssign, TypeSave DEF Next

LEMMA Typed == Spec => []TypeIInv
BY TypeStarts, TypeKept, PTL DEF Spec

(* In every behaviour every variable has its type: frames, documents and   *)
(* session.json only ever hold ids and numbers that exist, through crashes *)
(* and overlapping saves (discord.cpp, main.cpp).                          *)
THEOREM TypeCorrect == Spec => []TypeOK
BY Typed, PTL DEF TypeIInv

-----------------------------------------------------------------------------
(* session.json                                                            *)

\* Actions that leave the file, and who writes it, alone.
FileStill ==
  /\ UNCHANGED <<file, disturbed>>
  /\ \A t \in Threads : Writing(t)' = Writing(t)

LEMMA StillReadable == FileIInv /\ FileStill => FileIInv'
BY BothThreads DEF FileIInv, FileStill, FileReadable, Writing

\* A thread goes from one place to another, neither of them between fopen
\* and fclose.
LEMMA WentElsewhere ==
  ASSUME TypeOK, NEW t \in Threads, NEW label, Goto(t, label), label /= "write", pc[t] /= "write"
  PROVE  \A u \in Threads : Writing(u)' = Writing(u)
<1>1. pc' = [pc EXCEPT ![t] = label] /\ pc \in [Threads -> PC]
  BY DEF Goto, TypeOK
<1> QED BY <1>1 DEF Writing

LEMMA DieReadable == TypeOK /\ FileIInv /\ Die => FileIInv'
<1> SUFFICES ASSUME TypeOK, FileIInv, Die PROVE FileIInv'
  OBVIOUS
<1>1. file' = file /\ disturbed' = (disturbed \/ \E t \in Threads : Writing(t))
  BY DEF Die, Writing
<1>2. ~Writing(Io)' /\ ~Writing(Console)'
  BY BothThreads DEF Die, Idle, Writing
<1>3. ~disturbed' => file.kind \in {"missing", "json"}
  BY <1>1 DEF FileIInv, FileReadable, Writing
<1> QED BY <1>1, <1>2, <1>3 DEF FileIInv, FileReadable

LEMMA OpenReadable ==
  ASSUME TypeOK, FileIInv, NEW t \in Threads, OpenFile(t)
  PROVE  FileIInv'
<1>1. pc' = [pc EXCEPT ![t] = "write"] /\ pc \in [Threads -> PC]
  BY DEF OpenFile, Goto, TypeOK
<1>2. Other(t) \in Threads /\ Threads = {t, Other(t)} /\ Other(t) /= t
  BY BothThreads
<1>3. Writing(t)' /\ Writing(Other(t))' = Writing(Other(t))
  BY <1>1, <1>2 DEF Writing
<1>4. disturbed' = Writing(Other(t))
  BY DEF OpenFile, Writing
<1>5. file'.size = 0
  BY DEF OpenFile, TypeOK, File
<1> QED BY <1>2, <1>3, <1>4, <1>5, BothThreads DEF FileIInv, FileReadable, Writing

\* The file is empty unless a save is going on that overlapped another one.
LEMMA WriteReadable ==
  ASSUME TypeOK, FileIInv, NEW t \in Threads, WriteFile(t)
  PROVE  FileIInv'
<1>1. pc' = [pc EXCEPT ![t] = IF t = Io THEN "idle" ELSE "stop"] /\ pc \in [Threads -> PC]
  BY DEF WriteFile, Goto, TypeOK
<1>2. Other(t) \in Threads /\ Threads = {t, Other(t)} /\ Other(t) /= t
  BY BothThreads
<1>3. Writing(t) /\ ~Writing(t)' /\ Writing(Other(t))' = Writing(Other(t))
  BY <1>1, <1>2 DEF Writing, WriteFile
<1>4. UNCHANGED disturbed
  BY DEF WriteFile, history
<1>5. ~disturbed => ~Writing(Other(t)) /\ file.size = 0
  BY <1>2, <1>3, BothThreads DEF FileIInv
<1>6. ~disturbed => file'.kind = "json"
  <2> SUFFICES ASSUME ~disturbed PROVE file'.kind = "json"
    OBVIOUS
  <2>1. Size(doc[t]) >= file.size
    BY <1>5, SizeTyped
  <2> QED BY <2>1 DEF WriteFile
<1> QED BY <1>2, <1>3, <1>4, <1>5, <1>6, BothThreads DEF FileIInv, FileReadable

LEMMA FileKept == TypeOK /\ FileIInv /\ [Next]_vars => FileIInv'
<1> SUFFICES ASSUME TypeOK, FileIInv, [Next]_vars PROVE FileIInv'
  OBVIOUS
<1>1. CASE UNCHANGED <<pc, file, disturbed>>
  BY <1>1, StillReadable DEF FileStill, Writing
<1>2. CASE Die
  BY <1>2, DieReadable
<1>3. CASE Open \/ Lose \/ Start \/ Server \/ UNCHANGED vars
  BY <1>1, <1>3 DEF Open, Lose, Start, Server, ServerReceive, ServerEvent, ServerForget,
                    history, vars
<1>4. CASE Receive
  <2>1. Io \in Threads /\ UNCHANGED <<file, disturbed>> /\ pc[Io] /= "write"
    BY <1>4, BothThreads DEF Receive
  <2>2. UNCHANGED pc \/ Goto(Io, "handle")
    BY <1>4 DEF Receive
  <2> QED BY <1>1, <2>1, <2>2, WentElsewhere, StillReadable DEF FileStill
<1>7. CASE Handle
  <2>1. Io \in Threads /\ UNCHANGED <<file, disturbed>> /\ pc[Io] /= "write"
    BY <1>7, BothThreads DEF Handle
  <2>2. Goto(Io, "assign") \/ Goto(Io, "readSid") \/ Goto(Io, "idle")
    BY <1>7 DEF Handle
  <2> QED BY <2>1, <2>2, WentElsewhere, StillReadable DEF FileStill
<1>5. CASE Command /\ ~Die
  <2>1. Console \in Threads /\ UNCHANGED <<file, disturbed>>
    BY <1>5, BothThreads
       DEF Command, Identify, Resume, SendResume, Quit, Stop, Crash, history
  <2>2. CASE Identify
    BY <1>1, <1>5, <2>1, <2>2 DEF Identify, Crash
  <2>3. CASE ~Identify
    <3>1. pc[Console] /= "write"
      BY <1>5, <2>3 DEF Command, Resume, SendResume, Quit, Stop, Crash, CanType
    <3>2. \/ Goto(Console, "assign") \/ Goto(Console, "idle")
          \/ Goto(Console, "readSid") \/ Goto(Console, "stopped")
      BY <1>5, <2>3 DEF Command, Resume, SendResume, Quit, Stop, Crash
    <3> QED BY <2>1, <3>1, <3>2, WentElsewhere, StillReadable DEF FileStill
  <2> QED BY <2>2, <2>3
<1>6. ASSUME NEW t \in Threads, EndAssign(t) \/ ReadSid(t) \/ ReadSeq(t)
      PROVE  FileIInv'
  <2>1. UNCHANGED <<file, disturbed>> /\ pc[t] /= "write"
    BY <1>6 DEF EndAssign, ReadSid, ReadSeq, history
  <2>2. \E label \in PC \ {"write"} : Goto(t, label)
    BY <1>6 DEF EndAssign, ReadSid, ReadSeq, PC
  <2> QED BY <2>1, <2>2, WentElsewhere, StillReadable DEF FileStill
<1> QED BY <1>2, <1>3, <1>4, <1>5, <1>6, <1>7, OpenReadable, WriteReadable DEF Next, Exit, Save

LEMMA FileStarts == Init => FileIInv
BY BothThreads DEF Init, Idle, FileIInv, FileReadable, Writing

(* However the websocket thread's saves and quit's interleave, session.json*)
(* is absent or parses whenever no save is open, unless the last two saves *)
(* overlapped or a process died inside one (main.cpp 33-54, 148-155).      *)
THEOREM FileStaysReadable == Spec => []FileReadable
<1>1. Spec => []FileIInv
  BY TypeCorrect, FileStarts, FileKept, PTL DEF Spec
<1> QED BY <1>1, PTL DEF FileIInv
=============================================================================
