--------------------------- MODULE GatewaySession ---------------------------
(***************************************************************************)
(* A gateway session across runs of the program: Discord::Client           *)
(* (discord.cpp), MyClient and the console commands (main.cpp), the file   *)
(* session.json, and the gateway at the other end.                         *)
(*                                                                         *)
(* Two threads of the process work on the session with no lock: Io runs    *)
(* the websocket handlers (Client::Run), Console runs the commands the     *)
(* user types.  sessionID and session.json are written by both,            *)
(* sequenceNumber by Io only.  A run of the program has one connection:    *)
(* nothing reconnects.  session.json is all that survives a run.           *)
(*                                                                         *)
(* std::string assignment is not atomic and not synchronised: while a      *)
(* thread assigns sessionID another one reads Torn.  UpdateSessionJson is  *)
(* four steps: read the id, read the number, fopen (which truncates),      *)
(* fclose (which writes the buffer at offset 0).                           *)
(*                                                                         *)
(* on_message takes the number of a dispatch before it runs the handler of *)
(* the event, and the handler may fail: Receive and what follows it, from  *)
(* Handle on, are steps of their own, and a dispatch is handled when its   *)
(* handler has returned.                                                   *)
(*                                                                         *)
(* The gateway is external.  It is what the client's code expects of it:   *)
(* READY starts a session and is its dispatch 1, dispatches are numbered,  *)
(* RESUME is answered by the dispatches after the given number and then    *)
(* RESUMED (which carries no number here), or by opcode 9.                 *)
(*                                                                         *)
(* Abstracted: event data, and whether a dispatch is one whose handler     *)
(* saves, chosen when it is handled; HELLO, heartbeats and the event loop  *)
(* itself (module EventLoop); frames on the socket (module SendQueue); the *)
(* time stamp in session.json: a resume may find any file too old, and     *)
(* then does nothing.                                                      *)
(***************************************************************************)
EXTENDS Integers, Sequences, FiniteSets

CONSTANTS Sessions,      \* bound: the sessions the gateway can create
          MaxSeq,        \* bound: dispatches of one session
          MaxPipe,       \* bound: with so many frames on their way, none is added
          Io, Console,   \* the threads
          Torn, NoId,    \* a half-written sessionID; the empty string
          Radix          \* numbers below Radix print with one digit less

ASSUME SessionAssumption ==
  /\ MaxSeq \in Nat \ {0}
  /\ MaxPipe \in Nat \ {0}
  /\ Radix \in Nat
  /\ Io /= Console
  /\ Torn /= NoId
  /\ {Torn, NoId} \cap Sessions = {}

Threads == {Io, Console}
Ids == Sessions \cup {Torn, NoId}

VARIABLES
  \* the gateway
  sent,            \* sent[s]: dispatches of s so far, 0 if s does not exist
  live,            \* sessions that can be resumed
  attached,        \* session of the current connection, or NoId
  \* the connection
  conn,            \* "none" until on_open, "open", "closed"
  toClient,        \* frames not handled by on_message yet
  toServer,        \* frames not handled by the gateway yet
  \* the process
  running,         \* the process exists
  pc,              \* pc[t]: where thread t is
  doc,             \* doc[t]: the rapidjson document thread t works on
  sessionID,       \* Client::sessionID
  sequenceNumber,  \* Client::sequenceNumber
  hand,            \* the dispatch on_message is working on, NoFrame if there is none
  \* what survives it
  file,            \* session.json
  \* history
  settled,         \* settled[s]: numbers of s, in all runs, whose handler has returned,
                   \* or that quit saved in the run that died in their handler
  disturbed,       \* the last saves were open at once, or the process died in one
  identified,      \* this run has sent IDENTIFY
  reopened         \* a run sent RESUME after IDENTIFY, or got READY after dispatches

gateway == <<sent, live, attached>>
connection == <<conn, toClient, toServer>>
history == <<settled, disturbed, identified, reopened>>
vars == <<gateway, connection, running, pc, doc, sessionID, sequenceNumber, hand, file, history>>

-----------------------------------------------------------------------------
SeqNumber == 0..MaxSeq

\* A saved document: the id and the number.
Doc == [sid : Ids, seq : SeqNumber]

NoDoc == [sid |-> NoId, seq |-> 0]

\* kind "json" is a document that parses; "empty" and "garbled" do not.
\* doc: the document last written, which is what a "json" file holds.
\* size: bytes in the file, up to what all documents share.
File == [kind : {"missing", "empty", "garbled", "json"}, doc : Doc, size : Nat]

\* seq is 0 in the frames whose "s" is not a number.
FrameToClient == [kind : {"READY", "EVENT", "RESUMED", "INVALID"}, sid : Ids, seq : SeqNumber]

FrameToServer == [op : {"IDENTIFY", "RESUME"}, sid : Ids, seq : SeqNumber]

\* What on_message has in hand between two frames.
NoFrame == [kind |-> "INVALID", sid |-> NoId, seq |-> 0]

PC == {"idle", "handle", "assign", "send", "readSid", "readSeq", "open", "write", "stop", "stopped"}

TypeOK ==
  /\ sent \in [Sessions -> 0..MaxSeq]
  /\ live \subseteq Sessions
  /\ attached \in live \cup {NoId}
  /\ conn \in {"none", "open", "closed"}
  /\ toClient \in Seq(FrameToClient)
  /\ toServer \in Seq(FrameToServer)
  /\ running \in BOOLEAN
  /\ pc \in [Threads -> PC]
  /\ doc \in [Threads -> Doc]
  /\ sessionID \in Ids
  /\ sequenceNumber \in SeqNumber
  /\ hand \in FrameToClient
  /\ file \in File
  /\ settled \in [Sessions -> SUBSET (1..MaxSeq)]
  /\ disturbed \in BOOLEAN
  /\ identified \in BOOLEAN
  /\ reopened \in BOOLEAN

\* Client::Client
Idle == [t \in Threads |-> "idle"]
NoDocs == [t \in Threads |-> NoDoc]

Init ==
  /\ sent = [s \in Sessions |-> 0]
  /\ live = {}
  /\ attached = NoId
  /\ toClient = <<>>
  /\ toServer = <<>>
  /\ running = TRUE
  /\ conn = "none"
  /\ pc = Idle
  /\ doc = NoDocs
  /\ sessionID = NoId
  /\ sequenceNumber = 0
  /\ hand = NoFrame
  /\ file = [kind |-> "missing", doc |-> NoDoc, size |-> 0]
  /\ settled = [s \in Sessions |-> {}]
  /\ disturbed = FALSE
  /\ identified = FALSE
  /\ reopened = FALSE

Goto(t, label) == pc' = [pc EXCEPT ![t] = label]

-----------------------------------------------------------------------------
(* The connection and the life of the process                              *)

\* on_open sets Client::connection.
Open ==
  /\ running /\ conn = "none" /\ pc[Console] /= "stopped"
  /\ conn' = "open"
  /\ UNCHANGED <<gateway, toClient, toServer, running, pc, doc, sessionID, sequenceNumber, hand, file, history>>

\* Frames on their way are lost with the connection.
Drop ==
  /\ toClient' = <<>>
  /\ toServer' = <<>>
  /\ attached' = NoId

Disconnect == conn' = "closed" /\ Drop

\* The number in hand, if it is one of session s.
InHand(s) == {n \in 1..MaxSeq : hand.sid = s /\ hand.seq = n}

Lose ==
  /\ conn = "open"
  /\ Disconnect
  /\ UNCHANGED <<sent, live, running, pc, doc, sessionID, sequenceNumber, hand, file, history>>

\* quit has saved the dispatch in hand as received.
SavedByQuit(s, n) ==
  /\ pc[Console] \in {"stop", "stopped"}
  /\ file.kind = "json" /\ file.doc.sid = s /\ file.doc.seq >= n

\* The gateway will send the dispatch in hand again, except one saved by quit.
Lost(s) == {n \in InHand(s) : SavedByQuit(s, n)}

\* The process ends where it stands: a kill, a failed assertion, a null
\* dereference.  Its memory is gone; the file keeps what was written.
Die ==
  /\ running
  /\ running' = FALSE
  /\ conn' = "none"
  /\ Drop
  /\ pc' = Idle
  /\ doc' = NoDocs
  /\ sessionID' = NoId
  /\ sequenceNumber' = 0
  /\ hand' = NoFrame
  /\ settled' = [s \in Sessions |-> settled[s] \cup Lost(s)]
  /\ disturbed' = (disturbed \/ \E t \in Threads : pc[t] = "write")
  /\ identified' = FALSE
  /\ UNCHANGED <<sent, live, file, reopened>>

\* main returns: websocket.stop() was called and no handler is running.
Exit == pc[Console] = "stopped" /\ pc[Io] = "idle" /\ Die

Start ==
  /\ ~running
  /\ running' = TRUE
  /\ UNCHANGED <<gateway, connection, pc, doc, sessionID, sequenceNumber, hand, file, history>>

-----------------------------------------------------------------------------
(* The gateway (external)                                                  *)

Push(frames) == toClient' = toClient \o frames

\* Dispatch i of session s
Dispatch(s, i) == [kind |-> IF i = 1 THEN "READY" ELSE "EVENT", sid |-> s, seq |-> i]

NewSession(s) ==
  /\ sent[s] = 0
  /\ sent' = [sent EXCEPT ![s] = 1]
  /\ live' = live \cup {s}
  /\ attached' = s
  /\ Push(<<Dispatch(s, 1)>>)

Resumable(f) == f.sid \in live /\ f.seq <= sent[f.sid]

Replay(f) ==
  /\ attached' = f.sid
  /\ Push([i \in 1..sent[f.sid] - f.seq |-> Dispatch(f.sid, f.seq + i)]
          \o <<[kind |-> "RESUMED", sid |-> f.sid, seq |-> 0]>>)

Invalid == [kind |-> "INVALID", sid |-> NoId, seq |-> 0]

\* A second opening frame on a connection that has a session closes it.
ServerReceive ==
  /\ conn = "open"
  /\ toServer /= <<>>
  /\ Len(toClient) < MaxPipe
  /\ LET f == Head(toServer) IN
     IF attached /= NoId
     THEN Disconnect /\ UNCHANGED <<sent, live>>
     ELSE /\ toServer' = Tail(toServer)
          /\ UNCHANGED conn
          /\ \/ f.op = "IDENTIFY" /\ \E s \in Sessions : NewSession(s)
             \/ f.op = "RESUME" /\ Resumable(f) /\ Replay(f) /\ UNCHANGED <<sent, live>>
             \/ /\ f.op = "RESUME" /\ ~Resumable(f)
                /\ Push(<<Invalid>>)
                /\ UNCHANGED gateway
  /\ UNCHANGED <<running, pc, doc, sessionID, sequenceNumber, hand, file, history>>

\* Something happens in s, whether or not a client is connected.
ServerEvent(s) ==
  /\ s \in live
  /\ sent[s] < MaxSeq
  /\ Len(toClient) < MaxPipe
  /\ sent' = [sent EXCEPT ![s] = @ + 1]
  /\ IF attached = s
     THEN Push(<<Dispatch(s, sent[s] + 1)>>)
     ELSE UNCHANGED toClient
  /\ UNCHANGED <<live, attached, conn, toServer, running, pc, doc, sessionID, sequenceNumber, hand, file, history>>

\* The gateway forgets a session, telling the client if it is connected.
ServerForget(s) ==
  /\ s \in live
  /\ live' = live \ {s}
  /\ IF attached = s
     THEN Len(toClient) < MaxPipe /\ attached' = NoId /\ Push(<<Invalid>>)
     ELSE UNCHANGED <<attached, toClient>>
  /\ UNCHANGED <<sent, conn, toServer, running, pc, doc, sessionID, sequenceNumber, hand, file, history>>

-----------------------------------------------------------------------------
(* on_message, on Io                                                       *)

\* Mutant: what is kept is the number expected next.
LaterExpected(number, f) ==
  IF f.seq > 0 THEN f.seq + 1 ELSE number

\* Mutant: the dispatches of this run are counted instead.
LaterCounted(number, f) ==
  IF f.seq > 0 THEN number + 1 ELSE number

Later(number, f) ==
  IF f.seq > number THEN f.seq ELSE number

\* The number is taken first; document, of which only READY's names a
\* session, goes to the handler.  What has no number is only printed.
Receive ==
  /\ running /\ pc[Io] = "idle" /\ pc[Console] /= "stopped"
  /\ conn = "open"
  /\ toClient /= <<>>
  /\ LET f == Head(toClient) IN
     /\ toClient' = Tail(toClient)
     /\ sequenceNumber' = Later(sequenceNumber, f)
     /\ reopened' = (reopened \/ (f.kind = "READY" /\ sequenceNumber > 0))
     /\ doc' = IF f.kind = "READY" THEN [doc EXCEPT ![Io].sid = f.sid] ELSE doc
     /\ IF f.seq > 0
        THEN hand' = f /\ Goto(Io, "handle")
        ELSE UNCHANGED <<hand, pc>>
  /\ UNCHANGED <<gateway, conn, toServer, running, sessionID, file, settled, disturbed, identified>>

\* The handler of the dispatch in hand returns.
HandlerReturns ==
  /\ settled' = [settled EXCEPT ![hand.sid] = @ \cup {hand.seq}]
  /\ hand' = NoFrame

\* The event is dispatched on its name.
Handle ==
  /\ pc[Io] = "handle"
  /\ \/ /\ hand.kind = "READY"   \* ProcessReady assigns sessionID
        /\ sessionID' = Torn
        /\ Goto(Io, "assign")
        /\ UNCHANGED <<hand, settled>>
     \/ /\ hand.kind = "EVENT"   \* GUILD_CREATE: OnGuildCreate ends with a save
        /\ Goto(Io, "readSid")
        /\ UNCHANGED <<hand, settled, sessionID>>
     \/ /\ hand.kind = "EVENT"   \* any other
        /\ HandlerReturns
        /\ Goto(Io, "idle")
        /\ UNCHANGED sessionID
  /\ UNCHANGED <<gateway, connection, running, doc, sequenceNumber, file, disturbed, identified, reopened>>

-----------------------------------------------------------------------------
(* sessionID = ..., in ProcessReady on Io and in SendResume on Console     *)

Other(t) == IF t = Io THEN Console ELSE Io

\* Two assignments at once may leave a mixture behind.
EndAssign(t) ==
  /\ pc[t] = "assign"
  /\ \/ sessionID' = doc[t].sid
     \/ pc[Other(t)] = "assign" /\ sessionID' = Torn
  /\ IF t = Io
     THEN Goto(t, "readSid") /\ doc' = [doc EXCEPT ![t] = NoDoc]
     ELSE Goto(t, "send") /\ UNCHANGED doc
  /\ UNCHANGED <<gateway, connection, running, sequenceNumber, hand, file, history>>

-----------------------------------------------------------------------------
(* MyClient::UpdateSessionJson, after READY and GUILD_CREATE on Io and for *)
(* quit on Console                                                         *)

ReadSid(t) ==
  /\ pc[t] = "readSid"
  /\ doc' = [doc EXCEPT ![t].sid = sessionID]
  /\ Goto(t, "readSeq")
  /\ UNCHANGED <<gateway, connection, running, sessionID, sequenceNumber, hand, file, history>>

\* Mutant: the number saved is the one expected next.
ReadSeqExpected(t) ==
  /\ pc[t] = "readSeq"
  /\ doc' = [doc EXCEPT ![t].seq = sequenceNumber + 1]
  /\ Goto(t, "open")
  /\ UNCHANGED <<gateway, connection, running, sessionID, sequenceNumber, hand, file, history>>

ReadSeq(t) ==
  /\ pc[t] = "readSeq"
  /\ doc' = [doc EXCEPT ![t].seq = sequenceNumber]
  /\ Goto(t, "open")
  /\ UNCHANGED <<gateway, connection, running, sessionID, sequenceNumber, hand, file, history>>

\* Mutant: the file is opened without truncating it.
OpenFileInPlace(t) ==
  /\ pc[t] = "open"
  /\ disturbed' = (pc[Other(t)] = "write")
  /\ Goto(t, "write")
  /\ UNCHANGED <<gateway, connection, running, doc, sessionID, sequenceNumber, hand, file, settled, identified, reopened>>

\* fopen(.., "wb") truncates
OpenFile(t) ==
  /\ pc[t] = "open"
  /\ file' = [file EXCEPT !.kind = "empty", !.size = 0]
  /\ disturbed' = (pc[Other(t)] = "write")
  /\ Goto(t, "write")
  /\ UNCHANGED <<gateway, connection, running, doc, sessionID, sequenceNumber, hand, settled, identified, reopened>>

\* Bytes by which documents differ: 32 for an id, the digits of the number.
Size(d) == (IF d.sid = NoId THEN 0 ELSE 32) + (IF d.seq < Radix THEN 1 ELSE 2)

\* What a document leaves of a longer one that is already there stays behind
\* it.  The handlers of READY and GUILD_CREATE end with the save.
WriteFile(t) ==
  /\ pc[t] = "write"
  /\ doc' = [doc EXCEPT ![t] = NoDoc]
  /\ file' = IF Size(doc[t]) >= file.size
             THEN [kind |-> "json", doc |-> doc[t], size |-> Size(doc[t])]
             ELSE [kind |-> "garbled", doc |-> doc[t], size |-> file.size]
  /\ Goto(t, IF t = Io THEN "idle" ELSE "stop")
  /\ IF t = Io THEN HandlerReturns ELSE UNCHANGED <<hand, settled>>
  /\ UNCHANGED <<gateway, connection, running, sessionID, sequenceNumber, disturbed, identified, reopened>>

-----------------------------------------------------------------------------
(* Console commands                                                        *)

\* A frame leaves if the connection is open; a closed one drops it.
Transmit(f) ==
  toServer' = IF conn = "open" THEN Append(toServer, f) ELSE toServer

CanType == running /\ pc[Console] = "idle"

\* Client::connection is null before on_open.
Crash == conn = "none" /\ Die

Identify ==
  /\ CanType
  /\ \/ Crash
     \/ /\ conn /= "none"
        /\ Len(toServer) < MaxPipe
        /\ Transmit([op |-> "IDENTIFY", sid |-> NoId, seq |-> 0])
        /\ identified' = TRUE
        /\ UNCHANGED <<gateway, conn, toClient, running, pc, doc, sessionID, sequenceNumber, hand, file, settled, disturbed, reopened>>

\* LoadAndSendResume up to the assignment in SendResume.  A file that is
\* missing or does not parse fails an assertion.
Resume ==
  /\ CanType
  /\ \/ file.kind /= "json" /\ Die
     \/ /\ file.kind = "json"
        /\ Len(toServer) < MaxPipe
        /\ doc' = [doc EXCEPT ![Console] = file.doc]
        /\ sessionID' = Torn
        /\ Goto(Console, "assign")
        /\ reopened' = (reopened \/ identified)
        /\ UNCHANGED <<gateway, connection, running, sequenceNumber, hand, file, settled, disturbed, identified>>

\* The rest of SendResume: sequenceNumber is sent and not stored.
SendResume ==
  /\ pc[Console] = "send"
  /\ \/ Crash
     \/ /\ conn /= "none"
        /\ Transmit([op |-> "RESUME", sid |-> doc[Console].sid, seq |-> doc[Console].seq])
        /\ doc' = [doc EXCEPT ![Console] = NoDoc]
        /\ Goto(Console, "idle")
        /\ UNCHANGED <<gateway, conn, toClient, running, sessionID, sequenceNumber, hand, file, history>>

Quit ==
  /\ CanType
  /\ Goto(Console, "readSid")
  /\ UNCHANGED <<gateway, connection, running, doc, sessionID, sequenceNumber, hand, file, history>>

\* websocket.stop() closes the socket and stops the io_service.
Stop ==
  /\ pc[Console] = "stop"
  /\ Goto(Console, "stopped")
  /\ Disconnect
  /\ UNCHANGED <<sent, live, running, doc, sessionID, sequenceNumber, hand, file, history>>

-----------------------------------------------------------------------------
Server ==
  \/ ServerReceive
  \/ \E s \in Sessions : ServerForget(s) \/ ServerEvent(s)

Command == Identify \/ Resume \/ SendResume \/ Quit \/ Stop

Save(t) == ReadSid(t) \/ ReadSeq(t) \/ OpenFile(t) \/ WriteFile(t)

Next ==
  \/ Open \/ Lose \/ Die \/ Exit \/ Start
  \/ Server \/ Receive \/ Handle \/ Command
  \/ \E t \in Threads : EndAssign(t) \/ Save(t)

Spec == Init /\ [][Next]_vars

-----------------------------------------------------------------------------
(* Before a dispatch is handled all earlier ones of its session were, in   *)
(* this run or in another: closing, crashing, saving and resuming never    *)
(* make the client skip an event but in one way.  on_message counts before *)
(* it handles (discord.cpp 168-171): if quit saves in between and the      *)
(* process then dies in the handler, the event is lost.  The other         *)
(* exception is a run that opened two sessions on its connection: neither  *)
(* SendResume nor ProcessReady resets sequenceNumber, and the two threads  *)
(* assign sessionID in any order (discord.cpp 102-105, 136, 168-169).      *)
NoEventSkipped ==
  ~reopened => \A s \in Sessions : \A n \in settled[s] : 1..n \subseteq settled[s]

(* What session.json says of a session that can still be resumed: every    *)
(* dispatch up to the saved number was handled, except one that is still   *)
(* in its handler, and those that were lost to a quit in this way          *)
(* (main.cpp 33-54).  Two sessions in a run are excepted again.            *)
SavedWasHandled ==
  ~reopened /\ file.kind = "json" /\ file.doc.sid \in live =>
    LET s == file.doc.sid IN 1..file.doc.seq \subseteq settled[s] \cup InHand(s)

(* Outside a save session.json is absent or parses, unless the last saves  *)
(* overlapped or the process died inside one: LoadAndSendResume, which     *)
(* aborts on anything else (main.cpp 116-122), can rely on no more.        *)
FileReadable ==
  ~disturbed /\ (\A t \in Threads : pc[t] /= "write") => file.kind \in {"missing", "json"}

Back(d, e) == d.sid \in Sessions /\ e.sid = d.sid /\ e.seq < d.seq

EndsSave(t) == pc[t] = "write" /\ running' /\ pc'[t] /= "write"

(* A save made by a websocket handler (READY, GUILD_CREATE) never takes    *)
(* the number of the session back, in whatever run the last one was saved  *)
(* (main.cpp 61-88).                                                       *)
HandlerSavesAdvance ==
  [][EndsSave(Io) /\ ~reopened => ~Back(file.doc, file'.doc)]_vars

(* main.cpp:150: quit "writes the latest sequence number to the            *)
(* session.json file".  A quit that saves no number of its own leaves the  *)
(* session where it was.                                                   *)
QuitKeepsNumber ==
  [][EndsSave(Console) /\ file'.doc.seq = 0 => ~Back(file.doc, file'.doc)]_vars

(* The same line, for a run that has handled dispatches: what quit writes  *)
(* is not older than what the file already held.                           *)
QuitSavesLatest ==
  [][EndsSave(Console) /\ file'.doc.seq > 0 => ~Back(file.doc, file'.doc)]_vars
=============================================================================
