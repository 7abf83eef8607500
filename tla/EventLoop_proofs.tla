-------------------------- MODULE EventLoop_proofs --------------------------
(***************************************************************************)
(* For any bound on HELLO frames: EventLoop is type correct, the heartbeat *)
(* chain is neither broken nor multiplied, and Client::Run returns for the *)
(* reasons that WhyRunReturned lists.                                      *)
(*                                                                         *)
(* IInv is inductive.  Its parts: the connection's chain of operations has *)
(* exactly one link outstanding, an operation or the handler of one, until *)
(* the chain ends (Link); a HELLO that waits to be handled still fits the  *)
(* bound (HelloFits); there are at most as many waits as HELLO frames, and *)
(* at least one from the first of them to the close (AtMost, AtLeast); the *)
(* chain begins with connect (Fresh); and whatever stopped the io_service  *)
(* was stop() or the end of all work (Reason).                             *)
(***************************************************************************)
EXTENDS EventLoop, FiniteSetTheorems, FunctionTheorems, SequenceTheorems, TLAPS

\* The stages in which the chain goes on, and the handlers that end a link.
Linked == {"resolve", "connect", "handshake", "upgrade", "read"}

EndOfLink == {"op", "error", "hello", "message", "close"}

NoLink(s) == \A i \in DOMAIN s : s[i] \notin EndOfLink

OneLink(s) ==
  \E i \in DOMAIN s : /\ s[i] \in EndOfLink
                      /\ \A j \in DOMAIN s : s[j] \in EndOfLink => j = i

Link ==
  IF stage \in Linked
  THEN (op /\ NoLink(ready)) \/ (~op /\ OneLink(ready))
  ELSE ~op /\ NoLink(ready)

Waiting(h, s) == \E i \in DOMAIN s : s[i] = h

HelloFits == Waiting("hello", ready) => hellos < MaxHellos

AtMost == Waits <= hellos

AtLeast == ~crashed /\ hellos > 0 /\ stage /= "closed" => Waits >= 1

Fresh ==
  /\ main \in {"create", "internal", "restart", "connect"} => stage = "none"
  /\ main \in {"run", "join", "exited"} => stage /= "none"

Reason ==
  /\ main \in {"join", "exited"} => stopped
  /\ stopped => console = "done" \/ stage = "closed" \/ (stage = "failed" /\ hellos = 0)

IInv ==
  /\ TypeOK
  /\ Link
  /\ HelloFits
  /\ AtMost
  /\ AtLeast
  /\ Fresh
  /\ Reason

-----------------------------------------------------------------------------
(* What posting a handler and taking the first one do to the links and the *)
(* waits in the queue.                                                     *)

(* The handlers that have been posted are counted by a natural number.     *)
LEMMA ExpiredType ==
  ASSUME NEW s \in Seq(Handler)
  PROVE  /\ IsFiniteSet({i \in DOMAIN s : s[i] = "timer"})
         /\ Expired(s) \in Nat
<1>1. DOMAIN s = 1..Len(s) /\ Len(s) \in Nat
  BY LenProperties
<1>2. IsFiniteSet(1..Len(s))
  BY <1>1, FS_Interval
<1>3. {i \in DOMAIN s : s[i] = "timer"} \in SUBSET (1..Len(s))
  BY <1>1
<1>4. IsFiniteSet({i \in DOMAIN s : s[i] = "timer"})
  BY <1>2, <1>3, FS_Subset
<1>5. QED
  BY <1>4, FS_CardinalityType DEF Expired

(* A posted handler is one more wait if it is that of an expired timer.    *)
LEMMA PostExpired ==
  ASSUME NEW s \in Seq(Handler), NEW h \in Handler
  PROVE  Expired(Append(s, h)) = IF h = "timer" THEN Expired(s) + 1 ELSE Expired(s)
<1> DEFINE t == Append(s, h)
           S == {i \in DOMAIN s : s[i] = "timer"}
           T == {i \in DOMAIN t : t[i] = "timer"}
<1>1. /\ DOMAIN s = 1..Len(s) /\ Len(s) \in Nat
      /\ DOMAIN t = 1..Len(s) + 1
      /\ \A i \in 1..Len(s) : t[i] = s[i]
      /\ t[Len(s) + 1] = h
  BY AppendProperties, LenProperties
<1>2. IsFiniteSet(S) /\ Len(s) + 1 \notin S
  <2>1. IsFiniteSet(S)
    BY ExpiredType
  <2>2. Len(s) + 1 \notin S
    BY <1>1
  <2>3. QED
    BY <2>1, <2>2
<1> HIDE DEF t
<1>3. CASE h = "timer"
  <2>1. T = S \cup {Len(s) + 1}
    BY <1>1, <1>3
  <2>2. QED
    BY <1>2, <1>3, <2>1, FS_AddElement DEF Expired, t
<1>4. CASE h /= "timer"
  <2>1. T = S
    BY <1>1, <1>4
  <2>2. QED
    BY <1>4, <2>1 DEF Expired, t
<1>5. QED
  BY <1>3, <1>4

(* Taking the first handler is one wait less if it was that of a timer.    *)
LEMMA TakeExpired ==
  ASSUME NEW s \in Seq(Handler), s /= <<>>
  PROVE  Expired(Tail(s)) = IF s[1] = "timer" THEN Expired(s) - 1 ELSE Expired(s)
<1> DEFINE t == Tail(s)
           S == {i \in DOMAIN s : s[i] = "timer"}
           T == {i \in DOMAIN t : t[i] = "timer"}
           F == [i \in T |-> i + 1]
<1>1. /\ DOMAIN s = 1..Len(s) /\ Len(s) \in Nat \ {0}
      /\ DOMAIN t = 1..Len(s) - 1 /\ t \in Seq(Handler)
      /\ \A i \in 1..Len(s) - 1 : t[i] = s[i + 1]
  <2>1. DOMAIN s = 1..Len(s) /\ Len(s) \in Nat \ {0}
    BY LenProperties, EmptySeq
  <2>2. /\ t \in Seq(Handler) /\ Len(t) = Len(s) - 1
        /\ \A i \in 1..Len(t) : t[i] = s[i + 1]
    BY HeadTailProperties
  <2>3. DOMAIN t = 1..Len(t)
    BY <2>2, LenProperties
  <2>4. QED
    BY <2>1, <2>2, <2>3
<1>2. IsFiniteSet(S) /\ IsFiniteSet(T)
  BY <1>1, ExpiredType
<1> HIDE DEF t
<1>3. F \in Bijection(T, S \ {1})
  <2>1. F \in [T -> S \ {1}]
    BY <1>1
  <2>2. \A a, b \in T : F[a] = F[b] => a = b
    BY <1>1
  <2>3. \A i \in S \ {1} : \E j \in T : F[j] = i
    <3> SUFFICES ASSUME NEW i \in S \ {1} PROVE \E j \in T : F[j] = i
      OBVIOUS
    <3>1. i - 1 \in T /\ F[i - 1] = i
      BY <1>1
    <3>2. QED
      BY <3>1
  <2>4. QED
    BY <2>1, <2>2, <2>3, Fun_IsBij
<1>4. Cardinality(S \ {1}) = Cardinality(T)
  BY <1>2, <1>3, FS_Bijection DEF ExistsBijection
<1>5. 1 \in S <=> s[1] = "timer"
  BY <1>1
<1>6. QED
  BY <1>2, <1>4, <1>5, FS_RemoveElement DEF Expired, t

(* A posted handler ends a link or leaves the links alone.                 *)
LEMMA PostLink ==
  ASSUME NEW s \in Seq(Handler), NEW h \in Handler
  PROVE  /\ h \in EndOfLink /\ NoLink(s) => OneLink(Append(s, h))
         /\ h \notin EndOfLink /\ NoLink(s) => NoLink(Append(s, h))
         /\ h \notin EndOfLink /\ OneLink(s) => OneLink(Append(s, h))
<1> DEFINE t == Append(s, h)
<1>1. /\ DOMAIN s = 1..Len(s) /\ Len(s) \in Nat
      /\ DOMAIN t = 1..Len(s) + 1
      /\ \A i \in 1..Len(s) : t[i] = s[i]
      /\ t[Len(s) + 1] = h
  BY AppendProperties, LenProperties
<1> HIDE DEF t
<1>2. ASSUME h \in EndOfLink, NoLink(s) PROVE OneLink(t)
  <2>1. Len(s) + 1 \in DOMAIN t /\ t[Len(s) + 1] \in EndOfLink
    BY <1>1, <1>2
  <2>2. \A j \in DOMAIN t : t[j] \in EndOfLink => j = Len(s) + 1
    BY <1>1, <1>2 DEF NoLink
  <2>3. QED
    BY <2>1, <2>2 DEF OneLink
<1>3. ASSUME h \notin EndOfLink, NoLink(s) PROVE NoLink(t)
  BY <1>1, <1>3 DEF NoLink
<1>4. ASSUME h \notin EndOfLink, OneLink(s) PROVE OneLink(t)
  <2>1. PICK i \in DOMAIN s : s[i] \in EndOfLink /\ \A j \in DOMAIN s : s[j] \in EndOfLink => j = i
    BY <1>4 DEF OneLink
  <2>2. i \in DOMAIN t /\ t[i] \in EndOfLink
    BY <1>1, <2>1
  <2>3. \A j \in DOMAIN t : t[j] \in EndOfLink => j = i
    BY <1>1, <1>4, <2>1
  <2>4. QED
    BY <2>2, <2>3 DEF OneLink
<1>5. QED
  BY <1>2, <1>3, <1>4 DEF t

(* Taking the first handler takes the link it ends, if it ends one.        *)
LEMMA TakeLink ==
  ASSUME NEW s \in Seq(Handler), s /= <<>>
  PROVE  /\ s[1] \in EndOfLink => ~NoLink(s)
         /\ s[1] \in EndOfLink /\ OneLink(s) => NoLink(Tail(s))
         /\ s[1] \notin EndOfLink /\ OneLink(s) => OneLink(Tail(s))
         /\ NoLink(s) => NoLink(Tail(s))
<1> DEFINE t == Tail(s)
<1>1. /\ DOMAIN s = 1..Len(s) /\ Len(s) \in Nat \ {0}
      /\ DOMAIN t = 1..Len(s) - 1
      /\ \A i \in 1..Len(s) - 1 : t[i] = s[i + 1]
  <2>1. DOMAIN s = 1..Len(s) /\ Len(s) \in Nat \ {0}
    BY LenProperties, EmptySeq
  <2>2. /\ t \in Seq(Handler) /\ Len(t) = Len(s) - 1
        /\ \A i \in 1..Len(t) : t[i] = s[i + 1]
    BY HeadTailProperties
  <2>3. DOMAIN t = 1..Len(t)
    BY <2>2, LenProperties
  <2>4. QED
    BY <2>1, <2>2, <2>3
<1> HIDE DEF t
<1>2. s[1] \in EndOfLink => ~NoLink(s)
  BY <1>1 DEF NoLink
<1>3. ASSUME s[1] \in EndOfLink, OneLink(s) PROVE NoLink(t)
  <2>1. \A j \in DOMAIN s : s[j] \in EndOfLink => j = 1
    BY <1>1, <1>3 DEF OneLink
  <2>2. QED
    BY <1>1, <2>1 DEF NoLink
<1>4. ASSUME s[1] \notin EndOfLink, OneLink(s) PROVE OneLink(t)
  <2>1. PICK i \in DOMAIN s : s[i] \in EndOfLink /\ \A j \in DOMAIN s : s[j] \in EndOfLink => j = i
    BY <1>4 DEF OneLink
  <2>2. i - 1 \in DOMAIN t /\ t[i - 1] \in EndOfLink
    BY <1>1, <1>4, <2>1
  <2>3. ASSUME NEW j \in DOMAIN t, t[j] \in EndOfLink PROVE j = i - 1
    <3>1. j + 1 \in DOMAIN s /\ s[j + 1] \in EndOfLink /\ j \in Nat
      BY <1>1, <2>3
    <3>2. j + 1 = i
      BY <2>1, <3>1
    <3>3. QED
      BY <3>1, <3>2
  <2>4. QED
    BY <2>2, <2>3 DEF OneLink
<1>5. NoLink(s) => NoLink(t)
  BY <1>1 DEF NoLink
<1>6. QED
  BY <1>2, <1>3, <1>4, <1>5 DEF t

(* A handler that waits was posted last or waited before.                  *)
LEMMA PostWaiting ==
  ASSUME NEW s \in Seq(Handler), NEW h \in Handler, NEW g
  PROVE  /\ Append(s, h) \in Seq(Handler)
         /\ Waiting(g, Append(s, h)) => g = h \/ Waiting(g, s)
<1> DEFINE t == Append(s, h)
<1>1. /\ DOMAIN s = 1..Len(s) /\ Len(s) \in Nat
      /\ t \in Seq(Handler) /\ DOMAIN t = 1..Len(s) + 1
      /\ \A i \in 1..Len(s) : t[i] = s[i]
      /\ t[Len(s) + 1] = h
  BY AppendProperties, LenProperties
<1> HIDE DEF t
<1>2. Waiting(g, t) => g = h \/ Waiting(g, s)
  BY <1>1 DEF Waiting
<1>3. QED
  BY <1>1, <1>2 DEF t

(* Taking the first handler leaves handlers that waited before.            *)
LEMMA TakeWaiting ==
  ASSUME NEW s \in Seq(Handler), s /= <<>>, NEW g
  PROVE  /\ Tail(s) \in Seq(Handler)
         /\ Waiting(s[1], s)
         /\ Waiting(g, Tail(s)) => Waiting(g, s)
<1>1. /\ DOMAIN s = 1..Len(s) /\ Len(s) \in Nat \ {0}
  BY LenProperties, EmptySeq
<1>2. /\ Tail(s) \in Seq(Handler) /\ Len(Tail(s)) = Len(s) - 1
      /\ \A i \in 1..Len(Tail(s)) : Tail(s)[i] = s[i + 1]
  BY HeadTailProperties
<1>3. ASSUME NEW i \in DOMAIN Tail(s), Tail(s)[i] = g PROVE Waiting(g, s)
  <2>1. i \in 1..Len(Tail(s))
    BY <1>2, LenProperties
  <2>2. i + 1 \in DOMAIN s /\ s[i + 1] = g
    BY <1>1, <1>2, <1>3, <2>1
  <2>3. QED
    BY <2>2 DEF Waiting
<1>4. QED
  BY <1>1, <1>2, <1>3 DEF Waiting

(* Without a link in the queue no HELLO waits in it.                       *)
LEMMA NoLinkNoHello ==
  ASSUME NEW s, NoLink(s)
  PROVE  ~Waiting("hello", s)
  BY DEF NoLink, Waiting, EndOfLink

(* The waits are counted by natural numbers.                               *)
LEMMA WaitsType ==
  ASSUME TypeOK
  PROVE  /\ hellos \in Nat
         /\ IsFiniteSet(armed) /\ Cardinality(armed) \in Nat
         /\ Expired(ready) \in Nat
<1>1. hellos \in Nat
  BY HelloAssumption DEF TypeOK
<1>2. IsFiniteSet(armed)
  <2>1. IsFiniteSet(1..hellos)
    BY <1>1, FS_Interval
  <2>2. armed \in SUBSET (1..hellos)
    BY DEF TypeOK
  <2>3. QED
    BY <2>1, <2>2, FS_Subset
<1>3. QED
  BY <1>1, <1>2, FS_CardinalityType, ExpiredType DEF TypeOK

(* Handlers are taken while the io_service runs: nothing has stopped it.   *)
LEMMA RunningFacts ==
  ASSUME IInv, NEW h, Running(h)
  PROVE  /\ ready \in Seq(Handler) /\ ready /= <<>> /\ ready[1] = h
         /\ ~crashed /\ ~stopped /\ main = "run"
         /\ Tail(ready) \in Seq(Handler)
         /\ h \in EndOfLink => stage \in Linked /\ ~op /\ NoLink(Tail(ready))
         /\ h = "hello" => hellos < MaxHellos
         /\ Expired(Tail(ready)) = IF h = "timer" THEN Expired(ready) - 1 ELSE Expired(ready)
<1>1. /\ ready \in Seq(Handler) /\ ready /= <<>> /\ ready[1] = h
      /\ ~crashed /\ ~stopped /\ main = "run"
  BY DEF IInv, TypeOK, Running
<1>2. Tail(ready) \in Seq(Handler) /\ Waiting(h, ready)
  BY <1>1, TakeWaiting
<1>3. h \in EndOfLink => stage \in Linked /\ ~op /\ NoLink(Tail(ready))
  BY <1>1, TakeLink DEF IInv, Link
<1>4. h = "hello" => hellos < MaxHellos
  BY <1>2 DEF IInv, HelloFits
<1>5. Expired(Tail(ready)) = IF h = "timer" THEN Expired(ready) - 1 ELSE Expired(ready)
  BY <1>1, TakeExpired
<1>6. QED
  BY <1>1, <1>2, <1>3, <1>4, <1>5

(* A handler that ends no link leaves the chain as it is when it is taken. *)
LEMMA PassingFacts ==
  ASSUME IInv, NEW h, h \notin EndOfLink, Running(h)
  PROVE  /\ OneLink(ready) => OneLink(Tail(ready))
         /\ NoLink(ready) => NoLink(Tail(ready))
         /\ Waiting("hello", Tail(ready)) => Waiting("hello", ready)
<1>1. ready \in Seq(Handler) /\ ready /= <<>> /\ ready[1] \notin EndOfLink
  BY DEF IInv, TypeOK, Running
<1>2. OneLink(ready) => OneLink(Tail(ready))
  BY <1>1, TakeLink
<1>3. NoLink(ready) => NoLink(Tail(ready))
  BY <1>1, TakeLink
<1>4. Waiting("hello", Tail(ready)) => Waiting("hello", ready)
  BY <1>1, TakeWaiting
<1>5. QED
  BY <1>2, <1>3, <1>4

-----------------------------------------------------------------------------
(* Each action keeps IInv.                                                 *)

(* A step that leaves the connection, the timers and the queue alone.      *)
LEMMA SameQueue ==
  ASSUME IInv, UNCHANGED <<stage, op, hellos, armed, ready>>, crashed => crashed'
  PROVE  Link' /\ HelloFits' /\ AtMost' /\ AtLeast'
<1> USE DEF IInv
<1>1. Link' /\ HelloFits'
  BY DEF Link, NoLink, OneLink, HelloFits, Waiting
<1>2. Waits' = Waits
  BY DEF Waits, Expired
<1>3. crashed' = FALSE => crashed = FALSE
  BY DEF TypeOK
<1>4. AtMost' /\ AtLeast'
  BY <1>2 DEF AtMost, AtLeast
<1>5. QED
  BY <1>1, <1>4

(* The pending operation ends: its handler is posted.                      *)
LEMMA LinkEnds ==
  ASSUME IInv, NEW h \in EndOfLink, op, op' = FALSE, ready' = Append(ready, h),
         h = "hello" => hellos < MaxHellos,
         UNCHANGED <<stage, hellos, armed, crashed>>
  PROVE  ready' \in Seq(Handler) /\ Link' /\ HelloFits' /\ AtMost' /\ AtLeast'
<1> USE DEF IInv
<1>1. ready \in Seq(Handler) /\ h \in Handler /\ h /= "timer"
  BY DEF TypeOK, Handler, EndOfLink
<1>2. ready' \in Seq(Handler)
  BY <1>1, PostWaiting
<1>3. Link'
  <2>1. stage \in Linked /\ NoLink(ready)
    BY DEF Link
  <2>2. OneLink(ready')
    BY <1>1, <2>1, PostLink
  <2>3. OneLink(ready)'
    BY <2>2 DEF OneLink
  <2>4. QED
    BY <2>1, <2>3 DEF Link
<1>4. HelloFits'
  <2>1. Waiting("hello", ready') => h = "hello" \/ Waiting("hello", ready)
    BY <1>1, PostWaiting
  <2>2. Waiting("hello", ready)' <=> Waiting("hello", ready')
    BY DEF Waiting
  <2>3. QED
    BY <2>1, <2>2 DEF HelloFits
<1>5. Waits' = Waits
  <2>1. Expired(ready') = Expired(ready)
    BY <1>1, PostExpired
  <2>2. QED
    BY <2>1 DEF Waits, Expired
<1>6. AtMost' /\ AtLeast'
  BY <1>5 DEF AtMost, AtLeast
<1>7. QED
  BY <1>2, <1>3, <1>4, <1>6

(* The initial states satisfy the invariant.                               *)
LEMMA Initially == Init => IInv
<1> SUFFICES ASSUME Init PROVE IInv
  OBVIOUS
<1> USE HelloAssumption DEF Init
<1>1. TypeOK
  <2>1. stage \in Stage /\ main \in MainPC
    BY DEF MainPC, Stage
  <2>2. hellos \in 0..MaxHellos /\ armed \subseteq 1..hellos
    OBVIOUS
  <2>3. ready \in Seq(Handler)
    BY EmptySeq
  <2>4. QED
    BY <2>1, <2>2, <2>3 DEF TypeOK
<1>2. Link /\ HelloFits
  BY DEF Link, NoLink, HelloFits, Waiting, Linked
<1>3. Waits = 0
  <2>1. {i \in DOMAIN ready : ready[i] = "timer"} = {}
    OBVIOUS
  <2>2. QED
    BY <2>1, FS_EmptySet DEF Waits, Expired
<1>4. AtMost /\ AtLeast
  BY <1>3 DEF AtMost, AtLeast
<1>5. Fresh /\ Reason
  BY DEF Fresh, Reason
<1>6. QED
  BY <1>1, <1>2, <1>4, <1>5 DEF IInv

(* The steps of the main thread that only move it on.                      *)
LEMMA MainStep ==
  ASSUME IInv, CreateService \/ SetInternal \/ RestartIfStopped \/ Return \/ Join
  PROVE  IInv'
<1> USE DEF CreateService, SetInternal, RestartIfStopped, Return, Join, Step, net
<1>1. Link' /\ HelloFits' /\ AtMost' /\ AtLeast'
  BY SameQueue
<1>2. TypeOK'
  BY DEF IInv, TypeOK, MainPC
<1>3. Fresh' /\ Reason'
  BY DEF IInv, Fresh, Reason
<1>4. QED
  BY <1>1, <1>2, <1>3 DEF IInv

(* connect() starts the chain.                                             *)
LEMMA ConnectStep == ASSUME IInv, Connect PROVE IInv'
<1> USE DEF IInv, Connect, Step
<1>1. stage = "none"
  BY DEF Fresh
<1>2. TypeOK'
  BY DEF TypeOK, MainPC, Stage, Chain
<1>3. Link'
  BY <1>1 DEF Link, Linked, NoLink
<1>4. HelloFits'
  BY DEF HelloFits, Waiting
<1>5. Waits' = Waits
  BY DEF Waits, Expired
<1>6. AtMost' /\ AtLeast'
  BY <1>1, <1>5 DEF AtMost, AtLeast
<1>7. Fresh' /\ Reason'
  BY <1>1 DEF Fresh, Reason
<1>8. QED
  BY <1>2, <1>3, <1>4, <1>6, <1>7

(* With no work left, either the connection never said HELLO and failed,   *)
(* or a close frame has ended it.                                          *)
LEMMA OutOfWorkStep == ASSUME IInv, OutOfWork PROVE IInv'
<1> USE DEF IInv, OutOfWork, net
<1>1. Link' /\ HelloFits' /\ AtMost' /\ AtLeast'
  BY SameQueue
<1>2. TypeOK'
  BY DEF TypeOK
<1>3. ~op /\ armed = {} /\ ready = <<>>
  BY DEF Work, TypeOK
<1>4. Waits = 0
  <2>1. {i \in DOMAIN ready : ready[i] = "timer"} = {}
    BY <1>3
  <2>2. QED
    BY <1>3, <2>1, FS_EmptySet DEF Waits, Expired
<1>5. hellos = 0 \/ stage = "closed"
  BY <1>4, WaitsType DEF AtLeast
<1>6. stage \notin Linked
  BY <1>3 DEF Link, OneLink
<1>7. stage \in {"closed", "failed"}
  BY <1>6 DEF Fresh, TypeOK, Stage, Linked, Chain
<1>8. Fresh' /\ Reason'
  BY <1>5, <1>7 DEF Fresh, Reason
<1>9. QED
  BY <1>1, <1>2, <1>8

(* Commands and the end of a write.                                        *)
LEMMA ConsoleStep ==
  ASSUME IInv, ConsoleSend \/ Quit \/ StopService \/ EndWrite
  PROVE  IInv'
<1> USE DEF ConsoleSend, Quit, StopService, EndWrite, net
<1>1. Link' /\ HelloFits' /\ AtMost' /\ AtLeast'
  BY SameQueue
<1>2. TypeOK'
  BY DEF IInv, TypeOK
<1>3. Fresh'
  BY DEF IInv, Fresh
<1>4. Reason'
  <2>1. CASE StopService
    BY <2>1 DEF IInv, Reason
  <2>2. CASE Quit
    BY <2>2 DEF IInv, Reason
  <2>3. CASE ConsoleSend \/ EndWrite
    BY <2>3 DEF IInv, Reason
  <2>4. QED
    BY <2>1, <2>2, <2>3
<1>5. QED
  BY <1>1, <1>2, <1>3, <1>4 DEF IInv

(* stop() cancels the pending operation, if the socket has one.            *)
LEMMA CloseConnectionStep == ASSUME IInv, CloseConnection PROVE IInv'
<1> USE DEF CloseConnection
<1>1. CASE op /\ stage /= "resolve"
  <2>1. ready' \in Seq(Handler) /\ Link' /\ HelloFits' /\ AtMost' /\ AtLeast'
    BY <1>1, LinkEnds DEF EndOfLink
  <2>2. TypeOK'
    BY <1>1, <2>1 DEF IInv, TypeOK
  <2>3. Fresh' /\ Reason'
    BY DEF IInv, Fresh, Reason
  <2>4. QED
    BY <2>1, <2>2, <2>3 DEF IInv
<1>2. CASE ~(op /\ stage /= "resolve")
  <2>1. Link' /\ HelloFits' /\ AtMost' /\ AtLeast'
    BY <1>2, SameQueue
  <2>2. TypeOK'
    BY <1>2 DEF IInv, TypeOK
  <2>3. Fresh' /\ Reason'
    BY DEF IInv, Fresh, Reason
  <2>4. QED
    BY <2>1, <2>2, <2>3 DEF IInv
<1>3. QED
  BY <1>1, <1>2

(* An operation succeeds or fails, or a frame arrives.                     *)
LEMMA LinkEndsStep ==
  ASSUME IInv,
         Succeed \/ FailOp \/ \E frame \in {"hello", "message", "close"} : Arrive(frame)
  PROVE  IInv'
<1> USE DEF Succeed, FailOp, Arrive, Post
<1>1. PICK h \in EndOfLink : ready' = Append(ready, h) /\ (h = "hello" => hellos < MaxHellos)
  BY DEF EndOfLink
<1>2. op /\ op' = FALSE /\ UNCHANGED <<stage, hellos, armed, crashed>>
  OBVIOUS
<1>3. ready' \in Seq(Handler) /\ Link' /\ HelloFits' /\ AtMost' /\ AtLeast'
  BY <1>1, <1>2, LinkEnds
<1>4. TypeOK'
  BY <1>2, <1>3 DEF IInv, TypeOK
<1>5. Fresh' /\ Reason'
  BY DEF IInv, Fresh, Reason
<1>6. QED
  BY <1>3, <1>4, <1>5 DEF IInv

(* A timer expires: its wait moves from the clock to the queue.            *)
LEMMA ExpireStep == ASSUME IInv, NEW timer \in armed, Expire(timer) PROVE IInv'
<1> USE DEF IInv, Expire, Post, net
<1>1. ready \in Seq(Handler) /\ "timer" \in Handler /\ "timer" \notin EndOfLink
  BY DEF TypeOK, Handler, EndOfLink
<1>2. ready' \in Seq(Handler)
  BY <1>1, PostWaiting
<1>3. TypeOK'
  BY <1>2 DEF TypeOK
<1>4. Link'
  <2>1. /\ NoLink(ready) => NoLink(ready')
        /\ OneLink(ready) => OneLink(ready')
    BY <1>1, PostLink
  <2>2. (NoLink(ready)' <=> NoLink(ready')) /\ (OneLink(ready)' <=> OneLink(ready'))
    BY DEF NoLink, OneLink
  <2>3. QED
    BY <2>1, <2>2 DEF Link
<1>5. HelloFits'
  <2>1. Waiting("hello", ready') => Waiting("hello", ready)
    BY <1>1, PostWaiting
  <2>2. Waiting("hello", ready)' <=> Waiting("hello", ready')
    BY DEF Waiting
  <2>3. QED
    BY <2>1, <2>2 DEF HelloFits
<1>6. Waits' = Waits
  <2>1. Expired(ready') = Expired(ready) + 1
    BY <1>1, PostExpired
  <2>2. Cardinality(armed') = Cardinality(armed) - 1
    BY WaitsType, FS_RemoveElement
  <2>3. Cardinality(armed) \in Nat /\ Expired(ready) \in Nat
    BY WaitsType
  <2>4. /\ Waits = Cardinality(armed) + Expired(ready)
        /\ Waits' = Cardinality(armed') + Expired(ready')
    BY DEF Waits, Expired
  <2>5. QED
    BY <2>1, <2>2, <2>3, <2>4
<1>7. AtMost' /\ AtLeast'
  BY <1>6 DEF AtMost, AtLeast
<1>8. Fresh' /\ Reason'
  BY DEF Fresh, Reason
<1>9. QED
  BY <1>3, <1>4, <1>5, <1>7, <1>8

(* The handler of a link that starts the next operation: the next link of  *)
(* the chain, or the next read after a frame that is not HELLO.            *)
LEMMA NextLinkStep == ASSUME IInv, Advance \/ OnMessage PROVE IInv'
<1> USE DEF IInv, Advance, OnMessage, net
<1>1. PICK h \in {"op", "message"} : Running(h)
  OBVIOUS
<1>2. /\ ready' = Tail(ready) /\ op' = TRUE
      /\ UNCHANGED <<main, console, internal, stopped, broken, hellos, armed, writing, crashed>>
  OBVIOUS
<1>3. /\ Tail(ready) \in Seq(Handler) /\ NoLink(Tail(ready))
      /\ stage \in Linked /\ Expired(Tail(ready)) = Expired(ready) /\ ~stopped
  BY <1>1, RunningFacts DEF EndOfLink
<1>4. stage' \in Linked
  <2>1. CASE OnMessage
    BY <1>3, <2>1
  <2>2. CASE Advance
    BY <2>2 DEF Chain, Linked
  <2>3. QED
    BY <2>1, <2>2
<1>5. TypeOK'
  <2>1. stage' \in Stage
    BY <1>4 DEF Linked, Stage, Chain
  <2>2. opened' \in BOOLEAN
    BY DEF TypeOK
  <2>3. QED
    BY <1>2, <1>3, <2>1, <2>2 DEF TypeOK
<1>6. Link' /\ HelloFits'
  <2>1. NoLink(ready)'
    BY <1>2, <1>3 DEF NoLink
  <2>2. ~Waiting("hello", ready)'
    BY <2>1 DEF NoLink, Waiting, EndOfLink
  <2>3. QED
    BY <1>2, <1>4, <2>1, <2>2 DEF Link, HelloFits
<1>7. Waits' = Waits
  BY <1>2, <1>3 DEF Waits, Expired
<1>8. AtMost' /\ AtLeast'
  BY <1>2, <1>3, <1>7 DEF AtMost, AtLeast, Linked
<1>9. Fresh' /\ Reason'
  BY <1>2, <1>3, <1>4 DEF Fresh, Reason, Linked
<1>10. QED
  BY <1>5, <1>6, <1>8, <1>9

(* on_error ends the chain and leaves the waits.                           *)
LEMMA OnErrorStep == ASSUME IInv, OnError PROVE IInv'
<1> USE DEF IInv, OnError, net
<1>1. /\ Tail(ready) \in Seq(Handler) /\ NoLink(Tail(ready)) /\ ~op
      /\ stage \in Linked /\ Expired(Tail(ready)) = Expired(ready) /\ ~stopped
      /\ main = "run"
  BY RunningFacts DEF EndOfLink
<1>2. TypeOK'
  <2>1. stage' \in Stage
    BY DEF Stage
  <2>2. QED
    BY <1>1, <2>1 DEF TypeOK
<1>3. Link' /\ HelloFits'
  <2>1. NoLink(ready)'
    BY <1>1 DEF NoLink
  <2>2. ~Waiting("hello", ready)'
    BY <2>1 DEF NoLink, Waiting, EndOfLink
  <2>3. QED
    BY <1>1, <2>1, <2>2 DEF Link, HelloFits, Linked
<1>4. Waits' = Waits
  BY <1>1 DEF Waits, Expired
<1>5. AtMost' /\ AtLeast'
  BY <1>1, <1>4 DEF AtMost, AtLeast, Linked
<1>6. Fresh' /\ Reason'
  BY <1>1 DEF Fresh, Reason
<1>7. QED
  BY <1>2, <1>3, <1>5, <1>6

(* HELLO makes one more timer and arms it.                                 *)
LEMMA OnHelloStep == ASSUME IInv, OnHello PROVE IInv'
<1> USE DEF IInv, OnHello
<1>1. /\ Tail(ready) \in Seq(Handler) /\ NoLink(Tail(ready)) /\ hellos < MaxHellos
      /\ stage \in Linked /\ Expired(Tail(ready)) = Expired(ready) /\ ~stopped
      /\ main = "run"
  BY RunningFacts DEF EndOfLink
<1>2. /\ hellos \in Nat /\ IsFiniteSet(armed) /\ armed \subseteq 1..hellos
      /\ Cardinality(armed) \in Nat /\ Expired(ready) \in Nat
  BY WaitsType DEF TypeOK
<1>3. TypeOK'
  <2>1. hellos' \in 0..MaxHellos /\ armed' \subseteq 1..hellos'
    BY <1>1, <1>2, HelloAssumption
  <2>2. QED
    BY <1>1, <2>1 DEF TypeOK
<1>4. Link' /\ HelloFits'
  <2>1. NoLink(ready)'
    BY <1>1 DEF NoLink
  <2>2. ~Waiting("hello", ready)'
    BY <2>1 DEF NoLink, Waiting, EndOfLink
  <2>3. QED
    BY <1>1, <2>1, <2>2 DEF Link, HelloFits
<1>5. Waits' = Waits + 1
  <2>1. hellos + 1 \notin armed
    BY <1>2
  <2>2. Cardinality(armed') = Cardinality(armed) + 1
    BY <1>2, <2>1, FS_AddElement
  <2>3. Expired(ready)' = Expired(ready)
    BY <1>1 DEF Expired
  <2>4. QED
    BY <1>2, <2>2, <2>3 DEF Waits
<1>6. Waits \in Nat
  BY <1>2 DEF Waits
<1>7. AtMost' /\ AtLeast'
  BY <1>2, <1>5, <1>6 DEF AtMost, AtLeast
<1>8. Fresh' /\ Reason'
  BY <1>1 DEF Fresh, Reason
<1>9. QED
  BY <1>3, <1>4, <1>7, <1>8

(* A cancelled wait goes to the end of the queue; it is no longer a wait,  *)
(* and it ends no link.                                                    *)
LEMMA CancelPosts ==
  ASSUME NEW s \in Seq(Handler)
  PROVE  /\ s \o CancelCurrent \in Seq(Handler)
         /\ Expired(s \o CancelCurrent) = Expired(s)
         /\ NoLink(s) => NoLink(s \o CancelCurrent)
         /\ OneLink(s) => OneLink(s \o CancelCurrent)
         /\ Waiting("hello", s \o CancelCurrent) => Waiting("hello", s)
<1>1. CASE hellos \in armed
  <2>1. "aborted" \in Handler /\ "aborted" \notin EndOfLink
    BY DEF Handler, EndOfLink
  <2>2. s \o CancelCurrent = Append(s, "aborted")
    BY <1>1, <2>1, AppendIsConcat DEF CancelCurrent
  <2>3. QED
    BY <2>1, <2>2, PostWaiting, PostExpired, PostLink
<1>2. CASE hellos \notin armed
  <2>1. s \o CancelCurrent = s
    BY <1>2, ConcatEmptySeq DEF CancelCurrent
  <2>2. QED
    BY <2>1
<1>3. QED
  BY <1>1, <1>2

(* A close frame ends the chain and at most the wait of the current timer. *)
LEMMA OnCloseStep == ASSUME IInv, OnClose PROVE IInv'
<1> USE DEF IInv, OnClose
<1>1. /\ Tail(ready) \in Seq(Handler) /\ NoLink(Tail(ready)) /\ ~op
      /\ Expired(Tail(ready)) = Expired(ready) /\ ~stopped /\ main = "run"
  BY RunningFacts DEF EndOfLink
<1>2. /\ ready' \in Seq(Handler) /\ NoLink(ready') /\ Expired(ready') = Expired(ready)
  BY <1>1, CancelPosts
<1>3. /\ hellos \in Nat /\ IsFiniteSet(armed) /\ Cardinality(armed) \in Nat
      /\ Expired(ready) \in Nat
  BY WaitsType
<1>4. TypeOK'
  <2>1. stage' \in Stage
    BY DEF Stage
  <2>2. armed' \subseteq 1..hellos'
    BY DEF TypeOK
  <2>3. crashed' \in BOOLEAN
    OBVIOUS
  <2>4. QED
    BY <1>2, <2>1, <2>2, <2>3 DEF TypeOK
<1>5. Link' /\ HelloFits'
  <2>1. NoLink(ready)'
    BY <1>2 DEF NoLink
  <2>2. ~Waiting("hello", ready)'
    BY <2>1 DEF NoLink, Waiting, EndOfLink
  <2>3. QED
    BY <1>1, <2>1, <2>2 DEF Link, HelloFits, Linked
<1>6. Waits' <= hellos
  <2>1. Cardinality(armed') \in Nat /\ Cardinality(armed') <= Cardinality(armed)
    <3>1. armed' \in SUBSET armed
      OBVIOUS
    <3>2. QED
      BY <1>3, <3>1, FS_Subset, FS_CardinalityType
  <2>2. /\ Waits = Cardinality(armed) + Expired(ready)
        /\ Waits' = Cardinality(armed') + Expired(ready')
    BY DEF Waits, Expired
  <2>3. QED
    BY <1>2, <1>3, <2>1, <2>2 DEF AtMost
<1>7. AtMost' /\ AtLeast'
  BY <1>6 DEF AtMost, AtLeast
<1>8. Fresh' /\ Reason'
  BY <1>1 DEF Fresh, Reason
<1>9. QED
  BY <1>4, <1>5, <1>7, <1>8

(* A heartbeat takes its own wait and leaves the current timer waiting.    *)
LEMMA HeartbeatStep == ASSUME IInv, Heartbeat PROVE IInv'
<1>0. "timer" \notin EndOfLink /\ Running("timer")
  BY DEF EndOfLink, Heartbeat
<1>1. /\ Tail(ready) \in Seq(Handler) /\ Expired(Tail(ready)) = Expired(ready) - 1
      /\ OneLink(ready) => OneLink(Tail(ready))
      /\ NoLink(ready) => NoLink(Tail(ready))
      /\ Waiting("hello", Tail(ready)) => Waiting("hello", ready)
      /\ ~stopped /\ main = "run"
  <2>1. Tail(ready) \in Seq(Handler) /\ ~stopped /\ main = "run"
    BY <1>0, RunningFacts
  <2>2. Expired(Tail(ready)) = IF "timer" = "timer" THEN Expired(ready) - 1 ELSE Expired(ready)
    BY <1>0, RunningFacts
  <2>3. /\ OneLink(ready) => OneLink(Tail(ready))
        /\ NoLink(ready) => NoLink(Tail(ready))
        /\ Waiting("hello", Tail(ready)) => Waiting("hello", ready)
    BY <1>0, PassingFacts
  <2>4. QED
    BY <2>1, <2>2, <2>3
<1> USE DEF IInv, Heartbeat, net
<1>2. /\ ready' \in Seq(Handler) /\ Expired(ready') = Expired(ready) - 1
      /\ OneLink(ready) => OneLink(ready')
      /\ NoLink(ready) => NoLink(ready')
      /\ Waiting("hello", ready') => Waiting("hello", ready)
  BY <1>1, CancelPosts
<1>3. /\ hellos \in Nat /\ IsFiniteSet(armed) /\ Cardinality(armed) \in Nat
      /\ Expired(ready) \in Nat
  BY WaitsType
<1>4. Expired(ready') \in Nat
  BY <1>2, ExpiredType
<1>5. hellos >= 1
  BY <1>2, <1>3, <1>4 DEF AtMost, Waits
<1>6. TypeOK'
  <2>1. armed' \subseteq 1..hellos'
    BY <1>3, <1>5 DEF TypeOK
  <2>2. QED
    BY <1>2, <2>1 DEF TypeOK
<1>7. Link' /\ HelloFits'
  <2>1. /\ NoLink(ready)' <=> NoLink(ready')
        /\ OneLink(ready)' <=> OneLink(ready')
        /\ Waiting("hello", ready)' <=> Waiting("hello", ready')
    BY DEF NoLink, OneLink, Waiting
  <2>2. QED
    BY <1>2, <2>1 DEF Link, HelloFits
<1>8. Waits' <= hellos /\ Waits' >= 1
  <2>1. /\ Cardinality(armed') \in Nat /\ Cardinality(armed') <= Cardinality(armed) + 1
        /\ Cardinality(armed') >= 1
    <3>1. /\ IsFiniteSet(armed')
          /\ Cardinality(armed') = IF hellos \in armed THEN Cardinality(armed)
                                                      ELSE Cardinality(armed) + 1
      BY <1>3, FS_AddElement
    <3>2. Cardinality(armed') \in Nat /\ Cardinality(armed') /= 0
      BY <3>1, FS_CardinalityType, FS_EmptySet
    <3>3. QED
      BY <1>3, <3>1, <3>2
  <2>2. /\ Waits = Cardinality(armed) + Expired(ready)
        /\ Waits' = Cardinality(armed') + Expired(ready')
    BY DEF Waits, Expired
  <2>3. QED
    BY <1>2, <1>3, <1>4, <2>1, <2>2 DEF AtMost
<1>9. AtMost' /\ AtLeast'
  BY <1>8 DEF AtMost, AtLeast
<1>10. Fresh' /\ Reason'
  BY <1>1 DEF Fresh, Reason
<1>11. QED
  BY <1>6, <1>7, <1>9, <1>10

(* A cancelled wait is dropped.                                            *)
LEMMA AbortedStep == ASSUME IInv, Aborted PROVE IInv'
<1>0. "aborted" \notin EndOfLink /\ Running("aborted")
  BY DEF EndOfLink, Aborted
<1>1. /\ Tail(ready) \in Seq(Handler) /\ Expired(Tail(ready)) = Expired(ready)
      /\ OneLink(ready) => OneLink(Tail(ready))
      /\ NoLink(ready) => NoLink(Tail(ready))
      /\ Waiting("hello", Tail(ready)) => Waiting("hello", ready)
      /\ ~stopped /\ main = "run"
  <2>1. Tail(ready) \in Seq(Handler) /\ ~stopped /\ main = "run"
    BY <1>0, RunningFacts
  <2>2. Expired(Tail(ready)) = IF "aborted" = "timer" THEN Expired(ready) - 1 ELSE Expired(ready)
    BY <1>0, RunningFacts
  <2>3. /\ OneLink(ready) => OneLink(Tail(ready))
        /\ NoLink(ready) => NoLink(Tail(ready))
        /\ Waiting("hello", Tail(ready)) => Waiting("hello", ready)
    BY <1>0, PassingFacts
  <2>4. QED
    BY <2>1, <2>2, <2>3
<1> USE DEF IInv, Aborted, net
<1>2. TypeOK'
  BY <1>1 DEF TypeOK
<1>3. Link' /\ HelloFits'
  <2>1. /\ NoLink(ready)' <=> NoLink(Tail(ready))
        /\ OneLink(ready)' <=> OneLink(Tail(ready))
        /\ Waiting("hello", ready)' <=> Waiting("hello", Tail(ready))
    BY DEF NoLink, OneLink, Waiting
  <2>2. QED
    BY <1>1, <2>1 DEF Link, HelloFits
<1>4. Waits' = Waits
  BY <1>1 DEF Waits, Expired
<1>5. AtMost' /\ AtLeast'
  BY <1>4 DEF AtMost, AtLeast
<1>6. Fresh' /\ Reason'
  BY <1>1 DEF Fresh, Reason
<1>7. QED
  BY <1>2, <1>3, <1>5, <1>6

(* Every step keeps the invariant.                                         *)
LEMMA Inductive == Spec => []IInv
<1>1. IInv /\ [Next]_vars => IInv'
  <2> SUFFICES ASSUME IInv, [Next]_vars PROVE IInv'
    OBVIOUS
  <2>1. CASE UNCHANGED vars
    <3>1. Link' /\ HelloFits' /\ AtMost' /\ AtLeast'
      BY <2>1, SameQueue DEF vars, net
    <3>2. QED
      BY <2>1, <3>1 DEF vars, net, IInv, TypeOK, Fresh, Reason
  <2>2. CASE Main
    BY <2>2, MainStep, ConnectStep, OutOfWorkStep DEF Main
  <2>3. CASE ConsoleSend \/ Quit \/ Stop
    BY <2>3, ConsoleStep, CloseConnectionStep DEF Stop
  <2>4. CASE Run
    BY <2>4, NextLinkStep, OnErrorStep, OnHelloStep, OnCloseStep, HeartbeatStep, AbortedStep DEF Run
  <2>5. CASE Environment
    BY <2>5, LinkEndsStep, ConsoleStep, ExpireStep DEF Environment
  <2>6. QED
    BY <2>1, <2>2, <2>3, <2>4, <2>5 DEF Next
<1>2. QED
  BY <1>1, Initially, PTL DEF Spec

-----------------------------------------------------------------------------
(* Every variable keeps its type: no more HELLO frames are handled than    *)
(* arrived, and only timers that a HELLO made are armed (discord.cpp       *)
(* 107-118).                                                               *)
THEOREM TypeCorrect == Spec => []TypeOK
  BY Inductive, PTL DEF IInv

(* Between HELLO and the close frame there is a wait for the next          *)
(* heartbeat, and there are never more than HELLO frames, whatever their   *)
(* number (discord.cpp 86-118).                                            *)
THEOREM ChainUnbroken == Spec => []HeartbeatChain
<1>1. IInv => HeartbeatChain
  BY DEF IInv, AtMost, AtLeast, HeartbeatChain
<1>2. QED
  BY <1>1, Inductive, PTL

(* Client::Run returns after stop(), after a close frame, or when the      *)
(* connection failed before HELLO, whatever the number of HELLO frames     *)
(* (discord.cpp 208-217).                                                  *)
THEOREM RunReturnedForAReason == Spec => []WhyRunReturned
<1>1. IInv => WhyRunReturned
  BY DEF IInv, Reason, WhyRunReturned
<1>2. QED
  BY <1>1, Inductive, PTL
=============================================================================
