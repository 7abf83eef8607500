-------------------------- MODULE Heartbeat_proofs --------------------------
(***************************************************************************)
(* Theorems about Heartbeat, for every set of intervals, every slack and   *)
(* every time MaxBusy of which the slack has room for three.               *)
(*                                                                         *)
(* HeartbeatInTime says nothing of what is to come.  Prompt adds it: the   *)
(* current timer has a wait that is not late by more than the time since   *)
(* the last poll, or its expired wait is in the queue, or the handler that *)
(* sets it anew is running.                                                *)
(***************************************************************************)
EXTENDS HeartbeatTimers, FiniteSetTheorems, FunctionTheorems, SequenceTheorems,
        WellFoundedInduction, TLAPS

\* The task is in the queue once, and behind it are cancelled waits only.
OnePoll(q) ==
  \E p \in DOMAIN q :
    /\ q[p] = "poll"
    /\ \A k \in 1..p - 1 : q[k] /= "poll"
    /\ \A k \in p + 1..Len(q) : q[k] = "aborted"

In(x, q) == \E j \in DOMAIN q : q[j] = x

\* A heartbeat is finished before anything else is run.
RearmFirst == \A j \in DOMAIN queue : j > 1 => queue[j] /= "rearm"

RearmSoon == queue[1] = "rearm" => now - last <= spent

Waiting(w) ==
  /\ w.timer = hellos
  /\ w.time <= last + (interval - Slack) + MaxBusy
  /\ now <= w.time + spent

Prompt ==
  hellos > 0 /\ ~closed /\ interval >= Slack =>
    \/ queue[1] = "rearm"
    \/ \E w \in waits : Waiting(w)
    \/ In("wait", queue) /\ now - last <= (interval - Slack) + 2 * MaxBusy + spent

IInv ==
  /\ TypeOK
  /\ IsFiniteSet(waits)
  /\ OnePoll(queue)
  /\ RearmFirst
  /\ RearmSoon
  /\ Prompt

-----------------------------------------------------------------------------
(* The queue                                                               *)

Kind == Handlers \cup {"poll"}

LEMMA Joined ==
  ASSUME NEW p \in Seq(Kind), NEW q \in Seq(Kind)
  PROVE  /\ p \o q \in Seq(Kind) /\ Len(p \o q) = Len(p) + Len(q)
         /\ \A j \in 1..Len(p) : (p \o q)[j] = p[j]
         /\ \A j \in 1..Len(q) : (p \o q)[Len(p) + j] = q[j]
         /\ \A j \in 1..Len(p \o q) :
              \/ j \in 1..Len(p) /\ (p \o q)[j] = p[j]
              \/ j - Len(p) \in 1..Len(q) /\ (p \o q)[j] = q[j - Len(p)]
<1>1. /\ p \o q \in Seq(Kind) /\ Len(p \o q) = Len(p) + Len(q)
      /\ \A j \in 1..Len(p) + Len(q) :
           (p \o q)[j] = IF j <= Len(p) THEN p[j] ELSE q[j - Len(p)]
  BY ConcatProperties
<1>2. Len(p) \in Nat /\ Len(q) \in Nat
  BY LenProperties
<1> QED BY <1>1, <1>2

LEMMA OneEach ==
  /\ <<"poll">> \in Seq(Kind) /\ Len(<<"poll">>) = 1 /\ <<"poll">>[1] = "poll"
  /\ <<"aborted">> \in Seq(Kind) /\ Len(<<"aborted">>) = 1 /\ <<"aborted">>[1] = "aborted"
  /\ <<"rearm">> \in Seq(Kind) /\ Len(<<"rearm">>) = 1 /\ <<"rearm">>[1] = "rearm"
  /\ \A x \in {"other", "close", "hello"} :
       <<x>> \in Seq(Kind) /\ Len(<<x>>) = 1 /\ <<x>>[1] = x
  /\ <<>> \in Seq(Kind) /\ Len(<<>>) = 0
BY DEF Kind, Handlers

LEMMA Ended ==
  ASSUME NEW p \in Seq(Kind), NEW x \in Kind
  PROVE  /\ p \o <<x>> \in Seq(Kind) /\ Len(p \o <<x>>) = Len(p) + 1
         /\ \A j \in 1..Len(p) : (p \o <<x>>)[j] = p[j]
         /\ (p \o <<x>>)[Len(p) + 1] = x
<1> DEFINE one == <<x>>
<1>1. one \in Seq(Kind) /\ Len(one) = 1 /\ one[1] = x
  OBVIOUS
<1>2. HIDE DEF one
<1>3. /\ p \o one \in Seq(Kind) /\ Len(p \o one) = Len(p) + 1
      /\ \A j \in 1..Len(p) : (p \o one)[j] = p[j]
      /\ (p \o one)[Len(p) + 1] = x
  <2>1. /\ p \o one \in Seq(Kind) /\ Len(p \o one) = Len(p) + Len(one)
        /\ \A j \in 1..Len(p) : (p \o one)[j] = p[j]
        /\ \A j \in 1..Len(one) : (p \o one)[Len(p) + j] = one[j]
    BY <1>1, Joined
  <2>2. 1 \in 1..Len(one)
    BY <1>1
  <2>3. (p \o one)[Len(p) + 1] = one[1]
    BY <2>1, <2>2
  <2> QED BY <1>1, <2>1, <2>3
<1> QED BY <1>3 DEF one

LEMMA Popped ==
  ASSUME NEW q \in Seq(Kind), OnePoll(q), q[1] /= "poll"
  PROVE  /\ q /= <<>> /\ Tail(q) \in Seq(Kind) /\ Tail(q) /= <<>>
         /\ OnePoll(Tail(q))
         /\ \A x : In(x, q) /\ q[1] /= x => In(x, Tail(q))
         /\ \A j \in DOMAIN Tail(q) : j + 1 \in DOMAIN q /\ Tail(q)[j] = q[j + 1]
<1>1. PICK p \in DOMAIN q : /\ q[p] = "poll"
                            /\ \A k \in 1..p - 1 : q[k] /= "poll"
                            /\ \A k \in p + 1..Len(q) : q[k] = "aborted"
  BY DEF OnePoll
<1>2. p \in 2..Len(q)
  BY <1>1
<1>3. /\ q /= <<>> /\ Tail(q) \in Seq(Kind) /\ Len(Tail(q)) = Len(q) - 1
      /\ \A j \in 1..Len(q) - 1 : Tail(q)[j] = q[j + 1]
  BY <1>2
<1>4. OnePoll(Tail(q))
  <2>1. /\ p - 1 \in DOMAIN Tail(q)
        /\ Tail(q)[p - 1] = "poll"
        /\ \A k \in 1..p - 2 : Tail(q)[k] /= "poll"
        /\ \A k \in p..Len(Tail(q)) : Tail(q)[k] = "aborted"
    BY <1>1, <1>2, <1>3
  <2> QED BY <2>1, <1>2 DEF OnePoll
<1>5. ASSUME NEW x, In(x, q), q[1] /= x PROVE In(x, Tail(q))
  <2>1. PICK j \in DOMAIN q : q[j] = x
    BY <1>5 DEF In
  <2>2. j - 1 \in DOMAIN Tail(q) /\ Tail(q)[j - 1] = x
    BY <2>1, <1>3, <1>5
  <2> QED BY <2>2 DEF In
<1>6. \A j \in DOMAIN Tail(q) : j + 1 \in DOMAIN q /\ Tail(q)[j] = q[j + 1]
  BY <1>3
<1>7. Tail(q) /= <<>>
  BY <1>2, <1>3
<1>8. \A x : In(x, q) /\ q[1] /= x => In(x, Tail(q))
  BY <1>5
<1> QED BY <1>3, <1>4, <1>6, <1>7, <1>8

LEMMA Posted ==
  ASSUME NEW q \in Seq(Kind), OnePoll(q), NEW more \in {<<>>, <<"aborted">>}
  PROVE  /\ q \o more \in Seq(Kind)
         /\ OnePoll(q \o more)
         /\ \A x : In(x, q) => In(x, q \o more)
         /\ \A j \in DOMAIN (q \o more) :
              (j \in DOMAIN q /\ (q \o more)[j] = q[j]) \/ (q \o more)[j] = "aborted"
         /\ q /= <<>> => (q \o more)[1] = q[1]
<1>1. /\ q \o more \in Seq(Kind) /\ Len(q \o more) = Len(q) + Len(more)
      /\ \A j \in 1..Len(q) : (q \o more)[j] = q[j]
      /\ \A j \in Len(q) + 1..Len(q) + Len(more) : (q \o more)[j] = "aborted"
  <2>1. /\ more \in Seq(Kind) /\ Len(more) \in Nat
        /\ \A j \in 1..Len(more) : more[j] = "aborted"
    <3>1. CASE more = <<>> BY <3>1, OneEach
    <3>2. CASE more = <<"aborted">> BY <3>2, OneEach
    <3> QED BY <3>1, <3>2
  <2>2. Len(q) \in Nat
    BY LenProperties
  <2> QED BY <2>1, <2>2, Joined
<1>2. OnePoll(q \o more)
  <2>1. PICK p \in DOMAIN q : /\ q[p] = "poll"
                              /\ \A k \in 1..p - 1 : q[k] /= "poll"
                              /\ \A k \in p + 1..Len(q) : q[k] = "aborted"
    BY DEF OnePoll
  <2>2. /\ p \in DOMAIN (q \o more)
        /\ (q \o more)[p] = "poll"
        /\ \A k \in 1..p - 1 : (q \o more)[k] /= "poll"
        /\ \A k \in p + 1..Len(q \o more) : (q \o more)[k] = "aborted"
    BY <2>1, <1>1
  <2> QED BY <2>2 DEF OnePoll
<1> QED BY <1>1, <1>2 DEF In

LEMMA Polled ==
  ASSUME NEW q \in Seq(Kind), OnePoll(q), q[1] = "poll",
         NEW arrived \in {<<>>, <<"other">>, <<"close">>, <<"hello">>},
         NEW n \in Nat,
         NEW next, next = Tail(q) \o arrived \o [i \in 1..n |-> "wait"] \o <<"poll">>
  PROVE  /\ next \in Seq(Kind)
         /\ OnePoll(next)
         /\ n > 0 => In("wait", next)
         /\ \A j \in DOMAIN next : next[j] /= "rearm"
         /\ ~In("wait", q)
<1>1. /\ q /= <<>>
      /\ \A k \in 2..Len(q) : q[k] = "aborted"
  BY DEF OnePoll
<1>2. DEFINE expired == [i \in 1..n |-> "wait"]
<1>3. /\ Tail(q) \in Seq(Kind) /\ Len(Tail(q)) = Len(q) - 1
      /\ \A j \in 1..Len(Tail(q)) : Tail(q)[j] = "aborted"
  BY <1>1
<1>4. /\ expired \in Seq(Kind) /\ Len(expired) = n
      /\ \A j \in 1..n : expired[j] = "wait"
  BY DEF Kind, Handlers
<1>5. /\ arrived \in Seq(Kind)
      /\ \A j \in 1..Len(arrived) : arrived[j] \notin {"poll", "rearm"}
  <2>1. CASE arrived = <<>> BY <2>1, OneEach
  <2>2. ASSUME NEW x \in {"other", "close", "hello"}, arrived = <<x>>
        PROVE  /\ arrived \in Seq(Kind)
               /\ \A j \in 1..Len(arrived) : arrived[j] \notin {"poll", "rearm"}
    BY <2>2, OneEach
  <2> QED BY <2>1, <2>2
<1>6. DEFINE front == Tail(q) \o arrived
<1>7. /\ front \in Seq(Kind) /\ Len(front) = Len(Tail(q)) + Len(arrived)
      /\ \A j \in 1..Len(front) : front[j] \notin {"poll", "rearm"}
  BY <1>3, <1>5, Joined
<1> HIDE DEF expired, front
<1>8. DEFINE batch == front \o expired
<1>9. /\ batch \in Seq(Kind) /\ Len(batch) = Len(front) + n
      /\ \A j \in 1..Len(batch) : batch[j] \notin {"poll", "rearm"}
      /\ n > 0 => batch[Len(front) + 1] = "wait"
  <2>1. /\ batch \in Seq(Kind) /\ Len(batch) = Len(front) + Len(expired)
        /\ \A j \in 1..Len(expired) : batch[Len(front) + j] = expired[j]
        /\ \A j \in 1..Len(batch) :
             \/ j \in 1..Len(front) /\ batch[j] = front[j]
             \/ j - Len(front) \in 1..Len(expired) /\ batch[j] = expired[j - Len(front)]
    BY <1>4, <1>7, Joined
  <2>2. n > 0 => 1 \in 1..n
    OBVIOUS
  <2> HIDE DEF batch
  <2> QED BY <2>1, <2>2, <1>4, <1>7
<1>10. next = batch \o <<"poll">>
  BY DEF front, expired
<1> HIDE DEF batch
<1>11. /\ next \in Seq(Kind) /\ Len(next) = Len(batch) + 1
       /\ \A j \in 1..Len(batch) : next[j] = batch[j]
       /\ next[Len(batch) + 1] = "poll"
       /\ Len(batch) \in Nat /\ Len(front) \in Nat
  <2>1. Len(batch) \in Nat /\ Len(front) \in Nat
    BY <1>7, <1>9, LenProperties
  <2>2. "poll" \in Kind
    BY DEF Kind
  <2>3. /\ batch \o <<"poll">> \in Seq(Kind) /\ Len(batch \o <<"poll">>) = Len(batch) + 1
        /\ \A j \in 1..Len(batch) : (batch \o <<"poll">>)[j] = batch[j]
        /\ (batch \o <<"poll">>)[Len(batch) + 1] = "poll"
    BY <2>2, <1>9, Ended
  <2> QED BY <2>1, <2>3, <1>10
<1>12. OnePoll(next)
  <2>1. /\ Len(batch) + 1 \in DOMAIN next
        /\ \A k \in 1..(Len(batch) + 1) - 1 : next[k] /= "poll"
        /\ \A k \in (Len(batch) + 1) + 1..Len(next) : next[k] = "aborted"
    <3>1. ASSUME NEW k \in 1..(Len(batch) + 1) - 1 PROVE next[k] /= "poll"
      <4>1. k \in 1..Len(batch)
        BY <1>11
      <4> QED BY <4>1, <1>9, <1>11
    <3>2. Len(batch) + 1 \in DOMAIN next
      BY <1>11
    <3>3. ~ \E k \in (Len(batch) + 1) + 1..Len(next) : TRUE
      BY <1>11
    <3> QED BY <3>1, <3>2, <3>3
  <2> QED BY <2>1, <1>11 DEF OnePoll
<1>13. n > 0 => In("wait", next)
  <2> SUFFICES ASSUME n > 0 PROVE In("wait", next)
    OBVIOUS
  <2>1. Len(front) + 1 \in 1..Len(batch) /\ Len(front) + 1 \in DOMAIN next
    BY <1>9, <1>11
  <2> QED BY <2>1, <1>9, <1>11 DEF In
<1>14. \A j \in DOMAIN next : next[j] /= "rearm"
  <2> TAKE j \in DOMAIN next
  <2>1. j \in 1..Len(batch) \/ j = Len(batch) + 1
    BY <1>11
  <2> QED BY <2>1, <1>9, <1>11
<1>15. ~In("wait", q)
  BY <1>1 DEF In
<1> QED BY <1>11, <1>12, <1>13, <1>14, <1>15

-----------------------------------------------------------------------------
LEMMA Starts == Init => IInv
<1> SUFFICES ASSUME Init PROVE IInv
  OBVIOUS
<1>1. TypeOK
  <2>1. queue \in Seq(Handlers \cup {"poll"})
    BY OneEach DEF Init, Kind
  <2>2. beats \in Seq(0..now)
    BY EmptySeq DEF Init
  <2>3. waits \subseteq [timer : Nat, time : Int]
    BY DEF Init
  <2>4. /\ now \in Nat /\ spent \in 0..MaxBusy /\ hellos \in Nat /\ interval \in Nat
        /\ last \in 0..now /\ shortest \in Nat
    BY TimeAssumption DEF Init
  <2>5. closed \in BOOLEAN
    BY DEF Init
  <2> QED BY <2>1, <2>2, <2>3, <2>4, <2>5 DEF TypeOK
<1>2. IsFiniteSet(waits)
  BY FS_EmptySet DEF Init
<1>3. OnePoll(queue)
  <2>1. 1 \in DOMAIN queue /\ queue[1] = "poll" /\ Len(queue) = 1
    BY DEF Init
  <2> QED BY <2>1 DEF OnePoll
<1> QED BY <1>1, <1>2, <1>3 DEF Init, IInv, RearmFirst, RearmSoon, Prompt

LEMMA DuePart ==
  ASSUME IInv
  PROVE  /\ Cardinality(Due) \in Nat
         /\ Due /= {} => Cardinality(Due) > 0
         /\ IsFiniteSet(waits \ Due) /\ IsFiniteSet(waits \ Cancelled)
<1>1. Due \subseteq waits
  BY DEF Due
<1> QED BY <1>1, FS_Subset, FS_CardinalityType, FS_EmptySet DEF IInv

LEMMA PollStep ==
  ASSUME IInv, NEW arrived \in Arrivals, Poll(arrived) PROVE IInv'
<1>1. arrived \in {<<>>, <<"other">>, <<"close">>, <<"hello">>}
  BY DEF Arrivals
<1>2. /\ queue' \in Seq(Kind) /\ OnePoll(queue')
      /\ Due /= {} => In("wait", queue')
      /\ \A j \in DOMAIN queue' : queue'[j] /= "rearm"
      /\ ~In("wait", queue)
  <2>1. queue \in Seq(Kind) /\ OnePoll(queue) /\ queue[1] = "poll"
    BY DEF IInv, TypeOK, Kind, Poll
  <2>2. queue' = Tail(queue) \o arrived \o [i \in 1..Cardinality(Due) |-> "wait"] \o <<"poll">>
    BY DEF Poll
  <2> QED BY <2>1, <2>2, <1>1, DuePart, Polled
<1>3. TypeOK'
  BY <1>2, TimeAssumption DEF IInv, TypeOK, Poll, Kind
<1>4. RearmFirst' /\ RearmSoon'
  <2>1. 1 \in DOMAIN queue'
    BY <1>2 DEF OnePoll
  <2> QED BY <1>2, <2>1 DEF RearmFirst, RearmSoon
<1>5. Prompt'
  <2> SUFFICES ASSUME hellos > 0 /\ ~closed /\ interval >= Slack
               PROVE  \/ \E w \in waits' : Waiting(w)'
                      \/ In("wait", queue') /\ now - last <= (interval - Slack) + 2 * MaxBusy
    BY TimeAssumption DEF Prompt, Poll, IInv, TypeOK
  <2>1. PICK w \in waits : Waiting(w)
    BY <1>2 DEF IInv, Prompt, Poll
  <2>2. CASE w \in Due
    BY <1>2, <2>1, <2>2, TimeAssumption DEF IInv, TypeOK, Waiting
  <2>3. CASE w \notin Due
    BY <2>1, <2>3, TimeAssumption DEF IInv, TypeOK, Waiting, Poll, Due
  <2> QED BY <2>2, <2>3
<1> QED BY <1>2, <1>3, <1>4, <1>5, DuePart DEF IInv, Poll

LEMMA PassStep ==
  ASSUME IInv, Pass PROVE IInv'
<1>1. TypeOK'
  <2>1. now' \in Nat /\ now' = now + 1 /\ spent' \in 0..MaxBusy
    BY TimeAssumption DEF IInv, TypeOK, Pass
  <2>2. beats \in Seq(0..now')
    <3>1. 0..now \subseteq 0..now'
      BY <2>1 DEF IInv, TypeOK
    <3> QED BY <3>1, SeqMonotonic DEF IInv, TypeOK
  <2> QED BY <2>1, <2>2 DEF IInv, TypeOK, Pass
<1>2. CASE queue = <<"poll">> /\ Due = {} /\ spent' = spent
  <2>1. ~In("wait", queue) /\ queue[1] /= "rearm"
    BY <1>2 DEF In
  <2>2. Prompt'
    <3> SUFFICES ASSUME hellos > 0 /\ ~closed /\ interval >= Slack
                 PROVE  \E w \in waits : Waiting(w)'
      BY DEF Prompt, Pass
    <3>1. PICK w \in waits : Waiting(w)
      BY <2>1 DEF IInv, Prompt
    <3>2. w.time > now
      BY <1>2, <3>1 DEF Due, IInv, TypeOK
    <3> QED BY <3>1, <3>2, <1>2, TimeAssumption DEF IInv, TypeOK, Waiting, Pass
  <2> QED BY <1>1, <2>1, <2>2 DEF IInv, Pass, RearmFirst, RearmSoon
<1>3. CASE spent < MaxBusy /\ spent' = spent + 1
  <2>1. RearmSoon'
    BY <1>3 DEF IInv, TypeOK, RearmSoon, Pass
  <2>2. Prompt'
    <3> SUFFICES ASSUME hellos > 0 /\ ~closed /\ interval >= Slack, queue[1] /= "rearm"
                 PROVE  \/ \E w \in waits : Waiting(w)'
                        \/ In("wait", queue) /\ now' - last <= (interval - Slack) + 2 * MaxBusy + spent'
      BY DEF Prompt, Pass
    <3>1. CASE \E w \in waits : Waiting(w)
      BY <3>1, <1>3, TimeAssumption DEF IInv, TypeOK, Waiting, Pass
    <3>2. CASE In("wait", queue) /\ now - last <= (interval - Slack) + 2 * MaxBusy + spent
      BY <3>2, <1>3, TimeAssumption DEF IInv, TypeOK, Pass
    <3> QED BY <3>1, <3>2 DEF IInv, Prompt
  <2> QED BY <1>1, <2>1, <2>2 DEF IInv, Pass, RearmFirst
<1> QED BY <1>2, <1>3 DEF Pass

\* What all handlers do to the queue.
LEMMA HandlerPops ==
  ASSUME IInv, queue[1] /= "poll", NEW more \in {<<>>, <<"aborted">>},
         queue' = Tail(queue) \o more
  PROVE  /\ queue' \in Seq(Kind) /\ OnePoll(queue') /\ RearmFirst'
         /\ queue'[1] /= "rearm"
         /\ In("wait", queue) /\ queue[1] /= "wait" => In("wait", queue')
<1>1. queue \in Seq(Kind) /\ OnePoll(queue)
  BY DEF IInv, TypeOK, Kind
<1>2. /\ Tail(queue) \in Seq(Kind) /\ OnePoll(Tail(queue)) /\ Tail(queue) /= <<>>
      /\ In("wait", queue) /\ queue[1] /= "wait" => In("wait", Tail(queue))
      /\ \A j \in DOMAIN Tail(queue) : j + 1 \in DOMAIN queue /\ Tail(queue)[j] = queue[j + 1]
  BY <1>1, Popped
<1>3. \A j \in DOMAIN Tail(queue) : Tail(queue)[j] /= "rearm"
  <2> TAKE j \in DOMAIN Tail(queue)
  <2>1. j \in Nat /\ j >= 1
    BY <1>2
  <2> QED BY <1>2, <2>1 DEF IInv, RearmFirst
<1>4. /\ queue' \in Seq(Kind) /\ OnePoll(queue')
      /\ In("wait", Tail(queue)) => In("wait", queue')
      /\ \A j \in DOMAIN queue' : queue'[j] /= "rearm"
      /\ queue'[1] = Tail(queue)[1]
  <2> DEFINE q == Tail(queue)
  <2>1. q \in Seq(Kind) /\ OnePoll(q) /\ q /= <<>>
    BY <1>2
  <2>2. /\ q \o more \in Seq(Kind) /\ OnePoll(q \o more)
        /\ In("wait", q) => In("wait", q \o more)
        /\ \A j \in DOMAIN (q \o more) :
             (j \in DOMAIN q /\ (q \o more)[j] = q[j]) \/ (q \o more)[j] = "aborted"
        /\ (q \o more)[1] = q[1]
    BY <2>1, Posted
  <2>3. \A j \in DOMAIN (q \o more) : (q \o more)[j] /= "rearm"
    BY <2>2, <1>3
  <2> QED BY <2>2, <2>3
<1>5. 1 \in DOMAIN Tail(queue)
  BY <1>2
<1> QED BY <1>2, <1>3, <1>4, <1>5 DEF RearmFirst

LEMMA AbortingKind == Aborting \in {<<>>, <<"aborted">>}
BY DEF Aborting

LEMMA HelloStep ==
  ASSUME IInv, NEW i \in Intervals, Hello(i) PROVE IInv'
<1>1. queue' = Tail(queue) \o <<>> /\ queue[1] /= "poll"
  BY DEF Hello, IInv, TypeOK, OnePoll
<1>2. /\ queue' \in Seq(Kind) /\ OnePoll(queue') /\ RearmFirst' /\ queue'[1] /= "rearm"
  BY <1>1, HandlerPops
<1>3. TypeOK'
  BY <1>2, TimeAssumption DEF IInv, TypeOK, Hello, Kind
<1>4. IsFiniteSet(waits')
  BY FS_AddElement DEF IInv, Hello
<1>5. Prompt'
  <2>1. PICK w \in waits' : w.timer = hellos' /\ w.time = now + i - Slack
    <3>1. [timer |-> hellos', time |-> now + i - Slack] \in waits'
      BY DEF Hello
    <3>2. ASSUME NEW r, r = [timer |-> hellos', time |-> now + i - Slack]
          PROVE  r.timer = hellos' /\ r.time = now + i - Slack
      BY <3>2
    <3> QED BY <3>1, <3>2
  <2>2. i >= Slack => Waiting(w)'
    <3> SUFFICES ASSUME i >= Slack PROVE Waiting(w)'
      OBVIOUS
    <3>1. /\ last' = now /\ now' = now /\ spent' = spent /\ interval' = i
          /\ now \in Nat /\ i \in Nat /\ spent \in 0..MaxBusy
      BY TimeAssumption DEF Hello, IInv, TypeOK
    <3>2. w.time <= last' + (interval' - Slack) + MaxBusy /\ now' <= w.time + spent'
      BY <2>1, <3>1, TimeAssumption
    <3> QED BY <2>1, <3>2 DEF Waiting
  <2>3. interval' = i
    BY DEF Hello
  <2> QED BY <2>1, <2>2, <2>3 DEF Prompt
<1> QED BY <1>2, <1>3, <1>4, <1>5 DEF IInv, RearmSoon

LEMMA IdleStep ==
  ASSUME IInv, Other \/ Aborted PROVE IInv'
<1>1. queue' = Tail(queue) \o <<>> /\ queue[1] /= "poll" /\ queue[1] /= "wait" /\ queue[1] /= "rearm"
  BY DEF Other, Aborted, IInv, TypeOK, OnePoll
<1>2. /\ queue' \in Seq(Kind) /\ OnePoll(queue') /\ RearmFirst' /\ queue'[1] /= "rearm"
      /\ In("wait", queue) => In("wait", queue')
  BY <1>1, HandlerPops
<1>3. UNCHANGED <<now, spent, hellos, interval, waits, closed, last, beats, shortest>>
  BY DEF Other, Aborted
<1>4. TypeOK'
  BY <1>2, <1>3 DEF IInv, TypeOK, Kind
<1>5. Prompt'
  BY <1>1, <1>2, <1>3 DEF IInv, Prompt, Waiting
<1> QED BY <1>2, <1>3, <1>4, <1>5 DEF IInv, RearmSoon

LEMMA BeatStep ==
  ASSUME IInv, Beat PROVE IInv'
<1>1. queue \in Seq(Kind) /\ OnePoll(queue) /\ queue[1] /= "poll"
  BY DEF IInv, TypeOK, Kind, Beat
<1>2. /\ Tail(queue) \in Seq(Kind) /\ OnePoll(Tail(queue))
      /\ \A j \in DOMAIN Tail(queue) : j + 1 \in DOMAIN queue /\ Tail(queue)[j] = queue[j + 1]
  BY <1>1, Popped
<1>3. /\ queue' \in Seq(Kind) /\ Len(queue') = Len(Tail(queue)) + 1
      /\ queue'[1] = "rearm"
      /\ \A j \in 1..Len(Tail(queue)) : queue'[j + 1] = Tail(queue)[j]
  BY <1>2 DEF Beat, Kind, Handlers
<1>4. RearmFirst'
  <2> SUFFICES ASSUME NEW j \in DOMAIN queue', j > 1 PROVE queue'[j] /= "rearm"
    BY DEF RearmFirst
  <2>1. j - 1 \in DOMAIN Tail(queue) /\ queue'[j] = Tail(queue)[j - 1]
    BY <1>2, <1>3
  <2>2. (j - 1) + 1 \in DOMAIN queue /\ Tail(queue)[j - 1] = queue[(j - 1) + 1]
    BY <1>2, <2>1
  <2>3. (j - 1) + 1 = j
    BY <1>3
  <2> QED BY <2>1, <2>2, <2>3 DEF IInv, RearmFirst
<1>5. OnePoll(queue')
  <2>1. PICK p \in DOMAIN Tail(queue) :
          /\ Tail(queue)[p] = "poll"
          /\ \A k \in 1..p - 1 : Tail(queue)[k] /= "poll"
          /\ \A k \in p + 1..Len(Tail(queue)) : Tail(queue)[k] = "aborted"
    BY <1>2 DEF OnePoll
  <2>2. /\ p + 1 \in DOMAIN queue' /\ queue'[p + 1] = "poll"
        /\ \A k \in 1..(p + 1) - 1 : queue'[k] /= "poll"
        /\ \A k \in (p + 1) + 1..Len(queue') : queue'[k] = "aborted"
    <3>1. ASSUME NEW k \in 1..(p + 1) - 1 PROVE queue'[k] /= "poll"
      <4>1. CASE k = 1 BY <4>1, <1>3
      <4>2. CASE k /= 1
        <5>1. k - 1 \in 1..p - 1 /\ k - 1 \in 1..Len(Tail(queue))
          BY <4>2, <2>1, <1>2
        <5>2. queue'[(k - 1) + 1] = Tail(queue)[k - 1]
          BY <5>1, <1>3
        <5>3. (k - 1) + 1 = k
          BY <2>1, <1>2
        <5> QED BY <5>1, <5>2, <5>3, <2>1
      <4> QED BY <4>1, <4>2
    <3>2. ASSUME NEW k \in (p + 1) + 1..Len(queue') PROVE queue'[k] = "aborted"
      <4>1. k - 1 \in p + 1..Len(Tail(queue)) /\ k - 1 \in 1..Len(Tail(queue))
        BY <2>1, <1>2, <1>3
      <4>2. queue'[(k - 1) + 1] = Tail(queue)[k - 1]
        BY <4>1, <1>3
      <4>3. (k - 1) + 1 = k
        BY <2>1, <1>2
      <4> QED BY <4>1, <4>2, <4>3, <2>1
    <3>3. p + 1 \in DOMAIN queue' /\ queue'[p + 1] = "poll"
      BY <2>1, <1>2, <1>3
    <3> QED BY <3>1, <3>2, <3>3
  <2> QED BY <2>2 DEF OnePoll
<1>6. TypeOK'
  <2>1. beats' \in Seq(0..now)
    <3> DEFINE all == Append(beats, now)
    <3>1. all \in Seq(0..now) /\ all /= <<>>
      <4>1. beats \in Seq(0..now) /\ now \in 0..now
        BY DEF IInv, TypeOK
      <4> QED BY <4>1, AppendProperties
    <3>2. Tail(all) \in Seq(0..now)
      BY <3>1
    <3> QED BY <3>1, <3>2 DEF Beat
  <2> QED BY <1>3, <2>1 DEF IInv, TypeOK, Beat, Kind
<1> QED BY <1>3, <1>4, <1>5, <1>6 DEF IInv, TypeOK, RearmSoon, Prompt, Beat

LEMMA RearmStep ==
  ASSUME IInv, Rearm PROVE IInv'
<1>1. queue' = Tail(queue) \o Aborting /\ queue[1] = "rearm"
  BY DEF Rearm
<1>2. /\ queue' \in Seq(Kind) /\ OnePoll(queue') /\ RearmFirst' /\ queue'[1] /= "rearm"
  BY <1>1, AbortingKind, HandlerPops
<1>3. TypeOK'
  BY <1>2, TimeAssumption DEF IInv, TypeOK, Rearm, Kind
<1>4. IsFiniteSet(waits')
  BY DuePart, FS_AddElement DEF Rearm
<1>5. Prompt'
  <2> DEFINE w == [timer |-> hellos, time |-> now + interval - Slack]
  <2>1. w \in waits'
    BY DEF Rearm
  <2>2. interval >= Slack => Waiting(w)'
    BY <1>1, TimeAssumption DEF Rearm, Waiting, IInv, TypeOK, RearmSoon
  <2> QED BY <2>1, <2>2 DEF Prompt, Rearm
<1> QED BY <1>2, <1>3, <1>4, <1>5 DEF IInv, RearmSoon

LEMMA CloseStep ==
  ASSUME IInv, Close PROVE IInv'
<1>1. queue' = Tail(queue) \o Aborting /\ queue[1] /= "poll"
  BY DEF Close
<1>2. /\ queue' \in Seq(Kind) /\ OnePoll(queue') /\ RearmFirst' /\ queue'[1] /= "rearm"
  BY <1>1, AbortingKind, HandlerPops
<1>3. TypeOK'
  BY <1>2 DEF IInv, TypeOK, Close, Kind
<1>4. IsFiniteSet(waits')
  BY DuePart DEF Close
<1> QED BY <1>2, <1>3, <1>4 DEF IInv, RearmSoon, Prompt, Close

LEMMA Inductive == IInv /\ [Next]_vars => IInv'
<1> SUFFICES ASSUME IInv, [Next]_vars PROVE IInv'
  OBVIOUS
<1>1. CASE UNCHANGED vars
  BY <1>1 DEF vars, IInv, TypeOK, RearmFirst, RearmSoon, Prompt, Waiting
<1>2. CASE Next
  BY <1>2, PollStep, PassStep, HelloStep, IdleStep, BeatStep, RearmStep, CloseStep DEF Next
<1> QED BY <1>1, <1>2

LEMMA InTime == IInv => HeartbeatInTime
<1> SUFFICES ASSUME IInv, hellos > 0 /\ ~closed /\ interval >= Slack
             PROVE  now - last <= interval
  BY DEF HeartbeatInTime
<1>1. CASE queue[1] = "rearm"
  BY <1>1, TimeAssumption, BusyAssumption DEF IInv, TypeOK, RearmSoon
<1>2. CASE \E w \in waits : Waiting(w)
  BY <1>2, TimeAssumption, BusyAssumption DEF IInv, TypeOK, Waiting
<1>3. CASE now - last <= (interval - Slack) + 2 * MaxBusy + spent
  BY <1>3, TimeAssumption, BusyAssumption DEF IInv, TypeOK
<1> QED BY <1>1, <1>2, <1>3 DEF IInv, Prompt

(* Every variable of the heartbeat has its type.                           *)
THEOREM TypeCorrect == Spec => []TypeOK
<1>1. IInv => TypeOK
  BY DEF IInv
<1> QED BY <1>1, Starts, Inductive, PTL DEF Spec

(* From a HELLO or a heartbeat to the next heartbeat no more than the      *)
(* interval passes, for every interval of at least the slack and handlers  *)
(* that take at most a third of the slack between two polls (discord.cpp   *)
(* 86-96, 111-113).                                                        *)
THEOREM BeatsInTime == Spec => []HeartbeatInTime
BY Starts, Inductive, InTime, PTL DEF Spec

-----------------------------------------------------------------------------
(* The spacing of the heartbeats                                           *)
(*                                                                         *)
(* HeartbeatsSpaced needs an account of what is to come: every heartbeat   *)
(* of the last Gap, every wait that expires within Gap of the oldest of    *)
(* them, and every one that has expired belongs to another HELLO.          *)

Count(x, q) == Cardinality({j \in DOMAIN q : q[j] = x})

\* What the spacing is compared with.
Gap == shortest - Slack

Early(W, t) == {w \in W : w.time <= t}

Soon(t) == Early(waits, t)

\* Each HELLO has begun one chain of waits and heartbeats.
Fewer == Cardinality(waits) + Count("wait", queue) + Count("rearm", queue) <= hellos

Shortest ==
  /\ hellos > 0 => shortest <= interval
  /\ hellos = 0 => beats = <<>>

Rising == \A i, j \in DOMAIN beats : i <= j => beats[i] <= beats[j]

\* The last k heartbeats were after T.
Since(k, T) == k > 0 => beats[Len(beats) - k + 1] > T

Crowd ==
  hellos > 0 /\ Gap > 0 =>
    \A T \in Int, k \in 0..Len(beats) :
      T >= now - Gap /\ Since(k, T) =>
        k + Cardinality(Soon(T + Gap)) + Count("wait", queue) <= hellos

SpacedIInv ==
  /\ IInv
  /\ Fewer
  /\ Shortest
  /\ Rising
  /\ Crowd
  /\ HeartbeatsSpaced

LEMMA CountType ==
  ASSUME NEW q \in Seq(Kind), NEW x
  PROVE  /\ IsFiniteSet({j \in DOMAIN q : q[j] = x}) /\ Count(x, q) \in Nat
         /\ In(x, q) => Count(x, q) > 0
<1> DEFINE S == {j \in DOMAIN q : q[j] = x}
<1>1. DOMAIN q = 1..Len(q) /\ Len(q) \in Nat
  BY LenProperties
<1>2. IsFiniteSet(DOMAIN q)
  BY <1>1, FS_Interval
<1>3. IsFiniteSet(S)
  BY <1>2, FS_Subset
<1>4. Count(x, q) \in Nat
  BY <1>3, FS_CardinalityType DEF Count
<1>5. In(x, q) => Count(x, q) > 0
  <2> SUFFICES ASSUME In(x, q) PROVE Count(x, q) /= 0
    BY <1>4
  <2>1. S /= {}
    BY DEF In
  <2> QED BY <2>1, <1>3, FS_EmptySet DEF Count
<1> QED BY <1>3, <1>4, <1>5

LEMMA CountJoined ==
  ASSUME NEW p \in Seq(Kind), NEW q \in Seq(Kind), NEW x
  PROVE  Count(x, p \o q) = Count(x, p) + Count(x, q)
<1> DEFINE r == p \o q
           A == {j \in DOMAIN p : p[j] = x}
           B == {j \in DOMAIN q : q[j] = x}
           C == {j \in DOMAIN r : r[j] = x}
           D == {j \in C : j > Len(p)}
           F == [j \in B |-> Len(p) + j]
<1>1. /\ DOMAIN p = 1..Len(p) /\ Len(p) \in Nat
      /\ DOMAIN q = 1..Len(q) /\ Len(q) \in Nat
      /\ r \in Seq(Kind) /\ DOMAIN r = 1..Len(p) + Len(q)
      /\ \A j \in 1..Len(p) : r[j] = p[j]
      /\ \A j \in 1..Len(q) : r[Len(p) + j] = q[j]
  <2>1. /\ r \in Seq(Kind) /\ Len(r) = Len(p) + Len(q)
        /\ \A j \in 1..Len(p) : r[j] = p[j]
        /\ \A j \in 1..Len(q) : r[Len(p) + j] = q[j]
    BY Joined
  <2> QED BY <2>1, LenProperties
<1>2. IsFiniteSet(A) /\ IsFiniteSet(B) /\ IsFiniteSet(C) /\ IsFiniteSet(D)
  <2>1. IsFiniteSet(A) /\ IsFiniteSet(B)
    BY CountType
  <2>2. IsFiniteSet(C)
    BY <1>1, CountType
  <2>3. D \in SUBSET C
    OBVIOUS
  <2>4. IsFiniteSet(D)
    <3> HIDE DEF C, D
    <3> QED BY <2>2, <2>3, FS_Subset
  <2> QED BY <2>1, <2>2, <2>4
<1> HIDE DEF r
<1>3. F \in Bijection(B, D)
  <2>1. F \in [B -> D]
    BY <1>1
  <2>2. \A a, b \in B : F[a] = F[b] => a = b
    BY <1>1
  <2>3. \A i \in D : \E j \in B : F[j] = i
    <3> SUFFICES ASSUME NEW i \in D PROVE \E j \in B : F[j] = i
      OBVIOUS
    <3>1. i \in 1..Len(p) + Len(q) /\ i > Len(p) /\ r[i] = x
      BY <1>1
    <3>2. i - Len(p) \in 1..Len(q) /\ Len(p) + (i - Len(p)) = i
      BY <3>1, <1>1
    <3>3. i - Len(p) \in B /\ F[i - Len(p)] = i
      BY <3>1, <3>2, <1>1
    <3> QED BY <3>3
  <2> QED BY <2>1, <2>2, <2>3, Fun_IsBij
<1>4. Cardinality(D) = Cardinality(B)
  BY <1>2, <1>3, FS_Bijection DEF ExistsBijection
<1>5. C = A \cup D /\ A \cap D = {}
  BY <1>1
<1>6. Cardinality(C) = Cardinality(A) + Cardinality(D) - Cardinality(A \cap D)
  <2> HIDE DEF A, B, C, D, F
  <2> QED BY <1>2, <1>5, FS_Union
<1>7. Cardinality(A \cap D) = 0
  BY <1>5, FS_EmptySet
<1>8. Cardinality(A) \in Nat /\ Cardinality(B) \in Nat
  BY <1>2, FS_CardinalityType
<1>9. Cardinality(C) = Cardinality(A) + Cardinality(B)
  <2> HIDE DEF A, B, C, D, F
  <2> QED BY <1>4, <1>6, <1>7, <1>8
<1> QED BY <1>9 DEF Count, r

LEMMA CountFew ==
  /\ \A x : Count(x, <<>>) = 0
  /\ \A x \in Kind, y \in Kind : Count(x, <<y>>) = IF x = y THEN 1 ELSE 0
<1>1. ASSUME NEW x PROVE Count(x, <<>>) = 0
  <2>1. {j \in DOMAIN <<>> : <<>>[j] = x} = {}
    OBVIOUS
  <2> QED BY <2>1, FS_EmptySet DEF Count
<1>2. ASSUME NEW x \in Kind, NEW y \in Kind
      PROVE  Count(x, <<y>>) = IF x = y THEN 1 ELSE 0
  <2> DEFINE one == <<y>>
  <2>1. one[1] = y /\ DOMAIN one = {1}
    OBVIOUS
  <2> HIDE DEF one
  <2>2. CASE x = y
    <3>1. {j \in DOMAIN one : one[j] = x} = {1}
      BY <2>1, <2>2
    <3> QED BY <3>1, <2>2, FS_Singleton DEF Count, one
  <2>3. CASE x /= y
    <3>1. {j \in DOMAIN one : one[j] = x} = {}
      BY <2>1, <2>3
    <3> QED BY <3>1, <2>3, FS_EmptySet DEF Count, one
  <2> QED BY <2>2, <2>3
<1> QED BY <1>1, <1>2

LEMMA CountSame ==
  ASSUME NEW n \in Nat, NEW y, NEW x
  PROVE  Count(x, [i \in 1..n |-> y]) = IF x = y THEN n ELSE 0
<1> DEFINE S == {j \in DOMAIN [i \in 1..n |-> y] : [i \in 1..n |-> y][j] = x}
<1>1. CASE x = y
  <2>1. S = 1..n
    BY <1>1
  <2>2. Cardinality(1..n) = n
    BY FS_Interval
  <2> QED BY <1>1, <2>1, <2>2 DEF Count
<1>2. CASE x /= y
  <2>1. S = {}
    BY <1>2
  <2> QED BY <1>2, <2>1, FS_EmptySet DEF Count
<1> QED BY <1>1, <1>2

LEMMA CountTail ==
  ASSUME NEW q \in Seq(Kind), q /= <<>>, NEW x \in Kind
  PROVE  Count(x, q) = (IF q[1] = x THEN 1 ELSE 0) + Count(x, Tail(q))
<1>1. q[1] \in Kind /\ Tail(q) \in Seq(Kind) /\ <<q[1]>> \in Seq(Kind)
  OBVIOUS
<1>2. q = <<q[1]>> \o Tail(q)
  OBVIOUS
<1>3. Count(x, <<q[1]>> \o Tail(q)) = Count(x, <<q[1]>>) + Count(x, Tail(q))
  BY <1>1, CountJoined
<1>4. Count(x, <<q[1]>>) = IF q[1] = x THEN 1 ELSE 0
  BY <1>1, CountFew
<1> QED BY <1>2, <1>3, <1>4

-----------------------------------------------------------------------------
LEMMA SpacedStarts == Init => SpacedIInv
<1> SUFFICES ASSUME Init PROVE SpacedIInv
  OBVIOUS
<1>1. IInv
  BY Starts
<1>2. Fewer
  <2>1. Count("wait", queue) = 0 /\ Count("rearm", queue) = 0
    BY CountFew DEF Init, Kind, Handlers
  <2>2. Cardinality(waits) = 0
    BY FS_EmptySet DEF Init
  <2> QED BY <2>1, <2>2 DEF Fewer, Init
<1>3. Shortest
  BY DEF Shortest, Init
<1>4. Rising /\ HeartbeatsSpaced
  BY DEF Rising, HeartbeatsSpaced, Init
<1>5. Crowd
  BY DEF Crowd, Init
<1> QED BY <1>1, <1>2, <1>3, <1>4, <1>5 DEF SpacedIInv

LEMMA HandlerCounts ==
  ASSUME IInv, queue[1] /= "poll", NEW more \in {<<>>, <<"aborted">>},
         queue' = Tail(queue) \o more, NEW x \in {"wait", "rearm"}
  PROVE  Count(x, queue) = (IF queue[1] = x THEN 1 ELSE 0) + Count(x, queue')
<1>1. queue \in Seq(Kind) /\ queue /= <<>> /\ Tail(queue) \in Seq(Kind) /\ x \in Kind
  BY Popped DEF IInv, TypeOK, Kind, Handlers
<1>2. Count(x, queue) = (IF queue[1] = x THEN 1 ELSE 0) + Count(x, Tail(queue))
  BY <1>1, CountTail
<1>3. more \in Seq(Kind) /\ Count(x, more) = 0
  <2>1. CASE more = <<>>
    BY <2>1, OneEach, CountFew
  <2>2. CASE more = <<"aborted">>
    <3>1. "aborted" \in Kind /\ x /= "aborted"
      BY DEF Kind, Handlers
    <3> QED BY <2>2, <3>1, <1>1, OneEach, CountFew
  <2> QED BY <2>1, <2>2
<1>4. Count(x, queue') = Count(x, Tail(queue)) + Count(x, more)
  BY <1>1, <1>3, CountJoined
<1>5. Count(x, Tail(queue)) \in Nat
  BY <1>1, CountType
<1> QED BY <1>2, <1>3, <1>4, <1>5

LEMMA BeatCounts ==
  ASSUME IInv, Beat
  PROVE  /\ Count("wait", queue) = 1 + Count("wait", queue')
         /\ Count("rearm", queue') = 1 + Count("rearm", queue)
<1>1. /\ queue \in Seq(Kind) /\ queue /= <<>> /\ Tail(queue) \in Seq(Kind)
      /\ "wait" \in Kind /\ "rearm" \in Kind
  BY Popped DEF IInv, TypeOK, Kind, Handlers, Beat
<1>2. /\ Count("wait", queue) = 1 + Count("wait", Tail(queue))
      /\ Count("rearm", queue) = 0 + Count("rearm", Tail(queue))
  BY <1>1, CountTail DEF Beat
<1>3. /\ Count("wait", <<"rearm">>) = 0
      /\ Count("rearm", <<"rearm">>) = 1
  BY <1>1, CountFew
<1>4. /\ Count("wait", queue') = Count("wait", <<"rearm">>) + Count("wait", Tail(queue))
      /\ Count("rearm", queue') = Count("rearm", <<"rearm">>) + Count("rearm", Tail(queue))
  BY <1>1, OneEach, CountJoined DEF Beat
<1>5. Count("wait", Tail(queue)) \in Nat /\ Count("rearm", Tail(queue)) \in Nat
  BY <1>1, CountType
<1> QED BY <1>2, <1>3, <1>4, <1>5

LEMMA PollCounts ==
  ASSUME IInv, NEW arrived \in Arrivals, Poll(arrived)
  PROVE  /\ Count("wait", queue') = Count("wait", queue) + Cardinality(Due)
         /\ Count("rearm", queue') = Count("rearm", queue)
<1>1. /\ queue \in Seq(Kind) /\ queue /= <<>> /\ Tail(queue) \in Seq(Kind)
      /\ "wait" \in Kind /\ "rearm" \in Kind /\ "poll" \in Kind
  <2>1. queue \in Seq(Kind) /\ queue /= <<>>
    BY DEF IInv, TypeOK, Kind, OnePoll
  <2> QED BY <2>1 DEF Kind, Handlers
<1> DEFINE n == Cardinality(Due)
           expired == [i \in 1..n |-> "wait"]
           front == Tail(queue) \o arrived
           batch == front \o expired
<1>2. n \in Nat
  BY DuePart
<1>3. expired \in Seq(Kind)
  BY <1>1, <1>2
<1>4. arrived \in Seq(Kind) /\ Count("wait", arrived) = 0 /\ Count("rearm", arrived) = 0
  <2>1. CASE arrived = <<>>
    BY <2>1, OneEach, CountFew
  <2>2. ASSUME NEW x \in {"other", "close", "hello"}, arrived = <<x>>
        PROVE  arrived \in Seq(Kind) /\ Count("wait", arrived) = 0 /\ Count("rearm", arrived) = 0
    <3>1. x \in Kind /\ x /= "wait" /\ x /= "rearm"
      BY DEF Kind, Handlers
    <3> QED BY <2>2, <3>1, <1>1, OneEach, CountFew
  <2> QED BY <2>1, <2>2 DEF Arrivals
<1>5. Count("wait", expired) = n /\ Count("rearm", expired) = 0
  <2> HIDE DEF n
  <2>1. \A x : Count(x, [i \in 1..n |-> "wait"]) = IF x = "wait" THEN n ELSE 0
    BY <1>2, CountSame
  <2> QED BY <2>1
<1>6. Count("wait", <<"poll">>) = 0 /\ Count("rearm", <<"poll">>) = 0 /\ <<"poll">> \in Seq(Kind)
  BY <1>1, CountFew, OneEach
<1>7. queue' = batch \o <<"poll">>
  BY DEF Poll
<1>8. ASSUME NEW x \in {"wait", "rearm"}
      PROVE  Count(x, queue') = Count(x, queue) + Count(x, expired)
  <2>1. Count(x, queue) = (IF queue[1] = x THEN 1 ELSE 0) + Count(x, Tail(queue))
    BY <1>1, CountTail
  <2>2. queue[1] /= x
    BY DEF Poll
  <2> HIDE DEF expired
  <2>3. front \in Seq(Kind) /\ Count(x, front) = Count(x, Tail(queue)) + Count(x, arrived)
    BY <1>1, <1>4, Joined, CountJoined
  <2> HIDE DEF front
  <2>4. batch \in Seq(Kind) /\ Count(x, batch) = Count(x, front) + Count(x, expired)
    BY <1>3, <2>3, Joined, CountJoined
  <2> HIDE DEF batch
  <2>5. Count(x, queue') = Count(x, batch) + Count(x, <<"poll">>)
    BY <1>6, <1>7, <2>4, CountJoined
  <2>6. Count(x, Tail(queue)) \in Nat /\ Count(x, expired) \in Nat
    BY <1>1, <1>3, CountType
  <2> QED BY <1>4, <1>6, <2>1, <2>2, <2>3, <2>4, <2>5, <2>6
<1>9. Count("rearm", queue) \in Nat
  BY <1>1, CountType
<1> QED BY <1>5, <1>8, <1>9

-----------------------------------------------------------------------------
LEMMA EarlyPart ==
  ASSUME NEW W, IsFiniteSet(W), NEW t
  PROVE  /\ IsFiniteSet(Early(W, t))
         /\ Cardinality(Early(W, t)) \in Nat
         /\ Cardinality(W) \in Nat
         /\ Cardinality(Early(W, t)) <= Cardinality(W)
<1>1. Early(W, t) \in SUBSET W
  BY DEF Early
<1> QED BY <1>1, FS_Subset, FS_CardinalityType

\* What follows from Fewer if no heartbeat is counted.
LEMMA NoneSince ==
  ASSUME IInv', Fewer', NEW t
  PROVE  Cardinality(Early(waits', t)) + Count("wait", queue') <= hellos'
<1>1. IsFiniteSet(waits') /\ queue' \in Seq(Kind) /\ hellos' \in Nat
  BY DEF IInv, TypeOK, Kind
<1>2. Count("wait", queue') \in Nat /\ Count("rearm", queue') \in Nat
  BY <1>1, CountType
<1>3. Cardinality(waits') + Count("wait", queue') + Count("rearm", queue') <= hellos'
  BY DEF Fewer
<1>4. /\ Cardinality(Early(waits', t)) \in Nat
      /\ Cardinality(waits') \in Nat
      /\ Cardinality(Early(waits', t)) <= Cardinality(waits')
  BY <1>1, EarlyPart
<1> QED BY <1>1, <1>2, <1>3, <1>4

\* A step that starts nothing.
LEMMA FadingStep ==
  ASSUME SpacedIInv, IInv',
         UNCHANGED <<now, hellos, interval, beats, shortest>>,
         waits' \subseteq waits,
         Count("wait", queue') <= Count("wait", queue),
         Count("rearm", queue') <= Count("rearm", queue)
  PROVE  SpacedIInv'
<1>1. /\ IsFiniteSet(waits) /\ queue \in Seq(Kind) /\ queue' \in Seq(Kind)
      /\ hellos \in Nat /\ beats \in Seq(0..now) /\ now \in Nat /\ shortest \in Nat
  BY DEF SpacedIInv, IInv, TypeOK, Kind
<1>2. /\ Count("wait", queue') \in Nat /\ Count("rearm", queue') \in Nat
      /\ Count("wait", queue) \in Nat /\ Count("rearm", queue) \in Nat
  BY <1>1, CountType
<1>3. Fewer'
  <2>1. Cardinality(waits') <= Cardinality(waits) /\ Cardinality(waits') \in Nat
        /\ Cardinality(waits) \in Nat
    BY <1>1, FS_Subset, FS_CardinalityType
  <2>2. Cardinality(waits) + Count("wait", queue) + Count("rearm", queue) <= hellos
    BY DEF SpacedIInv, Fewer
  <2>3. Cardinality(waits') + Count("wait", queue') + Count("rearm", queue') <= hellos'
    BY <1>1, <1>2, <2>1, <2>2
  <2> QED BY <2>3 DEF Fewer
<1>4. Crowd'
  <2> SUFFICES ASSUME hellos > 0, Gap > 0, NEW T \in Int, NEW k \in 0..Len(beats),
                      T >= now - Gap, Since(k, T)
               PROVE  k + Cardinality(Early(waits', T + Gap))
                        + Count("wait", queue') <= hellos
    BY DEF Crowd, Gap, Since, Soon
  <2>1. k + Cardinality(Soon(T + Gap)) + Count("wait", queue) <= hellos
    BY DEF SpacedIInv, Crowd
  <2>2. Early(waits', T + Gap) \in SUBSET Soon(T + Gap)
    BY DEF Soon, Early
  <2>3. IsFiniteSet(Soon(T + Gap)) /\ Cardinality(Soon(T + Gap)) \in Nat
    BY <1>1, EarlyPart DEF Soon
  <2>4. /\ Cardinality(Early(waits', T + Gap)) <= Cardinality(Soon(T + Gap))
        /\ Cardinality(Early(waits', T + Gap)) \in Nat
    BY <2>2, <2>3, FS_Subset, FS_CardinalityType
  <2> QED BY <1>1, <1>2, <2>1, <2>3, <2>4
<1>5. Shortest' /\ Rising' /\ HeartbeatsSpaced'
  BY DEF SpacedIInv, Shortest, Rising, HeartbeatsSpaced
<1> QED BY <1>3, <1>4, <1>5 DEF SpacedIInv

LEMMA IdleSpaced ==
  ASSUME SpacedIInv, IInv', Other \/ Aborted \/ Close PROVE SpacedIInv'
<1>1. IInv /\ queue[1] /= "poll" /\ queue[1] /= "wait" /\ queue[1] /= "rearm"
  BY DEF SpacedIInv, Other, Aborted, Close
<1>2. queue \in Seq(Kind) /\ OnePoll(queue) /\ Tail(queue) \in Seq(Kind)
  BY <1>1, Popped DEF IInv, TypeOK, Kind
<1>3. \E more \in {<<>>, <<"aborted">>} : queue' = Tail(queue) \o more
  <2>1. CASE Close
    BY <2>1, AbortingKind DEF Close
  <2>2. CASE Other \/ Aborted
    BY <2>2, <1>2 DEF Other, Aborted
  <2> QED BY <2>1, <2>2
<1>4. Count("wait", queue') = Count("wait", queue) /\ Count("rearm", queue') = Count("rearm", queue)
  <2>1. PICK more \in {<<>>, <<"aborted">>} : queue' = Tail(queue) \o more
    BY <1>3
  <2>2. \A x \in {"wait", "rearm"} : Count(x, queue) = 0 + Count(x, queue')
    BY <1>1, <2>1, HandlerCounts
  <2>3. queue' \in Seq(Kind)
    BY DEF IInv, TypeOK, Kind
  <2>4. Count("wait", queue') \in Nat /\ Count("rearm", queue') \in Nat
    BY <2>3, CountType
  <2> QED BY <2>2, <2>4
<1>5. Count("wait", queue) \in Nat /\ Count("rearm", queue) \in Nat
  BY <1>2, CountType
<1>6. waits' \subseteq waits /\ UNCHANGED <<now, hellos, interval, beats, shortest>>
  BY DEF Other, Aborted, Close
<1> QED BY <1>4, <1>5, <1>6, FadingStep

LEMMA PollSpaced ==
  ASSUME SpacedIInv, IInv', NEW arrived \in Arrivals, Poll(arrived) PROVE SpacedIInv'
<1>1. /\ IInv /\ IsFiniteSet(waits) /\ queue \in Seq(Kind)
      /\ hellos \in Nat /\ beats \in Seq(0..now) /\ now \in Nat /\ shortest \in Nat
      /\ waits \subseteq [timer : Nat, time : Int]
  BY DEF SpacedIInv, IInv, TypeOK, Kind
<1>2. /\ Count("wait", queue') = Count("wait", queue) + Cardinality(Due)
      /\ Count("rearm", queue') = Count("rearm", queue)
  BY <1>1, PollCounts
<1>3. /\ Count("wait", queue) \in Nat /\ Count("rearm", queue) \in Nat
      /\ Cardinality(Due) \in Nat
  BY <1>1, CountType, DuePart
<1>4. UNCHANGED <<now, hellos, interval, beats, shortest>> /\ waits' = waits \ Due
  BY DEF Poll
<1>5. ASSUME NEW W \in SUBSET waits, Due \subseteq W
      PROVE  Cardinality(W \ Due) = Cardinality(W) - Cardinality(Due) /\ Cardinality(W) \in Nat
  <2>1. IsFiniteSet(W)
    BY <1>1, FS_Subset
  <2>2. W \cap Due = Due
    BY <1>5
  <2> QED BY <2>1, <2>2, FS_Difference, FS_CardinalityType
<1>6. Fewer'
  <2>1. Cardinality(waits') = Cardinality(waits) - Cardinality(Due) /\ Cardinality(waits) \in Nat
    BY <1>4, <1>5 DEF Due
  <2>2. Cardinality(waits) + Count("wait", queue) + Count("rearm", queue) <= hellos
    BY DEF SpacedIInv, Fewer
  <2>3. Cardinality(waits') + Count("wait", queue') + Count("rearm", queue') <= hellos'
    BY <1>1, <1>2, <1>3, <1>4, <2>1, <2>2
  <2> QED BY <2>3 DEF Fewer
<1>7. Crowd'
  <2> SUFFICES ASSUME hellos > 0, Gap > 0, NEW T \in Int, NEW k \in 0..Len(beats),
                      T >= now - Gap, Since(k, T)
               PROVE  k + Cardinality(Early(waits', T + Gap))
                        + Count("wait", queue') <= hellos
    BY <1>4 DEF Crowd, Gap, Since, Soon
  <2>1. k + Cardinality(Soon(T + Gap)) + Count("wait", queue) <= hellos
    BY DEF SpacedIInv, Crowd
  <2>2. Gap \in Int
    BY <1>1, TimeAssumption DEF Gap
  <2>3. Due \subseteq Soon(T + Gap)
    BY <1>1, <2>2 DEF Due, Soon, Early
  <2>4. Early(waits', T + Gap) = Soon(T + Gap) \ Due
    BY <1>4 DEF Soon, Early
  <2>5. Soon(T + Gap) \in SUBSET waits
    BY DEF Soon, Early
  <2>6. /\ Cardinality(Early(waits', T + Gap))
             = Cardinality(Soon(T + Gap)) - Cardinality(Due)
        /\ Cardinality(Soon(T + Gap)) \in Nat
    BY <2>3, <2>4, <2>5, <1>5
  <2> QED BY <1>1, <1>2, <1>3, <2>1, <2>6
<1>8. Shortest' /\ Rising' /\ HeartbeatsSpaced'
  BY <1>4 DEF SpacedIInv, Shortest, Rising, HeartbeatsSpaced
<1> QED BY <1>6, <1>7, <1>8 DEF SpacedIInv

LEMMA PassSpaced ==
  ASSUME SpacedIInv, IInv', Pass PROVE SpacedIInv'
<1>1. /\ hellos \in Nat /\ beats \in Seq(0..now) /\ now \in Nat /\ shortest \in Nat
  BY DEF SpacedIInv, IInv, TypeOK
<1>2. UNCHANGED <<queue, hellos, interval, waits, beats, shortest>> /\ now' = now + 1
  BY DEF Pass
<1>3. Crowd'
  <2> SUFFICES ASSUME hellos > 0, Gap > 0, NEW T \in Int, NEW k \in 0..Len(beats),
                      T >= now' - Gap, Since(k, T)
               PROVE  k + Cardinality(Soon(T + Gap)) + Count("wait", queue) <= hellos
    BY <1>2 DEF Crowd, Gap, Since, Soon
  <2>1. T >= now - Gap
    BY <1>1, <1>2, TimeAssumption DEF Gap
  <2> QED BY <2>1 DEF SpacedIInv, Crowd
<1>4. Fewer' /\ Shortest' /\ Rising' /\ HeartbeatsSpaced'
  BY <1>2 DEF SpacedIInv, Fewer, Shortest, Rising, HeartbeatsSpaced
<1> QED BY <1>3, <1>4 DEF SpacedIInv

\* One more wait at most.
LEMMA MoreEarly ==
  ASSUME NEW W, IsFiniteSet(W), NEW v, NEW t
  PROVE  /\ Cardinality(W \cup {v}) <= Cardinality(W) + 1
         /\ Cardinality(Early(W \cup {v}, t))
              <= Cardinality(Early(W, t)) + (IF v.time <= t THEN 1 ELSE 0)
<1>1. /\ IsFiniteSet(Early(W, t)) /\ Cardinality(Early(W, t)) \in Nat
      /\ Cardinality(W) \in Nat
  BY EarlyPart
<1>2. Cardinality(W \cup {v}) <= Cardinality(W) + 1
  <2>1. Cardinality(W \cup {v}) = IF v \in W THEN Cardinality(W) ELSE Cardinality(W) + 1
    BY FS_AddElement
  <2> QED BY <1>1, <2>1
<1>3. CASE v.time <= t
  <2>1. Early(W \cup {v}, t) = Early(W, t) \cup {v}
    BY <1>3 DEF Early
  <2>2. Cardinality(Early(W, t) \cup {v}) <= Cardinality(Early(W, t)) + 1
    BY <1>1, FS_AddElement
  <2> QED BY <1>2, <1>3, <2>1, <2>2
<1>4. CASE ~(v.time <= t)
  <2>1. Early(W \cup {v}, t) = Early(W, t)
    BY <1>4 DEF Early
  <2> QED BY <1>1, <1>2, <1>4, <2>1
<1> QED BY <1>3, <1>4

LEMMA HelloSpaced ==
  ASSUME SpacedIInv, IInv', NEW i \in Intervals, Hello(i) PROVE SpacedIInv'
<1> DEFINE v == [timer |-> hellos', time |-> now + i - Slack]
<1>1. /\ IInv /\ IsFiniteSet(waits) /\ queue \in Seq(Kind) /\ queue' \in Seq(Kind)
      /\ hellos \in Nat /\ beats \in Seq(0..now) /\ now \in Nat /\ shortest \in Nat
      /\ i \in Nat /\ Slack \in Nat
  BY TimeAssumption DEF SpacedIInv, IInv, TypeOK, Kind
<1>2. Count("wait", queue') = Count("wait", queue) /\ Count("rearm", queue') = Count("rearm", queue)
  <2>1. queue[1] = "hello" /\ OnePoll(queue) /\ Tail(queue) \in Seq(Kind)
    BY <1>1, Popped DEF Hello, IInv
  <2>2. queue' = Tail(queue) \o <<>>
    BY <2>1 DEF Hello
  <2>3. \A x \in {"wait", "rearm"} : Count(x, queue) = 0 + Count(x, queue')
    BY <1>1, <2>1, <2>2, HandlerCounts
  <2>4. Count("wait", queue') \in Nat /\ Count("rearm", queue') \in Nat
    BY <1>1, CountType
  <2> QED BY <2>3, <2>4
<1>3. Count("wait", queue) \in Nat /\ Count("rearm", queue) \in Nat
  BY <1>1, CountType
<1>4. /\ hellos' = hellos + 1 /\ interval' = i /\ waits' = waits \cup {v}
      /\ now' = now /\ beats' = beats
  BY DEF Hello
<1>5. /\ shortest' \in Nat /\ shortest' <= i
      /\ hellos > 0 => shortest' <= shortest
  BY <1>1 DEF Hello
<1>6. v.time = now + i - Slack
  OBVIOUS
<1> HIDE DEF v
<1>7. shortest' - Slack \in Int /\ Gap \in Int
  BY <1>1, <1>5 DEF Gap
<1>8. hellos > 0 => shortest' - Slack <= Gap
  <2>1. ASSUME NEW a \in Int, NEW b \in Int, NEW c \in Int, a <= b PROVE a - c <= b - c
    BY <2>1
  <2>2. shortest' \in Int /\ shortest \in Int /\ Slack \in Int
    BY <1>1, <1>5
  <2>3. hellos > 0 => shortest' <= shortest
    BY <1>5
  <2>4. hellos > 0 => shortest' - Slack <= shortest - Slack
    BY <2>1, <2>2, <2>3
  <2> QED BY <2>4 DEF Gap
<1>9. Fewer'
  <2>1. Cardinality(waits') <= Cardinality(waits) + 1 /\ Cardinality(waits') \in Nat
    <3>1. IsFiniteSet(waits')
      BY DEF IInv
    <3> QED BY <1>1, <1>4, <3>1, MoreEarly, FS_CardinalityType
  <2>2. Cardinality(waits) + Count("wait", queue) + Count("rearm", queue) <= hellos
    BY DEF SpacedIInv, Fewer
  <2>3. Cardinality(waits) \in Nat
    BY <1>1, FS_CardinalityType
  <2>4. Cardinality(waits') + Count("wait", queue') + Count("rearm", queue') <= hellos'
    BY <1>1, <1>2, <1>3, <1>4, <2>1, <2>2, <2>3
  <2> QED BY <2>4 DEF Fewer
<1>10. Shortest'
  BY <1>1, <1>4, <1>5 DEF Shortest
<1>11. Rising'
  BY <1>4 DEF SpacedIInv, Rising
<1>12. Crowd'
  <2> SUFFICES ASSUME shortest' - Slack > 0, NEW T \in Int, NEW k \in 0..Len(beats),
                      T >= now - (shortest' - Slack), Since(k, T)
               PROVE  k + Cardinality(Early(waits', T + (shortest' - Slack)))
                        + Count("wait", queue') <= hellos'
    BY <1>4 DEF Crowd, Gap, Since, Soon
  <2> DEFINE t == T + (shortest' - Slack)
  <2>1. CASE hellos = 0
    <3>1. k = 0
      BY <2>1 DEF SpacedIInv, Shortest
    <3>2. Cardinality(Early(waits', t)) + Count("wait", queue') <= hellos'
      BY <1>9, NoneSince
    <3>3. IsFiniteSet(waits')
      BY DEF IInv
    <3>4. Cardinality(Early(waits', t)) \in Nat
      BY <3>3, EarlyPart
    <3> QED BY <3>1, <3>2, <3>4
  <2>2. CASE hellos > 0
    <3>1. Gap \in Int /\ Gap > 0 /\ T >= now - Gap /\ t <= T + Gap /\ t \in Int
      <4>1. now \in Int
        BY <1>1
      <4>2. ASSUME NEW g \in Int, NEW h \in Int, NEW n \in Int, g > 0, g <= h, T >= n - g
            PROVE  h > 0 /\ T >= n - h /\ T + g <= T + h /\ T + g \in Int
        BY <4>2
      <4> QED BY <1>7, <1>8, <2>2, <4>1, <4>2
    <3>2. k + Cardinality(Soon(T + Gap)) + Count("wait", queue) <= hellos
      BY <2>2, <3>1 DEF SpacedIInv, Crowd
    <3>3. Early(waits, t) \in SUBSET Soon(T + Gap)
      <4>1. waits \subseteq [timer : Nat, time : Int]
        BY DEF SpacedIInv, IInv, TypeOK
      <4> HIDE DEF t
      <4> QED BY <3>1, <4>1 DEF Soon, Early
    <3> HIDE DEF t
    <3>4. /\ Cardinality(Early(waits, t)) <= Cardinality(Soon(T + Gap))
          /\ Cardinality(Soon(T + Gap)) \in Nat
          /\ Cardinality(Early(waits, t)) \in Nat
      BY <1>1, <3>3, EarlyPart, FS_Subset DEF Soon
    <3>5. /\ Cardinality(Early(waits', t)) <= Cardinality(Early(waits, t)) + 1
          /\ Cardinality(Early(waits', t)) \in Nat
      <4>1. Cardinality(Early(waits \cup {v}, t))
              <= Cardinality(Early(waits, t)) + (IF v.time <= t THEN 1 ELSE 0)
        BY <1>1, MoreEarly
      <4>2. IsFiniteSet(waits')
        BY DEF IInv
      <4>3. Cardinality(Early(waits', t)) \in Nat
        BY <4>2, EarlyPart
      <4> QED BY <1>4, <4>1, <4>3, <3>4
    <3>6. k + Cardinality(Early(waits', t)) + Count("wait", queue') <= hellos'
      <4>1. k \in Nat /\ hellos \in Nat /\ hellos' = hellos + 1
        BY <1>1, <1>4
      <4> QED BY <1>2, <1>3, <3>2, <3>4, <3>5, <4>1
    <3> QED BY <3>6 DEF t
  <2> QED BY <1>1, <2>1, <2>2
<1>13. HeartbeatsSpaced'
  <2> SUFFICES ASSUME NEW j \in DOMAIN beats, j + (hellos + 1) \in DOMAIN beats
               PROVE  beats[j + (hellos + 1)] - beats[j] >= shortest' - Slack
    BY <1>4 DEF HeartbeatsSpaced
  <2>1. hellos > 0
    BY <1>1 DEF SpacedIInv, Shortest
  <2>2. j + hellos \in DOMAIN beats
    BY <1>1
  <2>3. beats[j + hellos] - beats[j] >= shortest - Slack
    BY <2>2 DEF SpacedIInv, HeartbeatsSpaced
  <2>4. beats[j + hellos] <= beats[j + (hellos + 1)]
    BY <1>1, <2>2 DEF SpacedIInv, Rising
  <2>5. beats[j] \in Int /\ beats[j + hellos] \in Int /\ beats[j + (hellos + 1)] \in Int
    BY <1>1, <2>2
  <2>6. shortest \in Int /\ shortest' \in Int /\ Slack \in Int /\ shortest' <= shortest
    BY <1>1, <1>5, <2>1
  <2> QED BY <2>3, <2>4, <2>5, <2>6
<1> QED BY <1>9, <1>10, <1>11, <1>12, <1>13 DEF SpacedIInv

LEMMA RearmSpaced ==
  ASSUME SpacedIInv, IInv', Rearm PROVE SpacedIInv'
<1> DEFINE v == [timer |-> hellos, time |-> now + interval - Slack]
           W == waits \ Cancelled
<1>1. /\ IInv /\ IsFiniteSet(waits) /\ queue \in Seq(Kind) /\ queue' \in Seq(Kind)
      /\ hellos \in Nat /\ beats \in Seq(0..now) /\ now \in Nat /\ shortest \in Nat
      /\ interval \in Nat /\ Slack \in Nat
  BY TimeAssumption DEF SpacedIInv, IInv, TypeOK, Kind
<1>2. Count("wait", queue') = Count("wait", queue) /\ Count("rearm", queue) = 1 + Count("rearm", queue')
  <2>1. queue[1] = "rearm" /\ queue' = Tail(queue) \o Aborting
    BY DEF Rearm
  <2>2. \A x \in {"wait", "rearm"} :
          Count(x, queue) = (IF queue[1] = x THEN 1 ELSE 0) + Count(x, queue')
    BY <1>1, <2>1, AbortingKind, HandlerCounts
  <2>3. Count("wait", queue') \in Nat /\ Count("rearm", queue') \in Nat
    BY <1>1, CountType
  <2> QED BY <2>1, <2>2, <2>3
<1>3. Count("wait", queue) \in Nat /\ Count("rearm", queue') \in Nat
  BY <1>1, CountType
<1>4. waits' = W \cup {v} /\ UNCHANGED <<now, hellos, interval, beats, shortest>>
  BY DEF Rearm
<1>5. v.time = now + interval - Slack
  OBVIOUS
<1>6. W \in SUBSET waits /\ IsFiniteSet(W) /\ Cardinality(W) <= Cardinality(waits)
      /\ Cardinality(W) \in Nat /\ Cardinality(waits) \in Nat
  BY <1>1, FS_Subset, FS_CardinalityType
<1> HIDE DEF v, W
<1>7. IsFiniteSet(waits') /\ Cardinality(waits') \in Nat /\ Cardinality(waits') <= Cardinality(W) + 1
  <2>1. IsFiniteSet(waits')
    BY DEF IInv
  <2> QED BY <1>4, <1>6, <2>1, MoreEarly, FS_CardinalityType
<1>8. Cardinality(waits) + Count("wait", queue) + Count("rearm", queue) <= hellos
  BY DEF SpacedIInv, Fewer
<1>9. Fewer'
  <2>1. Cardinality(waits') + Count("wait", queue') + Count("rearm", queue') <= hellos'
    BY <1>1, <1>2, <1>3, <1>4, <1>6, <1>7, <1>8
  <2> QED BY <2>1 DEF Fewer
<1>10. Crowd'
  <2> SUFFICES ASSUME hellos > 0, Gap > 0, NEW T \in Int, NEW k \in 0..Len(beats),
                      T >= now - Gap, Since(k, T)
               PROVE  k + Cardinality(Early(waits', T + Gap))
                        + Count("wait", queue') <= hellos
    BY <1>4 DEF Crowd, Gap, Since, Soon
  <2> DEFINE t == T + Gap
  <2>1. Gap \in Int /\ t \in Int
    BY <1>1 DEF Gap
  <2>2. Cardinality(Early(waits', t)) \in Nat
    BY <1>7, EarlyPart
  <2>3. CASE k = 0
    <3>1. Cardinality(Early(waits', t)) + Count("wait", queue') <= hellos'
      BY <1>9, NoneSince
    <3> QED BY <1>4, <2>2, <2>3, <3>1
  <2>4. CASE k > 0
    <3>1. beats[Len(beats) - k + 1] > T /\ beats[Len(beats) - k + 1] \in 0..now
      <4>1. Len(beats) - k + 1 \in 1..Len(beats)
        BY <1>1, <2>4
      <4> QED BY <1>1, <4>1, <2>4 DEF Since
    <3>2. ~(v.time <= t)
      <4>1. shortest <= interval
        BY DEF SpacedIInv, Shortest
      <4> QED BY <1>1, <1>5, <2>1, <3>1, <4>1 DEF Gap
    <3> HIDE DEF t
    <3>3. Cardinality(Early(waits', t)) <= Cardinality(Early(W, t)) + 0
      BY <1>4, <1>6, <3>2, MoreEarly
    <3>4. Early(W, t) \in SUBSET Early(waits, t)
      BY <1>6 DEF Early
    <3>5. /\ Cardinality(Early(W, t)) <= Cardinality(Early(waits, t))
          /\ Cardinality(Early(W, t)) \in Nat
          /\ Cardinality(Early(waits, t)) \in Nat
      BY <1>1, <1>6, <3>4, EarlyPart, FS_Subset
    <3>6. k + Cardinality(Early(waits, t)) + Count("wait", queue) <= hellos
      BY DEF SpacedIInv, Crowd, Soon, t
    <3>7. k + Cardinality(Early(waits', t)) + Count("wait", queue') <= hellos
      BY <1>1, <1>2, <1>3, <2>2, <3>3, <3>5, <3>6
    <3> QED BY <3>7 DEF t
  <2> QED BY <1>1, <2>3, <2>4
<1>11. Shortest' /\ Rising' /\ HeartbeatsSpaced'
  BY <1>4 DEF SpacedIInv, Shortest, Rising, HeartbeatsSpaced
<1> QED BY <1>9, <1>10, <1>11 DEF SpacedIInv

LEMMA BeatSpaced ==
  ASSUME SpacedIInv, IInv', Beat PROVE SpacedIInv'
<1> DEFINE all == Append(beats, now)
           n == Len(beats)
<1>1. /\ IInv /\ IsFiniteSet(waits) /\ queue \in Seq(Kind) /\ queue' \in Seq(Kind)
      /\ hellos \in Nat /\ beats \in Seq(0..now) /\ now \in Nat /\ shortest \in Nat
      /\ interval \in Nat /\ Slack \in Nat /\ MaxHellos \in Nat /\ Gap \in Int
  BY TimeAssumption DEF SpacedIInv, IInv, TypeOK, Kind, Gap
<1>2. /\ Count("wait", queue) = 1 + Count("wait", queue')
      /\ Count("rearm", queue') = 1 + Count("rearm", queue)
  BY <1>1, BeatCounts
<1>3. Count("wait", queue') \in Nat /\ Count("rearm", queue) \in Nat
  BY <1>1, CountType
<1>4. UNCHANGED <<now, hellos, interval, waits, shortest>>
  BY DEF Beat
<1>5. /\ n \in Nat /\ DOMAIN beats = 1..n
      /\ all \in Seq(0..now) /\ Len(all) = n + 1 /\ DOMAIN all = 1..n + 1
      /\ \A j \in 1..n : all[j] = beats[j] /\ all[j] \in 0..now
      /\ all[n + 1] = now
  BY <1>1, AppendProperties, LenProperties
<1>6. \/ beats' = all
      \/ beats' = Tail(all)
  BY DEF Beat
<1>7. /\ beats' \in Seq(0..now) /\ Len(beats') \in {n, n + 1} /\ DOMAIN beats' = 1..Len(beats')
      /\ \A j \in 1..Len(beats') : /\ j + (n + 1 - Len(beats')) \in 1..n + 1
                                   /\ beats'[j] = all[j + (n + 1 - Len(beats'))]
  <2> HIDE DEF all, n
  <2>1. CASE beats' = all
    BY <1>5, <2>1
  <2>2. CASE beats' = Tail(all)
    <3>1. all /= <<>>
      BY <1>5
    <3>2. /\ Tail(all) \in Seq(0..now) /\ Len(Tail(all)) = n
          /\ \A j \in 1..n : Tail(all)[j] = all[j + 1]
      BY <1>5, <3>1
    <3> QED BY <1>5, <2>2, <3>2
  <2> QED BY <1>6, <2>1, <2>2
<1> HIDE DEF all, n
<1> DEFINE m == Len(beats')
           d == n + 1 - m
<1>8. m \in Nat /\ d \in {0, 1} /\ m + d = n + 1
  <2>1. n \in Nat /\ (m = n \/ m = n + 1)
    BY <1>5, <1>7
  <2> HIDE DEF m
  <2> QED BY <2>1
<1>9. /\ DOMAIN beats' = 1..m
      /\ \A j \in 1..m : j + d \in 1..n + 1 /\ beats'[j] = all[j + d]
  BY <1>7
<1> HIDE DEF m, d
<1>10. /\ Cardinality(waits) + Count("wait", queue) + Count("rearm", queue) <= hellos
       /\ Cardinality(waits) \in Nat
  BY <1>1, FS_CardinalityType DEF SpacedIInv, Fewer
<1>11. Fewer'
  <2>1. Cardinality(waits') + Count("wait", queue') + Count("rearm", queue') <= hellos'
    BY <1>1, <1>2, <1>3, <1>4, <1>10
  <2> QED BY <2>1 DEF Fewer
<1>12. hellos > 0
  BY <1>1, <1>2, <1>3, <1>10
<1>13. Shortest'
  BY <1>4, <1>12 DEF SpacedIInv, Shortest
<1>14. \A i, j \in 1..n + 1 : i <= j => all[i] <= all[j]
  <2> SUFFICES ASSUME NEW i \in 1..n + 1, NEW j \in 1..n + 1, i <= j PROVE all[i] <= all[j]
    OBVIOUS
  <2>1. CASE j = n + 1
    <3>1. all[i] \in 0..now
      BY <1>1, <1>5
    <3> QED BY <1>1, <1>5, <2>1, <3>1
  <2>2. CASE j \in 1..n
    <3>1. i \in 1..n
      BY <1>5, <2>2
    <3>2. beats[i] <= beats[j]
      BY <1>5, <2>2, <3>1 DEF SpacedIInv, Rising
    <3> QED BY <1>5, <2>2, <3>1, <3>2
  <2> QED BY <1>5, <2>1, <2>2
<1>15. Rising'
  <2> SUFFICES ASSUME NEW i \in 1..m, NEW j \in 1..m, i <= j
               PROVE  beats'[i] <= beats'[j]
    BY <1>9 DEF Rising
  <2>1. /\ i + d \in 1..n + 1 /\ beats'[i] = all[i + d]
        /\ j + d \in 1..n + 1 /\ beats'[j] = all[j + d]
    BY <1>9
  <2>2. i + d <= j + d
    BY <1>8
  <2> QED BY <1>14, <2>1, <2>2
<1>16. Crowd'
  <2> SUFFICES ASSUME Gap > 0, NEW T \in Int, NEW k \in 0..m,
                      T >= now - Gap, k > 0 => beats'[m - k + 1] > T
               PROVE  k + Cardinality(Early(waits', T + Gap))
                        + Count("wait", queue') <= hellos
    BY <1>4 DEF Crowd, Gap, Since, Soon, m
  <2>1. Cardinality(Early(waits', T + Gap)) \in Nat
    BY <1>1, <1>4, EarlyPart
  <2>2. CASE k = 0
    <3>1. Cardinality(Early(waits', T + Gap)) + Count("wait", queue') <= hellos'
      BY <1>11, NoneSince
    <3> QED BY <1>1, <1>3, <1>4, <2>1, <2>2, <3>1
  <2>3. CASE k > 0
    <3>1. k - 1 \in 0..n
      BY <1>5, <1>8, <2>3
    <3>2. Since(k - 1, T)
      <4> SUFFICES ASSUME k - 1 > 0 PROVE beats[n - (k - 1) + 1] > T
        BY DEF Since, n
      <4>1. m - k + 1 \in 1..m
        BY <1>8, <2>3
      <4>2. beats'[m - k + 1] = all[(m - k + 1) + d]
        BY <1>9, <4>1
      <4>3. (m - k + 1) + d = n - (k - 1) + 1
        BY <1>5, <1>8
      <4>4. n - (k - 1) + 1 \in 1..n
        BY <1>5, <3>1
      <4>5. all[n - (k - 1) + 1] = beats[n - (k - 1) + 1]
        BY <1>5, <4>4
      <4> QED BY <2>3, <4>2, <4>3, <4>5
    <3>3. (k - 1) + Cardinality(Soon(T + Gap)) + Count("wait", queue) <= hellos
      BY <1>12, <3>1, <3>2 DEF SpacedIInv, Crowd, n
    <3>4. Cardinality(Soon(T + Gap)) = Cardinality(Early(waits', T + Gap))
      BY <1>4 DEF Soon
    <3> QED BY <1>1, <1>2, <1>3, <2>1, <3>3, <3>4
  <2> QED BY <1>8, <2>2, <2>3
<1>17. ASSUME NEW i \in 1..n + 1, i + hellos \in 1..n + 1
       PROVE  all[i + hellos] - all[i] >= Gap
  <2>1. CASE i + hellos \in 1..n
    <3>1. i \in 1..n
      BY <1>1, <1>5, <2>1
    <3>2. beats[i + hellos] - beats[i] >= Gap
      BY <1>5, <2>1, <3>1 DEF SpacedIInv, HeartbeatsSpaced, Gap
    <3> QED BY <1>5, <2>1, <3>1, <3>2
  <2>2. CASE i + hellos = n + 1
    <3>1. i \in 1..n /\ i = n - hellos + 1 /\ hellos \in 0..n
      BY <1>1, <1>5, <1>12, <2>2
    <3>2. all[i + hellos] = now /\ all[i] = beats[i] /\ beats[i] \in 0..now
      BY <1>5, <2>2, <3>1
    <3>3. CASE Gap <= 0
      BY <1>1, <3>2, <3>3
    <3>4. CASE Gap > 0
      <4> SUFFICES ASSUME beats[i] > now - Gap PROVE FALSE
        BY <1>1, <3>2
      <4>1. now - Gap \in Int /\ Since(hellos, now - Gap)
        BY <1>1, <3>1 DEF Since, n
      <4>2. hellos + Cardinality(Soon((now - Gap) + Gap)) + Count("wait", queue) <= hellos
        <5>1. now - Gap >= now - Gap
          BY <1>1
        <5>2. hellos \in 0..Len(beats)
          BY <3>1 DEF n
        <5> QED BY <1>12, <3>4, <4>1, <5>1, <5>2 DEF SpacedIInv, Crowd
      <4>3. Cardinality(Soon((now - Gap) + Gap)) \in Nat
        BY <1>1, EarlyPart DEF Soon
      <4> QED BY <1>1, <1>2, <1>3, <4>2, <4>3
    <3> QED BY <1>1, <3>3, <3>4
  <2>3. i + hellos \in 1..n \/ i + hellos = n + 1
    BY <1>5, <1>17
  <2> QED BY <2>1, <2>2, <2>3
<1>18. HeartbeatsSpaced'
  <2> SUFFICES ASSUME NEW i \in 1..m, i + hellos \in 1..m
               PROVE  beats'[i + hellos] - beats'[i] >= Gap
    BY <1>4, <1>9 DEF HeartbeatsSpaced, Gap
  <2>1. /\ i + d \in 1..n + 1 /\ beats'[i] = all[i + d]
        /\ (i + hellos) + d \in 1..n + 1 /\ beats'[i + hellos] = all[(i + hellos) + d]
    BY <1>9
  <2>2. (i + hellos) + d = (i + d) + hellos
    BY <1>1, <1>8
  <2> QED BY <1>17, <2>1, <2>2
<1> QED BY <1>11, <1>13, <1>15, <1>16, <1>18 DEF SpacedIInv

LEMMA SpacedInductive == SpacedIInv /\ [Next]_vars => SpacedIInv'
<1> SUFFICES ASSUME SpacedIInv, [Next]_vars PROVE SpacedIInv'
  OBVIOUS
<1>1. IInv'
  BY Inductive DEF SpacedIInv
<1>2. CASE UNCHANGED vars
  BY <1>2, <1>1 DEF vars, SpacedIInv, Fewer, Shortest, Rising, Crowd, Since, Gap, Soon,
     HeartbeatsSpaced
<1>3. CASE Next
  BY <1>1, <1>3, PollSpaced, PassSpaced, HelloSpaced, IdleSpaced, BeatSpaced, RearmSpaced DEF Next
<1> QED BY <1>2, <1>3

(* There is no more than one heartbeat for each HELLO in a time less than  *)
(* the shortest interval less the slack, for any number of HELLO frames    *)
(* and any intervals: the timers that a second HELLO leaves behind, or a   *)
(* heartbeat sets anew, never beat more than that (discord.cpp 93,         *)
(* 111-113).                                                               *)
THEOREM BeatsSpaced == Spec => []HeartbeatsSpaced
<1>1. SpacedIInv => HeartbeatsSpaced
  BY DEF SpacedIInv
<1> QED BY <1>1, SpacedStarts, SpacedInductive, PTL DEF Spec

-----------------------------------------------------------------------------
(* asio's timer queue (HeartbeatTimers).  While an entry is on its way the *)
(* heap is sorted but for it: QueueInv says what is sorted then, and that  *)
(* every timer knows its place.  HeapIInv adds what each job still has to  *)
(* do before the entries are the waits again, and the timerfd no later     *)
(* than the first of them.                                                 *)

Entry == [timer : Nat, time : Int]

QueueTyped(q) ==
  /\ q.heap \in Seq(Entry)
  /\ DOMAIN q.index \subseteq Nat /\ q.index \in [DOMAIN q.index -> Nat]

\* Every timer knows its place, if it has one.
Indexed(q) ==
  /\ \A i \in DOMAIN q.heap :
       q.heap[i].timer \in DOMAIN q.index /\ q.index[q.heap[i].timer] = i
  /\ \A t \in DOMAIN q.index :
       q.index[t] /= 0 => q.index[t] \in DOMAIN q.heap /\ q.heap[q.index[t]].timer = t

\* The entries but that of timer.
Without(q, timer) == {e \in Entries(q) : e.timer /= timer}

Times(q) == [i \in 1..Len(q.heap) |-> q.heap[i].time]

\* None of the first n times is earlier than its parent's.
Sorted(h, n) == \A i \in 2..n : h[i \div 2] <= h[i]

\* The children of s are not before its parent.
Bridged(h, n, s) == \A i \in 2..n : i \div 2 = s /\ s > 1 => h[s \div 2] <= h[i]

\* Sorted but for s, which may be before its parent.
Climbing(h, n, s) ==
  s \in 1..n /\ Bridged(h, n, s) /\ \A i \in 2..n : i /= s => h[i \div 2] <= h[i]

\* Sorted but for s, which may be after its children.
Sinking(h, n, s) ==
  s \in 1..n /\ Bridged(h, n, s) /\ \A i \in 2..n : i \div 2 /= s => h[i \div 2] <= h[i]

-----------------------------------------------------------------------------
(* Sequences of times as heaps                                             *)

LEMMA Parents ==
  /\ \A i \in Nat : i >= 2 => i \div 2 \in Nat /\ 1 <= i \div 2 /\ i \div 2 < i
  /\ \A i \in Nat : i >= 2 => i = 2 * (i \div 2) \/ i = 2 * (i \div 2) + 1
  /\ \A i \in Nat : (2 * i) \div 2 = i /\ (2 * i + 1) \div 2 = i
OBVIOUS

LEMMA Swapped ==
  ASSUME NEW n \in Nat, NEW h \in [1..n -> Int], NEW i \in 1..n, NEW j \in 1..n, i /= j
  PROVE  LET g == [h EXCEPT ![i] = h[j], ![j] = h[i]]
         IN g \in [1..n -> Int] /\ g[i] = h[j] /\ g[j] = h[i]
            /\ \A k \in 1..n : k /= i /\ k /= j => g[k] = h[k]
OBVIOUS

LEMMA RiseKeeps ==
  ASSUME NEW n \in Nat, NEW h \in [1..n -> Int], NEW s \in 2..n, Climbing(h, n, s),
         h[s] < h[s \div 2]
  PROVE  Climbing([h EXCEPT ![s] = h[s \div 2], ![s \div 2] = h[s]], n, s \div 2)
<1> DEFINE p == s \div 2
           g == [h EXCEPT ![s] = h[p], ![p] = h[s]]
<1>1. p \in 1..n /\ p < s /\ s \in 1..n
  BY Parents
<1>2. g[s] = h[p] /\ g[p] = h[s] /\ \A k \in 1..n : k /= s /\ k /= p => g[k] = h[k]
  BY <1>1, Swapped
<1>3. h \in [1..n -> Int] /\ h[s] < h[p]
  OBVIOUS
<1> HIDE DEF g
<1>4. ASSUME NEW i \in 2..n PROVE i \div 2 \in 1..n /\ i \div 2 < i /\ i \in 1..n
  BY Parents
<1>5. ASSUME NEW i \in 2..n, i /= p PROVE g[i \div 2] <= g[i]
  <2> DEFINE r == i \div 2
  <2>1. r \in 1..n /\ r < i
    BY <1>4
  <2>2. CASE i = s
    BY <1>1, <1>2, <1>3, <2>2
  <2>3. CASE i /= s /\ r = s
    <3>1. h[p] <= h[i]
      BY <2>3 DEF Climbing, Bridged
    <3> QED BY <1>2, <1>5, <2>3, <3>1
  <2>4. CASE i /= s /\ r = p
    <3>1. h[p] <= h[i]
      BY <2>4 DEF Climbing
    <3>2. h[p] \in Int /\ h[s] \in Int /\ h[i] \in Int
      BY <1>1, <1>3
    <3>3. g[r] = h[s] /\ g[i] = h[i]
      BY <1>2, <1>5, <2>4
    <3> QED BY <1>3, <3>1, <3>2, <3>3
  <2>5. CASE i /= s /\ r /= s /\ r /= p
    <3>1. h[r] <= h[i]
      BY <2>5 DEF Climbing
    <3>2. g[r] = h[r] /\ g[i] = h[i]
      BY <1>2, <1>5, <2>1, <2>5
    <3> QED BY <3>1, <3>2
  <2> QED BY <2>2, <2>3, <2>4, <2>5
<1>6. ASSUME NEW i \in 2..n, i \div 2 = p, p > 1 PROVE g[p \div 2] <= g[i]
  <2> DEFINE r == p \div 2
  <2>1. r \in 1..n /\ r < p /\ p \in 2..n
    BY <1>1, <1>6, <1>4
  <2>2. h[r] <= h[p] /\ g[r] = h[r]
    BY <1>1, <1>2, <2>1 DEF Climbing
  <2>3. i /= s => h[p] <= h[i]
    BY <1>6 DEF Climbing
  <2>4. i /= p
    BY <1>4, <1>6
  <2>5. h[r] \in Int /\ h[p] \in Int /\ h[i] \in Int
    BY <1>1, <1>3, <2>1
  <2>6. CASE i = s
    BY <1>2, <2>2, <2>6
  <2>7. CASE i /= s
    <3>1. g[i] = h[i]
      BY <1>2, <2>4, <2>7
    <3> QED BY <2>2, <2>3, <2>5, <2>7, <3>1
  <2> QED BY <2>6, <2>7
<1> QED BY <1>1, <1>5, <1>6 DEF Climbing, Bridged, g

LEMMA SinkKeeps ==
  ASSUME NEW n \in Nat, NEW h \in [1..n -> Int], NEW s \in 1..n, Sinking(h, n, s),
         NEW c \in 2..n, c \div 2 = s, h[c] <= h[s],
         \A i \in 2..n : i \div 2 = s => h[c] <= h[i]
  PROVE  Sinking([h EXCEPT ![s] = h[c], ![c] = h[s]], n, c)
<1> DEFINE g == [h EXCEPT ![s] = h[c], ![c] = h[s]]
<1>1. s < c /\ c \in 1..n
  BY Parents
<1>2. g[s] = h[c] /\ g[c] = h[s] /\ \A k \in 1..n : k /= s /\ k /= c => g[k] = h[k]
  BY <1>1, Swapped
<1> HIDE DEF g
<1>3. ASSUME NEW i \in 2..n PROVE i \div 2 \in 1..n /\ i \div 2 < i /\ i \in 1..n
  BY Parents
<1>4. ASSUME NEW i \in 2..n, i \div 2 /= c PROVE g[i \div 2] <= g[i]
  <2> DEFINE r == i \div 2
  <2>1. r \in 1..n /\ r < i /\ i \in 1..n
    BY <1>3
  <2>2. CASE i = c
    BY <1>2, <2>2
  <2>3. CASE i = s
    <3>1. h[r] <= h[c]
      BY <2>1, <2>3 DEF Sinking, Bridged
    <3> QED BY <1>2, <1>4, <2>1, <2>3, <3>1
  <2>4. CASE i /= c /\ r = s
    <3>1. i /= s
      BY <2>1, <2>4
    <3> QED BY <1>2, <2>1, <2>4, <3>1
  <2>5. CASE i /= c /\ i /= s /\ r /= s
    <3>1. h[r] <= h[i]
      BY <2>5 DEF Sinking
    <3>2. g[r] = h[r] /\ g[i] = h[i]
      BY <1>2, <1>4, <2>1, <2>5
    <3> QED BY <3>1, <3>2
  <2> QED BY <2>2, <2>3, <2>4, <2>5
<1>5. ASSUME NEW i \in 2..n, i \div 2 = c PROVE g[c \div 2] <= g[i]
  <2>1. h[c] <= h[i]
    BY <1>1, <1>5 DEF Sinking
  <2>2. i /= s /\ i /= c /\ i \in 1..n
    BY <1>1, <1>3, <1>5
  <2> QED BY <1>2, <2>1, <2>2
<1> QED BY <1>1, <1>4, <1>5 DEF Sinking, Bridged, g

LEMMA Risen ==
  ASSUME NEW n \in Nat, NEW h \in [1..n -> Int], NEW s \in 1..n, Climbing(h, n, s),
         ~(s > 1 /\ h[s] < h[s \div 2])
  PROVE  Sorted(h, n)
<1> SUFFICES ASSUME NEW i \in 2..n PROVE h[i \div 2] <= h[i]
  BY DEF Sorted
<1>1. i \div 2 \in 1..n
  BY Parents
<1>2. h[i] \in Int /\ h[i \div 2] \in Int
  BY <1>1
<1> QED BY <1>2 DEF Climbing

LEMMA Sunk ==
  ASSUME NEW n \in Nat, NEW h \in [1..n -> Int], NEW s \in 1..n, Sinking(h, n, s),
         \A i \in 2..n : i \div 2 = s => h[s] <= h[i]
  PROVE  Sorted(h, n)
BY DEF Sorted, Sinking

LEMMA Cut ==
  ASSUME NEW n \in Nat, NEW h, NEW g, Sorted(h, n + 1), \A k \in 1..n : g[k] = h[k]
  PROVE  Sorted(g, n)
<1> SUFFICES ASSUME NEW i \in 2..n PROVE g[i \div 2] <= g[i]
  BY DEF Sorted
<1>1. i \div 2 \in 1..n /\ i \in 2..n + 1 /\ i \in 1..n
  BY Parents
<1> QED BY <1>1 DEF Sorted

\* The last time replaces that at s.
LEMMA Replaced ==
  ASSUME NEW n \in Nat, NEW h \in [1..n + 1 -> Int], NEW g \in [1..n -> Int], NEW s \in 1..n,
         Sorted(h, n + 1), \A k \in 1..n : k /= s => g[k] = h[k]
  PROVE  IF s > 1 /\ g[s] < g[s \div 2] THEN Climbing(g, n, s) ELSE Sinking(g, n, s)
<1>1. ASSUME NEW i \in 2..n
      PROVE  i \div 2 \in 1..n /\ i \div 2 < i /\ i \in 1..n /\ h[i \div 2] <= h[i]
  BY Parents DEF Sorted
<1>2. Bridged(g, n, s)
  <2> SUFFICES ASSUME NEW i \in 2..n, i \div 2 = s, s > 1 PROVE g[s \div 2] <= g[i]
    BY DEF Bridged
  <2>1. s \in 2..n /\ i /= s
    BY <1>1
  <2>2. s \div 2 \in 1..n /\ s \div 2 < s /\ h[s \div 2] <= h[s] /\ h[s] <= h[i]
    BY <1>1, <2>1
  <2>3. h[s \div 2] \in Int /\ h[s] \in Int /\ h[i] \in Int
    BY <2>2
  <2>4. g[s \div 2] = h[s \div 2] /\ g[i] = h[i]
    BY <1>1, <2>1, <2>2
  <2> QED BY <2>2, <2>3, <2>4
<1>3. ASSUME NEW i \in 2..n, i /= s, i \div 2 /= s PROVE g[i \div 2] <= g[i]
  BY <1>1, <1>3
<1>4. CASE s > 1 /\ g[s] < g[s \div 2]
  <2>1. ASSUME NEW i \in 2..n, i \div 2 = s PROVE g[s] <= g[i]
    <3>1. g[s \div 2] <= g[i]
      BY <1>2, <1>4, <2>1 DEF Bridged
    <3>2. s \div 2 \in 1..n
      BY <1>1, <1>4
    <3>3. g[s] \in Int /\ g[s \div 2] \in Int /\ g[i] \in Int
      BY <3>2
    <3> QED BY <1>4, <3>1, <3>3
  <2> QED BY <1>2, <1>3, <1>4, <2>1 DEF Climbing
<1>5. CASE ~(s > 1 /\ g[s] < g[s \div 2])
  <2>1. s > 1 => g[s \div 2] <= g[s]
    <3> SUFFICES ASSUME s > 1 PROVE g[s \div 2] <= g[s]
      OBVIOUS
    <3>1. s \div 2 \in 1..n
      BY <1>1
    <3>2. g[s] \in Int /\ g[s \div 2] \in Int
      BY <3>1
    <3> QED BY <1>5, <3>2
  <2>2. ASSUME NEW i \in 2..n, i \div 2 /= s PROVE g[i \div 2] <= g[i]
    <3>1. CASE i = s
      BY <2>1, <3>1
    <3>2. CASE i /= s
      BY <1>3, <2>2, <3>2
    <3> QED BY <3>1, <3>2
  <2> QED BY <1>2, <2>2, <1>5 DEF Sinking
<1> QED BY <1>4, <1>5

LEMMA Added ==
  ASSUME NEW n \in Nat, NEW h, NEW g, Sorted(h, n), \A k \in 1..n : g[k] = h[k]
  PROVE  Climbing(g, n + 1, n + 1)
<1>1. ASSUME NEW i \in 2..n + 1 PROVE i \div 2 \in 1..n /\ i \div 2 /= n + 1
  BY Parents
<1>2. ASSUME NEW i \in 2..n + 1, i /= n + 1 PROVE g[i \div 2] <= g[i]
  BY <1>1, <1>2 DEF Sorted
<1> QED BY <1>1, <1>2 DEF Climbing, Bridged

Before == {ss \in Nat \X Nat : ss[1] < ss[2]}

LEMMA LeastOf ==
  ASSUME NEW T \in SUBSET Nat, T /= {}
  PROVE  \E m \in T : \A n \in T : m <= n
<1>1. IsWellFoundedOn(Before, Nat)
  BY NatLessThanWellFounded DEF OpToRel, Before
<1>2. PICK m \in T : \A n \in T : ~(<<n, m>> \in Before)
  BY <1>1, WFMin
<1>3. \A n \in T : m \in Nat /\ n \in Nat /\ (n < m => <<n, m>> \in Before)
  BY DEF Before
<1>4. ASSUME NEW n \in T, ~(m <= n) PROVE FALSE
  <2>1. m \in Nat /\ n \in Nat
    BY <1>3
  <2>2. n < m
    BY <1>4, <2>1
  <2> QED BY <1>2, <1>3, <2>2
<1> QED BY <1>4

\* Of sorted times the first is the least.
LEMMA RootFirst ==
  ASSUME NEW n \in Nat, NEW h \in [1..n -> Int], Sorted(h, n)
  PROVE  \A i \in 1..n : h[1] <= h[i]
<1> DEFINE T == {i \in 1..n : h[i] < h[1]}
<1> SUFFICES ASSUME NEW x \in 1..n, ~(h[1] <= h[x]) PROVE FALSE
  OBVIOUS
<1>1. 1 \in 1..n /\ h[1] \in Int /\ h[x] \in Int
  OBVIOUS
<1>2. T \in SUBSET Nat /\ T /= {}
  BY <1>1
<1>3. PICK m \in T : \A k \in T : m <= k
  BY <1>2, LeastOf
<1>4. m \in 2..n /\ h[m] < h[1] /\ h[m] \in Int
  BY <1>1
<1>5. m \div 2 \in 1..n /\ m \div 2 < m
  BY <1>4, Parents
<1>6. h[m \div 2] <= h[m] /\ h[m \div 2] \in Int
  BY <1>4, <1>5 DEF Sorted
<1>7. m \div 2 \in T
  BY <1>1, <1>4, <1>5, <1>6
<1> QED BY <1>3, <1>4, <1>5, <1>7

-----------------------------------------------------------------------------
(* The queue                                                               *)

Order(q, s) ==
  LET n == Len(q.heap)
      h == Times(q)
  IN /\ s \in [way : {"none", "up", "down"}, at : Nat]
     /\ s.way = "none" => Sorted(h, n)
     /\ s.way = "up" => Climbing(h, n, s.at)
     /\ s.way = "down" => Sinking(h, n, s.at)

QueueInv == QueueTyped(timers) /\ Indexed(timers) /\ Order(timers, sift)

LEMMA TypedTimes ==
  ASSUME NEW q, QueueTyped(q)
  PROVE  /\ Len(q.heap) \in Nat /\ DOMAIN q.heap = 1..Len(q.heap)
         /\ \A i \in 1..Len(q.heap) : q.heap[i] \in Entry /\ Times(q)[i] = q.heap[i].time
         /\ Times(q) \in [1..Len(q.heap) -> Int]
<1>1. Len(q.heap) \in Nat /\ DOMAIN q.heap = 1..Len(q.heap)
  BY LenProperties DEF QueueTyped
<1>2. \A i \in 1..Len(q.heap) : q.heap[i] \in Entry
  BY ElementOfSeq DEF QueueTyped
<1>3. \A i \in 1..Len(q.heap) : q.heap[i].time \in Int
  BY <1>2 DEF Entry
<1> QED BY <1>1, <1>2, <1>3 DEF Times

LEMMA SwapKeeps ==
  ASSUME NEW q, QueueTyped(q), Indexed(q), NEW i \in DOMAIN q.heap, NEW j \in DOMAIN q.heap, i /= j
  PROVE  LET r == SwapHeap(q, i, j)
         IN /\ QueueTyped(r) /\ Indexed(r) /\ Entries(r) = Entries(q)
            /\ Len(r.heap) = Len(q.heap) /\ DOMAIN r.index = DOMAIN q.index
            /\ r.heap[i] = q.heap[j] /\ r.heap[j] = q.heap[i]
            /\ \A k \in DOMAIN q.heap : k /= i /\ k /= j => r.heap[k] = q.heap[k]
            /\ Times(r) = [Times(q) EXCEPT ![i] = Times(q)[j], ![j] = Times(q)[i]]
<1> DEFINE r == SwapHeap(q, i, j)
           n == Len(q.heap)
<1>1. n \in Nat /\ DOMAIN q.heap = 1..n /\ i \in 1..n /\ j \in 1..n
      /\ q.heap \in [1..n -> Entry]
  BY TypedTimes, LenProperties DEF QueueTyped
<1>2. /\ r.heap = [q.heap EXCEPT ![i] = q.heap[j], ![j] = q.heap[i]]
      /\ r.index = [q.index EXCEPT ![q.heap[i].timer] = j, ![q.heap[j].timer] = i]
  BY DEF SwapHeap
<1> HIDE DEF r
<1>3. r.heap \in [1..n -> Entry]
  BY <1>1, <1>2
<1>4. r.heap \in Seq(Entry) /\ Len(r.heap) = n /\ DOMAIN r.heap = 1..n
  BY <1>1, <1>3
<1>5. /\ r.heap[i] = q.heap[j] /\ r.heap[j] = q.heap[i]
      /\ \A k \in 1..n : k /= i /\ k /= j => r.heap[k] = q.heap[k]
  BY <1>1, <1>2
<1>6. DOMAIN r.index = DOMAIN q.index
  BY <1>2
<1>7. QueueTyped(r)
  <2>1. q.index \in [DOMAIN q.index -> Nat] /\ i \in Nat /\ j \in Nat
    BY <1>1 DEF QueueTyped
  <2>2. \A t \in DOMAIN q.index : r.index[t] \in Nat
    BY <1>2, <2>1
  <2>3. r.index \in [DOMAIN q.index -> Nat]
    BY <1>2, <2>1, <2>2
  <2> QED BY <1>4, <1>6, <2>3 DEF QueueTyped
<1>8. /\ q.heap[i].timer \in DOMAIN q.index /\ q.heap[j].timer \in DOMAIN q.index
      /\ q.index[q.heap[i].timer] = i /\ q.index[q.heap[j].timer] = j
      /\ q.heap[i].timer /= q.heap[j].timer
  BY <1>1 DEF Indexed
<1>9. /\ r.index[q.heap[i].timer] = j /\ r.index[q.heap[j].timer] = i
      /\ \A t \in DOMAIN q.index :
           t /= q.heap[i].timer /\ t /= q.heap[j].timer => r.index[t] = q.index[t]
  BY <1>2, <1>8 DEF QueueTyped
<1>10. Indexed(r)
  <2>1. ASSUME NEW k \in 1..n
        PROVE  r.heap[k].timer \in DOMAIN r.index /\ r.index[r.heap[k].timer] = k
    <3>1. CASE k = i \/ k = j
      BY <1>5, <1>6, <1>8, <1>9, <3>1
    <3>2. CASE k /= i /\ k /= j
      <4>1. r.heap[k] = q.heap[k] /\ q.heap[k].timer \in DOMAIN q.index /\ q.index[q.heap[k].timer] = k
        BY <1>1, <1>5, <3>2 DEF Indexed
      <4> QED BY <1>6, <1>8, <1>9, <3>2, <4>1
    <3> QED BY <3>1, <3>2
  <2>2. ASSUME NEW t \in DOMAIN q.index, r.index[t] /= 0
        PROVE  r.index[t] \in 1..n /\ r.heap[r.index[t]].timer = t
    <3>1. CASE t = q.heap[i].timer \/ t = q.heap[j].timer
      BY <1>1, <1>5, <1>9, <3>1
    <3>2. CASE t /= q.heap[i].timer /\ t /= q.heap[j].timer
      <4>1. r.index[t] = q.index[t] /\ q.index[t] \in 1..n /\ q.heap[q.index[t]].timer = t
        BY <1>1, <1>9, <2>2, <3>2 DEF Indexed
      <4> QED BY <1>5, <3>2, <4>1
    <3> QED BY <3>1, <3>2
  <2> QED BY <1>4, <1>6, <2>1, <2>2 DEF Indexed
<1>11. Entries(r) = Entries(q)
  <2>1. Entries(r) \subseteq Entries(q)
    BY <1>1, <1>4, <1>5 DEF Entries
  <2>2. ASSUME NEW k \in 1..n PROVE q.heap[k] \in Entries(r)
    BY <1>1, <1>4, <1>5 DEF Entries
  <2> QED BY <1>1, <2>1, <2>2 DEF Entries
<1>12. Times(r) = [Times(q) EXCEPT ![i] = Times(q)[j], ![j] = Times(q)[i]]
  BY <1>1, <1>4, <1>5 DEF Times
<1> QED BY <1>1, <1>4, <1>5, <1>6, <1>7, <1>10, <1>11, <1>12 DEF r

\* r is q without its last entry, that of timer, which was at n + 1.
Shortened(q, r, n, timer) ==
  /\ QueueTyped(r) /\ Indexed(r) /\ Entries(r) = Without(q, timer)
  /\ Len(r.heap) = n /\ \A k \in 1..n : r.heap[k] = q.heap[k]

LEMMA PopKeeps ==
  ASSUME NEW q, QueueTyped(q), Indexed(q), NEW n \in Nat, Len(q.heap) = n + 1,
         NEW timer, q.heap[n + 1].timer = timer
  PROVE  Shortened(q, PopBack(q, timer), n, timer)
<1> DEFINE r == PopBack(q, timer)
<1>1. /\ DOMAIN q.heap = 1..n + 1 /\ q.heap \in Seq(Entry) /\ n + 1 \in 1..n + 1
      /\ timer \in DOMAIN q.index /\ q.index[timer] = n + 1
  BY TypedTimes DEF QueueTyped, Indexed
<1>2. (n + 1) - 1 = n
  OBVIOUS
<1>3. r.heap = SubSeq(q.heap, 1, n) /\ r.index = [q.index EXCEPT ![timer] = 0]
  BY <1>2 DEF PopBack
<1> HIDE DEF r
<1>4. r.heap \in Seq(Entry) /\ Len(r.heap) = n /\ \A k \in 1..n : r.heap[k] = q.heap[k]
  <2>1. \A k \in 1..n : q.heap[k] \in Entry
    BY <1>1, TypedTimes
  <2> QED BY <1>1, <1>3, <2>1
<1>5. DOMAIN r.heap = 1..n
  BY <1>4, LenProperties
<1>6. /\ DOMAIN r.index = DOMAIN q.index /\ r.index[timer] = 0
      /\ \A t \in DOMAIN q.index : t /= timer => r.index[t] = q.index[t]
  BY <1>1, <1>3
<1>7. QueueTyped(r)
  <2>1. r.index \in [DOMAIN q.index -> Nat]
    BY <1>1, <1>3 DEF QueueTyped
  <2> QED BY <1>4, <1>6, <2>1 DEF QueueTyped
<1>8. ASSUME NEW k \in 1..n PROVE q.heap[k].timer /= timer /\ k \in 1..n + 1
  BY <1>1 DEF Indexed
<1>9. Indexed(r)
  <2>1. ASSUME NEW k \in 1..n
        PROVE  r.heap[k].timer \in DOMAIN r.index /\ r.index[r.heap[k].timer] = k
    <3>1. q.heap[k].timer \in DOMAIN q.index /\ q.index[q.heap[k].timer] = k
      BY <1>1, <1>8 DEF Indexed
    <3> QED BY <1>4, <1>6, <1>8, <3>1
  <2>2. ASSUME NEW t \in DOMAIN q.index, r.index[t] /= 0
        PROVE  r.index[t] \in 1..n /\ r.heap[r.index[t]].timer = t
    <3>1. t /= timer /\ r.index[t] = q.index[t]
      BY <1>6, <2>2
    <3>2. q.index[t] \in 1..n + 1 /\ q.heap[q.index[t]].timer = t
      BY <1>1, <2>2, <3>1 DEF Indexed
    <3>3. q.index[t] /= n + 1
      BY <3>1, <3>2
    <3> QED BY <1>4, <3>1, <3>2, <3>3
  <2> QED BY <1>5, <1>6, <2>1, <2>2 DEF Indexed
<1>10. Entries(r) = {e \in Entries(q) : e.timer /= timer}
  <2>1. ASSUME NEW k \in 1..n PROVE r.heap[k] \in {e \in Entries(q) : e.timer /= timer}
    BY <1>1, <1>4, <1>8 DEF Entries
  <2>2. ASSUME NEW k \in 1..n + 1, q.heap[k].timer /= timer PROVE q.heap[k] \in Entries(r)
    <3>1. k \in 1..n
      BY <2>2
    <3> QED BY <1>4, <1>5, <3>1 DEF Entries
  <2>3. \A x : x \in Entries(r) => x \in {e \in Entries(q) : e.timer /= timer}
    BY <1>5, <2>1 DEF Entries
  <2>4. \A x : x \in {e \in Entries(q) : e.timer /= timer} => x \in Entries(r)
    <3> SUFFICES ASSUME NEW x \in Entries(q), x.timer /= timer PROVE x \in Entries(r)
      OBVIOUS
    <3>1. PICK k \in 1..n + 1 : x = q.heap[k]
      BY <1>1 DEF Entries
    <3> QED BY <2>2, <3>1
  <2> QED BY <2>3, <2>4
<1> QED BY <1>4, <1>7, <1>9, <1>10 DEF r, Without, Shortened

LEMMA MinChildLeast ==
  ASSUME NEW q, QueueTyped(q), NEW i \in 1..Len(q.heap), 2 * i <= Len(q.heap)
  PROVE  LET c == MinChild(q, i)
         IN /\ c \in 2..Len(q.heap) /\ c \div 2 = i
            /\ \A k \in 2..Len(q.heap) : k \div 2 = i => q.heap[c].time <= q.heap[k].time
<1> DEFINE n == Len(q.heap)
           c == MinChild(q, i)
           t(k) == q.heap[k].time
<1>1. n \in Nat /\ \A k \in 1..n : t(k) \in Int
  BY TypedTimes DEF Entry
<1>2. ASSUME NEW k \in 2..n, k \div 2 = i PROVE k = 2 * i \/ k = 2 * i + 1
  BY <1>2, Parents
<1>3. (2 * i) \div 2 = i /\ (2 * i + 1) \div 2 = i /\ 2 * i \in 2..n /\ 2 * i \in 1..n
  BY Parents, <1>1
<1>4. c = IF 2 * i = n \/ t(2 * i) < t(2 * i + 1) THEN 2 * i ELSE 2 * i + 1
  BY DEF MinChild
<1> HIDE DEF c, n, t
<1>5. CASE 2 * i = n
  <2>1. c = 2 * i
    BY <1>4, <1>5
  <2>2. ASSUME NEW k \in 2..n, k \div 2 = i PROVE t(c) <= t(k)
    <3>1. k = 2 * i
      BY <1>1, <1>2, <1>5, <2>2
    <3> QED BY <1>1, <1>3, <2>1, <3>1
  <2> QED BY <1>3, <2>1, <2>2 DEF c, n, t
<1>6. CASE 2 * i /= n
  <2>1. 2 * i + 1 \in 2..n /\ 2 * i + 1 \in 1..n
    BY <1>1, <1>3, <1>6
  <2>2. t(2 * i) \in Int /\ t(2 * i + 1) \in Int
    BY <1>1, <1>3, <2>1
  <2>3. c = IF t(2 * i) < t(2 * i + 1) THEN 2 * i ELSE 2 * i + 1
    BY <1>4, <1>6
  <2>4. t(c) <= t(2 * i) /\ t(c) <= t(2 * i + 1)
    <3>1. CASE t(2 * i) < t(2 * i + 1)
      BY <2>2, <2>3, <3>1
    <3>2. CASE ~(t(2 * i) < t(2 * i + 1))
      BY <2>2, <2>3, <3>2
    <3> QED BY <3>1, <3>2
  <2>5. ASSUME NEW k \in 2..n, k \div 2 = i PROVE t(c) <= t(k)
    BY <1>2, <2>4, <2>5
  <2>6. c \in 2..n /\ c \div 2 = i
    BY <1>3, <2>1, <2>3
  <2> QED BY <2>5, <2>6 DEF c, n, t
<1> QED BY <1>5, <1>6

LEMMA SettledSorted ==
  ASSUME QueueInv, Settled PROVE Sorted(Times(timers), Len(timers.heap))
<1> DEFINE n == Len(timers.heap)
           h == Times(timers)
<1>1. /\ n \in Nat /\ \A i \in 1..n : h[i] = timers.heap[i].time
      /\ h \in [1..n -> Int]
  BY TypedTimes DEF QueueInv
<1>2. CASE sift.way = "none"
  BY <1>2 DEF QueueInv, Order
<1>3. CASE sift.way = "up"
  <2> DEFINE i == sift.at
  <2>1. Climbing(h, n, i) /\ i \in 1..n
    BY <1>3 DEF QueueInv, Order, Climbing
  <2>2. ~(i > 1 /\ timers.heap[i].time < timers.heap[i \div 2].time)
    BY <1>3 DEF Settled, MustRise
  <2>3. i > 1 => i \div 2 \in 1..n
    BY <2>1, Parents
  <2>4. ~(i > 1 /\ h[i] < h[i \div 2])
    BY <1>1, <2>1, <2>2, <2>3
  <2> HIDE DEF i, h, n
  <2>5. QED BY <1>1, <2>1, <2>4, Risen DEF h, n
<1>4. CASE sift.way = "down"
  <2> DEFINE i == sift.at
  <2>1. Sinking(h, n, i) /\ i \in 1..n
    BY <1>4 DEF QueueInv, Order, Sinking
  <2>2. 2 * i <= n => timers.heap[i].time < timers.heap[MinChild(timers, i)].time
    BY <1>4 DEF Settled, MustSink
  <2>3. ASSUME NEW k \in 2..n, k \div 2 = i PROVE h[i] <= h[k]
    <3> DEFINE c == MinChild(timers, i)
    <3>1. 2 * i <= n
      BY <1>1, <2>1, <2>3, Parents
    <3>2. c \in 2..n /\ timers.heap[c].time <= timers.heap[k].time
      BY <2>1, <2>3, <3>1, MinChildLeast DEF QueueInv
    <3>3. h[i] < h[c] /\ h[c] <= h[k]
      BY <1>1, <2>1, <2>2, <3>1, <3>2
    <3>4. h[i] \in Int /\ h[c] \in Int /\ h[k] \in Int
      BY <1>1, <2>1, <3>2
    <3> QED BY <3>3, <3>4
  <2> HIDE DEF i, h, n
  <2>4. QED BY <1>1, <2>1, <2>3, Sunk DEF h, n
<1> QED BY <1>2, <1>3, <1>4 DEF QueueInv, Order

LEMMA SiftStep ==
  ASSUME QueueInv, Rise \/ Sink
  PROVE  QueueInv' /\ Entries(timers') = Entries(timers)
<1> DEFINE n == Len(timers.heap)
           h == Times(timers)
           i == sift.at
<1>1. /\ n \in Nat /\ \A k \in 1..n : h[k] = timers.heap[k].time
      /\ h \in [1..n -> Int] /\ DOMAIN timers.heap = 1..n
  BY TypedTimes DEF QueueInv
<1>2. CASE Rise
  <2> DEFINE p == i \div 2
  <2>1. /\ timers' = SwapHeap(timers, i, p) /\ sift' = [sift EXCEPT !.at = p]
        /\ sift.way = "up" /\ i > 1 /\ timers.heap[i].time < timers.heap[p].time
    BY <1>2 DEF Rise, MoveTo, MustRise
  <2>2. Climbing(h, n, i) /\ i \in 1..n
    BY <2>1 DEF QueueInv, Order, Climbing
  <2>3. i \in 2..n /\ p \in 1..n /\ p /= i
    <3>1. i \in 2..n
      BY <2>1, <2>2
    <3> HIDE DEF i
    <3>2. p \in Nat /\ 1 <= p /\ p < i
      BY <3>1, Parents
    <3> QED BY <1>1, <3>1, <3>2
  <2>4. h[i] < h[p]
    BY <1>1, <2>1, <2>2, <2>3
  <2>5. /\ QueueTyped(timers') /\ Indexed(timers') /\ Entries(timers') = Entries(timers)
        /\ Len(timers'.heap) = n /\ Times(timers') = [h EXCEPT ![i] = h[p], ![p] = h[i]]
    <3> HIDE DEF i, p
    <3>1. i \in DOMAIN timers.heap /\ p \in DOMAIN timers.heap
      BY <1>1, <2>2, <2>3
    <3>2. QueueTyped(timers) /\ Indexed(timers)
      BY DEF QueueInv
    <3> QED BY <2>1, <2>3, <3>1, <3>2, SwapKeeps
  <2>6. Climbing(Times(timers'), n, p)
    <3>1. n \in Nat /\ h \in [1..n -> Int]
      BY <1>1
    <3> HIDE DEF h, n, i
    <3>2. Climbing([h EXCEPT ![i] = h[p], ![p] = h[i]], n, p)
      BY <3>1, <2>2, <2>3, <2>4, RiseKeeps
    <3> QED BY <2>5, <3>2
  <2>7. sift'.way = "up" /\ sift'.at = p
    BY <2>1 DEF QueueInv, Order
  <2>8. sift' \in [way : {"none", "up", "down"}, at : Nat]
    BY <2>1, <2>3 DEF QueueInv, Order
  <2> QED BY <2>8, <2>5, <2>6, <2>7 DEF QueueInv, Order
<1>3. CASE Sink
  <2> DEFINE c == MinChild(timers, i)
  <2>1. /\ timers' = SwapHeap(timers, i, c) /\ sift' = [sift EXCEPT !.at = c]
        /\ sift.way = "down" /\ 2 * i <= n /\ ~(timers.heap[i].time < timers.heap[c].time)
    BY <1>3 DEF Sink, MoveTo, MustSink
  <2>2. Sinking(h, n, i) /\ i \in 1..n
    BY <2>1 DEF QueueInv, Order, Sinking
  <2>3. /\ c \in 2..n /\ c \div 2 = i
        /\ \A k \in 2..n : k \div 2 = i => timers.heap[c].time <= timers.heap[k].time
    BY <2>1, <2>2, MinChildLeast DEF QueueInv
  <2> HIDE DEF c
  <2>4. c \in 1..n /\ c /= i /\ h[i] \in Int /\ h[c] \in Int
    BY <1>1, <2>2, <2>3, Parents
  <2>5. h[c] <= h[i]
    BY <1>1, <2>1, <2>2, <2>4
  <2>6. \A k \in 2..n : k \div 2 = i => h[c] <= h[k]
    BY <1>1, <2>3, <2>4
  <2>7. /\ QueueTyped(timers') /\ Indexed(timers') /\ Entries(timers') = Entries(timers)
        /\ Len(timers'.heap) = n /\ Times(timers') = [h EXCEPT ![i] = h[c], ![c] = h[i]]
    <3> HIDE DEF i
    <3>1. i \in DOMAIN timers.heap /\ c \in DOMAIN timers.heap
      BY <1>1, <2>2, <2>4
    <3>2. QueueTyped(timers) /\ Indexed(timers)
      BY DEF QueueInv
    <3> QED BY <2>1, <2>4, <3>1, <3>2, SwapKeeps
  <2>8. Sinking(Times(timers'), n, c)
    <3>1. n \in Nat /\ h \in [1..n -> Int]
      BY <1>1
    <3> HIDE DEF h, n, i
    <3>2. Sinking([h EXCEPT ![i] = h[c], ![c] = h[i]], n, c)
      BY <3>1, <2>2, <2>3, <2>5, <2>6, SinkKeeps
    <3> QED BY <2>7, <3>2
  <2>9. sift'.way = "down" /\ sift'.at = c
    BY <2>1 DEF QueueInv, Order
  <2>10. sift' \in [way : {"none", "up", "down"}, at : Nat]
    BY <2>1, <2>4 DEF QueueInv, Order
  <2> QED BY <2>10, <2>7, <2>8, <2>9 DEF QueueInv, Order
<1> QED BY <1>2, <1>3

LEMMA EnqueueStep ==
  ASSUME QueueInv, Settled, NEW timer \in Nat, NEW time \in Int,
         \A e \in Entries(timers) : e.timer /= timer,
         EnqueueTimer(timer, time)
  PROVE  QueueInv' /\ Entries(timers') = Entries(timers) \cup {[timer |-> timer, time |-> time]}
<1> DEFINE q == timers
           r == timers'
           n == Len(q.heap)
           new == [timer |-> timer, time |-> time]
<1>1. /\ n \in Nat /\ DOMAIN q.heap = 1..n /\ q.heap \in Seq(Entry) /\ new \in Entry
      /\ DOMAIN q.index \subseteq Nat /\ q.index \in [DOMAIN q.index -> Nat]
  BY TypedTimes DEF QueueInv, QueueTyped, Entry
<1>2. /\ r.heap = Append(q.heap, new)
      /\ r.index = [t \in DOMAIN q.index \cup {timer} |-> IF t = timer THEN n + 1 ELSE q.index[t]]
      /\ sift' = [way |-> "up", at |-> n + 1]
  BY DEF EnqueueTimer
<1>3. Sorted(Times(q), n)
  BY SettledSorted
<1>4. ASSUME NEW k \in 1..n
      PROVE  /\ q.heap[k].timer /= timer /\ q.heap[k].timer \in DOMAIN q.index
             /\ q.index[q.heap[k].timer] = k
  BY <1>1 DEF Entries, QueueInv, Indexed
<1>5. ASSUME NEW t \in DOMAIN q.index, q.index[t] /= 0
      PROVE  q.index[t] \in 1..n /\ q.heap[q.index[t]].timer = t
  BY <1>1, <1>5 DEF QueueInv, Indexed
<1> HIDE DEF q, r, new
<1>6. /\ r.heap \in Seq(Entry) /\ Len(r.heap) = n + 1 /\ r.heap[n + 1] = new
      /\ \A k \in 1..n : r.heap[k] = q.heap[k]
  BY <1>1, <1>2, AppendProperties
<1>7. DOMAIN r.heap = 1..n + 1 /\ n + 1 \in 1..n + 1 /\ n + 1 \in Nat /\ n + 1 /= 0
  BY <1>1, <1>6, LenProperties
<1>8. /\ DOMAIN r.index = DOMAIN q.index \cup {timer} /\ r.index[timer] = n + 1
      /\ \A t \in DOMAIN q.index : t /= timer => r.index[t] = q.index[t]
  BY <1>2
<1>9. QueueTyped(r)
  <2>1. \A t \in DOMAIN q.index \cup {timer} : (IF t = timer THEN n + 1 ELSE q.index[t]) \in Nat
    BY <1>1, <1>7
  <2>2. r.index \in [DOMAIN r.index -> Nat]
    BY <1>2, <1>8, <2>1
  <2> QED BY <1>1, <1>6, <1>8, <2>2 DEF QueueTyped
<1>10. Indexed(r)
  <2>1. ASSUME NEW k \in 1..n + 1
        PROVE  r.heap[k].timer \in DOMAIN r.index /\ r.index[r.heap[k].timer] = k
    <3>1. CASE k = n + 1
      BY <1>6, <1>8, <3>1 DEF new
    <3>2. CASE k /= n + 1
      <4>1. k \in 1..n
        BY <1>1, <3>2
      <4> QED BY <1>4, <1>6, <1>8, <4>1
    <3> QED BY <3>1, <3>2
  <2>2. ASSUME NEW t \in DOMAIN r.index, r.index[t] /= 0
        PROVE  r.index[t] \in 1..n + 1 /\ r.heap[r.index[t]].timer = t
    <3>1. CASE t = timer
      BY <1>6, <1>7, <1>8, <3>1 DEF new
    <3>2. CASE t /= timer
      <4>1. t \in DOMAIN q.index /\ r.index[t] = q.index[t]
        BY <1>8, <3>2
      <4>2. q.index[t] \in 1..n /\ q.heap[q.index[t]].timer = t
        BY <1>5, <2>2, <4>1
      <4> QED BY <1>1, <1>6, <4>1, <4>2
    <3> QED BY <3>1, <3>2
  <2> QED BY <1>7, <2>1, <2>2 DEF Indexed
<1>11. Entries(r) = Entries(q) \cup {new}
  <2>1. \A k \in 1..n + 1 : r.heap[k] \in Entries(q) \cup {new}
    <3> SUFFICES ASSUME NEW k \in 1..n + 1, k /= n + 1 PROVE r.heap[k] \in Entries(q)
      BY <1>6
    <3>1. k \in 1..n
      BY <1>1
    <3> QED BY <1>1, <1>6, <3>1 DEF Entries
  <2>2. \A k \in 1..n : q.heap[k] \in Entries(r)
    <3> SUFFICES ASSUME NEW k \in 1..n PROVE q.heap[k] \in Entries(r)
      OBVIOUS
    <3>1. k \in 1..n + 1
      BY <1>1
    <3> QED BY <1>6, <1>7, <3>1 DEF Entries
  <2>3. new \in Entries(r)
    BY <1>6, <1>7 DEF Entries
  <2> QED BY <1>1, <1>7, <2>1, <2>2, <2>3 DEF Entries
<1>12. Climbing(Times(r), n + 1, n + 1)
  <2>1. \A k \in 1..n : Times(r)[k] = Times(q)[k]
    <3> SUFFICES ASSUME NEW k \in 1..n PROVE Times(r)[k] = Times(q)[k]
      OBVIOUS
    <3>1. k \in 1..n + 1
      BY <1>1
    <3> QED BY <1>6, <3>1 DEF Times, q
  <2> HIDE DEF n
  <2> QED BY <1>1, <1>3, <2>1, Added
<1>13. Order(r, sift')
  BY <1>2, <1>6, <1>7, <1>12 DEF Order
<1> QED BY <1>9, <1>10, <1>11, <1>13 DEF QueueInv, q, r, new

LEMMA RemoveStep ==
  ASSUME QueueInv, Settled, NEW timer, InHeap(timer), RemoveTimer(timer)
  PROVE  QueueInv' /\ Entries(timers') = Without(timers, timer)
<1> DEFINE q == timers
           i == q.index[timer]
<1>1. QueueTyped(q) /\ Indexed(q)
  BY DEF QueueInv
<1>2. i \in DOMAIN q.heap /\ q.heap[i].timer = timer
  BY <1>1 DEF InHeap, Indexed
<1>3. PICK n \in Nat : Len(q.heap) = n + 1 /\ DOMAIN q.heap = 1..n + 1
  <2>1. Len(q.heap) \in Nat /\ DOMAIN q.heap = 1..Len(q.heap)
    BY <1>1, TypedTimes
  <2>2. Len(q.heap) - 1 \in Nat /\ Len(q.heap) = (Len(q.heap) - 1) + 1
    BY <1>2, <2>1
  <2> QED BY <2>1, <2>2
<1>4. Sorted(Times(q), n + 1) /\ Times(q) \in [1..n + 1 -> Int]
  BY <1>1, <1>3, SettledSorted, TypedTimes
<1>5. IF i = n + 1
      THEN timers' = PopBack(q, timer) /\ sift' = AtRest
      ELSE /\ timers' = PopBack(SwapHeap(q, i, n + 1), timer)
           /\ sift' = [way |-> IF MustRise(timers', i) THEN "up" ELSE "down", at |-> i]
  BY <1>3 DEF RemoveTimer
<1> HIDE DEF q, i
<1>6. CASE i = n + 1
  <2>1. timers' = PopBack(q, timer) /\ sift' = AtRest
    BY <1>5, <1>6
  <2>2. /\ QueueTyped(timers') /\ Indexed(timers')
        /\ Entries(timers') = Without(q, timer)
        /\ Len(timers'.heap) = n /\ \A k \in 1..n : timers'.heap[k] = q.heap[k]
    <3>1. q.heap[n + 1].timer = timer /\ Len(q.heap) = n + 1
      BY <1>2, <1>3, <1>6
    <3>2. Shortened(q, PopBack(q, timer), n, timer)
      BY <1>1, <3>1, PopKeeps
    <3> QED BY <2>1, <3>2 DEF Shortened
  <2>3. \A k \in 1..n : Times(timers')[k] = Times(q)[k]
    <3> SUFFICES ASSUME NEW k \in 1..n PROVE Times(timers')[k] = Times(q)[k]
      OBVIOUS
    <3>1. k \in 1..n + 1
      OBVIOUS
    <3> QED BY <1>3, <2>2, <3>1 DEF Times
  <2>4. Sorted(Times(timers'), n)
    BY <1>4, <2>3, Cut
  <2>5. Order(timers', sift')
    BY <2>1, <2>2, <2>4 DEF Order, AtRest
  <2> QED BY <2>2, <2>5 DEF QueueInv, q
<1>7. CASE i /= n + 1
  <2> DEFINE w == SwapHeap(q, i, n + 1)
             r == PopBack(w, timer)
  <2>1. timers' = r /\ sift' = [way |-> IF MustRise(r, i) THEN "up" ELSE "down", at |-> i]
    BY <1>5, <1>7
  <2>2. i \in 1..n /\ n + 1 \in 1..n + 1
    BY <1>2, <1>3, <1>7
  <2>3. /\ QueueTyped(w) /\ Indexed(w) /\ Entries(w) = Entries(q) /\ Len(w.heap) = n + 1
        /\ w.heap[n + 1] = q.heap[i]
        /\ \A k \in 1..n + 1 : k /= i /\ k /= n + 1 => w.heap[k] = q.heap[k]
    BY <1>1, <1>2, <1>3, <1>7, SwapKeeps
  <2> HIDE DEF w
  <2>4. /\ QueueTyped(r) /\ Indexed(r)
        /\ Entries(r) = Without(w, timer)
        /\ Len(r.heap) = n /\ \A k \in 1..n : r.heap[k] = w.heap[k]
    <3>1. w.heap[n + 1].timer = timer
      BY <1>2, <2>3
    <3>2. Shortened(w, r, n, timer)
      BY <2>3, <3>1, PopKeeps
    <3> QED BY <3>2 DEF Shortened
  <2> HIDE DEF r
  <2>5. \A k \in 1..n : k /= i => Times(r)[k] = Times(q)[k]
    <3> SUFFICES ASSUME NEW k \in 1..n, k /= i PROVE Times(r)[k] = Times(q)[k]
      OBVIOUS
    <3>1. k \in 1..n + 1 /\ k /= n + 1
      OBVIOUS
    <3> QED BY <1>3, <2>3, <2>4, <3>1 DEF Times
  <2>6. Times(r) \in [1..n -> Int] /\ \A k \in 1..n : Times(r)[k] = r.heap[k].time
    BY <2>4, TypedTimes
  <2>7. IF i > 1 /\ Times(r)[i] < Times(r)[i \div 2]
        THEN Climbing(Times(r), n, i) ELSE Sinking(Times(r), n, i)
    BY <1>4, <2>2, <2>5, <2>6, Replaced
  <2>8. MustRise(r, i) <=> (i > 1 /\ Times(r)[i] < Times(r)[i \div 2])
    <3>1. i > 1 => i \div 2 \in 1..n
      <4> SUFFICES ASSUME i > 1 PROVE i \div 2 \in 1..n
        OBVIOUS
      <4>1. i \in Nat /\ i >= 2 /\ i <= n
        BY <2>2
      <4>2. i \div 2 \in Nat /\ 1 <= i \div 2 /\ i \div 2 < i
        BY <4>1, Parents
      <4> QED BY <4>1, <4>2
    <3> QED BY <2>2, <2>6, <3>1 DEF MustRise
  <2>9. Order(r, sift')
    <3>1. sift' \in [way : {"none", "up", "down"}, at : Nat]
      BY <2>1, <2>2
    <3> QED BY <2>1, <2>4, <2>7, <2>8, <3>1 DEF Order
  <2>10. Without(w, timer) = Without(q, timer)
    BY <2>3 DEF Without
  <2> QED BY <2>1, <2>4, <2>9, <2>10 DEF QueueInv, q
<1> QED BY <1>6, <1>7

-----------------------------------------------------------------------------
(* The queue and the waits                                                 *)

HoldsWaits ==
  /\ job \in {"idle", "enqueue", "close"} => Entries(timers) = waits
  /\ job = "dequeue" => waits = {e \in Entries(timers) : e.time > now}
  /\ job = "cancel" =>
       /\ waits = Entries(timers) \cup {[timer |-> hellos, time |-> Expiry]}
       /\ \A e \in Entries(timers) : e.timer /= hellos

\* The timerfd goes off by the first of the entries, a new one excepted.
Alarmed ==
  /\ job \in {"idle", "cancel", "close"} => \A e \in Entries(timers) : alarm <= e.time
  /\ job = "enqueue" => \A e \in Entries(timers) : e.timer /= hellos => alarm <= e.time

HeapIInv ==
  /\ job \in {"idle", "dequeue", "cancel", "enqueue", "close"}
  /\ alarm \in Int
  /\ \A w \in waits : w.timer <= hellos
  /\ job = "idle" => sift = AtRest
  /\ QueueInv
  /\ HoldsWaits
  /\ Alarmed

LEMMA TimedSteps ==
  /\ TimedInit => Init
  /\ [TimedNext]_timerVars => [Next]_vars
<1>1. TimedInit => Init
  BY DEF TimedInit
<1>2. ASSUME Handling PROVE Next
  <2>1. CASE \E arrived \in Arrivals : TimedPoll(arrived)
    BY <2>1 DEF TimedPoll, Next
  <2>2. CASE \E i \in Intervals : TimedHello(i)
    BY <2>2 DEF TimedHello, Next
  <2>3. CASE TimedRearm
    BY <2>3 DEF TimedRearm, Next
  <2>4. CASE TimedClose
    BY <2>4 DEF TimedClose, Next
  <2>5. CASE Pass \/ Other \/ Beat \/ Aborted
    BY <2>5 DEF Next
  <2> QED BY <1>2, <2>1, <2>2, <2>3, <2>4, <2>5 DEF Handling
<1>3. UNCHANGED timerVars => UNCHANGED vars
  BY DEF timerVars
<1> QED BY <1>1, <1>2, <1>3 DEF TimedNext

LEMMA EntriesTyped ==
  ASSUME QueueInv
  PROVE  /\ Entries(timers) \subseteq Entry
         /\ \A e \in Entries(timers) : InHeap(e.timer)
         /\ \A e, f \in Entries(timers) : e.timer = f.timer => e = f
<1>1. /\ DOMAIN timers.heap = 1..Len(timers.heap)
      /\ \A i \in 1..Len(timers.heap) : timers.heap[i] \in Entry
  BY TypedTimes DEF QueueInv
<1>2. \A i \in DOMAIN timers.heap :
        /\ timers.heap[i].timer \in DOMAIN timers.index
        /\ timers.index[timers.heap[i].timer] = i
  BY DEF QueueInv, Indexed
<1>3. \A i \in DOMAIN timers.heap : i /= 0
  BY <1>1
<1>4. Entries(timers) \subseteq Entry
  BY <1>1 DEF Entries
<1>5. ASSUME NEW e \in Entries(timers) PROVE InHeap(e.timer)
  <2>1. PICK i \in DOMAIN timers.heap : e = timers.heap[i]
    BY DEF Entries
  <2> QED BY <1>2, <1>3, <2>1 DEF InHeap
<1>6. ASSUME NEW e \in Entries(timers), NEW f \in Entries(timers), e.timer = f.timer
      PROVE  e = f
  <2>1. PICK i \in DOMAIN timers.heap : e = timers.heap[i]
    BY DEF Entries
  <2>2. PICK j \in DOMAIN timers.heap : f = timers.heap[j]
    BY DEF Entries
  <2>3. i = j
    BY <1>2, <1>6, <2>1, <2>2
  <2> QED BY <2>1, <2>2, <2>3
<1> QED BY <1>4, <1>5, <1>6

\* When a loop has ended the root is the first to expire.
LEMMA RootLeast ==
  ASSUME QueueInv, Settled
  PROVE  /\ timers.heap = <<>> => Entries(timers) = {}
         /\ timers.heap /= <<>> =>
              /\ timers.heap[1] \in Entries(timers)
              /\ \A e \in Entries(timers) : timers.heap[1].time <= e.time
<1> DEFINE n == Len(timers.heap)
           h == Times(timers)
<1>1. /\ n \in Nat /\ DOMAIN timers.heap = 1..n /\ timers.heap \in Seq(Entry)
      /\ \A i \in 1..n : h[i] = timers.heap[i].time
      /\ h \in [1..n -> Int]
  BY TypedTimes DEF QueueInv, QueueTyped
<1>2. Sorted(h, n)
  BY SettledSorted
<1>3. timers.heap = <<>> => Entries(timers) = {}
  BY DEF Entries
<1>4. ASSUME timers.heap /= <<>> PROVE 1 \in 1..n
  BY <1>1, <1>4, EmptySeq
<1>5. \A i \in 1..n : h[1] <= h[i]
  <2> HIDE DEF n, h
  <2> QED BY <1>1, <1>2, RootFirst
<1>6. ASSUME timers.heap /= <<>>, NEW e \in Entries(timers) PROVE timers.heap[1].time <= e.time
  <2>1. PICK i \in 1..n : e = timers.heap[i]
    BY <1>1 DEF Entries
  <2>2. h[1] <= h[i] /\ h[1] = timers.heap[1].time /\ h[i] = timers.heap[i].time
    BY <1>1, <1>4, <1>5, <1>6
  <2> QED BY <2>1, <2>2
<1>7. timers.heap /= <<>> => timers.heap[1] \in Entries(timers)
  BY <1>1, <1>4 DEF Entries
<1> QED BY <1>3, <1>6, <1>7

LEMMA DoneStep ==
  ASSUME QueueInv, Settled, Done
  PROVE  QueueInv' /\ Entries(timers') = Entries(timers)
<1>1. Sorted(Times(timers), Len(timers.heap))
  BY SettledSorted
<1>2. timers' = timers /\ sift' = [way |-> "none", at |-> 0]
  BY DEF Done, AtRest
<1>3. Order(timers', sift')
  BY <1>1, <1>2 DEF Order
<1> QED BY <1>2, <1>3 DEF QueueInv

LEMMA HeapStarts == TimedInit => HeapIInv
<1> SUFFICES ASSUME TimedInit PROVE HeapIInv
  OBVIOUS
<1>1. /\ timers = EmptyQueue /\ sift = AtRest /\ job = "idle" /\ alarm = Never /\ waits = {}
  BY DEF TimedInit, Init, QueueInit
<1>2. timers.heap = <<>> /\ timers.index = <<>> /\ Len(timers.heap) = 0
  BY <1>1 DEF EmptyQueue
<1>3. QueueTyped(timers) /\ Indexed(timers) /\ Entries(timers) = {}
  BY <1>2 DEF QueueTyped, Indexed, Entries
<1>4. Order(timers, sift)
  BY <1>1, <1>2 DEF Order, AtRest, Sorted
<1>5. alarm \in Int
  BY <1>1, TimeAssumption DEF Never
<1> QED BY <1>1, <1>3, <1>4, <1>5 DEF HeapIInv, QueueInv, HoldsWaits, Alarmed

-----------------------------------------------------------------------------
(* The steps of the heartbeat                                              *)

\* What a step needs of the types.
LEMMA TimedTypes ==
  ASSUME TypeOK
  PROVE  /\ now \in Nat /\ hellos \in Nat /\ interval \in Nat
         /\ Expiry \in Int
         /\ \A w \in waits : w.timer \in Nat /\ w.time \in Int
BY TimeAssumption DEF TypeOK, Expiry

LEMMA TimedPollStep ==
  ASSUME TypeOK, HeapIInv, job = "idle", NEW arrived, TimedPoll(arrived)
  PROVE  HeapIInv'
<1>1. /\ waits' = {w \in waits : ~(w.time <= now)} /\ now' = now /\ hellos' = hellos
      /\ job' = IF alarm <= now THEN "dequeue" ELSE "idle"
      /\ timers' = timers /\ sift' = sift /\ alarm' = alarm
  BY DEF TimedPoll, Poll, Due, queueVars
<1>2. /\ Entries(timers) = waits /\ sift = AtRest /\ QueueInv /\ alarm \in Int
      /\ \A e \in waits : alarm <= e.time
      /\ \A w \in waits : w.timer <= hellos
  BY DEF HeapIInv, HoldsWaits, Alarmed
<1>3. now \in Nat /\ \A w \in waits : w.time \in Int
  BY TimedTypes
<1>4. QueueInv'
  BY <1>1, <1>2 DEF QueueInv
<1>5. Entries(timers)' = waits
  BY <1>1, <1>2
<1>6. CASE alarm <= now
  <2>1. waits' = {e \in waits : e.time > now}
    BY <1>1, <1>3
  <2> QED BY <1>1, <1>2, <1>4, <1>5, <1>6, <2>1 DEF HeapIInv, HoldsWaits, Alarmed
<1>7. CASE ~(alarm <= now)
  <2>1. \A w \in waits : ~(w.time <= now)
    BY <1>2, <1>3, <1>7
  <2>2. waits' = waits
    BY <1>1, <2>1
  <2> QED BY <1>1, <1>2, <1>4, <1>5, <1>7, <2>2 DEF HeapIInv, HoldsWaits, Alarmed
<1> QED BY <1>6, <1>7

LEMMA EnqueueHere ==
  ASSUME QueueInv, Settled, NEW timer \in Nat, NEW time \in Int,
         \A e \in Entries(timers) : e.timer /= timer,
         EnqueueTimer(timer, time),
         hellos' = timer, job' = "enqueue", UNCHANGED alarm,
         alarm \in Int, \A w \in waits' : w.timer <= timer,
         waits' = Entries(timers) \cup {[timer |-> timer, time |-> time]},
         \A e \in Entries(timers) : alarm <= e.time
  PROVE  HeapIInv'
<1>1. QueueInv' /\ Entries(timers') = Entries(timers) \cup {[timer |-> timer, time |-> time]}
  BY EnqueueStep
<1> DEFINE new == [timer |-> timer, time |-> time]
<1>2. new.timer = timer
  OBVIOUS
<1>3. ASSUME NEW e \in Entries(timers'), e.timer /= timer PROVE alarm <= e.time
  BY <1>1, <1>2, <1>3
<1>4. HoldsWaits'
  BY <1>1 DEF HoldsWaits
<1>5. Alarmed'
  BY <1>3 DEF Alarmed
<1> QED BY <1>1, <1>4, <1>5 DEF HeapIInv

LEMMA IdleSettled ==
  ASSUME sift = AtRest PROVE Settled
BY DEF Settled, AtRest

LEMMA TimedHelloStep ==
  ASSUME TypeOK, HeapIInv, job = "idle", NEW i \in Intervals, TimedHello(i)
  PROVE  HeapIInv'
<1>1. /\ Entries(timers) = waits /\ sift = AtRest /\ QueueInv /\ alarm \in Int
      /\ \A e \in waits : alarm <= e.time
      /\ \A w \in waits : w.timer <= hellos
  BY DEF HeapIInv, HoldsWaits, Alarmed
<1>2. PICK timer : timer = hellos + 1
  OBVIOUS
<1>3. PICK time : time = now + i - Slack
  OBVIOUS
<1>4. /\ hellos' = timer /\ waits' = waits \cup {[timer |-> timer, time |-> time]}
      /\ now' = now /\ interval' = i
  BY <1>2, <1>3 DEF TimedHello, Hello
<1>5. EnqueueTimer(timer, time) /\ job' = "enqueue" /\ UNCHANGED alarm
  BY <1>3, <1>4 DEF TimedHello, EnqueueTimer, Expiry
<1>6. /\ timer \in Nat /\ time \in Int /\ timer > hellos
      /\ \A w \in waits : w.timer \in Nat /\ hellos \in Nat
  BY <1>2, <1>3, TimedTypes, TimeAssumption
<1>7. \A e \in waits : e.timer /= timer /\ e.timer <= timer
  BY <1>1, <1>6
<1>8. \A w \in waits' : w.timer <= timer
  BY <1>4, <1>6, <1>7
<1>9. Settled
  BY <1>1, IdleSettled
<1> QED BY <1>1, <1>4, <1>5, <1>6, <1>7, <1>8, <1>9, EnqueueHere

LEMMA CurrentEntries ==
  ASSUME QueueInv, Entries(timers) = waits
  PROVE  /\ waits \ Cancelled = {e \in waits : e.timer /= hellos}
         /\ ~InHeap(hellos) => \A e \in waits : e.timer /= hellos
BY EntriesTyped DEF Cancelled

LEMMA TimedRearmStep ==
  ASSUME TypeOK, HeapIInv, job = "idle", TimedRearm
  PROVE  HeapIInv'
<1>1. /\ Entries(timers) = waits /\ sift = AtRest /\ QueueInv /\ alarm \in Int
      /\ \A e \in waits : alarm <= e.time
      /\ \A w \in waits : w.timer <= hellos
  BY DEF HeapIInv, HoldsWaits, Alarmed
<1>2. /\ hellos' = hellos /\ now' = now /\ interval' = interval /\ alarm' = alarm
      /\ waits' = (waits \ Cancelled) \cup {[timer |-> hellos, time |-> Expiry]}
  BY DEF TimedRearm, Rearm, Expiry
<1>3. /\ waits \ Cancelled = {e \in waits : e.timer /= hellos}
      /\ ~InHeap(hellos) => \A e \in waits : e.timer /= hellos
  BY <1>1, CurrentEntries
<1>4. hellos \in Nat /\ Expiry \in Int
  BY TimedTypes
<1>5. Expiry' = Expiry
  BY <1>2 DEF Expiry
<1>6. Settled
  BY <1>1, IdleSettled
<1>7. \A w \in waits' : w.timer <= hellos
  BY <1>1, <1>2, <1>3, <1>4
<1>8. CASE InHeap(hellos)
  <2>1. RemoveTimer(hellos) /\ job' = "cancel"
    BY <1>8 DEF TimedRearm
  <2>2. QueueInv' /\ Entries(timers') = {e \in waits : e.timer /= hellos}
    BY <1>1, <1>6, <1>8, <2>1, RemoveStep DEF Without
  <2>3. HoldsWaits'
    BY <1>2, <1>3, <1>5, <2>1, <2>2 DEF HoldsWaits
  <2>4. Alarmed'
    BY <1>1, <1>2, <2>1, <2>2 DEF Alarmed
  <2> QED BY <1>1, <1>2, <1>7, <2>1, <2>2, <2>3, <2>4 DEF HeapIInv
<1>9. CASE ~InHeap(hellos)
  <2>1. EnqueueTimer(hellos, Expiry) /\ job' = "enqueue" /\ UNCHANGED alarm
    BY <1>9 DEF TimedRearm
  <2>2. \A e \in waits : e.timer /= hellos
    BY <1>3, <1>9
  <2>3. waits' = waits \cup {[timer |-> hellos, time |-> Expiry]}
    BY <1>2, <1>3, <2>2
  <2>4. PICK timer : timer = hellos
    OBVIOUS
  <2>5. PICK time : time = Expiry
    OBVIOUS
  <2>6. EnqueueTimer(timer, time)
    BY <2>1, <2>4, <2>5
  <2> QED BY <1>1, <1>2, <1>4, <1>6, <1>7, <2>1, <2>2, <2>3, <2>4, <2>5, <2>6, EnqueueHere
<1> QED BY <1>8, <1>9

LEMMA TimedCloseStep ==
  ASSUME TypeOK, HeapIInv, job = "idle", TimedClose
  PROVE  HeapIInv'
<1>1. /\ Entries(timers) = waits /\ sift = AtRest /\ QueueInv /\ alarm \in Int
      /\ \A e \in waits : alarm <= e.time
      /\ \A w \in waits : w.timer <= hellos
  BY DEF HeapIInv, HoldsWaits, Alarmed
<1>2. hellos' = hellos /\ alarm' = alarm /\ waits' = waits \ Cancelled
  BY DEF TimedClose, Close
<1>3. /\ waits' = {e \in waits : e.timer /= hellos}
      /\ ~InHeap(hellos) => \A e \in waits : e.timer /= hellos
  BY <1>1, <1>2, CurrentEntries
<1>4. Settled
  BY <1>1, IdleSettled
<1>5. CASE InHeap(hellos)
  <2>1. RemoveTimer(hellos) /\ job' = "close"
    BY <1>5 DEF TimedClose
  <2>2. QueueInv' /\ Entries(timers') = {e \in waits : e.timer /= hellos}
    BY <1>1, <1>4, <1>5, <2>1, RemoveStep DEF Without
  <2>3. HoldsWaits'
    BY <1>3, <2>1, <2>2 DEF HoldsWaits
  <2>4. Alarmed'
    BY <1>1, <1>2, <2>1, <2>2 DEF Alarmed
  <2> QED BY <1>1, <1>2, <1>3, <2>1, <2>2, <2>3, <2>4 DEF HeapIInv
<1>6. CASE ~InHeap(hellos)
  <2>1. timers' = timers /\ sift' = sift /\ job' = job
    BY <1>6 DEF TimedClose, queueVars
  <2>2. waits' = waits
    BY <1>3, <1>6
  <2>3. QueueInv'
    BY <1>1, <2>1 DEF QueueInv
  <2> QED BY <1>1, <1>2, <2>1, <2>2, <2>3 DEF HeapIInv, HoldsWaits, Alarmed
<1> QED BY <1>5, <1>6

LEMMA TimedIdleStep ==
  ASSUME HeapIInv, job = "idle", Pass \/ Other \/ Beat \/ Aborted, UNCHANGED <<queueVars, job, alarm>>
  PROVE  HeapIInv'
<1>1. waits' = waits /\ hellos' = hellos
  BY DEF Pass, Other, Beat, Aborted
<1>2. timers' = timers /\ sift' = sift /\ job' = job /\ alarm' = alarm
  BY DEF queueVars
<1>3. QueueInv'
  BY <1>2 DEF HeapIInv, QueueInv
<1> QED BY <1>1, <1>2, <1>3 DEF HeapIInv, HoldsWaits, Alarmed

-----------------------------------------------------------------------------
(* The steps of the timer queue                                            *)

LEMMA TimedSiftStep ==
  ASSUME HeapIInv, job /= "idle", Rise \/ Sink, UNCHANGED <<job, alarm>>, UNCHANGED vars
  PROVE  HeapIInv'
<1>1. QueueInv' /\ Entries(timers') = Entries(timers)
  BY SiftStep DEF HeapIInv
<1>2. waits' = waits /\ hellos' = hellos /\ now' = now /\ interval' = interval
      /\ job' = job /\ alarm' = alarm
  BY DEF vars
<1>3. Expiry' = Expiry
  BY <1>2 DEF Expiry
<1>4. HoldsWaits'
  BY <1>1, <1>2, <1>3 DEF HeapIInv, HoldsWaits
<1>5. Alarmed'
  BY <1>1, <1>2 DEF HeapIInv, Alarmed
<1> QED BY <1>1, <1>2, <1>4, <1>5 DEF HeapIInv

LEMMA DequeueStep ==
  ASSUME TypeOK, HeapIInv, Settled, Dequeue, UNCHANGED vars
  PROVE  HeapIInv'
<1>1. /\ job = "dequeue" /\ QueueInv /\ alarm \in Int
      /\ waits = {e \in Entries(timers) : e.time > now}
      /\ \A w \in waits : w.timer <= hellos
  BY DEF HeapIInv, HoldsWaits, Dequeue
<1>2. waits' = waits /\ hellos' = hellos /\ now' = now
  BY DEF vars
<1>3. now \in Nat /\ \A e \in Entries(timers) : e.time \in Int
  BY <1>1, TimedTypes, EntriesTyped DEF Entry
<1>4. /\ timers.heap = <<>> => Entries(timers) = {}
      /\ timers.heap /= <<>> =>
           /\ timers.heap[1] \in Entries(timers)
           /\ \A e \in Entries(timers) : timers.heap[1].time <= e.time
  BY <1>1, RootLeast
<1> DEFINE root == timers.heap[1]
<1>5. CASE timers.heap /= <<>> /\ root.time <= now
  <2>1. RemoveTimer(root.timer) /\ job' = job /\ alarm' = alarm
    BY <1>5 DEF Dequeue
  <2>2. root \in Entries(timers) /\ InHeap(root.timer)
        /\ \A e \in Entries(timers) : e.timer = root.timer => e = root
    BY <1>1, <1>4, <1>5, EntriesTyped
  <2>3. QueueInv' /\ Entries(timers') = {e \in Entries(timers) : e.timer /= root.timer}
    BY <1>1, <2>1, <2>2, RemoveStep DEF Without
  <2>4. ASSUME NEW e \in Entries(timers), e.time > now PROVE e.timer /= root.timer
    BY <1>3, <1>5, <2>2, <2>4
  <2>5. waits' = {e \in Entries(timers') : e.time > now'}
    BY <1>1, <1>2, <2>3, <2>4
  <2> QED BY <1>1, <1>2, <2>1, <2>3, <2>5 DEF HeapIInv, HoldsWaits, Alarmed
<1>6. CASE ~(timers.heap /= <<>> /\ root.time <= now)
  <2>1. Done /\ alarm' = Earliest(timers)
    BY <1>6 DEF Dequeue
  <2>2. QueueInv' /\ Entries(timers') = Entries(timers)
    BY <1>1, <2>1, DoneStep
  <2>3. /\ alarm' \in Int
        /\ \A e \in Entries(timers) : alarm' <= e.time /\ e.time > now
    <3>1. CASE timers.heap = <<>>
      BY <1>4, <2>1, <3>1, TimeAssumption DEF Earliest, Never
    <3>2. CASE timers.heap /= <<>>
      <4>1. alarm' = root.time /\ ~(root.time <= now) /\ root.time \in Int
        BY <1>3, <1>4, <1>6, <2>1, <3>2 DEF Earliest
      <4>2. \A e \in Entries(timers) : root.time <= e.time
        BY <1>4, <3>2
      <4> HIDE DEF root
      <4> QED BY <1>3, <4>1, <4>2
    <3> QED BY <3>1, <3>2
  <2>4. Entries(timers') = waits'
    BY <1>1, <1>2, <2>2, <2>3
  <2>5. job' = "idle" /\ sift' = AtRest
    BY <2>1 DEF Done
  <2> QED BY <1>1, <1>2, <2>2, <2>3, <2>4, <2>5 DEF HeapIInv, HoldsWaits, Alarmed
<1> QED BY <1>5, <1>6

LEMMA RescheduleStep ==
  ASSUME TypeOK, HeapIInv, Settled, Reschedule, UNCHANGED vars
  PROVE  HeapIInv'
<1>1. /\ job = "cancel" /\ job' = "enqueue" /\ EnqueueTimer(hellos, Expiry) /\ UNCHANGED alarm
      /\ waits' = waits /\ hellos' = hellos
  BY DEF Reschedule, vars
<1>2. /\ QueueInv /\ alarm \in Int /\ \A w \in waits : w.timer <= hellos
      /\ waits = Entries(timers) \cup {[timer |-> hellos, time |-> Expiry]}
      /\ \A e \in Entries(timers) : e.timer /= hellos
      /\ \A e \in Entries(timers) : alarm <= e.time
  BY <1>1 DEF HeapIInv, HoldsWaits, Alarmed
<1>3. PICK timer : timer = hellos
  OBVIOUS
<1>4. PICK time : time = Expiry
  OBVIOUS
<1>5. timer \in Nat /\ time \in Int /\ EnqueueTimer(timer, time)
  BY <1>1, <1>3, <1>4, TimedTypes
<1> QED BY <1>1, <1>2, <1>3, <1>4, <1>5, EnqueueHere

LEMMA EnqueuedStep ==
  ASSUME HeapIInv, Settled, Enqueued, UNCHANGED vars
  PROVE  HeapIInv'
<1>1. /\ job = "enqueue" /\ Done /\ job' = "idle" /\ sift' = AtRest
      /\ alarm' = IF timers.index[hellos] = 1 THEN Earliest(timers) ELSE alarm
      /\ waits' = waits /\ hellos' = hellos
  BY DEF Enqueued, Done, vars
<1>2. /\ QueueInv /\ alarm \in Int /\ \A w \in waits : w.timer <= hellos
      /\ Entries(timers) = waits
      /\ \A e \in Entries(timers) : e.timer /= hellos => alarm <= e.time
  BY <1>1 DEF HeapIInv, HoldsWaits, Alarmed
<1>3. QueueInv' /\ Entries(timers') = Entries(timers)
  BY <1>1, <1>2, DoneStep
<1>4. alarm' \in Int /\ \A e \in Entries(timers) : alarm' <= e.time
  <2>1. CASE timers.heap = <<>>
    <3>1. Entries(timers) = {}
      BY <1>2, <2>1, RootLeast
    <3> QED BY <1>1, <1>2, <2>1, <3>1, TimeAssumption DEF Earliest, Never
  <2>2. CASE timers.heap /= <<>>
    <3> DEFINE root == timers.heap[1]
    <3>1. root \in Entries(timers) /\ \A e \in Entries(timers) : root.time <= e.time
      BY <1>2, <2>2, RootLeast
    <3>2. \A e \in Entries(timers) : e.time \in Int
      BY <1>2, EntriesTyped DEF Entry
    <3>3. CASE timers.index[hellos] = 1
      <4>1. alarm' = root.time
        BY <1>1, <2>2, <3>3 DEF Earliest
      <4> QED BY <3>1, <3>2, <4>1
    <3>4. CASE timers.index[hellos] /= 1
      <4>1. root.timer /= hellos
        <5>1. 1 \in DOMAIN timers.heap
          <6>1. timers.heap \in Seq(Entry)
            BY <1>2 DEF QueueInv, QueueTyped
          <6> QED BY <2>2, <6>1, EmptySeq, LenProperties
        <5>2. timers.index[root.timer] = 1
          BY <1>2, <5>1 DEF QueueInv, Indexed
        <5> QED BY <3>4, <5>2
      <4>2. alarm' = alarm /\ alarm <= root.time
        BY <1>1, <1>2, <3>1, <3>4, <4>1
      <4>3. alarm \in Int /\ root.time \in Int
        BY <1>2, <3>1, <3>2
      <4> HIDE DEF root
      <4> QED BY <3>1, <3>2, <4>2, <4>3
    <3> QED BY <3>3, <3>4
  <2> QED BY <2>1, <2>2
<1> QED BY <1>1, <1>2, <1>3, <1>4 DEF HeapIInv, HoldsWaits, Alarmed

LEMMA UnscheduledStep ==
  ASSUME HeapIInv, Settled, Unscheduled, UNCHANGED vars
  PROVE  HeapIInv'
<1>1. /\ job = "close" /\ Done /\ job' = "idle" /\ sift' = AtRest /\ alarm' = alarm
      /\ waits' = waits /\ hellos' = hellos
  BY DEF Unscheduled, Done, vars
<1>2. /\ QueueInv /\ alarm \in Int /\ \A w \in waits : w.timer <= hellos
      /\ Entries(timers) = waits
      /\ \A e \in Entries(timers) : alarm <= e.time
  BY <1>1 DEF HeapIInv, HoldsWaits, Alarmed
<1>3. QueueInv' /\ Entries(timers') = Entries(timers)
  BY <1>1, <1>2, DoneStep
<1> QED BY <1>1, <1>2, <1>3 DEF HeapIInv, HoldsWaits, Alarmed

LEMMA HeapInductive == TypeOK /\ HeapIInv /\ [TimedNext]_timerVars => HeapIInv'
<1> SUFFICES ASSUME TypeOK, HeapIInv, [TimedNext]_timerVars PROVE HeapIInv'
  OBVIOUS
<1>1. CASE job = "idle" /\ Handling
  <2>1. CASE \E arrived \in Arrivals : TimedPoll(arrived)
    BY <1>1, <2>1, TimedPollStep
  <2>2. CASE \E i \in Intervals : TimedHello(i)
    BY <1>1, <2>2, TimedHelloStep
  <2>3. CASE TimedRearm
    BY <1>1, <2>3, TimedRearmStep
  <2>4. CASE TimedClose
    BY <1>1, <2>4, TimedCloseStep
  <2>5. CASE (Pass \/ Other \/ Beat \/ Aborted) /\ UNCHANGED <<queueVars, job, alarm>>
    BY <1>1, <2>5, TimedIdleStep
  <2> QED BY <1>1, <2>1, <2>2, <2>3, <2>4, <2>5 DEF Handling
<1>2. CASE job /= "idle" /\ Working /\ UNCHANGED vars
  <2>1. CASE (Rise \/ Sink) /\ UNCHANGED <<job, alarm>>
    BY <1>2, <2>1, TimedSiftStep
  <2>2. CASE Settled /\ Dequeue
    BY <1>2, <2>2, DequeueStep
  <2>3. CASE Settled /\ Reschedule
    BY <1>2, <2>3, RescheduleStep
  <2>4. CASE Settled /\ Enqueued
    BY <1>2, <2>4, EnqueuedStep
  <2>5. CASE Settled /\ Unscheduled
    BY <1>2, <2>5, UnscheduledStep
  <2> QED BY <1>2, <2>1, <2>2, <2>3, <2>4, <2>5 DEF Working
<1>3. CASE UNCHANGED timerVars
  <2>1. /\ waits' = waits /\ hellos' = hellos /\ now' = now /\ interval' = interval
        /\ timers' = timers /\ sift' = sift /\ job' = job /\ alarm' = alarm
    BY <1>3 DEF timerVars, queueVars, vars
  <2>2. QueueInv' /\ Expiry' = Expiry
    BY <2>1 DEF HeapIInv, QueueInv, Expiry
  <2> QED BY <2>1, <2>2 DEF HeapIInv, HoldsWaits, Alarmed
<1> QED BY <1>1, <1>2, <1>3 DEF TimedNext

\* No wait is missing from the heap, and none is in it twice.
LEMMA HeapHolds == HeapIInv => HeapHoldsWaits
<1> SUFFICES ASSUME HeapIInv, job = "idle"
    PROVE  /\ Entries(timers) = waits
           /\ Len(timers.heap) = Cardinality(waits)
           /\ \A i \in DOMAIN timers.heap : timers.index[timers.heap[i].timer] = i
           /\ \A i \in 2..Len(timers.heap) : timers.heap[i \div 2].time <= timers.heap[i].time
           /\ timers.heap /= <<>> => alarm <= timers.heap[1].time
  BY DEF HeapHoldsWaits
<1>1. /\ QueueInv /\ sift = AtRest /\ Entries(timers) = waits
      /\ \A e \in Entries(timers) : alarm <= e.time
  BY DEF HeapIInv, HoldsWaits, Alarmed
<1>2. Settled
  BY <1>1, IdleSettled
<1> DEFINE n == Len(timers.heap)
<1>3. /\ n \in Nat /\ DOMAIN timers.heap = 1..n
      /\ \A i \in 1..n : Times(timers)[i] = timers.heap[i].time
  BY <1>1, TypedTimes DEF QueueInv
<1>4. \A i \in 1..n : timers.index[timers.heap[i].timer] = i
  BY <1>1, <1>3 DEF QueueInv, Indexed
<1>5. Len(timers.heap) = Cardinality(waits)
  <2> DEFINE f == [i \in 1..n |-> timers.heap[i]]
  <2>1. f \in Bijection(1..n, waits)
    <3>1. \A i \in 1..n : f[i] \in waits
      BY <1>1, <1>3 DEF Entries
    <3>2. \A i, j \in 1..n : f[i] = f[j] => i = j
      BY <1>4
    <3>3. \A w \in waits : \E i \in 1..n : f[i] = w
      BY <1>1, <1>3 DEF Entries
    <3>4. f \in [1..n -> waits]
      BY <3>1
    <3> HIDE DEF f
    <3> QED BY <3>2, <3>3, <3>4, Fun_IsBij
  <2> HIDE DEF f, n
  <2>2. Cardinality(waits) = n
    <3>1. IsFiniteSet(1..n) /\ Cardinality(1..n) = n
      BY <1>3, FS_Interval
    <3>2. ExistsBijection(1..n, waits)
      BY <2>1 DEF ExistsBijection
    <3> QED BY <3>1, <3>2, FS_Bijection
  <2> QED BY <2>2 DEF n
<1>6. ASSUME NEW i \in 2..n PROVE timers.heap[i \div 2].time <= timers.heap[i].time
  <2>1. Sorted(Times(timers), n)
    BY <1>1, <1>2, SettledSorted
  <2>2. Times(timers)[i \div 2] <= Times(timers)[i]
    BY <2>1 DEF Sorted
  <2>3. i \in 1..n /\ i \div 2 \in 1..n
    <3> HIDE DEF n
    <3> QED BY <1>3, Parents
  <2> QED BY <1>3, <2>2, <2>3
<1>7. timers.heap /= <<>> => alarm <= timers.heap[1].time
  BY <1>1, <1>2, RootLeast
<1> QED BY <1>1, <1>3, <1>4, <1>5, <1>6, <1>7

(* A heartbeat on asio's timers does what Heartbeat says: the work in the  *)
(* timer queue is no step of its own, so that the theorems about Heartbeat *)
(* are theorems about it (discord.cpp 86-118, timer_queue.hpp).            *)
THEOREM TimersRefine == TimedSpec => Spec
<1>1. TimedInit => Init
  BY TimedSteps
<1>2. [TimedNext]_timerVars => [Next]_vars
  BY TimedSteps
<1> QED BY <1>1, <1>2, PTL DEF TimedSpec, Spec

(* Whenever the io thread is not inside the timer queue, the heap holds    *)
(* the pending waits and no other, every timer knows its place in it, no   *)
(* entry is earlier than its parent, and the timerfd goes off no later     *)
(* than the root expires: for any number of timers, intervals and times    *)
(* (timer_queue.hpp 66-112, 145-193, 218-294).                             *)
THEOREM HeapCorrect == TimedSpec => []HeapHoldsWaits
<1>1. TimedInit => HeapIInv
  BY HeapStarts
<1>2. TypeOK /\ HeapIInv /\ [TimedNext]_timerVars => HeapIInv'
  BY HeapInductive
<1>3. HeapIInv => HeapHoldsWaits
  BY HeapHolds
<1>4. TimedSpec => []TypeOK
  BY TimersRefine, TypeCorrect, PTL
<1> QED BY <1>1, <1>2, <1>3, <1>4, PTL DEF TimedSpec
=============================================================================
