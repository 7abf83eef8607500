------------------------------ MODULE MyClient ------------------------------
(***************************************************************************)
(* main.cpp apart from the session: the console's sendmsg, delaymsg,       *)
(* guilds and quit, the guild list, the greetings of OnGuildCreate, the    *)
(* tasks in the thread pool, and the destruction of it all when main       *)
(* returns.  Session and connection are in GatewaySession and EventLoop.   *)
(*                                                                         *)
(* Io is the main thread: it handles events while Run is running, joins    *)
(* the console thread, and leaves main.  Console runs ConsoleTest::run.    *)
(* Both post to the pool.  An event is a document of the gateway and is    *)
(* loaded as Serializers says.                                             *)
(*                                                                         *)
(* Undefined behaviour that the build may survive or not (a guild list     *)
(* that has moved, a ConsoleTest that is gone) either goes on or ends the  *)
(* process: fate is then "undefined".                                      *)
(***************************************************************************)
EXTENDS TaskPool, Serializers

CONSTANTS Io, Console,  \* the two threads that post
          Events,       \* the events the gateway may send: [name, doc]
          MaxEvents,    \* bound: events in a run
          MaxCommands   \* bound: sendmsg, delaymsg and guilds commands

\* The events that Client looks for and MyClient is told of.
Handled == {"READY", "GUILD_CREATE", "MESSAGE_CREATE", "TYPING_START",
            "MESSAGE_REACTION_ADD", "MESSAGE_REACTION_REMOVE"}

ASSUME ClientAssumption ==
  /\ Posters = {Io, Console} /\ Io /= Console
  /\ \A event \in Events : event.name \in Handled
  /\ \A event \in Events, m \in {"guilds", "channels"} :
       Has(event.doc, m, "array") => Array(event.doc, m)
  /\ MaxEvents \in Nat /\ MaxCommands \in Nat

VARIABLES
  fate,     \* how the process ended, if it did
  main,     \* where the main thread is
  console,  \* what the console thread is doing
  events,   \* history: events handled
  loaded,   \* the event that is handled: its class, document and struct
  todo,     \* what its handler has still to do
  greeted,  \* history: the channels that it has greeted
  guilds,   \* the guild list: names
  room,     \* capacity of its vector
  moved,    \* how often it has moved
  found,    \* the size the guilds command has printed
  listing,  \* its iterator, and the vector it points into
  shown,    \* the names it has printed
  commands, \* history: commands typed before quit
  kind,     \* history: kind[k] is what task k does
  stage     \* stage[t]: how far t is in its task

ioVars == <<main, events, loaded, todo, greeted, guilds, room, moved>>
consoleVars == <<console, found, listing, shown, commands>>
taskVars == <<kind, stage>>

vars == <<poolVars, fate, ioVars, consoleVars, taskVars>>

\* In "typing" and "sending" a thread waits for the answer to a request.
Stage == {"begin", "typing", "typed", "sending", "sent"}

NoEvent == [class |-> "none", doc |-> NoDocument, struct |-> NoDocument]

TypeOK ==
  /\ PoolTypeOK
  /\ fate \in {"alive", "undefined", "terminated", "exited"}
  /\ main \in {"run", "join", "leave"}
  /\ console \in {"prompt", "count", "print", "ended"}
  /\ events \in 0..MaxEvents
  /\ DOMAIN loaded = DOMAIN NoEvent
  /\ \A i \in DOMAIN todo : todo[i][1] \in {"push", "channel"}
  /\ greeted /= {} => loaded.class = "GUILD_CREATE"
  /\ Len(guilds) <= room
  /\ moved \in Nat /\ found \in Nat
  /\ listing.at \in 1..listing.end /\ listing.end <= room + 1 /\ listing.of <= moved
  /\ Len(shown) <= listing.end
  /\ commands \in 0..MaxCommands
  /\ kind \in Seq({"send", "delay", "greet"}) /\ Len(kind) = posted
  /\ stage \in [Threads -> Stage]

Init ==
  /\ PoolInit
  /\ fate = "alive"
  /\ main = "run"
  /\ console = "prompt"
  /\ events = 0
  /\ loaded = NoEvent
  /\ todo = <<>>
  /\ greeted = {}
  /\ guilds = <<>>
  /\ room = 0
  /\ moved = 0
  /\ found = 0
  /\ listing = [at |-> 1, end |-> 1, of |-> 0]
  /\ shown = <<>>
  /\ commands = 0
  /\ kind = <<>>
  /\ stage = [t \in Threads |-> "begin"]

Alive == fate = "alive"

\* asio::post of a task; p goes on when it has signalled.
Post(p, what) ==
  /\ PostTask(p)
  /\ kind' = Append(kind, what)
  /\ UNCHANGED stage

-----------------------------------------------------------------------------
(* The websocket's events, on Io                                           *)

\* What ProcessGuildCreate and the others load from the document.
Load(event) ==
  CASE event.name = "READY" -> ReadyPacket(event.doc)
    [] event.name = "GUILD_CREATE" -> Guild(event.doc)
    [] event.name = "MESSAGE_CREATE" -> Message(event.doc)
    [] event.name = "TYPING_START" -> TypingStartPacket(event.doc)
    [] event.name \in {"MESSAGE_REACTION_ADD", "MESSAGE_REACTION_REMOVE"} ->
         MessageReactionPacket(event.doc)

\* A role that is no string fails an assertion while it is loaded.
LoadAborts(event) ==
  CASE event.name = "READY" ->
         Has(event.doc, "guilds", "array")
           /\ \E i \in DOMAIN event.doc.guilds.val : GuildAborts(Members(event.doc.guilds.val[i]))
    [] event.name = "GUILD_CREATE" -> GuildAborts(event.doc)
    [] event.name = "TYPING_START" ->
         Has(event.doc, "member", "object") /\ RolesAbort(event.doc.member.val)
    [] OTHER -> FALSE

\* The handlers' loops: guilds to append, then channels by their place.
ToDo(name, struct) ==
  CASE name = "READY" -> [i \in DOMAIN struct.guilds |-> <<"push", struct.guilds[i].name>>]
    [] name = "GUILD_CREATE" ->
         <<<<"push", struct.name>>>> \o [i \in DOMAIN struct.channels |-> <<"channel", i>>]
    [] OTHER -> <<>>

Receive(event) ==
  /\ Alive
  /\ main = "run"
  /\ loaded = NoEvent
  /\ events < MaxEvents
  /\ events' = events + 1
  /\ IF LoadAborts(event)
     THEN /\ fate' = "terminated"
          /\ UNCHANGED <<loaded, todo>>
     ELSE /\ loaded' = [class |-> event.name, doc |-> event.doc, struct |-> Load(event)]
          /\ todo' = ToDo(event.name, loaded'.struct)
          /\ UNCHANGED fate
  /\ UNCHANGED <<poolVars, main, greeted, guilds, room, moved, consoleVars, taskVars>>

\* guilds.push_back: a full vector moves to one of twice its size.
PushGuild ==
  /\ Alive
  /\ todo /= <<>> /\ todo[1][1] = "push"
  /\ guilds' = Append(guilds, todo[1][2])
  /\ IF Len(guilds) = room
     THEN /\ room' = IF room = 0 THEN 1 ELSE 2 * room
          /\ moved' = moved + 1
     ELSE UNCHANGED <<room, moved>>
  /\ todo' = Tail(todo)
  /\ UNCHANGED <<poolVars, fate, main, events, loaded, greeted, consoleVars, taskVars>>

AtChannel == todo /= <<>> /\ todo[1][1] = "channel"

Chan == loaded.struct.channels[todo[1][2]]

\* Mutant: a channel of any type is greeted.
GreetAny ==
  /\ Alive
  /\ AtChannel
  /\ Post(Io, "greet")
  /\ greeted' = greeted \cup {Chan.id}
  /\ todo' = Tail(todo)
  /\ UNCHANGED <<fate, main, events, loaded, guilds, room, moved, consoleVars>>

\* A text channel: a greeting is posted to the pool.  A type that is unset
\* may be taken for one.
Greet ==
  /\ Alive
  /\ AtChannel /\ Chan.type \in {0, Garbage}
  /\ Post(Io, "greet")
  /\ greeted' = greeted \cup {Chan.id}
  /\ todo' = Tail(todo)
  /\ UNCHANGED <<fate, main, events, loaded, guilds, room, moved, consoleVars>>

\* Any other channel.
PassChannel ==
  /\ Alive
  /\ AtChannel /\ Chan.type /= 0
  /\ pc[Io] = "idle"
  /\ todo' = Tail(todo)
  /\ UNCHANGED <<poolVars, fate, main, events, loaded, greeted, guilds, room, moved,
                 consoleVars, taskVars>>

\* The handler returns, and its struct is destroyed.
EndHandler ==
  /\ Alive
  /\ loaded /= NoEvent /\ todo = <<>> /\ pc[Io] = "idle"
  /\ loaded' = NoEvent
  /\ greeted' = {}
  /\ UNCHANGED <<poolVars, fate, main, events, todo, guilds, room, moved, consoleVars, taskVars>>

-----------------------------------------------------------------------------
(* The console                                                             *)

CanType == console = "prompt" /\ pc[Console] = "idle"

\* Any command but quit.
Command ==
  /\ Alive
  /\ CanType
  /\ commands < MaxCommands
  /\ commands' = commands + 1

\* sendmsg and delaymsg with a text.
SendMsg(what) ==
  /\ Command
  /\ Post(Console, what)
  /\ UNCHANGED <<fate, ioVars, console, found, listing, shown>>

\* Without a space, substr is called with npos: out_of_range, not caught.
SendMsgWithoutText ==
  /\ Command
  /\ fate' = "terminated"
  /\ UNCHANGED <<poolVars, ioVars, console, found, listing, shown, taskVars>>

\* guilds prints the size first; members does not, and goes through the
\* list in the same way.
CountGuilds ==
  /\ Command
  /\ found' = Len(guilds)
  /\ console' = "count"
  /\ UNCHANGED <<poolVars, fate, ioVars, listing, shown, taskVars>>

\* begin() and end() of the range-for.
BeginPrint ==
  /\ Alive
  /\ console = "count"
  /\ listing' = [at |-> 1, end |-> Len(guilds) + 1, of |-> moved]
  /\ shown' = <<>>
  /\ console' = "print"
  /\ UNCHANGED <<poolVars, fate, ioVars, found, commands, taskVars>>

PrintGuild ==
  /\ Alive
  /\ console = "print"
  /\ listing.at < listing.end
  /\ IF listing.of = moved
     THEN shown' = Append(shown, guilds[listing.at]) /\ UNCHANGED fate
     ELSE shown' = Append(shown, Garbage) /\ fate' \in {"alive", "undefined"}
  /\ listing' = [listing EXCEPT !.at = @ + 1]
  /\ UNCHANGED <<poolVars, ioVars, console, found, commands, taskVars>>

EndPrint ==
  /\ Alive
  /\ console = "print"
  /\ listing.at = listing.end
  /\ console' = "prompt"
  /\ UNCHANGED <<poolVars, fate, ioVars, found, listing, shown, commands, taskVars>>

\* quit: the websocket is stopped and the console thread ends.
Quit ==
  /\ Alive
  /\ CanType
  /\ console' = "ended"
  /\ UNCHANGED <<poolVars, fate, ioVars, found, listing, shown, commands, taskVars>>

-----------------------------------------------------------------------------
(* The tasks, on the threads of the pool                                   *)

\* The captured this of a console task is the ConsoleTest, of a greeting
\* the MyClient; the first is gone as soon as main leaves.
ConsoleGone == main = "leave"

\* t's task makes its next request over HTTP, through an object that may be
\* gone: typing, or the message.
Request(t) ==
  /\ Alive
  /\ pc[t] = "run"
  /\ \/ /\ stage[t] = "begin"
        /\ stage' = [stage EXCEPT ![t] = IF kind[task[t]] = "delay" THEN "typing" ELSE "sending"]
     \/ stage[t] = "typed" /\ stage' = [stage EXCEPT ![t] = "sending"]
  /\ fate' \in IF ConsoleGone /\ kind[task[t]] /= "greet" THEN {"alive", "undefined"}
               ELSE {"alive"}
  /\ UNCHANGED <<poolVars, ioVars, consoleVars, kind>>

InRequest(t) == stage[t] \in {"typing", "sending"}

\* cpr::Post returns, with an answer or with an error; which one is not
\* looked at.
Answer(t) ==
  /\ Alive
  /\ InRequest(t)
  /\ stage' = [stage EXCEPT ![t] = IF @ = "typing" THEN "typed" ELSE "sent"]
  /\ UNCHANGED <<poolVars, fate, ioVars, consoleVars, kind>>

\* The task returns.
EndTask(t) ==
  /\ Alive
  /\ stage[t] = "sent"
  /\ Finish(t)
  /\ stage' = [stage EXCEPT ![t] = "begin"]
  /\ UNCHANGED <<fate, ioVars, consoleVars, kind>>

\* Beside what the threads do to come to a task.
OnlyPool == Alive /\ UNCHANGED <<fate, ioVars, consoleVars, taskVars>>

-----------------------------------------------------------------------------
(* The end of main                                                         *)

\* Run returns: after quit, or because the connection has ended.
RunReturns ==
  /\ Alive
  /\ main = "run"
  /\ loaded = NoEvent
  /\ main' = "join"
  /\ UNCHANGED <<poolVars, fate, events, loaded, todo, greeted, guilds, room, moved,
                 consoleVars, taskVars>>

\* The console thread is joined; its ConsoleTest is destroyed with main's
\* locals, before the last reference to the client.
LeaveMain ==
  /\ Alive
  /\ main = "join"
  /\ console = "ended"
  /\ main' = "leave"
  /\ UNCHANGED <<poolVars, fate, events, loaded, todo, greeted, guilds, room, moved,
                 consoleVars, taskVars>>

\* ~MyClient: the pool is destroyed, then the Client it is derived from.
DestroyClient ==
  /\ Alive
  /\ main = "leave"
  /\ Close
  /\ fate' = IF pool' = "gone" THEN "exited" ELSE fate
  /\ UNCHANGED <<ioVars, consoleVars, taskVars>>

-----------------------------------------------------------------------------
Handler == PushGuild \/ Greet \/ PassChannel \/ EndHandler

Listing == BeginPrint \/ PrintGuild \/ EndPrint

Type == SendMsg("send") \/ SendMsg("delay") \/ SendMsgWithoutText \/ CountGuilds \/ Quit

Ending == LeaveMain \/ DestroyClient

Next ==
  \/ \E event \in Events : Receive(event)
  \/ Handler
  \/ Type
  \/ Listing
  \/ \E t \in Threads : \/ Work(t) /\ OnlyPool
                        \/ WakeUnasked(t) /\ OnlyPool
                        \/ Request(t)
                        \/ Answer(t)
                        \/ EndTask(t)
  \/ \E x \in Threads \cup Posters : Signal(x) /\ OnlyPool
  \/ RunReturns
  \/ Ending

Spec == Init /\ [][Next]_vars

(* Every thread runs: a thread of the pool that can have the mutex has it  *)
(* in the end, a task comes to its next request, handlers and the console  *)
(* go on.  Two things need not happen.  A request need not be answered:    *)
(* neither call of cpr::Post is given a timeout (http_api.cpp 56-64,       *)
(* 72-79).  And Run need not return, quit or not: a stop() can be lost     *)
(* (StopEndsRun in EventLoop; client_ws.hpp 322-346).  Nothing obliges the *)
(* user to type or the gateway to send events.                             *)
FairSpec ==
  /\ Spec
  /\ \A t \in Threads : WF_vars(Request(t) \/ EndTask(t)) /\ WF_vars(Work(t) /\ OnlyPool)
  /\ \A x \in Threads \cup Posters : WF_vars(Signal(x) /\ OnlyPool)
  /\ WF_vars(Handler \/ Listing)
  /\ WF_vars(Ending)

-----------------------------------------------------------------------------
\* The pool as those who post see it; a process that ends closes it.
Pool == INSTANCE Executor WITH
  Size <- Cardinality(Threads),
  started <- posted - Len(queue),
  running <- {task[t] : t \in Threads} \ {NoTask},
  open <- ~stopped /\ fate = "alive",
  gone <- pool = "gone"

(* Tasks are started in the order of posting, each of them once, at most   *)
(* one per thread; a waiting task does not wait while a thread is free;    *)
(* and only a pool that has been closed drops tasks, and waits for those   *)
(* that run (main.cpp 27, 81, 174, 187).                                   *)
ImplementsExecutor == Pool!FairSpec

(* The pool stays open, idle or not, until main leaves: the constructor's  *)
(* count of one keeps the last of the tasks from stopping it               *)
(* (thread_pool.ipp 44-53, scheduler.ipp 57-80).                           *)
OpenWhileClientRuns == stopped => main = "leave"

(* Once Run has returned and the console has ended, one thing only can     *)
(* keep the process: a request that is never answered, in a task that had  *)
(* been started.  No thread of the pool sleeps through the destruction, no *)
(* task in the queue keeps main waiting, and a delaymsg is waited for with *)
(* both its requests (main.cpp 187-192, 245-250; thread_pool.ipp 60-82).   *)
QuitEnds ==
  console = "ended" /\ main /= "run" ~>
    fate /= "alive" \/ \E t \in Threads : []InRequest(t)

(* "Loop through all the guilds and print their names": the names printed  *)
(* are those of the list.  Io may append to it meanwhile, and a vector     *)
(* that grows moves away from under the iterator (main.cpp 73, 197-202).   *)
PrintsTheGuilds ==
  \A i \in DOMAIN shown : shown[i] = guilds[i]

(* What a handler is given is what the document says, in every member that *)
(* is not null and that LoadFrom looks up, however deep: the n-th struct   *)
(* of a vector is that of the n-th element (serializers.cpp).              *)
LoadedAsSent == EventAgrees(loaded.class, loaded.struct, loaded.doc)

(* Who is greeted is a text channel, or one that does not say what it is;  *)
(* and when the handler has come to the end of the list, no text channel   *)
(* has been passed over (main.cpp 75-76).                                  *)
GreetsTextChannels ==
  loaded.class = "GUILD_CREATE" /\ Has(loaded.doc, "channels", "array") =>
    LET chans == {loaded.doc.channels.val[i].val : i \in DOMAIN loaded.doc.channels.val}
        typed(c) == "type" \in DOMAIN c /\ c.type.is /= "null"
    IN /\ \A g \in greeted : \E c \in chans : c.id.val = g /\ (typed(c) => c.type.val = 0)
       /\ todo = <<>> => \A c \in chans : typed(c) /\ c.type.val = 0 => c.id.val \in greeted
=============================================================================
