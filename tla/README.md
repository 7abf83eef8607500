# Unofficial-Discord-Client: specifications, model checking and proofs

The program is a console client for the Discord gateway. A user starts it with
a token, it opens a TLS websocket, and the user types commands: `identify`,
`resume`, `quit`, and a few that send messages. What makes it worth modelling
is what the three or more threads of the process do to each other and to
`session.json`, the one thing that survives a run.

Paths below are relative to the repository. `discord.cpp` is
`src/discord/discord.cpp`, `main.cpp` is `src/main.cpp`, `client_ws.hpp` and
`client_wss.hpp` are in `include/sws/`.

## 1. Inventory

| Component | State | Operations | Modelled in |
|---|---|---|---|
| Websocket sending (`Connection::send`, `send_from_queue`, client_ws.hpp 164-289) | `send_queue`, `send_queue_mutex`, the outstanding `async_write` | `send`, the completion handler, its error branch | `FrameStream`, `SendQueue` |
| Gateway session (`Discord::Client`, `MyClient`) | `sessionID`, `sequenceNumber`, `session.json` | `on_message`, `ProcessReady`, `OnGuildCreate`, `UpdateSessionJson`, `LoadAndSendResume`, `SendIdentify`, `SendResume` | `GatewaySession` |
| Event loop and life of the process (`main`, `Client::Run`, `start`, `stop`, asio's scheduler) | `io_service`, `internal_io_service`, the chain of operations on the connection, `heartbeatTimer` | `start`, `stop`, `connect`, `on_open`, `on_close`, `on_error`, `ProcessHello`, `SendHeartbeatAndResetTimer` | `EventLoop` |
| Heartbeat in time (`ProcessHello`, `SendHeartbeatAndResetTimer`, asio's timers) | `heartbeatInterval`, the waits, `timer_queue`'s heap, the timerfd | HELLO, heartbeat, `expires_from_now`, `cancel`, the reactor's poll | `Heartbeat`, `TimerQueue`, `HeartbeatTimers` |
| Frame reader (`upgrade`, `read_message`, `read_message_content`, client_ws.hpp 438-676) | the streambuf, `num_additional_bytes`, `in_message`, `fragmented_in_message` | the search for the end of the response, header, length, content, fragments, ping, pong, close | `MessageStream`, `FrameReader`; whole frames in `EventLoop` |
| Task pool (main.cpp 21, 81-83, 168-195; `asio::thread_pool`) | queue of tasks, 4 threads, the wakeup event, the count of work | `post`, the loop of a thread, `stop`, `join` | `Executor`, `TaskPool`, `MyClient` |
| Guild list and the end of main (main.cpp 22, 65-73, 196-218, 237-251) | `guilds`, the objects of `main` | append on the io thread, iterate on the console thread, destruction | `MyClient` |
| Console (`ConsoleTest`, main.cpp 136-235) | `running` | the commands | `MyClient` (sendmsg, delaymsg, guilds, members, quit), `GatewaySession` and `EventLoop` (quit, identify, resume) |
| Serializers and the structs they fill (serializers.cpp, discord/*.hpp) | none | `LoadFrom` | `Serializers` |
| HTTP API (http_api.cpp) | none | two blocking requests without a timeout | `MyClient`, as the steps of a task |
| ScopeRunner, token | a signed counter; none | `continue_lock`, `stop` | not modelled |
| asio, rapidjson, the server half of the websocket library, crypto, proxy | | | only what the program depends on |
| scripts/ | | generator and a printing test | not modelled |

### Threads and how the parts interact

* The **main thread** calls `Client::Run`, which installs the handlers and
  calls `websocket.start()`; that ends in `io_service.run()`, so this is the
  *io thread*: every handler, completion and timer runs on it, one at a time.
* The **console thread** runs `ConsoleTest::run`. It calls into the same
  objects with no lock: `SendIdentify` and `SendResume` go straight to
  `Connection::send`; `quit` calls `UpdateSessionJson` and `websocket.stop()`.
* **Four pool threads** make HTTP requests: a greeting of every text channel,
  posted by the io thread, and the console's messages. Their tasks hold bare
  pointers to the client and to the console.

Only `send_queue` has a mutex. `sessionID`, `sequenceNumber`, `guilds`,
`connection`, `io_service`, `internal_io_service` and `session.json` are shared
and unprotected.

### What is hard

Interleavings of the console thread with handlers (sends, saves, `quit` while
`start()` is on its way); a crash inside a save; a connection lost before or
after HELLO; a timer that expires while it is being cancelled; a second HELLO;
resuming across runs and after an identify; frames that arrive with the upgrade
response; the wakeup of a pool thread that is just going to sleep; requests that
are never answered; a process that dies in a handler whose dispatch is already
saved; a vector that grows under an iterator. `PROJECT.json` lists these at the
lines where they bite, with the properties that watch them.

### What makes each component correct

* *Sending*: the bytes on the wire are whole frames in the order in which
  `send` accepted them; exactly one write is outstanding when the queue is not
  empty; no frame is stranded.
* *Session*: over any number of runs no dispatch is skipped; `session.json`
  claims no event whose handler has not at least begun, never goes back, and can be
  read. Each of these has exceptions in the code, which are named below.
* *Event loop*: heartbeats go on from HELLO to the close; `Run` returns for a
  known reason; `quit` ends the event loop, unless it comes during `start()`.
* *Heartbeat in time*: none is later than the interval, and they do not multiply.
* *Frame reader*: messages out are the messages in, however frames are split,
  fragmented, coalesced or interleaved with control frames.
* *Task pool*: what is posted is started once and in order, no waiting task is
  overlooked, and no task outlives the client.
* *Serializers*: a struct says what the document says.

## 2. Modules

**`FrameStream`** is the abstract specification of the sending half: frames are
accepted in some order; the wire carries their pieces in exactly that order,
each frame whole; the connection may be lost, after which nothing is written.

**`SendQueue`** is `send` and `send_from_queue` step by step: take the mutex,
`emplace_back`, look at the size, start the write, leave `async_write`, release.
The completion handler is `LockToComplete`, then `EraseFront` and `StartNext`,
or `ClearQueue` when the write failed. `async_write` is asio's composed
operation, `Chunks` calls of `async_write_some`. Each entry into the TLS stream
has a begin and an end, so that two threads inside it at once are visible. A frame is
its position in the order of acceptance; `accepted` and `wire` are history.

**`GatewaySession`** is the session across runs of the program. `sessionID`,
`sequenceNumber`, `conn` are the fields of `Client`; `file` is `session.json`;
`pc` says where each of the two threads is inside `UpdateSessionJson` or
`SendResume`, and whether the io thread is in a handler; `doc` is the document it
works on. `on_message` takes the number of a dispatch first (`Receive`, discord.cpp
168-169) and then calls the handler (`Handle`, 171-196): a console thread that saves,
a lost connection or the end of the process may come in between and inside the
handler. `hand` is the dispatch that is worked on; it joins the history `settled`
when its handler has returned (`HandlerReturns`), for READY and GUILD_CREATE after
the save with which they end. The std::string `sessionID` is unprotected:
during an assignment another thread reads `Torn`. `fopen` truncates, `fclose`
writes the buffer at offset 0, so of two overlapping saves the longer one's tail
may stay ("garbled"). The gateway is external: it answers IDENTIFY with READY
as dispatch 1 of a new session, RESUME with the missing dispatches and RESUMED
or with opcode 9, and closes a connection that opens a second session. `Die` is
a kill at any point, a failed assertion (such as that on a role that is no string,
serializers.cpp:248) or a null dereference; `Exit` is main returning after `quit`,
with no handler running.

**`MCGatewaySession`** defines the symmetry of the model checking.

**`EventLoop`** is one run of the program: `start()` in the steps that `stop()`
on another thread can come between; the chain resolve, connect, handshake,
upgrade, read; handlers taken from the FIFO `ready`; the work count that makes
`run()` return by itself; HELLO, the timer, heartbeats, `on_error`, `on_close`;
`quit`; the final `join`. A wait whose time has come is already in `ready`, out
of reach of `cancel()` and `expires_from_now()`.

**`Heartbeat`** has time. `queue` is the scheduler's queue with the reactor's
task, `"poll"`, among the handlers: when the thread comes to the task it collects
arrivals and expired timers, which go behind the handlers already there and
before the task. A wait is a timer (named by its HELLO) and the time at which it
expires; a heartbeat is `Beat`, the send, and `Rearm`, which cancels the wait of
the *current* timer and sets it anew. **`TimerQueue`** is asio's heap of timers,
each with its index: `timers` is the heap, and `sift` the one entry in it that may be
out of order, with its place and the way it is going. Enqueueing or removing a timer
leaves such an entry, and each turn of the loops of `up_heap` and `down_heap` is a step
(`Rise`, `Sink`). **`HeartbeatTimers`** composes the two: every step of `Heartbeat` with
what it does to the heap and to the timerfd. A step that works on the heap leaves
`job`, what is still to do there: the loop, the rest of `get_ready_timers` (`Dequeue`),
the new wait after `expires_from_now` has cancelled the old one (`Reschedule`), setting
the timerfd. Nothing else runs until it is done, as the io thread is the only one that
uses the timers.

**`MessageStream`** is the abstract specification of the receiving half: what the
gateway says is handled in order, once, with its own bytes. **`FrameReader`** is
the code: bytes are numbered, the streambuf is an interval, and each completion
handler is an action that takes bytes by `num_additional_bytes`, as the code
does, whatever is in the buffer. `"misread"` is the place of a reader that has
taken bytes for a header that are not one. `async_read_until` is asio's search
with its partial matches; `async_read` is `Missing` and `Complete`.
**`MCFrameReader`** gives the bytes of the response.

**`Executor`** is the abstract specification of a thread pool. **`TaskPool`** is
asio's: what a thread does while it holds the scheduler's mutex is one action,
`pthread_cond_signal` comes after the unlock, and a blocked thread may wake for
no reason. **`Serializers`** is `LoadFrom` of every class the client loads, from
a JSON document to a struct, with the documents that the structs can agree with
(`EventFits`) as a reference. **`MyClient`** extends both: the handlers that fill
the guild list and post greetings, the console's commands, the tasks with their
requests, and the destruction of everything at the end of `main`. A request is two
actions: `Request` makes it, and `Answer`, which may never come, lets the task go on.
**`MCMyClient`**
gives the documents: a READY with four guilds, two guilds with a text channel, a
voice channel and one that does not say what it is, a message, a reaction, and
a member whose role is a number.

**`SendQueue_proofs`**, **`EventLoop_proofs`**, **`Heartbeat_proofs`**,
**`TaskPool_proofs`**, **`MyClient_proofs`**, **`GatewaySession_proofs`** and
**`FrameReader_proofs`** hold the theorems about the modules they are named after;
**`GatewayHistory_proofs`** holds those about `GatewaySession` that speak of all runs
of the program together.

Apart from `HeartbeatTimers` and `MyClient`, which extend the modules they
compose, the modules share no variables. They meet where one abstracts the other:
`EventLoop` and `GatewaySession` see `send` as one step, which the theorem
`Implements` justifies as long as the connection is up; `GatewaySession` sees
the event loop as handlers that run one at a time on one thread; `EventLoop`
reads whole frames, which `FrameReader` justifies for frames that are not cut by
the reads of the upgrade response; `MyClient` sees `Run` as something that may
return at any time or never, as `EventLoop` says; `Heartbeat` leaves
out what `EventLoop` has: connection failures and the crash of an early close.

## 3. Runs

| Run | Configuration | Asks | Result |
|---|---|---|---|
| `send_queue` | `SendQueue.cfg`: two threads, 2 pieces per frame, 2 sends each | Is one write in flight, is the stream the accepted frames, does every frame leave? | holds, 3628 states |
| `ssl_strand` | `SslStrand.cfg`: same | Is the TLS stream used by one thread at a time, as `asio/ssl/stream.hpp` 44-49 requires? | **violated** |
| `gateway_session` | `GatewaySession.cfg`: two sessions, 3 dispatches each, 1 frame on its way | Is an event ever skipped over crashes, resumes and saves? Does the file tell the truth, and can it be read? | holds, 4.4 million states |
| `quit_after_resume` | `QuitAfterResume.cfg`: same | Does a quit that has no number of its own keep the saved one? | **violated** |
| `quit_race` | `QuitRace.cfg`: same | Does quit write the latest number (main.cpp:150)? | **violated** |
| `event_loop` | `EventLoop.cfg`: up to two HELLOs | Do heartbeats go on, why does Run return, does quit end the process? | holds, 2219 states |
| `stop_lost` | `StopLost.cfg`: one HELLO | Does Run end once stop() was called, as discord.hpp 39-41 has it? | **violated** |
| `frame_reader` | `FrameReader.cfg`: response of 8 bytes, 3 frames with 0, 1 or 126 bytes | Is the end of the response found at once, are messages, pings and close handled in order? | holds, 72637 states |
| `upgrade_extra` | `UpgradeExtra.cfg`: 2 frames of 1 or 3 bytes, cut anywhere | Are frames that came with the response completed by the next reads (client_ws.hpp 445-448)? | **violated** |
| `my_client` | `MyClient.cfg`: 2 pool threads, one event, one command and quit | Do tasks run once, in order, before the client is gone; are events loaded as sent; what can keep the process after quit? | holds, 113509 states |
| `guild_list` | `GuildList.cfg`: two events | Does `guilds` print the names in the list (main.cpp 197)? | **violated** |
| `heartbeat` | `Heartbeat.cfg`: up to three HELLOs, intervals 2, 5 and 7, slack 3 | Is a heartbeat ever late, do they multiply, does the heap hold the waits? | holds, 2.1 million states |

### What the properties say

* `FrontIsInFlight`: with the mutex free, the write outstanding is that of the
  front of the queue, and there is one exactly when the queue is not empty.
* `ImplementsStream`: `SendQueue` implements `FrameStream!Spec`.
* `EveryFrameLeaves`: a frame handed to `send` is written or lost with the
  socket, and leaves the queue.
* `NoEventSkipped`: before the handler of a dispatch returns, those of all earlier
  ones of its session have, in this run or in another, but for the exceptions below.
* `SavedWasHandled`: of a session that can be resumed, every dispatch up to the
  number in `session.json` was handled or is in its handler, with the same exceptions.

  *Quit during a handler.* `on_message` counts a dispatch before its handler runs, and
  `quit` saves what was counted. If the process then dies in the handler (a kill, or
  a failed assertion), the file promises an event whose handler never returned, a
  resume begins after it, and it is lost. The history `settled` takes up exactly these
  dispatches (`Lost`: in hand when the process dies, and saved by a `quit` that has
  closed the file); without them TLC finds the loss in 13 states. A `quit` after which
  `main` returns loses nothing, since `Run` returns between two handlers; nor does a
  save by a handler, which is the last thing it does; nor a `quit` that had read or
  opened but not written. The two properties say so.

  *Two sessions in a run.* `reopened` is true from then on: `sequenceNumber`, which
  nothing resets, is the maximum over both sessions, and a later resume can skip
  events. That is what the code does (discord.cpp 168-169, 102-105).
* `FileReadable`: `session.json` parses, unless the last saves overlapped or the
  process died inside one. `LoadAndSendResume` aborts on anything else.
* `HandlerSavesAdvance`: a save by a handler never takes the number back. For
  the saves of `quit` this does not hold, which `quit_race` and
  `quit_after_resume` show.
* `HeartbeatChain`, `HeartbeatsContinue`: from HELLO to the close frame there is
  a wait for the next heartbeat, and never more waits than HELLOs.
* `WhyRunReturned`: Run returns after quit, after a close frame, or after a
  failure before HELLO. A failure after HELLO leaves it running for ever.
* `LateQuitEnds`: a `stop()` that finds the io_service already restarted ends the
  program. `StopEndsRun`, without that condition, is violated.
* `HeartbeatInTime`: between HELLO or heartbeat and the next heartbeat no more
  than `heartbeatInterval` passes, for intervals of 2 s and more. The timer is set
  2 s early, after the send, and its handler waits for those before it.
* `HeartbeatsSpaced`: with `n` HELLOs, `n + 1` heartbeats in a row span at least
  the shortest interval less 2 s: leaked waits go on but do not multiply. For an
  interval of 2 s or less this is no limit, and the code has no other.
* `HeapHoldsWaits`: whenever the io thread is not inside the timer queue, the heap of
  asio holds exactly the waits, each timer knows its place, the root is the first to
  expire, and the timerfd goes off by then.
* `ResponseFound`: however the upgrade response is cut into reads, its end is found
  with the read that brings it.
* `LeftoverCompleted`: no read takes payload for a header or bytes that have not
  come. It holds while no frame is cut by the reads of the response.
* `HearsWhatIsSaid`: `FrameReader` implements `MessageStream!FairSpec`.
* `NoLostWakeup`: while a task waits in the pool's queue, a thread is on its way to
  it, a signal is, or all threads are at work.
* `ImplementsExecutor`: the pool in the client implements `Executor!FairSpec`: in
  order of posting, once, no more at a time than threads, and no waiting task is
  left while a thread is free. Started in order is all: two threads may finish
  their requests in the other order.
* `OpenWhileClientRuns`: the pool stays open, idle or not, until main leaves.
* `QuitEnds`: once `Run` has returned and the console has ended, the process ends, or
  some request that a started task has made is never answered. That is the one thing
  that can keep it: no thread sleeps through the destruction, and what is queued is
  dropped. Neither call of `cpr::Post` has a timeout (http_api.cpp 56-64, 72-79), so a
  silent peer does keep the process for ever.
* `LoadedAsSent`: a struct has the document's value for every member that is not
  null and that `LoadFrom` looks up. `GreetsTextChannels`: only text channels, or
  channels that have no `type`, which leaves theirs uninitialized, are greeted; and
  no text channel has been passed over when the handler is through the list.
* `CloseEndsRun`: after the close frame is answered, with no wait left, Run
  returns unless the user types first.

### The six disagreements

1. *quit after resume* writes 0: `SendResume` keeps the session id and not the
   number (discord.cpp 102-105), against main.cpp:150.
2. *quit racing a handler* writes an older number over a newer one (main.cpp
   33-54 on two threads), against main.cpp:150.
3. *The TLS stream* is used by the console thread and the io thread at once
   (client_ws.hpp 170, 262), against asio/ssl/stream.hpp 44-49.
4. *A stop() during start()* is forgotten (client_ws.hpp 322-346), against
   discord.hpp 39-41: Run goes on with no console to stop it.
5. *A frame cut by the upgrade's reads*: `num_additional_bytes` still counts the
   header's bytes after they have been taken (client_ws.hpp 488, 512, 536), so the
   next read waits for too little; against client_ws.hpp 445-448.
6. *The guilds command* goes through a vector that a handler moves (main.cpp 73,
   201), against main.cpp:197.

Run also returns without `stop()`, against discord.hpp 39-41; `WhyRunReturned`
says when. The names under which LoadFrom looks members up are not always those
of the gateway's documents (`avatar_hash` for `avatar`, `parent_category_id` for
`parent_id`, `nickname` for `nick`, `emoji` for `emojis`; compare
scripts/GuildCreatePacket.json): such members are never loaded. `LoadedAsSent`
speaks of the names that are looked up.

### Bounds

* `Threads`, `MaxSends`, `Chunks` of `SendQueue`: two threads make every pair
  of roles (sender and sender, sender and handler); with two sends each, a send
  finds the queue empty, with one frame in flight and with more behind it; with
  two pieces a frame can be cut in the middle. The proofs need none of them.
* `Sessions`, `MaxSeq`, `MaxPipe`, `Radix` of `GatewaySession`: two sessions are
  what it takes to mix them up; of three dispatches one can be saved, one
  in its handler or handled and not saved, and one missed. With one frame on its way the gateway
  adds none unless it answers a resume, which brings all that are missing at
  once. Numbers from `Radix` on print longer than those below, which is what
  makes a shorter document over a longer one. The number of runs of the program
  is not bounded.
* `MaxHellos` of `EventLoop`: the second HELLO is the one that replaces a timer.
  Everything else in the module is finite by itself.
* `Intervals`, `Slack`, `MaxBusy`, `MaxHellos`, `MaxTime` of `Heartbeat`: one interval
  below the slack and two above; three timers make a heap in which entries go up
  and down, although after a removal none goes up, which takes six (the theorem
  `HeapCorrect` covers it); ten units of time are several heartbeats. `MaxBusy` is the most that
  handlers take from one poll of the reactor to the next, and `BusyAssumption`
  (3 MaxBusy <= Slack) is what `HeartbeatInTime` needs: a wait that expires just
  after a poll is seen one round later, handled after that round's handlers, and
  the one before was set after its own round's. The proof needs nothing else.
* `Response`, `Lengths`, `MaxFrames`, `MaxRead` of `FrameReader`: the response has a
  partial match in the middle; the lengths are an empty payload, one byte and the
  first that needs two bytes of length; three frames are a fragment, a control
  frame and the end, or two frames received with the response and one after.
  asio reads 512 bytes at a time; 160 is more than the largest frame (130) and
  less than all of them together. `CutFrames` says whether a frame may be cut
  by the reads of the response.
* `Threads`, `Events`, `MaxEvents`, `MaxCommands` of `MyClient`: two threads are what a
  wakeup can go wrong between; one event posts up to two greetings and one
  command a third task. The second event is what moves the vector; it is in
  `guild_list`. The proofs need none of the bounds.

`CHECK_DEADLOCK FALSE` is set where the system really stops: `SendQueue` when
every send is done and the socket lost; `EventLoop` when the process has exited
or crashed; `FrameReader` when the connection is over or the gateway silent;
`MyClient` when the process has ended or waits for the user; `Heartbeat` when time
is up or a close frame came before HELLO, which ends the process. `GatewaySession` is checked for deadlock.

### Fairness

* `SendQueue`, while `Client::Run` is running: a thread inside `send` goes on
  (weak). The io_service takes handlers from a FIFO, and a mutex is not withheld
  from the io thread for ever, so a posted completion and a ready write get
  their turn among reads and other sends (strong, `LockToComplete` and
  `BeginWriteSome`). A write that has begun writes or fails. Sending, reading
  and losing the socket are not fair.
* `EventLoop`: the main thread and `stop()` go on, `run()` runs the handler at
  the front, timers expire, operations on a broken socket fail. Network success,
  frames and the user are not fair.
* `FrameReader`: a read whose bytes have come completes. Nothing obliges the gateway.
* `MyClient`: a pool thread that can have the mutex has it in the end, a task comes to
  its next request and returns after the last, a signal that is due is sent, handlers
  and the console go on, and main goes on once `Run` has returned and the console has
  ended. An answer to a request is not fair, since the code sets no timeout; nor is the
  return of `Run`, since a `stop()` can be lost (`stop_lost`). Nothing obliges the user
  or the gateway.
* `GatewaySession` and `Heartbeat` have safety properties only; that heartbeats
  go on is in `EventLoop`.

Action properties are checked under symmetry in `GatewaySession`; no liveness
property is.

## 4. Proofs

`SendQueue_proofs` proves for every set of threads, every number of pieces and
every bound on the sends, from `SendAssumption` alone (the io thread is one of
the threads, `NoThread` is none of them, a frame has at least one piece):

* `TypeCorrect`: `Spec => []TypeOK`
* `OneWriteInFlight`: `Spec => []FrontIsInFlight`
* `Implements`: `Spec => ImplementsStream`, the refinement

`FrontIsInFlight` is not inductive: it is silent while the mutex is held, and
that is when the queue and the outstanding write change. `IInv` adds what holds
in between: the mutex is held by the thread whose `pc` is in the critical
section (`MutexHeld`); only the io thread runs handlers and transfers
(`IoHandlers`); the queue is the tail of the order of acceptance, so its front
has the number `FrontNumber` (`QueueOrder`); a handler has a completion to
handle (`Handled`); what is outstanding is the write of the front, except
between the decision to start it and its start (`InFlight`); and the piece the
stream waits for is the next piece of that write (`StreamWaits`). There is one
lemma per action; `Inductive` puts them together. `IInv` was also checked by TLC
as an invariant of `SendQueue.cfg`.

The refinement follows step by step: `WriteSome` writes the piece that
`StreamWaits` says the stream waits for, of a frame that has been accepted
because it is the front of the queue; `FailWrite` and `LoseSocket` are `Lose` or
stutter; `Emplace` is `Accept`; all else stutters.

`EventLoop_proofs` proves for every bound on the HELLO frames, from
`HelloAssumption` alone (the bound is a natural number):

* `TypeCorrect`: `Spec => []TypeOK`
* `ChainUnbroken`: `Spec => []HeartbeatChain`
* `RunReturnedForAReason`: `Spec => []WhyRunReturned`

`HeartbeatChain` counts the waits, and nothing in it says that a handler of the
queue that ends in a wait finds the connection as it left it. `IInv` adds that:
while the connection is being opened or read, exactly one of the pending
operation and the handlers that end a link of the chain is there, and otherwise
none (`Link`), so a second HELLO or a close frame cannot wait behind another
frame; a HELLO that waits to be handled is within the bound (`HelloFits`); the
waits are at most the HELLOs (`AtMost`) and at least one until the close frame
(`AtLeast`). `WhyRunReturned` needs that the io_service stops only with a reason,
before `run()` returns (`Reason`), and that before `connect()` there is nothing
to run (`Fresh`). That `run()` has no work left then means, by `Link` and
`AtLeast`, that the connection closed, or failed before HELLO. The lemmas on the
queue say what posting a handler and taking one do to the count of expired
waits, by a bijection between positions, and to the links. There is one lemma per
action or group of actions, and `Inductive` puts them together.

`Heartbeat_proofs` proves from `TimeAssumption` and `BusyAssumption`, for all
intervals and without a bound on time that matters:

* `TypeCorrect`: `Spec => []TypeOK`
* `BeatsInTime`: `Spec => []HeartbeatInTime`
* `BeatsSpaced`: `Spec => []HeartbeatsSpaced`
* `TimersRefine`: `TimedSpec => Spec`
* `HeapCorrect`: `TimedSpec => []HeapHoldsWaits`

The invariant follows a heartbeat through the queue. The task is in the queue once
(`OnePoll`); between a send and its re-arm nothing else runs (`RearmFirst`,
`RearmSoon`); and `Prompt` says, for each place where the next heartbeat can be,
how late it can be: a wait of the current timer that expires in time, an expired
one that the next poll will find, one in the queue before or behind the task.
Each leg of the way costs at most `MaxBusy`, hence the assumption.

`HeartbeatsSpaced` looks back, and to keep it one must know what is still to come.
`SpacedIInv` says that each HELLO has begun one chain, which is now a wait or a
handler on its way (`Fewer`), and `Crowd` counts what falls into any window of the
shortest interval less 2 s that now is in: its last heartbeats, the waits that will
expire in it and those that have, taken together, are no more than the HELLOs. A
HELLO with a shorter interval makes the windows smaller, a heartbeat moves its
chain's wait out of them. TLC checked it as an invariant of `Heartbeat` with the
constants of `heartbeat` and 1205272 states.

By `TimersRefine` these are theorems about the heartbeat on asio's timers too, whose
steps inside the timer queue change nothing that `Heartbeat` speaks of.
`HeapHoldsWaits` is false inside the queue, and `HeapIInv` says what is true there.
`Order`: while an entry rises, the heap is sorted but for that entry and its parent;
while it sinks, but for that entry and its children; in both cases its children are
not before its parent (`Bridged`), without which a swap would break what is below or
above. Pure lemmas on sequences of times say that each turn of a loop keeps this
(`RiseKeeps`, `SinkKeeps`), that the end of the loop makes it sorted (`Risen`, `Sunk`),
and that the last entry in place of the one removed starts one of the two loops, the
one that `remove_timer` chooses (`Replaced`). `Indexed` says that the timers know their
places, and that a timer that is given a place is there. That the root is the first to expire follows from the well-foundedness of
the natural numbers (`LeastOf`, `RootFirst`). `HoldsWaits` and `Alarmed` say, for each
job, how far the entries and the timerfd are behind the waits. TLC checked
`HeapIInv` as an invariant of `heartbeat`.

`TaskPool_proofs` proves from `PoolAssumption` (a finite set of threads, not empty,
that does not meet the posters):

* `PoolTypeCorrect`: `PoolSpec => []PoolTypeOK`
* `NoWakeupIsLost`: `PoolSpec => []NoLostWakeup`
* `PoolImplements`: `PoolSpec => Promise!Spec`, the safety part of `Executor`

`PoolIInv` adds to the types: a thread has a task exactly while it is in one
(`Occupied`); the queue holds the last tasks posted, in order (`QueueOrder`), and
the others have been started, each by one thread (`Started`); the count of work
is that of the tasks, and one more until `join` (`Counted`), so that the pool is
stopped by its destructor only (`StoppedByClose`).

`MyClient_proofs` shows that each step of the client is one of the pool's or leaves
it alone (`ClientUsesPool`); `ClientInv` is what that takes: who may post when, and
that nobody can once `main` leaves. With it,

* `ClientLosesNoWakeup`: `Spec => []NoLostWakeup`
* `PoolStaysOpen`: `Spec => []OpenWhileClientRuns`
* `ClientImplements`: `Spec => Pool!Spec`, where a process that ends closes the pool
* `ClientTypeCorrect`: `Spec => []TypeOK`
* `LoadsWhatWasSent`: `EventsFit` gives `Spec => []LoadedAsSent`
* `GreetsTheRight`: `EventsFit` gives `Spec => []GreetsTextChannels`

for any number of threads, events and commands, from `ClientAssumption` (the events
are those that the client handles, and the arrays of their documents are sequences)
and `PoolAssumption`. The types need that nothing is ever taken off the guild list, so
that the end of an iteration over it stays within the list (`ListTyped`), and where
the names and channels in a handler's hand come from (`TodoTyped`).

`EventsFit` says that every document is one of those a struct can agree with: each
member that `LoadFrom` looks up is null or of the type it is looked up with, a level
is less than 256, and what the API describes as an array or an object is one.
`MCMyClient` assumes it of the documents of `my_client`, so TLC evaluates it there. What
the proof shows beyond that is that no member is taken from another place of the
document: one lemma for a flat struct (`FlatSays`), one for each class with structs
inside, up to the members of the guilds of a READY (`UserSays` to `ReadySays`); and that
a handler works on the struct of one event from end to end (`LoadInv`).
`GreetInv` adds that the places still in the list are channels of the guild in hand,
and that a text channel has been greeted or is still in it.

`GatewaySession_proofs` proves from `SessionAssumption` (two threads, and a torn or
empty id that is no session's), for all sessions and bounds:

* `TypeCorrect`: `Spec => []TypeOK`
* `FileStaysReadable`: `Spec => []FileReadable`

The types are inductive with two additions: a frame that carries a number belongs to
a session (`Numbered`), and so does what is in hand while a handler runs (`Holding`),
without which its number could be settled for no session.
`FileReadable` says nothing of the time inside a save. `FileIInv` adds that two
saves that are open at once have left their mark, and that without the mark the
file is empty while a save is open, so that no tail of a longer document can
stay behind what `fclose` writes.

`GatewayHistory_proofs` proves, from the same assumption and for all sessions and bounds:

* `NothingSkipped`: `Spec => []NoEventSkipped`
* `SavedHandled`: `Spec => []SavedWasHandled`
* `HandlersAdvance`: `Spec => HandlerSavesAdvance`, an action property

None of the three is inductive, since what was handled is decided by numbers that may
have been saved by an earlier run, be on their way to the gateway, or be in a document
that another thread is writing. `HistoryIInv` has a part that holds in every run
(`Always`): the kinds of the frames, what a connection that is down leaves, how far
each save has come, and that while the file is ahead of the process, all that can
reach the process is ahead of the file. The other part (`Orderly`) holds until a run
opens two sessions. Call a number covered if it is settled or in hand. Then each
dispatch on its way, and the next one, follows one that is covered or is in front of it
(`InOrder`); wherever a session that can be resumed is written with a number, that
number is covered (`SavedCovered`, `NumberCovered`); what is in hand when the process
dies is covered no more, which is harmless because it is in the file only if `quit`
saved it (`Unsaved`); and
the process names one such session at a time (`OneSession`, `OneLive`, `Asked`), which is
what makes it harmless that `sessionID` and `sequenceNumber` are set apart. There is
one lemma for each part. TLC checked it as an invariant of `GatewaySession.cfg`
(4365060 states).

`FrameReader_proofs` proves from `ReaderAssumption` (the delimiter is at the end of
the response and nowhere before), for any lengths and any number of frames:

* `TypeCorrect`: `Spec => []TypeOK`
* `ResponseIsFound`: `Spec => []ResponseFound`
* `LeftoverIsCompleted`: `~CutFrames` gives `Spec => []LeftoverCompleted`
* `ImplementsMessageStream`: `~CutFrames` gives `Spec => Stream!Spec`, the safety
  part of `HearsWhatIsSaid`

The search of the response needs the first match to exist, which follows from the
well-foundedness of the natural numbers (`Least`, `FirstMatch`); between reads the
search stands at or before the delimiter (`Search`). `PlaceIInv` then gives the
reader a place among the frames: the frames follow one another, each with its
place in what is said and in its message (`Chain`, `Ordered`); before a header or
inside a frame, the buffer is empty, or it holds whole frames from this one on,
and `num_additional_bytes` is not less than their bytes (`AtHeader`, `Inside`);
what is handled is what was said before (`UpTo`). That the number is allowed to
be too large, but is not 1 with an empty buffer, is the point of the code's
restart with none, and why the last frame must not be of length 1. `PlaceIInv`
was also checked by TLC as an invariant of `FrameReader.cfg`.

Only model-checked: liveness (`EveryFrameLeaves`, `HeartbeatsContinue`, `LateQuitEnds`, `CloseEndsRun`, `QuitEnds`,
the fair parts of `ImplementsExecutor` and `HearsWhatIsSaid`), which
the proof system does not reach under fairness. All other invariants and action
properties that a run finds true are theorems.

## 5. Not modelled

* The contents of HTTP requests and their results, which nobody looks at; the
  token; printing.
* Of a message: mention lists, embeds and reactions, which nothing reads.
* The age of a saved session (a resume may find any file too old, and then does
  nothing) and the time in the file.
* Send callbacks and the library's timeouts: the program passes none and leaves
  both timeouts at 0. The proxy and the plain-socket client, the server: not used.
* `ScopeRunner`: its count only matters when the client is destroyed while `Run` is
  running, and `main` destroys it after `Run` has returned.
* The fields of the upgrade response: `FrameReader` has the verdict only.
* What C++ leaves undefined is followed where it has few outcomes: a torn string,
  an uninitialized integer, a dangling iterator, a destroyed console. A race on
  the TLS engine is reported by `ssl_strand` and its consequences are not followed.
* `io_service` itself as a shared pointer that `start()` assigns while `stop()`
  may read it: `internal_io_service`, read first, is what decides in the model.
* The end of standard input: the console then spins on an empty command.
* rapidjson, sockets, resolvers, buffers and the rest of asio: libraries that the
  program uses and that are in the repository as copies.

## 6. Plan

Done: all modules above and their proofs. What is left, in this order:

1. `EventLoop` composed with `SendQueue`, for what is sent after a close frame and
   after `Run` has returned.
2. The age of a saved session, with time across runs, in `GatewaySession`.
