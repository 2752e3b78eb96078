# sylarServer: a verification project

sylarServer (namespace `gaiya`) is a C++ server framework built on an N:M
coroutine scheduler with an epoll reactor, hooked system calls, timers, and TCP
and HTTP servers on top. This directory holds TLA+ models of its concurrent core, of
the servers and of the data modules they stand on, the TLC configurations that check
them on small instances, and TLAPS proofs of what holds for every instance of the
scheduler, the IO manager with its descriptors, the timers, the hook, the TCP server, the byte
array and the configuration. Source paths below are relative to `src/src/`; `PROJECT.json` maps every
definition to its lines.

## 1. Inventory

| component | state it keeps | operations | made correct by |
|---|---|---|---|
| **Scheduler** (`Scheduler/`) | `m_coros` (queue of coroutines and functions), `m_activeThreadCount`, `m_idleThreadCount`, `m_stopping`, `m_autoStop`, the pool | `start`, `stop`, `schedule`, `run` on every thread; virtual `tickle`, `idle`, `stopping` | a coroutine runs on one thread at a time; whatever is scheduled is run; `stop()` returns, and only when nothing is left |
| **Coroutine** (`Coroutine/`) | `m_state` and a stack | `swapIn`/`swapOut`, `YieldToReady`, `YieldToHold`, `call`/`back`, `reset` | the assertions on `m_state` hold; no stack is used by two threads |
| **IOmanager** (`IOmanager/`) | `m_fdctxs`, `m_pendingEventCount`, epoll set, tickle pipe | `addEvent`, `delEvent`, `cancelEvent`, `cancelAll`, overridden `tickle`, `idle`, `stopping` | no lost wake-up, no deaf waiter, exact counts, no waiter left behind at stop |
| **TimerMng** (`Timer/`) | ordered set `m_timers`, `m_tickled` | `addTimer`, `addConditionTimer`, `reset`, `refresh`, `cancelTimer`, `getNextTime`, `getTriggerableCB` | no timer overslept, collected twice, early, or after its cancellation |
| **Hook, FdMng** (`Hook/`, `FdMng/`) | per-descriptor flags and timeouts | `do_io`, `connect_with_timeout`, `sleep`, `close`, `fcntl`, ... | a timeout cancels only the wait it belongs to; a closed descriptor is not used again |
| **Socket**, **TcpServer** | `m_sockfd`, connection flags; listening sockets `m_socks`, `m_isStop`, two managers | connect, close, cancelAll; `start`, `startAccept`, `stop` | loops end after `stop()`, none waits on, spins on or asserts over a closed socket; connections are accepted |
| **Stream** | - | `readFixSize`, `writeFixSize`, `SocketStream::read`/`write` | a fixed-size read is complete or reported |
| **Http** | the request buffer with its offset, request and response | `recvRequest`, `handleClient`, servlet dispatch, `dump` | a servlet gets exactly what was written, whatever the reads; each request is answered |
| **Http parsers** | state of the generated automata, marks | `http_parser_execute`, `httpclient_parser_execute` | the same request is recognised wherever its bytes are divided |
| **ByteArray** | block chain, `m_cur`, position, size, capacity | reads, writes, fixed, varint, zigzag and string encodings, views, files | to its callers it is one sequence of bytes; what was written is read back |
| **Config** | value and listeners of each variable | `setVal`, listeners, load | the copies that listeners keep are the stored value; `setVal()` returns |
| Thread, Lock, Log, Address, Util | - | wrappers, formatting, clock | - |

How they interact. Every thread of the pool runs `Scheduler::run()`: it takes
an entry of `m_coros` under `m_mutex` and swaps into its coroutine, and with
nothing to take swaps into its idle coroutine, which in an `IOmanager` blocks in
`epoll_wait`, with a time limit asked of `TimerMng`. Hooked system calls in a
coroutine that would block register the coroutine with the `IOmanager` (and a
timeout with the `TimerMng`) and yield. An event, a cancellation or a timer hands it
back to `schedule()`, which calls `tickle()`, which writes a byte to a pipe if
some thread is idle. `stop()` sets flags, tickles, perhaps joins the loop, and
joins the threads.
A `TcpServer` schedules one coroutine per listening socket, which accepts and
schedules one coroutine per client; `HttpServer`'s reads a request with
`HttpSession`, has a servlet fill the response and sends it. `stop()` schedules a
task that cancels and closes the sockets under the loops.

What is hard here: the coroutine's state is not protected by any lock, and is
published before its context is saved; the counters are updated in other
critical sections than the queue they describe; `stopping()` reads several
pieces of state one after the other; `tickle()` decides on a counter that lags
behind; `m_tickled` is used outside its lock; epoll results are acted on
long after they were obtained; sockets are closed under coroutines that use
them; what a parser has marked moves in its buffer between two reads; listeners run
under another lock than the store they announce. `PROJECT.json` lists each hazard at its line with
the properties that would expose it.

## 2. The modules

| module | what it is |
|---|---|
| `Scheduler` | the scheduler and the life of a coroutine, one action per observable step |
| `TaskPool` | what the scheduler promises, with no thread, queue or counter in it |
| `IOManager` | extends `Scheduler`: idle/tickle/stopping overridden, with events and timers as wake-up sources |
| `TimerMng` | the timer set and the notification protocol between callers and pollers |
| `FdEvents` | the context of each descriptor, its registration with epoll, and the dispatch of epoll's results |
| `Hook` | `do_io()` with its timer and retry, `socket()` and `close()`, on one descriptor number that is given out again |
| `TcpServer` | accept loops and closing tasks of a listening socket, against a user's `start()` and `stop()` |
| `HttpBytes`, `Http11Parser`, `HttpClientParser` | the bytes the generated parsers distinguish, and their transition tables |
| `HttpRequestParser`, `HttpResponse` | a parser run over a buffer with the callbacks of `http_parser.cpp`; the response as printed and as read back |
| `HttpSession` | one connection: `recvRequest()`, `readFixSize()`, `handleClient()`; composes the parsers and the response |
| `ByteArray` | the block chain, its cursor, the encodings, the views, the transfers of `SocketStream` |
| `ByteStore` | what `ByteArray` promises: one sequence of bytes and a position |
| `Config` | `setVal()` with its listeners and two locks |
| `IOManagerProofs` | `Scheduler`'s types, counters, ownership, end of the loop and refinement of `TaskPool`; on these, the counters, the timers and the waiters of `IOManager`, which extends it |
| `ByteArrayProofs` | the cursor, the refinement of `ByteStore`, the views and the encodings, for every block size |
| `HttpSessionProofs` | what reaches a servlet, for all requests that the parser understands |
| `FdEventsProofs`, `HookProofs`, `TimerMngProofs`, `TcpServerProofs`, `ConfigProofs` | the safety properties of these modules, for every instance |
| `MCScheduler`, `MCIOManager`, `MCTimerMng`, `MCHttpSession`, `MCByteArray` | instances for TLC |

Every model keeps to one rule: an action is the code between two points where
another thread can observe or change the shared state. The mutant operators next
to some definitions (each says so) are plausible bugs; every checked property is
violated when its mutant replaces the definition it belongs to.

**Scheduler.** A task stands for a coroutine and the code it runs; the wrapper
that `run()` reuses for queued functions is the function's own coroutine. `pc[t]`
says where thread `t` is: `scan` (before the critical section), `tickle`,
`dispatch` (an entry or nothing in hand), `run` (inside the coroutine),
`swapOut` (it has published HOLD or READY and not yet left its stack), `back`
(counter not yet decremented), `post` (before the requeue or the store of HOLD),
`idle`, `idleBack`. `hand[t]` is `run()`'s local `corf`. The skipping of entries
pinned to the creating thread, and of running coroutines, and the extra tickle
are in `ScanTake`/`ScanNothing`. `stop()`'s special case for an empty pool
is what `StopFlag`, `StopTickle` (with no tickle to send) and `StopRun` do.
What clients may do is given by three constants. `EarlyWake`: a coroutine may be
handed to `schedule()` before `run()` has finished with it (the hook's `do_io()`
registers the coroutine before it yields). `LateResubmit`: tasks schedule
coroutines that have finished. `Pin`: the thread argument.

**IOManager.** Reuses `Scheduler`'s loop unchanged and replaces the base class's
`Idle`, `Tickle` and `StopRun` by the overridden ones. `stopping()` is three
steps, in the order in which it reads: the timers, the pending count, the
queue and counters. `addTimer()` is two, the insertion and, after the unlock, the read of `m_tickled` (`notify`). `idle()` continues with `epoll` (ready list or timeout),
`timers` (collect), `pushCbs` (batch schedule, in any order), `events` (drain the
pipe, dispatch or skip each event) and `eventDone` (the count is decremented
after the trigger). A registered coroutine is in `waiting`, one that epoll will
return in `fired`; descriptors are `FdEvents`' subject and the due times of
timers `TimerMng`'s. `stopping()` asks `getNextTime()`, and `idle()` uses the
answer as the wait, so both are the one read of `ReadNext`; the earlier `getNextTime()` of `idle()`, whose answer is overwritten,
is `UnusedNextTime` of `TimerMng`. A recurring timer (`MayRecur`) goes back into the set when it is collected, and is due again only when its callback has
returned, so that one task stands for all its runs. The history `orphans` remembers who registered last on a thread whose idle coroutine had ended. The cap of
epoll_wait's array (256 events) is never reached by the instances and is left out.

**TimerMng.** The set and `goTime` stand for the ordered `m_timers`. A timer with
the same due time as the first may or may not come before it (ordered by
address). The second reading of the clock in `getNextTime()` is `Subtract`; with
`Preempt` the clock may move between the two, and `wrapped` remembers the pollers
whose difference wrapped. What `getNextTime()` answers is a length of time: `timeout` counts from `since`, when `EpollWait` starts, or when
`Interrupted` (EINTR) starts it again, and `asked` remembers the reading of the clock it came from. `refresh()` is `Reset` with the old period counted from now.

**FdEvents.** All that an operation does to one descriptor is under that
context's mutex and is one action; epoll's interest set, readiness and
edge-triggered ready list are modelled as the code uses them. `HUP` stands for
EPOLLERR and EPOLLHUP. An assertion that fails sets `aborted` and ends the run; `addEvent()` asserts that its event is not registered, `triggerEvent()` that it is.
Three ghosts remember how that came about: `lost`, for each poller, the events of its array that somebody has taken out since epoll_wait() reported them; `late`,
that an event was cancelled which was not registered; `twice`, that one was registered which was.

**Hook.** `pc[c]` walks through `do_io()` (`io`, `arm`, `add`, `parked`, `queued`, `woke`, `check`) and
`close()` (`closeAll`, `closeDel`, `closeFd`); at most `Threads` coroutines and callbacks are between two
steps. `queued[c]` counts the timeout callbacks whose weak pointer still finds the call's condition, `cancelled[c]` is
the condition, shared by all retries of one call, and `cancelling` counts the callbacks that have set it and not yet
called `cancelEvent()`. The kernel's part is `conn` (which connection the number stands for), `ready` and `watched`.
Any coroutine may close the descriptor while another one waits on it, as `TcpServer::stop()` does. Events reach
parked coroutines only (`EarlyWake` of `Scheduler` has the rest), in one direction (`FdEvents` has both).

**TcpServer.** A loop is a coroutine of `startAccept()`, a closer one of the lambda in
`stop()`. `pc` of a loop is `check` (`while(!m_isStop)` and the first lines of `do_io()`), `accept` (the
system call), `add` (addEvent and the yield) or `waiting`; that of a closer follows `cancelAll()` and the three parts of the hooked
`close()`. `shared` says whether `m_worker` and `m_accept` are one manager; a manager runs as many coroutines at
once as it has threads. `start()` and `stop()` are two steps each, because each writes `m_isStop` and schedules in some order.
`late` and `overlap` are ghosts: loops that registered while `close()` was under way, and a `start()` that
came before the coroutines of the last round had ended.

**Http.** `Http11Parser` and `HttpClientParser` are the two automata as sets of rows (states, bytes, next state, actions), one
definition per rule of the grammar and one name per state, each with the numbers of the
states it stands for; a byte no row takes leads to `error`. They replace ten thousand generated lines, which distinguish some
eighty classes of bytes (`HttpBytes`). `HttpRequestParser!Execute` runs a table over
a buffer with the callbacks of `http_parser.cpp`; marks are offsets that start from 0 in each call, except `query_start`, which survives.
`HttpSession` reads in arbitrary pieces, keeps the rest at the front of the buffer, copies and reads the body with unsigned lengths that wrap, and loops
as `handleClient()` does. `srv` is that coroutine; the client writes requests, may write ahead, and may give up in the middle. `cut`, `ahead`
and `short` are ghosts for the three situations in which the code does not do what it should (section 4).

**ByteArray.** A record holds the members; `blocks` is the chain, `cur` the index of `m_cur` or `None`. A byte has `Group + 1` bits and an
integer `IntBytes` bytes; with 3 and 2 the encodings keep the shape they have with 7 and 4. Each operation is
one function from record to record (`Write`, `Read`, `SetPosition`, `AddCapacity`, `Clear`), the actions apply it. `written` remembers what still stands undisturbed, for `ReadBack`.

**Config.** Threads in `setVal()`: `compare`, `tell` (listeners one by one, under the read lock), `store` (write lock). `sets` makes listeners set their variable themselves,
which with another value ends in `stuck`.

## 3. The runs

| run | instance | question, and what the run shows |
|---|---|---|
| `sched_pool` | 1 pool thread and the creating thread in the loop (useSche), 2 tasks that yield, finish and schedule each other, 88k states | `OneRunner`, `NoAbort`: a task has one runner. `ActiveExact`: the counter `stopping()` trusts. `NoAbandonedWork`: nothing left when the loop ends. `ImplementsTaskPool`: refinement of `TaskPool`. `EveryTaskServed`, `StopReturns`: liveness |
| `io_loop` | 2 threads of the loop, one of them inside `stop()`, 1 task that waits, is queued by one-shot and recurring timers and cancelled, 202k states | `CountersExact`: pending and idle counters in every interleaving of registration, cancellation, dispatch and timers. `NoOversleep`: no timer is overslept by all. `IOStopReturns`: `stop()` returns although threads sleep in epoll_wait and one may take all the tickles, unless a recurring timer is left. `NoWaiterLeftBehind`, `WaiterRuns`: a waiting coroutine is woken, and only an orphan left behind |
| `timer_wakeups` | 2 pollers, 1 caller, 2 timers, periods 1 and 2, clock to 2, 1.26 million states (with symmetry) | the wake-up protocol around `m_tickled`, the second reading of the clock, waits that start late or are started again; collection against reset and cancel |
| `fd_events` | 2 clients, 2 pollers, one descriptor beyond the table, 48k states | registrations, epoll and the counter agree; no edge is lost; `AbortHasCause`: the three causes an assertion fails for |
| `hook_io` | 2 coroutines, 2 threads, 2 connections on one number | timeouts, retries, closes and reuse: a waiting call keeps its waker while its connection lives, a timeout is reported only to the call whose timer expired, no timer outlives its wait, data ends the wait |
| `tcp_server` | 2 rounds of `start()`/`stop()`, 1 or 2 threads, one or two managers, 2 clients, 157k states | `StrandedHasCause`: when a loop is left waiting on the closed socket. `NoSpinNoAbort`: when one spins or asserts. Loops end, connections are accepted |
| `http_session` | a PUT with a 2-byte body and a GET, twice, a head in two pieces at any byte, stops at 0, 20 and 37 bytes, 85k states | `HandedOverIntact`: the servlet gets what was written, whatever the pieces. `OverrunHasCause`: when the length wraps. `ResponseUnderstood`: the client parser reads what `dump()` prints. `AnsweredOrClosed`: liveness |
| `byte_array` | blocks of 2 bytes, 4 bytes written, five kinds of items, 36k states | `CursorExact`, `ImplementsByteStore` (refinement), `ReadBack` of every encoding, `ViewsAgree` |
| `config_var` | 3 threads, 3 values, 2 listeners, 3 calls | the copies follow unless two calls crossed; `setVal()` returns unless a listener calls it |
| `sched_early_wake` | as `sched_pool`, 1 task, `EarlyWake` | finding 1 |
| `io_lost_wakeup` | 1 worker, 1 task | finding 2 |
| `io_left_behind` | as `io_loop`, one-shot timers | finding 3 |

Why the bounds are enough to mean something. Two threads of the loop and two tasks
give every pairwise race of `run()`: one thread between two of its steps while the
other takes, requeues or leaves. Each task may be scheduled, yield and be requeued any number
of times; nothing bounds the length of those runs. `io_loop` has two threads because
the races of `stopping()` and of `tickle()` are between a thread and another one, and one task because one is enough for them: a timer
that becomes a task that becomes an event is one coroutine (`io_left_behind` finds its trace there). With `UseMaster = FALSE` `stop()` only waits for
the threads; that branch (`IOStopRun`) is in `io_lost_wakeup`, and the properties of `io_loop` hold on one pool thread with it too (30k states). A second task takes the run beyond 30 million
states; the three invariants of the run are proved for every number of tasks and threads, and with coroutines woken before they have parked (`EarlyWake`),
which the run leaves out because the loop's own assertions fail then (finding 1).
Two timers are the least that have an order, two pollers the least that share a
wake-up. A clock that reaches 2 leaves room for a timer that is not due yet, for one tick between any two steps of a poller, and for a reading that
has passed the first timer; `MaxTimeout = 3` is longer than any period. A second descriptor (5.05 million states, `Fd = {3, 5}`, one client) gave the
same results for the safety properties of `FdEvents`.
Two rounds of `start()` and `stop()` are the least in which two loops meet on one socket. Two requests are the least in
which one is read after another on the same connection; `MaxReads = 1` allows a head in two pieces, cut at every byte, and
`BufferSize = 60` holds the longest of them;
`Relaxed = {FALSE}` because no byte of these requests is one for which the uninitialised `uri_relaxed` matters. In `ByteArray` every item but the shortest spans two blocks, and four bytes are two
full blocks, so that every position is met on, before and after a border, and the chain grows twice. Three calls of `setVal()` are
the least in which one call can cross two others.

Deadlock is checked except in `TimerMng`, whose clock stops at its bound, in `TcpServer` and `Config`, where a user who
stops calling, or a listener that waits for itself, is a legitimate end, and in `ByteArray`, which may have met its null block.

Only `Scheduler`'s `TypeOK` is an invariant of a run (it says that unsigned counters do not pass zero). The type invariants of
the other modules are stated in them; where another property depends on the ranges (`CursorExact`, `CountersExact`, `PendingExact`) it says so itself.

**Fairness.** Threads are scheduled by the operating system, so each thread's
code is weakly fair, and a task that runs again and again eventually returns
(strong fairness of `Finish`, as it may yield in between). The main thread is not
obliged to call `start()` or `stop()`, tasks not to schedule anything. Within
`IOManager`, additionally, events arrive and timers expire: `do_io()` with a
timeout guarantees exactly this, for `stop()` cannot return while a coroutine
waits for an event that never comes (`stopping()` asks for no pending event). Nobody owes the cancellation of a recurring timer: `stopping()` is false as long as
one is in the set (`../tester/testIOmanager.cpp:46-59` sets one up), and `IOStopReturns` says so.
The pollers of `FdEvents` keep polling. In `Hook` a coroutine on a thread goes on and yields in the end, and a
thread that is idle again and again dispatches what is ready; nothing is assumed of timers or arrivals.
In `TcpServer` a call that was begun returns, a free thread takes the next coroutine or the event, and a
running coroutine goes on; nobody has to call, connect or stop. In `HttpSession` a coroutine whose descriptor is readable is run and takes
something from the wire (`Takes`), and a servlet returns; the client owes nothing. `Takes` and not `ReadsHead` is the fair
action because it is as often enabled and TLC decides that without parsing. In `Config` threads inside `setVal()` go on; calls
are bounded because the rwlock prefers readers, so that without end of readers a writer may starve.

## 4. Findings

Three runs show the code doing otherwise than its documents or assertions say.

1. `sched_early_wake` (code bug, `Scheduler/schedule.cpp:191`): `run()` stores HOLD into a
   coroutine after it swapped out. If it was scheduled in between, another thread is
   running it by now, and its next yield fails its assertion.
2. `io_lost_wakeup` (`IOmanager/iomanager.cpp:352`): a task scheduled while the only thread
   is between finding the queue empty and counting itself idle wakes nobody; it
   waits for the next event or MAX_TIMEOUT. Liveness survives because of the time limit.
3. `io_left_behind` (`IOmanager/iomanager.cpp:373`): `stopping()` reads timers, pending events, queue and counters
   at different moments. One thread collects a timer into its local list; the other meanwhile finds no timer, event or task, and its idle coroutine ends.
   It runs the task that the timer became all the same. Before the task registers an event and yields, the first thread has read that nothing is pending, and
   afterwards finds the queue empty and nobody active: both leave, and the coroutine waits for ever. The notes say that
   `stopping()` decides by the listened events and the timers as well (`../readMe/IO协程调度.md:3`).
   What `io_loop` shows and `OnlyOrphansAreLeft` proves is that this is the only way: who registers on a thread whose idle coroutine has not ended
   is never left behind.

The rest of what the models showed is in the passing runs, whose properties name exactly the circumstances in which the code
does not do what is expected. Taking a name out of its property gives the counterexample.

- `Timer/timer.cpp:150`: two readings of the clock; an unsigned difference
  wraps if the timer became due in between, and the poller sleeps for MAX_TIMEOUT (`wrapped` in `NoOversleep`).
- `IOmanager/iomanager.cpp:278`, `:281`: epoll_wait() waits for the length of time that was computed before it started, and again for all of it after a
  signal. A timer is overslept by as much as went by in between (`Delay` in `NoOversleep`), which nothing bounds.
- `IOmanager/iomanager.cpp:298`, `:386`, `:170`: an epoll result returned for events
  taken out meanwhile, or a cancellation of what is no longer registered, while the other event is registered, fails the assertion of
  `triggerEvent()`; a registration of what is registered fails that of `addEvent()` (`AbortHasCause`). The last is reached by two coroutines on one
  descriptor: after the reuse of its number (`AbortNeedsReuse` of `Hook`), and by two accept loops on one socket (`overlap` in `NoSpinNoAbort`).
- `Hook/hook.cpp:157`: the timer is armed before the event is registered. If its callback
  runs in between, it marks the condition and cancels nothing; the coroutine then registers and yields, with no
  timer that could still wake it (`cancelled[c]` in `TimerFitsWait`).
- `Hook/hook.cpp:381`: a coroutine that registers between `cancelAll()` and the kernel's close waits on a dead descriptor
  (`WaiterHasWaker` speaks of live connections only), and if the number is given out again the next `addEvent()`
  may fail its assertion (`AbortNeedsReuse`).
- `TcpServer/tcp_server.cpp:89`, `:99`: loops are scheduled on `m_worker` and the closing task on `m_accept`, whose
  `cancelAll()` knows only its own registrations. `HttpServer` passes one manager and takes the default for the other. On one manager with two
  threads the loop may still register between the second `cancelAll()` and `close_f()` (`StrandedHasCause`). `start()` soon after
  `stop()` puts two loops on one socket or one on a closed one (`overlap` in `NoSpinNoAbort`).
- `Http/http_session.cpp:55`: `length -= offset` wraps when more than the body was in the buffer, and `readFixSize()` writes
  beyond it (`OverrunHasCause`): when the client writes ahead, or when the length was lost with a token (below) and the
  body is taken for the next request. What follows a request without a body in the same read is dropped (`ahead`). A read that ends inside a token loses the part
  before (`cut`), because marks start from 0 in each call of `http_parser_execute()`.
- `Stream/stream.cpp:14`: on failure `readFixSize()` returns `npos + rt`, which its caller takes for success as soon as a byte was
  read (two, after a timeout), although the comment at line 6 says that it does not return before it has read `length` (`short`).
- `Config/config.hpp:362`: two `setVal()` calls may tell in one order and store in the other, and copies then differ from the variable for
  good (`crossed`); a listener that sets its own variable waits for itself (`sets` in `SetReturns`).
- `ByteArray/bytearray.cpp:127`: a read of no bytes looks at `m_cur`, null when position and capacity meet: an empty
  string whose length ends the last block cannot be read back. `bytearray.cpp:637`: `writeToFile()` from inside a block writes too little of it when
  less than a block is left (both excepted in `ReadBack` and `ViewsAgree`).

Read and not checked: the URI rules for bracketed IPv6 literals lack repetitions, so that most are rejected, and header names admit control characters (both
are in `Http11Parser`, as they are); `HttpServer` keeps reading after it has answered `connection: close`; `m_isConnected` of a `Socket` is never reset;
`stop()`'s task clears `m_socks` while `start()` may iterate over it. The length of a text longer than 65535 bytes is written by `writeStringF16()` modulo 2^16: it comes back
cut, as `ReadBack` says.

## 5. What is proved

Each theorem is about the specification of its module (`IOSpec` in `IOManager`), for every value of the constants that the
module's assumption allows: any finite pool and any set of tasks (`SchedulerAssumption`), any timers, callers, pollers and natural
periods (`TimerAssumption`), any descriptors that a resize does not cut off, even infinitely many (`FdEventsAssumption`), any
coroutines and any numbers of threads, connections and queued callbacks (`HookAssumption`), any finite
sets of loops and closing tasks on any number of threads (`TcpServerAssumption`), any size of blocks, groups and integers, any set of items of the
five kinds (`ByteArrayAssumption`) with values that their C++ types can hold (`ItemsAssumption`), any threads, listeners and values
(`ConfigAssumption`), any number of requests, any buffer size and any stops (`SessionAssumption`).

`ParserAssumption` of `HttpSession` is of another kind: it says that `HttpRequestParser` makes of each request of `Requests`
what the client meant, wherever reads end that do not end inside a token. It is a statement about the tables of the generated
automaton and these requests alone, with no state of the session in it; TLC evaluates it for the requests of `http_session`, every
start and every length of a read. The theorems about `HttpSession` hold for all requests of which it is true.

| theorem | statement | further assumption |
|---|---|---|
| `TypeCorrect` | `[]TypeOK` of `Scheduler`; in particular the unsigned counters never pass below zero | none |
| `ActiveCountExact` | `[]ActiveExact` | none |
| `OneRunnerOnly` | `[]OneRunner` | `~EarlyWake` |
| `NothingAborts` | `[]NoAbort` | `~EarlyWake` |
| `NothingAbandoned` | `[]NoAbandonedWork` | `TameClients`: `~EarlyWake`, `~LateResubmit`, no task pinned to the stopping thread |
| `PoolImplemented` | `ImplementsTaskPool`, a refinement | `TameClients` |
| `IOCountersExact` | `[]CountersExact` of `IOManager` | none |
| `TimersAreWatched` | `[]NoOversleep` of `IOManager` | none |
| `OnlyOrphansAreLeft` | `[]NoWaiterLeftBehind` of `IOManager` | none |
| `OneShotsOnce` | `[]CollectedOnce` of `TimerMng` | none |
| `CancelledForGood` | `CancelledStaysSilent`, an action property | none |
| `NothingEarly` | `NeverEarly`, an action property | none |
| `SomebodyIsUpInTime` | `[]NoOversleep` of `TimerMng` | none |
| `FdTypeCorrect`, `PendingCountExact` | `[]TypeOK` and `[]PendingExact` of `FdEvents` | none |
| `NoDeafWaiter` | `[]Armed` of `FdEvents` | none |
| `AbortsHaveCause` | `[]AbortHasCause` of `FdEvents` | none |
| `WaitersCanBeWoken` | `[]WaiterHasWaker` of `Hook` | none |
| `AbortsOnlyOnReuse` | `[]AbortNeedsReuse` of `Hook` | none |
| `TimeoutsAreGenuine`, `TimersFitWaits` | `[]TimeoutIsGenuine` and `[]TimerFitsWait` of `Hook` | none |
| `CleanRounds` | `[]NoSpinNoAbort` of `TcpServer` | none |
| `StrandedOnlyBy` | `[]StrandedHasCause` of `TcpServer` | none |
| `CursorIsExact` | `[]CursorExact` of `ByteArray` | none |
| `StoreImplemented` | `ImplementsByteStore`, a refinement | none |
| `ViewsShowTheStore` | `[]ViewsAgree` of `ByteArray` | none |
| `WrittenIsReadBack` | `[]ReadBack` of `ByteArray` | none |
| `RequestsArriveIntact` | `[]HandedOverIntact` of `HttpSession` | `ParserAssumption` |
| `OverrunsExplained` | `[]OverrunHasCause` of `HttpSession` | `ParserAssumption` |
| `ListenersFollow` | `[]CopiesFollow` of `Config` | none |

`EarlyWake` and `TameClients` are what the counterexample of `sched_early_wake` makes necessary. `OnlyOrphansAreLeft` is what remains of the notes' promise
after `io_left_behind`.

The arguments.

- *Types and counters.* `TypeOK` is not inductive: that a decrement stays in Nat needs
  the counters to be exact, and that needs to know which threads have a task in
  hand. `TypeCore` is `TypeOK` without the counters; `Control` says where each kind of thread can be, and
  when `hand` is set; `Counted` says the counters are the cardinalities of `Busy` and `Resting`.
  A step moves at most one thread into or out of these sets.
- *Ownership.* `Owned`: no task has two entries, a queued task is in nobody's hand, no two hands hold the
  same task, and the state of the task in hand fits where its thread is. It is
  inductive exactly because `~EarlyWake` keeps a task that is in someone's hand from
  being queued; the run `sched_early_wake` is the counterexample without it.
- *Draining.* `active` drops before a READY coroutine is queued again, so "queue
  empty and nobody active" is no reason to leave by itself. The invariant `Someone` is: if
  the queue holds something, some thread of the loop is not `Committed` to leave. It needs
  `Tracked` (a READY task is queued or in hand, an EXECU task is on a thread), `Takeable` (no
  entry that `run()` ignores) and `Closing` (after the first idle coroutine
  has ended, no finished coroutine can be taken, so a thread with something in hand comes back to the queue).
- *Refinement of `TaskPool`.* `Place` is the status that the mapping gives a task, read off its state, the queue and the hands, and
  `Phase` that of the pool. One lemma for each action shows which arrow of `TaskPool` it is: `ScanTake` and the hand-over in `run()` are stutters
  because a task that leaves the queue is in a hand; `PostOther` is a stutter because, by `Owned`, the
  task whose HOLD it stores is parked already and nobody has queued it meanwhile; the pool closes with the last `exited` thread, and then `NoAbandonedWork` is the guard of `Close`.
- *IOManager.* `IOTypes` and `IOControl` are the scheduler's `TypeCore` and `Control` with the places of the overridden `idle()` and
  `stopping()`. The pending counter is the size of `waiting` plus the number of `Settlers`, threads between a trigger and the
  decrement that follows it; the idle counter the number of `Idlers`. `Watched`: as long as a timer is set and some thread is about to sleep, a tickle is in the
  pipe or under way, a caller of `addTimer()` has yet to send one, or some thread goes on in the loop (`Knows`) and has yet to read the timers or has read that there is one; it needs the exact idle counter, because
  `tickle()` writes nothing when it reads 0, and `IdleGoesOn`: an idle coroutine that is running has not ended. `Attended`: as long as somebody who is no orphan waits, there is a thread whose idle coroutine has
  not ended and that has not just read a pending count of 0 (`Attends`). Who registers on such a thread is attended by it, and no thread stops attending while anybody waits, because
  the exact counter is not 0 then.
- *Timers.* A collected or cancelled timer stays out of the set because `addTimer()` uses new objects only (`Used`: what has been in
  the set, a batch or `cancelled` has a period) and `reset()` looks for its timer in the set first (`Apart`). That nothing is
  collected early needs `NotAhead`: the reading of the clock that a poller collects with may be old, never ahead. For `NoOversleep` the invariant
  is `Covered`: when the first timer was put at the front, its caller still has to notify, a notification is on its way, or some poller
  will look again or, counted from the reading of the clock behind its timeout, does not sleep beyond it (`Ends`; `Delay` is the rest). A caller that finds `m_tickled` set leaves the tickle to another, and `Announced` says that it may: the
  notification was sent, or a caller that set `m_tickled` is still about to send it. That there is a first timer is the least-number principle (`FirstIsMinimum`).
- *FdEvents.* The interest of epoll and the contexts agree with the registrations (`Agree`), which `Counted` counts. An event that an array reports
  is registered, unless somebody has taken it out since (`Fresh`); a dispatch that fails its assertion is therefore a stale one, and every other way to fail is
  one of the two calls that `late` and `twice` remember.
- *Hook.* `Ownership`: a connection has one coroutine, which alone calls on it. `Waiting`: the registered coroutine is the parked one, and
  epoll loses a descriptor only with its connection. `Timers`: a timer, and a callback whose weak pointer still finds its condition, belong to the call under way.
- *TcpServer.* `Queues` and `Watched`: a coroutine is in one queue, once, and only when queued or woken, and the loop that epoll knows is the one that waits;
  so no coroutine is taken twice. `Rounds`: unless `start()` overlapped an earlier round, there is one loop, one closing task, the
  latter only once `stop()` was called, and a closed socket is one whose closing task is about to clear `m_socks` or has. `Cleared`: from the second `cancelAll()` on, a loop that is registered
  did so later, and then ran beside the closing task; `Crew`, the bound on the coroutines a manager runs at once, makes
  that a second thread.
- *Config.* `CopiesFollow` speaks of the moments between two calls. The invariant says what each copy is during a call: as long as no two
  calls have crossed and no listener waits for itself, one call at most is between comparing and storing, the listeners it has told hold its value, and
  when there is none all hold the stored one.
- *ByteArray.* `Fit` is `CursorExact` with the shape of the object. `Byte` reads the chain at an offset; as quotient and rest by the block size are unique,
  the walks of the code, from the cursor (`PassedBytes`, `StoredFacts`, `CursorWalks`) or from the root (`SetPositionFacts`, `RootWalk`, `FileWalk`), meet
  consecutive offsets. A write is then `Overwritten`, which does not speak of blocks, two of them in a row are one (`WriteTwice`), and the sequence
  of `ByteStore` is put together from three parts (`Overlay`).

  That what was written reads back (`ReadBack`) needs two things. The bytes of an item that `written` remembers stand where they were put: `Stands`,
  which the operations keep because a write goes through `Overwritten` and everything else leaves `Byte` alone. And decoding undoes
  encoding: the digits of a number, in any base and both orders, add up to it (`NumberOfDigits`), the groups of a varint end where the writer
  stopped (`VarintGroups`, `VarintEnds`), and `Unzigzag` inverts `Zigzag` (`ZigzagReadsBack`). This is induction over numbers; since the
  library's induction theorem takes an operator, `Induction` is stated for sets of numbers and `Recursion` gives a function that is
  defined from its predecessor its equations. The numbers are as wide as `IntBytes` and `Group` say, so this covers the widths of the code.
- *HttpSession.* `Orderly` says where the bytes are of the request that is being received. As long as no read has ended inside a token and the
  client waits for its answers, those on the wire belong to one request (`UnderWay`), which is in the parser (`InHead`), in the body
  (`InBody`) or about to be handed over (`InHand`). What a read of the head takes beyond the head is then at most the body, and the subtraction
  does not wrap (`NoWrap`). A body that was cut short is the last thing on its connection (`LastOne`).
  Proving this showed that `OverrunHasCause` needs the excuse `cut` besides `ahead`.

Model-checked only: liveness (`EveryTaskServed`, `StopReturns`, `IOStopReturns`, `WaiterRuns` and the like), which TLAPS does not reach; that the two HTTP parsers
compute what is meant for whole messages (`ParserAssumption` for requests, `ResponseUnderstood` for responses), which is evaluating
automata of some hundred states over given bytes.

## 6. Not modelled

- `delEvent()`: nothing in the repository calls it. Contexts cut off by a shrinking resize: excluded by
  `FdEventsAssumption`, because they take two descriptors and two clients at once, which with both events and two pollers is beyond TLC here. Descriptors closed without `cancelAll()`, failing `epoll_ctl` (an `addEvent()` that
  fails changes nothing).
- Stack allocation and reuse of coroutines, `call()`/`back()` outside `stop()`, an idle coroutine that throws.
- `detectClockRollover()`: whatever it answers, the timers due are those up to now; callbacks of condition timers.
- `connect_with_timeout()`, `sleep()`, `fcntl()`, `setsockopt()` and user-nonblocking descriptors; `FdCtx::m_isClosed`, which nothing ever sets.
- `Socket::connect()`, `reconnect()`, options; `TcpServer::bind()` and its destructor: one thread, before and after everything else.
- `ServDispatch`: which servlet is chosen is a lookup in maps; `HttpSession` takes any outcome. Cookies and parameters of `HttpRequest`. Chunked responses, which
  nothing here sends: the automaton reads them, `HttpResponse!ClientAct` reads their sizes in decimal.
- `ByteArray`: floats (a copied integer), `readFromFile()` (a series of `write()`), the hexadecimal dump, the `const` read at a position
  and `getWriteBuffers()` beyond what `SocketStream::read()` needs of it.
- `Config`: conversions from and to YAML, the table of variables behind one lock, `addCallBackFunc()` (before `main()`).
- Log, Address, Thread, Lock and the rest of Util: formatting, parsing without state, or thin wrappers.

## 7. Plan

Every safety invariant that a run checks is proved. Left to prove: that the automaton understands every request of its grammar, which would
turn `ParserAssumption` into a theorem. Modelling that is left: `connect_with_timeout()` in `Hook`, and descriptors that are
closed under `FdEvents`.
