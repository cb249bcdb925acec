# TextUS, modelled in TLA+

TextUS is a C++ framework in which a server is put together from modules: an
XML file says which shared libraries to load and how to nest them, and the
modules talk through one message type, `Amor::Pius` (an order `ordo`, a sub-order
`subor` and an argument `indic`). A message goes down the tree with `facio`
(towards the leaves, "right") and up with `sponte` ("left"). A message is a
function call that returns when whatever it set off is done. Under `Sched`
everything runs in one thread; `TPoll`, except on Windows, gives what events ask
for to the threads of its `<tasks>`. The root of a network server is a scheduler, `Sched` (select) or
`TPoll` (epoll, kqueue, ports, IOCP), whose `run` never returns and from which
every call into the tree starts: a readiness event, a timer, a deferred call.

So the hard behaviour here is seldom threads. It is re-entrance: a scheduler walks
one of its tables, or a node walks its children, calls somebody, and the callee,
or anybody the call spreads to, changes that same table before the walk goes on;
and it is protocol: a client has several pieces of state (a socket, entries in
two pools, a timer, a flag that a send was incomplete) that each handler must
change together, and objects that go from one session to the next. `TPoll` adds
the rest: two kinds of lock, wake-ups, and jobs that are run when what they were
made for is over.

## Inventory

| component | state | operations | hard behaviour | properties that make it correct |
|---|---|---|---|---|
| `Sched` pools (`Tor_Pool`) | slots, stack of vacated slots, fd_set, per-client index | `FD_SET*`, `FD_CLR*`, select, `isset` | sets and clears inside the walk; descriptor numbers reused; the table full; select fails | slots and indices agree; the bits are those of the clients; no slot leaks; a ready client is called, an unwatched one never |
| `Sched` deferred calls | array of `Pendor`, `pendor_top` | `CMD_PUT_PENDOR`, `run_pendors` | a deferred call defers another | no call lost or doubled; a turn ends |
| `Sched` timers | table of `Timer_info`, ended by a null | `DMD_SET_TIMER`, `DMD_SET_ALARM`, `DMD_CLR_TIMER`, `sort` | TIMER calls that shift and extend the table | entry and handle agree; alarms go off once; nobody starves |
| `Nostra` | objects with status and reference counts, a ring of nodes that hold idle objects and a stack of nodes that hold none | `CMD_ALLOC_IDLE`, `CMD_FREE_IDLE`, `CMD_INCR_REFS`, `CMD_DECR_REFS` | growth up to a limit; objects back in another order; threads that still work for an object given back | an object has one borrower, none is lost, none is lent while referred to |
| `Tcpcli`, `Tcpcliuna` | socket, `isConnecting`, `wr_blocked`, `attempt`, criptor | sessions, release, pause, send, readiness, timer | refused connects, retries, incomplete sends, numbers reused | contract with the scheduler; no silent close; retries go on |
| `Tcpsrv`, `Tcpsrvuna` | listeners, sessions, one criptor per object, alarm | accept, session begin and end, send, release, services | an object is listener or session, one loan after the other; no object left for a connection | what is watched is open; each descriptor has one keeper; no session ends silently |
| `Animus`, `Aptus`, `Relay` | the tree; who asked for a stop; reference counts of shared nodes | routing right and left, stop and continue, clone, destroy | re-entrant walks over the same children; requests that pass through several nodes | a stop is obeyed, and by the walk it is for |
| `TPoll` threads | stack of job entries, a list and a wake-up counter per thread | `schedule`, `get_job`, `put_job`, `cocurrent_sub` | wake-ups that race the look at the list; entries that pass between locks; the pool used up | no wake-up lost; each call made once, as given |
| `TPoll` registrations, with `Tcpsrvuna`'s `*_EPOLL` | registration and events of a descriptor, jobs listed | `SET_EPOLL`, `CLR_EPOLL`, epoll_pwait, `RD_EPOLL`, `WR_EPOLL`, `ACCEPT_EPOLL` | one-shot events; jobs and alarms that outlive their session; incomplete sends | reading is armed again; what is unsent is awaited; no session ends by another's job, unless its alarm came too late to be taken back |
| `TPoll`, the rest | timers on timerfd, deferred calls, kqueue, ports, IOCP, AIO | as `Sched`, plus asynchronous I/O | | as `Sched` |
| `Pipe`, `Seque` | queue of requests and of the data that belongs to them | begin, end and cancel a transaction; session ends | an answer for a cancelled request; end of session with work queued | one answer per request, in order |
| `TBufChan` | `house`, `right_snd`, `alive`, `demanding`, an alarm | data both ways, session begins and ends, timeout | data before the session is up; an end inside a start; a timeout racing an answer | data in order and once at most; `alive` follows the channel; nothing waits unheard of |
| `Ponder`, `PacTran`, `TranWay`, `PacWay` | a transaction's current step, `holding_back` | run, answer, re-run | answers while the next run is deferred | a transaction ends, once |
| `Ramify`, `Trend`, `Locker`, `Keep`, ... | a rule, a lock, a stored message | reactions to one message | when they send stops and continuations | those of the tree |
| drivers, ports, protocols (`ttyop`, `tor531`, `oracli`, `jvmport`, `httpsrvhead`, `sslsrv`, ...) | | thin layers over a device, a database, a language runtime, a text protocol | | not modelled |

How they interact: all clients of a scheduler hold a pointer to it (`gCFG->sch`)
and call its `sponte`; the scheduler holds their `Criptor`, `Amor*` or `Pendor`
and calls their `facio`. A server's listener borrows a session object from
`Nostra` by a message to the left and gives it back when the session ends; the
object comes with a branch of the tree cloned for it. There is no other shared
state between components than the buffers (`TBuffer`) that a message `SET_TBUF`
hands over once, and, under `TPoll`, the job pool and the threads' lists.

## Modules

| module | models | kind |
|---|---|---|
| `TorPool` | `Sched::Tor_Pool` (`sched/Sched.cpp:66-88,366-402`) as operators on a record | operators, used by `SelectLoop` |
| `SelectLoop` | one pool under `Sched::run`: handlers, select, `isset` | state machine |
| `WatchSet` | what `TorPool` is to those who only set and clear: a set of criptors and their bits | operators, used by `TcpClient` and `TcpServer` |
| `DeferredCalls` | what deferring a call promises | abstract specification |
| `SchedPendor` | the array and `run_pendors`, implements `DeferredCalls` | state machine |
| `SchedTimer` | the timer table and `sort` | state machine |
| `ObjectPool` | what a pool of lent objects promises | abstract specification |
| `NostraPool` | `Nostra`'s nodes, ring, stack and counts, implements `ObjectPool` | state machine |
| `TcpClient` | `Tcpcli` and `Tcpcliuna` composed with the loop of `Sched` and two of its pools (`WatchSet`) | state machine |
| `TcpServer` | `Tcpsrv` and `Tcpsrvuna` composed with the scheduler's pools (`WatchSet`) and with Nostra's queue | state machine |
| `ModuleTree` | messages through the tree: `Animus` and `Relay` | state machine |
| `JobBag` | what giving a call to a thread promises | abstract specification |
| `TaskThreads` | `schedule`, the job pool and the threads of `TPoll` (`tpoll/TPoll.cpp:296-558`), implements `JobBag` | state machine |
| `EpollServer` | a session of `Tcpsrvuna` under `TPoll`: the kernel's registration, the loop, one thread, the users | state machine |
| `LossyQueue` | a queue that may lose what is oldest or newest, but not reorder | abstract specification |
| `TBufChan` | `TBufChan` between a sender and a channel such as `Tcpcliuna` | state machine |
| `SelectLoopProofs`, `TcpClientProofs`, `TcpServerProofs`, `TaskThreadsProofs`, `EpollServerProofs`, `TBufChanProofs` | lemmas and theorems on one component each | proofs |
| `SchedProofs`, `AnimusProofs` | the same on `SchedPendor` and `SchedTimer`, on `ModuleTree` and `NostraPool` | proofs |
| `MC*` | constants for TLC | |

`SchedTimer` and `ModuleTree` name their specifications `TimerSpec` and `TreeSpec`
(and so on), since a module of proofs extends each of them together with another
component; the pairs share no variable and no constant.

### Correspondence

* A call from a walk is two steps. The scheduler's walk stops at the call
  (`callee` set), whatever handlers run inside it are actions enabled there,
  and a `Return` action resumes the walk with the local variables it had:
  `pset`, `nready` and `i` of `isset`, `i` of `run_pendors` and `sort`. That
  keeps every interleaving the code has, and no other: two handlers never
  overlap. `ModuleTree` keeps the whole call stack, for there the walks nest.
* The timer and pendor tables are as in the code (an array for the pendors, a
  sequence that ends where the code's first null pupa is for the timers; growth
  by doubling is left out, it changes no entry).
* In `SelectLoop` the clients are any that keep the contract of
  `Describo.h:27-30`; in `TcpClient` and `TcpServer` the client is the real one,
  and whether it keeps the contract is a property (`ContractKept`,
  `WatchedIsOpen`).
* In `TcpClient` and `TcpServer` actions have the names of the orders they
  handle. The kernel (who connects, refuses or closes, what select, accept, recv
  and send return) is the environment. Data is abstracted to whether something
  is left to send. `TcpServer` has no walk: `SelectLoop` shows who may be called
  and when, and that is what its readiness handlers assume. Both have their pools
  as `WatchSet`s, which a pool is while it is not full (`KeepsWatchSet`).
* In `NostraPool` the ring is the sequence of its nodes, the next to go first,
  and `filius` the sequence of those on the stack; a node is an index, as in the
  code, and growth is by `growth_rate` up to `maxium`.
* In `ModuleTree` an owner, with its extensions, is anything that makes calls:
  `Facio`, `Sponte`, the three orders of `Relay`, in any order and number. The
  order of a message is left out, its `subor` is kept, since it chooses children.
  A continuation without arguments (`indic` 0, `Relay.cpp:153`), which only passes
  on, is left out.
* In `TaskThreads` a step is what a thread does under one lock or between two.
  `many` is read by `schedule` without the threads' locks (497-502), one thread
  at a time, and the model reads it so. The eventfd is a counter. The entries are
  a set: the stack's order makes no difference. When `get_job` frees entries that
  are in use the model stops (`pc = "lost"`), since what follows is undefined.
* In `EpollServer` the kernel is one descriptor's registration (none, level,
  one-shot, disarmed, with or without `EPOLLOUT`); an event is taken from it when
  epoll_pwait is called, and becomes a job, and later a handler's run. Handlers
  are cut at every call into the kernel, so that the peer acts in between. A job of
  another object brings users into the session (`OtherJob`); it does not count
  among the listed. The alarm of `CMD_TIMER_TO_RELEASE` is one variable: armed,
  taken back by the loop (`TPoll.cpp:1594-1623`), and from then on a `TIMER` in the
  list. The loop runs beside the thread, so that an end may find the alarm taken
  and the handle not yet forgotten: it calls a null `pupa` (1223), the process
  crashes (`Crashed`), or clears the alarm of whoever has the `Timor` by then.
  Both are possible steps.
  `concurrent_num` is 1: with more threads two jobs of one session may run at the
  same time in one object that has no lock, and no property of the session would
  be left to state.
* In `TBufChan` data is a sequence of pieces, as many as one message brings; what
  the channel takes from `right_snd` is one piece. `frames` counts the calls of
  `START_SESSION` that have not returned, the only place where what happens
  inside a call differs from what happens after it.
* Variables marked "history" exist for the properties and guard nothing. Some of
  them say what happened that a property is not claimed to stand:
  `nested` (`SchedPendor`: the call was put by a deferred call), `meddled`
  (`SchedTimer`: the call of a
  one-shot alarm has changed the table), `mishaps` (`TcpClient`, of
  `ContractKeptUntilMishap` and `EndedStaysEnded`: a connect failed at once or
  after a while, or a start came to an open session), `inherited` (`TcpServer`:
  the object came with `wr_blocked` set), `left` (`TcpServer`: a release has left
  the alarm of the object; `ModuleTree`: an inner walk of the node has left a
  request unread), `due` (`EpollServer`: an alarm that is about was set since a
  session last ended, or that end came too late to take it back),
  `crossed` and `disarmed` (`TBufChan`: something came while the house was being
  sent; the left has cleared the alarm of a demand). `told` of `TBufChan` is a
  guard of the environment: while `START_SESSION` calls the channel, the left is
  only running if the channel has told it something.
  The code handles the case all the same, and the model goes on; only the claim
  stops. The one exception is `strayed` of `TcpServer`: when an alarm that a release
  has left ends an object that has no session, but a stale `connfd`
  (`Tcpsrv.cpp:352`), which closes another's connection and gives the object back
  twice, the model stops there (`GivenUp`).

## Runs

Passing runs check what the code does right; a run that expects a violation
checks one statement of a comment or header against the code, which
contradicts it (see `findings` in `PROJECT.json`). Type invariants, all of them
proved for every value of the constants, are left out of the runs, but for
`TreeTypeOK`, which also says where each walk is.

| run | question | bounds | why they are enough |
|---|---|---|---|
| `select_loop` | is the fd_set right under re-entrance, and are the ready called and nobody else? | 3 clients, 2 slots, 3 numbers, at most 1 ready bit elsewhere | the pool fills up, a middle slot is vacated, a number changes hands within one walk |
| `pendor` | is a deferred call kept and made, when calls put others? | 2 calls, 3 slots | a slot below, at and above the one being run; a full array |
| `timer` | all kinds of timer, and calls that do anything to the table | 3 clients, intervals 1 and 2, ages up to 2 (`MaxAge`: older than every interval is as old as the longest) | the entry called, one before, one behind; two alarms at different times |
| `nostra` | is every node accounted for, and the pool an `ObjectPool`? | 3 objects, 1 at the start, growth by 2, 2 references each | a growth cut off by the limit, returns in every order, all referred to at once |
| `tcp_client` | the client with a server that accepts, refuses and closes, and users that do anything | 1 client, 1 bystander, 2 free numbers | a new socket has the number of the last one, or another |
| `tcp_contract` | is a criptor left alone while it is watched? | same | violated |
| `tcp_server` | sessions and listeners on borrowed objects | root, 2 objects, 3 numbers; not followed after a stray alarm (`Followed`) | numbers and objects are used again at once; both run out |
| `tree` | do stops reach the walk they are for? | 6 nodes in 3 levels, 2 subors; no owner calls above 7 frames | a walk within a walk of the same node; a stop that passes two Relays; a parent without one; a request left by a walk that ended with a switch, found by the outer walk |
| `tasks` | are calls made, once, and by a thread that wakes? | 2 threads, 3 entries, 2 calls | a thread busy while the other sleeps; two jobs in a list; the pool used up |
| `epoll` | is a session heard and its data sent under one-shot events, and ended only for a cause? | 1 object, 2 jobs listed and 2 in a batch, 1 alarm about | a job or a `TIMER` of the last session behind the ACCEPT of the next; two jobs of one level-triggered arrival; RD and WR of one session |
| `channel` | do buffers, `alive` and the alarm agree, whatever comes when? | 2 pieces of data, 2 times into the house, 2 unsent, 2 calls within one another; all configurations | the house fills up; a start within a start; end, timeout and retry in every order |
| `channel_alive` | does `alive` mean that the channel is open? | same | violated |

What they show, in short:

* `Sched`'s pool stands everything its clients do inside a walk. The deferred
  calls keep every call, but one put by a deferred call may stay beyond
  `pendor_top` for ever. Timers agree with their handles and nobody starves, but
  `sort` marks whichever entry is at its index after the call.
* `Nostra` implements a fair loan: the object that has been idle longest, none
  twice, none while threads refer to it, a refusal only when all are out.
* The client keeps the scheduler's contract until a connect fails, and from then
  on need not; retries go on all the same, and its users hear of every close of a
  connection but the two they cause. The server never lets a descriptor go
  without an owner and never leaves an unopened number watched, until an alarm that
  a release left meets an idle object; every other end takes its alarm along.
* A stop is forgotten when the node's owner sends its children something else
  before the child that asked has returned; and if that inner walk is asked to stop
  as well and ends by a switch, the outer walk stops in its place. Nothing else
  cuts a walk short.
* `TPoll`'s wake-ups and its two locks are right: `many == 0 && isWaiting` is read
  where it cannot be stale, and no notification is left over. What is wrong is
  the growth of the pool.
* A session under `TPoll` keeps itself registered through `RD_EPOLL`, whatever
  old jobs come; it is `WR_EPOLL` that leaves it deaf. Old `RD` and `WR` do not end
  it; an old `TIMER` does, if it had gone off when the last session ended.
* `TBufChan` keeps the order of its data and the meaning of `alive` and of the
  alarm, but for what comes while the house is being sent.

Disagreements met while modelling. The properties above are stated so that they
exclude them; where a definition is named here that no `.cfg` lists, adding it
to the component's `.cfg` shows the counterexample.

* `SchedPendor!EveryCallIsMade`: `run_pendors` sets `pendor_top` to `i-1` after a
  call that may have put another one above (`Sched.cpp:454`), which is then not
  made until some later put raises `pendor_top`; `PacTran.cpp:293` counts on it.
  `TPoll.cpp:1417-1440` has the same code.
* `SchedTimer!DoneMeansFired`: after a one-shot alarm's call `sort` marks entry
  `i`, which may be another's after a `DMD_CLR_TIMER` (`Sched.cpp:585`, against
  99-100): that timer is silent from then on, and an alarm whose call clears an
  entry before its own goes off again (`OneShotOnce` holds unless `meddled`).
* `TcpClient!WriteWatchEnds`: `FD_PROWR` hands the result to `transmit_ep_err`
  also under select (`Tcpcliuna.cpp:363`), so the socket stays in the write pool
  when the rest was sent, against `Tcpcli.cpp:594` and `Tcpcli.h:55`.
* `ModuleTree!StopIsObeyed`: `Animus::aptus` is one field that each walk resets
  (`Animus.cpp:824`, against `Relay.cpp:135,138`). A walk that ends by calling the
  child its message is for (828-832) does not look at the field: if the request
  was for it, and it was a walk inside another of the same node, the other one
  finds it and ends. `CutShortOnlyIfAsked` without `left` shows it.
* After a refused connect that leaves a stale bit, select fails, empties the
  fd_sets, and `FD_SET` skips criptors it believes are set: the client is deaf
  (`Sched.cpp:368,547-549`). A connect that fails at once is never retried
  (`Tcpcliuna.cpp:70,698`); a start on an open session closes it silently
  (`Tcpcli.cpp:186,318-323`); `wr_blocked` outlives the client's connection
  (`Tcpcli.h:57`), so that the next incomplete send is not followed up.
* The same happens to the server's objects (`Tcpsrv.cpp:569`,
  `Tcpsrvuna.cpp:882`): the session that inherits the flag is not watched.
  `end_release` leaves the alarm on (`Tcpsrvuna.cpp:1007`): it closes the next
  session of the object, whoever that is (`AlarmIsOwn` without `left`). No module
  under `src/` sends both orders, but nothing keeps one from it. An object that was
  a listener keeps a stale `connfd` against `Tcpsrv.h:43`, and if such an alarm
  finds it idle, it closes the descriptor of that number and gives the object back
  twice.
* A message that comes with a subor skips every child that has one, also its own
  (`Animus.cpp:826`); the search of `DMD_CONTINUE_SELF` stops at the first child,
  whichever was meant ("for SELF it is this boy", `Relay.cpp:170`); a continuation sent from inside a walk makes the next child
  hear twice.
* `TaskThreads!JobsOutliveGrowth`: `get_job`'s "not enough room, enlarge it"
  (`TPoll.cpp:345`) deletes the entries in use. `jobs_top` is read before anything
  sets it (549, 1395), `jobs_init` fills `infor_size` entries (the number of
  timers) of arrays of `jobs_size` (552), and without a `<tasks>` element
  `schedule` reads `con_tasks[0]` of an empty array (745).
* `EpollServer!Heard`: a `WR_EPOLL` that sends all leaves the one-shot registration
  disarmed (`Tcpsrvuna.cpp:343-351`); "cleared when POLLIN is set the next time"
  (815) takes for granted that it is. `EpollServer!ResumeArms`: the resume
  after a pause modifies a registration that the pause removed, which fails
  (554-572, against `Notitia.h:108`). On an end with data read before, the users
  have `PRO_TBUF` after `END_SESSION` (314-340).
* Alarms under `TPoll`: a `TIMER` that was listed when its session ended ends the
  next session of the object (`TPoll.cpp:1628`, `Tcpsrvuna.cpp:431-434`);
  `EndsForCause` without `due` shows it, as it does the alarm left by
  `end_release`. The loop puts a `Timor` back (1597-1623) without `spo_spin_lock`
  and before the object has forgotten its handle, so that an end may call a null
  `pupa` (1223). A second `CMD_TIMER_TO_RELEASE` loses the handle of the first
  alarm, which no end can take back then (the model has one alarm at a time).
* In `TPoll` itself: `sponte` returns from an unknown order with `spo_spin_lock`
  held (1318-1322); a call deferred while nothing happens waits for epoll_pwait to
  return (1499-1524); the growth of the timers reads what it has freed (274-275);
  timers go back to their stack outside the lock (1623).
* `TBufChan!DemandEnds`: a second `DMD_START_SESSION` or a `DMD_END_SESSION` from
  the left clears the timer of a demand that stays (`TBufChan.cpp:205,289`), so
  that no timeout is ever reported (`Notitia.h:106`). The left's
  `DMD_END_SESSION` empties the house and not its count (290), so later data is
  dropped early; `max_buffer_times` 0 bounds nothing; what was reported as timed
  out stays in the house and goes out when the channel comes after all; in `once`
  mode the next demand closes the channel and does not connect again, against 375;
  for `UNIPAC` what came from the right is never taken out of `right_rcv` (346).

Definitions that hold and are in no run: the type invariants and the further
properties named under Proofs.

### Fairness

* `SelectLoop`, `SchedPendor`, `SchedTimer`: the steps of the walk are one
  function and its callees return to it; `SchedPendor` and `TcpClient` also let
  the loop come round, because select waits at most `timer` milliseconds
  (`Sched.cpp:478-496`). Clients are never assumed to act.
* `SchedTimer`: clicks go on. A turn that finds nothing ready clicks
  (`Sched.cpp:517-519`), and a busy process does when `busy` runs over
  (512-516).
* `NostraPool`: `CMD_DECR_REFS`, one per thread that took a reference: threads
  end. `ALLOC` and `FREE` are not fair.
* `TcpClient`: strong fairness of `TIMER`, since other handlers may set the
  alarm anew but each click calls it; a connect ends (the kernel's timeout).
* `TcpServer`: `FD_PRORD` of a session whose peer has gone, which is what
  `ReadyIsServed` of `SelectLoop` shows for any criptor that stays ready.
* `TaskThreads`: the threads run and a call that `facio` was given returns. A
  thread that keeps asking for `jobs_pool_spin` gets it at last (strong fairness
  of `PutJob`): the loop lets it go each time.
* `EpollServer`: the loop and the thread run. Strong fairness of `TakeJob` (the
  thread's list is first in, first out, so that other objects' jobs delay this
  one's and no more), of `RecvShort` (at times the peer sends less than a frame,
  without which `RD_EPOLL` reads for ever) and of `Return` (the users do not call
  for ever).
* `TBufChan`: calls return and, if the alarm is on, a click goes off at last; the
  channel and the left need not do anything.
* `ModuleTree` has none, and no liveness property: nothing stops two modules from
  calling each other for ever.

## Proofs

All for every value of the constants, from the assumptions named in the modules.
With them every property of the passing runs that is not a liveness property is a
theorem.

* `SelectLoopProofs`: `TypeOK`, the consistency of the pool, `WatchExact`,
  `RefusedOnlyWhenFull`, `CallsAreDue` and `ReadyIsServed`, for every set of clients and
  descriptors and every `TOR_SIZE`. Its lemmas show that each operator of `TorPool` maps
  a consistent pool (`PoolOK`) to a consistent pool, and what it does to the
  watched set and the bits (`SetupEffect`, `ClearEffect`). `IInv` adds to `PoolOK`
  and `WatchExact` that two open criptors have different numbers (without which
  clearing one could drop the other's bit) and that the ready criptors are those
  the stored fd_set names unless touched. That a refusal means a full table is a
  counting argument: with the house empty and `cur = TOR_SIZE` slots and watched
  criptors are in bijection.
* `SelectLoopProofs!TheReadyAreServed` rests on `WalkInv`, of a walk under way:
  the ready that were left alone keep slot and number (`ReadyStay`); those not yet
  called are at or behind the counter `i`, those called before it
  (`FrontDivides`); and `nready` is at least the number of the ready not yet
  called (`CountSuffices`), as long as no touched criptor took a turn. The last
  is what makes the early exit at `nready = 0` harmless. It starts out true
  because ready criptors and bits of the fd_set are in bijection, and a call takes
  one from both sides because, by `FrontDivides`, nobody is called twice.
* `SelectLoopProofs!KeepsWatchSet`: for who sets and clears, a consistent `TorPool`
  is a `WatchSet`. This carries the pools of `TcpClient` and `TcpServer`, which
  have no limit on them, over to the code's array, as long as it is not full.
* `TcpClientProofs`: `TypeOK`, `ContractKeptUntilMishap`, `NoSilentClose`,
  `EndedStaysEnded`, and the safety half of `RetriesGoOn` (`RetryIsSet`: from a
  failed connect to its retry the alarm is set), for any descriptor numbers, with
  and without retries. `IInv` has three parts besides the types: the kernel has a
  socket exactly while `connfd` names one; until a connect fails, whatever is in
  a pool is that socket (`Tied`); until a start comes to an open socket, an ended
  session has neither socket nor alarm, an open one no retry to come, and one that
  was broken off while connecting nothing in the pools (`AtRest`). The last is
  needed because `isConnecting` stays set when `end` closes the socket
  (`Tcpcli.cpp:390-409`): only the empty pools keep `establish_done` from being
  called for it. A second invariant on top of it, `Exact`, says which bits the
  fd_sets have: until a connect fails, those of the open sockets that are watched.
  So select does not fail on this client's account (`SelectSucceeds`), and one that
  is connecting is called when its socket becomes writable (`ConnectIsWatched`, the
  safety half of `AcceptedIsNoticed`).
* `SchedProofs`, of `SchedPendor`: `TypeOK`, the refinement of `DeferredCalls`, that a turn
  makes every call it found (`TurnServesAll`), that `pendor_top` covers every call
  put from outside (`TopCoversHeld`), and that `run_pendors` meets no hole
  (`NoHoles`). `IInv` relates the counter, `pendor_top` and the call that runs;
  `NoHoles` rests on the slots below the counter being dense.
* `SchedProofs`, of `SchedTimer`: `TimerTypeOK`, `HandleAgrees` and `OneShotOnce`,
  for any clients and intervals and a table of any length. `TimerInv` has that
  entries and handles are in bijection (`Agree`; removal shifts a sequence, so the
  lemmas say where each entry goes), and, unless `meddled`, that an entry's status
  is what its client asked for last, and that an alarm that has gone off is marked
  but for the one at the counter, whose call is out. That a call which adds a
  timer is harmless is part of the proof: entries are added behind the counter.
  The same invariant gives, unless `meddled`, that only alarms that have gone off
  are silent (`DoneMeansFired`) and that what was asked for is in the table
  (`NoneIsLost`, the safety half of `NoTimerStarves` and `OneShotFires`).
* `AnimusProofs`, of `ModuleTree`: `TreeTypeOK`, `StopIsObeyedUnlessWalkedAgain`
  and `CutShortOnlyIfAsked`, for every tree, every choice of Relays and calls to
  any depth. `TreeInv` ties the flag `aptus` of a node to the frames on the stack:
  if it is set, the innermost walk of the node was asked to stop, or has been left
  the request of a walk inside it; a walk that was asked, and whose node has not
  walked again since, is innermost and has its flag set. Neither half is inductive without the other, nor without `Calling`, by
  which the frame above a walk is the child it calls: a walk that ends leaves an
  outer one innermost, which must then find no flag, or one that is `left` to it.
* `AnimusProofs`, of `NostraPool`: `TypeOK` (so neither array is overrun), `NodesAccounted`,
  `RefusedOnlyWhenOut`, that a returned object finds a node (`RoomForEachLoan`),
  that no object is lent while referred to (`LentUnreferenced`), and the
  refinement of `ObjectPool`. `IInv` says that each node is once in the ring or
  on the stack, that the ring's objects are the idle ones, who may be referred
  to, and that the stack is as long as there are objects out. The last is the
  strengthening that matters: only by counting does a return find the stack not
  empty. Of `Reclaimed`, the safety half: while an object is set aside its
  references only become fewer, and the last puts it back (`ReclaimNears`).
* `TcpServerProofs`: `TypeOK`, `WatchedIsOpen`, `EachFileHasItsKeeper`,
  `EachObjectHasItsPlace`, `AlarmIsOwn`, `WatchedWhileBlocked` and `NoSilentEnd`,
  for any finite set of objects and any descriptors. The invariant `Matched` is by
  role: a listener with a descriptor is watched for input, a session (`ex.on`) has
  the connection its criptor names, nobody else is in a pool, those who hold
  descriptors hold different ones, and an object is in Nostra's queue, once, or in
  a role. It stands until a stray alarm (`strayed`), which only an alarm that a
  release has left can be: the first three properties claim no more. It is stated of values (`Roles`, `Files`, `Places`), because a lonely
  listener accepts and stops in one step: the lemma on stopping is applied to
  what accepting has made. None of the conjuncts is inductive alone: that a
  session's descriptor can be cleared from a pool without harm needs that no other
  has its number, which needs that an object given back holds none. It gives the
  safety half of `GoneIsNoticed` (`GoneIsEnded`): a session that is not paused is
  called when it is readable, and the call that finds the peer gone ends it.
* `TaskThreadsProofs`: `TypeOK`, `WokenWhenOwed`, `WokenFindsWork`,
  `JobsAccounted` and the refinement of `JobBag`, for any number of threads,
  entries and calls. The wake-up argument is an invariant on one thread at a time:
  `isWaiting` is true from the look at an empty list to the wake-up, and the
  counter and the pending notification are together one while the list is not
  empty. The refinement needs `Disjoint`: only because no entry is in two places
  is the call that is made the one that was given.
* `EpollServerProofs`: `TypeOK`, `EarsOpen`, `RestIsAwaited`, `EndsForCause`, for
  any number of listed jobs. `IInv` adds who disarmed the registration (`spent`),
  that what waits for room has `EPOLLOUT` in `pollor` once `transmitto` is
  left, so that any later `SET_EPOLL` takes it along, and that an alarm that is
  armed, taken, listed or at work is `due`.
* `TBufChanProofs`: `TypeOK`, `AlarmIsTheDemand`, `AliveIsTheChannel` and that
  every step but a crossing is one of `LossyQueue`, for any data and limits. The
  invariant `Settled` says what `frames`, `alive` and `right` can be together when
  nothing has crossed.

Model-checked only, because fairness and `ENABLED` are out of the prover's reach:
the liveness properties `OuterCallsAreMade`, `NoTimerStarves`, `OneShotFires`,
`Reclaimed`, `AcceptedIsNoticed`, `RetriesGoOn`, `GoneIsNoticed`, `JobsAreCalled`,
`HeardUnlessMuted` and `WaitingEnds`. And the two violations, which are
counterexamples on the small instances.

What each liveness property needs besides fairness, that what is owed stays owed
until it is done, is proved:

| liveness, by TLC | what is owed, by proof |
| --- | --- |
| `OuterCallsAreMade` | `TopCoversHeld`, `TurnServesAll` |
| `NoTimerStarves`, `OneShotFires` | `NoneIsLost` |
| `Reclaimed` | `ReclaimNears` |
| `AcceptedIsNoticed` | `SelectSucceeds`, `ConnectIsWatched` |
| `RetriesGoOn` | `RetryIsSet` |
| `GoneIsNoticed` | `GoneIsEnded` |
| `JobsAreCalled` | `WokenWhenOwed`, `JobsAccounted` |
| `HeardUnlessMuted` | `EarsOpen` |
| `WaitingEnds` | `AlarmIsTheDemand` |

## Plan

1. Done: scheduler and TCP client; `Nostra` and the TCP server; routing in the
   tree; `TPoll`'s threads and one-shot registrations; `TBufChan`; proofs of all
   their safety properties.
2. The client's own obligations towards `SelectLoop` as a refinement: `Exact` in
   the terms of `TorPool`.
3. `Seque` against a queue; the control of a transaction (`PacTran`, `Ponder`) on
   top of `DeferredCalls`, with `holding_back`; clone and destroy of branches
   (`Animus.cpp:534-700`) with the reference counts of shared nodes.
4. `Tcpcliuna` under `TPoll`, and two task threads in one session.

## Not modelled

Most of the repository's lines are not state machines: of 130000 lines that are
counted as implementation, most are headers of vendors (`dwave/NIDAQmx.h`,
`tor531/setupapi.h`, `oracli`), device drivers, adapters to databases and language
runtimes, and the parsing and formatting of packets and text protocols
(`unipac`, `pacway`, `tranway`, `httpsrvhead`, ...), which interpret configuration
one message at a time. What is modelled is what all of them run on: the
schedulers, the pool of objects, the channels and the tree.

Left out of the modelled components: of a failing select, the fd_sets of the other
two pools (`Sched.cpp:547-549`), which are emptied in the same way; of `Nostra`,
the check of who asks (`Nostra.cpp:259,272`), which only refuses, and clones that
fail (302-304); of `TcpServer`, what users do inside the `START_SESSION` of
`child_begin` (`Tcpsrvuna.cpp:762`), before `NEW_SESSION` and before a lonely
listener stops (799-801): the model lets them act right after; of the alarms of
`TPoll`, a `timerfd_create` that fails (`TPoll.cpp:1177`), and the descriptor that
is closed twice when an end and the loop take the same `Timor` back;
configuration and logging; the Windows, BSD
and Solaris variants; `maxfd`, which only grows; `CMD_MAIN_EXIT`; real time and
the rounding of `busy` (`Sched.cpp:512`); lifetimes of C++ objects (a `Pendor`
whose `Pius` is gone, `Sched.cpp:329`; a plain `refs` changed by threads,
`Nostra.cpp:226`). `Pipe` is left out because its session handlers fall through
into each other (`Pipe.cpp:510-548`) and use workers that may be null.
