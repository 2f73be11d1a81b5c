# SP2023 in TLA+

The repository holds four independent C programs, the homeworks of a course on
system programming.  This project models all four, model-checks the models with
TLC, and proves with TLAPS, for instances of any size, all the safety properties
that hold but one, the order of announcements in HW2; the three refinements are
among them.

| Program | What it is | Module | Checked on | Proved in |
|---|---|---|---|---|
| HW1 | bulletin board: servers, clients, record locks | `Board` (promise), `Bulletin` (code) | `MCBulletin` | `BulletinProofs`, `BoardProofs` |
| HW2 | tree of service processes | `Services` (promise), `ServiceTree` (code) | `MCServiceTree` | `ServiceTreeProofs`, `RouteProofs`, `EffectProofs` |
| HW3 | user-level threads with signals and longjmp | `UserThreads` | `MCUserThreads` | `UserThreadsProofs`, `ThreadFunctionProofs` |
| HW4 | pthread pool | `TaskPool` (promise), `ThreadPool` (code) | `MCThreadPool` | `ThreadPoolProofs` |

## Inventory

### HW4, the thread pool (`HW4/my_pool.c`)

*State:* the pool: `mlock`, condition variable `available`, list `queue_head`,
`queue_tail`, flag `finish`, the thread ids.
*Operations:* `tpool_init` starts `work()` in n threads; `tpool_add` links a
task in and broadcasts; `tpool_wait` sets `finish`, broadcasts, joins all
threads; `tpool_destroy` frees the pool.
*Interaction:* the client's thread and the workers share the pool.  Tasks run
outside the mutex.
*Hard:* `finish` is written without the mutex, so the notification can be missed
and the write can even become visible after the broadcast; `queue_tail` is never
reset and dangles when the list is empty; freed tasks' addresses come back from
`malloc`; condition variables wake up spuriously.
*Correct if:* tasks are accepted first in, first out and run once; the list is
never corrupted; `tpool_wait` returns, and only when all tasks have run.

### HW3, user-level threads (`HW3/threadtools.h`, `scheduler.c`, `threads.c`, `main.c`)

*State:* ready and waiting queue, `rq_current`, one tcb per thread (saved place
and loop variables), the bank (balance, lock owner), and the process's signal
mask, pending signals and alarm.
*Operations:* `thread_yield` opens two windows in which a signal may be
delivered; `sighandler()` jumps into `scheduler()` with 1, `lock()` on a taken
lock with 2, `thread_exit` with 3; the scheduler hands a free lock to the first
waiter, removes or queues the running thread, and jumps into the next one.
*Hard:* everything is jumps; `longjmp` here restores no signal mask; removal
swaps the last thread into the gap; the alarm is one-shot; ints overflow.
*Correct if:* no thread is lost, duplicated or resumed after it was freed; the
bank lock excludes; the scheduler is never interrupted; all threads end.

### HW1, the bulletin board (`HW1/server.c`, `client.c`, `hw1.h`)

*State:* the board file with its records; the kernel's lock table; in each
server the poll set, `locked[]` and `last`; in each client its dialogue.
*Operations:* a server starts by reading the board and writing it back, then
polls and serves `!post` (find a record, lock and grant it), `!finish` (write
the post, unlock), `!pull` (send all records that are not locked) and `!exit`.
*Interaction:* clients by messages, servers only through the file and its
`fcntl` locks, which never conflict within one process.
*Hard:* testing a lock means taking it; `find_available()` gives the lock back
before it is taken for good; start-up writes the whole file without a lock;
three views of who holds which record (`locked[]`, the kernel's, the clients').
*Correct if:* nobody is granted a record that somebody edits; no lock is left
behind; requests and answers stay in step; every request is answered.

### HW2, the service tree (`HW2/service.c`)

*State:* in each process its `secret`, `child[]`, and the route of an exchange
(`pipe_read`, `pipe_write`).
*Operations:* `spawn`, `kill` (with `suicide` through the subtree, counting) and
`exchange` (`traverse`, `finds` twice, then `start_exchange` along the route, two
FIFOs between the partners), and the end of the Manager's input.
*Interaction:* a pipe down to and a pipe up from each child.  A service passes a
command to one child, waits for its answer, and goes on to the next; only
`start_exchange` goes to two children at once.
*Hard:* the order in which the FIFOs are opened; routes to be reset everywhere,
and after the answer has gone out; answers left in a pipe; children removed from
the middle of the table; uninitialised parts of messages; processes that end.
*Correct if:* each command takes effect whole (secrets swapped, the killed count
the size of the subtree, the right line printed), every command is answered, no
message and no route is left over, and no process outlives the Manager.

### Not modelled, and why

`samplejudge.py`, test data, `sample_execution.sh` and the Makefiles test and
build the programs.  `init_server` only sets up the listening socket.  Output,
logging and the text of posts are left out, but for the Manager's lines in HW2.
Situations that the code has no handling for are outside the models:

* HW1: a client that dies without `!exit`, and a `read()` that returns part of a
  message.  What the server does then depends on what is left in a buffer.
* HW2: a `spawn` with a name in use; an `exchange` that names a service twice or
  one that does not run, on which `open()` blocks for ever; more children than
  the table's 40 entries.
* HW4: a client that calls the pool from several threads, or adds tasks after
  `tpool_wait`.  No program in the repository does.

## HW4: `TaskPool` and `ThreadPool`

`TaskPool` is the promise: tasks are numbered as they are added, accepted in that
order, executed once; `Return` only when nothing is left.

`ThreadPool` is the code.  `pc[w]` is the place of worker w in `work()`: `lock`,
`check` (the inner `while`), `wait`, `asleep`, `take`, `run`, `free`, `bcast`,
`bye`, `done`.  What a thread does under the mutex and nobody else can see is one
step, but the test of `finish` and the wait are separate, as `finish` is not
protected.  The heap is real: `next`, `arg` and `alloc` over addresses, and
`malloc` picks any address that is free, so a dangling `queue_tail` would show.
The client's thread (`mpc`) calls the pool as both programs under
`HW4/testcases` do.  `finish` is a plain `bool`, written without a lock: with
`DelayedStore` the processor may execute the load with which
`pthread_cond_broadcast` finds no sleeper before the store is visible
(`BroadcastFirst`, `FinishLate`); `pthread_join` makes it visible.  All other
shared data is protected by `mlock`.

| Run | Instance | Shows |
|---|---|---|
| `pool_shutdown` | 3 workers, 2 tasks, 1 spurious wakeup, stores in order | `TypeOK`, `NoStrandedSleeper`, `ShutsDown` |
| `pool_tasks` | 2 workers, 3 tasks, 3 addresses, 1 spurious wakeup, delayed store | `ListIntact`, `KeepsPromise` (implements `TaskPool`), `EveryTaskRuns` |
| `pool_one_worker` | 1 worker, 1 task, stores in order | **violated:** `ShutsDown` |

Three tasks make the list empty, of length one and longer, which are the three
branches of `tpool_add`, with address reuse; of three workers one can miss the
notification while two others leave.  `pool_tasks` does not check for deadlock:
with the delayed store the pool can really stop.

*Fairness:* weak fairness of the client's thread and of each worker, which is
what a kernel that runs every runnable thread gives; the mutex is not fair, and
spurious wakeups are never assumed.

*Finding:* `tpool_wait` sets `finish` and broadcasts without `mlock`.  A worker
that has tested `finish` and is about to wait misses both.  With one worker
`tpool_wait` then never returns.  With several, another worker that leaves
broadcasts again, which is why the tests pass; but if the broadcast overtakes the
store, all workers may go to sleep before `finish` is visible, however many there
are, and nobody is left to broadcast.  `pool_one_worker.cfg` with `N = 2` and
`DelayedStore = TRUE` shows it: after 23 states both workers are asleep and the
client waits in `pthread_join`.  That is why `pool_shutdown` and the theorem about
it assume stores in order.

## HW3: `UserThreads`

One kernel thread runs everything, so between two windows of `thread_yield` the
program is one step: a round of `fibonacci` or `factorial`, a step of
`bank_operation`, or a pass of `scheduler()`.  `environment[t]` says where a
thread resumes, `pc` and `val` what the processor executes, `mask`, `pending` and
`armed` are the kernel's.  A bank thread that finds the lock taken has saved no
place in `lock()`: it resumes from `thread_setup` and calls `lock()` again, which
by then it owns.  `AlarmExpires` and `Stop` happen at any time and as often as
they like.  Init is the state in which `start_threading()` calls `scheduler()`,
for every combination of the arguments in `FibArgs`, `FactArgs`, `BankArgs`;
ints wrap around at `IntMax`.

Taken from the build: it is compiled without optimisation, `setjmp`/`longjmp`
save no signal mask (glibc's default), `signal()` blocks the signal during its
handler, and jumping back into the frames of the thread functions works, as the
variables that matter live in the tcb.

| Run | Instance | Shows |
|---|---|---|
| `threads` | no, one and many rounds of `fibonacci` (18) and `factorial` (7), which overflow an 11-bit int; deposits, withdrawals covered or not, overflow of both, the most negative int | `TypeOK`, `SignalsBlocked`, `QueuesExact`, `OwnerCanRun`, `LockProtects`, `Solvent`, `TimerAlive`, `Results`, `AllFinish` |

Four threads are all that `init_threads` creates, so the bound is only on the
arguments.  *Fairness:* the process gets the processor (`WF(cpu)`); nothing is
assumed about signals.

`Solvent` promises a balance that is not negative only if what is added up and
negated fits into an int (`Fits`).  The second half came out of the proof: for
the most negative int `bank.balance >= -RUNNING->arg` (`threads.c:64`) negates to
the number itself and holds, so that such a withdrawal always passes the test.  The
program's arguments are small, and no doc or test speaks of such a one.

## HW1: `Board` and `Bulletin`

`Board` is the promise: a client is lent the first free record behind the one
lent last, and its post goes into the record that it was lent, in one step.

Each `fcntl`, `read` or `write` on the board file is a step, as another server
may run in between.  `owner` is the kernel's lock table: a process is never
refused a lock that it has itself.  `at[s]` is the place in the server's loop:
`read`, `write` (start-up), `poll`, `serve` (the next slot that `poll` reported),
`find`, `found`, `grant` (`!post`), `pull`, `pulled` (`!pull`), `finish`.
`cat[c]` is the client's.  `Up` names servers that have started before; the
others start while the board is in use.  Locals that go out of scope are reset.
A post is only told apart from none.

Assumed: messages arrive whole and in order, clients leave by `exit`, system
calls succeed.

| Run | Instance | Shows |
|---|---|---|
| `board_one` | 1 server, 4 clients, 3 slots, 2 records | `FindsNext`, `SlotsExact`, `BoardPromise` (implements `Board`) |
| `board_two` | 2 servers with 2 and 1 clients, 2 records | `TypeOK`, `GrantTable`, `NoLeakedLock`, `InStep` |
| `board_live` | 2 starting servers with 2 and 1 clients, 1 record | `Answered` |
| `board_double_grant` | 2 servers, 1 client each | **violated:** `NoDoubleGrant` |
| `board_start` | 1 serving and 1 starting server | **violated:** `StartKeepsBoard` |

Two records let a search pass over one and find the next; two servers are the
least that interfere, two clients on one of them the least that share its
`locked[]`.  With more clients than records the board gets full, with more
clients than slots the poll set does: `board_one` has both.  A client that comes
when there is no slot is accepted and never served (`Dropped`); `Answered` excepts
it, and `SlotsExact` says that no slot is lost, so that nobody else is turned
away.  Clients of one server are symmetric (not in `board_live`).  *Fairness:* servers run, clients read what they asked for;
users need not type anything.

*Findings:* (1) `find_available()` releases the lock it got and `main()` takes it
again without a look at the result: two servers can grant one record at once.
(2) A server's start-up writes back a board it read earlier: posts written in
between are lost.

`FindsNext` and `BoardPromise` are claimed for a single server: with two, the lock
that `!pull` takes to test a record makes the other server pass it over, and the
findings break the promise outright.  The refinement maps `holder` to the client
in whose dialogue the grant is, from `locked[]` being set until the post is
written; all other steps of the search, the locks and the messages stutter.

## HW2: `Services` and `ServiceTree`

`Services` is the promise: a tree of services, and `Spawn`, `Kill`, `Exchange`
as single steps that change it and yield the Manager's line (`report`), with the
number of services killed.  Apart from that promise, `InOrder` says who must have
announced the command that is printed, and in which order (`Visited`, depth first
up to the last service that the command names).

`ServiceTree` is the code.  `child`, `secret` and `route` are a service's global
variables (`route[s][0]` and `[1]` stand for the file descriptors to the child on
the way to each partner, `None` for -1); `pc`, `cmd`, `nth`, `ans` its place,
`receive_parent`, loop variable and `receive_child`.

| `pc` | Place in `service.c` |
|---|---|
| `dead`, `born`, `idle` | not running; before its first answer; in `read_and_split()` |
| `fork` | `spawns()` |
| `ask`, `hear` | the loop over the children: before `write()`, before `read()` |
| `tell`, `collect` | `start_exchange`: passing it on, reading the answers |
| `open1`, `open2`, `give`, `take` | `exchanges()`: at its two `open()`s, before its first `write()`, before its `read()` |
| `reset` | after the answer, before the routes are set back to -1 |

The loops over the children in the handlers of `spawn`, `kill`, `suicide()`,
`traverse()` and `finds()` are alike, and are one loop here: `FirstAns` is what a
service knows before it asks, `Passed` the message, `Heard` what it makes of the
answer, `Over` the test that ends the loop.  A message is an operation, two names
and a number; `traverse` and `find` are an `exchange` with and without the print
flag.  A step is one blocking `read`, `write` or `open`, with what the service
does to its own memory around it.  Two sequences are one step: the answer and the
`exit()` of `suicide()`, since the parent waits for the exit before it goes on;
and the read, write and assignment of the first partner, since nobody else reads
its secret.  A child's end of file is `Orphan`.  `suicide()` leaves the names in
its message uninitialised: they may be the receiver's name or not (`SuicideMessages`).  `heard`,
`report` and `saved` only record what was announced, the last line, and the state
of the tree when it was printed; `KeepsPromise` maps `saved` to the tree of
`Services`, so that an unfinished command does not show.  `AnnouncedInOrder` is
`InOrder` under the same mapping.

Assumed: names are unique among the running services, an exchange is between two
different running services, and writes to a pipe, being shorter than `PIPE_BUF`,
do not block (no pipe ever holds two messages: `TypeOK`).

| Run | Instance | Shows |
|---|---|---|
| `services` | the Manager and 3 services, 2 secrets | `TypeOK`, `OneAtATime`, `Quiet`, `RoutesLead`, `KeepsPromise` (implements `Services`), `AnnouncedInOrder`, no deadlock |
| `services_live` | the same, 1 secret | `Answered`, `AllEnd` |
| `services_kill` | the same | **violated:** `Announced` |

There is no bound on the commands: the trees are finite and names are used again.
With three services under the Manager a tree can be a chain, a fan, or have a
fork below the Manager, so an exchange meets partners on one path (either one
above), in two branches of the Manager or of a service, and the Manager itself as
a partner; a kill removes a first, middle or last child, or a subtree.  Secrets
are only copied, so two values tell a lost or doubled one apart.  Names other
than the Manager's, and secrets, are symmetric (not in `services_live`).
*Fairness:* each process runs when it can (weak fairness per process, and of the
Manager once it has a command); input is never assumed.

*Finding:* a service that ends with its parent compares its name with stack
contents that `suicide()` sent uninitialised, and may announce a command it never
got: after `exchange B C`, `kill A` on a service with the children B and C makes
B announce the exchange again.

## What is proved

For every value of the constants that `PoolAssumption`, `ThreadsAssumption`,
`BulletinAssumption` and `NameAssumption` admit (TLC evaluates them in every run;
they say that sets and numbers are what their names suggest and that `None` is no
name):

* `ThreadPoolProofs`.  `Inductive`: the conjunction `IInv` of the type invariant,
  `JobInv` (who has which job), `LockInv` (mutex and place), `ListIntact`,
  `TaskInv` (accepted = running or run) and `PhaseInv` (what the client's place
  implies).  `ListIntact` alone is not inductive: that `tpool_add` gets a fresh
  address needs `JobInv`, that nobody else changes the list needs `LockInv`.  From
  it `TypeCorrect`, `ListCorrect`, and `Refines`: every step is a step of
  `TaskPool` or leaves its variables alone.  `NobodyStranded` adds `SleepInv`: a
  worker past its test keeps the mutex until it sleeps, so at most one can miss
  the notification; it assumes `N >= 2` and `~DelayedStore`, and is false without
  either.
* `UserThreadsProofs`.  `Inductive`, and from it `TypeCorrect`,
  `NeverInterrupted`, `QueuesCorrect`, `NeverStale`, `Exclusion` and
  `TimerNeverLost`.  The invariant ties the saved places to the lock owner, and
  the value handed to `scheduler()` to the state it is called in; without that the
  removals and the hand-over of the lock cannot be justified.
* `ThreadFunctionProofs`, on top of it.  `FunctionsInvariant`: `BankInv` (the
  balance is what the committed operations add up to, and a committed thread is
  past its second step), `LoopInv` (a loop is short of its argument until its
  thread leaves, and has reached it when the thread is freed) and `ValueInv` (what
  `x` and `y` hold after round i).  From it `SolventCorrect` and `ResultsCorrect`.
  The latter needs two things besides: that wrapping around at every step gives
  the same as wrapping around once (`WrapSum`, `WrapProduct`, from the uniqueness
  of remainders), and what the recursive functions `Fib` and `Fact` are.  As an
  induction rule with an operator parameter cannot be used, `Induction` and
  `Recursion` are stated for sets and functions: the numbers for which a claim
  fails have no least element.
* `BulletinProofs`, for any number of servers, clients and records.
  `LocksAccounted`: no leaked lock.  `DialogueInvariant`:
  `Place` (where a server is says what its locals are), `Seats` (a connection is in
  the backlog or in one slot), for every place in a client's dialogue what can be
  under way in both directions and whether its server is at work for it, and
  `Grants` (`locked[]` is who holds what, stated without counting).  None of the
  four properties is inductive: that an answer fits the question needs that there
  is one question at a time, which needs that a slot is served once per question,
  which needs the slots to be exact.  From it `TypeCorrect`, `SlotsCorrect`,
  `InStepCorrect` and `GrantsCorrect`.
* `BoardProofs`, for one server (each theorem assumes `Server = {s}`; the two
  violated runs and the remark on `FindsNext` above say why).  It adds to the
  former that the kernel's locks are the granted records and the one under test
  (`Held`), that the search has passed over granted records only (`Search`), and
  that a starting server writes what it read (`Start`).  From it
  `FindsNextCorrect`; `StartHarmless`, `StartKeepsBoard` for a server that is
  alone; and `KeepsBoardPromise`, the refinement of `Board` step by step.
* `ServiceTreeProofs`, for any finite set of services and any commands.
  `ServiceInvariant`: the conjunction `SInv`.  Its core is `TreeInv` (one parent
  each, and no set of services has all its parents inside, which is how a tree is
  said without counting or recursion) and `LinkInv` (whoever has a message or is at
  work has a parent waiting for just that child).  Following the parents of two
  busy services upwards they would have to meet in one that waits for two children,
  which only a `start_exchange` does (`OneBusy`, `TokenInv`, `PhaseInv`).  That the
  tables stay a tree needs to know of the spawned name that it is new until
  `fork()` (`SpawnInv`) and of the killed ones how long they stay in the tables
  (`DeathInv`).  That nothing is left over after an exchange needs the routes:
  they lead to children and only a service about to reset them has old ones
  (`RouteInv`), `finds()` leaves no route that its parent does not know of
  (`FindInv`), and every service with a route is told of the exchange (`StartInv`).
  From it `TypeCorrect` (no pipe ever holds two messages), `OneAtATimeCorrect` and
  `QuietCorrect`.
* `RouteProofs`, on top of it.  `RouteInvariant`: the conjunction `RInv`.  What is
  below a service is the least set closed under children (`BelowLeast` to
  `BelowApart` say, without induction, what that means in a tree).  `EndInv` (a
  service that ends waits for its children's end) is what `ParentInv` needs:
  nobody running drops out of the tables, so everyone is below the Manager.
  During an exchange the tree stands still (`PartnerInv`).  Then `SearchInv`: a
  search that has succeeded at s has left a route in every service between s and
  the partner, one that has not has left no partner behind in the children it
  asked; so the Manager's search, which covers everyone, has succeeded and has
  left all routes.  `LeadInv`: a route leads to the child that the partner is
  below.  `WholeInv`: a service that has answered, and may have reset its routes,
  has been told by its parent, so nobody is told after that.  From it
  `RoutesLeadCorrect`.
* `EffectProofs`, on top of both: `ServiceTree` implements `Services`.
  `EffectInvariant`, the conjunction `EInv`, compares the tree with the one that
  the Manager's last line left.  `SavedInv`: that one was a tree of exactly the
  services that ran, all below the Manager; without it nobody could say whom a
  search over all children has covered.  `SpawnEffect`: nothing has changed, and
  the named parent is below none of the children asked so far, or the one child is
  there and the rest as before.  `KillEffect`: only services below the named one
  end, each after its children (`Ending`); until the parent of the named one has
  heard of its end, all tables are whole and every number is how many services
  have ended so far (`Before`), from then on the named one is in no table and the
  number goes up unchanged (`After`).  That the sums are sizes of sets needs that
  what is below two children of one service has nothing in common (`BelowApart`).
  `ExchangeEffect`: the FIFOs hold old secrets only, whoever has taken one is not
  told of the exchange again (`Trading`), and whoever answers, or has been heard,
  has no unfinished partner below it (`Gathered`); the last needs `LeadInv` and
  `WholeInv`, as a partner below a service is found only along its routes.  From
  it `KeepsPromiseCorrect`: each of the Manager's lines is a step of `Services`,
  all other steps leave its variables alone.

Every inductive invariant was checked by TLC on the runs' instances before it was
proved.

Only model-checked:

* all liveness properties and the absence of deadlock, which need fairness and
  `ENABLED`;
* `AnnouncedInOrder`: it compares the announcements with `PreOrder`, a recursion
  over the whole tree, and what that computes for every tree takes an induction
  over trees, which the installed provers cannot do;
* the violated properties, which are false.

## Plan

All four programs are modelled.  All invariants, the action properties but
`AnnouncedInOrder`, and the refinements of `TaskPool`, `Board` and `Services` are
proved.  Left to TLC are liveness and the order of announcements.
