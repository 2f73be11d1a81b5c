------------------------------ MODULE UserThreads ------------------------------
(***************************************************************************)
(* The user-level threads of HW3: the macros of threadtools.h, the thread  *)
(* functions of threads.c, sighandler() and scheduler() of scheduler.c and *)
(* the start-up of main.c.  One kernel thread runs everything; SIGALRM and *)
(* SIGTSTP are blocked except for two windows in thread_yield(), so what   *)
(* runs between two windows is one step.  setjmp and longjmp, as the build *)
(* compiles them, neither save nor restore the signal mask: a handler that *)
(* leaves by longjmp leaves its own signal blocked.                        *)
(***************************************************************************)
EXTENDS Integers, Sequences, Functions

CONSTANTS Timeslice,   \* argv[1]; alarm(0) arms nothing
          FibArgs, FactArgs, BankArgs,   \* the values tried for argv[2..5]
          IntMax       \* largest value of an int of the machine

ASSUME ThreadsAssumption ==
    /\ Timeslice \in Nat
    /\ FibArgs \subseteq Int /\ FactArgs \subseteq Int /\ BankArgs \subseteq Int
    /\ IntMax \in Nat /\ IntMax >= 500

Thread == 0..3
Nobody == -1          \* bank.lock_owner when the lock is free

base_mask == {"TSTP", "ALRM"}
tstp_mask == {"TSTP"}
alrm_mask == {"ALRM"}

VARIABLES arg,                     \* the arguments of the command line, by thread id
          ready_queue, rq_current, waiting_queue,
          balance, lock_owner,     \* struct Bank
          i, x, y,                 \* the tcb's loop variables
          environment,             \* where the scheduler resumes a thread
          allocated,               \* threads whose tcb has not been freed
          pc,                      \* what the processor executes
          val,                     \* the value setjmp(sched_buf) returns
          mask, pending, armed,    \* signals: blocked, pending, alarm running
          committed                \* history: bank threads that changed balance

tcbs    == <<arg, i, x, y>>
bank    == <<balance, lock_owner, committed>>
queues  == <<ready_queue, rq_current, waiting_queue, allocated>>
signals == <<mask, pending, armed>>
vars    == <<tcbs, bank, queues, signals, environment, pc, val>>

\* Two's complement of the machine's int.
Wrap(n) == ((n + IntMax + 1) % (2 * IntMax + 2)) - IntMax - 1

\* ready_queue[rq_current], with the code's indices from 0.
RUNNING == ready_queue[rq_current + 1]

-------------------------------------------------------------------------------
(* main.c *)

\* thread_create and thread_setup: the thread queues itself and returns.
thread_create(t, wanted) == IF wanted THEN <<t>> ELSE <<>>

init_threads(a) == thread_create(0, a[0] > 0) \o thread_create(1, a[1] > 0) \o
                   thread_create(2, a[2] # 0) \o thread_create(3, a[3] # 0)

\* The state when start_threading() calls scheduler().
Init == /\ arg \in {a \in [Thread -> FibArgs \cup FactArgs \cup BankArgs] :
                      a[0] \in FibArgs /\ a[1] \in FactArgs /\ {a[2], a[3]} \subseteq BankArgs}
        /\ ready_queue = init_threads(arg)
        /\ rq_current = 0
        /\ waiting_queue = <<>>
        /\ balance = 500 /\ lock_owner = Nobody /\ committed = {}
        /\ i = [t \in Thread |-> 0] /\ x = i /\ y = i
        /\ environment = [t \in Thread |-> "setup"]
        /\ allocated = Range(ready_queue)
        /\ pc = "scheduler" /\ val = 0
        /\ mask = base_mask /\ pending = {}
        /\ armed = (Timeslice > 0)

-------------------------------------------------------------------------------
(* threadtools.h: how a thread gives up the processor *)

\* longjmp(sched_buf, v)
GotoScheduler(v) == /\ pc' = "scheduler" /\ val' = v
                    /\ UNCHANGED <<environment, mask>>

thread_exit == GotoScheduler(3)

\* Save the place to resume at, then let SIGTSTP in.
thread_yield(place) ==
    /\ environment' = [environment EXCEPT ![RUNNING] = place]
    /\ mask' = alrm_mask
    /\ pc' = "window_tstp"
    /\ UNCHANGED val

\* Second sigprocmask of thread_yield: nothing was delivered, let SIGALRM in.
YieldTstpMask == /\ pc = "window_tstp"
                 /\ "TSTP" \notin pending
                 /\ mask' = tstp_mask
                 /\ pc' = "window_alrm"
                 /\ UNCHANGED <<tcbs, bank, queues, environment, val, pending, armed>>

\* Mutant: thread_yield does not block SIGALRM again.
YieldLeavesOpen == /\ pc = "window_alrm"
                   /\ "ALRM" \notin pending
                   /\ pc' = "running"
                   /\ UNCHANGED <<tcbs, bank, queues, environment, val, mask, pending, armed>>

\* Third sigprocmask: both signals are blocked and the thread runs on, from
\* the place that it has just saved.
YieldBaseMask == /\ pc = "window_alrm"
                 /\ "ALRM" \notin pending
                 /\ mask' = base_mask
                 /\ pc' = "running"
                 /\ UNCHANGED <<tcbs, bank, queues, environment, val, pending, armed>>

-------------------------------------------------------------------------------
(* threads.c: what the running thread does up to its next yield, exit or *)
(* failed lock().                                                        *)

\* The loop of fibonacci and factorial: i = 1 after thread_setup, i++ after a
\* yield.
Round(t) == IF environment[t] = "setup" THEN 1 ELSE i[t] + 1

EndRound(t) == IF Round(t) = arg[t] THEN thread_exit ELSE thread_yield("loop")

fibonacci(t) ==
    /\ t = 0
    /\ i' = [i EXCEPT ![t] = Round(t)]
    /\ x' = [x EXCEPT ![t] = IF Round(t) <= 2 THEN 1 ELSE y[t]]
    /\ y' = [y EXCEPT ![t] = IF Round(t) <= 2 THEN 1 ELSE Wrap(x[t] + y[t])]
    /\ EndRound(t)
    /\ UNCHANGED bank

\* Mutant: y is set to 1 again after every switch.
factorialForgets(t) ==
    /\ t = 1
    /\ i' = [i EXCEPT ![t] = Round(t)]
    /\ y' = [y EXCEPT ![t] = IF Round(t) <= 1 \/ val = 1 THEN 1 ELSE Wrap(y[t] * Round(t))]
    /\ EndRound(t)
    /\ UNCHANGED <<x, bank>>

factorial(t) ==
    /\ t = 1
    /\ i' = [i EXCEPT ![t] = Round(t)]
    /\ y' = [y EXCEPT ![t] = IF Round(t) <= 1 THEN 1 ELSE Wrap(y[t] * Round(t))]
    /\ EndRound(t)
    /\ UNCHANGED <<x, bank>>

\* Mutant: lock() does not look at the owner.
BankLockSteals(t) ==
    /\ t \in {2, 3} /\ environment[t] = "setup"
    /\ lock_owner' = t
    /\ thread_yield("step2")
    /\ UNCHANGED <<i, x, y, balance, committed>>

\* Mutant: lock() spins, with the signals blocked.
BankLockSpins(t) ==
    /\ t \in {2, 3} /\ environment[t] = "setup"
    /\ lock_owner \in {Nobody, t}
    /\ lock_owner' = t
    /\ thread_yield("step2")
    /\ UNCHANGED <<i, x, y, balance, committed>>

\* bank_operation up to its first yield.  A thread that finds the lock taken
\* has saved no new place: it starts again from thread_setup.
BankLock(t) ==
    /\ t \in {2, 3} /\ environment[t] = "setup"
    /\ \/ /\ lock_owner \in {Nobody, t}
          /\ lock_owner' = t
          /\ thread_yield("step2")
       \/ /\ lock_owner \notin {Nobody, t}
          /\ GotoScheduler(2)
          /\ UNCHANGED lock_owner
    /\ UNCHANGED <<i, x, y, balance, committed>>

\* Mutant: the balance is not tested.
BankOverdraw(t) ==
    /\ t \in {2, 3} /\ environment[t] = "step2"
    /\ balance' = Wrap(balance + arg[t])
    /\ committed' = committed \cup {t}
    /\ thread_yield("step3")
    /\ UNCHANGED <<i, x, y, lock_owner>>

\* Step 2: a deposit, or a withdrawal that the balance covers.
BankUpdate(t) ==
    /\ t \in {2, 3} /\ environment[t] = "step2"
    /\ \/ /\ arg[t] > 0 \/ balance >= Wrap(-arg[t])
          /\ balance' = Wrap(balance + arg[t])
          /\ committed' = committed \cup {t}
       \/ /\ ~(arg[t] > 0 \/ balance >= Wrap(-arg[t]))
          /\ UNCHANGED <<balance, committed>>
    /\ thread_yield("step3")
    /\ UNCHANGED <<i, x, y, lock_owner>>

\* Mutant: unlock() leaves 0 in lock_owner, which is a thread id.
BankUnlockZero(t) == /\ t \in {2, 3} /\ environment[t] = "step3"
                     /\ lock_owner' = IF lock_owner = t THEN 0 ELSE lock_owner
                     /\ thread_exit
                     /\ UNCHANGED <<i, x, y, balance, committed>>

\* Step 3: unlock() and leave.
BankUnlock(t) == /\ t \in {2, 3} /\ environment[t] = "step3"
                 /\ lock_owner' = IF lock_owner = t THEN Nobody ELSE lock_owner
                 /\ thread_exit
                 /\ UNCHANGED <<i, x, y, balance, committed>>

Run(t) == /\ pc = "running" /\ t = RUNNING
          /\ fibonacci(t) \/ factorial(t) \/ BankLock(t) \/ BankUpdate(t) \/ BankUnlock(t)
          /\ UNCHANGED <<arg, queues, pending, armed>>

-------------------------------------------------------------------------------
(* scheduler.c *)

\* Mutant: only SIGTSTP starts a time slice.
sighandlerNoAlarm(s) ==
    /\ pc \in {"window_tstp", "window_alrm"}
    /\ s \in pending \ mask
    /\ pending' = pending \ {s}
    /\ mask' = mask \cup {s}
    /\ armed' = IF s = "TSTP" THEN Timeslice > 0 ELSE armed
    /\ pc' = "scheduler" /\ val' = 1
    /\ UNCHANGED <<tcbs, bank, queues, environment>>

\* sighandler(), called by the kernel when an unblocked signal is pending: the
\* signal stays blocked behind the longjmp, SIGALRM starts the next time slice.
sighandler(s) ==
    /\ pc \in {"window_tstp", "window_alrm"}
    /\ s \in pending \ mask
    /\ pending' = pending \ {s}
    /\ mask' = mask \cup {s}
    /\ armed' = IF s = "ALRM" THEN Timeslice > 0 ELSE armed
    /\ pc' = "scheduler" /\ val' = 1
    /\ UNCHANGED <<tcbs, bank, queues, environment>>

\* The ready queue without RUNNING, whose place the last thread takes.
DropRunning(q) == SubSeq([q EXCEPT ![rq_current + 1] = q[Len(q)]], 1, Len(q) - 1)

\* Steps 1 and 2: a free lock goes to the first waiting thread.
Granted == lock_owner = Nobody /\ waiting_queue # <<>>
ReadyAfterGrant == IF Granted THEN Append(ready_queue, Head(waiting_queue)) ELSE ready_queue
WaitingAfterGrant == IF Granted THEN Tail(waiting_queue) ELSE waiting_queue
OwnerAfterGrant == IF Granted THEN Head(waiting_queue) ELSE lock_owner

Dispatch == pc' = "running" /\ UNCHANGED <<tcbs, balance, committed, environment, val, signals>>

\* val == 0: the first call.
Start == /\ pc = "scheduler" /\ val = 0 /\ ready_queue # <<>>
         /\ rq_current' = 0
         /\ UNCHANGED <<ready_queue, waiting_queue, allocated, lock_owner>>
         /\ Dispatch

\* val == 1, from sighandler(): the next thread in the ready queue.
Preempt == /\ pc = "scheduler" /\ val = 1
           /\ ready_queue' = ReadyAfterGrant
           /\ waiting_queue' = WaitingAfterGrant
           /\ lock_owner' = OwnerAfterGrant
           /\ rq_current' = IF rq_current = Len(ready_queue') - 1 THEN 0 ELSE rq_current + 1
           /\ UNCHANGED allocated
           /\ Dispatch

\* Mutant: the thread is queued for the lock and stays in the ready queue.
BlockKeepsReady == /\ pc = "scheduler" /\ val = 2
                   /\ ready_queue' = ReadyAfterGrant
                   /\ waiting_queue' = Append(WaitingAfterGrant, RUNNING)
                   /\ lock_owner' = OwnerAfterGrant
                   /\ rq_current' = IF rq_current = Len(ready_queue') - 1 THEN 0 ELSE rq_current + 1
                   /\ UNCHANGED allocated
                   /\ Dispatch

\* val == 2, from lock(): RUNNING waits for the lock.
Block == /\ pc = "scheduler" /\ val = 2
         /\ ready_queue' = DropRunning(ReadyAfterGrant)
         /\ waiting_queue' = Append(WaitingAfterGrant, RUNNING)
         /\ lock_owner' = OwnerAfterGrant
         /\ rq_current' = IF rq_current = Len(ready_queue') THEN 0 ELSE rq_current
         /\ UNCHANGED allocated
         /\ Dispatch

\* Mutant: a thread that leaves does not hand the lock on.
ReapWithoutGrant ==
    /\ pc = "scheduler" /\ val = 3
    /\ allocated' = allocated \ {RUNNING}
    /\ ready_queue' = DropRunning(ready_queue)
    /\ UNCHANGED waiting_queue
    /\ lock_owner' = lock_owner
    /\ IF ready_queue' = <<>> /\ waiting_queue' = <<>>
       THEN /\ pc' = "end"
            /\ UNCHANGED <<rq_current, tcbs, balance, committed, environment, val, signals>>
       ELSE /\ rq_current' = IF rq_current = Len(ready_queue') THEN 0 ELSE rq_current
            /\ Dispatch

\* val == 3, from thread_exit(): RUNNING is freed; scheduler() returns when no
\* thread is left.
Reap == /\ pc = "scheduler" /\ val = 3
        /\ allocated' = allocated \ {RUNNING}
        /\ ready_queue' = DropRunning(ReadyAfterGrant)
        /\ waiting_queue' = WaitingAfterGrant
        /\ lock_owner' = OwnerAfterGrant
        /\ IF ready_queue' = <<>> /\ waiting_queue' = <<>>
           THEN /\ pc' = "end"
                /\ UNCHANGED <<rq_current, tcbs, balance, committed, environment, val, signals>>
           ELSE /\ rq_current' = IF rq_current = Len(ready_queue') THEN 0 ELSE rq_current
                /\ Dispatch

\* No thread at all: scheduler() returns at once.
Return == /\ pc = "scheduler" /\ ready_queue = <<>> /\ waiting_queue = <<>>
          /\ pc' = "end"
          /\ UNCHANGED <<tcbs, bank, queues, signals, environment, val>>

scheduler == Start \/ Preempt \/ Block \/ Reap \/ Return

-------------------------------------------------------------------------------
(* The kernel and the user; a blocked or late signal stays pending. *)

AlarmExpires == /\ pc # "end" /\ armed
                /\ armed' = FALSE
                /\ pending' = pending \cup {"ALRM"}
                /\ UNCHANGED <<tcbs, bank, queues, environment, pc, val, mask>>

\* Ctrl-Z or kill -TSTP, as often as the user likes.
Stop == /\ pc # "end"
        /\ pending' = pending \cup {"TSTP"}
        /\ UNCHANGED <<tcbs, bank, queues, environment, pc, val, mask, armed>>

\* The processor, executing the program.
cpu == \/ scheduler
       \/ \E t \in allocated : Run(t)
       \/ YieldTstpMask \/ YieldBaseMask
       \/ \E s \in base_mask : sighandler(s)

Ended == pc = "end" /\ UNCHANGED vars

Next == cpu \/ AlarmExpires \/ Stop \/ Ended

Spec == Init /\ [][Next]_vars

\* The process is scheduled; nothing is assumed of the signals.
FairSpec == Spec /\ WF_vars(cpu)

-------------------------------------------------------------------------------
(* Properties *)

\* Every variable keeps its type.
TypeOK == /\ arg \in [Thread -> Int]
          /\ ready_queue \in Seq(Thread) /\ waiting_queue \in Seq(Thread)
          /\ rq_current \in Nat
          /\ balance \in Int /\ lock_owner \in {Nobody, 2, 3} /\ committed \subseteq {2, 3}
          /\ i \in [Thread -> Nat] /\ x \in [Thread -> Int] /\ y \in [Thread -> Int]
          /\ environment \in [Thread -> {"setup", "loop", "step2", "step3"}]
          /\ allocated \subseteq Thread
          /\ pc \in {"scheduler", "running", "window_tstp", "window_alrm", "end"}
          /\ val \in 0..3
          /\ mask \subseteq base_mask /\ pending \subseteq base_mask
          /\ armed \in BOOLEAN

\* scheduler() and the threads' code only run with both signals blocked, as the
\* comment of scheduler() demands, although sighandler() leaves by a longjmp
\* that restores no mask: else a signal could interrupt the scheduler itself.
SignalsBlocked == pc \in {"scheduler", "running"} => mask = base_mask

\* Every thread that has not been freed is in exactly one place of exactly one
\* queue, and no freed thread is in any: the swap-with-last removals and the
\* hand-over of the lock neither lose nor duplicate a thread.
QueuesExact == /\ Range(ready_queue) \cup Range(waiting_queue) = allocated
               /\ Range(ready_queue) \cap Range(waiting_queue) = {}
               /\ IsInjective(ready_queue) /\ IsInjective(waiting_queue)

\* Whenever a thread waits for the lock, the owner is ready to run (or, its
\* unlock() done, about to be freed).  So scheduler() never resumes a stale
\* slot of an empty ready queue, and no thread waits for ever.
OwnerCanRun ==
    /\ waiting_queue # <<>> =>
          \/ lock_owner \in Range(ready_queue)
          \/ lock_owner = Nobody /\ pc = "scheduler" /\ val = 3
    /\ pc \in {"running", "window_tstp", "window_alrm"} => rq_current < Len(ready_queue)

\* From its lock() to its unlock() a bank thread owns the lock, through every
\* switch in between; so at most one thread is there.
LockProtects ==
    \A t \in allocated \cap {2, 3} :
        environment[t] # "setup" /\ ~(pc = "scheduler" /\ val = 3 /\ t = RUNNING)
            => lock_owner = t

\* No withdrawal overdraws the account, if the deposits and the withdrawals,
\* negated, fit into an int; and the balance is accounted for by the operations
\* that took effect.
Moved(D) == (IF 2 \in D THEN arg[2] ELSE 0) + (IF 3 \in D THEN arg[3] ELSE 0)
Fits == /\ \A t \in {2, 3} : arg[t] >= -IntMax
        /\ \A D \in SUBSET {2, 3} : 500 + Moved(D) <= IntMax
Solvent == /\ Fits => balance >= 0
           /\ balance = Wrap(500 + Moved(committed))

\* The reference for the two computations.
Fib[n \in Nat]  == IF n <= 2 THEN 1 ELSE Fib[n - 1] + Fib[n - 2]
Fact[n \in Nat] == IF n = 0 THEN 1 ELSE n * Fact[n - 1]

\* However a computation is interrupted, after round i its y is Fib(i) or i!
\* in the int of the machine; it never runs past its argument, and reaches it.
Results == /\ i[0] > 0 => y[0] = Wrap(Fib[i[0]]) /\ i[0] <= arg[0]
           /\ i[1] > 0 => y[1] = Wrap(Fact[i[1]]) /\ i[1] <= arg[1]
           /\ pc = "end" => \A t \in {0, 1} : i[t] = IF arg[t] > 0 THEN arg[t] ELSE 0

\* The time-slice timer is never lost: while threads run, the alarm is running
\* or its signal is pending.
TimerAlive == Timeslice > 0 => armed \/ "ALRM" \in pending

\* Every thread gets to its end and scheduler() returns, whatever the signals
\* do: no signal, SIGTSTP without end, or alarms at any time.
AllFinish == <>(pc = "end")
===============================================================================
