------------------------------ MODULE ThreadPool ------------------------------
(***************************************************************************)
(* The thread pool of HW4/my_pool.c under the client of                    *)
(* HW4/testcases: tpool_init, M calls of tpool_add, tpool_wait,            *)
(* tpool_destroy.  The queue is the linked list of the code, in a heap     *)
(* whose addresses malloc may hand out again after free.  Everything a     *)
(* thread does while it holds mlock and that no other thread can see is    *)
(* one step; finish is written without mlock, so its reads are steps, and  *)
(* the processor may let the broadcast overtake the write.                 *)
(***************************************************************************)
EXTENDS Integers

CONSTANTS N,            \* n_threads
          M,            \* number of tasks the client adds
          Addr,         \* addresses malloc may return for a task
          NULL,         \* the null pointer
          MaxSpurious,  \* bound: spurious wakeups of pthread_cond_wait
          DelayedStore  \* the processor may delay a store beyond later loads

ASSUME PoolAssumption ==
    /\ N \in Nat \ {0}
    /\ M \in Nat
    /\ NULL \notin Addr
    /\ MaxSpurious \in Nat
    /\ DelayedStore \in BOOLEAN

Worker == 1..N
Task   == 1..M
Main   == 0      \* the client's thread
Free   == -1     \* nobody holds mlock

VARIABLES queue_head, queue_tail,  \* the pool's list of tasks
          next, arg,               \* fields of the task at an address
          alloc,                   \* addresses that malloc returned and nobody freed
          finish,                  \* tpool_wait has been called
          mlock,                   \* the thread that holds the mutex, or Free
          pc,                      \* where each worker is in work()
          job,                     \* the worker's local variable job
          mpc,                     \* where the client's thread is
          i,                       \* its loop counter
          added,                   \* number of tasks linked into the list
          accepted, ran,           \* history: tasks taken, tasks executed
          spurious                 \* spurious wakeups so far

heap == <<queue_head, queue_tail, next, arg, alloc>>
vars == <<heap, finish, mlock, pc, job, mpc, i, added, accepted, ran, spurious>>

Init == /\ queue_head = NULL /\ queue_tail = NULL
        /\ next = [a \in Addr |-> NULL]
        /\ arg = [a \in Addr |-> 0]
        /\ alloc = {}
        /\ finish = FALSE
        /\ mlock = Free
        /\ pc = [w \in Worker |-> "unborn"]
        /\ job = [w \in Worker |-> NULL]
        /\ mpc = "create" /\ i = 1
        /\ added = 0 /\ accepted = 0 /\ ran = {}
        /\ spurious = 0

\* pthread_cond_broadcast(&pool->available): every sleeper leaves
\* pthread_cond_wait and competes for mlock.
Broadcast(p) == [w \in Worker |-> IF p[w] = "asleep" THEN "lock" ELSE p[w]]

-------------------------------------------------------------------------------
(* work() *)

\* pthread_mutex_lock at the head of the loop, or its re-acquisition inside
\* pthread_cond_wait; both continue with the test of the inner loop.
Lock(w) == /\ pc[w] = "lock"
           /\ mlock = Free
           /\ mlock' = w
           /\ pc' = [pc EXCEPT ![w] = "check"]
           /\ UNCHANGED <<heap, finish, job, mpc, i, added, accepted, ran, spurious>>

\* while(pool->queue_head == NULL && !pool->finish)
Check(w) ==
    /\ pc[w] = "check"
    /\ pc' = [pc EXCEPT ![w] = IF queue_head = NULL /\ ~finish THEN "wait" ELSE "take"]
    /\ UNCHANGED <<heap, finish, mlock, job, mpc, i, added, accepted, ran, spurious>>

\* pthread_cond_wait releases mlock and goes to sleep in one step.
Wait(w) == /\ pc[w] = "wait"
           /\ mlock' = Free
           /\ pc' = [pc EXCEPT ![w] = "asleep"]
           /\ UNCHANGED <<heap, finish, job, mpc, i, added, accepted, ran, spurious>>

\* POSIX lets pthread_cond_wait return without a broadcast.
SpuriousWakeup(w) ==
    /\ pc[w] = "asleep"
    /\ spurious < MaxSpurious
    /\ spurious' = spurious + 1
    /\ pc' = [pc EXCEPT ![w] = "lock"]
    /\ UNCHANGED <<heap, finish, mlock, job, mpc, i, added, accepted, ran>>

\* Take the head of the list and unlock.
TakeJob(w) == /\ pc[w] = "take"
              /\ queue_head # NULL
              /\ job' = [job EXCEPT ![w] = queue_head]
              /\ queue_head' = next[queue_head]
              /\ mlock' = Free
              /\ accepted' = accepted + 1
              /\ pc' = [pc EXCEPT ![w] = "run"]
              /\ UNCHANGED <<queue_tail, next, arg, alloc, finish, mpc, i, added, ran, spurious>>

\* Mutant: finish is tested before the list.
TakeExitEarly(w) == /\ pc[w] = "take"
                    /\ finish
                    /\ mlock' = Free
                    /\ pc' = [pc EXCEPT ![w] = "bye"]
                    /\ UNCHANGED <<heap, finish, job, mpc, i, added, accepted, ran, spurious>>

\* Mutant: finish ends the round but not the loop.
TakeExitAgain(w) == /\ pc[w] = "take"
                    /\ queue_head = NULL
                    /\ finish
                    /\ mlock' = Free
                    /\ pc' = [pc EXCEPT ![w] = "lock"]
                    /\ UNCHANGED <<heap, finish, job, mpc, i, added, accepted, ran, spurious>>

\* The list is empty and the pool is finishing: unlock and leave.
TakeExit(w) == /\ pc[w] = "take"
               /\ queue_head = NULL
               /\ finish
               /\ mlock' = Free
               /\ pc' = [pc EXCEPT ![w] = "bye"]
               /\ UNCHANGED <<heap, finish, job, mpc, i, added, accepted, ran, spurious>>

\* job->func(job->arg) runs to its end, outside mlock.
RunJob(w) == /\ pc[w] = "run"
             /\ ran' = ran \cup {arg[job[w]]}
             /\ pc' = [pc EXCEPT ![w] = "free"]
             /\ UNCHANGED <<heap, finish, mlock, job, mpc, i, added, accepted, spurious>>

\* free(job): from here on malloc may return the address again.
FreeJob(w) == /\ pc[w] = "free"
              /\ alloc' = alloc \ {job[w]}
              /\ job' = [job EXCEPT ![w] = NULL]
              /\ pc' = [pc EXCEPT ![w] = "bcast"]
              /\ UNCHANGED <<queue_head, queue_tail, next, arg, finish, mlock, mpc, i, added,
                             accepted, ran, spurious>>

\* pthread_cond_broadcast after the job, then the next round of the loop.
JobBroadcast(w) == /\ pc[w] = "bcast"
                   /\ pc' = Broadcast([pc EXCEPT ![w] = "lock"])
                   /\ UNCHANGED <<heap, finish, mlock, job, mpc, i, added, accepted, ran, spurious>>

\* Mutant: a leaving worker does not broadcast.
ExitSilently(w) == /\ pc[w] = "bye"
                   /\ pc' = [pc EXCEPT ![w] = "done"]
                   /\ UNCHANGED <<heap, finish, mlock, job, mpc, i, added, accepted, ran, spurious>>

\* pthread_cond_broadcast, then pthread_exit.
Exit(w) == /\ pc[w] = "bye"
           /\ pc' = Broadcast([pc EXCEPT ![w] = "done"])
           /\ UNCHANGED <<heap, finish, mlock, job, mpc, i, added, accepted, ran, spurious>>

-------------------------------------------------------------------------------
(* The client's thread: tpool_init, tpool_add, tpool_wait, tpool_destroy *)

\* One round of the pthread_create loop of tpool_init.
Create == /\ mpc = "create"
          /\ pc' = [pc EXCEPT ![i] = "lock"]
          /\ IF i < N THEN i' = i + 1 /\ mpc' = mpc
                      ELSE i' = 1 /\ mpc' = "add"
          /\ UNCHANGED <<heap, finish, mlock, job, added, accepted, ran, spurious>>

\* The call of tpool_add acquires mlock.
AddLock == /\ mpc = "add" /\ added < M
           /\ mlock = Free
           /\ mlock' = Main
           /\ mpc' = "link"
           /\ UNCHANGED <<heap, finish, pc, job, i, added, accepted, ran, spurious>>

\* Mutant: an empty list is recognised by queue_tail, which work() never resets.
LinkByTail(a) ==
    /\ next' = IF queue_tail # NULL THEN [next EXCEPT ![a] = NULL, ![queue_tail] = a]
                                    ELSE [next EXCEPT ![a] = NULL]
    /\ queue_head' = IF queue_tail # NULL THEN queue_head ELSE a
    /\ queue_tail' = a

\* The three branches of tpool_add that link the new task a into the list.
LinkJob(a) ==
    \/ /\ queue_head # NULL /\ next[queue_head] # NULL
       /\ next' = [next EXCEPT ![a] = NULL, ![queue_tail] = a]
       /\ queue_tail' = a
       /\ UNCHANGED queue_head
    \/ /\ queue_head # NULL /\ next[queue_head] = NULL
       /\ next' = [next EXCEPT ![a] = NULL, ![queue_head] = a]
       /\ queue_tail' = a
       /\ UNCHANGED queue_head
    \/ /\ queue_head = NULL
       /\ next' = [next EXCEPT ![a] = NULL]
       /\ queue_head' = a /\ queue_tail' = a

\* The body of tpool_add: malloc, link, broadcast, unlock.
AddJob == /\ mpc = "link"
          /\ \E a \in Addr \ alloc :
                /\ alloc' = alloc \cup {a}
                /\ arg' = [arg EXCEPT ![a] = added + 1]
                /\ LinkJob(a)
          /\ added' = added + 1
          /\ pc' = Broadcast(pc)
          /\ mlock' = Free
          /\ mpc' = "add"
          /\ UNCHANGED <<finish, job, i, accepted, ran, spurious>>

\* tpool_wait sets finish without holding mlock ...
SetFinish == /\ mpc = "add" /\ added = M
             /\ finish' = TRUE
             /\ mpc' = "shutdown"
             /\ UNCHANGED <<heap, mlock, pc, job, i, added, accepted, ran, spurious>>

\* ... and broadcasts.
ShutdownBroadcast == /\ mpc = "shutdown"
                     /\ pc' = Broadcast(pc)
                     /\ mpc' = "join"
                     /\ UNCHANGED <<heap, finish, mlock, job, i, added, accepted, ran, spurious>>

\* Without mlock and without an atomic store nothing orders the two: when no
\* worker sleeps, pthread_cond_broadcast returns after a plain load, which the
\* processor may execute while the store of finish is still in its buffer.
BroadcastFirst == /\ DelayedStore
                  /\ mpc = "add" /\ added = M
                  /\ \A w \in Worker : pc[w] # "asleep"
                  /\ mpc' = "late"
                  /\ UNCHANGED <<heap, finish, mlock, pc, job, i, added, accepted, ran, spurious>>

\* pthread_join synchronises: the store is visible before the client waits.
FinishLate == /\ mpc = "late"
              /\ finish' = TRUE
              /\ mpc' = "join"
              /\ UNCHANGED <<heap, mlock, pc, job, i, added, accepted, ran, spurious>>

\* Mutant: tpool_wait joins one worker only.
JoinFirstOnly == /\ mpc = "join"
                 /\ pc[i] = "done"
                 /\ i' = N
                 /\ mpc' = "destroy"
                 /\ UNCHANGED <<heap, finish, mlock, pc, job, added, accepted, ran, spurious>>

\* Mutant: the join loop runs once too often.
JoinPastEnd == /\ mpc = "join"
               /\ pc[i] = "done"
               /\ IF i <= N THEN i' = i + 1 /\ mpc' = mpc
                            ELSE i' = i /\ mpc' = "destroy"
               /\ UNCHANGED <<heap, finish, mlock, pc, job, added, accepted, ran, spurious>>

\* One round of the pthread_join loop.
Join == /\ mpc = "join"
        /\ pc[i] = "done"
        /\ IF i < N THEN i' = i + 1 /\ mpc' = mpc
                    ELSE i' = i /\ mpc' = "destroy"
        /\ UNCHANGED <<heap, finish, mlock, pc, job, added, accepted, ran, spurious>>

\* tpool_destroy frees the pool; the client is done with it.
Destroy == /\ mpc = "destroy"
           /\ mpc' = "end"
           /\ UNCHANGED <<heap, finish, mlock, pc, job, i, added, accepted, ran, spurious>>

-------------------------------------------------------------------------------
work(w) == \/ Lock(w) \/ Check(w) \/ Wait(w) \/ TakeJob(w) \/ TakeExit(w)
           \/ RunJob(w) \/ FreeJob(w) \/ JobBroadcast(w) \/ Exit(w)

client == \/ Create \/ AddLock \/ AddJob
          \/ SetFinish \/ ShutdownBroadcast \/ BroadcastFirst \/ FinishLate
          \/ Join \/ Destroy

\* The process ends with the client; after that nothing happens.
Ended == mpc = "end" /\ UNCHANGED vars

Next == client \/ (\E w \in Worker : work(w) \/ SpuriousWakeup(w)) \/ Ended

Spec == Init /\ [][Next]_vars

\* The kernel runs every runnable thread.  Nothing makes the mutex fair: a
\* thread only gets it if it is free for good.
FairSpec == Spec /\ WF_vars(client) /\ \A w \in Worker : WF_vars(work(w))

-------------------------------------------------------------------------------
(* Properties *)

Location == {"unborn", "lock", "check", "wait", "asleep", "take", "run", "free",
             "bcast", "bye", "done"}

\* Every variable keeps its type: pointers are addresses or NULL, mlock is
\* held by an existing thread, the counters stay within their loops' bounds.
TypeOK == /\ queue_head \in Addr \cup {NULL}
          /\ queue_tail \in Addr \cup {NULL}
          /\ next \in [Addr -> Addr \cup {NULL}]
          /\ arg \in [Addr -> 0..M]
          /\ alloc \subseteq Addr
          /\ finish \in BOOLEAN
          /\ mlock \in Worker \cup {Main, Free}
          /\ pc \in [Worker -> Location]
          /\ job \in [Worker -> Addr \cup {NULL}]
          /\ mpc \in {"create", "add", "link", "shutdown", "late", "join", "destroy", "end"}
          /\ i \in Worker
          /\ added \in 0..M
          /\ accepted \in Nat
          /\ ran \subseteq 0..M
          /\ spurious \in Nat

\* The tasks in memory that no worker has taken out of the list.
Queued == alloc \ {job[w] : w \in Worker}

\* The linked list is exactly the tasks added and not yet accepted, in the
\* order they were added; queue_head is the oldest and queue_tail the newest
\* of them, though work() never resets queue_tail and leaves it dangling when
\* the list runs empty.  So no branch of tpool_add follows a freed pointer,
\* and no task is lost when it is linked in.
ListIntact ==
    /\ accepted <= added
    /\ queue_head = NULL <=> accepted = added
    /\ queue_head # NULL => /\ queue_head \in Queued
                            /\ queue_tail \in Queued
                            /\ arg[queue_head] = accepted + 1
                            /\ arg[queue_tail] = added
    /\ \A a \in Queued :
          /\ arg[a] \in (accepted + 1)..added
          /\ \A b \in Queued : arg[a] = arg[b] => a = b
          /\ IF arg[a] = added THEN next[a] = NULL
                               ELSE next[a] \in Queued /\ arg[next[a]] = arg[a] + 1

\* Once tpool_wait has broadcast, a worker that sleeps in pthread_cond_wait
\* can count on a broadcast to come: some other worker has not left work()
\* and is not asleep itself.  (tpool_wait sets finish and broadcasts without
\* mlock, so a worker between its test of finish and its wait misses both.)
NoStrandedSleeper ==
    mpc \in {"join", "destroy", "end"} /\ (\E w \in Worker : pc[w] = "asleep")
        => \E w \in Worker : pc[w] \notin {"asleep", "done"}

\* The pool keeps the promise of module TaskPool: tasks are accepted first in,
\* first out, each is executed exactly once, and tpool_wait returns only when
\* every task that was added has been executed.
running  == {arg[job[w]] : w \in {v \in Worker : pc[v] = "run"}}
returned == mpc \in {"destroy", "end"}
TP == INSTANCE TaskPool WITH done <- ran
KeepsPromise == TP!Spec

\* tpool_wait returns and the client reaches its end: all workers notice
\* finish and exit.
ShutsDown == <>(mpc = "end")

\* Every task that tpool_add has accepted is executed, whatever happens to the
\* shutdown.
EveryTaskRuns == \A t \in Task : (added >= t) ~> (t \in ran)
===============================================================================
