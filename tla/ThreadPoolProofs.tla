--------------------------- MODULE ThreadPoolProofs ---------------------------
(***************************************************************************)
(* Proofs about ThreadPool for any number of workers, tasks and addresses. *)
(***************************************************************************)
EXTENDS ThreadPool, TLAPS

\* A worker has a job exactly between taking and freeing it; the job is in
\* memory and belongs to that worker alone.
JobInv == /\ \A w \in Worker : /\ job[w] # NULL <=> pc[w] \in {"run", "free"}
                               /\ job[w] # NULL => job[w] \in alloc
          /\ \A v, w \in Worker : job[v] # NULL /\ job[v] = job[w] => v = w

\* mlock is held exactly by the thread that is between lock and unlock.
LockInv == /\ \A w \in Worker : mlock = w <=> pc[w] \in {"check", "wait", "take"}
           /\ mlock = Main <=> mpc = "link"

\* The accepted tasks are those that run and those that have run.
TaskInv == /\ \A w \in Worker : pc[w] = "run" => arg[job[w]] \in (1..accepted) \ ran
           /\ \A v, w \in Worker : /\ pc[v] = "run" /\ pc[w] = "run"
                                   /\ arg[job[v]] = arg[job[w]]
                                   => v = w
           /\ ran \subseteq 1..accepted
           /\ \A t \in 1..accepted :
                 t \in ran \/ \E w \in Worker : pc[w] = "run" /\ arg[job[w]] = t

\* What the client's position says about finish, the counters and the workers.
PhaseInv == /\ finish <=> mpc \in {"shutdown", "join", "destroy", "end"}
            /\ finish => added = M
            /\ mpc = "link" => added < M
            /\ mpc = "late" => DelayedStore /\ added = M
            /\ mpc \in {"add", "link", "shutdown", "late"} => i = 1
            /\ mpc = "create" => \A w \in Worker : w >= i => pc[w] = "unborn"
            /\ \A w \in Worker : pc[w] = "take" /\ queue_head = NULL => finish
            /\ \A w \in Worker : pc[w] \in {"bye", "done"} => finish /\ accepted = added
            /\ mpc = "join" => \A w \in Worker : w < i => pc[w] = "done"
            /\ mpc \in {"destroy", "end"} => \A w \in Worker : pc[w] = "done"

IInv == TypeOK /\ JobInv /\ LockInv /\ ListIntact /\ TaskInv /\ PhaseInv

\* Past the broadcast of tpool_wait: whoever sleeps tested finish before it was
\* set, so it slept last, nobody is about to sleep, and somebody is awake.
\* Between setting finish and then, a worker about to sleep keeps mlock, so
\* nobody can have left.
SleepInv == /\ finish => \A w \in Worker : pc[w] = "wait" =>
                            \A v \in Worker : pc[v] \notin {"bye", "done"}
            /\ mpc \in {"join", "destroy", "end"} => 
                  \A w \in Worker : pc[w] \in {"wait", "asleep"} =>
                      /\ \A v \in Worker \ {w} : pc[v] \notin {"wait", "asleep"}
                      /\ \E v \in Worker : pc[v] \notin {"asleep", "done"}

\* Every step keeps the types.
LEMMA NextType == IInv /\ [Next]_vars => TypeOK'
<1> SUFFICES ASSUME IInv, [Next]_vars PROVE TypeOK'
  OBVIOUS
<1> USE PoolAssumption DEF IInv, TypeOK, JobInv, PhaseInv, LockInv, ListIntact, Location, Task, Worker, Main, Free, heap
<1>1. CASE Create
  BY <1>1 DEF Create
<1>2. CASE AddLock
  BY <1>2 DEF AddLock
<1>3. CASE AddJob
  <2>1. PICK a \in Addr \ alloc : /\ alloc' = alloc \cup {a}
                                  /\ arg' = [arg EXCEPT ![a] = added + 1]
                                  /\ LinkJob(a)
    BY <1>3 DEF AddJob
  <2>2. added < M
    BY <1>3 DEF AddJob
  <2>3. /\ queue_head' \in Addr \cup {NULL}
        /\ queue_tail' \in Addr \cup {NULL}
        /\ next' \in [Addr -> Addr \cup {NULL}]
    <3>1. CASE queue_head # NULL /\ next[queue_head] # NULL
      <4>1. /\ next' = [next EXCEPT ![a] = NULL, ![queue_tail] = a]
            /\ queue_head' = queue_head /\ queue_tail' = a
        BY <2>1, <3>1 DEF LinkJob
      <4>2. QED
        BY <4>1
    <3>2. CASE queue_head # NULL /\ next[queue_head] = NULL
      <4>1. /\ next' = [next EXCEPT ![a] = NULL, ![queue_head] = a]
            /\ queue_head' = queue_head /\ queue_tail' = a
        BY <2>1, <3>2 DEF LinkJob
      <4>2. QED
        BY <4>1
    <3>3. CASE queue_head = NULL
      <4>1. /\ next' = [next EXCEPT ![a] = NULL]
            /\ queue_head' = a /\ queue_tail' = a
        BY <2>1, <3>3 DEF LinkJob
      <4>2. QED
        BY <4>1
    <3>4. QED
      BY <3>1, <3>2, <3>3
  <2>4. arg' \in [Addr -> 0..M] /\ alloc' \subseteq Addr
    BY <2>1, <2>2
  <2>5. added' \in 0..M
    BY <1>3, <2>2 DEF AddJob
  <2>6. pc' \in [Worker -> Location]
    BY <1>3 DEF AddJob, Broadcast
  <2>7. QED
    BY <1>3, <2>3, <2>4, <2>5, <2>6 DEF AddJob
<1>4. CASE SetFinish
  BY <1>4 DEF SetFinish
<1>5. CASE ShutdownBroadcast
  BY <1>5 DEF ShutdownBroadcast, Broadcast
<1>5a. CASE BroadcastFirst
  BY <1>5a DEF BroadcastFirst
<1>5b. CASE FinishLate
  BY <1>5b DEF FinishLate
<1>6. CASE Join
  BY <1>6 DEF Join
<1>7. CASE Destroy
  BY <1>7 DEF Destroy
<1>8. ASSUME NEW w \in Worker, Lock(w) PROVE TypeOK'
  BY <1>8 DEF Lock
<1>9. ASSUME NEW w \in Worker, Check(w) PROVE TypeOK'
  BY <1>9 DEF Check
<1>10. ASSUME NEW w \in Worker, Wait(w) PROVE TypeOK'
  BY <1>10 DEF Wait
<1>11. ASSUME NEW w \in Worker, SpuriousWakeup(w) PROVE TypeOK'
  BY <1>11 DEF SpuriousWakeup
<1>12. ASSUME NEW w \in Worker, TakeJob(w) PROVE TypeOK'
  BY <1>12 DEF TakeJob
<1>13. ASSUME NEW w \in Worker, TakeExit(w) PROVE TypeOK'
  BY <1>13 DEF TakeExit
<1>14. ASSUME NEW w \in Worker, RunJob(w) PROVE TypeOK'
  <2>1. arg[job[w]] \in 0..M
    BY <1>14 DEF RunJob
  <2>2. ran' \subseteq 0..M
    BY <1>14, <2>1 DEF RunJob
  <2>3. QED
    BY <1>14, <2>2 DEF RunJob
<1>15. ASSUME NEW w \in Worker, FreeJob(w) PROVE TypeOK'
  BY <1>15 DEF FreeJob
<1>16. ASSUME NEW w \in Worker, JobBroadcast(w) PROVE TypeOK'
  BY <1>16 DEF JobBroadcast, Broadcast
<1>17. ASSUME NEW w \in Worker, Exit(w) PROVE TypeOK'
  BY <1>17 DEF Exit, Broadcast
<1>18. CASE UNCHANGED vars
  BY <1>18 DEF vars, Queued
<1>19. QED
  BY <1>1, <1>2, <1>3, <1>4, <1>5, <1>5a, <1>5b, <1>6, <1>7, <1>8, <1>9, <1>10, <1>11, <1>12, <1>13, <1>14, <1>15, <1>16, <1>17, <1>18 DEF Next, client, work, Ended


\* Every step keeps JobInv.
LEMMA NextJob == IInv /\ [Next]_vars => JobInv'
<1> SUFFICES ASSUME IInv, [Next]_vars PROVE JobInv'
  OBVIOUS
<1> USE PoolAssumption DEF IInv, TypeOK, JobInv, LockInv, PhaseInv, ListIntact, Queued, Location, Worker, Main, Free, heap
<1>1. CASE Create
  <2>1. pc[i] = "unborn"
    BY <1>1 DEF Create
  <2>2. \A v \in Worker : pc'[v] \in {"run", "free"} <=> pc[v] \in {"run", "free"}
    BY <1>1, <2>1 DEF Create
  <2>3. QED
    BY <1>1, <2>2 DEF Create
<1>2. CASE AddLock
  BY <1>2 DEF AddLock
<1>3. CASE AddJob
  BY <1>3 DEF AddJob, LinkJob, Broadcast
<1>4. CASE SetFinish
  BY <1>4 DEF SetFinish
<1>5. CASE ShutdownBroadcast
  BY <1>5 DEF ShutdownBroadcast, Broadcast
<1>5a. CASE BroadcastFirst
  BY <1>5a DEF BroadcastFirst
<1>5b. CASE FinishLate
  BY <1>5b DEF FinishLate
<1>6. CASE Join
  BY <1>6 DEF Join
<1>7. CASE Destroy
  BY <1>7 DEF Destroy
<1>8. ASSUME NEW w \in Worker, Lock(w) PROVE JobInv'
  BY <1>8 DEF Lock
<1>9. ASSUME NEW w \in Worker, Check(w) PROVE JobInv'
  BY <1>9 DEF Check
<1>10. ASSUME NEW w \in Worker, Wait(w) PROVE JobInv'
  BY <1>10 DEF Wait
<1>11. ASSUME NEW w \in Worker, SpuriousWakeup(w) PROVE JobInv'
  BY <1>11 DEF SpuriousWakeup
<1>12. ASSUME NEW w \in Worker, TakeJob(w) PROVE JobInv'
  BY <1>12 DEF TakeJob
<1>13. ASSUME NEW w \in Worker, TakeExit(w) PROVE JobInv'
  BY <1>13 DEF TakeExit
<1>14. ASSUME NEW w \in Worker, RunJob(w) PROVE JobInv'
  BY <1>14 DEF RunJob
<1>15. ASSUME NEW w \in Worker, FreeJob(w) PROVE JobInv'
  BY <1>15 DEF FreeJob
<1>16. ASSUME NEW w \in Worker, JobBroadcast(w) PROVE JobInv'
  BY <1>16 DEF JobBroadcast, Broadcast
<1>17. ASSUME NEW w \in Worker, Exit(w) PROVE JobInv'
  BY <1>17 DEF Exit, Broadcast
<1>18. CASE UNCHANGED vars
  BY <1>18 DEF vars, Queued
<1>19. QED
  BY <1>1, <1>2, <1>3, <1>4, <1>5, <1>5a, <1>5b, <1>6, <1>7, <1>8, <1>9, <1>10, <1>11, <1>12, <1>13, <1>14, <1>15, <1>16, <1>17, <1>18 DEF Next, client, work, Ended


\* Every step keeps LockInv.
LEMMA NextLock == IInv /\ [Next]_vars => LockInv'
<1> SUFFICES ASSUME IInv, [Next]_vars PROVE LockInv'
  OBVIOUS
<1> USE PoolAssumption DEF IInv, TypeOK, LockInv, PhaseInv, Location, Worker, Main, Free, heap
<1>1. CASE Create
  BY <1>1 DEF Create
<1>2. CASE AddLock
  BY <1>2 DEF AddLock
<1>3. CASE AddJob
  BY <1>3 DEF AddJob, LinkJob, Broadcast
<1>4. CASE SetFinish
  BY <1>4 DEF SetFinish
<1>5. CASE ShutdownBroadcast
  BY <1>5 DEF ShutdownBroadcast, Broadcast
<1>5a. CASE BroadcastFirst
  BY <1>5a DEF BroadcastFirst
<1>5b. CASE FinishLate
  BY <1>5b DEF FinishLate
<1>6. CASE Join
  BY <1>6 DEF Join
<1>7. CASE Destroy
  BY <1>7 DEF Destroy
<1>8. ASSUME NEW w \in Worker, Lock(w) PROVE LockInv'
  BY <1>8 DEF Lock
<1>9. ASSUME NEW w \in Worker, Check(w) PROVE LockInv'
  BY <1>9 DEF Check
<1>10. ASSUME NEW w \in Worker, Wait(w) PROVE LockInv'
  BY <1>10 DEF Wait
<1>11. ASSUME NEW w \in Worker, SpuriousWakeup(w) PROVE LockInv'
  BY <1>11 DEF SpuriousWakeup
<1>12. ASSUME NEW w \in Worker, TakeJob(w) PROVE LockInv'
  BY <1>12 DEF TakeJob
<1>13. ASSUME NEW w \in Worker, TakeExit(w) PROVE LockInv'
  BY <1>13 DEF TakeExit
<1>14. ASSUME NEW w \in Worker, RunJob(w) PROVE LockInv'
  BY <1>14 DEF RunJob
<1>15. ASSUME NEW w \in Worker, FreeJob(w) PROVE LockInv'
  BY <1>15 DEF FreeJob
<1>16. ASSUME NEW w \in Worker, JobBroadcast(w) PROVE LockInv'
  BY <1>16 DEF JobBroadcast, Broadcast
<1>17. ASSUME NEW w \in Worker, Exit(w) PROVE LockInv'
  BY <1>17 DEF Exit, Broadcast
<1>18. CASE UNCHANGED vars
  BY <1>18 DEF vars, Queued
<1>19. QED
  BY <1>1, <1>2, <1>3, <1>4, <1>5, <1>5a, <1>5b, <1>6, <1>7, <1>8, <1>9, <1>10, <1>11, <1>12, <1>13, <1>14, <1>15, <1>16, <1>17, <1>18 DEF Next, client, work, Ended


\* Every step keeps PhaseInv.
LEMMA NextPhase == IInv /\ [Next]_vars => PhaseInv'
<1> SUFFICES ASSUME IInv, [Next]_vars PROVE PhaseInv'
  OBVIOUS
<1> USE PoolAssumption DEF IInv, TypeOK, LockInv, PhaseInv, ListIntact, Location, Worker, Main, Free, heap
<1>1. CASE Create
  BY <1>1 DEF Create
<1>2. CASE AddLock
  BY <1>2 DEF AddLock
<1>3. CASE AddJob
  BY <1>3 DEF AddJob, LinkJob, Broadcast
<1>4. CASE SetFinish
  BY <1>4 DEF SetFinish
<1>5. CASE ShutdownBroadcast
  BY <1>5 DEF ShutdownBroadcast, Broadcast
<1>5a. CASE BroadcastFirst
  BY <1>5a DEF BroadcastFirst
<1>5b. CASE FinishLate
  BY <1>5b DEF FinishLate
<1>6. CASE Join
  BY <1>6 DEF Join
<1>7. CASE Destroy
  BY <1>7 DEF Destroy
<1>8. ASSUME NEW w \in Worker, Lock(w) PROVE PhaseInv'
  BY <1>8 DEF Lock
<1>9. ASSUME NEW w \in Worker, Check(w) PROVE PhaseInv'
  BY <1>9 DEF Check
<1>10. ASSUME NEW w \in Worker, Wait(w) PROVE PhaseInv'
  BY <1>10 DEF Wait
<1>11. ASSUME NEW w \in Worker, SpuriousWakeup(w) PROVE PhaseInv'
  BY <1>11 DEF SpuriousWakeup
<1>12. ASSUME NEW w \in Worker, TakeJob(w) PROVE PhaseInv'
  BY <1>12 DEF TakeJob
<1>13. ASSUME NEW w \in Worker, TakeExit(w) PROVE PhaseInv'
  BY <1>13 DEF TakeExit
<1>14. ASSUME NEW w \in Worker, RunJob(w) PROVE PhaseInv'
  BY <1>14 DEF RunJob
<1>15. ASSUME NEW w \in Worker, FreeJob(w) PROVE PhaseInv'
  BY <1>15 DEF FreeJob
<1>16. ASSUME NEW w \in Worker, JobBroadcast(w) PROVE PhaseInv'
  BY <1>16 DEF JobBroadcast, Broadcast
<1>17. ASSUME NEW w \in Worker, Exit(w) PROVE PhaseInv'
  BY <1>17 DEF Exit, Broadcast
<1>18. CASE UNCHANGED vars
  BY <1>18 DEF vars, Queued
<1>19. QED
  BY <1>1, <1>2, <1>3, <1>4, <1>5, <1>5a, <1>5b, <1>6, <1>7, <1>8, <1>9, <1>10, <1>11, <1>12, <1>13, <1>14, <1>15, <1>16, <1>17, <1>18 DEF Next, client, work, Ended


\* tpool_add links the new task in behind the newest one.
LEMMA AddKeepsList == IInv /\ AddJob => ListIntact'
<1> SUFFICES ASSUME IInv, AddJob PROVE ListIntact'
  OBVIOUS
<1> USE DEF IInv
<1>1. PICK a \in Addr \ alloc : /\ alloc' = alloc \cup {a}
                                /\ arg' = [arg EXCEPT ![a] = added + 1]
                                /\ LinkJob(a)
  BY DEF AddJob
<1>2. Queued' = Queued \cup {a} /\ a \notin Queued /\ Queued \subseteq Addr
  <2>1. \A w \in Worker : job[w] # a
    BY <1>1, PoolAssumption DEF JobInv, TypeOK
  <2>2. job' = job
    BY DEF AddJob
  <2>3. Queued' = (alloc \cup {a}) \ {job[w] : w \in Worker}
    BY <1>1, <2>2 DEF Queued
  <2>4. alloc \subseteq Addr
    BY DEF TypeOK
  <2>5. QED
    BY <1>1, <2>1, <2>3, <2>4 DEF Queued
<1>3. /\ added' = added + 1 /\ accepted' = accepted
      /\ added \in Nat /\ accepted \in Nat /\ NULL \notin Addr
  BY PoolAssumption DEF AddJob, TypeOK
<1>4. arg'[a] = added + 1 /\ \A b \in Queued : arg'[b] = arg[b] /\ arg[b] \in Nat
  BY <1>1, <1>2, PoolAssumption DEF TypeOK
<1>5. CASE queue_head = NULL
  <2>1. Queued = {}
    BY <1>3, <1>5 DEF ListIntact
  <2>2. queue_head' = a /\ queue_tail' = a /\ next'[a] = NULL
    BY <1>1, <1>5 DEF LinkJob, TypeOK
  <2>3. QED
    BY <1>2, <1>3, <1>4, <1>5, <2>1, <2>2 DEF ListIntact
<1>6. CASE queue_head # NULL
  <2>1. queue_head' = queue_head /\ queue_tail' = a
    BY <1>1, <1>6 DEF LinkJob
  <2>2. queue_tail \in Queued /\ queue_head \in Queued
    BY <1>6 DEF ListIntact
  <2>3. next[queue_head] = NULL => queue_tail = queue_head
    BY <1>2, <1>3, <1>6, <2>2 DEF ListIntact
  <2>4. next' = [next EXCEPT ![a] = NULL, ![queue_tail] = a]
    BY <1>1, <1>6, <2>3 DEF LinkJob
  <2>5. /\ next'[a] = NULL
        /\ next'[queue_tail] = a
        /\ \A b \in Queued \ {queue_tail} : next'[b] = next[b]
    BY <1>2, <2>2, <2>4 DEF TypeOK
  <2>6. QED
    BY <1>2, <1>3, <1>4, <1>6, <2>1, <2>2, <2>5 DEF ListIntact
<1>7. QED
  BY <1>5, <1>6

\* work() takes the oldest task out of the list and moves the head to the next.
LEMMA TakeKeepsList == \A w \in Worker : IInv /\ TakeJob(w) => ListIntact'
<1> SUFFICES ASSUME NEW w \in Worker, IInv, TakeJob(w) PROVE ListIntact'
  OBVIOUS
<1> USE DEF IInv
<1>1. job[w] = NULL /\ queue_head \in Queued /\ queue_head # NULL
  BY DEF TakeJob, JobInv, ListIntact
<1>2. Queued' = Queued \ {queue_head} /\ Queued \subseteq Addr
  <2>1. job' = [job EXCEPT ![w] = queue_head] /\ alloc' = alloc
    BY DEF TakeJob
  <2>2. \A v \in Worker : job'[v] = IF v = w THEN queue_head ELSE job[v]
    BY <2>1 DEF TypeOK
  <2>3. NULL \notin alloc /\ alloc \subseteq Addr
    BY PoolAssumption DEF TypeOK
  <2>4. \A b \in alloc : (\E v \in Worker : b = job'[v]) <=> b = queue_head \/ \E v \in Worker : b = job[v]
    BY <1>1, <2>2, <2>3
  <2>5. QED
    BY <2>1, <2>3, <2>4 DEF Queued
<1>3. /\ accepted' = accepted + 1 /\ queue_head' = next[queue_head]
      /\ UNCHANGED <<queue_tail, next, arg, added>>
      /\ added \in Nat /\ accepted \in Nat /\ NULL \notin Addr
  BY PoolAssumption DEF TakeJob, TypeOK
<1>4. \A b \in Queued : arg[b] \in Nat
  BY <1>2, PoolAssumption DEF TypeOK
<1>5. arg[queue_head] = accepted + 1 /\ arg[queue_tail] = added /\ queue_tail \in Queued
  BY <1>1 DEF ListIntact
<1>6. CASE accepted + 1 = added
  <2>1. next[queue_head] = NULL
    BY <1>1, <1>5, <1>6 DEF ListIntact
  <2>2. Queued' = {}
    BY <1>1, <1>2, <1>3, <1>4, <1>5, <1>6 DEF ListIntact
  <2>3. QED
    BY <1>3, <1>6, <2>1, <2>2 DEF ListIntact
<1>7. CASE accepted + 1 # added
  <2>1. next[queue_head] \in Queued /\ arg[next[queue_head]] = accepted + 2
    BY <1>1, <1>3, <1>5, <1>7 DEF ListIntact
  <2>2. queue_tail # queue_head /\ next[queue_head] # queue_head
    BY <1>3, <1>5, <1>7, <2>1
  <2>3. accepted + 1 < added
    BY <1>1, <1>3, <1>5, <1>7 DEF ListIntact
  <2>4. \A b \in Queued' : /\ b \in Queued /\ arg[b] # accepted + 1
                           /\ arg[b] \in (accepted + 2)..added
    BY <1>1, <1>2, <1>3, <1>4, <1>5 DEF ListIntact
  <2>5. \A b \in Queued' : arg[b] # added => next[b] \in Queued' /\ arg[next[b]] = arg[b] + 1
    BY <1>2, <1>3, <1>4, <1>5, <2>4 DEF ListIntact
  <2>6. QED
    BY <1>2, <1>3, <1>4, <1>5, <2>1, <2>2, <2>3, <2>4, <2>5 DEF ListIntact
<1>8. QED
  BY <1>6, <1>7

\* Every step keeps the list intact.
LEMMA NextList == IInv /\ [Next]_vars => ListIntact'
<1> SUFFICES ASSUME IInv, [Next]_vars PROVE ListIntact'
  OBVIOUS
<1> USE PoolAssumption DEF IInv, TypeOK, JobInv, LockInv, PhaseInv, ListIntact, Location, Worker, Main, Free, heap
<1>1. CASE Create
  BY <1>1 DEF Create, Queued
<1>2. CASE AddLock
  BY <1>2 DEF AddLock, Queued
<1>3. CASE AddJob
  BY <1>3, AddKeepsList
<1>4. CASE SetFinish
  BY <1>4 DEF SetFinish, Queued
<1>5. CASE ShutdownBroadcast
  BY <1>5 DEF ShutdownBroadcast, Broadcast, Queued
<1>5a. CASE BroadcastFirst
  BY <1>5a DEF BroadcastFirst, Queued
<1>5b. CASE FinishLate
  BY <1>5b DEF FinishLate, Queued
<1>6. CASE Join
  BY <1>6 DEF Join, Queued
<1>7. CASE Destroy
  BY <1>7 DEF Destroy, Queued
<1>8. ASSUME NEW w \in Worker, Lock(w) PROVE ListIntact'
  BY <1>8 DEF Lock, Queued
<1>9. ASSUME NEW w \in Worker, Check(w) PROVE ListIntact'
  BY <1>9 DEF Check, Queued
<1>10. ASSUME NEW w \in Worker, Wait(w) PROVE ListIntact'
  BY <1>10 DEF Wait, Queued
<1>11. ASSUME NEW w \in Worker, SpuriousWakeup(w) PROVE ListIntact'
  BY <1>11 DEF SpuriousWakeup, Queued
<1>12. ASSUME NEW w \in Worker, TakeJob(w) PROVE ListIntact'
  BY <1>12, TakeKeepsList
<1>13. ASSUME NEW w \in Worker, TakeExit(w) PROVE ListIntact'
  BY <1>13 DEF TakeExit, Queued
<1>14. ASSUME NEW w \in Worker, RunJob(w) PROVE ListIntact'
  BY <1>14 DEF RunJob, Queued
<1>15. ASSUME NEW w \in Worker, FreeJob(w) PROVE ListIntact'
  BY <1>15 DEF FreeJob, Queued
<1>16. ASSUME NEW w \in Worker, JobBroadcast(w) PROVE ListIntact'
  BY <1>16 DEF JobBroadcast, Broadcast, Queued
<1>17. ASSUME NEW w \in Worker, Exit(w) PROVE ListIntact'
  BY <1>17 DEF Exit, Broadcast, Queued
<1>18. CASE UNCHANGED vars
  BY <1>18 DEF vars, Queued
<1>19. QED
  BY <1>1, <1>2, <1>3, <1>4, <1>5, <1>5a, <1>5b, <1>6, <1>7, <1>8, <1>9, <1>10, <1>11, <1>12, <1>13, <1>14, <1>15, <1>16, <1>17, <1>18 DEF Next, client, work, Ended


\* A step that leaves alone who runs which task, and the counters, keeps TaskInv.
LEMMA SameTasks ==
    ASSUME TaskInv,
           \A v \in Worker : pc'[v] = "run" <=> pc[v] = "run",
           \A v \in Worker : pc[v] = "run" => arg'[job'[v]] = arg[job[v]],
           accepted' = accepted, ran' = ran
    PROVE  TaskInv'
BY DEF TaskInv

\* Every step keeps TaskInv.
LEMMA NextTask == IInv /\ [Next]_vars => TaskInv'
<1> SUFFICES ASSUME IInv, [Next]_vars PROVE TaskInv'
  OBVIOUS
<1> USE PoolAssumption DEF IInv, TypeOK, heap
<1>1. CASE Create
  <2>1. pc[i] = "unborn"
    BY <1>1 DEF Create, PhaseInv, Worker
  <2>2. QED
    BY <1>1, <2>1, SameTasks DEF Create
<1>2. CASE AddLock
  BY <1>2, SameTasks DEF AddLock
<1>3. CASE AddJob
  <2>1. \A v \in Worker : pc[v] = "run" => arg'[job'[v]] = arg[job[v]]
    BY <1>3 DEF AddJob, JobInv
  <2>2. QED
    BY <1>3, <2>1, SameTasks DEF AddJob, Broadcast
<1>4. CASE SetFinish
  BY <1>4, SameTasks DEF SetFinish
<1>5. CASE ShutdownBroadcast
  BY <1>5, SameTasks DEF ShutdownBroadcast, Broadcast
<1>5a. CASE BroadcastFirst
  BY <1>5a, SameTasks DEF BroadcastFirst
<1>5b. CASE FinishLate
  BY <1>5b, SameTasks DEF FinishLate
<1>6. CASE Join
  BY <1>6, SameTasks DEF Join
<1>7. CASE Destroy
  BY <1>7, SameTasks DEF Destroy
<1>8. ASSUME NEW w \in Worker, Lock(w) PROVE TaskInv'
  BY <1>8, SameTasks DEF Lock
<1>9. ASSUME NEW w \in Worker, Check(w) PROVE TaskInv'
  BY <1>9, SameTasks DEF Check
<1>10. ASSUME NEW w \in Worker, Wait(w) PROVE TaskInv'
  BY <1>10, SameTasks DEF Wait
<1>11. ASSUME NEW w \in Worker, SpuriousWakeup(w) PROVE TaskInv'
  BY <1>11, SameTasks DEF SpuriousWakeup
<1>12. ASSUME NEW w \in Worker, TakeJob(w) PROVE TaskInv'
  <2>1. /\ queue_head \in Addr /\ arg[queue_head] = accepted + 1
        /\ pc[w] # "run"
    BY <1>12 DEF TakeJob, ListIntact
  <2>2. \A v \in Worker : /\ pc'[v] = "run" <=> pc[v] = "run" \/ v = w
                          /\ arg'[job'[v]] = IF v = w THEN accepted + 1 ELSE arg[job[v]]
    BY <1>12, <2>1 DEF TakeJob
  <2>3. accepted' = accepted + 1 /\ ran' = ran /\ accepted \in Nat
    BY <1>12 DEF TakeJob
  <2>4. QED
    BY <2>1, <2>2, <2>3 DEF TaskInv
<1>13. ASSUME NEW w \in Worker, TakeExit(w) PROVE TaskInv'
  BY <1>13, SameTasks DEF TakeExit
<1>14. ASSUME NEW w \in Worker, RunJob(w) PROVE TaskInv'
  <2>1. /\ \A v \in Worker : pc'[v] = "run" <=> pc[v] = "run" /\ v # w
        /\ UNCHANGED <<job, arg, accepted>> /\ pc[w] = "run"
        /\ ran' = ran \cup {arg[job[w]]}
    BY <1>14 DEF RunJob
  <2>2. arg[job[w]] \in 1..accepted /\ accepted \in Nat
    BY <2>1 DEF TaskInv
  <2>3. \A v \in Worker : pc'[v] = "run" => arg[job[v]] \in (1..accepted) \ ran'
    BY <2>1 DEF TaskInv
  <2>4. \A t \in 1..accepted : t \in ran' \/ \E v \in Worker : pc'[v] = "run" /\ arg[job[v]] = t
    BY <2>1 DEF TaskInv
  <2>5. \A u, v \in Worker : pc'[u] = "run" /\ pc'[v] = "run" /\ arg[job[u]] = arg[job[v]] => u = v
    BY <2>1 DEF TaskInv
  <2>6. ran' \subseteq 1..accepted
    BY <2>1, <2>2 DEF TaskInv
  <2>7. job' = job /\ arg' = arg /\ accepted' = accepted
    BY <2>1
  <2>8. QED
    BY <2>3, <2>4, <2>5, <2>6, <2>7 DEF TaskInv
<1>15. ASSUME NEW w \in Worker, FreeJob(w) PROVE TaskInv'
  BY <1>15, SameTasks DEF FreeJob
<1>16. ASSUME NEW w \in Worker, JobBroadcast(w) PROVE TaskInv'
  BY <1>16, SameTasks DEF JobBroadcast, Broadcast
<1>17. ASSUME NEW w \in Worker, Exit(w) PROVE TaskInv'
  BY <1>17, SameTasks DEF Exit, Broadcast
<1>18. CASE UNCHANGED vars
  BY <1>18, SameTasks DEF vars
<1>19. QED
  BY <1>1, <1>2, <1>3, <1>4, <1>5, <1>5a, <1>5b, <1>6, <1>7, <1>8, <1>9, <1>10, <1>11, <1>12, <1>13, <1>14, <1>15, <1>16, <1>17, <1>18 DEF Next, client, work, Ended

\* IInv holds in every reachable state: it holds initially and each step of
\* tpool_* and work() keeps it.
THEOREM Inductive == Spec => []IInv
<1>1. Init => IInv
  <2> SUFFICES ASSUME Init PROVE IInv
    OBVIOUS
  <2> USE PoolAssumption DEF Init, Worker, Main, Free
  <2>1. TypeOK
    <3>1. /\ queue_head \in Addr \cup {NULL} /\ queue_tail \in Addr \cup {NULL}
          /\ next \in [Addr -> Addr \cup {NULL}] /\ arg \in [Addr -> 0..M]
          /\ alloc \subseteq Addr
      OBVIOUS
    <3>2. /\ pc \in [Worker -> Location] /\ job \in [Worker -> Addr \cup {NULL}]
          /\ mlock \in Worker \cup {Main, Free}
      BY DEF Location
    <3>3. i \in Worker /\ added \in 0..M /\ accepted \in Nat /\ ran \subseteq 0..M /\ spurious \in Nat
      OBVIOUS
    <3>4. QED
      BY <3>1, <3>2, <3>3 DEF TypeOK
  <2>2. JobInv /\ LockInv
    BY DEF JobInv, LockInv
  <2>3. ListIntact
    <3>1. Queued = {}
      BY DEF Queued
    <3>2. QED
      BY <3>1 DEF ListIntact
  <2>4. TaskInv
    BY DEF TaskInv
  <2>5. PhaseInv
    BY DEF PhaseInv
  <2>6. QED
    BY <2>1, <2>2, <2>3, <2>4, <2>5 DEF IInv
<1>2. IInv /\ [Next]_vars => IInv'
  BY NextType, NextJob, NextLock, NextPhase, NextList, NextTask DEF IInv
<1>3. QED
  BY <1>1, <1>2, PTL DEF Spec

\* Every pointer, counter and lock owner of the pool keeps its type, for any
\* number of workers and tasks.
THEOREM TypeCorrect == Spec => []TypeOK
BY Inductive, PTL DEF IInv

\* The linked list of tpool_add and work() is never corrupted: it holds exactly
\* the tasks added and not taken, in order, although queue_tail may dangle.
THEOREM ListCorrect == Spec => []ListIntact
BY Inductive, PTL DEF IInv

-------------------------------------------------------------------------------
(* Refinement *)

\* A step that leaves alone who runs which task leaves running alone.
LEMMA SameRunning ==
    ASSUME \A v \in Worker : pc'[v] = "run" <=> pc[v] = "run",
           \A v \in Worker : pc[v] = "run" => arg'[job'[v]] = arg[job[v]]
    PROVE  running' = running
BY DEF running

\* Each step of the pool is a step of TaskPool or changes nothing there.
LEMMA StepRefines == IInv /\ IInv' /\ [Next]_vars => [TP!Next]_(TP!vars)
<1> SUFFICES ASSUME IInv, IInv', [Next]_vars PROVE [TP!Next]_(TP!vars)
  OBVIOUS
<1> USE PoolAssumption DEF IInv, TypeOK, heap
<1>1. CASE Create
  <2>1. pc[i] = "unborn"
    BY <1>1 DEF Create, PhaseInv, Worker
  <2>2. running' = running
    BY <1>1, <2>1, SameRunning DEF Create
  <2>3. QED
    BY <1>1, <2>2 DEF Create, TP!vars, returned
<1>2. CASE AddLock
  <2>1. running' = running
    BY <1>2, SameRunning DEF AddLock
  <2>2. QED
    BY <1>2, <2>1 DEF AddLock, TP!vars, returned
<1>3. CASE AddJob
  <2>1. \A v \in Worker : pc[v] = "run" => arg'[job'[v]] = arg[job[v]]
    BY <1>3 DEF AddJob, JobInv
  <2>2. running' = running
    BY <1>3, <2>1, SameRunning DEF AddJob, Broadcast
  <2>3. TP!Add
    BY <1>3, <2>2 DEF AddJob, TP!Add, returned
  <2>4. QED
    BY <2>3 DEF TP!Next
<1>4. CASE SetFinish
  <2>1. running' = running
    BY <1>4, SameRunning DEF SetFinish
  <2>2. QED
    BY <1>4, <2>1 DEF SetFinish, TP!vars, returned
<1>5. CASE ShutdownBroadcast
  <2>1. running' = running
    BY <1>5, SameRunning DEF ShutdownBroadcast, Broadcast
  <2>2. QED
    BY <1>5, <2>1 DEF ShutdownBroadcast, TP!vars, returned
<1>5a. CASE BroadcastFirst
  <2>1. running' = running
    BY <1>5a, SameRunning DEF BroadcastFirst
  <2>2. QED
    BY <1>5a, <2>1 DEF BroadcastFirst, TP!vars, returned
<1>5b. CASE FinishLate
  <2>1. running' = running
    BY <1>5b, SameRunning DEF FinishLate
  <2>2. QED
    BY <1>5b, <2>1 DEF FinishLate, TP!vars, returned
<1>6. CASE Join
  <2>1. running' = running
    BY <1>6, SameRunning DEF Join
  <2>2. CASE mpc' = "join"
    BY <1>6, <2>1, <2>2 DEF Join, TP!vars, returned
  <2>3. CASE mpc' = "destroy"
    <3>1. \A v \in Worker : pc[v] = "done"
      BY <1>6, <2>3 DEF Join, PhaseInv
    <3>2. running = {}
      BY <3>1 DEF running
    <3>3. accepted = added
      BY <3>1 DEF PhaseInv
    <3>4. TP!Return
      BY <1>6, <2>1, <2>3, <3>2, <3>3 DEF Join, TP!Return, returned
    <3>5. QED
      BY <3>4 DEF TP!Next
  <2>4. QED
    BY <1>6, <2>2, <2>3 DEF Join
<1>7. CASE Destroy
  <2>1. running' = running
    BY <1>7, SameRunning DEF Destroy
  <2>2. QED
    BY <1>7, <2>1 DEF Destroy, TP!vars, returned
<1>8. ASSUME NEW w \in Worker, Lock(w) PROVE [TP!Next]_(TP!vars)
  <2>1. running' = running
    BY <1>8, SameRunning DEF Lock
  <2>2. QED
    BY <1>8, <2>1 DEF Lock, TP!vars, returned
<1>9. ASSUME NEW w \in Worker, Check(w) PROVE [TP!Next]_(TP!vars)
  <2>1. running' = running
    BY <1>9, SameRunning DEF Check
  <2>2. QED
    BY <1>9, <2>1 DEF Check, TP!vars, returned
<1>10. ASSUME NEW w \in Worker, Wait(w) PROVE [TP!Next]_(TP!vars)
  <2>1. running' = running
    BY <1>10, SameRunning DEF Wait
  <2>2. QED
    BY <1>10, <2>1 DEF Wait, TP!vars, returned
<1>11. ASSUME NEW w \in Worker, SpuriousWakeup(w) PROVE [TP!Next]_(TP!vars)
  <2>1. running' = running
    BY <1>11, SameRunning DEF SpuriousWakeup
  <2>2. QED
    BY <1>11, <2>1 DEF SpuriousWakeup, TP!vars, returned
<1>12. ASSUME NEW w \in Worker, TakeJob(w) PROVE [TP!Next]_(TP!vars)
  <2>1. /\ queue_head \in Addr /\ arg[queue_head] = accepted + 1 /\ accepted < added
        /\ pc[w] # "run"
    BY <1>12 DEF TakeJob, ListIntact
  <2>2. \A v \in Worker : /\ pc'[v] = "run" <=> pc[v] = "run" \/ v = w
                          /\ arg'[job'[v]] = IF v = w THEN accepted + 1 ELSE arg[job[v]]
    BY <1>12, <2>1 DEF TakeJob
  <2>3. running' = running \cup {accepted + 1}
    BY <2>1, <2>2 DEF running
  <2>4. TP!Accept
    BY <1>12, <2>1, <2>3 DEF TakeJob, TP!Accept, returned
  <2>5. QED
    BY <2>4 DEF TP!Next
<1>13. ASSUME NEW w \in Worker, TakeExit(w) PROVE [TP!Next]_(TP!vars)
  <2>1. running' = running
    BY <1>13, SameRunning DEF TakeExit
  <2>2. QED
    BY <1>13, <2>1 DEF TakeExit, TP!vars, returned
<1>14. ASSUME NEW w \in Worker, RunJob(w) PROVE [TP!Next]_(TP!vars)
  <2> DEFINE t == arg[job[w]]
  <2>1. t \in running
    BY <1>14 DEF RunJob, running
  <2>2. /\ \A v \in Worker : pc'[v] = "run" <=> pc[v] = "run" /\ v # w
        /\ job' = job /\ arg' = arg /\ pc[w] = "run"
    BY <1>14 DEF RunJob
  <2>3. \A v \in Worker : pc[v] = "run" /\ v # w => arg[job[v]] # t
    BY <2>2 DEF TaskInv
  <2>4. running' = running \ {t}
    BY <2>2, <2>3 DEF running
  <2>5. TP!Complete(t)
    BY <1>14, <2>1, <2>4 DEF RunJob, TP!Complete, returned
  <2>6. QED
    BY <2>1, <2>5 DEF TP!Next
<1>15. ASSUME NEW w \in Worker, FreeJob(w) PROVE [TP!Next]_(TP!vars)
  <2>1. running' = running
    BY <1>15, SameRunning DEF FreeJob, JobInv
  <2>2. QED
    BY <1>15, <2>1 DEF FreeJob, TP!vars, returned
<1>16. ASSUME NEW w \in Worker, JobBroadcast(w) PROVE [TP!Next]_(TP!vars)
  <2>1. running' = running
    BY <1>16, SameRunning DEF JobBroadcast, Broadcast
  <2>2. QED
    BY <1>16, <2>1 DEF JobBroadcast, TP!vars, returned
<1>17. ASSUME NEW w \in Worker, Exit(w) PROVE [TP!Next]_(TP!vars)
  <2>1. running' = running
    BY <1>17, SameRunning DEF Exit, Broadcast
  <2>2. QED
    BY <1>17, <2>1 DEF Exit, TP!vars, returned
<1>18. CASE UNCHANGED vars
  BY <1>18 DEF vars, TP!vars, running, returned
<1>19. QED
  BY <1>1, <1>2, <1>3, <1>4, <1>5, <1>5a, <1>5b, <1>6, <1>7, <1>8, <1>9, <1>10, <1>11, <1>12, <1>13, <1>14, <1>15, <1>16, <1>17, <1>18 DEF Next, client, work, Ended

\* The pool of HW4 implements TaskPool: first in, first out, exactly once, and
\* tpool_wait returns only after the last task.
THEOREM Refines == Spec => KeepsPromise
<1>1. Init => TP!Init
  BY PoolAssumption DEF Init, TP!Init, running, returned
<1>2. QED
  BY <1>1, StepRefines, Inductive, PTL DEF Spec, TP!Spec, KeepsPromise

-------------------------------------------------------------------------------
(* Nobody is stranded *)

\* With two workers or more, and stores in order, every step keeps SleepInv.
LEMMA NextSleep == N >= 2 /\ ~DelayedStore /\ IInv /\ SleepInv /\ [Next]_vars => SleepInv'
<1> SUFFICES ASSUME N >= 2, ~DelayedStore, IInv, SleepInv, [Next]_vars PROVE SleepInv'
  OBVIOUS
<1> USE PoolAssumption DEF IInv, TypeOK, LockInv, PhaseInv, SleepInv, Worker, Main, Free, heap, Location
<1>1. CASE Create
  BY <1>1 DEF Create
<1>2. CASE AddLock
  BY <1>2 DEF AddLock
<1>3. CASE AddJob
  BY <1>3 DEF AddJob, Broadcast
<1>4. CASE SetFinish
  BY <1>4 DEF SetFinish
<1>5. CASE ShutdownBroadcast
  BY <1>5 DEF ShutdownBroadcast, Broadcast
<1>5a. CASE BroadcastFirst
  BY <1>5a DEF BroadcastFirst
<1>5b. CASE FinishLate
  BY <1>5b DEF FinishLate
<1>6. CASE Join
  BY <1>6 DEF Join
<1>7. CASE Destroy
  BY <1>7 DEF Destroy
<1>8. ASSUME NEW w \in Worker, Lock(w) PROVE SleepInv'
  BY <1>8 DEF Lock
<1>9. ASSUME NEW w \in Worker, Check(w) PROVE SleepInv'
  BY <1>9 DEF Check
<1>10. ASSUME NEW w \in Worker, Wait(w) PROVE SleepInv'
  BY <1>10 DEF Wait
<1>11. ASSUME NEW w \in Worker, SpuriousWakeup(w) PROVE SleepInv'
  BY <1>11 DEF SpuriousWakeup
<1>12. ASSUME NEW w \in Worker, TakeJob(w) PROVE SleepInv'
  BY <1>12 DEF TakeJob
<1>13. ASSUME NEW w \in Worker, TakeExit(w) PROVE SleepInv'
  BY <1>13 DEF TakeExit
<1>14. ASSUME NEW w \in Worker, RunJob(w) PROVE SleepInv'
  BY <1>14 DEF RunJob
<1>15. ASSUME NEW w \in Worker, FreeJob(w) PROVE SleepInv'
  BY <1>15 DEF FreeJob
<1>16. ASSUME NEW w \in Worker, JobBroadcast(w) PROVE SleepInv'
  BY <1>16 DEF JobBroadcast, Broadcast
<1>17. ASSUME NEW w \in Worker, Exit(w) PROVE SleepInv'
  BY <1>17 DEF Exit, Broadcast
<1>18. CASE UNCHANGED vars
  BY <1>18 DEF vars
<1>19. QED
  BY <1>1, <1>2, <1>3, <1>4, <1>5, <1>5a, <1>5b, <1>6, <1>7, <1>8, <1>9, <1>10, <1>11, <1>12, <1>13, <1>14, <1>15, <1>16, <1>17, <1>18 DEF Next, client, work, Ended

\* With two workers or more, and if the broadcast of tpool_wait does not
\* overtake its store of finish, a worker that sleeps through the unlocked
\* notification of tpool_wait is woken by another one that leaves.
THEOREM NobodyStranded == ASSUME N >= 2, ~DelayedStore PROVE Spec => []NoStrandedSleeper
<1>1. Init => SleepInv
  BY DEF Init, SleepInv
<1>2. SleepInv => NoStrandedSleeper
  BY DEF SleepInv, NoStrandedSleeper
<1>3. IInv /\ SleepInv /\ [Next]_vars => SleepInv'
  BY NextSleep
<1>4. QED
  BY <1>1, <1>2, <1>3, Inductive, PTL DEF Spec
===============================================================================
