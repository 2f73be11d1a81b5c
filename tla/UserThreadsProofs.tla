--------------------------- MODULE UserThreadsProofs ---------------------------
(***************************************************************************)
(* Proofs about UserThreads for every command line, time slice, int width  *)
(* and pattern of signals.                                                 *)
(***************************************************************************)
EXTENDS UserThreads, SequenceTheorems, TLAPS

\* The mask at each place: thread_yield() opens one window after the other.
MaskInv == mask = CASE pc = "window_tstp" -> alrm_mask
                    [] pc = "window_alrm" -> tstp_mask
                    [] OTHER -> base_mask

\* Where the running thread is in the ready queue when it matters.
CurrentInv == /\ pc \in {"running", "window_tstp", "window_alrm"} => rq_current < Len(ready_queue)
              /\ pc = "scheduler" /\ val # 0 => rq_current < Len(ready_queue)
              /\ pc = "scheduler" /\ val = 0 => waiting_queue = <<>>
              /\ pc # "scheduler" /\ pc # "end" => ready_queue # <<>>

\* Which places a thread can be resumed at; a waiting thread starts again from
\* thread_setup.
PlaceInv == /\ \A t \in {0, 1} : environment[t] \in {"setup", "loop"}
            /\ \A t \in {2, 3} : environment[t] \in {"setup", "step2", "step3"}
            /\ Range(waiting_queue) \subseteq {2, 3}
            /\ \A t \in Range(waiting_queue) : environment[t] = "setup"

\* The lock's owner is ready; the lock is free with threads waiting only
\* between unlock() and the scheduler's next grant; a thread that enters the
\* scheduler to wait or to leave does not own the lock.
OwnerInv == /\ lock_owner # Nobody => lock_owner \in Range(ready_queue)
            /\ waiting_queue # <<>> /\ lock_owner = Nobody => pc = "scheduler" /\ val = 3
            /\ pc = "scheduler" /\ val = 2 => /\ lock_owner \notin {Nobody, RUNNING}
                                              /\ RUNNING \in {2, 3}
                                              /\ environment[RUNNING] = "setup"
            /\ pc = "scheduler" /\ val = 3 => lock_owner # RUNNING

IInv == /\ TypeOK /\ MaskInv /\ QueuesExact /\ CurrentInv /\ PlaceInv /\ OwnerInv
        /\ LockProtects /\ TimerAlive

-------------------------------------------------------------------------------
(* What the queue operations of scheduler() do *)

\* Appending a new thread keeps the queue free of duplicates.
LEMMA AppendQueue ==
    ASSUME NEW q \in Seq(Thread), NEW t \in Thread, IsInjective(q), t \notin Range(q)
    PROVE  /\ Append(q, t) \in Seq(Thread) /\ Len(Append(q, t)) = Len(q) + 1
           /\ \A k \in 1..Len(q) : Append(q, t)[k] = q[k]
           /\ Append(q, t)[Len(q) + 1] = t
           /\ IsInjective(Append(q, t))
           /\ Range(Append(q, t)) = Range(q) \cup {t}
<1> DEFINE r == Append(q, t)
<1>1. /\ r \in Seq(Thread) /\ Len(r) = Len(q) + 1
      /\ \A k \in 1..Len(q) : r[k] = q[k]
      /\ r[Len(q) + 1] = t
  BY AppendProperties
<1>2. DOMAIN q = 1..Len(q) /\ DOMAIN r = 1..(Len(q) + 1) /\ Len(q) \in Nat
  BY <1>1, LenProperties
<1> HIDE DEF r
<1>3. \A k \in 1..Len(q) : q[k] \in Range(q) /\ q[k] # t
  BY <1>2 DEF Range
<1>4. IsInjective(r)
  BY <1>1, <1>2, <1>3 DEF IsInjective
<1>5. Range(r) = Range(q) \cup {t}
  BY <1>1, <1>2 DEF Range
<1>6. QED
  BY <1>1, <1>4, <1>5 DEF r

\* The first thread leaves the waiting queue, the others stay.
LEMMA TailQueue ==
    ASSUME NEW q \in Seq(Thread), IsInjective(q), q # <<>>
    PROVE  /\ Head(q) \in Thread /\ Head(q) \in Range(q)
           /\ Tail(q) \in Seq(Thread)
           /\ IsInjective(Tail(q))
           /\ Range(Tail(q)) = Range(q) \ {Head(q)}
<1>1. /\ Head(q) \in Thread /\ Tail(q) \in Seq(Thread)
      /\ Len(Tail(q)) = Len(q) - 1 /\ Head(q) = q[1]
      /\ \A k \in 1..Len(Tail(q)) : Tail(q)[k] = q[k + 1]
  BY HeadTailProperties
<1>2. /\ DOMAIN q = 1..Len(q) /\ DOMAIN Tail(q) = 1..(Len(q) - 1)
      /\ Len(q) \in Nat /\ Len(q) > 0
  BY <1>1, LenProperties, EmptySeq
<1>3. IsInjective(Tail(q))
  BY <1>1, <1>2 DEF IsInjective
<1>4. \A e : e \in Range(q) <=> \E k \in 1..Len(q) : e = q[k]
  BY <1>2 DEF Range
<1>5. \A e : e \in Range(Tail(q)) <=> \E k \in 1..(Len(q) - 1) : e = q[k + 1]
  BY <1>1, <1>2 DEF Range
<1>6. \A e \in Range(q) : e # Head(q) => e \in Range(Tail(q))
  <2> TAKE e \in Range(q)
  <2>1. PICK k \in 1..Len(q) : e = q[k]
    BY <1>4
  <2>2. e # Head(q) => k - 1 \in 1..(Len(q) - 1) /\ e = q[(k - 1) + 1]
    BY <1>1, <1>2, <2>1
  <2>3. QED
    BY <1>5, <2>2
<1>7. \A e \in Range(Tail(q)) : e \in Range(q) /\ e # Head(q)
  BY <1>1, <1>2, <1>4, <1>5 DEF IsInjective
<1>8. QED
  BY <1>1, <1>2, <1>3, <1>4, <1>6, <1>7

\* Overwriting RUNNING with the last thread and shrinking the queue removes
\* exactly RUNNING.
LEMMA DropQueue ==
    ASSUME NEW q \in Seq(Thread), IsInjective(q),
           rq_current \in Nat, rq_current < Len(q)
    PROVE  /\ DropRunning(q) \in Seq(Thread) /\ Len(DropRunning(q)) = Len(q) - 1
           /\ IsInjective(DropRunning(q))
           /\ Range(DropRunning(q)) = Range(q) \ {q[rq_current + 1]}
<1> DEFINE c == rq_current + 1
           n == Len(q)
           p == [q EXCEPT ![c] = q[n]]
           r == SubSeq(p, 1, n - 1)
<1>1. DOMAIN q = 1..n /\ n \in Nat /\ c \in 1..n /\ n > 0
  BY LenProperties
<1>2. p \in Seq(Thread) /\ Len(p) = n
  BY <1>1, ExceptSeq, ElementOfSeq
<1>3. r \in Seq(Thread) /\ Len(r) = n - 1 /\ \A k \in 1..(n - 1) : r[k] = p[k]
  BY <1>1, <1>2, SubSeqProperties
<1>4. \A k \in 1..(n - 1) : r[k] = IF k = c THEN q[n] ELSE q[k]
  BY <1>1, <1>3
<1>5. DOMAIN r = 1..(n - 1)
  BY <1>3, LenProperties
<1> HIDE DEF r, p, n, c
<1>6. IsInjective(r)
  BY <1>1, <1>4, <1>5 DEF IsInjective
<1>7. \A e \in Range(q) : e # q[c] => e \in Range(r)
  <2> TAKE e \in Range(q)
  <2>1. PICK k \in 1..n : e = q[k]
    BY <1>1 DEF Range
  <2>2. CASE k = n
    <3>1. e # q[c] => c \in 1..(n - 1) /\ r[c] = e
      BY <1>1, <1>4, <2>1, <2>2
    <3>2. QED
      BY <1>5, <3>1 DEF Range
  <2>3. CASE k # n
    <3>1. k \in 1..(n - 1)
      BY <1>1, <2>1, <2>3
    <3>2. e # q[c] => k # c
      BY <2>1
    <3>3. e # q[c] => r[k] = e
      BY <1>4, <2>1, <3>1, <3>2
    <3>4. QED
      BY <1>5, <3>1, <3>3 DEF Range
  <2>4. QED
    BY <2>2, <2>3
<1>8. \A k \in 1..(n - 1) : r[k] \in Range(q) /\ r[k] # q[c]
  BY <1>1, <1>4 DEF IsInjective, Range
<1>9. Range(r) = Range(q) \ {q[c]}
  BY <1>5, <1>7, <1>8 DEF Range
<1>10. QED
  BY <1>3, <1>6, <1>9 DEF DropRunning, r, p, n, c

\* Steps 1 and 2 of the scheduler: the hand-over of the lock keeps both queues
\* exact, puts the new owner into the ready queue and RUNNING where it was.
LEMMA GrantQueue ==
    ASSUME TypeOK, QueuesExact, PlaceInv, OwnerInv, rq_current < Len(ready_queue)
    PROVE  /\ ReadyAfterGrant \in Seq(Thread) /\ WaitingAfterGrant \in Seq(Thread)
           /\ IsInjective(ReadyAfterGrant) /\ IsInjective(WaitingAfterGrant)
           /\ Range(ReadyAfterGrant) \cup Range(WaitingAfterGrant) = allocated
           /\ Range(ReadyAfterGrant) \cap Range(WaitingAfterGrant) = {}
           /\ Range(WaitingAfterGrant) \subseteq Range(waiting_queue)
           /\ rq_current < Len(ReadyAfterGrant)
           /\ ReadyAfterGrant[rq_current + 1] = RUNNING
           /\ RUNNING \in Thread /\ RUNNING \in Range(ready_queue)
           /\ OwnerAfterGrant \in {Nobody, 2, 3}
           /\ OwnerAfterGrant # Nobody => OwnerAfterGrant \in Range(ReadyAfterGrant)
           /\ OwnerAfterGrant = Nobody => WaitingAfterGrant = <<>>
           /\ OwnerAfterGrant \in {lock_owner} \cup Range(waiting_queue)
<1> USE DEF TypeOK, QueuesExact
<1>1. /\ DOMAIN ready_queue = 1..Len(ready_queue) /\ Len(ready_queue) \in Nat
      /\ rq_current + 1 \in 1..Len(ready_queue)
  BY LenProperties
<1>2. RUNNING \in Thread /\ RUNNING \in Range(ready_queue)
  BY <1>1, ElementOfSeq DEF RUNNING, Range
<1>3. CASE Granted
  <2> DEFINE h == Head(waiting_queue)
  <2>1. /\ h \in Thread /\ h \in Range(waiting_queue) /\ Tail(waiting_queue) \in Seq(Thread)
        /\ IsInjective(Tail(waiting_queue))
        /\ Range(Tail(waiting_queue)) = Range(waiting_queue) \ {h}
    BY <1>3, TailQueue DEF Granted
  <2>2. h \notin Range(ready_queue)
    BY <2>1
  <2>3. /\ Append(ready_queue, h) \in Seq(Thread)
        /\ Len(Append(ready_queue, h)) = Len(ready_queue) + 1
        /\ \A k \in 1..Len(ready_queue) : Append(ready_queue, h)[k] = ready_queue[k]
        /\ IsInjective(Append(ready_queue, h))
        /\ Range(Append(ready_queue, h)) = Range(ready_queue) \cup {h}
    BY <2>1, <2>2, AppendQueue
  <2>4. /\ ReadyAfterGrant = Append(ready_queue, h) /\ WaitingAfterGrant = Tail(waiting_queue)
        /\ OwnerAfterGrant = h
    BY <1>3 DEF ReadyAfterGrant, WaitingAfterGrant, OwnerAfterGrant
  <2> HIDE DEF h
  <2>5. ReadyAfterGrant[rq_current + 1] = RUNNING /\ rq_current < Len(ReadyAfterGrant)
    BY <1>1, <2>3, <2>4 DEF RUNNING
  <2>6. h \in {2, 3}
    BY <2>1 DEF PlaceInv
  <2>7. QED
    BY <1>2, <2>1, <2>2, <2>3, <2>4, <2>5, <2>6 DEF Nobody
<1>4. CASE ~Granted
  <2>1. /\ ReadyAfterGrant = ready_queue /\ WaitingAfterGrant = waiting_queue
        /\ OwnerAfterGrant = lock_owner
    BY <1>4 DEF ReadyAfterGrant, WaitingAfterGrant, OwnerAfterGrant
  <2>2. QED
    BY <1>2, <1>4, <2>1 DEF Granted, OwnerInv, RUNNING
<1>5. QED
  BY <1>3, <1>4

\* The machine's int is an integer.
LEMMA WrapInt == \A n \in Int : Wrap(n) \in Int
BY ThreadsAssumption DEF Wrap

-------------------------------------------------------------------------------
(* Every step keeps IInv *)

\* Signals arrive, and thread_yield() opens and closes its windows.
LEMMA SignalStep ==
    ASSUME IInv, \/ YieldTstpMask \/ YieldBaseMask \/ AlarmExpires \/ Stop
                 \/ \E s \in base_mask : sighandler(s)
    PROVE  IInv'
<1> USE DEF IInv
<1>1. UNCHANGED <<tcbs, bank, queues, environment>>
  BY DEF YieldTstpMask, YieldBaseMask, AlarmExpires, Stop, sighandler
<1>2. UNCHANGED <<arg, i, x, y, balance, lock_owner, committed, ready_queue, rq_current,
                  waiting_queue, allocated, environment>>
  BY <1>1 DEF tcbs, bank, queues
<1>3. MaskInv' /\ mask' \subseteq base_mask
  BY DEF MaskInv, TypeOK, YieldTstpMask, YieldBaseMask, AlarmExpires, Stop, sighandler,
         base_mask, tstp_mask, alrm_mask
<1>4. pending' \subseteq base_mask /\ armed' \in BOOLEAN /\ TimerAlive'
  <2>1. CASE YieldTstpMask \/ YieldBaseMask
    BY <2>1 DEF TypeOK, TimerAlive, YieldTstpMask, YieldBaseMask
  <2>2. CASE AlarmExpires \/ Stop
    BY <2>2 DEF TypeOK, TimerAlive, AlarmExpires, Stop, base_mask
  <2>3. ASSUME NEW s \in base_mask, sighandler(s)
        PROVE  pending' \subseteq base_mask /\ armed' \in BOOLEAN /\ TimerAlive'
    <3>1. pending' = pending \ {s} /\ pending' \subseteq base_mask
      BY <2>3 DEF sighandler, TypeOK
    <3>2. CASE s = "ALRM"
      <4>1. armed' = (Timeslice > 0)
        BY <2>3, <3>2 DEF sighandler
      <4>2. armed' \in BOOLEAN /\ (Timeslice > 0 => armed')
        <5>1. (Timeslice > 0) \in BOOLEAN
          BY ThreadsAssumption
        <5>2. QED
          BY <4>1, <5>1, Zenon
      <4>3. QED
        BY <3>1, <4>2 DEF TimerAlive
    <3>3. CASE s # "ALRM"
      <4>1. armed' = armed /\ ("ALRM" \in pending' <=> "ALRM" \in pending)
        BY <2>3, <3>1, <3>3 DEF sighandler
      <4>2. QED
        BY <3>1, <4>1 DEF TimerAlive, TypeOK
    <3>4. QED
      BY <3>2, <3>3
  <2>4. QED
    BY <2>1, <2>2, <2>3
<1>5. \/ pc \in {"window_tstp", "window_alrm"} /\ pc' = "scheduler" /\ val' = 1
      \/ pc \in {"window_tstp", "window_alrm"} /\ pc' \in {"window_alrm", "running"} /\ val' = val
      \/ pc' = pc /\ val' = val
  BY DEF YieldTstpMask, YieldBaseMask, AlarmExpires, Stop, sighandler
<1>6. CurrentInv'
  BY <1>2, <1>5 DEF CurrentInv
<1>7. TypeOK'
  <2>1. /\ pc' \in {"scheduler", "running", "window_tstp", "window_alrm", "end"}
        /\ val' \in 0..3
    BY <1>5 DEF TypeOK
  <2>2. QED
    BY <1>2, <1>3, <1>4, <1>6, <2>1 DEF TypeOK, CurrentInv
<1>8. QueuesExact' /\ PlaceInv'
  BY <1>2 DEF QueuesExact, PlaceInv
<1>9. OwnerInv'
  BY <1>2, <1>5 DEF OwnerInv, RUNNING
<1>10. LockProtects'
  BY <1>2, <1>5 DEF LockProtects, RUNNING
<1>11. QED
  BY <1>3, <1>4, <1>6, <1>7, <1>8, <1>9, <1>10

\* The running thread runs up to its next yield, exit or failed lock().
LEMMA RunStep ==
    ASSUME IInv, NEW t \in allocated, Run(t)
    PROVE  IInv'
<1> USE DEF IInv
<1>1. /\ pc = "running" /\ t = RUNNING /\ t \in Thread /\ mask = base_mask
      /\ UNCHANGED <<arg, ready_queue, rq_current, waiting_queue, allocated, pending, armed>>
  BY DEF Run, queues, TypeOK, MaskInv
<1>2. t \in Range(ready_queue) /\ t \notin Range(waiting_queue)
  <2>1. rq_current + 1 \in DOMAIN ready_queue
    BY <1>1, LenProperties DEF TypeOK, CurrentInv
  <2>2. QED
    BY <1>1, <2>1 DEF Range, RUNNING, QueuesExact
<1>3. \/ pc' = "scheduler" /\ val' \in {2, 3} /\ environment' = environment /\ mask' = mask
      \/ /\ pc' = "window_tstp" /\ val' = val /\ mask' = alrm_mask
         /\ \E place \in {"loop", "step2", "step3"} :
               /\ environment' = [environment EXCEPT ![t] = place]
               /\ t \in {0, 1} => place = "loop"
               /\ t \in {2, 3} => place \in {"step2", "step3"}
  BY <1>1 DEF Run, fibonacci, factorial, BankLock, BankUpdate, BankUnlock, EndRound,
              thread_yield, thread_exit, GotoScheduler
<1>4. MaskInv' /\ TimerAlive' /\ QueuesExact' /\ CurrentInv'
  <2>1. MaskInv'
    BY <1>1, <1>3 DEF MaskInv
  <2>2. TimerAlive' /\ QueuesExact'
    BY <1>1 DEF TimerAlive, QueuesExact
  <2>3. CurrentInv'
    BY <1>1, <1>3 DEF CurrentInv
  <2>4. QED
    BY <2>1, <2>2, <2>3
<1>5. PlaceInv'
  <2>1. CASE environment' = environment
    BY <1>1, <2>1 DEF PlaceInv
  <2>2. ASSUME NEW place \in {"loop", "step2", "step3"},
               environment' = [environment EXCEPT ![t] = place],
               t \in {0, 1} => place = "loop",
               t \in {2, 3} => place \in {"step2", "step3"}
        PROVE  PlaceInv'
    <3>1. environment'[t] = place /\ \A u \in Thread \ {t} : environment'[u] = environment[u]
      BY <1>1, <2>2 DEF TypeOK
    <3>2. \A u \in Range(waiting_queue) : u # t /\ u \in Thread
      BY <1>2 DEF PlaceInv, Thread
    <3>3. QED
      BY <1>1, <2>2, <3>1, <3>2 DEF PlaceInv, Thread
  <2>3. QED
    BY <1>3, <2>1, <2>2
<1>6. \/ lock_owner' = lock_owner
         /\ (pc' = "scheduler" => val' = 3 /\ lock_owner # t)
         /\ (environment[t] = "setup" => t \in {0, 1})
      \/ lock_owner' = t /\ lock_owner \in {Nobody, t} /\ pc' = "window_tstp" /\ t \in {2, 3}
      \/ lock_owner' = Nobody /\ lock_owner \in {Nobody, t} /\ pc' = "scheduler" /\ val' = 3 /\ t \in {2, 3}
      \/ lock_owner' = lock_owner /\ lock_owner \notin {Nobody, t} /\ pc' = "scheduler" /\ val' = 2
         /\ t \in {2, 3} /\ environment[t] = "setup"
  <2>1. CASE fibonacci(t) \/ factorial(t)
    <3>1. t \in {0, 1} /\ EndRound(t) /\ lock_owner' = lock_owner
      BY <2>1 DEF fibonacci, factorial, bank
    <3>2. pc' = "scheduler" => val' = 3
      BY <3>1 DEF EndRound, thread_yield, thread_exit, GotoScheduler
    <3>3. lock_owner # t
      BY <3>1 DEF TypeOK, Nobody
    <3>4. QED
      BY <3>1, <3>2, <3>3
  <2>2. CASE BankLock(t)
    BY <1>1, <2>2 DEF BankLock, thread_yield, GotoScheduler
  <2>3. CASE BankUpdate(t)
    BY <1>1, <2>3 DEF BankUpdate, thread_yield
  <2>4. CASE BankUnlock(t)
    BY <1>1, <2>4 DEF BankUnlock, thread_exit, GotoScheduler, LockProtects
  <2>5. QED
    BY <2>1, <2>2, <2>3, <2>4 DEF Run
<1>7. RUNNING' = RUNNING
  BY <1>1 DEF RUNNING
<1>8. OwnerInv'
  <2>1. lock_owner' # Nobody => lock_owner' \in Range(ready_queue')
    BY <1>1, <1>2, <1>6 DEF OwnerInv
  <2>2. waiting_queue' # <<>> /\ lock_owner' = Nobody => pc' = "scheduler" /\ val' = 3
    BY <1>1, <1>6 DEF OwnerInv
  <2>3. pc' = "scheduler" /\ val' = 2 => /\ lock_owner' \notin {Nobody, RUNNING'}
                                         /\ RUNNING' \in {2, 3}
                                         /\ environment'[RUNNING'] = "setup"
    BY <1>1, <1>3, <1>6, <1>7
  <2>4. pc' = "scheduler" /\ val' = 3 => lock_owner' # RUNNING'
    BY <1>1, <1>6, <1>7 DEF Nobody
  <2>5. QED
    BY <2>1, <2>2, <2>3, <2>4 DEF OwnerInv
<1>9. LockProtects'
  <2> SUFFICES ASSUME NEW u \in allocated \cap {2, 3}, environment'[u] # "setup",
                      ~(pc' = "scheduler" /\ val' = 3 /\ u = t)
               PROVE  lock_owner' = u
    BY <1>1, <1>7 DEF LockProtects
  <2>1. u # t => environment'[u] = environment[u]
    BY <1>1, <1>3 DEF TypeOK
  <2>2. u # t => lock_owner = u
    BY <1>1, <2>1 DEF LockProtects
  <2>3. u # t => lock_owner' = u
    BY <1>6, <2>2 DEF Nobody
  <2>4. u = t /\ environment[t] # "setup" => lock_owner = t
    BY <1>1 DEF LockProtects
  <2>5. u = t => lock_owner' = t
    BY <1>3, <1>6, <2>4
  <2>6. QED
    BY <2>3, <2>5
<1>10. TypeOK'
  <2>1. /\ i' \in [Thread -> Nat] /\ x' \in [Thread -> Int] /\ y' \in [Thread -> Int]
        /\ balance' \in Int /\ committed' \subseteq {2, 3}
    <3>1. Round(t) \in Nat
      BY <1>1 DEF Round, TypeOK
    <3>2. CASE fibonacci(t)
      <4>1. Wrap(x[t] + y[t]) \in Int /\ y[t] \in Int
        BY <1>1, WrapInt DEF TypeOK
      <4>2. QED
        BY <1>1, <3>1, <3>2, <4>1 DEF fibonacci, bank, TypeOK
    <3>3. CASE factorial(t)
      <4>1. Wrap(y[t] * Round(t)) \in Int
        BY <1>1, <3>1, WrapInt DEF TypeOK
      <4>2. QED
        BY <1>1, <3>1, <3>3, <4>1 DEF factorial, bank, TypeOK
    <3>4. CASE BankLock(t) \/ BankUnlock(t)
      BY <3>4 DEF BankLock, BankUnlock, TypeOK
    <3>5. CASE BankUpdate(t)
      <4>1. Wrap(balance + arg[t]) \in Int
        BY <1>1, WrapInt DEF TypeOK
      <4>2. QED
        BY <1>1, <3>5, <4>1 DEF BankUpdate, TypeOK
    <3>6. QED
      BY <3>2, <3>3, <3>4, <3>5 DEF Run
  <2>2. /\ pc' \in {"scheduler", "running", "window_tstp", "window_alrm", "end"}
        /\ val' \in 0..3 /\ mask' \subseteq base_mask
    BY <1>1, <1>3 DEF TypeOK, alrm_mask, base_mask
  <2>3. lock_owner' \in {Nobody, 2, 3}
    BY <1>6 DEF TypeOK
  <2>4. environment' \in [Thread -> {"setup", "loop", "step2", "step3"}]
    BY <1>1, <1>3 DEF TypeOK
  <2>5. QED
    BY <1>1, <1>4, <2>1, <2>2, <2>3, <2>4 DEF TypeOK, CurrentInv
<1>11. QED
  BY <1>4, <1>5, <1>8, <1>9, <1>10

\* What scheduler() leaves alone when it resumes a thread.
LEMMA DispatchFacts ==
    ASSUME IInv, pc = "scheduler", Dispatch
    PROVE  /\ pc' = "running" /\ mask' = base_mask
           /\ UNCHANGED <<arg, i, x, y, balance, committed, environment, val, pending, armed>>
BY DEF IInv, MaskInv, Dispatch, tcbs, signals

\* scheduler() resumes a thread: it is enough that the queues stay exact and
\* the owner of the lock is ready.
LEMMA ResumeStep ==
    ASSUME IInv, pc = "scheduler", Dispatch,
           ready_queue' \in Seq(Thread), waiting_queue' \in Seq(Thread),
           QueuesExact', allocated' \subseteq allocated,
           rq_current' \in Nat, rq_current' < Len(ready_queue'),
           lock_owner' \in {Nobody, 2, 3},
           lock_owner' # Nobody => lock_owner' \in Range(ready_queue'),
           lock_owner' = Nobody => waiting_queue' = <<>>,
           Range(waiting_queue') \subseteq {2, 3},
           \A t \in Range(waiting_queue') : environment[t] = "setup",
           \A t \in allocated' \cap {2, 3} : environment[t] # "setup" => lock_owner' = t
    PROVE  IInv'
<1> USE DEF IInv
<1>1. /\ pc' = "running" /\ mask' = base_mask
      /\ UNCHANGED <<arg, i, x, y, balance, committed, environment, val, pending, armed>>
  BY DispatchFacts
<1>2. MaskInv' /\ TimerAlive'
  BY <1>1 DEF MaskInv, TimerAlive
<1>3. CurrentInv'
  BY <1>1, EmptySeq DEF CurrentInv
<1>4. PlaceInv'
  BY <1>1 DEF PlaceInv
<1>5. OwnerInv'
  BY <1>1 DEF OwnerInv
<1>6. LockProtects'
  BY <1>1 DEF LockProtects
<1>7. TypeOK'
  BY <1>1 DEF TypeOK, base_mask
<1>8. QED
  BY <1>2, <1>3, <1>4, <1>5, <1>6, <1>7

\* scheduler() returns: nobody is left in either queue.
LEMMA ReturnStep ==
    ASSUME IInv, pc = "scheduler", pc' = "end",
           UNCHANGED <<rq_current, tcbs, balance, committed, environment, val, signals>>,
           ready_queue' = <<>>, waiting_queue' = <<>>,
           QueuesExact', allocated' \subseteq allocated, lock_owner' = Nobody
    PROVE  IInv'
<1> USE DEF IInv
<1>1. UNCHANGED <<arg, i, x, y, mask, pending, armed>>
  BY DEF tcbs, signals
<1>2. MaskInv' /\ TimerAlive' /\ CurrentInv'
  BY <1>1 DEF MaskInv, TimerAlive, CurrentInv
<1>3. allocated' = {} /\ Range(waiting_queue') = {}
  BY DEF QueuesExact, Range
<1>4. PlaceInv' /\ OwnerInv' /\ LockProtects'
  BY <1>3 DEF PlaceInv, OwnerInv, LockProtects
<1>5. TypeOK'
  BY <1>1, <1>3 DEF TypeOK
<1>6. QED
  BY <1>2, <1>4, <1>5

\* One pass of scheduler().
LEMMA SchedulerStep ==
    ASSUME IInv, scheduler
    PROVE  IInv'
<1> USE DEF IInv
<1>1. /\ pc = "scheduler"
      /\ Len(ready_queue) \in Nat /\ rq_current \in Nat
      /\ \A t \in Range(waiting_queue) : environment[t] = "setup" /\ t \in {2, 3}
  BY LenProperties DEF scheduler, Start, Preempt, Block, Reap, Return, TypeOK, PlaceInv
<1> DEFINE RG == ReadyAfterGrant
           WG == WaitingAfterGrant
           OG == OwnerAfterGrant
<1>2. ASSUME val # 0
      PROVE  /\ RG \in Seq(Thread) /\ WG \in Seq(Thread) /\ Len(RG) \in Nat
             /\ IsInjective(RG) /\ IsInjective(WG)
             /\ Range(RG) \cup Range(WG) = allocated /\ Range(RG) \cap Range(WG) = {}
             /\ Range(WG) \subseteq Range(waiting_queue)
             /\ rq_current < Len(RG) /\ RG[rq_current + 1] = RUNNING
             /\ RUNNING \in Thread /\ RUNNING \in Range(ready_queue)
             /\ OG \in {Nobody, 2, 3}
             /\ OG # Nobody => OG \in Range(RG)
             /\ OG = Nobody => WG = <<>>
             /\ OG \in {lock_owner} \cup Range(waiting_queue)
  BY <1>1, <1>2, GrantQueue, LenProperties DEF CurrentInv
<1> HIDE DEF RG, WG, OG
<1>3. ASSUME val # 0
      PROVE  \A t \in allocated \cap {2, 3} :
                environment[t] # "setup" /\ ~(val = 3 /\ t = RUNNING) => OG = t
  <2>1. \A t \in allocated \cap {2, 3} :
           environment[t] # "setup" /\ ~(val = 3 /\ t = RUNNING) => lock_owner = t
    BY <1>1 DEF LockProtects
  <2>2. lock_owner # Nobody => OG = lock_owner
    BY DEF OG, OwnerAfterGrant, Granted
  <2>3. QED
    BY <2>1, <2>2 DEF Nobody
<1>4. CASE Start
  <2>1. /\ val = 0 /\ ready_queue # <<>> /\ rq_current' = 0 /\ Dispatch
        /\ UNCHANGED <<ready_queue, waiting_queue, allocated, lock_owner>>
    BY <1>4 DEF Start
  <2>2. waiting_queue = <<>>
    BY <1>1, <2>1 DEF CurrentInv
  <2>3. rq_current' \in Nat /\ rq_current' < Len(ready_queue')
    BY <1>1, <2>1, EmptySeq DEF TypeOK
  <2>4. QueuesExact'
    BY <2>1 DEF QueuesExact
  <2>5. lock_owner' # Nobody => lock_owner' \in Range(ready_queue')
    BY <2>1 DEF OwnerInv
  <2>6. \A t \in allocated' \cap {2, 3} : environment[t] # "setup" => lock_owner' = t
    BY <1>1, <2>1 DEF LockProtects
  <2>7. /\ ready_queue' \in Seq(Thread) /\ waiting_queue' \in Seq(Thread)
        /\ lock_owner' \in {Nobody, 2, 3} /\ allocated' \subseteq allocated
        /\ Range(waiting_queue') \subseteq {2, 3}
        /\ \A t \in Range(waiting_queue') : environment[t] = "setup"
    BY <1>1, <2>1 DEF TypeOK
  <2>8. QED
    BY <1>1, <2>1, <2>2, <2>3, <2>4, <2>5, <2>6, <2>7, ResumeStep
<1>5. CASE Preempt
  <2>1. /\ val = 1 /\ ready_queue' = RG /\ waiting_queue' = WG /\ lock_owner' = OG
        /\ allocated' = allocated /\ Dispatch
        /\ rq_current' = IF rq_current = Len(RG) - 1 THEN 0 ELSE rq_current + 1
    BY <1>5 DEF Preempt, RG, WG, OG
  <2>2. rq_current' \in Nat /\ rq_current' < Len(ready_queue')
    BY <1>1, <1>2, <2>1
  <2>3. QueuesExact'
    BY <1>2, <2>1 DEF QueuesExact
  <2>4. QED
    BY <1>1, <1>2, <1>3, <2>1, <2>2, <2>3, ResumeStep
<1>6. CASE Block
  <2>1. /\ val = 2 /\ ready_queue' = DropRunning(RG) /\ waiting_queue' = Append(WG, RUNNING)
        /\ lock_owner' = OG /\ allocated' = allocated /\ Dispatch
        /\ rq_current' = IF rq_current = Len(ready_queue') THEN 0 ELSE rq_current
    BY <1>6 DEF Block, RG, WG, OG
  <2>2. /\ ready_queue' \in Seq(Thread) /\ Len(ready_queue') = Len(RG) - 1
        /\ IsInjective(ready_queue')
        /\ Range(ready_queue') = Range(RG) \ {RUNNING}
    BY <1>1, <1>2, <2>1, DropQueue
  <2>3. RUNNING \notin Range(WG) /\ RUNNING \in Range(RG)
    <3>1. rq_current + 1 \in DOMAIN RG
      BY <1>1, <1>2, <2>1, LenProperties
    <3>2. RG[rq_current + 1] = RUNNING
      BY <1>2, <2>1
    <3>3. RUNNING \in Range(RG)
      BY <3>1, <3>2 DEF Range
    <3>4. QED
      BY <1>2, <2>1, <3>3
  <2>4. /\ waiting_queue' \in Seq(Thread) /\ IsInjective(waiting_queue')
        /\ Range(waiting_queue') = Range(WG) \cup {RUNNING}
    BY <1>2, <2>1, <2>3, AppendQueue
  <2>5. lock_owner \notin {Nobody, RUNNING} /\ RUNNING \in {2, 3} /\ environment[RUNNING] = "setup"
    BY <1>1, <2>1 DEF OwnerInv
  <2>6. OG = lock_owner
    BY <2>5 DEF OG, OwnerAfterGrant, Granted
  <2>7. lock_owner' \in Range(ready_queue')
    BY <1>2, <2>1, <2>2, <2>5, <2>6
  <2>8. rq_current' \in Nat /\ rq_current' < Len(ready_queue')
    <3>1. Len(ready_queue') > 0
      BY <2>2, <2>7, EmptySeq, LenProperties DEF Range
    <3>2. QED
      BY <1>1, <1>2, <2>1, <2>2, <3>1
  <2>9. QueuesExact'
    BY <1>2, <2>1, <2>2, <2>3, <2>4 DEF QueuesExact
  <2>10. QED
    BY <1>1, <1>2, <1>3, <2>1, <2>2, <2>4, <2>5, <2>6, <2>7, <2>8, <2>9, ResumeStep
<1>7. CASE Reap
  <2>1. /\ val = 3 /\ ready_queue' = DropRunning(RG) /\ waiting_queue' = WG
        /\ lock_owner' = OG /\ allocated' = allocated \ {RUNNING}
    BY <1>7 DEF Reap, RG, WG, OG
  <2>2. /\ ready_queue' \in Seq(Thread) /\ Len(ready_queue') = Len(RG) - 1
        /\ IsInjective(ready_queue')
        /\ Range(ready_queue') = Range(RG) \ {RUNNING}
    BY <1>1, <1>2, <2>1, DropQueue
  <2>3. RUNNING \notin Range(WG) /\ RUNNING \in Range(RG)
    <3>1. rq_current + 1 \in DOMAIN RG
      BY <1>1, <1>2, <2>1, LenProperties
    <3>2. RG[rq_current + 1] = RUNNING
      BY <1>2, <2>1
    <3>3. RUNNING \in Range(RG)
      BY <3>1, <3>2 DEF Range
    <3>4. QED
      BY <1>2, <2>1, <3>3
  <2>4. QueuesExact'
    BY <1>2, <2>1, <2>2, <2>3 DEF QueuesExact
  <2>5. RUNNING # lock_owner /\ RUNNING \notin Range(waiting_queue)
    BY <1>1, <1>2, <2>1 DEF OwnerInv, QueuesExact
  <2>6. OG # RUNNING
    BY <1>2, <2>1, <2>5
  <2>7. lock_owner' # Nobody => lock_owner' \in Range(ready_queue')
    BY <1>2, <2>1, <2>2, <2>6
  <2>8. CASE ready_queue' = <<>> /\ waiting_queue' = <<>>
    <3>1. lock_owner' = Nobody
      BY <2>7, <2>8 DEF Range
    <3>2. QED
      BY <1>1, <1>7, <2>1, <2>4, <2>8, <3>1, ReturnStep DEF Reap
  <2>9. CASE ~(ready_queue' = <<>> /\ waiting_queue' = <<>>)
    <3>1. /\ Dispatch
          /\ rq_current' = IF rq_current = Len(ready_queue') THEN 0 ELSE rq_current
      BY <1>7, <2>9 DEF Reap
    <3>2. ready_queue' # <<>>
      <4>1. waiting_queue' # <<>> => lock_owner' # Nobody
        BY <1>2, <2>1
      <4>2. QED
        BY <2>7, <2>9, <4>1 DEF Range
    <3>3. rq_current' \in Nat /\ rq_current' < Len(ready_queue')
      <4>1. Len(ready_queue') > 0
        BY <2>2, <3>2, EmptySeq, LenProperties
      <4>2. QED
        BY <1>1, <1>2, <2>1, <2>2, <3>1, <4>1
    <3>4. \A t \in allocated' \cap {2, 3} : environment[t] # "setup" => lock_owner' = t
      BY <1>3, <2>1
    <3>5. QED
      BY <1>1, <1>2, <2>1, <2>2, <2>4, <2>7, <3>1, <3>3, <3>4, ResumeStep
  <2>10. QED
    BY <2>8, <2>9
<1>8. CASE Return
  <2>1. UNCHANGED <<tcbs, bank, queues, signals, environment, val>> /\ pc' = "end"
        /\ ready_queue = <<>> /\ waiting_queue = <<>>
    BY <1>8 DEF Return
  <2>2. UNCHANGED <<ready_queue, rq_current, waiting_queue, allocated, balance, lock_owner, committed>>
    BY <2>1 DEF queues, bank
  <2>3. QueuesExact' /\ lock_owner' = Nobody
    BY <2>1, <2>2 DEF QueuesExact, OwnerInv, Range
  <2>4. QED
    BY <1>1, <2>1, <2>2, <2>3, ReturnStep
<1>9. QED
  BY <1>4, <1>5, <1>6, <1>7, <1>8 DEF scheduler

-------------------------------------------------------------------------------
(* The theorems *)

\* thread_create adds at most its own thread to the ready queue.
LEMMA CreateQueue ==
    ASSUME NEW q \in Seq(Thread), NEW t \in Thread, IsInjective(q), t \notin Range(q), NEW w \in BOOLEAN
    PROVE  /\ q \o thread_create(t, w) \in Seq(Thread)
           /\ IsInjective(q \o thread_create(t, w))
           /\ w => Range(q \o thread_create(t, w)) = Range(q) \cup {t}
           /\ ~w => Range(q \o thread_create(t, w)) = Range(q)
<1>1. CASE w
  <2>1. q \o thread_create(t, w) = Append(q, t)
    BY <1>1, AppendIsConcat DEF thread_create
  <2>2. QED
    BY <1>1, <2>1, AppendQueue
<1>2. CASE ~w
  <2>1. q \o thread_create(t, w) = q
    BY <1>2, ConcatEmptySeq DEF thread_create
  <2>2. QED
    BY <1>2, <2>1
<1>3. QED
  BY <1>1, <1>2

\* init_threads fills the ready queue without duplicates; fibonacci and
\* factorial are created for a positive argument only.
LEMMA InitThreads ==
    ASSUME NEW a \in [Thread -> Int]
    PROVE  /\ init_threads(a) \in Seq(Thread) /\ IsInjective(init_threads(a))
           /\ \A t \in {0, 1} : t \in Range(init_threads(a)) <=> a[t] > 0
<1> DEFINE q0 == thread_create(0, a[0] > 0)
           q1 == q0 \o thread_create(1, a[1] > 0)
           q2 == q1 \o thread_create(2, a[2] # 0)
           q3 == q2 \o thread_create(3, a[3] # 0)
<1>1. q0 \in Seq(Thread) /\ IsInjective(q0) /\ Range(q0) \subseteq {0} /\ (0 \in Range(q0) <=> a[0] > 0)
  <2>1. <<>> \in Seq(Thread) /\ IsInjective(<<>>) /\ Range(<<>>) = {}
    BY EmptySeq DEF IsInjective, Range
  <2>2. q0 = <<>> \o thread_create(0, a[0] > 0)
    BY ConcatEmptySeq DEF thread_create, Thread
  <2>3. (a[0] > 0) \in BOOLEAN /\ 0 \in Thread
    BY DEF Thread
  <2>4. QED
    BY <2>1, <2>2, <2>3, CreateQueue
<1>2. q1 \in Seq(Thread) /\ IsInjective(q1) /\ Range(q1) \subseteq {0, 1}
      /\ (0 \in Range(q1) <=> a[0] > 0) /\ (1 \in Range(q1) <=> a[1] > 0)
  <2> HIDE DEF q0
  <2>1. (a[1] > 0) \in BOOLEAN /\ 1 \in Thread /\ 1 \notin Range(q0)
    BY <1>1 DEF Thread
  <2>2. /\ q1 \in Seq(Thread) /\ IsInjective(q1)
        /\ a[1] > 0 => Range(q1) = Range(q0) \cup {1}
        /\ ~(a[1] > 0) => Range(q1) = Range(q0)
    BY <1>1, <2>1, CreateQueue
  <2>3. QED
    BY <1>1, <2>2
<1>3. q2 \in Seq(Thread) /\ IsInjective(q2) /\ Range(q2) \subseteq {0, 1, 2}
      /\ (0 \in Range(q2) <=> a[0] > 0) /\ (1 \in Range(q2) <=> a[1] > 0)
  <2> HIDE DEF q1
  <2>1. (a[2] # 0) \in BOOLEAN /\ 2 \in Thread /\ 2 \notin Range(q1)
    BY <1>2 DEF Thread
  <2>2. /\ q2 \in Seq(Thread) /\ IsInjective(q2)
        /\ a[2] # 0 => Range(q2) = Range(q1) \cup {2}
        /\ ~(a[2] # 0) => Range(q2) = Range(q1)
    BY <1>2, <2>1, CreateQueue
  <2>3. QED
    BY <1>2, <2>2
<1>4. q3 \in Seq(Thread) /\ IsInjective(q3)
      /\ (0 \in Range(q3) <=> a[0] > 0) /\ (1 \in Range(q3) <=> a[1] > 0)
  <2> HIDE DEF q2
  <2>1. (a[3] # 0) \in BOOLEAN /\ 3 \in Thread /\ 3 \notin Range(q2)
    BY <1>3 DEF Thread
  <2>2. /\ q3 \in Seq(Thread) /\ IsInjective(q3)
        /\ a[3] # 0 => Range(q3) = Range(q2) \cup {3}
        /\ ~(a[3] # 0) => Range(q3) = Range(q2)
    BY <1>3, <2>1, CreateQueue
  <2>3. QED
    BY <1>3, <2>2
<1>5. QED
  BY <1>4 DEF init_threads

\* The state in which start_threading() calls scheduler() satisfies IInv.
LEMMA InitIInv == Init => IInv
<1> SUFFICES ASSUME Init PROVE IInv
  OBVIOUS
<1>1. arg \in [Thread -> Int]
  BY ThreadsAssumption DEF Init
<1>2. ready_queue \in Seq(Thread) /\ IsInjective(ready_queue)
  BY <1>1, InitThreads DEF Init
<1>3. /\ waiting_queue = <<>> /\ waiting_queue \in Seq(Thread)
      /\ Range(waiting_queue) = {} /\ IsInjective(waiting_queue)
  BY EmptySeq DEF Init, Range, IsInjective
<1>4. allocated = Range(ready_queue) /\ allocated \subseteq Thread
  <2>1. DOMAIN ready_queue = 1..Len(ready_queue)
    BY <1>2, LenProperties
  <2>2. \A k \in 1..Len(ready_queue) : ready_queue[k] \in Thread
    BY <1>2, ElementOfSeq
  <2>3. QED
    BY <2>1, <2>2 DEF Init, Range
<1>5. QueuesExact
  BY <1>2, <1>3, <1>4 DEF QueuesExact
<1>6. MaskInv
  BY DEF Init, MaskInv
<1>7. armed \in BOOLEAN /\ TimerAlive
  <2>1. (Timeslice > 0) \in BOOLEAN /\ armed = (Timeslice > 0)
    BY ThreadsAssumption DEF Init
  <2>2. QED
    BY <2>1, Zenon DEF TimerAlive
<1>8. CurrentInv
  BY <1>3 DEF Init, CurrentInv
<1>9. PlaceInv /\ OwnerInv /\ LockProtects
  BY <1>3, <1>4 DEF Init, PlaceInv, OwnerInv, LockProtects, Thread
<1>10. TypeOK
  <2>1. /\ i \in [Thread -> Nat] /\ x \in [Thread -> Int] /\ y \in [Thread -> Int]
        /\ environment \in [Thread -> {"setup", "loop", "step2", "step3"}]
    BY DEF Init
  <2>2. mask \subseteq base_mask /\ pending \subseteq base_mask
    BY DEF Init
  <2>3. QED
    BY <1>1, <1>2, <1>3, <1>4, <1>7, <2>1, <2>2 DEF Init, TypeOK
<1>11. QED
  BY <1>5, <1>6, <1>7, <1>8, <1>9, <1>10 DEF IInv

\* IInv holds in every reachable state of the user-level threads.
THEOREM Inductive == Spec => []IInv
<1>1. IInv /\ [Next]_vars => IInv'
  <2> SUFFICES ASSUME IInv, [Next]_vars PROVE IInv'
    OBVIOUS
  <2>1. CASE cpu
    BY <2>1, SchedulerStep, RunStep, SignalStep DEF cpu
  <2>2. CASE AlarmExpires \/ Stop
    BY <2>2, SignalStep
  <2>3. CASE UNCHANGED vars
    BY <2>3 DEF vars, tcbs, bank, queues, signals, IInv, TypeOK, MaskInv, QueuesExact, CurrentInv,
                PlaceInv, OwnerInv, LockProtects, TimerAlive, RUNNING
  <2>4. QED
    BY <2>1, <2>2, <2>3 DEF Next, Ended
<1>2. QED
  BY <1>1, InitIInv, PTL DEF Spec

\* Every variable of the scheduler, the bank and the threads keeps its type.
THEOREM TypeCorrect == Spec => []TypeOK
BY Inductive, PTL DEF IInv

\* The scheduler and the threads' code are never interrupted, for any arrival
\* of SIGTSTP and SIGALRM: the comment above scheduler() is met.
THEOREM NeverInterrupted == Spec => []SignalsBlocked
<1>1. IInv => SignalsBlocked
  BY DEF IInv, MaskInv, SignalsBlocked
<1>2. QED
  BY <1>1, Inductive, PTL

\* No switch, exit or hand-over of the lock loses or duplicates a thread.
THEOREM QueuesCorrect == Spec => []QueuesExact
BY Inductive, PTL DEF IInv

\* The owner of the lock can always run while others wait, so scheduler() never
\* resumes through a stale slot.
THEOREM NeverStale == Spec => []OwnerCanRun
<1>1. IInv => OwnerCanRun
  BY DEF IInv, OwnerInv, CurrentInv, OwnerCanRun
<1>2. QED
  BY <1>1, Inductive, PTL

\* The bank's critical section excludes all other threads, for all arguments
\* and signals.
THEOREM Exclusion == Spec => []LockProtects
BY Inductive, PTL DEF IInv

\* The time-slice timer is never lost.
THEOREM TimerNeverLost == Spec => []TimerAlive
BY Inductive, PTL DEF IInv
===============================================================================
