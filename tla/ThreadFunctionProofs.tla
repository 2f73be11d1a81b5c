-------------------------- MODULE ThreadFunctionProofs --------------------------
(***************************************************************************)
(* Proofs about what the thread functions of threads.c compute, for every  *)
(* command line, int width and pattern of signals: the bank stays solvent, *)
(* and the two loops end with the number they are asked for.               *)
(***************************************************************************)
EXTENDS UserThreadsProofs, WellFoundedInduction

\* The thread is on its way to be freed: thread_exit() has jumped to scheduler().
Leaving(t) == pc = "scheduler" /\ val = 3 /\ t = RUNNING

\* A thread that has changed the balance is past its second step for good, and
\* the balance is the sum of what took effect.
BankInv == /\ \A t \in committed : t \in allocated => environment[t] = "step3"
           /\ balance = Wrap(500 + Moved(committed))
           /\ Fits => balance = 500 + Moved(committed) /\ balance >= 0

\* A loop is short of its argument until its thread leaves, and has reached it
\* when the thread is freed; the place says whether it has begun.
LoopInv == \A t \in {0, 1} :
    /\ t \in allocated /\ ~Leaving(t) => /\ i[t] < arg[t]
                                         /\ environment[t] = "setup" <=> i[t] = 0
    /\ t \in allocated /\ Leaving(t) => i[t] = arg[t] /\ i[t] > 0
    /\ t \notin allocated => i[t] = IF arg[t] > 0 THEN arg[t] ELSE 0

\* After round i, x and y are the last two Fibonacci numbers, or y is i!.
ValueInv == /\ i[0] > 0 => y[0] = Wrap(Fib[i[0]]) /\ x[0] = Wrap(Fib[i[0] - 1])
            /\ i[1] > 0 => y[1] = Wrap(Fact[i[1]])

\* scheduler() returns only when every thread has been freed.
EndInv == pc = "end" => allocated = {}

FInv == BankInv /\ LoopInv /\ ValueInv /\ EndInv

-------------------------------------------------------------------------------
(* The machine's int: what Wrap does *)

\* The number of values of an int.
Values == 2 * IntMax + 2

\* Division with remainder.
LEMMA Div ==
    ASSUME NEW n \in Int, NEW K \in Nat \ {0}
    PROVE  n = K * (n \div K) + (n % K) /\ n \div K \in Int /\ n % K \in 0..(K - 1)
OBVIOUS

\* A nonzero multiple of K is at least K away from 0.
LEMMA MultipleUp ==
    ASSUME NEW K \in Nat \ {0}, NEW d \in Int, d >= 1
    PROVE  K * d >= K
OBVIOUS

LEMMA MultipleDown ==
    ASSUME NEW K \in Nat \ {0}, NEW d \in Int, d <= -1
    PROVE  K * d <= -K
OBVIOUS

\* The remainder is unique.
LEMMA UniqueRemainder ==
    ASSUME NEW K \in Nat \ {0}, NEW q1 \in Int, NEW q2 \in Int,
           NEW r1 \in 0..(K - 1), NEW r2 \in 0..(K - 1), K * q1 + r1 = K * q2 + r2
    PROVE  r1 = r2
<1>1. PICK d \in Int : d = q1 - q2
  OBVIOUS
<1>2. K * d = r2 - r1
  <2>1. K * (q1 - q2) = K * q1 - K * q2
    OBVIOUS
  <2>2. QED
    BY <1>1, <2>1
<1>3. CASE d >= 1
  <2>1. K * d >= K /\ K * d \in Int
    BY <1>3, MultipleUp
  <2>2. r2 - r1 < K
    OBVIOUS
  <2>3. QED
    BY <1>2, <2>1, <2>2
<1>4. CASE d <= -1
  <2>1. K * d <= -K /\ K * d \in Int
    BY <1>4, MultipleDown
  <2>2. r2 - r1 > -K
    OBVIOUS
  <2>3. QED
    BY <1>2, <2>1, <2>2
<1>5. CASE d = 0
  <2>1. K * d = 0
    BY <1>5
  <2>2. QED
    BY <1>2, <2>1
<1>6. QED
  BY <1>3, <1>4, <1>5

\* A multiple of K does not change the remainder.
LEMMA ShiftRemainder ==
    ASSUME NEW K \in Nat \ {0}, NEW n \in Int, NEW q \in Int
    PROVE  (n + K * q) % K = n % K
<1>1. PICK a \in Int, r \in 0..(K - 1) : n = K * a + r /\ r = n % K
  BY Div
<1>2. PICK m \in Int : m = n + K * q
  OBVIOUS
<1>3. PICK b \in Int, s \in 0..(K - 1) : m = K * b + s /\ s = m % K
  BY Div
<1>4. K * (a + q) + r = K * b + s
  <2>1. K * (a + q) = K * a + K * q
    OBVIOUS
  <2>2. QED
    BY <1>1, <1>2, <1>3, <2>1
<1>5. r = s
  BY <1>4, UniqueRemainder
<1>6. QED
  BY <1>1, <1>2, <1>3, <1>5

LEMMA ValuesPositive == Values \in Nat \ {0} /\ IntMax \in Nat
BY ThreadsAssumption DEF Values

\* Wrap moves a number by a multiple of Values into the int.
LEMMA WrapMoves ==
    ASSUME NEW n \in Int
    PROVE  /\ Wrap(n) \in (-IntMax - 1)..IntMax
           /\ \E q \in Int : Wrap(n) = n + Values * q
<1>1. PICK m \in Int : m = n + IntMax + 1
  BY ValuesPositive
<1>2. PICK a \in Int, r \in 0..(Values - 1) : m = Values * a + r /\ r = m % Values
  BY ValuesPositive, Div
<1>3. Wrap(n) = r - IntMax - 1
  BY <1>1, <1>2 DEF Wrap, Values
<1>4. Wrap(n) \in (-IntMax - 1)..IntMax
  BY <1>3, ValuesPositive DEF Values
<1>5. Values * (-a) = -(Values * a) /\ Values * a \in Int /\ -a \in Int
  BY ValuesPositive
<1>6. Wrap(n) = n + Values * (-a)
  <2>1. PICK k \in Int : k = Values * a
    BY <1>5
  <2>2. m = k + r
    BY <1>2, <2>1
  <2>3. r - IntMax - 1 = n - k /\ r \in Int
    BY <1>1, <2>2, ValuesPositive
  <2>4. QED
    BY <1>3, <1>5, <2>1, <2>3
<1>7. QED
  BY <1>4, <1>5, <1>6

\* Numbers that differ by a multiple of Values wrap to the same int.
LEMMA WrapShift ==
    ASSUME NEW n \in Int, NEW q \in Int
    PROVE  Wrap(n + Values * q) = Wrap(n)
<1>1. PICK m \in Int : m = n + IntMax + 1
  BY ValuesPositive
<1>2. (m + Values * q) % Values = m % Values
  BY ValuesPositive, ShiftRemainder
<1>3. (n + Values * q) + IntMax + 1 = m + Values * q
  BY <1>1, ValuesPositive
<1>4. QED
  BY <1>1, <1>2, <1>3 DEF Wrap, Values

\* An int is its own wrap.
LEMMA WrapFits ==
    ASSUME NEW n \in (-IntMax - 1)..IntMax
    PROVE  Wrap(n) = n
<1>1. PICK m \in Int : m = n + IntMax + 1
  BY ValuesPositive
<1>2. m \in 0..(Values - 1) /\ n \in Int
  BY <1>1, ValuesPositive DEF Values
<1>3. m % Values = m
  BY <1>2, ValuesPositive
<1>4. QED
  BY <1>1, <1>2, <1>3, ValuesPositive DEF Wrap, Values

\* Sums and products of wrapped numbers are those of the numbers, wrapped.
LEMMA WrapSum ==
    ASSUME NEW a \in Int, NEW b \in Int
    PROVE  /\ Wrap(Wrap(a) + b) = Wrap(a + b)
           /\ Wrap(Wrap(a) + Wrap(b)) = Wrap(a + b)
<1>1. PICK p \in Int : Wrap(a) = a + Values * p
  BY WrapMoves
<1>2. PICK q \in Int : Wrap(b) = b + Values * q
  BY WrapMoves
<1>3. PICK n \in Int : n = a + b
  OBVIOUS
<1>4. Wrap(a) + b = n + Values * p
  BY <1>1, <1>3, ValuesPositive
<1>5. Wrap(a) + Wrap(b) = n + Values * (p + q)
  <2>1. Values * (p + q) = Values * p + Values * q /\ Values * p \in Int /\ Values * q \in Int
    BY ValuesPositive
  <2>2. QED
    BY <1>1, <1>2, <1>3, <2>1
<1>6. Wrap(n + Values * p) = Wrap(n)
  BY WrapShift
<1>7. Wrap(n + Values * (p + q)) = Wrap(n)
  <2>1. PICK s \in Int : s = p + q
    OBVIOUS
  <2>2. Wrap(n + Values * s) = Wrap(n)
    BY WrapShift
  <2>3. QED
    BY <2>1, <2>2
<1>8. QED
  BY <1>3, <1>4, <1>5, <1>6, <1>7

LEMMA WrapProduct ==
    ASSUME NEW a \in Int, NEW b \in Int
    PROVE  Wrap(Wrap(a) * b) = Wrap(a * b)
<1>1. PICK p \in Int : Wrap(a) = a + Values * p
  BY WrapMoves
<1>2. PICK n \in Int : n = a * b
  OBVIOUS
<1>3. PICK s \in Int : s = p * b
  OBVIOUS
<1>4. (a + Values * p) * b = n + Values * s
  BY <1>2, <1>3, ValuesPositive
<1>5. Wrap(n + Values * s) = Wrap(n)
  BY WrapShift
<1>6. QED
  BY <1>1, <1>2, <1>4, <1>5

-------------------------------------------------------------------------------
(* Recursive functions: the reference definitions are what they look like *)

\* The usual order of the natural numbers.
Less == {p \in Nat \X Nat : p[1] < p[2]}

LEMMA LessWellFounded == IsWellFoundedOn(Less, Nat)
BY NatLessThanWellFounded DEF OpToRel, Less

\* Induction over a set of numbers.
LEMMA Induction ==
    ASSUME NEW T \in SUBSET Nat, 0 \in T, \A n \in T : n + 1 \in T
    PROVE  T = Nat
<1> SUFFICES ASSUME Nat \ T # {} PROVE FALSE
  OBVIOUS
<1>1. PICK m \in Nat \ T : \A n \in Nat \ T : ~(<<n, m>> \in Less)
  BY LessWellFounded, WFMin
<1>2. m \in Nat /\ m # 0
  OBVIOUS
<1>3. PICK k \in Nat : m = k + 1
  <2>1. m - 1 \in Nat /\ m = (m - 1) + 1
    BY <1>2
  <2>2. QED
    BY <2>1
<1>4. <<k, m>> \in Less
  BY <1>3 DEF Less
<1>5. k \in T
  BY <1>1, <1>4
<1>6. QED
  BY <1>3, <1>5

\* g is the beginning of a sequence that starts with a and steps with h.
Begins(g, n, a, h) == g[0] = a /\ \A k \in Nat : k < n => g[k + 1] = h[<<k, g[k]>>]

\* Two such beginnings agree as far as both go.
LEMMA BeginsUnique ==
    ASSUME NEW a, NEW h, NEW g, NEW f, NEW n \in Nat, Begins(g, n, a, h), Begins(f, n, a, h)
    PROVE  \A k \in Nat : k <= n => g[k] = f[k]
<1> DEFINE T == {k \in Nat : k <= n => g[k] = f[k]}
<1>1. 0 \in T
  BY DEF Begins
<1>2. ASSUME NEW k \in T PROVE k + 1 \in T
  <2>1. k \in Nat /\ k + 1 \in Nat
    BY <1>2
  <2>2. k + 1 <= n => k < n /\ k <= n
    BY <2>1
  <2>3. k + 1 <= n => g[k + 1] = f[k + 1]
    BY <1>2, <2>1, <2>2 DEF Begins
  <2>4. QED
    BY <2>1, <2>3
<1> HIDE DEF T
<1>3. T \in SUBSET Nat
  BY DEF T
<1>4. T = Nat
  BY <1>1, <1>2, <1>3, Induction
<1>5. QED
  BY <1>4 DEF T

\* There is a beginning of every length.
LEMMA BeginsExists ==
    ASSUME NEW S, NEW a \in S, NEW h \in [Nat \X S -> S], NEW n \in Nat
    PROVE  \E g \in [Nat -> S] : Begins(g, n, a, h)
<1> DEFINE T == {m \in Nat : \E g \in [Nat -> S] : Begins(g, m, a, h)}
<1>1. 0 \in T
  <2>1. [k \in Nat |-> a] \in [Nat -> S] /\ Begins([k \in Nat |-> a], 0, a, h)
    BY DEF Begins
  <2>2. QED
    BY <2>1
<1>2. ASSUME NEW m \in T PROVE m + 1 \in T
  <2>1. m \in Nat /\ m + 1 \in Nat /\ m + 1 # 0
    BY <1>2
  <2>2. PICK g \in [Nat -> S] : Begins(g, m, a, h)
    BY <1>2
  <2> DEFINE f == [k \in Nat |-> IF k = m + 1 THEN h[<<m, g[m]>>] ELSE g[k]]
  <2>3. <<m, g[m]>> \in Nat \X S
    BY <2>1
  <2>4. f \in [Nat -> S]
    BY <2>3
  <2>5. f[0] = a
    BY <2>1, <2>2 DEF Begins
  <2>6. ASSUME NEW k \in Nat, k < m + 1 PROVE f[k + 1] = h[<<k, f[k]>>]
    <3>1. k # m + 1 /\ f[k] = g[k]
      BY <2>1, <2>6
    <3>2. CASE k = m
      BY <2>1, <3>1, <3>2
    <3>3. CASE k # m
      <4>1. k < m /\ k + 1 # m + 1 /\ k + 1 \in Nat
        BY <2>1, <2>6, <3>3
      <4>2. g[k + 1] = h[<<k, g[k]>>]
        BY <2>2, <4>1 DEF Begins
      <4>3. QED
        BY <3>1, <4>1, <4>2
    <3>4. QED
      BY <3>2, <3>3
  <2> HIDE DEF f
  <2>7. Begins(f, m + 1, a, h)
    BY <2>5, <2>6 DEF Begins
  <2>8. QED
    BY <2>1, <2>4, <2>7
<1> HIDE DEF T
<1>3. T \in SUBSET Nat
  BY DEF T
<1>4. T = Nat
  BY <1>1, <1>2, <1>3, Induction
<1>5. QED
  BY <1>4 DEF T

\* f is the sequence over S that starts with a and steps with h.
Unfolds(f, S, a, h) == /\ f \in [Nat -> S]
                       /\ f[0] = a /\ \A n \in Nat : f[n + 1] = h[<<n, f[n]>>]
StepOf(h, S) == h \in [Nat \X S -> S]

\* Definition by recursion: the whole sequence exists.
LEMMA Recursion ==
    ASSUME NEW S, NEW a \in S, NEW h, StepOf(h, S)
    PROVE  \E f : Unfolds(f, S, a, h)
<1> DEFINE G(n) == CHOOSE g \in [Nat -> S] : Begins(g, n, a, h)
           f == [n \in Nat |-> G(n)[n]]
<1>1. \A n \in Nat : G(n) \in [Nat -> S] /\ Begins(G(n), n, a, h)
  BY BeginsExists DEF StepOf
<1> HIDE DEF G
<1>2. f \in [Nat -> S]
  BY <1>1
<1>3. f[0] = a
  BY <1>1 DEF Begins
<1>4. ASSUME NEW n \in Nat PROVE f[n + 1] = h[<<n, f[n]>>]
  <2>1. n + 1 \in Nat /\ n < n + 1 /\ n <= n
    OBVIOUS
  <2>2. G(n + 1)[n + 1] = h[<<n, G(n + 1)[n]>>]
    BY <1>1, <2>1 DEF Begins
  <2>3. Begins(G(n + 1), n, a, h)
    <3>1. \A k \in Nat : k < n => k < n + 1
      OBVIOUS
    <3>2. QED
      BY <1>1, <2>1, <3>1 DEF Begins
  <2>4. G(n + 1)[n] = G(n)[n]
    BY <1>1, <2>1, <2>3, BeginsUnique
  <2>5. QED
    BY <2>1, <2>2, <2>4
<1> HIDE DEF f
<1>5. QED
  BY <1>2, <1>3, <1>4 DEF Unfolds

\* Fact is the factorial function.
LEMMA FactIs ==
    /\ Fact \in [Nat -> Int]
    /\ Fact[1] = 1
    /\ \A n \in Nat : Fact[n + 1] = (n + 1) * Fact[n]
<1> DEFINE h == [p \in Nat \X Int |-> (p[1] + 1) * p[2]]
<1>1. /\ StepOf(h, Int) /\ 1 \in Int
      /\ \A n \in Nat, v \in Int : h[<<n, v>>] = (n + 1) * v
  BY DEF StepOf
<1> HIDE DEF h
<1>2. PICK f \in [Nat -> Int] : f[0] = 1 /\ \A n \in Nat : f[n + 1] = h[<<n, f[n]>>]
  <2>1. \E f : Unfolds(f, Int, 1, h)
    BY <1>1, Recursion, Zenon
  <2>2. QED
    BY <2>1 DEF Unfolds
<1>3. f = [n \in Nat |-> IF n = 0 THEN 1 ELSE n * f[n - 1]]
  <2>1. ASSUME NEW n \in Nat PROVE f[n] = IF n = 0 THEN 1 ELSE n * f[n - 1]
    <3>1. CASE n = 0
      BY <1>2, <3>1
    <3>2. CASE n # 0
      <4>1. PICK m \in Nat : n = m + 1 /\ m = n - 1
        <5>1. n - 1 \in Nat /\ n = (n - 1) + 1
          BY <3>2
        <5>2. QED
          BY <5>1
      <4>2. f[m + 1] = (m + 1) * f[m]
        BY <1>1, <1>2
      <4>3. QED
        BY <3>2, <4>1, <4>2
    <3>3. QED
      BY <3>1, <3>2
  <2>2. QED
    BY <2>1
<1>4. Fact = [n \in Nat |-> IF n = 0 THEN 1 ELSE n * Fact[n - 1]]
  BY <1>3 DEF Fact
<1>5. Fact[0] = 1
  BY <1>4
<1>6. ASSUME NEW n \in Nat PROVE Fact[n + 1] = (n + 1) * Fact[n]
  <2>1. n + 1 \in Nat /\ n + 1 # 0 /\ (n + 1) - 1 = n
    OBVIOUS
  <2>2. Fact[n + 1] = IF n + 1 = 0 THEN 1 ELSE (n + 1) * Fact[(n + 1) - 1]
    BY <1>4, <2>1
  <2>3. QED
    BY <2>1, <2>2
<1> DEFINE T == {n \in Nat : Fact[n] \in Int}
<1>7. \A n \in T : n + 1 \in T
  BY <1>6
<1>8. 0 \in T
  BY <1>5
<1>9. \A n \in Nat : Fact[n] \in Int
  <2> HIDE DEF T
  <2>1. T \in SUBSET Nat
    BY DEF T
  <2>2. T = Nat
    BY <1>7, <1>8, <2>1, Induction
  <2>3. QED
    BY <2>2 DEF T
<1>10. Fact \in [Nat -> Int]
  <2>1. DOMAIN Fact = Nat /\ Fact = [n \in Nat |-> Fact[n]]
    BY <1>4
  <2>2. QED
    BY <1>9, <2>1
<1>11. Fact[1] = 1
  <2>1. Fact[0 + 1] = (0 + 1) * Fact[0]
    BY <1>6
  <2>2. QED
    BY <1>5, <2>1
<1>12. QED
  BY <1>6, <1>10, <1>11

\* Fib is the Fibonacci function: its values come from the sequence of the
\* pairs of neighbours.
LEMMA FibIs ==
    /\ Fib \in [Nat -> Int]
    /\ Fib[0] = 1 /\ Fib[1] = 1 /\ Fib[2] = 1
    /\ \A n \in Nat : n >= 2 => Fib[n + 1] = Fib[n] + Fib[n - 1]
<1> DEFINE P == Int \X Int
           h == [p \in Nat \X P |-> <<p[2][2], IF p[1] = 0 THEN 1 ELSE p[2][2] + p[2][1]>>]
<1>1. StepOf(h, P)
  BY DEF StepOf
<1>2. \A n \in Nat, v \in P : h[<<n, v>>] = <<v[2], IF n = 0 THEN 1 ELSE v[2] + v[1]>>
  OBVIOUS
<1> HIDE DEF h
<1>3. PICK f \in [Nat -> P] : f[0] = <<1, 1>> /\ \A n \in Nat : f[n + 1] = h[<<n, f[n]>>]
  <2>1. <<1, 1>> \in P
    OBVIOUS
  <2> HIDE DEF P
  <2>2. \E f : Unfolds(f, P, <<1, 1>>, h)
    BY <1>1, <2>1, Recursion, Zenon
  <2>3. QED
    BY <2>2 DEF Unfolds
<1> DEFINE g == [n \in Nat |-> f[n][1]]
<1>4. \A n \in Nat : g[n] \in Int
  OBVIOUS
<1>5. g[0] = 1 /\ g[1] = 1 /\ g[2] = 1
  <2>1. \A n \in Nat : f[n + 1] = <<f[n][2], IF n = 0 THEN 1 ELSE f[n][2] + f[n][1]>>
    BY <1>2, <1>3
  <2>2. f[0 + 1] = <<f[0][2], 1>>
    BY <2>1
  <2>3. f[1] = <<1, 1>>
    BY <1>3, <2>2
  <2>4. f[1 + 1] = <<f[1][2], f[1][2] + f[1][1]>>
    BY <2>1
  <2>5. QED
    BY <1>3, <2>3, <2>4
<1>6. ASSUME NEW n \in Nat, n # 0 PROVE g[n + 2] = g[n + 1] + g[n]
  <2>1. n + 1 \in Nat /\ n + 2 \in Nat /\ n + 1 # 0 /\ (n + 1) + 1 = n + 2
    OBVIOUS
  <2>2. f[n + 1] = <<f[n][2], f[n][2] + f[n][1]>>
    BY <1>2, <1>3, <1>6
  <2>3. f[(n + 1) + 1][1] = f[n + 1][2]
    <3>1. PICK m \in Nat : m = n + 1
      BY <2>1
    <3>2. f[m + 1] = <<f[m][2], IF m = 0 THEN 1 ELSE f[m][2] + f[m][1]>>
      BY <1>2, <1>3
    <3>3. QED
      BY <3>1, <3>2
  <2>4. QED
    BY <2>1, <2>2, <2>3
<1> HIDE DEF g
<1>7. g = [n \in Nat |-> IF n <= 2 THEN 1 ELSE g[n - 1] + g[n - 2]]
  <2>1. ASSUME NEW n \in Nat PROVE g[n] = IF n <= 2 THEN 1 ELSE g[n - 1] + g[n - 2]
    <3>1. CASE n <= 2
      <4>1. n = 0 \/ n = 1 \/ n = 2
        BY <3>1
      <4>2. QED
        BY <1>5, <3>1, <4>1
    <3>2. CASE ~(n <= 2)
      <4>1. PICK m \in Nat : m # 0 /\ m = n - 2 /\ n = m + 2 /\ m + 1 = n - 1
        <5>1. n - 2 \in Nat /\ n - 2 # 0 /\ n = (n - 2) + 2 /\ (n - 2) + 1 = n - 1
          BY <3>2
        <5>2. QED
          BY <5>1
      <4>2. g[m + 2] = g[m + 1] + g[m]
        BY <1>6, <4>1
      <4>3. QED
        BY <3>2, <4>1, <4>2
    <3>3. QED
      BY <3>1, <3>2
  <2>2. g = [n \in Nat |-> g[n]]
    BY DEF g
  <2>3. QED
    BY <2>1, <2>2
<1>8. Fib = [n \in Nat |-> IF n <= 2 THEN 1 ELSE Fib[n - 1] + Fib[n - 2]]
  BY <1>7 DEF Fib
<1>9. Fib[0] = 1 /\ Fib[1] = 1 /\ Fib[2] = 1
  BY <1>8
<1>10. ASSUME NEW n \in Nat, n >= 2 PROVE Fib[n + 1] = Fib[n] + Fib[n - 1]
  <2>1. n + 1 \in Nat /\ ~(n + 1 <= 2) /\ (n + 1) - 1 = n /\ (n + 1) - 2 = n - 1
    BY <1>10
  <2>2. Fib[n + 1] = IF n + 1 <= 2 THEN 1 ELSE Fib[(n + 1) - 1] + Fib[(n + 1) - 2]
    BY <1>8, <2>1
  <2>3. QED
    BY <2>1, <2>2
<1> DEFINE T == {n \in Nat : Fib[n] \in Int /\ Fib[n + 1] \in Int}
<1>11. 0 \in T
  BY <1>9
<1>12. ASSUME NEW n \in T PROVE n + 1 \in T
  <2>1. n \in Nat /\ n + 1 \in Nat /\ (n + 1) + 1 = n + 2 /\ (n + 1) - 1 = n
    OBVIOUS
  <2>2. Fib[n + 1] \in Int /\ Fib[n] \in Int
    OBVIOUS
  <2>3. CASE n = 0
    BY <1>9, <2>3
  <2>4. CASE n # 0
    <3>1. n + 1 >= 2
      BY <2>1, <2>4
    <3>2. Fib[(n + 1) + 1] = Fib[n + 1] + Fib[(n + 1) - 1]
      BY <1>10, <2>1, <3>1
    <3>3. QED
      BY <2>1, <2>2, <3>2
  <2>5. QED
    BY <2>3, <2>4
<1>13. \A n \in Nat : Fib[n] \in Int
  <2> HIDE DEF T
  <2>1. T \in SUBSET Nat
    BY DEF T
  <2>2. T = Nat
    BY <1>11, <1>12, <2>1, Induction
  <2>3. QED
    BY <2>2 DEF T
<1>14. Fib \in [Nat -> Int]
  <2>1. DOMAIN Fib = Nat /\ Fib = [n \in Nat |-> Fib[n]]
    BY <1>8
  <2>2. QED
    BY <1>13, <2>1
<1>15. QED
  BY <1>9, <1>10, <1>14

-------------------------------------------------------------------------------
(* Every step keeps FInv *)

\* Steps that leave the thread functions' data alone.
LEMMA FrameStep ==
    ASSUME FInv, UNCHANGED <<arg, i, x, y, balance, committed, environment>>,
           allocated' \subseteq allocated,
           \A t \in {0, 1} : t \in allocated' => (Leaving(t)' <=> Leaving(t)),
           \A t \in {0, 1} : t \in allocated \ allocated' => Leaving(t),
           EndInv'
    PROVE  FInv'
<1> USE DEF FInv
<1>1. BankInv'
  BY DEF BankInv, Moved, Fits
<1>2. LoopInv'
  BY DEF LoopInv
<1>3. ValueInv'
  BY DEF ValueInv
<1>4. QED
  BY <1>1, <1>2, <1>3

\* Signals arrive, and thread_yield() opens and closes its windows.
LEMMA SignalFunctions ==
    ASSUME FInv, \/ YieldTstpMask \/ YieldBaseMask \/ AlarmExpires \/ Stop
                 \/ \E s \in base_mask : sighandler(s)
    PROVE  FInv'
<1>1. UNCHANGED <<arg, i, x, y, balance, committed, environment, ready_queue, rq_current, allocated>>
  BY DEF YieldTstpMask, YieldBaseMask, AlarmExpires, Stop, sighandler, tcbs, bank, queues
<1>2. \/ pc \in {"window_tstp", "window_alrm"} /\ pc' = "scheduler" /\ val' = 1
      \/ pc \in {"window_tstp", "window_alrm"} /\ pc' \in {"window_alrm", "running"}
      \/ pc' = pc /\ val' = val
  BY DEF YieldTstpMask, YieldBaseMask, AlarmExpires, Stop, sighandler
<1>3. \A t \in {0, 1} : Leaving(t)' <=> Leaving(t)
  BY <1>1, <1>2 DEF Leaving, RUNNING
<1>4. EndInv'
  BY <1>1, <1>2 DEF FInv, EndInv
<1>5. QED
  BY <1>1, <1>3, <1>4, FrameStep

\* One pass of scheduler(): it frees only the thread that leaves.
LEMMA SchedulerFunctions ==
    ASSUME IInv, IInv', FInv, scheduler
    PROVE  FInv'
<1>1. pc = "scheduler"
  BY DEF scheduler, Start, Preempt, Block, Reap, Return
<1>2. UNCHANGED <<arg, i, x, y, balance, committed, environment>> /\ pc' \in {"running", "end"}
  BY DEF scheduler, Start, Preempt, Block, Reap, Return, Dispatch, tcbs, bank
<1>3. pc' = "end" => ready_queue' = <<>> /\ waiting_queue' = <<>>
  BY DEF scheduler, Start, Preempt, Block, Reap, Return, Dispatch, queues
<1>4. EndInv'
  BY <1>3 DEF EndInv, IInv, QueuesExact, Range
<1>5. \A t : ~Leaving(t)'
  BY <1>2 DEF Leaving
<1>6. CASE Reap
  <2>1. val = 3 /\ allocated' = allocated \ {RUNNING}
    BY <1>6 DEF Reap
  <2>2. \A t : Leaving(t) <=> t = RUNNING
    BY <1>1, <2>1 DEF Leaving
  <2>3. QED
    BY <1>2, <1>4, <1>5, <2>1, <2>2, FrameStep
<1>7. CASE Start \/ Preempt \/ Block
  <2>1. val # 3 /\ allocated' = allocated
    BY <1>7 DEF Start, Preempt, Block
  <2>2. \A t : ~Leaving(t)
    BY <2>1 DEF Leaving
  <2>3. QED
    BY <1>2, <1>4, <1>5, <2>1, <2>2, FrameStep
<1>8. CASE Return
  <2>1. allocated = {} /\ allocated' = allocated
    BY <1>8 DEF Return, queues, IInv, QueuesExact, Range
  <2>2. QED
    BY <1>2, <1>4, <2>1, FrameStep
<1>9. QED
  BY <1>6, <1>7, <1>8 DEF scheduler

\* One round of a loop: the round after the last one, never one too many.
LEMMA LoopRound ==
    ASSUME IInv, LoopInv, NEW t \in {0, 1}, t \in allocated, pc = "running", t = RUNNING,
           i' = [i EXCEPT ![t] = Round(t)], EndRound(t),
           UNCHANGED <<arg, ready_queue, rq_current, allocated>>
    PROVE  /\ Round(t) = i[t] + 1 /\ i'[t] = i[t] + 1
           /\ \A u \in Thread \ {t} : environment'[u] = environment[u] /\ i'[u] = i[u]
           /\ LoopInv' /\ pc' # "end"
<1>1. /\ i \in [Thread -> Nat] /\ arg \in [Thread -> Int] /\ t \in Thread
      /\ environment \in [Thread -> {"setup", "loop", "step2", "step3"}]
      /\ environment[t] \in {"setup", "loop"}
  BY DEF IInv, TypeOK, PlaceInv, Thread
<1>2. ~Leaving(t) /\ \A u : ~Leaving(u)
  BY DEF Leaving
<1>3. i[t] < arg[t] /\ (environment[t] = "setup" <=> i[t] = 0)
  BY <1>2 DEF LoopInv
<1>4. Round(t) = i[t] + 1
  BY <1>1, <1>3 DEF Round
<1>5. i'[t] = i[t] + 1 /\ i'[t] \in Nat /\ i'[t] > 0 /\ i'[t] <= arg[t]
  BY <1>1, <1>3, <1>4
<1>6. \/ i'[t] = arg[t] /\ pc' = "scheduler" /\ val' = 3 /\ environment' = environment
      \/ i'[t] # arg[t] /\ pc' = "window_tstp" /\ environment' = [environment EXCEPT ![t] = "loop"]
  BY <1>4, <1>5 DEF EndRound, thread_exit, GotoScheduler, thread_yield
<1>7. \A u \in Thread \ {t} : environment'[u] = environment[u] /\ i'[u] = i[u]
  BY <1>1, <1>6
<1>8. RUNNING' = t
  BY DEF RUNNING
<1>9. \A u \in {0, 1} : u # t => /\ u \in Thread \ {t} /\ ~Leaving(u)'
  BY <1>8 DEF Leaving, Thread
<1>10. \A u \in {0, 1} : u # t =>
          /\ u \in allocated' /\ ~Leaving(u)' => /\ i'[u] < arg'[u]
                                                 /\ environment'[u] = "setup" <=> i'[u] = 0
          /\ u \in allocated' /\ Leaving(u)' => i'[u] = arg'[u] /\ i'[u] > 0
          /\ u \notin allocated' => i'[u] = IF arg'[u] > 0 THEN arg'[u] ELSE 0
  BY <1>2, <1>7, <1>9 DEF LoopInv
<1>11. Leaving(t)' => i'[t] = arg'[t] /\ i'[t] > 0
  BY <1>5, <1>6 DEF Leaving
<1>12. ~Leaving(t)' => i'[t] < arg'[t] /\ environment'[t] = "loop"
  <2>1. ~Leaving(t)' => i'[t] # arg[t] /\ environment'[t] = "loop"
    BY <1>1, <1>6, <1>8 DEF Leaving
  <2>2. QED
    BY <1>1, <1>5, <2>1
<1>13. LoopInv'
  BY <1>5, <1>10, <1>11, <1>12 DEF LoopInv
<1>14. QED
  BY <1>4, <1>5, <1>6, <1>7, <1>13

\* fibonacci and factorial leave the bank and its threads alone.
LEMMA BankUntouched ==
    ASSUME IInv, BankInv, UNCHANGED <<arg, balance, committed, allocated>>,
           \A u \in {2, 3} : environment'[u] = environment[u]
    PROVE  BankInv'
<1>1. committed \subseteq {2, 3}
  BY DEF IInv, TypeOK
<1>2. QED
  BY <1>1 DEF BankInv, Moved, Fits

\* A round of fibonacci.
LEMMA FibonacciStep ==
    ASSUME IInv, FInv, NEW t \in allocated, pc = "running", t = RUNNING, fibonacci(t),
           UNCHANGED <<arg, ready_queue, rq_current, allocated>>
    PROVE  FInv'
<1> USE DEF FInv
<1>1. /\ t = 0 /\ t \in {0, 1} /\ EndRound(t) /\ i' = [i EXCEPT ![t] = Round(t)]
      /\ UNCHANGED <<balance, committed>>
  BY DEF fibonacci, bank
<1>2. /\ Round(t) = i[t] + 1 /\ i'[t] = i[t] + 1
      /\ \A u \in Thread \ {t} : environment'[u] = environment[u] /\ i'[u] = i[u]
      /\ LoopInv' /\ pc' # "end"
  BY <1>1, LoopRound
<1>3. BankInv'
  BY <1>1, <1>2, BankUntouched DEF Thread
<1>4. PICK n \in Nat : n = i[0] /\ i'[0] = n + 1 /\ Round(0) = n + 1
  BY <1>1, <1>2 DEF IInv, TypeOK, Thread
<1>5. /\ x'[0] = IF Round(0) <= 2 THEN 1 ELSE y[0]
      /\ y'[0] = IF Round(0) <= 2 THEN 1 ELSE Wrap(x[0] + y[0])
      /\ y'[1] = y[1] /\ i'[1] = i[1]
  BY <1>1, <1>2 DEF fibonacci, IInv, TypeOK, Thread
<1>6. y'[0] = Wrap(Fib[n + 1]) /\ x'[0] = Wrap(Fib[(n + 1) - 1])
  <2>1. CASE n <= 1
    <3>1. n = 0 \/ n = 1
      BY <2>1
    <3>2. x'[0] = 1 /\ y'[0] = 1
      BY <1>4, <1>5, <2>1
    <3>3. Wrap(1) = 1
      BY WrapFits, ThreadsAssumption
    <3>4. Fib[n + 1] = 1 /\ Fib[(n + 1) - 1] = 1
      <4>1. /\ n = 0 => n + 1 = 1 /\ (n + 1) - 1 = 0
            /\ n = 1 => n + 1 = 2 /\ (n + 1) - 1 = 1
        OBVIOUS
      <4>2. QED
        BY <3>1, <4>1, FibIs
    <3>5. QED
      BY <3>2, <3>3, <3>4
  <2>2. CASE ~(n <= 1)
    <3>1. n >= 2 /\ n > 0 /\ ~(n + 1 <= 2) /\ (n + 1) - 1 = n /\ n - 1 \in Nat
      BY <2>2
    <3>2. x[0] = Wrap(Fib[n - 1]) /\ y[0] = Wrap(Fib[n])
      BY <1>4, <3>1 DEF ValueInv
    <3>3. x'[0] = Wrap(Fib[n]) /\ y'[0] = Wrap(Wrap(Fib[n - 1]) + Wrap(Fib[n]))
      BY <1>4, <1>5, <3>1, <3>2
    <3>4. PICK a \in Int, b \in Int : a = Fib[n - 1] /\ b = Fib[n]
      BY <3>1, FibIs
    <3>5. Wrap(Wrap(a) + Wrap(b)) = Wrap(a + b)
      BY WrapSum
    <3>6. Fib[n + 1] = a + b
      BY <3>1, <3>4, FibIs
    <3>7. QED
      BY <3>1, <3>3, <3>4, <3>5, <3>6
  <2>3. QED
    BY <2>1, <2>2
<1>7. ValueInv'
  BY <1>4, <1>5, <1>6 DEF ValueInv
<1>8. QED
  BY <1>2, <1>3, <1>7 DEF EndInv

\* A round of factorial.
LEMMA FactorialStep ==
    ASSUME IInv, FInv, NEW t \in allocated, pc = "running", t = RUNNING, factorial(t),
           UNCHANGED <<arg, ready_queue, rq_current, allocated>>
    PROVE  FInv'
<1> USE DEF FInv
<1>1. /\ t = 1 /\ t \in {0, 1} /\ EndRound(t) /\ i' = [i EXCEPT ![t] = Round(t)]
      /\ UNCHANGED <<balance, committed>>
  BY DEF factorial, bank
<1>2. /\ Round(t) = i[t] + 1 /\ i'[t] = i[t] + 1
      /\ \A u \in Thread \ {t} : environment'[u] = environment[u] /\ i'[u] = i[u]
      /\ LoopInv' /\ pc' # "end"
  BY <1>1, LoopRound
<1>3. BankInv'
  BY <1>1, <1>2, BankUntouched DEF Thread
<1>4. PICK n \in Nat : n = i[1] /\ i'[1] = n + 1 /\ Round(1) = n + 1
  BY <1>1, <1>2 DEF IInv, TypeOK, Thread
<1>5. /\ y'[1] = IF Round(1) <= 1 THEN 1 ELSE Wrap(y[1] * Round(1))
      /\ y'[0] = y[0] /\ i'[0] = i[0] /\ x' = x
  BY <1>1, <1>2 DEF factorial, IInv, TypeOK, Thread
<1>6. y'[1] = Wrap(Fact[n + 1])
  <2>1. CASE n = 0
    <3>1. y'[1] = 1
      BY <1>4, <1>5, <2>1
    <3>2. Wrap(1) = 1
      BY WrapFits, ThreadsAssumption
    <3>3. Fact[n + 1] = 1
      BY <2>1, FactIs
    <3>4. QED
      BY <3>1, <3>2, <3>3
  <2>2. CASE n # 0
    <3>1. n > 0 /\ ~(n + 1 <= 1)
      BY <2>2
    <3>2. y'[1] = Wrap(Wrap(Fact[n]) * (n + 1))
      BY <1>4, <1>5, <3>1 DEF ValueInv
    <3>3. PICK a \in Int, b \in Int : a = Fact[n] /\ b = n + 1
      BY FactIs
    <3>4. Wrap(Wrap(a) * b) = Wrap(a * b)
      BY WrapProduct
    <3>5. Fact[n + 1] = b * a /\ b * a = a * b
      BY <3>3, FactIs
    <3>6. QED
      BY <3>2, <3>3, <3>4, <3>5
  <2>3. QED
    BY <2>1, <2>2
<1>7. ValueInv'
  BY <1>4, <1>5, <1>6 DEF ValueInv
<1>8. QED
  BY <1>2, <1>3, <1>7 DEF EndInv

\* A step of a bank thread leaves the loops alone.
LEMMA LoopsUntouched ==
    ASSUME FInv, pc = "running", UNCHANGED <<arg, i, x, y, ready_queue, rq_current, allocated>>,
           RUNNING \notin {0, 1}, pc' # "end",
           \A u \in {0, 1} : environment'[u] = environment[u]
    PROVE  LoopInv' /\ ValueInv' /\ EndInv'
<1> USE DEF FInv
<1>1. RUNNING' = RUNNING
  BY DEF RUNNING
<1>2. \A u \in {0, 1} : ~Leaving(u) /\ ~Leaving(u)'
  BY <1>1 DEF Leaving
<1>3. LoopInv'
  BY <1>2 DEF LoopInv
<1>4. ValueInv' /\ EndInv'
  BY DEF ValueInv, EndInv
<1>5. QED
  BY <1>3, <1>4

\* What a bank thread adds to the operations that took effect.
LEMMA MovedAdd ==
    ASSUME NEW D \in SUBSET {2, 3}, NEW t \in {2, 3}, t \notin D, arg \in [Thread -> Int]
    PROVE  Moved(D) \in Int /\ Moved(D \cup {t}) = Moved(D) + arg[t]
<1>1. arg[2] \in Int /\ arg[3] \in Int
  BY DEF Thread
<1>2. CASE t = 2
  BY <1>1, <1>2 DEF Moved
<1>3. CASE t = 3
  BY <1>1, <1>3 DEF Moved
<1>4. QED
  BY <1>2, <1>3

\* A bank thread's part of bank_operation.
LEMMA BankStep ==
    ASSUME IInv, FInv, NEW t \in allocated, pc = "running", t = RUNNING,
           BankLock(t) \/ BankUpdate(t) \/ BankUnlock(t),
           UNCHANGED <<arg, ready_queue, rq_current, allocated>>
    PROVE  FInv'
<1> USE DEF FInv
<1>1. /\ t \in {2, 3} /\ t \in Thread /\ t \notin {0, 1} /\ UNCHANGED <<i, x, y>> /\ pc' # "end"
      /\ environment \in [Thread -> {"setup", "loop", "step2", "step3"}]
      /\ \/ environment' = environment
         \/ environment[t] = "setup" /\ environment' = [environment EXCEPT ![t] = "step2"]
         \/ environment[t] = "step2" /\ environment' = [environment EXCEPT ![t] = "step3"]
  <2>1. t \in {2, 3} /\ UNCHANGED <<i, x, y>>
    BY DEF BankLock, BankUpdate, BankUnlock
  <2>2. t \in Thread /\ t \notin {0, 1}
    BY <2>1 DEF Thread
  <2>3. environment \in [Thread -> {"setup", "loop", "step2", "step3"}]
    BY DEF IInv, TypeOK
  <2>4. CASE BankLock(t)
    BY <2>1, <2>2, <2>3, <2>4 DEF BankLock, thread_yield, GotoScheduler
  <2>5. CASE BankUpdate(t)
    BY <2>1, <2>2, <2>3, <2>5 DEF BankUpdate, thread_yield
  <2>6. CASE BankUnlock(t)
    BY <2>1, <2>2, <2>3, <2>6 DEF BankUnlock, thread_exit, GotoScheduler
  <2>7. QED
    BY <2>4, <2>5, <2>6
<1>2. LoopInv' /\ ValueInv' /\ EndInv'
  <2>1. \A u \in {0, 1} : environment'[u] = environment[u]
    BY <1>1 DEF Thread
  <2>2. QED
    BY <1>1, <2>1, LoopsUntouched
<1>3. \A u \in {2, 3} : environment[u] = "step3" => environment'[u] = "step3"
  BY <1>1 DEF Thread
<1>4. BankInv'
  <2>1. committed \subseteq {2, 3} /\ arg \in [Thread -> Int] /\ balance \in Int /\ arg[t] \in Int
    BY <1>1 DEF IInv, TypeOK
  <2>2. CASE UNCHANGED <<balance, committed>>
    BY <1>3, <2>1, <2>2 DEF BankInv, Moved, Fits
  <2>3. CASE ~UNCHANGED <<balance, committed>>
    <3>1. /\ environment[t] = "step2" /\ environment'[t] = "step3"
          /\ arg[t] > 0 \/ balance >= Wrap(-arg[t])
          /\ balance' = Wrap(balance + arg[t]) /\ committed' = committed \cup {t}
      BY <1>1, <2>3 DEF BankLock, BankUpdate, BankUnlock, thread_yield
    <3>2. t \notin committed
      BY <3>1 DEF BankInv
    <3>3. PICK m \in Int : m = Moved(committed)
      BY <2>1, <3>2, MovedAdd, <1>1
    <3>4. Moved(committed') = m + arg[t] /\ Moved(committed)' = m + arg[t]
      <4>1. Moved(committed \cup {t}) = m + arg[t]
        BY <1>1, <2>1, <3>2, <3>3, MovedAdd
      <4>2. Moved(committed') = m + arg[t]
        BY <3>1, <4>1
      <4>3. QED
        BY <4>2 DEF Moved
    <3>5. balance = Wrap(500 + m)
      BY <3>3 DEF BankInv
    <3>6. balance' = Wrap(500 + (m + arg[t]))
      <4>1. PICK a \in Int, b \in Int : a = 500 + m /\ b = arg[t]
        BY <2>1
      <4>2. Wrap(Wrap(a) + b) = Wrap(a + b)
        BY WrapSum
      <4>3. a + b = 500 + (m + arg[t])
        BY <2>1, <4>1
      <4>4. QED
        BY <3>1, <3>5, <4>1, <4>2, <4>3
    <3>7. Fits' => Fits
      BY DEF Fits, Moved
    <3>8. ASSUME Fits PROVE balance' = 500 + (m + arg[t]) /\ balance' >= 0
      <4>1. PICK b \in Int : b = arg[t]
        BY <2>1
      <4>2. balance = 500 + m /\ balance >= 0
        BY <3>3, <3>8 DEF BankInv
      <4>3. 500 + (m + b) <= IntMax /\ b >= -IntMax
        <5>1. committed' \in SUBSET {2, 3}
          BY <1>1, <2>1, <3>1
        <5>2. 500 + Moved(committed') <= IntMax /\ arg[t] >= -IntMax
          BY <1>1, <3>8, <5>1 DEF Fits
        <5>3. QED
          BY <3>4, <4>1, <5>2
      <4>4. b <= 0 => balance >= -b
        <5>1. b <= 0 => -b \in (-IntMax - 1)..IntMax
          BY <4>3, ThreadsAssumption
        <5>2. b <= 0 => Wrap(-b) = -b
          BY <5>1, WrapFits
        <5>3. b > 0 \/ balance >= Wrap(-b)
          BY <3>1, <4>1
        <5>4. QED
          BY <5>2, <5>3
      <4>5. 500 + (m + b) >= 0
        <5>1. CASE b > 0
          BY <2>1, <4>2, <5>1
        <5>2. CASE b <= 0
          BY <2>1, <4>2, <4>4, <5>2
        <5>3. QED
          BY <5>1, <5>2
      <4>6. PICK n \in Int : n = 500 + (m + b)
        OBVIOUS
      <4>7. n \in (-IntMax - 1)..IntMax
        BY <4>3, <4>5, <4>6, ThreadsAssumption
      <4>8. Wrap(n) = n
        BY <4>7, WrapFits
      <4>9. QED
        BY <3>6, <4>1, <4>5, <4>6, <4>8
    <3>9. \A u \in committed' : u \in allocated' => environment'[u] = "step3"
      BY <1>3, <2>1, <3>1 DEF BankInv
    <3>10. QED
      BY <3>4, <3>6, <3>7, <3>8, <3>9 DEF BankInv
  <2>4. QED
    BY <2>2, <2>3
<1>5. QED
  BY <1>2, <1>4

\* The state in which start_threading() calls scheduler() satisfies FInv.
LEMMA InitFInv == Init => FInv
<1> SUFFICES ASSUME Init PROVE FInv
  OBVIOUS
<1>1. arg \in [Thread -> Int] /\ i = [t \in Thread |-> 0] /\ committed = {} /\ balance = 500
  BY ThreadsAssumption DEF Init
<1>2. \A t \in {0, 1} : t \in allocated <=> arg[t] > 0
  BY <1>1, InitThreads DEF Init
<1>3. \A t \in {0, 1} : i[t] = 0 /\ arg[t] \in Int /\ environment[t] = "setup" /\ ~Leaving(t)
  BY <1>1 DEF Init, Leaving, Thread
<1>4. LoopInv
  BY <1>2, <1>3 DEF LoopInv
<1>5. ValueInv /\ EndInv
  BY <1>3 DEF ValueInv, EndInv, Init
<1>6. BankInv
  <2>1. Moved(committed) = 0
    BY <1>1 DEF Moved
  <2>2. Wrap(500) = 500
    BY WrapFits, ThreadsAssumption
  <2>3. QED
    BY <1>1, <2>1, <2>2 DEF BankInv
<1>7. QED
  BY <1>4, <1>5, <1>6 DEF FInv

-------------------------------------------------------------------------------
(* The theorems *)

\* FInv holds in every reachable state, on top of the scheduler's IInv.
THEOREM FunctionsInvariant == Spec => []FInv
<1>1. IInv /\ IInv' /\ FInv /\ [Next]_vars => FInv'
  <2> SUFFICES ASSUME IInv, IInv', FInv, [Next]_vars PROVE FInv'
    OBVIOUS
  <2>1. CASE scheduler
    BY <2>1, SchedulerFunctions
  <2>2. ASSUME NEW t \in allocated, Run(t) PROVE FInv'
    <3>1. /\ pc = "running" /\ t = RUNNING
          /\ UNCHANGED <<arg, ready_queue, rq_current, allocated>>
          /\ fibonacci(t) \/ factorial(t) \/ BankLock(t) \/ BankUpdate(t) \/ BankUnlock(t)
      BY <2>2 DEF Run, queues
    <3>2. QED
      BY <3>1, FibonacciStep, FactorialStep, BankStep
  <2>3. CASE \/ YieldTstpMask \/ YieldBaseMask \/ AlarmExpires \/ Stop
             \/ \E s \in base_mask : sighandler(s)
    BY <2>3, SignalFunctions
  <2>4. CASE UNCHANGED vars
    <3>1. UNCHANGED <<arg, i, x, y, balance, committed, environment, allocated, pc, val,
                      ready_queue, rq_current>>
      BY <2>4 DEF vars, tcbs, bank, queues
    <3>2. EndInv' /\ \A t \in {0, 1} : Leaving(t)' <=> Leaving(t)
      BY <3>1 DEF FInv, EndInv, Leaving, RUNNING
    <3>3. QED
      BY <3>1, <3>2, FrameStep
  <2>5. QED
    BY <2>1, <2>2, <2>3, <2>4 DEF Next, cpu, Ended
<1>2. QED
  BY <1>1, InitFInv, Inductive, PTL DEF Spec

\* No interleaving of the two bank threads overdraws the account or loses an
\* update, if the amounts and their negations fit into an int; and whether they
\* do or not, the balance is what the operations that took effect add up to.
THEOREM SolventCorrect == Spec => []Solvent
<1>1. FInv => Solvent
  BY DEF FInv, BankInv, Solvent
<1>2. QED
  BY <1>1, FunctionsInvariant, PTL

\* However fibonacci and factorial are interrupted, they compute what their
\* argument asks for, in the int of the machine, in exactly that many rounds.
THEOREM ResultsCorrect == Spec => []Results
<1>1. IInv /\ FInv => Results
  <2> SUFFICES ASSUME IInv, FInv PROVE Results
    OBVIOUS
  <2>1. \A t \in {0, 1} : i[t] \in Nat /\ arg[t] \in Int
    <3>1. {0, 1} \subseteq Thread
      BY DEF Thread
    <3>2. QED
      BY <3>1 DEF IInv, TypeOK
  <2>2. \A t \in {0, 1} : i[t] > 0 => i[t] <= arg[t]
    BY <2>1 DEF FInv, LoopInv
  <2>3. pc = "end" => \A t \in {0, 1} : i[t] = IF arg[t] > 0 THEN arg[t] ELSE 0
    BY DEF FInv, EndInv, LoopInv
  <2>4. QED
    BY <2>2, <2>3 DEF FInv, ValueInv, Results
<1>2. QED
  BY <1>1, FunctionsInvariant, Inductive, PTL
===============================================================================
