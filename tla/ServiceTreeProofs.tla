--------------------------- MODULE ServiceTreeProofs ---------------------------
(***************************************************************************)
(* Proofs about ServiceTree for any number of services and every sequence  *)
(* of commands: a command keeps one service busy at a time, every pipe     *)
(* holds at most one message, and nothing is left over when the Manager    *)
(* reads its next command.                                                 *)
(***************************************************************************)
EXTENDS ServiceTree, SequenceTheorems, TLAPS

Exchanging == {"tell", "open1", "open2", "give", "take", "collect"}
Handling   == {"fork", "ask", "hear"} \cup Exchanging
\* Commands that every service on the way gets unchanged.
Uniform    == {"spawn", "find", "start"}

IsChild(c, p) == c \in ToSet(child[p])
Working(s) == pc[s] \notin {"idle", "dead", "reset"}
Active(s)  == Working(s) \/ down[s] # <<>> \/ up[s] # <<>>

\* p waits for an answer of c.
Engaged(p, c) == \/ pc[p] = "hear" /\ nth[p] <= Len(child[p]) /\ c = Current(p)
                 \/ pc[p] = "tell" /\ \E k \in DOMAIN Targets(p) : k < nth[p] /\ c = Targets(p)[k]
                 \/ pc[p] \in {"open1", "open2", "give", "take"} /\ c \in ToSet(Targets(p))
                 \/ pc[p] = "collect" /\ \E k \in DOMAIN Targets(p) : k >= nth[p] /\ c = Targets(p)[k]

\* The services form a tree: nobody has two parents, and no set of services
\* has its parents among its own members.
TreeInv == /\ \A p \in Name : ~IsChild(Manager, p) /\ IsInjective(child[p])
           /\ \A c, p, q \in Name : IsChild(c, p) /\ IsChild(c, q) => p = q
           /\ \A T \in SUBSET Name : (\A c \in T : \E p \in T : IsChild(c, p)) => T = {}

\* Whoever has something to do has a parent that waits for it.
LinkInv == /\ \A c \in Name \ {Manager} : Active(c) => \E p \in Name : IsChild(c, p) /\ Engaged(p, c)
           /\ \A p \in Name : pc[p] = "hear" => nth[p] <= Len(child[p])
           /\ \A p \in Name : pc[p] \in {"open1", "open2", "give", "take"} => nth[p] = 1
           /\ down[Manager] = <<>> /\ up[Manager] = <<>>
           /\ pc[Manager] \notin {"born", "reset"}

\* A command is on its way down, or being handled, or its answer is on its way up.
TokenInv == \A s \in Name : /\ down[s] # <<>> => up[s] = <<>> /\ ~Working(s)
                            /\ up[s] # <<>> => ~Working(s)

\* Until the exchange itself begins one service at most is at work.
OneBusy == pc[Manager] \notin Exchanging => \A s, t \in Name : Busy(s) /\ Busy(t) => s = t

\* What the services handle comes from the Manager's command.
SameCommand(m) == m.op \in Uniform \/ cmd[Manager].op \in Uniform => m = cmd[Manager]
PhaseInv == /\ \A s \in Name : /\ pc[s] \in Handling => SameCommand(cmd[s])
                               /\ down[s] # <<>> => SameCommand(Head(down[s]))
                               /\ pc[s] \in Exchanging <=> pc[s] \in Handling /\ cmd[s].op = "start"
                               /\ pc[s] = "fork" => cmd[s].op = "spawn"
                               /\ pc[s] = "born" => cmd[Manager].op = "spawn"
            /\ pc[Manager] \in {"idle", "dead"} => cmd[Manager] = Nothing
            /\ cmd[Manager].op = "find" => cmd[Manager].n \in {0, 1}

\* A service that is to be spawned has no place in the tree until it is forked.
Fresh(m) == m.op = "spawn" => m.b # Manager /\ \A p \in Name : ~IsChild(m.b, p)
SpawnInv == \A s \in Name :
    /\ pc[s] = "fork" \/ (pc[s] = "ask" /\ ~ans[s].ok) => Fresh(cmd[s])
    /\ down[s] # <<>> => Fresh(Head(down[s]))
    /\ up[s] # <<>> /\ ~Head(up[s]).ok => Fresh(cmd[Manager])

\* A service that has ended is still in its parent's table only until the
\* parent has read the answer, or while the parent ends too; or the Manager is
\* gone and so are the tables.
Ends(p) == cmd[p].op = "suicide" \/ Direct(p)
Dying(c) == \/ pc[c] \in Handling /\ cmd[c].op = "suicide"
            \/ down[c] # <<>> /\ Head(down[c]).op = "suicide"
            \/ pc[c] = "dead"
DeathInv ==
    /\ \A c, p \in Name : IsChild(c, p) /\ pc[c] = "dead" =>
          \/ pc[p] \in Handling /\ cmd[p].op = "suicide"
          \/ up[c] # <<>>
          \/ pc[Manager] = "dead"
    /\ \A p \in Name : pc[p] = "dead" /\ child[p] # <<>> => pc[Manager] = "dead"
    /\ \A p \in Name : pc[p] = "hear" /\ Dying(Current(p)) => Ends(p)
    /\ \A s \in Name : pc[s] # "dead" => secret[s] \in Secret

\* The routes of an exchange: they lead to children, and outside of finds() and
\* of the exchange only a service about to reset them has any.
Partner(x) == IF x = 0 THEN cmd[Manager].a ELSE cmd[Manager].b
Has(s, x) == route[s][x] # None /\ pc[s] # "reset"
Good(s) == (pc[s] = "ask" /\ ans[s].ok) \/ (up[s] # <<>> /\ Head(up[s]).ok)
RouteInv ==
    /\ \A s \in Name, x \in {0, 1} : route[s][x] # None => IsChild(route[s][x], s)
    /\ cmd[Manager].op \notin {"find", "start"} => \A s \in Name, x \in {0, 1} : ~Has(s, x)

\* While finds() runs, a service has a route once the partner is found below
\* it, and so has its parent as soon as the answer has come up.
FindInv == cmd[Manager].op = "find" => LET x == cmd[Manager].n IN
    /\ \A s \in Name : Has(s, x) => \A t \in Name : Busy(t) => Good(t)
    /\ x = 0 => \A s \in Name : ~Has(s, 1)
    /\ \A s \in Name : pc[s] = "hear" => route[s][x] = None
    /\ \A s \in Name : s = Partner(x) => pc[s] # "hear" /\ (pc[s] = "ask" => ans[s].ok)
    /\ \A s \in Name, y \in {0, 1} : Has(s, y) =>
          /\ s # Partner(y)
          /\ \/ s = Manager
             \/ y = x /\ Good(s)
             \/ \E p \in Name : route[p][y] = s /\ pc[p] # "reset"

\* Once the exchange has begun, every service with a route is told, or will be.
TargetsFor(s) == CASE s = cmd[Manager].a            -> Along(s, 1)
                   [] s = cmd[Manager].b            -> Along(s, 0)
                   [] route[s][0] = route[s][1]     -> Along(s, 0)
                   [] OTHER                         -> Along(s, 0) \o Along(s, 1)
Untold(p, s) == /\ pc[p] \notin {"reset", "open1", "open2", "give", "take", "collect"}
                /\ \E k \in DOMAIN TargetsFor(p) :
                      TargetsFor(p)[k] = s /\ (pc[p] = "tell" => k >= nth[p])
StartInv == cmd[Manager].op = "start" => \A s \in Name :
    /\ up[s] # <<>> => pc[s] # "dead" /\ \A x \in {0, 1} : ~Has(s, x)
    /\ (\E x \in {0, 1} : Has(s, x)) => s = Manager \/ Active(s) \/ \E p \in Name : Untold(p, s)

SInv == /\ TypeOK /\ TreeInv /\ LinkInv /\ TokenInv /\ OneBusy /\ PhaseInv /\ SpawnInv /\ DeathInv
        /\ RouteInv /\ FindInv /\ StartInv

-------------------------------------------------------------------------------
(* What the invariant says about a service and its neighbours *)

\* A message pipe, written to while it is empty or read, holds one or no message.
LEMMA PipeFacts ==
    ASSUME NEW E, NEW q \in Seq(E), Len(q) <= 1
    PROVE  /\ \A m \in E : q = <<>> => /\ Append(q, m) \in Seq(E) /\ Len(Append(q, m)) = 1
                                       /\ Append(q, m) # <<>> /\ Head(Append(q, m)) = m
           /\ q # <<>> => Head(q) \in E /\ Tail(q) = <<>> /\ Tail(q) \in Seq(E)
           /\ Len(<<>>) = 0 /\ <<>> \in Seq(E)
<1>1. ASSUME NEW m \in E, q = <<>>
      PROVE  /\ Append(q, m) \in Seq(E) /\ Len(Append(q, m)) = 1
             /\ Append(q, m) # <<>> /\ Head(Append(q, m)) = m
  <2>1. Append(q, m) = <<m>> /\ Append(q, m) \in Seq(E)
    BY <1>1, AppendProperties
  <2>2. Len(<<m>>) = 1 /\ Head(<<m>>) = m /\ <<m>> # <<>>
    OBVIOUS
  <2>3. QED
    BY <2>1, <2>2
<1>2. ASSUME q # <<>>
      PROVE  Head(q) \in E /\ Tail(q) = <<>> /\ Tail(q) \in Seq(E)
  <2>1. Len(q) \in Nat /\ Len(q) # 0
    BY <1>2, EmptySeq, LenProperties
  <2>2. Len(q) = 1
    <3>1. PICK n \in Nat : n = Len(q)
      BY <2>1
    <3>2. n <= 1 /\ n # 0
      BY <2>1, <3>1
    <3>3. n = 1
      BY <3>2
    <3>4. QED
      BY <3>1, <3>3
  <2>3. Head(q) \in E /\ Tail(q) \in Seq(E) /\ Len(Tail(q)) = Len(q) - 1
    BY <1>2, HeadTailProperties
  <2>4. Tail(q) = <<>>
    <3>1. Len(Tail(q)) = 0
      BY <2>2, <2>3
    <3>2. QED
      BY <2>3, <3>1, EmptySeq
  <2>5. QED
    BY <2>3, <2>4
<1>3. QED
  BY <1>1, <1>2, EmptySeq

\* A waiting or telling service works.
LEMMA EngagedWorks ==
    ASSUME NEW p, NEW c, Engaged(p, c)
    PROVE  pc[p] \in {"hear"} \cup Exchanging /\ Working(p) /\ Active(p)
BY DEF Engaged, Working, Active, Exchanging

LEMMA BusyActive ==
    ASSUME NEW s, Busy(s)
    PROVE  Active(s)
BY DEF Busy, Active, Working

\* The parent of a service that has something to do waits for it.
LEMMA ParentWaits ==
    ASSUME SInv, NEW c \in Name, NEW p \in Name, IsChild(c, p), Active(c)
    PROVE  Engaged(p, c) /\ c # Manager
<1>1. c # Manager
  BY DEF SInv, TreeInv
<1>2. PICK q \in Name : IsChild(c, q) /\ Engaged(q, c)
  BY <1>1 DEF SInv, LinkInv
<1>3. q = p
  BY <1>2 DEF SInv, TreeInv
<1>4. QED
  BY <1>1, <1>2, <1>3

\* While the Manager waits for nobody, nobody else has anything to do.
LEMMA Alone ==
    ASSUME SInv, \A c \in Name : ~Engaged(Manager, c)
    PROVE  \A c \in Name \ {Manager} : ~Active(c)
<1> DEFINE T == {c \in Name \ {Manager} : Active(c)}
<1>1. ASSUME NEW c \in T PROVE \E p \in T : IsChild(c, p)
  <2>1. PICK p \in Name : IsChild(c, p) /\ Engaged(p, c)
    BY <1>1 DEF SInv, LinkInv
  <2>2. p # Manager
    BY <2>1
  <2>3. p \in T
    BY <2>1, <2>2, EngagedWorks
  <2>4. QED
    BY <2>1, <2>3
<1>2. T \in SUBSET Name
  OBVIOUS
<1> HIDE DEF T
<1>3. T = {}
  BY <1>1, <1>2 DEF SInv, TreeInv
<1>4. QED
  BY <1>3 DEF T

\* When the Manager is idle, gone or at work itself, it waits for nobody.
LEMMA ManagerAlone ==
    ASSUME SInv, pc[Manager] \notin {"hear"} \cup Exchanging
    PROVE  \A c \in Name \ {Manager} : ~Active(c)
<1>1. \A c \in Name : ~Engaged(Manager, c)
  BY EngagedWorks
<1>2. QED
  BY <1>1, Alone

\* Where something is going on, the Manager has not finished the command.
LEMMA ManagerAtWork ==
    ASSUME SInv, NEW s \in Name \ {Manager}, Active(s)
    PROVE  pc[Manager] \in {"hear"} \cup Exchanging
BY ManagerAlone

\* Nobody is its own child.
LEMMA NotOwnChild ==
    ASSUME TreeInv, NEW s \in Name
    PROVE  ~IsChild(s, s)
<1>1. SUFFICES ASSUME IsChild(s, s) PROVE FALSE
  OBVIOUS
<1>2. {s} \in SUBSET Name /\ \A c \in {s} : \E p \in {s} : IsChild(c, p)
  BY <1>1
<1>3. {s} = {}
  BY <1>2 DEF TreeInv
<1>4. QED
  BY <1>3

\* The child that a service asks or hears.
LEMMA CurrentChild ==
    ASSUME SInv, NEW s \in Name, nth[s] <= Len(child[s])
    PROVE  /\ nth[s] \in DOMAIN child[s] /\ Current(s) \in Name /\ IsChild(Current(s), s)
           /\ Current(s) # s /\ Current(s) # Manager
<1>1. child[s] \in Seq(Name) /\ nth[s] \in Nat \ {0}
  BY DEF SInv, TypeOK
<1>2. DOMAIN child[s] = 1..Len(child[s]) /\ Len(child[s]) \in Nat
  BY <1>1, LenProperties
<1>3. nth[s] \in 1..Len(child[s])
  BY <1>1, <1>2
<1>4. Current(s) \in Name
  BY <1>1, <1>3, ElementOfSeq DEF Current
<1>5. IsChild(Current(s), s)
  BY <1>2, <1>3 DEF Current, IsChild, ToSet
<1>6. Current(s) # s
  BY <1>5, NotOwnChild DEF SInv
<1>7. QED
  BY <1>2, <1>3, <1>4, <1>5, <1>6 DEF SInv, TreeInv

\* Nothing is going on at a child that its parent does not wait for.
LEMMA ChildAtRest ==
    ASSUME SInv, NEW c \in Name, NEW p \in Name, IsChild(c, p), ~Engaged(p, c)
    PROVE  /\ ~Active(c) /\ ~Working(c) /\ down[c] = <<>> /\ up[c] = <<>>
           /\ pc[c] \in {"idle", "dead", "reset"}
<1>1. ~Active(c)
  BY ParentWaits
<1>2. QED
  BY <1>1 DEF Active, Working

\* The children that a service tells: at most two different ones.
LEMMA TargetsFacts ==
    ASSUME SInv, NEW s \in Name
    PROVE  /\ Targets(s) \in Seq(Name) /\ IsInjective(Targets(s)) /\ DOMAIN Targets(s) = 1..Len(Targets(s))
           /\ Len(Targets(s)) \in Nat
           /\ \A k \in DOMAIN Targets(s) : Targets(s)[k] \in Name /\ IsChild(Targets(s)[k], s)
<1> DEFINE r0 == route[s][0]
           r1 == route[s][1]
           Pair(q) == q \in Seq(Name) /\ Len(q) = 2 /\ q[1] = r0 /\ q[2] = r1
<1>1. /\ r0 \in Name \cup {None} /\ r1 \in Name \cup {None}
      /\ r0 # None => r0 \in Name /\ IsChild(r0, s)
      /\ r1 # None => r1 \in Name /\ IsChild(r1, s)
  <2>1. route[s] \in [{0, 1} -> Name \cup {None}]
    BY DEF SInv, TypeOK
  <2>2. QED
    BY <2>1 DEF SInv, RouteInv
<1>2. /\ Along(s, 0) = IF r0 = None THEN <<>> ELSE <<r0>>
      /\ Along(s, 1) = IF r1 = None THEN <<>> ELSE <<r1>>
  BY DEF Along
<1> HIDE DEF r0, r1
<1>3. \/ Targets(s) = <<>>
      \/ Targets(s) = <<r0>> /\ r0 # None
      \/ Targets(s) = <<r1>> /\ r1 # None
      \/ Pair(Targets(s)) /\ r0 # None /\ r1 # None /\ r0 # r1
  <2>1. \/ Targets(s) = Along(s, 1)
        \/ Targets(s) = Along(s, 0)
        \/ r0 # r1 /\ Targets(s) = Along(s, 0) \o Along(s, 1)
    BY DEF Targets, r0, r1
  <2>2. CASE r0 # r1 /\ Targets(s) = Along(s, 0) \o Along(s, 1)
    <3>1. CASE r0 = None
      <4>1. Along(s, 0) = <<>> /\ r1 # None /\ Along(s, 1) = <<r1>> /\ <<r1>> \in Seq(Name)
        BY <1>1, <1>2, <2>2, <3>1
      <4>2. <<>> \o <<r1>> = <<r1>>
        BY <4>1, ConcatEmptySeq
      <4>3. QED
        BY <2>2, <4>1, <4>2
    <3>2. CASE r1 = None
      <4>1. Along(s, 1) = <<>> /\ r0 # None /\ Along(s, 0) = <<r0>> /\ <<r0>> \in Seq(Name)
        BY <1>1, <1>2, <2>2, <3>2
      <4>2. <<r0>> \o <<>> = <<r0>>
        BY <4>1, ConcatEmptySeq
      <4>3. QED
        BY <2>2, <4>1, <4>2
    <3>3. CASE r0 # None /\ r1 # None
      <4>1. Along(s, 0) = <<r0>> /\ Along(s, 1) = <<r1>>
        BY <1>2, <3>3
      <4>2. <<r0>> \in Seq(Name) /\ <<r1>> \in Seq(Name)
        BY <1>1, <3>3
      <4>3. Pair(<<r0>> \o <<r1>>)
        BY <4>2, ConcatProperties
      <4>4. QED
        BY <2>2, <3>3, <4>1, <4>3
    <3>4. QED
      BY <3>1, <3>2, <3>3
  <2>3. QED
    BY <1>2, <2>1, <2>2
<1>4. CASE Targets(s) = <<>>
  BY <1>4, EmptySeq DEF IsInjective
<1>5. ASSUME NEW e \in Name, IsChild(e, s), Targets(s) = <<e>>
      PROVE  /\ Targets(s) \in Seq(Name) /\ IsInjective(Targets(s)) /\ DOMAIN Targets(s) = 1..Len(Targets(s))
             /\ Len(Targets(s)) \in Nat
             /\ \A k \in DOMAIN Targets(s) : Targets(s)[k] \in Name /\ IsChild(Targets(s)[k], s)
  BY <1>5 DEF IsInjective
<1>6. CASE Pair(Targets(s)) /\ r0 # None /\ r1 # None /\ r0 # r1
  <2>1. DOMAIN Targets(s) = {1, 2}
    BY <1>6, LenProperties
  <2>2. QED
    BY <1>1, <1>6, <2>1 DEF IsInjective
<1>7. QED
  BY <1>1, <1>3, <1>4, <1>5, <1>6

\* Engagement depends on the service's own variables only.
LEMMA EngagedFrame ==
    ASSUME NEW p, pc'[p] = pc[p], nth'[p] = nth[p], child'[p] = child[p], cmd'[p] = cmd[p],
           route'[p] = route[p]
    PROVE  /\ \A c : Engaged(p, c)' <=> Engaged(p, c)
           /\ Targets(p)' = Targets(p)
<1>1. Along(p, 0)' = Along(p, 0) /\ Along(p, 1)' = Along(p, 1)
  BY DEF Along
<1>2. Targets(p)' = Targets(p)
  BY <1>1 DEF Targets
<1>3. Current(p)' = Current(p)
  BY DEF Current
<1>4. QED
  BY <1>2, <1>3 DEF Engaged

\* While anyone exchanges, the Manager does, and all have the same command.
LEMMA StartPhase ==
    ASSUME SInv, NEW s \in Name, pc[s] \in Exchanging
    PROVE  /\ pc[Manager] \in Exchanging /\ cmd[Manager].op = "start" /\ cmd[s] = cmd[Manager]
           /\ Targets(s) = TargetsFor(s)
<1>1. cmd[s].op = "start" /\ cmd[s] = cmd[Manager]
  BY DEF SInv, PhaseInv, SameCommand, Uniform, Handling
<1>2. pc[Manager] \notin {"idle", "dead"}
  BY <1>1 DEF SInv, PhaseInv, Nothing, Cmd
<1>3. pc[Manager] \in Handling
  BY <1>2, NameAssumption DEF SInv, LinkInv, TypeOK, Handling, Exchanging
<1>4. pc[Manager] \in Exchanging
  BY <1>1, <1>3, NameAssumption DEF SInv, PhaseInv
<1>5. QED
  BY <1>1, <1>4 DEF Targets, TargetsFor

\* While anyone handles another command, nobody exchanges.
LEMMA OtherPhase ==
    ASSUME SInv, NEW s \in Name,
           \/ pc[s] \in {"fork", "ask", "hear", "born"}
           \/ down[s] # <<>> /\ Head(down[s]).op # "start"
    PROVE  /\ \A t \in Name : pc[t] \notin Exchanging
           /\ cmd[Manager].op # "start"
<1>1. cmd[Manager].op # "start"
  BY DEF SInv, PhaseInv, SameCommand, Uniform, Handling, Exchanging
<1>2. QED
  BY <1>1, StartPhase

\* A step of an exchange inside one service, between the last "start_exchange"
\* that it passes on and the first answer that it reads.
LEMMA ExchangeLocal ==
    ASSUME SInv, NEW s \in Name, pc[s] \in Exchanging, pc[s] = "tell" => nth[s] > Len(Targets(s)),
           NEW place \in {"open1", "open2", "give", "take", "collect"},
           pc' = [pc EXCEPT ![s] = place], UNCHANGED <<child, route, cmd, ans, down, up>>,
           \A t \in Name \ {s} : nth'[t] = nth[t], nth'[s] = 1,
           \A c \in Name : Engaged(s, c) => Engaged(s, c)',
           \A t \in Name : secret[t] \in Secret => secret'[t] \in Secret,
           TypeOK'
    PROVE  SInv'
<1> USE DEF SInv
<1>1. /\ pc \in [Name -> {"dead", "born", "idle", "fork", "ask", "hear", "tell", "open1", "open2",
                          "give", "take", "collect", "reset"}]
      /\ pc'[s] = place /\ \A t \in Name \ {s} : pc'[t] = pc[t]
      /\ place \in Exchanging \ {"tell"} /\ Manager \in Name
  BY NameAssumption DEF TypeOK, Exchanging
<1>2. /\ pc[Manager] \in Exchanging /\ cmd[Manager].op = "start" /\ cmd[s] = cmd[Manager]
      /\ Targets(s) = TargetsFor(s)
  BY StartPhase
<1>3. \A t \in Name : Working(t)' <=> Working(t)
  BY <1>1 DEF Working, Exchanging
<1>4. \A t \in Name : Active(t)' <=> Active(t)
  BY <1>3 DEF Active
<1>5. TreeInv'
  BY DEF TreeInv, IsChild
<1>6. LinkInv'
  <2>1. \A p, c \in Name : Engaged(p, c) => Engaged(p, c)'
    <3>1. \A p \in Name \ {s}, c \in Name : Engaged(p, c) => Engaged(p, c)'
      BY <1>1, EngagedFrame
    <3>2. QED
      BY <3>1
  <2>2. \A c \in Name \ {Manager} : Active(c)' => \E p \in Name : IsChild(c, p)' /\ Engaged(p, c)'
    BY <1>4, <2>1 DEF LinkInv, IsChild
  <2>3. \A p \in Name : pc'[p] = "hear" => p # s /\ nth'[p] <= Len(child'[p])
    BY <1>1 DEF LinkInv, Exchanging
  <2>4. pc'[Manager] \notin {"born", "reset"}
    BY <1>1 DEF LinkInv, Exchanging
  <2>5. \A p \in Name : pc'[p] \in {"open1", "open2", "give", "take"} => nth'[p] = 1
    BY <1>1 DEF LinkInv
  <2>6. QED
    BY <2>2, <2>3, <2>4, <2>5 DEF LinkInv
<1>7. TokenInv'
  BY <1>3 DEF TokenInv
<1>8. pc'[Manager] \in Exchanging
  BY <1>1, <1>2
<1>9. OneBusy'
  BY <1>8 DEF OneBusy
<1>10. PhaseInv'
  <2>1. \A t \in Name : /\ pc'[t] \in Handling <=> pc[t] \in Handling
                        /\ pc'[t] \in Exchanging <=> pc[t] \in Exchanging
                        /\ pc'[t] = "fork" <=> pc[t] = "fork"
                        /\ pc'[t] = "born" <=> pc[t] = "born"
    BY <1>1 DEF Handling, Exchanging
  <2>2. pc'[Manager] \notin {"idle", "dead"}
    BY <1>8 DEF Exchanging
  <2>3. QED
    BY <2>1, <2>2 DEF PhaseInv, SameCommand
<1>11. SpawnInv'
  BY <1>1 DEF SpawnInv, Fresh, IsChild, Exchanging
<1>12. DeathInv'
  <2>1. \A t \in Name : /\ pc'[t] = "dead" <=> pc[t] = "dead"
                        /\ pc'[t] \in Handling <=> pc[t] \in Handling
                        /\ pc'[t] = "hear" => pc[t] = "hear" /\ t # s
    BY <1>1 DEF Handling, Exchanging
  <2>2. \A p \in Name : pc[p] = "hear" => Current(p) \in Name
    BY CurrentChild DEF LinkInv
  <2>3. \A p \in Name : p # s => Current(p)' = Current(p) /\ (Ends(p)' <=> Ends(p))
    BY DEF Current, Ends, Direct
  <2>4. \A c \in Name : Dying(c)' <=> Dying(c)
    BY <2>1 DEF Dying
  <2>5. \A p \in Name : pc'[p] = "hear" /\ Dying(Current(p))' => Ends(p)'
    <3>1. ASSUME NEW p \in Name, pc'[p] = "hear", Dying(Current(p))' PROVE Ends(p)'
      <4>1. PICK c \in Name : c = Current(p) /\ c = Current(p)'
        BY <2>1, <2>2, <2>3, <3>1
      <4>2. Dying(c)'
        BY <3>1, <4>1 DEF Dying
      <4>3. QED
        BY <2>1, <2>3, <2>4, <3>1, <4>1, <4>2 DEF DeathInv
    <3>2. QED
      BY <3>1
  <2>6. QED
    BY <1>1, <2>1, <2>5 DEF DeathInv, IsChild
<1>13. \A t \in Name, x \in {0, 1} : Has(t, x)' <=> Has(t, x)
  BY <1>1 DEF Has, Exchanging
<1>14. RouteInv' /\ FindInv'
  BY <1>2, <1>13 DEF RouteInv, FindInv, IsChild
<1>15. StartInv'
  <2>1. \A p, u \in Name : Untold(p, u) => p # s
    <3>1. DOMAIN Targets(s) = 1..Len(Targets(s)) /\ Len(Targets(s)) \in Nat /\ nth[s] \in Nat
      BY TargetsFacts DEF TypeOK
    <3>2. QED
      BY <1>2, <3>1 DEF Untold, Exchanging
  <2>2. \A p \in Name : TargetsFor(p)' = TargetsFor(p)
    BY DEF TargetsFor, Along
  <2>3. \A p, u \in Name : Untold(p, u) => Untold(p, u)'
    BY <1>1, <2>1, <2>2 DEF Untold
  <2>4. \A t \in Name : pc'[t] = "dead" <=> pc[t] = "dead"
    BY <1>1 DEF Exchanging
  <2>5. QED
    BY <1>4, <1>13, <2>3, <2>4 DEF StartInv
<1>16. QED
  BY <1>5, <1>6, <1>7, <1>9, <1>10, <1>11, <1>12, <1>14, <1>15

\* The pipes of a service.
LEMMA PipeTypes ==
    ASSUME TypeOK, NEW s \in Name
    PROVE  /\ down[s] \in Seq(Command_) /\ Len(down[s]) <= 1
           /\ up[s] \in Seq(Answer_) /\ Len(up[s]) <= 1
BY DEF TypeOK

\* A message is written to an empty pipe.
LEMMA PutDown ==
    ASSUME TypeOK, NEW c \in Name, NEW m \in Command_, down[c] = <<>>,
           down' = [down EXCEPT ![c] = Append(@, m)]
    PROVE  /\ down' \in [Name -> Seq(Command_)] /\ \A t \in Name : Len(down'[t]) <= 1
           /\ down'[c] # <<>> /\ Head(down'[c]) = m /\ \A t \in Name \ {c} : down'[t] = down[t]
<1> DEFINE q == Append(down[c], m)
<1>1. q \in Seq(Command_) /\ Len(q) = 1 /\ q # <<>> /\ Head(q) = m
  BY PipeTypes, PipeFacts
<1> HIDE DEF q
<1>2. down' = [down EXCEPT ![c] = q]
  BY DEF q
<1>3. Len(q) <= 1
  BY <1>1
<1>4. QED
  BY <1>1, <1>2, <1>3 DEF TypeOK

LEMMA PutUp ==
    ASSUME TypeOK, NEW c \in Name, NEW v \in Answer_, up[c] = <<>>,
           up' = [up EXCEPT ![c] = Append(@, v)]
    PROVE  /\ up' \in [Name -> Seq(Answer_)] /\ \A t \in Name : Len(up'[t]) <= 1
           /\ up'[c] # <<>> /\ Head(up'[c]) = v /\ \A t \in Name \ {c} : up'[t] = up[t]
<1> DEFINE q == Append(up[c], v)
<1>1. q \in Seq(Answer_) /\ Len(q) = 1 /\ q # <<>> /\ Head(q) = v
  BY PipeTypes, PipeFacts
<1> HIDE DEF q
<1>2. up' = [up EXCEPT ![c] = q]
  BY DEF q
<1>3. Len(q) <= 1
  BY <1>1
<1>4. QED
  BY <1>1, <1>2, <1>3 DEF TypeOK

\* The message of a pipe is read.
LEMMA TakeDown ==
    ASSUME TypeOK, NEW c \in Name, down[c] # <<>>, down' = [down EXCEPT ![c] = Tail(@)]
    PROVE  /\ down' \in [Name -> Seq(Command_)] /\ \A t \in Name : Len(down'[t]) <= 1
           /\ Head(down[c]) \in Command_ /\ down'[c] = <<>> /\ \A t \in Name \ {c} : down'[t] = down[t]
<1> DEFINE q == Tail(down[c])
<1>1. q \in Seq(Command_) /\ q = <<>> /\ Head(down[c]) \in Command_
  BY PipeTypes, PipeFacts
<1> HIDE DEF q
<1>2. down' = [down EXCEPT ![c] = q]
  BY DEF q
<1>3. Len(q) <= 1
  BY <1>1, EmptySeq
<1>4. QED
  BY <1>1, <1>2, <1>3 DEF TypeOK

LEMMA TakeUp ==
    ASSUME TypeOK, NEW c \in Name, up[c] # <<>>, up' = [up EXCEPT ![c] = Tail(@)]
    PROVE  /\ up' \in [Name -> Seq(Answer_)] /\ \A t \in Name : Len(up'[t]) <= 1
           /\ Head(up[c]) \in Answer_ /\ up'[c] = <<>> /\ \A t \in Name \ {c} : up'[t] = up[t]
<1> DEFINE q == Tail(up[c])
<1>1. q \in Seq(Answer_) /\ q = <<>> /\ Head(up[c]) \in Answer_
  BY PipeTypes, PipeFacts
<1> HIDE DEF q
<1>2. up' = [up EXCEPT ![c] = q]
  BY DEF q
<1>3. Len(q) <= 1
  BY <1>1, EmptySeq
<1>4. QED
  BY <1>1, <1>2, <1>3 DEF TypeOK

\* Every step of exchanges(), and its beginning.
LEMMA ExchangesStep ==
    ASSUME SInv, NEW s \in Name, Told(s) \/ exchanges(s)
    PROVE  SInv'
<1> USE DEF SInv
<1>1. Targets(s) \in Seq(Name) /\ DOMAIN Targets(s) = 1..Len(Targets(s)) /\ Len(Targets(s)) \in Nat
  BY TargetsFacts
<1>2. CASE Told(s)
  <2>1. PICK place \in {"open1", "collect"} : pc' = [pc EXCEPT ![s] = place]
    BY <1>2 DEF Told, Goto
  <2>2. /\ pc[s] = "tell" /\ nth[s] > Len(Targets(s)) /\ nth' = [nth EXCEPT ![s] = 1]
        /\ UNCHANGED <<child, secret, route, cmd, ans, down, up, ends, data, heard>>
    BY <1>2 DEF Told, globals, pipes, fifos, output
  <2>3. pc'[s] = place /\ nth'[s] = 1 /\ \A t \in Name \ {s} : nth'[t] = nth[t]
    BY <2>1, <2>2 DEF TypeOK
  <2>4. Targets(s)' = Targets(s)
    BY <2>2 DEF Targets, Along
  <2>5. \A c \in Name : Engaged(s, c) => Engaged(s, c)'
    <3>1. ASSUME NEW c \in Name, Engaged(s, c) PROVE Engaged(s, c)'
      <4>1. PICK k \in DOMAIN Targets(s) : c = Targets(s)[k]
        BY <2>2, <3>1 DEF Engaged
      <4>2. c \in ToSet(Targets(s)) /\ k >= 1
        BY <1>1, <4>1 DEF ToSet
      <4>3. QED
        BY <2>1, <2>3, <2>4, <4>1, <4>2 DEF Engaged
    <3>2. QED
      BY <3>1
  <2>6. TypeOK'
    <3>1. nth' \in [Name -> Nat \ {0}]
      BY <2>2 DEF TypeOK
    <3>2. pc' \in [Name -> {"dead", "born", "idle", "fork", "ask", "hear", "tell", "open1", "open2",
                            "give", "take", "collect", "reset"}]
      BY <2>1 DEF TypeOK
    <3>3. QED
      BY <2>2, <3>1, <3>2 DEF TypeOK
  <2>7. pc[s] \in Exchanging
    BY <2>2 DEF Exchanging
  <2>8. QED
    BY <2>1, <2>2, <2>3, <2>5, <2>6, <2>7, ExchangeLocal
<1>3. CASE exchanges(s)
  <2>1. /\ pc[s] \in {"open1", "open2", "give", "take"}
        /\ UNCHANGED <<child, route, cmd, nth, ans, down, up, heard>>
    BY <1>3 DEF exchanges, Open1, Open2, Give, TakeFirst, TakeSecond, globals, pipes, output
  <2>2. PICK place \in {"open2", "give", "take", "collect"} : pc' = [pc EXCEPT ![s] = place]
    BY <1>3 DEF exchanges, Open1, Open2, Give, TakeFirst, TakeSecond, Goto
  <2>3. pc'[s] = place
    BY <2>2 DEF TypeOK
  <2>4. Targets(s)' = Targets(s)
    BY <2>1 DEF Targets, Along
  <2>5. nth[s] = 1
    BY <2>1 DEF LinkInv
  <2>6. \A c \in Name : Engaged(s, c) => Engaged(s, c)'
    <3>1. ASSUME NEW c \in Name, Engaged(s, c) PROVE Engaged(s, c)'
      <4>1. c \in ToSet(Targets(s))
        BY <2>1, <3>1 DEF Engaged
      <4>2. PICK k \in DOMAIN Targets(s) : c = Targets(s)[k]
        BY <4>1 DEF ToSet
      <4>3. k >= nth[s]
        BY <1>1, <2>5
      <4>4. QED
        BY <2>1, <2>2, <2>3, <2>4, <4>1, <4>2, <4>3 DEF Engaged
    <3>2. QED
      BY <3>1
  <2>7. secret[s] \in Secret
    BY <2>1 DEF DeathInv
  <2>8. /\ secret' \in [Name -> Secret \cup {None}]
        /\ \A t \in Name : secret[t] \in Secret => secret'[t] \in Secret
        /\ data' \in [{1, 2} -> Seq(Secret)] /\ ends' \in [{1, 2} -> SUBSET {"r", "w"}]
    <3>1. CASE Open1(s) \/ Open2(s)
      <4>1. UNCHANGED <<secret, data>>
        BY <3>1 DEF Open1, Open2, globals
      <4>2. \E f \in {1, 2}, e \in {"r", "w"} : ends' = [ends EXCEPT ![f] = @ \cup {e}]
        BY <3>1 DEF Open1, Open2
      <4>3. ends' \in [{1, 2} -> SUBSET {"r", "w"}]
        BY <4>2 DEF TypeOK
      <4>4. QED
        BY <4>1, <4>3 DEF TypeOK
    <3>2. CASE Give(s)
      <4>1. Append(data[2], secret[s]) \in Seq(Secret)
        BY <2>7, AppendProperties DEF TypeOK
      <4>2. QED
        BY <3>2, <4>1 DEF Give, globals, TypeOK
    <3>3. CASE TakeFirst(s)
      <4>1. /\ data[2] \in Seq(Secret) /\ data[2] # <<>> /\ UNCHANGED ends
            /\ data' = [data EXCEPT ![1] = Append(@, secret[s]), ![2] = Tail(@)]
            /\ secret' = [secret EXCEPT ![s] = Head(data[2])]
        BY <3>3 DEF TakeFirst, TypeOK
      <4>2. Append(data[1], secret[s]) \in Seq(Secret)
        BY <2>7, AppendProperties DEF TypeOK
      <4>3. Head(data[2]) \in Secret /\ Tail(data[2]) \in Seq(Secret)
        BY <4>1, HeadTailProperties
      <4>4. QED
        BY <4>1, <4>2, <4>3 DEF TypeOK
    <3>4. CASE TakeSecond(s)
      <4>1. /\ data[1] \in Seq(Secret) /\ data[1] # <<>> /\ UNCHANGED ends
            /\ data' = [data EXCEPT ![1] = Tail(@)]
            /\ secret' = [secret EXCEPT ![s] = Head(data[1])]
        BY <3>4 DEF TakeSecond, TypeOK
      <4>2. Head(data[1]) \in Secret /\ Tail(data[1]) \in Seq(Secret)
        BY <4>1, HeadTailProperties
      <4>3. QED
        BY <4>1, <4>2 DEF TypeOK
    <3>5. QED
      BY <1>3, <3>1, <3>2, <3>3, <3>4 DEF exchanges
  <2>9. TypeOK'
    BY <2>1, <2>2, <2>8 DEF TypeOK
  <2>10. pc[s] \in Exchanging /\ pc[s] # "tell"
    BY <2>1 DEF Exchanging
  <2>11. QED
    BY <2>1, <2>2, <2>5, <2>6, <2>8, <2>9, <2>10, ExchangeLocal
<1>4. QED
  BY <1>2, <1>3

\* Nobody waits for one child in the middle of an exchange.
LEMMA NobodyHears ==
    ASSUME SInv, NEW s \in Name, pc[s] \in Exchanging
    PROVE  \A p \in Name : pc[p] \notin {"fork", "ask", "hear", "born"}
BY OtherPhase

\* "start_exchange" is passed on to the next child on the way to a partner.
LEMMA TellStep ==
    ASSUME SInv, NEW s \in Name, Tell(s)
    PROVE  SInv'
<1> USE DEF SInv
<1>1. PICK k \in DOMAIN Targets(s) : k = nth[s]
  <2>1. nth[s] \in 1..Len(Targets(s)) /\ DOMAIN Targets(s) = 1..Len(Targets(s))
    BY TargetsFacts DEF Tell, TypeOK
  <2>2. QED
    BY <2>1
<1>2. PICK c \in Name : c = Targets(s)[k] /\ IsChild(c, s)
  BY TargetsFacts
<1>3. /\ pc[s] = "tell" /\ pc[s] \in Exchanging /\ down' = [down EXCEPT ![c] = Append(@, cmd[s])]
      /\ nth' = [nth EXCEPT ![s] = @ + 1]
      /\ UNCHANGED <<child, secret, route, pc, cmd, ans, up, ends, data, heard>>
  BY <1>1, <1>2 DEF Tell, globals, fifos, output, Exchanging
<1>4. /\ pc[Manager] \in Exchanging /\ cmd[Manager].op = "start" /\ cmd[s] = cmd[Manager]
      /\ Targets(s) = TargetsFor(s)
  BY <1>3, StartPhase
<1>5. ~Engaged(s, c)
  <2>1. \A j \in DOMAIN Targets(s) : Targets(s)[j] = c => j = k
    BY <1>1, <1>2, TargetsFacts DEF IsInjective
  <2>2. k \in Int
    BY <1>1 DEF TypeOK
  <2>3. QED
    BY <1>1, <1>3, <2>1, <2>2 DEF Engaged, TypeOK
<1>6. /\ ~Active(c) /\ ~Working(c) /\ down[c] = <<>> /\ up[c] = <<>>
      /\ pc[c] \in {"idle", "dead", "reset"} /\ c # s
  BY <1>2, <1>3, <1>5, ChildAtRest
<1>7. /\ down'[c] # <<>> /\ Head(down'[c]) = cmd[Manager]
      /\ down' \in [Name -> Seq(Command_)] /\ \A t \in Name : Len(down'[t]) <= 1
      /\ \A t \in Name \ {c} : down'[t] = down[t]
  <2>1. cmd[s] \in Command_
    BY DEF TypeOK
  <2>2. QED
    BY <1>3, <1>4, <1>6, <2>1, PutDown
<1>8. nth'[s] = nth[s] + 1 /\ nth[s] \in Nat \ {0} /\ \A t \in Name \ {s} : nth'[t] = nth[t]
  BY <1>3 DEF TypeOK
<1>9. TypeOK'
  <2>1. nth' \in [Name -> Nat \ {0}]
    BY <1>3, <1>8 DEF TypeOK
  <2>2. QED
    BY <1>3, <1>7, <2>1 DEF TypeOK
<1>10. \A t \in Name : Active(t)' <=> Active(t) \/ t = c
  BY <1>3, <1>7 DEF Active, Working
<1>11. \A p \in Name : pc[p] \notin {"fork", "ask", "hear", "born"}
  BY <1>3, NobodyHears
<1>12. TreeInv'
  BY <1>3 DEF TreeInv, IsChild
<1>13. LinkInv'
  <2>1. Targets(s)' = Targets(s)
    BY <1>3 DEF Targets, Along
  <2>2. \A d \in Name : Engaged(s, d) \/ d = c => Engaged(s, d)'
    <3>1. \A j \in DOMAIN Targets(s) : j \in Int
      BY TargetsFacts
    <3>2. ASSUME NEW d \in Name, Engaged(s, d) \/ d = c PROVE Engaged(s, d)'
      <4>1. \E j \in DOMAIN Targets(s) : j <= nth[s] /\ d = Targets(s)[j]
        BY <1>1, <1>2, <1>3, <1>8, <3>1, <3>2 DEF Engaged
      <4>2. \E j \in DOMAIN Targets(s) : j < nth'[s] /\ d = Targets(s)[j]
        BY <1>8, <3>1, <4>1
      <4>3. QED
        BY <1>3, <2>1, <4>2 DEF Engaged
    <3>3. QED
      BY <3>2
  <2>3. \A p, d \in Name : Engaged(p, d) => Engaged(p, d)'
    <3>1. \A p \in Name \ {s}, d \in Name : Engaged(p, d) => Engaged(p, d)'
      BY <1>3, <1>8, EngagedFrame
    <3>2. QED
      BY <2>2, <3>1
  <2>4. \A d \in Name \ {Manager} : Active(d)' => \E p \in Name : IsChild(d, p)' /\ Engaged(p, d)'
    BY <1>2, <1>3, <1>10, <2>2, <2>3 DEF LinkInv, IsChild
  <2>5. c # Manager
    BY <1>2 DEF TreeInv
  <2>6. down'[Manager] = <<>>
    BY <1>7, <2>5, NameAssumption DEF LinkInv
  <2>7. QED
    BY <1>3, <1>8, <1>11, <2>4, <2>6 DEF LinkInv
<1>14. TokenInv'
  BY <1>3, <1>6, <1>7 DEF TokenInv, Working
<1>15. OneBusy'
  BY <1>3, <1>4 DEF OneBusy
<1>16. PhaseInv'
  <2>1. \A t \in Name : down'[t] # <<>> => SameCommand(Head(down'[t]))
    BY <1>7 DEF PhaseInv, SameCommand
  <2>2. QED
    BY <1>3, <2>1 DEF PhaseInv, SameCommand
<1>17. SpawnInv'
  <2>1. \A t \in Name : down'[t] # <<>> => Fresh(Head(down'[t]))
    BY <1>4, <1>7 DEF SpawnInv, Fresh
  <2>2. QED
    BY <1>3, <2>1 DEF SpawnInv, Fresh, IsChild
<1>18. DeathInv'
  BY <1>3, <1>11 DEF DeathInv, IsChild
<1>19. RouteInv' /\ FindInv'
  BY <1>3, <1>4 DEF RouteInv, FindInv, IsChild, Has
<1>20. StartInv'
  <2>1. \A p \in Name : TargetsFor(p)' = TargetsFor(p)
    BY <1>3 DEF TargetsFor, Along
  <2>2. \A p, u \in Name : Untold(p, u) /\ u # c => Untold(p, u)'
    <3>1. ASSUME NEW u \in Name, Untold(s, u), u # c PROVE Untold(s, u)'
      <4>1. PICK j \in DOMAIN Targets(s) : Targets(s)[j] = u /\ j >= nth[s]
        BY <1>3, <1>4, <3>1 DEF Untold
      <4>2. j \in Int /\ j # nth[s]
        BY <1>1, <1>2, <3>1, <4>1, TargetsFacts
      <4>3. j >= nth'[s]
        BY <1>8, <4>1, <4>2
      <4>4. QED
        BY <1>3, <1>4, <2>1, <4>1, <4>3 DEF Untold
    <3>2. \A p \in Name \ {s}, u \in Name : Untold(p, u) => Untold(p, u)'
      BY <1>3, <1>8, <2>1 DEF Untold
    <3>3. QED
      BY <3>1, <3>2
  <2>3. QED
    BY <1>3, <1>10, <2>2 DEF StartInv, Has
<1>21. QED
  BY <1>9, <1>12, <1>13, <1>14, <1>15, <1>16, <1>17, <1>18, <1>19, <1>20

\* The answer of a child to "start_exchange" is read.
LEMMA CollectStep ==
    ASSUME SInv, NEW s \in Name, Collect(s)
    PROVE  SInv'
<1> USE DEF SInv
<1>1. PICK k \in DOMAIN Targets(s) : k = nth[s]
  <2>1. nth[s] \in 1..Len(Targets(s)) /\ DOMAIN Targets(s) = 1..Len(Targets(s))
    <3>1. nth[s] <= Len(Targets(s)) /\ nth[s] \in Nat \ {0}
      BY DEF Collect, TypeOK
    <3>2. QED
      BY <3>1, TargetsFacts
  <2>2. QED
    BY <2>1
<1>2. PICK c \in Name : c = Targets(s)[k] /\ IsChild(c, s)
  BY TargetsFacts
<1>3. /\ pc[s] = "collect" /\ pc[s] \in Exchanging /\ up[c] # <<>> /\ up' = [up EXCEPT ![c] = Tail(@)]
      /\ nth' = [nth EXCEPT ![s] = @ + 1]
      /\ UNCHANGED <<child, secret, route, pc, cmd, ans, down, ends, data, heard>>
  BY <1>1, <1>2 DEF Collect, globals, fifos, output, Exchanging
<1>4. /\ pc[Manager] \in Exchanging /\ cmd[Manager].op = "start"
  BY <1>3, StartPhase
<1>5. ~Working(c) /\ down[c] = <<>>
  BY <1>3 DEF TokenInv
<1>6. /\ up'[c] = <<>> /\ \A t \in Name \ {c} : up'[t] = up[t]
      /\ up' \in [Name -> Seq(Answer_)] /\ \A t \in Name : Len(up'[t]) <= 1
  BY <1>3, TakeUp
<1>7. nth'[s] = nth[s] + 1 /\ nth[s] \in Nat \ {0} /\ \A t \in Name \ {s} : nth'[t] = nth[t]
  BY <1>3 DEF TypeOK
<1>8. TypeOK'
  <2>1. nth' \in [Name -> Nat \ {0}]
    BY <1>3, <1>7 DEF TypeOK
  <2>2. QED
    BY <1>3, <1>6, <2>1 DEF TypeOK
<1>9. ~Active(c)' /\ \A t \in Name \ {c} : Active(t)' <=> Active(t)
  BY <1>3, <1>5, <1>6 DEF Active, Working
<1>10. \A p \in Name : pc[p] \notin {"fork", "ask", "hear", "born"}
  BY <1>3, NobodyHears
<1>11. TreeInv'
  BY <1>3 DEF TreeInv, IsChild
<1>12. LinkInv'
  <2>1. Targets(s)' = Targets(s)
    BY <1>3 DEF Targets, Along
  <2>2. \A d \in Name \ {c} : Engaged(s, d) => Engaged(s, d)'
    <3>1. \A j \in DOMAIN Targets(s) : j \in Int
      BY TargetsFacts
    <3>2. ASSUME NEW d \in Name \ {c}, Engaged(s, d) PROVE Engaged(s, d)'
      <4>1. PICK j \in DOMAIN Targets(s) : j >= nth[s] /\ d = Targets(s)[j]
        BY <1>3, <3>2 DEF Engaged
      <4>2. j # nth[s] /\ j \in Int
        BY <1>1, <1>2, <3>1, <3>2, <4>1
      <4>3. j >= nth'[s]
        BY <1>7, <4>1, <4>2
      <4>4. QED
        BY <1>3, <2>1, <4>1, <4>3 DEF Engaged
    <3>3. QED
      BY <3>2
  <2>3. \A p \in Name, d \in Name \ {c} : Engaged(p, d) => Engaged(p, d)'
    <3>1. \A p \in Name \ {s}, d \in Name : Engaged(p, d) => Engaged(p, d)'
      BY <1>3, <1>7, EngagedFrame
    <3>2. QED
      BY <2>2, <3>1
  <2>4. \A d \in Name \ {Manager} : Active(d)' => \E p \in Name : IsChild(d, p)' /\ Engaged(p, d)'
    BY <1>3, <1>9, <2>3 DEF LinkInv, IsChild
  <2>5. c # Manager
    BY <1>2 DEF TreeInv
  <2>6. up'[Manager] = <<>>
    BY <1>6, <2>5, NameAssumption DEF LinkInv
  <2>7. QED
    BY <1>3, <1>7, <1>10, <2>4, <2>6 DEF LinkInv
<1>13. TokenInv'
  BY <1>3, <1>6 DEF TokenInv, Working
<1>14. OneBusy'
  BY <1>3, <1>4 DEF OneBusy
<1>15. PhaseInv'
  BY <1>3 DEF PhaseInv, SameCommand
<1>16. SpawnInv'
  BY <1>3, <1>6 DEF SpawnInv, Fresh, IsChild
<1>17. DeathInv'
  <2>1. pc[c] # "dead"
    BY <1>3, <1>4 DEF StartInv
  <2>2. \A d \in Name : pc[d] = "dead" => up'[d] = up[d]
    BY <1>6, <2>1
  <2>3. QED
    BY <1>3, <1>10, <2>2 DEF DeathInv, IsChild
<1>18. RouteInv' /\ FindInv'
  BY <1>3, <1>4 DEF RouteInv, FindInv, IsChild, Has
<1>19. StartInv'
  <2>1. \A p \in Name : TargetsFor(p)' = TargetsFor(p)
    BY <1>3 DEF TargetsFor, Along
  <2>2. \A p, u \in Name : Untold(p, u) => Untold(p, u)'
    <3>1. \A u \in Name : ~Untold(s, u)
      BY <1>3 DEF Untold
    <3>2. \A p \in Name \ {s}, u \in Name : Untold(p, u) => Untold(p, u)'
      BY <1>3, <1>7, <2>1 DEF Untold
    <3>3. QED
      BY <3>1, <3>2
  <2>3. \A x \in {0, 1} : ~Has(c, x)
    BY <1>3, <1>4 DEF StartInv
  <2>4. QED
    BY <1>3, <1>6, <1>9, <2>2, <2>3 DEF StartInv, Has
<1>20. QED
  BY <1>8, <1>11, <1>12, <1>13, <1>14, <1>15, <1>16, <1>17, <1>18, <1>19

\* A service has all the answers of an exchange and answers its parent.
LEMMA DoneStep ==
    ASSUME SInv, NEW s \in Name, Done(s)
    PROVE  SInv'
<1> USE DEF SInv
<1>1. /\ s # Manager /\ pc[s] = "collect" /\ pc[s] \in Exchanging /\ nth[s] > Len(Targets(s))
      /\ up' = [up EXCEPT ![s] = Append(@, Answer(TRUE, 0))]
      /\ pc' = [pc EXCEPT ![s] = "reset"] /\ cmd' = [cmd EXCEPT ![s] = Nothing]
      /\ nth' = [nth EXCEPT ![s] = 1] /\ ans' = [ans EXCEPT ![s] = Answer(FALSE, 0)]
      /\ UNCHANGED <<child, secret, route, down, ends, data, heard>>
  BY DEF Done, Finish, Goto, globals, fifos, output, Exchanging
<1>2. /\ pc[Manager] \in Exchanging /\ cmd[Manager].op = "start" /\ cmd[s] = cmd[Manager]
  BY <1>1, StartPhase
<1>3. Working(s) /\ down[s] = <<>> /\ up[s] = <<>>
  BY <1>1 DEF TokenInv, Working
<1>4. Nothing \in Command_ /\ Answer(FALSE, 0) \in Answer_
      /\ Answer(TRUE, 0) \in Answer_
  BY NameAssumption DEF Nothing, Cmd, Command_, Answer, Answer_
<1>5. /\ pc'[s] = "reset" /\ up'[s] # <<>> /\ Head(up'[s]) = Answer(TRUE, 0)
      /\ up' \in [Name -> Seq(Answer_)] /\ \A t \in Name : Len(up'[t]) <= 1
      /\ \A t \in Name \ {s} : /\ pc'[t] = pc[t] /\ up'[t] = up[t] /\ cmd'[t] = cmd[t]
                               /\ nth'[t] = nth[t] /\ ans'[t] = ans[t]
  <2>1. /\ up'[s] # <<>> /\ Head(up'[s]) = Answer(TRUE, 0)
        /\ up' \in [Name -> Seq(Answer_)] /\ \A t \in Name : Len(up'[t]) <= 1
        /\ \A t \in Name \ {s} : up'[t] = up[t]
    BY <1>1, <1>3, <1>4, PutUp
  <2>2. QED
    BY <1>1, <2>1 DEF TypeOK
<1>6. TypeOK'
  <2>1. cmd' \in [Name -> Command_]
    BY <1>1, <1>4 DEF TypeOK
  <2>2. ans' \in [Name -> Answer_]
    BY <1>1, <1>4 DEF TypeOK
  <2>3. /\ pc' \in [Name -> {"dead", "born", "idle", "fork", "ask", "hear", "tell", "open1", "open2",
                             "give", "take", "collect", "reset"}]
        /\ nth' \in [Name -> Nat \ {0}]
    BY <1>1 DEF TypeOK
  <2>4. QED
    BY <1>1, <1>5, <2>1, <2>2, <2>3 DEF TypeOK
<1>7. \A t \in Name : Active(t)' <=> Active(t)
  BY <1>1, <1>3, <1>5 DEF Active, Working
<1>8. \A p \in Name : pc[p] \notin {"fork", "ask", "hear", "born"} /\ pc'[p] \notin {"fork", "ask", "hear", "born"}
  BY <1>1, <1>5, NobodyHears
<1>9. TreeInv'
  BY <1>1 DEF TreeInv, IsChild
<1>10. LinkInv'
  <2>1. \A d \in Name : ~Engaged(s, d)
    <3>1. DOMAIN Targets(s) = 1..Len(Targets(s)) /\ Len(Targets(s)) \in Nat /\ nth[s] \in Nat
      BY TargetsFacts DEF TypeOK
    <3>2. QED
      BY <1>1, <3>1 DEF Engaged
  <2>2. \A p, d \in Name : Engaged(p, d) => Engaged(p, d)'
    <3>1. \A p \in Name \ {s}, d \in Name : Engaged(p, d) => Engaged(p, d)'
      BY <1>1, <1>5, EngagedFrame
    <3>2. QED
      BY <2>1, <3>1
  <2>3. \A d \in Name \ {Manager} : Active(d)' => \E p \in Name : IsChild(d, p)' /\ Engaged(p, d)'
    BY <1>1, <1>7, <2>2 DEF LinkInv, IsChild
  <2>4. up'[Manager] = <<>> /\ pc'[Manager] \notin {"born", "reset"}
    BY <1>1, <1>5, NameAssumption DEF LinkInv
  <2>5. \A p \in Name : pc'[p] \in {"open1", "open2", "give", "take"} => nth'[p] = 1
    BY <1>5 DEF LinkInv
  <2>6. QED
    BY <1>1, <1>8, <2>3, <2>4, <2>5 DEF LinkInv
<1>11. TokenInv'
  BY <1>1, <1>3, <1>5 DEF TokenInv, Working
<1>12. pc'[Manager] = pc[Manager] /\ cmd'[Manager] = cmd[Manager]
  BY <1>1, <1>5, NameAssumption
<1>13. OneBusy'
  BY <1>2, <1>12 DEF OneBusy
<1>14. PhaseInv'
  <2>1. pc'[s] \notin Handling /\ pc'[s] \notin Exchanging
    BY <1>5 DEF Handling, Exchanging
  <2>2. QED
    BY <1>1, <1>5, <1>12, <2>1 DEF PhaseInv, SameCommand
<1>15. SpawnInv'
  <2>1. Head(up'[s]).ok
    BY <1>5 DEF Answer
  <2>2. \A t \in Name : /\ up'[t] # <<>> /\ ~Head(up'[t]).ok => up[t] # <<>> /\ ~Head(up[t]).ok
                        /\ pc'[t] # "fork" /\ pc'[t] # "ask"
    BY <1>5, <1>8, <2>1
  <2>3. QED
    BY <1>1, <1>12, <2>2 DEF SpawnInv, Fresh, IsChild
<1>16. DeathInv'
  <2>1. \A c, p \in Name : IsChild(c, p)' /\ pc'[c] = "dead" =>
            \/ pc'[p] \in Handling /\ cmd'[p].op = "suicide"
            \/ up'[c] # <<>>
            \/ pc'[Manager] = "dead"
    <3>1. cmd[s].op # "suicide"
      BY <1>2
    <3>2. ASSUME NEW c \in Name, NEW p \in Name, IsChild(c, p)', pc'[c] = "dead"
          PROVE  \/ pc'[p] \in Handling /\ cmd'[p].op = "suicide"
                 \/ up'[c] # <<>>
                 \/ pc'[Manager] = "dead"
      <4>1. c # s /\ IsChild(c, p) /\ pc[c] = "dead" /\ up'[c] = up[c]
        BY <1>1, <1>5, <3>2 DEF IsChild
      <4>2. \/ pc[p] \in Handling /\ cmd[p].op = "suicide" /\ p # s
            \/ up[c] # <<>>
            \/ pc[Manager] = "dead"
        BY <3>1, <4>1 DEF DeathInv
      <4>3. QED
        BY <1>5, <1>12, <4>1, <4>2
    <3>3. QED
      BY <3>2
  <2>2. QED
    BY <1>1, <1>5, <1>8, <1>12, <2>1 DEF DeathInv
<1>17. \A t \in Name, x \in {0, 1} : Has(t, x)' => Has(t, x) /\ t # s
  BY <1>1, <1>5 DEF Has
<1>18. RouteInv' /\ FindInv'
  BY <1>1, <1>2, <1>12, <1>17 DEF RouteInv, FindInv, IsChild
<1>19. StartInv'
  <2>1. \A p \in Name : TargetsFor(p)' = TargetsFor(p)
    BY <1>1, <1>12 DEF TargetsFor, Along
  <2>2. \A p, u \in Name : Untold(p, u) => Untold(p, u)'
    <3>1. \A u \in Name : ~Untold(s, u)
      BY <1>1 DEF Untold
    <3>2. \A p \in Name \ {s}, u \in Name : Untold(p, u) => Untold(p, u)'
      BY <1>5, <2>1 DEF Untold
    <3>3. QED
      BY <3>1, <3>2
  <2>3. QED
    BY <1>5, <1>7, <1>12, <1>17, <2>2 DEF StartInv
<1>20. QED
  BY <1>6, <1>9, <1>10, <1>11, <1>13, <1>14, <1>15, <1>16, <1>18, <1>19

\* A service that has answered an exchange resets its routes.
LEMMA ResetStep ==
    ASSUME SInv, NEW s \in Name, Reset(s)
    PROVE  SInv'
<1> USE DEF SInv
<1>1. /\ pc[s] = "reset" /\ pc' = [pc EXCEPT ![s] = "idle"] /\ route' = [route EXCEPT ![s] = NoRoute]
      /\ UNCHANGED <<child, secret, cmd, nth, ans, down, up, ends, data, heard>>
  BY DEF Reset, Goto, pipes, fifos, output
<1>2. s # Manager
  BY <1>1 DEF LinkInv
<1>3. /\ pc'[s] = "idle" /\ \A x \in {0, 1} : route'[s][x] = None
      /\ \A t \in Name \ {s} : pc'[t] = pc[t] /\ route'[t] = route[t]
      /\ pc'[Manager] = pc[Manager]
  BY <1>1, <1>2, NameAssumption DEF TypeOK, NoRoute
<1>4. TypeOK'
  <2>1. NoRoute \in [{0, 1} -> Name \cup {None}]
    BY DEF NoRoute
  <2>2. route' \in [Name -> [{0, 1} -> Name \cup {None}]]
    BY <1>1, <2>1 DEF TypeOK
  <2>3. QED
    BY <1>1, <2>2 DEF TypeOK
<1>5. /\ \A t \in Name : Working(t)' <=> Working(t)
      /\ \A t \in Name : Active(t)' <=> Active(t)
      /\ \A t \in Name : Busy(t)' <=> Busy(t)
      /\ \A t \in Name : Good(t)' <=> Good(t)
  BY <1>1, <1>3 DEF Working, Active, Busy, Good
<1>6. /\ \A t \in Name : pc'[t] \in Handling <=> pc[t] \in Handling
      /\ \A t \in Name : pc'[t] \in Exchanging <=> pc[t] \in Exchanging
      /\ \A t \in Name : \A l \in {"fork", "ask", "hear", "born", "dead"} : pc'[t] = l <=> pc[t] = l
  BY <1>1, <1>3 DEF Handling, Exchanging
<1>7. TreeInv'
  BY <1>1 DEF TreeInv, IsChild
<1>8. LinkInv'
  <2>1. \A p, d \in Name : Engaged(p, d) => Engaged(p, d)'
    <3>1. \A p \in Name \ {s}, d \in Name : Engaged(p, d) => Engaged(p, d)'
      BY <1>1, <1>3, EngagedFrame
    <3>2. \A d \in Name : ~Engaged(s, d)
      BY <1>1 DEF Engaged
    <3>3. QED
      BY <3>1, <3>2
  <2>2. \A d \in Name \ {Manager} : Active(d)' => \E p \in Name : IsChild(d, p)' /\ Engaged(p, d)'
    BY <1>1, <1>5, <2>1 DEF LinkInv, IsChild
  <2>3. QED
    BY <1>1, <1>3, <2>2 DEF LinkInv
<1>9. TokenInv'
  BY <1>1, <1>5 DEF TokenInv
<1>10. OneBusy'
  BY <1>3, <1>5 DEF OneBusy
<1>11. PhaseInv'
  BY <1>1, <1>3, <1>6 DEF PhaseInv, SameCommand
<1>12. SpawnInv'
  BY <1>1, <1>6 DEF SpawnInv, Fresh, IsChild
<1>13. DeathInv'
  <2>1. \A p \in Name : Dying(p)' <=> Dying(p)
    BY <1>1, <1>6 DEF Dying
  <2>2. \A p \in Name : pc'[p] = "hear" /\ Dying(Current(p))' => Ends(p)'
    <3>1. ASSUME NEW p \in Name, pc'[p] = "hear", Dying(Current(p))' PROVE Ends(p)'
      <4>1. pc[p] = "hear" /\ nth[p] <= Len(child[p])
        BY <1>6, <3>1 DEF LinkInv
      <4>2. PICK c \in Name : c = Current(p) /\ c = Current(p)'
        BY <1>1, <4>1, CurrentChild DEF Current
      <4>3. Dying(c)'
        BY <3>1, <4>2 DEF Dying
      <4>4. Ends(p)
        BY <2>1, <4>1, <4>2, <4>3 DEF DeathInv
      <4>5. QED
        BY <1>1, <4>2, <4>4 DEF Ends, Direct
    <3>2. QED
      BY <3>1
  <2>3. QED
    BY <1>1, <1>3, <1>6, <2>2 DEF DeathInv, IsChild
<1>14. \A t \in Name, x \in {0, 1} : Has(t, x)' <=> Has(t, x)
  BY <1>1, <1>3 DEF Has
<1>15. RouteInv'
  BY <1>1, <1>3, <1>14 DEF RouteInv, IsChild
<1>16. FindInv'
  <2>1. ASSUME cmd[Manager].op = "find"
        PROVE  FindInv'
    <3>1. PICK x \in {0, 1} : x = cmd[Manager].n
      BY <2>1 DEF PhaseInv
    <3>2. \A y \in {0, 1} : Partner(y)' = Partner(y)
      BY <1>1 DEF Partner
    <3>3. \A t \in Name, y \in {0, 1} : Has(t, y)' =>
             /\ t # Partner(y)'
             /\ \/ t = Manager
                \/ y = x /\ Good(t)'
                \/ \E p \in Name : route'[p][y] = t /\ pc'[p] # "reset"
      <4>1. ASSUME NEW t \in Name, NEW y \in {0, 1}, Has(t, y)
            PROVE  /\ t # Partner(y)
                   /\ \/ t = Manager
                      \/ y = x /\ Good(t)
                      \/ \E p \in Name \ {s} : route[p][y] = t /\ pc[p] # "reset"
        BY <1>1, <2>1, <3>1, <4>1 DEF FindInv
      <4>2. QED
        BY <1>3, <1>5, <1>14, <3>2, <4>1
    <3>4. /\ \A t \in Name : Has(t, x)' => \A u \in Name : Busy(u)' => Good(u)'
          /\ x = 0 => \A t \in Name : ~Has(t, 1)'
      BY <1>5, <1>14, <2>1, <3>1 DEF FindInv
    <3>5. /\ \A t \in Name : pc'[t] = "hear" => route'[t][x] = None
          /\ \A t \in Name : t = Partner(x)' => pc'[t] # "hear" /\ (pc'[t] = "ask" => ans'[t].ok)
      BY <1>1, <1>3, <2>1, <3>1, <3>2 DEF FindInv
    <3>6. QED
      BY <1>1, <3>1, <3>3, <3>4, <3>5 DEF FindInv
  <2>2. QED
    BY <1>1, <2>1 DEF FindInv
<1>17. StartInv'
  <2>1. \A p \in Name \ {s} : TargetsFor(p)' = TargetsFor(p)
    BY <1>1, <1>3 DEF TargetsFor, Along
  <2>2. \A p, u \in Name : Untold(p, u) => Untold(p, u)'
    <3>1. \A u \in Name : ~Untold(s, u)
      BY <1>1 DEF Untold
    <3>2. \A p \in Name \ {s}, u \in Name : Untold(p, u) => Untold(p, u)'
      BY <1>1, <1>3, <2>1 DEF Untold
    <3>3. QED
      BY <3>1, <3>2
  <2>3. QED
    BY <1>1, <1>5, <1>6, <1>14, <2>2 DEF StartInv
<1>18. QED
  BY <1>4, <1>7, <1>8, <1>9, <1>10, <1>11, <1>12, <1>13, <1>15, <1>16, <1>17

\* A new service tells its parent that it runs.
LEMMA BornStep ==
    ASSUME SInv, NEW s \in Name, Born(s)
    PROVE  SInv'
<1> USE DEF SInv
<1>1. /\ pc[s] = "born" /\ pc' = [pc EXCEPT ![s] = "idle"]
      /\ up' = [up EXCEPT ![s] = Append(@, Answer(TRUE, 0))]
      /\ UNCHANGED <<child, secret, route, cmd, nth, ans, down, ends, data, heard>>
  BY DEF Born, Goto, globals, fifos, output
<1>2. s # Manager /\ cmd[Manager].op = "spawn" /\ down[s] = <<>> /\ up[s] = <<>>
  BY <1>1 DEF LinkInv, PhaseInv, TokenInv, Working
<1>3. /\ up'[s] # <<>> /\ Head(up'[s]) = Answer(TRUE, 0)
      /\ up' \in [Name -> Seq(Answer_)] /\ \A t \in Name : Len(up'[t]) <= 1
      /\ \A t \in Name \ {s} : up'[t] = up[t]
  <2>1. Answer(TRUE, 0) \in Answer_
    BY DEF Answer, Answer_
  <2>2. QED
    BY <1>1, <1>2, <2>1, PutUp
<1>4. /\ pc'[s] = "idle" /\ \A t \in Name \ {s} : pc'[t] = pc[t]
      /\ pc'[Manager] = pc[Manager] /\ up'[Manager] = up[Manager]
  BY <1>1, <1>2, <1>3, NameAssumption DEF TypeOK
<1>5. TypeOK'
  BY <1>1, <1>3 DEF TypeOK
<1>6. /\ \A t \in Name : Active(t)' <=> Active(t)
      /\ \A t \in Name : Busy(t)' <=> Busy(t)
  BY <1>1, <1>3, <1>4 DEF Working, Active, Busy
<1>7. /\ \A t \in Name : pc'[t] \in Handling <=> pc[t] \in Handling
      /\ \A t \in Name : pc'[t] \in Exchanging <=> pc[t] \in Exchanging
      /\ \A t \in Name : \A l \in {"fork", "ask", "hear", "dead"} : pc'[t] = l <=> pc[t] = l
  BY <1>1, <1>4 DEF Handling, Exchanging
<1>8. TreeInv'
  BY <1>1 DEF TreeInv, IsChild
<1>9. LinkInv'
  <2>1. \A p, d \in Name : Engaged(p, d) => Engaged(p, d)'
    <3>1. \A p \in Name \ {s}, d \in Name : Engaged(p, d) => Engaged(p, d)'
      BY <1>1, <1>4, EngagedFrame
    <3>2. \A d \in Name : ~Engaged(s, d)
      BY <1>1 DEF Engaged
    <3>3. QED
      BY <3>1, <3>2
  <2>2. \A d \in Name \ {Manager} : Active(d)' => \E p \in Name : IsChild(d, p)' /\ Engaged(p, d)'
    BY <1>1, <1>6, <2>1 DEF LinkInv, IsChild
  <2>3. QED
    BY <1>1, <1>4, <2>2 DEF LinkInv
<1>10. TokenInv'
  BY <1>1, <1>2, <1>3, <1>4 DEF TokenInv, Working
<1>11. OneBusy'
  BY <1>4, <1>6 DEF OneBusy
<1>12. PhaseInv'
  <2>1. \A t \in Name : pc'[t] = "born" => cmd[Manager].op = "spawn"
    BY <1>2
  <2>2. QED
    BY <1>1, <1>4, <1>7, <2>1 DEF PhaseInv, SameCommand
<1>13. SpawnInv'
  <2>1. \A t \in Name : up'[t] # <<>> /\ ~Head(up'[t]).ok => up[t] # <<>> /\ ~Head(up[t]).ok
    BY <1>3 DEF Answer
  <2>2. QED
    BY <1>1, <1>7, <2>1 DEF SpawnInv, Fresh, IsChild
<1>14. DeathInv'
  <2>1. \A p \in Name : Dying(p)' <=> Dying(p)
    BY <1>1, <1>7 DEF Dying
  <2>2. \A p \in Name : pc'[p] = "hear" /\ Dying(Current(p))' => Ends(p)'
    <3>1. ASSUME NEW p \in Name, pc'[p] = "hear", Dying(Current(p))' PROVE Ends(p)'
      <4>1. pc[p] = "hear" /\ nth[p] <= Len(child[p])
        BY <1>7, <3>1 DEF LinkInv
      <4>2. PICK c \in Name : c = Current(p) /\ c = Current(p)'
        BY <1>1, <4>1, CurrentChild DEF Current
      <4>3. Dying(c)'
        BY <3>1, <4>2 DEF Dying
      <4>4. Ends(p)
        BY <2>1, <4>1, <4>2, <4>3 DEF DeathInv
      <4>5. QED
        BY <1>1, <4>2, <4>4 DEF Ends, Direct
    <3>2. QED
      BY <3>1
  <2>3. \A c \in Name : up[c] # <<>> => up'[c] # <<>>
    BY <1>3
  <2>4. QED
    BY <1>1, <1>4, <1>7, <2>2, <2>3 DEF DeathInv, IsChild
<1>15. \A t \in Name, x \in {0, 1} : Has(t, x)' => Has(t, x)
  BY <1>1, <1>4 DEF Has
<1>16. RouteInv' /\ FindInv' /\ StartInv'
  BY <1>1, <1>2, <1>15 DEF RouteInv, FindInv, StartInv, IsChild
<1>17. QED
  BY <1>5, <1>8, <1>9, <1>10, <1>11, <1>12, <1>13, <1>14, <1>16

\* The messages that a service may pass to its child c.
LEMMA PassedFacts ==
    ASSUME TypeOK, PhaseInv, NEW s \in Name, pc[s] \in Handling, NEW c \in Name, NEW m \in Passed(s, c)
    PROVE  /\ m \in Command_ /\ SameCommand(m)
           /\ m.op = "suicide" => cmd[s].op = "suicide" \/ Direct(s)
           /\ m.op \in Uniform => m = cmd[s]
           /\ cmd[s].op \in Uniform => m = cmd[s]
<1>1. cmd[s] \in Command_ /\ ans[s].n \in Nat /\ SameCommand(cmd[s])
  BY DEF TypeOK, PhaseInv, Answer_
<1>2. CASE cmd[s].op = "suicide"
  <2>1. PICK x \in Name : m = [cmd[s] EXCEPT !.a = x]
    <3>1. Passed(s, c) = {[cmd[s] EXCEPT !.a = x] : x \in {c, s}}
      BY <1>2 DEF Passed, SuicideMessages, Direct
    <3>2. \E x \in {c, s} : m = [cmd[s] EXCEPT !.a = x]
      BY <3>1
    <3>3. QED
      BY <3>2
  <2>2. m \in Command_ /\ m.op = "suicide"
    BY <1>1, <1>2, <2>1 DEF Command_
  <2>3. QED
    BY <1>1, <1>2, <2>2 DEF SameCommand, Uniform
<1>3. CASE cmd[s].op # "suicide" /\ Direct(s)
  <2>1. m = [cmd[s] EXCEPT !.op = "suicide"] /\ cmd[s].op = "kill"
    BY <1>3 DEF Passed, Direct
  <2>2. m \in Command_ /\ m.op = "suicide"
    BY <1>1, <2>1 DEF Command_
  <2>3. QED
    BY <1>1, <1>3, <2>1, <2>2 DEF SameCommand, Uniform
<1>4. CASE cmd[s].op = "traverse"
  <2>1. m = [cmd[s] EXCEPT !.n = ans[s].n]
    BY <1>4 DEF Passed, Direct
  <2>2. m \in Command_ /\ m.op = "traverse"
    BY <1>1, <1>4, <2>1 DEF Command_
  <2>3. QED
    BY <1>1, <1>4, <2>2 DEF SameCommand, Uniform
<1>5. CASE cmd[s].op # "suicide" /\ ~Direct(s) /\ cmd[s].op # "traverse"
  <2>1. m = cmd[s]
    BY <1>5 DEF Passed
  <2>2. QED
    BY <1>1, <1>5, <2>1
<1>6. QED
  BY <1>2, <1>3, <1>4, <1>5

\* A service passes its command to its next child and waits for the answer.
LEMMA AskStep ==
    ASSUME SInv, NEW s \in Name, Ask(s)
    PROVE  SInv'
<1> USE DEF SInv
<1>1. pc[s] = "ask" /\ nth[s] <= Len(child[s]) /\ ~ans[s].ok /\ pc[s] \in Handling \ Exchanging
  <2>1. nth[s] \in Nat /\ Len(child[s]) \in Nat
    BY LenProperties DEF TypeOK
  <2>2. QED
    BY <2>1 DEF Ask, Over, Handling, Exchanging
<1>2. PICK c \in Name : c = Current(s) /\ IsChild(c, s) /\ c # s /\ c # Manager
  BY <1>1, CurrentChild
<1>3. PICK m \in Passed(s, c) : down' = [down EXCEPT ![c] = Append(@, m)]
  BY <1>2 DEF Ask
<1>4. /\ pc' = [pc EXCEPT ![s] = "hear"]
      /\ UNCHANGED <<child, secret, route, cmd, nth, ans, up, ends, data, heard>>
  BY DEF Ask, Goto, globals, fifos, output
<1>5. /\ m \in Command_ /\ SameCommand(m) /\ (m.op = "suicide" => cmd[s].op = "suicide" \/ Direct(s))
      /\ (m.op \in Uniform => m = cmd[s]) /\ (cmd[s].op \in Uniform => m = cmd[s])
  BY <1>1, PassedFacts
<1>6. \A d \in Name : ~Engaged(s, d)
  BY <1>1 DEF Engaged
<1>7. ~Active(c) /\ ~Working(c) /\ down[c] = <<>> /\ up[c] = <<>> /\ pc[c] \in {"idle", "dead", "reset"}
  BY <1>2, <1>6, ChildAtRest
<1>8. /\ down'[c] # <<>> /\ Head(down'[c]) = m /\ \A t \in Name \ {c} : down'[t] = down[t]
      /\ down' \in [Name -> Seq(Command_)] /\ \A t \in Name : Len(down'[t]) <= 1
  BY <1>3, <1>5, <1>7, PutDown
<1>9. pc'[s] = "hear" /\ \A t \in Name \ {s} : pc'[t] = pc[t]
  BY <1>4 DEF TypeOK
<1>10. TypeOK'
  BY <1>4, <1>8 DEF TypeOK
<1>11. down[s] = <<>> /\ up[s] = <<>> /\ Active(s)
  BY <1>1 DEF TokenInv, Active, Working
<1>12. (\A t \in Name : pc[t] \notin Exchanging) /\ cmd[Manager].op # "start"
  BY <1>1, OtherPhase
<1>13. \A t \in Name : Busy(t) => t = s
  BY <1>1, <1>12, NameAssumption DEF OneBusy, Busy
<1>14. \A t \in Name : Active(t)' <=> Active(t) \/ t = c
  BY <1>1, <1>4, <1>8, <1>9 DEF Active, Working
<1>15. \A t \in Name : /\ pc'[t] \in Handling <=> pc[t] \in Handling
                       /\ pc'[t] \notin Exchanging
                       /\ \A l \in {"fork", "born", "dead", "idle", "reset"} : pc'[t] = l <=> pc[t] = l
  BY <1>1, <1>9, <1>12 DEF Handling, Exchanging
<1>16. TreeInv'
  BY <1>4 DEF TreeInv, IsChild
<1>17. LinkInv'
  <2>1. Engaged(s, c)'
    BY <1>1, <1>2, <1>4, <1>9 DEF Engaged, Current
  <2>2. \A p, d \in Name : Engaged(p, d) => Engaged(p, d)'
    <3>1. \A p \in Name \ {s}, d \in Name : Engaged(p, d) => Engaged(p, d)'
      BY <1>4, <1>9, EngagedFrame
    <3>2. QED
      BY <1>6, <3>1
  <2>3. \A d \in Name \ {Manager} : Active(d)' => \E p \in Name : IsChild(d, p)' /\ Engaged(p, d)'
    BY <1>2, <1>4, <1>14, <2>1, <2>2 DEF LinkInv, IsChild
  <2>4. \A p \in Name : pc'[p] = "hear" => nth'[p] <= Len(child'[p])
    BY <1>1, <1>4, <1>9 DEF LinkInv
  <2>5. down'[Manager] = <<>>
    BY <1>2, <1>8, NameAssumption DEF LinkInv
  <2>6. pc'[Manager] \notin {"born", "reset"}
    BY <1>9, NameAssumption DEF LinkInv
  <2>7. \A p \in Name : pc'[p] \in {"open1", "open2", "give", "take"} => nth'[p] = 1
    BY <1>15 DEF Exchanging
  <2>8. QED
    BY <1>4, <2>3, <2>4, <2>5, <2>6, <2>7 DEF LinkInv
<1>18. TokenInv'
  BY <1>2, <1>4, <1>7, <1>8, <1>9, <1>11 DEF TokenInv, Working
<1>19. OneBusy'
  <2>1. \A t \in Name : Busy(t)' => t = c
    BY <1>4, <1>8, <1>9, <1>11, <1>13 DEF Busy
  <2>2. QED
    BY <2>1 DEF OneBusy
<1>20. PhaseInv'
  <2>1. \A t \in Name : down'[t] # <<>> => SameCommand(Head(down'[t]))
    BY <1>5, <1>8 DEF PhaseInv
  <2>2. \A t \in Name : down'[t] # <<>> => SameCommand(Head(down[t]))'
    BY <1>4, <2>1 DEF SameCommand
  <2>3. \A t \in Name : pc'[t] \in Handling => SameCommand(cmd[t])'
    BY <1>4, <1>15 DEF PhaseInv, SameCommand
  <2>4. \A t \in Name : pc'[t] \in Exchanging <=> pc'[t] \in Handling /\ cmd'[t].op = "start"
    BY <1>4, <1>12, <1>15 DEF PhaseInv
  <2>5. Manager \in Name
    BY NameAssumption
  <2>6. QED
    BY <1>4, <1>15, <2>2, <2>3, <2>4, <2>5 DEF PhaseInv
<1>21. SpawnInv'
  <2>1. Fresh(m)
    BY <1>1, <1>5 DEF SpawnInv, Fresh, Uniform
  <2>2. \A t \in Name : down'[t] # <<>> => Fresh(Head(down'[t]))
    BY <1>8, <2>1 DEF SpawnInv
  <2>3. \A e \in Command_ : Fresh(e)' <=> Fresh(e)
    BY <1>4 DEF Fresh, IsChild
  <2>4. \A t \in Name : down'[t] # <<>> => Fresh(Head(down[t]))'
    BY <1>4, <2>2 DEF Fresh, IsChild
  <2>5. \A t \in Name : /\ pc'[t] = "fork" \/ (pc'[t] = "ask" /\ ~ans'[t].ok) => Fresh(cmd[t])'
                        /\ up'[t] # <<>> /\ ~Head(up'[t]).ok => Fresh(cmd[Manager])'
    BY <1>4, <1>9 DEF SpawnInv, Fresh, IsChild
  <2>6. QED
    BY <2>4, <2>5 DEF SpawnInv
<1>22. DeathInv'
  <2>1. Dying(c)' => Ends(s)
    <3>1. pc[Manager] # "dead"
      BY <1>1, <1>11, ManagerAtWork DEF Exchanging
    <3>2. pc[c] = "dead" => cmd[s].op = "suicide"
      BY <1>2, <1>7, <3>1 DEF DeathInv
    <3>3. pc'[c] \notin Handling
      BY <1>7, <1>15 DEF Handling, Exchanging
    <3>4. QED
      BY <1>2, <1>5, <1>8, <1>9, <3>2, <3>3 DEF Dying, Ends
  <2>2. \A d \in Name \ {c} : Dying(d)' => Dying(d)
    BY <1>4, <1>8, <1>15 DEF Dying
  <2>3. \A p \in Name : pc'[p] = "hear" /\ Dying(Current(p))' => Ends(p)'
    <3>1. ASSUME NEW p \in Name, pc'[p] = "hear", Dying(Current(p))' PROVE Ends(p)'
      <4>1. CASE p = s
        <5>1. Dying(c)'
          BY <1>2, <1>4, <3>1, <4>1 DEF Dying, Current
        <5>2. QED
          BY <1>4, <2>1, <4>1, <5>1 DEF Ends, Direct, Current
      <4>2. CASE p # s
        <5>1. pc[p] = "hear" /\ nth[p] <= Len(child[p])
          BY <1>9, <3>1, <4>2 DEF LinkInv
        <5>2. PICK d \in Name : d = Current(p) /\ d = Current(p)' /\ IsChild(d, p)
          BY <1>4, <5>1, CurrentChild DEF Current
        <5>3. d # c
          BY <1>2, <4>2, <5>2 DEF TreeInv
        <5>4. Dying(d)'
          BY <3>1, <5>2 DEF Dying
        <5>5. Ends(p)
          BY <2>2, <5>1, <5>2, <5>3, <5>4 DEF DeathInv
        <5>6. QED
          BY <1>4, <5>2, <5>5 DEF Ends, Direct, Current
      <4>3. QED
        BY <4>1, <4>2
    <3>2. QED
      BY <3>1
  <2>4. Manager \in Name
    BY NameAssumption
  <2>5. QED
    BY <1>4, <1>15, <2>3, <2>4 DEF DeathInv, IsChild
<1>23. \A t \in Name, x \in {0, 1} : Has(t, x)' <=> Has(t, x)
  BY <1>4, <1>15 DEF Has
<1>24. RouteInv'
  BY <1>4, <1>23 DEF RouteInv, IsChild
<1>25. FindInv'
  <2>1. ASSUME cmd[Manager].op = "find"
        PROVE  FindInv'
    <3>1. PICK x \in {0, 1} : x = cmd[Manager].n
      BY <2>1 DEF PhaseInv
    <3>2. \A y \in {0, 1} : Partner(y)' = Partner(y)
      BY <1>4 DEF Partner
    <3>3. \A t \in Name : ~Has(t, x)
      <4>1. ~Good(s) /\ Busy(s)
        BY <1>1, <1>11 DEF Good, Busy
      <4>2. QED
        BY <2>1, <3>1, <4>1 DEF FindInv
    <3>4. \A t \in Name : pc'[t] = "hear" => route'[t][x] = None
      BY <1>1, <1>4, <1>9, <2>1, <3>1, <3>3 DEF FindInv, Has
    <3>5. \A t \in Name : t = Partner(x)' => pc'[t] # "hear" /\ (pc'[t] = "ask" => ans'[t].ok)
      BY <1>1, <1>4, <1>9, <2>1, <3>1, <3>2 DEF FindInv
    <3>6. \A t \in Name, y \in {0, 1} : Has(t, y)' =>
             /\ t # Partner(y)'
             /\ \/ t = Manager
                \/ \E p \in Name : route'[p][y] = t /\ pc'[p] # "reset"
      <4>1. ASSUME NEW t \in Name, NEW y \in {0, 1}, Has(t, y)
            PROVE  /\ t # Partner(y)
                   /\ \/ t = Manager
                      \/ \E p \in Name : route[p][y] = t /\ pc[p] # "reset"
        BY <2>1, <3>1, <3>3, <4>1 DEF FindInv
      <4>2. QED
        BY <1>4, <1>15, <1>23, <3>2, <4>1
    <3>7. x = 0 => \A t \in Name : ~Has(t, 1)'
      BY <1>23, <2>1, <3>1 DEF FindInv
    <3>8. QED
      BY <1>4, <1>23, <3>1, <3>3, <3>4, <3>5, <3>6, <3>7 DEF FindInv
  <2>2. QED
    BY <1>4, <2>1 DEF FindInv
<1>26. StartInv'
  BY <1>4, <1>12 DEF StartInv
<1>27. QED
  BY <1>10, <1>16, <1>17, <1>18, <1>19, <1>20, <1>21, <1>22, <1>24, <1>25, <1>26

\* A service answers its parent and waits for the next command, or ends.
LEMMA ReplyStep ==
    ASSUME SInv, NEW s \in Name, Reply(s)
    PROVE  SInv'
<1> USE DEF SInv
<1>1. /\ s # Manager /\ pc[s] = "ask" /\ pc[s] \in Handling \ Exchanging
      /\ up' = [up EXCEPT ![s] = Append(@, ans[s])]
      /\ cmd' = [cmd EXCEPT ![s] = Nothing] /\ nth' = [nth EXCEPT ![s] = 1]
      /\ ans' = [ans EXCEPT ![s] = Answer(FALSE, 0)]
      /\ UNCHANGED <<route, down, ends, data, heard>>
  BY DEF Reply, Finish, fifos, output, Handling, Exchanging
<1>2. \/ /\ cmd[s].op = "suicide" /\ pc' = [pc EXCEPT ![s] = "dead"]
         /\ child' = [child EXCEPT ![s] = <<>>] /\ secret' = [secret EXCEPT ![s] = None]
      \/ cmd[s].op # "suicide" /\ pc' = [pc EXCEPT ![s] = "idle"] /\ UNCHANGED <<child, secret>>
  BY DEF Reply, Finish, Goto, Forget
<1>3. Working(s) /\ down[s] = <<>> /\ up[s] = <<>>
  BY <1>1 DEF TokenInv, Working
<1>4. /\ up'[s] # <<>> /\ Head(up'[s]) = ans[s]
      /\ up' \in [Name -> Seq(Answer_)] /\ \A t \in Name : Len(up'[t]) <= 1
      /\ \A t \in Name \ {s} : up'[t] = up[t]
  <2>1. ans[s] \in Answer_
    BY DEF TypeOK
  <2>2. QED
    BY <1>1, <1>3, <2>1, PutUp
<1>5. /\ pc'[s] \in {"idle", "dead"} /\ (pc'[s] = "dead" <=> cmd[s].op = "suicide")
      /\ pc'[s] = "dead" => child'[s] = <<>>
      /\ pc'[s] # "dead" => child'[s] = child[s] /\ secret'[s] = secret[s]
      /\ child'[s] \in {<<>>, child[s]}
  BY <1>2 DEF TypeOK
<1>6. /\ \A t \in Name \ {s} : /\ pc'[t] = pc[t] /\ up'[t] = up[t] /\ cmd'[t] = cmd[t] /\ nth'[t] = nth[t]
                               /\ ans'[t] = ans[t] /\ child'[t] = child[t] /\ secret'[t] = secret[t]
      /\ Manager \in Name /\ pc'[Manager] = pc[Manager] /\ cmd'[Manager] = cmd[Manager]
      /\ up'[Manager] = up[Manager]
  BY <1>1, <1>2, <1>4, NameAssumption DEF TypeOK
<1>7. TypeOK'
  <2>1. Nothing \in Command_ /\ Answer(FALSE, 0) \in Answer_ /\ <<>> \in Seq(Name)
    BY NameAssumption, EmptySeq DEF Nothing, Cmd, Command_, Answer, Answer_
  <2>2. cmd' \in [Name -> Command_]
    BY <1>1, <2>1 DEF TypeOK
  <2>3. ans' \in [Name -> Answer_]
    BY <1>1, <2>1 DEF TypeOK
  <2>4. nth' \in [Name -> Nat \ {0}]
    BY <1>1 DEF TypeOK
  <2>5. /\ pc' \in [Name -> {"dead", "born", "idle", "fork", "ask", "hear", "tell", "open1", "open2",
                             "give", "take", "collect", "reset"}]
        /\ child' \in [Name -> Seq(Name)]
        /\ secret' \in [Name -> Secret \cup {None}]
    <3>1. CASE cmd[s].op = "suicide"
      <4>1. PICK q \in Seq(Name) : q = <<>>
        BY <2>1
      <4>2. child' = [child EXCEPT ![s] = q]
        BY <1>2, <3>1, <4>1
      <4>3. child' \in [Name -> Seq(Name)]
        BY <4>2 DEF TypeOK
      <4>4. secret' \in [Name -> Secret \cup {None}]
        BY <1>2, <3>1 DEF TypeOK
      <4>5. pc' = [pc EXCEPT ![s] = "dead"]
        BY <1>2, <3>1
      <4>6. QED
        BY <4>3, <4>4, <4>5 DEF TypeOK
    <3>2. CASE cmd[s].op # "suicide"
      BY <1>2, <3>2 DEF TypeOK
    <3>3. QED
      BY <3>1, <3>2
  <2>6. QED
    BY <1>1, <1>4, <2>2, <2>3, <2>4, <2>5 DEF TypeOK
<1>8. /\ \A t \in Name : Active(t)' <=> Active(t)
      /\ \A t \in Name : Busy(t)' <=> Busy(t)
  BY <1>1, <1>4, <1>5, <1>6 DEF Working, Active, Busy
<1>9. (\A t \in Name : pc[t] \notin Exchanging) /\ cmd[Manager].op # "start"
  BY <1>1, OtherPhase
<1>10. \A c, p \in Name : IsChild(c, p)' => IsChild(c, p) /\ (p = s => pc'[s] # "dead")
  <2>1. \A c : c \notin ToSet(<<>>)
    BY DEF ToSet
  <2>2. QED
    BY <1>5, <1>6, <2>1 DEF IsChild
<1>11. pc'[s] \notin Handling /\ pc'[s] \notin Exchanging
  BY <1>5 DEF Handling, Exchanging
<1>12. \A d \in Name : ~Engaged(s, d)
  BY <1>1 DEF Engaged
<1>13. TreeInv'
  <2>1. \A p \in Name : ~IsChild(Manager, p)' /\ IsInjective(child'[p])
    <3>1. \A p \in Name : child'[p] \in {<<>>, child[p]}
      BY <1>5, <1>6
    <3>2. IsInjective(<<>>)
      BY DEF IsInjective
    <3>3. QED
      BY <1>6, <1>10, <3>1, <3>2 DEF TreeInv
  <2>2. \A c, p, q \in Name : IsChild(c, p)' /\ IsChild(c, q)' => p = q
    BY <1>10 DEF TreeInv
  <2>3. ASSUME NEW T \in SUBSET Name, \A c \in T : \E p \in T : IsChild(c, p)' PROVE T = {}
    BY <1>10, <2>3 DEF TreeInv
  <2>4. QED
    BY <2>1, <2>2, <2>3 DEF TreeInv
<1>14. LinkInv'
  <2>1. \A p \in Name \ {s}, d \in Name : Engaged(p, d) => Engaged(p, d)'
    BY <1>1, <1>6, EngagedFrame
  <2>2. \A d \in Name \ {Manager} : Active(d)' => \E p \in Name : IsChild(d, p)' /\ Engaged(p, d)'
    <3>1. ASSUME NEW d \in Name \ {Manager}, Active(d)' PROVE \E p \in Name : IsChild(d, p)' /\ Engaged(p, d)'
      <4>1. PICK p \in Name : IsChild(d, p) /\ Engaged(p, d)
        BY <1>8, <3>1 DEF LinkInv
      <4>2. p # s
        BY <1>12, <4>1
      <4>3. QED
        BY <1>6, <2>1, <4>1, <4>2 DEF IsChild
    <3>2. QED
      BY <3>1
  <2>3. \A p \in Name : /\ pc'[p] = "hear" => nth'[p] <= Len(child'[p])
                        /\ pc'[p] \in {"open1", "open2", "give", "take"} => nth'[p] = 1
    BY <1>5, <1>6 DEF LinkInv
  <2>4. QED
    BY <1>1, <1>6, <2>2, <2>3 DEF LinkInv
<1>15. TokenInv'
  BY <1>1, <1>3, <1>4, <1>5, <1>6 DEF TokenInv, Working
<1>16. OneBusy'
  BY <1>6, <1>8 DEF OneBusy
<1>17. PhaseInv'
  BY <1>1, <1>5, <1>6, <1>11 DEF PhaseInv, SameCommand
<1>18. SpawnInv'
  <2>1. /\ \A t \in Name : cmd[t].b \in Name /\ (down[t] # <<>> => Head(down[t]).b \in Name)
        /\ cmd[Manager].b \in Name
    <3>1. \A t \in Name : cmd[t] \in Command_ /\ (down[t] # <<>> => Head(down[t]) \in Command_)
      BY PipeTypes, PipeFacts DEF TypeOK
    <3>2. QED
      BY <1>6, <3>1 DEF Command_
  <2>2. ~ans[s].ok => Fresh(cmd[Manager])
    <3>1. SameCommand(cmd[s])
      BY <1>1 DEF PhaseInv
    <3>2. cmd[Manager].op = "spawn" => cmd[s] = cmd[Manager]
      BY <3>1 DEF SameCommand, Uniform
    <3>3. QED
      BY <1>1, <3>2 DEF SpawnInv, Fresh
  <2>3. \A t \in Name : up'[t] # <<>> /\ ~Head(up'[t]).ok => Fresh(cmd[Manager])
    BY <1>4, <2>2 DEF SpawnInv
  <2>4. \A t \in Name : up'[t] # <<>> /\ ~Head(up'[t]).ok => Fresh(cmd[Manager])'
    BY <1>6, <1>10, <2>1, <2>3 DEF Fresh
  <2>5. \A t \in Name : pc'[t] = "fork" \/ (pc'[t] = "ask" /\ ~ans'[t].ok) => Fresh(cmd[t])'
    <3>1. ASSUME NEW t \in Name, pc'[t] = "fork" \/ (pc'[t] = "ask" /\ ~ans'[t].ok) PROVE Fresh(cmd[t])'
      <4>1. t # s
        BY <1>5, <3>1
      <4>2. Fresh(cmd[t]) /\ cmd'[t] = cmd[t]
        BY <1>6, <3>1, <4>1 DEF SpawnInv
      <4>3. QED
        BY <1>10, <2>1, <4>2 DEF Fresh
    <3>2. QED
      BY <3>1
  <2>6. \A t \in Name : down'[t] # <<>> => Fresh(Head(down[t]))'
    BY <1>1, <1>10, <2>1 DEF SpawnInv, Fresh
  <2>7. QED
    BY <2>4, <2>5, <2>6 DEF SpawnInv
<1>19. DeathInv'
  <2>1. ASSUME NEW c \in Name, NEW p \in Name, IsChild(c, p)', pc'[c] = "dead"
        PROVE  \/ pc'[p] \in Handling /\ cmd'[p].op = "suicide"
               \/ up'[c] # <<>>
               \/ pc'[Manager] = "dead"
    <3>1. CASE c = s
      BY <1>4, <3>1
    <3>2. CASE c # s
      <4>1. IsChild(c, p) /\ pc[c] = "dead" /\ up'[c] = up[c]
        BY <1>6, <1>10, <2>1, <3>2
      <4>2. p = s => cmd[p].op # "suicide"
        BY <1>5, <1>10, <2>1
      <4>3. \/ pc[p] \in Handling /\ cmd[p].op = "suicide" /\ p # s
            \/ up[c] # <<>>
            \/ pc[Manager] = "dead"
        BY <4>1, <4>2 DEF DeathInv
      <4>4. QED
        BY <1>6, <4>1, <4>3
    <3>3. QED
      BY <3>1, <3>2
  <2>2. \A p \in Name : pc'[p] = "dead" /\ child'[p] # <<>> => pc'[Manager] = "dead"
    BY <1>5, <1>6 DEF DeathInv
  <2>3. \A c \in Name : Dying(c)' => Dying(c)
    BY <1>1, <1>5, <1>6, <1>11 DEF Dying
  <2>4. ASSUME NEW p \in Name, pc'[p] = "hear", Dying(Current(p))' PROVE Ends(p)'
    <3>1. pc[p] = "hear" /\ nth[p] <= Len(child[p]) /\ p # s
      BY <1>5, <1>6, <2>4 DEF LinkInv
    <3>2. PICK c \in Name : c = Current(p) /\ c = Current(p)'
      BY <1>6, <3>1, CurrentChild DEF Current
    <3>3. Dying(c)'
      BY <2>4, <3>2 DEF Dying
    <3>4. Ends(p)
      BY <2>3, <3>1, <3>2, <3>3 DEF DeathInv
    <3>5. QED
      BY <1>6, <3>1, <3>2, <3>4 DEF Ends, Direct
  <2>5. \A t \in Name : pc'[t] # "dead" => secret'[t] \in Secret
    BY <1>1, <1>5, <1>6 DEF DeathInv
  <2>6. QED
    BY <2>1, <2>2, <2>4, <2>5 DEF DeathInv
<1>20. \A t \in Name, x \in {0, 1} : Has(t, x)' <=> Has(t, x)
  BY <1>1, <1>5, <1>6 DEF Has
<1>21. SameCommand(cmd[s])
  BY <1>1 DEF PhaseInv
<1>22. RouteInv'
  <2>1. ASSUME NEW t \in Name, NEW x \in {0, 1}, route[t][x] # None PROVE IsChild(route[t][x], t)'
    <3>1. IsChild(route[t][x], t)
      BY <2>1 DEF RouteInv
    <3>2. child'[t] = child[t]
      <4>1. CASE t # s
        BY <1>6, <4>1
      <4>2. CASE t = s
        <5>1. Has(s, x)
          BY <1>1, <2>1, <4>2 DEF Has
        <5>2. cmd[Manager].op \in {"find", "start"}
          BY <5>1 DEF RouteInv
        <5>3. cmd[s].op # "suicide"
          BY <1>21, <5>2 DEF SameCommand, Uniform
        <5>4. QED
          BY <1>5, <4>2, <5>3
      <4>3. QED
        BY <4>1, <4>2
    <3>3. QED
      BY <1>1, <3>1, <3>2 DEF IsChild
  <2>2. QED
    BY <1>1, <1>6, <1>20, <2>1 DEF RouteInv
<1>23. FindInv'
  <2>1. ASSUME cmd[Manager].op = "find"
        PROVE  FindInv'
    <3>1. PICK x \in {0, 1} : x = cmd[Manager].n
      BY <2>1 DEF PhaseInv
    <3>2. \A y \in {0, 1} : Partner(y)' = Partner(y)
      BY <1>6 DEF Partner
    <3>3. \A t \in Name : Good(t)' <=> Good(t)
      <4>1. Good(s)' <=> Good(s)
        BY <1>1, <1>3, <1>4, <1>5 DEF Good
      <4>2. \A t \in Name \ {s} : Good(t)' <=> Good(t)
        BY <1>6 DEF Good
      <4>3. QED
        BY <4>1, <4>2
    <3>4. \A t \in Name, y \in {0, 1} : Has(t, y)' =>
             /\ t # Partner(y)'
             /\ \/ t = Manager
                \/ y = x /\ Good(t)'
                \/ \E p \in Name : route'[p][y] = t /\ pc'[p] # "reset"
      <4>1. ASSUME NEW t \in Name, NEW y \in {0, 1}, Has(t, y)
            PROVE  /\ t # Partner(y)
                   /\ \/ t = Manager
                      \/ y = x /\ Good(t)
                      \/ \E p \in Name : route[p][y] = t /\ pc[p] # "reset"
        BY <2>1, <3>1, <4>1 DEF FindInv
      <4>2. \A p \in Name : pc[p] # "reset" => pc'[p] # "reset"
        BY <1>5, <1>6
      <4>3. QED
        BY <1>1, <1>20, <3>2, <3>3, <4>1, <4>2
    <3>5. /\ \A t \in Name : Has(t, x)' => \A u \in Name : Busy(u)' => Good(u)'
          /\ x = 0 => \A t \in Name : ~Has(t, 1)'
      BY <1>8, <1>20, <2>1, <3>1, <3>3 DEF FindInv
    <3>6. /\ \A t \in Name : pc'[t] = "hear" => route'[t][x] = None
          /\ \A t \in Name : t = Partner(x)' => pc'[t] # "hear" /\ (pc'[t] = "ask" => ans'[t].ok)
      <4>1. \A t \in Name : /\ pc[t] = "hear" => route[t][x] = None
                            /\ t = Partner(x) => pc[t] # "hear" /\ (pc[t] = "ask" => ans[t].ok)
        BY <2>1, <3>1 DEF FindInv
      <4>2. \A t \in Name : pc'[t] \in {"hear", "ask"} => t # s /\ pc'[t] = pc[t] /\ ans'[t] = ans[t]
        BY <1>5, <1>6
      <4>3. QED
        BY <1>1, <3>2, <4>1, <4>2
    <3>7. QED
      BY <1>6, <3>1, <3>4, <3>5, <3>6 DEF FindInv
  <2>2. QED
    BY <1>6, <2>1 DEF FindInv
<1>24. StartInv'
  BY <1>6, <1>9 DEF StartInv
<1>25. QED
  BY <1>7, <1>13, <1>14, <1>15, <1>16, <1>17, <1>18, <1>19, <1>22, <1>23, <1>24

\* A service starts to handle a command.
LEMMA BeginFacts ==
    ASSUME TypeOK, NEW s \in Name, NEW m \in Command_, Begin(s, m)
    PROVE  /\ pc'[s] \in {"fork", "tell", "ask"} /\ (pc'[s] = "tell" <=> m.op = "start")
           /\ (pc'[s] = "fork" => m.op = "spawn")
           /\ cmd'[s] = m /\ nth'[s] = 1 /\ ans'[s] = FirstAns(s, m)
           /\ \A t \in Name \ {s} : pc'[t] = pc[t] /\ cmd'[t] = cmd[t] /\ nth'[t] = nth[t] /\ ans'[t] = ans[t]
           /\ pc' \in [Name -> {"dead", "born", "idle", "fork", "ask", "hear", "tell", "open1", "open2",
                                "give", "take", "collect", "reset"}]
           /\ cmd' \in [Name -> Command_] /\ nth' \in [Name -> Nat \ {0}] /\ ans' \in [Name -> Answer_]
<1>1. PICK place \in {"fork", "tell", "ask"} :
         /\ pc' = [pc EXCEPT ![s] = place]
         /\ place = "tell" <=> m.op = "start"
         /\ place = "fork" => m.op = "spawn"
  BY DEF Begin, Goto
<1>2. /\ cmd' = [cmd EXCEPT ![s] = m] /\ nth' = [nth EXCEPT ![s] = 1]
      /\ ans' = [ans EXCEPT ![s] = FirstAns(s, m)]
  BY DEF Begin
<1>3. FirstAns(s, m) \in Answer_
  <2>1. m.n \in Nat
    BY DEF Command_
  <2>2. Count(s, m) \in Nat
    <3>1. PICK k \in {0, 1} : Count(s, m) = m.n + k
      BY DEF Count
    <3>2. QED
      BY <2>1, <3>1
  <2>3. \A ok \in BOOLEAN, n \in Nat : Answer(ok, n) \in Answer_
    BY DEF Answer, Answer_
  <2>4. \E ok \in BOOLEAN, n \in Nat : FirstAns(s, m) = Answer(ok, n)
    <3>1. CASE m.op = "traverse"
      BY <2>2, <3>1 DEF FirstAns
    <3>2. CASE m.op = "find"
      BY <3>2 DEF FirstAns
    <3>3. CASE m.op = "suicide"
      BY <3>3 DEF FirstAns
    <3>4. CASE m.op \notin {"traverse", "find", "suicide"}
      BY <3>4 DEF FirstAns
    <3>5. QED
      BY <3>1, <3>2, <3>3, <3>4
  <2>5. QED
    BY <2>3, <2>4
<1>4. PICK a \in Answer_ : a = FirstAns(s, m)
  BY <1>3
<1>5. ans' = [ans EXCEPT ![s] = a]
  BY <1>2, <1>4
<1>6. cmd' \in [Name -> Command_] /\ cmd'[s] = m /\ \A t \in Name \ {s} : cmd'[t] = cmd[t]
  BY <1>2 DEF TypeOK
<1>7. ans' \in [Name -> Answer_] /\ ans'[s] = a /\ \A t \in Name \ {s} : ans'[t] = ans[t]
  BY <1>5 DEF TypeOK
<1>8. nth' \in [Name -> Nat \ {0}] /\ nth'[s] = 1 /\ \A t \in Name \ {s} : nth'[t] = nth[t]
  BY <1>2 DEF TypeOK
<1>9. /\ pc' \in [Name -> {"dead", "born", "idle", "fork", "ask", "hear", "tell", "open1", "open2",
                           "give", "take", "collect", "reset"}]
      /\ pc'[s] = place /\ \A t \in Name \ {s} : pc'[t] = pc[t]
  BY <1>1 DEF TypeOK
<1>10. QED
  BY <1>1, <1>4, <1>6, <1>7, <1>8, <1>9

\* The children on the way to the partners, in the order in which they are told.
LEMMA TargetsForSeq ==
    ASSUME TypeOK, NEW s \in Name
    PROVE  TargetsFor(s) \in Seq(Name) /\ \A k \in DOMAIN TargetsFor(s) : k \in Nat /\ k >= 1
<1>1. Along(s, 0) \in Seq(Name) /\ Along(s, 1) \in Seq(Name)
  <2>1. route[s] \in [{0, 1} -> Name \cup {None}]
    BY DEF TypeOK
  <2>2. QED
    BY <2>1, EmptySeq DEF Along
<1>2. Along(s, 0) \o Along(s, 1) \in Seq(Name)
  BY <1>1, ConcatProperties
<1>3. TargetsFor(s) \in Seq(Name)
  BY <1>1, <1>2 DEF TargetsFor
<1>4. QED
  BY <1>3, LenProperties

\* A service reads a command of its parent.
LEMMA ReceiveStep ==
    ASSUME SInv, NEW s \in Name, Receive(s)
    PROVE  SInv'
<1> USE DEF SInv
<1>1. /\ s # Manager /\ pc[s] = "idle" /\ down[s] # <<>> /\ down' = [down EXCEPT ![s] = Tail(@)]
      /\ UNCHANGED <<child, secret, route, up, ends, data>>
      /\ heard' \in {heard, Append(heard, s)}
  BY DEF Receive, globals, fifos
<1>2. PICK m \in Command_ : m = Head(down[s])
  BY <1>1, PipeTypes, PipeFacts
<1>3. /\ pc'[s] \in {"fork", "tell", "ask"} /\ (pc'[s] = "tell" <=> m.op = "start")
      /\ (pc'[s] = "fork" => m.op = "spawn")
      /\ cmd'[s] = m /\ nth'[s] = 1 /\ ans'[s] = FirstAns(s, m)
      /\ \A t \in Name \ {s} : pc'[t] = pc[t] /\ cmd'[t] = cmd[t] /\ nth'[t] = nth[t] /\ ans'[t] = ans[t]
      /\ pc' \in [Name -> {"dead", "born", "idle", "fork", "ask", "hear", "tell", "open1", "open2",
                           "give", "take", "collect", "reset"}]
      /\ cmd' \in [Name -> Command_] /\ nth' \in [Name -> Nat \ {0}] /\ ans' \in [Name -> Answer_]
  <2>1. Begin(s, m)
    BY <1>2 DEF Receive
  <2>2. QED
    BY <2>1, BeginFacts
<1>4. /\ down' \in [Name -> Seq(Command_)] /\ \A t \in Name : Len(down'[t]) <= 1
      /\ down'[s] = <<>> /\ \A t \in Name \ {s} : down'[t] = down[t]
  BY <1>1, TakeDown
<1>5. /\ Manager \in Name /\ pc'[Manager] = pc[Manager] /\ cmd'[Manager] = cmd[Manager]
      /\ down'[Manager] = down[Manager]
  BY <1>1, <1>3, <1>4, NameAssumption
<1>6. TypeOK'
  <2>1. heard' \in Seq(Name)
    <3>1. heard \in Seq(Name) /\ Append(heard, s) \in Seq(Name)
      BY AppendProperties DEF TypeOK
    <3>2. QED
      BY <1>1, <3>1
  <2>2. QED
    BY <1>1, <1>3, <1>4, <2>1 DEF TypeOK
<1>7. up[s] = <<>> /\ SameCommand(m) /\ Fresh(m)
  BY <1>1, <1>2 DEF TokenInv, PhaseInv, SpawnInv
<1>8. /\ \A t \in Name : Active(t)' <=> Active(t)
      /\ \A t \in Name : Busy(t)' <=> Busy(t)
  BY <1>1, <1>3, <1>4 DEF Working, Active, Busy
<1>9. TreeInv'
  BY <1>1 DEF TreeInv, IsChild
<1>10. LinkInv'
  <2>1. \A p, d \in Name : Engaged(p, d) => Engaged(p, d)'
    <3>1. \A p \in Name \ {s}, d \in Name : Engaged(p, d) => Engaged(p, d)'
      BY <1>1, <1>3, EngagedFrame
    <3>2. \A d \in Name : ~Engaged(s, d)
      BY <1>1 DEF Engaged
    <3>3. QED
      BY <3>1, <3>2
  <2>2. \A d \in Name \ {Manager} : Active(d)' => \E p \in Name : IsChild(d, p)' /\ Engaged(p, d)'
    BY <1>1, <1>8, <2>1 DEF LinkInv, IsChild
  <2>3. \A p \in Name : /\ pc'[p] = "hear" => nth'[p] <= Len(child'[p])
                        /\ pc'[p] \in {"open1", "open2", "give", "take"} => nth'[p] = 1
    BY <1>1, <1>3 DEF LinkInv
  <2>4. QED
    BY <1>1, <1>5, <2>2, <2>3 DEF LinkInv
<1>11. TokenInv'
  BY <1>1, <1>3, <1>4, <1>7 DEF TokenInv, Working
<1>12. OneBusy'
  BY <1>5, <1>8 DEF OneBusy
<1>13. PhaseInv'
  <2>1. \A t \in Name : pc'[t] \in Handling => SameCommand(cmd[t])'
    BY <1>3, <1>5, <1>7 DEF PhaseInv, SameCommand
  <2>2. \A t \in Name : down'[t] # <<>> => SameCommand(Head(down[t]))'
    BY <1>4, <1>5 DEF PhaseInv, SameCommand
  <2>3. \A t \in Name : pc'[t] \in Exchanging <=> pc'[t] \in Handling /\ cmd'[t].op = "start"
    <3>1. pc'[s] \in Handling /\ (pc'[s] \in Exchanging <=> pc'[s] = "tell")
      BY <1>3 DEF Handling, Exchanging
    <3>2. QED
      BY <1>3, <3>1 DEF PhaseInv
  <2>4. \A t \in Name : /\ pc'[t] = "fork" => cmd'[t].op = "spawn"
                        /\ pc'[t] = "born" => cmd'[Manager].op = "spawn"
    BY <1>3, <1>5 DEF PhaseInv
  <2>5. QED
    BY <1>5, <2>1, <2>2, <2>3, <2>4 DEF PhaseInv
<1>14. SpawnInv'
  <2>1. \A t \in Name : pc'[t] = "fork" \/ (pc'[t] = "ask" /\ ~ans'[t].ok) => Fresh(cmd[t])'
    BY <1>1, <1>3, <1>7 DEF SpawnInv, Fresh, IsChild
  <2>2. \A t \in Name : down'[t] # <<>> => Fresh(Head(down[t]))'
    BY <1>1, <1>4 DEF SpawnInv, Fresh, IsChild
  <2>3. \A t \in Name : up'[t] # <<>> /\ ~Head(up'[t]).ok => Fresh(cmd[Manager])'
    BY <1>1, <1>5 DEF SpawnInv, Fresh, IsChild
  <2>4. QED
    BY <2>1, <2>2, <2>3 DEF SpawnInv
<1>15. DeathInv'
  <2>1. pc[s] \notin Handling
    BY <1>1 DEF Handling, Exchanging
  <2>2. ASSUME NEW c \in Name, NEW p \in Name, IsChild(c, p)', pc'[c] = "dead"
        PROVE  \/ pc'[p] \in Handling /\ cmd'[p].op = "suicide"
               \/ up'[c] # <<>>
               \/ pc'[Manager] = "dead"
    <3>1. IsChild(c, p) /\ pc[c] = "dead"
      BY <1>1, <1>3, <2>2 DEF IsChild
    <3>2. \/ pc[p] \in Handling /\ cmd[p].op = "suicide" /\ p # s
          \/ up[c] # <<>>
          \/ pc[Manager] = "dead"
      BY <2>1, <3>1 DEF DeathInv
    <3>3. QED
      BY <1>1, <1>3, <1>5, <3>2
  <2>3. \A c \in Name : Dying(c)' => Dying(c)
    BY <1>1, <1>2, <1>3, <1>4 DEF Dying
  <2>4. ASSUME NEW p \in Name, pc'[p] = "hear", Dying(Current(p))' PROVE Ends(p)'
    <3>1. pc[p] = "hear" /\ nth[p] <= Len(child[p]) /\ p # s
      BY <1>3, <2>4 DEF LinkInv
    <3>2. PICK c \in Name : c = Current(p) /\ c = Current(p)'
      BY <1>1, <1>3, <3>1, CurrentChild DEF Current
    <3>3. Dying(c)'
      BY <2>4, <3>2 DEF Dying
    <3>4. Ends(p)
      BY <2>3, <3>1, <3>2, <3>3 DEF DeathInv
    <3>5. QED
      BY <1>3, <3>1, <3>2, <3>4 DEF Ends, Direct
  <2>5. \A t \in Name : /\ pc'[t] # "dead" => secret'[t] \in Secret
                        /\ pc'[t] = "dead" /\ child'[t] # <<>> => pc'[Manager] = "dead"
    BY <1>1, <1>3, <1>5 DEF DeathInv
  <2>6. QED
    BY <2>2, <2>4, <2>5 DEF DeathInv
<1>16. \A t \in Name, x \in {0, 1} : Has(t, x)' <=> Has(t, x)
  BY <1>1, <1>3 DEF Has
<1>17. RouteInv'
  BY <1>1, <1>5, <1>16 DEF RouteInv, IsChild
<1>18. FindInv'
  <2>1. ASSUME cmd[Manager].op = "find"
        PROVE  FindInv'
    <3>1. PICK x \in {0, 1} : x = cmd[Manager].n
      BY <2>1 DEF PhaseInv
    <3>2. \A y \in {0, 1} : Partner(y)' = Partner(y)
      BY <1>5 DEF Partner
    <3>3. \A t \in Name : ~Has(t, x)
      <4>1. ~Good(s) /\ Busy(s)
        BY <1>1, <1>7 DEF Good, Busy
      <4>2. QED
        BY <2>1, <3>1, <4>1 DEF FindInv
    <3>4. \A t \in Name : pc'[t] = "hear" => route'[t][x] = None
      <4>1. \A t \in Name : pc[t] = "hear" => route[t][x] = None
        BY <2>1, <3>1 DEF FindInv
      <4>2. \A t \in Name : pc'[t] = "hear" => pc[t] = "hear"
        BY <1>3
      <4>3. QED
        BY <1>1, <4>1, <4>2
    <3>5. \A t \in Name : t = Partner(x)' => pc'[t] # "hear" /\ (pc'[t] = "ask" => ans'[t].ok)
      <4>1. m = cmd[Manager]
        BY <1>7, <2>1 DEF SameCommand, Uniform
      <4>2. ans'[s].ok = (Partner(x) = s)
        <5>1. ans'[s] = Answer(Wanted(m) = s, 0)
          BY <1>3, <2>1, <4>1 DEF FirstAns
        <5>2. Wanted(m) = Partner(x)
          BY <3>1, <4>1 DEF Wanted, Partner
        <5>3. QED
          BY <5>1, <5>2 DEF Answer
      <4>3. \A t \in Name \ {s} : t = Partner(x) => pc[t] # "hear" /\ (pc[t] = "ask" => ans[t].ok)
        BY <2>1, <3>1 DEF FindInv
      <4>4. QED
        BY <1>3, <3>2, <4>2, <4>3
    <3>6. \A t \in Name, y \in {0, 1} : Has(t, y)' =>
             /\ t # Partner(y)'
             /\ \/ t = Manager
                \/ \E p \in Name : route'[p][y] = t /\ pc'[p] # "reset"
      <4>1. ASSUME NEW t \in Name, NEW y \in {0, 1}, Has(t, y)
            PROVE  /\ t # Partner(y)
                   /\ \/ t = Manager
                      \/ \E p \in Name : route[p][y] = t /\ pc[p] # "reset"
        BY <2>1, <3>1, <3>3, <4>1 DEF FindInv
      <4>2. \A p \in Name : pc[p] # "reset" => pc'[p] # "reset"
        BY <1>3
      <4>3. QED
        BY <1>1, <1>16, <3>2, <4>1, <4>2
    <3>7. x = 0 => \A t \in Name : ~Has(t, 1)'
      BY <1>16, <2>1, <3>1 DEF FindInv
    <3>8. QED
      BY <1>5, <1>16, <3>1, <3>3, <3>4, <3>5, <3>6, <3>7 DEF FindInv
  <2>2. QED
    BY <1>5, <2>1 DEF FindInv
<1>19. StartInv'
  <2>1. \A p \in Name : TargetsFor(p)' = TargetsFor(p)
    BY <1>1, <1>5 DEF TargetsFor, Along
  <2>2. ASSUME cmd[Manager].op = "start" PROVE \A p, u \in Name : Untold(p, u) => Untold(p, u)'
    <3>1. ASSUME NEW u \in Name, Untold(s, u) PROVE Untold(s, u)'
      <4>1. PICK k \in DOMAIN TargetsFor(s) : TargetsFor(s)[k] = u
        BY <3>1 DEF Untold
      <4>2. k >= 1
        BY <4>1, TargetsForSeq
      <4>3. QED
        BY <1>3, <2>1, <4>1, <4>2 DEF Untold
    <3>2. \A p \in Name \ {s}, u \in Name : Untold(p, u) => Untold(p, u)'
      BY <1>3, <2>1 DEF Untold
    <3>3. QED
      BY <3>1, <3>2
  <2>3. \A t \in Name : pc'[t] = "dead" => pc[t] = "dead"
    BY <1>3
  <2>4. QED
    BY <1>1, <1>5, <1>8, <1>16, <2>2, <2>3 DEF StartInv
<1>20. QED
  BY <1>6, <1>9, <1>10, <1>11, <1>12, <1>13, <1>14, <1>15, <1>17, <1>18, <1>19

\* While the Manager waits for nobody, the other services are at rest.
LEMMA Calm ==
    ASSUME SInv, \A c \in Name : ~Engaged(Manager, c)
    PROVE  /\ \A c \in Name \ {Manager} : /\ pc[c] \in {"idle", "dead", "reset"} /\ pc[c] \notin Handling
                                          /\ down[c] = <<>> /\ up[c] = <<>> /\ ~Good(c)
           /\ \A c \in Name : down[c] = <<>> /\ up[c] = <<>>
<1>1. \A c \in Name \ {Manager} : ~Active(c)
  BY Alone
<1>2. \A c \in Name \ {Manager} : pc[c] \in {"idle", "dead", "reset"} /\ down[c] = <<>> /\ up[c] = <<>>
  BY <1>1 DEF Active, Working
<1>3. down[Manager] = <<>> /\ up[Manager] = <<>>
  BY DEF SInv, LinkInv
<1>4. QED
  BY <1>2, <1>3 DEF Good, Handling, Exchanging

\* Unless the Manager ends, no service that has ended is in a table then.
LEMMA NoDeadChild ==
    ASSUME SInv, \A c \in Name : ~Engaged(Manager, c), pc[Manager] # "dead",
           pc[Manager] \in Handling => cmd[Manager].op # "suicide"
    PROVE  \A c, p \in Name : IsChild(c, p) => pc[c] # "dead"
<1>1. ASSUME NEW c \in Name, NEW p \in Name, IsChild(c, p), pc[c] = "dead" PROVE FALSE
  <2>1. up[c] = <<>> /\ ~(pc[p] \in Handling /\ cmd[p].op = "suicide")
    BY Calm
  <2>2. QED
    BY <1>1, <2>1 DEF SInv, DeathInv
<1>2. QED
  BY <1>1

\* A step of the Manager while it waits for nobody, at its input or before or
\* after the loop of a phase of its command.
LEMMA ManagerStep ==
    ASSUME SInv, \A c \in Name : ~Engaged(Manager, c), pc[Manager] # "dead",
           \A t \in Name \ {Manager} : /\ pc'[t] = pc[t] /\ cmd'[t] = cmd[t] /\ nth'[t] = nth[t]
                                       /\ child'[t] = child[t] /\ secret'[t] = secret[t],
           UNCHANGED <<down, up>>, TypeOK',
           pc'[Manager] \in {"idle", "dead", "fork", "ask", "tell"},
           child'[Manager] \in {child[Manager], <<>>},
           pc'[Manager] \in {"idle", "dead"} => cmd'[Manager] = Nothing,
           pc'[Manager] = "tell" <=> cmd'[Manager].op = "start",
           pc'[Manager] = "fork" => cmd'[Manager].op = "spawn",
           cmd'[Manager].op = "find" => cmd'[Manager].n \in {0, 1},
           Fresh(cmd[Manager])',
           pc'[Manager] # "dead" => /\ secret'[Manager] \in Secret
                                    /\ \A c, p \in Name : IsChild(c, p)' => pc'[c] # "dead",
           RouteInv', FindInv', StartInv'
    PROVE  SInv'
<1> USE DEF SInv
<1>1. /\ \A t \in Name \ {Manager} : /\ pc'[t] \in {"idle", "dead", "reset"} /\ pc'[t] \notin Handling
                                     /\ pc'[t] \notin Exchanging
      /\ \A t \in Name : down'[t] = <<>> /\ up'[t] = <<>>
      /\ Manager \in Name
  <2>1. /\ \A c \in Name \ {Manager} : pc[c] \in {"idle", "dead", "reset"}
        /\ \A c \in Name : down[c] = <<>> /\ up[c] = <<>>
    BY Calm
  <2>2. QED
    BY <2>1, NameAssumption DEF Handling, Exchanging
<1>2. \A c, p \in Name : IsChild(c, p)' => IsChild(c, p)
  <2>1. \A c : c \notin ToSet(<<>>)
    BY DEF ToSet
  <2>2. \A p \in Name : child'[p] = child[p] \/ child'[p] = <<>>
    OBVIOUS
  <2>3. QED
    BY <2>1, <2>2 DEF IsChild
<1>3. TreeInv'
  <2>1. \A p \in Name : ~IsChild(Manager, p)' /\ IsInjective(child'[p])
    <3>1. \A p \in Name : child'[p] = <<>> \/ child'[p] = child[p]
      OBVIOUS
    <3>2. IsInjective(<<>>)
      BY DEF IsInjective
    <3>3. QED
      BY <1>1, <1>2, <3>1, <3>2 DEF TreeInv
  <2>2. \A c, p, q \in Name : IsChild(c, p)' /\ IsChild(c, q)' => p = q
    BY <1>2 DEF TreeInv
  <2>3. ASSUME NEW T \in SUBSET Name, \A c \in T : \E p \in T : IsChild(c, p)' PROVE T = {}
    BY <1>2, <2>3 DEF TreeInv
  <2>4. QED
    BY <2>1, <2>2, <2>3 DEF TreeInv
<1>4. LinkInv'
  <2>1. \A c \in Name \ {Manager} : ~Active(c)'
    BY <1>1 DEF Active, Working
  <2>2. \A p \in Name : pc'[p] \notin {"hear", "open1", "open2", "give", "take"}
    BY <1>1
  <2>3. QED
    BY <1>1, <2>1, <2>2 DEF LinkInv
<1>5. TokenInv'
  BY <1>1 DEF TokenInv
<1>6. OneBusy'
  <2>1. \A t \in Name \ {Manager} : ~Busy(t)'
    BY <1>1 DEF Busy
  <2>2. QED
    BY <2>1 DEF OneBusy
<1>7. PhaseInv'
  <2>1. \A t \in Name : pc'[t] \in Handling => SameCommand(cmd[t])'
    BY <1>1 DEF SameCommand
  <2>2. pc'[Manager] \in Exchanging <=> pc'[Manager] \in Handling /\ cmd'[Manager].op = "start"
    BY DEF Exchanging, Handling
  <2>3. \A t \in Name : pc'[t] \in Exchanging <=> pc'[t] \in Handling /\ cmd'[t].op = "start"
    BY <1>1, <2>2
  <2>4. \A t \in Name : /\ down'[t] = <<>> /\ pc'[t] # "born"
                        /\ pc'[t] = "fork" => cmd'[t].op = "spawn"
    BY <1>1
  <2>5. QED
    BY <2>1, <2>3, <2>4 DEF PhaseInv
<1>8. SpawnInv'
  <2>1. \A t \in Name : pc'[t] = "fork" \/ pc'[t] = "ask" => t = Manager
    BY <1>1
  <2>2. QED
    BY <1>1, <2>1 DEF SpawnInv
<1>9. DeathInv'
  <2>1. \A p \in Name : pc'[p] # "hear"
    BY <1>1
  <2>2. \A p \in Name : pc'[p] = "dead" /\ child'[p] # <<>> => pc'[Manager] = "dead"
    BY DEF DeathInv
  <2>3. \A t \in Name : pc'[t] # "dead" => secret'[t] \in Secret
    BY DEF DeathInv
  <2>4. \A c, p \in Name : IsChild(c, p)' /\ pc'[c] = "dead" => pc'[Manager] = "dead"
    OBVIOUS
  <2>5. QED
    BY <2>1, <2>2, <2>3, <2>4 DEF DeathInv
<1>10. QED
  BY <1>3, <1>4, <1>5, <1>6, <1>7, <1>8, <1>9

\* The Manager reads a command.
LEMMA CommandStep ==
    ASSUME SInv, Command
    PROVE  SInv'
<1> USE DEF SInv
<1>1. PICK m \in Input : Begin(Manager, m) /\ ends' = NoEnds /\ data' = NoData
  BY DEF Command
<1>2. /\ pc[Manager] = "idle" /\ heard' = <<Manager>> /\ Manager \in Name
      /\ UNCHANGED <<child, secret, route, down, up>>
  BY NameAssumption DEF Command, globals, pipes
<1>3. /\ m \in Command_ /\ m.op \in {"spawn", "kill", "suicide", "traverse"}
      /\ m.op = "spawn" => m.b \in Name \ Alive
  <2>1. CASE m \in {Cmd("spawn", a, b, 0) : a \in Name, b \in Name \ Alive}
    BY <2>1 DEF Cmd, Command_
  <2>2. CASE m \in {Cmd(IF a = Manager THEN "suicide" ELSE "kill", a, a, 0) : a \in Name}
    BY <2>2 DEF Cmd, Command_
  <2>3. CASE m \in {Cmd("traverse", p[1], p[2], 0) : p \in {q \in Alive \X Alive : q[1] # q[2]}}
    <3>1. PICK p \in Alive \X Alive : m = Cmd("traverse", p[1], p[2], 0)
      BY <2>3
    <3>2. p[1] \in Name /\ p[2] \in Name
      BY DEF Alive
    <3>3. QED
      BY <3>1, <3>2 DEF Cmd, Command_
  <2>4. QED
    BY <2>1, <2>2, <2>3 DEF Input
<1>4. /\ pc'[Manager] \in {"fork", "tell", "ask"} /\ (pc'[Manager] = "tell" <=> m.op = "start")
      /\ (pc'[Manager] = "fork" => m.op = "spawn")
      /\ cmd'[Manager] = m
      /\ \A t \in Name \ {Manager} : pc'[t] = pc[t] /\ cmd'[t] = cmd[t] /\ nth'[t] = nth[t] /\ ans'[t] = ans[t]
      /\ pc' \in [Name -> {"dead", "born", "idle", "fork", "ask", "hear", "tell", "open1", "open2",
                           "give", "take", "collect", "reset"}]
      /\ cmd' \in [Name -> Command_] /\ nth' \in [Name -> Nat \ {0}] /\ ans' \in [Name -> Answer_]
  BY <1>1, <1>2, <1>3, BeginFacts
<1>5. TypeOK'
  <2>1. /\ ends' \in [{1, 2} -> SUBSET {"r", "w"}] /\ data' \in [{1, 2} -> Seq(Secret)]
        /\ heard' \in Seq(Name)
    BY <1>1, <1>2, EmptySeq DEF NoEnds, NoData
  <2>2. QED
    BY <1>2, <1>4, <2>1 DEF TypeOK
<1>6. \A c \in Name : ~Engaged(Manager, c)
  BY <1>2 DEF Engaged
<1>7. \A c, p \in Name : IsChild(c, p) => pc[c] # "dead"
  BY <1>2, <1>6, NoDeadChild DEF Handling, Exchanging
<1>8. Fresh(cmd[Manager])'
  <2>1. m.op = "spawn" => m.b \in Name /\ pc[m.b] = "dead"
    BY <1>3 DEF Alive
  <2>2. QED
    BY <1>2, <1>4, <1>7, <2>1 DEF Fresh, IsChild
<1>9. cmd'[Manager].op \notin {"find", "start"} /\ cmd[Manager].op \notin {"find", "start"}
  BY <1>2, <1>3, <1>4 DEF PhaseInv, Nothing, Cmd
<1>10. \A t \in Name, x \in {0, 1} : Has(t, x)' => Has(t, x)
  BY <1>2, <1>4 DEF Has
<1>11. RouteInv' /\ FindInv' /\ StartInv'
  BY <1>2, <1>9, <1>10 DEF RouteInv, FindInv, StartInv, IsChild
<1>12. \A c, p \in Name : IsChild(c, p)' => pc'[c] # "dead"
  BY <1>2, <1>4, <1>7 DEF IsChild
<1>13. secret'[Manager] \in Secret
  BY <1>2 DEF DeathInv
<1>14. pc'[Manager] = "tell" <=> cmd'[Manager].op = "start"
  BY <1>4
<1>15. \A t \in Name \ {Manager} : /\ pc'[t] = pc[t] /\ cmd'[t] = cmd[t] /\ nth'[t] = nth[t]
                                   /\ child'[t] = child[t] /\ secret'[t] = secret[t]
  BY <1>2, <1>4
<1>16. /\ pc'[Manager] \in {"idle", "dead", "fork", "ask", "tell"} /\ pc'[Manager] \notin {"idle", "dead"}
       /\ child'[Manager] \in {child[Manager], <<>>} /\ pc[Manager] # "dead"
       /\ (pc'[Manager] = "fork" => cmd'[Manager].op = "spawn")
  BY <1>2, <1>4
<1>17. QED
  BY <1>2, <1>5, <1>6, <1>8, <1>9, <1>11, <1>12, <1>13, <1>14, <1>15, <1>16, ManagerStep

\* The Manager is done with a command, or with all of them.
LEMMA FinishFacts ==
    ASSUME TypeOK, NEW s \in Name, NEW place \in {"idle", "dead"}, Finish(s, place)
    PROVE  /\ pc'[s] = place /\ cmd'[s] = Nothing
           /\ \A t \in Name \ {s} : pc'[t] = pc[t] /\ cmd'[t] = cmd[t] /\ nth'[t] = nth[t] /\ ans'[t] = ans[t]
           /\ pc' \in [Name -> {"dead", "born", "idle", "fork", "ask", "hear", "tell", "open1", "open2",
                                "give", "take", "collect", "reset"}]
           /\ cmd' \in [Name -> Command_] /\ nth' \in [Name -> Nat \ {0}] /\ ans' \in [Name -> Answer_]
           /\ Nothing.op = "none"
<1>1. /\ pc' = [pc EXCEPT ![s] = place] /\ cmd' = [cmd EXCEPT ![s] = Nothing]
      /\ nth' = [nth EXCEPT ![s] = 1] /\ ans' = [ans EXCEPT ![s] = Answer(FALSE, 0)]
  BY DEF Finish, Goto
<1>2. Nothing \in Command_ /\ Nothing.op = "none" /\ Answer(FALSE, 0) \in Answer_
  BY NameAssumption DEF Nothing, Cmd, Command_, Answer, Answer_
<1>3. cmd' \in [Name -> Command_] /\ cmd'[s] = Nothing /\ \A t \in Name \ {s} : cmd'[t] = cmd[t]
  BY <1>1, <1>2 DEF TypeOK
<1>4. ans' \in [Name -> Answer_] /\ \A t \in Name \ {s} : ans'[t] = ans[t]
  BY <1>1, <1>2 DEF TypeOK
<1>5. nth' \in [Name -> Nat \ {0}] /\ \A t \in Name \ {s} : nth'[t] = nth[t]
  BY <1>1 DEF TypeOK
<1>6. /\ pc' \in [Name -> {"dead", "born", "idle", "fork", "ask", "hear", "tell", "open1", "open2",
                           "give", "take", "collect", "reset"}]
      /\ pc'[s] = place /\ \A t \in Name \ {s} : pc'[t] = pc[t]
  BY <1>1 DEF TypeOK
<1>7. QED
  BY <1>2, <1>3, <1>4, <1>5, <1>6

\* A command without an exchange ends, and the Manager with it if it is its own kill.
LEMMA PrintStep ==
    ASSUME SInv, PrintSpawn \/ PrintKill
    PROVE  SInv'
<1> USE DEF SInv
<1>1. /\ pc[Manager] = "ask" /\ cmd[Manager].op \in {"spawn", "kill", "suicide"} /\ heard' = <<>>
      /\ UNCHANGED <<route, down, up, ends, data>> /\ Manager \in Name
  BY NameAssumption DEF PrintSpawn, PrintKill, Outcome, globals, pipes, fifos
<1>2. PICK place \in {"idle", "dead"} :
         /\ Finish(Manager, place)
         /\ place = "idle" => cmd[Manager].op # "suicide" /\ UNCHANGED <<child, secret>>
         /\ place = "dead" => /\ child' = [child EXCEPT ![Manager] = <<>>]
                              /\ secret' = [secret EXCEPT ![Manager] = None]
  <2>1. CASE PrintSpawn
    BY <2>1 DEF PrintSpawn, globals
  <2>2. CASE PrintKill
    BY <2>2 DEF PrintKill, globals, Forget
  <2>3. QED
    BY <2>1, <2>2
<1>3. /\ pc'[Manager] = place /\ cmd'[Manager] = Nothing
      /\ \A t \in Name \ {Manager} : pc'[t] = pc[t] /\ cmd'[t] = cmd[t] /\ nth'[t] = nth[t] /\ ans'[t] = ans[t]
      /\ pc' \in [Name -> {"dead", "born", "idle", "fork", "ask", "hear", "tell", "open1", "open2",
                           "give", "take", "collect", "reset"}]
      /\ cmd' \in [Name -> Command_] /\ nth' \in [Name -> Nat \ {0}] /\ ans' \in [Name -> Answer_]
      /\ Nothing.op = "none"
  BY <1>1, <1>2, FinishFacts
<1>4. PICK q \in Seq(Name) : q = <<>>
  BY EmptySeq
<1>5. /\ child' \in [Name -> Seq(Name)] /\ child'[Manager] \in {child[Manager], <<>>}
      /\ \A t \in Name \ {Manager} : child'[t] = child[t]
  <2>1. CASE place = "idle"
    BY <1>2, <2>1 DEF TypeOK
  <2>2. CASE place = "dead"
    <3>1. child' = [child EXCEPT ![Manager] = q]
      BY <1>2, <1>4, <2>2
    <3>2. child' \in [Name -> Seq(Name)] /\ child'[Manager] = q /\ \A t \in Name \ {Manager} : child'[t] = child[t]
      BY <1>1, <3>1 DEF TypeOK
    <3>3. QED
      BY <1>4, <3>2
  <2>3. QED
    BY <2>1, <2>2
<1>6. /\ secret' \in [Name -> Secret \cup {None}]
      /\ \A t \in Name \ {Manager} : secret'[t] = secret[t]
      /\ place = "idle" => secret'[Manager] \in Secret
  <2>1. secret[Manager] \in Secret
    BY <1>1 DEF DeathInv
  <2>2. QED
    BY <1>1, <1>2, <2>1 DEF TypeOK
<1>7. TypeOK'
  <2>1. heard' \in Seq(Name)
    BY <1>1, EmptySeq
  <2>2. QED
    BY <1>1, <1>3, <1>5, <1>6, <2>1 DEF TypeOK
<1>8. \A c \in Name : ~Engaged(Manager, c)
  BY <1>1 DEF Engaged
<1>9. place = "idle" => \A c, p \in Name : IsChild(c, p)' => pc'[c] # "dead"
  <2>1. ASSUME place = "idle" PROVE \A c, p \in Name : IsChild(c, p) => pc[c] # "dead"
    BY <1>1, <1>2, <1>8, <2>1, NoDeadChild
  <2>2. ASSUME place = "idle", NEW c \in Name, NEW p \in Name, IsChild(c, p)' PROVE pc'[c] # "dead"
    BY <1>2, <1>3, <2>1, <2>2 DEF IsChild
  <2>3. QED
    BY <2>2
<1>10. \A t \in Name, x \in {0, 1} : ~Has(t, x)
  BY <1>1 DEF RouteInv
<1>11. \A t \in Name, x \in {0, 1} : ~Has(t, x)'
  BY <1>1, <1>3, <1>10 DEF Has
<1>12. RouteInv'
  <2>1. ASSUME NEW t \in Name, NEW x \in {0, 1}, route'[t][x] # None PROVE IsChild(route[t][x], t)'
    <3>1. route[t][x] # None /\ t # Manager
      BY <1>1, <1>10, <2>1 DEF Has
    <3>2. IsChild(route[t][x], t)
      BY <3>1 DEF RouteInv
    <3>3. QED
      BY <1>1, <1>5, <3>1, <3>2 DEF IsChild
  <2>2. QED
    BY <1>11, <2>1 DEF RouteInv
<1>13. FindInv' /\ StartInv' /\ Fresh(cmd[Manager])'
  BY <1>3 DEF FindInv, StartInv, Fresh
<1>14. \A t \in Name \ {Manager} : /\ pc'[t] = pc[t] /\ cmd'[t] = cmd[t] /\ nth'[t] = nth[t]
                                   /\ child'[t] = child[t] /\ secret'[t] = secret[t]
  BY <1>3, <1>5, <1>6
<1>15. /\ pc'[Manager] \in {"idle", "dead", "fork", "ask", "tell"} /\ cmd'[Manager] = Nothing
       /\ pc'[Manager] \notin {"fork", "tell"} /\ cmd'[Manager].op \notin {"find", "start"}
       /\ child'[Manager] \in {child[Manager], <<>>} /\ pc[Manager] # "dead" /\ UNCHANGED <<down, up>>
       /\ pc'[Manager] # "dead" => /\ secret'[Manager] \in Secret
                                   /\ \A c, p \in Name : IsChild(c, p)' => pc'[c] # "dead"
  BY <1>1, <1>3, <1>5, <1>6, <1>9
<1>16. QED
  BY <1>7, <1>8, <1>12, <1>13, <1>14, <1>15, ManagerStep

\* The Manager's input ends.
LEMMA EofStep ==
    ASSUME SInv, Eof
    PROVE  SInv'
<1> USE DEF SInv
<1>1. /\ pc[Manager] = "idle" /\ pc' = [pc EXCEPT ![Manager] = "dead"] /\ Manager \in Name
      /\ UNCHANGED <<child, secret, route, cmd, nth, ans, down, up, ends, data, heard>>
  BY NameAssumption DEF Eof, Goto, globals, pipes, fifos
<1>2. pc'[Manager] = "dead" /\ \A t \in Name \ {Manager} : pc'[t] = pc[t]
  BY <1>1 DEF TypeOK
<1>3. TypeOK'
  BY <1>1 DEF TypeOK
<1>4. cmd'[Manager] = Nothing /\ cmd[Manager] = Nothing /\ Nothing.op = "none"
  BY <1>1 DEF PhaseInv, Nothing, Cmd
<1>5. \A c \in Name : ~Engaged(Manager, c)
  BY <1>1 DEF Engaged
<1>6. \A t \in Name, x \in {0, 1} : Has(t, x)' => Has(t, x)
  BY <1>1, <1>2 DEF Has
<1>7. RouteInv' /\ FindInv' /\ StartInv' /\ Fresh(cmd[Manager])'
  BY <1>1, <1>4, <1>6 DEF RouteInv, FindInv, StartInv, Fresh, IsChild
<1>8. QED
  BY <1>1, <1>2, <1>3, <1>4, <1>5, <1>7, ManagerStep

\* A service finds that its parent has gone, and ends.
LEMMA OrphanStep ==
    ASSUME SInv, NEW s \in Name, Orphan(s)
    PROVE  SInv'
<1> USE DEF SInv
<1>1. /\ s # Manager /\ pc[s] = "idle" /\ pc' = [pc EXCEPT ![s] = "dead"] /\ Manager \in Name
      /\ UNCHANGED <<child, secret, route, cmd, nth, ans, down, up, ends, data, heard>>
  BY NameAssumption DEF Orphan, Goto, globals, pipes, fifos, output
<1>2. pc[Manager] = "dead" /\ cmd[Manager] = Nothing /\ Nothing.op = "none"
  <2>1. PICK p \in Name : pc[p] = "dead" /\ IsChild(s, p)
    BY DEF Orphan, Alive, IsChild
  <2>2. child[p] # <<>>
    BY <2>1 DEF IsChild, ToSet
  <2>3. QED
    BY <2>1, <2>2 DEF DeathInv, PhaseInv, Nothing, Cmd
<1>3. /\ pc'[s] = "dead" /\ \A t \in Name \ {s} : pc'[t] = pc[t]
      /\ pc'[Manager] = "dead"
  BY <1>1, <1>2 DEF TypeOK
<1>4. TypeOK'
  BY <1>1 DEF TypeOK
<1>5. /\ \A c \in Name : down[c] = <<>> /\ up[c] = <<>>
      /\ \A c \in Name : pc[c] \in {"idle", "dead", "reset"}
  <2>1. \A c \in Name : ~Engaged(Manager, c)
    BY <1>2 DEF Engaged
  <2>2. QED
    BY <1>2, <2>1, Calm
<1>6. \A c \in Name : pc'[c] \in {"idle", "dead", "reset"} /\ pc'[c] \notin Handling /\ pc'[c] \notin Exchanging
  BY <1>3, <1>5 DEF Handling, Exchanging
<1>7. \A c \in Name : ~Active(c)' /\ ~Busy(c)'
  BY <1>1, <1>5, <1>6 DEF Active, Working, Busy
<1>8. TreeInv'
  BY <1>1 DEF TreeInv, IsChild
<1>9. LinkInv'
  BY <1>1, <1>3, <1>5, <1>6, <1>7 DEF LinkInv
<1>10. TokenInv' /\ OneBusy'
  BY <1>1, <1>5, <1>7 DEF TokenInv, OneBusy
<1>11. PhaseInv'
  <2>1. \A t \in Name : pc'[t] \notin {"fork", "born"} /\ down'[t] = <<>>
    BY <1>1, <1>5, <1>6
  <2>2. cmd'[Manager] = Nothing /\ cmd'[Manager].op # "find"
    BY <1>1, <1>2
  <2>3. QED
    BY <1>6, <2>1, <2>2 DEF PhaseInv
<1>12. SpawnInv'
  BY <1>1, <1>5, <1>6 DEF SpawnInv
<1>13. DeathInv'
  <2>1. \A p \in Name : pc'[p] # "hear"
    BY <1>6
  <2>2. \A t \in Name : pc'[t] # "dead" => secret'[t] \in Secret
    BY <1>1, <1>3 DEF DeathInv
  <2>3. QED
    BY <1>3, <2>1, <2>2 DEF DeathInv
<1>14. \A t \in Name, x \in {0, 1} : Has(t, x)' => Has(t, x)
  BY <1>1, <1>3 DEF Has
<1>15. RouteInv' /\ FindInv' /\ StartInv'
  BY <1>1, <1>2, <1>14 DEF RouteInv, FindInv, StartInv, IsChild
<1>16. QED
  BY <1>4, <1>8, <1>9, <1>10, <1>11, <1>12, <1>13, <1>15

\* A route that does not lead from its own partner is among those that are told.
LEMMA RouteIsTarget ==
    ASSUME TypeOK, NEW p \in Name, NEW y \in {0, 1}, NEW u \in Name, route[p][y] = u, p # Partner(y)
    PROVE  \E k \in DOMAIN TargetsFor(p) : TargetsFor(p)[k] = u
<1>1. PICK z \in {0, 1} : z # y
  <2>1. 0 # 1
    OBVIOUS
  <2>2. QED
    BY <2>1
<1>2. u # None /\ route[p] \in [{0, 1} -> Name \cup {None}]
  BY NameAssumption DEF TypeOK
<1>3. Along(p, y) = <<u>> /\ Along(p, z) \in Seq(Name) /\ <<u>> \in Seq(Name)
  <2>1. Along(p, y) = <<u>>
    BY <1>2 DEF Along
  <2>2. Along(p, z) = <<>> \/ \E e \in Name : Along(p, z) = <<e>>
    BY <1>2 DEF Along
  <2>3. <<>> \in Seq(Name) /\ \A e \in Name : <<e>> \in Seq(Name)
    OBVIOUS
  <2>4. QED
    BY <2>1, <2>2, <2>3
<1>4. CASE TargetsFor(p) = Along(p, y)
  <2>1. TargetsFor(p) = <<u>>
    BY <1>3, <1>4
  <2>2. 1 \in DOMAIN <<u>> /\ <<u>>[1] = u
    OBVIOUS
  <2>3. QED
    BY <2>1, <2>2
<1>5. CASE TargetsFor(p) = <<u>> \o Along(p, z)
  <2>1. PICK q \in Seq(Name) : q = Along(p, z)
    BY <1>3
  <2>2. /\ Len(<<u>> \o q) = 1 + Len(q) /\ Len(q) \in Nat /\ <<u>> \o q \in Seq(Name)
        /\ (<<u>> \o q)[1] = u
    BY <1>3, ConcatProperties, LenProperties
  <2>3. 1 \in DOMAIN (<<u>> \o q)
    BY <2>2, LenProperties
  <2>4. QED
    BY <1>5, <2>1, <2>2, <2>3
<1>6. CASE TargetsFor(p) = Along(p, z) \o <<u>>
  <2>1. PICK q \in Seq(Name) : q = Along(p, z)
    BY <1>3
  <2>2. PICK n \in Nat : n = Len(q)
    BY LenProperties
  <2>3. Len(q \o <<u>>) = n + 1 /\ q \o <<u>> \in Seq(Name) /\ (q \o <<u>>)[n + 1] = u
    <3>1. q \o <<u>> = Append(q, u)
      BY <1>3, AppendIsConcat
    <3>2. Append(q, u) \in Seq(Name) /\ Len(Append(q, u)) = n + 1 /\ Append(q, u)[n + 1] = u
      BY <2>2, AppendProperties
    <3>3. QED
      BY <3>1, <3>2
  <2>4. n + 1 \in DOMAIN (q \o <<u>>)
    BY <2>3, LenProperties
  <2>5. QED
    BY <1>6, <2>1, <2>3, <2>4
<1>7. /\ Along(p, 0) = (IF y = 0 THEN <<u>> ELSE Along(p, z))
      /\ Along(p, 1) = (IF y = 1 THEN <<u>> ELSE Along(p, z))
  BY <1>1, <1>3
<1>8. \/ TargetsFor(p) = Along(p, y)
      \/ TargetsFor(p) = <<u>> \o Along(p, z)
      \/ TargetsFor(p) = Along(p, z) \o <<u>>
  <2>1. CASE y = 0
    <3>1. p # cmd[Manager].a /\ Along(p, 0) = <<u>> /\ Along(p, 1) = Along(p, z)
      BY <1>7, <2>1 DEF Partner
    <3>2. \/ TargetsFor(p) = Along(p, 0)
          \/ TargetsFor(p) = Along(p, 0) \o Along(p, 1)
      BY <3>1 DEF TargetsFor
    <3>3. QED
      BY <2>1, <3>1, <3>2
  <2>2. CASE y = 1
    <3>1. p # cmd[Manager].b /\ Along(p, 1) = <<u>> /\ Along(p, 0) = Along(p, z)
      BY <1>7, <2>2 DEF Partner
    <3>2. \/ TargetsFor(p) = Along(p, 1)
          \/ route[p][0] = route[p][1] /\ TargetsFor(p) = Along(p, 0)
          \/ TargetsFor(p) = Along(p, 0) \o Along(p, 1)
      BY <3>1 DEF TargetsFor
    <3>3. route[p][0] = route[p][1] => Along(p, 0) = Along(p, 1)
      BY DEF Along
    <3>4. QED
      BY <2>2, <3>1, <3>2, <3>3
  <2>3. QED
    BY <2>1, <2>2
<1>9. QED
  BY <1>4, <1>5, <1>6, <1>8

\* The Manager begins the next phase of an exchange.
LEMMA AdvanceStep ==
    ASSUME SInv, Advance
    PROVE  SInv'
<1> USE DEF SInv
<1> DEFINE old == cmd[Manager]
<1>1. /\ pc[Manager] = "ask" /\ old.op \in {"traverse", "find"} /\ Manager \in Name
      /\ UNCHANGED <<child, secret, route, down, up, ends, data, heard>>
  BY NameAssumption DEF Advance, globals, pipes, fifos, output
<1>2. PICK m \in Command_ :
         /\ Begin(Manager, m) /\ m.a = old.a /\ m.b = old.b
         /\ \/ old.op = "traverse" /\ m.op = "find" /\ m.n \in {0, 1}
            \/ old.op = "find" /\ old.n = 0 /\ m.op = "find" /\ m.n = 1
            \/ old.op = "find" /\ m.op = "start"
  <2>1. old \in Command_
    BY <1>1 DEF TypeOK
  <2>2. Begin(Manager, NextPhase(old))
    BY DEF Advance
  <2>3. CASE old.op = "traverse"
    BY <2>1, <2>2, <2>3 DEF NextPhase, Cmd, Command_
  <2>4. CASE old.op = "find"
    BY <2>1, <2>2, <2>4 DEF NextPhase, Cmd, Command_
  <2>5. QED
    BY <1>1, <2>3, <2>4
<1>3. /\ pc'[Manager] \in {"fork", "tell", "ask"} /\ (pc'[Manager] = "tell" <=> m.op = "start")
      /\ (pc'[Manager] = "fork" => m.op = "spawn")
      /\ cmd'[Manager] = m /\ nth'[Manager] = 1 /\ ans'[Manager] = FirstAns(Manager, m)
      /\ \A t \in Name \ {Manager} : pc'[t] = pc[t] /\ cmd'[t] = cmd[t] /\ nth'[t] = nth[t] /\ ans'[t] = ans[t]
      /\ pc' \in [Name -> {"dead", "born", "idle", "fork", "ask", "hear", "tell", "open1", "open2",
                           "give", "take", "collect", "reset"}]
      /\ cmd' \in [Name -> Command_] /\ nth' \in [Name -> Nat \ {0}] /\ ans' \in [Name -> Answer_]
  BY <1>1, <1>2, BeginFacts
<1>4. TypeOK'
  BY <1>1, <1>3 DEF TypeOK
<1>5. \A c \in Name : ~Engaged(Manager, c)
  BY <1>1 DEF Engaged
<1>6. /\ \A c \in Name \ {Manager} : pc[c] \in {"idle", "dead", "reset"} /\ ~Good(c)
      /\ \A c \in Name : down[c] = <<>> /\ up[c] = <<>>
  BY <1>5, Calm
<1>7. \A c, p \in Name : IsChild(c, p)' => pc'[c] # "dead"
  <2>1. \A c, p \in Name : IsChild(c, p) => pc[c] # "dead"
    BY <1>1, <1>5, NoDeadChild
  <2>2. QED
    BY <1>1, <1>3, <2>1 DEF IsChild
<1>8. \A t \in Name, x \in {0, 1} : Has(t, x)' <=> Has(t, x)
  BY <1>1, <1>3 DEF Has
<1>9. \A y \in {0, 1} : Partner(y)' = Partner(y)
  BY <1>2, <1>3 DEF Partner
<1>10. RouteInv'
  BY <1>1, <1>2, <1>3 DEF RouteInv, IsChild
<1>11. old.op = "find" => \A t \in Name, y \in {0, 1} : Has(t, y) =>
           /\ t # Partner(y)
           /\ t = Manager \/ \E p \in Name : route[p][y] = t /\ pc[p] # "reset"
  <2>1. ASSUME old.op = "find", NEW t \in Name, NEW y \in {0, 1}, Has(t, y)
        PROVE  /\ t # Partner(y)
               /\ t = Manager \/ \E p \in Name : route[p][y] = t /\ pc[p] # "reset"
    BY <1>6, <2>1 DEF FindInv
  <2>2. QED
    BY <2>1
<1>12. FindInv'
  <2>1. ASSUME m.op = "find"
        PROVE  FindInv'
    <3>1. PICK x \in {0, 1} : x = m.n
      BY <1>2, <2>1
    <3>2. \A t \in Name : ~Has(t, x)'
      <4>1. CASE old.op = "traverse"
        BY <1>8, <4>1 DEF RouteInv
      <4>2. CASE old.op = "find"
        <5>1. x = 1 /\ old.n = 0
          BY <1>2, <2>1, <3>1, <4>2
        <5>2. QED
          BY <1>8, <4>2, <5>1 DEF FindInv
      <4>3. QED
        BY <1>1, <4>1, <4>2
    <3>3. x = 0 => \A t \in Name : ~Has(t, 1)'
      <4>1. x = 0 => old.op = "traverse"
        BY <1>2, <2>1, <3>1
      <4>2. QED
        BY <1>8, <4>1 DEF RouteInv
    <3>4. \A t \in Name : pc'[t] # "hear"
      BY <1>3, <1>6
    <3>5. \A t \in Name : t = Partner(x)' => (pc'[t] = "ask" => ans'[t].ok)
      <4>1. ans'[Manager] = Answer(Wanted(m) = Manager, 0)
        BY <1>3, <2>1 DEF FirstAns
      <4>2. Wanted(m) = Partner(x)'
        BY <1>3, <3>1 DEF Wanted, Partner
      <4>3. \A t \in Name : pc'[t] = "ask" => t = Manager
        BY <1>3, <1>6
      <4>4. ans'[Manager].ok = (Wanted(m) = Manager)
        BY <4>1 DEF Answer
      <4>5. QED
        BY <4>2, <4>3, <4>4
    <3>6. \A t \in Name, y \in {0, 1} : Has(t, y)' =>
             /\ t # Partner(y)'
             /\ t = Manager \/ \E p \in Name : route'[p][y] = t /\ pc'[p] # "reset"
      <4>1. ASSUME NEW t \in Name, NEW y \in {0, 1}, Has(t, y)'
            PROVE  /\ t # Partner(y)'
                   /\ t = Manager \/ \E p \in Name : route'[p][y] = t /\ pc'[p] # "reset"
        <5>1. Has(t, y) /\ old.op = "find"
          BY <1>1, <1>8, <4>1 DEF RouteInv
        <5>2. \A p \in Name : pc[p] # "reset" => pc'[p] # "reset"
          BY <1>3
        <5>3. QED
          BY <1>1, <1>9, <1>11, <5>1, <5>2
      <4>2. QED
        BY <4>1
    <3>7. QED
      BY <1>3, <3>1, <3>2, <3>3, <3>4, <3>5, <3>6 DEF FindInv
  <2>2. QED
    BY <1>3, <2>1 DEF FindInv
<1>13. StartInv'
  <2>1. ASSUME m.op = "start", NEW t \in Name, NEW y \in {0, 1}, Has(t, y)', t # Manager
        PROVE  \E p \in Name : Untold(p, t)'
    <3>1. Has(t, y) /\ old.op = "find"
      BY <1>2, <1>8, <2>1
    <3>2. PICK p \in Name : route[p][y] = t /\ pc[p] # "reset"
      BY <1>11, <2>1, <3>1
    <3>3. p # Partner(y)
      <4>1. Has(p, y)
        BY <3>2, NameAssumption DEF Has
      <4>2. QED
        BY <1>11, <3>1, <4>1
    <3>4. PICK k \in DOMAIN TargetsFor(p) : TargetsFor(p)[k] = t
      BY <3>2, <3>3, RouteIsTarget
    <3>5. k \in Nat /\ k >= 1
      BY TargetsForSeq
    <3>6. TargetsFor(p)' = TargetsFor(p)
      BY <1>1, <1>2, <1>3 DEF TargetsFor, Along
    <3>7. pc'[p] \notin {"reset", "open1", "open2", "give", "take", "collect"} /\ (pc'[p] = "tell" => k >= nth'[p])
      BY <1>3, <1>6, <3>2, <3>5
    <3>8. Untold(p, t)'
      BY <3>4, <3>6, <3>7 DEF Untold
    <3>9. QED
      BY <3>8
  <2>2. \A t \in Name : up'[t] = <<>>
    BY <1>1, <1>6
  <2>3. QED
    BY <1>3, <2>1, <2>2 DEF StartInv
<1>14. Fresh(cmd[Manager])'
  BY <1>2, <1>3 DEF Fresh
<1>15. secret'[Manager] \in Secret
  BY <1>1 DEF DeathInv
<1>16. \A t \in Name \ {Manager} : /\ pc'[t] = pc[t] /\ cmd'[t] = cmd[t] /\ nth'[t] = nth[t]
                                   /\ child'[t] = child[t] /\ secret'[t] = secret[t]
  BY <1>1, <1>3
<1>17. /\ pc'[Manager] \in {"idle", "dead", "fork", "ask", "tell"} /\ pc'[Manager] \notin {"idle", "dead"}
       /\ (pc'[Manager] = "tell" <=> cmd'[Manager].op = "start")
       /\ (pc'[Manager] = "fork" => cmd'[Manager].op = "spawn")
       /\ child'[Manager] \in {child[Manager], <<>>} /\ pc[Manager] # "dead" /\ UNCHANGED <<down, up>>
       /\ (cmd'[Manager].op = "find" => cmd'[Manager].n \in {0, 1})
  BY <1>1, <1>2, <1>3
<1>18. QED
  BY <1>4, <1>5, <1>7, <1>10, <1>12, <1>13, <1>14, <1>15, <1>16, <1>17, ManagerStep

\* A service that is still to be told is on a route of a service that has one.
LEMMA UntoldHas ==
    ASSUME SInv, NEW p \in Name, NEW u \in Name, Untold(p, u)
    PROVE  IsChild(u, p) /\ \E x \in {0, 1} : Has(p, x)
<1>1. PICK k \in DOMAIN TargetsFor(p) : TargetsFor(p)[k] = u
  BY DEF Untold
<1>2. route[p] \in [{0, 1} -> Name \cup {None}]
  BY DEF SInv, TypeOK
<1>3. \A x \in {0, 1} : \/ Along(p, x) = <<>>
                         \/ /\ route[p][x] \in Name /\ route[p][x] # None
                            /\ Along(p, x) = <<route[p][x]>>
  BY <1>2 DEF Along
<1>4. \A x \in {0, 1} : Along(p, x) \in Seq(Name)
  <2>1. <<>> \in Seq(Name) /\ \A e \in Name : <<e>> \in Seq(Name)
    OBVIOUS
  <2>2. QED
    BY <1>3, <2>1
<1>5. \A x \in {0, 1} : \A i \in DOMAIN Along(p, x) : route[p][x] # None /\ Along(p, x)[i] = route[p][x]
  <2>1. ASSUME NEW x \in {0, 1}, NEW i \in DOMAIN Along(p, x)
        PROVE  route[p][x] # None /\ Along(p, x)[i] = route[p][x]
    <3>1. CASE Along(p, x) = <<>>
      BY <2>1, <3>1
    <3>2. CASE route[p][x] # None /\ Along(p, x) = <<route[p][x]>>
      <4>1. PICK r : r = route[p][x]
        OBVIOUS
      <4>2. Along(p, x) = <<r>>
        BY <3>2, <4>1
      <4>3. i \in DOMAIN <<r>>
        BY <2>1, <4>2
      <4>4. <<r>>[i] = r
        BY <4>3
      <4>5. QED
        BY <3>2, <4>1, <4>2, <4>4
    <3>3. QED
      BY <1>3, <3>1, <3>2
  <2>2. QED
    BY <2>1
<1>6. \E x \in {0, 1} : route[p][x] = u /\ route[p][x] # None
  <2>1. CASE \E x \in {0, 1} : TargetsFor(p) = Along(p, x)
    BY <1>1, <1>5, <2>1
  <2>2. CASE TargetsFor(p) = Along(p, 0) \o Along(p, 1)
    <3>1. PICK q \in Seq(Name), r \in Seq(Name) : q = Along(p, 0) /\ r = Along(p, 1)
      BY <1>4
    <3>2. PICK n \in Nat, o \in Nat : n = Len(q) /\ o = Len(r)
      BY LenProperties
    <3>3. /\ q \o r \in Seq(Name) /\ Len(q \o r) = n + o
          /\ \A i \in 1 .. n + o : (q \o r)[i] = IF i <= n THEN q[i] ELSE r[i - n]
      BY <3>2, ConcatProperties
    <3>4. k \in 1 .. n + o
      BY <1>1, <2>2, <3>1, <3>3, LenProperties
    <3>5. \/ k \in 1 .. n /\ u = q[k]
          \/ k - n \in 1 .. o /\ u = r[k - n]
      <4>1. u = IF k <= n THEN q[k] ELSE r[k - n]
        BY <1>1, <2>2, <3>1, <3>3, <3>4
      <4>2. k \in Nat
        BY <3>4
      <4>3. QED
        BY <3>4, <4>1, <4>2
    <3>6. DOMAIN q = 1 .. n /\ DOMAIN r = 1 .. o
      BY <3>2, LenProperties
    <3>7. QED
      BY <1>5, <3>1, <3>5, <3>6
  <2>3. \/ \E x \in {0, 1} : TargetsFor(p) = Along(p, x)
        \/ TargetsFor(p) = Along(p, 0) \o Along(p, 1)
    BY DEF TargetsFor
  <2>4. QED
    BY <2>1, <2>2, <2>3
<1>7. QED
  BY <1>6 DEF SInv, RouteInv, Has, Untold

\* The Manager has all the answers of an exchange, and no route is left.
LEMMA PrintExchangeStep ==
    ASSUME SInv, PrintExchange
    PROVE  SInv'
<1> USE DEF SInv
<1>1. /\ pc[Manager] = "collect" /\ pc[Manager] \in Exchanging /\ nth[Manager] > Len(Targets(Manager))
      /\ Finish(Manager, "idle") /\ route' = [route EXCEPT ![Manager] = NoRoute]
      /\ ends' = NoEnds /\ data' = NoData /\ heard' = <<>> /\ UNCHANGED <<child, secret, down, up>>
      /\ Manager \in Name
  BY NameAssumption DEF PrintExchange, Outcome, pipes, Exchanging
<1>2. /\ pc'[Manager] = "idle" /\ cmd'[Manager] = Nothing
      /\ \A t \in Name \ {Manager} : pc'[t] = pc[t] /\ cmd'[t] = cmd[t] /\ nth'[t] = nth[t] /\ ans'[t] = ans[t]
      /\ pc' \in [Name -> {"dead", "born", "idle", "fork", "ask", "hear", "tell", "open1", "open2",
                           "give", "take", "collect", "reset"}]
      /\ cmd' \in [Name -> Command_] /\ nth' \in [Name -> Nat \ {0}] /\ ans' \in [Name -> Answer_]
      /\ Nothing.op = "none"
  BY <1>1, FinishFacts
<1>3. /\ route' \in [Name -> [{0, 1} -> Name \cup {None}]] /\ \A x \in {0, 1} : route'[Manager][x] = None
      /\ \A t \in Name \ {Manager} : route'[t] = route[t]
  <2>1. NoRoute \in [{0, 1} -> Name \cup {None}] /\ \A x \in {0, 1} : NoRoute[x] = None
    BY DEF NoRoute
  <2>2. route'[Manager] = NoRoute /\ \A t \in Name \ {Manager} : route'[t] = route[t]
    BY <1>1 DEF TypeOK
  <2>3. QED
    BY <1>1, <2>1, <2>2 DEF TypeOK
<1>4. TypeOK'
  <2>1. /\ ends' \in [{1, 2} -> SUBSET {"r", "w"}] /\ data' \in [{1, 2} -> Seq(Secret)]
        /\ heard' \in Seq(Name)
    BY <1>1, EmptySeq DEF NoEnds, NoData
  <2>2. QED
    BY <1>1, <1>2, <1>3, <2>1 DEF TypeOK
<1>5. \A c \in Name : ~Engaged(Manager, c)
  <2>1. DOMAIN Targets(Manager) = 1..Len(Targets(Manager)) /\ Len(Targets(Manager)) \in Nat /\ nth[Manager] \in Nat
    BY <1>1, TargetsFacts DEF TypeOK
  <2>2. QED
    BY <1>1, <2>1 DEF Engaged
<1>6. cmd[Manager].op = "start"
  BY <1>1, StartPhase
<1>7. \A t \in Name \ {Manager}, x \in {0, 1} : ~Has(t, x)
  <2> DEFINE T == {t \in Name \ {Manager} : \E x \in {0, 1} : Has(t, x)}
  <2>1. ASSUME NEW t \in T PROVE \E p \in T : IsChild(t, p)
    <3>1. ~Active(t)
      BY <1>5, Alone
    <3>2. PICK p \in Name : Untold(p, t)
      BY <1>6, <3>1 DEF StartInv
    <3>3. p # Manager
      BY <1>1, <3>2 DEF Untold
    <3>4. QED
      BY <3>2, <3>3, UntoldHas
  <2>2. T \in SUBSET Name
    OBVIOUS
  <2> HIDE DEF T
  <2>3. T = {}
    BY <2>1, <2>2 DEF TreeInv
  <2>4. QED
    BY <2>3 DEF T
<1>8. \A t \in Name, x \in {0, 1} : ~Has(t, x)'
  BY <1>2, <1>3, <1>7 DEF Has
<1>9. RouteInv'
  <2>1. \A t \in Name, x \in {0, 1} : route'[t][x] # None => IsChild(route[t][x], t)'
    BY <1>1, <1>3 DEF RouteInv, IsChild
  <2>2. QED
    BY <1>8, <2>1 DEF RouteInv
<1>10. FindInv' /\ StartInv' /\ Fresh(cmd[Manager])'
  BY <1>2 DEF FindInv, StartInv, Fresh
<1>11. \A c, p \in Name : IsChild(c, p)' => pc'[c] # "dead"
  <2>1. \A c, p \in Name : IsChild(c, p) => pc[c] # "dead"
    BY <1>1, <1>5, <1>6, NoDeadChild
  <2>2. QED
    BY <1>1, <1>2, <2>1 DEF IsChild
<1>12. secret'[Manager] \in Secret
  BY <1>1 DEF DeathInv
<1>13. \A t \in Name \ {Manager} : /\ pc'[t] = pc[t] /\ cmd'[t] = cmd[t] /\ nth'[t] = nth[t]
                                   /\ child'[t] = child[t] /\ secret'[t] = secret[t]
  BY <1>1, <1>2
<1>14. /\ pc'[Manager] \in {"idle", "dead", "fork", "ask", "tell"} /\ cmd'[Manager] = Nothing
       /\ pc'[Manager] \notin {"fork", "tell"} /\ cmd'[Manager].op \notin {"find", "start"}
       /\ child'[Manager] \in {child[Manager], <<>>} /\ pc[Manager] # "dead" /\ UNCHANGED <<down, up>>
  BY <1>1, <1>2
<1>15. QED
  BY <1>4, <1>5, <1>9, <1>10, <1>11, <1>12, <1>13, <1>14, ManagerStep

\* The table of a service without its i-th child.
LEMMA RemoveAtFacts ==
    ASSUME NEW q \in Seq(Name), IsInjective(q), NEW i \in 1 .. Len(q)
    PROVE  /\ RemoveAt(q, i) \in Seq(Name) /\ IsInjective(RemoveAt(q, i))
           /\ ToSet(RemoveAt(q, i)) = ToSet(q) \ {q[i]}
<1>1. PICK n \in Nat : n = Len(q)
  BY LenProperties
<1>2. i \in 1 .. n /\ DOMAIN q = 1 .. n /\ \A j \in 1 .. n : q[j] \in Name
  BY <1>1, LenProperties, ElementOfSeq
<1>3. PICK l \in Seq(Name), r \in Seq(Name) :
         /\ l = SubSeq(q, 1, i - 1) /\ Len(l) = i - 1 /\ \A j \in 1 .. i - 1 : l[j] = q[j]
         /\ r = SubSeq(q, i + 1, n) /\ Len(r) = n - i /\ \A j \in 1 .. n - i : r[j] = q[j + i]
  <2>1. SubSeq(q, 1, i - 1) \in Seq(Name) /\ SubSeq(q, i + 1, n) \in Seq(Name)
    <3>1. \A j \in 1 .. i - 1 : q[j] \in Name
      BY <1>2
    <3>2. \A j \in i + 1 .. n : q[j] \in Name
      BY <1>2
    <3>3. i - 1 \in Int /\ i + 1 \in Int /\ n \in Int
      BY <1>2
    <3>4. QED
      BY <1>1, <1>2, <3>1, <3>2, <3>3, SubSeqProperties
  <2>2. /\ Len(SubSeq(q, 1, i - 1)) = i - 1
        /\ \A j \in 1 .. i - 1 : SubSeq(q, 1, i - 1)[j] = q[j]
    BY <1>1, <1>2, SubSeqProperties
  <2>3. /\ Len(SubSeq(q, i + 1, n)) = n - i
        /\ \A j \in 1 .. n - i : SubSeq(q, i + 1, n)[j] = q[j + i]
    BY <1>1, <1>2, SubSeqProperties
  <2>4. QED
    BY <2>1, <2>2, <2>3
<1>4. PICK w \in Seq(Name) :
         /\ w = RemoveAt(q, i) /\ Len(w) = n - 1 /\ DOMAIN w = 1 .. n - 1
         /\ \A j \in 1 .. n - 1 : w[j] = IF j <= i - 1 THEN q[j] ELSE q[j + 1]
  <2>1. RemoveAt(q, i) = l \o r
    BY <1>1, <1>3 DEF RemoveAt
  <2>2. l \o r \in Seq(Name) /\ Len(l \o r) = n - 1
    BY <1>2, <1>3, ConcatProperties
  <2>3. \A j \in 1 .. n - 1 : (l \o r)[j] = IF j <= i - 1 THEN q[j] ELSE q[j + 1]
    <3>1. ASSUME NEW j \in 1 .. n - 1 PROVE (l \o r)[j] = IF j <= i - 1 THEN q[j] ELSE q[j + 1]
      <4>1. (l \o r)[j] = IF j <= i - 1 THEN l[j] ELSE r[j - (i - 1)]
        BY <1>2, <1>3, <3>1, ConcatProperties
      <4>2. CASE j <= i - 1
        BY <1>2, <1>3, <3>1, <4>1, <4>2
      <4>3. CASE ~(j <= i - 1)
        <5>1. j - (i - 1) \in 1 .. n - i /\ j - (i - 1) + i = j + 1
          BY <1>2, <3>1, <4>3
        <5>2. r[j - (i - 1)] = q[j - (i - 1) + i]
          BY <1>3, <5>1
        <5>3. QED
          BY <4>1, <4>3, <5>1, <5>2
      <4>4. QED
        BY <4>2, <4>3
    <3>2. QED
      BY <3>1
  <2>4. DOMAIN (l \o r) = 1 .. n - 1
    BY <2>2, LenProperties
  <2>5. QED
    BY <2>1, <2>2, <2>3, <2>4
<1>5. \A j, k \in 1 .. n : q[j] = q[k] => j = k
  BY <1>2 DEF IsInjective
<1>6. IsInjective(w)
  <2>1. ASSUME NEW j \in 1 .. n - 1, NEW k \in 1 .. n - 1, w[j] = w[k] PROVE j = k
    <3>1. PICK a \in 1 .. n, b \in 1 .. n : /\ a = (IF j <= i - 1 THEN j ELSE j + 1) /\ w[j] = q[a]
                                            /\ b = (IF k <= i - 1 THEN k ELSE k + 1) /\ w[k] = q[b]
      BY <1>2, <1>4, <2>1
    <3>2. a = b
      BY <1>5, <2>1, <3>1
    <3>3. QED
      BY <1>2, <2>1, <3>1, <3>2
  <2>2. QED
    BY <1>4, <2>1 DEF IsInjective
<1>7. ToSet(w) = ToSet(q) \ {q[i]}
  <2>1. ASSUME NEW e \in ToSet(w) PROVE e \in ToSet(q) \ {q[i]}
    <3>1. PICK j \in 1 .. n - 1 : e = w[j]
      BY <1>4, <2>1 DEF ToSet
    <3>2. PICK a \in 1 .. n : a # i /\ e = q[a]
      BY <1>2, <1>4, <3>1
    <3>3. QED
      BY <1>2, <1>5, <3>2 DEF ToSet
  <2>2. ASSUME NEW e \in ToSet(q) \ {q[i]} PROVE e \in ToSet(w)
    <3>1. PICK a \in 1 .. n : e = q[a] /\ a # i
      BY <1>2, <2>2 DEF ToSet
    <3>2. PICK j \in 1 .. n - 1 : e = w[j]
      <4>1. CASE a < i
        <5>1. a \in 1 .. n - 1 /\ a <= i - 1
          BY <1>2, <3>1, <4>1
        <5>2. QED
          BY <1>4, <3>1, <5>1
      <4>2. CASE a > i
        <5>1. a - 1 \in 1 .. n - 1 /\ ~(a - 1 <= i - 1) /\ (a - 1) + 1 = a
          BY <1>2, <3>1, <4>2
        <5>2. w[a - 1] = q[(a - 1) + 1]
          BY <1>4, <5>1
        <5>3. QED
          BY <3>1, <5>1, <5>2
      <4>3. QED
        BY <1>2, <3>1, <4>1, <4>2
    <3>3. QED
      BY <1>4, <3>2 DEF ToSet
  <2>3. QED
    BY <2>1, <2>2
<1>8. QED
  BY <1>4, <1>6, <1>7

\* The table of a service with a new child at its end.
LEMMA AppendFacts ==
    ASSUME NEW q \in Seq(Name), IsInjective(q), NEW c \in Name, c \notin ToSet(q)
    PROVE  /\ Append(q, c) \in Seq(Name) /\ IsInjective(Append(q, c))
           /\ ToSet(Append(q, c)) = ToSet(q) \cup {c}
           /\ Len(q) \in Nat /\ Len(Append(q, c)) = Len(q) + 1 /\ Append(q, c)[Len(q) + 1] = c
<1>1. PICK n \in Nat : n = Len(q)
  BY LenProperties
<1>2. PICK w \in Seq(Name) : /\ w = Append(q, c) /\ Len(w) = n + 1 /\ w[n + 1] = c
                             /\ \A j \in 1 .. n : w[j] = q[j]
  <2>1. Append(q, c) \in Seq(Name) /\ Len(Append(q, c)) = Len(q) + 1 /\ Append(q, c)[Len(q) + 1] = c
    BY AppendProperties
  <2>2. \A j \in 1 .. Len(q) : Append(q, c)[j] = q[j]
    BY AppendProperties
  <2>3. QED
    BY <1>1, <2>1, <2>2
<1>3. DOMAIN q = 1 .. n /\ DOMAIN w = 1 .. n + 1
  BY <1>1, <1>2, LenProperties
<1>4. \A j \in 1 .. n : w[j] \in ToSet(q) /\ w[j] # c
  BY <1>2, <1>3 DEF ToSet
<1>5. IsInjective(w)
  <2>1. ASSUME NEW j \in 1 .. n + 1, NEW k \in 1 .. n + 1, w[j] = w[k] PROVE j = k
    <3>1. CASE j = n + 1
      <4>1. w[k] = c
        BY <1>2, <2>1, <3>1
      <4>2. QED
        BY <1>4, <2>1, <3>1, <4>1
    <3>2. CASE k = n + 1
      <4>1. w[j] = c
        BY <1>2, <2>1, <3>2
      <4>2. QED
        BY <1>4, <2>1, <3>2, <4>1
    <3>3. CASE j \in 1 .. n /\ k \in 1 .. n
      BY <1>2, <1>3, <2>1, <3>3 DEF IsInjective
    <3>4. QED
      BY <2>1, <3>1, <3>2, <3>3
  <2>2. QED
    BY <1>3, <2>1 DEF IsInjective
<1>6. ToSet(w) = ToSet(q) \cup {c}
  <2>1. ASSUME NEW e \in ToSet(w) PROVE e \in ToSet(q) \cup {c}
    <3>1. PICK j \in 1 .. n + 1 : e = w[j]
      BY <1>3, <2>1 DEF ToSet
    <3>2. j \in 1 .. n \/ j = n + 1
      BY <3>1
    <3>3. QED
      BY <1>2, <1>4, <3>1, <3>2
  <2>2. ASSUME NEW e \in ToSet(q) PROVE e \in ToSet(w)
    <3>1. PICK j \in 1 .. n : e = q[j]
      BY <1>3, <2>2 DEF ToSet
    <3>2. j \in 1 .. n + 1 /\ e = w[j]
      BY <1>2, <3>1
    <3>3. QED
      BY <1>3, <3>2 DEF ToSet
  <2>3. c \in ToSet(w)
    <3>1. n + 1 \in 1 .. n + 1
      OBVIOUS
    <3>2. QED
      BY <1>2, <1>3, <3>1 DEF ToSet
  <2>4. QED
    BY <2>1, <2>2, <2>3
<1>7. QED
  BY <1>1, <1>2, <1>5, <1>6

\* A service forks a new child and waits for its first message.
LEMMA ForkStep ==
    ASSUME SInv, NEW s \in Name, Fork(s)
    PROVE  SInv'
<1> USE DEF SInv
<1>1. pc[s] = "fork" /\ cmd[s].op = "spawn" /\ Fresh(cmd[s]) /\ pc[s] \in Handling /\ cmd[s] = cmd[Manager]
  BY DEF Fork, PhaseInv, SpawnInv, SameCommand, Uniform, Handling
<1>2. PICK c \in Name : c = cmd[s].b /\ c # Manager /\ \A p \in Name : ~IsChild(c, p)
  BY <1>1 DEF Fresh, TypeOK, Command_
<1>3. Active(s) /\ Working(s) /\ down[s] = <<>> /\ up[s] = <<>>
  BY <1>1 DEF Active, Working, TokenInv
<1>4. ~Active(c) /\ down[c] = <<>> /\ up[c] = <<>> /\ pc[c] \in {"idle", "dead", "reset"} /\ c # s
  <2>1. ~Active(c)
    BY <1>2 DEF LinkInv
  <2>2. QED
    BY <1>3, <2>1 DEF Active, Working
<1>5. /\ child' = [child EXCEPT ![s] = Append(@, c), ![c] = <<>>]
      /\ \E v \in Secret : secret' = [secret EXCEPT ![c] = v]
      /\ route' = [route EXCEPT ![c] = NoRoute]
      /\ down' = [down EXCEPT ![c] = <<>>] /\ up' = [up EXCEPT ![c] = <<>>]
      /\ pc' = [pc EXCEPT ![s] = "hear", ![c] = "born"]
      /\ nth' = [nth EXCEPT ![s] = Len(child[s]) + 1]
      /\ UNCHANGED <<cmd, ans, ends, data, heard>>
  BY <1>2 DEF Fork, fifos, output
<1>6. PICK q \in Seq(Name) : /\ q = Append(child[s], c) /\ IsInjective(q) /\ ToSet(q) = ToSet(child[s]) \cup {c}
                             /\ Len(child[s]) \in Nat /\ Len(q) = Len(child[s]) + 1 /\ q[Len(child[s]) + 1] = c
  <2>1. child[s] \in Seq(Name) /\ IsInjective(child[s]) /\ c \notin ToSet(child[s])
    BY <1>2 DEF TypeOK, TreeInv, IsChild
  <2>2. QED
    BY <2>1, AppendFacts
<1>7. PICK n \in Nat : n = Len(child[s]) /\ Len(q) = n + 1 /\ q[n + 1] = c
  BY <1>6
<1>8. PICK e \in Seq(Name) : e = <<>>
  BY EmptySeq
<1>9. /\ child' \in [Name -> Seq(Name)] /\ child'[s] = q /\ child'[c] = <<>>
      /\ \A t \in Name \ {s, c} : child'[t] = child[t]
  <2>1. child' = [child EXCEPT ![s] = q, ![c] = e]
    BY <1>5, <1>6, <1>8
  <2>2. QED
    BY <1>4, <1>8, <2>1 DEF TypeOK
<1>10. /\ nth' \in [Name -> Nat \ {0}] /\ nth'[s] = n + 1 /\ \A t \in Name \ {s} : nth'[t] = nth[t]
  <2>1. nth' = [nth EXCEPT ![s] = n + 1] /\ n + 1 \in Nat \ {0}
    BY <1>5, <1>7
  <2>2. QED
    BY <2>1 DEF TypeOK
<1>11. /\ pc' \in [Name -> {"dead", "born", "idle", "fork", "ask", "hear", "tell", "open1", "open2",
                            "give", "take", "collect", "reset"}]
       /\ pc'[s] = "hear" /\ pc'[c] = "born" /\ \A t \in Name \ {s, c} : pc'[t] = pc[t]
  BY <1>4, <1>5 DEF TypeOK
<1>12. /\ secret' \in [Name -> Secret \cup {None}] /\ secret'[c] \in Secret
       /\ \A t \in Name \ {c} : secret'[t] = secret[t]
  <2>1. PICK v \in Secret : secret' = [secret EXCEPT ![c] = v]
    BY <1>5
  <2>2. QED
    BY <2>1 DEF TypeOK
<1>13. /\ route' \in [Name -> [{0, 1} -> Name \cup {None}]] /\ \A x \in {0, 1} : route'[c][x] = None
       /\ \A t \in Name \ {c} : route'[t] = route[t]
  <2>1. NoRoute \in [{0, 1} -> Name \cup {None}] /\ \A x \in {0, 1} : NoRoute[x] = None
    BY DEF NoRoute
  <2>2. route'[c] = NoRoute /\ \A t \in Name \ {c} : route'[t] = route[t]
    BY <1>5 DEF TypeOK
  <2>3. QED
    BY <1>5, <2>1, <2>2 DEF TypeOK
<1>14. down' = down /\ up' = up
  <2>1. down' = [down EXCEPT ![c] = down[c]] /\ up' = [up EXCEPT ![c] = up[c]]
    BY <1>4, <1>5
  <2>2. QED
    BY <2>1 DEF TypeOK
<1>15. TypeOK'
  BY <1>5, <1>9, <1>10, <1>11, <1>12, <1>13, <1>14 DEF TypeOK
<1>16. \A d, p \in Name : IsChild(d, p)' <=> (IsChild(d, p) /\ p # c) \/ (d = c /\ p = s)
  <2>1. \A d : d \notin ToSet(<<>>)
    BY DEF ToSet
  <2>2. \A d, p \in Name : IsChild(d, p)' <=> d \in ToSet(child'[p])
    BY DEF IsChild
  <2>3. QED
    BY <1>4, <1>6, <1>9, <2>1, <2>2 DEF IsChild
<1>17. (\A t \in Name : pc[t] \notin Exchanging) /\ cmd[Manager].op = "spawn" /\ Manager \in Name
  BY <1>1, OtherPhase, NameAssumption
<1>18. \A t \in Name : Busy(t) => t = s
  BY <1>1, <1>17 DEF OneBusy, Busy
<1>19. \A t \in Name : Active(t)' <=> Active(t) \/ t = c
  BY <1>3, <1>4, <1>11, <1>14 DEF Active, Working
<1>20. \A t \in Name : /\ pc'[t] \in Handling <=> pc[t] \in Handling
                       /\ pc'[t] \notin Exchanging
                       /\ pc'[t] \notin {"fork", "ask"}
  <2>1. pc'[s] \in Handling /\ pc'[c] \notin Handling /\ pc[c] \notin Handling
    BY <1>4, <1>11 DEF Handling, Exchanging
  <2>2. pc'[s] \notin Exchanging /\ pc'[c] \notin Exchanging
    BY <1>11 DEF Exchanging
  <2>3. \A t \in Name : pc[t] \in {"fork", "ask"} => t = s
    BY <1>18 DEF Busy
  <2>4. QED
    BY <1>1, <1>11, <1>17, <2>1, <2>2, <2>3
<1>21. TreeInv'
  <2>1. \A p \in Name : ~IsChild(Manager, p)'
    BY <1>2, <1>16, <1>17 DEF TreeInv
  <2>2. \A p \in Name : IsInjective(child'[p])
    <3>1. IsInjective(<<>>)
      BY DEF IsInjective
    <3>2. QED
      BY <1>6, <1>9, <3>1 DEF TreeInv
  <2>3. \A d, p, r \in Name : IsChild(d, p)' /\ IsChild(d, r)' => p = r
    BY <1>2, <1>16 DEF TreeInv
  <2>4. ASSUME NEW T \in SUBSET Name, \A d \in T : \E p \in T : IsChild(d, p)' PROVE T = {}
    <3> DEFINE U == T \ {c}
    <3>1. \A d \in U : \E p \in U : IsChild(d, p)
      BY <1>16, <2>4
    <3>2. U \in SUBSET Name
      OBVIOUS
    <3> HIDE DEF U
    <3>3. U = {}
      BY <3>1, <3>2 DEF TreeInv
    <3>4. c \notin T
      <4>1. c \in T => s \in T
        BY <1>2, <1>16, <2>4
      <4>2. QED
        BY <1>4, <3>3, <4>1 DEF U
    <3>5. QED
      BY <3>3, <3>4 DEF U
  <2>5. QED
    BY <2>1, <2>2, <2>3, <2>4 DEF TreeInv
<1>22. LinkInv'
  <2>1. Engaged(s, c)' /\ nth'[s] <= Len(child'[s])
    <3>1. nth'[s] <= Len(child'[s])
      BY <1>7, <1>9, <1>10
    <3>2. Current(s)' = c
      BY <1>7, <1>9, <1>10 DEF Current
    <3>3. QED
      BY <1>11, <3>1, <3>2 DEF Engaged
  <2>2. \A p \in Name \ {s, c}, d \in Name : Engaged(p, d) => Engaged(p, d)'
    BY <1>5, <1>9, <1>10, <1>11, <1>13, EngagedFrame
  <2>3. ASSUME NEW d \in Name \ {Manager}, Active(d)' PROVE \E p \in Name : IsChild(d, p)' /\ Engaged(p, d)'
    <3>1. CASE d = c
      BY <1>16, <2>1, <3>1
    <3>2. CASE d # c
      <4>1. PICK p \in Name : IsChild(d, p) /\ Engaged(p, d)
        BY <1>19, <2>3, <3>2 DEF LinkInv
      <4>2. p \notin {s, c}
        BY <1>1, <1>4, <4>1 DEF Engaged
      <4>3. QED
        BY <1>16, <2>2, <4>1, <4>2
    <3>3. QED
      BY <3>1, <3>2
  <2>4. \A p \in Name : pc'[p] = "hear" => nth'[p] <= Len(child'[p])
    BY <1>9, <1>10, <1>11, <2>1 DEF LinkInv
  <2>5. \A p \in Name : pc'[p] \notin {"open1", "open2", "give", "take"}
    BY <1>20 DEF Exchanging
  <2>6. pc'[Manager] \notin {"born", "reset"}
    BY <1>2, <1>11, <1>17 DEF LinkInv
  <2>7. QED
    BY <1>14, <2>3, <2>4, <2>5, <2>6 DEF LinkInv
<1>23. TokenInv'
  BY <1>3, <1>4, <1>11, <1>14 DEF TokenInv, Working
<1>24. OneBusy'
  <2>1. \A t \in Name : Busy(t)' => t = c
    BY <1>3, <1>11, <1>14, <1>18 DEF Busy
  <2>2. QED
    BY <2>1 DEF OneBusy
<1>25. PhaseInv'
  <2>1. \A t \in Name : pc'[t] \in Handling => SameCommand(cmd[t])'
    BY <1>5, <1>20 DEF PhaseInv, SameCommand
  <2>2. \A t \in Name : down'[t] # <<>> => SameCommand(Head(down[t]))'
    BY <1>5, <1>14 DEF PhaseInv, SameCommand
  <2>3. \A t \in Name : pc'[t] \in Exchanging <=> pc'[t] \in Handling /\ cmd'[t].op = "start"
    BY <1>5, <1>17, <1>20 DEF PhaseInv
  <2>4. pc'[Manager] \notin {"idle", "dead"}
    <3>1. pc[Manager] \notin {"idle", "dead"}
      BY <1>17 DEF PhaseInv, Nothing, Cmd
    <3>2. QED
      BY <1>2, <1>11, <1>17, <3>1
  <2>5. QED
    BY <1>5, <1>17, <1>20, <2>1, <2>2, <2>3, <2>4 DEF PhaseInv
<1>26. SpawnInv'
  <2>1. \A t \in Name : down'[t] = <<>> /\ up'[t] = <<>>
    BY <1>3, <1>14, <1>18 DEF Busy
  <2>2. QED
    BY <1>20, <2>1 DEF SpawnInv
<1>27. DeathInv'
  <2>1. ASSUME NEW d \in Name, NEW p \in Name, IsChild(d, p)', pc'[d] = "dead"
        PROVE  \/ pc'[p] \in Handling /\ cmd'[p].op = "suicide"
               \/ up'[d] # <<>>
               \/ pc'[Manager] = "dead"
    <3>1. IsChild(d, p) /\ pc[d] = "dead"
      BY <1>11, <1>16, <2>1
    <3>2. \/ pc[p] \in Handling /\ cmd[p].op = "suicide"
          \/ up[d] # <<>>
          \/ pc[Manager] = "dead"
      BY <3>1 DEF DeathInv
    <3>3. pc[Manager] # "dead"
      BY <1>17 DEF PhaseInv, Nothing, Cmd
    <3>4. QED
      BY <1>5, <1>14, <1>20, <3>2, <3>3
  <2>2. \A p \in Name : pc'[p] = "dead" /\ child'[p] # <<>> => pc'[Manager] = "dead"
    <3>1. ASSUME NEW p \in Name, pc'[p] = "dead", child'[p] # <<>> PROVE pc'[Manager] = "dead"
      <4>1. p \notin {s, c} /\ pc[p] = "dead" /\ child[p] # <<>>
        BY <1>9, <1>11, <3>1
      <4>2. pc[Manager] = "dead"
        BY <4>1 DEF DeathInv
      <4>3. QED
        BY <1>2, <1>1, <1>11, <1>17, <4>2
    <3>2. QED
      BY <3>1
  <2>3. ~Dying(c)' /\ \A d \in Name \ {c} : Dying(d)' => Dying(d)
    <3>1. ~Dying(c)'
      BY <1>4, <1>11, <1>14 DEF Dying, Handling, Exchanging
    <3>2. \A d \in Name \ {c} : Dying(d)' => Dying(d)
      BY <1>5, <1>11, <1>14, <1>20 DEF Dying
    <3>3. QED
      BY <3>1, <3>2
  <2>4. ASSUME NEW p \in Name, pc'[p] = "hear", Dying(Current(p))' PROVE Ends(p)'
    <3>1. CASE p = s
      <4>1. Current(p)' = c
        BY <1>7, <1>9, <1>10, <3>1 DEF Current
      <4>2. Dying(c)'
        BY <2>4, <4>1 DEF Dying
      <4>3. QED
        BY <2>3, <4>2
    <3>2. CASE p # s
      <4>1. pc[p] = "hear" /\ nth[p] <= Len(child[p]) /\ p \notin {s, c}
        BY <1>11, <2>4, <3>2 DEF LinkInv
      <4>2. PICK d \in Name : d = Current(p) /\ d = Current(p)' /\ IsChild(d, p)
        BY <1>9, <1>10, <4>1, CurrentChild DEF Current
      <4>3. Dying(d)' /\ d # c
        BY <1>2, <2>4, <4>2 DEF Dying
      <4>4. Ends(p)
        BY <2>3, <4>1, <4>2, <4>3 DEF DeathInv
      <4>5. QED
        BY <1>5, <4>2, <4>4 DEF Ends, Direct
    <3>3. QED
      BY <3>1, <3>2
  <2>5. \A t \in Name : pc'[t] # "dead" => secret'[t] \in Secret
    BY <1>1, <1>11, <1>12 DEF DeathInv
  <2>6. QED
    BY <2>1, <2>2, <2>4, <2>5 DEF DeathInv
<1>28. RouteInv' /\ FindInv' /\ StartInv'
  <2>1. \A t \in Name, x \in {0, 1} : route'[t][x] # None => IsChild(route[t][x], t)'
    <3>1. ASSUME NEW t \in Name, NEW x \in {0, 1}, route'[t][x] # None PROVE IsChild(route[t][x], t)'
      <4>1. t # c /\ route'[t] = route[t]
        BY <1>13, <3>1
      <4>2. PICK d \in Name : d = route[t][x] /\ IsChild(d, t)
        <5>1. route[t] \in [{0, 1} -> Name \cup {None}]
          BY DEF TypeOK
        <5>2. QED
          BY <3>1, <4>1, <5>1 DEF RouteInv
      <4>3. IsChild(d, t)'
        BY <1>16, <4>1, <4>2
      <4>4. QED
        BY <4>1, <4>2, <4>3 DEF IsChild
    <3>2. QED
      BY <3>1
  <2>2. \A t \in Name, x \in {0, 1} : ~Has(t, x)'
    <3>1. \A t \in Name, x \in {0, 1} : ~Has(t, x)
      BY <1>17 DEF RouteInv
    <3>2. QED
      BY <1>1, <1>11, <1>13, <3>1 DEF Has
  <2>3. QED
    BY <1>5, <1>17, <2>1, <2>2 DEF RouteInv, FindInv, StartInv
<1>29. QED
  BY <1>15, <1>21, <1>22, <1>23, <1>24, <1>25, <1>26, <1>27, <1>28

\* A service reads the answer of the child that it asked.
LEMMA HearStep ==
    ASSUME SInv, NEW s \in Name, Hear(s)
    PROVE  SInv'
<1> USE DEF SInv
<1>1. pc[s] = "hear" /\ pc[s] \in Handling /\ nth[s] <= Len(child[s]) /\ Manager \in Name
  BY NameAssumption DEF Hear, LinkInv, Handling
<1>2. PICK c \in Name : c = Current(s) /\ IsChild(c, s) /\ c # s /\ c # Manager
  BY <1>1, CurrentChild
<1>3. /\ up[c] # <<>> /\ up' = [up EXCEPT ![c] = Tail(@)]
      /\ ans' = [ans EXCEPT ![s] = Heard(s, Head(up[c]))]
      /\ child' = IF Direct(s) THEN [child EXCEPT ![s] = RemoveAt(@, nth[s])] ELSE child
      /\ route' = IF cmd[s].op = "find" /\ Head(up[c]).ok THEN [route EXCEPT ![s][cmd[s].n] = c] ELSE route
      /\ nth' = [nth EXCEPT ![s] = @ + 1] /\ pc' = [pc EXCEPT ![s] = "ask"]
      /\ UNCHANGED <<secret, cmd, down, ends, data, heard>>
  BY <1>2 DEF Hear, Goto, fifos, output
<1>4. /\ up'[c] = <<>> /\ \A t \in Name \ {c} : up'[t] = up[t]
      /\ up' \in [Name -> Seq(Answer_)] /\ \A t \in Name : Len(up'[t]) <= 1
      /\ Head(up[c]) \in Answer_
  BY <1>3, TakeUp
<1>5. PICK v \in Answer_ : v = Head(up[c])
  BY <1>4
<1>6. ~Working(c) /\ down[c] = <<>> /\ Active(s) /\ Working(s) /\ down[s] = <<>> /\ up[s] = <<>>
  BY <1>1, <1>3 DEF TokenInv, Active, Working
<1>7. (\A t \in Name : pc[t] \notin Exchanging) /\ cmd[Manager].op # "start" /\ SameCommand(cmd[s])
  BY <1>1, OtherPhase DEF PhaseInv
<1>8. \A t \in Name : Busy(t) => t = c
  BY <1>3, <1>7, <1>1 DEF OneBusy, Busy
<1>9. /\ pc' \in [Name -> {"dead", "born", "idle", "fork", "ask", "hear", "tell", "open1", "open2",
                           "give", "take", "collect", "reset"}]
      /\ pc'[s] = "ask" /\ \A t \in Name \ {s} : pc'[t] = pc[t]
  BY <1>3 DEF TypeOK
<1>10. nth' \in [Name -> Nat \ {0}] /\ \A t \in Name \ {s} : nth'[t] = nth[t]
  <2>1. nth[s] + 1 \in Nat \ {0}
    BY DEF TypeOK
  <2>2. QED
    BY <1>3, <2>1 DEF TypeOK
<1>11. PICK w \in Answer_ : w = Heard(s, v)
  <2>1. ans[s].n \in Nat /\ v.n \in Nat
    BY DEF TypeOK, Answer_
  <2>2. CASE cmd[s].op = "suicide"
    <3>1. Heard(s, v) = Answer(FALSE, ans[s].n + v.n)
      BY <2>2 DEF Heard, Direct
    <3>2. ans[s].n + v.n \in Nat
      BY <2>1
    <3>3. QED
      BY <3>1, <3>2 DEF Answer, Answer_
  <2>3. CASE cmd[s].op # "suicide" /\ Direct(s)
    <3>1. Heard(s, v) = Answer(TRUE, v.n)
      BY <2>3 DEF Heard
    <3>2. QED
      BY <2>1, <3>1 DEF Answer, Answer_
  <2>4. CASE cmd[s].op # "suicide" /\ ~Direct(s)
    <3>1. Heard(s, v) = v
      BY <2>4 DEF Heard
    <3>2. QED
      BY <3>1
  <2>5. QED
    BY <2>2, <2>3, <2>4
<1>12. ans' \in [Name -> Answer_] /\ ans'[s] = w /\ \A t \in Name \ {s} : ans'[t] = ans[t]
  <2>1. ans' = [ans EXCEPT ![s] = w]
    BY <1>3, <1>5, <1>11
  <2>2. QED
    BY <2>1 DEF TypeOK
<1>13. /\ child' \in [Name -> Seq(Name)] /\ \A t \in Name \ {s} : child'[t] = child[t]
       /\ IsInjective(child'[s])
       /\ ToSet(child'[s]) = IF Direct(s) THEN ToSet(child[s]) \ {c} ELSE ToSet(child[s])
  <2>1. CASE Direct(s)
    <3>1. child[s] \in Seq(Name) /\ IsInjective(child[s]) /\ nth[s] \in 1 .. Len(child[s])
      <4>1. child[s] \in Seq(Name) /\ nth[s] \in DOMAIN child[s]
        BY <1>1, CurrentChild DEF TypeOK
      <4>2. QED
        BY <4>1, LenProperties DEF TreeInv
    <3>2. PICK q \in Seq(Name) : /\ q = RemoveAt(child[s], nth[s]) /\ IsInjective(q)
                                 /\ ToSet(q) = ToSet(child[s]) \ {c}
      BY <1>2, <3>1, RemoveAtFacts DEF Current
    <3>3. child' = [child EXCEPT ![s] = q]
      BY <1>3, <2>1, <3>2
    <3>4. child' \in [Name -> Seq(Name)] /\ child'[s] = q /\ \A t \in Name \ {s} : child'[t] = child[t]
      BY <3>3 DEF TypeOK
    <3>5. QED
      BY <2>1, <3>2, <3>4
  <2>2. CASE ~Direct(s)
    BY <1>3, <2>2 DEF TypeOK, TreeInv
  <2>3. QED
    BY <2>1, <2>2
<1>14. \A d, p \in Name : IsChild(d, p)' <=> IsChild(d, p) /\ ~(Direct(s) /\ p = s /\ d = c)
  BY <1>13 DEF IsChild
<1>15. /\ cmd[s].op = "find" \/ cmd[Manager].op = "find" =>
             /\ cmd[s] = cmd[Manager] /\ cmd[s].n \in {0, 1} /\ ~Direct(s) /\ child' = child /\ w = v
       /\ cmd[s].op = "spawn" \/ cmd[Manager].op = "spawn" => cmd[s] = cmd[Manager] /\ ~Direct(s) /\ w = v
  <2>1. cmd[s].op = "find" \/ cmd[Manager].op = "find" => cmd[s] = cmd[Manager] /\ cmd[Manager].op = "find"
    BY <1>7 DEF SameCommand, Uniform
  <2>2. cmd[s].op = "spawn" \/ cmd[Manager].op = "spawn" => cmd[s] = cmd[Manager] /\ cmd[Manager].op = "spawn"
    BY <1>7 DEF SameCommand, Uniform
  <2>3. cmd[s].op \in {"find", "spawn"} => ~Direct(s) /\ w = v
    BY <1>11 DEF Direct, Heard
  <2>4. cmd[Manager].op = "find" => cmd[Manager].n \in {0, 1}
    BY DEF PhaseInv
  <2>5. QED
    BY <1>3, <2>1, <2>2, <2>3, <2>4
<1>16. /\ route' \in [Name -> [{0, 1} -> Name \cup {None}]] /\ \A t \in Name \ {s} : route'[t] = route[t]
       /\ cmd[s].op = "find" /\ v.ok => \A y \in {0, 1} : route'[s][y] = IF y = cmd[s].n THEN c ELSE route[s][y]
       /\ ~(cmd[s].op = "find" /\ v.ok) => route' = route
  <2>1. CASE cmd[s].op = "find" /\ v.ok
    <3>1. PICK x \in {0, 1} : x = cmd[s].n
      BY <1>15, <2>1
    <3>2. PICK f \in [{0, 1} -> Name \cup {None}] : f = [route[s] EXCEPT ![x] = c]
      BY DEF TypeOK
    <3>3. route' = [route EXCEPT ![s] = f]
      <4>1. route' = [route EXCEPT ![s][x] = c]
        BY <1>3, <1>5, <2>1, <3>1
      <4>2. QED
        BY <3>2, <4>1
    <3>4. /\ route' \in [Name -> [{0, 1} -> Name \cup {None}]] /\ route'[s] = f
          /\ \A t \in Name \ {s} : route'[t] = route[t]
      BY <3>3 DEF TypeOK
    <3>5. \A y \in {0, 1} : f[y] = IF y = x THEN c ELSE route[s][y]
      BY <3>2 DEF TypeOK
    <3>6. QED
      BY <2>1, <3>1, <3>4, <3>5
  <2>2. CASE ~(cmd[s].op = "find" /\ v.ok)
    BY <1>3, <1>5, <2>2 DEF TypeOK
  <2>3. QED
    BY <2>1, <2>2
<1>17. TypeOK'
  BY <1>3, <1>4, <1>9, <1>10, <1>12, <1>13, <1>16 DEF TypeOK
<1>18. ~Active(c)' /\ \A t \in Name \ {c} : Active(t)' <=> Active(t)
  <2>1. ~Active(c)'
    BY <1>2, <1>3, <1>4, <1>6, <1>9 DEF Active, Working
  <2>2. \A t \in Name \ {c} : Active(t)' <=> Active(t)
    BY <1>1, <1>3, <1>4, <1>9 DEF Active, Working
  <2>3. QED
    BY <2>1, <2>2
<1>19. \A t \in Name : Busy(t)' => t = s
  <2>1. ASSUME NEW t \in Name, t # s, Busy(t)' PROVE FALSE
    <3>1. t # c
      BY <1>18, <2>1 DEF Busy, Active, Working
    <3>2. Busy(t)
      BY <1>3, <1>4, <1>9, <2>1, <3>1 DEF Busy
    <3>3. QED
      BY <1>8, <3>1, <3>2
  <2>2. QED
    BY <2>1
<1>20. \A t \in Name : /\ pc'[t] \in Handling <=> pc[t] \in Handling
                       /\ pc'[t] \notin Exchanging /\ pc'[t] \notin {"fork", "born"}
                       /\ (pc'[t] = "ask" => t = s)
                       /\ (pc'[t] \in {"dead", "reset"} <=> pc[t] \in {"dead", "reset"})
                       /\ (pc'[t] = "dead" <=> pc[t] = "dead")
  <2>1. \A t \in Name : pc'[t] \in {"fork", "born", "ask"} => t = s
    BY <1>19 DEF Busy
  <2>2. pc'[s] \in Handling
    BY <1>9 DEF Handling
  <2>3. pc'[s] \notin Exchanging
    BY <1>9 DEF Exchanging
  <2>4. QED
    BY <1>1, <1>7, <1>9, <2>1, <2>2, <2>3
<1>21. TreeInv'
  <2>1. \A p \in Name : ~IsChild(Manager, p)' /\ IsInjective(child'[p])
    BY <1>1, <1>13, <1>14 DEF TreeInv
  <2>2. \A d, p, q \in Name : IsChild(d, p)' /\ IsChild(d, q)' => p = q
    BY <1>14 DEF TreeInv
  <2>3. ASSUME NEW T \in SUBSET Name, \A d \in T : \E p \in T : IsChild(d, p)' PROVE T = {}
    <3>1. \A d \in T : \E p \in T : IsChild(d, p)
      BY <1>14, <2>3
    <3>2. QED
      BY <3>1 DEF TreeInv
  <2>4. QED
    BY <2>1, <2>2, <2>3 DEF TreeInv
<1>22. LinkInv'
  <2>1. \A p \in Name \ {s}, d \in Name : Engaged(p, d) => Engaged(p, d)'
    BY <1>3, <1>9, <1>10, <1>13, <1>16, EngagedFrame
  <2>2. ASSUME NEW d \in Name \ {Manager}, Active(d)' PROVE \E p \in Name : IsChild(d, p)' /\ Engaged(p, d)'
    <3>1. d # c /\ Active(d)
      BY <1>18, <2>2
    <3>2. PICK p \in Name : IsChild(d, p) /\ Engaged(p, d)
      BY <3>1 DEF LinkInv
    <3>3. p # s
      BY <1>1, <1>2, <3>1, <3>2 DEF Engaged
    <3>4. QED
      BY <1>14, <2>1, <3>2, <3>3
  <2>3. \A p \in Name : /\ pc'[p] = "hear" => nth'[p] <= Len(child'[p])
                        /\ pc'[p] \notin {"open1", "open2", "give", "take"}
    BY <1>9, <1>10, <1>13, <1>20 DEF LinkInv, Exchanging
  <2>4. down'[Manager] = <<>> /\ up'[Manager] = <<>> /\ pc'[Manager] \notin {"born", "reset"}
    BY <1>1, <1>2, <1>3, <1>4, <1>9 DEF LinkInv
  <2>5. QED
    BY <2>2, <2>3, <2>4 DEF LinkInv
<1>23. TokenInv'
  BY <1>2, <1>3, <1>4, <1>6, <1>9 DEF TokenInv, Working
<1>24. OneBusy'
  BY <1>19 DEF OneBusy
<1>25. \A t \in Name : down'[t] = <<>> /\ up'[t] = <<>>
  <2>1. \A t \in Name \ {s} : down'[t] = <<>> /\ up'[t] = <<>>
    BY <1>19 DEF Busy
  <2>2. QED
    BY <1>2, <1>3, <1>4, <1>6, <2>1
<1>26. PhaseInv'
  <2>1. \A t \in Name : pc'[t] \in Handling => SameCommand(cmd[t])'
    BY <1>3, <1>20 DEF PhaseInv, SameCommand
  <2>2. \A t \in Name : pc'[t] \in Exchanging <=> pc'[t] \in Handling /\ cmd'[t].op = "start"
    BY <1>3, <1>7, <1>20 DEF PhaseInv
  <2>3. pc'[Manager] \in {"idle", "dead"} => cmd'[Manager] = Nothing
    BY <1>1, <1>3, <1>9 DEF PhaseInv
  <2>4. cmd'[Manager].op = "find" => cmd'[Manager].n \in {0, 1}
    BY <1>3 DEF PhaseInv
  <2>5. QED
    BY <1>20, <1>25, <2>1, <2>2, <2>3, <2>4 DEF PhaseInv
<1>27. SpawnInv'
  <2>1. ~w.ok => Fresh(cmd[s])'
    <3>1. ASSUME ~w.ok, cmd[s].op = "spawn" PROVE Fresh(cmd[s])'
      <4>1. cmd[s] = cmd[Manager] /\ ~Head(up[c]).ok
        BY <1>5, <1>15, <3>1
      <4>2. Fresh(cmd[s])
        BY <1>3, <4>1 DEF SpawnInv
      <4>3. cmd[s].b \in Name
        BY DEF TypeOK, Command_
      <4>4. QED
        BY <1>3, <1>14, <4>2, <4>3 DEF Fresh
    <3>2. QED
      BY <1>3, <3>1 DEF Fresh
  <2>2. \A t \in Name : pc'[t] = "fork" \/ (pc'[t] = "ask" /\ ~ans'[t].ok) => Fresh(cmd[t])'
    BY <1>12, <1>20, <2>1
  <2>3. QED
    BY <1>25, <2>2 DEF SpawnInv
<1>28. DeathInv'
  <2>1. ASSUME NEW d \in Name, NEW p \in Name, IsChild(d, p)', pc'[d] = "dead"
        PROVE  \/ pc'[p] \in Handling /\ cmd'[p].op = "suicide"
               \/ up'[d] # <<>>
               \/ pc'[Manager] = "dead"
    <3>1. IsChild(d, p) /\ pc[d] = "dead" /\ ~(Direct(s) /\ p = s /\ d = c)
      BY <1>14, <1>20, <2>1
    <3>2. CASE d = c
      <4>1. p = s
        BY <1>2, <3>1, <3>2 DEF TreeInv
      <4>2. Ends(s)
        BY <1>1, <1>2, <3>1, <3>2 DEF DeathInv, Dying
      <4>3. cmd[s].op = "suicide"
        BY <3>1, <3>2, <4>1, <4>2 DEF Ends
      <4>4. QED
        BY <1>1, <1>3, <1>20, <4>1, <4>3
    <3>3. CASE d # c
      <4>1. \/ pc[p] \in Handling /\ cmd[p].op = "suicide"
            \/ up[d] # <<>>
            \/ pc[Manager] = "dead"
        BY <3>1 DEF DeathInv
      <4>2. QED
        BY <1>1, <1>3, <1>4, <1>20, <3>3, <4>1
    <3>4. QED
      BY <3>2, <3>3
  <2>2. \A p \in Name : pc'[p] = "dead" /\ child'[p] # <<>> => pc'[Manager] = "dead"
    BY <1>1, <1>9, <1>13, <1>20 DEF DeathInv
  <2>3. \A d \in Name : Dying(d)' => Dying(d)
    BY <1>3, <1>20 DEF Dying
  <2>4. ASSUME NEW p \in Name, pc'[p] = "hear", Dying(Current(p))' PROVE Ends(p)'
    <3>1. pc[p] = "hear" /\ nth[p] <= Len(child[p]) /\ p # s
      BY <1>9, <2>4 DEF LinkInv
    <3>2. PICK d \in Name : d = Current(p) /\ d = Current(p)'
      BY <1>10, <1>13, <3>1, CurrentChild DEF Current
    <3>3. Dying(d)'
      BY <2>4, <3>2 DEF Dying
    <3>4. Ends(p)
      BY <2>3, <3>1, <3>2, <3>3 DEF DeathInv
    <3>5. QED
      BY <1>3, <3>2, <3>4 DEF Ends, Direct
  <2>5. \A t \in Name : pc'[t] # "dead" => secret'[t] \in Secret
    BY <1>3, <1>20 DEF DeathInv
  <2>6. QED
    BY <2>1, <2>2, <2>4, <2>5 DEF DeathInv
<1>29. \A t \in Name \ {s}, y \in {0, 1} : Has(t, y)' <=> Has(t, y)
  BY <1>9, <1>16 DEF Has
<1>30. cmd[s].op # "find" => route' = route /\ \A y \in {0, 1} : Has(s, y)' <=> Has(s, y)
  BY <1>1, <1>9, <1>16 DEF Has
<1>31. RouteInv'
  <2>1. ASSUME NEW t \in Name, NEW y \in {0, 1}, route'[t][y] # None PROVE IsChild(route[t][y], t)'
    <3>1. CASE route'[t][y] = c /\ t = s /\ cmd[s].op = "find"
      <4>1. IsChild(c, s)'
        BY <1>2, <1>14, <1>15, <3>1
      <4>2. QED
        BY <3>1, <4>1 DEF IsChild
    <3>2. CASE route'[t][y] = route[t][y]
      <4>1. PICK d \in Name : d = route[t][y] /\ IsChild(d, t)
        <5>1. route[t] \in [{0, 1} -> Name \cup {None}]
          BY DEF TypeOK
        <5>2. QED
          BY <2>1, <3>2, <5>1 DEF RouteInv
      <4>2. ~(Direct(s) /\ t = s)
        <5>1. SUFFICES ASSUME Direct(s), t = s PROVE FALSE
          OBVIOUS
        <5>2. Has(s, y)
          BY <1>1, <2>1, <3>2, <5>1 DEF Has
        <5>3. cmd[Manager].op = "find"
          BY <1>7, <5>2 DEF RouteInv
        <5>4. QED
          BY <1>15, <5>1, <5>3
      <4>3. IsChild(d, t)'
        BY <1>14, <4>1, <4>2
      <4>4. QED
        BY <3>2, <4>1, <4>3 DEF IsChild
    <3>3. QED
      BY <1>16, <3>1, <3>2
  <2>2. ASSUME cmd'[Manager].op \notin {"find", "start"} PROVE \A t \in Name, y \in {0, 1} : ~Has(t, y)'
    <3>1. cmd[s].op # "find" /\ cmd[Manager].op \notin {"find", "start"}
      BY <1>3, <1>15, <2>2
    <3>2. QED
      BY <1>29, <1>30, <3>1 DEF RouteInv
  <2>3. QED
    BY <2>1, <2>2 DEF RouteInv
<1>32. FindInv'
  <2>1. ASSUME cmd[Manager].op = "find"
        PROVE  FindInv'
    <3>1. PICK x \in {0, 1} : x = cmd[Manager].n /\ x = cmd[s].n
      BY <1>15, <2>1
    <3>2. cmd[s].op = "find" /\ w = v
      BY <1>15, <2>1
    <3>3. \A y \in {0, 1} : Partner(y)' = Partner(y)
      BY <1>3 DEF Partner
    <3>4. route[s][x] = None /\ s # Partner(x)
      BY <1>1, <2>1, <3>1 DEF FindInv
    <3>5. /\ \A y \in {0, 1} : y # x => route'[s][y] = route[s][y]
          /\ v.ok => route'[s][x] = c
          /\ ~v.ok => route' = route
      BY <1>16, <3>1, <3>2
    <3>6. \A t \in Name, y \in {0, 1} : Has(t, y)' => Has(t, y) \/ (t = s /\ y = x /\ v.ok)
      <4>1. \A y \in {0, 1} : Has(s, y)' => Has(s, y) \/ (y = x /\ v.ok)
        BY <1>1, <3>5 DEF Has
      <4>2. QED
        BY <1>29, <4>1
    <3>7. Good(s)' <=> v.ok
      BY <1>9, <1>12, <1>25, <3>2 DEF Good
    <3>8. Good(c) <=> v.ok
      BY <1>3, <1>5, <1>6 DEF Good, Working
    <3>9. \A t \in Name : Good(t) => t = c
      BY <1>8 DEF Good, Busy
    <3>10. ASSUME NEW t \in Name, Has(t, x)' PROVE \A u \in Name : Busy(u)' => Good(u)'
      <4>1. v.ok
        <5>1. ASSUME ~v.ok PROVE FALSE
          <6>1. Has(t, x)
            BY <3>6, <3>10, <5>1
          <6>2. Busy(c)
            BY <1>3 DEF Busy
          <6>3. Good(c)
            BY <2>1, <3>1, <6>1, <6>2 DEF FindInv
          <6>4. QED
            BY <3>8, <5>1, <6>3
        <5>2. QED
          BY <5>1
      <4>2. QED
        BY <1>19, <3>7, <4>1
    <3>11. x = 0 => \A t \in Name : ~Has(t, 1)'
      BY <2>1, <3>1, <3>6 DEF FindInv
    <3>12. \A t \in Name : pc'[t] = "hear" => route'[t][x] = None
      <4>1. \A t \in Name : pc[t] = "hear" => route[t][x] = None
        BY <2>1, <3>1 DEF FindInv
      <4>2. QED
        BY <1>9, <1>16, <4>1
    <3>13. \A t \in Name : t = Partner(x)' => pc'[t] # "hear" /\ (pc'[t] = "ask" => ans'[t].ok)
      <4>1. \A t \in Name : t = Partner(x) => pc[t] # "hear" /\ (pc[t] = "ask" => ans[t].ok)
        BY <2>1, <3>1 DEF FindInv
      <4>2. QED
        BY <1>9, <1>12, <3>3, <3>4, <4>1
    <3>14. ASSUME NEW t \in Name, NEW y \in {0, 1}, Has(t, y)'
           PROVE  /\ t # Partner(y)'
                  /\ \/ t = Manager
                     \/ y = x /\ Good(t)'
                     \/ \E p \in Name : route'[p][y] = t /\ pc'[p] # "reset"
      <4>1. CASE t = s /\ y = x /\ v.ok
        BY <3>3, <3>4, <3>7, <4>1
      <4>2. CASE Has(t, y)
        <5>1. /\ t # Partner(y)
              /\ \/ t = Manager
                 \/ y = x /\ Good(t)
                 \/ \E p \in Name : route[p][y] = t /\ pc[p] # "reset"
          BY <2>1, <3>1, <4>2 DEF FindInv
        <5>2. CASE y = x /\ Good(t)
          <6>1. t = c /\ v.ok
            BY <3>8, <3>9, <5>2
          <6>2. route'[s][y] = t /\ pc'[s] # "reset"
            BY <1>9, <3>5, <5>2, <6>1
          <6>3. QED
            BY <3>3, <5>1, <6>2
        <5>3. CASE \E p \in Name : route[p][y] = t /\ pc[p] # "reset"
          <6>1. PICK p \in Name : route[p][y] = t /\ pc[p] # "reset"
            BY <5>3
          <6>2. route'[p][y] = route[p][y]
            <7>1. CASE p # s
              BY <1>16, <7>1
            <7>2. CASE p = s
              <8>1. y # x
                BY <3>4, <6>1, <7>2, NameAssumption
              <8>2. QED
                BY <3>5, <7>2, <8>1
            <7>3. QED
              BY <7>1, <7>2
          <6>3. pc'[p] # "reset"
            BY <1>9, <6>1
          <6>4. QED
            BY <3>3, <5>1, <6>1, <6>2, <6>3
        <5>4. QED
          BY <3>3, <5>1, <5>2, <5>3
      <4>3. QED
        BY <3>6, <3>14, <4>1, <4>2
    <3>15. QED
      BY <1>3, <3>1, <3>10, <3>11, <3>12, <3>13, <3>14 DEF FindInv
  <2>2. QED
    BY <1>3, <2>1 DEF FindInv
<1>33. StartInv'
  BY <1>3, <1>7 DEF StartInv
<1>34. QED
  BY <1>17, <1>21, <1>22, <1>23, <1>24, <1>26, <1>27, <1>28, <1>31, <1>32, <1>33

-------------------------------------------------------------------------------
(* The invariant and what follows from it *)

\* A program that has just started: the Manager alone, at its input.
LEMMA InitSInv == Init => SInv
<1> SUFFICES ASSUME Init PROVE SInv
  OBVIOUS
<1>1. PICK v \in Secret : secret = [s \in Name |-> IF s = Manager THEN v ELSE None]
  BY DEF Init
<1>2. /\ child = [s \in Name |-> <<>>] /\ route = [s \in Name |-> NoRoute]
      /\ pc = [s \in Name |-> IF s = Manager THEN "idle" ELSE "dead"]
      /\ cmd = [s \in Name |-> Nothing] /\ nth = [s \in Name |-> 1]
      /\ ans = [s \in Name |-> Answer(FALSE, 0)]
      /\ down = [s \in Name |-> <<>>] /\ up = [s \in Name |-> <<>>]
      /\ ends = NoEnds /\ data = NoData /\ heard = <<>> /\ Manager \in Name
  BY NameAssumption DEF Init
<1>3. /\ \A s \in Name : /\ child[s] = <<>> /\ down[s] = <<>> /\ up[s] = <<>> /\ cmd[s] = Nothing
                         /\ pc[s] \in {"idle", "dead"} /\ (s # Manager => pc[s] = "dead")
                         /\ pc[s] \notin Handling /\ pc[s] \notin Exchanging
                         /\ \A x \in {0, 1} : route[s][x] = None
      /\ pc[Manager] = "idle" /\ secret[Manager] \in Secret /\ Nothing.op = "none"
  BY <1>1, <1>2 DEF NoRoute, Handling, Exchanging, Nothing, Cmd
<1>4. TypeOK
  <2>1. Nothing \in Command_ /\ Answer(FALSE, 0) \in Answer_ /\ NoRoute \in [{0, 1} -> Name \cup {None}]
    BY <1>2 DEF Nothing, Cmd, Command_, Answer, Answer_, NoRoute
  <2>2. cmd \in [Name -> Command_] /\ ans \in [Name -> Answer_] /\ route \in [Name -> [{0, 1} -> Name \cup {None}]]
    BY <1>2, <2>1
  <2>3. /\ child \in [Name -> Seq(Name)] /\ down \in [Name -> Seq(Command_)] /\ up \in [Name -> Seq(Answer_)]
        /\ heard \in Seq(Name) /\ \A s \in Name : Len(down[s]) <= 1 /\ Len(up[s]) <= 1
    BY <1>2, EmptySeq
  <2>4. ends \in [{1, 2} -> SUBSET {"r", "w"}] /\ data \in [{1, 2} -> Seq(Secret)]
    BY <1>2 DEF NoEnds, NoData
  <2>5. /\ secret \in [Name -> Secret \cup {None}] /\ nth \in [Name -> Nat \ {0}]
        /\ pc \in [Name -> {"dead", "born", "idle", "fork", "ask", "hear", "tell", "open1", "open2",
                            "give", "take", "collect", "reset"}]
    BY <1>1, <1>2
  <2>6. QED
    BY <2>2, <2>3, <2>4, <2>5 DEF TypeOK
<1>5. \A c, p \in Name : ~IsChild(c, p)
  BY <1>3 DEF IsChild, ToSet
<1>6. TreeInv
  <2>1. IsInjective(<<>>)
    BY DEF IsInjective
  <2>2. ASSUME NEW T \in SUBSET Name, \A c \in T : \E p \in T : IsChild(c, p) PROVE T = {}
    BY <1>5, <2>2
  <2>3. QED
    BY <1>2, <1>3, <1>5, <2>1, <2>2 DEF TreeInv
<1>7. \A s \in Name : ~Active(s) /\ ~Busy(s) /\ ~Working(s)
  BY <1>3 DEF Active, Busy, Working
<1>8. LinkInv
  BY <1>2, <1>3, <1>7 DEF LinkInv
<1>9. TokenInv /\ OneBusy
  BY <1>3, <1>7 DEF TokenInv, OneBusy
<1>10. PhaseInv
  BY <1>2, <1>3 DEF PhaseInv
<1>11. SpawnInv
  BY <1>3 DEF SpawnInv
<1>12. DeathInv
  BY <1>3, <1>5 DEF DeathInv
<1>13. RouteInv /\ FindInv /\ StartInv
  BY <1>2, <1>3 DEF RouteInv, FindInv, StartInv, Has
<1>14. QED
  BY <1>4, <1>6, <1>8, <1>9, <1>10, <1>11, <1>12, <1>13 DEF SInv

\* A step that changes nothing keeps the invariant.
LEMMA StutterStep ==
    ASSUME SInv, UNCHANGED vars
    PROVE  SInv'
<1>1. UNCHANGED <<child, secret, route, pc, cmd, nth, ans, down, up, ends, data, heard>>
  BY DEF vars, globals, local, pipes, fifos, output
<1>2. TypeOK' <=> TypeOK
  BY <1>1 DEF TypeOK
<1>3. TreeInv' <=> TreeInv
  BY <1>1 DEF TreeInv, IsChild
<1>4. LinkInv' <=> LinkInv
  BY <1>1 DEF LinkInv, Active, Working, IsChild, Engaged, Current, Targets, Along
<1>5. (TokenInv' <=> TokenInv) /\ (OneBusy' <=> OneBusy)
  BY <1>1 DEF TokenInv, Working, OneBusy, Busy
<1>6. (PhaseInv' <=> PhaseInv) /\ (SpawnInv' <=> SpawnInv)
  BY <1>1 DEF PhaseInv, SameCommand, SpawnInv, Fresh, IsChild
<1>7. DeathInv' <=> DeathInv
  BY <1>1 DEF DeathInv, IsChild, Dying, Ends, Direct, Current
<1>8. (RouteInv' <=> RouteInv) /\ (FindInv' <=> FindInv)
  BY <1>1 DEF RouteInv, FindInv, IsChild, Has, Good, Busy, Partner
<1>9. StartInv' <=> StartInv
  BY <1>1 DEF StartInv, Has, Active, Working, Untold, TargetsFor, Along
<1>10. QED
  BY <1>2, <1>3, <1>4, <1>5, <1>6, <1>7, <1>8, <1>9 DEF SInv

\* The inductive invariant of the services: at every step of every command the
\* processes form a tree, each that has something to do has a parent waiting
\* for it, and the routes of an exchange are exactly those still to be used.
THEOREM ServiceInvariant == Spec => []SInv
<1>1. Init => SInv
  BY InitSInv
<1>2. SInv /\ [Next]_vars => SInv'
  <2> SUFFICES ASSUME SInv, [Next]_vars PROVE SInv'
    OBVIOUS
  <2>1. CASE Command
    BY <2>1, CommandStep
  <2>2. CASE manager
    BY <2>2, PrintStep, AdvanceStep, PrintExchangeStep DEF manager
  <2>3. CASE Eof
    BY <2>3, EofStep
  <2>4. CASE Ended \/ UNCHANGED vars
    BY <2>4, StutterStep DEF Ended
  <2>5. ASSUME NEW s \in Name, service(s) PROVE SInv'
    <3>1. CASE Receive(s)
      BY <3>1, ReceiveStep
    <3>2. CASE Fork(s)
      BY <3>2, ForkStep
    <3>3. CASE Born(s)
      BY <3>3, BornStep
    <3>4. CASE Ask(s)
      BY <3>4, AskStep
    <3>5. CASE Hear(s)
      BY <3>5, HearStep
    <3>6. CASE Reply(s)
      BY <3>6, ReplyStep
    <3>7. CASE Tell(s)
      BY <3>7, TellStep
    <3>8. CASE Told(s) \/ exchanges(s)
      BY <3>8, ExchangesStep
    <3>9. CASE Collect(s)
      BY <3>9, CollectStep
    <3>10. CASE Done(s)
      BY <3>10, DoneStep
    <3>11. CASE Reset(s)
      BY <3>11, ResetStep
    <3>12. CASE Orphan(s)
      BY <3>12, OrphanStep
    <3>13. QED
      BY <2>5, <3>1, <3>2, <3>3, <3>4, <3>5, <3>6, <3>7, <3>8, <3>9, <3>10, <3>11, <3>12
         DEF service, start_exchange
  <2>6. QED
    BY <2>1, <2>2, <2>3, <2>4, <2>5 DEF Next
<1>3. QED
  BY <1>1, <1>2, PTL DEF Spec

\* Every variable keeps its type, and no pipe between a service and its parent
\* ever holds two messages, whatever the commands (service.c, main()).
THEOREM TypeCorrect == Spec => []TypeOK
<1>1. SInv => TypeOK
  BY DEF SInv
<1>2. QED
  BY <1>1, ServiceInvariant, PTL

\* Outside of an exchange one service at a time has something to do, for every
\* tree and every command: the loops over the children in main(), suicide(),
\* traverse() and finds() hear one child before they ask the next.
THEOREM OneAtATimeCorrect == Spec => []OneAtATime
<1>1. SInv => OneAtATime
  <2> SUFFICES ASSUME SInv, NEW s \in Name, NEW t \in Name, s # t, Busy(s), Busy(t)
               PROVE  \E p \in Name : pc[p] \in {"tell", "open1", "open2", "give", "take", "collect"}
    BY DEF OneAtATime
  <2>1. pc[Manager] \in Exchanging
    BY DEF SInv, OneBusy
  <2>2. QED
    BY <2>1, NameAssumption DEF Exchanging
<1>2. QED
  BY <1>1, ServiceInvariant, PTL

\* When the Manager reads its next command every pipe is empty and every other
\* service waits, so that no late message can be taken for an answer to it.
THEOREM QuietCorrect == Spec => []Quiet
<1>1. SInv => Quiet
  <2> SUFFICES ASSUME SInv, pc[Manager] = "idle", NEW s \in Name
               PROVE  down[s] = <<>> /\ up[s] = <<>> /\ pc[s] \in {"idle", "dead", "reset"}
    BY DEF Quiet
  <2>1. \A c \in Name : ~Engaged(Manager, c)
    BY DEF Engaged
  <2>2. QED
    BY <2>1, Calm
<1>2. QED
  BY <1>1, ServiceInvariant, PTL
================================================================================
