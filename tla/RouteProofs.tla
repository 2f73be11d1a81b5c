------------------------------ MODULE RouteProofs ------------------------------
(***************************************************************************)
(* Proofs about the way an exchange takes through the tree of ServiceTree, *)
(* for any number of services: finds() finds the partners wherever they    *)
(* are, and the routes that it leaves behind lead to them.                 *)
(***************************************************************************)
EXTENDS ServiceTreeProofs

\* The services below s, itself included; partner x is below a child of s.
Under(s) == S!Below(child, s)
Above(s, x) == \E c \in Name : IsChild(c, s) /\ Partner(x) \in Under(c)

\* Every service that runs has a parent.
ParentInv == pc[Manager] # "dead" => \A s \in Name \ {Manager} : pc[s] # "dead" => \E p \in Name : IsChild(s, p)

\* A service that ends, or that kills a child, waits for the children's end.
EndInv == \A p \in Name :
    /\ pc[p] \in {"ask", "hear"} /\ cmd[p].op = "suicide" =>
          ~ans[p].ok /\ \A k \in DOMAIN child[p] : k < nth[p] => pc[child[p][k]] = "dead"
    /\ pc[p] = "hear" /\ Ends(p) =>
          /\ pc[Current(p)] \in Handling => cmd[Current(p)].op = "suicide"
          /\ down[Current(p)] # <<>> => Head(down[Current(p)]).op = "suicide"
          /\ up[Current(p)] # <<>> => pc[Current(p)] = "dead"

\* The commands of an exchange.
ExchangeOps == {"traverse", "find", "start"}
\* During an exchange nobody handles another command, and its partners run.
PartnerInv == cmd[Manager].op \in ExchangeOps =>
    /\ \A s \in Name : /\ pc[s] \in Handling => cmd[s].op \in ExchangeOps
                       /\ down[s] # <<>> => Head(down[s]).op \in ExchangeOps
    /\ \A x \in {0, 1} : pc[Partner(x)] # "dead"
    /\ Partner(0) # Partner(1)

\* A route leads towards its partner.
LeadInv == cmd[Manager].op \in {"find", "start"} =>
    \A s \in Name, x \in {0, 1} : Has(s, x) => Partner(x) \in Under(route[s][x])

\* finds() has looked everywhere before it gives up.
SearchInv == cmd[Manager].op = "find" => LET x == cmd[Manager].n IN
    /\ \A s \in Name : Good(s) => /\ Partner(x) \in Under(s)
                                  /\ \A t \in Under(s) : Above(t, x) => Has(t, x)
    /\ \A s \in Name : pc[s] \in {"ask", "hear"} /\ ~Good(s) =>
          \A k \in DOMAIN child[s] : k < nth[s] => Partner(x) \notin Under(child[s][k])
    /\ \A s \in Name : up[s] # <<>> /\ ~Head(up[s]).ok => Partner(x) \notin Under(s)
    /\ x = 1 => \A s \in Name : Above(s, 0) => Has(s, 0)

\* A service that passes the exchange on, or will, has all its routes; the others
\* have been told by their parents.
Whole(s) == \A x \in {0, 1} : Above(s, x) => Has(s, x)
Past(s)  == \A p \in Name : IsChild(s, p) => ~Whole(p) \/ (pc[p] \in Exchanging /\ ~Untold(p, s))
WholeInv == cmd[Manager].op = "start" =>
    \A s \in Name : ~Whole(s) => s # Manager /\ pc[s] \notin Exchanging /\ down[s] = <<>> /\ Past(s)

RInv == /\ ParentInv /\ EndInv /\ PartnerInv /\ LeadInv /\ SearchInv /\ WholeInv

-------------------------------------------------------------------------------
(* The services below a service, in any tree *)

\* TreeInv for a tree t.
IsTree(t) == /\ t \in [Name -> Seq(Name)]
             /\ \A p \in Name : IsInjective(t[p]) /\ Manager \notin ToSet(t[p])
             /\ \A c, p, q \in Name : c \in ToSet(t[p]) /\ c \in ToSet(t[q]) => p = q
             /\ \A T \in SUBSET Name : (\A c \in T : \E p \in T : c \in ToSet(t[p])) => T = {}

\* The children table is a tree.
LEMMA ChildIsTree ==
    ASSUME SInv
    PROVE  IsTree(child)
BY DEF SInv, TypeOK, TreeInv, IsTree, IsChild

\* Below(t, s) is the least set that holds s and is closed under children.
LEMMA BelowLeast ==
    ASSUME NEW t, NEW s \in Name
    PROVE  /\ S!Below(t, s) \subseteq Name /\ s \in S!Below(t, s)
           /\ \A y \in S!Below(t, s) : \A c \in Name : c \in ToSet(t[y]) => c \in S!Below(t, s)
           /\ \A X \in SUBSET Name :
                 s \in X /\ (\A y \in X : ToSet(t[y]) \subseteq X) => S!Below(t, s) \subseteq X
<1>1. S!Below(t, s) \subseteq Name /\ s \in S!Below(t, s)
  BY DEF S!Below, S!ToSet, ToSet
<1>2. ASSUME NEW y \in S!Below(t, s), NEW c \in Name, c \in ToSet(t[y])
      PROVE  c \in S!Below(t, s)
  <2>1. ASSUME NEW X \in SUBSET Name, s \in X, \A z \in X : ToSet(t[z]) \subseteq X
        PROVE  c \in X
    <3>1. y \in X
      BY <2>1, <1>2 DEF S!Below, S!ToSet, ToSet
    <3>2. QED
      BY <3>1, <2>1, <1>2
  <2>2. QED
    BY <2>1 DEF S!Below, S!ToSet, ToSet
<1>3. \A X \in SUBSET Name :
         s \in X /\ (\A y \in X : ToSet(t[y]) \subseteq X) => S!Below(t, s) \subseteq X
  BY DEF S!Below, S!ToSet, ToSet
<1>4. QED
  BY <1>1, <1>2, <1>3

\* What is below a descendant is below.
LEMMA BelowTransitive ==
    ASSUME NEW t \in [Name -> Seq(Name)], NEW s \in Name, NEW y \in S!Below(t, s)
    PROVE  S!Below(t, y) \subseteq S!Below(t, s)
<1>0. y \in Name
  BY BelowLeast
<1>1. \A z \in S!Below(t, s) : ToSet(t[z]) \subseteq S!Below(t, s)
  <2>1. \A z \in Name : ToSet(t[z]) \subseteq Name
    BY DEF ToSet
  <2>2. QED
    BY <2>1, BelowLeast
<1>2. S!Below(t, s) \in SUBSET Name
  BY BelowLeast
<1>3. QED
  BY <1>0, <1>1, <1>2, BelowLeast

\* Whoever is below s is s, or below a child of s.
LEMMA BelowDown ==
    ASSUME NEW t \in [Name -> Seq(Name)], NEW s \in Name
    PROVE  /\ \A c \in ToSet(t[s]) : c \in Name /\ S!Below(t, c) \subseteq S!Below(t, s)
           /\ \A y \in S!Below(t, s) : y # s => \E c \in ToSet(t[s]) : y \in S!Below(t, c)
<1>1. ASSUME NEW c \in ToSet(t[s]) PROVE c \in Name /\ S!Below(t, c) \subseteq S!Below(t, s)
  <2>1. c \in Name
    BY DEF ToSet
  <2>2. c \in S!Below(t, s)
    BY <2>1, BelowLeast
  <2>3. QED
    BY <2>1, <2>2, BelowTransitive
<1> DEFINE X == {s} \cup {y \in Name : \E c \in ToSet(t[s]) : y \in S!Below(t, c)}
<1>2. ASSUME NEW y \in X PROVE ToSet(t[y]) \subseteq X
  <2>0. ToSet(t[y]) \subseteq Name
    BY DEF ToSet
  <2>1. CASE y = s
    <3>1. \A c \in ToSet(t[s]) : c \in S!Below(t, c)
      BY <1>1, BelowLeast
    <3>2. QED
      BY <2>0, <2>1, <3>1
  <2>2. CASE y # s
    <3>1. PICK c \in ToSet(t[s]) : y \in S!Below(t, c)
      BY <2>2
    <3>2. ToSet(t[y]) \subseteq S!Below(t, c)
      BY <2>0, <3>1, <1>1, BelowLeast
    <3>3. QED
      BY <2>0, <3>1, <3>2
  <2>3. QED
    BY <2>1, <2>2
<1>3. X \in SUBSET Name /\ s \in X
  OBVIOUS
<1>4. S!Below(t, s) \subseteq X
  BY <1>2, <1>3, BelowLeast
<1>5. QED
  BY <1>1, <1>4

\* Whoever is below s is s, or has a parent below s.
LEMMA BelowUp ==
    ASSUME NEW t \in [Name -> Seq(Name)], NEW s \in Name, NEW y \in S!Below(t, s), y # s
    PROVE  \E p \in S!Below(t, s) : y \in ToSet(t[p])
<1> DEFINE X == {z \in S!Below(t, s) : z = s \/ \E p \in S!Below(t, s) : z \in ToSet(t[p])}
<1>1. X \in SUBSET Name /\ s \in X
  BY BelowLeast
<1>2. ASSUME NEW z \in X PROVE ToSet(t[z]) \subseteq X
  <2>1. ToSet(t[z]) \subseteq Name
    BY <1>1 DEF ToSet
  <2>2. QED
    BY <2>1, BelowLeast
<1>3. QED
  BY <1>1, <1>2, BelowLeast

\* Nobody is below its own child, and no two children share a descendant.
LEMMA BelowApart ==
    ASSUME NEW t, IsTree(t), NEW s \in Name, NEW c \in ToSet(t[s])
    PROVE  /\ s \notin S!Below(t, c)
           /\ \A d \in ToSet(t[s]) : \A y \in S!Below(t, c) : y \in S!Below(t, d) => c = d
<1> USE DEF IsTree
<1>0. ToSet(t[s]) \subseteq Name
  BY DEF ToSet
<1>1. ASSUME NEW d \in ToSet(t[s]), s \in S!Below(t, d) PROVE FALSE
  <2> DEFINE T == {z \in S!Below(t, d) : s \in S!Below(t, z)}
  <2>0. d \in Name
    BY <1>0
  <2>1. T \in SUBSET Name /\ s \in T
    BY <1>1, <2>0, BelowLeast
  <2>2. ASSUME NEW z \in T PROVE \E p \in T : z \in ToSet(t[p])
    <3>1. CASE z = d
      BY <3>1, <2>1
    <3>2. CASE z # d
      <4>1. PICK p \in S!Below(t, d) : z \in ToSet(t[p])
        BY <3>2, <2>0, BelowUp
      <4>2. p \in Name
        BY <2>0, BelowLeast
      <4>3. s \in S!Below(t, p)
        BY <4>1, <4>2, BelowDown
      <4>4. QED
        BY <4>1, <4>3
    <3>3. QED
      BY <3>1, <3>2
  <2>3. QED
    BY <2>1, <2>2
<1>2. ASSUME NEW d \in ToSet(t[s]), NEW y \in S!Below(t, c), y \in S!Below(t, d), c # d PROVE FALSE
  <2> DEFINE T == S!Below(t, c) \cap S!Below(t, d)
  <2>0. c \in Name /\ d \in Name
    BY <1>0
  <2>1. T \in SUBSET Name /\ y \in T
    BY <1>2, <2>0, BelowLeast
  <2>2. ASSUME NEW z \in T PROVE \E p \in T : z \in ToSet(t[p])
    <3>0. z \in Name
      BY <2>1
    <3>1. z # c
      <4>1. SUFFICES ASSUME z = c PROVE FALSE
        OBVIOUS
      <4>2. PICK p \in S!Below(t, d) : c \in ToSet(t[p])
        BY <4>1, <1>2, <2>0, BelowUp
      <4>3. p = s
        BY <4>2, <2>0, BelowLeast
      <4>4. QED
        BY <4>2, <4>3, <1>1
    <3>2. z # d
      <4>1. SUFFICES ASSUME z = d PROVE FALSE
        OBVIOUS
      <4>2. PICK p \in S!Below(t, c) : d \in ToSet(t[p])
        BY <4>1, <1>2, <2>0, BelowUp
      <4>3. p = s
        BY <4>2, <2>0, BelowLeast
      <4>4. QED
        BY <4>2, <4>3, <1>1
    <3>3. PICK p \in S!Below(t, c) : z \in ToSet(t[p])
      BY <3>1, <2>0, BelowUp
    <3>4. PICK q \in S!Below(t, d) : z \in ToSet(t[q])
      BY <3>2, <2>0, BelowUp
    <3>5. p \in Name /\ q \in Name
      BY <2>0, BelowLeast
    <3>6. p = q
      BY <3>0, <3>3, <3>4, <3>5
    <3>7. QED
      BY <3>3, <3>6
  <2>3. QED
    BY <2>1, <2>2
<1>3. QED
  BY <1>1, <1>2

-------------------------------------------------------------------------------
(* Nobody is lost *)

\* A dead service has no children while the Manager runs.
LEMMA ParentAlive ==
    ASSUME SInv, pc[Manager] # "dead", NEW c \in Name, NEW p \in Name, IsChild(c, p)
    PROVE  pc[p] # "dead"
<1>1. child[p] # <<>>
  BY DEF IsChild, ToSet
<1>2. QED
  BY <1>1 DEF SInv, DeathInv

\* All services that run are below the Manager.
LEMMA AliveUnder ==
    ASSUME SInv, ParentInv, pc[Manager] # "dead", NEW s \in Name, pc[s] # "dead"
    PROVE  s \in Under(Manager)
<1> DEFINE T == {c \in Name : pc[c] # "dead" /\ c \notin Under(Manager)}
<1>0. Manager \in Name /\ IsTree(child) /\ child \in [Name -> Seq(Name)]
  BY NameAssumption, ChildIsTree DEF IsTree
<1>1. ASSUME NEW c \in T PROVE \E p \in T : c \in ToSet(child[p])
  <2>1. c # Manager
    BY <1>0, BelowLeast DEF Under
  <2>2. PICK p \in Name : IsChild(c, p)
    BY <2>1 DEF ParentInv
  <2>3. pc[p] # "dead"
    BY <2>2, ParentAlive
  <2>4. p \notin Under(Manager)
    BY <1>0, <2>2, BelowLeast DEF Under, IsChild
  <2>5. QED
    BY <2>2, <2>3, <2>4 DEF IsChild
<1>2. T = {}
  BY <1>0, <1>1 DEF IsTree
<1>3. QED
  BY <1>2

\* Steps that leave the tables alone.
LEMMA ParentFrame ==
    ASSUME ParentInv, child' = child, \A s \in Name : pc'[s] # "dead" => pc[s] # "dead"
    PROVE  ParentInv'
BY NameAssumption DEF ParentInv, IsChild

LEMMA ParentFork ==
    ASSUME SInv, ParentInv, NEW s \in Name, Fork(s)
    PROVE  ParentInv'
<1> DEFINE c == cmd[s].b
<1>1. /\ c \in Name /\ c # Manager /\ (\A p \in Name : ~IsChild(c, p)) /\ s # c
  <2>1. cmd[s] \in Command_ /\ Fresh(cmd[s]) /\ cmd[s].op = "spawn"
    BY DEF SInv, TypeOK, SpawnInv, PhaseInv, Fork
  <2>2. c \in Name /\ c # Manager /\ (\A p \in Name : ~IsChild(c, p))
    BY <2>1 DEF Fresh, Command_
  <2>3. s # c
    <3>1. SUFFICES ASSUME s # Manager PROVE s # c
      BY <2>2
    <3>2. Active(s)
      BY DEF Active, Working, Fork
    <3>3. QED
      BY <3>1, <3>2, <2>2 DEF SInv, LinkInv
  <2>4. QED
    BY <2>2, <2>3
<1>2. SUFFICES ASSUME pc'[Manager] # "dead", NEW x \in Name \ {Manager}, pc'[x] # "dead"
               PROVE  \E p \in Name : IsChild(x, p)'
  BY DEF ParentInv
<1>3. /\ pc' = [pc EXCEPT ![s] = "hear", ![c] = "born"] /\ pc[s] = "fork"
      /\ child' = [child EXCEPT ![s] = Append(@, c), ![c] = <<>>]
  BY DEF Fork
<1>4. pc \in [Name -> {"dead", "born", "idle", "fork", "ask", "hear", "tell", "open1", "open2",
                       "give", "take", "collect", "reset"}] /\ child \in [Name -> Seq(Name)]
  BY DEF SInv, TypeOK
<1>5. pc[Manager] # "dead"
  BY <1>1, <1>2, <1>3, <1>4, NameAssumption
<1>6. child[c] = <<>>
  <2>1. pc[c] = "dead"
    BY <1>1, <1>5 DEF ParentInv
  <2>2. QED
    BY <1>1, <1>5, <2>1 DEF SInv, DeathInv
<1>7. /\ child'[s] = Append(child[s], c) /\ child'[c] = <<>>
      /\ \A p \in Name \ {s, c} : child'[p] = child[p]
  BY <1>1, <1>3, <1>4
<1>8. ToSet(Append(child[s], c)) = ToSet(child[s]) \cup {c}
  BY <1>1, <1>4, AppendFacts DEF SInv, TreeInv, IsChild
<1>9. CASE x = c
  BY <1>7, <1>8, <1>9 DEF IsChild
<1>10. CASE x # c
  <2>1. pc[x] # "dead"
    BY <1>2, <1>3, <1>4, <1>10, <1>1
  <2>2. PICK p \in Name : IsChild(x, p)
    BY <1>2, <1>5, <2>1 DEF ParentInv
  <2>3. p # c
    BY <2>2, <1>6 DEF IsChild, ToSet
  <2>4. QED
    BY <2>2, <2>3, <1>7, <1>8 DEF IsChild
<1>11. QED
  BY <1>9, <1>10

LEMMA ParentHear ==
    ASSUME SInv, ParentInv, EndInv, NEW s \in Name, Hear(s)
    PROVE  ParentInv'
<1>1. pc' = [pc EXCEPT ![s] = "ask"] /\ pc[s] = "hear"
  BY DEF Hear, Goto
<1>2. \A x \in Name : pc'[x] # "dead" => pc[x] # "dead"
  BY <1>1 DEF SInv, TypeOK
<1>3. CASE ~Direct(s)
  BY <1>2, <1>3, ParentFrame DEF Hear
<1>4. CASE Direct(s)
  <2>1. nth[s] \in 1 .. Len(child[s]) /\ child[s] \in Seq(Name) /\ IsInjective(child[s])
    BY <1>1 DEF SInv, LinkInv, TypeOK, TreeInv
  <2>2. child' = [child EXCEPT ![s] = RemoveAt(@, nth[s])]
    BY <1>4 DEF Hear
  <2>3. pc[Current(s)] = "dead"
    BY <1>1, <1>4 DEF EndInv, Ends, Hear
  <2>4. /\ ToSet(child'[s]) = ToSet(child[s]) \ {Current(s)}
        /\ \A p \in Name \ {s} : child'[p] = child[p]
    BY <2>1, <2>2, RemoveAtFacts DEF SInv, TypeOK, Current
  <2>5. QED
    BY <1>2, <2>3, <2>4, NameAssumption DEF ParentInv, IsChild
<1>5. QED
  BY <1>3, <1>4

LEMMA ParentReply ==
    ASSUME SInv, ParentInv, EndInv, NEW s \in Name, Reply(s)
    PROVE  ParentInv'
<1>1. /\ pc[s] = "ask" /\ Over(s)
      /\ IF cmd[s].op = "suicide" THEN Finish(s, "dead") /\ Forget(s)
         ELSE Finish(s, "idle") /\ UNCHANGED <<child, secret>>
  BY DEF Reply
<1>2. CASE cmd[s].op # "suicide"
  <2>1. pc' = [pc EXCEPT ![s] = "idle"] /\ child' = child
    BY <1>1, <1>2 DEF Finish, Goto
  <2>2. QED
    BY <1>1, <2>1, ParentFrame DEF SInv, TypeOK
<1>3. CASE cmd[s].op = "suicide"
  <2>1. pc' = [pc EXCEPT ![s] = "dead"] /\ child' = [child EXCEPT ![s] = <<>>]
    BY <1>1, <1>3 DEF Finish, Goto, Forget
  <2>2. \A k \in DOMAIN child[s] : pc[child[s][k]] = "dead"
    <3>1. ~ans[s].ok
      BY <1>1, <1>3 DEF EndInv
    <3>2. nth[s] > Len(child[s]) /\ nth[s] \in Nat /\ child[s] \in Seq(Name)
      BY <1>1, <3>1 DEF Over, SInv, TypeOK
    <3>3. \A k \in DOMAIN child[s] : k < nth[s]
      BY <3>2
    <3>4. QED
      BY <1>1, <1>3, <3>3 DEF EndInv
  <2>3. \A c \in Name : IsChild(c, s) => pc[c] = "dead"
    BY <2>2 DEF IsChild, ToSet
  <2>4. \A x \in Name : pc'[x] # "dead" => pc[x] # "dead"
    BY <2>1 DEF SInv, TypeOK
  <2>5. \A p \in Name \ {s} : child'[p] = child[p]
    BY <2>1 DEF SInv, TypeOK
  <2>6. QED
    BY <2>3, <2>4, <2>5, NameAssumption DEF ParentInv, IsChild
<1>4. QED
  BY <1>2, <1>3

-------------------------------------------------------------------------------
(* What a step can touch *)

\* Service s runs, or the Manager reads or prints: any step but fork().
Step(s) == \/ service(s) /\ ~Fork(s)
           \/ s = Manager /\ (Command \/ manager \/ Eof)

\* A service changes its own memory, its pipes and its children's, no others.
LEMMA Local ==
    ASSUME SInv, NEW s \in Name, Step(s)
    PROVE  /\ \A t \in Name \ {s} : /\ pc'[t] = pc[t] /\ cmd'[t] = cmd[t] /\ nth'[t] = nth[t] /\ ans'[t] = ans[t]
                                    /\ child'[t] = child[t] /\ route'[t] = route[t]
           /\ \A t \in Name \ {s} : ~IsChild(t, s) => down'[t] = down[t] /\ up'[t] = up[t]
<1> USE DEF SInv, TypeOK
<1>1. ASSUME NEW f, f \in {pc, cmd, nth, ans, child, route, secret}, NEW v, NEW t \in Name \ {s}
      PROVE  [f EXCEPT ![s] = v][t] = f[t]
  BY <1>1
<1>2. \A c : IsChild(c, s) => \A t \in Name : ~IsChild(t, s) =>
         /\ \A v : [down EXCEPT ![c] = v][t] = down[t]
         /\ \A v : [up EXCEPT ![c] = v][t] = up[t]
  OBVIOUS
<1>3. CASE Ask(s)
  <2>1. IsChild(Current(s), s)
    <3>1. nth[s] <= Len(child[s])
      <4>1. nth[s] \in Nat /\ child[s] \in Seq(Name) /\ ~(nth[s] > Len(child[s]))
        BY <1>3 DEF Ask, Over
      <4>2. QED
        BY <4>1
    <3>2. QED
      BY <3>1, CurrentChild
  <2>2. QED
    BY <1>3, <2>1, <1>2 DEF Ask, Goto, globals
<1>4. CASE Hear(s)
  <2>1. IsChild(Current(s), s)
    BY <1>4, CurrentChild DEF Hear, LinkInv
  <2>2. \A t \in Name \ {s} : child'[t] = child[t] /\ route'[t] = route[t]
    BY <1>4 DEF Hear
  <2>3. QED
    BY <1>4, <2>1, <2>2, <1>2 DEF Hear, Goto
<1>5. CASE Tell(s)
  <2>1. nth[s] \in DOMAIN Targets(s)
    BY <1>5, TargetsFacts DEF Tell
  <2>2. IsChild(Targets(s)[nth[s]], s)
    BY <2>1, TargetsFacts
  <2>3. QED
    BY <1>5, <2>2, <1>2 DEF Tell, globals
<1>6. CASE Collect(s)
  <2>1. nth[s] \in DOMAIN Targets(s)
    BY <1>6, TargetsFacts DEF Collect
  <2>2. IsChild(Targets(s)[nth[s]], s)
    BY <2>1, TargetsFacts
  <2>3. QED
    BY <1>6, <2>2, <1>2 DEF Collect, globals
<1>7. CASE Receive(s)
  BY <1>7 DEF Receive, Begin, Goto, globals
<1>8. CASE Born(s) \/ Orphan(s)
  BY <1>8 DEF Born, Orphan, Goto, globals, pipes
<1>9. CASE Reply(s)
  <2>1. /\ \/ Finish(s, "dead") /\ Forget(s)
           \/ Finish(s, "idle") /\ UNCHANGED <<child, secret>>
        /\ up' = [up EXCEPT ![s] = Append(@, ans[s])] /\ UNCHANGED <<route, down>>
    BY <1>9 DEF Reply
  <2>2. QED
    <3>1. \A t \in Name \ {s} : pc'[t] = pc[t] /\ cmd'[t] = cmd[t] /\ nth'[t] = nth[t] /\ ans'[t] = ans[t]
      BY <2>1, FinishFacts
    <3>2. \A t \in Name \ {s} : child'[t] = child[t] /\ up'[t] = up[t]
      BY <2>1 DEF Forget
    <3>3. QED
      BY <2>1, <3>1, <3>2
<1>10. CASE Told(s) \/ exchanges(s)
  BY <1>10 DEF Told, exchanges, Open1, Open2, Give, TakeFirst, TakeSecond, Goto, globals, pipes
<1>11. CASE Done(s) \/ Reset(s)
  <2>1. CASE Done(s)
    <3>1. /\ pc' = [pc EXCEPT ![s] = "reset"] /\ cmd' = [cmd EXCEPT ![s] = Nothing]
          /\ nth' = [nth EXCEPT ![s] = 1] /\ ans' = [ans EXCEPT ![s] = Answer(FALSE, 0)]
          /\ up' = [up EXCEPT ![s] = Append(@, Answer(TRUE, 0))] /\ UNCHANGED <<child, route, down>>
      BY <2>1 DEF Done, Finish, Goto, globals
    <3>2. QED
      BY <3>1
  <2>2. CASE Reset(s)
    BY <2>2 DEF Reset, Goto, pipes
  <2>3. QED
    BY <1>11, <2>1, <2>2
<1>12. CASE s = Manager /\ Command
  <2>1. PICK m \in Input : Begin(Manager, m)
    BY <1>12 DEF Command
  <2>2. QED
    BY <1>12, <2>1 DEF Command, Begin, Goto, globals, pipes
<1>13. CASE s = Manager /\ (PrintSpawn \/ PrintKill)
  <2>1. /\ Finish(Manager, "idle") \/ Finish(Manager, "dead")
        /\ Forget(Manager) \/ child' = child
        /\ UNCHANGED <<route, pipes>>
    BY <1>13 DEF PrintSpawn, PrintKill, globals
  <2>2. QED
    <3>1. \A t \in Name \ {s} : pc'[t] = pc[t] /\ cmd'[t] = cmd[t] /\ nth'[t] = nth[t] /\ ans'[t] = ans[t]
      BY <1>13, <2>1, FinishFacts
    <3>2. \A t \in Name \ {s} : child'[t] = child[t]
      BY <1>13, <2>1 DEF Forget
    <3>3. QED
      BY <2>1, <3>1, <3>2 DEF pipes
<1>14. CASE s = Manager /\ Advance
  BY <1>14 DEF Advance, Begin, Goto, globals, pipes
<1>15. CASE s = Manager /\ PrintExchange
  BY <1>15 DEF PrintExchange, Finish, Goto, pipes
<1>16. CASE s = Manager /\ Eof
  BY <1>16 DEF Eof, Goto, globals, pipes
<1>17. QED
  BY <1>3, <1>4, <1>5, <1>6, <1>7, <1>8, <1>9, <1>10, <1>11, <1>12, <1>13, <1>14, <1>15, <1>16
     DEF Step, service, manager, start_exchange

\* The parent of the acting service's pipes is the only one it shares them with.
LEMMA LocalPipes ==
    ASSUME SInv, NEW s \in Name, Step(s), NEW p \in Name, NEW c \in Name, IsChild(c, p), p # s, c # s
    PROVE  down'[c] = down[c] /\ up'[c] = up[c]
<1>1. ~IsChild(c, s)
  BY DEF SInv, TreeInv
<1>2. QED
  BY <1>1, Local

LEMMA DeadRest ==
    ASSUME SInv, NEW s \in Name, Step(s)
    PROVE  pc[s] # "dead"
BY DEF Step, service, manager, start_exchange, exchanges, Command, Eof, PrintSpawn, PrintKill, Advance,
       PrintExchange, Receive, Fork, Born, Ask, Hear, Reply, Orphan, Tell, Told, Open1, Open2, Give,
       TakeFirst, TakeSecond, Collect, Done, Reset

\* How a service gets into the loop over its children.
LEMMA Asking ==
    ASSUME SInv, NEW s \in Name, Step(s), pc'[s] \in {"ask", "hear"}
    PROVE  Receive(s) \/ Ask(s) \/ Hear(s) \/ (s = Manager /\ (Command \/ Advance))
<1>0. pc \in [Name -> {"dead", "born", "idle", "fork", "ask", "hear", "tell", "open1", "open2",
                       "give", "take", "collect", "reset"}] /\ Manager \in Name
  BY NameAssumption DEF SInv, TypeOK
<1>1. ~(Born(s) \/ Orphan(s) \/ Tell(s) \/ Told(s) \/ Collect(s) \/ Done(s) \/ Reset(s))
  BY <1>0 DEF Born, Orphan, Tell, Told, Collect, Done, Reset, Finish, Goto
<1>2. ~Reply(s)
  <2>1. Reply(s) => Finish(s, "dead") \/ Finish(s, "idle")
    BY DEF Reply
  <2>2. QED
    BY <1>0, <2>1 DEF Finish, Goto
<1>3. ~exchanges(s)
  BY <1>0 DEF exchanges, Open1, Open2, Give, TakeFirst, TakeSecond, Goto
<1>4. s = Manager => ~(PrintSpawn \/ PrintKill)
  <2>1. PrintSpawn \/ PrintKill => Finish(Manager, "idle") \/ Finish(Manager, "dead")
    BY DEF PrintSpawn, PrintKill
  <2>2. QED
    BY <1>0, <2>1 DEF Finish, Goto
<1>5. s = Manager => ~(PrintExchange \/ Eof)
  BY <1>0 DEF PrintExchange, Eof, Finish, Goto
<1>6. QED
  BY <1>1, <1>2, <1>3, <1>4, <1>5 DEF Step, service, manager, start_exchange

\* What fork() does.
LEMMA ForkFacts ==
    ASSUME SInv, NEW s \in Name, Fork(s), NEW c, c = cmd[s].b
    PROVE  /\ c \in Name /\ c # Manager /\ c # s /\ (\A p \in Name : ~IsChild(c, p)) /\ ~Active(c)
           /\ pc[s] = "fork" /\ cmd[s].op = "spawn" /\ cmd[s] = cmd[Manager]
           /\ pc'[s] = "hear" /\ pc'[c] = "born" /\ nth'[s] = Len(child[s]) + 1
           /\ child'[s] = Append(child[s], c) /\ ToSet(child'[s]) = ToSet(child[s]) \cup {c} /\ child'[c] = <<>>
           /\ UNCHANGED <<cmd, ans, ends, data, heard, report, saved>> /\ Current(s)' = c
           /\ secret'[c] \in Secret /\ \A t \in Name \ {c} : secret'[t] = secret[t] /\ route'[t] = route[t]
           /\ route'[c] = NoRoute /\ down' = down /\ up' = up
           /\ \A t \in Name \ {s, c} : pc'[t] = pc[t] /\ nth'[t] = nth[t] /\ child'[t] = child[t]
<1>1. cmd[s] \in Command_ /\ Fresh(cmd[s]) /\ cmd[s].op = "spawn" /\ pc[s] = "fork" /\ cmd[s] = cmd[Manager]
  BY DEF SInv, TypeOK, SpawnInv, PhaseInv, Fork, SameCommand, Uniform, Handling
<1>2. c \in Name /\ c # Manager /\ (\A p \in Name : ~IsChild(c, p))
  BY <1>1 DEF Fresh, Command_
<1>3. s # c
  <2>1. SUFFICES ASSUME s # Manager PROVE s # c
    BY <1>2
  <2>2. Active(s)
    BY <1>1 DEF Active, Working
  <2>3. QED
    BY <2>1, <2>2, <1>2 DEF SInv, LinkInv
<1>4. ~Active(c)
  BY <1>2 DEF SInv, LinkInv
<1>5. down[c] = <<>> /\ up[c] = <<>>
  BY <1>4 DEF Active
<1>6. /\ child' = [child EXCEPT ![s] = Append(@, c), ![c] = <<>>]
      /\ route' = [route EXCEPT ![c] = NoRoute]
      /\ down' = [down EXCEPT ![c] = <<>>] /\ up' = [up EXCEPT ![c] = <<>>]
      /\ pc' = [pc EXCEPT ![s] = "hear", ![c] = "born"]
      /\ nth' = [nth EXCEPT ![s] = Len(child[s]) + 1]
      /\ UNCHANGED <<cmd, ans, ends, data, heard, report, saved>>
  BY DEF Fork, fifos, output
<1>7. PICK v \in Secret : secret' = [secret EXCEPT ![c] = v]
  BY DEF Fork
<1>8. /\ child \in [Name -> Seq(Name)] /\ route \in [Name -> [{0, 1} -> Name \cup {None}]]
      /\ DOMAIN pc = Name /\ DOMAIN nth = Name /\ DOMAIN secret = Name
      /\ down \in [Name -> Seq(Command_)] /\ up \in [Name -> Seq(Answer_)]
  BY DEF SInv, TypeOK
<1>9. down' = down /\ up' = up
  BY <1>2, <1>5, <1>6, <1>8
<1>10. /\ Append(child[s], c)[Len(child[s]) + 1] = c
       /\ ToSet(Append(child[s], c)) = ToSet(child[s]) \cup {c}
  BY <1>2, <1>8, AppendFacts DEF SInv, TreeInv, IsChild
<1>11. child'[s] = Append(child[s], c) /\ nth'[s] = Len(child[s]) + 1
  BY <1>2, <1>3, <1>6, <1>8
<1>12. Current(s)' = c
  BY <1>10, <1>11 DEF Current
<1>13. /\ pc'[s] = "hear" /\ pc'[c] = "born" /\ child'[c] = <<>>
       /\ \A t \in Name \ {s, c} : pc'[t] = pc[t] /\ nth'[t] = nth[t] /\ child'[t] = child[t]
  BY <1>2, <1>3, <1>6, <1>8
<1>14. /\ secret'[c] \in Secret /\ \A t \in Name \ {c} : secret'[t] = secret[t] /\ route'[t] = route[t]
       /\ route'[c] = NoRoute
  BY <1>2, <1>6, <1>7, <1>8
<1>15. QED
  BY <1>1, <1>2, <1>3, <1>4, <1>6, <1>9, <1>10, <1>11, <1>12, <1>13, <1>14

-------------------------------------------------------------------------------
(* A service waits for the end of those that it ends *)

\* The two parts of EndInv for service p.
EndsAll(p) == pc[p] \in {"ask", "hear"} /\ cmd[p].op = "suicide" =>
    ~ans[p].ok /\ \A k \in DOMAIN child[p] : k < nth[p] => pc[child[p][k]] = "dead"
EndsOne(p) == pc[p] = "hear" /\ Ends(p) =>
    /\ pc[Current(p)] \in Handling => cmd[Current(p)].op = "suicide"
    /\ down[Current(p)] # <<>> => Head(down[Current(p)]).op = "suicide"
    /\ up[Current(p)] # <<>> => pc[Current(p)] = "dead"

LEMMA EndParts ==
    EndInv <=> \A p \in Name : EndsAll(p) /\ EndsOne(p)
BY DEF EndInv, EndsAll, EndsOne

\* A service begins with a command.
LEMMA BeginEnds ==
    ASSUME SInv, child' \in [Name -> Seq(Name)], NEW s \in Name, NEW m \in Command_, Begin(s, m)
    PROVE  EndsAll(s)' /\ EndsOne(s)'
<1>1. pc'[s] # "hear" /\ cmd'[s] = m /\ nth'[s] = 1 /\ ans'[s] = FirstAns(s, m)
  BY BeginFacts DEF SInv
<1>2. m.op = "suicide" => ~ans'[s].ok
  BY <1>1 DEF FirstAns, Answer
<1>3. \A k \in DOMAIN child'[s] : ~(k < nth'[s])
  BY <1>1
<1>4. QED
  BY <1>1, <1>2, <1>3 DEF EndsAll, EndsOne

\* The acting service itself.
LEMMA EndSelf ==
    ASSUME SInv, SInv', EndInv, NEW s \in Name, Step(s)
    PROVE  EndsAll(s)' /\ EndsOne(s)'
<1>0. EndsAll(s) /\ EndsOne(s) /\ child' \in [Name -> Seq(Name)] /\ child \in [Name -> Seq(Name)]
  BY EndParts DEF SInv, TypeOK
<1>1. SUFFICES ASSUME pc'[s] \in {"ask", "hear"} PROVE EndsAll(s)' /\ EndsOne(s)'
  BY DEF EndsAll, EndsOne
<1>2. CASE Receive(s)
  <2>1. Head(down[s]) \in Command_ /\ Begin(s, Head(down[s]))
    BY <1>2, TakeDown DEF Receive, SInv
  <2>2. QED
    BY <1>0, <2>1, BeginEnds
<1>3. CASE s = Manager /\ Command
  <2>1. PICK m \in Input : Begin(s, m)
    BY <1>3 DEF Command
  <2>2. m \in Command_
    BY NameAssumption DEF Input, Cmd, Command_, Alive
  <2>3. QED
    BY <1>0, <2>1, <2>2, BeginEnds
<1>4. CASE s = Manager /\ Advance
  <2>1. Begin(s, NextPhase(cmd[s]))
    BY <1>4 DEF Advance
  <2>2. NextPhase(cmd[s]) \in Command_
    <3>1. cmd[s] \in Command_
      BY DEF SInv, TypeOK
    <3>2. QED
      BY <3>1 DEF NextPhase, Cmd, Command_
  <2>3. QED
    BY <1>0, <2>1, <2>2, BeginEnds
<1>5. CASE Ask(s)
  <2>1. /\ pc[s] = "ask" /\ pc'[s] = "hear" /\ UNCHANGED <<child, cmd, nth, ans, up>> /\ ~Over(s)
        /\ \A t \in Name \ {s} : pc'[t] = pc[t]
    BY <1>5 DEF Ask, Goto, globals, SInv, TypeOK
  <2>2. nth[s] <= Len(child[s])
    <3>1. nth[s] \in Nat /\ child[s] \in Seq(Name) /\ ~(nth[s] > Len(child[s]))
      BY <2>1 DEF Over, SInv, TypeOK
    <3>2. QED
      BY <3>1
  <2> DEFINE c == Current(s)
  <2>3. c \in Name /\ IsChild(c, s) /\ c # s
    BY <2>2, CurrentChild
  <2>4. ~Engaged(s, c)
    BY <2>1 DEF Engaged
  <2>5. down[c] = <<>> /\ up[c] = <<>> /\ pc[c] \notin Handling
    BY <2>3, <2>4, ChildAtRest DEF Handling, Exchanging
  <2>6. PICK m \in Passed(s, c) : down' = [down EXCEPT ![c] = Append(@, m)]
    BY <1>5 DEF Ask
  <2>7. m \in Command_ /\ (Ends(s) => m.op = "suicide")
    <3>1. m \in Command_
      BY <2>1, <2>3, <2>6, PassedFacts DEF SInv, Handling
    <3>2. cmd[s] \in Command_
      BY DEF SInv, TypeOK
    <3>3. ASSUME cmd[s].op = "suicide" PROVE m.op = "suicide"
      <4>1. Passed(s, c) = {[cmd[s] EXCEPT !.a = x] : x \in {c, s}}
        BY <3>3 DEF Passed, SuicideMessages, Direct
      <4>2. PICK x \in {c, s} : m = [cmd[s] EXCEPT !.a = x]
        BY <2>6, <4>1
      <4>3. QED
        BY <3>2, <3>3, <4>2 DEF Command_
    <3>4. cmd[s].op # "suicide" /\ Direct(s) => m.op = "suicide"
      BY <2>6, <3>2 DEF Passed, Command_, Direct
    <3>5. QED
      BY <3>1, <3>3, <3>4 DEF Ends
  <2>8. down'[c] # <<>> /\ Head(down'[c]) = m
    BY <2>3, <2>5, <2>6, <2>7, PutDown DEF SInv
  <2>9. Current(s)' = c /\ Ends(s)' = Ends(s)
    BY <2>1 DEF Current, Ends, Direct
  <2>10. EndsOne(s)'
    BY <2>1, <2>3, <2>5, <2>7, <2>8, <2>9 DEF EndsOne
  <2>11. EndsAll(s)'
    <3>1. \A k \in DOMAIN child[s] : child[s][k] \in Name /\ IsChild(child[s][k], s)
      BY <1>0 DEF IsChild, ToSet
    <3>2. \A k \in DOMAIN child[s] : child[s][k] # s
      BY <3>1, NotOwnChild DEF SInv
    <3>3. QED
      BY <1>0, <2>1, <3>1, <3>2 DEF EndsAll
  <2>12. QED
    BY <2>10, <2>11
<1>6. CASE Hear(s)
  <2> DEFINE c == Current(s)
  <2>1. /\ pc[s] = "hear" /\ pc'[s] = "ask" /\ cmd' = cmd /\ nth'[s] = nth[s] + 1 /\ up[c] # <<>>
        /\ ans'[s] = Heard(s, Head(up[c])) /\ (~Direct(s) => child' = child)
        /\ \A t \in Name \ {s} : pc'[t] = pc[t]
    BY <1>6 DEF Hear, Goto, SInv, TypeOK
  <2>2. EndsOne(s)'
    BY <2>1 DEF EndsOne
  <2>3. ASSUME cmd[s].op = "suicide"
        PROVE  ~ans'[s].ok /\ \A k \in DOMAIN child'[s] : k < nth'[s] => pc'[child'[s][k]] = "dead"
    <3>1. child' = child /\ ~ans'[s].ok
      BY <2>1, <2>3 DEF Direct, Heard, Answer
    <3>2. pc[c] = "dead"
      BY <2>1, <2>3, <1>0 DEF EndsOne, Ends
    <3>3. \A k \in DOMAIN child[s] : k < nth[s] => pc[child[s][k]] = "dead"
      BY <1>0, <2>1, <2>3 DEF EndsAll
    <3>4. \A k \in DOMAIN child[s] : k < nth[s] + 1 => k < nth[s] \/ k = nth[s]
      <4>1. nth[s] \in Nat /\ child[s] \in Seq(Name)
        BY DEF SInv, TypeOK
      <4>2. QED
        BY <4>1
    <3>5. \A k \in DOMAIN child[s] : child[s][k] \in Name
      BY <1>0
    <3>6. QED
      BY <2>1, <3>1, <3>2, <3>3, <3>4, <3>5 DEF Current
  <2>4. QED
    BY <2>1, <2>2, <2>3 DEF EndsAll
<1>7. QED
  BY <1>1, <1>2, <1>3, <1>4, <1>5, <1>6, Asking

\* The parent of the acting service.
LEMMA EndParent ==
    ASSUME SInv, EndInv, NEW s \in Name, Step(s), NEW p \in Name, p # s, pc[p] = "hear", Ends(p), Current(p) = s
    PROVE  /\ pc'[s] \in Handling => cmd'[s].op = "suicide"
           /\ down'[s] # <<>> => Head(down'[s]).op = "suicide"
           /\ up'[s] # <<>> => pc'[s] = "dead"
<1>0. /\ pc[s] \in Handling => cmd[s].op = "suicide"
      /\ down[s] # <<>> => Head(down[s]).op = "suicide"
      /\ up[s] # <<>> => pc[s] = "dead"
  BY EndParts DEF EndsOne
<1>1. IsChild(s, p) /\ s # Manager
  BY CurrentChild DEF SInv, LinkInv
<1>2. pc[s] # "dead" /\ up[s] = <<>>
  BY <1>0, DeadRest
<1>3. pc[s] \notin Exchanging
  BY <1>0 DEF SInv, PhaseInv, Handling
<1>4. pc[s] # "born"
  <2>1. SUFFICES ASSUME pc[s] = "born" PROVE FALSE
    OBVIOUS
  <2>2. cmd[p] = cmd[Manager] /\ cmd[p].op = "spawn"
    BY <2>1 DEF SInv, PhaseInv, SameCommand, Handling, Uniform
  <2>3. QED
    BY <2>2 DEF Ends, Direct
<1>5. pc[s] \in Handling => cmd[s].op = "suicide" /\ ~Direct(s) /\ down[s] = <<>>
  <2>1. pc[s] \in Handling => Working(s)
    BY DEF Handling, Exchanging, Working
  <2>2. QED
    BY <1>0, <2>1 DEF Direct, SInv, TokenInv
<1>6. ~IsChild(s, s)
  BY NotOwnChild DEF SInv
<1>7. CASE Receive(s)
  <2>1. /\ Head(down[s]) \in Command_ /\ down'[s] = <<>> /\ Begin(s, Head(down[s]))
        /\ up' = up /\ down[s] # <<>>
    BY <1>7, TakeDown DEF Receive, SInv
  <2>2. cmd'[s] = Head(down[s])
    BY <2>1, BeginFacts DEF SInv
  <2>3. QED
    BY <1>0, <1>2, <2>1, <2>2
<1>8. CASE Ask(s)
  <2>1. Current(s) # s /\ cmd' = cmd /\ up' = up /\ pc[s] = "ask" /\ \E v : down' = [down EXCEPT ![Current(s)] = v]
    <3>1. nth[s] \in Nat /\ child[s] \in Seq(Name) /\ ~(nth[s] > Len(child[s]))
      BY <1>8 DEF Ask, Over, SInv, TypeOK
    <3>2. nth[s] <= Len(child[s])
      BY <3>1
    <3>3. QED
      BY <1>8, <3>2, CurrentChild DEF Ask
  <2>2. down'[s] = down[s]
    BY <2>1 DEF SInv, TypeOK
  <2>3. QED
    BY <1>2, <1>5, <2>1, <2>2 DEF Handling
<1>9. CASE Hear(s)
  <2>1. Current(s) # s /\ cmd' = cmd /\ down' = down /\ pc[s] = "hear" /\ \E v : up' = [up EXCEPT ![Current(s)] = v]
    BY <1>9, CurrentChild DEF Hear, SInv, LinkInv
  <2>2. up'[s] = up[s]
    BY <2>1 DEF SInv, TypeOK
  <2>3. QED
    BY <1>2, <1>5, <2>1, <2>2 DEF Handling
<1>10. CASE Reply(s)
  <2>1. pc[s] = "ask" /\ cmd[s].op = "suicide"
    BY <1>10, <1>5 DEF Reply, Handling
  <2>2. Finish(s, "dead") /\ down' = down
    BY <1>10, <2>1 DEF Reply
  <2>3. pc'[s] = "dead"
    BY <2>2, FinishFacts DEF SInv
  <2>4. QED
    BY <2>1, <2>2, <2>3, <1>5 DEF Handling, Exchanging
<1>11. CASE Reset(s) \/ Orphan(s)
  <2>1. pc'[s] \in {"idle", "dead"} /\ down' = down /\ up' = up
    BY <1>11 DEF Reset, Orphan, Goto, pipes, SInv, TypeOK
  <2>2. QED
    BY <1>0, <1>2, <2>1 DEF Handling, Exchanging
<1>12. ~Born(s) /\ ~Tell(s) /\ ~Told(s) /\ ~exchanges(s) /\ ~Collect(s) /\ ~Done(s)
  BY <1>3, <1>4 DEF Born, Tell, Told, exchanges, Open1, Open2, Give, TakeFirst, TakeSecond, Collect, Done, Exchanging
<1>13. QED
  BY <1>1, <1>7, <1>8, <1>9, <1>10, <1>11, <1>12 DEF Step, service, start_exchange

LEMMA EndStep ==
    ASSUME SInv, SInv', EndInv, NEW s \in Name, Step(s)
    PROVE  EndInv'
<1> SUFFICES ASSUME NEW p \in Name, p # s PROVE EndsAll(p)' /\ EndsOne(p)'
  BY EndSelf, EndParts DEF EndInv, EndsAll, EndsOne
<1>1. /\ pc'[p] = pc[p] /\ cmd'[p] = cmd[p] /\ nth'[p] = nth[p] /\ ans'[p] = ans[p] /\ child'[p] = child[p]
  BY Local
<1>2. EndsAll(p) /\ EndsOne(p)
  BY EndParts
<1>3. EndsAll(p)'
  <2>1. \A c \in Name : pc[c] = "dead" => pc'[c] = "dead"
    BY Local, DeadRest
  <2>2. \A k \in DOMAIN child[p] : child[p][k] \in Name
    <3>1. child[p] \in Seq(Name)
      BY DEF SInv, TypeOK
    <3>2. QED
      BY <3>1
  <2>3. QED
    BY <1>1, <1>2, <2>1, <2>2 DEF EndsAll
<1>4. EndsOne(p)'
  <2> SUFFICES ASSUME pc[p] = "hear", Ends(p) PROVE EndsOne(p)'
    BY <1>1 DEF EndsOne, Ends, Direct, Current
  <2>1. Current(p)' = Current(p) /\ Ends(p)' = Ends(p)
    BY <1>1 DEF Current, Ends, Direct
  <2>2. Current(p) \in Name /\ IsChild(Current(p), p)
    BY CurrentChild DEF SInv, LinkInv
  <2>3. CASE Current(p) = s
    BY <2>1, <2>3, EndParent DEF EndsOne
  <2>4. CASE Current(p) # s
    <3>1. down'[Current(p)] = down[Current(p)] /\ up'[Current(p)] = up[Current(p)]
      BY <2>2, <2>4, LocalPipes
    <3>2. pc'[Current(p)] = pc[Current(p)] /\ cmd'[Current(p)] = cmd[Current(p)]
      BY <2>2, <2>4, Local
    <3>3. QED
      BY <1>2, <2>1, <3>1, <3>2 DEF EndsOne
  <2>5. QED
    BY <2>3, <2>4
<1>5. QED
  BY <1>3, <1>4

LEMMA EndFork ==
    ASSUME SInv, EndInv, NEW s \in Name, Fork(s)
    PROVE  EndInv'
<1> DEFINE c == cmd[s].b
<1>0. c = cmd[s].b
  OBVIOUS
<1>1. /\ c \in Name /\ (\A p \in Name : ~IsChild(c, p)) /\ cmd[s].op = "spawn"
      /\ pc'[s] = "hear" /\ pc'[c] = "born" /\ cmd' = cmd /\ ans' = ans /\ down' = down /\ up' = up
      /\ pc[s] = "fork" /\ \A t \in Name \ {s, c} : pc'[t] = pc[t] /\ nth'[t] = nth[t] /\ child'[t] = child[t]
  BY <1>0, ForkFacts
<1> SUFFICES ASSUME NEW p \in Name PROVE EndsAll(p)' /\ EndsOne(p)'
  BY EndParts DEF EndInv, EndsAll, EndsOne
<1>2. CASE p \in {s, c}
  BY <1>1, <1>2 DEF EndsAll, EndsOne, Ends, Direct
<1>3. CASE p \notin {s, c}
  <2>1. EndsAll(p) /\ EndsOne(p)
    BY EndParts
  <2>2. \A k \in DOMAIN child[p] : child[p][k] \in Name /\ child[p][k] # c
    <3>1. child[p] \in Seq(Name)
      BY DEF SInv, TypeOK
    <3>2. QED
      BY <3>1, <1>1 DEF IsChild, ToSet
  <2>3. EndsAll(p)'
    BY <1>1, <1>3, <2>1, <2>2 DEF EndsAll
  <2>4. EndsOne(p)'
    <3> SUFFICES ASSUME pc[p] = "hear", Ends(p) PROVE EndsOne(p)'
      BY <1>1, <1>3 DEF EndsOne, Ends, Direct, Current
    <3>1. Current(p)' = Current(p) /\ Ends(p)' = Ends(p)
      BY <1>1, <1>3 DEF Current, Ends, Direct
    <3>2. Current(p) \in Name /\ IsChild(Current(p), p)
      BY CurrentChild DEF SInv, LinkInv
    <3>3. Current(p) # c
      BY <3>2, <1>1
    <3>4. Current(p) # s
      <4>1. SUFFICES ASSUME Current(p) = s PROVE FALSE
        OBVIOUS
      <4>2. cmd[s].op = "suicide"
        BY <2>1, <4>1, <1>1 DEF EndsOne, Handling
      <4>3. QED
        BY <4>2, <1>1
    <3>5. QED
      BY <1>1, <2>1, <3>1, <3>2, <3>3, <3>4 DEF EndsOne
  <2>5. QED
    BY <2>3, <2>4
<1>4. QED
  BY <1>2, <1>3

\* A running service keeps its command until it is done with it.
LEMMA Keeps ==
    ASSUME SInv, NEW s \in Name, service(s), ~Fork(s)
    PROVE  /\ pc'[s] \in Handling => Receive(s) \/ (pc[s] \in Handling /\ cmd'[s] = cmd[s])
           /\ pc'[s] = "dead" => Orphan(s) \/ (Reply(s) /\ cmd[s].op = "suicide")
           /\ cmd'[Manager] = cmd[Manager]
           /\ pc'[s] = "reset" => Done(s)
           /\ pc[s] = "reset" => Reset(s)
<1>0. /\ pc \in [Name -> {"dead", "born", "idle", "fork", "ask", "hear", "tell", "open1", "open2",
                          "give", "take", "collect", "reset"}] /\ Manager \in Name
  BY NameAssumption DEF SInv, TypeOK
<1>1. CASE Receive(s) \/ Born(s) \/ Ask(s) \/ Hear(s) \/ Orphan(s)
  <2>1. pc'[s] \notin {"dead", "reset"} \/ Orphan(s)
    <3>1. Receive(s) => pc'[s] \in {"fork", "tell", "ask"}
      <4>1. Receive(s) => Head(down[s]) \in Command_ /\ Begin(s, Head(down[s]))
        BY TakeDown DEF Receive, SInv
      <4>2. QED
        BY <4>1, BeginFacts DEF SInv
    <3>2. QED
      BY <1>0, <1>1, <3>1 DEF Born, Ask, Hear, Goto
  <2>2. cmd'[Manager] = cmd[Manager]
    <3>1. Receive(s) => s # Manager
      BY DEF Receive
    <3>2. Receive(s) => cmd'[Manager] = cmd[Manager]
      BY <1>0, <3>1, Local DEF Step, service, Fork, Receive
    <3>3. QED
      BY <1>1, <3>2 DEF Born, Ask, Hear, Orphan
  <2>3. pc'[s] \in Handling => Receive(s) \/ (pc[s] \in Handling /\ cmd' = cmd)
    BY <1>0, <1>1 DEF Born, Ask, Hear, Orphan, Goto, Handling, Exchanging
  <2>4. pc[s] # "reset"
    BY <1>1 DEF Receive, Born, Ask, Hear, Orphan
  <2>5. pc'[s] = "reset" => ~Orphan(s)
    BY <1>0 DEF Orphan, Goto
  <2>6. QED
    BY <2>1, <2>2, <2>3, <2>4, <2>5
<1>2. CASE Reply(s)
  <2>1. /\ s # Manager /\ pc[s] = "ask" /\ (Finish(s, "dead") \/ Finish(s, "idle"))
        /\ cmd[s].op # "suicide" => Finish(s, "idle")
    BY <1>2 DEF Reply
  <2>2. pc'[s] \in {"idle", "dead"} /\ cmd'[Manager] = cmd[Manager] /\ (cmd[s].op # "suicide" => pc'[s] = "idle")
    BY <1>0, <2>1, FinishFacts DEF SInv
  <2>3. QED
    BY <1>2, <2>1, <2>2 DEF Handling, Exchanging
<1>3. CASE Tell(s) \/ Told(s) \/ exchanges(s) \/ Collect(s)
  <2>1. pc[s] \in Exchanging /\ pc'[s] \in Exchanging /\ cmd' = cmd
    BY <1>0, <1>3 DEF Tell, Told, exchanges, Open1, Open2, Give, TakeFirst, TakeSecond, Collect, Goto, Exchanging
  <2>2. QED
    BY <2>1 DEF Handling, Exchanging
<1>4. CASE Done(s) \/ Reset(s)
  <2>1. s # Manager
    BY <1>4 DEF Done, Reset, SInv, LinkInv
  <2>2. cmd'[Manager] = cmd[Manager]
    BY <1>0, <1>4, <2>1, Local DEF Step, service, start_exchange
  <2>3. Done(s) => pc'[s] = "reset" /\ pc[s] = "collect"
    BY <1>0 DEF Done, Finish, Goto
  <2>4. Reset(s) => pc'[s] = "idle"
    BY <1>0 DEF Reset, Goto
  <2>5. QED
    BY <1>4, <2>2, <2>3, <2>4 DEF Handling, Exchanging
<1>5. QED
  BY <1>1, <1>2, <1>3, <1>4 DEF service, start_exchange

\* What is written to a pipe down the tree.
LEMMA Sent ==
    ASSUME SInv, NEW s \in Name, service(s), ~Fork(s), NEW t \in Name, down'[t] # <<>>, down'[t] # down[t]
    PROVE  /\ pc[s] \in Handling /\ IsChild(t, s)
           /\ \/ Ask(s) /\ t = Current(s) /\ Head(down'[t]) \in Passed(s, t)
              \/ Tell(s) /\ Head(down'[t]) = cmd[s] /\ nth[s] \in DOMAIN Targets(s) /\ t = Targets(s)[nth[s]]
<1>1. CASE Ask(s)
  <2> DEFINE c == Current(s)
  <2>1. nth[s] <= Len(child[s]) /\ pc[s] = "ask"
    <3>1. nth[s] \in Nat /\ child[s] \in Seq(Name) /\ ~(nth[s] > Len(child[s])) /\ pc[s] = "ask"
      BY <1>1 DEF Ask, Over, SInv, TypeOK
    <3>2. QED
      BY <3>1
  <2>2. c \in Name /\ IsChild(c, s)
    BY <2>1, CurrentChild
  <2>3. ~Engaged(s, c)
    BY <2>1 DEF Engaged
  <2>4. down[c] = <<>>
    BY <2>2, <2>3, ChildAtRest
  <2>5. PICK m \in Passed(s, c) : down' = [down EXCEPT ![c] = Append(@, m)]
    BY <1>1 DEF Ask
  <2>6. m \in Command_
    BY <2>1, <2>2, <2>5, PassedFacts DEF SInv, Handling
  <2>7. Head(down'[c]) = m /\ \A u \in Name \ {c} : down'[u] = down[u]
    BY <2>2, <2>4, <2>5, <2>6, PutDown DEF SInv
  <2>8. QED
    BY <1>1, <2>1, <2>2, <2>5, <2>7 DEF Handling
<1>2. CASE Tell(s)
  <2>1. nth[s] \in DOMAIN Targets(s) /\ pc[s] = "tell" /\ nth[s] \in Nat
    BY <1>2, TargetsFacts DEF Tell, SInv, TypeOK
  <2> DEFINE c == Targets(s)[nth[s]]
  <2>2. c \in Name /\ IsChild(c, s)
    BY <2>1, TargetsFacts
  <2>3. ~Engaged(s, c)
    <3>1. SUFFICES ASSUME Engaged(s, c) PROVE FALSE
      OBVIOUS
    <3>2. PICK k \in DOMAIN Targets(s) : k < nth[s] /\ c = Targets(s)[k]
      BY <2>1, <3>1 DEF Engaged
    <3>3. k = nth[s]
      BY <2>1, <3>2, TargetsFacts DEF IsInjective
    <3>4. QED
      BY <2>1, <3>2, <3>3
  <2>4. down[c] = <<>>
    BY <2>2, <2>3, ChildAtRest
  <2>5. down' = [down EXCEPT ![c] = Append(@, cmd[s])] /\ cmd[s] \in Command_
    BY <1>2 DEF Tell, SInv, TypeOK
  <2>6. Head(down'[c]) = cmd[s] /\ \A u \in Name \ {c} : down'[u] = down[u]
    BY <2>2, <2>4, <2>5, PutDown DEF SInv
  <2>7. QED
    BY <1>2, <2>1, <2>2, <2>6 DEF Handling, Exchanging
<1>3. CASE Receive(s)
  <2>1. down'[s] = <<>> /\ \A u \in Name \ {s} : down'[u] = down[u]
    BY <1>3, TakeDown DEF Receive, SInv
  <2>2. QED
    BY <2>1
<1>4. CASE ~Ask(s) /\ ~Tell(s) /\ ~Receive(s)
  <2>1. down' = down
    BY <1>4 DEF service, start_exchange, Born, Hear, Reply, Told, exchanges, Open1, Open2, Give, TakeFirst,
                TakeSecond, Collect, Done, Reset, Orphan, pipes
  <2>2. QED
    BY <2>1
<1>5. QED
  BY <1>1, <1>2, <1>3, <1>4

-------------------------------------------------------------------------------
(* During an exchange nobody is born and nobody dies *)

\* Where the Manager's command comes from.
LEMMA NewCommand ==
    ASSUME SInv, Command \/ manager \/ Eof, cmd'[Manager].op \in ExchangeOps
    PROVE  /\ UNCHANGED <<child, route, down, up>> /\ (Command \/ Advance)
           /\ pc'[Manager] \in {"ask", "tell"} /\ nth'[Manager] = 1
           /\ ans'[Manager] = FirstAns(Manager, cmd'[Manager])
           /\ \A t \in Name \ {Manager} : ~Active(t)
           /\ \A t \in Name \ {Manager} : pc'[t] = pc[t] /\ cmd'[t] = cmd[t] /\ nth'[t] = nth[t] /\ ans'[t] = ans[t]
           /\ Command => /\ pc[Manager] = "idle" /\ cmd'[Manager].op = "traverse"
                         /\ {cmd'[Manager].a, cmd'[Manager].b} \subseteq Alive /\ cmd'[Manager].a # cmd'[Manager].b
           /\ Advance => /\ pc[Manager] = "ask" /\ cmd[Manager].op \in {"traverse", "find"}
                         /\ cmd'[Manager] = NextPhase(cmd[Manager]) /\ Over(Manager)
                         /\ cmd'[Manager].a = cmd[Manager].a /\ cmd'[Manager].b = cmd[Manager].b
<1>0. Manager \in Name /\ TypeOK
  BY NameAssumption DEF SInv
<1>1. Command \/ Advance
  <2>1. PrintSpawn \/ PrintKill => Finish(Manager, "idle") \/ Finish(Manager, "dead")
    BY DEF PrintSpawn, PrintKill
  <2>2. PrintExchange => Finish(Manager, "idle")
    BY DEF PrintExchange
  <2>3. PrintSpawn \/ PrintKill \/ PrintExchange => cmd'[Manager].op = "none"
    BY <1>0, <2>1, <2>2, FinishFacts
  <2>4. Eof => cmd'[Manager].op = "none"
    BY DEF Eof, SInv, PhaseInv, Nothing, Cmd
  <2>5. QED
    BY <2>3, <2>4 DEF manager, ExchangeOps
<1>2. CASE Command
  <2>1. PICK m \in Input : Begin(Manager, m)
    BY <1>2 DEF Command
  <2>2. m \in Command_
    BY <1>0 DEF Input, Cmd, Command_, Alive
  <2>3. /\ cmd'[Manager] = m /\ pc'[Manager] \in {"fork", "tell", "ask"} /\ (pc'[Manager] = "fork" => m.op = "spawn")
        /\ nth'[Manager] = 1 /\ ans'[Manager] = FirstAns(Manager, m)
        /\ \A t \in Name \ {Manager} : pc'[t] = pc[t] /\ cmd'[t] = cmd[t] /\ nth'[t] = nth[t] /\ ans'[t] = ans[t]
    BY <1>0, <2>1, <2>2, BeginFacts
  <2>4. m.op = "traverse" /\ {m.a, m.b} \subseteq Alive /\ m.a # m.b
    <3>1. m.op \in ExchangeOps
      BY <2>3
    <3>2. m \notin {Cmd("spawn", a, b, 0) : a \in Name, b \in Name \ Alive}
      BY <3>1 DEF Cmd, ExchangeOps
    <3>3. m \notin {Cmd(IF a = Manager THEN "suicide" ELSE "kill", a, a, 0) : a \in Name}
      BY <3>1 DEF Cmd, ExchangeOps
    <3>4. PICK q \in Alive \X Alive : q[1] # q[2] /\ m = Cmd("traverse", q[1], q[2], 0)
      BY <3>2, <3>3 DEF Input
    <3>5. QED
      BY <3>4 DEF Cmd
  <2>5. pc[Manager] = "idle" /\ UNCHANGED <<child, route, down, up>>
    BY <1>2 DEF Command, globals, pipes
  <2>6. \A t \in Name \ {Manager} : ~Active(t)
    BY <2>5, ManagerAlone DEF Exchanging
  <2>7. ~Advance
    BY <2>5 DEF Advance
  <2>8. QED
    BY <1>2, <2>3, <2>4, <2>5, <2>6, <2>7
<1>3. CASE Advance
  <2> DEFINE m == NextPhase(cmd[Manager])
  <2>1. /\ pc[Manager] = "ask" /\ Over(Manager) /\ cmd[Manager].op \in {"traverse", "find"}
        /\ Begin(Manager, m) /\ UNCHANGED <<child, route, down, up>>
    BY <1>3 DEF Advance, globals, pipes
  <2>2. cmd[Manager] \in Command_
    BY <1>0 DEF TypeOK
  <2>3. m \in Command_ /\ m.a = cmd[Manager].a /\ m.b = cmd[Manager].b /\ m.op # "spawn"
    BY <2>2 DEF NextPhase, Cmd, Command_
  <2>4. /\ cmd'[Manager] = m /\ pc'[Manager] \in {"tell", "ask"}
        /\ nth'[Manager] = 1 /\ ans'[Manager] = FirstAns(Manager, m)
        /\ \A t \in Name \ {Manager} : pc'[t] = pc[t] /\ cmd'[t] = cmd[t] /\ nth'[t] = nth[t] /\ ans'[t] = ans[t]
    BY <1>0, <2>1, <2>3, BeginFacts
  <2>5. \A t \in Name \ {Manager} : ~Active(t)
    BY <2>1, ManagerAlone DEF Exchanging
  <2>6. ~Command
    BY <2>1 DEF Command
  <2>7. QED
    BY <1>3, <2>1, <2>3, <2>4, <2>5, <2>6
<1>4. QED
  BY <1>1, <1>2, <1>3

\* The tables stay as they are.
LEMMA TreeStill ==
    ASSUME SInv, PartnerInv, cmd[Manager].op \in ExchangeOps, NEW s \in Name, service(s)
    PROVE  child' = child /\ ~Fork(s) /\ ~Orphan(s) /\ ~(Reply(s) /\ cmd[s].op = "suicide") /\ (pc[s] = "hear" => ~Direct(s))
<1>1. pc[s] \in Handling => cmd[s].op \in ExchangeOps
  BY DEF PartnerInv
<1>2. ~Fork(s)
  BY <1>1, ForkFacts DEF ExchangeOps, Handling
<1>3. ~(Reply(s) /\ cmd[s].op = "suicide")
  BY <1>1 DEF Reply, Handling, ExchangeOps
<1>4. pc[s] = "hear" => ~Direct(s)
  BY <1>1 DEF Direct, Handling, ExchangeOps
<1>5. ~Orphan(s)
  <2>1. SUFFICES ASSUME NEW p \in Name, pc[p] = "dead", s \in ToSet(child[p]) PROVE FALSE
    BY DEF Orphan, Alive
  <2>2. child[p] # <<>>
    BY <2>1 DEF ToSet
  <2>3. pc[Manager] = "dead"
    BY <2>1, <2>2 DEF SInv, DeathInv
  <2>4. cmd[Manager].op = "none"
    BY <2>3 DEF SInv, PhaseInv, Nothing, Cmd
  <2>5. QED
    BY <2>4 DEF ExchangeOps
<1>6. child' = child
  <2>1. Hear(s) => child' = child
    BY <1>4 DEF Hear
  <2>2. Reply(s) => child' = child
    BY <1>3 DEF Reply
  <2>3. QED
    BY <1>2, <1>5, <2>1, <2>2 DEF service, start_exchange, Receive, Born, Ask, Tell, Told, exchanges, Open1, Open2,
          Give, TakeFirst, TakeSecond, Collect, Done, Reset, globals
<1>7. QED
  BY <1>2, <1>3, <1>4, <1>5, <1>6

LEMMA PartnerStep ==
    ASSUME SInv, PartnerInv, NEW s \in Name, Step(s), cmd'[Manager].op \in ExchangeOps
    PROVE  /\ PartnerInv' /\ child' = child
           /\ service(s) /\ ~Fork(s) => cmd[Manager].op \in ExchangeOps /\ cmd'[Manager] = cmd[Manager]
<1>0. Manager \in Name /\ TypeOK
  BY NameAssumption DEF SInv
<1>1. CASE s = Manager /\ (Command \/ manager \/ Eof)
  <2>1. \A t \in Name : down'[t] = <<>>
    <3>1. down' = down
      BY <1>1, NewCommand
    <3>2. \A t \in Name \ {Manager} : down[t] = <<>>
      BY <1>1, NewCommand DEF Active
    <3>3. QED
      BY <3>1, <3>2 DEF SInv, LinkInv
  <2>2. \A t \in Name : pc'[t] \in Handling => cmd'[t].op \in ExchangeOps
    <3>1. \A t \in Name \ {Manager} : pc'[t] = pc[t] /\ ~Working(t)
      BY <1>1, NewCommand DEF Active
    <3>2. QED
      BY <3>1 DEF Working, Handling, Exchanging
  <2>3. /\ \A x \in {0, 1} : pc'[Partner(x)'] # "dead"
        /\ Partner(0)' # Partner(1)'
    <3>1. \A t \in Name : pc[t] # "dead" => pc'[t] # "dead"
      BY <1>1, NewCommand
    <3>2. {cmd'[Manager].a, cmd'[Manager].b} \subseteq Alive /\ cmd'[Manager].a # cmd'[Manager].b
      <4>1. CASE Command
        BY <1>1, <4>1, NewCommand
      <4>2. CASE Advance
        <5>1. /\ cmd'[Manager].a = cmd[Manager].a /\ cmd'[Manager].b = cmd[Manager].b
              /\ cmd[Manager].op \in ExchangeOps
          BY <1>1, <4>2, NewCommand DEF ExchangeOps
        <5>2. cmd[Manager] \in Command_
          BY <1>0 DEF TypeOK
        <5>3. QED
          BY <5>1, <5>2 DEF PartnerInv, Partner, Alive, Command_
      <4>3. QED
        BY <4>1, <4>2, <1>1, NewCommand
    <3>3. QED
      BY <3>1, <3>2 DEF Partner, Alive
  <2>4. child' = child
    BY <1>1, NewCommand
  <2>5. ~(service(s) /\ ~Fork(s)) \/ (cmd[Manager].op \in ExchangeOps /\ cmd'[Manager] = cmd[Manager])
    <3>1. ASSUME service(s), ~Fork(s) PROVE cmd'[Manager] = cmd[Manager]
      BY <3>1, Keeps
    <3>2. QED
      BY <3>1
  <2>6. QED
    BY <2>1, <2>2, <2>3, <2>4, <2>5 DEF PartnerInv
<1>2. CASE service(s) /\ ~Fork(s)
  <2>1. cmd'[Manager] = cmd[Manager] /\ cmd[Manager].op \in ExchangeOps
    BY <1>2, Keeps
  <2>2. /\ \A t \in Name : /\ pc[t] \in Handling => cmd[t].op \in ExchangeOps
                           /\ down[t] # <<>> => Head(down[t]).op \in ExchangeOps
        /\ \A x \in {0, 1} : pc[Partner(x)] # "dead"
        /\ Partner(0) # Partner(1)
    BY <2>1 DEF PartnerInv
  <2>3. child' = child /\ ~Orphan(s) /\ ~(Reply(s) /\ cmd[s].op = "suicide")
    BY <1>2, <2>1, TreeStill
  <2>4. \A t \in Name : pc[t] # "dead" => pc'[t] # "dead"
    BY <1>2, <2>3, Keeps, Local
  <2>5. ASSUME NEW t \in Name, pc'[t] \in Handling PROVE cmd'[t].op \in ExchangeOps
    <3>1. CASE t # s
      BY <2>2, <2>5, <3>1, Local
    <3>2. CASE t = s /\ Receive(s)
      <4>1. Head(down[s]) \in Command_ /\ Begin(s, Head(down[s])) /\ down[s] # <<>>
        BY <3>2, TakeDown DEF Receive, SInv
      <4>2. QED
        BY <1>0, <2>2, <3>2, <4>1, BeginFacts
    <3>3. CASE t = s /\ ~Receive(s)
      BY <1>2, <2>2, <2>5, <3>3, Keeps
    <3>4. QED
      BY <3>1, <3>2, <3>3
  <2>6. ASSUME NEW t \in Name, down'[t] # <<>> PROVE Head(down'[t]).op \in ExchangeOps
    <3>1. CASE down'[t] = down[t]
      BY <2>2, <2>6, <3>1
    <3>2. CASE down'[t] # down[t]
      <4>1. pc[s] \in Handling /\ (Head(down'[t]) \in Passed(s, t) \/ Head(down'[t]) = cmd[s])
        BY <1>2, <2>6, <3>2, Sent
      <4>2. cmd[s].op \in ExchangeOps /\ cmd[s] \in Command_
        BY <1>0, <2>2, <4>1 DEF TypeOK
      <4>3. \A m \in Passed(s, t) : m.op = cmd[s].op
        BY <4>2 DEF Passed, Direct, ExchangeOps, Command_
      <4>4. QED
        BY <4>1, <4>2, <4>3
    <3>3. QED
      BY <3>1, <3>2
  <2>7. \A x \in {0, 1} : Partner(x)' = Partner(x) /\ Partner(x) \in Name
    <3>1. cmd[Manager] \in Command_
      BY <1>0 DEF TypeOK
    <3>2. QED
      BY <2>1, <3>1 DEF Partner, Command_
  <2>8. QED
    BY <2>1, <2>2, <2>3, <2>4, <2>5, <2>6, <2>7 DEF PartnerInv
<1>3. QED
  BY <1>1, <1>2 DEF Step

-------------------------------------------------------------------------------
(* finds() *)

\* Nobody at or below a partner is above it.
LEMMA NoAbove ==
    ASSUME SInv, NEW x \in {0, 1}, Partner(x) \in Name, NEW t \in Under(Partner(x))
    PROVE  ~Above(t, x)
<1>0. IsTree(child) /\ child \in [Name -> Seq(Name)] /\ t \in Name
  BY ChildIsTree, BelowLeast DEF IsTree, Under
<1>1. SUFFICES ASSUME NEW c \in Name, IsChild(c, t), Partner(x) \in Under(c) PROVE FALSE
  BY DEF Above
<1>2. t \in Under(c)
  BY <1>0, <1>1, BelowTransitive DEF Under
<1>3. QED
  BY <1>0, <1>1, <1>2, BelowApart DEF Under, IsChild

LEMMA AboveUnder ==
    ASSUME SInv, NEW x \in {0, 1}, NEW t \in Name, Above(t, x)
    PROVE  Partner(x) \in Under(t)
<1>1. child \in [Name -> Seq(Name)]
  BY DEF SInv, TypeOK
<1>2. QED
  BY <1>1, BelowDown DEF Above, Under, IsChild

\* The partner is found below s, with all the routes that lead to it from s; or
\* it is below none of the children that s has asked.
Located(s, x) == Partner(x) \in Under(s) /\ \A t \in Under(s) : Above(t, x) => Has(t, x)
Missed(s, x) == \A k \in DOMAIN child[s] : k < nth[s] => Partner(x) \notin Under(child[s][k])

LEMMA SearchParts ==
    ASSUME cmd[Manager].op = "find", NEW x, x = cmd[Manager].n
    PROVE  SearchInv <=> /\ \A s \in Name : Good(s) => Located(s, x)
                         /\ \A s \in Name : pc[s] \in {"ask", "hear"} /\ ~Good(s) => Missed(s, x)
                         /\ \A s \in Name : up[s] # <<>> /\ ~Head(up[s]).ok => Partner(x) \notin Under(s)
                         /\ x = 1 => \A s \in Name : Above(s, 0) => Has(s, 0)
BY DEF SearchInv, Located, Missed

LEMMA SearchParts_ ==
    ASSUME cmd'[Manager].op = "find", NEW x, x = cmd'[Manager].n,
           \A s \in Name : Good(s)' => Located(s, x)',
           \A s \in Name : pc'[s] \in {"ask", "hear"} /\ ~Good(s)' => Missed(s, x)',
           \A s \in Name : up'[s] # <<>> /\ ~Head(up'[s]).ok => Partner(x)' \notin Under(s)',
           x = 1 => \A s \in Name : Above(s, 0)' => Has(s, 0)'
    PROVE  SearchInv'
BY DEF SearchInv, Located, Missed

\* If a search has not found the partner in any child it is not there.
LEMMA NotBelow ==
    ASSUME SInv, NEW x \in {0, 1}, NEW s \in Name, Missed(s, x), nth[s] > Len(child[s]), s # Partner(x)
    PROVE  Partner(x) \notin Under(s)
<1>1. child \in [Name -> Seq(Name)] /\ child[s] \in Seq(Name) /\ nth[s] \in Nat
  BY DEF SInv, TypeOK
<1>2. \A k \in DOMAIN child[s] : k < nth[s]
  BY <1>1
<1>3. \A c \in ToSet(child[s]) : Partner(x) \notin Under(c)
  BY <1>2 DEF Missed, ToSet
<1>4. QED
  BY <1>1, <1>3, BelowDown DEF Under

\* The steps of finds().
LEMMA FindSteps ==
    ASSUME SInv, PartnerInv, cmd[Manager].op = "find", NEW s \in Name, service(s)
    PROVE  Receive(s) \/ Ask(s) \/ Hear(s) \/ Reply(s) \/ Reset(s)
<1>1. pc[s] \notin Exchanging /\ pc[s] # "born"
  BY StartPhase DEF SInv, PhaseInv
<1>2. ~Fork(s) /\ ~Orphan(s)
  BY TreeStill DEF ExchangeOps
<1>3. QED
  BY <1>1, <1>2 DEF service, start_exchange, Born, Tell, Told, exchanges, Open1, Open2, Give,
        TakeFirst, TakeSecond, Collect, Done, Exchanging

\* A service in finds() has the Manager's command.
LEMMA FindCommand ==
    ASSUME SInv, cmd[Manager].op = "find", NEW s \in Name
    PROVE  /\ pc[s] \in Handling => cmd[s] = cmd[Manager]
           /\ down[s] # <<>> => Head(down[s]) = cmd[Manager]
           /\ cmd[Manager].n \in {0, 1} /\ Wanted(cmd[Manager]) = Partner(cmd[Manager].n)
           /\ \A x \in {0, 1} : Partner(x) \in Name
<1>1. cmd[Manager] \in Command_
  BY NameAssumption DEF SInv, TypeOK
<1>2. QED
  BY <1>1 DEF SInv, PhaseInv, SameCommand, Uniform, Wanted, Partner, Command_

LEMMA SearchReceive ==
    ASSUME SInv, SInv', PartnerInv, LeadInv, SearchInv, cmd[Manager].op = "find", cmd'[Manager] = cmd[Manager],
           child' = child, NEW s \in Name, Receive(s)
    PROVE  LeadInv' /\ SearchInv'
<1> DEFINE x == cmd[Manager].n
<1>0. /\ x \in {0, 1} /\ Partner(x) \in Name /\ child \in [Name -> Seq(Name)]
      /\ \A y \in {0, 1} : Partner(y)' = Partner(y)
  BY FindCommand DEF Partner, SInv, TypeOK
<1>1. /\ Head(down[s]) \in Command_ /\ Begin(s, Head(down[s])) /\ pc[s] = "idle" /\ down[s] # <<>>
      /\ UNCHANGED <<up, route>>
  BY TakeDown DEF Receive, SInv, globals
<1>2. Head(down[s]) = cmd[Manager] /\ Wanted(cmd[Manager]) = Partner(x)
  BY <1>1, FindCommand
<1>3. /\ pc'[s] \in {"fork", "tell", "ask"} /\ nth'[s] = 1 /\ ans'[s] = FirstAns(s, cmd[Manager])
      /\ pc'[s] # "fork" /\ pc'[s] # "tell"
      /\ \A t \in Name \ {s} : pc'[t] = pc[t] /\ nth'[t] = nth[t] /\ ans'[t] = ans[t]
  BY <1>1, <1>2, BeginFacts DEF SInv
<1>4. ans'[s].ok <=> s = Partner(x)
  <2>1. ans'[s] = Answer(Partner(x) = s, 0)
    BY <1>2, <1>3 DEF FirstAns
  <2>2. \A b \in BOOLEAN : Answer(b, 0).ok = b
    BY DEF Answer
  <2>3. QED
    BY <2>1, <2>2
<1>5. \A t \in Name : Under(t)' = Under(t) /\ \A y \in {0, 1} : (Above(t, y)' <=> Above(t, y)) /\ (Has(t, y)' <=> Has(t, y))
  BY <1>0, <1>1, <1>3 DEF Under, Above, Has, IsChild
<1>6. LeadInv'
  BY <1>0, <1>1, <1>5 DEF LeadInv, Under
<1>7. up[s] = <<>>
  BY <1>1 DEF SInv, TokenInv
<1>8. \A t \in Name \ {s} : Good(t)' <=> Good(t)
  BY <1>1, <1>3 DEF Good
<1>9. \A t \in Name : Located(t, x)' <=> Located(t, x)
  BY <1>0, <1>5, BelowLeast DEF Located, Under
<1>10. \A t \in Name : Good(t)' => Located(t, x)'
  <2>1. ASSUME NEW t \in Name \ {s}, Good(t)' PROVE Located(t, x)'
    BY <2>1, <1>8, <1>9, SearchParts
  <2>2. ASSUME Good(s)' PROVE Located(s, x)'
    <3>1. s = Partner(x)
      BY <2>2, <1>1, <1>3, <1>4, <1>7 DEF Good
    <3>2. s \in Under(s)
      BY BelowLeast DEF Under
    <3>3. \A t \in Under(s) : ~Above(t, x)
      BY <1>0, <3>1, NoAbove
    <3>4. QED
      BY <1>9, <3>1, <3>2, <3>3 DEF Located
  <2>3. QED
    BY <2>1, <2>2
<1>11. \A t \in Name : pc'[t] \in {"ask", "hear"} /\ ~Good(t)' => Missed(t, x)'
  <2>1. ASSUME NEW t \in Name \ {s}, pc'[t] \in {"ask", "hear"} /\ ~Good(t)' PROVE Missed(t, x)'
    <3>1. Missed(t, x)
      BY <2>1, <1>3, <1>8, SearchParts
    <3>2. QED
      BY <3>1, <1>0, <1>3 DEF Missed, Under
  <2>2. Missed(s, x)'
    <3>1. \A k \in DOMAIN child[s] : ~(k < 1)
      BY <1>0
    <3>2. QED
      BY <3>1, <1>3 DEF Missed
  <2>3. QED
    BY <2>1, <2>2
<1>12. \A t \in Name : up'[t] # <<>> /\ ~Head(up'[t]).ok => Partner(x)' \notin Under(t)'
  BY <1>0, <1>1, <1>5, SearchParts
<1>13. x = 1 => \A t \in Name : Above(t, 0)' => Has(t, 0)'
  BY <1>5, SearchParts
<1>14. SearchInv'
  BY <1>10, <1>11, <1>12, <1>13, SearchParts_
<1>15. QED
  BY <1>6, <1>14

LEMMA SearchReset ==
    ASSUME SInv, PartnerInv, LeadInv, SearchInv, cmd[Manager].op = "find", cmd'[Manager] = cmd[Manager],
           child' = child, NEW s \in Name, Reset(s)
    PROVE  LeadInv' /\ SearchInv'
<1> DEFINE x == cmd[Manager].n
<1>0. /\ x \in {0, 1} /\ Partner(x) \in Name /\ child \in [Name -> Seq(Name)]
      /\ \A y \in {0, 1} : Partner(y)' = Partner(y)
  BY FindCommand DEF Partner, SInv, TypeOK
<1>1. /\ pc[s] = "reset" /\ pc'[s] = "idle" /\ route'[s] = NoRoute /\ UNCHANGED <<up, ans, nth>>
      /\ \A t \in Name \ {s} : pc'[t] = pc[t] /\ route'[t] = route[t]
  BY DEF Reset, Goto, SInv, TypeOK, pipes
<1>2. \A t \in Name : Under(t)' = Under(t) /\ \A y \in {0, 1} : (Above(t, y)' <=> Above(t, y)) /\ (Has(t, y)' <=> Has(t, y))
  BY <1>0, <1>1 DEF Under, Above, Has, IsChild, NoRoute
<1>3. LeadInv'
  <2>1. \A t \in Name, y \in {0, 1} : Has(t, y)' => t # s
    BY <1>1 DEF Has, NoRoute
  <2>2. QED
    BY <1>0, <1>1, <1>2, <2>1 DEF LeadInv, Under
<1>4. \A t \in Name : Good(t)' <=> Good(t)
  BY <1>1 DEF Good
<1>5. \A t \in Name : (Located(t, x)' <=> Located(t, x)) /\ (Missed(t, x)' <=> Missed(t, x))
  BY <1>0, <1>1, <1>2, BelowLeast DEF Located, Missed, Under
<1>6. \A t \in Name : Good(t)' => Located(t, x)'
  BY <1>4, <1>5, SearchParts
<1>7. \A t \in Name : pc'[t] \in {"ask", "hear"} /\ ~Good(t)' => Missed(t, x)'
  BY <1>1, <1>4, <1>5, SearchParts
<1>8. \A t \in Name : up'[t] # <<>> /\ ~Head(up'[t]).ok => Partner(x)' \notin Under(t)'
  BY <1>0, <1>1, <1>2, SearchParts
<1>9. x = 1 => \A t \in Name : Above(t, 0)' => Has(t, 0)'
  BY <1>2, SearchParts
<1>10. SearchInv'
  BY <1>6, <1>7, <1>8, <1>9, SearchParts_
<1>11. QED
  BY <1>3, <1>10

LEMMA SearchAsk ==
    ASSUME SInv, PartnerInv, LeadInv, SearchInv, cmd[Manager].op = "find", cmd'[Manager] = cmd[Manager],
           child' = child, NEW s \in Name, Ask(s)
    PROVE  LeadInv' /\ SearchInv'
<1> DEFINE x == cmd[Manager].n
<1>0. /\ x \in {0, 1} /\ Partner(x) \in Name /\ child \in [Name -> Seq(Name)]
      /\ \A y \in {0, 1} : Partner(y)' = Partner(y)
  BY FindCommand DEF Partner, SInv, TypeOK
<1>1. /\ pc[s] = "ask" /\ pc'[s] = "hear" /\ UNCHANGED <<up, ans, nth, route>> /\ ~ans[s].ok
      /\ \A t \in Name \ {s} : pc'[t] = pc[t]
  BY DEF Ask, Goto, SInv, TypeOK, globals, Over
<1>2. \A t \in Name : Under(t)' = Under(t) /\ \A y \in {0, 1} : (Above(t, y)' <=> Above(t, y)) /\ (Has(t, y)' <=> Has(t, y))
  BY <1>0, <1>1 DEF Under, Above, Has, IsChild
<1>3. LeadInv'
  BY <1>0, <1>1, <1>2 DEF LeadInv, Under
<1>4. \A t \in Name : Good(t)' <=> Good(t)
  BY <1>1 DEF Good
<1>5. \A t \in Name : (Located(t, x)' <=> Located(t, x)) /\ (Missed(t, x)' <=> Missed(t, x))
  BY <1>0, <1>1, <1>2, BelowLeast DEF Located, Missed, Under
<1>6. \A t \in Name : Good(t)' => Located(t, x)'
  BY <1>4, <1>5, SearchParts
<1>7. \A t \in Name : pc'[t] \in {"ask", "hear"} /\ ~Good(t)' => Missed(t, x)'
  BY <1>1, <1>4, <1>5, SearchParts
<1>8. \A t \in Name : up'[t] # <<>> /\ ~Head(up'[t]).ok => Partner(x)' \notin Under(t)'
  BY <1>0, <1>1, <1>2, SearchParts
<1>9. x = 1 => \A t \in Name : Above(t, 0)' => Has(t, 0)'
  BY <1>2, SearchParts
<1>10. SearchInv'
  BY <1>6, <1>7, <1>8, <1>9, SearchParts_
<1>11. QED
  BY <1>3, <1>10

LEMMA SearchReply ==
    ASSUME SInv, PartnerInv, LeadInv, SearchInv, cmd[Manager].op = "find", cmd'[Manager] = cmd[Manager],
           child' = child, NEW s \in Name, Reply(s)
    PROVE  LeadInv' /\ SearchInv'
<1> DEFINE x == cmd[Manager].n
<1>0. /\ x \in {0, 1} /\ Partner(x) \in Name /\ child \in [Name -> Seq(Name)]
      /\ \A y \in {0, 1} : Partner(y)' = Partner(y)
  BY FindCommand DEF Partner, SInv, TypeOK
<1>1. /\ pc[s] = "ask" /\ Over(s) /\ route' = route /\ (Finish(s, "dead") \/ Finish(s, "idle"))
      /\ up' = [up EXCEPT ![s] = Append(@, ans[s])] /\ ans[s] \in Answer_
  BY DEF Reply, SInv, TypeOK
<1>2. pc'[s] \in {"idle", "dead"} /\ \A t \in Name \ {s} : pc'[t] = pc[t] /\ nth'[t] = nth[t] /\ ans'[t] = ans[t]
  BY <1>1, FinishFacts DEF SInv
<1>3. up[s] = <<>>
  BY <1>1 DEF SInv, TokenInv, Working
<1>4. up'[s] # <<>> /\ Head(up'[s]) = ans[s] /\ \A t \in Name \ {s} : up'[t] = up[t]
  BY <1>1, <1>3, PutUp DEF SInv
<1>5. \A t \in Name : Under(t)' = Under(t) /\ \A y \in {0, 1} : (Above(t, y)' <=> Above(t, y)) /\ (Has(t, y)' <=> Has(t, y))
  BY <1>0, <1>1, <1>2 DEF Under, Above, Has, IsChild
<1>6. LeadInv'
  BY <1>0, <1>1, <1>5 DEF LeadInv, Under
<1>7. \A t \in Name : Good(t)' <=> Good(t)
  BY <1>1, <1>2, <1>3, <1>4 DEF Good
<1>8. \A t \in Name : Located(t, x)' <=> Located(t, x)
  BY <1>0, <1>5, BelowLeast DEF Located, Under
<1>9. \A t \in Name : Good(t)' => Located(t, x)'
  BY <1>7, <1>8, SearchParts
<1>10. ASSUME NEW t \in Name, pc'[t] \in {"ask", "hear"}, ~Good(t)' PROVE Missed(t, x)'
  <2>1. t # s
    BY <1>2, <1>10
  <2>2. Missed(t, x)
    BY <2>1, <1>2, <1>7, <1>10, SearchParts
  <2>3. QED
    BY <2>1, <2>2, <1>0, <1>2 DEF Missed, Under
<1>11. ASSUME NEW t \in Name, up'[t] # <<>>, ~Head(up'[t]).ok PROVE Partner(x)' \notin Under(t)'
  <2>1. CASE t # s
    <3>1. up[t] # <<>> /\ ~Head(up[t]).ok
      BY <2>1, <1>4, <1>11
    <3>2. Partner(x) \notin Under(t)
      BY <3>1, SearchParts
    <3>3. QED
      BY <3>2, <1>0, <1>5
  <2>2. CASE t = s
    <3>1. ~ans[s].ok /\ ~Good(s)
      BY <1>1, <1>3, <1>4, <1>11, <2>2 DEF Good
    <3>2. nth[s] > Len(child[s])
      BY <1>1, <3>1 DEF Over
    <3>3. s # Partner(x)
      BY <1>1, <3>1 DEF SInv, FindInv
    <3>4. Missed(s, x)
      BY <1>1, <3>1, SearchParts
    <3>5. QED
      BY <1>0, <1>5, <2>2, <3>2, <3>3, <3>4, NotBelow
  <2>3. QED
    BY <2>1, <2>2
<1>12. x = 1 => \A t \in Name : Above(t, 0)' => Has(t, 0)'
  BY <1>5, SearchParts
<1>13. SearchInv'
  BY <1>9, <1>10, <1>11, <1>12, SearchParts_
<1>14. QED
  BY <1>6, <1>13

LEMMA SearchHear ==
    ASSUME SInv, PartnerInv, LeadInv, SearchInv, cmd[Manager].op = "find", cmd'[Manager] = cmd[Manager],
           child' = child, NEW s \in Name, Hear(s)
    PROVE  LeadInv' /\ SearchInv'
<1>a. /\ pc[s] = "hear" /\ Current(s) \in Name /\ IsChild(Current(s), s) /\ Current(s) # s
      /\ nth[s] \in DOMAIN child[s]
  BY CurrentChild DEF Hear, SInv, LinkInv
<1>b. PICK c \in Name : c = Current(s)
  BY <1>a
<1>c. PICK v : v = Head(up[c])
  OBVIOUS
<1> DEFINE x == cmd[Manager].n
<1>0. /\ x \in {0, 1} /\ Partner(x) \in Name /\ child \in [Name -> Seq(Name)] /\ IsTree(child)
      /\ \A y \in {0, 1} : Partner(y)' = Partner(y)
  BY FindCommand, ChildIsTree DEF Partner, SInv, TypeOK
<1>1. /\ pc[s] = "hear" /\ pc'[s] = "ask" /\ up[c] # <<>> /\ up' = [up EXCEPT ![c] = Tail(@)]
      /\ nth'[s] = nth[s] + 1 /\ ans'[s] = Heard(s, v)
      /\ \A t \in Name \ {s} : pc'[t] = pc[t] /\ nth'[t] = nth[t] /\ ans'[t] = ans[t]
  BY <1>b, <1>c DEF Hear, Goto, SInv, TypeOK
<1>2. /\ c \in Name /\ IsChild(c, s) /\ c # s /\ nth[s] \in DOMAIN child[s]
  BY <1>a, <1>b
<1>3. cmd[s] = cmd[Manager]
  BY <1>1, FindCommand DEF Handling
<1>4. ans'[s] = v
  BY <1>1, <1>3 DEF Heard, Direct
<1>5. v \in Answer_ /\ up'[c] = <<>> /\ \A t \in Name \ {c} : up'[t] = up[t]
  BY <1>1, <1>2, <1>c, TakeUp DEF SInv
<1>6. pc[c] # "ask" /\ up[s] = <<>>
  BY <1>1, <1>2 DEF SInv, TokenInv, Working
<1>7. \A t \in Name \ {s, c} : Good(t)' <=> Good(t)
  BY <1>1, <1>5 DEF Good
<1>8. ~Good(c)' /\ (Good(s)' <=> v.ok) /\ ~Good(s) /\ (Good(c) <=> v.ok)
  <2>1. ~Good(s) /\ (Good(c) <=> v.ok)
    BY <1>1, <1>6, <1>c DEF Good
  <2>2. pc'[c] # "ask"
    BY <1>1, <1>2, <1>6
  <2>3. ~Good(c)'
    BY <2>2, <1>5 DEF Good
  <2>4. up'[s] = <<>>
    BY <1>2, <1>5, <1>6
  <2>5. Good(s)' <=> v.ok
    BY <2>4, <1>1, <1>4 DEF Good
  <2>6. QED
    BY <2>1, <2>3, <2>5
<1>9. /\ route' = IF v.ok THEN [route EXCEPT ![s][x] = c] ELSE route
      /\ route \in [Name -> [{0, 1} -> Name \cup {None}]] /\ None \notin Name
  BY <1>3, <1>b, <1>c, NameAssumption DEF Hear, SInv, TypeOK
<1>10. /\ \A t \in Name \ {s} : route'[t] = route[t]
       /\ v.ok => route'[s][x] = c
       /\ \A y \in {0, 1} : y # x \/ ~v.ok => route'[s][y] = route[s][y]
  BY <1>0, <1>9
<1>11. \A t \in Name : Under(t)' = Under(t) /\ \A y \in {0, 1} : Above(t, y)' <=> Above(t, y)
  BY <1>0 DEF Under, Above, IsChild
<1>12. ASSUME NEW t \in Name, NEW y \in {0, 1}
       PROVE  /\ Has(t, y) => Has(t, y)'
              /\ ~(t = s /\ y = x /\ v.ok) => (Has(t, y)' <=> Has(t, y)) /\ route'[t][y] = route[t][y]
  <2>0. pc'[t] = "reset" <=> pc[t] = "reset"
    BY <1>1
  <2>1. ~(t = s /\ y = x /\ v.ok) => route'[t][y] = route[t][y]
    BY <1>10
  <2>2. t = s /\ y = x /\ v.ok => route'[t][y] # None
    BY <1>2, <1>9, <1>10
  <2>3. QED
    BY <2>0, <2>1, <2>2 DEF Has
<1>13. v.ok => Has(s, x)' /\ Located(c, x)
  BY <1>0, <1>1, <1>2, <1>8, <1>9, <1>10, SearchParts DEF Has
<1>14. LeadInv'
  <2> SUFFICES ASSUME NEW t \in Name, NEW y \in {0, 1}, Has(t, y)' PROVE Partner(y)' \in S!Below(child, route'[t][y])
    BY DEF LeadInv, Under
  <2>1. CASE t = s /\ y = x /\ v.ok
    BY <1>0, <1>10, <1>13, <2>1 DEF Located, Under
  <2>2. CASE ~(t = s /\ y = x /\ v.ok)
    <3>1. Has(t, y) /\ route'[t][y] = route[t][y]
      BY <1>12, <2>2
    <3>2. Partner(y) \in S!Below(child, route[t][y])
      BY <3>1 DEF LeadInv, Under
    <3>3. QED
      BY <1>0, <3>1, <3>2
  <2>3. QED
    BY <2>1, <2>2
<1>15. ASSUME NEW t \in Name, Good(t)' PROVE Located(t, x)'
  <2>1. CASE t # s
    <3>1. Good(t)
      BY <2>1, <1>7, <1>8, <1>15
    <3>2. Located(t, x)
      BY <3>1, SearchParts
    <3>3. Partner(x)' \in Under(t)'
      BY <3>2, <1>0, <1>11 DEF Located
    <3>4. ASSUME NEW u \in Under(t)', Above(u, x)' PROVE Has(u, x)'
      <4>1. u \in Under(t) /\ u \in Name
        BY <1>11, <3>4, BelowLeast DEF Under
      <4>2. Above(u, x)
        BY <1>0, <1>11, <3>4, <4>1
      <4>3. Has(u, x)
        BY <3>2, <4>1, <4>2 DEF Located
      <4>4. QED
        BY <1>0, <1>12, <4>1, <4>3
    <3>5. QED
      BY <3>3, <3>4 DEF Located
  <2>2. CASE t = s
    <3>1. Located(c, x) /\ Has(s, x)'
      BY <1>8, <1>13, <1>15, <2>2
    <3>2. Partner(x) \in Under(s)
      BY <3>1, <1>0, <1>2, BelowDown DEF Located, Under, IsChild
    <3>3. ASSUME NEW u \in Under(s), Above(u, x) PROVE Has(u, x)'
      <4>1. CASE u = s
        BY <3>1, <4>1
      <4>2. CASE u # s
        <5>1. PICK d \in ToSet(child[s]) : u \in Under(d)
          BY <1>0, <3>3, <4>2, BelowDown DEF Under
        <5>2. d \in Name /\ u \in Name
          BY <1>0, <5>1, BelowDown, BelowLeast DEF Under
        <5>3. Partner(x) \in Under(u)
          BY <1>0, <3>3, <5>2, AboveUnder
        <5>4. Partner(x) \in Under(d)
          BY <1>0, <5>1, <5>2, <5>3, BelowTransitive DEF Under
        <5>5. d = c
          BY <1>0, <1>2, <3>1, <5>1, <5>4, BelowApart DEF Located, Under, IsChild
        <5>6. Has(u, x)
          BY <3>1, <3>3, <5>1, <5>5 DEF Located
        <5>7. QED
          BY <1>0, <1>12, <5>2, <5>6
      <4>3. QED
        BY <4>1, <4>2
    <3>4. \A u \in Under(s)' : u \in Under(s) /\ u \in Name /\ (Above(u, x)' <=> Above(u, x))
      BY <1>0, <1>11, BelowLeast DEF Under
    <3>5. QED
      BY <1>0, <1>11, <2>2, <3>2, <3>3, <3>4 DEF Located
  <2>3. QED
    BY <2>1, <2>2
<1>16. ASSUME NEW t \in Name, pc'[t] \in {"ask", "hear"}, ~Good(t)' PROVE Missed(t, x)'
  <2>1. CASE t # s
    <3>1. ~Good(t)
      <4>1. CASE t = c
        BY <4>1, <1>1, <1>2, <1>6, <1>16 DEF SInv, TokenInv, Working
      <4>2. CASE t # c
        BY <4>2, <2>1, <1>7, <1>16
      <4>3. QED
        BY <4>1, <4>2
    <3>2. Missed(t, x)
      BY <2>1, <3>1, <1>1, <1>16, SearchParts
    <3>3. QED
      BY <2>1, <3>2, <1>0, <1>1 DEF Missed, Under
  <2>2. CASE t = s
    <3>1. ~v.ok
      BY <1>8, <1>16, <2>2
    <3>2. Partner(x) \notin Under(c)
      BY <1>1, <1>2, <1>c, <3>1, SearchParts
    <3>3. Missed(s, x)
      BY <1>1, <1>8, SearchParts
    <3>4. \A k \in DOMAIN child[s] : k < nth[s] + 1 => k < nth[s] \/ k = nth[s]
      <4>1. nth[s] \in Nat /\ child[s] \in Seq(Name)
        BY DEF SInv, TypeOK
      <4>2. QED
        BY <4>1
    <3>5. \A k \in DOMAIN child[s] : k < nth[s] + 1 => Partner(x) \notin Under(child[s][k])
      BY <1>b, <3>2, <3>3, <3>4 DEF Missed, Current
    <3>6. QED
      BY <1>0, <1>1, <2>2, <3>5 DEF Missed, Under
  <2>3. QED
    BY <2>1, <2>2
<1>17. ASSUME NEW t \in Name, up'[t] # <<>>, ~Head(up'[t]).ok PROVE Partner(x)' \notin Under(t)'
  <2>1. up[t] # <<>> /\ ~Head(up[t]).ok
    BY <1>5, <1>17
  <2>2. Partner(x) \notin Under(t)
    BY <2>1, SearchParts
  <2>3. QED
    BY <2>2, <1>0, <1>11
<1>18. ASSUME x = 1, NEW t \in Name, Above(t, 0)' PROVE Has(t, 0)'
  <2>1. Above(t, 0)
    BY <1>11, <1>18
  <2>2. Has(t, 0)
    BY <2>1, <1>18, SearchParts
  <2>3. QED
    BY <2>2, <1>12
<1>19. SearchInv'
  BY <1>15, <1>16, <1>17, <1>18, SearchParts_
<1>20. QED
  BY <1>14, <1>19

\* A step of a service while finds() runs.
LEMMA SearchStep ==
    ASSUME SInv, SInv', PartnerInv, LeadInv, SearchInv, cmd[Manager].op = "find", NEW s \in Name, service(s)
    PROVE  LeadInv' /\ SearchInv' /\ WholeInv'
<1>1. Receive(s) \/ Ask(s) \/ Hear(s) \/ Reply(s) \/ Reset(s)
  BY FindSteps
<1>2. child' = child /\ ~Fork(s)
  BY TreeStill DEF ExchangeOps
<1>3. cmd'[Manager] = cmd[Manager]
  BY <1>2, Keeps
<1>4. WholeInv'
  BY <1>3 DEF WholeInv
<1>5. QED
  BY <1>1, <1>2, <1>3, <1>4, SearchReceive, SearchAsk, SearchHear, SearchReply, SearchReset

\* Whoever has a partner below it is in the Manager's tree.
LEMMA AboveAlive ==
    ASSUME SInv, ParentInv, pc[Manager] # "dead", NEW x \in {0, 1}, NEW t \in Name, Above(t, x)
    PROVE  t \in Under(Manager)
<1>1. pc[t] # "dead"
  BY ParentAlive DEF Above
<1>2. QED
  BY <1>1, AliveUnder

\* The Manager needs no route to itself.
LEMMA ManagerAbove ==
    ASSUME SInv, ParentInv, pc[Manager] # "dead", NEW x \in {0, 1}, Partner(x) = Manager, NEW t \in Name
    PROVE  ~Above(t, x)
<1>1. SUFFICES ASSUME Above(t, x) PROVE FALSE
  OBVIOUS
<1>2. t \in Under(Partner(x)) /\ Partner(x) \in Name
  BY <1>1, AboveAlive, NameAssumption
<1>3. QED
  BY <1>1, <1>2, NoAbove

\* A search that has come to its end has left a route wherever one is needed.
LEMMA ManagerFound ==
    ASSUME SInv, ParentInv, PartnerInv, SearchInv, cmd[Manager].op = "find", pc[Manager] = "ask", Over(Manager),
           NEW x, x = cmd[Manager].n, NEW t \in Name, Above(t, x)
    PROVE  Has(t, x)
<1>0. x \in {0, 1} /\ Partner(x) \in Name /\ Manager \in Name /\ pc[Partner(x)] # "dead" /\ pc[Manager] # "dead"
  BY FindCommand, NameAssumption DEF PartnerInv, ExchangeOps
<1>1. t \in Under(Manager)
  BY <1>0, AboveAlive
<1>2. CASE ans[Manager].ok
  <2>1. Good(Manager)
    BY <1>2 DEF Good
  <2>2. Located(Manager, x)
    BY <1>0, <2>1, SearchParts
  <2>3. QED
    BY <1>1, <2>2 DEF Located
<1>3. CASE ~ans[Manager].ok
  <2>1. ~Good(Manager)
    BY <1>3 DEF Good, SInv, LinkInv
  <2>2. Missed(Manager, x)
    BY <1>0, <2>1, SearchParts
  <2>3. nth[Manager] > Len(child[Manager]) /\ Manager # Partner(x)
    BY <1>0, <1>3 DEF Over, SInv, FindInv
  <2>4. Partner(x) \notin Under(Manager)
    BY <1>0, <2>2, <2>3, NotBelow
  <2>5. Partner(x) \in Under(Manager)
    BY <1>0, AliveUnder
  <2>6. QED
    BY <2>4, <2>5
<1>4. QED
  BY <1>2, <1>3

\* The next phase of an exchange begins with the routes of the last.
LEMMA SearchAdvance ==
    ASSUME SInv, ParentInv, PartnerInv, LeadInv, SearchInv, Advance
    PROVE  LeadInv' /\ SearchInv' /\ WholeInv'
<1>a. PICK m : m = cmd[Manager]
  OBVIOUS
<1>b. PICK n : n = NextPhase(m)
  OBVIOUS
<1>0. /\ Manager \in Name /\ TypeOK /\ m \in Command_ /\ pc[Manager] = "ask" /\ Over(Manager)
      /\ m.op \in {"traverse", "find"} /\ Begin(Manager, n)
  BY <1>a, <1>b, NameAssumption DEF SInv, TypeOK, Advance
<1>c. m.op = "find" => m.n \in {0, 1}
  BY <1>a DEF SInv, PhaseInv
<1>1. /\ n \in Command_ /\ n.a = m.a /\ n.b = m.b /\ n.op \in {"find", "start"}
      /\ n.op = "find" => n.n \in {0, 1} /\ (n.n = 1 => (m.op = "traverse" /\ m.a = Manager) \/ (m.op = "find" /\ m.n = 0))
      /\ n.op = "start" => m.op = "find" /\ (m.n = 1 \/ (m.n = 0 /\ m.b = Manager))
  <2>1. CASE m.op = "traverse"
    BY <2>1, <1>0, <1>b DEF NextPhase, Cmd, Command_
  <2>2. CASE m.op = "find" /\ m.n = 0 /\ m.b # Manager
    <3>1. n = Cmd("find", m.a, m.b, 1)
      BY <2>2, <1>b DEF NextPhase
    <3>2. QED
      BY <2>2, <3>1, <1>0 DEF Cmd, Command_
  <2>3. CASE m.op = "find" /\ ~(m.n = 0 /\ m.b # Manager)
    <3>1. n = Cmd("start", m.a, m.b, 0)
      BY <2>3, <1>b DEF NextPhase
    <3>2. QED
      BY <2>3, <3>1, <1>0, <1>c DEF Cmd, Command_
  <2>4. QED
    BY <1>0, <2>1, <2>2, <2>3
<1>2. /\ cmd'[Manager] = n /\ pc'[Manager] \in {"ask", "tell"} /\ nth'[Manager] = 1 /\ ans'[Manager] = FirstAns(Manager, n)
      /\ \A t \in Name \ {Manager} : pc'[t] = pc[t]
  <2>1. n.op # "spawn"
    BY <1>1
  <2>2. QED
    BY <1>0, <1>1, <2>1, BeginFacts
<1>3. UNCHANGED <<child, route, down, up>>
  BY DEF Advance, globals, pipes
<1>4. \A t \in Name \ {Manager} : ~Active(t)
  BY <1>0, ManagerAlone DEF Exchanging
<1>5. \A y \in {0, 1} : Partner(y)' = Partner(y) /\ Partner(y) \in Name
  BY <1>0, <1>1, <1>2, <1>a DEF Partner, Command_
<1>6. \A t \in Name : Under(t)' = Under(t)
  BY <1>3 DEF Under
<1>7. \A t \in Name : \A y \in {0, 1} : (Above(t, y)' <=> Above(t, y)) /\ (Has(t, y)' <=> Has(t, y))
  <2>1. \A t \in Name : pc'[t] = "reset" <=> pc[t] = "reset"
    BY <1>0, <1>2
  <2>2. QED
    BY <1>3, <1>5, <1>6, <2>1 DEF Above, Has, IsChild
<1>8. LeadInv'
  <2> SUFFICES ASSUME NEW t \in Name, NEW y \in {0, 1}, Has(t, y)' PROVE Partner(y)' \in S!Below(child, route'[t][y])
    BY <1>3 DEF LeadInv, Under
  <2>1. Has(t, y)
    BY <1>7
  <2>2. cmd[Manager].op \in {"find", "start"}
    BY <2>1 DEF SInv, RouteInv
  <2>3. Partner(y) \in S!Below(child, route[t][y])
    BY <2>1, <2>2 DEF LeadInv, Under
  <2>4. QED
    BY <1>3, <1>5, <2>3
<1>9. SearchInv'
  <2> SUFFICES ASSUME n.op = "find" PROVE SearchInv'
    BY <1>1, <1>2 DEF SearchInv
  <2>1. PICK x \in {0, 1} : x = n.n
    BY <1>1
  <2>2. \A t \in Name : up'[t] = <<>>
    BY <1>3, <1>4 DEF Active, SInv, LinkInv
  <2>3. \A t \in Name \ {Manager} : pc'[t] \notin {"ask", "hear"}
    BY <1>2, <1>4 DEF Active, Working
  <2>4. ASSUME NEW t \in Name, Good(t)' PROVE Located(t, x)'
    <3>1. t = Manager /\ ans'[Manager].ok
      BY <2>2, <2>3, <2>4 DEF Good
    <3>2. ans'[Manager] = Answer(Wanted(n) = Manager, 0)
      BY <1>2 DEF FirstAns
    <3>3. \A b \in BOOLEAN : Answer(b, 0).ok = b
      BY DEF Answer
    <3>4. Wanted(n) = Manager
      BY <3>1, <3>2, <3>3
    <3>5. Partner(x) = Manager
      BY <1>1, <1>a, <2>1, <3>4 DEF Wanted, Partner
    <3>6. Manager \in Under(Manager) /\ Under(Manager) \subseteq Name
      BY <1>0, BelowLeast DEF Under
    <3>7. \A u \in Under(Manager) : ~Above(u, x)
      BY <1>0, <3>5, NoAbove
    <3>8. Partner(x)' \in Under(t)'
      BY <1>0, <1>5, <1>6, <3>1, <3>5, <3>6
    <3>9. \A u \in Under(t)' : ~Above(u, x)'
      BY <1>0, <1>6, <1>7, <3>1, <3>6, <3>7
    <3>10. QED
      BY <3>8, <3>9 DEF Located
  <2>5. ASSUME NEW t \in Name, pc'[t] \in {"ask", "hear"} PROVE Missed(t, x)'
    <3>1. t = Manager
      BY <2>3, <2>5
    <3>2. child[Manager] \in Seq(Name)
      BY <1>0 DEF TypeOK
    <3>3. \A k \in DOMAIN child[Manager] : ~(k < 1)
      BY <3>2
    <3>4. QED
      BY <1>2, <1>3, <3>1, <3>3 DEF Missed
  <2>6. ASSUME x = 1, NEW t \in Name, Above(t, 0)' PROVE Has(t, 0)'
    <3>1. Above(t, 0)
      BY <1>7, <2>6
    <3>2. CASE m.op = "traverse" /\ m.a = Manager
      <4>1. Partner(0) = Manager
        BY <3>2, <1>a DEF Partner
      <4>2. QED
        BY <1>0, <3>1, <4>1, ManagerAbove
    <3>3. CASE m.op = "find" /\ m.n = 0
      <4>1. Has(t, 0)
        BY <1>0, <1>a, <3>1, <3>3, ManagerFound
      <4>2. QED
        BY <1>7, <4>1
    <3>4. QED
      BY <1>1, <2>1, <2>6, <3>2, <3>3
  <2>7. QED
    BY <1>2, <2>1, <2>2, <2>4, <2>5, <2>6, SearchParts_
<1>10. WholeInv'
  <2> SUFFICES ASSUME n.op = "start", NEW t \in Name PROVE Whole(t)'
    BY <1>2 DEF WholeInv
  <2>1. ASSUME NEW y \in {0, 1}, Above(t, y) PROVE Has(t, y)
    <3>1. CASE y = m.n
      BY <1>0, <1>1, <1>a, <2>1, <3>1, ManagerFound
    <3>2. CASE y = 0 /\ m.n = 1
      BY <1>1, <1>a, <2>1, <3>2, SearchParts
    <3>3. CASE y = 1 /\ m.n = 0
      <4>1. Partner(1) = Manager
        BY <1>1, <1>a, <3>3 DEF Partner
      <4>2. QED
        BY <1>0, <2>1, <3>3, <4>1, ManagerAbove
    <3>4. QED
      BY <1>1, <3>1, <3>2, <3>3
  <2>2. QED
    BY <1>7, <2>1 DEF Whole
<1>11. QED
  BY <1>8, <1>9, <1>10

-------------------------------------------------------------------------------
(* The exchange itself *)

\* A step of a service once the exchange has begun.
LEMMA StartSteps ==
    ASSUME SInv, PartnerInv, cmd[Manager].op = "start", NEW s \in Name, service(s)
    PROVE  /\ child' = child /\ cmd'[Manager] = cmd[Manager] /\ (Receive(s) \/ start_exchange(s)) /\ ~Fork(s)
           /\ \A t \in Name \ {s} : pc'[t] = pc[t] /\ nth'[t] = nth[t] /\ route'[t] = route[t]
           /\ route'[s] = route[s] \/ Reset(s)
           /\ pc[s] \in Exchanging => pc'[s] \in Exchanging \/ Done(s)
           /\ pc[s] \in Exchanging => route'[s] = route[s]
           /\ pc'[s] \in Exchanging => pc[s] \in Exchanging \/ (Receive(s) /\ down[s] # <<>>)
           /\ pc'[s] = "tell" => (Receive(s) /\ down[s] # <<>>) \/ (Tell(s) /\ pc[s] = "tell" /\ nth'[s] = nth[s] + 1)
           /\ Done(s) => s # Manager /\ pc[s] = "collect" /\ pc'[s] = "reset"
           /\ Reset(s) => pc[s] = "reset" /\ route'[s] = NoRoute
           /\ pc'[s] = "reset" => Done(s)
<1>0. pc \in [Name -> {"dead", "born", "idle", "fork", "ask", "hear", "tell", "open1", "open2",
                       "give", "take", "collect", "reset"}] /\ route \in [Name -> [{0, 1} -> Name \cup {None}]]
      /\ nth \in [Name -> Nat \ {0}]
  BY DEF SInv, TypeOK
<1>1. child' = child /\ ~Fork(s) /\ ~Orphan(s)
  BY TreeStill DEF ExchangeOps
<1>2. cmd'[Manager] = cmd[Manager] /\ (pc'[s] = "reset" => Done(s))
  BY <1>1, Keeps
<1>3. pc[s] \notin {"ask", "hear", "born"}
  BY OtherPhase
<1>4. Receive(s) \/ start_exchange(s)
  BY <1>1, <1>3 DEF service, Born, Ask, Hear, Reply
<1>5. \A t \in Name \ {s} : pc'[t] = pc[t] /\ nth'[t] = nth[t] /\ route'[t] = route[t]
  BY <1>1, Local DEF Step
<1>6. CASE Receive(s)
  <2>1. pc[s] = "idle" /\ route' = route /\ down[s] # <<>>
    BY <1>6 DEF Receive, globals
  <2>2. ~Done(s) /\ ~Reset(s)
    BY <2>1 DEF Done, Reset
  <2>3. QED
    BY <1>1, <1>2, <1>4, <1>5, <1>6, <2>1, <2>2 DEF Exchanging
<1>7. CASE Tell(s)
  <2>1. pc[s] = "tell" /\ pc'[s] = "tell" /\ route' = route /\ nth'[s] = nth[s] + 1
    BY <1>0, <1>7 DEF Tell, globals
  <2>2. ~Done(s) /\ ~Reset(s)
    BY <2>1 DEF Done, Reset
  <2>3. QED
    BY <1>1, <1>2, <1>4, <1>5, <1>7, <2>1, <2>2 DEF Exchanging
<1>8. CASE Told(s) \/ exchanges(s) \/ Collect(s)
  <2>1. pc[s] \in Exchanging /\ pc'[s] \in Exchanging \ {"tell"} /\ route' = route
    BY <1>0, <1>8 DEF Told, exchanges, Open1, Open2, Give, TakeFirst, TakeSecond, Collect, Goto, Exchanging, globals
  <2>2. ~Reset(s)
    BY <2>1 DEF Reset, Exchanging
  <2>3. ~Done(s)
    <3>1. Done(s) => pc'[s] = "reset"
      BY <1>0 DEF Done, Finish, Goto
    <3>2. QED
      BY <2>1, <3>1 DEF Exchanging
  <2>4. QED
    BY <1>1, <1>2, <1>4, <1>5, <2>1, <2>2, <2>3
<1>9. CASE Done(s)
  <2>1. pc[s] = "collect" /\ pc'[s] = "reset" /\ route' = route /\ s # Manager
    BY <1>0, <1>9 DEF Done, Finish, Goto, globals
  <2>2. ~Reset(s)
    BY <2>1 DEF Reset
  <2>3. QED
    BY <1>1, <1>2, <1>4, <1>5, <1>9, <2>1, <2>2 DEF Exchanging
<1>10. CASE Reset(s)
  <2>1. pc[s] = "reset" /\ pc'[s] = "idle" /\ route'[s] = NoRoute
    BY <1>0, <1>10 DEF Reset, Goto
  <2>2. ~Done(s)
    BY <2>1 DEF Done
  <2>3. QED
    BY <1>1, <1>2, <1>4, <1>5, <1>10, <2>1, <2>2 DEF Exchanging
<1>11. QED
  BY <1>4, <1>6, <1>7, <1>8, <1>9, <1>10 DEF start_exchange

\* Nobody gets a route, and only who answers its parent loses any.
LEMMA StartHas ==
    ASSUME SInv, PartnerInv, cmd[Manager].op = "start", NEW s \in Name, service(s),
           NEW t \in Name, NEW y \in {0, 1}
    PROVE  /\ Has(t, y)' => Has(t, y) /\ route'[t][y] = route[t][y]
           /\ ~(t = s /\ Done(s)) => (Has(t, y)' <=> Has(t, y))
           /\ t = s /\ Done(s) => ~Has(t, y)'
<1>1. CASE t # s
  <2>1. pc'[t] = pc[t] /\ route'[t] = route[t]
    BY <1>1, StartSteps
  <2>2. QED
    BY <1>1, <2>1 DEF Has
<1>2. CASE t = s /\ Reset(s)
  <2>1. pc[s] = "reset" /\ route'[s][y] = None
    BY <1>2, StartSteps DEF NoRoute
  <2>2. ~Done(s)
    BY <2>1 DEF Done
  <2>3. QED
    BY <1>2, <2>1, <2>2 DEF Has
<1>3. CASE t = s /\ ~Reset(s)
  <2>1. route'[s] = route[s]
    BY <1>3, StartSteps
  <2>2. pc'[s] = "reset" <=> Done(s)
    BY StartSteps
  <2>3. pc[s] # "reset"
    BY <1>3, StartSteps, Keeps
  <2>4. QED
    BY <1>3, <2>1, <2>2, <2>3 DEF Has
<1>4. QED
  BY <1>1, <1>2, <1>3

\* The parent of a service that exchanges has told it.
LEMMA ParentTold ==
    ASSUME SInv, NEW s \in Name, pc[s] \in Exchanging, NEW p \in Name, IsChild(s, p)
    PROVE  pc[p] \in Exchanging /\ ~Untold(p, s) /\ p # s
<1>1. Active(s)
  BY DEF Active, Working, Exchanging
<1>2. Engaged(p, s)
  BY <1>1, ParentWaits
<1>3. cmd[Manager].op = "start"
  BY StartPhase
<1>4. pc[p] # "hear"
  BY <1>3, OtherPhase
<1>5. pc[p] \in Exchanging
  BY <1>2, <1>4, EngagedWorks
<1>6. p # s
  BY NotOwnChild DEF SInv
<1>7. CASE pc[p] # "tell"
  BY <1>5, <1>6, <1>7 DEF Untold, Exchanging
<1>8. CASE pc[p] = "tell"
  <2>1. SUFFICES ASSUME Untold(p, s) PROVE FALSE
    BY <1>5, <1>6
  <2>2. PICK j \in DOMAIN Targets(p) : j < nth[p] /\ s = Targets(p)[j]
    BY <1>2, <1>8 DEF Engaged
  <2>3. Targets(p) = TargetsFor(p)
    BY <1>5, StartPhase
  <2>4. PICK k \in DOMAIN Targets(p) : Targets(p)[k] = s /\ k >= nth[p]
    BY <1>8, <2>1, <2>3 DEF Untold
  <2>5. j = k
    BY <2>2, <2>4, TargetsFacts DEF IsInjective
  <2>6. j \in Nat /\ nth[p] \in Nat
    <3>1. DOMAIN Targets(p) = 1..Len(Targets(p)) /\ Len(Targets(p)) \in Nat
      BY TargetsFacts
    <3>2. nth[p] \in Nat
      BY DEF SInv, TypeOK
    <3>3. QED
      BY <2>2, <3>1, <3>2
  <2>7. QED
    BY <2>2, <2>4, <2>5, <2>6
<1>9. QED
  BY <1>7, <1>8

\* Of an exchange: what stays as it is, and who has its routes.
LEMMA StartFrame ==
    ASSUME SInv, PartnerInv, cmd[Manager].op = "start", NEW s \in Name, service(s)
    PROVE  /\ child' = child /\ cmd'[Manager] = cmd[Manager] /\ ~Fork(s) /\ Manager \in Name
           /\ \A t \in Name \ {s} : pc'[t] = pc[t] /\ nth'[t] = nth[t] /\ route'[t] = route[t]
           /\ \A y \in {0, 1} : Partner(y)' = Partner(y)
           /\ \A t \in Name : Under(t)' = Under(t)
           /\ \A t \in Name : \A y \in {0, 1} : Above(t, y)' <=> Above(t, y)
           /\ \A t \in Name : /\ Whole(t)' => Whole(t)
                              /\ ~(t = s /\ Done(s)) => (Whole(t)' <=> Whole(t))
           /\ \A p \in Name \ {s} : \A t \in Name : Untold(p, t)' <=> Untold(p, t)
<1>0. /\ child' = child /\ cmd'[Manager] = cmd[Manager] /\ ~Fork(s) /\ Manager \in Name
      /\ \A t \in Name \ {s} : pc'[t] = pc[t] /\ nth'[t] = nth[t] /\ route'[t] = route[t]
  BY StartSteps, NameAssumption
<1>1. \A y \in {0, 1} : Partner(y)' = Partner(y)
  BY <1>0 DEF Partner
<1>2. \A t \in Name : Under(t)' = Under(t)
  BY <1>0 DEF Under
<1>3. \A t \in Name : \A y \in {0, 1} : Above(t, y)' <=> Above(t, y)
  BY <1>0, <1>1, <1>2 DEF Above, IsChild
<1>4. ASSUME NEW t \in Name PROVE /\ Whole(t)' => Whole(t)
                                  /\ ~(t = s /\ Done(s)) => (Whole(t)' <=> Whole(t))
  BY <1>3, StartHas DEF Whole
<1>5. \A p \in Name \ {s} : \A t \in Name : Untold(p, t)' <=> Untold(p, t)
  <2>1. ASSUME NEW p \in Name \ {s} PROVE TargetsFor(p)' = TargetsFor(p)
    BY <1>0 DEF TargetsFor, Along
  <2>2. QED
    BY <1>0, <2>1 DEF Untold
<1>6. QED
  BY <1>0, <1>1, <1>2, <1>3, <1>4, <1>5

\* Whoever is in the middle of the exchange has been told.
LEMMA PastBegins ==
    ASSUME SInv, PartnerInv, cmd[Manager].op = "start", NEW s \in Name, service(s), pc[s] \in Exchanging, ~Tell(s)
    PROVE  down'[s] = <<>> /\ Past(s)'
<1>1. down[s] = <<>>
  BY DEF SInv, TokenInv, Working, Exchanging
<1>2. ~Ask(s) /\ ~Fork(s)
  BY StartFrame DEF Ask, Exchanging
<1>3. down'[s] = <<>>
  BY <1>1, <1>2, Sent
<1>4. ASSUME NEW p \in Name, IsChild(s, p) PROVE pc'[p] \in Exchanging /\ ~Untold(p, s)'
  <2>1. pc[p] \in Exchanging /\ ~Untold(p, s) /\ p # s
    BY <1>4, ParentTold
  <2>2. QED
    BY <2>1, StartFrame
<1>5. QED
  BY <1>3, <1>4, StartFrame DEF Past, IsChild

\* A service with a partner below it is told once.
LEMMA PastStep ==
    ASSUME SInv, PartnerInv, WholeInv, cmd[Manager].op = "start", NEW s \in Name, service(s),
           NEW t \in Name, NEW y \in {0, 1}, Partner(y) \in Under(t), Past(t), down[t] = <<>>
    PROVE  down'[t] = <<>> /\ Past(t)'
<1>1. down'[t] = <<>>
  <2>1. SUFFICES ASSUME down'[t] # <<>> PROVE FALSE
    OBVIOUS
  <2>2. IsChild(t, s) /\ (Ask(s) \/ (Tell(s) /\ nth[s] \in DOMAIN Targets(s) /\ t = Targets(s)[nth[s]]))
    BY <2>1, StartFrame, Sent
  <2>3. ~Ask(s)
    BY OtherPhase DEF Ask
  <2>4. pc[s] = "tell" /\ nth[s] \in DOMAIN Targets(s) /\ t = Targets(s)[nth[s]]
    BY <2>2, <2>3 DEF Tell
  <2>5. Whole(s)
    BY <2>4 DEF WholeInv, Exchanging
  <2>6. ~Untold(s, t)
    BY <2>2, <2>5 DEF Past
  <2>7. Targets(s) = TargetsFor(s)
    BY <2>4, StartPhase DEF Exchanging
  <2>8. nth[s] >= nth[s]
    BY DEF SInv, TypeOK
  <2>9. QED
    BY <2>4, <2>6, <2>7, <2>8 DEF Untold
<1>2. ASSUME NEW p \in Name, IsChild(t, p)
      PROVE  ~Whole(p)' \/ (pc'[p] \in Exchanging /\ ~Untold(p, t)')
  <2>1. ~Whole(p) \/ (pc[p] \in Exchanging /\ ~Untold(p, t))
    BY <1>2 DEF Past
  <2>2. CASE ~Whole(p)
    BY <2>2, StartFrame
  <2>3. CASE Whole(p) /\ p # s
    BY <2>1, <2>3, StartFrame
  <2>4. CASE Whole(p) /\ p = s /\ Done(s)
    <3>1. Above(s, y)
      BY <1>2, <2>4 DEF Above
    <3>2. Above(s, y)' /\ ~Has(s, y)'
      BY <2>4, <3>1, StartFrame, StartHas
    <3>3. QED
      BY <2>4, <3>2 DEF Whole
  <2>5. CASE Whole(p) /\ p = s /\ ~Done(s)
    <3>1. pc[s] \in Exchanging /\ ~Untold(s, t)
      BY <2>1, <2>5
    <3>2. pc'[s] \in Exchanging /\ route'[s] = route[s]
      BY <2>5, <3>1, StartSteps
    <3>3. TargetsFor(s)' = TargetsFor(s)
      BY <3>2, StartFrame DEF TargetsFor, Along
    <3>4. ~Untold(s, t)'
      <4>1. SUFFICES ASSUME Untold(s, t)' PROVE FALSE
        OBVIOUS
      <4>2. pc'[s] = "tell"
        BY <3>2, <4>1 DEF Untold, Exchanging
      <4>3. pc[s] = "tell" /\ nth'[s] = nth[s] + 1
        BY <3>1, <4>2, StartSteps DEF Receive, Exchanging
      <4>4. PICK k \in DOMAIN TargetsFor(s) : TargetsFor(s)[k] = t /\ k >= nth[s] + 1
        BY <3>3, <4>1, <4>2, <4>3 DEF Untold
      <4>5. k \in Nat /\ nth[s] \in Nat
        BY TargetsForSeq DEF SInv, TypeOK
      <4>6. k >= nth[s]
        BY <4>4, <4>5
      <4>7. QED
        BY <3>1, <4>3, <4>4, <4>6 DEF Untold
    <3>5. QED
      BY <2>5, <3>2, <3>4
  <2>6. QED
    BY <2>2, <2>3, <2>4, <2>5
<1>3. QED
  BY <1>1, <1>2, StartFrame DEF Past, IsChild

\* A service that passes the exchange on has what it needs for it.
LEMMA WholeStep ==
    ASSUME SInv, PartnerInv, LeadInv, WholeInv, cmd[Manager].op = "start", NEW s \in Name, service(s)
    PROVE  LeadInv' /\ SearchInv' /\ WholeInv'
<1>1. LeadInv'
  <2> SUFFICES ASSUME NEW t \in Name, NEW y \in {0, 1}, Has(t, y)' PROVE Partner(y)' \in S!Below(child, route'[t][y])
    BY StartFrame DEF LeadInv, Under
  <2>1. Has(t, y) /\ route'[t][y] = route[t][y]
    BY StartHas
  <2>2. Partner(y) \in S!Below(child, route[t][y])
    BY <2>1 DEF LeadInv, Under
  <2>3. QED
    BY <2>1, <2>2, StartFrame
<1>2. SearchInv'
  BY StartFrame DEF SearchInv
<1>3. ASSUME NEW t \in Name, ~Whole(t)' PROVE t # Manager /\ pc'[t] \notin Exchanging /\ down'[t] = <<>> /\ Past(t)'
  <2>1. CASE t = s /\ Done(s)
    <3>1. s # Manager /\ pc'[s] = "reset" /\ pc[s] = "collect"
      BY <2>1, StartSteps
    <3>2. ~Tell(s) /\ pc[s] \in Exchanging
      BY <3>1 DEF Tell, Exchanging
    <3>3. QED
      BY <2>1, <3>1, <3>2, PastBegins DEF Exchanging
  <2>2. CASE ~(t = s /\ Done(s))
    <3>1. ~Whole(t)
      BY <1>3, <2>2, StartFrame
    <3>2. t # Manager /\ pc[t] \notin Exchanging /\ down[t] = <<>> /\ Past(t)
      BY <3>1 DEF WholeInv
    <3>3. pc'[t] \notin Exchanging
      <4>1. CASE t # s
        BY <3>2, <4>1, StartFrame
      <4>2. CASE t = s
        BY <3>2, <4>2, StartSteps
      <4>3. QED
        BY <4>1, <4>2
    <3>4. PICK y \in {0, 1} : Partner(y) \in Under(t)
      BY <3>1, AboveUnder DEF Whole
    <3>5. down'[t] = <<>> /\ Past(t)'
      BY <3>2, <3>4, PastStep
    <3>6. QED
      BY <3>2, <3>3, <3>5
  <2>3. QED
    BY <2>1, <2>2
<1>4. WholeInv'
  BY <1>3 DEF WholeInv
<1>5. QED
  BY <1>1, <1>2, <1>4

-------------------------------------------------------------------------------
(* The invariant *)

LEMMA ParentStep ==
    ASSUME SInv, ParentInv, EndInv, NEW s \in Name, Step(s)
    PROVE  ParentInv'
<1>1. \A t \in Name : pc'[t] # "dead" => pc[t] # "dead"
  BY Local, DeadRest
<1>2. CASE Hear(s)
  BY <1>2, ParentHear
<1>3. CASE Reply(s)
  BY <1>3, ParentReply
<1>4. CASE child' = child
  BY <1>1, <1>4, ParentFrame
<1>5. CASE PrintKill
  <2>1. UNCHANGED globals \/ Finish(Manager, "dead")
    BY <1>5 DEF PrintKill
  <2>2. Finish(Manager, "dead") => pc'[Manager] = "dead"
    BY NameAssumption, FinishFacts DEF SInv
  <2>3. QED
    BY <1>4, <2>1, <2>2 DEF globals, ParentInv
<1>6. Hear(s) \/ Reply(s) \/ child' = child \/ PrintKill
  BY DEF Step, service, manager, start_exchange, exchanges, Command, Eof, PrintSpawn, Advance, PrintExchange,
         Receive, Born, Ask, Orphan, Tell, Told, Open1, Open2, Give, TakeFirst, TakeSecond, Collect, Done, Reset,
         globals
<1>7. QED
  BY <1>2, <1>3, <1>4, <1>5, <1>6

\* The four parts about an exchange say nothing about other commands.
LEMMA NoExchange ==
    ASSUME cmd'[Manager].op \notin ExchangeOps
    PROVE  PartnerInv' /\ LeadInv' /\ SearchInv' /\ WholeInv'
BY DEF PartnerInv, LeadInv, SearchInv, WholeInv, ExchangeOps

LEMMA RouteStep ==
    ASSUME SInv, SInv', RInv, NEW s \in Name, Step(s)
    PROVE  RInv'
<1> USE DEF RInv
<1>1. ParentInv' /\ EndInv'
  BY ParentStep, EndStep
<1>2. CASE cmd'[Manager].op \notin ExchangeOps
  BY <1>1, <1>2, NoExchange
<1>3. CASE cmd'[Manager].op \in ExchangeOps /\ service(s) /\ ~Fork(s)
  <2>1. PartnerInv' /\ cmd[Manager].op \in ExchangeOps /\ cmd'[Manager] = cmd[Manager]
    BY <1>3, PartnerStep
  <2>2. CASE cmd[Manager].op = "traverse"
    BY <1>1, <2>1, <2>2 DEF LeadInv, SearchInv, WholeInv
  <2>3. CASE cmd[Manager].op = "find"
    BY <1>1, <1>3, <2>1, <2>3, SearchStep
  <2>4. CASE cmd[Manager].op = "start"
    BY <1>1, <1>3, <2>1, <2>4, WholeStep
  <2>5. QED
    BY <2>1, <2>2, <2>3, <2>4 DEF ExchangeOps
<1>4. CASE cmd'[Manager].op \in ExchangeOps /\ s = Manager /\ (Command \/ manager \/ Eof)
  <2>1. PartnerInv'
    BY <1>4, PartnerStep
  <2>2. CASE Command
    <3>1. cmd'[Manager].op = "traverse"
      BY <1>4, <2>2, NewCommand
    <3>2. QED
      BY <1>1, <2>1, <3>1 DEF LeadInv, SearchInv, WholeInv
  <2>3. CASE Advance
    BY <1>1, <2>1, <2>3, SearchAdvance
  <2>4. QED
    BY <1>4, <2>2, <2>3, NewCommand
<1>5. QED
  BY <1>2, <1>3, <1>4 DEF Step

LEMMA RouteFork ==
    ASSUME SInv, RInv, NEW s \in Name, Fork(s)
    PROVE  RInv'
<1>1. cmd' = cmd /\ cmd[Manager].op = "spawn"
  BY ForkFacts
<1>2. PartnerInv' /\ LeadInv' /\ SearchInv' /\ WholeInv'
  BY <1>1, NoExchange DEF ExchangeOps
<1>3. QED
  BY <1>2, ParentFork, EndFork DEF RInv

LEMMA RouteStutter ==
    ASSUME RInv, UNCHANGED vars
    PROVE  RInv'
<1>1. UNCHANGED <<child, route, pc, cmd, nth, ans, down, up>>
  BY DEF vars, globals, local, pipes
<1>2. ParentInv'
  BY <1>1 DEF RInv, ParentInv, IsChild
<1>3. EndInv'
  BY <1>1 DEF RInv, EndInv, Ends, Direct, Current
<1>4. PartnerInv'
  BY <1>1 DEF RInv, PartnerInv, Partner
<1>5. \A t : Under(t)' = Under(t)
  BY <1>1 DEF Under
<1>6. \A t, y : (Above(t, y)' <=> Above(t, y)) /\ (Has(t, y)' <=> Has(t, y)) /\ Partner(y)' = Partner(y)
  BY <1>1, <1>5 DEF Above, Has, IsChild, Partner
<1>7. LeadInv'
  BY <1>1, <1>6 DEF RInv, LeadInv, Under
<1>8. \A t : Good(t)' <=> Good(t)
  BY <1>1 DEF Good
<1>9. SearchInv'
  <2> SUFFICES ASSUME cmd[Manager].op = "find" PROVE SearchInv'
    BY <1>1 DEF SearchInv
  <2>1. PICK x : x = cmd[Manager].n
    OBVIOUS
  <2>2. \A t : (Located(t, x)' <=> Located(t, x)) /\ (Missed(t, x)' <=> Missed(t, x))
    BY <1>1, <1>5, <1>6 DEF Located, Missed, Under
  <2>3. QED
    BY <1>1, <1>5, <1>6, <1>8, <2>1, <2>2, SearchParts, SearchParts_ DEF RInv
<1>10. \A t : Whole(t)' <=> Whole(t)
  BY <1>6 DEF Whole
<1>11. \A p, t : Untold(p, t)' <=> Untold(p, t)
  BY <1>1 DEF Untold, TargetsFor, Along
<1>12. WholeInv'
  BY <1>1, <1>10, <1>11 DEF RInv, WholeInv, Past, IsChild
<1>13. QED
  BY <1>2, <1>3, <1>4, <1>7, <1>9, <1>12 DEF RInv

LEMMA RouteInit == Init => RInv
<1> SUFFICES ASSUME Init PROVE RInv
  OBVIOUS
<1>1. /\ \A s \in Name : pc[s] = IF s = Manager THEN "idle" ELSE "dead"
      /\ \A s \in Name : cmd[s] = Nothing
  BY DEF Init
<1>2. cmd[Manager].op = "none"
  BY <1>1, NameAssumption DEF Nothing, Cmd
<1>3. ParentInv /\ EndInv
  BY <1>1 DEF ParentInv, EndInv
<1>4. PartnerInv /\ LeadInv /\ SearchInv /\ WholeInv
  BY <1>2 DEF PartnerInv, LeadInv, SearchInv, WholeInv, ExchangeOps
<1>5. QED
  BY <1>3, <1>4 DEF RInv

\* In every tree and for every sequence of commands: nobody is lost from the
\* tables, finds() gives up on a service only when the partner is not below it,
\* and a service that is still to pass an exchange on has all its routes.
THEOREM RouteInvariant == Spec => []RInv
<1>1. Init => RInv
  BY RouteInit
<1>2. RInv /\ SInv /\ SInv' /\ [Next]_vars => RInv'
  <2> SUFFICES ASSUME RInv, SInv, SInv', [Next]_vars PROVE RInv'
    OBVIOUS
  <2>1. CASE Command \/ manager \/ Eof
    <3>1. Step(Manager) /\ Manager \in Name
      BY <2>1, NameAssumption DEF Step
    <3>2. QED
      BY <3>1, RouteStep
  <2>2. CASE Ended \/ UNCHANGED vars
    BY <2>2, RouteStutter DEF Ended
  <2>3. ASSUME NEW s \in Name, service(s) PROVE RInv'
    <3>1. CASE Fork(s)
      BY <3>1, RouteFork
    <3>2. CASE ~Fork(s)
      <4>1. Step(s)
        BY <2>3, <3>2 DEF Step
      <4>2. QED
        BY <4>1, RouteStep
    <3>3. QED
      BY <3>1, <3>2
  <2>4. QED
    BY <2>1, <2>2, <2>3 DEF Next
<1>3. QED
  BY <1>1, <1>2, ServiceInvariant, PTL DEF Spec

\* Whoever passes an exchange on has a route to each partner below it, through
\* the child that the partner is below, and none to a partner that is not:
\* finds() and the reset at the end of start_exchange() in service.c see to it
\* whatever the tree is and whatever was spawned, killed and exchanged before.
THEOREM RoutesLeadCorrect == Spec => []RoutesLead
<1>1. SInv /\ RInv => RoutesLead
  <2> SUFFICES ASSUME SInv, RInv, NEW s \in Name, pc[s] = "tell", NEW x \in {0, 1}
               PROVE  LET partner == IF x = 0 THEN cmd[s].a ELSE cmd[s].b
                          kids == {c \in ToSet(child[s]) : partner \in S!Below(child, c)} IN
                      IF kids = {} THEN route[s][x] = None ELSE route[s][x] \in kids
    BY DEF RoutesLead
  <2> DEFINE kids == {c \in ToSet(child[s]) : Partner(x) \in Under(c)}
  <2>1. cmd[Manager].op = "start" /\ cmd[s] = cmd[Manager]
    BY StartPhase DEF Exchanging
  <2>2. route[s][x] # None => route[s][x] \in kids
    <3>1. SUFFICES ASSUME route[s][x] # None PROVE route[s][x] \in kids
      OBVIOUS
    <3>2. Has(s, x)
      BY <3>1 DEF Has
    <3>3. Partner(x) \in Under(route[s][x])
      BY <2>1, <3>2 DEF RInv, LeadInv
    <3>4. route[s][x] \in ToSet(child[s])
      BY <3>1 DEF SInv, RouteInv, IsChild
    <3>5. QED
      BY <3>3, <3>4
  <2>3. kids # {} => route[s][x] # None
    <3>1. SUFFICES ASSUME kids # {} PROVE route[s][x] # None
      OBVIOUS
    <3>2. PICK c \in ToSet(child[s]) : Partner(x) \in Under(c)
      BY <3>1
    <3>3. c \in Name
      <4>1. child[s] \in Seq(Name)
        BY DEF SInv, TypeOK
      <4>2. QED
        BY <4>1 DEF ToSet
    <3>4. Above(s, x)
      BY <3>2, <3>3 DEF Above, IsChild
    <3>5. Whole(s)
      BY <2>1 DEF RInv, WholeInv, Exchanging
    <3>6. QED
      BY <3>4, <3>5 DEF Whole, Has
  <2>4. IF kids = {} THEN route[s][x] = None ELSE route[s][x] \in kids
    BY <2>2, <2>3
  <2>5. QED
    BY <2>1, <2>4 DEF Partner, Under
<1>2. QED
  BY <1>1, ServiceInvariant, RouteInvariant, PTL

===============================================================================
