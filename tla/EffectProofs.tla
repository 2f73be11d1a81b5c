----------------------------- MODULE EffectProofs -----------------------------
(***************************************************************************)
(* Proof that ServiceTree implements Services, for any number of services  *)
(* and every sequence of commands: a service is spawned where the command  *)
(* says, a kill ends a whole subtree and counts it, and two secrets that   *)
(* are exchanged change places.                                            *)
(***************************************************************************)
EXTENDS RouteProofs, FiniteSetTheorems

\* The tree when the Manager read its command: who was below s, and whether
\* nothing has changed since.
Was(s) == S!Below(saved.child, s)
Same == child = saved.child /\ secret = saved.secret /\ Alive = saved.alive

\* What the Manager printed last is a tree of the services that ran.
SavedInv == pc[Manager] # "dead" =>
    /\ IsTree(saved.child) /\ saved.secret \in [Name -> Secret \cup {None}] /\ saved.alive \subseteq Name
    /\ Manager \in saved.alive /\ saved.alive \subseteq Was(Manager)
    /\ \A s \in Name \ saved.alive : saved.child[s] = <<>>
    /\ \A p \in Name : ToSet(saved.child[p]) \subseteq saved.alive
    /\ pc[Manager] = "idle" => Same
    /\ pc[Manager] # "idle" => report = S!NoLine

\* Service a was below none of the children that s has asked.
NotAmong(s, a) == \A k \in DOMAIN child[s] : k < nth[s] => a \notin Was(child[s][k])

\* A spawn has no effect until the parent is found, and then all of it.
SpawnEffect == cmd[Manager].op = "spawn" => LET m == cmd[Manager] IN
    /\ m.b \notin saved.alive
    /\ Fresh(m) => /\ Same
                   /\ \A s \in Name : pc[s] \in {"ask", "hear"} => NotAmong(s, m.a)
                   /\ \A s \in Name : up[s] # <<>> /\ ~Head(up[s]).ok => m.a \notin Was(s)
    /\ ~Fresh(m) => /\ m.a \in saved.alive /\ child = [saved.child EXCEPT ![m.a] = Append(@, m.b)]
                    /\ \E v \in Secret : secret = [saved.secret EXCEPT ![m.b] = v]
                    /\ Alive = saved.alive \cup {m.b}
    /\ \A s \in Name : Good(s) \/ pc[s] = "born" \/ (pc[s] = "hear" /\ s = m.a) => ~Fresh(m)
    /\ \A s \in Name : (pc[s] = "fork" => s = m.a) /\ (pc[s] = "ask" /\ ~ans[s].ok => s # m.a)

\* Of s and the descendants that it had: itself and those below its first n - 1 children.
Reach(s, n) == {s} \cup {x \in Name : \E k \in DOMAIN saved.child[s] : k < n /\ x \in Was(saved.child[s][k])}

\* To kill t: m goes to those that t is not above, and those below t end.
Fit(m, s, t) == /\ m.op \in {"kill", "suicide"}
                /\ m.op = "kill" => m.a = t /\ s \notin Was(t)
                /\ m.op = "suicide" => s \in Was(t)

\* Only services below t end, each one after its children.
Ending(t) ==
    /\ cmd[Manager].b = t /\ t \in Name
    /\ cmd[Manager].op = "suicide" => t = Manager
    /\ \A s \in Name : /\ pc[s] \in Handling => Fit(cmd[s], s, t)
                       /\ down[s] # <<>> => Fit(Head(down[s]), s, t)
    /\ \A s \in Name \ saved.alive : pc[s] = "dead" /\ child[s] = saved.child[s] /\ secret[s] = saved.secret[s]
    /\ \A s \in saved.alive : pc[s] # "dead" => secret[s] = saved.secret[s]
    /\ \A s \in saved.alive : pc[s] = "dead" =>
          /\ s \in Was(t) /\ child[s] = <<>> /\ secret[s] = None
          /\ \A c \in ToSet(saved.child[s]) : pc[c] = "dead"

\* Until the parent of t has heard that t has ended, the other tables are whole
\* and each number is how many services have ended.
Before(t) ==
    /\ \A s \in saved.alive : pc[s] # "dead" => child[s] = saved.child[s]
    /\ \A s \in Name : pc[s] \in {"ask", "hear"} =>
          IF cmd[s].op = "suicide" THEN ans[s].n = Cardinality(Reach(s, nth[s])) ELSE NotAmong(s, t)
    /\ \A s \in Name : up[s] # <<>> =>
          IF pc[s] = "dead" THEN Head(up[s]).n = Cardinality(Was(s)) ELSE t \notin Was(s)
    /\ \A s \in Name : ~Good(s)

\* From then on t is in no table, and the number of those that have ended is passed on.
Number(s) == IF pc[s] = "ask" THEN ans[s].n ELSE Head(up[s]).n
After(t) ==
    /\ t \in saved.alive /\ pc[t] = "dead"
    /\ \A s \in saved.alive : pc[s] # "dead" => child[s] = S!RemoveFirst(saved.child[s], t)
    /\ \A s \in Name : Busy(s) => Good(s) /\ pc[s] # "dead" /\ Number(s) = Cardinality(Was(t))

KillEffect == cmd[Manager].op \in {"kill", "suicide"} => LET t == cmd[Manager].a IN
    Ending(t) /\ (Before(t) \/ After(t))

\* Partner x has the other's secret; so have the partners below c.
Other(x) == IF x = 0 THEN cmd[Manager].b ELSE cmd[Manager].a
Finished(x) == secret[Partner(x)] = saved.secret[Other(x)]
Complete(c) == \A x \in {0, 1} : Partner(x) \in Under(c) => Finished(x)

\* An exchange leaves the tree alone, and until it starts the secrets too.
Unmoved ==
    /\ child = saved.child /\ Alive = saved.alive
    /\ \A s \in Name : s \notin {Partner(0), Partner(1)} \/ cmd[Manager].op # "start" => secret[s] = saved.secret[s]
    /\ cmd[Manager].op # "start" => data = NoData

\* The FIFOs hold old secrets, and each partner takes one of them, once.
Trading ==
    /\ \A k \in DOMAIN data[1] : data[1][k] = saved.secret[Partner(0)]
    /\ \A k \in DOMAIN data[2] : data[2][k] = saved.secret[Partner(1)]
    /\ \A s \in Name : pc[s] \in {"open1", "open2", "give", "take"} => s \in {Partner(0), Partner(1)}
    /\ pc[Partner(0)] # "give"
    /\ \A x \in {0, 1} : pc[Partner(x)] = "collect" => Finished(x)
    /\ \A s \in Name : secret[s] # saved.secret[s] =>
          pc[s] \notin {"tell", "open1", "open2", "give", "take"} /\ down[s] = <<>> /\ Past(s)

\* An answer comes from a service below which all is done.
Gathered ==
    /\ \A c \in Name : up[c] # <<>> => Complete(c)
    /\ \A s \in Name : pc[s] = "collect" => \A k \in DOMAIN Targets(s) : k < nth[s] => Complete(Targets(s)[k])

ExchangeEffect == cmd[Manager].op \in ExchangeOps =>
    Unmoved /\ (cmd[Manager].op = "start" => Trading /\ Gathered)

-------------------------------------------------------------------------------
(* The Manager's records *)

\* A step of a service prints nothing, and leaves the Manager at its command.
LEMMA ServiceOutput ==
    ASSUME SInv, NEW s \in Name, service(s)
    PROVE  /\ saved' = saved /\ report' = report /\ cmd'[Manager] = cmd[Manager]
           /\ pc'[Manager] = "dead" <=> pc[Manager] = "dead"
           /\ pc'[Manager] = "idle" <=> pc[Manager] = "idle"
<1>0. Manager \in Name /\ pc \in [Name -> {"dead", "born", "idle", "fork", "ask", "hear", "tell", "open1", "open2",
                                            "give", "take", "collect", "reset"}]
  BY NameAssumption DEF SInv, TypeOK
<1>1. saved' = saved /\ report' = report
  BY DEF service, start_exchange, exchanges, Receive, Fork, Born, Ask, Hear, Reply, Orphan, Tell, Told, Open1, Open2,
         Give, TakeFirst, TakeSecond, Collect, Done, Reset, output
<1>2. CASE Fork(s)
  <2>1. pc[s] = "fork" /\ pc'[s] = "hear" /\ cmd[s].b # Manager /\ cmd' = cmd
        /\ \A t \in Name \ {s, cmd[s].b} : pc'[t] = pc[t]
    BY <1>2, ForkFacts
  <2>2. QED
    BY <1>0, <1>1, <2>1
<1>3. CASE ~Fork(s)
  <2>1. cmd'[Manager] = cmd[Manager]
    BY <1>3, Keeps
  <2>2. s # Manager => pc'[Manager] = pc[Manager]
    BY <1>0, <1>3, Local DEF Step
  <2>3. s = Manager => pc[s] \notin {"idle", "dead", "born", "reset"}
    BY DEF service, start_exchange, exchanges, Receive, Fork, Born, Ask, Hear, Reply, Orphan, Tell, Told, Open1, Open2,
           Give, TakeFirst, TakeSecond, Collect, Done, Reset, SInv, LinkInv
  <2>4. s = Manager => pc'[s] \notin {"idle", "dead"}
    <3>1. s = Manager => ~Receive(s) /\ ~Born(s) /\ ~Reply(s) /\ ~Orphan(s) /\ ~Done(s) /\ ~Reset(s)
      BY <2>3 DEF Receive, Born, Reply, Orphan, Done, Reset
    <3>2. Ask(s) \/ Hear(s) \/ Tell(s) \/ Told(s) \/ exchanges(s) \/ Collect(s) => pc'[s] \notin {"idle", "dead"}
      BY <1>0 DEF Ask, Hear, Tell, Told, exchanges, Open1, Open2, Give, TakeFirst, TakeSecond, Collect, Goto
    <3>3. QED
      BY <1>3, <3>1, <3>2 DEF service, start_exchange
  <2>5. QED
    BY <1>1, <2>1, <2>2, <2>3, <2>4
<1>4. QED
  BY <1>2, <1>3

\* While the Manager waits for its input only routes are reset.
LEMMA IdleStill ==
    ASSUME SInv, pc[Manager] = "idle", NEW s \in Name, service(s)
    PROVE  Reset(s)
<1>1. \A c \in Name : ~Engaged(Manager, c)
  BY DEF Engaged
<1>2. /\ \A c \in Name \ {Manager} : pc[c] \in {"idle", "dead", "reset"} /\ down[c] = <<>>
      /\ down[Manager] = <<>>
  BY <1>1, Calm, NameAssumption
<1>3. ~Orphan(s)
  <2>1. SUFFICES ASSUME NEW p \in Name, pc[p] = "dead", s \in ToSet(child[p]) PROVE FALSE
    BY DEF Orphan, Alive
  <2>2. child[p] # <<>>
    BY <2>1 DEF ToSet
  <2>3. QED
    BY <2>1, <2>2 DEF SInv, DeathInv
<1>4. QED
  BY <1>2, <1>3 DEF service, start_exchange, exchanges, Receive, Fork, Born, Ask, Hear, Reply, Tell, Told, Open1, Open2,
         Give, TakeFirst, TakeSecond, Collect, Done

LEMMA SavedService ==
    ASSUME SInv, SavedInv, NEW s \in Name, service(s)
    PROVE  SavedInv'
<1>1. /\ saved' = saved /\ report' = report /\ (pc'[Manager] = "dead" <=> pc[Manager] = "dead")
      /\ (pc'[Manager] = "idle" <=> pc[Manager] = "idle")
  BY ServiceOutput
<1>2. ASSUME pc[Manager] = "idle" PROVE Same' <=> Same
  <2>1. Reset(s)
    BY <1>2, IdleStill
  <2>2. child' = child /\ secret' = secret
    BY <2>1 DEF Reset
  <2>3. \A t \in Name : pc'[t] # "dead" <=> pc[t] # "dead"
    BY <2>1 DEF Reset, Goto, SInv, TypeOK
  <2>4. Alive' = Alive
    BY <2>3 DEF Alive
  <2>5. QED
    BY <1>1, <2>2, <2>4 DEF Same
<1>3. \A t : Was(t)' = Was(t)
  BY <1>1 DEF Was
<1>4. IsTree(saved.child)' <=> IsTree(saved.child)
  BY <1>1
<1>5. QED
  BY <1>1, <1>2, <1>3, <1>4 DEF SavedInv

\* A line that is printed tells the state of the tree.
Recorded == pc[Manager] = "idle" /\ saved = [child |-> child, secret |-> secret, alive |-> Alive]

LEMMA SavedState == SInv /\ ParentInv /\ Recorded => SavedInv
<1> SUFFICES ASSUME SInv, ParentInv, pc[Manager] = "idle", saved = [child |-> child, secret |-> secret, alive |-> Alive]
             PROVE  SavedInv
  BY DEF Recorded
<1>1. saved.child = child /\ saved.secret = secret /\ saved.alive = Alive
  OBVIOUS
<1>2. IsTree(child) /\ secret \in [Name -> Secret \cup {None}] /\ Alive \subseteq Name
  BY ChildIsTree DEF SInv, TypeOK, Alive
<1>3. Manager \in Alive /\ Alive \subseteq S!Below(child, Manager)
  BY NameAssumption, AliveUnder DEF Alive, Under
<1>4. \A s \in Name \ Alive : child[s] = <<>>
  BY DEF Alive, SInv, DeathInv
<1>5. \A p \in Name : ToSet(child[p]) \subseteq Alive
  <2>1. \A c \in Name : ~Engaged(Manager, c)
    BY DEF Engaged
  <2>2. \A c, p \in Name : IsChild(c, p) => pc[c] # "dead"
    BY <2>1, NoDeadChild DEF Handling, Exchanging
  <2>3. \A p \in Name : ToSet(child[p]) \subseteq Name
    <3>1. \A p \in Name : child[p] \in Seq(Name)
      BY DEF SInv, TypeOK
    <3>2. QED
      BY <3>1 DEF ToSet
  <2>4. QED
    BY <2>2, <2>3 DEF Alive, IsChild
<1>6. QED
  BY <1>1, <1>2, <1>3, <1>4, <1>5 DEF SavedInv, Same, Was

LEMMA SavedStatePrime == SInv' /\ ParentInv' /\ Recorded' => SavedInv'
BY SavedState, PTL

\* The Manager's own steps.
LEMMA SavedManager ==
    ASSUME SInv, SInv', ParentInv', SavedInv, Command \/ manager \/ Eof
    PROVE  SavedInv'
<1>0. Manager \in Name /\ TypeOK
  BY NameAssumption DEF SInv
<1>1. CASE Command
  <2>1. PICK m \in Input : Begin(Manager, m)
    BY <1>1 DEF Command
  <2>2. m \in Command_
    BY <1>0 DEF Input, Cmd, Command_, Alive
  <2>3. pc[Manager] = "idle" /\ pc'[Manager] \in {"fork", "tell", "ask"} /\ saved' = saved /\ report' = S!NoLine
    BY <1>0, <1>1, <2>1, <2>2, BeginFacts DEF Command
  <2>4. QED
    BY <2>3 DEF SavedInv, Was
<1>2. CASE Advance
  <2>1. pc[Manager] = "ask" /\ Begin(Manager, NextPhase(cmd[Manager])) /\ saved' = saved /\ report' = report
    BY <1>2 DEF Advance, output
  <2>2. pc'[Manager] \in {"fork", "tell", "ask"}
    BY <1>0, <2>1 DEF Begin, Goto, TypeOK
  <2>3. QED
    BY <2>1, <2>2 DEF SavedInv, Was
<1>3. CASE Eof
  <2>1. pc'[Manager] = "dead"
    BY <1>0, <1>3 DEF Eof, Goto, TypeOK
  <2>2. QED
    BY <2>1 DEF SavedInv
<1>4. CASE PrintSpawn \/ PrintKill \/ PrintExchange
  <2>1. Finish(Manager, "idle") \/ Finish(Manager, "dead")
    BY <1>4 DEF PrintSpawn, PrintKill, PrintExchange
  <2>2. pc'[Manager] \in {"idle", "dead"}
    BY <1>0, <2>1, FinishFacts
  <2>3. saved' = [child |-> child', secret |-> secret', alive |-> Alive']
    BY <1>4 DEF PrintSpawn, PrintKill, PrintExchange, Outcome, Alive
  <2>4. pc'[Manager] = "dead" => SavedInv'
    BY DEF SavedInv
  <2>5. QED
    BY <2>2, <2>3, <2>4, SavedStatePrime DEF Recorded
<1>5. QED
  BY <1>1, <1>2, <1>3, <1>4 DEF manager

-------------------------------------------------------------------------------
(* spawn *)

\* The steps that spawn and kill are made of.
LEMMA WorkSteps ==
    ASSUME SInv, cmd[Manager].op \in {"spawn", "kill", "suicide"}, NEW s \in Name, service(s)
    PROVE  Receive(s) \/ Fork(s) \/ Born(s) \/ Ask(s) \/ Hear(s) \/ Reply(s) \/ Reset(s)
<1>1. pc[s] \notin Exchanging
  BY StartPhase
<1>2. ~Orphan(s)
  <2>1. SUFFICES ASSUME NEW p \in Name, pc[p] = "dead", s \in ToSet(child[p]) PROVE FALSE
    BY DEF Orphan, Alive
  <2>2. child[p] # <<>>
    BY <2>1 DEF ToSet
  <2>3. pc[Manager] = "dead"
    BY <2>1, <2>2 DEF SInv, DeathInv
  <2>4. cmd[Manager].op = "none"
    BY <2>3 DEF SInv, PhaseInv, Nothing, Cmd
  <2>5. QED
    BY <2>4
<1>3. QED
  BY <1>1, <1>2 DEF service, start_exchange, Tell, Told, exchanges, Open1, Open2, Give,
        TakeFirst, TakeSecond, Collect, Done, Exchanging

LEMMA SpawnParts ==
    ASSUME SInv, SpawnEffect, NEW m, m = cmd[Manager], m.op = "spawn"
    PROVE  /\ m \in Command_ /\ m.a \in Name /\ m.b \in Name /\ pc[Manager] # "dead"
           /\ \A s \in Name : (pc[s] \in Handling => cmd[s] = m) /\ (down[s] # <<>> => Head(down[s]) = m)
           /\ m.b \notin saved.alive
           /\ Fresh(m) => /\ Same
                          /\ \A s \in Name : pc[s] \in {"ask", "hear"} => NotAmong(s, m.a)
                          /\ \A s \in Name : up[s] # <<>> /\ ~Head(up[s]).ok => m.a \notin Was(s)
           /\ \A s \in Name : Good(s) \/ pc[s] = "born" \/ (pc[s] = "hear" /\ s = m.a) => ~Fresh(m)
           /\ \A s \in Name : (pc[s] = "fork" => s = m.a) /\ (pc[s] = "ask" /\ ~ans[s].ok => s # m.a)
<1>1. m \in Command_ /\ m.a \in Name /\ m.b \in Name
  BY NameAssumption DEF SInv, TypeOK, Command_
<1>2. pc[Manager] # "dead"
  BY DEF SInv, PhaseInv, Nothing, Cmd
<1>3. \A s \in Name : (pc[s] \in Handling => cmd[s] = m) /\ (down[s] # <<>> => Head(down[s]) = m)
  BY DEF SInv, PhaseInv, SameCommand, Uniform
<1>4. QED
  BY <1>1, <1>2, <1>3 DEF SpawnEffect

\* A step that leaves the tree alone.
LEMMA SpawnFrame ==
    ASSUME SInv, SpawnEffect, NEW m, m = cmd[Manager], cmd'[Manager] = cmd[Manager], m.op = "spawn",
           child' = child, secret' = secret, saved' = saved,
           \A t \in Name : pc'[t] = "dead" <=> pc[t] = "dead",
           Fresh(m) => \A t \in Name : pc'[t] \in {"ask", "hear"} =>
                          \A k \in DOMAIN child[t] : k < nth'[t] => m.a \notin Was(child[t][k]),
           Fresh(m) => \A t \in Name : up'[t] # <<>> /\ ~Head(up'[t]).ok => m.a \notin Was(t),
           \A t \in Name : Good(t)' \/ pc'[t] = "born" \/ (pc'[t] = "hear" /\ t = m.a) => ~Fresh(m),
           \A t \in Name : (pc'[t] = "fork" => t = m.a) /\ (pc'[t] = "ask" /\ ~ans'[t].ok => t # m.a)
    PROVE  SpawnEffect'
<1>1. Alive' = Alive
  BY DEF Alive
<1>2. Same' <=> Same
  BY <1>1 DEF Same
<1>3. Fresh(m)' <=> Fresh(m)
  BY DEF Fresh, IsChild
<1>4. \A t : Was(t)' = Was(t)
  BY DEF Was
<1>5. /\ m.b \notin saved.alive /\ (Fresh(m) => Same)
      /\ ~Fresh(m) => /\ m.a \in saved.alive /\ child = [saved.child EXCEPT ![m.a] = Append(@, m.b)]
                      /\ \E v \in Secret : secret = [saved.secret EXCEPT ![m.b] = v]
                      /\ Alive = saved.alive \cup {m.b}
  BY DEF SpawnEffect
<1>6. Fresh(m) => \A t \in Name : pc'[t] \in {"ask", "hear"} => NotAmong(t, m.a)'
  BY DEF NotAmong, Was
<1>7. cmd'[Manager] = m
  OBVIOUS
<1>8. QED
  BY <1>1, <1>2, <1>3, <1>4, <1>5, <1>6, <1>7 DEF SpawnEffect

LEMMA SpawnReceive ==
    ASSUME SInv, SpawnEffect, cmd[Manager].op = "spawn", NEW s \in Name, Receive(s)
    PROVE  SpawnEffect'
<1>0. PICK m : m = cmd[Manager]
  OBVIOUS
<1>1. /\ Head(down[s]) \in Command_ /\ Begin(s, Head(down[s])) /\ pc[s] = "idle" /\ down[s] # <<>>
      /\ UNCHANGED <<child, secret, up, saved>>
  BY TakeDown DEF Receive, SInv, globals
<1>2. Head(down[s]) = m /\ m.op = "spawn" /\ m \in Command_
  BY <1>0, <1>1, SpawnParts
<1>3. /\ pc'[s] \in {"fork", "ask"} /\ nth'[s] = 1 /\ ans'[s] = FirstAns(s, m)
      /\ \A t \in Name \ {s} : pc'[t] = pc[t] /\ nth'[t] = nth[t] /\ ans'[t] = ans[t]
  BY <1>1, <1>2, BeginFacts DEF SInv
<1>4. pc'[s] = "fork" <=> m.a = s
  BY <1>1, <1>2 DEF Begin, Goto, SInv, TypeOK
<1>5. ~ans'[s].ok
  BY <1>2, <1>3 DEF FirstAns, Answer
<1>6. up[s] = <<>>
  BY <1>1 DEF SInv, TokenInv
<1>7. cmd'[Manager] = cmd[Manager]
  BY ServiceOutput DEF service
<1>8. \A t \in Name : Good(t)' => Good(t)
  BY <1>1, <1>3, <1>5, <1>6 DEF Good
<1>9. ASSUME Fresh(m), NEW t \in Name, pc'[t] \in {"ask", "hear"}
      PROVE  \A k \in DOMAIN child[t] : k < nth'[t] => m.a \notin Was(child[t][k])
  <2>1. CASE t = s
    <3>1. child[s] \in Seq(Name)
      BY DEF SInv, TypeOK
    <3>2. \A k \in DOMAIN child[s] : ~(k < 1)
      BY <3>1
    <3>3. QED
      BY <1>3, <2>1, <3>2
  <2>2. CASE t # s
    <3>1. NotAmong(t, m.a)
      BY <1>0, <1>2, <1>3, <1>9, <2>2, SpawnParts
    <3>2. QED
      BY <1>3, <2>2, <3>1 DEF NotAmong
  <2>3. QED
    BY <2>1, <2>2
<1>10. Fresh(m) => \A t \in Name : up'[t] # <<>> /\ ~Head(up'[t]).ok => m.a \notin Was(t)
  BY <1>0, <1>1, <1>2, SpawnParts
<1>11. \A t \in Name : Good(t)' \/ pc'[t] = "born" \/ (pc'[t] = "hear" /\ t = m.a) => ~Fresh(m)
  BY <1>0, <1>2, <1>3, <1>8, SpawnParts
<1>12. \A t \in Name : (pc'[t] = "fork" => t = m.a) /\ (pc'[t] = "ask" /\ ~ans'[t].ok => t # m.a)
  BY <1>0, <1>2, <1>3, <1>4, SpawnParts
<1>13. \A t \in Name : pc'[t] = "dead" <=> pc[t] = "dead"
  BY <1>1, <1>3
<1>14. QED
  BY <1>0, <1>1, <1>2, <1>7, <1>9, <1>10, <1>11, <1>12, <1>13, SpawnFrame

LEMMA SpawnAsk ==
    ASSUME SInv, SpawnEffect, cmd[Manager].op = "spawn", NEW s \in Name, Ask(s)
    PROVE  SpawnEffect'
<1>0. PICK m : m = cmd[Manager]
  OBVIOUS
<1>1. /\ pc[s] = "ask" /\ pc'[s] = "hear" /\ ~ans[s].ok /\ UNCHANGED <<child, secret, cmd, nth, ans, up, saved>>
      /\ \A t \in Name \ {s} : pc'[t] = pc[t]
  BY DEF Ask, Over, Goto, SInv, TypeOK, globals, output
<1>2. s # m.a
  BY <1>0, <1>1, SpawnParts
<1>3. \A t \in Name : Good(t)' => Good(t)
  BY <1>1 DEF Good
<1>4. ASSUME Fresh(m), NEW t \in Name, pc'[t] \in {"ask", "hear"}
      PROVE  \A k \in DOMAIN child[t] : k < nth'[t] => m.a \notin Was(child[t][k])
  <2>1. NotAmong(t, m.a)
    BY <1>0, <1>1, <1>4, SpawnParts
  <2>2. QED
    BY <1>1, <2>1 DEF NotAmong
<1>5. Fresh(m) => \A t \in Name : up'[t] # <<>> /\ ~Head(up'[t]).ok => m.a \notin Was(t)
  BY <1>0, <1>1, SpawnParts
<1>6. \A t \in Name : Good(t)' \/ pc'[t] = "born" \/ (pc'[t] = "hear" /\ t = m.a) => ~Fresh(m)
  BY <1>0, <1>1, <1>2, <1>3, SpawnParts
<1>7. \A t \in Name : (pc'[t] = "fork" => t = m.a) /\ (pc'[t] = "ask" /\ ~ans'[t].ok => t # m.a)
  BY <1>0, <1>1, SpawnParts
<1>8. \A t \in Name : pc'[t] = "dead" <=> pc[t] = "dead"
  BY <1>1
<1>9. QED
  BY <1>0, <1>1, <1>4, <1>5, <1>6, <1>7, <1>8, SpawnFrame

LEMMA SpawnHear ==
    ASSUME SInv, SpawnEffect, cmd[Manager].op = "spawn", NEW s \in Name, Hear(s)
    PROVE  SpawnEffect'
<1>0. PICK m : m = cmd[Manager]
  OBVIOUS
<1>a. /\ pc[s] = "hear" /\ Current(s) \in Name /\ IsChild(Current(s), s) /\ Current(s) # s
      /\ nth[s] \in DOMAIN child[s]
  BY CurrentChild DEF Hear, SInv, LinkInv
<1>b. PICK c \in Name : c = Current(s)
  BY <1>a
<1>c. PICK v : v = Head(up[c])
  OBVIOUS
<1>1. cmd[s] = m /\ m.op = "spawn"
  BY <1>0, <1>a, SpawnParts DEF Handling
<1>2. /\ pc'[s] = "ask" /\ up[c] # <<>> /\ up' = [up EXCEPT ![c] = Tail(@)] /\ UNCHANGED <<child, secret, cmd, saved>>
      /\ nth'[s] = nth[s] + 1 /\ ans'[s] = v
      /\ \A t \in Name \ {s} : pc'[t] = pc[t] /\ nth'[t] = nth[t] /\ ans'[t] = ans[t]
  <2>1. Heard(s, v) = v /\ ~Direct(s)
    BY <1>1 DEF Heard, Direct
  <2>2. QED
    BY <1>b, <1>c, <2>1 DEF Hear, Goto, SInv, TypeOK, output
<1>3. v \in Answer_ /\ up'[c] = <<>> /\ \A t \in Name \ {c} : up'[t] = up[t]
  BY <1>2, <1>c, TakeUp DEF SInv
<1>4. pc[c] # "ask" /\ up[s] = <<>>
  BY <1>a, <1>2 DEF SInv, TokenInv, Working
<1>5. v.ok => ~Fresh(m)
  <2>1. v.ok => Good(c)
    BY <1>2, <1>c DEF Good
  <2>2. QED
    BY <1>0, <1>1, <2>1, SpawnParts
<1>6. ~v.ok => Fresh(m)
  BY <1>0, <1>2, <1>c DEF SInv, SpawnInv
<1>7. \A t \in Name \ {s} : Good(t)' => Good(t)
  BY <1>2, <1>3, <1>4 DEF Good
<1>8. Good(s)' => v.ok
  <2>1. up'[s] = <<>>
    BY <1>3, <1>4
  <2>2. QED
    BY <1>2, <2>1 DEF Good
<1>9. ASSUME Fresh(m), NEW t \in Name, pc'[t] \in {"ask", "hear"}
      PROVE  \A k \in DOMAIN child[t] : k < nth'[t] => m.a \notin Was(child[t][k])
  <2>1. CASE t = s
    <3>1. m.a \notin Was(c)
      BY <1>0, <1>1, <1>2, <1>5, <1>c, <1>9, SpawnParts
    <3>3. NotAmong(s, m.a)
      BY <1>0, <1>1, <1>a, <1>9, SpawnParts
    <3>4. \A k \in DOMAIN child[s] : k < nth[s] + 1 => k < nth[s] \/ k = nth[s]
      <4>1. nth[s] \in Nat /\ child[s] \in Seq(Name)
        BY DEF SInv, TypeOK
      <4>2. QED
        BY <4>1
    <3>5. QED
      BY <1>2, <1>b, <2>1, <3>1, <3>3, <3>4 DEF NotAmong, Current
  <2>2. CASE t # s
    <3>1. NotAmong(t, m.a)
      BY <1>0, <1>1, <1>2, <1>9, <2>2, SpawnParts
    <3>2. QED
      BY <1>2, <2>2, <3>1 DEF NotAmong
  <2>3. QED
    BY <2>1, <2>2
<1>10. ASSUME Fresh(m), NEW t \in Name, up'[t] # <<>>, ~Head(up'[t]).ok PROVE m.a \notin Was(t)
  <2>1. up[t] # <<>> /\ ~Head(up[t]).ok
    BY <1>3, <1>10
  <2>2. QED
    BY <1>0, <1>1, <1>10, <2>1, SpawnParts
<1>11. ASSUME NEW t \in Name, Good(t)' \/ pc'[t] = "born" \/ (pc'[t] = "hear" /\ t = m.a) PROVE ~Fresh(m)
  <2>1. CASE t = s
    BY <1>2, <1>5, <1>8, <1>11, <2>1
  <2>2. CASE t # s
    BY <1>0, <1>1, <1>2, <1>7, <1>11, <2>2, SpawnParts
  <2>3. QED
    BY <2>1, <2>2
<1>12. \A t \in Name : (pc'[t] = "fork" => t = m.a) /\ (pc'[t] = "ask" /\ ~ans'[t].ok => t # m.a)
  <2>1. ~v.ok => s # m.a
    BY <1>0, <1>1, <1>6, <1>a, SpawnParts
  <2>2. QED
    BY <1>0, <1>1, <1>2, <2>1, SpawnParts
<1>13. \A t \in Name : pc'[t] = "dead" <=> pc[t] = "dead"
  BY <1>a, <1>2
<1>14. QED
  BY <1>0, <1>1, <1>2, <1>9, <1>10, <1>11, <1>12, <1>13, SpawnFrame

LEMMA SpawnReply ==
    ASSUME SInv, SavedInv, SpawnEffect, cmd[Manager].op = "spawn", NEW s \in Name, Reply(s)
    PROVE  SpawnEffect'
<1>0. PICK m : m = cmd[Manager]
  OBVIOUS
<1>a. pc[s] = "ask" /\ s # Manager /\ Over(s) /\ ans[s] \in Answer_
  BY DEF Reply, SInv, TypeOK
<1>1. cmd[s] = m /\ m.op = "spawn" /\ m.a \in Name
  BY <1>0, <1>a, SpawnParts DEF Handling
<1>2. Finish(s, "idle") /\ UNCHANGED <<child, secret, saved>> /\ up' = [up EXCEPT ![s] = Append(@, ans[s])]
  BY <1>1 DEF Reply, output
<1>3. pc'[s] = "idle" /\ \A t \in Name \ {s} : pc'[t] = pc[t] /\ nth'[t] = nth[t] /\ ans'[t] = ans[t]
  BY <1>2, FinishFacts DEF SInv
<1>4. up[s] = <<>>
  BY <1>a DEF SInv, TokenInv, Working
<1>5. up'[s] # <<>> /\ Head(up'[s]) = ans[s] /\ \A t \in Name \ {s} : up'[t] = up[t]
  BY <1>a, <1>2, <1>4, PutUp DEF SInv
<1>6. \A t \in Name : Good(t)' => Good(t)
  BY <1>a, <1>3, <1>4, <1>5 DEF Good
<1>7. cmd'[Manager] = cmd[Manager]
  BY ServiceOutput DEF service
<1>8. ASSUME Fresh(m), NEW t \in Name, pc'[t] \in {"ask", "hear"}
      PROVE  \A k \in DOMAIN child[t] : k < nth'[t] => m.a \notin Was(child[t][k])
  <2>1. t # s
    BY <1>3, <1>8
  <2>2. NotAmong(t, m.a)
    BY <1>0, <1>1, <1>3, <1>8, <2>1, SpawnParts
  <2>3. QED
    BY <1>3, <2>1, <2>2 DEF NotAmong
<1>9. ASSUME Fresh(m), NEW t \in Name, up'[t] # <<>>, ~Head(up'[t]).ok PROVE m.a \notin Was(t)
  <2>1. CASE t # s
    <3>1. up[t] # <<>> /\ ~Head(up[t]).ok
      BY <1>5, <1>9, <2>1
    <3>2. QED
      BY <1>0, <1>1, <1>9, <3>1, SpawnParts
  <2>2. CASE t = s
    <3>1. ~ans[s].ok
      BY <1>5, <1>9, <2>2
    <3>2. nth[s] > Len(child[s]) /\ s # m.a /\ NotAmong(s, m.a) /\ child = saved.child
      BY <1>0, <1>1, <1>9, <1>a, <3>1, SpawnParts DEF Over, Same
    <3>3. child[s] \in Seq(Name) /\ nth[s] \in Nat /\ child \in [Name -> Seq(Name)]
      BY DEF SInv, TypeOK
    <3>4. \A k \in DOMAIN child[s] : k < nth[s]
      BY <3>2, <3>3
    <3>5. \A c \in ToSet(child[s]) : m.a \notin Was(c)
      BY <3>2, <3>4 DEF NotAmong, ToSet
    <3>6. QED
      BY <1>1, <2>2, <3>2, <3>3, <3>5, BelowDown DEF Was
  <2>3. QED
    BY <2>1, <2>2
<1>10. \A t \in Name : Good(t)' \/ pc'[t] = "born" \/ (pc'[t] = "hear" /\ t = m.a) => ~Fresh(m)
  BY <1>0, <1>1, <1>3, <1>6, SpawnParts
<1>11. \A t \in Name : (pc'[t] = "fork" => t = m.a) /\ (pc'[t] = "ask" /\ ~ans'[t].ok => t # m.a)
  BY <1>0, <1>1, <1>3, SpawnParts
<1>12. \A t \in Name : pc'[t] = "dead" <=> pc[t] = "dead"
  BY <1>a, <1>3
<1>13. QED
  BY <1>0, <1>1, <1>2, <1>7, <1>8, <1>9, <1>10, <1>11, <1>12, SpawnFrame

LEMMA SpawnBorn ==
    ASSUME SInv, SpawnEffect, cmd[Manager].op = "spawn", NEW s \in Name, Born(s) \/ Reset(s)
    PROVE  SpawnEffect'
<1>0. PICK m : m = cmd[Manager]
  OBVIOUS
<1>1. /\ pc[s] \in {"born", "reset"} /\ pc'[s] = "idle" /\ UNCHANGED <<child, secret, cmd, nth, ans, saved>>
      /\ \A t \in Name \ {s} : pc'[t] = pc[t]
  BY DEF Born, Reset, Goto, SInv, TypeOK, globals, output
<1>2. ~Fresh(m) \/ up' = up
  <2>1. CASE Born(s)
    <3>1. pc[s] = "born"
      BY <2>1 DEF Born
    <3>2. QED
      BY <1>0, <3>1, SpawnParts
  <2>2. CASE Reset(s)
    BY <2>2 DEF Reset, pipes
  <2>3. QED
    BY <2>1, <2>2
<1>3. up' = up => \A t \in Name : Good(t)' => Good(t)
  BY <1>1 DEF Good
<1>4. ASSUME Fresh(m), NEW t \in Name, pc'[t] \in {"ask", "hear"}
      PROVE  \A k \in DOMAIN child[t] : k < nth'[t] => m.a \notin Was(child[t][k])
  <2>1. NotAmong(t, m.a)
    BY <1>0, <1>1, <1>4, SpawnParts
  <2>2. QED
    BY <1>1, <2>1 DEF NotAmong
<1>5. Fresh(m) => \A t \in Name : up'[t] # <<>> /\ ~Head(up'[t]).ok => m.a \notin Was(t)
  BY <1>0, <1>2, SpawnParts
<1>6. \A t \in Name : Good(t)' \/ pc'[t] = "born" \/ (pc'[t] = "hear" /\ t = m.a) => ~Fresh(m)
  BY <1>0, <1>1, <1>2, <1>3, SpawnParts
<1>7. \A t \in Name : (pc'[t] = "fork" => t = m.a) /\ (pc'[t] = "ask" /\ ~ans'[t].ok => t # m.a)
  BY <1>0, <1>1, SpawnParts
<1>8. \A t \in Name : pc'[t] = "dead" <=> pc[t] = "dead"
  BY <1>1
<1>9. QED
  BY <1>0, <1>1, <1>4, <1>5, <1>6, <1>7, <1>8, SpawnFrame

\* fork(): all that a spawn changes.
LEMMA SpawnFork ==
    ASSUME SInv, SavedInv, SpawnEffect, cmd[Manager].op = "spawn", NEW s \in Name, Fork(s)
    PROVE  SpawnEffect'
<1>0. PICK m : m = cmd[Manager]
  OBVIOUS
<1>1. /\ cmd[s] = m /\ m.op = "spawn" /\ s = m.a /\ m.b \in Name /\ Fresh(m) /\ m.b \notin saved.alive
      /\ pc[Manager] # "dead"
  <2>1. pc[s] = "fork"
    BY DEF Fork
  <2>2. Fresh(cmd[s])
    BY <2>1 DEF SInv, SpawnInv
  <2>3. QED
    BY <1>0, <2>1, <2>2, SpawnParts DEF Handling
<1>2. Same
  BY <1>0, <1>1, SpawnParts
<1>3. /\ m.b # s /\ (\A p \in Name : ~IsChild(m.b, p)) /\ pc'[s] = "hear" /\ pc'[m.b] = "born" /\ pc[s] = "fork"
      /\ ToSet(child'[s]) = ToSet(child[s]) \cup {m.b} /\ cmd' = cmd /\ ans' = ans /\ up' = up /\ saved' = saved
      /\ \A t \in Name \ {s, m.b} : pc'[t] = pc[t]
  <2>1. PICK c : c = cmd[s].b
    OBVIOUS
  <2>2. c = m.b
    BY <1>1, <2>1
  <2>3. /\ c # s /\ pc'[s] = "hear" /\ pc'[c] = "born" /\ pc[s] = "fork"
        /\ \A t \in Name \ {s, c} : pc'[t] = pc[t]
    BY <2>1, ForkFacts
  <2>4. ToSet(child'[s]) = ToSet(child[s]) \cup {c}
    BY <2>1, ForkFacts
  <2>5. \A p \in Name : ~IsChild(c, p)
    BY <2>1, ForkFacts
  <2>6. cmd' = cmd /\ ans' = ans /\ up' = up /\ saved' = saved
    BY <2>1, ForkFacts
  <2>7. QED
    BY <2>2, <2>3, <2>4, <2>5, <2>6
<1>4. child' = [saved.child EXCEPT ![m.a] = Append(@, m.b)]
  <2>1. child \in [Name -> Seq(Name)] /\ child = saved.child
    BY <1>2 DEF Same, SInv, TypeOK
  <2>2. child[m.b] = <<>>
    BY <1>1, <2>1 DEF SavedInv
  <2>3. child' = [child EXCEPT ![s] = Append(@, m.b), ![m.b] = <<>>]
    BY <1>1 DEF Fork
  <2>4. QED
    BY <1>1, <1>3, <2>1, <2>2, <2>3
<1>5. \E v \in Secret : secret' = [saved.secret EXCEPT ![m.b] = v]
  BY <1>1, <1>2 DEF Fork, Same
<1>6. Alive' = saved.alive \cup {m.b}
  <2>1. \A t \in Name : pc'[t] # "dead" <=> pc[t] # "dead" \/ t = m.b
    BY <1>3
  <2>2. Alive = saved.alive
    BY <1>2 DEF Same
  <2>3. QED
    BY <1>1, <2>1, <2>2 DEF Alive
<1>7. ~Fresh(m)'
  <2>1. IsChild(m.b, s)'
    BY <1>3 DEF IsChild
  <2>2. QED
    BY <1>1, <2>1 DEF Fresh
<1>8. m.a \in saved.alive
  <2>1. s \in Alive
    BY <1>3 DEF Alive
  <2>2. QED
    BY <1>1, <1>2, <2>1 DEF Same
<1>9. \A t \in Name : (pc'[t] = "fork" => t = m.a) /\ (pc'[t] = "ask" /\ ~ans'[t].ok => t # m.a)
  BY <1>0, <1>1, <1>3, SpawnParts
<1>10. QED
  BY <1>0, <1>1, <1>3, <1>4, <1>5, <1>6, <1>7, <1>8, <1>9 DEF SpawnEffect

\* The Manager reads a command: nothing has changed yet.
LEMMA SpawnCommand ==
    ASSUME SInv, SInv', SavedInv, Command
    PROVE  SpawnEffect'
<1>0. Manager \in Name /\ TypeOK /\ pc[Manager] = "idle" /\ UNCHANGED <<child, secret, up, saved>>
  BY NameAssumption DEF SInv, Command, globals, pipes
<1>1. PICK m \in Input : Begin(Manager, m)
  BY DEF Command
<1>2. m \in Command_
  BY <1>0, <1>1 DEF Input, Cmd, Command_, Alive
<1>3. /\ cmd'[Manager] = m /\ pc'[Manager] \in {"fork", "tell", "ask"} /\ nth'[Manager] = 1
      /\ ans'[Manager] = FirstAns(Manager, m) /\ (pc'[Manager] = "tell" <=> m.op = "start")
      /\ \A t \in Name \ {Manager} : pc'[t] = pc[t]
  BY <1>0, <1>1, <1>2, BeginFacts
<1> SUFFICES ASSUME m.op = "spawn" PROVE SpawnEffect'
  BY <1>3 DEF SpawnEffect
<1>4. pc'[Manager] = "fork" <=> m.a = Manager
  BY <1>0, <1>1 DEF Begin, Goto, TypeOK
<1>5. ~ans'[Manager].ok
  BY <1>3 DEF FirstAns, Answer
<1>6. m.b \notin Alive
  BY <1>1 DEF Input, Cmd
<1>7. Same
  BY <1>0 DEF SavedInv
<1>8. \A c \in Name \ {Manager} : pc[c] \in {"idle", "dead", "reset"}
  <2>1. \A c \in Name : ~Engaged(Manager, c)
    BY <1>0 DEF Engaged
  <2>2. QED
    BY <2>1, Calm
<1>9. \A c \in Name : up[c] = <<>>
  <2>1. \A c \in Name : ~Engaged(Manager, c)
    BY <1>0 DEF Engaged
  <2>2. QED
    BY <2>1, Calm
<1>10. Alive' = Alive
  <2>1. \A t \in Name : pc'[t] # "dead" <=> pc[t] # "dead"
    BY <1>0, <1>3
  <2>2. QED
    BY <2>1 DEF Alive
<1>11. Same'
  BY <1>0, <1>7, <1>10 DEF Same
<1>12. Fresh(m)'
  <2>1. pc'[Manager] = "fork" \/ (pc'[Manager] = "ask" /\ ~ans'[Manager].ok)
    BY <1>3, <1>5
  <2>2. QED
    BY <1>0, <1>3, <2>1 DEF SInv, SpawnInv
<1>13. ASSUME NEW t \in Name, pc'[t] \in {"ask", "hear"} PROVE NotAmong(t, m.a)'
  <2>1. t = Manager
    BY <1>3, <1>8, <1>13
  <2>2. child[Manager] \in Seq(Name)
    BY <1>0 DEF TypeOK
  <2>3. \A k \in DOMAIN child[Manager] : ~(k < 1)
    BY <2>2
  <2>4. QED
    BY <1>0, <1>3, <2>1, <2>3 DEF NotAmong
<1>14. ASSUME NEW t \in Name PROVE ~Good(t)' /\ pc'[t] \notin {"born", "hear"}
  <2>1. CASE t = Manager
    BY <1>0, <1>3, <1>5, <1>9, <2>1 DEF Good
  <2>2. CASE t # Manager
    BY <1>0, <1>3, <1>8, <1>9, <2>2 DEF Good
  <2>3. QED
    BY <2>1, <2>2
<1>15. \A t \in Name : (pc'[t] = "fork" => t = m.a) /\ (pc'[t] = "ask" /\ ~ans'[t].ok => t # m.a)
  BY <1>3, <1>4, <1>8
<1>16. m.b \notin saved.alive
  BY <1>6, <1>7 DEF Same
<1>17. QED
  BY <1>0, <1>3, <1>9, <1>11, <1>12, <1>13, <1>14, <1>15, <1>16 DEF SpawnEffect

\* The Manager prints what a spawn has done.
LEMMA SpawnPrinted ==
    ASSUME SInv, RInv, SavedInv, SpawnEffect, PrintSpawn
    PROVE  S!Next
<1>0. PICK m : m = cmd[Manager]
  OBVIOUS
<1>1. /\ Manager \in Name /\ pc[Manager] = "ask" /\ Over(Manager) /\ m.op = "spawn" /\ UNCHANGED <<child, secret>>
      /\ Finish(Manager, "idle") /\ report' = S!Line("spawn", m.a, m.b, ans[Manager].ok, 0, heard)
      /\ saved' = [child |-> child', secret |-> secret', alive |-> Alive']
  BY <1>0, NameAssumption DEF PrintSpawn, Outcome, globals, Alive
<1>2. m.a \in Name /\ m.b \in Name /\ m.b \notin saved.alive
  BY <1>0, <1>1, SpawnParts
<1>3. Alive' = Alive
  <2>1. pc'[Manager] = "idle" /\ \A t \in Name \ {Manager} : pc'[t] = pc[t]
    BY <1>1, FinishFacts DEF SInv
  <2>2. \A t \in Name : pc'[t] # "dead" <=> pc[t] # "dead"
    BY <1>1, <2>1
  <2>3. QED
    BY <2>2 DEF Alive
<1>4. saved'.child = child /\ saved'.secret = secret /\ saved'.alive = Alive
  BY <1>1, <1>3
<1>5. ans[Manager].ok \in BOOLEAN /\ (ans[Manager].ok <=> m.a \in saved.alive)
  <2>1. ans[Manager].ok \in BOOLEAN
    BY <1>1 DEF SInv, TypeOK, Answer_
  <2>2. CASE ans[Manager].ok
    <3>1. Good(Manager)
      BY <1>1, <2>2 DEF Good
    <3>2. ~Fresh(m)
      BY <1>0, <1>1, <3>1, SpawnParts
    <3>3. QED
      BY <1>0, <1>1, <2>2, <3>2 DEF SpawnEffect
  <2>3. CASE ~ans[Manager].ok
    <3>1. Fresh(m)
      <4>1. Fresh(cmd[Manager])
        BY <1>1, <2>3 DEF SInv, SpawnInv
      <4>2. QED
        BY <1>0, <4>1
    <3>2. NotAmong(Manager, m.a) /\ child = saved.child /\ Manager # m.a
      BY <1>0, <1>1, <2>3, <3>1, SpawnParts DEF Same
    <3>3. child[Manager] \in Seq(Name) /\ nth[Manager] \in Nat /\ child \in [Name -> Seq(Name)]
      BY <1>1 DEF SInv, TypeOK
    <3>4. nth[Manager] > Len(child[Manager])
      BY <1>1, <2>3 DEF Over
    <3>5. \A k \in DOMAIN child[Manager] : k < nth[Manager]
      BY <3>3, <3>4
    <3>6. \A c \in ToSet(child[Manager]) : m.a \notin Was(c)
      BY <3>2, <3>5 DEF NotAmong, ToSet
    <3>7. m.a \notin Was(Manager)
      BY <1>1, <1>2, <3>2, <3>3, <3>6, BelowDown DEF Was
    <3>8. QED
      BY <1>1, <2>1, <2>3, <3>7 DEF SavedInv
  <2>4. QED
    BY <2>1, <2>2, <2>3
<1>6. CASE ans[Manager].ok
  <2>1. Good(Manager)
    BY <1>1, <1>6 DEF Good
  <2>2. ~Fresh(m)
    BY <1>0, <1>1, <2>1, SpawnParts
  <2>3. /\ child = [saved.child EXCEPT ![m.a] = Append(@, m.b)]
        /\ \E v \in Secret : secret = [saved.secret EXCEPT ![m.b] = v]
        /\ Alive = saved.alive \cup {m.b}
    BY <1>0, <1>1, <2>2 DEF SpawnEffect
  <2>4. S!Spawn(m.a, m.b)
    BY <1>1, <1>2, <1>4, <1>5, <1>6, <2>3 DEF S!Spawn, S!Prints, S!Line
  <2>5. QED
    BY <1>1, <1>2, <2>4 DEF S!Next, SavedInv
<1>7. CASE ~ans[Manager].ok
  <2>1. Fresh(cmd[Manager])
    BY <1>1, <1>7 DEF SInv, SpawnInv
  <2>2. Same
    BY <1>0, <1>1, <2>1, SpawnParts
  <2>3. S!Spawn(m.a, m.b)
    BY <1>1, <1>2, <1>4, <1>5, <1>7, <2>2 DEF S!Spawn, S!Prints, S!Line, Same
  <2>4. QED
    BY <1>1, <1>2, <2>3 DEF S!Next, SavedInv
<1>8. QED
  BY <1>6, <1>7

-------------------------------------------------------------------------------
(* kill *)

\* A child leaves the table of its parent.
LEMMA RemoveFirstFacts ==
    ASSUME NEW q \in Seq(Name), IsInjective(q)
    PROVE  /\ \A i \in 1 .. Len(q) : S!RemoveFirst(q, q[i]) = RemoveAt(q, i)
           /\ \A c : c \notin ToSet(q) => S!RemoveFirst(q, c) = q
<1>1. ASSUME NEW c, c \notin ToSet(q) PROVE S!RemoveFirst(q, c) = q
  BY <1>1 DEF S!RemoveFirst, ToSet
<1>2. ASSUME NEW i \in 1 .. Len(q) PROVE S!RemoveFirst(q, q[i]) = RemoveAt(q, i)
  <2>1. {j \in 1 .. Len(q) : q[j] = q[i]} = {i}
    BY DEF IsInjective
  <2>2. S!SelectInSeq(q, LAMBDA v : v = q[i]) = i
    BY <2>1 DEF S!SelectInSeq, S!Min
  <2>3. QED
    BY <2>2 DEF S!RemoveFirst, S!RemoveAt, RemoveAt
<1>3. QED
  BY <1>1, <1>2

\* The number of services at or below s, child by child.
LEMMA ReachFacts ==
    ASSUME IsTree(saved.child), NEW s \in Name
    PROVE  /\ Cardinality(Reach(s, 1)) = 1
           /\ \A n \in DOMAIN saved.child[s] :
                 Cardinality(Reach(s, n + 1)) = Cardinality(Reach(s, n)) + Cardinality(Was(saved.child[s][n]))
           /\ \A n \in Nat : n > Len(saved.child[s]) => Reach(s, n) = Was(s)
           /\ Cardinality(Was(s)) \in Nat
<1>0. saved.child \in [Name -> Seq(Name)] /\ saved.child[s] \in Seq(Name) /\ IsInjective(saved.child[s])
  BY DEF IsTree
<1>1. DOMAIN saved.child[s] = 1 .. Len(saved.child[s]) /\ Len(saved.child[s]) \in Nat
  BY <1>0
<1>2. \A k \in DOMAIN saved.child[s] : saved.child[s][k] \in Name /\ saved.child[s][k] \in ToSet(saved.child[s])
  BY <1>0, <1>1 DEF ToSet
<1>3. \A x \in Name : Was(x) \subseteq Name /\ x \in Was(x)
  BY BelowLeast DEF Was
<1>4. \A X \in SUBSET Name : IsFiniteSet(X)
  BY FS_Subset, NameAssumption
<1>5. Reach(s, 1) = {s}
  <2>1. \A k \in DOMAIN saved.child[s] : ~(k < 1)
    BY <1>1
  <2>2. QED
    BY <2>1 DEF Reach
<1>6. ASSUME NEW n \in DOMAIN saved.child[s]
      PROVE  Cardinality(Reach(s, n + 1)) = Cardinality(Reach(s, n)) + Cardinality(Was(saved.child[s][n]))
  <2>0. PICK c \in Name : c = saved.child[s][n] /\ c \in ToSet(saved.child[s])
    BY <1>2
  <2>1. \A k \in DOMAIN saved.child[s] : k < n + 1 <=> k < n \/ k = n
    BY <1>1
  <2>2. Reach(s, n + 1) = Reach(s, n) \cup Was(c)
    BY <1>3, <2>0, <2>1 DEF Reach
  <2>3. Reach(s, n) \cap Was(c) = {}
    <3>1. s \notin Was(c)
      BY <2>0, BelowApart DEF Was
    <3>2. ASSUME NEW k \in DOMAIN saved.child[s], k < n, NEW x \in Was(saved.child[s][k]), x \in Was(c) PROVE FALSE
      <4>1. saved.child[s][k] \in ToSet(saved.child[s]) /\ saved.child[s][k] # c
        <5>1. k # n
          BY <1>1, <3>2
        <5>2. saved.child[s][k] # saved.child[s][n]
          BY <1>0, <1>1, <5>1 DEF IsInjective
        <5>3. QED
          BY <1>2, <2>0, <5>2
      <4>2. QED
        BY <2>0, <3>2, <4>1, BelowApart DEF Was
    <3>3. QED
      BY <3>1, <3>2 DEF Reach
  <2>4. Reach(s, n) \subseteq Name /\ Was(c) \subseteq Name
    BY <1>3 DEF Reach
  <2>5. IsFiniteSet(Reach(s, n)) /\ IsFiniteSet(Was(c))
    BY <1>4, <2>4
  <2>6. /\ Cardinality(Reach(s, n) \cup Was(c))
             = Cardinality(Reach(s, n)) + Cardinality(Was(c)) - Cardinality(Reach(s, n) \cap Was(c))
        /\ Cardinality(Reach(s, n)) \in Nat /\ Cardinality(Was(c)) \in Nat
    BY <2>5, FS_Union, FS_CardinalityType
  <2>7. Cardinality(Reach(s, n) \cap Was(c)) = 0
    BY <2>3, FS_EmptySet
  <2>8. PICK i \in Nat, j \in Nat : i = Cardinality(Reach(s, n)) /\ j = Cardinality(Was(c))
    BY <2>6
  <2>9. Cardinality(Reach(s, n + 1)) = i + j - 0
    BY <2>2, <2>6, <2>7, <2>8
  <2>10. QED
    BY <2>0, <2>8, <2>9
<1>7. ASSUME NEW n \in Nat, n > Len(saved.child[s]) PROVE Reach(s, n) = Was(s)
  <2>1. \A k \in DOMAIN saved.child[s] : k < n
    BY <1>1, <1>7
  <2>2. \A c \in ToSet(saved.child[s]) : c \in Name /\ Was(c) \subseteq Was(s)
    BY <1>0, BelowDown DEF Was
  <2>3. \A y \in Was(s) : y # s => \E c \in ToSet(saved.child[s]) : y \in Was(c)
    BY <1>0, BelowDown DEF Was
  <2>4. \A c \in ToSet(saved.child[s]) : \E k \in DOMAIN saved.child[s] : c = saved.child[s][k]
    BY DEF ToSet
  <2>5. Reach(s, n) \subseteq Was(s)
    BY <1>2, <1>3, <2>2 DEF Reach
  <2>6. Was(s) \subseteq Reach(s, n)
    BY <1>3, <2>1, <2>3, <2>4 DEF Reach
  <2>7. QED
    BY <2>5, <2>6
<1>8. Cardinality({s}) = 1
  BY FS_Singleton
<1>9. Cardinality(Was(s)) \in Nat
  BY <1>3, <1>4, FS_CardinalityType
<1>10. QED
  BY <1>5, <1>6, <1>7, <1>8, <1>9

\* While a service is killed nobody forks or exchanges.
LEMMA KillFacts ==
    ASSUME SInv, SavedInv, cmd[Manager].op \in {"kill", "suicide"}
    PROVE  /\ pc[Manager] \notin {"idle", "dead"} /\ IsTree(saved.child) /\ saved.alive \subseteq Name
           /\ saved.alive \subseteq Was(Manager) /\ Manager \in saved.alive
           /\ \A s \in Name \ saved.alive : saved.child[s] = <<>>
           /\ \A p \in Name : ToSet(saved.child[p]) \subseteq saved.alive
           /\ \A s \in Name : /\ pc[s] \notin {"born", "fork"} \cup Exchanging
                              /\ pc[s] \in Handling => pc[s] \in {"ask", "hear"}
           /\ \A s, u \in Name : Busy(s) /\ Busy(u) => s = u
<1>1. pc[Manager] \notin {"idle", "dead"}
  BY DEF SInv, PhaseInv, Nothing, Cmd
<1>2. \A s \in Name : pc[s] \notin Exchanging
  BY StartPhase
<1>3. \A s \in Name : pc[s] \notin {"born", "fork"}
  BY DEF SInv, PhaseInv, SameCommand, Uniform, Handling
<1>4. \A s, u \in Name : Busy(s) /\ Busy(u) => s = u
  BY <1>2, NameAssumption DEF SInv, OneBusy
<1>5. QED
  BY <1>1, <1>2, <1>3, <1>4 DEF SavedInv, Handling

\* Steps that leave the tables alone, part by part.
LEMMA EndingFrame ==
    ASSUME NEW t \in Name, Ending(t), cmd'[Manager] = cmd[Manager], child' = child, secret' = secret, saved' = saved,
           \A x \in Name : pc'[x] = "dead" <=> pc[x] = "dead",
           \A x \in Name : pc'[x] \in Handling => Fit(cmd'[x], x, t),
           \A x \in Name : down'[x] # <<>> => Fit(Head(down'[x]), x, t),
           saved.alive \subseteq Name, IsTree(saved.child)
    PROVE  Ending(t)'
<1>1. \A x : Was(x)' = Was(x)
  BY DEF Was
<1>2. \A m, x : Fit(m, x, t)' <=> Fit(m, x, t)
  BY <1>1 DEF Fit
<1>3. \A x \in Name : pc'[x] \in Handling => Fit(cmd[x], x, t)'
  BY <1>1 DEF Fit
<1>4. \A x \in Name : down'[x] # <<>> => Fit(Head(down[x]), x, t)'
  BY <1>1 DEF Fit
<1>5. \A s \in saved.alive : \A c \in ToSet(saved.child[s]) : c \in Name
  BY BelowDown DEF IsTree
<1>6. QED
  BY <1>1, <1>3, <1>4, <1>5 DEF Ending

LEMMA BeforeFrame ==
    ASSUME NEW t \in Name, Before(t), child' = child, saved' = saved, saved.alive \subseteq Name,
           \A x \in Name : pc'[x] = "dead" <=> pc[x] = "dead",
           \A x \in Name : pc'[x] \in {"ask", "hear"} =>
              IF cmd'[x].op = "suicide" THEN ans'[x].n = Cardinality(Reach(x, nth'[x]))
              ELSE \A k \in DOMAIN child[x] : k < nth'[x] => t \notin Was(child[x][k]),
           \A x \in Name : up'[x] # <<>> =>
              IF pc[x] = "dead" THEN Head(up'[x]).n = Cardinality(Was(x)) ELSE t \notin Was(x),
           \A x \in Name : ~Good(x)'
    PROVE  Before(t)'
<1>1. \A x : Was(x)' = Was(x)
  BY DEF Was
<1>2. \A x \in Name : Reach(x, nth[x])' = Reach(x, nth'[x])
  BY <1>1 DEF Reach
<1>3. \A x \in Name : NotAmong(x, t)' <=> \A k \in DOMAIN child[x] : k < nth'[x] => t \notin Was(child[x][k])
  BY <1>1 DEF NotAmong
<1>4. QED
  BY <1>1, <1>2, <1>3 DEF Before

LEMMA AfterFrame ==
    ASSUME NEW t \in Name, After(t), child' = child, saved' = saved, saved.alive \subseteq Name,
           \A x \in Name : pc'[x] = "dead" <=> pc[x] = "dead",
           \A x \in Name : Busy(x)' => Good(x)' /\ pc'[x] # "dead" /\ Number(x)' = Cardinality(Was(t))
    PROVE  After(t)'
<1>1. Was(t)' = Was(t)
  BY DEF Was
<1>2. QED
  BY <1>1 DEF After

LEMMA KillReceive ==
    ASSUME SInv, SavedInv, cmd[Manager].op \in {"kill", "suicide"}, NEW t \in Name, Ending(t), Before(t) \/ After(t),
           NEW s \in Name, Receive(s)
    PROVE  Ending(t)' /\ Before(t)'
<1>1. PICK m : m = Head(down[s])
  OBVIOUS
<1>2. /\ m \in Command_ /\ Begin(s, m) /\ pc[s] = "idle" /\ down[s] # <<>> /\ UNCHANGED <<child, secret, up, saved>>
      /\ down'[s] = <<>> /\ \A x \in Name \ {s} : down'[x] = down[x]
  BY <1>1, TakeDown DEF Receive, SInv, globals
<1>3. Fit(m, s, t)
  BY <1>1, <1>2 DEF Ending
<1>4. /\ pc'[s] = "ask" /\ cmd'[s] = m /\ nth'[s] = 1 /\ ans'[s] = FirstAns(s, m)
      /\ \A x \in Name \ {s} : pc'[x] = pc[x] /\ cmd'[x] = cmd[x] /\ nth'[x] = nth[x] /\ ans'[x] = ans[x]
  BY <1>2, <1>3, BeginFacts DEF SInv, Fit
<1>5. ~ans'[s].ok /\ (m.op = "suicide" => ans'[s].n = 1)
  BY <1>3, <1>4 DEF Fit, FirstAns, Answer
<1>6. up[s] = <<>>
  BY <1>2 DEF SInv, TokenInv
<1>7. Before(t)
  <2>1. Busy(s) /\ ~Good(s)
    BY <1>2, <1>6 DEF Busy, Good
  <2>2. QED
    BY <2>1 DEF After
<1>8. saved.alive \subseteq Name /\ IsTree(saved.child)
  BY KillFacts
<1>9. cmd'[Manager] = cmd[Manager]
  BY ServiceOutput DEF service
<1>10. \A x \in Name : pc'[x] = "dead" <=> pc[x] = "dead"
  BY <1>2, <1>4
<1>11. \A x \in Name : pc'[x] \in Handling => Fit(cmd'[x], x, t)
  BY <1>3, <1>4 DEF Ending
<1>12. \A x \in Name : down'[x] # <<>> => Fit(Head(down'[x]), x, t)
  BY <1>2 DEF Ending
<1>13. Ending(t)'
  BY <1>2, <1>8, <1>9, <1>10, <1>11, <1>12, EndingFrame
<1>14. ASSUME NEW x \in Name, pc'[x] \in {"ask", "hear"}
       PROVE  IF cmd'[x].op = "suicide" THEN ans'[x].n = Cardinality(Reach(x, nth'[x]))
              ELSE \A k \in DOMAIN child[x] : k < nth'[x] => t \notin Was(child[x][k])
  <2>1. CASE x = s
    <3>1. Cardinality(Reach(s, 1)) = 1
      BY <1>8, ReachFacts
    <3>2. child[s] \in Seq(Name)
      BY DEF SInv, TypeOK
    <3>3. \A k \in DOMAIN child[s] : ~(k < 1)
      BY <3>2
    <3>4. QED
      BY <1>4, <1>5, <2>1, <3>1, <3>3
  <2>2. CASE x # s
    BY <1>4, <1>7, <1>14, <2>2 DEF Before, NotAmong
  <2>3. QED
    BY <2>1, <2>2
<1>15. \A x \in Name : up'[x] # <<>> =>
          IF pc[x] = "dead" THEN Head(up'[x]).n = Cardinality(Was(x)) ELSE t \notin Was(x)
  BY <1>2, <1>7 DEF Before
<1>16. \A x \in Name : ~Good(x)'
  <2>1. \A x \in Name : Good(x)' => Good(x)
    BY <1>2, <1>4, <1>5, <1>6 DEF Good
  <2>2. QED
    BY <1>7, <2>1 DEF Before
<1>17. Before(t)'
  BY <1>2, <1>7, <1>8, <1>10, <1>14, <1>15, <1>16, BeforeFrame
<1>18. QED
  BY <1>13, <1>17

\* A service below t passes the end on, the parent of t begins it, and any other
\* asks a child that is not below t.
LEMMA KillAsk ==
    ASSUME SInv, SavedInv, cmd[Manager].op \in {"kill", "suicide"}, NEW t \in Name, Ending(t), Before(t) \/ After(t),
           NEW s \in Name, Ask(s)
    PROVE  Ending(t)' /\ Before(t)'
<1>1. /\ pc[s] = "ask" /\ pc'[s] = "hear" /\ ~ans[s].ok /\ UNCHANGED <<child, secret, cmd, nth, ans, up, saved>>
      /\ \A x \in Name \ {s} : pc'[x] = pc[x]
  BY DEF Ask, Over, Goto, SInv, TypeOK, globals, output
<1>2. Current(s) \in Name /\ IsChild(Current(s), s) /\ nth[s] \in DOMAIN child[s]
  <2>1. child[s] \in Seq(Name) /\ nth[s] \in Nat /\ ~(nth[s] > Len(child[s]))
    BY DEF Ask, Over, SInv, TypeOK
  <2>2. nth[s] <= Len(child[s])
    BY <2>1
  <2>3. QED
    BY <2>2, CurrentChild
<1>3. PICK c \in Name : c = Current(s) /\ IsChild(c, s)
  BY <1>2
<1>4. PICK m \in Passed(s, c) : down' = [down EXCEPT ![c] = Append(@, m)]
  BY <1>3 DEF Ask
<1>5. m \in Command_
  BY <1>1, <1>4, PassedFacts DEF SInv, Handling
<1>6. ~Engaged(s, c)
  BY <1>1 DEF Engaged
<1>7. down[c] = <<>>
  BY <1>3, <1>6, ChildAtRest
<1>8. down'[c] # <<>> /\ Head(down'[c]) = m /\ \A x \in Name \ {c} : down'[x] = down[x]
  BY <1>4, <1>5, <1>7, PutDown DEF SInv
<1>9. Before(t)
  <2>1. up[s] = <<>>
    BY <1>1 DEF SInv, TokenInv, Working
  <2>2. Busy(s) /\ ~Good(s)
    BY <1>1, <2>1 DEF Busy, Good
  <2>3. QED
    BY <2>2 DEF After
<1>10. saved.alive \subseteq Name /\ IsTree(saved.child)
  BY KillFacts
<1>11. s \in saved.alive /\ c \in ToSet(saved.child[s])
  <2>1. s \in saved.alive
    BY <1>1 DEF Ending
  <2>2. QED
    BY <1>1, <1>3, <1>9, <2>1 DEF Before, IsChild
<1>12. Fit(cmd[s], s, t)
  BY <1>1 DEF Ending, Handling
<1>13. Fit(m, c, t)
  <2>1. CASE cmd[s].op = "suicide"
    <3>1. m.op = "suicide"
      <4>1. ~Direct(s) /\ cmd[s] \in Command_
        BY <2>1 DEF Direct, SInv, TypeOK
      <4>2. Passed(s, c) = {[cmd[s] EXCEPT !.a = x] : x \in {c, s}}
        BY <2>1, <4>1 DEF Passed, SuicideMessages
      <4>3. QED
        BY <1>4, <2>1, <4>1, <4>2 DEF Command_
    <3>2. c \in Was(t)
      BY <1>11, <1>12, <2>1, BelowLeast DEF Was, Fit
    <3>3. QED
      BY <3>1, <3>2 DEF Fit
  <2>2. CASE cmd[s].op = "kill" /\ c = t
    <3>1. Direct(s) /\ cmd[s] \in Command_
      BY <1>3, <1>12, <2>2 DEF Direct, Fit, SInv, TypeOK
    <3>2. Passed(s, c) = {[cmd[s] EXCEPT !.op = "suicide"]}
      BY <2>2, <3>1 DEF Passed
    <3>3. m.op = "suicide"
      BY <1>4, <3>1, <3>2 DEF Command_
    <3>4. c \in Was(t)
      BY <2>2, BelowLeast DEF Was
    <3>5. QED
      BY <3>3, <3>4 DEF Fit
  <2>3. CASE cmd[s].op = "kill" /\ c # t
    <3>1. ~Direct(s)
      BY <1>3, <1>12, <2>3 DEF Direct, Fit
    <3>2. m = cmd[s]
      BY <1>4, <2>3, <3>1 DEF Passed
    <3>3. c \notin Was(t)
      <4>1. SUFFICES ASSUME c \in Was(t) PROVE FALSE
        OBVIOUS
      <4>2. PICK p \in Was(t) : c \in ToSet(saved.child[p])
        BY <1>10, <2>3, <4>1, BelowUp DEF Was, IsTree
      <4>3. p \in Name
        BY <4>2, BelowLeast DEF Was
      <4>4. p = s
        BY <1>10, <1>11, <4>2, <4>3 DEF IsTree
      <4>5. QED
        BY <1>12, <2>3, <4>2, <4>4 DEF Fit
    <3>4. QED
      BY <1>12, <2>3, <3>2, <3>3 DEF Fit
  <2>4. QED
    BY <1>12, <2>1, <2>2, <2>3 DEF Fit
<1>14. \A x \in Name : pc'[x] = "dead" <=> pc[x] = "dead"
  BY <1>1
<1>15. \A x \in Name : pc'[x] \in Handling => Fit(cmd'[x], x, t)
  <2>1. \A x \in Name : pc'[x] \in Handling => pc[x] \in Handling
    BY <1>1 DEF Handling
  <2>2. QED
    BY <1>1, <2>1 DEF Ending
<1>16. \A x \in Name : down'[x] # <<>> => Fit(Head(down'[x]), x, t)
  BY <1>8, <1>13 DEF Ending
<1>17. Ending(t)'
  BY <1>1, <1>10, <1>14, <1>15, <1>16, EndingFrame
<1>18. \A x \in Name : pc'[x] \in {"ask", "hear"} =>
          IF cmd'[x].op = "suicide" THEN ans'[x].n = Cardinality(Reach(x, nth'[x]))
          ELSE \A k \in DOMAIN child[x] : k < nth'[x] => t \notin Was(child[x][k])
  <2>1. \A x \in Name : pc'[x] \in {"ask", "hear"} => pc[x] \in {"ask", "hear"}
    BY <1>1
  <2>2. QED
    BY <1>1, <1>9, <2>1 DEF Before, NotAmong
<1>19. \A x \in Name : up'[x] # <<>> =>
          IF pc[x] = "dead" THEN Head(up'[x]).n = Cardinality(Was(x)) ELSE t \notin Was(x)
  BY <1>1, <1>9 DEF Before
<1>20. \A x \in Name : ~Good(x)'
  <2>1. \A x \in Name : Good(x)' => Good(x)
    BY <1>1 DEF Good
  <2>2. QED
    BY <1>9, <2>1 DEF Before
<1>21. Before(t)'
  BY <1>1, <1>9, <1>10, <1>14, <1>18, <1>19, <1>20, BeforeFrame
<1>22. QED
  BY <1>17, <1>21

\* A service hears its child c.
LEMMA HearFacts ==
    ASSUME SInv, NEW s \in Name, Hear(s), NEW c, c = Current(s)
    PROVE  /\ c \in Name /\ c # s /\ IsChild(c, s) /\ nth[s] \in DOMAIN child[s] /\ child[s][nth[s]] = c
           /\ pc[s] = "hear" /\ pc'[s] = "ask" /\ up[s] = <<>> /\ up'[s] = <<>>
           /\ up[c] # <<>> /\ up'[c] = <<>> /\ Head(up[c]) \in Answer_ /\ down[c] = <<>> /\ ~Working(c)
           /\ \A x \in Name \ {c} : up'[x] = up[x]
           /\ nth'[s] = nth[s] + 1 /\ ans'[s] = Heard(s, Head(up[c])) /\ UNCHANGED <<secret, cmd, down, saved>>
           /\ \A x \in Name \ {s} : pc'[x] = pc[x] /\ nth'[x] = nth[x] /\ ans'[x] = ans[x]
           /\ child' = IF Direct(s) THEN [child EXCEPT ![s] = RemoveAt(@, nth[s])] ELSE child
<1>1. pc[s] = "hear" /\ c \in Name /\ IsChild(c, s) /\ c # s /\ nth[s] \in DOMAIN child[s] /\ child[s][nth[s]] = c
  BY CurrentChild DEF Hear, SInv, LinkInv, Current
<1>2. /\ pc'[s] = "ask" /\ up[c] # <<>> /\ up' = [up EXCEPT ![c] = Tail(@)] /\ UNCHANGED <<secret, cmd, down, saved>>
      /\ nth'[s] = nth[s] + 1 /\ ans'[s] = Heard(s, Head(up[c]))
      /\ \A x \in Name \ {s} : pc'[x] = pc[x] /\ nth'[x] = nth[x] /\ ans'[x] = ans[x]
      /\ child' = IF Direct(s) THEN [child EXCEPT ![s] = RemoveAt(@, nth[s])] ELSE child
  BY DEF Hear, Goto, SInv, TypeOK, output
<1>3. Head(up[c]) \in Answer_ /\ up'[c] = <<>> /\ \A x \in Name \ {c} : up'[x] = up[x]
  BY <1>1, <1>2, TakeUp DEF SInv
<1>4. up[s] = <<>> /\ down[c] = <<>> /\ ~Working(c)
  BY <1>1, <1>2 DEF SInv, TokenInv, Working
<1>5. QED
  BY <1>1, <1>2, <1>3, <1>4

\* The parent of t hears that t has ended.
LEMMA KillHearDirect ==
    ASSUME SInv, EndInv, SavedInv, cmd[Manager].op \in {"kill", "suicide"}, NEW t \in Name, Ending(t), Before(t) \/ After(t),
           NEW s \in Name, Hear(s), Direct(s)
    PROVE  Ending(t)' /\ After(t)'
<1>1. PICK c : c = Current(s)
  OBVIOUS
<1>2. /\ c \in Name /\ c # s /\ IsChild(c, s) /\ nth[s] \in DOMAIN child[s] /\ child[s][nth[s]] = c
      /\ pc[s] = "hear" /\ pc'[s] = "ask" /\ up[s] = <<>> /\ up'[s] = <<>>
      /\ up[c] # <<>> /\ up'[c] = <<>> /\ Head(up[c]) \in Answer_ /\ down[c] = <<>> /\ ~Working(c)
      /\ ans'[s] = Heard(s, Head(up[c])) /\ UNCHANGED <<secret, cmd, down, saved>>
      /\ \A x \in Name \ {s} : pc'[x] = pc[x]
      /\ child' = [child EXCEPT ![s] = RemoveAt(@, nth[s])]
  BY <1>1, HearFacts
<1>3. \A x \in Name \ {c} : up'[x] = up[x]
  BY <1>1, HearFacts
<1>4. c = t /\ cmd[s].op = "kill"
  <2>1. Fit(cmd[s], s, t)
    BY <1>2 DEF Ending, Handling
  <2>2. QED
    BY <1>1, <2>1 DEF Fit, Direct
<1>5. pc[t] = "dead"
  <2>1. Ends(s) /\ up[Current(s)] # <<>>
    BY <1>1, <1>2 DEF Ends
  <2>2. pc[Current(s)] = "dead"
    BY <1>2, <2>1 DEF EndInv
  <2>3. QED
    BY <1>1, <1>4, <2>2
<1>6. saved.alive \subseteq Name /\ IsTree(saved.child) /\ \A p \in Name : ToSet(saved.child[p]) \subseteq saved.alive
  BY KillFacts
<1>7. Busy(c)
  BY <1>2 DEF Busy
<1>8. Before(t)
  BY <1>4, <1>5, <1>7 DEF After
<1>9. s \in saved.alive /\ child[s] = saved.child[s]
  <2>1. s \in saved.alive
    BY <1>2 DEF Ending
  <2>2. QED
    BY <1>2, <1>8, <2>1 DEF Before
<1>10. t \in ToSet(saved.child[s]) /\ t \in saved.alive
  BY <1>2, <1>4, <1>6, <1>9 DEF IsChild
<1>11. ans'[s].ok /\ ans'[s].n = Cardinality(Was(t))
  <2>1. ans'[s] = Answer(TRUE, Head(up[c]).n)
    BY <1>2, <1>4 DEF Heard
  <2>2. Head(up[c]).n = Cardinality(Was(t))
    BY <1>2, <1>4, <1>5, <1>8 DEF Before
  <2>3. QED
    BY <2>1, <2>2 DEF Answer
<1>12. child \in [Name -> Seq(Name)] /\ saved.child \in [Name -> Seq(Name)]
  BY <1>6 DEF SInv, TypeOK, IsTree
<1>13. child'[s] = RemoveAt(saved.child[s], nth[s]) /\ \A x \in Name \ {s} : child'[x] = child[x]
  BY <1>2, <1>9, <1>12
<1>14. ASSUME NEW x \in saved.alive, pc[x] # "dead" PROVE child'[x] = S!RemoveFirst(saved.child[x], t)
  <2>0. x \in Name /\ saved.child[x] \in Seq(Name) /\ IsInjective(saved.child[x])
    BY <1>6, <1>14 DEF IsTree
  <2>1. CASE x = s
    <3>1. nth[s] \in 1 .. Len(saved.child[s]) /\ saved.child[s][nth[s]] = t
      BY <1>2, <1>4, <1>9, <2>0, <2>1
    <3>2. S!RemoveFirst(saved.child[s], t) = RemoveAt(saved.child[s], nth[s])
      BY <2>0, <2>1, <3>1, RemoveFirstFacts
    <3>3. QED
      BY <1>13, <2>1, <3>2
  <2>2. CASE x # s
    <3>1. t \notin ToSet(saved.child[x])
      BY <1>6, <1>10, <2>0, <2>2 DEF IsTree
    <3>2. S!RemoveFirst(saved.child[x], t) = saved.child[x]
      BY <2>0, <3>1, RemoveFirstFacts
    <3>3. child[x] = saved.child[x]
      BY <1>8, <1>14 DEF Before
    <3>4. QED
      BY <1>13, <2>0, <2>2, <3>2, <3>3
  <2>3. QED
    BY <2>1, <2>2
<1>15. \A x \in Name : pc'[x] = "dead" <=> pc[x] = "dead"
  BY <1>2
<1>16. \A x \in Name : Busy(x)' => x = s
  <2>1. \A x \in Name : Busy(x) => x = c
    BY <1>2, <1>7, KillFacts
  <2>2. \A x \in Name \ {s, c} : Busy(x)' <=> Busy(x)
    BY <1>2, <1>3 DEF Busy
  <2>3. ~Busy(c)'
    BY <1>2, <1>4, <1>5 DEF Busy
  <2>4. QED
    BY <2>1, <2>2, <2>3
<1>17. Good(s)' /\ Number(s)' = Cardinality(Was(t)) /\ pc'[s] # "dead"
  BY <1>2, <1>11 DEF Good, Number
<1>18. \A x : Was(x)' = Was(x)
  BY <1>2 DEF Was
<1>19. After(t)'
  BY <1>2, <1>5, <1>6, <1>10, <1>14, <1>15, <1>16, <1>17, <1>18 DEF After
<1>20. \A x \in Name : pc'[x] \in Handling => Fit(cmd[x], x, t)'
  <2>1. \A x \in Name : pc'[x] \in Handling => pc[x] \in Handling
    BY <1>2 DEF Handling
  <2>2. QED
    BY <1>2, <1>18, <2>1 DEF Ending, Fit
<1>21. \A x \in Name : down'[x] # <<>> => Fit(Head(down[x]), x, t)'
  BY <1>2, <1>18 DEF Ending, Fit
<1>22. \A x \in Name : \A d \in ToSet(saved.child[x]) : d \in Name
  BY <1>6
<1>23. Ending(t)'
  <2>1. \A x \in Name \ saved.alive : pc'[x] = "dead" /\ child'[x] = saved.child[x] /\ secret'[x] = saved.secret[x]
    BY <1>2, <1>9, <1>13, <1>15 DEF Ending
  <2>2. \A x \in saved.alive : pc'[x] # "dead" => secret'[x] = saved.secret[x]
    BY <1>2, <1>6, <1>15 DEF Ending
  <2>3. \A x \in saved.alive : pc'[x] = "dead" =>
          /\ x \in Was(t) /\ child'[x] = <<>> /\ secret'[x] = None
          /\ \A d \in ToSet(saved.child[x]) : pc'[d] = "dead"
    BY <1>2, <1>6, <1>13, <1>15, <1>22 DEF Ending
  <2>4. QED
    BY <1>2, <1>18, <1>20, <1>21, <2>1, <2>2, <2>3 DEF Ending
<1>24. QED
  BY <1>19, <1>23

\* A service that ends adds up, any other goes on to its next child.
LEMMA KillHear ==
    ASSUME SInv, EndInv, SavedInv, cmd[Manager].op \in {"kill", "suicide"}, NEW t \in Name, Ending(t), Before(t) \/ After(t),
           NEW s \in Name, Hear(s), ~Direct(s)
    PROVE  Ending(t)' /\ (Before(t)' \/ After(t)')
<1>1. PICK c : c = Current(s)
  OBVIOUS
<1>2. /\ c \in Name /\ c # s /\ IsChild(c, s) /\ nth[s] \in DOMAIN child[s] /\ child[s][nth[s]] = c
      /\ pc[s] = "hear" /\ pc'[s] = "ask" /\ up[s] = <<>> /\ up'[s] = <<>>
      /\ up[c] # <<>> /\ up'[c] = <<>> /\ Head(up[c]) \in Answer_ /\ down[c] = <<>> /\ ~Working(c)
      /\ nth'[s] = nth[s] + 1 /\ ans'[s] = Heard(s, Head(up[c])) /\ UNCHANGED <<secret, cmd, down, saved>>
      /\ child' = child
  BY <1>1, HearFacts
<1>3. /\ \A x \in Name \ {c} : up'[x] = up[x]
      /\ \A x \in Name \ {s} : pc'[x] = pc[x] /\ nth'[x] = nth[x] /\ ans'[x] = ans[x]
  BY <1>1, HearFacts
<1>4. Fit(cmd[s], s, t)
  BY <1>2 DEF Ending, Handling
<1>5. saved.alive \subseteq Name /\ IsTree(saved.child)
  BY KillFacts
<1>6. \A x \in Name : pc'[x] = "dead" <=> pc[x] = "dead"
  BY <1>2, <1>3
<1>7. Ending(t)'
  <2>1. \A x \in Name : pc'[x] \in Handling => pc[x] \in Handling
    BY <1>2, <1>3 DEF Handling
  <2>2. \A x \in Name : pc'[x] \in Handling => Fit(cmd'[x], x, t)
    BY <1>2, <2>1 DEF Ending
  <2>3. \A x \in Name : down'[x] # <<>> => Fit(Head(down'[x]), x, t)
    BY <1>2 DEF Ending
  <2>4. QED
    BY <1>2, <1>5, <1>6, <2>2, <2>3, EndingFrame
<1>8. cmd[s].op = "suicide" => pc[c] = "dead"
  BY <1>1, <1>2 DEF EndInv, Ends
<1>9. cmd[s].op = "kill" => pc[c] # "dead"
  BY <1>1, <1>2 DEF SInv, DeathInv, Dying, Ends
<1>10. cmd[s].op = "kill" => ans'[s] = Head(up[c])
  BY <1>2 DEF Heard
<1>11. cmd[s].op = "suicide" => ans'[s] = Answer(FALSE, ans[s].n + Head(up[c]).n)
  BY <1>2 DEF Heard
<1>12. CASE After(t)
  <2>1. Busy(c)
    BY <1>2 DEF Busy
  <2>2. Good(c) /\ pc[c] # "dead" /\ Number(c) = Cardinality(Was(t))
    BY <1>2, <1>12, <2>1 DEF After
  <2>3. Head(up[c]).ok /\ Head(up[c]).n = Cardinality(Was(t))
    BY <1>2, <2>2 DEF Good, Number, Working
  <2>4. cmd[s].op = "kill"
    BY <1>4, <1>8, <2>2 DEF Fit
  <2>5. ASSUME NEW x \in Name, Busy(x)' PROVE Good(x)' /\ pc'[x] # "dead" /\ Number(x)' = Cardinality(Was(t))
    <3>1. CASE x = s
      BY <1>2, <1>10, <2>3, <2>4, <3>1 DEF Good, Number
    <3>2. CASE x # s
      <4>1. Busy(x) => x = c
        BY <1>2, <2>1, KillFacts
      <4>2. x # c
        BY <1>2, <1>3, <2>5 DEF Busy, Working
      <4>3. Busy(x)
        BY <1>2, <1>3, <2>5, <3>2, <4>2 DEF Busy
      <4>4. QED
        BY <4>1, <4>2, <4>3
    <3>3. QED
      BY <3>1, <3>2
  <2>6. After(t)'
    BY <1>2, <1>5, <1>6, <1>12, <2>5, AfterFrame
  <2>7. QED
    BY <1>7, <2>6
<1>13. CASE Before(t)
  <2>1. s \in saved.alive /\ child[s] = saved.child[s]
    <3>1. s \in saved.alive
      BY <1>2 DEF Ending
    <3>2. QED
      BY <1>2, <1>13, <3>1 DEF Before
  <2>2. child[s] \in Seq(Name) /\ nth[s] \in Nat
    BY DEF SInv, TypeOK
  <2>3. ~Good(c) /\ ~Head(up[c]).ok
    BY <1>2, <1>13 DEF Before, Good
  <2>4. ASSUME NEW x \in Name, pc'[x] \in {"ask", "hear"}
        PROVE  IF cmd'[x].op = "suicide" THEN ans'[x].n = Cardinality(Reach(x, nth'[x]))
               ELSE \A k \in DOMAIN child[x] : k < nth'[x] => t \notin Was(child[x][k])
    <3>1. CASE x # s
      BY <1>2, <1>3, <1>13, <2>4, <3>1 DEF Before, NotAmong
    <3>2. CASE x = s /\ cmd[s].op = "suicide"
      <4>1. ans[s].n = Cardinality(Reach(s, nth[s])) /\ Head(up[c]).n = Cardinality(Was(c))
        BY <1>2, <1>8, <1>13, <3>2 DEF Before
      <4>2. Cardinality(Reach(s, nth[s] + 1)) = Cardinality(Reach(s, nth[s])) + Cardinality(Was(c))
        BY <1>2, <1>5, <2>1, ReachFacts
      <4>3. ans'[s].n = ans[s].n + Head(up[c]).n
        BY <1>11, <3>2 DEF Answer
      <4>4. QED
        BY <1>2, <3>2, <4>1, <4>2, <4>3
    <3>3. CASE x = s /\ cmd[s].op = "kill"
      <4>1. NotAmong(s, t)
        BY <1>2, <1>13, <3>3 DEF Before
      <4>2. t \notin Was(c)
        BY <1>2, <1>9, <1>13, <3>3 DEF Before
      <4>3. \A k \in DOMAIN child[s] : k < nth[s] + 1 => k < nth[s] \/ k = nth[s]
        BY <2>2
      <4>4. QED
        BY <1>2, <3>3, <4>1, <4>2, <4>3 DEF NotAmong
    <3>4. QED
      BY <1>4, <3>1, <3>2, <3>3 DEF Fit
  <2>5. \A x \in Name : up'[x] # <<>> =>
          IF pc[x] = "dead" THEN Head(up'[x]).n = Cardinality(Was(x)) ELSE t \notin Was(x)
    BY <1>2, <1>3, <1>13 DEF Before
  <2>6. ~ans'[s].ok
    BY <1>4, <1>10, <1>11, <2>3 DEF Fit, Answer
  <2>7. \A x \in Name : ~Good(x)'
    <3>1. ~Good(s)'
      BY <1>2, <2>6 DEF Good
    <3>2. \A x \in Name \ {s} : Good(x)' => Good(x)
      BY <1>2, <1>3 DEF Good
    <3>3. QED
      BY <1>13, <3>1, <3>2 DEF Before
  <2>8. Before(t)'
    BY <1>2, <1>5, <1>6, <1>13, <2>4, <2>5, <2>7, BeforeFrame
  <2>9. QED
    BY <1>7, <2>8
<1>14. QED
  BY <1>12, <1>13

LEMMA KillReset ==
    ASSUME SInv, SavedInv, cmd[Manager].op \in {"kill", "suicide"}, NEW t \in Name, Ending(t), Before(t) \/ After(t),
           NEW s \in Name, Reset(s)
    PROVE  Ending(t)' /\ (Before(t)' \/ After(t)')
<1>1. /\ pc[s] = "reset" /\ pc'[s] = "idle" /\ UNCHANGED <<child, secret, cmd, nth, ans, down, up, saved>>
      /\ \A x \in Name \ {s} : pc'[x] = pc[x]
  BY DEF Reset, Goto, SInv, TypeOK, pipes, output
<1>2. saved.alive \subseteq Name /\ IsTree(saved.child)
  BY KillFacts
<1>3. \A x \in Name : /\ pc'[x] = "dead" <=> pc[x] = "dead"
                      /\ pc'[x] \in Handling => pc[x] \in Handling
                      /\ pc'[x] \in {"ask", "hear"} => pc[x] \in {"ask", "hear"}
                      /\ Good(x)' <=> Good(x)
                      /\ Busy(x)' => Busy(x)
                      /\ Number(x)' = Number(x)
  <2>1. \A x \in Name : Good(x)' <=> Good(x)
    BY <1>1 DEF Good
  <2>2. \A x \in Name : Busy(x)' => Busy(x)
    BY <1>1 DEF Busy
  <2>3. \A x \in Name : Number(x)' = Number(x)
    BY <1>1 DEF Number
  <2>4. QED
    BY <1>1, <2>1, <2>2, <2>3 DEF Handling, Exchanging
<1>4. Ending(t)'
  <2>1. \A x \in Name : pc'[x] \in Handling => Fit(cmd'[x], x, t)
    BY <1>1, <1>3 DEF Ending
  <2>2. \A x \in Name : down'[x] # <<>> => Fit(Head(down'[x]), x, t)
    BY <1>1 DEF Ending
  <2>3. QED
    BY <1>1, <1>2, <1>3, <2>1, <2>2, EndingFrame
<1>5. CASE Before(t)
  <2>1. \A x \in Name : pc'[x] \in {"ask", "hear"} =>
          IF cmd'[x].op = "suicide" THEN ans'[x].n = Cardinality(Reach(x, nth'[x]))
          ELSE \A k \in DOMAIN child[x] : k < nth'[x] => t \notin Was(child[x][k])
    BY <1>1, <1>3, <1>5 DEF Before, NotAmong
  <2>2. \A x \in Name : up'[x] # <<>> =>
          IF pc[x] = "dead" THEN Head(up'[x]).n = Cardinality(Was(x)) ELSE t \notin Was(x)
    BY <1>1, <1>5 DEF Before
  <2>3. \A x \in Name : ~Good(x)'
    BY <1>3, <1>5 DEF Before
  <2>4. Before(t)'
    BY <1>1, <1>2, <1>3, <1>5, <2>1, <2>2, <2>3, BeforeFrame
  <2>5. QED
    BY <1>4, <2>4
<1>6. CASE After(t)
  <2>1. \A x \in Name : Busy(x)' => Good(x)' /\ pc'[x] # "dead" /\ Number(x)' = Cardinality(Was(t))
    BY <1>3, <1>6 DEF After
  <2>2. After(t)'
    BY <1>1, <1>2, <1>3, <1>6, <2>1, AfterFrame
  <2>3. QED
    BY <1>4, <2>2
<1>7. QED
  BY <1>5, <1>6

\* A service that is not below t answers.
LEMMA KillReply ==
    ASSUME SInv, SavedInv, cmd[Manager].op \in {"kill", "suicide"}, NEW t \in Name, Ending(t), Before(t) \/ After(t),
           NEW s \in Name, Reply(s), cmd[s].op # "suicide"
    PROVE  Ending(t)' /\ (Before(t)' \/ After(t)')
<1>1. /\ pc[s] = "ask" /\ s # Manager /\ Over(s) /\ ans[s] \in Answer_ /\ Finish(s, "idle")
      /\ UNCHANGED <<child, secret, down, saved>> /\ up' = [up EXCEPT ![s] = Append(@, ans[s])]
  BY DEF Reply, SInv, TypeOK, output
<1>2. pc'[s] = "idle" /\ \A x \in Name \ {s} : pc'[x] = pc[x] /\ cmd'[x] = cmd[x] /\ nth'[x] = nth[x] /\ ans'[x] = ans[x]
  BY <1>1, FinishFacts DEF SInv
<1>3. up[s] = <<>>
  BY <1>1 DEF SInv, TokenInv, Working
<1>4. up'[s] # <<>> /\ Head(up'[s]) = ans[s] /\ \A x \in Name \ {s} : up'[x] = up[x]
  BY <1>1, <1>3, PutUp DEF SInv
<1>5. Fit(cmd[s], s, t)
  BY <1>1 DEF Ending, Handling
<1>6. saved.alive \subseteq Name /\ IsTree(saved.child)
  BY KillFacts
<1>7. \A x \in Name : pc'[x] = "dead" <=> pc[x] = "dead"
  BY <1>1, <1>2
<1>8. cmd'[Manager] = cmd[Manager]
  BY ServiceOutput DEF service
<1>9. Ending(t)'
  <2>1. \A x \in Name : pc'[x] \in Handling => x # s
    BY <1>2 DEF Handling, Exchanging
  <2>2. \A x \in Name : pc'[x] \in Handling => Fit(cmd'[x], x, t)
    BY <1>2, <2>1 DEF Ending
  <2>3. \A x \in Name : down'[x] # <<>> => Fit(Head(down'[x]), x, t)
    BY <1>1 DEF Ending
  <2>4. QED
    BY <1>1, <1>6, <1>7, <1>8, <2>2, <2>3, EndingFrame
<1>10. Good(s)' <=> ans[s].ok
  BY <1>2, <1>4 DEF Good
<1>11. CASE After(t)
  <2>1. Busy(s)
    BY <1>1 DEF Busy
  <2>2. ans[s].ok /\ ans[s].n = Cardinality(Was(t))
    BY <1>1, <1>3, <1>11, <2>1 DEF After, Good, Number
  <2>3. ASSUME NEW x \in Name, Busy(x)' PROVE Good(x)' /\ pc'[x] # "dead" /\ Number(x)' = Cardinality(Was(t))
    <3>1. CASE x = s
      BY <1>2, <1>4, <1>10, <2>2, <3>1 DEF Number
    <3>2. CASE x # s
      <4>1. Busy(x)
        BY <1>1, <1>2, <1>4, <2>3, <3>2 DEF Busy
      <4>2. QED
        BY <2>1, <3>2, <4>1, KillFacts
    <3>3. QED
      BY <3>1, <3>2
  <2>4. After(t)'
    BY <1>1, <1>6, <1>7, <1>11, <2>3, AfterFrame
  <2>5. QED
    BY <1>9, <2>4
<1>12. CASE Before(t)
  <2>1. ~ans[s].ok /\ NotAmong(s, t)
    BY <1>1, <1>12 DEF Before, Good
  <2>2. t \notin Was(s)
    <3>1. s \in saved.alive
      BY <1>1 DEF Ending
    <3>2. child[s] = saved.child[s] /\ child[s] \in Seq(Name) /\ nth[s] \in Nat
      BY <1>1, <1>12, <3>1 DEF Before, SInv, TypeOK
    <3>3. nth[s] > Len(child[s])
      BY <1>1, <2>1 DEF Over
    <3>4. \A k \in DOMAIN child[s] : k < nth[s]
      BY <3>2, <3>3
    <3>5. \A c \in ToSet(saved.child[s]) : t \notin Was(c)
      BY <2>1, <3>2, <3>4 DEF NotAmong, ToSet
    <3>6. t # s
      BY <1>5, BelowLeast DEF Fit, Was
    <3>7. QED
      BY <1>6, <3>5, <3>6, BelowDown DEF Was, IsTree
  <2>3. \A x \in Name : pc'[x] \in {"ask", "hear"} =>
          IF cmd'[x].op = "suicide" THEN ans'[x].n = Cardinality(Reach(x, nth'[x]))
          ELSE \A k \in DOMAIN child[x] : k < nth'[x] => t \notin Was(child[x][k])
    BY <1>2, <1>12 DEF Before, NotAmong
  <2>4. \A x \in Name : up'[x] # <<>> =>
          IF pc[x] = "dead" THEN Head(up'[x]).n = Cardinality(Was(x)) ELSE t \notin Was(x)
    BY <1>1, <1>4, <1>12, <2>2 DEF Before
  <2>5. \A x \in Name : ~Good(x)'
    <3>1. \A x \in Name \ {s} : Good(x)' => Good(x)
      BY <1>2, <1>4 DEF Good
    <3>2. QED
      BY <1>10, <1>12, <2>1, <3>1 DEF Before
  <2>6. Before(t)'
    BY <1>1, <1>6, <1>7, <1>12, <2>3, <2>4, <2>5, BeforeFrame
  <2>7. QED
    BY <1>9, <2>6
<1>13. QED
  BY <1>11, <1>12

\* A service below t ends: its children have, and it tells how many they were.
LEMMA KillEnd ==
    ASSUME SInv, EndInv, SavedInv, cmd[Manager].op \in {"kill", "suicide"}, NEW t \in Name, Ending(t), Before(t) \/ After(t),
           NEW s \in Name, Reply(s), cmd[s].op = "suicide"
    PROVE  Ending(t)' /\ Before(t)'
<1>1. /\ pc[s] = "ask" /\ s # Manager /\ Over(s) /\ ans[s] \in Answer_ /\ Finish(s, "dead") /\ Forget(s)
      /\ UNCHANGED <<down, saved>> /\ up' = [up EXCEPT ![s] = Append(@, ans[s])]
  BY DEF Reply, SInv, TypeOK, output
<1>2. pc'[s] = "dead" /\ \A x \in Name \ {s} : pc'[x] = pc[x] /\ cmd'[x] = cmd[x] /\ nth'[x] = nth[x] /\ ans'[x] = ans[x]
  BY <1>1, FinishFacts DEF SInv
<1>3. up[s] = <<>> /\ down[s] = <<>>
  BY <1>1 DEF SInv, TokenInv, Working
<1>4. up'[s] # <<>> /\ Head(up'[s]) = ans[s] /\ \A x \in Name \ {s} : up'[x] = up[x]
  BY <1>1, <1>3, PutUp DEF SInv
<1>5. Fit(cmd[s], s, t)
  BY <1>1 DEF Ending, Handling
<1>6. /\ saved.alive \subseteq Name /\ IsTree(saved.child)
      /\ \A p \in Name : ToSet(saved.child[p]) \subseteq saved.alive
  BY KillFacts
<1>7. cmd'[Manager] = cmd[Manager]
  BY ServiceOutput DEF service
<1>8. /\ child'[s] = <<>> /\ secret'[s] = None
      /\ \A x \in Name \ {s} : child'[x] = child[x] /\ secret'[x] = secret[x]
  BY <1>1 DEF Forget, SInv, TypeOK
<1>9. ~ans[s].ok /\ \A k \in DOMAIN child[s] : k < nth[s] => pc[child[s][k]] = "dead"
  BY <1>1 DEF EndInv
<1>10. Before(t)
  <2>1. Busy(s) /\ ~Good(s)
    BY <1>1, <1>3, <1>9 DEF Busy, Good
  <2>2. QED
    BY <2>1 DEF After
<1>11. s \in saved.alive
  BY <1>1 DEF Ending
<1>12. child[s] = saved.child[s] /\ child[s] \in Seq(Name) /\ nth[s] \in Nat
  BY <1>1, <1>10, <1>11 DEF Before, SInv, TypeOK
<1>13. nth[s] > Len(child[s])
  BY <1>1, <1>9 DEF Over
<1>14. \A c \in ToSet(saved.child[s]) : pc[c] = "dead"
  <2>1. \A k \in DOMAIN child[s] : k < nth[s]
    BY <1>12, <1>13
  <2>2. QED
    BY <1>9, <1>12, <2>1 DEF ToSet
<1>15. ans[s].n = Cardinality(Was(s))
  <2>1. ans[s].n = Cardinality(Reach(s, nth[s]))
    BY <1>1, <1>10 DEF Before
  <2>2. Reach(s, nth[s]) = Was(s)
    BY <1>6, <1>12, <1>13, ReachFacts
  <2>3. QED
    BY <2>1, <2>2
<1>16. \A x : Was(x)' = Was(x)
  BY <1>1 DEF Was
<1>17. \A x \in Name : pc[x] = "dead" => pc'[x] = "dead"
  BY <1>2
<1>18. \A x \in Name : \A d \in ToSet(saved.child[x]) : d \in Name
  BY <1>6
<1>19. Ending(t)'
  <2>1. \A x \in Name : pc'[x] \in Handling => Fit(cmd[x], x, t)'
    <3>1. \A x \in Name : pc'[x] \in Handling => x # s
      BY <1>2 DEF Handling, Exchanging
    <3>2. QED
      BY <1>2, <1>16, <3>1 DEF Ending, Fit
  <2>2. \A x \in Name : down'[x] # <<>> => Fit(Head(down[x]), x, t)'
    BY <1>1, <1>16 DEF Ending, Fit
  <2>3. \A x \in Name \ saved.alive : pc'[x] = "dead" /\ child'[x] = saved.child[x] /\ secret'[x] = saved.secret[x]
    BY <1>2, <1>8, <1>11 DEF Ending
  <2>4. \A x \in saved.alive : pc'[x] # "dead" => secret'[x] = saved.secret[x]
    BY <1>2, <1>6, <1>8 DEF Ending
  <2>5. \A x \in saved.alive : pc'[x] = "dead" =>
          /\ x \in Was(t) /\ child'[x] = <<>> /\ secret'[x] = None
          /\ \A d \in ToSet(saved.child[x]) : pc'[d] = "dead"
    <3>1. s \in Was(t)
      BY <1>5 DEF Fit
    <3>2. QED
      BY <1>2, <1>6, <1>8, <1>14, <1>17, <1>18, <3>1 DEF Ending
  <2>6. QED
    BY <1>1, <1>7, <1>16, <2>1, <2>2, <2>3, <2>4, <2>5 DEF Ending
<1>20. Before(t)'
  <2>1. \A x \in saved.alive : pc'[x] # "dead" => child'[x] = saved.child[x]
    BY <1>2, <1>6, <1>8, <1>10 DEF Before
  <2>2. ASSUME NEW x \in Name, pc'[x] \in {"ask", "hear"}
        PROVE  IF cmd'[x].op = "suicide" THEN ans'[x].n = Cardinality(Reach(x, nth[x])') ELSE NotAmong(x, t)'
    <3>1. x # s
      BY <1>2, <2>2
    <3>2. Reach(x, nth[x])' = Reach(x, nth[x])
      BY <1>1, <1>2, <1>16, <3>1 DEF Reach
    <3>3. NotAmong(x, t)' <=> NotAmong(x, t)
      BY <1>2, <1>8, <1>16, <3>1 DEF NotAmong
    <3>4. QED
      BY <1>2, <1>10, <2>2, <3>1, <3>2, <3>3 DEF Before
  <2>3. \A x \in Name : up'[x] # <<>> =>
          IF pc'[x] = "dead" THEN Head(up'[x]).n = Cardinality(Was(x)) ELSE t \notin Was(x)
    BY <1>2, <1>4, <1>10, <1>15 DEF Before
  <2>4. \A x \in Name : ~Good(x)'
    <3>1. ~Good(s)'
      BY <1>2, <1>4, <1>9 DEF Good
    <3>2. \A x \in Name \ {s} : Good(x)' => Good(x)
      BY <1>2, <1>4 DEF Good
    <3>3. QED
      BY <1>10, <3>1, <3>2 DEF Before
  <2>5. QED
    BY <1>1, <1>16, <2>1, <2>2, <2>3, <2>4 DEF Before
<1>21. QED
  BY <1>19, <1>20

LEMMA KillService ==
    ASSUME SInv, EndInv, SavedInv, KillEffect, cmd[Manager].op \in {"kill", "suicide"}, NEW s \in Name, service(s)
    PROVE  KillEffect'
<1>1. PICK t : t = cmd[Manager].a
  OBVIOUS
<1>2. Ending(t) /\ (Before(t) \/ After(t)) /\ t \in Name
  BY <1>1 DEF KillEffect, Ending
<1>3. Receive(s) \/ Fork(s) \/ Born(s) \/ Ask(s) \/ Hear(s) \/ Reply(s) \/ Reset(s)
  BY WorkSteps
<1>4. ~Fork(s) /\ ~Born(s)
  BY KillFacts DEF Fork, Born
<1>5. Ending(t)' /\ (Before(t)' \/ After(t)')
  BY <1>2, <1>3, <1>4, KillReceive, KillAsk, KillHear, KillHearDirect, KillReply, KillEnd, KillReset
<1>6. cmd'[Manager] = cmd[Manager]
  BY ServiceOutput
<1>7. QED
  BY <1>1, <1>5, <1>6 DEF KillEffect

\* The Manager reads a command: nobody has ended yet.
LEMMA KillCommand ==
    ASSUME SInv, SavedInv, Command
    PROVE  KillEffect'
<1>0. Manager \in Name /\ TypeOK /\ pc[Manager] = "idle" /\ UNCHANGED <<child, secret, down, up, saved>>
  BY NameAssumption DEF SInv, Command, globals, pipes
<1>1. PICK m \in Input : Begin(Manager, m)
  BY DEF Command
<1>2. m \in Command_
  BY <1>0, <1>1 DEF Input, Cmd, Command_, Alive
<1>3. /\ cmd'[Manager] = m /\ pc'[Manager] \in {"fork", "tell", "ask"} /\ nth'[Manager] = 1
      /\ ans'[Manager] = FirstAns(Manager, m) /\ (pc'[Manager] = "tell" <=> m.op = "start")
      /\ (pc'[Manager] = "fork" => m.op = "spawn")
      /\ \A x \in Name \ {Manager} : pc'[x] = pc[x]
  BY <1>0, <1>1, <1>2, BeginFacts
<1> SUFFICES ASSUME m.op \in {"kill", "suicide"} PROVE KillEffect'
  BY <1>3 DEF KillEffect
<1>4. PICK t : t = m.a
  OBVIOUS
<1>5. t \in Name /\ m.b = t /\ (m.op = "suicide" <=> t = Manager)
  <2>1. m \in {Cmd(IF a = Manager THEN "suicide" ELSE "kill", a, a, 0) : a \in Name}
    BY <1>1 DEF Input, Cmd
  <2>2. PICK a \in Name : m = Cmd(IF a = Manager THEN "suicide" ELSE "kill", a, a, 0)
    BY <2>1
  <2>3. m.a = a /\ m.b = a /\ m.op = IF a = Manager THEN "suicide" ELSE "kill"
    BY <2>2 DEF Cmd
  <2>4. QED
    BY <1>4, <2>3
<1>6. pc'[Manager] = "ask" /\ ~ans'[Manager].ok /\ (m.op = "suicide" => ans'[Manager].n = 1)
  BY <1>3 DEF FirstAns, Answer
<1>7. /\ \A x \in Name \ {Manager} : pc[x] \in {"idle", "dead", "reset"}
      /\ \A x \in Name : down[x] = <<>> /\ up[x] = <<>>
  <2>1. \A c \in Name : ~Engaged(Manager, c)
    BY <1>0 DEF Engaged
  <2>2. QED
    BY <2>1, Calm
<1>8. /\ IsTree(saved.child) /\ Same /\ saved.alive \subseteq Name /\ Manager \in saved.alive
      /\ \A x \in Name \ saved.alive : saved.child[x] = <<>>
  BY <1>0 DEF SavedInv
<1>9. \A x \in Name : x \in saved.alive <=> pc[x] # "dead"
  BY <1>8 DEF Same, Alive
<1>10. \A x \in Name : x \in saved.alive <=> pc'[x] # "dead"
  BY <1>0, <1>3, <1>6, <1>9
<1>11. \A x : Was(x)' = Was(x)
  BY <1>0 DEF Was
<1>12. t # Manager => Manager \notin Was(t)
  <2>1. SUFFICES ASSUME t # Manager, Manager \in Was(t) PROVE FALSE
    OBVIOUS
  <2>2. PICK p \in Was(t) : Manager \in ToSet(saved.child[p])
    BY <1>5, <1>8, <2>1, BelowUp DEF Was, IsTree
  <2>3. p \in Name
    BY <1>5, <2>2, BelowLeast DEF Was
  <2>4. QED
    BY <1>8, <2>2, <2>3 DEF IsTree
<1>13. Manager \in Was(Manager)
  BY <1>0, BelowLeast DEF Was
<1>14. \A x \in Name : pc'[x] \in Handling => x = Manager
  BY <1>3, <1>7 DEF Handling, Exchanging
<1>15. Ending(t)'
  <2>1. \A x \in Name : pc'[x] \in Handling => Fit(cmd[x], x, t)'
    BY <1>3, <1>4, <1>5, <1>11, <1>12, <1>13, <1>14 DEF Fit
  <2>2. \A x \in Name : down'[x] = <<>>
    BY <1>0, <1>7
  <2>3. child' = saved.child /\ secret' = saved.secret /\ saved' = saved
    BY <1>0, <1>8 DEF Same
  <2>4. \A x \in saved.alive : pc'[x] # "dead"
    BY <1>8, <1>10
  <2>5. QED
    BY <1>3, <1>5, <1>10, <2>1, <2>2, <2>3, <2>4 DEF Ending
<1>16. Before(t)'
  <2>1. child' = saved.child /\ saved' = saved
    BY <1>0, <1>8 DEF Same
  <2>2. ASSUME NEW x \in Name, pc'[x] \in {"ask", "hear"}
        PROVE  IF cmd'[x].op = "suicide" THEN ans'[x].n = Cardinality(Reach(x, nth[x])') ELSE NotAmong(x, t)'
    <3>1. x = Manager
      BY <1>14, <2>2 DEF Handling
    <3>2. Reach(Manager, nth[Manager])' = Reach(Manager, 1)
      BY <1>3, <1>11, <2>1 DEF Reach
    <3>3. Cardinality(Reach(Manager, 1)) = 1
      BY <1>0, <1>8, ReachFacts
    <3>4. child[Manager] \in Seq(Name)
      BY <1>0 DEF TypeOK
    <3>5. \A k \in DOMAIN child[Manager] : ~(k < 1)
      BY <3>4
    <3>6. NotAmong(Manager, t)'
      BY <1>0, <1>3, <3>5 DEF NotAmong
    <3>7. QED
      BY <1>3, <1>6, <3>1, <3>2, <3>3, <3>6
  <2>3. \A x \in Name : up'[x] = <<>>
    BY <1>0, <1>7
  <2>4. \A x \in Name : ~Good(x)'
    <3>1. \A x \in Name : pc'[x] = "ask" => x = Manager
      BY <1>14 DEF Handling
    <3>2. QED
      BY <1>6, <2>3, <3>1 DEF Good
  <2>5. QED
    BY <1>8, <2>1, <2>2, <2>3, <2>4 DEF Before
<1>17. QED
  BY <1>3, <1>4, <1>15, <1>16 DEF KillEffect

\* All that were below a service that has ended have ended.
LEMMA AllBelowEnd ==
    ASSUME SInv, SavedInv, cmd[Manager].op \in {"kill", "suicide"}, NEW t \in Name, Ending(t),
           NEW u \in Name, pc[u] = "dead" \/ \A c \in ToSet(saved.child[u]) : pc[c] = "dead"
    PROVE  \A x \in Was(u) : x = u \/ pc[x] = "dead"
<1>1. /\ IsTree(saved.child) /\ \A x \in Name \ saved.alive : saved.child[x] = <<>>
      /\ \A p \in Name : ToSet(saved.child[p]) \subseteq saved.alive
      /\ saved.alive \subseteq Name
  BY KillFacts
<1>2. PICK X \in SUBSET Name : X = {x \in Name : x = u \/ pc[x] = "dead"}
  OBVIOUS
<1>3. ASSUME NEW y \in X, NEW c \in ToSet(saved.child[y]) PROVE c \in X
  <2>1. y \in Name /\ (y = u \/ pc[y] = "dead")
    BY <1>2
  <2>2. y \in saved.alive
    <3>1. SUFFICES ASSUME y \notin saved.alive PROVE FALSE
      OBVIOUS
    <3>2. saved.child[y] = <<>>
      BY <1>1, <2>1, <3>1
    <3>3. ToSet(<<>>) = {}
      BY DEF ToSet
    <3>4. QED
      BY <1>3, <3>2, <3>3
  <2>3. c \in Name
    BY <1>1, <1>3, <2>1
  <2>4. pc[c] = "dead"
    BY <1>3, <2>1, <2>2 DEF Ending
  <2>5. QED
    BY <1>2, <2>3, <2>4
<1>4. u \in X
  BY <1>2
<1>5. Was(u) \subseteq X
  BY <1>3, <1>4, BelowLeast DEF Was
<1>6. QED
  BY <1>2, <1>5

\* Whoever was below a service that ran, ran.
LEMMA WasAlive ==
    ASSUME SavedInv, pc[Manager] # "dead", NEW t \in saved.alive
    PROVE  Was(t) \subseteq saved.alive
<1>1. saved.alive \in SUBSET Name /\ t \in Name /\ \A y \in saved.alive : ToSet(saved.child[y]) \subseteq saved.alive
  BY DEF SavedInv
<1>2. QED
  BY <1>1, BelowLeast DEF Was

\* What Services says of a kill, and the line that it prints.
LEMMA KillRefines ==
    ASSUME NEW t, t \in saved.alive,
           saved'.child = [x \in Name |-> IF x \in Was(t) THEN <<>> ELSE S!RemoveFirst(saved.child[x], t)],
           saved'.secret = [x \in Name |-> IF x \in Was(t) THEN None ELSE saved.secret[x]],
           saved'.alive = saved.alive \ Was(t),
           S!Prints("kill", t, t, t \in saved.alive, IF t \in saved.alive THEN Cardinality(Was(t)) - 1 ELSE 0)
    PROVE  S!Kill(t)
<1>1. \A X : S!Cardinality(X) = Cardinality(X)
  BY DEF S!Cardinality, Cardinality
<1>2. QED
  BY <1>1 DEF S!Kill, Was

LEMMA KillMatch ==
    ASSUME SInv, SavedInv, cmd[Manager].op \in {"kill", "suicide"}, NEW t \in saved.alive,
           child' \in [Name -> Seq(Name)], secret' \in [Name -> Secret \cup {None}],
           \A x \in Was(t) : child'[x] = <<>> /\ secret'[x] = None /\ x \notin Alive',
           \A x \in saved.alive \ Was(t) :
              child'[x] = S!RemoveFirst(saved.child[x], t) /\ secret'[x] = saved.secret[x] /\ x \in Alive',
           \A x \in Name \ saved.alive : child'[x] = saved.child[x] /\ secret'[x] = saved.secret[x] /\ x \notin Alive',
           saved' = [child |-> child', secret |-> secret', alive |-> Alive'],
           report' = S!Line("kill", t, t, TRUE, Cardinality(Was(t)) - 1, heard)
    PROVE  S!Kill(t)
<1>1. /\ IsTree(saved.child) /\ \A x \in Name \ saved.alive : saved.child[x] = <<>>
      /\ saved.alive \subseteq Name /\ pc[Manager] \notin {"idle", "dead"}
  BY KillFacts
<1>2. Was(t) \subseteq saved.alive
  BY <1>1, WasAlive
<1>3. \A x \in Name \ saved.alive : child'[x] = S!RemoveFirst(saved.child[x], t)
  <2>1. SUFFICES ASSUME NEW x \in Name \ saved.alive PROVE S!RemoveFirst(saved.child[x], t) = saved.child[x]
    OBVIOUS
  <2>2. saved.child[x] = <<>> /\ saved.child[x] \in Seq(Name) /\ IsInjective(saved.child[x])
    BY <1>1 DEF IsTree
  <2>3. t \notin ToSet(saved.child[x])
    BY <2>2 DEF ToSet
  <2>4. QED
    BY <2>2, <2>3, RemoveFirstFacts
<1>4. child' = [x \in Name |-> IF x \in Was(t) THEN <<>> ELSE S!RemoveFirst(saved.child[x], t)]
  BY <1>3
<1>5. secret' = [x \in Name |-> IF x \in Was(t) THEN None ELSE saved.secret[x]]
  BY <1>2
<1>6. Alive' = saved.alive \ Was(t)
  <2>1. Alive' \subseteq Name
    BY DEF Alive
  <2>2. QED
    BY <1>1, <1>2, <2>1
<1>7. saved'.child = child' /\ saved'.secret = secret' /\ saved'.alive = Alive'
  OBVIOUS
<1>8. report'.heard = heard
  BY DEF S!Line
<1>9. S!Prints("kill", t, t, t \in saved.alive, IF t \in saved.alive THEN Cardinality(Was(t)) - 1 ELSE 0)
  <2>1. (t \in saved.alive) = TRUE
    OBVIOUS
  <2>2. QED
    BY <1>8, <2>1 DEF S!Prints
<1>10. QED
  BY <1>4, <1>5, <1>6, <1>7, <1>9, KillRefines

\* The Manager prints how many services have ended.
LEMMA KillPrinted ==
    ASSUME SInv, EndInv, SavedInv, KillEffect, PrintKill
    PROVE  S!Next
<1>0. PICK t : t = cmd[Manager].a
  OBVIOUS
<1>1. /\ Manager \in Name /\ pc[Manager] = "ask" /\ Over(Manager) /\ cmd[Manager].op \in {"kill", "suicide"}
      /\ saved' = [child |-> child', secret |-> secret', alive |-> Alive'] /\ TypeOK
  BY NameAssumption DEF PrintKill, Outcome, Alive, SInv
<1>2. Ending(t) /\ (Before(t) \/ After(t)) /\ t \in Name /\ cmd[Manager].b = t
  BY <1>0, <1>1 DEF KillEffect, Ending
<1>3. /\ IsTree(saved.child) /\ \A x \in Name \ saved.alive : saved.child[x] = <<>>
      /\ \A p \in Name : ToSet(saved.child[p]) \subseteq saved.alive
      /\ saved.alive \subseteq Name /\ saved.alive \subseteq Was(Manager) /\ Manager \in saved.alive
  BY <1>1, KillFacts
<1>4. report = S!NoLine
  BY <1>1 DEF SavedInv
<1>5. child \in [Name -> Seq(Name)] /\ secret \in [Name -> Secret \cup {None}] /\ up[Manager] = <<>>
      /\ child[Manager] \in Seq(Name) /\ nth[Manager] \in Nat
  BY <1>1 DEF SInv, LinkInv, TypeOK
<1>6. CASE cmd[Manager].op = "kill"
  <2>1. /\ Finish(Manager, "idle") /\ child' = child /\ secret' = secret
        /\ report' = S!Line("kill", t, t, ans[Manager].ok, IF ans[Manager].ok THEN ans[Manager].n - 1 ELSE 0, heard)
    BY <1>0, <1>2, <1>6 DEF PrintKill, Outcome, globals
  <2>2. Alive' = Alive
    <3>1. pc'[Manager] = "idle" /\ \A x \in Name \ {Manager} : pc'[x] = pc[x]
      BY <1>1, <2>1, FinishFacts
    <3>2. \A x \in Name : pc'[x] # "dead" <=> pc[x] # "dead"
      BY <1>1, <3>1
    <3>3. QED
      BY <3>2 DEF Alive
  <2>3. CASE After(t)
    <3>1. Busy(Manager)
      BY <1>1 DEF Busy
    <3>2. ans[Manager].ok /\ ans[Manager].n = Cardinality(Was(t)) /\ t \in saved.alive /\ pc[t] = "dead"
      BY <1>1, <1>5, <2>3, <3>1 DEF After, Good, Number
    <3>3. \A x \in Was(t) : pc[x] = "dead" /\ x \in saved.alive
      <4>1. \A x \in Was(t) : pc[x] = "dead"
        BY <1>1, <1>2, <3>2, AllBelowEnd
      <4>2. Was(t) \subseteq saved.alive
        BY <1>1, <3>2, WasAlive
      <4>3. QED
        BY <4>1, <4>2
    <3>4. \A x \in Was(t) : child[x] = <<>> /\ secret[x] = None /\ x \notin Alive
      BY <1>2, <3>3 DEF Ending, Alive
    <3>5. \A x \in saved.alive \ Was(t) :
             child[x] = S!RemoveFirst(saved.child[x], t) /\ secret[x] = saved.secret[x] /\ x \in Alive
      BY <1>2, <1>3, <2>3 DEF Ending, After, Alive
    <3>6. \A x \in Name \ saved.alive : child[x] = saved.child[x] /\ secret[x] = saved.secret[x] /\ x \notin Alive
      BY <1>2 DEF Ending, Alive
    <3>7. /\ child' \in [Name -> Seq(Name)] /\ secret' \in [Name -> Secret \cup {None}]
          /\ \A x \in Was(t) : child'[x] = <<>> /\ secret'[x] = None /\ x \notin Alive'
          /\ \A x \in saved.alive \ Was(t) :
                child'[x] = S!RemoveFirst(saved.child[x], t) /\ secret'[x] = saved.secret[x] /\ x \in Alive'
          /\ \A x \in Name \ saved.alive : child'[x] = saved.child[x] /\ secret'[x] = saved.secret[x] /\ x \notin Alive'
      BY <1>5, <2>1, <2>2, <3>4, <3>5, <3>6
    <3>8. ans[Manager].ok = TRUE
      BY <1>1, <3>2 DEF TypeOK, Answer_
    <3>9. report' = S!Line("kill", t, t, TRUE, Cardinality(Was(t)) - 1, heard)
      BY <2>1, <3>2, <3>8
    <3>10. S!Kill(t)
      BY <1>1, <3>2, <3>7, <3>9, KillMatch
    <3>11. QED
      BY <1>2, <1>3, <1>4, <3>10 DEF S!Next
  <2>4. CASE Before(t)
    <3>1. ~ans[Manager].ok /\ NotAmong(Manager, t)
      BY <1>1, <1>6, <2>4 DEF Before, Good
    <3>2. child[Manager] = saved.child[Manager]
      BY <1>1, <1>3, <2>4 DEF Before
    <3>3. \A k \in DOMAIN child[Manager] : k < nth[Manager]
      <4>1. nth[Manager] > Len(child[Manager])
        BY <1>1, <3>1 DEF Over
      <4>2. QED
        BY <1>5, <4>1
    <3>4. \A c \in ToSet(saved.child[Manager]) : t \notin Was(c)
      BY <3>1, <3>2, <3>3 DEF NotAmong, ToSet
    <3>5. t # Manager
      <4>1. Fit(cmd[Manager], Manager, t)
        BY <1>1, <1>2 DEF Ending, Handling
      <4>2. QED
        BY <1>2, <1>6, <4>1, BelowLeast DEF Fit, Was
    <3>6. t \notin Was(Manager)
      BY <1>1, <1>2, <1>3, <3>4, <3>5, BelowDown DEF Was, IsTree
    <3>7. t \notin saved.alive
      BY <1>3, <3>6
    <3>8. Was(t) = {t}
      <4>1. ToSet(saved.child[t]) = {}
        BY <1>2, <1>3, <3>7 DEF ToSet
      <4>2. QED
        <5>1. t \in Was(t)
          BY <1>2, BelowLeast DEF Was
        <5>2. \A y \in Was(t) : y # t => \E c \in ToSet(saved.child[t]) : y \in Was(c)
          <6>1. saved.child \in [Name -> Seq(Name)]
            BY <1>3 DEF IsTree
          <6>2. QED
            BY <1>2, <6>1, BelowDown DEF Was
        <5>3. QED
          BY <4>1, <5>1, <5>2
    <3>9. \A x \in saved.alive : pc[x] # "dead"
      BY <1>2, <3>7, <3>8 DEF Ending
    <3>10. child = saved.child
      <4>1. \A x \in Name : child[x] = saved.child[x]
        BY <1>2, <2>4, <3>9 DEF Before, Ending
      <4>2. saved.child \in [Name -> Seq(Name)]
        BY <1>3 DEF IsTree
      <4>3. QED
        BY <1>5, <4>1, <4>2
    <3>11. secret = saved.secret
      <4>1. \A x \in Name : secret[x] = saved.secret[x]
        BY <1>2, <3>9 DEF Ending
      <4>2. saved.secret \in [Name -> Secret \cup {None}]
        BY <1>1 DEF SavedInv
      <4>3. QED
        BY <1>5, <4>1, <4>2
    <3>12. Alive = saved.alive
      BY <1>2, <1>3, <3>9 DEF Ending, Alive
    <3>13. saved'.child = saved.child /\ saved'.secret = saved.secret /\ saved'.alive = saved.alive
      BY <1>1, <2>1, <2>2, <3>10, <3>11, <3>12
    <3>14. S!Prints("kill", t, t, t \in saved.alive, IF t \in saved.alive THEN Cardinality(Was(t)) - 1 ELSE 0)
      <4>1. (t \in saved.alive) = FALSE /\ ans[Manager].ok = FALSE
        BY <1>1, <3>1, <3>7 DEF TypeOK, Answer_
      <4>2. report' = S!Line("kill", t, t, FALSE, 0, heard)
        BY <2>1, <4>1
      <4>3. report'.heard = heard
        BY <4>2 DEF S!Line
      <4>4. QED
        BY <4>1, <4>2, <4>3 DEF S!Prints
    <3>15. S!Kill(t)
      BY <3>7, <3>13, <3>14 DEF S!Kill, Was
    <3>16. QED
      BY <1>2, <1>3, <1>4, <3>15 DEF S!Next
  <2>5. QED
    BY <1>2, <2>3, <2>4
<1>7. CASE cmd[Manager].op = "suicide"
  <2>1. /\ Finish(Manager, "dead") /\ Forget(Manager)
        /\ report' = S!Line("kill", t, t, TRUE, ans[Manager].n - 1, heard)
    BY <1>0, <1>2, <1>7 DEF PrintKill, Outcome
  <2>2. t = Manager
    BY <1>2, <1>7 DEF Ending
  <2>3. ~ans[Manager].ok /\ \A k \in DOMAIN child[Manager] : k < nth[Manager] => pc[child[Manager][k]] = "dead"
    BY <1>1, <1>7 DEF EndInv
  <2>4. Before(t)
    <3>1. Busy(Manager) /\ ~Good(Manager)
      BY <1>1, <1>5, <2>3 DEF Busy, Good
    <3>2. QED
      BY <1>1, <1>2, <3>1 DEF After
  <2>5. child[Manager] = saved.child[Manager]
    BY <1>1, <1>3, <2>4 DEF Before
  <2>6. nth[Manager] > Len(child[Manager])
    BY <1>1, <2>3 DEF Over
  <2>7. ans[Manager].n = Cardinality(Was(t))
    <3>1. ans[Manager].n = Cardinality(Reach(Manager, nth[Manager]))
      BY <1>1, <1>7, <2>4 DEF Before
    <3>2. Reach(Manager, nth[Manager]) = Was(Manager)
      BY <1>1, <1>3, <1>5, <2>5, <2>6, ReachFacts
    <3>3. QED
      BY <2>2, <3>1, <3>2
  <2>8. \A x \in Was(Manager) : x = Manager \/ pc[x] = "dead"
    <3>1. \A k \in DOMAIN child[Manager] : k < nth[Manager]
      BY <1>5, <2>6
    <3>2. \A c \in ToSet(saved.child[Manager]) : pc[c] = "dead"
      BY <2>3, <2>5, <3>1 DEF ToSet
    <3>3. QED
      BY <1>1, <1>2, <3>2, AllBelowEnd
  <2>9. /\ child' = [child EXCEPT ![Manager] = <<>>] /\ secret' = [secret EXCEPT ![Manager] = None]
        /\ pc'[Manager] = "dead" /\ \A x \in Name \ {Manager} : pc'[x] = pc[x]
    BY <1>1, <2>1, FinishFacts DEF Forget
  <2>10. Was(t) = saved.alive
    <3>1. Was(Manager) \subseteq saved.alive
      BY <1>1, <1>3, WasAlive
    <3>2. QED
      BY <1>3, <2>2, <3>1
  <2>11. \A x \in Was(t) : child'[x] = <<>> /\ secret'[x] = None /\ x \notin Alive'
    <3>1. ASSUME NEW x \in Was(t) PROVE child'[x] = <<>> /\ secret'[x] = None /\ pc'[x] = "dead"
      <4>1. x \in Name /\ x \in saved.alive
        BY <1>3, <2>10
      <4>2. CASE x = Manager
        BY <1>5, <2>9, <4>1, <4>2
      <4>3. CASE x # Manager
        <5>1. pc[x] = "dead"
          BY <2>2, <2>8, <4>3
        <5>2. child[x] = <<>> /\ secret[x] = None
          BY <1>2, <4>1, <5>1 DEF Ending
        <5>3. QED
          BY <1>5, <2>9, <4>1, <4>3, <5>1, <5>2
      <4>4. QED
        BY <4>2, <4>3
    <3>2. QED
      BY <3>1 DEF Alive
  <2>12. \A x \in Name \ saved.alive : child'[x] = saved.child[x] /\ secret'[x] = saved.secret[x] /\ x \notin Alive'
    <3>1. \A x \in Name \ saved.alive : x # Manager
      BY <1>3
    <3>2. QED
      BY <1>2, <1>5, <2>9, <3>1 DEF Ending, Alive
  <2>13. child' \in [Name -> Seq(Name)] /\ secret' \in [Name -> Secret \cup {None}]
    <3>1. <<>> \in Seq(Name)
      OBVIOUS
    <3>2. child' \in [Name -> Seq(Name)]
      BY <1>5, <2>9, <3>1
    <3>3. secret' \in [Name -> Secret \cup {None}]
      BY <1>5, <2>9
    <3>4. QED
      BY <3>2, <3>3
  <2>14. report' = S!Line("kill", t, t, TRUE, Cardinality(Was(t)) - 1, heard)
    BY <2>1, <2>7
  <2>15. t \in saved.alive /\ saved.alive \ Was(t) = {}
    BY <1>3, <2>2, <2>10
  <2>16. S!Kill(t)
    BY <1>1, <2>11, <2>12, <2>13, <2>14, <2>15, KillMatch
  <2>17. QED
    BY <1>2, <1>3, <1>4, <2>16 DEF S!Next
<1>8. QED
  BY <1>1, <1>6, <1>7

-------------------------------------------------------------------------------
(* exchange *)

\* A FIFO that holds nothing but e.
LEMMA OnlyOne ==
    ASSUME NEW E, NEW q \in Seq(E), NEW e, \A k \in DOMAIN q : q[k] = e
    PROVE  /\ e \in E => \A k \in DOMAIN Append(q, e) : Append(q, e)[k] = e
           /\ q # <<>> => Head(q) = e /\ \A k \in DOMAIN Tail(q) : Tail(q)[k] = e
<1>1. ASSUME e \in E PROVE \A k \in DOMAIN Append(q, e) : Append(q, e)[k] = e
  <2>1. /\ Append(q, e) \in Seq(E) /\ Len(Append(q, e)) = Len(q) + 1
        /\ \A k \in 1..Len(q) : Append(q, e)[k] = q[k]
        /\ Append(q, e)[Len(q) + 1] = e
    BY <1>1, AppendProperties
  <2>2. Len(q) \in Nat /\ DOMAIN q = 1..Len(q) /\ DOMAIN Append(q, e) = 1..(Len(q) + 1)
    BY <2>1, LenProperties
  <2>3. \A k \in 1..(Len(q) + 1) : k \in 1..Len(q) \/ k = Len(q) + 1
    BY <2>2
  <2>4. QED
    BY <2>1, <2>2, <2>3
<1>2. ASSUME q # <<>> PROVE Head(q) = e /\ \A k \in DOMAIN Tail(q) : Tail(q)[k] = e
  <2>1. Len(q) \in Nat /\ Len(q) # 0 /\ DOMAIN q = 1..Len(q)
    BY <1>2, EmptySeq, LenProperties
  <2>2. /\ Head(q) = q[1] /\ Tail(q) \in Seq(E) /\ Len(Tail(q)) = Len(q) - 1
        /\ \A k \in 1..Len(Tail(q)) : Tail(q)[k] = q[k + 1]
    BY <1>2, HeadTailProperties
  <2>3. DOMAIN Tail(q) = 1..(Len(q) - 1)
    BY <2>2, LenProperties
  <2>4. 1 \in DOMAIN q /\ \A k \in 1..(Len(q) - 1) : k + 1 \in DOMAIN q
    BY <2>1
  <2>5. QED
    BY <2>2, <2>3, <2>4
<1>3. QED
  BY <1>1, <1>2

\* Where a service goes once the exchange has begun.
LEMMA StartPlaces ==
    ASSUME SInv, PartnerInv, cmd[Manager].op = "start", NEW s \in Name, service(s)
    PROVE  /\ pc'[s] \in {"open1", "open2", "give", "take"} =>
                 pc[s] \in {"open1", "open2", "give", "take"} \/ (pc[s] = "tell" /\ s \in {Partner(0), Partner(1)})
           /\ pc'[s] = "give" => s # Partner(0)
           /\ pc'[s] = "collect" => \/ pc[s] = "collect" /\ Collect(s)
                                    \/ pc[s] = "take" /\ nth'[s] = nth[s]
                                    \/ pc[s] = "tell" /\ s \notin {Partner(0), Partner(1)} /\ nth'[s] = 1
<1>0. /\ pc \in [Name -> {"dead", "born", "idle", "fork", "ask", "hear", "tell", "open1", "open2",
                          "give", "take", "collect", "reset"}]
      /\ nth \in [Name -> Nat \ {0}]
  BY DEF SInv, TypeOK
<1>1. pc[s] \in Exchanging => (s = cmd[s].a <=> s = Partner(0)) /\ (s \in {cmd[s].a, cmd[s].b} <=> s \in {Partner(0), Partner(1)})
  BY StartPhase DEF Partner
<1>2. CASE Receive(s)
  <2>1. PICK m : m = Head(down[s])
    OBVIOUS
  <2>2. Begin(s, m) /\ down[s] # <<>>
    BY <1>2, <2>1 DEF Receive
  <2>3. m \in Command_
    <3>1. down[s] \in Seq(Command_)
      BY DEF SInv, TypeOK
    <3>2. QED
      BY <2>1, <2>2, <3>1, HeadTailProperties
  <2>4. pc'[s] \in {"fork", "tell", "ask"}
    BY <2>2, <2>3, BeginFacts DEF SInv
  <2>5. QED
    BY <2>4
<1>3. CASE Tell(s)
  BY <1>0, <1>3 DEF Tell
<1>4. CASE Told(s)
  <2>1. pc[s] = "tell" /\ pc'[s] = (IF s \in {cmd[s].a, cmd[s].b} THEN "open1" ELSE "collect") /\ nth'[s] = 1
    BY <1>0, <1>4 DEF Told, Goto
  <2>2. QED
    BY <1>1, <2>1 DEF Exchanging
<1>5. CASE Open1(s)
  BY <1>0, <1>5 DEF Open1, Goto
<1>6. CASE Open2(s)
  <2>1. pc[s] = "open2" /\ pc'[s] = (IF First(s) THEN "take" ELSE "give")
    BY <1>0, <1>6 DEF Open2, Goto
  <2>2. QED
    BY <1>1, <2>1 DEF First, Exchanging
<1>7. CASE Give(s)
  BY <1>0, <1>7 DEF Give, Goto
<1>8. CASE TakeFirst(s) \/ TakeSecond(s)
  BY <1>0, <1>8 DEF TakeFirst, TakeSecond, Goto
<1>9. CASE Collect(s)
  BY <1>0, <1>9 DEF Collect
<1>10. CASE Done(s) \/ Reset(s)
  BY <1>0, <1>10 DEF Done, Reset, Finish, Goto
<1>11. QED
  BY <1>2, <1>3, <1>4, <1>5, <1>6, <1>7, <1>8, <1>9, <1>10, StartSteps DEF start_exchange, exchanges

\* Partners write their old secrets, and take the other's.
LEMMA Trade ==
    ASSUME SInv, PartnerInv, cmd[Manager].op = "start", Trading, NEW s \in Name, service(s)
    PROVE  /\ \A k \in DOMAIN data'[1] : data'[1][k] = saved.secret[Partner(0)]
           /\ \A k \in DOMAIN data'[2] : data'[2][k] = saved.secret[Partner(1)]
           /\ \A t \in Name : secret'[t] # secret[t] => t = s /\ pc[s] = "take" /\ pc'[s] = "collect"
           /\ pc[s] = "take" => \A x \in {0, 1} : s = Partner(x) => secret'[s] = saved.secret[Other(x)]
<1>0. /\ pc \in [Name -> {"dead", "born", "idle", "fork", "ask", "hear", "tell", "open1", "open2",
                          "give", "take", "collect", "reset"}]
      /\ data \in [{1, 2} -> Seq(Secret)] /\ secret \in [Name -> Secret \cup {None}]
  BY DEF SInv, TypeOK
<1>1. /\ \A k \in DOMAIN data[1] : data[1][k] = saved.secret[Partner(0)]
      /\ \A k \in DOMAIN data[2] : data[2][k] = saved.secret[Partner(1)]
  BY DEF Trading
<1>2. ASSUME pc[s] \in {"give", "take"}
      PROVE  /\ s = Partner(0) \/ s = Partner(1)
             /\ secret[s] = saved.secret[s] /\ secret[s] \in Secret
             /\ First(s) <=> s = Partner(0)
  <2>1. s \in {Partner(0), Partner(1)}
    BY <1>2 DEF Trading
  <2>2. secret[s] = saved.secret[s]
    BY <1>2 DEF Trading
  <2>3. secret[s] \in Secret
    BY <1>2 DEF SInv, DeathInv
  <2>4. First(s) <=> s = Partner(0)
    BY <1>2, StartPhase DEF First, Partner, Exchanging
  <2>5. QED
    BY <2>1, <2>2, <2>3, <2>4
<1>3. Partner(0) # Partner(1)
  BY DEF PartnerInv, ExchangeOps
<1>4. Other(0) = Partner(1) /\ Other(1) = Partner(0)
  BY DEF Other, Partner
<1>5. CASE Give(s)
  <2>1. pc[s] = "give" /\ data' = [data EXCEPT ![2] = Append(data[2], secret[s])] /\ secret' = secret
    BY <1>5 DEF Give, globals
  <2>2. s = Partner(1) /\ secret[s] = saved.secret[s] /\ secret[s] \in Secret
    BY <1>2, <2>1 DEF Trading
  <2>3. data'[1] = data[1] /\ data'[2] = Append(data[2], saved.secret[Partner(1)])
    BY <1>0, <2>1, <2>2
  <2>4. \A k \in DOMAIN data'[2] : data'[2][k] = saved.secret[Partner(1)]
    BY <1>0, <1>1, <2>2, <2>3, OnlyOne
  <2>5. QED
    BY <1>1, <2>1, <2>3, <2>4
<1>6. CASE TakeFirst(s)
  <2>1. /\ pc[s] = "take" /\ First(s) /\ data[2] # <<>> /\ pc'[s] = "collect"
        /\ data' = [data EXCEPT ![1] = Append(data[1], secret[s]), ![2] = Tail(data[2])]
        /\ secret' = [secret EXCEPT ![s] = Head(data[2])]
    BY <1>0, <1>6 DEF TakeFirst, Goto
  <2>2. s = Partner(0) /\ secret[s] = saved.secret[s] /\ secret[s] \in Secret
    BY <1>2, <2>1
  <2>3. data'[1] = Append(data[1], saved.secret[Partner(0)]) /\ data'[2] = Tail(data[2])
    BY <1>0, <2>1, <2>2
  <2>4. Head(data[2]) = saved.secret[Partner(1)] /\ \A k \in DOMAIN data'[2] : data'[2][k] = saved.secret[Partner(1)]
    BY <1>0, <1>1, <2>1, <2>3, OnlyOne
  <2>5. \A k \in DOMAIN data'[1] : data'[1][k] = saved.secret[Partner(0)]
    BY <1>0, <1>1, <2>2, <2>3, OnlyOne
  <2>6. secret'[s] = saved.secret[Partner(1)] /\ \A t \in Name \ {s} : secret'[t] = secret[t]
    BY <1>0, <2>1, <2>4
  <2>7. QED
    BY <1>3, <1>4, <2>1, <2>2, <2>4, <2>5, <2>6
<1>7. CASE TakeSecond(s)
  <2>1. /\ pc[s] = "take" /\ ~First(s) /\ data[1] # <<>> /\ pc'[s] = "collect"
        /\ data' = [data EXCEPT ![1] = Tail(data[1])]
        /\ secret' = [secret EXCEPT ![s] = Head(data[1])]
    BY <1>0, <1>7 DEF TakeSecond, Goto
  <2>2. s = Partner(1)
    BY <1>2, <2>1
  <2>3. data'[1] = Tail(data[1]) /\ data'[2] = data[2]
    BY <1>0, <2>1
  <2>4. Head(data[1]) = saved.secret[Partner(0)] /\ \A k \in DOMAIN data'[1] : data'[1][k] = saved.secret[Partner(0)]
    BY <1>0, <1>1, <2>1, <2>3, OnlyOne
  <2>5. secret'[s] = saved.secret[Partner(0)] /\ \A t \in Name \ {s} : secret'[t] = secret[t]
    BY <1>0, <2>1, <2>4
  <2>6. QED
    BY <1>1, <1>3, <1>4, <2>1, <2>2, <2>3, <2>4, <2>5
<1>8. CASE ~Give(s) /\ ~TakeFirst(s) /\ ~TakeSecond(s)
  <2>1. Receive(s) \/ Tell(s) \/ Told(s) \/ Open1(s) \/ Open2(s) \/ Collect(s) \/ Done(s) \/ Reset(s)
    BY <1>8, StartSteps DEF start_exchange, exchanges
  <2>2. secret' = secret /\ data' = data /\ pc[s] # "take"
    BY <2>1 DEF Receive, Tell, Told, Open1, Open2, Collect, Done, Reset, globals, fifos
  <2>3. QED
    BY <1>1, <2>2
<1>9. QED
  BY <1>5, <1>6, <1>7, <1>8

\* Once the exchange has begun only those that are done answer.
LEMMA RaisedInStart ==
    ASSUME SInv, PartnerInv, cmd[Manager].op = "start", NEW s \in Name, service(s),
           NEW c \in Name, up'[c] # <<>>, ~(Done(s) /\ c = s)
    PROVE  up[c] # <<>>
<1>0. up \in [Name -> Seq(Answer_)] /\ \A t \in Name : Len(up[t]) <= 1
  BY DEF SInv, TypeOK
<1>1. CASE Receive(s) \/ Tell(s) \/ Told(s) \/ exchanges(s) \/ Reset(s)
  BY <1>1 DEF Receive, Tell, Told, exchanges, Open1, Open2, Give, TakeFirst, TakeSecond, Reset, pipes
<1>2. CASE Collect(s)
  <2>1. PICK d : d = Targets(s)[nth[s]]
    OBVIOUS
  <2>2. up[d] # <<>> /\ up' = [up EXCEPT ![d] = Tail(@)]
    BY <1>2, <2>1 DEF Collect
  <2>3. QED
    BY <1>0, <2>2
<1>3. CASE Done(s)
  BY <1>0, <1>3 DEF Done
<1>4. QED
  BY <1>1, <1>2, <1>3, StartSteps DEF start_exchange

\* What is finished stays so.
LEMMA FinishedStays ==
    ASSUME SInv, PartnerInv, cmd[Manager].op = "start", Trading, NEW s \in Name, service(s)
    PROVE  /\ \A x \in {0, 1} : Finished(x) => Finished(x)'
           /\ \A x \in {0, 1} : pc[s] = "take" /\ s = Partner(x) => Finished(x)'
           /\ \A c \in Name : Complete(c) => Complete(c)'
           /\ \A x \in {0, 1} : Partner(x) \in Name /\ Partner(x)' = Partner(x) /\ Other(x)' = Other(x)
           /\ saved' = saved
<1>1. saved' = saved /\ cmd'[Manager] = cmd[Manager]
  BY ServiceOutput
<1>2. \A x \in {0, 1} : Partner(x) \in Name /\ Partner(x)' = Partner(x) /\ Other(x)' = Other(x)
  <2>1. cmd[Manager] \in Command_
    BY NameAssumption DEF SInv, TypeOK
  <2>2. QED
    BY <1>1, <2>1 DEF Partner, Other, Command_
<1>3. ASSUME NEW x \in {0, 1}, pc[s] = "take", s = Partner(x) PROVE Finished(x)'
  <2>1. secret'[s] = saved.secret[Other(x)]
    BY <1>3, Trade
  <2>2. QED
    BY <1>1, <1>2, <1>3, <2>1 DEF Finished
<1>4. ASSUME NEW x \in {0, 1}, Finished(x) PROVE Finished(x)'
  <2>1. CASE secret'[Partner(x)] = secret[Partner(x)]
    BY <1>1, <1>2, <1>4, <2>1 DEF Finished
  <2>2. CASE secret'[Partner(x)] # secret[Partner(x)]
    <3>1. Partner(x) = s /\ pc[s] = "take"
      BY <1>2, <2>2, Trade
    <3>2. QED
      BY <1>3, <3>1
  <2>3. QED
    BY <2>1, <2>2
<1>5. \A c \in Name : Complete(c) => Complete(c)'
  <2>1. \A c \in Name : Under(c)' = Under(c)
    BY StartFrame
  <2>2. QED
    BY <1>2, <1>4, <2>1 DEF Complete
<1>6. QED
  BY <1>1, <1>2, <1>3, <1>4, <1>5

LEMMA TradingStep ==
    ASSUME SInv, PartnerInv, WholeInv, cmd[Manager].op = "start", Unmoved, Trading, NEW s \in Name, service(s)
    PROVE  Trading'
<1>0. /\ \A x \in {0, 1} : Partner(x) \in Name /\ Partner(x)' = Partner(x)
      /\ saved' = saved /\ \A t \in Name \ {s} : pc'[t] = pc[t]
  BY FinishedStays, StartFrame
<1>1. /\ \A k \in DOMAIN data'[1] : data'[1][k] = saved.secret[Partner(0)]
      /\ \A k \in DOMAIN data'[2] : data'[2][k] = saved.secret[Partner(1)]
  BY Trade
<1>2. \A t \in Name : pc'[t] \in {"open1", "open2", "give", "take"} => t \in {Partner(0), Partner(1)}
  BY <1>0, StartPlaces DEF Trading
<1>3. pc'[Partner(0)] # "give"
  BY <1>0, StartPlaces DEF Trading
<1>4. ASSUME NEW x \in {0, 1}, pc'[Partner(x)] = "collect" PROVE Finished(x)'
  <2>1. CASE Partner(x) = s /\ pc[s] = "take"
    BY <2>1, FinishedStays
  <2>2. CASE ~(Partner(x) = s /\ pc[s] = "take")
    <3>1. pc[Partner(x)] = "collect"
      BY <1>0, <1>4, <2>2, StartPlaces
    <3>2. QED
      BY <3>1, FinishedStays DEF Trading
  <2>3. QED
    BY <2>1, <2>2
<1>5. ASSUME NEW t \in Name, secret'[t] # saved.secret[t]
      PROVE  pc'[t] \notin {"tell", "open1", "open2", "give", "take"} /\ down'[t] = <<>> /\ Past(t)'
  <2>1. CASE secret[t] = saved.secret[t]
    <3>1. t = s /\ pc[s] = "take" /\ pc'[s] = "collect"
      BY <1>5, <2>1, Trade
    <3>2. ~Tell(s) /\ pc[s] \in Exchanging
      BY <3>1 DEF Tell, Exchanging
    <3>3. QED
      BY <3>1, <3>2, PastBegins
  <2>2. CASE secret[t] # saved.secret[t]
    <3>1. pc[t] \notin {"tell", "open1", "open2", "give", "take"} /\ down[t] = <<>> /\ Past(t)
      BY <2>2 DEF Trading
    <3>2. pc'[t] \notin {"tell", "open1", "open2", "give", "take"}
      <4>1. CASE t # s
        BY <1>0, <3>1, <4>1
      <4>2. CASE t = s
        BY <3>1, <4>2, StartPlaces, StartSteps
      <4>3. QED
        BY <4>1, <4>2
    <3>3. PICK x \in {0, 1} : t = Partner(x)
      BY <2>2 DEF Unmoved
    <3>4. Partner(x) \in Under(t)
      BY <3>3, BelowLeast DEF Under
    <3>5. down'[t] = <<>> /\ Past(t)'
      BY <3>1, <3>4, PastStep
    <3>6. QED
      BY <3>2, <3>5
  <2>3. QED
    BY <2>1, <2>2
<1>6. QED
  BY <1>0, <1>1, <1>2, <1>3, <1>4, <1>5 DEF Trading

\* A service that has heard from all it told is done with what is below it.
LEMMA AllComplete ==
    ASSUME SInv, RInv, Trading, Gathered, NEW s \in Name, pc[s] = "collect", nth[s] > Len(Targets(s))
    PROVE  Complete(s)
<1>0. cmd[Manager].op = "start" /\ Targets(s) = TargetsFor(s)
  BY StartPhase DEF Exchanging
<1> SUFFICES ASSUME NEW x \in {0, 1}, Partner(x) \in Under(s) PROVE Finished(x)
  BY DEF Complete
<1>1. CASE s = Partner(x)
  BY <1>1 DEF Trading
<1>2. CASE s # Partner(x)
  <2>1. child \in [Name -> Seq(Name)]
    BY DEF SInv, TypeOK
  <2>2. PICK c \in ToSet(child[s]) : Partner(x) \in Under(c)
    BY <1>2, <2>1, BelowDown DEF Under
  <2>3. c \in Name /\ IsChild(c, s)
    BY <2>1, <2>2, BelowDown DEF IsChild
  <2>4. Above(s, x)
    BY <2>2, <2>3 DEF Above
  <2>5. Whole(s)
    BY <1>0 DEF RInv, WholeInv, Exchanging
  <2>6. Has(s, x)
    BY <2>4, <2>5 DEF Whole
  <2>7. PICK u : u = route[s][x]
    OBVIOUS
  <2>8. u \in Name /\ Partner(x) \in Under(u)
    <3>1. u \in Name \cup {None} /\ u # None
      BY <2>6, <2>7 DEF Has, SInv, TypeOK
    <3>2. QED
      BY <1>0, <2>6, <2>7, <3>1 DEF RInv, LeadInv
  <2>9. PICK k \in DOMAIN Targets(s) : Targets(s)[k] = u
    BY <1>0, <1>2, <2>7, <2>8, RouteIsTarget DEF SInv
  <2>10. k < nth[s]
    <3>1. DOMAIN Targets(s) = 1..Len(Targets(s)) /\ Len(Targets(s)) \in Nat
      BY TargetsFacts
    <3>2. nth[s] \in Nat
      BY DEF SInv, TypeOK
    <3>3. QED
      BY <2>9, <3>1, <3>2
  <2>11. Complete(u)
    BY <2>9, <2>10 DEF Gathered
  <2>12. QED
    BY <2>8, <2>11 DEF Complete
<1>3. QED
  BY <1>1, <1>2

LEMMA GatheredStep ==
    ASSUME SInv, RInv, cmd[Manager].op = "start", Trading, Gathered, NEW s \in Name, service(s)
    PROVE  Gathered'
<1>0. /\ PartnerInv /\ \A t \in Name \ {s} : pc'[t] = pc[t] /\ nth'[t] = nth[t] /\ route'[t] = route[t]
  BY StartFrame DEF RInv
<1>1. \A c \in Name : Complete(c) => Complete(c)'
  BY <1>0, FinishedStays
<1>2. ASSUME NEW c \in Name, up'[c] # <<>> PROVE Complete(c)'
  <2>1. CASE Done(s) /\ c = s
    BY <1>1, <2>1, AllComplete DEF Done
  <2>2. CASE ~(Done(s) /\ c = s)
    <3>1. up[c] # <<>>
      BY <1>0, <1>2, <2>2, RaisedInStart
    <3>2. QED
      BY <1>1, <3>1 DEF Gathered
  <2>3. QED
    BY <2>1, <2>2
<1>3. ASSUME NEW t \in Name, pc'[t] = "collect", NEW k \in DOMAIN Targets(t)', k < nth'[t]
      PROVE  Complete(Targets(t)[k])'
  <2>1. pc[t] \in Exchanging /\ route'[t] = route[t] /\ cmd'[t] = cmd[t]
    <3>1. CASE t = s
      <4>1. pc[s] \in Exchanging
        BY <1>0, <1>3, <3>1, StartPlaces DEF Exchanging
      <4>2. route'[s] = route[s] /\ ~Receive(s) /\ ~Fork(s)
        BY <1>0, <4>1, StartSteps DEF Receive, Exchanging
      <4>3. cmd'[s] = cmd[s]
        BY <1>3, <3>1, <4>2, Keeps DEF Handling, Exchanging
      <4>4. QED
        BY <3>1, <4>1, <4>2, <4>3
    <3>2. CASE t # s
      <4>1. Step(s)
        BY <1>0, StartFrame DEF Step
      <4>2. QED
        BY <1>0, <1>3, <3>2, <4>1, Local DEF Exchanging
    <3>3. QED
      BY <3>1, <3>2
  <2>2. Targets(t)' = Targets(t)
    BY <2>1 DEF Targets, Along
  <2>3. Targets(t)[k] \in Name /\ k \in DOMAIN Targets(t) /\ k \in Nat /\ k >= 1
    BY <1>3, <2>2, TargetsFacts
  <2>4. Complete(Targets(t)[k])
    <3>1. CASE pc[t] = "collect" /\ k < nth[t]
      BY <2>3, <3>1 DEF Gathered
    <3>2. CASE t = s /\ pc[s] = "collect" /\ Collect(s) /\ ~(k < nth[s])
      <4>1. nth[s] \in Nat /\ nth'[s] = nth[s] + 1
        BY <3>2 DEF Collect, SInv, TypeOK
      <4>2. k = nth[s]
        BY <1>3, <2>3, <3>2, <4>1
      <4>3. up[Targets(s)[k]] # <<>>
        BY <3>2, <4>2 DEF Collect
      <4>4. QED
        BY <2>3, <3>2, <4>3 DEF Gathered
    <3>3. CASE t = s /\ pc[s] # "collect"
      <4>1. nth'[s] = 1
        BY <1>0, <1>3, <3>3, StartPlaces DEF SInv, LinkInv
      <4>2. QED
        BY <1>3, <2>3, <3>3, <4>1
    <3>4. QED
      BY <1>0, <1>3, <3>1, <3>2, <3>3, StartPlaces
  <2>5. QED
    BY <1>1, <2>2, <2>3, <2>4
<1>4. QED
  BY <1>2, <1>3 DEF Gathered

LEMMA UnmovedStep ==
    ASSUME SInv, PartnerInv, cmd[Manager].op \in ExchangeOps, Unmoved, cmd[Manager].op = "start" => Trading,
           NEW s \in Name, service(s)
    PROVE  Unmoved'
<1>0. /\ child' = child /\ ~Fork(s) /\ ~Orphan(s) /\ ~(Reply(s) /\ cmd[s].op = "suicide")
      /\ saved' = saved /\ cmd'[Manager] = cmd[Manager]
  BY TreeStill, ServiceOutput
<1>1. \A t \in Name : pc'[t] = "dead" <=> pc[t] = "dead"
  <2>1. Step(s)
    BY <1>0 DEF Step
  <2>2. pc[s] # "dead" /\ \A t \in Name \ {s} : pc'[t] = pc[t]
    BY <2>1, DeadRest, Local
  <2>3. pc'[s] # "dead"
    BY <1>0, Keeps
  <2>4. QED
    BY <2>2, <2>3
<1>2. Alive' = Alive
  BY <1>1 DEF Alive
<1>3. Partner(0)' = Partner(0) /\ Partner(1)' = Partner(1)
  BY <1>0 DEF Partner
<1>4. CASE cmd[Manager].op = "start"
  <2>1. \A t \in Name : t \notin {Partner(0), Partner(1)} => secret'[t] = secret[t]
    BY <1>4, Trade DEF Trading
  <2>2. QED
    BY <1>0, <1>2, <1>3, <1>4, <2>1 DEF Unmoved
<1>5. CASE cmd[Manager].op # "start"
  <2>1. pc[s] \notin Exchanging
    BY <1>5, StartPhase
  <2>2. secret' = secret /\ data' = data
    BY <1>0, <2>1 DEF service, start_exchange, exchanges, Receive, Born, Ask, Hear, Reply, Tell, Told, Open1, Open2,
           Give, TakeFirst, TakeSecond, Collect, Done, Reset, Exchanging, globals, fifos
  <2>3. QED
    BY <1>0, <1>2, <1>3, <1>5, <2>2 DEF Unmoved
<1>6. QED
  BY <1>4, <1>5

LEMMA ExchangeService ==
    ASSUME SInv, RInv, ExchangeEffect, cmd[Manager].op \in ExchangeOps, NEW s \in Name, service(s)
    PROVE  ExchangeEffect'
<1>1. cmd'[Manager] = cmd[Manager] /\ PartnerInv /\ WholeInv
  BY ServiceOutput DEF RInv
<1>2. Unmoved'
  BY <1>1, UnmovedStep DEF ExchangeEffect
<1>3. cmd[Manager].op = "start" => Trading' /\ Gathered'
  BY <1>1, TradingStep, GatheredStep DEF ExchangeEffect
<1>4. QED
  BY <1>1, <1>2, <1>3 DEF ExchangeEffect

\* The Manager reads an exchange, and goes from phase to phase.
LEMMA ExchangeBegins ==
    ASSUME SInv, SInv', RInv, SavedInv, ExchangeEffect, Command \/ manager \/ Eof, cmd'[Manager].op \in ExchangeOps
    PROVE  ExchangeEffect'
<1>0. /\ child' = child /\ up' = up /\ (Command \/ Advance) /\ pc'[Manager] \in {"ask", "tell"}
      /\ \A t \in Name \ {Manager} : pc'[t] = pc[t] /\ ~Active(t)
      /\ Command => pc[Manager] = "idle" /\ cmd'[Manager].op = "traverse"
      /\ Advance => /\ pc[Manager] = "ask" /\ cmd[Manager].op \in {"traverse", "find"}
                    /\ cmd'[Manager].a = cmd[Manager].a /\ cmd'[Manager].b = cmd[Manager].b
  BY NewCommand
<1>1. pc[Manager] \in {"idle", "ask"} /\ Manager \in Name
  BY <1>0, NameAssumption
<1>2. Alive' = Alive
  <2>1. \A t \in Name : pc'[t] # "dead" <=> pc[t] # "dead"
    BY <1>0, <1>1
  <2>2. QED
    BY <2>1 DEF Alive
<1>3. secret' = secret /\ saved' = saved
  BY <1>0 DEF Command, Advance, globals, output
<1>4. child = saved.child /\ Alive = saved.alive /\ secret = saved.secret /\ data' = NoData
  <2>1. CASE Command
    BY <1>0, <2>1 DEF SavedInv, Same, Command
  <2>2. CASE Advance
    <3>1. cmd[Manager].op \in ExchangeOps /\ cmd[Manager].op # "start"
      BY <1>0, <2>2 DEF ExchangeOps
    <3>2. Unmoved
      BY <3>1 DEF ExchangeEffect
    <3>3. data' = data
      BY <2>2 DEF Advance, fifos
    <3>4. secret \in [Name -> Secret \cup {None}] /\ saved.secret \in [Name -> Secret \cup {None}]
      BY <1>1 DEF SInv, TypeOK, SavedInv
    <3>5. \A t \in Name : secret[t] = saved.secret[t]
      BY <3>1, <3>2 DEF Unmoved
    <3>6. secret = saved.secret
      BY <3>4, <3>5
    <3>7. QED
      BY <3>1, <3>2, <3>3, <3>6 DEF Unmoved
  <2>3. QED
    BY <1>0, <2>1, <2>2
<1>5. Unmoved'
  BY <1>0, <1>2, <1>3, <1>4 DEF Unmoved
<1>6. \A t \in Name : pc'[t] \notin {"open1", "open2", "give", "take", "collect"}
  BY <1>0, <1>1 DEF Active, Working
<1>7. \A t \in Name : up'[t] = <<>>
  BY <1>0, <1>1 DEF Active, SInv, LinkInv
<1>8. \A x \in {0, 1} : Partner(x)' \in Name
  <2>1. cmd'[Manager] \in Command_
    BY <1>1 DEF SInv, TypeOK
  <2>2. QED
    BY <2>1 DEF Partner, Command_
<1>9. Trading'
  <2>1. DOMAIN data'[1] = {} /\ DOMAIN data'[2] = {}
    BY <1>4 DEF NoData
  <2>2. QED
    BY <1>3, <1>4, <1>6, <1>8, <2>1 DEF Trading
<1>10. Gathered'
  BY <1>6, <1>7 DEF Gathered
<1>11. QED
  BY <1>5, <1>9, <1>10 DEF ExchangeEffect

\* Each partner gets the other's secret, and nobody else changes.
LEMMA ExchangeMatch ==
    ASSUME NEW a \in Name, NEW b \in Name, a # b, a \in saved.alive, b \in saved.alive,
           saved.secret \in [Name -> Secret \cup {None}], saved'.secret \in [Name -> Secret \cup {None}],
           saved'.secret[a] = saved.secret[b], saved'.secret[b] = saved.secret[a],
           \A t \in Name \ {a, b} : saved'.secret[t] = saved.secret[t],
           saved'.child = saved.child, saved'.alive = saved.alive,
           report' = S!Line("exchange", a, b, TRUE, 0, heard)
    PROVE  S!Exchange(a, b)
<1>1. saved'.secret = [saved.secret EXCEPT ![a] = saved.secret[b], ![b] = saved.secret[a]]
  OBVIOUS
<1>2. S!Prints("exchange", a, b, TRUE, 0)
  BY DEF S!Prints, S!Line
<1>3. QED
  BY <1>1, <1>2 DEF S!Exchange

\* What the Manager prints about an exchange.
LEMMA ExchangePrinted ==
    ASSUME SInv, RInv, SavedInv, ExchangeEffect, PrintExchange
    PROVE  S!Next
<1>0. PICK m : m = cmd[Manager]
  OBVIOUS
<1>1. /\ Manager \in Name /\ pc[Manager] = "collect" /\ nth[Manager] > Len(Targets(Manager))
      /\ UNCHANGED <<child, secret>> /\ Finish(Manager, "idle")
      /\ report' = S!Line("exchange", m.a, m.b, TRUE, 0, heard)
      /\ saved' = [child |-> child', secret |-> secret', alive |-> Alive']
  BY <1>0, NameAssumption DEF PrintExchange, Outcome, Alive
<1>2. m.op = "start" /\ m.a = Partner(0) /\ m.b = Partner(1) /\ m.a \in Name /\ m.b \in Name
  <2>1. cmd[Manager].op = "start"
    BY <1>1, StartPhase DEF Exchanging
  <2>2. m \in Command_
    BY <1>0, <1>1 DEF SInv, TypeOK
  <2>3. QED
    BY <1>0, <2>1, <2>2 DEF Partner, Command_
<1>3. Unmoved /\ Trading /\ Gathered
  BY <1>0, <1>2 DEF ExchangeEffect, ExchangeOps
<1>4. m.a # m.b /\ pc[m.a] # "dead" /\ pc[m.b] # "dead"
  BY <1>0, <1>2 DEF RInv, PartnerInv, ExchangeOps
<1>5. m.a \in Alive /\ m.b \in Alive /\ m.a \in Under(Manager) /\ m.b \in Under(Manager)
  BY <1>1, <1>2, <1>4, AliveUnder DEF RInv, Alive
<1>6. Finished(0) /\ Finished(1)
  <2>1. Complete(Manager)
    BY <1>1, <1>3, AllComplete
  <2>2. QED
    BY <1>2, <1>5, <2>1 DEF Complete
<1>7. secret[m.a] = saved.secret[m.b] /\ secret[m.b] = saved.secret[m.a]
  BY <1>0, <1>2, <1>6 DEF Finished, Other
<1>8. Alive' = Alive
  <2>1. pc'[Manager] = "idle" /\ \A t \in Name \ {Manager} : pc'[t] = pc[t]
    BY <1>1, FinishFacts DEF SInv
  <2>2. \A t \in Name : pc'[t] # "dead" <=> pc[t] # "dead"
    BY <1>1, <2>1
  <2>3. QED
    BY <2>2 DEF Alive
<1>9. saved'.child = child /\ saved'.secret = secret /\ saved'.alive = Alive
  BY <1>1, <1>8
<1>10. child = saved.child /\ Alive = saved.alive /\ \A t \in Name \ {m.a, m.b} : secret[t] = saved.secret[t]
  BY <1>2, <1>3 DEF Unmoved
<1>11. secret \in [Name -> Secret \cup {None}] /\ saved.secret \in [Name -> Secret \cup {None}]
       /\ Manager \in saved.alive /\ report = S!NoLine
  BY <1>1 DEF SInv, TypeOK, SavedInv
<1>12. S!Exchange(m.a, m.b)
  BY <1>1, <1>2, <1>4, <1>5, <1>7, <1>9, <1>10, <1>11, ExchangeMatch
<1>13. QED
  BY <1>2, <1>11, <1>12 DEF S!Next

-------------------------------------------------------------------------------
(* All commands *)

EInv == SavedInv /\ SpawnEffect /\ KillEffect /\ ExchangeEffect

LEMMA SpawnService ==
    ASSUME SInv, SavedInv, SpawnEffect, cmd[Manager].op = "spawn", NEW s \in Name, service(s)
    PROVE  SpawnEffect'
BY WorkSteps, SpawnReceive, SpawnFork, SpawnBorn, SpawnAsk, SpawnHear, SpawnReply

\* Nothing is said about a command that has been printed.
LEMMA NoEffect ==
    ASSUME cmd'[Manager].op = "none"
    PROVE  SpawnEffect' /\ KillEffect' /\ ExchangeEffect'
BY DEF SpawnEffect, KillEffect, ExchangeEffect, ExchangeOps

LEMMA EffectService ==
    ASSUME SInv, RInv, EInv, NEW s \in Name, service(s)
    PROVE  EInv'
<1> USE DEF EInv
<1>1. SavedInv' /\ cmd'[Manager] = cmd[Manager]
  BY SavedService, ServiceOutput
<1>2. SpawnEffect'
  <2>1. CASE cmd[Manager].op = "spawn"
    BY <2>1, SpawnService
  <2>2. CASE cmd[Manager].op # "spawn"
    BY <1>1, <2>2 DEF SpawnEffect
  <2>3. QED
    BY <2>1, <2>2
<1>3. KillEffect'
  <2>1. CASE cmd[Manager].op \in {"kill", "suicide"}
    BY <2>1, KillService DEF RInv
  <2>2. CASE cmd[Manager].op \notin {"kill", "suicide"}
    BY <1>1, <2>2 DEF KillEffect
  <2>3. QED
    BY <2>1, <2>2
<1>4. ExchangeEffect'
  <2>1. CASE cmd[Manager].op \in ExchangeOps
    BY <2>1, ExchangeService
  <2>2. CASE cmd[Manager].op \notin ExchangeOps
    BY <1>1, <2>2 DEF ExchangeEffect
  <2>3. QED
    BY <2>1, <2>2
<1>5. QED
  BY <1>1, <1>2, <1>3, <1>4

LEMMA EffectManager ==
    ASSUME SInv, SInv', RInv, RInv', EInv, Command \/ manager \/ Eof
    PROVE  EInv'
<1> USE DEF EInv
<1>0. SavedInv' /\ Manager \in Name
  BY SavedManager, NameAssumption DEF RInv
<1>1. ASSUME cmd'[Manager].op \notin ExchangeOps PROVE ExchangeEffect'
  BY <1>1 DEF ExchangeEffect
<1>2. ExchangeEffect'
  BY <1>1, ExchangeBegins
<1>3. CASE Command
  BY <1>0, <1>2, <1>3, SpawnCommand, KillCommand
<1>4. CASE Advance
  <2>1. cmd'[Manager] = NextPhase(cmd[Manager])
    BY <1>0, <1>4 DEF Advance, Begin, SInv, TypeOK
  <2>2. cmd'[Manager].op \in {"find", "start"}
    BY <2>1 DEF NextPhase, Cmd
  <2>3. SpawnEffect' /\ KillEffect'
    BY <2>2 DEF SpawnEffect, KillEffect
  <2>4. QED
    BY <1>0, <1>2, <2>3
<1>5. CASE PrintSpawn \/ PrintKill \/ PrintExchange
  <2>1. Finish(Manager, "idle") \/ Finish(Manager, "dead")
    BY <1>5 DEF PrintSpawn, PrintKill, PrintExchange
  <2>2. cmd'[Manager] = Nothing /\ Nothing.op = "none"
    BY <1>0, <2>1, FinishFacts DEF SInv
  <2>3. QED
    BY <1>0, <2>2, NoEffect
<1>6. CASE Eof
  <2>1. pc[Manager] = "idle" /\ cmd' = cmd
    BY <1>6 DEF Eof
  <2>2. cmd'[Manager].op = "none"
    BY <2>1 DEF SInv, PhaseInv, Nothing, Cmd
  <2>3. QED
    BY <1>0, <2>2, NoEffect
<1>7. QED
  BY <1>3, <1>4, <1>5, <1>6 DEF manager

LEMMA EffectStutter ==
    ASSUME EInv, UNCHANGED vars
    PROVE  EInv'
<1>1. UNCHANGED <<child, secret, route, pc, cmd, nth, ans, down, up, data, report, saved>>
  BY DEF vars, globals, local, pipes, fifos, output
<1>2. (\A t : Was(t)' = Was(t) /\ Under(t)' = Under(t)) /\ Alive' = Alive /\ (Same' <=> Same)
  BY <1>1 DEF Was, Under, Alive, Same
<1>3. SavedInv'
  BY <1>1, <1>2 DEF EInv, SavedInv
<1>4. /\ \A t : (Good(t)' <=> Good(t)) /\ (Busy(t)' <=> Busy(t)) /\ Number(t)' = Number(t)
      /\ \A t, a : NotAmong(t, a)' <=> NotAmong(t, a)
  BY <1>1, <1>2 DEF Good, Busy, Number, NotAmong
<1>5. SpawnEffect'
  <2>1. \A m : Fresh(m)' <=> Fresh(m)
    BY <1>1 DEF Fresh, IsChild
  <2>2. QED
    BY <1>1, <1>2, <1>4, <2>1 DEF EInv, SpawnEffect
<1>6. KillEffect'
  <2>1. /\ \A m, s, t : Fit(m, s, t)' <=> Fit(m, s, t)
        /\ \A s, n : Reach(s, n)' = Reach(s, n)
    BY <1>1, <1>2 DEF Fit, Reach
  <2>2. \A t : Ending(t)' <=> Ending(t)
    BY <1>1, <1>2, <2>1 DEF Ending
  <2>3. \A t : (Before(t)' <=> Before(t)) /\ (After(t)' <=> After(t))
    BY <1>1, <1>2, <1>4, <2>1 DEF Before, After
  <2>4. QED
    BY <1>1, <2>2, <2>3 DEF EInv, KillEffect
<1>7. ExchangeEffect'
  <2>1. \A x : /\ Partner(x)' = Partner(x) /\ Other(x)' = Other(x) /\ (Finished(x)' <=> Finished(x))
               /\ \A t : (Has(t, x)' <=> Has(t, x)) /\ (Above(t, x)' <=> Above(t, x))
    BY <1>1, <1>2 DEF Partner, Other, Finished, Has, Above, IsChild
  <2>2. \A t : (Complete(t)' <=> Complete(t)) /\ (Whole(t)' <=> Whole(t)) /\ Targets(t)' = Targets(t)
    BY <1>1, <1>2, <2>1 DEF Complete, Whole, Targets, Along
  <2>3. \A p, t : Untold(p, t)' <=> Untold(p, t)
    BY <1>1 DEF Untold, TargetsFor, Along
  <2>4. \A t : Past(t)' <=> Past(t)
    BY <1>1, <2>2, <2>3 DEF Past, IsChild
  <2>5. Unmoved' <=> Unmoved
    BY <1>1, <1>2, <2>1 DEF Unmoved
  <2>6. Trading' <=> Trading
    BY <1>1, <2>1, <2>4 DEF Trading
  <2>7. Gathered' <=> Gathered
    BY <1>1, <2>2 DEF Gathered
  <2>8. QED
    BY <1>1, <2>5, <2>6, <2>7 DEF EInv, ExchangeEffect
<1>8. QED
  BY <1>3, <1>5, <1>6, <1>7 DEF EInv

LEMMA EffectInit == Init => EInv /\ S!Init
<1> SUFFICES ASSUME Init PROVE EInv /\ S!Init
  OBVIOUS
<1>1. /\ \A s \in Name : pc[s] = IF s = Manager THEN "idle" ELSE "dead"
      /\ cmd[Manager] = Nothing /\ Manager \in Name
      /\ saved = [child |-> child, secret |-> secret, alive |-> {Manager}]
  BY NameAssumption DEF Init
<1>2. Alive = {Manager}
  BY <1>1 DEF Alive
<1>3. Recorded
  BY <1>1, <1>2 DEF Recorded
<1>4. SavedInv
  BY <1>3, InitSInv, RouteInit, SavedState DEF RInv
<1>5. cmd[Manager].op = "none"
  BY <1>1 DEF Nothing, Cmd
<1>6. SpawnEffect /\ KillEffect /\ ExchangeEffect
  BY <1>5 DEF SpawnEffect, KillEffect, ExchangeEffect, ExchangeOps
<1>7. saved.child = child /\ saved.secret = secret /\ saved.alive = {Manager}
  BY <1>1
<1>8. S!Init
  BY <1>7 DEF Init, S!Init
<1>9. QED
  BY <1>4, <1>6, <1>8 DEF EInv

\* At every moment, in every tree: a spawn has happened whole or not at all, a
\* kill ends the services below the one that it names and counts them, and
\* whoever answers in an exchange is done with all that is below it.
THEOREM EffectInvariant == Spec => []EInv
<1>1. Init => EInv
  BY EffectInit
<1>2. EInv /\ SInv /\ SInv' /\ RInv /\ RInv' /\ [Next]_vars => EInv'
  <2> SUFFICES ASSUME EInv, SInv, SInv', RInv, RInv', [Next]_vars PROVE EInv'
    OBVIOUS
  <2>1. CASE Command \/ manager \/ Eof
    BY <2>1, EffectManager
  <2>2. CASE Ended \/ UNCHANGED vars
    BY <2>2, EffectStutter DEF Ended
  <2>3. ASSUME NEW s \in Name, service(s) PROVE EInv'
    BY <2>3, EffectService
  <2>4. QED
    BY <2>1, <2>2, <2>3 DEF Next
<1>3. QED
  BY <1>1, <1>2, ServiceInvariant, RouteInvariant, PTL DEF Spec

\* The processes of service.c together do what Services says, whatever the tree
\* and the commands are: each command takes effect whole, when the Manager
\* prints it, a kill ends a service with all its descendants and prints their
\* number, and two partners of an exchange end up with each other's secret.
THEOREM KeepsPromiseCorrect == Spec => KeepsPromise
<1>1. Init => S!Init
  BY EffectInit
<1>2. EInv /\ SInv /\ RInv /\ [Next]_vars => [S!Next]_(S!vars)
  <2> SUFFICES ASSUME EInv, SInv, RInv, [Next]_vars PROVE [S!Next]_(S!vars)
    OBVIOUS
  <2> USE DEF EInv
  <2>1. CASE Command \/ Eof
    <3>1. report' = S!NoLine /\ saved' = saved
      BY <2>1 DEF Command, Eof
    <3>2. S!Read
      BY <3>1 DEF S!Read
    <3>3. QED
      BY <3>2 DEF S!Next
  <2>2. CASE PrintSpawn
    BY <2>2, SpawnPrinted
  <2>3. CASE PrintKill
    BY <2>3, KillPrinted DEF RInv
  <2>4. CASE PrintExchange
    BY <2>4, ExchangePrinted
  <2>5. CASE Advance \/ Ended \/ UNCHANGED vars
    <3>1. report' = report /\ saved' = saved
      BY <2>5 DEF Advance, Ended, vars, output
    <3>2. QED
      BY <3>1 DEF S!vars
  <2>6. ASSUME NEW s \in Name, service(s) PROVE [S!Next]_(S!vars)
    <3>1. report' = report /\ saved' = saved
      BY <2>6, ServiceOutput
    <3>2. QED
      BY <3>1 DEF S!vars
  <2>7. QED
    BY <2>1, <2>2, <2>3, <2>4, <2>5, <2>6 DEF Next, manager
<1>3. QED
  BY <1>1, <1>2, ServiceInvariant, RouteInvariant, EffectInvariant, PTL DEF Spec, S!Spec, KeepsPromise

===============================================================================
