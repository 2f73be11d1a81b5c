------------------------------ MODULE ServiceTree ------------------------------
(***************************************************************************)
(* The services of HW2 (service.c): one process per service, a pipe to and *)
(* a pipe from every child, and the two FIFOs of an exchange.  A command   *)
(* walks through the tree: a service writes it to a child, reads the       *)
(* child's answer and only then goes on to the next child.  A write to a   *)
(* pipe is shorter than PIPE_BUF and never blocks; reads, and the open()   *)
(* of a FIFO, do.                                                          *)
(***************************************************************************)
EXTENDS Integers, Sequences, FiniteSets, SequencesExt

CONSTANTS Name, Manager, Secret, None

ASSUME NameAssumption == /\ Manager \in Name /\ IsFiniteSet(Name) /\ Secret # {}
                         /\ None \notin Name \cup Secret

VARIABLES child, secret, route,   \* a service's global variables
          pc, cmd, nth, ans,      \* where it is; receive_parent, i, receive_child
          down, up,               \* the pipes between a service and its parent
          ends, data,             \* of the two FIFOs: the open ends, the contents
          heard,                  \* who announced the command so far
          report, saved           \* the last line of the Manager, the state it left

globals == <<child, secret, route>>
local   == <<pc, cmd, nth, ans>>
pipes   == <<down, up>>
fifos   == <<ends, data>>
output  == <<heard, report, saved>>
vars    == <<globals, local, pipes, fifos, output>>

\* A command: what to do, the two names, and content[4] (whom to find) or
\* content[6] (how many found).  "traverse" and "find" stand for an "exchange"
\* with and without the print flag of content[5].
Cmd(op, a, b, n) == [op |-> op, a |-> a, b |-> b, n |-> n]
Nothing == Cmd("none", Manager, Manager, 0)

\* An answer: success or failure, and the number in content[2] or content[6].
Answer(ok, n) == [ok |-> ok, n |-> n]

NoRoute == [x \in {0, 1} |-> None]
NoEnds  == [f \in {1, 2} |-> {}]
NoData  == [f \in {1, 2} |-> <<>>]

S == INSTANCE Services
     WITH child <- saved.child, secret <- saved.secret, alive <- saved.alive

Init == /\ child = [s \in Name |-> <<>>]
        /\ \E v \in Secret : secret = [s \in Name |-> IF s = Manager THEN v ELSE None]
        /\ route = [s \in Name |-> NoRoute]
        /\ pc = [s \in Name |-> IF s = Manager THEN "idle" ELSE "dead"]
        /\ cmd = [s \in Name |-> Nothing]
        /\ nth = [s \in Name |-> 1]
        /\ ans = [s \in Name |-> Answer(FALSE, 0)]
        /\ down = [s \in Name |-> <<>>] /\ up = [s \in Name |-> <<>>]
        /\ ends = NoEnds /\ data = NoData
        /\ heard = <<>>
        /\ report = S!NoLine
        /\ saved = [child |-> child, secret |-> secret, alive |-> {Manager}]

Alive == {s \in Name : pc[s] # "dead"}

-------------------------------------------------------------------------------
(* The main loop *)

Goto(s, place) == pc' = [pc EXCEPT ![s] = place]

\* traverse(): how many of the two partners have been met, s included.
Count(s, m) == m.n + (IF s \in {m.a, m.b} THEN 1 ELSE 0)
\* finds(): the partner to look for.
Wanted(m) == IF m.n = 0 THEN m.a ELSE m.b

\* What a service knows before it asks its children.  An answer that is a
\* success ends the handler's loop over the children.
FirstAns(s, m) == CASE m.op = "traverse" -> Answer(Count(s, m) = 2, Count(s, m))
                    [] m.op = "find"     -> Answer(Wanted(m) = s, 0)
                    [] m.op = "suicide"  -> Answer(FALSE, 1)
                    [] OTHER             -> Answer(FALSE, 0)

\* Service s starts to handle m.
Begin(s, m) == /\ Goto(s, CASE m.op = "spawn" /\ m.a = s -> "fork"
                            [] m.op = "start" -> "tell"
                            [] OTHER -> "ask")
               /\ cmd' = [cmd EXCEPT ![s] = m]
               /\ nth' = [nth EXCEPT ![s] = 1]
               /\ ans' = [ans EXCEPT ![s] = FirstAns(s, m)]

\* Service s is done with its command and waits for the next one, or ends.
Finish(s, place) == /\ Goto(s, place)
                    /\ cmd' = [cmd EXCEPT ![s] = Nothing]
                    /\ nth' = [nth EXCEPT ![s] = 1]
                    /\ ans' = [ans EXCEPT ![s] = Answer(FALSE, 0)]

\* Commands of the Manager's input.  The names of services are unique, and an
\* exchange is between two services that run (open() blocks for good on a
\* partner that does not).  The Manager's own name makes kill a suicide.
Input == {Cmd("spawn", a, b, 0) : a \in Name, b \in Name \ Alive}
         \cup {Cmd(IF a = Manager THEN "suicide" ELSE "kill", a, a, 0) : a \in Name}
         \cup {Cmd("traverse", p[1], p[2], 0) : p \in {q \in Alive \X Alive : q[1] # q[2]}}

\* The Manager reads and announces a command; for an exchange it makes two FIFOs.
Command == /\ pc[Manager] = "idle"
           /\ \E m \in Input :
                 /\ Begin(Manager, m)
                 /\ ends' = NoEnds /\ data' = NoData
           /\ heard' = <<Manager>>
           /\ report' = S!NoLine
           /\ UNCHANGED <<globals, pipes, saved>>

\* Mutant: the print flag of a search is ignored.
AnnouncesAll(s, m) == m.op \notin {"start", "suicide"} \/ (m.op = "suicide" /\ m.a = s)

\* A service that is neither handed a route nor searched announces the command;
\* of those that end, only the one that the command names.
Announces(s, m) == m.op \notin {"start", "find", "suicide"} \/ (m.op = "suicide" /\ m.a = s)

Receive(s) == /\ s # Manager /\ pc[s] = "idle" /\ down[s] # <<>>
              /\ Begin(s, Head(down[s]))
              /\ down' = [down EXCEPT ![s] = Tail(@)]
              /\ heard' = IF Announces(s, Head(down[s])) THEN Append(heard, s) ELSE heard
              /\ UNCHANGED <<globals, up, fifos, report, saved>>

\* spawns(): a child that runs service.c from its start, at the table's end.
Fork(s) == LET c == cmd[s].b IN
           /\ pc[s] = "fork"
           /\ child' = [child EXCEPT ![s] = Append(@, c), ![c] = <<>>]
           /\ \E v \in Secret : secret' = [secret EXCEPT ![c] = v]
           /\ route' = [route EXCEPT ![c] = NoRoute]
           /\ down' = [down EXCEPT ![c] = <<>>] /\ up' = [up EXCEPT ![c] = <<>>]
           /\ pc' = [pc EXCEPT ![s] = "hear", ![c] = "born"]
           /\ nth' = [nth EXCEPT ![s] = Len(child[s]) + 1]
           /\ UNCHANGED <<cmd, ans, fifos, output>>

\* The first thing that the child's main() does.
Born(s) == /\ pc[s] = "born"
           /\ up' = [up EXCEPT ![s] = Append(@, Answer(TRUE, 0))]
           /\ Goto(s, "idle")
           /\ UNCHANGED <<globals, cmd, nth, ans, down, fifos, output>>

-------------------------------------------------------------------------------
(* The loop over the children of spawn, kill, suicide(), traverse(), finds() *)

Current(s) == child[s][nth[s]]
Over(s) == nth[s] > Len(child[s]) \/ ans[s].ok
\* The child to kill is a child of s.
Direct(s) == cmd[s].op = "kill" /\ cmd[s].a = Current(s)

\* What suicide() may write to a child c: it leaves the names in its message
\* uninitialised, and they may happen to be the name of c, or anything else.
SuicideMessages(s, c) == {[cmd[s] EXCEPT !.a = x] : x \in {c, s}}

\* What s writes to its child c.
Passed(s, c) == CASE cmd[s].op = "suicide"  -> SuicideMessages(s, c)
                  [] Direct(s)              -> {[cmd[s] EXCEPT !.op = "suicide"]}
                  [] cmd[s].op = "traverse" -> {[cmd[s] EXCEPT !.n = ans[s].n]}
                  [] OTHER                  -> {cmd[s]}

\* Mutant: all children are asked at once.
AskAll(s) == /\ pc[s] = "ask" /\ ~Over(s)
             /\ \E m \in Passed(s, Current(s)) : down' = [down EXCEPT ![Current(s)] = Append(@, m)]
             /\ nth' = [nth EXCEPT ![s] = @ + 1]
             /\ UNCHANGED <<globals, pc, cmd, ans, up, fifos, output>>

Ask(s) == /\ pc[s] = "ask" /\ ~Over(s)
          /\ \E m \in Passed(s, Current(s)) : down' = [down EXCEPT ![Current(s)] = Append(@, m)]
          /\ Goto(s, "hear")
          /\ UNCHANGED <<globals, cmd, nth, ans, up, fifos, output>>

\* Mutant: every child counts for one.
HeardOne(s, v) == CASE cmd[s].op = "suicide" -> Answer(FALSE, ans[s].n + 1)
                    [] Direct(s)             -> Answer(TRUE, v.n)
                    [] OTHER                 -> v

\* The child's answer v: a suicide adds up the numbers, a direct child that has
\* been killed leaves the table, and finds() remembers where the partner is.
Heard(s, v) == CASE cmd[s].op = "suicide" -> Answer(FALSE, ans[s].n + v.n)
                 [] Direct(s)             -> Answer(TRUE, v.n)
                 [] OTHER                 -> v

Hear(s) ==
    LET c == Current(s)
        v == Head(up[c]) IN
    /\ pc[s] = "hear" /\ up[c] # <<>>
    /\ up' = [up EXCEPT ![c] = Tail(@)]
    /\ ans' = [ans EXCEPT ![s] = Heard(s, v)]
    /\ child' = IF Direct(s) THEN [child EXCEPT ![s] = RemoveAt(@, nth[s])] ELSE child
    /\ route' = IF cmd[s].op = "find" /\ v.ok THEN [route EXCEPT ![s][cmd[s].n] = c] ELSE route
    /\ nth' = [nth EXCEPT ![s] = @ + 1]
    /\ Goto(s, "ask")
    /\ UNCHANGED <<secret, cmd, down, fifos, output>>

\* Nothing is left of the memory of a process that has ended.
Forget(s) == /\ child' = [child EXCEPT ![s] = <<>>]
             /\ secret' = [secret EXCEPT ![s] = None]

\* The answer to the parent; after a suicide the process ends, and its parent
\* waits for that before it does anything else.
Reply(s) ==
    /\ s # Manager /\ pc[s] = "ask" /\ Over(s)
    /\ up' = [up EXCEPT ![s] = Append(@, ans[s])]
    /\ IF cmd[s].op = "suicide"
       THEN Finish(s, "dead") /\ Forget(s)
       ELSE Finish(s, "idle") /\ UNCHANGED <<child, secret>>
    /\ UNCHANGED <<route, down, fifos, output>>

\* The Manager prints the outcome of a command.
Outcome(op, ok, n) ==
    /\ report' = S!Line(op, cmd[Manager].a, cmd[Manager].b, ok, n, heard)
    /\ heard' = <<>>
    /\ saved' = [child |-> child', secret |-> secret', alive |-> {s \in Name : pc'[s] # "dead"}]

PrintSpawn == LET m == Manager IN
    /\ pc[m] = "ask" /\ Over(m) /\ cmd[m].op = "spawn"
    /\ Finish(m, "idle")
    /\ UNCHANGED <<globals, pipes, fifos>>
    /\ Outcome("spawn", ans[m].ok, 0)

PrintKill == LET m == Manager IN
    /\ pc[m] = "ask" /\ Over(m)
    /\ \/ /\ cmd[m].op = "kill" /\ Finish(m, "idle") /\ UNCHANGED globals
          /\ Outcome("kill", ans[m].ok, IF ans[m].ok THEN ans[m].n - 1 ELSE 0)
       \/ /\ cmd[m].op = "suicide" /\ Finish(m, "dead")
          /\ Forget(m) /\ UNCHANGED route
          /\ Outcome("kill", TRUE, ans[m].n - 1)
    /\ UNCHANGED <<pipes, fifos>>

-------------------------------------------------------------------------------
(* The exchange of two secrets *)

\* The Manager's phases: traverse(), finds() for each partner but itself, start.
NextPhase(m) == CASE m.op = "traverse" -> Cmd("find", m.a, m.b, IF m.a = Manager THEN 1 ELSE 0)
                  [] m.op = "find" /\ m.n = 0 /\ m.b # Manager -> Cmd("find", m.a, m.b, 1)
                  [] OTHER -> Cmd("start", m.a, m.b, 0)

Advance == /\ pc[Manager] = "ask" /\ Over(Manager) /\ cmd[Manager].op \in {"traverse", "find"}
           /\ Begin(Manager, NextPhase(cmd[Manager]))
           /\ UNCHANGED <<globals, pipes, fifos, output>>

\* The child that the route to partner x leads to.  (A missing route is file
\* descriptor -1: writes and reads of it do nothing.)
Along(s, x) == IF route[s][x] = None THEN <<>> ELSE <<route[s][x]>>

\* Mutant: a route that both partners share is used twice.
TargetsTwice(s) == CASE s = cmd[s].a -> Along(s, 1)
                     [] s = cmd[s].b -> Along(s, 0)
                     [] OTHER        -> Along(s, 0) \o Along(s, 1)

\* The children that s passes "start_exchange" to: a partner to the one on the
\* way to the other partner, any other service to both, once if they are one.
Targets(s) == CASE s = cmd[s].a               -> Along(s, 1)
                [] s = cmd[s].b               -> Along(s, 0)
                [] route[s][0] = route[s][1]  -> Along(s, 0)
                [] OTHER                      -> Along(s, 0) \o Along(s, 1)

Tell(s) == /\ pc[s] = "tell" /\ nth[s] <= Len(Targets(s))
           /\ LET c == Targets(s)[nth[s]] IN down' = [down EXCEPT ![c] = Append(@, cmd[s])]
           /\ nth' = [nth EXCEPT ![s] = @ + 1]
           /\ UNCHANGED <<globals, pc, cmd, ans, up, fifos, output>>

Told(s) == /\ pc[s] = "tell" /\ nth[s] > Len(Targets(s))
           /\ Goto(s, IF s \in {cmd[s].a, cmd[s].b} THEN "open1" ELSE "collect")
           /\ nth' = [nth EXCEPT ![s] = 1]
           /\ UNCHANGED <<globals, cmd, ans, pipes, fifos, output>>

\* exchanges(): the first partner writes FIFO 1 and reads FIFO 2.
First(s) == s = cmd[s].a
Opened(f) == ends[f] = {"r", "w"}

\* Mutant: both partners open the FIFO that they write first.
OpenToWrite(s) == /\ pc[s] = "open1"
                  /\ ends' = [ends EXCEPT ![IF First(s) THEN 1 ELSE 2] = @ \cup {"w"}]
                  /\ Goto(s, "open2")
                  /\ UNCHANGED <<globals, cmd, nth, ans, pipes, data, output>>

Open1(s) == /\ pc[s] = "open1"
            /\ ends' = [ends EXCEPT ![1] = @ \cup {IF First(s) THEN "w" ELSE "r"}]
            /\ Goto(s, "open2")
            /\ UNCHANGED <<globals, cmd, nth, ans, pipes, data, output>>

\* open() returns when the other end is open too.
Open2(s) == /\ pc[s] = "open2" /\ Opened(1)
            /\ ends' = [ends EXCEPT ![2] = @ \cup {IF First(s) THEN "r" ELSE "w"}]
            /\ Goto(s, IF First(s) THEN "take" ELSE "give")
            /\ UNCHANGED <<globals, cmd, nth, ans, pipes, data, output>>

\* The second partner writes its secret and then reads the other's.
Give(s) == /\ pc[s] = "give" /\ Opened(2)
           /\ data' = [data EXCEPT ![2] = Append(@, secret[s])]
           /\ Goto(s, "take")
           /\ UNCHANGED <<globals, cmd, nth, ans, pipes, ends, output>>

\* The first partner reads, writes its old secret, and keeps what it read.
TakeFirst(s) == /\ pc[s] = "take" /\ First(s) /\ Opened(2) /\ data[2] # <<>>
                /\ data' = [data EXCEPT ![1] = Append(@, secret[s]), ![2] = Tail(@)]
                /\ secret' = [secret EXCEPT ![s] = Head(data[2])]
                /\ Goto(s, "collect")
                /\ UNCHANGED <<child, route, cmd, nth, ans, pipes, ends, output>>

TakeSecond(s) == /\ pc[s] = "take" /\ ~First(s) /\ data[1] # <<>>
                 /\ data' = [data EXCEPT ![1] = Tail(@)]
                 /\ secret' = [secret EXCEPT ![s] = Head(data[1])]
                 /\ Goto(s, "collect")
                 /\ UNCHANGED <<child, route, cmd, nth, ans, pipes, ends, output>>

\* The answers of the children it told, in the same order.
Collect(s) == /\ pc[s] = "collect" /\ nth[s] <= Len(Targets(s))
              /\ LET c == Targets(s)[nth[s]] IN up[c] # <<>> /\ up' = [up EXCEPT ![c] = Tail(@)]
              /\ nth' = [nth EXCEPT ![s] = @ + 1]
              /\ UNCHANGED <<globals, pc, cmd, ans, down, fifos, output>>

\* The answer to the parent goes out before the routes are reset.
Done(s) == /\ s # Manager /\ pc[s] = "collect" /\ nth[s] > Len(Targets(s))
           /\ up' = [up EXCEPT ![s] = Append(@, Answer(TRUE, 0))]
           /\ Finish(s, "reset")
           /\ UNCHANGED <<globals, down, fifos, output>>

\* Mutant: the routes stay.
KeepRoutes(s) == /\ pc[s] = "reset"
                 /\ Goto(s, "idle")
                 /\ UNCHANGED <<globals, cmd, nth, ans, pipes, fifos, output>>

Reset(s) == /\ pc[s] = "reset"
            /\ route' = [route EXCEPT ![s] = NoRoute]
            /\ Goto(s, "idle")
            /\ UNCHANGED <<child, secret, cmd, nth, ans, pipes, fifos, output>>

\* Mutant: the Manager reads the first answer only.
PrintEarly == LET m == Manager IN
    /\ pc[m] = "collect" /\ nth[m] > Min({1, Len(Targets(m))})
    /\ Finish(m, "idle")
    /\ route' = [route EXCEPT ![m] = NoRoute]
    /\ ends' = NoEnds /\ data' = NoData
    /\ UNCHANGED <<child, secret, pipes>>
    /\ Outcome("exchange", TRUE, 0)

\* The Manager removes the FIFOs, prints and resets its routes.
PrintExchange == LET m == Manager IN
    /\ pc[m] = "collect" /\ nth[m] > Len(Targets(m))
    /\ Finish(m, "idle")
    /\ route' = [route EXCEPT ![m] = NoRoute]
    /\ ends' = NoEnds /\ data' = NoData
    /\ UNCHANGED <<child, secret, pipes>>
    /\ Outcome("exchange", TRUE, 0)

-------------------------------------------------------------------------------
(* The end *)

\* The end of the Manager's input.
Eof == /\ pc[Manager] = "idle"
       /\ Goto(Manager, "dead")
       /\ report' = S!NoLine
       /\ UNCHANGED <<globals, cmd, nth, ans, pipes, fifos, heard, saved>>

\* Mutant: an empty command is taken for an unknown one.
OrphanLoops(s) == /\ s # Manager /\ pc[s] = "idle" /\ down[s] = <<>>
                  /\ \E p \in Name \ Alive : s \in ToSet(child[p])
                  /\ UNCHANGED vars

\* read() finds that the parent has gone: the command stays empty.
Orphan(s) == /\ s # Manager /\ pc[s] = "idle" /\ down[s] = <<>>
             /\ \E p \in Name \ Alive : s \in ToSet(child[p])
             /\ Goto(s, "dead")
             /\ UNCHANGED <<globals, cmd, nth, ans, pipes, fifos, output>>

Ended == Alive = {} /\ UNCHANGED vars

exchanges(s) == Open1(s) \/ Open2(s) \/ Give(s) \/ TakeFirst(s) \/ TakeSecond(s)
start_exchange(s) == Tell(s) \/ Told(s) \/ exchanges(s) \/ Collect(s) \/ Done(s) \/ Reset(s)

service(s) == \/ Receive(s) \/ Fork(s) \/ Born(s) \/ Ask(s) \/ Hear(s) \/ Reply(s)
              \/ start_exchange(s) \/ Orphan(s)
manager == PrintSpawn \/ PrintKill \/ Advance \/ PrintExchange

Next == \/ Command \/ manager \/ Eof \/ Ended
        \/ \E s \in Name : service(s)

Spec == Init /\ [][Next]_vars

\* Every process that can take a step takes one; there may be no more input.
FairSpec == Spec /\ WF_vars(manager) /\ \A s \in Name : WF_vars(service(s))

-------------------------------------------------------------------------------
(* Properties *)

Command_ == [op : {"none", "spawn", "kill", "suicide", "traverse", "find", "start"},
             a : Name, b : Name, n : Nat]
Answer_ == [ok : BOOLEAN, n : Nat]

\* Every variable keeps its type, and no pipe ever holds two messages.
TypeOK == /\ child \in [Name -> Seq(Name)]
          /\ secret \in [Name -> Secret \cup {None}]
          /\ route \in [Name -> [{0, 1} -> Name \cup {None}]]
          /\ pc \in [Name -> {"dead", "born", "idle", "fork", "ask", "hear", "tell", "open1", "open2",
                              "give", "take", "collect", "reset"}]
          /\ cmd \in [Name -> Command_]
          /\ nth \in [Name -> Nat \ {0}]
          /\ ans \in [Name -> Answer_]
          /\ down \in [Name -> Seq(Command_)]
          /\ up \in [Name -> Seq(Answer_)]
          /\ ends \in [{1, 2} -> SUBSET {"r", "w"}]
          /\ data \in [{1, 2} -> Seq(Secret)]
          /\ heard \in Seq(Name)
          /\ \A s \in Name : Len(down[s]) <= 1 /\ Len(up[s]) <= 1

\* Service s has something to do, now or as soon as it runs.
Busy(s) == \/ pc[s] \in {"born", "fork", "ask", "tell", "open1", "open2", "give", "take", "collect"}
           \/ down[s] # <<>> \/ up[s] # <<>>

\* A command keeps one service at a time busy: whoever waits for its child
\* leaves the others alone, so that nobody sees the tree half changed.  Only
\* the two partners of an exchange and those between them work at once.
OneAtATime == \A s, t \in Name :
    s # t /\ Busy(s) /\ Busy(t) =>
        \E p \in Name : pc[p] \in {"tell", "open1", "open2", "give", "take", "collect"}

\* When the Manager waits for its next command no message is left over that
\* could be taken for an answer to it, and every service waits too.
Quiet == pc[Manager] = "idle" => \A s \in Name :
    down[s] = <<>> /\ up[s] = <<>> /\ pc[s] \in {"idle", "dead", "reset"}

\* Whoever passes an exchange on has a route to each partner below it, and none
\* to a partner that is not, whatever was spawned, killed and exchanged before.
RoutesLead == \A s \in Name : pc[s] = "tell" => \A x \in {0, 1} :
    LET partner == IF x = 0 THEN cmd[s].a ELSE cmd[s].b
        kids == {c \in ToSet(child[s]) : partner \in S!Below(child, c)} IN
    IF kids = {} THEN route[s][x] = None ELSE route[s][x] \in kids

\* A command is announced by the services on its way to those that it names,
\* each one before its children, and by nobody else.
Announced == pc[Manager] \notin {"idle", "dead"} =>
    LET m == cmd[Manager]
        named == IF m.op \in {"spawn", "kill", "suicide"} THEN {m.a} ELSE {m.a, m.b} IN
    IsPrefix(heard, S!Visited(saved.child, named))

\* The processes together do what Services says: each command takes effect
\* whole, and the number of services killed is right.
KeepsPromise == S!Spec

\* A command whose outcome is printed has been announced by the services on its
\* way, each one before its children, the Manager first.
AnnouncedInOrder == S!InOrder

\* Every command comes to an end.
Answered == pc[Manager] # "idle" ~> pc[Manager] \in {"idle", "dead"}

\* No service outlives the Manager for long.
AllEnd == pc[Manager] = "dead" ~> Alive = {}
===============================================================================
