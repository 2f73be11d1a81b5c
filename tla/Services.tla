------------------------------- MODULE Services -------------------------------
(***************************************************************************)
(* What the services of HW2 promise together: a tree of named services,    *)
(* each with a secret, on which every command of the Manager's input takes *)
(* effect at once and whole, and what the Manager prints about it.         *)
(***************************************************************************)
EXTENDS Integers, Sequences, FiniteSets, SequencesExt

CONSTANTS Name, Manager, Secret, None

VARIABLES child,    \* the children of every service, oldest first
          secret,
          alive,    \* the services that run
          report    \* the last command, its outcome and who announced it

vars == <<child, secret, alive, report>>

\* In the tree t: the service s and its descendants.
Below(t, s) == {x \in Name : \A S \in SUBSET Name :
                   s \in S /\ (\A y \in S : ToSet(t[y]) \subseteq S) => x \in S}

\* The services of tree t, every service before its children.
PreOrder(t) == LET walk[d \in 0..Cardinality(Name)] ==
                       [s \in Name |-> IF d = 0 THEN <<>>
                            ELSE <<s>> \o FlattenSeq([k \in DOMAIN t[s] |-> walk[d - 1][t[s][k]]])]
               IN  walk[Cardinality(Name)][Manager]

\* The command goes from service to service in this order until all that it
\* names have been found.
Visited(t, named) == LET all == PreOrder(t) IN
    IF named \subseteq ToSet(all)
    THEN SubSeq(all, 1, Max({k \in DOMAIN all : all[k] \in named}))
    ELSE all

Line(op, a, b, ok, n, heard) ==
    [op |-> op, a |-> a, b |-> b, ok |-> ok, n |-> n, heard |-> heard]

NoLine == Line("none", Manager, Manager, TRUE, 0, <<>>)

Init == /\ child = [s \in Name |-> <<>>]
        /\ \E v \in Secret : secret = [s \in Name |-> IF s = Manager THEN v ELSE None]
        /\ alive = {Manager}
        /\ report = NoLine

\* What the Manager prints about a command, whoever has announced it.
Prints(op, a, b, ok, n) == report' = Line(op, a, b, ok, n, report'.heard)

\* A new service c under p with some secret.
Spawn(p, c) ==
    /\ c \notin alive
    /\ IF p \in alive
       THEN /\ child' = [child EXCEPT ![p] = Append(@, c)]
            /\ \E v \in Secret : secret' = [secret EXCEPT ![c] = v]
            /\ alive' = alive \cup {c}
       ELSE UNCHANGED <<child, secret, alive>>
    /\ Prints("spawn", p, c, p \in alive, 0)

\* Service t ends with all its descendants; the Manager prints how many these are.
Kill(t) ==
    LET gone == Below(child, t) IN
    /\ IF t \in alive
       THEN /\ child' = [s \in Name |-> IF s \in gone THEN <<>> ELSE RemoveFirst(child[s], t)]
            /\ secret' = [s \in Name |-> IF s \in gone THEN None ELSE secret[s]]
            /\ alive' = alive \ gone
       ELSE UNCHANGED <<child, secret, alive>>
    /\ Prints("kill", t, t, t \in alive, IF t \in alive THEN Cardinality(gone) - 1 ELSE 0)

\* Services a and b have each other's secret.
Exchange(a, b) ==
    /\ {a, b} \subseteq alive /\ a # b
    /\ secret' = [secret EXCEPT ![a] = secret[b], ![b] = secret[a]]
    /\ UNCHANGED <<child, alive>>
    /\ Prints("exchange", a, b, TRUE, 0)

\* A new command: the Manager has not printed anything about it.
Read == report' = NoLine /\ UNCHANGED <<child, secret, alive>>

Next == \/ Read
        \/ /\ Manager \in alive /\ report = NoLine
           /\ \E a, b \in Name : Spawn(a, b) \/ Kill(a) \/ Exchange(a, b)

Spec == Init /\ [][Next]_vars

\* Who has announced the command that is now printed: those that it visits, in
\* order; after a kill perhaps some of the killed too (see SuicideMessages in ServiceTree).
Announcement == LET r == report' IN
    /\ r.op = "spawn" => r.heard = Visited(child, {r.a})
    /\ r.op = "exchange" => r.heard = Visited(child, {r.a, r.b})
    /\ r.op = "kill" => LET due == Visited(child, {r.a}) IN
          /\ IsPrefix(due, r.heard)
          /\ \A k \in DOMAIN r.heard : k > Len(due) => r.ok /\ r.heard[k] \in Below(child, r.a)

InOrder == [][Announcement]_vars
===============================================================================
