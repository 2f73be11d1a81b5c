------------------------------- MODULE TaskPool -------------------------------
(***************************************************************************)
(* What the thread pool of HW4 promises to its client, without threads,   *)
(* locks or memory: tasks are numbered in the order they are added, they   *)
(* are accepted in that order, each is executed exactly once, and          *)
(* tpool_wait returns only when nothing is left to execute.                *)
(***************************************************************************)
EXTENDS Naturals

VARIABLES added,     \* number of tasks handed to tpool_add so far
          accepted,  \* number of tasks taken by a worker; always 1..accepted
          running,   \* the accepted tasks whose function has not returned
          done,      \* the tasks whose function has returned
          returned   \* tpool_wait has returned

vars == <<added, accepted, running, done, returned>>

Init == /\ added = 0
        /\ accepted = 0
        /\ running = {}
        /\ done = {}
        /\ returned = FALSE

\* The client hands over one more task.
Add == /\ ~returned
       /\ added' = added + 1
       /\ UNCHANGED <<accepted, running, done, returned>>

\* Some worker takes the oldest task that nobody has taken.
Accept == /\ accepted < added
          /\ accepted' = accepted + 1
          /\ running' = running \cup {accepted + 1}
          /\ UNCHANGED <<added, done, returned>>

\* The function of task t returns.
Complete(t) == /\ t \in running
               /\ running' = running \ {t}
               /\ done' = done \cup {t}
               /\ UNCHANGED <<added, accepted, returned>>

\* tpool_wait returns.
Return == /\ ~returned
          /\ accepted = added
          /\ running = {}
          /\ returned' = TRUE
          /\ UNCHANGED <<added, accepted, running, done>>

Next == Add \/ Accept \/ (\E t \in running : Complete(t)) \/ Return

Spec == Init /\ [][Next]_vars
===============================================================================
