-------------------------------- MODULE Board --------------------------------
(***************************************************************************)
(* What the bulletin board of HW1 promises its users: a client is lent the *)
(* next record that nobody edits, and puts its post there in one step.     *)
(***************************************************************************)
EXTENDS Integers

CONSTANTS Client, Text, RECORD_NUM, None

Record == 0..(RECORD_NUM - 1)

VARIABLES board,    \* the post in each record
          holder,   \* the client that edits it
          last      \* the record lent last

vars == <<board, holder, last>>

Init == /\ board = [r \in Record |-> None]
        /\ holder = [r \in Record |-> None]
        /\ last = RECORD_NUM - 1

Distance(r) == (r - last - 1) % RECORD_NUM

\* Client c is lent record r, the first free one behind the one lent last.
Lend(c, r) == /\ holder[r] = None
              /\ \A q \in Record : holder[q] = None => Distance(r) <= Distance(q)
              /\ last' = r
              /\ holder' = [holder EXCEPT ![r] = c]
              /\ UNCHANGED board

\* Client c posts in the record that it was lent, which is free again.
Post(c, r) == /\ holder[r] = c
              /\ board' = [board EXCEPT ![r] = Text[c]]
              /\ holder' = [holder EXCEPT ![r] = None]
              /\ UNCHANGED last

Next == \E c \in Client, r \in Record : Lend(c, r) \/ Post(c, r)

Spec == Init /\ [][Next]_vars
==============================================================================
