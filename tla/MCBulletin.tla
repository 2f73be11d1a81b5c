------------------------------ MODULE MCBulletin ------------------------------
(* Instances of Bulletin for TLC. *)
EXTENDS Bulletin, TLC

CONSTANTS s1, s2, c1, c2, c3, c4, post

\* All clients at one server; two servers with a client each.
OneHome == [c \in Client |-> s1]
TwoHomes == (c1 :> s1) @@ (c2 :> s2)
\* Two clients at s1, one at s2.
UnevenHomes == (c1 :> s1) @@ (c2 :> s1) @@ (c3 :> s2)

\* What is posted is told apart from nothing only.
SamePost == [c \in Client |-> post]

\* Clients of the same server are interchangeable.
ClientSymmetry == Permutations({c \in Client : Home[c] = s1})
===============================================================================
