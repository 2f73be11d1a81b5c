---------------------------- MODULE MCServiceTree ----------------------------
(* Instances of ServiceTree for TLC: the Manager and three services. *)
EXTENDS ServiceTree, TLC

CONSTANTS root, s1, s2, s3, k1, k2

\* The services but the Manager are interchangeable, and so are the secrets.
NameSymmetry == Permutations(Name \ {Manager}) \cup Permutations(Secret)
==============================================================================
