---------------------------- MODULE MCUserThreads ----------------------------
(* Instances of UserThreads for TLC. *)
EXTENDS UserThreads

\* Bank arguments: none, deposits whose sum overflows, withdrawals that 500
\* covers and does not, and the one whose negation overflows.
MCBankArgs == {0, 400, -300, -600, -1024}
\* Rounds of the loops: none, one, and enough to be interrupted in between and
\* to overflow the 11-bit int of the instance.
MCFibArgs == {-1, 1, 18}
MCFactArgs == {0, 7}
==============================================================================
