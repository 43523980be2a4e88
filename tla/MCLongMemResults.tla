--------------------------- MODULE MCLongMemResults ----------------------------
(* What each rerun is asked for, and how much of each process there is in one  *)
(* behaviour, for TLC: a configuration cannot write a function.                *)
EXTENDS LongMemResults, TLC

CONSTANTS p, q

Shares == p :> {1} @@ q :> {2}

\* A dataset answered again between judgings, two reruns at the same tables, and
\* a judging of files two reruns write.
Bounds == {[launches |-> p :> 2 @@ q :> 0, judgings |-> 2],
           [launches |-> p :> 2 @@ q :> 1, judgings |-> 0],
           [launches |-> p :> 1 @@ q :> 1, judgings |-> 2]}
=============================================================================
