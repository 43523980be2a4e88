------------------------------ MODULE MCLocomoRun ------------------------------
(***************************************************************************)
(* Values for LocomoRun that a configuration cannot write.                 *)
(***************************************************************************)
EXTENDS LocomoRun, TLC

\* A sample of one session, and one of two.
MCNSessions == <<1, 2>>

\* Bound: no run under other settings takes up the first sample's snapshots.
\* (StartFails leaves a sample in the same way, whatever its settings.)
MCBound ==
    pc # "idle" /\ Taken(1) # {} => snapshots[1][1].settings = settings

\* No setting is told from another but by being the same or not.
MCSymmetry == Permutations(Settings)
===============================================================================
