----------------------------- MODULE MCTurnIngest -----------------------------
(* The sessions TLC ingests: a configuration cannot write a record.            *)
EXTENDS TurnIngest

CONSTANTS a, b

\* Two turns that say things of one entity, and one turn that relates two.
MCSessions == {[turns |-> 2, ents |-> {a}, pairs |-> {<<a, a>>}, stated |-> 2],
               [turns |-> 1, ents |-> {a, b}, pairs |-> {<<a, b>>}, stated |-> 1]}
=============================================================================
