----------------------------- MODULE MCRetrieval -----------------------------
(* A path of three entities, the second related to itself as well, and a       *)
(* fourth that the graph does not have; entities 1 and 3 have the same name.   *)
EXTENDS Retrieval

Path == (11 :> <<1, 2>>) @@ (12 :> <<2, 3>>) @@ (13 :> <<2, 2>>)
Names == (1 :> 101) @@ (2 :> 102) @@ (3 :> 101) @@ (4 :> 104)

Base == [spread |-> FALSE, noKeywords |-> TRUE, noWords |-> TRUE, relMode |-> "high", noText |-> FALSE,
         noGraph |-> FALSE, noBoost |-> FALSE, timed |-> FALSE, strict |-> FALSE, direct |-> FALSE, repeats |-> FALSE]
Configs == {[Base EXCEPT !.spread = TRUE, !.timed = TRUE, !.noText = TRUE, !.noKeywords = FALSE, !.noWords = FALSE],
            [Base EXCEPT !.noKeywords = FALSE, !.direct = TRUE, !.repeats = TRUE],
            [Base EXCEPT !.direct = TRUE, !.noGraph = TRUE, !.noKeywords = FALSE, !.relMode = "both", !.strict = TRUE]}
Contents == {[nodes |-> {1, 2, 3}, known |-> {1, 3, 4}, relKnown |-> {11}],
             [nodes |-> {1, 2}, known |-> {1, 2}, relKnown |-> {11, 12, 13}]}
Strengths == {(11 :> a) @@ (12 :> b) @@ (13 :> 2) : a, b \in {0, 2, 3}}
Score(a, b, c, d) == (1 :> a) @@ (2 :> b) @@ (3 :> c) @@ (4 :> d) @@ (11 :> b) @@ (12 :> a) @@ (13 :> d)
Scores == {Score(1, 1, 1, 1), Score(0, 2, 1, 2), Score(1, 2, 0, 0), Score(2, 0, 2, 1)}
=============================================================================
