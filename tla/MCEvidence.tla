----------------------------- MODULE MCEvidence -----------------------------
(* Values a configuration cannot write: the selections by turn and by entry.   *)
EXTENDS Evidence

Pairs == [m \in Modes |-> IF m = "pair" THEN 1 ELSE 3]
Levels == {None, 0, 1, 2}

ByTurn == {[topk |-> 1, quota |-> 0, raw |-> TRUE,  fallback |-> FALSE],
           [topk |-> 2, quota |-> 0, raw |-> FALSE, fallback |-> TRUE],
           [topk |-> 2, quota |-> 1, raw |-> FALSE, fallback |-> FALSE],
           [topk |-> 1, quota |-> 1, raw |-> FALSE, fallback |-> FALSE]}

ByEntry == {[topk |-> 1, direct |-> 0, floor |-> 0, rerank |-> 0, cosineOnly |-> FALSE],
            [topk |-> 1, direct |-> 2, floor |-> 1, rerank |-> 0, cosineOnly |-> FALSE],
            [topk |-> 1, direct |-> 2, floor |-> 0, rerank |-> 2, cosineOnly |-> FALSE],
            [topk |-> 1, direct |-> 1, floor |-> 2, rerank |-> 1, cosineOnly |-> TRUE]}
=============================================================================
