--------------------------- MODULE MCAgentFilter ---------------------------
(* Two sessions, the first with an exchange of two turns and one whose answer  *)
(* is blank, the second with one question; a model may call session 12 "2".    *)
EXTENDS AgentFilter

Row(s, i, u, w) == [session |-> s, index |-> i, user |-> u, words |-> w]
Conversation == <<Row(1, 0, TRUE, <<"cat", "ran">>), Row(1, 1, FALSE, <<"ran">>), Row(1, 2, TRUE, <<"shoe">>),
                  Row(1, 3, FALSE, <<>>), Row(12, 0, TRUE, <<"ran", "a", "cat">>)>>
EndsWith == [s \in {1, 2, 7, 9, 12} |-> IF s = 1 THEN {1} ELSE IF s > 5 THEN {s} \cap {12} ELSE {12}]
A == <<1, 1, 1>>
B == <<1, 3, 1>>
C == <<12, 1, 1>>
D == <<1, 1, 2>>
Contained == [s \in {A, B, C, D} |-> IF s = A THEN {C} ELSE {}]

Item(f, k, a) == [form |-> f, kind |-> k, arg |-> a]
Says(c) == [content |-> c, tools |-> <<>>, reasoning |-> <<>>]
Thinks(c) == [content |-> <<>>, tools |-> <<>>, reasoning |-> c]
Mouths ==
  {Says(<<Item("line", "GREP", <<"cat", "ran">>), Item("line", "FINAL", <<>>)>>),
   Says(<<Item("line", "FINAL", <<<<1, 1, 0>>>>)>>),
   Says(<<Item("line", "FINAL", <<<<2, 1, 1>>, B, <<7, 1, 1>>>>)>>),
   Says(<<Item("prose", "", <<C>>)>>),
   [content |-> <<Item("prose", "FINAL", <<>>)>>, tools |-> <<Item("call", "READ", <<B>>), Item("call", "GREP", <<>>)>>,
    reasoning |-> <<>>],
   Thinks(<<Item("prose", "GREP", <<"ran">>), Item("prose", "FINAL", <<>>)>>),
   Thinks(<<Item("prose", "VECTOR", <<"pet">>)>>),
   [content |-> <<>>, tools |-> <<Item("call", "FINAL", <<>>)>>, reasoning |-> <<Item("loose", "FINAL", <<D>>)>>]}

InStore == {A, C}
Line(s, k) == [sid |-> s, keep |-> k]
Rulings == {<<>>, <<Line(A, TRUE), Line(B, FALSE)>>, <<Line(C, TRUE)>>, <<Line(B, TRUE), Line(A, TRUE)>>}

Base == [on |-> TRUE, corpus |-> TRUE, mode |-> "filter_fetch", vector |-> TRUE, audit |-> TRUE, applies |-> TRUE,
         pairs |-> TRUE, graph |-> TRUE]
Setups == {Base, [Base EXCEPT !.on = FALSE], [Base EXCEPT !.corpus = FALSE],
           [Base EXCEPT !.mode = "filter", !.vector = FALSE, !.graph = FALSE],
           [Base EXCEPT !.mode = "fetch_only", !.applies = FALSE],
           [Base EXCEPT !.pairs = FALSE, !.vector = FALSE]}
Retrieved == {<<>>, <<<<1, 1, 0>>, B>>, <<A, <<9, 9, 1>>>>}
=============================================================================
