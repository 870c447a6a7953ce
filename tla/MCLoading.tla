----------------------------- MODULE MCLoading -----------------------------
(* The first document has any text of a few blocks, under any strategy; or, *)
(* like the second, something for one of the structured tables, under a key *)
(* both may use.                                                            *)
EXTENDS Loading

\* No tokens, one, and three more characters than make three or five.
Block == [kind : {"plain", "numbered"}, chars : {3, 15, 23}]
         \cup [kind : {"heading"}, chars : {7, 15}]
SmallBlock == [kind : {"plain", "numbered"}, chars : {7, 15}]
              \cup [kind : {"heading"}, chars : {7}]

Blocks == BoundedSeq(Block, 3) \cup [1..4 -> SmallBlock]

Text(b, s, t, table, k, n) ==
    [blocks |-> b, strategy |-> s, tables |-> t, table |-> table, key |-> k,
     steps |-> n]

AnyText == {Text(b, s, IF s = "table_per_chunk" THEN 2 ELSE 0, "sections", "none", 0) :
              b \in Blocks, s \in Strategies}

Plain == <<[kind |-> "plain", chars |-> 15], [kind |-> "plain", chars |-> 15]>>
Structured == {Text(Plain, "list_aware", 0, "steps", k, n) : k \in {"k1", "k2"}, n \in 1..3}
              \cup {Text(Plain, "paragraph_aware", 0, t, "k1", 0) :
                        t \in {"categories", "toolkit", "concessions"}}

MCTexts == <<AnyText \cup Structured, Structured>>
=============================================================================
