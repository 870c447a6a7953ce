---------------------------- MODULE MCRetrieval ----------------------------
(* Four chunks of one document and one each of three others: enough to have *)
(* hits of more than CoherentDocs documents and more than CoherentKeep of   *)
(* the best one.                                                            *)
EXTENDS Retrieval

Chunk(d, i, s, o, n, r) ==
    [doc |-> d, at |-> i, section |-> s, family |-> IF d = 2 THEN "circular" ELSE "act",
     overlap |-> o, chars |-> n, recent |-> r]

MCChunks == {Chunk(1, 0, "law", 0, 4, FALSE), Chunk(1, 1, "law", 50, 3, FALSE),
             Chunk(1, 2, "law", 10, 2, FALSE), Chunk(1, 3, "law", 100, 5, FALSE),
             Chunk(2, 0, "levy", 30, 6, TRUE), Chunk(3, 0, "levy", 60, 1, TRUE),
             Chunk(4, 0, "law", 0, 3, FALSE)}

MCAsks == [section : {"any", "law"}, family : {"any"}, topK : {2, 9}]
=============================================================================
