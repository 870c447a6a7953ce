----------------------------- MODULE BlueGreen -----------------------------
(***************************************************************************)
(* What a blue/green publication over two stores promises its readers,     *)
(* whatever happens between its steps.  `index` is what a vector search    *)
(* finds, `tables` what the structured tools read, `retained` the tables   *)
(* kept for a rollback; each is a relation: there or not, with the rows of *)
(* some ingestion runs.                                                    *)
(*                                                                         *)
(* The index goes first: tables are only ever replaced by a set that holds *)
(* every run the index already serves, and taken back only to the retained *)
(* set once the index serves that.  It is not promised that the two agree, *)
(* nor that the index stays up: Lose is the code's staging rebuild, which  *)
(* drops the collection behind the alias.                                  *)
(***************************************************************************)
EXTENDS Naturals

VARIABLES index, tables, retained

vars == <<index, tables, retained>>

Absent == [there |-> FALSE, rows |-> {}]

Init ==
    /\ tables.there
    /\ retained = Absent
    /\ index = Absent \/ index = tables

\* The index moves ahead to rows the tables do not have yet.
Advance ==
    /\ index'.there
    /\ index'.rows \cap tables.rows = {}
    /\ UNCHANGED <<tables, retained>>

\* The tables follow; the replaced ones are retained, and nothing retained
\* before is overwritten.
Publish ==
    /\ index.there
    /\ index.rows \cap tables.rows = {}
    /\ ~retained.there
    /\ tables'.there
    /\ index.rows \subseteq tables'.rows
    /\ tables'.rows \cap tables.rows = {}
    /\ retained' = tables
    /\ UNCHANGED index

\* The index goes back to what the tables are, or were.
Withdraw ==
    /\ index' = tables \/ index' = retained
    /\ index'.there
    /\ UNCHANGED <<tables, retained>>

\* The tables go back too.
Restore ==
    /\ retained.there
    /\ index = retained
    /\ tables' = retained
    /\ retained' = Absent
    /\ UNCHANGED index

Forget ==
    /\ retained.there
    /\ retained' = Absent
    /\ UNCHANGED <<index, tables>>

Lose ==
    /\ index.there
    /\ index' = Absent
    /\ UNCHANGED <<tables, retained>>

Next == Advance \/ Publish \/ Withdraw \/ Restore \/ Forget \/ Lose

Spec == Init /\ [][Next]_vars
=============================================================================
