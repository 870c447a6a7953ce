----------------------------- MODULE MCCutover -----------------------------
(***************************************************************************)
(* Instances of Cutover for TLC.  One table of each kind the migrations    *)
(* know: staged and smoke-tested, created without a staging twin, and      *)
(* never created.                                                          *)
(***************************************************************************)
EXTENDS Cutover

MCGate    == {"documents", "registration_steps"}
MCCreated == MCGate \cup {"format_review_queue"}
MCTables  == MCCreated \cup {"tourism_statistics"}

\* With a staged table the smoke tests do not look at.
MCStaged3  == MCGate \cup {"financial_concessions"}
MCCreated3 == MCCreated \cup MCStaged3
MCTables3  == MCTables \cup MCStaged3
=============================================================================
