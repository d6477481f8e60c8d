----------------------------- MODULE MCRaplStats -----------------------------
(* The master and one other thread, whose kernel can be interrupted in the *)
(* middle, and three iterations with three different operands, so that a   *)
(* record has one before it and one after it.                              *)
EXTENDS RaplStats

MCDraw == [n \in Loop |-> (2 * n + 1) % 3]

=============================================================================
