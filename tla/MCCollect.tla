----------------------------- MODULE MCCollect -----------------------------
(* One GPU, one field that is listed twice.                                *)
EXTENDS Collect

CONSTANTS g1, f1, none, podA

MCFieldAt == <<f1, f1>>
MCScale == [f \in {f1} |-> 2]
=============================================================================
