------------------------------ MODULE MCReader ------------------------------
(* Two GPUs and two watched fields, every kind of answer RDC can give.     *)
EXTENDS Reader

CONSTANTS g1, g2

MCGPUs   == {g1, g2}
MCValues == {0, 7}
=============================================================================
