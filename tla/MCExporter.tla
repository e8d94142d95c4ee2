----------------------------- MODULE MCExporter -----------------------------
(* One process, two GPUs with one field each, two requests.                *)
EXTENDS Exporter

CONSTANTS g1, g2, r1, r2
=============================================================================
