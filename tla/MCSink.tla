------------------------------- MODULE MCSink -------------------------------
(* Two GPUs, two label tuples, two registered fields and one that is not.  *)
(* As the labels of one collection cycle are frozen, the points of a GPU   *)
(* carry the same labels throughout a batch.                               *)
EXTENDS Sink, TLC

CONSTANTS g1, g2, idle, busy, f1, f2, f3, s1

\* The fields and values of a batch: a field without a gauge and then one twice,
\* with another value the second time; two fields.
Readings == {<<<<f3, 5>>, <<f1, 3>>, <<f1, 5>>>>, <<<<f2, 5>>, <<f1, 5>>>>}

MCBatches ==
    {[i \in DOMAIN r |-> [field |-> r[i][1], gpu |-> g, value |-> r[i][2],
                          labels |-> LabelValues(g, d)]] :
        r \in Readings, g \in GPUs, d \in Dynamic}

Symmetry == Permutations({g1, g2}) \cup Permutations({idle, busy})
=============================================================================
