----------------------------- MODULE MCSession -----------------------------
(* Three lives of the process, each with a host, a filter and a selection  *)
(* of fields of its own; field 0 is what an id out of range becomes.       *)
EXTENDS Session

MCHosts      == {<<>>, <<0>>, <<0, 1>>}
MCFilters    == {{}, {1}, {0, 5}}
MCFieldLists == {<<1>>, <<1, 0>>}
MCIds        == 1..4
=============================================================================
