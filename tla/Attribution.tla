---------------------------- MODULE Attribution ----------------------------
(***************************************************************************)
(* What an operator may rely on of the collection loop, whatever it does   *)
(* inside: a series board (module SeriesBoard) that changes during a cycle *)
(* only, and on which every value is written under the owner its GPU had   *)
(* when the cycle listed the owners.  A cycle ends with no slot left open, *)
(* so that a GPU once on the board is never missing between two cycles.    *)
(***************************************************************************)
CONSTANTS Metrics, GPUs, Owners, Values, Fresh, Scrapers, Nothing  \* see SeriesBoard

VARIABLES
    assigned,   \* assigned[g]: the owner of GPU g
    phase,      \* "between" cycles or in a "cycle"
    listed,     \* listed[g]: the owner GPU g had when a cycle last began
    board, current, view

vars == <<assigned, phase, listed, board, current, view>>

Board == INSTANCE SeriesBoard WITH Labels <- GPUs \X Owners

Init ==
    /\ assigned \in [GPUs -> Owners]
    /\ phase = "between"
    /\ listed \in [GPUs -> Owners]
    /\ Board!Init

\* A GPU may get another owner at any moment.
Reassign(g, o) ==
    /\ assigned' = [assigned EXCEPT ![g] = o]
    /\ UNCHANGED <<phase, listed, board, current, view>>

\* A cycle begins with a list of all owners.
List ==
    /\ phase = "between"
    /\ phase'  = "cycle"
    /\ listed' = assigned
    /\ UNCHANGED <<assigned, board, current, view>>

\* A slot is opened, filled or written, the latter two under the owner listed.
Publish(m, g) ==
    /\ phase = "cycle"
    /\ \/ Board!Open(m, g)
       \/ Board!Place(m, g, <<g, listed[g]>>)
       \/ /\ \E v \in Values : Board!Write(m, g, v)
          /\ board[m][g].labels = <<g, listed[g]>>
    /\ UNCHANGED <<assigned, phase, listed>>

\* The cycle is over, or given up, when no publication is.
End ==
    /\ phase = "cycle" /\ current = Nothing
    /\ phase' = "between"
    /\ UNCHANGED <<assigned, listed, board, current, view>>

Next ==
    \/ \E g \in GPUs, o \in Owners : Reassign(g, o)
    \/ List
    \/ \E m \in Metrics, g \in GPUs : Publish(m, g)
    \/ End

Spec == Init /\ [][Next]_vars
=============================================================================
