---------------------------- MODULE SeriesBoard ----------------------------
(***************************************************************************)
(* What a reader of /metrics may rely on, whatever the sink does inside.   *)
(*                                                                         *)
(* The board has one slot per metric and GPU.  A slot is empty until the   *)
(* GPU is first published, and from then on holds one series at a time: a  *)
(* label set and a value.  It is emptied again only while its own GPU is   *)
(* being published, one slot at a time, so no publication ever disturbs    *)
(* another metric or another GPU.  A scrape takes the series of one row    *)
(* (one metric) at a time, and the value of each of them at some later     *)
(* moment at which the series is on the board: never a value that was      *)
(* another series', but values of different moments within one row.        *)
(***************************************************************************)
CONSTANTS
    Metrics, GPUs, Labels,
    Values,    \* published values
    Fresh,     \* the value a series has before it is first set
    Scrapers,
    Nothing    \* an empty slot; nobody being published; a row or value not yet read

VARIABLES
    board,     \* board[m][g]: the series of GPU g in metric m, or Nothing
    current,   \* the slot being published, or Nothing
    view       \* view[s][m]: what scraper s has of row m

vars == <<board, current, view>>

Slot == [labels : Labels, value : Values \cup {Fresh}]

Init ==
    /\ board   = [m \in Metrics |-> [g \in GPUs |-> Nothing]]
    /\ current = Nothing
    /\ view    = [s \in Scrapers |-> [m \in Metrics |-> Nothing]]

\* Scraper s has taken the series in slot (m, g), and not its value.
Awaits(s, m, g) ==
    /\ view[s][m] # Nothing /\ view[s][m][g] # Nothing
    /\ view[s][m][g].value = Nothing

\* A publication of (m, g) begins; the labels may have changed, in which case
\* the old series goes before the new one comes, and leaves its value to those
\* that await it.
Open(m, g) ==
    /\ current = Nothing
    /\ current' = <<m, g>>
    /\ \/ UNCHANGED <<board, view>>
       \/ /\ board' = [board EXCEPT ![m][g] = Nothing]
          /\ view'  = [s \in Scrapers |->
                         IF Awaits(s, m, g)
                         THEN [view[s] EXCEPT ![m][g].value = board[m][g].value]
                         ELSE view[s]]

\* A new series appears in the empty slot, before its value does.
Place(m, g, l) ==
    /\ current \in {Nothing, <<m, g>>}
    /\ board[m][g] = Nothing
    /\ board'   = [board EXCEPT ![m][g] = [labels |-> l, value |-> Fresh]]
    /\ current' = <<m, g>>
    /\ UNCHANGED view

\* The value is set and the publication is over.
Write(m, g, v) ==
    /\ current = <<m, g>>
    /\ board[m][g] # Nothing
    /\ board'   = [board EXCEPT ![m][g].value = v]
    /\ current' = Nothing
    /\ UNCHANGED view

\* Scraper s takes the series of one row as they are at that moment, without
\* their values.
Take(s, m) ==
    /\ view' = [view EXCEPT ![s][m] =
                   [g \in GPUs |-> IF board[m][g] = Nothing THEN Nothing
                                  ELSE [labels |-> board[m][g].labels, value |-> Nothing]]]
    /\ UNCHANGED <<board, current>>

\* Scraper s reads the value of a series it has taken, which is still in its slot.
Read(s, m, g) ==
    /\ Awaits(s, m, g)
    /\ board[m][g] # Nothing
    /\ board[m][g].labels = view[s][m][g].labels
    /\ view' = [view EXCEPT ![s][m][g].value = board[m][g].value]
    /\ UNCHANGED <<board, current>>

\* Scraper s starts a new scrape.
Restart(s) ==
    /\ view' = [view EXCEPT ![s] = [m \in Metrics |-> Nothing]]
    /\ UNCHANGED <<board, current>>

Next ==
    \/ \E m \in Metrics, g \in GPUs :
          \/ Open(m, g)
          \/ \E l \in Labels : Place(m, g, l)
          \/ \E v \in Values : Write(m, g, v)
    \/ \E s \in Scrapers :
          \/ Restart(s)
          \/ \E m \in Metrics : Take(s, m)
          \/ \E m \in Metrics, g \in GPUs : Read(s, m, g)

Spec == Init /\ [][Next]_vars
=============================================================================
