-------------------------------- MODULE Sink --------------------------------
(***************************************************************************)
(* The Prometheus sink (internal/adapter/prommetric/sink.go) and the       *)
(* /metrics handler that reads what it publishes.                          *)
(*                                                                         *)
(* Publish runs on the collection loop alone.  The handler runs on any     *)
(* number of HTTP goroutines at the same time and shares with it only the  *)
(* gauge vectors: between the deletion, the creation and the setting of    *)
(* one series a scrape can see the vector in any of its intermediate       *)
(* states.  A vector's lock covers its set of series only.  A scrape takes *)
(* that set, the Gauge objects themselves, and reads the value of each     *)
(* later and without the lock, so that one scrape can mix values of        *)
(* different moments within one vector.                                    *)
(*                                                                         *)
(* The gauge vectors and the handler are client_golang's and are modelled  *)
(* from how Publish uses them.                                             *)
(***************************************************************************)
EXTENDS Naturals, Sequences

CONSTANTS
    Fields,    \* field ids a point may carry
    Gauged,    \* field ids New registered a gauge for
    GPUs,
    Dynamic,   \* values of the labels after gpu_index, as one tuple
    Values,    \* scaled values
    Batches,   \* the slices of points Publish may be given
    Scrapers,  \* concurrent requests to /metrics
    Absent,    \* no series with these label values
    Unseen,    \* no entry in lastLabels
    NotRead,   \* the scrape has not come to this vector, or to this value
    Nothing    \* an empty slot of the series board, or a value not yet read

\* gpu_index is rendered first, the other label values follow.
LabelValues(g, d) == <<g, d>>
Series == GPUs \X Dynamic

Points == {p \in [field : Fields, gpu : GPUs, value : Values, labels : Series] :
              \E d \in Dynamic : p.labels = LabelValues(p.gpu, d)}

GaugeValues == Values \cup {0, Absent}
Vector      == [Series -> GaugeValues]
Gathered    == [Series -> GaugeValues \cup {NotRead}]
Slots       == [labels : Series, value : Values \cup {0, Nothing}]

ASSUME SinkAssumption ==
    /\ Gauged \subseteq Fields
    /\ Batches \subseteq Seq(Points)
    /\ Absent \notin Values \cup {0}
    /\ Unseen \notin Series
    /\ NotRead \notin GaugeValues \cup Gathered
    /\ Nothing \notin Values \cup {0} \cup (Gauged \X GPUs)
    /\ Nothing \notin Slots \cup [GPUs -> Slots \cup {Nothing}]

VARIABLES
    gauges,      \* gauges[f][l]: the value of the series l of vector f
    lastLabels,  \* lastLabels[f][g]: labels of the last point published
    points,      \* the points Publish has not dealt with yet
    at,          \* where Publish is: "idle", "lookup", "create" or "set"
    batch,       \* the points given to Publish (history variable)
    view         \* view[s][f][l]: series l of vector f as request s has it

vars == <<gauges, lastLabels, points, at, batch, view>>

Init ==
    /\ gauges     = [f \in Gauged |-> [l \in Series |-> Absent]]
    /\ lastLabels = [f \in Gauged |-> [g \in GPUs |-> Unseen]]
    /\ points     = <<>>
    /\ at         = "idle"
    /\ batch      = <<>>
    /\ view       = [s \in Scrapers |-> [f \in Gauged |-> NotRead]]

-----------------------------------------------------------------------------
(* Publish                                                                 *)

Publish(ps) ==
    /\ at = "idle"
    /\ points' = ps
    /\ batch'  = ps
    /\ at'     = "lookup"
    /\ UNCHANGED <<gauges, lastLabels, view>>

point == Head(points)

\* "gauge, ok := s.gauges[point.FieldID]" fails: the point is skipped.
SkipPoint ==
    /\ at = "lookup" /\ points # <<>>
    /\ point.field \notin Gauged
    /\ points' = Tail(points)
    /\ UNCHANGED <<gauges, lastLabels, at, batch, view>>

\* previous, seen := s.lastLabels[...]; seen && !slices.Equal(...)
Relabelled ==
    /\ lastLabels[point.field][point.gpu] # Unseen
    /\ lastLabels[point.field][point.gpu] # point.labels

\* Request s has the Gauge of this series and has not read its value yet.
Awaits(s, f, l) == view[s][f] # NotRead /\ view[s][f][l] = NotRead

\* A Gauge that leaves its vector is not set again, so a request that awaits its
\* value reads, whenever it does, the value the Gauge has when it leaves.
LeavesVector(f, l) ==
    view' = [s \in Scrapers |->
                IF Awaits(s, f, l) THEN [view[s] EXCEPT ![f][l] = gauges[f][l]]
                ELSE view[s]]

\* The whole vector is reset when a GPU changes labels.
DeletePreviousAll ==
    /\ at = "lookup" /\ points # <<>>
    /\ point.field \in Gauged
    /\ Relabelled
    /\ gauges' = [gauges EXCEPT ![point.field] = [l \in Series |-> Absent]]
    /\ at' = "create"
    /\ UNCHANGED <<lastLabels, points, batch, view>>

\* gauge.DeleteLabelValues(previous...)
DeletePrevious ==
    /\ at = "lookup" /\ points # <<>>
    /\ point.field \in Gauged
    /\ Relabelled
    /\ LET previous == lastLabels[point.field][point.gpu] IN
          /\ gauges' = [gauges EXCEPT ![point.field][previous] = Absent]
          /\ LeavesVector(point.field, previous)
    /\ at' = "create"
    /\ UNCHANGED <<lastLabels, points, batch>>

\* gauge.WithLabelValues(labels...) finds the series or creates it, at zero.
WithLabelValues ==
    /\ points # <<>>
    /\ point.field \in Gauged
    /\ at = "create" \/ (at = "lookup" /\ ~Relabelled)
    /\ gauges' = [gauges EXCEPT ![point.field][point.labels] =
                    IF @ = Absent THEN 0 ELSE @]
    /\ at' = "set"
    /\ UNCHANGED <<lastLabels, points, batch, view>>

\* The labels of a GPU are recorded once and for all.
SetValueKeepsLabels ==
    /\ at = "set"
    /\ gauges' = [gauges EXCEPT ![point.field][point.labels] = point.value]
    /\ lastLabels' = [lastLabels EXCEPT ![point.field][point.gpu] =
                        IF @ = Unseen THEN point.labels ELSE @]
    /\ points' = Tail(points)
    /\ at' = "lookup"
    /\ UNCHANGED <<batch, view>>

\* What is recorded lacks the GPU index.
SetValueKeepsDynamic ==
    /\ at = "set"
    /\ gauges' = [gauges EXCEPT ![point.field][point.labels] = point.value]
    /\ lastLabels' = [lastLabels EXCEPT ![point.field][point.gpu] = point.labels[2]]
    /\ points' = Tail(points)
    /\ at' = "lookup"
    /\ UNCHANGED <<batch, view>>

\* .Set(value), and the bookkeeping no other goroutine sees.
SetValue ==
    /\ at = "set"
    /\ gauges' = [gauges EXCEPT ![point.field][point.labels] = point.value]
    /\ lastLabels' = [lastLabels EXCEPT ![point.field][point.gpu] = point.labels]
    /\ points' = Tail(points)
    /\ at' = "lookup"
    /\ UNCHANGED <<batch, view>>

PublishReturns ==
    /\ at = "lookup" /\ points = <<>>
    /\ at' = "idle"
    /\ UNCHANGED <<gauges, lastLabels, points, batch, view>>

PublishStep ==
    \/ SkipPoint
    \/ DeletePrevious
    \/ WithLabelValues
    \/ SetValue
    \/ PublishReturns

-----------------------------------------------------------------------------
(* The /metrics handler                                                    *)

\* A request comes in.
ScrapeStart(s) ==
    /\ view' = [view EXCEPT ![s] = [f \in Gauged |-> NotRead]]
    /\ UNCHANGED <<gauges, lastLabels, points, at, batch>>

\* The vectors are collected one by one, in any order: under a vector's lock the
\* request is handed the Gauge of each series the vector has at that moment.
ScrapeVector(s, f) ==
    /\ view[s][f] = NotRead
    /\ view' = [view EXCEPT ![s][f] =
                   [l \in Series |-> IF gauges[f][l] = Absent THEN Absent ELSE NotRead]]
    /\ UNCHANGED <<gauges, lastLabels, points, at, batch>>

\* The value of a Gauge is read later, in any order and under no lock.
ReadValue(s, f, l) ==
    /\ Awaits(s, f, l)
    /\ view' = [view EXCEPT ![s][f][l] = gauges[f][l]]
    /\ UNCHANGED <<gauges, lastLabels, points, at, batch>>

ScrapeStep(s) ==
    \/ ScrapeStart(s)
    \/ \E f \in Gauged : ScrapeVector(s, f)
    \/ \E f \in Gauged, l \in Series : ReadValue(s, f, l)

Next ==
    \/ \E ps \in Batches : Publish(ps)
    \/ PublishStep
    \/ \E s \in Scrapers : ScrapeStep(s)

Spec == Init /\ [][Next]_vars

-----------------------------------------------------------------------------
(* Properties                                                              *)

\* Every variable stays in its type.
TypeOK ==
    /\ gauges \in [Gauged -> Vector]
    /\ lastLabels \in [Gauged -> [GPUs -> Series \cup {Unseen}]]
    /\ points \in Seq(Points)
    /\ at \in {"idle", "lookup", "create", "set"}
    /\ batch \in Seq(Points)
    /\ view \in [Scrapers -> [Gauged -> Gathered \cup {NotRead}]]

\* The series a vector shows for GPU g.
Shown(vec, g) == {l \in Series : l[1] = g /\ vec[l] # Absent}

\* Publish is at a point of this metric and GPU.
Handling(f, g) == points # <<>> /\ point.field = f /\ point.gpu = g

\* The bookkeeping is exact at every moment: a metric shows a GPU under the
\* labels lastLabels has for it and under no others; it shows nothing before
\* the GPU's first point, and the old or the new series is missing only while
\* that GPU's own point is being published.  A series that leaked, or that the
\* deletion of another GPU's labels took away, would stay wrong for good.
BookkeepingExact ==
    \A f \in Gauged, g \in GPUs :
        Shown(gauges[f], g) =
            IF Handling(f, g) /\ at = "create" THEN {}
            ELSE IF Handling(f, g) /\ at = "set" THEN {point.labels}
            ELSE {lastLabels[f][g]} \ {Unseen}

\* A scrape at any moment of a publication is unambiguous: no metric shows one
\* GPU under two label sets, so no workload is charged for another's GPU.
ScrapeUnambiguous ==
    \A s \in Scrapers, f \in Gauged : view[s][f] # NotRead =>
        \A g \in GPUs, l1, l2 \in Series :
            {l1, l2} \subseteq Shown(view[s][f], g) => l1 = l2

\* The last point of a batch for its metric and GPU.
LastOf(i) ==
    \A j \in DOMAIN batch :
        j > i => ~(batch[j].field = batch[i].field /\ batch[j].gpu = batch[i].gpu)

\* When Publish returns, every metric and GPU of the batch shows exactly its
\* last point: that point's labels, that point's value, and no other series.
PublishedWhenDone ==
    at = "idle" =>
        \A i \in DOMAIN batch :
            batch[i].field \in Gauged /\ LastOf(i) =>
                /\ Shown(gauges[batch[i].field], batch[i].gpu) = {batch[i].labels}
                /\ gauges[batch[i].field][batch[i].labels] = batch[i].value

\* Publishing one point never touches another metric, nor another GPU of the
\* same metric, whatever labels they share.
OthersUndisturbed ==
    [][\A f \in Gauged, l \in Series :
          gauges'[f][l] # gauges[f][l] => Handling(f, l[1])]_vars

-----------------------------------------------------------------------------
(* The inductive invariant behind the properties above.                    *)

\* Publish works on one point of a registered field at a time, under labels
\* that start with its GPU.
PublishInv ==
    /\ at = "idle" => points = <<>>
    /\ at \in {"create", "set"} => points # <<>> /\ point.field \in Gauged
    /\ \A f \in Gauged, g \in GPUs :
           lastLabels[f][g] # Unseen => lastLabels[f][g][1] = g

\* The points of the batch Publish has dealt with.
Done == 1..(Len(batch) - Len(points))

\* The points left are the end of the batch.
SuffixInv ==
    /\ Len(points) <= Len(batch)
    /\ \A i \in 1..Len(points) : points[i] = batch[Len(batch) - Len(points) + i]

\* A point dealt with and not overtaken is recorded, and shown with its value
\* until a later point of its metric and GPU is handled.
DoneInv ==
    \A i \in Done :
        /\ batch[i].field \in Gauged
        /\ \A j \in Done : j > i =>
               ~(batch[j].field = batch[i].field /\ batch[j].gpu = batch[i].gpu)
        => /\ lastLabels[batch[i].field][batch[i].gpu] = batch[i].labels
           /\ \/ gauges[batch[i].field][batch[i].labels] = batch[i].value
              \/ Handling(batch[i].field, batch[i].gpu) /\ at \in {"create", "set"}

\* A series whose value a request awaits is still in its vector.
AwaitedInv ==
    \A s \in Scrapers, f \in Gauged, l \in Series :
        Awaits(s, f, l) => gauges[f][l] # Absent

IInv ==
    /\ TypeOK
    /\ PublishInv
    /\ BookkeepingExact
    /\ ScrapeUnambiguous
    /\ AwaitedInv
    /\ SuffixInv
    /\ DoneInv

-----------------------------------------------------------------------------
(* The sink implements the series board                                    *)

\* A vector, or what a request has of it, as a row of the board: the one series
\* it shows for each GPU.
Row(vec) ==
    [g \in GPUs |->
        IF Shown(vec, g) = {} THEN Nothing
        ELSE LET l == CHOOSE l \in Shown(vec, g) : TRUE
             IN  [labels |-> l, value |-> IF vec[l] = NotRead THEN Nothing ELSE vec[l]]]

board == [f \in Gauged |-> Row(gauges[f])]

current == IF at \in {"create", "set"} THEN <<point.field, point.gpu>> ELSE Nothing

rows == [s \in Scrapers |-> [f \in Gauged |->
            IF view[s][f] = NotRead THEN Nothing ELSE Row(view[s][f])]]

Board == INSTANCE SeriesBoard WITH
            Metrics <- Gauged, Labels <- Series, Fresh <- 0, view <- rows

\* Publish, with its three separately visible writes per point, and concurrent
\* scrapes implement the board.
ImplementsBoard == Board!Spec
=============================================================================
