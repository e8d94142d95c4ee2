------------------------------ MODULE Collect ------------------------------
(***************************************************************************)
(* The collection use case (internal/usecase/collect/collect.go) with the  *)
(* three ports the exporter wires to it: the workload labeler, the RDC     *)
(* reader (module Reader) and the Prometheus sink (module Sink).           *)
(*                                                                         *)
(* The collection loop of cmd/rdc-exporter/main.go runs one cycle after    *)
(* another: refresh the labels, read the samples, scale and label them,    *)
(* publish the points.  Meanwhile the kubelet reassigns GPUs to workloads, *)
(* becomes unreachable or stops answering and comes back, and a signal may *)
(* cancel the context.  The query of the kubelet has no deadline: one that *)
(* is not answered holds the cycle until it is, or until the signal.       *)
(***************************************************************************)
EXTENDS Naturals, Sequences, FiniteSets, Subsequences

CONSTANTS
    GPUs,
    FieldAt,      \* FieldAt[k]: the field id of slot k of the reader
    Defined,      \* fields with a Definition
    Scale,        \* Scale[f]: Definition.Scale of field f
    Values,       \* raw numeric readings
    NonNumeric, NotFound, Failed, Unread,     \* see Reader
    Owners,       \* what a GPU can be assigned to, as a label tuple
    NoOwner,      \* the empty label tuple
    MaxChanges,   \* bound on kubelet changes, to keep the model finite
    Scrapers, Absent, Unseen, NotRead, Nothing  \* see Sink

NumFields == Len(FieldAt)

\* ApplyScale: a scale that is not positive leaves the reading alone.
ApplyScale(f, raw) == IF Scale[f] > 0 THEN raw * Scale[f] ELSE raw

Published == {ApplyScale(f, raw) : f \in Defined, raw \in Values}
Fields    == {FieldAt[k] : k \in DOMAIN FieldAt}

\* The fields, their scales and what Reader and Sink assume of their constants.
ASSUME CollectAssumption ==
    /\ NoOwner \in Owners
    /\ NumFields \in Nat /\ DOMAIN FieldAt = 1..NumFields
    /\ Defined \subseteq Fields
    /\ \A f \in Defined : Scale[f] \in Nat
    /\ MaxChanges \in Nat

ASSUME ReadsAssumption ==
    /\ IsFiniteSet(GPUs)
    /\ 0 \in Values
    /\ \A a \in {NonNumeric, NotFound, Failed, Unread} : a \notin Values
    /\ Failed \notin {NonNumeric, NotFound, Unread}
    /\ Unread \notin {NonNumeric, NotFound}

ASSUME SeriesAssumption ==
    /\ Absent \notin Published \cup {0}
    /\ Unseen \notin GPUs \X Owners
    /\ NotRead \notin Published \cup {0, Absent}
    /\ NotRead \notin [GPUs \X Owners -> Published \cup {0, Absent, NotRead}]
    /\ Nothing \notin Published \cup {0} \cup (Defined \X GPUs)
    /\ LET slots == [labels : GPUs \X Owners, value : Published \cup {0, Nothing}]
       IN  Nothing \notin slots \cup [GPUs -> slots \cup {Nothing}]

VARIABLES
    \* the kubelet
    assigned,    \* assigned[g]: the workload GPU g is assigned to
    kubelet,     \* the pod resources API: "up" answers, "down" fails,
                 \* "hung" takes the call and does neither
    changes,     \* changes of the two so far
    \* the collection loop
    pc,          \* "sleep", "refresh", "read", "reading", "publish"
                 \* or "stopped"
    labels,      \* labels[g]: Labeler.labels, the attribution last listed
    outcome,     \* how the last finished Collect ended: "none", "ok", "error"
    held,        \* held[g]: owners g had since this cycle began (history)
    \* the reader
    ctx, caller, worker, pos, answer, chan, closed, samples, late,
    \* the sink
    gauges, lastLabels, points, at, batch, view

kubeletVars == <<assigned, kubelet, changes>>
readerVars  == <<caller, worker, pos, answer, chan, closed, samples, late>>
sinkVars    == <<gauges, lastLabels, points, at, batch, view>>
vars == <<kubeletVars, pc, labels, outcome, held, ctx,
          readerVars, sinkVars>>

Reader == INSTANCE Reader

Sink == INSTANCE Sink WITH
            Gauged <- Defined, Dynamic <- Owners, Values <- Published,
            Batches <- {}

-----------------------------------------------------------------------------
(* What Collect does with a sample                                         *)

\* LabelsFor: no attribution yields empty values.
LabelsFor(g) == labels[g]

\* A point that keeps the raw reading.
ToPointUnscaled(r) ==
    [field  |-> FieldAt[r.slot],
     gpu    |-> r.gpu,
     value  |-> r.value,
     labels |-> Sink!LabelValues(r.gpu, LabelsFor(r.gpu))]

\* A point whose labels have the GPU index last.
ToPointMisordered(r) ==
    LET f == FieldAt[r.slot] IN
    [field  |-> f,
     gpu    |-> r.gpu,
     value  |-> ApplyScale(f, r.value),
     labels |-> <<LabelsFor(r.gpu), r.gpu>>]

\* A point labelled with what the kubelet says by now.
ToPointLatest(r) ==
    LET f == FieldAt[r.slot] IN
    [field  |-> f,
     gpu    |-> r.gpu,
     value  |-> ApplyScale(f, r.value),
     labels |-> Sink!LabelValues(r.gpu, assigned[r.gpu])]

\* A raw sample becomes a scaled and labelled point.
ToPoint(r) ==
    LET f == FieldAt[r.slot] IN
    [field  |-> f,
     gpu    |-> r.gpu,
     value  |-> ApplyScale(f, r.value),
     labels |-> Sink!LabelValues(r.gpu, LabelsFor(r.gpu))]

\* Samples without a definition are left out.
PointsOf(ss) ==
    LET kept == ElementsAt(ss, {i \in DOMAIN ss : FieldAt[ss[i].slot] \in Defined})
    IN  [i \in DOMAIN kept |-> ToPoint(kept[i])]

-----------------------------------------------------------------------------
Init ==
    /\ assigned  \in [GPUs -> Owners]
    /\ kubelet   = "up"
    /\ changes   = 0
    /\ pc        = "sleep"
    /\ labels    = [g \in GPUs |-> NoOwner]
    /\ outcome   = "none"
    /\ held      = [g \in GPUs |-> {}]
    /\ Reader!Init
    /\ Sink!Init

(* The environment                                                         *)

\* The kubelet moves a GPU to another workload, or to none.
Reassign(g, o) ==
    /\ changes < MaxChanges
    /\ o # assigned[g]
    /\ assigned' = [assigned EXCEPT ![g] = o]
    /\ held'     = [held EXCEPT ![g] = @ \cup {o}]
    /\ changes'  = changes + 1
    /\ UNCHANGED <<kubelet, pc, labels, outcome, ctx, readerVars, sinkVars>>

\* The pod resources API goes away, stops answering, or comes back.
KubeletFlips ==
    /\ changes < MaxChanges
    /\ kubelet' \in {"up", "down", "hung"} \ {kubelet}
    /\ changes' = changes + 1
    /\ UNCHANGED <<assigned, pc, labels, outcome, held, ctx,
                   readerVars, sinkVars>>

Cancel ==
    /\ Reader!Cancel
    /\ UNCHANGED <<kubeletVars, pc, labels, outcome, held, sinkVars>>

-----------------------------------------------------------------------------
(* The collection loop                                                     *)

\* A loop that does not look at the context.
WakeUnchecked ==
    /\ pc = "sleep"
    /\ pc' = "refresh"
    /\ held' = [g \in GPUs |-> {assigned[g]}]
    /\ UNCHANGED <<kubeletVars, labels, outcome, ctx, readerVars, sinkVars>>

\* time.Sleep is over: a cancelled context ends the loop, or else a new cycle
\* begins.
Wake ==
    /\ pc = "sleep"
    /\ IF ctx = "cancelled"
       THEN pc' = "stopped" /\ UNCHANGED held
       ELSE pc' = "refresh" /\ held' = [g \in GPUs |-> {assigned[g]}]
    /\ UNCHANGED <<kubeletVars, labels, outcome, ctx, readerVars, sinkVars>>

\* A refresh that only adds what the kubelet lists.
RefreshAddsOnly ==
    /\ pc = "refresh"
    /\ kubelet = "up" /\ ctx = "live"
    /\ labels' = [g \in GPUs |-> IF assigned[g] = NoOwner THEN labels[g] ELSE assigned[g]]
    /\ pc'     = "read"
    /\ UNCHANGED <<kubeletVars, outcome, held, ctx, readerVars, sinkVars>>

\* The kubelet lists its pods: the labeler forgets what it had and takes over
\* what the kubelet says now.
Refresh ==
    /\ pc = "refresh"
    /\ kubelet = "up" /\ ctx = "live"
    /\ labels' = assigned
    /\ pc'     = "read"
    /\ UNCHANGED <<kubeletVars, outcome, held, ctx, readerVars, sinkVars>>

\* A failed refresh is logged and the cycle goes on with the labels at hand.
RefreshFailsSoftly ==
    /\ pc = "refresh"
    /\ kubelet = "down" \/ ctx = "cancelled"
    /\ pc'      = "read"
    /\ outcome' = "error"
    /\ UNCHANGED <<kubeletVars, labels, held, ctx, readerVars, sinkVars>>

\* An error of a cycle ends the loop.
RefreshFailsForGood ==
    /\ pc = "refresh"
    /\ kubelet = "down" \/ ctx = "cancelled"
    /\ pc'      = "stopped"
    /\ outcome' = "error"
    /\ UNCHANGED <<kubeletVars, labels, held, ctx, readerVars, sinkVars>>

\* The query fails: Collect returns at once, the labels stay as they were.  A
\* query that is not answered does not fail: the context, which has no deadline,
\* must be cancelled first.
RefreshFails ==
    /\ pc = "refresh"
    /\ kubelet = "down" \/ ctx = "cancelled"
    /\ pc'      = "sleep"
    /\ outcome' = "error"
    /\ UNCHANGED <<kubeletVars, labels, held, ctx, readerVars, sinkVars>>

\* ReadSamples is called; a context cancelled meanwhile makes it return at once.
ReadSamples ==
    /\ pc = "read" /\ caller \in {"idle", "returned"}
    /\ Reader!ReadSamples
    /\ IF caller' = "refused"
       THEN pc' = "sleep" /\ outcome' = "error"
       ELSE pc' = "reading" /\ UNCHANGED outcome
    /\ UNCHANGED <<kubeletVars, labels, held, sinkVars>>

JoinOrDrain ==
    /\ pc = "reading"
    /\ Reader!Join \/ Reader!Drain
    /\ UNCHANGED <<kubeletVars, pc, labels, outcome, held, sinkVars>>

WorkerStep(g) ==
    /\ Reader!WorkerStep(g)
    /\ UNCHANGED <<kubeletVars, pc, labels, outcome, held, sinkVars>>

\* ReadSamples has returned: nothing read is ErrNoSamples, or else the points
\* are built and handed to the sink.
NoSamples ==
    /\ pc = "reading" /\ caller = "returned"
    /\ samples = <<>>
    /\ pc'      = "sleep"
    /\ outcome' = "error"
    /\ UNCHANGED <<kubeletVars, labels, held, ctx, readerVars, sinkVars>>

PublishSamples ==
    /\ pc = "reading" /\ caller = "returned"
    /\ samples # <<>>
    /\ Sink!Publish(PointsOf(samples))
    /\ pc' = "publish"
    /\ UNCHANGED <<kubeletVars, labels, outcome, held, ctx, readerVars>>

PublishStep ==
    /\ pc = "publish"
    /\ Sink!PublishStep
    /\ IF at' = "idle"
       THEN pc' = "sleep" /\ outcome' = "ok"
       ELSE UNCHANGED <<pc, outcome>>
    /\ UNCHANGED <<kubeletVars, labels, held, ctx, readerVars>>

LoopStep ==
    \/ Wake
    \/ Refresh
    \/ RefreshFails
    \/ ReadSamples
    \/ JoinOrDrain
    \/ NoSamples
    \/ PublishSamples
    \/ PublishStep

Stopped == pc = "stopped" /\ UNCHANGED vars

Next ==
    \/ LoopStep
    \/ \E g \in GPUs : WorkerStep(g)
    \/ \E g \in GPUs, o \in Owners : Reassign(g, o)
    \/ KubeletFlips
    \/ Cancel
    \/ Stopped

\* The loop and the goroutines it starts are scheduled, and RDC reads return.
\* Nothing makes the environment act: in "refresh", the kubelet must answer, fail,
\* or the context be cancelled, before the loop has a step it can take.
Fairness ==
    /\ WF_vars(LoopStep)
    /\ \A g \in GPUs : WF_vars(WorkerStep(g))

Spec == Init /\ [][Next]_vars /\ Fairness

-----------------------------------------------------------------------------
(* Properties                                                              *)

\* Every variable stays in its type.
TypeOK ==
    /\ assigned \in [GPUs -> Owners]
    /\ kubelet \in {"up", "down", "hung"}
    /\ changes \in 0..MaxChanges
    /\ pc \in {"sleep", "refresh", "read", "reading", "publish", "stopped"}
    /\ labels \in [GPUs -> Owners]
    /\ outcome \in {"none", "ok", "error"}
    /\ held \in [GPUs -> SUBSET Owners]
    /\ Reader!TypeOK
    /\ Sink!TypeOK

\* Attribution is never older than the cycle that publishes it: a GPU that lost
\* its workload before the cycle began is not published under it again, even if
\* the kubelet cannot be reached (the cycle is then given up as a whole).
LabelsFromThisCycle ==
    pc = "publish" =>
        \A i \in DOMAIN batch : batch[i].labels[2] \in held[batch[i].gpu]

\* The last slot of its field that RDC answered for g.
LastAnswered(g, k) ==
    /\ answer[g][k] \notin {Failed, Unread}
    /\ \A j \in DOMAIN FieldAt :
          j > k /\ FieldAt[j] = FieldAt[k] => answer[g][j] \in {Failed, Unread}

\* What RDC answered in a successful cycle is what /metrics shows after it: for
\* every defined field and every GPU, one series, under the labels listed in
\* this cycle, with the scaled reading.
CycleEndToEnd ==
    pc = "sleep" /\ outcome = "ok" =>
        \A g \in GPUs, k \in DOMAIN FieldAt :
            FieldAt[k] \in Defined /\ LastAnswered(g, k) =>
                LET f == FieldAt[k]
                    l == Sink!LabelValues(g, labels[g])
                IN  /\ Sink!Shown(gauges[f], g) = {l}
                    /\ gauges[f][l] = ApplyScale(f, Reader!FloatValue(answer[g][k]))

\* Once the kubelet settles and answers, and RDC keeps answering for a GPU, its
\* series settle under its owner: no attribution stays stale for ever.
AttributionSettles ==
    [](ctx = "live") =>
        \A g \in GPUs, k \in DOMAIN FieldAt :
            FieldAt[k] \in Defined /\ <>[](kubelet = "up")
              /\ []<>(answer[g][k] \notin {Failed, Unread}) =>
                  <>[](Sink!Shown(gauges[FieldAt[k]], g) =
                          {Sink!LabelValues(g, assigned[g])})

\* Until a signal comes cycle follows cycle, however many of them fail (main.go:171):
\* a kubelet or RDC that fails is never the end of the loop.  One that does not
\* return from a call is, which is why the kubelet must not be hung for good; that
\* RDC's reads return is in Fairness.
LoopGoesOn ==
    [](ctx = "live") /\ <>[](kubelet # "hung") => []<><<Wake>>_vars

\* The loop implements the attributed board: whatever fails, and whenever the
\* kubelet moves a GPU, nothing on /metrics changes outside a cycle whose refresh
\* succeeded, every value written there is under the owner listed in that cycle,
\* and no series is missing when it is over.
Attributed == INSTANCE Attribution WITH
                 Metrics <- Defined, Values <- Published, Fresh <- 0,
                 phase   <- IF pc \in {"read", "reading", "publish"} THEN "cycle"
                            ELSE "between",
                 listed  <- labels,
                 board   <- Sink!board, current <- Sink!current, view <- Sink!rows

ImplementsAttribution == Attributed!Spec

\* A cancelled context ends the loop whatever the cycle is doing.
CancelStopsLoop == ctx = "cancelled" ~> pc = "stopped"
=============================================================================
