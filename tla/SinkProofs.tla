----------------------------- MODULE SinkProofs -----------------------------
(* Proofs about Sink for any fields, GPUs, labels, values, batches and     *)
(* scrapers.                                                               *)
EXTENDS Sink, TLAPS, SequenceTheorems

-----------------------------------------------------------------------------
(* Facts about points and vectors                                          *)

LEMMA PointType ==
    ASSUME NEW q \in Points
    PROVE  /\ q.field \in Fields /\ q.gpu \in GPUs /\ q.value \in Values
           /\ q.labels \in Series
           /\ q.labels[1] = q.gpu
  BY DEF Points, LabelValues

LEMMA HeadPoint ==
    ASSUME TypeOK, points # <<>>
    PROVE  /\ point \in Points
           /\ Tail(points) \in Seq(Points)
           /\ point = points[1]
           /\ Len(points) \in Nat \ {0}
           /\ Len(Tail(points)) = Len(points) - 1
           /\ \A i \in 1..Len(Tail(points)) : Tail(points)[i] = points[i + 1]
  <1>1. points \in Seq(Points)
    BY DEF TypeOK
  <1>2. QED
    BY <1>1, HeadTailProperties, EmptySeq DEF point

\* One series of a vector, and one series of all vectors, gets value v.
Updated(vec, l, v) == [vec EXCEPT ![l] = v]
Written(f, l, v)   == gauges' = [gauges EXCEPT ![f][l] = v]

\* Setting a series shows it, and changes what is shown for its GPU only.
LEMMA ShownSet ==
    ASSUME NEW vec \in Vector, NEW l \in Series, NEW v \in GaugeValues,
           v # Absent, NEW g
    PROVE  \A k : k \in Shown(Updated(vec, l, v), g) <=>
                      k \in Shown(vec, g) \/ (k = l /\ l[1] = g)
  BY DEF Shown, Vector, Updated

\* Deleting a series hides it, and changes what is shown for its GPU only.
LEMMA ShownDeleted ==
    ASSUME NEW vec \in Vector, NEW l \in Series, NEW g
    PROVE  \A k : k \in Shown(Updated(vec, l, Absent), g) <=>
                      k \in Shown(vec, g) /\ k # l
  BY DEF Shown, Vector, Updated

\* A write to one series of one vector leaves every other vector alone.
LEMMA GaugesWritten ==
    ASSUME gauges \in [Gauged -> Vector],
           NEW f \in Gauged, NEW l \in Series, NEW v \in GaugeValues,
           Written(f, l, v)
    PROVE  /\ gauges' \in [Gauged -> Vector]
           /\ gauges'[f] = Updated(gauges[f], l, v)
           /\ \A h \in Gauged : h # f => gauges'[h] = gauges[h]
           /\ gauges'[f][l] = v
           /\ \A k \in Series : k # l => gauges'[f][k] = gauges[f][k]
  BY DEF Vector, Updated, Written

\* A metric shows a GPU under one label set at most, at any moment.
LEMMA ShownOnce ==
    ASSUME BookkeepingExact, NEW f \in Gauged, NEW g \in GPUs,
           NEW l1 \in Shown(gauges[f], g), NEW l2 \in Shown(gauges[f], g)
    PROVE  l1 = l2
  <1>1. Shown(gauges[f], g) =
            IF Handling(f, g) /\ at = "create" THEN {}
            ELSE IF Handling(f, g) /\ at = "set" THEN {point.labels}
            ELSE {lastLabels[f][g]} \ {Unseen}
    BY DEF BookkeepingExact
  <1>2. \/ Shown(gauges[f], g) = {}
        \/ Shown(gauges[f], g) = {point.labels}
        \/ Shown(gauges[f], g) = {lastLabels[f][g]} \ {Unseen}
    BY <1>1
  <1>3. QED
    BY <1>2

-----------------------------------------------------------------------------
(* The inductive invariant                                                 *)

LEMMA InitIInv == Init => IInv
  <1> SUFFICES ASSUME Init PROVE IInv
    OBVIOUS
  <1>1. TypeOK
    <2>1. gauges \in [Gauged -> Vector]
      BY DEF Init, Vector, GaugeValues
    <2>2. points \in Seq(Points) /\ batch \in Seq(Points)
      BY DEF Init
    <2>3. QED
      BY <2>1, <2>2 DEF Init, TypeOK
  <1>2. PublishInv
    BY DEF Init, PublishInv
  <1>3. BookkeepingExact
    BY DEF Init, BookkeepingExact, Shown
  <1>4. ScrapeUnambiguous /\ AwaitedInv
    BY DEF Init, ScrapeUnambiguous, AwaitedInv, Awaits
  <1>5. SuffixInv /\ DoneInv
    BY DEF Init, SuffixInv, DoneInv, Done
  <1>6. QED
    BY <1>1, <1>2, <1>3, <1>4, <1>5 DEF IInv

\* What a scrape has gathered stays unambiguous when it does not come to have
\* more series.
LEMMA ViewsShrink ==
    ASSUME ScrapeUnambiguous,
           \A s \in Scrapers, f \in Gauged : view'[s][f] # NotRead =>
               /\ view[s][f] # NotRead
               /\ \A l \in Series : view'[s][f][l] # Absent => view[s][f][l] # Absent
    PROVE  ScrapeUnambiguous'
  <1> SUFFICES ASSUME NEW s \in Scrapers, NEW f \in Gauged, view'[s][f] # NotRead,
                      NEW g \in GPUs, NEW l1 \in Series, NEW l2 \in Series,
                      {l1, l2} \subseteq Shown(view'[s][f], g)
               PROVE  l1 = l2
    BY DEF ScrapeUnambiguous
  <1>1. {l1, l2} \subseteq Shown(view[s][f], g)
    BY DEF Shown
  <1>2. QED
    BY <1>1 DEF ScrapeUnambiguous

\* While Publish takes no series away the scrapes under way stay as they are.
LEMMA ViewsKept ==
    ASSUME ScrapeUnambiguous, AwaitedInv, view' = view,
           \A f \in Gauged, l \in Series :
               gauges[f][l] # Absent => gauges'[f][l] # Absent
    PROVE  ScrapeUnambiguous' /\ AwaitedInv'
  BY DEF ScrapeUnambiguous, AwaitedInv, Awaits

\* Reading one value.
LEMMA ValueRead ==
    ASSUME IInv, NEW s \in Scrapers, NEW f \in Gauged, NEW l \in Series,
           ReadValue(s, f, l)
    PROVE  /\ view[s][f] \in Gathered /\ view[s][f][l] = NotRead
           /\ gauges[f][l] \in GaugeValues /\ gauges[f][l] # Absent
           /\ view'[s][f] = [view[s][f] EXCEPT ![l] = gauges[f][l]]
           /\ view' = [view EXCEPT ![s][f] = view'[s][f]]
           /\ \A t \in Scrapers, h \in Gauged :
                 ~(t = s /\ h = f) => view'[t][h] = view[t][h]
           /\ view' \in [Scrapers -> [Gauged -> Gathered \cup {NotRead}]]
  <1>1. /\ view \in [Scrapers -> [Gauged -> Gathered \cup {NotRead}]]
        /\ gauges[f][l] \in GaugeValues
    BY DEF IInv, TypeOK, Vector
  <1>2. /\ Awaits(s, f, l)
        /\ view' = [view EXCEPT ![s][f][l] = gauges[f][l]]
    BY DEF ReadValue
  <1>3. view[s][f] \in Gathered /\ view[s][f][l] = NotRead
    BY <1>1, <1>2 DEF Awaits
  <1>4. gauges[f][l] # Absent
    BY <1>2 DEF IInv, AwaitedInv
  <1> DEFINE new == [view[s][f] EXCEPT ![l] = gauges[f][l]]
  <1>5. new \in Gathered
    BY <1>1, <1>3 DEF Gathered
  <1>6. view' = [view EXCEPT ![s][f] = new]
    BY <1>2
  <1> HIDE DEF new
  <1> DEFINE G == Gathered \cup {NotRead}
  <1>7. new \in G /\ view \in [Scrapers -> [Gauged -> G]]
    BY <1>1, <1>5
  <1> HIDE DEF G
  <1>8. /\ view' \in [Scrapers -> [Gauged -> G]]
        /\ view'[s][f] = new
        /\ \A t \in Scrapers, h \in Gauged :
              ~(t = s /\ h = f) => view'[t][h] = view[t][h]
    BY <1>6, <1>7
  <1>9. QED
    BY <1>1, <1>3, <1>4, <1>6, <1>8 DEF new, G

\* A scrape comes to a vector.
LEMMA VectorScraped ==
    ASSUME IInv, NEW s \in Scrapers, NEW f \in Gauged, ScrapeVector(s, f)
    PROVE  /\ view'[s][f] \in Gathered
           /\ \A l \in Series :
                 view'[s][f][l] = IF gauges[f][l] = Absent THEN Absent ELSE NotRead
           /\ view' = [view EXCEPT ![s][f] = view'[s][f]]
           /\ \A t \in Scrapers, h \in Gauged :
                 ~(t = s /\ h = f) => view'[t][h] = view[t][h]
           /\ view' \in [Scrapers -> [Gauged -> Gathered \cup {NotRead}]]
  <1> DEFINE new == [l \in Series |-> IF gauges[f][l] = Absent THEN Absent ELSE NotRead]
             G == Gathered \cup {NotRead}
  <1>1. new \in Gathered /\ new \in G
    BY DEF Gathered, GaugeValues
  <1>2. \A l \in Series : new[l] = IF gauges[f][l] = Absent THEN Absent ELSE NotRead
    OBVIOUS
  <1>3. /\ view \in [Scrapers -> [Gauged -> G]]
        /\ view' = [view EXCEPT ![s][f] = new]
    BY DEF ScrapeVector, IInv, TypeOK
  <1> HIDE DEF new, G
  <1>4. /\ view' \in [Scrapers -> [Gauged -> G]]
        /\ view'[s][f] = new
        /\ \A t \in Scrapers, h \in Gauged :
              ~(t = s /\ h = f) => view'[t][h] = view[t][h]
    BY <1>1, <1>3
  <1>5. QED
    BY <1>1, <1>2, <1>3, <1>4 DEF G

\* Scrapes only read.
LEMMA ScrapeKeeps ==
    ASSUME IInv, NEW s \in Scrapers, ScrapeStep(s)
    PROVE  IInv'
  <1>1. UNCHANGED <<gauges, lastLabels, points, at, batch>>
    BY DEF ScrapeStep, ScrapeStart, ScrapeVector, ReadValue
  <1>2. PublishInv' /\ BookkeepingExact' /\ SuffixInv' /\ DoneInv'
    <2>1. PublishInv' /\ SuffixInv'
      BY <1>1 DEF IInv, PublishInv, SuffixInv, point
    <2>2. BookkeepingExact'
      BY <1>1 DEF IInv, BookkeepingExact, Handling, point
    <2>3. DoneInv'
      BY <1>1 DEF IInv, DoneInv, Done, Handling, point
    <2>4. QED
      BY <2>1, <2>2, <2>3
  <1>3. ASSUME view' \in [Scrapers -> [Gauged -> Gathered \cup {NotRead}]]
        PROVE  TypeOK'
    BY <1>1, <1>3 DEF IInv, TypeOK
  <1>4. CASE ScrapeStart(s)
    <2>1. view' \in [Scrapers -> [Gauged -> Gathered \cup {NotRead}]]
      BY <1>4 DEF IInv, TypeOK, ScrapeStart
    <2>2. \A t \in Scrapers, f \in Gauged :
              view'[t][f] = view[t][f] \/ view'[t][f] = NotRead
      BY <1>4 DEF IInv, TypeOK, ScrapeStart
    <2>3. ScrapeUnambiguous'
      BY <2>2, ViewsShrink DEF IInv
    <2>4. AwaitedInv'
      BY <1>1, <2>2 DEF IInv, AwaitedInv, Awaits
    <2>5. QED
      BY <1>2, <1>3, <2>1, <2>3, <2>4 DEF IInv
  <1>5. ASSUME NEW f \in Gauged, ScrapeVector(s, f) PROVE IInv'
    <2>1. /\ \A l \in Series :
                view'[s][f][l] = IF gauges[f][l] = Absent THEN Absent ELSE NotRead
          /\ \A t \in Scrapers, h \in Gauged :
                ~(t = s /\ h = f) => view'[t][h] = view[t][h]
          /\ view' \in [Scrapers -> [Gauged -> Gathered \cup {NotRead}]]
      BY <1>5, VectorScraped
    <2>2. NotRead # Absent
      BY SinkAssumption DEF GaugeValues
    <2>3. ScrapeUnambiguous'
      <3> SUFFICES ASSUME NEW t \in Scrapers, NEW h \in Gauged, view'[t][h] # NotRead,
                          NEW g \in GPUs, NEW l1 \in Series, NEW l2 \in Series,
                          {l1, l2} \subseteq Shown(view'[t][h], g)
                   PROVE  l1 = l2
        BY DEF ScrapeUnambiguous
      <3>1. CASE t = s /\ h = f
        <4>1. {l1, l2} \subseteq Shown(gauges[f], g)
          BY <2>1, <3>1 DEF Shown
        <4>2. QED
          BY <4>1, ShownOnce DEF IInv
      <3>2. CASE ~(t = s /\ h = f)
        BY <2>1, <3>2 DEF IInv, ScrapeUnambiguous
      <3>3. QED
        BY <3>1, <3>2
    <2>4. AwaitedInv'
      <3> SUFFICES ASSUME NEW t \in Scrapers, NEW h \in Gauged, NEW l \in Series,
                          Awaits(t, h, l)'
                   PROVE  gauges[h][l] # Absent
        BY <1>1 DEF AwaitedInv
      <3>1. CASE t = s /\ h = f
        BY <2>1, <2>2, <3>1 DEF Awaits
      <3>2. CASE ~(t = s /\ h = f)
        BY <2>1, <3>2 DEF IInv, AwaitedInv, Awaits
      <3>3. QED
        BY <3>1, <3>2
    <2>5. QED
      BY <1>2, <1>3, <2>1, <2>3, <2>4 DEF IInv
  <1>6. ASSUME NEW f \in Gauged, NEW l \in Series, ReadValue(s, f, l) PROVE IInv'
    <2>1. /\ view[s][f] \in Gathered /\ view[s][f][l] = NotRead
          /\ gauges[f][l] \in GaugeValues
          /\ view'[s][f] = [view[s][f] EXCEPT ![l] = gauges[f][l]]
          /\ \A t \in Scrapers, h \in Gauged :
                ~(t = s /\ h = f) => view'[t][h] = view[t][h]
          /\ view' \in [Scrapers -> [Gauged -> Gathered \cup {NotRead}]]
      BY <1>6, ValueRead
    <2>2. view[s][f] # NotRead /\ NotRead # Absent /\ gauges[f][l] # NotRead
      BY <2>1, SinkAssumption DEF GaugeValues
    <2>3. \A k \in Series : view'[s][f][k] = IF k = l THEN gauges[f][l] ELSE view[s][f][k]
      BY <2>1 DEF Gathered
    <2>4. ScrapeUnambiguous'
      BY <2>1, <2>2, <2>3, ViewsShrink DEF IInv
    <2>5. AwaitedInv'
      <3> SUFFICES ASSUME NEW t \in Scrapers, NEW h \in Gauged, NEW k \in Series,
                          Awaits(t, h, k)'
                   PROVE  gauges[h][k] # Absent
        BY <1>1 DEF AwaitedInv
      <3>1. Awaits(t, h, k)
        BY <2>1, <2>2, <2>3 DEF Awaits
      <3>2. QED
        BY <3>1 DEF IInv, AwaitedInv
    <2>6. QED
      BY <1>2, <1>3, <2>1, <2>4, <2>5 DEF IInv
  <1>7. QED
    BY <1>4, <1>5, <1>6 DEF ScrapeStep

LEMMA PublishCallStep ==
    ASSUME IInv, NEW ps \in Seq(Points), Publish(ps)
    PROVE  IInv'
  <1>1. /\ points' = ps /\ batch' = ps /\ at = "idle" /\ at' = "lookup"
        /\ UNCHANGED <<gauges, lastLabels, view>>
    BY DEF Publish
  <1>2. Len(ps) \in Nat
    BY <1>1, LenProperties
  <1>3. TypeOK' /\ PublishInv'
    BY <1>1 DEF IInv, TypeOK, PublishInv
  <1>4. BookkeepingExact'
    BY <1>1 DEF IInv, BookkeepingExact, Handling, PublishInv
  <1>5. SuffixInv' /\ DoneInv'
    BY <1>1, <1>2 DEF SuffixInv, DoneInv, Done
  <1>6. QED
    BY <1>1, <1>3, <1>4, <1>5, ViewsKept DEF IInv

LEMMA PublishReturnsStep == IInv /\ PublishReturns => IInv'
  <1> SUFFICES ASSUME IInv, PublishReturns PROVE IInv'
    OBVIOUS
  <1> USE DEF IInv, PublishReturns
  <1>1. TypeOK' /\ PublishInv'
    BY DEF TypeOK, PublishInv
  <1>2. BookkeepingExact'
    BY DEF BookkeepingExact, Handling
  <1>3. SuffixInv' /\ DoneInv'
    BY DEF SuffixInv, DoneInv, Done, Handling
  <1>4. QED
    BY <1>1, <1>2, <1>3, ViewsKept

\* One more point is dealt with: the suffix left is still a suffix.
LEMMA SuffixShrinks ==
    ASSUME TypeOK, SuffixInv, points # <<>>,
           points' = Tail(points), batch' = batch
    PROVE  /\ SuffixInv'
           /\ Len(points') = Len(points) - 1
           /\ Done' = Done \cup {Len(batch) - Len(points) + 1}
           /\ Len(batch) - Len(points) + 1 \notin Done
           /\ batch[Len(batch) - Len(points) + 1] = point
  <1>1. Len(batch) \in Nat
    BY LenProperties DEF TypeOK
  <1>2. /\ Len(points) \in Nat \ {0}
        /\ Len(points') = Len(points) - 1
        /\ \A i \in 1..Len(points') : points'[i] = points[i + 1]
        /\ point = points[1]
    BY HeadPoint
  <1>3. SuffixInv'
    <2>1. Len(points') <= Len(batch')
      BY <1>1, <1>2 DEF SuffixInv
    <2>2. ASSUME NEW i \in 1..Len(points')
          PROVE  points'[i] = batch'[Len(batch') - Len(points') + i]
      <3>1. i + 1 \in 1..Len(points)
        BY <1>2
      <3>2. points[i + 1] = batch[Len(batch) - Len(points) + (i + 1)]
        BY <3>1 DEF SuffixInv
      <3>3. Len(batch) - Len(points) + (i + 1) = Len(batch') - Len(points') + i
        BY <1>1, <1>2
      <3>4. QED
        BY <1>2, <3>2, <3>3
    <2>3. QED
      BY <2>1, <2>2 DEF SuffixInv
  <1>4. Len(batch) - Len(points) \in Nat
    BY <1>1, <1>2 DEF SuffixInv
  <1>5. Done' = Done \cup {Len(batch) - Len(points) + 1}
    BY <1>1, <1>2, <1>4 DEF Done
  <1>6. Len(batch) - Len(points) + 1 \notin Done
    BY <1>4 DEF Done
  <1>7. batch[Len(batch) - Len(points) + 1] = point
    BY <1>2 DEF SuffixInv
  <1>8. QED
    BY <1>2, <1>3, <1>5, <1>6, <1>7

LEMMA SkipPointStep == IInv /\ SkipPoint => IInv'
  <1> SUFFICES ASSUME IInv, SkipPoint PROVE IInv'
    OBVIOUS
  <1>1. /\ at = "lookup" /\ at' = "lookup" /\ points # <<>>
        /\ point.field \notin Gauged
        /\ points' = Tail(points)
        /\ UNCHANGED <<gauges, lastLabels, batch, view>>
    BY DEF SkipPoint
  <1>2. TypeOK' /\ PublishInv'
    BY <1>1, HeadPoint DEF IInv, TypeOK, PublishInv
  <1>3. BookkeepingExact'
    BY <1>1 DEF IInv, BookkeepingExact
  <1>4. SuffixInv'
    BY <1>1, SuffixShrinks DEF IInv
  <1>5. DoneInv'
    <2> SUFFICES ASSUME NEW i \in Done', batch[i].field \in Gauged,
                        \A j \in Done' : j > i =>
                            ~(batch[j].field = batch[i].field
                                /\ batch[j].gpu = batch[i].gpu)
                 PROVE  /\ lastLabels[batch[i].field][batch[i].gpu] = batch[i].labels
                        /\ gauges[batch[i].field][batch[i].labels] = batch[i].value
      BY <1>1 DEF DoneInv
    <2>1. i \in Done
      BY <1>1, SuffixShrinks DEF IInv
    <2>2. Done \subseteq Done'
      BY <1>1, SuffixShrinks DEF IInv
    <2>3. QED
      BY <1>1, <2>1, <2>2 DEF IInv, DoneInv
  <1>6. QED
    BY <1>1, <1>2, <1>3, <1>4, <1>5, ViewsKept DEF IInv

\* A series leaves its vector: those that await its value have it now.
LEMMA SeriesLeaves ==
    ASSUME IInv, NEW f \in Gauged, NEW l \in Series,
           Written(f, l, Absent), LeavesVector(f, l)
    PROVE  /\ view' \in [Scrapers -> [Gauged -> Gathered \cup {NotRead}]]
           /\ ScrapeUnambiguous'
           /\ AwaitedInv'
           /\ \A s \in Scrapers : ~Awaits(s, f, l) => view'[s] = view[s]
           /\ \A s \in Scrapers : Awaits(s, f, l) =>
                 view'[s] = [view[s] EXCEPT
                               ![f] = [view[s][f] EXCEPT ![l] = gauges[f][l]]]
  <1> DEFINE G == Gathered \cup {NotRead}
             filled(s) == [view[s][f] EXCEPT ![l] = gauges[f][l]]
  <1>1. /\ view \in [Scrapers -> [Gauged -> G]]
        /\ gauges \in [Gauged -> Vector] /\ gauges[f][l] \in GaugeValues
        /\ \A h \in Gauged, k \in Series :
              ~(h = f /\ k = l) => gauges'[h][k] = gauges[h][k]
    <2>1. gauges \in [Gauged -> Vector] /\ Absent \in GaugeValues
      BY DEF IInv, TypeOK, GaugeValues
    <2>2. /\ \A h \in Gauged : h # f => gauges'[h] = gauges[h]
          /\ \A k \in Series : k # l => gauges'[f][k] = gauges[f][k]
      BY <2>1, GaugesWritten
    <2>3. QED
      BY <2>1, <2>2 DEF IInv, TypeOK, Vector
  <1>2. NotRead # Absent /\ gauges[f][l] # NotRead
    BY <1>1, SinkAssumption DEF GaugeValues
  <1>3. ASSUME NEW s \in Scrapers, Awaits(s, f, l)
        PROVE  /\ view'[s] = [view[s] EXCEPT ![f] = filled(s)]
               /\ view'[s] \in [Gauged -> G]
               /\ view[s][f] \in Gathered
               /\ \A k \in Series :
                     view'[s][f][k] = IF k = l THEN gauges[f][l] ELSE view[s][f][k]
               /\ \A h \in Gauged : h # f => view'[s][h] = view[s][h]
    <2>1. view[s] \in [Gauged -> G] /\ view[s][f] \in Gathered
      BY <1>1, <1>3 DEF Awaits
    <2>2. filled(s) \in Gathered
      BY <1>1, <2>1 DEF Gathered
    <2>3. view'[s] = [view[s] EXCEPT ![f] = filled(s)]
      BY <1>3 DEF LeavesVector
    <2>4. \A k \in Series : filled(s)[k] = IF k = l THEN gauges[f][l] ELSE view[s][f][k]
      BY <2>1 DEF Gathered
    <2> HIDE DEF filled
    <2>5. filled(s) \in G
      BY <2>2
    <2> HIDE DEF G
    <2>6. /\ view'[s] \in [Gauged -> G] /\ view'[s][f] = filled(s)
          /\ \A h \in Gauged : h # f => view'[s][h] = view[s][h]
      BY <2>1, <2>3, <2>5
    <2>7. QED
      BY <2>1, <2>3, <2>4, <2>6
  <1>4. \A s \in Scrapers : ~Awaits(s, f, l) => view'[s] = view[s]
    BY DEF LeavesVector
  <1>5. view' \in [Scrapers -> [Gauged -> G]]
    <2>1. \A s \in Scrapers : view'[s] \in [Gauged -> G]
      BY <1>1, <1>3, <1>4
    <2>2. view' = [s \in Scrapers |-> view'[s]]
      BY DEF LeavesVector
    <2> HIDE DEF G
    <2>3. QED
      BY <2>1, <2>2
  <1> HIDE DEF G, filled
  <1>6. ScrapeUnambiguous'
    <2>1. ASSUME NEW s \in Scrapers, NEW h \in Gauged, view'[s][h] # NotRead
          PROVE  /\ view[s][h] # NotRead
                 /\ \A k \in Series : view'[s][h][k] # Absent => view[s][h][k] # Absent
      <3>1. CASE Awaits(s, f, l) /\ h = f
        BY <3>1, <1>2, <1>3 DEF Awaits
      <3>2. CASE ~(Awaits(s, f, l) /\ h = f)
        BY <3>2, <2>1, <1>3, <1>4
      <3>3. QED
        BY <3>1, <3>2
    <2>2. QED
      BY <2>1, ViewsShrink DEF IInv
  <1>7. AwaitedInv'
    <2> SUFFICES ASSUME NEW s \in Scrapers, NEW h \in Gauged, NEW k \in Series,
                        Awaits(s, h, k)'
                 PROVE  gauges'[h][k] # Absent
      BY DEF AwaitedInv
    <2>1. Awaits(s, h, k) /\ ~(h = f /\ k = l)
      <3>1. CASE Awaits(s, f, l) /\ h = f
        BY <3>1, <1>2, <1>3 DEF Awaits
      <3>2. CASE Awaits(s, f, l) /\ h # f
        BY <3>2, <1>3 DEF Awaits
      <3>3. CASE ~Awaits(s, f, l)
        BY <3>3, <1>4 DEF Awaits
      <3>4. QED
        BY <3>1, <3>2, <3>3
    <2>2. QED
      BY <2>1, <1>1 DEF IInv, AwaitedInv
  <1>8. QED
    BY <1>3, <1>4, <1>5, <1>6, <1>7 DEF G, filled

LEMMA DeletePreviousStep == IInv /\ DeletePrevious => IInv'
  <1> SUFFICES ASSUME IInv, DeletePrevious PROVE IInv'
    OBVIOUS
  <1> DEFINE f == point.field
             g == point.gpu
             l == lastLabels[f][g]
  <1>1. /\ at = "lookup" /\ at' = "create" /\ points # <<>>
        /\ f \in Gauged /\ l # Unseen /\ l # point.labels
        /\ Written(f, l, Absent) /\ LeavesVector(f, l)
        /\ UNCHANGED <<lastLabels, points, batch>>
        /\ point' = point
    BY DEF DeletePrevious, Relabelled, point, Written
  <1>2. /\ point \in Points /\ g \in GPUs
        /\ gauges \in [Gauged -> Vector] /\ l \in Series /\ l[1] = g
        /\ point.labels \in Series /\ point.labels[1] = g
    BY <1>1, HeadPoint, PointType DEF IInv, TypeOK, PublishInv
  <1>3. Absent \in GaugeValues
    BY DEF GaugeValues
  <1> HIDE DEF f, g, l
  <1>4. /\ gauges' \in [Gauged -> Vector]
        /\ gauges'[f] = Updated(gauges[f], l, Absent)
        /\ \A h \in Gauged : h # f => gauges'[h] = gauges[h]
        /\ \A k \in Series : k # l => gauges'[f][k] = gauges[f][k]
    BY <1>1, <1>2, <1>3, GaugesWritten
  <1>5. TypeOK' /\ PublishInv' /\ SuffixInv' /\ ScrapeUnambiguous' /\ AwaitedInv'
    <2>1. /\ view' \in [Scrapers -> [Gauged -> Gathered \cup {NotRead}]]
          /\ ScrapeUnambiguous' /\ AwaitedInv'
      BY <1>1, <1>2, SeriesLeaves
    <2>2. QED
      BY <1>1, <1>4, <2>1 DEF IInv, TypeOK, PublishInv, SuffixInv, f
  <1>6. BookkeepingExact'
    <2> SUFFICES ASSUME NEW h \in Gauged, NEW k \in GPUs
                 PROVE  Shown(gauges'[h], k) =
                            IF Handling(h, k)' /\ at' = "create" THEN {}
                            ELSE IF Handling(h, k)' /\ at' = "set" THEN {point'.labels}
                            ELSE {lastLabels'[h][k]} \ {Unseen}
      BY DEF BookkeepingExact
    <2>1. Handling(h, k)' <=> Handling(h, k)
      BY <1>1 DEF Handling
    <2>2. Handling(h, k) <=> h = f /\ k = g
      BY <1>1 DEF Handling, f, g
    <2>3. Shown(gauges[h], k) = {lastLabels[h][k]} \ {Unseen}
      BY <1>1 DEF IInv, BookkeepingExact
    <2>4. CASE h = f /\ k = g
      <3>1. Shown(gauges[f], g) = {l}
        BY <2>3, <2>4, <1>1 DEF l
      <3>2. Shown(gauges'[f], g) = {l} \ {l}
        <4>1. gauges[f] \in Vector
          BY <1>1, <1>2
        <4>2. Shown(gauges'[f], g) = Shown(gauges[f], g) \ {l}
          BY <4>1, <1>2, <1>4, ShownDeleted
        <4>3. QED
          BY <3>1, <4>2
      <3>3. QED
        BY <3>2, <2>1, <2>2, <2>4, <1>1
    <2>5. CASE h = f /\ k # g
      <3>1. gauges[f] \in Vector /\ l \notin Shown(gauges[f], k)
        BY <2>5, <1>1, <1>2 DEF Shown
      <3>2. Shown(gauges'[f], k) = Shown(gauges[f], k)
        BY <3>1, <1>2, <1>4, ShownDeleted
      <3>3. QED
        BY <3>2, <2>1, <2>2, <2>3, <2>5, <1>1
    <2>6. CASE h # f
      BY <2>6, <2>1, <2>2, <2>3, <1>1, <1>4
    <2>7. QED
      BY <2>4, <2>5, <2>6
  <1>7. DoneInv'
    <2> SUFFICES ASSUME NEW i \in Done, batch[i].field \in Gauged,
                        \A j \in Done : j > i =>
                            ~(batch[j].field = batch[i].field
                                /\ batch[j].gpu = batch[i].gpu)
                 PROVE  /\ lastLabels[batch[i].field][batch[i].gpu] = batch[i].labels
                        /\ \/ gauges'[batch[i].field][batch[i].labels] = batch[i].value
                           \/ Handling(batch[i].field, batch[i].gpu)
      BY <1>1 DEF DoneInv, Done, Handling
    <2>1. /\ lastLabels[batch[i].field][batch[i].gpu] = batch[i].labels
          /\ gauges[batch[i].field][batch[i].labels] = batch[i].value
      BY <1>1 DEF IInv, DoneInv
    <2>2. batch[i] \in Points
      BY LenProperties, ElementOfSeq DEF IInv, TypeOK, Done, SuffixInv
    <2>3. CASE batch[i].field = f /\ batch[i].gpu = g
      BY <2>1, <2>3, <1>1 DEF Handling, f, g
    <2>4. CASE batch[i].field = f /\ batch[i].gpu # g
      <3>1. batch[i].labels # l /\ batch[i].labels \in Series
        BY <2>2, <2>4, <1>2, PointType
      <3>2. QED
        BY <2>1, <2>4, <3>1, <1>4
    <2>5. CASE batch[i].field # f
      BY <2>1, <2>5, <1>4
    <2>6. QED
      BY <2>3, <2>4, <2>5
  <1>8. QED
    BY <1>5, <1>6, <1>7 DEF IInv

LEMMA WithLabelValuesStep == IInv /\ WithLabelValues => IInv'
  <1> SUFFICES ASSUME IInv, WithLabelValues PROVE IInv'
    OBVIOUS
  <1> DEFINE f == point.field
             g == point.gpu
             l == point.labels
             v == IF gauges[f][l] = Absent THEN 0 ELSE gauges[f][l]
  <1>1. /\ at' = "set" /\ points # <<>> /\ f \in Gauged
        /\ at = "create" \/ (at = "lookup" /\ ~Relabelled)
        /\ Written(f, l, v)
        /\ UNCHANGED <<lastLabels, points, batch, view>>
        /\ point' = point
    BY DEF WithLabelValues, point, Written
  <1>2. /\ point \in Points /\ g \in GPUs /\ l \in Series /\ l[1] = g
        /\ gauges \in [Gauged -> Vector]
    BY <1>1, HeadPoint, PointType DEF IInv, TypeOK
  <1>3. v \in GaugeValues /\ v # Absent
    BY <1>1, <1>2, SinkAssumption DEF GaugeValues, Vector
  <1>4. gauges[f][l] # Absent => v = gauges[f][l]
    OBVIOUS
  <1> HIDE DEF f, g, l, v
  <1>5. /\ gauges' \in [Gauged -> Vector]
        /\ gauges[f] \in Vector
        /\ gauges'[f] = Updated(gauges[f], l, v)
        /\ \A h \in Gauged : h # f => gauges'[h] = gauges[h]
        /\ gauges'[f][l] = v
        /\ \A k \in Series : k # l => gauges'[f][k] = gauges[f][k]
    BY <1>1, <1>2, <1>3, GaugesWritten
  <1>6. TypeOK' /\ PublishInv' /\ SuffixInv'
    BY <1>1, <1>5 DEF IInv, TypeOK, PublishInv, SuffixInv, f
  <1>7. \A k \in GPUs :
           Shown(gauges'[f], k) =
               IF k = g THEN Shown(gauges[f], k) \cup {l} ELSE Shown(gauges[f], k)
    <2> SUFFICES ASSUME NEW k \in GPUs
                 PROVE  Shown(gauges'[f], k) =
                            IF k = g THEN Shown(gauges[f], k) \cup {l}
                            ELSE Shown(gauges[f], k)
      OBVIOUS
    <2>1. \A m : m \in Shown(Updated(gauges[f], l, v), k) <=>
                     m \in Shown(gauges[f], k) \/ (m = l /\ l[1] = k)
      <3>1. gauges[f] \in Vector /\ l \in Series /\ v \in GaugeValues /\ v # Absent
        BY <1>2, <1>3, <1>5
      <3>2. QED
        BY ONLY <3>1, ShownSet
    <2>2. QED
      <3>1. gauges'[f] = Updated(gauges[f], l, v) /\ l[1] = g
        BY <1>2, <1>3, <1>5
      <3>2. CASE k = g
        BY <2>1, <3>1, <3>2
      <3>3. CASE k # g
        BY <2>1, <3>1, <3>3
      <3>4. QED
        BY <3>2, <3>3
  <1>8. Shown(gauges[f], g) \subseteq {l}
    <2>1. Handling(f, g)
      BY <1>1 DEF Handling, f, g
    <2>2. CASE at = "create"
      BY <1>1, <1>2, <2>1, <2>2 DEF IInv, BookkeepingExact
    <2>3. CASE at = "lookup" /\ ~Relabelled
      <3>1. Shown(gauges[f], g) = {lastLabels[f][g]} \ {Unseen}
        BY <1>1, <1>2, <2>3 DEF IInv, BookkeepingExact
      <3>2. lastLabels[f][g] \in {Unseen, l}
        BY <2>3 DEF Relabelled, f, g, l
      <3>3. QED
        BY <3>1, <3>2
    <2>4. QED
      BY <1>1, <2>2, <2>3
  <1>9. BookkeepingExact'
    <2> SUFFICES ASSUME NEW h \in Gauged, NEW k \in GPUs
                 PROVE  Shown(gauges'[h], k) =
                            IF Handling(h, k)' /\ at' = "create" THEN {}
                            ELSE IF Handling(h, k)' /\ at' = "set" THEN {point'.labels}
                            ELSE {lastLabels'[h][k]} \ {Unseen}
      BY DEF BookkeepingExact
    <2>1. /\ Handling(h, k)' <=> h = f /\ k = g
          /\ Handling(h, k) <=> h = f /\ k = g
      BY <1>1 DEF Handling, f, g
    <2>2. CASE h = f /\ k = g
      <3>1. Shown(gauges'[f], g) = {l}
        BY <1>2, <1>7, <1>8
      <3>2. QED
        BY <3>1, <2>1, <2>2, <1>1 DEF l
    <2>3. CASE ~(h = f /\ k = g)
      <3>1. Shown(gauges'[h], k) = Shown(gauges[h], k)
        BY <2>3, <1>5, <1>7
      <3>2. Shown(gauges[h], k) = {lastLabels[h][k]} \ {Unseen}
        BY <2>1, <2>3 DEF IInv, BookkeepingExact
      <3>3. QED
        BY <3>1, <3>2, <2>1, <2>3, <1>1
    <2>4. QED
      BY <2>2, <2>3
  <1>10. DoneInv'
    <2> SUFFICES ASSUME NEW i \in Done, batch[i].field \in Gauged,
                        \A j \in Done : j > i =>
                            ~(batch[j].field = batch[i].field
                                /\ batch[j].gpu = batch[i].gpu)
                 PROVE  /\ lastLabels[batch[i].field][batch[i].gpu] = batch[i].labels
                        /\ \/ gauges'[batch[i].field][batch[i].labels] = batch[i].value
                           \/ Handling(batch[i].field, batch[i].gpu)
      BY <1>1 DEF DoneInv, Done, Handling
    <2>1. /\ lastLabels[batch[i].field][batch[i].gpu] = batch[i].labels
          /\ \/ gauges[batch[i].field][batch[i].labels] = batch[i].value
             \/ Handling(batch[i].field, batch[i].gpu)
      BY DEF IInv, DoneInv
    <2>2. batch[i] \in Points
      BY LenProperties, ElementOfSeq DEF IInv, TypeOK, Done, SuffixInv
    <2>3. CASE batch[i].field = f /\ batch[i].gpu = g
      BY <2>1, <2>3, <1>1 DEF Handling, f, g
    <2>4. CASE batch[i].field = f /\ batch[i].gpu # g
      <3>1. batch[i].labels # l /\ batch[i].labels \in Series
        BY <2>2, <2>4, <1>2, PointType
      <3>2. ~Handling(batch[i].field, batch[i].gpu)
        BY <2>4 DEF Handling, g
      <3>3. QED
        BY <2>1, <2>4, <3>1, <3>2, <1>5
    <2>5. CASE batch[i].field # f
      BY <2>1, <2>5, <1>5
    <2>6. QED
      BY <2>3, <2>4, <2>5
  <1>11. ScrapeUnambiguous' /\ AwaitedInv'
    <2>1. \A h \in Gauged, k \in Series : gauges[h][k] # Absent => gauges'[h][k] # Absent
      BY <1>3, <1>5
    <2>2. QED
      BY <1>1, <2>1, ViewsKept DEF IInv
  <1>12. QED
    BY <1>6, <1>9, <1>10, <1>11 DEF IInv

LEMMA SetValueStep == IInv /\ SetValue => IInv'
  <1> SUFFICES ASSUME IInv, SetValue PROVE IInv'
    OBVIOUS
  <1> DEFINE f == point.field
             g == point.gpu
             l == point.labels
             v == point.value
             n == Len(batch) - Len(points) + 1
  <1>1. /\ at = "set" /\ at' = "lookup" /\ points # <<>> /\ f \in Gauged
        /\ Written(f, l, v)
        /\ lastLabels' = [lastLabels EXCEPT ![f][g] = l]
        /\ points' = Tail(points)
        /\ UNCHANGED <<batch, view>>
    BY DEF SetValue, Written, IInv, PublishInv
  <1>2. /\ point \in Points /\ g \in GPUs /\ l \in Series /\ l[1] = g
        /\ gauges \in [Gauged -> Vector]
        /\ v \in GaugeValues /\ v # Absent
    BY <1>1, HeadPoint, PointType, SinkAssumption DEF IInv, TypeOK, GaugeValues
  <1>3. /\ SuffixInv'
        /\ Done' = Done \cup {n} /\ n \notin Done
        /\ batch[n] = point
    BY <1>1, SuffixShrinks DEF IInv
  <1>4. n \in Nat /\ \A i \in Done : n > i
    BY LenProperties DEF IInv, TypeOK, Done, SuffixInv
  <1> HIDE DEF n
  <1>5. Handling(f, g) /\ \A h \in Gauged, k \in GPUs :
                              Handling(h, k) <=> h = f /\ k = g
    BY <1>1 DEF Handling
  <1> HIDE DEF f, g, l, v
  <1>6. /\ gauges' \in [Gauged -> Vector]
        /\ gauges[f] \in Vector
        /\ gauges'[f] = Updated(gauges[f], l, v)
        /\ \A h \in Gauged : h # f => gauges'[h] = gauges[h]
        /\ gauges'[f][l] = v
        /\ \A k \in Series : k # l => gauges'[f][k] = gauges[f][k]
    BY <1>1, <1>2, GaugesWritten
  <1>7. /\ lastLabels' \in [Gauged -> [GPUs -> Series \cup {Unseen}]]
        /\ lastLabels'[f][g] = l
        /\ \A h \in Gauged, k \in GPUs :
               ~(h = f /\ k = g) => lastLabels'[h][k] = lastLabels[h][k]
    BY <1>1, <1>2 DEF IInv, TypeOK
  <1>8. TypeOK'
    <2>1. points' \in Seq(Points)
      BY <1>1, HeadPoint DEF IInv
    <2>2. QED
      BY <1>1, <1>6, <1>7, <2>1 DEF IInv, TypeOK
  <1>9. PublishInv'
    <2> SUFFICES ASSUME NEW h \in Gauged, NEW k \in GPUs, lastLabels'[h][k] # Unseen
                 PROVE  lastLabels'[h][k][1] = k
      BY <1>1 DEF PublishInv
    <2>1. CASE h = f /\ k = g
      BY <2>1, <1>2, <1>7
    <2>2. CASE ~(h = f /\ k = g)
      BY <2>2, <1>7 DEF IInv, PublishInv
    <2>3. QED
      BY <2>1, <2>2
  <1>10. Shown(gauges[f], g) = {l}
    BY <1>1, <1>2, <1>5 DEF IInv, BookkeepingExact, l
  <1>11. \A k \in GPUs :
            Shown(gauges'[f], k) =
                IF k = g THEN Shown(gauges[f], k) \cup {l} ELSE Shown(gauges[f], k)
    <2> SUFFICES ASSUME NEW k \in GPUs
                 PROVE  Shown(gauges'[f], k) =
                            IF k = g THEN Shown(gauges[f], k) \cup {l}
                            ELSE Shown(gauges[f], k)
      OBVIOUS
    <2>1. \A m : m \in Shown(Updated(gauges[f], l, v), k) <=>
                     m \in Shown(gauges[f], k) \/ (m = l /\ l[1] = k)
      <3>1. gauges[f] \in Vector /\ l \in Series /\ v \in GaugeValues /\ v # Absent
        BY <1>2, <1>6
      <3>2. QED
        BY ONLY <3>1, ShownSet
    <2>2. QED
      <3>1. gauges'[f] = Updated(gauges[f], l, v) /\ l[1] = g
        BY <1>2, <1>6
      <3>2. CASE k = g
        BY <2>1, <3>1, <3>2
      <3>3. CASE k # g
        BY <2>1, <3>1, <3>3
      <3>4. QED
        BY <3>2, <3>3
  <1>12. BookkeepingExact'
    <2> SUFFICES ASSUME NEW h \in Gauged, NEW k \in GPUs
                 PROVE  Shown(gauges'[h], k) = {lastLabels'[h][k]} \ {Unseen}
      BY <1>1 DEF BookkeepingExact
    <2>1. CASE h = f /\ k = g
      <3>1. Shown(gauges'[f], g) = {l}
        BY <1>2, <1>10, <1>11
      <3>2. l # Unseen
        BY <1>2, SinkAssumption
      <3>3. QED
        BY <2>1, <3>1, <3>2, <1>7
    <2>2. CASE ~(h = f /\ k = g)
      <3>1. Shown(gauges'[h], k) = Shown(gauges[h], k)
        BY <2>2, <1>6, <1>11
      <3>2. Shown(gauges[h], k) = {lastLabels[h][k]} \ {Unseen}
        BY <2>2, <1>5 DEF IInv, BookkeepingExact
      <3>3. QED
        BY <2>2, <3>1, <3>2, <1>7
    <2>3. QED
      BY <2>1, <2>2
  <1>13. DoneInv'
    <2> SUFFICES ASSUME NEW i \in Done', batch[i].field \in Gauged,
                        \A j \in Done' : j > i =>
                            ~(batch[j].field = batch[i].field
                                /\ batch[j].gpu = batch[i].gpu)
                 PROVE  /\ lastLabels'[batch[i].field][batch[i].gpu] = batch[i].labels
                        /\ gauges'[batch[i].field][batch[i].labels] = batch[i].value
      BY <1>1 DEF DoneInv
    <2>1. CASE i = n
      BY <2>1, <1>3, <1>6, <1>7 DEF f, g, l, v
    <2>2. CASE i \in Done
      <3>1. ~(batch[i].field = f /\ batch[i].gpu = g)
        BY <2>2, <1>3, <1>4 DEF f, g
      <3>2. /\ batch[i] \in Points /\ batch[i].gpu \in GPUs
            /\ batch[i].labels \in Series /\ batch[i].labels[1] = batch[i].gpu
        BY <2>2, LenProperties, ElementOfSeq, PointType
        DEF IInv, TypeOK, Done, SuffixInv
      <3>3. ~Handling(batch[i].field, batch[i].gpu)
        BY <3>1, <3>2, <1>5
      <3>4. /\ lastLabels[batch[i].field][batch[i].gpu] = batch[i].labels
            /\ gauges[batch[i].field][batch[i].labels] = batch[i].value
        BY <2>2, <3>3, <1>3 DEF IInv, DoneInv
      <3>5. lastLabels'[batch[i].field][batch[i].gpu] = batch[i].labels
        BY <3>1, <3>2, <3>4, <1>7
      <3>6. gauges'[batch[i].field][batch[i].labels] = batch[i].value
        <4>1. CASE batch[i].field = f
          <5>1. batch[i].labels # l
            BY <4>1, <3>1, <3>2, <1>2
          <5>2. QED
            BY <4>1, <5>1, <3>2, <3>4, <1>6
        <4>2. CASE batch[i].field # f
          BY <4>2, <3>4, <1>6
        <4>3. QED
          BY <4>1, <4>2
      <3>7. QED
        BY <3>5, <3>6
    <2>3. QED
      BY <2>1, <2>2, <1>3
  <1>14. ScrapeUnambiguous' /\ AwaitedInv'
    <2>1. \A h \in Gauged, k \in Series : gauges[h][k] # Absent => gauges'[h][k] # Absent
      BY <1>2, <1>6
    <2>2. QED
      BY <1>1, <2>1, ViewsKept DEF IInv
  <1>15. QED
    BY <1>3, <1>8, <1>9, <1>12, <1>13, <1>14 DEF IInv

LEMMA StutterStep == IInv /\ UNCHANGED vars => IInv'
  <1> SUFFICES ASSUME IInv, UNCHANGED vars PROVE IInv'
    OBVIOUS
  <1> USE DEF IInv, vars
  <1>1. TypeOK' /\ PublishInv' /\ SuffixInv'
    BY DEF TypeOK, PublishInv, SuffixInv, point
  <1>2. BookkeepingExact'
    BY DEF BookkeepingExact, Handling, point
  <1>3. DoneInv'
    BY DEF DoneInv, Done, Handling, point
  <1>4. QED
    BY <1>1, <1>2, <1>3, ViewsKept

\* A publication, once begun, keeps the invariant.
LEMMA PublishStepIInv == IInv /\ PublishStep => IInv'
  BY SkipPointStep, DeletePreviousStep, WithLabelValuesStep, SetValueStep,
     PublishReturnsStep
  DEF PublishStep

\* The invariant is inductive: every step of Publish and of a scrape keeps it.
THEOREM Inductive == Spec => []IInv
  <1>1. IInv /\ [Next]_vars => IInv'
    <2> SUFFICES ASSUME IInv, [Next]_vars PROVE IInv'
      OBVIOUS
    <2>1. ASSUME NEW ps \in Batches, Publish(ps) PROVE IInv'
      BY <2>1, SinkAssumption, PublishCallStep
    <2>2. CASE PublishStep
      BY <2>2, PublishStepIInv
    <2>3. ASSUME NEW s \in Scrapers, ScrapeStep(s) PROVE IInv'
      BY <2>3, ScrapeKeeps
    <2>4. CASE UNCHANGED vars
      BY <2>4, StutterStep
    <2>5. QED
      BY <2>1, <2>2, <2>3, <2>4 DEF Next
  <1>2. QED
    BY InitIInv, <1>1, PTL DEF Spec

-----------------------------------------------------------------------------
(* What follows from it                                                    *)

\* Every variable stays in its type.
THEOREM TypeCorrect == Spec => []TypeOK
  <1>1. IInv => TypeOK
    BY DEF IInv
  <1>2. QED
    BY <1>1, Inductive, PTL

\* The vectors and lastLabels always agree: no series leaks when a GPU changes
\* labels and none is taken away from another GPU (sink.go:90-95).
THEOREM Bookkeeping == Spec => []BookkeepingExact
  <1>1. IInv => BookkeepingExact
    BY DEF IInv
  <1>2. QED
    BY <1>1, Inductive, PTL

\* No scrape ever shows a GPU under two label sets in one metric.
THEOREM Unambiguous == Spec => []ScrapeUnambiguous
  <1>1. IInv => ScrapeUnambiguous
    BY DEF IInv
  <1>2. QED
    BY <1>1, Inductive, PTL

\* Under the invariant a completed Publish shows what it was given.
LEMMA PublishedFollows == IInv => PublishedWhenDone
  <1> SUFFICES ASSUME IInv, at = "idle",
                      NEW i \in DOMAIN batch, batch[i].field \in Gauged, LastOf(i)
               PROVE  /\ Shown(gauges[batch[i].field], batch[i].gpu)
                             = {batch[i].labels}
                      /\ gauges[batch[i].field][batch[i].labels] = batch[i].value
    BY DEF PublishedWhenDone
  <1>1. points = <<>>
    BY DEF IInv, PublishInv
  <1>2. Done = DOMAIN batch /\ i \in 1..Len(batch) /\ Len(batch) \in Nat
    BY <1>1, LenProperties DEF IInv, TypeOK, Done
  <1>3. /\ batch[i] \in Points /\ batch[i].gpu \in GPUs
        /\ batch[i].labels \in Series
    BY <1>2, ElementOfSeq, PointType DEF IInv, TypeOK
  <1>4. ~Handling(batch[i].field, batch[i].gpu)
    BY <1>1 DEF Handling
  <1>5. /\ lastLabels[batch[i].field][batch[i].gpu] = batch[i].labels
        /\ gauges[batch[i].field][batch[i].labels] = batch[i].value
    BY <1>2, <1>4 DEF IInv, DoneInv, LastOf
  <1>6. Shown(gauges[batch[i].field], batch[i].gpu) = {batch[i].labels}
    <2>1. batch[i].labels # Unseen
      BY <1>3, SinkAssumption
    <2>2. Shown(gauges[batch[i].field], batch[i].gpu)
            = {lastLabels[batch[i].field][batch[i].gpu]} \ {Unseen}
      BY <1>3, <1>4 DEF IInv, BookkeepingExact
    <2>3. QED
      BY <1>5, <2>1, <2>2
  <1>7. QED
    BY <1>5, <1>6

\* A completed Publish shows the last point of every metric and GPU it was
\* given.
THEOREM Published == Spec => []PublishedWhenDone
  BY PublishedFollows, Inductive, PTL

\* Publishing a point changes the series of its own metric and GPU only.
THEOREM Undisturbed == Spec => OthersUndisturbed
  <1> DEFINE Own == \A f \in Gauged, l \in Series :
                       gauges'[f][l] # gauges[f][l] => Handling(f, l[1])
  <1>1. IInv /\ [Next]_vars => [Own]_vars
    <2> SUFFICES ASSUME IInv, [Next]_vars, NEW f \in Gauged, NEW l \in Series,
                        gauges'[f][l] # gauges[f][l]
                 PROVE  Handling(f, l[1])
      OBVIOUS
    <2>1. PICK k \in Series, v \in GaugeValues :
             /\ points # <<>> /\ point.field \in Gauged /\ k[1] = point.gpu
             /\ Written(point.field, k, v)
      <3>1. ASSUME points # <<>>
            PROVE  /\ point \in Points /\ point.labels \in Series
                   /\ point.labels[1] = point.gpu /\ point.gpu \in GPUs
                   /\ point.value \in GaugeValues
        BY <3>1, HeadPoint, PointType DEF IInv, GaugeValues
      <3>2. CASE DeletePrevious
        <4>1. /\ points # <<>> /\ point.field \in Gauged
              /\ lastLabels[point.field][point.gpu] # Unseen
              /\ Written(point.field, lastLabels[point.field][point.gpu], Absent)
          BY <3>2 DEF DeletePrevious, Relabelled, Written
        <4>2. /\ lastLabels[point.field][point.gpu] \in Series
              /\ lastLabels[point.field][point.gpu][1] = point.gpu
          BY <4>1, <3>1 DEF IInv, TypeOK, PublishInv
        <4>3. QED
          BY <4>1, <4>2 DEF GaugeValues
      <3>3. CASE WithLabelValues
        <4> DEFINE w == IF gauges[point.field][point.labels] = Absent
                        THEN 0 ELSE gauges[point.field][point.labels]
        <4>1. /\ points # <<>> /\ point.field \in Gauged
              /\ Written(point.field, point.labels, w)
          BY <3>3 DEF WithLabelValues, Written
        <4>2. w \in GaugeValues
          BY <4>1, <3>1 DEF IInv, TypeOK, GaugeValues, Vector
        <4>3. QED
          BY <4>1, <4>2, <3>1
      <3>4. CASE SetValue
        <4>1. /\ points # <<>> /\ point.field \in Gauged
              /\ Written(point.field, point.labels, point.value)
          BY <3>4 DEF SetValue, Written, IInv, PublishInv
        <4>2. QED
          BY <4>1, <3>1
      <3>5. ASSUME gauges' = gauges PROVE FALSE
        BY <3>5
      <3>6. \/ gauges' = gauges
            \/ DeletePrevious \/ WithLabelValues \/ SetValue
        BY DEF Next, PublishStep, Publish, SkipPoint, PublishReturns,
               ScrapeStep, ScrapeStart, ScrapeVector, ReadValue, vars
      <3>7. QED
        BY <3>2, <3>3, <3>4, <3>5, <3>6
    <2>2. f = point.field /\ l = k
      BY <2>1, GaugesWritten DEF IInv, TypeOK
    <2>3. QED
      BY <2>1, <2>2 DEF Handling
  <1>2. QED
    BY <1>1, Inductive, PTL DEF Spec, OthersUndisturbed

-----------------------------------------------------------------------------
(* Sink implements SeriesBoard: every step of Publish and of a scrape maps *)
(* to a step of the board or leaves it alone.  First, the rows of a board. *)

LEMMA RowEmpty ==
    ASSUME NEW vec, NEW g \in GPUs, Shown(vec, g) = {}
    PROVE  Row(vec)[g] = Nothing
  BY DEF Row

LEMMA RowFilled ==
    ASSUME NEW vec, NEW g \in GPUs, NEW l, Shown(vec, g) = {l}
    PROVE  Row(vec)[g] = [labels |-> l,
                          value |-> IF vec[l] = NotRead THEN Nothing ELSE vec[l]]
  <1>1. Shown(vec, g) # {} /\ (CHOOSE k \in Shown(vec, g) : TRUE) = l
    OBVIOUS
  <1>2. QED
    BY <1>1 DEF Row

\* Writing a series of one GPU leaves the slots of the others alone.
LEMMA RowOthers ==
    ASSUME NEW vec \in Gathered, NEW l \in Series, NEW v,
           NEW k \in GPUs, k # l[1]
    PROVE  Row(Updated(vec, l, v))[k] = Row(vec)[k]
  <1> DEFINE new == Updated(vec, l, v)
  <1>1. Shown(new, k) = Shown(vec, k)
    BY DEF Shown, Updated, Gathered
  <1>2. \A m \in Shown(vec, k) : new[m] = vec[m]
    BY DEF Shown, Updated, Gathered
  <1> HIDE DEF new
  <1>3. CASE Shown(vec, k) = {}
    BY <1>1, <1>3, RowEmpty DEF new
  <1>4. CASE Shown(vec, k) # {}
    <2> DEFINE m == CHOOSE m \in Shown(vec, k) : TRUE
    <2>1. m \in Shown(vec, k)
      BY <1>4
    <2>2. Row(vec)[k] = [labels |-> m,
                         value |-> IF vec[m] = NotRead THEN Nothing ELSE vec[m]]
      BY <1>4 DEF Row
    <2>3. Row(new)[k] = [labels |-> m,
                         value |-> IF new[m] = NotRead THEN Nothing ELSE new[m]]
      BY <1>1, <1>4 DEF Row
    <2>4. QED
      BY <1>2, <2>1, <2>2, <2>3 DEF new
  <1>5. QED
    BY <1>3, <1>4

\* A row is a row of slots, and a change of one slot of it another row.
LEMMA RowEdited ==
    ASSUME NEW vec \in Gathered, NEW l \in Series, NEW v
    PROVE  Row(Updated(vec, l, v)) = [Row(vec) EXCEPT ![l[1]] = Row(Updated(vec, l, v))[l[1]]]
  <1> DEFINE A == Row(vec)
             B == Row(Updated(vec, l, v))
  <1>1. A = [k \in GPUs |-> A[k]] /\ B = [k \in GPUs |-> B[k]]
    BY DEF Row
  <1>2. \A k \in GPUs : k # l[1] => B[k] = A[k]
    BY RowOthers
  <1> HIDE DEF A, B
  <1>3. B = [A EXCEPT ![l[1]] = B[l[1]]]
    BY <1>1, <1>2
  <1>4. QED
    BY <1>3 DEF A, B

\* A vector may be taken for what a scrape has when it has read every value.
LEMMA GaugesGathered ==
    ASSUME IInv, NEW f \in Gauged
    PROVE  /\ gauges[f] \in Vector /\ gauges[f] \in Gathered
           /\ \A l \in Series : gauges[f][l] \in GaugeValues /\ gauges[f][l] # NotRead
  <1>1. gauges[f] \in Vector
    BY DEF IInv, TypeOK
  <1>2. \A l \in Series : gauges[f][l] \in GaugeValues
    BY <1>1 DEF Vector
  <1>3. gauges[f] \in Gathered
    BY <1>1, <1>2 DEF Vector, Gathered
  <1>4. QED
    BY <1>1, <1>2, <1>3, SinkAssumption

\* A write of one series is an edit of one slot of the board.
LEMMA BoardEdited ==
    ASSUME IInv, NEW f \in Gauged, NEW l \in Series, NEW v \in GaugeValues,
           Written(f, l, v), l[1] \in GPUs
    PROVE  board' = [board EXCEPT ![f][l[1]] = Row(gauges'[f])[l[1]]]
  <1>1. /\ gauges[f] \in Vector
        /\ gauges'[f] = Updated(gauges[f], l, v)
        /\ \A h \in Gauged : h # f => gauges'[h] = gauges[h]
    BY GaugesWritten DEF IInv, TypeOK
  <1>2. gauges[f] \in Gathered
    BY GaugesGathered
  <1>3. Row(gauges'[f]) = [Row(gauges[f]) EXCEPT ![l[1]] = Row(gauges'[f])[l[1]]]
    BY <1>1, <1>2, RowEdited
  <1>4. \A h \in Gauged : h # f => Row(gauges'[h]) = Row(gauges[h])
    BY <1>1
  <1>5. board' = [board EXCEPT ![f] = Row(gauges'[f])]
    BY <1>4 DEF board
  <1>6. board[f] = Row(gauges[f])
    BY DEF board
  <1>7. QED
    BY <1>3, <1>5, <1>6

\* What a metric shows for a GPU decides the slot of the board.
LEMMA BoardSlot ==
    ASSUME IInv, NEW f \in Gauged, NEW g \in GPUs
    PROVE  /\ Shown(gauges[f], g) = {} => board[f][g] = Nothing
           /\ \A l : Shown(gauges[f], g) = {l} =>
                 board[f][g] = [labels |-> l, value |-> gauges[f][l]]
  <1>1. board[f] = Row(gauges[f])
    BY DEF board
  <1>2. CASE Shown(gauges[f], g) = {}
    <2>1. \A l : Shown(gauges[f], g) # {l}
      BY <1>2
    <2>2. QED
      BY <1>1, <1>2, <2>1, RowEmpty
  <1>3. ASSUME NEW l, Shown(gauges[f], g) = {l}
        PROVE  board[f][g] = [labels |-> l, value |-> gauges[f][l]]
    <2>1. l \in Series
      BY <1>3 DEF Shown
    <2>2. gauges[f][l] # NotRead
      BY <2>1, GaugesGathered
    <2>3. Row(gauges[f])[g] = [labels |-> l, value |-> gauges[f][l]]
      BY <1>3, <2>2, RowFilled
    <2>4. QED
      BY <1>1, <2>3
  <1>4. QED
    BY <1>2, <1>3

\* What a series shown has on the board is not nothing.
LEMMA SlotIsSome ==
    ASSUME NEW l \in Series, NEW v \in Values \cup {0, Nothing}
    PROVE  [labels |-> l, value |-> v] # Nothing
  BY SinkAssumption DEF Slots

\* A row that has been taken is not one that has not.
LEMMA RowIsSome ==
    ASSUME NEW vec \in Gathered
    PROVE  Row(vec) # Nothing
  <1>1. ASSUME NEW g \in GPUs PROVE Row(vec)[g] \in Slots \cup {Nothing}
    <2>1. CASE Shown(vec, g) = {}
      BY <2>1, RowEmpty
    <2>2. CASE Shown(vec, g) # {}
      <3> DEFINE l == CHOOSE l \in Shown(vec, g) : TRUE
                 v == IF vec[l] = NotRead THEN Nothing ELSE vec[l]
      <3>1. l \in Series /\ vec[l] # Absent
        <4>1. l \in Shown(vec, g)
          BY <2>2
        <4> HIDE DEF l
        <4>2. QED
          BY <4>1 DEF Shown
      <3>2. Row(vec)[g] = [labels |-> l, value |-> v]
        BY <2>2 DEF Row
      <3> HIDE DEF l
      <3>3. v \in Values \cup {0, Nothing}
        BY <3>1 DEF Gathered, GaugeValues
      <3> HIDE DEF v
      <3>4. QED
        BY <3>1, <3>2, <3>3 DEF Slots
    <2>3. QED
      BY <2>1, <2>2
  <1>2. Row(vec) = [g \in GPUs |-> Row(vec)[g]]
    BY DEF Row
  <1>3. Row(vec) \in [GPUs -> Slots \cup {Nothing}]
    BY <1>1, <1>2
  <1>4. QED
    BY <1>3, SinkAssumption

\* A row whose slot for g has got its value.
WithValue(row, g, v) == [row EXCEPT ![g].value = v]

\* A series that a scrape awaits the value of is in its slot of the board, and the
\* scrape's row comes to have that slot's value.
LEMMA AwaitedOnBoard ==
    ASSUME IInv, NEW s \in Scrapers, NEW f \in Gauged, NEW l \in Series, Awaits(s, f, l)
    PROVE  /\ l[1] \in GPUs
           /\ board[f][l[1]] = [labels |-> l, value |-> gauges[f][l]]
           /\ board[f][l[1]] # Nothing
           /\ rows[s][f] = Row(view[s][f])
           /\ rows[s][f][l[1]] = [labels |-> l, value |-> Nothing]
           /\ Board!Awaits(s, f, l[1])
           /\ Row(Updated(view[s][f], l, gauges[f][l]))
                = WithValue(rows[s][f], l[1], board[f][l[1]].value)
  <1> DEFINE g == l[1]
             vec == view[s][f]
             v == gauges[f][l]
             new == Updated(vec, l, v)
  <1>1. g \in GPUs
    BY DEF Series
  <1>2. vec \in Gathered /\ vec # NotRead /\ vec[l] = NotRead
    BY DEF IInv, TypeOK, Awaits
  <1>3. v # Absent /\ v \in GaugeValues /\ v # NotRead
    BY GaugesGathered DEF IInv, AwaitedInv
  <1>4. NotRead # Absent
    BY SinkAssumption DEF GaugeValues
  <1>5. Shown(gauges[f], g) = {l}
    <2>1. l \in Shown(gauges[f], g)
      BY <1>3 DEF Shown
    <2>2. QED
      BY <1>1, <2>1, ShownOnce DEF IInv
  <1>6. Shown(vec, g) = {l}
    <2>1. l \in Shown(vec, g)
      BY <1>2, <1>4 DEF Shown
    <2>2. \A k \in Shown(vec, g) : k \in Series /\ {k, l} \subseteq Shown(vec, g)
      BY <2>1 DEF Shown
    <2>3. QED
      BY <1>1, <1>2, <2>1, <2>2 DEF IInv, ScrapeUnambiguous
  <1>7. board[f][g] = [labels |-> l, value |-> v]
    BY <1>1, <1>5, BoardSlot
  <1>8. board[f][g] # Nothing
    BY <1>3, <1>7, SlotIsSome DEF GaugeValues
  <1>9. rows[s][f] = Row(vec)
    BY <1>2 DEF rows
  <1>10. Row(vec)[g] = [labels |-> l, value |-> Nothing]
    BY <1>1, <1>2, <1>6, RowFilled
  <1>11. rows[s][f] # Nothing /\ rows[s][f][g] # Nothing
    BY <1>2, <1>9, <1>10, RowIsSome, SlotIsSome
  <1>12. Board!Awaits(s, f, g)
    BY <1>9, <1>10, <1>11 DEF Board!Awaits
  <1>13. Row(new)[g] = [labels |-> l, value |-> v]
    <2>1. new[l] = v /\ Shown(new, g) = {l}
      BY <1>2, <1>3, <1>6 DEF Shown, Updated, Gathered
    <2> HIDE DEF new
    <2>2. QED
      BY <1>1, <1>3, <2>1, RowFilled
  <1>14. Row(new) = [Row(vec) EXCEPT ![g] = [labels |-> l, value |-> v]]
    BY <1>2, <1>13, RowEdited
  <1>15. [Row(vec)[g] EXCEPT !.value = board[f][g].value] = [labels |-> l, value |-> v]
    BY <1>7, <1>10
  <1>16. Row(new) = [Row(vec) EXCEPT ![g].value = board[f][g].value]
    BY <1>14, <1>15
  <1>17. QED
    BY <1>1, <1>7, <1>8, <1>9, <1>10, <1>12, <1>16 DEF WithValue

\* What is awaited on the board is a series of the vector.
LEMMA BoardAwaited ==
    ASSUME IInv, NEW s \in Scrapers, NEW f \in Gauged, NEW g \in GPUs,
           Board!Awaits(s, f, g)
    PROVE  \E l \in Shown(gauges[f], g) : Awaits(s, f, l)
  <1> DEFINE vec == view[s][f]
             l == CHOOSE l \in Shown(vec, g) : TRUE
  <1>1. /\ rows[s][f] # Nothing /\ rows[s][f][g] # Nothing
        /\ rows[s][f][g].value = Nothing
    BY DEF Board!Awaits
  <1>2. vec # NotRead /\ rows[s][f] = Row(vec)
    BY <1>1 DEF rows
  <1>3. vec \in Gathered
    BY <1>2 DEF IInv, TypeOK
  <1>4. Shown(vec, g) # {}
    BY <1>1, <1>2, RowEmpty
  <1>5. l \in Shown(vec, g)
    BY <1>4
  <1>6. Row(vec)[g] = [labels |-> l, value |-> IF vec[l] = NotRead THEN Nothing ELSE vec[l]]
    BY <1>4 DEF Row
  <1> HIDE DEF vec, l
  <1>7. l \in Series /\ l[1] = g /\ vec[l] # Absent
    BY <1>5 DEF Shown
  <1>8. vec[l] = NotRead
    <2>1. vec[l] \in Values \cup {0, NotRead}
      BY <1>3, <1>7 DEF Gathered, GaugeValues
    <2>2. (IF vec[l] = NotRead THEN Nothing ELSE vec[l]) = Nothing
      BY <1>1, <1>2, <1>6
    <2>3. QED
      BY <2>1, <2>2, SinkAssumption
  <1>9. Awaits(s, f, l)
    BY <1>2, <1>8 DEF Awaits, vec
  <1>10. l \in Shown(gauges[f], g)
    BY <1>7, <1>9 DEF Shown, IInv, AwaitedInv
  <1>11. QED
    BY <1>9, <1>10

-----------------------------------------------------------------------------
(* The steps                                                               *)

LEMMA InitBoard == Init => Board!Init
  <1> SUFFICES ASSUME Init PROVE Board!Init
    OBVIOUS
  <1>1. \A f \in Gauged, g \in GPUs : Row(gauges[f])[g] = Nothing
    <2>1. \A f \in Gauged, g \in GPUs : Shown(gauges[f], g) = {}
      BY DEF Init, Shown
    <2>2. QED
      BY <2>1, RowEmpty
  <1>2. board = [m \in Gauged |-> [g \in GPUs |-> Nothing]]
    <2>1. \A f \in Gauged : Row(gauges[f]) = [g \in GPUs |-> Nothing]
      BY <1>1 DEF Row
    <2>2. QED
      BY <2>1 DEF board
  <1>3. current = Nothing
    BY DEF Init, current
  <1>4. rows = [s \in Scrapers |-> [m \in Gauged |-> Nothing]]
    BY DEF Init, rows
  <1>5. QED
    BY <1>2, <1>3, <1>4 DEF Board!Init

LEMMA RowsKept ==
    ASSUME view' = view
    PROVE  rows' = rows
  BY DEF rows

LEMMA QuietStep ==
    ASSUME IInv,
           \/ \E ps : Publish(ps)
           \/ SkipPoint \/ PublishReturns
           \/ UNCHANGED vars
    PROVE  UNCHANGED Board!vars
  <1>1. UNCHANGED <<gauges, view>>
    BY DEF Publish, SkipPoint, PublishReturns, vars
  <1>2. board' = board /\ rows' = rows
    BY <1>1, RowsKept DEF board
  <1>3. current' = current
    <2>1. CASE UNCHANGED vars
      BY <2>1 DEF current, point, vars
    <2>2. CASE ~UNCHANGED vars
      <3>1. at \in {"idle", "lookup"} /\ at' \in {"idle", "lookup"}
        BY <2>2 DEF Publish, SkipPoint, PublishReturns
      <3>2. QED
        BY <3>1 DEF current
    <2>3. QED
      BY <2>1, <2>2
  <1>4. QED
    BY <1>2, <1>3 DEF Board!vars

LEMMA DeletePreviousOpens ==
    ASSUME IInv, DeletePrevious
    PROVE  /\ point.field \in Gauged /\ point.gpu \in GPUs
           /\ Board!Open(point.field, point.gpu)
  <1> DEFINE f == point.field
             g == point.gpu
             l == lastLabels[f][g]
  <1>1. /\ at = "lookup" /\ at' = "create" /\ points # <<>>
        /\ f \in Gauged /\ l # Unseen
        /\ Written(f, l, Absent) /\ LeavesVector(f, l)
        /\ UNCHANGED points /\ point' = point
    BY DEF DeletePrevious, Relabelled, point, Written
  <1>2. /\ g \in GPUs /\ l \in Series /\ l[1] = g /\ Absent \in GaugeValues
        /\ gauges \in [Gauged -> Vector] /\ gauges[f] \in Vector
    BY <1>1, HeadPoint, PointType DEF IInv, TypeOK, PublishInv, GaugeValues
  <1>3. current = Nothing /\ current' = <<f, g>>
    BY <1>1 DEF current
  <1>4. Shown(gauges[f], g) = {l} \ {Unseen}
    BY <1>1, <1>2 DEF IInv, BookkeepingExact
  <1> HIDE DEF f, g, l
  <1>5. gauges'[f] = Updated(gauges[f], l, Absent)
    BY <1>1, <1>2, GaugesWritten
  <1>6. Shown(gauges'[f], g) = {}
    <2>1. \A m : m \in Shown(gauges'[f], g) <=> m \in Shown(gauges[f], g) /\ m # l
      BY <1>2, <1>5, ShownDeleted
    <2>2. QED
      BY <2>1, <1>4
  <1>7. Row(gauges'[f])[g] = Nothing
    BY <1>2, <1>6, RowEmpty
  <1>8. board' = [board EXCEPT ![f][g] = Nothing]
    BY <1>1, <1>2, <1>7, BoardEdited
  <1>9. rows' = [s \in Scrapers |->
                    IF Board!Awaits(s, f, g)
                    THEN [rows[s] EXCEPT ![f][g].value = board[f][g].value] ELSE rows[s]]
    <2>1. ASSUME NEW s \in Scrapers
          PROVE  rows'[s] = IF Board!Awaits(s, f, g)
                            THEN [rows[s] EXCEPT ![f][g].value = board[f][g].value]
                            ELSE rows[s]
      <3>1. CASE Awaits(s, f, l)
        <4> DEFINE new == view'[s][f]
                   R(x) == IF x = NotRead THEN Nothing ELSE Row(x)
        <4>1. /\ new = [view[s][f] EXCEPT ![l] = gauges[f][l]]
              /\ view'[s] = [view[s] EXCEPT ![f] = new]
          <5>1. view[s] \in [Gauged -> Gathered \cup {NotRead}]
            BY DEF IInv, TypeOK
          <5>2. view'[s] = [view[s] EXCEPT ![f] = [view[s][f] EXCEPT ![l] = gauges[f][l]]]
            BY <3>1, <1>1 DEF LeavesVector
          <5>3. QED
            BY <1>1, <5>1, <5>2
        <4>2. /\ Board!Awaits(s, f, g)
              /\ Row(new) = [rows[s][f] EXCEPT ![g].value = board[f][g].value]
          <5>1. /\ Board!Awaits(s, f, l[1])
                /\ Row(Updated(view[s][f], l, gauges[f][l]))
                     = WithValue(rows[s][f], l[1], board[f][l[1]].value)
            <6>1. f \in Gauged /\ l \in Series
              BY <1>1, <1>2
            <6>2. QED
              BY <3>1, <6>1, AwaitedOnBoard
          <5>2. new = Updated(view[s][f], l, gauges[f][l])
            BY <4>1 DEF Updated
          <5> HIDE DEF new
          <5>3. QED
            BY <1>2, <5>1, <5>2 DEF WithValue
        <4>3. new # NotRead
          <5>1. view[s][f] \in Gathered /\ gauges[f][l] \in GaugeValues
            BY <3>1, <1>1, <1>2, GaugesGathered DEF Awaits, IInv, TypeOK
          <5> HIDE DEF new
          <5>2. new \in Gathered
            BY <4>1, <5>1 DEF Gathered
          <5>3. QED
            BY <5>2, SinkAssumption
        <4> HIDE DEF new
        <4>4. R(new) = Row(new)
          BY <4>3
        <4>5. /\ rows[s] = [h \in Gauged |-> R(view[s][h])]
              /\ rows'[s] = [h \in Gauged |-> R(view'[s][h])]
          BY DEF rows
        <4>6. view[s] \in [Gauged -> Gathered \cup {NotRead}]
          BY DEF IInv, TypeOK
        <4> HIDE DEF R
        <4>7. rows'[s] = [rows[s] EXCEPT ![f] = R(new)]
          BY <4>1, <4>5, <4>6, <1>1
        <4>8. QED
          BY <4>2, <4>4, <4>7
      <3>2. CASE ~Awaits(s, f, l)
        <4>1. view'[s] = view[s]
          BY <3>2, <1>1 DEF LeavesVector
        <4>2. rows'[s] = rows[s]
          BY <4>1 DEF rows
        <4>3. ~Board!Awaits(s, f, g)
          BY <3>2, <1>1, <1>2, <1>4, BoardAwaited
        <4>4. QED
          BY <4>2, <4>3
      <3>3. QED
        BY <3>1, <3>2
    <2>2. rows' = [s \in Scrapers |-> rows'[s]]
      BY DEF rows
    <2>3. QED
      BY <2>1, <2>2
  <1>10. Board!Open(f, g)
    BY <1>1, <1>3, <1>8, <1>9 DEF Board!Open
  <1>11. QED
    BY <1>1, <1>2, <1>10 DEF f, g

LEMMA WithLabelValuesPlaces ==
    ASSUME IInv, WithLabelValues
    PROVE  /\ point.field \in Gauged /\ point.gpu \in GPUs /\ point.labels \in Series
           /\ \/ Board!Open(point.field, point.gpu)
              \/ Board!Place(point.field, point.gpu, point.labels)
  <1> DEFINE f == point.field
             g == point.gpu
             l == point.labels
             v == IF gauges[f][l] = Absent THEN 0 ELSE gauges[f][l]
  <1>1. /\ at' = "set" /\ points # <<>> /\ f \in Gauged
        /\ at = "create" \/ (at = "lookup" /\ ~Relabelled)
        /\ Written(f, l, v)
        /\ UNCHANGED <<points, view>> /\ point' = point
    BY DEF WithLabelValues, point, Written
  <1>2. /\ g \in GPUs /\ l \in Series /\ l[1] = g
        /\ gauges \in [Gauged -> Vector] /\ gauges[f] \in Vector
    BY <1>1, HeadPoint, PointType DEF IInv, TypeOK
  <1>3. v \in GaugeValues /\ v # Absent
    BY <1>1, <1>2, SinkAssumption DEF GaugeValues, Vector
  <1>4. current \in {Nothing, <<f, g>>} /\ current' = <<f, g>>
    BY <1>1 DEF current
  <1>5. \/ Shown(gauges[f], g) = {}
        \/ at = "lookup" /\ Shown(gauges[f], g) = {l}
    <2>1. CASE at = "create"
      <3>1. Handling(f, g)
        BY <1>1 DEF Handling
      <3>2. QED
        BY <2>1, <3>1, <1>1, <1>2 DEF IInv, BookkeepingExact
    <2>2. CASE at = "lookup" /\ ~Relabelled
      <3>1. Shown(gauges[f], g) = {lastLabels[f][g]} \ {Unseen}
        BY <2>2, <1>1, <1>2 DEF IInv, BookkeepingExact
      <3>2. lastLabels[f][g] \in {Unseen, l}
        BY <2>2 DEF Relabelled
      <3>3. CASE lastLabels[f][g] = Unseen
        BY <3>1, <3>3
      <3>4. CASE lastLabels[f][g] = l /\ l # Unseen
        BY <2>2, <3>1, <3>4
      <3>5. QED
        BY <3>2, <3>3, <3>4
    <2>3. QED
      BY <1>1, <2>1, <2>2
  <1>6. CASE Shown(gauges[f], g) = {}
    <2>1. gauges[f][l] = Absent /\ v = 0
      BY <1>2, <1>6 DEF Shown
    <2> HIDE DEF f, g, l, v
    <2>2. /\ gauges'[f] = Updated(gauges[f], l, v)
          /\ gauges'[f][l] = v
      BY <1>1, <1>2, <1>3, GaugesWritten
    <2>3. Shown(gauges'[f], g) = {l}
      <3>1. \A m : m \in Shown(gauges'[f], g) <=>
                      m \in Shown(gauges[f], g) \/ (m = l /\ l[1] = g)
        BY <1>2, <1>3, <2>2, ShownSet
      <3>2. QED
        BY <3>1, <1>2, <1>6
    <2>4. Row(gauges'[f])[g] = [labels |-> l, value |-> 0]
      <3>1. 0 # NotRead
        BY SinkAssumption DEF GaugeValues
      <3>2. QED
        BY <1>2, <2>1, <2>2, <2>3, <3>1, RowFilled
    <2>5. board' = [board EXCEPT ![f][g] = [labels |-> l, value |-> 0]]
      BY <1>1, <1>2, <1>3, <2>4, BoardEdited
    <2>6. board[f][g] = Nothing
      BY <1>1, <1>2, <1>6, BoardSlot
    <2>7. Board!Place(f, g, l)
      BY <1>1, <1>4, <2>5, <2>6, RowsKept DEF Board!Place
    <2>8. QED
      BY <1>1, <1>2, <2>7 DEF f, g, l
  <1>7. CASE at = "lookup" /\ Shown(gauges[f], g) = {l}
    <2>1. v = gauges[f][l]
      BY <1>7 DEF Shown
    <2>2. gauges' = gauges
      <3>1. gauges' = [gauges EXCEPT ![f][l] = gauges[f][l]]
        BY <1>1, <2>1 DEF Written
      <3>2. QED
        BY <3>1, <1>1, <1>2 DEF Vector
    <2>3. board' = board /\ current = Nothing /\ rows' = rows
      BY <1>1, <1>7, <2>2, RowsKept DEF board, current
    <2> HIDE DEF f, g, l, v
    <2>4. Board!Open(f, g)
      BY <1>4, <2>3 DEF Board!Open
    <2>5. QED
      BY <1>1, <1>2, <2>4 DEF f, g, l
  <1>8. QED
    BY <1>5, <1>6, <1>7

LEMMA SetValueWrites ==
    ASSUME IInv, SetValue
    PROVE  /\ point.field \in Gauged /\ point.gpu \in GPUs /\ point.value \in Values
           /\ board[point.field][point.gpu].labels = point.labels
           /\ Board!Write(point.field, point.gpu, point.value)
  <1> DEFINE f == point.field
             g == point.gpu
             l == point.labels
             v == point.value
  <1>1. /\ at = "set" /\ at' = "lookup" /\ points # <<>> /\ f \in Gauged
        /\ Written(f, l, v)
        /\ UNCHANGED view
    BY DEF SetValue, Written, IInv, PublishInv
  <1>2. /\ g \in GPUs /\ l \in Series /\ l[1] = g
        /\ v \in Values /\ v \in GaugeValues /\ v # Absent
        /\ gauges \in [Gauged -> Vector] /\ gauges[f] \in Vector
    BY <1>1, HeadPoint, PointType, SinkAssumption DEF IInv, TypeOK, GaugeValues
  <1>3. current = <<f, g>> /\ current' = Nothing
    BY <1>1 DEF current
  <1>4. Shown(gauges[f], g) = {l}
    <2>1. Handling(f, g)
      BY <1>1 DEF Handling
    <2>2. QED
      BY <2>1, <1>1, <1>2 DEF IInv, BookkeepingExact
  <1> HIDE DEF f, g, l, v
  <1>5. /\ gauges'[f] = Updated(gauges[f], l, v)
        /\ gauges'[f][l] = v
    BY <1>1, <1>2, GaugesWritten
  <1>6. Shown(gauges'[f], g) = {l}
    <2>1. \A m : m \in Shown(gauges'[f], g) <=>
                    m \in Shown(gauges[f], g) \/ (m = l /\ l[1] = g)
      BY <1>2, <1>5, ShownSet
    <2>2. QED
      BY <2>1, <1>2, <1>4
  <1>7. Row(gauges'[f])[g] = [labels |-> l, value |-> v]
    <2>1. v # NotRead
      BY <1>2, SinkAssumption
    <2>2. QED
      BY <1>2, <1>5, <1>6, <2>1, RowFilled
  <1>8. board' = [board EXCEPT ![f][g] = [labels |-> l, value |-> v]]
    BY <1>1, <1>2, <1>7, BoardEdited
  <1>9. board[f][g] = [labels |-> l, value |-> gauges[f][l]]
    BY <1>1, <1>2, <1>4, BoardSlot
  <1>10. gauges[f][l] \in Values \cup {0}
    <2>1. l \in Shown(gauges[f], g)
      BY <1>4
    <2>2. QED
      BY <2>1, <1>2 DEF Shown, Vector, GaugeValues
  <1>11. board[f][g] # Nothing
    BY <1>2, <1>9, <1>10, SlotIsSome
  <1>12. [board[f][g] EXCEPT !.value = v] = [labels |-> l, value |-> v]
    BY <1>9
  <1>13. board' = [board EXCEPT ![f][g].value = v]
    BY <1>8, <1>12
  <1>14. Board!Write(f, g, v)
    BY <1>1, <1>3, <1>11, <1>13, RowsKept DEF Board!Write
  <1>15. board[f][g].labels = l
    BY <1>9
  <1>16. QED
    BY <1>1, <1>2, <1>14, <1>15 DEF f, g, l, v

LEMMA ScrapeReads ==
    ASSUME IInv, NEW s \in Scrapers, ScrapeStep(s)
    PROVE  Board!Next
  <1> DEFINE R(x) == IF x = NotRead THEN Nothing ELSE Row(x)
  <1>1. UNCHANGED <<gauges, points, at>>
    BY DEF ScrapeStep, ScrapeStart, ScrapeVector, ReadValue
  <1>2. board' = board /\ current' = current
    BY <1>1 DEF board, current, point
  <1>3. /\ view \in [Scrapers -> [Gauged -> Gathered \cup {NotRead}]]
        /\ rows = [t \in Scrapers |-> [h \in Gauged |-> R(view[t][h])]]
        /\ rows' = [t \in Scrapers |-> [h \in Gauged |-> R(view'[t][h])]]
    BY DEF IInv, TypeOK, rows
  <1>4. CASE ScrapeStart(s)
    <2>1. rows' = [rows EXCEPT ![s] = [m \in Gauged |-> Nothing]]
      BY <1>4 DEF ScrapeStart, rows, IInv, TypeOK
    <2>2. QED
      BY <1>2, <2>1 DEF Board!Next, Board!Restart
  <1>5. ASSUME NEW f \in Gauged, ScrapeVector(s, f)
        PROVE  Board!Next
    <2> DEFINE new == view'[s][f]
    <2>1. /\ new \in Gathered
          /\ \A l \in Series : new[l] = IF gauges[f][l] = Absent THEN Absent ELSE NotRead
          /\ view' = [view EXCEPT ![s][f] = new]
      BY <1>5, VectorScraped
    <2> HIDE DEF new
    <2>2. rows' = [rows EXCEPT ![s][f] = R(new)]
      <3> HIDE DEF R
      <3>1. QED
        BY <1>3, <2>1
    <2>3. R(new) = Row(new)
      BY <2>1, SinkAssumption
    <2>4. ASSUME NEW g \in GPUs
          PROVE  Row(new)[g] = IF board[f][g] = Nothing THEN Nothing
                               ELSE [labels |-> board[f][g].labels, value |-> Nothing]
      <3>1. NotRead # Absent
        BY SinkAssumption DEF GaugeValues
      <3>2. Shown(new, g) = Shown(gauges[f], g)
        BY <2>1, <3>1 DEF Shown
      <3>3. CASE Shown(gauges[f], g) = {}
        BY <3>2, <3>3, RowEmpty, BoardSlot
      <3>4. CASE Shown(gauges[f], g) # {}
        <4>1. PICK l \in Shown(gauges[f], g) : TRUE
          BY <3>4
        <4>2. Shown(gauges[f], g) = {l}
          BY <4>1, ShownOnce DEF IInv
        <4>3. l \in Series /\ gauges[f][l] # Absent /\ gauges[f][l] \in GaugeValues
          BY <4>1, GaugesGathered DEF Shown
        <4>4. board[f][g] = [labels |-> l, value |-> gauges[f][l]]
          BY <4>2, BoardSlot
        <4>5. board[f][g] # Nothing
          BY <4>3, <4>4, SlotIsSome DEF GaugeValues
        <4>6. Row(new)[g] = [labels |-> l, value |-> Nothing]
          BY <2>1, <3>2, <4>2, <4>3, RowFilled
        <4>7. QED
          BY <4>4, <4>5, <4>6
      <3>5. QED
        BY <3>3, <3>4
    <2>5. Row(new) = [g \in GPUs |-> IF board[f][g] = Nothing THEN Nothing
                                    ELSE [labels |-> board[f][g].labels, value |-> Nothing]]
      <3>1. Row(new) = [g \in GPUs |-> Row(new)[g]]
        BY DEF Row
      <3>2. QED
        BY <2>4, <3>1
    <2> HIDE DEF R
    <2>6. Board!Take(s, f)
      BY <1>2, <2>2, <2>3, <2>5 DEF Board!Take
    <2>7. QED
      BY <2>6 DEF Board!Next
  <1>6. ASSUME NEW f \in Gauged, NEW l \in Series, ReadValue(s, f, l)
        PROVE  Board!Next
    <2> DEFINE g == l[1]
               new == view'[s][f]
    <2>1. Awaits(s, f, l)
      BY <1>6 DEF ReadValue
    <2>2. /\ new = [view[s][f] EXCEPT ![l] = gauges[f][l]]
          /\ view' = [view EXCEPT ![s][f] = new]
          /\ new \in Gathered
      <3>1. /\ view[s][f] \in Gathered /\ gauges[f][l] \in GaugeValues
            /\ new = [view[s][f] EXCEPT ![l] = gauges[f][l]]
            /\ view' = [view EXCEPT ![s][f] = new]
        BY <1>6, ValueRead
      <3> HIDE DEF new
      <3>2. new \in Gathered
        BY <3>1 DEF Gathered
      <3>3. QED
        BY <3>1, <3>2
    <2>3. /\ new = Updated(view[s][f], l, gauges[f][l])
          /\ g \in GPUs
          /\ board[f][g] = [labels |-> l, value |-> gauges[f][l]]
          /\ board[f][g] # Nothing
          /\ rows[s][f][g] = [labels |-> l, value |-> Nothing]
          /\ Board!Awaits(s, f, g)
          /\ Row(new) = WithValue(rows[s][f], g, board[f][g].value)
      <3>1. new = Updated(view[s][f], l, gauges[f][l])
        BY <2>2 DEF Updated
      <3> HIDE DEF new
      <3>2. QED
        BY <2>1, <3>1, AwaitedOnBoard
    <2> HIDE DEF new
    <2>4. R(new) = Row(new)
      BY <2>2, SinkAssumption
    <2> HIDE DEF R
    <2>5. rows' = [rows EXCEPT ![s][f] = R(new)]
      BY <1>3, <2>2
    <2>6. rows' = [rows EXCEPT ![s][f][g].value = board[f][g].value]
      BY <2>3, <2>4, <2>5 DEF WithValue
    <2>7. board[f][g].labels = rows[s][f][g].labels
      BY <2>3
    <2> HIDE DEF g
    <2>8. Board!Read(s, f, g)
      BY <1>2, <2>3, <2>6, <2>7 DEF Board!Read
    <2>9. QED
      BY <2>3, <2>8 DEF Board!Next
  <1>7. QED
    BY <1>4, <1>5, <1>6 DEF ScrapeStep

\* The sink shows readers of /metrics nothing but a series board: one series
\* per metric and GPU, re-labelled one slot at a time.
THEOREM SinkImplementsBoard == Spec => ImplementsBoard
  <1>1. Init => Board!Init
    BY InitBoard
  <1>2. IInv /\ [Next]_vars => [Board!Next]_(Board!vars)
    <2> SUFFICES ASSUME IInv, [Next]_vars
                 PROVE  Board!Next \/ UNCHANGED Board!vars
      OBVIOUS
    <2>1. CASE \/ \E ps \in Batches : Publish(ps)
               \/ SkipPoint \/ PublishReturns
               \/ UNCHANGED vars
      BY <2>1, QuietStep
    <2>2. CASE DeletePrevious
      BY <2>2, DeletePreviousOpens DEF Board!Next
    <2>3. CASE WithLabelValues
      BY <2>3, WithLabelValuesPlaces DEF Board!Next
    <2>4. CASE SetValue
      BY <2>4, SetValueWrites DEF Board!Next
    <2>5. ASSUME NEW s \in Scrapers, ScrapeStep(s) PROVE Board!Next
      BY <2>5, ScrapeReads
    <2>6. QED
      BY <2>1, <2>2, <2>3, <2>4, <2>5 DEF Next, PublishStep
  <1>3. QED
    BY <1>1, <1>2, Inductive, PTL DEF Spec, ImplementsBoard, Board!Spec
=============================================================================
