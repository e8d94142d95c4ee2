---------------------------- MODULE CollectProofs ----------------------------
(* Proofs about Collect for any GPUs, fields, scales, owners and readings, *)
(* from those about Reader and Sink.                                       *)
EXTENDS Collect, SubsequenceProofs

RP == INSTANCE ReaderProofs
SP == INSTANCE SinkProofs WITH
          Gauged <- Defined, Dynamic <- Owners, Values <- Published, Batches <- {}

-----------------------------------------------------------------------------
(* The reader and the sink inside the cycle                                *)

\* A step of the cycle is one of the reads, or leaves them alone.
LEMMA StepIsReaders == [Next]_vars => [RP!Next]_(RP!vars)
  <1> SUFFICES ASSUME [Next]_vars, ~UNCHANGED <<ctx, readerVars>> PROVE RP!Next
    BY DEF RP!vars, readerVars
  <1>1. \/ Reader!ReadSamples \/ Reader!Join \/ Reader!Drain \/ Reader!Cancel
        \/ \E g \in GPUs : Reader!WorkerStep(g)
    BY DEF Next, LoopStep, Wake, Refresh, RefreshFails, ReadSamples, JoinOrDrain, NoSamples,
           PublishSamples, PublishStep, WorkerStep, Reassign, KubeletFlips, Cancel,
           Stopped, vars
  <1>2. Reader!ReadSamples => RP!ReadSamples
    BY DEF Reader!ReadSamples, RP!ReadSamples, Reader!Slots, RP!Slots
  <1>3. Reader!Join => RP!Join
    BY DEF Reader!Join, RP!Join
  <1>4. Reader!Drain => RP!Drain
    BY DEF Reader!Drain, RP!Drain
  <1>5. Reader!Cancel => RP!Cancel
    BY DEF Reader!Cancel, RP!Cancel
  <1>6. ASSUME NEW g \in GPUs, Reader!WorkerStep(g) PROVE RP!WorkerStep(g)
    BY <1>6 DEF Reader!WorkerStep, RP!WorkerStep, Reader!WorkerCheck, RP!WorkerCheck,
            Reader!WorkerReturn, RP!WorkerReturn, Reader!WorkerSend, RP!WorkerSend,
            Reader!Answers, RP!Answers, Reader!Capacity, RP!Capacity,
            Reader!FloatValue, RP!FloatValue, Reader!Cardinality, RP!Cardinality
  <1>7. QED
    BY <1>1, <1>2, <1>3, <1>4, <1>5, <1>6 DEF RP!Next, RP!CallerStep

LEMMA ReadsKept == RP!IInv /\ [Next]_vars => RP!IInv'
  <1>1. RP!IInv /\ [RP!Next]_(RP!vars) => RP!IInv'
    BY CollectAssumption, ReadsAssumption, RP!NextIInv DEF IsFiniteSet, RP!IsFiniteSet
  <1>2. QED
    BY <1>1, StepIsReaders

LEMMA ReadsInit == Reader!Init => RP!IInv
  <1>1. Reader!Init => RP!Init
    BY DEF Reader!Init, RP!Init, Reader!Slots, RP!Slots
  <1>2. RP!Init => RP!IInv
    BY CollectAssumption, ReadsAssumption, RP!InitIInv DEF IsFiniteSet, RP!IsFiniteSet
  <1>3. QED
    BY <1>1, <1>2

\* What Sink assumes of its constants holds of the cycle's.
LEMMA SinkAssumed ==
    /\ Defined \subseteq Fields /\ {} \subseteq Seq(SP!Points)
    /\ Absent \notin Published \cup {0}
    /\ Unseen \notin SP!Series
    /\ NotRead \notin SP!GaugeValues \cup SP!Gathered
    /\ Nothing \notin Published \cup {0} \cup (Defined \X GPUs)
    /\ Nothing \notin SP!Slots \cup [GPUs -> SP!Slots \cup {Nothing}]
  <1>1. SP!GaugeValues = Published \cup {0, Absent}
    BY DEF SP!GaugeValues
  <1>2. SP!GaugeValues \cup {NotRead} = Published \cup {0, Absent, NotRead}
    BY <1>1
  <1>3. NotRead \notin SP!GaugeValues \cup SP!Gathered
    BY <1>1, <1>2, SeriesAssumption DEF SP!Series, SP!Gathered
  <1>4. Nothing \notin SP!Slots \cup [GPUs -> SP!Slots \cup {Nothing}]
    BY SeriesAssumption DEF SP!Series, SP!Slots
  <1>5. QED
    BY <1>3, <1>4, CollectAssumption, SeriesAssumption DEF SP!Series

LEMMA SinkInit == Sink!Init => SP!IInv
  <1>1. Sink!Init => SP!Init
    BY DEF Sink!Init, SP!Init, Sink!Series, SP!Series
  <1>2. SP!Init => SP!IInv
    BY SinkAssumed, SP!InitIInv
  <1>3. QED
    BY <1>1, <1>2

LEMMA SinkPublishes ==
    ASSUME SP!IInv, NEW ps \in Seq(SP!Points), Sink!Publish(ps)
    PROVE  SP!IInv'
  <1>1. SP!Publish(ps)
    BY DEF Sink!Publish, SP!Publish
  <1>2. QED
    BY <1>1, SinkAssumed, SP!PublishCallStep

LEMMA SinkSteps ==
    ASSUME SP!IInv, Sink!PublishStep
    PROVE  SP!IInv'
  <1>1. SP!PublishStep
    BY DEF Sink!PublishStep, SP!PublishStep, Sink!SkipPoint, SP!SkipPoint,
           Sink!DeletePrevious, SP!DeletePrevious, Sink!WithLabelValues, SP!WithLabelValues,
           Sink!SetValue, SP!SetValue, Sink!PublishReturns, SP!PublishReturns,
           Sink!Relabelled, SP!Relabelled, Sink!point, SP!point,
           Sink!LeavesVector, SP!LeavesVector, Sink!Awaits, SP!Awaits
  <1>2. QED
    BY <1>1, SinkAssumed, SP!PublishStepIInv

LEMMA SinkStutters ==
    ASSUME SP!IInv, UNCHANGED sinkVars
    PROVE  SP!IInv'
  BY SinkAssumed, SP!StutterStep DEF SP!vars, sinkVars

-----------------------------------------------------------------------------
(* The invariant of the cycle                                              *)

\* The variables of the cycle that neither the reader nor the sink has.
CycleType ==
    /\ assigned \in [GPUs -> Owners]
    /\ kubelet \in {"up", "down", "hung"}
    /\ changes \in 0..MaxChanges
    /\ pc \in {"sleep", "refresh", "read", "reading", "publish", "stopped"}
    /\ labels \in [GPUs -> Owners]
    /\ outcome \in {"none", "ok", "error"}
    /\ held \in [GPUs -> SUBSET Owners]

\* Reads are under way only while the cycle reads, and Publish only while it
\* publishes; it publishes what a call of ReadSamples that is over returned.
PhaseInv ==
    /\ caller \in {"joining", "draining"} => pc = "reading"
    /\ pc = "publish" => caller = "returned"
    /\ at # "idle" => pc = "publish"

\* An owner GPU g has, or is labelled with, since the cycle began is in held[g].
HeldInv ==
    \A g \in GPUs :
        /\ pc \in {"refresh", "read", "reading", "publish"} => assigned[g] \in held[g]
        /\ pc \in {"read", "reading", "publish"} => labels[g] \in held[g]

\* What is published, and still shown when the cycle has succeeded, are the points
\* of the samples at hand under the labels at hand.
BatchInv ==
    pc = "publish" \/ (pc = "sleep" /\ outcome = "ok") =>
        /\ batch = PointsOf(samples)
        /\ caller = "returned"

CycleInv == CycleType /\ PhaseInv /\ HeldInv /\ BatchInv

IInv == CycleInv /\ RP!IInv /\ SP!IInv

-----------------------------------------------------------------------------
(* The points of a cycle                                                   *)

\* The samples a point is made of.
KeptOf(ss) == {i \in DOMAIN ss : FieldAt[ss[i].slot] \in Defined}

\* A sample of a defined field becomes a point of the sink.
LEMMA PointIsTyped ==
    ASSUME labels \in [GPUs -> Owners],
           NEW r \in RP!Readings, FieldAt[r.slot] \in Defined
    PROVE  /\ ToPoint(r) \in SP!Points
           /\ ToPoint(r).field = FieldAt[r.slot] /\ ToPoint(r).gpu = r.gpu
           /\ ToPoint(r).value = ApplyScale(FieldAt[r.slot], r.value)
           /\ ToPoint(r).labels = <<r.gpu, labels[r.gpu]>>
  <1>1. r.gpu \in GPUs /\ r.value \in Values
    BY DEF RP!Readings
  <1>2. ApplyScale(FieldAt[r.slot], r.value) \in Published
    BY <1>1 DEF Published
  <1>3. FieldAt[r.slot] \in Fields
    BY CollectAssumption
  <1>4. labels[r.gpu] \in Owners
    BY <1>1
  <1>5. ToPoint(r) = [field |-> FieldAt[r.slot], gpu |-> r.gpu,
                      value |-> ApplyScale(FieldAt[r.slot], r.value),
                      labels |-> <<r.gpu, labels[r.gpu]>>]
    BY DEF ToPoint, LabelsFor, Sink!LabelValues
  <1>6. QED
    BY <1>1, <1>2, <1>3, <1>4, <1>5 DEF SP!Points, SP!Series, SP!LabelValues

\* The points of a slice of samples: one for each sample that is kept, in order.
LEMMA PointsFacts ==
    ASSUME labels \in [GPUs -> Owners], NEW ss \in Seq(RP!Readings)
    PROVE  /\ PointsOf(ss) \in Seq(SP!Points)
           /\ DOMAIN PointsOf(ss) = 1..Cardinality(KeptOf(ss))
           /\ \A m \in DOMAIN PointsOf(ss) :
                 /\ PositionIn(KeptOf(ss), m) \in KeptOf(ss)
                 /\ ss[PositionIn(KeptOf(ss), m)] \in RP!Readings
                 /\ PointsOf(ss)[m] = ToPoint(ss[PositionIn(KeptOf(ss), m)])
           /\ \A i \in KeptOf(ss) : \E m \in DOMAIN PointsOf(ss) :
                 PositionIn(KeptOf(ss), m) = i
           /\ \A m, n \in DOMAIN PointsOf(ss) :
                 m < n => PositionIn(KeptOf(ss), m) < PositionIn(KeptOf(ss), n)
  <1> DEFINE K == KeptOf(ss)
             c == Cardinality(K)
             place(m) == PositionIn(K, m)
  <1>1. K \in SUBSET DOMAIN ss /\ \A i \in K : FieldAt[ss[i].slot] \in Defined
    BY DEF KeptOf
  <1>2. PointsOf(ss) = [m \in DOMAIN ElementsAt(ss, K) |-> ToPoint(ElementsAt(ss, K)[m])]
    BY DEF PointsOf, KeptOf
  <1>3. Len(ss) \in Nat /\ K \in SUBSET (1..Len(ss))
    BY <1>1, LenProperties
  <1> HIDE DEF K
  <1>4. /\ DOMAIN ElementsAt(ss, K) = 1..c
        /\ \A m \in 1..c : place(m) \in K /\ ElementsAt(ss, K)[m] = ss[place(m)]
    BY <1>1, Picked
  <1>5. /\ c \in Nat
        /\ \A i \in K : \E m \in 1..c : place(m) = i
        /\ \A m, n \in 1..c : m < n => place(m) < place(n)
    <2> DEFINE n == Len(ss)
    <2>1. n \in Nat /\ K \in SUBSET (1..n)
      BY <1>3
    <2> HIDE DEF n
    <2>2. c \in 0..n
      BY <2>1, Count
    <2>3. /\ \A i \in K : \E m \in 1..c : place(m) = i
          /\ \A j, k \in 1..c : j < k => place(j) < place(k)
      BY <2>1, Positions
    <2>4. QED
      BY <2>1, <2>2, <2>3
  <1>6. \A m \in 1..c : ss[place(m)] \in RP!Readings
    BY <1>1, <1>3, <1>4, ElementOfSeq
  <1>7. PointsOf(ss) = [m \in 1..c |-> ToPoint(ss[place(m)])]
    BY <1>2, <1>4
  <1>8. \A m \in 1..c : ToPoint(ss[place(m)]) \in SP!Points
    BY <1>1, <1>4, <1>6, PointIsTyped
  <1>9. PointsOf(ss) \in Seq(SP!Points)
    <2> HIDE DEF c, place
    <2>1. QED
      BY <1>5, <1>7, <1>8
  <1>10. QED
    BY <1>4, <1>5, <1>6, <1>7, <1>9 DEF K

-----------------------------------------------------------------------------
(* Each step                                                               *)

LEMMA InitIInv == Init => IInv
  <1> SUFFICES ASSUME Init PROVE IInv
    OBVIOUS
  <1>1. RP!IInv /\ SP!IInv
    BY ReadsInit, SinkInit DEF Init
  <1>2. caller = "idle" /\ at = "idle"
    BY DEF Init, Reader!Init, Sink!Init
  <1>3. CycleType
    BY CollectAssumption DEF Init, CycleType
  <1>4. PhaseInv /\ HeldInv /\ BatchInv
    BY <1>2 DEF Init, PhaseInv, HeldInv, BatchInv
  <1>5. QED
    BY <1>1, <1>3, <1>4 DEF IInv, CycleInv

\* The points of the samples at hand do not change while these and the labels do
\* not.
LEMMA PointsKept ==
    ASSUME samples' = samples, labels' = labels
    PROVE  PointsOf(samples)' = PointsOf(samples)
  BY DEF PointsOf, ToPoint, LabelsFor

\* The kubelet, and the signal, change neither labels nor samples.
LEMMA EnvironmentStep ==
    ASSUME CycleInv, (\E g \in GPUs, o \in Owners : Reassign(g, o)) \/ KubeletFlips \/ Cancel
    PROVE  CycleInv'
  <1> USE DEF CycleInv, CycleType, PhaseInv, HeldInv, BatchInv, readerVars, sinkVars
  <1>1. UNCHANGED <<pc, labels, outcome, caller, samples, sinkVars>>
    BY DEF Reassign, KubeletFlips, Cancel, Reader!Cancel
  <1>2. PhaseInv' /\ BatchInv'
    BY <1>1, PointsKept
  <1>3. ASSUME NEW g \in GPUs, NEW o \in Owners, Reassign(g, o) PROVE CycleInv'
    <2>1. CycleType'
      BY <1>1, <1>3, CollectAssumption DEF Reassign
    <2>2. HeldInv'
      BY <1>1, <1>3 DEF Reassign
    <2>3. QED
      BY <1>2, <2>1, <2>2
  <1>4. CASE KubeletFlips
    BY <1>1, <1>2, <1>4, CollectAssumption DEF KubeletFlips
  <1>5. CASE Cancel
    BY <1>1, <1>2, <1>5 DEF Cancel, kubeletVars
  <1>6. QED
    BY <1>3, <1>4, <1>5

LEMMA WakeStep == CycleInv /\ Wake => CycleInv'
  BY DEF CycleInv, CycleType, PhaseInv, HeldInv, BatchInv, readerVars, sinkVars,
         kubeletVars, Wake

LEMMA RefreshStep == CycleInv /\ (Refresh \/ RefreshFails) => CycleInv'
  BY DEF CycleInv, CycleType, PhaseInv, HeldInv, BatchInv, readerVars, sinkVars,
         kubeletVars, Refresh, RefreshFails

LEMMA ReadSamplesStep == CycleInv /\ ReadSamples => CycleInv'
  BY DEF CycleInv, CycleType, PhaseInv, HeldInv, BatchInv, sinkVars, kubeletVars,
         ReadSamples, Reader!ReadSamples

LEMMA JoinOrDrainStep == CycleInv /\ JoinOrDrain => CycleInv'
  BY DEF CycleInv, CycleType, PhaseInv, HeldInv, BatchInv, sinkVars, kubeletVars,
         JoinOrDrain, Reader!Join, Reader!Drain

\* The goroutines run only while the cycle reads.
LEMMA WorkerSteps ==
    ASSUME CycleInv, NEW g \in GPUs, WorkerStep(g)
    PROVE  CycleInv'
  <1>1. UNCHANGED <<kubeletVars, pc, labels, outcome, held, caller, samples, sinkVars>>
    BY DEF WorkerStep, Reader!WorkerStep, Reader!WorkerCheck, Reader!WorkerReturn,
           Reader!WorkerSend
  <1>2. PointsOf(samples)' = PointsOf(samples)
    BY <1>1, PointsKept
  <1>3. QED
    BY <1>1, <1>2 DEF CycleInv, CycleType, PhaseInv, HeldInv, BatchInv, kubeletVars, sinkVars

LEMMA SamplesStep == CycleInv /\ (NoSamples \/ PublishSamples) => CycleInv'
  <1> SUFFICES ASSUME CycleInv, NoSamples \/ PublishSamples PROVE CycleInv'
    OBVIOUS
  <1>1. CASE NoSamples
    BY <1>1 DEF CycleInv, CycleType, PhaseInv, HeldInv, BatchInv, kubeletVars, sinkVars,
                readerVars, NoSamples
  <1>2. CASE PublishSamples
    <2>1. /\ batch' = PointsOf(samples) /\ pc' = "publish" /\ caller' = "returned"
          /\ UNCHANGED <<kubeletVars, labels, outcome, held, samples>>
          /\ pc = "reading"
      BY <1>2 DEF PublishSamples, Sink!Publish, readerVars
    <2>2. PointsOf(samples)' = PointsOf(samples)
      BY <2>1, PointsKept
    <2>3. QED
      BY <2>1, <2>2 DEF CycleInv, CycleType, PhaseInv, HeldInv, BatchInv, kubeletVars
  <1>3. QED
    BY <1>1, <1>2

LEMMA PublishStepStep == CycleInv /\ PublishStep => CycleInv'
  <1> SUFFICES ASSUME CycleInv, PublishStep PROVE CycleInv'
    OBVIOUS
  <1>1. UNCHANGED <<kubeletVars, labels, held, caller, samples, batch>>
    BY DEF PublishStep, readerVars, Sink!PublishStep, Sink!SkipPoint, Sink!DeletePrevious,
           Sink!WithLabelValues, Sink!SetValue, Sink!PublishReturns
  <1>2. PointsOf(samples)' = PointsOf(samples)
    BY <1>1, PointsKept
  <1>3. /\ pc = "publish"
        /\ at' = "idle" => pc' = "sleep" /\ outcome' = "ok"
        /\ at' # "idle" => UNCHANGED <<pc, outcome>>
    BY DEF PublishStep
  <1>4. QED
    BY <1>1, <1>2, <1>3 DEF CycleInv, CycleType, PhaseInv, HeldInv, BatchInv, kubeletVars

LEMMA StutterStep == CycleInv /\ UNCHANGED vars => CycleInv'
  <1> SUFFICES ASSUME CycleInv, UNCHANGED vars PROVE CycleInv'
    OBVIOUS
  <1>1. PointsOf(samples)' = PointsOf(samples)
    BY PointsKept DEF vars, readerVars
  <1>2. QED
    BY <1>1 DEF CycleInv, CycleType, PhaseInv, HeldInv, BatchInv, vars, kubeletVars,
                readerVars, sinkVars

\* What the sink is given are points of its own, and it is not given any while it
\* publishes.
LEMMA SinkKept == IInv /\ [Next]_vars => SP!IInv'
  <1> SUFFICES ASSUME IInv, [Next]_vars PROVE SP!IInv'
    OBVIOUS
  <1>1. SP!IInv
    BY DEF IInv
  <1>2. CASE PublishSamples
    <2>1. samples \in Seq(RP!Readings) /\ labels \in [GPUs -> Owners]
      BY DEF IInv, CycleInv, CycleType, RP!IInv, RP!TypeOK
    <2>2. PointsOf(samples) \in Seq(SP!Points)
      BY <2>1, PointsFacts
    <2>3. QED
      BY <1>1, <1>2, <2>2, SinkPublishes DEF PublishSamples
  <1>3. CASE PublishStep
    BY <1>1, <1>3, SinkSteps DEF PublishStep
  <1>4. CASE ~PublishSamples /\ ~PublishStep
    <2>1. UNCHANGED sinkVars
      BY <1>4 DEF Next, LoopStep, Wake, Refresh, RefreshFails, ReadSamples, JoinOrDrain,
                  NoSamples, WorkerStep, Reassign, KubeletFlips, Cancel, Stopped, vars
    <2>2. QED
      BY <1>1, <2>1, SinkStutters
  <1>5. QED
    BY <1>2, <1>3, <1>4

\* The invariant of the cycle, with those of the reader and the sink, is
\* inductive.
THEOREM Inductive == Spec => []IInv
  <1>1. CycleInv /\ [Next]_vars => CycleInv'
    BY EnvironmentStep, WakeStep, RefreshStep, ReadSamplesStep, JoinOrDrainStep,
       WorkerSteps, SamplesStep, PublishStepStep, StutterStep
    DEF Next, LoopStep, Stopped
  <1>2. IInv /\ [Next]_vars => IInv'
    BY <1>1, ReadsKept, SinkKept DEF IInv
  <1>3. QED
    BY InitIInv, <1>2, PTL DEF Spec

-----------------------------------------------------------------------------
(* The theorems                                                            *)

\* Every variable stays in its type, those of the reader and the sink included.
THEOREM TypeCorrect == Spec => []TypeOK
  <1>1. RP!IInv => Reader!TypeOK
    BY DEF RP!IInv, RP!TypeOK, Reader!TypeOK, RP!CallerStates, Reader!CallerStates,
           RP!WorkerStates, Reader!WorkerStates, RP!Slots, Reader!Slots,
           RP!Answers, Reader!Answers, RP!Readings, Reader!Readings
  <1>2. SP!IInv => Sink!TypeOK
    BY DEF SP!IInv, SP!TypeOK, Sink!TypeOK, SP!Vector, Sink!Vector, SP!Series, Sink!Series,
           SP!Gathered, Sink!Gathered,
           SP!GaugeValues, Sink!GaugeValues, SP!Points, Sink!Points,
           SP!LabelValues, Sink!LabelValues
  <1>3. IInv => TypeOK
    BY <1>1, <1>2 DEF IInv, CycleInv, CycleType, TypeOK
  <1>4. QED
    BY <1>3, Inductive, PTL

\* No GPU is published under a workload it lost before the cycle began.
THEOREM LabelsAreCurrent == Spec => []LabelsFromThisCycle
  <1>1. IInv => LabelsFromThisCycle
    <2> SUFFICES ASSUME IInv, pc = "publish", NEW m \in DOMAIN batch
                 PROVE  batch[m].labels[2] \in held[batch[m].gpu]
      BY DEF LabelsFromThisCycle
    <2>1. /\ samples \in Seq(RP!Readings) /\ labels \in [GPUs -> Owners]
          /\ batch = PointsOf(samples)
      BY DEF IInv, CycleInv, CycleType, BatchInv, RP!IInv, RP!TypeOK
    <2>2. PICK i \in KeptOf(samples) :
              samples[i] \in RP!Readings /\ batch[m] = ToPoint(samples[i])
      BY <2>1, PointsFacts
    <2>3. FieldAt[samples[i].slot] \in Defined /\ samples[i].gpu \in GPUs
      BY <2>2 DEF KeptOf, RP!Readings
    <2>4. batch[m].gpu = samples[i].gpu
          /\ batch[m].labels = <<samples[i].gpu, labels[samples[i].gpu]>>
      BY <2>1, <2>2, <2>3, PointIsTyped
    <2>5. labels[samples[i].gpu] \in held[samples[i].gpu]
      BY <2>3 DEF IInv, CycleInv, HeldInv
    <2>6. QED
      BY <2>4, <2>5
  <1>2. QED
    BY <1>1, Inductive, PTL

\* The reader's and the sink's own properties, at the states the cycle's needs.
LEMMA PartsDeliver ==
    ASSUME IInv
    PROVE  RP!ReturnsEveryAnswer /\ RP!FieldOrderKept /\ SP!PublishedWhenDone
  <1>1. RP!ReturnsEveryAnswer /\ RP!FieldOrderKept
    BY CollectAssumption, ReadsAssumption, RP!AnswersFollow, RP!OrderFollows
       DEF IInv, IsFiniteSet, RP!IsFiniteSet
  <1>2. SP!PublishedWhenDone
    BY SinkAssumed, SP!PublishedFollows DEF IInv
  <1>3. QED
    BY <1>1, <1>2

\* After a successful cycle /metrics shows what RDC answered in it: one series for
\* each defined field and GPU, with the cycle's labels and the scaled reading.
THEOREM EndToEnd == Spec => []CycleEndToEnd
  <1>1. IInv => CycleEndToEnd
    <2> SUFFICES ASSUME IInv, pc = "sleep", outcome = "ok",
                        NEW g \in GPUs, NEW k \in DOMAIN FieldAt,
                        FieldAt[k] \in Defined, LastAnswered(g, k)
                 PROVE  LET f == FieldAt[k]
                            l == Sink!LabelValues(g, labels[g])
                        IN  /\ Sink!Shown(gauges[f], g) = {l}
                            /\ gauges[f][l] = ApplyScale(f, Reader!FloatValue(answer[g][k]))
      BY DEF CycleEndToEnd
    <2> DEFINE K == KeptOf(samples)
               f == FieldAt[k]
               v == RP!FloatValue(answer[g][k])
    <2>1. /\ samples \in Seq(RP!Readings) /\ labels \in [GPUs -> Owners]
          /\ batch = PointsOf(samples) /\ caller = "returned" /\ at = "idle"
      BY DEF IInv, CycleInv, CycleType, PhaseInv, BatchInv, RP!IInv, RP!TypeOK
    <2>2. k \in RP!Slots
      BY CollectAssumption DEF RP!Slots
    <2>3. <<g, k>> \in RP!Answered
      BY <2>2 DEF LastAnswered, RP!Answered
    <2>4. PICK i \in DOMAIN samples : samples[i] = [gpu |-> g, slot |-> k, value |-> v]
      <3>1. [gpu |-> g, slot |-> k, value |-> v] \in RP!Collected
        BY <2>1, <2>3, PartsDeliver DEF RP!ReturnsEveryAnswer
      <3>2. QED
        BY <3>1 DEF RP!Collected
    <2>5. samples[i].gpu = g /\ samples[i].slot = k /\ samples[i].value = v
      BY <2>4
    <2>6. i \in K
      BY <2>5 DEF KeptOf
    <2>7. PICK m \in DOMAIN batch : PositionIn(K, m) = i
      BY <2>1, <2>6, PointsFacts
    <2>8. /\ batch[m].field = f /\ batch[m].gpu = g
          /\ batch[m].value = ApplyScale(f, v) /\ batch[m].labels = <<g, labels[g]>>
      <3>1. batch[m] = ToPoint(samples[i]) /\ samples[i] \in RP!Readings
        BY <2>1, <2>7, PointsFacts
      <3>2. QED
        BY <2>1, <2>5, <3>1, PointIsTyped
    <2>9. SP!LastOf(m)
      <3> SUFFICES ASSUME NEW n \in DOMAIN batch, n > m,
                          batch[n].field = f, batch[n].gpu = g
                   PROVE  FALSE
        BY <2>8 DEF SP!LastOf
      <3> DEFINE j == PositionIn(K, n)
      <3>1. /\ j \in K /\ samples[j] \in RP!Readings /\ batch[n] = ToPoint(samples[j])
            /\ i < j
        <4>1. m \in 1..Cardinality(K) /\ n \in 1..Cardinality(K) /\ m < n
          <5>1. DOMAIN batch = 1..Cardinality(K)
            BY <2>1, PointsFacts
          <5>2. m \in Int /\ n \in Int
            BY <5>1
          <5>3. QED
            BY <5>1, <5>2
        <4>2. QED
          BY <2>1, <2>7, <4>1, PointsFacts
      <3> HIDE DEF j
      <3>2. samples[j].gpu = g /\ FieldAt[samples[j].slot] = f
            /\ j \in DOMAIN samples
        <4>1. FieldAt[samples[j].slot] \in Defined /\ j \in DOMAIN samples
          BY <3>1 DEF KeptOf
        <4>2. QED
          BY <2>1, <3>1, <4>1, PointIsTyped
      <3>3. k < samples[j].slot
        BY <2>5, <3>1, <3>2, PartsDeliver DEF RP!FieldOrderKept
      <3>4. samples[j].slot \in RP!Slots /\ samples[j].slot \in DOMAIN FieldAt
        BY <3>1, CollectAssumption DEF RP!Readings, RP!Slots
      <3>5. answer[g][samples[j].slot] \in {Failed, Unread}
        <4>1. samples[j].slot \in Int /\ k \in Int
          BY <3>4, <2>2, CollectAssumption DEF RP!Slots
        <4>2. samples[j].slot > k
          BY <3>3, <4>1
        <4>3. QED
          BY <3>2, <3>4, <4>2 DEF LastAnswered
      <3>6. samples[j] \in RP!Collected
        BY <3>2 DEF RP!Collected
      <3>7. PICK p \in RP!Answered : samples[j] = [gpu |-> p[1], slot |-> p[2],
                                        value |-> RP!FloatValue(answer[p[1]][p[2]])]
        BY <2>1, <3>6, PartsDeliver DEF RP!ReturnsEveryAnswer
      <3>8. p[1] = g /\ p[2] = samples[j].slot
        BY <3>2, <3>7
      <3>9. QED
        BY <3>5, <3>7, <3>8 DEF RP!Answered
    <2>10. /\ SP!Shown(gauges[f], g) = {<<g, labels[g]>>}
           /\ gauges[f][<<g, labels[g]>>] = ApplyScale(f, v)
      BY <2>1, <2>8, <2>9, PartsDeliver DEF SP!PublishedWhenDone
    <2>11. QED
      BY <2>10 DEF SP!Shown, Sink!Shown, Sink!LabelValues, RP!FloatValue, Reader!FloatValue,
                   SP!Series, Sink!Series
  <1>2. QED
    BY <1>1, Inductive, PTL

-----------------------------------------------------------------------------
(* The loop implements the attributed board: its steps are those of        *)
(* Attribution, or leave the board alone.                                  *)

\* The sink's board is the same for the two instances of the sink.
LEMMA SameBoard ==
    /\ SP!board = Sink!board /\ SP!current = Sink!current /\ SP!rows = Sink!rows
    /\ SP!board' = Sink!board' /\ SP!current' = Sink!current' /\ SP!rows' = Sink!rows'
  BY DEF SP!board, Sink!board, SP!current, Sink!current, SP!rows, Sink!rows, SP!Row, Sink!Row,
         SP!Shown, Sink!Shown, SP!Series, Sink!Series, SP!point, Sink!point

\* The point at hand is labelled with the owner listed.
LEMMA PointAtHand ==
    ASSUME IInv, pc = "publish", points # <<>>
    PROVE  SP!point.labels = <<SP!point.gpu, labels[SP!point.gpu]>>
  <1>1. /\ samples \in Seq(RP!Readings) /\ labels \in [GPUs -> Owners]
        /\ batch = PointsOf(samples)
    BY DEF IInv, CycleInv, CycleType, BatchInv, RP!IInv, RP!TypeOK
  <1>2. /\ points \in Seq(SP!Points) /\ batch \in Seq(SP!Points) /\ SP!SuffixInv
    BY DEF IInv, SP!IInv, SP!TypeOK
  <1> DEFINE m == Len(batch) - Len(points) + 1
  <1>3. SP!point = batch[m] /\ m \in DOMAIN batch
    <2>1. Len(points) \in Nat \ {0} /\ Len(batch) \in Nat /\ SP!point = points[1]
      BY <1>2 DEF SP!point
    <2>2. Len(points) <= Len(batch) /\ points[1] = batch[m]
      BY <1>2, <2>1 DEF SP!SuffixInv
    <2>3. QED
      BY <1>2, <2>1, <2>2
  <1> HIDE DEF m
  <1>4. PICK i \in KeptOf(samples) :
            samples[i] \in RP!Readings /\ batch[m] = ToPoint(samples[i])
    BY <1>1, <1>3, PointsFacts
  <1>5. FieldAt[samples[i].slot] \in Defined
    BY <1>4 DEF KeptOf
  <1>6. QED
    BY <1>1, <1>3, <1>4, <1>5, PointIsTyped

\* What does not concern the sink leaves the board alone.
LEMMA BoardKept ==
    ASSUME SP!IInv, UNCHANGED sinkVars
    PROVE  UNCHANGED <<Sink!board, Sink!current, Sink!rows>>
  <1>1. UNCHANGED SP!vars
    BY DEF SP!vars, sinkVars
  <1>2. UNCHANGED SP!Board!vars
    BY <1>1, SinkAssumed, SP!QuietStep
  <1>3. QED
    BY <1>2, SameBoard DEF SP!Board!vars

\* The steps of Publish.
LEMMA PublishStepAttributed ==
    ASSUME IInv, PublishStep
    PROVE  [Attributed!Next]_(Attributed!vars)
  <1> DEFINE f == SP!point.field
             g == SP!point.gpu
  <1>1. /\ SP!IInv /\ pc = "publish" /\ UNCHANGED <<assigned, labels>>
        /\ IF at' = "idle" THEN pc' = "sleep" ELSE pc' = pc
    BY DEF IInv, PublishStep, kubeletVars
  <1>2. \/ SP!SkipPoint \/ SP!DeletePrevious \/ SP!WithLabelValues \/ SP!SetValue
        \/ SP!PublishReturns
    BY DEF PublishStep, Sink!PublishStep, Sink!SkipPoint, SP!SkipPoint,
           Sink!DeletePrevious, SP!DeletePrevious, Sink!WithLabelValues, SP!WithLabelValues,
           Sink!SetValue, SP!SetValue, Sink!PublishReturns, SP!PublishReturns,
           Sink!Relabelled, SP!Relabelled, Sink!point, SP!point,
           Sink!LeavesVector, SP!LeavesVector, Sink!Awaits, SP!Awaits
  <1>3. CASE SP!SkipPoint
    <2>1. at' = at /\ at = "lookup"
      BY <1>3 DEF SP!SkipPoint
    <2>2. UNCHANGED SP!Board!vars
      BY <1>1, <1>3, SinkAssumed, SP!QuietStep
    <2>3. QED
      BY <1>1, <2>1, <2>2, SameBoard DEF SP!Board!vars, Attributed!vars
  <1>4. CASE SP!PublishReturns
    <2>1. at = "lookup" /\ at' = "idle"
      BY <1>4 DEF SP!PublishReturns
    <2>2. UNCHANGED SP!Board!vars
      BY <1>1, <1>4, SinkAssumed, SP!QuietStep
    <2>3. SP!current = Nothing
      BY <2>1 DEF SP!current
    <2>4. Attributed!End
      BY <1>1, <2>1, <2>2, <2>3, SameBoard DEF SP!Board!vars, Attributed!End
    <2>5. QED
      BY <2>4 DEF Attributed!Next
  <1>5. CASE SP!DeletePrevious \/ SP!WithLabelValues \/ SP!SetValue
    <2>1. at' # "idle" /\ points # <<>>
      BY <1>1, <1>5 DEF SP!DeletePrevious, SP!WithLabelValues, SP!SetValue, SP!IInv, SP!PublishInv
    <2>2. SP!point.labels = <<g, labels[g]>>
      BY <1>1, <2>1, PointAtHand
    <2>3. /\ f \in Defined /\ g \in GPUs
          /\ \/ SP!Board!Open(f, g)
             \/ SP!Board!Place(f, g, <<g, labels[g]>>)
             \/ /\ \E v \in Published : SP!Board!Write(f, g, v)
                /\ SP!board[f][g].labels = <<g, labels[g]>>
      <3>1. CASE SP!DeletePrevious
        BY <1>1, <3>1, SinkAssumed, SP!DeletePreviousOpens
      <3>2. CASE SP!WithLabelValues
        <4> HIDE DEF f, g
        <4>1. /\ f \in Defined /\ g \in GPUs
              /\ SP!Board!Open(f, g) \/ SP!Board!Place(f, g, SP!point.labels)
          BY <1>1, <3>2, SinkAssumed, SP!WithLabelValuesPlaces DEF f, g
        <4>2. QED
          BY <2>2, <4>1
      <3>3. CASE SP!SetValue
        <4>1. /\ f \in Defined /\ g \in GPUs /\ SP!point.value \in Published
              /\ SP!board[f][g].labels = SP!point.labels
              /\ SP!Board!Write(f, g, SP!point.value)
          BY <1>1, <3>3, SinkAssumed, SP!SetValueWrites
        <4> HIDE DEF f, g
        <4>2. QED
          BY <2>2, <4>1
      <3>4. QED
        BY <1>5, <3>1, <3>2, <3>3
    <2> HIDE DEF f, g
    <2>4. Attributed!Publish(f, g)
      BY <1>1, <2>1, <2>3, SameBoard
      DEF Attributed!Publish, SP!Board!Open, Attributed!Board!Open,
          SP!Board!Awaits, Attributed!Board!Awaits, SP!Board!Place,
          Attributed!Board!Place, SP!Board!Write, Attributed!Board!Write
    <2>5. QED
      BY <2>3, <2>4 DEF Attributed!Next
  <1>6. QED
    BY <1>2, <1>3, <1>4, <1>5

\* All the others.
LEMMA OtherStepsAttributed ==
    ASSUME IInv, [Next]_vars, ~PublishStep
    PROVE  [Attributed!Next]_(Attributed!vars)
  <1>1. SP!IInv /\ (at # "idle" => pc = "publish")
    BY DEF IInv, CycleInv, PhaseInv
  <1>2. CASE PublishSamples
    <2>1. SP!Publish(PointsOf(samples))
      BY <1>2 DEF PublishSamples, Sink!Publish, SP!Publish
    <2>2. UNCHANGED SP!Board!vars
      BY <1>1, <2>1, SinkAssumed, SP!QuietStep
    <2>3. QED
      BY <1>2, <2>2, SameBoard DEF PublishSamples, kubeletVars, SP!Board!vars, Attributed!vars
  <1>3. CASE ~PublishSamples
    <2>1. UNCHANGED sinkVars
      BY <1>3 DEF Next, LoopStep, Wake, Refresh, RefreshFails, ReadSamples, JoinOrDrain,
                  NoSamples, WorkerStep, Reassign, KubeletFlips, Cancel, Stopped, vars
    <2>2. UNCHANGED <<Sink!board, Sink!current, Sink!rows>>
      BY <1>1, <2>1, BoardKept
    <2>3. CASE \E g \in GPUs, o \in Owners : Reassign(g, o)
      BY <2>2, <2>3 DEF Reassign, Attributed!Next, Attributed!Reassign
    <2>4. CASE Refresh
      BY <2>2, <2>4 DEF Refresh, kubeletVars, Attributed!Next, Attributed!List
    <2>5. CASE ReadSamples \/ NoSamples
      <3>1. /\ pc \in {"read", "reading"} /\ UNCHANGED <<assigned, labels>>
            /\ pc' \in {"sleep", "reading"}
        BY <2>5 DEF ReadSamples, NoSamples, kubeletVars
      <3>2. Sink!current = Nothing
        BY <1>1, <3>1 DEF Sink!current
      <3>3. QED
        BY <2>2, <3>1, <3>2 DEF Attributed!Next, Attributed!End, Attributed!vars
    <2>6. CASE Wake \/ RefreshFails
      BY <2>2, <2>6 DEF Wake, RefreshFails, kubeletVars, Attributed!vars
    <2>7. CASE JoinOrDrain \/ (\E g \in GPUs : WorkerStep(g)) \/ KubeletFlips \/ Cancel
               \/ UNCHANGED vars
      <3>1. UNCHANGED <<assigned, pc, labels>>
        BY <2>7 DEF JoinOrDrain, WorkerStep, KubeletFlips, Cancel, kubeletVars, vars
      <3>2. QED
        BY <2>2, <3>1 DEF Attributed!vars
    <2>8. QED
      BY <1>3, <2>3, <2>4, <2>5, <2>6, <2>7 DEF Next, LoopStep, Stopped
  <1>4. QED
    BY <1>2, <1>3

\* The collection loop implements the attributed board.
THEOREM LoopImplementsAttribution == Spec => ImplementsAttribution
  <1>1. Init => Attributed!Init
    <2> SUFFICES ASSUME Init PROVE Attributed!Init
      OBVIOUS
    <2>1. SP!Init
      BY DEF Init, Sink!Init, SP!Init, Sink!Series, SP!Series
    <2>2. SP!Board!Init
      BY <2>1, SinkAssumed, SP!InitBoard
    <2>3. Attributed!Board!Init
      BY <2>2, SameBoard DEF SP!Board!Init, Attributed!Board!Init
    <2>4. QED
      BY <2>3, CollectAssumption DEF Init, Attributed!Init
  <1>2. IInv /\ [Next]_vars => [Attributed!Next]_(Attributed!vars)
    BY PublishStepAttributed, OtherStepsAttributed
  <1>3. QED
    BY <1>1, <1>2, Inductive, PTL DEF Spec, ImplementsAttribution, Attributed!Spec
=============================================================================
