--------------------------- MODULE ExporterProofs ---------------------------
(* Proofs about Exporter for any GPUs, fields and requests.                *)
EXTENDS Exporter, TLAPS, SequenceTheorems

-----------------------------------------------------------------------------
(* The stack of deferred calls                                             *)

\* What main may have deferred, by how far it came: without the RDC session,
\* with it, and with the shutdown's context.
Early == {<<"stop">>, <<"lb.Close", "stop">>}
Full  == {<<"reader.Close", "stop">>, <<"reader.Close", "lb.Close", "stop">>}
Late  == {<<"cancel", "reader.Close", "stop">>,
          <<"cancel", "reader.Close", "lb.Close", "stop">>}
Stacks == {<<>>} \cup Early \cup Full \cup Late

\* Whether a stack holds a cleanup.
Holds(s, d) == \E i \in DOMAIN s : s[i] = d

\* The stack and the two resources at each state of main.
PhaseInv ==
    /\ main \in MainStates
    /\ main = "configure" => defers = <<>> /\ conn = "none" /\ handle = "none"
    /\ main = "connect" => defers = <<"stop">> /\ conn = "none" /\ handle = "none"
    /\ main \in {"uuids", "openrdc"} => defers \in Early /\ handle = "none"
    /\ main \in {"register", "spawn", "wait"} => defers \in Full
    /\ main = "drain" => defers \in Late
    /\ main = "unwind" => defers \in Stacks
    /\ main = "exited" => defers = <<>>

\* Held resources and pending cleanups are the same; the connection is closed
\* only while unwinding, and not before the session is released.
CleanupInv ==
    /\ handle = "open" <=> Holds(defers, "reader.Close")
    /\ conn = "open" <=> Holds(defers, "lb.Close")
    /\ conn = "closed" => main \in {"unwind", "exited"} /\ handle # "open"

\* The server runs only after Spawn, and once Shutdown was called it can serve no
\* more; main leaves "wait" through Shutdown only.
ServerInv ==
    /\ main \in {"configure", "connect", "uuids", "openrdc", "register", "spawn"}
          => server = "off"
    /\ server \in {"starting", "bound", "serving"} => main = "wait" \/ closing
    /\ server = "serving" => ~closing

IInv == PhaseInv /\ CleanupInv /\ ServerInv

LEMMA StackFacts ==
    /\ ~Holds(<<>>, "reader.Close") /\ ~Holds(<<>>, "lb.Close")
    /\ \A s \in Early : ~Holds(s, "reader.Close")
    /\ \A s \in Full \cup Late : Holds(s, "reader.Close")
    /\ ~Holds(<<"stop">>, "lb.Close")
  BY DEF Holds, Early, Full, Late

\* The stack with a call on top.
LEMMA PushIs ==
    ASSUME NEW S, NEW d \in S, NEW s \in Seq(S), NEW t \in Seq(S),
           Len(t) = Len(s) + 1, t[1] = d, \A i \in 1..Len(s) : t[i + 1] = s[i]
    PROVE  <<d>> \o s = t
  <1> DEFINE one == <<d>>
  <1>1. one \in Seq(S) /\ Len(one) = 1 /\ one[1] = d
    OBVIOUS
  <1> HIDE DEF one
  <1>2. /\ one \o s \in Seq(S)
        /\ Len(one \o s) = Len(one) + Len(s)
        /\ \A i \in 1..(Len(one) + Len(s)) :
              (one \o s)[i] = IF i <= Len(one) THEN one[i] ELSE s[i - Len(one)]
    BY <1>1, ConcatProperties
  <1>3. Len(s) \in Nat
    OBVIOUS
  <1>4. Len(one \o s) = Len(t)
    BY <1>1, <1>2, <1>3
  <1>5. ASSUME NEW i \in 1..Len(t)
        PROVE  (one \o s)[i] = t[i]
    <2>1. CASE i = 1
      <3>1. i <= Len(one) /\ i \in 1..(Len(one) + Len(s))
        BY <1>1, <1>3, <2>1
      <3>2. QED
        BY <1>1, <1>2, <2>1, <3>1
    <2>2. CASE i # 1
      <3>1. i - 1 \in 1..Len(s) /\ i = (i - 1) + 1
        BY <1>3, <2>2
      <3>2. t[i] = s[i - 1]
        BY <3>1
      <3>3. QED
        BY <1>1, <1>2, <1>3, <2>2, <3>2
    <2>3. QED
      BY <2>1, <2>2
  <1>6. one \o s = t
    BY <1>2, <1>4, <1>5, SeqEqual
  <1>7. QED
    BY <1>6 DEF one

\* Deferring a call adds it and nothing else.
LEMMA PushFacts ==
    /\ <<"lb.Close">> \o <<"stop">> = <<"lb.Close", "stop">>
    /\ Holds(<<"lb.Close", "stop">>, "lb.Close")
    /\ \A s \in Early : /\ <<"reader.Close">> \o s \in Full
                        /\ Holds(<<"reader.Close">> \o s, "lb.Close") <=> Holds(s, "lb.Close")
    /\ \A s \in Full :  /\ <<"cancel">> \o s \in Late
                        /\ Holds(<<"cancel">> \o s, "lb.Close") <=> Holds(s, "lb.Close")
  <1>1. ASSUME NEW a \in Deferred, NEW b \in Deferred
        PROVE  <<a>> \o <<b>> = <<a, b>>
    <2> DEFINE s == <<b>>
               t == <<a, b>>
    <2>1. s \in Seq(Deferred) /\ t \in Seq(Deferred)
      OBVIOUS
    <2>2. Len(t) = Len(s) + 1 /\ t[1] = a /\ \A i \in 1..Len(s) : t[i + 1] = s[i]
      OBVIOUS
    <2> HIDE DEF s, t
    <2>3. <<a>> \o s = t
      BY <2>1, <2>2, PushIs
    <2>4. QED
      BY <2>3 DEF s, t
  <1>2. ASSUME NEW a \in Deferred, NEW b \in Deferred, NEW c \in Deferred
        PROVE  <<a>> \o <<b, c>> = <<a, b, c>>
    <2> DEFINE s == <<b, c>>
               t == <<a, b, c>>
    <2>1. s \in Seq(Deferred) /\ t \in Seq(Deferred)
      OBVIOUS
    <2>2. Len(t) = Len(s) + 1 /\ t[1] = a /\ \A i \in 1..Len(s) : t[i + 1] = s[i]
      OBVIOUS
    <2> HIDE DEF s, t
    <2>3. <<a>> \o s = t
      BY <2>1, <2>2, PushIs
    <2>4. QED
      BY <2>3 DEF s, t
  <1>3. ASSUME NEW a \in Deferred, NEW b \in Deferred, NEW c \in Deferred,
               NEW d \in Deferred
        PROVE  <<a>> \o <<b, c, d>> = <<a, b, c, d>>
    <2> DEFINE s == <<b, c, d>>
               t == <<a, b, c, d>>
    <2>1. s \in Seq(Deferred) /\ t \in Seq(Deferred)
      OBVIOUS
    <2>2. Len(t) = Len(s) + 1 /\ t[1] = a /\ \A i \in 1..Len(s) : t[i + 1] = s[i]
      OBVIOUS
    <2> HIDE DEF s, t
    <2>3. <<a>> \o s = t
      BY <2>1, <2>2, PushIs
    <2>4. QED
      BY <2>3 DEF s, t
  <1>4. /\ <<"lb.Close">> \o <<"stop">> = <<"lb.Close", "stop">>
        /\ <<"reader.Close">> \o <<"stop">> = <<"reader.Close", "stop">>
        /\ <<"reader.Close">> \o <<"lb.Close", "stop">>
              = <<"reader.Close", "lb.Close", "stop">>
        /\ <<"cancel">> \o <<"reader.Close", "stop">> = <<"cancel", "reader.Close", "stop">>
        /\ <<"cancel">> \o <<"reader.Close", "lb.Close", "stop">>
              = <<"cancel", "reader.Close", "lb.Close", "stop">>
    BY <1>1, <1>2, <1>3 DEF Deferred
  <1>5. /\ ~Holds(<<"stop">>, "lb.Close")
        /\ ~Holds(<<"reader.Close", "stop">>, "lb.Close")
        /\ ~Holds(<<"cancel", "reader.Close", "stop">>, "lb.Close")
    BY DEF Holds
  <1>6. /\ Holds(<<"lb.Close", "stop">>, "lb.Close")
        /\ Holds(<<"reader.Close", "lb.Close", "stop">>, "lb.Close")
        /\ Holds(<<"cancel", "reader.Close", "lb.Close", "stop">>, "lb.Close")
    BY DEF Holds
  <1>7. QED
    BY <1>4, <1>5, <1>6, Zenon DEF Early, Full, Late

\* Running a deferred call takes away this one; below the session's there is no
\* other of its kind, and the connection's never lies above it.
LEMMA PopFacts ==
    ASSUME NEW s \in Stacks, s # <<>>
    PROVE  /\ Tail(s) \in Stacks
           /\ \A d \in {"reader.Close", "lb.Close"} :
                 Holds(Tail(s), d) <=> Holds(s, d) /\ Head(s) # d
           /\ Head(s) = "lb.Close" => ~Holds(s, "reader.Close")
  <1>1. CASE s = <<"stop">>
    BY <1>1 DEF Holds, Stacks
  <1>2. CASE s = <<"lb.Close", "stop">>
    <2>1. Tail(s) = <<"stop">> /\ Head(s) = "lb.Close"
      BY <1>2
    <2>2. QED
      BY <2>1, <1>2 DEF Holds, Stacks, Early
  <1>3. CASE s = <<"reader.Close", "stop">>
    <2>1. Tail(s) = <<"stop">> /\ Head(s) = "reader.Close"
      BY <1>3
    <2>2. QED
      BY <2>1, <1>3 DEF Holds, Stacks, Early
  <1>4. CASE s = <<"reader.Close", "lb.Close", "stop">>
    <2>1. Tail(s) = <<"lb.Close", "stop">> /\ Head(s) = "reader.Close"
      BY <1>4
    <2>2. QED
      BY <2>1, <1>4 DEF Holds, Stacks, Early
  <1>5. CASE s = <<"cancel", "reader.Close", "stop">>
    <2>1. Tail(s) = <<"reader.Close", "stop">> /\ Head(s) = "cancel"
      BY <1>5
    <2>2. QED
      BY <2>1, <1>5 DEF Holds, Stacks, Full
  <1>6. CASE s = <<"cancel", "reader.Close", "lb.Close", "stop">>
    <2>1. Tail(s) = <<"reader.Close", "lb.Close", "stop">> /\ Head(s) = "cancel"
      BY <1>6
    <2>2. QED
      BY <2>1, <1>6 DEF Holds, Stacks, Full
  <1>7. QED
    BY <1>1, <1>2, <1>3, <1>4, <1>5, <1>6 DEF Stacks, Early, Full, Late

-----------------------------------------------------------------------------
(* The invariant                                                           *)

LEMMA InitIInv == Init => IInv
  BY StackFacts DEF Init, IInv, PhaseInv, CleanupInv, ServerInv, MainStates, Reader!Init

\* The steps of main before it spawns.
LEMMA StartUpStep ==
    ASSUME IInv, Configure \/ ConnectKubelet \/ LoadUUIDs \/ OpenRDC \/ RegisterMetrics \/ Spawn
    PROVE  IInv'
  <1> USE DEF IInv, PhaseInv, CleanupInv, ServerInv, MainStates, serverVars
  <1>1. CASE Configure
    <2>1. defers = <<>> /\ conn = "none" /\ handle = "none"
      BY <1>1 DEF Configure
    <2>2. CASE main' = "connect" /\ defers' = <<"stop">>
      <3>1. ~Holds(defers', "reader.Close") /\ ~Holds(defers', "lb.Close")
        BY <2>2, StackFacts DEF Early
      <3>2. QED
        BY <1>1, <2>1, <2>2, <3>1 DEF Configure
    <2>3. CASE main' = "exited" /\ UNCHANGED defers
      BY <1>1, <2>1, <2>3 DEF Configure
    <2>4. QED
      BY <1>1, <2>2, <2>3 DEF Configure
  <1>2. CASE ConnectKubelet
    <2>1. defers = <<"stop">> /\ conn = "none" /\ handle = "none"
      BY <1>2 DEF ConnectKubelet
    <2>2. CASE main' = "uuids" /\ UNCHANGED <<conn, defers>>
      BY <1>2, <2>1, <2>2 DEF ConnectKubelet, Early
    <2>3. CASE main' = "uuids" /\ conn' = "open" /\ defers' = <<"lb.Close">> \o defers
      <3>1. defers' = <<"lb.Close", "stop">>
        BY <2>1, <2>3, PushFacts
      <3>2. defers' \in Early
        BY <3>1 DEF Early
      <3>3. QED
        BY <1>2, <2>1, <2>3, <3>1, <3>2, PushFacts, StackFacts DEF ConnectKubelet
    <2>4. CASE main' = "unwind" /\ conn' \in {"none", "leaked"} /\ UNCHANGED defers
      BY <1>2, <2>1, <2>4 DEF ConnectKubelet, Stacks, Early
    <2>5. QED
      BY <1>2, <2>2, <2>3, <2>4 DEF ConnectKubelet
  <1>3. CASE LoadUUIDs
    BY <1>3 DEF LoadUUIDs
  <1>4. CASE OpenRDC
    <2>1. defers \in Early /\ handle = "none" /\ conn # "closed"
      BY <1>4 DEF OpenRDC
    <2>2. CASE main' = "register" /\ handle' = "open" /\ defers' = <<"reader.Close">> \o defers
      BY <1>4, <2>1, <2>2, PushFacts, StackFacts DEF OpenRDC
    <2>3. CASE main' = "unwind" /\ handle' \in {"none", "abandoned"} /\ UNCHANGED defers
      BY <1>4, <2>1, <2>3 DEF OpenRDC, Stacks
    <2>4. QED
      BY <1>4, <2>2, <2>3 DEF OpenRDC
  <1>5. CASE RegisterMetrics
    BY <1>5 DEF RegisterMetrics, Stacks
  <1>6. CASE Spawn
    BY <1>6 DEF Spawn
  <1>7. QED
    BY <1>1, <1>2, <1>3, <1>4, <1>5, <1>6

\* The steps of main from the signal on.
LEMMA WindDownStep ==
    ASSUME IInv, Shutdown \/ Drain \/ RunDeferred \/ Exit \/ SignalKills
    PROVE  IInv'
  <1> USE DEF IInv, PhaseInv, CleanupInv, ServerInv, MainStates, serverVars
  <1>1. CASE Shutdown
    <2>1. defers \in Full /\ defers' = <<"cancel">> \o defers
      BY <1>1 DEF Shutdown
    <2>2. defers' \in Late /\ Holds(defers', "reader.Close")
          /\ (Holds(defers', "lb.Close") <=> Holds(defers, "lb.Close"))
      BY <2>1, PushFacts, StackFacts
    <2>3. handle = "open"
      BY <2>1, StackFacts
    <2>4. QED
      BY <1>1, <2>2, <2>3 DEF Shutdown
  <1>2. CASE Drain
    BY <1>2 DEF Drain, Stacks
  <1>3. CASE RunDeferred
    <2>1. defers \in Stacks /\ defers # <<>> /\ defers' = Tail(defers)
      BY <1>3 DEF RunDeferred
    <2>2. /\ defers' \in Stacks
          /\ Holds(defers', "reader.Close") <=>
                Holds(defers, "reader.Close") /\ Head(defers) # "reader.Close"
          /\ Holds(defers', "lb.Close") <=>
                Holds(defers, "lb.Close") /\ Head(defers) # "lb.Close"
          /\ Head(defers) = "lb.Close" => ~Holds(defers, "reader.Close")
      BY <2>1, PopFacts
    <2>3. CASE Head(defers) = "reader.Close"
      BY <1>3, <2>2, <2>3 DEF RunDeferred
    <2>4. CASE Head(defers) = "lb.Close"
      BY <1>3, <2>2, <2>4 DEF RunDeferred
    <2>5. CASE Head(defers) \notin {"reader.Close", "lb.Close"}
      BY <1>3, <2>2, <2>5 DEF RunDeferred
    <2>6. QED
      BY <2>3, <2>4, <2>5
  <1>4. CASE Exit
    BY <1>4 DEF Exit
  <1>5. CASE SignalKills
    BY <1>5 DEF SignalKills
  <1>6. QED
    BY <1>1, <1>2, <1>3, <1>4, <1>5

\* The other goroutines and the environment touch neither main nor what it holds.
LEMMA OthersStep ==
    ASSUME IInv,
           \/ LoopStep
           \/ \E g \in GPUs : ReaderStep(g)
           \/ ServerStep
           \/ \E r \in Requests : RequestStart(r) \/ RequestEnd(r)
           \/ GraceElapses \/ SmiAnswers \/ Signal
           \/ UNCHANGED vars
    PROVE  IInv'
  <1> USE DEF IInv, PhaseInv, CleanupInv, ServerInv, vars, mainVars, serverVars
  <1>1. UNCHANGED <<main, defers, conn, handle>>
    BY DEF LoopStep, LoopTop, LoopRefresh, LoopRead, LoopJoinDrain, LoopPublish,
           LoopWake, ReaderStep, ServerStep, Listen, Serve, RequestStart, RequestEnd,
           GraceElapses, SmiAnswers, Signal
  <1>2. CASE UNCHANGED <<server, closing>>
    BY <1>1, <1>2
  <1>3. CASE Listen
    BY <1>1, <1>3 DEF Listen
  <1>4. CASE Serve
    BY <1>1, <1>4 DEF Serve
  <1>5. QED
    BY <1>2, <1>3, <1>4
    DEF LoopStep, LoopTop, LoopRefresh, LoopRead, LoopJoinDrain, LoopPublish,
        LoopWake, ReaderStep, ServerStep, RequestStart, RequestEnd,
        GraceElapses, SmiAnswers, Signal

\* The invariant holds of every state of every behaviour.
THEOREM Inductive == Spec => []IInv
  <1>1. IInv /\ [Next]_vars => IInv'
    BY StartUpStep, WindDownStep, OthersStep DEF Next, MainStep, Exited
  <1>2. QED
    BY InitIInv, <1>1, PTL DEF Spec

-----------------------------------------------------------------------------
(* The properties                                                          *)

\* No cleanup is twice on a stack.
LEMMA StacksDistinct ==
    ASSUME NEW s \in Stacks
    PROVE  \A i, j \in DOMAIN s : s[i] = s[j] => i = j
  BY DEF Stacks, Early, Full, Late

\* Every resource main holds has exactly one cleanup to run, on every path
\* through start-up and shutdown.
THEOREM ResourcesHaveCleanups == Spec => []EveryResourceHasItsCleanup
  <1>1. IInv => EveryResourceHasItsCleanup
    <2> SUFFICES ASSUME IInv PROVE EveryResourceHasItsCleanup
      OBVIOUS
    <2> USE DEF IInv, PhaseInv, CleanupInv
    <2>1. defers \in Stacks
      BY DEF MainStates, Stacks, Early
    <2>2. main = "exited" => handle # "open" /\ conn # "open"
      BY StackFacts
    <2>3. QED
      BY <2>1, <2>2, StacksDistinct DEF EveryResourceHasItsCleanup, Pending, Holds
  <1>2. QED
    BY <1>1, Inductive, PTL

\* The RDC session is released before the kubelet connection.
THEOREM ReleaseOrder == Spec => []ReleasedInReverse
  <1>1. IInv => ReleasedInReverse
    BY DEF IInv, CleanupInv, ReleasedInReverse
  <1>2. QED
    BY <1>1, Inductive, PTL

\* No request is accepted once the session is being released, whatever the server
\* was doing when the signal came.
THEOREM LateRequests == Spec => NoRequestAfterRelease
  <1>1. IInv /\ [Next]_vars => [active' \subseteq active \/ handle = "open"]_vars
    <2> SUFFICES ASSUME IInv, Next, ~(active' \subseteq active)
                 PROVE  handle = "open"
      BY DEF vars
    <2>1. server = "serving"
      BY DEF Next, MainStep, Configure, ConnectKubelet, LoadUUIDs, OpenRDC, RegisterMetrics,
             Spawn, Shutdown, Drain, RunDeferred, Exit, LoopStep, LoopTop, LoopRefresh,
             LoopRead, LoopJoinDrain, LoopPublish, LoopWake, ReaderStep, ServerStep, Listen,
             Serve, RequestStart, RequestEnd, GraceElapses, SmiAnswers, SignalKills, Signal,
             Exited, serverVars, vars
    <2>2. main = "wait"
      BY <2>1 DEF IInv, ServerInv
    <2>3. QED
      BY <2>2, StackFacts DEF IInv, PhaseInv, CleanupInv
  <1>2. QED
    BY <1>1, Inductive, PTL DEF Spec, NoRequestAfterRelease
-----------------------------------------------------------------------------
(* The reads in the process                                                *)

RP == INSTANCE ReaderProofs

\* A step of the process is a step of the reads or leaves them alone.
LEMMA StepIsReaders == [Next]_vars => [RP!Next]_(RP!vars)
  <1> SUFFICES ASSUME [Next]_vars, ~UNCHANGED <<ctx, readerVars>> PROVE RP!Next
    BY DEF RP!vars, readerVars
  <1>1. \/ Reader!ReadSamples \/ Reader!Join \/ Reader!Drain \/ Reader!Cancel
        \/ \E g \in GPUs : Reader!WorkerStep(g)
    BY DEF Next, MainStep, Configure, ConnectKubelet, LoadUUIDs, OpenRDC, RegisterMetrics,
           Spawn, Shutdown, Drain, RunDeferred, Exit, LoopStep, LoopTop, LoopRefresh,
           LoopRead, LoopJoinDrain, LoopPublish, LoopWake, ReaderStep, ServerStep, Listen,
           Serve, RequestStart, RequestEnd, GraceElapses, SmiAnswers, SignalKills, Signal,
           Exited, vars
  <1>2. Reader!ReadSamples => RP!ReadSamples
    BY DEF Reader!ReadSamples, RP!ReadSamples, Reader!Slots, RP!Slots
  <1>3. Reader!Join => RP!Join
    BY DEF Reader!Join, RP!Join
  <1>4. Reader!Drain => RP!Drain
    BY DEF Reader!Drain, RP!Drain
  <1>5. Reader!Cancel => RP!Cancel
    BY DEF Reader!Cancel, RP!Cancel
  <1>6. ASSUME NEW g \in GPUs, Reader!WorkerStep(g) PROVE RP!WorkerStep(g)
    BY <1>6 DEF Reader!WorkerStep, RP!WorkerStep, Reader!WorkerCheck, RP!WorkerCheck,
            Reader!WorkerReturn, RP!WorkerReturn, Reader!WorkerSend, RP!WorkerSend,
            Reader!Answers, RP!Answers, Reader!Capacity, RP!Capacity,
            Reader!FloatValue, RP!FloatValue, Reader!Cardinality, RP!Cardinality
  <1>7. QED
    BY <1>1, <1>2, <1>3, <1>4, <1>5, <1>6 DEF RP!Next, RP!CallerStep

\* Reader's invariant holds of the reads inside the process: main, which stops the
\* session under them, touches none of their state.
THEOREM ReadsInductive == Spec => []RP!IInv
  <1>1. Init => RP!IInv
    <2>1. Reader!Init => RP!Init
      BY DEF Reader!Init, RP!Init, Reader!Slots, RP!Slots
    <2>2. RP!Init => RP!IInv
      BY ExporterAssumption, RP!InitIInv DEF IsFiniteSet, RP!IsFiniteSet
    <2>3. QED
      BY <2>1, <2>2 DEF Init
  <1>2. RP!IInv /\ [Next]_vars => RP!IInv'
    <2>1. RP!IInv /\ [RP!Next]_(RP!vars) => RP!IInv'
      BY ExporterAssumption, RP!NextIInv DEF IsFiniteSet, RP!IsFiniteSet
    <2>2. QED
      BY <2>1, StepIsReaders
  <1>3. QED
    BY <1>1, <1>2, PTL DEF Spec

-----------------------------------------------------------------------------
(* Types                                                                   *)

\* The variables that are not of main's path nor of the reads.
OthersType ==
    /\ smi \in {"off", "running", "answered"}
    /\ conn \in {"none", "open", "leaked", "closed"}
    /\ handle \in {"none", "open", "abandoned", "stopped", "unstopped"}
    /\ server \in {"off", "starting", "bound", "serving", "failed", "closed"}
    /\ closing \in BOOLEAN
    /\ grace \in BOOLEAN
    /\ active \subseteq Requests
    /\ loop \in {"off", "top", "refresh", "read", "reading", "sleep", "ended"}

LEMMA OthersTypeStep == OthersType /\ [Next]_vars => OthersType'
  <1> SUFFICES ASSUME OthersType, [Next]_vars PROVE OthersType'
    OBVIOUS
  <1> USE DEF OthersType, mainVars, serverVars
  <1>1. CASE MainStep
    <2>1. CASE Configure \/ ConnectKubelet \/ LoadUUIDs \/ OpenRDC
      BY <2>1 DEF Configure, ConnectKubelet, LoadUUIDs, OpenRDC
    <2>2. CASE RegisterMetrics \/ Spawn \/ Shutdown \/ Drain
      BY <2>2 DEF RegisterMetrics, Spawn, Shutdown, Drain
    <2>3. CASE RunDeferred \/ Exit
      BY <2>3 DEF RunDeferred, Exit
    <2>4. QED
      BY <1>1, <2>1, <2>2, <2>3 DEF MainStep
  <1>2. CASE LoopStep
    BY <1>2 DEF LoopStep, LoopTop, LoopRefresh, LoopRead, LoopJoinDrain, LoopPublish, LoopWake
  <1>3. CASE ServerStep \/ GraceElapses
    BY <1>3 DEF ServerStep, Listen, Serve, GraceElapses
  <1>4. CASE \E r \in Requests : RequestStart(r) \/ RequestEnd(r)
    BY <1>4 DEF RequestStart, RequestEnd
  <1>5. CASE (\E g \in GPUs : ReaderStep(g)) \/ SmiAnswers \/ SignalKills \/ Signal
             \/ UNCHANGED vars
    BY <1>5 DEF ReaderStep, SmiAnswers, SignalKills, Signal, vars
  <1>6. QED
    BY <1>1, <1>2, <1>3, <1>4, <1>5 DEF Next, Exited

\* The stacks are sequences of deferred calls.
LEMMA StacksType == Stacks \subseteq Seq(Deferred)
  <1>1. "stop" \in Deferred /\ "lb.Close" \in Deferred /\ "reader.Close" \in Deferred
        /\ "cancel" \in Deferred
    BY DEF Deferred
  <1>2. QED
    BY <1>1 DEF Stacks, Early, Full, Late

\* Every variable of the process stays in its type, those of the reads included.
THEOREM TypeCorrect == Spec => []TypeOK
  <1>1. Init => OthersType
    BY DEF Init, OthersType
  <1>2. IInv => main \in MainStates /\ defers \in Seq(Deferred)
    <2>1. IInv => defers \in Stacks
      BY DEF IInv, PhaseInv, MainStates, Stacks, Early
    <2>2. QED
      BY <2>1, StacksType DEF IInv, PhaseInv
  <1>3. RP!IInv => Reader!TypeOK
    BY DEF RP!IInv, RP!TypeOK, Reader!TypeOK, RP!CallerStates, Reader!CallerStates,
           RP!WorkerStates, Reader!WorkerStates, RP!Slots, Reader!Slots,
           RP!Answers, Reader!Answers, RP!Readings, Reader!Readings
  <1>4. OthersType /\ IInv /\ RP!IInv => TypeOK
    BY <1>2, <1>3 DEF OthersType, TypeOK
  <1>5. QED
    BY <1>1, <1>4, OthersTypeStep, Inductive, ReadsInductive, PTL DEF Spec
=============================================================================
