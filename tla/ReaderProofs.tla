---------------------------- MODULE ReaderProofs ----------------------------
(* Proofs about Reader for any set of GPUs and any number of fields.       *)
EXTENDS Reader, TLAPS, FiniteSetTheorems, SequenceTheorems

-----------------------------------------------------------------------------
(* Facts about what has been received                                      *)

LEMMA GotType ==
    ASSUME TypeOK
    PROVE  /\ got \in Seq(Readings)
           /\ Len(got) \in Nat
           /\ \A i \in 1..Len(got) : got[i] \in Readings
  <1>1. samples \in Seq(Readings) /\ chan \in Seq(Readings)
    BY DEF TypeOK
  <1>2. got \in Seq(Readings)
    BY <1>1, ConcatProperties DEF got
  <1>3. QED
    BY <1>2, LenProperties, ElementOfSeq

\* Draining moves the oldest buffered reading to the end of the samples.
LEMMA GotDrained ==
    ASSUME TypeOK, chan # <<>>,
           samples' = Append(samples, Head(chan)), chan' = Tail(chan)
    PROVE  got' = got
  <1>1. samples \in Seq(Readings) /\ chan \in Seq(Readings)
    BY DEF TypeOK
  <1>2. /\ Head(chan) \in Readings
        /\ Tail(chan) \in Seq(Readings)
    BY <1>1, HeadTailProperties
  <1>3. chan = <<Head(chan)>> \o Tail(chan)
    BY <1>1, <1>2
  <1>4. Append(samples, Head(chan)) = samples \o <<Head(chan)>>
    BY <1>1, <1>2, AppendIsConcat
  <1>5. (samples \o <<Head(chan)>>) \o Tail(chan)
            = samples \o (<<Head(chan)>> \o Tail(chan))
    <2>1. <<Head(chan)>> \in Seq(Readings)
      BY <1>2
    <2>2. QED
      BY <1>1, <1>2, <2>1, ConcatAssociative
  <1>6. QED
    BY <1>3, <1>4, <1>5 DEF got

\* Sending appends one reading to what has been received.
LEMMA GotSent ==
    ASSUME TypeOK, NEW r \in Readings,
           samples' = samples, chan' = Append(chan, r)
    PROVE  /\ got' = Append(got, r)
           /\ Len(got') = Len(got) + 1
           /\ \A i \in 1..Len(got) : got'[i] = got[i]
           /\ got'[Len(got) + 1] = r
  <1>1. samples \in Seq(Readings) /\ chan \in Seq(Readings)
    BY DEF TypeOK
  <1>2. <<r>> \in Seq(Readings)
    OBVIOUS
  <1>3. chan' = chan \o <<r>>
    BY <1>1, AppendIsConcat
  <1>4. got' = got \o <<r>>
    BY <1>1, <1>2, <1>3, ConcatAssociative DEF got
  <1>5. got' = Append(got, r)
    BY <1>4, GotType, AppendIsConcat
  <1>6. QED
    BY <1>5, GotType, AppendProperties

\* A sequence of readings of distinct slots, none of which is (g, k), leaves
\* room for that one in a channel of the full GPU-by-field size.
LEMMA RoomForMissingSlot ==
    ASSUME NEW s \in Seq(Readings), NEW g \in GPUs, NEW k \in Slots,
           \A i, j \in 1..Len(s) :
               s[i].gpu = s[j].gpu /\ s[i].slot = s[j].slot => i = j,
           \A i \in 1..Len(s) : ~(s[i].gpu = g /\ s[i].slot = k)
    PROVE  Len(s) < Capacity
  <1> DEFINE P == GPUs \X Slots
             Q == P \ {<<g, k>>}
             f == [i \in 1..Len(s) |-> <<s[i].gpu, s[i].slot>>]
  <1>1. Len(s) \in Nat
    BY LenProperties
  <1>2. \A i \in 1..Len(s) : s[i] \in Readings
    BY ElementOfSeq
  <1>3. /\ IsFiniteSet(Slots)
        /\ Cardinality(Slots) = NumFields
    BY ReaderAssumption, FS_Interval DEF Slots
  <1>4. /\ IsFiniteSet(P)
        /\ Cardinality(P) = Capacity
    BY <1>3, ReaderAssumption, FS_Product DEF Capacity
  <1>5. Capacity \in Nat
    BY <1>4, FS_CardinalityType
  <1>6. <<g, k>> \in P
    OBVIOUS
  <1>7. /\ IsFiniteSet(Q)
        /\ Cardinality(Q) = Capacity - 1
    <2> HIDE DEF P
    <2>1. QED
      BY <1>4, <1>6, FS_RemoveElement
  <1>8. f \in Injection(1..Len(s), Q)
    <2>1. f \in [1..Len(s) -> Q]
      BY <1>2 DEF Readings
    <2>2. QED
      BY <2>1 DEF Injection, IsInjective
  <1>9. Cardinality(1..Len(s)) <= Cardinality(Q)
    BY <1>7, <1>8, FS_Injection
  <1>10. Cardinality(1..Len(s)) = Len(s)
    <2> DEFINE n == Len(s)
    <2>1. n \in Nat
      BY <1>1
    <2> HIDE DEF n
    <2>2. Cardinality(1..n) = n
      BY <2>1, FS_Interval
    <2>3. QED
      BY <2>2 DEF n
  <1>11. QED
    BY <1>1, <1>5, <1>7, <1>9, <1>10

-----------------------------------------------------------------------------
(* The inductive invariant                                                 *)

LEMMA InitIInv == Init => IInv
  <1> SUFFICES ASSUME Init PROVE IInv
    OBVIOUS
  <1>1. got = <<>> /\ Len(got) = 0
    <2>1. <<>> \in Seq(Readings)
      OBVIOUS
    <2>2. <<>> \o <<>> = <<>>
      BY <2>1, ConcatEmptySeq
    <2>3. QED
      BY <2>2 DEF Init, got
  <1>2. TypeOK
    <2>1. pos \in [GPUs -> 1..(NumFields + 1)]
      BY ReaderAssumption DEF Init
    <2>2. answer \in [GPUs -> [Slots -> Answers \cup {Unread}]]
      BY DEF Init
    <2>3. chan \in Seq(Readings) /\ samples \in Seq(Readings)
      BY DEF Init
    <2>4. QED
      BY <2>1, <2>2, <2>3 DEF Init, TypeOK, CallerStates, WorkerStates
  <1>3. CallInv
    BY DEF Init, CallInv
  <1>4. ProgressInv
    BY ReaderAssumption DEF Init, ProgressInv, Slots
  <1>5. OriginInv /\ OrderInv
    BY <1>1 DEF OriginInv, OrderInv
  <1>6. NothingLostInv /\ LateInv
    BY DEF Init, NothingLostInv, LateInv, Slots
  <1>7. QED
    BY <1>2, <1>3, <1>4, <1>5, <1>6 DEF IInv

\* A step that leaves what was received, what was answered and the positions
\* alone keeps the three invariants about the readings.
LEMMA ReadingsKept ==
    ASSUME OriginInv, OrderInv, NothingLostInv,
           got' = got, pos' = pos, answer' = answer
    PROVE  OriginInv' /\ OrderInv' /\ NothingLostInv'
  BY DEF OriginInv, OrderInv, NothingLostInv

LEMMA ReadSamplesStep == IInv /\ ReadSamples => IInv'
  <1> SUFFICES ASSUME IInv, ReadSamples PROVE IInv'
    OBVIOUS
  <1> USE DEF IInv
  <1>1. CASE ctx = "cancelled"
    <2>1. UNCHANGED <<ctx, worker, pos, answer, chan, closed, samples, late>>
          /\ caller' = "refused" /\ caller \in {"idle", "returned"}
      BY <1>1 DEF ReadSamples
    <2>2. TypeOK' /\ LateInv'
      BY <2>1 DEF TypeOK, CallerStates, LateInv
    <2>3. CallInv' /\ ProgressInv'
      BY <2>1, <1>1 DEF CallInv, ProgressInv
    <2>4. got' = got
      BY <2>1 DEF got
    <2>5. QED
      BY <2>1, <2>2, <2>3, <2>4, ReadingsKept
  <1>2. CASE ctx # "cancelled"
    <2>1. /\ caller' = "joining"
          /\ worker' = [g \in GPUs |-> "check"]
          /\ pos' = [g \in GPUs |-> 1]
          /\ answer' = [g \in GPUs |-> [k \in Slots |-> Unread]]
          /\ chan' = <<>> /\ closed' = FALSE /\ samples' = <<>>
          /\ UNCHANGED <<ctx, late>>
      BY <1>2 DEF ReadSamples
    <2>2. TypeOK'
      <3>1. pos' \in [GPUs -> 1..(NumFields + 1)]
        BY <2>1, ReaderAssumption
      <3>2. answer' \in [GPUs -> [Slots -> Answers \cup {Unread}]]
        BY <2>1
      <3>3. chan' \in Seq(Readings) /\ samples' \in Seq(Readings)
        BY <2>1
      <3>4. QED
        BY <2>1, <3>1, <3>2, <3>3 DEF TypeOK, CallerStates, WorkerStates
    <2>3. CallInv'
      BY <2>1 DEF CallInv
    <2>4. ProgressInv'
      BY <2>1, ReaderAssumption DEF ProgressInv, Slots
    <2>5. OriginInv' /\ OrderInv'
      <3>1. <<>> \in Seq(Readings)
        OBVIOUS
      <3>2. Len(got') = 0
        BY <2>1, <3>1, ConcatEmptySeq DEF got
      <3>3. QED
        BY <3>2 DEF OriginInv, OrderInv
    <2>6. NothingLostInv' /\ LateInv'
      BY <1>2, <2>1 DEF NothingLostInv, LateInv, Slots
    <2>7. QED
      BY <2>2, <2>3, <2>4, <2>5, <2>6
  <1>3. QED
    BY <1>1, <1>2

LEMMA JoinStep == IInv /\ Join => IInv'
  <1> SUFFICES ASSUME IInv, Join PROVE IInv'
    OBVIOUS
  <1> USE DEF IInv, Join
  <1>1. TypeOK' /\ LateInv'
    BY DEF TypeOK, CallerStates, LateInv
  <1>2. CallInv' /\ ProgressInv'
    BY DEF CallInv, ProgressInv
  <1>3. got' = got
    BY DEF got
  <1>4. QED
    BY <1>1, <1>2, <1>3, ReadingsKept

LEMMA DrainStep == IInv /\ Drain => IInv'
  <1> SUFFICES ASSUME IInv, Drain PROVE IInv'
    OBVIOUS
  <1> USE DEF IInv, Drain
  <1>1. TypeOK'
    <2>1. CASE chan # <<>>
      <3>1. chan \in Seq(Readings) /\ samples \in Seq(Readings)
        BY DEF TypeOK
      <3>2. Head(chan) \in Readings /\ Tail(chan) \in Seq(Readings)
        BY <2>1, <3>1, HeadTailProperties
      <3>3. chan' = Tail(chan) /\ samples' = Append(samples, Head(chan))
        BY <2>1
      <3>4. chan' \in Seq(Readings) /\ samples' \in Seq(Readings)
        BY <3>1, <3>2, <3>3, AppendProperties
      <3>5. QED
        BY <2>1, <3>4 DEF TypeOK
    <2>2. CASE chan = <<>>
      BY <2>2 DEF TypeOK, CallerStates
    <2>3. QED
      BY <2>1, <2>2
  <1>2. CallInv' /\ ProgressInv' /\ LateInv'
    BY DEF CallInv, ProgressInv, LateInv
  <1>3. got' = got
    <2>1. CASE chan # <<>>
      BY <2>1, GotDrained
    <2>2. CASE chan = <<>>
      BY <2>2 DEF got
    <2>3. QED
      BY <2>1, <2>2
  <1>4. QED
    BY <1>1, <1>2, <1>3, ReadingsKept

LEMMA CancelStep == IInv /\ Cancel => IInv'
  <1> SUFFICES ASSUME IInv, Cancel PROVE IInv'
    OBVIOUS
  <1> USE DEF IInv, Cancel
  <1>1. TypeOK' /\ LateInv'
    BY DEF TypeOK, LateInv
  <1>2. CallInv' /\ ProgressInv'
    BY DEF CallInv, ProgressInv
  <1>3. got' = got
    BY DEF got
  <1>4. QED
    BY <1>1, <1>2, <1>3, ReadingsKept

LEMMA WorkerCheckStep ==
    ASSUME IInv, NEW g \in GPUs, WorkerCheck(g)
    PROVE  IInv'
  <1> USE DEF IInv, WorkerCheck
  <1>1. caller = "joining" /\ worker[g] = "check"
    BY DEF CallInv
  <1>2. TypeOK'
    BY DEF TypeOK, WorkerStates
  <1>3. CallInv' /\ LateInv'
    BY <1>1 DEF CallInv, LateInv, TypeOK
  <1>4. ProgressInv'
    BY ReaderAssumption DEF ProgressInv, TypeOK
  <1>5. got' = got
    BY DEF got
  <1>6. QED
    BY <1>2, <1>3, <1>4, <1>5, ReadingsKept

LEMMA WorkerReturnStep ==
    ASSUME IInv, NEW g \in GPUs, NEW a \in Answers, WorkerReturn(g, a)
    PROVE  IInv'
  <1> USE DEF IInv
  <1>1. /\ caller = "joining" /\ worker[g] = "call"
        /\ pos[g] \in Slots /\ pos[g] <= NumFields
        /\ late[g] = 0
    <2>1. caller = "joining" /\ worker[g] = "call"
      BY DEF WorkerReturn, CallInv
    <2>2. pos[g] \in Slots /\ pos[g] <= NumFields
      BY <2>1, ReaderAssumption DEF ProgressInv, TypeOK, Slots
    <2>3. late[g] = 0
      BY <2>1 DEF LateInv, TypeOK
    <2>4. QED
      BY <2>1, <2>2, <2>3
  <1>2. /\ UNCHANGED <<ctx, caller, chan, closed, samples>>
        /\ answer' = [answer EXCEPT ![g][pos[g]] = a]
        /\ \A h \in GPUs, k \in Slots :
               answer'[h][k] = IF h = g /\ k = pos[g] THEN a ELSE answer[h][k]
        /\ answer' \in [GPUs -> [Slots -> Answers \cup {Unread}]]
    BY <1>1 DEF WorkerReturn, TypeOK
  <1>3. a # Unread /\ answer[g][pos[g]] = Unread
    <2>1. a # Unread
      BY ReaderAssumption DEF Answers
    <2>2. ~(pos[g] < pos[g])
      BY <1>1, ReaderAssumption DEF Slots
    <2>3. QED
      BY <1>1, <2>1, <2>2 DEF ProgressInv
  <1>4. /\ worker' \in [GPUs -> WorkerStates]
        /\ pos' \in [GPUs -> 1..(NumFields + 1)]
        /\ \A h \in GPUs : h # g => worker'[h] = worker[h] /\ pos'[h] = pos[h]
        /\ a = Failed => worker'[g] = "check" /\ pos'[g] = pos[g] + 1
        /\ a # Failed => worker'[g] = "send" /\ pos'[g] = pos[g]
    <2>1. pos[g] + 1 \in 1..(NumFields + 1)
      BY <1>1, ReaderAssumption DEF Slots
    <2>2. CASE a = Failed
      BY <2>1, <2>2, <1>1 DEF WorkerReturn, TypeOK, WorkerStates
    <2>3. CASE a # Failed
      BY <2>3, <1>1 DEF WorkerReturn, TypeOK, WorkerStates
    <2>4. QED
      BY <2>2, <2>3
  <1>5. TypeOK'
    <2>1. late' \in [GPUs -> Nat]
      BY DEF WorkerReturn, TypeOK
    <2>2. QED
      BY <1>2, <1>4, <2>1 DEF TypeOK
  <1>6. CallInv' /\ LateInv'
    <2>1. CallInv'
      BY <1>1, <1>2, <1>4 DEF CallInv
    <2>2. LateInv'
      BY <1>1, <1>2, <1>4 DEF WorkerReturn, LateInv, TypeOK
    <2>3. QED
      BY <2>1, <2>2
  <1>7. ProgressInv'
    <2> SUFFICES ASSUME NEW h \in GPUs
                 PROVE  /\ worker'[h] \in {"call", "send"} => pos'[h] <= NumFields
                        /\ \A k \in Slots : answer'[h][k] # Unread <=>
                               (k < pos'[h] \/ (k = pos'[h] /\ worker'[h] = "send"))
                        /\ worker'[h] = "send" => answer'[h][pos'[h]] # Failed
                        /\ worker'[h] = "done" /\ ctx' = "live" /\ caller' # "idle"
                               => pos'[h] = NumFields + 1
      BY DEF ProgressInv
    <2>1. CASE h # g
      <3>1. /\ worker'[h] = worker[h] /\ pos'[h] = pos[h]
            /\ \A k \in Slots : answer'[h][k] = answer[h][k]
        BY <2>1, <1>2, <1>4
      <3>2. worker[h] = "send" => pos[h] \in Slots
        BY ReaderAssumption DEF ProgressInv, TypeOK, Slots
      <3>3. QED
        BY <3>1, <3>2, <1>2 DEF ProgressInv
    <2>2. CASE h = g
      <3>1. \A k \in Slots : k # pos[g] => answer'[g][k] = answer[g][k]
        BY <1>2
      <3>2. answer'[g][pos[g]] = a
        BY <1>1, <1>2
      <3>3. \A k \in Slots : answer[g][k] # Unread <=> k < pos[g]
        BY <1>1 DEF ProgressInv
      <3>4. Slots \subseteq Int /\ pos[g] \in Int
        BY <1>1, ReaderAssumption DEF Slots
      <3>5. CASE a = Failed
        BY <2>2, <3>1, <3>2, <3>3, <3>4, <3>5, <1>1, <1>3, <1>4
      <3>6. CASE a # Failed
        BY <2>2, <3>1, <3>2, <3>3, <3>4, <3>6, <1>1, <1>3, <1>4
      <3>7. QED
        BY <3>5, <3>6
    <2>3. QED
      BY <2>1, <2>2
  <1>8. got' = got
    BY <1>2 DEF got
  <1>9. \A i \in 1..Len(got) : got[i].gpu \in GPUs /\ got[i].slot \in Slots
    BY GotType DEF Readings
  <1>10. OriginInv'
    <2> SUFFICES ASSUME NEW i \in 1..Len(got)
                 PROVE  /\ got[i].slot < pos'[got[i].gpu]
                        /\ answer'[got[i].gpu][got[i].slot] # Failed
                        /\ got[i].value = FloatValue(answer'[got[i].gpu][got[i].slot])
      BY <1>8 DEF OriginInv
    <2>1. got[i].slot < pos[got[i].gpu]
      BY DEF OriginInv
    <2>2. answer'[got[i].gpu][got[i].slot] = answer[got[i].gpu][got[i].slot]
      BY <2>1, <1>1, <1>2, <1>9, ReaderAssumption DEF Slots
    <2>3. pos'[got[i].gpu] >= pos[got[i].gpu]
      <3>1. pos[got[i].gpu] \in Int /\ pos[g] \in Int
        BY <1>9, ReaderAssumption DEF TypeOK
      <3>2. CASE got[i].gpu = g
        BY <3>1, <3>2, <1>4
      <3>3. CASE got[i].gpu # g
        BY <3>1, <3>3, <1>4, <1>9
      <3>4. QED
        BY <3>2, <3>3
    <2>4. pos[got[i].gpu] \in Int /\ pos'[got[i].gpu] \in Int /\ got[i].slot \in Int
      BY <1>4, <1>9, ReaderAssumption DEF TypeOK, Slots
    <2>5. QED
      BY <2>1, <2>2, <2>3, <2>4 DEF OriginInv
  <1>11. OrderInv'
    BY <1>8 DEF OrderInv
  <1>12. NothingLostInv'
    <2> SUFFICES ASSUME NEW h \in GPUs, NEW k \in Slots,
                        k < pos'[h], answer'[h][k] # Failed
                 PROVE  \E i \in 1..Len(got) : got[i].gpu = h /\ got[i].slot = k
      BY <1>8 DEF NothingLostInv
    <2>1. k < pos[h] /\ answer[h][k] # Failed
      <3>1. CASE h # g
        BY <3>1, <1>2, <1>4
      <3>2. CASE h = g
        BY <3>2, <1>1, <1>2, <1>4, ReaderAssumption DEF Slots
      <3>3. QED
        BY <3>1, <3>2
    <2>2. QED
      BY <2>1 DEF NothingLostInv
  <1>13. QED
    BY <1>5, <1>6, <1>7, <1>10, <1>11, <1>12

LEMMA WorkerSendStep ==
    ASSUME IInv, NEW g \in GPUs, WorkerSend(g)
    PROVE  IInv'
  <1> USE DEF IInv
  <1> DEFINE v == FloatValue(answer[g][pos[g]])
             r == [gpu |-> g, slot |-> pos[g], value |-> v]
  <1>1. /\ caller = "joining" /\ worker[g] = "send"
        /\ pos[g] \in Slots /\ pos[g] <= NumFields
        /\ answer[g][pos[g]] \notin {Failed, Unread}
    <2>1. caller = "joining" /\ worker[g] = "send"
      BY DEF WorkerSend, CallInv
    <2>2. pos[g] \in Slots /\ pos[g] <= NumFields
      BY <2>1, ReaderAssumption DEF ProgressInv, TypeOK, Slots
    <2>3. answer[g][pos[g]] \notin {Failed, Unread}
      BY <2>1, <2>2 DEF ProgressInv
    <2>4. QED
      BY <2>1, <2>2, <2>3
  <1>2. /\ UNCHANGED <<ctx, caller, answer, closed, samples, late>>
        /\ chan' = Append(chan, r)
        /\ worker' = [worker EXCEPT ![g] = "check"]
        /\ pos' = [pos EXCEPT ![g] = @ + 1]
    BY DEF WorkerSend
  <1>3. v \in Values
    BY ReaderAssumption DEF FloatValue
  <1>4. r \in Readings
    BY <1>1, <1>3 DEF Readings
  <1>5. /\ r.gpu = g /\ r.slot = pos[g] /\ r.value = v
    OBVIOUS
  <1> HIDE DEF r, v
  <1>6. /\ Len(got') = Len(got) + 1
        /\ Len(got) \in Nat
        /\ \A i \in 1..Len(got) : got'[i] = got[i]
        /\ got'[Len(got) + 1] = r
    BY <1>2, <1>4, GotSent, GotType
  <1>7. \A i \in 1..Len(got) : got[i].gpu \in GPUs /\ got[i].slot \in Slots
    BY GotType DEF Readings
  <1>8. /\ pos' \in [GPUs -> 1..(NumFields + 1)]
        /\ pos'[g] = pos[g] + 1
        /\ \A h \in GPUs : h # g => pos'[h] = pos[h]
        /\ \A h \in GPUs : pos[h] \in Int
    <2>1. pos[g] + 1 \in 1..(NumFields + 1)
      BY <1>1, ReaderAssumption DEF Slots
    <2>2. QED
      BY <1>2, <2>1, ReaderAssumption DEF TypeOK
  <1>9. /\ worker' \in [GPUs -> WorkerStates]
        /\ worker'[g] = "check"
        /\ \A h \in GPUs : h # g => worker'[h] = worker[h]
    BY <1>2 DEF TypeOK, WorkerStates
  <1>10. TypeOK'
    <2>1. chan' \in Seq(Readings)
      BY <1>2, <1>4 DEF TypeOK
    <2>2. QED
      BY <1>2, <1>8, <1>9, <2>1 DEF TypeOK
  <1>11. CallInv' /\ LateInv'
    BY <1>1, <1>2, <1>9 DEF CallInv, LateInv
  <1>12. ProgressInv'
    <2> SUFFICES ASSUME NEW h \in GPUs
                 PROVE  /\ worker'[h] \in {"call", "send"} => pos'[h] <= NumFields
                        /\ \A k \in Slots : answer'[h][k] # Unread <=>
                               (k < pos'[h] \/ (k = pos'[h] /\ worker'[h] = "send"))
                        /\ worker'[h] = "send" => answer'[h][pos'[h]] # Failed
                        /\ worker'[h] = "done" /\ ctx' = "live" /\ caller' # "idle"
                               => pos'[h] = NumFields + 1
      BY DEF ProgressInv
    <2>1. CASE h # g
      BY <2>1, <1>2, <1>8, <1>9 DEF ProgressInv
    <2>2. CASE h = g
      <3>1. \A k \in Slots : answer[g][k] # Unread <=> (k < pos[g] \/ k = pos[g])
        BY <1>1 DEF ProgressInv
      <3>2. Slots \subseteq Int /\ pos[g] \in Int
        BY <1>1, ReaderAssumption DEF Slots
      <3>3. QED
        BY <2>2, <3>1, <3>2, <1>2, <1>8, <1>9
    <2>3. QED
      BY <2>1, <2>2
  <1>13. OriginInv'
    <2> SUFFICES ASSUME NEW i \in 1..Len(got')
                 PROVE  /\ got'[i].slot < pos'[got'[i].gpu]
                        /\ answer[got'[i].gpu][got'[i].slot] # Failed
                        /\ got'[i].value = FloatValue(answer[got'[i].gpu][got'[i].slot])
      BY <1>2 DEF OriginInv
    <2>1. CASE i = Len(got) + 1
      BY <2>1, <1>1, <1>5, <1>6, <1>8 DEF v
    <2>2. CASE i \in 1..Len(got)
      <3>1. got'[i] = got[i] /\ got[i].gpu \in GPUs /\ got[i].slot \in Int
        BY <2>2, <1>6, <1>7, ReaderAssumption DEF Slots
      <3>2. got[i].slot < pos[got[i].gpu]
        BY <2>2 DEF OriginInv
      <3>3. got[i].slot < pos'[got[i].gpu]
        <4>1. CASE got[i].gpu = g
          BY <3>1, <3>2, <4>1, <1>8
        <4>2. CASE got[i].gpu # g
          BY <3>1, <3>2, <4>2, <1>8
        <4>3. QED
          BY <4>1, <4>2
      <3>4. QED
        BY <2>2, <3>1, <3>3 DEF OriginInv
    <2>3. QED
      BY <2>1, <2>2, <1>6
  <1>14. OrderInv'
    <2> SUFFICES ASSUME NEW i \in 1..Len(got'), NEW j \in 1..Len(got'),
                        i < j, got'[i].gpu = got'[j].gpu
                 PROVE  got'[i].slot < got'[j].slot
      BY DEF OrderInv
    <2>1. i \in 1..Len(got) /\ got'[i] = got[i]
      BY <1>6
    <2>2. CASE j = Len(got) + 1
      BY <2>1, <2>2, <1>5, <1>6 DEF OriginInv
    <2>3. CASE j \in 1..Len(got)
      BY <2>1, <2>3, <1>6 DEF OrderInv
    <2>4. QED
      BY <2>2, <2>3, <1>6
  <1>15. NothingLostInv'
    <2> SUFFICES ASSUME NEW h \in GPUs, NEW k \in Slots,
                        k < pos'[h], answer[h][k] # Failed
                 PROVE  \E i \in 1..Len(got') : got'[i].gpu = h /\ got'[i].slot = k
      BY <1>2 DEF NothingLostInv
    <2>1. CASE h = g /\ k = pos[g]
      <3>1. Len(got) + 1 \in 1..Len(got')
        BY <1>6
      <3>2. QED
        BY <2>1, <3>1, <1>5, <1>6
    <2>2. CASE ~(h = g /\ k = pos[g])
      <3>1. k < pos[h]
        <4>1. k \in Int
          BY ReaderAssumption DEF Slots
        <4>2. QED
          BY <2>2, <4>1, <1>8
      <3>2. PICK i \in 1..Len(got) : got[i].gpu = h /\ got[i].slot = k
        BY <3>1 DEF NothingLostInv
      <3>3. i \in 1..Len(got') /\ got'[i] = got[i]
        BY <1>6
      <3>4. QED
        BY <3>2, <3>3
    <2>3. QED
      BY <2>1, <2>2
  <1>16. QED
    BY <1>10, <1>11, <1>12, <1>13, <1>14, <1>15

LEMMA StutterStep == IInv /\ UNCHANGED vars => IInv'
  <1> SUFFICES ASSUME IInv, UNCHANGED vars PROVE IInv'
    OBVIOUS
  <1> USE DEF IInv, vars
  <1>1. TypeOK' /\ LateInv'
    BY DEF TypeOK, LateInv
  <1>2. CallInv' /\ ProgressInv'
    BY DEF CallInv, ProgressInv
  <1>3. got' = got
    BY DEF got
  <1>4. QED
    BY <1>1, <1>2, <1>3, ReadingsKept

\* Every step of the caller, of a goroutine and of the context keeps the
\* invariant.
LEMMA NextIInv == IInv /\ [Next]_vars => IInv'
  <1> SUFFICES ASSUME IInv, [Next]_vars PROVE IInv'
    OBVIOUS
  <1>1. CASE ReadSamples
    BY <1>1, ReadSamplesStep
  <1>2. CASE Join
    BY <1>2, JoinStep
  <1>3. CASE Drain
    BY <1>3, DrainStep
  <1>4. ASSUME NEW g \in GPUs, WorkerStep(g) PROVE IInv'
    BY <1>4, WorkerCheckStep, WorkerReturnStep, WorkerSendStep DEF WorkerStep
  <1>5. CASE Cancel
    BY <1>5, CancelStep
  <1>6. CASE UNCHANGED vars
    BY <1>6, StutterStep
  <1>7. QED
    BY <1>1, <1>2, <1>3, <1>4, <1>5, <1>6 DEF Next, CallerStep, Ended

\* The invariant is inductive.
THEOREM Inductive == Spec => []IInv
  BY InitIInv, NextIInv, PTL DEF Spec

-----------------------------------------------------------------------------
(* What follows from it                                                    *)

\* Every variable stays in its type, whatever RDC answers.
THEOREM TypeCorrect == Spec => []TypeOK
  <1>1. IInv => TypeOK
    BY DEF IInv
  <1>2. QED
    BY <1>1, Inductive, PTL

\* Readings of distinct slots: at most one of each is received.
LEMMA DistinctSlots ==
    ASSUME IInv
    PROVE  \A i, j \in 1..Len(got) :
               got[i].gpu = got[j].gpu /\ got[i].slot = got[j].slot => i = j
  <1> SUFFICES ASSUME NEW i \in 1..Len(got), NEW j \in 1..Len(got), i # j,
                      got[i].gpu = got[j].gpu, got[i].slot = got[j].slot
               PROVE  FALSE
    OBVIOUS
  <1>1. got[i].slot \in Int /\ Len(got) \in Nat
    BY GotType, ReaderAssumption DEF IInv, Readings, Slots
  <1>2. i < j \/ j < i
    BY <1>1
  <1>3. QED
    BY <1>1, <1>2 DEF IInv, OrderInv

\* Under the invariant a goroutine about to send finds room.
LEMMA RoomFollows == IInv => NeverBlocks
  <1> SUFFICES ASSUME IInv, NEW g \in GPUs, worker[g] = "send"
               PROVE  Len(chan) < Capacity
    BY DEF NeverBlocks
  <1>1. TypeOK /\ samples = <<>> /\ chan \in Seq(Readings)
    BY DEF IInv, CallInv, TypeOK
  <1>2. got = chan
    BY <1>1, ConcatEmptySeq DEF got
  <1>3. pos[g] \in Slots
    BY <1>1, ReaderAssumption DEF IInv, ProgressInv, TypeOK, Slots
  <1>4. \A i \in 1..Len(chan) : ~(chan[i].gpu = g /\ chan[i].slot = pos[g])
    <2>1. ~(pos[g] < pos[g])
      BY <1>3, ReaderAssumption DEF Slots
    <2>2. QED
      BY <1>2, <2>1 DEF IInv, OriginInv
  <1>5. QED
    BY <1>1, <1>2, <1>3, <1>4, DistinctSlots, RoomForMissingSlot

\* The channel is large enough for any number of GPUs and fields: a goroutine
\* about to send always finds room (reader.go:110-113).
THEOREM NoWorkerBlocks == Spec => []NeverBlocks
  BY RoomFollows, Inductive, PTL

\* No goroutine outlives the join: nothing can be sent on the closed channel
\* and no RDC call is under way once ReadSamples drains and returns.
THEOREM JoinedFirst == Spec => []JoinedBeforeDrained
  <1>1. IInv => JoinedBeforeDrained
    BY DEF IInv, CallInv, JoinedBeforeDrained
  <1>2. QED
    BY <1>1, Inductive, PTL

\* Under the invariant a call that returns has every answer.
LEMMA AnswersFollow == IInv => ReturnsEveryAnswer
  <1> SUFFICES ASSUME IInv, caller = "returned" PROVE ReturnsEveryAnswer
    BY DEF ReturnsEveryAnswer
  <1>1. /\ TypeOK /\ ProgressInv /\ OriginInv /\ NothingLostInv
        /\ samples \in Seq(Readings)
        /\ DOMAIN samples = 1..Len(samples)
    BY LenProperties DEF IInv, TypeOK
  <1>2. got = samples
    BY <1>1, ConcatEmptySeq DEF got, IInv, CallInv
  <1>3. \A g \in GPUs : worker[g] = "done"
    BY DEF IInv, CallInv
  <1>4. \A g \in GPUs, k \in Slots : answer[g][k] # Unread <=> k < pos[g]
    BY <1>1, <1>3 DEF ProgressInv
  <1> DEFINE R(p) == [gpu |-> p[1], slot |-> p[2],
                      value |-> FloatValue(answer[p[1]][p[2]])]
  <1>5. \A i \in DOMAIN samples :
           /\ <<samples[i].gpu, samples[i].slot>> \in Answered
           /\ samples[i] = R(<<samples[i].gpu, samples[i].slot>>)
    <2> SUFFICES ASSUME NEW i \in 1..Len(samples)
                 PROVE  /\ <<samples[i].gpu, samples[i].slot>> \in Answered
                        /\ samples[i] = R(<<samples[i].gpu, samples[i].slot>>)
      BY <1>1
    <2>1. samples[i] \in Readings
      BY <1>1, ElementOfSeq
    <2>2. samples[i].gpu \in GPUs /\ samples[i].slot \in Slots
      BY <2>1 DEF Readings
    <2>3. /\ samples[i].slot < pos[samples[i].gpu]
          /\ answer[samples[i].gpu][samples[i].slot] # Failed
          /\ samples[i].value = FloatValue(answer[samples[i].gpu][samples[i].slot])
      BY <1>1, <1>2 DEF OriginInv
    <2>4. answer[samples[i].gpu][samples[i].slot] # Unread
      BY <1>4, <2>2, <2>3
    <2>5. <<samples[i].gpu, samples[i].slot>> \in Answered
      BY <2>2, <2>3, <2>4 DEF Answered
    <2>6. samples[i] = R(<<samples[i].gpu, samples[i].slot>>)
      BY <2>1, <2>3 DEF Readings
    <2>7. QED
      BY <2>5, <2>6
  <1>6. \A p \in Answered : \E i \in DOMAIN samples :
           samples[i].gpu = p[1] /\ samples[i].slot = p[2]
    <2> SUFFICES ASSUME NEW p \in Answered
                 PROVE  \E i \in DOMAIN samples :
                            samples[i].gpu = p[1] /\ samples[i].slot = p[2]
      OBVIOUS
    <2>1. /\ p[1] \in GPUs /\ p[2] \in Slots
          /\ answer[p[1]][p[2]] \notin {Failed, Unread}
      BY DEF Answered
    <2>2. p[2] < pos[p[1]]
      BY <1>4, <2>1
    <2>3. QED
      BY <1>1, <1>2, <2>1, <2>2 DEF NothingLostInv
  <1>7. Collected = {R(p) : p \in Answered}
    <2>1. \A x \in Collected : x \in {R(p) : p \in Answered}
      <3> SUFFICES ASSUME NEW i \in DOMAIN samples
                   PROVE  samples[i] \in {R(p) : p \in Answered}
        BY DEF Collected
      <3> HIDE DEF R
      <3>1. QED
        BY <1>5
    <2>2. \A p \in Answered : R(p) \in Collected
      <3> SUFFICES ASSUME NEW p \in Answered PROVE R(p) \in Collected
        OBVIOUS
      <3>1. PICK i \in DOMAIN samples :
               samples[i].gpu = p[1] /\ samples[i].slot = p[2]
        BY <1>6
      <3>2. samples[i] = R(p)
        BY <1>5, <3>1
      <3>3. QED
        BY <3>2 DEF Collected
    <2>3. QED
      BY <2>1, <2>2
  <1>8. \A i, j \in DOMAIN samples :
           samples[i].gpu = samples[j].gpu /\ samples[i].slot = samples[j].slot
               => i = j
    BY <1>1, <1>2, DistinctSlots
  <1>9. ctx = "live" => \A g \in GPUs, k \in Slots : answer[g][k] # Unread
    <2> SUFFICES ASSUME ctx = "live", NEW g \in GPUs, NEW k \in Slots
                 PROVE  answer[g][k] # Unread
      OBVIOUS
    <2>1. pos[g] = NumFields + 1
      BY <1>1, <1>3 DEF ProgressInv
    <2>2. k < pos[g]
      BY <2>1, ReaderAssumption DEF Slots
    <2>3. QED
      BY <1>4, <2>2
  <1>10. QED
    BY <1>7, <1>8, <1>9 DEF ReturnsEveryAnswer

\* A call returns exactly what RDC answered, each answered slot once, and
\* leaves a slot unread only when its context is cancelled.
THEOREM EveryAnswerReturned == Spec => []ReturnsEveryAnswer
  BY AnswersFollow, Inductive, PTL

\* Under the invariant the samples of one GPU are in field order.
LEMMA OrderFollows == IInv => FieldOrderKept
  <1> SUFFICES ASSUME IInv, NEW i \in DOMAIN samples, NEW j \in DOMAIN samples,
                      i < j, samples[i].gpu = samples[j].gpu
               PROVE  samples[i].slot < samples[j].slot
    BY DEF FieldOrderKept
  <1>1. samples \in Seq(Readings) /\ chan \in Seq(Readings)
    BY DEF IInv, TypeOK
  <1>2. i \in 1..Len(samples) /\ j \in 1..Len(samples)
    BY <1>1, LenProperties
  <1>3. /\ Len(got) = Len(samples) + Len(chan)
        /\ \A n \in 1..Len(samples) : got[n] = samples[n]
    BY <1>1, LenProperties, ConcatProperties DEF got
  <1>4. i \in 1..Len(got) /\ j \in 1..Len(got)
    BY <1>1, <1>2, <1>3, LenProperties
  <1>5. QED
    BY <1>2, <1>3, <1>4 DEF IInv, OrderInv

\* The samples of one GPU come back in the order the fields were registered.
THEOREM FieldOrder == Spec => []FieldOrderKept
  BY OrderFollows, Inductive, PTL

\* After cancellation no goroutine takes more than one further answer.
THEOREM LateAnswersBounded == Spec => []AtMostOneLateAnswer
  <1>1. IInv => AtMostOneLateAnswer
    BY DEF IInv, LateInv, AtMostOneLateAnswer
  <1>2. QED
    BY <1>1, Inductive, PTL
=============================================================================
