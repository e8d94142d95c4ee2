-------------------------- MODULE HostLabelsProofs --------------------------
(***************************************************************************)
(* The labels, for any host, any list of the kubelet and any number of     *)
(* GPUs.  Two things carry the proofs: how GPUs are numbered (each number  *)
(* counts the GPUs before, so no two share one and none is left out), and  *)
(* what a refresh leaves, by induction over the containers gone through.   *)
(***************************************************************************)
EXTENDS HostLabels, SubsequenceProofs

-----------------------------------------------------------------------------
(* Numbering                                                               *)

\* Discovery numbers the GPUs it finds from 0 without gaps.
LEMMA DeviceIndexes ==
    /\ IsFiniteSet(Discovered) /\ Cardinality(Discovered) \in Nat
    /\ \A d \in Discovered : DeviceIndex(d) \in 0..(Cardinality(Discovered) - 1)
    /\ \A k \in 0..(Cardinality(Discovered) - 1) : \E d \in Discovered : DeviceIndex(d) = k
    /\ \A d, e \in Discovered : DeviceIndex(d) = DeviceIndex(e) => d = e
  <1>1. NumEntries \in Nat /\ Discovered \in SUBSET (1..NumEntries)
    BY HostLabelsAssumption DEF Discovered, Entries
  <1>2. \A d \in Entries : DeviceIndex(d) = Cardinality({e \in Discovered : e < d})
    <2> SUFFICES ASSUME NEW d \in Entries
                 PROVE  DeviceIndex(d) = Cardinality({e \in Discovered : e < d})
      OBVIOUS
    <2>1. {e \in Entries : e < d /\ host[e] = "gpu"} = {e \in Discovered : e < d}
      BY DEF Discovered
    <2>2. QED
      BY <2>1 DEF DeviceIndex
  <1> DEFINE n == NumEntries
             K == Discovered
             before(i) == Cardinality({e \in K : e < i})
  <1>3. n \in Nat /\ K \in SUBSET (1..n)
    BY <1>1
  <1>4. \A d \in K : DeviceIndex(d) = before(d) /\ d \in 1..n
    BY <1>2, <1>3 DEF Entries
  <1> HIDE DEF n, K
  <1>5. IsFiniteSet(K) /\ Cardinality(K) \in Nat
    BY <1>3, Count
  <1>6. /\ \A i \in 1..n : before(i) \in Nat
        /\ \A i \in K, j \in 1..n : i < j => before(i) < before(j)
        /\ \A i \in K : before(i) < Cardinality(K)
        /\ \A k \in 0..(Cardinality(K) - 1) : \E i \in K : before(i) = k
    BY <1>3, Numbered
  <1> HIDE DEF before
  <1>7. \A d \in K : DeviceIndex(d) \in 0..(Cardinality(K) - 1)
    BY <1>4, <1>5, <1>6
  <1>8. \A k \in 0..(Cardinality(K) - 1) : \E d \in K : DeviceIndex(d) = k
    BY <1>4, <1>6
  <1>9. \A d, e \in K : DeviceIndex(d) = DeviceIndex(e) => d = e
    <2> SUFFICES ASSUME NEW d \in K, NEW e \in K, d # e
                 PROVE  DeviceIndex(d) # DeviceIndex(e)
      OBVIOUS
    <2>1. d \in 1..n /\ e \in 1..n /\ (d < e \/ e < d)
      BY <1>3, <1>4
    <2>2. before(d) \in Nat /\ before(e) \in Nat
          /\ (before(d) < before(e) \/ before(e) < before(d))
      BY <1>6, <2>1
    <2>3. QED
      BY <1>4, <2>2
  <1>10. QED
    BY <1>5, <1>7, <1>8, <1>9 DEF K

\* No two GPUs have one RDC index, and one that discovery found, with none skipped
\* before it, has the index discovery gave it.
LEMMA RDCIndexes ==
    /\ \A d \in Entries : RDCIndex(d) \in Nat
    /\ \A d, e \in Entries : IsGPU(d) /\ IsGPU(e) /\ RDCIndex(d) = RDCIndex(e) => d = e
    /\ \A d \in Entries :
          (\A e \in 1..(d - 1) : host[e] \in {"gpu", "file"}) => RDCIndex(d) = DeviceIndex(d)
  <1> DEFINE n == NumEntries
             K == {e \in Entries : IsGPU(e)}
             before(i) == Cardinality({e \in K : e < i})
  <1>1. n \in Nat /\ K \in SUBSET (1..n) /\ Entries = 1..n
    BY HostLabelsAssumption DEF Entries
  <1>2. \A d \in Entries : RDCIndex(d) = before(d)
    <2> SUFFICES ASSUME NEW d \in Entries PROVE RDCIndex(d) = before(d)
      OBVIOUS
    <2>1. {e \in Entries : e < d /\ IsGPU(e)} = {e \in K : e < d}
      OBVIOUS
    <2>2. QED
      BY <2>1 DEF RDCIndex
  <1>3. \A d \in Entries : IsGPU(d) => d \in K
    OBVIOUS
  <1>4. /\ \A i \in 1..n : before(i) \in Nat
        /\ \A i \in K, j \in 1..n : i < j => before(i) < before(j)
    <2> HIDE DEF n, K
    <2>1. QED
      BY <1>1, Numbered
  <1>5. \A d \in Entries :
           (\A e \in 1..(d - 1) : host[e] \in {"gpu", "file"}) => RDCIndex(d) = DeviceIndex(d)
    <2> SUFFICES ASSUME NEW d \in Entries,
                        \A e \in 1..(d - 1) : host[e] \in {"gpu", "file"}
                 PROVE  RDCIndex(d) = DeviceIndex(d)
      OBVIOUS
    <2>1. \A e \in Entries : e < d => e \in 1..(d - 1)
      BY <1>1
    <2>2. {e \in Entries : e < d /\ IsGPU(e)} = {e \in Entries : e < d /\ host[e] = "gpu"}
      BY <2>1 DEF IsGPU
    <2>3. QED
      BY <2>2 DEF RDCIndex, DeviceIndex
  <1> HIDE DEF n, K, before
  <1>6. \A d, e \in Entries : IsGPU(d) /\ IsGPU(e) /\ RDCIndex(d) = RDCIndex(e) => d = e
    <2> SUFFICES ASSUME NEW d \in Entries, NEW e \in Entries, IsGPU(d), IsGPU(e), d # e
                 PROVE  RDCIndex(d) # RDCIndex(e)
      OBVIOUS
    <2>1. d \in 1..n /\ e \in 1..n /\ d \in K /\ e \in K /\ (d < e \/ e < d)
      BY <1>1, <1>3
    <2>2. before(d) \in Nat /\ before(e) \in Nat
          /\ (before(d) < before(e) \/ before(e) < before(d))
      BY <1>4, <2>1
    <2>3. QED
      BY <1>2, <2>2
  <1>7. QED
    BY <1>1, <1>2, <1>4, <1>5, <1>6

-----------------------------------------------------------------------------
(* What a refresh leaves                                                   *)

\* The recursion of Attributed has a solution for any number of containers.
LEMMA AttributedIs ==
    ASSUME NEW l, NEW cs, Len(cs) \in Nat
    PROVE  \A n \in 0..Len(cs) :
              Attributed(l, cs)[n] = IF n = 0 THEN l
                                     ELSE Attribute(Attributed(l, cs)[n - 1], cs[n])
  <1> DEFINE sol(f, N) == f = [n \in 0..N |-> IF n = 0 THEN l ELSE Attribute(f[n - 1], cs[n])]
             S == {N \in Nat : \E f : sol(f, N)}
  <1>1. 0 \in S
    <2> DEFINE f == [n \in 0..0 |-> l]
    <2>1. sol(f, 0)
      OBVIOUS
    <2>2. QED
      BY <2>1
  <1>2. ASSUME NEW N \in Nat, N \in S PROVE N + 1 \in S
    <2>1. PICK f : sol(f, N)
      BY <1>2
    <2> DEFINE g == [n \in 0..(N + 1) |-> IF n = N + 1 THEN Attribute(f[N], cs[N + 1]) ELSE f[n]]
    <2>2. \A n \in 0..(N + 1) :
             g[n] = IF n = 0 THEN l ELSE Attribute(g[n - 1], cs[n])
      <3> SUFFICES ASSUME NEW n \in 0..(N + 1)
                   PROVE  g[n] = IF n = 0 THEN l ELSE Attribute(g[n - 1], cs[n])
        OBVIOUS
      <3>1. CASE n = N + 1
        <4>1. n # 0 /\ n - 1 = N /\ N \in 0..(N + 1) /\ N # N + 1
          BY <3>1
        <4>2. g[N] = f[N] /\ g[n] = Attribute(f[N], cs[N + 1])
          BY <3>1, <4>1
        <4> HIDE DEF g
        <4>3. QED
          BY <3>1, <4>1, <4>2
      <3>2. CASE n # N + 1
        <4>1. n \in 0..N /\ g[n] = f[n]
          BY <3>2
        <4>2. f[n] = IF n = 0 THEN l ELSE Attribute(f[n - 1], cs[n])
          BY <2>1, <4>1
        <4>3. n # 0 => g[n - 1] = f[n - 1]
          BY <4>1
        <4> HIDE DEF g
        <4>4. QED
          BY <4>1, <4>2, <4>3
      <3>3. QED
        BY <3>1, <3>2
    <2>3. sol(g, N + 1)
      <3>1. g = [n \in 0..(N + 1) |-> g[n]]
        OBVIOUS
      <3> HIDE DEF g
      <3>2. QED
        BY <2>2, <3>1
    <2> HIDE DEF g
    <2>4. QED
      BY <2>3
  <1>3. Len(cs) \in S
    <2> HIDE DEF S
    <2>1. QED
      BY <1>1, <1>2, InductionOverNat
  <1>4. PICK f : sol(f, Len(cs))
    BY <1>3
  <1>5. Attributed(l, cs) = CHOOSE h : sol(h, Len(cs))
    BY DEF Attributed
  <1>6. sol(Attributed(l, cs), Len(cs))
    <2> HIDE DEF sol
    <2>1. QED
      BY <1>4, <1>5
  <1>7. QED
    BY <1>6

Attribution == Owners \cup {NoOwner}

\* Going through the containers leaves every index with the owner of the last
\* container that holds it, or with what it had when none does.
LEMMA Outcome ==
    ASSUME NEW D, NEW l \in [D -> Attribution], NEW cs \in Seq(Containers)
    PROVE  /\ Attributed(l, cs)[Len(cs)] \in [D -> Attribution]
           /\ \A i \in D :
                 (\A m \in DOMAIN cs : i \notin Held(cs[m]))
                    => Attributed(l, cs)[Len(cs)][i] = l[i]
           /\ \A i \in D, m \in DOMAIN cs :
                 i \in Held(cs[m]) /\ (\A k \in DOMAIN cs : k > m => i \notin Held(cs[k]))
                    => Attributed(l, cs)[Len(cs)][i] = cs[m].owner
  <1> DEFINE r(n) == Attributed(l, cs)[n]
             untouched(n) == \A i \in D :
                 (\A m \in 1..n : i \notin Held(cs[m])) => r(n)[i] = l[i]
             last(n) == \A i \in D, m \in 1..n :
                 i \in Held(cs[m]) /\ (\A k \in 1..n : k > m => i \notin Held(cs[k]))
                    => r(n)[i] = cs[m].owner
             good(n) == n <= Len(cs) => r(n) \in [D -> Attribution] /\ untouched(n) /\ last(n)
             S == {n \in Nat : good(n)}
  <1>1. Len(cs) \in Nat /\ DOMAIN cs = 1..Len(cs)
    OBVIOUS
  <1>2. \A n \in 0..Len(cs) : r(n) = IF n = 0 THEN l ELSE Attribute(r(n - 1), cs[n])
    <2> HIDE DEF r
    <2>1. \A n \in 0..Len(cs) :
             Attributed(l, cs)[n] = IF n = 0 THEN l
                                    ELSE Attribute(Attributed(l, cs)[n - 1], cs[n])
      BY <1>1, AttributedIs
    <2>2. QED
      BY <2>1 DEF r
  <1> HIDE DEF r
  <1>3. 0 \in S
    <2>1. r(0) = l
      BY <1>1, <1>2
    <2>2. untouched(0) /\ last(0)
      BY <2>1
    <2>3. QED
      BY <2>1, <2>2
  <1>4. ASSUME NEW n \in Nat, n \in S PROVE n + 1 \in S
    <2> SUFFICES ASSUME n + 1 <= Len(cs)
                 PROVE  r(n + 1) \in [D -> Attribution] /\ untouched(n + 1) /\ last(n + 1)
      OBVIOUS
    <2>1. r(n) \in [D -> Attribution] /\ untouched(n) /\ last(n)
      BY <1>1, <1>4
    <2>2. n + 1 \in 0..Len(cs) /\ n + 1 # 0 /\ (n + 1) - 1 = n /\ n + 1 \in DOMAIN cs
      BY <1>1
    <2>3. r(n + 1) = Attribute(r(n), cs[n + 1])
      BY <1>2, <2>2
    <2>4. cs[n + 1].owner \in Attribution
      <3>1. cs[n + 1] \in Containers
        BY <2>2
      <3>2. QED
        BY <3>1 DEF Containers, Attribution
    <2>5. /\ r(n + 1) \in [D -> Attribution]
          /\ \A i \in D : r(n + 1)[i] = IF i \in Held(cs[n + 1]) THEN cs[n + 1].owner ELSE r(n)[i]
      BY <2>1, <2>3, <2>4 DEF Attribute
    <2>6. untouched(n + 1)
      <3> SUFFICES ASSUME NEW i \in D, \A m \in 1..(n + 1) : i \notin Held(cs[m])
                   PROVE  r(n + 1)[i] = l[i]
        OBVIOUS
      <3>1. n + 1 \in 1..(n + 1) /\ (\A m \in 1..n : m \in 1..(n + 1))
        OBVIOUS
      <3>2. r(n)[i] = l[i]
        BY <2>1, <3>1
      <3>3. QED
        BY <2>5, <3>1, <3>2
    <2>7. last(n + 1)
      <3> SUFFICES ASSUME NEW i \in D, NEW m \in 1..(n + 1), i \in Held(cs[m]),
                          \A k \in 1..(n + 1) : k > m => i \notin Held(cs[k])
                   PROVE  r(n + 1)[i] = cs[m].owner
        OBVIOUS
      <3>1. CASE m = n + 1
        BY <2>5, <3>1
      <3>2. CASE m # n + 1
        <4>1. m \in 1..n /\ n + 1 > m /\ n + 1 \in 1..(n + 1) /\ (\A k \in 1..n : k \in 1..(n + 1))
          BY <3>2
        <4>2. i \notin Held(cs[n + 1]) /\ r(n)[i] = cs[m].owner
          BY <2>1, <4>1
        <4>3. QED
          BY <2>5, <4>2
      <3>3. QED
        BY <3>1, <3>2
    <2>8. QED
      BY <2>5, <2>6, <2>7
  <1>5. Len(cs) \in S
    <2> HIDE DEF S
    <2>1. QED
      BY <1>1, <1>3, <1>4, InductionOverNat
  <1>6. r(Len(cs)) \in [D -> Attribution] /\ untouched(Len(cs)) /\ last(Len(cs))
    BY <1>1, <1>5
  <1>7. QED
    BY <1>1, <1>6 DEF r

-----------------------------------------------------------------------------
(* The invariant                                                           *)

\* The workload labeler exists.
Labelling == kubelet /\ pc \in {"uuids", "serving"}

HostInv ==
    /\ host \in [Entries -> Kinds]
    /\ kubelet \in BOOLEAN
    /\ pc \in {"labeler", "uuids", "serving", "failed"}
    /\ list \in Lists
    /\ listed \in Lists \cup {<<>>}

\* Until there is a labeler it has nothing; then both ids of each GPU lead to the
\* GPU's index, no other id to any, and the labels are those of the indexes.
SnapshotInv ==
    /\ ~Labelling => gpuDevices = <<>> /\ labels = <<>>
    /\ Labelling =>
          /\ \A d \in Discovered : \A id \in IdsOf(d) :
                id \in DOMAIN gpuDevices /\ gpuDevices[id] = DeviceIndex(d)
          /\ \A id \in DOMAIN gpuDevices : \E d \in Discovered : id \in IdsOf(d)
          /\ labels \in [0..(Cardinality(Discovered) - 1) -> Attribution]

\* Every GPU discovered has the labels of its holder; before the first refresh
\* nobody is known to hold anything.
HolderInv ==
    /\ pc \in {"labeler", "uuids"} => listed = <<>>
    /\ Labelling => \A d \in Discovered : labels[DeviceIndex(d)] = Holder(d)

\* The UUIDs are those of the good card records, each at the index of its GPU.
UUIDInv ==
    /\ pc # "serving" => uuids = <<>>
    /\ pc = "serving" =>
          /\ labelKeys = WorkloadKeys \o <<"UUID">>
          /\ cards = NoReport => uuids = <<>>
          /\ cards # NoReport =>
                /\ \A d \in Parsed : RDCIndex(d) \in DOMAIN uuids /\ uuids[RDCIndex(d)] = UUIDOf[d]
                /\ \A i \in DOMAIN uuids : \E d \in Parsed : RDCIndex(d) = i

IInv == HostInv /\ SnapshotInv /\ HolderInv /\ UUIDInv

\* No variable the numbering or the holders depend on changes.
HostSame == UNCHANGED hostVars

LEMMA NumbersStay ==
    ASSUME HostSame
    PROVE  /\ \A d \in Entries : DeviceIndex(d)' = DeviceIndex(d) /\ RDCIndex(d)' = RDCIndex(d)
           /\ Discovered' = Discovered
           /\ Parsed' = Parsed
           /\ WorkloadKeys' = WorkloadKeys
  BY DEF HostSame, hostVars, DeviceIndex, RDCIndex, Discovered, Parsed, IsGPU, WorkloadKeys

\* What a container holds, by index, is what it names, by id.
LEMMA HeldIsNamed ==
    ASSUME SnapshotInv, Labelling, NEW d \in Discovered, NEW c
    PROVE  DeviceIndex(d) \in Held(c) <=> GPUIds(c) \cap IdsOf(d) # {}
  <1>1. ASSUME NEW id \in GPUIds(c) \cap IdsOf(d) PROVE DeviceIndex(d) \in Held(c)
    BY <1>1 DEF SnapshotInv, Held
  <1>2. ASSUME DeviceIndex(d) \in Held(c) PROVE GPUIds(c) \cap IdsOf(d) # {}
    <2>1. PICK id \in GPUIds(c) \cap DOMAIN gpuDevices : gpuDevices[id] = DeviceIndex(d)
      BY <1>2 DEF Held
    <2>2. PICK e \in Discovered : id \in IdsOf(e)
      BY <2>1 DEF SnapshotInv
    <2>3. DeviceIndex(e) = DeviceIndex(d)
      BY <2>1, <2>2 DEF SnapshotInv
    <2>4. e = d
      BY <2>3, DeviceIndexes
    <2>5. QED
      BY <2>1, <2>2, <2>4
  <1>3. QED
    BY <1>1, <1>2

\* An id is that of one entry.
LEMMA IdsDiffer ==
    ASSUME NEW d, NEW e, NEW id \in IdsOf(d), id \in IdsOf(e)
    PROVE  d = e
  BY DEF IdsOf

LEMMA InitIInv == Init => IInv
  <1> SUFFICES ASSUME Init PROVE IInv
    OBVIOUS
  <1>1. ~Labelling
    BY DEF Init, Labelling
  <1>2. HostInv
    BY DEF Init, HostInv
  <1>3. QED
    BY <1>1, <1>2 DEF Init, IInv, SnapshotInv, HolderInv, UUIDInv

LEMMA NewLabelerStep == IInv /\ NewLabeler => IInv'
  <1> SUFFICES ASSUME IInv, NewLabeler PROVE IInv'
    OBVIOUS
  <1>1. HostSame
    BY DEF NewLabeler, HostSame
  <1>2. /\ Discovered' = Discovered
        /\ \A d \in Entries : DeviceIndex(d)' = DeviceIndex(d)
        /\ Labelling' /\ pc' = "uuids" /\ listed' = <<>> /\ uuids' = <<>>
    BY <1>1, NumbersStay DEF NewLabeler, Labelling, IInv, HolderInv, UUIDInv, hostVars
  <1>3. HostInv'
    BY DEF IInv, HostInv, NewLabeler, hostVars
  <1> DEFINE c == Cardinality(Discovered)
             D == {DeviceIndex(d) : d \in Discovered}
  <1>4. D = 0..(c - 1)
    <2>1. \A i \in D : i \in 0..(c - 1)
      BY DeviceIndexes
    <2>2. \A i \in 0..(c - 1) : i \in D
      <3> HIDE DEF D
      <3>1. \A i \in 0..(c - 1) : \E d \in Discovered : DeviceIndex(d) = i
        BY DeviceIndexes
      <3>2. QED
        BY <3>1 DEF D
    <2>3. QED
      BY <2>1, <2>2
  <1>5. labels' = [i \in 0..(c - 1) |-> NoOwner]
    BY <1>4 DEF NewLabeler
  <1>6. \A d \in Discovered : \A id \in IdsOf(d) :
           id \in DOMAIN gpuDevices' /\ gpuDevices'[id] = DeviceIndex(d)
    <2> SUFFICES ASSUME NEW d \in Discovered, NEW id \in IdsOf(d)
                 PROVE  id \in DOMAIN gpuDevices' /\ gpuDevices'[id] = DeviceIndex(d)
      OBVIOUS
    <2>1. id \in UNION {IdsOf(e) : e \in Discovered}
      OBVIOUS
    <2>2. (CHOOSE e \in Discovered : id \in IdsOf(e)) = d
      BY IdsDiffer
    <2>3. QED
      BY <2>1, <2>2 DEF NewLabeler
  <1>7. \A id \in DOMAIN gpuDevices' : \E d \in Discovered : id \in IdsOf(d)
    BY DEF NewLabeler
  <1>8. SnapshotInv'
    BY <1>2, <1>5, <1>6, <1>7 DEF SnapshotInv, Attribution, Discovered, IdsOf
  <1>9. \A d \in Discovered : DeviceIndex(d) \in 0..(c - 1)
    BY DeviceIndexes
  <1>10. \A d \in Discovered : Holder(d)' = NoOwner
    BY <1>2 DEF Holder
  <1>11. HolderInv'
    <2>1. \A d \in Discovered' : labels'[DeviceIndex(d)'] = Holder(d)'
      BY <1>2, <1>5, <1>9, <1>10 DEF Discovered
    <2>2. QED
      BY <1>2, <2>1 DEF HolderInv
  <1>12. UUIDInv'
    BY <1>2 DEF UUIDInv
  <1>13. QED
    BY <1>3, <1>8, <1>11, <1>12 DEF IInv

LEMMA LoadUUIDsStep == IInv /\ LoadUUIDs => IInv'
  <1> SUFFICES ASSUME IInv, LoadUUIDs PROVE IInv'
    OBVIOUS
  <1>1. HostSame
    BY DEF LoadUUIDs, HostSame
  <1>2. /\ Discovered' = Discovered /\ Parsed' = Parsed /\ WorkloadKeys' = WorkloadKeys
        /\ \A d \in Entries : DeviceIndex(d)' = DeviceIndex(d) /\ RDCIndex(d)' = RDCIndex(d)
        /\ \A d \in Entries : Holder(d)' = Holder(d)
        /\ Labelling' <=> Labelling
        /\ pc' = "serving"
    BY <1>1, NumbersStay DEF LoadUUIDs, Labelling, hostVars, Holder
  <1>3. HostInv'
    BY DEF IInv, HostInv, LoadUUIDs, hostVars
  <1>4. SnapshotInv'
    BY <1>2 DEF IInv, SnapshotInv, LoadUUIDs, Discovered
  <1>5. HolderInv'
    BY <1>2 DEF IInv, HolderInv, LoadUUIDs, Discovered
  <1>6. UUIDInv'
    <2>1. labelKeys' = WorkloadKeys' \o <<"UUID">>
      BY <1>2 DEF LoadUUIDs
    <2>2. CASE cards = NoReport
      BY <1>2, <2>1, <2>2 DEF UUIDInv, LoadUUIDs, hostVars
    <2>3. CASE cards # NoReport
      <3>1. uuids' = [i \in {RDCIndex(d) : d \in Parsed} |->
                         UUIDOf[CHOOSE d \in Parsed : RDCIndex(d) = i]]
        BY <2>3 DEF LoadUUIDs
      <3>2. ASSUME NEW d \in Parsed
            PROVE  RDCIndex(d) \in DOMAIN uuids' /\ uuids'[RDCIndex(d)] = UUIDOf[d]
        <4>1. \A e \in Parsed : RDCIndex(e) = RDCIndex(d) => e = d
          BY RDCIndexes DEF Parsed
        <4>2. (CHOOSE e \in Parsed : RDCIndex(e) = RDCIndex(d)) = d
          BY <4>1
        <4>3. QED
          BY <3>1, <4>2
      <3>3. \A i \in DOMAIN uuids' : \E d \in Parsed : RDCIndex(d) = i
        BY <3>1
      <3>4. \A d \in Parsed' : RDCIndex(d)' \in DOMAIN uuids' /\ uuids'[RDCIndex(d)'] = UUIDOf[d]
        BY <1>2, <3>2 DEF Parsed
      <3>5. \A i \in DOMAIN uuids' : \E d \in Parsed' : RDCIndex(d)' = i
        BY <1>2, <3>3 DEF Parsed
      <3>6. QED
        BY <1>2, <2>1, <2>3, <3>4, <3>5 DEF UUIDInv, LoadUUIDs, hostVars
    <2>4. QED
      BY <2>2, <2>3
  <1>7. QED
    BY <1>3, <1>4, <1>5, <1>6 DEF IInv

\* After a refresh every GPU has the labels of the last container that names it.
LEMMA RefreshStep == IInv /\ Refresh => IInv'
  <1> SUFFICES ASSUME IInv, Refresh PROVE IInv'
    OBVIOUS
  <1>1. HostSame
    BY DEF Refresh, HostSame
  <1>2. /\ Discovered' = Discovered /\ Parsed' = Parsed /\ WorkloadKeys' = WorkloadKeys
        /\ \A d \in Entries : DeviceIndex(d)' = DeviceIndex(d) /\ RDCIndex(d)' = RDCIndex(d)
        /\ Labelling /\ Labelling' /\ pc = "serving" /\ pc' = "serving"
        /\ listed' = list
    BY <1>1, NumbersStay DEF Refresh, Labelling, hostVars
  <1>3. HostInv'
    BY DEF IInv, HostInv, Refresh, hostVars
  <1> DEFINE D == 0..(Cardinality(Discovered) - 1)
             blank == [i \in D |-> NoOwner]
  <1>4. list \in Seq(Containers)
    BY HostLabelsAssumption DEF IInv, HostInv
  <1>5. /\ labels' = Attributed(blank, list)[Len(list)]
        /\ blank \in [D -> Attribution]
    <2>1. DOMAIN labels = D
      BY <1>2 DEF IInv, SnapshotInv
    <2>2. QED
      BY <2>1 DEF Refresh, Attribution
  <1>6. \A i \in D : blank[i] = NoOwner
    OBVIOUS
  <1>7. \A d \in Discovered : DeviceIndex(d) \in D
    BY DeviceIndexes
  <1> HIDE DEF D, blank
  <1>8. /\ labels' \in [D -> Attribution]
        /\ \A i \in D : (\A m \in DOMAIN list : i \notin Held(list[m])) => labels'[i] = NoOwner
        /\ \A i \in D, m \in DOMAIN list :
              i \in Held(list[m]) /\ (\A k \in DOMAIN list : k > m => i \notin Held(list[k]))
                 => labels'[i] = list[m].owner
    BY <1>4, <1>5, <1>6, Outcome
  <1>9. SnapshotInv'
    <2>1. labels' \in [0..(Cardinality(Discovered') - 1) -> Attribution]
      BY <1>2, <1>8 DEF D
    <2>2. gpuDevices' = gpuDevices
      BY DEF Refresh
    <2>3. /\ \A d \in Discovered' : \A id \in IdsOf(d) :
                id \in DOMAIN gpuDevices' /\ gpuDevices'[id] = DeviceIndex(d)'
          /\ \A id \in DOMAIN gpuDevices' : \E d \in Discovered' : id \in IdsOf(d)
      BY <1>2, <2>2 DEF IInv, SnapshotInv, Discovered
    <2>4. QED
      BY <1>2, <2>1, <2>3 DEF SnapshotInv, Attribution
  <1>10. ASSUME NEW d \in Discovered PROVE labels'[DeviceIndex(d)] = Holder(d)'
    <2> DEFINE i == DeviceIndex(d)
               naming == {n \in DOMAIN list : GPUIds(list[n]) \cap IdsOf(d) # {}}
    <2>1. \A c : i \in Held(c) <=> GPUIds(c) \cap IdsOf(d) # {}
      BY <1>2, HeldIsNamed DEF IInv
    <2>2. i \in D
      BY <1>7
    <2>3. \A n \in DOMAIN list : n \in naming <=> i \in Held(list[n])
      BY <2>1
    <2>4. Holder(d)' = IF naming = {} THEN NoOwner
                       ELSE list[CHOOSE n \in naming : \A m \in naming : m <= n].owner
      BY <1>2 DEF Holder
    <2>5. naming \in SUBSET (1..Len(list)) /\ Len(list) \in Nat /\ DOMAIN list = 1..Len(list)
      BY <1>4
    <2> HIDE DEF i, naming
    <2>6. CASE naming = {}
      BY <1>8, <2>2, <2>3, <2>4, <2>6 DEF i
    <2>7. CASE naming # {}
      <3> DEFINE m == CHOOSE n \in naming : \A k \in naming : k <= n
      <3>1. \E n \in naming : \A k \in naming : k <= n
        BY <2>5, <2>7, LastPosition
      <3>2. m \in naming /\ \A k \in naming : k <= m
        BY <3>1
      <3> HIDE DEF m
      <3>3. m \in DOMAIN list /\ i \in Held(list[m])
        BY <2>3, <2>5, <3>2
      <3>4. \A k \in DOMAIN list : k > m => i \notin Held(list[k])
        <4> SUFFICES ASSUME NEW k \in DOMAIN list, k > m, k \in naming PROVE FALSE
          BY <2>3
        <4>1. k <= m /\ k \in Nat /\ m \in Nat
          BY <2>5, <3>2, <3>3
        <4>2. QED
          BY <4>1
      <3>5. labels'[i] = list[m].owner
        BY <1>8, <2>2, <3>3, <3>4
      <3>6. QED
        BY <2>4, <2>7, <3>5 DEF m, i
    <2>8. QED
      BY <2>6, <2>7
  <1>11. HolderInv'
    <2>1. \A d \in Discovered' : labels'[DeviceIndex(d)'] = Holder(d)'
      BY <1>2, <1>10 DEF Discovered
    <2>2. QED
      BY <1>2, <2>1 DEF HolderInv
  <1>12. UUIDInv'
    BY <1>2 DEF IInv, UUIDInv, Refresh, hostVars, Parsed
  <1>13. QED
    BY <1>3, <1>9, <1>11, <1>12 DEF IInv

\* The other steps leave the labels and the holders alone.
LEMMA OtherSteps ==
    IInv /\ (NoLabeler \/ NewLabelerFails \/ KubeletChanges \/ Failed \/ Idle \/ UNCHANGED vars)
       => IInv'
  <1> SUFFICES ASSUME IInv,
                      NoLabeler \/ NewLabelerFails \/ KubeletChanges \/ Failed \/ Idle
                         \/ UNCHANGED vars
               PROVE  IInv'
    OBVIOUS
  <1>1. /\ HostSame
        /\ UNCHANGED <<listed, gpuDevices, labels, uuids, labelKeys>>
    BY DEF NoLabeler, NewLabelerFails, KubeletChanges, Failed, Idle, vars, HostSame
  <1>2. /\ Labelling' <=> Labelling
        /\ pc' = "serving" <=> pc = "serving"
        /\ pc' \in {"labeler", "uuids"} => listed = <<>>
    BY DEF NoLabeler, NewLabelerFails, KubeletChanges, Failed, Idle, vars, hostVars, Labelling,
           IInv, HolderInv
  <1>3. /\ Discovered' = Discovered /\ Parsed' = Parsed /\ WorkloadKeys' = WorkloadKeys
        /\ \A d \in Entries : DeviceIndex(d)' = DeviceIndex(d) /\ RDCIndex(d)' = RDCIndex(d)
        /\ \A d \in Entries : Holder(d)' = Holder(d)
    BY <1>1, NumbersStay DEF Holder
  <1>4. HostInv'
    BY <1>1 DEF IInv, HostInv, NoLabeler, NewLabelerFails, KubeletChanges, Failed, Idle, vars,
                hostVars
  <1>5. SnapshotInv'
    BY <1>1, <1>2, <1>3 DEF IInv, SnapshotInv, Discovered
  <1>6. HolderInv'
    BY <1>1, <1>2, <1>3 DEF IInv, HolderInv, Discovered
  <1>7. UUIDInv'
    BY <1>1, <1>2, <1>3 DEF IInv, UUIDInv, HostSame, hostVars, Parsed
  <1>8. QED
    BY <1>4, <1>5, <1>6, <1>7 DEF IInv

\* What the labels are made of holds always: the numbering of the snapshot, the
\* holders of the last refresh, the UUIDs of the good records.
THEOREM Inductive == Spec => []IInv
  <1>1. IInv /\ [Next]_vars => IInv'
    BY NewLabelerStep, LoadUUIDsStep, RefreshStep, OtherSteps DEF Next
  <1>2. QED
    BY InitIInv, <1>1, PTL DEF Spec

-----------------------------------------------------------------------------
(* The properties                                                          *)

\* Every variable stays in its type, and every device id leads to an index that
\* has labels.
THEOREM TypeCorrect == Spec => []TypeOK
  <1>1. IInv => TypeOK
    <2> SUFFICES ASSUME IInv PROVE TypeOK
      OBVIOUS
    <2>1. /\ Cardinality(Discovered) \in Nat
          /\ \A d \in Discovered : DeviceIndex(d) \in 0..(Cardinality(Discovered) - 1)
      BY DeviceIndexes
    <2> DEFINE c == Cardinality(Discovered)
    <2>2. labels \in [DOMAIN labels -> Attribution]
      <3>1. CASE Labelling
        BY <3>1 DEF IInv, SnapshotInv
      <3>2. CASE ~Labelling
        <4>1. labels = [i \in {} |-> NoOwner]
          BY <3>2 DEF IInv, SnapshotInv
        <4>2. QED
          BY <4>1
      <3>3. QED
        BY <3>1, <3>2
    <2>3. DOMAIN labels = 0..(Cardinality(DOMAIN labels) - 1)
      <3>1. CASE Labelling
        <4>1. DOMAIN labels = 0..(c - 1) /\ c \in Nat
          BY <2>1, <3>1 DEF IInv, SnapshotInv
        <4> HIDE DEF c
        <4>2. Cardinality(0..(c - 1)) = c
          BY <4>1, FS_Interval
        <4>3. QED
          BY <4>1, <4>2
      <3>2. CASE ~Labelling
        <4>1. DOMAIN labels = {}
          BY <3>2 DEF IInv, SnapshotInv
        <4>2. Cardinality(DOMAIN labels) = 0
          BY <4>1, FS_EmptySet
        <4>3. QED
          BY <4>1, <4>2
      <3>3. QED
        BY <3>1, <3>2
    <2>4. \A id \in DOMAIN gpuDevices : gpuDevices[id] \in DOMAIN labels
      <3>1. CASE Labelling
        <4> SUFFICES ASSUME NEW id \in DOMAIN gpuDevices
                     PROVE  gpuDevices[id] \in DOMAIN labels
          OBVIOUS
        <4>1. PICK d \in Discovered : gpuDevices[id] = DeviceIndex(d)
          BY <3>1 DEF IInv, SnapshotInv
        <4>2. DOMAIN labels = 0..(c - 1)
          BY <3>1 DEF IInv, SnapshotInv
        <4>3. QED
          BY <2>1, <4>1, <4>2
      <3>2. CASE ~Labelling
        BY <3>2 DEF IInv, SnapshotInv
      <3>3. QED
        BY <3>1, <3>2
    <2>5. \A i \in DOMAIN uuids : i \in Nat /\ uuids[i] \in {UUIDOf[d] : d \in Entries}
      <3> SUFFICES ASSUME NEW i \in DOMAIN uuids
                   PROVE  i \in Nat /\ \E d \in Entries : uuids[i] = UUIDOf[d]
        OBVIOUS
      <3>1. uuids # <<>>
        OBVIOUS
      <3>2. PICK d \in Parsed : RDCIndex(d) = i /\ uuids[i] = UUIDOf[d]
        BY <3>1 DEF IInv, UUIDInv
      <3>3. d \in Entries
        BY DEF Parsed
      <3>4. QED
        BY <3>2, <3>3, RDCIndexes
    <2>6. QED
      BY <2>2, <2>3, <2>4, <2>5 DEF TypeOK, IInv, HostInv, Attribution
  <1>2. QED
    BY Inductive, <1>1, PTL

\* An owner's labels are three texts, known or not.
LEMMA OwnersAreTexts == Attribution \subseteq [1..3 -> STRING] /\ Attribution \subseteq Seq(STRING)
  <1>1. NoOwner \in [1..3 -> STRING]
    <2>1. NoOwner = [k \in 1..3 |-> Empty]
      BY DEF NoOwner
    <2>2. QED
      BY <2>1, HostLabelsAssumption
  <1>2. Attribution \subseteq [1..3 -> STRING]
    BY <1>1, HostLabelsAssumption DEF Attribution
  <1>3. [1..3 -> STRING] \subseteq Seq(STRING)
    OBVIOUS
  <1>4. QED
    BY <1>2, <1>3

\* The values of any index: the workload's, when there is a labeler, then one text.
LEMMA ValuesOf ==
    ASSUME IInv, pc = "serving", NEW i \in Nat
    PROVE  /\ IF kubelet THEN WorkloadLabels(i) \in Attribution /\ Len(labelKeys) = 4
                         ELSE Len(labelKeys) = 1
           /\ Len(LabelsFor(i)) = Len(labelKeys)
           /\ LabelsFor(i)[Len(labelKeys)] = IF i \in DOMAIN uuids THEN uuids[i] ELSE Empty
           /\ kubelet => SubSeq(LabelsFor(i), 1, 3) = WorkloadLabels(i)
  <1> DEFINE u == IF i \in DOMAIN uuids THEN uuids[i] ELSE Empty
  <1>1. u \in STRING
    <2>1. CASE i \in DOMAIN uuids
      <3>1. uuids # <<>>
        BY <2>1
      <3>2. PICK d \in Parsed : uuids[i] = UUIDOf[d]
        BY <2>1, <3>1 DEF IInv, UUIDInv
      <3>3. d \in 1..NumEntries
        BY DEF Parsed, Entries
      <3>4. QED
        BY <2>1, <3>2, <3>3, HostLabelsAssumption
    <2>2. CASE i \notin DOMAIN uuids
      BY <2>2, HostLabelsAssumption
    <2>3. QED
      BY <2>1, <2>2
  <1>2. labelKeys = WorkloadKeys \o <<"UUID">> /\ kubelet \in BOOLEAN
    BY DEF IInv, UUIDInv, HostInv
  <1>3. LabelsFor(i) = (IF kubelet THEN WorkloadLabels(i) ELSE <<>>) \o <<u>>
    BY DEF LabelsFor
  <1> HIDE DEF u
  <1>4. CASE kubelet
    <2>1. WorkloadLabels(i) \in Attribution
      BY <1>4 DEF WorkloadLabels, IInv, SnapshotInv, Labelling, Attribution
    <2> DEFINE w == WorkloadLabels(i)
    <2>2. w \in Seq(STRING) /\ Len(w) = 3 /\ w \in [1..3 -> STRING]
      BY <2>1, OwnersAreTexts
    <2>3. LabelsFor(i) = w \o <<u>> /\ labelKeys = <<"pod", "namespace", "container">> \o <<"UUID">>
      BY <1>2, <1>3, <1>4 DEF WorkloadKeys
    <2> HIDE DEF w
    <2>4. Len(labelKeys) = 4
      BY <2>3
    <2>5. /\ LabelsFor(i) \in Seq(STRING) /\ Len(LabelsFor(i)) = 4
          /\ LabelsFor(i)[4] = u
          /\ \A k \in 1..3 : LabelsFor(i)[k] = w[k]
      <3> DEFINE v == <<u>>
      <3>1. v \in Seq(STRING) /\ Len(v) = 1 /\ v[1] = u
        BY <1>1
      <3>2. LabelsFor(i) = w \o v
        BY <2>3
      <3> HIDE DEF v
      <3>3. /\ LabelsFor(i) \in Seq(STRING) /\ Len(LabelsFor(i)) = 4
            /\ \A k \in 1..4 : LabelsFor(i)[k] = IF k <= 3 THEN w[k] ELSE v[k - 3]
        <4>1. /\ w \o v \in Seq(STRING) /\ Len(w \o v) = Len(w) + Len(v)
              /\ \A k \in 1..(Len(w) + Len(v)) :
                    (w \o v)[k] = IF k <= Len(w) THEN w[k] ELSE v[k - Len(w)]
          BY <2>2, <3>1, ConcatProperties
        <4>2. QED
          BY <2>2, <3>1, <3>2, <4>1
      <3>4. QED
        BY <3>1, <3>3
    <2>6. SubSeq(LabelsFor(i), 1, 3) = w
      <3>1. SubSeq(LabelsFor(i), 1, 3) = [k \in 1..3 |-> LabelsFor(i)[k]]
        BY <2>5
      <3>2. QED
        BY <2>2, <2>5, <3>1
    <2>7. QED
      BY <1>4, <2>1, <2>4, <2>5, <2>6 DEF u, w
  <1>5. CASE ~kubelet
    <2>1. LabelsFor(i) = <<>> \o <<u>> /\ labelKeys = <<>> \o <<"UUID">>
      BY <1>2, <1>3, <1>5 DEF WorkloadKeys
    <2>2. LabelsFor(i) = <<u>> /\ labelKeys = <<"UUID">>
      BY <1>1, <2>1
    <2>3. QED
      BY <1>5, <2>2 DEF u
  <1>6. QED
    BY <1>2, <1>4, <1>5

\* Whatever index RDC reports, there are as many values as the gauges have labels.
THEOREM ValuesFitGauges == Spec => []LabelsAligned
  <1>1. IInv => LabelsAligned
    BY ValuesOf DEF LabelsAligned
  <1>2. QED
    BY Inductive, <1>1, PTL

\* A refresh leaves exactly what the kubelet listed, by the last container that
\* names a GPU under either of its ids.
THEOREM RefreshIsTheList == Spec => []AttributionIsTheLists
  <1>1. IInv => AttributionIsTheLists
    BY DEF IInv, HolderInv, Labelling, AttributionIsTheLists
  <1>2. QED
    BY Inductive, <1>1, PTL

\* The series of a GPU before which none is skipped carry the workload that holds
\* this very GPU.
THEOREM SeriesCarryTheHolder == Spec => []LabelsLineUp
  <1>1. IInv => LabelsLineUp
    <2> SUFFICES ASSUME IInv, pc = "serving", kubelet, NEW d \in Discovered,
                        \A e \in 1..(d - 1) : host[e] \in {"gpu", "file"}
                 PROVE  SubSeq(LabelsFor(RDCIndex(d)), 1, 3) = Holder(d)
      BY DEF LabelsLineUp
    <2>1. d \in Entries
      BY DEF Discovered
    <2>2. RDCIndex(d) = DeviceIndex(d) /\ RDCIndex(d) \in Nat
      BY <2>1, RDCIndexes
    <2>3. labels[DeviceIndex(d)] = Holder(d) /\ DeviceIndex(d) \in DOMAIN labels
      BY DeviceIndexes DEF IInv, HolderInv, SnapshotInv, Labelling
    <2>4. SubSeq(LabelsFor(RDCIndex(d)), 1, 3) = WorkloadLabels(RDCIndex(d))
      BY <2>2, ValuesOf
    <2>5. QED
      BY <2>2, <2>3, <2>4 DEF WorkloadLabels
  <1>2. QED
    BY Inductive, <1>1, PTL

\* A bad card record costs the UUID of its own GPU, and nothing else costs any.
THEOREM BadCardIsContained == Spec => []OneBadCardCostsItself
  <1>1. IInv => OneBadCardCostsItself
    <2> SUFFICES ASSUME IInv, pc = "serving", NEW d \in Entries, IsGPU(d)
                 PROVE  LabelsFor(RDCIndex(d))[Len(labelKeys)] =
                           IF cards # NoReport /\ cards[d] = "valid" THEN UUIDOf[d] ELSE Empty
      BY DEF OneBadCardCostsItself
    <2> DEFINE i == RDCIndex(d)
    <2>1. LabelsFor(i)[Len(labelKeys)] = IF i \in DOMAIN uuids THEN uuids[i] ELSE Empty
      BY RDCIndexes, ValuesOf
    <2>2. CASE cards # NoReport /\ cards[d] = "valid"
      <3>1. d \in Parsed
        BY <2>2 DEF Parsed
      <3>2. i \in DOMAIN uuids /\ uuids[i] = UUIDOf[d]
        BY <2>2, <3>1 DEF IInv, UUIDInv
      <3>3. QED
        BY <2>1, <2>2, <3>2
    <2>3. CASE cards = NoReport
      BY <2>1, <2>3 DEF IInv, UUIDInv
    <2>4. CASE cards # NoReport /\ cards[d] # "valid"
      <3>1. i \notin DOMAIN uuids
        <4> SUFFICES ASSUME i \in DOMAIN uuids PROVE FALSE
          OBVIOUS
        <4>1. PICK e \in Parsed : RDCIndex(e) = i
          BY <2>4 DEF IInv, UUIDInv
        <4>2. e \in Entries /\ IsGPU(e) /\ cards[e] = "valid"
          BY DEF Parsed
        <4>3. e = d
          BY <4>1, <4>2, RDCIndexes
        <4>4. QED
          BY <2>4, <4>2, <4>3
      <3>2. QED
        BY <2>1, <2>4, <3>1
    <2>5. QED
      BY <2>2, <2>3, <2>4
  <1>2. QED
    BY Inductive, <1>1, PTL
=============================================================================
