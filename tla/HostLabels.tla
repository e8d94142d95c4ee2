----------------------------- MODULE HostLabels -----------------------------
(***************************************************************************)
(* Where labels come from: GPU discovery in sysfs and rocm-smi             *)
(* (internal/hostgpu), the workload labeler (adapter/k8slabeler) and the   *)
(* identity labeler around it (adapter/gpulabeler), in the order main      *)
(* makes them.                                                             *)
(*                                                                         *)
(* Four numberings meet here: the kubelet names a GPU by its PCI address   *)
(* or render node, discovery gives it an index, rocm-smi a card number,    *)
(* and RDC the index its series are published under.                       *)
(***************************************************************************)
EXTENDS Integers, Sequences, FiniteSets

CONSTANTS
    NumEntries,   \* entries of the amdgpu driver's directory
    Kinds,        \* what an entry may be, among AllKinds
    Owners,       \* <<pod, namespace, container>> of a workload
    Empty,        \* the empty text
    UUIDOf,       \* UUIDOf[d]: the UUID of the GPU behind entry d
    NoReport,     \* rocm-smi cannot be run or its JSON has another type
    Lists         \* what the kubelet may list: sequences of containers, each
                  \* with an owner and a set of devices

\* A GPU with its render node, one without, one whose address the pattern does
\* not match (another PCI domain, say), or no GPU at all.
AllKinds == {"gpu", "norender", "unmatched", "file"}

\* What the kubelet lists: a device has an id of one of the two kinds, which may
\* be that of no entry.
Devices == [resource : STRING, id : {"pci", "render"} \X Nat]
Containers == [owner : Owners, devices : SUBSET Devices]

ASSUME HostLabelsAssumption ==
    /\ NumEntries \in Nat
    /\ Kinds \subseteq AllKinds
    /\ Empty \in STRING
    /\ Owners \subseteq [1..3 -> STRING]
    /\ \A d \in 1..NumEntries : UUIDOf[d] \in STRING \ {Empty}
    /\ Lists \subseteq Seq(Containers)

Entries == 1..NumEntries        \* in the order of their names
NoOwner == <<Empty, Empty, Empty>>

VARIABLES
    host,         \* host[d]: the kind of entry d
    driver,       \* the driver's directory can be read
    cards,        \* rocm-smi's answer, NoReport or the records: cards[d] is
                  \* "valid" or "malformed"
    kubelet,      \* --kubelet was given
    list,         \* what the kubelet lists now
    listed,       \* what it listed at the last refresh (history)
    pc,           \* "labeler", "uuids", "serving" or "failed"
    gpuDevices,   \* Labeler.gpuDevices: device id to index
    labels,       \* Labeler.labels: index to the owner's labels
    uuids,        \* gpulabeler.Labeler.uuids: index to UUID
    labelKeys     \* the label names the gauges were registered with

hostVars == <<host, driver, cards, kubelet>>
vars == <<hostVars, list, listed, pc, gpuDevices, labels, uuids, labelKeys>>

Init ==
    /\ host    \in [Entries -> Kinds]
    /\ driver  \in BOOLEAN
    /\ cards   \in {NoReport} \cup [Entries -> {"valid", "malformed"}]
    /\ kubelet \in BOOLEAN
    /\ list    \in Lists
    /\ listed  = <<>>
    /\ pc      = "labeler"
    /\ gpuDevices = <<>> /\ labels = <<>> /\ uuids = <<>> /\ labelKeys = <<>>

-----------------------------------------------------------------------------
(* The host                                                                *)

IsGPU(d) == host[d] # "file"

\* RDC and rocm-smi number all GPUs, in PCI order.
RDCIndex(d) == Cardinality({e \in Entries : e < d /\ IsGPU(e)})

IdsOf(d) == {<<"pci", d>>, <<"render", d>>}

\* Discovery that numbers directory entries.
DeviceIndexOfEntry(d) == d - 1

\* The index of a device is the number of devices found before it; an entry that
\* is no PCI address, or has no render node, is skipped.
DeviceIndex(d) == Cardinality({e \in Entries : e < d /\ host[e] = "gpu"})

Discovered == {d \in Entries : host[d] = "gpu"}

\* A parser that gives up at the first bad record.
ParsedUntilBad == {d \in Entries : IsGPU(d) /\ \A e \in 1..d : IsGPU(e) => cards[e] = "valid"}

\* A malformed record is left out, the others are kept.
Parsed == {d \in Entries : IsGPU(d) /\ cards[d] = "valid"}

-----------------------------------------------------------------------------
(* Start-up                                                                *)

\* Without --kubelet there is no workload labeler.
NoLabeler ==
    /\ pc = "labeler" /\ ~kubelet
    /\ pc' = "uuids"
    /\ UNCHANGED <<hostVars, list, listed, gpuDevices, labels, uuids, labelKeys>>

\* k8slabeler.New snapshots the devices, none of them attributed yet.
NewLabeler ==
    /\ pc = "labeler" /\ kubelet /\ driver
    /\ labels' = [i \in {DeviceIndex(d) : d \in Discovered} |-> NoOwner]
    /\ gpuDevices' = [id \in UNION {IdsOf(d) : d \in Discovered} |->
                         DeviceIndex(CHOOSE d \in Discovered : id \in IdsOf(d))]
    /\ pc' = "uuids"
    /\ UNCHANGED <<hostVars, list, listed, uuids, labelKeys>>

\* The driver's directory cannot be read: main returns.
NewLabelerFails ==
    /\ pc = "labeler" /\ kubelet /\ ~driver
    /\ pc' = "failed"
    /\ UNCHANGED <<hostVars, list, listed, gpuDevices, labels, uuids, labelKeys>>

WorkloadKeys == IF kubelet THEN <<"pod", "namespace", "container">> ELSE <<>>

\* LoadUUIDs, whose failure is only a warning, and gpulabeler.New; the gauges are
\* registered with the keys the labelers have now.
LoadUUIDs ==
    /\ pc = "uuids"
    /\ uuids' = IF cards = NoReport THEN <<>>
                ELSE [i \in {RDCIndex(d) : d \in Parsed} |->
                         UUIDOf[CHOOSE d \in Parsed : RDCIndex(d) = i]]
    /\ labelKeys' = WorkloadKeys \o <<"UUID">>
    /\ pc' = "serving"
    /\ UNCHANGED <<hostVars, list, listed, gpuDevices, labels>>

-----------------------------------------------------------------------------
(* The cycle                                                               *)

\* listContainers keeps the ids of AMD GPUs.
GPUIds(container) ==
    {dev.id : dev \in {x \in container.devices : x.resource = "amd.com/gpu"}}

\* The indexes of the GPUs a container holds; an id of no known GPU is none.
Held(container) == {gpuDevices[id] : id \in GPUIds(container) \cap DOMAIN gpuDevices}

\* One container: the GPUs it holds get its labels.
Attribute(l, container) ==
    [i \in DOMAIN l |-> IF i \in Held(container) THEN container.owner ELSE l[i]]

\* Attributed(l, cs)[n]: the first n containers of cs gone through in order, from
\* the labels l.
Attributed(l, cs) ==
    LET after[n \in 0..Len(cs)] ==
            IF n = 0 THEN l ELSE Attribute(after[n - 1], cs[n])
    IN  after

KubeletChanges ==
    /\ pc = "serving" /\ kubelet
    /\ list' \in Lists
    /\ UNCHANGED <<hostVars, listed, pc, gpuDevices, labels, uuids, labelKeys>>

\* A refresh that does not reset the labels.
RefreshAdds ==
    /\ pc = "serving" /\ kubelet
    /\ labels' = Attributed(labels, list)[Len(list)]
    /\ listed' = list
    /\ UNCHANGED <<hostVars, list, pc, gpuDevices, uuids, labelKeys>>

\* All labels are reset, then the containers are gone through in order.
Refresh ==
    /\ pc = "serving" /\ kubelet
    /\ labels' = Attributed([i \in DOMAIN labels |-> NoOwner], list)[Len(list)]
    /\ listed' = list
    /\ UNCHANGED <<hostVars, list, pc, gpuDevices, uuids, labelKeys>>

\* An index without an entry has no values at all.
WorkloadLabelsShort(i) == IF i \in DOMAIN labels THEN labels[i] ELSE <<>>

\* k8slabeler.LabelsFor
WorkloadLabels(i) == IF i \in DOMAIN labels THEN labels[i] ELSE NoOwner

\* gpulabeler.LabelsFor
LabelsFor(i) ==
    (IF kubelet THEN WorkloadLabels(i) ELSE <<>>)
      \o <<IF i \in DOMAIN uuids THEN uuids[i] ELSE Empty>>

Failed == pc = "failed" /\ UNCHANGED vars

\* Without a kubelet nothing changes any more; a failed query (see Collect)
\* changes nothing either.
Idle == pc = "serving" /\ UNCHANGED vars

Next ==
    \/ NoLabeler
    \/ NewLabeler
    \/ NewLabelerFails
    \/ LoadUUIDs
    \/ KubeletChanges
    \/ Refresh
    \/ Failed
    \/ Idle

Spec == Init /\ [][Next]_vars

-----------------------------------------------------------------------------
(* Properties                                                              *)

\* Every variable stays in its type: device ids lead to indexes that have labels.
TypeOK ==
    /\ pc \in {"labeler", "uuids", "serving", "failed"}
    /\ list \in Lists
    /\ listed \in Lists \cup {<<>>}
    /\ labels \in [DOMAIN labels -> Owners \cup {NoOwner}]
    /\ DOMAIN labels = 0..(Cardinality(DOMAIN labels) - 1)
    /\ \A id \in DOMAIN gpuDevices : gpuDevices[id] \in DOMAIN labels
    /\ \A i \in DOMAIN uuids : i \in Nat /\ uuids[i] \in {UUIDOf[d] : d \in Entries}

\* Whatever GPU RDC reports, known to discovery or not, has as many label values
\* as its gauge was registered with: WithLabelValues would panic otherwise.
LabelsAligned ==
    pc = "serving" => \A i \in 0..NumEntries : Len(LabelsFor(i)) = Len(labelKeys)

\* The workload that holds a GPU by the list of the last refresh, under either of
\* its ids: the last container that names it.
Holder(d) ==
    LET naming == {n \in DOMAIN listed : GPUIds(listed[n]) \cap IdsOf(d) # {}}
    IN  IF naming = {} THEN NoOwner
        ELSE listed[CHOOSE n \in naming : \A m \in naming : m <= n].owner

\* A refresh leaves exactly what the kubelet listed: a GPU given back loses its
\* labels, one that changes hands has the new owner's, whichever of its two ids
\* either list used.
AttributionIsTheLists ==
    pc = "serving" /\ kubelet =>
        \A d \in Discovered : labels[DeviceIndex(d)] = Holder(d)

\* As long as no GPU is skipped before it, a GPU's series carry the workload that
\* holds this very GPU, whatever else lies in the directory.
LabelsLineUp ==
    pc = "serving" /\ kubelet =>
        \A d \in Discovered :
            (\A e \in 1..(d - 1) : host[e] \in {"gpu", "file"}) =>
                SubSeq(LabelsFor(RDCIndex(d)), 1, 3) = Holder(d)

\* main.go:140-141: one bad card record costs the UUID of its own GPU only, and
\* neither a failing rocm-smi nor a GPU that discovery skips costs more.
OneBadCardCostsItself ==
    pc = "serving" =>
        \A d \in Entries : IsGPU(d) =>
            LabelsFor(RDCIndex(d))[Len(labelKeys)] =
                IF cards # NoReport /\ cards[d] = "valid" THEN UUIDOf[d] ELSE Empty

=============================================================================
