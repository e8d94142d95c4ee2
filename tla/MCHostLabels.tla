---------------------------- MODULE MCHostLabels ----------------------------
EXTENDS HostLabels

PodA == <<"podA", "ns", "c">>
PodB == <<"podB", "ns", "c">>
MCOwners == {PodA, PodB}
MCUUIDOf == <<"GPU-1", "GPU-2", "GPU-3">>

GPU(id)   == [resource |-> "amd.com/gpu", id |-> id]
Other(id) == [resource |-> "other.com/device", id |-> id]

\* One GPU by either id, two at once, an unknown one, another plugin's device.
MCDevices ==
    {{GPU(<<"pci", 1>>)}, {GPU(<<"render", 1>>), GPU(<<"pci", 2>>)}, {GPU(<<"render", 2>>)},
     {GPU(<<"pci", 3>>), GPU(<<"pci", 9>>)}, {Other(<<"pci", 1>>)}}
MCContainers == [owner : MCOwners, devices : MCDevices]
MCLists == {<<>>} \cup [1..1 -> MCContainers] \cup
           {l \in [1..2 -> MCContainers] : l[1].owner = PodA /\ l[2].owner = PodB}
=============================================================================
