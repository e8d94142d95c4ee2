------------------------------ MODULE Session ------------------------------
(***************************************************************************)
(* The RDC session behind the reader: rdcsource.New                        *)
(* (internal/adapter/rdcsource/reader.go) discovers the GPUs, makes a GPU  *)
(* group and a field group in RDC and watches the one with the other, over *)
(* several lives of the exporter process.                                  *)
(*                                                                         *)
(* Every step is one call into RDC.  The call may fail, whereupon New      *)
(* gives up and main returns, and the process may be killed at any step:   *)
(* what was done in RDC by then stays done.                                *)
(*                                                                         *)
(* RDC is external.  Its tables of groups and watches are modelled from    *)
(* how handler.go uses them; whether they outlive the process is left      *)
(* open, as config.go speaks of reuse "across restarts" while              *)
(* NewEmbeddedHandler starts RDC inside the process.                       *)
(***************************************************************************)
EXTENDS Naturals, Sequences, FiniteSets, Subsequences

CONSTANTS
    Hosts,       \* what RDC may list as GPU indexes, as sequences
    Filters,     \* what --gpu-indexes may hold, as sets; {} is no filter
    FieldLists,  \* what the catalog may select, as sequences of field ids
    GroupName, FieldGroupName,   \* Config
    OtherName,   \* the name of a group that is RDC's own
    Ids,         \* group ids; RDC_MAX_NUM_GROUPS is their number
    RdcId,       \* the id of RDC's own group of each kind
    NoGroup,     \* no group yet
    MaxStarts    \* bound on the lives of the process

ASSUME SessionAssumption ==
    /\ RdcId \in Ids /\ NoGroup \notin Ids
    /\ OtherName \notin {GroupName, FieldGroupName}
    /\ MaxStarts \in Nat
    /\ Hosts \subseteq Seq(Nat) /\ FieldLists \subseteq Seq(Nat)
    /\ \A h \in Hosts : \A i \in DOMAIN h : h[i] = i - 1

VARIABLES
    gpuGroups,    \* RDC's GPU groups: id -> name and members
    fieldGroups,  \* RDC's field groups: id -> name and members
    watches,      \* the pairs <<GPU group, field group>> RDC watches
    host,         \* the GPU indexes RDC lists
    pc,           \* the call New is about to make; "ready" or "down"
    filter,       \* gpuFilter
    fieldIDs, gpuIndexes, gpuGroupID, fieldGroupID,   \* Reader
    starts        \* lives of the process so far

rdcVars    == <<gpuGroups, fieldGroups, watches>>
readerVars == <<fieldIDs, gpuIndexes, gpuGroupID, fieldGroupID>>
vars == <<rdcVars, host, pc, filter, readerVars, starts>>

\* RDC as it starts: its own groups and no watch.
Fresh(m) == [id \in {RdcId} |-> [name |-> OtherName, members |-> m]]
FreshGpu   == Fresh(<<0>>)
FreshField == Fresh(<<1>>)

\* Name() keeps the NUL padding of RDC's buffer, which a Go string from the
\* configuration does not have; no name fills the buffer.
GoString(n) == <<n>>
NameUnpadded(group) == GoString(group.name)
Name(group) == <<group.name, "NUL">>

Init ==
    /\ gpuGroups    = FreshGpu
    /\ fieldGroups  = FreshField
    /\ watches      = {}
    /\ host         = <<>>
    /\ pc           = "down"
    /\ filter       = {}
    /\ fieldIDs     = <<>>
    /\ gpuIndexes   = <<>>
    /\ gpuGroupID   = NoGroup
    /\ fieldGroupID = NoGroup
    /\ starts       = 0

-----------------------------------------------------------------------------
(* rdcsource.New                                                           *)

\* A new process with a configuration of its own runs rdc.Init and
\* NewEmbeddedHandler; RDC has kept its tables or starts afresh.
Start(h, f, fs) ==
    /\ pc = "down" /\ starts < MaxStarts
    /\ starts'   = starts + 1
    /\ host'     = h
    /\ filter'   = f
    /\ fieldIDs' = fs
    /\ \/ UNCHANGED rdcVars
       \/ gpuGroups' = FreshGpu /\ fieldGroups' = FreshField /\ watches' = {}
    /\ gpuIndexes' = <<>> /\ gpuGroupID' = NoGroup /\ fieldGroupID' = NoGroup
    /\ pc' = "discover"

\* A filter keeps the host GPUs it names, in host order.
filterGPUIndexes(h, f) ==
    IF f = {} THEN h ELSE ElementsIn(h, {g \in f : g < Len(h)})

\* A filter that selects nothing is an error; a host without GPUs is not.
Discover ==
    /\ pc = "discover"
    /\ gpuIndexes' = filterGPUIndexes(host, filter)
    /\ filter # {} => gpuIndexes' # <<>>
    /\ pc' = "findGPUGroup"
    /\ UNCHANGED <<rdcVars, host, filter, fieldIDs, gpuGroupID, fieldGroupID, starts>>

\* The groups a scan of the table for name n may come to first: any of that
\* name, as the info of a group that cannot be read is passed over.
NamedAny(table, n) == DOMAIN table
Named(table, n) == {id \in DOMAIN table : Name(table[id]) = GoString(n)}

Without(table, id) == [i \in DOMAIN table \ {id} |-> table[i]]
With(table, id, group) ==
    [i \in DOMAIN table \cup {id} |-> IF i = id THEN group ELSE table[i]]

\* createGPUGroup, the scan: a group of that name is reused if its members are
\* the wanted ones, and destroyed if not; there may be none.
FindGPUGroup ==
    /\ pc = "findGPUGroup"
    /\ \E id \in Named(gpuGroups, GroupName) \cup {NoGroup} :
          IF id # NoGroup /\ gpuGroups[id].members = gpuIndexes
          THEN /\ gpuGroupID' = id
               /\ pc' = "findFieldGroup"
               /\ UNCHANGED gpuGroups
          ELSE /\ gpuGroups' = Without(gpuGroups, id)
               /\ pc' = "createGPUGroup"
               /\ UNCHANGED gpuGroupID
    /\ UNCHANGED <<fieldGroups, watches, host, filter, fieldIDs, gpuIndexes,
                   fieldGroupID, starts>>

\* CreateGpuGroup: an empty group with an id of its own.
CreateGPUGroup ==
    /\ pc = "createGPUGroup"
    /\ \E id \in Ids \ DOMAIN gpuGroups :
          /\ gpuGroups'  = With(gpuGroups, id, [name |-> GroupName, members |-> <<>>])
          /\ gpuGroupID' = id
    /\ pc' = "addGPU"
    /\ UNCHANGED <<fieldGroups, watches, host, filter, fieldIDs, gpuIndexes,
                   fieldGroupID, starts>>

\* A GPU that cannot be added ends the loop but not New.
AddGPUGivesUp ==
    /\ pc = "addGPU"
    /\ LET n == Len(gpuGroups[gpuGroupID].members) IN
       \/ /\ n < Len(gpuIndexes)
          /\ gpuGroups' = [gpuGroups EXCEPT ![gpuGroupID].members =
                               Append(@, gpuIndexes[n + 1])]
          /\ UNCHANGED pc
       \/ pc' = "findFieldGroup" /\ UNCHANGED gpuGroups
    /\ UNCHANGED <<gpuGroupID, fieldGroups, watches, host, filter, fieldIDs,
                   gpuIndexes, fieldGroupID, starts>>

\* AddGpuToGroup adds the GPUs one by one.
AddGPU ==
    /\ pc = "addGPU"
    /\ LET n == Len(gpuGroups[gpuGroupID].members) IN
       IF n < Len(gpuIndexes)
       THEN /\ gpuGroups' = [gpuGroups EXCEPT ![gpuGroupID].members =
                                Append(@, gpuIndexes[n + 1])]
            /\ UNCHANGED pc
       ELSE /\ pc' = "findFieldGroup"
            /\ UNCHANGED gpuGroups
    /\ UNCHANGED <<gpuGroupID, fieldGroups, watches, host, filter, fieldIDs,
                   gpuIndexes, fieldGroupID, starts>>

\* The members of a field group, without zero ids.
ValidFieldIDs(group) == ElementsIn(group.members, Nat \ {0})

\* createFieldGroup, the scan.
FindFieldGroup ==
    /\ pc = "findFieldGroup"
    /\ \E id \in Named(fieldGroups, FieldGroupName) \cup {NoGroup} :
          IF id # NoGroup /\ ValidFieldIDs(fieldGroups[id]) = fieldIDs
          THEN /\ fieldGroupID' = id
               /\ pc' = "unwatch"
               /\ UNCHANGED fieldGroups
          ELSE /\ fieldGroups' = Without(fieldGroups, id)
               /\ pc' = "createFieldGroup"
               /\ UNCHANGED fieldGroupID
    /\ UNCHANGED <<gpuGroups, watches, host, filter, fieldIDs, gpuIndexes,
                   gpuGroupID, starts>>

\* The field group is given the name of the GPU group.
CreateFieldGroupMisnamed ==
    /\ pc = "createFieldGroup"
    /\ \E id \in Ids \ DOMAIN fieldGroups :
          /\ fieldGroups'  = With(fieldGroups, id,
                                [name |-> GroupName, members |-> fieldIDs])
          /\ fieldGroupID' = id
    /\ pc' = "unwatch"
    /\ UNCHANGED <<gpuGroups, watches, host, filter, fieldIDs, gpuIndexes,
                   gpuGroupID, starts>>

\* CreateFieldGroup, with all its fields at once.
CreateFieldGroup ==
    /\ pc = "createFieldGroup"
    /\ \E id \in Ids \ DOMAIN fieldGroups :
          /\ fieldGroups'  = With(fieldGroups, id,
                                [name |-> FieldGroupName, members |-> fieldIDs])
          /\ fieldGroupID' = id
    /\ pc' = "unwatch"
    /\ UNCHANGED <<gpuGroups, watches, host, filter, fieldIDs, gpuIndexes,
                   gpuGroupID, starts>>

\* UnwatchFields tolerates a pair that is not watched.
UnwatchFields ==
    /\ pc = "unwatch"
    /\ watches' = watches \ {<<gpuGroupID, fieldGroupID>>}
    /\ pc' = "watch"
    /\ UNCHANGED <<gpuGroups, fieldGroups, host, filter, readerVars, starts>>

WatchFields ==
    /\ pc = "watch"
    /\ watches' = watches \cup {<<gpuGroupID, fieldGroupID>>}
    /\ pc' = "ready"
    /\ UNCHANGED <<gpuGroups, fieldGroups, host, filter, readerVars, starts>>

\* The process ends: a call fails and New returns its error to main, a signal
\* leads to Reader.Close, or the process is killed.
End ==
    /\ pc # "down"
    /\ pc' = "down"
    /\ UNCHANGED <<rdcVars, host, filter, readerVars, starts>>

Finished == pc = "down" /\ starts = MaxStarts /\ UNCHANGED vars

Next ==
    \/ \E h \in Hosts, f \in Filters, fs \in FieldLists : Start(h, f, fs)
    \/ Discover
    \/ FindGPUGroup
    \/ CreateGPUGroup
    \/ AddGPU
    \/ FindFieldGroup
    \/ CreateFieldGroup
    \/ UnwatchFields
    \/ WatchFields
    \/ End
    \/ Finished

Spec == Init /\ [][Next]_vars

-----------------------------------------------------------------------------
(* Properties                                                              *)

Steps == {"down", "discover", "findGPUGroup", "createGPUGroup", "addGPU",
          "findFieldGroup", "createFieldGroup", "unwatch", "watch", "ready"}

IsTable(table, names) ==
    /\ DOMAIN table \subseteq Ids
    /\ table \in [DOMAIN table -> [name : names, members : Seq(Nat)]]

\* Every variable stays in its type.
TypeOK ==
    /\ IsTable(gpuGroups, {GroupName, OtherName})
    /\ IsTable(fieldGroups, {FieldGroupName, OtherName})
    /\ watches \subseteq Ids \X Ids
    /\ host \in Hosts \cup {<<>>}
    /\ pc \in Steps
    /\ filter \in Filters \cup {{}}
    /\ fieldIDs \in FieldLists \cup {<<>>}
    /\ gpuIndexes \in Seq(Nat)
    /\ gpuGroupID \in Ids \cup {NoGroup}
    /\ fieldGroupID \in Ids \cup {NoGroup}
    /\ starts \in 0..MaxStarts

\* A Reader that New returned reads from what RDC really samples: RDC watches
\* its pair of groups, which hold its GPUs and its fields and no others, and its
\* GPUs are the host's that the filter names.  A life that failed or was killed
\* between any two calls leaves nothing behind that breaks the next one.
ReadyMeansWatched ==
    pc = "ready" =>
        /\ <<gpuGroupID, fieldGroupID>> \in watches
        /\ gpuGroups[gpuGroupID].members = gpuIndexes
        /\ fieldGroups[fieldGroupID].members = fieldIDs
        /\ {gpuIndexes[i] : i \in DOMAIN gpuIndexes} =
               {g \in {host[i] : i \in DOMAIN host} : filter = {} \/ g \in filter}

\* Whatever is reused, destroyed or created, RDC's own groups stay as they are.
OthersUntouched ==
    /\ RdcId \in DOMAIN gpuGroups /\ gpuGroups[RdcId] = FreshGpu[RdcId]
    /\ RdcId \in DOMAIN fieldGroups /\ fieldGroups[RdcId] = FreshField[RdcId]

\* No group is destroyed while RDC still watches it.  New destroys groups before
\* it unwatches anything, so this rests on the scans never finding a group of an
\* earlier life.
WatchedGroupsExist ==
    \A w \in watches : w[1] \in DOMAIN gpuGroups /\ w[2] \in DOMAIN fieldGroups

\* reader.go:300-302: watchFields "unwatches first so a restart with the same
\* group names does not stack watches".  A restart makes new groups of the same
\* names, and what it unwatches is the new pair.
NoStackedWatches == Cardinality(watches) <= 1
=============================================================================
