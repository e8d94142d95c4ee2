---------------------------- MODULE SessionProofs ----------------------------
(* Proofs about Session for any hosts, filters, field lists, group ids and *)
(* number of lives.                                                        *)
EXTENDS Session, SubsequenceProofs

-----------------------------------------------------------------------------
(* The invariant                                                           *)

\* RDC's tables only have ids of groups, and RDC's own groups are in them.
TablesInv ==
    /\ DOMAIN gpuGroups \subseteq Ids /\ DOMAIN fieldGroups \subseteq Ids
    /\ OthersUntouched

\* The group New fills is its own and there; so are the two it watches.
OwnGroupsInv ==
    /\ pc = "addGPU" => gpuGroupID # RdcId
    /\ pc \in {"addGPU", "findFieldGroup", "createFieldGroup", "unwatch", "watch"}
          => gpuGroupID \in DOMAIN gpuGroups
    /\ pc \in {"unwatch", "watch"} => fieldGroupID \in DOMAIN fieldGroups

IInv == TablesInv /\ OwnGroupsInv /\ WatchedGroupsExist

-----------------------------------------------------------------------------
(* Lemmas                                                                  *)

\* A name with RDC's padding is no name of the configuration: the scans find no
\* group at all.
LEMMA NothingNamed ==
    ASSUME NEW table, NEW n
    PROVE  Named(table, n) = {}
  <1>1. ASSUME NEW group PROVE Name(group) # GoString(n)
    BY DEF Name, GoString
  <1>2. QED
    BY <1>1 DEF Named

\* Destroying the group a scan did not find leaves a table as it is.
LEMMA WithoutNoGroup ==
    ASSUME NEW table, DOMAIN table \subseteq Ids
    PROVE  /\ DOMAIN Without(table, NoGroup) = DOMAIN table
           /\ \A id \in DOMAIN table : Without(table, NoGroup)[id] = table[id]
  BY SessionAssumption DEF Without

\* RDC starts with its own groups only.
LEMMA FreshTables ==
    /\ DOMAIN FreshGpu = {RdcId} /\ DOMAIN FreshField = {RdcId}
  BY DEF FreshGpu, FreshField, Fresh

-----------------------------------------------------------------------------
(* Each step                                                               *)

LEMMA InitIInv == Init => IInv
  BY FreshTables, SessionAssumption
     DEF Init, IInv, TablesInv, OwnGroupsInv, OthersUntouched, WatchedGroupsExist

LEMMA StartStep ==
    ASSUME IInv, NEW h, NEW f, NEW fs, Start(h, f, fs)
    PROVE  IInv'
  <1> USE DEF IInv, TablesInv, OwnGroupsInv, OthersUntouched, WatchedGroupsExist
  <1>1. pc' = "discover"
    BY DEF Start
  <1>2. CASE UNCHANGED rdcVars
    BY <1>1, <1>2 DEF rdcVars, FreshGpu, FreshField
  <1>3. CASE gpuGroups' = FreshGpu /\ fieldGroups' = FreshField /\ watches' = {}
    BY <1>1, <1>3, FreshTables, SessionAssumption DEF FreshGpu, FreshField
  <1>4. QED
    BY <1>2, <1>3 DEF Start

\* The scan finds nothing, so that nothing is reused and nothing is destroyed.
LEMMA FindGPUGroupStep ==
    ASSUME IInv, FindGPUGroup
    PROVE  IInv'
  <1> USE DEF IInv, TablesInv, OwnGroupsInv, OthersUntouched, WatchedGroupsExist
  <1>1. /\ gpuGroups' = Without(gpuGroups, NoGroup)
        /\ pc' = "createGPUGroup"
    BY NothingNamed DEF FindGPUGroup
  <1>2. UNCHANGED <<fieldGroups, watches>>
    BY DEF FindGPUGroup
  <1>3. QED
    BY <1>1, <1>2, WithoutNoGroup, SessionAssumption DEF FreshGpu, FreshField

LEMMA FindFieldGroupStep ==
    ASSUME IInv, FindFieldGroup
    PROVE  IInv'
  <1> USE DEF IInv, TablesInv, OwnGroupsInv, OthersUntouched, WatchedGroupsExist
  <1>1. /\ fieldGroups' = Without(fieldGroups, NoGroup)
        /\ pc' = "createFieldGroup"
    BY NothingNamed DEF FindFieldGroup
  <1>2. pc = "findFieldGroup" /\ UNCHANGED <<gpuGroups, watches, gpuGroupID>>
    BY DEF FindFieldGroup
  <1>3. QED
    BY <1>1, <1>2, WithoutNoGroup, SessionAssumption DEF FreshGpu, FreshField

LEMMA CreateGPUGroupStep ==
    ASSUME IInv, CreateGPUGroup
    PROVE  IInv'
  <1> USE DEF IInv, TablesInv, OwnGroupsInv, OthersUntouched, WatchedGroupsExist
  <1>1. PICK id \in Ids \ DOMAIN gpuGroups :
            /\ gpuGroups' = With(gpuGroups, id, [name |-> GroupName, members |-> <<>>])
            /\ gpuGroupID' = id
    BY DEF CreateGPUGroup
  <1>2. pc' = "addGPU" /\ UNCHANGED <<fieldGroups, watches>>
    BY DEF CreateGPUGroup
  <1>3. /\ DOMAIN gpuGroups' = DOMAIN gpuGroups \cup {gpuGroupID'}
        /\ \A i \in DOMAIN gpuGroups : gpuGroups'[i] = gpuGroups[i]
        /\ gpuGroupID' \in Ids \ DOMAIN gpuGroups
    BY <1>1 DEF With
  <1>4. QED
    BY <1>2, <1>3 DEF FreshGpu, FreshField

LEMMA CreateFieldGroupStep ==
    ASSUME IInv, CreateFieldGroup
    PROVE  IInv'
  <1> USE DEF IInv, TablesInv, OwnGroupsInv, OthersUntouched, WatchedGroupsExist
  <1>1. PICK id \in Ids \ DOMAIN fieldGroups :
            /\ fieldGroups' =
                  With(fieldGroups, id, [name |-> FieldGroupName, members |-> fieldIDs])
            /\ fieldGroupID' = id
    BY DEF CreateFieldGroup
  <1>2. /\ pc = "createFieldGroup" /\ pc' = "unwatch"
        /\ UNCHANGED <<gpuGroups, watches, gpuGroupID>>
    BY DEF CreateFieldGroup
  <1>3. /\ DOMAIN fieldGroups' = DOMAIN fieldGroups \cup {fieldGroupID'}
        /\ \A i \in DOMAIN fieldGroups : fieldGroups'[i] = fieldGroups[i]
        /\ fieldGroupID' \in Ids \ DOMAIN fieldGroups
    BY <1>1 DEF With
  <1>4. QED
    BY <1>2, <1>3 DEF FreshGpu, FreshField

\* Only the members of the group that New made change.
LEMMA AddGPUStep ==
    ASSUME IInv, AddGPU
    PROVE  IInv'
  <1> USE DEF IInv, TablesInv, OwnGroupsInv, OthersUntouched, WatchedGroupsExist
  <1>1. /\ pc = "addGPU" /\ pc' \in {"addGPU", "findFieldGroup"}
        /\ UNCHANGED <<fieldGroups, watches, gpuGroupID>>
    BY DEF AddGPU
  <1>2. /\ DOMAIN gpuGroups' = DOMAIN gpuGroups
        /\ \A id \in DOMAIN gpuGroups : id # gpuGroupID => gpuGroups'[id] = gpuGroups[id]
    BY DEF AddGPU
  <1>3. QED
    BY <1>1, <1>2 DEF FreshGpu, FreshField

LEMMA WatchStep ==
    ASSUME IInv, UnwatchFields \/ WatchFields
    PROVE  IInv'
  <1> USE DEF IInv, TablesInv, OwnGroupsInv, OthersUntouched, WatchedGroupsExist
  <1>1. CASE UnwatchFields
    BY <1>1 DEF UnwatchFields, readerVars, FreshGpu, FreshField
  <1>2. CASE WatchFields
    <2>1. /\ pc = "watch" /\ pc' = "ready"
          /\ watches' = watches \cup {<<gpuGroupID, fieldGroupID>>}
          /\ UNCHANGED <<gpuGroups, fieldGroups, gpuGroupID, fieldGroupID>>
      BY <1>2 DEF WatchFields, readerVars
    <2>2. QED
      BY <2>1 DEF FreshGpu, FreshField
  <1>3. QED
    BY <1>1, <1>2

\* The steps that touch neither RDC nor the groups New has.
LEMMA OtherStep ==
    ASSUME IInv, Discover \/ End \/ Finished \/ UNCHANGED vars
    PROVE  IInv'
  <1> USE DEF IInv, TablesInv, OwnGroupsInv, OthersUntouched, WatchedGroupsExist
  <1>1. UNCHANGED rdcVars
    BY DEF Discover, End, Finished, vars
  <1>2. \/ pc' \in {"findGPUGroup", "down"}
        \/ UNCHANGED <<pc, gpuGroupID, fieldGroupID>>
    BY DEF Discover, End, Finished, vars, readerVars
  <1>3. QED
    BY <1>1, <1>2 DEF rdcVars, FreshGpu, FreshField

-----------------------------------------------------------------------------
(* The theorems                                                            *)

LEMMA NextIInv == IInv /\ [Next]_vars => IInv'
  BY StartStep, FindGPUGroupStep, FindFieldGroupStep, CreateGPUGroupStep,
     CreateFieldGroupStep, AddGPUStep, WatchStep, OtherStep DEF Next

\* The invariant of RDC's tables and watches is inductive.
THEOREM Inductive == Spec => []IInv
  BY InitIInv, NextIInv, PTL DEF Spec

\* RDC's own groups stay as they are, through failures, kills and restarts.
THEOREM OthersKept == Spec => []OthersUntouched
  <1>1. IInv => OthersUntouched
    BY DEF IInv, TablesInv
  <1>2. QED
    BY <1>1, Inductive, PTL

\* No group that RDC watches is destroyed.
THEOREM WatchedKept == Spec => []WatchedGroupsExist
  <1>1. IInv => WatchedGroupsExist
    BY DEF IInv
  <1>2. QED
    BY <1>1, Inductive, PTL
-----------------------------------------------------------------------------
(* What New has done so far                                                *)

\* The GPUs are the host's that the filter names; the group of the GPUs is filled
\* from the front, and both groups are complete when they are watched.
ProgressInv ==
    /\ pc \notin {"down", "discover"} => gpuIndexes = filterGPUIndexes(host, filter)
    /\ pc = "addGPU" =>
          LET m == gpuGroups[gpuGroupID].members IN
             Len(m) <= Len(gpuIndexes) /\ \A i \in 1..Len(m) : m[i] = gpuIndexes[i]
    /\ pc \in {"findFieldGroup", "createFieldGroup", "unwatch", "watch", "ready"} =>
          gpuGroups[gpuGroupID].members = gpuIndexes
    /\ pc \in {"unwatch", "watch", "ready"} =>
          fieldGroups[fieldGroupID].members = fieldIDs
    /\ pc = "ready" => <<gpuGroupID, fieldGroupID>> \in watches

JInv == IInv /\ TypeOK /\ ProgressInv

\* The filter keeps GPUs of the host: those it names, in the host's order.
LEMMA FilterKeeps ==
    ASSUME NEW h \in Seq(Nat), NEW f, NEW kept, kept = filterGPUIndexes(h, f)
    PROVE  /\ kept \in Seq(Nat)
           /\ \A k \in DOMAIN kept : \E i \in DOMAIN h :
                 kept[k] = h[i] /\ (f = {} \/ h[i] \in f)
           /\ (\A i \in DOMAIN h : h[i] = i - 1) =>
                 \A i \in DOMAIN h : f = {} \/ h[i] \in f =>
                     \E k \in DOMAIN kept : kept[k] = h[i]
  <1> DEFINE K == {i \in DOMAIN h : h[i] \in {g \in f : g < Len(h)}}
  <1>1. K \in SUBSET DOMAIN h
    OBVIOUS
  <1>2. kept = IF f = {} THEN h ELSE ElementsAt(h, K)
    BY DEF filterGPUIndexes, ElementsIn
  <1>3. DOMAIN h = 1..Len(h) /\ Len(h) \in Nat
    OBVIOUS
  <1>4. (\A i \in DOMAIN h : h[i] = i - 1) =>
            \A i \in DOMAIN h : h[i] \in f => i \in K
    BY <1>3
  <1>5. \A i \in K : i \in DOMAIN h /\ h[i] \in f
    OBVIOUS
  <1> HIDE DEF K
  <1>6. ElementsAt(h, K) \in Seq(Nat)
    BY <1>1, Picked
  <1>7. /\ \A k \in DOMAIN ElementsAt(h, K) : \E i \in K : ElementsAt(h, K)[k] = h[i]
        /\ \A i \in K : \E k \in DOMAIN ElementsAt(h, K) : ElementsAt(h, K)[k] = h[i]
    BY <1>1, PickedElements
  <1>8. CASE f = {}
    BY <1>2, <1>8
  <1>9. CASE f # {}
    BY <1>2, <1>4, <1>5, <1>6, <1>7, <1>9
  <1>10. QED
    BY <1>8, <1>9

\* RDC lists the GPUs by their index; a field list is one of the catalog's.
LEMMA ListsType ==
    ASSUME TypeOK
    PROVE  /\ host \in Seq(Nat) /\ \A i \in DOMAIN host : host[i] = i - 1
           /\ fieldIDs \in Seq(Nat)
  <1>1. <<>> \in Seq(Nat) /\ \A i \in DOMAIN <<>> : <<>>[i] = i - 1
    OBVIOUS
  <1>2. host \in Hosts \/ host = <<>>
    BY DEF TypeOK
  <1>3. fieldIDs \in FieldLists \/ fieldIDs = <<>>
    BY DEF TypeOK
  <1>4. QED
    BY <1>1, <1>2, <1>3, SessionAssumption

LEMMA InitJInv == Init => JInv
  <1> SUFFICES ASSUME Init PROVE TypeOK /\ ProgressInv
    BY InitIInv DEF JInv
  <1>1. IsTable(gpuGroups, {GroupName, OtherName})
        /\ IsTable(fieldGroups, {FieldGroupName, OtherName})
    BY SessionAssumption DEF Init, IsTable, FreshGpu, FreshField, Fresh
  <1>2. QED
    BY <1>1, SessionAssumption DEF Init, TypeOK, ProgressInv, Steps

LEMMA StartType ==
    ASSUME JInv, NEW h \in Hosts, NEW f \in Filters, NEW fs \in FieldLists, Start(h, f, fs)
    PROVE  TypeOK' /\ ProgressInv'
  <1> USE DEF JInv, TypeOK, ProgressInv, Steps
  <1>1. IsTable(FreshGpu, {GroupName, OtherName})
        /\ IsTable(FreshField, {FieldGroupName, OtherName})
    BY SessionAssumption DEF IsTable, FreshGpu, FreshField, Fresh
  <1>2. IsTable(gpuGroups', {GroupName, OtherName})
        /\ IsTable(fieldGroups', {FieldGroupName, OtherName})
        /\ watches' \subseteq Ids \X Ids
    BY <1>1 DEF Start, rdcVars
  <1>3. starts' \in 0..MaxStarts
    BY SessionAssumption DEF Start
  <1>4. QED
    BY <1>2, <1>3 DEF Start

LEMMA DiscoverType ==
    ASSUME JInv, Discover
    PROVE  TypeOK' /\ ProgressInv'
  <1> USE DEF JInv, TypeOK, ProgressInv, Steps
  <1>1. host \in Seq(Nat)
    BY ListsType
  <1>2. gpuIndexes' \in Seq(Nat)
    BY <1>1, FilterKeeps DEF Discover
  <1>3. QED
    BY <1>2 DEF Discover, rdcVars

LEMMA FindGPUGroupType ==
    ASSUME JInv, FindGPUGroup
    PROVE  TypeOK' /\ ProgressInv'
  <1> USE DEF JInv, TypeOK, ProgressInv, Steps
  <1>1. /\ gpuGroups' = Without(gpuGroups, NoGroup)
        /\ pc' = "createGPUGroup" /\ pc = "findGPUGroup"
        /\ UNCHANGED gpuGroupID
    BY NothingNamed DEF FindGPUGroup
  <1>2. IsTable(gpuGroups', {GroupName, OtherName})
    BY <1>1 DEF IsTable, Without
  <1>3. QED
    BY <1>1, <1>2 DEF FindGPUGroup

LEMMA FindFieldGroupType ==
    ASSUME JInv, FindFieldGroup
    PROVE  TypeOK' /\ ProgressInv'
  <1> USE DEF JInv, TypeOK, ProgressInv, Steps
  <1>1. /\ fieldGroups' = Without(fieldGroups, NoGroup)
        /\ pc' = "createFieldGroup" /\ pc = "findFieldGroup"
        /\ UNCHANGED fieldGroupID
    BY NothingNamed DEF FindFieldGroup
  <1>2. IsTable(fieldGroups', {FieldGroupName, OtherName})
    BY <1>1 DEF IsTable, Without
  <1>3. QED
    BY <1>1, <1>2 DEF FindFieldGroup

\* A new group keeps a table a table.
LEMMA WithIsTable ==
    ASSUME NEW table, NEW names, IsTable(table, names), NEW id \in Ids,
           NEW n \in names, NEW m \in Seq(Nat), NEW new,
           new = With(table, id, [name |-> n, members |-> m])
    PROVE  IsTable(new, names) /\ new[id].members = m
  BY DEF IsTable, With

LEMMA CreateGPUGroupType ==
    ASSUME JInv, CreateGPUGroup
    PROVE  TypeOK' /\ ProgressInv'
  <1> USE DEF JInv, TypeOK, ProgressInv, Steps
  <1>1. PICK id \in Ids \ DOMAIN gpuGroups :
            /\ gpuGroups' = With(gpuGroups, id, [name |-> GroupName, members |-> <<>>])
            /\ gpuGroupID' = id
    BY DEF CreateGPUGroup
  <1>2. <<>> \in Seq(Nat) /\ GroupName \in {GroupName, OtherName}
    OBVIOUS
  <1>3. /\ IsTable(gpuGroups', {GroupName, OtherName})
        /\ gpuGroups'[gpuGroupID'].members = <<>>
    <2> DEFINE names == {GroupName, OtherName}
               m == <<>>
    <2>1. id \in Ids /\ IsTable(gpuGroups, names) /\ GroupName \in names /\ m \in Seq(Nat)
          /\ gpuGroups' = With(gpuGroups, id, [name |-> GroupName, members |-> m])
      BY <1>1, <1>2
    <2> HIDE DEF names, m
    <2>2. IsTable(gpuGroups', names) /\ gpuGroups'[id].members = m
      BY <2>1, WithIsTable
    <2>3. QED
      BY <1>1, <2>2 DEF names, m
  <1>4. /\ pc = "createGPUGroup" /\ pc' = "addGPU"
        /\ UNCHANGED <<fieldGroups, watches, host, filter, fieldIDs, gpuIndexes,
                       fieldGroupID, starts>>
    BY DEF CreateGPUGroup
  <1>5. Len(gpuGroups'[gpuGroupID'].members) = 0 /\ Len(gpuIndexes) \in Nat
    BY <1>3
  <1>6. QED
    BY <1>1, <1>3, <1>4, <1>5

LEMMA CreateFieldGroupType ==
    ASSUME JInv, CreateFieldGroup
    PROVE  TypeOK' /\ ProgressInv'
  <1> USE DEF JInv, TypeOK, ProgressInv, Steps
  <1>1. PICK id \in Ids \ DOMAIN fieldGroups :
            /\ fieldGroups' =
                  With(fieldGroups, id, [name |-> FieldGroupName, members |-> fieldIDs])
            /\ fieldGroupID' = id
    BY DEF CreateFieldGroup
  <1>2. fieldIDs \in Seq(Nat) /\ FieldGroupName \in {FieldGroupName, OtherName}
    BY ListsType
  <1>3. /\ IsTable(fieldGroups', {FieldGroupName, OtherName})
        /\ fieldGroups'[fieldGroupID'].members = fieldIDs
    <2> DEFINE names == {FieldGroupName, OtherName}
    <2>1. /\ id \in Ids /\ IsTable(fieldGroups, names)
          /\ FieldGroupName \in names /\ fieldIDs \in Seq(Nat)
      BY <1>1, <1>2
    <2> HIDE DEF names
    <2>2. IsTable(fieldGroups', names) /\ fieldGroups'[id].members = fieldIDs
      BY <1>1, <2>1, WithIsTable
    <2>3. QED
      BY <1>1, <2>2 DEF names
  <1>4. /\ pc = "createFieldGroup" /\ pc' = "unwatch"
        /\ UNCHANGED <<gpuGroups, watches, host, filter, fieldIDs, gpuIndexes,
                       gpuGroupID, starts>>
    BY DEF CreateFieldGroup
  <1>5. QED
    BY <1>1, <1>3, <1>4

\* The next GPU is added behind the others; with none left the group is complete.
LEMMA AddGPUType ==
    ASSUME JInv, AddGPU
    PROVE  TypeOK' /\ ProgressInv'
  <1> USE DEF JInv, TypeOK, ProgressInv, Steps
  <1> DEFINE m == gpuGroups[gpuGroupID].members
             n == Len(m)
  <1>1. /\ pc = "addGPU" /\ gpuGroupID \in DOMAIN gpuGroups
        /\ UNCHANGED <<gpuGroupID, fieldGroups, watches, host, filter, fieldIDs,
                       gpuIndexes, fieldGroupID, starts>>
    BY DEF AddGPU, IInv, OwnGroupsInv
  <1>2. /\ m \in Seq(Nat) /\ n \in Nat /\ Len(gpuIndexes) \in Nat
        /\ n <= Len(gpuIndexes) /\ \A i \in 1..n : m[i] = gpuIndexes[i]
    BY <1>1 DEF IsTable
  <1>3. CASE n < Len(gpuIndexes)
    <2> DEFINE e == gpuIndexes[n + 1]
    <2>1. gpuGroups' = [gpuGroups EXCEPT ![gpuGroupID].members = Append(m, e)]
          /\ pc' = "addGPU"
      BY <1>1, <1>3 DEF AddGPU
    <2>2. e \in Nat
      BY <1>2, <1>3
    <2> HIDE DEF m
    <2>3. /\ Append(m, e) \in Seq(Nat)
          /\ Len(Append(m, e)) = n + 1
          /\ \A i \in 1..(n + 1) : Append(m, e)[i] = gpuIndexes[i]
      <3>1. /\ Append(m, e) \in Seq(Nat) /\ Len(Append(m, e)) = n + 1
            /\ \A i \in 1..n : Append(m, e)[i] = m[i]
            /\ Append(m, e)[n + 1] = e
        BY <1>2, <2>2, AppendProperties
      <3>2. QED
        BY <1>2, <3>1
    <2>4. /\ IsTable(gpuGroups', {GroupName, OtherName})
          /\ gpuGroups'[gpuGroupID].members = Append(m, e)
      <3> HIDE DEF e
      <3>1. QED
        BY <1>1, <2>1, <2>3 DEF IsTable
    <2> DEFINE m2 == Append(m, e)
    <2> HIDE DEF e, m2
    <2>5. m2 \in Seq(Nat) /\ Len(m2) = n + 1 /\ n + 1 <= Len(gpuIndexes)
          /\ \A i \in 1..(n + 1) : m2[i] = gpuIndexes[i]
      BY <1>2, <1>3, <2>3 DEF m2
    <2>6. gpuGroups'[gpuGroupID'].members = m2
      BY <1>1, <2>4 DEF m2
    <2>7. ProgressInv'
      BY <1>1, <2>1, <2>5, <2>6
    <2>8. QED
      BY <1>1, <2>1, <2>4, <2>7
  <1>4. CASE ~(n < Len(gpuIndexes))
    <2>1. pc' = "findFieldGroup" /\ UNCHANGED gpuGroups
      BY <1>1, <1>4 DEF AddGPU
    <2>2. Len(m) = Len(gpuIndexes)
      BY <1>2, <1>4
    <2> HIDE DEF m
    <2>3. m = gpuIndexes
      BY <1>2, <2>2, SeqEqual
    <2>4. QED
      BY <1>1, <2>1, <2>3 DEF m
  <1>5. QED
    BY <1>3, <1>4

LEMMA WatchType ==
    ASSUME JInv, UnwatchFields \/ WatchFields
    PROVE  TypeOK' /\ ProgressInv'
  <1> USE DEF JInv, TypeOK, ProgressInv, Steps, readerVars
  <1>1. CASE UnwatchFields
    BY <1>1 DEF UnwatchFields
  <1>2. CASE WatchFields
    <2>1. gpuGroupID \in Ids /\ fieldGroupID \in Ids
      BY <1>2 DEF WatchFields, IInv, OwnGroupsInv, IsTable
    <2>2. QED
      BY <1>2, <2>1 DEF WatchFields
  <1>3. QED
    BY <1>1, <1>2

LEMMA OtherType ==
    ASSUME JInv, End \/ Finished \/ UNCHANGED vars
    PROVE  TypeOK' /\ ProgressInv'
  BY DEF JInv, TypeOK, ProgressInv, Steps, End, Finished, vars, rdcVars, readerVars

\* The types and New's progress are inductive, with the tables and watches.
THEOREM ProgressInductive == Spec => []JInv
  <1>1. JInv /\ [Next]_vars => IInv'
    BY NextIInv DEF JInv
  <1>2. JInv /\ [Next]_vars => TypeOK' /\ ProgressInv'
    BY StartType, DiscoverType, FindGPUGroupType, FindFieldGroupType,
       CreateGPUGroupType, CreateFieldGroupType, AddGPUType, WatchType, OtherType
       DEF Next
  <1>3. JInv /\ [Next]_vars => JInv'
    BY <1>1, <1>2 DEF JInv
  <1>4. QED
    BY InitJInv, <1>3, PTL DEF Spec

\* Every variable stays in its type.
THEOREM TypeCorrect == Spec => []TypeOK
  <1>1. JInv => TypeOK
    BY DEF JInv
  <1>2. QED
    BY <1>1, ProgressInductive, PTL

\* A Reader that New returned reads what RDC watches: its GPUs, which are the host's
\* that the filter names, and its fields.
THEOREM ReadyIsWatched == Spec => []ReadyMeansWatched
  <1>1. JInv => ReadyMeansWatched
    <2> SUFFICES ASSUME JInv, pc = "ready" PROVE ReadyMeansWatched
      BY DEF ReadyMeansWatched
    <2>1. host \in Seq(Nat) /\ \A i \in DOMAIN host : host[i] = i - 1
      BY ListsType DEF JInv
    <2>2. gpuIndexes = filterGPUIndexes(host, filter)
      BY DEF JInv, ProgressInv
    <2>3. {gpuIndexes[i] : i \in DOMAIN gpuIndexes} =
              {g \in {host[i] : i \in DOMAIN host} : filter = {} \/ g \in filter}
      <3>1. \A k \in DOMAIN gpuIndexes : \E i \in DOMAIN host :
                gpuIndexes[k] = host[i] /\ (filter = {} \/ host[i] \in filter)
        BY <2>1, <2>2, FilterKeeps
      <3>2. \A i \in DOMAIN host : filter = {} \/ host[i] \in filter =>
                \E k \in DOMAIN gpuIndexes : gpuIndexes[k] = host[i]
        BY <2>1, <2>2, FilterKeeps
      <3>3. QED
        BY <3>1, <3>2
    <2>4. QED
      BY <2>3 DEF JInv, ProgressInv, ReadyMeansWatched
  <1>2. QED
    BY <1>1, ProgressInductive, PTL

=============================================================================
