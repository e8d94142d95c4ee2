------------------------------ MODULE Catalog ------------------------------
(***************************************************************************)
(* From the C header and the user's configuration to what the exporter     *)
(* publishes: the catalog (internal/config/catalog), the selection and the *)
(* wiring of cmd/rdc-exporter/main.go, the registration of the gauges in   *)
(* prommetric.New and the definitions kept by collect.NewService.          *)
(*                                                                         *)
(* One behaviour is one start of one configuration, from the generation of *)
(* the embedded catalog (module HeaderParser) to the first cycle or to the *)
(* error main returns with.                                                *)
(***************************************************************************)
EXTENDS HeaderParser, FiniteSets

CONSTANTS
    Atoi,         \* Atoi[t]: the number text t is, or NotANumber
    NotANumber,
    Blank,        \* the empty text
    ValidNames,   \* texts that are metric names to Prometheus
    Curated,      \* Curated[m]: scale that catalog.yaml has for metric m, or 0
    Headers,      \* headers the embedded catalog may be generated from
    Users,        \* user catalogs: [how |-> ..., entries |-> ...], where how is
                  \* "none", "unreadable", "merge" or "overwrite"
    Flags,        \* what -e may list
    Files,        \* the lines of -f, or Unreadable; <<>> without -f
    Unreadable,
    DefaultFields \* defaultFields()

\* A field is a text that Atoi knows.
Entity == [metric : STRING, prom : STRING, field : DOMAIN Atoi, scale : Int,
           disabled : BOOLEAN]

\* The empty text is no number, and texts of numbers are read back.
ASSUME TextsAssumption ==
    /\ DOMAIN Atoi \subseteq STRING
    /\ DOMAIN Itoa \subseteq Int
    /\ NotANumber \notin Int
    /\ Atoi \in [DOMAIN Atoi -> Int \cup {NotANumber}]
    /\ Itoa \in [DOMAIN Itoa -> DOMAIN Atoi]
    /\ \A n \in DOMAIN Itoa : Atoi[Itoa[n]] = n
    /\ Blank \in DOMAIN Atoi /\ Atoi[Blank] = NotANumber
    /\ Blank \notin ValidNames
    /\ LoweredName \in [0..MaxFieldID -> STRING]

\* Headers are C; what the tool reads has a name, and a number that Itoa and
\* Curated know.
ASSUME HeadersAssumption ==
    \A h \in Headers :
        /\ h \in Seq(ToSet(h)) /\ IsC(h)
        /\ \A e \in Entries(h) :
              /\ e.metric \in STRING \ {Blank}
              /\ e.val \in DOMAIN Itoa
              /\ Curated[e.metric] \in Int

ASSUME ConfigurationAssumption ==
    /\ \A u \in Users : /\ u.how \in {"none", "unreadable", "merge", "overwrite"}
                        /\ u.entries \in Seq(Entity)
    /\ Flags \subseteq Seq(STRING)
    /\ \A f \in Files : f = Unreadable \/ f \in Seq(STRING)
    /\ DefaultFields \in Seq(STRING)

VARIABLES
    header, user, flags, file,   \* the configuration, fixed
    pc,           \* "generate", "parse", "file", "filter", "define",
                  \* "register", "serve" or "failed"
    embedded,     \* catalog.yaml
    catalog,      \* what ParseCatalogYAML returned
    fields,       \* the references to select by
    selected,     \* the catalog's entities after FilterEntitiesByFields
    definitions,  \* domain definitions, in the order of selected
    gauges,       \* Sink.gauges: field id to the registered definition
    byField,      \* Service.definitions: field id to its definition
    rdcFields     \* Reader.fieldIDs

config == <<header, user, flags, file>>
vars == <<config, pc, embedded, catalog, fields, selected, definitions,
          gauges, byField, rdcFields>>

Init ==
    /\ header \in Headers
    /\ user   \in Users
    /\ flags  \in Flags
    /\ file   \in Files
    /\ pc     = "generate"
    /\ embedded = <<>> /\ catalog = <<>> /\ fields = <<>> /\ selected = <<>>
    /\ definitions = <<>> /\ gauges = <<>> /\ byField = <<>> /\ rdcFields = <<>>

-----------------------------------------------------------------------------
(* The embedded catalog                                                    *)

\* catalog.yaml is the tool's output with units put in.
Curate(cat) == [i \in DOMAIN cat |-> [cat[i] EXCEPT !.scale = Curated[cat[i].metric]]]

Generate ==
    /\ pc = "generate"
    /\ IF EnumLines(header) = <<>>
       THEN pc' = "failed" /\ UNCHANGED embedded
       ELSE /\ pc' = "parse"
            /\ \E cat \in Generated(header) : embedded' = Curate(cat)
    /\ UNCHANGED <<config, catalog, fields, selected, definitions,
                   gauges, byField, rdcFields>>

-----------------------------------------------------------------------------
(* ParseCatalogYAML                                                        *)

Enabled(e) == ~e.disabled

\* Validate: either an error or the same catalog with explicit scales.
IsValid(cat) ==
    /\ cat # <<>>
    /\ \A i \in DOMAIN cat :
          cat[i].metric # Blank /\ cat[i].prom # Blank /\ cat[i].field # Blank

Normalized(cat) ==
    [i \in DOMAIN cat |-> IF cat[i].scale <= 0 THEN [cat[i] EXCEPT !.scale = 1] ELSE cat[i]]

\* An override that replaces the entry as a whole.
MergeEntityWhole(old, entry) == entry

\* What the user leaves out is taken from the entry there is.
MergeEntity(old, entry) ==
    [entry EXCEPT !.prom  = IF @ = Blank THEN old.prom ELSE @,
                  !.scale = IF @ <= 0 THEN old.scale ELSE @,
                  !.field = IF @ = Blank THEN old.field ELSE @]

\* A merge that always starts from the default entry.
MergeStepFromDefault(m, entry) ==
    LET old    == {embedded[i] : i \in {j \in DOMAIN embedded :
                                          embedded[j].metric = entry.metric}}
        merged == IF old = {} THEN entry
                  ELSE MergeEntity(CHOOSE o \in old : TRUE, entry)
    IN  IF entry.metric = Blank \/ merged.field = Blank THEN m
        ELSE [k \in DOMAIN m \cup {entry.metric} |->
                 IF k = entry.metric THEN merged ELSE m[k]]

\* One turn of the loop over the user's entries: m maps a metric to its entity.
MergeStep(m, entry) ==
    LET merged == IF entry.metric \in DOMAIN m
                  THEN MergeEntity(m[entry.metric], entry)
                  ELSE entry
    IN  IF entry.metric = Blank \/ merged.field = Blank THEN m
        ELSE [k \in DOMAIN m \cup {entry.metric} |->
                 IF k = entry.metric THEN merged ELSE m[k]]

\* The map before the loop: the last entry of each metric.
ByMetric(defaults) ==
    [k \in {defaults[i].metric : i \in DOMAIN defaults} |->
        defaults[SelectLastInSeq(defaults, LAMBDA e : e.metric = k)]]

\* MergedMap(defaults, entries)[n]: the map after n of the entries.
MergedMap(defaults, entries) ==
    LET m[n \in 0..Len(entries)] ==
            IF n = 0 THEN ByMetric(defaults) ELSE MergeStep(m[n - 1], entries[n])
    IN  m

\* The enabled entities, in the order Go iterates over the map.
MergedCatalogs(defaults, entries) ==
    LET m == MergedMap(defaults, entries)[Len(entries)]
    IN  SetToSeqs({m[k] : k \in {x \in DOMAIN m : Enabled(m[x])}})

\* No --catalog: the embedded catalog as it is.
ParseDefault ==
    /\ pc = "parse" /\ user.how = "none"
    /\ catalog' = embedded
    /\ pc' = "file"
    /\ UNCHANGED <<config, embedded, fields, selected, definitions,
                   gauges, byField, rdcFields>>

ParseUnreadable ==
    /\ pc = "parse" /\ user.how = "unreadable"
    /\ pc' = "failed"
    /\ UNCHANGED <<config, embedded, catalog, fields, selected, definitions,
                   gauges, byField, rdcFields>>

\* Only the enabled entries count; without a valid rest the default stays.
ParseOverwrite ==
    /\ pc = "parse" /\ user.how = "overwrite"
    /\ LET clean == ElementsAt(user.entries, {i \in DOMAIN user.entries :
                                                Enabled(user.entries[i])}) IN
       catalog' = IF IsValid(clean) THEN Normalized(clean) ELSE embedded
    /\ pc' = "file"
    /\ UNCHANGED <<config, embedded, fields, selected, definitions,
                   gauges, byField, rdcFields>>

ParseMerge ==
    /\ pc = "parse" /\ user.how = "merge"
    /\ \E merged \in MergedCatalogs(embedded, user.entries) :
          IF IsValid(merged)
          THEN catalog' = Normalized(merged) /\ pc' = "file"
          ELSE pc' = "failed" /\ UNCHANGED catalog
    /\ UNCHANGED <<config, embedded, fields, selected, definitions,
                   gauges, byField, rdcFields>>

-----------------------------------------------------------------------------
(* The selection                                                           *)

\* -f adds its lines, without the blank ones, to -e; with neither the default
\* fields are taken.
ReadFieldsFile ==
    /\ pc = "file"
    /\ IF file = Unreadable
       THEN pc' = "failed" /\ UNCHANGED fields
       ELSE LET all == flags \o ElementsIn(file, STRING \ {Blank})
            IN  /\ fields' = IF all = <<>> THEN DefaultFields ELSE all
                /\ pc' = "filter"
    /\ UNCHANGED <<config, embedded, catalog, selected, definitions,
                   gauges, byField, rdcFields>>

Matches(e, ref) == e.metric = ref \/ e.field = ref \/ e.prom = ref

\* A filter that gives each reference a match of its own.
KeptUntaken(cat, refs) ==
    {i \in DOMAIN cat : \E r \in DOMAIN refs :
        Matches(cat[i], refs[r]) /\ \A q \in 1..(r - 1) : ~Matches(cat[i], refs[q])}

\* The positions the references keep: each the first entity that matches.
Kept(cat, refs) ==
    {SelectInSeq(cat, LAMBDA e : Matches(e, refs[r])) : r \in DOMAIN refs} \ {0}

\* Kept entities stay in catalog order and are enabled.
FilterEntitiesByFields(cat, refs) ==
    LET kept == ElementsAt(cat, Kept(cat, refs))
    IN  [k \in DOMAIN kept |-> [kept[k] EXCEPT !.disabled = FALSE]]

Filter ==
    /\ pc = "filter"
    /\ selected' = FilterEntitiesByFields(catalog, fields)
    /\ pc' = IF selected' = <<>> THEN "failed" ELSE "define"
    /\ UNCHANGED <<config, embedded, catalog, fields, definitions,
                   gauges, byField, rdcFields>>

-----------------------------------------------------------------------------
(* Definitions, gauges and the reader                                      *)

\* A field id that is merely a number.
IsFieldIDSigned(text) == Atoi[text] # NotANumber

IsFieldID(text) == Atoi[text] # NotANumber /\ Atoi[text] >= 0

DefinitionOf(e) ==
    [id    |-> Atoi[e.field],
     name  |-> IF e.prom = Blank THEN ToPromName(Atoi[e.field]) ELSE e.prom,
     scale |-> e.scale]

DefinitionsFromEntities ==
    /\ pc = "define"
    /\ IF \A i \in DOMAIN selected : IsFieldID(selected[i].field)
       THEN /\ definitions' = [i \in DOMAIN selected |-> DefinitionOf(selected[i])]
            /\ pc' = "register"
       ELSE pc' = "failed" /\ UNCHANGED definitions
    /\ UNCHANGED <<config, embedded, catalog, fields, selected,
                   gauges, byField, rdcFields>>

\* A registration that shrugs at a name that is taken.
RegisterStepTolerant(g, d) ==
    IF ~g.ok \/ d.id \in DOMAIN g.gauges \/ (\E f \in DOMAIN g.gauges : g.gauges[f].name = d.name)
    THEN g
    ELSE IF d.name \notin ValidNames THEN [g EXCEPT !.ok = FALSE]
    ELSE [g EXCEPT !.gauges = [f \in DOMAIN @ \cup {d.id} |-> IF f = d.id THEN d ELSE @[f]]]

\* One turn of prommetric.New: a field has one gauge, the first; the registry
\* refuses a name that is taken or no metric name.
RegisterStep(g, d) ==
    IF ~g.ok \/ d.id \in DOMAIN g.gauges THEN g
    ELSE IF d.name \notin ValidNames \/ \E f \in DOMAIN g.gauges : g.gauges[f].name = d.name
    THEN [g EXCEPT !.ok = FALSE]
    ELSE [g EXCEPT !.gauges = [f \in DOMAIN @ \cup {d.id} |-> IF f = d.id THEN d ELSE @[f]]]

\* Registered(defs)[n]: the gauges after n definitions.
Registered(defs) ==
    LET g[n \in 0..Len(defs)] ==
            IF n = 0 THEN [ok |-> TRUE, gauges |-> <<>>] ELSE RegisterStep(g[n - 1], defs[n])
    IN  g

\* NewService: the last definition of a field is kept.
DefinitionsByField(defs) ==
    [f \in {defs[i].id : i \in DOMAIN defs} |->
        defs[SelectLastInSeq(defs, LAMBDA d : d.id = f)]]

\* rdcsource.New, prommetric.New and NewService; RDC itself is up (see Session).
Register ==
    /\ pc = "register"
    /\ rdcFields' = [i \in DOMAIN definitions |-> NewFieldIDFromInt(definitions[i].id)]
    /\ LET new == Registered(definitions)[Len(definitions)]
       IN  IF new.ok
           THEN /\ gauges'  = new.gauges
                /\ byField' = DefinitionsByField(definitions)
                /\ pc'      = "serve"
           ELSE pc' = "failed" /\ UNCHANGED <<gauges, byField>>
    /\ UNCHANGED <<config, embedded, catalog, fields, selected, definitions>>

Ended == pc \in {"serve", "failed"} /\ UNCHANGED vars

Next ==
    \/ Generate
    \/ ParseDefault \/ ParseUnreadable \/ ParseOverwrite \/ ParseMerge
    \/ ReadFieldsFile
    \/ Filter
    \/ DefinitionsFromEntities
    \/ Register
    \/ Ended

Spec == Init /\ [][Next]_vars

-----------------------------------------------------------------------------
(* What the exporter then publishes                                        *)

\* metric.Definition.ApplyScale, as a factor.
Factor(scale) == IF scale > 0 THEN scale ELSE 1

\* The readings /metrics shows under a name, each as the RDC field it is read
\* from and the factor it is multiplied by: a sample carries RDC's field id,
\* finds its definition by it, and then its gauge.
Shown(name) ==
    {<<f, Factor(byField[f].scale)>> :
        f \in {rdcFields[i] : i \in {j \in DOMAIN rdcFields :
                  /\ rdcFields[j] \in DOMAIN byField \cap DOMAIN gauges
                  /\ gauges[rdcFields[j]].name = name}}}

-----------------------------------------------------------------------------
(* What was asked for, without regard to how the code gets there           *)

\* What is said of the metrics, in the order it is said.
Said == embedded \o user.entries

\* An entry counts only from where its metric has a field on.
Counted(m) ==
    {i \in DOMAIN Said :
        /\ Said[i].metric = m
        /\ \E j \in 1..i : Said[j].metric = m /\ Said[j].field # Blank}

\* The last of some entries.
Latest(K) == Said[CHOOSE i \in K : \A j \in K : j <= i]

\* The overlay of docs/configuration/README.md (3.5), metric by metric, as
\* identities and factors.
OverlayOf(m) ==
    LET named  == {i \in Counted(m) : Said[i].prom # Blank}
        scaled == {i \in Counted(m) : Said[i].scale > 0}
    IN  [metric |-> m,
         prom   |-> IF named = {} THEN Blank ELSE Latest(named).prom,
         field  |-> Latest({i \in Counted(m) : Said[i].field # Blank}).field,
         factor |-> IF scaled = {} THEN 1 ELSE Latest(scaled).scale]

Overlay ==
    {OverlayOf(m) : m \in {x \in {e.metric : e \in ToSet(Said)} \ {Blank} :
                             Counted(x) # {} /\ Enabled(Latest(Counted(x)))}}

Identity(e) ==
    [metric |-> e.metric, prom |-> e.prom, field |-> e.field, factor |-> Factor(e.scale)]

\* The catalog the configuration asks for.
Asked ==
    LET clean == {e \in ToSet(user.entries) : Enabled(e)} IN
    CASE user.how = "merge" -> Overlay
      [] user.how = "overwrite" /\ clean # {}
            /\ (\A e \in clean : Blank \notin {e.metric, e.prom, e.field}) ->
            {Identity(e) : e \in clean}
      [] OTHER -> {Identity(e) : e \in ToSet(embedded)}

\* References that select something, and everything they might select.
References == IF file = Unreadable THEN <<>>
              ELSE LET all == flags \o ElementsIn(file, STRING \ {Blank})
                   IN  IF all = <<>> THEN DefaultFields ELSE all
Candidates == {e \in Asked : \E r \in ToSet(References) : Matches(e, r)}

-----------------------------------------------------------------------------
(* Properties                                                              *)

Definition == [id : Nat, name : STRING, scale : Int]

\* Every variable stays in its type: past DefinitionsFromEntities a field id is
\* a natural number, and what RDC is asked for fits its 16 bits.
TypeOK ==
    /\ pc \in {"generate", "parse", "file", "filter", "define", "register",
               "serve", "failed"}
    /\ \A s \in {embedded, catalog, selected} :
          \A i \in DOMAIN s : s[i] \in Entity
    /\ \A i \in DOMAIN definitions : definitions[i] \in Definition
    /\ \A f \in DOMAIN gauges : gauges[f] \in Definition /\ gauges[f].id = f
    /\ \A f \in DOMAIN byField : byField[f] \in Definition /\ byField[f].id = f
    /\ \A i \in DOMAIN rdcFields : rdcFields[i] \in 0..MaxFieldID

\* An enumerator the tool cannot read costs itself and the ones that count on
\* from it, no others: every other one is in the embedded catalog, with the
\* value C gives it.
FieldsAreCs ==
    pc = "parse" =>
        LET items == Enumerators(header) IN
        \A i \in DOMAIN items :
            Readable(items)[i] =>
                {e.field : e \in {x \in ToSet(embedded) : x.metric = items[i].name}}
                    = {Itoa[CValue(items)[i]]}

\* The catalog ParseCatalogYAML returns is what the configuration asks for, whatever the order
\* of the user's entries of different metrics and of the map: field by field the
\* last word, nothing of a disabled metric, the rest untouched, each metric once.
CatalogAsAsked ==
    pc = "file" =>
        /\ {Identity(e) : e \in ToSet(catalog)} = Asked
        /\ user.how = "merge" =>
              \A i, j \in DOMAIN catalog : catalog[i].metric = catalog[j].metric => i = j

\* A reference that matches a metric selects one it matches, and if it matches
\* one only then that one; nothing is selected that no reference names, and no
\* more than one metric per reference.
SelectionIsTheReferences ==
    pc = "define" =>
        LET sel   == {Identity(e) : e \in ToSet(selected)}
            refs  == ToSet(References)
            asked == Asked
            M(r)  == {e \in asked : Matches(e, r)}
        IN  /\ \A r \in refs : M(r) # {} => M(r) \cap sel # {}
            /\ \A r \in refs : Cardinality(M(r)) = 1 => M(r) \subseteq sel
            /\ \A e \in sel : \E r \in refs : e \in M(r)
            /\ Len(selected) <= Cardinality(refs)

\* Selected metrics do not disturb one another: one whose field is no other's is
\* shown under its name with its own field and factor and nothing else, even if
\* others share a field; one whose field does not fit RDC's 16 bits shows nothing
\* rather than the readings of another field.
EachUnderItsOwnName ==
    pc = "serve" =>
        \A e \in {Identity(s) : s \in ToSet(selected)} :
            LET id   == Atoi[e.field]
                name == IF e.prom = Blank THEN ToPromName(id) ELSE e.prom
            IN  (\A s \in ToSet(selected) : Atoi[s.field] = id => Identity(s) = e) =>
                    Shown(name) = IF id <= MaxFieldID THEN {<<id, e.factor>>} ELSE {}

\* A configuration that is in order starts: the user's entries need not repeat
\* what the default says, and what is wrong with an entry nobody selects does not
\* matter, save for a missing name in a merge.
UsableStarts ==
    LET IdOf(e)   == Atoi[e.field]
        NameOf(e) == IF e.prom = Blank THEN ToPromName(IdOf(e)) ELSE e.prom
    IN  pc = "failed" =>
            \/ EnumLines(header) = <<>>
            \/ user.how = "unreadable" \/ file = Unreadable
            \/ Candidates = {}
            \/ user.how = "merge" /\ \E e \in Asked : e.prom = Blank
            \/ \E e \in Candidates : ~IsFieldID(e.field)
            \/ \E e \in Candidates : NameOf(e) \notin ValidNames
            \/ \E e, d \in Candidates : NameOf(e) = NameOf(d) /\ IdOf(e) # IdOf(d)

\* docs/configuration/README.md:44-45: "Each selected metric is exported as a
\* Prometheus gauge, where published value = raw RDC reading x scale".  Of two
\* selected metrics of one field the gauge is of the first, the scale of the last.
PublishedWithOwnScale ==
    pc = "serve" =>
        \A f \in DOMAIN gauges :
            Shown(gauges[f].name) \subseteq
                {<<Atoi[s.field], Factor(s.scale)>> :
                    s \in {x \in ToSet(selected) : DefinitionOf(x).name = gauges[f].name}}
=============================================================================
