---------------------------- MODULE HeaderParser ----------------------------
(***************************************************************************)
(* cmd/rdc-parser/main.go: the maintainer's tool that turns the enum       *)
(* rdc_field_t of RDC's C header into the metric catalog.                  *)
(*                                                                         *)
(* A header is a sequence of lines.  A line is a record whose "kind" is    *)
(* "open" (typedef enum {), "close" (} name;), "item" (an enumerator) or   *)
(* "other".  An enumerator has a "name" and says "how" it gets its value:  *)
(* "implicit", "number" or "reference", the last two from its "arg";       *)
(* "legible" tells whether the tool's patterns recognise the line: not so  *)
(* a hexadecimal number, an expression, or a last enumerator that has a    *)
(* comment but no comma.  A "number" has one value: no literal has a       *)
(* leading zero, which strconv.Atoi reads as decimal and C as octal.       *)
(***************************************************************************)
EXTENDS Integers, Sequences, SequencesExt, Subsequences

CONSTANTS
    Itoa,         \* Itoa[n]: the decimal text of n
    LoweredName   \* LoweredName[f]: RDC's name of field f in lower case

-----------------------------------------------------------------------------
(* bindings/rdc/field.go                                                   *)

MaxFieldID == 65535

\* An id that does not fit RDC's 16 bits becomes field 0.
NewFieldIDFromInt(id) == IF id \in 0..MaxFieldID THEN id ELSE 0

ToPromName(id) == LoweredName[NewFieldIDFromInt(id)]

-----------------------------------------------------------------------------
(* The scan for the block                                                  *)

\* An enum that turns out to be another one is forgotten; the scan ends with
\* rdc_field_t.
ScanLine(s, line) ==
    CASE s.found                      -> s
      [] ~s.found /\ ~s.inEnum        ->
            [s EXCEPT !.inEnum = (line.kind = "open")]
      [] ~s.found /\ s.inEnum /\ line.kind = "close" ->
            IF line.name = "rdc_field_t"
            THEN [s EXCEPT !.found = TRUE]
            ELSE [s EXCEPT !.inEnum = FALSE, !.enumLines = <<>>]
      [] OTHER                        ->
            [s EXCEPT !.enumLines = Append(@, line)]

\* Scanned(header)[n]: what the first n lines leave.
Scanned(header) ==
    LET s[n \in 0..Len(header)] ==
            IF n = 0 THEN [inEnum |-> FALSE, found |-> FALSE, enumLines |-> <<>>]
            ELSE ScanLine(s[n - 1], header[n])
    IN  s

EnumLines(header) == Scanned(header)[Len(header)].enumLines

-----------------------------------------------------------------------------
(* The enumerators                                                         *)

\* What the tool makes of an enumerator's value: one value, or none if the
\* name it refers to has no entry.
ValuesOf(s, line) ==
    CASE line.how = "implicit"  -> {s.lastVal + 1}
      [] line.how = "number"    -> {line.arg}
      [] line.how = "reference" ->
            {e.val : e \in {x \in s.entries : x.metric = line.arg}}

\* A parser that counts lines: an alias counts like any other enumerator.
AddEntryCounting(s, line) ==
    IF line.kind # "item" \/ ~line.legible \/ ValuesOf(s, line) = {}
    THEN s
    ELSE LET val == CHOOSE v \in ValuesOf(s, line) : TRUE
         IN  [lastVal |-> IF line.how = "reference" THEN s.lastVal + 1 ELSE val,
              entries |-> {e \in s.entries : e.metric # line.name}
                            \cup {[metric |-> line.name, val |-> val]}]

\* A line that is not recognised, or refers to an unknown name, is passed over:
\* the next implicit value follows the last enumerator that was understood.
AddEntry(s, line) ==
    IF line.kind # "item" \/ ~line.legible \/ ValuesOf(s, line) = {}
    THEN s
    ELSE LET val == CHOOSE v \in ValuesOf(s, line) : TRUE
         IN  [lastVal |-> val,
              entries |-> {e \in s.entries : e.metric # line.name}
                            \cup {[metric |-> line.name, val |-> val]}]

\* Added(lines)[n]: what the first n lines leave.
Added(lines) ==
    LET s[n \in 0..Len(lines)] ==
            IF n = 0 THEN [lastVal |-> -1, entries |-> {}]
            ELSE AddEntry(s[n - 1], lines[n])
    IN  s

Entries(header) == Added(EnumLines(header))[Len(EnumLines(header))].entries

\* The entity written for an entry.
EntityOf(e) ==
    [metric   |-> e.metric,
     prom     |-> ToPromName(e.val),
     field    |-> Itoa[e.val],
     scale    |-> 1,
     disabled |-> FALSE]

\* The catalogs the tool may write: sorted by field; aliases of one field come
\* in the order Go iterates over the map.
Generated(header) ==
    LET sorted == {q \in SetToSeqs(Entries(header)) :
                      \A i, j \in DOMAIN q : i < j => q[i].val <= q[j].val}
    IN  {[i \in DOMAIN q |-> EntityOf(q[i])] : q \in sorted}

-----------------------------------------------------------------------------
(* What C makes of the same header                                         *)

\* The enumerators of rdc_field_t, in order, whether legible or not.
Enumerators(header) ==
    LET open  == {i \in DOMAIN header : header[i].kind = "open"}
        close == {i \in DOMAIN header :
                     header[i].kind = "close" /\ header[i].name = "rdc_field_t"}
        begin == {i \in open : \E j \in close :
                     i < j /\ \A k \in open : k <= i \/ k > j}
    IN  IF begin = {} THEN <<>>
        ELSE LET b == CHOOSE i \in begin : TRUE
                 e == CHOOSE j \in close : j > b
             IN  ElementsAt(header, {i \in (b + 1)..(e - 1) : header[i].kind = "item"})

\* The position of the enumerator an alias refers to.
Referred(items, i) ==
    CHOOSE j \in 1..(i - 1) : items[j].name = items[i].arg

\* The value of the i-th enumerator.
CValue(items) ==
    LET v[i \in DOMAIN items] ==
            CASE items[i].how = "implicit"  -> IF i = 1 THEN 0 ELSE v[i - 1] + 1
              [] items[i].how = "number"    -> items[i].arg
              [] items[i].how = "reference" -> v[Referred(items, i)]
    IN  v

\* The tool has read everything the i-th value depends on.
Readable(items) ==
    LET r[i \in DOMAIN items] ==
            /\ items[i].legible
            /\ CASE items[i].how = "implicit"  -> i = 1 \/ r[i - 1]
                 [] items[i].how = "number"    -> TRUE
                 [] items[i].how = "reference" -> r[Referred(items, i)]
    IN  r

\* C's demands on a list of enumerators: names differ, and an alias refers to an
\* earlier one.
IsList(items) ==
    /\ \A i, j \in DOMAIN items : items[i].name = items[j].name => i = j
    /\ \A i \in DOMAIN items :
          /\ items[i].how \in {"implicit", "number", "reference"}
          /\ items[i].how = "number" => items[i].arg \in Int
          /\ items[i].how = "reference" =>
                \E j \in 1..(i - 1) : items[j].name = items[i].arg

\* A header that C accepts, with the beginning and the end of every enum on lines
\* of their own: enums do not nest, and one at most is rdc_field_t.
IsC(header) ==
    LET lines(kind) == {i \in DOMAIN header : header[i].kind = kind}
        fields == {j \in lines("close") : header[j].name = "rdc_field_t"}
    IN  /\ \A i, k \in lines("open") : i < k => \E j \in lines("close") : i < j /\ j < k
        /\ \A j, k \in fields : j = k
        /\ \A j \in fields : \E i \in lines("open") :
              i < j /\ \A k \in lines("close") : k < i \/ k >= j
        /\ IsList(Enumerators(header))
=============================================================================
