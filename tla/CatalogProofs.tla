---------------------------- MODULE CatalogProofs ----------------------------
(***************************************************************************)
(* The start of the exporter, for any header, catalog and selection: what  *)
(* each loop of the code leaves, by induction over its turns, and from     *)
(* that what each stage hands to the next.                                 *)
(***************************************************************************)
EXTENDS Catalog, SubsequenceProofs

-----------------------------------------------------------------------------
(* The loops, turn by turn                                                 *)

\* The recursion of Scanned has a solution for any number of lines.
LEMMA ScannedIs ==
    ASSUME NEW hdr, Len(hdr) \in Nat
    PROVE  \A n \in 0..Len(hdr) :
              Scanned(hdr)[n] = IF n = 0 THEN [inEnum |-> FALSE, found |-> FALSE, enumLines |-> <<>>]
                         ELSE ScanLine(Scanned(hdr)[n - 1], hdr[n])
  <1> DEFINE value(f, n) == IF n = 0 THEN [inEnum |-> FALSE, found |-> FALSE, enumLines |-> <<>>] ELSE ScanLine(f[n - 1], hdr[n])
             sol(f, N) == f = [n \in 0..N |-> value(f, n)]
             S == {N \in Nat : \E f : sol(f, N)}
  <1>1. 0 \in S
    <2>1. sol([n \in 0..0 |-> [inEnum |-> FALSE, found |-> FALSE, enumLines |-> <<>>]], 0)
      OBVIOUS
    <2>2. QED
      BY <2>1
  <1>2. ASSUME NEW N \in Nat, N \in S PROVE N + 1 \in S
    <2>1. PICK f : sol(f, N)
      BY <1>2
    <2> DEFINE g == [n \in 0..(N + 1) |-> IF n = N + 1 THEN ScanLine(f[N], hdr[N + 1]) ELSE f[n]]
    <2>2. \A n \in 0..N : g[n] = f[n] /\ f[n] = value(f, n)
      <3>1. \A n \in 0..N : n # N + 1 /\ n \in 0..(N + 1)
        OBVIOUS
      <3>2. \A n \in 0..N : g[n] = f[n]
        BY <3>1
      <3> HIDE DEF value, g
      <3>3. \A n \in 0..N : f[n] = value(f, n)
        BY <2>1
      <3>4. QED
        BY <3>2, <3>3
    <2>3. g[N + 1] = ScanLine(f[N], hdr[N + 1]) /\ g = [n \in 0..(N + 1) |-> g[n]]
      OBVIOUS
    <2> HIDE DEF g
    <2>4. ASSUME NEW n \in 0..(N + 1) PROVE g[n] = value(g, n)
      <3>1. CASE n = N + 1
        <4>1. n # 0 /\ n - 1 = N /\ N \in 0..N
          BY <3>1
        <4>2. QED
          BY <2>2, <2>3, <3>1, <4>1
      <3>2. CASE n \in 0..N
        <4>1. n # 0 => n - 1 \in 0..N
          BY <3>2
        <4>2. QED
          BY <2>2, <3>2, <4>1
      <3>3. QED
        BY <3>1, <3>2
    <2>5. sol(g, N + 1)
      BY <2>3, <2>4
    <2>6. QED
      BY <2>5
  <1>3. Len(hdr) \in S
    <2> HIDE DEF S
    <2>1. QED
      BY <1>1, <1>2, InductionOverNat
  <1>4. Scanned(hdr) = CHOOSE f : sol(f, Len(hdr))
    BY DEF Scanned
  <1>5. sol(Scanned(hdr), Len(hdr))
    <2> HIDE DEF sol
    <2>1. QED
      BY <1>3, <1>4
  <1>6. QED
    BY <1>5

\* The same for Added.
LEMMA AddedIs ==
    ASSUME NEW lines, Len(lines) \in Nat
    PROVE  \A n \in 0..Len(lines) :
              Added(lines)[n] = IF n = 0 THEN [lastVal |-> -1, entries |-> {}]
                         ELSE AddEntry(Added(lines)[n - 1], lines[n])
  <1> DEFINE value(f, n) == IF n = 0 THEN [lastVal |-> -1, entries |-> {}] ELSE AddEntry(f[n - 1], lines[n])
             sol(f, N) == f = [n \in 0..N |-> value(f, n)]
             S == {N \in Nat : \E f : sol(f, N)}
  <1>1. 0 \in S
    <2>1. sol([n \in 0..0 |-> [lastVal |-> -1, entries |-> {}]], 0)
      OBVIOUS
    <2>2. QED
      BY <2>1
  <1>2. ASSUME NEW N \in Nat, N \in S PROVE N + 1 \in S
    <2>1. PICK f : sol(f, N)
      BY <1>2
    <2> DEFINE g == [n \in 0..(N + 1) |-> IF n = N + 1 THEN AddEntry(f[N], lines[N + 1]) ELSE f[n]]
    <2>2. \A n \in 0..N : g[n] = f[n] /\ f[n] = value(f, n)
      <3>1. \A n \in 0..N : n # N + 1 /\ n \in 0..(N + 1)
        OBVIOUS
      <3>2. \A n \in 0..N : g[n] = f[n]
        BY <3>1
      <3> HIDE DEF value, g
      <3>3. \A n \in 0..N : f[n] = value(f, n)
        BY <2>1
      <3>4. QED
        BY <3>2, <3>3
    <2>3. g[N + 1] = AddEntry(f[N], lines[N + 1]) /\ g = [n \in 0..(N + 1) |-> g[n]]
      OBVIOUS
    <2> HIDE DEF g
    <2>4. ASSUME NEW n \in 0..(N + 1) PROVE g[n] = value(g, n)
      <3>1. CASE n = N + 1
        <4>1. n # 0 /\ n - 1 = N /\ N \in 0..N
          BY <3>1
        <4>2. QED
          BY <2>2, <2>3, <3>1, <4>1
      <3>2. CASE n \in 0..N
        <4>1. n # 0 => n - 1 \in 0..N
          BY <3>2
        <4>2. QED
          BY <2>2, <3>2, <4>1
      <3>3. QED
        BY <3>1, <3>2
    <2>5. sol(g, N + 1)
      BY <2>3, <2>4
    <2>6. QED
      BY <2>5
  <1>3. Len(lines) \in S
    <2> HIDE DEF S
    <2>1. QED
      BY <1>1, <1>2, InductionOverNat
  <1>4. Added(lines) = CHOOSE f : sol(f, Len(lines))
    BY DEF Added
  <1>5. sol(Added(lines), Len(lines))
    <2> HIDE DEF sol
    <2>1. QED
      BY <1>3, <1>4
  <1>6. QED
    BY <1>5

\* The same for MergedMap.
LEMMA MergedMapIs ==
    ASSUME NEW defaults, NEW entries, Len(entries) \in Nat
    PROVE  \A n \in 0..Len(entries) :
              MergedMap(defaults, entries)[n] = IF n = 0 THEN ByMetric(defaults)
                         ELSE MergeStep(MergedMap(defaults, entries)[n - 1], entries[n])
  <1> DEFINE value(f, n) == IF n = 0 THEN ByMetric(defaults) ELSE MergeStep(f[n - 1], entries[n])
             sol(f, N) == f = [n \in 0..N |-> value(f, n)]
             S == {N \in Nat : \E f : sol(f, N)}
  <1>1. 0 \in S
    <2>1. sol([n \in 0..0 |-> ByMetric(defaults)], 0)
      OBVIOUS
    <2>2. QED
      BY <2>1
  <1>2. ASSUME NEW N \in Nat, N \in S PROVE N + 1 \in S
    <2>1. PICK f : sol(f, N)
      BY <1>2
    <2> DEFINE g == [n \in 0..(N + 1) |-> IF n = N + 1 THEN MergeStep(f[N], entries[N + 1]) ELSE f[n]]
    <2>2. \A n \in 0..N : g[n] = f[n] /\ f[n] = value(f, n)
      <3>1. \A n \in 0..N : n # N + 1 /\ n \in 0..(N + 1)
        OBVIOUS
      <3>2. \A n \in 0..N : g[n] = f[n]
        BY <3>1
      <3> HIDE DEF value, g
      <3>3. \A n \in 0..N : f[n] = value(f, n)
        BY <2>1
      <3>4. QED
        BY <3>2, <3>3
    <2>3. g[N + 1] = MergeStep(f[N], entries[N + 1]) /\ g = [n \in 0..(N + 1) |-> g[n]]
      OBVIOUS
    <2> HIDE DEF g
    <2>4. ASSUME NEW n \in 0..(N + 1) PROVE g[n] = value(g, n)
      <3>1. CASE n = N + 1
        <4>1. n # 0 /\ n - 1 = N /\ N \in 0..N
          BY <3>1
        <4>2. QED
          BY <2>2, <2>3, <3>1, <4>1
      <3>2. CASE n \in 0..N
        <4>1. n # 0 => n - 1 \in 0..N
          BY <3>2
        <4>2. QED
          BY <2>2, <3>2, <4>1
      <3>3. QED
        BY <3>1, <3>2
    <2>5. sol(g, N + 1)
      BY <2>3, <2>4
    <2>6. QED
      BY <2>5
  <1>3. Len(entries) \in S
    <2> HIDE DEF S
    <2>1. QED
      BY <1>1, <1>2, InductionOverNat
  <1>4. MergedMap(defaults, entries) = CHOOSE f : sol(f, Len(entries))
    BY DEF MergedMap
  <1>5. sol(MergedMap(defaults, entries), Len(entries))
    <2> HIDE DEF sol
    <2>1. QED
      BY <1>3, <1>4
  <1>6. QED
    BY <1>5

\* The same for Registered.
LEMMA RegisteredIs ==
    ASSUME NEW defs, Len(defs) \in Nat
    PROVE  \A n \in 0..Len(defs) :
              Registered(defs)[n] = IF n = 0 THEN [ok |-> TRUE, gauges |-> <<>>]
                         ELSE RegisterStep(Registered(defs)[n - 1], defs[n])
  <1> DEFINE value(f, n) == IF n = 0 THEN [ok |-> TRUE, gauges |-> <<>>] ELSE RegisterStep(f[n - 1], defs[n])
             sol(f, N) == f = [n \in 0..N |-> value(f, n)]
             S == {N \in Nat : \E f : sol(f, N)}
  <1>1. 0 \in S
    <2>1. sol([n \in 0..0 |-> [ok |-> TRUE, gauges |-> <<>>]], 0)
      OBVIOUS
    <2>2. QED
      BY <2>1
  <1>2. ASSUME NEW N \in Nat, N \in S PROVE N + 1 \in S
    <2>1. PICK f : sol(f, N)
      BY <1>2
    <2> DEFINE g == [n \in 0..(N + 1) |-> IF n = N + 1 THEN RegisterStep(f[N], defs[N + 1]) ELSE f[n]]
    <2>2. \A n \in 0..N : g[n] = f[n] /\ f[n] = value(f, n)
      <3>1. \A n \in 0..N : n # N + 1 /\ n \in 0..(N + 1)
        OBVIOUS
      <3>2. \A n \in 0..N : g[n] = f[n]
        BY <3>1
      <3> HIDE DEF value, g
      <3>3. \A n \in 0..N : f[n] = value(f, n)
        BY <2>1
      <3>4. QED
        BY <3>2, <3>3
    <2>3. g[N + 1] = RegisterStep(f[N], defs[N + 1]) /\ g = [n \in 0..(N + 1) |-> g[n]]
      OBVIOUS
    <2> HIDE DEF g
    <2>4. ASSUME NEW n \in 0..(N + 1) PROVE g[n] = value(g, n)
      <3>1. CASE n = N + 1
        <4>1. n # 0 /\ n - 1 = N /\ N \in 0..N
          BY <3>1
        <4>2. QED
          BY <2>2, <2>3, <3>1, <4>1
      <3>2. CASE n \in 0..N
        <4>1. n # 0 => n - 1 \in 0..N
          BY <3>2
        <4>2. QED
          BY <2>2, <3>2, <4>1
      <3>3. QED
        BY <3>1, <3>2
    <2>5. sol(g, N + 1)
      BY <2>3, <2>4
    <2>6. QED
      BY <2>5
  <1>3. Len(defs) \in S
    <2> HIDE DEF S
    <2>1. QED
      BY <1>1, <1>2, InductionOverNat
  <1>4. Registered(defs) = CHOOSE f : sol(f, Len(defs))
    BY DEF Registered
  <1>5. sol(Registered(defs), Len(defs))
    <2> HIDE DEF sol
    <2>1. QED
      BY <1>3, <1>4
  <1>6. QED
    BY <1>5

-----------------------------------------------------------------------------
(* The embedded catalog                                                    *)

\* The scan keeps lines of the header.
LEMMA ScanKeepsLines ==
    ASSUME NEW L, NEW hdr \in Seq(L)
    PROVE  EnumLines(hdr) \in Seq(L)
  <1> DEFINE N == Len(hdr)
             s(n) == Scanned(hdr)[n]
             shaped(n) == \E a, b, c : s(n) = [inEnum |-> a, found |-> b, enumLines |-> c]
                                      /\ c \in Seq(L)
             S == {n \in Nat : n <= N => shaped(n)}
  <1>1. N \in Nat /\ \A n \in 1..N : hdr[n] \in L
    OBVIOUS
  <1>2. \A n \in 0..N :
           s(n) = IF n = 0 THEN [inEnum |-> FALSE, found |-> FALSE, enumLines |-> <<>>]
                  ELSE ScanLine(s(n - 1), hdr[n])
    BY <1>1, ScannedIs
  <1> HIDE DEF s
  <1>3. 0 \in S
    <2>1. s(0) = [inEnum |-> FALSE, found |-> FALSE, enumLines |-> <<>>] /\ <<>> \in Seq(L)
      BY <1>1, <1>2
    <2>2. shaped(0)
      BY <2>1
    <2>3. QED
      BY <2>2
  <1> HIDE DEF shaped
  <1>4. ASSUME NEW n \in Nat, n \in S PROVE n + 1 \in S
    <2> SUFFICES ASSUME n + 1 <= N PROVE shaped(n + 1)
      OBVIOUS
    <2>1. n + 1 \in 0..N /\ n + 1 # 0 /\ (n + 1) - 1 = n /\ n + 1 \in 1..N
      BY <1>1
    <2>2. s(n + 1) = ScanLine(s(n), hdr[n + 1]) /\ hdr[n + 1] \in L
      BY <1>1, <1>2, <2>1
    <2>3. shaped(n)
      BY <1>1, <1>4, <2>1
    <2> DEFINE line == hdr[n + 1]
    <2>4. PICK a, b, c : s(n) = [inEnum |-> a, found |-> b, enumLines |-> c] /\ c \in Seq(L)
      BY <2>3 DEF shaped
    <2> DEFINE t == [inEnum |-> a, found |-> b, enumLines |-> c]
    <2>5. Append(c, line) \in Seq(L) /\ <<>> \in Seq(L) /\ c \in Seq(L)
      BY <2>2, <2>4
    <2> HIDE DEF line
    <2>6. \/ ScanLine(t, line) = t
          \/ ScanLine(t, line) = [inEnum |-> (line.kind = "open"), found |-> b, enumLines |-> c]
          \/ ScanLine(t, line) = [inEnum |-> a, found |-> TRUE, enumLines |-> c]
          \/ ScanLine(t, line) = [inEnum |-> FALSE, found |-> b, enumLines |-> <<>>]
          \/ ScanLine(t, line) = [inEnum |-> a, found |-> b, enumLines |-> Append(c, line)]
      BY DEF ScanLine
    <2>7. s(n + 1) = ScanLine(t, line)
      BY <2>2, <2>4 DEF line
    <2>8. \A x, y, z : s(n + 1) = [inEnum |-> x, found |-> y, enumLines |-> z] /\ z \in Seq(L)
                          => shaped(n + 1)
      BY DEF shaped
    <2> DEFINE o == line.kind = "open"
    <2>9. \/ s(n + 1) = t
          \/ s(n + 1) = [inEnum |-> o, found |-> b, enumLines |-> c]
          \/ s(n + 1) = [inEnum |-> a, found |-> TRUE, enumLines |-> c]
          \/ s(n + 1) = [inEnum |-> FALSE, found |-> b, enumLines |-> <<>>]
          \/ s(n + 1) = [inEnum |-> a, found |-> b, enumLines |-> Append(c, line)]
      BY <2>6, <2>7
    <2> HIDE DEF o
    <2>10. QED
      BY <2>5, <2>8, <2>9
  <1>5. N \in S
    <2> HIDE DEF S
    <2>1. QED
      BY <1>1, <1>3, <1>4, InductionOverNat
  <1>6. QED
    <2>1. shaped(N)
      BY <1>1, <1>5
    <2>2. s(N).enumLines \in Seq(L)
      BY <2>1 DEF shaped
    <2>3. QED
      BY <2>2 DEF s, EnumLines

\* The tool keeps finitely many entries, one of each name.
LEMMA EntriesFacts ==
    ASSUME NEW lines, Len(lines) \in Nat
    PROVE  /\ IsFiniteSet(Added(lines)[Len(lines)].entries)
           /\ \A e, f \in Added(lines)[Len(lines)].entries : e.metric = f.metric => e = f
  <1> DEFINE N == Len(lines)
             es(n) == Added(lines)[n].entries
             S == {n \in Nat : n <= N => /\ IsFiniteSet(es(n))
                                         /\ \A e, f \in es(n) : e.metric = f.metric => e = f}
  <1>1. \A n \in 0..N :
           Added(lines)[n] = IF n = 0 THEN [lastVal |-> -1, entries |-> {}]
                             ELSE AddEntry(Added(lines)[n - 1], lines[n])
    BY AddedIs
  <1>2. 0 \in S
    <2>1. es(0) = {}
      BY <1>1
    <2>2. QED
      BY <2>1, FS_EmptySet
  <1>3. ASSUME NEW n \in Nat, n \in S PROVE n + 1 \in S
    <2> SUFFICES ASSUME n + 1 <= N
                 PROVE  /\ IsFiniteSet(es(n + 1))
                        /\ \A e, f \in es(n + 1) : e.metric = f.metric => e = f
      OBVIOUS
    <2> DEFINE s == Added(lines)[n]
               line == lines[n + 1]
    <2>1. n + 1 \in 0..N /\ n + 1 # 0 /\ (n + 1) - 1 = n /\ n <= N
      OBVIOUS
    <2>2. Added(lines)[n + 1] = AddEntry(s, line)
      BY <1>1, <2>1
    <2>3. IsFiniteSet(s.entries) /\ \A e, f \in s.entries : e.metric = f.metric => e = f
      BY <1>3, <2>1
    <2> HIDE DEF s, line
    <2>4. CASE AddEntry(s, line) = s
      BY <2>2, <2>3, <2>4
    <2>5. CASE AddEntry(s, line) # s
      <3> DEFINE others == {e \in s.entries : e.metric # line.name}
      <3>1. PICK new : /\ new.metric = line.name
                       /\ AddEntry(s, line).entries = others \cup {new}
        <4> DEFINE val == CHOOSE v \in ValuesOf(s, line) : TRUE
        <4>1. AddEntry(s, line) = [lastVal |-> val,
                                   entries |-> others \cup {[metric |-> line.name, val |-> val]}]
          BY <2>5 DEF AddEntry
        <4> DEFINE e == [metric |-> line.name, val |-> val]
        <4>2. e.metric = line.name
          OBVIOUS
        <4> HIDE DEF others, val
        <4>3. AddEntry(s, line).entries = others \cup {e}
          BY <4>1
        <4> HIDE DEF e
        <4>4. QED
          BY <4>2, <4>3
      <3>2. IsFiniteSet(others)
        BY <2>3, FS_Subset
      <3>3. \A e, f \in others \cup {new} : e.metric = f.metric => e = f
        BY <2>3, <3>1
      <3> HIDE DEF others
      <3>4. IsFiniteSet(others \cup {new})
        BY <3>2, FS_AddElement
      <3>5. QED
        BY <2>2, <3>1, <3>3, <3>4
    <2>6. QED
      BY <2>4, <2>5
  <1>4. N \in S
    <2> HIDE DEF S
    <2>1. QED
      BY <1>2, <1>3, InductionOverNat
  <1>5. QED
    BY <1>4

\* A listing of a finite set has all its elements, each once.
LEMMA Listing ==
    ASSUME NEW R, IsFiniteSet(R), NEW q \in SetToSeqs(R)
    PROVE  /\ q \in Seq(R) /\ Len(q) = Cardinality(R) /\ DOMAIN q = 1..Cardinality(R)
           /\ \A i, j \in DOMAIN q : q[i] = q[j] => i = j
           /\ \A x \in R : \E i \in DOMAIN q : q[i] = x
  <1> DEFINE c == Cardinality(R)
             D == 1..c
  <1>1. c \in Nat
    BY FS_CardinalityType
  <1>2. q \in [D -> R] /\ \A i, j \in D : i # j => q[i] # q[j]
    BY DEF SetToSeqs
  <1>3. IsFiniteSet(D) /\ Cardinality(D) = c
    <2> HIDE DEF c
    <2>1. QED
      BY <1>1, FS_Interval
  <1>4. q \in Seq(R) /\ Len(q) = c
    <2> HIDE DEF c
    <2>1. QED
      BY <1>1, <1>2
  <1>5. q \in Surjection(D, R)
    <2>1. q \in Injection(D, R)
      BY <1>2 DEF Injection, IsInjective
    <2> HIDE DEF D
    <2>2. Cardinality(D) = Cardinality(R)
      BY <1>3
    <2>3. QED
      BY <1>3, <2>1, <2>2, FS_Injection
  <1>6. \A x \in R : \E i \in D : q[i] = x
    BY <1>5 DEF Surjection
  <1>7. QED
    BY <1>2, <1>4, <1>6

\* What every embedded catalog is: entries of different metrics, each with a name
\* and a field, none of them disabled.
IsEmbedded(cat) ==
    /\ cat \in Seq(Entity)
    /\ \A i \in DOMAIN cat : cat[i].metric # Blank /\ cat[i].field # Blank /\ Enabled(cat[i])
    /\ \A i, j \in DOMAIN cat : cat[i].metric = cat[j].metric => i = j

\* The text of a number is not blank.
LEMMA NumeralNotBlank ==
    ASSUME NEW n \in DOMAIN Itoa
    PROVE  Itoa[n] # Blank /\ Itoa[n] \in DOMAIN Atoi /\ Atoi[Itoa[n]] = n
  <1>1. n \in Int /\ Atoi[Itoa[n]] = n /\ Itoa[n] \in DOMAIN Atoi
    BY TextsAssumption
  <1>2. QED
    BY <1>1, TextsAssumption

LEMMA FieldIDFits == \A n : NewFieldIDFromInt(n) \in 0..MaxFieldID
  <1>1. 0 \in 0..MaxFieldID
    BY DEF MaxFieldID
  <1>2. QED
    BY <1>1 DEF NewFieldIDFromInt

LEMMA InRange == \A n \in 0..MaxFieldID : n <= MaxFieldID
  <1>1. MaxFieldID \in Nat
    BY DEF MaxFieldID
  <1>2. QED
    BY <1>1

LEMMA NamesAreTexts == \A n : ToPromName(n) \in STRING
  BY FieldIDFits, TextsAssumption DEF ToPromName

\* A new scale changes nothing else.
LEMMA WithScale ==
    ASSUME NEW e \in Entity, NEW c \in Int
    PROVE  /\ [e EXCEPT !.scale = c] \in Entity
           /\ [e EXCEPT !.scale = c].metric = e.metric
           /\ [e EXCEPT !.scale = c].prom = e.prom
           /\ [e EXCEPT !.scale = c].field = e.field
           /\ [e EXCEPT !.scale = c].disabled = e.disabled
           /\ [e EXCEPT !.scale = c].scale = c
  BY DEF Entity

LEMMA GeneratedIsEmbedded ==
    ASSUME NEW h \in Headers, NEW cat \in Generated(h)
    PROVE  IsEmbedded(Curate(cat))
  <1> DEFINE R == Entries(h)
  <1>1. IsFiniteSet(R) /\ \A e, f \in R : e.metric = f.metric => e = f
    <2>1. EnumLines(h) \in Seq(ToSet(h))
      BY HeadersAssumption, ScanKeepsLines
    <2>2. Len(EnumLines(h)) \in Nat
      BY <2>1
    <2>3. QED
      BY <2>2, EntriesFacts DEF Entries
  <1>2. PICK q \in SetToSeqs(R) : cat = [i \in DOMAIN q |-> EntityOf(q[i])]
    BY DEF Generated
  <1>3. \A e \in R : e.metric \in STRING \ {Blank} /\ e.val \in DOMAIN Itoa /\ Curated[e.metric] \in Int
    BY HeadersAssumption
  <1> HIDE DEF R
  <1>4. /\ q \in Seq(R) /\ DOMAIN q = 1..Len(q) /\ Len(q) \in Nat
        /\ \A i, j \in DOMAIN q : q[i] = q[j] => i = j
    BY <1>1, <1>2, Listing
  <1>5. ASSUME NEW i \in DOMAIN q
        PROVE  /\ Curate(cat)[i] \in Entity
               /\ Curate(cat)[i].metric = q[i].metric
               /\ Curate(cat)[i].metric # Blank
               /\ Curate(cat)[i].field # Blank
               /\ Curate(cat)[i].disabled = FALSE
    <2>1. q[i] \in R
      BY <1>4, <1>5
    <2>2. cat[i] = EntityOf(q[i]) /\ i \in DOMAIN cat
      BY <1>2, <1>5
    <2>3. Curate(cat)[i] = [cat[i] EXCEPT !.scale = Curated[cat[i].metric]]
      BY <2>2 DEF Curate
    <2>4. /\ q[i].metric \in STRING /\ q[i].metric # Blank /\ Curated[q[i].metric] \in Int
          /\ ToPromName(q[i].val) \in STRING
          /\ Itoa[q[i].val] \in DOMAIN Atoi /\ Itoa[q[i].val] # Blank
      BY <1>3, <2>1, NumeralNotBlank, NamesAreTexts
    <2> DEFINE e == [metric |-> q[i].metric, prom |-> ToPromName(q[i].val),
                     field |-> Itoa[q[i].val], scale |-> 1, disabled |-> FALSE]
    <2>5. cat[i] = e /\ e \in Entity /\ e.metric = q[i].metric
          /\ e.field # Blank /\ e.disabled = FALSE
      BY <2>2, <2>4 DEF EntityOf, Entity
    <2> HIDE DEF e
    <2>6. Curate(cat)[i] = [e EXCEPT !.scale = Curated[q[i].metric]]
      BY <2>3, <2>5
    <2>7. QED
      BY <2>4, <2>5, <2>6, WithScale
  <1>6. DOMAIN Curate(cat) = DOMAIN q /\ Curate(cat) = [i \in DOMAIN q |-> Curate(cat)[i]]
    BY <1>2 DEF Curate
  <1> DEFINE k == Curate(cat)
             n == Len(q)
  <1>7. /\ n \in Nat /\ DOMAIN q = 1..n /\ DOMAIN k = 1..n
        /\ k = [i \in 1..n |-> k[i]]
        /\ \A i \in 1..n : /\ k[i] \in Entity /\ k[i].metric = q[i].metric
                           /\ k[i].metric # Blank /\ k[i].field # Blank
                           /\ k[i].disabled = FALSE
    BY <1>4, <1>5, <1>6
  <1> HIDE DEF k, n
  <1>8. k \in Seq(Entity)
    BY <1>7
  <1>9. ASSUME NEW i \in DOMAIN k, NEW j \in DOMAIN k, k[i].metric = k[j].metric PROVE i = j
    <2>1. q[i] \in R /\ q[j] \in R /\ q[i].metric = q[j].metric
      BY <1>4, <1>7, <1>9
    <2>2. QED
      BY <1>1, <1>4, <1>7, <2>1
  <1>10. QED
    BY <1>7, <1>8, <1>9 DEF IsEmbedded, Enabled, k

-----------------------------------------------------------------------------
(* The merge                                                               *)

IsLast(i, K) == i \in K /\ \A j \in K : j <= i

LEMMA LatestIs ==
    ASSUME NEW K \in SUBSET Int, NEW i, IsLast(i, K)
    PROVE  Latest(K) = Said[i]
  <1>1. \A x \in K : (\A j \in K : j <= x) => x = i
    BY DEF IsLast
  <1>2. (CHOOSE x \in K : \A j \in K : j <= x) = i
    BY <1>1 DEF IsLast
  <1>3. QED
    BY <1>2 DEF Latest

\* What counts of metric k among the first p entries, and what of it says a name,
\* a scale, a field.
CountedTo(k, p) == {i \in Counted(k) : i <= p}
NamedTo(k, p)   == {i \in CountedTo(k, p) : Said[i].prom # Blank}
ScaledTo(k, p)  == {i \in CountedTo(k, p) : Said[i].scale > 0}
FieldedTo(k, p) == {i \in CountedTo(k, p) : Said[i].field # Blank}

\* Entry e is what the first p entries say of metric k.
Describes(e, k, p) ==
    /\ e \in Entity /\ e.metric = k
    /\ \E i : IsLast(i, FieldedTo(k, p)) /\ e.field = Said[i].field
    /\ \/ NamedTo(k, p) = {} /\ e.prom = Blank
       \/ \E i : IsLast(i, NamedTo(k, p)) /\ e.prom = Said[i].prom
    /\ \/ ScaledTo(k, p) = {} /\ e.scale <= 0
       \/ \E i : IsLast(i, ScaledTo(k, p)) /\ e.scale = Said[i].scale
    /\ \E i : IsLast(i, CountedTo(k, p)) /\ e.disabled = Said[i].disabled

\* The invariant of the merge: the map has the metrics that count, as described.
MapSays(m, p) ==
    /\ \A k : k \in DOMAIN m <=> k # Blank /\ CountedTo(k, p) # {}
    /\ \A k \in DOMAIN m : Describes(m[k], k, p)

\* A catalog and a list of the user's as they come.
Given == IsEmbedded(embedded) /\ user.entries \in Seq(Entity)

LEMMA SaidFacts ==
    ASSUME Given
    PROVE  /\ Len(embedded) \in Nat /\ Len(user.entries) \in Nat
           /\ Said \in Seq(Entity)
           /\ DOMAIN Said = 1..(Len(embedded) + Len(user.entries))
           /\ DOMAIN embedded = 1..Len(embedded)
           /\ \A i \in 1..Len(embedded) : Said[i] = embedded[i]
           /\ \A n \in 1..Len(user.entries) : Said[Len(embedded) + n] = user.entries[n]
  <1> DEFINE a == embedded
             b == user.entries
  <1>1. a \in Seq(Entity) /\ b \in Seq(Entity)
    BY DEF Given, IsEmbedded
  <1>2. Said = a \o b
    BY DEF Said
  <1> HIDE DEF a, b
  <1>3. Len(a) \in Nat /\ Len(b) \in Nat /\ DOMAIN a = 1..Len(a)
    BY <1>1
  <1>4. /\ a \o b \in Seq(Entity)
        /\ Len(a \o b) = Len(a) + Len(b)
        /\ \A i \in 1..(Len(a) + Len(b)) :
              (a \o b)[i] = IF i <= Len(a) THEN a[i] ELSE b[i - Len(a)]
    BY <1>1, ConcatProperties
  <1>5. DOMAIN Said = 1..(Len(a) + Len(b))
    BY <1>2, <1>4
  <1>6. \A i \in 1..Len(a) : Said[i] = a[i]
    BY <1>2, <1>3, <1>4
  <1>7. ASSUME NEW n \in 1..Len(b) PROVE Said[Len(a) + n] = b[n]
    <2>1. /\ Len(a) + n \in 1..(Len(a) + Len(b))
          /\ ~(Len(a) + n <= Len(a)) /\ (Len(a) + n) - Len(a) = n
      BY <1>3
    <2>2. QED
      BY <1>2, <1>4, <2>1
  <1>8. QED
    BY <1>2, <1>3, <1>4, <1>5, <1>6, <1>7 DEF a, b

LEMMA CountedAreInts ==
    ASSUME Given, NEW k, NEW p
    PROVE  /\ Counted(k) \in SUBSET (DOMAIN Said) /\ Counted(k) \in SUBSET Int
           /\ CountedTo(k, p) \in SUBSET Int /\ NamedTo(k, p) \in SUBSET Int
           /\ ScaledTo(k, p) \in SUBSET Int /\ FieldedTo(k, p) \in SUBSET Int
  <1>1. \A i \in DOMAIN Said : i \in Int
    BY SaidFacts
  <1>2. QED
    BY <1>1 DEF Counted, CountedTo, NamedTo, ScaledTo, FieldedTo

\* One more entry: of no other metric does it say anything, and of its own it is the
\* last word on whatever it mentions, if it counts.
LEMMA OneMore ==
    ASSUME Given, NEW p \in Nat, p + 1 \in DOMAIN Said, NEW k
    PROVE  /\ p + 1 \notin Counted(k) =>
                 /\ CountedTo(k, p + 1) = CountedTo(k, p)
                 /\ NamedTo(k, p + 1) = NamedTo(k, p)
                 /\ ScaledTo(k, p + 1) = ScaledTo(k, p)
                 /\ FieldedTo(k, p + 1) = FieldedTo(k, p)
           /\ p + 1 \in Counted(k) =>
                 /\ IsLast(p + 1, CountedTo(k, p + 1))
                 /\ IF Said[p + 1].prom # Blank THEN IsLast(p + 1, NamedTo(k, p + 1))
                    ELSE NamedTo(k, p + 1) = NamedTo(k, p)
                 /\ IF Said[p + 1].scale > 0 THEN IsLast(p + 1, ScaledTo(k, p + 1))
                    ELSE ScaledTo(k, p + 1) = ScaledTo(k, p)
                 /\ IF Said[p + 1].field # Blank THEN IsLast(p + 1, FieldedTo(k, p + 1))
                    ELSE FieldedTo(k, p + 1) = FieldedTo(k, p)
  <1>1. \A i \in Counted(k) : i \in Int
    BY CountedAreInts
  <1>2. ASSUME p + 1 \notin Counted(k) PROVE CountedTo(k, p + 1) = CountedTo(k, p)
    <2>1. \A i \in Counted(k) : i <= p + 1 <=> i <= p
      BY <1>1, <1>2
    <2>2. QED
      BY <2>1 DEF CountedTo
  <1>3. ASSUME p + 1 \in Counted(k)
        PROVE  /\ \A i : i \in CountedTo(k, p + 1) <=> i \in CountedTo(k, p) \/ i = p + 1
               /\ \A i \in CountedTo(k, p + 1) : i <= p + 1
    <2>1. \A i \in Counted(k) : i <= p + 1 <=> i <= p \/ i = p + 1
      BY <1>1
    <2>2. QED
      BY <1>3, <2>1 DEF CountedTo
  <1>4. QED
    BY <1>2, <1>3 DEF NamedTo, ScaledTo, FieldedTo, IsLast

\* What a user's entry makes of the one there is.
LEMMA MergedEntity ==
    ASSUME NEW old \in Entity, NEW e \in Entity
    PROVE  /\ MergeEntity(old, e) \in Entity
           /\ MergeEntity(old, e).metric = e.metric
           /\ MergeEntity(old, e).prom = IF e.prom = Blank THEN old.prom ELSE e.prom
           /\ MergeEntity(old, e).scale = IF e.scale > 0 THEN e.scale ELSE old.scale
           /\ MergeEntity(old, e).field = IF e.field = Blank THEN old.field ELSE e.field
           /\ MergeEntity(old, e).disabled = e.disabled
  <1> DEFINE p == IF e.prom = Blank THEN old.prom ELSE e.prom
             s == IF e.scale <= 0 THEN old.scale ELSE e.scale
             f == IF e.field = Blank THEN old.field ELSE e.field
  <1>1. p \in STRING /\ s \in Int /\ f \in DOMAIN Atoi
    BY DEF Entity
  <1>2. s = IF e.scale > 0 THEN e.scale ELSE old.scale
    BY DEF Entity
  <1>3. MergeEntity(old, e) = [e EXCEPT !.prom = p, !.scale = s, !.field = f]
    BY DEF MergeEntity
  <1> HIDE DEF p, s, f
  <1> DEFINE r == [e EXCEPT !.prom = p, !.scale = s, !.field = f]
  <1>4. /\ r \in Entity /\ r.metric = e.metric /\ r.prom = p /\ r.scale = s /\ r.field = f
        /\ r.disabled = e.disabled
    BY <1>1 DEF Entity
  <1> HIDE DEF r
  <1>5. MergeEntity(old, e) = r
    BY <1>3 DEF r
  <1>6. QED
    BY <1>2, <1>4, <1>5 DEF p, f

\* The entry of a metric that was counted before has a field.
LEMMA DescribedHasField ==
    ASSUME NEW e, NEW k, NEW p, Describes(e, k, p)
    PROVE  e.field # Blank
  BY DEF Describes, IsLast, FieldedTo

\* One turn of the merge keeps its invariant.
LEMMA MergeStepSays ==
    ASSUME Given, NEW m, NEW p \in Nat, p + 1 \in DOMAIN Said, MapSays(m, p)
    PROVE  MapSays(MergeStep(m, Said[p + 1]), p + 1)
  <1> DEFINE e == Said[p + 1]
             x == e.metric
             merged == IF x \in DOMAIN m THEN MergeEntity(m[x], e) ELSE e
             new == MergeStep(m, e)
  <1>1. e \in Entity
    BY SaidFacts
  <1>2. \A k : k # x => p + 1 \notin Counted(k)
    BY DEF Counted
  <1>3. x # Blank => (p + 1 \in Counted(x) <=> x \in DOMAIN m \/ e.field # Blank)
    <2> SUFFICES ASSUME x # Blank
                 PROVE  p + 1 \in Counted(x) <=> x \in DOMAIN m \/ e.field # Blank
      OBVIOUS
    <2>1. p + 1 \in Counted(x)
             <=> \E j \in 1..(p + 1) : Said[j].metric = x /\ Said[j].field # Blank
      BY DEF Counted
    <2>2. ASSUME x \in DOMAIN m PROVE p + 1 \in Counted(x)
      <3>1. PICK i \in CountedTo(x, p) : TRUE
        BY <2>2 DEF MapSays
      <3>2. i \in Int /\ i <= p
        BY <3>1, CountedAreInts DEF CountedTo
      <3>3. PICK j \in 1..i : Said[j].metric = x /\ Said[j].field # Blank
        BY <3>1 DEF CountedTo, Counted
      <3>4. j \in 1..(p + 1)
        BY <3>2, <3>3
      <3>5. QED
        BY <2>1, <3>3, <3>4
    <2>3. ASSUME e.field # Blank PROVE p + 1 \in Counted(x)
      <3>1. p + 1 \in 1..(p + 1)
        OBVIOUS
      <3>2. QED
        BY <2>1, <2>3, <3>1
    <2>4. ASSUME p + 1 \in Counted(x), e.field = Blank PROVE x \in DOMAIN m
      <3>1. PICK j \in 1..(p + 1) : Said[j].metric = x /\ Said[j].field # Blank
        BY <2>1, <2>4
      <3>2. j \in 1..p
        BY <2>4, <3>1
      <3>3. j \in CountedTo(x, p)
        <4>1. j \in DOMAIN Said /\ j \in 1..j /\ j <= p
          BY <3>2, SaidFacts
        <4>2. QED
          BY <3>1, <4>1 DEF CountedTo, Counted
      <3>4. QED
        BY <3>3 DEF MapSays
    <2>5. QED
      BY <2>2, <2>3, <2>4
  <1>4. x \in DOMAIN m => m[x] \in Entity /\ m[x].field # Blank
    <2>1. x \in DOMAIN m => Describes(m[x], x, p)
      BY DEF MapSays
    <2> HIDE DEF x
    <2>2. QED
      BY <2>1, DescribedHasField DEF Describes
  <1>5. CASE x = Blank \/ p + 1 \notin Counted(x)
    <2>1. new = m
      <3>1. x = Blank \/ merged.field = Blank
        BY <1>3, <1>5
      <3> HIDE DEF e
      <3>2. QED
        BY <3>1 DEF MergeStep
    <2>2. ASSUME NEW k, k # Blank
          PROVE  /\ CountedTo(k, p + 1) = CountedTo(k, p)
                 /\ NamedTo(k, p + 1) = NamedTo(k, p)
                 /\ ScaledTo(k, p + 1) = ScaledTo(k, p)
                 /\ FieldedTo(k, p + 1) = FieldedTo(k, p)
      <3>1. p + 1 \notin Counted(k)
        BY <1>2, <1>5, <2>2
      <3>2. QED
        BY <3>1, OneMore
    <2>3. \A k \in DOMAIN m : k # Blank /\ Describes(m[k], k, p)
      BY DEF MapSays
    <2>4. \A k \in DOMAIN m : Describes(m[k], k, p + 1)
      BY <2>2, <2>3 DEF Describes
    <2>5. \A k : k \in DOMAIN m <=> k # Blank /\ CountedTo(k, p + 1) # {}
      BY <2>2 DEF MapSays
    <2>6. QED
      BY <2>1, <2>4, <2>5 DEF MapSays
  <1>6. CASE x # Blank /\ p + 1 \in Counted(x)
    <2>1. merged \in Entity /\ merged.field # Blank /\ merged.metric = x
      BY <1>1, <1>3, <1>4, <1>6, MergedEntity
    <2>2. new = [k \in DOMAIN m \cup {x} |-> IF k = x THEN merged ELSE m[k]]
      <3> HIDE DEF e
      <3>1. QED
        BY <1>6, <2>1 DEF MergeStep
    <2> HIDE DEF new
    <2>3. /\ IsLast(p + 1, CountedTo(x, p + 1))
          /\ IF e.prom # Blank THEN IsLast(p + 1, NamedTo(x, p + 1))
             ELSE NamedTo(x, p + 1) = NamedTo(x, p)
          /\ IF e.scale > 0 THEN IsLast(p + 1, ScaledTo(x, p + 1))
             ELSE ScaledTo(x, p + 1) = ScaledTo(x, p)
          /\ IF e.field # Blank THEN IsLast(p + 1, FieldedTo(x, p + 1))
             ELSE FieldedTo(x, p + 1) = FieldedTo(x, p)
      BY <1>6, OneMore
    <2>4. Describes(merged, x, p + 1)
      <3>1. CASE x \in DOMAIN m
        <4>1. Describes(m[x], x, p) /\ m[x] \in Entity
          BY <1>4, <3>1 DEF MapSays
        <4>2. /\ merged.prom = IF e.prom = Blank THEN m[x].prom ELSE e.prom
              /\ merged.scale = IF e.scale > 0 THEN e.scale ELSE m[x].scale
              /\ merged.field = IF e.field = Blank THEN m[x].field ELSE e.field
              /\ merged.disabled = e.disabled
          BY <1>1, <3>1, <4>1, MergedEntity
        <4> HIDE DEF merged
        <4>3. \E i : IsLast(i, FieldedTo(x, p + 1)) /\ merged.field = Said[i].field
          BY <2>3, <4>1, <4>2 DEF Describes
        <4>4. \/ NamedTo(x, p + 1) = {} /\ merged.prom = Blank
              \/ \E i : IsLast(i, NamedTo(x, p + 1)) /\ merged.prom = Said[i].prom
          BY <2>3, <4>1, <4>2 DEF Describes
        <4>5. \/ ScaledTo(x, p + 1) = {} /\ merged.scale <= 0
              \/ \E i : IsLast(i, ScaledTo(x, p + 1)) /\ merged.scale = Said[i].scale
          BY <2>3, <4>1, <4>2 DEF Describes
        <4>6. QED
          BY <2>1, <2>3, <4>2, <4>3, <4>4, <4>5 DEF Describes
      <3>2. CASE x \notin DOMAIN m
        <4>1. merged = e /\ e.field # Blank
          BY <1>3, <1>6, <3>2
        <4>2. CountedTo(x, p) = {}
          BY <1>6, <3>2 DEF MapSays
        <4>3. NamedTo(x, p) = {} /\ ScaledTo(x, p) = {}
          BY <4>2 DEF NamedTo, ScaledTo
        <4>4. e.scale > 0 \/ e.scale <= 0
          BY <1>1 DEF Entity
        <4> HIDE DEF merged
        <4>5. QED
          BY <2>1, <2>3, <4>1, <4>3, <4>4 DEF Describes
      <3>3. QED
        BY <3>1, <3>2
    <2>5. ASSUME NEW k \in DOMAIN m, k # x PROVE Describes(m[k], k, p + 1)
      <3>1. /\ CountedTo(k, p + 1) = CountedTo(k, p)
            /\ NamedTo(k, p + 1) = NamedTo(k, p)
            /\ ScaledTo(k, p + 1) = ScaledTo(k, p)
            /\ FieldedTo(k, p + 1) = FieldedTo(k, p)
        BY <1>2, <2>5, OneMore
      <3>2. Describes(m[k], k, p)
        BY DEF MapSays
      <3>3. QED
        BY <3>1, <3>2 DEF Describes
    <2> HIDE DEF merged, x, e
    <2>6. \A k \in DOMAIN new : Describes(new[k], k, p + 1)
      BY <2>2, <2>4, <2>5
    <2>7. \A k : k \in DOMAIN new <=> k # Blank /\ CountedTo(k, p + 1) # {}
      <3>1. \A k : k # x => CountedTo(k, p + 1) = CountedTo(k, p)
        BY <1>2, OneMore
      <3>2. CountedTo(x, p + 1) # {}
        BY <2>3 DEF IsLast
      <3>3. \A k : k \in DOMAIN new <=> k \in DOMAIN m \/ k = x
        BY <2>2
      <3>4. QED
        BY <1>6, <3>1, <3>2, <3>3 DEF MapSays
    <2>8. QED
      BY <2>6, <2>7 DEF MapSays, new, e
  <1>7. QED
    BY <1>5, <1>6

\* Before the loop the map says what the embedded catalog says.
LEMMA ByMetricSays ==
    ASSUME Given
    PROVE  MapSays(ByMetric(embedded), Len(embedded))
  <1> DEFINE E == Len(embedded)
             m == ByMetric(embedded)
  <1>1. /\ E \in Nat /\ DOMAIN embedded = 1..E
        /\ \A i \in 1..E : Said[i] = embedded[i] /\ i \in DOMAIN Said
    BY SaidFacts
  <1>2. /\ \A i \in 1..E : embedded[i] \in Entity /\ embedded[i].metric # Blank
                           /\ embedded[i].field # Blank
        /\ \A i, j \in 1..E : embedded[i].metric = embedded[j].metric => i = j
    BY <1>1 DEF Given, IsEmbedded
  <1> HIDE DEF E
  <1>3. ASSUME NEW k PROVE \A i : i \in CountedTo(k, E) <=> i \in 1..E /\ embedded[i].metric = k
    <2>1. ASSUME NEW i \in CountedTo(k, E) PROVE i \in 1..E /\ embedded[i].metric = k
      <3>1. i \in DOMAIN Said /\ Said[i].metric = k /\ i <= E
        BY DEF CountedTo, Counted
      <3>2. i \in 1..E
        BY <1>1, <3>1, SaidFacts
      <3>3. QED
        BY <1>1, <3>1, <3>2
    <2>2. ASSUME NEW i \in 1..E, embedded[i].metric = k PROVE i \in CountedTo(k, E)
      <3>1. /\ i \in DOMAIN Said /\ Said[i].metric = k /\ Said[i].field # Blank
            /\ i \in 1..i /\ i <= E
        BY <1>1, <1>2, <2>2
      <3>2. QED
        BY <3>1 DEF CountedTo, Counted
    <2>3. QED
      BY <2>1, <2>2
  <1>4. \A k : k \in DOMAIN m <=> \E i \in 1..E : embedded[i].metric = k
    BY <1>1 DEF ByMetric
  <1>5. ASSUME NEW k \in DOMAIN m PROVE Describes(m[k], k, E)
    <2>1. PICK i \in 1..E : embedded[i].metric = k
      BY <1>4
    <2>2. \A j : j \in CountedTo(k, E) <=> j = i
      BY <1>2, <1>3, <2>1
    <2>3. m[k] = embedded[i]
      <3> DEFINE K == {j \in 1..Len(embedded) : embedded[j].metric = k}
      <3>1. K = {i}
        BY <1>2, <2>1 DEF E
      <3>2. Max({i}) = i
        BY <1>1 DEF Max
      <3>3. SelectLastInSeq(embedded, LAMBDA e : e.metric = k)
               = IF K # {} THEN Max(K) ELSE 0
        BY DEF SelectLastInSeq
      <3>4. SelectLastInSeq(embedded, LAMBDA e : e.metric = k) = i
        BY <3>1, <3>2, <3>3
      <3>5. QED
        BY <3>4 DEF ByMetric
    <2> HIDE DEF m
    <2>4. Said[i] = embedded[i] /\ embedded[i] \in Entity /\ embedded[i].field # Blank /\ i <= i
      BY <1>1, <1>2
    <2>5. IsLast(i, CountedTo(k, E)) /\ IsLast(i, FieldedTo(k, E))
      BY <2>2, <2>4 DEF IsLast, FieldedTo
    <2>6. IF embedded[i].prom # Blank THEN IsLast(i, NamedTo(k, E)) ELSE NamedTo(k, E) = {}
      BY <2>2, <2>4 DEF IsLast, NamedTo
    <2>7. IF embedded[i].scale > 0 THEN IsLast(i, ScaledTo(k, E)) ELSE ScaledTo(k, E) = {}
      BY <2>2, <2>4 DEF IsLast, ScaledTo
    <2>8. embedded[i].scale > 0 \/ embedded[i].scale <= 0
      BY <2>4 DEF Entity
    <2>9. QED
      BY <2>1, <2>3, <2>4, <2>5, <2>6, <2>7, <2>8 DEF Describes
  <1>6. ASSUME NEW k PROVE k \in DOMAIN m <=> k # Blank /\ CountedTo(k, E) # {}
    BY <1>2, <1>3, <1>4
  <1>7. QED
    BY <1>5, <1>6 DEF MapSays, E

\* After the loop it says what everything says.
LEMMA MergedMapSays ==
    ASSUME Given
    PROVE  MapSays(MergedMap(embedded, user.entries)[Len(user.entries)],
                   Len(embedded) + Len(user.entries))
  <1> DEFINE E == Len(embedded)
             U == Len(user.entries)
             m(n) == MergedMap(embedded, user.entries)[n]
             S == {n \in Nat : n <= U => MapSays(m(n), E + n)}
  <1>1. /\ E \in Nat /\ U \in Nat /\ DOMAIN Said = 1..(E + U)
        /\ \A n \in 1..U : Said[E + n] = user.entries[n]
    BY SaidFacts
  <1>2. \A n \in 0..U : m(n) = IF n = 0 THEN ByMetric(embedded)
                               ELSE MergeStep(m(n - 1), user.entries[n])
    BY <1>1, MergedMapIs
  <1> HIDE DEF E, U, m
  <1>3. 0 \in S
    <2>1. m(0) = ByMetric(embedded) /\ E + 0 = E
      BY <1>1, <1>2
    <2>2. MapSays(m(0), E + 0)
      BY <2>1, ByMetricSays DEF E
    <2>3. QED
      BY <2>2
  <1>4. ASSUME NEW n \in Nat, n \in S PROVE n + 1 \in S
    <2> SUFFICES ASSUME n + 1 <= U PROVE MapSays(m(n + 1), E + (n + 1))
      OBVIOUS
    <2> DEFINE p == E + n
    <2>1. /\ n + 1 \in 0..U /\ n + 1 \in 1..U /\ n + 1 # 0 /\ (n + 1) - 1 = n
          /\ p \in Nat /\ p + 1 = E + (n + 1) /\ p + 1 \in DOMAIN Said
      BY <1>1
    <2>2. MapSays(m(n), p)
      BY <1>1, <1>4
    <2>3. m(n + 1) = MergeStep(m(n), Said[p + 1])
      BY <1>1, <1>2, <2>1
    <2> HIDE DEF p
    <2>4. MapSays(MergeStep(m(n), Said[p + 1]), p + 1)
      BY <2>1, <2>2, MergeStepSays
    <2>5. QED
      BY <2>1, <2>3, <2>4
  <1>5. U \in S
    <2> HIDE DEF S
    <2>1. QED
      BY <1>1, <1>3, <1>4, InductionOverNat
  <1>6. QED
    BY <1>1, <1>5 DEF E, U, m

\* The map, in terms of what was asked for.
LEMMA MapIsOverlay ==
    ASSUME Given, NEW m, MapSays(m, Len(embedded) + Len(user.entries))
    PROVE  /\ \A k : k \in DOMAIN m <=> k # Blank /\ Counted(k) # {}
           /\ \A k \in DOMAIN m : /\ m[k] \in Entity /\ m[k].metric = k /\ m[k].field # Blank
                                  /\ OverlayOf(k) = Identity(m[k])
                                  /\ Enabled(Latest(Counted(k))) <=> Enabled(m[k])
  <1> DEFINE p == Len(embedded) + Len(user.entries)
  <1>1. ASSUME NEW k PROVE CountedTo(k, p) = Counted(k)
    <2>1. p \in Nat /\ DOMAIN Said = 1..p
      BY SaidFacts
    <2> HIDE DEF p
    <2>2. \A i \in Counted(k) : i <= p
      BY <2>1 DEF Counted
    <2>3. QED
      BY <2>2 DEF CountedTo
  <1> HIDE DEF p
  <1>2. MapSays(m, p)
    BY DEF p
  <1>3. ASSUME NEW k \in DOMAIN m
        PROVE  /\ m[k] \in Entity /\ m[k].metric = k /\ m[k].field # Blank
               /\ OverlayOf(k) = Identity(m[k])
               /\ Enabled(Latest(Counted(k))) <=> Enabled(m[k])
    <2> DEFINE e == m[k]
               named == {i \in Counted(k) : Said[i].prom # Blank}
               scaled == {i \in Counted(k) : Said[i].scale > 0}
               fielded == {i \in Counted(k) : Said[i].field # Blank}
    <2>1. Describes(e, k, p)
      BY <1>2 DEF MapSays
    <2>2. CountedTo(k, p) = Counted(k) /\ NamedTo(k, p) = named /\ ScaledTo(k, p) = scaled
          /\ FieldedTo(k, p) = fielded
      BY <1>1 DEF NamedTo, ScaledTo, FieldedTo
    <2>3. /\ Counted(k) \in SUBSET Int /\ named \in SUBSET Int /\ scaled \in SUBSET Int
          /\ fielded \in SUBSET Int
      BY CountedAreInts
    <2> HIDE DEF e
    <2>4. e.metric = k /\ e \in Entity /\ e.field # Blank
      BY <2>1, DescribedHasField DEF Describes
    <2>5. e.prom = IF named = {} THEN Blank ELSE Latest(named).prom
      <3> HIDE DEF named
      <3>1. \/ named = {} /\ e.prom = Blank
            \/ \E i : IsLast(i, named) /\ e.prom = Said[i].prom
        BY <2>1, <2>2 DEF Describes
      <3>2. \A i : IsLast(i, named) => Latest(named) = Said[i] /\ named # {}
        BY <2>3, LatestIs DEF IsLast
      <3>3. QED
        BY <3>1, <3>2
    <2>6. Factor(e.scale) = IF scaled = {} THEN 1 ELSE Latest(scaled).scale
      <3>1. \A i \in scaled : Said[i].scale > 0
        OBVIOUS
      <3> HIDE DEF scaled
      <3>2. \/ scaled = {} /\ e.scale <= 0
            \/ \E i : IsLast(i, scaled) /\ e.scale = Said[i].scale
        BY <2>1, <2>2 DEF Describes
      <3>3. \A i : IsLast(i, scaled) => /\ Latest(scaled) = Said[i] /\ scaled # {}
                                        /\ Said[i].scale > 0
        BY <2>3, <3>1, LatestIs DEF IsLast
      <3>4. e.scale \in Int
        BY <2>4 DEF Entity
      <3>5. QED
        BY <3>2, <3>3, <3>4 DEF Factor
    <2>7. e.field = Latest(fielded).field
      <3> HIDE DEF fielded
      <3>1. \E i : IsLast(i, fielded) /\ e.field = Said[i].field
        BY <2>1, <2>2 DEF Describes
      <3>2. QED
        BY <2>3, <3>1, LatestIs
    <2>8. e.disabled = Latest(Counted(k)).disabled
      <3>1. \E i : IsLast(i, Counted(k)) /\ e.disabled = Said[i].disabled
        BY <2>1, <2>2 DEF Describes
      <3>2. QED
        BY <2>3, <3>1, LatestIs
    <2>9. QED
      BY <2>4, <2>5, <2>6, <2>7, <2>8 DEF OverlayOf, Identity, Enabled, e
  <1>4. \A k : k \in DOMAIN m <=> k # Blank /\ Counted(k) # {}
    BY <1>1, <1>2 DEF MapSays
  <1>5. QED
    BY <1>3, <1>4

\* Every order of the map's enabled entities is the overlay, each metric once.
LEMMA MergedIsOverlay ==
    ASSUME Given, NEW cat \in MergedCatalogs(embedded, user.entries)
    PROVE  /\ cat \in Seq(Entity)
           /\ {Identity(e) : e \in ToSet(cat)} = Overlay
           /\ \A i \in DOMAIN cat : cat[i].metric # Blank /\ cat[i].field # Blank
           /\ \A i, j \in DOMAIN cat : cat[i].metric = cat[j].metric => i = j
  <1> DEFINE m == MergedMap(embedded, user.entries)[Len(user.entries)]
             K == {k \in DOMAIN m : Enabled(m[k])}
             R == {m[k] : k \in K}
  <1>1. cat \in SetToSeqs(R)
    BY DEF MergedCatalogs
  <1>2. MapSays(m, Len(embedded) + Len(user.entries))
    BY MergedMapSays
  <1> HIDE DEF m
  <1>3. /\ \A k : k \in DOMAIN m <=> k # Blank /\ Counted(k) # {}
        /\ \A k \in DOMAIN m : /\ m[k] \in Entity /\ m[k].metric = k /\ m[k].field # Blank
                               /\ OverlayOf(k) = Identity(m[k])
                               /\ Enabled(Latest(Counted(k))) <=> Enabled(m[k])
    BY <1>2, MapIsOverlay
  <1>4. IsFiniteSet(R)
    <2> DEFINE n == Len(embedded) + Len(user.entries)
               P == 1..n
               Q == {Said[i].metric : i \in P}
               f == [i \in P |-> Said[i].metric]
               g == [k \in K |-> m[k]]
    <2>1. n \in Nat /\ DOMAIN Said = P
      BY SaidFacts
    <2>2. IsFiniteSet(P)
      <3> HIDE DEF n
      <3>1. QED
        BY <2>1, FS_Interval
    <2>3. IsFiniteSet(Q)
      <3> HIDE DEF P
      <3>1. f \in Surjection(P, Q)
        BY DEF Surjection
      <3>2. QED
        BY <2>2, <3>1, FS_Surjection
    <2>4. K \subseteq Q
      <3> SUFFICES ASSUME NEW k \in DOMAIN m PROVE k \in Q
        OBVIOUS
      <3>1. PICK i \in Counted(k) : TRUE
        BY <1>3
      <3>2. i \in P /\ Said[i].metric = k
        BY <2>1 DEF Counted
      <3>3. QED
        BY <3>2
    <2>5. IsFiniteSet(K)
      BY <2>3, <2>4, FS_Subset
    <2> HIDE DEF K
    <2>6. g \in Surjection(K, R)
      BY DEF Surjection
    <2>7. QED
      BY <2>5, <2>6, FS_Surjection
  <1>5. \A x : x \in R <=> \E k \in DOMAIN m : Enabled(m[k]) /\ x = m[k]
    OBVIOUS
  <1> HIDE DEF R
  <1>6. /\ cat \in Seq(R) /\ \A i, j \in DOMAIN cat : cat[i] = cat[j] => i = j
        /\ \A x \in R : \E i \in DOMAIN cat : cat[i] = x
        /\ \A i \in DOMAIN cat : cat[i] \in R
    BY <1>1, <1>4, Listing
  <1>7. R \subseteq Entity
    BY <1>3, <1>5
  <1>8. cat \in Seq(Entity)
    BY <1>6, <1>7
  <1>9. \A x, y \in R : x.metric = y.metric => x = y
    BY <1>3, <1>5
  <1>10. \A x \in R : x.metric # Blank /\ x.field # Blank
    BY <1>3, <1>5
  <1>11. {Identity(e) : e \in ToSet(cat)} = Overlay
    <2>1. ToSet(cat) = R
      BY <1>6 DEF ToSet
    <2>2. ASSUME NEW x \in R PROVE Identity(x) \in Overlay
      <3>1. PICK k \in DOMAIN m : Enabled(m[k]) /\ x = m[k]
        BY <1>5
      <3>2. k # Blank /\ Counted(k) # {} /\ Enabled(Latest(Counted(k))) /\ Identity(x) = OverlayOf(k)
        BY <1>3, <3>1
      <3>3. k \in {e.metric : e \in ToSet(Said)}
        <4>1. PICK i \in Counted(k) : TRUE
          BY <3>2
        <4>2. i \in DOMAIN Said /\ Said[i].metric = k
          BY DEF Counted
        <4>3. QED
          BY <4>2 DEF ToSet
      <3>4. QED
        BY <3>2, <3>3 DEF Overlay
    <2>3. ASSUME NEW o \in Overlay PROVE \E x \in R : o = Identity(x)
      <3>1. PICK k : k # Blank /\ Counted(k) # {} /\ Enabled(Latest(Counted(k))) /\ o = OverlayOf(k)
        BY DEF Overlay
      <3>2. k \in DOMAIN m /\ Enabled(m[k]) /\ o = Identity(m[k])
        BY <1>3, <3>1
      <3>3. QED
        BY <1>5, <3>2
    <2>4. QED
      BY <2>1, <2>2, <2>3
  <1>12. QED
    BY <1>6, <1>8, <1>9, <1>10, <1>11

-----------------------------------------------------------------------------
(* ParseCatalogYAML                                                        *)

LEMMA SameIdentities ==
    ASSUME NEW s, NEW t, DOMAIN s = DOMAIN t,
           \A i \in DOMAIN s : Identity(s[i]) = Identity(t[i])
    PROVE  {Identity(e) : e \in ToSet(s)} = {Identity(e) : e \in ToSet(t)}
  <1>1. \A x : x \in {Identity(e) : e \in ToSet(s)} <=> \E i \in DOMAIN s : x = Identity(s[i])
    BY DEF ToSet
  <1>2. \A x : x \in {Identity(e) : e \in ToSet(t)} <=> \E i \in DOMAIN t : x = Identity(t[i])
    BY DEF ToSet
  <1>3. QED
    BY <1>1, <1>2

\* An explicit scale of one is the same factor.
LEMMA NormalizedFacts ==
    ASSUME NEW cat \in Seq(Entity)
    PROVE  /\ Normalized(cat) \in Seq(Entity)
           /\ DOMAIN Normalized(cat) = DOMAIN cat
           /\ \A i \in DOMAIN cat : Normalized(cat)[i].metric = cat[i].metric
           /\ {Identity(e) : e \in ToSet(Normalized(cat))} = {Identity(e) : e \in ToSet(cat)}
  <1> DEFINE new == Normalized(cat)
  <1>1. DOMAIN new = DOMAIN cat
    BY DEF Normalized
  <1>2. ASSUME NEW i \in DOMAIN cat
        PROVE  /\ new[i] \in Entity /\ new[i].metric = cat[i].metric
               /\ Identity(new[i]) = Identity(cat[i])
    <2> DEFINE e == cat[i]
               one == 1
               d == [e EXCEPT !.scale = one]
    <2>1. e \in Entity
      OBVIOUS
    <2>2. new[i] = IF e.scale <= 0 THEN d ELSE e
      BY DEF Normalized
    <2>one. one \in Int /\ one = 1
      OBVIOUS
    <2> HIDE DEF e, new, one
    <2>3. /\ d \in Entity /\ d.metric = e.metric /\ d.prom = e.prom /\ d.field = e.field
          /\ d.scale = one
      BY <2>1, <2>one, WithScale
    <2> HIDE DEF d
    <2>4. e.scale <= 0 => Factor(d.scale) = Factor(e.scale)
      BY <2>1, <2>one, <2>3 DEF Factor, Entity
    <2>5. e.scale <= 0 => Identity(d) = Identity(e)
      BY <2>3, <2>4 DEF Identity
    <2>6. QED
      BY <2>1, <2>2, <2>3, <2>5 DEF e
  <1>3. new = [i \in DOMAIN cat |-> new[i]] /\ Len(cat) \in Nat /\ DOMAIN cat = 1..Len(cat)
    BY DEF Normalized
  <1> HIDE DEF new
  <1>4. new \in Seq(Entity)
    BY <1>1, <1>2, <1>3
  <1>5. {Identity(e) : e \in ToSet(new)} = {Identity(e) : e \in ToSet(cat)}
    BY <1>1, <1>2, SameIdentities
  <1>6. QED
    BY <1>1, <1>2, <1>4, <1>5 DEF new

\* The catalog is what was asked for.
IsAsked(cat) ==
    /\ cat \in Seq(Entity)
    /\ {Identity(e) : e \in ToSet(cat)} = Asked
    /\ user.how = "merge" =>
          \A i, j \in DOMAIN cat : cat[i].metric = cat[j].metric => i = j

LEMMA DefaultIsAsked ==
    ASSUME Given, user.how = "none"
    PROVE  IsAsked(embedded)
  <1>1. Asked = {Identity(e) : e \in ToSet(embedded)}
    BY DEF Asked
  <1>2. QED
    BY <1>1 DEF IsAsked, Given, IsEmbedded

LEMMA OverwriteIsAsked ==
    ASSUME Given, user.how = "overwrite",
           NEW clean, clean = ElementsAt(user.entries, {i \in DOMAIN user.entries :
                                                          Enabled(user.entries[i])})
    PROVE  IsAsked(IF IsValid(clean) THEN Normalized(clean) ELSE embedded)
  <1> DEFINE K == {i \in DOMAIN user.entries : Enabled(user.entries[i])}
             C == {e \in ToSet(user.entries) : Enabled(e)}
             inOrder == C # {} /\ \A e \in C : Blank \notin {e.metric, e.prom, e.field}
  <1>1. user.entries \in Seq(Entity) /\ embedded \in Seq(Entity)
    BY DEF Given, IsEmbedded
  <1>2. K \in SUBSET DOMAIN user.entries
    OBVIOUS
  <1>3. \A x : x \in C <=> \E i \in K : x = user.entries[i]
    BY DEF ToSet
  <1>4. Asked = IF inOrder THEN {Identity(e) : e \in C}
                ELSE {Identity(e) : e \in ToSet(embedded)}
    BY DEF Asked
  <1>5. clean = ElementsAt(user.entries, K)
    OBVIOUS
  <1> HIDE DEF K
  <1>6. /\ clean \in Seq(Entity)
        /\ clean = <<>> <=> K = {}
        /\ \A k \in DOMAIN clean : \E i \in K : clean[k] = user.entries[i]
        /\ \A i \in K : \E k \in DOMAIN clean : clean[k] = user.entries[i]
    <2> DEFINE u == user.entries
    <2>1. u \in Seq(Entity) /\ K \in SUBSET DOMAIN u /\ clean = ElementsAt(u, K)
      BY <1>1, <1>2, <1>5
    <2> HIDE DEF u
    <2> DEFINE w == ElementsAt(u, K)
    <2>2. w \in Seq(Entity) /\ (w = <<>> <=> K = {})
      BY <2>1, Picked
    <2>3. /\ \A k \in DOMAIN w : \E i \in K : w[k] = u[i]
          /\ \A i \in K : \E k \in DOMAIN w : w[k] = u[i]
      BY <2>1, PickedElements
    <2>4. clean = w
      BY <2>1
    <2> HIDE DEF w
    <2>5. /\ clean \in Seq(Entity) /\ (clean = <<>> <=> K = {})
          /\ \A k \in DOMAIN clean : \E i \in K : clean[k] = u[i]
          /\ \A i \in K : \E k \in DOMAIN clean : clean[k] = u[i]
      BY ONLY <2>2, <2>3, <2>4
    <2>6. QED
      BY ONLY <2>5 DEF u
  <1>7. C = ToSet(clean)
    <2> HIDE DEF C
    <2>1. \A x : x \in ToSet(clean) <=> \E k \in DOMAIN clean : x = clean[k]
      BY DEF ToSet
    <2>2. ASSUME NEW x \in C PROVE x \in ToSet(clean)
      <3>1. PICK i \in K : x = user.entries[i]
        BY <1>3
      <3>2. QED
        BY <1>6, <2>1, <3>1
    <2>3. ASSUME NEW x \in ToSet(clean) PROVE x \in C
      <3>1. PICK k \in DOMAIN clean : x = clean[k]
        BY <2>1
      <3>2. QED
        BY <1>3, <1>6, <3>1
    <2>4. QED
      BY <2>2, <2>3
  <1>8. C # {} <=> K # {}
    BY <1>3
  <1>9. IsValid(clean) <=> inOrder
    <2>1. (\A e \in C : Blank \notin {e.metric, e.prom, e.field})
             <=> \A i \in DOMAIN clean : /\ clean[i].metric # Blank /\ clean[i].prom # Blank
                                         /\ clean[i].field # Blank
      BY <1>7 DEF ToSet
    <2> HIDE DEF C
    <2>2. QED
      BY <1>6, <1>8, <2>1 DEF IsValid
  <1> HIDE DEF inOrder, C
  <1>10. CASE inOrder
    BY <1>4, <1>6, <1>7, <1>9, <1>10, NormalizedFacts DEF IsAsked
  <1>11. CASE ~inOrder
    BY <1>1, <1>4, <1>9, <1>11 DEF IsAsked
  <1>12. QED
    BY <1>10, <1>11

LEMMA MergeIsAsked ==
    ASSUME Given, user.how = "merge", NEW merged \in MergedCatalogs(embedded, user.entries)
    PROVE  /\ IsAsked(Normalized(merged))
           /\ ~IsValid(merged) => Asked = {} \/ \E e \in Asked : e.prom = Blank
  <1>1. /\ merged \in Seq(Entity)
        /\ {Identity(e) : e \in ToSet(merged)} = Overlay
        /\ \A i \in DOMAIN merged : merged[i].metric # Blank /\ merged[i].field # Blank
        /\ \A i, j \in DOMAIN merged : merged[i].metric = merged[j].metric => i = j
    BY MergedIsOverlay
  <1>2. Asked = Overlay
    BY DEF Asked
  <1>3. IsAsked(Normalized(merged))
    BY <1>1, <1>2, NormalizedFacts DEF IsAsked
  <1>4. ASSUME ~IsValid(merged) PROVE Asked = {} \/ \E e \in Asked : e.prom = Blank
    <2>1. CASE merged = <<>>
      <3>1. ToSet(merged) = {}
        BY <2>1 DEF ToSet
      <3>2. QED
        BY <1>1, <1>2, <3>1
    <2>2. CASE merged # <<>>
      <3>1. PICK i \in DOMAIN merged : merged[i].prom = Blank
        BY <1>1, <1>4, <2>2 DEF IsValid
      <3>2. Identity(merged[i]) \in Asked
        BY <1>1, <1>2 DEF ToSet
      <3>3. Identity(merged[i]).prom = Blank
        BY <3>1 DEF Identity
      <3>4. QED
        BY <3>2, <3>3
    <2>3. QED
      BY <2>1, <2>2
  <1>5. QED
    BY <1>3, <1>4

-----------------------------------------------------------------------------
(* The selection                                                           *)

\* The first position a reference matches.
FirstOf(cat, ref) == SelectInSeq(cat, LAMBDA e : Matches(e, ref))

LEMMA FirstIs ==
    ASSUME NEW cat \in Seq(Entity), NEW ref
    PROVE  /\ FirstOf(cat, ref) # 0 =>
                 FirstOf(cat, ref) \in DOMAIN cat /\ Matches(cat[FirstOf(cat, ref)], ref)
           /\ (\E i \in DOMAIN cat : Matches(cat[i], ref)) => FirstOf(cat, ref) # 0
  <1> DEFINE N == Len(cat)
             I == {i \in 1..N : Matches(cat[i], ref)}
  <1>1. FirstOf(cat, ref) = IF I # {} THEN Min(I) ELSE 0
    BY DEF FirstOf, SelectInSeq
  <1>2. N \in Nat /\ DOMAIN cat = 1..N
    OBVIOUS
  <1>3. ASSUME I # {} PROVE Min(I) \in I
    <2> DEFINE S == {n \in Nat : n <= N => \A i \in I : ~(i <= n)}
    <2>1. PICK i \in I : \A j \in I : i <= j
      <3>1. CASE \A i \in I : \E j \in I : ~(i <= j)
        <4>1. I \in SUBSET (1..N) /\ \A i \in I : i \in Int /\ i <= N
          BY <1>2
        <4>2. 0 \in S
          BY <4>1
        <4>3. ASSUME NEW n \in Nat, n \in S PROVE n + 1 \in S
          <5> SUFFICES ASSUME n + 1 <= N, NEW i \in I, i <= n + 1 PROVE FALSE
            OBVIOUS
          <5>1. ~(i <= n)
            BY <1>2, <4>3
          <5>2. i = n + 1
            BY <4>1, <5>1
          <5>3. PICK j \in I : ~(i <= j)
            BY <3>1
          <5>4. j <= n
            BY <4>1, <5>2, <5>3
          <5>5. QED
            BY <1>2, <4>3, <5>4
        <4> HIDE DEF I
        <4>4. N \in S
          <5> HIDE DEF S
          <5>1. QED
            BY <1>2, <4>2, <4>3, InductionOverNat
        <4>5. \A i \in I : ~(i <= N)
          BY <1>2, <4>4
        <4>6. QED
          BY <1>3, <4>1, <4>5
      <3>2. QED
        BY <3>1
    <2> HIDE DEF I
    <2>2. QED
      BY <2>1 DEF Min
  <1>4. QED
    BY <1>1, <1>2, <1>3

LEMMA KeptIs ==
    ASSUME NEW cat, NEW refs
    PROVE  Kept(cat, refs) = {FirstOf(cat, refs[r]) : r \in DOMAIN refs} \ {0}
  BY DEF Kept, FirstOf

\* What a selection is: entities of the catalog, each matched by a reference, for
\* every reference that matches one that it matches, and no more than references.
LEMMA FilterFacts ==
    ASSUME NEW cat \in Seq(Entity), NEW refs \in Seq(STRING),
           NEW sel, sel = FilterEntitiesByFields(cat, refs)
    PROVE  /\ sel \in Seq(Entity)
           /\ \A k \in DOMAIN sel :
                 \E i \in DOMAIN cat, r \in DOMAIN refs :
                     Identity(sel[k]) = Identity(cat[i]) /\ Matches(cat[i], refs[r])
           /\ \A r \in DOMAIN refs, j \in DOMAIN cat :
                 Matches(cat[j], refs[r]) =>
                     \E k \in DOMAIN sel, i \in DOMAIN cat :
                         Identity(sel[k]) = Identity(cat[i]) /\ Matches(cat[i], refs[r])
           /\ Len(sel) <= Cardinality(ToSet(refs))
  <1> DEFINE K == Kept(cat, refs)
             kept == ElementsAt(cat, K)
  <1>1. \A i : i \in K <=> i # 0 /\ \E r \in DOMAIN refs : i = FirstOf(cat, refs[r])
    BY KeptIs
  <1> HIDE DEF K
  <1>2. ASSUME NEW i \in K PROVE i \in DOMAIN cat /\ \E r \in DOMAIN refs : Matches(cat[i], refs[r])
    <2>1. PICK r \in DOMAIN refs : i = FirstOf(cat, refs[r]) /\ i # 0
      BY <1>1
    <2>2. QED
      BY <2>1, FirstIs
  <1>3. K \in SUBSET DOMAIN cat
    BY <1>2
  <1>4. /\ kept \in Seq(Entity) /\ Len(kept) = Cardinality(K) /\ DOMAIN kept = 1..Len(kept)
        /\ Len(kept) \in Nat
    BY <1>3, Picked
  <1>5. /\ \A k \in DOMAIN kept : \E i \in K : kept[k] = cat[i]
        /\ \A i \in K : \E k \in DOMAIN kept : kept[k] = cat[i]
    BY <1>3, PickedElements
  <1>6. sel = [k \in DOMAIN kept |-> [kept[k] EXCEPT !.disabled = FALSE]]
    BY DEF FilterEntitiesByFields, K
  <1> HIDE DEF kept
  <1>7. ASSUME NEW k \in DOMAIN kept
        PROVE  sel[k] \in Entity /\ Identity(sel[k]) = Identity(kept[k])
    <2> DEFINE e == kept[k]
               d == [e EXCEPT !.disabled = FALSE]
    <2>1. e \in Entity /\ sel[k] = d
      BY <1>4, <1>6
    <2> HIDE DEF e
    <2>2. d \in Entity /\ d.metric = e.metric /\ d.prom = e.prom /\ d.field = e.field
          /\ d.scale = e.scale
      BY <2>1 DEF Entity
    <2> HIDE DEF d
    <2>3. QED
      BY <2>1, <2>2 DEF Identity, e
  <1>8. DOMAIN sel = DOMAIN kept /\ sel = [k \in DOMAIN kept |-> sel[k]]
    BY <1>6
  <1> DEFINE n == Len(kept)
  <1>9. sel \in Seq(Entity) /\ Len(sel) = n
    <2>1. DOMAIN kept = 1..n /\ n \in Nat
      BY <1>4
    <2> HIDE DEF n
    <2>2. QED
      BY <1>7, <1>8, <2>1
  <1>10. ASSUME NEW k \in DOMAIN sel
         PROVE  \E i \in DOMAIN cat, r \in DOMAIN refs :
                    Identity(sel[k]) = Identity(cat[i]) /\ Matches(cat[i], refs[r])
    <2>1. PICK i \in K : kept[k] = cat[i]
      BY <1>5, <1>8
    <2>2. Identity(sel[k]) = Identity(cat[i])
      BY <1>7, <1>8, <2>1
    <2>3. QED
      BY <1>2, <2>2
  <1>11. ASSUME NEW r \in DOMAIN refs, NEW j \in DOMAIN cat, Matches(cat[j], refs[r])
         PROVE  \E k \in DOMAIN sel, i \in DOMAIN cat :
                    Identity(sel[k]) = Identity(cat[i]) /\ Matches(cat[i], refs[r])
    <2> DEFINE i == FirstOf(cat, refs[r])
    <2>1. i # 0 /\ i \in DOMAIN cat /\ Matches(cat[i], refs[r])
      BY <1>11, FirstIs
    <2>2. i \in K
      BY <1>1, <2>1
    <2> HIDE DEF i
    <2>3. PICK k \in DOMAIN kept : kept[k] = cat[i]
      BY <1>5, <2>2
    <2>4. Identity(sel[k]) = Identity(cat[i]) /\ k \in DOMAIN sel
      BY <1>7, <1>8, <2>3
    <2>5. QED
      BY <2>1, <2>4
  <1>12. Len(sel) <= Cardinality(ToSet(refs))
    <2> DEFINE D == DOMAIN refs
               T == ToSet(refs)
               F == {FirstOf(cat, x) : x \in T}
               f == [r \in D |-> refs[r]]
               g == [x \in T |-> FirstOf(cat, x)]
    <2>1. IsFiniteSet(D)
      <3> DEFINE m == Len(refs)
      <3>1. m \in Nat /\ D = 1..m
        OBVIOUS
      <3> HIDE DEF m, D
      <3>2. QED
        BY <3>1, FS_Interval
    <2>2. f \in Surjection(D, T)
      BY DEF Surjection, ToSet
    <2> HIDE DEF f
    <2>3. K \subseteq F
      BY <1>1 DEF ToSet
    <2> HIDE DEF D, T
    <2>4. IsFiniteSet(T)
      BY <2>1, <2>2, FS_Surjection
    <2>5. g \in Surjection(T, F)
      BY DEF Surjection
    <2> HIDE DEF g, F
    <2>6. IsFiniteSet(F) /\ Cardinality(F) <= Cardinality(T) /\ Cardinality(T) \in Nat
      BY <2>4, <2>5, FS_Surjection, FS_CardinalityType
    <2>7. IsFiniteSet(K) /\ Cardinality(K) <= Cardinality(F) /\ Cardinality(K) \in Nat
          /\ Cardinality(F) \in Nat
      BY <2>3, <2>6, FS_Subset, FS_CardinalityType
    <2>8. Cardinality(K) <= Cardinality(T)
      BY <2>6, <2>7
    <2>9. QED
      BY <1>4, <1>9, <2>8 DEF T
  <1>13. QED
    BY <1>9, <1>10, <1>11, <1>12

-----------------------------------------------------------------------------
(* Registration                                                            *)

\* The gauges h after n definitions: each is one of them, no two have a name in
\* common, none is missing.
GaugesSay(h, defs, n) ==
    /\ \A f \in DOMAIN h : \E i \in 1..n : defs[i].id = f /\ h[f] = defs[i]
    /\ \A f, e \in DOMAIN h : h[f].name = h[e].name => f = e
    /\ \A i \in 1..n : defs[i].id \in DOMAIN h

\* What is wrong with n definitions: a bad name or one that two fields share.
Clash(defs, n) ==
    \E i \in 1..n :
        \/ defs[i].name \notin ValidNames
        \/ \E j \in 1..n : defs[i].name = defs[j].name /\ defs[i].id # defs[j].id

StepSays(g, defs, n) ==
    \/ \E h : g = [ok |-> TRUE, gauges |-> h] /\ GaugesSay(h, defs, n)
    \/ \E h : g = [ok |-> FALSE, gauges |-> h] /\ Clash(defs, n)

LEMMA RegisterStepSays ==
    ASSUME NEW defs, NEW n \in Nat, NEW g, StepSays(g, defs, n)
    PROVE  StepSays(RegisterStep(g, defs[n + 1]), defs, n + 1)
  <1> DEFINE d == defs[n + 1]
             new == RegisterStep(g, d)
  <1>1. /\ (\A i \in 1..n : i \in 1..(n + 1)) /\ n + 1 \in 1..(n + 1)
        /\ \A i \in 1..(n + 1) : i \in 1..n \/ i = n + 1
    OBVIOUS
  <1>2. ASSUME NEW h, g = [ok |-> FALSE, gauges |-> h], Clash(defs, n)
        PROVE  StepSays(new, defs, n + 1)
    <2>1. new = [ok |-> FALSE, gauges |-> h]
      BY <1>2 DEF RegisterStep
    <2> HIDE DEF new
    <2>2. Clash(defs, n + 1)
      BY <1>1, <1>2 DEF Clash
    <2>3. QED
      BY <2>1, <2>2 DEF StepSays
  <1>3. ASSUME NEW h, g = [ok |-> TRUE, gauges |-> h], GaugesSay(h, defs, n)
        PROVE  StepSays(new, defs, n + 1)
    <2> DEFINE h2 == [f \in DOMAIN h \cup {d.id} |-> IF f = d.id THEN d ELSE h[f]]
               bad == d.name \notin ValidNames \/ \E f \in DOMAIN h : h[f].name = d.name
    <2>0. d = defs[n + 1]
      OBVIOUS
    <2>1. new = IF d.id \in DOMAIN h THEN g
                ELSE IF bad THEN [ok |-> FALSE, gauges |-> h] ELSE [ok |-> TRUE, gauges |-> h2]
      <3>1. g.ok = TRUE /\ g.gauges = h
        BY <1>3
      <3>2. new = IF d.id \in DOMAIN h THEN g
                  ELSE IF bad THEN [g EXCEPT !.ok = FALSE] ELSE [g EXCEPT !.gauges = h2]
        BY <3>1 DEF RegisterStep
      <3> HIDE DEF bad, h2, new
      <3>3. ASSUME new = [g EXCEPT !.ok = FALSE] PROVE new = [ok |-> FALSE, gauges |-> h]
        BY <1>3, <3>3
      <3>4. ASSUME new = [g EXCEPT !.gauges = h2] PROVE new = [ok |-> TRUE, gauges |-> h2]
        BY <1>3, <3>4
      <3>5. QED
        BY <3>2, <3>3, <3>4
    <2>2. CASE d.id \in DOMAIN h
      <3>1. GaugesSay(h, defs, n + 1)
        BY <1>1, <1>3, <2>2 DEF GaugesSay
      <3>2. new = [ok |-> TRUE, gauges |-> h]
        BY <1>3, <2>1, <2>2
      <3> HIDE DEF new
      <3>3. QED
        BY <3>1, <3>2 DEF StepSays
    <2>3. CASE d.id \notin DOMAIN h /\ bad
      <3>1. new = [ok |-> FALSE, gauges |-> h]
        BY <2>1, <2>3
      <3> HIDE DEF new
      <3>2. CASE d.name \notin ValidNames
        <4>1. Clash(defs, n + 1)
          BY <1>1, <3>2 DEF Clash
        <4>2. QED
          BY <3>1, <4>1 DEF StepSays
      <3>3. CASE \E f \in DOMAIN h : h[f].name = d.name
        <4>1. PICK f \in DOMAIN h : h[f].name = d.name
          BY <3>3
        <4>2. PICK i \in 1..n : defs[i].id = f /\ h[f] = defs[i]
          BY <1>3 DEF GaugesSay
        <4>3. /\ i \in 1..(n + 1) /\ n + 1 \in 1..(n + 1)
              /\ defs[i].name = defs[n + 1].name /\ defs[i].id # defs[n + 1].id
          BY <1>1, <2>3, <4>1, <4>2
        <4>4. Clash(defs, n + 1)
          BY <4>3 DEF Clash
        <4>5. QED
          BY <3>1, <4>4 DEF StepSays
      <3>4. QED
        BY <2>3, <3>2, <3>3
    <2>4. CASE d.id \notin DOMAIN h /\ ~bad
      <3>1. new = [ok |-> TRUE, gauges |-> h2]
        BY <2>1, <2>4
      <3>2. /\ DOMAIN h2 = DOMAIN h \cup {d.id} /\ h2[d.id] = d
            /\ \A f \in DOMAIN h : f # d.id /\ h2[f] = h[f]
        BY <2>4
      <3>3. \A f \in DOMAIN h : h[f].name # d.name
        BY <2>4
      <3> HIDE DEF new, h2, d
      <3>4. \A f \in DOMAIN h2 : \E i \in 1..(n + 1) : defs[i].id = f /\ h2[f] = defs[i]
        BY <1>1, <1>3, <2>0, <3>2 DEF GaugesSay
      <3>5. \A f, e \in DOMAIN h2 : h2[f].name = h2[e].name => f = e
        BY <1>3, <3>2, <3>3 DEF GaugesSay
      <3>6. \A i \in 1..(n + 1) : defs[i].id \in DOMAIN h2
        BY <1>1, <1>3, <2>0, <3>2 DEF GaugesSay
      <3>7. GaugesSay(h2, defs, n + 1)
        BY <3>4, <3>5, <3>6 DEF GaugesSay
      <3>8. QED
        BY <3>1, <3>7 DEF StepSays
    <2>5. QED
      BY <2>2, <2>3, <2>4
  <1>4. QED
    BY <1>2, <1>3 DEF StepSays

LEMMA RegisteredSays ==
    ASSUME NEW defs, Len(defs) \in Nat
    PROVE  StepSays(Registered(defs)[Len(defs)], defs, Len(defs))
  <1> DEFINE N == Len(defs)
             g(n) == Registered(defs)[n]
             S == {n \in Nat : n <= N => StepSays(g(n), defs, n)}
  <1>1. \A n \in 0..N : g(n) = IF n = 0 THEN [ok |-> TRUE, gauges |-> <<>>]
                               ELSE RegisterStep(g(n - 1), defs[n])
    BY RegisteredIs
  <1> HIDE DEF g
  <1>2. 0 \in S
    <2> DEFINE h == <<>>
    <2>1. g(0) = [ok |-> TRUE, gauges |-> h] /\ DOMAIN h = {} /\ 1..0 = {}
      BY <1>1
    <2> HIDE DEF h
    <2>2. GaugesSay(h, defs, 0)
      BY <2>1 DEF GaugesSay
    <2>3. StepSays(g(0), defs, 0)
      BY <2>1, <2>2 DEF StepSays
    <2>4. QED
      BY <2>3
  <1>3. ASSUME NEW n \in Nat, n \in S PROVE n + 1 \in S
    <2> SUFFICES ASSUME n + 1 <= N PROVE StepSays(g(n + 1), defs, n + 1)
      OBVIOUS
    <2>1. n + 1 \in 0..N /\ n + 1 # 0 /\ (n + 1) - 1 = n /\ n <= N
      OBVIOUS
    <2>2. g(n + 1) = RegisterStep(g(n), defs[n + 1])
      BY <1>1, <2>1
    <2>3. QED
      BY <1>3, <2>1, <2>2, RegisterStepSays
  <1>4. N \in S
    <2> HIDE DEF S
    <2>1. QED
      BY <1>2, <1>3, InductionOverNat
  <1>5. QED
    BY <1>4 DEF g

\* NewService keeps a definition of each field.
LEMMA ByFieldFacts ==
    ASSUME NEW defs, Len(defs) \in Nat, DOMAIN defs = 1..Len(defs)
    PROVE  /\ \A f : f \in DOMAIN DefinitionsByField(defs) <=> \E i \in DOMAIN defs : defs[i].id = f
           /\ \A f \in DOMAIN DefinitionsByField(defs) :
                 \E i \in DOMAIN defs : defs[i].id = f /\ DefinitionsByField(defs)[f] = defs[i]
  <1>1. \A f : f \in DOMAIN DefinitionsByField(defs) <=> \E i \in DOMAIN defs : defs[i].id = f
    BY DEF DefinitionsByField
  <1>2. ASSUME NEW f \in DOMAIN DefinitionsByField(defs)
        PROVE  \E i \in DOMAIN defs : defs[i].id = f /\ DefinitionsByField(defs)[f] = defs[i]
    <2> DEFINE K == {i \in 1..Len(defs) : defs[i].id = f}
    <2>1. K # {} /\ K \in SUBSET (1..Len(defs))
      BY <1>1
    <2>2. SelectLastInSeq(defs, LAMBDA d : d.id = f) = IF K # {} THEN Max(K) ELSE 0
      BY DEF SelectLastInSeq
    <2>3. DefinitionsByField(defs)[f] = defs[SelectLastInSeq(defs, LAMBDA d : d.id = f)]
      BY DEF DefinitionsByField
    <2>4. \A i \in K : i \in DOMAIN defs /\ defs[i].id = f /\ i \in Int
      OBVIOUS
    <2> DEFINE last == SelectLastInSeq(defs, LAMBDA d : d.id = f)
               new == DefinitionsByField(defs)[f]
    <2>5. last = IF K # {} THEN Max(K) ELSE 0
      BY <2>2
    <2>6. new = defs[last]
      BY <2>3
    <2> HIDE DEF K, last, new
    <2>7. PICK i \in K : \A j \in K : j <= i
      BY <2>1, LastPosition
    <2>8. \A j \in K : i >= j
      BY <2>4, <2>7
    <2>9. Max(K) \in K
      BY <2>7, <2>8 DEF Max
    <2>10. new = defs[last] /\ last \in K
      BY <2>1, <2>5, <2>6, <2>9
    <2>11. QED
      BY <2>4, <2>10 DEF new
  <1>3. QED
    BY <1>1, <1>2

-----------------------------------------------------------------------------
(* What each stage hands on                                                *)

IsDefined ==
    /\ \A i \in DOMAIN selected : IsFieldID(selected[i].field)
    /\ definitions = [i \in DOMAIN selected |-> DefinitionOf(selected[i])]

Configured ==
    /\ header \in Headers /\ user \in Users /\ flags \in Flags /\ file \in Files
    /\ pc \in {"generate", "parse", "file", "filter", "define", "register",
               "serve", "failed"}

Parsed ==
    /\ IsEmbedded(embedded)
    /\ catalog \in Seq(Entity)
    /\ pc \in {"file", "filter", "define", "register", "serve"} => IsAsked(catalog)

Chosen ==
    /\ pc \in {"filter", "define", "register", "serve"} =>
          fields = References /\ fields \in Seq(STRING)
    /\ selected \in Seq(Entity)
    /\ pc \in {"define", "register", "serve"} =>
          selected = FilterEntitiesByFields(catalog, fields)

Defined ==
    /\ pc \in {"generate", "parse", "file", "filter", "define"} => definitions = <<>>
    /\ definitions = <<>> \/ IsDefined
    /\ pc \in {"register", "serve"} => IsDefined
    /\ \A i \in DOMAIN rdcFields : rdcFields[i] \in 0..MaxFieldID

Serving ==
    /\ pc # "serve" => gauges = <<>> /\ byField = <<>>
    /\ pc = "serve" =>
          /\ rdcFields = [i \in DOMAIN definitions |-> NewFieldIDFromInt(definitions[i].id)]
          /\ GaugesSay(gauges, definitions, Len(definitions))
          /\ byField = DefinitionsByField(definitions)

\* Each stage's result, in terms of the one before, and no failure without a
\* reason.
IInv == Configured /\ Parsed /\ Chosen /\ Defined /\ Serving /\ UsableStarts

\* What was asked for does not change under way.
LEMMA AskedIsFixed ==
    ASSUME user' = user, embedded' = embedded
    PROVE  Asked' = Asked
  <1>1. Said' = Said
    BY DEF Said
  <1>2. \A m : Counted(m)' = Counted(m)
    BY <1>1 DEF Counted
  <1>3. \A K : Latest(K)' = Latest(K)
    BY <1>1 DEF Latest
  <1>4. \A m : OverlayOf(m)' = OverlayOf(m)
    BY <1>1, <1>2, <1>3 DEF OverlayOf
  <1>5. Overlay' = Overlay
    BY <1>1, <1>2, <1>3, <1>4 DEF Overlay
  <1>6. QED
    BY <1>5 DEF Asked

LEMMA ReferencesAreFixed ==
    ASSUME UNCHANGED <<user, flags, file, embedded>>
    PROVE  References' = References /\ Candidates' = Candidates
  <1>1. References' = References
    BY DEF References
  <1>2. Asked' = Asked
    BY AskedIsFixed
  <1>3. QED
    BY <1>1, <1>2 DEF Candidates

IdOf(e)   == Atoi[e.field]
NameOf(e) == IF e.prom = Blank THEN ToPromName(IdOf(e)) ELSE e.prom

\* What may keep a configuration from starting.
MayFail ==
    \/ EnumLines(header) = <<>>
    \/ user.how = "unreadable" \/ file = Unreadable
    \/ Candidates = {}
    \/ user.how = "merge" /\ \E e \in Asked : e.prom = Blank
    \/ \E e \in Candidates : ~IsFieldID(e.field)
    \/ \E e \in Candidates : NameOf(e) \notin ValidNames
    \/ \E e, d \in Candidates : NameOf(e) = NameOf(d) /\ IdOf(e) # IdOf(d)

LEMMA UsableMeans == UsableStarts <=> (pc = "failed" => MayFail)
  BY DEF UsableStarts, MayFail, NameOf, IdOf

LEMMA MayFailIsFixed ==
    ASSUME UNCHANGED <<config, embedded>>
    PROVE  MayFail' <=> MayFail
  <1>1. header' = header /\ user' = user /\ file' = file
    BY DEF config
  <1>2. Asked' = Asked /\ Candidates' = Candidates
    BY AskedIsFixed, ReferencesAreFixed DEF config
  <1>3. QED
    BY <1>1, <1>2 DEF MayFail

LEMMA GivenHolds == Configured /\ Parsed => Given
  BY ConfigurationAssumption DEF Configured, Parsed, Given

LEMMA ReferencesAreTexts ==
    ASSUME Configured, file # Unreadable
    PROVE  References \in Seq(STRING)
  <1> DEFINE K == {i \in DOMAIN file : file[i] \in STRING \ {Blank}}
             lines == ElementsIn(file, STRING \ {Blank})
             all == flags \o lines
  <1>1. file \in Seq(STRING) /\ flags \in Seq(STRING) /\ DefaultFields \in Seq(STRING)
    BY ConfigurationAssumption DEF Configured
  <1>2. lines \in Seq(STRING)
    <2>1. lines = ElementsAt(file, K) /\ K \in SUBSET DOMAIN file
      BY DEF ElementsIn
    <2> HIDE DEF lines, K
    <2>2. QED
      BY <1>1, <2>1, Picked
  <1>3. References = IF all = <<>> THEN DefaultFields ELSE all
    BY DEF References
  <1> HIDE DEF lines
  <1>4. all \in Seq(STRING)
    BY <1>1, <1>2, ConcatProperties
  <1> HIDE DEF all
  <1>5. QED
    BY <1>1, <1>3, <1>4

LEMMA DefinitionFacts ==
    ASSUME NEW e \in Entity, IsFieldID(e.field)
    PROVE  /\ DefinitionOf(e) \in Definition
           /\ DefinitionOf(e).id = IdOf(Identity(e))
           /\ DefinitionOf(e).name = NameOf(Identity(e))
           /\ DefinitionOf(e).scale = e.scale
  <1>1. /\ e.field \in DOMAIN Atoi /\ e.prom \in STRING /\ e.scale \in Int
        /\ ToPromName(Atoi[e.field]) \in STRING
    BY NamesAreTexts DEF Entity
  <1>2. Atoi[e.field] \in Nat
    BY <1>1, TextsAssumption DEF IsFieldID
  <1>3. QED
    BY <1>1, <1>2 DEF DefinitionOf, Definition, IdOf, NameOf, Identity

LEMMA MatchesIdentity == \A e, r : Matches(Identity(e), r) <=> Matches(e, r)
  BY DEF Matches, Identity

\* Every entity of the catalog that a reference matches is a candidate, and the
\* selected ones are.
LEMMA CandidateFacts ==
    ASSUME IsAsked(catalog), fields = References
    PROVE  /\ \A i \in DOMAIN catalog, r \in DOMAIN fields :
                 Matches(catalog[i], fields[r]) => Identity(catalog[i]) \in Candidates
           /\ \A e \in Asked, r \in ToSet(References) : Matches(e, r) =>
                 \E i \in DOMAIN catalog, n \in DOMAIN fields :
                     e = Identity(catalog[i]) /\ r = fields[n] /\ Matches(catalog[i], fields[n])
  <1>1. \A x : x \in Asked <=> \E i \in DOMAIN catalog : x = Identity(catalog[i])
    <2>1. Asked = {Identity(e) : e \in ToSet(catalog)}
      BY DEF IsAsked
    <2>2. QED
      BY <2>1 DEF ToSet
  <1>2. \A r : r \in ToSet(References) <=> \E n \in DOMAIN fields : r = fields[n]
    BY DEF ToSet
  <1>3. ASSUME NEW i \in DOMAIN catalog, NEW r \in DOMAIN fields, Matches(catalog[i], fields[r])
        PROVE  Identity(catalog[i]) \in Candidates
    <2>1. /\ Identity(catalog[i]) \in Asked /\ fields[r] \in ToSet(References)
          /\ Matches(Identity(catalog[i]), fields[r])
      BY <1>1, <1>2, <1>3, MatchesIdentity
    <2>2. QED
      BY <2>1 DEF Candidates
  <1>4. ASSUME NEW e \in Asked, NEW r \in ToSet(References), Matches(e, r)
        PROVE  \E i \in DOMAIN catalog, n \in DOMAIN fields :
                   e = Identity(catalog[i]) /\ r = fields[n] /\ Matches(catalog[i], fields[n])
    <2>1. PICK i \in DOMAIN catalog : e = Identity(catalog[i])
      BY <1>1
    <2>2. PICK n \in DOMAIN fields : r = fields[n]
      BY <1>2
    <2>3. Matches(catalog[i], fields[n])
      BY <1>4, <2>1, <2>2, MatchesIdentity
    <2>4. QED
      BY <2>1, <2>2, <2>3
  <1>5. QED
    BY <1>3, <1>4

-----------------------------------------------------------------------------
(* The stages                                                              *)

LEMMA InitIInv == Init => IInv
  <1> SUFFICES ASSUME Init PROVE IInv
    OBVIOUS
  <1>1. <<>> \in Seq(Entity) /\ DOMAIN <<>> = {}
    OBVIOUS
  <1>2. IsEmbedded(<<>>)
    BY <1>1 DEF IsEmbedded
  <1>3. QED
    BY <1>1, <1>2 DEF Init, IInv, Configured, Parsed, Chosen, Defined, Serving, UsableStarts

LEMMA GenerateIInv == IInv /\ Generate => IInv'
  <1> SUFFICES ASSUME IInv, Generate PROVE IInv'
    OBVIOUS
  <1>1. /\ pc = "generate" /\ UNCHANGED <<config, catalog, fields, selected, definitions,
                                          gauges, byField, rdcFields>>
    BY DEF Generate
  <1>2. \/ EnumLines(header) = <<>> /\ pc' = "failed" /\ embedded' = embedded
        \/ pc' = "parse" /\ \E cat \in Generated(header) : embedded' = Curate(cat)
    BY DEF Generate
  <1>3. pc' \in {"failed", "parse"}
    BY <1>2
  <1>4. Configured'
    BY <1>1, <1>3 DEF IInv, Configured, config
  <1>5. IsEmbedded(embedded')
    BY <1>2, GeneratedIsEmbedded DEF IInv, Configured, Parsed
  <1>6. Parsed'
    BY <1>1, <1>3, <1>5 DEF IInv, Parsed
  <1>7. Chosen' /\ Defined' /\ Serving'
    BY <1>1, <1>3 DEF IInv, Chosen, Defined, IsDefined, Serving
  <1>8. UsableStarts'
    <2>1. pc' = "failed" => EnumLines(header') = <<>>
      BY <1>1, <1>2 DEF config
    <2>2. (pc = "failed" => MayFail)'
      BY <2>1 DEF MayFail
    <2>3. QED
      BY <2>2 DEF UsableStarts, MayFail, NameOf, IdOf
  <1>9. QED
    BY <1>4, <1>6, <1>7, <1>8 DEF IInv

\* What the stages that produce a catalog have in common.
LEMMA ParseIInv ==
    ASSUME IInv, pc = "parse", pc' \in {"file", "failed"}, catalog' \in Seq(Entity),
           pc' = "file" => IsAsked(catalog'), pc' = "failed" => MayFail,
           UNCHANGED <<config, embedded, fields, selected, definitions,
                       gauges, byField, rdcFields>>
    PROVE  IInv'
  <1>1. Configured'
    BY DEF IInv, Configured, config
  <1>2. Asked' = Asked /\ user' = user
    BY AskedIsFixed DEF config
  <1>3. IsAsked(catalog') => IsAsked(catalog)'
    BY <1>2 DEF IsAsked
  <1>4. Parsed'
    BY <1>3 DEF IInv, Parsed
  <1>5. Chosen' /\ Defined' /\ Serving'
    BY DEF IInv, Chosen, Defined, IsDefined, Serving
  <1>6. (pc = "failed" => MayFail)'
    BY MayFailIsFixed
  <1>7. UsableStarts'
    BY <1>6 DEF UsableStarts, MayFail, NameOf, IdOf
  <1>8. QED
    BY <1>1, <1>4, <1>5, <1>7 DEF IInv

LEMMA ParseActionsIInv ==
    IInv /\ (ParseDefault \/ ParseUnreadable \/ ParseOverwrite \/ ParseMerge) => IInv'
  <1> SUFFICES ASSUME IInv, ParseDefault \/ ParseUnreadable \/ ParseOverwrite \/ ParseMerge
               PROVE  IInv'
    OBVIOUS
  <1>1. Given /\ catalog \in Seq(Entity) /\ embedded \in Seq(Entity)
    BY GivenHolds DEF IInv, Given, IsEmbedded, Parsed
  <1>2. CASE ParseDefault
    <2>1. IsAsked(catalog')
      BY <1>1, <1>2, DefaultIsAsked DEF ParseDefault
    <2>2. QED
      BY <1>2, <2>1, ParseIInv DEF ParseDefault, IsAsked
  <1>3. CASE ParseUnreadable
    <2>1. MayFail
      BY <1>3 DEF ParseUnreadable, MayFail
    <2>2. QED
      BY <1>1, <1>3, <2>1, ParseIInv DEF ParseUnreadable
  <1>4. CASE ParseOverwrite
    <2> DEFINE clean == ElementsAt(user.entries, {i \in DOMAIN user.entries :
                                                    Enabled(user.entries[i])})
    <2>1. catalog' = IF IsValid(clean) THEN Normalized(clean) ELSE embedded
      BY <1>4 DEF ParseOverwrite
    <2>2. IsAsked(IF IsValid(clean) THEN Normalized(clean) ELSE embedded)
      BY <1>1, <1>4, OverwriteIsAsked DEF ParseOverwrite
    <2> HIDE DEF clean
    <2>3. IsAsked(catalog')
      BY <2>1, <2>2
    <2>4. QED
      BY <1>4, <2>3, ParseIInv DEF ParseOverwrite, IsAsked
  <1>5. CASE ParseMerge
    <2>1. PICK merged \in MergedCatalogs(embedded, user.entries) :
             IF IsValid(merged)
             THEN catalog' = Normalized(merged) /\ pc' = "file"
             ELSE pc' = "failed" /\ UNCHANGED catalog
      BY <1>5 DEF ParseMerge
    <2>2. IsAsked(Normalized(merged))
      BY <1>1, <1>5, MergeIsAsked DEF ParseMerge
    <2>3. ~IsValid(merged) => MayFail
      <3>1. ~IsValid(merged) => Asked = {} \/ \E e \in Asked : e.prom = Blank
        BY <1>1, <1>5, MergeIsAsked DEF ParseMerge
      <3>2. Asked = {} => Candidates = {}
        BY DEF Candidates
      <3>3. user.how = "merge"
        BY <1>5 DEF ParseMerge
      <3>4. QED
        BY <3>1, <3>2, <3>3 DEF MayFail
    <2>4. CASE IsValid(merged)
      BY <1>5, <2>1, <2>2, <2>4, ParseIInv DEF ParseMerge, IsAsked
    <2>5. CASE ~IsValid(merged)
      BY <1>1, <1>5, <2>1, <2>3, <2>5, ParseIInv DEF ParseMerge
    <2>6. QED
      BY <2>4, <2>5
  <1>6. QED
    BY <1>2, <1>3, <1>4, <1>5

LEMMA ReadFieldsFileIInv == IInv /\ ReadFieldsFile => IInv'
  <1> SUFFICES ASSUME IInv, ReadFieldsFile PROVE IInv'
    OBVIOUS
  <1>1. /\ pc = "file" /\ UNCHANGED <<config, embedded, catalog, selected, definitions,
                                      gauges, byField, rdcFields>>
    BY DEF ReadFieldsFile
  <1>2. /\ Asked' = Asked /\ References' = References
        /\ header' = header /\ user' = user /\ flags' = flags /\ file' = file
    BY <1>1, AskedIsFixed, ReferencesAreFixed DEF config
  <1>3. \/ file = Unreadable /\ pc' = "failed"
        \/ file # Unreadable /\ pc' = "filter" /\ fields' = References
    BY DEF ReadFieldsFile, References
  <1>4. Configured'
    BY <1>2, <1>3 DEF IInv, Configured
  <1>5. Parsed'
    BY <1>1, <1>2, <1>3 DEF IInv, Parsed, IsAsked
  <1>6. Chosen'
    BY <1>1, <1>2, <1>3, ReferencesAreTexts DEF IInv, Chosen
  <1>7. Defined' /\ Serving'
    BY <1>1, <1>3 DEF IInv, Defined, IsDefined, Serving
  <1>8. UsableStarts'
    <2>1. (pc = "failed" => MayFail)'
      BY <1>2, <1>3 DEF MayFail
    <2>2. QED
      BY <2>1 DEF UsableStarts, MayFail, NameOf, IdOf
  <1>9. QED
    BY <1>4, <1>5, <1>6, <1>7, <1>8 DEF IInv

LEMMA FilterIInv == IInv /\ Filter => IInv'
  <1> SUFFICES ASSUME IInv, Filter PROVE IInv'
    OBVIOUS
  <1>1. /\ pc = "filter" /\ UNCHANGED <<config, embedded, catalog, fields, definitions,
                                        gauges, byField, rdcFields>>
        /\ selected' = FilterEntitiesByFields(catalog, fields)
        /\ pc' = IF selected' = <<>> THEN "failed" ELSE "define"
    BY DEF Filter
  <1>2. /\ Asked' = Asked /\ References' = References
        /\ header' = header /\ user' = user /\ flags' = flags /\ file' = file
    BY <1>1, AskedIsFixed, ReferencesAreFixed DEF config
  <1>3. /\ catalog \in Seq(Entity) /\ IsAsked(catalog)
        /\ fields = References /\ fields \in Seq(STRING)
    BY <1>1 DEF IInv, Parsed, Chosen
  <1>4. /\ selected' \in Seq(Entity)
        /\ \A r \in DOMAIN fields, j \in DOMAIN catalog :
              Matches(catalog[j], fields[r]) => \E k \in DOMAIN selected' : TRUE
    BY <1>1, <1>3, FilterFacts
  <1>5. Configured'
    BY <1>1, <1>2 DEF IInv, Configured
  <1>6. Parsed'
    BY <1>1, <1>2, <1>3 DEF IInv, Parsed, IsAsked
  <1>7. Chosen'
    BY <1>1, <1>2, <1>3, <1>4 DEF Chosen
  <1>8. Defined' /\ Serving'
    <2>1. definitions = <<>>
      BY <1>1 DEF IInv, Defined
    <2>2. QED
      BY <1>1, <2>1 DEF IInv, Defined, Serving
  <1>9. UsableStarts'
    <2>1. ASSUME selected' = <<>> PROVE Candidates = {}
      <3>1. \A r \in DOMAIN fields, j \in DOMAIN catalog : ~Matches(catalog[j], fields[r])
        BY <1>4, <2>1
      <3>2. QED
        BY <1>3, <3>1, CandidateFacts DEF Candidates
    <2>2. pc' = "failed" => MayFail
      BY <1>1, <2>1 DEF MayFail
    <2>3. (pc = "failed" => MayFail)'
      BY <1>1, <2>2, MayFailIsFixed
    <2>4. QED
      BY <2>3 DEF UsableStarts, MayFail, NameOf, IdOf
  <1>10. QED
    BY <1>5, <1>6, <1>7, <1>8, <1>9 DEF IInv

LEMMA SelectedAreCandidates ==
    ASSUME IInv, pc \in {"define", "register", "serve"}
    PROVE  \A k \in DOMAIN selected : selected[k] \in Entity /\ Identity(selected[k]) \in Candidates
  <1>1. /\ catalog \in Seq(Entity) /\ IsAsked(catalog)
        /\ fields = References /\ fields \in Seq(STRING)
        /\ selected = FilterEntitiesByFields(catalog, fields) /\ selected \in Seq(Entity)
    BY DEF IInv, Parsed, Chosen
  <1>2. \A k \in DOMAIN selected :
           \E i \in DOMAIN catalog, r \in DOMAIN fields :
               Identity(selected[k]) = Identity(catalog[i]) /\ Matches(catalog[i], fields[r])
    BY <1>1, FilterFacts
  <1>3. QED
    BY <1>1, <1>2, CandidateFacts

LEMMA DefinitionsIInv == IInv /\ DefinitionsFromEntities => IInv'
  <1> SUFFICES ASSUME IInv, DefinitionsFromEntities PROVE IInv'
    OBVIOUS
  <1>1. /\ pc = "define" /\ UNCHANGED <<config, embedded, catalog, fields, selected,
                                        gauges, byField, rdcFields>>
    BY DEF DefinitionsFromEntities
  <1>2. /\ Asked' = Asked /\ References' = References
        /\ header' = header /\ user' = user /\ flags' = flags /\ file' = file
    BY <1>1, AskedIsFixed, ReferencesAreFixed DEF config
  <1>3. \/ /\ \A i \in DOMAIN selected : IsFieldID(selected[i].field)
           /\ definitions' = [i \in DOMAIN selected |-> DefinitionOf(selected[i])]
           /\ pc' = "register"
        \/ /\ \E i \in DOMAIN selected : ~IsFieldID(selected[i].field)
           /\ pc' = "failed" /\ definitions' = definitions
    BY DEF DefinitionsFromEntities
  <1>4. Configured'
    BY <1>2, <1>3 DEF IInv, Configured
  <1>5. Parsed'
    BY <1>1, <1>2, <1>3 DEF IInv, Parsed, IsAsked
  <1>6. Chosen'
    BY <1>1, <1>2, <1>3 DEF IInv, Chosen
  <1>7. Defined'
    BY <1>1, <1>3 DEF IInv, Defined, IsDefined
  <1>8. Serving'
    BY <1>1, <1>3 DEF IInv, Serving
  <1>9. UsableStarts'
    <2>1. ASSUME NEW i \in DOMAIN selected, ~IsFieldID(selected[i].field) PROVE MayFail
      <3>1. Identity(selected[i]) \in Candidates
        BY <1>1, SelectedAreCandidates
      <3>2. ~IsFieldID(Identity(selected[i]).field)
        BY <2>1 DEF Identity
      <3>3. QED
        BY <3>1, <3>2 DEF MayFail
    <2>2. pc' = "failed" => MayFail
      BY <1>3, <2>1
    <2>3. (pc = "failed" => MayFail)'
      BY <1>1, <2>2, MayFailIsFixed
    <2>4. QED
      BY <2>3 DEF UsableStarts, MayFail, NameOf, IdOf
  <1>10. QED
    BY <1>4, <1>5, <1>6, <1>7, <1>8, <1>9 DEF IInv

\* The definitions, each of a selected entity.
LEMMA DefinedFacts ==
    ASSUME IInv, IsDefined
    PROVE  /\ Len(definitions) \in Nat /\ DOMAIN definitions = 1..Len(definitions)
           /\ DOMAIN definitions = DOMAIN selected
           /\ \A i \in DOMAIN definitions :
                 /\ definitions[i] \in Definition
                 /\ definitions[i].id = IdOf(Identity(selected[i]))
                 /\ definitions[i].name = NameOf(Identity(selected[i]))
                 /\ definitions[i].scale = selected[i].scale
  <1> DEFINE n == Len(selected)
             d == definitions
  <1>1. selected \in Seq(Entity) /\ n \in Nat /\ DOMAIN selected = 1..n
    BY DEF IInv, Chosen
  <1>2. d = [i \in DOMAIN selected |-> DefinitionOf(selected[i])]
    BY DEF IsDefined
  <1>3. ASSUME NEW i \in DOMAIN selected
        PROVE  /\ d[i] \in Definition
               /\ d[i].id = IdOf(Identity(selected[i]))
               /\ d[i].name = NameOf(Identity(selected[i]))
               /\ d[i].scale = selected[i].scale
    <2>1. selected[i] \in Entity /\ IsFieldID(selected[i].field)
      BY <1>1 DEF IsDefined
    <2>2. d[i] = DefinitionOf(selected[i])
      BY <1>2
    <2> HIDE DEF d
    <2>3. QED
      BY <2>1, <2>2, DefinitionFacts
  <1>4. DOMAIN d = 1..n /\ Len(d) = n
    <2> HIDE DEF n
    <2>1. QED
      BY <1>1, <1>2
  <1>5. QED
    BY <1>1, <1>3, <1>4

LEMMA RegisterIInv == IInv /\ Register => IInv'
  <1> SUFFICES ASSUME IInv, Register PROVE IInv'
    OBVIOUS
  <1> DEFINE N == Len(definitions)
             new == Registered(definitions)[N]
  <1>1. /\ pc = "register"
        /\ UNCHANGED <<config, embedded, catalog, fields, selected, definitions>>
        /\ rdcFields' = [i \in DOMAIN definitions |-> NewFieldIDFromInt(definitions[i].id)]
        /\ IF new.ok
           THEN /\ gauges' = new.gauges /\ byField' = DefinitionsByField(definitions)
                /\ pc' = "serve"
           ELSE pc' = "failed" /\ UNCHANGED <<gauges, byField>>
    BY DEF Register
  <1>2. /\ Asked' = Asked /\ References' = References
        /\ header' = header /\ user' = user /\ flags' = flags /\ file' = file
    BY <1>1, AskedIsFixed, ReferencesAreFixed DEF config
  <1>3. IsDefined
    BY <1>1 DEF IInv, Defined
  <1>4. StepSays(new, definitions, N)
    BY <1>3, DefinedFacts, RegisteredSays
  <1>5. \/ /\ pc' = "serve" /\ GaugesSay(gauges', definitions, N)
           /\ byField' = DefinitionsByField(definitions)
        \/ /\ pc' = "failed" /\ Clash(definitions, N) /\ gauges' = gauges /\ byField' = byField
    <2> HIDE DEF new
    <2>1. CASE \E h : new = [ok |-> TRUE, gauges |-> h] /\ GaugesSay(h, definitions, N)
      BY <1>1, <2>1
    <2>2. CASE \E h : new = [ok |-> FALSE, gauges |-> h] /\ Clash(definitions, N)
      BY <1>1, <2>2
    <2>3. QED
      BY <1>4, <2>1, <2>2 DEF StepSays
  <1> HIDE DEF new
  <1>6. Configured'
    BY <1>2, <1>5 DEF IInv, Configured
  <1>7. Parsed'
    BY <1>1, <1>2, <1>5 DEF IInv, Parsed, IsAsked
  <1>8. Chosen'
    BY <1>1, <1>2, <1>5 DEF IInv, Chosen
  <1>9. Defined'
    <2>1. \A i \in DOMAIN rdcFields' : rdcFields'[i] \in 0..MaxFieldID
      BY <1>1, FieldIDFits
    <2>2. IsDefined'
      BY <1>1, <1>3 DEF IsDefined
    <2>3. QED
      BY <1>5, <2>1, <2>2 DEF Defined
  <1>10. Serving'
    BY <1>1, <1>5 DEF IInv, Serving
  <1>11. UsableStarts'
    <2>1. ASSUME Clash(definitions, N) PROVE MayFail
      <3>1. ASSUME NEW i \in 1..N
            PROVE  /\ Identity(selected[i]) \in Candidates
                   /\ definitions[i].id = IdOf(Identity(selected[i]))
                   /\ definitions[i].name = NameOf(Identity(selected[i]))
        BY <1>1, <1>3, DefinedFacts, SelectedAreCandidates
      <3>2. PICK i \in 1..N :
               \/ definitions[i].name \notin ValidNames
               \/ \E j \in 1..N : definitions[i].name = definitions[j].name
                                  /\ definitions[i].id # definitions[j].id
        BY <2>1 DEF Clash
      <3>3. QED
        BY <3>1, <3>2 DEF MayFail
    <2>2. pc' = "failed" => MayFail
      BY <1>5, <2>1
    <2>3. (pc = "failed" => MayFail)'
      BY <1>1, <2>2, MayFailIsFixed
    <2>4. QED
      BY <2>3 DEF UsableStarts, MayFail, NameOf, IdOf
  <1>12. QED
    BY <1>6, <1>7, <1>8, <1>9, <1>10, <1>11 DEF IInv

LEMMA StutterIInv == IInv /\ UNCHANGED vars => IInv'
  <1> SUFFICES ASSUME IInv, UNCHANGED vars PROVE IInv'
    OBVIOUS
  <1>1. /\ Asked' = Asked /\ References' = References
        /\ header' = header /\ user' = user /\ flags' = flags /\ file' = file
        /\ UNCHANGED <<config, pc, embedded, catalog, fields, selected, definitions, gauges,
                       byField, rdcFields>>
    BY AskedIsFixed, ReferencesAreFixed DEF config, vars
  <1>2. Configured' /\ Parsed' /\ Chosen' /\ Defined' /\ Serving'
    BY <1>1 DEF IInv, Configured, Parsed, IsAsked, Chosen, Defined, IsDefined, Serving
  <1>3. (pc = "failed" => MayFail)'
    BY <1>1, MayFailIsFixed, UsableMeans DEF IInv
  <1>4. UsableStarts'
    BY <1>3 DEF UsableStarts, MayFail, NameOf, IdOf
  <1>5. QED
    BY <1>2, <1>4 DEF IInv

\* Whatever the configuration, each stage hands on what it should.
THEOREM Inductive == Spec => []IInv
  <1>1. IInv /\ [Next]_vars => IInv'
    BY GenerateIInv, ParseActionsIInv, ReadFieldsFileIInv, FilterIInv, DefinitionsIInv,
       RegisterIInv, StutterIInv DEF Next, Ended
  <1>2. QED
    BY InitIInv, <1>1, PTL DEF Spec

-----------------------------------------------------------------------------
(* What follows                                                            *)

LEMMA InvTypeOK == IInv => TypeOK
  <1> SUFFICES ASSUME IInv PROVE TypeOK
    OBVIOUS
  <1>1. \A s \in {embedded, catalog, selected} : \A i \in DOMAIN s : s[i] \in Entity
    BY DEF IInv, Parsed, Chosen, IsEmbedded
  <1>2. \A i \in DOMAIN definitions : definitions[i] \in Definition
    <2>1. CASE definitions = <<>>
      BY <2>1
    <2>2. CASE IsDefined
      BY <2>2, DefinedFacts
    <2>3. QED
      BY <2>1, <2>2 DEF IInv, Defined
  <1>3. /\ \A f \in DOMAIN gauges : gauges[f] \in Definition /\ gauges[f].id = f
        /\ \A f \in DOMAIN byField : byField[f] \in Definition /\ byField[f].id = f
    <2>1. CASE pc # "serve"
      BY <2>1 DEF IInv, Serving
    <2>2. CASE pc = "serve"
      <3>1. /\ GaugesSay(gauges, definitions, Len(definitions))
            /\ byField = DefinitionsByField(definitions)
            /\ Len(definitions) \in Nat /\ DOMAIN definitions = 1..Len(definitions)
        BY <2>2, DefinedFacts DEF IInv, Serving, Defined
      <3>2. \A f \in DOMAIN byField :
               \E i \in DOMAIN definitions : definitions[i].id = f /\ byField[f] = definitions[i]
        BY <3>1, ByFieldFacts
      <3>3. QED
        BY <1>2, <3>1, <3>2 DEF GaugesSay
    <2>3. QED
      BY <2>1, <2>2
  <1>4. QED
    BY <1>1, <1>2, <1>3 DEF IInv, Configured, Defined, TypeOK

\* Every variable keeps its type: no definition, gauge or field number is ever
\* anything but what the next stage expects (main, catalog.Parse, prommetric.New,
\* NewService).
THEOREM TypeCorrect == Spec => []TypeOK
  BY Inductive, InvTypeOK, PTL

\* The catalog ParseCatalogYAML returns is what the configuration asks for,
\* whatever the order in which Go iterates over the merged map: field by field the
\* last word, nothing of a disabled metric, each metric once.
THEOREM MergeIsTheOverlay == Spec => []CatalogAsAsked
  <1>1. IInv => CatalogAsAsked
    BY DEF IInv, Parsed, IsAsked, CatalogAsAsked
  <1>2. QED
    BY Inductive, <1>1, PTL

LEMMA InvSelection == IInv => SelectionIsTheReferences
  <1> SUFFICES ASSUME IInv, pc = "define" PROVE SelectionIsTheReferences
    BY DEF SelectionIsTheReferences
  <1> DEFINE sel == {Identity(e) : e \in ToSet(selected)}
             refs == ToSet(References)
             M(r) == {e \in Asked : Matches(e, r)}
  <1>1. /\ catalog \in Seq(Entity) /\ IsAsked(catalog)
        /\ fields = References /\ fields \in Seq(STRING)
        /\ selected = FilterEntitiesByFields(catalog, fields)
    BY DEF IInv, Parsed, Chosen
  <1>2. \A x : x \in sel <=> \E k \in DOMAIN selected : x = Identity(selected[k])
    BY DEF ToSet
  <1>3. \A x : x \in Asked <=> \E i \in DOMAIN catalog : x = Identity(catalog[i])
    <2>1. Asked = {Identity(e) : e \in ToSet(catalog)}
      BY <1>1 DEF IsAsked
    <2>2. QED
      BY <2>1 DEF ToSet
  <1>4. \A x : x \in refs <=> \E r \in DOMAIN fields : x = fields[r]
    BY <1>1 DEF ToSet
  <1>5. /\ \A k \in DOMAIN selected :
              \E i \in DOMAIN catalog, r \in DOMAIN fields :
                  Identity(selected[k]) = Identity(catalog[i]) /\ Matches(catalog[i], fields[r])
        /\ \A r \in DOMAIN fields, j \in DOMAIN catalog :
              Matches(catalog[j], fields[r]) =>
                  \E k \in DOMAIN selected, i \in DOMAIN catalog :
                      Identity(selected[k]) = Identity(catalog[i]) /\ Matches(catalog[i], fields[r])
        /\ Len(selected) <= Cardinality(ToSet(fields))
    BY <1>1, FilterFacts
  <1> HIDE DEF sel, refs
  <1>6. ASSUME NEW r \in refs, M(r) # {} PROVE M(r) \cap sel # {}
    <2>1. PICK e \in Asked : Matches(e, r)
      BY <1>6
    <2>2. PICK j \in DOMAIN catalog, n \in DOMAIN fields :
             r = fields[n] /\ Matches(catalog[j], fields[n])
      BY <1>1, <2>1, CandidateFacts DEF refs
    <2>3. PICK k \in DOMAIN selected, i \in DOMAIN catalog :
             Identity(selected[k]) = Identity(catalog[i]) /\ Matches(catalog[i], fields[n])
      BY <1>5, <2>2
    <2>4. /\ Identity(catalog[i]) \in Asked /\ Identity(catalog[i]) \in sel
          /\ Matches(Identity(catalog[i]), r)
      BY <1>2, <1>3, <2>2, <2>3, MatchesIdentity
    <2>5. QED
      BY <2>4
  <1>7. ASSUME NEW r \in refs, Cardinality(M(r)) = 1 PROVE M(r) \subseteq sel
    <2>1. IsFiniteSet(Asked)
      <3> DEFINE n == Len(catalog)
                 f == [i \in 1..n |-> Identity(catalog[i])]
      <3>1. n \in Nat /\ DOMAIN catalog = 1..n
        BY <1>1
      <3>2. f \in Surjection(1..n, Asked)
        BY <1>3, <3>1 DEF Surjection
      <3> HIDE DEF n, f
      <3>3. IsFiniteSet(1..n)
        BY <3>1, FS_Interval
      <3>4. QED
        BY <3>2, <3>3, FS_Surjection
    <2>2. IsFiniteSet(M(r))
      BY <2>1, FS_Subset
    <2> DEFINE m == M(r)
    <2>3. m \cap sel # {} \/ m = {}
      BY <1>6
    <2>4. IsFiniteSet(m) /\ Cardinality(m) = 1
      BY <1>7, <2>2
    <2> HIDE DEF m
    <2>5. \E x : m = {x}
      BY <2>4, FS_Singleton
    <2>6. m \subseteq sel
      BY <2>3, <2>5
    <2>7. QED
      BY <2>6 DEF m
  <1>8. ASSUME NEW e \in sel PROVE \E r \in refs : e \in M(r)
    <2>1. PICK k \in DOMAIN selected : e = Identity(selected[k])
      BY <1>2
    <2>2. PICK i \in DOMAIN catalog, n \in DOMAIN fields :
             Identity(selected[k]) = Identity(catalog[i]) /\ Matches(catalog[i], fields[n])
      BY <1>5
    <2>3. e \in Asked /\ Matches(e, fields[n]) /\ fields[n] \in refs
      BY <1>3, <1>4, <2>1, <2>2, MatchesIdentity
    <2>4. QED
      BY <2>3
  <1>9. Len(selected) <= Cardinality(refs)
    BY <1>1, <1>5 DEF refs
  <1>10. QED
    BY <1>6, <1>7, <1>8, <1>9 DEF SelectionIsTheReferences, sel, refs

\* A reference that matches a metric selects one it matches, and its only match if
\* it has one only; nothing else is selected, and no more than one metric per
\* reference (FilterEntitiesByFields).
THEOREM SelectionFollows == Spec => []SelectionIsTheReferences
  BY Inductive, InvSelection, PTL

LEMMA InvOwnName == IInv => EachUnderItsOwnName
  <1> SUFFICES ASSUME IInv, pc = "serve",
                      NEW k \in DOMAIN selected,
                      \A s \in ToSet(selected) :
                         Atoi[s.field] = IdOf(Identity(selected[k])) => Identity(s) = Identity(selected[k])
               PROVE  Shown(NameOf(Identity(selected[k])))
                         = IF IdOf(Identity(selected[k])) <= MaxFieldID
                           THEN {<<IdOf(Identity(selected[k])), Identity(selected[k]).factor>>}
                           ELSE {}
    <2>1. \A e \in {Identity(s) : s \in ToSet(selected)} :
             \E k \in DOMAIN selected : e = Identity(selected[k])
      BY DEF ToSet
    <2>2. QED
      BY <2>1 DEF EachUnderItsOwnName, NameOf, IdOf
  <1> DEFINE e == Identity(selected[k])
             id == IdOf(e)
             name == NameOf(e)
             N == Len(definitions)
             F == {f \in {rdcFields[i] : i \in DOMAIN rdcFields} :
                      f \in DOMAIN byField \cap DOMAIN gauges /\ gauges[f].name = name}
  <1>1. /\ IsDefined
        /\ rdcFields = [i \in DOMAIN definitions |-> NewFieldIDFromInt(definitions[i].id)]
        /\ GaugesSay(gauges, definitions, N)
        /\ byField = DefinitionsByField(definitions)
    BY DEF IInv, Defined, Serving
  <1>2. /\ N \in Nat /\ DOMAIN definitions = 1..N /\ DOMAIN selected = 1..N
        /\ \A i \in 1..N : /\ definitions[i].id \in Nat
                           /\ definitions[i].id = IdOf(Identity(selected[i]))
                           /\ definitions[i].name = NameOf(Identity(selected[i]))
                           /\ definitions[i].scale = selected[i].scale
    BY <1>1, DefinedFacts DEF Definition
  <1>3. /\ \A f : f \in DOMAIN byField <=> \E i \in 1..N : definitions[i].id = f
        /\ \A f \in DOMAIN byField : \E i \in 1..N : definitions[i].id = f /\ byField[f] = definitions[i]
    <2> DEFINE d == definitions
               b == DefinitionsByField(d)
    <2>1. Len(d) \in Nat /\ DOMAIN d = 1..Len(d)
      BY <1>2
    <2> HIDE DEF d
    <2>2. /\ \A f : f \in DOMAIN b <=> \E i \in DOMAIN d : d[i].id = f
          /\ \A f \in DOMAIN b : \E i \in DOMAIN d : d[i].id = f /\ b[f] = d[i]
      BY <2>1, ByFieldFacts
    <2>3. byField = b
      BY <1>1 DEF d
    <2> HIDE DEF b
    <2>4. QED
      BY <2>1, <2>2, <2>3 DEF d
  <1>4. \A i \in 1..N : definitions[i].id = id => Identity(selected[i]) = e
    <2>1. \A i \in 1..N : selected[i] \in ToSet(selected)
      BY <1>2 DEF ToSet
    <2>2. \A i \in 1..N : IdOf(Identity(selected[i])) = Atoi[selected[i].field]
      BY DEF IdOf, Identity
    <2>3. QED
      BY <1>2, <2>1, <2>2
  <1>5. id \in DOMAIN gauges /\ gauges[id].name = name
    <2>1. definitions[k].id = id /\ k \in 1..N
      BY <1>2
    <2>2. id \in DOMAIN gauges
      BY <1>1, <2>1 DEF GaugesSay
    <2>3. PICK i \in 1..N : definitions[i].id = id /\ gauges[id] = definitions[i]
      BY <1>1, <2>2 DEF GaugesSay
    <2>4. QED
      BY <1>2, <1>4, <2>2, <2>3
  <1>6. id \in DOMAIN byField /\ Factor(byField[id].scale) = e.factor
    <2>1. id \in DOMAIN byField
      BY <1>2, <1>3
    <2>2. PICK i \in 1..N : definitions[i].id = id /\ byField[id] = definitions[i]
      BY <1>3, <2>1
    <2>3. byField[id].scale = selected[i].scale /\ Identity(selected[i]) = e
      BY <1>2, <1>4, <2>2
    <2>4. Identity(selected[i]).factor = Factor(selected[i].scale)
      BY DEF Identity
    <2>5. QED
      BY <2>1, <2>3, <2>4
  <1>7. id \in Nat
    BY <1>2
  <1>max. MaxFieldID \in Nat
    BY DEF MaxFieldID
  <1> HIDE DEF e, id, name, N
  <1>8. \A f \in F : f = id
    BY <1>1, <1>5 DEF GaugesSay
  <1>9. id \in F <=> id <= MaxFieldID
    <2>1. ASSUME id <= MaxFieldID PROVE id \in F
      <3>1. id \in 0..MaxFieldID
        BY <1>7, <1>max, <2>1
      <3>2. NewFieldIDFromInt(id) = id
        BY <3>1 DEF NewFieldIDFromInt
      <3>3. PICK i \in 1..N : definitions[i].id = id
        BY <1>3, <1>6
      <3>4. i \in DOMAIN rdcFields /\ rdcFields[i] = id
        BY <1>1, <1>2, <3>2, <3>3
      <3>5. QED
        BY <1>5, <1>6, <3>4
    <2>2. ASSUME id \in F PROVE id <= MaxFieldID
      <3>1. PICK i \in DOMAIN rdcFields : rdcFields[i] = id
        BY <2>2
      <3>2. id \in 0..MaxFieldID
        BY <3>1 DEF IInv, Defined
      <3>3. QED
        BY <3>2, InRange
    <2>3. QED
      BY <2>1, <2>2
  <1>10. Shown(name) = {<<f, Factor(byField[f].scale)>> : f \in F}
    BY DEF Shown
  <1> HIDE DEF F
  <1>11. Shown(name) = IF id <= MaxFieldID THEN {<<id, e.factor>>} ELSE {}
    <2>1. CASE id <= MaxFieldID
      <3>1. F = {id}
        BY <1>8, <1>9, <2>1
      <3>2. QED
        BY <1>6, <1>10, <2>1, <3>1
    <2>2. CASE ~(id <= MaxFieldID)
      <3>1. F = {}
        BY <1>8, <1>9, <2>2
      <3>2. QED
        BY <1>10, <2>2, <3>1
    <2>3. QED
      BY <2>1, <2>2
  <1>12. QED
    BY <1>11 DEF e, id, name

\* What is selected does not disturb anything else that is: a metric whose field is
\* no other's is shown under its name with its own field and factor and nothing
\* else, and shows nothing if the field does not fit RDC's 16 bits
\* (NewFieldIDFromInt, prommetric.New, NewService).
THEOREM OwnNames == Spec => []EachUnderItsOwnName
  BY Inductive, InvOwnName, PTL

\* The exporter does not start only for a reason the user can see: no header, an
\* unreadable file, nothing selected, or a name or a number of a metric that is
\* asked for (main, LoadCatalog, FilterEntitiesByFields).
THEOREM UsableAlwaysStarts == Spec => []UsableStarts
  <1>1. IInv => UsableStarts
    BY DEF IInv
  <1>2. QED
    BY Inductive, <1>1, PTL

-----------------------------------------------------------------------------
(* The values C gives                                                      *)

Opens(hdr)  == {i \in DOMAIN hdr : hdr[i].kind = "open"}
Closes(hdr) == {i \in DOMAIN hdr : hdr[i].kind = "close"}
Ends(hdr)   == {i \in Closes(hdr) : hdr[i].name = "rdc_field_t"}

\* The enumerators of rdc_field_t are between positions b and e.
IsBlock(hdr, b, e) ==
    /\ b \in Opens(hdr) /\ e \in Ends(hdr) /\ b < e
    /\ \A i \in Opens(hdr) \cup Closes(hdr) : i <= b \/ i >= e
    /\ \A j \in Ends(hdr) : j = e
    /\ Enumerators(hdr)
          = ElementsAt(hdr, {i \in (b + 1)..(e - 1) : hdr[i].kind = "item"})

LEMMA BlockFacts ==
    ASSUME NEW L, NEW hdr \in Seq(L), IsC(hdr)
    PROVE  Enumerators(hdr) = <<>> \/ \E b, e : IsBlock(hdr, b, e)
  <1> DEFINE begin == {i \in Opens(hdr) : \E j \in Ends(hdr) :
                          i < j /\ \A k \in Opens(hdr) : k <= i \/ k > j}
             b == CHOOSE i \in begin : TRUE
             e == CHOOSE j \in Ends(hdr) : j > b
  <1>1. Enumerators(hdr)
           = IF begin = {} THEN <<>>
             ELSE ElementsAt(hdr, {i \in (b + 1)..(e - 1) : hdr[i].kind = "item"})
    <2>1. Ends(hdr) = {i \in DOMAIN hdr :
                             hdr[i].kind = "close" /\ hdr[i].name = "rdc_field_t"}
      BY DEF Ends, Closes
    <2>2. QED
      BY <2>1 DEF Enumerators, Opens
  <1>2. CASE begin = {}
    BY <1>1, <1>2
  <1>3. CASE begin # {}
    <2>0. Opens(hdr) \subseteq Int /\ Closes(hdr) \subseteq Int
          /\ Ends(hdr) \subseteq Closes(hdr)
      BY DEF Opens, Closes, Ends
    <2>1. b \in begin
      BY <1>3
    <2>2. PICK j \in Ends(hdr) : b < j /\ \A k \in Opens(hdr) : k <= b \/ k > j
      BY <2>1
    <2>3. \A i, k \in Ends(hdr) : i = k
      BY DEF IsC, Ends, Closes
    <2>4. e \in Ends(hdr) /\ e > b
      BY <2>0, <2>1, <2>2
    <2> HIDE DEF begin
    <2>5. b \in Opens(hdr)
      BY <2>1 DEF begin
    <2> HIDE DEF b, e
    <2>6. e = j /\ b < e
      BY <2>2, <2>3, <2>4
    <2>7. PICK i \in Opens(hdr) : i < e /\ \A k \in Closes(hdr) : k < i \/ k >= e
      BY <2>4 DEF IsC, Ends, Opens, Closes
    <2>8. \A x, y \in Opens(hdr) : x < y => \E k \in Closes(hdr) : x < k /\ k < y
      BY DEF IsC, Opens, Closes
    <2>9. i = b
      <3>1. ~(i < b)
        <4> SUFFICES ASSUME i < b PROVE FALSE
          OBVIOUS
        <4>1. PICK k \in Closes(hdr) : i < k /\ k < b
          BY <2>5, <2>7, <2>8
        <4>2. QED
          BY <2>0, <2>4, <2>5, <2>6, <2>7, <4>1
      <3>2. ~(b < i)
        BY <2>0, <2>2, <2>4, <2>5, <2>6, <2>7
      <3>3. QED
        BY <2>0, <2>5, <2>7, <3>1, <3>2
    <2>10. \A k \in Opens(hdr) \cup Closes(hdr) : k <= b \/ k >= e
      BY <2>0, <2>2, <2>4, <2>5, <2>6, <2>7, <2>9
    <2>11. IsBlock(hdr, b, e)
      BY <1>1, <1>3, <2>3, <2>4, <2>5, <2>6, <2>10 DEF IsBlock
    <2>12. QED
      BY <2>11
  <1>4. QED
    BY <1>2, <1>3

\* One line of the scan, by where it is.
LEMMA ScanLineIs ==
    ASSUME NEW c, NEW line
    PROVE  /\ ScanLine([inEnum |-> FALSE, found |-> FALSE, enumLines |-> c], line)
                 = [inEnum |-> (line.kind = "open"), found |-> FALSE, enumLines |-> c]
           /\ ScanLine([inEnum |-> TRUE, found |-> FALSE, enumLines |-> c], line)
                 = IF line.kind = "close"
                   THEN IF line.name = "rdc_field_t"
                        THEN [inEnum |-> TRUE, found |-> TRUE, enumLines |-> c]
                        ELSE [inEnum |-> FALSE, found |-> FALSE, enumLines |-> <<>>]
                   ELSE [inEnum |-> TRUE, found |-> FALSE, enumLines |-> Append(c, line)]
           /\ ScanLine([inEnum |-> TRUE, found |-> TRUE, enumLines |-> c], line)
                 = [inEnum |-> TRUE, found |-> TRUE, enumLines |-> c]
  <1> DEFINE r(a, f, l) == [inEnum |-> a, found |-> f, enumLines |-> l]
  <1>1. ASSUME NEW a, NEW f PROVE r(a, f, c).inEnum = a /\ r(a, f, c).found = f /\ r(a, f, c).enumLines = c
    OBVIOUS
  <1>2. ASSUME NEW x, x = [r(FALSE, FALSE, c) EXCEPT !.inEnum = (line.kind = "open")]
        PROVE  x = r((line.kind = "open"), FALSE, c)
    BY <1>2
  <1>3. ASSUME NEW x, x = [r(TRUE, FALSE, c) EXCEPT !.found = TRUE] PROVE x = r(TRUE, TRUE, c)
    BY <1>3
  <1>4. ASSUME NEW x, x = [r(TRUE, FALSE, c) EXCEPT !.inEnum = FALSE, !.enumLines = <<>>]
        PROVE  x = r(FALSE, FALSE, <<>>)
    BY <1>4
  <1>5. ASSUME NEW x, x = [r(TRUE, FALSE, c) EXCEPT !.enumLines = Append(@, line)]
        PROVE  x = r(TRUE, FALSE, Append(c, line))
    BY <1>5
  <1>6. QED
    BY <1>2, <1>3, <1>4, <1>5 DEF ScanLine

\* The lines between b and n.
IsPart(c, hdr, b, n) ==
    /\ c \in Seq(ToSet(hdr)) /\ Len(c) = n - b
    /\ \A m \in 1..(n - b) : c[m] = hdr[b + m]

\* The scan keeps the lines of the block, each once and no others.
LEMMA ScanFinds ==
    ASSUME NEW hdr, hdr \in Seq(ToSet(hdr)), IsC(hdr),
           NEW b, NEW e, IsBlock(hdr, b, e)
    PROVE  IsPart(EnumLines(hdr), hdr, b, e - 1)
  <1> DEFINE N == Len(hdr)
             s(n) == Scanned(hdr)[n]
             rec(a, f, c) == [inEnum |-> a, found |-> f, enumLines |-> c]
             before(n) == \/ s(n) = rec(FALSE, FALSE, <<>>)
                          \/ /\ \E c : s(n) = rec(TRUE, FALSE, c)
                             /\ \E i \in Opens(hdr) :
                                   i <= n /\ \A k \in Closes(hdr) : k <= i \/ k > n
             inside(n) == \E c : s(n) = rec(TRUE, FALSE, c) /\ IsPart(c, hdr, b, n)
             after(n)  == \E c : s(n) = rec(TRUE, TRUE, c) /\ IsPart(c, hdr, b, e - 1)
             says(n)   == /\ n < b => before(n)
                          /\ b <= n /\ n < e => inside(n)
                          /\ e <= n => after(n)
             S == {n \in Nat : n <= N => says(n)}
  <1>1. N \in Nat /\ DOMAIN hdr = 1..N
    OBVIOUS
  <1>2. \A n \in 0..N :
           s(n) = IF n = 0 THEN rec(FALSE, FALSE, <<>>) ELSE ScanLine(s(n - 1), hdr[n])
    BY <1>1, ScannedIs
  <1>3. /\ b \in 1..N /\ e \in 1..N /\ b < e
        /\ hdr[b].kind = "open" /\ hdr[e].kind = "close" /\ hdr[e].name = "rdc_field_t"
        /\ \A n \in 1..N : hdr[n].kind = "close" /\ hdr[n].name = "rdc_field_t" => n = e
        /\ \A n \in 1..N : b < n /\ n < e => hdr[n].kind # "open" /\ hdr[n].kind # "close"
    BY <1>1 DEF IsBlock, Opens, Closes, Ends
  <1>4. /\ \A i, k \in Opens(hdr) : i < k => \E j \in Closes(hdr) : i < j /\ j < k
        /\ Opens(hdr) \subseteq 1..N /\ Closes(hdr) \subseteq 1..N
        /\ \A n \in 1..N : /\ n \in Opens(hdr) <=> hdr[n].kind = "open"
                           /\ n \in Closes(hdr) <=> hdr[n].kind = "close"
    BY <1>1 DEF IsC, Opens, Closes
  <1> HIDE DEF s, N
  <1>5. 0 \in S
    <2>1. s(0) = rec(FALSE, FALSE, <<>>)
      BY <1>1, <1>2
    <2>2. before(0) /\ 0 < b
      BY <1>3, <2>1
    <2> HIDE DEF before, inside, after
    <2>20. says(0)
      BY <1>3, <2>2
    <2>3. QED
      BY <2>20
  <1> HIDE DEF rec, before, inside, after, says
  <1>6. ASSUME NEW n \in Nat, n \in S PROVE n + 1 \in S
    <2> SUFFICES ASSUME n + 1 <= N PROVE says(n + 1)
      OBVIOUS
    <2> DEFINE line == hdr[n + 1]
    <2>1. /\ n + 1 \in 1..N /\ n + 1 \in 0..N /\ (n + 1) - 1 = n /\ n + 1 # 0
          /\ b \in Int /\ e \in Int
      BY <1>1, <1>3
    <2>2. s(n + 1) = ScanLine(s(n), line)
      BY <1>2, <2>1
    <2>3. says(n)
      BY <1>1, <1>6, <2>1
    <2>4. \A c : /\ ScanLine(rec(FALSE, FALSE, c), line) = rec((line.kind = "open"), FALSE, c)
                 /\ ScanLine(rec(TRUE, FALSE, c), line)
                       = IF line.kind = "close"
                         THEN IF line.name = "rdc_field_t" THEN rec(TRUE, TRUE, c)
                              ELSE rec(FALSE, FALSE, <<>>)
                         ELSE rec(TRUE, FALSE, Append(c, line))
                 /\ ScanLine(rec(TRUE, TRUE, c), line) = rec(TRUE, TRUE, c)
      BY ScanLineIs DEF rec
    <2>5. line.kind \in {"open"} => (line.kind = "open") = TRUE
      OBVIOUS
    <2>6. line.kind # "open" => (line.kind = "open") = FALSE
      OBVIOUS
    <2> HIDE DEF line
    <2>7. CASE n < b
      <3>1. CASE s(n) = rec(FALSE, FALSE, <<>>)
        <4>1. CASE line.kind = "open"
          <5>1. s(n + 1) = rec(TRUE, FALSE, <<>>) /\ n + 1 \in Opens(hdr)
            BY <1>4, <2>1, <2>2, <2>4, <2>5, <3>1, <4>1 DEF line
          <5>2. CASE n + 1 = b
            <6>1. IsPart(<<>>, hdr, b, n + 1)
              BY <2>1, <5>2 DEF IsPart
            <6>2. inside(n + 1)
              BY <5>1, <6>1 DEF inside
            <6>3. QED
              BY <1>3, <2>1, <5>2, <6>2 DEF says
          <5>3. CASE n + 1 < b
            <6>1. \A k \in Closes(hdr) : k <= n + 1 \/ k > n + 1
              BY <1>4
            <6>2. \E i \in Opens(hdr) :
                     i <= n + 1 /\ \A k \in Closes(hdr) : k <= i \/ k > n + 1
              BY <2>1, <5>1, <6>1
            <6>3. before(n + 1)
              BY <5>1, <6>2 DEF before
            <6>4. QED
              BY <1>3, <2>1, <5>3, <6>3 DEF says
          <5>4. QED
            BY <2>1, <2>7, <5>2, <5>3
        <4>2. CASE line.kind # "open"
          <5>1. s(n + 1) = rec(FALSE, FALSE, <<>>) /\ n + 1 # b
            BY <1>3, <2>1, <2>2, <2>4, <2>6, <3>1, <4>2 DEF line
          <5>2. before(n + 1)
            BY <5>1 DEF before
          <5>3. n + 1 < b
            BY <2>1, <2>7, <5>1
          <5>4. QED
            BY <1>3, <2>1, <5>2, <5>3 DEF says
        <4>3. QED
          BY <4>1, <4>2
      <3>2. CASE /\ \E c : s(n) = rec(TRUE, FALSE, c)
                 /\ \E i \in Opens(hdr) :
                       i <= n /\ \A k \in Closes(hdr) : k <= i \/ k > n
        <4>1. PICK c : s(n) = rec(TRUE, FALSE, c)
          BY <3>2
        <4>2. PICK i \in Opens(hdr) : i <= n /\ \A k \in Closes(hdr) : k <= i \/ k > n
          BY <3>2
        <4>3. n + 1 < b
          <5>1. n + 1 # b
            <6> SUFFICES ASSUME n + 1 = b PROVE FALSE
              OBVIOUS
            <6>1. i < b /\ b \in Opens(hdr)
              BY <1>3, <1>4, <2>1, <4>2
            <6>2. PICK k \in Closes(hdr) : i < k /\ k < b
              BY <1>4, <6>1
            <6>3. k \in Int /\ i \in Int
              BY <1>4
            <6>4. QED
              BY <2>1, <4>2, <6>2, <6>3
          <5>2. QED
            BY <2>1, <2>7, <5>1
        <4>4. before(n + 1)
          <5>1. CASE line.kind = "close"
            <6>1. line.name # "rdc_field_t"
              BY <1>3, <2>1, <4>3, <5>1 DEF line
            <6>2. s(n + 1) = rec(FALSE, FALSE, <<>>)
              BY <2>2, <2>4, <4>1, <5>1, <6>1
            <6>3. QED
              BY <6>2 DEF before
          <5>2. CASE line.kind # "close"
            <6>1. s(n + 1) = rec(TRUE, FALSE, Append(c, line))
              BY <2>2, <2>4, <4>1, <5>2
            <6>2. n + 1 \notin Closes(hdr)
              BY <1>4, <2>1, <5>2 DEF line
            <6>3. i <= n + 1 /\ \A k \in Closes(hdr) : k <= i \/ k > n + 1
              BY <1>4, <2>1, <4>2, <6>2
            <6>4. QED
              BY <6>1, <6>3 DEF before
          <5>3. QED
            BY <5>1, <5>2
        <4>5. QED
          BY <1>3, <2>1, <4>3, <4>4 DEF says
      <3>3. before(n)
        BY <2>3, <2>7 DEF says
      <3>4. QED
        BY <3>1, <3>2, <3>3 DEF before
    <2>8. CASE b <= n /\ n < e
      <3>1. PICK c : s(n) = rec(TRUE, FALSE, c) /\ IsPart(c, hdr, b, n)
        BY <2>3, <2>8 DEF says, inside
      <3>2. CASE n + 1 = e
        <4>1. s(n + 1) = rec(TRUE, TRUE, c)
          BY <1>3, <2>2, <2>4, <3>1, <3>2 DEF line
        <4>2. e - 1 = n
          BY <2>1, <3>2
        <4>3. after(n + 1)
          BY <3>1, <4>1, <4>2 DEF after
        <4>4. QED
          BY <1>3, <2>1, <3>2, <4>3 DEF says
      <3>3. CASE n + 1 < e
        <4>1. line.kind # "close"
          BY <1>3, <2>1, <2>8, <3>3 DEF line
        <4>2. s(n + 1) = rec(TRUE, FALSE, Append(c, line))
          BY <2>2, <2>4, <3>1, <4>1
        <4>3. line \in ToSet(hdr) /\ line = hdr[n + 1]
          BY <1>1, <2>1 DEF line, ToSet
        <4>4. IsPart(Append(c, line), hdr, b, n + 1)
          <5> DEFINE d == Append(c, line)
          <5>1. c \in Seq(ToSet(hdr)) /\ Len(c) = n - b /\ \A m \in 1..(n - b) : c[m] = hdr[b + m]
            BY <3>1 DEF IsPart
          <5>2. d \in Seq(ToSet(hdr)) /\ Len(d) = (n - b) + 1 /\ d[(n - b) + 1] = line
                /\ \A m \in 1..(n - b) : d[m] = c[m]
            BY <4>3, <5>1
          <5> HIDE DEF d
          <5>3. (n + 1) - b = (n - b) + 1 /\ b + ((n - b) + 1) = n + 1 /\ n - b \in Nat
            BY <2>1, <2>8
          <5>4. ASSUME NEW m \in 1..((n + 1) - b) PROVE d[m] = hdr[b + m]
            <6>1. m \in 1..(n - b) \/ m = (n - b) + 1
              BY <5>3
            <6>2. QED
              BY <4>3, <5>1, <5>2, <5>3, <6>1
          <5>5. QED
            BY <5>2, <5>3, <5>4 DEF IsPart, d
        <4>5. inside(n + 1)
          BY <4>2, <4>4 DEF inside
        <4>6. QED
          BY <2>1, <2>8, <3>3, <4>5 DEF says
      <3>4. QED
        BY <2>1, <2>8, <3>2, <3>3
    <2>9. CASE e <= n
      <3>1. after(n)
        BY <2>3, <2>9 DEF says
      <3>2. after(n + 1)
        BY <2>2, <2>4, <3>1 DEF after
      <3>3. QED
        BY <1>3, <2>1, <2>9, <3>2 DEF says
    <2>10. QED
      BY <2>1, <2>7, <2>8, <2>9
  <1>7. N \in S
    <2> HIDE DEF S
    <2>1. QED
      BY <1>1, <1>5, <1>6, InductionOverNat
  <1>8. after(N)
    <2>1. says(N)
      BY <1>1, <1>7
    <2>2. QED
      BY <1>1, <1>3, <2>1 DEF says
  <1>9. EnumLines(hdr) = s(N).enumLines
    BY DEF EnumLines, s, N
  <1>10. \A c : rec(TRUE, TRUE, c).enumLines = c
    BY DEF rec
  <1>11. QED
    BY <1>8, <1>9, <1>10 DEF after


\* An alias refers to an earlier enumerator of that name.
LEMMA ReferredIs ==
    ASSUME NEW items, IsList(items), NEW i \in DOMAIN items, items[i].how = "reference"
    PROVE  /\ Referred(items, i) \in 1..(i - 1)
           /\ items[Referred(items, i)].name = items[i].arg
  BY DEF IsList, Referred

CValueStep(items, v, i) ==
    CASE items[i].how = "implicit"  -> IF i = 1 THEN 0 ELSE v[i - 1] + 1
      [] items[i].how = "number"    -> items[i].arg
      [] items[i].how = "reference" -> v[Referred(items, i)]

ReadableStep(items, r, i) ==
    /\ items[i].legible
    /\ CASE items[i].how = "implicit"  -> i = 1 \/ r[i - 1]
         [] items[i].how = "number"    -> TRUE
         [] items[i].how = "reference" -> r[Referred(items, i)]

\* The values C gives, one after the other.
LEMMA CValueIs ==
    ASSUME NEW items, NEW K \in Nat, DOMAIN items = 1..K, IsList(items)
    PROVE  \A i \in 1..K : CValue(items)[i] = CValueStep(items, CValue(items), i)
  <1> DEFINE value(f, i) == CValueStep(items, f, i)
             sol(f, n) == f = [i \in 1..n |-> value(f, i)]
             S == {n \in Nat : n <= K => \E f : sol(f, n)}
  <1>1. 0 \in S
    <2>1. sol([i \in 1..0 |-> 0], 0)
      OBVIOUS
    <2>2. QED
      BY <2>1
  <1>2. ASSUME NEW i \in 1..K, NEW f, NEW g, \A j \in 1..(i - 1) : f[j] = g[j]
        PROVE  value(f, i) = value(g, i)
    <2>1. items[i].how \in {"implicit", "number", "reference"}
      BY DEF IsList
    <2>2. CASE items[i].how = "implicit"
      <3>1. i = 1 \/ i - 1 \in 1..(i - 1)
        OBVIOUS
      <3>2. i = 1 \/ f[i - 1] = g[i - 1]
        BY <1>2, <3>1
      <3>3. QED
        BY <2>2, <3>2 DEF CValueStep
    <2>3. CASE items[i].how = "number"
      BY <2>3 DEF CValueStep
    <2>4. CASE items[i].how = "reference"
      <3>1. Referred(items, i) \in 1..(i - 1)
        BY <2>4, ReferredIs
      <3>2. f[Referred(items, i)] = g[Referred(items, i)]
        BY <1>2, <3>1
      <3>3. QED
        BY <2>4, <3>2 DEF CValueStep
    <2>5. QED
      BY <2>1, <2>2, <2>3, <2>4
  <1> HIDE DEF value
  <1>3. ASSUME NEW n \in Nat, n \in S PROVE n + 1 \in S
    <2> SUFFICES ASSUME n + 1 <= K PROVE \E f : sol(f, n + 1)
      OBVIOUS
    <2>1. PICK f : sol(f, n)
      BY <1>3
    <2> DEFINE g == [i \in 1..(n + 1) |-> IF i = n + 1 THEN value(f, n + 1) ELSE f[i]]
    <2>2. \A i \in 1..n : g[i] = f[i] /\ f[i] = value(f, i)
      BY <2>1
    <2>3. g[n + 1] = value(f, n + 1) /\ g = [i \in 1..(n + 1) |-> g[i]]
      OBVIOUS
    <2> HIDE DEF g
    <2>4. ASSUME NEW i \in 1..(n + 1) PROVE g[i] = value(g, i)
      <3>1. i \in 1..K /\ \A j \in 1..(i - 1) : j \in 1..n
        OBVIOUS
      <3>2. value(f, i) = value(g, i)
        BY <1>2, <2>2, <3>1
      <3>3. i = n + 1 \/ i \in 1..n
        OBVIOUS
      <3>4. QED
        BY <2>2, <2>3, <3>2, <3>3
    <2>5. sol(g, n + 1)
      BY <2>3, <2>4
    <2>6. QED
      BY <2>5
  <1>4. K \in S
    <2> HIDE DEF S
    <2>1. QED
      BY <1>1, <1>3, InductionOverNat
  <1>5. CValue(items) = CHOOSE f : f = [i \in DOMAIN items |-> value(f, i)]
    BY DEF CValue, value, CValueStep
  <1>6. CValue(items) = CHOOSE f : sol(f, K)
    BY <1>5
  <1>7. sol(CValue(items), K)
    <2>1. \E f : sol(f, K)
      BY <1>4
    <2> HIDE DEF sol
    <2>2. QED
      BY <1>6, <2>1
  <1>8. \A i \in 1..K : CValue(items)[i] = value(CValue(items), i)
    BY <1>7
  <1>9. QED
    BY <1>8 DEF value

\* And what can be read.
LEMMA ReadableIs ==
    ASSUME NEW items, NEW K \in Nat, DOMAIN items = 1..K, IsList(items)
    PROVE  \A i \in 1..K : Readable(items)[i] = ReadableStep(items, Readable(items), i)
  <1> DEFINE value(f, i) == ReadableStep(items, f, i)
             sol(f, n) == f = [i \in 1..n |-> value(f, i)]
             S == {n \in Nat : n <= K => \E f : sol(f, n)}
  <1>1. 0 \in S
    <2>1. sol([i \in 1..0 |-> 0], 0)
      OBVIOUS
    <2>2. QED
      BY <2>1
  <1>2. ASSUME NEW i \in 1..K, NEW f, NEW g, \A j \in 1..(i - 1) : f[j] = g[j]
        PROVE  value(f, i) = value(g, i)
    <2>1. items[i].how \in {"implicit", "number", "reference"}
      BY DEF IsList
    <2>2. CASE items[i].how = "implicit"
      <3>1. i = 1 \/ i - 1 \in 1..(i - 1)
        OBVIOUS
      <3>2. i = 1 \/ f[i - 1] = g[i - 1]
        BY <1>2, <3>1
      <3>3. QED
        BY <2>2, <3>2 DEF ReadableStep
    <2>3. CASE items[i].how = "number"
      BY <2>3 DEF ReadableStep
    <2>4. CASE items[i].how = "reference"
      <3>1. Referred(items, i) \in 1..(i - 1)
        BY <2>4, ReferredIs
      <3>2. f[Referred(items, i)] = g[Referred(items, i)]
        BY <1>2, <3>1
      <3>3. QED
        BY <2>4, <3>2 DEF ReadableStep
    <2>5. QED
      BY <2>1, <2>2, <2>3, <2>4
  <1> HIDE DEF value
  <1>3. ASSUME NEW n \in Nat, n \in S PROVE n + 1 \in S
    <2> SUFFICES ASSUME n + 1 <= K PROVE \E f : sol(f, n + 1)
      OBVIOUS
    <2>1. PICK f : sol(f, n)
      BY <1>3
    <2> DEFINE g == [i \in 1..(n + 1) |-> IF i = n + 1 THEN value(f, n + 1) ELSE f[i]]
    <2>2. \A i \in 1..n : g[i] = f[i] /\ f[i] = value(f, i)
      BY <2>1
    <2>3. g[n + 1] = value(f, n + 1) /\ g = [i \in 1..(n + 1) |-> g[i]]
      OBVIOUS
    <2> HIDE DEF g
    <2>4. ASSUME NEW i \in 1..(n + 1) PROVE g[i] = value(g, i)
      <3>1. i \in 1..K /\ \A j \in 1..(i - 1) : j \in 1..n
        OBVIOUS
      <3>2. value(f, i) = value(g, i)
        BY <1>2, <2>2, <3>1
      <3>3. i = n + 1 \/ i \in 1..n
        OBVIOUS
      <3>4. QED
        BY <2>2, <2>3, <3>2, <3>3
    <2>5. sol(g, n + 1)
      BY <2>3, <2>4
    <2>6. QED
      BY <2>5
  <1>4. K \in S
    <2> HIDE DEF S
    <2>1. QED
      BY <1>1, <1>3, InductionOverNat
  <1>5. Readable(items) = CHOOSE f : f = [i \in DOMAIN items |-> value(f, i)]
    BY DEF Readable, value, ReadableStep
  <1>6. Readable(items) = CHOOSE f : sol(f, K)
    BY <1>5
  <1>7. sol(Readable(items), K)
    <2>1. \E f : sol(f, K)
      BY <1>4
    <2> HIDE DEF sol
    <2>2. QED
      BY <1>6, <2>1
  <1>8. \A i \in 1..K : Readable(items)[i] = value(Readable(items), i)
    BY <1>7
  <1>9. QED
    BY <1>8 DEF value

\* What the scan keeps for an enumerator of a value.
Entry(name, v) == [metric |-> name, val |-> v]

LEMMA EntryIs ==
    \A n, v : /\ Entry(n, v).metric = n /\ Entry(n, v).val = v
              /\ \A m, w : Entry(n, v) = Entry(m, w) <=> n = m /\ v = w
  BY DEF Entry

\* The entries after the first k enumerators.
Keeps(s, items, k) ==
    /\ k = 0 => s.lastVal = -1
    /\ k # 0 /\ Readable(items)[k] => s.lastVal = CValue(items)[k]
    /\ \A x \in s.entries : \E j \in 1..k : \E v : x = Entry(items[j].name, v)
    /\ \A j \in 1..k : Readable(items)[j] =>
          \A v : Entry(items[j].name, v) \in s.entries <=> v = CValue(items)[j]

\* One more enumerator.
LEMMA KeepsOneMore ==
    ASSUME NEW items, NEW K \in Nat, DOMAIN items = 1..K, IsList(items),
           NEW k \in 0..(K - 1), NEW s, Keeps(s, items, k),
           items[k + 1].kind = "item"
    PROVE  Keeps(AddEntry(s, items[k + 1]), items, k + 1)
  <1> DEFINE line == items[k + 1]
             V == CValue(items)
             R == Readable(items)
             t == AddEntry(s, line)
  <1>1. k + 1 \in 1..K /\ k + 1 # 0 /\ \A j \in 1..(k + 1) : j \in 1..K /\ (j \in 1..k \/ j = k + 1)
    OBVIOUS
  <1>2. V[k + 1] = CValueStep(items, V, k + 1) /\ R[k + 1] = ReadableStep(items, R, k + 1)
    BY <1>1, CValueIs, ReadableIs
  <1>3. line.how \in {"implicit", "number", "reference"}
    BY <1>1 DEF IsList
  <1>4. \A j \in 1..k : items[j].name # line.name
    BY <1>1 DEF IsList
  <1>5. /\ k = 0 => s.lastVal = -1
        /\ k # 0 /\ R[k] => s.lastVal = V[k]
        /\ \A x \in s.entries : \E j \in 1..k : \E v : x = Entry(items[j].name, v)
        /\ \A j \in 1..k : R[j] =>
              \A v : Entry(items[j].name, v) \in s.entries <=> v = V[j]
    BY DEF Keeps
  <1> HIDE DEF V, R
  <1>6. ASSUME R[k + 1] PROVE line.legible /\ ValuesOf(s, line) = {V[k + 1]}
    <2>1. ReadableStep(items, R, k + 1)
      BY <1>2, <1>6
    <2>2. line.legible
      BY <2>1 DEF ReadableStep
    <2>3. CASE line.how = "implicit"
      <3>1. ValuesOf(s, line) = {s.lastVal + 1}
        BY <2>3 DEF ValuesOf
      <3>2. V[k + 1] = IF k + 1 = 1 THEN 0 ELSE V[(k + 1) - 1] + 1
        BY <1>2, <2>3 DEF CValueStep
      <3>3. k + 1 = 1 \/ R[(k + 1) - 1]
        BY <2>1, <2>3 DEF ReadableStep
      <3>4. (k + 1) - 1 = k /\ (k + 1 = 1 <=> k = 0)
        OBVIOUS
      <3>5. s.lastVal + 1 = V[k + 1]
        BY <1>5, <3>2, <3>3, <3>4
      <3>6. QED
        BY <2>2, <3>1, <3>5
    <2>4. CASE line.how = "number"
      <3>1. ValuesOf(s, line) = {line.arg}
        BY <2>4 DEF ValuesOf
      <3>2. V[k + 1] = line.arg
        BY <1>2, <2>4 DEF CValueStep
      <3>3. QED
        BY <2>2, <3>1, <3>2
    <2>5. CASE line.how = "reference"
      <3> DEFINE ref == Referred(items, k + 1)
      <3>1. ValuesOf(s, line) = {e.val : e \in {x \in s.entries : x.metric = line.arg}}
        BY <2>5 DEF ValuesOf
      <3>2. V[k + 1] = V[ref]
        BY <1>2, <2>5 DEF CValueStep
      <3>3. R[ref]
        BY <2>1, <2>5 DEF ReadableStep
      <3>4. ref \in 1..k /\ items[ref].name = line.arg
        BY <1>1, <2>5, ReferredIs
      <3> HIDE DEF ref, line
      <3>5. \A v : Entry(line.arg, v) \in s.entries <=> v = V[ref]
        BY <1>5, <3>3, <3>4
      <3>6. \A x \in s.entries : x.metric = line.arg => x = Entry(line.arg, V[ref])
        <4> SUFFICES ASSUME NEW x \in s.entries, x.metric = line.arg
                     PROVE  x = Entry(line.arg, V[ref])
          OBVIOUS
        <4>1. PICK j \in 1..k : \E v : x = Entry(items[j].name, v)
          BY <1>5
        <4>2. PICK v : x = Entry(items[j].name, v)
          BY <4>1
        <4>3. x = Entry(line.arg, v)
          BY <4>2, EntryIs
        <4>4. QED
          BY <3>5, <4>3
      <3>7. Entry(line.arg, V[ref]) \in s.entries /\ Entry(line.arg, V[ref]).metric = line.arg
            /\ Entry(line.arg, V[ref]).val = V[ref]
        BY <3>5, EntryIs
      <3>8. \A y : y \in ValuesOf(s, line) <=> y = V[ref]
        BY <3>1, <3>6, <3>7
      <3>9. QED
        BY <2>2, <3>2, <3>8
    <2>6. QED
      BY <1>3, <2>3, <2>4, <2>5
  <1>7. CASE ~line.legible \/ ValuesOf(s, line) = {}
    <2>1. t = s
      BY <1>7 DEF AddEntry
    <2>2. ~R[k + 1]
      <3> HIDE DEF line
      <3>1. QED
        BY <1>6, <1>7
    <2> HIDE DEF line, t
    <2>3. \A x \in t.entries : \E j \in 1..(k + 1) : \E v : x = Entry(items[j].name, v)
      <3>1. \A j \in 1..k : j \in 1..(k + 1)
        OBVIOUS
      <3>2. QED
        BY <1>5, <2>1, <3>1
    <2>4. \A j \in 1..(k + 1) : R[j] =>
             \A v : Entry(items[j].name, v) \in t.entries <=> v = V[j]
      BY <1>1, <1>5, <2>1, <2>2
    <2>5. QED
      BY <1>1, <2>2, <2>3, <2>4 DEF Keeps, R, V, t, line
  <1>8. CASE line.legible /\ ValuesOf(s, line) # {}
    <2> DEFINE val == CHOOSE v \in ValuesOf(s, line) : TRUE
               kept == {e \in s.entries : e.metric # line.name}
    <2>1. t = [lastVal |-> val, entries |-> kept \cup {Entry(line.name, val)}]
      BY <1>8 DEF AddEntry, Entry
    <2>2. t.lastVal = val /\ t.entries = kept \cup {Entry(line.name, val)}
      BY <2>1
    <2>3. R[k + 1] => val = V[k + 1]
      <3> HIDE DEF line
      <3>1. QED
        BY <1>6
    <2> HIDE DEF val, t, line
    <2>4. \A x \in t.entries : \E j \in 1..(k + 1) : \E v : x = Entry(items[j].name, v)
      <3> SUFFICES ASSUME NEW x \in t.entries
                   PROVE  \E j \in 1..(k + 1) : \E v : x = Entry(items[j].name, v)
        OBVIOUS
      <3>1. CASE x \in s.entries
        <4>1. PICK j \in 1..k : \E v : x = Entry(items[j].name, v)
          BY <1>5, <3>1
        <4>2. j \in 1..(k + 1)
          OBVIOUS
        <4>3. QED
          BY <4>1, <4>2
      <3>2. CASE x = Entry(line.name, val)
        <4>1. k + 1 \in 1..(k + 1) /\ items[k + 1].name = line.name
          BY DEF line
        <4>2. QED
          BY <3>2, <4>1
      <3>3. QED
        BY <2>2, <3>1, <3>2
    <2>5. ASSUME NEW j \in 1..(k + 1), R[j], NEW v
          PROVE  Entry(items[j].name, v) \in t.entries <=> v = V[j]
      <3> DEFINE x == Entry(items[j].name, v)
      <3>1. x.metric = items[j].name
        BY EntryIs
      <3>2. x \in t.entries <=> \/ x \in s.entries /\ x.metric # line.name
                                \/ x = Entry(line.name, val)
        <4> HIDE DEF x
        <4>1. QED
          BY <2>2
      <3>3. CASE j \in 1..k
        <4>1. items[j].name # line.name
          BY <1>4, <3>3
        <4>2. x # Entry(line.name, val)
          BY <4>1, EntryIs
        <4>3. x \in s.entries <=> v = V[j]
          BY <1>5, <2>5, <3>3
        <4> HIDE DEF x
        <4>4. x \in t.entries <=> v = V[j]
          BY <3>1, <3>2, <4>1, <4>2, <4>3
        <4>5. QED
          BY <4>4 DEF x
      <3>4. CASE j = k + 1
        <4>1. items[j].name = line.name
          BY <3>4 DEF line
        <4>2. x = Entry(line.name, val) <=> v = val
          BY <4>1, EntryIs
        <4>3. val = V[j]
          BY <2>3, <2>5, <3>4
        <4> HIDE DEF x
        <4>4. x \in t.entries <=> v = V[j]
          BY <3>1, <3>2, <4>1, <4>2, <4>3
        <4>5. QED
          BY <4>4 DEF x
      <3>5. QED
        BY <1>1, <3>3, <3>4
    <2>6. QED
      BY <1>1, <2>2, <2>3, <2>4, <2>5 DEF Keeps, R, V, t, line
  <1>9. QED
    BY <1>7, <1>8

\* Every enumerator that can be read has one entry, of C's value.
LEMMA EntriesAreCs ==
    ASSUME NEW hdr, hdr \in Seq(ToSet(hdr)), IsC(hdr),
           NEW i \in DOMAIN Enumerators(hdr), Readable(Enumerators(hdr))[i], NEW v
    PROVE  /\ Entry(Enumerators(hdr)[i].name, v) \in Entries(hdr)
                 <=> v = CValue(Enumerators(hdr))[i]
           /\ \A x \in Entries(hdr) : x = Entry(x.metric, x.val)
  <1> DEFINE items == Enumerators(hdr)
  <1>1. PICK b, e : IsBlock(hdr, b, e)
    <2>1. items # <<>>
      OBVIOUS
    <2>2. QED
      BY <2>1, BlockFacts
  <1> DEFINE N == Len(hdr)
             P == {n \in (b + 1)..(e - 1) : hdr[n].kind = "item"}
             K == Cardinality(P)
             p(k) == PositionIn(P, k)
             lines == EnumLines(hdr)
             M == (e - 1) - b
             s(n) == Added(lines)[n]
             reached(n, k) == \A j \in 1..K : p(j) <= b + n <=> j <= k
             S == {n \in Nat : n <= M =>
                                 \E k \in 0..K : reached(n, k) /\ Keeps(s(n), items, k)}
  <1>2. N \in Nat /\ b \in 1..N /\ e \in 1..N /\ b < e /\ M \in Nat
    BY <1>1 DEF IsBlock, Opens, Ends, Closes
  <1>3. P \in SUBSET (1..N) /\ P \in SUBSET DOMAIN hdr /\ P \subseteq Int
        /\ \A n \in P : b < n /\ n < e /\ hdr[n].kind = "item"
    BY <1>2
  <1>30. ASSUME NEW n \in 1..M, hdr[b + n].kind = "item" PROVE b + n \in P
    BY <1>2, <1>30
  <1>4. items = ElementsAt(hdr, P) /\ IsList(items)
    BY <1>1 DEF IsBlock, IsC
  <1>5. /\ IsPart(lines, hdr, b, e - 1)
    BY <1>1, ScanFinds
  <1>6. Len(lines) = M /\ \A m \in 1..M : lines[m] = hdr[b + m]
    BY <1>5 DEF IsPart
  <1> HIDE DEF P, lines, N
  <1>7. /\ K \in Nat /\ DOMAIN items = 1..K
        /\ \A k \in 1..K : p(k) \in P /\ items[k] = hdr[p(k)]
        /\ \A n \in P : \E k \in 1..K : p(k) = n
        /\ \A j, k \in 1..K : j < k => p(j) < p(k)
    <2>1. K \in Nat
      <3>1. Cardinality(P) \in 0..N
        BY <1>2, <1>3, Count
      <3>2. QED
        BY <1>2, <3>1
    <2>2. DOMAIN items = 1..K /\ \A k \in 1..K : p(k) \in P /\ items[k] = hdr[p(k)]
      <3>1. /\ DOMAIN ElementsAt(hdr, P) = 1..Cardinality(P)
            /\ \A k \in 1..Cardinality(P) :
                  PositionIn(P, k) \in P /\ ElementsAt(hdr, P)[k] = hdr[PositionIn(P, k)]
        BY <1>3, Picked
      <3> HIDE DEF items
      <3>2. QED
        BY <1>4, <3>1
    <2>3. /\ \A n \in P : \E k \in 1..K : p(k) = n
          /\ \A j, k \in 1..K : j < k => p(j) < p(k)
      BY <1>2, <1>3, Positions
    <2>4. QED
      BY <2>1, <2>2, <2>3
  <1>8. \A n \in 0..M : s(n) = IF n = 0 THEN [lastVal |-> -1, entries |-> {}]
                               ELSE AddEntry(s(n - 1), lines[n])
    BY <1>2, <1>6, AddedIs
  <1> HIDE DEF items, s, K, p
  <1>9. 0 \in S
    <2>1. s(0) = [lastVal |-> -1, entries |-> {}]
      BY <1>2, <1>8
    <2>2. s(0).lastVal = -1 /\ s(0).entries = {}
      BY <2>1
    <2>3. Keeps(s(0), items, 0)
      <3>1. \A j : j \notin 1..0
        OBVIOUS
      <3> HIDE DEF S
      <3>2. QED
        BY ONLY <2>2, <3>1 DEF Keeps
    <2>4. \A j \in 1..K : ~(p(j) <= b + 0)
      <3> SUFFICES ASSUME NEW j \in 1..K, p(j) <= b + 0 PROVE FALSE
        OBVIOUS
      <3>1. p(j) \in Int /\ b < p(j)
        BY <1>3, <1>7
      <3>2. QED
        BY <1>2, <3>1
    <2>5. reached(0, 0) /\ 0 \in 0..K
      BY <1>7, <2>4
    <2> HIDE DEF reached
    <2>6. QED
      BY <2>3, <2>5
  <1>10. ASSUME NEW n \in Nat, n \in S PROVE n + 1 \in S
    <2> SUFFICES ASSUME n + 1 <= M
                 PROVE  \E k \in 0..K : reached(n + 1, k) /\ Keeps(s(n + 1), items, k)
      OBVIOUS
    <2>1. PICK k \in 0..K : reached(n, k) /\ Keeps(s(n), items, k)
      BY <1>2, <1>10
    <2>2. /\ n + 1 \in 1..M /\ n + 1 \in 0..M /\ (n + 1) - 1 = n /\ n + 1 # 0
          /\ b + (n + 1) = (b + n) + 1 /\ b + n \in Int
      BY <1>2
    <2>3. s(n + 1) = AddEntry(s(n), hdr[b + (n + 1)])
      BY <1>6, <1>8, <2>2
    <2>4. CASE hdr[b + (n + 1)].kind = "item"
      <3>0. b + (n + 1) \in P
        <4> HIDE DEF M
        <4>1. QED
          BY <1>30, <2>2, <2>4
      <3>1. PICK j \in 1..K : p(j) = b + (n + 1)
        BY <1>7, <3>0
      <3>2. ~(j <= k)
        BY <2>1, <2>2, <3>1
      <3>3. k + 1 \in 1..K /\ k \in 0..(K - 1) /\ ~(k + 1 <= k)
        BY <1>7, <3>2
      <3>4. p(k + 1) \in Int /\ ~(p(k + 1) <= b + n)
        BY <1>3, <1>7, <2>1, <3>3
      <3>5. j = k + 1
        <4>1. ASSUME k + 1 < j PROVE FALSE
          <5>1. p(k + 1) < p(j)
            BY <1>7, <3>3, <4>1
          <5>2. QED
            BY <2>2, <3>1, <3>4, <5>1
        <4>2. QED
          BY <3>2, <4>1
      <3>6. reached(n + 1, k + 1)
        <4> SUFFICES ASSUME NEW m \in 1..K PROVE p(m) <= b + (n + 1) <=> m <= k + 1
          OBVIOUS
        <4>1. p(m) \in Int /\ (m < j => p(m) < p(j)) /\ (j < m => p(j) < p(m))
          BY <1>3, <1>7
        <4>2. QED
          BY <2>2, <3>1, <3>5, <4>1
      <3>7. items[k + 1] = hdr[b + (n + 1)]
        BY <1>7, <3>1, <3>5
      <3>8. Keeps(s(n + 1), items, k + 1)
        BY <1>4, <1>7, <2>1, <2>3, <2>4, <3>3, <3>7, KeepsOneMore
      <3> HIDE DEF reached
      <3>9. QED
        BY <3>3, <3>6, <3>8
    <2>5. CASE hdr[b + (n + 1)].kind # "item"
      <3>1. s(n + 1) = s(n)
        BY <2>3, <2>5 DEF AddEntry
      <3>2. reached(n + 1, k)
        <4> SUFFICES ASSUME NEW m \in 1..K PROVE p(m) <= b + (n + 1) <=> m <= k
          OBVIOUS
        <4>1. p(m) \in Int /\ hdr[p(m)].kind = "item"
          BY <1>3, <1>7
        <4>2. p(m) # b + (n + 1)
          BY <2>5, <4>1
        <4>3. QED
          BY <2>1, <2>2, <4>1, <4>2
      <3> HIDE DEF reached
      <3>3. QED
        BY <2>1, <3>1, <3>2
    <2>6. QED
      BY <2>4, <2>5
  <1>11. M \in S
    <2> HIDE DEF S, M
    <2>1. QED
      BY <1>2, <1>9, <1>10, InductionOverNat
  <1>12. PICK k \in 0..K : reached(M, k) /\ Keeps(s(M), items, k)
    BY <1>2, <1>11
  <1>13. i \in 1..K /\ i \in 1..k
    <2>1. i \in 1..K
      <3>1. i \in DOMAIN items
        BY DEF items
      <3>2. QED
        BY <1>7, <3>1
    <2>2. p(i) \in Int /\ p(i) < e /\ b + M = e - 1
      <3>1. p(i) \in P
        BY <1>7, <2>1
      <3>2. p(i) \in Int /\ p(i) < e
        BY <1>3, <3>1
      <3>3. QED
        BY <1>2, <3>2
    <2>3. i <= k
      BY <1>2, <1>12, <2>1, <2>2
    <2>4. QED
      BY <1>7, <2>1, <2>3
  <1>14. Entries(hdr) = s(M).entries
    BY <1>6 DEF Entries, lines, s
  <1>15. Entry(items[i].name, v) \in s(M).entries <=> v = CValue(items)[i]
    BY <1>12, <1>13 DEF Keeps, items
  <1>16. ASSUME NEW x \in s(M).entries PROVE x = Entry(x.metric, x.val)
    <2>1. PICK j \in 1..k : \E w : x = Entry(items[j].name, w)
      BY <1>12 DEF Keeps
    <2>2. PICK w : x = Entry(items[j].name, w)
      BY <2>1
    <2>3. QED
      BY <2>2, EntryIs
  <1>17. QED
    BY <1>14, <1>15, <1>16 DEF items

\* The catalog written for a header.
LEMMA EmbeddedIsCs ==
    ASSUME NEW h \in Headers, NEW cat \in Generated(h),
           NEW i \in DOMAIN Enumerators(h), Readable(Enumerators(h))[i]
    PROVE  {e.field : e \in {x \in ToSet(Curate(cat)) : x.metric = Enumerators(h)[i].name}}
               = {Itoa[CValue(Enumerators(h))[i]]}
  <1> DEFINE R == Entries(h)
             k == Curate(cat)
             name == Enumerators(h)[i].name
             c == CValue(Enumerators(h))[i]
  <1>1. h \in Seq(ToSet(h)) /\ IsC(h)
    BY HeadersAssumption
  <1>2. IsFiniteSet(R)
    <2>1. EnumLines(h) \in Seq(ToSet(h))
      BY <1>1, ScanKeepsLines
    <2>2. Len(EnumLines(h)) \in Nat
      BY <2>1
    <2>3. QED
      BY <2>2, EntriesFacts DEF Entries
  <1>3. \A v : Entry(name, v) \in R <=> v = c
    BY <1>1, EntriesAreCs
  <1>4. \A x \in R : x = Entry(x.metric, x.val)
    BY <1>1, EntriesAreCs
  <1>5. PICK q \in SetToSeqs(R) : cat = [n \in DOMAIN q |-> EntityOf(q[n])]
    BY DEF Generated
  <1> HIDE DEF R, name, c
  <1>6. /\ \A n \in DOMAIN q : q[n] \in R
        /\ \A x \in R : \E n \in DOMAIN q : q[n] = x
    BY <1>2, Listing
  <1>7. DOMAIN k = DOMAIN q
    BY <1>5 DEF Curate
  <1>8. ASSUME NEW n \in DOMAIN q
        PROVE  k[n].metric = q[n].metric /\ k[n].field = Itoa[q[n].val]
    <2>1. cat[n] = EntityOf(q[n]) /\ n \in DOMAIN cat
      BY <1>5
    <2>2. k[n] = [cat[n] EXCEPT !.scale = Curated[cat[n].metric]]
      BY <2>1 DEF Curate
    <2>3. ASSUME NEW x, x = [EntityOf(q[n]) EXCEPT !.scale = Curated[cat[n].metric]]
          PROVE  x.metric = q[n].metric /\ x.field = Itoa[q[n].val]
      BY <2>3 DEF EntityOf
    <2>4. QED
      BY <2>1, <2>2, <2>3
  <1> HIDE DEF k
  <1>9. ASSUME NEW n \in DOMAIN q, k[n].metric = name PROVE k[n].field = Itoa[c]
    <2>1. q[n] \in R /\ q[n] = Entry(name, q[n].val)
      BY <1>4, <1>6, <1>8, <1>9
    <2>2. q[n].val = c
      BY <1>3, <2>1
    <2>3. QED
      BY <1>8, <2>2
  <1>10. PICK n \in DOMAIN q : q[n] = Entry(name, c)
    BY <1>3, <1>6
  <1>11. k[n].metric = name /\ k[n].field = Itoa[c]
    BY <1>8, <1>10, EntryIs
  <1>12. \A x : x \in ToSet(k) <=> \E m \in DOMAIN q : x = k[m]
    BY <1>7 DEF ToSet
  <1> DEFINE T == {x \in ToSet(k) : x.metric = name}
  <1>13. \A x \in T : x.field = Itoa[c]
    BY <1>9, <1>12
  <1>14. k[n] \in T
    BY <1>11, <1>12
  <1> HIDE DEF T
  <1>15. {e.field : e \in T} = {Itoa[c]}
    BY <1>11, <1>13, <1>14
  <1>16. QED
    BY <1>15 DEF T, k, name, c

\* The embedded catalog is C's: whatever the header holds before, between and
\* behind the enumerators of rdc_field_t, every one the tool can read is in the
\* catalog under its name with the number that C gives it.
THEOREM CatalogIsCs == Spec => []FieldsAreCs
  <1>1. Init => FieldsAreCs
    BY DEF Init, FieldsAreCs
  <1>2. IInv /\ FieldsAreCs /\ [Next]_vars => FieldsAreCs'
    <2> SUFFICES ASSUME IInv, FieldsAreCs, [Next]_vars, pc' = "parse" PROVE FieldsAreCs'
      BY DEF FieldsAreCs
    <2>1. CASE Generate
      <3>1. EnumLines(header) # <<>> /\ header' = header
            /\ \E cat \in Generated(header) : embedded' = Curate(cat)
        BY <2>1 DEF Generate, config
      <3>2. header \in Headers
        BY DEF IInv, Configured
      <3>3. QED
        BY <3>1, <3>2, EmbeddedIsCs DEF FieldsAreCs
    <2>2. CASE UNCHANGED vars
      BY <2>2 DEF FieldsAreCs, vars, config
    <2>3. QED
      BY <2>1, <2>2
      DEF Next, ParseDefault, ParseMerge, ParseOverwrite, ParseUnreadable, ReadFieldsFile, Filter,
          DefinitionsFromEntities, Register, Ended
  <1>3. QED
    BY <1>1, <1>2, Inductive, PTL DEF Spec
=============================================================================
