----------------------------- MODULE MCCatalog -----------------------------
EXTENDS Catalog

Item(name, how, arg, legible) ==
    [kind |-> "item", name |-> name, how |-> how, arg |-> arg, legible |-> legible]
Open     == [kind |-> "open"]
Close(n) == [kind |-> "close", name |-> n]
Comment  == [kind |-> "other"]

\* Another enum, a comment, an alias and an enumerator that counts on from it.
Plain ==
    <<Open, Item("X", "number", 7, TRUE), Close("rdc_status_t"), Comment,
      Open, Item("A", "number", 100, TRUE), Comment, Item("B", "implicit", 0, TRUE),
      Item("C", "reference", "A", TRUE), Close("rdc_field_t")>>
Counting ==
    <<Open, Item("B", "implicit", 0, TRUE), Item("A", "number", 100, TRUE),
      Item("C", "reference", "A", TRUE), Item("D", "implicit", 0, TRUE),
      Close("rdc_field_t"), Open, Item("X", "implicit", 0, TRUE), Close("other_t")>>
\* B is hexadecimal, D has no comma; C and D are misread.
Illegible ==
    <<Open, Item("A", "number", 100, TRUE), Item("B", "number", 300, FALSE),
      Item("C", "implicit", 0, TRUE), Item("D", "reference", "B", TRUE),
      Item("E", "number", 400, TRUE), Item("F", "implicit", 0, FALSE),
      Close("rdc_field_t")>>
NoFields == <<Open, Item("X", "number", 7, TRUE), Close("rdc_status_t")>>

MCHeaders == {Plain, Counting, Illegible, NoFields}

MCLoweredName ==
    [f \in 0..MaxFieldID |-> CASE f = 100 -> "gpu_clock"
                        [] f = 101 -> "mem_clock"
                        [] f = 400 -> "power"
                        [] OTHER   -> ""]
Numerals == [n \in {0, 1, 7, 100, 101, 102, 300, 301, 400} |->
    CASE n = 0 -> "0" [] n = 1 -> "1" [] n = 7 -> "7" [] n = 100 -> "100"
      [] n = 101 -> "101" [] n = 102 -> "102" [] n = 300 -> "300"
      [] n = 301 -> "301" [] n = 400 -> "400"]
MCAtoi ==
    [t \in {Numerals[n] : n \in DOMAIN Numerals} \cup {"", "0100", "70000", "-1", "junk"} |->
        CASE t \in {"", "junk"} -> NotANumber
          [] t = "0100"  -> 100
          [] t = "70000" -> 70000
          [] t = "-1"    -> -1
          [] OTHER       -> CHOOSE n \in DOMAIN Numerals : Numerals[n] = t]
MCCurated == [m \in {"A", "B", "C", "D", "E", "F"} |-> IF m = "A" THEN 5 ELSE 0]

Entry(metric, prom, field, scale, disabled) ==
    [metric |-> metric, prom |-> prom, field |-> field, scale |-> scale, disabled |-> disabled]
Entries1 ==
    {Entry("A", "clk", "", 0, FALSE), Entry("A", "", "", 3, TRUE),
     Entry("B", "gpu_clock", "", 0, FALSE), Entry("B", "", "junk", 0, FALSE),
     Entry("B", "mem_clock", "-1", -2, FALSE),
     Entry("N", "mine", "0100", 7, FALSE), Entry("N", "", "101", 0, FALSE),
     Entry("N", "far", "70000", 0, FALSE), Entry("N", "mine", "", 0, TRUE),
     Entry("", "mine", "100", 0, FALSE), Entry("M", "no-name", "300", 2, FALSE)}
MCUsers ==
    {[how |-> h, entries |-> <<>>] : h \in {"none", "unreadable", "merge", "overwrite"}}
      \cup [how : {"merge", "overwrite"}, entries : [1..1 -> Entries1] \cup [1..2 -> Entries1]]

MCFlags == {<<>>, <<"A">>, <<"100", "N">>}
MCFiles == {<<>>, <<"comment", "", "mem_clock", "N">>, Unreadable}
MCDefaultFields == <<"A", "B">>
=============================================================================
