---------------------------- MODULE PluginParser ----------------------------
(***************************************************************************)
(* The Prometheus text between a plugin and Limiz: what a Go program       *)
(* prints with the formats of Registry.Collect (internal/collectors/       *)
(* registry.go; plugins-src/dir-size prints the same way), and what        *)
(* parsePrometheusText (plugin_parser.go) makes of it.                     *)
(*                                                                         *)
(* A text is a sequence of lines and a line a sequence of tokens: a token  *)
(* is one of the characters the parser looks at, the beginning of a        *)
(* comment, or a word that has none of them.  Names, help texts, label     *)
(* values and numbers are sequences of tokens too, "" being <<>>.          *)
(***************************************************************************)
EXTENDS Naturals, Sequences, FiniteSets, SequencesExt, FiniteSetsExt

CONSTANTS Words,   \* runs of other characters than those the parser looks at
          Numbers  \* those that strconv.ParseFloat takes

Space == " "
Quote == "quote"
Help == "# HELP "  \* the prefix of a line, with its space
Type == "# TYPE "
Hash == "#"

Marks == {Space, Quote, Help, Type, Hash, ",", "=", "{", "}"}
Tokens == Words \cup Marks

ASSUME WordsAssumption == Numbers \subseteq Words /\ Words \cap Marks = {}

-----------------------------------------------------------------------------
(* Printing.                                                               *)

PrintLabel(l) == l.key \o <<"=", Quote>> \o l.value \o <<Quote>>

\* k="v" for each label, joined by commas.
PrintLabels(labels) ==
    LET text[n \in 0 .. Len(labels)] ==
            IF n = 0 THEN <<>>
            ELSE (IF n = 1 THEN <<>> ELSE Append(text[n - 1], ",")) \o PrintLabel(labels[n])
    IN  text[Len(labels)]

PrintMetric(m) ==
    m.name \o (IF m.labels = <<>> THEN <<>>
                                  ELSE <<"{">> \o PrintLabels(m.labels) \o <<"}">>)
           \o <<Space>> \o m.value

\* The lines of the n-th metric: HELP and TYPE before the first of its name.
PrintLines(ms, n) ==
    LET m == ms[n]
        seen == \E j \in 1 .. n - 1 : ms[j].name = m.name
    IN  (IF seen THEN <<>>
         ELSE << <<Help>> \o m.name \o <<Space>> \o m.help,
                 <<Type>> \o m.name \o <<Space>> \o m.type >>) \o << PrintMetric(m) >>

\* Registry.Collect for one collector.
PrintMetrics(ms) ==
    LET text[n \in 0 .. Len(ms)] ==
            IF n = 0 THEN <<>> ELSE text[n - 1] \o PrintLines(ms, n)
    IN  text[Len(ms)] \o << <<>> >>

-----------------------------------------------------------------------------
(* Parsing.                                                                *)

\* strings.IndexByte, 0 for none.
Index(s, token) == SelectInSeq(s, LAMBDA t : t = token)

\* strings.Trim
Trim(s, token) ==
    LET kept == {i \in DOMAIN s : s[i] # token}
    IN  IF kept = {} THEN <<>> ELSE SubSeq(s, Min(kept), Max(kept))

\* The parts of s that the turns of a loop over its tokens have put together:
\* those before, and cur, the one that is not ended.  The last part counts only
\* when there is something in it.
AllParts(b) == IF b.cur = <<>> THEN b.parts ELSE Append(b.parts, b.cur)

Split(s, Turn(_, _)) ==
    LET split[n \in 0 .. Len(s)] ==
            IF n = 0 THEN [parts |-> <<>>, cur |-> <<>>, inQuote |-> FALSE]
            ELSE Turn(split[n - 1], s[n])
    IN  AllParts(split[Len(s)])

\* strings.Fields
FieldTurn(b, c) ==
    IF c = Space THEN [b EXCEPT !.parts = AllParts(b), !.cur = <<>>]
                 ELSE [b EXCEPT !.cur = Append(@, c)]

Fields(s) == Split(s, FieldTurn)

\* Mutant: every comma ends a pair.
PairTurnAtEveryComma(b, c) ==
    IF c = "," THEN [b EXCEPT !.parts = Append(@, b.cur), !.cur = <<>>]
    ELSE [b EXCEPT !.cur = Append(@, c)]

\* splitLabelPairs
PairTurn(b, c) ==
    IF c = "," /\ ~b.inQuote THEN [b EXCEPT !.parts = Append(@, b.cur), !.cur = <<>>]
    ELSE [b EXCEPT !.cur = Append(@, c), !.inQuote = IF c = Quote THEN ~@ ELSE @]

splitLabelPairs(s) == Split(s, PairTurn)

ParsePair(pair) ==
    LET eq == Index(pair, "=")
    IN  [key   |-> Trim(SubSeq(pair, 1, eq - 1), Space),
         value |-> Trim(Trim(SubSeq(pair, eq + 1, Len(pair)), Space), Quote)]

\* A map of the labels, to which a later pair of the same key is written over
\* an earlier one; pairs without "=" or without a key are passed over.
parseLabels(s) ==
    LET pairs == [i \in DOMAIN splitLabelPairs(s) |-> ParsePair(splitLabelPairs(s)[i])]
        named == {i \in DOMAIN pairs : pairs[i].key # <<>>}
    IN  [k \in {pairs[i].key : i \in named} |->
            pairs[Max({i \in named : pairs[i].key = k})].value]

\* A map's value, "" where there is none.
Lookup(map, name) == IF name \in DOMAIN map THEN map[name] ELSE <<>>

Put(map, name, value) ==
    [n \in DOMAIN map \cup {name} |-> IF n = name THEN value ELSE map[n]]

\* What comes before the value: the name and the labels, up to the first "{"
\* and the first "}" after it.
\* The result is the metric, or nothing when the line is not one.
parseMetricLine(line, helpMap, typeMap) ==
    LET open == Index(line, "{")
        rest == SubSeq(line, open + 1, Len(line))
        close == Index(rest, "}")
        fields == Fields(line)
        Metric(name, labels, value) ==
            IF Len(value) = 1 /\ value[1] \in Numbers
            THEN << [name |-> name, help |-> Lookup(helpMap, name),
                     type |-> Lookup(typeMap, name), labels |-> labels,
                     value |-> value] >>
            ELSE <<>>
    IN  IF open # 0
        THEN IF close = 0 THEN <<>>
             ELSE Metric(SubSeq(line, 1, open - 1),
                         parseLabels(SubSeq(rest, 1, close - 1)),
                         Trim(SubSeq(rest, close + 1, Len(rest)), Space))
        ELSE IF Len(fields) < 2 THEN <<>>
             ELSE Metric(fields[1], <<>>, fields[2])

\* One turn of the scanner's loop over the maps and the metrics so far.
ParseLine(parsed, text) ==
    LET line == Trim(text, Space)
        rest == SubSeq(line, 2, Len(line))
        idx == Index(rest, Space)
        parts == Fields(rest)
    IN  CASE line = <<>> -> parsed
          [] line # <<>> /\ line[1] = Help ->
                 IF idx = 0 THEN parsed
                 ELSE [parsed EXCEPT !.help = Put(@, SubSeq(rest, 1, idx - 1),
                                                  SubSeq(rest, idx + 1, Len(rest)))]
          [] line # <<>> /\ line[1] = Type ->
                 IF Len(parts) # 2 THEN parsed
                 ELSE [parsed EXCEPT !.type = Put(@, parts[1], parts[2])]
          [] line # <<>> /\ line[1] = Hash -> parsed
          [] OTHER ->
                 [parsed EXCEPT !.metrics =
                     @ \o parseMetricLine(line, parsed.help, parsed.type)]

parsePrometheusText(text) ==
    LET parsed[n \in 0 .. Len(text)] ==
            IF n = 0 THEN [metrics |-> <<>>, help |-> <<>>, type |-> <<>>]
            ELSE ParseLine(parsed[n - 1], text[n])
    IN  parsed[Len(text)].metrics

-----------------------------------------------------------------------------
\* The metrics of which the text has everything: names and keys are words, no
\* label is given twice, nor is a name with another help or type, and there is
\* neither a quote nor "}" in a label's value, nor a space at the end of a help.
Names == Seq(Words) \ {<<>>}

Metrics == [name   : Names,
            help   : {h \in Seq(Tokens) : h = <<>> \/ Last(h) # Space},
            type   : Names,
            labels : Seq([key : Names, value : Seq(Tokens \ {Quote, "}"})]),
            value  : {<<v>> : v \in Numbers}]

Printable(ms) ==
    /\ ms \in Seq(Metrics)
    /\ \A i \in DOMAIN ms :
        /\ \A j, k \in DOMAIN ms[i].labels :
               ms[i].labels[j].key = ms[i].labels[k].key => j = k
        /\ \A j \in DOMAIN ms : ms[j].name = ms[i].name =>
               ms[j].help = ms[i].help /\ ms[j].type = ms[i].type

\* What the program means by the metrics it prints: its labels are a map.
Meant(ms) ==
    [i \in DOMAIN ms |->
        [ms[i] EXCEPT !.labels =
            [k \in {l.key : l \in ToSet(ms[i].labels)} |->
                (CHOOSE l \in ToSet(ms[i].labels) : l.key = k).value]]]
=============================================================================
