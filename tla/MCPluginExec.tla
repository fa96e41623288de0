---------------------------- MODULE MCPluginExec ----------------------------
(* Instances of PluginExec for TLC.                                        *)
EXTENDS PluginExec

\* What is proved of the parser is about outputs like those of the runs.
ASSUME PrintableAssumption == \A out \in Outputs : Printable(out)

\* Label values with what the parser looks at, apart from quotes and "}".
Plain == <<"x">>
Empty == <<>>
Comma == <<"x", ",", "y">>
Equals == <<" ", "x", "=", "y">>
Brace == <<"{", ",", "#">>

Label(key, value) == [key |-> <<key>>, value |-> value]

Metric(name, help, labels) ==
    [name |-> <<name>>, help |-> help, type |-> <<"gauge">>, labels |-> labels,
     value |-> <<"1">>]

Used == <<"used", " ", "bytes">>

OneLabel == {<<Metric("m", Used, <<Label("a", v)>>)>> :
                 v \in {Plain, Empty, Comma, Equals, Brace}}

TwoLabels == {<<Metric("m", <<>>, <<Label("b", v), Label("a", w)>>)>> :
                  v, w \in {Empty, Comma, Brace}}

TwoMetrics == { <<Metric("m", Used, <<Label("a", Comma)>>), Metric("n", <<>>, <<>>)>>,
                <<Metric("m", Used, <<Label("a", Comma)>>),
                  Metric("m", Used, <<Label("a", Plain)>>)>> }

MCNumbers == {"1"}

MCWords == {"1", "a", "b", "m", "n", "x", "y", "used", "bytes", "gauge"}

MCOutputs == OneLabel \cup TwoLabels \cup TwoMetrics

\* One metric without labels.
FewOutputs == {<<Metric("m", Used, <<>>)>>}
=============================================================================
