--------------------------- MODULE MCResultTables ---------------------------
(* Two buses and a line, with and without limits.                          *)
EXTENDS ResultTables

CONSTANTS b1, b2, l1

TwoBuses   == <<b1, b2>>
OneLine    == <<l1>>
LineKind   == [e \in {l1} |-> "line"]
Texts      == (l1 :> 2) @@ (b1 :> 3) @@ (b2 :> 1) @@ (None :> 7) @@ [v \in Value |-> v + 3]

Limits(all, line)   == (b1 :> all) @@ (b2 :> all) @@ (l1 :> line)
TwoModels == {[lower |-> Limits(2, None), upper |-> Limits(2, 1)],
              [lower |-> Limits(None, None), upper |-> (b1 :> 1) @@ (b2 :> 2) @@ (l1 :> 2)],
              [lower |-> Limits(None, None), upper |-> Limits(None, 2)]}
SomeTables  == {{"bus", "line"}, {"line"}}
SomeTypes   == {{"line_overload", "bus_voltage_low", "bus_voltage_high"},
                {"line_overload", "bus_voltage_high"}}
SomeWeights == {("warning" :> 2) @@ ("critical" :> 3)}
=============================================================================
