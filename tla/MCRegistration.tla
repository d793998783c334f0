--------------------------- MODULE MCRegistration ---------------------------
(* Configurations that fail at each step, share names, report nothing, traces,  *)
(* metrics or both, by OTLP, Prometheus or both.                                *)
EXTENDS Registration

Otlp(n, m, t) == [name |-> n, otlp |-> TRUE, metrics |-> m, traces |-> t]
Prom(n)       == [name |-> n, otlp |-> FALSE, metrics |-> TRUE, traces |-> FALSE]

SomeConfigs ==
    {[how |-> h, exporters |-> <<>>] : h \in {"missing", "malformed", "raw"}}
    \cup [how : {"parsed"}, exporters :
            {<<Otlp("a", TRUE, TRUE), Prom("b")>>, <<Otlp("a", TRUE, TRUE), Prom("a")>>,
             <<Otlp("a", FALSE, TRUE), Otlp("b", TRUE, FALSE)>>, <<Prom("b")>>}]
=============================================================================
