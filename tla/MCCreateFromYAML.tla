------------------------- MODULE MCCreateFromYAML -------------------------
(***************************************************************************)
(* Instances of CreateFromYAML for TLC.                                    *)
(***************************************************************************)
EXTENDS CreateFromYAML

\* "none" stands for no annotation, <<0, 0>> is the Placeholder of Hooks.
Document(kind, proxy, callback, cs) ==
    [kind |-> kind, proxy |-> proxy, callback |-> callback, containers |-> cs,
     url |-> <<0, 0>>, pass |-> <<0, 0>>]

\* As customCallback has it (callbacks.go:16).
Grafana == "specialresource-grafana-configmap"
Names   == {Grafana}

Pods == {Document("Pod", TRUE, "none", <<{}>>),
         Document("DaemonSet", TRUE, "none", <<{"OWN"}, {}>>)}

\* Every kind, with the callback also on a kind that it does not expect, and a
\* Pod without containers.
EveryKind == Pods \cup
    {Document("ConfigMap", TRUE, Grafana, <<>>),
     Document("ConfigMap", FALSE, "none", <<>>),
     Document("DaemonSet", FALSE, Grafana, <<{}>>),
     Document("Pod", TRUE, "none", <<>>)}

=============================================================================
