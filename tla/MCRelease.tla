------------------------------ MODULE MCRelease ------------------------------
(* Two configs, two contexts, a scenario and a metric for each rule.      *)
EXTENDS ReleaseProps

MCContexts == 1 .. 2

MCTiers == <<"k8_v5_gs64", "k8_v5_gs32">>

MCRules ==
    [decode_ms |-> [kind |-> "latency", threshold |-> 20],
     cosine    |-> [kind |-> "drop", threshold |-> 1],
     perplexity |-> [kind |-> "rise", threshold |-> 0]]

MCFloors == [cosine |-> 2]
=============================================================================
