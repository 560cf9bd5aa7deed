---------------------------- MODULE MCQuantRuntime ----------------------------
(* Two requests that meet at one key of the prepared cache, and a controller  *)
(* that sees three and a half audits per interval.                            *)
EXTENDS QuantRuntimeProps

MCRequests ==
    {[layer |-> <<"0">>, pattern |-> <<"x", "c">>], [layer |-> <<"0", "x">>, pattern |-> <<"c">>]}
MCImprovements == {DefaultImprovement, 5}
=============================================================================
