--------------------------- MODULE MCDecodeRuntime ---------------------------
(* Small instances of the decode runtime: three keys; one of the entries is  *)
(* larger than the cache and one larger than its estimate.                  *)
EXTENDS DecodeRuntimeProps, TLC

CONSTANTS k1, k2, k3, p1

MCBytesOf   == (k1 :> 1) @@ (k2 :> 2) @@ (k3 :> 4)
MCEstimateOf == (k1 :> 1) @@ (k2 :> 1) @@ (k3 :> 2)
MCOneProfile == [k \in Keys |-> p1]
=============================================================================
