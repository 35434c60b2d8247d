---------------------------- MODULE MCWorkQueue -----------------------------
(* The queue of a peer that clears two route nodes.                        *)
EXTENDS WorkQueue

RouteNodes == {"rn1", "rn2"}
=============================================================================
