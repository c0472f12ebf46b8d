---------------------------- MODULE MCProxyPool ----------------------------
(* Small instances of ProxyPool for TLC. *)
EXTENDS ProxyPool, TLC

SourceSymmetry == Permutations(Source)
=============================================================================
