---------------------------- MODULE MCTokenStore ----------------------------
(***************************************************************************)
(* Small instances of TokenStore: one or two commands at a time, one or two *)
(* hosts, sites without a session timeout or with one of a minute.          *)
(***************************************************************************)
EXTENDS TokenStore, TLC

\* Two processes may be exchanged: none is named in the specification.
Symmetry == Permutations(Procs)
=============================================================================
