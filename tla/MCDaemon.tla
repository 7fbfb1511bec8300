------------------------------ MODULE MCDaemon ------------------------------
(* Two calls: a run with snapshot_mode "auto", which does all that a call  *)
(* may do, beside a call of any kind.                                      *)
EXTENDS Daemon

CONSTANTS c1, c2

MCMixes == {m \in [Calls -> Kinds] : m[c1] = "auto"}
=============================================================================
