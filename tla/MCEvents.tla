------------------------------ MODULE MCEvents ------------------------------
(* A page that comes and goes, and the tailer, on a node that restarts, logs  *)
(* up to four events in each life, and whose ring holds two.                *)
EXTENDS Events

CONSTANT r1
=============================================================================
