------------------------------ MODULE MCTraces ------------------------------
(* Traces for TLC: a node one trace watches and a detached one, and a second *)
(* trace that reports at most once in an instant.                           *)
EXTENDS Traces, TLC

CONSTANTS t1, t2, n, d

MCWatches == t1 :> {n} @@ t2 :> {}
MCInterval == t1 :> 0 @@ t2 :> 1

=============================================================================
