---------------------------- MODULE MCRequest ----------------------------
(* Two requests on two threads, for TLC; the second thread's server code runs *)
(* in a context of its own, as a test client inside scope(...) does.        *)
EXTENDS RequestContext

CONSTANTS t1, t2

MCHome == [t \in Thread |-> IF t = t2 THEN Server ELSE NoContext]

=============================================================================
