------------------------------- MODULE MCProxy --------------------------------
(* Two sibling endpoints sharing a dedup store, a worker each.              *)
EXTENDS Proxy, TLC

CONSTANTS a, b, w1, w2, r1, r2, k

Pools == (w1 :> a) @@ (w2 :> b)

(* The default, multicast; both modes; and unicast with no shared store.    *)
AnyMode ==
  {[mc |-> TRUE, uc |-> FALSE, dedup |-> TRUE],
   [mc |-> TRUE, uc |-> TRUE, dedup |-> TRUE],
   [mc |-> FALSE, uc |-> TRUE, dedup |-> FALSE]}
===============================================================================
