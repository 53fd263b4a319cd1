----------------------------- MODULE MCLifecycle ------------------------------
(* Two ingress workers; a multicast node with a memory cache, one with both  *)
(* feeds and every optional part on a remote cache, and a tee-only node.     *)
EXTENDS Lifecycle

TwoWorkers == <<"ingress1", "ingress2">>

Default == [join |-> TRUE, tee |-> FALSE, memory |-> TRUE, redis |-> FALSE,
            ssm |-> FALSE, proxy |-> FALSE, beacon |-> TRUE, drain |-> FALSE]
Full == [join |-> TRUE, tee |-> TRUE, memory |-> FALSE, redis |-> TRUE,
         ssm |-> TRUE, proxy |-> TRUE, beacon |-> TRUE, drain |-> TRUE]
TeeOnly == [join |-> FALSE, tee |-> TRUE, memory |-> TRUE, redis |-> TRUE,
            ssm |-> FALSE, proxy |-> TRUE, beacon |-> FALSE, drain |-> TRUE]

Nodes == {Default, Full, TeeOnly}
===============================================================================
