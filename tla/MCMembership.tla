----------------------------- MODULE MCMembership -----------------------------
(* One-bit bands (two shards, two BEEF groups); two sources, own and a peer. *)
EXTENDS Membership

Base == [bits |-> 1, beefBits |-> 0, mode |-> "asm", scope |-> "site", own |-> NoSource,
         manifest |-> {}, beaconSources |-> {}, subtreeSources |-> {}, static |-> {},
         tee |-> "none", join |-> TRUE, backend |-> "memory", redis |-> FALSE,
         aerospike |-> FALSE, ranges |-> TRUE, workers |-> 2, linux |-> TRUE,
         subtree |-> FALSE, beef |-> FALSE, beacon |-> TRUE, beaconScope |-> "site",
         compat |-> "asm-only"]

(* Nodes that join: any-source, and source-specific with its own source    *)
(* among the publishers.                                                   *)
Joining ==
  {Base,
   [Base EXCEPT !.mode = "ssm", !.own = "own", !.manifest = {"peer"},
                !.static = {"own", "peer"}, !.compat = "derived"]}

(* Nodes fed by the tee, which join nothing: settings may vary widely.     *)
TeeFed == [Base EXCEPT !.join = FALSE, !.tee = "loopback"]

Beacons ==
  {[TeeFed EXCEPT !.mode = m, !.scope = s, !.beaconScope = b, !.compat = c, !.beacon = on,
                  !.manifest = {"peer"}] :
     m \in {"asm", "ssm", "other"}, s \in {"link", "site", "global"},
     b \in BeaconScopes \cup {"link"}, c \in Compats \cup {"other"}, on \in BOOLEAN}

Bands ==
  {[TeeFed EXCEPT !.bits = b, !.beefBits = f, !.subtree = t, !.beef = p, !.workers = n, !.linux = x] :
     b \in 0 .. 2, f \in 0 .. 2, t \in BOOLEAN, p \in BOOLEAN, n \in -1 .. 9, x \in BOOLEAN}

Rosters ==
  {[TeeFed EXCEPT !.mode = "ssm", !.own = o, !.manifest = m, !.static = s] :
     o \in {NoSource, BadSource, "own"}, m \in SUBSET {"peer"}, s \in SUBSET {"own", "peer"}}

Refusable ==
  {[TeeFed EXCEPT !.tee = "other"], [TeeFed EXCEPT !.tee = "none"],
   [TeeFed EXCEPT !.ranges = FALSE]}
  \cup {[TeeFed EXCEPT !.backend = b, !.redis = r, !.aerospike = a] :
          b \in {"redis", "aerospike", "other"}, r \in BOOLEAN, a \in BOOLEAN}

AnySettings == Joining \cup Beacons \cup Bands \cup Rosters \cup Refusable
===============================================================================
