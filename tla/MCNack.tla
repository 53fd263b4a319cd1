------------------------------- MODULE MCNack -------------------------------
EXTENDS Nack, TLC

(* Two endpoints, the first with two workers.                              *)
CONSTANTS e1, e2, w1, w2, w3

Pools == (w1 :> e1) @@ (w2 :> e1) @@ (w3 :> e2)

(* The workers of one pool are interchangeable, and so are interfaces.     *)
Symmetry == Permutations({w1, w2}) \cup Permutations(Iface)

Stamped == <<1, 1>>
Keys == {Stamped}
UnstampedKeys == {<<0, 1>>}

Default == [mc |-> TRUE, uc |-> FALSE, ack |-> TRUE, miss |-> TRUE,
            throttle |-> TRUE, dedup |-> TRUE, proxy |-> TRUE]
BothNoDedup == [Default EXCEPT !.uc = TRUE, !.dedup = FALSE]
Mute == [Default EXCEPT !.mc = FALSE]

Pair(m, n) == (e1 :> m) @@ (e2 :> n)
Fleets == {Pair(Default, Default), Pair(BothNoDedup, Mute)}
=============================================================================
