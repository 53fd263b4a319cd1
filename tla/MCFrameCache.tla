---------------------------- MODULE MCFrameCache ----------------------------
EXTENDS FrameCache, TLC

(* TTLs that tell the classes apart, transactions' the shortest but one.   *)
TTLs == ("tx" :> 2) @@ ("block" :> 4) @@ ("subtree" :> 3) @@ ("anchor" :> 5) @@ ("beef" :> 1)
=============================================================================
