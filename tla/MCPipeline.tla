----------------------------- MODULE MCPipeline -----------------------------
EXTENDS Pipeline, TLC

(* Two processors, one key each; short datagrams share the first.          *)
CONSTANTS k1, k2

Sharding == [k \in Key |-> IF k = k2 THEN 1 ELSE 0]

(* As many frames for either processor as it can hold and have queued.     *)
Mix == <<{k1}, {k1, NoKey, Skipped}, {k2}, {k2}, {k1}>>
=============================================================================
