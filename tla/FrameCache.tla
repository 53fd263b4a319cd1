------------------------------ MODULE FrameCache ------------------------------
(***************************************************************************)
(* Frames by class: what ingress/ingress.go caches and for how long, what  *)
(* proxy/proxy.go re-caches after a recovery, and where                    *)
(* retransmit/retransmit.go sends a cached frame.  A frame is its version, *)
(* the version of the frame it is a fragment of, and whether it decodes    *)
(* and is stamped; a destination is the field that it is derived from.     *)
(* cache.Store prefixes the key and sets value and TTL in the backend,     *)
(* which replaces both; a failed store changes nothing.                    *)
(***************************************************************************)
EXTENDS Integers

CONSTANTS
  Key,      \* (HashKey, SeqNum); "the key is unique per frame"
  TTL,      \* the cache TTL of each class, in clock ticks
  MaxTime   \* bound on the clock

Classes == {"tx", "block", "subtree", "anchor", "beef"}

ASSUME FrameCacheAssumption == TTL \in [Classes -> Nat \ {0}] /\ MaxTime \in Nat

VARIABLES
  now,       \* the clock
  frame,     \* the frame published under each key
  expires,   \* when each key's cache entry ends; 0 if it has none
  ingested,  \* history: when the frame was last stored from the wire, or -1
  out        \* history: the last multicast retransmit

vars == <<now, frame, expires, ingested, out>>

(* V1 stands for the versions frame.Decode takes, V3 for fragments.  A     *)
(* bundle is cached and retransmitted whole: no code has a case for a      *)
(* fragment of one.                                                        *)
Whole == {"V1", "V4", "V5", "V6", "V8", "V9"}

Frames ==
  [ver : Whole, orig : {"none"}, decodes : BOOLEAN, stamped : BOOLEAN]
    \cup [ver : {"V3"}, orig : Whole \ {"V8"}, decodes : BOOLEAN, stamped : BOOLEAN]

Error == "error"

Cached(k) == now < expires[k]

Init ==
  /\ now = 0
  /\ frame \in [Key -> Frames]
  /\ expires = [k \in Key |-> 0]
  /\ ingested = [k \in Key |-> -1]
  /\ \E k \in Key : out = [key |-> k, group |-> Error]

-------------------------------------------------------------------------------
(* Mutant: an entry that exists is extended, not replaced.                 *)
SetExtending(k, ttl) == expires' = [expires EXCEPT ![k] = @ + now + ttl]

(* cache.Store: the backend's Set.                                         *)
Set(k, ttl) == expires' = [expires EXCEPT ![k] = now + ttl]

(* A frame of one of the versions that decodes and is stamped, SeqNum # 0, *)
(* is cached; any other is dropped.                                        *)
Ingest(k, versions, ttl) ==
  /\ frame[k].ver \in versions /\ frame[k].decodes /\ frame[k].stamped
  /\ Set(k, ttl)
  /\ ingested' = [ingested EXCEPT ![k] = now]
  /\ UNCHANGED <<now, frame, out>>

processFrame(k) == Ingest(k, {"V1"}, TTL["tx"])
processBEEFFrame(k) == Ingest(k, {"V9"}, TTL["beef"])
processBundleFrame(k) == Ingest(k, {"V8"}, TTL["tx"])
processBlockFrame(k) == Ingest(k, {"V4"}, TTL["block"])
processSubtreeDataFrame(k) == Ingest(k, {"V5"}, TTL["subtree"])
processAnchorFrame(k) == Ingest(k, {"V6"}, TTL["anchor"])

FragmentTTL(orig) ==
  CASE orig = "V4" -> TTL["block"]
    [] orig = "V5" -> TTL["subtree"]
    [] orig = "V6" -> TTL["anchor"]
    [] orig = "V9" -> TTL["beef"]
    [] OTHER -> TTL["tx"]

processFragmentFrame(k) == Ingest(k, {"V3"}, FragmentTTL(frame[k].orig))

(* Mutant: everything is re-cached with the transaction TTL.               *)
ttlForTx(ver) == TTL["tx"]

(* The re-cache TTL of a recovered frame, by its version alone.            *)
ttlFor(ver) ==
  CASE ver = "V4" -> TTL["block"]
    [] ver = "V5" -> TTL["subtree"]
    [] ver = "V6" -> TTL["anchor"]
    [] ver = "V9" -> TTL["beef"]
    [] OTHER -> TTL["tx"]

(* Assumed of an upstream, an endpoint of another domain: it answers with  *)
(* a frame of its own cache, where only such frames are.                   *)
UpstreamHolds(f) == f.decodes /\ f.stamped

(* Client.store of a frame an upstream returned.  It checks no more than   *)
(* the frame's length.  The wire may have brought the frame since the miss *)
(* that started this.                                                      *)
Recache(k) ==
  /\ UpstreamHolds(frame[k])
  /\ Set(k, ttlFor(frame[k].ver))
  /\ UNCHANGED <<now, frame, ingested, out>>

-------------------------------------------------------------------------------
(* Mutant: a fragment is sent where its TxID field says.                   *)
targetGroupWhole(f) ==
  CASE f.ver \in {"V4", "V6"} -> "control"
    [] f.ver = "V5" -> "subtree"
    [] f.ver = "V9" -> IF f.decodes THEN "topic" ELSE Error
    [] f.ver = "V8" /\ f.decodes -> "header"
    [] OTHER -> "txid"

(* targetGroup re-derives the destination from the frame itself.  One that *)
(* decodes is as long as the field its destination is in; run always wires *)
(* the plane's engine, so that a short BEEF frame is the only error.       *)
targetGroup(f) ==
  CASE f.ver \in {"V4", "V6"} -> "control"
    [] f.ver = "V5" -> "subtree"
    [] f.ver = "V9" -> IF f.decodes THEN "topic" ELSE Error
    [] f.ver = "V3" /\ f.decodes ->
         (CASE f.orig \in {"V4", "V6"} -> "control"
            [] f.orig = "V5" -> "subtree"
            [] f.orig = "V9" -> "topic"
            [] OTHER -> "txid")
    [] f.ver = "V8" /\ f.decodes -> "header"
    [] OTHER -> "txid"

(* Retransmit of a frame found in the cache; an error sends nothing.       *)
Retransmit(k) ==
  /\ Cached(k)
  /\ targetGroup(frame[k]) # Error
  /\ out' = [key |-> k, group |-> targetGroup(frame[k])]
  /\ UNCHANGED <<now, frame, expires, ingested>>

Tick ==
  /\ now < MaxTime
  /\ now' = now + 1
  /\ UNCHANGED <<frame, expires, ingested, out>>

Arrive(k) ==
  \/ processFrame(k) \/ processBEEFFrame(k) \/ processFragmentFrame(k)
  \/ processBundleFrame(k) \/ processBlockFrame(k)
  \/ processSubtreeDataFrame(k) \/ processAnchorFrame(k)

Next == Tick \/ \E k \in Key : Arrive(k) \/ Recache(k) \/ Retransmit(k)

Spec == Init /\ [][Next]_vars

-------------------------------------------------------------------------------
(* The class of a frame, a fragment's being that of its original; the TTL  *)
(* and the group that its class has, by the protocol.                      *)
Version(f) == IF f.ver = "V3" THEN f.orig ELSE f.ver

ClassOf == [v \in Whole |->
  CASE v = "V4" -> "block" [] v = "V5" -> "subtree" [] v = "V6" -> "anchor"
    [] v = "V9" -> "beef" [] OTHER -> "tx"]

PublishedOn == [v \in Whole |->
  CASE v \in {"V4", "V6"} -> "control" [] v = "V5" -> "subtree" [] v = "V9" -> "topic"
    [] v = "V8" -> "header" [] OTHER -> "txid"]

LongestTTL == CHOOSE t \in {TTL[c] : c \in Classes} : \A c \in Classes : TTL[c] <= t

(* Every variable keeps its type, and at any time an entry has at most the *)
(* longest TTL to go, however often ingress and recovery store it again.   *)
TypeOK ==
  /\ now \in 0 .. MaxTime
  /\ frame \in [Key -> Frames]
  /\ expires \in [Key -> Nat] /\ \A k \in Key : expires[k] <= now + LongestTTL
  /\ ingested \in [Key -> -1 .. MaxTime]
  /\ out \in [key : Key, group : {"control", "subtree", "topic", "header", "txid", Error}]

(* A retransmit goes to the group the frame was published on, a fragment's *)
(* to that of the original; a BEEF object never to one derived from the    *)
(* ContentID that it has in the place of a TxID.                           *)
SentWherePublished ==
  out.group # Error => out.group = PublishedOn[Version(frame[out.key])]

KeepsTTL(k) ==
  ingested[k] >= 0 => expires[k] >= ingested[k] + TTL[ClassOf[Version(frame[k])]]

(* A frame taken from the wire stays cached for the TTL of its class, also *)
(* when a recovery that began before it came re-caches it.                 *)
WholeFramesKeepTTL == \A k \in Key : frame[k].ver # "V3" => KeepsTTL(k)

(* ttlFor selects the TTL "mirroring the ingress worker", so the same      *)
(* holds of fragments.                                                     *)
RecacheMirrorsIngress == \A k \in Key : KeepsTTL(k)
===============================================================================
