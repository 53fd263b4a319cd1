--------------------------- MODULE FrameCacheProofs ---------------------------
(***************************************************************************)
(* Proofs about FrameCache, for every set of keys, every TTL of each class *)
(* and a clock of any length.                                              *)
(***************************************************************************)
EXTENDS FrameCache, TLAPS

(* Only a frame that decodes is ever stored, so what is found in the cache *)
(* decodes: targetGroup never falls back on a fragment's TxID field.       *)
StoredDecodes == \A k \in Key : expires[k] > 0 => frame[k].decodes

(* The store from the wire is in the past.                                 *)
IngestedBefore == \A k \in Key : ingested[k] <= now

IInv ==
  TypeOK /\ StoredDecodes /\ IngestedBefore /\ SentWherePublished /\ WholeFramesKeepTTL

-------------------------------------------------------------------------------
(* The longest TTL exists, and is one.                                     *)
LEMMA LongestOK ==
  /\ LongestTTL \in Nat
  /\ \A c \in Classes : TTL[c] \in Nat \ {0} /\ TTL[c] <= LongestTTL
<1>1. \A c \in Classes : TTL[c] \in Nat \ {0}
  BY FrameCacheAssumption
<1>2. PICK a, b, c, d, e :
        /\ a = TTL["tx"] /\ b = TTL["block"] /\ c = TTL["subtree"] /\ d = TTL["anchor"]
        /\ e = TTL["beef"]
  OBVIOUS
<1>3. a \in Nat /\ b \in Nat /\ c \in Nat /\ d \in Nat /\ e \in Nat
  BY <1>1, <1>2 DEF Classes
<1>4. PICK t \in {a, b, c, d, e} : a <= t /\ b <= t /\ c <= t /\ d <= t /\ e <= t
  BY <1>3
<1>5. t \in {TTL[x] : x \in Classes} /\ \A x \in Classes : TTL[x] <= t
  BY <1>2, <1>4 DEF Classes
<1>6. LongestTTL \in {TTL[x] : x \in Classes} /\ \A x \in Classes : TTL[x] <= LongestTTL
  BY <1>5 DEF LongestTTL
<1> QED BY <1>1, <1>6

(* A frame is whole or a fragment of a whole one.                          *)
LEMMA FrameForms ==
  ASSUME NEW f \in Frames
  PROVE  /\ f.decodes \in BOOLEAN
         /\ \/ f.ver \in Whole /\ f.ver # "V3"
            \/ f.ver = "V3" /\ f.orig \in Whole \ {"V8"}
         /\ Version(f) \in Whole
  BY DEF Frames, Whole, Version

(* Every class has a TTL, and ttlFor is that of a whole frame's class.     *)
LEMMA ClassTTL ==
  /\ \A v \in Whole : ClassOf[v] \in Classes /\ ttlFor(v) = TTL[ClassOf[v]]
  /\ \A v \in Whole : FragmentTTL(v) = TTL[ClassOf[v]]
  /\ \E c \in Classes : ttlFor("V3") = TTL[c]
  BY DEF Whole, ClassOf, Classes, ttlFor, FragmentTTL

(* targetGroup of a frame that decodes is the group it was published on.   *)
LEMMA GroupOK ==
  ASSUME NEW f \in Frames, f.decodes
  PROVE  targetGroup(f) = PublishedOn[Version(f)]
<1>1. CASE f.ver \in Whole /\ f.ver # "V3"
  <2>1. Version(f) = f.ver
    BY <1>1 DEF Version
  <2> QED BY <1>1, <2>1 DEF targetGroup, PublishedOn, Whole
<1>2. CASE f.ver = "V3" /\ f.orig \in Whole \ {"V8"}
  <2>1. Version(f) = f.orig
    BY <1>2 DEF Version
  <2> QED BY <1>2, <2>1 DEF targetGroup, PublishedOn, Whole
<1> QED BY <1>1, <1>2, FrameForms

LEMMA PublishedType ==
  \A v \in Whole : PublishedOn[v] \in {"control", "subtree", "topic", "header", "txid"}
  BY DEF Whole, PublishedOn

-------------------------------------------------------------------------------
(* A store of a frame that decodes, with a TTL of some class: from the     *)
(* wire, or of a whole frame with the TTL of its class.                    *)
LEMMA StoreOK ==
  ASSUME IInv, NEW k \in Key, NEW c \in Classes, frame[k].decodes, Set(k, TTL[c]),
         UNCHANGED <<now, frame, out>>,
         frame[k].ver # "V3" => TTL[c] = TTL[ClassOf[Version(frame[k])]],
         ingested' = ingested \/ ingested' = [ingested EXCEPT ![k] = now]
  PROVE  IInv'
<1>0. TypeOK /\ StoredDecodes /\ IngestedBefore /\ SentWherePublished /\ WholeFramesKeepTTL
  BY DEF IInv
<1>1. PICK t \in Nat \ {0} : t = TTL[c] /\ t <= LongestTTL
  BY LongestOK
<1>2. /\ now \in Nat /\ now <= MaxTime /\ MaxTime \in Nat
      /\ expires \in [Key -> Nat] /\ (\A j \in Key : expires[j] <= now + LongestTTL)
      /\ ingested \in [Key -> -1 .. MaxTime]
  BY <1>0, FrameCacheAssumption DEF TypeOK
<1>3. /\ expires' \in [Key -> Nat] /\ expires'[k] = now + t
      /\ \A j \in Key : j # k => expires'[j] = expires[j]
      /\ \A j \in Key : expires'[j] <= now + LongestTTL
  <2>1. now + t \in Nat /\ now + t <= now + LongestTTL
    BY <1>1, <1>2, LongestOK
  <2>2. expires' = [expires EXCEPT ![k] = now + t]
    BY <1>1 DEF Set
  <2> QED BY <1>2, <2>1, <2>2
<1>4. /\ ingested' \in [Key -> -1 .. MaxTime] /\ ingested'[k] <= now
      /\ \A j \in Key : j # k => ingested'[j] = ingested[j]
  <2>1. now \in -1 .. MaxTime /\ ingested[k] <= now
    BY <1>0, <1>2 DEF IngestedBefore
  <2> QED BY <1>2, <2>1
<1>5. now' = now /\ frame' = frame /\ out' = out
  OBVIOUS
<1>6. TypeOK'
  BY <1>0, <1>3, <1>4, <1>5 DEF TypeOK
<1>7. StoredDecodes'
  BY <1>0, <1>3, <1>5 DEF StoredDecodes
<1>8. IngestedBefore'
  BY <1>0, <1>4, <1>5 DEF IngestedBefore
<1>9. SentWherePublished'
  BY <1>0, <1>5 DEF SentWherePublished, Version
<1>10. WholeFramesKeepTTL'
  <2> SUFFICES ASSUME NEW j \in Key, frame[j].ver # "V3", ingested'[j] >= 0
               PROVE  expires'[j] >= ingested'[j] + TTL[ClassOf[Version(frame[j])]]
    BY <1>5 DEF WholeFramesKeepTTL, KeepsTTL, Version
  <2>1. CASE j = k
    <3>1. ingested'[k] \in Int /\ ingested'[k] <= now
      BY <1>4
    <3> QED BY <1>1, <1>2, <1>3, <2>1, <3>1
  <2>2. CASE j # k
    <3>1. ingested[j] >= 0 => expires[j] >= ingested[j] + TTL[ClassOf[Version(frame[j])]]
      BY <1>0 DEF WholeFramesKeepTTL, KeepsTTL
    <3> QED BY <1>3, <1>4, <2>2, <3>1
  <2> QED BY <2>1, <2>2
<1> QED BY <1>6, <1>7, <1>8, <1>9, <1>10 DEF IInv

(* The seven handlers of ingress.                                          *)
LEMMA ArriveOK ==
  ASSUME IInv, NEW k \in Key, Arrive(k)
  PROVE  IInv'
<1>1. PICK v \in Whole : v = Version(frame[k]) /\ frame[k] \in Frames
  BY FrameForms DEF IInv, TypeOK
<1>2. Ingest(k, {frame[k].ver}, TTL[ClassOf[v]])
  <2>1. ASSUME NEW x \in {"V1", "V4", "V5", "V6", "V8", "V9"}, Ingest(k, {x}, TTL[ClassOf[x]])
        PROVE  Ingest(k, {frame[k].ver}, TTL[ClassOf[v]])
    <3>1. frame[k].ver = x
      BY <2>1 DEF Ingest
    <3>2. v = x
      BY <1>1, <3>1 DEF Version
    <3> QED BY <2>1, <3>1, <3>2
  <2>2. CASE processFragmentFrame(k)
    <3>1. frame[k].ver = "V3" /\ v = frame[k].orig
      BY <1>1, <2>2 DEF processFragmentFrame, Ingest, Version
    <3>2. FragmentTTL(frame[k].orig) = TTL[ClassOf[v]]
      BY <3>1, ClassTTL
    <3> QED BY <2>2, <3>1, <3>2 DEF processFragmentFrame
  <2>3. /\ ClassOf["V1"] = "tx" /\ ClassOf["V4"] = "block" /\ ClassOf["V5"] = "subtree"
        /\ ClassOf["V6"] = "anchor" /\ ClassOf["V8"] = "tx" /\ ClassOf["V9"] = "beef"
    BY DEF ClassOf, Whole
  <2>4. CASE processFrame(k)
    BY <2>1, <2>3, <2>4 DEF processFrame
  <2>5. CASE processBEEFFrame(k)
    BY <2>1, <2>3, <2>5 DEF processBEEFFrame
  <2>6. CASE processBundleFrame(k)
    BY <2>1, <2>3, <2>6 DEF processBundleFrame
  <2>7. CASE processBlockFrame(k)
    BY <2>1, <2>3, <2>7 DEF processBlockFrame
  <2>8. CASE processSubtreeDataFrame(k)
    BY <2>1, <2>3, <2>8 DEF processSubtreeDataFrame
  <2>9. CASE processAnchorFrame(k)
    BY <2>1, <2>3, <2>9 DEF processAnchorFrame
  <2> QED BY <2>2, <2>4, <2>5, <2>6, <2>7, <2>8, <2>9 DEF Arrive
<1>3. PICK c \in Classes : c = ClassOf[v]
  BY ClassTTL
<1>4. /\ frame[k].decodes /\ Set(k, TTL[c]) /\ UNCHANGED <<now, frame, out>>
      /\ ingested' = [ingested EXCEPT ![k] = now]
  BY <1>2, <1>3 DEF Ingest
<1>5. TTL[c] = TTL[ClassOf[Version(frame[k])]]
  BY <1>1, <1>3
<1> QED BY <1>4, <1>5, StoreOK

(* A recovered frame is stored with the TTL of its version.                *)
LEMMA RecacheOK ==
  ASSUME IInv, NEW k \in Key, Recache(k)
  PROVE  IInv'
<1>1. frame[k] \in Frames
  BY DEF IInv, TypeOK
<1>2. PICK c \in Classes : /\ ttlFor(frame[k].ver) = TTL[c]
                           /\ frame[k].ver # "V3" => TTL[c] = TTL[ClassOf[Version(frame[k])]]
  <2>1. CASE frame[k].ver = "V3"
    BY <2>1, ClassTTL
  <2>2. CASE frame[k].ver \in Whole /\ frame[k].ver # "V3"
    <3>1. Version(frame[k]) = frame[k].ver
      BY <2>2 DEF Version
    <3> QED BY <2>2, <3>1, ClassTTL
  <2> QED BY <1>1, <2>1, <2>2, FrameForms
<1>3. /\ frame[k].decodes /\ Set(k, TTL[c]) /\ UNCHANGED <<now, frame, out>>
      /\ ingested' = ingested
  BY <1>2 DEF Recache, UpstreamHolds
<1> QED BY <1>2, <1>3, StoreOK

(* A retransmit finds only frames that decode.                             *)
LEMMA RetransmitOK ==
  ASSUME IInv, NEW k \in Key, Retransmit(k)
  PROVE  IInv'
<1>0. TypeOK /\ StoredDecodes /\ IngestedBefore /\ SentWherePublished /\ WholeFramesKeepTTL
  BY DEF IInv
<1>1. now' = now /\ frame' = frame /\ expires' = expires /\ ingested' = ingested
  BY DEF Retransmit
<1>2. frame[k] \in Frames /\ frame[k].decodes
  <2>1. expires[k] > 0
    BY <1>0, FrameCacheAssumption DEF Retransmit, Cached, TypeOK
  <2> QED BY <1>0, <2>1 DEF StoredDecodes, TypeOK
<1>3. PICK g : g = PublishedOn[Version(frame[k])] /\ out' = [key |-> k, group |-> g]
  BY <1>2, GroupOK DEF Retransmit
<1>4. g \in {"control", "subtree", "topic", "header", "txid"}
  BY <1>2, <1>3, FrameForms, PublishedType
<1>5. TypeOK'
  BY <1>0, <1>1, <1>3, <1>4 DEF TypeOK
<1>6. SentWherePublished'
  BY <1>1, <1>3 DEF SentWherePublished, Version
<1>7. StoredDecodes' /\ IngestedBefore' /\ WholeFramesKeepTTL'
  BY <1>0, <1>1 DEF StoredDecodes, IngestedBefore, WholeFramesKeepTTL, KeepsTTL, Version
<1> QED BY <1>5, <1>6, <1>7 DEF IInv

LEMMA TickOK ==
  ASSUME IInv, Tick
  PROVE  IInv'
<1>0. TypeOK /\ StoredDecodes /\ IngestedBefore /\ SentWherePublished /\ WholeFramesKeepTTL
  BY DEF IInv
<1>1. /\ now' = now + 1 /\ now < MaxTime /\ frame' = frame
      /\ expires' = expires /\ ingested' = ingested /\ out' = out
  BY DEF Tick
<1>2. TypeOK'
  <2>1. now \in Nat /\ expires \in [Key -> Nat] /\ \A k \in Key : expires[k] <= now + LongestTTL
    BY <1>0 DEF TypeOK
  <2>2. now' \in 0 .. MaxTime
    BY <1>1, <2>1, FrameCacheAssumption
  <2>3. \A k \in Key : expires'[k] <= now' + LongestTTL
    BY <1>1, <2>1, LongestOK
  <2> QED BY <1>0, <1>1, <2>2, <2>3 DEF TypeOK
<1>3. IngestedBefore'
  BY <1>0, <1>1, FrameCacheAssumption DEF TypeOK, IngestedBefore
<1>4. StoredDecodes' /\ SentWherePublished' /\ WholeFramesKeepTTL'
  BY <1>0, <1>1 DEF StoredDecodes, SentWherePublished, WholeFramesKeepTTL, KeepsTTL, Version
<1> QED BY <1>2, <1>3, <1>4 DEF IInv

LEMMA InitOK ==
  ASSUME Init
  PROVE  IInv
<1>1. TypeOK
  BY FrameCacheAssumption, LongestOK DEF Init, TypeOK, Error
<1>2. StoredDecodes /\ IngestedBefore /\ WholeFramesKeepTTL
  BY DEF Init, StoredDecodes, IngestedBefore, WholeFramesKeepTTL, KeepsTTL
<1>3. SentWherePublished
  BY DEF Init, SentWherePublished
<1> QED BY <1>1, <1>2, <1>3 DEF IInv

LEMMA StepOK ==
  ASSUME IInv, [Next]_vars
  PROVE  IInv'
<1>1. CASE Tick
  BY <1>1, TickOK
<1>2. ASSUME NEW k \in Key, Arrive(k) \/ Recache(k) \/ Retransmit(k)
      PROVE  IInv'
  BY <1>2, ArriveOK, RecacheOK, RetransmitOK
<1>3. CASE UNCHANGED vars
  <2>1. /\ now' = now /\ frame' = frame /\ expires' = expires
        /\ ingested' = ingested /\ out' = out
    BY <1>3 DEF vars
  <2>2. TypeOK' = TypeOK /\ StoredDecodes' = StoredDecodes /\ IngestedBefore' = IngestedBefore
    BY <2>1 DEF TypeOK, StoredDecodes, IngestedBefore
  <2>3. SentWherePublished' = SentWherePublished /\ WholeFramesKeepTTL' = WholeFramesKeepTTL
    BY <2>1 DEF SentWherePublished, WholeFramesKeepTTL, KeepsTTL, Version
  <2> QED BY <2>2, <2>3 DEF IInv
<1> QED BY <1>1, <1>2, <1>3 DEF Next

(* The inductive invariant of the frame cache.                             *)
THEOREM Invariance == Spec => []IInv
<1>1. Init => IInv
  BY InitOK
<1>2. IInv /\ [Next]_vars => IInv'
  BY StepOK
<1> QED BY <1>1, <1>2, PTL DEF Spec

-------------------------------------------------------------------------------
(* For any TTLs: every variable keeps its type, and an entry that          *)
(* cache.Store wrote, from the wire or again after a recovery, never has   *)
(* more than the longest TTL to go: left alone it is gone by then.         *)
THEOREM EntriesEnd == Spec => []TypeOK
<1>1. IInv => TypeOK
  BY DEF IInv
<1> QED BY <1>1, Invariance, PTL

(* Retransmit sends a cached frame to the group it was published on: what  *)
(* makes targetGroup right is that ingress and, if upstreams do the same,  *)
(* the proxy store no frame that does not decode.                          *)
THEOREM RetransmitsWherePublished == Spec => []SentWherePublished
<1>1. IInv => SentWherePublished
  BY DEF IInv
<1> QED BY <1>1, Invariance, PTL

(* A whole frame that a handler of ingress stored stays cached for the TTL *)
(* of its class, whatever re-cache of the proxy comes after it.            *)
THEOREM WholeFramesKept == Spec => []WholeFramesKeepTTL
<1>1. IInv => WholeFramesKeepTTL
  BY DEF IInv
<1> QED BY <1>1, Invariance, PTL
===============================================================================
