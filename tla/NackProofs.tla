------------------------------ MODULE NackProofs ------------------------------
(***************************************************************************)
(* Theorems about Nack, for every number of endpoints and workers, every   *)
(* set of keys and interfaces, every mix of configurations and every       *)
(* number of NACKs, with crashes: an ACK is honest, a refusal holds        *)
(* nothing, and a claim lets one NACK multicast.                           *)
(***************************************************************************)
EXTENDS Nack, TLAPS

(* Nothing was done for n.                                                 *)
Fresh(n) == claim[n] = -1 /\ reached[n] = {} /\ unicast[n] = "no" /\ flags[n] = {}

(* The flags say what was sent for n.                                      *)
FlagsTrue(n) ==
  /\ "mc" \in flags[n] <=> reached[n] = Iface
  /\ "uc" \in flags[n] <=> unicast[n] = "sent"

(* How far a handler's effects have come where worker w is.                *)
Progress(w) ==
  /\ cur[w] \in 1 .. nacks
  /\ reply[cur[w]] = NoReply /\ cur[w] \notin asked
  /\ at[w] \in {"ip", "seq", "chain", "lookup", "group", "claim"} => Fresh(cur[w])
  /\ at[w] \in {"claim", "send"} => Cfg(w).mc
  /\ at[w] = "send" =>
       /\ reached[cur[w]] = {} /\ unicast[cur[w]] = "no" /\ flags[cur[w]] = {}
       /\ Cfg(w).dedup => claim[cur[w]] > 0
  /\ at[w] = "unicast" => unicast[cur[w]] = "no"
  /\ at[w] \in {"unicast", "ack"} =>
       /\ FlagsTrue(cur[w])
       /\ ~Cfg(w).mc => claim[cur[w]] = -1
  /\ at[w] = "ack" /\ ~WantsUnicast(w) => unicast[cur[w]] = "no"

(* AckHonest and RefusalsHoldNothing of one NACK.                          *)
AckAt(n) ==
  reply[n].type = "ack" =>
    /\ "mc" \in reply[n].flags <=> reached[n] = Iface
    /\ "uc" \in reply[n].flags <=> unicast[n] = "sent"
    /\ reply[n].flags = {} =>
         /\ unicast[n] = "no" /\ claim[n] = -1 /\ ~req[n].proxied
         /\ ~mode[req[n].to].mc /\ ~mode[req[n].to].uc

RefusalAt(n) ==
  reply[n].type \in {"miss", "throttled"} \/ n \in asked =>
    /\ reached[n] = {} /\ unicast[n] = "no" /\ claim[n] = -1
    /\ n \in asked => ~req[n].proxied

(* A worker handles the NACKs sent to its endpoint.                        *)
Addressed == \A w \in Worker : at[w] # "idle" => req[cur[w]].to = Home(w)

AllDedup == \A e \in Endpoint : mode[e].dedup

(* No grant of a key's claim is held by two NACKs, none is held that was   *)
(* not given, and with dedup nothing is multicast without one.             *)
Ledger ==
  /\ \A n \in 1 .. nacks : claim[n] <= grants[req[n].key]
  /\ \A n, m \in 1 .. nacks :
       n # m /\ req[n].key = req[m].key /\ claim[n] > 0 /\ claim[m] > 0 => claim[n] # claim[m]
  /\ AllDedup => \A n \in 1 .. nacks : reached[n] # {} => claim[n] > 0

IInv ==
  /\ TypeOK
  /\ \A w \in Worker : at[w] # "idle" => Progress(w)
  /\ Addressed
  /\ \A v, w \in Worker : v # w /\ at[v] # "idle" /\ at[w] # "idle" => cur[v] # cur[w]
  /\ \A n \in Nacks : n > nacks => Fresh(n) /\ reply[n] = NoReply
  /\ \A n \in Nacks : AckAt(n) /\ RefusalAt(n)
  /\ Ledger

Replies == [type : {"none", "throttled", "miss", "ack"},
            flags : SUBSET {"mc", "uc"}, tier : {"none", "seq", "chain", "group"}]

-------------------------------------------------------------------------------
(* Before the first NACK nothing was done.                                 *)
LEMMA InitOK == Init => IInv
<1> SUFFICES ASSUME Init PROVE IInv
  OBVIOUS
<1> USE NackAssumption DEF Init
<1>1. TypeOK
  <2>1. 0 \in 0 .. MaxNacks /\ 1 .. 0 = {}
    OBVIOUS
  <2>2. counted \in [Endpoint -> [Key -> 0 .. SeqMax]]
    OBVIOUS
  <2>3. req \in [1 .. nacks -> Request]
    BY <2>1
  <2>4. reply \in [Nacks -> [type : {"none", "throttled", "miss", "ack"},
                             flags : SUBSET {"mc", "uc"}, tier : {"none", "seq", "chain", "group"}]]
    BY DEF NoReply
  <2>5. at \in [Worker -> States] /\ cur \in [Worker -> 0 .. nacks]
    BY DEF States
  <2> QED BY <2>1, <2>2, <2>3, <2>4, <2>5 DEF TypeOK
<1>2. \A n \in Nacks : Fresh(n) /\ reply[n] = NoReply /\ reply[n].type = "none"
  BY DEF Fresh, NoReply
<1>3. \A n \in Nacks : AckAt(n) /\ RefusalAt(n)
  BY <1>2 DEF AckAt, RefusalAt
<1>4. Ledger
  <2>1. 1 .. nacks = {}
    OBVIOUS
  <2> QED BY <2>1 DEF Ledger
<1>5. Addressed
  BY DEF Addressed
<1> QED BY <1>1, <1>2, <1>3, <1>4, <1>5 DEF IInv

(* What a handler's step leaves alone: other workers and other NACKs.      *)
Elsewhere(w) ==
  /\ \A v \in Worker : v # w => at'[v] = at[v] /\ cur'[v] = cur[v]
  /\ \A m \in Nacks : m # cur[w] =>
       /\ flags'[m] = flags[m] /\ reached'[m] = reached[m] /\ unicast'[m] = unicast[m]
       /\ claim'[m] = claim[m] /\ reply'[m] = reply[m]
       /\ m \in asked' <=> m \in asked
  /\ at'[w] # "idle" => cur'[w] = cur[w]
  /\ mode' = mode /\ nacks' = nacks /\ req' = req

(* What a handler's step does to the claim of its NACK.                    *)
Books(n, k) ==
  \/ claim'[n] = claim[n] /\ grants' = grants
  \/ claim'[n] = 0 /\ \A j \in Key : grants'[j] >= grants[j]
  \/ claim'[n] = grants[k] + 1 /\ grants' = [grants EXCEPT ![k] = @ + 1]

(* A handler's step that gets its own NACK right keeps the invariant.      *)
LEMMA Combine ==
  ASSUME IInv, TypeOK', NEW w \in Worker, at[w] # "idle", Elsewhere(w),
         at'[w] # "idle" => Progress(w)',
         NEW n, n = cur[w], AckAt(n)', RefusalAt(n)', Books(n, req[n].key),
         AllDedup /\ reached'[n] # {} => claim'[n] > 0
  PROVE  IInv'
<1>0. n \in 1 .. nacks /\ n \in Nacks /\ nacks \in 0 .. MaxNacks /\ MaxNacks \in Nat
      /\ nacks' = nacks /\ mode' = mode /\ req' = req
  BY NackAssumption DEF IInv, Progress, TypeOK, Nacks, Elsewhere
<1>1. \A v, u \in Worker : v # u /\ at'[v] # "idle" /\ at'[u] # "idle" => cur'[v] # cur'[u]
  BY DEF IInv, Elsewhere
<1>2. ASSUME NEW v \in Worker, v # w, at'[v] # "idle" PROVE Progress(v)'
  <2>1. at'[v] = at[v] /\ cur'[v] = cur[v] /\ Progress(v) /\ cur[v] # n
    BY <1>2 DEF IInv, Elsewhere
  <2>2. cur[v] \in 1 .. nacks /\ cur[v] \in Nacks
    BY <1>0, <2>1 DEF Progress, Nacks
  <2>3. /\ flags'[cur[v]] = flags[cur[v]] /\ reached'[cur[v]] = reached[cur[v]]
        /\ unicast'[cur[v]] = unicast[cur[v]] /\ claim'[cur[v]] = claim[cur[v]]
        /\ reply'[cur[v]] = reply[cur[v]] /\ (cur[v] \in asked' <=> cur[v] \in asked)
    BY <2>1, <2>2 DEF Elsewhere
  <2>4. PICK m : m = cur[v]
    OBVIOUS
  <2>5. (Fresh(m)' <=> Fresh(m)) /\ (FlagsTrue(m)' <=> FlagsTrue(m))
    BY <2>3, <2>4 DEF Fresh, FlagsTrue
  <2>6. Cfg(v)' = Cfg(v)
    BY <1>0 DEF Cfg, Home
  <2>7. Req(v)' = Req(v)
    BY <1>0, <2>1 DEF Req
  <2>8. WantsUnicast(v)' = WantsUnicast(v)
    BY <2>6, <2>7 DEF WantsUnicast
  <2> QED BY <1>0, <2>1, <2>2, <2>3, <2>4, <2>5, <2>6, <2>8 DEF Progress
<1>3. ASSUME NEW m \in Nacks, m > nacks' PROVE Fresh(m)' /\ reply'[m] = NoReply
  <2>1. m # n /\ m > nacks
    BY <1>0, <1>3
  <2> QED BY <2>1 DEF IInv, Elsewhere, Fresh
<1>4. ASSUME NEW m \in Nacks PROVE AckAt(m)' /\ RefusalAt(m)'
  <2>1. CASE m = n
    BY <2>1
  <2>2. CASE m # n
    <3>1. AckAt(m) /\ RefusalAt(m)
      BY DEF IInv
    <3>2. /\ reply'[m] = reply[m] /\ reached'[m] = reached[m] /\ unicast'[m] = unicast[m]
          /\ claim'[m] = claim[m] /\ (m \in asked' <=> m \in asked)
      BY <2>2 DEF Elsewhere
    <3>3. AckAt(m)'
      BY <1>0, <3>1, <3>2 DEF AckAt
    <3>4. RefusalAt(m)'
      BY <1>0, <3>1, <3>2 DEF RefusalAt
    <3> QED BY <3>3, <3>4
  <2> QED BY <2>1, <2>2
<1>5. Ledger'
  <2> DEFINE k == req[n].key
  <2>1. \A m \in 1 .. nacks : m \in Nacks /\ req[m].key \in Key /\ grants[req[m].key] \in Nat /\ claim[m] \in Int
    BY <1>0 DEF IInv, TypeOK, Nacks, Request
  <2>2. \A m \in 1 .. nacks : m # n => claim'[m] = claim[m] /\ reached'[m] = reached[m]
    BY <1>0, <2>1 DEF Elsewhere
  <2>3. grants' \in [Key -> Nat] /\ grants \in [Key -> Nat] /\ k \in Key
    BY <1>0, <2>1 DEF IInv, TypeOK
  <2>4. \A j \in Key : grants'[j] >= grants[j] /\ grants[j] \in Nat /\ grants'[j] \in Nat
    BY <2>3 DEF Books
  <2>5. \A m \in 1 .. nacks : claim'[m] <= grants'[req[m].key]
    <3>1. \A m \in 1 .. nacks : claim[m] <= grants[req[m].key]
      BY DEF IInv, Ledger
    <3>2. claim'[n] <= grants'[k]
      BY <1>0, <2>1, <2>3, <2>4, <3>1 DEF Books
    <3> QED BY <2>1, <2>2, <2>4, <3>1, <3>2
  <2>6. ASSUME NEW m \in 1 .. nacks, m # n, req[m].key = k, claim[m] > 0, claim'[n] > 0
        PROVE  claim[m] # claim'[n]
    <3>1. claim[m] <= grants[k] /\ claim[m] \in Int /\ grants[k] \in Nat
      BY <2>1, <2>6 DEF IInv, Ledger
    <3>2. claim[n] > 0 => claim[m] # claim[n]
      BY <1>0, <2>6 DEF IInv, Ledger
    <3> QED BY <2>6, <3>1, <3>2 DEF Books
  <2>7. \A m, l \in 1 .. nacks :
          m # l /\ req[m].key = req[l].key /\ claim'[m] > 0 /\ claim'[l] > 0 => claim'[m] # claim'[l]
    <3> SUFFICES ASSUME NEW m \in 1 .. nacks, NEW l \in 1 .. nacks,
                        m # l, req[m].key = req[l].key, claim'[m] > 0, claim'[l] > 0
                 PROVE  claim'[m] # claim'[l]
      OBVIOUS
    <3>1. CASE m = n
      BY <2>2, <2>6, <3>1
    <3>2. CASE l = n
      BY <2>2, <2>6, <3>2
    <3>3. CASE m # n /\ l # n
      BY <2>2, <3>3 DEF IInv, Ledger
    <3> QED BY <3>1, <3>2, <3>3
  <2>8. AllDedup' => \A m \in 1 .. nacks : reached'[m] # {} => claim'[m] > 0
    BY <1>0, <2>2 DEF IInv, Ledger, AllDedup
  <2> QED BY <1>0, <2>5, <2>7, <2>8 DEF Ledger
<1>6. Addressed'
  <2> SUFFICES ASSUME NEW v \in Worker, at'[v] # "idle"
               PROVE  req[cur'[v]].to = EndpointOf[v]
    BY <1>0 DEF Addressed, Home
  <2>1. at[v] # "idle" /\ cur'[v] = cur[v]
    BY DEF Elsewhere
  <2> QED BY <2>1 DEF IInv, Addressed, Home
<1> QED BY <1>1, <1>2, <1>3, <1>4, <1>5, <1>6 DEF IInv
(* A handler's step keeps every variable's type.                           *)
LEMMA HandlerTyped ==
  ASSUME IInv, NEW w \in Worker, Handler(w)
  PROVE  TypeOK' /\ at[w] # "idle"
<1> DEFINE n == cur[w]
           k == req[n].key
           e == EndpointOf[w]
<1>0. /\ mode \in Deployments
      /\ frames \in [Endpoint -> SUBSET Key]
      /\ counted \in [Endpoint -> [Key -> 0 .. SeqMax]]
      /\ claimed \subseteq Key /\ grants \in [Key -> Nat]
      /\ at \in [Worker -> States]
      /\ nacks \in 0 .. MaxNacks
      /\ cur \in [Worker -> 0 .. nacks]
      /\ req \in [1 .. nacks -> Request]
      /\ flags \in [Nacks -> SUBSET {"mc", "uc"}]
      /\ reached \in [Nacks -> SUBSET Iface]
      /\ unicast \in [Nacks -> {"no", "sent", "failed"}]
      /\ claim \in [Nacks -> Int]
      /\ asked \subseteq 1 .. nacks /\ died \subseteq 1 .. nacks
      /\ reply \in [Nacks -> Replies]
  BY DEF IInv, TypeOK, Replies
<1>1. at[w] # "idle"
  BY DEF Handler, AllowIP, AllowSequence, DenySequence, AllowChain, LookupHit, LookupMiss,
     LookupError, AllowGroup, Claim, Suppressed, ClaimError, NoDedup, Send, SendFails, Unicast,
     NoUnicast, Answer, Go, Finish
<1> SUFFICES TypeOK'
  BY <1>1
<1>2. n \in 1 .. nacks /\ n \in Nacks /\ k \in Key /\ e \in Endpoint
  <2>1. n \in 1 .. nacks
    BY <1>1 DEF IInv, Progress
  <2>2. req[n] \in Request
    BY <1>0, <2>1
  <2> QED BY <1>0, <2>1, <2>2, NackAssumption DEF Nacks, Request
<1>3. Home(w) = e /\ Req(w).key = k /\ Cfg(w) = mode[e]
  BY DEF Home, Req, Cfg
<1> HIDE DEF n, k, e
<1>4. ASSUME NEW a, NEW b \in States, Go(w, a, b)
      PROVE  at' \in [Worker -> States] /\ cur' = cur /\ died' = died
  BY <1>0, <1>4 DEF Go
<1>5. ASSUME NEW a, NEW r \in Replies, Finish(w, a, r)
      PROVE  /\ at' \in [Worker -> States] /\ cur' \in [Worker -> 0 .. nacks] /\ died' = died
             /\ reply' \in [Nacks -> Replies]
  <2>1. at' = [at EXCEPT ![w] = "idle"] /\ cur' = [cur EXCEPT ![w] = 0] /\ died' = died
        /\ reply' = [reply EXCEPT ![n] = r]
    BY <1>5 DEF Finish, n
  <2>2. 0 \in 0 .. nacks /\ "idle" \in States
    BY <1>0 DEF States
  <2> QED BY <1>0, <1>2, <2>1, <2>2
<1>6. /\ NoReply \in Replies /\ Miss \in Replies /\ Ack(flags[n]) \in Replies
      /\ \A t \in {"seq", "chain", "group"} : Hint(w, t) \in Replies
  <2>1. NoReply \in Replies /\ Miss \in Replies
    BY DEF NoReply, Miss, Replies
  <2>2. Ack(flags[n]) \in Replies
    BY <1>0, <1>2 DEF Ack, Replies
  <2>3. \A t \in {"seq", "chain", "group"} : Throttled(t) \in Replies
    BY DEF Throttled, Replies
  <2> QED BY <2>1, <2>2, <2>3 DEF Hint
<1>7. {"seq", "chain", "lookup", "group", "claim", "send", "unicast", "ack"} \subseteq States
  BY DEF States
<1> DEFINE Rest == UNCHANGED <<mode, frames, nacks, req>>
           Same == Rest /\ UNCHANGED <<counted, claimed, grants>>
<1>8. ASSUME Same, UNCHANGED <<flags, reached, unicast, claim, asked, reply>>,
             NEW a, NEW b \in States, Go(w, a, b)
      PROVE  TypeOK'
  BY <1>0, <1>4, <1>8 DEF TypeOK, Replies
<1>9. ASSUME Same, UNCHANGED <<flags, reached, unicast, claim, asked>>,
             NEW a, NEW r \in Replies, Finish(w, a, r)
      PROVE  TypeOK'
  BY <1>0, <1>5, <1>9 DEF TypeOK, Replies
<1>10. CASE AllowIP(w)
  BY <1>6, <1>7, <1>8, <1>9, <1>10 DEF AllowIP, store, effects
<1>11. CASE AllowSequence(w)
  <2>1. /\ Go(w, "seq", "chain") /\ counted[e][k] < SeqMax
        /\ counted' = [counted EXCEPT ![e][k] = @ + 1]
        /\ UNCHANGED <<mode, frames, claimed, grants, nacks, req, flags, reached, unicast, claim, asked, reply>>
    BY <1>3, <1>11 DEF AllowSequence, effects
  <2>2. counted[e] \in [Key -> 0 .. SeqMax] /\ counted[e][k] + 1 \in 0 .. SeqMax
    BY <1>0, <1>2, <2>1, NackAssumption
  <2>3. counted' = [counted EXCEPT ![e] = [counted[e] EXCEPT ![k] = counted[e][k] + 1]]
    BY <2>1
  <2>4. [counted[e] EXCEPT ![k] = counted[e][k] + 1] \in [Key -> 0 .. SeqMax]
    BY <1>2, <2>2
  <2>5. counted' \in [Endpoint -> [Key -> 0 .. SeqMax]]
    BY <1>0, <1>2, <2>3, <2>4
  <2> QED BY <1>0, <1>4, <1>7, <2>1, <2>5 DEF TypeOK, Replies
<1>12. CASE DenySequence(w)
  BY <1>6, <1>9, <1>12 DEF DenySequence, store, effects
<1>13. CASE AllowChain(w)
  BY <1>6, <1>7, <1>8, <1>9, <1>13 DEF AllowChain, store, effects
<1>14. CASE LookupHit(w)
  BY <1>7, <1>8, <1>14 DEF LookupHit, store, effects
<1>15. CASE LookupMiss(w)
  <2>1. PICK r \in Replies : Finish(w, "lookup", r)
    BY <1>6, <1>15 DEF LookupMiss
  <2>2. Same /\ UNCHANGED <<flags, reached, unicast, claim>> /\ asked' \in {asked, asked \cup {n}}
    BY <1>15 DEF LookupMiss, store, n
  <2>3. asked' \subseteq 1 .. nacks
    BY <1>0, <1>2, <2>2
  <2> QED BY <1>0, <1>5, <2>1, <2>2, <2>3 DEF TypeOK, Replies
<1>16. CASE LookupError(w)
  BY <1>6, <1>9, <1>16 DEF LookupError, store, effects
<1>17. CASE AllowGroup(w)
  <2>1. (IF Cfg(w).mc THEN "claim" ELSE "unicast") \in States
    BY <1>7
  <2> QED BY <1>6, <1>8, <1>9, <1>17, <2>1 DEF AllowGroup, store, effects
<1>18. CASE Claim(w) \/ Suppressed(w) \/ ClaimError(w)
  <2>1. PICK b \in States : Go(w, "claim", b)
    BY <1>7, <1>18 DEF Claim, Suppressed, ClaimError
  <2>2. /\ UNCHANGED <<mode, frames, counted, nacks, req, flags, reached, unicast, asked, reply>>
        /\ \/ claimed' = claimed /\ grants' = grants
           \/ claimed' = claimed \cup {k} /\ grants' = [grants EXCEPT ![k] = grants[k] + 1]
        /\ \/ claim' = [claim EXCEPT ![n] = 0]
           \/ claim' = [claim EXCEPT ![n] = grants[k] + 1]
    BY <1>3, <1>18 DEF Claim, Suppressed, ClaimError, store, n
  <2>3. grants[k] \in Nat /\ grants[k] + 1 \in Nat
    BY <1>0, <1>2
  <2>4. claimed' \subseteq Key /\ grants' \in [Key -> Nat]
    BY <1>0, <1>2, <2>2, <2>3
  <2>5. claim' \in [Nacks -> Int]
    BY <1>0, <1>2, <2>2, <2>3
  <2> QED BY <1>0, <1>4, <2>1, <2>2, <2>4, <2>5 DEF TypeOK, Replies
<1>19. CASE NoDedup(w)
  BY <1>7, <1>8, <1>19 DEF NoDedup, store, effects
<1>20. CASE Send(w)
  <2>1. /\ Go(w, "send", "unicast") /\ Same /\ UNCHANGED <<unicast, claim, asked, reply>>
        /\ reached' = [reached EXCEPT ![n] = Iface]
        /\ flags' = [flags EXCEPT ![n] = flags[n] \cup {"mc"}]
    BY <1>20 DEF Send, store, n
  <2>2. reached' \in [Nacks -> SUBSET Iface] /\ flags' \in [Nacks -> SUBSET {"mc", "uc"}]
    BY <1>0, <1>2, <2>1
  <2> QED BY <1>0, <1>4, <1>7, <2>1, <2>2 DEF TypeOK, Replies
<1>21. CASE SendFails(w)
  <2>1. PICK part \in SUBSET Iface : reached' = [reached EXCEPT ![n] = part]
    BY <1>21 DEF SendFails, n
  <2>2. Finish(w, "send", NoReply) /\ Same /\ UNCHANGED <<flags, unicast, claim, asked>>
    BY <1>21 DEF SendFails, store
  <2>3. reached' \in [Nacks -> SUBSET Iface]
    BY <1>0, <1>2, <2>1
  <2> QED BY <1>0, <1>5, <1>6, <2>2, <2>3 DEF TypeOK, Replies
<1>22. CASE Unicast(w)
  <2>1. /\ Go(w, "unicast", "ack") /\ Same /\ UNCHANGED <<reached, claim, asked, reply>>
        /\ \/ unicast' = [unicast EXCEPT ![n] = "sent"] /\ flags' = [flags EXCEPT ![n] = flags[n] \cup {"uc"}]
           \/ unicast' = [unicast EXCEPT ![n] = "failed"] /\ flags' = flags
    BY <1>22 DEF Unicast, store, n
  <2>2. unicast' \in [Nacks -> {"no", "sent", "failed"}] /\ flags' \in [Nacks -> SUBSET {"mc", "uc"}]
    <3>1. flags[n] \cup {"uc"} \in SUBSET {"mc", "uc"}
      BY <1>0, <1>2
    <3>2. unicast' \in [Nacks -> {"no", "sent", "failed"}]
      BY <1>0, <1>2, <2>1
    <3>3. flags' \in [Nacks -> SUBSET {"mc", "uc"}]
      BY <1>0, <1>2, <2>1, <3>1
    <3> QED BY <3>2, <3>3
  <2> QED BY <1>0, <1>4, <1>7, <2>1, <2>2 DEF TypeOK, Replies
<1>23. CASE NoUnicast(w)
  BY <1>7, <1>8, <1>23 DEF NoUnicast, store, effects
<1>24. CASE Answer(w)
  <2>1. PICK r \in Replies : Finish(w, "ack", r)
    BY <1>6, <1>24 DEF Answer, n
  <2> QED BY <1>9, <1>24, <2>1 DEF Answer, store, effects
<1> QED
  BY <1>10, <1>11, <1>12, <1>13, <1>14, <1>15, <1>16, <1>17, <1>18, <1>19, <1>20, <1>21, <1>22,
     <1>23, <1>24 DEF Handler

(* What a step of w's handler has to get right for its own NACK, n.        *)
Right(w, n) ==
  /\ Elsewhere(w)
  /\ at'[w] # "idle" => Progress(w)'
  /\ AckAt(n)' /\ RefusalAt(n)'
  /\ Books(n, req[n].key)
  /\ AllDedup /\ reached'[n] # {} => claim'[n] > 0

(* Every step of a handler does.                                           *)
LEMMA HandlerRight ==
  ASSUME IInv, NEW w \in Worker, Handler(w), at[w] # "idle", NEW n, n = cur[w]
  PROVE  Right(w, n)
<1>0. /\ at \in [Worker -> States] /\ cur \in [Worker -> 0 .. nacks] /\ nacks \in 0 .. MaxNacks
      /\ flags \in [Nacks -> SUBSET {"mc", "uc"}] /\ reached \in [Nacks -> SUBSET Iface]
      /\ unicast \in [Nacks -> {"no", "sent", "failed"}] /\ claim \in [Nacks -> Int]
      /\ DOMAIN reply = Nacks /\ reply \in [Nacks -> Replies]
      /\ grants \in [Key -> Nat]
  BY DEF IInv, TypeOK, Replies
<1>1. Progress(w) /\ n \in 1 .. nacks /\ n \in Nacks /\ AckAt(n) /\ RefusalAt(n)
      /\ reply[n] = NoReply /\ n \notin asked
      /\ (AllDedup /\ reached[n] # {} => claim[n] > 0)
  <2>1. Progress(w) /\ n \in 1 .. nacks /\ reply[n] = NoReply /\ n \notin asked
    BY DEF IInv, Progress
  <2>2. n \in Nacks
    BY <1>0, <2>1, NackAssumption DEF Nacks
  <2> QED BY <2>1, <2>2 DEF IInv, Ledger
<1>2. at[w] \in {"ip", "seq", "chain", "lookup", "group", "claim"} => Fresh(n)
  BY <1>1 DEF Progress
<1>3. /\ Home(w) \in Endpoint /\ Cfg(w) = mode[Home(w)] /\ Req(w) = req[n] /\ req[n].key \in Key
      /\ req[n].to = Home(w)
  <2>1. req[n] \in Request
    BY <1>1 DEF IInv, TypeOK
  <2>2. req[n].to = Home(w)
    BY DEF IInv, Addressed
  <2> QED BY <2>1, <2>2, NackAssumption DEF Home, Cfg, Req, Request
<1>r. NoReply.type = "none"
  BY DEF NoReply
<1> DEFINE Kept == UNCHANGED <<mode, nacks, req>>
           Idle == UNCHANGED <<flags, reached, unicast, claim, grants>>
<1>4. Kept => Cfg(w)' = Cfg(w)
  BY DEF Cfg, Home
<1>5. ASSUME Kept, Idle, reply' = reply, asked' = asked, NEW a, NEW b, b # "idle", Go(w, a, b),
             Progress(w)'
      PROVE  Right(w, n)
  <2>1. Elsewhere(w)
    BY <1>0, <1>5 DEF Go, Elsewhere
  <2>2. AckAt(n)' /\ RefusalAt(n)' /\ Books(n, req[n].key)
    BY <1>1, <1>5 DEF AckAt, RefusalAt, Books
  <2> QED BY <1>1, <1>5, <2>1, <2>2 DEF Right
<1>6. ASSUME Kept, Idle, asked' \in {asked, asked \cup {n}}, NEW a, NEW r, Finish(w, a, r),
             AckAt(n)', RefusalAt(n)'
      PROVE  Right(w, n)
  <2>1. at'[w] = "idle"
    BY <1>0, <1>6 DEF Finish
  <2>2. Elsewhere(w)
    BY <1>0, <1>6, <2>1 DEF Finish, Elsewhere
  <2>3. Books(n, req[n].key)
    BY <1>6 DEF Books
  <2> QED BY <1>1, <1>6, <2>1, <2>2, <2>3 DEF Right
<1>7. ASSUME Kept, Idle, asked' = asked, reply' = reply, Fresh(n), NEW a,
             NEW b \in {"seq", "chain", "lookup", "group"}, Go(w, a, b)
      PROVE  Right(w, n)
  <2>1. at'[w] = b /\ cur'[w] = n
    BY <1>0, <1>7 DEF Go
  <2>2. Progress(w)'
    BY <1>1, <1>7, <2>1 DEF Progress, Fresh
  <2> QED BY <1>5, <1>7, <2>2
<1>8. ASSUME Kept, Idle, asked' \in {asked, asked \cup {n}}, asked' # asked => ~req[n].proxied,
             Fresh(n), NEW a, NEW r, r.type # "ack", Finish(w, a, r)
      PROVE  Right(w, n)
  <2>1. reply'[n] = r
    BY <1>0, <1>1, <1>8 DEF Finish
  <2>2. AckAt(n)'
    BY <1>8, <2>1 DEF AckAt
  <2>3. n \in asked' => ~req'[n].proxied
    BY <1>1, <1>8
  <2>4. RefusalAt(n)'
    BY <1>8, <2>3 DEF RefusalAt, Fresh
  <2> QED BY <1>6, <1>8, <2>2, <2>4
<1>9. NoReply.type # "ack" /\ Miss.type # "ack" /\ \A t : Hint(w, t).type # "ack"
  BY DEF NoReply, Miss, Hint, Throttled
<1>10. CASE AllowIP(w)
  <2>1. Kept /\ Idle /\ asked' = asked /\ at[w] = "ip"
    BY <1>10 DEF AllowIP, store, effects, Go, Finish
  <2> QED BY <1>2, <1>7, <1>8, <1>9, <1>10, <2>1 DEF AllowIP
<1>11. CASE AllowSequence(w)
  <2>1. Kept /\ Idle /\ asked' = asked /\ reply' = reply /\ at[w] = "seq" /\ Go(w, "seq", "chain")
    BY <1>11 DEF AllowSequence, effects
  <2> QED BY <1>2, <1>7, <2>1
<1>12. CASE DenySequence(w)
  <2>1. Kept /\ Idle /\ asked' = asked /\ at[w] = "seq" /\ Finish(w, "seq", Hint(w, "seq"))
    BY <1>12 DEF DenySequence, store, effects
  <2> QED BY <1>2, <1>8, <1>9, <2>1
<1>13. CASE AllowChain(w)
  <2>1. Kept /\ Idle /\ asked' = asked /\ at[w] = "chain"
    BY <1>13 DEF AllowChain, store, effects, Go, Finish
  <2> QED BY <1>2, <1>7, <1>8, <1>9, <1>13, <2>1 DEF AllowChain
<1>14. CASE LookupHit(w)
  <2>1. Kept /\ Idle /\ asked' = asked /\ reply' = reply /\ at[w] = "lookup" /\ Go(w, "lookup", "group")
    BY <1>14 DEF LookupHit, store, effects
  <2> QED BY <1>2, <1>7, <2>1
<1>15. CASE LookupMiss(w)
  <2>1. /\ Kept /\ Idle /\ at[w] = "lookup" /\ asked' \in {asked, asked \cup {n}}
        /\ asked' # asked => ~req[n].proxied
    BY <1>3, <1>15 DEF LookupMiss, store
  <2>2. Finish(w, "lookup", Miss) \/ Finish(w, "lookup", NoReply)
    BY <1>15 DEF LookupMiss
  <2> QED BY <1>2, <1>8, <1>9, <2>1, <2>2
<1>16. CASE LookupError(w)
  <2>1. Kept /\ Idle /\ asked' = asked /\ at[w] = "lookup" /\ Finish(w, "lookup", NoReply)
    BY <1>16 DEF LookupError, store, effects, Finish
  <2> QED BY <1>2, <1>8, <1>9, <2>1
<1>17. CASE AllowGroup(w)
  <2>1. Kept /\ Idle /\ asked' = asked /\ at[w] = "group" /\ Fresh(n)
    BY <1>2, <1>17 DEF AllowGroup, store, effects
  <2>2. CASE Go(w, "group", IF Cfg(w).mc THEN "claim" ELSE "unicast") /\ reply' = reply
    <3>1. cur'[w] = n /\ at'[w] = (IF Cfg(w).mc THEN "claim" ELSE "unicast")
      BY <1>0, <2>2 DEF Go
    <3>2. FlagsTrue(n)'
      BY <2>1, NackAssumption DEF FlagsTrue, Fresh
    <3>3. Progress(w)'
      BY <1>1, <1>4, <2>1, <2>2, <3>1, <3>2 DEF Progress, Fresh, FlagsTrue
    <3> QED BY <1>5, <2>1, <2>2, <3>3
  <2>3. CASE Finish(w, "group", Hint(w, "group"))
    BY <1>8, <1>9, <2>1, <2>3
  <2> QED BY <1>17, <2>2, <2>3 DEF AllowGroup
<1>18. CASE Claim(w) \/ Suppressed(w) \/ ClaimError(w)
  <2> DEFINE k == req[n].key
  <2>1. PICK b \in {"send", "unicast"} : Go(w, "claim", b)
    BY <1>18 DEF Claim, Suppressed, ClaimError
  <2>2. Kept /\ UNCHANGED <<flags, reached, unicast, asked, reply>> /\ at[w] = "claim"
    BY <1>18 DEF Claim, Suppressed, ClaimError, store
  <2>3. \/ /\ claim' = [claim EXCEPT ![n] = 0] /\ Go(w, "claim", "unicast")
           /\ \/ grants' = grants
              \/ grants' = [grants EXCEPT ![k] = grants[k] + 1]
        \/ /\ claim' = [claim EXCEPT ![n] = grants[k] + 1] /\ Go(w, "claim", "send")
           /\ grants' = [grants EXCEPT ![k] = grants[k] + 1]
    BY <1>3, <1>18 DEF Claim, Suppressed, ClaimError, store
  <2>4. Fresh(n) /\ Cfg(w).mc
    BY <1>1, <1>2, <2>2 DEF Progress
  <2>5. Elsewhere(w)
    BY <1>0, <2>1, <2>2, <2>3 DEF Go, Elsewhere
  <2>6. k \in Key /\ grants[k] \in Nat
    BY <1>0, <1>3
  <2>7. Books(n, k)
    <3>1. CASE claim' = [claim EXCEPT ![n] = 0] /\ grants' \in {grants, [grants EXCEPT ![k] = grants[k] + 1]}
      <4>1. claim'[n] = 0
        BY <1>0, <1>1, <3>1
      <4>2. \A j \in Key : grants'[j] >= grants[j]
        BY <1>0, <2>6, <3>1
      <4> QED BY <4>1, <4>2 DEF Books
    <3>2. CASE claim' = [claim EXCEPT ![n] = grants[k] + 1] /\ grants' = [grants EXCEPT ![k] = grants[k] + 1]
      <4>1. claim'[n] = grants[k] + 1
        BY <1>0, <1>1, <3>2
      <4> QED BY <3>2, <4>1 DEF Books
    <3> QED BY <2>3, <3>1, <3>2
  <2>8. AckAt(n)' /\ RefusalAt(n)'
    <3>1. reply'[n].type = "none" /\ n \notin asked'
      BY <1>1, <1>r, <2>2
    <3> QED BY <3>1 DEF AckAt, RefusalAt
  <2>9. Progress(w)'
    <3>1. cur'[w] = n /\ \/ at'[w] = "unicast"
                         \/ at'[w] = "send" /\ claim'[n] > 0
      <4>1. cur'[w] = n /\ (Go(w, "claim", "unicast") => at'[w] = "unicast")
            /\ (Go(w, "claim", "send") => at'[w] = "send")
        BY <1>0, <2>1 DEF Go
      <4>2. claim' = [claim EXCEPT ![n] = grants[k] + 1] => claim'[n] > 0
        BY <1>0, <1>1, <2>6
      <4> QED BY <2>3, <4>1, <4>2
    <3>2. FlagsTrue(n)'
      BY <2>2, <2>4, NackAssumption DEF FlagsTrue, Fresh
    <3> QED BY <1>1, <1>4, <2>2, <2>4, <3>1, <3>2 DEF Progress, Fresh, FlagsTrue
  <2>10. reached'[n] = {}
    BY <2>2, <2>4 DEF Fresh
  <2> QED BY <2>5, <2>7, <2>8, <2>9, <2>10 DEF Right
<1>19. CASE NoDedup(w)
  <2>1. Kept /\ Idle /\ asked' = asked /\ reply' = reply /\ at[w] = "claim" /\ Go(w, "claim", "send")
        /\ ~Cfg(w).dedup
    BY <1>19 DEF NoDedup, store, effects
  <2>2. Fresh(n) /\ Cfg(w).mc
    BY <1>1, <1>2, <2>1 DEF Progress
  <2>3. cur'[w] = n /\ at'[w] = "send"
    BY <1>0, <2>1 DEF Go
  <2>4. Progress(w)'
    BY <1>1, <1>4, <2>1, <2>2, <2>3 DEF Progress, Fresh
  <2> QED BY <1>5, <2>1, <2>4
<1>20. CASE Send(w)
  <2>1. /\ Go(w, "send", "unicast") /\ Kept /\ UNCHANGED <<unicast, claim, asked, reply, grants>>
        /\ reached' = [reached EXCEPT ![n] = Iface] /\ at[w] = "send"
        /\ flags' = [flags EXCEPT ![n] = flags[n] \cup {"mc"}]
    BY <1>20 DEF Send, store
  <2>2. flags[n] = {} /\ unicast[n] = "no" /\ Cfg(w).mc /\ (Cfg(w).dedup => claim[n] > 0)
    BY <1>1, <2>1 DEF Progress
  <2>3. Elsewhere(w)
    BY <1>0, <2>1 DEF Go, Elsewhere
  <2>4. reply'[n].type = "none" /\ n \notin asked'
    BY <1>1, <1>r, <2>1
  <2>5. reached'[n] = Iface /\ flags'[n] = {"mc"} /\ unicast'[n] = "no" /\ cur'[w] = n /\ at'[w] = "unicast"
    BY <1>0, <1>1, <2>1, <2>2 DEF Go
  <2>6. Progress(w)'
    <3>1. FlagsTrue(n)'
      BY <2>5 DEF FlagsTrue
    <3> QED BY <1>1, <1>4, <2>1, <2>2, <2>4, <2>5, <3>1 DEF Progress, FlagsTrue
  <2>7. AckAt(n)' /\ RefusalAt(n)' /\ Books(n, req[n].key)
    BY <2>1, <2>4 DEF AckAt, RefusalAt, Books
  <2>8. AllDedup => claim'[n] > 0
    BY <1>3, <2>1, <2>2 DEF AllDedup
  <2> QED BY <2>3, <2>6, <2>7, <2>8 DEF Right
<1>21. CASE SendFails(w)
  <2>1. PICK part : reached' = [reached EXCEPT ![n] = part]
    BY <1>21 DEF SendFails
  <2>2. Finish(w, "send", NoReply) /\ Kept /\ UNCHANGED <<flags, unicast, claim, asked, grants>>
        /\ at[w] = "send"
    BY <1>21 DEF SendFails, store
  <2>3. Cfg(w).dedup => claim[n] > 0
    BY <1>1, <2>2 DEF Progress
  <2>4. at'[w] = "idle"
    BY <1>0, <2>2 DEF Finish
  <2>5. Elsewhere(w)
    BY <1>0, <2>1, <2>2, <2>4 DEF Finish, Elsewhere
  <2>6. reply'[n].type = "none" /\ n \notin asked'
    BY <1>0, <1>1, <1>r, <2>2 DEF Finish
  <2>7. AckAt(n)' /\ RefusalAt(n)' /\ Books(n, req[n].key)
    BY <2>2, <2>6 DEF AckAt, RefusalAt, Books
  <2>8. AllDedup => claim'[n] > 0
    BY <1>3, <2>2, <2>3 DEF AllDedup
  <2> QED BY <2>4, <2>5, <2>7, <2>8 DEF Right
<1>22. CASE Unicast(w)
  <2>1. /\ Go(w, "unicast", "ack") /\ Kept /\ UNCHANGED <<reached, claim, asked, reply, grants>>
        /\ \/ unicast' = [unicast EXCEPT ![n] = "sent"] /\ flags' = [flags EXCEPT ![n] = flags[n] \cup {"uc"}]
           \/ unicast' = [unicast EXCEPT ![n] = "failed"] /\ flags' = flags
        /\ at[w] = "unicast" /\ WantsUnicast(w)
    BY <1>22 DEF Unicast, store
  <2>2. FlagsTrue(n) /\ unicast[n] = "no" /\ (~Cfg(w).mc => claim[n] = -1)
    BY <1>1, <2>1 DEF Progress
  <2>3. Elsewhere(w)
    BY <1>0, <2>1 DEF Go, Elsewhere
  <2>4. reply'[n].type = "none" /\ n \notin asked'
    BY <1>1, <1>r, <2>1
  <2>5. cur'[w] = n /\ at'[w] = "ack"
    BY <1>0, <2>1 DEF Go
  <2>6. FlagsTrue(n)'
    <3>1. \/ unicast'[n] = "sent" /\ flags'[n] = flags[n] \cup {"uc"}
          \/ unicast'[n] = "failed" /\ flags'[n] = flags[n]
      BY <1>0, <1>1, <2>1
    <3> QED BY <2>1, <2>2, <3>1 DEF FlagsTrue
  <2>7. WantsUnicast(w)'
    BY <1>3, <1>4, <2>1, <2>5 DEF WantsUnicast, Req
  <2>8. Progress(w)'
    BY <1>1, <1>4, <2>1, <2>2, <2>4, <2>5, <2>6, <2>7 DEF Progress
  <2>9. AckAt(n)' /\ RefusalAt(n)' /\ Books(n, req[n].key)
    BY <2>1, <2>4 DEF AckAt, RefusalAt, Books
  <2> QED BY <1>1, <2>1, <2>3, <2>8, <2>9 DEF Right
<1>23. CASE NoUnicast(w)
  <2>1. /\ Kept /\ Idle /\ asked' = asked /\ reply' = reply /\ at[w] = "unicast"
        /\ Go(w, "unicast", "ack") /\ ~WantsUnicast(w)
    BY <1>23 DEF NoUnicast, store, effects
  <2>2. FlagsTrue(n) /\ unicast[n] = "no" /\ (~Cfg(w).mc => claim[n] = -1)
    BY <1>1, <2>1 DEF Progress
  <2>3. cur'[w] = n /\ at'[w] = "ack"
    BY <1>0, <2>1 DEF Go
  <2>4. FlagsTrue(n)'
    BY <2>1, <2>2 DEF FlagsTrue
  <2>5. Progress(w)'
    BY <1>1, <1>4, <2>1, <2>2, <2>3, <2>4 DEF Progress
  <2> QED BY <1>5, <2>1, <2>5
<1>24. CASE Answer(w)
  <2>1. Kept /\ Idle /\ asked' = asked /\ at[w] = "ack"
    BY <1>24 DEF Answer, store, effects, Finish
  <2>2. FlagsTrue(n) /\ (~Cfg(w).mc => claim[n] = -1) /\ (~WantsUnicast(w) => unicast[n] = "no")
    BY <1>1, <2>1 DEF Progress
  <2>3. PICK r : /\ Finish(w, "ack", r)
                 /\ r = NoReply \/ (r = Ack(flags[n]) /\ (flags[n] # {} \/ ~Attempted(w)))
    BY <1>24 DEF Answer
  <2>4. reply'[n] = r
    BY <1>0, <1>1, <2>3 DEF Finish
  <2>5. /\ r = NoReply => r.type = "none"
        /\ r = Ack(flags[n]) => r.type = "ack" /\ r.flags = flags[n]
    <3>1. Ack(flags[n]).type = "ack" /\ Ack(flags[n]).flags = flags[n]
      BY DEF Ack
    <3> QED BY <1>r, <3>1
  <2>6. RefusalAt(n)'
    <3>1. reply'[n].type \in {"ack", "none"} /\ n \notin asked'
      BY <1>1, <2>1, <2>3, <2>4, <2>5
    <3> QED BY <3>1 DEF RefusalAt
  <2>7. AckAt(n)'
    <3>1. CASE r = NoReply
      <4>1. reply'[n].type = "none"
        BY <2>4, <2>5, <3>1
      <4> QED BY <4>1 DEF AckAt
    <3>2. CASE r = Ack(flags[n]) /\ (flags[n] # {} \/ ~Attempted(w))
      <4>1. reply'[n].flags = flags[n]
        BY <2>4, <2>5, <3>2
      <4>2. flags[n] = {} => ~Cfg(w).mc /\ ~Cfg(w).uc /\ ~req[n].proxied /\ ~WantsUnicast(w)
        BY <1>3, <3>2 DEF Attempted, WantsUnicast
      <4>3. flags[n] = {} => /\ unicast'[n] = "no" /\ claim'[n] = -1 /\ ~req'[n].proxied
                             /\ ~mode'[req'[n].to].mc /\ ~mode'[req'[n].to].uc
        BY <1>3, <2>1, <2>2, <4>2
      <4>4. /\ "mc" \in reply'[n].flags <=> reached'[n] = Iface
            /\ "uc" \in reply'[n].flags <=> unicast'[n] = "sent"
        BY <2>1, <2>2, <4>1 DEF FlagsTrue
      <4> QED BY <4>1, <4>3, <4>4 DEF AckAt
    <3> QED BY <2>3, <3>1, <3>2
  <2> QED BY <1>6, <2>1, <2>3, <2>6, <2>7
<1> QED
  BY <1>10, <1>11, <1>12, <1>13, <1>14, <1>15, <1>16, <1>17, <1>18, <1>19, <1>20, <1>21, <1>22,
     <1>23, <1>24 DEF Handler

-------------------------------------------------------------------------------
(* A NACK is received: nothing was done for it yet.                        *)
LEMMA ReceiveOK ==
  ASSUME IInv, NEW w \in Worker, Receive(w)
  PROVE  IInv'
<1>0. /\ at \in [Worker -> States] /\ cur \in [Worker -> 0 .. nacks] /\ nacks \in 0 .. MaxNacks
      /\ req \in [1 .. nacks -> Request] /\ MaxNacks \in Nat
  BY NackAssumption DEF IInv, TypeOK
<1>n. PICK n \in Nat : n = nacks + 1
  BY <1>0
<1>1. /\ UNCHANGED <<mode, frames, counted, claimed, grants, flags, reached, unicast, claim, asked, reply, died>>
      /\ at[w] = "idle" /\ nacks < MaxNacks /\ nacks' = n
      /\ at' = [at EXCEPT ![w] = "ip"] /\ cur' = [cur EXCEPT ![w] = n]
  BY <1>n DEF Receive, effects
<1>2. PICK r \in Request : /\ r.to = Home(w)
                           /\ req' = [m \in 1 .. nacks + 1 |-> IF m <= nacks THEN req[m] ELSE r]
  BY DEF Receive
<1>3. n \in Nacks /\ n > nacks /\ n \in Nat /\ 1 .. nacks' = (1 .. nacks) \cup {n} /\ n \notin 1 .. nacks
  BY <1>0, <1>1, <1>n DEF Nacks
<1>4. req'[n] = r /\ \A m \in 1 .. nacks : req'[m] = req[m]
  BY <1>0, <1>2, <1>n
<1>5. Fresh(n) /\ reply[n] = NoReply /\ n \notin asked
  BY <1>3 DEF IInv, TypeOK
<1>6. TypeOK'
  <2>1. req' \in [1 .. nacks' -> Request]
    BY <1>0, <1>1, <1>2, <1>n
  <2>2. at' \in [Worker -> States] /\ cur' \in [Worker -> 0 .. nacks'] /\ nacks' \in 0 .. MaxNacks
    <3>1. "ip" \in States
      BY DEF States
    <3>2. at' \in [Worker -> States]
      BY <1>0, <1>1, <3>1
    <3>3. n \in 0 .. nacks' /\ nacks' \in 0 .. MaxNacks /\ 0 .. nacks \subseteq 0 .. nacks'
      BY <1>0, <1>1, <1>n
    <3>4. cur' \in [Worker -> 0 .. nacks']
      BY <1>0, <1>1, <3>3
    <3> QED BY <3>2, <3>3, <3>4
  <2>3. asked' \subseteq 1 .. nacks' /\ died' \subseteq 1 .. nacks'
    BY <1>1, <1>3 DEF IInv, TypeOK
  <2> QED BY <1>1, <2>1, <2>2, <2>3 DEF IInv, TypeOK
<1>7. ASSUME NEW v \in Worker, at'[v] # "idle" PROVE Progress(v)' /\ (v # w => cur'[v] # n)
  <2>1. CASE v = w
    <3>1. at'[v] = "ip" /\ cur'[v] = n
      BY <1>0, <1>1, <2>1
    <3>2. Fresh(n)'
      BY <1>1, <1>5 DEF Fresh
    <3>3. cur'[v] \in 1 .. nacks' /\ reply'[cur'[v]] = NoReply /\ cur'[v] \notin asked'
      BY <1>1, <1>3, <1>5, <3>1
    <3>4. Fresh(cur[v])'
      BY <3>1, <3>2 DEF Fresh
    <3> QED BY <2>1, <3>1, <3>3, <3>4 DEF Progress
  <2>2. CASE v # w
    <3>1. at'[v] = at[v] /\ cur'[v] = cur[v] /\ Progress(v)
      BY <1>0, <1>1, <1>7, <2>2 DEF IInv
    <3>2. cur[v] \in 1 .. nacks /\ cur[v] \in 1 .. nacks' /\ cur[v] # n
      BY <1>3, <3>1 DEF Progress
    <3>3. req'[cur[v]] = req[cur[v]]
      BY <1>4, <3>2
    <3>4. Cfg(v)' = Cfg(v) /\ WantsUnicast(v)' = WantsUnicast(v)
      <4>1. Cfg(v)' = Cfg(v)
        BY <1>1 DEF Cfg, Home
      <4>2. Req(v)' = Req(v)
        BY <3>1, <3>3 DEF Req
      <4> QED BY <4>1, <4>2 DEF WantsUnicast
    <3>5. PICK m : m = cur[v]
      OBVIOUS
    <3>7. /\ reached'[m] = reached[m] /\ unicast'[m] = unicast[m] /\ flags'[m] = flags[m]
          /\ claim'[m] = claim[m] /\ reply'[m] = reply[m] /\ asked' = asked /\ m \in 1 .. nacks'
      BY <1>1, <3>2, <3>5
    <3>8. Fresh(cur[v])' <=> Fresh(cur[v])
      BY <3>1, <3>5, <3>7 DEF Fresh
    <3>9. FlagsTrue(cur[v])' <=> FlagsTrue(cur[v])
      BY <3>1, <3>5, <3>7 DEF FlagsTrue
    <3>10. Progress(v)'
      BY <3>1, <3>4, <3>5, <3>7, <3>8, <3>9 DEF Progress
    <3> QED BY <3>1, <3>2, <3>10
  <2> QED BY <2>1, <2>2
<1>8. \A v, u \in Worker : v # u /\ at'[v] # "idle" /\ at'[u] # "idle" => cur'[v] # cur'[u]
  BY <1>0, <1>1, <1>7 DEF IInv
<1>9. \A m \in Nacks : m > nacks' => Fresh(m)' /\ reply'[m] = NoReply
  <2>1. \A m \in Nacks : m > nacks' => m > nacks
    BY <1>0, <1>1, <1>n DEF Nacks
  <2> QED BY <1>1, <2>1 DEF IInv, Fresh
<1>10. ASSUME NEW m \in Nacks PROVE AckAt(m)' /\ RefusalAt(m)'
  <2>1. AckAt(m) /\ RefusalAt(m)
    BY DEF IInv
  <2>2. RefusalAt(m)'
    <3>1. m \in asked => req'[m] = req[m]
      BY <1>4 DEF IInv, TypeOK
    <3> QED BY <1>1, <2>1, <3>1 DEF RefusalAt
  <2>3. CASE m \in 1 .. nacks
    <3>1. /\ req'[m] = req[m] /\ mode' = mode /\ reply'[m] = reply[m] /\ reached'[m] = reached[m]
          /\ unicast'[m] = unicast[m] /\ claim'[m] = claim[m]
      BY <1>1, <1>4, <2>3
    <3> QED BY <2>1, <2>2, <3>1 DEF AckAt
  <2>4. CASE m \notin 1 .. nacks
    <3>1. m > nacks
      BY <1>0, <2>4 DEF Nacks
    <3>2. reply'[m].type = "none"
      <4>1. reply'[m] = NoReply
        BY <1>1, <3>1 DEF IInv
      <4>2. NoReply.type = "none"
        BY DEF NoReply
      <4> QED BY <4>1, <4>2, Zenon
    <3>3. reply'[m].type # "ack"
      BY <3>2
    <3>4. AckAt(m)'
      BY <3>3, Zenon DEF AckAt
    <3> QED BY <2>2, <3>4
  <2> QED BY <2>2, <2>3, <2>4
<1>11. Ledger'
  <2>1. claim[n] = -1 /\ reached[n] = {}
    BY <1>5 DEF Fresh
  <2>2. r.key \in Key /\ grants[r.key] \in Nat
    <3>1. r.key \in Key
      BY <1>2 DEF Request
    <3>2. grants \in [Key -> Nat]
      BY DEF IInv, TypeOK
    <3> QED BY <3>1, <3>2
  <2>3. Ledger
    BY DEF IInv
  <2>0. /\ claim' = claim /\ grants' = grants
        /\ \A m \in 1 .. nacks' : m = n \/ (m \in 1 .. nacks /\ req'[m] = req[m])
    BY <1>1, <1>3, <1>4
  <2>4. ASSUME NEW m \in 1 .. nacks' PROVE claim'[m] <= grants'[req'[m].key]
    <3>1. CASE m = n
      <4>1. req'[m].key = r.key
        BY <1>4, <3>1
      <4> QED BY <2>0, <2>1, <2>2, <3>1, <4>1
    <3>2. CASE m \in 1 .. nacks /\ req'[m] = req[m]
      BY <2>0, <2>3, <3>2 DEF Ledger
    <3> QED BY <2>0, <3>1, <3>2
  <2>5. ASSUME NEW m \in 1 .. nacks', NEW l \in 1 .. nacks', m # l, req'[m].key = req'[l].key,
               claim'[m] > 0, claim'[l] > 0
        PROVE  claim'[m] # claim'[l]
    <3>1. m # n /\ l # n
      BY <2>0, <2>1, <2>5
    <3>2. m \in 1 .. nacks /\ req'[m] = req[m] /\ l \in 1 .. nacks /\ req'[l] = req[l]
      BY <2>0, <3>1
    <3> QED BY <2>0, <2>3, <2>5, <3>2 DEF Ledger
  <2>6. AllDedup' => \A m \in 1 .. nacks' : reached'[m] # {} => claim'[m] > 0
    BY <1>1, <1>3, <2>1, <2>3 DEF Ledger, AllDedup
  <2> QED BY <2>4, <2>5, <2>6 DEF Ledger
<1>12. Addressed'
  <2> SUFFICES ASSUME NEW v \in Worker, at'[v] # "idle"
               PROVE  req'[cur'[v]].to = EndpointOf[v]
    BY DEF Addressed, Home
  <2>1. CASE v = w
    <3>1. cur'[v] = n /\ req'[n].to = EndpointOf[w]
      BY <1>0, <1>1, <1>2, <1>4, <2>1 DEF Home
    <3> QED BY <2>1, <3>1
  <2>2. CASE v # w
    <3>1. at[v] # "idle" /\ cur'[v] = cur[v]
      BY <1>0, <1>1, <2>2
    <3>2. Progress(v) /\ req[cur[v]].to = EndpointOf[v]
      BY <3>1 DEF IInv, Addressed, Home
    <3> QED BY <1>4, <3>1, <3>2 DEF Progress
  <2> QED BY <2>1, <2>2
<1> QED BY <1>6, <1>7, <1>8, <1>9, <1>10, <1>11, <1>12 DEF IInv

(* What ends a worker's NACK early, or changes only what no NACK's answer  *)
(* depends on: caches, limiters and claims as they expire, and a crash.    *)
LEMMA OutsideOK ==
  ASSUME IInv, Environment \/ (\E e \in Endpoint : Crash(e)) \/ UNCHANGED vars
  PROVE  IInv'
<1> DEFINE Kept == UNCHANGED <<mode, grants, nacks, req, flags, reached, unicast, claim, asked, reply>>
           Fewer == \A w \in Worker : at'[w] # "idle" => at'[w] = at[w] /\ cur'[w] = cur[w]
<1>0. /\ mode \in Deployments
      /\ frames \in [Endpoint -> SUBSET Key]
      /\ counted \in [Endpoint -> [Key -> 0 .. SeqMax]] /\ SeqMax \in Nat
      /\ claimed \subseteq Key
      /\ at \in [Worker -> States] /\ cur \in [Worker -> 0 .. nacks] /\ nacks \in 0 .. MaxNacks
      /\ died \subseteq 1 .. nacks
  BY NackAssumption DEF IInv, TypeOK
<1>1. ASSUME Kept, Fewer, TypeOK' PROVE IInv'
  <2>1. ASSUME NEW w \in Worker, at'[w] # "idle" PROVE Progress(w)'
    <3>1. at'[w] = at[w] /\ cur'[w] = cur[w] /\ Progress(w)
      BY <1>1, <2>1 DEF IInv
    <3>2. Cfg(w)' = Cfg(w) /\ WantsUnicast(w)' = WantsUnicast(w)
      BY <1>1, <3>1 DEF WantsUnicast, Req, Cfg, Home
    <3>3. PICK m : m = cur[w]
      OBVIOUS
    <3>4. (Fresh(m)' <=> Fresh(m)) /\ (FlagsTrue(m)' <=> FlagsTrue(m))
      BY <1>1 DEF Fresh, FlagsTrue
    <3> QED BY <1>1, <3>1, <3>2, <3>3, <3>4 DEF Progress
  <2>2. \A v, w \in Worker : v # w /\ at'[v] # "idle" /\ at'[w] # "idle" => cur'[v] # cur'[w]
    BY <1>1 DEF IInv
  <2>3. \A n \in Nacks : n > nacks' => Fresh(n)' /\ reply'[n] = NoReply
    BY <1>1 DEF IInv, Fresh
  <2>4. \A n \in Nacks : AckAt(n)' /\ RefusalAt(n)'
    BY <1>1 DEF IInv, AckAt, RefusalAt
  <2>5. Ledger'
    BY <1>1 DEF IInv, Ledger, AllDedup
  <2>6. Addressed'
    BY <1>1 DEF IInv, Addressed, Home
  <2> QED BY <1>1, <2>1, <2>2, <2>3, <2>4, <2>5, <2>6 DEF IInv
<1>2. ASSUME Kept, at' = at, cur' = cur, died' = died, claimed' \subseteq Key,
             frames' \in [Endpoint -> SUBSET Key], counted' \in [Endpoint -> [Key -> 0 .. SeqMax]]
      PROVE  IInv'
  <2>1. TypeOK'
    BY <1>2 DEF IInv, TypeOK
  <2> QED BY <1>1, <1>2, <2>1
<1>3. CASE Environment
  <2>1. PICK k \in Key :
          ClaimExpires(k) \/ \E e \in Endpoint : StoreFrame(e, k) \/ FrameExpires(e, k) \/ AdmissionAges(e, k)
    BY <1>3 DEF Environment
  <2>2. CASE ClaimExpires(k)
    BY <1>0, <1>2, <2>2 DEF ClaimExpires, effects
  <2>3. ASSUME NEW e \in Endpoint, StoreFrame(e, k) \/ FrameExpires(e, k) PROVE IInv'
    <3>1. Kept /\ at' = at /\ cur' = cur /\ died' = died /\ claimed' = claimed /\ counted' = counted
      BY <2>3 DEF StoreFrame, FrameExpires, effects
    <3>2. frames' \in [Endpoint -> SUBSET Key]
      BY <1>0, <2>3 DEF StoreFrame, FrameExpires
    <3> QED BY <1>0, <1>2, <3>1, <3>2
  <2>4. ASSUME NEW e \in Endpoint, AdmissionAges(e, k) PROVE IInv'
    <3>1. /\ Kept /\ at' = at /\ cur' = cur /\ died' = died /\ claimed' = claimed /\ frames' = frames
          /\ counted' = [counted EXCEPT ![e] = [counted[e] EXCEPT ![k] = counted[e][k] - 1]]
          /\ counted[e][k] > 0
      BY <2>4 DEF AdmissionAges, effects
    <3>2. counted[e] \in [Key -> 0 .. SeqMax] /\ counted[e][k] - 1 \in 0 .. SeqMax
      BY <1>0, <3>1
    <3>3. [counted[e] EXCEPT ![k] = counted[e][k] - 1] \in [Key -> 0 .. SeqMax]
      BY <3>2
    <3>4. counted' \in [Endpoint -> [Key -> 0 .. SeqMax]]
      BY <1>0, <3>1, <3>3
    <3> QED BY <1>0, <1>2, <3>1, <3>4
  <2> QED BY <2>1, <2>2, <2>3, <2>4
<1>4. ASSUME NEW e \in Endpoint, Crash(e) PROVE IInv'
  <2> DEFINE up == {w \in Worker : Home(w) = e /\ at[w] # "idle"}
  <2>1. /\ Kept /\ claimed' = claimed
        /\ at' = [w \in Worker |-> IF w \in up THEN "idle" ELSE at[w]]
        /\ cur' = [w \in Worker |-> IF w \in up THEN 0 ELSE cur[w]]
        /\ died' = died \cup {cur[w] : w \in up}
        /\ counted' = [counted EXCEPT ![e] = [k \in Key |-> 0]]
        /\ frames' = frames \/ frames' = [frames EXCEPT ![e] = {}]
    BY <1>4 DEF Crash, effects
  <2>2. \A w \in up : cur[w] \in 1 .. nacks
    BY DEF IInv, Progress
  <2> HIDE DEF up
  <2>3. Fewer
    BY <2>1
  <2>4. TypeOK'
    <3>1. "idle" \in States /\ 0 \in 0 .. nacks
      BY <1>0 DEF States
    <3>2. at' \in [Worker -> States] /\ cur' \in [Worker -> 0 .. nacks]
      BY <1>0, <2>1, <3>1
    <3>3. died' \subseteq 1 .. nacks
      <4>1. up \subseteq Worker
        BY DEF up
      <4> QED BY <1>0, <2>1, <2>2, <4>1
    <3>4. counted' \in [Endpoint -> [Key -> 0 .. SeqMax]]
      <4>1. [k \in Key |-> 0] \in [Key -> 0 .. SeqMax]
        BY <1>0
      <4> QED BY <1>0, <2>1, <4>1
    <3>5. frames' \in [Endpoint -> SUBSET Key]
      BY <1>0, <2>1
    <3> QED BY <2>1, <3>2, <3>3, <3>4, <3>5 DEF IInv, TypeOK
  <2> QED BY <1>1, <2>1, <2>3, <2>4
<1>5. CASE UNCHANGED vars
  BY <1>0, <1>2, <1>5 DEF vars, store, effects
<1> QED BY <1>3, <1>4, <1>5

-------------------------------------------------------------------------------
(* Every state the endpoints reach satisfies the invariant.                *)
THEOREM Invariance == Spec => []IInv
<1>1. IInv /\ [Next]_vars => IInv'
  <2> SUFFICES ASSUME IInv, [Next]_vars PROVE IInv'
    OBVIOUS
  <2>1. ASSUME NEW w \in Worker, Handler(w) PROVE IInv'
    <3>1. TypeOK' /\ at[w] # "idle"
      BY <2>1, HandlerTyped
    <3>2. PICK n : n = cur[w]
      OBVIOUS
    <3>3. Right(w, n)
      BY <2>1, <3>1, <3>2, HandlerRight
    <3> QED BY <3>1, <3>2, <3>3, Combine DEF Right
  <2>2. ASSUME NEW w \in Worker, Receive(w) PROVE IInv'
    BY <2>2, ReceiveOK
  <2>3. CASE Environment \/ (\E e \in Endpoint : Crash(e)) \/ UNCHANGED vars
    BY <2>3, OutsideOK
  <2> QED BY <2>1, <2>2, <2>3 DEF Next
<1> QED BY <1>1, InitOK, PTL DEF Spec

(* Every variable keeps its type, and the sequence tier never has more     *)
(* than SeqMax admissions counting against a key, whatever the number of   *)
(* workers.                                                                *)
THEOREM TypeCorrect == Spec => []TypeOK
<1>1. IInv => TypeOK
  BY DEF IInv
<1> QED BY <1>1, Invariance, PTL

(* An ACK says what was sent, and a bare one was given by an endpoint that *)
(* sends nothing.                                                          *)
THEOREM AcksAreHonest == Spec => []AckHonest
<1>1. IInv => AckHonest
  BY DEF IInv, AckAt, AckHonest
<1> QED BY <1>1, Invariance, PTL

(* A MISS, a THROTTLED and a gap given to the proxy leave no frame on the  *)
(* wire and no claim, and no gap that a proxy asked for is given to one.   *)
THEOREM RefusalsAreClean == Spec => []RefusalsHoldNothing
<1>1. IInv => RefusalsHoldNothing
  BY DEF IInv, RefusalAt, RefusalsHoldNothing
<1> QED BY <1>1, Invariance, PTL

(* With dedup everywhere, one NACK per grant of a key's claim multicasts   *)
(* its frame, across any number of endpoints and their crashes.            *)
THEOREM ClaimsAreExclusive == Spec => []OneSendPerClaim
<1>1. IInv => OneSendPerClaim
  BY DEF IInv, Ledger, AllDedup, OneSendPerClaim
<1> QED BY <1>1, Invariance, PTL
===============================================================================
