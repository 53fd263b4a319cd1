--------------------------------- MODULE Nack ---------------------------------
(***************************************************************************)
(* processNACK of server/server.go with Retransmit and RetransmitUnicast   *)
(* of retransmit/retransmit.go: several endpoints, each with a pool of     *)
(* workers, answer NACKs from their frame caches and share one dedup store *)
(* of SETNX claims.  A step is what happens between two accesses to state  *)
(* shared with other workers or endpoints.  The sequence tier's limiter is *)
(* abstracted to the number of admissions that still count against a key   *)
(* (SlidingWindow shows that it decides by that number); the other tiers,  *)
(* whose state no property here depends on, may refuse at any time.        *)
(* Frames are their cache keys, <<flow, seq>>; the received src is never   *)
(* nil.  A failed WriteTo of a response is only counted by the code, so a  *)
(* reply here is one that was handed to the socket.                        *)
(***************************************************************************)
EXTENDS Integers, FiniteSets

CONSTANTS
  Endpoint, Worker,
  EndpointOf,   \* the endpoint of each worker
  Key,          \* (HashKey, SeqNum) pairs; HashKey 0 is an unstamped frame
  Source,       \* requesters
  Iface,        \* egress interfaces
  SeqMax,       \* admissions of one key by the sequence tier in a window
  Deployments,  \* the endpoints' configurations, as they may run together
  MaxNacks      \* bound on the NACKs received

ASSUME NackAssumption ==
  /\ EndpointOf \in [Worker -> Endpoint]
  /\ Key \subseteq Nat \X Nat
  /\ SeqMax \in Nat /\ Iface # {}
  /\ Deployments \subseteq
       [Endpoint -> [mc : BOOLEAN, uc : BOOLEAN, ack : BOOLEAN, miss : BOOLEAN,
                     throttle : BOOLEAN, dedup : BOOLEAN, proxy : BOOLEAN]]
  /\ MaxNacks \in Nat

VARIABLES
  mode,      \* each endpoint's configuration, fixed at start
  frames,    \* keys each endpoint's cache holds
  counted,   \* admissions of a key that count in each endpoint's sequence tier
  claimed,   \* keys with an unexpired claim in the dedup store
  grants,    \* history: claims ever made on each key
  at, cur,   \* where each worker is, and the number of the NACK it handles
  nacks,     \* NACKs received so far
  req,       \* each NACK's contents, and the endpoint it was sent to
  flags,     \* ackFlags
  reached,   \* history: interfaces the NACK's multicast was written to
  unicast,   \* history: "no", "sent" or "failed"
  claim,     \* history: the NACK's grant: its number, 0 when suppressed, -1 before
  asked,     \* history: the NACKs whose gap was given to the proxy
  reply,     \* the response to each NACK
  died       \* history: the NACKs whose handlers ended in a crash

store == <<mode, frames, counted, claimed, grants, nacks, req>>
effects == <<flags, reached, unicast, claim, asked>>
vars == <<store, at, cur, effects, reply, died>>

Nacks == 1 .. MaxNacks
Request == [to : Endpoint, key : Key, src : Source, proxied : BOOLEAN]

NoReply == [type |-> "none", flags |-> {}, tier |-> "none"]
Throttled(tier) == [type |-> "throttled", flags |-> {}, tier |-> tier]
Miss == [type |-> "miss", flags |-> {}, tier |-> "none"]
Ack(f) == [type |-> "ack", flags |-> f, tier |-> "none"]

Init ==
  /\ mode \in Deployments
  /\ frames = [e \in Endpoint |-> {}]
  /\ counted = [e \in Endpoint |-> [k \in Key |-> 0]]
  /\ claimed = {}
  /\ grants = [k \in Key |-> 0]
  /\ at = [w \in Worker |-> "idle"]
  /\ cur = [w \in Worker |-> 0]
  /\ nacks = 0
  /\ req = [n \in {} |-> 0]
  /\ flags = [n \in Nacks |-> {}]
  /\ reached = [n \in Nacks |-> {}]
  /\ unicast = [n \in Nacks |-> "no"]
  /\ claim = [n \in Nacks |-> -1]
  /\ asked = {}
  /\ reply = [n \in Nacks |-> NoReply]
  /\ died = {}

(* The worker's endpoint, its configuration, and the NACK it handles.      *)
Home(w) == EndpointOf[w]
Cfg(w) == mode[Home(w)]
Req(w) == req[cur[w]]

Go(w, from, to) == at[w] = from /\ at' = [at EXCEPT ![w] = to] /\ UNCHANGED <<cur, died>>

(* The handler returns, having answered r.                                 *)
Finish(w, from, r) ==
  /\ at[w] = from
  /\ at' = [at EXCEPT ![w] = "idle"]
  /\ cur' = [cur EXCEPT ![w] = 0]
  /\ reply' = [reply EXCEPT ![cur[w]] = r]
  /\ UNCHANGED died

-------------------------------------------------------------------------------
(* A well-formed NACK for one frame starts the handler.  Any other, one    *)
(* validateNACK rejects or one for a range, is let go with no effect.      *)
Receive(w) ==
  /\ at[w] = "idle" /\ nacks < MaxNacks
  /\ nacks' = nacks + 1
  /\ \E r \in Request :
       /\ r.to = Home(w)
       /\ req' = [n \in 1 .. nacks + 1 |-> IF n <= nacks THEN req[n] ELSE r]
  /\ at' = [at EXCEPT ![w] = "ip"]
  /\ cur' = [cur EXCEPT ![w] = nacks + 1]
  /\ UNCHANGED <<mode, frames, counted, claimed, grants, effects, reply, died>>

(* The four tiers.  IP stays silent, the others hint when configured to.   *)
Hint(w, tier) == IF Cfg(w).throttle THEN Throttled(tier) ELSE NoReply

AllowIP(w) ==
  /\ \/ Go(w, "ip", "seq") /\ UNCHANGED reply
     \/ Finish(w, "ip", NoReply)
  /\ UNCHANGED <<store, effects>>

(* Mutant: the limit is admitted once more.                                *)
AllowSequenceOneMore(w) ==
  LET e == Home(w)
      k == Req(w).key
  IN  /\ at[w] = "seq" /\ counted[e][k] <= SeqMax
      /\ Go(w, "seq", "chain")
      /\ counted' = [counted EXCEPT ![e][k] = @ + 1]
      /\ UNCHANGED <<mode, frames, claimed, grants, nacks, req, effects, reply>>

AllowSequence(w) ==
  LET e == Home(w)
      k == Req(w).key
  IN  /\ at[w] = "seq" /\ counted[e][k] < SeqMax
      /\ Go(w, "seq", "chain")
      /\ counted' = [counted EXCEPT ![e][k] = @ + 1]
      /\ UNCHANGED <<mode, frames, claimed, grants, nacks, req, effects, reply>>

DenySequence(w) ==
  /\ at[w] = "seq" /\ counted[Home(w)][Req(w).key] >= SeqMax
  /\ Finish(w, "seq", Hint(w, "seq"))
  /\ UNCHANGED <<store, effects>>

(* The chain tier does not apply to unstamped frames, HashKey 0.           *)
AllowChain(w) ==
  /\ \/ Go(w, "chain", "lookup") /\ UNCHANGED reply
     \/ at[w] = "chain" /\ Req(w).key[1] # 0 /\ Finish(w, "chain", Hint(w, "chain"))
  /\ UNCHANGED <<store, effects>>

AllowGroup(w) ==
  /\ at[w] = "group"
  /\ \/ Go(w, "group", IF Cfg(w).mc THEN "claim" ELSE "unicast") /\ UNCHANGED reply
     \/ Finish(w, "group", Hint(w, "group"))
  /\ UNCHANGED <<store, effects>>

-------------------------------------------------------------------------------
LookupHit(w) ==
  /\ at[w] = "lookup" /\ Req(w).key \in frames[Home(w)]
  /\ Go(w, "lookup", "group")
  /\ UNCHANGED <<store, effects, reply>>

(* A miss is answered, then handed to the proxy unless it came from one.   *)
LookupMiss(w) ==
  /\ at[w] = "lookup" /\ Req(w).key \notin frames[Home(w)]
  /\ Finish(w, "lookup", IF Cfg(w).miss THEN Miss ELSE NoReply)
  /\ asked' = IF Cfg(w).proxy /\ ~Req(w).proxied THEN asked \cup {cur[w]} ELSE asked
  /\ UNCHANGED <<store, flags, reached, unicast, claim>>

LookupError(w) == Finish(w, "lookup", NoReply) /\ UNCHANGED <<store, effects>>

(* Mutant: the claim is written, but not only if absent.                   *)
ClaimAnyway(w) ==
  LET k == Req(w).key
      g == IF k \in claimed THEN grants[k] ELSE grants[k] + 1
  IN  /\ at[w] = "claim" /\ Cfg(w).dedup
      /\ Go(w, "claim", "send")
      /\ claimed' = claimed \cup {k}
      /\ grants' = [grants EXCEPT ![k] = g]
      /\ claim' = [claim EXCEPT ![cur[w]] = g]
      /\ UNCHANGED <<mode, frames, counted, nacks, req, flags, reached, unicast, asked, reply>>

(* Retransmit's SETNX: the first to create the claim sends.                *)
Claim(w) ==
  LET k == Req(w).key
  IN  /\ at[w] = "claim" /\ Cfg(w).dedup /\ k \notin claimed
      /\ Go(w, "claim", "send")
      /\ claimed' = claimed \cup {k}
      /\ grants' = [grants EXCEPT ![k] = @ + 1]
      /\ claim' = [claim EXCEPT ![cur[w]] = grants[k] + 1]
      /\ UNCHANGED <<mode, frames, counted, nacks, req, flags, reached, unicast, asked, reply>>

(* Mutant: a suppressed multicast is flagged as sent.                      *)
SuppressedFlagged(w) ==
  /\ at[w] = "claim" /\ Cfg(w).dedup /\ Req(w).key \in claimed
  /\ Go(w, "claim", "unicast")
  /\ claim' = [claim EXCEPT ![cur[w]] = 0]
  /\ flags' = [flags EXCEPT ![cur[w]] = @ \cup {"mc"}]
  /\ UNCHANGED <<store, reached, unicast, asked, reply>>

Suppressed(w) ==
  /\ at[w] = "claim" /\ Cfg(w).dedup /\ Req(w).key \in claimed
  /\ Go(w, "claim", "unicast")
  /\ claim' = [claim EXCEPT ![cur[w]] = 0]
  /\ UNCHANGED <<store, flags, reached, unicast, asked, reply>>

(* SETNX fails, whether or not the store made the claim: not set, so       *)
(* suppressed.                                                             *)
ClaimError(w) ==
  LET k == Req(w).key
  IN  /\ at[w] = "claim" /\ Cfg(w).dedup
      /\ Go(w, "claim", "unicast")
      /\ claim' = [claim EXCEPT ![cur[w]] = 0]
      /\ \/ UNCHANGED <<claimed, grants>>
         \/ /\ k \notin claimed
            /\ claimed' = claimed \cup {k}
            /\ grants' = [grants EXCEPT ![k] = @ + 1]
      /\ UNCHANGED <<mode, frames, counted, nacks, req, flags, reached, unicast, asked, reply>>

NoDedup(w) ==
  /\ at[w] = "claim" /\ ~Cfg(w).dedup
  /\ Go(w, "claim", "send")
  /\ UNCHANGED <<store, effects, reply>>

(* The writes to all egress sockets, under the mutex.                      *)
Send(w) ==
  /\ at[w] = "send"
  /\ Go(w, "send", "unicast")
  /\ reached' = [reached EXCEPT ![cur[w]] = Iface]
  /\ flags' = [flags EXCEPT ![cur[w]] = @ \cup {"mc"}]
  /\ UNCHANGED <<store, unicast, claim, asked, reply>>

(* Mutant: a failed send is answered MISS, as if nothing had happened.     *)
SendFailsMiss(w) ==
  /\ at[w] = "send"
  /\ \E part \in SUBSET Iface \ {Iface} : reached' = [reached EXCEPT ![cur[w]] = part]
  /\ Finish(w, "send", Miss)
  /\ UNCHANGED <<store, flags, unicast, claim, asked>>

(* No target group, or a write fails: the loop stops there, the error      *)
(* returns from Retransmit and the handler gives up.                       *)
SendFails(w) ==
  /\ at[w] = "send"
  /\ \E part \in SUBSET Iface \ {Iface} : reached' = [reached EXCEPT ![cur[w]] = part]
  /\ Finish(w, "send", NoReply)
  /\ UNCHANGED <<store, flags, unicast, claim, asked>>

WantsUnicast(w) == Cfg(w).uc \/ Req(w).proxied

Unicast(w) ==
  /\ at[w] = "unicast" /\ WantsUnicast(w)
  /\ Go(w, "unicast", "ack")
  /\ \/ /\ unicast' = [unicast EXCEPT ![cur[w]] = "sent"]
        /\ flags' = [flags EXCEPT ![cur[w]] = @ \cup {"uc"}]
     \/ /\ unicast' = [unicast EXCEPT ![cur[w]] = "failed"]
        /\ UNCHANGED flags
  /\ UNCHANGED <<store, reached, claim, asked, reply>>

NoUnicast(w) ==
  /\ at[w] = "unicast" /\ ~WantsUnicast(w)
  /\ Go(w, "unicast", "ack")
  /\ UNCHANGED <<store, effects, reply>>

Attempted(w) == Cfg(w).mc \/ WantsUnicast(w)

Answer(w) ==
  /\ Finish(w, "ack",
       IF Cfg(w).ack /\ (flags[cur[w]] # {} \/ ~Attempted(w)) THEN Ack(flags[cur[w]]) ELSE NoReply)
  /\ UNCHANGED <<store, effects>>

Handler(w) ==
  \/ AllowIP(w) \/ AllowSequence(w) \/ DenySequence(w) \/ AllowChain(w)
  \/ LookupHit(w) \/ LookupMiss(w) \/ LookupError(w) \/ AllowGroup(w)
  \/ Claim(w) \/ Suppressed(w) \/ ClaimError(w) \/ NoDedup(w) \/ Send(w) \/ SendFails(w)
  \/ Unicast(w) \/ NoUnicast(w) \/ Answer(w)

-------------------------------------------------------------------------------
(* Around the handlers: ingress (or a proxied recovery) stores a frame, a  *)
(* frame's TTL ends, a claim's window ends, an admission stops counting.   *)

StoreFrame(e, k) ==
  /\ k \notin frames[e]
  /\ frames' = [frames EXCEPT ![e] = @ \cup {k}]
  /\ UNCHANGED <<mode, counted, claimed, grants, nacks, req, at, cur, effects, reply, died>>

FrameExpires(e, k) ==
  /\ k \in frames[e]
  /\ frames' = [frames EXCEPT ![e] = @ \ {k}]
  /\ UNCHANGED <<mode, counted, claimed, grants, nacks, req, at, cur, effects, reply, died>>

ClaimExpires(k) ==
  /\ k \in claimed
  /\ claimed' = claimed \ {k}
  /\ UNCHANGED <<mode, frames, counted, grants, nacks, req, at, cur, effects, reply, died>>

AdmissionAges(e, k) ==
  /\ counted[e][k] > 0
  /\ counted' = [counted EXCEPT ![e][k] = @ - 1]
  /\ UNCHANGED <<mode, frames, claimed, grants, nacks, req, at, cur, effects, reply, died>>

(* An endpoint dies and starts again.  Its handlers, its limiters and a    *)
(* memory cache are gone; a cache in a store, and the claims, which are in *)
(* the dedup store, are not.                                               *)
Crash(e) ==
  LET up == {w \in Worker : Home(w) = e /\ at[w] # "idle"}
  IN  /\ at' = [w \in Worker |-> IF w \in up THEN "idle" ELSE at[w]]
      /\ cur' = [w \in Worker |-> IF w \in up THEN 0 ELSE cur[w]]
      /\ died' = died \cup {cur[w] : w \in up}
      /\ counted' = [counted EXCEPT ![e] = [k \in Key |-> 0]]
      /\ \/ UNCHANGED frames
         \/ frames' = [frames EXCEPT ![e] = {}]
      /\ UNCHANGED <<mode, claimed, grants, nacks, req, effects, reply>>

Environment ==
  \E k \in Key :
    \/ ClaimExpires(k)
    \/ \E e \in Endpoint : StoreFrame(e, k) \/ FrameExpires(e, k) \/ AdmissionAges(e, k)

Next ==
  \/ Environment
  \/ \E e \in Endpoint : Crash(e)
  \/ \E w \in Worker : Receive(w) \/ Handler(w)

Spec == Init /\ [][Next]_vars

-------------------------------------------------------------------------------
States == {"idle", "ip", "seq", "chain", "lookup", "group", "claim", "send", "unicast", "ack"}

(* Every variable keeps its type, and no key has more than SeqMax          *)
(* admissions that count in an endpoint's sequence tier, however its       *)
(* workers interleave.                                                     *)
TypeOK ==
  /\ mode \in Deployments
  /\ frames \in [Endpoint -> SUBSET Key]
  /\ counted \in [Endpoint -> [Key -> 0 .. SeqMax]]
  /\ claimed \subseteq Key /\ grants \in [Key -> Nat]
  /\ at \in [Worker -> States]
  /\ nacks \in 0 .. MaxNacks
  /\ cur \in [Worker -> 0 .. nacks]
  /\ req \in [1 .. nacks -> Request]
  /\ flags \in [Nacks -> SUBSET {"mc", "uc"}]
  /\ reached \in [Nacks -> SUBSET Iface]
  /\ unicast \in [Nacks -> {"no", "sent", "failed"}]
  /\ claim \in [Nacks -> Int]
  /\ asked \subseteq 1 .. nacks /\ died \subseteq 1 .. nacks
  /\ reply \in [Nacks -> [type : {"none", "throttled", "miss", "ack"},
                         flags : SUBSET {"mc", "uc"}, tier : {"none", "seq", "chain", "group"}]]

(* An ACK is honest: its multicast flag says that this NACK's own copy was *)
(* written to every interface, its unicast flag that one was sent back.    *)
(* A bare ACK, which closes the requester's gap on trust, is given only    *)
(* by an endpoint that never sends, for a NACK no proxy waits on: a send   *)
(* that was attempted and produced nothing is not acknowledged.            *)
AckHonest ==
  \A n \in Nacks : reply[n].type = "ack" =>
    /\ "mc" \in reply[n].flags <=> reached[n] = Iface
    /\ "uc" \in reply[n].flags <=> unicast[n] = "sent"
    /\ reply[n].flags = {} =>
         /\ unicast[n] = "no" /\ claim[n] = -1 /\ ~req[n].proxied
         /\ ~mode[req[n].to].mc /\ ~mode[req[n].to].uc

(* What is answered MISS or THROTTLED, or is handed to the proxy, has put  *)
(* no frame on the wire and holds no claim that would keep a sibling from  *)
(* repairing the gap; and what a proxy asked for is not proxied again (the *)
(* one-hop bound).                                                         *)
RefusalsHoldNothing ==
  \A n \in Nacks : reply[n].type \in {"miss", "throttled"} \/ n \in asked =>
    /\ reached[n] = {} /\ unicast[n] = "no" /\ claim[n] = -1
    /\ n \in asked => ~req[n].proxied

(* SET NX "prevents two" endpoints from retransmitting one frame within a  *)
(* dedup window: no two NACKs, at whatever endpoints, multicast a frame    *)
(* under the same grant of its claim.                                      *)
OneSendPerClaim ==
  (\A e \in Endpoint : mode[e].dedup) =>
    \A n, m \in 1 .. nacks :
      /\ n # m /\ req[n].key = req[m].key /\ reached[n] # {} /\ reached[m] # {}
      => claim[n] > 0 /\ claim[m] > 0 /\ claim[n] # claim[m]

-------------------------------------------------------------------------------
(* What comments in the code say of it, and the code does not keep.        *)

Handling(n) == \E w \in Worker : cur[w] = n

(* "A proxied NACK is always served a unicast copy regardless of uc": once *)
(* its frame was found and its multicast decided, the copy is tried.       *)
ProxiedServed ==
  \A n \in 1 .. nacks :
    req[n].proxied /\ claim[n] # -1 /\ ~Handling(n) /\ n \notin died => unicast[n] # "no"
===============================================================================
