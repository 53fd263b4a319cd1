-------------------------------- MODULE Proxy ---------------------------------
(***************************************************************************)
(* The cross-domain recovery client of proxy/proxy.go at several           *)
(* downstream endpoints: a miss enqueues a job (Enqueue), a worker claims  *)
(* the gap, asks the upstreams in turn, re-caches the frame (module        *)
(* FrameCache) and delivers it as the retransmit modes say (recover).  A   *)
(* claim is a SETNX entry of a dedup store the endpoints share.  What an   *)
(* upstream answers is left open: fetch gets a frame or does not, within   *)
(* its deadline.                                                           *)
(***************************************************************************)
EXTENDS Integers, Sequences, FiniteSets

CONSTANTS
  Endpoint, Worker,
  EndpointOf,     \* the endpoint of each worker
  Key, Requester,
  Upstreams,      \* MaxEndpoints, the number of upstreams tried
  QueueDepth,     \* capacity of a job queue
  Modes,          \* [mc, uc, dedup]: configurations an endpoint may run with
  MaxJobs         \* bound on the jobs submitted

ASSUME ProxyAssumption ==
  /\ EndpointOf \in [Worker -> Endpoint]
  /\ Upstreams \in Nat \ {0} /\ QueueDepth \in Nat \ {0} /\ MaxJobs \in Nat
  /\ Modes \subseteq [mc : BOOLEAN, uc : BOOLEAN, dedup : BOOLEAN]

VARIABLES
  mode,      \* each endpoint's configuration
  queue,     \* each endpoint's job queue, of numbers of jobs
  jobs,      \* every job submitted: [key, by, ep]
  at, cur,   \* where each worker is, and its job
  tried,     \* upstreams asked for a worker's job, i of recover
  claims,    \* unexpired claims, each with the job that made it
  canceled,  \* ctx is done
  result,    \* history: how each job stands or ended
  owner,     \* history: the job that held a deduped job's claim
  delivered  \* history: the retransmits called for each job

progress == <<queue, at, cur, result>>
vars == <<mode, jobs, progress, tried, claims, canceled, owner, delivered>>

Number == 1 .. MaxJobs
Home(w) == EndpointOf[w]

Init ==
  /\ mode \in [Endpoint -> Modes]
  /\ queue = [e \in Endpoint |-> <<>>]
  /\ jobs = <<>>
  /\ at = [w \in Worker |-> "idle"]
  /\ cur = [w \in Worker |-> 0]
  /\ tried = [w \in Worker |-> 0]
  /\ claims = <<>>
  /\ canceled = FALSE
  /\ result = [n \in Number |-> "none"]
  /\ owner = [n \in Number |-> 0]
  /\ delivered = [n \in Number |-> {}]

(* Mutant: the send does not look whether the queue is full.               *)
EnqueueBeyond(e) ==
  /\ Len(jobs) < MaxJobs
  /\ \E k \in Key, r \in Requester : jobs' = Append(jobs, [key |-> k, by |-> r, ep |-> e])
  /\ queue' = [queue EXCEPT ![e] = Append(@, Len(jobs'))]
  /\ result' = [result EXCEPT ![Len(jobs')] = "queued"]
  /\ UNCHANGED <<mode, at, cur, tried, claims, canceled, owner, delivered>>

(* Enqueue, called by the NACK server on a miss: a full queue drops the    *)
(* job.                                                                    *)
Enqueue(e) ==
  /\ Len(jobs) < MaxJobs
  /\ \E k \in Key, r \in Requester : jobs' = Append(jobs, [key |-> k, by |-> r, ep |-> e])
  /\ \/ /\ Len(queue[e]) < QueueDepth
        /\ queue' = [queue EXCEPT ![e] = Append(@, Len(jobs'))]
        /\ result' = [result EXCEPT ![Len(jobs')] = "queued"]
     \/ /\ Len(queue[e]) = QueueDepth
        /\ result' = [result EXCEPT ![Len(jobs')] = "dropped"]
        /\ UNCHANGED queue
  /\ UNCHANGED <<mode, at, cur, tried, claims, canceled, owner, delivered>>

(* A step of the job at hand, and its end.                                 *)
Go(w, from, to) ==
  /\ at[w] = from
  /\ at' = [at EXCEPT ![w] = to]
  /\ UNCHANGED <<mode, jobs, queue, cur, result, canceled>>

Finish(w, from, r) ==
  /\ at[w] = from
  /\ at' = [at EXCEPT ![w] = "idle"]
  /\ cur' = [cur EXCEPT ![w] = 0]
  /\ tried' = [tried EXCEPT ![w] = 0]
  /\ result' = [result EXCEPT ![cur[w]] = r]
  /\ UNCHANGED <<mode, jobs, queue, canceled>>

(* Start: a worker takes the next job, or leaves once ctx is done; with    *)
(* both ready, select takes either.                                        *)
Take(w) ==
  LET e == Home(w)
  IN  /\ at[w] = "idle" /\ queue[e] # <<>>
      /\ at' = [at EXCEPT ![w] = "claim"]
      /\ cur' = [cur EXCEPT ![w] = Head(queue[e])]
      /\ queue' = [queue EXCEPT ![e] = Tail(@)]
      /\ result' = [result EXCEPT ![Head(queue[e])] = "taken"]
      /\ UNCHANGED <<mode, jobs, tried, claims, canceled, owner, delivered>>

Leave(w) ==
  /\ canceled
  /\ Go(w, "idle", "gone")
  /\ UNCHANGED <<tried, claims, owner, delivered>>

-------------------------------------------------------------------------------
(* Mutant: the claim is on the gap alone, whatever the delivery.           *)
GapOnly(n) == <<jobs[n].key>>

(* The claim of a job: on the gap when one multicast serves every          *)
(* requester, on the gap and the requester when the frame is unicast.      *)
GapClaim(n) ==
  IF mode[jobs[n].ep].uc THEN <<jobs[n].key, jobs[n].by>> ELSE <<jobs[n].key>>

Holding(n) == [c \in DOMAIN claims \cup {GapClaim(n)} |-> IF c = GapClaim(n) THEN n ELSE claims[c]]

Claim(w) ==
  /\ at[w] = "claim" /\ mode[Home(w)].dedup
  /\ GapClaim(cur[w]) \notin DOMAIN claims
  /\ Go(w, "claim", "next")
  /\ claims' = Holding(cur[w])
  /\ UNCHANGED <<tried, owner, delivered>>

Deduped(w) ==
  /\ at[w] = "claim" /\ mode[Home(w)].dedup
  /\ GapClaim(cur[w]) \in DOMAIN claims
  /\ Finish(w, "claim", "deduped")
  /\ owner' = [owner EXCEPT ![cur[w]] = claims[GapClaim(cur[w])]]
  /\ UNCHANGED <<claims, delivered>>

(* An error of SETNX, whether or not the store made the claim, is passed   *)
(* over.                                                                   *)
ClaimError(w) ==
  /\ at[w] = "claim" /\ mode[Home(w)].dedup
  /\ Go(w, "claim", "next")
  /\ \/ UNCHANGED claims
     \/ GapClaim(cur[w]) \notin DOMAIN claims /\ claims' = Holding(cur[w])
  /\ UNCHANGED <<tried, owner, delivered>>

NoDedup(w) ==
  /\ ~mode[Home(w)].dedup
  /\ Go(w, "claim", "next")
  /\ UNCHANGED <<tried, claims, owner, delivered>>

(* The loop over upstreams, which looks at ctx before each.                *)
Ask(w) ==
  /\ at[w] = "next" /\ tried[w] < Upstreams /\ ~canceled
  /\ Go(w, "next", "fetch")
  /\ UNCHANGED <<tried, claims, owner, delivered>>

Quit(w) ==
  /\ at[w] = "next" /\ tried[w] < Upstreams /\ canceled
  /\ Finish(w, "next", "quit")
  /\ UNCHANGED <<claims, owner, delivered>>

Exhausted(w) ==
  /\ at[w] = "next" /\ tried[w] = Upstreams
  /\ Finish(w, "next", "exhausted")
  /\ UNCHANGED <<claims, owner, delivered>>

(* Mutant: an upstream that gives nothing is asked again.                  *)
FetchAgain(w) ==
  /\ Go(w, "fetch", "next")
  /\ UNCHANGED <<tried, claims, owner, delivered>>

(* fetch returns nothing: no address or socket, a failed send, MISS, or    *)
(* the deadline with only ACK, THROTTLED or no answer before it.           *)
FetchFails(w) ==
  /\ Go(w, "fetch", "next")
  /\ tried' = [tried EXCEPT ![w] = @ + 1]
  /\ UNCHANGED <<claims, owner, delivered>>

(* fetch returns a frame; whether store then succeeds changes nothing.     *)
Fetched(w) ==
  /\ Go(w, "fetch", IF mode[Home(w)].mc THEN "multicast" ELSE "unicast")
  /\ UNCHANGED <<tried, claims, owner, delivered>>

(* Mutant: after the multicast, its requester is taken to have the frame.  *)
MulticastOnly(w) ==
  /\ Finish(w, "multicast", "recovered")
  /\ delivered' = [delivered EXCEPT ![cur[w]] = @ \cup {"mc"}]
  /\ UNCHANGED <<claims, owner>>

(* Retransmit, with any outcome: suppressed, failed or sent.               *)
Multicast(w) ==
  /\ Go(w, "multicast", "unicast")
  /\ delivered' = [delivered EXCEPT ![cur[w]] = @ \cup {"mc"}]
  /\ UNCHANGED <<tried, claims, owner>>

(* RetransmitUnicast where uc is on, with any outcome, and the return.     *)
Unicast(w) ==
  /\ Finish(w, "unicast", "recovered")
  /\ delivered' = [delivered EXCEPT ![cur[w]] = IF mode[Home(w)].uc THEN @ \cup {"uc"} ELSE @]
  /\ UNCHANGED <<claims, owner>>

Recover(w) ==
  \/ Claim(w) \/ Deduped(w) \/ ClaimError(w) \/ NoDedup(w)
  \/ Ask(w) \/ Quit(w) \/ Exhausted(w) \/ FetchFails(w) \/ Fetched(w)
  \/ Multicast(w) \/ Unicast(w)

Cancel ==
  /\ ~canceled /\ canceled' = TRUE
  /\ UNCHANGED <<mode, jobs, progress, tried, claims, owner, delivered>>

(* The dedup window of a claim ends.                                       *)
ClaimExpires ==
  /\ \E c \in DOMAIN claims : claims' = [d \in DOMAIN claims \ {c} |-> claims[d]]
  /\ UNCHANGED <<mode, jobs, progress, tried, canceled, owner, delivered>>

Next ==
  \/ \E e \in Endpoint : Enqueue(e)
  \/ \E w \in Worker : Take(w) \/ Leave(w) \/ Recover(w)
  \/ Cancel \/ ClaimExpires

(* Workers are goroutines, and fetch has a deadline: none waits forever.   *)
Fairness ==
  \A w \in Worker : WF_vars(Take(w) \/ Leave(w)) /\ WF_vars(Recover(w))

Spec == Init /\ [][Next]_vars /\ Fairness

-------------------------------------------------------------------------------
(* Type: an endpoint never queues more than QueueDepth jobs (the channel   *)
(* of New), nor asks more upstreams than MaxEndpoints.                     *)
TypeOK ==
  /\ mode \in [Endpoint -> Modes]
  /\ jobs \in Seq([key : Key, by : Requester, ep : Endpoint]) /\ Len(jobs) <= MaxJobs
  /\ \A e \in Endpoint : queue[e] \in Seq(1 .. Len(jobs)) /\ Len(queue[e]) <= QueueDepth
  /\ at \in [Worker -> {"idle", "claim", "next", "fetch", "multicast", "unicast", "gone"}]
  /\ \A w \in Worker : cur[w] \in IF at[w] \in {"idle", "gone"} THEN {0} ELSE 1 .. Len(jobs)
  /\ tried \in [Worker -> 0 .. Upstreams]
  /\ \A c \in DOMAIN claims : claims[c] \in 1 .. Len(jobs)
  /\ canceled \in BOOLEAN
  /\ result \in [Number -> {"none", "queued", "dropped", "taken", "deduped", "quit", "exhausted", "recovered"}]
  /\ owner \in [Number -> 0 .. Len(jobs)]
  /\ delivered \in [Number -> SUBSET {"mc", "uc"}]

(* recover gives a job up only to a job that answers for it: one for the   *)
(* same gap and, where frames go out by unicast, for the same requester at *)
(* an endpoint that unicasts; and if that job recovers the frame it has    *)
(* called every retransmit its endpoint's modes ask for, whatever became   *)
(* of the first one.                                                       *)
DedupedIsCovered ==
  \A n \in Number : result[n] = "deduped" =>
    LET m == owner[n]  e == jobs[m].ep
    IN  /\ m # n /\ jobs[m].key = jobs[n].key
        /\ mode[jobs[n].ep].uc => mode[e].uc /\ jobs[m].by = jobs[n].by
        /\ result[m] = "recovered" =>
              delivered[m] = {d \in {"mc", "uc"} : mode[e][d]}

(* A job that Enqueue accepted ends: recovered, deduped, exhausted or quit *)
(* at shutdown.  Only a job no worker took may be left when ctx is done.   *)
JobEnds ==
  \A n \in Number :
    result[n] \in {"queued", "taken"} ~>
      \/ result[n] \notin {"queued", "taken"}
      \/ result[n] = "queued" /\ canceled
===============================================================================
