----------------------------- MODULE ProxyProofs ------------------------------
(***************************************************************************)
(* Proofs about Proxy, for every fleet of endpoints and workers, every     *)
(* mixture of their modes, and any number of jobs.                         *)
(***************************************************************************)
EXTENDS Proxy, TLAPS

Busy == {"claim", "next", "fetch", "multicast", "unicast"}

(* A worker that waits for an upstream has counted only those before it.   *)
Shape ==
  /\ queue \in [Endpoint -> Seq(Nat)] /\ cur \in [Worker -> Nat]
  /\ \A w \in Worker : at[w] = "fetch" => tried[w] < Upstreams

(* The jobs received so far have a place.                                  *)
Numbered == \A n \in Number : result[n] = "none" <=> Len(jobs) < n

(* A queue holds queued jobs of its endpoint, each once, in order.         *)
Lined ==
  \A e \in Endpoint :
    /\ \A i \in 1 .. Len(queue[e]) :
         result[queue[e][i]] = "queued" /\ jobs[queue[e][i]].ep = e
    /\ \A i, j \in 1 .. Len(queue[e]) : i < j => queue[e][i] < queue[e][j]

(* A worker works on a job taken from the queue of its endpoint ...        *)
Working ==
  \A w \in Worker : at[w] \in Busy => result[cur[w]] = "taken" /\ jobs[cur[w]].ep = Home(w)

(* ... which no other worker works on.                                     *)
Alone ==
  \A v, w \in Worker : at[v] \in Busy /\ at[w] \in Busy /\ cur[v] = cur[w] => v = w

(* A job is in one place: in the queue of its endpoint, once, or with one  *)
(* worker of its endpoint, or in neither.                                  *)
Places == Numbered /\ Lined /\ Working /\ Alone

(* A claim is the claim of the job that made it, and that job has passed   *)
(* the dedup gate.                                                         *)
Held ==
  \A c \in DOMAIN claims :
    /\ GapClaim(claims[c]) = c
    /\ result[claims[c]] # "queued"
    /\ \A w \in Worker : at[w] = "claim" => claims[c] # cur[w]

(* What was retransmitted for a job: nothing before a worker has it, what  *)
(* the worker's step says while one has it, and, once it is recovered, all *)
(* that the modes of its endpoint call for.                                *)
Unsent == \A n \in Number : result[n] \in {"none", "queued"} => delivered[n] = {}

SoFar ==
  \A w \in Worker :
    /\ at[w] \in {"claim", "next", "fetch", "multicast"} => delivered[cur[w]] = {}
    /\ at[w] = "multicast" => mode[Home(w)].mc
    /\ at[w] = "unicast" => delivered[cur[w]] = IF mode[Home(w)].mc THEN {"mc"} ELSE {}

Complete ==
  \A n \in Number : result[n] = "recovered" =>
    delivered[n] = {d \in {"mc", "uc"} : mode[jobs[n].ep][d]}

Sent == Unsent /\ SoFar /\ Complete

(* A deduped job has the same claim as the job it was given up to.         *)
Covered ==
  \A n \in Number : result[n] = "deduped" =>
    owner[n] \in 1 .. Len(jobs) /\ owner[n] # n /\ GapClaim(owner[n]) = GapClaim(n)

IInv == TypeOK /\ Shape /\ Places /\ Held /\ Sent /\ Covered

-------------------------------------------------------------------------------
(* The conjuncts of the invariant that give terms their types.             *)
LEMMA Types ==
  ASSUME TypeOK, Shape
  PROVE  /\ Len(jobs) \in Nat /\ Len(jobs) <= MaxJobs /\ 1 .. Len(jobs) \subseteq Number
         /\ \A n \in 1 .. Len(jobs) :
              jobs[n] \in [key : Key, by : Requester, ep : Endpoint]
         /\ \A e \in Endpoint : /\ queue[e] \in Seq(Nat) /\ Len(queue[e]) \in Nat
                                /\ \A i \in 1 .. Len(queue[e]) : queue[e][i] \in 1 .. Len(jobs)
         /\ \A w \in Worker : at[w] \in Busy => cur[w] \in 1 .. Len(jobs) /\ cur[w] \in Number
         /\ \A w \in Worker : Home(w) \in Endpoint
<1> USE ProxyAssumption
<1>1. Len(jobs) \in Nat /\ Len(jobs) <= MaxJobs
  BY DEF TypeOK
<1>2. 1 .. Len(jobs) \subseteq Number
  BY <1>1 DEF Number
<1>3. \A n \in 1 .. Len(jobs) : jobs[n] \in [key : Key, by : Requester, ep : Endpoint]
  <2>1. \A R : \A s \in Seq(R) : \A n \in 1 .. Len(s) : s[n] \in R
    OBVIOUS
  <2> QED BY <2>1 DEF TypeOK
<1>4. ASSUME NEW e \in Endpoint
      PROVE  /\ queue[e] \in Seq(Nat) /\ Len(queue[e]) \in Nat
             /\ \A i \in 1 .. Len(queue[e]) : queue[e][i] \in 1 .. Len(jobs)
  <2>1. \A R : \A s \in Seq(R) : Len(s) \in Nat /\ \A n \in 1 .. Len(s) : s[n] \in R
    OBVIOUS
  <2>2. queue[e] \in Seq(Nat) /\ queue[e] \in Seq(1 .. Len(jobs))
    BY DEF TypeOK, Shape
  <2> QED BY <2>1, <2>2
<1>5. \A w \in Worker : at[w] \in Busy => cur[w] \in 1 .. Len(jobs)
  BY DEF TypeOK, Busy
<1> QED BY <1>1, <1>2, <1>3, <1>4, <1>5 DEF Home

(* A queue holds numbers of its endpoint's queued jobs, in order.          *)
LEMMA Queues ==
  ASSUME TypeOK, Shape, Places
  PROVE  \A e \in Endpoint :
           /\ queue[e] \in Seq(1 .. Len(jobs)) /\ Len(queue[e]) <= QueueDepth
           /\ Len(queue[e]) \in Nat
           /\ \A i \in 1 .. Len(queue[e]) :
                /\ queue[e][i] \in 1 .. Len(jobs) /\ queue[e][i] \in Number
                /\ result[queue[e][i]] = "queued" /\ jobs[queue[e][i]].ep = e
           /\ \A i, j \in 1 .. Len(queue[e]) : i < j => queue[e][i] < queue[e][j]
<1> TAKE e \in Endpoint
<1>1. queue[e] \in Seq(1 .. Len(jobs)) /\ Len(queue[e]) <= QueueDepth
  BY DEF TypeOK
<1>2. /\ Len(queue[e]) \in Nat
      /\ \A i \in 1 .. Len(queue[e]) : queue[e][i] \in 1 .. Len(jobs) /\ queue[e][i] \in Number
  BY Types
<1>3. /\ \A i \in 1 .. Len(queue[e]) : result[queue[e][i]] = "queued" /\ jobs[queue[e][i]].ep = e
      /\ \A i, j \in 1 .. Len(queue[e]) : i < j => queue[e][i] < queue[e][j]
  BY DEF Places, Lined
<1> QED BY <1>1, <1>2, <1>3

(* Two claims are equal only if they are of one form.                      *)
LEMMA ClaimForms ==
  ASSUME NEW k, NEW r, NEW k2, NEW r2
  PROVE  /\ <<k>> # <<k2, r2>>
         /\ <<k>> = <<k2>> => k = k2
         /\ <<k, r>> = <<k2, r2>> => k = k2 /\ r = r2
<1>1. Len(<<k>>) = 1 /\ Len(<<k2, r2>>) = 2
  OBVIOUS
<1>2. <<k>>[1] = k /\ <<k2>>[1] = k2
  OBVIOUS
<1>3. <<k, r>>[1] = k /\ <<k2, r2>>[1] = k2 /\ <<k, r>>[2] = r /\ <<k2, r2>>[2] = r2
  OBVIOUS
<1> QED BY <1>1, <1>2, <1>3

-------------------------------------------------------------------------------
(* A step of the job at hand.                                              *)
LEMMA GoOK ==
  ASSUME TypeOK, Shape, Places, Covered, NEW w \in Worker, NEW from, NEW to, Go(w, from, to),
         \/ from \in {"claim", "next", "fetch", "multicast"}
              /\ to \in {"next", "fetch", "multicast", "unicast"}
         \/ from = "idle" /\ to = "gone",
         owner' = owner,
         tried' \in [Worker -> 0 .. Upstreams],
         \A v \in Worker : at'[v] = "fetch" => tried'[v] < Upstreams,
         delivered' \in [Number -> SUBSET {"mc", "uc"}],
         \A c \in DOMAIN claims' : claims'[c] \in 1 .. Len(jobs)
  PROVE  TypeOK' /\ Shape' /\ Places' /\ Covered'
<1>0. /\ at \in [Worker -> {"idle", "claim", "next", "fetch", "multicast", "unicast", "gone"}]
      /\ at' = [at EXCEPT ![w] = to] /\ at[w] = from
      /\ mode' = mode /\ jobs' = jobs /\ queue' = queue /\ cur' = cur /\ result' = result
      /\ canceled' = canceled
  BY DEF Go, TypeOK
<1>1. at' \in [Worker -> {"idle", "claim", "next", "fetch", "multicast", "unicast", "gone"}]
  BY <1>0
<1>2. \A v \in Worker : at'[v] \in Busy <=> at[v] \in Busy
  BY <1>0 DEF Busy
<1>3. \A v \in Worker : cur'[v] \in IF at'[v] \in {"idle", "gone"} THEN {0} ELSE 1 .. Len(jobs')
  BY <1>0 DEF TypeOK
<1>4. TypeOK'
  BY <1>0, <1>1, <1>3 DEF TypeOK
<1>5. Shape'
  BY <1>0 DEF Shape
<1>6. Places'
  BY <1>0, <1>2 DEF Places, Numbered, Lined, Working, Alone
<1>7. Covered'
  BY <1>0 DEF Covered, GapClaim
<1> QED BY <1>4, <1>5, <1>6, <1>7

(* Where claims only go, or stay, and no worker comes to the gate.         *)
LEMMA HeldStays ==
  ASSUME Held, mode' = mode, jobs' = jobs,
         DOMAIN claims' \subseteq DOMAIN claims, \A c \in DOMAIN claims' : claims'[c] = claims[c],
         \A c \in DOMAIN claims' : result'[claims[c]] # "queued",
         \A v \in Worker : at'[v] = "claim" => at[v] = "claim" /\ cur'[v] = cur[v]
  PROVE  Held'
<1> SUFFICES ASSUME NEW c \in DOMAIN claims'
             PROVE  /\ GapClaim(claims[c])' = c
                    /\ result'[claims[c]] # "queued"
                    /\ \A v \in Worker : at'[v] = "claim" => claims[c] # cur'[v]
  BY DEF Held, GapClaim
<1>1. c \in DOMAIN claims
  OBVIOUS
<1>2. GapClaim(claims[c]) = c /\ \A v \in Worker : at[v] = "claim" => claims[c] # cur[v]
  BY <1>1 DEF Held
<1>3. claims'[c] = claims[c]
  OBVIOUS
<1> QED BY <1>2, <1>3 DEF GapClaim

(* A new claim, of the job of a worker that passes the gate.               *)
LEMMA HeldGrows ==
  ASSUME TypeOK, Shape, Places, Held, NEW w \in Worker, Go(w, "claim", "next"),
         claims' = Holding(cur[w])
  PROVE  Held' /\ \A c \in DOMAIN claims' : claims'[c] \in 1 .. Len(jobs)
<1>1. PICK n : n = cur[w]
  OBVIOUS
<1>2. /\ at[w] = "claim" /\ at' = [at EXCEPT ![w] = "next"]
      /\ at \in [Worker -> {"idle", "claim", "next", "fetch", "multicast", "unicast", "gone"}]
      /\ mode' = mode /\ jobs' = jobs /\ cur' = cur /\ result' = result
  BY DEF Go, TypeOK
<1>3. n \in 1 .. Len(jobs) /\ result[n] = "taken"
  BY <1>1, <1>2, Types DEF Places, Working, Busy
<1>4. /\ DOMAIN claims' = DOMAIN claims \cup {GapClaim(n)}
      /\ claims'[GapClaim(n)] = n
      /\ \A c \in DOMAIN claims : c # GapClaim(n) => claims'[c] = claims[c]
  BY <1>1 DEF Holding
<1>5. \A v \in Worker : at'[v] = "claim" => at[v] = "claim" /\ cur[v] # n
  <2> SUFFICES ASSUME NEW v \in Worker, at'[v] = "claim" PROVE at[v] = "claim" /\ cur[v] # n
    OBVIOUS
  <2>1. v # w /\ at[v] = "claim"
    BY <1>2
  <2> QED BY <1>1, <1>2, <2>1 DEF Places, Alone, Busy
<1>6. ASSUME NEW c \in DOMAIN claims'
      PROVE  /\ GapClaim(claims'[c]) = c
             /\ result[claims'[c]] # "queued"
             /\ \A v \in Worker : at'[v] = "claim" => claims'[c] # cur[v]
             /\ claims'[c] \in 1 .. Len(jobs)
  <2>1. CASE c = GapClaim(n)
    BY <1>3, <1>4, <1>5, <2>1
  <2>2. CASE c # GapClaim(n)
    BY <1>4, <1>5, <2>2 DEF Held, TypeOK
  <2> QED BY <2>1, <2>2
<1> QED BY <1>2, <1>6 DEF Held, GapClaim

(* What is sent for one job changes nothing for the others: SentStep moves *)
(* one worker w on within its job, Sent for which is left to be shown.     *)
LEMMA SentStep ==
  ASSUME TypeOK, Shape, Places, Sent, NEW w \in Worker, NEW from \in Busy, NEW to \in Busy,
         Go(w, from, to), to # "claim",
         delivered' \in [Number -> SUBSET {"mc", "uc"}],
         \A n \in Number : n # cur[w] => delivered'[n] = delivered[n],
         to \in {"next", "fetch", "multicast"} => delivered'[cur[w]] = {},
         to = "multicast" => mode[Home(w)].mc,
         to = "unicast" => delivered'[cur[w]] = IF mode[Home(w)].mc THEN {"mc"} ELSE {}
  PROVE  Sent'
<1>1. /\ at[w] = from /\ at' = [at EXCEPT ![w] = to]
      /\ at \in [Worker -> {"idle", "claim", "next", "fetch", "multicast", "unicast", "gone"}]
      /\ mode' = mode /\ jobs' = jobs /\ cur' = cur /\ result' = result
  BY DEF Go, TypeOK
<1>2. cur[w] \in Number /\ result[cur[w]] = "taken"
  BY <1>1, Types DEF Places, Working
<1>3. \A v \in Worker : v # w => at'[v] = at[v]
  BY <1>1
<1>4. at'[w] = to
  BY <1>1
<1>5. \A v \in Worker : v # w /\ at[v] \in Busy => delivered'[cur[v]] = delivered[cur[v]]
  BY <1>1, Types DEF Places, Alone
<1>6. \A n \in Number : result[n] \in {"none", "queued"} => delivered'[n] = {}
  BY <1>2 DEF Sent, Unsent
<1>7. \A n \in Number : result[n] = "recovered" =>
        delivered'[n] = {d \in {"mc", "uc"} : mode[jobs[n].ep][d]}
  BY <1>2 DEF Sent, Complete
<1>8. ASSUME NEW v \in Worker
      PROVE  /\ at'[v] \in {"claim", "next", "fetch", "multicast"} => delivered'[cur[v]] = {}
             /\ at'[v] = "multicast" => mode[Home(v)].mc
             /\ at'[v] = "unicast" =>
                  delivered'[cur[v]] = IF mode[Home(v)].mc THEN {"mc"} ELSE {}
  <2>1. CASE v = w
    BY <1>4, <2>1 DEF Busy
  <2>2. CASE v # w
    BY <1>3, <1>5, <2>2 DEF Sent, SoFar, Busy
  <2> QED BY <2>1, <2>2
<1>9. mode' = mode /\ jobs' = jobs /\ cur' = cur /\ result' = result
  BY <1>1
<1>10. Unsent' /\ Complete'
  BY <1>6, <1>7, <1>9 DEF Unsent, Complete
<1>11. SoFar'
  BY <1>8, <1>9 DEF SoFar, Home
<1> QED BY <1>10, <1>11 DEF Sent

(* The end of a job.                                                       *)
LEMMA FinishOK ==
  ASSUME IInv, NEW w \in Worker, NEW from \in Busy,
         NEW r \in {"deduped", "quit", "exhausted", "recovered"}, Finish(w, from, r),
         claims' = claims,
         delivered' \in [Number -> SUBSET {"mc", "uc"}],
         \A n \in Number : n # cur[w] => delivered'[n] = delivered[n],
         r = "recovered" =>
           delivered'[cur[w]] = {d \in {"mc", "uc"} : mode[jobs[cur[w]].ep][d]},
         owner' \in [Number -> 0 .. Len(jobs)],
         \A n \in Number : n # cur[w] => owner'[n] = owner[n],
         r = "deduped" => /\ owner'[cur[w]] \in 1 .. Len(jobs) /\ owner'[cur[w]] # cur[w]
                          /\ GapClaim(owner'[cur[w]]) = GapClaim(cur[w])
  PROVE  IInv'
<1>0. TypeOK /\ Shape /\ Places /\ Held /\ Sent /\ Covered
  BY DEF IInv
<1>1. PICK n : n = cur[w]
  OBVIOUS
<1>2. /\ at[w] = from /\ at' = [at EXCEPT ![w] = "idle"]
      /\ cur' = [cur EXCEPT ![w] = 0] /\ tried' = [tried EXCEPT ![w] = 0]
      /\ result' = [result EXCEPT ![n] = r]
      /\ mode' = mode /\ jobs' = jobs /\ queue' = queue /\ canceled' = canceled
  BY <1>1 DEF Finish
<1>3. /\ at \in [Worker -> {"idle", "claim", "next", "fetch", "multicast", "unicast", "gone"}]
      /\ cur \in [Worker -> Nat] /\ tried \in [Worker -> 0 .. Upstreams]
      /\ result \in [Number -> {"none", "queued", "dropped", "taken", "deduped", "quit",
                                "exhausted", "recovered"}]
  BY <1>0 DEF TypeOK, Shape
<1>4. n \in 1 .. Len(jobs) /\ n \in Number /\ result[n] = "taken" /\ Len(jobs) \in Nat
  BY <1>0, <1>1, <1>2, Types DEF Places, Working
<1>5. /\ result'[n] = r
      /\ \A m \in Number : m # n => result'[m] = result[m]
      /\ result' \in [Number -> {"none", "queued", "dropped", "taken", "deduped", "quit",
                                 "exhausted", "recovered"}]
  BY <1>2, <1>3, <1>4
<1>6. /\ at'[w] = "idle" /\ cur'[w] = 0
      /\ \A v \in Worker : v # w => at'[v] = at[v] /\ cur'[v] = cur[v]
      /\ at' \in [Worker -> {"idle", "claim", "next", "fetch", "multicast", "unicast", "gone"}]
      /\ cur' \in [Worker -> Nat]
      /\ tried' \in [Worker -> 0 .. Upstreams]
  BY <1>2, <1>3, ProxyAssumption
<1>7. ASSUME NEW v \in Worker, at'[v] \in Busy
      PROVE  /\ v # w /\ at[v] \in Busy /\ at'[v] = at[v] /\ cur'[v] = cur[v] /\ cur[v] # n
             /\ cur[v] \in Number
  <2>1. v # w
    BY <1>6, <1>7 DEF Busy
  <2>2. at[v] \in Busy /\ at'[v] = at[v] /\ cur'[v] = cur[v]
    BY <1>6, <1>7, <2>1
  <2>3. cur[v] # cur[w] /\ cur[v] \in Number
    BY <1>0, <1>2, <2>1, <2>2, Types DEF Places, Alone
  <2> QED BY <1>1, <2>1, <2>2, <2>3
<1>8. TypeOK'
  <2>1. \A v \in Worker : cur'[v] \in IF at'[v] \in {"idle", "gone"} THEN {0} ELSE 1 .. Len(jobs')
    BY <1>0, <1>2, <1>6 DEF TypeOK
  <2> QED BY <1>0, <1>2, <1>5, <1>6, <2>1 DEF TypeOK
<1>9. Shape'
  <2>1. \A v \in Worker : at'[v] = "fetch" => at[v] = "fetch" /\ tried'[v] = tried[v]
    BY <1>0, <1>2, <1>3, <1>6
  <2> QED BY <1>0, <1>2, <1>6, <2>1 DEF Shape
<1>10. Places'
  <2>1. \A m \in Number : result'[m] = "none" <=> Len(jobs) < m
    BY <1>0, <1>4, <1>5 DEF Places, Numbered
  <2>2. ASSUME NEW e \in Endpoint
        PROVE  /\ \A i \in 1 .. Len(queue[e]) :
                    result'[queue[e][i]] = "queued" /\ jobs[queue[e][i]].ep = e
               /\ \A i, j \in 1 .. Len(queue[e]) : i < j => queue[e][i] < queue[e][j]
    <3>1. PICK q : q = queue[e]
      OBVIOUS
    <3>2. /\ \A i \in 1 .. Len(q) : /\ q[i] \in Number /\ result[q[i]] = "queued"
                                    /\ jobs[q[i]].ep = e
          /\ \A i, j \in 1 .. Len(q) : i < j => q[i] < q[j]
      BY <1>0, <3>1, Queues
    <3>3. \A m \in Number : result[m] = "queued" => result'[m] = "queued"
      BY <1>4, <1>5
    <3> QED BY <3>1, <3>2, <3>3
  <2>3. ASSUME NEW v \in Worker, at'[v] \in Busy
        PROVE  result'[cur'[v]] = "taken" /\ jobs[cur'[v]].ep = Home(v)
    <3>1. v # w /\ at[v] \in Busy /\ cur'[v] = cur[v] /\ cur[v] # n /\ cur[v] \in Number
      BY <1>7, <2>3
    <3>2. result[cur[v]] = "taken" /\ jobs[cur[v]].ep = Home(v)
      BY <1>0, <3>1 DEF Places, Working
    <3> QED BY <1>5, <3>1, <3>2
  <2>4. \A v, u \in Worker : at'[v] \in Busy /\ at'[u] \in Busy /\ cur'[v] = cur'[u] => v = u
    BY <1>0, <1>7 DEF Places, Alone
  <2>5. queue' = queue /\ jobs' = jobs
    BY <1>2
  <2>6. Numbered' /\ Alone'
    BY <2>1, <2>4, <2>5 DEF Numbered, Alone
  <2>7. Lined'
    BY <2>2, <2>5 DEF Lined
  <2>8. Working'
    BY <2>3, <2>5 DEF Working, Home
  <2> QED BY <2>6, <2>7, <2>8 DEF Places
<1>11. Held'
  <2>1. \A c \in DOMAIN claims : result'[claims[c]] # "queued"
    <3> SUFFICES ASSUME NEW c \in DOMAIN claims PROVE result'[claims[c]] # "queued"
      OBVIOUS
    <3>1. claims[c] \in Number /\ result[claims[c]] # "queued"
      BY <1>0, <1>2, Types DEF Held, TypeOK
    <3> QED BY <1>5, <3>1
  <2>2. \A v \in Worker : at'[v] = "claim" => at[v] = "claim" /\ cur'[v] = cur[v]
    BY <1>7 DEF Busy
  <2> QED BY <1>0, <1>2, <2>1, <2>2, HeldStays
<1>12. Sent'
  <2>1. \A m \in Number : result'[m] \in {"none", "queued"} => delivered'[m] = {}
    BY <1>0, <1>1, <1>5 DEF Sent, Unsent
  <2>2. \A m \in Number : result'[m] = "recovered" =>
          delivered'[m] = {d \in {"mc", "uc"} : mode[jobs[m].ep][d]}
    <3> SUFFICES ASSUME NEW m \in Number, result'[m] = "recovered"
                 PROVE  delivered'[m] = {d \in {"mc", "uc"} : mode[jobs[m].ep][d]}
      OBVIOUS
    <3>1. CASE m = n
      BY <1>1, <1>5, <3>1
    <3>2. CASE m # n
      <4>1. result[m] = "recovered" /\ delivered'[m] = delivered[m]
        BY <1>1, <1>5, <3>2
      <4> QED BY <1>0, <4>1 DEF Sent, Complete
    <3> QED BY <3>1, <3>2
  <2>3. ASSUME NEW v \in Worker, at'[v] \in Busy
        PROVE  at'[v] = at[v] /\ delivered'[cur'[v]] = delivered[cur[v]]
    BY <1>1, <1>7, <2>3
  <2>4. ASSUME NEW v \in Worker
        PROVE  /\ at'[v] \in {"claim", "next", "fetch", "multicast"} => delivered'[cur'[v]] = {}
               /\ at'[v] = "multicast" => mode[Home(v)].mc
               /\ at'[v] = "unicast" =>
                    delivered'[cur'[v]] = IF mode[Home(v)].mc THEN {"mc"} ELSE {}
    <3>1. CASE at'[v] \in Busy
      <4>1. at'[v] = at[v] /\ delivered'[cur'[v]] = delivered[cur[v]]
        BY <2>3, <3>1
      <4>2. /\ at[v] \in {"claim", "next", "fetch", "multicast"} => delivered[cur[v]] = {}
            /\ at[v] = "multicast" => mode[Home(v)].mc
            /\ at[v] = "unicast" =>
                 delivered[cur[v]] = IF mode[Home(v)].mc THEN {"mc"} ELSE {}
        BY <1>0 DEF Sent, SoFar
      <4> QED BY <4>1, <4>2
    <3>2. CASE at'[v] \notin Busy
      BY <3>2 DEF Busy
    <3> QED BY <3>1, <3>2
  <2>5. mode' = mode /\ jobs' = jobs
    BY <1>2
  <2>6. Unsent' /\ Complete'
    BY <2>1, <2>2, <2>5 DEF Unsent, Complete
  <2>7. SoFar'
    BY <2>4, <2>5 DEF SoFar, Home
  <2> QED BY <2>6, <2>7 DEF Sent
<1>13. Covered'
  <2> SUFFICES ASSUME NEW m \in Number, result'[m] = "deduped"
               PROVE  /\ owner'[m] \in 1 .. Len(jobs) /\ owner'[m] # m
                      /\ GapClaim(owner'[m]) = GapClaim(m)
    BY <1>0, <1>2 DEF Covered, GapClaim
  <2>1. CASE m = n
    BY <1>1, <1>5, <2>1
  <2>2. CASE m # n
    BY <1>0, <1>1, <1>2, <1>5, <2>2 DEF Covered
  <2> QED BY <2>1, <2>2
<1> QED BY <1>8, <1>9, <1>10, <1>11, <1>12, <1>13 DEF IInv

-------------------------------------------------------------------------------
(* The job queue.                                                          *)

(* A new job takes the next number, in whatever way the queue takes it.    *)
LEMMA EnqueueOK ==
  ASSUME IInv, NEW e \in Endpoint, Enqueue(e)
  PROVE  IInv'
<1>0. TypeOK /\ Shape /\ Places /\ Held /\ Sent /\ Covered
  BY DEF IInv
<1>1. PICK k \in Key, q \in Requester : jobs' = Append(jobs, [key |-> k, by |-> q, ep |-> e])
  BY DEF Enqueue
<1>2. PICK N : N = Len(jobs) + 1
  OBVIOUS
<1>3. /\ Len(jobs) < MaxJobs /\ mode' = mode /\ at' = at /\ cur' = cur /\ tried' = tried
      /\ claims' = claims /\ canceled' = canceled /\ owner' = owner /\ delivered' = delivered
  BY DEF Enqueue
<1>4. /\ Len(jobs) \in Nat /\ N \in Number /\ N \in Nat /\ 1 .. Len(jobs) \subseteq Number
      /\ ~ (N \in 1 .. Len(jobs)) /\ 1 .. N \subseteq Number
  BY <1>0, <1>2, <1>3, Types, ProxyAssumption DEF Number
<1>5. /\ jobs' \in Seq([key : Key, by : Requester, ep : Endpoint])
      /\ Len(jobs') = N /\ jobs'[N] = [key |-> k, by |-> q, ep |-> e]
      /\ \A n \in 1 .. Len(jobs) : jobs'[n] = jobs[n]
  <2>1. jobs \in Seq([key : Key, by : Requester, ep : Endpoint])
    BY <1>0, <1>3 DEF TypeOK
  <2>2. \A R : \A s \in Seq(R) : \A x \in R :
          /\ Append(s, x) \in Seq(R) /\ Len(Append(s, x)) = Len(s) + 1
          /\ Append(s, x)[Len(s) + 1] = x
          /\ \A n \in 1 .. Len(s) : Append(s, x)[n] = s[n]
    OBVIOUS
  <2>3. [key |-> k, by |-> q, ep |-> e] \in [key : Key, by : Requester, ep : Endpoint]
    OBVIOUS
  <2> QED BY <1>1, <1>2, <2>1, <2>2, <2>3
<1>6. PICK r \in {"queued", "dropped"} :
        /\ result' = [result EXCEPT ![N] = r]
        /\ \/ /\ r = "queued" /\ Len(queue[e]) < QueueDepth
              /\ queue' = [queue EXCEPT ![e] = Append(queue[e], N)]
           \/ r = "dropped" /\ queue' = queue
  BY <1>5 DEF Enqueue
<1>7. /\ result \in [Number -> {"none", "queued", "dropped", "taken", "deduped", "quit",
                                "exhausted", "recovered"}]
      /\ queue \in [Endpoint -> Seq(Nat)]
  BY <1>0, <1>3 DEF TypeOK, Shape
<1>8. /\ result'[N] = r
      /\ \A m \in Number : m # N => result'[m] = result[m]
      /\ result' \in [Number -> {"none", "queued", "dropped", "taken", "deduped", "quit",
                                 "exhausted", "recovered"}]
  BY <1>4, <1>6, <1>7
<1>9. /\ queue' \in [Endpoint -> Seq(Nat)]
      /\ \A f \in Endpoint : f # e => queue'[f] = queue[f]
      /\ \/ queue'[e] = queue[e]
         \/ /\ r = "queued" /\ Len(queue[e]) < QueueDepth
            /\ queue'[e] = Append(queue[e], N)
  <2>1. PICK longer \in Seq(Nat) : longer = Append(queue[e], N)
    <3>1. \A s \in Seq(Nat) : \A x \in Nat : Append(s, x) \in Seq(Nat)
      OBVIOUS
    <3>2. queue[e] \in Seq(Nat)
      BY <1>7
    <3> QED BY <1>4, <3>1, <3>2
  <2>2. \/ queue' = queue
        \/ /\ r = "queued" /\ Len(queue[e]) < QueueDepth
           /\ queue' = [queue EXCEPT ![e] = longer]
    BY <1>6, <2>1
  <2> QED BY <1>7, <2>1, <2>2
<1>10. ASSUME NEW f \in Endpoint
       PROVE  /\ queue'[f] \in Seq(1 .. Len(jobs')) /\ Len(queue'[f]) <= QueueDepth
              /\ \A i \in 1 .. Len(queue'[f]) :
                   result'[queue'[f][i]] = "queued" /\ jobs'[queue'[f][i]].ep = f
              /\ \A i, j \in 1 .. Len(queue'[f]) : i < j => queue'[f][i] < queue'[f][j]
  <2>1. PICK o : o = queue[f]
    OBVIOUS
  <2>2. /\ o \in Seq(1 .. Len(jobs)) /\ Len(o) <= QueueDepth /\ Len(o) \in Nat
        /\ \A i \in 1 .. Len(o) : /\ result[o[i]] = "queued" /\ jobs[o[i]].ep = f
                                  /\ o[i] \in 1 .. Len(jobs)
        /\ \A i, j \in 1 .. Len(o) : i < j => o[i] < o[j]
    BY <1>0, <2>1, Queues
  <2>3. \A i \in 1 .. Len(o) : result'[o[i]] = "queued" /\ jobs'[o[i]].ep = f
    BY <1>4, <1>5, <1>8, <2>2
  <2>4. o \in Seq(1 .. N)
    <3>1. 1 .. Len(jobs) \subseteq 1 .. N
      BY <1>2, <1>4
    <3>2. \A R, S : R \subseteq S => Seq(R) \subseteq Seq(S)
      OBVIOUS
    <3> QED BY <2>2, <3>1, <3>2
  <2>5. CASE queue'[f] = o
    BY <1>5, <2>2, <2>3, <2>4, <2>5
  <2>6. CASE f = e /\ r = "queued" /\ Len(o) < QueueDepth /\ queue'[f] = Append(o, N)
    <3>1. PICK p : p = queue'[f]
      OBVIOUS
    <3>2. N \in 1 .. N
      BY <1>2, <1>4
    <3>3. /\ p \in Seq(1 .. N) /\ Len(p) = Len(o) + 1 /\ p[Len(o) + 1] = N
          /\ \A i \in 1 .. Len(o) : p[i] = o[i]
      BY <2>4, <2>6, <3>1, <3>2
    <3>4. ASSUME NEW i \in 1 .. Len(p)
          PROVE  result'[p[i]] = "queued" /\ jobs'[p[i]].ep = f
      <4>1. CASE i = Len(o) + 1
        BY <1>5, <1>8, <2>6, <3>3, <4>1
      <4>2. CASE i \in 1 .. Len(o)
        BY <2>3, <3>3, <4>2
      <4> QED BY <2>2, <3>3, <4>1, <4>2
    <3>5. ASSUME NEW i \in 1 .. Len(p), NEW j \in 1 .. Len(p), i < j
          PROVE  p[i] < p[j]
      <4>1. i \in 1 .. Len(o)
        BY <2>2, <3>3, <3>5
      <4>2. CASE j = Len(o) + 1
        <5>1. p[i] \in 1 .. Len(jobs) /\ p[j] = N
          BY <2>2, <3>3, <4>1, <4>2
        <5> QED BY <1>2, <1>4, <5>1
      <4>3. CASE j \in 1 .. Len(o)
        BY <2>2, <3>3, <3>5, <4>1, <4>3
      <4> QED BY <2>2, <3>3, <4>2, <4>3
    <3>6. Len(p) <= QueueDepth
      BY <2>2, <2>6, <3>3, ProxyAssumption
    <3> QED BY <1>5, <3>1, <3>3, <3>4, <3>5, <3>6
  <2> QED BY <1>9, <2>1, <2>5, <2>6
<1>11. TypeOK'
  <2>1. \A v \in Worker : cur'[v] \in IF at'[v] \in {"idle", "gone"} THEN {0} ELSE 1 .. Len(jobs')
    <3>1. 1 .. Len(jobs) \subseteq 1 .. Len(jobs')
      BY <1>2, <1>4, <1>5
    <3> QED BY <1>0, <1>3, <3>1 DEF TypeOK
  <2>2. \A c \in DOMAIN claims' : claims'[c] \in 1 .. Len(jobs')
    BY <1>0, <1>2, <1>3, <1>4, <1>5 DEF TypeOK
  <2>3. owner' \in [Number -> 0 .. Len(jobs')]
    <3>1. owner \in [Number -> 0 .. Len(jobs)] /\ 0 .. Len(jobs) \subseteq 0 .. Len(jobs')
      BY <1>0, <1>2, <1>3, <1>4, <1>5 DEF TypeOK
    <3> QED BY <1>0, <1>3, <3>1
  <2>4. Len(jobs') <= MaxJobs
    BY <1>0, <1>2, <1>3, <1>4, <1>5, ProxyAssumption
  <2> QED BY <1>0, <1>3, <1>5, <1>8, <1>10, <2>1, <2>2, <2>3, <2>4 DEF TypeOK
<1>12. Shape'
  BY <1>0, <1>3, <1>9 DEF Shape
<1>13. Places'
  <2>1. \A m \in Number : result'[m] = "none" <=> Len(jobs') < m
    <3>1. \A m \in Number : result[m] = "none" <=> Len(jobs) < m
      BY <1>0 DEF Places, Numbered
    <3>2. \A m \in Number : m # N => (Len(jobs) < m <=> Len(jobs') < m)
      BY <1>2, <1>4, <1>5 DEF Number
    <3>3. ~ (Len(jobs') < N)
      BY <1>4, <1>5
    <3> QED BY <1>8, <3>1, <3>2, <3>3
  <2>2. ASSUME NEW v \in Worker, at[v] \in Busy
        PROVE  result'[cur[v]] = "taken" /\ jobs'[cur[v]].ep = Home(v)
    <3>1. result[cur[v]] = "taken" /\ jobs[cur[v]].ep = Home(v)
      BY <1>0, <2>2 DEF Places, Working
    <3>2. PICK m \in 1 .. Len(jobs) : m = cur[v]
      BY <1>0, <2>2, Types
    <3> QED BY <1>4, <1>5, <1>8, <3>1, <3>2
  <2>3. Numbered' /\ Lined'
    BY <1>10, <2>1 DEF Numbered, Lined
  <2>4. at' = at /\ cur' = cur
    BY <1>3
  <2>5. Working'
    BY <2>2, <2>4 DEF Working, Home
  <2>6. Alone'
    BY <1>0, <2>4 DEF Places, Alone
  <2> QED BY <2>3, <2>5, <2>6 DEF Places
<1>14. \A m \in 1 .. Len(jobs) : GapClaim(m)' = GapClaim(m)
  BY <1>0, <1>3, <1>5 DEF GapClaim
<1>15. Held'
  <2> SUFFICES ASSUME NEW c \in DOMAIN claims
               PROVE  /\ GapClaim(claims[c])' = c
                      /\ result'[claims[c]] # "queued"
                      /\ \A v \in Worker : at[v] = "claim" => claims[c] # cur[v]
    BY <1>0, <1>3 DEF Held
  <2>1. claims[c] \in 1 .. Len(jobs)
    BY <1>0, <1>3 DEF TypeOK
  <2>2. /\ GapClaim(claims[c]) = c /\ result[claims[c]] # "queued"
        /\ \A v \in Worker : at[v] = "claim" => claims[c] # cur[v]
    BY <1>0, <1>3 DEF Held
  <2>3. PICK m \in 1 .. Len(jobs) : m = claims[c]
    BY <2>1
  <2>4. GapClaim(m)' = c /\ result'[m] # "queued"
    BY <1>4, <1>8, <1>14, <2>2, <2>3
  <2> QED BY <1>0, <1>3, <2>2, <2>3, <2>4 DEF GapClaim
<1>16. Sent'
  <2>1. delivered[N] = {}
    <3>1. result[N] = "none"
      BY <1>0, <1>2, <1>4 DEF Places, Numbered
    <3> QED BY <1>0, <1>4, <3>1 DEF Sent, Unsent
  <2>2. \A m \in Number : result'[m] \in {"none", "queued"} => delivered[m] = {}
    BY <1>0, <1>8, <2>1 DEF Sent, Unsent
  <2>3. ASSUME NEW m \in Number, result'[m] = "recovered"
        PROVE  delivered[m] = {d \in {"mc", "uc"} : mode[jobs'[m].ep][d]}
    <3>1. m # N /\ result[m] = "recovered"
      BY <1>8, <2>3
    <3>2. m \in 1 .. Len(jobs)
      BY <1>0, <1>3, <1>4, <3>1 DEF Places, Numbered, Number
    <3>3. delivered[m] = {d \in {"mc", "uc"} : mode[jobs[m].ep][d]}
      BY <1>0, <3>1 DEF Sent, Complete
    <3>4. jobs'[m] = jobs[m]
      BY <1>5, <3>2
    <3> QED BY <3>3, <3>4
  <2>4. at' = at /\ cur' = cur /\ mode' = mode /\ delivered' = delivered
    BY <1>3
  <2>5. Unsent' /\ Complete'
    BY <2>2, <2>3, <2>4 DEF Unsent, Complete
  <2>6. SoFar'
    BY <1>0, <2>4 DEF Sent, SoFar, Home
  <2> QED BY <2>5, <2>6 DEF Sent
<1>17. Covered'
  <2> SUFFICES ASSUME NEW m \in Number, result'[m] = "deduped"
               PROVE  /\ owner[m] \in 1 .. Len(jobs') /\ owner[m] # m
                      /\ GapClaim(owner[m])' = GapClaim(m)'
    BY <1>0, <1>3 DEF Covered, GapClaim
  <2>1. m # N /\ result[m] = "deduped"
    BY <1>8
  <2>2. m \in 1 .. Len(jobs)
    BY <1>0, <1>3, <1>4, <2>1 DEF Places, Numbered, Number
  <2>3. PICK o \in 1 .. Len(jobs) : o = owner[m] /\ o # m /\ GapClaim(o) = GapClaim(m)
    BY <1>0, <1>3, <2>1 DEF Covered
  <2>4. GapClaim(o)' = GapClaim(m)'
    BY <1>14, <2>2, <2>3
  <2>5. owner[m] \in 1 .. Len(jobs')
    <3>1. \A x \in 1 .. Len(jobs) : x \in 1 .. Len(jobs')
      BY <1>2, <1>4, <1>5
    <3> QED BY <2>3, <3>1
  <2> QED BY <1>0, <1>3, <2>3, <2>4, <2>5 DEF GapClaim
<1> QED BY <1>11, <1>12, <1>13, <1>15, <1>16, <1>17 DEF IInv

(* A worker takes the oldest job of its endpoint, which nobody else has.   *)
LEMMA TakeOK ==
  ASSUME IInv, NEW w \in Worker, Take(w)
  PROVE  IInv'
<1>0. TypeOK /\ Shape /\ Places /\ Held /\ Sent /\ Covered
  BY DEF IInv
<1>1. PICK e \in Endpoint : e = Home(w)
  BY <1>0, Types
<1>2. PICK q : q = queue[e]
  OBVIOUS
<1>3. PICK n : n = Head(q)
  OBVIOUS
<1>4. /\ at[w] = "idle" /\ q # <<>>
      /\ at' = [at EXCEPT ![w] = "claim"] /\ cur' = [cur EXCEPT ![w] = n]
      /\ queue' = [queue EXCEPT ![e] = Tail(q)]
      /\ result' = [result EXCEPT ![n] = "taken"]
      /\ mode' = mode /\ jobs' = jobs /\ tried' = tried /\ claims' = claims
      /\ canceled' = canceled /\ owner' = owner /\ delivered' = delivered
  BY <1>1, <1>2, <1>3 DEF Take
<1>5. /\ at \in [Worker -> {"idle", "claim", "next", "fetch", "multicast", "unicast", "gone"}]
      /\ cur \in [Worker -> Nat] /\ queue \in [Endpoint -> Seq(Nat)]
      /\ result \in [Number -> {"none", "queued", "dropped", "taken", "deduped", "quit",
                                "exhausted", "recovered"}]
  BY <1>0 DEF TypeOK, Shape
<1>6. /\ q \in Seq(1 .. Len(jobs)) /\ Len(q) <= QueueDepth
      /\ \A i \in 1 .. Len(q) : /\ q[i] \in 1 .. Len(jobs) /\ q[i] \in Number
                                /\ result[q[i]] = "queued" /\ jobs[q[i]].ep = e
      /\ \A i, j \in 1 .. Len(q) : i < j => q[i] < q[j]
      /\ Len(jobs) \in Nat
  <2>1. Len(jobs) \in Nat
    BY <1>0, Types
  <2> QED BY <1>0, <1>2, <2>1, Queues
<1>7. PICK t \in Seq(1 .. Len(jobs)) :
        /\ t = Tail(q) /\ Len(q) \in Nat \ {0} /\ Len(t) = Len(q) - 1
        /\ \A i \in 1 .. Len(t) : t[i] = q[i + 1] /\ i + 1 \in 1 .. Len(q)
        /\ n = q[1] /\ 1 \in 1 .. Len(q)
  <2>1. \A R : \A s \in Seq(R) : s # <<>> =>
          /\ Tail(s) \in Seq(R) /\ Len(s) \in Nat \ {0} /\ Len(Tail(s)) = Len(s) - 1
          /\ \A i \in 1 .. Len(Tail(s)) : Tail(s)[i] = s[i + 1]
          /\ Head(s) = s[1]
    OBVIOUS
  <2>2. /\ Tail(q) \in Seq(1 .. Len(jobs)) /\ Len(q) \in Nat \ {0}
        /\ Len(Tail(q)) = Len(q) - 1 /\ Head(q) = q[1]
        /\ \A i \in 1 .. Len(Tail(q)) : Tail(q)[i] = q[i + 1]
    BY <1>4, <1>6, <2>1
  <2>3. PICK t : t = Tail(q)
    OBVIOUS
  <2>4. \A i \in 1 .. Len(t) : i + 1 \in 1 .. Len(q)
    BY <2>2, <2>3
  <2>5. \A i \in 1 .. Len(t) : t[i] = q[i + 1]
    BY <2>2, <2>3
  <2>6. /\ Len(q) \in Nat \ {0} /\ Len(t) = Len(q) - 1 /\ n = q[1] /\ 1 \in 1 .. Len(q)
        /\ t \in Seq(1 .. Len(jobs))
    BY <1>3, <2>2, <2>3
  <2> QED BY <2>3, <2>4, <2>5, <2>6
<1>8. /\ n \in 1 .. Len(jobs) /\ n \in Number /\ n \in Nat
      /\ result[n] = "queued" /\ jobs[n].ep = e
  BY <1>6, <1>7
<1>9. /\ result'[n] = "taken"
      /\ \A m \in Number : m # n => result'[m] = result[m]
      /\ result' \in [Number -> {"none", "queued", "dropped", "taken", "deduped", "quit",
                                 "exhausted", "recovered"}]
  BY <1>4, <1>5, <1>8
<1>10. t \in Seq(Nat) /\ Len(t) <= QueueDepth
  <2>1. 1 .. Len(jobs) \subseteq Nat
    BY <1>6
  <2>2. \A R, S : R \subseteq S => Seq(R) \subseteq Seq(S)
    OBVIOUS
  <2> QED BY <1>6, <1>7, <2>1, <2>2, ProxyAssumption
<1>11. /\ queue' \in [Endpoint -> Seq(Nat)] /\ queue'[e] = t
       /\ \A f \in Endpoint : f # e => queue'[f] = queue[f]
  BY <1>4, <1>5, <1>7, <1>10
<1>12. /\ at'[w] = "claim" /\ cur'[w] = n
       /\ \A v \in Worker : v # w => at'[v] = at[v] /\ cur'[v] = cur[v]
       /\ at' \in [Worker -> {"idle", "claim", "next", "fetch", "multicast", "unicast", "gone"}]
       /\ cur' \in [Worker -> Nat]
  BY <1>0, <1>4, <1>5, <1>8
<1>13. ASSUME NEW v \in Worker, v # w, at'[v] \in Busy
       PROVE  at[v] \in Busy /\ at'[v] = at[v] /\ cur'[v] = cur[v] /\ cur[v] # n /\ cur[v] \in Number
  <2>1. at[v] \in Busy /\ at'[v] = at[v] /\ cur'[v] = cur[v]
    BY <1>12, <1>13
  <2>2. cur[v] \in Number /\ result[cur[v]] = "taken"
    BY <1>0, <2>1, Types DEF Places, Working
  <2> QED BY <1>8, <2>1, <2>2
<1>14. ASSUME NEW f \in Endpoint
       PROVE  /\ queue'[f] \in Seq(1 .. Len(jobs)) /\ Len(queue'[f]) <= QueueDepth
              /\ \A i \in 1 .. Len(queue'[f]) :
                   result'[queue'[f][i]] = "queued" /\ jobs[queue'[f][i]].ep = f
              /\ \A i, j \in 1 .. Len(queue'[f]) : i < j => queue'[f][i] < queue'[f][j]
  <2>1. CASE f = e
    <3>1. ASSUME NEW i \in 1 .. Len(t)
          PROVE  result'[t[i]] = "queued" /\ jobs[t[i]].ep = e
      <4>1. PICK j \in 1 .. Len(q) : j = i + 1 /\ t[i] = q[j] /\ 1 < j
        BY <1>7
      <4>2. q[1] < q[j] /\ q[j] \in Number /\ q[j] \in 1 .. Len(jobs)
            /\ result[q[j]] = "queued" /\ jobs[q[j]].ep = e
        BY <1>6, <1>7, <4>1
      <4>3. q[j] # n
        BY <1>6, <1>7, <1>8, <4>2
      <4> QED BY <1>9, <4>1, <4>2, <4>3
    <3>2. ASSUME NEW i \in 1 .. Len(t), NEW j \in 1 .. Len(t), i < j PROVE t[i] < t[j]
      BY <1>6, <1>7, <3>2
    <3> QED BY <1>7, <1>10, <1>11, <2>1, <3>1, <3>2
  <2>2. CASE f # e
    <3>0. PICK p : p = queue[f]
      OBVIOUS
    <3>1. p = queue'[f]
      BY <1>11, <2>2, <3>0
    <3>2. /\ p \in Seq(1 .. Len(jobs)) /\ Len(p) <= QueueDepth
          /\ \A i \in 1 .. Len(p) : /\ p[i] \in Number /\ result[p[i]] = "queued"
                                    /\ jobs[p[i]].ep = f
          /\ \A i, j \in 1 .. Len(p) : i < j => p[i] < p[j]
      BY <1>0, <3>0, Queues
    <3>3. \A i \in 1 .. Len(p) : p[i] # n
      BY <1>8, <2>2, <3>2
    <3> QED BY <1>9, <3>1, <3>2, <3>3
  <2> QED BY <2>1, <2>2
<1>15. TypeOK'
  <2>1. \A v \in Worker : cur'[v] \in IF at'[v] \in {"idle", "gone"} THEN {0} ELSE 1 .. Len(jobs')
    BY <1>0, <1>4, <1>8, <1>12 DEF TypeOK
  <2> QED BY <1>0, <1>4, <1>9, <1>12, <1>14, <2>1 DEF TypeOK
<1>16. Shape'
  <2>1. \A v \in Worker : at'[v] = "fetch" => at[v] = "fetch" /\ tried'[v] = tried[v]
    BY <1>0, <1>4, <1>12
  <2> QED BY <1>0, <1>4, <1>11, <1>12, <2>1 DEF Shape
<1>17. Places'
  <2>0. jobs' = jobs
    BY <1>4
  <2>1. \A m \in Number : result'[m] = "none" <=> Len(jobs) < m
    <3>1. \A m \in Number : result[m] = "none" <=> Len(jobs) < m
      BY <1>0 DEF Places, Numbered
    <3>2. result[n] # "none" /\ n \in Number
      BY <1>8
    <3> QED BY <1>9, <3>1, <3>2
  <2>2. \A v \in Worker : at'[v] \in Busy => result'[cur'[v]] = "taken" /\ jobs[cur'[v]].ep = Home(v)
    <3> SUFFICES ASSUME NEW v \in Worker, at'[v] \in Busy
                 PROVE  result'[cur'[v]] = "taken" /\ jobs[cur'[v]].ep = Home(v)
      OBVIOUS
    <3>1. CASE v = w
      BY <1>1, <1>8, <1>9, <1>12, <3>1
    <3>2. CASE v # w
      <4>1. at[v] \in Busy /\ cur'[v] = cur[v] /\ cur[v] # n /\ cur[v] \in Number
        BY <1>13, <3>2
      <4>2. result[cur[v]] = "taken" /\ jobs[cur[v]].ep = Home(v)
        BY <1>0, <4>1 DEF Places, Working
      <4> QED BY <1>9, <4>1, <4>2
    <3> QED BY <3>1, <3>2
  <2>3. \A v, u \in Worker : at'[v] \in Busy /\ at'[u] \in Busy /\ cur'[v] = cur'[u] => v = u
    BY <1>0, <1>12, <1>13 DEF Places, Alone
  <2>4. \A f \in Endpoint :
          /\ \A i \in 1 .. Len(queue'[f]) :
               result'[queue'[f][i]] = "queued" /\ jobs'[queue'[f][i]].ep = f
          /\ \A i, j \in 1 .. Len(queue'[f]) : i < j => queue'[f][i] < queue'[f][j]
    BY <1>14, <2>0
  <2>5. Numbered' /\ Alone'
    BY <2>0, <2>1, <2>3 DEF Numbered, Alone
  <2>6. Lined'
    BY <2>4 DEF Lined
  <2>7. Working'
    BY <2>0, <2>2 DEF Working, Home
  <2> QED BY <2>5, <2>6, <2>7 DEF Places
<1>18. Held'
  <2> SUFFICES ASSUME NEW c \in DOMAIN claims
               PROVE  /\ result'[claims[c]] # "queued"
                      /\ \A v \in Worker : at'[v] = "claim" => claims[c] # cur'[v]
    BY <1>0, <1>4 DEF Held, GapClaim
  <2>1. claims[c] \in Number /\ result[claims[c]] # "queued" /\ claims[c] # n
    BY <1>0, <1>4, <1>8, Types DEF Held, TypeOK
  <2>2. \A v \in Worker : at[v] = "claim" => claims[c] # cur[v]
    BY <1>0, <1>4 DEF Held
  <2> QED BY <1>9, <1>12, <2>1, <2>2
<1>19. Sent'
  <2>1. \A m \in Number : result'[m] \in {"none", "queued"} => delivered[m] = {}
    BY <1>0, <1>9 DEF Sent, Unsent
  <2>2. \A m \in Number : result'[m] = "recovered" => result[m] = "recovered"
    BY <1>9
  <2>3. ASSUME NEW v \in Worker
        PROVE  /\ at'[v] \in {"claim", "next", "fetch", "multicast"} => delivered[cur'[v]] = {}
               /\ at'[v] = "multicast" => mode[Home(v)].mc
               /\ at'[v] = "unicast" =>
                    delivered[cur'[v]] = IF mode[Home(v)].mc THEN {"mc"} ELSE {}
    <3>1. CASE v = w
      BY <1>0, <1>8, <1>12, <3>1 DEF Sent, Unsent
    <3>2. CASE v # w
      <4>1. at'[v] = at[v] /\ cur'[v] = cur[v]
        BY <1>12, <3>2
      <4>2. /\ at[v] \in {"claim", "next", "fetch", "multicast"} => delivered[cur[v]] = {}
            /\ at[v] = "multicast" => mode[Home(v)].mc
            /\ at[v] = "unicast" =>
                 delivered[cur[v]] = IF mode[Home(v)].mc THEN {"mc"} ELSE {}
        BY <1>0 DEF Sent, SoFar
      <4> QED BY <4>1, <4>2
    <3> QED BY <3>1, <3>2
  <2>4. mode' = mode /\ jobs' = jobs /\ delivered' = delivered
    BY <1>4
  <2>5. Unsent'
    BY <2>1, <2>4 DEF Unsent
  <2>6. Complete'
    BY <1>0, <2>2, <2>4 DEF Sent, Complete
  <2>7. SoFar'
    BY <2>3, <2>4 DEF SoFar, Home
  <2> QED BY <2>5, <2>6, <2>7 DEF Sent
<1>20. Covered'
  BY <1>0, <1>4, <1>9 DEF Covered, GapClaim
<1> QED BY <1>15, <1>16, <1>17, <1>18, <1>19, <1>20 DEF IInv

-------------------------------------------------------------------------------
(* recover, by the worker's place in it.                                   *)

LEMMA GateOK ==
  ASSUME IInv, NEW w \in Worker, Claim(w) \/ ClaimError(w) \/ NoDedup(w)
  PROVE  IInv'
<1>1. /\ TypeOK /\ Shape /\ Places /\ Held /\ Sent /\ Covered
      /\ Go(w, "claim", "next")
      /\ tried' = tried /\ owner' = owner /\ delivered' = delivered
      /\ claims' = claims \/ claims' = Holding(cur[w])
  BY DEF IInv, Claim, ClaimError, NoDedup
<1>2. /\ at[w] = "claim" /\ at' = [at EXCEPT ![w] = "next"] /\ mode' = mode /\ jobs' = jobs
      /\ cur' = cur /\ result' = result
  BY <1>1 DEF Go
<1>3. /\ tried' \in [Worker -> 0 .. Upstreams]
      /\ delivered' \in [Number -> SUBSET {"mc", "uc"}]
      /\ at \in [Worker -> {"idle", "claim", "next", "fetch", "multicast", "unicast", "gone"}]
  BY <1>1 DEF TypeOK
<1>4. Held' /\ \A c \in DOMAIN claims' : claims'[c] \in 1 .. Len(jobs)
  <2>1. CASE claims' = Holding(cur[w])
    BY <1>1, <2>1, HeldGrows
  <2>2. CASE claims' = claims
    <3>1. \A v \in Worker : at'[v] = "claim" => at[v] = "claim"
      BY <1>2, <1>3
    <3>2. \A c \in DOMAIN claims : result[claims[c]] # "queued"
      BY <1>1 DEF Held
    <3>3. Held'
      BY <1>1, <1>2, <2>2, <3>1, <3>2, HeldStays
    <3> QED BY <1>1, <2>2, <3>3 DEF TypeOK
  <2> QED BY <1>1, <2>1, <2>2
<1>5. TypeOK' /\ Shape' /\ Places' /\ Covered'
  <2>1. \A v \in Worker : at'[v] = "fetch" => tried'[v] < Upstreams
    BY <1>1, <1>2, <1>3 DEF Shape
  <2> QED BY <1>1, <1>3, <1>4, <2>1, GoOK
<1>6. delivered[cur[w]] = {}
  BY <1>1, <1>2 DEF Sent, SoFar
<1>7. Sent'
  BY <1>1, <1>3, <1>6, SentStep DEF Busy
<1> QED BY <1>4, <1>5, <1>7 DEF IInv

LEMMA LoopOK ==
  ASSUME IInv, NEW w \in Worker, Ask(w) \/ FetchFails(w) \/ Fetched(w)
  PROVE  IInv'
<1>1. /\ TypeOK /\ Shape /\ Places /\ Held /\ Sent /\ Covered
      /\ owner' = owner /\ delivered' = delivered /\ claims' = claims
  BY DEF IInv, Ask, FetchFails, Fetched
<1>2. PICK from \in {"next", "fetch"}, to \in {"next", "fetch", "multicast", "unicast"} :
        /\ Go(w, from, to)
        /\ to = "multicast" => mode[Home(w)].mc
        /\ to = "unicast" => ~mode[Home(w)].mc
        /\ \/ tried' = tried /\ (to = "fetch" => tried[w] < Upstreams)
           \/ from = "fetch" /\ to = "next" /\ tried' = [tried EXCEPT ![w] = @ + 1]
  BY DEF Ask, FetchFails, Fetched
<1>3. /\ at[w] = from /\ at' = [at EXCEPT ![w] = to] /\ mode' = mode /\ jobs' = jobs
      /\ cur' = cur /\ result' = result
  BY <1>2 DEF Go
<1>4. /\ delivered' \in [Number -> SUBSET {"mc", "uc"}] /\ tried \in [Worker -> 0 .. Upstreams]
      /\ at \in [Worker -> {"idle", "claim", "next", "fetch", "multicast", "unicast", "gone"}]
      /\ \A c \in DOMAIN claims' : claims'[c] \in 1 .. Len(jobs)
  BY <1>1 DEF TypeOK
<1>5. /\ tried' \in [Worker -> 0 .. Upstreams]
      /\ \A v \in Worker : at'[v] = "fetch" => tried'[v] < Upstreams
  <2>1. CASE tried' = tried /\ (to = "fetch" => tried[w] < Upstreams)
    BY <1>1, <1>3, <1>4, <2>1 DEF Shape
  <2>2. CASE from = "fetch" /\ to = "next" /\ tried' = [tried EXCEPT ![w] = @ + 1]
    <3>1. tried[w] + 1 \in 0 .. Upstreams
      BY <1>1, <1>3, <1>4, <2>2, ProxyAssumption DEF Shape
    <3> QED BY <1>1, <1>3, <1>4, <2>2, <3>1 DEF Shape
  <2> QED BY <1>2, <2>1, <2>2
<1>6. Held'
  <2>1. \A v \in Worker : at'[v] = "claim" => at[v] = "claim"
    BY <1>3, <1>4
  <2>2. \A c \in DOMAIN claims : result[claims[c]] # "queued"
    BY <1>1 DEF Held
  <2> QED BY <1>1, <1>3, <2>1, <2>2, HeldStays
<1>7. delivered[cur[w]] = {}
  BY <1>1, <1>3 DEF Sent, SoFar
<1>8. Sent'
  <2>1. \A n \in Number : n # cur[w] => delivered'[n] = delivered[n]
    BY <1>1
  <2>2. delivered'[cur[w]] = {}
    BY <1>1, <1>7
  <2>3. from \in Busy /\ to \in Busy /\ to # "claim"
    BY DEF Busy
  <2>4. TypeOK /\ Shape /\ Places /\ Sent /\ delivered' \in [Number -> SUBSET {"mc", "uc"}]
    BY <1>1, <1>4
  <2>5. to = "unicast" => delivered'[cur[w]] = IF mode[Home(w)].mc THEN {"mc"} ELSE {}
    BY <1>2, <2>2
  <2>6. Go(w, from, to) /\ (to = "multicast" => mode[Home(w)].mc)
    BY <1>2
  <2> QED BY <2>1, <2>2, <2>3, <2>4, <2>5, <2>6, SentStep
<1>9. TypeOK' /\ Shape' /\ Places' /\ Covered'
  BY <1>1, <1>2, <1>4, <1>5, GoOK
<1> QED BY <1>6, <1>8, <1>9 DEF IInv

(* The two retransmits.                                                    *)
LEMMA MulticastOK ==
  ASSUME IInv, NEW w \in Worker, Multicast(w)
  PROVE  IInv'
<1>1. /\ TypeOK /\ Shape /\ Places /\ Held /\ Sent /\ Covered
  BY DEF IInv
<1>2. PICK n : n = cur[w]
  OBVIOUS
<1>3. /\ Go(w, "multicast", "unicast")
      /\ delivered' = [delivered EXCEPT ![n] = delivered[n] \cup {"mc"}]
      /\ tried' = tried /\ claims' = claims /\ owner' = owner
  BY <1>2 DEF Multicast
<1>4. /\ at[w] = "multicast" /\ at' = [at EXCEPT ![w] = "unicast"] /\ mode' = mode /\ jobs' = jobs
      /\ cur' = cur /\ result' = result
  BY <1>3 DEF Go
<1>5. /\ at \in [Worker -> {"idle", "claim", "next", "fetch", "multicast", "unicast", "gone"}]
      /\ delivered \in [Number -> SUBSET {"mc", "uc"}] /\ tried' \in [Worker -> 0 .. Upstreams]
      /\ \A c \in DOMAIN claims' : claims'[c] \in 1 .. Len(jobs)
  BY <1>1, <1>3 DEF TypeOK
<1>6. /\ n \in Number /\ delivered[n] = {} /\ mode[Home(w)].mc
  BY <1>1, <1>2, <1>4, Types DEF Sent, SoFar, Busy
<1>7. /\ delivered' \in [Number -> SUBSET {"mc", "uc"}] /\ delivered'[n] = {"mc"}
      /\ \A m \in Number : m # n => delivered'[m] = delivered[m]
  BY <1>3, <1>5, <1>6
<1>8. TypeOK' /\ Shape' /\ Places' /\ Covered'
  <2>1. \A v \in Worker : at'[v] = "fetch" => tried'[v] < Upstreams
    BY <1>1, <1>3, <1>4, <1>5 DEF Shape
  <2> QED BY <1>1, <1>3, <1>5, <1>7, <2>1, GoOK
<1>9. Held'
  <2>1. \A v \in Worker : at'[v] = "claim" => at[v] = "claim"
    BY <1>4, <1>5
  <2>2. \A c \in DOMAIN claims : result[claims[c]] # "queued"
    BY <1>1 DEF Held
  <2> QED BY <1>1, <1>3, <1>4, <2>1, <2>2, HeldStays
<1>10. Sent'
  BY <1>1, <1>2, <1>3, <1>6, <1>7, SentStep DEF Busy
<1> QED BY <1>8, <1>9, <1>10 DEF IInv

LEMMA UnicastOK ==
  ASSUME IInv, NEW w \in Worker, Unicast(w)
  PROVE  IInv'
<1>1. /\ TypeOK /\ Shape /\ Places /\ Held /\ Sent /\ Covered
  BY DEF IInv
<1>2. PICK n : n = cur[w]
  OBVIOUS
<1>3. PICK m : m = mode[Home(w)]
  OBVIOUS
<1>4. /\ Finish(w, "unicast", "recovered") /\ at[w] = "unicast"
      /\ delivered' = [delivered EXCEPT ![n] = IF m.uc THEN delivered[n] \cup {"uc"} ELSE delivered[n]]
      /\ claims' = claims /\ owner' = owner
  BY <1>2, <1>3 DEF Unicast, Finish
<1>5. /\ delivered \in [Number -> SUBSET {"mc", "uc"}] /\ owner' \in [Number -> 0 .. Len(jobs)]
  BY <1>1, <1>4 DEF TypeOK
<1>6. m.mc \in BOOLEAN /\ m.uc \in BOOLEAN
  <2>1. m \in [mc : BOOLEAN, uc : BOOLEAN, dedup : BOOLEAN]
    BY <1>1, <1>3, Types, ProxyAssumption DEF TypeOK
  <2> QED BY <2>1
<1>7. /\ n \in Number /\ delivered[n] = (IF m.mc THEN {"mc"} ELSE {}) /\ jobs[n].ep = Home(w)
  BY <1>1, <1>2, <1>3, <1>4, Types DEF Sent, SoFar, Places, Working, Busy
<1>8. /\ delivered' \in [Number -> SUBSET {"mc", "uc"}]
      /\ delivered'[n] = IF m.uc THEN delivered[n] \cup {"uc"} ELSE delivered[n]
      /\ \A k \in Number : k # n => delivered'[k] = delivered[k]
  BY <1>4, <1>5, <1>7
<1>9. delivered'[n] = {d \in {"mc", "uc"} : m[d]}
  BY <1>6, <1>7, <1>8
<1>10. delivered'[cur[w]] = {d \in {"mc", "uc"} : mode[jobs[cur[w]].ep][d]}
  BY <1>2, <1>3, <1>7, <1>9
<1> QED BY <1>2, <1>4, <1>5, <1>8, <1>10, FinishOK DEF Busy

(* A job is given up to the one that holds its claim, which is another.    *)
LEMMA DedupedOK ==
  ASSUME IInv, NEW w \in Worker, Deduped(w)
  PROVE  IInv'
<1>1. /\ TypeOK /\ Shape /\ Places /\ Held /\ Sent /\ Covered
  BY DEF IInv
<1>2. PICK n : n = cur[w]
  OBVIOUS
<1>3. PICK m : m = claims[GapClaim(n)]
  OBVIOUS
<1>4. /\ at[w] = "claim" /\ GapClaim(n) \in DOMAIN claims
      /\ Finish(w, "claim", "deduped") /\ owner' = [owner EXCEPT ![n] = m]
      /\ claims' = claims /\ delivered' = delivered
  BY <1>2, <1>3 DEF Deduped
<1>5. /\ m \in 1 .. Len(jobs) /\ GapClaim(m) = GapClaim(n) /\ m # n
  BY <1>1, <1>2, <1>3, <1>4 DEF Held, TypeOK
<1>6. /\ owner \in [Number -> 0 .. Len(jobs)] /\ delivered' \in [Number -> SUBSET {"mc", "uc"}]
      /\ n \in Number /\ Len(jobs) \in Nat
  BY <1>1, <1>2, <1>4, Types DEF TypeOK, Busy
<1>7. /\ owner' \in [Number -> 0 .. Len(jobs)] /\ owner'[n] = m
      /\ \A k \in Number : k # n => owner'[k] = owner[k]
  BY <1>4, <1>5, <1>6
<1> QED BY <1>2, <1>4, <1>5, <1>6, <1>7, FinishOK DEF Busy

LEMMA GivesUpOK ==
  ASSUME IInv, NEW w \in Worker, Quit(w) \/ Exhausted(w)
  PROVE  IInv'
<1>1. PICK r \in {"quit", "exhausted"} :
        Finish(w, "next", r) /\ claims' = claims /\ owner' = owner /\ delivered' = delivered
  BY DEF Quit, Exhausted
<1>2. owner' \in [Number -> 0 .. Len(jobs)] /\ delivered' \in [Number -> SUBSET {"mc", "uc"}]
  BY <1>1 DEF IInv, TypeOK
<1> QED BY <1>1, <1>2, FinishOK DEF Busy

(* A step of no worker and no job.                                         *)
LEMMA Aside ==
  ASSUME IInv, mode' = mode, jobs' = jobs, queue' = queue, at' = at, cur' = cur,
         result' = result, tried' = tried, owner' = owner, delivered' = delivered,
         canceled' \in BOOLEAN, DOMAIN claims' \subseteq DOMAIN claims,
         \A c \in DOMAIN claims' : claims'[c] = claims[c]
  PROVE  IInv'
<1>1. /\ TypeOK /\ Shape /\ Places /\ Held /\ Sent /\ Covered
  BY DEF IInv
<1>2. TypeOK'
  BY <1>1 DEF TypeOK
<1>3. Shape'
  BY <1>1 DEF Shape
<1>4. Places'
  <2>0. Numbered'
    BY <1>1 DEF Places, Numbered
  <2>1. Lined'
    <3>1. Lined
      BY <1>1 DEF Places
    <3>2. Lined' = Lined
      BY DEF Lined
    <3> QED BY <3>1, <3>2
  <2>2. Working' /\ Alone'
    BY <1>1 DEF Places, Working, Alone, Home
  <2> QED BY <2>0, <2>1, <2>2 DEF Places
<1>5. Held'
  <2>1. \A c \in DOMAIN claims' : result'[claims[c]] # "queued"
    BY <1>1 DEF Held
  <2> QED BY <1>1, <2>1, HeldStays
<1>6. Sent'
  <2>1. Unsent' /\ Complete'
    BY <1>1 DEF Sent, Unsent, Complete
  <2>2. SoFar'
    BY <1>1 DEF Sent, SoFar, Home
  <2> QED BY <2>1, <2>2 DEF Sent
<1>7. Covered'
  BY <1>1 DEF Covered, GapClaim
<1> QED BY <1>2, <1>3, <1>4, <1>5, <1>6, <1>7 DEF IInv

(* Leaving, cancellation, and the end of a claim.                          *)
LEMMA OutsideOK ==
  ASSUME IInv, (\E w \in Worker : Leave(w)) \/ Cancel \/ ClaimExpires
  PROVE  IInv'
<1>1. /\ TypeOK /\ Shape /\ Places /\ Held /\ Sent /\ Covered
  BY DEF IInv
<1>2. ASSUME NEW w \in Worker, Leave(w) PROVE IInv'
  <2>1. /\ Go(w, "idle", "gone") /\ at[w] = "idle" /\ at' = [at EXCEPT ![w] = "gone"]
        /\ tried' = tried /\ claims' = claims /\ owner' = owner /\ delivered' = delivered
        /\ mode' = mode /\ jobs' = jobs /\ cur' = cur /\ result' = result
    BY <1>2 DEF Leave, Go
  <2>2. /\ at \in [Worker -> {"idle", "claim", "next", "fetch", "multicast", "unicast", "gone"}]
        /\ tried' \in [Worker -> 0 .. Upstreams] /\ delivered' \in [Number -> SUBSET {"mc", "uc"}]
        /\ \A c \in DOMAIN claims' : claims'[c] \in 1 .. Len(jobs)
    BY <1>1, <2>1 DEF TypeOK
  <2>3. \A v \in Worker : at'[v] # "gone" => at'[v] = at[v]
    BY <2>1, <2>2
  <2>4. \A v \in Worker : at'[v] = "fetch" => tried'[v] < Upstreams
    BY <1>1, <2>1, <2>3 DEF Shape
  <2>5. TypeOK' /\ Shape' /\ Places' /\ Covered'
    BY <1>1, <2>1, <2>2, <2>4, GoOK
  <2>6. Held'
    <3>1. \A c \in DOMAIN claims : result[claims[c]] # "queued"
      BY <1>1 DEF Held
    <3> QED BY <1>1, <2>1, <2>3, <3>1, HeldStays
  <2>7. Sent'
    <3>1. /\ mode' = mode /\ jobs' = jobs /\ cur' = cur /\ result' = result
          /\ delivered' = delivered
      BY <2>1
    <3>2. Unsent' /\ Complete'
      BY <1>1, <3>1 DEF Sent, Unsent, Complete
    <3>3. SoFar'
      BY <1>1, <2>3, <3>1 DEF Sent, SoFar, Home
    <3> QED BY <3>2, <3>3 DEF Sent
  <2> QED BY <2>5, <2>6, <2>7 DEF IInv
<1>3. CASE Cancel
  BY <1>3, Aside DEF Cancel, progress
<1>4. CASE ClaimExpires
  <2>1. DOMAIN claims' \subseteq DOMAIN claims /\ \A c \in DOMAIN claims' : claims'[c] = claims[c]
    BY <1>4 DEF ClaimExpires
  <2>2. canceled' \in BOOLEAN
    BY <1>1, <1>4 DEF ClaimExpires, TypeOK
  <2> QED BY <1>4, <2>1, <2>2, Aside DEF ClaimExpires, progress
<1> QED BY <1>2, <1>3, <1>4

-------------------------------------------------------------------------------
LEMMA InitOK ==
  ASSUME Init
  PROVE  IInv
<1> USE ProxyAssumption
<1>1. jobs = <<>> /\ Len(jobs) = 0 /\ 0 \in 0 .. Len(jobs)
  BY DEF Init
<1>2. /\ \A e \in Endpoint : queue[e] = <<>>
      /\ \A w \in Worker : at[w] = "idle" /\ cur[w] = 0
      /\ DOMAIN claims = {}
      /\ \A n \in Number : result[n] = "none" /\ delivered[n] = {} /\ n \in Nat /\ 0 < n
  BY DEF Init, Number
<1>3. TypeOK
  <2>1. \A e \in Endpoint : queue[e] \in Seq(1 .. Len(jobs)) /\ Len(queue[e]) <= QueueDepth
    <3>1. PICK R : R = 1 .. Len(jobs)
      OBVIOUS
    <3>2. <<>> \in Seq(R) /\ Len(<<>>) <= QueueDepth
      OBVIOUS
    <3> QED BY <1>2, <3>1, <3>2
  <2>2. jobs \in Seq([key : Key, by : Requester, ep : Endpoint]) /\ Len(jobs) <= MaxJobs
    BY <1>1
  <2>3. tried \in [Worker -> 0 .. Upstreams] /\ owner \in [Number -> 0 .. Len(jobs)]
    BY <1>1 DEF Init
  <2> QED BY <1>2, <2>1, <2>2, <2>3 DEF Init, TypeOK
<1>4. Shape
  <2>1. queue \in [Endpoint -> Seq(Nat)] /\ cur \in [Worker -> Nat]
    BY DEF Init
  <2> QED BY <1>2, <2>1 DEF Shape
<1>5. Places
  <2>1. \A e \in Endpoint : Len(queue[e]) = 0
    BY <1>2
  <2>2. Numbered /\ Lined
    BY <1>1, <1>2, <2>1 DEF Numbered, Lined
  <2>3. Working /\ Alone
    BY <1>2 DEF Working, Alone, Busy
  <2> QED BY <2>2, <2>3 DEF Places
<1>6. Held /\ Sent /\ Covered
  BY <1>2 DEF Held, Sent, Unsent, SoFar, Complete, Covered
<1> QED BY <1>3, <1>4, <1>5, <1>6 DEF IInv

LEMMA StepOK ==
  ASSUME IInv, [Next]_vars
  PROVE  IInv'
<1>1. ASSUME NEW w \in Worker, Recover(w) PROVE IInv'
  BY <1>1, GateOK, DedupedOK, LoopOK, GivesUpOK, MulticastOK, UnicastOK DEF Recover
<1>2. CASE UNCHANGED vars
  <2>1. canceled' \in BOOLEAN
    BY <1>2 DEF vars, IInv, TypeOK
  <2> QED BY <1>2, <2>1, Aside DEF vars, progress
<1> QED BY <1>1, <1>2, EnqueueOK, TakeOK, OutsideOK DEF Next

(* Equal claims are of the same gap and, where the job that was given up   *)
(* would have been unicast, of the same requester at a unicasting one.     *)
LEMMA IInvCovers ==
  ASSUME IInv
  PROVE  DedupedIsCovered
<1> SUFFICES ASSUME NEW n \in Number, result[n] = "deduped", NEW m, m = owner[n]
             PROVE  /\ m # n /\ jobs[m].key = jobs[n].key
                    /\ mode[jobs[n].ep].uc => mode[jobs[m].ep].uc /\ jobs[m].by = jobs[n].by
                    /\ result[m] = "recovered" =>
                          delivered[m] = {d \in {"mc", "uc"} : mode[jobs[m].ep][d]}
  BY DEF DedupedIsCovered
<1>1. m \in 1 .. Len(jobs) /\ m # n /\ GapClaim(m) = GapClaim(n)
  BY DEF IInv, Covered
<1>2. m \in Number
  BY <1>1, Types DEF IInv
<1>3. result[m] = "recovered" => delivered[m] = {d \in {"mc", "uc"} : mode[jobs[m].ep][d]}
  BY <1>2 DEF IInv, Sent, Complete
<1>4. PICK x, y : x = jobs[m] /\ y = jobs[n]
  OBVIOUS
<1>5. (IF mode[x.ep].uc THEN <<x.key, x.by>> ELSE <<x.key>>)
        = (IF mode[y.ep].uc THEN <<y.key, y.by>> ELSE <<y.key>>)
  BY <1>1, <1>4 DEF GapClaim
<1>6. x.key = y.key /\ (mode[y.ep].uc => mode[x.ep].uc /\ x.by = y.by)
  BY <1>5, ClaimForms
<1> QED BY <1>1, <1>3, <1>4, <1>6

(* Whatever Enqueue, Start and recover do at any number of endpoints, a    *)
(* job is in one place, a claim is of a job past the gate, and what was    *)
(* retransmitted for a job is what the place of its worker says.           *)
THEOREM Invariance ==
  Spec => []IInv
<1>1. Init => IInv
  BY InitOK
<1>2. IInv /\ [Next]_vars => IInv'
  BY StepOK
<1> QED BY <1>1, <1>2, PTL DEF Spec

(* Enqueue never puts more than QueueDepth jobs in a queue, recover never  *)
(* asks more upstreams than MaxEndpoints, and every variable keeps its     *)
(* type.                                                                   *)
THEOREM BoundsKept ==
  Spec => []TypeOK
<1>1. IInv => TypeOK
  BY DEF IInv
<1> QED BY <1>1, Invariance, PTL

(* Any number of endpoints with different retransmit modes may share a     *)
(* dedup store: recover gives a job up only to another job, for the same   *)
(* gap and, if it was to be unicast, the same requester, which when it     *)
(* recovers the frame has made every retransmit its endpoint's modes ask.  *)
THEOREM GivenUpIsCovered ==
  Spec => []DedupedIsCovered
<1>1. IInv => DedupedIsCovered
  BY IInvCovers
<1> QED BY <1>1, Invariance, PTL
===============================================================================
