--------------------------- MODULE ServerPoolProofs ---------------------------
(***************************************************************************)
(* Theorems about ServerPool, for every pool, channel capacity and number  *)
(* of NACKs: what a NACK's place is, at most one, and that the socket is   *)
(* closed last.                                                            *)
(***************************************************************************)
EXTENDS ServerPool, TLAPS

(* The requests in the channel are all different.                          *)
Distinct(q) == \A i, j \in 1 .. Len(q) : q[i] = q[j] => i = j
Elems(q) == {q[i] : i \in 1 .. Len(q)}

(* NoneLost with what makes it inductive: the channel has no duplicates,   *)
(* and nothing is anywhere that was not read.                              *)
IInv ==
  /\ TypeOK /\ SocketOutlivesWorkers /\ NoneLost
  /\ Distinct(requests)
  /\ Offered \cup Queued \cup Taken \cup handled \subseteq 1 .. received

(* A request sent on the channel joins those in it.                        *)
LEMMA Appended ==
  ASSUME NEW S, NEW q \in Seq(S), NEW x \in S, Distinct(q), x \notin Elems(q)
  PROVE  /\ Elems(Append(q, x)) = Elems(q) \cup {x}
         /\ Distinct(Append(q, x))
<1> DEFINE r == Append(q, x)
<1>1. /\ Len(r) = Len(q) + 1 /\ Len(q) \in Nat
      /\ r[Len(q) + 1] = x
      /\ \A i \in 1 .. Len(q) : r[i] = q[i]
  OBVIOUS
<1>2. Elems(r) = Elems(q) \cup {x}
  <2>1. ASSUME NEW y \in Elems(r) PROVE y \in Elems(q) \cup {x}
    <3>1. PICK i \in 1 .. Len(r) : y = r[i]
      BY <2>1 DEF Elems
    <3>2. CASE i = Len(q) + 1
      BY <1>1, <3>1, <3>2
    <3>3. CASE i \in 1 .. Len(q)
      BY <1>1, <3>1, <3>3 DEF Elems
    <3> QED BY <1>1, <3>1, <3>2, <3>3
  <2>2. ASSUME NEW i \in 1 .. Len(q) PROVE q[i] \in Elems(r)
    BY <1>1 DEF Elems
  <2>3. x \in Elems(r)
    BY <1>1 DEF Elems
  <2> QED BY <2>1, <2>2, <2>3 DEF Elems
<1>3. Distinct(r)
  <2> SUFFICES ASSUME NEW i \in 1 .. Len(r), NEW j \in 1 .. Len(r), r[i] = r[j]
               PROVE  i = j
    BY DEF Distinct
  <2>1. \A k \in 1 .. Len(q) : q[k] # x
    BY DEF Elems
  <2> QED BY <1>1, <2>1 DEF Distinct
<1> QED BY <1>2, <1>3

(* A request taken from the channel is no longer in it.                    *)
LEMMA Taking ==
  ASSUME NEW S, NEW q \in Seq(S), q # <<>>, Distinct(q)
  PROVE  /\ Head(q) \in Elems(q)
         /\ Elems(Tail(q)) = Elems(q) \ {Head(q)}
         /\ Distinct(Tail(q))
<1> DEFINE t == Tail(q)
<1>1. /\ Len(q) \in Nat \ {0} /\ Len(t) = Len(q) - 1 /\ Head(q) = q[1]
      /\ \A i \in 1 .. Len(t) : t[i] = q[i + 1]
  OBVIOUS
<1>2. Head(q) \in Elems(q)
  BY <1>1 DEF Elems
<1>3. Elems(t) = Elems(q) \ {Head(q)}
  <2>1. ASSUME NEW i \in 1 .. Len(t) PROVE t[i] \in Elems(q) \ {Head(q)}
    <3>1. i + 1 \in 1 .. Len(q) /\ i + 1 # 1 /\ 1 \in 1 .. Len(q)
      BY <1>1
    <3> QED BY <1>1, <3>1 DEF Elems, Distinct
  <2>2. ASSUME NEW i \in 1 .. Len(q), q[i] # Head(q) PROVE q[i] \in Elems(t)
    <3>1. i # 1 BY <1>1, <2>2
    <3>2. i - 1 \in 1 .. Len(t) /\ (i - 1) + 1 = i BY <1>1, <3>1
    <3>3. t[i - 1] = q[i] BY <1>1, <3>2
    <3> QED BY <3>2, <3>3 DEF Elems
  <2> QED BY <2>1, <2>2 DEF Elems
<1>4. Distinct(t)
  <2> SUFFICES ASSUME NEW i \in 1 .. Len(t), NEW j \in 1 .. Len(t), t[i] = t[j]
               PROVE  i = j
    BY DEF Distinct
  <2>1. i + 1 \in 1 .. Len(q) /\ j + 1 \in 1 .. Len(q) /\ q[i + 1] = q[j + 1]
    BY <1>1
  <2> QED BY <2>1 DEF Distinct
<1> QED BY <1>2, <1>3, <1>4

LEMMA InitOK == Init => IInv
<1> SUFFICES ASSUME Init PROVE IInv
  OBVIOUS
<1> USE DEF Init
<1>1. Queued = {} /\ Taken = {} /\ Offered = {} /\ handled = {}
  BY DEF Queued, Taken, Offered
<1>2. TypeOK
  <2>1. requests \in Seq(1 .. MaxNacks) /\ Len(requests) = 0
    OBVIOUS
  <2>2. rd \in [at : {"poll", "read", "offer", "close", "wait", "returned"}, nack : 0 .. MaxNacks]
    BY PoolAssumption
  <2>3. at \in [Worker -> [is : {"idle", "busy", "exited"}, nack : 0 .. MaxNacks]]
    BY PoolAssumption
  <2>4. closed \in BOOLEAN /\ canceled \in BOOLEAN /\ conn \in BOOLEAN
    OBVIOUS
  <2>5. Len(requests) <= QueueCap /\ received \in 0 .. MaxNacks /\ handled \subseteq 1 .. MaxNacks
    BY PoolAssumption, <2>1
  <2> QED BY <2>1, <2>2, <2>3, <2>4, <2>5 DEF TypeOK
<1>3. NoneLost
  BY <1>1 DEF NoneLost
<1> QED BY <1>1, <1>2, <1>3 DEF IInv, SocketOutlivesWorkers, Distinct

(* Where NACKs are after a worker step or a step of the reader.            *)
LEMMA StepOK == IInv /\ [Next]_vars => IInv'
<1> SUFFICES ASSUME IInv, [Next]_vars PROVE IInv'
  OBVIOUS
<1> USE DEF IInv
<1>0. /\ rd \in [at : {"poll", "read", "offer", "close", "wait", "returned"}, nack : 0 .. MaxNacks]
      /\ requests \in Seq(1 .. MaxNacks) /\ Len(requests) <= QueueCap
      /\ closed \in BOOLEAN /\ canceled \in BOOLEAN /\ conn \in BOOLEAN
      /\ at \in [Worker -> [is : {"idle", "busy", "exited"}, nack : 0 .. MaxNacks]]
      /\ received \in 0 .. MaxNacks
      /\ handled \subseteq 1 .. MaxNacks
  BY DEF TypeOK
<1>1. ASSUME Poll \/ ReadNothing \/ OfferCanceled \/ Close PROVE IInv'
  <2>1. /\ UNCHANGED <<requests, at, canceled, conn, received, handled>>
        /\ rd' = [at |-> rd'.at, nack |-> 0] /\ rd'.at \in {"poll", "read", "close", "wait"}
        /\ rd.at \in {"poll", "read", "close"} \/ canceled
    BY <1>1, <1>0 DEF Poll, ReadNothing, OfferCanceled, Close, Reads
  <2>2. closed' \in BOOLEAN /\ (closed' => rd'.at = "wait")
    <3>1. \/ closed' = closed /\ rd.at \notin {"wait", "returned"}
          \/ closed' = TRUE /\ rd'.at = "wait"
      BY <1>1 DEF Poll, ReadNothing, OfferCanceled, Close, Reads
    <3>2. closed \in BOOLEAN /\ (closed => rd.at \in {"wait", "returned"})
      BY <1>0 DEF SocketOutlivesWorkers
    <3>3. CASE closed' = closed /\ rd.at \notin {"wait", "returned"}
      <4>1. ~closed
        BY <3>2, <3>3
      <4> QED BY <3>2, <3>3, <4>1, Zenon
    <3>4. CASE closed' = TRUE /\ rd'.at = "wait"
      BY <3>4, Zenon
    <3> QED BY <3>1, <3>3, <3>4
  <2>3. Queued' = Queued /\ Taken' = Taken /\ Offered' = {} /\ (Offered = {} \/ canceled)
    BY <2>1 DEF Queued, Taken, Offered
  <2>4. TypeOK'
    <3>1. rd' \in [at : {"poll", "read", "offer", "close", "wait", "returned"}, nack : 0 .. MaxNacks]
      BY <2>1, PoolAssumption
    <3>2. conn' \in BOOLEAN /\ canceled' \in BOOLEAN /\ closed' \in BOOLEAN
      BY <1>0, <2>1, <2>2
    <3> QED BY <1>0, <2>1, <3>1, <3>2 DEF TypeOK
  <2>5. SocketOutlivesWorkers'
    BY <2>1, <2>2 DEF SocketOutlivesWorkers
  <2>6. NoneLost'
    BY <2>1, <2>3 DEF NoneLost
  <2> QED BY <2>1, <2>3, <2>4, <2>5, <2>6
<1>2. CASE ReadNack
  <2>1. /\ UNCHANGED <<requests, closed, at, canceled, conn, handled>>
        /\ rd' = [at |-> "offer", nack |-> received + 1] /\ rd.at = "read"
        /\ received' = received + 1 /\ received < MaxNacks
    BY <1>2 DEF ReadNack, Reads
  <2>2. Queued' = Queued /\ Taken' = Taken /\ Offered' = {received + 1} /\ Offered = {}
    BY <2>1 DEF Queued, Taken, Offered
  <2>3. TypeOK'
    BY <1>0, <2>1, PoolAssumption DEF TypeOK
  <2>4. SocketOutlivesWorkers'
    BY <2>1 DEF SocketOutlivesWorkers
  <2>5. 1 .. received' = (1 .. received) \cup {received + 1} /\ received + 1 \notin 1 .. received
    BY <1>0, <2>1
  <2>6. NoneLost'
    BY <2>1, <2>2, <2>5 DEF NoneLost
  <2> QED BY <2>1, <2>2, <2>3, <2>4, <2>5, <2>6
<1>3. CASE Offer
  <2>1. /\ UNCHANGED <<closed, at, canceled, conn, received, handled>>
        /\ rd' = [at |-> "poll", nack |-> 0] /\ rd.at = "offer"
        /\ requests' = Append(requests, rd.nack) /\ Len(requests) < QueueCap
    BY <1>3 DEF Offer, Reads
  <2>2. Offered = {rd.nack} /\ Offered' = {} /\ Taken' = Taken
    BY <2>1 DEF Offered, Taken
  <2>3. Queued = Elems(requests) /\ Queued' = Elems(requests')
    BY DEF Queued, Elems
  <2>4. rd.nack \in 1 .. received /\ rd.nack \in 1 .. MaxNacks /\ rd.nack \notin Queued
    BY <1>0, <2>2 DEF NoneLost
  <2>5. Queued' = Queued \cup {rd.nack} /\ Distinct(requests')
    <3>1. rd.nack \notin Elems(requests)
      BY <2>3, <2>4
    <3>2. /\ Elems(Append(requests, rd.nack)) = Elems(requests) \cup {rd.nack}
          /\ Distinct(Append(requests, rd.nack))
      BY <1>0, <2>4, <3>1, Appended
    <3> QED BY <2>1, <2>3, <3>2
  <2>6. TypeOK'
    <3>1. requests' \in Seq(1 .. MaxNacks) /\ Len(requests') <= QueueCap
      BY <1>0, <2>1, <2>4, PoolAssumption
    <3> QED BY <1>0, <2>1, <3>1, PoolAssumption DEF TypeOK
  <2>7. SocketOutlivesWorkers'
    BY <2>1 DEF SocketOutlivesWorkers
  <2>8. NoneLost'
    BY <2>1, <2>2, <2>5 DEF NoneLost
  <2> QED BY <2>1, <2>2, <2>5, <2>6, <2>7, <2>8
<1>4. CASE Return
  <2>1. /\ UNCHANGED <<requests, closed, at, canceled, received, handled>>
        /\ rd' = [at |-> "returned", nack |-> 0] /\ rd.at = "wait" /\ conn' = FALSE
        /\ \A w \in Worker : at[w].is = "exited"
    BY <1>4 DEF Return, Reads
  <2>2. Queued' = Queued /\ Taken' = Taken /\ Offered' = {} /\ Offered = {}
    BY <2>1 DEF Queued, Taken, Offered
  <2>3. TypeOK'
    <3>1. rd' \in [at : {"poll", "read", "offer", "close", "wait", "returned"}, nack : 0 .. MaxNacks]
      BY <2>1, PoolAssumption
    <3>2. conn' \in BOOLEAN
      BY <2>1
    <3> QED BY <1>0, <2>1, <3>1, <3>2 DEF TypeOK
  <2>4. SocketOutlivesWorkers'
    BY <2>1 DEF SocketOutlivesWorkers
  <2>5. NoneLost'
    BY <2>1, <2>2 DEF NoneLost
  <2> QED BY <2>1, <2>2, <2>3, <2>4, <2>5
<1>5. ASSUME NEW w \in Worker, Take(w) PROVE IInv'
  <2> DEFINE n == Head(requests)
  <2>1. /\ UNCHANGED <<rd, closed, canceled, conn, received, handled>>
        /\ at[w].is = "idle" /\ requests # <<>> /\ requests' = Tail(requests)
        /\ at' = [at EXCEPT ![w] = [is |-> "busy", nack |-> n]]
    BY <1>5 DEF Take
  <2>2. Queued = Elems(requests) /\ Queued' = Elems(requests')
    BY DEF Queued, Elems
  <2>3. n \in Queued /\ Queued' = Queued \ {n} /\ Distinct(requests')
    BY <1>0, <2>1, <2>2, Taking
  <2>4. Taken' = Taken \cup {n}
    BY <1>0, <2>1 DEF Taken
  <2>5. Offered' = Offered
    BY <2>1 DEF Offered
  <2>6. n \in 1 .. received /\ n \in 1 .. MaxNacks
    <3>1. n \in 1 .. received
      BY <2>3
    <3> HIDE DEF n
    <3> QED BY <1>0, <3>1, PoolAssumption
  <2>7. TypeOK'
    <3>1. requests' \in Seq(1 .. MaxNacks) /\ Len(requests') <= QueueCap
      BY <1>0, <2>1, PoolAssumption
    <3>2. at' \in [Worker -> [is : {"idle", "busy", "exited"}, nack : 0 .. MaxNacks]]
      BY <1>0, <2>1, <2>6
    <3> QED BY <1>0, <2>1, <3>1, <3>2 DEF TypeOK
  <2>8. SocketOutlivesWorkers'
    BY <2>1 DEF SocketOutlivesWorkers
  <2>9. NoneLost'
    <3>1. ASSUME NEW u \in Worker, NEW v \in Worker, u # v, at'[u].is = "busy", at'[v].is = "busy"
          PROVE  at'[u].nack # at'[v].nack
      <4>1. n \notin Taken
        BY <2>3 DEF NoneLost
      <4>2. \A x \in Worker : at[x].is = "busy" => at[x].nack # n
        BY <4>1 DEF Taken
      <4> QED BY <1>0, <2>1, <3>1, <4>2 DEF NoneLost
    <3>2. /\ ~canceled' => 1 .. received' = Offered' \cup Queued' \cup Taken' \cup handled'
          /\ Offered' \cap (Queued' \cup Taken' \cup handled') = {}
          /\ Queued' \cap (Taken' \cup handled') = {}
          /\ Taken' \cap handled' = {}
      BY <2>1, <2>3, <2>4, <2>5 DEF NoneLost
    <3> QED BY <3>1, <3>2 DEF NoneLost
  <2> QED BY <2>1, <2>3, <2>4, <2>5, <2>6, <2>7, <2>8, <2>9
<1>6. ASSUME NEW w \in Worker, Finish(w) PROVE IInv'
  <2> DEFINE n == at[w].nack
  <2>1. /\ UNCHANGED <<rd, requests, closed, canceled, conn, received>>
        /\ at[w].is = "busy" /\ handled' = handled \cup {n}
        /\ at' = [at EXCEPT ![w] = [is |-> "idle", nack |-> 0]]
    BY <1>6 DEF Finish
  <2>2. n \in Taken
    BY <2>1 DEF Taken
  <2>3. \A v \in Worker : v # w /\ at[v].is = "busy" => at[v].nack # n
    BY <2>1 DEF NoneLost
  <2>4. Taken' = Taken \ {n}
    BY <1>0, <2>1, <2>3 DEF Taken
  <2>5. Offered' = Offered /\ Queued' = Queued
    BY <2>1 DEF Offered, Queued
  <2>6. n \in 1 .. received /\ n \in 1 .. MaxNacks
    BY <1>0, <2>2
  <2>7. TypeOK'
    BY <1>0, <2>1, <2>6, PoolAssumption DEF TypeOK
  <2>8. SocketOutlivesWorkers'
    BY <2>1 DEF SocketOutlivesWorkers
  <2>9. NoneLost'
    <3>1. \A u, v \in Worker :
            u # v /\ at'[u].is = "busy" /\ at'[v].is = "busy" => at'[u].nack # at'[v].nack
      BY <1>0, <2>1 DEF NoneLost
    <3>2. /\ ~canceled' => 1 .. received' = Offered' \cup Queued' \cup Taken' \cup handled'
          /\ Offered' \cap (Queued' \cup Taken' \cup handled') = {}
          /\ Queued' \cap (Taken' \cup handled') = {}
          /\ Taken' \cap handled' = {}
      BY <2>1, <2>2, <2>4, <2>5 DEF NoneLost
    <3> QED BY <3>1, <3>2 DEF NoneLost
  <2> QED BY <2>1, <2>2, <2>4, <2>5, <2>6, <2>7, <2>8, <2>9
<1>7. ASSUME NEW w \in Worker, Exit(w) PROVE IInv'
  <2>1. /\ UNCHANGED <<rd, requests, closed, canceled, conn, received, handled>>
        /\ at[w].is = "idle"
        /\ at' = [at EXCEPT ![w] = [is |-> "exited", nack |-> 0]]
    BY <1>7 DEF Exit
  <2>2. Taken' = Taken
    BY <1>0, <2>1 DEF Taken
  <2>3. Offered' = Offered /\ Queued' = Queued
    BY <2>1 DEF Offered, Queued
  <2>4. TypeOK'
    BY <1>0, <2>1, PoolAssumption DEF TypeOK
  <2>5. SocketOutlivesWorkers'
    BY <1>0, <2>1 DEF SocketOutlivesWorkers
  <2>6. NoneLost'
    <3>1. \A u, v \in Worker :
            u # v /\ at'[u].is = "busy" /\ at'[v].is = "busy" => at'[u].nack # at'[v].nack
      BY <1>0, <2>1 DEF NoneLost
    <3> QED BY <2>1, <2>2, <2>3, <3>1 DEF NoneLost
  <2> QED BY <2>1, <2>2, <2>3, <2>4, <2>5, <2>6
<1>8. CASE Cancel \/ Finished \/ UNCHANGED vars
  <2>1. UNCHANGED <<rd, requests, closed, at, conn, received, handled>> /\ canceled' \in BOOLEAN
        /\ (canceled => canceled')
    BY <1>0, <1>8 DEF Cancel, Finished, vars
  <2>2. Queued' = Queued /\ Taken' = Taken /\ Offered' = Offered
    BY <2>1 DEF Queued, Taken, Offered
  <2>3. TypeOK'
    BY <1>0, <2>1 DEF TypeOK
  <2>4. SocketOutlivesWorkers' /\ NoneLost'
    BY <2>1, <2>2 DEF SocketOutlivesWorkers, NoneLost
  <2> QED BY <2>1, <2>2, <2>3, <2>4
<1> QED
  BY <1>1, <1>2, <1>3, <1>4, <1>5, <1>6, <1>7, <1>8 DEF Next, Reader, WorkerStep

(* Every state of the NACK server satisfies the invariant.                 *)
THEOREM Invariance == Spec => []IInv
<1>1. Init => IInv
  BY InitOK
<1>2. IInv /\ [Next]_vars => IInv'
  BY StepOK
<1> QED BY <1>1, <1>2, PTL DEF Spec

(* Run keeps the state's type, and never has more requests in the channel  *)
(* than it holds.                                                          *)
THEOREM TypeCorrect == Spec => []TypeOK
<1>1. IInv => TypeOK
  BY DEF IInv
<1> QED BY <1>1, Invariance, PTL

(* The socket is closed only when no worker is left, the channel only when *)
(* the reader no longer sends: for every pool.                             *)
THEOREM SocketIsLast == Spec => []SocketOutlivesWorkers
<1>1. IInv => SocketOutlivesWorkers
  BY DEF IInv
<1> QED BY <1>1, Invariance, PTL

(* No NACK is lost before shutdown or ever handled twice: for every pool,  *)
(* capacity and load.                                                      *)
THEOREM NoNackLost == Spec => []NoneLost
<1>1. IInv => NoneLost
  BY DEF IInv
<1> QED BY <1>1, Invariance, PTL
===============================================================================
