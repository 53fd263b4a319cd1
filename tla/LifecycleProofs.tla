--------------------------- MODULE LifecycleProofs ----------------------------
(***************************************************************************)
(* Proofs about Lifecycle, for any number of ingress workers and every set *)
(* of configurations.                                                      *)
(***************************************************************************)
EXTENDS Lifecycle, FiniteSetTheorems, TLAPS

Starting == {"load", "frame", "dedup", "interfaces", "egress", "wire", "bootstrap", "spawn"}

(* Until run returns nothing is closed, and until it cancels nothing is    *)
(* told to end.  A goroutine run has not come to has not been started.     *)
Early ==
  /\ main \notin {"wait", "return", "gone"} => ~canceled /\ ~done
  /\ main \notin {"return", "gone"} => closed = <<>>
  /\ main \in Starting => task["beacon"] = "none"
  /\ main \in Starting => \A i \in 1 .. Len(Order) : started < i => task[Order[i]] = "none"

(* What run has deferred, by where it is; each once, and nothing of it is  *)
(* closed yet.                                                             *)
Distinct(s) == \A i, j \in 1 .. Len(s) : s[i] = s[j] => i = j
Listed == {deferred[i] : i \in 1 .. Len(deferred)}
Deferral ==
  /\ Distinct(deferred) /\ Distinct(closed) /\ Listed \cap Closed = {}
  /\ main \in {"load", "frame"} => Listed = {}
  /\ main = "dedup" => Listed \subseteq {"frame"}
  /\ main \in {"interfaces", "egress"} => Listed \subseteq {"frame", "dedup"}
  /\ main = "wire" => Listed \subseteq {"frame", "dedup", "egress"}

(* What is true after the select: of draining, and of the goroutines that  *)
(* wg.Wait waits for once it has returned.                                 *)
Late ==
  /\ main \in {"drain", "cancel", "wait"} /\ cfg.drain => draining
  /\ main \in {"return", "gone"} /\ why \in {"no", "signal", "fatal"} =>
       \A t \in Awaited : ~Running(t)
  /\ main = "gone" /\ why # "killed" => deferred = <<>>

IInv == TypeOK /\ Early /\ Deferral /\ Late

-------------------------------------------------------------------------------
(* The goroutines, and the count of those that are ready.                  *)

(* Order names each goroutine that it names once.                          *)
LEMMA OrderOK ==
  /\ Len(Order) = Len(Ingress) + 4 /\ Len(Ingress) \in Nat
  /\ \A i \in 1 .. Len(Order) : Order[i] \in Task \ {"beacon", "proxy"}
  /\ Distinct(Order)
<1>1. PICK n \in Nat : n = Len(Ingress)
  BY LifecycleAssumption
<1>2. \A i \in 1 .. n : Ingress[i] \in Workers /\ Ingress[i] \notin Others
  BY <1>1, LifecycleAssumption DEF Workers
<1>3. \A i, j \in 1 .. n : Ingress[i] = Ingress[j] => i = j
  BY <1>1, LifecycleAssumption
<1>4. /\ Len(Order) = n + 4 /\ Order[1] = "metrics" /\ Order[2] = "sampler"
      /\ \A i \in 3 .. n + 2 : Order[i] = Ingress[i - 2]
      /\ Order[n + 3] = "tee" /\ Order[n + 4] = "server"
  <2>1. PICK a : a = <<"metrics", "sampler">> \o Ingress
    OBVIOUS
  <2>2. /\ a \in Seq(Workers \cup Others) /\ Len(a) = n + 2 /\ a[1] = "metrics" /\ a[2] = "sampler"
        /\ \A i \in 3 .. n + 2 : a[i] = Ingress[i - 2]
    <3>1. Ingress \in Seq(Workers \cup Others) /\ <<"metrics", "sampler">> \in Seq(Workers \cup Others)
      <4>1. \A R, S : Seq(R) \subseteq Seq(R \cup S)
        OBVIOUS
      <4>2. "metrics" \in Others /\ "sampler" \in Others
        BY DEF Others
      <4> QED BY <4>1, <4>2, LifecycleAssumption
    <3> QED BY <1>1, <2>1, <3>1
  <2>3. Order = a \o <<"tee", "server">>
    BY <2>1 DEF Order
  <2>4. <<"tee", "server">> \in Seq(Workers \cup Others)
    BY DEF Others
  <2> QED BY <2>2, <2>3, <2>4
<1>5. ASSUME NEW i \in 1 .. n + 4, i \notin {1, 2, n + 3, n + 4}
      PROVE  i \in 3 .. n + 2 /\ i - 2 \in 1 .. n
  BY <1>5
<1>6. ASSUME NEW i \in 1 .. n + 4
      PROVE  \/ i \in {1, 2, n + 3, n + 4} /\ Order[i] \in {"metrics", "sampler", "tee", "server"}
             \/ /\ i \in 3 .. n + 2 /\ i - 2 \in 1 .. n /\ Order[i] = Ingress[i - 2]
                /\ Order[i] \in Workers /\ Order[i] \notin Others
  <2>1. CASE i \in {1, 2, n + 3, n + 4}
    BY <1>4, <2>1
  <2>2. CASE i \notin {1, 2, n + 3, n + 4}
    BY <1>2, <1>4, <1>5, <2>2
  <2> QED BY <2>1, <2>2
<1>7. \A i \in 1 .. n + 4 : Order[i] \in Task \ {"beacon", "proxy"}
  BY <1>6 DEF Task, Others
<1>8. ASSUME NEW i \in 1 .. n + 4, NEW j \in 1 .. n + 4, Order[i] = Order[j]
      PROVE  i = j
  <2>1. CASE Order[i] \in Others
    <3>1. i \in {1, 2, n + 3, n + 4} /\ j \in {1, 2, n + 3, n + 4}
      BY <1>6, <1>8, <2>1
    <3> QED BY <1>4, <1>8, <3>1
  <2>2. CASE Order[i] \notin Others
    <3>1. /\ i - 2 \in 1 .. n /\ Order[i] = Ingress[i - 2]
          /\ j - 2 \in 1 .. n /\ Order[j] = Ingress[j - 2]
      BY <1>6, <1>8, <2>2 DEF Others
    <3>2. i - 2 = j - 2
      BY <1>3, <1>8, <3>1
    <3> QED BY <3>2
  <2> QED BY <2>1, <2>2
<1> QED BY <1>1, <1>4, <1>7, <1>8 DEF Distinct

Counted == Feeds \cup {"server"}
UpSet == {t \in Counted : task[t] = "up"}

LEMMA CountedOK ==
  /\ IsFiniteSet(Counted) /\ Counted \subseteq Task
  /\ "beacon" \notin Counted /\ "proxy" \notin Counted
<1> USE LifecycleAssumption
<1>1. PICK n \in Nat : n = Len(Ingress)
  OBVIOUS
<1>2. IsFiniteSet(1 .. n)
  BY FS_Interval
<1>3. PICK f : f = [i \in 1 .. n |-> Ingress[i]]
  OBVIOUS
<1>4. f \in Surjection(1 .. n, Workers)
  BY <1>1, <1>3 DEF Surjection, Workers
<1>5. IsFiniteSet(Workers)
  BY <1>2, <1>4, FS_Surjection
<1>6. IsFiniteSet(Feeds)
  BY <1>5, FS_AddElement DEF Feeds
<1>7. IsFiniteSet(Counted)
  BY <1>6, FS_AddElement DEF Counted
<1> QED BY <1>7 DEF Counted, Feeds, Task, Others

LEMMA UpSetFinite ==
  IsFiniteSet(UpSet) /\ Cardinality(UpSet) \in Nat
<1>1. UpSet \in SUBSET Counted
  BY DEF UpSet
<1>2. IsFiniteSet(UpSet)
  BY <1>1, CountedOK, FS_Subset
<1> QED BY <1>2, FS_CardinalityType

(* A goroutine that is counted comes up, or ends; any other change of one  *)
(* leaves the count.                                                       *)
LEMMA Counts ==
  ASSUME task \in [Task -> {"none", "starting", "up", "ended"}], NEW t \in Task,
         NEW s \in {"none", "starting", "up", "ended"}, task' = [task EXCEPT ![t] = s]
  PROVE  /\ t \in Counted /\ task[t] # "up" /\ s = "up" =>
              Cardinality(UpSet') = Cardinality(UpSet) + 1
         /\ t \in Counted /\ task[t] = "up" /\ s # "up" =>
              Cardinality(UpSet') = Cardinality(UpSet) - 1
         /\ t \notin Counted \/ (task[t] # "up" /\ s # "up") => UpSet' = UpSet
<1>1. \A u \in Counted : task'[u] = IF u = t THEN s ELSE task[u]
  BY CountedOK
<1>2. ASSUME t \in Counted, task[t] # "up", s = "up"
      PROVE  Cardinality(UpSet') = Cardinality(UpSet) + 1
  <2>1. UpSet' = UpSet \cup {t} /\ t \notin UpSet
    BY <1>1, <1>2 DEF UpSet
  <2> QED BY <2>1, UpSetFinite, FS_AddElement
<1>3. ASSUME t \in Counted, task[t] = "up", s # "up"
      PROVE  Cardinality(UpSet') = Cardinality(UpSet) - 1
  <2>1. UpSet' = UpSet \ {t} /\ t \in UpSet
    BY <1>1, <1>3 DEF UpSet
  <2> QED BY <2>1, UpSetFinite, FS_RemoveElement
<1>4. ASSUME t \notin Counted \/ (task[t] # "up" /\ s # "up") PROVE UpSet' = UpSet
  BY <1>1, <1>4 DEF UpSet
<1> QED BY <1>2, <1>3, <1>4

(* A goroutine's own step.                                                 *)
LEMMA MovesOK ==
  ASSUME IInv, NEW t \in Task, NEW from \in {"starting", "up"}, NEW to \in {"up", "ended"},
         Moves(t, from, to), ready' = Cardinality(UpSet'),
         fatalCh' \in BOOLEAN, reported' \subseteq Feeds
  PROVE  IInv'
<1>1. /\ task[t] = from /\ task' = [task EXCEPT ![t] = to]
      /\ cfg' = cfg /\ main' = main /\ started' = started /\ deferred' = deferred
      /\ closed' = closed /\ draining' = draining /\ canceled' = canceled /\ done' = done
      /\ sigCh' = sigCh /\ why' = why
  BY DEF Moves, shutdown
<1>2. task \in [Task -> {"none", "starting", "up", "ended"}]
  BY DEF IInv, TypeOK
<1>3. task' \in [Task -> {"none", "starting", "up", "ended"}]
  BY <1>1, <1>2
<1>4. \A u \in Task : task[u] \in {"none", "ended"} => task'[u] = task[u]
  BY <1>1, <1>2
<1>5. TypeOK'
  BY <1>1, <1>3 DEF IInv, TypeOK, UpSet, Counted
<1>6. Early'
  <2>1. "beacon" \in Task
    BY DEF Task, Others
  <2> QED BY <1>1, <1>4, <2>1, OrderOK DEF IInv, Early
<1>7. Deferral'
  <2>1. Deferral
    BY DEF IInv
  <2>2. /\ Distinct(deferred)' = Distinct(deferred) /\ Distinct(closed)' = Distinct(closed)
        /\ Listed' = Listed /\ Closed' = Closed
    BY <1>1 DEF Distinct, Listed, Closed
  <2> QED BY <1>1, <2>1, <2>2 DEF Deferral
<1>8. Late'
  BY <1>1, <1>2, <1>4 DEF IInv, Late, Running, Awaited
<1> QED BY <1>5, <1>6, <1>7, <1>8 DEF IInv

(* Goroutines that are counted, and those that are not.                    *)
LEMMA GoroutineOK ==
  ASSUME IInv,
         \/ \E t \in Feeds : Feed(t)
         \/ ServerUp \/ ServerFails \/ ServerEnds
         \/ BeaconUp \/ BeaconGivesUp
         \/ \E t \in Waiting : Ends(t)
  PROVE  IInv'
<1>1. /\ task \in [Task -> {"none", "starting", "up", "ended"}] /\ ready = Cardinality(UpSet)
      /\ fatalCh \in BOOLEAN /\ canceled \in BOOLEAN /\ reported \subseteq Feeds
  BY DEF IInv, TypeOK, UpSet, Counted
<1>2. /\ Feeds \subseteq Counted /\ "server" \in Counted /\ Counted \subseteq Task
      /\ Waiting \subseteq Task /\ Waiting \cap Counted = {} /\ "beacon" \in Waiting
  BY LifecycleAssumption DEF Counted, Feeds, Task, Others, Waiting
<1>3. ASSUME NEW t \in Counted, NEW from \in {"starting", "up"}, NEW to \in {"up", "ended"},
             Moves(t, from, to),
             ready' = IF from = "up" THEN ready - 1 ELSE IF to = "up" THEN ready + 1 ELSE ready,
             from # to, fatalCh' \in BOOLEAN, reported' \subseteq Feeds
      PROVE  IInv'
  <2>1. t \in Task /\ task[t] = from /\ task' = [task EXCEPT ![t] = to]
    BY <1>2, <1>3 DEF Moves
  <2>2. ready' = Cardinality(UpSet')
    BY <1>1, <1>3, <2>1, Counts
  <2> QED BY <1>3, <2>1, <2>2, MovesOK
<1>4. ASSUME NEW t \in Waiting, NEW from \in {"starting", "up"}, NEW to \in {"up", "ended"},
             Moves(t, from, to), ready' = ready, fatalCh' = fatalCh, reported' = reported
      PROVE  IInv'
  <2>1. t \in Task /\ t \notin Counted /\ task' = [task EXCEPT ![t] = to]
    BY <1>2, <1>4 DEF Moves
  <2>2. ready' = Cardinality(UpSet')
    BY <1>1, <1>4, <2>1, Counts
  <2> QED BY <1>1, <1>4, <2>1, <2>2, MovesOK
<1>5. ASSUME NEW t \in Feeds, Feed(t) PROVE IInv'
  <2>1. CASE FeedUp(t)
    BY <1>1, <1>2, <1>3, <2>1 DEF FeedUp, WorkerReady
  <2>2. CASE FeedFails(t)
    <3>1. fatalCh' \in BOOLEAN /\ reported' \subseteq Feeds
      BY <1>1, <2>2 DEF FeedFails
    <3> QED BY <1>2, <1>3, <2>2, <3>1 DEF FeedFails
  <2>3. CASE FeedEnds(t)
    BY <1>1, <1>2, <1>3, <2>3 DEF FeedEnds, WorkerDone
  <2> QED BY <1>5, <2>1, <2>2, <2>3 DEF Feed
<1>6. CASE ServerUp \/ ServerFails \/ ServerEnds
  BY <1>1, <1>2, <1>3, <1>6 DEF ServerUp, ServerFails, ServerEnds, WorkerReady, WorkerDone
<1>7. CASE BeaconUp \/ BeaconGivesUp
  BY <1>2, <1>4, <1>7 DEF BeaconUp, BeaconGivesUp
<1>8. ASSUME NEW t \in Waiting, Ends(t) PROVE IInv'
  BY <1>4, <1>8 DEF Ends
<1> QED BY <1>5, <1>6, <1>7, <1>8

-------------------------------------------------------------------------------
(* The lists of what is deferred and of what is closed.                    *)
Elements(s) == {s[i] : i \in 1 .. Len(s)}

LEMMA Appended ==
  ASSUME NEW S, NEW s \in Seq(S), NEW x \in S
  PROVE  /\ Append(s, x) \in Seq(S) /\ Elements(Append(s, x)) = Elements(s) \cup {x}
         /\ Distinct(s) /\ x \notin Elements(s) => Distinct(Append(s, x))
<1>1. PICK r : r = Append(s, x)
  OBVIOUS
<1>2. /\ r \in Seq(S) /\ Len(s) \in Nat /\ Len(r) = Len(s) + 1 /\ r[Len(s) + 1] = x
      /\ \A i \in 1 .. Len(s) : r[i] = s[i]
  BY <1>1
<1>3. \A i \in 1 .. Len(r) : i \in 1 .. Len(s) \/ i = Len(s) + 1
  BY <1>2
<1>4. Len(s) + 1 \in 1 .. Len(r) /\ 1 .. Len(s) \subseteq 1 .. Len(r)
  BY <1>2
<1>5. Elements(r) = Elements(s) \cup {x}
  BY <1>2, <1>3, <1>4 DEF Elements
<1>6. ASSUME Distinct(s), x \notin Elements(s) PROVE Distinct(r)
  <2>1. \A i \in 1 .. Len(s) : s[i] # x
    BY <1>6 DEF Elements
  <2> QED BY <1>2, <1>3, <1>6, <2>1 DEF Distinct
<1> QED BY <1>1, <1>2, <1>5, <1>6

LEMMA Shortened ==
  ASSUME NEW S, NEW s \in Seq(S), NEW n \in Nat, Len(s) = n + 1
  PROVE  /\ SubSeq(s, 1, n) \in Seq(S) /\ s[n + 1] \in S
         /\ Elements(s) = Elements(SubSeq(s, 1, n)) \cup {s[n + 1]}
         /\ Distinct(s) => Distinct(SubSeq(s, 1, n)) /\ s[n + 1] \notin Elements(SubSeq(s, 1, n))
<1> DEFINE t == SubSeq(s, 1, n)
<1>1. /\ Len(s) \in Nat /\ Len(s) >= 1 /\ t \in Seq(S) /\ Len(t) = Len(s) - 1
      /\ \A i \in 1 .. Len(t) : t[i] = s[i]
      /\ \A i \in 1 .. Len(s) : s[i] \in S
  OBVIOUS
<1> HIDE DEF t
<1>2. Len(s) \in 1 .. Len(s) /\ 1 .. Len(t) \subseteq 1 .. Len(s)
  BY <1>1
<1>3. \A i \in 1 .. Len(s) : i \in 1 .. Len(t) \/ i = Len(s)
  BY <1>1
<1>4. Elements(s) = Elements(t) \cup {s[Len(s)]}
  BY <1>1, <1>2, <1>3 DEF Elements
<1>5. ASSUME Distinct(s) PROVE Distinct(t) /\ s[Len(s)] \notin Elements(t)
  <2>1. Distinct(t)
    BY <1>1, <1>2, <1>5 DEF Distinct
  <2>2. ASSUME NEW i \in 1 .. Len(t) PROVE t[i] # s[Len(s)]
    <3>1. i # Len(s) /\ i \in 1 .. Len(s)
      BY <1>1
    <3> QED BY <1>1, <1>2, <1>5, <3>1 DEF Distinct
  <2> QED BY <2>1, <2>2 DEF Elements
<1> QED BY <1>1, <1>2, <1>4, <1>5 DEF t

(* A step of run that starts, defers and closes nothing.                   *)
LEMMA PlainOK ==
  ASSUME IInv, cfg' = cfg, started' = started, task' = task, deferred' = deferred,
         closed' = closed, ready' = ready, reported' = reported,
         main' \in Starting \cup {"select", "drain", "cancel", "wait", "return", "gone"},
         why' \in {"no", "error", "signal", "fatal", "killed"},
         {draining', canceled', done', sigCh', fatalCh'} \subseteq BOOLEAN,
         main' \notin {"wait", "return", "gone"} => ~canceled' /\ ~done',
         main' \notin {"return", "gone"} => main \notin {"return", "gone"},
         main' \in Starting => main \in Starting /\ main' \notin {"load", "dedup", "wire"},
         main' = "frame" => main = "load",
         main' \in {"interfaces", "egress"} => main \in {"dedup", "interfaces", "egress"},
         Late'
  PROVE  IInv'
<1>1. TypeOK'
  BY DEF IInv, TypeOK, Starting
<1>2. Early'
  BY DEF IInv, Early
<1>3. Deferral'
  <2>1. Deferral
    BY DEF IInv
  <2>2. /\ Distinct(deferred)' = Distinct(deferred) /\ Distinct(closed)' = Distinct(closed)
        /\ Listed' = Listed /\ Closed' = Closed
    BY DEF Distinct, Listed, Closed
  <2> QED BY <2>1, <2>2 DEF Deferral, Starting
<1> QED BY <1>1, <1>2, <1>3 DEF IInv

LEMMA FailOK ==
  ASSUME IInv, NEW from \in Starting, Fail(from)
  PROVE  IInv'
<1>1. /\ cfg' = cfg /\ started' = started /\ task' = task /\ deferred' = deferred
      /\ closed' = closed /\ ready' = ready /\ reported' = reported /\ draining' = draining
      /\ canceled' = canceled /\ done' = done /\ sigCh' = sigCh /\ fatalCh' = fatalCh
      /\ main' = "return" /\ why' = "error"
  BY DEF Fail, shutdown, signals
<1>2. {draining', canceled', done', sigCh', fatalCh'} \subseteq BOOLEAN
  BY <1>1 DEF IInv, TypeOK
<1>3. Late'
  BY <1>1 DEF Late
<1> QED BY <1>1, <1>2, <1>3, PlainOK DEF Starting

(* Steps of the start-up that open nothing.                                *)
LEMMA StepsOK ==
  ASSUME IInv, task' = task, deferred' = deferred,
         \/ Step("load", "frame") \/ Step("dedup", "interfaces") \/ Step("interfaces", "egress")
         \/ Step("bootstrap", "spawn") \/ Step("spawn", "select")
  PROVE  IInv'
<1>1. /\ cfg' = cfg /\ started' = started
      /\ closed' = closed /\ ready' = ready /\ reported' = reported /\ draining' = draining
      /\ canceled' = canceled /\ done' = done /\ sigCh' = sigCh /\ fatalCh' = fatalCh
      /\ why' = why
      /\ \/ main = "load" /\ main' = "frame"
         \/ main = "dedup" /\ main' = "interfaces"
         \/ main = "interfaces" /\ main' = "egress"
         \/ main = "bootstrap" /\ main' = "spawn"
         \/ main = "spawn" /\ main' = "select"
  BY DEF Step, shutdown, signals
<1>2. /\ {draining', canceled', done', sigCh', fatalCh'} \subseteq BOOLEAN
      /\ why' \in {"no", "error", "signal", "fatal", "killed"}
  BY <1>1 DEF IInv, TypeOK
<1>3. ~canceled /\ ~done
  BY <1>1 DEF IInv, Early
<1>4. Late'
  BY <1>1 DEF Late
<1> QED BY <1>1, <1>2, <1>3, <1>4, PlainOK DEF Starting

(* A step that opens something, or makes the root context, and defers what *)
(* undoes it.                                                              *)
LEMMA OpensOK ==
  ASSUME IInv, NEW from, NEW to, NEW r, Step(from, to), deferred' = Append(deferred, r),
         <<from, to, r>> \in {<<"frame", "dedup", "frame">>, <<"dedup", "interfaces", "dedup">>,
                              <<"egress", "wire", "egress">>, <<"wire", "bootstrap", "cancel">>},
         task' = task \/ (from = "wire" /\ task' = [task EXCEPT !["proxy"] = "up"])
  PROVE  IInv'
<1>1. /\ cfg' = cfg /\ started' = started
      /\ closed' = closed /\ ready' = ready /\ reported' = reported /\ draining' = draining
      /\ canceled' = canceled /\ done' = done /\ sigCh' = sigCh /\ fatalCh' = fatalCh
      /\ why' = why /\ main = from /\ main' = to
  BY DEF Step, shutdown, signals
<1>2. \/ from = "frame" /\ to = "dedup" /\ r = "frame"
      \/ from = "dedup" /\ to = "interfaces" /\ r = "dedup"
      \/ from = "egress" /\ to = "wire" /\ r = "egress"
      \/ from = "wire" /\ to = "bootstrap" /\ r = "cancel"
  OBVIOUS
<1>3. TypeOK /\ Early /\ Deferral /\ Late
  BY DEF IInv
<1>4. deferred \in Seq({"frame", "dedup", "egress", "cancel"})
  BY <1>3 DEF TypeOK
<1>5. closed = <<>> /\ ~canceled /\ ~done
  BY <1>1, <1>2, <1>3 DEF Early
<1>6. r \notin Elements(deferred) /\ Listed = Elements(deferred) /\ Listed' = Elements(deferred')
  BY <1>1, <1>2, <1>3 DEF Deferral, Listed, Elements
<1>7. /\ deferred' \in Seq({"frame", "dedup", "egress", "cancel"})
      /\ Listed' = Listed \cup {r} /\ Distinct(deferred')
  <2>1. r \in {"frame", "dedup", "egress", "cancel"} /\ Distinct(deferred)
    BY <1>2, <1>3 DEF Deferral
  <2> QED BY <1>4, <1>6, <2>1, Appended
<1>8. /\ task \in [Task -> {"none", "starting", "up", "ended"}]
      /\ task' \in [Task -> {"none", "starting", "up", "ended"}]
      /\ UpSet' = UpSet /\ \A t \in Task : t # "proxy" => task'[t] = task[t]
  <2>1. task \in [Task -> {"none", "starting", "up", "ended"}]
    BY <1>3 DEF TypeOK
  <2>2. CASE task' = task
    BY <2>1, <2>2 DEF UpSet
  <2>3. CASE task' = [task EXCEPT !["proxy"] = "up"]
    <3>1. "proxy" \in Task
      BY DEF Task, Others
    <3> QED BY <2>1, <2>3, <3>1, Counts, CountedOK
  <2> QED BY <2>1, <2>2, <2>3
<1>9. TypeOK'
  <2>1. ready' = Cardinality({t \in Feeds \cup {"server"} : task'[t] = "up"})
    BY <1>1, <1>3, <1>8 DEF TypeOK, UpSet, Counted
  <2> QED BY <1>1, <1>2, <1>3, <1>7, <1>8, <2>1 DEF TypeOK
<1>10. Early'
  <2>1. task'["beacon"] = task["beacon"]
    BY <1>8 DEF Task, Others
  <2>2. \A i \in 1 .. Len(Order) : task'[Order[i]] = task[Order[i]]
    BY <1>8, OrderOK
  <2> QED BY <1>1, <1>2, <1>3, <1>5, <2>1, <2>2 DEF Early, Starting
<1>11. Deferral'
  <2>1. Distinct(closed') /\ Closed' = {}
    BY <1>1, <1>5 DEF Distinct, Closed
  <2>2. Distinct(deferred)' /\ Distinct(closed)'
    BY <1>7, <2>1 DEF Distinct
  <2> QED BY <1>1, <1>2, <1>3, <1>7, <2>1, <2>2 DEF Deferral
<1>12. Late'
  BY <1>1, <1>2 DEF Late
<1> QED BY <1>9, <1>10, <1>11, <1>12 DEF IInv

-------------------------------------------------------------------------------
(* run starts goroutines.                                                  *)

(* A goroutine that had not been started is.                               *)
LEMMA StartsOK ==
  ASSUME IInv, NEW t \in Task, task[t] = "none", NEW s \in {"starting", "up"},
         task' = [task EXCEPT ![t] = s], t \in Counted => s = "starting"
  PROVE  /\ task' \in [Task -> {"none", "starting", "up", "ended"}]
         /\ UpSet' = UpSet
         /\ \A u \in Task : u # t => task'[u] = task[u]
<1>1. task \in [Task -> {"none", "starting", "up", "ended"}]
  BY DEF IInv, TypeOK
<1> QED BY <1>1, Counts

LEMMA SpawnOK ==
  ASSUME IInv, Spawn
  PROVE  IInv'
<1>1. PICK t : t = Order[started + 1]
  OBVIOUS
<1>2. /\ main = "spawn" /\ started < Len(Order) /\ started' = started + 1
      /\ task' = IF ~Enabled(t) THEN task
                 ELSE [task EXCEPT ![t] = IF t \in {"metrics", "sampler"} THEN "up" ELSE "starting"]
      /\ cfg' = cfg /\ main' = main /\ deferred' = deferred /\ closed' = closed
      /\ ready' = ready /\ draining' = draining /\ canceled' = canceled /\ done' = done
      /\ sigCh' = sigCh /\ fatalCh' = fatalCh /\ reported' = reported /\ why' = why
  BY <1>1 DEF Spawn, shutdown, signals
<1>3. TypeOK /\ Early /\ Deferral /\ Late
  BY DEF IInv
<1>4. /\ started \in Nat /\ started + 1 \in 1 .. Len(Order) /\ Len(Order) = Len(Ingress) + 4
      /\ Len(Ingress) \in Nat
  BY <1>2, <1>3, OrderOK DEF TypeOK
<1>5. /\ t \in Task /\ t \notin {"beacon", "proxy"} /\ task[t] = "none"
      /\ \A i \in 1 .. Len(Order) : i # started + 1 => Order[i] # t
      /\ \A i \in 1 .. Len(Order) : Order[i] \in Task
  <2>1. main \in Starting
    BY <1>2 DEF Starting
  <2> QED BY <1>1, <1>3, <1>4, <2>1, OrderOK DEF Early, Distinct
<1>6. /\ task' \in [Task -> {"none", "starting", "up", "ended"}] /\ UpSet' = UpSet
      /\ \A u \in Task : u # t => task'[u] = task[u]
  <2>1. CASE Enabled(t)
    <3>1. PICK x \in {"starting", "up"} : x = IF t \in {"metrics", "sampler"} THEN "up" ELSE "starting"
      OBVIOUS
    <3>2. t \in Counted => x = "starting"
      BY <3>1, LifecycleAssumption DEF Counted, Feeds, Others
    <3> QED BY <1>2, <1>5, <2>1, <3>1, <3>2, StartsOK
  <2>2. CASE ~Enabled(t)
    BY <1>2, <1>3, <2>2 DEF TypeOK, UpSet
  <2> QED BY <2>1, <2>2
<1>7. TypeOK'
  <2>1. ready' = Cardinality({u \in Feeds \cup {"server"} : task'[u] = "up"})
    BY <1>2, <1>3, <1>6 DEF TypeOK, UpSet, Counted
  <2>2. started' \in 0 .. Len(Ingress) + 4
    BY <1>2, <1>4
  <2> QED BY <1>2, <1>3, <1>6, <2>1, <2>2 DEF TypeOK
<1>8. Early'
  <2>1. task'["beacon"] = "none"
    BY <1>2, <1>3, <1>5, <1>6 DEF Early, Starting, Task, Others
  <2>2. ASSUME NEW i \in 1 .. Len(Order), started' < i PROVE task'[Order[i]] = "none"
    <3>1. started < i /\ i # started + 1
      BY <1>2, <1>4, <2>2
    <3>2. task[Order[i]] = "none"
      BY <1>2, <1>3, <3>1 DEF Early, Starting
    <3> QED BY <1>5, <1>6, <3>1, <3>2
  <2> QED BY <1>2, <1>3, <2>1, <2>2 DEF Early
<1>9. Deferral'
  <2>1. /\ Distinct(deferred)' = Distinct(deferred) /\ Distinct(closed)' = Distinct(closed)
        /\ Listed' = Listed /\ Closed' = Closed
    BY <1>2 DEF Distinct, Listed, Closed
  <2> QED BY <1>2, <1>3, <2>1 DEF Deferral
<1>10. Late'
  BY <1>2 DEF Late
<1> QED BY <1>7, <1>8, <1>9, <1>10 DEF IInv

(* With the beacon, the start-up ends.                                     *)
LEMMA SpawnBeaconOK ==
  ASSUME IInv, SpawnBeacon
  PROVE  IInv'
<1>1. CASE Fail("spawn")
  BY <1>1, FailOK DEF Starting
<1>2. CASE Step("spawn", "select") /\ deferred' = deferred /\ task' = task
  BY <1>2, StepsOK
<1>3. CASE /\ Step("spawn", "select") /\ deferred' = deferred
           /\ task' = [task EXCEPT !["beacon"] = "starting"]
  <2>1. /\ main = "spawn" /\ main' = "select"
        /\ cfg' = cfg /\ started' = started /\ closed' = closed
        /\ ready' = ready /\ draining' = draining /\ canceled' = canceled /\ done' = done
        /\ sigCh' = sigCh /\ fatalCh' = fatalCh /\ reported' = reported /\ why' = why
    BY <1>3 DEF Step, shutdown, signals
  <2>2. TypeOK /\ Early /\ Deferral /\ Late
    BY DEF IInv
  <2>3. "beacon" \in Task /\ task["beacon"] = "none"
    BY <2>1, <2>2 DEF Early, Starting, Task, Others
  <2>4. task' \in [Task -> {"none", "starting", "up", "ended"}] /\ UpSet' = UpSet
    BY <1>3, <2>3, StartsOK
  <2>5. TypeOK'
    <3>1. ready' = Cardinality({u \in Feeds \cup {"server"} : task'[u] = "up"})
      BY <2>1, <2>2, <2>4 DEF TypeOK, UpSet, Counted
    <3> QED BY <1>3, <2>1, <2>2, <2>4, <3>1 DEF TypeOK
  <2>6. Early'
    BY <2>1, <2>2 DEF Early, Starting
  <2>7. Deferral'
    <3>1. /\ Distinct(deferred)' = Distinct(deferred) /\ Distinct(closed)' = Distinct(closed)
          /\ Listed' = Listed /\ Closed' = Closed
      BY <1>3, <2>1 DEF Distinct, Listed, Closed
    <3> QED BY <2>1, <2>2, <3>1 DEF Deferral
  <2>8. Late'
    BY <2>1 DEF Late
  <2> QED BY <2>5, <2>6, <2>7, <2>8 DEF IInv
<1> QED BY <1>1, <1>2, <1>3 DEF SpawnBeacon

-------------------------------------------------------------------------------
(* The end of run.                                                         *)

(* From the select to the return; a signal; the exit.                      *)
LEMMA EndingOK ==
  ASSUME IInv, TakeSignal \/ TakeFatal \/ Drained \/ Cancel \/ Wait \/ Exit \/ Signal
  PROVE  IInv'
<1>1. TypeOK /\ Early /\ Deferral /\ Late
  BY DEF IInv
<1>2. {draining, canceled, done, sigCh, fatalCh} \subseteq BOOLEAN /\ cfg.drain \in BOOLEAN
  <2>1. cfg \in [join : BOOLEAN, tee : BOOLEAN, memory : BOOLEAN, redis : BOOLEAN,
                 ssm : BOOLEAN, proxy : BOOLEAN, beacon : BOOLEAN, drain : BOOLEAN]
    BY <1>1, LifecycleAssumption DEF TypeOK
  <2> QED BY <1>1, <2>1 DEF TypeOK
<1>3. why \in {"no", "error", "signal", "fatal", "killed"}
  BY <1>1 DEF TypeOK
<1>4. CASE TakeSignal \/ TakeFatal
  <2>1. PICK reason \in {"signal", "fatal"} : Leave(reason) /\ {sigCh', fatalCh'} \subseteq BOOLEAN
    BY <1>2, <1>4 DEF TakeSignal, TakeFatal
  <2>2. /\ main = "select" /\ why' = reason /\ draining' = cfg.drain
        /\ main' = (IF cfg.drain THEN "drain" ELSE "cancel")
        /\ cfg' = cfg /\ started' = started /\ task' = task /\ deferred' = deferred
        /\ closed' = closed /\ ready' = ready /\ canceled' = canceled /\ done' = done
        /\ reported' = reported
    BY <2>1 DEF Leave
  <2>3. main' \in {"drain", "cancel"} /\ ~canceled /\ ~done
    BY <1>1, <2>2 DEF Early
  <2>4. Late'
    BY <2>2, <2>3 DEF Late
  <2>5. {draining', canceled', done', sigCh', fatalCh'} \subseteq BOOLEAN
    BY <1>2, <2>1, <2>2
  <2> QED BY <2>2, <2>3, <2>4, <2>5, PlainOK DEF Starting
<1>5. CASE Drained
  <2>1. /\ main = "drain" /\ main' = "cancel"
        /\ cfg' = cfg /\ started' = started /\ task' = task /\ deferred' = deferred
        /\ closed' = closed /\ ready' = ready /\ draining' = draining /\ canceled' = canceled
        /\ done' = done /\ sigCh' = sigCh /\ fatalCh' = fatalCh /\ reported' = reported /\ why' = why
    BY <1>5 DEF Drained, shutdown, signals
  <2>2. ~canceled /\ ~done
    BY <1>1, <2>1 DEF Early
  <2>3. Late'
    BY <1>1, <2>1 DEF Late
  <2> QED BY <1>2, <1>3, <2>1, <2>2, <2>3, PlainOK DEF Starting
<1>6. CASE Cancel
  <2>1. /\ main = "cancel" /\ main' = "wait" /\ canceled' = TRUE /\ done' = TRUE
        /\ cfg' = cfg /\ started' = started /\ task' = task /\ deferred' = deferred
        /\ closed' = closed /\ ready' = ready /\ draining' = draining
        /\ sigCh' = sigCh /\ fatalCh' = fatalCh /\ reported' = reported /\ why' = why
    BY <1>6 DEF Cancel, signals
  <2>2. Late'
    BY <1>1, <2>1 DEF Late
  <2> QED BY <1>2, <1>3, <2>1, <2>2, PlainOK DEF Starting
<1>7. CASE Wait
  <2>1. /\ main = "wait" /\ main' = "return" /\ \A t \in Awaited : task[t] \in {"none", "ended"}
        /\ cfg' = cfg /\ started' = started /\ task' = task /\ deferred' = deferred
        /\ closed' = closed /\ ready' = ready /\ draining' = draining /\ canceled' = canceled
        /\ done' = done /\ sigCh' = sigCh /\ fatalCh' = fatalCh /\ reported' = reported /\ why' = why
    BY <1>7 DEF Wait, shutdown, signals
  <2>2. Late'
    BY <2>1 DEF Late, Running
  <2> QED BY <1>2, <1>3, <2>1, <2>2, PlainOK DEF Starting
<1>8. CASE Exit
  <2>1. /\ main = "return" /\ main' = "gone" /\ deferred = <<>>
        /\ cfg' = cfg /\ started' = started /\ task' = task /\ deferred' = deferred
        /\ closed' = closed /\ ready' = ready /\ draining' = draining /\ canceled' = canceled
        /\ done' = done /\ sigCh' = sigCh /\ fatalCh' = fatalCh /\ reported' = reported /\ why' = why
    BY <1>8 DEF Exit, shutdown, signals
  <2>2. Late'
    BY <1>1, <2>1 DEF Late, Running
  <2> QED BY <1>2, <1>3, <2>1, <2>2, PlainOK DEF Starting
<1>9. CASE Signal
  <2>1. /\ cfg' = cfg /\ started' = started /\ task' = task /\ deferred' = deferred
        /\ closed' = closed /\ ready' = ready /\ draining' = draining /\ canceled' = canceled
        /\ done' = done /\ fatalCh' = fatalCh /\ reported' = reported
        /\ \/ sigCh' = TRUE /\ main' = main /\ why' = why
           \/ main' = "gone" /\ why' = "killed" /\ sigCh' = sigCh
    BY <1>9 DEF Signal, shutdown
  <2>2. CASE main' = "gone" /\ why' = "killed" /\ sigCh' = sigCh
    <3>1. Late'
      BY <2>2 DEF Late
    <3> QED BY <1>2, <2>1, <2>2, <3>1, PlainOK DEF Starting
  <2>3. CASE sigCh' = TRUE /\ main' = main /\ why' = why
    <3>1. Late'
      BY <1>1, <2>1, <2>3 DEF Late, Running
    <3>2. TypeOK'
      BY <1>1, <2>1, <2>3 DEF TypeOK
    <3>3. Early'
      BY <1>1, <2>1, <2>3 DEF Early
    <3>4. Deferral'
      <4>1. /\ Distinct(deferred)' = Distinct(deferred) /\ Distinct(closed)' = Distinct(closed)
            /\ Listed' = Listed /\ Closed' = Closed
        BY <2>1 DEF Distinct, Listed, Closed
      <4> QED BY <1>1, <2>3, <4>1 DEF Deferral
    <3> QED BY <3>1, <3>2, <3>3, <3>4 DEF IInv
  <2> QED BY <2>1, <2>2, <2>3
<1> QED BY <1>4, <1>5, <1>6, <1>7, <1>8, <1>9

(* A deferred call is run.                                                 *)
LEMMA UnwindOK ==
  ASSUME IInv, Unwind
  PROVE  IInv'
<1>1. PICK d : d = deferred[Len(deferred)]
  OBVIOUS
<1>2. /\ main = "return" /\ deferred # <<>>
      /\ canceled' = (canceled \/ d = "cancel")
      /\ closed' = (IF d = "cancel" THEN closed ELSE Append(closed, d))
      /\ deferred' = SubSeq(deferred, 1, Len(deferred) - 1)
      /\ cfg' = cfg /\ main' = main /\ started' = started /\ task' = task
      /\ ready' = ready /\ draining' = draining /\ done' = done
      /\ sigCh' = sigCh /\ fatalCh' = fatalCh /\ reported' = reported /\ why' = why
  BY <1>1 DEF Unwind, signals
<1>3. TypeOK /\ Early /\ Deferral /\ Late
  BY DEF IInv
<1>4. /\ deferred \in Seq({"frame", "dedup", "egress", "cancel"})
      /\ closed \in Seq({"frame", "dedup", "egress"})
  BY <1>3 DEF TypeOK
<1>5. /\ Elements(deferred) \cap Elements(closed) = {} /\ Distinct(deferred) /\ Distinct(closed)
      /\ Listed' = Elements(deferred') /\ Closed' = Elements(closed')
  BY <1>3 DEF Deferral, Listed, Closed, Elements
<1>6. /\ deferred' \in Seq({"frame", "dedup", "egress", "cancel"})
      /\ d \in {"frame", "dedup", "egress", "cancel"}
      /\ Elements(deferred) = Elements(deferred') \cup {d}
      /\ Distinct(deferred') /\ d \notin Elements(deferred')
  <2>1. PICK s, D : s = deferred /\ D = {"frame", "dedup", "egress", "cancel"}
    OBVIOUS
  <2>2. s \in Seq(D) /\ s # <<>> /\ Distinct(s)
    BY <1>2, <1>4, <1>5, <2>1
  <2>3. PICK n \in Nat : Len(s) = n + 1 /\ n = Len(s) - 1
    <3>1. Len(s) \in Nat /\ Len(s) # 0
      BY <2>2
    <3>2. Len(s) - 1 \in Nat
      BY <3>1
    <3> QED BY <3>1, <3>2
  <2>4. deferred' = SubSeq(s, 1, n) /\ d = s[n + 1]
    BY <1>1, <1>2, <2>1, <2>3
  <2>5. /\ SubSeq(s, 1, n) \in Seq(D) /\ s[n + 1] \in D
        /\ Elements(s) = Elements(SubSeq(s, 1, n)) \cup {s[n + 1]}
        /\ Distinct(SubSeq(s, 1, n)) /\ s[n + 1] \notin Elements(SubSeq(s, 1, n))
    BY <2>2, <2>3, Shortened
  <2> QED BY <2>1, <2>4, <2>5
<1>7. /\ closed' \in Seq({"frame", "dedup", "egress"}) /\ Distinct(closed')
      /\ Elements(closed') \subseteq Elements(closed) \cup {d}
  <2>1. CASE d = "cancel"
    BY <1>2, <1>4, <1>5, <2>1
  <2>2. CASE d # "cancel"
    <3>1. d \in {"frame", "dedup", "egress"} /\ d \notin Elements(closed)
      BY <1>5, <1>6, <2>2
    <3>2. closed' = Append(closed, d)
      BY <1>2, <2>2
    <3> QED BY <1>4, <1>5, <3>1, <3>2, Appended
  <2> QED BY <2>1, <2>2
<1>8. TypeOK'
  <2>1. canceled' \in BOOLEAN
    BY <1>2
  <2> QED BY <1>2, <1>3, <1>6, <1>7, <2>1 DEF TypeOK
<1>9. Early'
  BY <1>2 DEF Early, Starting
<1>10. Deferral'
  <2>1. Distinct(deferred)' /\ Distinct(closed)'
    BY <1>6, <1>7 DEF Distinct
  <2>2. Listed' \cap Closed' = {}
    BY <1>5, <1>6, <1>7
  <2> QED BY <1>2, <2>1, <2>2 DEF Deferral
<1>11. Late'
  BY <1>2, <1>3 DEF Late, Running
<1> QED BY <1>8, <1>9, <1>10, <1>11 DEF IInv

-------------------------------------------------------------------------------
LEMMA InitOK ==
  ASSUME Init
  PROVE  IInv
<1>1. task = [t \in Task |-> "none"] /\ deferred = <<>> /\ closed = <<>> /\ main = "load" /\ started = 0
  BY DEF Init
<1>2. \A t \in Task : task[t] = "none"
  BY <1>1
<1>3. ready = Cardinality({t \in Feeds \cup {"server"} : task[t] = "up"})
  <2>1. {t \in Feeds \cup {"server"} : task[t] = "up"} = {}
    BY <1>2, CountedOK DEF Counted
  <2> QED BY <2>1, FS_EmptySet DEF Init
<1>4. TypeOK
  <2>1. started \in 0 .. Len(Ingress) + 4
    BY <1>1, LifecycleAssumption
  <2>2. \A S : <<>> \in Seq(S)
    OBVIOUS
  <2> QED BY <1>1, <1>3, <2>1, <2>2 DEF Init, TypeOK
<1>5. Early
  BY <1>1, <1>2, OrderOK DEF Init, Early, Task, Others
<1>6. Deferral
  <2>1. Len(<<>>) = 0
    OBVIOUS
  <2> QED BY <1>1, <2>1 DEF Deferral, Distinct, Listed, Closed
<1>7. Late
  BY <1>1 DEF Late
<1> QED BY <1>4, <1>5, <1>6, <1>7 DEF IInv

LEMMA StepOK ==
  ASSUME IInv, [Next]_vars
  PROVE  IInv'
<1>1. CASE Main
  <2>1. CASE Load
    BY <2>1, StepsOK, FailOK DEF Load, Starting
  <2>2. CASE OpenFrames
    BY <2>2, OpensOK, FailOK DEF OpenFrames, Opens, Starting
  <2>3. CASE OpenDedup
    BY <2>3, OpensOK, StepsOK DEF OpenDedup, Opens
  <2>4. CASE Interfaces
    BY <2>4, StepsOK, FailOK DEF Interfaces, Starting
  <2>5. CASE OpenEgress
    BY <2>5, OpensOK, FailOK DEF OpenEgress, Opens, Starting
  <2>6. CASE Wire
    BY <2>6, OpensOK DEF Wire
  <2>7. CASE Bootstrap
    BY <2>7, StepsOK, FailOK DEF Bootstrap, Starting
  <2> QED BY <1>1, <2>1, <2>2, <2>3, <2>4, <2>5, <2>6, <2>7, SpawnOK, SpawnBeaconOK, EndingOK,
             UnwindOK DEF Main
<1>2. CASE UNCHANGED vars
  <2>1. /\ cfg' = cfg /\ main' = main /\ started' = started /\ task' = task
        /\ deferred' = deferred /\ closed' = closed /\ ready' = ready /\ draining' = draining
        /\ canceled' = canceled /\ done' = done /\ sigCh' = sigCh /\ fatalCh' = fatalCh
        /\ reported' = reported /\ why' = why
    BY <1>2 DEF vars, shutdown, signals
  <2>2. TypeOK /\ Early /\ Deferral /\ Late
    BY DEF IInv
  <2>3. TypeOK'
    BY <2>1, <2>2 DEF TypeOK
  <2>4. Early'
    BY <2>1, <2>2 DEF Early
  <2>5. Deferral'
    <3>1. /\ Distinct(deferred)' = Distinct(deferred) /\ Distinct(closed)' = Distinct(closed)
          /\ Listed' = Listed /\ Closed' = Closed
      BY <2>1 DEF Distinct, Listed, Closed
    <3> QED BY <2>1, <2>2, <3>1 DEF Deferral
  <2>6. Late'
    BY <2>1, <2>2 DEF Late, Running
  <2> QED BY <2>3, <2>4, <2>5, <2>6 DEF IInv
<1> QED BY <1>1, <1>2, EndingOK, GoroutineOK DEF Next

(* At every place of run: which goroutines may be running, what is open    *)
(* and which deferred closes are due.                                      *)
THEOREM Invariance ==
  Spec => []IInv
<1>1. Init => IInv
  BY InitOK
<1>2. IInv /\ [Next]_vars => IInv'
  BY StepOK
<1> QED BY <1>1, <1>2, PTL DEF Spec

(* The ready count of metrics.go is at every moment the number of feeds    *)
(* and NACK servers that are up, and every variable keeps its type.        *)
THEOREM ReadyCounted ==
  Spec => []TypeOK
<1>1. IInv => TypeOK
  BY DEF IInv
<1> QED BY <1>1, Invariance, PTL

(* However start-up fails, whenever signals come and feeds die, run closes *)
(* a backend or the egress sockets once, and, unless it gave up while      *)
(* starting, only when no goroutine it waits for can use them; a process   *)
(* that returns leaves nothing open.                                       *)
THEOREM ClosesAfterUse ==
  Spec => []ClosedAfterUse
<1>1. ASSUME IInv PROVE ClosedAfterUse
  <2>1. Distinct(closed) /\ (main = "gone" /\ why # "killed" => deferred = <<>>)
    BY <1>1 DEF IInv, Deferral, Late
  <2>2. ASSUME why \in {"no", "signal", "fatal"}, NEW t \in Awaited, Running(t)
        PROVE  Uses(t) \cap Closed = {}
    <3>1. main \notin {"return", "gone"}
      BY <1>1, <2>2 DEF IInv, Late
    <3>2. closed = <<>>
      BY <1>1, <3>1 DEF IInv, Early
    <3>3. Closed = {}
      BY <3>2 DEF Closed
    <3> QED BY <3>3
  <2> QED BY <2>1, <2>2 DEF ClosedAfterUse, Distinct
<1> QED BY <1>1, Invariance, PTL

(* While run drains, nothing is told to stop and nothing is closed, and    *)
(* /readyz says 503 from then on.                                          *)
THEOREM DrainKeepsServing ==
  Spec => []DrainServes
<1>1. ASSUME IInv PROVE DrainServes
  <2>1. main = "drain" => ~canceled /\ ~done /\ closed = <<>>
    BY <1>1 DEF IInv, Early
  <2>2. draining => Readyz = 503
    BY DEF Readyz
  <2>3. main = "wait" /\ cfg.drain => draining
    BY <1>1 DEF IInv, Late
  <2> QED BY <2>1, <2>2, <2>3 DEF DrainServes
<1> QED BY <1>1, Invariance, PTL
===============================================================================
