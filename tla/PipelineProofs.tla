---------------------------- MODULE PipelineProofs ----------------------------
(***************************************************************************)
(* Theorems about Pipeline, for every number of processors, queue          *)
(* capacity, batch size, sharding of keys and number of datagrams: the     *)
(* places of the slots, the size of the free list, the order in which the  *)
(* datagrams of a key are stored, and the account of what was received.    *)
(***************************************************************************)
EXTENDS Pipeline, TLAPS

-------------------------------------------------------------------------------
(* The inductive invariant, and that every step preserves it.              *)

Distinct(q) == \A i, j \in 1 .. Len(q) : q[i] = q[j] => i = j

(* OnePlace, with the places of queued slots told apart queue by queue.    *)
Apart ==
  /\ Slot = InFree \cup InBatch \cup InQueues \cup InProcs
  /\ InFree \cap (InBatch \cup InQueues \cup InProcs) = {}
  /\ InBatch \cap (InQueues \cup InProcs) = {}
  /\ InQueues \cap InProcs = {}
  /\ Distinct(free)
  /\ \A i, j \in Held : batch[i] = batch[j] => i = j
  /\ \A p, q \in Busy : proc[p].slot = proc[q].slot => p = q
  /\ \A p \in Proc : Distinct(queue[p])
  /\ \A p, q \in Proc : p # q => Elements(queue[p]) \cap Elements(queue[q]) = {}

(* Where the loop is in its batch: the entries it has not come to hold the *)
(* last arrivals in order; processors exit once their queue is empty.      *)
InBatchLoop == rx.at \in {"dispatch", "wait", "refill"}
Where ==
  /\ InBatchLoop => rx.n <= arrived /\ rx.i <= rx.n + 1
  /\ rx.at \in {"wait", "refill"} => rx.i <= rx.n
  /\ rx.at = "wait" => Current.sort # Skipped
  /\ InBatchLoop =>
       \A j \in Held : rx.i <= j /\ j <= rx.n => data[batch[j]].id = arrived - rx.n + j
  /\ \A p \in Proc :
       proc[p].at = "exited" => queue[p] = <<>> /\ rx.at \in {"drain", "returned"}
  /\ rx.at = "returned" => \A p \in Proc : proc[p].at = "exited"

(* The slots whose datagrams a processor has yet to handle.                *)
WaitingAt(p) ==
  Elements(queue[p]) \cup (IF proc[p].at = "handle" THEN {proc[p].slot} ELSE {})
Waiting == UNION {WaitingAt(p) : p \in Proc}

Rising(q, f) == \A i, j \in 1 .. Len(q) : i < j => f[q[i]].id < f[q[j]].id
Increasing(q) == \A i, j \in 1 .. Len(q) : i < j => q[i] < q[j]

(* Datagrams wait at the processor of their key, in arrival order, and     *)
(* behind every datagram of their key that was handled.                    *)
Lines ==
  /\ \A p \in Proc : \A s \in WaitingAt(p) :
       data[s].sort # Skipped /\ ShardFor(data[s].sort) = p
  /\ \A s, t \in Waiting : data[s].id = data[t].id => s = t
  /\ \A p \in Proc : Rising(queue[p], data)
  /\ \A p \in Proc : proc[p].at = "handle" =>
       \A s \in Elements(queue[p]) : data[proc[p].slot].id < data[s].id
  /\ \A s \in Waiting : \A e \in Elements(handled[data[s].sort]) : e < data[s].id
  /\ \A k \in Key \cup {NoKey} : Increasing(handled[k])

(* The number of the last arrival the loop is done with.                   *)
Cut ==
  IF rx.at \in {"dispatch", "wait"} THEN arrived - rx.n + rx.i - 1
  ELSE IF rx.at = "refill" THEN arrived - rx.n + rx.i
  ELSE arrived

Ledger ==
  /\ queued = Handled \cup Pending
  /\ Handled \cap Pending = {}
  /\ queued \cap passed = {}
  /\ rx.at \in {"poll", "read", "dispatch", "wait", "refill"} =>
       queued \cup passed = 1 .. Cut

IInv == TypeOK /\ Apart /\ Where /\ Lines /\ Ledger

-------------------------------------------------------------------------------
(* What sends, receives and histories do to a sequence.                    *)

(* A slot put at the end of a queue or of the free list joins those in it. *)
LEMMA Appended ==
  ASSUME NEW S, NEW q \in Seq(S), NEW x \in S
  PROVE  /\ Append(q, x) \in Seq(S) /\ Len(Append(q, x)) = Len(q) + 1
         /\ Elements(Append(q, x)) = Elements(q) \cup {x}
         /\ Distinct(q) /\ x \notin Elements(q) => Distinct(Append(q, x))
<1> DEFINE r == Append(q, x)
<1>1. /\ Len(r) = Len(q) + 1 /\ Len(q) \in Nat /\ r \in Seq(S)
      /\ r[Len(q) + 1] = x
      /\ \A i \in 1 .. Len(q) : r[i] = q[i]
  OBVIOUS
<1>2. Elements(r) = Elements(q) \cup {x}
  <2>1. ASSUME NEW y \in Elements(r) PROVE y \in Elements(q) \cup {x}
    <3>1. PICK i \in 1 .. Len(r) : y = r[i]
      BY <2>1 DEF Elements
    <3>2. CASE i = Len(q) + 1
      BY <1>1, <3>1, <3>2
    <3>3. CASE i \in 1 .. Len(q)
      BY <1>1, <3>1, <3>3 DEF Elements
    <3> QED BY <1>1, <3>1, <3>2, <3>3
  <2>2. ASSUME NEW i \in 1 .. Len(q) PROVE q[i] \in Elements(r)
    BY <1>1 DEF Elements
  <2>3. x \in Elements(r)
    BY <1>1 DEF Elements
  <2> QED BY <2>1, <2>2, <2>3 DEF Elements
<1>3. ASSUME Distinct(q), x \notin Elements(q) PROVE Distinct(r)
  <2> SUFFICES ASSUME NEW i \in 1 .. Len(r), NEW j \in 1 .. Len(r), r[i] = r[j]
               PROVE  i = j
    BY DEF Distinct
  <2>1. \A k \in 1 .. Len(q) : q[k] # x
    BY <1>3 DEF Elements
  <2> QED BY <1>1, <1>3, <2>1 DEF Distinct
<1> QED BY <1>1, <1>2, <1>3

(* The slot taken from a queue or from the free list is no longer in it.   *)
LEMMA Taking ==
  ASSUME NEW S, NEW q \in Seq(S), q # <<>>
  PROVE  /\ Head(q) \in S /\ Tail(q) \in Seq(S) /\ Len(Tail(q)) = Len(q) - 1
         /\ Head(q) \in Elements(q)
         /\ Elements(q) = Elements(Tail(q)) \cup {Head(q)}
         /\ Distinct(q) => Distinct(Tail(q)) /\ Head(q) \notin Elements(Tail(q))
<1> DEFINE t == Tail(q)
<1>1. /\ Len(q) \in Nat \ {0} /\ Len(t) = Len(q) - 1 /\ Head(q) = q[1]
      /\ Head(q) \in S /\ t \in Seq(S)
      /\ \A i \in 1 .. Len(t) : t[i] = q[i + 1]
  OBVIOUS
<1>2. Head(q) \in Elements(q)
  BY <1>1 DEF Elements
<1>3. Elements(q) = Elements(t) \cup {Head(q)}
  <2>1. ASSUME NEW i \in 1 .. Len(t) PROVE t[i] \in Elements(q)
    <3>1. i + 1 \in 1 .. Len(q)
      BY <1>1
    <3> QED BY <1>1, <3>1 DEF Elements
  <2>2. ASSUME NEW i \in 1 .. Len(q), i # 1 PROVE q[i] \in Elements(t)
    <3>1. i - 1 \in 1 .. Len(t) /\ (i - 1) + 1 = i BY <1>1, <2>2
    <3>2. t[i - 1] = q[i] BY <1>1, <3>1
    <3> QED BY <3>1, <3>2 DEF Elements
  <2>3. Elements(t) \subseteq Elements(q)
    BY <2>1 DEF Elements
  <2>4. ASSUME NEW y \in Elements(q) PROVE y \in Elements(t) \cup {Head(q)}
    <3>1. PICK i \in 1 .. Len(q) : y = q[i]
      BY DEF Elements
    <3> QED BY <1>1, <2>2, <3>1
  <2> QED BY <1>2, <2>3, <2>4
<1>4. ASSUME Distinct(q) PROVE Distinct(t) /\ Head(q) \notin Elements(t)
  <2>1. ASSUME NEW i \in 1 .. Len(t), NEW j \in 1 .. Len(t), t[i] = t[j]
        PROVE  i = j
    <3>1. i + 1 \in 1 .. Len(q) /\ j + 1 \in 1 .. Len(q) /\ q[i + 1] = q[j + 1]
      BY <1>1, <2>1
    <3> QED BY <1>4, <3>1 DEF Distinct
  <2>2. ASSUME NEW i \in 1 .. Len(t) PROVE t[i] # Head(q)
    <3>1. i + 1 \in 1 .. Len(q) /\ i + 1 # 1 /\ 1 \in 1 .. Len(q)
      BY <1>1
    <3> QED BY <1>1, <1>4, <3>1 DEF Distinct
  <2> QED BY <2>1, <2>2 DEF Distinct, Elements
<1> QED BY <1>1, <1>2, <1>3, <1>4

(* Ids keep rising along a queue when a later one joins it or the first    *)
(* leaves, and the first is the least.                                     *)
LEMMA RisingQueue ==
  ASSUME NEW S, NEW q \in Seq(S), NEW f, Rising(q, f),
         \A s \in S : f[s].id \in Nat
  PROVE  /\ \A x \in S : (\A s \in Elements(q) : f[s].id < f[x].id) => Rising(Append(q, x), f)
         /\ q # <<>> => /\ Rising(Tail(q), f)
                        /\ \A s \in Elements(Tail(q)) : f[Head(q)].id < f[s].id
<1>1. ASSUME NEW x \in S, \A s \in Elements(q) : f[s].id < f[x].id
      PROVE  Rising(Append(q, x), f)
  <2> DEFINE r == Append(q, x)
  <2>1. /\ Len(r) = Len(q) + 1 /\ Len(q) \in Nat
        /\ r[Len(q) + 1] = x
        /\ \A i \in 1 .. Len(q) : r[i] = q[i]
    OBVIOUS
  <2> SUFFICES ASSUME NEW i \in 1 .. Len(r), NEW j \in 1 .. Len(r), i < j
               PROVE  f[r[i]].id < f[r[j]].id
    BY DEF Rising
  <2>2. i \in 1 .. Len(q) /\ r[i] = q[i] /\ q[i] \in Elements(q)
    BY <2>1 DEF Elements
  <2>3. CASE j = Len(q) + 1
    BY <1>1, <2>1, <2>2, <2>3
  <2>4. CASE j \in 1 .. Len(q)
    BY <2>1, <2>2, <2>4 DEF Rising
  <2> QED BY <2>1, <2>3, <2>4
<1>2. ASSUME q # <<>>
      PROVE  Rising(Tail(q), f) /\ \A s \in Elements(Tail(q)) : f[Head(q)].id < f[s].id
  <2> DEFINE t == Tail(q)
  <2>1. /\ Len(q) \in Nat \ {0} /\ Len(t) = Len(q) - 1 /\ Head(q) = q[1]
        /\ \A i \in 1 .. Len(t) : t[i] = q[i + 1]
    BY <1>2
  <2>2. ASSUME NEW i \in 1 .. Len(t), NEW j \in 1 .. Len(t), i < j
        PROVE  f[t[i]].id < f[t[j]].id
    <3>1. i + 1 \in 1 .. Len(q) /\ j + 1 \in 1 .. Len(q) /\ i + 1 < j + 1
      BY <2>1, <2>2
    <3> QED BY <2>1, <3>1 DEF Rising
  <2>3. ASSUME NEW i \in 1 .. Len(t) PROVE f[Head(q)].id < f[t[i]].id
    <3>1. i + 1 \in 1 .. Len(q) /\ 1 < i + 1 /\ 1 \in 1 .. Len(q)
      BY <2>1
    <3> QED BY <2>1, <3>1 DEF Rising
  <2> QED BY <2>2, <2>3 DEF Rising, Elements
<1> QED BY <1>1, <1>2

(* A history keeps increasing when a later arrival is added.               *)
LEMMA IncreasingHistory ==
  ASSUME NEW S \in SUBSET Nat, NEW q \in Seq(S), NEW x \in S,
         Increasing(q), \A e \in Elements(q) : e < x
  PROVE  Increasing(Append(q, x))
<1> DEFINE r == Append(q, x)
<1>1. /\ Len(r) = Len(q) + 1 /\ Len(q) \in Nat
      /\ r[Len(q) + 1] = x
      /\ \A i \in 1 .. Len(q) : r[i] = q[i]
  OBVIOUS
<1> SUFFICES ASSUME NEW i \in 1 .. Len(r), NEW j \in 1 .. Len(r), i < j
             PROVE  r[i] < r[j]
  BY DEF Increasing
<1>2. i \in 1 .. Len(q) /\ r[i] = q[i] /\ q[i] \in Elements(q)
  BY <1>1 DEF Elements
<1>3. CASE j = Len(q) + 1
  BY <1>1, <1>2, <1>3
<1>4. CASE j \in 1 .. Len(q)
  BY <1>1, <1>2, <1>4 DEF Increasing
<1> QED BY <1>1, <1>3, <1>4

-------------------------------------------------------------------------------
(* The places of slots, action by action.                                  *)

(* What TypeOK says, for the steps below.                                  *)
LEMMA Types ==
  ASSUME TypeOK
  PROVE  /\ rx \in [at : {"poll", "read", "dispatch", "wait", "refill", "close", "drain", "returned"},
                    i : 1 .. Batch + 1, n : 0 .. Batch]
         /\ batch \in [Batches -> Slot] /\ free \in Seq(Slot)
         /\ queue \in [Proc -> Seq(Slot)] /\ \A p \in Proc : Len(queue[p]) <= Per
         /\ proc \in [Proc -> [at : {"idle", "handle", "give", "exited"}, slot : Slot \cup {NoSlot}]]
         /\ data \in [Slot -> Datagram]
         /\ ctx \in {"live", "canceled", "fdclosed"}
         /\ arrived \in 0 .. MaxArrivals
         /\ handled \in [Key \cup {NoKey} -> Seq(1 .. MaxArrivals)]
         /\ queued \subseteq 1 .. MaxArrivals /\ passed \subseteq 1 .. MaxArrivals
BY DEF TypeOK

(* The processor a datagram is handed to.                                  *)
LEMMA ShardType == \A sort \in Sort : sort # Skipped => ShardFor(sort) \in Proc
BY PipelineAssumption DEF ShardFor, Sort, Proc, Proc0

(* No slot moves in a step that neither sends, refills, takes nor gives.   *)
LEMMA StayPut ==
  ASSUME Apart, UNCHANGED <<batch, free, queue>>, Held' = Held, Busy' = Busy,
         \A p \in Busy : proc'[p].slot = proc[p].slot
  PROVE  Apart'
<1>1. InFree' = InFree /\ InBatch' = InBatch /\ InQueues' = InQueues
  BY DEF InFree, InBatch, InQueues
<1>2. InProcs' = InProcs
  BY DEF InProcs
<1>3. \A p, q \in Busy' : proc'[p].slot = proc'[q].slot => p = q
  BY DEF Apart
<1>4. (\A i, j \in Held : batch[i] = batch[j] => i = j)'
  BY DEF Apart
<1>5. /\ Distinct(free)'
      /\ (\A p \in Proc : Distinct(queue[p]))'
      /\ (\A p, q \in Proc : p # q => Elements(queue[p]) \cap Elements(queue[q]) = {})'
  BY DEF Apart
<1>6. Slot' = Slot
  BY DEF Slot
<1> QED BY <1>1, <1>2, <1>3, <1>4, <1>5, <1>6 DEF Apart

(* A send moves the batch entry's slot to the end of a queue.              *)
LEMMA SendApart == ASSUME IInv, Send PROVE Apart'
<1>0. /\ rx \in [at : {"poll", "read", "dispatch", "wait", "refill", "close", "drain", "returned"},
                 i : 1 .. Batch + 1, n : 0 .. Batch]
      /\ batch \in [Batches -> Slot] /\ queue \in [Proc -> Seq(Slot)] /\ data \in [Slot -> Datagram]
  BY Types DEF IInv
<1>1. PICK i : i = rx.i
  OBVIOUS
<1>2. i \in Batches
  BY <1>0, <1>1, PipelineAssumption DEF Send, IInv, Where, InBatchLoop, Batches
<1>3. PICK b \in Slot : b = batch[i]
  BY <1>0, <1>2
<1>4. PICK c \in Proc : c = CurrentQueue
  <2>1. Current.sort # Skipped
    BY DEF Send, IInv, Where
  <2>2. Current.sort \in Sort
    BY <1>0, <1>1, <1>3 DEF Current, Datagram
  <2> QED BY <2>1, <2>2, ShardType DEF CurrentQueue
<1>5. /\ queue' = [queue EXCEPT ![c] = Append(@, b)]
      /\ rx' = [rx EXCEPT !.at = "refill"]
      /\ UNCHANGED <<batch, free, proc>> /\ rx.at # "refill"
  BY <1>1, <1>3, <1>4 DEF Send
<1>6. Held = Batches /\ Held' = Batches \ {i}
  BY <1>0, <1>1, <1>5 DEF Held, Batches
<1>7. /\ InBatch = {batch[j] : j \in Batches}
      /\ \A j, l \in Batches : batch[j] = batch[l] => j = l
  BY <1>6 DEF InBatch, IInv, Apart
<1>8. InBatch' = InBatch \ {b} /\ b \in InBatch
  BY <1>2, <1>3, <1>5, <1>6, <1>7 DEF InBatch
<1>9. b \notin InQueues /\ b \notin InFree /\ b \notin InProcs
  BY <1>8 DEF IInv, Apart
<1>10. b \notin Elements(queue[c])
  BY <1>9 DEF InQueues
<1>11. /\ \A p \in Proc : p # c => queue'[p] = queue[p]
       /\ queue'[c] = Append(queue[c], b)
  BY <1>0, <1>5
<1>12. Elements(queue'[c]) = Elements(queue[c]) \cup {b} /\ Distinct(queue'[c])
  BY <1>0, <1>10, <1>11, Appended DEF IInv, Apart
<1>13. InQueues' = InQueues \cup {b}
  <2>1. ASSUME NEW x \in InQueues' PROVE x \in InQueues \cup {b}
    <3>1. PICK p \in Proc : x \in Elements(queue'[p])
      BY DEF InQueues
    <3> QED BY <1>11, <1>12, <3>1 DEF InQueues
  <2>2. ASSUME NEW x \in InQueues PROVE x \in InQueues'
    <3>1. PICK p \in Proc : x \in Elements(queue[p])
      BY DEF InQueues
    <3>2. x \in Elements(queue'[p])
      BY <1>11, <1>12, <3>1
    <3> QED BY <3>2 DEF InQueues
  <2>3. b \in InQueues'
    BY <1>12 DEF InQueues
  <2> QED BY <2>1, <2>2, <2>3
<1>14. InFree' = InFree /\ InProcs' = InProcs /\ Busy' = Busy
  BY <1>5 DEF InFree, InProcs, Busy
<1>15. /\ Slot' = (InFree \cup InBatch \cup InQueues \cup InProcs)'
       /\ (InFree \cap (InBatch \cup InQueues \cup InProcs) = {})'
       /\ (InBatch \cap (InQueues \cup InProcs) = {})'
       /\ (InQueues \cap InProcs = {})'
  <2>1. Slot' = Slot
    BY DEF Slot
  <2> QED BY <2>1, <1>8, <1>9, <1>13, <1>14 DEF IInv, Apart
<1>16. Distinct(free)' /\ (\A p, q \in Busy : proc[p].slot = proc[q].slot => p = q)'
  BY <1>5, <1>14 DEF IInv, Apart
<1>17. (\A j, l \in Held : batch[j] = batch[l] => j = l)'
  BY <1>5, <1>6, <1>7
<1>18. \A p \in Proc : Distinct(queue'[p])
  BY <1>11, <1>12 DEF IInv, Apart
<1>19. ASSUME NEW p \in Proc, NEW q \in Proc, p # q
       PROVE  Elements(queue'[p]) \cap Elements(queue'[q]) = {}
  <2>1. Elements(queue[p]) \cap Elements(queue[q]) = {}
    BY <1>19 DEF IInv, Apart
  <2>2. b \notin Elements(queue[p]) /\ b \notin Elements(queue[q])
    BY <1>9 DEF InQueues
  <2> QED BY <1>11, <1>12, <1>19, <2>1, <2>2
<1> QED BY <1>15, <1>16, <1>17, <1>18, <1>19 DEF Apart

(* A refill moves the head of the free list to the batch.                  *)
LEMMA RefillApart == ASSUME IInv, Refill PROVE Apart'
<1>0. /\ rx \in [at : {"poll", "read", "dispatch", "wait", "refill", "close", "drain", "returned"},
                 i : 1 .. Batch + 1, n : 0 .. Batch]
      /\ batch \in [Batches -> Slot] /\ free \in Seq(Slot)
  BY Types DEF IInv
<1>1. PICK i : i = rx.i
  OBVIOUS
<1>2. i \in Batches
  BY <1>0, <1>1, PipelineAssumption DEF Refill, IInv, Where, InBatchLoop, Batches
<1>3. PICK b \in Slot : b = Head(free)
  BY <1>0, Taking DEF Refill
<1>5. /\ batch' = [batch EXCEPT ![i] = b] /\ free' = Tail(free) /\ free # <<>>
      /\ rx.at = "refill" /\ rx'.at = "dispatch"
      /\ UNCHANGED <<queue, proc>>
  BY <1>0, <1>1, <1>3 DEF Refill
<1>6. Held' = Batches /\ Held = Batches \ {i}
  BY <1>1, <1>5 DEF Held, Batches
<1>7. /\ Elements(free) = Elements(free') \cup {b}
      /\ Distinct(free') /\ b \notin Elements(free')
  BY <1>0, <1>3, <1>5, Taking DEF IInv, Apart
<1>8. InFree = InFree' \cup {b} /\ b \notin InFree'
  BY <1>7 DEF InFree
<1>9. b \notin InBatch /\ b \notin InQueues /\ b \notin InProcs
  BY <1>8 DEF IInv, Apart
<1>10. batch'[i] = b /\ \A j \in Batches : j # i => batch'[j] = batch[j]
  BY <1>0, <1>2, <1>5
<1>11. /\ \A j \in Held : batch[j] # b
       /\ \A j, l \in Held : batch[j] = batch[l] => j = l
  BY <1>9 DEF InBatch, IInv, Apart
<1>12. \A j, l \in Held' : batch'[j] = batch'[l] => j = l
  BY <1>6, <1>10, <1>11
<1>13. InBatch' = InBatch \cup {b}
  BY <1>2, <1>6, <1>10 DEF InBatch
<1>14. InQueues' = InQueues /\ InProcs' = InProcs /\ Busy' = Busy
  BY <1>5 DEF InQueues, InProcs, Busy
<1>15. /\ Slot' = (InFree \cup InBatch \cup InQueues \cup InProcs)'
       /\ (InFree \cap (InBatch \cup InQueues \cup InProcs) = {})'
       /\ (InBatch \cap (InQueues \cup InProcs) = {})'
       /\ (InQueues \cap InProcs = {})'
  <2>1. Slot' = Slot
    BY DEF Slot
  <2> QED BY <2>1, <1>8, <1>9, <1>13, <1>14 DEF IInv, Apart
<1>16. /\ (\A p, q \in Busy : proc[p].slot = proc[q].slot => p = q)'
       /\ (\A p \in Proc : Distinct(queue[p]))'
       /\ (\A p, q \in Proc : p # q => Elements(queue[p]) \cap Elements(queue[q]) = {})'
  BY <1>5, <1>14 DEF IInv, Apart
<1> QED BY <1>7, <1>12, <1>15, <1>16 DEF Apart

(* A processor takes the slot at the head of its queue.                    *)
LEMMA TakeApart == ASSUME IInv, NEW c \in Proc, Take(c) PROVE Apart'
<1>0. /\ queue \in [Proc -> Seq(Slot)]
      /\ proc \in [Proc -> [at : {"idle", "handle", "give", "exited"}, slot : Slot \cup {NoSlot}]]
  BY Types DEF IInv
<1>1. queue[c] \in Seq(Slot) /\ queue[c] # <<>>
  BY <1>0 DEF Take
<1>2. PICK b \in Slot : b = Head(queue[c])
  BY <1>1, Taking
<1>3. /\ proc' = [proc EXCEPT ![c] = [at |-> "handle", slot |-> b]]
      /\ queue' = [queue EXCEPT ![c] = Tail(queue[c])]
      /\ UNCHANGED <<rx, batch, free>> /\ proc[c].at = "idle"
  BY <1>0, <1>2 DEF Take
<1>4. /\ \A p \in Proc : p # c => queue'[p] = queue[p] /\ proc'[p] = proc[p]
      /\ queue'[c] = Tail(queue[c])
      /\ proc'[c].at = "handle" /\ proc'[c].slot = b
  BY <1>0, <1>3
<1>5. /\ Elements(queue[c]) = Elements(queue'[c]) \cup {b}
      /\ Distinct(queue'[c]) /\ b \notin Elements(queue'[c])
  BY <1>1, <1>2, <1>4, Taking DEF IInv, Apart
<1>6. ASSUME NEW p \in Proc, p # c PROVE b \notin Elements(queue[p])
  BY <1>5, <1>6 DEF IInv, Apart
<1>7. InQueues = InQueues' \cup {b} /\ b \notin InQueues'
  <2>1. \A x : x \in InQueues' <=> \E p \in Proc : x \in Elements(queue'[p])
    BY DEF InQueues
  <2>2. \A x : x \in InQueues <=> \E p \in Proc : x \in Elements(queue[p])
    BY DEF InQueues
  <2>3. b \notin InQueues'
    BY <2>1, <1>4, <1>5, <1>6
  <2>4. ASSUME NEW x \in InQueues PROVE x \in InQueues' \cup {b}
    BY <2>1, <2>2, <1>4, <1>5
  <2>5. InQueues' \cup {b} \subseteq InQueues
    BY <2>1, <2>2, <1>4, <1>5
  <2> QED BY <2>3, <2>4, <2>5
<1>8. c \notin Busy /\ Busy' = Busy \cup {c}
  BY <1>3, <1>4 DEF Busy
<1>9. InProcs' = InProcs \cup {b}
  BY <1>4, <1>8 DEF InProcs, Busy
<1>10. b \notin InFree /\ b \notin InBatch /\ b \notin InProcs
  BY <1>7 DEF IInv, Apart
<1>11. \A p, q \in Busy' : proc'[p].slot = proc'[q].slot => p = q
  <2>1. \A p \in Busy : p \in Proc /\ p # c /\ proc[p].slot # b
    BY <1>8, <1>10 DEF InProcs, Busy
  <2>2. \A p \in Busy : proc'[p].slot = proc[p].slot
    BY <2>1, <1>4
  <2>3. \A p, q \in Busy : proc[p].slot = proc[q].slot => p = q
    BY DEF IInv, Apart
  <2> QED BY <1>4, <1>8, <2>1, <2>2, <2>3
<1>12. InFree' = InFree /\ InBatch' = InBatch /\ Held' = Held
  BY <1>3 DEF InFree, InBatch, Held
<1>15. /\ Slot' = (InFree \cup InBatch \cup InQueues \cup InProcs)'
       /\ (InFree \cap (InBatch \cup InQueues \cup InProcs) = {})'
       /\ (InBatch \cap (InQueues \cup InProcs) = {})'
       /\ (InQueues \cap InProcs = {})'
  <2>1. Slot' = Slot
    BY DEF Slot
  <2> QED BY <2>1, <1>7, <1>9, <1>10, <1>12 DEF IInv, Apart
<1>16. Distinct(free)' /\ (\A j, l \in Held : batch[j] = batch[l] => j = l)'
  BY <1>3, <1>12 DEF IInv, Apart
<1>17. \A p \in Proc : Distinct(queue'[p])
  BY <1>4, <1>5 DEF IInv, Apart
<1>18. ASSUME NEW p \in Proc, NEW q \in Proc, p # q
       PROVE  Elements(queue'[p]) \cap Elements(queue'[q]) = {}
  <2>1. Elements(queue[p]) \cap Elements(queue[q]) = {}
    BY <1>18 DEF IInv, Apart
  <2> QED BY <1>4, <1>5, <1>18, <2>1
<1> QED BY <1>11, <1>15, <1>16, <1>17, <1>18 DEF Apart

(* A processor gives its slot back at the end of the free list.            *)
LEMMA GiveApart == ASSUME IInv, NEW c \in Proc, GiveBack(c) PROVE Apart'
<1>0. /\ free \in Seq(Slot)
      /\ proc \in [Proc -> [at : {"idle", "handle", "give", "exited"}, slot : Slot \cup {NoSlot}]]
  BY Types DEF IInv
<1>1. PICK b : b = proc[c].slot
  OBVIOUS
<1>2. c \in Busy /\ b \in InProcs
  BY <1>1 DEF GiveBack, Busy, InProcs
<1>3. b \in Slot /\ b \notin InFree /\ b \notin InBatch /\ b \notin InQueues
  BY <1>2 DEF IInv, Apart
<1>4. /\ free' = Append(free, b)
      /\ proc' = [proc EXCEPT ![c] = [at |-> "idle", slot |-> NoSlot]]
      /\ UNCHANGED <<rx, batch, queue>>
  BY <1>1 DEF GiveBack
<1>5. proc'[c].at = "idle" /\ \A p \in Proc : p # c => proc'[p] = proc[p]
  BY <1>0, <1>4
<1>6. Elements(free') = Elements(free) \cup {b} /\ Distinct(free')
  BY <1>0, <1>3, <1>4, Appended DEF IInv, Apart, InFree
<1>7. InFree' = InFree \cup {b}
  BY <1>6 DEF InFree
<1>8. Busy' = Busy \ {c}
  BY <1>5 DEF Busy
<1>9. \A p \in Busy' : p \in Proc /\ proc'[p].slot = proc[p].slot
  BY <1>5, <1>8 DEF Busy
<1>10. \A p, q \in Busy : proc[p].slot = proc[q].slot => p = q
  BY DEF IInv, Apart
<1>11. InProcs' = InProcs \ {b}
  <2>1. \A x : x \in InProcs <=> \E p \in Busy : x = proc[p].slot
    BY DEF InProcs
  <2>2. \A x : x \in InProcs' <=> \E p \in Busy' : x = proc'[p].slot
    BY DEF InProcs
  <2> QED BY <1>1, <1>2, <1>8, <1>9, <1>10, <2>1, <2>2
<1>12. InQueues' = InQueues /\ InBatch' = InBatch /\ Held' = Held
  BY <1>4 DEF InQueues, InBatch, Held
<1>15. /\ Slot' = (InFree \cup InBatch \cup InQueues \cup InProcs)'
       /\ (InFree \cap (InBatch \cup InQueues \cup InProcs) = {})'
       /\ (InBatch \cap (InQueues \cup InProcs) = {})'
       /\ (InQueues \cap InProcs = {})'
  <2>1. Slot' = Slot
    BY DEF Slot
  <2> QED BY <2>1, <1>2, <1>3, <1>7, <1>11, <1>12 DEF IInv, Apart
<1>16. \A p, q \in Busy' : proc'[p].slot = proc'[q].slot => p = q
  BY <1>8, <1>9, <1>10
<1>17. /\ (\A j, l \in Held : batch[j] = batch[l] => j = l)'
       /\ (\A p \in Proc : Distinct(queue[p]))'
       /\ (\A p, q \in Proc : p # q => Elements(queue[p]) \cap Elements(queue[q]) = {})'
  BY <1>4, <1>12 DEF IInv, Apart
<1> QED BY <1>6, <1>15, <1>16, <1>17 DEF Apart

(* Every slot stays in exactly one place.                                  *)
LEMMA ApartStep == IInv /\ [Next]_vars => Apart'
<1> SUFFICES ASSUME IInv, [Next]_vars PROVE Apart'
  OBVIOUS
<1>0. /\ rx \in [at : {"poll", "read", "dispatch", "wait", "refill", "close", "drain", "returned"},
                 i : 1 .. Batch + 1, n : 0 .. Batch]
      /\ proc \in [Proc -> [at : {"idle", "handle", "give", "exited"}, slot : Slot \cup {NoSlot}]]
  BY Types DEF IInv
<1> DEFINE Quiet == Poll \/ ReadBatch \/ ReadNothing \/ ReadFails \/ Skip \/ QueueFull
                    \/ DropFull \/ QuitWaiting \/ BatchDone \/ CloseQueues \/ Return
<1>1. ASSUME Quiet PROVE Apart'
  <2>1. UNCHANGED <<batch, free, queue, proc>>
    BY <1>1 DEF Poll, ReadBatch, ReadNothing, ReadFails, Skip, QueueFull, DropFull,
                QuitWaiting, BatchDone, CloseQueues, Return, allButRx
  <2>2. rx.at # "refill" /\ rx'.at # "refill"
    <3>1. CASE ReadBatch
      BY <3>1 DEF ReadBatch
    <3>2. CASE Poll \/ ReadNothing \/ ReadFails
      BY <1>0, <3>2 DEF Poll, ReadNothing, ReadFails
    <3>3. CASE Skip \/ QueueFull \/ DropFull \/ QuitWaiting
      BY <1>0, <3>3 DEF Skip, QueueFull, DropFull, QuitWaiting
    <3>4. CASE BatchDone \/ CloseQueues \/ Return
      BY <1>0, <3>4 DEF BatchDone, CloseQueues, Return
    <3> QED BY <1>1, <3>1, <3>2, <3>3, <3>4
  <2>3. Held' = Held /\ Busy' = Busy
    BY <2>1, <2>2 DEF Held, Batches, Busy
  <2> QED BY <2>1, <2>3, StayPut DEF IInv
<1>2. ASSUME Cancel \/ CloseFd \/ Finished \/ UNCHANGED vars PROVE Apart'
  <2>1. UNCHANGED <<rx, batch, free, queue, proc>>
    BY <1>2 DEF Cancel, CloseFd, Finished, vars
  <2>2. Held' = Held /\ Busy' = Busy
    BY <2>1 DEF Held, Batches, Busy
  <2> QED BY <2>1, <2>2, StayPut DEF IInv
<1>3. ASSUME NEW p \in Proc, Handle(p) \/ Exit(p) PROVE Apart'
  <2>1. UNCHANGED <<rx, batch, free, queue>>
    BY <1>3 DEF Handle, Exit
  <2>2. /\ \A q \in Proc : q # p => proc'[q] = proc[q]
        /\ proc'[p].slot = proc[p].slot
        /\ \/ proc[p].at = "handle" /\ proc'[p].at = "give"
           \/ proc[p].at = "idle" /\ proc'[p].at = "exited"
    <3>1. CASE Handle(p) BY <1>0, <3>1 DEF Handle
    <3>2. CASE Exit(p) BY <1>0, <3>2 DEF Exit
    <3> QED BY <1>3, <3>1, <3>2
  <2>3. Held' = Held
    BY <2>1 DEF Held, Batches
  <2>4. Busy' = Busy /\ \A q \in Busy : proc'[q].slot = proc[q].slot
    BY <2>2 DEF Busy
  <2> QED BY <2>1, <2>3, <2>4, StayPut DEF IInv
<1> QED BY <1>1, <1>2, <1>3, SendApart, RefillApart, TakeApart, GiveApart
        DEF Next, Receiver, Processor

-------------------------------------------------------------------------------
(* The datagrams that wait.                                                *)

LEMMA PendingIds ==
  /\ Pending = {data[s].id : s \in Waiting}
  /\ Waiting = InQueues \cup {proc[p].slot : p \in {q \in Proc : proc[q].at = "handle"}}
<1>1. Waiting = InQueues \cup {proc[p].slot : p \in {q \in Proc : proc[q].at = "handle"}}
  <2>1. \A s : s \in Waiting <=> \E p \in Proc : s \in WaitingAt(p)
    BY DEF Waiting
  <2>2. \A s : s \in InQueues <=> \E p \in Proc : s \in Elements(queue[p])
    BY DEF InQueues
  <2>3. \A p : \A s : s \in WaitingAt(p) <=>
          s \in Elements(queue[p]) \/ (proc[p].at = "handle" /\ s = proc[p].slot)
    BY DEF WaitingAt
  <2> QED BY <2>1, <2>2, <2>3
<1> QED BY <1>1 DEF Pending

(* They wait in slots of their own, not in the batch.                      *)
LEMMA WaitingPlaces ==
  ASSUME IInv
  PROVE  /\ Waiting \subseteq InQueues \cup InProcs
         /\ Waiting \subseteq Slot /\ Waiting \cap InBatch = {}
         /\ \A s \in Waiting : data[s].id \in 1 .. MaxArrivals /\ data[s].sort \in Key \cup {NoKey}
<1>1. Waiting \subseteq InQueues \cup InProcs
  BY PendingIds DEF InProcs, Busy
<1>2. Waiting \subseteq Slot /\ Waiting \cap InBatch = {}
  BY <1>1 DEF IInv, Apart
<1>3. ASSUME NEW s \in Waiting PROVE data[s].id \in 1 .. MaxArrivals
  BY PendingIds, Types DEF IInv, Ledger
<1>4. ASSUME NEW s \in Waiting PROVE data[s].sort \in Key \cup {NoKey}
  <2>0. PICK p \in Proc : s \in WaitingAt(p)
    BY <1>4 DEF Waiting
  <2>1. data[s].sort # Skipped
    BY <2>0 DEF IInv, Lines
  <2>2. data[s] \in Datagram
    BY <1>2, Types DEF IInv
  <2> QED BY <2>1, <2>2 DEF Datagram, Sort
<1> QED BY <1>1, <1>2, <1>3, <1>4

(* A step that moves no datagram into or out of the lines, and overwrites  *)
(* none in them, keeps them in order.                                      *)
LEMMA LinesStay ==
  ASSUME IInv, UNCHANGED <<queue, handled>>,
         \A p \in Proc : proc'[p].at = "handle" <=> proc[p].at = "handle",
         \A p \in Proc : proc[p].at = "handle" => proc'[p].slot = proc[p].slot,
         \A s \in Waiting : data'[s] = data[s]
  PROVE  Lines' /\ Pending' = Pending /\ Handled' = Handled
<1>1. \A p \in Proc : WaitingAt(p)' = WaitingAt(p)
  BY DEF WaitingAt
<1>2. Waiting' = Waiting
  BY <1>1 DEF Waiting
<1>3. Pending' = Pending
  <2>1. (Pending = {data[s].id : s \in Waiting})'
    BY PendingIds, PTL
  <2> QED BY <1>2, <2>1, PendingIds
<1>4. Handled' = Handled
  BY DEF Handled
<1>5. \A p \in Proc : \A s \in WaitingAt(p) : s \in Waiting
  BY DEF Waiting
<1>6. (\A p \in Proc : \A s \in WaitingAt(p) :
         data[s].sort # Skipped /\ ShardFor(data[s].sort) = p)'
  <2> SUFFICES ASSUME NEW p \in Proc, NEW s \in WaitingAt(p)
               PROVE  data'[s].sort # Skipped /\ ShardFor(data'[s].sort) = p
    BY <1>1 DEF ShardFor
  <2> QED BY <1>5 DEF IInv, Lines
<1>7. (\A s, t \in Waiting : data[s].id = data[t].id => s = t)'
  <2>1. \A s, t \in Waiting : data[s].id = data[t].id => s = t
    BY DEF IInv, Lines
  <2> QED BY <1>2, <2>1
<1>8. ASSUME NEW p \in Proc PROVE Rising(queue[p], data)'
  <2>1. \A j \in 1 .. Len(queue[p]) : queue[p][j] \in WaitingAt(p)
    BY DEF WaitingAt, Elements
  <2>2. \A j \in 1 .. Len(queue[p]) : data'[queue[p][j]] = data[queue[p][j]]
    BY <1>5, <2>1
  <2>3. Rising(queue[p], data)
    BY DEF IInv, Lines
  <2> QED BY <2>2, <2>3 DEF Rising
<1>9. ASSUME NEW p \in Proc, proc'[p].at = "handle", NEW s \in Elements(queue[p])
      PROVE  data'[proc'[p].slot].id < data'[s].id
  <2>1. s \in WaitingAt(p) /\ proc[p].slot \in WaitingAt(p)
    BY <1>9 DEF WaitingAt
  <2> QED BY <1>5, <1>9, <2>1 DEF IInv, Lines
<1>10. (\A s \in Waiting : \A e \in Elements(handled[data[s].sort]) : e < data[s].id)'
  BY <1>2 DEF IInv, Lines
<1>11. (\A k \in Key \cup {NoKey} : Increasing(handled[k]))'
  BY DEF IInv, Lines
<1> QED BY <1>3, <1>4, <1>6, <1>7, <1>8, <1>9, <1>10, <1>11 DEF Lines

(* The datagram the loop is at: its number is the next after the cut.      *)
LEMMA CurrentOK ==
  ASSUME IInv, rx.at \in {"dispatch", "wait"}, rx.i <= rx.n
  PROVE  /\ rx.i \in Batches /\ rx.i + 1 \in 1 .. Batch + 1
         /\ batch[rx.i] \in Slot /\ batch[rx.i] \in InBatch
         /\ Current.id = arrived - rx.n + rx.i /\ Current.id = Cut + 1 /\ Cut \in Nat
         /\ Current.id \in 1 .. MaxArrivals /\ Current.sort \in Sort
         /\ Current.id \notin queued /\ Current.id \notin passed
         /\ batch[rx.i] \notin Waiting
<1>0. /\ rx.i \in 1 .. Batch + 1 /\ rx.n \in 0 .. Batch /\ arrived \in 0 .. MaxArrivals
      /\ batch \in [Batches -> Slot] /\ data \in [Slot -> Datagram]
      /\ Batch \in Nat /\ MaxArrivals \in Nat /\ rx.n <= arrived
  BY Types, PipelineAssumption DEF IInv, Where, InBatchLoop
<1>1. rx.i \in Batches /\ rx.i + 1 \in 1 .. Batch + 1
  BY <1>0 DEF Batches
<1>2. Held = Batches
  BY DEF Held
<1>3. batch[rx.i] \in Slot /\ batch[rx.i] \in InBatch
  BY <1>0, <1>1, <1>2 DEF InBatch
<1>4. Current.id = arrived - rx.n + rx.i
  <2>1. \A j \in Batches : rx.i <= j /\ j <= rx.n => data[batch[j]].id = arrived - rx.n + j
    BY <1>2 DEF IInv, Where, InBatchLoop
  <2> QED BY <1>0, <1>1, <2>1 DEF Current
<1>5. Current.id = Cut + 1 /\ Cut \in Nat /\ Current.id \in 1 .. MaxArrivals
  BY <1>0, <1>4 DEF Cut
<1>6. Current.sort \in Sort
  BY <1>0, <1>3 DEF Current, Datagram
<1>7. Current.id \notin queued /\ Current.id \notin passed
  <2>1. queued \cup passed = 1 .. Cut
    BY DEF IInv, Ledger
  <2>2. Current.id \notin 1 .. Cut
    BY <1>5
  <2> QED BY <2>1, <2>2
<1>8. batch[rx.i] \notin Waiting
  BY <1>3, WaitingPlaces
<1> QED BY <1>1, <1>3, <1>4, <1>5, <1>6, <1>7, <1>8

-------------------------------------------------------------------------------
(* The other conjuncts, action by action.                                  *)

(* The steps of the receiver that only move it along.                      *)
LEMMA HopOK ==
  ASSUME IInv, UNCHANGED allButRx,
         Poll \/ ReadNothing \/ ReadFails \/ QueueFull \/ QuitWaiting
         \/ BatchDone \/ CloseQueues \/ Return
  PROVE  TypeOK' /\ Where' /\ Lines' /\ Ledger'
<1>0. /\ rx \in [at : {"poll", "read", "dispatch", "wait", "refill", "close", "drain", "returned"},
                 i : 1 .. Batch + 1, n : 0 .. Batch]
      /\ arrived \in 0 .. MaxArrivals /\ Batch \in Nat /\ MaxArrivals \in Nat
  BY Types, PipelineAssumption DEF IInv
<1>1. UNCHANGED <<batch, free, queue, proc, data, ctx, arrived, handled, queued, passed>>
  BY DEF allButRx
<1>2. rx' = [rx EXCEPT !.at = rx'.at] /\ rx'.i = rx.i /\ rx'.n = rx.n
  <2>1. CASE Poll \/ ReadNothing \/ ReadFails \/ QueueFull
    BY <1>0, <2>1 DEF Poll, ReadNothing, ReadFails, QueueFull
  <2>2. CASE QuitWaiting \/ BatchDone \/ CloseQueues \/ Return
    BY <1>0, <2>2 DEF QuitWaiting, BatchDone, CloseQueues, Return
  <2> QED BY <2>1, <2>2
<1>3. \/ rx.at = "poll" /\ rx'.at \in {"read", "close"}
      \/ rx.at = "read" /\ rx'.at \in {"poll", "close"}
      \/ rx.at = "dispatch" /\ rx'.at = "wait" /\ rx.i <= rx.n /\ Current.sort # Skipped
      \/ rx.at = "wait" /\ rx'.at = "close"
      \/ rx.at = "dispatch" /\ rx'.at = "poll" /\ rx.i > rx.n
      \/ rx.at = "close" /\ rx'.at = "drain"
      \/ rx.at = "drain" /\ rx'.at = "returned" /\ \A p \in Proc : proc[p].at = "exited"
  <2>1. CASE Poll \/ ReadNothing \/ ReadFails
    BY <1>0, <2>1 DEF Poll, ReadNothing, ReadFails
  <2>2. CASE QueueFull \/ QuitWaiting
    BY <1>0, <2>2 DEF QueueFull, QuitWaiting
  <2>3. CASE BatchDone \/ CloseQueues \/ Return
    BY <1>0, <2>3 DEF BatchDone, CloseQueues, Return
  <2> QED BY <2>1, <2>2, <2>3
<1>4. TypeOK'
  <2>1. rx' \in [at : {"poll", "read", "dispatch", "wait", "refill", "close", "drain", "returned"},
                 i : 1 .. Batch + 1, n : 0 .. Batch]
    BY <1>0, <1>2, <1>3
  <2> QED BY <1>1, <2>1 DEF IInv, TypeOK
<1>5. Held' = Held
  BY <1>2, <1>3 DEF Held, Batches
<1>6. Current' = Current
  BY <1>1, <1>2 DEF Current
<1>7. Where'
  <2>1. InBatchLoop' => rx'.at = "wait" /\ rx.at = "dispatch" /\ rx.i <= rx.n
                        /\ Current.sort # Skipped
    BY <1>3 DEF InBatchLoop
  <2>2. InBatchLoop' => InBatchLoop
    BY <2>1 DEF InBatchLoop
  <2>3. (InBatchLoop => rx.n <= arrived /\ rx.i <= rx.n + 1)'
    BY <1>1, <1>2, <2>2 DEF IInv, Where
  <2>4. /\ (rx.at \in {"wait", "refill"} => rx.i <= rx.n)'
        /\ (rx.at = "wait" => Current.sort # Skipped)'
    BY <1>2, <1>6, <2>1 DEF InBatchLoop
  <2>5. (InBatchLoop =>
          \A j \in Held : rx.i <= j /\ j <= rx.n => data[batch[j]].id = arrived - rx.n + j)'
    BY <1>1, <1>2, <1>5, <2>2 DEF IInv, Where
  <2>6. (\A p \in Proc :
          proc[p].at = "exited" => queue[p] = <<>> /\ rx.at \in {"drain", "returned"})'
    BY <1>1, <1>3 DEF IInv, Where
  <2>7. (rx.at = "returned" => \A p \in Proc : proc[p].at = "exited")'
    BY <1>1, <1>3
  <2> QED BY <2>3, <2>4, <2>5, <2>6, <2>7 DEF Where
<1>8. Lines' /\ Pending' = Pending /\ Handled' = Handled
  BY <1>1, LinesStay
<1>9. Ledger'
  <2>1. rx'.at \in {"poll", "read", "dispatch", "wait", "refill"} =>
          rx.at \in {"poll", "read", "dispatch", "wait", "refill"} /\ Cut' = Cut
    <3>1. CASE rx.at = "poll" \/ rx.at = "read"
      BY <1>1, <1>3, <3>1 DEF Cut
    <3>2. CASE rx.at = "dispatch" /\ rx'.at = "wait"
      BY <1>1, <1>2, <3>2 DEF Cut
    <3>3. CASE rx.at = "dispatch" /\ rx'.at = "poll" /\ rx.i > rx.n
      <4>1. rx.i <= rx.n + 1
        BY <3>3 DEF IInv, Where, InBatchLoop
      <4>2. rx.i = rx.n + 1
        BY <1>0, <3>3, <4>1
      <4> QED BY <1>0, <1>1, <3>3, <4>2 DEF Cut
    <3> QED BY <1>3, <3>1, <3>2, <3>3
  <2> QED BY <1>1, <1>8, <2>1 DEF IInv, Ledger
<1> QED BY <1>4, <1>7, <1>8, <1>9

(* A read fills the first slots of the batch, and no other slot.           *)
LEMMA ReadOK == ASSUME IInv, ReadBatch PROVE TypeOK' /\ Where' /\ Lines' /\ Ledger'
<1>0. /\ batch \in [Batches -> Slot] /\ data \in [Slot -> Datagram]
      /\ arrived \in 0 .. MaxArrivals /\ Batch \in Nat /\ MaxArrivals \in Nat
  BY Types, PipelineAssumption DEF IInv
<1>1. PICK n \in Batches : \E sorts \in [1 .. n -> Sort] :
        /\ arrived + n <= MaxArrivals
        /\ data' = [s \in Slot |->
                      IF \E j \in 1 .. n : batch[j] = s
                      THEN LET j == CHOOSE j \in 1 .. n : batch[j] = s
                           IN  [sort |-> sorts[j], id |-> arrived + j]
                      ELSE data[s]]
        /\ arrived' = arrived + n
        /\ rx' = [at |-> "dispatch", i |-> 1, n |-> n]
  BY DEF ReadBatch
<1>2. PICK sorts \in [1 .. n -> Sort] :
        /\ arrived + n <= MaxArrivals
        /\ data' = [s \in Slot |->
                      IF \E j \in 1 .. n : batch[j] = s
                      THEN LET j == CHOOSE j \in 1 .. n : batch[j] = s
                           IN  [sort |-> sorts[j], id |-> arrived + j]
                      ELSE data[s]]
        /\ arrived' = arrived + n
        /\ rx' = [at |-> "dispatch", i |-> 1, n |-> n]
  BY <1>1
<1>3. /\ UNCHANGED <<batch, free, queue, proc, ctx, handled, queued, passed>>
      /\ rx.at = "read"
  BY DEF ReadBatch
<1>4. Held = Batches /\ Held' = Batches /\ n \in Nat /\ 1 .. n \subseteq Batches
  BY <1>0, <1>2, <1>3 DEF Held, Batches
<1>5. \A i, j \in 1 .. n : batch[i] = batch[j] => i = j
  BY <1>4 DEF IInv, Apart
<1>6. ASSUME NEW j \in 1 .. n
      PROVE  data'[batch[j]] = [sort |-> sorts[j], id |-> arrived + j]
  <2>1. PICK s \in Slot : s = batch[j]
    BY <1>0, <1>4
  <2>2. (CHOOSE l \in 1 .. n : batch[l] = s) = j
    BY <1>5, <2>1
  <2> QED BY <1>2, <2>1, <2>2
<1>7. ASSUME NEW s \in Slot, \A j \in 1 .. n : batch[j] # s PROVE data'[s] = data[s]
  BY <1>2, <1>7
<1>8. data' \in [Slot -> Datagram]
  <2>1. ASSUME NEW s \in Slot PROVE data'[s] \in Datagram
    <3>1. CASE \E j \in 1 .. n : batch[j] = s
      <4>1. PICK j \in 1 .. n : batch[j] = s
        BY <3>1
      <4>2. arrived + j \in Nat /\ sorts[j] \in Sort
        BY <1>0, <1>4
      <4>3. data'[s] = [sort |-> sorts[j], id |-> arrived + j]
        BY <1>6, <4>1
      <4> QED BY <4>2, <4>3 DEF Datagram
    <3>2. CASE \A j \in 1 .. n : batch[j] # s
      BY <1>0, <1>7, <3>2
    <3> QED BY <3>1, <3>2
  <2>2. DOMAIN data' = Slot /\ data' = [s \in DOMAIN data' |-> data'[s]]
    BY <1>2
  <2> QED BY <2>1, <2>2
<1>9. \A s \in Waiting : data'[s] = data[s]
  <2>1. ASSUME NEW s \in Waiting, NEW j \in 1 .. n PROVE batch[j] # s
    <3>1. batch[j] \in InBatch
      BY <1>4 DEF InBatch
    <3> QED BY <3>1, WaitingPlaces
  <2> QED BY <1>7, <2>1, WaitingPlaces
<1>10. Lines' /\ Pending' = Pending /\ Handled' = Handled
  BY <1>3, <1>9, LinesStay
<1>11. TypeOK'
  <2>1. arrived' \in 0 .. MaxArrivals
    BY <1>0, <1>2, <1>4
  <2>2. rx' \in [at : {"poll", "read", "dispatch", "wait", "refill", "close", "drain", "returned"},
                 i : 1 .. Batch + 1, n : 0 .. Batch]
    <3>1. n \in 0 .. Batch /\ 1 \in 1 .. Batch + 1
      BY <1>0 DEF Batches
    <3> QED BY <1>2, <3>1
  <2> QED BY <1>3, <1>8, <2>1, <2>2 DEF IInv, TypeOK
<1>12. Where'
  <2>1. rx'.at = "dispatch" /\ rx'.i = 1 /\ rx'.n = n
    BY <1>2
  <2>2. ASSUME NEW j \in Batches, 1 <= j, j <= n PROVE data'[batch[j]].id = arrived' - n + j
    <3>1. j \in 1 .. n /\ batch[j] \in Slot
      BY <1>0, <2>2 DEF Batches
    <3>2. data'[batch[j]] = [sort |-> sorts[j], id |-> arrived + j]
      BY <1>6, <3>1
    <3>3. arrived' - n + j = arrived + j
      BY <1>0, <1>2, <1>4, <3>1
    <3> QED BY <3>2, <3>3
  <2>3. n <= arrived' /\ 1 <= n + 1
    BY <1>0, <1>2, <1>4
  <2>4. \A p \in Proc : proc[p].at # "exited"
    BY <1>3 DEF IInv, Where
  <2> QED BY <1>3, <1>4, <2>1, <2>2, <2>3, <2>4 DEF Where, InBatchLoop
<1>13. Ledger'
  <2>1. rx'.at = "dispatch" /\ rx'.i = 1 /\ rx'.n = n
    BY <1>2
  <2>2. Cut' = arrived' - n + 1 - 1 /\ Cut = arrived
    BY <1>3, <2>1 DEF Cut
  <2>3. Cut' = Cut
    BY <1>0, <1>2, <1>4, <2>2
  <2> QED BY <1>3, <1>10, <2>3 DEF IInv, Ledger
<1> QED BY <1>10, <1>11, <1>12, <1>13

(* A datagram that is passed over keeps its slot in the batch.             *)
LEMMA PassOverOK ==
  ASSUME IInv, Skip \/ DropFull
  PROVE  TypeOK' /\ Where' /\ Lines' /\ Ledger'
<1>0. /\ rx \in [at : {"poll", "read", "dispatch", "wait", "refill", "close", "drain", "returned"},
                 i : 1 .. Batch + 1, n : 0 .. Batch]
      /\ arrived \in 0 .. MaxArrivals /\ Batch \in Nat /\ MaxArrivals \in Nat
      /\ passed \subseteq 1 .. MaxArrivals
  BY Types, PipelineAssumption DEF IInv
<1>1. /\ UNCHANGED <<batch, free, queue, proc, data, ctx, arrived, handled, queued>>
      /\ passed' = passed \cup {Current.id}
  BY DEF Skip, DropFull
<1>2. /\ rx.at \in {"dispatch", "wait"} /\ rx.i <= rx.n
      /\ rx' = [rx EXCEPT !.at = "dispatch", !.i = rx.i + 1]
  <2>1. CASE Skip
    BY <1>0, <2>1 DEF Skip
  <2>2. CASE DropFull
    BY <1>0, <2>2 DEF DropFull, IInv, Where
  <2> QED BY <2>1, <2>2
<1>3. rx'.at = "dispatch" /\ rx'.i = rx.i + 1 /\ rx'.n = rx.n
  BY <1>0, <1>2
<1>4. Held' = Held /\ Held = Batches
  BY <1>2, <1>3 DEF Held, Batches
<1>5. TypeOK'
  <2>1. rx' \in [at : {"poll", "read", "dispatch", "wait", "refill", "close", "drain", "returned"},
                 i : 1 .. Batch + 1, n : 0 .. Batch]
    BY <1>0, <1>2, CurrentOK
  <2>2. passed' \subseteq 1 .. MaxArrivals
    BY <1>0, <1>1, <1>2, CurrentOK
  <2> QED BY <1>1, <2>1, <2>2 DEF IInv, TypeOK
<1>6. Where'
  <2>1. rx.n <= arrived /\ rx.i + 1 <= rx.n + 1
    BY <1>0, <1>2 DEF IInv, Where, InBatchLoop
  <2>2. ASSUME NEW j \in Held, rx.i + 1 <= j, j <= rx.n
        PROVE  data[batch[j]].id = arrived - rx.n + j
    <3>1. rx.i <= j
      BY <1>0, <1>4, <2>2 DEF Batches
    <3> QED BY <1>2, <2>2, <3>1 DEF IInv, Where, InBatchLoop
  <2>3. \A p \in Proc : proc[p].at # "exited"
    BY <1>2 DEF IInv, Where
  <2> QED BY <1>1, <1>3, <1>4, <2>1, <2>2, <2>3 DEF Where, InBatchLoop
<1>7. Lines' /\ Pending' = Pending /\ Handled' = Handled
  BY <1>1, LinesStay
<1>8. Ledger'
  <2>1. Cut' = Cut + 1
    BY <1>0, <1>1, <1>2, <1>3 DEF Cut
  <2>2. queued \cup passed = 1 .. Cut /\ queued \cap passed = {}
    BY <1>2 DEF IInv, Ledger
  <2>3. Current.id = Cut + 1 /\ Cut \in Nat /\ Current.id \notin queued
    BY <1>2, CurrentOK
  <2>4. 1 .. Cut + 1 = (1 .. Cut) \cup {Cut + 1}
    BY <2>3
  <2>5. queued' \cup passed' = 1 .. Cut' /\ queued' \cap passed' = {}
    BY <1>1, <2>1, <2>2, <2>3, <2>4
  <2> QED BY <1>1, <1>7, <2>5 DEF IInv, Ledger
<1> QED BY <1>5, <1>6, <1>7, <1>8

(* A send: the datagram joins the end of its processor's line, with a      *)
(* number above all those handed over before it.                           *)
LEMMA SendOK == ASSUME IInv, Send PROVE TypeOK' /\ Where' /\ Lines' /\ Ledger'
<1>0. /\ rx \in [at : {"poll", "read", "dispatch", "wait", "refill", "close", "drain", "returned"},
                 i : 1 .. Batch + 1, n : 0 .. Batch]
      /\ batch \in [Batches -> Slot] /\ data \in [Slot -> Datagram]
      /\ queue \in [Proc -> Seq(Slot)] /\ \A p \in Proc : Len(queue[p]) <= Per
      /\ arrived \in 0 .. MaxArrivals /\ Batch \in Nat /\ MaxArrivals \in Nat /\ Per \in Nat
      /\ queued \subseteq 1 .. MaxArrivals
      /\ handled \in [Key \cup {NoKey} -> Seq(1 .. MaxArrivals)]
  BY Types, PipelineAssumption DEF IInv
<1>1. rx.at \in {"dispatch", "wait"} /\ rx.i <= rx.n /\ Current.sort # Skipped
  BY DEF Send, IInv, Where
<1>2. PICK b \in Slot : b = batch[rx.i]
  BY <1>1, CurrentOK
<1>3. PICK a : a = Current.id
  OBVIOUS
<1>4. PICK k : k = Current.sort
  OBVIOUS
<1>5. /\ data[b].id = a /\ data[b].sort = k /\ k # Skipped /\ k \in Key \cup {NoKey}
      /\ a \in 1 .. MaxArrivals /\ a \notin queued /\ a \notin passed /\ b \notin Waiting
      /\ a = Cut + 1 /\ Cut \in Nat
  <2>1. Current = data[b]
    BY <1>2 DEF Current
  <2> QED BY <1>1, <1>2, <1>3, <1>4, <2>1, CurrentOK DEF Sort
<1>6. PICK c \in Proc : c = ShardFor(k) /\ c = CurrentQueue
  BY <1>1, <1>4, CurrentOK, ShardType DEF CurrentQueue
<1>7. /\ Len(queue[c]) < Per
      /\ queue' = [queue EXCEPT ![c] = Append(@, b)]
      /\ queued' = queued \cup {a}
      /\ rx' = [rx EXCEPT !.at = "refill"]
      /\ UNCHANGED <<batch, free, proc, data, ctx, arrived, handled, passed>>
  BY <1>2, <1>3, <1>6 DEF Send
<1>8. rx'.at = "refill" /\ rx'.i = rx.i /\ rx'.n = rx.n
  BY <1>0, <1>7
<1>9. /\ \A p \in Proc : p # c => queue'[p] = queue[p]
      /\ queue'[c] = Append(queue[c], b)
  BY <1>0, <1>7
<1>10. /\ Elements(queue'[c]) = Elements(queue[c]) \cup {b}
       /\ queue'[c] \in Seq(Slot) /\ Len(queue'[c]) = Len(queue[c]) + 1
  BY <1>0, <1>9, Appended
<1>11. TypeOK'
  <2>1. queue' \in [Proc -> Seq(Slot)]
    BY <1>0, <1>7, <1>9, <1>10
  <2>2. \A p \in Proc : Len(queue'[p]) <= Per
    BY <1>0, <1>7, <1>9, <1>10
  <2>3. rx' \in [at : {"poll", "read", "dispatch", "wait", "refill", "close", "drain", "returned"},
                 i : 1 .. Batch + 1, n : 0 .. Batch]
    BY <1>0, <1>7
  <2>4. queued' \subseteq 1 .. MaxArrivals
    BY <1>0, <1>5, <1>7
  <2> QED BY <1>7, <2>1, <2>2, <2>3, <2>4 DEF IInv, TypeOK
<1>12. Where'
  <2>1. Held' \subseteq Held /\ rx.n <= arrived /\ rx.i <= rx.n + 1
    BY <1>0, <1>1, <1>8 DEF Held, Batches, IInv, Where, InBatchLoop
  <2>2. \A j \in Held : rx.i <= j /\ j <= rx.n => data[batch[j]].id = arrived - rx.n + j
    BY <1>1 DEF IInv, Where, InBatchLoop
  <2>3. \A p \in Proc : proc[p].at # "exited"
    BY <1>1 DEF IInv, Where
  <2> QED BY <1>1, <1>7, <1>8, <2>1, <2>2, <2>3 DEF Where, InBatchLoop
<1>13. /\ WaitingAt(c)' = WaitingAt(c) \cup {b}
       /\ \A p \in Proc : p # c => WaitingAt(p)' = WaitingAt(p)
  BY <1>7, <1>9, <1>10 DEF WaitingAt
<1>14. Waiting' = Waiting \cup {b}
  <2>1. \A s : s \in Waiting <=> \E p \in Proc : s \in WaitingAt(p)
    BY DEF Waiting
  <2>2. \A s : s \in Waiting' <=> \E p \in Proc : s \in WaitingAt(p)'
    BY DEF Waiting
  <2> QED BY <1>13, <2>1, <2>2
<1>15. \A s \in Waiting : data[s].id \in queued /\ data[s].id \in Nat /\ data[s].id < a
  <2>1. queued \subseteq 1 .. Cut
    BY <1>1 DEF IInv, Ledger
  <2>2. \A s \in Waiting : data[s].id \in queued
    BY PendingIds DEF IInv, Ledger
  <2>3. \A x \in 1 .. Cut : x \in Nat /\ x < a
    BY <1>5
  <2> QED BY <2>1, <2>2, <2>3
<1>16. \A e \in Elements(handled[k]) : e < a
  <2>1. queued \subseteq 1 .. Cut
    BY <1>1 DEF IInv, Ledger
  <2>2. Elements(handled[k]) \subseteq Handled
    BY <1>0, <1>5 DEF Handled
  <2>3. Elements(handled[k]) \subseteq 1 .. Cut
    BY <2>1, <2>2 DEF IInv, Ledger
  <2>4. \A x \in 1 .. Cut : x < a
    BY <1>5
  <2> QED BY <2>3, <2>4
<1>17. Lines'
  <2>1. ASSUME NEW p \in Proc, NEW s \in WaitingAt(p)'
        PROVE  data[s].sort # Skipped /\ ShardFor(data[s].sort) = p
    BY <1>5, <1>6, <1>13, <2>1 DEF IInv, Lines
  <2>2. \A s, t \in Waiting' : data[s].id = data[t].id => s = t
    <3>1. \A s, t \in Waiting : data[s].id = data[t].id => s = t
      BY DEF IInv, Lines
    <3>2. data[b].id = a /\ \A s \in Waiting : data[s].id # a
      BY <1>5, <1>15
    <3> QED BY <1>14, <3>1, <3>2
  <2>3. ASSUME NEW p \in Proc PROVE Rising(queue'[p], data)
    <3>0. Elements(queue[c]) \subseteq Waiting
      BY DEF Waiting, WaitingAt
    <3>1. \A s \in Elements(queue[c]) : data[s].id < data[b].id
      BY <1>5, <1>15, <3>0
    <3>2. Rising(queue[c], data) /\ queue[c] \in Seq(Slot)
      BY <1>0 DEF IInv, Lines
    <3>3. \A s \in Slot : data[s].id \in Nat
      BY <1>0 DEF Datagram
    <3>4. Rising(Append(queue[c], b), data)
      BY <3>1, <3>2, <3>3, RisingQueue
    <3> QED BY <1>9, <3>4 DEF IInv, Lines
  <2>4. ASSUME NEW p \in Proc, proc[p].at = "handle", NEW s \in Elements(queue'[p])
        PROVE  data[proc[p].slot].id < data[s].id
    <3>1. proc[p].slot \in Waiting
      BY <2>4 DEF Waiting, WaitingAt
    <3>2. CASE s \in Elements(queue[p])
      BY <2>4, <3>2 DEF IInv, Lines
    <3>3. CASE s = b
      BY <1>5, <1>15, <3>1, <3>3
    <3> QED BY <1>9, <1>10, <2>4, <3>2, <3>3
  <2>5. \A s \in Waiting' : \A e \in Elements(handled[data[s].sort]) : e < data[s].id
    BY <1>5, <1>14, <1>16 DEF IInv, Lines
  <2>6. \A q \in Key \cup {NoKey} : Increasing(handled[q])
    BY DEF IInv, Lines
  <2>7. (\A p \in Proc : \A s \in WaitingAt(p) :
           data[s].sort # Skipped /\ ShardFor(data[s].sort) = p)'
    BY <1>7, <2>1 DEF ShardFor
  <2> QED BY <1>7, <2>2, <2>3, <2>4, <2>5, <2>6, <2>7 DEF Lines
<1>18. Ledger'
  <2>1. (Pending = {data[s].id : s \in Waiting})'
    BY PendingIds, PTL
  <2>2. Pending' = Pending \cup {a}
    BY <1>5, <1>7, <1>14, <2>1, PendingIds
  <2>3. Handled' = Handled
    BY <1>7 DEF Handled
  <2>4. Cut' = Cut + 1
    BY <1>0, <1>1, <1>7, <1>8 DEF Cut
  <2>5. 1 .. Cut + 1 = (1 .. Cut) \cup {a}
    BY <1>5
  <2>6. queued' \cup passed' = 1 .. Cut'
    BY <1>1, <1>7, <2>4, <2>5 DEF IInv, Ledger
  <2>7. queued' = Handled' \cup Pending' /\ Handled' \cap Pending' = {}
    BY <1>5, <1>7, <2>2, <2>3 DEF IInv, Ledger
  <2>8. queued' \cap passed' = {}
    BY <1>5, <1>7 DEF IInv, Ledger
  <2> QED BY <2>6, <2>7, <2>8 DEF Ledger
<1> QED BY <1>11, <1>12, <1>17, <1>18

(* A refill changes no datagram.                                           *)
LEMMA RefillOK == ASSUME IInv, Refill PROVE TypeOK' /\ Where' /\ Lines' /\ Ledger'
<1>0. /\ rx \in [at : {"poll", "read", "dispatch", "wait", "refill", "close", "drain", "returned"},
                 i : 1 .. Batch + 1, n : 0 .. Batch]
      /\ batch \in [Batches -> Slot] /\ free \in Seq(Slot)
      /\ arrived \in 0 .. MaxArrivals /\ Batch \in Nat /\ MaxArrivals \in Nat
  BY Types, PipelineAssumption DEF IInv
<1>1. PICK b \in Slot : b = Head(free)
  BY <1>0, Taking DEF Refill
<1>2. /\ rx.at = "refill" /\ free # <<>> /\ rx.i <= rx.n /\ rx.n <= arrived
      /\ batch' = [batch EXCEPT ![rx.i] = b]
      /\ free' = Tail(free)
      /\ rx' = [rx EXCEPT !.at = "dispatch", !.i = rx.i + 1]
      /\ UNCHANGED <<queue, proc, data, ctx, arrived, handled, queued, passed>>
  BY <1>0, <1>1 DEF Refill, IInv, Where, InBatchLoop
<1>3. rx'.at = "dispatch" /\ rx'.i = rx.i + 1 /\ rx'.n = rx.n
  BY <1>0, <1>2
<1>4. TypeOK'
  <2>1. rx' \in [at : {"poll", "read", "dispatch", "wait", "refill", "close", "drain", "returned"},
                 i : 1 .. Batch + 1, n : 0 .. Batch]
    <3>1. rx.i + 1 \in 1 .. Batch + 1
      BY <1>0, <1>2
    <3> QED BY <1>0, <1>2, <3>1
  <2>2. batch' \in [Batches -> Slot] /\ free' \in Seq(Slot)
    BY <1>0, <1>1, <1>2, Taking
  <2> QED BY <1>2, <2>1, <2>2 DEF IInv, TypeOK
<1>5. Where'
  <2>1. ASSUME NEW j \in Batches, rx.i + 1 <= j, j <= rx.n
        PROVE  data[batch'[j]].id = arrived - rx.n + j
    <3>1. rx.i <= j /\ j # rx.i
      BY <1>0, <2>1 DEF Batches
    <3>2. j \in Held /\ batch'[j] = batch[j]
      BY <1>0, <1>2, <3>1 DEF Held
    <3> QED BY <1>2, <2>1, <3>1, <3>2 DEF IInv, Where, InBatchLoop
  <2>2. Held' = Batches /\ rx.i + 1 <= rx.n + 1
    BY <1>0, <1>2, <1>3 DEF Held, Batches
  <2>3. \A p \in Proc : proc[p].at # "exited"
    BY <1>2 DEF IInv, Where
  <2> QED BY <1>2, <1>3, <2>1, <2>2, <2>3 DEF Where, InBatchLoop
<1>6. Lines' /\ Pending' = Pending /\ Handled' = Handled
  BY <1>2, LinesStay
<1>7. Ledger'
  <2>1. Cut' = Cut
    BY <1>0, <1>2, <1>3 DEF Cut
  <2> QED BY <1>2, <1>3, <1>6, <2>1 DEF IInv, Ledger
<1> QED BY <1>4, <1>5, <1>6, <1>7

(* Taking a slot off its queue leaves its datagram first in line.          *)
LEMMA TakeOK ==
  ASSUME IInv, NEW c \in Proc, Take(c)
  PROVE  TypeOK' /\ Where' /\ Lines' /\ Ledger'
<1>0. /\ queue \in [Proc -> Seq(Slot)] /\ \A p \in Proc : Len(queue[p]) <= Per
      /\ proc \in [Proc -> [at : {"idle", "handle", "give", "exited"}, slot : Slot \cup {NoSlot}]]
      /\ data \in [Slot -> Datagram] /\ Per \in Nat
  BY Types, PipelineAssumption DEF IInv
<1>1. queue[c] \in Seq(Slot) /\ queue[c] # <<>>
  BY <1>0 DEF Take
<1>2. PICK b \in Slot : b = Head(queue[c])
  BY <1>1, Taking
<1>3. /\ proc' = [proc EXCEPT ![c] = [at |-> "handle", slot |-> b]]
      /\ queue' = [queue EXCEPT ![c] = Tail(queue[c])]
      /\ UNCHANGED <<rx, batch, free, data, ctx, arrived, handled, queued, passed>>
      /\ proc[c].at = "idle"
  BY <1>0, <1>2 DEF Take
<1>4. /\ \A p \in Proc : p # c => queue'[p] = queue[p] /\ proc'[p] = proc[p]
      /\ queue'[c] = Tail(queue[c])
      /\ proc'[c].at = "handle" /\ proc'[c].slot = b
  BY <1>0, <1>3
<1>5. /\ Elements(queue[c]) = Elements(queue'[c]) \cup {b}
      /\ queue'[c] \in Seq(Slot) /\ Len(queue'[c]) = Len(queue[c]) - 1
  <2>1. /\ Elements(queue[c]) = Elements(Tail(queue[c])) \cup {Head(queue[c])}
        /\ Tail(queue[c]) \in Seq(Slot) /\ Len(Tail(queue[c])) = Len(queue[c]) - 1
    BY <1>1, Taking
  <2> QED BY <1>2, <1>4, <2>1
<1>6. TypeOK'
  <2>1. queue' \in [Proc -> Seq(Slot)]
    <3>1. Tail(queue[c]) \in Seq(Slot)
      BY <1>4, <1>5
    <3> QED BY <1>0, <1>3, <3>1
  <2>2. \A p \in Proc : Len(queue'[p]) <= Per
    <3>1. Len(queue[c]) \in Nat /\ Len(queue[c]) <= Per
      BY <1>0
    <3>2. Len(queue'[c]) <= Per
      BY <1>0, <1>5, <3>1
    <3> QED BY <1>0, <1>4, <3>2
  <2>3. proc' \in [Proc -> [at : {"idle", "handle", "give", "exited"}, slot : Slot \cup {NoSlot}]]
    BY <1>0, <1>3
  <2> QED BY <1>3, <2>1, <2>2, <2>3 DEF IInv, TypeOK
<1>7. \A p \in Proc : WaitingAt(p)' = WaitingAt(p)
  BY <1>3, <1>4, <1>5 DEF WaitingAt
<1>8. Waiting' = Waiting
  BY <1>7 DEF Waiting
<1>9. Where'
  <2>1. Held' = Held /\ Current' = Current /\ InBatchLoop' = InBatchLoop
    BY <1>3 DEF Held, Current, InBatchLoop, Batches
  <2>2. ASSUME NEW p \in Proc, proc'[p].at = "exited"
        PROVE  queue'[p] = <<>> /\ rx'.at \in {"drain", "returned"}
    BY <1>3, <1>4, <2>2 DEF IInv, Where
  <2>3. rx.at # "returned"
    BY <1>3 DEF IInv, Where
  <2> QED BY <1>3, <2>1, <2>2, <2>3 DEF IInv, Where
<1>10. Lines'
  <2>1. ASSUME NEW p \in Proc PROVE Rising(queue'[p], data)
    <3>1. \A s \in Slot : data[s].id \in Nat
      BY <1>0 DEF Datagram
    <3>2. Rising(Tail(queue[c]), data)
      BY <1>1, <3>1, RisingQueue DEF IInv, Lines
    <3> QED BY <1>4, <3>2 DEF IInv, Lines
  <2>2. ASSUME NEW p \in Proc, proc'[p].at = "handle", NEW s \in Elements(queue'[p])
        PROVE  data[proc'[p].slot].id < data[s].id
    <3>1. CASE p # c
      BY <1>4, <2>2, <3>1 DEF IInv, Lines
    <3>2. CASE p = c
      <4>1. \A t \in Slot : data[t].id \in Nat
        BY <1>0 DEF Datagram
      <4>2. \A t \in Elements(Tail(queue[c])) : data[Head(queue[c])].id < data[t].id
        BY <1>1, <4>1, RisingQueue DEF IInv, Lines
      <4> QED BY <1>2, <1>4, <2>2, <3>2, <4>2
    <3> QED BY <3>1, <3>2
  <2>3. (\A p \in Proc : \A s \in WaitingAt(p) :
           data[s].sort # Skipped /\ ShardFor(data[s].sort) = p)'
    <3>1. \A p \in Proc : \A s \in WaitingAt(p) :
            data[s].sort # Skipped /\ ShardFor(data[s].sort) = p
      BY DEF IInv, Lines
    <3>2. \A p \in Proc : \A s \in WaitingAt(p)' :
            data'[s].sort # Skipped /\ ShardFor(data'[s].sort) = p
      BY <1>3, <1>7, <3>1
    <3> QED BY <3>2 DEF ShardFor
  <2>4. /\ (\A s, t \in Waiting : data[s].id = data[t].id => s = t)'
        /\ (\A s \in Waiting : \A e \in Elements(handled[data[s].sort]) : e < data[s].id)'
        /\ (\A k \in Key \cup {NoKey} : Increasing(handled[k]))'
    BY <1>3, <1>8 DEF IInv, Lines
  <2> QED BY <1>3, <2>1, <2>2, <2>3, <2>4 DEF Lines
<1>11. Ledger'
  <2>1. (Pending = {data[s].id : s \in Waiting})'
    BY PendingIds, PTL
  <2>2. Pending' = Pending /\ Handled' = Handled /\ Cut' = Cut
    BY <1>3, <1>8, <2>1, PendingIds DEF Handled, Cut
  <2> QED BY <1>3, <2>2 DEF IInv, Ledger
<1> QED BY <1>6, <1>9, <1>10, <1>11

(* Handling a datagram: it was the first of its key among those that wait, *)
(* and it is later than all those of its key handled before.               *)
LEMMA HandleOK ==
  ASSUME IInv, NEW c \in Proc, Handle(c)
  PROVE  TypeOK' /\ Where' /\ Lines' /\ Ledger'
<1>0. /\ proc \in [Proc -> [at : {"idle", "handle", "give", "exited"}, slot : Slot \cup {NoSlot}]]
      /\ data \in [Slot -> Datagram] /\ MaxArrivals \in Nat
      /\ handled \in [Key \cup {NoKey} -> Seq(1 .. MaxArrivals)]
  BY Types, PipelineAssumption DEF IInv
<1>1. PICK b : b = proc[c].slot
  OBVIOUS
<1>2. proc[c].at = "handle" /\ b \in WaitingAt(c) /\ b \in Waiting
  BY <1>1 DEF Handle, WaitingAt, Waiting
<1>3. PICK a \in 1 .. MaxArrivals : a = data[b].id
  BY <1>2, WaitingPlaces
<1>4. PICK k \in Key \cup {NoKey} : k = data[b].sort
  BY <1>2, WaitingPlaces
<1>5. /\ proc' = [proc EXCEPT ![c].at = "give"]
      /\ handled' = [handled EXCEPT ![k] = Append(@, a)]
      /\ UNCHANGED <<rx, batch, free, queue, data, ctx, arrived, queued, passed>>
  BY <1>1, <1>3, <1>4 DEF Handle
<1>6. /\ \A p \in Proc : p # c => proc'[p] = proc[p]
      /\ proc'[c].at = "give" /\ proc'[c].slot = b
      /\ \A q \in Key \cup {NoKey} : q # k => handled'[q] = handled[q]
      /\ handled'[k] = Append(handled[k], a)
  BY <1>0, <1>1, <1>5
<1>7. Elements(handled'[k]) = Elements(handled[k]) \cup {a} /\ handled'[k] \in Seq(1 .. MaxArrivals)
  <2>1. PICK N : N = 1 .. MaxArrivals
    OBVIOUS
  <2>2. handled[k] \in Seq(N) /\ a \in N
    BY <1>0, <2>1
  <2>3. PICK h \in Seq(N) : h = handled[k]
    BY <2>2
  <2>4. Elements(Append(h, a)) = Elements(h) \cup {a} /\ Append(h, a) \in Seq(N)
    BY <2>2, Appended
  <2> QED BY <1>6, <2>1, <2>3, <2>4
<1>8. TypeOK'
  <2>1. proc' \in [Proc -> [at : {"idle", "handle", "give", "exited"}, slot : Slot \cup {NoSlot}]]
    BY <1>0, <1>5
  <2>2. handled' \in [Key \cup {NoKey} -> Seq(1 .. MaxArrivals)]
    BY <1>0, <1>5, <1>6, <1>7
  <2> QED BY <1>5, <2>1, <2>2 DEF IInv, TypeOK
<1>9. Where'
  <2>1. Held' = Held /\ Current' = Current /\ InBatchLoop' = InBatchLoop
    BY <1>5 DEF Held, Current, InBatchLoop, Batches
  <2>2. ASSUME NEW p \in Proc, proc'[p].at = "exited"
        PROVE  queue'[p] = <<>> /\ rx'.at \in {"drain", "returned"}
    BY <1>5, <1>6, <2>2 DEF IInv, Where
  <2>3. rx.at # "returned"
    BY <1>2 DEF IInv, Where
  <2> QED BY <1>5, <2>1, <2>2, <2>3 DEF IInv, Where
<1>10. b \notin InQueues /\ \A p \in Proc : p # c /\ proc[p].at = "handle" => proc[p].slot # b
  <2>1. c \in Busy /\ b \in InProcs
    BY <1>1, <1>2 DEF Busy, InProcs
  <2>2. \A p \in Proc : proc[p].at = "handle" => p \in Busy
    BY DEF Busy
  <2> QED BY <1>1, <2>1, <2>2 DEF IInv, Apart
<1>11. /\ WaitingAt(c)' = Elements(queue[c])
       /\ WaitingAt(c) = Elements(queue[c]) \cup {b}
       /\ \A p \in Proc : p # c => WaitingAt(p)' = WaitingAt(p)
  BY <1>1, <1>2, <1>5, <1>6 DEF WaitingAt
<1>12. \A p \in Proc : b \notin Elements(queue[p])
  BY <1>10 DEF InQueues
<1>13. \A p \in Proc : b \notin WaitingAt(p)'
  <2>1. ASSUME NEW p \in Proc, p # c PROVE b \notin WaitingAt(p)
    BY <1>10, <1>12, <2>1 DEF WaitingAt
  <2> QED BY <1>11, <1>12, <2>1
<1>14. Waiting' = Waiting \ {b}
  <2>1. \A s : s \in Waiting <=> \E p \in Proc : s \in WaitingAt(p)
    BY DEF Waiting
  <2>2. \A s : s \in Waiting' <=> \E p \in Proc : s \in WaitingAt(p)'
    BY DEF Waiting
  <2> QED BY <1>11, <1>13, <2>1, <2>2
<1>15. ASSUME NEW s \in Waiting', data[s].sort = k PROVE a < data[s].id
  <2>1. PICK p \in Proc : s \in WaitingAt(p)'
    BY <1>15 DEF Waiting
  <2>2. s \in WaitingAt(p)
    BY <1>11, <2>1
  <2>3. p = ShardFor(k) /\ c = ShardFor(k)
    BY <1>2, <1>4, <1>15, <2>2 DEF IInv, Lines
  <2>4. s \in Elements(queue[c])
    BY <1>11, <2>1, <2>3
  <2> QED BY <1>1, <1>2, <1>3, <2>4 DEF IInv, Lines
<1>16. Lines'
  <2>1. (\A p \in Proc : \A s \in WaitingAt(p) :
           data[s].sort # Skipped /\ ShardFor(data[s].sort) = p)'
    <3>1. \A p \in Proc : \A s \in WaitingAt(p)' : s \in WaitingAt(p)
      BY <1>11
    <3> QED BY <1>5, <3>1 DEF ShardFor, IInv, Lines
  <2>2. \A s, t \in Waiting' : data[s].id = data[t].id => s = t
    BY <1>14 DEF IInv, Lines
  <2>3. \A p \in Proc : Rising(queue[p], data)
    BY DEF IInv, Lines
  <2>4. ASSUME NEW p \in Proc, proc'[p].at = "handle"
        PROVE  \A s \in Elements(queue[p]) : data[proc'[p].slot].id < data[s].id
    BY <1>6, <2>4 DEF IInv, Lines
  <2>5. ASSUME NEW s \in Waiting', NEW e \in Elements(handled'[data[s].sort])
        PROVE  e < data[s].id
    <3>1. s \in Waiting /\ data[s].sort \in Key \cup {NoKey}
      BY <1>14, <2>5, WaitingPlaces
    <3>2. \A x \in Elements(handled[data[s].sort]) : x < data[s].id
      BY <3>1 DEF IInv, Lines
    <3>3. CASE data[s].sort = k
      BY <1>7, <1>15, <2>5, <3>2, <3>3
    <3>4. CASE data[s].sort # k
      BY <1>6, <2>5, <3>1, <3>2, <3>4
    <3> QED BY <3>3, <3>4
  <2>6. ASSUME NEW q \in Key \cup {NoKey} PROVE Increasing(handled'[q])
    <3>1. Increasing(handled[q]) /\ Increasing(handled[k])
      BY DEF IInv, Lines
    <3>2. \A e \in Elements(handled[k]) : e < a
      BY <1>2, <1>3, <1>4 DEF IInv, Lines
    <3>3. handled[k] \in Seq(1 .. MaxArrivals) /\ 1 .. MaxArrivals \in SUBSET Nat
      BY <1>0
    <3>4. Increasing(Append(handled[k], a))
      BY <3>1, <3>2, <3>3, IncreasingHistory
    <3> QED BY <1>6, <3>1, <3>4
  <2> QED BY <1>5, <2>1, <2>2, <2>3, <2>4, <2>5, <2>6 DEF Lines
<1>17. Ledger'
  <2>1. (Pending = {data[s].id : s \in Waiting})'
    BY PendingIds, PTL
  <2>2. \A s \in Waiting' : data[s].id # a
    BY <1>2, <1>3, <1>14 DEF IInv, Lines
  <2>3. Pending = Pending' \cup {a} /\ a \notin Pending'
    BY <1>2, <1>3, <1>5, <1>14, <2>1, <2>2, PendingIds
  <2>4. Handled' = Handled \cup {a}
    <3>1. DOMAIN handled = Key \cup {NoKey} /\ DOMAIN handled' = Key \cup {NoKey}
      BY <1>0, <1>5
    <3>2. \A x : x \in Handled <=> \E q \in Key \cup {NoKey} : x \in Elements(handled[q])
      BY <3>1 DEF Handled
    <3>3. \A x : x \in Handled' <=> \E q \in Key \cup {NoKey} : x \in Elements(handled'[q])
      BY <3>1 DEF Handled
    <3> QED BY <1>6, <1>7, <3>2, <3>3
  <2>5. Cut' = Cut
    BY <1>5 DEF Cut
  <2>6. queued' = Handled' \cup Pending' /\ Handled' \cap Pending' = {}
    BY <1>5, <2>3, <2>4 DEF IInv, Ledger
  <2> QED BY <1>5, <2>5, <2>6 DEF IInv, Ledger
<1> QED BY <1>8, <1>9, <1>16, <1>17

(* Giving a slot back, or exiting with an empty queue, moves no datagram.  *)
LEMMA GiveExitOK ==
  ASSUME IInv, NEW c \in Proc, GiveBack(c) \/ Exit(c)
  PROVE  TypeOK' /\ Where' /\ Lines' /\ Ledger'
<1>0. /\ proc \in [Proc -> [at : {"idle", "handle", "give", "exited"}, slot : Slot \cup {NoSlot}]]
      /\ free \in Seq(Slot)
  BY Types DEF IInv
<1>1. UNCHANGED <<rx, batch, queue, data, ctx, arrived, handled, queued, passed>>
  BY DEF GiveBack, Exit
<1>2. /\ \A p \in Proc : p # c => proc'[p] = proc[p]
      /\ proc' \in [Proc -> [at : {"idle", "handle", "give", "exited"}, slot : Slot \cup {NoSlot}]]
      /\ \/ proc[c].at = "give" /\ proc'[c].at = "idle"
         \/ proc[c].at = "idle" /\ proc'[c].at = "exited" /\ queue[c] = <<>> /\ rx.at = "drain"
  BY <1>0 DEF GiveBack, Exit
<1>3. free' \in Seq(Slot)
  <2>1. CASE GiveBack(c)
    <3>1. proc[c].slot \in InProcs
      BY <2>1 DEF GiveBack, InProcs, Busy
    <3>2. proc[c].slot \in Slot
      BY <3>1 DEF IInv, Apart
    <3> QED BY <1>0, <2>1, <3>2, Appended DEF GiveBack
  <2>2. CASE Exit(c)
    BY <1>0, <2>2 DEF Exit
  <2> QED BY <2>1, <2>2
<1>4. TypeOK'
  BY <1>1, <1>2, <1>3 DEF IInv, TypeOK
<1>5. Where'
  <2>1. Held' = Held /\ Current' = Current /\ InBatchLoop' = InBatchLoop
    BY <1>1 DEF Held, Current, InBatchLoop, Batches
  <2>2. ASSUME NEW p \in Proc, proc'[p].at = "exited"
        PROVE  queue'[p] = <<>> /\ rx'.at \in {"drain", "returned"}
    BY <1>1, <1>2, <2>2 DEF IInv, Where
  <2>3. rx.at # "returned"
    BY <1>2 DEF IInv, Where
  <2> QED BY <1>1, <2>1, <2>2, <2>3 DEF IInv, Where
<1>6. Lines' /\ Pending' = Pending /\ Handled' = Handled
  <2>1. /\ \A p \in Proc : proc'[p].at = "handle" <=> proc[p].at = "handle"
        /\ \A p \in Proc : proc[p].at = "handle" => proc'[p].slot = proc[p].slot
    BY <1>2
  <2> QED BY <1>1, <2>1, LinesStay
<1>7. Ledger'
  <2>1. Cut' = Cut
    BY <1>1 DEF Cut
  <2> QED BY <1>1, <1>6, <2>1 DEF IInv, Ledger
<1> QED BY <1>4, <1>5, <1>6, <1>7

(* Cancellation and the closing of the socket change only ctx.             *)
LEMMA OutsideOK ==
  ASSUME IInv, Cancel \/ CloseFd \/ Finished \/ UNCHANGED vars
  PROVE  TypeOK' /\ Where' /\ Lines' /\ Ledger'
<1>1. /\ UNCHANGED <<rx, batch, free, queue, proc, data, arrived, handled, queued, passed>>
      /\ ctx' \in {"live", "canceled", "fdclosed"}
  BY Types DEF IInv, Cancel, CloseFd, Finished, vars
<1>2. TypeOK'
  BY <1>1 DEF IInv, TypeOK
<1>3. Held' = Held /\ Current' = Current /\ InBatchLoop' = InBatchLoop /\ Cut' = Cut
  BY <1>1 DEF Held, Current, InBatchLoop, Cut, Batches
<1>4. Where'
  BY <1>1, <1>3 DEF IInv, Where
<1>5. Lines' /\ Pending' = Pending /\ Handled' = Handled
  BY <1>1, LinesStay
<1>6. Ledger'
  BY <1>1, <1>3, <1>5 DEF IInv, Ledger
<1> QED BY <1>2, <1>4, <1>5, <1>6

LEMMA StepOK == IInv /\ [Next]_vars => IInv'
<1> SUFFICES ASSUME IInv, [Next]_vars PROVE IInv'
  OBVIOUS
<1>1. TypeOK' /\ Where' /\ Lines' /\ Ledger'
  <2> DEFINE Hop == Poll \/ ReadNothing \/ ReadFails \/ QueueFull \/ QuitWaiting
                    \/ BatchDone \/ CloseQueues \/ Return
  <2>1. CASE Hop
    <3>1. UNCHANGED allButRx
      BY <2>1 DEF Poll, ReadNothing, ReadFails, QueueFull, QuitWaiting, BatchDone,
                  CloseQueues, Return
    <3> QED BY <2>1, <3>1, HopOK
  <2>2. CASE ReadBatch BY <2>2, ReadOK
  <2>3. CASE Skip \/ DropFull BY <2>3, PassOverOK
  <2>4. CASE Send BY <2>4, SendOK
  <2>5. CASE Refill BY <2>5, RefillOK
  <2>6. ASSUME NEW p \in Proc, Processor(p) PROVE TypeOK' /\ Where' /\ Lines' /\ Ledger'
    BY <2>6, TakeOK, HandleOK, GiveExitOK DEF Processor
  <2>7. CASE Cancel \/ CloseFd \/ Finished \/ UNCHANGED vars BY <2>7, OutsideOK
  <2> QED BY <2>1, <2>2, <2>3, <2>4, <2>5, <2>6, <2>7 DEF Next, Receiver
<1>2. Apart'
  BY ApartStep
<1> QED BY <1>1, <1>2 DEF IInv

-------------------------------------------------------------------------------
(* What follows from it.                                                   *)

(* The number of slots.                                                    *)
LEMMA Sizes ==
  /\ Procs \in Nat \ {0} /\ Per \in Nat \ {0} /\ Batch \in Nat \ {0}
  /\ Total \in Nat /\ Batch <= Total
<1>1. Procs \in Nat \ {0} /\ Per \in Nat \ {0} /\ Batch \in Nat \ {0}
  BY PipelineAssumption
<1>2. Per * Procs \in Nat
  BY <1>1
<1> QED BY <1>1, <1>2 DEF Total

(* receive starts with the first slots in the batch, the rest in the free  *)
(* list, in order.                                                         *)
LEMMA InitOK == Init => IInv
<1> SUFFICES ASSUME Init PROVE IInv
  OBVIOUS
<1>rx. rx = [at |-> "poll", i |-> 1, n |-> 0]
  BY DEF Init
<1>batch. batch = [i \in Batches |-> i]
  BY DEF Init
<1>free. free = [j \in 1 .. Total - Batch |-> Batch + j]
  BY DEF Init
<1>queue. queue = [p \in Proc |-> <<>>]
  BY DEF Init
<1>proc. proc = [p \in Proc |-> [at |-> "idle", slot |-> NoSlot]]
  BY DEF Init
<1>data. data = [s \in Slot |-> [sort |-> Skipped, id |-> 0]]
  BY DEF Init
<1>rest. ctx = "live" /\ arrived = 0 /\ queued = {} /\ passed = {}
  BY DEF Init
<1>handled. handled = [k \in Key \cup {NoKey} |-> <<>>]
  BY DEF Init
<1>1. free \in Seq(Slot) /\ Len(free) = Total - Batch
  <2>1. Total - Batch \in Nat /\ \A j \in 1 .. Total - Batch : Batch + j \in Slot
    BY Sizes DEF Slot
  <2>2. free \in [1 .. Total - Batch -> Slot]
    BY <1>free, <2>1
  <2> HIDE DEF Slot
  <2> QED BY <2>1, <2>2
<1>2. Elements(free) = Batch + 1 .. Total /\ Distinct(free)
  <2>1. \A j \in 1 .. Total - Batch : free[j] = Batch + j
    BY <1>free
  <2>2. ASSUME NEW s \in Batch + 1 .. Total PROVE s \in Elements(free)
    <3>1. s - Batch \in 1 .. Total - Batch /\ Batch + (s - Batch) = s
      BY Sizes
    <3>2. free[s - Batch] = s
      BY <2>1, <3>1
    <3> QED BY <1>1, <3>1, <3>2 DEF Elements
  <2>3. \A j \in 1 .. Total - Batch : Batch + j \in Batch + 1 .. Total
    BY Sizes
  <2>4. Elements(free) \subseteq Batch + 1 .. Total
    BY <1>1, <2>1, <2>3 DEF Elements
  <2>5. Distinct(free)
    BY <1>1, <2>1, Sizes DEF Distinct
  <2> QED BY <2>2, <2>4, <2>5
<1>3. Held = Batches /\ InBatch = 1 .. Batch
  BY <1>rx, <1>batch, Sizes DEF Held, InBatch, Batches
<1>4. Elements(<<>>) = {} /\ Distinct(<<>>) /\ Increasing(<<>>) /\ Rising(<<>>, data)
  BY DEF Elements, Distinct, Increasing, Rising
<1>5. InQueues = {} /\ Busy = {} /\ InProcs = {}
  BY <1>queue, <1>proc, <1>4 DEF InQueues, Busy, InProcs
<1>6. Waiting = {} /\ Pending = {} /\ \A p \in Proc : WaitingAt(p) = {}
  BY <1>queue, <1>proc, <1>4, <1>5 DEF WaitingAt, Waiting, Pending
<1>7. Handled = {}
  BY <1>handled, <1>4 DEF Handled
<1>8. TypeOK
  <2>1. rx \in [at : {"poll", "read", "dispatch", "wait", "refill", "close", "drain", "returned"},
                i : 1 .. Batch + 1, n : 0 .. Batch]
    BY <1>rx, Sizes
  <2>2. batch \in [Batches -> Slot]
    BY <1>batch, Sizes DEF Batches, Slot
  <2>3. queue \in [Proc -> Seq(Slot)] /\ \A p \in Proc : Len(queue[p]) <= Per
    BY <1>queue, Sizes
  <2>4. proc \in [Proc -> [at : {"idle", "handle", "give", "exited"}, slot : Slot \cup {NoSlot}]]
    BY <1>proc
  <2>5. data \in [Slot -> Datagram]
    BY <1>data DEF Datagram, Sort
  <2>6. handled \in [Key \cup {NoKey} -> Seq(1 .. MaxArrivals)]
    BY <1>handled
  <2>7. arrived \in 0 .. MaxArrivals
    BY <1>rest, PipelineAssumption
  <2> QED BY <1>rest, <1>1, <2>1, <2>2, <2>3, <2>4, <2>5, <2>6, <2>7 DEF TypeOK
<1>9. Apart
  <2>1. Slot = InFree \cup InBatch /\ InFree \cap InBatch = {}
    BY <1>2, <1>3, Sizes DEF InFree, Slot
  <2>2. \A i, j \in Held : batch[i] = batch[j] => i = j
    BY <1>batch, <1>3
  <2> QED BY <1>queue, <1>2, <1>4, <1>5, <2>1, <2>2 DEF Apart
<1>10. Where
  BY <1>rx, <1>proc DEF Where, InBatchLoop
<1>11. Lines
  BY <1>queue, <1>handled, <1>4, <1>6 DEF Lines
<1>12. Ledger
  BY <1>rx, <1>rest, <1>6, <1>7 DEF Ledger, Cut
<1> QED BY <1>8, <1>9, <1>10, <1>11, <1>12 DEF IInv

-------------------------------------------------------------------------------
(* Counting slots.                                                         *)

LOCAL INSTANCE FiniteSetTheorems

LEMMA ProcCount == IsFiniteSet(Proc) /\ Cardinality(Proc) = Procs
<1>1. 0 \in Int /\ Procs - 1 \in Int /\ ~ (0 > Procs - 1) /\ Procs - 1 - 0 + 1 = Procs
  BY Sizes
<1> QED BY <1>1, FS_Interval DEF Proc

(* The queues hold at most Per slots for each processor, the processors    *)
(* one each, and the batch one for each entry held.                        *)
LEMMA QueuedBound ==
  ASSUME TypeOK
  PROVE  IsFiniteSet(InQueues) /\ Cardinality(InQueues) <= Per * Procs
<1> DEFINE P == {x \in Proc \X (1 .. Per) : x[2] <= Len(queue[x[1]])}
           f == [x \in P |-> queue[x[1]][x[2]]]
<1>0. queue \in [Proc -> Seq(Slot)] /\ \A p \in Proc : Len(queue[p]) <= Per
  BY Types
<1>1. /\ IsFiniteSet(Proc \X (1 .. Per))
      /\ Cardinality(Proc \X (1 .. Per)) = Procs * Per
  <2>1. IsFiniteSet(1 .. Per) /\ Cardinality(1 .. Per) = Per
    BY Sizes, FS_Interval
  <2> QED BY <2>1, ProcCount, FS_Product
<1>2. IsFiniteSet(P) /\ Cardinality(P) <= Procs * Per /\ Cardinality(P) \in Nat
  <2>1. P \in SUBSET (Proc \X (1 .. Per))
    OBVIOUS
  <2>2. IsFiniteSet(P) /\ Cardinality(P) <= Cardinality(Proc \X (1 .. Per))
    BY <1>1, <2>1, FS_Subset
  <2> HIDE DEF P
  <2> QED BY <1>1, <2>2, FS_CardinalityType
<1>3. \A x \in P : x[1] \in Proc /\ x[2] \in 1 .. Len(queue[x[1]])
  BY <1>0
<1>4. f \in [P -> InQueues]
  <2>1. ASSUME NEW x \in P PROVE queue[x[1]][x[2]] \in InQueues
    <3>1. queue[x[1]][x[2]] \in Elements(queue[x[1]])
      BY <1>3 DEF Elements
    <3> QED BY <1>3, <3>1 DEF InQueues
  <2> QED BY <2>1
<1>5. ASSUME NEW s \in InQueues PROVE \E x \in P : f[x] = s
  <2>1. PICK p \in Proc : s \in Elements(queue[p])
    BY DEF InQueues
  <2>2. PICK j \in 1 .. Len(queue[p]) : s = queue[p][j]
    BY <2>1 DEF Elements
  <2>3. Len(queue[p]) \in Nat /\ Len(queue[p]) <= Per
    BY <1>0
  <2>4. j \in 1 .. Per /\ j <= Len(queue[p])
    BY <2>3, Sizes
  <2>5. <<p, j>> \in P
    BY <2>4
  <2> QED BY <2>2, <2>5
<1> HIDE DEF P, f
<1>6. f \in Surjection(P, InQueues)
  BY <1>4, <1>5 DEF Surjection
<1>7. IsFiniteSet(InQueues) /\ Cardinality(InQueues) <= Cardinality(P)
  BY <1>2, <1>6, FS_Surjection
<1>8. Cardinality(InQueues) \in Nat
  BY <1>7, FS_CardinalityType
<1> QED BY <1>2, <1>7, <1>8, Sizes

LEMMA ProcsBound == IsFiniteSet(InProcs) /\ Cardinality(InProcs) <= Procs
<1> DEFINE f == [p \in Busy |-> proc[p].slot]
<1>1. IsFiniteSet(Busy) /\ Cardinality(Busy) <= Procs /\ Cardinality(Busy) \in Nat
  <2>1. Busy \in SUBSET Proc
    BY DEF Busy
  <2>2. IsFiniteSet(Busy) /\ Cardinality(Busy) <= Procs
    BY <2>1, ProcCount, FS_Subset
  <2> QED BY <2>2, FS_CardinalityType
<1>2. f \in Surjection(Busy, InProcs)
  BY DEF Surjection, InProcs
<1> HIDE DEF f
<1>3. IsFiniteSet(InProcs) /\ Cardinality(InProcs) <= Cardinality(Busy)
  BY <1>1, <1>2, FS_Surjection
<1>4. Cardinality(InProcs) \in Nat
  BY <1>3, FS_CardinalityType
<1> QED BY <1>1, <1>3, <1>4, Sizes

LEMMA BatchCount ==
  ASSUME TypeOK, Apart
  PROVE  IsFiniteSet(InBatch) /\ Cardinality(InBatch) = Cardinality(Held) /\ IsFiniteSet(Held)
<1> DEFINE f == [i \in Held |-> batch[i]]
<1>1. IsFiniteSet(Held)
  <2>1. IsFiniteSet(Batches)
    BY Sizes, FS_Interval DEF Batches
  <2>2. Held \in SUBSET Batches
    BY DEF Held
  <2> QED BY <2>1, <2>2, FS_Subset
<1>2. f \in Surjection(Held, InBatch)
  BY DEF Surjection, InBatch
<1>3. f \in Injection(Held, InBatch)
  BY <1>2 DEF Surjection, Injection, IsInjective, Apart
<1> HIDE DEF f
<1>4. ExistsBijection(Held, InBatch)
  BY <1>2, <1>3 DEF ExistsBijection, Bijection
<1> QED BY <1>1, <1>4, FS_Bijection

(* At a refill one entry of the batch holds no slot.  The other places     *)
(* cannot hold every slot, so the free list has one.                       *)
LEMMA RefillCount == IInv => RefillReady
<1> SUFFICES ASSUME IInv, rx.at = "refill", free = <<>> PROVE FALSE
  BY DEF RefillReady
<1> USE DEF IInv
<1>1. Held = Batches \ {rx.i} /\ rx.i \in Batches
  <2>1. Held = Batches \ {rx.i}
    BY DEF Held
  <2>2. rx.i \in 1 .. Batch + 1 /\ rx.n \in 0 .. Batch
    BY Types
  <2>3. rx.i <= rx.n
    BY DEF Where
  <2> HIDE DEF IInv
  <2> QED BY <2>1, <2>2, <2>3, Sizes DEF Batches
<1>2. Cardinality(Held) = Batch - 1
  <2>1. IsFiniteSet(Batches) /\ Cardinality(Batches) = Batch
    BY Sizes, FS_Interval DEF Batches
  <2> QED BY <1>1, <2>1, FS_RemoveElement
<1>3. InFree = {}
  BY DEF InFree, Elements
<1>4. Slot = InBatch \cup InQueues \cup InProcs
  BY <1>3 DEF Apart
<1>5. /\ IsFiniteSet(InBatch) /\ Cardinality(InBatch) = Batch - 1
      /\ IsFiniteSet(InQueues) /\ Cardinality(InQueues) <= Per * Procs
      /\ IsFiniteSet(InProcs) /\ Cardinality(InProcs) <= Procs
  BY <1>2, BatchCount, QueuedBound, ProcsBound
<1>6. /\ IsFiniteSet(InBatch \cup InQueues)
      /\ Cardinality(InBatch \cup InQueues) =
           Cardinality(InBatch) + Cardinality(InQueues) - Cardinality(InBatch \cap InQueues)
  BY <1>5, FS_Union
<1>7. /\ IsFiniteSet(Slot)
      /\ Cardinality(Slot) = Cardinality(InBatch \cup InQueues) + Cardinality(InProcs)
                             - Cardinality((InBatch \cup InQueues) \cap InProcs)
  BY <1>4, <1>5, <1>6, FS_Union
<1>8. InBatch \cap InQueues = {} /\ (InBatch \cup InQueues) \cap InProcs = {}
  BY DEF Apart
<1>9. Cardinality(Slot) = Total
  BY Sizes, FS_Interval DEF Slot
<1>10. Cardinality({}) = 0
  BY FS_EmptySet
<1>11. /\ Cardinality(InBatch) \in Nat /\ Cardinality(InQueues) \in Nat
       /\ Cardinality(InProcs) \in Nat
  BY <1>5, FS_CardinalityType
<1>12. Total = Batch - 1 + Cardinality(InQueues) + Cardinality(InProcs)
  <2>1. Cardinality(InBatch \cup InQueues) = Batch - 1 + Cardinality(InQueues) - 0
    BY <1>5, <1>6, <1>8, <1>10
  <2>2. Total = Cardinality(InBatch \cup InQueues) + Cardinality(InProcs) - 0
    BY <1>7, <1>8, <1>9, <1>10
  <2> QED BY <1>11, <2>1, <2>2, Sizes
<1>13. PICK m \in Nat : m = Per * Procs
  BY Sizes
<1>14. Total = m + Procs + Batch /\ Cardinality(InQueues) <= m
  BY <1>5, <1>13 DEF Total
<1>15. Cardinality(InProcs) <= Procs
  BY <1>5
<1>16. PICK x \in Nat, y \in Nat, z \in Nat :
         x = Cardinality(InQueues) /\ y = Cardinality(InProcs) /\ z = Procs
  BY <1>11, Sizes
<1>17. m + z + Batch = Batch - 1 + x + y /\ x <= m /\ y <= z
  BY <1>12, <1>14, <1>15, <1>16
<1> QED BY <1>17, Sizes

(* Once receive has returned, every slot but the batch's is back.          *)
LEMMA ReturnedCount == IInv /\ rx.at = "returned" => Len(free) = Total - Batch /\ Pending = {}
<1> SUFFICES ASSUME IInv, rx.at = "returned" PROVE Len(free) = Total - Batch /\ Pending = {}
  OBVIOUS
<1> USE DEF IInv
<1>1. \A p \in Proc : proc[p].at = "exited" /\ queue[p] = <<>>
  BY DEF Where
<1>2. InQueues = {} /\ Busy = {} /\ InProcs = {}
  <2>1. Elements(<<>>) = {}
    BY DEF Elements
  <2>2. Busy = {}
    BY <1>1 DEF Busy
  <2> QED BY <1>1, <2>1, <2>2 DEF InQueues, InProcs
<1>3. Pending = {}
  BY <1>1, <1>2 DEF Pending
<1>4. Held = Batches
  BY DEF Held
<1>5. Slot = InFree \cup InBatch /\ InFree \cap InBatch = {}
  BY <1>2 DEF Apart
<1>6. IsFiniteSet(InBatch) /\ Cardinality(InBatch) = Batch
  BY <1>4, BatchCount, Sizes, FS_Interval DEF Batches
<1>7. free \in Seq(Slot) /\ Len(free) \in Nat
  BY Types
<1>8. IsFiniteSet(InFree) /\ Cardinality(InFree) = Len(free)
  <2> DEFINE f == [i \in 1 .. Len(free) |-> free[i]]
  <2>1. f \in Surjection(1 .. Len(free), InFree)
    BY DEF Surjection, InFree, Elements
  <2>2. f \in Injection(1 .. Len(free), InFree)
    BY <2>1 DEF Surjection, Injection, IsInjective, Apart, Distinct
  <2> HIDE DEF f
  <2>3. ExistsBijection(1 .. Len(free), InFree)
    BY <2>1, <2>2 DEF ExistsBijection, Bijection
  <2>4. IsFiniteSet(1 .. Len(free)) /\ Cardinality(1 .. Len(free)) = Len(free)
    <3>1. PICK n \in Int : n = Len(free) /\ n >= 0
      BY <1>7
    <3>2. IsFiniteSet(1 .. n) /\ Cardinality(1 .. n) = IF 1 > n THEN 0 ELSE n - 1 + 1
      BY FS_Interval
    <3>3. Cardinality(1 .. n) = n
      BY <3>1, <3>2
    <3> QED BY <3>1, <3>2, <3>3
  <2>5. IsFiniteSet(InFree) /\ Cardinality(InFree) = Cardinality(1 .. Len(free))
    BY <2>3, <2>4, FS_Bijection
  <2> QED BY <2>4, <2>5
<1>9. Cardinality(Slot) = Cardinality(InFree) + Cardinality(InBatch) - Cardinality({})
  BY <1>5, <1>6, <1>8, FS_Union
<1>10. Cardinality(Slot) = Total /\ Cardinality({}) = 0
  BY Sizes, FS_Interval, FS_EmptySet DEF Slot
<1> QED BY <1>3, <1>6, <1>7, <1>8, <1>9, <1>10, Sizes

-------------------------------------------------------------------------------
(* What the invariant says.                                                *)

(* A queue's slots are told apart from its own and from other queues'.     *)
LEMMA QueuesApart ==
  ASSUME NEW Q \in [Proc -> Seq(Slot)]
  PROVE  (/\ \A p \in Proc : Distinct(Q[p])
          /\ \A p, q \in Proc : p # q => Elements(Q[p]) \cap Elements(Q[q]) = {})
         => \A p, q \in Proc : \A i \in 1 .. Len(Q[p]), j \in 1 .. Len(Q[q]) :
              Q[p][i] = Q[q][j] => p = q /\ i = j
<1> SUFFICES ASSUME \A p \in Proc : Distinct(Q[p]),
                    \A p, q \in Proc : p # q => Elements(Q[p]) \cap Elements(Q[q]) = {},
                    NEW p \in Proc, NEW q \in Proc,
                    NEW i \in 1 .. Len(Q[p]), NEW j \in 1 .. Len(Q[q]), Q[p][i] = Q[q][j]
             PROVE  p = q /\ i = j
  OBVIOUS
<1>1. Q[p][i] \in Elements(Q[p]) /\ Q[q][j] \in Elements(Q[q])
  BY DEF Elements
<1>2. p = q
  BY <1>1
<1> QED BY <1>2 DEF Distinct

LEMMA ApartOnePlace == TypeOK /\ Apart => OnePlace
<1> SUFFICES ASSUME TypeOK, Apart PROVE OnePlace
  OBVIOUS
<1>1. queue \in [Proc -> Seq(Slot)]
  BY DEF TypeOK
<1>2. \A p, q \in Proc : \A i \in 1 .. Len(queue[p]), j \in 1 .. Len(queue[q]) :
        queue[p][i] = queue[q][j] => p = q /\ i = j
  BY <1>1, QueuesApart DEF Apart
<1>3. \A i, j \in 1 .. Len(free) : free[i] = free[j] => i = j
  BY DEF Apart, Distinct
<1> QED BY <1>2, <1>3 DEF Apart, OnePlace

(* What the invariant says of the slots, the histories and the account.    *)
LEMMA IInvImplies == IInv => TypeOK /\ OnePlace /\ RefillReady /\ KeyOrder /\ Accounted
<1> SUFFICES ASSUME IInv PROVE TypeOK /\ OnePlace /\ RefillReady /\ KeyOrder /\ Accounted
  OBVIOUS
<1>1. TypeOK /\ OnePlace /\ RefillReady
  BY ApartOnePlace, RefillCount DEF IInv
<1>2. DOMAIN handled = Key \cup {NoKey}
  BY Types DEF IInv
<1>3. KeyOrder
  BY <1>2 DEF IInv, Lines, Increasing, KeyOrder
<1>4. rx.at \in {"poll", "read"} => queued \cup passed = 1 .. arrived
  BY DEF IInv, Ledger, Cut
<1>5. Accounted
  BY <1>4, ReturnedCount DEF IInv, Ledger, Accounted
<1> QED BY <1>1, <1>3, <1>5

(* Every state of receive and its processors satisfies the invariant: the  *)
(* slots are apart, each is where the queues and the batch say, every line *)
(* of a key is in order, and the ledger of arrivals balances.              *)
THEOREM Invariance == Spec => []IInv
<1>1. Init => IInv BY InitOK
<1>2. IInv /\ [Next]_vars => IInv' BY StepOK
<1> QED BY <1>1, <1>2, PTL DEF Spec

(* The variables keep their types, and no queue ever holds more slots than *)
(* its channel was made for.                                               *)
THEOREM TypesKept == Spec => []TypeOK
BY Invariance, IInvImplies, PTL

(* "Every slot is in exactly one place: the free list, the receiver's      *)
(* batch, a queue, or a processor", through every interleaving of the      *)
(* receiver with any number of processors.                                 *)
THEOREM SlotsInOnePlace == Spec => []OnePlace
BY Invariance, IInvImplies, PTL

(* batch[i] = <-free never blocks: receive allocates enough slots for any  *)
(* number of processors, any capacity of their queues and any batch size.  *)
THEOREM RefillNeverBlocks == Spec => []RefillReady
BY Invariance, IInvImplies, PTL

(* The frames of one key are stored in the order they were received,       *)
(* whatever keys share a processor and however the processors run.         *)
THEOREM KeysInOrder == Spec => []KeyOrder
BY Invariance, IInvImplies, PTL

(* No datagram is lost, handled twice or overwritten in its slot; every    *)
(* one read is handed over or passed over; and receive returns with all it *)
(* handed over handled and all but the batch's slots free.                 *)
THEOREM EveryArrivalAccounted == Spec => []Accounted
BY Invariance, IInvImplies, PTL
===============================================================================
