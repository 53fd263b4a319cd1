------------------------------- MODULE Pipeline -------------------------------
(***************************************************************************)
(* The receive pipeline of ingress/pipeline.go, one per socket: a receiver *)
(* goroutine reads batches of datagrams into reusable slots and hands each *)
(* slot to the processor of its cache key over a bounded queue; processors *)
(* store the frame and return the slot to the free list.  Contents of      *)
(* datagrams are abstracted to their cache key and to whether they are     *)
(* passed on; processFrame's classes are the subject of another module.    *)
(***************************************************************************)
EXTENDS Integers, Sequences

CONSTANTS
  Procs,        \* processing goroutines (procs)
  Per,          \* capacity of one processor's queue
  Batch,        \* slots offered to one read (recvBatchSize)
  Key,          \* cache keys (HashKey, SeqNum)
  ShardOf,      \* the processor of a key, shardOf(pkt) % procs
  MaxArrivals,  \* bound on the datagrams received
  Traffic       \* bound: the sorts of datagram each arrival may be of

(* The processors, by index; a datagram too short for a key goes to the    *)
(* first.                                                                  *)
Proc == 0 .. Procs - 1
Proc0 == 0

ASSUME PipelineAssumption ==
  /\ Procs \in Nat \ {0} /\ Per \in Nat \ {0} /\ Batch \in Nat \ {0} /\ MaxArrivals \in Nat
  /\ ShardOf \in [Key -> Proc]

VARIABLES
  rx,       \* where the receiver is: [at, i, n], i the batch index, n the count read
  batch,    \* the receiver's slots
  free,     \* the free list
  queue,    \* slots queued per processor
  proc,     \* where each processor is: [at, slot]
  data,     \* what each slot's buffer holds
  ctx,      \* "live", then "canceled", then "fdclosed"
  arrived,  \* datagrams received so far: the next arrival's number
  handled,  \* history: the arrivals processed under each key, in order
  queued,   \* history: the arrivals handed to processors
  passed    \* history: the arrivals the receiver passed over: truncated, empty, or
            \* dropped at a full queue (the counts kept of the first and last are
            \* not modelled)

vars == <<rx, batch, free, queue, proc, data, ctx, arrived, handled, queued, passed>>
allButRx == <<batch, free, queue, proc, data, ctx, arrived, handled, queued, passed>>

(* Sorts of datagrams: a frame of a key; one too short to carry a key; and *)
(* one that is truncated or empty, which the receiver passes over.         *)
NoKey == "short"
Skipped == "skipped"
Sort == Key \cup {NoKey, Skipped}

Datagram == [sort : Sort, id : Nat]

NoSlot == 0

(* Mutant: one slot fewer.                                                 *)
TotalLessOne == Per * Procs + Procs + Batch - 1

(* The slots receive allocates, numbered in that order.                    *)
Total == Per * Procs + Procs + Batch
Slot == 1 .. Total

Batches == 1 .. Batch

(* Mutant: datagrams spread by position, not by key.                       *)
ShardByPosition(sort) ==
  IF rx.i % 2 = 1 THEN Proc0 ELSE Procs - 1

ShardFor(sort) == IF sort = NoKey THEN Proc0 ELSE ShardOf[sort]

(* Batch entries the receiver still owns: between a send and the refill    *)
(* the entry names a slot that is already the processor's.                 *)
Held == Batches \ (IF rx.at = "refill" THEN {rx.i} ELSE {})

-------------------------------------------------------------------------------
(* receive up to its loop: slots in the free list, then a full batch.      *)
Init ==
  /\ rx = [at |-> "poll", i |-> 1, n |-> 0]
  /\ batch = [i \in Batches |-> i]
  /\ free = [j \in 1 .. Total - Batch |-> Batch + j]
  /\ queue = [p \in Proc |-> <<>>]
  /\ proc = [p \in Proc |-> [at |-> "idle", slot |-> NoSlot]]
  /\ data = [s \in Slot |-> [sort |-> Skipped, id |-> 0]]
  /\ ctx = "live"
  /\ arrived = 0
  /\ handled = [k \in Key \cup {NoKey} |-> <<>>]
  /\ queued = {}
  /\ passed = {}

(* The check of done at the top of the loop.                               *)
Poll ==
  /\ rx.at = "poll"
  /\ rx' = [rx EXCEPT !.at = IF ctx = "live" THEN "read" ELSE "close"]
  /\ UNCHANGED allButRx

(* recvmmsg fills the first n slots of the batch with the next n arrivals. *)
ReadBatch ==
  /\ rx.at = "read" /\ ctx # "fdclosed"
  /\ \E n \in Batches : \E sorts \in [1 .. n -> Sort] :
       /\ arrived + n <= MaxArrivals
       /\ \A j \in 1 .. n : sorts[j] \in Traffic[arrived + j]
       /\ data' = [s \in Slot |->
                     IF \E j \in 1 .. n : batch[j] = s
                     THEN LET j == CHOOSE j \in 1 .. n : batch[j] = s
                          IN  [sort |-> sorts[j], id |-> arrived + j]
                     ELSE data[s]]
       /\ arrived' = arrived + n
       /\ rx' = [at |-> "dispatch", i |-> 1, n |-> n]
  /\ UNCHANGED <<batch, free, queue, proc, ctx, handled, queued, passed>>

(* The read times out, is interrupted, or fails while live: it is retried. *)
ReadNothing ==
  /\ rx.at = "read" /\ ctx # "fdclosed"
  /\ rx' = [rx EXCEPT !.at = "poll"]
  /\ UNCHANGED allButRx

(* EBADF, EINVAL, or any error once canceled: the loop returns.  It is all *)
(* that a closed socket gives.                                             *)
ReadFails ==
  /\ rx.at = "read"
  /\ rx' = [rx EXCEPT !.at = "close"]
  /\ UNCHANGED allButRx

Current == data[batch[rx.i]]
CurrentQueue == ShardFor(Current.sort)

(* A truncated or empty datagram is passed over: its slot stays.           *)
Skip ==
  /\ rx.at = "dispatch" /\ rx.i <= rx.n
  /\ Current.sort = Skipped
  /\ rx' = [rx EXCEPT !.i = @ + 1]
  /\ passed' = passed \cup {Current.id}
  /\ UNCHANGED <<batch, free, queue, proc, data, ctx, arrived, handled, queued>>

(* Mutant: one slot more than the queue's capacity.                        *)
SendBeyond ==
  /\ \/ rx.at = "dispatch" /\ rx.i <= rx.n /\ Current.sort # Skipped
     \/ rx.at = "wait"
  /\ Len(queue[CurrentQueue]) <= Per
  /\ queue' = [queue EXCEPT ![CurrentQueue] = Append(@, batch[rx.i])]
  /\ queued' = queued \cup {Current.id}
  /\ rx' = [rx EXCEPT !.at = "refill"]
  /\ UNCHANGED <<batch, free, proc, data, ctx, arrived, handled, passed>>

(* The send on the processor's queue, at once or while waiting for room.   *)
Send ==
  /\ \/ rx.at = "dispatch" /\ rx.i <= rx.n /\ Current.sort # Skipped
     \/ rx.at = "wait"
  /\ Len(queue[CurrentQueue]) < Per
  /\ queue' = [queue EXCEPT ![CurrentQueue] = Append(@, batch[rx.i])]
  /\ queued' = queued \cup {Current.id}
  /\ rx' = [rx EXCEPT !.at = "refill"]
  /\ UNCHANGED <<batch, free, proc, data, ctx, arrived, handled, passed>>

QueueFull ==
  /\ rx.at = "dispatch" /\ rx.i <= rx.n /\ Current.sort # Skipped
  /\ Len(queue[CurrentQueue]) = Per
  /\ rx' = [rx EXCEPT !.at = "wait"]
  /\ UNCHANGED allButRx

(* Mutant: the dropped datagram's slot is replaced as if it had been sent. *)
DropAndRefill ==
  /\ rx.at = "wait"
  /\ rx' = [rx EXCEPT !.at = "refill"]
  /\ passed' = passed \cup {Current.id}
  /\ UNCHANGED <<batch, free, queue, proc, data, ctx, arrived, handled, queued>>

(* queueFullWait expires: the datagram is dropped, its slot stays.         *)
DropFull ==
  /\ rx.at = "wait"
  /\ rx' = [rx EXCEPT !.at = "dispatch", !.i = @ + 1]
  /\ passed' = passed \cup {Current.id}
  /\ UNCHANGED <<batch, free, queue, proc, data, ctx, arrived, handled, queued>>

(* ctx is done while waiting: the loop returns, the batch is abandoned.    *)
QuitWaiting ==
  /\ rx.at = "wait" /\ ctx # "live"
  /\ rx' = [rx EXCEPT !.at = "close"]
  /\ UNCHANGED allButRx

(* Mutant: the batch keeps the slot it sent.                               *)
RefillForgotten ==
  /\ rx.at = "refill"
  /\ rx' = [rx EXCEPT !.at = "dispatch", !.i = @ + 1]
  /\ UNCHANGED allButRx

(* batch[i] = <-free                                                       *)
Refill ==
  /\ rx.at = "refill" /\ free # <<>>
  /\ batch' = [batch EXCEPT ![rx.i] = Head(free)]
  /\ free' = Tail(free)
  /\ rx' = [rx EXCEPT !.at = "dispatch", !.i = @ + 1]
  /\ UNCHANGED <<queue, proc, data, ctx, arrived, handled, queued, passed>>

BatchDone ==
  /\ rx.at = "dispatch" /\ rx.i > rx.n
  /\ rx' = [rx EXCEPT !.at = "poll"]
  /\ UNCHANGED allButRx

(* Mutant: wg.Wait before the queues are closed.                           *)
WaitThenClose ==
  /\ rx.at = "close" /\ \A p \in Proc : proc[p].at = "exited"
  /\ rx' = [rx EXCEPT !.at = "drain"]
  /\ UNCHANGED allButRx

(* The deferred close of every queue, then wg.Wait.                        *)
CloseQueues ==
  /\ rx.at = "close"
  /\ rx' = [rx EXCEPT !.at = "drain"]
  /\ UNCHANGED allButRx

(* Mutant: return without wg.Wait.                                         *)
ReturnAtOnce ==
  /\ rx.at = "drain"
  /\ rx' = [rx EXCEPT !.at = "returned"]
  /\ UNCHANGED allButRx

Return ==
  /\ rx.at = "drain" /\ \A p \in Proc : proc[p].at = "exited"
  /\ rx' = [rx EXCEPT !.at = "returned"]
  /\ UNCHANGED allButRx

Receiver ==
  \/ Poll \/ ReadBatch \/ ReadNothing \/ ReadFails \/ Skip \/ Send \/ QueueFull
  \/ DropFull \/ QuitWaiting \/ Refill \/ BatchDone \/ CloseQueues \/ Return

-------------------------------------------------------------------------------
(* A processor: for s := range q { handle(s); free <- s }                  *)

Take(p) ==
  /\ proc[p].at = "idle" /\ queue[p] # <<>>
  /\ proc' = [proc EXCEPT ![p] = [at |-> "handle", slot |-> Head(queue[p])]]
  /\ queue' = [queue EXCEPT ![p] = Tail(@)]
  /\ UNCHANGED <<rx, batch, free, data, ctx, arrived, handled, queued, passed>>

(* handle: a frame is stored under its key; a short datagram fails decode. *)
Handle(p) ==
  LET d == data[proc[p].slot]
  IN  /\ proc[p].at = "handle"
      /\ proc' = [proc EXCEPT ![p].at = "give"]
      /\ handled' = [handled EXCEPT ![d.sort] = Append(@, d.id)]
      /\ UNCHANGED <<rx, batch, free, queue, data, ctx, arrived, queued, passed>>

GiveBack(p) ==
  /\ proc[p].at = "give"
  /\ free' = Append(free, proc[p].slot)
  /\ proc' = [proc EXCEPT ![p] = [at |-> "idle", slot |-> NoSlot]]
  /\ UNCHANGED <<rx, batch, queue, data, ctx, arrived, handled, queued, passed>>

(* Mutant: a processor stops at the close with its queue not drained.      *)
ExitAtClose(p) ==
  /\ proc[p].at = "idle" /\ rx.at = "drain"
  /\ proc' = [proc EXCEPT ![p].at = "exited"]
  /\ UNCHANGED <<rx, batch, free, queue, data, ctx, arrived, handled, queued, passed>>

Exit(p) ==
  /\ proc[p].at = "idle" /\ queue[p] = <<>>
  /\ rx.at = "drain"
  /\ proc' = [proc EXCEPT ![p].at = "exited"]
  /\ UNCHANGED <<rx, batch, free, queue, data, ctx, arrived, handled, queued, passed>>

Processor(p) == Take(p) \/ Handle(p) \/ GiveBack(p) \/ Exit(p)

-------------------------------------------------------------------------------
Cancel ==
  /\ ctx = "live"
  /\ ctx' = "canceled"
  /\ UNCHANGED <<rx, batch, free, queue, proc, data, arrived, handled, queued, passed>>

(* The goroutine of Run and RunTee that closes the socket after ctx.Done.  *)
CloseFd ==
  /\ ctx = "canceled"
  /\ ctx' = "fdclosed"
  /\ UNCHANGED <<rx, batch, free, queue, proc, data, arrived, handled, queued, passed>>

(* receive has returned; nothing is left to run.                           *)
Finished == rx.at = "returned" /\ ctx = "fdclosed" /\ UNCHANGED vars

Next ==
  \/ Receiver
  \/ \E p \in Proc : Processor(p)
  \/ Cancel \/ CloseFd \/ Finished

(* Goroutines are scheduled; a read ends within SO_RCVTIMEO; the wait for  *)
(* room ends within queueFullWait.  Nothing is assumed of arrivals or of   *)
(* cancellation.                                                           *)
Fairness ==
  /\ WF_vars(Receiver) /\ WF_vars(CloseFd)
  /\ \A p \in Proc : WF_vars(Processor(p))

Spec == Init /\ [][Next]_vars /\ Fairness

-------------------------------------------------------------------------------
(* Where slots are, and the arrivals in them that processors have not yet  *)
(* handled.                                                                *)
Elements(q) == {q[j] : j \in 1 .. Len(q)}
InFree == Elements(free)
InBatch == {batch[i] : i \in Held}
InQueues == UNION {Elements(queue[p]) : p \in Proc}
Busy == {p \in Proc : proc[p].at \in {"handle", "give"}}
InProcs == {proc[p].slot : p \in Busy}

Handled == UNION {Elements(handled[k]) : k \in DOMAIN handled}
Pending ==
  {data[s].id : s \in InQueues \cup {proc[p].slot : p \in {q \in Proc : proc[q].at = "handle"}}}

(* Every variable keeps its type, and no queue exceeds the capacity its    *)
(* channel is made with.                                                   *)
TypeOK ==
  /\ rx \in [at : {"poll", "read", "dispatch", "wait", "refill", "close", "drain", "returned"},
             i : 1 .. Batch + 1, n : 0 .. Batch]
  /\ batch \in [Batches -> Slot] /\ free \in Seq(Slot)
  /\ queue \in [Proc -> Seq(Slot)] /\ \A p \in Proc : Len(queue[p]) <= Per
  /\ proc \in [Proc -> [at : {"idle", "handle", "give", "exited"}, slot : Slot \cup {NoSlot}]]
  /\ data \in [Slot -> Datagram]
  /\ ctx \in {"live", "canceled", "fdclosed"}
  /\ arrived \in 0 .. MaxArrivals
  /\ handled \in [Key \cup {NoKey} -> Seq(1 .. MaxArrivals)]
  /\ queued \subseteq 1 .. MaxArrivals /\ passed \subseteq 1 .. MaxArrivals

(* "Every slot is in exactly one place: the free list, the receiver's      *)
(* batch, a queue, or a processor": the places cover the slots, and no two *)
(* places, of one kind or of two, hold the same slot.                      *)
OnePlace ==
  /\ Slot = InFree \cup InBatch \cup InQueues \cup InProcs
  /\ InFree \cap (InBatch \cup InQueues \cup InProcs) = {}
  /\ InBatch \cap (InQueues \cup InProcs) = {}
  /\ InQueues \cap InProcs = {}
  /\ \A i, j \in 1 .. Len(free) : free[i] = free[j] => i = j
  /\ \A i, j \in Held : batch[i] = batch[j] => i = j
  /\ \A p, q \in Busy : proc[p].slot = proc[q].slot => p = q
  /\ \A p, q \in Proc : \A i \in 1 .. Len(queue[p]), j \in 1 .. Len(queue[q]) :
       queue[p][i] = queue[q][j] => p = q /\ i = j

(* The free list is "sized so the free list can always refill the batch":  *)
(* batch[i] = <-free never blocks, however far behind the processors are.  *)
RefillReady == rx.at = "refill" => free # <<>>

(* The datagrams of one key are processed, so stored, in arrival order.    *)
KeyOrder ==
  \A k \in DOMAIN handled : \A i, j \in 1 .. Len(handled[k]) :
    i < j => handled[k][i] < handled[k][j]

(* No datagram is lost, duplicated or overwritten in its slot: what was    *)
(* handed to processors is what they handled plus what waits in the slots  *)
(* they hold, and once a batch is dispatched every arrival was handed over *)
(* or passed over (truncated, empty, or dropped at a full queue), never    *)
(* both.  receive "returns only after every processor has exited", with    *)
(* every queue drained and every slot but the batch's in the free list.    *)
Accounted ==
  /\ queued = Handled \cup Pending
  /\ Handled \cap Pending = {}
  /\ queued \cap passed = {}
  /\ rx.at \in {"poll", "read"} => queued \cup passed = 1 .. arrived
  /\ rx.at = "returned" => queued = Handled /\ Len(free) = Total - Batch

(* Every datagram handed to a processor is handled, also across shutdown.  *)
QueuedIsHandled == \A a \in 1 .. MaxArrivals : a \in queued ~> a \in Handled

(* After cancellation receive returns, whatever the queues hold.           *)
CancelReturns == ctx # "live" ~> rx.at = "returned"
===============================================================================
