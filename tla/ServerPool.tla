------------------------------ MODULE ServerPool ------------------------------
(***************************************************************************)
(* Run of server/server.go: a reader hands NACK datagrams to a pool of     *)
(* workers over a bounded channel until its context is canceled, then      *)
(* closes the channel, waits for the workers and closes the socket.  What  *)
(* a worker does with a NACK is module Nack's subject; here it is a span   *)
(* during which the worker may write to the socket.                        *)
(***************************************************************************)
EXTENDS Integers, Sequences, FiniteSets

CONSTANTS
  Worker,     \* the pool
  QueueCap,   \* capacity of the requests channel
  MaxNacks    \* bound on the datagrams received

ASSUME PoolAssumption ==
  /\ QueueCap \in Nat \ {0} /\ MaxNacks \in Nat /\ IsFiniteSet(Worker)

VARIABLES
  rd,        \* the reader: [at, nack], nack the datagram it is handing over
  requests,  \* the channel
  closed,    \* the channel is closed
  at,        \* each worker: [is, nack], is "idle", "busy" or "exited"
  canceled,  \* ctx is done
  conn,      \* the socket is open
  received,  \* history: NACKs read
  handled    \* history: NACKs whose handler returned

vars == <<rd, requests, closed, at, canceled, conn, received, handled>>

Init ==
  /\ rd = [at |-> "poll", nack |-> 0]
  /\ requests = <<>> /\ closed = FALSE
  /\ at = [w \in Worker |-> [is |-> "idle", nack |-> 0]]
  /\ canceled = FALSE
  /\ conn = TRUE
  /\ received = 0
  /\ handled = {}

Reads(from, to, n) == rd.at = from /\ rd' = [at |-> to, nack |-> n]

(* The select at the top of the loop.                                      *)
Poll ==
  /\ Reads("poll", IF canceled THEN "close" ELSE "read", 0)
  /\ UNCHANGED <<requests, closed, at, canceled, conn, received, handled>>

ReadNack ==
  /\ received < MaxNacks
  /\ Reads("read", "offer", received + 1)
  /\ received' = received + 1
  /\ UNCHANGED <<requests, closed, at, canceled, conn, handled>>

(* The read deadline passes, the read fails, or the datagram has the wrong *)
(* size: the loop goes round, except after an error once canceled.         *)
ReadNothing ==
  /\ \/ Reads("read", "poll", 0)
     \/ canceled /\ Reads("read", "close", 0)
  /\ UNCHANGED <<requests, closed, at, canceled, conn, received, handled>>

(* Mutant: one request more than the channel holds.                        *)
OfferBeyond ==
  /\ Len(requests) <= QueueCap
  /\ Reads("offer", "poll", 0)
  /\ requests' = Append(requests, rd.nack)
  /\ UNCHANGED <<closed, at, canceled, conn, received, handled>>

(* Mutant: a full channel makes the reader let the request go.             *)
OfferOrDrop ==
  /\ Reads("offer", "poll", 0)
  /\ requests' = IF Len(requests) < QueueCap THEN Append(requests, rd.nack) ELSE requests
  /\ UNCHANGED <<closed, at, canceled, conn, received, handled>>

(* The send on requests blocks while the channel is full ...               *)
Offer ==
  /\ Len(requests) < QueueCap
  /\ Reads("offer", "poll", 0)
  /\ requests' = Append(requests, rd.nack)
  /\ UNCHANGED <<closed, at, canceled, conn, received, handled>>

(* Mutant: the send ignores ctx.                                           *)
OfferUncancelable ==
  FALSE /\ UNCHANGED vars

(* ... unless ctx is done.                                                 *)
OfferCanceled ==
  /\ canceled
  /\ Reads("offer", "close", 0)
  /\ UNCHANGED <<requests, closed, at, canceled, conn, received, handled>>

Close ==
  /\ Reads("close", "wait", 0)
  /\ closed' = TRUE
  /\ UNCHANGED <<requests, at, canceled, conn, received, handled>>

(* Mutant: the socket is closed without wg.Wait.                           *)
ReturnAtOnce ==
  /\ Reads("wait", "returned", 0)
  /\ conn' = FALSE
  /\ UNCHANGED <<requests, closed, at, canceled, received, handled>>

(* wg.Wait, then the deferred conn.Close.                                  *)
Return ==
  /\ \A w \in Worker : at[w].is = "exited"
  /\ Reads("wait", "returned", 0)
  /\ conn' = FALSE
  /\ UNCHANGED <<requests, closed, at, canceled, received, handled>>

Reader == Poll \/ ReadNack \/ ReadNothing \/ Offer \/ OfferCanceled \/ Close \/ Return

-------------------------------------------------------------------------------
Take(w) ==
  /\ at[w].is = "idle" /\ requests # <<>>
  /\ at' = [at EXCEPT ![w] = [is |-> "busy", nack |-> Head(requests)]]
  /\ requests' = Tail(requests)
  /\ UNCHANGED <<rd, closed, canceled, conn, received, handled>>

Finish(w) ==
  /\ at[w].is = "busy"
  /\ handled' = handled \cup {at[w].nack}
  /\ at' = [at EXCEPT ![w] = [is |-> "idle", nack |-> 0]]
  /\ UNCHANGED <<rd, requests, closed, canceled, conn, received>>

(* Mutant: workers watch ctx only, and stop with a request in hand.        *)
ExitBusy(w) ==
  /\ at[w].is # "exited" /\ canceled
  /\ at' = [at EXCEPT ![w] = [is |-> "exited", nack |-> 0]]
  /\ UNCHANGED <<rd, requests, closed, canceled, conn, received, handled>>

(* ctx is done, or the channel is closed and drained.  With both a request *)
(* and ctx.Done ready the select may take either.                          *)
Exit(w) ==
  /\ at[w].is = "idle"
  /\ canceled \/ (closed /\ requests = <<>>)
  /\ at' = [at EXCEPT ![w] = [is |-> "exited", nack |-> 0]]
  /\ UNCHANGED <<rd, requests, closed, canceled, conn, received, handled>>

WorkerStep(w) == Take(w) \/ Finish(w) \/ Exit(w)

Cancel ==
  /\ ~canceled
  /\ canceled' = TRUE
  /\ UNCHANGED <<rd, requests, closed, at, conn, received, handled>>

Finished == rd.at = "returned" /\ UNCHANGED vars

Next == Reader \/ Cancel \/ Finished \/ \E w \in Worker : WorkerStep(w)

(* The reader's read ends within its deadline; goroutines are scheduled.   *)
Fairness == WF_vars(Reader) /\ \A w \in Worker : WF_vars(WorkerStep(w))

Spec == Init /\ [][Next]_vars /\ Fairness

-------------------------------------------------------------------------------
(* Every variable keeps its type, and the channel its capacity.            *)
TypeOK ==
  /\ rd \in [at : {"poll", "read", "offer", "close", "wait", "returned"}, nack : 0 .. MaxNacks]
  /\ requests \in Seq(1 .. MaxNacks) /\ Len(requests) <= QueueCap
  /\ closed \in BOOLEAN /\ canceled \in BOOLEAN /\ conn \in BOOLEAN
  /\ at \in [Worker -> [is : {"idle", "busy", "exited"}, nack : 0 .. MaxNacks]]
  /\ received \in 0 .. MaxNacks
  /\ handled \subseteq 1 .. MaxNacks

(* The socket outlives the handlers: Run closes it only when no worker is  *)
(* left that could be writing a response, and the channel is closed only   *)
(* when the reader has stopped sending on it.                              *)
SocketOutlivesWorkers ==
  /\ ~conn => \A w \in Worker : at[w].is = "exited"
  /\ closed => rd.at \in {"wait", "returned"}

Queued == {requests[i] : i \in 1 .. Len(requests)}
Taken == {at[w].nack : w \in {v \in Worker : at[v].is = "busy"}}
Offered == IF rd.at = "offer" THEN {rd.nack} ELSE {}

(* Until shutdown no NACK that was read is lost, and none is ever handled  *)
(* by two workers or handled again.                                        *)
NoneLost ==
  /\ ~canceled => 1 .. received = Offered \cup Queued \cup Taken \cup handled
  /\ Offered \cap (Queued \cup Taken \cup handled) = {}
  /\ Queued \cap (Taken \cup handled) = {}
  /\ Taken \cap handled = {}
  /\ \A v, w \in Worker :
       v # w /\ at[v].is = "busy" /\ at[w].is = "busy" => at[v].nack # at[w].nack

(* A NACK that was read is handled, unless the server is shut down first.  *)
ReadIsHandled == \A n \in 1 .. MaxNacks : n <= received ~> n \in handled \/ canceled

(* A worker that has taken a NACK handles it, also across shutdown.        *)
TakenIsHandled == \A n \in 1 .. MaxNacks : n \in Taken ~> n \in handled

(* After cancellation Run returns, also from a full channel.               *)
CancelReturns == canceled ~> rd.at = "returned"
===============================================================================
