------------------------------ MODULE Lifecycle -------------------------------
(***************************************************************************)
(* run of main.go: what is opened in which order, the goroutines started,  *)
(* the wait for a signal or a dead feed, draining, cancellation, the wait  *)
(* for the goroutines, the deferred closes and the exit status; with the   *)
(* readiness count of metrics/metrics.go.  A goroutine is starting, up or  *)
(* ended; how the parts work while up, and that they end once canceled, is *)
(* the subject of modules Pipeline, ServerPool, Proxy and Membership.      *)
(***************************************************************************)
EXTENDS Integers, Sequences, FiniteSets

CONSTANTS
  Ingress,   \* the ingress workers, in order
  Modes      \* the configurations a process may run with

Workers == {Ingress[i] : i \in 1 .. Len(Ingress)}
Others == {"tee", "metrics", "sampler", "server", "beacon", "proxy"}

ASSUME LifecycleAssumption ==
  /\ Ingress \in Seq(Workers) /\ Ingress # <<>>
  /\ \A i, j \in 1 .. Len(Ingress) : Ingress[i] = Ingress[j] => i = j
  /\ Workers \cap Others = {}
  /\ Modes \subseteq [join : BOOLEAN, tee : BOOLEAN, memory : BOOLEAN, redis : BOOLEAN,
                      ssm : BOOLEAN, proxy : BOOLEAN, beacon : BOOLEAN, drain : BOOLEAN]
  /\ \A m \in Modes : m.join \/ m.tee

VARIABLES
  cfg,       \* the configuration, fixed at start
  main,      \* where run is
  started,   \* how many goroutines of Order run has come to
  task,      \* each goroutine: "none", "starting", "up" or "ended"
  deferred,  \* the deferred calls of run, the last one to be run first
  closed,    \* what was closed, in order
  ready,     \* readyCount
  draining, canceled, done,
  sigCh, fatalCh,   \* whether these channels, of capacity one, hold something
  why,       \* why run returns: "no" (it has not), "error", "signal", "fatal", "killed"
  reported   \* history: the feeds whose error, while not canceled, was to be fatal

signals == <<sigCh, fatalCh, reported>>
shutdown == <<draining, canceled, done>>
vars == <<cfg, main, started, task, deferred, closed, ready, shutdown, signals, why>>

Feeds == Workers \cup {"tee"}
Task == Workers \cup Others

(* The goroutines wg.Wait waits for: all but the proxy's.                  *)
Awaited == Task \ {"proxy"}

(* The goroutines run comes to in a row, before the beacon's, and those of *)
(* them that it starts.                                                    *)
Order == <<"metrics", "sampler">> \o Ingress \o <<"tee", "server">>
Enabled(t) ==
  CASE t = "sampler" -> cfg.memory
    [] t \in Workers -> cfg.join
    [] t = "tee"     -> cfg.tee
    [] OTHER         -> TRUE

(* What a goroutine uses of what run closes.  A remote frame backend is    *)
(* the dedup store as well.                                                *)
DedupStore == IF cfg.memory THEN "dedup" ELSE "frame"
Uses(t) ==
  CASE t \in Feeds \cup {"sampler"}  -> {"frame"}
    [] t \in {"server", "proxy"}     -> {"frame", "egress", DedupStore}
    [] OTHER                         -> {}

Init ==
  /\ cfg \in Modes
  /\ main = "load" /\ started = 0
  /\ task = [t \in Task |-> "none"]
  /\ deferred = <<>> /\ closed = <<>>
  /\ ready = 0
  /\ draining = FALSE /\ canceled = FALSE /\ done = FALSE
  /\ sigCh = FALSE /\ fatalCh = FALSE /\ reported = {}
  /\ why = "no"

-------------------------------------------------------------------------------
(* Start-up: each step succeeds, or run returns its error.                 *)

Fail(from) ==
  /\ main = from
  /\ main' = "return" /\ why' = "error"
  /\ UNCHANGED <<cfg, started, task, deferred, closed, ready, shutdown, signals>>

Step(from, to) ==
  /\ main = from
  /\ main' = to
  /\ UNCHANGED <<cfg, started, closed, ready, shutdown, signals, why>>

Opens(from, to, r) == Step(from, to) /\ deferred' = Append(deferred, r) /\ UNCHANGED task

(* config.Load, metrics.New, the BEEF plane.                               *)
Load ==
  \/ Step("load", "frame") /\ UNCHANGED <<task, deferred>>
  \/ Fail("load")

OpenFrames == Opens("frame", "dedup", "frame") \/ Fail("frame")

(* Mutant: the shared backend is closed by the dedup gate as well.         *)
OpenDedupTwice ==
  \/ ~cfg.memory /\ Opens("dedup", "interfaces", "frame")
  \/ cfg.memory /\ Step("dedup", "interfaces") /\ UNCHANGED <<task, deferred>>

(* A remote frame backend is reused; with a memory backend a redis one is  *)
(* opened if there is an address, and done without if that fails.          *)
OpenDedup ==
  \/ cfg.memory /\ cfg.redis /\ Opens("dedup", "interfaces", "dedup")
  \/ Step("dedup", "interfaces") /\ UNCHANGED <<task, deferred>>

(* Groups, interfaces and the address NACKs are received at.               *)
Interfaces ==
  \/ Step("interfaces", "egress") /\ UNCHANGED <<task, deferred>>
  \/ Fail("interfaces")

OpenEgress == Opens("egress", "wire", "egress") \/ Fail("egress")

(* Server, proxy client, workers; the root context; the proxy's workers,   *)
(* which run starts outside the wait group.                                *)
Wire ==
  /\ Step("wire", "bootstrap")
  /\ deferred' = Append(deferred, "cancel")
  /\ task' = IF cfg.proxy THEN [task EXCEPT !["proxy"] = "up"] ELSE task

Bootstrap ==
  \/ Step("bootstrap", "spawn") /\ UNCHANGED <<task, deferred>>
  \/ cfg.ssm /\ Fail("bootstrap")

(* The next goroutine is started, if enabled.  The metrics server and the  *)
(* sampler have nothing to set up that could end them.                     *)
Spawn ==
  /\ main = "spawn" /\ started < Len(Order)
  /\ started' = started + 1
  /\ LET t == Order[started + 1]
     IN  task' = IF ~Enabled(t) THEN task
                 ELSE [task EXCEPT ![t] = IF t \in {"metrics", "sampler"} THEN "up" ELSE "starting"]
  /\ UNCHANGED <<cfg, main, deferred, closed, ready, shutdown, signals, why>>

(* The beacon is started if enabled.  Its address is looked up a second    *)
(* time: if that fails now, run returns with every goroutine running.      *)
SpawnBeacon ==
  /\ main = "spawn" /\ started = Len(Order)
  /\ \/ /\ Step("spawn", "select")
        /\ task' = IF cfg.beacon THEN [task EXCEPT !["beacon"] = "starting"] ELSE task
        /\ UNCHANGED deferred
     \/ cfg.beacon /\ Fail("spawn")

-------------------------------------------------------------------------------
(* SIGINT or SIGTERM: kept in sigCh from signal.Notify on; before it, the  *)
(* process dies.                                                           *)
Notified == main \notin {"load", "frame", "dedup", "interfaces", "egress", "wire", "bootstrap", "spawn"}
                /\ why # "error"

Signal ==
  /\ main # "gone"
  /\ \/ Notified /\ sigCh' = TRUE /\ UNCHANGED <<main, why>>
     \/ ~Notified /\ main' = "gone" /\ why' = "killed" /\ UNCHANGED sigCh
  /\ UNCHANGED <<cfg, started, task, deferred, closed, ready, shutdown, fatalCh, reported>>

(* Mutant: ctx is canceled before the drain.                               *)
LeaveCanceling(reason) ==
  /\ main = "select"
  /\ why' = reason
  /\ draining' = cfg.drain /\ canceled' = TRUE
  /\ main' = IF cfg.drain THEN "drain" ELSE "cancel"
  /\ UNCHANGED <<cfg, started, task, deferred, closed, ready, done, reported>>

(* The select, with either channel when both are ready; then draining,     *)
(* where a drain timeout is set.                                           *)
Leave(reason) ==
  /\ main = "select"
  /\ why' = reason
  /\ draining' = cfg.drain
  /\ main' = IF cfg.drain THEN "drain" ELSE "cancel"
  /\ UNCHANGED <<cfg, started, task, deferred, closed, ready, canceled, done, reported>>

TakeSignal == sigCh /\ Leave("signal") /\ sigCh' = FALSE /\ UNCHANGED fatalCh
TakeFatal == fatalCh /\ Leave("fatal") /\ fatalCh' = FALSE /\ UNCHANGED sigCh

(* The sleep of DrainTimeout ends.                                         *)
Drained ==
  /\ main = "drain" /\ main' = "cancel"
  /\ UNCHANGED <<cfg, started, task, deferred, closed, ready, shutdown, signals, why>>

(* Mutant: done is not closed.                                             *)
CancelOnly ==
  /\ main = "cancel" /\ main' = "wait"
  /\ canceled' = TRUE
  /\ UNCHANGED <<cfg, started, task, deferred, closed, ready, draining, done, signals, why>>

(* cancel(); close(done)                                                   *)
Cancel ==
  /\ main = "cancel" /\ main' = "wait"
  /\ canceled' = TRUE /\ done' = TRUE
  /\ UNCHANGED <<cfg, started, task, deferred, closed, ready, draining, signals, why>>

(* Mutant: no wg.Wait.                                                     *)
NoWait ==
  /\ main = "wait" /\ main' = "return"
  /\ UNCHANGED <<cfg, started, task, deferred, closed, ready, shutdown, signals, why>>

(* wg.Wait, and the exporters' last flush, which has a deadline.           *)
Wait ==
  /\ main = "wait" /\ \A t \in Awaited : task[t] \in {"none", "ended"}
  /\ main' = "return"
  /\ UNCHANGED <<cfg, started, task, deferred, closed, ready, shutdown, signals, why>>

(* The deferred calls, the last first, and then the exit.                  *)
Unwind ==
  /\ main = "return" /\ deferred # <<>>
  /\ LET d == deferred[Len(deferred)]
     IN  /\ canceled' = (canceled \/ d = "cancel")
         /\ closed' = IF d = "cancel" THEN closed ELSE Append(closed, d)
  /\ deferred' = SubSeq(deferred, 1, Len(deferred) - 1)
  /\ UNCHANGED <<cfg, main, started, task, ready, draining, done, signals, why>>

Exit ==
  /\ main = "return" /\ deferred = <<>> /\ main' = "gone"
  /\ UNCHANGED <<cfg, started, task, deferred, closed, ready, shutdown, signals, why>>

Main ==
  \/ Load \/ OpenFrames \/ OpenDedup \/ Interfaces \/ OpenEgress \/ Wire \/ Bootstrap
  \/ Spawn \/ SpawnBeacon \/ TakeSignal \/ TakeFatal \/ Drained \/ Cancel \/ Wait
  \/ Unwind \/ Exit

(* The status the supervisor sees.                                         *)
Status == IF why = "signal" THEN 0 ELSE 1

-------------------------------------------------------------------------------
(* The goroutines.                                                         *)

Moves(t, from, to) ==
  /\ main # "gone"
  /\ task[t] = from /\ task' = [task EXCEPT ![t] = to]
  /\ UNCHANGED <<cfg, main, started, deferred, closed, shutdown, sigCh, why>>

(* Feeds and the NACK server raise one counter.                            *)
WorkerReady == ready' = ready + 1
WorkerDone == ready' = ready - 1

(* Run or RunTee has its socket and its memberships: WorkerReady.          *)
FeedUp(t) == Moves(t, "starting", "up") /\ WorkerReady /\ UNCHANGED <<fatalCh, reported>>

(* Mutant: fatalCh has no room, so the send needs run to be at its select. *)
FeedFailsUnbuffered(t) ==
  /\ Moves(t, "starting", "ended")
  /\ reported' = IF canceled THEN reported ELSE reported \cup {t}
  /\ fatalCh' = (fatalCh \/ (~canceled /\ main = "select"))
  /\ UNCHANGED ready

(* Its socket or a first join fails.  Unless canceled this is fatal: the   *)
(* error is sent if fatalCh has room, and let go if another is there.      *)
FeedFails(t) ==
  /\ Moves(t, "starting", "ended")
  /\ reported' = IF canceled THEN reported ELSE reported \cup {t}
  /\ fatalCh' = (fatalCh \/ ~canceled)
  /\ UNCHANGED ready

(* Mutant: WorkerDone is not called.                                       *)
FeedEndsUncounted(t) == Moves(t, "up", "ended") /\ UNCHANGED <<ready, fatalCh, reported>>

(* receive returns, after cancellation or because the socket is no more    *)
(* (EBADF, EINVAL).  Either way Run returns nil, which is not fatal.       *)
FeedEnds(t) == Moves(t, "up", "ended") /\ WorkerDone /\ UNCHANGED <<fatalCh, reported>>

Feed(t) == FeedUp(t) \/ FeedFails(t) \/ FeedEnds(t)

(* The NACK server counts as ready too; that it cannot listen is logged.   *)
ServerUp == Moves("server", "starting", "up") /\ WorkerReady /\ UNCHANGED <<fatalCh, reported>>
ServerFails == Moves("server", "starting", "ended") /\ UNCHANGED <<ready, fatalCh, reported>>
ServerEnds ==
  canceled /\ Moves("server", "up", "ended") /\ WorkerDone /\ UNCHANGED <<fatalCh, reported>>

(* The beacon's Run returns at once where no group can be dialed.          *)
BeaconUp == Moves("beacon", "starting", "up") /\ UNCHANGED <<ready, fatalCh, reported>>
BeaconGivesUp == Moves("beacon", "starting", "ended") /\ UNCHANGED <<ready, fatalCh, reported>>

(* What only waits for the context, and Serve, which waits for done.       *)
Ends(t) ==
  /\ IF t = "metrics" THEN done ELSE canceled
  /\ Moves(t, "up", "ended")
  /\ UNCHANGED <<ready, fatalCh, reported>>

Waiting == {"metrics", "sampler", "beacon", "proxy"}

Next ==
  \/ Main
  \/ Signal
  \/ \E t \in Feeds : Feed(t)
  \/ ServerUp \/ ServerFails \/ ServerEnds
  \/ BeaconUp \/ BeaconGivesUp
  \/ \E t \in Waiting : Ends(t)
  \/ main = "gone" /\ UNCHANGED vars

(* run proceeds where it does not wait; a goroutine gets through its       *)
(* set-up, and ends once its context is canceled (CancelReturns of         *)
(* Pipeline and of ServerPool; JobEnds of Proxy).  Signals and failures    *)
(* need not happen.                                                        *)
Fairness ==
  /\ WF_vars(Main)
  /\ \A t \in Feeds : WF_vars(FeedUp(t) \/ FeedFails(t)) /\ WF_vars(canceled /\ FeedEnds(t))
  /\ WF_vars(ServerUp \/ ServerFails) /\ WF_vars(ServerEnds)
  /\ WF_vars(BeaconUp \/ BeaconGivesUp)
  /\ \A t \in Waiting : WF_vars(Ends(t))

Spec == Init /\ [][Next]_vars /\ Fairness

-------------------------------------------------------------------------------
(* GET /readyz: 200 or 503.                                                *)
Readyz == IF ~draining /\ ready >= Len(Ingress) /\ Len(Ingress) > 0 THEN 200 ELSE 503

Running(t) == task[t] \in {"starting", "up"}
Closed == {closed[i] : i \in 1 .. Len(closed)}
Opened == Closed \cup {deferred[i] : i \in 1 .. Len(deferred)}

(* Every variable keeps its type; the ready count is of the feeds and the  *)
(* server that are up, so never negative.                                  *)
TypeOK ==
  /\ cfg \in Modes
  /\ main \in {"load", "frame", "dedup", "interfaces", "egress", "wire", "bootstrap", "spawn",
               "select", "drain", "cancel", "wait", "return", "gone"}
  /\ started \in 0 .. Len(Ingress) + 4
  /\ task \in [Task -> {"none", "starting", "up", "ended"}]
  /\ deferred \in Seq({"frame", "dedup", "egress", "cancel"})
  /\ closed \in Seq({"frame", "dedup", "egress"})
  /\ ready = Cardinality({t \in Feeds \cup {"server"} : task[t] = "up"})
  /\ {draining, canceled, done, sigCh, fatalCh} \subseteq BOOLEAN
  /\ why \in {"no", "error", "signal", "fatal", "killed"}
  /\ reported \subseteq Feeds

(* Shutdown closes a cache backend or the egress sockets once, and only    *)
(* when no goroutine run waits for can use them any more; a process that   *)
(* returns leaves nothing it opened open.  The exception is a run that     *)
(* gives up while starting, which exits without waiting; and the proxy's   *)
(* workers, which run never waits for.                                     *)
ClosedAfterUse ==
  /\ \A i, j \in 1 .. Len(closed) : closed[i] = closed[j] => i = j
  /\ why \in {"no", "signal", "fatal"} => \A t \in Awaited : Running(t) => Uses(t) \cap Closed = {}
  /\ main = "gone" /\ why # "killed" => deferred = <<>>

(* While draining "the ingress and NACK workers continue serving": nothing *)
(* tells them to stop and nothing they use is closed, though /readyz says  *)
(* 503 whatever they count, up to the end of the process.                  *)
DrainServes ==
  /\ main = "drain" => ~canceled /\ ~done /\ closed = <<>>
  /\ draining => Readyz = 503
  /\ main = "wait" /\ cfg.drain => draining

(* "An ingress or tee worker that dies takes the same path without waiting *)
(* for a signal, and the process exits with status 1": an error of a feed  *)
(* that comes at any moment of start-up or service ends the process with   *)
(* status 1, unless a signal was first.                                    *)
FeedDeathExits ==
  reported # {} ~> \/ main = "gone" /\ Status = 1
                   \/ why \in {"signal", "killed"}

(* Once run has a reason to return the process exits, although the metrics *)
(* server waits for run, and run for every goroutine.                      *)
ReturnExits == why # "no" ~> main = "gone"

(* "the ingress worker count readiness waits for": while /readyz says 200, *)
(* every ingress worker has joined its groups.                             *)
ReadyMeansIngress ==
  task["metrics"] = "up" /\ Readyz = 200 /\ cfg.join => \A t \in Workers : task[t] = "up"
===============================================================================
