# Verification of the retry endpoint

TLA+ models of the retry endpoint, checked with TLC on small instances; what
they check of safety is also proved with TLAPS for every instance. Each
definition is a translation of the Go code that `PROJECT.json` ("map") names.

## The system

A retry endpoint caches the frames of a multicast fabric and repairs the gaps of
listeners. Its parts, and how they meet:

| Part | State | Operations | Meets |
|---|---|---|---|
| receive pipeline (`ingress/pipeline.go`) | slots, free list, batch, a queue per processor | receive, handle, shutdown | one per socket; stores into the cache |
| frame classes (`ingress/ingress.go`) | none | `process*Frame`: decode, drop if unstamped, store with the TTL of the class | cache |
| cache and dedup store (`cache/cache.go`) | entries with TTLs; SETNX claims | Store, Retrieve, SetNX | shared by endpoints when remote |
| NACK server (`server/server.go`) | request channel, workers | Run, processNACK | limiter, cache, retransmit, proxy |
| rate limiter (`ratelimit/ratelimit.go`) | sliding windows (sequence, chain), token buckets (IP, group) | Allow, AllowChain, AllowGroup | NACK workers |
| retransmit (`retransmit/retransmit.go`) | egress sockets | Retransmit (claim, then write), RetransmitUnicast, targetGroup | dedup store |
| cross-domain proxy (`proxy/proxy.go`) | job queue, workers | Enqueue, recover, fetch, store | dedup store, cache, retransmit |
| settings (`config/`, `main.go`) | none | Load, buildGroups, Partition, source lists, beacon prefixes | membership, beacon |
| membership (`ingress/ingress.go`) | sockets, kernel group memberships | Run, joinAll, reassertJoins | settings, sockets |
| lifecycle and readiness (`main.go`, `metrics/metrics.go`) | contexts, goroutines, deferred calls, ready count, draining flag | start, fatal error, drain, shutdown, exit | everything |
| beacon (`beacon/beacon.go`) | none after start | send an ADVERT to each group, periodically | settings |
| metrics | counters nothing reads | | |

What is hard here: the receiver and the processors exchange buffers while the
process shuts down; NACK workers at several endpoints race for the claim on a
frame that is written only afterwards and may fail, and endpoints crash holding
one; the limiter forgets on purpose, lazily; recoveries race with ingress and
with each other; start-up can fail at any step, with some goroutines running and
some resources open; the kernel loses memberships while sockets are closed and
their numbers reused.

What correctness means: no buffer is shared and no datagram lost in one; an
ACK is never a lie; a claim serialises senders; the limiter bounds the rate and
its own memory without changing a decision; what is accepted ends; every group
is joined by one worker and stays joined; shutdown terminates and closes nothing
that is in use. `PROJECT.json` ("hazards") lists
the places where each of these could go wrong, by line.

## Modules

| Module | Models | Actions |
|---|---|---|
| `Pipeline` | `Worker.receive` and its processors | one per select case or statement that touches a channel: Poll, ReadBatch, Send, QueueFull, DropFull, Refill, CloseQueues, Take, Handle, GiveBack, ... |
| `FrameCache` | the seven `process*Frame` handlers, `Client.store` and `ttlFor`, `targetGroup` | one per handler, Recache, Retransmit, Tick |
| `Nack` | `processNACK`, `Limiter.Allow*`, `Retransmit`, `RetransmitUnicast`, at several endpoints | one per tier, lookup outcome, claim outcome, send outcome, response; Crash |
| `ServerPool` | `Server.Run` | reader and worker steps, cancellation |
| `Proxy` | `Client.Enqueue`, `Start`, `recover`, `fetch` at sibling endpoints | one per claim outcome, upstream outcome and delivery |
| `Settings` | what `config.Load` accepts; `buildGroups`, `Partition`, source lists, `BeaconGroupPrefixes` | none: operators on a record of settings |
| `Membership` | `buildSSMGroupSources`, then `Run`'s socket, `joinAll`, `reassertJoins` and close, for the workers `Settings` gives | Load, Bootstrap, OpenSocket, JoinFirst, JoinFirstFails, Up, Tick, Rejoin, CloseSocket, ...; the kernel's Lose, Refuse, Relent |
| `Lifecycle` | `run` of `main.go`, readiness and `Serve` of `metrics/metrics.go` | one per start-up step and its failure, Spawn, Signal, TakeSignal, TakeFatal, Cancel, Wait, Unwind, Exit, and one per thing a goroutine can do |
| `SlidingWindow` | `slidingWindowLimiter`, `eventLog` | AllowKnown, AllowNew, AllowNewSweeping (a call is one step: it holds the mutex), Tick |
| `WindowSpec` | what that limiter promises: whole history, no eviction | Admit, Deny, Tick |
| `SlidingWindowProofs`, `ServerPoolProofs`, `NackProofs`, `PipelineProofs`, `ProxyProofs`, `LifecycleProofs`, `FrameCacheProofs`, `MembershipProofs` | lemmas and theorems about the module of that name | |

The `MC*` modules give constants their values. Definitions whose comment begins
with "Mutant" are the same operation with a plausible mistake; no specification
uses them. They exist to show that a property notices the mistake.

Abstractions. A frame is its cache key and class, never bytes. `Nack` counts the
sequence tier's admissions and lets the other tiers refuse at any time; that the
sequence tier decides by such a count is what `SlidingWindow` implementing
`WindowSpec` shows. Store errors are modelled as they can happen: SETNX may fail
with or without having made the claim. A write of a frame to several interfaces
may stop after any of them. `fetch` has two outcomes, since its deadline bounds
it. An upstream is taken to return what its own ingress would have cached, a
frame that decodes and is stamped (`UpstreamHolds`): `Client.store` itself
checks only a length, so destinations of recovered frames rest on this. The
counters of `metrics` are left out: `Pipeline` does not tell a datagram passed
over and counted (truncated, or its queue full) from one passed over in silence
(empty). A crash ends an endpoint's handlers and empties its limiters; its cache
is lost or not, as the backend is memory or a store; claims stay. `Lifecycle`
takes each goroutine as starting, up or ended, and what `Pipeline`, `ServerPool`
and `Proxy` show (they end once canceled) as the fairness of its steps. In
`Membership` a socket is a number, the lowest free one, so that a close and a
late re-join meet as they do in the kernel; `netjoin.Join` and the resolver are
libraries, taken by what the code relies on. History variables (marked in each
module) record what was done, for the properties only.

## Runs

| Run | Bounds | Shows |
|---|---|---|
| `sliding_window` | 3 keys, limit 3, window 2, sweep at 2 keys, 7 calls | rate bound, log and map bounds, what a new key sheds, and refinement of `WindowSpec` |
| `pipeline` | 2 processors with queues of 1, batch of 2 (6 slots, 4 of them free at first), 5 datagrams of 2 keys, one of which may also be short, truncated or empty | slot conservation, the refill never blocks, order per key, accounting up to a drained return; queued datagrams are handled, `receive` returns after cancellation |
| `server_pool` | 2 workers, channel of 2, 5 NACKs | nothing lost, socket outlives workers, `Run` returns |
| `nack` | 2 endpoints (2 workers and 1), one key, 2 NACKs, sequence limit 1, two fleets (the default; both modes without dedup beside a mute endpoint), any number of crashes; workers of one pool and interfaces are symmetric | honest ACKs, refusals hold no claim, nothing is proxied twice, one multicast per claim |
| `frame_cache` | one key holding any class of frame, different TTLs per class | destination and TTL of every class, and that no entry has more than the longest TTL to go |
| `proxy` | 2 endpoints, 2 requesters, queue of 1, 2 upstreams, 2 jobs, three configurations | a deduplicated recovery is covered by another, every accepted job ends |
| `membership` | bands of 1 bit (2 shards, 2 BEEF groups), 2 sources, 1 static publisher; 2 workers of 2 groups that join, any-source and source-specific; 1 loss, 1 refusal; every relevant combination of settings on nodes that join nothing | each group is one worker's, a ready worker is a member of all its groups, joins stay on the worker's own socket, a lost membership is joined again, what each step of the beacon rollout reaches |
| `lifecycle` | 2 ingress workers; a multicast node, one with every part, a tee-only one; signals at any time, every start-up step and goroutine may fail | nothing closed in use or twice, draining serves, a dead feed ends the process with status 1, the process exits |

Why these bounds are enough to be interesting: in `pipeline` two frames for each
processor, one in hand and one queued, take all four free slots, so that one slot
fewer would block the refill, and the fifth finds a full queue or refills with a
slot that has been given back; two NACKs at three workers
give every interleaving of two handlers at one endpoint and at two, with the
claim expiring between any two steps; three keys over a sweep threshold of two
make the map both exceed it and be swept by size and by age. In `membership` the
band widths, 12 bits in the code, are 1, with settings one below and one above
the range, so that the bands still touch and the limits are still crossed; two
workers are enough for one to use or free another's socket number, one refused
group for it to stand in the way of a lost one. In `lifecycle` the two workers
and the NACK server are enough for the ready count to be reached by others than
those it is compared with.

Deadlock is checked in `pipeline`, `server_pool` and `lifecycle`, whose only end
is a process that has returned. The other runs stop where a bound (clock, calls,
NACKs) is reached, where every worker has left after cancellation (`proxy`,
`membership`), or on settings that are refused (`membership`).

Fairness. `Pipeline`: the receiver, the processors and the goroutine that closes
the socket are goroutines, which the Go scheduler runs; a read ends within
SO_RCVTIMEO (200 ms) and the wait for a full queue within queueFullWait.
`ServerPool`: the reader's read has a 100 ms deadline. `Proxy`: a fetch has a
deadline. `Membership`: workers are goroutines, and the ticker of `reassertJoins`
ticks; a loss, a refusal and its end are not assumed. `Lifecycle`: `run` proceeds
where it does not wait, a goroutine gets through its set-up (each call succeeds
or fails), and ends once canceled, which the runs above show of its parts.
Nothing is assumed of arrivals, signals, cancellation or expiry, and `Nack`,
`FrameCache` and `SlidingWindow` assume no fairness.

### Where comments and code disagree

Four runs check a sentence of the repository that the code does not keep, and
TLC shows how:

* `nack_proxied`: a proxied NACK "is always served a unicast copy", but a failed
  multicast returns before the unicast step (`server/server.go:422`).
* `frame_recache`: the re-cache TTL is said to mirror the ingress worker, but
  fragments get the transaction TTL (`proxy/proxy.go:355`).
* `readiness`: the number `/readyz` compares with is "the ingress worker count
  readiness waits for", but the tee and the NACK server raise the same counter,
  so it can answer 200 before every ingress worker has joined
  (`metrics/metrics.go:480`).
* `own_source`: a node "must never join its own source", but a source list that
  resolves to the own address alone is empty after the exclusion, and an empty
  list is joined for any source (`main.go:98`).

Met while modelling, and not stated as runs:

* A sequence-tier THROTTLED is said to mean that a retransmit "was just served",
  but NACKs that missed count as well (`server/server.go:306`).
* Suppression is said to mean "Another instance already retransmitted this
  frame", but the claim precedes the send, survives its failure, and a store
  error suppresses too (`retransmit/retransmit.go:229`).
* Every write of a key, duplicates of the tee feed included, is said to be "made
  by one goroutine in arrival order", but each feed has its own processors
  (`ingress/pipeline.go:23`). Harmless as long as both copies are the same bytes.
* `receive` ending because its socket is no more returns nil, so the feed's end
  is not fatal; that the NACK server cannot listen is only logged. The process
  goes on without them.
* A tee-only node with three or more partitions never becomes ready: the
  tee and the NACK server are all that count.
* The second look-up of the beacon's address comes after the goroutines were
  started; if it fails, `run` closes what they use without waiting for them.
  `ClosedAfterUse` excepts this case. The proxy's workers are never waited for.
* After cancellation a last re-join may act on another worker's socket that has
  the number by then. `OwnSocket` is stated until cancellation; the process is
  about to exit.

## Proofs

Every safety property of the passing runs is a theorem, for every value of the
constants that its module assumes. Each proof has the same
shape: an invariant `IInv` that TLC was first seen to accept on the instance of
the run, `InitOK`, a lemma per action (or per kind of action), `StepOK`,
`Invariance` (`Spec => []IInv`), and one theorem per property that follows.

| Module | For every | Proved |
|---|---|---|
| `SlidingWindowProofs` | finite set of keys, limit, window, sweep threshold (`LimiterAssumption`) | `TypeCorrect`, `RateBounded`, `LogsCompact`, `MapIsBounded`, `NewKeyShedsIdle` (an action property), `Implements` (refinement of `WindowSpec`) |
| `ServerPoolProofs` | pool, channel capacity of at least one, number of NACKs (`PoolAssumption`) | `TypeCorrect`, `SocketIsLast`, `NoNackLost` |
| `NackProofs` | number of endpoints, workers, keys, NACKs, mix of configurations, at least one interface, which `config.Load` insists on (`NackAssumption`) | `TypeCorrect`, `AcksAreHonest`, `RefusalsAreClean`, `ClaimsAreExclusive` |
| `PipelineProofs` | number of processors, queue capacity, batch size, sharding of keys, number of datagrams (`PipelineAssumption`) | `TypesKept`, `SlotsInOnePlace`, `RefillNeverBlocks`, `KeysInOrder`, `EveryArrivalAccounted` |
| `ProxyProofs` | fleet of endpoints and workers, mix of modes, queue depth, number of upstreams and jobs (`ProxyAssumption`) | `BoundsKept`, `GivenUpIsCovered` |
| `LifecycleProofs` | number of ingress workers, set of configurations with a feed (`LifecycleAssumption`) | `ReadyCounted`, `ClosesAfterUse`, `DrainKeepsServing` |
| `FrameCacheProofs` | set of keys, TTL of each class, length of the clock (`FrameCacheAssumption`) | `EntriesEnd`, `RetransmitsWherePublished`, `WholeFramesKept` |
| `MembershipProofs` | width of the bands, set of sources, set of settings `Load` may be given, number of workers and groups, number of lost memberships and refused joins (`SettingsAssumption`, `MembershipAssumption`) | `Types`, `GroupsDealtOnce`, `BeaconRollout`, `JoinsOnOwnSocket`, `ReadyIsMember` |

The bounds on arrivals, NACKs, jobs, calls and the clock are constants too, so
the theorems hold of any number of them.

**Sliding window.** The invariant ties the machine to the history of admissions:
the log of a key in the map is the end of its history, in order, and everything
before its head is outside the window; a key that is not in the map has nothing
inside the window (so starting it from an empty log, or having evicted it,
forgets nothing that counts); the history itself is spaced at the allowed rate;
logs hold fewer than two windows of events; every key in the map was admitted
after the last sweep's cutoff; and the map is no larger than the sweep trigger,
itself bounded by the keys live at that sweep. The facts about logs are
`ExpireOK` (expiry and compaction keep a log of the same history), `SpacedGrown`
(an admission into a log with room keeps the rate) and `LiveCount` (the live
events of a log are those the abstract limiter counts), the last being why a
decision is an `Admit` or a `Deny`.

**NACK server.** `NoneLost` says where NACKs are as sets, which forgets how often
a request is in the channel; the invariant adds that the channel has no
duplicates and that nothing is anywhere that was not read. `Appended` and
`Taking` say what a send and a receive do to the set of a channel's requests.

**NACK handling.** The properties speak of NACKs that were answered, so the
invariant has to speak of those in hand: `Progress` says for each place in
`processNACK` what was done by then (nothing before the claim; a claim before a
send, where dedup is on; flags that tell the truth afterwards), no two workers
have the same NACK, each was sent to its worker's endpoint (`Addressed`, by which
a bare ACK is known to be from an endpoint that sends nothing), and `Ledger` keeps the claims: a grant is held by one NACK,
none is held that was not made, and with dedup everywhere nothing is multicast
without one. A handler's step touches one worker and one NACK. `Combine` uses
that once: a step that gets its own NACK right keeps the whole invariant.

**Receive pipeline.** `Apart` is `OnePlace` with the queues told apart one by one.
`Where` says what the loop knows in the middle of a batch: the entries it has not
come to hold the last arrivals, in order. `Lines` is what makes `KeyOrder`
inductive: datagrams wait at the processor of their key, in arrival order, and
behind every one of that key that was handled. `Ledger` balances arrivals up to
the entry the loop is at. `RefillReady` then is a matter of counting: the free
list has no duplicates, the batch, the queues and the processors hold at most
one slot fewer than there are while an entry is to be refilled, so the free list
is not empty (`PipelineProofs`, with the cardinality theorems of the library).

**Proxy.** A job is in one place (`Places`): in its endpoint's queue once, with one
worker, or done. A claim in the store was made by a job past the gate (`Held`),
so the job that a later one is given up to is not that one itself, and claims of
equal form ask for the same gap and, if unicast, the same requester (`Covered`,
`ClaimForms`). `Sent` says what has been retransmitted for a job by where its
worker is; so a recovered job has done all that its endpoint's modes call for.

**Lifecycle.** `Early` says that before `run` comes to return nothing is closed, before
it cancels nothing is told to end, and that a goroutine it has not come to was
not started; `Deferral` that the deferred closes are of different things, none of
them closed; `Late` that once `wg.Wait` has returned no goroutine it waited for
runs. The ready count is in the type invariant, as the number of goroutines that
are up and count themselves, and `Counts` moves it with each of them.

**Frame cache.** What makes `targetGroup` right is not in it: a fragment that did
not decode would be sent where its TxID field says. The invariant adds that only
what decodes is stored (`StoredDecodes`; of recovered frames by the assumption on
upstreams), and that what was taken from the wire
was so before now, which is why a re-cache of a whole frame never shortens its
life.

**Membership.** Two facts are about the operators alone. `PartitionOK`: dealt round
robin to `m` workers, position `x` of the list is the `j`th of worker `w` for
exactly one `j` and `w` (`x = (j - 1) * m + w`; `DealtTo`, `DealtOnce`), and worker
`w` gets the `j` with `j <= (n + m - w) \div m` (`HandSize`), so shares are
disjoint, none is empty, and together they are the list. `GroupsBuilt`: the bands
and the control groups `buildGroups` concatenates have no index in common
(`BandsFit`), so the list has no duplicates. Together, `PartsOK`: accepted
settings are dealt. `WireOK` does the same for the beacon: what each
`control-group-compat` sends at each scope, and from that the rollout. The
invariant then speaks of the running node. `Sockets`: a worker that is joining or
up has a number whose owner it is, and every number that is taken is that of such
a worker, which is what makes `OwnSocket` inductive while numbers are reused;
a worker's socket is closed under it only once ctx is done. `Within` and
`Covered`: memberships are of a worker's own groups and within what is wanted,
and those of groups it has come past are all that is wanted unless something was
lost; `UpIsMember` is the second at the end of the share. `Shaped` and `Idle` say
what holds before a worker has begun and before `run` has. That an open finds a
free number is counting again (`FreeNumber`): there is one more than there are
workers.

`SettingsAssumption` has one conjunct that is arithmetic, not a choice:
`2 ^ b` is between 1 and `BeefBase` for every `b` up to `MaxBits`. The provers
have no facts about `^`; TLC evaluates it for the widths of the runs.

Only model-checked:

* All liveness (`QueuedIsHandled`, `CancelReturns`, `ReadIsHandled`,
  `TakenIsHandled`, `JobEnds`, `LostIsRejoined`, `FeedDeathExits`,
  `ReturnExits`): it needs ENABLED and fairness, out of the prover's reach.
* The four runs that show a disagreement: a counterexample is a behaviour of an
  instance, and nothing is left to prove.

## Not modelled

The resolver's periodic refresh (it never reaches a join) and its DNS; the
beacon's datagram, which is constant after start; parsing of flags and
environment, and settings whose value no behaviour here depends on (they are in
range or not); counters, which nothing reads; socket options; the token bucket (a
library) beyond that it may refuse; frame decoding and wire layouts.

## Plan

A composition of `Nack` and `Proxy`: a missed gap with a live upstream is
eventually in the downstream cache, and one proxy hop bounds the chain.
