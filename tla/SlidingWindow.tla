---------------------------- MODULE SlidingWindow -----------------------------
(***************************************************************************)
(* slidingWindowLimiter of ratelimit/ratelimit.go: the limiter behind the  *)
(* sequence and the chain tier.  Each key has a log of admission times of  *)
(* which a prefix may already be expired; logs are compacted when half of  *)
(* them is expired, and keys whose whole window has aged out are swept     *)
(* from the map when a new key arrives.  A call of Allow holds the mutex   *)
(* from the clock read to the answer, so a call is one step.  Capacities   *)
(* of slices and map buckets are not modelled, except peak, which decides  *)
(* when the map is rebuilt.                                                *)
(***************************************************************************)
EXTENDS Integers, Sequences, FiniteSets

CONSTANTS
  Key,      \* keys: (HashKey, SeqNum) or (srcIP, HashKey)
  Max,      \* admissions allowed per key in a window
  Window,   \* length of the window, in clock ticks
  MaxKeys,  \* map size at which aged-out keys are first swept
  MaxTime,  \* bound on the clock
  MaxCalls  \* bound on the calls of Allow

ASSUME LimiterAssumption ==
  /\ Max \in Nat
  /\ Window \in Nat \ {0}
  /\ MaxKeys \in Nat \ {0}
  /\ MaxTime \in Nat
  /\ MaxCalls \in Nat
  /\ IsFiniteSet(Key)

VARIABLES
  now,        \* monoNow
  keys,       \* the map: key -> event log
  sweepAt,    \* map size that triggers the next sweep
  lastSweep,  \* time of the last sweep
  peak,       \* largest map since it was last rebuilt
  hist,       \* history: every admission ever made, per key
  answer      \* history: the last call's answer

vars == <<now, keys, sweepAt, lastSweep, peak, hist, answer>>

Larger(a, b) == IF a >= b THEN a ELSE b

-------------------------------------------------------------------------------
(* Event logs.  ts[1..head] have expired.                                  *)

EventLog == [ts : Seq(Nat), head : Nat]

EmptyLog == [ts |-> <<>>, head |-> 0]

Idle(l, cutoff) == l.ts = <<>> \/ l.ts[Len(l.ts)] <= cutoff

(* The head after it has stepped past the events at or before cutoff.      *)
SteppedHead(l, cutoff) ==
  CHOOSE h \in l.head .. Len(l.ts) - 1 :
    /\ l.ts[h + 1] > cutoff
    /\ \A i \in l.head + 1 .. h : l.ts[i] <= cutoff

(* Mutant: the live events never move to the front.                        *)
ExpireLazily(l, cutoff) ==
  IF l.ts = <<>> THEN l
  ELSE IF Idle(l, cutoff) THEN EmptyLog
  ELSE [ts |-> l.ts, head |-> SteppedHead(l, cutoff)]

Expire(l, cutoff) ==
  LET h == SteppedHead(l, cutoff)
  IN  IF l.ts = <<>> THEN l
      ELSE IF Idle(l, cutoff) THEN EmptyLog
      ELSE IF 2 * h < Len(l.ts) THEN [ts |-> l.ts, head |-> h]
      ELSE [ts |-> SubSeq(l.ts, h + 1, Len(l.ts)), head |-> 0]

(* Mutant: one event too many.                                             *)
AdmitsOneMore(l) == Len(l.ts) - l.head <= Max

Admits(l) == Len(l.ts) - l.head < Max

(* Mutant: the cutoff is recorded for the event's time.                    *)
RecordCutoff(l) == IF Admits(l) THEN [ts |-> Append(l.ts, now - Window), head |-> l.head] ELSE l

Record(l) == IF Admits(l) THEN [ts |-> Append(l.ts, now), head |-> l.head] ELSE l

-------------------------------------------------------------------------------
Init ==
  /\ now = 0
  /\ keys = [k \in {} |-> EmptyLog]
  /\ sweepAt = MaxKeys
  /\ lastSweep = 0
  /\ peak = 0
  /\ hist = [k \in Key |-> <<>>]
  /\ \E k \in Key : answer = [key |-> k, ok |-> TRUE, nth |-> 0]

(* eventLog.allow on k's log l, in a map that otherwise keeps `kept`.      *)
Decide(k, l, kept) ==
  LET log == Expire(l, now - Window)
  IN  /\ keys' = [j \in kept \cup {k} |-> IF j = k THEN Record(log) ELSE keys[j]]
      /\ hist' = [hist EXCEPT ![k] = IF Admits(log) THEN Append(@, now) ELSE @]
      /\ answer' = [key |-> k, ok |-> Admits(log), nth |-> answer.nth + 1]

(* Mutants: one of the two triggers alone.                                 *)
SweepByAge == now - lastSweep >= Window

SweepBySize == Cardinality(DOMAIN keys) >= sweepAt

SweepDue == Cardinality(DOMAIN keys) >= sweepAt \/ now - lastSweep >= Window

(* Mutant: the sweep's cutoff is a tick late.                              *)
UnexpiredOne == {j \in DOMAIN keys : ~Idle(keys[j], now - Window + 1)}

(* Keys that survive a sweep.                                              *)
Unexpired == {j \in DOMAIN keys : ~Idle(keys[j], now - Window)}

AllowKnown(k) ==
  /\ k \in DOMAIN keys
  /\ Decide(k, keys[k], DOMAIN keys)
  /\ UNCHANGED <<now, sweepAt, lastSweep, peak>>

AllowNew(k) ==
  /\ k \notin DOMAIN keys
  /\ ~SweepDue
  /\ Decide(k, EmptyLog, DOMAIN keys)
  /\ peak' = Larger(peak, Cardinality(DOMAIN keys) + 1)
  /\ UNCHANGED <<now, sweepAt, lastSweep>>

(* A new key that first sweeps (evictExpiredLocked), then is inserted.     *)
AllowNewSweeping(k) ==
  LET n == Cardinality(Unexpired)
  IN  /\ k \notin DOMAIN keys
      /\ SweepDue
      /\ Decide(k, EmptyLog, Unexpired)
      /\ peak' = Larger(IF 4 * n < peak THEN n ELSE peak, n + 1)
      /\ sweepAt' = Larger(MaxKeys, 2 * n)
      /\ lastSweep' = now
      /\ UNCHANGED now

Allow(k) ==
  /\ answer.nth < MaxCalls
  /\ AllowKnown(k) \/ AllowNew(k) \/ AllowNewSweeping(k)

Tick ==
  /\ now < MaxTime
  /\ now' = now + 1
  /\ UNCHANGED <<keys, sweepAt, lastSweep, peak, hist, answer>>

Next == Tick \/ \E k \in Key : Allow(k)

Spec == Init /\ [][Next]_vars

-------------------------------------------------------------------------------
(* Properties *)

(* Every variable keeps its type; the map holds only well-formed logs.     *)
TypeOK ==
  /\ now \in Nat
  /\ DOMAIN keys \in SUBSET Key
  /\ \A k \in DOMAIN keys : keys[k] \in EventLog
  /\ sweepAt \in Nat
  /\ lastSweep \in Nat
  /\ peak \in Nat
  /\ hist \in [Key -> Seq(Nat)]
  /\ answer \in [key : Key, ok : BOOLEAN, nth : Nat]

(* slidingWindowLimiter "admits at most max events per key in any window": *)
(* an admission and the Max-th one after it are at least a window apart.   *)
RateBound ==
  \A k \in Key : \A i \in DOMAIN hist[k] :
    i + Max \in DOMAIN hist[k] => hist[k][i + Max] - hist[k][i] >= Window

(* expire compacts: a log never holds twice the events a window can, so a  *)
(* burst does not pin memory for the life of the key.                      *)
LogCompact ==
  \A k \in DOMAIN keys : Len(keys[k].ts) > 0 => Len(keys[k].ts) < 2 * Max

(* The keys that were admitted within the window that ended at the last    *)
(* sweep: the only ones that sweep may have kept.                          *)
LiveAtSweep ==
  {k \in Key : \E i \in DOMAIN hist[k] :
     lastSweep - Window < hist[k][i] /\ hist[k][i] <= lastSweep}

(* allowLocked bounds the map before inserting: it never holds more than   *)
(* MaxKeys keys or twice the keys that were live at the last sweep.        *)
MapBounded ==
  Cardinality(DOMAIN keys) <= Larger(MaxKeys, 2 * Cardinality(LiveAtSweep))

(* A new key sweeps once a window has passed since the last sweep, so the  *)
(* map it is inserted into holds no key idle for two windows: what a loss  *)
(* burst leaves behind goes with the first new key after it.               *)
NewKeySheds ==
  [][\A k \in DOMAIN keys' \ DOMAIN keys : \A j \in DOMAIN keys' :
       Max > 0 => ~Idle(keys'[j], now - 2 * Window)]_vars

(* The refinement mapping: the abstract limiter has this clock, this       *)
(* history and this answer, and nothing of keys, sweepAt, lastSweep, peak. *)
W == INSTANCE WindowSpec WITH now <- now, hist <- hist, answer <- answer

(* Lazy expiry, compaction and eviction change no decision: the limiter    *)
(* answers every call as the limiter that keeps the whole history.         *)
ImplementsWindow == W!Spec
===============================================================================
