------------------------------ MODULE WindowSpec ------------------------------
(***************************************************************************)
(* What a sliding-window limiter of ratelimit/ratelimit.go promises, with  *)
(* none of its machinery: no log is expired, no key is ever evicted.  The  *)
(* whole admission history is kept and a request is admitted exactly when  *)
(* fewer than Max admissions of its key lie in the window that ends now.   *)
(* SlidingWindow is shown to implement this specification.                 *)
(***************************************************************************)
EXTENDS Integers, Sequences, FiniteSets

CONSTANTS
  Key,      \* the limiter's keys: (HashKey, SeqNum) or (srcIP, HashKey)
  Max,      \* admissions allowed per key in a window
  Window,   \* length of the window, in clock ticks
  MaxTime   \* bound on the clock

VARIABLES
  now,      \* monotonic clock
  hist,     \* hist[k]: times of every admission of k, oldest first
  answer    \* the last call's answer; nth counts the calls, so each is a step

vars == <<now, hist, answer>>

(* The admissions of k that still count at the current time.               *)
Counted(k) == {i \in DOMAIN hist[k] : hist[k][i] > now - Window}

Reply(k, ok) == answer' = [key |-> k, ok |-> ok, nth |-> answer.nth + 1]

Init ==
  /\ now = 0
  /\ hist = [k \in Key |-> <<>>]
  /\ \E k \in Key : answer = [key |-> k, ok |-> TRUE, nth |-> 0]

Admit(k) ==
  /\ Cardinality(Counted(k)) < Max
  /\ hist' = [hist EXCEPT ![k] = Append(@, now)]
  /\ Reply(k, TRUE)
  /\ UNCHANGED now

Deny(k) ==
  /\ Cardinality(Counted(k)) >= Max
  /\ Reply(k, FALSE)
  /\ UNCHANGED <<now, hist>>

Tick ==
  /\ now < MaxTime
  /\ now' = now + 1
  /\ UNCHANGED <<hist, answer>>

Next == Tick \/ \E k \in Key : Admit(k) \/ Deny(k)

Spec == Init /\ [][Next]_vars
===============================================================================
