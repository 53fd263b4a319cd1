-------------------------- MODULE SlidingWindowProofs -------------------------
(***************************************************************************)
(* Proofs about SlidingWindow, for every set of keys, limit and window.    *)
(***************************************************************************)
EXTENDS SlidingWindow, FiniteSetTheorems, TLAPS

-------------------------------------------------------------------------------
(* The event logs: what expire leaves of a log, and what one call of allow *)
(* does to one key.                                                        *)

(* Facts about logs are stated over untyped functions ts and h and their   *)
(* lengths m and n, which keeps sequences out of the arithmetic.           *)
Nats(f, n) == \A i \in 1 .. n : f[i] \in Nat

Sorted(f, n) == \A i, j \in 1 .. n : i <= j => f[i] <= f[j]

(* ts and head log the admissions h: ts is a suffix of h, and everything   *)
(* up to the head, and before ts, is at or before the cutoff.              *)
Suffix(ts, m, head, h, n, cutoff) ==
  /\ head <= m
  /\ m <= n
  /\ \A i \in 1 .. m : ts[i] = h[n - m + i]
  /\ \A j \in 1 .. n : j <= n - m + head => h[j] <= cutoff

(* At most half of ts is expired.                                          *)
Lean(m, head) == head = 0 \/ 2 * head < m

(* Everything after the head is after the cutoff.                          *)
Tight(ts, m, head, cutoff) == \A i \in 1 .. m : i > head => ts[i] > cutoff

(* st is where a head stops that steps past the events up to the cutoff.   *)
Stepped(ts, m, head, st, cutoff) ==
  /\ head <= st /\ st < m
  /\ ts[st + 1] > cutoff
  /\ \A i \in head + 1 .. st : ts[i] <= cutoff

(* s is the nonempty part of ts after st.                                  *)
Shifted(s, k, ts, m, st) ==
  /\ k > 0 /\ m = st + k
  /\ \A i \in 1 .. k : s[i] = ts[st + i]

(* What expiring leaves of the log <<ts, head>> of h: a log <<u, x>> of h  *)
(* with exactly the events after the cutoff behind its head, and with the  *)
(* last event unless all have expired.                                     *)
Expired(u, k, x, ts, m, h, n, cutoff) ==
  /\ Suffix(u, k, x, h, n, cutoff)
  /\ Lean(k, x)
  /\ Tight(u, k, x, cutoff)
  /\ k > 0 => m > 0 /\ u[k] = ts[m]

-------------------------------------------------------------------------------
(* The least-number principle, for sets of naturals.                       *)
LEMMA LeastNat ==
  ASSUME NEW T, T \subseteq Nat, T # {}
  PROVE  \E x \in T : \A y \in T : x <= y
<1> DEFINE R == OpToRel(<, Nat)
<1>1. IsWellFoundedOn(R, Nat)
  BY NatLessThanWellFounded
<1>2. \E x \in T : \A y \in T : ~ (<<y, x>> \in R)
  <2> HIDE DEF R
  <2> QED BY <1>1, WFMin
<1>3. \A x, y \in T : ~ (<<y, x>> \in R) => x <= y
  BY DEF OpToRel
<1> QED BY <1>2, <1>3

(* Where some event of the log is after the cutoff, the head stops at the  *)
(* first such event.                                                       *)
LEMMA SteppedHeadOK ==
  ASSUME NEW l \in EventLog, NEW cutoff \in Int, ~Idle(l, cutoff), l.head < Len(l.ts)
  PROVE  /\ SteppedHead(l, cutoff) \in Nat
         /\ Stepped(l.ts, Len(l.ts), l.head, SteppedHead(l, cutoff), cutoff)
<1> DEFINE T == {x \in Nat : x \in l.head .. Len(l.ts) - 1 /\ l.ts[x + 1] > cutoff}
<1>1. /\ l.ts \in Seq(Nat) /\ l.head \in Nat /\ Len(l.ts) \in Nat
      /\ Len(l.ts) >= 1 /\ l.ts[Len(l.ts)] > cutoff
  BY DEF EventLog, Idle
<1>2. Len(l.ts) - 1 \in T
  BY <1>1
<1>3. PICK x \in T : \A y \in T : x <= y
  <2>1. T \subseteq Nat /\ T # {}
    BY <1>2
  <2> HIDE DEF T
  <2> QED BY <2>1, LeastNat
<1>4. /\ x \in Nat /\ x \in l.head .. Len(l.ts) - 1 /\ l.ts[x + 1] > cutoff
      /\ \A y \in Nat : y \in l.head .. Len(l.ts) - 1 /\ l.ts[y + 1] > cutoff => x <= y
  BY <1>3
<1> HIDE DEF T
<1>5. ASSUME NEW i \in l.head + 1 .. x
      PROVE  l.ts[i] <= cutoff
  <2>1. PICK y \in Nat : y + 1 = i /\ y \in l.head .. Len(l.ts) - 1 /\ ~ (x <= y)
    BY SMTT(30), <1>1, <1>4
  <2>2. ~ (l.ts[y + 1] > cutoff)
    BY <1>4, <2>1
  <2>3. i \in 1 .. Len(l.ts)
    BY <1>1, <2>1
  <2>4. l.ts[i] \in Nat
    <3>1. \A s \in Seq(Nat) : \A k \in 1 .. Len(s) : s[k] \in Nat
      OBVIOUS
    <3> QED BY <1>1, <2>3, <3>1
  <2> QED BY <2>1, <2>2, <2>4
<1>6. \E h \in l.head .. Len(l.ts) - 1 :
        /\ l.ts[h + 1] > cutoff
        /\ \A i \in l.head + 1 .. h : l.ts[i] <= cutoff
  BY SMTT(30), <1>1, <1>4, <1>5
<1>7. LET h == SteppedHead(l, cutoff)
      IN  /\ h \in l.head .. Len(l.ts) - 1
          /\ l.ts[h + 1] > cutoff
          /\ \A i \in l.head + 1 .. h : l.ts[i] <= cutoff
  BY SMTT(30), <1>6 DEF SteppedHead
<1> QED BY <1>1, <1>7 DEF Stepped

(* What a stepped head st says of the whole log ...                        *)
LEMMA LiveSuffix ==
  ASSUME NEW h, NEW n \in Nat, Nats(h, n), Sorted(h, n),
         NEW ts, NEW m \in Nat, NEW head \in Nat, NEW c0 \in Int, NEW c \in Int,
         Suffix(ts, m, head, h, n, c0), NEW st \in Nat, Stepped(ts, m, head, st, c)
  PROVE  Tight(ts, m, st, c)
<1>0. st < m /\ m <= n /\ ts[st + 1] > c
  BY DEF Suffix, Stepped
<1>1. ASSUME NEW i \in 1 .. m, i > st
      PROVE  ts[i] > c
  <2>1. PICK p \in 1 .. n, q \in 1 .. n : p = n - m + (st + 1) /\ q = n - m + i /\ p <= q
    BY <1>0, <1>1
  <2>2. ts[i] = h[q] /\ ts[st + 1] = h[p]
    BY <1>0, <1>1, <2>1 DEF Suffix
  <2>3. h[p] <= h[q]
    BY <2>1 DEF Sorted
  <2>4. h[p] \in Nat /\ h[q] \in Nat
    BY DEF Nats
  <2> QED BY <1>0, <2>2, <2>3, <2>4
<1> QED BY <1>1 DEF Tight

(* ... and of the history before it.                                       *)
LEMMA DeadPrefix ==
  ASSUME NEW h, NEW n \in Nat, Nats(h, n),
         NEW ts, NEW m \in Nat, NEW head \in Nat, NEW c0 \in Int, NEW c \in Int,
         c0 <= c, Suffix(ts, m, head, h, n, c0), NEW st \in Nat,
         Stepped(ts, m, head, st, c), NEW j \in 1 .. n, j <= n - m + st
  PROVE  h[j] <= c
<1>0. st < m /\ m <= n /\ head <= st
  BY DEF Suffix, Stepped
<1>1. CASE j <= n - m + head
  <2>1. h[j] \in Nat
    BY DEF Nats
  <2>2. h[j] <= c0
    BY <1>0, <1>1 DEF Suffix
  <2> QED BY <2>1, <2>2
<1>2. CASE j > n - m + head
  <2>1. PICK i \in Nat : i = j - (n - m)
    BY <1>0, <1>2
  <2>2. i \in head + 1 .. st /\ i \in 1 .. m /\ n - m + i = j
    BY <1>0, <1>2, <2>1
  <2>3. ts[i] = h[n - m + i]
    BY <2>2 DEF Suffix
  <2>4. ts[i] <= c
    BY <2>2 DEF Stepped
  <2> QED BY <2>2, <2>3, <2>4
<1> QED BY <1>0, <1>1, <1>2

(* Moving the live events to the front leaves a log of the same history.   *)
LEMMA CompactOK ==
  ASSUME NEW h, NEW n \in Nat, NEW ts, NEW m \in Nat, NEW c \in Int, NEW st \in Nat,
         Tight(ts, m, st, c), Suffix(ts, m, st, h, n, c),
         NEW s, NEW k \in Nat, Shifted(s, k, ts, m, st)
  PROVE  Expired(s, k, 0, ts, m, h, n, c)
<1>0. m = st + k /\ k > 0 /\ m <= n
  BY DEF Suffix, Shifted
<1>1. \A i \in 1 .. k : s[i] = ts[st + i]
  BY DEF Shifted
<1>2. ASSUME NEW i \in 1 .. k
      PROVE  s[i] = h[n - k + i]
  <2>1. ts[st + i] = h[n - m + (st + i)]
    BY <1>0 DEF Suffix
  <2>2. n - m + (st + i) = n - k + i
    BY <1>0
  <2> QED BY <1>1, <2>1, <2>2
<1>3. ASSUME NEW j \in 1 .. n, j <= n - k + 0
      PROVE  h[j] <= c
  BY <1>0, <1>3 DEF Suffix
<1>4. Suffix(s, k, 0, h, n, c)
  BY <1>0, <1>2, <1>3 DEF Suffix
<1>5. Tight(s, k, 0, c)
  BY <1>0, <1>1 DEF Tight
<1> QED BY <1>0, <1>1, <1>4, <1>5 DEF Expired, Lean

(* A sequence with no elements is the empty one.                           *)
LEMMA EmptyLen ==
  ASSUME NEW s \in Seq(Nat)
  PROVE  /\ Len(s) \in Nat
         /\ s = <<>> <=> Len(s) = 0
  BY SMTT(30)

(* The events after position st, as the compaction of expire copies them.  *)
LEMMA LiveEvents ==
  ASSUME NEW ts \in Seq(Nat), NEW st \in Nat, st < Len(ts)
  PROVE  LET s == SubSeq(ts, st + 1, Len(ts))
         IN  /\ s \in Seq(Nat) /\ Len(s) = Len(ts) - st
             /\ \A i \in 1 .. Len(ts) - st : s[i] = ts[st + i]
<1>1. PICK n \in Nat, a \in Nat : n = Len(ts) /\ a = st + 1 /\ a \in 1 .. n /\ n - a + 1 \in Nat
  BY EmptyLen
<1>2. PICK s : s = SubSeq(ts, a, n)
  OBVIOUS
<1>3. \A i \in 1 .. n : ts[i] \in Nat
  BY <1>1
<1>4. s = [i \in 1 .. n - a + 1 |-> ts[a + i - 1]]
  BY <1>1, <1>2
<1>5. \A i \in 1 .. n - a + 1 : s[i] = ts[a + i - 1] /\ a + i - 1 \in 1 .. n
  BY <1>1, <1>4
<1>6. s \in Seq(Nat) /\ Len(s) = n - a + 1
  <2>1. s \in [1 .. n - a + 1 -> Nat]
    BY <1>3, <1>4, <1>5
  <2>2. \A k \in Nat : \A f \in [1 .. k -> Nat] : f \in Seq(Nat) /\ Len(f) = k
    OBVIOUS
  <2> QED BY <1>1, <2>1, <2>2
<1>7. /\ n - a + 1 = Len(ts) - st
      /\ \A i \in 1 .. Len(ts) - st : s[i] = ts[st + i]
  BY <1>1, <1>5
<1> QED BY <1>1, <1>2, <1>6, <1>7

(* expire keeps a log of the same history whose events after the head are  *)
(* exactly the ones after the cutoff.                                      *)
LEMMA ExpireOK ==
  ASSUME NEW h, NEW n \in Nat, Nats(h, n), Sorted(h, n), NEW l \in EventLog,
         NEW c0 \in Int, NEW c \in Int, c0 <= c,
         Suffix(l.ts, Len(l.ts), l.head, h, n, c0), Lean(Len(l.ts), l.head)
  PROVE  LET e == Expire(l, c)
         IN  /\ e \in EventLog
             /\ Expired(e.ts, Len(e.ts), e.head, l.ts, Len(l.ts), h, n, c)
<1>a. l.ts \in Seq(Nat) /\ l.head \in Nat
  BY DEF EventLog
<1>b. Len(l.ts) \in Nat /\ (l.ts = <<>> <=> Len(l.ts) = 0)
  BY <1>a, EmptyLen
<1>d. PICK ts : ts = l.ts
  OBVIOUS
<1>e. PICK m \in Nat : m = Len(l.ts)
  BY <1>b
<1>f. PICK head \in Nat : head = l.head
  BY <1>a
<1>c. ts = l.ts /\ head = l.head /\ m = Len(l.ts)
  BY <1>d, <1>e, <1>f
<1>0. Suffix(ts, m, head, h, n, c0) /\ Lean(m, head)
  BY <1>c
<1>1. CASE m = 0
  <2>1. Expire(l, c) = l
    BY <1>b, <1>c, <1>1 DEF Expire
  <2>2. Suffix(ts, m, head, h, n, c)
    <3>1. ASSUME NEW j \in 1 .. n, j <= n - m + head
          PROVE  h[j] <= c
      <4>1. h[j] <= c0
        BY <1>0, <3>1 DEF Suffix
      <4>2. h[j] \in Nat
        BY DEF Nats
      <4> QED BY <4>1, <4>2
    <3> QED BY <1>0, <3>1 DEF Suffix
  <2>3. Tight(ts, m, head, c)
    BY <1>1 DEF Tight
  <2>4. Expired(ts, m, head, ts, m, h, n, c)
    BY <1>0, <1>1, <2>2, <2>3 DEF Expired
  <2> QED BY <1>c, <2>1, <2>4
<1>2. CASE m > 0 /\ Idle(l, c)
  <2>1. Expire(l, c) = EmptyLog
    BY <1>b, <1>c, <1>2 DEF Expire
  <2>2. ts[m] <= c /\ m <= n
    BY <1>0, <1>b, <1>c, <1>2 DEF Idle, Suffix
  <2>3. h[n] <= c
    <3>1. ts[m] = h[n - m + m]
      <4>1. m \in 1 .. m /\ \A i \in 1 .. m : ts[i] = h[n - m + i]
        BY <1>0, <1>2 DEF Suffix
      <4> QED BY <4>1
    <3>2. n - m + m = n
      OBVIOUS
    <3> QED BY <2>2, <3>1, <3>2
  <2>4. ASSUME NEW j \in 1 .. n
        PROVE  h[j] <= c
    <3>1. n \in 1 .. n /\ j <= n
      OBVIOUS
    <3>2. h[j] \in Nat /\ h[n] \in Nat
      BY <3>1 DEF Nats
    <3>3. h[j] <= h[n]
      BY <3>1 DEF Sorted
    <3> QED BY <2>3, <3>2, <3>3
  <2>5. Expired(<<>>, 0, 0, ts, m, h, n, c)
    BY <2>4 DEF Expired, Suffix, Lean, Tight
  <2>6. EmptyLog \in EventLog /\ EmptyLog.ts = <<>> /\ EmptyLog.head = 0 /\ Len(<<>>) = 0
    BY DEF EmptyLog, EventLog
  <2> QED BY <1>c, <2>1, <2>5, <2>6
<1>3. CASE m > 0 /\ ~Idle(l, c)
  <2>1. head < m
    BY <1>0, <1>3 DEF Lean
  <2>2. PICK st \in Nat : st = SteppedHead(l, c) /\ Stepped(ts, m, head, st, c)
    BY <1>3, <1>c, <2>1, SteppedHeadOK
  <2>3. st < m
    BY <2>2 DEF Stepped
  <2>4. Tight(ts, m, st, c)
    BY <1>0, <2>2, LiveSuffix
  <2>5. Suffix(ts, m, st, h, n, c)
    <3>1. \A j \in 1 .. n : j <= n - m + st => h[j] <= c
      BY <1>0, <2>2, DeadPrefix
    <3> QED BY <1>0, <2>3, <3>1 DEF Suffix
  <2>6. CASE 2 * st < m
    <3>1. Expire(l, c) = [ts |-> l.ts, head |-> st]
      BY <1>b, <1>c, <1>3, <2>2, <2>6 DEF Expire
    <3>2. [ts |-> l.ts, head |-> st] \in EventLog
      BY <1>a DEF EventLog
    <3>3. Expired(ts, m, st, ts, m, h, n, c)
      BY <1>3, <2>4, <2>5, <2>6 DEF Lean, Expired
    <3> QED BY <1>c, <3>1, <3>2, <3>3
  <2>7. CASE ~ (2 * st < m)
    <3>1. PICK s : s = SubSeq(l.ts, st + 1, Len(l.ts))
      OBVIOUS
    <3>2. Expire(l, c) = [ts |-> s, head |-> 0]
      BY <1>b, <1>c, <1>3, <2>2, <2>7, <3>1 DEF Expire
    <3>3. s \in Seq(Nat) /\ Len(s) = m - st /\ \A i \in 1 .. m - st : s[i] = ts[st + i]
      BY <1>a, <1>c, <2>3, <3>1, LiveEvents
    <3>4. PICK k \in Nat : k = m - st /\ k = Len(s)
      BY <2>3, <3>3
    <3>5. Shifted(s, k, ts, m, st)
      BY <2>3, <3>3, <3>4 DEF Shifted
    <3>6. Expired(s, k, 0, ts, m, h, n, c)
      BY <2>4, <2>5, <3>5, CompactOK
    <3>7. [ts |-> s, head |-> 0] \in EventLog
      BY <3>3 DEF EventLog
    <3> QED BY <1>c, <3>2, <3>4, <3>6, <3>7
  <2> QED BY <2>6, <2>7
<1> QED BY <1>1, <1>2, <1>3

-------------------------------------------------------------------------------
(* One call of allow on one key.                                           *)

(* g is f with t appended.                                                 *)
Grown(g, f, n, t) == g[n + 1] = t /\ \A i \in 1 .. n : g[i] = f[i]

(* Nothing in f is later than t.                                           *)
UpTo(f, n, t) == \A i \in 1 .. n : f[i] <= t

(* RateBound of one key.                                                   *)
Spaced(f, n) == \A i \in 1 .. n : i + Max <= n => f[i + Max] - f[i] >= Window

(* Append adds one element at the end.                                     *)
LEMMA AppendGrows ==
  ASSUME NEW s \in Seq(Nat), NEW t \in Nat
  PROVE  /\ Append(s, t) \in Seq(Nat)
         /\ Len(Append(s, t)) = Len(s) + 1
         /\ Grown(Append(s, t), s, Len(s), t)
  BY SMTT(30) DEF Grown

(* A log that is the end of a history still is after both admit one        *)
(* event.                                                                  *)
LEMMA SuffixGrown ==
  ASSUME NEW h, NEW n \in Nat, NEW ts, NEW m \in Nat, NEW head \in Nat, NEW c \in Int,
         Suffix(ts, m, head, h, n, c), NEW t \in Nat,
         NEW u, Grown(u, ts, m, t), NEW g, Grown(g, h, n, t)
  PROVE  Suffix(u, m + 1, head, g, n + 1, c)
<1>0. head <= m /\ m <= n
  BY DEF Suffix
<1>1. ASSUME NEW i \in 1 .. m + 1
      PROVE  u[i] = g[(n + 1) - (m + 1) + i]
  <2>1. CASE i = m + 1
    <3>1. (n + 1) - (m + 1) + i = n + 1
      BY <2>1
    <3> QED BY <2>1, <3>1 DEF Grown
  <2>2. CASE i # m + 1
    <3>1. i \in 1 .. m
      BY <2>2
    <3>2. PICK p \in 1 .. n : p = n - m + i
      BY <1>0, <3>1
    <3>3. ts[i] = h[p] /\ u[i] = ts[i] /\ g[p] = h[p]
      BY <3>1, <3>2 DEF Suffix, Grown
    <3>4. (n + 1) - (m + 1) + i = p
      BY <3>2
    <3> QED BY <3>3, <3>4
  <2> QED BY <2>1, <2>2
<1>2. ASSUME NEW j \in 1 .. n + 1, j <= (n + 1) - (m + 1) + head
      PROVE  g[j] <= c
  <2>1. j \in 1 .. n /\ j <= n - m + head
    BY <1>0, <1>2
  <2>2. g[j] = h[j] /\ h[j] <= c
    BY <2>1 DEF Suffix, Grown
  <2> QED BY <2>2
<1> QED BY <1>0, <1>1, <1>2 DEF Suffix

(* A history stays ordered when the current time is appended.              *)
LEMMA HistoryGrown ==
  ASSUME NEW h, NEW n \in Nat, Nats(h, n), Sorted(h, n), NEW t \in Nat, UpTo(h, n, t),
         NEW g, Grown(g, h, n, t)
  PROVE  Nats(g, n + 1) /\ Sorted(g, n + 1) /\ UpTo(g, n + 1, t)
<1>1. ASSUME NEW i \in 1 .. n + 1
      PROVE  g[i] \in Nat /\ g[i] <= t
  <2>1. CASE i = n + 1
    BY <2>1 DEF Grown
  <2>2. CASE i # n + 1
    <3>1. i \in 1 .. n
      BY <2>2
    <3> QED BY <3>1 DEF Grown, Nats, UpTo
  <2> QED BY <2>1, <2>2
<1>2. ASSUME NEW i \in 1 .. n + 1, NEW j \in 1 .. n + 1, i <= j
      PROVE  g[i] <= g[j]
  <2>1. CASE j = n + 1
    BY <1>1, <2>1 DEF Grown
  <2>2. CASE j # n + 1
    <3>1. i \in 1 .. n /\ j \in 1 .. n
      BY <1>2, <2>2
    <3>2. h[i] <= h[j]
      BY <1>2, <3>1 DEF Sorted
    <3> QED BY <3>1, <3>2 DEF Grown
  <2> QED BY <2>1, <2>2
<1> QED BY <1>1, <1>2 DEF Nats, Sorted, UpTo

(* An admission into a tight log of fewer than Max live events keeps the   *)
(* rate: the Max-th admission before it is at or before the cutoff.        *)
LEMMA SpacedGrown ==
  ASSUME NEW h, NEW n \in Nat, Nats(h, n), Spaced(h, n),
         NEW ts, NEW m \in Nat, NEW head \in Nat, NEW t \in Nat,
         Suffix(ts, m, head, h, n, t - Window), m - head < Max,
         NEW g, Grown(g, h, n, t)
  PROVE  Spaced(g, n + 1)
<1> USE LimiterAssumption
<1>0. head <= m /\ m <= n /\ Max >= 1
  BY DEF Suffix
<1>1. ASSUME NEW i \in 1 .. n + 1, i + Max <= n + 1
      PROVE  g[i + Max] - g[i] >= Window
  <2>0. i \in 1 .. n
    BY <1>0, <1>1
  <2>1. g[i] = h[i] /\ h[i] \in Nat
    BY <2>0 DEF Grown, Nats
  <2>2. CASE i + Max = n + 1
    <3>1. i <= n - m + head
      BY <1>0, <2>2
    <3>2. h[i] <= t - Window
      BY <2>0, <3>1 DEF Suffix
    <3>3. g[i + Max] = t
      BY <2>2 DEF Grown
    <3> QED BY <2>1, <3>2, <3>3
  <2>3. CASE i + Max # n + 1
    <3>1. i + Max \in 1 .. n
      BY <1>0, <1>1, <2>3
    <3>2. h[i + Max] - h[i] >= Window
      BY <2>0, <3>1 DEF Spaced
    <3>3. g[i + Max] = h[i + Max]
      BY <3>1 DEF Grown
    <3> QED BY <2>1, <3>2, <3>3
  <2> QED BY <2>2, <2>3
<1> QED BY <1>1 DEF Spaced

(* A tight log of a spaced history has at most Max live events.            *)
LEMMA TightCount ==
  ASSUME NEW h, NEW n \in Nat, Nats(h, n), Spaced(h, n), NEW t \in Nat, UpTo(h, n, t),
         NEW ts, NEW m \in Nat, NEW head \in Nat,
         Suffix(ts, m, head, h, n, t - Window), Tight(ts, m, head, t - Window)
  PROVE  m - head <= Max
<1> USE LimiterAssumption
<1> SUFFICES ASSUME m - head > Max PROVE FALSE
  OBVIOUS
<1>0. head <= m /\ m <= n
  BY DEF Suffix
<1>1. PICK i \in 1 .. n, p \in 1 .. m : i = n - Max /\ p = m - Max /\ p > head /\ i = n - m + p
  BY <1>0
<1>2. ts[p] = h[i] /\ ts[p] > t - Window
  BY <1>1 DEF Suffix, Tight
<1>3. n \in 1 .. n /\ i + Max = n
  BY <1>1
<1>4. h[n] <= t /\ h[n] \in Nat /\ h[i] \in Nat
  BY <1>3 DEF UpTo, Nats
<1>5. h[n] - h[i] >= Window
  BY <1>3 DEF Spaced
<1> QED BY <1>2, <1>4, <1>5

(* In a tight log the live events are the ones the abstract limiter counts. *)
LEMMA LiveCount ==
  ASSUME NEW h, NEW n \in Nat, Nats(h, n),
         NEW ts, NEW m \in Nat, NEW head \in Nat, NEW c \in Int,
         Suffix(ts, m, head, h, n, c), Tight(ts, m, head, c)
  PROVE  Cardinality({i \in 1 .. n : h[i] > c}) = m - head
<1>0. head <= m /\ m <= n
  BY DEF Suffix
<1>1. PICK a \in Nat : a = n - m + head + 1
  BY <1>0
<1>2. ASSUME NEW i \in 1 .. n
      PROVE  h[i] > c <=> i >= a
  <2>1. CASE i < a
    <3>1. h[i] <= c /\ h[i] \in Nat
      BY <1>0, <1>1, <2>1 DEF Suffix, Nats
    <3> QED BY <1>1, <2>1, <3>1
  <2>2. CASE i >= a
    <3>1. PICK p \in 1 .. m : p = i - (n - m) /\ p > head /\ i = n - m + p
      BY <1>0, <1>1, <2>2
    <3>2. ts[p] = h[i] /\ ts[p] > c
      BY <3>1 DEF Suffix, Tight
    <3> QED BY <2>2, <3>2
  <2> QED BY <1>1, <2>1, <2>2
<1>3. PICK S : S = {i \in 1 .. n : h[i] > c}
  OBVIOUS
<1>4. S = a .. n
  <2>1. \A x \in S : x \in a .. n
    BY <1>2, <1>3
  <2>2. \A x \in a .. n : x \in S
    <3>1. \A x \in a .. n : x \in 1 .. n /\ x >= a
      BY <1>0, <1>1
    <3> QED BY <1>2, <1>3, <3>1
  <2> QED BY <2>1, <2>2
<1>5. Cardinality(a .. n) = IF a > n THEN 0 ELSE n - a + 1
  BY FS_Interval
<1>6. Cardinality(S) = m - head
  BY <1>0, <1>1, <1>4, <1>5
<1> QED BY <1>3, <1>6

-------------------------------------------------------------------------------
(* The invariant of one key's log, of one key's history, and a call.       *)

KeyLog(l, h, cutoff) ==
  /\ l \in EventLog
  /\ Suffix(l.ts, Len(l.ts), l.head, h, Len(h), cutoff)
  /\ Lean(Len(l.ts), l.head)
  /\ Len(l.ts) - l.head <= Max

History(h, t) ==
  /\ h \in Seq(Nat)
  /\ Nats(h, Len(h)) /\ Sorted(h, Len(h)) /\ UpTo(h, Len(h), t) /\ Spaced(h, Len(h))

Last(s) == s[Len(s)]

(* After a call the log ends in this admission or in the last one before.  *)
LEMMA CallOK ==
  ASSUME now \in Nat, NEW h, History(h, now), NEW l, NEW c0 \in Int, c0 <= now - Window,
         KeyLog(l, h, c0), NEW e, e = Expire(l, now - Window),
         NEW g, g = IF Admits(e) THEN Append(h, now) ELSE h
  PROVE  /\ KeyLog(Record(e), g, now - Window)
         /\ History(g, now)
         /\ Max > 0 => /\ Record(e).ts # <<>>
                       /\ \/ Last(Record(e).ts) = now
                          \/ l.ts # <<>> /\ Last(Record(e).ts) = Last(l.ts)
         /\ Admits(e) <=> Cardinality({i \in 1 .. Len(h) : h[i] > now - Window}) < Max
<1> USE LimiterAssumption
<1>1. PICK n \in Nat : n = Len(h) /\ Nats(h, n) /\ Sorted(h, n) /\ UpTo(h, n, now) /\ Spaced(h, n)
  BY DEF History
<1>2. PICK c \in Int : c = now - Window
  OBVIOUS
<1>3. e \in EventLog /\ Expired(e.ts, Len(e.ts), e.head, l.ts, Len(l.ts), h, n, c)
  <2>1. /\ l \in EventLog /\ Suffix(l.ts, Len(l.ts), l.head, h, n, c0)
        /\ Lean(Len(l.ts), l.head) /\ c0 <= c
    BY <1>1, <1>2 DEF KeyLog
  <2> QED BY <1>1, <1>2, <2>1, ExpireOK
<1>4. e.ts \in Seq(Nat) /\ e.head \in Nat /\ l.ts \in Seq(Nat)
  BY <1>3 DEF EventLog, KeyLog
<1>5. PICK m \in Nat : m = Len(e.ts)
  BY <1>4, EmptyLen
<1>6. PICK head \in Nat, ts \in Seq(Nat) : head = e.head /\ ts = e.ts
  BY <1>4
<1>7. /\ Suffix(ts, m, head, h, n, c) /\ Lean(m, head) /\ Tight(ts, m, head, c)
      /\ m > 0 => Len(l.ts) > 0 /\ ts[m] = l.ts[Len(l.ts)]
  BY <1>3, <1>5, <1>6 DEF Expired
<1>8. Admits(e) <=> m - head < Max
  BY <1>5, <1>6 DEF Admits
<1>9. Cardinality({i \in 1 .. Len(h) : h[i] > now - Window}) = m - head
  BY SMTT(30), <1>1, <1>2, <1>7, LiveCount
<1>10. CASE Admits(e)
  <2>1. g = Append(h, now) /\ h \in Seq(Nat)
    BY <1>10 DEF History
  <2>2. g \in Seq(Nat) /\ Len(g) = n + 1 /\ Grown(g, h, n, now)
    BY <1>1, <2>1, AppendGrows
  <2>3. PICK u : u = Append(e.ts, now)
    OBVIOUS
  <2>4. u \in Seq(Nat) /\ Len(u) = m + 1 /\ Grown(u, ts, m, now)
    BY <1>4, <1>5, <1>6, <2>3, AppendGrows
  <2>5. Record(e) = [ts |-> u, head |-> head]
    BY <1>6, <1>10, <2>3 DEF Record
  <2>6. Suffix(u, m + 1, head, g, n + 1, c)
    BY <1>7, <2>2, <2>4, SuffixGrown
  <2>7. Lean(m + 1, head) /\ (m + 1) - head <= Max
    BY SMTT(30), <1>7, <1>8, <1>10 DEF Lean
  <2>8. [ts |-> u, head |-> head] \in EventLog
    BY <2>4 DEF EventLog
  <2>9. KeyLog(Record(e), g, now - Window)
    BY SMTT(30), <1>2, <2>2, <2>4, <2>5, <2>6, <2>7, <2>8 DEF KeyLog
  <2>10. Spaced(g, n + 1)
    BY <1>1, <1>2, <1>7, <1>8, <1>10, <2>2, SpacedGrown
  <2>11. History(g, now)
    BY <1>1, <2>2, <2>10, HistoryGrown DEF History
  <2>12. u # <<>> /\ Last(u) = now
    <3>1. u # <<>>
      BY <2>4, EmptyLen
    <3>2. u[m + 1] = now
      BY <2>4 DEF Grown
    <3> QED BY <2>4, <3>1, <3>2 DEF Last
  <2> QED BY <1>8, <1>9, <1>10, <2>5, <2>9, <2>11, <2>12
<1>11. CASE ~Admits(e)
  <2>1. g = h /\ Record(e) = e
    BY <1>11 DEF Record
  <2>2. m - head <= Max
    <3>1. Suffix(ts, m, head, h, n, now - Window) /\ Tight(ts, m, head, now - Window)
      BY <1>2, <1>7
    <3>2. Nats(h, n) /\ Spaced(h, n) /\ UpTo(h, n, now)
      BY <1>1
    <3> QED BY <3>1, <3>2, TightCount
  <2>3. KeyLog(e, h, now - Window)
    <3>1. /\ Suffix(e.ts, Len(e.ts), e.head, h, Len(h), now - Window)
          /\ Lean(Len(e.ts), e.head) /\ Len(e.ts) - e.head <= Max
      BY <1>1, <1>2, <1>5, <1>6, <1>7, <2>2
    <3> QED BY <1>3, <3>1 DEF KeyLog
  <2>4. ASSUME Max > 0
        PROVE  e.ts # <<>> /\ l.ts # <<>> /\ Last(e.ts) = Last(l.ts)
    <3>1. m > 0
      BY <1>8, <1>11, <2>4
    <3>2. Len(e.ts) > 0 /\ Len(l.ts) > 0 /\ e.ts[Len(e.ts)] = l.ts[Len(l.ts)]
      BY <1>5, <1>6, <1>7, <3>1
    <3>3. e.ts # <<>> /\ l.ts # <<>>
      BY <1>4, <3>2, EmptyLen
    <3> QED BY <3>2, <3>3 DEF Last
  <2> QED BY <1>8, <1>9, <1>11, <2>1, <2>3, <2>4
<1> QED BY <1>10, <1>11

-------------------------------------------------------------------------------
(* The inductive invariant.                                                *)

(* A key that is not in the map has no admission left in the window: this  *)
(* is why evicting it, or starting it again from an empty log, is safe.    *)
KeyInv(k) ==
  /\ History(hist[k], now)
  /\ k \in DOMAIN keys => KeyLog(keys[k], hist[k], now - Window)
  /\ k \notin DOMAIN keys => UpTo(hist[k], Len(hist[k]), now - Window)

SweepInv ==
  Max > 0 => \A k \in DOMAIN keys :
               keys[k].ts # <<>> /\ Last(keys[k].ts) > lastSweep - Window

SizeInv ==
  /\ Cardinality(DOMAIN keys) <= sweepAt
  /\ sweepAt <= Larger(MaxKeys, 2 * Cardinality(LiveAtSweep))

IInv ==
  /\ TypeOK
  /\ lastSweep <= now
  /\ \A k \in Key : KeyInv(k)
  /\ SweepInv
  /\ SizeInv

(* A log and a history stay good as the cutoff moves.                      *)
LEMMA LaterCutoff ==
  ASSUME NEW h, NEW n \in Nat, Nats(h, n), NEW c0 \in Int, NEW c \in Int, c0 <= c
  PROVE  /\ UpTo(h, n, c0) => UpTo(h, n, c)
         /\ \A ts, m, head : Suffix(ts, m, head, h, n, c0) => Suffix(ts, m, head, h, n, c)
<1>1. \A j \in 1 .. n : h[j] <= c0 => h[j] <= c
  BY DEF Nats
<1> QED BY <1>1 DEF UpTo, Suffix

(* A key with nothing left in the window may start from the empty log.     *)
LEMMA FreshLog ==
  ASSUME NEW h, h \in Seq(Nat), NEW c \in Int, UpTo(h, Len(h), c)
  PROVE  KeyLog(EmptyLog, h, c)
<1>1. EmptyLog \in EventLog /\ EmptyLog.ts = <<>> /\ EmptyLog.head = 0 /\ Len(<<>>) = 0
  BY DEF EmptyLog, EventLog
<1>2. PICK n \in Nat : n = Len(h) /\ UpTo(h, n, c)
  BY EmptyLen
<1>3. Suffix(<<>>, 0, 0, h, n, c) /\ Lean(0, 0) /\ 0 - 0 <= Max
  BY <1>2, LimiterAssumption DEF Suffix, Lean, UpTo
<1> QED BY <1>1, <1>2, <1>3 DEF KeyLog

(* A key that a sweep evicts has nothing left in the window.               *)
LEMMA IdleLog ==
  ASSUME NEW h, NEW t \in Int, History(h, t), NEW l, NEW c \in Int, KeyLog(l, h, c), Idle(l, c)
  PROVE  UpTo(h, Len(h), c)
<1>1. PICK n \in Nat : n = Len(h) /\ Nats(h, n) /\ Sorted(h, n)
  BY EmptyLen DEF History
<1>2. l.ts \in Seq(Nat) /\ l.head \in Nat
  BY DEF KeyLog, EventLog
<1>3. PICK m \in Nat : m = Len(l.ts)
  BY <1>2, EmptyLen
<1>4. Suffix(l.ts, m, l.head, h, n, c)
  BY <1>1, <1>3 DEF KeyLog
<1>5. CASE m = 0
  BY <1>1, <1>2, <1>4, <1>5 DEF Suffix, UpTo
<1>6. CASE m > 0
  <2>1. l.ts[m] <= c /\ l.ts # <<>>
    BY <1>2, <1>3, <1>6, EmptyLen DEF Idle
  <2>2. n > 0 /\ l.ts[m] = h[n]
    <3>1. m <= n /\ l.ts[m] = h[n - m + m] /\ n - m + m = n
      BY <1>4, <1>6 DEF Suffix
    <3> QED BY <1>6, <3>1
  <2>3. ASSUME NEW i \in 1 .. n
        PROVE  h[i] <= c
    <3>1. h[i] <= h[n] /\ h[i] \in Nat /\ h[n] \in Nat
      BY <1>1, <2>2 DEF Sorted, Nats
    <3> QED BY <2>1, <2>2, <3>1
  <2> QED BY <1>1, <2>3 DEF UpTo
<1> QED BY <1>5, <1>6

(* One call: what it does to k, and that it touches no other key.          *)
LEMMA DecideOK ==
  ASSUME IInv, NEW k \in Key, NEW l, NEW kept \in SUBSET DOMAIN keys,
         KeyLog(l, hist[k], now - Window), Decide(k, l, kept), now' = now,
         \A j \in DOMAIN keys : j # k /\ j \notin kept => Idle(keys[j], now - Window)
  PROVE  \A j \in Key : KeyInv(j)'
<1> USE LimiterAssumption
<1>0. now \in Nat /\ now - Window \in Int /\ hist \in [Key -> Seq(Nat)]
  BY DEF IInv, TypeOK
<1>1. PICK e : e = Expire(l, now - Window)
  OBVIOUS
<1>2. PICK g : g = IF Admits(e) THEN Append(hist[k], now) ELSE hist[k]
  OBVIOUS
<1>3. /\ DOMAIN keys' = kept \cup {k}
      /\ keys'[k] = Record(e)
      /\ \A j \in kept : j # k => keys'[j] = keys[j]
      /\ hist'[k] = g
      /\ \A j \in Key : j # k => hist'[j] = hist[j]
  BY <1>0, <1>1, <1>2 DEF Decide
<1>4. KeyLog(Record(e), g, now - Window) /\ History(g, now)
  <2>1. History(hist[k], now)
    BY DEF IInv, KeyInv
  <2>2. PICK h : h = hist[k]
    OBVIOUS
  <2>3. PICK c0 \in Int : c0 = now - Window /\ c0 <= now - Window
    BY <1>0
  <2>4. History(h, now) /\ KeyLog(l, h, c0) /\ g = IF Admits(e) THEN Append(h, now) ELSE h
    BY <1>2, <2>1, <2>2, <2>3
  <2> QED BY <1>0, <1>1, <2>3, <2>4, CallOK
<1>5. KeyInv(k)'
  BY <1>3, <1>4 DEF KeyInv
<1>6. ASSUME NEW j \in Key, j # k
      PROVE  KeyInv(j)'
  <2>1. /\ History(hist[j], now)
        /\ j \in DOMAIN keys => KeyLog(keys[j], hist[j], now - Window)
        /\ j \notin DOMAIN keys => UpTo(hist[j], Len(hist[j]), now - Window)
    BY DEF IInv, KeyInv
  <2>2. CASE j \in kept
    BY <1>3, <1>6, <2>1, <2>2 DEF KeyInv
  <2>3. CASE j \notin kept
    <3>1. UpTo(hist[j], Len(hist[j]), now - Window)
      <4>1. CASE j \in DOMAIN keys
        BY <1>0, <1>6, <2>1, <2>3, <4>1, IdleLog
      <4> QED BY <2>1, <4>1
    <3> QED BY <1>3, <1>6, <2>1, <2>3, <3>1 DEF KeyInv
  <2> QED BY <2>2, <2>3
<1> QED BY <1>5, <1>6

(* Histories only grow.                                                    *)
Prefix(h, g) ==
  /\ h \in Seq(Nat) /\ g \in Seq(Nat)
  /\ \A i \in DOMAIN h : i \in DOMAIN g /\ g[i] = h[i]

(* The variables a call leaves behind: which keys the map has, and how     *)
(* the histories grew.                                                     *)
LEMMA DecideShape ==
  ASSUME IInv, NEW k \in Key, NEW l, NEW kept \in SUBSET DOMAIN keys,
         KeyLog(l, hist[k], now - Window), Decide(k, l, kept)
  PROVE  /\ DOMAIN keys' = kept \cup {k}
         /\ \A j \in kept : j # k => keys'[j] = keys[j]
         /\ hist' \in [Key -> Seq(Nat)]
         /\ \A j \in Key : Prefix(hist[j], hist'[j])
         /\ answer' \in [key : Key, ok : BOOLEAN, nth : Nat]
         /\ Max > 0 => /\ keys'[k].ts # <<>>
                       /\ \/ Last(keys'[k].ts) = now
                          \/ l.ts # <<>> /\ Last(keys'[k].ts) = Last(l.ts)
<1> USE LimiterAssumption
<1>0. /\ now \in Nat /\ now - Window \in Int /\ hist \in [Key -> Seq(Nat)]
      /\ answer \in [key : Key, ok : BOOLEAN, nth : Nat]
  BY DEF IInv, TypeOK
<1>1. PICK e : e = Expire(l, now - Window)
  OBVIOUS
<1>2. PICK h : h = hist[k]
  OBVIOUS
<1>3. PICK g : g = IF Admits(e) THEN Append(h, now) ELSE h
  OBVIOUS
<1>4. /\ DOMAIN keys' = kept \cup {k}
      /\ keys'[k] = Record(e)
      /\ \A j \in kept : j # k => keys'[j] = keys[j]
      /\ hist' = [hist EXCEPT ![k] = g]
      /\ answer' = [key |-> k, ok |-> Admits(e), nth |-> answer.nth + 1]
  BY <1>0, <1>1, <1>2, <1>3 DEF Decide
<1>5. h \in Seq(Nat) /\ g \in Seq(Nat) /\ Prefix(h, g)
  <2>1. h \in Seq(Nat)
    BY <1>0, <1>2
  <2>2. CASE Admits(e)
    <3>1. g = Append(h, now)
      BY <1>3, <2>2
    <3> QED BY <1>0, <2>1, <3>1 DEF Prefix
  <2>3. CASE ~Admits(e)
    <3>1. g = h
      BY <1>3, <2>3
    <3> QED BY <2>1, <3>1 DEF Prefix
  <2> QED BY <2>2, <2>3
<1>6. hist' \in [Key -> Seq(Nat)]
  BY <1>0, <1>4, <1>5
<1>7. ASSUME NEW j \in Key
      PROVE  Prefix(hist[j], hist'[j])
  <2>1. CASE j = k
    BY <1>0, <1>2, <1>4, <1>5, <2>1
  <2>2. CASE j # k
    <3>1. hist'[j] = hist[j] /\ hist[j] \in Seq(Nat)
      BY <1>0, <1>4, <2>2
    <3> QED BY <3>1 DEF Prefix
  <2> QED BY <2>1, <2>2
<1>8. answer' \in [key : Key, ok : BOOLEAN, nth : Nat]
  <2>1. Admits(e) \in BOOLEAN
    BY DEF Admits
  <2> QED BY <1>0, <1>4, <2>1
<1>9. Max > 0 => /\ Record(e).ts # <<>>
                 /\ \/ Last(Record(e).ts) = now
                    \/ l.ts # <<>> /\ Last(Record(e).ts) = Last(l.ts)
  <2>1. PICK c0 \in Int : c0 = now - Window /\ c0 <= now - Window
    BY <1>0
  <2>2. History(h, now) /\ KeyLog(l, h, c0)
    BY <1>2, <2>1 DEF IInv, KeyInv
  <2> QED BY <1>0, <1>1, <1>3, <2>1, <2>2, CallOK
<1> QED BY <1>4, <1>6, <1>7, <1>8, <1>9

(* What sweeps counted as live stays live as histories grow.               *)
LEMMA LiveGrows ==
  ASSUME hist \in [Key -> Seq(Nat)], \A j \in Key : Prefix(hist[j], hist'[j]),
         lastSweep' = lastSweep
  PROVE  /\ LiveAtSweep \subseteq LiveAtSweep'
         /\ Cardinality(LiveAtSweep) \in Nat /\ Cardinality(LiveAtSweep') \in Nat
         /\ Cardinality(LiveAtSweep) <= Cardinality(LiveAtSweep')
<1>1. LiveAtSweep \subseteq LiveAtSweep'
  BY DEF LiveAtSweep, Prefix
<1>2. LiveAtSweep' \subseteq Key /\ IsFiniteSet(Key)
  BY LimiterAssumption DEF LiveAtSweep
<1>3. IsFiniteSet(LiveAtSweep')
  BY <1>2, FS_Subset
<1>4. IsFiniteSet(LiveAtSweep) /\ Cardinality(LiveAtSweep) <= Cardinality(LiveAtSweep')
  BY <1>1, <1>3, FS_Subset
<1> QED BY <1>1, <1>3, <1>4, FS_CardinalityType

(* Larger is the maximum of two naturals.                                  *)
LEMMA LargerOK ==
  ASSUME NEW a \in Nat, NEW b \in Nat
  PROVE  Larger(a, b) \in Nat /\ Larger(a, b) >= a /\ Larger(a, b) >= b
  BY DEF Larger

(* The map's bound does not shrink as more keys count as live.             *)
LEMMA SizeGrows ==
  ASSUME NEW a \in Nat, NEW b \in Nat, a <= b, NEW x \in Nat, x <= Larger(MaxKeys, 2 * a)
  PROVE  x <= Larger(MaxKeys, 2 * b)
  BY LimiterAssumption DEF Larger

(* The limiter starts in the inductive invariant.                          *)
LEMMA InitOK == Init => IInv
<1> SUFFICES ASSUME Init PROVE IInv
  OBVIOUS
<1> USE LimiterAssumption
<1>1. DOMAIN keys = {} /\ now = 0 /\ lastSweep = 0 /\ sweepAt = MaxKeys /\ peak = 0
  BY DEF Init
<1>2. hist \in [Key -> Seq(Nat)] /\ \A k \in Key : hist[k] = <<>>
  BY DEF Init
<1>3. TypeOK
  <2>1. PICK k \in Key : answer = [key |-> k, ok |-> TRUE, nth |-> 0]
    BY DEF Init
  <2>2. answer \in [key : Key, ok : BOOLEAN, nth : Nat]
    BY <2>1
  <2> QED BY <1>1, <1>2, <2>2 DEF TypeOK
<1>4. \A k \in Key : KeyInv(k)
  BY <1>1, <1>2 DEF KeyInv, History, Nats, Sorted, UpTo, Spaced
<1>5. SweepInv
  BY <1>1 DEF SweepInv
<1>6. SizeInv
  <2>1. Cardinality(DOMAIN keys) = 0
    BY <1>1, FS_EmptySet
  <2>2. LiveAtSweep = {}
    BY <1>2 DEF LiveAtSweep
  <2>3. Cardinality(LiveAtSweep) = 0
    BY <2>2, FS_EmptySet
  <2> QED BY <1>1, <2>1, <2>3 DEF SizeInv, Larger
<1> QED BY <1>1, <1>3, <1>4, <1>5, <1>6 DEF IInv

(* The clock moves on: logs only get older.                                *)
LEMMA TickOK == IInv /\ Tick => IInv'
<1> SUFFICES ASSUME IInv, Tick PROVE IInv'
  OBVIOUS
<1> USE LimiterAssumption
<1>0. /\ now \in Nat /\ now' = now + 1
      /\ keys' = keys /\ sweepAt' = sweepAt /\ lastSweep' = lastSweep /\ peak' = peak
      /\ hist' = hist /\ answer' = answer
  BY DEF Tick, IInv, TypeOK
<1>1. TypeOK'
  BY <1>0 DEF IInv, TypeOK
<1>2. ASSUME NEW k \in Key
      PROVE  KeyInv(k)'
  <2>1. KeyInv(k)
    BY DEF IInv
  <2>2. PICK h : h = hist[k] /\ h = hist'[k]
    BY <1>0
  <2>3. PICK n \in Nat : n = Len(h) /\ Nats(h, n)
    BY <2>1, <2>2, EmptyLen DEF KeyInv, History
  <2>4. PICK c0 \in Int, c \in Int : c0 = now - Window /\ c = now' - Window /\ c0 <= c
    BY <1>0
  <2>5. /\ UpTo(h, n, now) => UpTo(h, n, now')
        /\ UpTo(h, n, c0) => UpTo(h, n, c)
        /\ \A ts, m, head : Suffix(ts, m, head, h, n, c0) => Suffix(ts, m, head, h, n, c)
    BY <1>0, <2>3, <2>4, LaterCutoff
  <2>6. History(h, now')
    BY <2>1, <2>2, <2>3, <2>5 DEF KeyInv, History
  <2>7. k \in DOMAIN keys => KeyLog(keys[k], h, c)
    BY <2>1, <2>2, <2>3, <2>4, <2>5 DEF KeyInv, KeyLog
  <2>8. k \notin DOMAIN keys => UpTo(h, Len(h), c)
    BY <2>1, <2>2, <2>3, <2>4, <2>5 DEF KeyInv
  <2> QED BY <1>0, <2>2, <2>4, <2>6, <2>7, <2>8 DEF KeyInv
<1>3. SweepInv'
  BY <1>0 DEF IInv, SweepInv
<1>4. SizeInv'
  <2>1. LiveAtSweep' = LiveAtSweep
    BY <1>0 DEF LiveAtSweep
  <2> QED BY <1>0, <2>1 DEF IInv, SizeInv
<1>5. lastSweep' <= now'
  BY <1>0 DEF IInv, TypeOK
<1> QED BY <1>1, <1>2, <1>3, <1>4, <1>5 DEF IInv

(* What the three ways of a call have in common.                           *)
LEMMA CallCommon ==
  ASSUME IInv, NEW k \in Key, NEW l, NEW kept \in SUBSET DOMAIN keys,
         KeyLog(l, hist[k], now - Window), Decide(k, l, kept), now' = now,
         \A j \in DOMAIN keys : j # k /\ j \notin kept => Idle(keys[j], now - Window),
         sweepAt' \in Nat, lastSweep' \in Nat, peak' \in Nat
  PROVE  TypeOK' /\ \A j \in Key : KeyInv(j)'
<1>1. \A j \in Key : KeyInv(j)'
  BY DecideOK
<1>2. /\ DOMAIN keys' = kept \cup {k}
      /\ hist' \in [Key -> Seq(Nat)]
      /\ answer' \in [key : Key, ok : BOOLEAN, nth : Nat]
  BY DecideShape
<1>3. DOMAIN keys' \in SUBSET Key /\ now' \in Nat
  BY <1>2 DEF IInv, TypeOK
<1>4. \A j \in DOMAIN keys' : keys'[j] \in EventLog
  BY <1>1, <1>3 DEF KeyInv, KeyLog
<1> QED BY <1>1, <1>2, <1>3, <1>4 DEF TypeOK

(* A call for a key the map holds keeps the invariant.                     *)
LEMMA AllowKnownOK ==
  ASSUME IInv, NEW k \in Key, AllowKnown(k)
  PROVE  IInv'
<1> USE LimiterAssumption
<1>0. /\ k \in DOMAIN keys /\ Decide(k, keys[k], DOMAIN keys)
      /\ now' = now /\ sweepAt' = sweepAt /\ lastSweep' = lastSweep /\ peak' = peak
  BY DEF AllowKnown
<1>1. PICK l : l = keys[k] /\ KeyLog(l, hist[k], now - Window)
  BY <1>0 DEF IInv, KeyInv
<1>2. PICK kept \in SUBSET DOMAIN keys : kept = DOMAIN keys
  OBVIOUS
<1>3. Decide(k, l, kept) /\ sweepAt' \in Nat /\ lastSweep' \in Nat /\ peak' \in Nat
  BY <1>0, <1>1, <1>2 DEF IInv, TypeOK
<1>4. TypeOK' /\ \A j \in Key : KeyInv(j)'
  <2>1. \A j \in DOMAIN keys : j # k /\ j \notin kept => Idle(keys[j], now - Window)
    BY <1>2
  <2>2. KeyLog(l, hist[k], now - Window) /\ now' = now
    BY <1>0, <1>1
  <2> QED BY <1>3, <2>1, <2>2, CallCommon
<1>5. /\ DOMAIN keys' = DOMAIN keys
      /\ \A j \in DOMAIN keys : j # k => keys'[j] = keys[j]
      /\ \A j \in Key : Prefix(hist[j], hist'[j])
      /\ Max > 0 => /\ keys'[k].ts # <<>>
                    /\ \/ Last(keys'[k].ts) = now
                       \/ l.ts # <<>> /\ Last(keys'[k].ts) = Last(l.ts)
  <2>1. kept \cup {k} = DOMAIN keys
    BY <1>0, <1>2
  <2> QED BY <1>1, <1>2, <1>3, <2>1, DecideShape
<1>6. SweepInv'
  <2> SUFFICES ASSUME Max > 0, NEW j \in DOMAIN keys'
               PROVE  keys'[j].ts # <<>> /\ Last(keys'[j].ts) > lastSweep' - Window
    BY DEF SweepInv
  <2>1. keys[j].ts # <<>> /\ Last(keys[j].ts) > lastSweep - Window
    BY <1>5 DEF IInv, SweepInv
  <2>2. CASE j # k
    BY <1>0, <1>5, <2>1, <2>2
  <2>3. CASE j = k
    <3>1. now > lastSweep - Window
      BY DEF IInv, TypeOK
    <3> QED BY <1>0, <1>1, <1>5, <2>1, <2>3, <3>1
  <2> QED BY <2>2, <2>3
<1>7. SizeInv'
  <2>1. Cardinality(LiveAtSweep) \in Nat /\ Cardinality(LiveAtSweep') \in Nat /\
        Cardinality(LiveAtSweep) <= Cardinality(LiveAtSweep')
    BY <1>0, <1>5, LiveGrows DEF IInv, TypeOK
  <2>2. /\ Cardinality(DOMAIN keys') <= sweepAt' /\ sweepAt' \in Nat
        /\ sweepAt' <= Larger(MaxKeys, 2 * Cardinality(LiveAtSweep))
    BY <1>0, <1>5 DEF IInv, SizeInv, TypeOK
  <2> QED BY <2>1, <2>2, SizeGrows DEF SizeInv
<1> QED BY <1>0, <1>4, <1>6, <1>7 DEF IInv

(* So does a call that inserts a key without a sweep ...                   *)
LEMMA AllowNewOK ==
  ASSUME IInv, NEW k \in Key, AllowNew(k)
  PROVE  /\ IInv'
         /\ Max > 0 => \A j \in DOMAIN keys' : ~Idle(keys'[j], now - 2 * Window)
<1> USE LimiterAssumption
<1>0. /\ k \notin DOMAIN keys /\ ~SweepDue /\ Decide(k, EmptyLog, DOMAIN keys)
      /\ peak' = Larger(peak, Cardinality(DOMAIN keys) + 1)
      /\ now' = now /\ sweepAt' = sweepAt /\ lastSweep' = lastSweep
  BY DEF AllowNew
<1>1. PICK l : l = EmptyLog /\ KeyLog(l, hist[k], now - Window)
  <2>1. /\ hist[k] \in Seq(Nat) /\ UpTo(hist[k], Len(hist[k]), now - Window)
        /\ now - Window \in Int
    <3>1. hist[k] \in Seq(Nat) /\ now - Window \in Int
      BY DEF IInv, TypeOK
    <3>2. KeyInv(k)
      BY DEF IInv
    <3> QED BY <1>0, <3>1, <3>2 DEF KeyInv
  <2> QED BY <2>1, FreshLog
<1>2. PICK kept \in SUBSET DOMAIN keys : kept = DOMAIN keys
  OBVIOUS
<1>3. IsFiniteSet(DOMAIN keys) /\ Cardinality(DOMAIN keys) \in Nat
  BY FS_Subset, FS_CardinalityType DEF IInv, TypeOK
<1>4. Decide(k, l, kept) /\ sweepAt' \in Nat /\ lastSweep' \in Nat /\ peak' \in Nat
  <2>1. peak' \in Nat
    BY <1>0, <1>3, LargerOK DEF IInv, TypeOK
  <2> QED BY <1>0, <1>1, <1>2, <2>1 DEF IInv, TypeOK
<1>5. TypeOK' /\ \A j \in Key : KeyInv(j)'
  <2>1. \A j \in DOMAIN keys : j # k /\ j \notin kept => Idle(keys[j], now - Window)
    BY <1>2
  <2>2. KeyLog(l, hist[k], now - Window) /\ now' = now
    BY <1>0, <1>1
  <2> QED BY <1>4, <2>1, <2>2, CallCommon
<1>6. /\ DOMAIN keys' = DOMAIN keys \cup {k}
      /\ \A j \in DOMAIN keys : j # k => keys'[j] = keys[j]
      /\ \A j \in Key : Prefix(hist[j], hist'[j])
      /\ Max > 0 => keys'[k].ts # <<>> /\ Last(keys'[k].ts) = now
  <2>1. l.ts = <<>>
    BY <1>1 DEF EmptyLog
  <2> QED BY <1>1, <1>2, <1>4, <2>1, DecideShape
<1>7. SweepInv'
  <2> SUFFICES ASSUME Max > 0, NEW j \in DOMAIN keys'
               PROVE  keys'[j].ts # <<>> /\ Last(keys'[j].ts) > lastSweep' - Window
    BY DEF SweepInv
  <2>1. CASE j # k
    <3>1. keys[j].ts # <<>> /\ Last(keys[j].ts) > lastSweep - Window
      BY <1>6, <2>1 DEF IInv, SweepInv
    <3> QED BY <1>0, <1>6, <2>1, <3>1
  <2>2. CASE j = k
    <3>1. now > lastSweep - Window
      BY DEF IInv, TypeOK
    <3>2. keys'[k].ts # <<>> /\ Last(keys'[k].ts) = now
      BY <1>6
    <3>3. lastSweep' = lastSweep
      BY <1>0
    <3> QED BY <2>2, <3>1, <3>2, <3>3
  <2> QED BY <2>1, <2>2
<1>8. SizeInv'
  <2>1. Cardinality(LiveAtSweep) \in Nat /\ Cardinality(LiveAtSweep') \in Nat /\
        Cardinality(LiveAtSweep) <= Cardinality(LiveAtSweep')
    <3>1. lastSweep' = lastSweep /\ hist \in [Key -> Seq(Nat)]
      BY <1>0 DEF IInv, TypeOK
    <3>2. \A j \in Key : Prefix(hist[j], hist'[j])
      BY <1>6
    <3> QED BY <3>1, <3>2, LiveGrows
  <2>2. Cardinality(DOMAIN keys') = Cardinality(DOMAIN keys) + 1
    BY <1>0, <1>3, <1>6, FS_AddElement
  <2>3. /\ Cardinality(DOMAIN keys') <= sweepAt' /\ sweepAt' \in Nat
        /\ sweepAt' <= Larger(MaxKeys, 2 * Cardinality(LiveAtSweep))
    <3>1. sweepAt' = sweepAt /\ ~SweepDue
      BY <1>0
    <3>2. sweepAt \in Nat /\ sweepAt <= Larger(MaxKeys, 2 * Cardinality(LiveAtSweep))
      BY DEF IInv, SizeInv, TypeOK
    <3>3. Cardinality(DOMAIN keys) < sweepAt
      BY <1>3, <3>1, <3>2 DEF SweepDue
    <3> QED BY <1>3, <2>2, <3>1, <3>2, <3>3
  <2> QED BY <2>1, <2>3, SizeGrows DEF SizeInv
<1>9. IInv'
  BY <1>0, <1>5, <1>7, <1>8 DEF IInv
<1>10. ASSUME Max > 0, NEW j \in DOMAIN keys'
       PROVE  ~Idle(keys'[j], now - 2 * Window)
  <2>1. keys'[j].ts # <<>> /\ Last(keys'[j].ts) > lastSweep - Window
    BY <1>0, <1>7, <1>10 DEF SweepInv
  <2>2. lastSweep - Window > now - 2 * Window /\ now \in Nat /\ lastSweep \in Nat
    <3>1. ~ (now - lastSweep >= Window)
      BY <1>0 DEF SweepDue
    <3>2. now \in Nat /\ lastSweep \in Nat
      BY DEF IInv, TypeOK
    <3> QED BY <1>0, <3>1, <3>2
  <2>3. Last(keys'[j].ts) \in Nat
    <3>1. keys'[j].ts \in Seq(Nat)
      BY <1>5 DEF TypeOK, EventLog
    <3> QED BY <2>1, <3>1 DEF Last
  <2>4. ~ (Last(keys'[j].ts) <= now - 2 * Window)
    <3>1. PICK x \in Nat : x = Last(keys'[j].ts)
      BY <2>3
    <3>2. PICK a \in Int : a = lastSweep - Window /\ x > a
      BY <2>1, <2>2, <3>1
    <3>3. PICK b \in Int : b = now - 2 * Window /\ a > b
      BY <2>2, <3>2
    <3> QED BY <3>1, <3>2, <3>3
  <2> QED BY <2>1, <2>4 DEF Idle, Last
<1> QED BY <1>9, <1>10

(* What a sweep keeps was live when it swept.                              *)
LEMMA UnexpiredLive ==
  ASSUME IInv, lastSweep' = now, \A j \in Key : Prefix(hist[j], hist'[j])
  PROVE  Unexpired \subseteq LiveAtSweep'
<1> SUFFICES ASSUME NEW j \in Unexpired PROVE j \in LiveAtSweep'
  OBVIOUS
<1> USE LimiterAssumption
<1>1. j \in DOMAIN keys /\ j \in Key /\ ~Idle(keys[j], now - Window)
  BY DEF Unexpired, IInv, TypeOK
<1>2. PICK h, l : h = hist[j] /\ l = keys[j]
  OBVIOUS
<1>3. History(h, now) /\ KeyLog(l, h, now - Window) /\ now \in Nat
  BY <1>1, <1>2 DEF IInv, KeyInv, TypeOK
<1>4. PICK n \in Nat : n = Len(h) /\ Nats(h, n) /\ UpTo(h, n, now) /\ h \in Seq(Nat)
  <2>1. h \in Seq(Nat) /\ Nats(h, Len(h)) /\ UpTo(h, Len(h), now)
    BY <1>3 DEF History
  <2>2. Len(h) \in Nat
    BY <2>1
  <2> QED BY <2>1, <2>2
<1>5. l.ts \in Seq(Nat) /\ l.head \in Nat
  BY <1>3 DEF KeyLog, EventLog
<1>6. PICK m \in Nat : m = Len(l.ts)
  BY <1>5, EmptyLen
<1>7. m > 0 /\ ~ (l.ts[m] <= now - Window)
  BY <1>1, <1>2, <1>5, <1>6, EmptyLen DEF Idle
<1>8. n \in 1 .. n /\ l.ts[m] = h[n]
  <2>1. Suffix(l.ts, m, l.head, h, n, now - Window)
    BY <1>3, <1>4, <1>6 DEF KeyLog
  <2>2. m <= n /\ l.ts[m] = h[n - m + m] /\ n - m + m = n
    BY <1>7, <2>1 DEF Suffix
  <2> QED BY <1>7, <2>2
<1>9. h[n] \in Nat /\ h[n] <= now
  BY <1>4, <1>8 DEF Nats, UpTo
<1>10. now - Window < h[n]
  BY <1>3, <1>7, <1>8, <1>9
<1>11. n \in DOMAIN hist'[j] /\ hist'[j][n] = h[n]
  <2>1. n \in DOMAIN h
    BY <1>4, <1>8
  <2>2. Prefix(h, hist'[j])
    BY <1>1, <1>2
  <2> QED BY <2>1, <2>2 DEF Prefix
<1> QED BY <1>1, <1>9, <1>10, <1>11 DEF LiveAtSweep

(* ... and one that first evicts the idle keys.                            *)
LEMMA AllowNewSweepingOK ==
  ASSUME IInv, NEW k \in Key, AllowNewSweeping(k)
  PROVE  /\ IInv'
         /\ Max > 0 => \A j \in DOMAIN keys' : ~Idle(keys'[j], now - 2 * Window)
<1> USE LimiterAssumption
<1>a. IsFiniteSet(Unexpired) /\ Cardinality(Unexpired) \in Nat
  <2>1. Unexpired \subseteq Key
    BY DEF Unexpired, IInv, TypeOK
  <2> QED BY <2>1, FS_Subset, FS_CardinalityType
<1>b. PICK n \in Nat : n = Cardinality(Unexpired)
  BY <1>a
<1>0. /\ k \notin DOMAIN keys /\ Decide(k, EmptyLog, Unexpired)
      /\ peak' = Larger(IF 4 * n < peak THEN n ELSE peak, n + 1)
      /\ sweepAt' = Larger(MaxKeys, 2 * n)
      /\ now' = now /\ lastSweep' = now
  BY <1>b DEF AllowNewSweeping
<1>1. PICK l : l = EmptyLog /\ KeyLog(l, hist[k], now - Window)
  <2>1. /\ hist[k] \in Seq(Nat) /\ UpTo(hist[k], Len(hist[k]), now - Window)
        /\ now - Window \in Int
    <3>1. hist[k] \in Seq(Nat) /\ now - Window \in Int
      BY DEF IInv, TypeOK
    <3>2. KeyInv(k)
      BY DEF IInv
    <3> QED BY <1>0, <3>1, <3>2 DEF KeyInv
  <2> QED BY <2>1, FreshLog
<1>2. PICK kept \in SUBSET DOMAIN keys : kept = Unexpired
  BY DEF Unexpired
<1>3. \A j \in DOMAIN keys : j # k /\ j \notin kept => Idle(keys[j], now - Window)
  BY <1>2 DEF Unexpired
<1>4. Decide(k, l, kept) /\ sweepAt' \in Nat /\ lastSweep' \in Nat /\ peak' \in Nat
  <2>1. sweepAt' \in Nat
    BY <1>0, LargerOK
  <2>2. peak' \in Nat
    <3>1. PICK a \in Nat : a = IF 4 * n < peak THEN n ELSE peak
      BY DEF IInv, TypeOK
    <3>2. peak' = Larger(a, n + 1) /\ n + 1 \in Nat
      BY <1>0, <3>1
    <3> QED BY <3>1, <3>2, LargerOK
  <2> QED BY <1>0, <1>1, <1>2, <2>1, <2>2 DEF IInv, TypeOK
<1>5. TypeOK' /\ \A j \in Key : KeyInv(j)'
  BY <1>0, <1>1, <1>2, <1>3, <1>4, CallCommon
<1>6. /\ DOMAIN keys' = Unexpired \cup {k}
      /\ \A j \in Unexpired : j # k => keys'[j] = keys[j]
      /\ \A j \in Key : Prefix(hist[j], hist'[j])
      /\ Max > 0 => keys'[k].ts # <<>> /\ Last(keys'[k].ts) = now
  <2>1. l.ts = <<>>
    BY <1>1 DEF EmptyLog
  <2> QED BY <1>1, <1>2, <1>4, <2>1, DecideShape
<1>7. ASSUME Max > 0, NEW j \in DOMAIN keys'
      PROVE  keys'[j].ts # <<>> /\ Last(keys'[j].ts) > now - Window
  <2>1. CASE j # k
    <3>1. j \in Unexpired /\ keys'[j] = keys[j]
      BY <1>6, <2>1
    <3>2. ~Idle(keys[j], now - Window)
      BY <3>1 DEF Unexpired
    <3>3. keys'[j].ts \in Seq(Nat) /\ now \in Nat
      BY <1>5 DEF TypeOK, EventLog, IInv
    <3>4. keys'[j].ts # <<>> /\ ~ (Last(keys'[j].ts) <= now - Window)
      BY <3>1, <3>2 DEF Idle, Last
    <3>5. Last(keys'[j].ts) \in Nat
      BY <3>3, <3>4 DEF Last
    <3> QED BY <3>3, <3>4, <3>5
  <2>2. CASE j = k
    <3>1. now > now - Window
      BY DEF IInv, TypeOK
    <3> QED BY <1>6, <1>7, <2>2, <3>1
  <2> QED BY <2>1, <2>2
<1>8. SweepInv'
  BY <1>0, <1>7 DEF SweepInv
<1>9. SizeInv'
  <2>1. Unexpired \subseteq LiveAtSweep'
    BY <1>0, <1>6, UnexpiredLive
  <2>2. IsFiniteSet(LiveAtSweep') /\ Cardinality(LiveAtSweep') \in Nat
    <3>1. LiveAtSweep' \subseteq Key
      BY DEF LiveAtSweep
    <3> QED BY <3>1, FS_Subset, FS_CardinalityType
  <2>3. n <= Cardinality(LiveAtSweep')
    BY <1>b, <2>1, <2>2, FS_Subset
  <2>4. Cardinality(DOMAIN keys') <= n + 1 /\ Cardinality(DOMAIN keys') \in Nat
    <3>1. Cardinality(Unexpired \cup {k}) =
            IF k \in Unexpired THEN Cardinality(Unexpired) ELSE Cardinality(Unexpired) + 1
      BY <1>a, FS_AddElement
    <3> QED BY <1>b, <1>6, <3>1
  <2>5. n + 1 <= Larger(MaxKeys, 2 * n) /\ Larger(MaxKeys, 2 * n) \in Nat
    BY DEF Larger
  <2>6. Larger(MaxKeys, 2 * n) <= Larger(MaxKeys, 2 * Cardinality(LiveAtSweep'))
    BY <2>2, <2>3, <2>5, SizeGrows
  <2> QED BY SMTT(30), <1>0, <2>4, <2>5, <2>6 DEF SizeInv
<1>10. IInv'
  <2>1. lastSweep' <= now'
    BY <1>0 DEF IInv, TypeOK
  <2> QED BY <1>5, <1>8, <1>9, <2>1 DEF IInv
<1>11. ASSUME Max > 0, NEW j \in DOMAIN keys'
       PROVE  ~Idle(keys'[j], now - 2 * Window)
  <2>1. keys'[j].ts # <<>> /\ Last(keys'[j].ts) > now - Window
    BY <1>7, <1>11
  <2>2. now - Window > now - 2 * Window /\ now \in Nat
    BY DEF IInv, TypeOK
  <2>3. Last(keys'[j].ts) \in Nat
    <3>1. keys'[j].ts \in Seq(Nat)
      BY <1>5 DEF TypeOK, EventLog
    <3> QED BY <2>1, <3>1 DEF Last
  <2>4. ~ (Last(keys'[j].ts) <= now - 2 * Window)
    <3>1. PICK x \in Nat : x = Last(keys'[j].ts)
      BY <2>3
    <3>2. PICK a \in Int : a = now - Window /\ x > a
      BY <2>1, <2>2, <3>1
    <3>3. PICK b \in Int : b = now - 2 * Window /\ a > b
      BY <2>2, <3>2
    <3> QED BY <3>1, <3>2, <3>3
  <2> QED BY <2>1, <2>4 DEF Idle, Last
<1> QED BY <1>10, <1>11

(* Every step keeps the invariant.                                         *)
LEMMA StepOK == IInv /\ [Next]_vars => IInv'
<1> SUFFICES ASSUME IInv, [Next]_vars PROVE IInv'
  OBVIOUS
<1>1. CASE Tick
  BY <1>1, TickOK
<1>2. ASSUME NEW k \in Key, Allow(k)
      PROVE  IInv'
  BY <1>2, AllowKnownOK, AllowNewOK, AllowNewSweepingOK DEF Allow
<1>3. CASE UNCHANGED vars
  <2>1. /\ now' = now /\ keys' = keys /\ sweepAt' = sweepAt /\ lastSweep' = lastSweep
        /\ peak' = peak /\ hist' = hist /\ answer' = answer
    BY <1>3 DEF vars
  <2>2. TypeOK'
    BY <2>1 DEF IInv, TypeOK
  <2>3. \A k \in Key : KeyInv(k)'
    BY <2>1 DEF IInv, KeyInv
  <2>4. LiveAtSweep' = LiveAtSweep
    BY <2>1 DEF LiveAtSweep
  <2> QED BY <2>1, <2>2, <2>3, <2>4 DEF IInv, SweepInv, SizeInv
<1> QED BY <1>1, <1>2, <1>3 DEF Next

(* allowLocked keeps the inductive invariant: every log is the end of its  *)
(* history, in order, lean and within its bounds.                          *)
THEOREM Invariance == Spec => []IInv
  BY InitOK, StepOK, PTL DEF Spec

-------------------------------------------------------------------------------
(* Theorems *)

(* The limiter's state keeps its type, whatever the calls and the clock.   *)
THEOREM TypeCorrect == Spec => []TypeOK
<1>1. IInv => TypeOK
  BY DEF IInv
<1> QED BY <1>1, Invariance, PTL

(* No key is admitted more than Max times in any window, although expired  *)
(* events are dropped lazily and idle keys are forgotten.                  *)
THEOREM RateBounded == Spec => []RateBound
<1>1. ASSUME IInv, NEW k \in Key, NEW i \in DOMAIN hist[k], i + Max \in DOMAIN hist[k]
      PROVE  hist[k][i + Max] - hist[k][i] >= Window
  <2>1. PICK h : h = hist[k] /\ h \in Seq(Nat) /\ Spaced(h, Len(h))
    BY <1>1 DEF IInv, KeyInv, History
  <2>2. i \in 1 .. Len(h) /\ i + Max <= Len(h)
    BY <1>1, <2>1, LimiterAssumption
  <2> QED BY <2>1, <2>2 DEF Spaced
<1>2. IInv => RateBound
  BY <1>1 DEF RateBound
<1> QED BY <1>2, Invariance, PTL

(* A key's log never grows to twice what a window can hold.                *)
THEOREM LogsCompact == Spec => []LogCompact
<1>1. ASSUME IInv, NEW k \in DOMAIN keys, Len(keys[k].ts) > 0
      PROVE  Len(keys[k].ts) < 2 * Max
  <2>1. KeyLog(keys[k], hist[k], now - Window)
    BY <1>1 DEF IInv, KeyInv, TypeOK
  <2>2. PICK m \in Nat, head \in Nat : m = Len(keys[k].ts) /\ head = keys[k].head
    BY <2>1, EmptyLen DEF KeyLog, EventLog
  <2>3. Lean(m, head) /\ m - head <= Max
    BY <2>1, <2>2 DEF KeyLog
  <2> QED BY <1>1, <2>2, <2>3, LimiterAssumption DEF Lean
<1>2. IInv => LogCompact
  BY <1>1 DEF LogCompact
<1> QED BY <1>2, Invariance, PTL

(* The map stays within MaxKeys or twice the keys live at the last sweep.  *)
THEOREM MapIsBounded == Spec => []MapBounded
<1>1. ASSUME IInv PROVE MapBounded
  <2>1. IsFiniteSet(DOMAIN keys) /\ Cardinality(DOMAIN keys) \in Nat
    BY <1>1, LimiterAssumption, FS_Subset, FS_CardinalityType DEF IInv, TypeOK
  <2>2. LiveAtSweep \subseteq Key
    BY DEF LiveAtSweep
  <2>3. Cardinality(LiveAtSweep) \in Nat
    BY <2>2, LimiterAssumption, FS_Subset, FS_CardinalityType
  <2>4. PICK b \in Nat : b = Larger(MaxKeys, 2 * Cardinality(LiveAtSweep))
    <3>1. PICK n \in Nat : n = Cardinality(LiveAtSweep)
      BY <2>3
    <3>2. Larger(MaxKeys, 2 * n) \in Nat
      BY LimiterAssumption, LargerOK
    <3> QED BY <3>1, <3>2
  <2> QED BY <1>1, <2>1, <2>4 DEF IInv, SizeInv, MapBounded, TypeOK
<1> QED BY <1>1, Invariance, PTL

(* Inserting a key leaves no key in the map that has been idle for two     *)
(* windows.                                                                *)
THEOREM NewKeyShedsIdle == Spec => NewKeySheds
<1> DEFINE Sheds == \A k \in DOMAIN keys' \ DOMAIN keys : \A j \in DOMAIN keys' :
                      Max > 0 => ~Idle(keys'[j], now - 2 * Window)
<1>1. ASSUME IInv, [Next]_vars PROVE [Sheds]_vars
  <2>1. CASE Tick
    BY <2>1 DEF Tick
  <2>2. ASSUME NEW k \in Key, Allow(k)
        PROVE  Sheds
    <3>1. CASE AllowKnown(k)
      BY <3>1 DEF AllowKnown, Decide
    <3> QED BY <1>1, <2>2, <3>1, AllowNewOK, AllowNewSweepingOK DEF Allow
  <2> QED BY <1>1, <2>1, <2>2 DEF Next
<1> QED BY <1>1, Invariance, PTL DEF Spec, NewKeySheds

-------------------------------------------------------------------------------
(* Refinement: a call that finds room is an Admit, one that does not is a  *)
(* Deny, because the live events of a tight log are the counted ones.      *)
LEMMA SameCardinality == \A T : W!Cardinality(T) = Cardinality(T)
  BY DEF W!Cardinality, Cardinality

(* A call of allow is an Admit or a Deny of the abstract limiter.          *)
LEMMA DecideImplements ==
  ASSUME IInv, NEW k \in Key, NEW l, NEW kept, KeyLog(l, hist[k], now - Window),
         Decide(k, l, kept), now' = now
  PROVE  W!Admit(k) \/ W!Deny(k)
<1> USE LimiterAssumption
<1>0. now \in Nat /\ now - Window \in Int /\ hist \in [Key -> Seq(Nat)]
  BY DEF IInv, TypeOK
<1>1. PICK e : e = Expire(l, now - Window)
  OBVIOUS
<1>2. PICK h : h = hist[k]
  OBVIOUS
<1>3. PICK g : g = IF Admits(e) THEN Append(h, now) ELSE h
  OBVIOUS
<1>4. Admits(e) <=> Cardinality({i \in 1 .. Len(h) : h[i] > now - Window}) < Max
  <2>1. PICK c0 \in Int : c0 = now - Window /\ c0 <= now - Window
    BY <1>0
  <2>2. History(h, now) /\ KeyLog(l, h, c0)
    BY <1>2, <2>1 DEF IInv, KeyInv
  <2> QED BY <1>0, <1>1, <1>3, <2>1, <2>2, CallOK
<1>5. PICK S : S = {i \in 1 .. Len(h) : h[i] > now - Window}
  OBVIOUS
<1>6. W!Counted(k) = S
  <2>1. DOMAIN h = 1 .. Len(h)
    BY <1>0, <1>2
  <2> QED BY <1>2, <1>5, <2>1 DEF W!Counted
<1>7. Cardinality(S) \in Nat
  <2>1. S \subseteq 1 .. Len(h) /\ Len(h) \in Nat
    BY <1>0, <1>2, <1>5
  <2>2. IsFiniteSet(1 .. Len(h))
    BY <2>1, FS_Interval
  <2> QED BY <2>1, <2>2, FS_Subset, FS_CardinalityType
<1>8. CASE Admits(e)
  <2>1. hist' = [hist EXCEPT ![k] = Append(@, now)]
    BY SMTT(30), <1>0, <1>1, <1>8 DEF Decide
  <2>2. answer' = [key |-> k, ok |-> TRUE, nth |-> answer.nth + 1]
    BY <1>1, <1>8 DEF Decide
  <2>3. Cardinality(W!Counted(k)) < Max
    BY <1>4, <1>5, <1>6, <1>8
  <2> QED BY <2>1, <2>2, <2>3, SameCardinality DEF W!Admit, W!Reply
<1>9. CASE ~Admits(e)
  <2>1. hist' = hist
    BY <1>0, <1>1, <1>9 DEF Decide
  <2>2. answer' = [key |-> k, ok |-> FALSE, nth |-> answer.nth + 1]
    <3>1. Admits(e) = FALSE
      BY <1>9 DEF Admits
    <3>2. answer' = [key |-> k, ok |-> Admits(e), nth |-> answer.nth + 1]
      BY <1>1 DEF Decide
    <3> QED BY <3>1, <3>2, Zenon
  <2>3. Cardinality(W!Counted(k)) >= Max
    BY <1>4, <1>5, <1>6, <1>7, <1>9
  <2> QED BY <2>1, <2>2, <2>3, SameCardinality DEF W!Deny, W!Reply
<1> QED BY <1>8, <1>9

(* Lazy expiry, compaction, sweeping and rebuilding the map change no      *)
(* decision: the limiter implements the one that keeps all of history.     *)
THEOREM Implements == Spec => ImplementsWindow
<1>1. Init => W!Init
  BY DEF Init, W!Init
<1>2. ASSUME IInv, [Next]_vars PROVE [W!Next]_(W!vars)
  <2>1. CASE Tick
    BY <2>1 DEF Tick, W!Next, W!Tick
  <2>2. ASSUME NEW k \in Key, Allow(k)
        PROVE  W!Next
    <3>0. KeyInv(k) /\ hist[k] \in Seq(Nat) /\ now - Window \in Int
      BY <1>2, LimiterAssumption DEF IInv, TypeOK
    <3>1. CASE AllowKnown(k)
      <4>1. PICK l : l = keys[k] /\ KeyLog(l, hist[k], now - Window)
        BY <3>0, <3>1 DEF AllowKnown, KeyInv
      <4>2. Decide(k, l, DOMAIN keys) /\ now' = now
        BY <3>1, <4>1 DEF AllowKnown
      <4>3. PICK kept : kept = DOMAIN keys
        OBVIOUS
      <4>4. W!Admit(k) \/ W!Deny(k)
        BY <1>2, <4>1, <4>2, <4>3, DecideImplements
      <4> QED BY <4>4 DEF W!Next
    <3>2. ASSUME k \notin DOMAIN keys
          PROVE  KeyLog(EmptyLog, hist[k], now - Window)
      BY SMTT(30), <3>0, <3>2, FreshLog DEF KeyInv
    <3>3. CASE AllowNew(k)
      BY <1>2, <3>2, <3>3, DecideImplements DEF AllowNew, W!Next
    <3>4. CASE AllowNewSweeping(k)
      BY <1>2, <3>2, <3>4, DecideImplements DEF AllowNewSweeping, W!Next
    <3> QED BY <2>2, <3>1, <3>3, <3>4 DEF Allow
  <2>3. CASE UNCHANGED vars
    BY <2>3 DEF vars, W!vars
  <2> QED BY <1>2, <2>1, <2>2, <2>3 DEF Next
<1> QED BY <1>1, <1>2, Invariance, PTL DEF Spec, ImplementsWindow, W!Spec
===============================================================================
