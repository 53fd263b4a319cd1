-------------------------- MODULE MembershipProofs ----------------------------
(***************************************************************************)
(* Theorems about Settings and Membership, for all settings the program    *)
(* may be started with, any bands, sources, losses and refusals: how the   *)
(* groups are dealt to workers, where the beacon is sent, whose socket a   *)
(* join is made on, and what a worker that is up is a member of.           *)
(***************************************************************************)
EXTENDS Membership, TLAPS

Elements(s) == {s[i] : i \in 1 .. Len(s)}
Distinct(s) == \A i, j \in 1 .. Len(s) : s[i] = s[j] => i = j
Apart(s, t) == Elements(s) \cap Elements(t) = {}

-------------------------------------------------------------------------------
(* Sequences and numbers.                                                  *)

LEMMA Joined ==
  ASSUME NEW S, NEW s \in Seq(S), NEW t \in Seq(S)
  PROVE  /\ s \o t \in Seq(S) /\ Len(s \o t) = Len(s) + Len(t)
         /\ Elements(s \o t) = Elements(s) \cup Elements(t)
         /\ Distinct(s) /\ Distinct(t) /\ Elements(s) \cap Elements(t) = {} => Distinct(s \o t)
<1>1. s \o t \in Seq(S) /\ Len(s \o t) = Len(s) + Len(t) /\ Len(s) \in Nat /\ Len(t) \in Nat
  OBVIOUS
<1>2. /\ \A i \in 1 .. Len(s) : (s \o t)[i] = s[i]
      /\ \A i \in 1 .. Len(t) : (s \o t)[Len(s) + i] = t[i]
  OBVIOUS
<1>3. \A i \in 1 .. Len(s) + Len(t) :
        i \in 1 .. Len(s) \/ \E k \in 1 .. Len(t) : i = Len(s) + k
  <2> SUFFICES ASSUME NEW i \in 1 .. Len(s) + Len(t), i \notin 1 .. Len(s)
               PROVE  \E k \in 1 .. Len(t) : i = Len(s) + k
    OBVIOUS
  <2>1. i - Len(s) \in 1 .. Len(t) /\ i = Len(s) + (i - Len(s))
    BY <1>1
  <2> QED BY <2>1
<1>4. Elements(s \o t) \subseteq Elements(s) \cup Elements(t)
  BY <1>1, <1>2, <1>3 DEF Elements
<1>5. Elements(s) \cup Elements(t) \subseteq Elements(s \o t)
  <2>1. \A i \in 1 .. Len(s) : i \in 1 .. Len(s \o t)
    BY <1>1
  <2>2. \A i \in 1 .. Len(t) : Len(s) + i \in 1 .. Len(s \o t)
    BY <1>1
  <2> QED BY <2>1, <2>2, <1>2 DEF Elements
<1>6. ASSUME Distinct(s), Distinct(t), Elements(s) \cap Elements(t) = {}
      PROVE  Distinct(s \o t)
  <2> SUFFICES ASSUME NEW i \in 1 .. Len(s) + Len(t), NEW j \in 1 .. Len(s) + Len(t),
                      (s \o t)[i] = (s \o t)[j]
               PROVE  i = j
    BY <1>1 DEF Distinct
  <2>1. \A k \in 1 .. Len(s), l \in 1 .. Len(t) : s[k] # t[l]
    BY <1>6, Zenon DEF Elements
  <2>2. CASE i \in 1 .. Len(s) /\ j \in 1 .. Len(s)
    BY <2>2, <1>2, <1>6 DEF Distinct
  <2>3. CASE i \in 1 .. Len(s) /\ j \notin 1 .. Len(s)
    BY <2>3, <1>2, <1>3, <2>1
  <2>4. CASE i \notin 1 .. Len(s) /\ j \in 1 .. Len(s)
    BY <2>4, <1>2, <1>3, <2>1
  <2>5. CASE i \notin 1 .. Len(s) /\ j \notin 1 .. Len(s)
    <3>1. PICK k \in 1 .. Len(t), l \in 1 .. Len(t) : i = Len(s) + k /\ j = Len(s) + l
      BY <2>5, <1>3
    <3>2. k = l
      BY <3>1, <1>2, <1>6 DEF Distinct
    <3> QED BY <3>1, <3>2
  <2> QED BY <2>2, <2>3, <2>4, <2>5
<1> QED BY <1>1, <1>4, <1>5, <1>6

(* Consecutive indexes.                                                    *)
LEMMA Band ==
  ASSUME NEW n \in Nat, NEW b \in Nat
  PROVE  LET s == [i \in 1 .. n |-> b + i - 1]
         IN  s \in Seq(Nat) /\ Len(s) = n /\ Elements(s) = b .. b + n - 1 /\ Distinct(s)
<1> DEFINE s == [i \in 1 .. n |-> b + i - 1]
<1>1. s \in Seq(Nat) /\ Len(s) = n
  OBVIOUS
<1>2. \A i \in 1 .. n : s[i] = b + i - 1
  OBVIOUS
<1> HIDE DEF s
<1>3. Distinct(s)
  BY <1>1, <1>2 DEF Distinct
<1>4. Elements(s) \subseteq b .. b + n - 1
  BY <1>1, <1>2 DEF Elements
<1>5. ASSUME NEW g \in b .. b + n - 1 PROVE g \in Elements(s)
  <2>1. g - b + 1 \in 1 .. n /\ b + (g - b + 1) - 1 = g
    OBVIOUS
  <2> QED BY <1>1, <1>2, <2>1, Zenon DEF Elements
<1> QED BY <1>1, <1>3, <1>4, <1>5, Zenon DEF s

LEMMA Single ==
  ASSUME NEW S, NEW g \in S
  PROVE  <<g>> \in Seq(S) /\ Len(<<g>>) = 1 /\ Elements(<<g>>) = {g} /\ Distinct(<<g>>)
BY DEF Elements, Distinct

LEMMA None ==
  ASSUME NEW S
  PROVE  <<>> \in Seq(S) /\ Len(<<>>) = 0 /\ Elements(<<>>) = {} /\ Distinct(<<>>)
BY DEF Elements, Distinct

(* Position x is the jth of hand w, for one j and w only.                  *)
LEMMA DealtTo ==
  ASSUME NEW m \in Nat \ {0}, NEW x \in Nat \ {0}
  PROVE  \E w \in 1 .. m, j \in Nat \ {0} : x = (j - 1) * m + w
<1>1. PICK q \in Nat : q = (x - 1) \div m
  OBVIOUS
<1>2. q * m <= x - 1 /\ x - 1 < q * m + m
  BY <1>1
<1>3. q * m \in Int
  OBVIOUS
<1>4. x - q * m \in 1 .. m
  BY <1>2, <1>3
<1>5. x = ((q + 1) - 1) * m + (x - q * m)
  <2>1. (q + 1) - 1 = q
    OBVIOUS
  <2>2. x = q * m + (x - q * m)
    BY <1>3
  <2> QED BY <2>1, <2>2
<1>6. q + 1 \in Nat \ {0}
  OBVIOUS
<1> QED BY <1>4, <1>5, <1>6, Zenon

LEMMA DealtOnce ==
  ASSUME NEW m \in Nat \ {0}, NEW w \in 1 .. m, NEW v \in 1 .. m,
         NEW j \in Nat \ {0}, NEW k \in Nat \ {0}, (j - 1) * m + w = (k - 1) * m + v
  PROVE  w = v /\ j = k
<1> PICK a \in Nat, b \in Nat : a = j - 1 /\ b = k - 1
  OBVIOUS
<1>1. a * m \in Int /\ b * m \in Int /\ a * m + w = b * m + v
  OBVIOUS
<1>2. a < b => a * m + m <= b * m
  OBVIOUS
<1>3. b < a => b * m + m <= a * m
  OBVIOUS
<1>4. ~ (a < b)
  BY <1>1, <1>2
<1>5. ~ (b < a)
  BY <1>1, <1>3
<1>6. a = b
  BY <1>4, <1>5
<1>7. w = v
  BY <1>1, <1>6
<1> QED BY <1>6, <1>7

(* A hand has the positions of its residue up to n.                        *)
LEMMA HandSize ==
  ASSUME NEW n \in Nat \ {0}, NEW m \in 1 .. n, NEW w \in 1 .. m
  PROVE  LET k == (n + m - w) \div m
         IN  k \in Nat \ {0} /\ \A j \in Nat \ {0} : j <= k <=> (j - 1) * m + w \in 1 .. n
<1> PICK x \in Nat : x = n + m - w
  OBVIOUS
<1>1. PICK k \in Int : k = x \div m
  OBVIOUS
<1>2. k * m <= x /\ x < k * m + m /\ k \in Nat
  BY <1>1
<1>3. k # 0
  BY <1>2
<1>4. ASSUME NEW j \in Nat \ {0} PROVE j <= k <=> (j - 1) * m + w \in 1 .. n
  <2>1. k * m \in Int /\ j * m \in Int /\ (j - 1) * m = j * m - m
    OBVIOUS
  <2>2. j <= k => j * m <= k * m
    OBVIOUS
  <2>3. k < j => k * m + m <= j * m
    OBVIOUS
  <2>4. m <= j * m
    OBVIOUS
  <2>5. j <= k <=> j * m <= x
    BY <1>2, <2>1, <2>2, <2>3
  <2> QED BY <2>1, <2>4, <2>5
<1> QED BY <1>1, <1>2, <1>3, <1>4

-------------------------------------------------------------------------------
(* The groups and how they are dealt.                                      *)

Indexes(r) ==
  (0 .. 2 ^ r.bits - 1) \cup {GroupBlockBroadcast}
    \cup {g \in {GroupSubtreeDataAnnounce} : r.subtree}
    \cup {g \in BeefBase .. BeefBase + 2 ^ r.beefBits - 1 : r.beef}

(* The bands do not meet, and end below the control groups.                *)
LEMMA BandsFit ==
  ASSUME NEW r \in Raw, Accepts(r)
  PROVE  /\ 2 ^ r.bits \in Nat /\ 2 ^ r.beefBits \in Nat /\ BeefBase \in Nat
         /\ 1 <= 2 ^ r.bits /\ 2 ^ r.bits <= BeefBase
         /\ 1 <= 2 ^ r.beefBits /\ BeefBase + 2 ^ r.beefBits <= GroupSubtreeDataAnnounce
<1>1. r.beefBits \in Nat
  BY MembershipAssumption DEF RawSettings
<1>2. r.bits \in 0 .. MaxBits /\ r.beefBits \in 0 .. MaxBits
  BY <1>1, SettingsAssumption DEF Accepts, ShardBitsOK
<1>3. 2 ^ r.bits \in 1 .. BeefBase /\ 2 ^ r.beefBits \in 1 .. BeefBase
  BY <1>2, SettingsAssumption
<1>4. MaxBits \in 0 .. MaxBits
  BY SettingsAssumption
<1>5. BeefBase \in 1 .. BeefBase
  BY <1>4, SettingsAssumption
<1>6. BeefBase \in Int
  BY <1>5, SettingsAssumption
<1> QED BY <1>3, <1>5, <1>6, SettingsAssumption DEF GroupSubtreeDataAnnounce

(* Four runs of indexes that do not meet.                                  *)
LEMMA FourJoined ==
  ASSUME NEW A \in Seq(Nat), NEW B \in Seq(Nat), NEW C \in Seq(Nat), NEW D \in Seq(Nat),
         Distinct(A), Distinct(B), Distinct(C), Distinct(D),
         Apart(A, B), Apart(A, C), Apart(B, C), Apart(A, D), Apart(B, D), Apart(C, D)
  PROVE  /\ A \o B \o C \o D \in Seq(Nat) /\ Distinct(A \o B \o C \o D)
         /\ Elements(A \o B \o C \o D) = Elements(A) \cup Elements(B) \cup Elements(C) \cup Elements(D)
<1>1. A \o B \in Seq(Nat) /\ Elements(A \o B) = Elements(A) \cup Elements(B) /\ Distinct(A \o B)
  BY Joined DEF Apart
<1>2. PICK X \in Seq(Nat) : X = A \o B
  BY <1>1, Zenon
<1>3. X \o C \in Seq(Nat) /\ Elements(X \o C) = Elements(X) \cup Elements(C) /\ Distinct(X \o C)
  <2>1. Distinct(X) /\ Elements(X) \cap Elements(C) = {}
    BY <1>1, <1>2 DEF Apart
  <2> QED BY <2>1, Joined
<1>4. PICK Y \in Seq(Nat) : Y = X \o C
  BY <1>3, Zenon
<1>5. Y \o D \in Seq(Nat) /\ Elements(Y \o D) = Elements(Y) \cup Elements(D) /\ Distinct(Y \o D)
  <2>1. Distinct(Y) /\ Elements(Y) \cap Elements(D) = {}
    BY <1>1, <1>2, <1>3, <1>4 DEF Apart
  <2> QED BY <2>1, Joined
<1> QED BY <1>1, <1>2, <1>3, <1>4, <1>5

LEMMA GroupsBuilt ==
  ASSUME NEW r \in Raw, Accepts(r)
  PROVE  /\ BuildGroups(r) \in Seq(Nat) /\ Len(BuildGroups(r)) # 0
         /\ Distinct(BuildGroups(r)) /\ Elements(BuildGroups(r)) = Indexes(r)
<1>0. PICK a \in Nat, b \in Nat, base \in Nat :
        a = 2 ^ r.bits /\ b = 2 ^ r.beefBits /\ base = BeefBase
  BY BandsFit
<1>1. 1 <= a /\ a <= base /\ base + b <= GroupSubtreeDataAnnounce
  BY <1>0, BandsFit
<1>2. PICK A \in Seq(Nat) :
        A = [i \in 1 .. a |-> 0 + i - 1] /\ Elements(A) = 0 .. 0 + a - 1 /\ Distinct(A)
  BY Band, Zenon
<1>3. PICK B \in Seq(Nat) :
        B = <<GroupBlockBroadcast>> /\ Elements(B) = {GroupBlockBroadcast} /\ Distinct(B)
  <2>1. GroupBlockBroadcast \in Nat
    BY DEF GroupBlockBroadcast
  <2> QED BY <2>1, Single, Zenon
<1>s. PICK eA, eC, eD :
        /\ eA = 0 .. 0 + a - 1
        /\ eC = {g \in {GroupSubtreeDataAnnounce} : r.subtree}
        /\ eD = {g \in base .. base + b - 1 : r.beef}
  BY Zenon
<1>4. PICK C \in Seq(Nat) :
        /\ C = IF r.subtree THEN <<GroupSubtreeDataAnnounce>> ELSE <<>>
        /\ Elements(C) = eC /\ Distinct(C)
  <2>1. GroupSubtreeDataAnnounce \in Nat
    BY DEF GroupSubtreeDataAnnounce
  <2>2. CASE r.subtree
    <3>1. eC = {GroupSubtreeDataAnnounce}
      BY <1>s, <2>2
    <3> QED BY <2>1, <2>2, <3>1, Single, Zenon
  <2>3. CASE ~ r.subtree
    BY <1>s, <2>3, None, Zenon
  <2> QED BY <2>2, <2>3
<1>5. PICK D \in Seq(Nat) :
        /\ D = IF r.beef THEN [i \in 1 .. b |-> base + i - 1] ELSE <<>>
        /\ Elements(D) = eD /\ Distinct(D)
  <2>1. CASE r.beef
    <3>1. eD = base .. base + b - 1
      BY <1>s, <2>1
    <3> QED BY <2>1, <3>1, Band, Zenon
  <2>2. CASE ~ r.beef
    BY <1>s, <2>2, None, Zenon
  <2> QED BY <2>1, <2>2
<1>6. BuildGroups(r) = A \o B \o C \o D
  <2>1. A = [i \in 1 .. a |-> i - 1]
    BY <1>2
  <2> QED BY <1>0, <1>3, <1>4, <1>5, <2>1 DEF BuildGroups
<1>8. Indexes(r) = eA \cup {GroupBlockBroadcast} \cup eC \cup eD
  <2>1. eA = 0 .. a - 1
    BY <1>s
  <2> QED BY <2>1, <1>0, <1>s DEF Indexes
<1>9. /\ \A g \in eA : g \in Int /\ g < base
      /\ \A g \in eC : g = 65531
      /\ \A g \in eD : g \in Int /\ base <= g /\ g < 65531
      /\ GroupBlockBroadcast = 65534 /\ base < 65531
  <2>1. base + b <= 65531 /\ GroupBlockBroadcast = 65534 /\ 1 <= a /\ a <= base /\ 1 <= b
    BY <1>0, <1>1, BandsFit DEF GroupSubtreeDataAnnounce, GroupBlockBroadcast
  <2>2. \A g \in eC : g = 65531
    BY <1>s DEF GroupSubtreeDataAnnounce
  <2>3. \A g \in eD : g \in Int /\ base <= g /\ g < 65531
    <3>1. \A g \in eD : g \in base .. base + b - 1
      BY <1>s
    <3> QED BY <2>1, <3>1
  <2>4. \A g \in eA : g \in Int /\ g < base
    BY <1>s, <2>1
  <2> QED BY <2>1, <2>2, <2>3, <2>4
<1>e. /\ Elements(A) = eA /\ Elements(B) = {GroupBlockBroadcast}
      /\ Elements(C) = eC /\ Elements(D) = eD
  BY <1>2, <1>3, <1>4, <1>5, <1>s, Zenon
<1>10. /\ Apart(A, B) /\ Apart(A, C) /\ Apart(B, C)
       /\ Apart(A, D) /\ Apart(B, D) /\ Apart(C, D)
  BY <1>9, <1>e DEF Apart
<1>11. /\ A \o B \o C \o D \in Seq(Nat) /\ Distinct(A \o B \o C \o D)
       /\ Elements(A \o B \o C \o D) = eA \cup {GroupBlockBroadcast} \cup eC \cup eD
  <2>1. Distinct(A) /\ Distinct(B) /\ Distinct(C) /\ Distinct(D)
    BY <1>2, <1>3, <1>4, <1>5
  <2>2. /\ A \o B \o C \o D \in Seq(Nat) /\ Distinct(A \o B \o C \o D)
        /\ Elements(A \o B \o C \o D)
             = Elements(A) \cup Elements(B) \cup Elements(C) \cup Elements(D)
    BY <2>1, <1>10, FourJoined
  <2> QED BY <1>e, <2>2
<1>12. Elements(BuildGroups(r)) # {}
  BY <1>6, <1>11
<1>13. Len(BuildGroups(r)) # 0
  BY <1>12 DEF Elements
<1> QED BY <1>6, <1>8, <1>11, <1>13

(* p deals the groups gs: a share for each of at most k workers, of groups *)
(* that are nobody else's.                                                 *)
Share(p, w) == {p[w][i] : i \in 1 .. Len(p[w])}
Deals(p, k, gs) ==
  /\ p \in Seq(Seq(Nat)) /\ Len(p) \in 1 .. k
  /\ \A w \in 1 .. Len(p) : p[w] # <<>>
  /\ \A w, v \in 1 .. Len(p) : \A i \in 1 .. Len(p[w]), j \in 1 .. Len(p[v]) :
       p[w][i] = p[v][j] => w = v /\ i = j
  /\ UNION {Share(p, w) : w \in DOMAIN p} = gs
Dealt(p, r) == NumWorkers(r) \in Nat /\ Deals(p, NumWorkers(r), Indexes(r))

LEMMA AsSeq ==
  ASSUME NEW S, NEW n \in Nat, NEW f, f = [i \in 1 .. n |-> f[i]], \A i \in 1 .. n : f[i] \in S
  PROVE  f \in Seq(S) /\ Len(f) = n
OBVIOUS

(* Partition deals any list to any number of workers.                      *)
LEMMA PartitionOK ==
  ASSUME NEW G \in Seq(Nat), Len(G) # 0, Distinct(G), NEW k \in Nat \ {0}
  PROVE  Deals(Partition(G, k), k, Elements(G))
<1>1. PICK n \in Nat \ {0} : n = Len(G)
  OBVIOUS
<1>2. PICK m \in Nat \ {0} : m = (IF k > n THEN n ELSE k) /\ m <= n /\ m <= k
  OBVIOUS
<1> DEFINE pos(j, w) == (j - 1) * m + w
<1>3. \A w \in 1 .. m : /\ (n + m - w) \div m \in Nat \ {0}
                        /\ \A j \in Nat \ {0} : j <= (n + m - w) \div m <=> pos(j, w) \in 1 .. n
  <2> TAKE w \in 1 .. m
  <2>1. m \in 1 .. n
    BY <1>2
  <2> QED BY <2>1, HandSize, Zenon
<1>4. ASSUME NEW w \in 1 .. m, NEW v \in 1 .. m, NEW i \in Nat \ {0}, NEW j \in Nat \ {0},
             pos(i, w) = pos(j, v)
      PROVE  w = v /\ i = j
  BY <1>4, DealtOnce
<1>5. \A x \in 1 .. n : \E w \in 1 .. m, j \in Nat \ {0} : x = pos(j, w)
  <2> TAKE x \in 1 .. n
  <2>1. x \in Nat \ {0}
    OBVIOUS
  <2> QED BY <2>1, DealtTo, Zenon
<1>6. PICK size : size = [w \in 1 .. m |-> (n + m - w) \div m]
  BY Zenon
<1>7. \A w \in 1 .. m : size[w] = (n + m - w) \div m
  BY <1>6, Zenon
<1>8. \A w \in 1 .. m : size[w] \in Nat \ {0} /\ \A j \in Nat \ {0} : j <= size[w] <=> pos(j, w) \in 1 .. n
  BY <1>3, <1>7, Zenon
<1>9. PICK P : P = [w \in 1 .. m |-> [j \in 1 .. size[w] |-> G[pos(j, w)]]]
  BY Zenon
<1>10. Partition(G, k) = P
  <2>1. ~ (m < 1)
    BY <1>2
  <2>2. P = [w \in 1 .. m |-> [j \in 1 .. (n + m - w) \div m |-> G[(j - 1) * m + w]]]
    BY <1>7, <1>9, Zenon
  <2>3. m = IF k > Len(G) THEN Len(G) ELSE k
    BY <1>1, <1>2
  <2> QED BY <1>1, <2>1, <2>2, <2>3, Zenon DEF Partition
<1> HIDE DEF pos
<1>11. \A w \in 1 .. m : \A j \in 1 .. size[w] : j \in Nat \ {0} /\ pos(j, w) \in 1 .. n
  BY <1>8
<1>12. \A w \in 1 .. m : P[w] = [j \in 1 .. size[w] |-> G[pos(j, w)]]
  BY <1>9
<1>13. \A w \in 1 .. m : \A j \in 1 .. size[w] : P[w][j] = G[pos(j, w)] /\ P[w][j] \in Nat
  <2>1. \A x \in 1 .. n : G[x] \in Nat
    BY <1>1
  <2>2. ASSUME NEW w \in 1 .. m, NEW j \in 1 .. size[w] PROVE P[w][j] = G[pos(j, w)]
    <3>1. P[w] = [i \in 1 .. size[w] |-> G[pos(i, w)]]
      BY <1>12, Zenon
    <3> QED BY <3>1, Zenon
  <2> QED BY <2>1, <2>2, <1>11
<1>14. ASSUME NEW w \in 1 .. m PROVE P[w] \in Seq(Nat) /\ Len(P[w]) = size[w] /\ P[w] # <<>>
  <2>0. PICK z \in Nat \ {0} : z = size[w]
    BY <1>8
  <2>1. PICK f : f = P[w]
    OBVIOUS
  <2>2. f = [j \in 1 .. z |-> G[pos(j, w)]]
    BY <2>0, <2>1, <1>12
  <2>3. f = [j \in 1 .. z |-> f[j]]
    BY <2>2
  <2>4. \A j \in 1 .. z : f[j] \in Nat
    BY <2>0, <2>1, <1>13
  <2>5. f \in Seq(Nat) /\ Len(f) = z
    BY <2>3, <2>4, AsSeq, Zenon
  <2>6. f # <<>>
    BY <2>5
  <2> QED BY <2>0, <2>1, <2>5, <2>6
<1>15. P \in Seq(Seq(Nat)) /\ Len(P) = m /\ DOMAIN P = 1 .. m
  <2>1. DOMAIN P = 1 .. m /\ P = [w \in 1 .. m |-> P[w]]
    BY <1>9
  <2>2. \A w \in 1 .. m : P[w] \in Seq(Nat)
    BY <1>14
  <2> QED BY <2>1, <2>2, AsSeq
<1>16. ASSUME NEW w \in 1 .. m, NEW v \in 1 .. m, NEW i \in 1 .. size[w], NEW j \in 1 .. size[v],
              P[w][i] = P[v][j]
       PROVE  w = v /\ i = j
  <2>1. G[pos(i, w)] = G[pos(j, v)] /\ pos(i, w) \in 1 .. n /\ pos(j, v) \in 1 .. n
    BY <1>11, <1>13, <1>16
  <2>2. pos(i, w) = pos(j, v)
    BY <2>1, <1>1 DEF Distinct
  <2>3. i \in Nat \ {0} /\ j \in Nat \ {0}
    BY <1>11
  <2> QED BY <2>2, <2>3, <1>4
<1>17. ASSUME NEW w \in 1 .. m, NEW i \in 1 .. size[w] PROVE P[w][i] \in Elements(G)
  BY <1>1, <1>11, <1>13 DEF Elements
<1>18. ASSUME NEW x \in 1 .. n PROVE \E w \in 1 .. m : \E i \in 1 .. size[w] : G[x] = P[w][i]
  <2>1. PICK w \in 1 .. m, j \in Nat \ {0} : x = pos(j, w)
    BY <1>5
  <2>2. j <= size[w] /\ size[w] \in Nat
    BY <2>1, <1>8
  <2>3. j \in 1 .. size[w]
    BY <2>2
  <2> QED BY <2>1, <2>3, <1>13
<1>19. UNION {Share(P, w) : w \in DOMAIN P} = Elements(G)
  <2>1. \A w \in 1 .. m : Share(P, w) = {P[w][i] : i \in 1 .. size[w]}
    BY <1>14 DEF Share
  <2>2. \A g : g \in UNION {Share(P, w) : w \in 1 .. m}
                 <=> \E w \in 1 .. m : \E i \in 1 .. size[w] : g = P[w][i]
    BY <2>1
  <2>3. \A g : g \in Elements(G) <=> \E x \in 1 .. n : g = G[x]
    BY <1>1 DEF Elements
  <2>4. \A g \in Elements(G) : \E w \in 1 .. m : \E i \in 1 .. size[w] : g = P[w][i]
    <3> TAKE g \in Elements(G)
    <3>1. PICK x \in 1 .. n : g = G[x]
      BY <2>3
    <3> QED BY <3>1, <1>18
  <2>5. \A g : (\E w \in 1 .. m : \E i \in 1 .. size[w] : g = P[w][i]) => g \in Elements(G)
    BY <1>17
  <2> QED BY <1>15, <2>2, <2>4, <2>5, Zenon
<1>20. Len(P) \in 1 .. k /\ \A w \in 1 .. Len(P) : P[w] # <<>>
  <2>1. Len(P) \in 1 .. k
    BY <1>2, <1>15
  <2>2. \A w \in 1 .. m : P[w] # <<>>
    BY <1>14, Zenon
  <2> QED BY <2>1, <2>2, <1>15, Zenon
<1>21. \A w, v \in 1 .. Len(P) : \A i \in 1 .. Len(P[w]), j \in 1 .. Len(P[v]) :
         P[w][i] = P[v][j] => w = v /\ i = j
  <2> SUFFICES ASSUME NEW w \in 1 .. m, NEW v \in 1 .. m,
                      NEW i \in 1 .. Len(P[w]), NEW j \in 1 .. Len(P[v]), P[w][i] = P[v][j]
               PROVE  w = v /\ i = j
    BY <1>15
  <2>1. i \in 1 .. size[w] /\ j \in 1 .. size[v]
    BY <1>14, Zenon
  <2> QED BY <2>1, <1>16, SMTT(20)
<1>22. Deals(P, k, Elements(G))
  BY <1>15, <1>19, <1>20, <1>21 DEF Deals
<1> QED BY <1>10, <1>22

LEMMA PartsOK ==
  ASSUME NEW r \in Raw, Accepts(r)
  PROVE  Dealt(Parts(r), r)
<1>1. PICK G \in Seq(Nat) :
        /\ G = BuildGroups(r) /\ Len(G) # 0 /\ Distinct(G) /\ Elements(G) = Indexes(r)
  BY GroupsBuilt
<1>2. PICK k \in Nat \ {0} : k = NumWorkers(r)
  <2>1. r.workers \in Int
    BY MembershipAssumption DEF RawSettings
  <2> QED BY <2>1 DEF NumWorkers
<1>3. Deals(Partition(G, k), k, Elements(G))
  BY <1>1, PartitionOK
<1>4. Parts(r) = Partition(G, k)
  BY <1>1, <1>2 DEF Parts
<1> QED BY <1>1, <1>2, <1>3, <1>4 DEF Dealt

-------------------------------------------------------------------------------
(* The beacon's groups.                                                    *)

Beaconed == {"site", "org", "global"}
ScopesOf(b) == IF b \in {"both", "all"} THEN Beaconed ELSE {b}

(* The prefixes of one scope, as a set.                                    *)
Wire(compat, mode, scope) ==
  {p \in {AsmPrefix(scope)} : compat # "derived" \/ mode = "asm"}
    \cup {p \in {SsmPrefix(scope)} : compat # "asm-only" /\ mode = "ssm" /\ scope \in SSMScopes}

LEMMA Prefixes ==
  ASSUME NEW c \in Compats, NEW m \in {"asm", "ssm"}, NEW s \in Beaconed
  PROVE  /\ ControlGroupPrefixes(c, m, s) \in Seq({AsmPrefix(s), SsmPrefix(s)})
         /\ Elements(ControlGroupPrefixes(c, m, s)) = Wire(c, m, s)
         /\ ControlGroupPrefixes(c, m, s) = <<>> <=> Wire(c, m, s) = {}
<1> PICK A, S : A = AsmPrefix(s) /\ S = SsmPrefix(s)
  OBVIOUS
<1>1. A # S
  BY DEF AsmPrefix, SsmPrefix
<1>2. Wire(c, m, s) = {p \in {A} : c # "derived" \/ m = "asm"}
                        \cup {p \in {S} : c # "asm-only" /\ m = "ssm" /\ s \in SSMScopes}
  BY DEF Wire
<1>3. ControlGroupPrefixes(c, m, s) =
        IF c = "asm-only" \/ m = "asm" THEN <<A>>
        ELSE IF s \notin SSMScopes THEN IF c = "derived" THEN <<>> ELSE <<A>>
        ELSE IF c = "derived" THEN <<S>> ELSE <<A, S>>
  BY <1>1 DEF ControlGroupPrefixes, Compats
<1>4. /\ <<A>> \in Seq({A, S}) /\ Elements(<<A>>) = {A} /\ <<A>> # <<>>
      /\ <<S>> \in Seq({A, S}) /\ Elements(<<S>>) = {S} /\ <<S>> # <<>>
      /\ <<A, S>> \in Seq({A, S}) /\ Elements(<<A, S>>) = {A, S} /\ <<A, S>> # <<>>
      /\ <<>> \in Seq({A, S}) /\ Elements(<<>>) = {}
  <2>1. /\ <<A>> \in Seq({A, S}) /\ Len(<<A>>) = 1
        /\ <<S>> \in Seq({A, S}) /\ Len(<<S>>) = 1
        /\ <<A, S>> \in Seq({A, S}) /\ Len(<<A, S>>) = 2
        /\ <<>> \in Seq({A, S}) /\ Len(<<>>) = 0
    OBVIOUS
  <2>2. Elements(<<A, S>>) = {A, S}
    <3>1. 1 .. 2 = {1, 2}
      OBVIOUS
    <3> QED BY <3>1, <2>1 DEF Elements
  <2> QED BY <2>1, <2>2, Single, None
<1>5. CASE c = "asm-only" \/ m = "asm"
  BY <1>2, <1>3, <1>4, <1>5 DEF Compats
<1>6. CASE c # "asm-only" /\ m = "ssm" /\ s \notin SSMScopes
  BY <1>2, <1>3, <1>4, <1>6 DEF Compats
<1>7. CASE c # "asm-only" /\ m = "ssm" /\ s \in SSMScopes
  BY <1>2, <1>3, <1>4, <1>7, Zenon DEF Compats
<1> QED BY <1>5, <1>6, <1>7

LEMMA Legacy ==
  ASSUME NEW b \in BeaconScopes
  PROVE  LegacyASMPrefixes(BeaconScopeByte(b)) = {AsmPrefix(s) : s \in ScopesOf(b)}
<1>1. /\ BeaconScopeByte("site") = 5 /\ BeaconScopeByte("org") = 8
      /\ BeaconScopeByte("global") = 14
      /\ BeaconScopeByte("both") = 255 /\ BeaconScopeByte("all") = 255
  BY DEF BeaconScopeByte
<1>2. {s \in Beaconed : BeaconScopeByte(b) \in {BeaconScopeByte(s), 255}} = ScopesOf(b)
  BY <1>1 DEF Beaconed, ScopesOf, BeaconScopes
<1> QED BY <1>2 DEF LegacyASMPrefixes, Beaconed

(* A beacon is sent to all its scopes, or where an error leaves it.        *)
SentAs(r, c, m, b) ==
  /\ (\E s \in ScopesOf(b) : Wire(c, m, s) = {}) =>
       /\ BeaconGroupPrefixes(r) = <<>>
       /\ BeaconGroups(r) = LegacyASMPrefixes(BeaconScopeByte(b))
  /\ (\A s \in ScopesOf(b) : Wire(c, m, s) # {}) =>
       /\ BeaconGroupPrefixes(r) # <<>>
       /\ BeaconGroups(r) = UNION {Wire(c, m, s) : s \in ScopesOf(b)}

LEMMA BeaconSent ==
  ASSUME NEW r, r.compat \in Compats, r.mode \in {"asm", "ssm"}, r.beaconScope \in BeaconScopes
  PROVE  SentAs(r, r.compat, r.mode, r.beaconScope)
<1> PICK c \in Compats, m \in {"asm", "ssm"}, b \in BeaconScopes :
      r.compat = c /\ r.mode = m /\ r.beaconScope = b
  OBVIOUS
<1> SUFFICES SentAs(r, c, m, b)
  OBVIOUS
<1> DEFINE P(s) == ControlGroupPrefixes(c, m, s)
           All == {AsmPrefix(s) : s \in Beaconed} \cup {SsmPrefix(s) : s \in Beaconed}
<1>1. \A s \in Beaconed : /\ P(s) \in Seq(All) /\ Elements(P(s)) = Wire(c, m, s)
                          /\ P(s) = <<>> <=> Wire(c, m, s) = {}
  <2> SUFFICES ASSUME NEW s \in Beaconed
               PROVE  /\ P(s) \in Seq(All) /\ Elements(P(s)) = Wire(c, m, s)
                      /\ P(s) = <<>> <=> Wire(c, m, s) = {}
    BY Zenon
  <2>1. \A T, U : T \subseteq U => \A q \in Seq(T) : q \in Seq(U)
    OBVIOUS
  <2>2. {AsmPrefix(s), SsmPrefix(s)} \subseteq All
    OBVIOUS
  <2>3. /\ P(s) \in Seq({AsmPrefix(s), SsmPrefix(s)}) /\ Elements(P(s)) = Wire(c, m, s)
        /\ P(s) = <<>> <=> Wire(c, m, s) = {}
    BY Prefixes
  <2> HIDE DEF P, All
  <2> QED BY <2>1, <2>2, <2>3
<1> HIDE DEF P, All
<1>2. BeaconGroups(r) = IF BeaconGroupPrefixes(r) = <<>>
                        THEN LegacyASMPrefixes(BeaconScopeByte(b))
                        ELSE Elements(BeaconGroupPrefixes(r))
  BY DEF BeaconGroups, Elements
<1>3. CASE b \in {"both", "all"}
  <2>1. ScopesOf(b) = Beaconed
    BY <1>3 DEF ScopesOf
  <2>2. PICK p1 \in Seq(All), p2 \in Seq(All), p3 \in Seq(All) :
          p1 = P("site") /\ p2 = P("org") /\ p3 = P("global")
    BY <1>1 DEF Beaconed
  <2>3. BeaconGroupPrefixes(r) =
          IF p1 = <<>> \/ p2 = <<>> \/ p3 = <<>> THEN <<>> ELSE p1 \o p2 \o p3
    <3> DEFINE names == BeaconScopeNames(r.beaconScope)
               per == [i \in 1 .. Len(names) |-> ControlGroupPrefixes(r.compat, r.mode, names[i])]
    <3>1. BeaconGroupPrefixes(r) =
            IF \E i \in 1 .. Len(names) : per[i] = <<>> THEN <<>>
            ELSE IF Len(names) = 1 THEN per[1] ELSE per[1] \o per[2] \o per[3]
      BY Zenon DEF BeaconGroupPrefixes
    <3>2. Len(names) = 3 /\ names[1] = "site" /\ names[2] = "org" /\ names[3] = "global"
      BY <1>3 DEF BeaconScopeNames
    <3> HIDE DEF names
    <3>3. per[1] = p1 /\ per[2] = p2 /\ per[3] = p3
      BY <2>2, <3>2 DEF P
    <3> HIDE DEF per
    <3>4. 1 .. Len(names) = {1, 2, 3}
      BY <3>2
    <3>5. (\E i \in 1 .. Len(names) : per[i] = <<>>) <=> p1 = <<>> \/ p2 = <<>> \/ p3 = <<>>
      BY <3>3, <3>4, Zenon
    <3> QED BY <3>1, <3>2, <3>3, <3>5
  <2>4. /\ Elements(p1) = Wire(c, m, "site") /\ Elements(p2) = Wire(c, m, "org")
        /\ Elements(p3) = Wire(c, m, "global")
        /\ p1 = <<>> \/ p2 = <<>> \/ p3 = <<>> <=> \E s \in Beaconed : Wire(c, m, s) = {}
    BY <1>1, <2>2 DEF Beaconed
  <2>5. Elements(p1 \o p2 \o p3) = Elements(p1) \cup Elements(p2) \cup Elements(p3)
    <3>1. p1 \o p2 \in Seq(All) /\ Elements(p1 \o p2) = Elements(p1) \cup Elements(p2)
      BY Joined
    <3>2. PICK q \in Seq(All) : q = p1 \o p2
      BY <3>1, Zenon
    <3>3. Elements(q \o p3) = Elements(q) \cup Elements(p3)
      BY Joined
    <3> QED BY <3>1, <3>2, <3>3
  <2>6. UNION {Wire(c, m, s) : s \in Beaconed}
          = Wire(c, m, "site") \cup Wire(c, m, "org") \cup Wire(c, m, "global")
    BY DEF Beaconed
  <2>7. CASE \E s \in Beaconed : Wire(c, m, s) = {}
    BY <2>1, <2>3, <2>4, <2>7, <1>2 DEF SentAs
  <2>8. CASE \A s \in Beaconed : Wire(c, m, s) # {}
    <3>1. BeaconGroupPrefixes(r) = p1 \o p2 \o p3
      BY <2>3, <2>4, <2>8
    <3>2. Wire(c, m, "site") # {}
      BY <2>8 DEF Beaconed
    <3>3. p1 \o p2 \o p3 # <<>>
      BY <2>4, <2>5, <3>2, None
    <3>4. BeaconGroups(r) = Elements(p1 \o p2 \o p3)
      BY <3>1, <3>3, <1>2
    <3> QED BY <2>1, <2>4, <2>5, <2>6, <2>8, <3>1, <3>3, <3>4 DEF SentAs
  <2> QED BY <2>7, <2>8
<1>4. CASE b \notin {"both", "all"}
  <2>1. BeaconScopeNames(b) = <<b>> /\ ScopesOf(b) = {b} /\ b \in Beaconed
    BY <1>4 DEF BeaconScopeNames, ScopesOf, BeaconScopes, Beaconed
  <2>2. 1 .. 1 = {1}
    OBVIOUS
  <2>3. BeaconGroupPrefixes(r) = IF P(b) = <<>> THEN <<>> ELSE P(b)
    BY <2>1, <2>2 DEF BeaconGroupPrefixes, P
  <2>4. UNION {Wire(c, m, s) : s \in {b}} = Wire(c, m, b)
    OBVIOUS
  <2> QED BY <2>1, <2>3, <2>4, <1>1, <1>2 DEF SentAs
<1> QED BY <1>3, <1>4

LEMMA WireOK ==
  ASSUME NEW r \in Raw, Accepts(r), r.beacon
  PROVE  LET with(compat) == BeaconGroups([r EXCEPT !.compat = compat])
             legacy == LegacyASMPrefixes(BeaconScopeByte(r.beaconScope))
         IN  /\ BeaconGroups(r) # {} /\ BeaconGroupPrefixes(r) # <<>>
             /\ with("asm-only") = legacy
             /\ r.mode = "asm" => BeaconGroups(r) = legacy
             /\ r.mode = "ssm" /\ r.compat = "derived" => BeaconGroups(r) \cap legacy = {}
             /\ with("asm-only") \cup with("derived") \subseteq with("both")
<1> DEFINE with(compat) == BeaconGroups([r EXCEPT !.compat = compat])
           legacy == LegacyASMPrefixes(BeaconScopeByte(r.beaconScope))
<1>b. PICK c \in Compats, m \in {"asm", "ssm"}, b \in BeaconScopes :
        r.compat = c /\ r.mode = m /\ r.beaconScope = b
  BY DEF Accepts, SourceModeOK, BeaconOK
<1>t. PICK T : T = ScopesOf(b)
  OBVIOUS
<1>1. T # {} /\ T \subseteq Beaconed
  BY <1>t DEF ScopesOf, Beaconed, BeaconScopes
<1>2. legacy = {AsmPrefix(s) : s \in T}
  BY <1>b, <1>t, Legacy
<1>3. BeaconGroupPrefixes(r) # <<>>
  BY DEF Accepts, BeaconOK
<1>4. /\ \A s \in T : Wire(c, m, s) # {}
      /\ BeaconGroups(r) = UNION {Wire(c, m, s) : s \in T}
  <2>1. SentAs(r, c, m, b)
    BY <1>b, BeaconSent
  <2> QED BY <2>1, <1>3, <1>t DEF SentAs
<1>5. ASSUME NEW d \in Compats
      PROVE  with(d) = IF \E s \in T : Wire(d, m, s) = {} THEN legacy
                       ELSE UNION {Wire(d, m, s) : s \in T}
  <2>1. PICK q : q = [r EXCEPT !.compat = d]
    BY Zenon
  <2>2. q.compat = d /\ q.mode = m /\ q.beaconScope = b
    BY <2>1, <1>b, MembershipAssumption DEF RawSettings
  <2>3. BeaconGroups(q) = IF \E s \in T : Wire(d, m, s) = {} THEN legacy
                          ELSE UNION {Wire(d, m, s) : s \in T}
    <3>1. SentAs(q, d, m, b)
      BY <2>2, BeaconSent
    <3> QED BY <3>1, <1>b, <1>t DEF SentAs
  <2> QED BY <2>1, <2>3
<1>6. \A s : AsmPrefix(s) \in Wire("asm-only", m, s) /\ AsmPrefix(s) \in Wire("both", m, s)
  BY DEF Wire
<1>7. with("asm-only") = legacy
  <2>1. \A s : Wire("asm-only", m, s) = {AsmPrefix(s)}
    BY DEF Wire
  <2>2. with("asm-only") = UNION {Wire("asm-only", m, s) : s \in T}
    BY <1>5, <1>6 DEF Compats
  <2> HIDE DEF with, legacy
  <2> QED BY <2>1, <2>2, <1>2
<1>8. with("both") = UNION {Wire("both", m, s) : s \in T}
  BY <1>5, <1>6 DEF Compats
<1>9. with("derived") = legacy \/ with("derived") = UNION {Wire("derived", m, s) : s \in T}
  BY <1>5 DEF Compats
<1> HIDE DEF with, legacy
<1>10. BeaconGroups(r) # {}
  BY <1>1, <1>4
<1>11. ASSUME m = "asm" PROVE BeaconGroups(r) = legacy
  <2>1. \A s : Wire(c, m, s) = {AsmPrefix(s)}
    BY <1>11 DEF Wire
  <2> QED BY <2>1, <1>2, <1>4
<1>12. ASSUME m = "ssm", c = "derived" PROVE BeaconGroups(r) \cap legacy = {}
  <2>1. \A s : Wire(c, m, s) \subseteq {SsmPrefix(s)}
    BY <1>12 DEF Wire
  <2>2. \A s, t : SsmPrefix(s) # AsmPrefix(t)
    BY DEF SsmPrefix, AsmPrefix
  <2> QED BY <2>1, <2>2, <1>2, <1>4
<1>13. legacy \subseteq with("both")
  BY <1>2, <1>6, <1>8
<1>14. with("derived") \subseteq with("both")
  <2>1. \A s : Wire("derived", m, s) \subseteq Wire("both", m, s)
    BY DEF Wire
  <2> QED BY <2>1, <1>8, <1>9, <1>13
<1> QED BY <1>b, <1>3, <1>7, <1>10, <1>11, <1>12, <1>13, <1>14 DEF with, legacy

-------------------------------------------------------------------------------
(* The inductive invariant.                                                *)

Status == {"start", "join", "up", "dead", "closed"}

(* What was loaded, and what follows from it; what cannot be before run.   *)
Settled ==
  /\ raw \in Raw /\ losses \in Nat
  /\ Accepted => Accepts(raw) /\ Dealt(parts, raw)
  /\ \A l \in ListName : roster[l] \subseteq raw[l]

Idle ==
  stage # "run" =>
    /\ refused = {} /\ \A w \in DOMAIN at : at[w] = "start" /\ pass[w] = 0
    /\ stage = "bootstrap" => \A w \in Worker : \A g \in Groups : member[w][g] = {}

Shaped ==
  Accepted =>
    /\ next \in [Worker -> Nat] /\ pass \in [Worker -> Int]
    /\ \A w \in Worker : at[w] = "start" => next[w] = 1

(* Open sockets and their numbers correspond; a socket is closed under a   *)
(* worker that is up only once ctx is done; only such workers re-join.     *)
Sockets ==
  Accepted =>
    /\ \A w \in Worker : at[w] \in {"join", "up"} => fd[w] \in Number /\ owner[fd[w]] = w
    /\ \A n \in Number : owner[n] # 0 => at[owner[n]] \in {"join", "up"} /\ fd[owner[n]] = n
    /\ \A w \in Worker : at[w] = "closed" => fd[w] \in Number /\ canceled
    /\ \A w \in Worker : pass[w] > 0 => at[w] \in {"up", "closed"}

(* Members of no more than is wanted of a worker's own groups, and, but    *)
(* for losses, of all that is wanted of those it came past.                *)
Within ==
  Live => \A w \in Worker : \A g \in Groups :
            member[w][g] \subseteq Wanted(g) /\ (member[w][g] # {} => g \in Share(parts, w))
Covered ==
  Live /\ losses = 0 =>
    \A w \in Worker : \A i \in 1 .. Len(parts[w]) :
      at[w] = "up" \/ (at[w] = "join" /\ i < next[w]) => member[w][parts[w][i]] = Wanted(parts[w][i])

IInv == TypeOK /\ Settled /\ Idle /\ Shaped /\ Sockets /\ Within /\ Covered

-------------------------------------------------------------------------------
LEMMA Lists == ListName = {"manifest", "beaconSources", "subtreeSources", "static"}
BY DEF ListName, NoLists

(* What a join asks for is configured, and not the node's own.             *)
LEMMA WantedOK ==
  ASSUME TypeOK, Settled
  PROVE  \A g : /\ Wanted(g) \subseteq Source
                /\ Sources(g) # {} => Wanted(g) \subseteq ListOf(raw, g) \ {raw.own}
<1> PICK own : own = raw.own
  OBVIOUS
<1>1. /\ roster.manifest \subseteq Source /\ roster.beaconSources \subseteq Source
      /\ roster.subtreeSources \subseteq Source /\ roster.static \subseteq Source
  BY Lists DEF TypeOK
<1>2. /\ roster.manifest \subseteq raw.manifest /\ roster.beaconSources \subseteq raw.beaconSources
      /\ roster.subtreeSources \subseteq raw.subtreeSources /\ roster.static \subseteq raw.static
  BY Lists DEF Settled
<1>3. ASSUME NEW g
      PROVE  ListOf(roster, g) \subseteq Source /\ ListOf(roster, g) \subseteq ListOf(raw, g)
  <2>1. CASE g = GroupBeacon
    BY <2>1, <1>1, <1>2 DEF ListOf
  <2>2. CASE g # GroupBeacon /\ g \in {GroupSubtreeDataAnnounce, GroupSubtreeGroupAnnounce}
    BY <2>2, <1>1, <1>2 DEF ListOf, GroupBeacon, GroupSubtreeDataAnnounce,
       GroupSubtreeGroupAnnounce, GroupBlockBroadcast
  <2>3. CASE g = GroupBlockBroadcast
    BY <2>3, <1>1, <1>2 DEF ListOf, GroupBeacon, GroupSubtreeDataAnnounce,
       GroupSubtreeGroupAnnounce, GroupBlockBroadcast
  <2>4. CASE g \notin {GroupBeacon, GroupSubtreeDataAnnounce, GroupSubtreeGroupAnnounce,
                       GroupBlockBroadcast}
    BY <2>4, <1>1, <1>2 DEF ListOf
  <2> QED BY <2>1, <2>2, <2>3, <2>4
<1>4. ASSUME NEW g PROVE Sources(g) \subseteq ListOf(roster, g) /\ own \notin Sources(g)
  <2>1. NoSource \notin ListOf(roster, g)
    BY <1>3, SettingsAssumption
  <2> QED BY <2>1 DEF Sources, ExcludeOwnSource
<1> QED BY <1>3, <1>4 DEF Wanted

LEMMA Shares ==
  ASSUME Settled, Accepted
  PROVE  /\ Len(parts) \in Nat \ {0} /\ DOMAIN parts = Worker
         /\ Worker \subseteq Nat \ {0} /\ Number \subseteq Nat \ {0}
         /\ \A w \in Worker : Len(parts[w]) \in Nat \ {0}
         /\ \A w \in Worker : \A i \in 1 .. Len(parts[w]) :
              parts[w][i] \in Groups /\ parts[w][i] \in Share(parts, w)
         /\ \A w \in Worker : \A i, j \in 1 .. Len(parts[w]) : parts[w][i] = parts[w][j] => i = j
         /\ \A w, v \in Worker : Share(parts, w) \cap Share(parts, v) # {} => w = v
<1>d. Dealt(parts, raw)
  BY DEF Settled
<1>a. parts \in Seq(Seq(Nat)) /\ Len(parts) # 0
  <2>1. PICK k \in Int : parts \in Seq(Seq(Nat)) /\ Len(parts) \in 1 .. k
    BY <1>d DEF Dealt, Deals
  <2> QED BY <2>1
<1>b. \A w \in 1 .. Len(parts) : parts[w] # <<>>
  BY <1>d, Zenon DEF Dealt, Deals
<1>c. \A w, v \in 1 .. Len(parts) : \A i \in 1 .. Len(parts[w]), j \in 1 .. Len(parts[v]) :
        parts[w][i] = parts[v][j] => w = v /\ i = j
  BY <1>d, Zenon DEF Dealt, Deals
<1>1. Len(parts) \in Nat \ {0} /\ DOMAIN parts = Worker
  BY <1>a DEF Worker
<1>2. Worker \subseteq Nat \ {0} /\ Number \subseteq Nat \ {0}
  BY <1>1 DEF Worker, Number
<1>3. \A w \in Worker : Len(parts[w]) \in Nat \ {0}
  <2> TAKE w \in Worker
  <2>1. parts[w] \in Seq(Nat)
    BY <1>a DEF Worker
  <2>2. parts[w] # <<>>
    BY <1>b, Zenon DEF Worker
  <2>3. PICK q \in Seq(Nat) : q = parts[w]
    BY <2>1
  <2>4. Len(q) \in Nat \ {0}
    BY <2>2, <2>3
  <2> QED BY <2>3, <2>4
<1>4. \A w \in Worker : \A i \in 1 .. Len(parts[w]) :
        parts[w][i] \in Groups /\ parts[w][i] \in Share(parts, w)
  <2> TAKE w \in Worker
  <2> TAKE i \in 1 .. Len(parts[w])
  <2>1. parts[w][i] \in Share(parts, w)
    BY DEF Share
  <2>2. Groups = UNION {Share(parts, v) : v \in Worker}
    BY <1>1, Zenon DEF Groups, Share
  <2> QED BY <2>1, <2>2
<1>5. \A w \in Worker : \A i, j \in 1 .. Len(parts[w]) : parts[w][i] = parts[w][j] => i = j
  BY <1>c, Zenon DEF Worker
<1>6. \A w, v \in Worker : Share(parts, w) \cap Share(parts, v) # {} => w = v
  <2> SUFFICES ASSUME NEW w \in Worker, NEW v \in Worker, NEW g, g \in Share(parts, w),
                      g \in Share(parts, v)
               PROVE  w = v
    OBVIOUS
  <2>1. PICK i \in 1 .. Len(parts[w]) : g = parts[w][i]
    BY DEF Share
  <2>2. PICK j \in 1 .. Len(parts[v]) : g = parts[v][j]
    BY DEF Share
  <2>3. w \in 1 .. Len(parts) /\ v \in 1 .. Len(parts) /\ parts[w][i] = parts[v][j]
    BY <2>1, <2>2 DEF Worker
  <2> QED BY <1>c, <2>3, Zenon
<1> QED BY <1>1, <1>2, <1>3, <1>4, <1>5, <1>6

(* The state of the workers, spelled out.                                  *)
LEMMA Running ==
  ASSUME IInv, stage = "run"
  PROVE  /\ at \in [Worker -> Status] /\ DOMAIN at = Worker
         /\ next \in [Worker -> Nat] /\ pass \in [Worker -> Int]
         /\ \A w \in Worker : next[w] \in 1 .. Len(parts[w]) + 1 /\ pass[w] \in -1 .. Len(parts[w])
         /\ fd \in [Worker -> Number \cup {0}] /\ owner \in [Number -> Worker \cup {0}]
         /\ member \in [Worker -> [Groups -> SUBSET Source]]
         /\ roster \in [ListName -> SUBSET Source] /\ canceled \in BOOLEAN /\ refused \subseteq Groups
         /\ Accepted /\ Settled /\ losses \in Nat
<1>0. TypeOK /\ Settled /\ Shaped /\ Accepted
  BY DEF IInv, Accepted
<1>1. at \in [Worker -> Status]
  BY <1>0 DEF TypeOK, Status
<1>2. DOMAIN at = Worker
  BY <1>1
<1> QED BY <1>0, <1>1, <1>2 DEF TypeOK, Shaped, Settled

(* A worker steps only when main runs.                                     *)
LEMMA OnlyInRun ==
  ASSUME IInv, NEW w \in DOMAIN at, at[w] # "start" \/ pass[w] > 0
  PROVE  stage = "run" /\ w \in Worker
<1>1. stage = "run"
  BY DEF IInv, Idle
<1> QED BY <1>1, Running

(* What no step of a running node changes.                                 *)
LEMMA Steady ==
  ASSUME IInv, stage = "run", UNCHANGED <<raw, stage, parts, roster>>, losses' \in Nat
  PROVE  /\ Settled' /\ Idle' /\ Accepted' /\ stage' = "run"
         /\ Worker' = Worker /\ Number' = Number /\ Groups' = Groups
         /\ \A g : Wanted(g)' = Wanted(g)
<1>0. Settled /\ Accepted
  BY Running
<1>1. Accepted' /\ stage' = "run" /\ Idle'
  BY DEF Accepted, Idle
<1>2. Accepts(raw)' = Accepts(raw) /\ Dealt(parts, raw)' = Dealt(parts, raw)
  OBVIOUS
<1>3. Settled'
  BY <1>0, <1>1, <1>2 DEF Settled
<1>4. Worker' = Worker /\ Number' = Number /\ Groups' = Groups
  BY DEF Worker, Number, Groups
<1>5. \A g : Wanted(g)' = Wanted(g)
  BY DEF Wanted, Sources
<1> QED BY <1>1, <1>3, <1>4, <1>5

(* TypeOK after a step of a running node.                                  *)
LEMMA Typed ==
  ASSUME IInv, stage = "run", UNCHANGED <<raw, stage, parts, roster>>, losses' \in Nat,
         at' \in [Worker -> Status],
         \A w \in Worker : next'[w] \in 1 .. Len(parts[w]) + 1 /\ pass'[w] \in -1 .. Len(parts[w]),
         fd' \in [Worker -> Number \cup {0}], owner' \in [Number -> Worker \cup {0}],
         member' \in [Worker -> [Groups -> SUBSET Source]],
         canceled' \in BOOLEAN, refused' \subseteq Groups
  PROVE  TypeOK'
<1>1. Worker' = Worker /\ Number' = Number /\ Groups' = Groups /\ stage' = "run"
  BY Steady
<1>2. roster' \in [ListName -> SUBSET Source]
  BY Running
<1> QED BY <1>1, <1>2 DEF TypeOK, Status

-------------------------------------------------------------------------------
(* The steps.                                                              *)

(* A worker opens its socket, under a number that is free.                 *)
LEMMA OpenSocketOK ==
  ASSUME IInv, NEW w \in DOMAIN at, OpenSocket(w),
         LowestFree \in Number /\ owner[LowestFree] = 0
  PROVE  IInv'
<1> PICK n : n = LowestFree
  OBVIOUS
<1>0. /\ stage = "run" /\ at[w] = "start" /\ losses' = losses
      /\ UNCHANGED <<raw, stage, parts, roster>>
      /\ UNCHANGED <<next, member, pass, canceled, refused>>
      /\ at' = [at EXCEPT ![w] = "join"] /\ fd' = [fd EXCEPT ![w] = n]
      /\ owner' = [owner EXCEPT ![n] = w]
  BY DEF OpenSocket, env
<1>1. n \in Number /\ owner[n] = 0
  OBVIOUS
<1>2. /\ at \in [Worker -> Status] /\ w \in Worker
      /\ next \in [Worker -> Nat] /\ pass \in [Worker -> Int]
      /\ fd \in [Worker -> Number \cup {0}] /\ owner \in [Number -> Worker \cup {0}]
      /\ Worker \subseteq Nat \ {0} /\ losses' \in Nat
  BY <1>0, Running, Shares
<1>3. /\ Settled' /\ Idle' /\ Accepted /\ Accepted'
      /\ Worker' = Worker /\ Number' = Number /\ Groups' = Groups
      /\ \A g : Wanted(g)' = Wanted(g)
  BY <1>0, <1>2, Steady, Running
<1>4. at' \in [Worker -> Status] /\ at'[w] = "join" /\ \A v \in Worker : v # w => at'[v] = at[v]
  BY <1>0, <1>2 DEF Status
<1>5. /\ fd' \in [Worker -> Number \cup {0}] /\ fd'[w] = n
      /\ \A v \in Worker : v # w => fd'[v] = fd[v]
  BY <1>0, <1>1, <1>2
<1>6. /\ owner' \in [Number -> Worker \cup {0}] /\ owner'[n] = w
      /\ \A m \in Number : m # n => owner'[m] = owner[m]
  BY <1>0, <1>1, <1>2
<1>7. TypeOK'
  BY <1>0, <1>2, <1>4, <1>5, <1>6, Running, Typed
<1>8. Shaped' 
  <2>1. Shaped
    BY DEF IInv
  <2> QED BY <2>1, <1>0, <1>3, <1>4 DEF Shaped
<1>9. Sockets'
  <2>1. /\ \A v \in Worker : at[v] \in {"join", "up"} => fd[v] \in Number /\ owner[fd[v]] = v
        /\ \A m \in Number : owner[m] # 0 => at[owner[m]] \in {"join", "up"} /\ fd[owner[m]] = m
        /\ \A v \in Worker : at[v] = "closed" => fd[v] \in Number /\ canceled
        /\ \A v \in Worker : pass[v] > 0 => at[v] \in {"up", "closed"}
    BY <1>3 DEF IInv, Sockets
  <2>2. \A v \in Worker : at'[v] \in {"join", "up"} => fd'[v] \in Number /\ owner'[fd'[v]] = v
    BY <1>1, <1>2, <1>4, <1>5, <1>6, <2>1
  <2>3. \A m \in Number : owner'[m] # 0 => at'[owner'[m]] \in {"join", "up"} /\ fd'[owner'[m]] = m
    BY <1>0, <1>2, <1>4, <1>5, <1>6, <2>1
  <2>4. /\ \A v \in Worker : at'[v] = "closed" => fd'[v] \in Number /\ canceled'
        /\ \A v \in Worker : pass'[v] > 0 => at'[v] \in {"up", "closed"}
    BY <1>0, <1>2, <1>4, <1>5, <2>1
  <2> QED BY <1>3, <2>2, <2>3, <2>4 DEF Sockets
<1>10. Within'
  <2>1. Within
    BY DEF IInv
  <2> QED BY <2>1, <1>0, <1>3 DEF Within, Live
<1>11. Covered'
  <2>1. Covered /\ Shaped
    BY DEF IInv
  <2>2. next[w] = 1
    BY <2>1, <1>0, <1>2, <1>3 DEF Shaped
  <2>3. \A i \in 1 .. Len(parts[w]) : ~ (i < next[w])
    BY <2>2, <1>2
  <2>4. ASSUME NEW v \in Worker, NEW i \in 1 .. Len(parts[v]),
               at'[v] = "up" \/ (at'[v] = "join" /\ i < next[v])
        PROVE  at[v] = "up" \/ (at[v] = "join" /\ i < next[v])
    BY <2>3, <2>4, <1>4
  <2> QED BY <2>1, <2>4, <1>0, <1>3, Zenon DEF Covered, Live
<1> QED BY <1>3, <1>7, <1>8, <1>9, <1>10, <1>11 DEF IInv

(* Steps that change where one worker is, and neither numbers nor          *)
(* memberships.                                                            *)
LEMMA MoveOK ==
  ASSUME IInv, NEW w \in DOMAIN at, OpenFails(w) \/ Up(w)
  PROVE  IInv'
<1> PICK to \in {"dead", "up"} :
      /\ \/ to = "dead" /\ stage = "run" /\ at[w] = "start"
         \/ to = "up" /\ at[w] = "join" /\ next[w] > Len(parts[w])
      /\ at' = [at EXCEPT ![w] = to] /\ losses' = losses
      /\ UNCHANGED <<raw, stage, parts, roster>>
      /\ UNCHANGED <<next, fd, owner, member, pass, canceled, refused>>
  <2>1. CASE OpenFails(w)
    BY <2>1 DEF OpenFails, env
  <2>2. CASE Up(w)
    BY <2>2 DEF Up, env
  <2> QED BY <2>1, <2>2
<1>0. stage = "run"
  BY OnlyInRun
<1>2. /\ at \in [Worker -> Status] /\ w \in Worker
      /\ next \in [Worker -> Nat] /\ pass \in [Worker -> Int]
      /\ owner \in [Number -> Worker \cup {0}]
      /\ Worker \subseteq Nat \ {0} /\ losses' \in Nat /\ Len(parts[w]) \in Nat
  BY <1>0, Running, Shares
<1>3. /\ Settled' /\ Idle' /\ Accepted /\ Accepted'
      /\ Worker' = Worker /\ Number' = Number /\ Groups' = Groups
      /\ \A g : Wanted(g)' = Wanted(g)
  BY <1>0, <1>2, Steady, Running
<1>4. at' \in [Worker -> Status] /\ at'[w] = to /\ \A v \in Worker : v # w => at'[v] = at[v]
  BY <1>2 DEF Status
<1>7. TypeOK'
  BY <1>0, <1>2, <1>4, Running, Typed
<1>8. Shaped'
  <2>1. Shaped
    BY DEF IInv
  <2> QED BY <2>1, <1>3, <1>4 DEF Shaped
<1>9. Sockets'
  <2>1. /\ \A v \in Worker : at[v] \in {"join", "up"} => fd[v] \in Number /\ owner[fd[v]] = v
        /\ \A m \in Number : owner[m] # 0 => at[owner[m]] \in {"join", "up"} /\ fd[owner[m]] = m
        /\ \A v \in Worker : at[v] = "closed" => fd[v] \in Number /\ canceled
        /\ \A v \in Worker : pass[v] > 0 => at[v] \in {"up", "closed"}
    BY <1>3 DEF IInv, Sockets
  <2>2. \A v \in Worker : at'[v] \in {"join", "up"} => fd'[v] \in Number /\ owner'[fd'[v]] = v
    <3>1. \A v \in Worker : at'[v] \in {"join", "up"} => at[v] \in {"join", "up"}
      BY <1>4
    <3> QED BY <3>1, <2>1
  <2>3. \A m \in Number : owner'[m] # 0 => at'[owner'[m]] \in {"join", "up"} /\ fd'[owner'[m]] = m
    <3> TAKE m \in Number
    <3>1. owner[m] # 0 => owner[m] \in Worker /\ at[owner[m]] \in {"join", "up"} /\ fd[owner[m]] = m
      BY <1>2, <2>1
    <3> QED BY <1>4, <3>1
  <2>4. /\ \A v \in Worker : at'[v] = "closed" => fd'[v] \in Number /\ canceled'
        /\ \A v \in Worker : pass'[v] > 0 => at'[v] \in {"up", "closed"}
    BY <1>4, <2>1
  <2> QED BY <1>3, <2>2, <2>3, <2>4 DEF Sockets
<1>10. Within'
  <2>1. Within
    BY DEF IInv
  <2> QED BY <2>1, <1>3 DEF Within, Live
<1>11. Covered'
  <2>1. Covered
    BY DEF IInv
  <2>2. at'[w] = "up" => at[w] = "join" /\ \A i \in 1 .. Len(parts[w]) : i < next[w]
    BY <1>2, <1>4
  <2>3. ASSUME NEW v \in Worker, NEW i \in 1 .. Len(parts[v]),
               at'[v] = "up" \/ (at'[v] = "join" /\ i < next[v])
        PROVE  at[v] = "up" \/ (at[v] = "join" /\ i < next[v])
    <3>1. CASE v = w
      BY <3>1, <2>2, <2>3, <1>4
    <3>2. CASE v # w
      BY <3>2, <2>3, <1>4
    <3> QED BY <3>1, <3>2
  <2> QED BY <2>1, <2>3, <1>3, Zenon DEF Covered, Live
<1> QED BY <1>3, <1>7, <1>8, <1>9, <1>10, <1>11 DEF IInv

(* N is the table of memberships M with one entry set.                     *)
Sets(N, M, W, G, S, u, g, X) ==
  /\ N \in [W -> [G -> SUBSET S]] /\ N[u][g] = X
  /\ \A v \in W : \A h \in G : v # u \/ h # g => N[v][h] = M[v][h]

LEMMA EntrySet ==
  ASSUME NEW W, NEW G, NEW S, NEW M \in [W -> [G -> SUBSET S]],
         NEW u \in W, NEW g \in G, NEW X \in SUBSET S
  PROVE  Sets([M EXCEPT ![u][g] = X], M, W, G, S, u, g, X)
<1>f. PICK F \in [G -> SUBSET S] : F = M[u]
  OBVIOUS
<1>1. PICK H \in [G -> SUBSET S] : H = [F EXCEPT ![g] = X]
  BY Zenon
<1>2. H[g] = X /\ \A h \in G : h # g => H[h] = F[h]
  BY <1>1
<1>n. PICK N : N = [M EXCEPT ![u] = H]
  BY Zenon
<1>3. [M EXCEPT ![u][g] = X] = N
  BY <1>f, <1>1, <1>n
<1>4. N \in [W -> [G -> SUBSET S]] /\ N[u] = H /\ \A v \in W : v # u => N[v] = M[v]
  BY <1>n
<1>5. Sets(N, M, W, G, S, u, g, X)
  BY <1>f, <1>2, <1>4 DEF Sets
<1> QED BY <1>3, <1>5, Zenon

LEMMA JoinFirstOK ==
  ASSUME IInv, NEW w \in DOMAIN at, JoinFirst(w)
  PROVE  IInv'
<1>p. PICK k, g : k = next[w] /\ g = parts[w][k]
  OBVIOUS
<1>0. /\ at[w] = "join" /\ k <= Len(parts[w]) /\ losses' = losses
      /\ UNCHANGED <<raw, stage, parts, roster>>
      /\ UNCHANGED <<at, fd, owner, pass, canceled, refused>>
  BY <1>p DEF JoinFirst, env
<1>n. next' = [next EXCEPT ![w] = @ + 1]
  BY DEF JoinFirst
<1>m. member' = [member EXCEPT ![w][g] = @ \cup Wanted(g)]
  BY <1>p, Zenon DEF JoinFirst
<1>1. stage = "run" /\ w \in Worker
  BY <1>0, OnlyInRun
<1>2. /\ next \in [Worker -> Nat] /\ losses' \in Nat
      /\ \A v \in Worker : next[v] \in 1 .. Len(parts[v]) + 1 /\ Len(parts[v]) \in Nat
      /\ member \in [Worker -> [Groups -> SUBSET Source]]
  BY <1>0, <1>1, Running, Shares
<1>3. /\ Settled' /\ Idle' /\ Accepted /\ Accepted'
      /\ Worker' = Worker /\ Number' = Number /\ Groups' = Groups
      /\ \A h : Wanted(h)' = Wanted(h)
  BY <1>0, <1>1, <1>2, Steady, Running
<1>4. k \in 1 .. Len(parts[w]) /\ k \in Nat /\ Len(parts[w]) \in Nat
  <2>1. next[w] \in 1 .. Len(parts[w]) + 1 /\ Len(parts[w]) \in Nat
    BY <1>1, <1>2, Zenon
  <2>2. k = next[w] /\ k <= Len(parts[w])
    BY <1>p, <1>0
  <2> QED BY <2>1, <2>2
<1>5. g \in Groups /\ g \in Share(parts, w) /\ Wanted(g) \subseteq Source
  <2>1. Settled /\ TypeOK
    BY DEF IInv
  <2> QED BY <1>p, <1>1, <1>3, <1>4, <2>1, Shares, WantedOK, Zenon
<1>6. PICK X \in SUBSET Source : X = member[w][g] \cup Wanted(g)
  BY <1>1, <1>2, <1>5, Zenon
<1>7. /\ member' \in [Worker -> [Groups -> SUBSET Source]] /\ member'[w][g] = X
      /\ \A v \in Worker : \A h \in Groups : v # w \/ h # g => member'[v][h] = member[v][h]
  <2>1. member' = [member EXCEPT ![w][g] = X]
    BY <1>m, <1>6
  <2>2. Sets(member', member, Worker, Groups, Source, w, g, X)
    BY <1>1, <1>2, <1>5, <1>6, <2>1, EntrySet, Zenon
  <2> QED BY <2>2, Zenon DEF Sets
<1>8. /\ next' \in [Worker -> Nat] /\ next'[w] = k + 1
      /\ \A v \in Worker : v # w => next'[v] = next[v]
      /\ \A v \in Worker : next'[v] \in 1 .. Len(parts[v]) + 1
  <2>1. next' = [next EXCEPT ![w] = k + 1] /\ k + 1 \in Nat /\ k + 1 \in 1 .. Len(parts[w]) + 1
    <3>1. next' = [next EXCEPT ![w] = k + 1]
      BY <1>n, <1>p, <1>1, <1>2
    <3> QED BY <3>1, <1>4
  <2>2. /\ next' \in [Worker -> Nat] /\ next'[w] = k + 1
        /\ \A v \in Worker : v # w => next'[v] = next[v]
    BY <2>1, <1>1, <1>2, Zenon
  <2> QED BY <2>1, <2>2, <1>2, Zenon
<1>9. TypeOK'
  BY <1>0, <1>1, <1>2, <1>7, <1>8, Running, Typed
<1>10. Shaped'
  <2>1. Shaped
    BY DEF IInv
  <2> QED BY <2>1, <1>0, <1>3, <1>8 DEF Shaped
<1>11. Sockets'
  <2>1. Sockets
    BY DEF IInv
  <2> QED BY <2>1, <1>0, <1>3 DEF Sockets
<1>12. Within'
  <2>1. Within
    BY Zenon DEF IInv
  <2>2. Live' => Live
    BY <1>0 DEF Live
  <2>3. Live => \A v \in Worker : \A h \in Groups :
          /\ member'[v][h] \subseteq Wanted(h)
          /\ member'[v][h] # {} => h \in Share(parts, v)
    BY <2>1, <1>5, <1>6, <1>7 DEF Within
  <2> QED BY <2>2, <2>3, <1>0, <1>3 DEF Within
<1>13. Covered'
  <2> SUFFICES ASSUME Live, losses = 0, NEW v \in Worker, NEW i \in 1 .. Len(parts[v]),
                      at[v] = "up" \/ (at[v] = "join" /\ i < next'[v])
               PROVE  member'[v][parts[v][i]] = Wanted(parts[v][i])
    BY <1>0, <1>3, Zenon DEF Covered, Live
  <2>1. Covered /\ Within /\ Settled
    BY DEF IInv
  <2>2. parts[v][i] \in Groups /\ (v = w => (parts[v][i] = g => i = k))
    BY <1>p, <2>1, <1>3, <1>4, Shares
  <2>3. CASE v # w
    <3>1. next'[v] = next[v] /\ member'[v][parts[v][i]] = member[v][parts[v][i]]
      BY <2>2, <2>3, <1>7, <1>8, Zenon
    <3>2. member[v][parts[v][i]] = Wanted(parts[v][i])
      BY <2>1, <3>1, Zenon DEF Covered
    <3> QED BY <3>1, <3>2
  <2>4. CASE v = w /\ i = k
    <3>1. member[w][g] \subseteq Wanted(g)
      BY <2>1, <1>1, <1>5 DEF Within
    <3>2. parts[v][i] = g
      BY <2>4, <1>p
    <3> QED BY <2>4, <3>1, <3>2, <1>6, <1>7
  <2>5. CASE v = w /\ i # k
    <3>1. i < next[v]
      <4>1. i < k + 1 /\ i \in Int
        <5>1. next'[v] = k + 1 /\ at[v] = "join"
          BY <2>5, <1>0, <1>8
        <5> QED BY <5>1
      <4> QED BY <4>1, <2>5, <1>4, <1>p
    <3>2. member[v][parts[v][i]] = Wanted(parts[v][i])
      BY <2>1, <2>5, <3>1, <1>0 DEF Covered
    <3> QED BY <2>2, <2>5, <3>2, <1>7
  <2> QED BY <2>3, <2>4, <2>5
<1> QED BY <1>3, <1>9, <1>10, <1>11, <1>12, <1>13 DEF IInv

(* A socket is closed: because a first join failed, or ctx is done.        *)
LEMMA ClosedOK ==
  ASSUME IInv, NEW w \in DOMAIN at, JoinFirstFails(w) \/ CloseSocket(w)
  PROVE  IInv'
<1> PICK to \in {"dead", "closed"} :
      /\ \/ to = "dead" /\ at[w] = "join"
         \/ to = "closed" /\ at[w] = "up" /\ canceled
      /\ at' = [at EXCEPT ![w] = to] /\ losses' = losses
      /\ owner' = [owner EXCEPT ![fd[w]] = 0]
      /\ \/ member' = [member EXCEPT ![w] = [g \in Groups |-> {}]]
         \/ member' = [member EXCEPT ![owner[fd[w]]] = [g \in Groups |-> {}]]
      /\ UNCHANGED <<raw, stage, parts, roster>>
      /\ UNCHANGED <<next, fd, pass, canceled, refused>>
  <2>1. CASE JoinFirstFails(w)
    BY <2>1 DEF JoinFirstFails, env
  <2>2. CASE CloseSocket(w)
    BY <2>2 DEF CloseSocket, env
  <2> QED BY <2>1, <2>2
<1>1. stage = "run" /\ w \in Worker
  BY OnlyInRun
<1>2. /\ at \in [Worker -> Status] /\ owner \in [Number -> Worker \cup {0}]
      /\ pass \in [Worker -> Int]
      /\ member \in [Worker -> [Groups -> SUBSET Source]] /\ losses' \in Nat
      /\ Worker \subseteq Nat \ {0}
  BY <1>1, Running, Shares
<1>3. /\ Settled' /\ Idle' /\ Accepted /\ Accepted'
      /\ Worker' = Worker /\ Number' = Number /\ Groups' = Groups
      /\ \A h : Wanted(h)' = Wanted(h)
  BY <1>1, <1>2, Steady, Running
<1>4. /\ \A v \in Worker : at[v] \in {"join", "up"} => fd[v] \in Number /\ owner[fd[v]] = v
      /\ \A m \in Number : owner[m] # 0 => at[owner[m]] \in {"join", "up"} /\ fd[owner[m]] = m
      /\ \A v \in Worker : at[v] = "closed" => fd[v] \in Number /\ canceled
      /\ \A v \in Worker : pass[v] > 0 => at[v] \in {"up", "closed"}
  BY <1>3 DEF IInv, Sockets
<1>5. PICK n \in Number : n = fd[w] /\ owner[n] = w
  BY <1>1, <1>4
<1>6. at' \in [Worker -> Status] /\ at'[w] = to /\ \A v \in Worker : v # w => at'[v] = at[v]
  BY <1>1, <1>2 DEF Status
<1>7. /\ owner' \in [Number -> Worker \cup {0}] /\ owner'[n] = 0
      /\ \A m \in Number : m # n => owner'[m] = owner[m]
  BY <1>2, <1>5
<1>8. /\ member' \in [Worker -> [Groups -> SUBSET Source]]
      /\ \A h \in Groups : member'[w][h] = {}
      /\ \A v \in Worker : v # w => member'[v] = member[v]
  <2>1. member' = [member EXCEPT ![w] = [g \in Groups |-> {}]]
    BY <1>5
  <2>2. [g \in Groups |-> {}] \in [Groups -> SUBSET Source]
    OBVIOUS
  <2> QED BY <2>1, <2>2, <1>1, <1>2
<1>9. TypeOK'
  BY <1>1, <1>2, <1>6, <1>7, <1>8, Running, Typed
<1>10. Shaped'
  <2>1. Shaped
    BY DEF IInv
  <2> QED BY <2>1, <1>3, <1>6 DEF Shaped
<1>11. Sockets'
  <2>2. \A v \in Worker : at'[v] \in {"join", "up"} => fd'[v] \in Number /\ owner'[fd'[v]] = v
    BY <1>4, <1>5, <1>6, <1>7
  <2>3. \A m \in Number : owner'[m] # 0 => at'[owner'[m]] \in {"join", "up"} /\ fd'[owner'[m]] = m
    <3> TAKE m \in Number
    <3>1. owner[m] # 0 => owner[m] \in Worker /\ at[owner[m]] \in {"join", "up"} /\ fd[owner[m]] = m
      BY <1>2, <1>4
    <3> QED BY <1>5, <1>6, <1>7, <3>1
  <2>4. \A v \in Worker : at'[v] = "closed" => fd'[v] \in Number /\ canceled'
    BY <1>4, <1>5, <1>6
  <2>5. \A v \in Worker : pass'[v] > 0 => at'[v] \in {"up", "closed"}
    BY <1>4, <1>6
  <2> QED BY <1>3, <2>2, <2>3, <2>4, <2>5 DEF Sockets
<1>12. Within'
  <2>1. Within /\ (Live' => Live)
    BY DEF IInv, Live
  <2>2. Live => \A v \in Worker : \A h \in Groups :
          /\ member'[v][h] \subseteq Wanted(h)
          /\ member'[v][h] # {} => h \in Share(parts, v)
    BY <2>1, <1>8 DEF Within
  <2> QED BY <2>1, <2>2, <1>3 DEF Within
<1>13. Covered'
  <2>1. Covered /\ (Live' => Live)
    BY DEF IInv, Live
  <2>2. at'[w] # "up" /\ at'[w] # "join"
    BY <1>6
  <2> SUFFICES ASSUME Live, losses = 0, NEW v \in Worker, NEW i \in 1 .. Len(parts[v]),
                      at'[v] = "up" \/ (at'[v] = "join" /\ i < next[v])
               PROVE  member'[v][parts[v][i]] = Wanted(parts[v][i])
    BY <2>1, <1>3 DEF Covered
  <2>3. v # w
    BY <2>2
  <2>4. at'[v] = at[v] /\ member'[v] = member[v]
    BY <2>3, <1>6, <1>8
  <2> QED BY <2>1, <2>4 DEF Covered
<1> QED BY <1>3, <1>9, <1>10, <1>11, <1>12, <1>13 DEF IInv

LEMMA TickOK ==
  ASSUME IInv, NEW w \in DOMAIN at, Tick(w) \/ StopRejoining(w)
  PROVE  IInv'
<1> PICK to \in {1, -1} :
      /\ at[w] \in {"up", "closed"} /\ pass' = [pass EXCEPT ![w] = to] /\ losses' = losses
      /\ UNCHANGED <<raw, stage, parts, roster>>
      /\ UNCHANGED <<at, next, fd, owner, member, canceled, refused>>
  BY DEF Tick, StopRejoining, env
<1>1. stage = "run" /\ w \in Worker
  BY OnlyInRun
<1>2. /\ pass \in [Worker -> Int] /\ losses' \in Nat
      /\ \A v \in Worker : pass[v] \in -1 .. Len(parts[v]) /\ Len(parts[v]) \in Nat \ {0}
  BY <1>1, Running, Shares
<1>3. /\ Settled' /\ Idle' /\ Accepted /\ Accepted'
      /\ Worker' = Worker /\ Number' = Number /\ Groups' = Groups
      /\ \A h : Wanted(h)' = Wanted(h)
  BY <1>1, <1>2, Steady, Running
<1>4. /\ pass' \in [Worker -> Int] /\ pass'[w] = to
      /\ \A v \in Worker : v # w => pass'[v] = pass[v]
      /\ \A v \in Worker : pass'[v] \in -1 .. Len(parts[v])
  BY <1>1, <1>2
<1>5. TypeOK'
  BY <1>1, <1>2, <1>4, Running, Typed
<1>6. Shaped'
  <2>1. Shaped
    BY DEF IInv
  <2> QED BY <2>1, <1>3, <1>4 DEF Shaped
<1>7. Sockets'
  <2>1. Sockets
    BY DEF IInv
  <2> QED BY <2>1, <1>3, <1>4, Zenon DEF Sockets
<1>8. Within' /\ Covered'
  <2>1. Within /\ Covered
    BY DEF IInv
  <2> QED BY <2>1, <1>3, Zenon DEF Within, Covered, Live
<1> QED BY <1>3, <1>5, <1>6, <1>7, <1>8 DEF IInv

LEMMA RejoinOK ==
  ASSUME IInv, NEW w \in DOMAIN at, Rejoin(w)
  PROVE  IInv'
<1>p. PICK g, u, k : g = parts[w][pass[w]] /\ u = owner[fd[w]] /\ k = pass[w]
  OBVIOUS
<1>0. /\ k > 0 /\ losses' = losses
      /\ UNCHANGED <<raw, stage, parts, roster>>
      /\ UNCHANGED <<at, next, fd, owner, canceled, refused>>
      /\ member' = IF u = 0 \/ g \in refused THEN member
                   ELSE [member EXCEPT ![u][g] = @ \cup Wanted(g)]
      /\ pass' = [pass EXCEPT ![w] = IF k = Len(parts[w]) THEN 0 ELSE k + 1]
  BY <1>p DEF Rejoin, env, NextOfPass
<1>1. stage = "run" /\ w \in Worker
  BY <1>p, <1>0, OnlyInRun
<1>2. /\ pass \in [Worker -> Int] /\ losses' \in Nat
      /\ \A v \in Worker : pass[v] \in -1 .. Len(parts[v]) /\ Len(parts[v]) \in Nat \ {0}
      /\ member \in [Worker -> [Groups -> SUBSET Source]]
      /\ owner \in [Number -> Worker \cup {0}]
  BY <1>0, <1>1, Running, Shares
<1>3. /\ Settled' /\ Idle' /\ Accepted /\ Accepted'
      /\ Worker' = Worker /\ Number' = Number /\ Groups' = Groups
      /\ \A h : Wanted(h)' = Wanted(h)
  BY <1>0, <1>1, <1>2, Steady, Running
<1>4. k \in 1 .. Len(parts[w]) /\ k \in Int /\ Len(parts[w]) \in Nat
  <2>1. pass[w] \in -1 .. Len(parts[w]) /\ Len(parts[w]) \in Nat
    BY <1>1, <1>2
  <2>2. k = pass[w] /\ k > 0
    BY <1>p, <1>0
  <2> QED BY <2>1, <2>2
<1>5. g \in Groups /\ g \in Share(parts, w) /\ Wanted(g) \subseteq Source
  <2>1. Settled /\ TypeOK
    BY DEF IInv
  <2> QED BY <1>p, <1>1, <1>3, <1>4, <2>1, Shares, WantedOK, Zenon
<1>6. u \in Worker \cup {0} /\ (Live => u = w)
  <2>1. Sockets
    BY DEF IInv
  <2>2. /\ at[w] \in {"up", "closed"}
        /\ at[w] = "up" => fd[w] \in Number /\ owner[fd[w]] = w
        /\ at[w] = "closed" => fd[w] \in Number /\ canceled
    BY <2>1, <1>p, <1>0, <1>1, <1>3 DEF Sockets
  <2> QED BY <2>2, <1>p, <1>1, <1>2, Zenon DEF Live
<1>7. /\ pass' \in [Worker -> Int]
      /\ \A v \in Worker : v # w => pass'[v] = pass[v]
      /\ \A v \in Worker : pass'[v] \in -1 .. Len(parts[v])
  <2>1. PICK t \in Int : t = (IF k = Len(parts[w]) THEN 0 ELSE k + 1) /\ t \in -1 .. Len(parts[w])
    BY <1>4
  <2>2. /\ pass' \in [Worker -> Int] /\ pass'[w] = t
        /\ \A v \in Worker : v # w => pass'[v] = pass[v]
    BY <2>1, <1>0, <1>1, <1>2
  <2> QED BY <2>1, <2>2, <1>2, Zenon
(* What the step adds to memberships.                                      *)
<1>8. /\ member' \in [Worker -> [Groups -> SUBSET Source]]
      /\ \A v \in Worker : \A h \in Groups :
           \/ member'[v][h] = member[v][h]
           \/ v = u /\ h = g /\ member'[v][h] = member[v][h] \cup Wanted(h)
  <2>1. CASE u = 0 \/ g \in refused
    BY <2>1, <1>0, <1>2
  <2>2. CASE ~ (u = 0 \/ g \in refused)
    <3>1. u \in Worker
      BY <2>2, <1>6
    <3>2. PICK X \in SUBSET Source : X = member[u][g] \cup Wanted(g)
      BY <3>1, <1>2, <1>5, Zenon
    <3>3. member' = [member EXCEPT ![u][g] = X]
      BY <2>2, <3>2, <1>0
    <3>4. /\ member' \in [Worker -> [Groups -> SUBSET Source]] /\ member'[u][g] = X
          /\ \A v \in Worker : \A h \in Groups : v # u \/ h # g => member'[v][h] = member[v][h]
      <4>1. Sets(member', member, Worker, Groups, Source, u, g, X)
        BY <3>1, <3>2, <3>3, <1>2, <1>5, EntrySet, Zenon
      <4> QED BY <4>1, Zenon DEF Sets
    <3> QED BY <3>2, <3>4
  <2> QED BY <2>1, <2>2
<1>9. TypeOK'
  BY <1>0, <1>1, <1>2, <1>7, <1>8, Running, Typed
<1>10. Shaped'
  <2>1. Shaped
    BY DEF IInv
  <2> QED BY <2>1, <1>0, <1>3, <1>7 DEF Shaped
<1>11. Sockets'
  <2>1. Sockets
    BY DEF IInv
  <2>2. \A v \in Worker : pass'[v] > 0 => pass[v] > 0
    BY <1>p, <1>0, <1>7
  <2> QED BY <2>1, <2>2, <1>0, <1>3 DEF Sockets
<1>12. Within'
  <2>1. Within /\ (Live' => Live)
    BY <1>0 DEF IInv, Live
  <2>2. Live => \A v \in Worker : \A h \in Groups :
          /\ member'[v][h] \subseteq Wanted(h)
          /\ member'[v][h] # {} => h \in Share(parts, v)
    <3> SUFFICES ASSUME Live, NEW v \in Worker, NEW h \in Groups
                 PROVE  /\ member'[v][h] \subseteq Wanted(h)
                        /\ member'[v][h] # {} => h \in Share(parts, v)
      OBVIOUS
    <3>1. member[v][h] \subseteq Wanted(h) /\ (member[v][h] # {} => h \in Share(parts, v))
      BY <2>1, Zenon DEF Within
    <3>2. CASE member'[v][h] = member[v][h]
      BY <3>1, <3>2
    <3>3. CASE v = u /\ h = g /\ member'[v][h] = member[v][h] \cup Wanted(h)
      BY <3>1, <3>3, <1>5, <1>6
    <3> QED BY <3>2, <3>3, <1>8
  <2> QED BY <2>1, <2>2, <1>0, <1>3 DEF Within
<1>13. Covered'
  <2> SUFFICES ASSUME Live, losses = 0, NEW v \in Worker, NEW i \in 1 .. Len(parts[v]),
                      at[v] = "up" \/ (at[v] = "join" /\ i < next[v])
               PROVE  member'[v][parts[v][i]] = Wanted(parts[v][i])
    BY <1>0, <1>3, Zenon DEF Covered, Live
  <2>1. Covered /\ Settled
    BY DEF IInv
  <2>2. parts[v][i] \in Groups
    BY <2>1, <1>3, Shares
  <2>3. member[v][parts[v][i]] = Wanted(parts[v][i])
    BY <2>1 DEF Covered
  <2>4. PICK h \in Groups : h = parts[v][i]
    BY <2>2
  <2>5. member[v][h] = Wanted(h)
    BY <2>3, <2>4
  <2>6. member'[v][h] = Wanted(h)
    <3>1. member'[v][h] = member[v][h] \/ member'[v][h] = member[v][h] \cup Wanted(h)
      BY <1>8
    <3>2. Wanted(h) \cup Wanted(h) = Wanted(h)
      OBVIOUS
    <3> QED BY <2>5, <3>1, <3>2, Zenon
  <2> QED BY <2>4, <2>6
<1> QED BY <1>3, <1>9, <1>10, <1>11, <1>12, <1>13 DEF IInv

LEMMA LoseOK ==
  ASSUME IInv, NEW w \in DOMAIN at, Lose(w)
  PROVE  IInv'
<1>0. /\ at[w] \in {"join", "up"} /\ losses' = losses + 1
      /\ UNCHANGED <<raw, stage, parts, roster>>
      /\ UNCHANGED <<at, next, fd, owner, pass, canceled, refused>>
  BY DEF Lose
<1>g. PICK g \in Groups : \E s : member' = [member EXCEPT ![w][g] = @ \ {s}]
  BY Zenon DEF Lose
<1>s. PICK s : member' = [member EXCEPT ![w][g] = @ \ {s}]
  BY <1>g, Zenon
<1>1. stage = "run" /\ w \in Worker
  BY <1>0, OnlyInRun
<1>2. /\ losses \in Nat /\ losses' \in Nat /\ losses' # 0
      /\ member \in [Worker -> [Groups -> SUBSET Source]]
  BY <1>0, <1>1, Running
<1>3. /\ Settled' /\ Idle' /\ Accepted /\ Accepted'
      /\ Worker' = Worker /\ Number' = Number /\ Groups' = Groups
      /\ \A h : Wanted(h)' = Wanted(h)
  BY <1>0, <1>1, <1>2, Steady, Running
<1>4. PICK X \in SUBSET Source : X = member[w][g] \ {s}
  BY <1>1, <1>2, Zenon
<1>5. /\ member' \in [Worker -> [Groups -> SUBSET Source]] /\ member'[w][g] = X
      /\ \A v \in Worker : \A h \in Groups : v # w \/ h # g => member'[v][h] = member[v][h]
  <2>1. member' = [member EXCEPT ![w][g] = X]
    BY <1>s, <1>4
  <2>2. Sets(member', member, Worker, Groups, Source, w, g, X)
    BY <1>1, <1>2, <1>g, <1>4, <2>1, EntrySet, Zenon
  <2> QED BY <2>2, Zenon DEF Sets
<1>6. TypeOK'
  BY <1>0, <1>1, <1>2, <1>5, Running, Typed
<1>7. Shaped' /\ Sockets'
  <2>1. Shaped /\ Sockets
    BY DEF IInv
  <2> QED BY <2>1, <1>0, <1>3 DEF Shaped, Sockets
<1>8. Within'
  <2>1. Within /\ (Live' => Live)
    BY <1>0 DEF IInv, Live
  <2>2. Live => \A v \in Worker : \A h \in Groups :
          /\ member'[v][h] \subseteq Wanted(h)
          /\ member'[v][h] # {} => h \in Share(parts, v)
    BY <2>1, <1>1, <1>4, <1>5 DEF Within
  <2> QED BY <2>1, <2>2, <1>0, <1>3, Zenon DEF Within
<1>9. Covered'
  BY <1>2, Zenon DEF Covered
<1> QED BY <1>3, <1>6, <1>7, <1>8, <1>9 DEF IInv

(* Groups begin and cease to refuse, ctx is done.                          *)
LEMMA WorldOK ==
  ASSUME IInv, Refuse \/ Relent \/ Cancel
  PROVE  IInv'
<1>0. /\ UNCHANGED <<raw, stage, parts, roster>>
      /\ UNCHANGED <<at, next, fd, owner, member, pass, losses>>
      /\ canceled' = canceled \/ canceled' = TRUE
  BY DEF Refuse, Relent, Cancel
<1>1. stage = "run"
  <2>1. CASE Refuse \/ Cancel
    BY <2>1 DEF Refuse, Cancel
  <2>2. CASE Relent
    BY <2>2, Zenon DEF Relent, IInv, Idle
  <2> QED BY <2>1, <2>2
<1>2. refused' \subseteq Groups /\ canceled' \in BOOLEAN /\ losses' \in Nat
  <2>1. refused \subseteq Groups /\ canceled \in BOOLEAN /\ losses \in Nat
    BY <1>1, Running
  <2> QED BY <2>1, <1>0, Zenon DEF Refuse, Relent, Cancel
<1>3. /\ Settled' /\ Idle' /\ Accepted /\ Accepted'
      /\ Worker' = Worker /\ Number' = Number /\ Groups' = Groups
      /\ \A h : Wanted(h)' = Wanted(h)
  BY <1>0, <1>1, <1>2, Steady, Running
<1>4. TypeOK'
  BY <1>0, <1>1, <1>2, Running, Typed
<1>5. Shaped' /\ Sockets'
  <2>1. Shaped /\ Sockets
    BY DEF IInv
  <2>2. Shaped'
    BY <2>1, <1>0, <1>3 DEF Shaped
  <2>3. canceled => canceled'
    BY <1>0
  <2> QED BY <2>1, <2>2, <2>3, <1>0, <1>3, Zenon DEF Sockets
<1>6. Within' /\ Covered'
  <2>1. Within /\ Covered /\ (Live' => Live)
    BY <1>0 DEF IInv, Live
  <2> QED BY <2>1, <1>0, <1>3 DEF Within, Covered
<1> QED BY <1>3, <1>4, <1>5, <1>6 DEF IInv

(* The groups dealt in p.                                                  *)
GroupsOf(p) == UNION {{p[w][i] : i \in 1 .. Len(p[w])} : w \in DOMAIN p}

LEMMA LoadOK ==
  ASSUME IInv, Load
  PROVE  IInv'
<1>0. stage = "load" /\ UNCHANGED <<raw, roster>> /\ UNCHANGED <<canceled, refused, losses>>
  BY DEF Load, env
<1>1. /\ raw \in Raw /\ losses \in Nat /\ refused = {} /\ canceled \in BOOLEAN
      /\ roster \in [ListName -> SUBSET Source]
      /\ \A l \in ListName : roster[l] \subseteq raw[l]
      /\ \A w \in DOMAIN at : at[w] = "start" /\ pass[w] = 0
  BY <1>0 DEF IInv, TypeOK, Settled, Idle
<1>2. CASE Accepts(raw)
  <2>p. PICK ps : ps = Parts(raw)
    OBVIOUS
  <2>0. stage' = "bootstrap" /\ parts' = ps
    BY <1>2, <2>p, Zenon DEF Load
  <2>1. Accepted' /\ Dealt(ps, raw) /\ Settled'
    <3>1. Dealt(ps, raw)
      BY <2>p, <1>1, <1>2, PartsOK, Zenon
    <3> QED BY <3>1, <2>0, <1>0, <1>1, <1>2 DEF Accepted, Settled
  <2>2. /\ DOMAIN ps = Worker' /\ Worker' \subseteq Nat \ {0}
        /\ \A w \in Worker' : Len(ps[w]) \in Nat \ {0}
    <3>0. ps \in Seq(Seq(Nat)) /\ \A w \in 1 .. Len(ps) : ps[w] # <<>>
      BY <2>1, Zenon DEF Dealt, Deals
    <3>k. PICK k \in Nat : Len(ps) \in 1 .. k
      BY <2>1, Zenon DEF Dealt, Deals
    <3>1. ps \in Seq(Seq(Nat)) /\ Len(ps) # 0 /\ \A w \in 1 .. Len(ps) : ps[w] # <<>>
      BY <3>0, <3>k
    <3>2. DOMAIN ps = Worker' /\ Worker' = 1 .. Len(ps) /\ Worker' \subseteq Nat \ {0}
      BY <2>0, <3>1 DEF Worker
    <3>3. \A w \in 1 .. Len(ps) : ps[w] \in Seq(Nat) /\ ps[w] # <<>>
      BY <3>1
    <3>4. \A w \in 1 .. Len(ps) : Len(ps[w]) \in Nat \ {0}
      BY <3>3
    <3> QED BY <3>2, <3>4
  <2>3. /\ at' = [w \in Worker' |-> "start"] /\ next' = [w \in Worker' |-> 1]
        /\ fd' = [w \in Worker' |-> 0] /\ owner' = [n \in Number' |-> 0]
        /\ member' = [w \in Worker' |-> [g \in Groups' |-> {}]]
        /\ pass' = [w \in Worker' |-> 0]
    <3>0. Groups' = GroupsOf(parts')
      BY Zenon DEF Groups, GroupsOf
    <3>1. Groups' = GroupsOf(ps)
      BY <2>0, <3>0, Zenon
    <3>2. Number' = 1 .. Len(ps) + 1
      BY <2>0 DEF Number
    <3> DEFINE ws == DOMAIN Parts(raw)
               gs == GroupsOf(Parts(raw))
    <3>3. /\ at' = [w \in ws |-> "start"] /\ next' = [w \in ws |-> 1]
          /\ fd' = [w \in ws |-> 0] /\ owner' = [n \in 1 .. Len(Parts(raw)) + 1 |-> 0]
          /\ member' = [w \in ws |-> [g \in gs |-> {}]]
          /\ pass' = [w \in ws |-> 0]
      BY <1>2, Zenon DEF Load, GroupsOf
    <3>4. ws = Worker' /\ gs = Groups' /\ 1 .. Len(Parts(raw)) + 1 = Number'
      BY <2>p, <2>2, <3>1, <3>2, Zenon
    <3> HIDE DEF ws, gs
    <3> QED BY <3>3, <3>4
  <2>4. TypeOK'
    <3>1. \A w \in Worker' : next'[w] \in 1 .. Len(parts'[w]) + 1 /\ pass'[w] \in -1 .. Len(parts'[w])
      BY <2>0, <2>2, <2>3
    <3>2. member' \in [Worker' -> [Groups' -> SUBSET Source]]
      BY <2>3
    <3> QED BY <3>1, <3>2, <2>0, <2>3, <1>0, <1>1 DEF TypeOK
  <2>5. Idle' /\ Shaped' /\ Sockets'
    <3>1. /\ \A w \in Worker' : at'[w] = "start" /\ next'[w] = 1 /\ pass'[w] = 0
          /\ DOMAIN at' = Worker' /\ \A n \in Number' : owner'[n] = 0
      BY <2>3, Zenon
    <3>2. \A w \in Worker' : \A g \in Groups' : member'[w][g] = {}
      BY <2>3, Zenon
    <3>3. Idle'
      BY <3>1, <3>2, <1>0, <1>1, Zenon DEF Idle
    <3>4. next' \in [Worker' -> Nat] /\ pass' \in [Worker' -> Int]
      BY <2>3
    <3>5. Shaped'
      BY <3>1, <3>4, Zenon DEF Shaped
    <3>6. ~ (0 > 0)
      OBVIOUS
    <3>7. Sockets'
      BY <3>1, <3>6 DEF Sockets
    <3> QED BY <3>3, <3>5, <3>7
  <2>6. Within' /\ Covered'
    BY <2>0 DEF Within, Covered, Live
  <2> QED BY <2>1, <2>4, <2>5, <2>6 DEF IInv
<1>3. CASE ~ Accepts(raw)
  <2>0. stage' = "error" /\ UNCHANGED <<parts, at, next, fd, owner, member, pass>>
    BY <1>3 DEF Load
  <2>1. ~ Accepted' /\ ~ Live'
    BY <2>0 DEF Accepted, Live
  <2>2. TypeOK'
    BY <2>0, <2>1, <1>0, <1>1 DEF TypeOK
  <2>3. Settled' /\ Idle'
    BY <2>0, <2>1, <1>0, <1>1 DEF Settled, Idle
  <2>4. Shaped' /\ Sockets' /\ Within' /\ Covered'
    BY <2>1 DEF Shaped, Sockets, Within, Covered
  <2> QED BY <2>2, <2>3, <2>4 DEF IInv
<1> QED BY <1>2, <1>3

LEMMA BootstrapOK ==
  ASSUME IInv, Bootstrap
  PROVE  IInv'
<1>0. /\ stage = "bootstrap" /\ stage' \in {"run", "error"}
      /\ UNCHANGED <<raw, parts, at, next, fd, owner, member, pass>>
      /\ UNCHANGED <<canceled, refused, losses>>
  BY Zenon DEF Bootstrap, env
<1>1. Worker' = Worker /\ Number' = Number /\ Groups' = Groups
  BY <1>0 DEF Worker, Number, Groups
<1>2. Accepted /\ (Accepted' => stage' = "run")
  BY <1>0 DEF Accepted
<1>3. roster' \in [ListName -> SUBSET Source] /\ \A l \in ListName : roster'[l] \subseteq raw[l]
  <2>1. roster \in [ListName -> SUBSET Source] /\ \A l \in ListName : roster[l] \subseteq raw[l]
    BY DEF IInv, TypeOK, Settled
  <2> QED BY <2>1 DEF Bootstrap
<1>4. TypeOK'
  <2>1. TypeOK
    BY DEF IInv
  <2> QED BY <2>1, <1>0, <1>1, <1>2, <1>3 DEF TypeOK
<1>5. Settled'
  <2>1. Settled
    BY DEF IInv
  <2> QED BY <2>1, <1>0, <1>2, <1>3 DEF Settled
<1>6. Idle' /\ Shaped' /\ Sockets'
  <2>1. Idle /\ Shaped /\ Sockets
    BY DEF IInv
  <2>2. Idle'
    BY <2>1, <1>0 DEF Idle
  <2> QED BY <2>1, <2>2, <1>0, <1>1, <1>2 DEF Shaped, Sockets
<1>7. \A w \in Worker : at[w] = "start" /\ \A g \in Groups : member[w][g] = {}
  <2>1. Idle /\ TypeOK
    BY DEF IInv
  <2>2. DOMAIN at = Worker
    BY <2>1, <1>2 DEF TypeOK
  <2> QED BY <2>1, <2>2, <1>0 DEF Idle
<1>8. Within' /\ Covered'
  BY <1>0, <1>1, <1>7 DEF Within, Covered
<1> QED BY <1>4, <1>5, <1>6, <1>8 DEF IInv

LEMMA InitOK == Init => IInv
<1> SUFFICES ASSUME Init PROVE IInv
  OBVIOUS
<1>0. /\ stage = "load" /\ raw \in Raw /\ roster = NoLists /\ at = <<>>
      /\ canceled = FALSE /\ refused = {} /\ losses = 0
  BY DEF Init
<1>1. ~ Accepted /\ ~ Live
  BY <1>0 DEF Accepted, Live
<1>2. roster \in [ListName -> SUBSET Source] /\ \A l \in ListName : roster[l] = {}
  <2>1. DOMAIN NoLists = ListName
    BY Zenon DEF ListName
  <2>3. \A l \in ListName : NoLists[l] = {}
    <3>1. /\ NoLists["manifest"] = {} /\ NoLists["beaconSources"] = {}
          /\ NoLists["subtreeSources"] = {} /\ NoLists["static"] = {}
      BY DEF NoLists
    <3> QED BY <3>1, Lists, Zenon
  <2>2. NoLists = [l \in ListName |-> NoLists[l]]
    BY <2>1 DEF NoLists
  <2> QED BY <2>1, <2>2, <2>3, <1>0
<1>3. DOMAIN at = {}
  BY <1>0
<1>4. TypeOK
  BY <1>0, <1>1, <1>2, Zenon DEF TypeOK
<1>5. Settled /\ Idle
  BY <1>0, <1>1, <1>2, <1>3 DEF Settled, Idle
<1>6. Shaped /\ Sockets /\ Within /\ Covered
  BY <1>1, Zenon DEF Shaped, Sockets, Within, Covered
<1> QED BY <1>4, <1>5, <1>6 DEF IInv

LEMMA StutterOK == ASSUME IInv, UNCHANGED vars PROVE IInv'
<1>1. /\ UNCHANGED <<raw, stage, parts, roster, at, next, fd, owner, member, pass>>
      /\ UNCHANGED <<canceled, refused, losses>>
  BY DEF vars, env
<1>2. /\ Accepted' = Accepted /\ Live' = Live
      /\ Worker' = Worker /\ Number' = Number /\ Groups' = Groups
      /\ Accepts(raw)' = Accepts(raw) /\ Dealt(parts, raw)' = Dealt(parts, raw)
      /\ \A g : Wanted(g)' = Wanted(g)
  <2>1. Accepted' = Accepted /\ Live' = Live
    BY <1>1 DEF Accepted, Live
  <2>2. Worker' = Worker /\ Number' = Number /\ Groups' = Groups
    BY <1>1 DEF Worker, Number, Groups
  <2>3. Accepts(raw)' = Accepts(raw) /\ Dealt(parts, raw)' = Dealt(parts, raw)
    BY <1>1
  <2>4. \A g : Wanted(g)' = Wanted(g)
    BY <1>1 DEF Wanted, Sources
  <2> QED BY <2>1, <2>2, <2>3, <2>4
<1>3. TypeOK'
  BY <1>1, <1>2 DEF IInv, TypeOK
<1>4. Settled' /\ Idle'
  BY <1>1, <1>2 DEF IInv, Settled, Idle
<1>5. Shaped' /\ Sockets'
  BY <1>1, <1>2 DEF IInv, Shaped, Sockets
<1>6. Within' /\ Covered'
  BY <1>1, <1>2, Zenon DEF IInv, Within, Covered
<1> QED BY <1>3, <1>4, <1>5, <1>6 DEF IInv

-------------------------------------------------------------------------------
(* What the invariant implies.                                             *)

LEMMA DealtOnceOK == IInv => EachGroupOnce
<1> SUFFICES ASSUME IInv, Accepted PROVE EachGroupOnce
  BY DEF EachGroupOnce
<1>0. Settled /\ Dealt(parts, raw)
  BY DEF IInv, Settled
<1>1. Groups = Indexes(raw)
  BY <1>0, Zenon DEF Dealt, Deals, Groups, Share
<1>2. Live => \A g \in Groups : \A w, v \in Worker : member[w][g] # {} /\ member[v][g] # {} => w = v
  <2>1. Within
    BY DEF IInv
  <2>2. \A w, v \in Worker : Share(parts, w) \cap Share(parts, v) # {} => w = v
    BY <1>0, Shares
  <2> QED BY <2>1, <2>2 DEF Within
<1>3. /\ Len(parts) \in 1 .. NumWorkers(raw) /\ \A w \in Worker : parts[w] # <<>>
      /\ \A w, v \in Worker : \A i \in 1 .. Len(parts[w]), j \in 1 .. Len(parts[v]) :
           parts[w][i] = parts[v][j] => w = v /\ i = j
  BY <1>0 DEF Dealt, Deals, Worker
<1> QED BY <1>1, <1>2, <1>3 DEF EachGroupOnce, Indexes

LEMMA WireSentOK == IInv => BeaconWire
<1> SUFFICES ASSUME IInv, Accepted, raw.beacon PROVE BeaconWire
  BY DEF BeaconWire
<1>1. raw \in Raw /\ Accepts(raw)
  BY DEF IInv, Settled
<1> QED BY <1>1, WireOK DEF BeaconWire

LEMMA OwnOK == IInv => OwnSocket
BY DEF IInv, Sockets, OwnSocket, Live, Accepted

LEMMA UpOK == IInv => UpIsMember
<1> SUFFICES ASSUME IInv, Live, NEW w \in Worker, NEW i \in 1 .. Len(parts[w]), NEW g,
                    g = parts[w][i]
             PROVE  /\ at[w] = "up" /\ losses = 0 => member[w][g] = Wanted(g)
                    /\ Sources(g) # {} => member[w][g] \subseteq ListOf(raw, g) \ {raw.own}
  BY DEF UpIsMember
<1>0. TypeOK /\ Settled /\ Within /\ Covered /\ Accepted
  BY DEF IInv, Live, Accepted
<1>1. g \in Groups
  BY <1>0, Shares
<1>2. at[w] = "up" /\ losses = 0 => member[w][g] = Wanted(g)
  BY <1>0, Zenon DEF Covered
<1>3. member[w][g] \subseteq Wanted(g)
  BY <1>0, <1>1, Zenon DEF Within
<1>4. Sources(g) # {} => Wanted(g) \subseteq ListOf(raw, g) \ {raw.own}
  BY <1>0, WantedOK
<1> QED BY <1>2, <1>3, <1>4

-------------------------------------------------------------------------------
(* A number is free whenever a worker opens its socket.                    *)

LOCAL INSTANCE FiniteSetTheorems
LOCAL INSTANCE WellFoundedInduction

LEMMA Least ==
  ASSUME NEW T, T \subseteq Nat, T # {}
  PROVE  \E x \in T : \A y \in T : x <= y
<1>1. PICK x \in T : \A y \in T : ~ (<<y, x>> \in OpToRel(<, Nat))
  BY NatLessThanWellFounded, WFMin, Zenon
<1>2. \A y \in Nat : y < x => <<y, x>> \in OpToRel(<, Nat)
  BY DEF OpToRel
<1>3. x \in Nat /\ \A y \in T : y \in Nat /\ ~ (y < x)
  BY <1>1, <1>2, Zenon
<1>4. \A y \in T : x <= y
  BY <1>3
<1> QED BY <1>4

(* There is one number more than there are workers, so one is free.        *)
LEMMA FreeNumber ==
  ASSUME IInv, stage = "run"
  PROVE  LowestFree \in Number /\ owner[LowestFree] = 0
<1>0. /\ owner \in [Number -> Worker \cup {0}] /\ Len(parts) \in Nat /\ Number \subseteq Nat \ {0}
      /\ \A n \in Number : owner[n] # 0 => fd[owner[n]] = n
  BY Running, Shares DEF IInv, Sockets
<1>1. \E n \in Number : owner[n] = 0
  <2> SUFFICES ASSUME \A n \in Number : owner[n] # 0 PROVE FALSE
    OBVIOUS
  <2>1. owner \in [Number -> Worker]
    BY <1>0
  <2>2. /\ IsFiniteSet(Number) /\ Cardinality(Number) = Len(parts) + 1
        /\ IsFiniteSet(Worker) /\ Cardinality(Worker) = Len(parts)
    <3>1. /\ IsFiniteSet(1 .. Len(parts) + 1)
          /\ Cardinality(1 .. Len(parts) + 1) = IF 1 > Len(parts) + 1 THEN 0 ELSE Len(parts) + 1 - 1 + 1
      BY <1>0, FS_Interval
    <3>2. /\ IsFiniteSet(1 .. Len(parts))
          /\ Cardinality(1 .. Len(parts)) = IF 1 > Len(parts) THEN 0 ELSE Len(parts) - 1 + 1
      BY <1>0, FS_Interval
    <3> QED BY <1>0, <3>1, <3>2 DEF Number, Worker
  <2>3. Cardinality(Worker) < Cardinality(Number)
    BY <1>0, <2>2
  <2>4. \E n, m \in Number : n # m /\ owner[n] = owner[m]
    BY <2>1, <2>2, <2>3, FS_PigeonHole
  <2> QED BY <1>0, <2>4
<1>2. PICK n \in Number : owner[n] = 0 /\ \A m \in Number : owner[m] = 0 => n <= m
  <2>1. {m \in Number : owner[m] = 0} \subseteq Nat /\ {m \in Number : owner[m] = 0} # {}
    BY <1>0, <1>1
  <2> QED BY <2>1, Least, Zenon
<1>3. \A m \in 1 .. n - 1 : owner[m] # 0
  <2> TAKE m \in 1 .. n - 1
  <2>1. m \in Number /\ m < n
    BY <1>0 DEF Number
  <2> QED BY <1>0, <1>2, <2>1
<1> QED BY <1>2, <1>3 DEF LowestFree

LEMMA OpenOK == ASSUME IInv, NEW w \in DOMAIN at, OpenSocket(w) PROVE IInv'
<1>1. stage = "run"
  BY DEF OpenSocket
<1>2. LowestFree \in Number /\ owner[LowestFree] = 0
  BY <1>1, FreeNumber
<1> QED BY <1>2, OpenSocketOK

LEMMA StepOK == IInv /\ [Next]_vars => IInv'
<1> SUFFICES ASSUME IInv, [Next]_vars PROVE IInv'
  OBVIOUS
<1>1. ASSUME NEW w \in DOMAIN at, Run(w) \/ CloseSocket(w) \/ Reassert(w) \/ Lose(w)
      PROVE  IInv'
  BY <1>1, OpenOK, MoveOK, JoinFirstOK, ClosedOK, TickOK, RejoinOK, LoseOK
     DEF Run, Reassert
<1> QED BY <1>1, StutterOK, LoadOK, BootstrapOK, WorldOK DEF Next

-------------------------------------------------------------------------------
(* The theorems.                                                           *)

(* IInv holds throughout.                                                  *)
THEOREM Invariance == Spec => []IInv
<1>1. Init => IInv
  BY InitOK
<1>2. IInv /\ [Next]_vars => IInv'
  BY StepOK
<1> QED BY <1>1, <1>2, PTL DEF Spec

(* Whatever the settings, bounds and refusals, every variable keeps its    *)
(* type: no worker runs past its share and no re-join pass past its end.   *)
THEOREM Types == Spec => []TypeOK
<1>1. IInv => TypeOK
  BY DEF IInv
<1> QED BY <1>1, Invariance, PTL

(* buildGroups and Partition deal each group, of bands of any width, to    *)
(* exactly one of any number of workers, and while the process lives no    *)
(* two workers' sockets are members of one group.                          *)
THEOREM GroupsDealtOnce == Spec => []EachGroupOnce
<1>1. IInv => EachGroupOnce
  BY DealtOnceOK
<1> QED BY <1>1, Invariance, PTL

(* The rollout of control-group-compat goes as documented under every      *)
(* settings config.Load accepts.                                           *)
THEOREM BeaconRollout == Spec => []BeaconWire
<1>1. IInv => BeaconWire
  BY WireSentOK
<1> QED BY <1>1, Invariance, PTL

(* Whatever sockets other workers open and close, and in whatever order    *)
(* numbers are reused, a worker that joins does so on its own socket.      *)
THEOREM JoinsOnOwnSocket == Spec => []OwnSocket
<1>1. IInv => OwnSocket
  BY OwnOK
<1> QED BY <1>1, Invariance, PTL

(* A worker that reports ready is a member of all its groups, for the      *)
(* sources wanted and no others.                                           *)
THEOREM ReadyIsMember == Spec => []UpIsMember
<1>1. IInv => UpIsMember
  BY UpOK
<1> QED BY <1>1, Invariance, PTL
===============================================================================
