------------------------------ MODULE Membership ------------------------------
(***************************************************************************)
(* From the settings to the kernel's multicast memberships: config.Load,   *)
(* buildSSMGroupSources, and for each ingress worker Run's socket, first   *)
(* joins, periodic re-joins (reassertJoins) and close (ingress/ingress.go).*)
(* The kernel may lose a membership at any time, and may refuse joins of a *)
(* group for a while; socket numbers are reused, the lowest free first.    *)
(* netjoin.Join (shard-common) is taken to leave every source it is given  *)
(* joined unless refused, also where it was a member already.              *)
(***************************************************************************)
EXTENDS Settings

CONSTANTS
  Raw,          \* settings the program may be started with
  Joiner,       \* workers of a node that joins
  MaxShare,     \* groups of each
  MaxLosses,    \* bound on the memberships lost
  MaxRefusals   \* bound on the groups that begin to refuse joins

ASSUME MembershipAssumption ==
  /\ Raw \subseteq RawSettings
  /\ MaxLosses \in Nat /\ MaxRefusals \in Nat
  /\ \A r \in Raw : Accepts(r) /\ r.join =>
       DOMAIN Parts(r) \subseteq Joiner /\ \A w \in Joiner : Len(Parts(r)[w]) <= MaxShare

VARIABLES
  raw,       \* the settings
  stage,     \* "load", "bootstrap", "run" or "error"
  parts,     \* the groups of each worker
  roster,    \* what the source lists resolved to
  at, next,  \* each worker's Run: where it is, and the next group it joins
  fd,        \* the number of each worker's socket, 0 before it has one
  owner,     \* the worker whose open socket has a number, 0 for a free number
  member,    \* sources each worker's socket gets from a group
  pass,      \* reassertJoins: the next group of a pass, 0 between passes, -1 when gone
  canceled,  \* ctx is done
  refused,   \* groups whose joins the kernel refuses now
  losses, refusals   \* counts, for the bounds

env == <<canceled, refused, losses, refusals>>
vars == <<raw, stage, parts, roster, at, next, fd, owner, member, pass, env>>

NoLists == [manifest |-> {}, beaconSources |-> {}, subtreeSources |-> {}, static |-> {}]
ListName == DOMAIN NoLists

Groups == UNION {{parts[w][i] : i \in 1 .. Len(parts[w])} : w \in DOMAIN parts}
Worker == 1 .. Len(parts)
Number == 1 .. Len(parts) + 1

(* What a join of g asks for: its source list, or any source at all.       *)
Sources(g) == ExcludeOwnSource(ListOf(roster, g), raw.own)
Wanted(g) == IF Sources(g) = {} THEN Source ELSE Sources(g)

Init ==
  /\ raw \in Raw
  /\ stage = "load"
  /\ parts = <<>>
  /\ roster = NoLists
  /\ at = <<>> /\ next = <<>> /\ fd = <<>> /\ owner = <<>> /\ member = <<>> /\ pass = <<>>
  /\ canceled = FALSE /\ refused = {} /\ losses = 0 /\ refusals = 0

(* config.Load, and what main builds from it.                              *)
Load ==
  /\ stage = "load"
  /\ IF Accepts(raw)
     THEN LET ps == Parts(raw)
              ws == DOMAIN ps
              gs == UNION {{ps[w][i] : i \in 1 .. Len(ps[w])} : w \in ws}
          IN  /\ stage' = "bootstrap"
              /\ parts' = ps
              /\ at' = [w \in ws |-> "start"]
              /\ next' = [w \in ws |-> 1]
              /\ fd' = [w \in ws |-> 0]
              /\ owner' = [n \in 1 .. Len(ps) + 1 |-> 0]
              /\ member' = [w \in ws |-> [g \in gs |-> {}]]
              /\ pass' = [w \in ws |-> 0]
     ELSE stage' = "error" /\ UNCHANGED <<parts, at, next, fd, owner, member, pass>>
  /\ UNCHANGED <<raw, roster, env>>

(* Under SSM every configured list is resolved to at least one address, or *)
(* the program ends.                                                       *)
Bootstrap ==
  /\ stage = "bootstrap"
  /\ \/ /\ stage' = "run"
        /\ IF raw.mode = "ssm"
           THEN \E found \in [ListName -> SUBSET Source] :
                  /\ \A l \in ListName : found[l] \subseteq raw[l] /\ (found[l] = {} => raw[l] = {})
                  /\ roster' = found
           ELSE UNCHANGED roster
     \/ raw.mode = "ssm" /\ stage' = "error" /\ UNCHANGED roster
  /\ UNCHANGED <<raw, parts, at, next, fd, owner, member, pass, env>>

-------------------------------------------------------------------------------
(* Run of worker w.                                                        *)

LowestFree == CHOOSE n \in Number : owner[n] = 0 /\ \A m \in 1 .. n - 1 : owner[m] # 0

OpenSocket(w) ==
  /\ stage = "run" /\ raw.join /\ at[w] = "start"
  /\ at' = [at EXCEPT ![w] = "join"]
  /\ fd' = [fd EXCEPT ![w] = LowestFree]
  /\ owner' = [owner EXCEPT ![LowestFree] = w]
  /\ UNCHANGED <<raw, stage, parts, roster, next, member, pass, env>>

OpenFails(w) ==
  /\ stage = "run" /\ raw.join /\ at[w] = "start"
  /\ at' = [at EXCEPT ![w] = "dead"]
  /\ UNCHANGED <<raw, stage, parts, roster, next, fd, owner, member, pass, env>>

(* joinAll, first pass: a group is joined ...                              *)
JoinFirst(w) ==
  /\ at[w] = "join" /\ next[w] <= Len(parts[w])
  /\ LET g == parts[w][next[w]]
     IN  g \notin refused /\ member' = [member EXCEPT ![w][g] = @ \cup Wanted(g)]
  /\ next' = [next EXCEPT ![w] = @ + 1]
  /\ UNCHANGED <<raw, stage, parts, roster, at, fd, owner, pass, env>>

(* Mutant: the first pass passes over a refusal, as the later ones do.     *)
JoinFirstSkips(w) ==
  /\ at[w] = "join" /\ next[w] <= Len(parts[w])
  /\ parts[w][next[w]] \in refused
  /\ next' = [next EXCEPT ![w] = @ + 1]
  /\ UNCHANGED <<raw, stage, parts, roster, at, fd, owner, member, pass, env>>

(* Mutant: the socket is closed, but Run goes on.                          *)
JoinFirstGoesOn(w) ==
  /\ at[w] = "join" /\ next[w] <= Len(parts[w])
  /\ parts[w][next[w]] \in refused
  /\ owner' = [owner EXCEPT ![fd[w]] = 0]
  /\ next' = [next EXCEPT ![w] = @ + 1]
  /\ UNCHANGED <<raw, stage, parts, roster, at, fd, member, pass, env>>

(* ... or the socket is closed and Run returns the error.                  *)
JoinFirstFails(w) ==
  /\ at[w] = "join" /\ next[w] <= Len(parts[w])
  /\ parts[w][next[w]] \in refused
  /\ at' = [at EXCEPT ![w] = "dead"]
  /\ owner' = [owner EXCEPT ![fd[w]] = 0]
  /\ member' = [member EXCEPT ![w] = [g \in Groups |-> {}]]
  /\ UNCHANGED <<raw, stage, parts, roster, next, fd, pass, env>>

(* WorkerReady; the goroutines that close the socket and re-join start.    *)
Up(w) ==
  /\ at[w] = "join" /\ next[w] > Len(parts[w])
  /\ at' = [at EXCEPT ![w] = "up"]
  /\ UNCHANGED <<raw, stage, parts, roster, next, fd, owner, member, pass, env>>

(* The goroutine that closes the socket once ctx is done.                  *)
CloseSocket(w) ==
  /\ canceled /\ at[w] = "up"
  /\ at' = [at EXCEPT ![w] = "closed"]
  /\ owner' = [owner EXCEPT ![fd[w]] = 0]
  /\ member' = [member EXCEPT ![owner[fd[w]]] = [g \in Groups |-> {}]]
  /\ UNCHANGED <<raw, stage, parts, roster, next, fd, pass, env>>

(* reassertJoins.  Ticker and ctx may both be ready: select takes either.  *)
Tick(w) ==
  /\ at[w] \in {"up", "closed"} /\ pass[w] = 0
  /\ pass' = [pass EXCEPT ![w] = 1]
  /\ UNCHANGED <<raw, stage, parts, roster, at, next, fd, owner, member, env>>

StopRejoining(w) ==
  /\ at[w] \in {"up", "closed"} /\ pass[w] = 0 /\ canceled
  /\ pass' = [pass EXCEPT ![w] = -1]
  /\ UNCHANGED <<raw, stage, parts, roster, at, next, fd, owner, member, env>>

(* Mutant: the pass does not end with the last group.                      *)
NextOfPassBeyond(w) == IF pass[w] > Len(parts[w]) THEN 0 ELSE pass[w] + 1

NextOfPass(w) == IF pass[w] = Len(parts[w]) THEN 0 ELSE pass[w] + 1

(* Mutant: the pass ends at the first refusal.                             *)
RejoinGivesUp(w) ==
  /\ pass[w] > 0
  /\ LET g == parts[w][pass[w]]
         u == owner[fd[w]]
     IN  /\ member' = IF u = 0 \/ g \in refused THEN member
                      ELSE [member EXCEPT ![u][g] = @ \cup Wanted(g)]
         /\ pass' = [pass EXCEPT ![w] = IF g \in refused THEN 0 ELSE NextOfPass(w)]
  /\ UNCHANGED <<raw, stage, parts, roster, at, next, fd, owner, env>>

(* joinAll, later pass: the group is joined on whatever socket has the     *)
(* number by now, if any; a refusal is passed over.                        *)
Rejoin(w) ==
  /\ pass[w] > 0
  /\ LET g == parts[w][pass[w]]
         u == owner[fd[w]]
     IN  member' = IF u = 0 \/ g \in refused THEN member
                   ELSE [member EXCEPT ![u][g] = @ \cup Wanted(g)]
  /\ pass' = [pass EXCEPT ![w] = NextOfPass(w)]
  /\ UNCHANGED <<raw, stage, parts, roster, at, next, fd, owner, env>>

Run(w) == OpenSocket(w) \/ OpenFails(w) \/ JoinFirst(w) \/ JoinFirstFails(w) \/ Up(w)
Reassert(w) == Tick(w) \/ StopRejoining(w) \/ Rejoin(w)

-------------------------------------------------------------------------------
(* The world: memberships get lost, groups begin and cease to refuse.      *)

Lose(w) ==
  /\ at[w] \in {"join", "up"} /\ losses < MaxLosses
  /\ \E g \in Groups : \E s \in member[w][g] : member' = [member EXCEPT ![w][g] = @ \ {s}]
  /\ losses' = losses + 1
  /\ UNCHANGED <<raw, stage, parts, roster, at, next, fd, owner, pass, canceled, refused, refusals>>

Refuse ==
  /\ stage = "run" /\ refusals < MaxRefusals
  /\ \E g \in Groups \ refused : refused' = refused \cup {g}
  /\ refusals' = refusals + 1
  /\ UNCHANGED <<raw, stage, parts, roster, at, next, fd, owner, member, pass, canceled, losses>>

Relent ==
  /\ \E g \in refused : refused' = refused \ {g}
  /\ UNCHANGED <<raw, stage, parts, roster, at, next, fd, owner, member, pass, canceled, losses, refusals>>

Cancel ==
  /\ stage = "run" /\ ~canceled /\ canceled' = TRUE
  /\ UNCHANGED <<raw, stage, parts, roster, at, next, fd, owner, member, pass, refused, losses, refusals>>

Next ==
  \/ Load \/ Bootstrap
  \/ \E w \in DOMAIN at : Run(w) \/ CloseSocket(w) \/ Reassert(w) \/ Lose(w)
  \/ Refuse \/ Relent \/ Cancel

(* Goroutines are scheduled, and the ticker ticks.  Nothing is assumed of  *)
(* losses, refusals and cancellation.                                      *)
Fairness ==
  /\ WF_vars(Load \/ Bootstrap)
  /\ \A w \in Joiner : /\ WF_vars(w \in DOMAIN at /\ Run(w))
                      /\ WF_vars(w \in DOMAIN at /\ Reassert(w))

Spec == Init /\ [][Next]_vars /\ Fairness

-------------------------------------------------------------------------------
Accepted == stage \in {"bootstrap", "run"}
Live == stage = "run" /\ ~canceled

(* Every variable keeps its type.                                          *)
TypeOK ==
  /\ stage \in {"load", "bootstrap", "run", "error"}
  /\ roster \in [ListName -> SUBSET Source]
  /\ Accepted =>
       /\ at \in [Worker -> {"start", "join", "up", "dead", "closed"}]
       /\ \A w \in Worker : next[w] \in 1 .. Len(parts[w]) + 1 /\ pass[w] \in -1 .. Len(parts[w])
       /\ fd \in [Worker -> Number \cup {0}] /\ owner \in [Number -> Worker \cup {0}]
       /\ member \in [Worker -> [Groups -> SUBSET Source]]
  /\ canceled \in BOOLEAN /\ refused \subseteq Groups

(* "every group exactly once: a group in two parts would cache its frames  *)
(* twice, a group in none would leave them uncached".  Of any accepted     *)
(* settings, each shard, control and BEEF group is an index of its own and *)
(* one worker's to join, no worker is without groups, and while the        *)
(* process lives no two sockets are members of one group.                  *)
EachGroupOnce ==
  Accepted =>
    /\ Len(parts) \in 1 .. NumWorkers(raw) /\ \A w \in Worker : parts[w] # <<>>
    /\ \A w, v \in Worker : \A i \in 1 .. Len(parts[w]), j \in 1 .. Len(parts[v]) :
         parts[w][i] = parts[v][j] => w = v /\ i = j
    /\ Groups = (0 .. 2 ^ raw.bits - 1) \cup {GroupBlockBroadcast}
                  \cup {g \in {GroupSubtreeDataAnnounce} : raw.subtree}
                  \cup {g \in BeefBase .. BeefBase + 2 ^ raw.beefBits - 1 : raw.beef}
    /\ Live => \A g \in Groups : \A w, v \in Worker :
         member[w][g] # {} /\ member[v][g] # {} => w = v

(* The rollout of control-group-compat.  "asm-only" sends where an         *)
(* endpoint without the flag sends; "derived" under SSM never sends to an  *)
(* any-source group; "both" reaches every listener that either of them     *)
(* reaches; under ASM the flag changes nothing; and the beacon is never    *)
(* left without a group, or on the fallback of beacon.go by an error.      *)
BeaconWire ==
  Accepted /\ raw.beacon =>
    LET with(compat) == BeaconGroups([raw EXCEPT !.compat = compat])
        legacy == LegacyASMPrefixes(BeaconScopeByte(raw.beaconScope))
    IN  /\ BeaconGroups(raw) # {} /\ BeaconGroupPrefixes(raw) # <<>>
        /\ with("asm-only") = legacy
        /\ raw.mode = "asm" => BeaconGroups(raw) = legacy
        /\ raw.mode = "ssm" /\ raw.compat = "derived" => BeaconGroups(raw) \cap legacy = {}
        /\ with("asm-only") \cup with("derived") \subseteq with("both")

(* A worker only ever joins on its own socket, and no close frees another  *)
(* worker's: a number a worker uses is its own until ctx is done.          *)
OwnSocket ==
  Live => \A w \in Worker : at[w] \in {"join", "up"} => owner[fd[w]] = w

(* A worker reports ready only as a member of all its groups: but for what *)
(* the kernel lost later, it gets exactly the sources wanted of each.  Of  *)
(* a group with a source list it never gets the node's own source or one   *)
(* the list has not.                                                       *)
UpIsMember ==
  Live => \A w \in Worker : \A i \in 1 .. Len(parts[w]) :
    LET g == parts[w][i]
    IN  /\ at[w] = "up" /\ losses = 0 => member[w][g] = Wanted(g)
        /\ Sources(g) # {} => member[w][g] \subseteq ListOf(raw, g) \ {raw.own}

(* Worker w is up, but not a member of its ith group for source s.         *)
Missing(w, i, s) ==
  /\ w \in DOMAIN at /\ at[w] = "up" /\ i \in DOMAIN parts[w]
  /\ s \in Wanted(parts[w][i]) \ member[w][parts[w][i]]

(* A lost membership is joined again, if its own group lets it: whatever   *)
(* other groups refuse, and unless the process is shut down.               *)
LostIsRejoined ==
  \A w \in Joiner : \A i \in 1 .. MaxShare : \A s \in Source :
    Missing(w, i, s) ~> (~Missing(w, i, s) \/ parts[w][i] \in refused \/ canceled)

(* "A node must never join its own source on the PIM interface": in groups *)
(* whose source list is configured, own frames are not asked for.          *)
OwnNeverJoined ==
  Live /\ raw.mode = "ssm" /\ raw.own # NoSource =>
    \A w \in Worker : \A g \in Groups : ListOf(raw, g) # {} => raw.own \notin member[w][g]
===============================================================================
