------------------------------- MODULE Settings -------------------------------
(***************************************************************************)
(* What config.Load (config/config.go) accepts, and what the settings it   *)
(* accepts mean on the network: the groups buildGroups joins and how       *)
(* Partition deals them to workers, the source lists of                    *)
(* buildSSMGroupSources, and the prefixes the beacon advertises into       *)
(* (config/controlgroup.go, beacon/beacon.go).  A group is its index; a    *)
(* prefix is its source mode and scope; a source list is a set.  Settings  *)
(* whose value nothing here depends on (TTLs, queue sizes, interfaces,     *)
(* proxy and ADVERT fields) are in range or not.                           *)
(***************************************************************************)
EXTENDS Integers, Sequences, FiniteSets

CONSTANTS
  MaxBits,     \* 12: the widest shard and BEEF bands
  BeefBase,    \* 0x1000: the first group index of the BEEF band
  MaxStatic,   \* 16: static publishers allowed without a manifest
  Source       \* source addresses

(* Control groups (shard-common/shard), above both bands.                  *)
GroupSubtreeDataAnnounce == 65531
GroupSubtreeGroupAnnounce == 65532
GroupBeacon == 65533
GroupBlockBroadcast == 65534

NoSource == "none"
BadSource == "bad"

(* The third conjunct is the arithmetic of powers of two, which provers do *)
(* not know.                                                               *)
ASSUME SettingsAssumption ==
  /\ MaxBits \in Nat /\ BeefBase = 2 ^ MaxBits /\ MaxStatic \in Nat
  /\ 2 * BeefBase <= GroupSubtreeDataAnnounce
  /\ \A b \in 0 .. MaxBits : 2 ^ b \in 1 .. BeefBase
  /\ NoSource \notin Source

(* The fields of Config, before Load has looked at them.                   *)
RawSettings ==
  [bits : Nat, beefBits : Nat, mode : STRING, scope : STRING,
   own : Source \cup {NoSource, BadSource}, manifest : SUBSET Source,
   beaconSources : SUBSET Source, subtreeSources : SUBSET Source, static : SUBSET Source,
   tee : STRING, join : BOOLEAN, backend : STRING, redis : BOOLEAN, aerospike : BOOLEAN,
   ranges : BOOLEAN, workers : Int, linux : BOOLEAN, subtree : BOOLEAN, beef : BOOLEAN,
   beacon : BOOLEAN, beaconScope : STRING, compat : STRING]

(* Mutant: one bit more than the band has.                                 *)
ShardBitsBeyond(r) == r.bits \in 1 .. MaxBits + 1 /\ r.beefBits <= MaxBits

ShardBitsOK(r) == r.bits \in 1 .. MaxBits /\ r.beefBits <= MaxBits

(* SSM has addresses at site and global scope only (shard.ParseScope).     *)
Scopes == {"link", "site", "org", "global"}
SSMScopes == {"site", "global"}

SourceModeOK(r) ==
  \/ r.mode = "asm" /\ r.scope \in Scopes
  \/ r.mode = "ssm" /\ r.scope \in SSMScopes

(* Under SSM: an own source that is an IPv6 literal, at least one source   *)
(* list, and no long static list without a manifest.                       *)
RosterOK(r) ==
  r.mode = "ssm" =>
    /\ r.own # BadSource
    /\ r.manifest \cup r.beaconSources \cup r.subtreeSources \cup r.static # {}
    /\ Cardinality(r.static) > MaxStatic => r.manifest # {}

(* The tee listens on loopback only; without a join there must be a tee.   *)
FeedOK(r) == r.tee \in {"none", "loopback"} /\ (r.join \/ r.tee = "loopback")

BackendOK(r) ==
  \/ r.backend = "memory"
  \/ r.backend = "redis" /\ r.redis
  \/ r.backend = "aerospike" /\ r.aerospike

NumWorkers(r) == IF r.workers < 1 \/ ~r.linux THEN 1 ELSE r.workers

-------------------------------------------------------------------------------
(* The beacon's groups.                                                    *)

AsmPrefix(scope) == <<"asm", scope>>
SsmPrefix(scope) == <<"ssm", scope>>

Compats == {"asm-only", "both", "derived"}

(* Mutant: a scope with no SSM group falls back to the any-source prefix.  *)
ControlGroupPrefixesLax(compat, mode, scope) ==
  LET derived == IF mode = "ssm" /\ scope \in SSMScopes THEN SsmPrefix(scope) ELSE AsmPrefix(scope)
  IN  IF compat = "asm-only" THEN <<AsmPrefix(scope)>>
      ELSE IF compat = "derived" \/ derived = AsmPrefix(scope) THEN <<derived>>
      ELSE <<AsmPrefix(scope), derived>>

(* The prefixes for one scope, the legacy one first; none is the error     *)
(* that "derived" is asked for where SSM has no control group.             *)
ControlGroupPrefixes(compat, mode, scope) ==
  LET derived == IF mode = "ssm" /\ scope \in SSMScopes THEN SsmPrefix(scope) ELSE AsmPrefix(scope)
  IN  IF compat = "asm-only" THEN <<AsmPrefix(scope)>>
      ELSE IF compat = "derived" /\ mode = "ssm" /\ scope \notin SSMScopes THEN <<>>
      ELSE IF compat = "derived" \/ derived = AsmPrefix(scope) THEN <<derived>>
      ELSE <<AsmPrefix(scope), derived>>

BeaconScopes == {"site", "org", "global", "both", "all"}
BeaconScopeNames(b) == IF b \in {"both", "all"} THEN <<"site", "org", "global">> ELSE <<b>>
BeaconScopeByte(b) ==
  CASE b = "site" -> 5 [] b = "org" -> 8 [] b = "global" -> 14 [] b \in {"both", "all"} -> 255

(* All scopes' prefixes, or none if one is in error.  Prefixes of two      *)
(* scopes differ, so there is no duplicate to leave out.                   *)
BeaconGroupPrefixes(r) ==
  LET names == BeaconScopeNames(r.beaconScope)
      per == [i \in 1 .. Len(names) |-> ControlGroupPrefixes(r.compat, r.mode, names[i])]
  IN  IF \E i \in 1 .. Len(names) : per[i] = <<>> THEN <<>>
      ELSE IF Len(names) = 1 THEN per[1] ELSE per[1] \o per[2] \o per[3]

LegacyASMPrefixes(byte) ==
  {AsmPrefix(s) : s \in {s \in {"site", "org", "global"} : byte \in {BeaconScopeByte(s), 255}}}

(* Where the sender of beacon.go sends.                                    *)
BeaconGroups(r) ==
  LET p == BeaconGroupPrefixes(r)
  IN  IF p = <<>> THEN LegacyASMPrefixes(BeaconScopeByte(r.beaconScope))
      ELSE {p[i] : i \in 1 .. Len(p)}

BeaconOK(r) ==
  /\ r.beaconScope \in BeaconScopes
  /\ r.compat \in Compats
  /\ r.beacon => BeaconGroupPrefixes(r) # <<>>

(* config.Load returns no error.                                           *)
Accepts(r) ==
  /\ ShardBitsOK(r) /\ SourceModeOK(r) /\ RosterOK(r) /\ FeedOK(r)
  /\ BackendOK(r) /\ r.ranges /\ BeaconOK(r)

-------------------------------------------------------------------------------
(* The groups to join, in order: shards, block broadcast, subtree data     *)
(* and the BEEF band where enabled.                                        *)
BuildGroups(r) ==
  [i \in 1 .. 2 ^ r.bits |-> i - 1]
    \o <<GroupBlockBroadcast>>
    \o (IF r.subtree THEN <<GroupSubtreeDataAnnounce>> ELSE <<>>)
    \o (IF r.beef THEN [i \in 1 .. 2 ^ r.beefBits |-> BeefBase + i - 1] ELSE <<>>)

(* Mutant: each worker takes one group more than its share.                *)
PartitionOverlap(groups, n) ==
  LET m == IF n > Len(groups) THEN Len(groups) ELSE n
  IN  IF m < 1 THEN <<groups>>
      ELSE [w \in 1 .. m |->
              [j \in 1 .. Len(groups) \div m + 1 |->
                 groups[(((j - 1) * m + w - 1) % Len(groups)) + 1]]]

(* Every nth group to each worker, with no more workers than groups.       *)
Partition(groups, n) ==
  LET m == IF n > Len(groups) THEN Len(groups) ELSE n
  IN  IF m < 1 THEN <<groups>>
      ELSE [w \in 1 .. m |->
              [j \in 1 .. (Len(groups) + m - w) \div m |-> groups[(j - 1) * m + w]]]

Parts(r) == Partition(BuildGroups(r), NumWorkers(r))

(* Mutant: the roster is used as it is resolved.                           *)
IncludeOwnSource(srcs, own) == srcs

ExcludeOwnSource(srcs, own) == IF own = NoSource THEN srcs ELSE srcs \ {own}

(* The list a group's sources come from, empty where none is configured:   *)
(* l has the four lists; shards and BEEF groups take static publishers.    *)
ListOf(l, g) ==
  CASE g = GroupBeacon -> l.beaconSources
    [] g \in {GroupSubtreeDataAnnounce, GroupSubtreeGroupAnnounce} -> l.subtreeSources
    [] g = GroupBlockBroadcast -> l.manifest
    [] OTHER -> l.static
===============================================================================
