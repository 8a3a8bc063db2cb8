------------------------------- MODULE Engine -------------------------------
(***************************************************************************)
(* The pure diff of unseat: who owns a seat (core.BuildAliasIndex and      *)
(* resolveAlias), what class a seat has (core.ClassifySeats), and what a   *)
(* reconciliation plans to add and to remove (core.Reconcile).             *)
(*                                                                         *)
(* Strings become points.  A person IS their lower-cased address; a login  *)
(* is a provider-side user name without '@'.  Two logins that differ only  *)
(* by the separators '.', '-' and '_' have the same Squash.                *)
(***************************************************************************)
EXTENDS FiniteSets

CONSTANTS
  People,     \* addresses the directory, a group, an alias or a seat may name
  Corporate,  \* those inside identity_source.domain
  Logins,     \* provider user names, and every key the alias index may hold
  LocalPart,  \* [People -> Logins]: the part of an address before '@'
  Squash,     \* [Logins -> Logins]: squashSeparators
  Explicit,   \* the `aliases:` section, alias |-> canonical address
  NoOne       \* the answer of a lookup that finds nothing

Raw == People \cup Logins             \* what a provider may list as a seat
DirectoryStatus == {"active", "suspended", "absent"}
SeatStatus == {"none", "active", "suspended"}

ASSUME EngineAssumption ==
  /\ Corporate \subseteq People
  /\ People \cap Logins = {}
  /\ NoOne \notin Raw
  /\ LocalPart \in [People -> Logins]
  /\ Squash \in [Logins -> Logins]
  /\ \A l \in Logins : Squash[Squash[l]] = Squash[l]
  /\ DOMAIN Explicit \subseteq Raw
  \* No chains of aliases: what they resolve to depends on the order of a map.
  /\ \A a \in DOMAIN Explicit :
       Explicit[a] \in People /\ Explicit[a] \notin DOMAIN Explicit

-----------------------------------------------------------------------------
(* BuildAliasIndex.  `desired` are the members of the mapped groups.       *)

Keys(h) == {LocalPart[h], Squash[LocalPart[h]]}

Claimants(k, desired) == {h \in desired : k \in Keys(h)}

\* An explicit alias wins; an implicit key counts only if one person claims it.
BuildAliasIndex(desired) ==
  [k \in Raw |->
     IF k \in DOMAIN Explicit THEN Explicit[k]
     ELSE IF \E h \in desired : Claimants(k, desired) = {h}
          THEN CHOOSE h \in desired : Claimants(k, desired) = {h}
          ELSE NoOne]

Squashed(s) == IF s \in Logins THEN Squash[s] ELSE s

\* resolveAlias: the exact key first, then the squashed one, else the raw name.
Resolve(index, s) ==
  IF index[s] # NoOne THEN index[s]
  ELSE IF index[Squashed(s)] # NoOne THEN index[Squashed(s)]
  ELSE s

-----------------------------------------------------------------------------
(* ClassifySeats, for a seat s that the provider lists.                    *)

SeatClass(index, directory, desired, s) ==
  LET id == Resolve(index, s) IN
  CASE id \in Logins                                        -> "unresolved"
    [] id \in People \ Corporate                            -> "external"
    [] id \in Corporate /\ directory[id] # "active"         -> "orphan"
    [] /\ id \in Corporate /\ directory[id] = "active"
       /\ id \in desired                                    -> "managed"
    [] /\ id \in Corporate /\ directory[id] = "active"
       /\ id \notin desired                                 -> "unmapped"

-----------------------------------------------------------------------------
(* Reconcile.  listed[s] is the status the provider reports for seat s.    *)

Present(listed) == {s \in Raw : listed[s] # "none"}

\* Mutant: someone with an alias counts as having a seat.
ToAdd_AliasIsSeat(index, desired, listed) ==
  desired \ {index[k] : k \in Raw}

\* Desired addresses that no listed seat resolves to.
ToAdd(index, desired, listed) ==
  desired \ {Resolve(index, s) : s \in Present(listed)}

\* Orphan seats, neither excepted by policy nor already deactivated.
ToRemove(index, directory, desired, exceptions, listed) ==
  {s \in Present(listed) :
     /\ Resolve(index, s) \notin exceptions
     /\ SeatClass(index, directory, desired, s) = "orphan"
     /\ listed[s] # "suspended"}
=============================================================================
