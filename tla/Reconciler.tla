----------------------------- MODULE Reconciler -----------------------------
(***************************************************************************)
(* internal/sync/reconciler.go: passes of the reconciler over the mapped   *)
(* providers, against a directory, groups and seats that change meanwhile. *)
(*                                                                         *)
(* One action per call a pass makes to the outside (identity source,       *)
(* provider, store), in the order of the code; between two of them any     *)
(* other actor may move.  A pass works on what it read: the record run[r]. *)
(*                                                                         *)
(* A row of pending_removals is represented by the ticks left before it    *)
(* expires; no row and a cancelled row are the same, since every query     *)
(* filters cancelled = FALSE and InsertPendingRemoval restarts both.       *)
(* Expiry is only ever compared with the clock, so relative time suffices. *)
(*                                                                         *)
(* Left out: the seat cache and sync_state, the events table and the       *)
(* notifications, which a pass writes and never reads; roles.              *)
(***************************************************************************)
EXTENDS Engine, Integers

CONSTANTS
  Groups, Providers,
  GroupsFor,      \* [Providers -> SUBSET Groups]: the mappings
  Adders,         \* providers with CanAdd
  Removers,       \* providers with CanRemove
  Deactivating,   \* providers whose removal leaves a suspended seat
  Policies,       \* the policies a process may be started with
  MaxGrace,       \* bound on grace_period, in ticks
  Runners,        \* processes: the watch daemon, `sync apply`, `sync plan`
  Faults,         \* the calls that may fail
  Down,           \* providers that no pass can list
  SlowRuns,       \* whether a tick may fall inside a pass
  Members0, Seats0,    \* memberships and seats at the start
  Leavers,        \* people whose directory status changes
  Moves,          \* <<person, group>> memberships that change
  Grants,         \* <<provider, seat>> given or taken by hand
  LowerCased,     \* people whose exception the config spells in lower case
  Holder          \* [Raw -> People]: who really uses a seat; never read

None == "none"
Off == -1                         \* no running countdown
Countdown == Off .. MaxGrace

Policy == [dry : BOOLEAN, grace : 0 .. MaxGrace,
           exceptions : [Providers -> SUBSET People]]

ASSUME ReconcilerAssumption ==
  /\ GroupsFor \in [Providers -> SUBSET Groups]
  /\ Adders \subseteq Providers /\ Removers \subseteq Providers
  /\ Deactivating \subseteq Providers /\ Down \subseteq Providers
  /\ MaxGrace \in Nat
  /\ Policies \subseteq Policy /\ Policies # {}
  /\ SlowRuns \in BOOLEAN
  /\ Members0 \in [Groups -> SUBSET People]
  /\ Seats0 \in [Providers -> [Raw -> SeatStatus]]
  /\ Leavers \subseteq Corporate
  /\ Moves \subseteq People \X Groups
  /\ Grants \subseteq Providers \X Raw
  /\ LowerCased \subseteq People
  /\ Holder \in [Raw -> People]

VARIABLES
  directory,  \* status of every person in the identity source
  members,    \* members of every group
  seats,      \* what every provider holds
  pending,    \* pending_removals, ticks left per provider and identity
  run,        \* the pass each process is making
  age         \* history: ticks since the store first held this countdown

vars == <<directory, members, seats, pending, run, age>>

NoSeats == [s \in Raw |-> "none"]
Everyone(st) == [h \in People |-> st]

Idle == [pc |-> "idle", policy |-> CHOOSE p \in Policies : TRUE,
         unread |-> {}, known |-> {}, dir |-> Everyone("absent"),
         left |-> {}, prov |-> None, listed |-> NoSeats, desired |-> {},
         cancels |-> {}, adds |-> {}, removes |-> {}, expired |-> {}]

Init ==
  /\ directory = [h \in People |-> IF h \in Corporate THEN "active" ELSE "absent"]
  /\ members = Members0
  /\ seats = Seats0
  /\ pending = [p \in Providers |-> [h \in People |-> Off]]
  /\ run = [r \in Runners |-> Idle]
  /\ age = [p \in Providers |-> [h \in People |-> Off]]

\* Whether a call succeeds.
Outcome(call) == IF call \in Faults THEN BOOLEAN ELSE {TRUE}
-----------------------------------------------------------------------------
(* The world outside unseat.                                               *)

ChangeStatus(h) ==
  /\ \E st \in DirectoryStatus \ {directory[h]} :
       directory' = [directory EXCEPT ![h] = st]
  /\ UNCHANGED <<members, seats, pending, run, age>>

ChangeMembership(h, g) ==
  /\ members' = [members EXCEPT ![g] = IF h \in @ THEN @ \ {h} ELSE @ \cup {h}]
  /\ UNCHANGED <<directory, seats, pending, run, age>>

ChangeSeat(p, s) ==
  /\ seats' = [seats EXCEPT ![p][s] = IF @ = "none" THEN "active" ELSE "none"]
  /\ UNCHANGED <<directory, members, pending, run, age>>

Later(n) == IF n = Off \/ n = MaxGrace THEN n ELSE n + 1
Sooner(n) == IF n > 0 THEN n - 1 ELSE n

Tick ==
  /\ SlowRuns \/ \A r \in Runners : run[r].pc = "idle"
  /\ pending' = [p \in Providers |-> [h \in People |-> Sooner(pending[p][h])]]
  /\ age' = [p \in Providers |-> [h \in People |-> Later(age[p][h])]]
  /\ UNCHANGED <<directory, members, seats, run>>

World ==
  \/ \E h \in Leavers : ChangeStatus(h)
  \/ \E m \in Moves : ChangeMembership(m[1], m[2])
  \/ \E g \in Grants : ChangeSeat(g[1], g[2])
-----------------------------------------------------------------------------
(* The provider and the store, as a pass uses them.                        *)

\* RemoveUser takes the seat away, unless it is not there or the call fails.
RemoveUser(p, s) ==
  \E ok \in Outcome("remove") :
    seats' = IF ok /\ seats[p][s] # "none"
             THEN [seats EXCEPT ![p][s] =
                     IF p \in Deactivating THEN "suspended" ELSE "none"]
             ELSE seats

AddUser(p, h) ==
  \E ok \in Outcome("add") :
    seats' = IF ok THEN [seats EXCEPT ![p][h] = "active"] ELSE seats

\* Mutants: every detection restarts the countdown, or prolongs it.
InsertPendingRemoval_Restarts(p, h, grace) ==
  /\ pending' = [pending EXCEPT ![p][h] = grace]
  /\ age' = [age EXCEPT ![p][h] = IF @ = Off THEN 0 ELSE @]
InsertPendingRemoval_Prolongs(p, h, grace) ==
  /\ pending' = [pending EXCEPT ![p][h] = IF @ = Off THEN grace ELSE @ + grace]
  /\ age' = [age EXCEPT ![p][h] = IF @ = Off THEN 0 ELSE @]

InsertPendingRemoval(p, h, grace) ==
  /\ pending' = [pending EXCEPT ![p][h] = IF @ = Off THEN grace ELSE @]
  /\ age' = [age EXCEPT ![p][h] = IF @ = Off THEN 0 ELSE @]

\* Mutant: the row is left as it is.
CancelPendingRemoval_Forgotten(p, h) == UNCHANGED pending
CancelPendingRemoval(p, h) == pending' = [pending EXCEPT ![p][h] = Off]

\* Mutants: only the rows already expired; no test of the deadline; no test of
\* the provider.
GetPendingRemovals_Expired(p) == {h \in People : pending[p][h] = 0}
GetExpiredRemovals_NoDeadline(p) == {h \in People : pending[p][h] # Off}
GetExpiredRemovals_AnyProvider(p) ==
  {h \in People : \E q \in Providers : pending[q][h] = 0}

GetPendingRemovals(p) == {h \in People : pending[p][h] # Off}
GetExpiredRemovals(p) == {h \in People : pending[p][h] = 0}
-----------------------------------------------------------------------------
(* Reconciler.Run: aliases, then the directory, then provider by provider. *)

StartRun(r) ==
  /\ run[r].pc = "idle"
  /\ \E pol \in Policies :
       run' = [run EXCEPT ![r] = [Idle EXCEPT !.pc = "aliases",
                                              !.policy = pol,
                                              !.unread = Groups]]
  /\ UNCHANGED <<directory, members, seats, pending, age>>

\* A group that cannot be read is logged and left out of the alias index.
ReadGroupForAliases(r, g) ==
  /\ run[r].pc = "aliases" /\ g \in run[r].unread
  /\ \E ok \in Outcome("aliasGroup") :
       run' = [run EXCEPT ![r].unread = @ \ {g},
                          ![r].known = IF ok THEN @ \cup members[g] ELSE @]
  /\ UNCHANGED <<directory, members, seats, pending, age>>

\* Without the directory the whole pass is abandoned.
ReadDirectory(r) ==
  /\ run[r].pc = "aliases" /\ run[r].unread = {}
  /\ \E ok \in Outcome("directory") :
       run' = [run EXCEPT ![r] =
                 IF ok THEN [@ EXCEPT !.pc = "next", !.dir = directory,
                                      !.left = Providers]
                 ELSE Idle]
  /\ UNCHANGED <<directory, members, seats, pending, age>>

\* Provider done: forget what was read of it.
NextProvider(rr) ==
  [rr EXCEPT !.pc = "next", !.prov = None, !.listed = NoSeats, !.unread = {},
             !.desired = {}, !.cancels = {}, !.adds = {}, !.removes = {},
             !.expired = {}]

\* Mutant: a provider that cannot be read ends the pass.
Abandon_Pass(rr) == Idle

\* A provider that cannot be read is left alone until the next pass.
Abandon(rr) == NextProvider(rr)

ListSeats(r, p) ==
  /\ run[r].pc = "next" /\ p \in run[r].left
  /\ \E ok \in IF p \in Down THEN {FALSE} ELSE Outcome("list") :
       LET rest == [run[r] EXCEPT !.left = @ \ {p}] IN
       run' = [run EXCEPT ![r] =
                 IF ok THEN [rest EXCEPT !.pc = "desired", !.prov = p,
                                         !.listed = seats[p],
                                         !.unread = GroupsFor[p]]
                 ELSE Abandon(rest)]
  /\ UNCHANGED <<directory, members, seats, pending, age>>

\* So it is when a mapped group cannot be read.
ReadGroupForDesired(r, g) ==
  /\ run[r].pc = "desired" /\ g \in run[r].unread
  /\ \E ok \in Outcome("group") :
       LET rr == run[r] IN
       run' = [run EXCEPT ![r] =
                 IF ok THEN [rr EXCEPT !.unread = rr.unread \ {g},
                                       !.desired = rr.desired \cup members[g]]
                 ELSE Abandon(rr)]
  /\ UNCHANGED <<directory, members, seats, pending, age>>
-----------------------------------------------------------------------------
(* The plan of a pass for its current provider.                            *)

\* Mutant: the groups of the provider at hand alone are asked for namesakes.
IndexOf_Own(rr) == BuildAliasIndex(rr.desired)
IndexOf(rr) == BuildAliasIndex(rr.known)
Identity(rr, s) == Resolve(IndexOf(rr), s)
\* The config's spelling is the key, the lower-cased identity is looked up.
ExceptionsOf(rr) == rr.policy.exceptions[rr.prov] \cap LowerCased
AddsOf(rr) == ToAdd(IndexOf(rr), rr.desired, rr.listed)
RemovesOf(rr) == ToRemove(IndexOf(rr), rr.dir, rr.desired, ExceptionsOf(rr),
                          rr.listed)
\* Mutant: what the policy excepts keeps counting.
Orphaned_WithExceptions(rr) ==
  {Identity(rr, s) : s \in {t \in Present(rr.listed) :
     SeatClass(IndexOf(rr), rr.dir, rr.desired, t) = "orphan"}}
Orphaned(rr) == {Identity(rr, s) : s \in RemovesOf(rr)}

\* Mutant: a dry run plans nothing, and still runs the expired countdowns.
Decide_DryRunExpires(r) ==
  LET rr == run[r] IN
  /\ rr.pc = "desired" /\ rr.unread = {}
  /\ run' = [run EXCEPT ![r] =
       [rr EXCEPT !.pc = "apply",
                  !.removes = IF rr.policy.dry THEN {} ELSE RemovesOf(rr)]]
  /\ UNCHANGED <<directory, members, seats, pending, age>>

\* core.Reconcile, then the read of the pending rows that opens
\* cancelReturnedUsers; a dry run stops at the plan.
Decide(r) ==
  LET rr == run[r]
      p == rr.prov
      counting == rr.policy.grace > 0
  IN
  /\ rr.pc = "desired" /\ rr.unread = {}
  /\ \/ /\ rr.policy.dry
        /\ run' = [run EXCEPT ![r] = NextProvider(rr)]
        /\ UNCHANGED age
     \/ /\ ~rr.policy.dry
        /\ \E ok \in Outcome("readPending") :
             run' = [run EXCEPT ![r] =
               [rr EXCEPT
                 !.pc = "apply",
                 !.cancels = IF counting /\ ok
                             THEN GetPendingRemovals(p) \ Orphaned(rr)
                             ELSE {},
                 !.adds = IF p \in Adders THEN AddsOf(rr) ELSE {},
                 !.removes = IF p \in Removers THEN RemovesOf(rr) ELSE {}]]
        /\ age' = [age EXCEPT ![p] =
             [h \in People |-> IF counting /\ h \notin Orphaned(rr)
                               THEN Off ELSE age[p][h]]]
  /\ UNCHANGED <<directory, members, seats, pending>>

\* cancelReturnedUsers, one row; a failing store leaves the row counting.
CancelReturned(r, h) ==
  /\ run[r].pc = "apply" /\ h \in run[r].cancels
  /\ run' = [run EXCEPT ![r].cancels = @ \ {h}]
  /\ \E ok \in Outcome("cancel") :
       IF ok THEN CancelPendingRemoval(run[r].prov, h) ELSE UNCHANGED pending
  /\ UNCHANGED <<directory, members, seats, age>>

\* executeActions, one addition.
AddSeat(r, h) ==
  /\ run[r].pc = "apply" /\ run[r].cancels = {} /\ h \in run[r].adds
  /\ run' = [run EXCEPT ![r].adds = @ \ {h}]
  /\ AddUser(run[r].prov, h)
  /\ UNCHANGED <<directory, members, pending, age>>

\* executeActions, one removal: with a grace period it starts a countdown ...
QueueRemoval(r, s) ==
  /\ run[r].pc = "apply" /\ run[r].cancels = {} /\ run[r].adds = {}
  /\ s \in run[r].removes /\ run[r].policy.grace > 0
  /\ run' = [run EXCEPT ![r].removes = @ \ {s}]
  /\ \E ok \in Outcome("insertPending") :
       IF ok
       THEN InsertPendingRemoval(run[r].prov, Identity(run[r], s),
                                 run[r].policy.grace)
       ELSE UNCHANGED <<pending, age>>
  /\ UNCHANGED <<directory, members, seats>>

\* ... and without one it happens at once.
RemoveNow(r, s) ==
  /\ run[r].pc = "apply" /\ run[r].cancels = {} /\ run[r].adds = {}
  /\ s \in run[r].removes /\ run[r].policy.grace = 0
  /\ run' = [run EXCEPT ![r].removes = @ \ {s}]
  /\ RemoveUser(run[r].prov, s)
  /\ UNCHANGED <<directory, members, pending, age>>

ActionsDone(rr) ==
  rr.pc = "apply" /\ rr.cancels = {} /\ rr.adds = {} /\ rr.removes = {}

Expires(rr) == rr.policy.grace > 0 /\ rr.prov \in Removers

\* executeExpiredRemovals: the read of the expired rows.
ReadExpired(r) ==
  /\ ActionsDone(run[r]) /\ Expires(run[r])
  /\ \E ok \in Outcome("readExpired") :
       run' = [run EXCEPT ![r].pc = "reclaim",
                          ![r].expired = IF ok
                                         THEN GetExpiredRemovals(run[r].prov)
                                         ELSE {}]
  /\ UNCHANGED <<directory, members, seats, pending, age>>

\* Mutant: no alias is consulted.
Targets_AddressOnly(rr, h) == {h} \cap Present(rr.listed)

\* The seat of an expired identity: a listed explicit alias (the last one, in
\* an order the mapping does not say), else the address itself; no implicit
\* alias is consulted.
Targets(rr, h) ==
  LET aliases == {a \in DOMAIN Explicit : /\ Explicit[a] = h
                                          /\ a \in Present(rr.listed)}
  IN IF aliases # {} THEN aliases ELSE {h} \cap Present(rr.listed)

\* History: a countdown is over once none of the identity's seats is active.
Served(rr, h) ==
  \A s \in Present(rr.listed) :
    Identity(rr, s) = h => seats'[rr.prov][s] # "active"

\* executeExpiredRemovals, one row with a seat: the removal.
Reclaim(r, h) ==
  /\ run[r].pc = "reclaim" /\ h \in run[r].expired
  /\ \E s \in Targets(run[r], h) : RemoveUser(run[r].prov, s)
  /\ run' = [run EXCEPT ![r].pc = "close", ![r].expired = @ \ {h},
                        ![r].cancels = {h}]
  /\ age' = [age EXCEPT ![run[r].prov][h] =
               IF Served(run[r], h) THEN Off ELSE @]
  /\ UNCHANGED <<directory, members, pending>>

\* ... then the row, whatever became of the removal.
CloseReclaimed(r, h) ==
  /\ run[r].pc = "close" /\ h \in run[r].cancels
  /\ run' = [run EXCEPT ![r].pc = "reclaim", ![r].cancels = {}]
  /\ \E ok \in Outcome("close") :
       IF ok THEN CancelPendingRemoval(run[r].prov, h) ELSE UNCHANGED pending
  /\ UNCHANGED <<directory, members, seats, age>>

\* executeExpiredRemovals, one row whose seat is taken to be gone.
CloseGone(r, h) ==
  /\ run[r].pc = "reclaim" /\ h \in run[r].expired
  /\ Targets(run[r], h) = {}
  /\ run' = [run EXCEPT ![r].expired = @ \ {h}]
  /\ \E ok \in Outcome("close") :
       IF ok THEN CancelPendingRemoval(run[r].prov, h) ELSE UNCHANGED pending
  /\ UNCHANGED <<directory, members, seats, age>>

FinishProvider(r) ==
  /\ \/ ActionsDone(run[r]) /\ ~Expires(run[r])
     \/ run[r].pc = "reclaim" /\ run[r].expired = {}
  /\ run' = [run EXCEPT ![r] = NextProvider(@)]
  /\ UNCHANGED <<directory, members, seats, pending, age>>

FinishRun(r) ==
  /\ run[r].pc = "next" /\ run[r].left = {}
  /\ run' = [run EXCEPT ![r] = Idle]
  /\ UNCHANGED <<directory, members, seats, pending, age>>

\* The process stops; what it wrote to the store and the providers stays.
Crash(r) ==
  /\ "crash" \in Faults /\ run[r].pc # "idle"
  /\ run' = [run EXCEPT ![r] = Idle]
  /\ UNCHANGED <<directory, members, seats, pending, age>>

Pass(r) ==
  \/ StartRun(r) \/ ReadDirectory(r) \/ Decide(r) \/ ReadExpired(r)
  \/ FinishProvider(r) \/ FinishRun(r)
  \/ \E g \in Groups : ReadGroupForAliases(r, g) \/ ReadGroupForDesired(r, g)
  \/ \E p \in Providers : ListSeats(r, p)
  \/ \E h \in People : \/ CancelReturned(r, h) \/ AddSeat(r, h)
                       \/ Reclaim(r, h) \/ CloseReclaimed(r, h)
                       \/ CloseGone(r, h)
  \/ \E s \in Raw : QueueRemoval(r, s) \/ RemoveNow(r, s)

Next ==
  \/ World
  \/ Tick
  \/ \E r \in Runners : Pass(r) \/ Crash(r)

Spec == Init /\ [][Next]_vars

\* Every process keeps running and every call is answered, time passes, and a
\* provider that is asked for a removal again and again grants it in the end.
Fairness ==
  /\ SF_vars(Tick)
  /\ \A r \in Runners :
       /\ WF_vars(Pass(r))
       /\ \A h \in People : SF_vars(Reclaim(r, h) /\ seats' # seats)

FairSpec == Spec /\ Fairness
-----------------------------------------------------------------------------
(* Correctness.                                                            *)

RunState ==
  [pc : {"idle", "aliases", "next", "desired", "apply", "reclaim", "close"},
   policy : Policies, unread : SUBSET Groups, known : SUBSET People,
   dir : [People -> DirectoryStatus], left : SUBSET Providers,
   prov : Providers \cup {None}, listed : [Raw -> SeatStatus],
   desired : SUBSET People, cancels : SUBSET People, adds : SUBSET People,
   removes : SUBSET Raw, expired : SUBSET People]

\* Every variable keeps its shape; in particular a countdown never exceeds the
\* longest grace period.
TypeOK ==
  /\ directory \in [People -> DirectoryStatus]
  /\ members \in [Groups -> SUBSET People]
  /\ seats \in [Providers -> [Raw -> SeatStatus]]
  /\ pending \in [Providers -> [People -> Countdown]]
  /\ run \in [Runners -> RunState]
  /\ age \in [Providers -> [People -> Countdown]]

\* Process r takes the active seat s of provider p away in this step.
Takes(r, p, s) ==
  /\ run'[r] # run[r]
  /\ seats[p][s] = "active" /\ seats'[p][s] # "active"

\* Only orphans are removed: whatever the countdowns of earlier passes say,
\* a pass takes a seat away only from a corporate identity that its own read
\* of the directory shows absent or suspended.
OnlyTheDeparted ==
  [][\A r \in Runners, p \in Providers, s \in Raw : Takes(r, p, s) =>
       /\ Identity(run[r], s) \in Corporate
       /\ run[r].dir[Identity(run[r], s)] # "active"]_vars

\* The same of the person who really uses the seat.  A login that two members of
\* the mapped groups may go by is nobody's: an active employee keeps it when a
\* namesake of another group leaves (BuildAliasIndex).
EmployeesKept ==
  [][\A r \in Runners, p \in Providers, s \in Raw : Takes(r, p, s) =>
       run[r].dir[Holder[s]] # "active"]_vars

\* policies.exceptions are never removed, not even by a countdown that began
\* under a policy without the exception.
ExceptionsKept ==
  [][\A r \in Runners, p \in Providers, s \in Raw : Takes(r, p, s) =>
       Identity(run[r], s) \notin run[r].policy.exceptions[p]]_vars

\* A dry run changes neither a provider nor the countdowns, whatever expired.
DryRunHarmless ==
  [][\A r \in Runners :
       run[r].pc # "idle" /\ run[r].policy.dry /\ run'[r] # run[r]
         => UNCHANGED <<seats, pending>>]_vars

\* With a grace period a seat is taken only when its identity has been counted
\* down for all of it, since the last pass that found the identity active.
FullGrace ==
  [][\A r \in Runners, p \in Providers, s \in Raw :
       Takes(r, p, s) /\ run[r].policy.grace > 0
         => age[p][Identity(run[r], s)] >= run[r].policy.grace]_vars

\* The countdown starts at the first detection and later passes do not push
\* it back, until the identity returns or its seats are reclaimed.
NeverReset ==
  \A p \in Providers, h \in People :
    age[p][h] # Off /\ pending[p][h] # Off
      => pending[p][h] + age[p][h] <= MaxGrace

\* A countdown is closed as "the seat is gone" only when the pass saw no
\* active seat of that identity.
ClosedMeansGone ==
  [][\A r \in Runners, h \in People :
       /\ run[r].pc = "reclaim" /\ run'[r].pc = "reclaim"
       /\ h \in run[r].expired \ run'[r].expired
       => \A s \in Raw : run[r].listed[s] = "active"
                           => Identity(run[r], s) # h]_vars

\* A seat of someone who left is reclaimed, unless they return first, whatever
\* becomes of the other providers.
Reclaimed ==
  \A p \in Removers \ Down, s \in Raw :
    (seats[p][s] = "active" /\ directory[Holder[s]] # "active")
      ~> (seats[p][s] # "active" \/ directory[Holder[s]] = "active")

\* Someone the mapping grants a provider gets a seat there that works, unless
\* they leave the group or the company.
Provisioned ==
  \A p \in Adders \ Down, h \in Corporate :
    LET granted == /\ directory[h] = "active"
                   /\ \E g \in GroupsFor[p] : h \in members[g]
    IN granted ~> (~granted \/ \E s \in Raw : /\ Holder[s] = h
                                             /\ seats[p][s] = "active")
=============================================================================
