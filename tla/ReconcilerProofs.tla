-------------------------- MODULE ReconcilerProofs --------------------------
(***************************************************************************)
(* Proofs about Reconciler, for every value of its constants: types; dry   *)
(* runs change nothing; only orphans are removed, and neither exceptions   *)
(* nor employees; whatever fails, only those are at risk who may leave and *)
(* are not excepted by every policy; a countdown lasts the whole grace     *)
(* period, is not started over while it runs, and is closed for want of a  *)
(* seat only without one; and a pass makes only finitely many steps.       *)
(***************************************************************************)
EXTENDS Reconciler, NaturalFacts, FiniteSetTheorems, TLAPS

\* What a pass has read and planned keeps its shape when it starts or moves on
\* to the next provider.
LEMMA IdleType == Idle \in RunState
<1>1. (CHOOSE p \in Policies : TRUE) \in Policies
  BY ReconcilerAssumption
<1>2. /\ Everyone("absent") \in [People -> DirectoryStatus]
      /\ NoSeats \in [Raw -> SeatStatus]
  BY DEF Everyone, NoSeats, DirectoryStatus, SeatStatus
<1> QED
  BY <1>1, <1>2 DEF Idle, RunState

LEMMA NextProviderType ==
  ASSUME NEW rr \in RunState
  PROVE  NextProvider(rr) \in RunState
<1>1. NoSeats \in [Raw -> SeatStatus]
  BY DEF NoSeats, SeatStatus
<1> QED
  BY <1>1 DEF NextProvider, RunState

-----------------------------------------------------------------------------
(* Type correctness.                                                       *)

LEMMA WorldType == TypeOK /\ (World \/ Tick) => TypeOK'
<1> SUFFICES ASSUME TypeOK, World \/ Tick PROVE TypeOK'
  OBVIOUS
<1> USE DEF TypeOK
<1>1. CASE Tick
  <2>1. \A n \in Countdown : Later(n) \in Countdown /\ Sooner(n) \in Countdown
    BY ReconcilerAssumption DEF Later, Sooner, Countdown, Off
  <2> QED
    BY <1>1, <2>1 DEF Tick
<1>2. CASE \E h \in Leavers : ChangeStatus(h)
  BY <1>2 DEF ChangeStatus
<1>3. CASE \E m \in Moves : ChangeMembership(m[1], m[2])
  <2>1. PICK m \in Moves : ChangeMembership(m[1], m[2])
    BY <1>3
  <2>2. m[1] \in People /\ m[2] \in Groups
    BY ReconcilerAssumption
  <2> QED
    BY <2>1, <2>2 DEF ChangeMembership
<1>4. CASE \E g \in Grants : ChangeSeat(g[1], g[2])
  <2>1. PICK g \in Grants : ChangeSeat(g[1], g[2])
    BY <1>4
  <2>2. g[1] \in Providers /\ g[2] \in Raw
    BY ReconcilerAssumption
  <2> QED
    BY <2>1, <2>2 DEF ChangeSeat, SeatStatus
<1> QED
  BY <1>1, <1>2, <1>3, <1>4 DEF World

LEMMA CallTypes ==
  ASSUME TypeOK, NEW p, NEW x
  PROVE  /\ RemoveUser(p, x) \/ AddUser(p, x)
             => seats' \in [Providers -> [Raw -> SeatStatus]]
         /\ CancelPendingRemoval(p, x)
             => pending' \in [Providers -> [People -> Countdown]]
         /\ [age EXCEPT ![p][x] = Off] \in [Providers -> [People -> Countdown]]
         /\ \A n \in Countdown : InsertPendingRemoval(p, x, n)
             => /\ pending' \in [Providers -> [People -> Countdown]]
                /\ age' \in [Providers -> [People -> Countdown]]
<1>1. /\ {"none", "active", "suspended"} \subseteq SeatStatus
      /\ Off \in Countdown /\ 0 \in Countdown
  BY ReconcilerAssumption DEF SeatStatus, Countdown, Off
<1>2. ASSUME NEW v \in SeatStatus
      PROVE  [seats EXCEPT ![p][x] = v] \in [Providers -> [Raw -> SeatStatus]]
  BY DEF TypeOK
<1>3. ASSUME NEW f \in [Providers -> [People -> Countdown]],
             NEW n \in Countdown
      PROVE  [f EXCEPT ![p][x] = n] \in [Providers -> [People -> Countdown]]
  OBVIOUS
<1>4. ASSUME RemoveUser(p, x) \/ AddUser(p, x)
      PROVE  seats' \in [Providers -> [Raw -> SeatStatus]]
  <2>1. \/ seats' = seats
        \/ seats' = [seats EXCEPT ![p][x] = "active"]
        \/ seats' = [seats EXCEPT ![p][x] =
                       IF p \in Deactivating THEN "suspended" ELSE "none"]
    BY <1>4 DEF RemoveUser, AddUser
  <2>2. (IF p \in Deactivating THEN "suspended" ELSE "none") \in SeatStatus
    BY <1>1
  <2>3. seats \in [Providers -> [Raw -> SeatStatus]]
    BY DEF TypeOK
  <2> QED
    BY <1>1, <1>2, <2>1, <2>2, <2>3
<1>5. CancelPendingRemoval(p, x)
        => pending' \in [Providers -> [People -> Countdown]]
  BY <1>1, <1>3 DEF CancelPendingRemoval, TypeOK
<1>6. ASSUME NEW n \in Countdown, InsertPendingRemoval(p, x, n)
      PROVE  /\ pending' \in [Providers -> [People -> Countdown]]
             /\ age' \in [Providers -> [People -> Countdown]]
  BY <1>1, <1>6 DEF InsertPendingRemoval, TypeOK
<1>7. [age EXCEPT ![p][x] = Off] \in [Providers -> [People -> Countdown]]
  BY <1>1, <1>3 DEF TypeOK
<1> QED
  BY <1>4, <1>5, <1>6, <1>7

LEMMA PassType == TypeOK /\ (\E r \in Runners : Pass(r) \/ Crash(r)) => TypeOK'
<1> SUFFICES ASSUME TypeOK, NEW r \in Runners, Pass(r) \/ Crash(r)
             PROVE  TypeOK'
  OBVIOUS
<1> DEFINE rr == run[r]
<1>0. rr \in RunState /\ rr.policy \in Policy
  BY ReconcilerAssumption DEF TypeOK, RunState
<1>1. CASE StartRun(r)
  <2>1. PICK pol \in Policies :
          run' = [run EXCEPT ![r] = [Idle EXCEPT !.pc = "aliases",
                                                 !.policy = pol,
                                                 !.unread = Groups]]
    BY <1>1 DEF StartRun
  <2>2. [Idle EXCEPT !.pc = "aliases", !.policy = pol, !.unread = Groups]
          \in RunState
    BY IdleType DEF RunState
  <2> QED
    BY <1>1, <2>1, <2>2 DEF StartRun, TypeOK
<1>2. CASE ReadDirectory(r)
  <2>1. [rr EXCEPT !.pc = "next", !.dir = directory, !.left = Providers]
          \in RunState
    BY <1>0 DEF RunState, TypeOK
  <2> QED
    BY <1>2, <2>1, IdleType DEF ReadDirectory, TypeOK
<1>3. CASE Decide(r)
  <2>1. NextProvider(rr) \in RunState
    BY <1>0, NextProviderType
  <2>2. \A ok \in BOOLEAN :
          [rr EXCEPT
             !.pc = "apply",
             !.cancels = IF rr.policy.grace > 0 /\ ok
                         THEN GetPendingRemovals(rr.prov) \ Orphaned(rr)
                         ELSE {},
             !.adds = IF rr.prov \in Adders THEN AddsOf(rr) ELSE {},
             !.removes = IF rr.prov \in Removers THEN RemovesOf(rr) ELSE {}]
            \in RunState
    <3>1. AddsOf(rr) \subseteq People
      BY <1>0 DEF AddsOf, ToAdd, RunState
    <3>2. RemovesOf(rr) \subseteq Raw
      BY DEF RemovesOf, ToRemove, Present
    <3>3. GetPendingRemovals(rr.prov) \ Orphaned(rr) \subseteq People
      BY DEF GetPendingRemovals
    <3>4. ASSUME NEW c \in SUBSET People, NEW a \in SUBSET People,
                 NEW x \in SUBSET Raw
          PROVE  [rr EXCEPT !.pc = "apply", !.cancels = c, !.adds = a,
                            !.removes = x] \in RunState
      BY <1>0 DEF RunState
    <3> QED
      BY <3>1, <3>2, <3>3, <3>4
  <2>3. run' \in [Runners -> RunState]
    <3>1. \E next \in RunState : run' = [run EXCEPT ![r] = next]
      BY <1>3, <2>1, <2>2 DEF Decide, Outcome
    <3> QED
      BY <3>1 DEF TypeOK
  <2>4. age' \in [Providers -> [People -> Countdown]]
    <3>1. Off \in Countdown
      BY ReconcilerAssumption DEF Countdown, Off
    <3>2. \/ age' = age
          \/ age' = [age EXCEPT ![rr.prov] =
               [h \in People |->
                  IF rr.policy.grace > 0 /\ h \notin Orphaned(rr)
                  THEN Off ELSE age[rr.prov][h]]]
      BY <1>3 DEF Decide
    <3>3. rr.prov \in Providers =>
            [h \in People |-> IF rr.policy.grace > 0 /\ h \notin Orphaned(rr)
                              THEN Off ELSE age[rr.prov][h]]
              \in [People -> Countdown]
      BY <3>1 DEF TypeOK
    <3> QED
      BY <3>2, <3>3 DEF TypeOK
  <2> QED
    BY <1>3, <2>3, <2>4 DEF Decide, TypeOK
<1>4. CASE ReadExpired(r)
  <2>1. \A ok \in BOOLEAN :
          [rr EXCEPT !.pc = "reclaim",
                     !.expired = IF ok THEN GetExpiredRemovals(rr.prov) ELSE {}]
            \in RunState
    BY <1>0 DEF GetExpiredRemovals, RunState
  <2> QED
    BY <1>4, <2>1 DEF ReadExpired, Outcome, TypeOK
<1>5. CASE FinishProvider(r)
  BY <1>0, <1>5, NextProviderType DEF FinishProvider, TypeOK
<1>6. CASE FinishRun(r) \/ Crash(r)
  BY <1>6, IdleType DEF FinishRun, Crash, TypeOK
<1>7. ASSUME NEW g \in Groups, ReadGroupForAliases(r, g) PROVE TypeOK'
  <2>1. \A ok \in BOOLEAN :
          [rr EXCEPT !.unread = @ \ {g},
                     !.known = IF ok THEN @ \cup members[g] ELSE @]
            \in RunState
    BY <1>0, <1>7 DEF RunState, TypeOK
  <2> QED
    BY <1>7, <2>1 DEF ReadGroupForAliases, Outcome, TypeOK
<1>8. ASSUME NEW g \in Groups, ReadGroupForDesired(r, g) PROVE TypeOK'
  <2>1. [rr EXCEPT !.unread = @ \ {g}, !.desired = @ \cup members[g]]
          \in RunState
    BY <1>0, <1>8 DEF RunState, TypeOK
  <2>2. NextProvider(rr) \in RunState
    BY <1>0, NextProviderType
  <2>3. \/ run' = [run EXCEPT ![r] =
               [rr EXCEPT !.unread = @ \ {g}, !.desired = @ \cup members[g]]]
        \/ run' = [run EXCEPT ![r] = NextProvider(rr)]
    BY <1>8 DEF ReadGroupForDesired, Abandon
  <2> QED
    BY <1>8, <2>1, <2>2, <2>3 DEF ReadGroupForDesired, TypeOK
<1>9. ASSUME NEW p \in Providers, ListSeats(r, p) PROVE TypeOK'
  <2>1. [rr EXCEPT !.pc = "desired", !.prov = p, !.listed = seats[p],
                   !.unread = GroupsFor[p], !.left = @ \ {p}] \in RunState
    BY <1>0, ReconcilerAssumption DEF RunState, TypeOK
  <2>2. NextProvider([rr EXCEPT !.left = @ \ {p}]) \in RunState
    BY <1>0, NextProviderType DEF RunState
  <2>3. \/ run' = [run EXCEPT ![r] =
               [rr EXCEPT !.pc = "desired", !.prov = p, !.listed = seats[p],
                          !.unread = GroupsFor[p], !.left = @ \ {p}]]
        \/ run' = [run EXCEPT ![r] = NextProvider([rr EXCEPT !.left = @ \ {p}])]
    BY <1>0, <1>9 DEF ListSeats, Abandon, RunState
  <2> QED
    BY <1>9, <2>1, <2>2, <2>3 DEF ListSeats, TypeOK
<1>10. ASSUME NEW h \in People,
              CancelReturned(r, h) \/ CloseReclaimed(r, h) \/ CloseGone(r, h)
       PROVE  TypeOK'
  <2>1. /\ [rr EXCEPT !.cancels = @ \ {h}] \in RunState
        /\ [rr EXCEPT !.pc = "reclaim", !.cancels = {}] \in RunState
        /\ [rr EXCEPT !.expired = @ \ {h}] \in RunState
    BY <1>0 DEF RunState
  <2>2. run' \in [Runners -> RunState]
    BY <1>10, <2>1 DEF CancelReturned, CloseReclaimed, CloseGone, TypeOK
  <2>3. pending' \in [Providers -> [People -> Countdown]]
    BY <1>10, CallTypes DEF CancelReturned, CloseReclaimed, CloseGone, TypeOK
  <2> QED
    BY <1>10, <2>2, <2>3 DEF CancelReturned, CloseReclaimed, CloseGone, TypeOK
<1>11. ASSUME NEW h \in People, AddSeat(r, h) PROVE TypeOK'
  <2>1. [rr EXCEPT !.adds = @ \ {h}] \in RunState
    BY <1>0 DEF RunState
  <2>2. seats' \in [Providers -> [Raw -> SeatStatus]]
    BY <1>11, CallTypes DEF AddSeat
  <2> QED
    BY <1>11, <2>1, <2>2 DEF AddSeat, TypeOK
<1>12. ASSUME NEW h \in People, Reclaim(r, h) PROVE TypeOK'
  <2>1. [rr EXCEPT !.pc = "close", !.expired = @ \ {h}, !.cancels = {h}]
          \in RunState
    BY <1>0 DEF RunState
  <2>2. seats' \in [Providers -> [Raw -> SeatStatus]]
    BY <1>12, CallTypes DEF Reclaim
  <2>3. age' \in [Providers -> [People -> Countdown]]
    <3>1. age' = [age EXCEPT ![rr.prov][h] = Off] \/ age' = age
      BY <1>12 DEF Reclaim, TypeOK
    <3>2. [age EXCEPT ![rr.prov][h] = Off]
            \in [Providers -> [People -> Countdown]]
      BY CallTypes
    <3>3. age \in [Providers -> [People -> Countdown]]
      BY DEF TypeOK
    <3> QED
      BY <3>1, <3>2, <3>3
  <2> QED
    BY <1>12, <2>1, <2>2, <2>3 DEF Reclaim, TypeOK
<1>13. ASSUME NEW s \in Raw, QueueRemoval(r, s) PROVE TypeOK'
  <2>1. [rr EXCEPT !.removes = @ \ {s}] \in RunState
    BY <1>0 DEF RunState
  <2>2. rr.policy.grace \in Countdown /\ 0 \in Countdown
    BY <1>0, ReconcilerAssumption DEF Policy, Countdown, Off
  <2>3. /\ pending' \in [Providers -> [People -> Countdown]]
        /\ age' \in [Providers -> [People -> Countdown]]
    BY <1>13, <2>2, CallTypes DEF QueueRemoval, TypeOK
  <2> QED
    BY <1>13, <2>1, <2>3 DEF QueueRemoval, TypeOK
<1>14. ASSUME NEW s \in Raw, RemoveNow(r, s) PROVE TypeOK'
  <2>1. [rr EXCEPT !.removes = @ \ {s}] \in RunState
    BY <1>0 DEF RunState
  <2>2. seats' \in [Providers -> [Raw -> SeatStatus]]
    BY <1>14, CallTypes DEF RemoveNow
  <2> QED
    BY <1>14, <2>1, <2>2 DEF RemoveNow, TypeOK
<1> QED
  BY <1>1, <1>2, <1>3, <1>4, <1>5, <1>6, <1>7, <1>8, <1>9, <1>10, <1>11,
     <1>12, <1>13, <1>14 DEF Pass

\* The state of every part keeps its shape in every reachable state.
THEOREM TypeCorrect == Spec => []TypeOK
<1>1. Init => TypeOK
  BY IdleType, ReconcilerAssumption
     DEF Init, TypeOK, DirectoryStatus, Countdown, Off
<1>2. TypeOK /\ [Next]_vars => TypeOK'
  <2>1. TypeOK /\ UNCHANGED vars => TypeOK'
    BY DEF TypeOK, vars
  <2> QED
    BY <2>1, WorldType, PassType DEF Next
<1> QED
  BY <1>1, <1>2, PTL DEF Spec

-----------------------------------------------------------------------------
(* Only orphans are removed.                                               *)

\* The store answers the reads and cancellations of cancelReturnedUsers; a
\* second process is allowed only if no tick falls inside a pass; and an alias
\* is a login or an outside address, never itself a corporate address.
SafeSetting ==
  /\ Faults \cap {"readPending", "cancel"} = {}
  /\ SlowRuns => \A q, r \in Runners : q = r
  /\ DOMAIN Explicit \cap Corporate = {}

\* By what the pass has read, identity h may lose its seat.
Removable(rr, h) ==
  h \in Corporate /\ rr.dir[h] # "active" /\ h \notin ExceptionsOf(rr)

\* The countdown may reach its end before the pass does.
MayExpire(p, h) == IF SlowRuns THEN pending[p][h] # Off ELSE pending[p][h] = 0

\* A pass that acts has a sound plan, and every countdown it may find expired
\* is one it will cancel first or one of an identity it may remove.
PassInv(r) ==
  LET rr == run[r] IN
  /\ rr.policy.dry => rr.pc \in {"idle", "aliases", "next", "desired"}
  /\ rr.pc = "apply" =>
       /\ \A s \in rr.removes : Removable(rr, Identity(rr, s))
       /\ rr.policy.grace > 0 =>
            \A h \in People :
              MayExpire(rr.prov, h) => h \in rr.cancels \/ Removable(rr, h)
  /\ rr.pc \in {"desired", "apply", "reclaim", "close"} => rr.prov \in Providers
  /\ rr.pc \in {"reclaim", "close"} => \A h \in rr.expired : Removable(rr, h)

IInv == TypeOK /\ \A r \in Runners : PassInv(r)

\* An alias index answers with a person or with nobody.
LEMMA ResolveInRaw ==
  ASSUME NEW known \in SUBSET People, NEW s \in Raw
  PROVE  /\ BuildAliasIndex(known) \in [Raw -> People \cup {NoOne}]
         /\ Resolve(BuildAliasIndex(known), s) \in Raw
<1>1. BuildAliasIndex(known) \in [Raw -> People \cup {NoOne}]
  <2>1. ASSUME NEW k \in Raw, \E h \in known : Claimants(k, known) = {h}
        PROVE  (CHOOSE h \in known : Claimants(k, known) = {h}) \in People
    BY <2>1
  <2> QED
    BY <2>1, EngineAssumption DEF BuildAliasIndex
<1>2. Squashed(s) \in Raw
  BY EngineAssumption DEF Squashed, Raw
<1> QED
  BY <1>1, <1>2 DEF Resolve, Raw

\* Every seat a plan removes belongs to an identity it may remove.
LEMMA PlanSound ==
  ASSUME NEW rr \in RunState, NEW s \in RemovesOf(rr)
  PROVE  Removable(rr, Identity(rr, s))
<1>1. s \in Raw /\ Identity(rr, s) \in Raw
  BY ResolveInRaw DEF RemovesOf, ToRemove, Present, Identity, IndexOf, RunState
<1>2. /\ SeatClass(IndexOf(rr), rr.dir, rr.desired, s) = "orphan"
      /\ Identity(rr, s) \notin ExceptionsOf(rr)
  BY DEF RemovesOf, ToRemove, Identity
<1>3. Identity(rr, s) \in Corporate /\ rr.dir[Identity(rr, s)] # "active"
  <2> DEFINE id == Identity(rr, s)
  <2>1. CASE id \in Logins
    <3>1. SeatClass(IndexOf(rr), rr.dir, rr.desired, s) = "unresolved"
      BY <1>1, <2>1, EngineAssumption DEF SeatClass, Identity, Raw
    <3> QED
      BY <1>2, <3>1
  <2>2. CASE id \in People \ Corporate
    <3>1. SeatClass(IndexOf(rr), rr.dir, rr.desired, s) = "external"
      BY <1>1, <2>2, EngineAssumption DEF SeatClass, Identity, Raw
    <3> QED
      BY <1>2, <3>1
  <2>3. CASE id \in Corporate /\ rr.dir[id] = "active"
    <3>1. SeatClass(IndexOf(rr), rr.dir, rr.desired, s)
            \in {"managed", "unmapped"}
      BY <1>1, <2>3, EngineAssumption DEF SeatClass, Identity, Raw
    <3> QED
      BY <1>2, <3>1
  <2> QED
    BY <1>1, <2>1, <2>2, <2>3 DEF Raw
<1> QED
  BY <1>2, <1>3 DEF Removable

\* The seat chosen for an expired identity resolves to that identity.
LEMMA TargetIdentity ==
  ASSUME SafeSetting, NEW rr \in RunState, NEW h \in Corporate,
         NEW s \in Targets(rr, h)
  PROVE  s \in Raw /\ Identity(rr, s) = h
<1> DEFINE index == BuildAliasIndex(rr.known)
<1>0. s \in Raw /\ h \in People /\ rr.known \in SUBSET People
  BY EngineAssumption DEF Targets, Present, RunState
<1>1. CASE s \in DOMAIN Explicit /\ Explicit[s] = h
  <2>1. index[s] = h /\ h # NoOne
    BY <1>0, <1>1, EngineAssumption DEF BuildAliasIndex, Raw
  <2> QED
    BY <1>0, <2>1 DEF Identity, IndexOf, Resolve
<1>2. CASE s = h
  <2>1. h \notin DOMAIN Explicit /\ h \notin Logins
    BY <1>0, EngineAssumption DEF SafeSetting
  <2>2. \A x \in rr.known : h \notin Keys(x)
    BY <1>0, <2>1, EngineAssumption DEF Keys
  <2>3. ~\E x \in rr.known : Claimants(h, rr.known) = {x}
    BY <2>2 DEF Claimants
  <2>4. index[h] = NoOne /\ Squashed(h) = h
    BY <1>0, <2>1, <2>3 DEF BuildAliasIndex, Squashed, Raw
  <2> QED
    BY <1>0, <1>2, <2>4 DEF Identity, IndexOf, Resolve
<1> QED
  BY <1>1, <1>2 DEF Targets
\* A process changes its own pass only.
LEMMA OwnPass ==
  ASSUME TypeOK, NEW q \in Runners, Pass(q) \/ Crash(q),
         NEW r \in Runners, r # q
  PROVE  run'[r] = run[r]
BY DEF Pass, Crash, StartRun, ReadGroupForAliases, ReadDirectory, ListSeats,
       ReadGroupForDesired, Decide, CancelReturned, AddSeat, QueueRemoval,
       RemoveNow, ReadExpired, Reclaim, CloseReclaimed, CloseGone,
       FinishProvider, FinishRun, TypeOK

\* The world and the clock change no pass.
LEMMA WorldKeepsRuns == World \/ Tick => run' = run
BY DEF World, Tick, ChangeStatus, ChangeMembership, ChangeSeat

\* A pass makes no countdown expire: it closes it, leaves it, or starts it.
LEMMA PassKeepsCountdowns ==
  ASSUME TypeOK, NEW q \in Runners, Pass(q) \/ Crash(q),
         NEW p \in Providers, NEW h \in People
  PROVE  \/ pending'[p][h] = pending[p][h]
         \/ pending'[p][h] = Off
         \/ /\ run[q].pc = "apply" /\ p = run[q].prov
            /\ \E s \in run[q].removes : h = Identity(run[q], s)
            /\ pending'[p][h] # 0
<1>1. ASSUME NEW pp, NEW x, CancelPendingRemoval(pp, x)
      PROVE  pending'[p][h] \in {pending[p][h], Off}
  BY <1>1 DEF CancelPendingRemoval, TypeOK
<1>2. ASSUME NEW s \in Raw, QueueRemoval(q, s)
      PROVE  \/ pending'[p][h] = pending[p][h]
             \/ /\ run[q].pc = "apply" /\ p = run[q].prov
                /\ \E t \in run[q].removes : h = Identity(run[q], t)
                /\ pending'[p][h] # 0
  <2> DEFINE id == Identity(run[q], s)
             pp == run[q].prov
             g  == run[q].policy.grace
  <2>1. run[q].policy.grace \in Nat \ {0}
    BY <1>2, ReconcilerAssumption DEF QueueRemoval, TypeOK, RunState, Policy
  <2>2. \/ pending' = pending
        \/ pending' = [pending EXCEPT ![pp][id] = IF @ = Off THEN g ELSE @]
    BY <1>2 DEF QueueRemoval, InsertPendingRemoval
  <2>3. \/ pending'[p][h] = pending[p][h]
        \/ p = pp /\ h = id /\ pending'[p][h] = g
    BY <2>2 DEF TypeOK
  <2> QED
    BY <1>2, <2>1, <2>3 DEF QueueRemoval
<1>3. CASE \E x \in People : \/ CancelReturned(q, x) \/ CloseReclaimed(q, x)
                             \/ CloseGone(q, x)
  BY <1>1, <1>3 DEF CancelReturned, CloseReclaimed, CloseGone
<1> QED
  BY <1>2, <1>3
     DEF Pass, Crash, StartRun, ReadGroupForAliases, ReadDirectory, ListSeats,
         ReadGroupForDesired, Decide, AddSeat, RemoveNow, ReadExpired, Reclaim,
         FinishProvider, FinishRun

\* What a pass may remove depends only on what it has read so far.
LEMMA SameReads ==
  ASSUME NEW a, NEW b, a.known = b.known, a.dir = b.dir,
         a.policy = b.policy, a.prov = b.prov
  PROVE  /\ \A h : Removable(a, h) <=> Removable(b, h)
         /\ \A s : Identity(a, s) = Identity(b, s)
BY DEF Removable, ExceptionsOf, Identity, IndexOf

LEMMA InitInv == Init => IInv
<1> SUFFICES ASSUME Init PROVE IInv
  OBVIOUS
<1>1. TypeOK
  BY IdleType, ReconcilerAssumption
     DEF Init, TypeOK, DirectoryStatus, Countdown, Off
<1>2. \A r \in Runners : run[r].pc = "idle"
  BY DEF Init, Idle
<1> QED
  BY <1>1, <1>2 DEF IInv, PassInv

\* The clock moves countdowns only while no pass runs, or when a single process
\* has all of them under its plan.
LEMMA WorldInv == IInv /\ (World \/ Tick) => \A r \in Runners : PassInv(r)'
<1> SUFFICES ASSUME IInv, World \/ Tick, NEW r \in Runners PROVE PassInv(r)'
  OBVIOUS
<1>1. run' = run
  BY WorldKeepsRuns
<1>2. ASSUME run[r].pc = "apply", NEW h \in People, MayExpire(run[r].prov, h)'
      PROVE  MayExpire(run[r].prov, h)
  <2>1. run[r].prov \in Providers
    BY <1>2 DEF IInv, PassInv
  <2>2. CASE World
    BY <1>1, <1>2, <2>2
       DEF World, ChangeStatus, ChangeMembership, ChangeSeat, MayExpire
  <2>3. CASE Tick
    <3>1. SlowRuns
      BY <1>2, <2>3 DEF Tick
    <3>2. pending'[run[r].prov][h] = Sooner(pending[run[r].prov][h])
      BY <2>1, <2>3 DEF Tick
    <3> QED
      BY <1>1, <1>2, <3>1, <3>2 DEF MayExpire, Sooner, Off
  <2> QED
    BY <2>2, <2>3
<1> QED
  BY <1>1, <1>2 DEF IInv, PassInv, Removable, ExceptionsOf, Identity, IndexOf

\* Another process never makes a countdown of this pass expire: it could only
\* start one, and no tick falls inside a pass.
LEMMA OthersInv ==
  ASSUME SafeSetting, IInv, NEW q \in Runners, Pass(q) \/ Crash(q),
         NEW r \in Runners, r # q
  PROVE  PassInv(r)'
<1>1. run'[r] = run[r] /\ ~SlowRuns
  BY OwnPass DEF SafeSetting, IInv
<1>2. ASSUME NEW p \in Providers, NEW h \in People, MayExpire(p, h)'
      PROVE  MayExpire(p, h)
  BY <1>1, <1>2, PassKeepsCountdowns DEF MayExpire, Off, IInv
<1> QED
  BY <1>1, <1>2 DEF IInv, PassInv, Removable, ExceptionsOf, Identity, IndexOf

\* The plan of a pass is sound when it is made.
LEMMA DecideInv ==
  ASSUME SafeSetting, IInv, NEW q \in Runners, Decide(q)
  PROVE  PassInv(q)'
<1> DEFINE rr == run[q]
           ss == run'[q]
<1>0. rr \in RunState /\ rr.prov \in Providers /\ "readPending" \notin Faults
  BY DEF IInv, TypeOK, PassInv, Decide, SafeSetting
<1>1. CASE rr.policy.dry
  <2>1. ss = NextProvider(rr)
    BY <1>1 DEF Decide, IInv, TypeOK
  <2> QED
    BY <1>0, <2>1 DEF NextProvider, PassInv, RunState
<1>2. CASE ~rr.policy.dry
  <2>1. /\ ss.pc = "apply" /\ ss.removes \subseteq RemovesOf(rr)
        /\ rr.policy.grace > 0
             => ss.cancels = GetPendingRemovals(rr.prov) \ Orphaned(rr)
        /\ ss.known = rr.known /\ ss.dir = rr.dir
        /\ ss.policy = rr.policy /\ ss.prov = rr.prov
    <3>1. ss = [rr EXCEPT
                  !.pc = "apply",
                  !.cancels = IF rr.policy.grace > 0
                              THEN GetPendingRemovals(rr.prov) \ Orphaned(rr)
                              ELSE {},
                  !.adds = IF rr.prov \in Adders THEN AddsOf(rr) ELSE {},
                  !.removes = IF rr.prov \in Removers THEN RemovesOf(rr) ELSE {}]
      BY <1>0, <1>2 DEF Decide, Outcome, IInv, TypeOK
    <3> QED
      BY <1>0, <3>1 DEF RunState
  <2>2. pending' = pending
    BY DEF Decide
  <2>3. \A s \in ss.removes : Removable(ss, Identity(ss, s))
    BY <1>0, <2>1, PlanSound, SameReads
  <2>4. ASSUME rr.policy.grace > 0, NEW h \in People, MayExpire(rr.prov, h)'
        PROVE  h \in ss.cancels \/ Removable(ss, h)
    <3>1. h \in GetPendingRemovals(rr.prov)
      BY <2>1, <2>2, <2>4 DEF MayExpire, GetPendingRemovals, Off
    <3>2. h \in Orphaned(rr) => Removable(rr, h)
      BY <1>0, PlanSound DEF Orphaned
    <3> QED
      BY <2>1, <2>4, <3>1, <3>2, SameReads
  <2> QED
    BY <1>0, <1>2, <2>1, <2>3, <2>4 DEF PassInv
<1> QED
  BY <1>1, <1>2

\* The plan stays sound while the pass works it off.
LEMMA ApplyInv ==
  ASSUME SafeSetting, IInv, NEW q \in Runners,
         \/ \E h \in People : CancelReturned(q, h) \/ AddSeat(q, h)
         \/ \E s \in Raw : QueueRemoval(q, s) \/ RemoveNow(q, s)
  PROVE  PassInv(q)'
<1> DEFINE rr == run[q]
           ss == run'[q]
<1>0. /\ rr \in RunState /\ rr.prov \in Providers /\ "cancel" \notin Faults
      /\ rr.pc = "apply"
  BY DEF IInv, TypeOK, PassInv, CancelReturned, AddSeat, QueueRemoval,
         RemoveNow, SafeSetting
<1>1. /\ ss.pc = "apply" /\ ss.removes \subseteq rr.removes
      /\ ss.known = rr.known /\ ss.dir = rr.dir
      /\ ss.policy = rr.policy /\ ss.prov = rr.prov
  <2>1. \/ \E h : ss = [rr EXCEPT !.cancels = rr.cancels \ {h}]
        \/ \E h : ss = [rr EXCEPT !.adds = rr.adds \ {h}]
        \/ \E s : ss = [rr EXCEPT !.removes = rr.removes \ {s}]
    BY DEF CancelReturned, AddSeat, QueueRemoval, RemoveNow, IInv, TypeOK
  <2>2. CASE \E h : ss = [rr EXCEPT !.cancels = rr.cancels \ {h}]
    BY <1>0, <2>2 DEF RunState
  <2>3. CASE \E h : ss = [rr EXCEPT !.adds = rr.adds \ {h}]
    BY <1>0, <2>3 DEF RunState
  <2>4. CASE \E s : ss = [rr EXCEPT !.removes = rr.removes \ {s}]
    BY <1>0, <2>4 DEF RunState
  <2> QED
    BY <2>1, <2>2, <2>3, <2>4
<1>2. \A s \in ss.removes : Removable(ss, Identity(ss, s))
  BY <1>0, <1>1, SameReads DEF IInv, PassInv
<1>3. ASSUME rr.policy.grace > 0, NEW h \in People, MayExpire(rr.prov, h)'
      PROVE  h \in ss.cancels \/ Removable(ss, h)
  <2>1. MayExpire(rr.prov, h) => h \in rr.cancels \/ Removable(rr, h)
    BY <1>0, <1>3 DEF IInv, PassInv
  <2>2. Pass(q)
    BY DEF Pass
  <2>3. MayExpire(rr.prov, h) \/ Removable(rr, h)
    <3> DEFINE p == rr.prov
    <3>1. \A s \in rr.removes : Removable(rr, Identity(rr, s))
      BY <1>0 DEF IInv, PassInv
    <3>2. \/ pending'[p][h] = pending[p][h]
          \/ pending'[p][h] = Off
          \/ Removable(rr, h) /\ pending'[p][h] # 0
      BY <1>0, <2>2, <3>1, PassKeepsCountdowns DEF IInv
    <3> QED
      BY <1>1, <1>3, <3>2 DEF MayExpire, Off
  <2>4. h \in rr.cancels \ ss.cancels => pending'[rr.prov][h] = Off
    <3>1. CASE CancelReturned(q, h)
      BY <1>0, <3>1 DEF CancelReturned, Outcome, CancelPendingRemoval, IInv,
                        TypeOK
    <3>2. CASE ~CancelReturned(q, h)
      <4>1. \/ \E x \in People : x # h /\ ss = [rr EXCEPT !.cancels = rr.cancels \ {x}]
            \/ \E x : ss = [rr EXCEPT !.adds = rr.adds \ {x}]
            \/ \E s : ss = [rr EXCEPT !.removes = rr.removes \ {s}]
        BY <3>2 DEF CancelReturned, AddSeat, QueueRemoval, RemoveNow, IInv,
                    TypeOK
      <4>2. CASE \E x \in People : x # h /\ ss = [rr EXCEPT !.cancels = rr.cancels \ {x}]
        <5>1. PICK x \in People : x # h /\ ss = [rr EXCEPT !.cancels = rr.cancels \ {x}]
          BY <4>2
        <5>2. ss.cancels = rr.cancels \ {x}
          BY <1>0, <5>1 DEF RunState
        <5> QED
          BY <5>1, <5>2
      <4>3. CASE \/ \E x : ss = [rr EXCEPT !.adds = rr.adds \ {x}]
                 \/ \E s : ss = [rr EXCEPT !.removes = rr.removes \ {s}]
        <5>1. ss.cancels = rr.cancels
          BY <1>0, <4>3 DEF RunState
        <5> QED
          BY <5>1
      <4> QED
        BY <4>1, <4>2, <4>3
    <3> QED
      BY <3>1, <3>2
  <2> QED
    BY <1>1, <1>3, <2>1, <2>3, <2>4, SameReads DEF MayExpire, Off
<1> QED
  BY <1>0, <1>1, <1>2, <1>3 DEF IInv, PassInv

\* What the pass finds expired it may remove.
LEMMA ExpireInv ==
  ASSUME SafeSetting, IInv, NEW q \in Runners,
         \/ ReadExpired(q)
         \/ \E h \in People : \/ Reclaim(q, h) \/ CloseReclaimed(q, h)
                              \/ CloseGone(q, h)
  PROVE  PassInv(q)'
<1> DEFINE rr == run[q]
           ss == run'[q]
<1>0. rr \in RunState /\ rr.prov \in Providers
  BY DEF IInv, TypeOK, PassInv, ReadExpired, ActionsDone, Reclaim,
         CloseReclaimed, CloseGone
<1>1. /\ ss.pc \in {"reclaim", "close"}
      /\ ss.known = rr.known /\ ss.dir = rr.dir
      /\ ss.policy = rr.policy /\ ss.prov = rr.prov
      /\ \/ ReadExpired(q) /\ ss.expired \subseteq GetExpiredRemovals(rr.prov)
         \/ rr.pc \in {"reclaim", "close"} /\ ss.expired \subseteq rr.expired
  <2>1. CASE ReadExpired(q)
    <3>1. \/ ss = [rr EXCEPT !.pc = "reclaim", !.expired = {}]
          \/ ss = [rr EXCEPT !.pc = "reclaim",
                            !.expired = GetExpiredRemovals(rr.prov)]
      BY <2>1 DEF ReadExpired, IInv, TypeOK
    <3> QED
      BY <1>0, <2>1, <3>1 DEF RunState
  <2>2. ASSUME NEW h \in People, Reclaim(q, h)
        PROVE  /\ rr.pc = "reclaim"
               /\ ss = [rr EXCEPT !.pc = "close", !.expired = rr.expired \ {h},
                                 !.cancels = {h}]
    BY <2>2 DEF Reclaim, IInv, TypeOK
  <2>3. ASSUME NEW h \in People, CloseReclaimed(q, h)
        PROVE  /\ rr.pc = "close"
               /\ ss = [rr EXCEPT !.pc = "reclaim", !.cancels = {}]
    BY <2>3 DEF CloseReclaimed, IInv, TypeOK
  <2>4. ASSUME NEW h \in People, CloseGone(q, h)
        PROVE  /\ rr.pc = "reclaim"
               /\ ss = [rr EXCEPT !.expired = rr.expired \ {h}]
    BY <2>4 DEF CloseGone, IInv, TypeOK
  <2>5. CASE \E h \in People : \/ Reclaim(q, h) \/ CloseReclaimed(q, h)
                               \/ CloseGone(q, h)
    <3> DEFINE Goal == /\ ss.pc \in {"reclaim", "close"}
                       /\ ss.known = rr.known /\ ss.dir = rr.dir
                       /\ ss.policy = rr.policy /\ ss.prov = rr.prov
                       /\ rr.pc \in {"reclaim", "close"}
                       /\ ss.expired \subseteq rr.expired
    <3>1. ASSUME NEW h \in People, Reclaim(q, h) PROVE Goal
      <4>1. ss = [rr EXCEPT !.pc = "close", !.expired = rr.expired \ {h},
                            !.cancels = {h}]
        BY <2>2, <3>1
      <4>2. rr.pc = "reclaim"
        BY <2>2, <3>1
      <4>3. ss.pc = "close" /\ ss.expired = rr.expired \ {h}
        BY <1>0, <4>1 DEF RunState
      <4>4. /\ ss.known = rr.known /\ ss.dir = rr.dir
            /\ ss.policy = rr.policy /\ ss.prov = rr.prov
        BY <1>0, <4>1 DEF RunState
      <4> QED
        BY <4>2, <4>3, <4>4
    <3>2. ASSUME NEW h \in People, CloseReclaimed(q, h) PROVE Goal
      <4>1. rr.pc = "close" /\ ss = [rr EXCEPT !.pc = "reclaim", !.cancels = {}]
        BY <2>3, <3>2
      <4>2. ss.pc = "reclaim" /\ ss.expired = rr.expired
        BY <1>0, <4>1 DEF RunState
      <4>3. /\ ss.known = rr.known /\ ss.dir = rr.dir
            /\ ss.policy = rr.policy /\ ss.prov = rr.prov
        BY <1>0, <4>1 DEF RunState
      <4> QED
        BY <4>1, <4>2, <4>3
    <3>3. ASSUME NEW h \in People, CloseGone(q, h) PROVE Goal
      <4>1. rr.pc = "reclaim" /\ ss = [rr EXCEPT !.expired = rr.expired \ {h}]
        BY <2>4, <3>3
      <4>2. ss.pc = "reclaim" /\ ss.expired = rr.expired \ {h}
        BY <1>0, <4>1 DEF RunState
      <4>3. /\ ss.known = rr.known /\ ss.dir = rr.dir
            /\ ss.policy = rr.policy /\ ss.prov = rr.prov
        BY <1>0, <4>1 DEF RunState
      <4> QED
        BY <4>1, <4>2, <4>3
    <3> QED
      BY <2>5, <3>1, <3>2, <3>3
  <2> QED
    BY <2>1, <2>5
<1>2. ~rr.policy.dry
  BY DEF IInv, PassInv, ReadExpired, ActionsDone, Reclaim, CloseReclaimed,
         CloseGone
<1>3. \A h \in ss.expired : Removable(rr, h)
  <2>1. \A h \in GetExpiredRemovals(rr.prov) : MayExpire(rr.prov, h)
    BY DEF GetExpiredRemovals, MayExpire, Off
  <2>2. ReadExpired(q) => \A h \in GetExpiredRemovals(rr.prov) : Removable(rr, h)
    BY <2>1 DEF ReadExpired, ActionsDone, Expires, IInv, PassInv,
                GetExpiredRemovals
  <2>3. rr.pc \in {"reclaim", "close"} => \A h \in rr.expired : Removable(rr, h)
    BY DEF IInv, PassInv
  <2> QED
    BY <1>1, <2>2, <2>3
<1> QED
  BY <1>0, <1>1, <1>2, <1>3, SameReads DEF PassInv

\* Before it has a plan and after it is done, a pass acts on nothing.
LEMMA ReadingInv ==
  ASSUME SafeSetting, IInv, NEW q \in Runners,
         \/ StartRun(q) \/ ReadDirectory(q) \/ FinishProvider(q)
         \/ FinishRun(q) \/ Crash(q)
         \/ \E g \in Groups : \/ ReadGroupForAliases(q, g)
                              \/ ReadGroupForDesired(q, g)
         \/ \E p \in Providers : ListSeats(q, p)
  PROVE  PassInv(q)'
<1> DEFINE rr == run[q]
           ss == run'[q]
<1>0. rr \in RunState
  BY DEF IInv, TypeOK
<1>1. ASSUME \/ StartRun(q) \/ ReadDirectory(q) \/ FinishProvider(q)
             \/ FinishRun(q) \/ Crash(q)
      PROVE  ss.pc \in {"idle", "aliases", "next"}
  <2>1. NextProvider(rr).pc = "next" /\ Idle.pc = "idle"
    BY <1>0 DEF NextProvider, Idle, RunState
  <2>2. CASE StartRun(q)
    <3>1. PICK pol \in Policies :
            ss = [Idle EXCEPT !.pc = "aliases", !.policy = pol,
                              !.unread = Groups]
      BY <2>2 DEF StartRun, IInv, TypeOK
    <3> QED
      BY <3>1, IdleType DEF RunState
  <2>3. CASE ReadDirectory(q)
    <3>1. \/ ss = Idle
          \/ ss = [rr EXCEPT !.pc = "next", !.dir = directory,
                            !.left = Providers]
      BY <2>3 DEF ReadDirectory, IInv, TypeOK
    <3> QED
      BY <1>0, <2>1, <3>1 DEF RunState
  <2>4. CASE FinishProvider(q) \/ FinishRun(q) \/ Crash(q)
    <3>1. ss \in {NextProvider(rr), Idle}
      BY <2>4 DEF FinishProvider, FinishRun, Crash, IInv, TypeOK
    <3> QED
      BY <2>1, <3>1
  <2> QED
    BY <1>1, <2>2, <2>3, <2>4
<1>2. ASSUME NEW g \in Groups, ReadGroupForAliases(q, g)
      PROVE  ss.pc = "aliases"
  <2>1. PICK known :
          ss = [rr EXCEPT !.unread = rr.unread \ {g}, !.known = known]
    BY <1>2 DEF ReadGroupForAliases, IInv, TypeOK
  <2>2. rr.pc = "aliases"
    BY <1>2 DEF ReadGroupForAliases
  <2> QED
    BY <1>0, <2>1, <2>2 DEF RunState
<1>3. ASSUME NEW g \in Groups, ReadGroupForDesired(q, g)
      PROVE  ss.pc = "next" \/ (ss.pc = "desired" /\ ss.prov \in Providers)
  <2>1. NextProvider(rr).pc = "next"
    BY <1>0 DEF NextProvider, RunState
  <2>2. \/ ss = NextProvider(rr)
        \/ ss = [rr EXCEPT !.unread = rr.unread \ {g},
                          !.desired = rr.desired \cup members[g]]
    BY <1>3 DEF ReadGroupForDesired, Abandon, IInv, TypeOK
  <2>3. rr.pc = "desired" /\ rr.prov \in Providers
    BY <1>3 DEF ReadGroupForDesired, IInv, PassInv
  <2>4. CASE ss = NextProvider(rr)
    BY <2>1, <2>4
  <2>5. CASE ss = [rr EXCEPT !.unread = rr.unread \ {g},
                             !.desired = rr.desired \cup members[g]]
    BY <1>0, <2>3, <2>5 DEF RunState
  <2> QED
    BY <2>2, <2>4, <2>5
<1>4. ASSUME NEW p \in Providers, ListSeats(q, p)
      PROVE  ss.pc = "next" \/ (ss.pc = "desired" /\ ss.prov \in Providers)
  <2> DEFINE rest == [rr EXCEPT !.left = @ \ {p}]
  <2>1. rest \in RunState /\ rest.pc = "next"
    BY <1>0, <1>4 DEF ListSeats, RunState
  <2>2. \/ ss = NextProvider(rest)
        \/ ss = [rest EXCEPT !.pc = "desired", !.prov = p,
                             !.listed = seats[p], !.unread = GroupsFor[p]]
    BY <1>4 DEF ListSeats, Abandon, IInv, TypeOK
  <2>3. CASE ss = NextProvider(rest)
    BY <2>1, <2>3 DEF NextProvider, RunState
  <2>4. CASE ss = [rest EXCEPT !.pc = "desired", !.prov = p,
                               !.listed = seats[p], !.unread = GroupsFor[p]]
    <3> HIDE DEF rest
    <3> QED
      BY <2>1, <2>4 DEF RunState
  <2> QED
    BY <2>2, <2>3, <2>4
<1> QED
  BY <1>1, <1>2, <1>3, <1>4 DEF PassInv

\* Together with the type invariant the invariant is inductive.
LEMMA StepInv == SafeSetting /\ IInv /\ [Next]_vars => IInv'
<1> SUFFICES ASSUME SafeSetting, IInv, [Next]_vars PROVE IInv'
  OBVIOUS
<1>1. TypeOK'
  <2>1. UNCHANGED vars => TypeOK'
    BY DEF IInv, TypeOK, vars
  <2> QED
    BY <2>1, WorldType, PassType DEF IInv, Next
<1>2. CASE UNCHANGED vars
  BY <1>1, <1>2 DEF IInv, vars, PassInv, Removable, MayExpire, ExceptionsOf,
                    Identity, IndexOf
<1>3. CASE World \/ Tick
  BY <1>1, <1>3, WorldInv DEF IInv
<1>4. ASSUME NEW q \in Runners, Pass(q) \/ Crash(q) PROVE IInv'
  <2>1. PassInv(q)'
    BY <1>4, DecideInv, ApplyInv, ExpireInv, ReadingInv DEF Pass
  <2>2. \A r \in Runners \ {q} : PassInv(r)'
    BY <1>4, OthersInv
  <2> QED
    BY <1>1, <2>1, <2>2 DEF IInv
<1> QED
  BY <1>2, <1>3, <1>4 DEF Next

\* A removal call touches the seat it names and no other.
LEMMA RemoveOnlyIt ==
  ASSUME TypeOK, NEW p0, NEW s0, RemoveUser(p0, s0),
         NEW p \in Providers, NEW s \in Raw, seats'[p][s] # seats[p][s]
  PROVE  p = p0 /\ s = s0
<1>1. \/ seats' = seats
      \/ seats' = [seats EXCEPT ![p0][s0] =
                    IF p0 \in Deactivating THEN "suspended" ELSE "none"]
  BY DEF RemoveUser
<1> QED
  BY <1>1 DEF TypeOK

\* A pass takes a seat away in one of two places, and both name a seat of an
\* identity it may remove.
LEMMA TakesSound ==
  ASSUME SafeSetting, IInv, [Next]_vars,
         NEW r \in Runners, NEW p \in Providers, NEW s \in Raw, Takes(r, p, s)
  PROVE  p = run[r].prov /\ Removable(run[r], Identity(run[r], s))
<1>0. TypeOK /\ run[r] \in RunState /\ seats'[p][s] # seats[p][s]
  BY DEF IInv, TypeOK, Takes
<1>1. PICK q \in Runners : Pass(q) \/ Crash(q)
  <2>1. run' # run
    BY DEF Takes
  <2> QED
    BY <2>1, WorldKeepsRuns DEF Next, vars
<1>2. q = r
  BY <1>0, <1>1, OwnPass DEF Takes
<1>3. ASSUME NEW s0 \in Raw, RemoveNow(r, s0)
      PROVE  p = run[r].prov /\ Removable(run[r], Identity(run[r], s))
  <2>1. p = run[r].prov /\ s = s0
    BY <1>0, <1>3, RemoveOnlyIt DEF RemoveNow
  <2> QED
    BY <1>3, <2>1 DEF RemoveNow, IInv, PassInv
<1>4. ASSUME NEW h \in People, Reclaim(r, h)
      PROVE  p = run[r].prov /\ Removable(run[r], Identity(run[r], s))
  <2>1. PICK s0 \in Targets(run[r], h) : RemoveUser(run[r].prov, s0)
    BY <1>4 DEF Reclaim
  <2>2. p = run[r].prov /\ s = s0
    BY <1>0, <2>1, RemoveOnlyIt
  <2>3. Removable(run[r], h)
    BY <1>4 DEF Reclaim, IInv, PassInv
  <2>4. Identity(run[r], s) = h
    BY <1>0, <2>2, <2>3, TargetIdentity DEF Removable
  <2> QED
    BY <2>2, <2>3, <2>4
<1>5. ASSUME NEW h \in People PROVE ~AddSeat(r, h)
  <2>1. ASSUME AddSeat(r, h) PROVE FALSE
    <3>1. \/ seats' = seats
          \/ seats' = [seats EXCEPT ![run[r].prov][h] = "active"]
      BY <2>1 DEF AddSeat, AddUser
    <3>2. seats'[p][s] \in {seats[p][s], "active"}
      <4>1. CASE seats' = seats
        BY <4>1
      <4>2. CASE seats' = [seats EXCEPT ![run[r].prov][h] = "active"]
        <5>1. s = h /\ p = run[r].prov => seats'[p][s] = "active"
          BY <1>0, <4>2 DEF TypeOK
        <5>2. ~(s = h /\ p = run[r].prov) => seats'[p][s] = seats[p][s]
          BY <1>0, <4>2 DEF TypeOK
        <5> QED
          BY <5>1, <5>2
      <4> QED
        BY <3>1, <4>1, <4>2
    <3> QED
      BY <3>2 DEF Takes
  <2> QED
    BY <2>1
<1> QED
  BY <1>0, <1>1, <1>2, <1>3, <1>4, <1>5
     DEF Pass, Crash, StartRun, ReadGroupForAliases, ReadDirectory, ListSeats,
         ReadGroupForDesired, Decide, CancelReturned, QueueRemoval, ReadExpired,
         CloseReclaimed, CloseGone, FinishProvider, FinishRun

-----------------------------------------------------------------------------
(* The theorems.                                                           *)

\* The plan of every pass stays sound: it removes only seats of identities its
\* own reads allow it to remove, and so does every countdown it may find
\* expired (core.Reconcile, cancelReturnedUsers, executeExpiredRemovals).
THEOREM PlansSound ==
  ASSUME SafeSetting
  PROVE  Spec => []IInv
<1>1. Init => IInv
  BY InitInv
<1>2. IInv /\ [Next]_vars => IInv'
  BY StepInv
<1> QED
  BY <1>1, <1>2, PTL DEF Spec

\* Only orphans are removed, for any number of people, seats, groups and
\* providers, any policies, and whatever calls fail except the store's reads
\* and cancellations in cancelReturnedUsers.
THEOREM OnlyOrphansRemoved ==
  ASSUME SafeSetting
  PROVE  Spec => OnlyTheDeparted
<1>1. IInv /\ [Next]_vars =>
        [\A r \in Runners, p \in Providers, s \in Raw : Takes(r, p, s) =>
           /\ Identity(run[r], s) \in Corporate
           /\ run[r].dir[Identity(run[r], s)] # "active"]_vars
  BY TakesSound DEF Removable
<1> QED
  BY <1>1, PlansSound, PTL DEF Spec, OnlyTheDeparted

\* Exceptions are honoured, also by countdowns begun before they were declared,
\* provided the config spells them in lower case.
THEOREM ExceptionsHonoured ==
  ASSUME SafeSetting, LowerCased = People
  PROVE  Spec => ExceptionsKept
<1>1. IInv /\ [Next]_vars =>
        [\A r \in Runners, p \in Providers, s \in Raw : Takes(r, p, s) =>
           Identity(run[r], s) \notin run[r].policy.exceptions[p]]_vars
  <2>1. ASSUME IInv, NEW r \in Runners, NEW p \in Providers
        PROVE  run[r].policy.exceptions[p] \subseteq People
    BY <2>1, ReconcilerAssumption DEF IInv, TypeOK, RunState, Policy
  <2> QED
    BY <2>1, TakesSound DEF Removable, ExceptionsOf
<1> QED
  BY <1>1, PlansSound, PTL DEF Spec, ExceptionsKept
-----------------------------------------------------------------------------
(* Dry runs, in any setting.                                               *)

\* Where a pass changes something, and a pass that never gets there.
Acting == {"apply", "reclaim", "close"}
DryOK(rr) == rr.policy.dry => rr.pc \notin Acting

\* What a step makes of the pass it belongs to: a pass that goes on keeps its
\* policy, only `Decide` lets it act, and only then does it change anything.
LEMMA PassPhase ==
  ASSUME TypeOK, NEW r \in Runners, Pass(r) \/ Crash(r)
  PROVE  /\ run[r].pc # "idle" /\ run'[r].pc # "idle"
              => run'[r].policy = run[r].policy
         /\ DryOK(run[r]) => DryOK(run'[r])
         /\ run[r].pc \notin Acting => UNCHANGED <<seats, pending>>
<1> DEFINE rr == run[r]
           Goes(next) == /\ rr.pc # "idle" /\ next.pc # "idle"
                              => next.policy = rr.policy
                         /\ DryOK(rr) => DryOK(next)
<1>0. rr \in RunState /\ run \in [Runners -> RunState]
  BY DEF TypeOK
<1>1. Goes(Idle) /\ Goes(NextProvider(rr))
  BY <1>0 DEF Idle, NextProvider, DryOK, Acting, RunState
<1>2. CASE StartRun(r)
  <2>1. PICK pol \in Policies :
          run' = [run EXCEPT ![r] = [Idle EXCEPT !.pc = "aliases",
                                                 !.policy = pol,
                                                 !.unread = Groups]]
    BY <1>2 DEF StartRun
  <2>2. run'[r].pc = "aliases" /\ rr.pc = "idle" /\ UNCHANGED <<seats, pending>>
    BY <1>0, <1>2, <2>1 DEF StartRun, Idle
  <2> QED
    BY <2>2 DEF DryOK, Acting
<1>3. CASE ReadDirectory(r)
  <2>1. /\ UNCHANGED <<seats, pending>>
        /\ \/ run'[r] = Idle
           \/ run'[r] = [rr EXCEPT !.pc = "next", !.dir = directory,
                                   !.left = Providers]
    BY <1>0, <1>3 DEF ReadDirectory
  <2>2. Goes([rr EXCEPT !.pc = "next", !.dir = directory, !.left = Providers])
    BY <1>0 DEF DryOK, Acting, RunState
  <2> QED
    BY <1>1, <2>1, <2>2
<1>4. CASE FinishRun(r) \/ Crash(r)
  <2>1. run'[r] = Idle /\ UNCHANGED <<seats, pending>>
    BY <1>0, <1>4 DEF FinishRun, Crash
  <2> QED
    BY <1>1, <2>1
<1>5. CASE Decide(r)
  <2>1. UNCHANGED <<seats, pending>>
    BY <1>5 DEF Decide
  <2>2. CASE rr.policy.dry
    BY <1>0, <1>1, <1>5, <2>1, <2>2 DEF Decide
  <2>3. CASE ~rr.policy.dry
    <3> DEFINE Planned(ok) ==
                 [rr EXCEPT
                    !.pc = "apply",
                    !.cancels = IF rr.policy.grace > 0 /\ ok
                                THEN GetPendingRemovals(rr.prov) \ Orphaned(rr)
                                ELSE {},
                    !.adds = IF rr.prov \in Adders THEN AddsOf(rr) ELSE {},
                    !.removes = IF rr.prov \in Removers THEN RemovesOf(rr)
                                ELSE {}]
    <3>1. PICK ok \in Outcome("readPending") :
            run' = [run EXCEPT ![r] = Planned(ok)]
      BY <1>5, <2>3 DEF Decide
    <3>2. Planned(ok).policy = rr.policy
      BY <1>0 DEF RunState
    <3> HIDE DEF Planned
    <3>3. run'[r].policy = rr.policy
      BY <1>0, <3>1, <3>2
    <3> QED
      BY <2>1, <2>3, <3>3 DEF DryOK
  <2> QED
    BY <2>2, <2>3
<1>6. CASE ReadExpired(r)
  <2>1. /\ UNCHANGED <<seats, pending>>
        /\ rr.pc = "apply" /\ run'[r].policy = rr.policy
    BY <1>0, <1>6 DEF ReadExpired, ActionsDone, RunState
  <2> QED
    BY <2>1 DEF DryOK, Acting
<1>7. CASE FinishProvider(r)
  <2>1. run'[r] = NextProvider(rr) /\ UNCHANGED <<seats, pending>>
    BY <1>0, <1>7 DEF FinishProvider
  <2> QED
    BY <1>1, <2>1
<1>8. ASSUME NEW g \in Groups,
             ReadGroupForAliases(r, g) \/ ReadGroupForDesired(r, g)
      PROVE  Goes(run'[r]) /\ UNCHANGED <<seats, pending>>
  <2>1. CASE ReadGroupForAliases(r, g)
    <3>1. run'[r].policy = rr.policy /\ run'[r].pc = "aliases"
      BY <1>0, <2>1 DEF ReadGroupForAliases, RunState
    <3> QED
      BY <2>1, <3>1 DEF ReadGroupForAliases, DryOK, Acting
  <2>2. CASE ReadGroupForDesired(r, g)
    <3>1. \/ run'[r] = NextProvider(rr)
          \/ run'[r].policy = rr.policy /\ run'[r].pc = "desired"
      BY <1>0, <2>2 DEF ReadGroupForDesired, Abandon, RunState
    <3> QED
      BY <1>1, <2>2, <3>1 DEF ReadGroupForDesired, DryOK, Acting
  <2> QED
    BY <1>8, <2>1, <2>2
<1>9. ASSUME NEW p \in Providers, ListSeats(r, p)
      PROVE  Goes(run'[r]) /\ UNCHANGED <<seats, pending>>
  <2>1. run'[r].policy = rr.policy /\ run'[r].pc \in {"next", "desired"}
    BY <1>0, <1>9 DEF ListSeats, Abandon, NextProvider, RunState
  <2> QED
    BY <1>9, <2>1 DEF ListSeats, DryOK, Acting
<1>10. ASSUME NEW h \in People,
              \/ CancelReturned(r, h) \/ AddSeat(r, h) \/ Reclaim(r, h)
              \/ CloseReclaimed(r, h) \/ CloseGone(r, h)
       PROVE  rr.pc \in Acting /\ run'[r].policy = rr.policy
  <2>1. rr.pc \in Acting
    BY <1>10 DEF CancelReturned, AddSeat, Reclaim, CloseReclaimed, CloseGone,
       Acting
  <2>2. CASE CancelReturned(r, h) \/ AddSeat(r, h)
    BY <1>0, <2>1, <2>2 DEF CancelReturned, AddSeat, RunState
  <2>3. CASE Reclaim(r, h) \/ CloseReclaimed(r, h) \/ CloseGone(r, h)
    BY <1>0, <2>1, <2>3 DEF Reclaim, CloseReclaimed, CloseGone, RunState
  <2> QED
    BY <1>10, <2>2, <2>3
<1>11. ASSUME NEW s \in Raw, QueueRemoval(r, s) \/ RemoveNow(r, s)
       PROVE  rr.pc \in Acting /\ run'[r].policy = rr.policy
  <2>1. rr.pc \in Acting
    BY <1>11 DEF QueueRemoval, RemoveNow, Acting
  <2> QED
    BY <1>0, <1>11, <2>1 DEF QueueRemoval, RemoveNow, RunState
<1>12. rr.pc \in Acting /\ run'[r].policy = rr.policy => Goes(run'[r])
  BY DEF DryOK
<1> QED
  BY <1>2, <1>3, <1>4, <1>5, <1>6, <1>7, <1>8, <1>9, <1>10, <1>11, <1>12
     DEF Pass

\* A dry run changes neither a provider nor the countdowns, whatever fails,
\* whatever expired and whoever else is at work (reconcileProvider's return).
THEOREM DryRunsHarmless == Spec => DryRunHarmless
<1> DEFINE DryInv == \A r \in Runners : DryOK(run[r])
           Harmless == \A r \in Runners :
             run[r].pc # "idle" /\ run[r].policy.dry /\ run'[r] # run[r]
               => UNCHANGED <<seats, pending>>
<1>1. Init => DryInv
  BY DEF Init, Idle, DryOK, Acting
<1>2. ASSUME TypeOK, DryInv, [Next]_vars
      PROVE  DryInv' /\ [Harmless]_vars
  <2>1. CASE UNCHANGED run
    BY <1>2, <2>1
  <2>2. ASSUME NEW r \in Runners, Pass(r) \/ Crash(r)
        PROVE  DryInv' /\ Harmless
    <3>1. \A q \in Runners \ {r} : run'[q] = run[q]
      BY <1>2, <2>2, OwnPass
    <3>2. DryOK(run'[r])
      BY <1>2, <2>2, PassPhase
    <3>3. run[r].policy.dry => UNCHANGED <<seats, pending>>
      BY <1>2, <2>2, PassPhase DEF DryOK
    <3> QED
      BY <1>2, <3>1, <3>2, <3>3
  <2> QED
    BY <1>2, <2>1, <2>2, WorldKeepsRuns DEF Next, vars
<1> QED
  BY <1>1, <1>2, TypeCorrect, PTL DEF Spec, DryRunHarmless
-----------------------------------------------------------------------------
(* The steps of a pass, by what they do to its record.                     *)

\* What a pass has read for the provider at hand stays as it was read.
SameWork(a, b) ==
  /\ a.known = b.known /\ a.dir = b.dir /\ a.desired = b.desired
  /\ a.policy = b.policy /\ a.prov = b.prov /\ a.listed = b.listed

LEMMA SameWorkSame ==
  ASSUME NEW a, NEW b, SameWork(a, b)
  PROVE  /\ Orphaned(a) = Orphaned(b) /\ RemovesOf(a) = RemovesOf(b)
         /\ \A s : Identity(a, s) = Identity(b, s)
         /\ \A h : Targets(a, h) = Targets(b, h)
<1>1. /\ IndexOf(a) = IndexOf(b) /\ ExceptionsOf(a) = ExceptionsOf(b)
      /\ RemovesOf(a) = RemovesOf(b)
  BY DEF SameWork, IndexOf, ExceptionsOf, RemovesOf
<1>2. \A s : Identity(a, s) = Identity(b, s)
  BY <1>1 DEF Identity
<1>3. Orphaned(a) = Orphaned(b)
  BY <1>1, <1>2 DEF Orphaned
<1>4. \A h : Targets(a, h) = Targets(b, h)
  BY DEF SameWork, Targets
<1> QED
  BY <1>1, <1>2, <1>3, <1>4

\* The steps that make a pass, up to its plan and after its last removal.
Reads(r) ==
  \/ StartRun(r) \/ ReadDirectory(r) \/ FinishProvider(r) \/ FinishRun(r)
  \/ \E g \in Groups : ReadGroupForAliases(r, g) \/ ReadGroupForDesired(r, g)
  \/ \E p \in Providers : ListSeats(r, p)

LEMMA ReadsStep ==
  ASSUME TypeOK, NEW r \in Runners, Reads(r) \/ Crash(r)
  PROVE  /\ UNCHANGED <<seats, pending, age>>
         /\ run'[r].pc \notin Acting
         /\ run'[r].cancels \in {{}, run[r].cancels}
         /\ run'[r].pc = "desired" =>
              \/ run[r].pc = "desired" /\ SameWork(run'[r], [run[r] EXCEPT
                                            !.desired = run'[r].desired])
              \/ run'[r].prov \in Providers /\ run'[r].listed = seats[run'[r].prov]
         /\ Crash(r) \/ run[r].pc \notin {"apply", "close"}
              \/ run[r].cancels = {}
<1> DEFINE rr == run[r]
           ss == run'[r]
           Goal == /\ UNCHANGED <<seats, pending, age>>
                   /\ ss.pc \notin Acting
                   /\ ss.cancels \in {{}, rr.cancels}
                   /\ ss.pc = "desired" =>
                        \/ /\ rr.pc = "desired"
                           /\ SameWork(ss, [rr EXCEPT !.desired = ss.desired])
                        \/ ss.prov \in Providers /\ ss.listed = seats[ss.prov]
                   /\ Crash(r) \/ rr.pc \notin {"apply", "close"}
                        \/ rr.cancels = {}
<1>0. rr \in RunState /\ run \in [Runners -> RunState]
  BY DEF TypeOK
<1>1. /\ Idle.pc = "idle" /\ Idle.cancels = {}
      /\ NextProvider(rr).pc = "next" /\ NextProvider(rr).cancels = {}
  BY <1>0 DEF Idle, NextProvider, RunState
<1>2. CASE FinishRun(r) \/ Crash(r)
  <2>1. ss = Idle /\ UNCHANGED <<seats, pending, age>>
    BY <1>0, <1>2 DEF FinishRun, Crash
  <2> QED
    BY <1>1, <1>2, <2>1 DEF FinishRun, Acting
<1>3. CASE StartRun(r)
  <2>1. PICK pol \in Policies :
          ss = [Idle EXCEPT !.pc = "aliases", !.policy = pol, !.unread = Groups]
    BY <1>0, <1>3 DEF StartRun
  <2>2. ss.pc = "aliases" /\ ss.cancels = {}
    BY <1>1, <2>1, IdleType DEF RunState
  <2> QED
    BY <1>3, <2>2 DEF StartRun, Acting
<1>4. CASE ReadDirectory(r)
  <2>1. \/ ss = Idle
        \/ ss = [rr EXCEPT !.pc = "next", !.dir = directory,
                           !.left = Providers]
    BY <1>0, <1>4 DEF ReadDirectory
  <2>2. ss.pc \in {"idle", "next"} /\ ss.cancels \in {{}, rr.cancels}
    BY <1>0, <1>1, <2>1 DEF RunState
  <2> QED
    BY <1>4, <2>2 DEF ReadDirectory, Acting
<1>5. CASE FinishProvider(r)
  <2>1. ss = NextProvider(rr) /\ UNCHANGED <<seats, pending, age>>
    BY <1>0, <1>5 DEF FinishProvider
  <2>2. rr.pc \notin {"apply", "close"} \/ rr.cancels = {}
    BY <1>5 DEF FinishProvider, ActionsDone
  <2> QED
    BY <1>1, <2>1, <2>2 DEF Acting
<1>6. ASSUME NEW g \in Groups, ReadGroupForAliases(r, g) PROVE Goal
  <2>1. rr.pc = "aliases" /\ ss.pc = "aliases" /\ ss.cancels = rr.cancels
    BY <1>0, <1>6 DEF ReadGroupForAliases, RunState
  <2> QED
    BY <1>6, <2>1 DEF ReadGroupForAliases, Acting
<1>7. ASSUME NEW g \in Groups, ReadGroupForDesired(r, g) PROVE Goal
  <2>1. rr.pc = "desired" /\ UNCHANGED <<seats, pending, age>>
    BY <1>7 DEF ReadGroupForDesired
  <2>2. \/ ss = NextProvider(rr)
        \/ ss = [rr EXCEPT !.unread = rr.unread \ {g},
                           !.desired = rr.desired \cup members[g]]
    BY <1>0, <1>7 DEF ReadGroupForDesired, Abandon
  <2>3. CASE ss = NextProvider(rr)
    BY <1>1, <2>1, <2>3 DEF Acting
  <2>4. CASE ss = [rr EXCEPT !.unread = rr.unread \ {g},
                             !.desired = rr.desired \cup members[g]]
    <3>1. /\ ss.pc = "desired" /\ ss.cancels = rr.cancels
          /\ SameWork(ss, [rr EXCEPT !.desired = ss.desired])
      BY <1>0, <2>1, <2>4 DEF RunState, SameWork
    <3> QED
      BY <2>1, <3>1 DEF Acting
  <2> QED
    BY <2>2, <2>3, <2>4
<1>8. ASSUME NEW p \in Providers, ListSeats(r, p) PROVE Goal
  <2>1. rr.pc = "next" /\ UNCHANGED <<seats, pending, age>>
    BY <1>8 DEF ListSeats
  <2> DEFINE rest == [rr EXCEPT !.left = rr.left \ {p}]
  <2>2. rest \in RunState /\ rest.pc = "next" /\ rest.cancels = rr.cancels
    BY <1>0, <2>1 DEF RunState
  <2>3. \/ ss = NextProvider(rest)
        \/ ss = [rest EXCEPT !.pc = "desired", !.prov = p,
                             !.listed = seats[p], !.unread = GroupsFor[p]]
    BY <1>0, <1>8 DEF ListSeats, Abandon
  <2> HIDE DEF rest
  <2>4. \/ ss.pc = "next" /\ ss.cancels = {}
        \/ /\ ss.pc = "desired" /\ ss.cancels = rr.cancels
           /\ ss.prov = p /\ ss.listed = seats[p]
    BY <2>2, <2>3 DEF NextProvider, RunState
  <2> QED
    BY <2>1, <2>4 DEF Acting
<1> QED
  BY <1>2, <1>3, <1>4, <1>5, <1>6, <1>7, <1>8 DEF Reads

\* The plan is made, or the dry pass goes on to the next provider.
LEMMA DecideStep ==
  ASSUME TypeOK, NEW r \in Runners, Decide(r)
  PROVE  /\ run[r].pc = "desired" /\ UNCHANGED <<seats, pending>>
         /\ \/ run'[r] = NextProvider(run[r]) /\ age' = age
            \/ /\ run'[r].pc = "apply" /\ SameWork(run'[r], run[r])
               /\ run'[r].removes \subseteq RemovesOf(run[r])
               /\ run'[r].adds # {} => run[r].prov \in Adders
               /\ run'[r].cancels
                     \in {{}, GetPendingRemovals(run[r].prov)
                                \ Orphaned(run[r])}
               /\ run[r].policy.grace > 0 /\ "readPending" \notin Faults
                     => run'[r].cancels = GetPendingRemovals(run[r].prov)
                                            \ Orphaned(run[r])
               /\ run'[r].cancels # {} => run[r].policy.grace > 0
               /\ age' = [age EXCEPT ![run[r].prov] =
                    [h \in People |->
                       IF run[r].policy.grace > 0 /\ h \notin Orphaned(run[r])
                       THEN Off ELSE age[run[r].prov][h]]]
<1> DEFINE rr == run[r]
           ss == run'[r]
           Planning(ok) ==
             [rr EXCEPT
                !.pc = "apply",
                !.cancels = IF rr.policy.grace > 0 /\ ok
                            THEN GetPendingRemovals(rr.prov) \ Orphaned(rr)
                            ELSE {},
                !.adds = IF rr.prov \in Adders THEN AddsOf(rr) ELSE {},
                !.removes = IF rr.prov \in Removers THEN RemovesOf(rr)
                            ELSE {}]
<1>0. rr \in RunState /\ run \in [Runners -> RunState]
  BY DEF TypeOK
<1>1. rr.pc = "desired" /\ UNCHANGED <<seats, pending>>
  BY DEF Decide
<1>2. CASE rr.policy.dry
  BY <1>0, <1>1, <1>2 DEF Decide
<1>3. CASE ~rr.policy.dry
  <2>1. PICK ok \in Outcome("readPending") :
          run' = [run EXCEPT ![r] = Planning(ok)]
    BY <1>3 DEF Decide
  <2>2. ok \in BOOLEAN /\ ("readPending" \notin Faults => ok = TRUE)
    BY <2>1 DEF Outcome
  <2>3. /\ Planning(ok).pc = "apply" /\ SameWork(Planning(ok), rr)
        /\ Planning(ok).cancels = IF rr.policy.grace > 0 /\ ok
                            THEN GetPendingRemovals(rr.prov) \ Orphaned(rr)
                            ELSE {}
        /\ Planning(ok).adds = IF rr.prov \in Adders THEN AddsOf(rr) ELSE {}
        /\ Planning(ok).removes = IF rr.prov \in Removers THEN RemovesOf(rr)
                                  ELSE {}
    BY <1>0 DEF RunState, SameWork
  <2> HIDE DEF Planning
  <2>4. ss = Planning(ok)
    BY <1>0, <2>1
  <2>5. age' = [age EXCEPT ![rr.prov] =
                 [h \in People |->
                    IF rr.policy.grace > 0 /\ h \notin Orphaned(rr)
                    THEN Off ELSE age[rr.prov][h]]]
    BY <1>3 DEF Decide
  <2> QED
    BY <1>1, <2>2, <2>3, <2>4, <2>5
<1> QED
  BY <1>2, <1>3

\* The steps that act on a plan.
LEMMA WorkStep ==
  ASSUME TypeOK, NEW r \in Runners
  PROVE  /\ \A h \in People :
              CancelReturned(r, h) =>
                /\ SameWork(run'[r], run[r]) /\ h \in run[r].cancels
                /\ run[r].pc = "apply" /\ run'[r].pc = "apply"
                /\ run'[r].cancels = run[r].cancels \ {h}
                /\ run'[r].adds = run[r].adds
                /\ run'[r].removes = run[r].removes
         /\ \A h \in People :
              AddSeat(r, h) =>
                /\ SameWork(run'[r], run[r]) /\ h \in run[r].adds
                /\ run[r].pc = "apply" /\ run'[r].pc = "apply"
                /\ run'[r].cancels = run[r].cancels
                /\ run'[r].adds \subseteq run[r].adds
                /\ run'[r].removes = run[r].removes
         /\ \A s \in Raw :
              QueueRemoval(r, s) \/ RemoveNow(r, s) =>
                /\ SameWork(run'[r], run[r]) /\ s \in run[r].removes
                /\ run[r].pc = "apply" /\ run'[r].pc = "apply"
                /\ run[r].cancels = {} /\ run'[r].cancels = {}
                /\ run'[r].adds = run[r].adds
                /\ run'[r].removes \subseteq run[r].removes
         /\ ReadExpired(r) =>
                /\ SameWork(run'[r], run[r]) /\ run[r].policy.grace > 0
                /\ run[r].pc = "apply" /\ run'[r].pc = "reclaim"
                /\ run[r].cancels = {} /\ run'[r].cancels = {}
                /\ run'[r].expired \subseteq GetExpiredRemovals(run[r].prov)
         /\ \A h \in People :
              Reclaim(r, h) =>
                /\ SameWork(run'[r], run[r]) /\ h \in run[r].expired
                /\ run[r].pc = "reclaim" /\ run'[r].pc = "close"
                /\ run'[r].cancels = {h}
                /\ run'[r].expired = run[r].expired \ {h}
         /\ \A h \in People :
              CloseReclaimed(r, h) =>
                /\ SameWork(run'[r], run[r]) /\ h \in run[r].cancels
                /\ run[r].pc = "close" /\ run'[r].pc = "reclaim"
                /\ run'[r].cancels = {}
                /\ run'[r].expired = run[r].expired
         /\ \A h \in People :
              CloseGone(r, h) =>
                /\ SameWork(run'[r], run[r]) /\ h \in run[r].expired
                /\ run[r].pc = "reclaim" /\ run'[r].pc = "reclaim"
                /\ run'[r].cancels = run[r].cancels
                /\ run'[r].expired = run[r].expired \ {h}
<1>0. run[r] \in RunState /\ run \in [Runners -> RunState]
  BY DEF TypeOK
<1>1. ASSUME NEW h \in People, CancelReturned(r, h)
      PROVE  /\ SameWork(run'[r], run[r]) /\ h \in run[r].cancels
             /\ run[r].pc = "apply" /\ run'[r].pc = "apply"
             /\ run'[r].cancels = run[r].cancels \ {h}
             /\ run'[r].adds = run[r].adds
             /\ run'[r].removes = run[r].removes
  BY <1>0, <1>1 DEF CancelReturned, RunState, SameWork
<1>2. ASSUME NEW h \in People, AddSeat(r, h)
      PROVE  /\ SameWork(run'[r], run[r]) /\ h \in run[r].adds
             /\ run[r].pc = "apply" /\ run'[r].pc = "apply"
             /\ run'[r].cancels = run[r].cancels
             /\ run'[r].adds \subseteq run[r].adds
             /\ run'[r].removes = run[r].removes
  BY <1>0, <1>2 DEF AddSeat, RunState, SameWork
<1>3. ASSUME NEW s \in Raw, QueueRemoval(r, s) \/ RemoveNow(r, s)
      PROVE  /\ SameWork(run'[r], run[r]) /\ s \in run[r].removes
             /\ run[r].pc = "apply" /\ run'[r].pc = "apply"
             /\ run[r].cancels = {} /\ run'[r].cancels = {}
             /\ run'[r].adds = run[r].adds
             /\ run'[r].removes \subseteq run[r].removes
  <2>1. /\ run'[r] = [run[r] EXCEPT !.removes = run[r].removes \ {s}]
        /\ run[r].pc = "apply" /\ run[r].cancels = {} /\ s \in run[r].removes
    BY <1>0, <1>3 DEF QueueRemoval, RemoveNow
  <2> QED
    BY <1>0, <2>1 DEF RunState, SameWork
<1>4. ASSUME ReadExpired(r)
      PROVE  /\ SameWork(run'[r], run[r]) /\ run[r].policy.grace > 0
             /\ run[r].pc = "apply" /\ run'[r].pc = "reclaim"
             /\ run[r].cancels = {} /\ run'[r].cancels = {}
             /\ run'[r].expired \subseteq GetExpiredRemovals(run[r].prov)
  <2>1. \/ run'[r] = [run[r] EXCEPT !.pc = "reclaim", !.expired = {}]
        \/ run'[r] = [run[r] EXCEPT !.pc = "reclaim",
                               !.expired = GetExpiredRemovals(run[r].prov)]
    BY <1>0, <1>4 DEF ReadExpired
  <2>2. /\ run[r].pc = "apply" /\ run[r].cancels = {}
        /\ run[r].policy.grace > 0
    BY <1>4 DEF ReadExpired, ActionsDone, Expires
  <2>3. ASSUME NEW late,
               run'[r] = [run[r] EXCEPT !.pc = "reclaim", !.expired = late]
        PROVE  /\ SameWork(run'[r], run[r])
               /\ run'[r].pc = "reclaim" /\ run'[r].expired = late
               /\ run'[r].cancels = run[r].cancels
    <3>1. /\ run'[r].pc = "reclaim" /\ run'[r].expired = late
          /\ run'[r].cancels = run[r].cancels
      BY <1>0, <2>3 DEF RunState
    <3>2. SameWork(run'[r], run[r])
      BY <1>0, <2>3 DEF RunState, SameWork
    <3> QED
      BY <3>1, <3>2
  <2> QED
    BY <2>1, <2>2, <2>3
<1>5. ASSUME NEW h \in People, Reclaim(r, h)
      PROVE  /\ SameWork(run'[r], run[r]) /\ h \in run[r].expired
             /\ run[r].pc = "reclaim" /\ run'[r].pc = "close"
             /\ run'[r].cancels = {h}
             /\ run'[r].expired = run[r].expired \ {h}
  BY <1>0, <1>5 DEF Reclaim, RunState, SameWork
<1>6. ASSUME NEW h \in People, CloseReclaimed(r, h)
      PROVE  /\ SameWork(run'[r], run[r]) /\ h \in run[r].cancels
             /\ run[r].pc = "close" /\ run'[r].pc = "reclaim"
             /\ run'[r].cancels = {}
             /\ run'[r].expired = run[r].expired
  BY <1>0, <1>6 DEF CloseReclaimed, RunState, SameWork
<1>7. ASSUME NEW h \in People, CloseGone(r, h)
      PROVE  /\ SameWork(run'[r], run[r]) /\ h \in run[r].expired
             /\ run[r].pc = "reclaim" /\ run'[r].pc = "reclaim"
             /\ run'[r].cancels = run[r].cancels
             /\ run'[r].expired = run[r].expired \ {h}
  BY <1>0, <1>7 DEF CloseGone, RunState, SameWork
<1> QED
  BY <1>1, <1>2, <1>3, <1>4, <1>5, <1>6, <1>7
-----------------------------------------------------------------------------
(* Everybody who stays in a mapped group is known to the alias index.      *)

\* Those whom no reading of the groups misses: when no group fails to answer
\* for the index, whoever stays in one of them.
Stays(h, g) == h \in Members0[g] /\ <<h, g>> \notin Moves
Residents ==
  {h \in People : "aliasGroup" \notin Faults /\ \E g \in Groups : Stays(h, g)}

KnownPass(rr) ==
  rr.pc # "idle" =>
    \A h \in Residents :
      \/ h \in rr.known
      \/ /\ rr.pc = "aliases"
         /\ \A g \in Groups : Stays(h, g) => g \in rr.unread

KnownInv ==
  /\ TypeOK
  /\ \A h \in People, g \in Groups : Stays(h, g) => h \in members[g]
  /\ \A r \in Runners : KnownPass(run[r])

\* What the reading steps know of the people.
LEMMA ReadsKnown ==
  ASSUME TypeOK, NEW r \in Runners, Reads(r) \/ Crash(r)
  PROVE  \/ run'[r].pc = "idle"
         \/ run'[r].pc = "aliases" /\ run'[r].unread = Groups
         \/ \E g \in Groups :
              /\ run[r].pc = "aliases" /\ run'[r].pc = "aliases"
              /\ run'[r].unread = run[r].unread \ {g}
              /\ \/ run'[r].known = run[r].known \cup members[g]
                 \/ run'[r].known = run[r].known /\ "aliasGroup" \in Faults
         \/ /\ run[r].pc = "aliases" => run[r].unread = {}
            /\ run[r].pc # "idle" /\ run'[r].known = run[r].known
<1> DEFINE rr == run[r]
           ss == run'[r]
<1>0. rr \in RunState /\ run \in [Runners -> RunState]
  BY DEF TypeOK
<1>1. Idle.pc = "idle" /\ NextProvider(rr).known = rr.known
  BY <1>0 DEF Idle, NextProvider, RunState
<1>2. CASE FinishRun(r) \/ Crash(r)
  BY <1>0, <1>1, <1>2 DEF FinishRun, Crash
<1>3. CASE StartRun(r)
  <2>1. PICK pol \in Policies :
          ss = [Idle EXCEPT !.pc = "aliases", !.policy = pol, !.unread = Groups]
    BY <1>0, <1>3 DEF StartRun
  <2> QED
    BY <2>1, IdleType DEF RunState
<1>4. CASE ReadDirectory(r)
  <2>1. /\ rr.pc = "aliases" /\ rr.unread = {}
        /\ \/ ss = Idle
           \/ ss = [rr EXCEPT !.pc = "next", !.dir = directory,
                              !.left = Providers]
    BY <1>0, <1>4 DEF ReadDirectory
  <2>2. [rr EXCEPT !.pc = "next", !.dir = directory, !.left = Providers].known
          = rr.known
    BY <1>0 DEF RunState
  <2> QED
    BY <1>1, <2>1, <2>2
<1>5. CASE FinishProvider(r)
  <2>1. rr.pc \in {"apply", "reclaim"} /\ ss = NextProvider(rr)
    BY <1>0, <1>5 DEF FinishProvider, ActionsDone
  <2> QED
    BY <1>1, <2>1
<1>6. ASSUME NEW g \in Groups, ReadGroupForAliases(r, g)
      PROVE  /\ rr.pc = "aliases" /\ ss.pc = "aliases"
             /\ ss.unread = rr.unread \ {g}
             /\ \/ ss.known = rr.known \cup members[g]
                \/ ss.known = rr.known /\ "aliasGroup" \in Faults
  <2>1. PICK ok \in Outcome("aliasGroup") :
          run' = [run EXCEPT ![r].unread = @ \ {g},
                             ![r].known = IF ok THEN @ \cup members[g] ELSE @]
    BY <1>6 DEF ReadGroupForAliases
  <2>2. PICK known \in {rr.known, rr.known \cup members[g]} :
          /\ ss = [rr EXCEPT !.unread = rr.unread \ {g}, !.known = known]
          /\ known = rr.known \cup members[g] \/ ~ok
    BY <1>0, <2>1
  <2>3. ~ok => "aliasGroup" \in Faults
    BY <2>1 DEF Outcome
  <2>4. rr.pc = "aliases"
    BY <1>6 DEF ReadGroupForAliases
  <2> QED
    BY <1>0, <2>2, <2>3, <2>4 DEF RunState
<1>7. ASSUME NEW g \in Groups, ReadGroupForDesired(r, g)
      PROVE  ss.known = rr.known /\ rr.pc = "desired"
  <2>1. \/ ss = NextProvider(rr)
        \/ ss = [rr EXCEPT !.unread = rr.unread \ {g},
                           !.desired = rr.desired \cup members[g]]
    BY <1>0, <1>7 DEF ReadGroupForDesired, Abandon
  <2>2. [rr EXCEPT !.unread = rr.unread \ {g},
                   !.desired = rr.desired \cup members[g]].known = rr.known
    BY <1>0 DEF RunState
  <2> QED
    BY <1>1, <1>7, <2>1, <2>2 DEF ReadGroupForDesired
<1>8. ASSUME NEW p \in Providers, ListSeats(r, p)
      PROVE  ss.known = rr.known /\ rr.pc = "next"
  <2> DEFINE rest == [rr EXCEPT !.left = @ \ {p}]
  <2>1. rest \in RunState /\ rest.known = rr.known
    BY <1>0 DEF RunState
  <2>2. \/ ss = NextProvider(rest)
        \/ ss = [rest EXCEPT !.pc = "desired", !.prov = p,
                             !.listed = seats[p], !.unread = GroupsFor[p]]
    BY <1>0, <1>8 DEF ListSeats, Abandon
  <2> HIDE DEF rest
  <2>3. ss.known = rest.known
    BY <2>1, <2>2 DEF NextProvider, RunState
  <2> QED
    BY <1>8, <2>1, <2>3 DEF ListSeats
<1> QED
  BY <1>2, <1>3, <1>4, <1>5, <1>6, <1>7, <1>8 DEF Reads

\* A pass that acts works with the index it has read.
LEMMA WorkKnown ==
  ASSUME TypeOK, NEW r \in Runners, Pass(r), ~Reads(r)
  PROVE  run[r].pc \in Acting \cup {"desired"} /\ run'[r].known = run[r].known
<1>1. CASE Decide(r)
  <2>1. NextProvider(run[r]).known = run[r].known
    BY DEF TypeOK, NextProvider, RunState
  <2> QED
    BY <1>1, <2>1, DecideStep DEF SameWork
<1>2. CASE \/ ReadExpired(r)
           \/ \E h \in People : CancelReturned(r, h) \/ AddSeat(r, h)
           \/ \E s \in Raw : QueueRemoval(r, s) \/ RemoveNow(r, s)
  BY <1>2, WorkStep DEF SameWork, Acting
<1>3. CASE \E h \in People : \/ Reclaim(r, h) \/ CloseReclaimed(r, h)
                             \/ CloseGone(r, h)
  BY <1>3, WorkStep DEF SameWork, Acting
<1> QED
  BY <1>1, <1>2, <1>3 DEF Pass, Reads

LEMMA KnownOwn ==
  ASSUME KnownInv, NEW r \in Runners, Pass(r) \/ Crash(r)
  PROVE  KnownPass(run'[r])
<1>0. TypeOK /\ KnownPass(run[r])
  BY DEF KnownInv
<1>1. CASE Reads(r) \/ Crash(r)
  <2>1. ASSUME NEW h \in Residents, run'[r].pc # "idle"
        PROVE  \/ h \in run'[r].known
               \/ /\ run'[r].pc = "aliases"
                  /\ \A g \in Groups : Stays(h, g) => g \in run'[r].unread
    <3>1. CASE run'[r].pc = "aliases" /\ run'[r].unread = Groups
      BY <3>1
    <3>2. ASSUME NEW g \in Groups,
                 run[r].pc = "aliases", run'[r].pc = "aliases",
                 run'[r].unread = run[r].unread \ {g},
                 \/ run'[r].known = run[r].known \cup members[g]
                 \/ run'[r].known = run[r].known /\ "aliasGroup" \in Faults
          PROVE  \/ h \in run'[r].known
                 \/ \A x \in Groups : Stays(h, x) => x \in run'[r].unread
      <4>1. h \in People /\ "aliasGroup" \notin Faults
        BY DEF Residents
      <4>2. run'[r].known = run[r].known \cup members[g]
        BY <3>2, <4>1
      <4>3. CASE Stays(h, g)
        BY <4>1, <4>2, <4>3 DEF KnownInv
      <4>4. CASE ~Stays(h, g)
        BY <1>0, <3>2, <4>2, <4>4 DEF KnownPass
      <4> QED
        BY <4>3, <4>4
    <3>3. CASE /\ run[r].pc = "aliases" => run[r].unread = {}
               /\ run[r].pc # "idle" /\ run'[r].known = run[r].known
      <4>1. \E g \in Groups : Stays(h, g)
        BY DEF Residents
      <4> QED
        BY <1>0, <3>3, <4>1 DEF KnownPass
    <3> QED
      BY <1>0, <1>1, <2>1, <3>1, <3>2, <3>3, ReadsKnown
  <2> QED
    BY <2>1 DEF KnownPass
<1>2. CASE Pass(r) /\ ~Reads(r)
  BY <1>0, <1>2, WorkKnown DEF KnownPass, Acting
<1> QED
  BY <1>1, <1>2

LEMMA KnownStep == KnownInv /\ [Next]_vars => KnownInv'
<1> SUFFICES ASSUME KnownInv, [Next]_vars PROVE KnownInv'
  OBVIOUS
<1>1. CASE UNCHANGED vars
  <2>1. TypeOK'
    BY <1>1 DEF KnownInv, TypeOK, vars
  <2> QED
    BY <1>1, <2>1 DEF KnownInv, vars
<1>2. CASE World \/ Tick
  <2>1. TypeOK' /\ run' = run
    BY <1>2, WorldType, WorldKeepsRuns DEF KnownInv
  <2>2. ASSUME NEW h \in People, NEW g \in Groups, Stays(h, g)
        PROVE  h \in members'[g]
    <3>1. h \in members[g]
      BY <2>2 DEF KnownInv
    <3>2. ASSUME NEW m \in Moves, ChangeMembership(m[1], m[2])
          PROVE  h \in members'[g]
      <4>1. PICK x \in People, y \in Groups : m = <<x, y>>
        BY ReconcilerAssumption
      <4>2. ~(x = h /\ y = g)
        BY <2>2, <4>1 DEF Stays
      <4>3. members' = [members EXCEPT ![y] = IF x \in @ THEN @ \ {x}
                                              ELSE @ \cup {x}]
        BY <3>2, <4>1 DEF ChangeMembership
      <4> QED
        BY <3>1, <4>2, <4>3 DEF KnownInv, TypeOK
    <3>3. (\E m \in Moves : ChangeMembership(m[1], m[2])) \/ members' = members
      BY <1>2 DEF World, Tick, ChangeStatus, ChangeSeat
    <3> QED
      BY <3>1, <3>2, <3>3
  <2> QED
    BY <2>1, <2>2 DEF KnownInv
<1>3. ASSUME NEW q \in Runners, Pass(q) \/ Crash(q) PROVE KnownInv'
  <2>1. TypeOK'
    BY <1>3, PassType DEF KnownInv
  <2>2. members' = members
    BY <1>3 DEF Pass, Crash, StartRun, ReadGroupForAliases, ReadDirectory,
                ListSeats, ReadGroupForDesired, Decide, CancelReturned, AddSeat,
                QueueRemoval, RemoveNow, ReadExpired, Reclaim, CloseReclaimed,
                CloseGone, FinishProvider, FinishRun
  <2>3. ASSUME NEW r \in Runners PROVE KnownPass(run'[r])
    BY <1>3, KnownOwn, OwnPass DEF KnownInv
  <2> QED
    BY <2>1, <2>2, <2>3 DEF KnownInv
<1> QED
  BY <1>1, <1>2, <1>3 DEF Next

LEMMA KnownInit == Init => KnownInv
<1> SUFFICES ASSUME Init PROVE KnownInv
  OBVIOUS
<1>1. TypeOK /\ \A r \in Runners : run[r].pc = "idle"
  BY InitInv DEF IInv, Init, Idle
<1> QED
  BY <1>1 DEF KnownInv, KnownPass, Init, Stays

\* Whoever stays in a group that is mapped is known to every pass that has read
\* the directory (Reconciler.Run builds the index of all groups first).
THEOREM IndexKnowsResidents == Spec => []KnownInv
BY KnownInit, KnownStep, PTL DEF Spec

\* So a pass that takes a seat knows them.
LEMMA TakerKnows ==
  ASSUME KnownInv, [Next]_vars,
         NEW r \in Runners, NEW p \in Providers, NEW s \in Raw, Takes(r, p, s)
  PROVE  Residents \subseteq run[r].known
<1>1. TypeOK /\ seats' # seats /\ run'[r] # run[r]
  BY DEF KnownInv, Takes
<1>2. PICK q \in Runners : Pass(q) \/ Crash(q)
  BY <1>1, WorldKeepsRuns DEF Next, vars
<1>3. q = r
  BY <1>1, <1>2, OwnPass
<1>4. run[r].pc \in Acting
  BY <1>1, <1>2, <1>3, PassPhase
<1> QED
  BY <1>4 DEF KnownInv, KnownPass, Acting
-----------------------------------------------------------------------------
(* Attribution never costs an employee a seat.                             *)

\* How the company names people: an explicit alias and an address are used by
\* the person they stand for, and so is a login that differs from an explicit
\* alias by its separators only.  A login that is somebody's local part is used
\* by them, unless somebody else who stays in a mapped group goes by it too.
NamesTell ==
  /\ \A a \in DOMAIN Explicit : Holder[a] = Explicit[a]
  /\ \A h \in Corporate \ DOMAIN Explicit : Holder[h] = h
  /\ \A l \in Logins \ DOMAIN Explicit :
       /\ Squash[l] \in DOMAIN Explicit => Holder[l] = Explicit[Squash[l]]
       /\ \A h \in Corporate, k \in {l, Squash[l]} :
            k \in Keys(h) =>
              Holder[l] = h \/ \E n \in Residents \ {h} : k \in Keys(n)

\* Then a seat attributed to an employee is used by that employee.
LEMMA IdentityTells ==
  ASSUME NamesTell, NEW rr \in RunState, Residents \subseteq rr.known,
         NEW s \in Raw, Identity(rr, s) \in Corporate
  PROVE  Holder[s] = Identity(rr, s)
<1> DEFINE index == BuildAliasIndex(rr.known)
           id == Identity(rr, s)
<1>0. rr.known \in SUBSET People /\ index \in [Raw -> People \cup {NoOne}]
  BY ResolveInRaw DEF RunState
<1>1. ASSUME NEW k \in Raw, k \notin DOMAIN Explicit, index[k] # NoOne
      PROVE  /\ index[k] \in People /\ k \in Keys(index[k])
             /\ \A n \in Residents \ {index[k]} : k \notin Keys(n)
  <2>1. /\ \E h \in rr.known : Claimants(k, rr.known) = {h}
        /\ index[k] = CHOOSE h \in rr.known : Claimants(k, rr.known) = {h}
    BY <1>1 DEF BuildAliasIndex
  <2>2. index[k] \in rr.known /\ Claimants(k, rr.known) = {index[k]}
    BY <2>1
  <2> QED
    BY <1>0, <2>2 DEF Claimants
<1>2. ASSUME NEW k \in DOMAIN Explicit PROVE index[k] = Explicit[k]
  BY EngineAssumption DEF BuildAliasIndex
<1>3. \A h \in People : Keys(h) \subseteq Logins
  BY EngineAssumption DEF Keys
<1>4. id = IF index[s] # NoOne THEN index[s]
           ELSE IF index[Squashed(s)] # NoOne THEN index[Squashed(s)] ELSE s
  BY DEF Identity, IndexOf, Resolve
<1> HIDE DEF index, id
<1>5. CASE s \in DOMAIN Explicit
  <2>1. index[s] = Explicit[s] /\ Explicit[s] # NoOne
    BY <1>2, <1>5, EngineAssumption DEF Raw
  <2> QED
    BY <1>4, <1>5, <2>1 DEF NamesTell, id
<1>6. CASE s \notin DOMAIN Explicit /\ index[s] # NoOne
  <2>1. /\ id = index[s] /\ s \in Keys(id) /\ id \in People
        /\ \A n \in Residents \ {id} : s \notin Keys(n)
    BY <1>1, <1>4, <1>6
  <2>2. s \in Logins /\ id \in Corporate
    BY <1>3, <2>1 DEF id
  <2> QED
    BY <1>6, <2>1, <2>2 DEF NamesTell, id
<1>7. CASE s \notin DOMAIN Explicit /\ index[s] = NoOne
  <2> DEFINE k == Squashed(s)
  <2>1. CASE index[k] # NoOne
    <3>1. s \in Logins /\ k = Squash[s] /\ k \in Raw
      BY <1>7, <2>1, EngineAssumption DEF Squashed, Raw
    <3>2. id = index[k] /\ id \in Corporate
      BY <1>4, <1>7, <2>1 DEF id
    <3>3. CASE k \in DOMAIN Explicit
      BY <1>2, <1>7, <3>1, <3>2, <3>3 DEF NamesTell, id
    <3>4. CASE k \notin DOMAIN Explicit
      <4>1. k \in Keys(id) /\ \A n \in Residents \ {id} : k \notin Keys(n)
        BY <1>1, <2>1, <3>1, <3>2, <3>4
      <4> HIDE DEF k
      <4> QED
        BY <1>7, <3>1, <3>2, <4>1 DEF NamesTell, id
    <3> QED
      BY <3>3, <3>4
  <2>2. CASE index[k] = NoOne
    <3>1. id = s /\ id \in Corporate
      BY <1>4, <1>7, <2>2 DEF id
    <3> QED
      BY <1>7, <3>1 DEF NamesTell, id
  <2> QED
    BY <2>1, <2>2
<1> QED
  BY <1>5, <1>6, <1>7

\* Nobody whom the pass has read as active loses a seat they use, provided the
\* names tell who uses what (BuildAliasIndex, executeActions).
THEOREM EmployeesKeepSeats ==
  ASSUME SafeSetting, NamesTell
  PROVE  Spec => EmployeesKept
<1>1. ASSUME IInv, KnownInv, [Next]_vars, NEW r \in Runners,
             NEW p \in Providers, NEW s \in Raw, Takes(r, p, s)
      PROVE  run[r].dir[Holder[s]] # "active"
  <2>1. Removable(run[r], Identity(run[r], s)) /\ run[r] \in RunState
    BY <1>1, TakesSound DEF IInv, TypeOK
  <2>2. Holder[s] = Identity(run[r], s)
    BY <1>1, <2>1, IdentityTells, TakerKnows DEF Removable
  <2> QED
    BY <2>1, <2>2 DEF Removable
<1>2. IInv /\ KnownInv /\ [Next]_vars =>
        [\A r \in Runners, p \in Providers, s \in Raw : Takes(r, p, s) =>
           run[r].dir[Holder[s]] # "active"]_vars
  BY <1>1
<1> QED
  BY <1>2, PlansSound, IndexKnowsResidents, PTL DEF Spec, EmployeesKept
-----------------------------------------------------------------------------
(* Who is at risk, in any setting: whatever calls fail, whichever process  *)
(* stops, however many run, and wherever a tick falls.                     *)

\* Those who may leave and whom a policy in use, other than a dry one, does not
\* except.
AtRisk(p) ==
  {h \in Leavers : \E pol \in Policies :
     ~pol.dry /\ h \notin pol.exceptions[p] \cap LowerCased}

\* Whoever is not among them is read as active, and a pass neither plans nor
\* finds expired the removal of anybody else.
RiskPass(rr) ==
  /\ rr.pc \notin {"idle", "aliases"} =>
       \A h \in Corporate \ Leavers : rr.dir[h] = "active"
  /\ rr.pc \in Acting \cup {"desired"} => rr.prov \in Providers
  /\ rr.pc = "apply" => \A s \in rr.removes : Identity(rr, s) \in AtRisk(rr.prov)
  /\ rr.pc \in {"reclaim", "close"} => rr.expired \subseteq AtRisk(rr.prov)

RiskRow(p, h) == pending[p][h] # Off => h \in AtRisk(p)

RiskInv ==
  /\ TypeOK
  /\ \A h \in Corporate \ Leavers : directory[h] = "active"
  /\ \A p \in Providers, h \in People : RiskRow(p, h)
  /\ \A r \in Runners : RiskPass(run[r])

\* What a pass reads of the directory it reads as it is.
LEMMA ReadsDirectory ==
  ASSUME TypeOK, NEW r \in Runners, Reads(r) \/ Crash(r)
  PROVE  \/ run'[r].pc \in {"idle", "aliases"}
         \/ run'[r].dir = directory
         \/ run'[r].dir = run[r].dir /\ run[r].pc \notin {"idle", "aliases"}
<1> DEFINE rr == run[r]
           ss == run'[r]
<1>0. rr \in RunState /\ run \in [Runners -> RunState]
  BY DEF TypeOK
<1>1. Idle.pc = "idle" /\ NextProvider(rr).dir = rr.dir
  BY <1>0 DEF Idle, NextProvider, RunState
<1>2. CASE FinishRun(r) \/ Crash(r)
  BY <1>0, <1>1, <1>2 DEF FinishRun, Crash
<1>3. CASE StartRun(r)
  <2>1. PICK pol \in Policies :
          ss = [Idle EXCEPT !.pc = "aliases", !.policy = pol, !.unread = Groups]
    BY <1>0, <1>3 DEF StartRun
  <2> QED
    BY <2>1, IdleType DEF RunState
<1>4. CASE ReadDirectory(r)
  <2>1. \/ ss = Idle
        \/ ss = [rr EXCEPT !.pc = "next", !.dir = directory, !.left = Providers]
    BY <1>0, <1>4 DEF ReadDirectory
  <2>2. [rr EXCEPT !.pc = "next", !.dir = directory, !.left = Providers].dir
          = directory
    BY <1>0 DEF RunState
  <2> QED
    BY <1>1, <2>1, <2>2
<1>5. CASE FinishProvider(r)
  BY <1>0, <1>1, <1>5 DEF FinishProvider, ActionsDone
<1>6. ASSUME NEW g \in Groups, ReadGroupForAliases(r, g)
      PROVE  ss.pc = "aliases"
  <2>1. PICK known :
          ss = [rr EXCEPT !.unread = rr.unread \ {g}, !.known = known]
    BY <1>0, <1>6 DEF ReadGroupForAliases
  <2>2. rr.pc = "aliases"
    BY <1>6 DEF ReadGroupForAliases
  <2> QED
    BY <1>0, <2>1, <2>2 DEF RunState
<1>7. ASSUME NEW g \in Groups, ReadGroupForDesired(r, g)
      PROVE  ss.dir = rr.dir /\ rr.pc = "desired"
  <2>1. \/ ss = NextProvider(rr)
        \/ ss = [rr EXCEPT !.unread = rr.unread \ {g},
                           !.desired = rr.desired \cup members[g]]
    BY <1>0, <1>7 DEF ReadGroupForDesired, Abandon
  <2>2. [rr EXCEPT !.unread = rr.unread \ {g},
                   !.desired = rr.desired \cup members[g]].dir = rr.dir
    BY <1>0 DEF RunState
  <2> QED
    BY <1>1, <1>7, <2>1, <2>2 DEF ReadGroupForDesired
<1>8. ASSUME NEW p \in Providers, ListSeats(r, p)
      PROVE  ss.dir = rr.dir /\ rr.pc = "next"
  <2> DEFINE rest == [rr EXCEPT !.left = @ \ {p}]
  <2>1. rest \in RunState /\ rest.dir = rr.dir
    BY <1>0 DEF RunState
  <2>2. \/ ss = NextProvider(rest)
        \/ ss = [rest EXCEPT !.pc = "desired", !.prov = p,
                             !.listed = seats[p], !.unread = GroupsFor[p]]
    BY <1>0, <1>8 DEF ListSeats, Abandon
  <2> HIDE DEF rest
  <2>3. ss.dir = rest.dir
    BY <2>1, <2>2 DEF NextProvider, RunState
  <2> QED
    BY <1>8, <2>1, <2>3 DEF ListSeats
<1> QED
  BY <1>2, <1>3, <1>4, <1>5, <1>6, <1>7, <1>8 DEF Reads

\* The identities a live pass plans to remove are at risk.
LEMMA PlanAtRisk ==
  ASSUME RiskInv, NEW r \in Runners, run[r].pc = "desired",
         ~run[r].policy.dry, NEW s \in RemovesOf(run[r])
  PROVE  Identity(run[r], s) \in AtRisk(run[r].prov)
<1>1. run[r] \in RunState /\ RiskPass(run[r])
  BY DEF RiskInv, TypeOK
<1>2. Removable(run[r], Identity(run[r], s))
  BY <1>1, PlanSound
<1>3. Identity(run[r], s) \in Leavers
  BY <1>1, <1>2 DEF Removable, RiskPass
<1>4. run[r].policy \in Policies
  BY <1>1 DEF RunState
<1> QED
  BY <1>2, <1>3, <1>4 DEF AtRisk, Removable, ExceptionsOf

\* The pass that makes a step stays within the risk ...
LEMMA RiskOwn ==
  ASSUME RiskInv, NEW r \in Runners, Pass(r) \/ Crash(r)
  PROVE  RiskPass(run'[r])
<1> DEFINE rr == run[r]
           ss == run'[r]
<1>0. TypeOK /\ rr \in RunState /\ RiskPass(rr)
  BY DEF RiskInv, TypeOK
<1>1. CASE Reads(r) \/ Crash(r)
  <2>1. ss.pc \notin Acting
    BY <1>0, <1>1, ReadsStep
  <2>2. ss.pc \notin {"idle", "aliases"} =>
          \A h \in Corporate \ Leavers : ss.dir[h] = "active"
    BY <1>0, <1>1, ReadsDirectory DEF RiskInv, RiskPass
  <2>3. ss.pc = "desired" => ss.prov \in Providers
    <3>1. [rr EXCEPT !.desired = ss.desired].prov = rr.prov
      BY <1>0 DEF RunState
    <3>2. ss.pc = "desired" =>
            \/ rr.pc = "desired" /\ SameWork(ss, [rr EXCEPT !.desired = ss.desired])
            \/ ss.prov \in Providers
      BY <1>0, <1>1, ReadsStep
    <3> QED
      BY <1>0, <3>1, <3>2 DEF SameWork, RiskPass
  <2> QED
    BY <2>1, <2>2, <2>3 DEF RiskPass, Acting
<1>2. CASE Decide(r)
  <2>1. CASE ss = NextProvider(rr)
    <3>1. NextProvider(rr).pc = "next" /\ NextProvider(rr).dir = rr.dir
      BY <1>0 DEF NextProvider, RunState
    <3>2. rr.pc = "desired"
      BY <1>2 DEF Decide
    <3> QED
      BY <1>0, <2>1, <3>1, <3>2 DEF RiskPass, Acting
  <2>2. CASE ss # NextProvider(rr)
    <3>1. /\ rr.pc = "desired" /\ ss.pc = "apply" /\ SameWork(ss, rr)
          /\ ss.removes \subseteq RemovesOf(rr)
      BY <1>0, <1>2, <2>2, DecideStep
    <3>2. ~rr.policy.dry
      BY <1>0, <1>2, <3>1, PassPhase DEF Pass, DryOK, Acting, SameWork
    <3>3. \A s \in ss.removes : Identity(ss, s) \in AtRisk(ss.prov)
      BY <3>1, <3>2, PlanAtRisk, SameWorkSame DEF SameWork
    <3> QED
      BY <1>0, <3>1, <3>3 DEF RiskPass, SameWork, Acting
  <2> QED
    BY <2>1, <2>2
<1>3. ASSUME SameWork(ss, rr), rr.pc = "apply", ss.pc = "apply",
             ss.removes \subseteq rr.removes
      PROVE  RiskPass(ss)
  <2>1. \A s \in ss.removes : Identity(ss, s) \in AtRisk(ss.prov)
    BY <1>0, <1>3, SameWorkSame DEF RiskPass, SameWork
  <2> QED
    BY <1>0, <1>3, <2>1 DEF RiskPass, SameWork, Acting
<1>4. ASSUME SameWork(ss, rr), rr.pc \in {"reclaim", "close"},
             ss.pc \in {"reclaim", "close"}, ss.expired \subseteq rr.expired
      PROVE  RiskPass(ss)
  BY <1>0, <1>4 DEF RiskPass, SameWork, Acting
<1>5. CASE \/ \E h \in People : CancelReturned(r, h) \/ AddSeat(r, h)
           \/ \E s \in Raw : QueueRemoval(r, s) \/ RemoveNow(r, s)
  BY <1>0, <1>3, <1>5, WorkStep
<1>6. CASE \E h \in People : \/ Reclaim(r, h) \/ CloseReclaimed(r, h)
                             \/ CloseGone(r, h)
  BY <1>0, <1>4, <1>6, WorkStep
<1>7. CASE ReadExpired(r)
  <2>1. /\ SameWork(ss, rr) /\ rr.pc = "apply" /\ ss.pc = "reclaim"
        /\ ss.expired \subseteq GetExpiredRemovals(rr.prov)
    BY <1>0, <1>7, WorkStep
  <2>2. rr.prov \in Providers
    BY <1>0, <2>1 DEF RiskPass, Acting
  <2>3. GetExpiredRemovals(rr.prov) \subseteq AtRisk(rr.prov)
    BY <2>2 DEF GetExpiredRemovals, RiskInv, RiskRow, Off
  <2> QED
    BY <1>0, <2>1, <2>2, <2>3 DEF RiskPass, SameWork, Acting
<1> QED
  BY <1>1, <1>2, <1>5, <1>6, <1>7 DEF Pass, Reads

\* ... and so does everything else.
LEMMA RiskStep == RiskInv /\ [Next]_vars => RiskInv'
<1> SUFFICES ASSUME RiskInv, [Next]_vars PROVE RiskInv'
  OBVIOUS
<1>1. CASE UNCHANGED vars
  <2>1. TypeOK'
    BY <1>1 DEF RiskInv, TypeOK, vars
  <2> QED
    BY <1>1, <2>1 DEF RiskInv, RiskRow, vars
<1>2. CASE World \/ Tick
  <2>1. TypeOK' /\ run' = run
    BY <1>2, WorldType, WorldKeepsRuns DEF RiskInv
  <2>2. \A h \in Corporate \ Leavers : directory'[h] = "active"
    <3>1. ASSUME NEW x \in Leavers, ChangeStatus(x),
                 NEW h \in Corporate \ Leavers
          PROVE  directory'[h] = directory[h]
      BY <3>1, EngineAssumption DEF ChangeStatus, RiskInv, TypeOK
    <3>2. (\E x \in Leavers : ChangeStatus(x)) \/ directory' = directory
      BY <1>2 DEF World, Tick, ChangeMembership, ChangeSeat
    <3> QED
      BY <3>1, <3>2 DEF RiskInv
  <2>3. \A p \in Providers, h \in People : RiskRow(p, h)'
    <3>1. CASE pending' = pending
      BY <3>1 DEF RiskInv, RiskRow
    <3>2. CASE Tick
      <4>1. ASSUME NEW p \in Providers, NEW h \in People
            PROVE  pending'[p][h] = Sooner(pending[p][h])
        BY <3>2 DEF Tick
      <4> QED
        BY <4>1 DEF RiskInv, RiskRow, Sooner, Off
    <3> QED
      BY <1>2, <3>1, <3>2 DEF World, ChangeStatus, ChangeMembership, ChangeSeat
  <2> QED
    BY <2>1, <2>2, <2>3 DEF RiskInv
<1>3. ASSUME NEW q \in Runners, Pass(q) \/ Crash(q) PROVE RiskInv'
  <2>1. TypeOK'
    BY <1>3, PassType DEF RiskInv
  <2>2. directory' = directory
    BY <1>3 DEF Pass, Crash, StartRun, ReadGroupForAliases, ReadDirectory,
                ListSeats, ReadGroupForDesired, Decide, CancelReturned, AddSeat,
                QueueRemoval, RemoveNow, ReadExpired, Reclaim, CloseReclaimed,
                CloseGone, FinishProvider, FinishRun
  <2>3. ASSUME NEW p \in Providers, NEW h \in People PROVE RiskRow(p, h)'
    <3>1. RiskPass(run[q]) /\ RiskRow(p, h)
      BY DEF RiskInv
    <3>2. CASE /\ run[q].pc = "apply" /\ p = run[q].prov
               /\ \E s \in run[q].removes : h = Identity(run[q], s)
      BY <3>1, <3>2 DEF RiskPass, RiskRow
    <3>3. CASE pending'[p][h] \in {pending[p][h], Off}
      BY <3>1, <3>3 DEF RiskRow
    <3> QED
      BY <1>3, <3>2, <3>3, PassKeepsCountdowns DEF RiskInv
  <2>4. ASSUME NEW r \in Runners PROVE RiskPass(run'[r])
    BY <1>3, RiskOwn, OwnPass DEF RiskInv
  <2> QED
    BY <2>1, <2>2, <2>3, <2>4 DEF RiskInv
<1> QED
  BY <1>1, <1>2, <1>3 DEF Next

\* The seat chosen for an expired identity is its address, or resolves to it.
LEMMA TargetNames ==
  ASSUME NEW rr \in RunState, NEW h \in People, NEW s \in Targets(rr, h)
  PROVE  s \in Raw /\ h \in {s, Identity(rr, s)}
<1>0. s \in Raw
  BY DEF Targets, Present, Raw
<1>1. CASE s \in DOMAIN Explicit /\ Explicit[s] = h
  <2>1. BuildAliasIndex(rr.known)[s] = h /\ h # NoOne
    BY <1>0, <1>1, EngineAssumption DEF BuildAliasIndex, Raw
  <2> QED
    BY <1>0, <2>1 DEF Identity, IndexOf, Resolve
<1> QED
  BY <1>0, <1>1 DEF Targets

\* A pass takes seats only of the provider at hand, and only of those at risk.
LEMMA TakesAtRisk ==
  ASSUME RiskInv, [Next]_vars,
         NEW r \in Runners, NEW p \in Providers, NEW s \in Raw, Takes(r, p, s)
  PROVE  p = run[r].prov /\ AtRisk(p) \cap {s, Identity(run[r], s)} # {}
<1>0. TypeOK /\ run[r] \in RunState /\ seats'[p][s] # seats[p][s]
  BY DEF RiskInv, TypeOK, Takes
<1>1. PICK q \in Runners : Pass(q) \/ Crash(q)
  <2>1. run' # run
    BY DEF Takes
  <2> QED
    BY <2>1, WorldKeepsRuns DEF Next, vars
<1>2. q = r
  BY <1>0, <1>1, OwnPass DEF Takes
<1>3. ASSUME NEW s0 \in Raw, RemoveNow(r, s0)
      PROVE  p = run[r].prov /\ AtRisk(p) \cap {s, Identity(run[r], s)} # {}
  <2>1. p = run[r].prov /\ s = s0
    BY <1>0, <1>3, RemoveOnlyIt DEF RemoveNow
  <2>2. Identity(run[r], s) \in AtRisk(p)
    BY <1>3, <2>1 DEF RemoveNow, RiskInv, RiskPass
  <2> QED
    BY <2>1, <2>2
<1>4. ASSUME NEW h \in People, Reclaim(r, h)
      PROVE  p = run[r].prov /\ AtRisk(p) \cap {s, Identity(run[r], s)} # {}
  <2>1. PICK s0 \in Targets(run[r], h) : RemoveUser(run[r].prov, s0)
    BY <1>4 DEF Reclaim
  <2>2. p = run[r].prov /\ s = s0
    BY <1>0, <2>1, RemoveOnlyIt
  <2>3. h \in AtRisk(p)
    BY <1>4, <2>2 DEF Reclaim, RiskInv, RiskPass
  <2>4. h \in {s, Identity(run[r], s)}
    BY <1>0, <2>1, <2>2, TargetNames
  <2> QED
    BY <2>2, <2>3, <2>4
<1>5. ASSUME NEW h \in People, AddSeat(r, h) PROVE FALSE
  <2>1. \/ seats' = seats
        \/ seats' = [seats EXCEPT ![run[r].prov][h] = "active"]
    BY <1>5 DEF AddSeat, AddUser
  <2>2. seats'[p][s] \in {seats[p][s], "active"}
    <3>1. CASE seats' = seats
      BY <3>1
    <3>2. CASE seats' = [seats EXCEPT ![run[r].prov][h] = "active"]
      <4>1. s = h /\ p = run[r].prov => seats'[p][s] = "active"
        BY <1>0, <3>2 DEF TypeOK
      <4>2. ~(s = h /\ p = run[r].prov) => seats'[p][s] = seats[p][s]
        BY <1>0, <3>2 DEF TypeOK
      <4> QED
        BY <4>1, <4>2
    <3> QED
      BY <2>1, <3>1, <3>2
  <2> QED
    BY <2>2 DEF Takes
<1> QED
  BY <1>0, <1>1, <1>2, <1>3, <1>4, <1>5
     DEF Pass, Crash, StartRun, ReadGroupForAliases, ReadDirectory, ListSeats,
         ReadGroupForDesired, Decide, CancelReturned, QueueRemoval, ReadExpired,
         CloseReclaimed, CloseGone, FinishProvider, FinishRun

LEMMA RiskInit == Init => RiskInv
<1> SUFFICES ASSUME Init PROVE RiskInv
  OBVIOUS
<1>1. TypeOK /\ \A r \in Runners : run[r].pc = "idle"
  BY InitInv DEF IInv, Init, Idle
<1>2. \A h \in Corporate \ Leavers : directory[h] = "active"
  BY EngineAssumption DEF Init
<1>3. \A p \in Providers, h \in People : RiskRow(p, h)
  BY DEF Init, RiskRow
<1> QED
  BY <1>1, <1>2, <1>3 DEF RiskInv, RiskPass, Acting

\* Whatever fails and whoever runs beside it: every countdown that runs, and
\* everything a pass is about to remove, is of somebody who may leave and whom
\* some policy in use lets go (core.Reconcile, executeActions,
\* executeExpiredRemovals).
THEOREM CountdownsOfThoseAtRisk == Spec => []RiskInv
BY RiskInit, RiskStep, PTL DEF Spec

\* Somebody who never leaves, or whom every live policy excepts, in lower case,
\* loses no seat that goes by their address or is attributed to them.
OnlyThoseAtRisk ==
  [][\A r \in Runners, p \in Providers, s \in Raw :
       Takes(r, p, s) => AtRisk(p) \cap {s, Identity(run[r], s)} # {}]_vars

\* A stale countdown may cost somebody a seat who has come back
\* (cancelReturnedUsers skips its work when the store fails), but never anybody
\* who was not at risk: in any setting.
THEOREM TakesOnlyFromThoseAtRisk == Spec => OnlyThoseAtRisk
<1>1. RiskInv /\ [Next]_vars =>
        [\A r \in Runners, p \in Providers, s \in Raw :
           Takes(r, p, s) => AtRisk(p) \cap {s, Identity(run[r], s)} # {}]_vars
  BY TakesAtRisk
<1> QED
  BY <1>1, CountdownsOfThoseAtRisk, PTL DEF Spec, OnlyThoseAtRisk

\* The same of whoever really uses the seat.
UsersAtRisk ==
  [][\A r \in Runners, p \in Providers, s \in Raw :
       Takes(r, p, s) => Holder[s] \in AtRisk(p)]_vars

\* An employee who never leaves keeps every seat they use, in any setting,
\* provided that names tell who uses what and that no corporate address is the
\* alias of another (BuildAliasIndex, executeExpiredRemovals).
THEOREM WhoeverStaysKeepsSeats ==
  ASSUME NamesTell, DOMAIN Explicit \cap Corporate = {}
  PROVE  Spec => UsersAtRisk
<1>1. ASSUME RiskInv, KnownInv, [Next]_vars, NEW r \in Runners,
             NEW p \in Providers, NEW s \in Raw, Takes(r, p, s)
      PROVE  Holder[s] \in AtRisk(p)
  <2>1. run[r] \in RunState /\ AtRisk(p) \subseteq Corporate
    BY <1>1, ReconcilerAssumption DEF RiskInv, TypeOK, AtRisk
  <2>2. CASE Identity(run[r], s) \in AtRisk(p)
    BY <1>1, <2>1, <2>2, IdentityTells, TakerKnows
  <2>3. CASE s \in AtRisk(p)
    BY <2>1, <2>3 DEF NamesTell
  <2> QED
    BY <1>1, <2>2, <2>3, TakesAtRisk
<1>2. RiskInv /\ KnownInv /\ [Next]_vars =>
        [\A r \in Runners, p \in Providers, s \in Raw :
           Takes(r, p, s) => Holder[s] \in AtRisk(p)]_vars
  BY <1>1
<1> QED
  BY <1>2, CountdownsOfThoseAtRisk, IndexKnowsResidents, PTL DEF Spec, UsersAtRisk
-----------------------------------------------------------------------------
(* A countdown is closed as "the seat is gone" only when it is.            *)

\* The seats a provider may ever hold.
Seatable(p) ==
  {s \in Raw : \/ Seats0[p][s] # "none" \/ <<p, s>> \in Grants
               \/ p \in Adders /\ s \in People}

\* Every provider names its seats by address or by an explicit alias.
NamedSeats ==
  \A p \in Providers : Seatable(p) \subseteq People \cup DOMAIN Explicit

Owner(s) == IF s \in DOMAIN Explicit THEN Explicit[s] ELSE s

ListedOK(rr) ==
  /\ rr.pc \in Acting \cup {"desired"} =>
       rr.prov \in Providers /\ Present(rr.listed) \subseteq Seatable(rr.prov)
  /\ rr.pc = "apply" /\ rr.adds # {} => rr.prov \in Adders

ListedInv ==
  /\ TypeOK
  /\ \A p \in Providers : Present(seats[p]) \subseteq Seatable(p)
  /\ \A r \in Runners : ListedOK(run[r])

\* An address or an explicit alias is attributed the same way by every pass.
LEMMA NamedIdentity ==
  ASSUME NEW rr \in RunState, NEW s \in People \cup DOMAIN Explicit
  PROVE  Identity(rr, s) = Owner(s)
<1> DEFINE index == BuildAliasIndex(rr.known)
<1>0. s \in Raw /\ rr.known \in SUBSET People
  BY EngineAssumption DEF RunState, Raw
<1>1. CASE s \in DOMAIN Explicit
  <2>1. index[s] = Explicit[s] /\ Explicit[s] # NoOne
    BY <1>0, <1>1, EngineAssumption DEF BuildAliasIndex, Raw
  <2> QED
    BY <1>1, <2>1 DEF Identity, IndexOf, Resolve, Owner
<1>2. CASE s \in People \ DOMAIN Explicit
  <2>1. s \notin Logins
    BY <1>2, EngineAssumption
  <2>2. \A x \in rr.known : s \notin Keys(x)
    BY <1>0, <2>1, EngineAssumption DEF Keys
  <2>3. ~\E x \in rr.known : Claimants(s, rr.known) = {x}
    BY <2>2 DEF Claimants
  <2>4. index[s] = NoOne /\ Squashed(s) = s
    BY <1>0, <1>2, <2>1, <2>3 DEF BuildAliasIndex, Squashed
  <2> QED
    BY <1>2, <2>4 DEF Identity, IndexOf, Resolve, Owner
<1> QED
  BY <1>1, <1>2

\* An identity with a listed seat has a seat to be removed.
LEMMA TargetsFound ==
  ASSUME NEW rr \in RunState, NEW h, NEW s \in Present(rr.listed),
         s \in People \cup DOMAIN Explicit, Identity(rr, s) = h
  PROVE  Targets(rr, h) # {}
<1>1. Owner(s) = h
  BY NamedIdentity
<1>2. CASE s \in DOMAIN Explicit
  <2>1. s \in {a \in DOMAIN Explicit : /\ Explicit[a] = h
                                       /\ a \in Present(rr.listed)}
    BY <1>1, <1>2 DEF Owner
  <2> QED
    BY <2>1 DEF Targets
<1>3. CASE s \notin DOMAIN Explicit
  BY <1>1, <1>3 DEF Owner, Targets
<1> QED
  BY <1>2, <1>3

\* A seat appears only where one may be.
LEMMA SeatsStay ==
  ASSUME ListedInv, [Next]_vars
  PROVE  \A p \in Providers : Present(seats'[p]) \subseteq Seatable(p)
<1>0. TypeOK
  BY DEF ListedInv
<1>1. ASSUME NEW p0, NEW s0, RemoveUser(p0, s0), NEW p \in Providers, NEW s \in Raw,
             seats'[p][s] # "none"
      PROVE  seats[p][s] # "none"
  <2>1. \/ seats' = seats
        \/ /\ seats[p0][s0] # "none"
           /\ seats' = [seats EXCEPT ![p0][s0] =
                          IF p0 \in Deactivating THEN "suspended" ELSE "none"]
    BY <1>1 DEF RemoveUser
  <2>2. CASE seats' = seats
    BY <1>1, <2>2
  <2>3. CASE /\ seats[p0][s0] # "none"
             /\ seats' = [seats EXCEPT ![p0][s0] =
                            IF p0 \in Deactivating THEN "suspended" ELSE "none"]
    <3>1. CASE p = p0 /\ s = s0
      BY <2>3, <3>1
    <3>2. CASE ~(p = p0 /\ s = s0)
      <4>1. seats'[p][s] = seats[p][s]
        BY <1>0, <2>3, <3>2 DEF TypeOK
      <4> QED
        BY <1>1, <4>1
    <3> QED
      BY <3>1, <3>2
  <2> QED
    BY <2>1, <2>2, <2>3
<1>2. ASSUME NEW r \in Runners, NEW h \in People, AddSeat(r, h),
             NEW p \in Providers, NEW s \in Raw, seats'[p][s] # "none"
      PROVE  seats[p][s] # "none" \/ s \in Seatable(p)
  <2>1. run[r].prov \in Adders
    BY <1>0, <1>2, WorkStep DEF ListedInv, ListedOK
  <2>2. \/ seats' = seats
        \/ seats' = [seats EXCEPT ![run[r].prov][h] = "active"]
    BY <1>2 DEF AddSeat, AddUser
  <2>3. seats'[p][s] = seats[p][s] \/ (p = run[r].prov /\ s = h)
    BY <1>0, <2>2 DEF TypeOK
  <2> QED
    BY <1>2, <2>1, <2>3 DEF Seatable
<1>3. ASSUME NEW g \in Grants, ChangeSeat(g[1], g[2]),
             NEW p \in Providers, NEW s \in Raw, seats'[p][s] # "none"
      PROVE  seats[p][s] # "none" \/ s \in Seatable(p)
  <2>1. g = <<g[1], g[2]>>
    BY ReconcilerAssumption
  <2>2. seats'[p][s] = seats[p][s] \/ (p = g[1] /\ s = g[2])
    BY <1>0, <1>3 DEF ChangeSeat, TypeOK
  <2> QED
    BY <1>3, <2>1, <2>2 DEF Seatable
<1>4. ASSUME NEW p \in Providers, NEW s \in Raw, seats'[p][s] # "none"
      PROVE  seats[p][s] # "none" \/ s \in Seatable(p)
  <2>1. CASE seats' = seats
    BY <1>4, <2>1
  <2>2. ASSUME World \/ Tick, seats' # seats
        PROVE  \E g \in Grants : ChangeSeat(g[1], g[2])
    BY <2>2 DEF World, Tick, ChangeStatus, ChangeMembership
  <2>3. ASSUME NEW r \in Runners, Pass(r) \/ Crash(r), seats' # seats
        PROVE  \/ \E h \in People : AddSeat(r, h)
               \/ \E p0, s0 : RemoveUser(p0, s0)
    <3>1. ASSUME NEW h \in People, Reclaim(r, h) PROVE \E p0, s0 : RemoveUser(p0, s0)
      BY <3>1 DEF Reclaim
    <3>2. ASSUME NEW s0 \in Raw, RemoveNow(r, s0) PROVE \E p0, s1 : RemoveUser(p0, s1)
      BY <3>2 DEF RemoveNow
    <3> QED
      BY <2>3, <3>1, <3>2
         DEF Pass, Crash, StartRun, ReadGroupForAliases, ReadDirectory,
             ListSeats, ReadGroupForDesired, Decide, CancelReturned,
             QueueRemoval, ReadExpired, CloseReclaimed, CloseGone,
             FinishProvider, FinishRun
  <2> QED
    BY <1>1, <1>2, <1>3, <1>4, <2>1, <2>2, <2>3 DEF Next, vars
<1> QED
  BY <1>4 DEF ListedInv, Present

LEMMA ListedStep == ListedInv /\ [Next]_vars => ListedInv'
<1> SUFFICES ASSUME ListedInv, [Next]_vars PROVE ListedInv'
  OBVIOUS
<1>0. TypeOK /\ \A r \in Runners : ListedOK(run[r])
  BY DEF ListedInv
<1>1. TypeOK'
  <2>1. UNCHANGED vars => TypeOK'
    BY <1>0 DEF TypeOK, vars
  <2> QED
    BY <1>0, <2>1, WorldType, PassType DEF Next
<1>2. \A p \in Providers : Present(seats'[p]) \subseteq Seatable(p)
  BY SeatsStay
<1>3. ASSUME NEW r \in Runners, Reads(r) \/ Crash(r) PROVE ListedOK(run'[r])
  <2>1. CASE run'[r].pc = "desired"
    <3>1. CASE run[r].pc = "desired" /\ SameWork(run'[r], [run[r] EXCEPT
                                           !.desired = run'[r].desired])
      <4>1. run'[r].prov = run[r].prov /\ run'[r].listed = run[r].listed
        BY <1>0, <3>1 DEF SameWork, TypeOK, RunState
      <4> QED
        BY <1>0, <2>1, <3>1, <4>1 DEF ListedOK
    <3>2. CASE /\ run'[r].prov \in Providers
               /\ run'[r].listed = seats[run'[r].prov]
      BY <2>1, <3>2 DEF ListedInv, ListedOK
    <3> QED
      BY <1>0, <1>3, <2>1, <3>1, <3>2, ReadsStep
  <2>2. CASE run'[r].pc # "desired"
    BY <1>0, <1>3, <2>2, ReadsStep DEF ListedOK, Acting
  <2> QED
    BY <2>1, <2>2
<1>4. ASSUME NEW r \in Runners, Decide(r) PROVE ListedOK(run'[r])
  <2>1. NextProvider(run[r]).pc = "next"
    BY <1>0 DEF NextProvider, TypeOK, RunState
  <2>2. CASE run'[r] = NextProvider(run[r])
    BY <2>1, <2>2 DEF ListedOK, Acting
  <2>3. CASE run'[r] # NextProvider(run[r])
    <3>1. /\ run[r].pc = "desired" /\ run'[r].pc = "apply"
          /\ SameWork(run'[r], run[r])
          /\ run'[r].adds # {} => run[r].prov \in Adders
      BY <1>0, <1>4, <2>3, DecideStep
    <3> QED
      BY <1>0, <3>1 DEF ListedOK, SameWork
  <2> QED
    BY <2>2, <2>3
<1>5. ASSUME NEW r \in Runners, Pass(r), ~Reads(r), ~Decide(r)
      PROVE  ListedOK(run'[r])
  <2>1. /\ SameWork(run'[r], run[r]) /\ run[r].pc \in Acting
        /\ run'[r].pc = "apply" =>
             run[r].pc = "apply" /\ run'[r].adds \subseteq run[r].adds
    <3>1. ASSUME NEW h \in People, CancelReturned(r, h) \/ AddSeat(r, h)
          PROVE  /\ SameWork(run'[r], run[r]) /\ run[r].pc = "apply"
                 /\ run'[r].adds \subseteq run[r].adds
      BY <1>0, <3>1, WorkStep
    <3>2. ASSUME NEW s \in Raw, QueueRemoval(r, s) \/ RemoveNow(r, s)
          PROVE  /\ SameWork(run'[r], run[r]) /\ run[r].pc = "apply"
                 /\ run'[r].adds \subseteq run[r].adds
      BY <1>0, <3>2, WorkStep
    <3>3. ASSUME ReadExpired(r)
          PROVE  /\ SameWork(run'[r], run[r]) /\ run[r].pc \in Acting
                 /\ run'[r].pc # "apply"
      BY <1>0, <3>3, WorkStep DEF Acting
    <3>4. ASSUME NEW h \in People,
                 Reclaim(r, h) \/ CloseReclaimed(r, h) \/ CloseGone(r, h)
          PROVE  /\ SameWork(run'[r], run[r]) /\ run[r].pc \in Acting
                 /\ run'[r].pc # "apply"
      BY <1>0, <3>4, WorkStep DEF Acting
    <3> QED
      BY <1>5, <3>1, <3>2, <3>3, <3>4 DEF Pass, Reads, Acting
  <2> QED
    BY <1>0, <2>1 DEF ListedOK, SameWork
<1>6. CASE run' = run
  BY <1>0, <1>1, <1>2, <1>6 DEF ListedInv
<1>7. ASSUME NEW q \in Runners, Pass(q) \/ Crash(q) PROVE ListedInv'
  <2>1. ListedOK(run'[q])
    BY <1>3, <1>4, <1>5, <1>7
  <2>2. \A r \in Runners \ {q} : run'[r] = run[r]
    BY <1>0, <1>7, OwnPass
  <2> QED
    BY <1>0, <1>1, <1>2, <2>1, <2>2 DEF ListedInv
<1> QED
  BY <1>6, <1>7, WorldKeepsRuns DEF Next, vars

\* What a pass has listed are seats that may be there (reconcileProvider).
THEOREM ListedCorrect == Spec => []ListedInv
<1>1. Init => ListedInv
  <2> SUFFICES ASSUME Init PROVE ListedInv
    OBVIOUS
  <2>1. TypeOK
    BY InitInv DEF IInv
  <2>2. \A r \in Runners : run[r].pc = "idle"
    BY DEF Init, Idle
  <2> QED
    BY <2>1, <2>2 DEF Init, ListedInv, ListedOK, Acting, Present, Seatable
<1> QED
  BY <1>1, ListedStep, PTL DEF Spec

\* No countdown is closed for want of a seat while the pass sees an active one
\* of that identity, provided seats are named by address or explicit alias
\* (executeExpiredRemovals consults no implicit alias).
THEOREM CountdownsClosedWhenGone ==
  ASSUME NamedSeats
  PROVE  Spec => ClosedMeansGone
<1>1. ASSUME ListedInv, [Next]_vars, NEW r \in Runners, NEW h \in People,
             run[r].pc = "reclaim", run'[r].pc = "reclaim",
             h \in run[r].expired \ run'[r].expired,
             NEW s \in Raw, run[r].listed[s] = "active", Identity(run[r], s) = h
      PROVE  FALSE
  <2>0. TypeOK /\ run[r] \in RunState /\ run[r].prov \in Providers
    BY <1>1 DEF ListedInv, ListedOK, Acting, TypeOK
  <2>1. Pass(r) \/ Crash(r)
    <3>1. run'[r] # run[r]
      BY <1>1
    <3>2. PICK q \in Runners : Pass(q) \/ Crash(q)
      BY <1>1, <3>1, WorldKeepsRuns DEF Next, vars
    <3> QED
      BY <2>0, <3>1, <3>2, OwnPass
  <2>2. CloseGone(r, h)
    <3>1. ~Reads(r) /\ ~Crash(r) /\ ~Decide(r)
      BY <1>1, <2>0, ReadsStep, DecideStep DEF Acting
    <3>2. ASSUME NEW g \in People,
                 \/ CancelReturned(r, g) \/ AddSeat(r, g) \/ Reclaim(r, g)
                 \/ CloseReclaimed(r, g)
          PROVE  FALSE
      BY <1>1, <2>0, <3>2, WorkStep
    <3>3. ASSUME ReadExpired(r) \/ \E t \in Raw : QueueRemoval(r, t) \/ RemoveNow(r, t)
          PROVE  FALSE
      BY <1>1, <2>0, <3>3, WorkStep
    <3>4. PICK g \in People : CloseGone(r, g)
      BY <2>1, <3>1, <3>2, <3>3 DEF Pass, Reads
    <3>5. g = h
      BY <1>1, <2>0, <3>4, WorkStep
    <3> QED
      BY <3>4, <3>5
  <2>3. s \in Present(run[r].listed) /\ s \in People \cup DOMAIN Explicit
    BY <1>1, <2>0 DEF ListedInv, ListedOK, Acting, NamedSeats, Present
  <2>4. Targets(run[r], h) # {}
    BY <1>1, <2>0, <2>3, TargetsFound
  <2> QED
    BY <2>2, <2>4 DEF CloseGone
<1>2. ListedInv /\ [Next]_vars =>
        [\A r \in Runners, h \in People :
           /\ run[r].pc = "reclaim" /\ run'[r].pc = "reclaim"
           /\ h \in run[r].expired \ run'[r].expired
           => \A s \in Raw : run[r].listed[s] = "active"
                               => Identity(run[r], s) # h]_vars
  BY <1>1
<1> QED
  BY <1>2, ListedCorrect, PTL DEF Spec, ClosedMeansGone
-----------------------------------------------------------------------------
(* The whole grace period.                                                 *)

\* One process at a time, its grace period never reconfigured, and a pass that
\* is neither killed nor failed by the store while it cancels and closes rows.
Alone == \A q, r \in Runners : q = r
SameGrace ==
  \A a, b \in Policies : a.grace > 0 /\ b.grace > 0 => a.grace = b.grace
CountSetting ==
  /\ SafeSetting /\ Alone /\ SameGrace
  /\ Faults \cap {"close", "crash"} = {}

\* A pass cancels while it works its plan off, or closes the one row whose seat
\* it has just removed, and what it found expired still is.
CountPass(r) ==
  LET rr == run[r] IN
  /\ rr.pc \notin {"apply", "close"} => rr.cancels = {}
  /\ rr.pc = "close" =>
       \A h \in rr.cancels : rr.cancels = {h} /\ h \notin rr.expired
  /\ rr.pc \in {"reclaim", "close"} =>
       \A h \in rr.expired : pending[rr.prov][h] = 0

\* A row without a history is about to be cancelled; every other has counted
\* its identity down from the whole grace period.
CountRow(p, h) ==
  pending[p][h] # Off =>
    IF age[p][h] = Off
    THEN \E r \in Runners : run[r].prov = p /\ h \in run[r].cancels
    ELSE \A q \in Policies : pending[p][h] + age[p][h] >= q.grace

CountInv ==
  /\ \A r \in Runners : CountPass(r)
  /\ \A p \in Providers, h \in People : CountRow(p, h)

\* The arithmetic of a countdown.
LEMMA CountdownFacts ==
  ASSUME TypeOK, NEW p \in Providers, NEW h \in People
  PROVE  /\ pending[p][h] \in Int /\ age[p][h] \in Int /\ MaxGrace \in Nat
         /\ pending[p][h] # Off => pending[p][h] \in 0 .. MaxGrace
         /\ age[p][h] # Off => age[p][h] \in 0 .. MaxGrace
         /\ \A q \in Policies : q.grace \in 0 .. MaxGrace
<1>1. pending[p][h] \in Countdown /\ age[p][h] \in Countdown
  BY DEF TypeOK
<1>2. \A q \in Policies : q.grace \in 0 .. MaxGrace
  BY ReconcilerAssumption DEF Policy
<1> QED
  BY <1>1, <1>2, ReconcilerAssumption DEF Countdown, Off

\* A row that a step leaves alone stays as good as it was.
LEMMA CountRowKept ==
  ASSUME Alone, NEW r \in Runners, NEW p \in Providers, NEW h \in People,
         CountRow(p, h),
         pending'[p][h] = pending[p][h], age'[p][h] = age[p][h],
         run[r].prov = p /\ h \in run[r].cancels
           => run'[r].prov = p /\ h \in run'[r].cancels
  PROVE  CountRow(p, h)'
BY DEF CountRow, Alone

LEMMA CountTick == IInv /\ CountInv /\ (World \/ Tick) => CountInv'
<1> SUFFICES ASSUME IInv, CountInv, World \/ Tick PROVE CountInv'
  OBVIOUS
<1>0. run' = run /\ TypeOK
  BY WorldKeepsRuns DEF IInv
<1>1. CASE World
  <2>1. UNCHANGED <<pending, age>>
    BY <1>1 DEF World, ChangeStatus, ChangeMembership, ChangeSeat
  <2> QED
    BY <1>0, <2>1 DEF CountInv, CountPass, CountRow
<1>2. CASE Tick
  <2>1. \A p \in Providers, h \in People :
          /\ pending'[p][h] = Sooner(pending[p][h])
          /\ age'[p][h] = Later(age[p][h])
    BY <1>2 DEF Tick
  <2>2. ASSUME NEW r \in Runners PROVE CountPass(r)'
    <3>1. CASE run[r].pc \in {"reclaim", "close"}
      <4>1. /\ run[r].prov \in Providers
            /\ \A h \in run[r].expired : h \in People
        BY <3>1 DEF IInv, PassInv, TypeOK, RunState
      <4> QED
        BY <1>0, <2>1, <3>1, <4>1 DEF CountInv, CountPass, Sooner
    <3>2. CASE run[r].pc \notin {"reclaim", "close"}
      BY <1>0, <3>2 DEF CountInv, CountPass
    <3> QED
      BY <3>1, <3>2
  <2>3. ASSUME NEW p \in Providers, NEW h \in People PROVE CountRow(p, h)'
    <3>1. CountRow(p, h)
      BY DEF CountInv
    <3>2. /\ Sooner(pending[p][h]) # Off => pending[p][h] # Off
          /\ Later(age[p][h]) = Off <=> age[p][h] = Off
          /\ age[p][h] # Off /\ pending[p][h] # Off =>
               \A g \in 0 .. MaxGrace :
                 pending[p][h] + age[p][h] >= g
                   => Sooner(pending[p][h]) + Later(age[p][h]) >= g
      BY <1>0, CountdownFacts DEF Sooner, Later, Off
    <3>3. \A q \in Policies : q.grace \in 0 .. MaxGrace
      BY <1>0, CountdownFacts
    <3> QED
      BY <1>0, <2>1, <3>1, <3>2, <3>3 DEF CountRow
  <2> QED
    BY <2>2, <2>3 DEF CountInv
<1> QED
  BY <1>1, <1>2

\* Making a pass touches no row; the plan forgets the history of the rows it
\* is going to cancel, and of no other.
LEMMA CountReads ==
  ASSUME CountSetting, IInv, CountInv, NEW r \in Runners, Reads(r) \/ Decide(r)
  PROVE  CountInv'
<1> DEFINE rr == run[r]
           ss == run'[r]
<1>0. /\ TypeOK /\ rr \in RunState /\ CountPass(r) /\ \A q \in Runners : q = r
      /\ "crash" \notin Faults /\ "readPending" \notin Faults
  BY DEF IInv, TypeOK, CountInv, CountSetting, Alone, SafeSetting
<1>1. CASE Reads(r)
  <2>1. /\ UNCHANGED <<pending, age>> /\ ss.pc \notin Acting
        /\ ss.cancels \in {{}, rr.cancels}
        /\ Crash(r) \/ rr.pc \notin {"apply", "close"} \/ rr.cancels = {}
    BY <1>0, <1>1, ReadsStep
  <2>2. rr.cancels = {} /\ ss.cancels = {}
    BY <1>0, <2>1 DEF Crash, CountPass
  <2>3. CountPass(r)'
    BY <2>1, <2>2 DEF CountPass, Acting
  <2>4. ASSUME NEW p \in Providers, NEW h \in People PROVE CountRow(p, h)'
    BY <1>0, <2>1, <2>2, CountRowKept DEF CountInv, CountSetting
  <2> QED
    BY <1>0, <2>3, <2>4 DEF CountInv
<1>2. CASE Decide(r)
  <2>1. rr.pc = "desired" /\ UNCHANGED <<seats, pending>> /\ rr.cancels = {}
    BY <1>0, <1>2, DecideStep DEF CountPass
  <2>2. CASE ss = NextProvider(rr) /\ age' = age
    <3>1. ss.pc = "next" /\ ss.cancels = {}
      BY <1>0, <2>2 DEF NextProvider, RunState
    <3>2. CountPass(r)'
      BY <3>1 DEF CountPass
    <3>3. ASSUME NEW p \in Providers, NEW h \in People PROVE CountRow(p, h)'
      BY <2>1, <2>2, CountRowKept DEF CountInv, CountSetting
    <3> QED
      BY <1>0, <3>2, <3>3 DEF CountInv
  <2>3. CASE /\ ss.pc = "apply" /\ ss.prov = rr.prov
             /\ rr.policy.grace > 0
                  => ss.cancels = GetPendingRemovals(rr.prov) \ Orphaned(rr)
             /\ age' = [age EXCEPT ![rr.prov] =
                  [h \in People |->
                     IF rr.policy.grace > 0 /\ h \notin Orphaned(rr)
                     THEN Off ELSE age[rr.prov][h]]]
    <3>1. CountPass(r)'
      BY <2>3 DEF CountPass
    <3>2. ASSUME NEW p \in Providers, NEW h \in People PROVE CountRow(p, h)'
      <4>1. CASE p = rr.prov /\ rr.policy.grace > 0 /\ h \notin Orphaned(rr)
        BY <1>0, <2>1, <2>3, <4>1 DEF CountRow, GetPendingRemovals, TypeOK
      <4>2. CASE ~(p = rr.prov /\ rr.policy.grace > 0 /\ h \notin Orphaned(rr))
        <5>1. age'[p][h] = age[p][h]
          BY <1>0, <2>3, <4>2 DEF TypeOK
        <5> QED
          BY <2>1, <5>1, CountRowKept DEF CountInv, CountSetting
      <4> QED
        BY <4>1, <4>2
    <3> QED
      BY <1>0, <3>1, <3>2 DEF CountInv
  <2> QED
    BY <1>0, <1>2, <2>2, <2>3, DecideStep DEF SameWork
<1> QED
  BY <1>1, <1>2

\* The plan is worked off: rows are cancelled, seats given, countdowns started.
LEMMA CountApplies ==
  ASSUME CountSetting, IInv, CountInv, NEW r \in Runners,
         \/ \E h \in People : CancelReturned(r, h) \/ AddSeat(r, h)
         \/ \E s \in Raw : QueueRemoval(r, s) \/ RemoveNow(r, s)
  PROVE  CountInv'
<1> DEFINE rr == run[r]
           ss == run'[r]
<1>0. /\ TypeOK /\ rr \in RunState /\ \A q \in Runners : q = r
      /\ "cancel" \notin Faults
  BY DEF IInv, TypeOK, CountSetting, Alone, SafeSetting
<1>1. ss.pc = "apply" /\ rr.pc = "apply" /\ ss.prov = rr.prov
  BY <1>0, WorkStep DEF SameWork
<1>2. CountPass(r)'
  BY <1>1 DEF CountPass
<1>3. rr.prov \in Providers
  BY <1>1 DEF IInv, PassInv
<1>4. ASSUME NEW p \in Providers, NEW h \in People PROVE CountRow(p, h)'
  <2>1. CountRow(p, h)
    BY DEF CountInv
  <2>2. ASSUME NEW x \in People, CancelReturned(r, x) PROVE CountRow(p, h)'
    <3>1. /\ ss.cancels = rr.cancels \ {x} /\ age' = age
          /\ pending' = [pending EXCEPT ![rr.prov][x] = Off]
      BY <1>0, <2>2, WorkStep DEF CancelReturned, Outcome, CancelPendingRemoval
    <3>2. CASE p = rr.prov /\ h = x
      BY <1>0, <3>1, <3>2 DEF CountRow, TypeOK
    <3>3. CASE ~(p = rr.prov /\ h = x)
      <4>1. pending'[p][h] = pending[p][h]
        BY <1>0, <3>1, <3>3 DEF TypeOK
      <4> QED
        BY <1>1, <2>1, <3>1, <3>3, <4>1, CountRowKept DEF CountSetting
    <3> QED
      BY <3>2, <3>3
  <2>3. ASSUME NEW x \in People, AddSeat(r, x) PROVE CountRow(p, h)'
    <3>1. ss.cancels = rr.cancels /\ UNCHANGED <<pending, age>>
      BY <1>0, <2>3, WorkStep DEF AddSeat
    <3> QED
      BY <1>1, <2>1, <3>1, CountRowKept DEF CountSetting
  <2>4. ASSUME NEW s \in Raw, RemoveNow(r, s) PROVE CountRow(p, h)'
    <3>1. ss.cancels = {} /\ rr.cancels = {} /\ UNCHANGED <<pending, age>>
      BY <1>0, <2>4, WorkStep DEF RemoveNow
    <3> QED
      BY <1>1, <2>1, <3>1, CountRowKept DEF CountSetting
  <2>5. ASSUME NEW s \in Raw, QueueRemoval(r, s) PROVE CountRow(p, h)'
    <3> DEFINE id == Identity(rr, s)
               g  == rr.policy.grace
    <3>1. /\ ss.cancels = {} /\ rr.cancels = {} /\ g > 0 /\ rr.policy \in Policies
      BY <1>0, <2>5, WorkStep DEF QueueRemoval, RunState
    <3>2. CASE UNCHANGED <<pending, age>>
      BY <1>1, <2>1, <3>1, <3>2, CountRowKept DEF CountSetting
    <3>3. CASE InsertPendingRemoval(rr.prov, id, g)
      <4>1. CASE p = rr.prov /\ h = id
        <5>1. /\ pending'[p][h] = IF pending[p][h] = Off THEN g ELSE pending[p][h]
              /\ age'[p][h] = IF age[p][h] = Off THEN 0 ELSE age[p][h]
          BY <1>0, <3>3, <4>1 DEF InsertPendingRemoval, TypeOK
        <5>2. CASE pending[p][h] = Off
          <6>1. pending'[p][h] = g /\ age'[p][h] \in Nat
            BY <1>0, <5>1, <5>2, CountdownFacts
          <6>2. \A q \in Policies : q.grace \in Nat /\ g \in Nat
                                      /\ (q.grace > 0 => q.grace = g)
            BY <1>0, <3>1, CountdownFacts DEF CountSetting, SameGrace
          <6>3. \A q \in Policies : pending'[p][h] + age'[p][h] >= q.grace
            BY <6>1, <6>2
          <6> QED
            BY <6>1, <6>3 DEF CountRow, Off
        <5>3. CASE pending[p][h] # Off
          <6>1. age[p][h] # Off
            BY <1>0, <2>1, <3>1, <5>3 DEF CountRow
          <6> QED
            BY <1>1, <2>1, <3>1, <5>1, <5>3, <6>1, CountRowKept DEF CountSetting
        <5> QED
          BY <5>2, <5>3
      <4>2. CASE ~(p = rr.prov /\ h = id)
        <5>1. pending'[p][h] = pending[p][h] /\ age'[p][h] = age[p][h]
          BY <1>0, <3>3, <4>2 DEF InsertPendingRemoval, TypeOK
        <5> QED
          BY <1>1, <2>1, <3>1, <5>1, CountRowKept DEF CountSetting
      <4> QED
        BY <4>1, <4>2
    <3> QED
      BY <2>5, <3>2, <3>3 DEF QueueRemoval
  <2> QED
    BY <2>2, <2>3, <2>4, <2>5
<1> QED
  BY <1>0, <1>2, <1>4 DEF CountInv

\* Expired rows are reclaimed and closed.
LEMMA CountReclaims ==
  ASSUME CountSetting, IInv, CountInv, NEW r \in Runners,
         \/ ReadExpired(r)
         \/ \E h \in People : \/ Reclaim(r, h) \/ CloseReclaimed(r, h)
                              \/ CloseGone(r, h)
  PROVE  CountInv'
<1> DEFINE rr == run[r]
           ss == run'[r]
<1>0. /\ TypeOK /\ rr \in RunState /\ \A q \in Runners : q = r
      /\ "close" \notin Faults /\ CountPass(r)
  BY DEF IInv, TypeOK, CountSetting, Alone, CountInv
<1>1. rr.pc \in {"apply", "reclaim", "close"} /\ ss.prov = rr.prov
  BY <1>0, WorkStep DEF SameWork
<1>2. rr.prov \in Providers /\ \A h \in rr.expired : h \in People
  BY <1>0, <1>1 DEF IInv, PassInv, RunState
<1>3. CASE ReadExpired(r)
  <2>1. /\ ss.pc = "reclaim" /\ ss.cancels = {} /\ rr.cancels = {}
        /\ ss.expired \subseteq GetExpiredRemovals(rr.prov)
        /\ UNCHANGED <<pending, age>>
    BY <1>0, <1>3, WorkStep DEF ReadExpired
  <2>2. CountPass(r)'
    BY <1>1, <2>1 DEF CountPass, GetExpiredRemovals
  <2>3. ASSUME NEW p \in Providers, NEW h \in People PROVE CountRow(p, h)'
    BY <2>1, CountRowKept DEF CountInv, CountSetting
  <2> QED
    BY <1>0, <2>2, <2>3 DEF CountInv
<1>4. ASSUME NEW x \in People, Reclaim(r, x) PROVE CountInv'
  <2>1. /\ rr.pc = "reclaim" /\ ss.pc = "close" /\ ss.cancels = {x}
        /\ ss.expired = rr.expired \ {x} /\ pending' = pending
    BY <1>0, <1>4, WorkStep DEF Reclaim
  <2>2. \/ age' = age
        \/ age' = [age EXCEPT ![rr.prov][x] = Off]
    BY <1>0, <1>4 DEF Reclaim, TypeOK
  <2>3. rr.cancels = {}
    BY <1>0, <2>1 DEF CountPass
  <2>4. CountPass(r)'
    BY <1>0, <1>1, <2>1 DEF CountPass
  <2>5. ASSUME NEW p \in Providers, NEW h \in People PROVE CountRow(p, h)'
    <3>1. CASE p = rr.prov /\ h = x /\ age'[p][h] = Off
      BY <1>1, <2>1, <3>1 DEF CountRow
    <3>2. CASE ~(p = rr.prov /\ h = x /\ age'[p][h] = Off)
      <4>1. age'[p][h] = age[p][h]
        BY <1>0, <2>2, <3>2 DEF TypeOK
      <4> QED
        BY <2>1, <2>3, <4>1, CountRowKept DEF CountInv, CountSetting
    <3> QED
      BY <3>1, <3>2
  <2> QED
    BY <1>0, <2>4, <2>5 DEF CountInv
<1>5. ASSUME NEW x \in People, CloseReclaimed(r, x) \/ CloseGone(r, x)
      PROVE  CountInv'
  <2>1. /\ ss.pc = "reclaim" /\ ss.cancels = {} /\ rr.cancels \subseteq {x}
        /\ ss.expired \subseteq rr.expired /\ x \notin ss.expired
        /\ rr.pc \in {"reclaim", "close"}
    <3>1. CASE CloseReclaimed(r, x)
      BY <1>0, <3>1, WorkStep DEF CountPass
    <3>2. CASE CloseGone(r, x)
      BY <1>0, <3>2, WorkStep DEF CountPass
    <3> QED
      BY <1>5, <3>1, <3>2
  <2>2. age' = age /\ pending' = [pending EXCEPT ![rr.prov][x] = Off]
    BY <1>0, <1>5 DEF CloseReclaimed, CloseGone, Outcome, CancelPendingRemoval
  <2>3. \A p \in Providers, h \in People :
          ~(p = rr.prov /\ h = x) => pending'[p][h] = pending[p][h]
    BY <1>0, <2>2 DEF TypeOK
  <2>4. CountPass(r)'
    <3>1. ASSUME NEW h \in ss.expired PROVE pending'[ss.prov][h] = 0
      <4>1. h \in rr.expired /\ h # x /\ h \in People
        BY <1>2, <2>1
      <4> QED
        BY <1>0, <1>1, <1>2, <2>1, <2>3, <4>1 DEF CountPass
    <3> QED
      BY <2>1, <3>1 DEF CountPass
  <2>5. ASSUME NEW p \in Providers, NEW h \in People PROVE CountRow(p, h)'
    <3>1. CASE p = rr.prov /\ h = x
      BY <1>0, <2>2, <3>1 DEF CountRow, TypeOK
    <3>2. CASE ~(p = rr.prov /\ h = x)
      BY <2>1, <2>2, <2>3, <3>2, CountRowKept DEF CountInv, CountSetting
    <3> QED
      BY <3>1, <3>2
  <2> QED
    BY <1>0, <2>4, <2>5 DEF CountInv
<1> QED
  BY <1>3, <1>4, <1>5

LEMMA CountStep == CountSetting /\ IInv /\ CountInv /\ [Next]_vars => CountInv'
<1> SUFFICES ASSUME CountSetting, IInv, CountInv, [Next]_vars PROVE CountInv'
  OBVIOUS
<1>1. CASE UNCHANGED vars
  BY <1>1 DEF vars, CountInv, CountPass, CountRow
<1>2. ASSUME NEW r \in Runners, Pass(r) PROVE CountInv'
  BY <1>2, CountReads, CountApplies, CountReclaims DEF Pass, Reads
<1>3. \A r \in Runners : ~Crash(r)
  BY DEF Crash, CountSetting
<1> QED
  BY <1>1, <1>2, <1>3, CountTick DEF Next

\* The inductive invariant: as long as no pass is killed or failed while it
\* cancels and closes rows, whatever row the next pass finds has been counted
\* down from the whole grace period (cancelReturnedUsers, queuePendingRemoval,
\* executeExpiredRemovals).
THEOREM CountdownsWhole ==
  ASSUME CountSetting
  PROVE  Spec => []CountInv
<1>1. Init => CountInv
  BY DEF Init, Idle, CountInv, CountPass, CountRow
<1>2. IInv /\ CountInv /\ [Next]_vars => CountInv'
  BY CountStep
<1>3. Spec => []IInv
  BY PlansSound DEF CountSetting
<1> QED
  BY <1>1, <1>2, <1>3, PTL DEF Spec

\* With a grace period nobody loses a seat before the whole of it has passed
\* since the last pass that found them active.
THEOREM GraceIsWhole ==
  ASSUME CountSetting
  PROVE  Spec => FullGrace
<1>1. ASSUME IInv, CountInv, [Next]_vars, NEW r \in Runners, NEW p \in Providers,
             NEW s \in Raw, Takes(r, p, s), run[r].policy.grace > 0
      PROVE  age[p][Identity(run[r], s)] >= run[r].policy.grace
  <2>0. /\ TypeOK /\ run[r] \in RunState /\ seats' # seats /\ run' # run
        /\ p = run[r].prov /\ Removable(run[r], Identity(run[r], s))
        /\ SafeSetting /\ \A q \in Runners : q = r
    BY <1>1, TakesSound DEF IInv, TypeOK, Takes, CountSetting, Alone
  <2>1. Pass(r) \/ Crash(r)
    BY <1>1, <2>0, WorldKeepsRuns DEF Next, vars
  <2>2. PICK h \in People : Reclaim(r, h)
    <3>1. ~Reads(r) /\ ~Crash(r) /\ ~Decide(r)
      BY <2>0, ReadsStep, DecideStep
    <3>2. \A t \in Raw : ~RemoveNow(r, t)
      BY <1>1 DEF RemoveNow
    <3>3. \A h \in People : ~AddSeat(r, h)
      <4>1. ASSUME NEW h \in People, AddSeat(r, h) PROVE FALSE
        <5>1. \/ seats' = seats
              \/ seats' = [seats EXCEPT ![run[r].prov][h] = "active"]
          BY <4>1 DEF AddSeat, AddUser
        <5>2. seats'[p][s] \in {seats[p][s], "active"}
          BY <2>0, <5>1 DEF TypeOK
        <5> QED
          BY <1>1, <5>2 DEF Takes
      <4> QED
        BY <4>1
    <3> QED
      BY <2>0, <2>1, <3>1, <3>2, <3>3
         DEF Pass, Reads, CancelReturned, QueueRemoval, ReadExpired,
             CloseReclaimed, CloseGone
  <2>3. /\ run[r].pc = "reclaim" /\ h \in run[r].expired
        /\ pending[p][h] = 0 /\ run[r].cancels = {}
    BY <1>1, <2>0, <2>2 DEF Reclaim, CountInv, CountPass
  <2>4. Identity(run[r], s) = h
    <3>1. PICK t \in Targets(run[r], h) : RemoveUser(run[r].prov, t)
      BY <2>2 DEF Reclaim
    <3>2. s = t
      BY <1>1, <2>0, <3>1, RemoveOnlyIt DEF Takes
    <3>3. h \in Corporate
      BY <1>1, <2>3 DEF IInv, PassInv, Removable
    <3> QED
      BY <2>0, <3>1, <3>2, <3>3, TargetIdentity
  <2>5. age[p][h] # Off /\ \A q \in Policies : 0 + age[p][h] >= q.grace
    BY <1>1, <2>0, <2>3 DEF CountInv, CountRow, Off
  <2>6. run[r].policy \in Policies /\ age[p][h] \in Int
    BY <2>0, CountdownFacts DEF RunState
  <2> QED
    BY <2>4, <2>5, <2>6
<1>2. IInv /\ CountInv /\ [Next]_vars =>
        [\A r \in Runners, p \in Providers, s \in Raw :
           Takes(r, p, s) /\ run[r].policy.grace > 0
             => age[p][Identity(run[r], s)] >= run[r].policy.grace]_vars
  BY <1>1
<1>3. Spec => []IInv
  BY PlansSound DEF CountSetting
<1> QED
  BY <1>2, <1>3, CountdownsWhole, PTL DEF Spec, FullGrace
-----------------------------------------------------------------------------
(* A countdown is not started again while its identity is gone.            *)

\* One process at a time, a provider that grants every removal, and at most one
\* seat per identity and provider, named by address or by explicit alias.
RowSetting ==
  /\ Alone /\ "remove" \notin Faults /\ NamedSeats
  /\ \A p \in Providers : \A s, t \in Seatable(p) : Owner(s) = Owner(t) => s = t

\* In a pass that counts, whoever was not found gone has no history, nor has
\* anyone whose row is cancelled or closed.
RowPass(r) ==
  LET rr == run[r] IN
  /\ rr.pc \in Acting /\ rr.policy.grace > 0 =>
       \A h \in People \ Orphaned(rr) : age[rr.prov][h] = Off
  /\ rr.pc = "apply" => /\ rr.removes \subseteq RemovesOf(rr)
                        /\ rr.cancels \cap Orphaned(rr) = {}
                        /\ rr.cancels # {} => rr.policy.grace > 0
  /\ rr.pc = "close" => \A h \in rr.cancels : age[rr.prov][h] = Off
  /\ rr.pc \in {"reclaim", "close"} =>
       rr.policy.grace > 0 /\ rr.expired \cap DOMAIN Explicit = {}

\* Without a row there is no history.
Row(p, h) ==
  /\ pending[p][h] = Off => age[p][h] = Off
  /\ pending[p][h] # Off => h \notin DOMAIN Explicit
  /\ pending[p][h] # Off /\ age[p][h] # Off
       => pending[p][h] + age[p][h] <= MaxGrace

RowInv ==
  /\ \A r \in Runners : RowPass(r)
  /\ \A p \in Providers, h \in People : Row(p, h)

LEMMA RowTick == ListedInv /\ RowInv /\ (World \/ Tick) => RowInv'
<1> SUFFICES ASSUME ListedInv, RowInv, World \/ Tick PROVE RowInv'
  OBVIOUS
<1>0. run' = run /\ TypeOK
  BY WorldKeepsRuns DEF ListedInv
<1>1. CASE World
  <2>1. UNCHANGED <<pending, age>>
    BY <1>1 DEF World, ChangeStatus, ChangeMembership, ChangeSeat
  <2> QED
    BY <1>0, <2>1 DEF RowInv, RowPass, Row
<1>2. CASE Tick
  <2>1. \A p \in Providers, h \in People :
          /\ pending'[p][h] = Sooner(pending[p][h])
          /\ age'[p][h] = Later(age[p][h])
    BY <1>2 DEF Tick
  <2>2. \A p \in Providers, h \in People :
          age[p][h] = Off => age'[p][h] = Off
    BY <2>1 DEF Later
  <2>3. ASSUME NEW r \in Runners PROVE RowPass(r)'
    <3>1. RowPass(r) /\ ListedOK(run[r]) /\ run[r] \in RunState
      BY <1>0 DEF RowInv, ListedInv, TypeOK
    <3>2. run[r].pc \in Acting => run[r].prov \in Providers
      BY <3>1 DEF ListedOK
    <3>3. run[r].cancels \subseteq People
      BY <3>1 DEF RunState
    <3> QED
      BY <1>0, <2>2, <3>1, <3>2, <3>3 DEF RowPass, Acting
  <2>4. ASSUME NEW p \in Providers, NEW h \in People PROVE Row(p, h)'
    <3>1. Row(p, h)
      BY DEF RowInv
    <3>2. /\ Sooner(pending[p][h]) = Off <=> pending[p][h] = Off
          /\ Later(age[p][h]) = Off <=> age[p][h] = Off
          /\ age[p][h] # Off /\ pending[p][h] # Off
               => (pending[p][h] + age[p][h] <= MaxGrace
                     => Sooner(pending[p][h]) + Later(age[p][h]) <= MaxGrace)
      BY <1>0, CountdownFacts DEF Sooner, Later, Off
    <3> QED
      BY <2>1, <3>1, <3>2 DEF Row
  <2> QED
    BY <2>3, <2>4 DEF RowInv
<1> QED
  BY <1>1, <1>2

\* A row that a step leaves alone stays as good as it was.
LEMMA RowKept ==
  ASSUME NEW p, NEW h, Row(p, h),
         pending'[p][h] = pending[p][h], age'[p][h] = age[p][h]
  PROVE  Row(p, h)'
BY DEF Row

LEMMA RowReads ==
  ASSUME Alone, ListedInv, RowInv, NEW r \in Runners,
         Reads(r) \/ Crash(r) \/ Decide(r)
  PROVE  RowInv'
<1> DEFINE rr == run[r]
           ss == run'[r]
<1>0. /\ TypeOK /\ rr \in RunState /\ \A q \in Runners : q = r
      /\ ListedOK(rr)
  BY DEF ListedInv, TypeOK, Alone
<1>1. CASE Reads(r) \/ Crash(r)
  <2>1. UNCHANGED <<pending, age>> /\ ss.pc \notin Acting
    BY <1>0, <1>1, ReadsStep
  <2>2. RowPass(r)'
    BY <2>1 DEF RowPass, Acting
  <2> QED
    BY <1>0, <2>1, <2>2, RowKept DEF RowInv
<1>2. CASE Decide(r)
  <2>1. rr.pc = "desired" /\ UNCHANGED <<seats, pending>>
    BY <1>0, <1>2, DecideStep
  <2>2. CASE ss = NextProvider(rr) /\ age' = age
    <3>1. ss.pc = "next"
      BY <1>0, <2>2 DEF NextProvider, RunState
    <3>2. RowPass(r)'
      BY <3>1 DEF RowPass, Acting
    <3> QED
      BY <1>0, <2>1, <2>2, <3>2, RowKept DEF RowInv
  <2>3. CASE /\ ss.pc = "apply" /\ SameWork(ss, rr)
             /\ ss.removes \subseteq RemovesOf(rr)
             /\ ss.cancels \in {{}, GetPendingRemovals(rr.prov) \ Orphaned(rr)}
             /\ ss.cancels # {} => rr.policy.grace > 0
             /\ age' = [age EXCEPT ![rr.prov] =
                  [h \in People |->
                     IF rr.policy.grace > 0 /\ h \notin Orphaned(rr)
                     THEN Off ELSE age[rr.prov][h]]]
    <3>1. /\ Orphaned(ss) = Orphaned(rr) /\ RemovesOf(ss) = RemovesOf(rr)
          /\ ss.prov = rr.prov /\ ss.policy = rr.policy
      BY <2>3, SameWorkSame DEF SameWork
    <3>2. rr.prov \in Providers
      BY <1>0, <2>1 DEF ListedOK
    <3>3. \A p \in Providers, h \in People :
            age'[p][h] = IF /\ p = rr.prov /\ rr.policy.grace > 0
                            /\ h \notin Orphaned(rr)
                         THEN Off ELSE age[p][h]
      BY <1>0, <2>3, <3>2 DEF TypeOK
    <3>4. RowPass(r)'
      BY <2>3, <3>1, <3>2, <3>3 DEF RowPass
    <3>5. ASSUME NEW p \in Providers, NEW h \in People PROVE Row(p, h)'
      BY <2>1, <3>3 DEF RowInv, Row
    <3> QED
      BY <1>0, <3>4, <3>5 DEF RowInv
  <2> QED
    BY <1>0, <1>2, <2>2, <2>3, DecideStep
<1> QED
  BY <1>1, <1>2

LEMMA RowApplies ==
  ASSUME RowSetting, ListedInv, RowInv, NEW r \in Runners,
         \/ \E h \in People : CancelReturned(r, h) \/ AddSeat(r, h)
         \/ \E s \in Raw : QueueRemoval(r, s) \/ RemoveNow(r, s)
  PROVE  RowInv'
<1> DEFINE rr == run[r]
           ss == run'[r]
<1>0. /\ TypeOK /\ rr \in RunState /\ \A q \in Runners : q = r
      /\ ListedOK(rr) /\ RowPass(r)
  BY DEF ListedInv, TypeOK, RowSetting, Alone, RowInv
<1>1. /\ ss.pc = "apply" /\ rr.pc = "apply" /\ SameWork(ss, rr)
      /\ ss.removes \subseteq rr.removes /\ ss.cancels \subseteq rr.cancels
  BY <1>0, WorkStep
<1>2. /\ Orphaned(ss) = Orphaned(rr) /\ RemovesOf(ss) = RemovesOf(rr)
      /\ ss.prov = rr.prov /\ ss.policy = rr.policy /\ rr.prov \in Providers
  BY <1>0, <1>1, SameWorkSame DEF SameWork, ListedOK, Acting
<1>3. ASSUME \A h \in People \ Orphaned(rr) : age'[rr.prov][h] = age[rr.prov][h]
      PROVE  RowPass(r)'
  BY <1>0, <1>1, <1>2, <1>3 DEF RowPass, Acting
<1>4. ASSUME NEW x \in People, CancelReturned(r, x) PROVE RowInv'
  <2>1. /\ x \in rr.cancels /\ age' = age
        /\ \/ pending' = pending
           \/ pending' = [pending EXCEPT ![rr.prov][x] = Off]
    BY <1>0, <1>4, WorkStep DEF CancelReturned, CancelPendingRemoval
  <2>2. age[rr.prov][x] = Off
    BY <1>0, <1>1, <2>1 DEF RowPass, Acting
  <2>3. ASSUME NEW p \in Providers, NEW h \in People PROVE Row(p, h)'
    <3>1. \/ pending'[p][h] = pending[p][h]
          \/ p = rr.prov /\ h = x /\ pending'[p][h] = Off
      BY <1>0, <2>1 DEF TypeOK
    <3> QED
      BY <2>1, <2>2, <3>1 DEF RowInv, Row
  <2> QED
    BY <1>0, <1>3, <2>1, <2>3 DEF RowInv
<1>5. ASSUME \/ \E x \in People : AddSeat(r, x)
             \/ \E s \in Raw : RemoveNow(r, s)
      PROVE  RowInv'
  <2>1. UNCHANGED <<pending, age>>
    BY <1>5 DEF AddSeat, RemoveNow
  <2> QED
    BY <1>0, <1>3, <2>1, RowKept DEF RowInv
<1>6. ASSUME NEW s \in Raw, QueueRemoval(r, s) PROVE RowInv'
  <2> DEFINE id == Identity(rr, s)
             g  == rr.policy.grace
  <2>1. s \in RemovesOf(rr) /\ rr.policy \in Policies
    BY <1>0, <1>1, <1>6, WorkStep DEF RowPass, RunState
  <2>2. id \in Orphaned(rr)
    BY <2>1 DEF Orphaned
  <2>3. id \notin DOMAIN Explicit
    <3>1. s \in Present(rr.listed)
      BY <2>1 DEF RemovesOf, ToRemove
    <3>2. s \in People \cup DOMAIN Explicit
      BY <1>0, <1>1, <1>2, <3>1 DEF RowSetting, NamedSeats, ListedOK, Acting
    <3> QED
      BY <1>0, <3>2, NamedIdentity, EngineAssumption DEF Owner
  <2>4. CASE UNCHANGED <<pending, age>>
    BY <1>0, <1>3, <2>4, RowKept DEF RowInv
  <2>5. CASE InsertPendingRemoval(rr.prov, id, g)
    <3>1. \A p \in Providers, h \in People :
            /\ pending'[p][h] =
                 IF p = rr.prov /\ h = id /\ pending[p][h] = Off
                 THEN g ELSE pending[p][h]
            /\ age'[p][h] = IF p = rr.prov /\ h = id /\ age[p][h] = Off
                            THEN 0 ELSE age[p][h]
      BY <1>0, <2>5 DEF InsertPendingRemoval, TypeOK
    <3>2. RowPass(r)'
      BY <1>2, <1>3, <2>2, <3>1
    <3>3. ASSUME NEW p \in Providers, NEW h \in People PROVE Row(p, h)'
      <4>1. Row(p, h) /\ g \in 0 .. MaxGrace
        BY <1>0, <2>1, CountdownFacts DEF RowInv
      <4>2. CASE p = rr.prov /\ h = id /\ pending[p][h] = Off
        <5>1. pending'[p][h] = g /\ age'[p][h] = 0
          BY <3>1, <4>1, <4>2 DEF Row
        <5> QED
          BY <1>0, <2>3, <4>1, <4>2, <5>1 DEF Row, Off
      <4>3. CASE p = rr.prov /\ h = id /\ pending[p][h] # Off
        <5>1. /\ pending'[p][h] = pending[p][h]
              /\ age'[p][h] = IF age[p][h] = Off THEN 0 ELSE age[p][h]
          BY <3>1, <4>3
        <5>2. pending[p][h] \in 0 .. MaxGrace /\ MaxGrace \in Nat
          BY <1>0, <4>3, CountdownFacts
        <5>3. CASE age[p][h] = Off
          BY <4>1, <4>3, <5>1, <5>2, <5>3 DEF Row
        <5>4. CASE age[p][h] # Off
          BY <4>1, <4>3, <5>1, <5>4 DEF Row
        <5> QED
          BY <5>3, <5>4
      <4>4. CASE ~(p = rr.prov /\ h = id)
        BY <3>1, <4>1, <4>4, RowKept
      <4> QED
        BY <4>2, <4>3, <4>4
    <3> QED
      BY <1>0, <3>2, <3>3 DEF RowInv
  <2> QED
    BY <1>6, <2>4, <2>5 DEF QueueRemoval
<1> QED
  BY <1>4, <1>5, <1>6

\* Where removals are granted, the one seat of an identity is gone when its row
\* is closed.
LEMMA ReclaimServes ==
  ASSUME RowSetting, ListedInv, NEW r \in Runners, NEW x \in People,
         Reclaim(r, x), x \notin DOMAIN Explicit
  PROVE  Served(run[r], x)
<1> DEFINE rr == run[r]
<1>0. /\ TypeOK /\ rr \in RunState /\ rr.prov \in Providers
      /\ Present(rr.listed) \subseteq Seatable(rr.prov)
      /\ Seatable(rr.prov) \subseteq People \cup DOMAIN Explicit
      /\ "remove" \notin Faults
  BY DEF ListedInv, TypeOK, ListedOK, Reclaim, Acting, RowSetting, NamedSeats
<1>1. PICK t \in Targets(rr, x) : RemoveUser(rr.prov, t)
  BY DEF Reclaim
<1>2. t \in Present(rr.listed) /\ Owner(t) = x
  BY DEF Targets, Owner
<1>3. seats'[rr.prov][t] # "active"
  <2>1. seats' = IF seats[rr.prov][t] # "none"
                 THEN [seats EXCEPT ![rr.prov][t] =
                         IF rr.prov \in Deactivating THEN "suspended" ELSE "none"]
                 ELSE seats
    BY <1>0, <1>1 DEF RemoveUser, Outcome
  <2>2. t \in Raw
    BY <1>2 DEF Present
  <2>3. CASE seats[rr.prov][t] # "none"
    <3>1. seats'[rr.prov][t]
            = IF rr.prov \in Deactivating THEN "suspended" ELSE "none"
      BY <1>0, <2>1, <2>2, <2>3 DEF TypeOK
    <3> QED
      BY <3>1
  <2>4. CASE seats[rr.prov][t] = "none"
    BY <2>1, <2>4
  <2> QED
    BY <2>3, <2>4
<1>4. ASSUME NEW s \in Present(rr.listed), Identity(rr, s) = x
      PROVE  s = t
  <2>1. Owner(s) = x
    BY <1>0, <1>4, NamedIdentity
  <2> QED
    BY <1>0, <1>2, <2>1 DEF RowSetting
<1> QED
  BY <1>3, <1>4 DEF Served

LEMMA RowReclaims ==
  ASSUME RowSetting, ListedInv, RowInv, NEW r \in Runners,
         \/ ReadExpired(r)
         \/ \E h \in People : \/ Reclaim(r, h) \/ CloseReclaimed(r, h)
                              \/ CloseGone(r, h)
  PROVE  RowInv'
<1> DEFINE rr == run[r]
           ss == run'[r]
<1>0. /\ TypeOK /\ rr \in RunState /\ \A q \in Runners : q = r
      /\ ListedOK(rr) /\ RowPass(r)
  BY DEF ListedInv, TypeOK, RowSetting, Alone, RowInv
<1>1. /\ ss.pc \in {"reclaim", "close"} /\ rr.pc \in Acting /\ SameWork(ss, rr)
      /\ rr.policy.grace > 0
  <2>1. CASE ReadExpired(r)
    BY <1>0, <2>1, WorkStep DEF Acting
  <2>2. ASSUME NEW x \in People,
               Reclaim(r, x) \/ CloseReclaimed(r, x) \/ CloseGone(r, x)
        PROVE  /\ ss.pc \in {"reclaim", "close"} /\ SameWork(ss, rr)
               /\ rr.pc \in {"reclaim", "close"}
    BY <1>0, <2>2, WorkStep
  <2> QED
    BY <1>0, <2>1, <2>2 DEF RowPass, Acting
<1>2. /\ Orphaned(ss) = Orphaned(rr) /\ ss.prov = rr.prov
      /\ ss.policy = rr.policy /\ rr.prov \in Providers
  BY <1>0, <1>1, SameWorkSame DEF SameWork, ListedOK
<1>3. ASSUME \A h \in People \ Orphaned(rr) : age'[rr.prov][h] \in {age[rr.prov][h], Off},
             ss.pc = "close" => \A h \in ss.cancels : age'[rr.prov][h] = Off,
             ss.expired \cap DOMAIN Explicit = {}
      PROVE  RowPass(r)'
  BY <1>0, <1>1, <1>2, <1>3 DEF RowPass
<1>4. CASE ReadExpired(r)
  <2>1. /\ ss.pc = "reclaim" /\ ss.expired \subseteq GetExpiredRemovals(rr.prov)
        /\ UNCHANGED <<pending, age>>
    BY <1>0, <1>4, WorkStep DEF ReadExpired
  <2>2. ss.expired \cap DOMAIN Explicit = {}
    <3>1. ASSUME NEW h \in GetExpiredRemovals(rr.prov) PROVE h \notin DOMAIN Explicit
      <4>1. h \in People /\ pending[rr.prov][h] = 0
        BY DEF GetExpiredRemovals
      <4>2. 0 # Off
        BY DEF Off
      <4> QED
        BY <1>2, <4>1, <4>2 DEF RowInv, Row
    <3> QED
      BY <2>1, <3>1
  <2>3. RowPass(r)'
    BY <1>3, <2>1, <2>2
  <2> QED
    BY <1>0, <2>1, <2>3, RowKept DEF RowInv
<1>5. ASSUME NEW x \in People, Reclaim(r, x) PROVE RowInv'
  <2>1. /\ x \in rr.expired /\ rr.pc = "reclaim" /\ ss.cancels = {x}
        /\ ss.expired \subseteq rr.expired /\ pending' = pending
    <3>1. rr.pc = "reclaim" /\ pending' = pending
      BY <1>5 DEF Reclaim
    <3> QED
      BY <1>0, <1>5, <3>1, WorkStep
  <2>2. rr.expired \cap DOMAIN Explicit = {}
    BY <1>0, <2>1 DEF RowPass
  <2>3. age' = [age EXCEPT ![rr.prov][x] = Off]
    BY <1>5, <2>1, <2>2, ReclaimServes DEF Reclaim
  <2>4. \A p \in Providers, h \in People :
          age'[p][h] = IF p = rr.prov /\ h = x THEN Off ELSE age[p][h]
    BY <1>0, <2>3 DEF TypeOK
  <2>5. RowPass(r)'
    <3>1. \A h \in People \ Orphaned(rr) :
            age'[rr.prov][h] \in {age[rr.prov][h], Off}
      BY <1>2, <2>4
    <3>2. \A h \in ss.cancels : age'[rr.prov][h] = Off
      BY <1>2, <2>1, <2>4
    <3>3. ss.expired \cap DOMAIN Explicit = {}
      BY <2>1, <2>2
    <3> QED
      BY <1>3, <3>1, <3>2, <3>3
  <2>6. ASSUME NEW p \in Providers, NEW h \in People PROVE Row(p, h)'
    BY <2>1, <2>4 DEF RowInv, Row
  <2> QED
    BY <1>0, <2>5, <2>6 DEF RowInv
<1>6. ASSUME NEW x \in People, CloseReclaimed(r, x) \/ CloseGone(r, x)
      PROVE  RowInv'
  <2>1. /\ ss.pc = "reclaim" /\ ss.expired \subseteq rr.expired /\ age' = age
        /\ rr.pc \in {"reclaim", "close"}
    <3>1. age' = age
      BY <1>6 DEF CloseReclaimed, CloseGone
    <3>2. CASE CloseReclaimed(r, x)
      BY <1>0, <3>1, <3>2, WorkStep
    <3>3. CASE CloseGone(r, x)
      BY <1>0, <3>1, <3>3, WorkStep
    <3> QED
      BY <1>6, <3>2, <3>3
  <2>2. age[rr.prov][x] = Off
    <3>1. CASE CloseReclaimed(r, x)
      BY <1>0, <3>1, WorkStep DEF RowPass
    <3>2. CASE CloseGone(r, x)
      <4>1. Targets(rr, x) = {} /\ rr.pc = "reclaim"
        BY <3>2 DEF CloseGone
      <4>2. x \notin Orphaned(rr)
        <5>1. ASSUME NEW s \in RemovesOf(rr), Identity(rr, s) = x PROVE FALSE
          <6>1. s \in Present(rr.listed)
            BY DEF RemovesOf, ToRemove
          <6>2. s \in People \cup DOMAIN Explicit
            BY <1>0, <1>1, <1>2, <6>1 DEF RowSetting, NamedSeats, ListedOK
          <6> QED
            BY <1>0, <4>1, <5>1, <6>1, <6>2, TargetsFound
        <5> QED
          BY <5>1 DEF Orphaned
      <4> QED
        BY <1>0, <1>1, <4>2 DEF RowPass
    <3> QED
      BY <1>6, <3>1, <3>2
  <2>3. \/ pending' = pending
        \/ pending' = [pending EXCEPT ![rr.prov][x] = Off]
    BY <1>6 DEF CloseReclaimed, CloseGone, CancelPendingRemoval
  <2>4. RowPass(r)'
    <3>1. ss.expired \cap DOMAIN Explicit = {}
      BY <1>0, <2>1 DEF RowPass
    <3> QED
      BY <1>3, <2>1, <3>1
  <2>5. ASSUME NEW p \in Providers, NEW h \in People PROVE Row(p, h)'
    <3>1. \/ pending'[p][h] = pending[p][h]
          \/ p = rr.prov /\ h = x /\ pending'[p][h] = Off
      BY <1>0, <2>3 DEF TypeOK
    <3> QED
      BY <2>1, <2>2, <3>1 DEF RowInv, Row
  <2> QED
    BY <1>0, <2>4, <2>5 DEF RowInv
<1> QED
  BY <1>4, <1>5, <1>6

LEMMA RowStep == RowSetting /\ ListedInv /\ RowInv /\ [Next]_vars => RowInv'
<1> SUFFICES ASSUME RowSetting, ListedInv, RowInv, [Next]_vars PROVE RowInv'
  OBVIOUS
<1>1. CASE UNCHANGED vars
  BY <1>1 DEF vars, RowInv, RowPass, Row
<1>2. ASSUME NEW r \in Runners, Pass(r) \/ Crash(r) PROVE RowInv'
  BY <1>2, RowReads, RowApplies, RowReclaims DEF Pass, Reads, RowSetting
<1> QED
  BY <1>1, <1>2, RowTick DEF Next

\* The countdown starts at the first detection, and no later pass pushes it
\* back, whatever the store fails at and wherever a pass is killed
\* (InsertPendingRemoval's ON CONFLICT, CancelPendingRemoval).
THEOREM CountdownsNeverReset ==
  ASSUME RowSetting
  PROVE  Spec => []NeverReset
<1>1. Init => RowInv
  BY DEF Init, Idle, RowInv, RowPass, Row, Acting
<1>2. ListedInv /\ RowInv /\ [Next]_vars => RowInv'
  BY RowStep
<1>3. RowInv => NeverReset
  BY DEF RowInv, Row, NeverReset
<1> QED
  BY <1>1, <1>2, <1>3, ListedCorrect, PTL DEF Spec
-----------------------------------------------------------------------------
(* A pass comes to an end, whatever fails.                                 *)

\* How much a pass has before it: providers, phases of the one at hand, and
\* what is left to do in this phase.
ProvidersAhead(rr) ==
  IF rr.pc = "aliases" THEN Cardinality(Providers) + 1 ELSE Cardinality(rr.left)
Phase(rr) == CASE rr.pc = "desired" -> 3
               [] rr.pc = "apply" -> 2
               [] rr.pc \in {"reclaim", "close"} -> 1
               [] OTHER -> 0
Items(rr) ==
  CASE rr.pc \in {"aliases", "desired"} -> Cardinality(rr.unread)
    [] rr.pc = "apply" -> Cardinality(rr.cancels) + Cardinality(rr.adds)
                            + Cardinality(rr.removes)
    [] rr.pc = "reclaim" -> 2 * Cardinality(rr.expired)
    [] rr.pc = "close" -> 2 * Cardinality(rr.expired) + 1
    [] OTHER -> 0

Shorter(a, b) ==
  \/ ProvidersAhead(a) < ProvidersAhead(b)
  \/ /\ ProvidersAhead(a) = ProvidersAhead(b)
     /\ Phase(a) < Phase(b)
  \/ /\ ProvidersAhead(a) = ProvidersAhead(b) /\ Phase(a) = Phase(b)
     /\ Items(a) < Items(b)

\* The config and the directory are finite.
Finite ==
  IsFiniteSet(People) /\ IsFiniteSet(Raw) /\ IsFiniteSet(Groups)
    /\ IsFiniteSet(Providers)

LEMMA FiniteParts ==
  ASSUME Finite, NEW rr \in RunState
  PROVE  /\ IsFiniteSet(rr.unread) /\ IsFiniteSet(rr.left)
         /\ IsFiniteSet(rr.cancels) /\ IsFiniteSet(rr.adds)
         /\ IsFiniteSet(rr.removes) /\ IsFiniteSet(rr.expired)
<1>1. /\ rr.unread \subseteq Groups /\ rr.left \subseteq Providers
      /\ rr.cancels \subseteq People /\ rr.adds \subseteq People
      /\ rr.removes \subseteq Raw /\ rr.expired \subseteq People
  BY DEF RunState
<1> QED
  BY <1>1, FS_Subset DEF Finite

LEMMA OneLess ==
  ASSUME NEW S, IsFiniteSet(S), NEW x \in S
  PROVE  /\ Cardinality(S) \in Nat /\ Cardinality(S \ {x}) \in Nat
         /\ Cardinality(S \ {x}) < Cardinality(S)
<1>1. IsFiniteSet(S \ {x}) /\ Cardinality(S \ {x}) = Cardinality(S) - 1
  BY FS_RemoveElement
<1>2. Cardinality(S) \in Nat /\ Cardinality(S \ {x}) \in Nat
  BY <1>1, FS_CardinalityType
<1> QED
  BY <1>1, <1>2

LEMMA MeasureNat ==
  ASSUME Finite, NEW rr \in RunState
  PROVE  ProvidersAhead(rr) \in Nat /\ Phase(rr) \in Nat /\ Items(rr) \in Nat
<1>1. /\ Cardinality(rr.unread) \in Nat /\ Cardinality(rr.left) \in Nat
      /\ Cardinality(rr.cancels) \in Nat /\ Cardinality(rr.adds) \in Nat
      /\ Cardinality(rr.removes) \in Nat /\ Cardinality(rr.expired) \in Nat
      /\ Cardinality(Providers) \in Nat
  BY FiniteParts, FS_CardinalityType DEF Finite
<1>2. ProvidersAhead(rr) \in Nat
  BY <1>1 DEF ProvidersAhead
<1>3. Phase(rr) \in Nat
  BY DEF Phase
<1>4. Items(rr) \in Nat
  BY <1>1 DEF Items
<1> QED
  BY <1>2, <1>3, <1>4

\* What a step of reading leaves before the pass.
LEMMA ReadingShortens ==
  ASSUME TypeOK, Finite, NEW r \in Runners, Reads(r),
         run[r].pc # "idle", run'[r].pc # "idle"
  PROVE  Shorter(run'[r], run[r])
<1> DEFINE rr == run[r]
           ss == run'[r]
<1>0. rr \in RunState /\ run \in [Runners -> RunState]
  BY DEF TypeOK
<1>1. /\ NextProvider(rr).pc = "next" /\ NextProvider(rr).left = rr.left
      /\ Idle.pc = "idle"
  BY <1>0 DEF NextProvider, Idle, RunState
<1>2. ASSUME ss = NextProvider(rr), rr.pc \in Acting \cup {"desired"}
      PROVE  Shorter(ss, rr)
  <2>1. ProvidersAhead(ss) = ProvidersAhead(rr)
    BY <1>1, <1>2 DEF ProvidersAhead, Acting
  <2>2. Phase(ss) = 0 /\ Phase(rr) \in {1, 2, 3}
    BY <1>1, <1>2 DEF Phase, Acting
  <2> QED
    BY <2>1, <2>2 DEF Shorter
<1>3. CASE StartRun(r) \/ FinishRun(r)
  BY <1>0, <1>1, <1>3 DEF StartRun, FinishRun
<1>4. CASE ReadDirectory(r)
  <2>1. ss = [rr EXCEPT !.pc = "next", !.dir = directory, !.left = Providers]
    BY <1>0, <1>1, <1>4 DEF ReadDirectory
  <2>2. ss.pc = "next" /\ ss.left = Providers /\ rr.pc = "aliases"
    BY <1>0, <1>4, <2>1 DEF RunState, ReadDirectory
  <2>3. Cardinality(Providers) \in Nat
    BY FS_CardinalityType DEF Finite
  <2> QED
    BY <2>2, <2>3 DEF Shorter, ProvidersAhead
<1>5. CASE FinishProvider(r)
  <2>1. ss = NextProvider(rr) /\ rr.pc \in Acting
    BY <1>0, <1>5 DEF FinishProvider, ActionsDone, Acting
  <2> QED
    BY <1>2, <2>1
<1>6. ASSUME NEW g \in Groups, rr.pc \in {"aliases", "desired"}, g \in rr.unread,
             ss.pc = rr.pc, ss.left = rr.left, ss.unread = rr.unread \ {g}
      PROVE  Shorter(ss, rr)
  <2>1. ProvidersAhead(ss) = ProvidersAhead(rr) /\ Phase(ss) = Phase(rr)
    BY <1>6 DEF ProvidersAhead, Phase
  <2>2. Items(ss) = Cardinality(ss.unread) /\ Items(rr) = Cardinality(rr.unread)
    BY <1>6 DEF Items
  <2>3. Cardinality(ss.unread) < Cardinality(rr.unread)
    BY <1>0, <1>6, FiniteParts, OneLess
  <2> QED
    BY <2>1, <2>2, <2>3 DEF Shorter
<1>7. ASSUME NEW g \in Groups, ReadGroupForAliases(r, g)
      PROVE  Shorter(ss, rr)
  <2>1. PICK known :
          ss = [rr EXCEPT !.unread = rr.unread \ {g}, !.known = known]
    BY <1>0, <1>7 DEF ReadGroupForAliases
  <2>2. ss.pc = rr.pc /\ ss.left = rr.left /\ ss.unread = rr.unread \ {g}
    BY <1>0, <2>1 DEF RunState
  <2> QED
    BY <1>6, <1>7, <2>2 DEF ReadGroupForAliases
<1>8. ASSUME NEW g \in Groups, ReadGroupForDesired(r, g)
      PROVE  Shorter(ss, rr)
  <2>1. \/ ss = NextProvider(rr)
        \/ ss = [rr EXCEPT !.unread = rr.unread \ {g},
                           !.desired = rr.desired \cup members[g]]
    BY <1>0, <1>8 DEF ReadGroupForDesired, Abandon
  <2>2. rr.pc = "desired" /\ g \in rr.unread
    BY <1>8 DEF ReadGroupForDesired
  <2>3. CASE ss = NextProvider(rr)
    BY <1>2, <2>2, <2>3
  <2>4. CASE ss = [rr EXCEPT !.unread = rr.unread \ {g},
                             !.desired = rr.desired \cup members[g]]
    <3>1. ss.pc = rr.pc /\ ss.left = rr.left /\ ss.unread = rr.unread \ {g}
      BY <1>0, <2>4 DEF RunState
    <3> QED
      BY <1>6, <2>2, <3>1
  <2> QED
    BY <2>1, <2>3, <2>4
<1>9. ASSUME NEW p \in Providers, ListSeats(r, p)
      PROVE  Shorter(ss, rr)
  <2> DEFINE rest == [rr EXCEPT !.left = @ \ {p}]
  <2>1. rest \in RunState /\ rest.left = rr.left \ {p} /\ rest.pc = "next"
    BY <1>0, <1>9 DEF RunState, ListSeats
  <2>2. \/ ss = NextProvider(rest)
        \/ ss = [rest EXCEPT !.pc = "desired", !.prov = p,
                             !.listed = seats[p], !.unread = GroupsFor[p]]
    <3>1. PICK ok : run' = [run EXCEPT ![r] =
                 IF ok THEN [rest EXCEPT !.pc = "desired", !.prov = p,
                                         !.listed = seats[p],
                                         !.unread = GroupsFor[p]]
                 ELSE NextProvider(rest)]
      BY <1>9 DEF ListSeats, Abandon
    <3> HIDE DEF rest
    <3> QED
      BY <1>0, <3>1
  <2> HIDE DEF rest
  <2>3. ss.left = rest.left /\ ss.pc \in {"next", "desired"}
    <3>1. CASE ss = NextProvider(rest)
      BY <2>1, <3>1 DEF NextProvider, RunState
    <3>2. CASE ss = [rest EXCEPT !.pc = "desired", !.prov = p,
                                 !.listed = seats[p], !.unread = GroupsFor[p]]
      BY <2>1, <3>2 DEF RunState
    <3> QED
      BY <2>2, <3>1, <3>2
  <2>4. rr.pc = "next" /\ p \in rr.left
    BY <1>9 DEF ListSeats
  <2>5. Cardinality(ss.left) < Cardinality(rr.left)
    BY <1>0, <2>1, <2>3, <2>4, FiniteParts, OneLess
  <2> QED
    BY <2>3, <2>4, <2>5 DEF Shorter, ProvidersAhead
<1> QED
  BY <1>3, <1>4, <1>5, <1>7, <1>8, <1>9 DEF Reads

\* A pass that acts stays with its provider.
LEMMA ActingStays ==
  ASSUME TypeOK, NEW r \in Runners,
         \/ ReadExpired(r)
         \/ \E h \in People : \/ CancelReturned(r, h) \/ AddSeat(r, h)
                              \/ Reclaim(r, h) \/ CloseReclaimed(r, h)
                              \/ CloseGone(r, h)
         \/ \E s \in Raw : QueueRemoval(r, s) \/ RemoveNow(r, s)
  PROVE  run'[r].left = run[r].left
<1> DEFINE rr == run[r]
           ss == run'[r]
<1>0. rr \in RunState /\ run \in [Runners -> RunState]
  BY DEF TypeOK
<1>1. \/ \E x : ss = [rr EXCEPT !.cancels = x]
      \/ \E x : ss = [rr EXCEPT !.adds = x]
      \/ \E x : ss = [rr EXCEPT !.removes = x]
      \/ \E x, y : ss = [rr EXCEPT !.pc = x, !.expired = y]
      \/ \E x, y, z : ss = [rr EXCEPT !.pc = x, !.expired = y, !.cancels = z]
      \/ \E x, z : ss = [rr EXCEPT !.pc = x, !.cancels = z]
      \/ \E y : ss = [rr EXCEPT !.expired = y]
  <2>1. ASSUME ReadExpired(r)
        PROVE  \/ ss = [rr EXCEPT !.pc = "reclaim", !.expired = {}]
               \/ ss = [rr EXCEPT !.pc = "reclaim",
                                  !.expired = GetExpiredRemovals(rr.prov)]
    BY <1>0, <2>1 DEF ReadExpired
  <2>2. ASSUME NEW h \in People, CancelReturned(r, h) \/ AddSeat(r, h)
        PROVE  \/ ss = [rr EXCEPT !.cancels = rr.cancels \ {h}]
               \/ ss = [rr EXCEPT !.adds = rr.adds \ {h}]
    BY <1>0, <2>2 DEF CancelReturned, AddSeat
  <2>3. ASSUME NEW h \in People, Reclaim(r, h)
        PROVE  ss = [rr EXCEPT !.pc = "close", !.expired = rr.expired \ {h},
                               !.cancels = {h}]
    BY <1>0, <2>3 DEF Reclaim
  <2>4. ASSUME NEW h \in People, CloseReclaimed(r, h) \/ CloseGone(r, h)
        PROVE  \/ ss = [rr EXCEPT !.pc = "reclaim", !.cancels = {}]
               \/ ss = [rr EXCEPT !.expired = rr.expired \ {h}]
    BY <1>0, <2>4 DEF CloseReclaimed, CloseGone
  <2>5. ASSUME NEW s \in Raw, QueueRemoval(r, s) \/ RemoveNow(r, s)
        PROVE  ss = [rr EXCEPT !.removes = rr.removes \ {s}]
    BY <1>0, <2>5 DEF QueueRemoval, RemoveNow
  <2> QED
    BY <2>1, <2>2, <2>3, <2>4, <2>5
<1> QED
  BY <1>0, <1>1 DEF RunState

\* What a step of acting leaves before the pass.
LEMMA ActingShortens ==
  ASSUME TypeOK, Finite, NEW r \in Runners,
         \/ ReadExpired(r)
         \/ \E h \in People : \/ CancelReturned(r, h) \/ AddSeat(r, h)
                              \/ Reclaim(r, h) \/ CloseReclaimed(r, h)
                              \/ CloseGone(r, h)
         \/ \E s \in Raw : QueueRemoval(r, s) \/ RemoveNow(r, s)
  PROVE  Shorter(run'[r], run[r])
<1> DEFINE rr == run[r]
           ss == run'[r]
           N(S) == Cardinality(S)
<1>0. rr \in RunState /\ run \in [Runners -> RunState] /\ ss.left = rr.left
  BY ActingStays DEF TypeOK
<1>1. /\ IsFiniteSet(rr.cancels) /\ IsFiniteSet(rr.adds)
      /\ IsFiniteSet(rr.removes) /\ IsFiniteSet(rr.expired)
      /\ N(rr.cancels) \in Nat /\ N(rr.adds) \in Nat
      /\ N(rr.removes) \in Nat /\ N(rr.expired) \in Nat
  BY <1>0, FiniteParts, FS_CardinalityType
<1>2. ASSUME rr.pc = "apply", ss.pc = "apply",
             N(ss.cancels) \in Nat, N(ss.adds) \in Nat, N(ss.removes) \in Nat,
             N(ss.cancels) + N(ss.adds) + N(ss.removes)
               < N(rr.cancels) + N(rr.adds) + N(rr.removes)
      PROVE  Shorter(ss, rr)
  BY <1>0, <1>2 DEF Shorter, ProvidersAhead, Phase, Items
<1>3. ASSUME NEW h \in People, CancelReturned(r, h) PROVE Shorter(ss, rr)
  <2>1. /\ rr.pc = "apply" /\ h \in rr.cancels
        /\ ss = [rr EXCEPT !.cancels = rr.cancels \ {h}]
    BY <1>0, <1>3 DEF CancelReturned
  <2>2. /\ ss.pc = "apply" /\ ss.cancels = rr.cancels \ {h}
        /\ ss.adds = rr.adds /\ ss.removes = rr.removes
    BY <1>0, <2>1 DEF RunState
  <2>3. N(ss.cancels) \in Nat /\ N(ss.cancels) < N(rr.cancels)
    BY <1>1, <2>1, <2>2, OneLess
  <2> HIDE DEF N
  <2> QED
    BY <1>1, <1>2, <2>1, <2>2, <2>3
<1>4. ASSUME NEW h \in People, AddSeat(r, h) PROVE Shorter(ss, rr)
  <2>1. /\ rr.pc = "apply" /\ h \in rr.adds
        /\ ss = [rr EXCEPT !.adds = rr.adds \ {h}]
    BY <1>0, <1>4 DEF AddSeat
  <2>2. /\ ss.pc = "apply" /\ ss.adds = rr.adds \ {h}
        /\ ss.cancels = rr.cancels /\ ss.removes = rr.removes
    BY <1>0, <2>1 DEF RunState
  <2>3. N(ss.adds) \in Nat /\ N(ss.adds) < N(rr.adds)
    BY <1>1, <2>1, <2>2, OneLess
  <2> HIDE DEF N
  <2> QED
    BY <1>1, <1>2, <2>1, <2>2, <2>3
<1>5. ASSUME NEW s \in Raw, QueueRemoval(r, s) \/ RemoveNow(r, s)
      PROVE  Shorter(ss, rr)
  <2>1. /\ rr.pc = "apply" /\ s \in rr.removes
        /\ ss = [rr EXCEPT !.removes = rr.removes \ {s}]
    BY <1>0, <1>5 DEF QueueRemoval, RemoveNow
  <2>2. /\ ss.pc = "apply" /\ ss.removes = rr.removes \ {s}
        /\ ss.cancels = rr.cancels /\ ss.adds = rr.adds
    BY <1>0, <2>1 DEF RunState
  <2>3. N(ss.removes) \in Nat /\ N(ss.removes) < N(rr.removes)
    BY <1>1, <2>1, <2>2, OneLess
  <2> HIDE DEF N
  <2> QED
    BY <1>1, <1>2, <2>1, <2>2, <2>3
<1>6. CASE ReadExpired(r)
  BY <1>0, <1>6, WorkStep DEF Shorter, ProvidersAhead, Phase
<1>7. ASSUME NEW h \in People,
             Reclaim(r, h) \/ CloseReclaimed(r, h) \/ CloseGone(r, h)
      PROVE  Shorter(ss, rr)
  <2>1. \/ /\ rr.pc = "reclaim" /\ ss.pc \in {"reclaim", "close"}
           /\ h \in rr.expired /\ ss.expired = rr.expired \ {h}
        \/ /\ rr.pc = "close" /\ ss.pc = "reclaim" /\ ss.expired = rr.expired
    BY <1>7, WorkStep
  <2>2. ProvidersAhead(ss) = ProvidersAhead(rr) /\ Phase(ss) = Phase(rr)
    BY <1>0, <2>1 DEF ProvidersAhead, Phase
  <2>3. CASE /\ rr.pc = "reclaim" /\ ss.pc \in {"reclaim", "close"}
             /\ h \in rr.expired /\ ss.expired = rr.expired \ {h}
    <3>1. N(ss.expired) \in Nat /\ N(ss.expired) < N(rr.expired)
      BY <1>1, <2>3, OneLess
    <3>2. /\ Items(rr) = 2 * N(rr.expired)
          /\ Items(ss) \in {2 * N(ss.expired), 2 * N(ss.expired) + 1}
      BY <2>3 DEF Items
    <3> HIDE DEF N
    <3>3. Items(ss) < Items(rr)
      BY <1>1, <3>1, <3>2
    <3> QED
      BY <2>2, <3>3 DEF Shorter
  <2>4. CASE rr.pc = "close" /\ ss.pc = "reclaim" /\ ss.expired = rr.expired
    <3>1. Items(rr) = 2 * N(rr.expired) + 1 /\ Items(ss) = 2 * N(rr.expired)
      BY <2>4 DEF Items
    <3> HIDE DEF N
    <3>2. Items(ss) < Items(rr)
      BY <1>1, <3>1
    <3> QED
      BY <2>2, <3>2 DEF Shorter
  <2> QED
    BY <2>1, <2>3, <2>4
<1> QED
  BY <1>3, <1>4, <1>5, <1>6, <1>7

LEMMA DecidingShortens ==
  ASSUME TypeOK, NEW r \in Runners, Decide(r)
  PROVE  Shorter(run'[r], run[r])
<1> DEFINE rr == run[r]
           ss == run'[r]
           Planning(ok) ==
             [rr EXCEPT
                !.pc = "apply",
                !.cancels = IF rr.policy.grace > 0 /\ ok
                            THEN GetPendingRemovals(rr.prov) \ Orphaned(rr)
                            ELSE {},
                !.adds = IF rr.prov \in Adders THEN AddsOf(rr) ELSE {},
                !.removes = IF rr.prov \in Removers THEN RemovesOf(rr)
                            ELSE {}]
<1>0. rr \in RunState /\ run \in [Runners -> RunState] /\ rr.pc = "desired"
  BY DEF TypeOK, Decide
<1>1. /\ NextProvider(rr).pc = "next" /\ NextProvider(rr).left = rr.left
      /\ \A ok : Planning(ok).pc = "apply" /\ Planning(ok).left = rr.left
  BY <1>0 DEF NextProvider, RunState
<1>2. \/ ss = NextProvider(rr)
      \/ \E ok \in Outcome("readPending") : run' = [run EXCEPT ![r] = Planning(ok)]
  BY <1>0 DEF Decide
<1> HIDE DEF Planning
<1>3. ss.pc \in {"next", "apply"} /\ ss.left = rr.left
  BY <1>0, <1>1, <1>2
<1> QED
  BY <1>0, <1>3 DEF Shorter, ProvidersAhead, Phase

\* Every step of a pass brings it nearer its end: no failing call is tried
\* again, and no list that the pass works off grows (Reconciler.Run and what it
\* calls); and nobody else's step sets it back.
EveryStepShortens ==
  [][\A r \in Runners :
       /\ run[r].pc # "idle" /\ run'[r].pc # "idle"
       /\ Pass(r) \/ run'[r] # run[r]
       => Shorter(run'[r], run[r])]_vars

\* It does, of any finite size, whatever fails and whatever the others do.
THEOREM PassesAdvance ==
  ASSUME Finite
  PROVE  Spec => EveryStepShortens
<1>1. ASSUME TypeOK, NEW r \in Runners, Pass(r),
             run[r].pc # "idle", run'[r].pc # "idle"
      PROVE  Shorter(run'[r], run[r])
  BY <1>1, ReadingShortens, ActingShortens, DecidingShortens DEF Pass, Reads
<1>2. ASSUME TypeOK, [Next]_vars, NEW r \in Runners,
             run[r].pc # "idle", run'[r].pc # "idle", run'[r] # run[r]
      PROVE  Pass(r)
  <2>1. PICK q \in Runners : Pass(q) \/ Crash(q)
    <3>1. run' # run
      BY <1>2
    <3> QED
      BY <1>2, <3>1, WorldKeepsRuns DEF Next, vars
  <2>2. q = r
    BY <1>2, <2>1, OwnPass
  <2>3. ~Crash(r)
    BY <1>2 DEF Crash, TypeOK, Idle
  <2> QED
    BY <2>1, <2>2, <2>3
<1>3. TypeOK /\ [Next]_vars =>
        [\A r \in Runners :
           /\ run[r].pc # "idle" /\ run'[r].pc # "idle"
           /\ Pass(r) \/ run'[r] # run[r]
           => Shorter(run'[r], run[r])]_vars
  BY <1>1, <1>2
<1> QED
  BY <1>3, TypeCorrect, PTL DEF Spec, EveryStepShortens

\* And what is before a pass cannot grow shorter for ever, so a pass makes only
\* finitely many steps: with `PassesAdvance`, the part of termination that is
\* about the code and not about its scheduling.
THEOREM PassesAreFinite ==
  ASSUME Finite
  PROVE  ~\E f \in [Nat -> RunState] : \A n \in Nat : Shorter(f[n + 1], f[n])
<1> DEFINE Measure(rr) == <<ProvidersAhead(rr), <<Phase(rr), Items(rr)>>>>
<1>1. ASSUME NEW a \in RunState, NEW b \in RunState, Shorter(a, b)
      PROVE  LexLess(Measure(a), Measure(b))
  BY <1>1 DEF LexLess, Shorter
<1>2. \A rr \in RunState : Measure(rr) \in Triple
  BY MeasureNat DEF Triple
<1> HIDE DEF Measure
<1>3. ASSUME NEW f \in [Nat -> RunState],
             \A n \in Nat : Shorter(f[n + 1], f[n])
      PROVE  FALSE
  <2> DEFINE g == [n \in Nat |-> Measure(f[n])]
  <2>1. g \in [Nat -> Triple]
    BY <1>2
  <2>2. ASSUME NEW n \in Nat PROVE LexLess(g[n + 1], g[n])
    <3>1. /\ f[n] \in RunState /\ f[n + 1] \in RunState
          /\ g[n + 1] = Measure(f[n + 1]) /\ g[n] = Measure(f[n])
      OBVIOUS
    <3> QED
      BY <1>1, <1>3, <3>1
  <2> HIDE DEF g
  <2> QED
    BY <2>1, <2>2, NoDescent
<1> QED
  BY <1>3
=============================================================================
