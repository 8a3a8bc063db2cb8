------------------------------ MODULE SyncApply ------------------------------
(***************************************************************************)
(* The commands that make reconciliation passes (cli/sync.go): `sync       *)
(* watch`, the daemon, which passes again and again under the policy it    *)
(* was started with; `sync plan`, one dry pass; and `sync apply`, which    *)
(* makes a dry pass, asks, and makes a second pass.  The passes are those  *)
(* of Reconciler; several commands may run side by side.                   *)
(***************************************************************************)
EXTENDS Reconciler

CONSTANT Daemons   \* the processes that `sync watch` runs as

VARIABLES
  cmd,    \* the command each process runs
  since   \* history: ticks since every pass has found this identity gone

syncVars == <<vars, cmd, since>>

NoCommand == [does |-> "nothing", stage |-> "over",
              policy |-> CHOOSE p \in Policies : TRUE, plan |-> {}]

SyncInit ==
  /\ Init
  /\ cmd = [r \in Runners |-> NoCommand]
  /\ since = [p \in Providers |-> [h \in People |-> Off]]

Ran(r) == run[r].pc # "idle"
Dry(policy) == [policy EXCEPT !.dry = TRUE]

\* A policy may always be used dry.
ASSUME SyncAssumption == \A policy \in Policies : Dry(policy) \in Policies

\* A pass begins under a given policy.
Begin(r, policy) == StartRun(r) /\ run'[r].policy = policy
-----------------------------------------------------------------------------
(* The commands.                                                           *)

Command(r, does, stage, policy) ==
  /\ cmd[r] = NoCommand
  /\ cmd' = [cmd EXCEPT ![r] = [NoCommand EXCEPT !.does = does,
                                  !.stage = stage, !.policy = policy]]
  /\ UNCHANGED since

runSyncWatch(r) ==
  /\ r \in Daemons
  /\ \E policy \in Policies :
       Command(r, "watch", "passing", policy) /\ Begin(r, policy)

runSyncPlan(r) ==
  /\ r \notin Daemons
  /\ \E policy \in Policies :
       Command(r, "plan", "passing", Dry(policy)) /\ Begin(r, Dry(policy))

\* Mutant: the preview is made under the policy itself.
Preview_Live(policy) == policy

Preview(policy) == Dry(policy)

\* policies.dry_run forbids it.
runSyncApply(r) ==
  /\ r \notin Daemons
  /\ \E policy \in {q \in Policies : ~q.dry} :
       Command(r, "apply", "preview", policy) /\ Begin(r, Preview(policy))

\* The human at the prompt.
Confirm(r) ==
  /\ cmd[r].stage = "asked"
  /\ cmd' = [cmd EXCEPT ![r].stage = "passing"]
  /\ Begin(r, cmd[r].policy)
  /\ UNCHANGED since

Decline(r) ==
  /\ cmd[r].stage = "asked"
  /\ cmd' = [cmd EXCEPT ![r] = NoCommand]
  /\ UNCHANGED <<vars, since>>

\* Scheduler: the next tick of the daemon.
WatchAgain(r) ==
  /\ cmd[r].does = "watch"
  /\ Begin(r, cmd[r].policy)
  /\ UNCHANGED <<cmd, since>>
-----------------------------------------------------------------------------
(* A pass that has begun goes on as Reconciler says.                       *)

\* What the pass of r plans for the provider at hand.
Planned(rr) ==
  {<<rr.prov, "add", h>> : h \in AddsOf(rr)}
    \cup {<<rr.prov, "remove", s>> : s \in RemovesOf(rr)}

\* Whoever a pass does not find gone is not gone.
Noticed(rr) ==
  since' = [since EXCEPT ![rr.prov] =
              [h \in People |-> CASE h \notin Orphaned(rr) -> Off
                                  [] h \in Orphaned(rr) /\ @[h] = Off -> 0
                                  [] OTHER -> @[h]]]

DecideHere(r) ==
  /\ Decide(r)
  /\ Noticed(run[r])
  /\ cmd' = [cmd EXCEPT ![r].plan =
               IF cmd[r].stage = "preview" THEN @ \cup Planned(run[r]) ELSE @]

\* What becomes of a command whose pass is over: without a plan there is
\* nothing to ask, and nothing is applied.
Over(c, failed) ==
  IF c.does = "watch" THEN c
  ELSE IF c.stage = "preview" /\ ~failed /\ c.plan # {}
       THEN [c EXCEPT !.stage = "asked"]
       ELSE NoCommand

Finish(r) ==
  /\ FinishRun(r)
  /\ cmd' = [cmd EXCEPT ![r] = Over(@, FALSE)]
  /\ UNCHANGED since

\* Without the directory the pass fails, and with it the command.
Directory(r) ==
  /\ ReadDirectory(r)
  /\ cmd' = IF run'[r].pc = "idle" THEN [cmd EXCEPT ![r] = Over(@, TRUE)] ELSE cmd
  /\ UNCHANGED since

GoOn(r) ==
  /\ \/ ReadExpired(r) \/ FinishProvider(r)
     \/ \E g \in Groups : ReadGroupForAliases(r, g) \/ ReadGroupForDesired(r, g)
     \/ \E p \in Providers : ListSeats(r, p)
     \/ \E h \in People : \/ CancelReturned(r, h) \/ AddSeat(r, h)
                          \/ Reclaim(r, h) \/ CloseReclaimed(r, h)
                          \/ CloseGone(r, h)
     \/ \E s \in Raw : QueueRemoval(r, s) \/ RemoveNow(r, s)
  /\ UNCHANGED <<cmd, since>>

\* The process is interrupted or killed, at the prompt too.
Interrupt(r) ==
  /\ cmd[r] # NoCommand
  /\ run' = [run EXCEPT ![r] = Idle]
  /\ cmd' = [cmd EXCEPT ![r] = NoCommand]
  /\ UNCHANGED <<directory, members, seats, pending, age, since>>

TickHere ==
  /\ Tick
  /\ since' = [p \in Providers |-> [h \in People |-> Later(since[p][h])]]
  /\ UNCHANGED cmd

SyncNext ==
  \/ World /\ UNCHANGED <<cmd, since>>
  \/ TickHere
  \/ \E r \in Runners :
       \/ runSyncWatch(r) \/ runSyncPlan(r) \/ runSyncApply(r)
       \/ Confirm(r) \/ Decline(r) \/ WatchAgain(r)
       \/ DecideHere(r) \/ Directory(r) \/ GoOn(r) \/ Finish(r)
       \/ Interrupt(r)

SyncSpec == SyncInit /\ [][SyncNext]_syncVars
-----------------------------------------------------------------------------
(* Properties; those of Reconciler hold as well.                           *)

\* `sync plan`, and `sync apply` before a human has said yes to a plan that
\* was not empty, change neither a provider nor the countdowns, whatever other
\* commands run beside them.
NothingUnasked ==
  [][\A r \in Runners :
       /\ run'[r] # run[r] /\ cmd[r].does \in {"plan", "apply"}
       /\ <<seats, pending>>' # <<seats, pending>>
       => cmd[r].stage = "passing" /\ cmd[r].plan # {}]_syncVars

\* A countdown dies when its identity is active again, so a seat is taken only
\* when every pass of the whole grace period has found the identity gone.
GraceAfterReturn ==
  [][\A r \in Runners, p \in Providers, s \in Raw :
       Takes(r, p, s) /\ run[r].policy.grace > 0
         => since[p][Identity(run[r], s)] >= run[r].policy.grace]_syncVars
=============================================================================
