-------------------------- MODULE SyncApplyProofs --------------------------
(***************************************************************************)
(* Proofs about SyncApply, for every value of its constants: `sync plan`   *)
(* and `sync apply` change nothing before a human has said yes to a plan   *)
(* that was not empty, whatever fails and whoever runs beside them; the    *)
(* commands make passes of Reconciler; and they remove only orphans,       *)
(* nobody who is excepted or employed, and, in any setting, only from      *)
(* those at risk.                                                          *)
(***************************************************************************)
EXTENDS SyncApply, ReconcilerProofs

PlanOf == (Providers \cup {None}) \X {"add", "remove"} \X Raw

CommandOf == [does : {"nothing", "watch", "plan", "apply"},
              stage : {"over", "passing", "preview", "asked"},
              policy : Policies, plan : SUBSET PlanOf]

\* What holds of a pass rr and of the command c it belongs to.
PreviewDry(rr, c) ==
  c.does = "plan" \/ c.stage = "preview" => rr.pc = "idle" \/ rr.policy.dry

ShownFirst(rr, c) ==
  /\ c.stage \in {"preview", "asked"} => c.does = "apply"
  /\ c.stage = "asked" => rr.pc = "idle"
  /\ c.does = "apply" => /\ c.stage \in {"preview", "asked", "passing"}
                         /\ c.stage = "preview" \/ c.plan # {}

CommandOK(rr, c) == DryOK(rr) /\ PreviewDry(rr, c) /\ ShownFirst(rr, c)

SyncInv ==
  /\ TypeOK
  /\ cmd \in [Runners -> CommandOf]
  /\ \A r \in Runners : CommandOK(run[r], cmd[r])
-----------------------------------------------------------------------------
LEMMA DryPolicy ==
  ASSUME NEW policy \in Policies
  PROVE  Dry(policy) \in Policies /\ Dry(policy).dry = TRUE
<1>1. policy \in Policy
  BY ReconcilerAssumption
<1> QED
  BY <1>1, SyncAssumption DEF Dry, Policy

LEMMA NoCommandOK ==
  /\ NoCommand \in CommandOf
  /\ \A rr : DryOK(rr) => CommandOK(rr, NoCommand)
<1>1. (CHOOSE p \in Policies : TRUE) \in Policies
  BY ReconcilerAssumption
<1> QED
  BY <1>1 DEF NoCommand, CommandOf, CommandOK, PreviewDry, ShownFirst

LEMMA IdleOK == DryOK(Idle) /\ Idle.pc = "idle"
BY DEF Idle, DryOK, Acting

\* One command moves; the others keep their pass and their stage.
LEMMA OneMoves ==
  ASSUME SyncInv, NEW r \in Runners, TypeOK',
         \A q \in Runners \ {r} : run'[q] = run[q],
         NEW c \in CommandOf, cmd' = [cmd EXCEPT ![r] = c],
         CommandOK(run'[r], c)
  PROVE  SyncInv'
<1>1. cmd \in [Runners -> CommandOf]
  BY DEF SyncInv
<1>2. cmd' \in [Runners -> CommandOf] /\ cmd'[r] = c
  BY <1>1
<1>3. ASSUME NEW q \in Runners PROVE CommandOK(run'[q], cmd'[q])
  <2>1. CASE q = r
    BY <1>2, <2>1
  <2>2. CASE q # r
    BY <1>1, <2>2 DEF SyncInv
  <2> QED
    BY <2>1, <2>2
<1> QED
  BY <1>2, <1>3 DEF SyncInv

\* A pass begins under the policy it is given.
LEMMA BeginFacts ==
  ASSUME SyncInv, NEW r \in Runners, NEW policy, Begin(r, policy)
  PROVE  /\ TypeOK' /\ \A q \in Runners \ {r} : run'[q] = run[q]
         /\ DryOK(run'[r]) /\ run'[r].policy = policy
         /\ run[r].pc = "idle"
<1>1. Pass(r) /\ TypeOK /\ run'[r].policy = policy /\ run[r].pc = "idle"
  BY DEF Begin, StartRun, Pass, SyncInv
<1>2. TypeOK'
  BY <1>1, PassType
<1>3. \A q \in Runners \ {r} : run'[q] = run[q]
  BY <1>1, OwnPass
<1>4. DryOK(run'[r])
  BY <1>1, PassPhase DEF SyncInv, CommandOK
<1> QED
  BY <1>1, <1>2, <1>3, <1>4
-----------------------------------------------------------------------------
(* The commands begin, are answered, and end.                              *)

LEMMA StartInv ==
  ASSUME SyncInv, NEW r \in Runners,
         runSyncWatch(r) \/ runSyncPlan(r) \/ runSyncApply(r)
  PROVE  SyncInv'
<1>1. ASSUME NEW policy \in Policies, NEW does, NEW stage,
             <<does, stage>> \in {<<"watch", "passing">>, <<"plan", "passing">>,
                                  <<"apply", "preview">>},
             NEW used, does # "watch" => used.dry,
             Command(r, does, stage, policy), Begin(r, used)
      PROVE  SyncInv'
  <2> DEFINE c == [NoCommand EXCEPT !.does = does, !.stage = stage,
                                    !.policy = policy]
  <2>1. /\ c \in CommandOf /\ c.does = does /\ c.stage = stage
        /\ cmd' = [cmd EXCEPT ![r] = c]
    BY <1>1, NoCommandOK DEF Command, CommandOf
  <2> HIDE DEF c
  <2>2. /\ TypeOK' /\ \A q \in Runners \ {r} : run'[q] = run[q]
        /\ DryOK(run'[r]) /\ run'[r].policy = used
    BY <1>1, BeginFacts
  <2>3. CommandOK(run'[r], c)
    BY <1>1, <2>1, <2>2 DEF CommandOK, PreviewDry, ShownFirst
  <2> QED
    BY <2>1, <2>2, <2>3, OneMoves
<1>2. CASE runSyncWatch(r)
  BY <1>1, <1>2 DEF runSyncWatch
<1>3. CASE runSyncPlan(r)
  <2>1. PICK policy \in Policies :
          Command(r, "plan", "passing", Dry(policy)) /\ Begin(r, Dry(policy))
    BY <1>3 DEF runSyncPlan
  <2>2. Dry(policy) \in Policies /\ Dry(policy).dry
    BY DryPolicy
  <2> QED
    BY <1>1, <2>1, <2>2
<1>4. CASE runSyncApply(r)
  <2>1. PICK policy \in Policies :
          Command(r, "apply", "preview", policy) /\ Begin(r, Preview(policy))
    BY <1>4 DEF runSyncApply
  <2>2. Preview(policy).dry
    BY DryPolicy DEF Preview
  <2> QED
    BY <1>1, <2>1, <2>2
<1> QED
  BY <1>2, <1>3, <1>4

LEMMA AnswerInv ==
  ASSUME SyncInv, NEW r \in Runners, Confirm(r) \/ Decline(r) \/ WatchAgain(r)
  PROVE  SyncInv'
<1>0. /\ cmd \in [Runners -> CommandOf] /\ cmd[r] \in CommandOf
      /\ CommandOK(run[r], cmd[r])
  BY DEF SyncInv
<1>1. CASE Confirm(r)
  <2> DEFINE c == [cmd[r] EXCEPT !.stage = "passing"]
  <2>1. cmd[r].stage = "asked" /\ cmd' = [cmd EXCEPT ![r] = c]
    BY <1>0, <1>1 DEF Confirm
  <2>2. /\ c \in CommandOf /\ c.does = cmd[r].does /\ c.stage = "passing"
        /\ c.plan = cmd[r].plan
    BY <1>0 DEF CommandOf
  <2> HIDE DEF c
  <2>3. /\ TypeOK' /\ \A q \in Runners \ {r} : run'[q] = run[q]
        /\ DryOK(run'[r])
    BY <1>1, BeginFacts DEF Confirm
  <2>4. cmd[r].does = "apply"
    BY <1>0, <2>1 DEF CommandOK, ShownFirst
  <2>5. CommandOK(run'[r], c)
    BY <1>0, <2>1, <2>2, <2>3, <2>4 DEF CommandOK, PreviewDry, ShownFirst
  <2> QED
    BY <2>1, <2>2, <2>3, <2>5, OneMoves
<1>2. CASE Decline(r)
  <2>1. /\ UNCHANGED vars /\ cmd' = [cmd EXCEPT ![r] = NoCommand]
    BY <1>2 DEF Decline
  <2>2. TypeOK' /\ run' = run
    BY <2>1 DEF SyncInv, TypeOK, vars
  <2> QED
    BY <1>0, <2>1, <2>2, NoCommandOK, OneMoves DEF CommandOK
<1>3. CASE WatchAgain(r)
  <2>1. cmd[r].does = "watch" /\ cmd' = [cmd EXCEPT ![r] = cmd[r]]
    BY <1>0, <1>3 DEF WatchAgain
  <2>2. /\ TypeOK' /\ \A q \in Runners \ {r} : run'[q] = run[q]
        /\ DryOK(run'[r])
    BY <1>3, BeginFacts DEF WatchAgain
  <2>3. CommandOK(run'[r], cmd[r])
    BY <1>0, <2>1, <2>2 DEF CommandOK, PreviewDry, ShownFirst
  <2> QED
    BY <1>0, <2>1, <2>2, <2>3, OneMoves
<1> QED
  BY <1>1, <1>2, <1>3
-----------------------------------------------------------------------------
(* A pass goes on.                                                         *)

\* A step inside a pass is one of Reconciler's, and a pass is under way.
LEMMA InsidePass ==
  ASSUME SyncInv, NEW r \in Runners,
         GoOn(r) \/ DecideHere(r) \/ Directory(r) \/ Finish(r)
  PROVE  /\ Pass(r) /\ run[r].pc # "idle"
         /\ TypeOK' /\ \A q \in Runners \ {r} : run'[q] = run[q]
         /\ DryOK(run'[r])
         /\ run'[r].pc # "idle" => run'[r].policy = run[r].policy
<1>1. Pass(r)
  BY DEF GoOn, DecideHere, Directory, Finish, Pass
<1>2. ASSUME GoOn(r) PROVE run[r].pc # "idle"
  BY <1>2 DEF GoOn, ReadExpired, FinishProvider, ActionsDone,
     ReadGroupForAliases, ReadGroupForDesired, ListSeats, CancelReturned,
     AddSeat, Reclaim, CloseReclaimed, CloseGone, QueueRemoval, RemoveNow
<1>3. ASSUME DecideHere(r) \/ Directory(r) \/ Finish(r)
      PROVE  run[r].pc # "idle"
  BY <1>3 DEF DecideHere, Directory, Finish, Decide, ReadDirectory, FinishRun
<1>4. run[r].pc # "idle"
  BY <1>2, <1>3
<1>5. TypeOK /\ DryOK(run[r])
  BY DEF SyncInv, CommandOK
<1>6. TypeOK'
  BY <1>1, <1>5, PassType
<1>7. \A q \in Runners \ {r} : run'[q] = run[q]
  BY <1>1, <1>5, OwnPass
<1>8. /\ DryOK(run'[r])
      /\ run'[r].pc # "idle" => run'[r].policy = run[r].policy
  BY <1>1, <1>4, <1>5, PassPhase
<1> QED
  BY <1>1, <1>4, <1>6, <1>7, <1>8

LEMMA GoOnInv ==
  ASSUME SyncInv, NEW r \in Runners, GoOn(r)
  PROVE  SyncInv'
<1>1. /\ cmd \in [Runners -> CommandOf] /\ cmd[r] \in CommandOf
      /\ CommandOK(run[r], cmd[r])
  BY DEF SyncInv
<1>2. cmd' = [cmd EXCEPT ![r] = cmd[r]]
  BY <1>1 DEF GoOn
<1>3. CommandOK(run'[r], cmd[r])
  BY <1>1, InsidePass DEF CommandOK, PreviewDry, ShownFirst
<1> QED
  BY <1>1, <1>2, <1>3, InsidePass, OneMoves

\* What a preview plans is collected; nothing else of the command changes.
LEMMA DecideHereInv ==
  ASSUME SyncInv, NEW r \in Runners, DecideHere(r)
  PROVE  SyncInv'
<1> DEFINE plan == IF cmd[r].stage = "preview"
                   THEN cmd[r].plan \cup Planned(run[r]) ELSE cmd[r].plan
           c == [cmd[r] EXCEPT !.plan = plan]
<1>1. /\ cmd \in [Runners -> CommandOf] /\ cmd[r] \in CommandOf
      /\ CommandOK(run[r], cmd[r]) /\ run[r] \in RunState
  BY DEF SyncInv, TypeOK
<1>2. cmd' = [cmd EXCEPT ![r] = c]
  BY <1>1 DEF DecideHere
<1>3. Planned(run[r]) \in SUBSET PlanOf
  <2>1. AddsOf(run[r]) \subseteq Raw
    BY <1>1 DEF AddsOf, ToAdd, RunState, Raw
  <2>2. RemovesOf(run[r]) \subseteq Raw
    BY DEF RemovesOf, ToRemove, Present
  <2>3. run[r].prov \in Providers \cup {None}
    BY <1>1 DEF RunState
  <2> QED
    BY <2>1, <2>2, <2>3 DEF Planned, PlanOf
<1>4. plan \in SUBSET PlanOf
  BY <1>1, <1>3 DEF CommandOf
<1>5. cmd[r].stage # "preview" => plan = cmd[r].plan
  OBVIOUS
<1> HIDE DEF plan
<1>6. /\ c \in CommandOf /\ c.does = cmd[r].does /\ c.stage = cmd[r].stage
      /\ c.plan = plan
  BY <1>1, <1>4 DEF CommandOf
<1> HIDE DEF c
<1>7. CommandOK(run'[r], c)
  BY <1>1, <1>5, <1>6, InsidePass DEF CommandOK, PreviewDry, ShownFirst
<1> QED
  BY <1>2, <1>6, <1>7, InsidePass, OneMoves

LEMMA OverInv ==
  ASSUME SyncInv, NEW r \in Runners, Directory(r) \/ Finish(r)
  PROVE  SyncInv'
<1>1. /\ cmd \in [Runners -> CommandOf] /\ cmd[r] \in CommandOf
      /\ CommandOK(run[r], cmd[r])
  BY DEF SyncInv
<1>2. ASSUME NEW failed \in BOOLEAN, run'[r].pc = "idle",
             cmd' = [cmd EXCEPT ![r] = Over(cmd[r], failed)]
      PROVE  SyncInv'
  <2> DEFINE asked == [cmd[r] EXCEPT !.stage = "asked"]
  <2>1. \/ cmd[r].does = "watch" /\ cmd' = [cmd EXCEPT ![r] = cmd[r]]
        \/ /\ cmd[r].stage = "preview" /\ cmd[r].plan # {}
           /\ cmd' = [cmd EXCEPT ![r] = asked]
        \/ cmd' = [cmd EXCEPT ![r] = NoCommand]
    BY <1>2 DEF Over
  <2>2. /\ asked \in CommandOf /\ asked.does = cmd[r].does
        /\ asked.stage = "asked" /\ asked.plan = cmd[r].plan
    BY <1>1 DEF CommandOf
  <2> HIDE DEF asked
  <2>3. cmd[r].does = "watch" => CommandOK(run'[r], cmd[r])
    BY <1>1, <1>2, InsidePass DEF CommandOK, PreviewDry, ShownFirst
  <2>4. cmd[r].stage = "preview" /\ cmd[r].plan # {} => CommandOK(run'[r], asked)
    BY <1>1, <1>2, <2>2, InsidePass DEF CommandOK, PreviewDry, ShownFirst
  <2>5. NoCommand \in CommandOf /\ CommandOK(run'[r], NoCommand)
    BY NoCommandOK, InsidePass
  <2>6. TypeOK' /\ \A q \in Runners \ {r} : run'[q] = run[q]
    BY InsidePass
  <2> QED
    BY <1>1, <2>1, <2>2, <2>3, <2>4, <2>5, <2>6, OneMoves
<1>3. CASE Finish(r)
  <2>1. run'[r].pc = "idle"
    BY <1>3, IdleOK DEF Finish, FinishRun, SyncInv, TypeOK
  <2> QED
    BY <1>2, <1>3, <2>1 DEF Finish
<1>4. CASE Directory(r) /\ run'[r].pc = "idle"
  BY <1>2, <1>4 DEF Directory
<1>5. CASE Directory(r) /\ run'[r].pc # "idle"
  <2>1. cmd' = [cmd EXCEPT ![r] = cmd[r]]
    BY <1>1, <1>5 DEF Directory
  <2>2. CommandOK(run'[r], cmd[r])
    BY <1>1, InsidePass DEF CommandOK, PreviewDry, ShownFirst
  <2> QED
    BY <1>1, <2>1, <2>2, InsidePass, OneMoves
<1> QED
  BY <1>3, <1>4, <1>5

LEMMA InterruptInv ==
  ASSUME SyncInv, NEW r \in Runners, Interrupt(r)
  PROVE  SyncInv'
<1>1. /\ cmd' = [cmd EXCEPT ![r] = NoCommand]
      /\ run' = [run EXCEPT ![r] = Idle]
      /\ UNCHANGED <<directory, members, seats, pending, age>>
  BY DEF Interrupt
<1>2. run \in [Runners -> RunState]
  BY DEF SyncInv, TypeOK
<1>3. TypeOK' /\ \A q \in Runners \ {r} : run'[q] = run[q]
  BY <1>1, <1>2, IdleType DEF SyncInv, TypeOK
<1>4. CommandOK(run'[r], NoCommand) /\ NoCommand \in CommandOf
  BY <1>1, <1>2, IdleOK, NoCommandOK
<1> QED
  BY <1>1, <1>3, <1>4, OneMoves
-----------------------------------------------------------------------------
(* The theorems.                                                           *)

LEMMA SyncInitInv == SyncInit => SyncInv
<1> SUFFICES ASSUME SyncInit PROVE SyncInv
  OBVIOUS
<1>1. TypeOK
  BY IdleType, ReconcilerAssumption
     DEF SyncInit, Init, TypeOK, DirectoryStatus, Countdown, Off
<1>2. \A r \in Runners : run[r] = Idle /\ cmd[r] = NoCommand
  BY DEF SyncInit, Init
<1>3. cmd \in [Runners -> CommandOf]
  BY NoCommandOK DEF SyncInit
<1> QED
  BY <1>1, <1>2, <1>3, IdleOK, NoCommandOK DEF SyncInv

LEMMA SyncNextInv == SyncInv /\ [SyncNext]_syncVars => SyncInv'
<1> SUFFICES ASSUME SyncInv, [SyncNext]_syncVars PROVE SyncInv'
  OBVIOUS
<1>1. CASE UNCHANGED syncVars
  BY <1>1 DEF syncVars, vars, SyncInv, TypeOK
<1>2. CASE (World /\ UNCHANGED <<cmd, since>>) \/ TickHere
  <2>1. TypeOK' /\ run' = run /\ cmd' = cmd
    BY <1>2, WorldType, WorldKeepsRuns DEF TickHere, SyncInv
  <2> QED
    BY <2>1 DEF SyncInv
<1> QED
  BY <1>1, <1>2, StartInv, AnswerInv, DecideHereInv, OverInv, GoOnInv,
     InterruptInv DEF SyncNext

\* The inductive invariant: a preview and a plan are dry, and a pass that is
\* not was asked about with a plan that was not empty.
THEOREM SyncInvariant == SyncSpec => []SyncInv
BY SyncInitInv, SyncNextInv, PTL DEF SyncSpec

\* A step that moves a pass and changes a seat or a countdown is a step inside
\* that pass.
LEMMA ChangedInside ==
  ASSUME SyncInv, [SyncNext]_syncVars, NEW r \in Runners, run'[r] # run[r],
         <<seats, pending>>' # <<seats, pending>>
  PROVE  GoOn(r) \/ DecideHere(r) \/ Directory(r) \/ Finish(r)
<1>1. PICK q \in Runners :
        \/ runSyncWatch(q) \/ runSyncPlan(q) \/ runSyncApply(q)
        \/ Confirm(q) \/ Decline(q) \/ WatchAgain(q) \/ Interrupt(q)
        \/ DecideHere(q) \/ Directory(q) \/ GoOn(q) \/ Finish(q)
  BY WorldKeepsRuns DEF SyncNext, syncVars, vars, TickHere
<1>2. ASSUME NEW policy, Begin(q, policy) PROVE FALSE
  BY <1>2 DEF Begin, StartRun
<1>3. ~(runSyncWatch(q) \/ runSyncPlan(q) \/ runSyncApply(q))
  BY <1>2 DEF runSyncWatch, runSyncPlan, runSyncApply
<1>4. ~(Confirm(q) \/ Decline(q) \/ WatchAgain(q) \/ Interrupt(q))
  BY <1>2 DEF Confirm, Decline, WatchAgain, Interrupt, vars
<1>5. q = r
  BY <1>1, <1>3, <1>4, InsidePass
<1> QED
  BY <1>1, <1>3, <1>4, <1>5

\* `sync plan`, and `sync apply` before a human has said yes, change neither a
\* provider nor the countdowns (cli/sync.go: runSyncPlan, runSyncApply).
THEOREM SyncNothingUnasked == SyncSpec => NothingUnasked
<1> DEFINE Asked == \A r \in Runners :
             /\ run'[r] # run[r] /\ cmd[r].does \in {"plan", "apply"}
             /\ <<seats, pending>>' # <<seats, pending>>
             => cmd[r].stage = "passing" /\ cmd[r].plan # {}
<1>1. ASSUME SyncInv, [SyncNext]_syncVars, NEW r \in Runners,
             run'[r] # run[r], cmd[r].does \in {"plan", "apply"},
             <<seats, pending>>' # <<seats, pending>>
      PROVE  cmd[r].stage = "passing" /\ cmd[r].plan # {}
  <2>1. Pass(r)
    BY <1>1, ChangedInside, InsidePass
  <2>2. run[r].pc \in Acting
    BY <1>1, <2>1, PassPhase DEF SyncInv
  <2>3. CommandOK(run[r], cmd[r])
    BY <1>1 DEF SyncInv
  <2>4. ~run[r].policy.dry /\ run[r].pc # "idle"
    BY <2>2, <2>3 DEF CommandOK, DryOK, Acting
  <2> QED
    BY <1>1, <2>3, <2>4 DEF CommandOK, PreviewDry, ShownFirst
<1>2. SyncInv /\ [SyncNext]_syncVars => [Asked]_syncVars
  BY <1>1
<1> QED
  BY <1>2, SyncInvariant, PTL DEF SyncSpec, NothingUnasked
-----------------------------------------------------------------------------
(* The commands make passes of Reconciler, and what is proved of those holds *)
(* of them.                                                                  *)

\* Besides interrupting a pass, the commands do nothing that Reconciler does
\* not.
LEMMA SyncStep ==
  ASSUME [SyncNext]_syncVars, \A r \in Runners : ~Interrupt(r)
  PROVE  [Next]_vars
<1>1. CASE UNCHANGED syncVars
  BY <1>1 DEF syncVars
<1>2. CASE (World /\ UNCHANGED <<cmd, since>>) \/ TickHere
  BY <1>2 DEF TickHere, Next
<1>3. ASSUME NEW r \in Runners, NEW policy, Begin(r, policy) PROVE Next
  BY <1>3 DEF Begin, Pass, Next
<1>4. ASSUME NEW r \in Runners,
             \/ runSyncWatch(r) \/ runSyncPlan(r) \/ runSyncApply(r)
             \/ Confirm(r) \/ WatchAgain(r)
      PROVE  Next
  BY <1>3, <1>4 DEF runSyncWatch, runSyncPlan, runSyncApply, Confirm, WatchAgain
<1>5. ASSUME NEW r \in Runners,
             DecideHere(r) \/ Directory(r) \/ GoOn(r) \/ Finish(r)
      PROVE  Next
  BY <1>5 DEF GoOn, DecideHere, Directory, Finish, Pass, Next
<1>6. ASSUME NEW r \in Runners, Decline(r) PROVE UNCHANGED vars
  BY <1>6 DEF Decline
<1> QED
  BY <1>1, <1>2, <1>4, <1>5, <1>6 DEF SyncNext

\* A pass that is over leaves nothing behind.
LEMMA PassLeavesIdle ==
  ASSUME TypeOK, NEW r \in Runners, Pass(r) \/ Crash(r),
         run'[r].pc = "idle"
  PROVE  run'[r] = Idle
<1> DEFINE rr == run[r]
<1>0. rr \in RunState /\ run \in [Runners -> RunState]
  BY DEF TypeOK
<1>1. NextProvider(rr).pc = "next"
  BY <1>0 DEF NextProvider, RunState
<1>2. CASE FinishRun(r) \/ Crash(r)
  BY <1>0, <1>2 DEF FinishRun, Crash
<1>3. CASE StartRun(r)
  <2>1. PICK pol \in Policies :
          run' = [run EXCEPT ![r] = [Idle EXCEPT !.pc = "aliases",
                                                 !.policy = pol,
                                                 !.unread = Groups]]
    BY <1>3 DEF StartRun
  <2>2. run'[r].pc = "aliases"
    BY <1>0, <2>1, IdleType DEF RunState
  <2> QED
    BY <2>2
<1>4. CASE ReadDirectory(r)
  <2>1. \/ run'[r] = Idle
        \/ run'[r] = [rr EXCEPT !.pc = "next", !.dir = directory,
                                !.left = Providers]
    BY <1>0, <1>4 DEF ReadDirectory
  <2>2. [rr EXCEPT !.pc = "next", !.dir = directory, !.left = Providers].pc
          = "next"
    BY <1>0 DEF RunState
  <2> QED
    BY <2>1, <2>2
<1>5. CASE FinishProvider(r)
  BY <1>0, <1>1, <1>5 DEF FinishProvider
<1>6. ASSUME NEW g \in Groups, ReadGroupForDesired(r, g) PROVE FALSE
  <2>1. \/ run'[r] = NextProvider(rr)
        \/ run'[r] = [rr EXCEPT !.unread = rr.unread \ {g},
                                !.desired = rr.desired \cup members[g]]
    BY <1>0, <1>6 DEF ReadGroupForDesired, Abandon
  <2>2. [rr EXCEPT !.unread = rr.unread \ {g},
                   !.desired = rr.desired \cup members[g]].pc = "desired"
    BY <1>0, <1>6 DEF ReadGroupForDesired, RunState
  <2> QED
    BY <1>1, <2>1, <2>2
<1>7. ASSUME \/ \E g \in Groups : ReadGroupForAliases(r, g)
             \/ \E p \in Providers : ListSeats(r, p)
      PROVE  FALSE
  <2>1. ASSUME NEW g \in Groups, ReadGroupForAliases(r, g)
        PROVE  run'[r].pc = "aliases"
    BY <1>0, <2>1 DEF ReadGroupForAliases, RunState
  <2>2. ASSUME NEW p \in Providers, ListSeats(r, p)
        PROVE  run'[r].pc \in {"next", "desired"}
    BY <1>0, <2>2 DEF ListSeats, Abandon, NextProvider, RunState
  <2> QED
    BY <1>7, <2>1, <2>2
<1>8. ASSUME Decide(r) PROVE FALSE
  <2> DEFINE Planning(ok) ==
               [rr EXCEPT
                  !.pc = "apply",
                  !.cancels = IF rr.policy.grace > 0 /\ ok
                              THEN GetPendingRemovals(rr.prov) \ Orphaned(rr)
                              ELSE {},
                  !.adds = IF rr.prov \in Adders THEN AddsOf(rr) ELSE {},
                  !.removes = IF rr.prov \in Removers THEN RemovesOf(rr)
                              ELSE {}]
  <2>1. \/ run'[r] = NextProvider(rr)
        \/ \E ok \in Outcome("readPending") :
             run' = [run EXCEPT ![r] = Planning(ok)]
    BY <1>0, <1>8 DEF Decide
  <2>2. \A ok : Planning(ok).pc = "apply"
    BY <1>0 DEF RunState
  <2> HIDE DEF Planning
  <2> QED
    BY <1>0, <1>1, <2>1, <2>2
<1>9. ASSUME \/ ReadExpired(r)
             \/ \E h \in People : \/ CancelReturned(r, h) \/ AddSeat(r, h)
                                  \/ Reclaim(r, h) \/ CloseReclaimed(r, h)
                                  \/ CloseGone(r, h)
             \/ \E s \in Raw : QueueRemoval(r, s) \/ RemoveNow(r, s)
      PROVE  FALSE
  <2>1. ASSUME ReadExpired(r) PROVE run'[r].pc = "reclaim"
    BY <1>0, <2>1 DEF ReadExpired, RunState
  <2>2. ASSUME NEW h \in People, CancelReturned(r, h) \/ AddSeat(r, h)
        PROVE  run'[r].pc = "apply"
    <3>1. /\ rr.pc = "apply"
          /\ \/ run'[r] = [rr EXCEPT !.cancels = rr.cancels \ {h}]
             \/ run'[r] = [rr EXCEPT !.adds = rr.adds \ {h}]
      BY <1>0, <2>2 DEF CancelReturned, AddSeat
    <3> QED
      BY <1>0, <3>1 DEF RunState
  <2>3. ASSUME NEW h \in People,
               Reclaim(r, h) \/ CloseReclaimed(r, h) \/ CloseGone(r, h)
        PROVE  run'[r].pc \in {"reclaim", "close"}
    <3>1. CASE Reclaim(r, h)
      BY <1>0, <3>1 DEF Reclaim, RunState
    <3>2. CASE CloseReclaimed(r, h)
      BY <1>0, <3>2 DEF CloseReclaimed, RunState
    <3>3. CASE CloseGone(r, h)
      BY <1>0, <3>3 DEF CloseGone, RunState
    <3> QED
      BY <2>3, <3>1, <3>2, <3>3
  <2>4. ASSUME NEW s \in Raw, QueueRemoval(r, s) \/ RemoveNow(r, s)
        PROVE  run'[r].pc = "apply"
    <3>1. /\ rr.pc = "apply"
          /\ run'[r] = [rr EXCEPT !.removes = rr.removes \ {s}]
      BY <1>0, <2>4 DEF QueueRemoval, RemoveNow
    <3> QED
      BY <1>0, <3>1 DEF RunState
  <2> QED
    BY <1>9, <2>1, <2>2, <2>3, <2>4
<1> QED
  BY <1>2, <1>3, <1>4, <1>5, <1>6, <1>7, <1>8, <1>9 DEF Pass

OverIsIdle == \A r \in Runners : run[r].pc = "idle" => run[r] = Idle

\* The commands, however they are started, confirmed and interrupted, are
\* processes that make passes and may crash (cli/sync.go calls nothing of the
\* reconciler but Run).
THEOREM SyncRefines ==
  ASSUME "crash" \in Faults
  PROVE  SyncSpec => Spec
<1>1. SyncInit => Init /\ OverIsIdle
  BY DEF SyncInit, Init, OverIsIdle
<1>2. ASSUME SyncInv, OverIsIdle, [SyncNext]_syncVars
      PROVE  [Next]_vars /\ OverIsIdle'
  <2>0. TypeOK /\ run \in [Runners -> RunState]
    BY <1>2 DEF SyncInv, TypeOK
  <2>1. ASSUME NEW r \in Runners, Interrupt(r) PROVE [Next]_vars /\ OverIsIdle'
    <3>1. OverIsIdle'
      BY <1>2, <2>0, <2>1 DEF Interrupt, OverIsIdle
    <3>2. CASE run[r].pc = "idle"
      <4>1. run' = run
        BY <1>2, <2>0, <2>1, <3>2 DEF Interrupt, OverIsIdle
      <4> QED
        BY <2>1, <3>1, <4>1 DEF Interrupt, vars
    <3>3. CASE run[r].pc # "idle"
      <4>1. Crash(r)
        BY <2>1, <3>3 DEF Interrupt, Crash
      <4> QED
        BY <3>1, <4>1 DEF Next
    <3> QED
      BY <3>2, <3>3
  <2>2. CASE \A r \in Runners : ~Interrupt(r)
    <3>1. [Next]_vars
      BY <1>2, <2>2, SyncStep
    <3>2. CASE run' = run
      BY <1>2, <3>1, <3>2 DEF OverIsIdle
    <3>3. ASSUME NEW q \in Runners, Pass(q) \/ Crash(q) PROVE OverIsIdle'
      BY <1>2, <2>0, <3>3, OwnPass, PassLeavesIdle DEF OverIsIdle
    <3> QED
      BY <3>1, <3>2, <3>3, WorldKeepsRuns DEF Next, vars
  <2> QED
    BY <2>1, <2>2
<1> QED
  BY <1>1, <1>2, SyncInvariant, PTL DEF SyncSpec, Spec

\* An interrupted pass has no plan any more, and the others keep theirs.
LEMMA InterruptKeepsPlans ==
  ASSUME IInv, NEW r \in Runners, Interrupt(r)
  PROVE  IInv' /\ UNCHANGED <<seats, pending>>
<1>1. /\ run' = [run EXCEPT ![r] = Idle]
      /\ UNCHANGED <<directory, members, seats, pending, age>>
      /\ run \in [Runners -> RunState]
  BY DEF Interrupt, IInv, TypeOK
<1>2. TypeOK'
  BY <1>1, IdleType DEF IInv, TypeOK
<1>3. PassInv(r)'
  <2>1. run'[r].pc = "idle"
    BY <1>1, IdleOK
  <2> QED
    BY <2>1 DEF PassInv
<1>4. ASSUME NEW q \in Runners, q # r PROVE PassInv(q)'
  <2>1. run'[q] = run[q] /\ pending' = pending
    BY <1>1, <1>4
  <2> QED
    BY <2>1 DEF IInv, PassInv, Removable, MayExpire, ExceptionsOf, Identity,
                IndexOf
<1> QED
  BY <1>1, <1>2, <1>3, <1>4 DEF IInv

\* The plans of the passes that the commands make are sound.
LEMMA SyncPlansSound ==
  ASSUME SafeSetting
  PROVE  SyncSpec => []IInv
<1>1. SyncInit => IInv
  BY InitInv DEF SyncInit
<1>2. ASSUME IInv, [SyncNext]_syncVars PROVE IInv'
  BY <1>2, SyncStep, StepInv, InterruptKeepsPlans
<1> QED
  BY <1>1, <1>2, PTL DEF SyncSpec

LEMMA SyncTakesSound ==
  ASSUME SafeSetting, IInv, [SyncNext]_syncVars,
         NEW r \in Runners, NEW p \in Providers, NEW s \in Raw, Takes(r, p, s)
  PROVE  p = run[r].prov /\ Removable(run[r], Identity(run[r], s))
<1>1. \A q \in Runners : ~Interrupt(q)
  BY InterruptKeepsPlans DEF Takes
<1> QED
  BY <1>1, SyncStep, TakesSound

\* Only orphans are removed by the daemon, by `sync apply` and by both at once,
\* confirmed, declined or interrupted at any moment (cli/sync.go).
THEOREM SyncOnlyOrphansRemoved ==
  ASSUME SafeSetting
  PROVE  SyncSpec => OnlyTheDeparted
<1>1. IInv /\ [SyncNext]_syncVars =>
        [\A r \in Runners, p \in Providers, s \in Raw : Takes(r, p, s) =>
           /\ Identity(run[r], s) \in Corporate
           /\ run[r].dir[Identity(run[r], s)] # "active"]_vars
  BY SyncTakesSound DEF Removable
<1> QED
  BY <1>1, SyncPlansSound, PTL DEF SyncSpec, OnlyTheDeparted

\* The exceptions of the policy a pass runs under are honoured, also by the
\* countdowns another command began under a policy without them.
THEOREM SyncExceptionsHonoured ==
  ASSUME SafeSetting, LowerCased = People
  PROVE  SyncSpec => ExceptionsKept
<1>1. IInv /\ [SyncNext]_syncVars =>
        [\A r \in Runners, p \in Providers, s \in Raw : Takes(r, p, s) =>
           Identity(run[r], s) \notin run[r].policy.exceptions[p]]_vars
  <2>1. ASSUME IInv, NEW r \in Runners, NEW p \in Providers
        PROVE  run[r].policy.exceptions[p] \subseteq People
    BY <2>1, ReconcilerAssumption DEF IInv, TypeOK, RunState, Policy
  <2> QED
    BY <2>1, SyncTakesSound DEF Removable, ExceptionsOf
<1> QED
  BY <1>1, SyncPlansSound, PTL DEF SyncSpec, ExceptionsKept

\* An interrupted pass knows nobody, and the others whom they knew.
LEMMA InterruptKeepsKnown ==
  ASSUME KnownInv, NEW r \in Runners, Interrupt(r)
  PROVE  KnownInv'
<1>1. /\ run' = [run EXCEPT ![r] = Idle]
      /\ UNCHANGED <<directory, members, seats, pending, age>>
      /\ run \in [Runners -> RunState]
  BY DEF Interrupt, KnownInv, TypeOK
<1>2. TypeOK'
  BY <1>1, IdleType DEF KnownInv, TypeOK
<1>3. KnownPass(Idle)
  BY IdleOK DEF KnownPass
<1>4. \A q \in Runners : KnownPass(run'[q])
  BY <1>1, <1>3 DEF KnownInv
<1> QED
  BY <1>1, <1>2, <1>4 DEF KnownInv

LEMMA SyncIndexKnowsResidents == SyncSpec => []KnownInv
<1>1. SyncInit => KnownInv
  BY KnownInit DEF SyncInit
<1>2. ASSUME KnownInv, [SyncNext]_syncVars PROVE KnownInv'
  BY <1>2, SyncStep, KnownStep, InterruptKeepsKnown
<1> QED
  BY <1>1, <1>2, PTL DEF SyncSpec

\* Nobody whom the pass has read as active loses a seat they use, provided the
\* names tell who uses what (BuildAliasIndex, executeActions).
THEOREM SyncEmployeesKeepSeats ==
  ASSUME SafeSetting, NamesTell
  PROVE  SyncSpec => EmployeesKept
<1>1. ASSUME IInv, KnownInv, [SyncNext]_syncVars, NEW r \in Runners,
             NEW p \in Providers, NEW s \in Raw, Takes(r, p, s)
      PROVE  run[r].dir[Holder[s]] # "active"
  <2>1. Removable(run[r], Identity(run[r], s)) /\ run[r] \in RunState
    BY <1>1, SyncTakesSound DEF IInv, TypeOK
  <2>2. \A q \in Runners : ~Interrupt(q)
    BY <1>1 DEF Takes, Interrupt
  <2>3. Residents \subseteq run[r].known
    BY <1>1, <2>2, SyncStep, TakerKnows
  <2>4. Holder[s] = Identity(run[r], s)
    BY <1>1, <2>1, <2>3, IdentityTells DEF Removable
  <2> QED
    BY <2>1, <2>4 DEF Removable
<1>2. IInv /\ KnownInv /\ [SyncNext]_syncVars =>
        [\A r \in Runners, p \in Providers, s \in Raw : Takes(r, p, s) =>
           run[r].dir[Holder[s]] # "active"]_vars
  BY <1>1
<1> QED
  BY <1>2, SyncPlansSound, SyncIndexKnowsResidents, PTL
     DEF SyncSpec, EmployeesKept

\* An interrupted pass puts nobody at risk.
LEMMA InterruptKeepsRisk ==
  ASSUME RiskInv, NEW r \in Runners, Interrupt(r)
  PROVE  RiskInv'
<1>1. /\ run' = [run EXCEPT ![r] = Idle]
      /\ UNCHANGED <<directory, members, seats, pending, age>>
      /\ run \in [Runners -> RunState]
  BY DEF Interrupt, RiskInv, TypeOK
<1>2. TypeOK'
  BY <1>1, IdleType DEF RiskInv, TypeOK
<1>3. RiskPass(Idle)
  BY IdleOK DEF RiskPass, Acting
<1>4. \A q \in Runners : RiskPass(run'[q])
  BY <1>1, <1>3 DEF RiskInv
<1> QED
  BY <1>1, <1>2, <1>4 DEF RiskInv, RiskRow

\* The daemon and `sync apply`, side by side, interrupted and killed at any
\* moment, whatever fails, take seats only of those who may leave and whom some
\* policy in use lets go (cli/sync.go).
THEOREM SyncTakesOnlyFromThoseAtRisk == SyncSpec => OnlyThoseAtRisk
<1>1. SyncInit => RiskInv
  BY RiskInit DEF SyncInit
<1>2. ASSUME RiskInv, [SyncNext]_syncVars PROVE RiskInv'
  BY <1>2, SyncStep, RiskStep, InterruptKeepsRisk
<1>3. ASSUME RiskInv, [SyncNext]_syncVars, NEW r \in Runners,
             NEW p \in Providers, NEW s \in Raw, Takes(r, p, s)
      PROVE  AtRisk(p) \cap {s, Identity(run[r], s)} # {}
  <2>1. \A q \in Runners : ~Interrupt(q)
    BY <1>3 DEF Takes, Interrupt
  <2> QED
    BY <1>3, <2>1, SyncStep, TakesAtRisk
<1>4. RiskInv /\ [SyncNext]_syncVars =>
        [\A r \in Runners, p \in Providers, s \in Raw :
           Takes(r, p, s) => AtRisk(p) \cap {s, Identity(run[r], s)} # {}]_vars
  BY <1>3
<1> QED
  BY <1>1, <1>2, <1>4, PTL DEF SyncSpec, OnlyThoseAtRisk
=============================================================================
