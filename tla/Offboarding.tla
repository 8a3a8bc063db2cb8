----------------------------- MODULE Offboarding -----------------------------
(***************************************************************************)
(* Offboarding: `unseat offboard` reads the directory, the mapped groups   *)
(* and the provider, records in the ledger what should be done and stores  *)
(* a certificate (internal/offboarding, cli/offboard.go); humans judge;    *)
(* `unseat enforce apply` removes the seats they agreed to (internal/      *)
(* enforce).  Commands run side by side on one database, each reads the    *)
(* world call by call while it changes, and each may fail or be killed     *)
(* between two calls.                                                      *)
(*                                                                         *)
(* A seat stands for its owner as well: every subject has one seat at one  *)
(* provider, whose identifier resolves to the subject.                     *)
(***************************************************************************)
EXTENDS DecisionLedger, Naturals

CONSTANTS
  Seats,
  Protected,     \* seats policies.exceptions names
  Procs,         \* commands that may run side by side
  MaxChanges, MaxScans   \* bounds

Standing == {"mapped", "unmapped", "suspended", "gone"}

ASSUME OffboardingAssumption ==
  /\ Protected \subseteq Seats
  /\ Ids = Seats \X {"remove", "review"}
  /\ Recs = {"unmapped", "suspended", "gone", "cannot"}
  /\ Unsupported = {"cannot"}
  /\ Attestable = {}

VARIABLES
  removable, \* the seats at a provider that can remove
  person,    \* the directory and the groups: how each owner stands
  held,      \* the provider: the seats that are held
  proc,      \* the commands, and what each has read
  cert,      \* the last certificate stored for each subject
  been,      \* history: how each owner has ever stood
  found,     \* history: what the last scan that was persisted found
  removed,   \* history: seats a command of enforcement has removed
  changes, scans   \* bounds

world == <<removable, person, held, been, changes>>
offVars == <<ledger, trail, verdict, seen, world, proc, cert, found, removed,
             scans>>

Removal(s) == <<s, "remove">>
Review(s) == <<s, "review">>

Resting == [step |-> "idle"]
NoCertificate == [status |-> "none", class |-> "none"]

OffInit ==
  /\ Init
  /\ removable \in SUBSET Seats
  /\ person \in [Seats -> Standing]
  /\ held = [s \in Seats |-> TRUE]
  /\ proc = [p \in Procs |-> Resting]
  /\ cert = [s \in Seats |-> NoCertificate]
  /\ been = [s \in Seats |-> {person[s]}]
  /\ found = [s \in Seats |-> "nothing"]
  /\ removed = {}
  /\ changes = 0 /\ scans = 0

Stay == UNCHANGED vars
Turn(p, next) == proc' = [proc EXCEPT ![p] = next]
-----------------------------------------------------------------------------
(* The world.                                                              *)

Change == changes < MaxChanges /\ changes' = changes + 1
Rest == UNCHANGED <<removable, proc, cert, found, removed, scans>> /\ Stay

Stand(s, standing) ==
  /\ Change
  /\ person[s] # standing
  /\ person' = [person EXCEPT ![s] = standing]
  /\ been' = [been EXCEPT ![s] = @ \cup {standing}]
  /\ UNCHANGED held /\ Rest

\* A seat is given or taken by hand, or by a reconciliation pass.
Hand(s) ==
  /\ Change
  /\ held' = [held EXCEPT ![s] = ~@]
  /\ UNCHANGED <<person, been>> /\ Rest
-----------------------------------------------------------------------------
(* offboard: RunObserve, then persistOffboardingResult.                    *)

Scanning(p, step) == proc[p].step = step
Quiet == UNCHANGED <<world, cert, found, removed, scans>>

StartOffboard(p, s) ==
  /\ proc[p] = Resting
  /\ scans < MaxScans /\ scans' = scans + 1
  /\ Turn(p, [step |-> "directory", seat |-> s])
  /\ UNCHANGED <<world, cert, found, removed>> /\ Stay

Employed(standing) == standing \in {"mapped", "unmapped"}

\* Identity.ListUsers.
ReadDirectory(p) ==
  /\ Scanning(p, "directory")
  /\ LET s == proc[p].seat IN
     Turn(p, [step |-> "groups", seat |-> s,
              status |-> IF Employed(person[s]) THEN "active" ELSE person[s]])
  /\ Quiet /\ Stay

\* desiredByProvider; a group that cannot be read counts as empty.
ReadGroups(p) ==
  /\ Scanning(p, "groups")
  /\ \E read \in BOOLEAN :
       Turn(p, [step |-> "seats", seat |-> proc[p].seat,
                status |-> proc[p].status, unknown |-> ~read,
                desired |-> read /\ person[proc[p].seat] = "mapped"])
  /\ Quiet /\ Stay

\* Mutant: whoever no mapped group grants the seat has left.
Class_Orphans(status, desired) ==
  IF status # "active" \/ ~desired THEN "orphan" ELSE "managed"

\* ClassifySeats, of a corporate address.
Class(status, desired) ==
  CASE status # "active" -> "orphan"
    [] status = "active" /\ desired -> "managed"
    [] status = "active" /\ ~desired -> "unmapped"

\* collectProvider; a provider that does not tell its prices or credentials
\* leaves them unknown.
ListSeats(p) ==
  /\ Scanning(p, "seats")
  /\ LET me == proc[p] IN
     \E class \in {"unread", IF held[me.seat] THEN Class(me.status, me.desired)
                             ELSE "none"},
        told \in BOOLEAN :
       Turn(p, [step |-> "persist", seat |-> me.seat, class |-> class,
                status |-> me.status, unknown |-> me.unknown \/ ~told])
  /\ Quiet /\ Stay

\* BuildDecisions.  An orphan is proposed for removal, protected or not.
Decisions(me) ==
  LET s == me.seat
      due == {d \in {Removal(s)} : me.class = "orphan"}
               \cup {d \in {Review(s)} : me.class = "unmapped"}
  IN [d \in due |-> IF me.class = "unmapped" THEN "unmapped"
                    ELSE IF s \notin removable THEN "cannot"
                    ELSE IF me.status = "gone" THEN "gone" ELSE "suspended"]

Persist(p) ==
  /\ Scanning(p, "persist")
  /\ LET me == proc[p]
         batch == Decisions(me) IN
     /\ UpsertDecisions(batch)
     /\ Turn(p, [step |-> "hydrate", seat |-> me.seat, class |-> me.class,
                 status |-> me.status, unknown |-> me.unknown,
                 ids |-> DOMAIN batch])
     /\ found' = [found EXCEPT ![me.seat] = me.class]
  /\ UNCHANGED <<world, cert, removed, scans>>

\* Mutant: a blocked decision is nobody's to take.
CertificateStatus_Blocked(failed, unknown, statuses) ==
  IF failed THEN "blocked"
  ELSE IF statuses \cap {"proposed", "approved"} # {} THEN "incomplete"
  ELSE IF unknown THEN "complete_with_provider_limits" ELSE "complete"

\* ComputeCertificateStatus; what is unknown comes first when nothing is to
\* be decided, even of a provider that failed.
CertificateStatus(failed, unknown, statuses) ==
  CASE unknown /\ statuses = {} -> "complete_with_provider_limits"
    [] failed /\ ~(unknown /\ statuses = {}) -> "blocked"
    [] ~failed /\ "blocked" \in statuses -> "blocked"
    [] /\ ~failed /\ "blocked" \notin statuses
       /\ statuses \cap {"proposed", "approved"} # {} -> "incomplete"
    [] OTHER -> IF unknown /\ statuses # {}
                THEN "complete_with_provider_limits" ELSE "complete"

\* hydrateCertificateDecisions, and the status it leads to.  The unknowns of
\* a provider that could not be read are left out; a subject that neither the
\* directory nor the provider knows is one.
Hydrate(p) ==
  /\ Scanning(p, "hydrate")
  /\ LET me == proc[p]
         failed == me.class = "unread"
         unmatched == me.status = "gone" /\ me.class \in {"unread", "none"}
     IN
     Turn(p, [step |-> "store", seat |-> me.seat, class |-> me.class,
              certified |-> CertificateStatus(failed,
                              unmatched \/ (me.unknown /\ ~failed),
                              {ledger[d].status : d \in me.ids})])
  /\ Quiet /\ Stay

\* UpsertOffboardingCertificate.
Store(p) ==
  /\ Scanning(p, "store")
  /\ cert' = [cert EXCEPT ![proc[p].seat] =
                [status |-> proc[p].certified, class |-> proc[p].class]]
  /\ Turn(p, Resting)
  /\ UNCHANGED <<world, found, removed, scans>> /\ Stay
-----------------------------------------------------------------------------
(* enforce apply: Apply.                                                   *)

\* Mutant: a decision that was once approved will do.
Executable_Once(d) == d[2] = "remove" /\ verdict[d].said # "nothing"

\* candidate.
Executable(d) ==
  /\ ledger[d].status = "approved"
  /\ d[2] = "remove" /\ d[1] \in removable

StartApply(p, d) ==
  /\ proc[p] = Resting
  /\ Executable(d)
  /\ Turn(p, [step |-> "remove", decision |-> d, consent |-> verdict[d]])
  /\ Quiet /\ Stay

\* The provider removes the seat; the answer may be lost, and then Apply
\* fails.  It fails as well when there is no seat to remove.
RemoveUser(p) ==
  /\ Scanning(p, "remove")
  /\ LET d == proc[p].decision IN
     /\ held[d[1]]
     /\ held' = [held EXCEPT ![d[1]] = FALSE]
     /\ removed' = removed \cup {d[1]}
     /\ \/ Turn(p, [step |-> "mark", decision |-> d])
        \/ Turn(p, Resting)
  /\ UNCHANGED <<removable, person, been, changes, cert, found, scans>> /\ Stay

\* Mutant: marked before it is done.
MarkExecuted_First(p) ==
  /\ proc[p].step \in {"remove", "mark"}
  /\ MarkDecisionExecuted(proc[p].decision)
  /\ Turn(p, Resting)
  /\ Quiet

\* MarkDecisionExecuted refuses a decision that is approved no more.
MarkExecuted(p) ==
  /\ Scanning(p, "mark")
  /\ MarkDecisionExecuted(proc[p].decision)
  /\ Turn(p, Resting)
  /\ Quiet

\* A call fails and ends its command, or the command is killed.
Abandon(p) ==
  /\ proc[p] # Resting
  /\ Turn(p, Resting)
  /\ Quiet /\ Stay

Judge(d, h) ==
  /\ ApproveDecision(d, h) \/ RejectDecision(d, h)
  /\ Quiet /\ UNCHANGED proc

OffNext ==
  \/ \E s \in Seats : Hand(s) \/ \E standing \in Standing : Stand(s, standing)
  \/ \E d \in Ids, h \in Humans : Judge(d, h)
  \/ \E p \in Procs :
       \/ \E s \in Seats : StartOffboard(p, s)
       \/ ReadDirectory(p) \/ ReadGroups(p) \/ ListSeats(p)
       \/ Persist(p) \/ Hydrate(p) \/ Store(p)
       \/ \E d \in Ids : StartApply(p, d)
       \/ RemoveUser(p) \/ MarkExecuted(p) \/ Abandon(p)

OffSpec == OffInit /\ [][OffNext]_offVars
-----------------------------------------------------------------------------
(* Properties.                                                             *)

\* The type of the state; the ledger keeps its own.
Steps == {"idle", "directory", "groups", "seats", "persist", "hydrate",
          "store", "remove", "mark"}
OffTypeOK ==
  /\ TypeOK
  /\ person \in [Seats -> Standing] /\ held \in [Seats -> BOOLEAN]
  /\ DOMAIN proc = Procs /\ \A p \in Procs : proc[p].step \in Steps
  /\ been \in [Seats -> SUBSET Standing] /\ \A s \in Seats : person[s] \in been[s]
  /\ removed \subseteq Seats

\* Enforcement removes a seat only while it carries out what a human, when it
\* read the decision, had agreed to last, for a reason that was true of the
\* owner at some time: nobody who never left loses a seat to it, however
\* scans, humans and commands interleave.
RemovedOnConsent ==
  [][removed' # removed =>
       \E p \in Procs :
         /\ proc[p].step = "remove"
         /\ removed' \ removed = {proc[p].decision[1]}
         /\ proc[p].consent.said = "yes"
         /\ proc[p].consent.rec
              \in been[proc[p].decision[1]] \cap {"suspended", "gone"}]_offVars

\* A decision the ledger calls executed is one whose seat was really removed.
ExecutedIsRemoved ==
  \A s \in Seats : ledger[Removal(s)].status = "executed" => s \in removed

\* A certificate calls an offboarding complete only if what it found was
\* nothing to remove, or a removal a human has judged, and only if the
\* provider was read.
CompleteIsJudged ==
  \A s \in Seats :
    /\ cert[s].status = "complete" => cert[s].class # "unread"
    /\ /\ cert[s].status \in {"complete", "complete_with_provider_limits"}
       /\ cert[s].class = "orphan"
       => verdict[Removal(s)].said # "nothing"

\* The commands, side by side, use the ledger as its specification allows, and
\* so keep the promises of Consent.
UsesLedger == Spec
-----------------------------------------------------------------------------
\* An approved removal does not outlive a scan that finds the person employed.
RescanRetires ==
  \A s \in Seats :
    ledger[Removal(s)].status = "approved"
      => found[s] \notin {"managed", "unmapped"}

\* Policy protects its exceptions from removal.
ProtectedKept == removed \cap Protected = {}
=============================================================================
