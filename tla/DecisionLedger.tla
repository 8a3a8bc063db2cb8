--------------------------- MODULE DecisionLedger ---------------------------
(***************************************************************************)
(* The decision ledger of internal/store/sqlite.go: what a scan recommends *)
(* is merged with what humans decided, and every change leaves an event.   *)
(*                                                                         *)
(* Each operation is one database transaction on a store with a single     *)
(* writer, hence one action; an operation that returns an error changes    *)
(* nothing and is no action.  A recommendation stands for all the fields   *)
(* the hash covers; `mark` is what the ledger itself adds to the metadata, *)
(* which the hash covers as well.  Rows always carry a hash here: the      *)
(* fallback for rows older than that column is left out.                   *)
(***************************************************************************)
CONSTANTS
  Ids,          \* decisions: a subject, a provider, an object and an action
  Attestable,   \* those of action request_owner_attestation
  Recs,         \* recommendations
  Unsupported,  \* those the provider cannot carry out, which arrive blocked
  Humans,
  Nothing       \* an empty field

ASSUME LedgerAssumption ==
  /\ Attestable \subseteq Ids
  /\ Unsupported \subseteq Recs
  /\ Nothing \notin Humans \cup Recs

VARIABLES
  ledger,   \* the decisions table
  trail,    \* the last event of every decision
  verdict,  \* history: the last thing a human said about a decision
  seen      \* history: the last recommendation a scan made of it

vars == <<ledger, trail, verdict, seen>>

Judged == {"approved", "rejected", "executed", "verified"}
Status == Judged \cup {"absent", "proposed", "blocked", "stale"}
Mark == {"none", "stale", "attested"}
Hash == [rec : Recs \cup {Nothing}, mark : Mark]
Someone == Humans \cup {Nothing}

Row == [status : Status, rec : Recs \cup {Nothing}, mark : Mark, hash : Hash,
        approvedBy : Someone, rejectedBy : Someone]

\* Mutant: the hash leaves out what differs between recommendations.
HashOf_Coarse(row) == [rec |-> Nothing, mark |-> row.mark]

\* decisionRecommendationHash.
HashOf(row) == [rec |-> row.rec, mark |-> row.mark]

NoRow == [status |-> "absent", rec |-> Nothing, mark |-> "none",
          hash |-> [rec |-> Nothing, mark |-> "none"],
          approvedBy |-> Nothing, rejectedBy |-> Nothing]

\* A decision as BuildDecisions emits it.
Observed(rec) ==
  [NoRow EXCEPT !.status = IF rec \in Unsupported THEN "blocked" ELSE "proposed",
                !.rec = rec]

Init ==
  /\ ledger = [d \in Ids |-> NoRow]
  /\ trail = [d \in Ids |-> [from |-> "absent", to |-> "absent"]]
  /\ verdict = [d \in Ids |-> [said |-> "nothing", rec |-> Nothing,
                               by |-> Nothing]]
  /\ seen = [d \in Ids |-> Nothing]
-----------------------------------------------------------------------------
(* UpsertDecisions.                                                        *)

\* Mutants: what humans decided is overwritten; or it is kept for whatever is
\* recommended now.
Merge_Overwrites(old, new) == new
Merge_Refreshes(old, new) ==
  IF old.status \notin Judged THEN new
  ELSE [old EXCEPT !.rec = new.rec]

\* mergeIncomingDecision: the row to keep.
Merge(old, new) ==
  IF old.status \notin Judged THEN new
  ELSE IF old.hash = HashOf(new) THEN old
  ELSE [new EXCEPT !.status = "stale", !.mark = "stale",
                   !.approvedBy = old.approvedBy,
                   !.rejectedBy = old.rejectedBy]

\* Mutant: only what contradicts a human leaves an event.
Announced_Contradictions(old, new) ==
  \/ old.status = "absent"
  \/ old.status \in Judged /\ old.hash # HashOf(new)

\* ... and whether it leaves an event.
Announced(old, new) ==
  \/ old.status = "absent"
  \/ old.status \in Judged /\ old.hash # HashOf(new)
  \/ /\ old.status \notin Judged \cup {"absent"}
     /\ old.status # new.status

\* The hash stored is that of the row kept, not of the one that came in.
Stored(row) == [row EXCEPT !.hash = HashOf(row)]

UpsertDecisions(batch) ==
  LET kept == [d \in DOMAIN batch |-> Merge(ledger[d], Observed(batch[d]))] IN
  /\ ledger' = [d \in Ids |-> IF d \in DOMAIN batch THEN Stored(kept[d])
                              ELSE ledger[d]]
  /\ trail' = [d \in Ids |->
       IF d \in DOMAIN batch /\ Announced(ledger[d], Observed(batch[d]))
       THEN [from |-> ledger[d].status, to |-> kept[d].status]
       ELSE trail[d]]
  /\ seen' = [d \in Ids |-> IF d \in DOMAIN batch THEN batch[d] ELSE seen[d]]
  /\ UNCHANGED verdict
-----------------------------------------------------------------------------
(* The operations of humans and of enforcement.                            *)

\* upsertDecisionTx and insertDecisionEventTx; the stored hash is kept.
Write(d, row) ==
  /\ ledger' = [ledger EXCEPT ![d] = row]
  /\ trail' = [trail EXCEPT ![d] = [from |-> ledger[d].status,
                                    to |-> row.status]]

Say(d, said, h) ==
  /\ verdict' = [verdict EXCEPT ![d] = [said |-> said, rec |-> ledger[d].rec,
                                        by |-> h]]
  /\ UNCHANGED seen

ApproveDecision(d, h) ==
  /\ ledger[d].status = "proposed"
  /\ Write(d, [ledger[d] EXCEPT !.status = "approved", !.approvedBy = h,
                                !.rejectedBy = Nothing])
  /\ Say(d, "yes", h)

\* Mutants: the approver stays; any row but a rejected one may be rejected.
RejectDecision_KeepsApprover(d, h) ==
  /\ ledger[d].status \in {"proposed", "approved"}
  /\ Write(d, [ledger[d] EXCEPT !.status = "rejected", !.rejectedBy = h])
  /\ Say(d, "no", h)
RejectDecision_Unguarded(d, h) ==
  /\ ledger[d].status # "rejected"
  /\ Write(d, [ledger[d] EXCEPT !.status = "rejected", !.rejectedBy = h,
                                !.approvedBy = Nothing])
  /\ Say(d, "no", h)

RejectDecision(d, h) ==
  /\ ledger[d].status \in {"proposed", "approved"}
  /\ Write(d, [ledger[d] EXCEPT !.status = "rejected", !.rejectedBy = h,
                                !.approvedBy = Nothing])
  /\ Say(d, "no", h)

AttestOwner(d, h) ==
  /\ d \in Attestable
  /\ ledger[d].status \in {"proposed", "approved"}
  /\ Write(d, [ledger[d] EXCEPT !.status = "verified", !.approvedBy = h,
                                !.mark = "attested"])
  /\ Say(d, "owned", h)

transitionDecision(d, from, to) ==
  /\ ledger[d].status = from
  /\ Write(d, [ledger[d] EXCEPT !.status = to])
  /\ UNCHANGED <<verdict, seen>>

MarkDecisionExecuted(d) == transitionDecision(d, "approved", "executed")

\* No program calls this one yet; the store offers it.
MarkDecisionVerified(d) == transitionDecision(d, "executed", "verified")

Next ==
  \/ \E D \in SUBSET Ids : \E batch \in [D -> Recs] : UpsertDecisions(batch)
  \/ \E d \in Ids, h \in Humans :
       ApproveDecision(d, h) \/ RejectDecision(d, h) \/ AttestOwner(d, h)
  \/ \E d \in Ids : MarkDecisionExecuted(d) \/ MarkDecisionVerified(d)

Spec == Init /\ [][Next]_vars
-----------------------------------------------------------------------------
(* Correctness.                                                            *)

\* Every variable keeps its shape; a row exists once a scan has recommended
\* something, and the ledger's own metadata goes with the status it explains.
TypeOK ==
  /\ ledger \in [Ids -> Row]
  /\ trail \in [Ids -> [from : Status, to : Status]]
  /\ verdict \in [Ids -> [said : {"nothing", "yes", "no", "owned"},
                          rec : Recs \cup {Nothing}, by : Someone]]
  /\ seen \in [Ids -> Recs \cup {Nothing}]
  /\ \A d \in Ids :
       /\ ledger[d].status = "absent" <=> ledger[d].rec = Nothing
       /\ ledger[d].status = "stale" <=> ledger[d].mark = "stale"
       /\ ledger[d].mark = "attested"
            => d \in Attestable /\ ledger[d].status = "verified"

\* No decision outlives its recommendation: whatever humans said, the row holds
\* what the last scan recommended.
Current == \A d \in Ids : ledger[d].rec = seen[d]

\* The events of a decision tell its whole story: every change of its status
\* leaves one, which starts where the last one ended and ends at the status
\* the table holds.
Audited ==
  [][\A d \in Ids :
       /\ trail'[d].to = ledger'[d].status
       /\ trail'[d] # trail[d] => trail'[d].from = trail[d].to
       /\ ledger'[d].status # ledger[d].status => trail'[d] # trail[d]]_vars

\* The row names who took the decision that stands, and nobody when none does,
\* however many scans have replaced the recommendation since.
Attributed ==
  \A d \in Ids : LET row == ledger[d] IN
    IF row.status \in Judged \cup {"stale"}
    THEN IF verdict[d].said = "no"
         THEN row.rejectedBy = verdict[d].by /\ row.approvedBy = Nothing
         ELSE row.approvedBy = verdict[d].by /\ row.rejectedBy = Nothing
    ELSE row.approvedBy = Nothing /\ row.rejectedBy = Nothing

\* A decision is executed only if the last word of a human about it was to
\* approve exactly the recommendation it holds.
ExecutedOnConsent ==
  [][\A d \in Ids :
       ledger'[d].status = "executed" /\ ledger[d].status # "executed"
         => verdict[d].said = "yes" /\ verdict[d].rec = ledger'[d].rec]_vars

\* A scan that recommends what a human has attested the owner of leaves the
\* attestation as it is.
AttestationStands ==
  [][\A d \in Ids :
       ledger[d].status = "verified" /\ ledger'[d].status = "stale"
         => ledger'[d].rec # verdict[d].rec]_vars

\* The ledger keeps the promises of Consent.
PhaseOf(status) ==
  CASE status \in {"absent", "proposed", "blocked", "stale"} -> "open"
    [] status = "approved"                                   -> "agreed"
    [] status = "rejected"                                   -> "refused"
    [] status \in {"executed", "verified"}                   -> "done"

Promise == INSTANCE Consent
  WITH phase <- [d \in Ids |-> PhaseOf(ledger[d].status)],
       about <- [d \in Ids |-> ledger[d].rec]

KeepsPromise == Promise!Spec
=============================================================================
