------------------------ MODULE DecisionLedgerProofs ------------------------
(***************************************************************************)
(* Proofs about DecisionLedger, for any set of decisions, recommendations  *)
(* and humans.                                                             *)
(***************************************************************************)
EXTENDS DecisionLedger, TLAPS

Verdict == [said : {"nothing", "yes", "no", "owned"},
            rec : Recs \cup {Nothing}, by : Someone]
Event == [from : Status, to : Status]

\* What holds of one decision d with row `row`, verdict v and last observation s.
ShapeOK(d, row) ==
  /\ row.status = "absent" <=> row.rec = Nothing
  /\ row.status = "stale" <=> row.mark = "stale"
  /\ row.mark = "attested" => d \in Attestable /\ row.status = "verified"

\* The stored hash is the recommendation's, whatever the ledger added since.
HashOK(row) ==
  /\ row.hash.rec = row.rec
  /\ row.hash.mark # row.mark => row.hash.mark = "none" /\ row.mark = "attested"

ConsentOK(row, v) ==
  row.status = "approved" => v.said = "yes" /\ v.rec = row.rec

NamesOK(row, v) ==
  IF row.status \in Judged \cup {"stale"}
  THEN IF v.said = "no" THEN row.rejectedBy = v.by /\ row.approvedBy = Nothing
                        ELSE row.approvedBy = v.by /\ row.rejectedBy = Nothing
  ELSE row.approvedBy = Nothing /\ row.rejectedBy = Nothing

RowInv(d, row, v, s) ==
  /\ ShapeOK(d, row) /\ HashOK(row) /\ ConsentOK(row, v) /\ NamesOK(row, v)
  /\ row.rec = s

Shapes ==
  /\ ledger \in [Ids -> Row]
  /\ trail \in [Ids -> Event]
  /\ verdict \in [Ids -> Verdict]
  /\ seen \in [Ids -> Recs \cup {Nothing}]

IInv ==
  /\ Shapes
  /\ \A d \in Ids : RowInv(d, ledger[d], verdict[d], seen[d])
  /\ \A d \in Ids : trail[d].to = ledger[d].status

-----------------------------------------------------------------------------
(* Merging.                                                                *)

\* A decision as observed is a row, carries its recommendation and no names.
LEMMA ObservedIsRow ==
  ASSUME NEW rec \in Recs
  PROVE  LET new == Observed(rec) IN
         /\ new \in Row
         /\ new.status \in {"blocked", "proposed"}
         /\ new.rec = rec /\ new.mark = "none"
         /\ new.approvedBy = Nothing /\ new.rejectedBy = Nothing
BY DEF Observed, NoRow, Row, Status, Judged, Mark, Hash, Someone

\* Merging keeps a row within its invariant, and current: the row kept holds
\* the recommendation that came in.
LEMMA MergeKeeps ==
  ASSUME NEW d \in Ids, NEW old \in Row, NEW v \in Verdict, NEW s,
         NEW rec \in Recs, RowInv(d, old, v, s)
  PROVE  /\ Stored(Merge(old, Observed(rec))) \in Row
         /\ RowInv(d, Stored(Merge(old, Observed(rec))), v, rec)
<1> DEFINE new == Observed(rec)
           kept == Merge(old, new)
           stored == Stored(kept)
<1> SUFFICES stored \in Row /\ RowInv(d, stored, v, rec)
  OBVIOUS
<1>1. /\ new \in Row
      /\ new.status \in {"blocked", "proposed"}
      /\ new.rec = rec /\ new.mark = "none"
      /\ new.approvedBy = Nothing /\ new.rejectedBy = Nothing
  BY ObservedIsRow
<1> HIDE DEF new
<1>2. rec # Nothing
  BY LedgerAssumption
<1>3. CASE old.status \notin Judged
  <2>1. stored = [new EXCEPT !.hash = [rec |-> new.rec, mark |-> new.mark]]
    BY <1>3 DEF Merge, Stored, HashOf
  <2>2. /\ stored \in Row
        /\ stored.status \in {"blocked", "proposed"}
        /\ stored.rec = rec /\ stored.mark = "none"
        /\ stored.hash.rec = rec /\ stored.hash.mark = "none"
        /\ stored.approvedBy = Nothing /\ stored.rejectedBy = Nothing
    BY <1>1, <2>1 DEF Row, Hash, Mark
  <2> HIDE DEF kept, stored
  <2>3. RowInv(d, stored, v, rec)
    BY <1>2, <2>2 DEF RowInv, ShapeOK, HashOK, ConsentOK, NamesOK, Judged
  <2> QED
    BY <2>2, <2>3
<1>4. CASE old.status \in Judged /\ old.hash = HashOf(new)
  <2>1. stored = [old EXCEPT !.hash = [rec |-> old.rec, mark |-> old.mark]]
    BY <1>4 DEF Merge, Stored, HashOf
  <2>2. old.rec = rec
    BY <1>1, <1>4 DEF HashOf, RowInv, HashOK
  <2>3. /\ stored \in Row
        /\ stored.status = old.status
        /\ stored.rec = rec /\ stored.mark = old.mark
        /\ stored.hash.rec = rec /\ stored.hash.mark = old.mark
        /\ stored.approvedBy = old.approvedBy
        /\ stored.rejectedBy = old.rejectedBy
    BY <2>1, <2>2 DEF Row, Hash, Mark
  <2> HIDE DEF kept, stored
  <2>4. RowInv(d, stored, v, rec)
    BY <1>2, <2>2, <2>3 DEF RowInv, ShapeOK, HashOK, ConsentOK, NamesOK
  <2> QED
    BY <2>3, <2>4
<1>5. CASE old.status \in Judged /\ old.hash # HashOf(new)
  <2>1. kept = [new EXCEPT !.status = "stale", !.mark = "stale",
                           !.approvedBy = old.approvedBy,
                           !.rejectedBy = old.rejectedBy]
    BY <1>5 DEF Merge
  <2>2. /\ kept \in Row /\ kept.status = "stale" /\ kept.mark = "stale"
        /\ kept.rec = rec
        /\ kept.approvedBy = old.approvedBy
        /\ kept.rejectedBy = old.rejectedBy
    BY <1>1, <2>1 DEF Row, Status, Mark, Judged
  <2>3. stored = [kept EXCEPT !.hash = [rec |-> kept.rec, mark |-> kept.mark]]
    BY DEF Stored, HashOf
  <2> HIDE DEF kept
  <2>4. /\ stored \in Row /\ stored.status = "stale" /\ stored.mark = "stale"
        /\ stored.rec = rec
        /\ stored.hash.rec = rec /\ stored.hash.mark = "stale"
        /\ stored.approvedBy = old.approvedBy
        /\ stored.rejectedBy = old.rejectedBy
    BY <2>2, <2>3 DEF Row, Hash, Mark
  <2> HIDE DEF stored
  <2>5. RowInv(d, stored, v, rec)
    BY <1>2, <1>5, <2>4 DEF RowInv, ShapeOK, HashOK, ConsentOK, NamesOK, Judged
  <2> QED
    BY <2>4, <2>5
<1> QED
  BY <1>3, <1>4, <1>5

\* Without an event a merge leaves the status alone; with one, the event ends at
\* the status that is stored.
LEMMA MergeAnnounced ==
  ASSUME NEW old \in Row, NEW rec \in Recs, ~Announced(old, Observed(rec))
  PROVE  Stored(Merge(old, Observed(rec))).status = old.status
<1> DEFINE new == Observed(rec)
           kept == Merge(old, new)
<1> SUFFICES Stored(kept).status = old.status
  OBVIOUS
<1>1. new \in Row
  BY ObservedIsRow
<1>2. ~Announced(old, new)
  OBVIOUS
<1> HIDE DEF new
<1>3. kept \in Row
  BY <1>1 DEF Merge, Row, Status, Mark, Judged
<1>4. kept.status = old.status
  BY <1>2 DEF Announced, Merge, Row, Judged
<1> HIDE DEF kept
<1>5. Stored(kept).status = kept.status
  BY <1>3 DEF Stored, Row
<1> QED
  BY <1>4, <1>5

LEMMA StoredStatus ==
  ASSUME NEW row \in Row
  PROVE  Stored(row).status = row.status
BY DEF Stored, Row

LEMMA MergeIsRow ==
  ASSUME NEW old \in Row, NEW rec \in Recs
  PROVE  Merge(old, Observed(rec)) \in Row
<1> DEFINE new == Observed(rec)
<1>1. new \in Row
  BY ObservedIsRow
<1> HIDE DEF new
<1>2. Merge(old, new) \in Row
  BY <1>1 DEF Merge, Row, Status, Mark, Judged
<1> QED
  BY <1>2 DEF new

-----------------------------------------------------------------------------
(* The invariant.                                                          *)

LEMMA InitInv == Init => IInv
<1> SUFFICES ASSUME Init PROVE IInv
  OBVIOUS
<1>1. NoRow \in Row
  BY DEF NoRow, Row, Status, Judged, Mark, Hash, Someone
<1>2. Shapes
  BY <1>1 DEF Init, Shapes, Event, Verdict, Status, Judged, Someone
<1>3. ASSUME NEW d \in Ids
      PROVE  RowInv(d, ledger[d], verdict[d], seen[d])
  BY LedgerAssumption DEF Init, NoRow, RowInv, ShapeOK, HashOK, ConsentOK,
     NamesOK, Judged
<1>4. \A d \in Ids : trail[d].to = ledger[d].status
  BY DEF Init, NoRow
<1> QED
  BY <1>2, <1>3, <1>4 DEF IInv

\* A scan keeps the invariant.
LEMMA UpsertInv ==
  ASSUME IInv, NEW D \in SUBSET Ids, NEW batch \in [D -> Recs],
         UpsertDecisions(batch)
  PROVE  IInv'
<1>0. /\ DOMAIN batch = D
      /\ \A d \in D : batch[d] \in Recs
  OBVIOUS
<1>1. ASSUME NEW d \in Ids, d \in D
      PROVE  /\ ledger'[d] = Stored(Merge(ledger[d], Observed(batch[d])))
             /\ ledger'[d] \in Row
             /\ RowInv(d, ledger'[d], verdict[d], batch[d])
  <2>1. /\ ledger[d] \in Row /\ verdict[d] \in Verdict /\ batch[d] \in Recs
        /\ RowInv(d, ledger[d], verdict[d], seen[d])
    BY <1>0, <1>1 DEF IInv, Shapes
  <2>2. ledger'[d] = Stored(Merge(ledger[d], Observed(batch[d])))
    BY <1>0, <1>1 DEF UpsertDecisions
  <2> QED
    BY <2>1, <2>2, MergeKeeps
<1>2. ASSUME NEW d \in Ids, d \notin D
      PROVE  /\ ledger'[d] = ledger[d] /\ trail'[d] = trail[d]
             /\ seen'[d] = seen[d]
  BY <1>0, <1>2 DEF UpsertDecisions
<1>3. ASSUME NEW d \in Ids, d \in D
      PROVE  /\ trail'[d] \in Event
             /\ trail'[d].to = ledger'[d].status
             /\ seen'[d] = batch[d]
  <2>1. ledger[d] \in Row /\ trail[d] \in Event /\ batch[d] \in Recs
    BY <1>0, <1>3 DEF IInv, Shapes
  <2>2. trail'[d] = IF Announced(ledger[d], Observed(batch[d]))
                    THEN [from |-> ledger[d].status,
                          to |-> Merge(ledger[d], Observed(batch[d])).status]
                    ELSE trail[d]
    BY <1>0, <1>3 DEF UpsertDecisions
  <2>3. Merge(ledger[d], Observed(batch[d])) \in Row
    BY <2>1, MergeIsRow
  <2>4. seen'[d] = batch[d]
    BY <1>0, <1>3 DEF UpsertDecisions
  <2>5. CASE Announced(ledger[d], Observed(batch[d]))
    <3>1. Stored(Merge(ledger[d], Observed(batch[d]))).status
            = Merge(ledger[d], Observed(batch[d])).status
      BY <2>3, StoredStatus
    <3>2. /\ ledger[d].status \in Status
          /\ Merge(ledger[d], Observed(batch[d])).status \in Status
      BY <2>1, <2>3 DEF Row
    <3> QED
      BY <1>1, <1>3, <2>2, <2>4, <2>5, <3>1, <3>2 DEF Event
  <2>6. CASE ~Announced(ledger[d], Observed(batch[d]))
    <3>1. ledger'[d].status = ledger[d].status
      BY <1>1, <1>3, <2>1, <2>6, MergeAnnounced
    <3>2. trail[d].to = ledger[d].status
      BY DEF IInv
    <3> QED
      BY <2>1, <2>2, <2>4, <2>6, <3>1, <3>2
  <2> QED
    BY <2>5, <2>6
<1>4. Shapes'
  <2>1. ledger' \in [Ids -> Row]
    <3>1. \A d \in Ids : ledger'[d] \in Row
      BY <1>1, <1>2 DEF IInv, Shapes
    <3> QED
      BY <3>1 DEF UpsertDecisions
  <2>2. trail' \in [Ids -> Event]
    <3>1. \A d \in Ids : trail'[d] \in Event
      BY <1>2, <1>3 DEF IInv, Shapes
    <3> QED
      BY <3>1 DEF UpsertDecisions
  <2>3. verdict' \in [Ids -> Verdict]
    BY DEF UpsertDecisions, IInv, Shapes
  <2>4. seen' \in [Ids -> Recs \cup {Nothing}]
    <3>1. \A d \in Ids : seen'[d] \in Recs \cup {Nothing}
      BY <1>0, <1>2, <1>3 DEF IInv, Shapes
    <3> QED
      BY <3>1 DEF UpsertDecisions
  <2> QED
    BY <2>1, <2>2, <2>3, <2>4 DEF Shapes
<1>5. verdict' = verdict
  BY DEF UpsertDecisions
<1>6. \A d \in Ids : RowInv(d, ledger'[d], verdict'[d], seen'[d])
  <2> SUFFICES ASSUME NEW d \in Ids
               PROVE  RowInv(d, ledger'[d], verdict'[d], seen'[d])
    OBVIOUS
  <2>1. CASE d \in D
    BY <1>1, <1>3, <1>5, <2>1
  <2>2. CASE d \notin D
    BY <1>2, <1>5, <2>2 DEF IInv
  <2> QED
    BY <2>1, <2>2
<1>7. \A d \in Ids : trail'[d].to = ledger'[d].status
  BY <1>2, <1>3 DEF IInv
<1> QED
  BY <1>4, <1>6, <1>7 DEF IInv

\* Writing one row that satisfies its invariant keeps the invariant of all.
LEMMA WriteInv ==
  ASSUME IInv, NEW d \in Ids, NEW STATE row, row \in Row,
         Write(d, row),
         verdict' \in [Ids -> Verdict],
         \A e \in Ids \ {d} : verdict'[e] = verdict[e],
         seen' = seen, RowInv(d, row, verdict'[d], seen[d])
  PROVE  IInv'
<1>1. /\ ledger' \in [Ids -> Row] /\ ledger'[d] = row
      /\ \A e \in Ids \ {d} : ledger'[e] = ledger[e]
  BY DEF Write, IInv, Shapes
<1>2. /\ trail'[d] = [from |-> ledger[d].status, to |-> row.status]
      /\ \A e \in Ids \ {d} : trail'[e] = trail[e]
  BY DEF Write, IInv, Shapes
<1>3. ledger[d].status \in Status /\ row.status \in Status
  BY DEF IInv, Shapes, Row
<1>4. trail'[d] \in Event /\ trail'[d].to = row.status
  BY <1>2, <1>3 DEF Event
<1>5. trail' \in [Ids -> Event]
  BY <1>4 DEF Write, IInv, Shapes
<1>6. Shapes'
  BY <1>1, <1>5 DEF Shapes, IInv
<1>7. \A e \in Ids : RowInv(e, ledger'[e], verdict'[e], seen'[e])
  BY <1>1 DEF IInv
<1>8. \A e \in Ids : trail'[e].to = ledger'[e].status
  BY <1>1, <1>2, <1>4 DEF IInv
<1> QED
  BY <1>6, <1>7, <1>8 DEF IInv

\* What Say does to the history.
LEMMA SayFacts ==
  ASSUME IInv, NEW d \in Ids, NEW said \in {"yes", "no", "owned"},
         NEW h \in Humans, Say(d, said, h)
  PROVE  /\ verdict' \in [Ids -> Verdict]
         /\ \A e \in Ids \ {d} : verdict'[e] = verdict[e]
         /\ verdict'[d].said = said /\ verdict'[d].rec = ledger[d].rec
         /\ verdict'[d].by = h
         /\ seen' = seen
<1>1. ledger[d].rec \in Recs \cup {Nothing}
  BY DEF IInv, Shapes, Row
<1>2. [said |-> said, rec |-> ledger[d].rec, by |-> h] \in Verdict
  BY <1>1 DEF Verdict, Someone
<1> QED
  BY <1>2 DEF Say, IInv, Shapes

LEMMA ApproveInv ==
  ASSUME IInv, NEW d \in Ids, NEW h \in Humans, ApproveDecision(d, h)
  PROVE  IInv'
<1> DEFINE row == [ledger[d] EXCEPT !.status = "approved", !.approvedBy = h,
                                    !.rejectedBy = Nothing]
<1>1. /\ ledger[d] \in Row /\ ledger[d].status = "proposed"
      /\ RowInv(d, ledger[d], verdict[d], seen[d])
  BY DEF IInv, Shapes, ApproveDecision
<1>2. /\ row \in Row /\ row.status = "approved" /\ row.rec = ledger[d].rec
      /\ row.mark = ledger[d].mark /\ row.hash = ledger[d].hash
      /\ row.approvedBy = h /\ row.rejectedBy = Nothing
  BY <1>1 DEF Row, Status, Judged, Someone
<1>3. Write(d, row) /\ Say(d, "yes", h)
  BY DEF ApproveDecision
<1> HIDE DEF row
<1>4. /\ verdict' \in [Ids -> Verdict]
      /\ \A e \in Ids \ {d} : verdict'[e] = verdict[e]
      /\ verdict'[d].said = "yes" /\ verdict'[d].rec = ledger[d].rec
      /\ verdict'[d].by = h
      /\ seen' = seen
  BY <1>3, SayFacts
<1>5. RowInv(d, row, verdict'[d], seen[d])
  BY <1>1, <1>2, <1>4 DEF RowInv, ShapeOK, HashOK, ConsentOK, NamesOK, Judged
<1> QED
  BY <1>2, <1>3, <1>4, <1>5, WriteInv

LEMMA RejectInv ==
  ASSUME IInv, NEW d \in Ids, NEW h \in Humans, RejectDecision(d, h)
  PROVE  IInv'
<1> DEFINE row == [ledger[d] EXCEPT !.status = "rejected", !.rejectedBy = h,
                                    !.approvedBy = Nothing]
<1>1. /\ ledger[d] \in Row /\ ledger[d].status \in {"proposed", "approved"}
      /\ RowInv(d, ledger[d], verdict[d], seen[d])
  BY DEF IInv, Shapes, RejectDecision
<1>2. /\ row \in Row /\ row.status = "rejected" /\ row.rec = ledger[d].rec
      /\ row.mark = ledger[d].mark /\ row.hash = ledger[d].hash
      /\ row.rejectedBy = h /\ row.approvedBy = Nothing
  BY <1>1 DEF Row, Status, Judged, Someone
<1>3. Write(d, row) /\ Say(d, "no", h)
  BY DEF RejectDecision
<1> HIDE DEF row
<1>4. /\ verdict' \in [Ids -> Verdict]
      /\ \A e \in Ids \ {d} : verdict'[e] = verdict[e]
      /\ verdict'[d].said = "no" /\ verdict'[d].by = h
      /\ seen' = seen
  BY <1>3, SayFacts
<1>5. RowInv(d, row, verdict'[d], seen[d])
  BY <1>1, <1>2, <1>4 DEF RowInv, ShapeOK, HashOK, ConsentOK, NamesOK, Judged
<1> QED
  BY <1>2, <1>3, <1>4, <1>5, WriteInv

LEMMA AttestInv ==
  ASSUME IInv, NEW d \in Ids, NEW h \in Humans, AttestOwner(d, h)
  PROVE  IInv'
<1> DEFINE row == [ledger[d] EXCEPT !.status = "verified", !.approvedBy = h,
                                    !.mark = "attested"]
<1>1. /\ ledger[d] \in Row /\ ledger[d].status \in {"proposed", "approved"}
      /\ RowInv(d, ledger[d], verdict[d], seen[d]) /\ d \in Attestable
  BY DEF IInv, Shapes, AttestOwner
<1>2. /\ row \in Row /\ row.status = "verified" /\ row.rec = ledger[d].rec
      /\ row.mark = "attested" /\ row.hash = ledger[d].hash
      /\ row.rejectedBy = ledger[d].rejectedBy /\ row.approvedBy = h
  BY <1>1 DEF Row, Status, Judged, Someone, Mark
<1>3. Write(d, row) /\ Say(d, "owned", h)
  BY DEF AttestOwner
<1> HIDE DEF row
<1>4. /\ verdict' \in [Ids -> Verdict]
      /\ \A e \in Ids \ {d} : verdict'[e] = verdict[e]
      /\ verdict'[d].said = "owned" /\ verdict'[d].by = h
      /\ seen' = seen
  BY <1>3, SayFacts
<1>5. ledger[d].mark = "none" /\ ledger[d].hash.mark = "none"
  <2>1. ledger[d].mark \in Mark
    BY <1>1 DEF Row
  <2> QED
    BY <1>1, <2>1 DEF RowInv, ShapeOK, HashOK, Mark
<1>6. row.rejectedBy = Nothing
  BY <1>1, <1>2 DEF RowInv, NamesOK, ConsentOK, Judged
<1>7. RowInv(d, row, verdict'[d], seen[d])
  BY <1>1, <1>2, <1>4, <1>5, <1>6
     DEF RowInv, ShapeOK, HashOK, ConsentOK, NamesOK, Judged
<1> QED
  BY <1>2, <1>3, <1>4, <1>7, WriteInv

\* MarkDecisionExecuted and MarkDecisionVerified.
LEMMA TransitionInv ==
  ASSUME IInv, NEW d \in Ids, NEW from \in {"approved", "executed"},
         NEW to \in {"executed", "verified"}, transitionDecision(d, from, to)
  PROVE  IInv'
<1> DEFINE row == [ledger[d] EXCEPT !.status = to]
<1>1. /\ ledger[d] \in Row /\ ledger[d].status = from
      /\ RowInv(d, ledger[d], verdict[d], seen[d])
  BY DEF IInv, Shapes, transitionDecision
<1>2. /\ row \in Row /\ row.status = to /\ row.rec = ledger[d].rec
      /\ row.mark = ledger[d].mark /\ row.hash = ledger[d].hash
      /\ row.rejectedBy = ledger[d].rejectedBy
      /\ row.approvedBy = ledger[d].approvedBy
  BY <1>1 DEF Row, Status, Judged
<1>3. Write(d, row) /\ verdict' = verdict /\ seen' = seen
  BY DEF transitionDecision
<1> HIDE DEF row
<1>4. verdict' \in [Ids -> Verdict]
  BY <1>3 DEF IInv, Shapes
<1>5. RowInv(d, row, verdict[d], seen[d])
  BY <1>1, <1>2 DEF RowInv, ShapeOK, HashOK, ConsentOK, NamesOK, Judged
<1> QED
  BY <1>2, <1>3, <1>4, <1>5, WriteInv

LEMMA NextInv == IInv /\ [Next]_vars => IInv'
<1> SUFFICES ASSUME IInv, [Next]_vars PROVE IInv'
  OBVIOUS
<1>1. ASSUME NEW D \in SUBSET Ids, NEW batch \in [D -> Recs],
             UpsertDecisions(batch)
      PROVE  IInv'
  BY <1>1, UpsertInv
<1>2. ASSUME NEW d \in Ids, NEW h \in Humans, ApproveDecision(d, h)
      PROVE  IInv'
  BY <1>2, ApproveInv
<1>3. ASSUME NEW d \in Ids, NEW h \in Humans, RejectDecision(d, h)
      PROVE  IInv'
  BY <1>3, RejectInv
<1>4. ASSUME NEW d \in Ids, NEW h \in Humans, AttestOwner(d, h)
      PROVE  IInv'
  BY <1>4, AttestInv
<1>5. ASSUME NEW d \in Ids, MarkDecisionExecuted(d)
      PROVE  IInv'
  BY <1>5, TransitionInv DEF MarkDecisionExecuted
<1>6. ASSUME NEW d \in Ids, MarkDecisionVerified(d)
      PROVE  IInv'
  BY <1>6, TransitionInv DEF MarkDecisionVerified
<1>7. CASE UNCHANGED vars
  BY <1>7 DEF vars, IInv, Shapes
<1> QED
  BY <1>1, <1>2, <1>3, <1>4, <1>5, <1>6, <1>7 DEF Next

\* The inductive invariant: every row is consistent with the history of what
\* scans recommended and humans said.
THEOREM LedgerInvariant == Spec => []IInv
BY InitInv, NextInv, PTL DEF Spec

\* Every reachable state is well typed.
THEOREM LedgerTypeCorrect == Spec => []TypeOK
<1>1. IInv => TypeOK
  BY DEF IInv, Shapes, RowInv, ShapeOK, TypeOK, Event, Verdict
<1> QED
  BY <1>1, LedgerInvariant, PTL

\* No decision outlives its recommendation.
THEOREM LedgerCurrent == Spec => []Current
<1>1. IInv => Current
  BY DEF IInv, RowInv, Current
<1> QED
  BY <1>1, LedgerInvariant, PTL

\* The row names who took the decision that stands.
THEOREM LedgerAttributed == Spec => []Attributed
<1>1. IInv => Attributed
  BY DEF IInv, RowInv, NamesOK, Attributed
<1> QED
  BY <1>1, LedgerInvariant, PTL

-----------------------------------------------------------------------------
(* The action properties and the abstract specification.                   *)

\* What a merge does to the phase of a decision: nothing, or it reopens it as
\* Consent allows.
LEMMA MergeReopens ==
  ASSUME NEW d \in Ids, NEW old \in Row, NEW v \in Verdict, NEW s,
         NEW rec \in Recs, RowInv(d, old, v, s)
  PROVE  \/ /\ Stored(Merge(old, Observed(rec))).status = old.status
            /\ Stored(Merge(old, Observed(rec))).rec = old.rec
         \/ /\ Stored(Merge(old, Observed(rec))).status
                 \in {"proposed", "blocked", "stale"}
            /\ Stored(Merge(old, Observed(rec))).rec = rec
            /\ \/ old.status \notin Judged
               \/ rec # old.rec
               \/ d \in Attestable /\ old.status = "verified"
<1> DEFINE new == Observed(rec)
           kept == Merge(old, new)
           stored == Stored(kept)
<1> SUFFICES \/ stored.status = old.status /\ stored.rec = old.rec
             \/ /\ stored.status \in {"proposed", "blocked", "stale"}
                /\ stored.rec = rec
                /\ \/ old.status \notin Judged
                   \/ rec # old.rec
                   \/ d \in Attestable /\ old.status = "verified"
  OBVIOUS
<1>1. /\ new \in Row
      /\ new.status \in {"blocked", "proposed"}
      /\ new.rec = rec /\ new.mark = "none"
  BY ObservedIsRow
<1>2. kept \in Row
  BY MergeIsRow
<1> HIDE DEF new
<1>3. CASE old.status \notin Judged
  <2>1. kept = new
    BY <1>3 DEF Merge
  <2> HIDE DEF kept
  <2>2. stored.status = kept.status /\ stored.rec = kept.rec
    BY <1>2 DEF Stored, Row
  <2> QED
    BY <1>1, <1>3, <2>1, <2>2
<1>4. CASE old.status \in Judged /\ old.hash = HashOf(new)
  <2>1. kept = old
    BY <1>4 DEF Merge
  <2> HIDE DEF kept
  <2>2. stored.status = kept.status /\ stored.rec = kept.rec
    BY <1>2 DEF Stored, Row
  <2> QED
    BY <2>1, <2>2
<1>5. CASE old.status \in Judged /\ old.hash # HashOf(new)
  <2>1. kept.status = "stale" /\ kept.rec = rec
    <3>1. kept = [new EXCEPT !.status = "stale", !.mark = "stale",
                             !.approvedBy = old.approvedBy,
                             !.rejectedBy = old.rejectedBy]
      BY <1>5 DEF Merge
    <3> QED
      BY <1>1, <3>1 DEF Row
  <2> HIDE DEF kept
  <2>2. stored.status = kept.status /\ stored.rec = kept.rec
    BY <1>2 DEF Stored, Row
  <2>3. rec # old.rec \/ (d \in Attestable /\ old.status = "verified")
    <3>1. old.hash = [rec |-> old.hash.rec, mark |-> old.hash.mark]
      BY DEF Row, Hash
    <3>2. old.hash.rec # rec \/ old.hash.mark # "none"
      BY <1>1, <1>5, <3>1 DEF HashOf
    <3>3. old.mark \in Mark
      BY DEF Row
    <3> QED
      BY <1>5, <3>2, <3>3 DEF RowInv, HashOK, ShapeOK, Mark, Judged
  <2> QED
    BY <2>1, <2>2, <2>3
<1> QED
  BY <1>3, <1>4, <1>5

\* What a scan does to every row.
LEMMA UpsertRows ==
  ASSUME IInv, NEW D \in SUBSET Ids, NEW batch \in [D -> Recs],
         UpsertDecisions(batch), NEW d \in Ids
  PROVE  ledger'[d] = IF d \in D
                      THEN Stored(Merge(ledger[d], Observed(batch[d])))
                      ELSE ledger[d]
BY DEF UpsertDecisions

\* Only MarkDecisionExecuted makes a decision executed; it finds it approved.
LEMMA OnlyApprovedExecuted ==
  ASSUME IInv, [Next]_vars, NEW d \in Ids,
         ledger'[d].status = "executed", ledger[d].status # "executed"
  PROVE  ledger[d].status = "approved" /\ ledger'[d].rec = ledger[d].rec
<1>0. ledger[d] \in Row
  BY DEF IInv, Shapes
<1>1. ASSUME NEW D \in SUBSET Ids, NEW batch \in [D -> Recs],
             UpsertDecisions(batch)
      PROVE  FALSE
  <2>1. CASE d \notin D
    BY <1>1, <2>1, UpsertRows
  <2>2. CASE d \in D
    <3>1. /\ batch[d] \in Recs /\ verdict[d] \in Verdict
          /\ RowInv(d, ledger[d], verdict[d], seen[d])
      BY <2>2 DEF IInv, Shapes
    <3>2. ledger'[d] = Stored(Merge(ledger[d], Observed(batch[d])))
      BY <1>1, <2>2, UpsertRows
    <3> QED
      BY <1>0, <3>1, <3>2, MergeReopens
  <2> QED
    BY <2>1, <2>2
<1>2. ASSUME NEW e \in Ids, NEW h \in Humans, ApproveDecision(e, h)
      PROVE  FALSE
  BY <1>0, <1>2 DEF ApproveDecision, Write, IInv, Shapes, Row
<1>3. ASSUME NEW e \in Ids, NEW h \in Humans, RejectDecision(e, h)
      PROVE  FALSE
  BY <1>0, <1>3 DEF RejectDecision, Write, IInv, Shapes, Row
<1>4. ASSUME NEW e \in Ids, NEW h \in Humans, AttestOwner(e, h)
      PROVE  FALSE
  BY <1>0, <1>4 DEF AttestOwner, Write, IInv, Shapes, Row
<1>5. ASSUME NEW e \in Ids, MarkDecisionExecuted(e)
      PROVE  ledger[d].status = "approved" /\ ledger'[d].rec = ledger[d].rec
  BY <1>0, <1>5 DEF MarkDecisionExecuted, transitionDecision, Write,
     IInv, Shapes, Row
<1>6. ASSUME NEW e \in Ids, MarkDecisionVerified(e)
      PROVE  FALSE
  BY <1>0, <1>6 DEF MarkDecisionVerified, transitionDecision, Write,
     IInv, Shapes, Row
<1>7. CASE UNCHANGED vars
  BY <1>7 DEF vars
<1> QED
  BY <1>1, <1>2, <1>3, <1>4, <1>5, <1>6, <1>7 DEF Next

\* A decision is executed only if the last word of a human about it was to
\* approve exactly the recommendation it holds.
THEOREM LedgerExecutesOnConsent == Spec => ExecutedOnConsent
<1>1. IInv /\ [Next]_vars =>
        [\A d \in Ids :
           ledger'[d].status = "executed" /\ ledger[d].status # "executed"
             => verdict[d].said = "yes" /\ verdict[d].rec = ledger'[d].rec]_vars
  <2> SUFFICES ASSUME IInv, [Next]_vars, NEW d \in Ids,
                      ledger'[d].status = "executed",
                      ledger[d].status # "executed"
               PROVE  verdict[d].said = "yes" /\ verdict[d].rec = ledger'[d].rec
    OBVIOUS
  <2>1. ledger[d].status = "approved" /\ ledger'[d].rec = ledger[d].rec
    BY OnlyApprovedExecuted
  <2> QED
    BY <2>1 DEF IInv, RowInv, ConsentOK
<1> QED
  BY <1>1, LedgerInvariant, PTL DEF Spec, ExecutedOnConsent

\* An event starts at the status the row had.
LEMMA EventStarts ==
  ASSUME IInv, [Next]_vars, NEW d \in Ids, trail'[d] # trail[d]
  PROVE  trail'[d].from = ledger[d].status
<1>1. ASSUME NEW D \in SUBSET Ids, NEW batch \in [D -> Recs],
             UpsertDecisions(batch)
      PROVE  trail'[d].from = ledger[d].status
  BY <1>1 DEF UpsertDecisions
<1>2. ASSUME NEW e \in Ids, NEW STATE row, Write(e, row)
      PROVE  trail'[d].from = ledger[d].status
  <2>1. e = d
    BY <1>2 DEF Write, IInv, Shapes
  <2> QED
    BY <1>2, <2>1 DEF Write, IInv, Shapes
<1>3. CASE UNCHANGED vars
  BY <1>3 DEF vars
<1> QED
  BY <1>1, <1>2, <1>3 DEF Next, ApproveDecision, RejectDecision, AttestOwner,
     MarkDecisionExecuted, MarkDecisionVerified, transitionDecision

\* The events of a decision tell its whole story.
THEOREM LedgerAudited == Spec => Audited
<1>1. IInv /\ IInv' /\ [Next]_vars =>
        [\A d \in Ids :
           /\ trail'[d].to = ledger'[d].status
           /\ trail'[d] # trail[d] => trail'[d].from = trail[d].to
           /\ ledger'[d].status # ledger[d].status => trail'[d] # trail[d]]_vars
  BY EventStarts DEF IInv
<1> QED
  BY <1>1, LedgerInvariant, PTL DEF Spec, Audited

-----------------------------------------------------------------------------
(* The ledger implements Consent.                                          *)

Phases == [d \in Ids |-> PhaseOf(ledger[d].status)]
Abouts == [d \in Ids |-> ledger[d].rec]

LEMMA PhaseFacts ==
  ASSUME NEW status \in Status
  PROVE  /\ PhaseOf(status) = "open" <=> status \notin Judged
         /\ PhaseOf(status) = "agreed" <=> status = "approved"
         /\ PhaseOf(status) = "refused" <=> status = "rejected"
         /\ PhaseOf(status) = "done" <=> status \in {"executed", "verified"}
BY DEF PhaseOf, Status, Judged

\* A scan reopens what it recommends otherwise, or leaves a decision alone.
LEMMA UpsertObserves ==
  ASSUME IInv, NEW D \in SUBSET Ids, NEW batch \in [D -> Recs],
         UpsertDecisions(batch)
  PROVE  Promise!Observe
<1> DEFINE Same(d) == /\ ledger'[d].status = ledger[d].status
                      /\ ledger'[d].rec = ledger[d].rec
           Reopened(d) == /\ ledger'[d].status \in {"proposed", "blocked", "stale"}
                          /\ ledger'[d].rec = batch[d]
                          /\ \/ ledger[d].status \notin Judged
                             \/ batch[d] # ledger[d].rec
                             \/ d \in Attestable /\ ledger[d].status = "verified"
           R == {d \in D : Reopened(d)}
           rec == [d \in R |-> batch[d]]
<1>1. ASSUME NEW d \in Ids
      PROVE  /\ ledger[d].status \in Status
             /\ d \notin D => Same(d)
             /\ d \in D => Same(d) \/ Reopened(d)
  <2>1. /\ ledger[d] \in Row /\ verdict[d] \in Verdict
        /\ RowInv(d, ledger[d], verdict[d], seen[d])
    BY DEF IInv, Shapes
  <2>2. CASE d \notin D
    BY <2>1, <2>2, UpsertRows DEF Row
  <2>3. CASE d \in D
    <3>1. batch[d] \in Recs
      BY <2>3
    <3>2. ledger'[d] = Stored(Merge(ledger[d], Observed(batch[d])))
      BY <2>3, UpsertRows
    <3> QED
      BY <2>1, <2>3, <3>1, <3>2, MergeReopens DEF Row
  <2> QED
    BY <2>2, <2>3
<1>2. R \in SUBSET Ids /\ rec \in [R -> Recs]
  OBVIOUS
<1>3. ASSUME NEW d \in R
      PROVE  /\ ledger'[d].status \in {"proposed", "blocked", "stale"}
             /\ ledger'[d].rec = rec[d]
             /\ \/ ledger[d].status \notin Judged
                \/ rec[d] # ledger[d].rec
                \/ d \in Attestable /\ ledger[d].status = "verified"
  OBVIOUS
<1>4. ASSUME NEW d \in Ids, d \notin R
      PROVE  Same(d)
  BY <1>1, <1>4
<1> HIDE DEF R, rec
<1>5. ASSUME NEW d \in R
      PROVE  \/ Phases[d] = "open"
             \/ rec[d] # Abouts[d]
             \/ d \in Attestable /\ Phases[d] = "done"
  BY <1>1, <1>2, <1>3, PhaseFacts DEF Phases, Abouts
<1>6. Phases' = [d \in Ids |-> IF d \in R THEN "open" ELSE Phases[d]]
  <2>1. ASSUME NEW d \in R
        PROVE  PhaseOf(ledger'[d].status) = "open"
    BY <1>3 DEF PhaseOf
  <2> QED
    BY <1>4, <2>1 DEF Phases
<1>7. Abouts' = [d \in Ids |-> IF d \in R THEN rec[d] ELSE Abouts[d]]
  BY <1>3, <1>4 DEF Abouts
<1> QED
  BY <1>2, <1>5, <1>6, <1>7
     DEF Promise!Observe, Promise!MayReopen, Phases, Abouts

\* One row written with its recommendation kept maps to one phase changed.
LEMMA WritePhase ==
  ASSUME IInv, NEW d \in Ids, NEW STATE row, Write(d, row), row.rec = ledger[d].rec
  PROVE  /\ Phases' = [Phases EXCEPT ![d] = PhaseOf(row.status)]
         /\ Abouts' = Abouts
<1>1. ledger' = [ledger EXCEPT ![d] = row] /\ DOMAIN ledger = Ids
  BY DEF Write, IInv, Shapes
<1>2. Phases' = [Phases EXCEPT ![d] = PhaseOf(row.status)]
  <2>1. \A e \in Ids : ledger'[e] = IF e = d THEN row ELSE ledger[e]
    BY <1>1
  <2>2. \A e \in Ids : PhaseOf(ledger'[e].status)
                         = IF e = d THEN PhaseOf(row.status)
                           ELSE PhaseOf(ledger[e].status)
    BY <2>1
  <2> QED
    BY <2>2 DEF Phases
<1>3. Abouts' = Abouts
  BY <1>1 DEF Abouts
<1> QED
  BY <1>2, <1>3

\* Every step of the ledger is a step of Consent or leaves it alone.
LEMMA StepRefines ==
  IInv /\ [Next]_vars => [Promise!Next]_<<Phases, Abouts>>
<1> SUFFICES ASSUME IInv, [Next]_vars
             PROVE  Promise!Next \/ UNCHANGED <<Phases, Abouts>>
  OBVIOUS
<1>1. ASSUME NEW d \in Ids
      PROVE  /\ ledger[d] \in Row /\ ledger[d].status \in Status
             /\ Phases[d] = PhaseOf(ledger[d].status)
  BY DEF IInv, Shapes, Row, Phases
<1>2. ASSUME NEW D \in SUBSET Ids, NEW batch \in [D -> Recs],
             UpsertDecisions(batch)
      PROVE  Promise!Next
  BY <1>2, UpsertObserves DEF Promise!Next
<1>3. ASSUME NEW d \in Ids, NEW h \in Humans, ApproveDecision(d, h)
      PROVE  Promise!Agree(d)
  <2> DEFINE row == [ledger[d] EXCEPT !.status = "approved", !.approvedBy = h,
                                      !.rejectedBy = Nothing]
  <2>1. row.status = "approved" /\ row.rec = ledger[d].rec
    BY <1>1 DEF Row
  <2>2. Write(d, row) /\ ledger[d].status = "proposed"
    BY <1>3 DEF ApproveDecision
  <2> HIDE DEF row
  <2>3. /\ Phases' = [Phases EXCEPT ![d] = PhaseOf("approved")]
        /\ Abouts' = Abouts
    BY <2>1, <2>2, WritePhase
  <2>4. Phases[d] = "open" /\ PhaseOf("approved") = "agreed"
    BY <1>1, <2>2 DEF PhaseOf
  <2> QED
    BY <2>3, <2>4 DEF Promise!Agree, Phases, Abouts
<1>4. ASSUME NEW d \in Ids, NEW h \in Humans, RejectDecision(d, h)
      PROVE  Promise!Refuse(d)
  <2> DEFINE row == [ledger[d] EXCEPT !.status = "rejected", !.rejectedBy = h,
                                      !.approvedBy = Nothing]
  <2>1. row.status = "rejected" /\ row.rec = ledger[d].rec
    BY <1>1 DEF Row
  <2>2. Write(d, row) /\ ledger[d].status \in {"proposed", "approved"}
    BY <1>4 DEF RejectDecision
  <2> HIDE DEF row
  <2>3. /\ Phases' = [Phases EXCEPT ![d] = PhaseOf("rejected")]
        /\ Abouts' = Abouts
    BY <2>1, <2>2, WritePhase
  <2>4. Phases[d] \in {"open", "agreed"} /\ PhaseOf("rejected") = "refused"
    BY <1>1, <2>2 DEF PhaseOf
  <2> QED
    BY <2>3, <2>4 DEF Promise!Refuse, Phases, Abouts
<1>5. ASSUME NEW d \in Ids, NEW h \in Humans, AttestOwner(d, h)
      PROVE  Promise!Carry(d)
  <2> DEFINE row == [ledger[d] EXCEPT !.status = "verified", !.approvedBy = h,
                                      !.mark = "attested"]
  <2>1. row.status = "verified" /\ row.rec = ledger[d].rec
    BY <1>1 DEF Row
  <2>2. /\ Write(d, row) /\ ledger[d].status \in {"proposed", "approved"}
        /\ d \in Attestable
    BY <1>5 DEF AttestOwner
  <2> HIDE DEF row
  <2>3. /\ Phases' = [Phases EXCEPT ![d] = PhaseOf("verified")]
        /\ Abouts' = Abouts
    BY <2>1, <2>2, WritePhase
  <2>4. Phases[d] \in {"open", "agreed"} /\ PhaseOf("verified") = "done"
    BY <1>1, <2>2 DEF PhaseOf
  <2> QED
    BY <2>2, <2>3, <2>4 DEF Promise!Carry, Phases, Abouts
<1>6. ASSUME NEW d \in Ids, MarkDecisionExecuted(d)
      PROVE  Promise!Carry(d)
  <2> DEFINE row == [ledger[d] EXCEPT !.status = "executed"]
  <2>1. row.status = "executed" /\ row.rec = ledger[d].rec
    BY <1>1 DEF Row
  <2>2. Write(d, row) /\ ledger[d].status = "approved"
    BY <1>6 DEF MarkDecisionExecuted, transitionDecision
  <2> HIDE DEF row
  <2>3. /\ Phases' = [Phases EXCEPT ![d] = PhaseOf("executed")]
        /\ Abouts' = Abouts
    BY <2>1, <2>2, WritePhase
  <2>4. Phases[d] = "agreed" /\ PhaseOf("executed") = "done"
    BY <1>1, <2>2 DEF PhaseOf
  <2> QED
    BY <2>2, <2>3, <2>4 DEF Promise!Carry, Phases, Abouts
<1>7. ASSUME NEW d \in Ids, MarkDecisionVerified(d)
      PROVE  UNCHANGED <<Phases, Abouts>>
  <2> DEFINE row == [ledger[d] EXCEPT !.status = "verified"]
  <2>1. row.status = "verified" /\ row.rec = ledger[d].rec
    BY <1>1 DEF Row
  <2>2. Write(d, row) /\ ledger[d].status = "executed"
    BY <1>7 DEF MarkDecisionVerified, transitionDecision
  <2> HIDE DEF row
  <2>3. /\ Phases' = [Phases EXCEPT ![d] = PhaseOf("verified")]
        /\ Abouts' = Abouts
    BY <2>1, <2>2, WritePhase
  <2>4. Phases[d] = PhaseOf("verified")
    BY <1>1, <2>2 DEF PhaseOf
  <2> QED
    BY <2>3, <2>4 DEF Phases
<1>8. CASE UNCHANGED vars
  BY <1>8 DEF vars, Phases, Abouts
<1> QED
  BY <1>2, <1>3, <1>4, <1>5, <1>6, <1>7, <1>8 DEF Next, Promise!Next

\* The ledger keeps the promises of Consent: it implements that specification
\* under the mapping that forgets the hashes, the marks and the names.
THEOREM LedgerKeepsPromise == Spec => KeepsPromise
<1>1. Init => Promise!Init
  BY DEF Init, NoRow, Promise!Init, PhaseOf
<1> QED
  BY <1>1, StepRefines, LedgerInvariant, PTL
     DEF Spec, KeepsPromise, Promise!Spec, Phases, Abouts
=============================================================================
