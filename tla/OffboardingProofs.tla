-------------------------- MODULE OffboardingProofs --------------------------
(***************************************************************************)
(* Proofs about Offboarding, for any seats, humans, numbers of commands    *)
(* and bounds: the commands use the ledger as DecisionLedger allows, and   *)
(* so keep the promises of Consent; a seat is removed only with a human's  *)
(* consent and for a reason that was true; and what is called executed was *)
(* removed.                                                                *)
(***************************************************************************)
EXTENDS Offboarding, DecisionLedgerProofs

\* The ways an owner has been gone, by a history b.
Left(b, s) == b[s] \cap {"suspended", "gone"}

\* What a command holds in hand is true of the world, or was.
ScanOK(me, b) ==
  /\ me.step \in {"directory", "groups", "seats", "persist", "hydrate", "store"}
       => me.seat \in Seats
  /\ me.step \in {"groups", "seats", "persist"}
       => me.status = "active" \/ me.status \in Left(b, me.seat)
  /\ me.step = "persist" /\ me.class = "orphan" => me.status # "active"

ApplyOK(me, b, gone) ==
  /\ me.step = "remove" =>
       /\ me.decision \in Ids /\ me.decision[2] = "remove"
       /\ me.consent.said = "yes"
       /\ me.consent.rec \in Left(b, me.decision[1])
  /\ me.step = "mark" =>
       /\ me.decision \in Ids /\ me.decision[2] = "remove"
       /\ me.decision[1] \in gone

ProcsOK ==
  /\ DOMAIN proc = Procs
  /\ \A p \in Procs : ScanOK(proc[p], been) /\ ApplyOK(proc[p], been, removed)

WorldOK ==
  /\ person \in [Seats -> Standing]
  /\ been \in [Seats -> SUBSET Standing]
  /\ \A s \in Seats : person[s] \in been[s]
  /\ removed \subseteq Seats

\* A removal that can be carried out is recommended for a reason that was true.
Reasoned ==
  \A s \in removable \cap Seats :
    ledger[Removal(s)].rec \in {Nothing} \cup Left(been, s)

OffInv == IInv /\ WorldOK /\ ProcsOK /\ Reasoned /\ ExecutedIsRemoved
-----------------------------------------------------------------------------
LEMMA RemovalIsId ==
  ASSUME NEW s \in Seats
  PROVE  Removal(s) \in Ids /\ Review(s) \in Ids
         /\ Removal(s)[1] = s /\ Removal(s)[2] = "remove"
BY OffboardingAssumption DEF Removal, Review

LEMMA RemovalOf ==
  ASSUME NEW d \in Ids, d[2] = "remove"
  PROVE  d[1] \in Seats /\ d = Removal(d[1])
BY OffboardingAssumption DEF Removal

\* A turn of a command.
LEMMA TurnFacts ==
  ASSUME DOMAIN proc = Procs, NEW p \in Procs, NEW next, Turn(p, next)
  PROVE  /\ DOMAIN proc' = Procs /\ proc'[p] = next
         /\ \A q \in Procs \ {p} : proc'[q] = proc[q]
BY DEF Turn

\* What BuildDecisions emits is a batch of recommendations the ledger knows;
\* a removal that can be carried out is recommended for what was read.
LEMMA DecisionsAreBatch ==
  ASSUME NEW me, me.seat \in Seats
  PROVE  /\ DOMAIN Decisions(me) \in SUBSET Ids
         /\ Decisions(me) \in [DOMAIN Decisions(me) -> Recs]
         /\ \A s \in Seats : Removal(s) \in DOMAIN Decisions(me) =>
              /\ s = me.seat /\ me.class = "orphan"
              /\ s \in removable => Decisions(me)[Removal(s)] =
                   IF me.status = "gone" THEN "gone" ELSE "suspended"
<1> DEFINE s == me.seat
           due == {d \in {Removal(s)} : me.class = "orphan"}
                    \cup {d \in {Review(s)} : me.class = "unmapped"}
           rec == IF me.class = "unmapped" THEN "unmapped"
                  ELSE IF s \notin removable THEN "cannot"
                  ELSE IF me.status = "gone" THEN "gone" ELSE "suspended"
<1>1. Decisions(me) = [d \in due |-> rec]
  BY DEF Decisions
<1>2. rec \in Recs
  BY OffboardingAssumption
<1>3. due \in SUBSET Ids
  BY RemovalIsId
<1>4. ASSUME NEW t \in Seats, Removal(t) \in due
      PROVE  t = s /\ me.class = "orphan"
  BY <1>4 DEF Removal, Review
<1>5. me.class = "orphan" /\ s \in removable =>
        rec = IF me.status = "gone" THEN "gone" ELSE "suspended"
  OBVIOUS
<1> HIDE DEF due, rec
<1> QED
  BY <1>1, <1>2, <1>3, <1>4, <1>5

-----------------------------------------------------------------------------
(* How commands and rows keep their parts of the invariant.                *)

\* What was true in the past stays true of the past.
LEMMA Grown ==
  ASSUME NEW me, NEW b, NEW c, NEW g, NEW h,
         \A s \in Seats : b[s] \subseteq c[s], g \subseteq h,
         ScanOK(me, b), ApplyOK(me, b, g)
  PROVE  ScanOK(me, c) /\ ApplyOK(me, c, h)
<1>1. \A s \in Seats : Left(b, s) \subseteq Left(c, s)
  BY DEF Left
<1>2. ScanOK(me, c)
  BY <1>1 DEF ScanOK
<1>3. ApplyOK(me, c, h)
  BY <1>1, RemovalOf DEF ApplyOK
<1> QED
  BY <1>2, <1>3

\* One command takes a turn; the others keep what they hold.
LEMMA TurnKeeps ==
  ASSUME ProcsOK, NEW p \in Procs, NEW next, Turn(p, next),
         \A s \in Seats : been[s] \subseteq been'[s], removed \subseteq removed',
         ScanOK(next, been'), ApplyOK(next, been', removed')
  PROVE  ProcsOK'
<1>1. DOMAIN proc = Procs
  BY DEF ProcsOK
<1>2. /\ DOMAIN proc' = Procs /\ proc'[p] = next
      /\ \A q \in Procs \ {p} : proc'[q] = proc[q]
  BY <1>1, TurnFacts
<1>3. ASSUME NEW q \in Procs
      PROVE  ScanOK(proc'[q], been') /\ ApplyOK(proc'[q], been', removed')
  <2>1. CASE q = p
    BY <1>2, <2>1
  <2>2. CASE q # p
    <3>1. ScanOK(proc[q], been) /\ ApplyOK(proc[q], been, removed)
      BY DEF ProcsOK
    <3>2. ScanOK(proc[q], been') /\ ApplyOK(proc[q], been', removed')
      BY <3>1, Grown
    <3> QED
      BY <1>2, <2>2, <3>2
  <2> QED
    BY <2>1, <2>2
<1> QED
  BY <1>2, <1>3 DEF ProcsOK

\* A step that leaves the ledger alone keeps the ledger's invariant.
LEMMA StayKeeps ==
  ASSUME IInv, Stay
  PROVE  IInv'
BY NextInv DEF Stay

\* A turn that changes neither the ledger nor the world.
LEMMA QuietInv ==
  ASSUME OffInv, NEW p \in Procs, NEW next, Turn(p, next), Stay,
         UNCHANGED <<world, removed>>,
         ScanOK(next, been), ApplyOK(next, been, removed)
  PROVE  OffInv'
<1>1. UNCHANGED <<ledger, removable, person, been, removed>>
  BY DEF Stay, vars, world
<1>2. IInv'
  BY StayKeeps DEF OffInv
<1>3. WorldOK' /\ Reasoned' /\ ExecutedIsRemoved'
  BY <1>1 DEF OffInv, WorldOK, Reasoned, ExecutedIsRemoved
<1>4. ProcsOK'
  BY <1>1, TurnKeeps DEF OffInv
<1> QED
  BY <1>2, <1>3, <1>4 DEF OffInv

\* A human's word, or a mark, on one row.
LEMMA WriteKeeps ==
  ASSUME OffInv, NEW d \in Ids, NEW row, Write(d, row),
         row.rec = ledger[d].rec,
         row.status = "executed" => d[2] = "remove" /\ d[1] \in removed,
         UNCHANGED <<removable, been, removed>>
  PROVE  Reasoned' /\ ExecutedIsRemoved'
<1>1. /\ ledger'[d] = row
      /\ \A e \in Ids \ {d} : ledger'[e] = ledger[e]
  BY DEF OffInv, IInv, Shapes, Write
<1>2. \A e \in Ids : ledger'[e].rec = ledger[e].rec
  BY <1>1
<1>3. Reasoned'
  BY <1>2, RemovalIsId DEF Reasoned, OffInv
<1>4. ASSUME NEW s \in Seats, ledger'[Removal(s)].status = "executed"
      PROVE  s \in removed
  <2>1. CASE Removal(s) = d
    BY <1>1, <1>4, <2>1, RemovalIsId
  <2>2. CASE Removal(s) # d
    BY <1>1, <1>4, <2>2, RemovalIsId DEF OffInv, ExecutedIsRemoved
  <2> QED
    BY <2>1, <2>2
<1> QED
  BY <1>3, <1>4 DEF ExecutedIsRemoved

-----------------------------------------------------------------------------
(* The actions.                                                            *)

LEMMA RestingOK ==
  ASSUME NEW b, NEW g
  PROVE  ScanOK(Resting, b) /\ ApplyOK(Resting, b, g)
BY DEF Resting, ScanOK, ApplyOK

LEMMA StandInv ==
  ASSUME OffInv, NEW s \in Seats, NEW standing \in Standing, Stand(s, standing)
  PROVE  OffInv'
<1>1. /\ person' = [person EXCEPT ![s] = standing]
      /\ been' = [been EXCEPT ![s] = been[s] \cup {standing}]
      /\ UNCHANGED <<removable, proc, removed, ledger>> /\ Stay
  BY DEF Stand, Rest, Stay, vars
<1>2. WorldOK'
  BY <1>1 DEF OffInv, WorldOK
<1>3. \A t \in Seats : been[t] \subseteq been'[t]
  BY <1>1 DEF OffInv, WorldOK
<1>4. ProcsOK'
  BY <1>1, <1>3, Grown DEF OffInv, ProcsOK
<1>5. Reasoned' /\ ExecutedIsRemoved'
  BY <1>1, <1>3 DEF OffInv, Reasoned, Left, ExecutedIsRemoved
<1>6. IInv'
  BY <1>1, StayKeeps DEF OffInv
<1> QED
  BY <1>2, <1>4, <1>5, <1>6 DEF OffInv

LEMMA HandInv ==
  ASSUME OffInv, NEW s \in Seats, Hand(s)
  PROVE  OffInv'
<1>1. UNCHANGED <<person, been, removable, proc, removed, ledger>> /\ Stay
  BY DEF Hand, Rest, Stay, vars
<1>2. IInv'
  BY <1>1, StayKeeps DEF OffInv
<1> QED
  BY <1>1, <1>2 DEF OffInv, WorldOK, ProcsOK, Reasoned, ExecutedIsRemoved

LEMMA JudgeInv ==
  ASSUME OffInv, NEW d \in Ids, NEW h \in Humans, Judge(d, h)
  PROVE  OffInv'
<1>1. UNCHANGED <<removable, person, been, removed, proc>>
  BY DEF Judge, Quiet, world
<1>2. ledger[d] \in Row
  BY DEF OffInv, IInv, Shapes
<1>3. Reasoned' /\ ExecutedIsRemoved'
  <2>1. CASE ApproveDecision(d, h)
    <3> DEFINE row == [ledger[d] EXCEPT !.status = "approved",
                         !.approvedBy = h, !.rejectedBy = Nothing]
    <3>1. row.status = "approved" /\ row.rec = ledger[d].rec
      BY <1>2 DEF Row
    <3>2. Write(d, row)
      BY <2>1 DEF ApproveDecision
    <3> HIDE DEF row
    <3> QED
      BY <1>1, <3>1, <3>2, WriteKeeps
  <2>2. CASE RejectDecision(d, h)
    <3> DEFINE row == [ledger[d] EXCEPT !.status = "rejected",
                         !.rejectedBy = h, !.approvedBy = Nothing]
    <3>1. row.status = "rejected" /\ row.rec = ledger[d].rec
      BY <1>2 DEF Row
    <3>2. Write(d, row)
      BY <2>2 DEF RejectDecision
    <3> HIDE DEF row
    <3> QED
      BY <1>1, <3>1, <3>2, WriteKeeps
  <2> QED
    BY <2>1, <2>2 DEF Judge
<1>4. IInv'
  BY ApproveInv, RejectInv DEF Judge, OffInv
<1>5. WorldOK' /\ ProcsOK'
  BY <1>1 DEF OffInv, WorldOK, ProcsOK
<1> QED
  BY <1>3, <1>4, <1>5 DEF OffInv

LEMMA StartOffboardInv ==
  ASSUME OffInv, NEW p \in Procs, NEW s \in Seats, StartOffboard(p, s)
  PROVE  OffInv'
<1> DEFINE next == [step |-> "directory", seat |-> s]
<1>1. Turn(p, next) /\ Stay /\ UNCHANGED <<world, removed>>
  BY DEF StartOffboard
<1>2. ScanOK(next, been) /\ ApplyOK(next, been, removed)
  BY DEF ScanOK, ApplyOK
<1> HIDE DEF next
<1> QED
  BY <1>1, <1>2, QuietInv

LEMMA ReadDirectoryInv ==
  ASSUME OffInv, NEW p \in Procs, ReadDirectory(p)
  PROVE  OffInv'
<1> DEFINE s == proc[p].seat
           status == IF Employed(person[s]) THEN "active" ELSE person[s]
           next == [step |-> "groups", seat |-> s, status |-> status]
<1>1. Turn(p, next) /\ Stay /\ UNCHANGED <<world, removed>>
  BY DEF ReadDirectory, Quiet
<1>2. s \in Seats
  BY DEF ReadDirectory, Scanning, OffInv, ProcsOK, ScanOK
<1>3. person[s] \in been[s] /\ person[s] \in Standing
  BY <1>2 DEF OffInv, WorldOK
<1>4. status = "active" \/ status \in Left(been, s)
  BY <1>3 DEF Employed, Standing, Left
<1> HIDE DEF s, status
<1>5. ScanOK(next, been) /\ ApplyOK(next, been, removed)
  BY <1>2, <1>4 DEF ScanOK, ApplyOK
<1> HIDE DEF next
<1> QED
  BY <1>1, <1>5, QuietInv

LEMMA ReadGroupsInv ==
  ASSUME OffInv, NEW p \in Procs, ReadGroups(p)
  PROVE  OffInv'
<1> DEFINE me == proc[p]
<1>1. PICK read \in BOOLEAN :
        Turn(p, [step |-> "seats", seat |-> me.seat, status |-> me.status,
                 unknown |-> ~read,
                 desired |-> read /\ person[me.seat] = "mapped"])
  BY DEF ReadGroups
<1> DEFINE next == [step |-> "seats", seat |-> me.seat, status |-> me.status,
                    unknown |-> ~read,
                    desired |-> read /\ person[me.seat] = "mapped"]
<1>2. Stay /\ UNCHANGED <<world, removed>>
  BY DEF ReadGroups, Quiet
<1>3. me.step = "groups" /\ ScanOK(me, been)
  BY DEF ReadGroups, Scanning, OffInv, ProcsOK
<1>4. ScanOK(next, been) /\ ApplyOK(next, been, removed)
  BY <1>3 DEF ScanOK, ApplyOK
<1>5. Turn(p, next)
  BY <1>1
<1> HIDE DEF next
<1> QED
  BY <1>2, <1>4, <1>5, QuietInv

\* Only who is not employed is an orphan.
LEMMA OrphanLeft ==
  ASSUME NEW status, NEW desired, Class(status, desired) = "orphan"
  PROVE  status # "active"
BY DEF Class

LEMMA ListSeatsInv ==
  ASSUME OffInv, NEW p \in Procs, ListSeats(p)
  PROVE  OffInv'
<1> DEFINE me == proc[p]
<1>1. PICK class \in {"unread", IF held[me.seat]
                                THEN Class(me.status, me.desired) ELSE "none"},
           told \in BOOLEAN :
        Turn(p, [step |-> "persist", seat |-> me.seat, class |-> class,
                 status |-> me.status, unknown |-> me.unknown \/ ~told])
  BY DEF ListSeats
<1> DEFINE next == [step |-> "persist", seat |-> me.seat, class |-> class,
                    status |-> me.status, unknown |-> me.unknown \/ ~told]
<1>2. Stay /\ UNCHANGED <<world, removed>>
  BY DEF ListSeats, Quiet
<1>3. me.step = "seats" /\ ScanOK(me, been)
  BY DEF ListSeats, Scanning, OffInv, ProcsOK
<1>4. class = "orphan" => me.status # "active"
  BY <1>1, OrphanLeft
<1>5. ScanOK(next, been) /\ ApplyOK(next, been, removed)
  BY <1>3, <1>4 DEF ScanOK, ApplyOK
<1>6. Turn(p, next)
  BY <1>1
<1> HIDE DEF next
<1> QED
  BY <1>2, <1>5, <1>6, QuietInv

\* What a scan records leaves executed what was, and recommends a removal that
\* can be carried out for what it read.
LEMMA PersistInv ==
  ASSUME OffInv, NEW p \in Procs, Persist(p)
  PROVE  OffInv'
<1> DEFINE me == proc[p]
           batch == Decisions(me)
           D == DOMAIN batch
           next == [step |-> "hydrate", seat |-> me.seat, class |-> me.class,
                    status |-> me.status, unknown |-> me.unknown, ids |-> D]
<1>1. UpsertDecisions(batch) /\ Turn(p, next)
  BY DEF Persist
<1>2. UNCHANGED <<removable, person, been, removed>>
  BY DEF Persist, world
<1>3. me.step = "persist" /\ me.seat \in Seats /\ ScanOK(me, been)
  BY DEF Persist, Scanning, OffInv, ProcsOK, ScanOK
<1>4. /\ D \in SUBSET Ids /\ batch \in [D -> Recs]
      /\ \A s \in Seats : Removal(s) \in D =>
           /\ s = me.seat /\ me.class = "orphan"
           /\ s \in removable => batch[Removal(s)] =
                IF me.status = "gone" THEN "gone" ELSE "suspended"
  BY <1>3, DecisionsAreBatch
<1>5. ScanOK(next, been) /\ ApplyOK(next, been, removed)
  BY <1>3 DEF ScanOK, ApplyOK
<1>6. me.class = "orphan" =>
        (IF me.status = "gone" THEN "gone" ELSE "suspended")
          \in Left(been, me.seat)
  BY <1>3 DEF ScanOK, Left
<1> HIDE DEF batch, D, next, me
<1>7. IInv'
  BY <1>1, <1>4, UpsertInv DEF OffInv
<1>8. ProcsOK'
  BY <1>1, <1>2, <1>5, TurnKeeps DEF OffInv
<1>9. ASSUME NEW s \in Seats
      PROVE  /\ s \in removable =>
                  ledger'[Removal(s)].rec \in {Nothing} \cup Left(been, s)
             /\ ledger'[Removal(s)].status = "executed" => s \in removed
  <2> DEFINE d == Removal(s)
  <2>1. /\ d \in Ids /\ ledger[d] \in Row /\ verdict[d] \in Verdict
        /\ RowInv(d, ledger[d], verdict[d], seen[d])
    BY RemovalIsId DEF OffInv, IInv, Shapes
  <2>2. /\ s \in removable => ledger[d].rec \in {Nothing} \cup Left(been, s)
        /\ ledger[d].status = "executed" => s \in removed
    BY DEF OffInv, Reasoned, ExecutedIsRemoved
  <2>3. CASE d \notin D
    <3>1. ledger'[d] = ledger[d]
      BY <1>1, <1>4, <2>1, <2>3, UpsertRows DEF OffInv
    <3> QED
      BY <2>2, <3>1
  <2>4. CASE d \in D
    <3>1. ledger'[d] = Stored(Merge(ledger[d], Observed(batch[d])))
      BY <1>1, <1>4, <2>1, <2>4, UpsertRows DEF OffInv
    <3>2. batch[d] \in Recs
      BY <1>4, <2>4
    <3>3. \/ ledger'[d].status = ledger[d].status /\ ledger'[d].rec = ledger[d].rec
          \/ /\ ledger'[d].status \in {"proposed", "blocked", "stale"}
             /\ ledger'[d].rec = batch[d]
      BY <2>1, <3>1, <3>2, MergeReopens
    <3>4. s \in removable => batch[d] \in Left(been, s)
      BY <1>4, <1>6, <2>4
    <3> QED
      BY <2>2, <3>3, <3>4
  <2> QED
    BY <2>3, <2>4
<1>10. Reasoned' /\ ExecutedIsRemoved'
  BY <1>2, <1>9 DEF Reasoned, ExecutedIsRemoved
<1>11. WorldOK'
  BY <1>2 DEF OffInv, WorldOK
<1> QED
  BY <1>7, <1>8, <1>10, <1>11 DEF OffInv

LEMMA HydrateInv ==
  ASSUME OffInv, NEW p \in Procs, Hydrate(p)
  PROVE  OffInv'
<1> DEFINE me == proc[p]
           failed == me.class = "unread"
           unmatched == me.status = "gone" /\ me.class \in {"unread", "none"}
           certified == CertificateStatus(failed,
                          unmatched \/ (me.unknown /\ ~failed),
                          {ledger[d].status : d \in me.ids})
           next == [step |-> "store", seat |-> me.seat, class |-> me.class,
                    certified |-> certified]
<1>1. Turn(p, next) /\ Stay /\ UNCHANGED <<world, removed>>
  BY DEF Hydrate, Quiet
<1>2. me.step = "hydrate" /\ ScanOK(me, been)
  BY DEF Hydrate, Scanning, OffInv, ProcsOK
<1> HIDE DEF certified
<1>3. ScanOK(next, been) /\ ApplyOK(next, been, removed)
  BY <1>2 DEF ScanOK, ApplyOK
<1> HIDE DEF next
<1> QED
  BY <1>1, <1>3, QuietInv

LEMMA StoreInv ==
  ASSUME OffInv, NEW p \in Procs, Store(p) \/ Abandon(p)
  PROVE  OffInv'
<1>1. Turn(p, Resting) /\ Stay /\ UNCHANGED <<world, removed>>
  BY DEF Store, Abandon, Quiet
<1> QED
  BY <1>1, RestingOK, QuietInv

\* What enforcement takes in hand was agreed to, for a reason that was true.
LEMMA StartApplyInv ==
  ASSUME OffInv, NEW p \in Procs, NEW d \in Ids, StartApply(p, d)
  PROVE  OffInv'
<1> DEFINE next == [step |-> "remove", decision |-> d, consent |-> verdict[d]]
<1>1. Turn(p, next) /\ Stay /\ UNCHANGED <<world, removed>>
  BY DEF StartApply, Quiet
<1>2. /\ ledger[d].status = "approved" /\ d[2] = "remove"
      /\ d[1] \in removable
  BY DEF StartApply, Executable
<1>3. d[1] \in Seats /\ d = Removal(d[1])
  BY <1>2, RemovalOf
<1>4. RowInv(d, ledger[d], verdict[d], seen[d])
  BY DEF OffInv, IInv
<1>5. /\ verdict[d].said = "yes" /\ verdict[d].rec = ledger[d].rec
      /\ ledger[d].rec # Nothing
  BY <1>2, <1>4 DEF RowInv, ConsentOK, ShapeOK
<1>6. ledger[d].rec \in {Nothing} \cup Left(been, d[1])
  BY <1>2, <1>3 DEF OffInv, Reasoned
<1>7. ScanOK(next, been) /\ ApplyOK(next, been, removed)
  BY <1>2, <1>5, <1>6 DEF ScanOK, ApplyOK
<1> HIDE DEF next
<1> QED
  BY <1>1, <1>7, QuietInv

LEMMA RemoveUserInv ==
  ASSUME OffInv, NEW p \in Procs, RemoveUser(p)
  PROVE  OffInv'
<1> DEFINE d == proc[p].decision
           next == [step |-> "mark", decision |-> d]
<1>1. /\ Turn(p, next) \/ Turn(p, Resting)
      /\ removed' = removed \cup {d[1]}
      /\ UNCHANGED <<removable, person, been, ledger>> /\ Stay
  BY DEF RemoveUser, Stay, vars
<1>2. d \in Ids /\ d[2] = "remove" /\ d[1] \in Seats
  <2>1. d \in Ids /\ d[2] = "remove"
    BY DEF RemoveUser, Scanning, OffInv, ProcsOK, ApplyOK
  <2> QED
    BY <2>1, RemovalOf
<1> HIDE DEF d
<1>3. ScanOK(next, been') /\ ApplyOK(next, been', removed')
  BY <1>1, <1>2 DEF ScanOK, ApplyOK
<1> HIDE DEF next
<1>4. ScanOK(Resting, been') /\ ApplyOK(Resting, been', removed')
  BY RestingOK
<1>5. /\ \A s \in Seats : been[s] \subseteq been'[s]
      /\ removed \subseteq removed' /\ ProcsOK
  BY <1>1 DEF OffInv
<1>6. ProcsOK'
  <2>1. CASE Turn(p, next)
    BY <1>3, <1>5, <2>1, TurnKeeps
  <2>2. CASE Turn(p, Resting)
    BY <1>4, <1>5, <2>2, TurnKeeps
  <2> QED
    BY <1>1, <2>1, <2>2
<1>7. WorldOK' /\ Reasoned' /\ ExecutedIsRemoved'
  BY <1>1, <1>2 DEF OffInv, WorldOK, Reasoned, ExecutedIsRemoved
<1>8. IInv'
  BY <1>1, StayKeeps DEF OffInv
<1> QED
  BY <1>6, <1>7, <1>8 DEF OffInv

\* What is marked has been removed.
LEMMA MarkExecutedInv ==
  ASSUME OffInv, NEW p \in Procs, MarkExecuted(p)
  PROVE  OffInv'
<1> DEFINE d == proc[p].decision
           row == [ledger[d] EXCEPT !.status = "executed"]
<1>1. /\ MarkDecisionExecuted(d) /\ Turn(p, Resting)
      /\ UNCHANGED <<removable, person, been, removed>>
  BY DEF MarkExecuted, Quiet, world
<1>2. d \in Ids /\ d[2] = "remove" /\ d[1] \in removed
  BY DEF MarkExecuted, Scanning, OffInv, ProcsOK, ApplyOK
<1> HIDE DEF d
<1>3. IInv'
  BY <1>1, <1>2, TransitionInv DEF MarkDecisionExecuted, OffInv
<1>4. ledger[d] \in Row
  BY <1>2 DEF OffInv, IInv, Shapes
<1>5. row.rec = ledger[d].rec
  BY <1>4 DEF Row
<1>6. Write(d, row)
  BY <1>1 DEF MarkDecisionExecuted, transitionDecision
<1> HIDE DEF row
<1>7. Reasoned' /\ ExecutedIsRemoved'
  BY <1>1, <1>2, <1>5, <1>6, WriteKeeps
<1>8. ProcsOK'
  BY <1>1, RestingOK, TurnKeeps DEF OffInv
<1>9. WorldOK'
  BY <1>1 DEF OffInv, WorldOK
<1> QED
  BY <1>3, <1>7, <1>8, <1>9 DEF OffInv
-----------------------------------------------------------------------------
(* The invariant.                                                          *)

LEMMA OffInitInv == OffInit => OffInv
<1> SUFFICES ASSUME OffInit PROVE OffInv
  OBVIOUS
<1>1. IInv
  BY InitInv DEF OffInit
<1>2. \A d \in Ids : ledger[d].rec = Nothing /\ ledger[d].status = "absent"
  BY DEF OffInit, Init, NoRow
<1>3. Reasoned /\ ExecutedIsRemoved
  BY <1>2, RemovalIsId DEF Reasoned, ExecutedIsRemoved
<1>4. WorldOK
  BY DEF OffInit, WorldOK
<1>5. ProcsOK
  BY RestingOK DEF OffInit, ProcsOK
<1> QED
  BY <1>1, <1>3, <1>4, <1>5 DEF OffInv

LEMMA OffNextInv == OffInv /\ [OffNext]_offVars => OffInv'
<1> SUFFICES ASSUME OffInv, [OffNext]_offVars PROVE OffInv'
  OBVIOUS
<1>1. CASE UNCHANGED offVars
  <2>1. Stay /\ UNCHANGED <<removable, person, been, proc, removed, ledger>>
    BY <1>1 DEF offVars, world, Stay, vars
  <2>2. IInv'
    BY <2>1, StayKeeps DEF OffInv
  <2> QED
    BY <2>1, <2>2 DEF OffInv, WorldOK, ProcsOK, Reasoned, ExecutedIsRemoved
<1>2. ASSUME NEW p \in Procs,
             \/ \E s \in Seats : StartOffboard(p, s)
             \/ ReadDirectory(p) \/ ReadGroups(p) \/ ListSeats(p)
             \/ Persist(p) \/ Hydrate(p) \/ Store(p)
             \/ \E d \in Ids : StartApply(p, d)
             \/ RemoveUser(p) \/ MarkExecuted(p) \/ Abandon(p)
      PROVE  OffInv'
  BY <1>2, StartOffboardInv, ReadDirectoryInv, ReadGroupsInv, ListSeatsInv,
     PersistInv, HydrateInv, StoreInv, StartApplyInv, RemoveUserInv,
     MarkExecutedInv
<1> QED
  BY <1>1, <1>2, HandInv, StandInv, JudgeInv DEF OffNext

\* The inductive invariant: the ledger's own, and that every command's reading,
\* every removal recommended and every removal in hand go back to a time when
\* the owner was gone.
THEOREM OffboardingInvariant == OffSpec => []OffInv
BY OffInitInv, OffNextInv, PTL DEF OffSpec

\* A decision the ledger calls executed is one whose seat was really removed.
THEOREM OffboardingExecutedIsRemoved == OffSpec => []ExecutedIsRemoved
<1>1. OffInv => ExecutedIsRemoved
  BY DEF OffInv
<1> QED
  BY <1>1, OffboardingInvariant, PTL

\* Enforcement removes a seat only with the consent a human gave last, and for
\* a reason that was true of its owner at some time.
THEOREM OffboardingRemovesOnConsent == OffSpec => RemovedOnConsent
<1> DEFINE Consented ==
             removed' # removed =>
               \E p \in Procs :
                 /\ proc[p].step = "remove"
                 /\ removed' \ removed = {proc[p].decision[1]}
                 /\ proc[p].consent.said = "yes"
                 /\ proc[p].consent.rec
                      \in been[proc[p].decision[1]] \cap {"suspended", "gone"}
<1>1. OffInv /\ [OffNext]_offVars => [Consented]_offVars
  <2> SUFFICES ASSUME OffInv, [OffNext]_offVars, removed' # removed
               PROVE  \E p \in Procs :
                 /\ proc[p].step = "remove"
                 /\ removed' \ removed = {proc[p].decision[1]}
                 /\ proc[p].consent.said = "yes"
                 /\ proc[p].consent.rec
                      \in been[proc[p].decision[1]] \cap {"suspended", "gone"}
    OBVIOUS
  <2>1. PICK p \in Procs : RemoveUser(p)
    <3>1. OffNext
      BY DEF offVars
    <3> QED
      BY <3>1 DEF OffNext, Hand, Stand, Rest, Judge, Quiet, StartOffboard,
         ReadDirectory, ReadGroups, ListSeats, Persist, Hydrate, Store,
         StartApply, MarkExecuted, Abandon
  <2>2. proc[p].step = "remove" /\ removed' = removed \cup {proc[p].decision[1]}
    BY <2>1 DEF RemoveUser, Scanning
  <2>3. ApplyOK(proc[p], been, removed)
    BY DEF OffInv, ProcsOK
  <2>4. /\ proc[p].consent.said = "yes"
        /\ proc[p].consent.rec
             \in been[proc[p].decision[1]] \cap {"suspended", "gone"}
    BY <2>2, <2>3 DEF ApplyOK, Left
  <2>5. removed' \ removed = {proc[p].decision[1]}
    BY <2>2
  <2> QED
    BY <2>2, <2>4, <2>5
<1> QED
  BY <1>1, OffboardingInvariant, PTL DEF OffSpec, RemovedOnConsent
-----------------------------------------------------------------------------
(* The commands and the ledger.                                            *)

\* Every step of the commands is one the ledger's specification allows.
LEMMA StepUsesLedger == OffInv /\ [OffNext]_offVars => [Next]_vars
<1> SUFFICES ASSUME OffInv, [OffNext]_offVars PROVE Next \/ UNCHANGED vars
  OBVIOUS
<1>1. ASSUME NEW p \in Procs, Persist(p)
      PROVE  Next
  <2>1. proc[p].seat \in Seats
    BY <1>1 DEF Persist, Scanning, OffInv, ProcsOK, ScanOK
  <2>2. /\ DOMAIN Decisions(proc[p]) \in SUBSET Ids
        /\ Decisions(proc[p]) \in [DOMAIN Decisions(proc[p]) -> Recs]
    BY <2>1, DecisionsAreBatch
  <2>3. UpsertDecisions(Decisions(proc[p]))
    BY <1>1 DEF Persist
  <2> QED
    BY <2>2, <2>3 DEF Next
<1>2. ASSUME NEW p \in Procs, MarkExecuted(p)
      PROVE  Next
  <2>1. proc[p].decision \in Ids
    BY <1>2 DEF MarkExecuted, Scanning, OffInv, ProcsOK, ApplyOK
  <2> QED
    BY <1>2, <2>1 DEF MarkExecuted, Next
<1>3. ASSUME NEW d \in Ids, NEW h \in Humans, Judge(d, h)
      PROVE  Next
  BY <1>3 DEF Judge, Next
<1>4. CASE UNCHANGED offVars
  BY <1>4 DEF offVars, vars
<1> QED
  BY <1>1, <1>2, <1>3, <1>4 DEF OffNext, Hand, Stand, Rest, Stay,
     StartOffboard, ReadDirectory, ReadGroups, ListSeats, Hydrate, Store,
     StartApply, RemoveUser, Abandon

\* The commands use the ledger as its specification allows.
THEOREM OffboardingUsesLedger == OffSpec => UsesLedger
<1>1. OffInit => Init
  BY DEF OffInit
<1> QED
  BY <1>1, StepUsesLedger, OffboardingInvariant, PTL DEF OffSpec, UsesLedger, Spec

\* ... and so keep the promises of Consent.
THEOREM OffboardingKeepsPromise == OffSpec => KeepsPromise
BY OffboardingUsesLedger, LedgerKeepsPromise, PTL DEF UsesLedger
-----------------------------------------------------------------------------
(* Certificates.                                                           *)

Closed == Judged \cup {"stale"}
JudgedHeard == \A d \in Ids : ledger[d].status \in Closed
                                => verdict[d].said # "nothing"

\* What a certificate of s says is true, v being what humans have said.
Certified(s, status, class, v) ==
  /\ status = "complete" => class # "unread"
  /\ /\ status \in {"complete", "complete_with_provider_limits"}
     /\ class = "orphan"
     => v[Removal(s)].said # "nothing"

\* A scan certifies a removal it has recorded; rows are those of the ledger.
CertifierOK(me, rows, v) ==
  /\ me.step = "hydrate" /\ me.class = "orphan"
       => me.ids = {Removal(me.seat)} /\ rows[Removal(me.seat)].status # "absent"
  /\ me.step = "store" => Certified(me.seat, me.certified, me.class, v)

CertInv ==
  /\ JudgedHeard
  /\ DOMAIN cert = Seats
  /\ \A s \in Seats : Certified(s, cert[s].status, cert[s].class, verdict)
  /\ \A p \in Procs : CertifierOK(proc[p], ledger, verdict)

\* Only a decision that was judged becomes stale.
LEMMA StaleWasJudged ==
  ASSUME NEW old \in Row, NEW rec \in Recs,
         Stored(Merge(old, Observed(rec))).status \in Closed
  PROVE  old.status \in Judged
<1>1. SUFFICES ASSUME old.status \notin Judged PROVE FALSE
  OBVIOUS
<1>2. Merge(old, Observed(rec)) = Observed(rec)
  BY <1>1 DEF Merge
<1>3. Observed(rec) \in Row /\ Observed(rec).status \in {"blocked", "proposed"}
  BY ObservedIsRow
<1>4. Stored(Observed(rec)).status = Observed(rec).status
  BY <1>3, StoredStatus
<1> QED
  BY <1>2, <1>3, <1>4 DEF Closed, Judged

\* A row and a human's word stay; a row is closed by a human's word.
LEMMA LedgerGoesOn ==
  ASSUME IInv, JudgedHeard, [Next]_vars, NEW d \in Ids
  PROVE  /\ verdict[d].said # "nothing" => verdict'[d].said # "nothing"
         /\ ledger[d].status # "absent" => ledger'[d].status # "absent"
         /\ ledger'[d].status \in Closed => verdict'[d].said # "nothing"
<1>0. /\ ledger \in [Ids -> Row] /\ verdict \in [Ids -> Verdict]
      /\ ledger[d] \in Row /\ verdict[d] \in Verdict
      /\ RowInv(d, ledger[d], verdict[d], seen[d])
  BY DEF IInv, Shapes
<1>1. ASSUME NEW D \in SUBSET Ids, NEW batch \in [D -> Recs],
             UpsertDecisions(batch)
      PROVE  /\ verdict' = verdict
             /\ ledger[d].status # "absent" => ledger'[d].status # "absent"
             /\ ledger'[d].status \in Closed => ledger[d].status \in Closed
  <2>1. verdict' = verdict
    BY <1>1 DEF UpsertDecisions
  <2>2. CASE d \notin D
    BY <1>1, <2>1, <2>2, UpsertRows
  <2>3. CASE d \in D
    <3>1. /\ ledger'[d] = Stored(Merge(ledger[d], Observed(batch[d])))
          /\ batch[d] \in Recs
      BY <1>1, <2>3, UpsertRows
    <3>2. ledger'[d].status \in Closed => ledger[d].status \in Closed
      BY <1>0, <3>1, StaleWasJudged DEF Closed
    <3>3. \/ ledger'[d].status = ledger[d].status
          \/ ledger'[d].status \in {"proposed", "blocked", "stale"}
      BY <1>0, <3>1, MergeReopens
    <3> QED
      BY <2>1, <3>2, <3>3
  <2> QED
    BY <2>2, <2>3
<1>2. ASSUME NEW e \in Ids, NEW row \in Row, Write(e, row),
             row.status # "absent",
             \A i \in Ids : verdict[i].said # "nothing"
                              => verdict'[i].said # "nothing",
             row.status \in Closed => verdict'[e].said # "nothing"
      PROVE  /\ verdict[d].said # "nothing" => verdict'[d].said # "nothing"
             /\ ledger[d].status # "absent" => ledger'[d].status # "absent"
             /\ ledger'[d].status \in Closed => verdict'[d].said # "nothing"
  <2>1. ledger' = [ledger EXCEPT ![e] = row]
    BY <1>2 DEF Write
  <2>2. CASE d = e
    BY <1>0, <1>2, <2>1, <2>2
  <2>3. CASE d # e
    BY <1>0, <1>2, <2>1, <2>3 DEF JudgedHeard
  <2> QED
    BY <2>2, <2>3
<1>3. ASSUME NEW e \in Ids, NEW h \in Humans,
             ApproveDecision(e, h) \/ RejectDecision(e, h) \/ AttestOwner(e, h)
      PROVE  \E row \in Row, said \in {"yes", "no", "owned"} :
               Write(e, row) /\ row.status # "absent" /\ Say(e, said, h)
  <2>1. ledger[e] \in Row
    BY DEF IInv, Shapes
  <2>2. CASE ApproveDecision(e, h)
    <3> DEFINE row == [ledger[e] EXCEPT !.status = "approved",
                         !.approvedBy = h, !.rejectedBy = Nothing]
    <3>1. row \in Row /\ row.status = "approved"
      BY <2>1 DEF Row, Status, Judged, Someone
    <3>2. Write(e, row) /\ Say(e, "yes", h)
      BY <2>2 DEF ApproveDecision
    <3> HIDE DEF row
    <3> QED
      BY <3>1, <3>2
  <2>3. CASE RejectDecision(e, h)
    <3> DEFINE row == [ledger[e] EXCEPT !.status = "rejected",
                         !.rejectedBy = h, !.approvedBy = Nothing]
    <3>1. row \in Row /\ row.status = "rejected"
      BY <2>1 DEF Row, Status, Judged, Someone
    <3>2. Write(e, row) /\ Say(e, "no", h)
      BY <2>3 DEF RejectDecision
    <3> HIDE DEF row
    <3> QED
      BY <3>1, <3>2
  <2>4. CASE AttestOwner(e, h)
    <3> DEFINE row == [ledger[e] EXCEPT !.status = "verified",
                         !.approvedBy = h, !.mark = "attested"]
    <3>1. row \in Row /\ row.status = "verified"
      BY <2>1 DEF Row, Status, Judged, Someone, Mark
    <3>2. Write(e, row) /\ Say(e, "owned", h)
      BY <2>4 DEF AttestOwner
    <3> HIDE DEF row
    <3> QED
      BY <3>1, <3>2
  <2> QED
    BY <1>3, <2>2, <2>3, <2>4
<1>4. ASSUME NEW e \in Ids, NEW said \in {"yes", "no", "owned"},
             NEW h \in Humans, Say(e, said, h)
      PROVE  /\ verdict'[e].said # "nothing"
             /\ \A i \in Ids : verdict[i].said # "nothing"
                                 => verdict'[i].said # "nothing"
  BY <1>0, <1>4 DEF Say
<1>5. ASSUME NEW e \in Ids, MarkDecisionExecuted(e) \/ MarkDecisionVerified(e)
      PROVE  \E row \in Row :
               /\ Write(e, row) /\ row.status # "absent"
               /\ ledger[e].status \in Closed /\ verdict' = verdict
  <2>1. PICK to \in {"executed", "verified"} :
          /\ ledger[e].status \in {"approved", "executed"}
          /\ Write(e, [ledger[e] EXCEPT !.status = to])
          /\ verdict' = verdict
    BY <1>5 DEF MarkDecisionExecuted, MarkDecisionVerified, transitionDecision
  <2> DEFINE row == [ledger[e] EXCEPT !.status = to]
  <2>2. row \in Row /\ row.status = to
    BY <1>0 DEF Row, Status, Judged
  <2>3. Write(e, row)
    BY <2>1
  <2> HIDE DEF row
  <2> QED
    BY <2>1, <2>2, <2>3 DEF Closed, Judged
<1>6. CASE UNCHANGED vars
  BY <1>6 DEF vars, JudgedHeard
<1>7. CASE \E e \in Ids, h \in Humans :
             ApproveDecision(e, h) \/ RejectDecision(e, h) \/ AttestOwner(e, h)
  BY <1>2, <1>3, <1>4, <1>7
<1>8. CASE \E e \in Ids : MarkDecisionExecuted(e) \/ MarkDecisionVerified(e)
  <2>1. PICK e \in Ids : MarkDecisionExecuted(e) \/ MarkDecisionVerified(e)
    BY <1>8
  <2>2. PICK row \in Row :
          /\ Write(e, row) /\ row.status # "absent"
          /\ ledger[e].status \in Closed /\ verdict' = verdict
    BY <1>5, <2>1
  <2>3. verdict'[e].said # "nothing"
    BY <2>2 DEF JudgedHeard
  <2> QED
    BY <1>2, <2>2, <2>3
<1>9. CASE \E D \in SUBSET Ids : \E batch \in [D -> Recs] : UpsertDecisions(batch)
  BY <1>1, <1>9 DEF JudgedHeard
<1> QED
  BY <1>6, <1>7, <1>8, <1>9 DEF Next
\* From a state to the next, rows and words stay.
Onward ==
  \A d \in Ids :
    /\ verdict[d].said # "nothing" => verdict'[d].said # "nothing"
    /\ ledger[d].status # "absent" => ledger'[d].status # "absent"

LEMMA CertifierGoesOn ==
  ASSUME Onward, NEW me, ScanOK(me, been), CertifierOK(me, ledger, verdict)
  PROVE  CertifierOK(me, ledger', verdict')
<1>1. \A s \in Seats : Removal(s) \in Ids
  BY RemovalIsId
<1>2. me.step \in {"hydrate", "store"} => me.seat \in Seats
  BY DEF ScanOK
<1> QED
  BY <1>1, <1>2 DEF Onward, CertifierOK, Certified

\* One command takes a turn.
LEMMA TurnCertifies ==
  ASSUME OffInv, CertInv, Onward, JudgedHeard',
         NEW p \in Procs, NEW next, Turn(p, next),
         CertifierOK(next, ledger', verdict'), DOMAIN cert' = Seats,
         \A s \in Seats : Certified(s, cert'[s].status, cert'[s].class, verdict')
  PROVE  CertInv'
<1>1. /\ proc'[p] = next
      /\ \A q \in Procs \ {p} : proc'[q] = proc[q]
  BY TurnFacts DEF OffInv, ProcsOK
<1>2. ASSUME NEW q \in Procs
      PROVE  CertifierOK(proc'[q], ledger', verdict')
  <2>1. CASE q = p
    BY <1>1, <2>1
  <2>2. CASE q # p
    <3>1. ScanOK(proc[q], been) /\ CertifierOK(proc[q], ledger, verdict)
      BY DEF OffInv, ProcsOK, CertInv
    <3> QED
      BY <1>1, <2>2, <3>1, CertifierGoesOn
  <2> QED
    BY <2>1, <2>2
<1> QED
  BY <1>2 DEF CertInv

\* The certificates stored stay true.
LEMMA CertificatesGoOn ==
  ASSUME CertInv, Onward, cert' = cert
  PROVE  /\ DOMAIN cert' = Seats
         /\ \A s \in Seats : Certified(s, cert'[s].status, cert'[s].class, verdict')
BY RemovalIsId DEF CertInv, Certified, Onward

\* What a scan has recorded is in the ledger.
LEMMA PersistCertifies ==
  ASSUME OffInv, OffInv', NEW p \in Procs, Persist(p)
  PROVE  /\ cert' = cert
         /\ \E next : Turn(p, next) /\ CertifierOK(next, ledger', verdict')
<1> DEFINE me == proc[p]
           batch == Decisions(me)
           next == [step |-> "hydrate", seat |-> me.seat, class |-> me.class,
                    status |-> me.status, unknown |-> me.unknown,
                    ids |-> DOMAIN batch]
<1>1. UpsertDecisions(batch) /\ Turn(p, next) /\ cert' = cert
  BY DEF Persist
<1>2. me.seat \in Seats
  BY DEF Persist, Scanning, OffInv, ProcsOK, ScanOK
<1>3. DOMAIN batch \in SUBSET Ids /\ batch \in [DOMAIN batch -> Recs]
  BY <1>2, DecisionsAreBatch
<1>4. me.class = "orphan" => DOMAIN batch = {Removal(me.seat)}
  BY DEF Decisions
<1> HIDE DEF batch
<1>5. ASSUME me.class = "orphan"
      PROVE  ledger'[Removal(me.seat)].status # "absent"
  <2> DEFINE d == Removal(me.seat)
  <2>1. d \in Ids /\ d \in DOMAIN batch /\ batch[d] \in Recs
    BY <1>2, <1>3, <1>4, <1>5, RemovalIsId
  <2>2. seen'[d] = batch[d]
    BY <1>1, <2>1 DEF UpsertDecisions
  <2>3. ledger'[d].rec = seen'[d] /\ ShapeOK(d, ledger'[d])
    BY <2>1 DEF OffInv, IInv, RowInv
  <2> QED
    BY <2>1, <2>2, <2>3, LedgerAssumption DEF ShapeOK
<1>6. CertifierOK(next, ledger', verdict')
  BY <1>4, <1>5 DEF CertifierOK
<1> HIDE DEF next
<1> QED
  BY <1>1, <1>6

\* A provider that failed leaves no complete certificate; a decision that is
\* open leaves no certificate with limits either.
LEMMA CertificateMeans ==
  ASSUME NEW failed \in BOOLEAN, NEW unknown \in BOOLEAN, NEW statuses
  PROVE  /\ failed => CertificateStatus(failed, unknown, statuses) # "complete"
         /\ ~failed /\ statuses \cap {"proposed", "approved", "blocked"} # {}
              => CertificateStatus(failed, unknown, statuses)
                   \notin {"complete", "complete_with_provider_limits"}
<1>1. CASE failed
  BY <1>1 DEF CertificateStatus
<1>2. CASE ~failed /\ "blocked" \in statuses
  BY <1>2 DEF CertificateStatus
<1>3. CASE /\ ~failed /\ "blocked" \notin statuses
           /\ statuses \cap {"proposed", "approved"} # {}
  BY <1>3 DEF CertificateStatus
<1> QED
  BY <1>1, <1>2, <1>3

LEMMA HydrateCertifies ==
  ASSUME OffInv, CertInv, NEW p \in Procs, Hydrate(p)
  PROVE  /\ cert' = cert
         /\ \E next : Turn(p, next) /\ CertifierOK(next, ledger', verdict')
<1> DEFINE me == proc[p]
           failed == me.class = "unread"
           unmatched == me.status = "gone" /\ me.class \in {"unread", "none"}
           unknown == unmatched \/ (me.unknown /\ ~failed)
           statuses == {ledger[d].status : d \in me.ids}
           certified == CertificateStatus(failed, unknown, statuses)
           next == [step |-> "store", seat |-> me.seat, class |-> me.class,
                    certified |-> certified]
<1>1. /\ Turn(p, next) /\ cert' = cert
      /\ verdict' = verdict
  BY DEF Hydrate, Quiet, Stay, vars
<1>2. me.step = "hydrate" /\ me.seat \in Seats /\ CertifierOK(me, ledger, verdict)
  BY DEF Hydrate, Scanning, OffInv, ProcsOK, ScanOK, CertInv
<1>3. certified = "complete" => me.class # "unread"
  BY DEF CertificateStatus
<1>4. ASSUME certified \in {"complete", "complete_with_provider_limits"},
             me.class = "orphan"
      PROVE  verdict[Removal(me.seat)].said # "nothing"
  <2> DEFINE d == Removal(me.seat)
  <2>1. /\ d \in Ids /\ me.ids = {d} /\ ledger[d].status # "absent"
        /\ ledger[d].status \in Status
    BY <1>2, <1>4, RemovalIsId DEF CertifierOK, OffInv, IInv, Shapes, Row
  <2>2. ~failed /\ statuses = {ledger[d].status}
    BY <1>4, <2>1
  <2>3. statuses \cap {"proposed", "approved", "blocked"} = {}
    <3> HIDE DEF statuses
    <3> QED
      BY <1>4, <2>2 DEF CertificateStatus
  <2>4. ledger[d].status \in Closed
    BY <2>1, <2>2, <2>3 DEF Status, Closed, Judged
  <2> QED
    BY <2>1, <2>4 DEF CertInv, JudgedHeard
<1> HIDE DEF certified
<1>5. CertifierOK(next, ledger', verdict')
  BY <1>1, <1>3, <1>4 DEF CertifierOK, Certified
<1> HIDE DEF next
<1> QED
  BY <1>1, <1>5

LEMMA StoreCertifies ==
  ASSUME OffInv, CertInv, NEW p \in Procs, Store(p)
  PROVE  /\ DOMAIN cert' = Seats /\ Turn(p, Resting) /\ verdict' = verdict
         /\ \A s \in Seats : Certified(s, cert'[s].status, cert'[s].class, verdict)
<1> DEFINE me == proc[p]
<1>1. /\ cert' = [cert EXCEPT ![me.seat] =
                    [status |-> me.certified, class |-> me.class]]
      /\ Turn(p, Resting) /\ verdict' = verdict
  BY DEF Store, Stay, vars
<1>2. Certified(me.seat, me.certified, me.class, verdict)
  BY DEF Store, Scanning, CertInv, CertifierOK
<1> QED
  BY <1>1, <1>2 DEF CertInv

LEMMA CertNextInv ==
  ASSUME OffInv, OffInv', CertInv, [OffNext]_offVars
  PROVE  CertInv'
<1>1. IInv /\ JudgedHeard /\ [Next]_vars
  BY StepUsesLedger DEF OffInv, CertInv
<1>2. Onward /\ JudgedHeard'
  BY <1>1, LedgerGoesOn DEF Onward, JudgedHeard
<1>3. ASSUME proc' = proc, cert' = cert PROVE CertInv'
  <2>1. \A p \in Procs : CertifierOK(proc[p], ledger', verdict')
    BY <1>2, CertifierGoesOn DEF OffInv, ProcsOK, CertInv
  <2> QED
    BY <1>2, <1>3, <2>1, CertificatesGoOn DEF CertInv
<1>4. ASSUME NEW p \in Procs, NEW next, Turn(p, next), cert' = cert,
             CertifierOK(next, ledger', verdict')
      PROVE  CertInv'
  BY <1>2, <1>4, CertificatesGoOn, TurnCertifies
<1>5. ASSUME NEW next, next.step \notin {"hydrate", "store"}
      PROVE  CertifierOK(next, ledger', verdict')
  BY <1>5 DEF CertifierOK
<1>6. ASSUME NEW p \in Procs,
             \/ \E s \in Seats : StartOffboard(p, s)
             \/ ReadDirectory(p) \/ ReadGroups(p) \/ ListSeats(p)
             \/ \E d \in Ids : StartApply(p, d)
             \/ RemoveUser(p) \/ MarkExecuted(p) \/ Abandon(p)
      PROVE  CertInv'
  <2>1. cert' = cert
    BY <1>6 DEF StartOffboard, ReadDirectory, ReadGroups, ListSeats, StartApply,
       RemoveUser, MarkExecuted, Abandon, Quiet
  <2>2. ASSUME NEW next, Turn(p, next), next.step \notin {"hydrate", "store"}
        PROVE  CertInv'
    BY <1>4, <1>5, <2>1, <2>2
  <2>3. Turn(p, Resting) => CertInv'
    BY <2>2 DEF Resting
  <2>4. ASSUME NEW s \in Seats, StartOffboard(p, s) PROVE CertInv'
    BY <2>2, <2>4 DEF StartOffboard
  <2>5. ASSUME NEW d \in Ids, StartApply(p, d) PROVE CertInv'
    BY <2>2, <2>5 DEF StartApply
  <2>6. CASE ReadDirectory(p)
    BY <2>2, <2>6 DEF ReadDirectory
  <2>7. CASE ReadGroups(p)
    BY <2>2, <2>7 DEF ReadGroups
  <2>8. CASE ListSeats(p)
    BY <2>2, <2>8 DEF ListSeats
  <2>9. CASE RemoveUser(p)
    BY <2>2, <2>3, <2>9 DEF RemoveUser
  <2> QED
    BY <1>6, <2>3, <2>4, <2>5, <2>6, <2>7, <2>8, <2>9 DEF MarkExecuted, Abandon
<1>7. ASSUME NEW p \in Procs, Persist(p) \/ Hydrate(p) PROVE CertInv'
  BY <1>4, <1>7, PersistCertifies, HydrateCertifies
<1>8. ASSUME NEW p \in Procs, Store(p) PROVE CertInv'
  <2>1. CertifierOK(Resting, ledger', verdict')
    BY <1>5 DEF Resting
  <2> QED
    BY <1>2, <1>8, <2>1, StoreCertifies, TurnCertifies
<1> QED
  BY <1>3, <1>6, <1>7, <1>8 DEF OffNext, offVars, Hand, Stand, Rest, Judge, Quiet

\* A certificate calls an offboarding complete only when the provider was read
\* and what it found was nothing to remove, or a removal a human had judged
\* (ComputeCertificateStatus, hydrateCertificateDecisions).
THEOREM OffboardingCompleteIsJudged == OffSpec => []CompleteIsJudged
<1>1. OffInit => CertInv
  <2> SUFFICES ASSUME OffInit PROVE CertInv
    OBVIOUS
  <2>1. \A d \in Ids : ledger[d].status = "absent"
    BY DEF OffInit, Init, NoRow
  <2>2. \A p \in Procs : proc[p].step = "idle"
    BY DEF OffInit, Resting
  <2>3. cert = [s \in Seats |-> NoCertificate]
    BY DEF OffInit
  <2> QED
    BY <2>1, <2>2, <2>3 DEF CertInv, JudgedHeard, Closed, Judged, CertifierOK,
       Certified, NoCertificate
<1>2. OffInv /\ OffInv' /\ CertInv /\ [OffNext]_offVars => CertInv'
  BY CertNextInv
<1>3. CertInv => CompleteIsJudged
  BY DEF CertInv, Certified, CompleteIsJudged
<1> QED
  BY <1>1, <1>2, <1>3, OffboardingInvariant, PTL DEF OffSpec
-----------------------------------------------------------------------------
(* Types.                                                                  *)

ShapesOK ==
  /\ held \in [Seats -> BOOLEAN]
  /\ \A p \in Procs : proc[p].step \in Steps

LEMMA TurnShapes ==
  ASSUME OffInv, ShapesOK, NEW p \in Procs, NEW next, Turn(p, next),
         next.step \in Steps, held' \in [Seats -> BOOLEAN]
  PROVE  ShapesOK'
<1>1. /\ proc'[p] = next
      /\ \A q \in Procs \ {p} : proc'[q] = proc[q]
  BY TurnFacts DEF OffInv, ProcsOK
<1> QED
  BY <1>1 DEF ShapesOK

LEMMA OffNextShapes ==
  ASSUME OffInv, ShapesOK, [OffNext]_offVars
  PROVE  ShapesOK'
<1>1. CASE UNCHANGED offVars
  BY <1>1 DEF offVars, world, ShapesOK
<1>2. ASSUME NEW s \in Seats,
             Hand(s) \/ \E standing \in Standing : Stand(s, standing)
      PROVE  ShapesOK'
  BY <1>2 DEF Hand, Stand, Rest, ShapesOK
<1>3. ASSUME NEW d \in Ids, NEW h \in Humans, Judge(d, h) PROVE ShapesOK'
  BY <1>3 DEF Judge, Quiet, world, ShapesOK
<1>4. ASSUME NEW p \in Procs, RemoveUser(p) PROVE ShapesOK'
  <2>1. /\ held' = [held EXCEPT ![proc[p].decision[1]] = FALSE]
        /\ \/ Turn(p, [step |-> "mark", decision |-> proc[p].decision])
           \/ Turn(p, Resting)
    BY <1>4 DEF RemoveUser
  <2>2. held' \in [Seats -> BOOLEAN]
    BY <2>1 DEF ShapesOK
  <2> QED
    BY <2>1, <2>2, TurnShapes DEF Steps, Resting
<1>5. ASSUME NEW p \in Procs, held' = held, NEW next, Turn(p, next),
             next.step \in Steps
      PROVE  ShapesOK'
  BY <1>5, TurnShapes DEF ShapesOK
<1>6. ASSUME NEW p \in Procs,
             Store(p) \/ Abandon(p) \/ MarkExecuted(p)
      PROVE  ShapesOK'
  <2>1. held' = held /\ Turn(p, Resting)
    BY <1>6 DEF Store, Abandon, MarkExecuted, Quiet, world
  <2> QED
    BY <1>5, <2>1 DEF Resting, Steps
<1>7. ASSUME NEW p \in Procs, ReadDirectory(p) PROVE ShapesOK'
  BY <1>5, <1>7 DEF ReadDirectory, Quiet, world, Steps
<1>8. ASSUME NEW p \in Procs, ReadGroups(p) PROVE ShapesOK'
  BY <1>5, <1>8 DEF ReadGroups, Quiet, world, Steps
<1>9. ASSUME NEW p \in Procs, ListSeats(p) PROVE ShapesOK'
  BY <1>5, <1>9 DEF ListSeats, Quiet, world, Steps
<1>10. ASSUME NEW p \in Procs, Persist(p) PROVE ShapesOK'
  BY <1>5, <1>10 DEF Persist, world, Steps
<1>11. ASSUME NEW p \in Procs, Hydrate(p) PROVE ShapesOK'
  BY <1>5, <1>11 DEF Hydrate, Quiet, world, Steps
<1>12. ASSUME NEW p \in Procs, NEW s \in Seats, StartOffboard(p, s)
       PROVE  ShapesOK'
  BY <1>5, <1>12 DEF StartOffboard, world, Steps
<1>13. ASSUME NEW p \in Procs, NEW d \in Ids, StartApply(p, d) PROVE ShapesOK'
  BY <1>5, <1>13 DEF StartApply, Quiet, world, Steps
<1> QED
  BY <1>1, <1>2, <1>3, <1>4, <1>6, <1>7, <1>8, <1>9, <1>10, <1>11, <1>12,
     <1>13 DEF OffNext

\* Every variable keeps its shape.
THEOREM OffboardingTypeCorrect == OffSpec => []OffTypeOK
<1>1. OffInit => ShapesOK
  BY DEF OffInit, ShapesOK, Resting, Steps
<1>2. OffInv /\ ShapesOK /\ [OffNext]_offVars => ShapesOK'
  BY OffNextShapes
<1>3. IInv => TypeOK
  BY DEF IInv, Shapes, RowInv, ShapeOK, TypeOK, Event, Verdict
<1>4. OffInv /\ ShapesOK => OffTypeOK
  BY <1>3 DEF OffInv, WorldOK, ProcsOK, ShapesOK, OffTypeOK
<1> QED
  BY <1>1, <1>2, <1>4, OffboardingInvariant, PTL DEF OffSpec
=============================================================================
