---------------------------- MODULE MCReconciler ----------------------------
(***************************************************************************)
(* Instances of Reconciler for TLC.  eve leaves and returns, ann stays.    *)
(***************************************************************************)
EXTENDS Reconciler, TLC

CONSTANTS ann, eve, logAnn, logEve, grp, staff, crm, wiki, r1, r2

OneGroup == [p \in Providers |-> {grp}]
LocalParts == ann :> logAnn @@ eve :> logEve
SameSquash == [l \in Logins |-> l]
NoAliases == [a \in {} |-> NoOne]
LoginOfEve == logEve :> eve

Holders == [s \in Raw |-> IF s \in {eve, logEve} THEN eve ELSE ann]

NoExceptions == [p \in Providers |-> {}]
Live == [dry |-> FALSE, grace |-> MaxGrace, exceptions |-> NoExceptions]
LiveOnly == {Live}
Varied == {Live,
           [Live EXCEPT !.dry = TRUE],
           [Live EXCEPT !.exceptions = [p \in Providers |-> {eve}]]}

BothMembers == [g \in Groups |-> {ann, eve}]
LoginSeat == [p \in Providers |-> [s \in Raw |->
               IF s = logEve THEN "active" ELSE "none"]]
SharedLocalPart == ann :> logEve @@ eve :> logEve
HoldersOfShared == [s \in Raw |-> IF s = eve THEN eve ELSE ann]
OnlyEveMember == [g \in Groups |-> {eve}]
DirectSeat == [p \in Providers |-> [s \in Raw |->
                IF s = eve THEN "active" ELSE "none"]]
WikiExcepted ==
  {Live, [Live EXCEPT !.exceptions = [p \in Providers |->
                                       IF p = wiki THEN {eve} ELSE {}]]}
ImmediateOrExcepted == WikiExcepted \cup {[Live EXCEPT !.grace = 0]}
GroupPerProvider == [p \in Providers |-> IF p = wiki THEN {staff} ELSE {grp}]
AnnInStaff == [g \in Groups |-> IF g = grp THEN {eve} ELSE {ann}]
\* Eve's own seats, and one of ann's that eve's user name would fit.
SeatsAndLogin == [p \in Providers |-> [s \in Raw |->
  IF s = eve \/ <<p, s>> = <<crm, logEve>> THEN "active" ELSE "none"]]
NoMoves == {}
NoGrants == {}
EveMoves == {<<eve, grp>>}
LoginGrant == {<<crm, logEve>>}
=============================================================================
