----------------------------- MODULE MCSyncApply -----------------------------
(***************************************************************************)
(* Instances of SyncApply for TLC, with the people of MCReconciler.        *)
(***************************************************************************)
EXTENDS SyncApply, TLC

CONSTANTS ann, eve, logAnn, logEve, grp, crm, wiki, r1, r2

OneGroup == [p \in Providers |-> {grp}]
LocalParts == ann :> logAnn @@ eve :> logEve
SameSquash == [l \in Logins |-> l]
LoginOfEve == logEve :> eve
Holders == [s \in Raw |-> IF s \in {eve, logEve} THEN eve ELSE ann]
Live == [dry |-> FALSE, grace |-> MaxGrace,
         exceptions |-> [p \in Providers |-> {}]]
LiveOrDry == {Live, Dry(Live)}
Excepting ==
  LiveOrDry \cup {[q EXCEPT !.exceptions = [p \in Providers |-> {eve}]] :
                    q \in LiveOrDry}
BothMembers == [g \in Groups |-> {ann, eve}]
LoginSeat == [p \in Providers |-> [s \in Raw |->
               IF s = logEve THEN "active" ELSE "none"]]
OnlyEveMember == [g \in Groups |-> {eve}]
NoPairs == {}
=============================================================================
