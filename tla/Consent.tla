------------------------------- MODULE Consent -------------------------------
(***************************************************************************)
(* What the decision ledger promises: nothing is done about an object      *)
(* unless a human agreed to the recommendation that stands for it, and     *)
(* that agreement, or refusal, stands until the recommendation changes.    *)
(***************************************************************************)
CONSTANTS
  Ids,         \* decisions: a subject, a provider, an object and an action
  Attestable,  \* those that ask for the owner of a credential
  Recs,        \* what may be recommended for an object, and why
  Nothing      \* the value of an unset field

VARIABLES phase, about

Init ==
  /\ phase = [d \in Ids |-> "open"]
  /\ about = [d \in Ids |-> Nothing]

\* A scan reopens what it recommends otherwise, and an attested decision.
MayReopen(d, r) ==
  \/ phase[d] = "open"
  \/ r # about[d]
  \/ d \in Attestable /\ phase[d] = "done"

Observe ==
  \E D \in SUBSET Ids : \E rec \in [D -> Recs] :
    /\ \A d \in D : MayReopen(d, rec[d])
    /\ phase' = [d \in Ids |-> IF d \in D THEN "open" ELSE phase[d]]
    /\ about' = [d \in Ids |-> IF d \in D THEN rec[d] ELSE about[d]]

Agree(d) ==
  /\ phase[d] = "open"
  /\ phase' = [phase EXCEPT ![d] = "agreed"]
  /\ UNCHANGED about

Refuse(d) ==
  /\ phase[d] \in {"open", "agreed"}
  /\ phase' = [phase EXCEPT ![d] = "refused"]
  /\ UNCHANGED about

Carry(d) ==
  /\ \/ phase[d] = "agreed"
     \/ d \in Attestable /\ phase[d] = "open"
  /\ phase' = [phase EXCEPT ![d] = "done"]
  /\ UNCHANGED about

Next == Observe \/ \E d \in Ids : Agree(d) \/ Refuse(d) \/ Carry(d)

Spec == Init /\ [][Next]_<<phase, about>>
=============================================================================
