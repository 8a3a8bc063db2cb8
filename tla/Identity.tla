------------------------------- MODULE Identity -------------------------------
(***************************************************************************)
(* Whose a seat or a credential is, and what is concluded from it: the     *)
(* verdict on a credential (core.ClassifyCredentials), the canonical       *)
(* identity of an offboarding (core.ResolveCanonicalIdentity) and the      *)
(* decisions that identity leads to (core.BuildDecisions).                 *)
(***************************************************************************)
EXTENDS Engine

\* A credential: who authorised it, as the provider names them, and whether it
\* is switched off.
Credential == [by : Raw \cup {NoOne}, disabled : BOOLEAN]

\* Mutant: the author is looked up as the provider spells it.
Author_Raw(index, c) == c.by

Author(index, c) == IF c.by = NoOne THEN NoOne ELSE Resolve(index, c.by)

\* ClassifyCredentials.  `readable`: there is a directory to judge by.
CredentialClass(index, directory, readable, c) ==
  LET author == Author(index, c) IN
  CASE c.disabled -> "dormant"
    [] ~c.disabled /\ author \notin People -> "unowned"
    [] ~c.disabled /\ author \in People \ Corporate -> "external"
    [] ~c.disabled /\ author \in Corporate ->
         IF ~readable THEN "unowned"
         ELSE IF directory[author] = "active" THEN "live" ELSE "orphaned"
-----------------------------------------------------------------------------
(* ResolveCanonicalIdentity, of the subject an operator named.             *)

Primary(subject) ==
  IF subject \in DOMAIN Explicit THEN Explicit[subject] ELSE subject

\* Mutant: a user name that looks like the subject's is theirs.
Linked_Resembling(index, primary, listed) ==
  {n \in listed : \/ Resolve(index, n) = primary
                  \/ n \in Logins /\ primary \in People /\ n \in Keys(primary)}

\* resolveProviderUserLink: the listed identifiers matched to the subject,
Linked(index, primary, listed) == {n \in listed : Resolve(index, n) = primary}

\* and those that only share the local part of the address.
Resembling(index, primary, listed) ==
  {n \in (listed \cap People) \ Linked(index, primary, listed) :
     primary \in People /\ LocalPart[n] = LocalPart[primary]}

\* CanonicalIdentity.Matches and AmbiguousMatch, of an identifier n.
Matches(index, primary, listed, n) ==
  \/ n = primary
  \/ n \in DOMAIN Explicit /\ Explicit[n] = primary
  \/ n \in Linked(index, primary, listed)
AmbiguousMatch(index, primary, listed, n) ==
  n \in Resembling(index, primary, listed)
-----------------------------------------------------------------------------
(* filterSubjectSeats, providerCredentials and BuildDecisions: what one    *)
(* offboarding decides of a listed seat or of a credential.                *)

SeatDecision(index, directory, desired, listed, subject, n) ==
  LET primary == Primary(subject)
      ours == \/ Matches(index, primary, listed, n)
              \/ Matches(index, primary, listed, Resolve(index, n))
      like == \/ AmbiguousMatch(index, primary, listed, n)
              \/ AmbiguousMatch(index, primary, listed, Resolve(index, n))
      class == SeatClass(index, directory, desired, n)
  IN CASE ours /\ class = "orphan" -> "remove"
       [] ours /\ class \in {"external", "unresolved", "unmapped"} -> "review"
       [] ~ours /\ like -> "review"
       [] OTHER -> "nothing"

CredentialDecision(index, directory, listed, subject, c) ==
  LET primary == Primary(subject)
      ours == c.by # NoOne /\ Matches(index, primary, listed, c.by)
      like == c.by # NoOne /\ AmbiguousMatch(index, primary, listed, c.by)
      class == CredentialClass(index, directory, TRUE, c)
  IN CASE ours /\ class \in {"orphaned", "unowned"} -> "attest"
       [] ours /\ class = "dormant" -> "revoke"
       [] c.by = NoOne /\ class = "unowned" -> "attest"
       [] ~ours /\ like -> "review"
       [] OTHER -> "nothing"
=============================================================================
