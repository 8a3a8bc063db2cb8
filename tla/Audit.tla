-------------------------------- MODULE Audit --------------------------------
(***************************************************************************)
(* `unseat audit seats` and `unseat audit credentials` of one GitHub       *)
(* organisation: the directory is read, then the connector lists seats or  *)
(* credentials call by call, and each is judged: what class it has, whom   *)
(* it is likely to belong to, and what an offboarding that reads the same  *)
(* would decide of it.                                                     *)
(***************************************************************************)
EXTENDS GitHub, Identity, Attribution

CONSTANTS
  Directories,  \* the directories an audit may read, [Corporate -> status]
  Mapped,       \* members of the groups mapped to the provider
  Forms,        \* what names and handles reduce to
  FormsOf,      \* [Raw -> Seq(Forms)]: matchHandle's forms of an identifier
  ProfileName   \* [Accounts -> Forms \cup {NoForm}]: the name it states

ASSUME AuditAssumption ==
  /\ Directories \subseteq [Corporate -> DirectoryStatus]
  /\ Mapped \subseteq Corporate
  /\ Nobody \notin People /\ NoForm \notin Forms
  /\ \A s \in Raw : Len(FormsOf[s]) > 0 /\ FormsOf[s] \in Seq(Forms)
  /\ ProfileName \in [Accounts -> Forms \cup {NoForm}]

VARIABLES
  directory,  \* as it is read
  readable    \* whether there is an identity source to read it from

auditVars == <<ghVars, directory, readable>>

AuditInit ==
  /\ GHInit
  /\ directory \in Directories
  /\ readable \in BOOLEAN

\* classifySeats: the directory and the groups, then the seats.
StartSeats ==
  /\ call = Idle /\ readable
  /\ \/ call' = [step |-> "org"]
     \/ call' = Failed
  /\ UNCHANGED <<log, directory, readable>>

\* classifyCredentials does without an identity source, but not without the
\* answer of one.
StartCredentials ==
  /\ call = Idle
  /\ \/ call' = [step |-> "apps"]
     \/ readable /\ call' = Failed
  /\ UNCHANGED <<log, directory, readable>>

AuditNext ==
  \/ StartSeats \/ StartCredentials
  \/ GHNext /\ UNCHANGED <<directory, readable>>

AuditSpec == AuditInit /\ [][AuditNext]_auditVars
-----------------------------------------------------------------------------
(* What is made of it.                                                     *)

Known == {p \in Corporate : directory[p] # "absent"}
Active == {p \in Corporate : directory[p] = "active"}

\* The alias index knows the whole directory; without one there is none.
Index == IF readable THEN BuildAliasIndex(Known) ELSE [k \in Raw |-> NoOne]

ClassOf(a) == SeatClass(Index, directory, Mapped, call.name[a])

\* The display name of a seat is its login where the profile was not read or
\* states none, and then it is a name of its own only beside an address.
Stated(a) ==
  CASE a \in call.looked /\ ProfileName[a] # NoForm -> ProfileName[a]
    [] /\ a \notin call.looked \/ ProfileName[a] = NoForm
       /\ call.name[a] # a -> Head(FormsOf[a])
    [] OTHER -> NoForm

EvidenceOf(a) == Evidence(Stated(a), FormsOf[call.name[a]], FormsOf[a])

\* A credential of the inventory, and its author.
CredentialOf(c) ==
  [by |-> IF c \in call.named THEN Installer[c] ELSE NoOne,
   disabled |-> c \in Off]
-----------------------------------------------------------------------------
(* Properties.                                                             *)

\* The two audits agree: a credential is orphaned, live, external or unowned
\* exactly if a seat listed under its author's name would be an orphan, an
\* employee's, external or unresolved; and without a directory nobody is
\* called gone or employed.
SeatClasses ==
  [orphaned |-> {"orphan"}, live |-> {"managed", "unmapped"},
   external |-> {"external"}, unowned |-> {"unresolved"}]
AuthorAndSeatAgree ==
  At("inventoried") =>
    \A k \in call.found \cap Apps :
      LET c == CredentialOf(k)
          class == CredentialClass(Index, directory, readable, c)
      IN /\ ~readable => class \in {"dormant", "unowned", "external"}
         /\ readable /\ c.by # NoOne /\ ~c.disabled =>
              SeatClass(Index, directory, Mapped, c.by) \in SeatClasses[class]

\* Whichever people the forms may stand for, and whoever of them holds a seat:
\* if the name the seat states, or what identifies it if it states none, may
\* stand for the holder, the report of ghosts names the holder or nobody; and
\* so do the proposals if all of it may.
Spells(claims, forms, h) == \A i \in DOMAIN forms : h \in claims[forms[i]]
NobodyGuessed ==
  At("listed") =>
    \A a \in Accounts :
      LET e == EvidenceOf(a)
          class == ClassOf(a)
          named(claims, h) == e.stated # NoForm => h \in claims[e.stated]
          handled(claims, h) == Spells(claims, e.handle, h)
          plain(claims, h) ==
            e.stated = NoForm => handled(claims, h) /\ Spells(claims, e.login, h)
      IN class \in {"external", "unresolved"} =>
           \A claims \in [Forms -> SUBSET Known], h \in Known :
             named(claims, h) =>
               /\ class = "external" /\ plain(claims, h)
                  => GhostMatch(claims, Active, e) \in {h, Nobody}
               /\ class = "unresolved" /\ handled(claims, h)
                  => ProposedMatch(claims, e) \in {h, Nobody}

\* Nothing has two owners: no seat is up for removal, and no credential that
\* someone authorised up for attestation or revocation, in the offboardings
\* of two people, whatever each of the listing's calls made of its name.
OneOwner ==
  At("listed") =>
    LET listed == {call.name[a] : a \in Accounts}
        index == Index
        losing(n) ==
          {s \in People :
             SeatDecision(index, directory, Mapped, listed, s, n) = "remove"}
        asked(c) ==
          {s \in People :
             CredentialDecision(index, directory, listed, s, c)
               \in {"attest", "revoke"}}
        one(subjects) == \A s, t \in subjects : Primary(s) = Primary(t)
    IN /\ \A n \in listed : one(losing(n))
       /\ \A c \in [by : Accounts, disabled : BOOLEAN] : one(asked(c))
=============================================================================
