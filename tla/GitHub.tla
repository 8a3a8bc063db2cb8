------------------------------- MODULE GitHub -------------------------------
(***************************************************************************)
(* The GitHub connector, which pieces a seat list together from calls that *)
(* fail one by one (ListUsers), and an inventory of the organisation's     *)
(* apps, deploy keys and webhooks (ListCredentialInventory).               *)
(*                                                                         *)
(* A person's activity is asked of the audit log one login at a time, by   *)
(* goroutines that share `Slots` tickets.  What the log holds of a login   *)
(* is chosen when it is asked.                                             *)
(***************************************************************************)
EXTENDS Engine, Naturals

CONSTANTS
  Accounts,   \* the logins of the members and outside collaborators
  Saml,       \* [Accounts -> People \cup {NoOne}]: the address SSO maps it to
  Public,     \* likewise: the address its profile shows
  Slots,      \* auditLogConcurrency
  Apps,       \* installed apps
  Installer,  \* [Apps -> Accounts \cup {NoOne}]: whom the audit log names
  Repos,
  Off         \* credentials that are switched off

OrgHooks == <<"hook", NoOne>>   \* those of the organisation itself
Credentials == Apps \cup ({"key", "hook"} \X Repos) \cup {OrgHooks}

ASSUME GitHubAssumption ==
  /\ Accounts \subseteq Logins
  /\ Saml \in [Accounts -> People \cup {NoOne}]
  /\ Public \in [Accounts -> People \cup {NoOne}]
  /\ Installer \in [Apps -> Accounts \cup {NoOne}]
  /\ Slots \in Nat \ {0}
  /\ Off \subseteq Credentials

VARIABLES
  call,   \* the call under way, its step and what it has read
  log     \* history: what the audit log said of each login

ghVars == <<call, log>>

Idle == [step |-> "idle"]
Failed == [step |-> "failed"]
GHInit == call = Idle /\ log = [a \in Accounts |-> "unasked"]

At(step) == call.step = step
Quietly == UNCHANGED log

-----------------------------------------------------------------------------
(* ListUsers.                                                              *)

\* verifyOrgVisibility, the members, the outside collaborators and the
\* owners: each a call that fails the listing.
ReadOrg ==
  /\ At("org")
  /\ \/ call' = [step |-> "saml"]
     \/ call' = Failed
  /\ Quietly

\* fetchSAMLIdentities: an error ends the walk, and what was read counts.
FetchSAML ==
  /\ At("saml")
  /\ \E known \in SUBSET {a \in Accounts : Saml[a] # NoOne} :
       call' = [step |-> "log", known |-> known, waiting |-> Accounts,
                asking |-> {}, stamped |-> {}, failed |-> Accounts = {}]
  /\ Quietly

\* A goroutine of fetchOrgAuditLog takes a ticket; once a query has failed it
\* gives up instead of asking.
Ask(a) ==
  /\ At("log")
  /\ a \in call.waiting /\ Cardinality(call.asking) < Slots
  /\ call' = [call EXCEPT !.waiting = @ \ {a},
                          !.asking = IF call.failed THEN @ ELSE @ \cup {a}]
  /\ Quietly

\* The newest entry of the log on login a, which may carry no date, or none;
\* or the query fails.
Reply(a) ==
  /\ At("log") /\ a \in call.asking
  /\ \E entry \in {"dated", "undated", "none", "error"} :
       /\ call' = [call EXCEPT
            !.asking = @ \ {a},
            !.stamped = IF entry = "dated" THEN @ \cup {a} ELSE @,
            !.failed = @ \/ entry = "error"]
       /\ log' = [log EXCEPT ![a] = entry]

\* Mutant: what was read before a query failed counts.
AuditOK_Partial == call.stamped # {} \/ ~call.failed

\* auditLogAvailable, and so Capabilities: a partial read is none.
AuditOK == ~call.failed

\* Without the audit log the public events stand in (fetchOrgActivity).
AuditDone ==
  /\ At("log")
  /\ call.waiting = {} /\ call.asking = {}
  /\ call' = [step |-> IF AuditOK THEN "profiles" ELSE "events",
              known |-> call.known, reports |-> AuditOK,
              stamped |-> IF AuditOK THEN call.stamped ELSE {}]
  /\ Quietly

FetchEvents ==
  /\ At("events")
  /\ \E seen \in SUBSET {a \in Accounts : log[a] # "none"} :
       call' = [call EXCEPT !.step = "profiles", !.stamped = seen]
  /\ Quietly

\* githubUserFromMember: SSO's address, else the profile's, else the login.
NameOf(a, known, looked) ==
  IF a \in known THEN Saml[a]
  ELSE IF a \in looked /\ Public[a] # NoOne THEN Public[a] ELSE a

\* fetchUserEmail of each login SSO did not map; its failure is swallowed.
Profiles ==
  /\ At("profiles")
  /\ \E looked \in SUBSET (Accounts \ call.known) :
       call' = [step |-> "listed", reports |-> call.reports,
                stamped |-> call.stamped, known |-> call.known,
                looked |-> looked,
                name |-> [a \in Accounts |-> NameOf(a, call.known, looked)]]
  /\ Quietly
-----------------------------------------------------------------------------
(* ListCredentialInventory.                                                *)

\* fetchInstallations, the one call whose failure fails the inventory, and
\* fetchInstallers, which reads what it can.
ReadApps ==
  /\ At("apps")
  /\ \/ call' = Failed
     \/ \E named \in SUBSET {p \in Apps : Installer[p] # NoOne} :
          call' = [step |-> "repos", named |-> named, found |-> Apps,
                   warned |-> FALSE]
  /\ Quietly

\* fetchRepositoriesForInventory: an error keeps the pages read, and warns.
ReadRepos ==
  /\ At("repos")
  /\ \E read \in SUBSET Repos, broken \in BOOLEAN :
       /\ read # Repos => broken
       /\ call' = [step |-> IF read = {} THEN "org hooks" ELSE "keys",
                   named |-> call.named, found |-> call.found,
                   warned |-> broken, repos |-> read, left |-> read]
  /\ Quietly

\* Mutant: the warning of a repository is lost to the next one's.
Warned_Last(broken) == broken

Warned(broken) == call.warned \/ broken

\* fetchDeployKeyCredentials and fetchRepoWebhookCredentials: a repository
\* that cannot be read to the end is warned of, and the next one is read.
ReadRepo(r, step, kind, next) ==
  /\ At(step) /\ r \in call.left
  /\ \E read, broken \in BOOLEAN :
       /\ ~read => broken
       /\ LET left == call.left \ {r} IN
          call' = [call EXCEPT
            !.found = IF read THEN @ \cup {<<kind, r>>} ELSE @,
            !.warned = Warned(broken),
            !.left = IF left = {} THEN call.repos ELSE left,
            !.step = IF left = {} THEN next ELSE step]
  /\ Quietly

FetchDeployKeys(r) == ReadRepo(r, "keys", "key", "hooks")
FetchRepoWebhooks(r) == ReadRepo(r, "hooks", "hook", "org hooks")

\* fetchOrgWebhookCredentials: all of them, or none and a warning.
FetchOrgWebhooks ==
  /\ At("org hooks")
  /\ \E read \in BOOLEAN :
       call' = [step |-> "inventoried", named |-> call.named,
                found |-> IF read THEN call.found \cup {OrgHooks} ELSE call.found,
                warned |-> Warned(~read)]
  /\ Quietly

GHNext ==
  \/ ReadOrg \/ FetchSAML \/ AuditDone \/ FetchEvents \/ Profiles
  \/ \E a \in Accounts : Ask(a) \/ Reply(a)
  \/ ReadApps \/ ReadRepos \/ FetchOrgWebhooks
  \/ \E r \in Repos : FetchDeployKeys(r) \/ FetchRepoWebhooks(r)
-----------------------------------------------------------------------------
(* Properties.                                                             *)

\* When the connector says that it reports activity, a seat without a date is
\* one the audit log was asked about and answered for: a log that fails for
\* one login, in whatever order the answers come, makes nobody look idle.
IdleIsProven ==
  At("listed") /\ call.reports
    => \A a \in Accounts : a \in call.stamped \/ log[a] \in {"undated", "none"}

\* An inventory that comes without a warning is whole: whichever of its calls
\* fail, what was not read is never passed off as not there.
WarnedOrWhole ==
  At("inventoried") /\ ~call.warned => call.found = Credentials
-----------------------------------------------------------------------------
\* "Unlike the public events feed, an absent login really does mean no
\* activity": a seat without a date is one the log had no entry for.
IdleIsIdle ==
  At("listed") /\ call.reports
    => \A a \in Accounts : a \in call.stamped \/ log[a] = "none"
=============================================================================
