----------------------------- MODULE AuditProofs -----------------------------
(***************************************************************************)
(* Proofs about Audit and the GitHub connector under it, for any           *)
(* organisation, directory and aliases: who is listed without a date was   *)
(* answered for; an inventory without a warning is whole; a name has one   *)
(* owner; the audits of seats and of credentials judge a person alike; and *)
(* nobody is named by guessing.                                            *)
(***************************************************************************)
EXTENDS Audit, NaturalFacts, TLAPS

\* The log was asked about an account, and answered without a date.
Answered(a, l) == l[a] \in {"undated", "none"}

\* What a listing holds in hand, beside a history l of the log's answers.
ListingOK(c, l) ==
  /\ c.step = "log" =>
       /\ DOMAIN c = {"step", "known", "waiting", "asking", "stamped", "failed"}
       /\ ~c.failed => \A a \in Accounts :
            a \in c.waiting \cup c.asking \cup c.stamped \/ Answered(a, l)
  /\ c.step = "events" =>
       DOMAIN c = {"step", "known", "reports", "stamped"} /\ ~c.reports
  /\ c.step \in {"profiles", "listed"} /\ c.reports =>
       \A a \in Accounts : a \in c.stamped \/ Answered(a, l)

InventoryFields == {"step", "named", "found", "warned", "repos", "left"}
Of(kind, repos) == {<<kind, r>> : r \in repos}

\* What an inventory without a warning has found so far.
InventoryOK(c) ==
  /\ c.step = "repos" => c.found = Apps
  /\ c.step = "keys" =>
       /\ DOMAIN c = InventoryFields
       /\ ~c.warned => c.repos = Repos /\ c.left \subseteq Repos
                       /\ c.found = Apps \cup Of("key", Repos \ c.left)
  /\ c.step = "hooks" =>
       /\ DOMAIN c = InventoryFields
       /\ ~c.warned => c.repos = Repos /\ c.left \subseteq Repos
                       /\ c.found = Apps \cup Of("key", Repos)
                                         \cup Of("hook", Repos \ c.left)
  /\ c.step = "org hooks" /\ ~c.warned =>
       c.found = Apps \cup Of("key", Repos) \cup Of("hook", Repos)
  /\ c.step = "inventoried" /\ ~c.warned => c.found = Credentials

ListingSteps == {"log", "events", "profiles", "listed"}
InventorySteps == {"repos", "keys", "hooks", "org hooks", "inventoried"}

AuditInv ==
  /\ DOMAIN log = Accounts
  /\ ListingOK(call, log)
  /\ InventoryOK(call)
-----------------------------------------------------------------------------
(* The listing.                                                            *)

\* A step to a call of another kind.
LEMMA ElsewhereOK ==
  ASSUME NEW c, NEW l
  PROVE  /\ c.step \notin ListingSteps => ListingOK(c, l)
         /\ c.step \notin InventorySteps => InventoryOK(c)
BY DEF ListingSteps, InventorySteps, ListingOK, InventoryOK

LEMMA AskInv ==
  ASSUME AuditInv, NEW a \in Accounts, Ask(a)
  PROVE  AuditInv'
<1> DEFINE asking == IF call.failed THEN call.asking ELSE call.asking \cup {a}
           next == [call EXCEPT !.waiting = call.waiting \ {a},
                                !.asking = asking]
<1>1. /\ call.step = "log" /\ call' = next /\ log' = log
      /\ DOMAIN call = {"step", "known", "waiting", "asking", "stamped", "failed"}
      /\ ~call.failed => \A b \in Accounts :
           b \in call.waiting \cup call.asking \cup call.stamped
             \/ Answered(b, log)
  BY DEF Ask, At, Quietly, AuditInv, ListingOK
<1>2. ~call.failed => asking = call.asking \cup {a}
  OBVIOUS
<1> HIDE DEF asking
<1>3. /\ DOMAIN next = DOMAIN call /\ next.step = "log"
      /\ next.waiting = call.waiting \ {a} /\ next.asking = asking
      /\ next.stamped = call.stamped /\ next.failed = call.failed
  BY <1>1
<1> HIDE DEF next
<1>4. ListingOK(next, log)
  BY <1>1, <1>2, <1>3 DEF ListingOK
<1>5. InventoryOK(next)
  BY <1>3, ElsewhereOK DEF InventorySteps
<1> QED
  BY <1>1, <1>4, <1>5 DEF AuditInv

\* What is answered without a date is recorded as such, and what fails fails
\* the reading of the log.
LEMMA ReplyInv ==
  ASSUME AuditInv, NEW a \in Accounts, Reply(a)
  PROVE  AuditInv'
<1>1. PICK entry \in {"dated", "undated", "none", "error"} :
        /\ call' = [call EXCEPT
             !.asking = call.asking \ {a},
             !.stamped = IF entry = "dated" THEN call.stamped \cup {a}
                         ELSE call.stamped,
             !.failed = call.failed \/ entry = "error"]
        /\ log' = [log EXCEPT ![a] = entry]
  BY DEF Reply
<1> DEFINE stamped == IF entry = "dated" THEN call.stamped \cup {a}
                      ELSE call.stamped
           failed == call.failed \/ entry = "error"
           next == [call EXCEPT !.asking = call.asking \ {a},
                                !.stamped = stamped, !.failed = failed]
<1>2. /\ call.step = "log" /\ call' = next
      /\ DOMAIN call = {"step", "known", "waiting", "asking", "stamped", "failed"}
      /\ ~call.failed => \A b \in Accounts :
           b \in call.waiting \cup call.asking \cup call.stamped
             \/ Answered(b, log)
  BY <1>1 DEF Reply, At, AuditInv, ListingOK
<1>3. DOMAIN log' = Accounts /\ log'[a] = entry
      /\ \A b \in Accounts \ {a} : log'[b] = log[b]
  BY <1>1 DEF AuditInv
<1>4. /\ call.stamped \subseteq stamped
      /\ entry = "dated" => a \in stamped
      /\ ~failed => ~call.failed /\ entry # "error"
  OBVIOUS
<1> HIDE DEF stamped, failed
<1>5. /\ DOMAIN next = DOMAIN call /\ next.step = "log"
      /\ next.waiting = call.waiting /\ next.asking = call.asking \ {a}
      /\ next.stamped = stamped /\ next.failed = failed
  BY <1>2
<1> HIDE DEF next
<1>6. ASSUME ~failed, NEW b \in Accounts
      PROVE  b \in next.waiting \cup next.asking \cup next.stamped
               \/ Answered(b, log')
  <2>1. CASE b = a
    BY <1>3, <1>4, <1>5, <1>6, <2>1 DEF Answered
  <2>2. CASE b # a
    BY <1>2, <1>3, <1>4, <1>5, <1>6, <2>2 DEF Answered
  <2> QED
    BY <2>1, <2>2
<1>7. ListingOK(next, log')
  BY <1>2, <1>5, <1>6 DEF ListingOK
<1>8. InventoryOK(next)
  BY <1>5, ElsewhereOK DEF InventorySteps
<1> QED
  BY <1>2, <1>3, <1>7, <1>8 DEF AuditInv

LEMMA ListingInv ==
  ASSUME AuditInv,
         ReadOrg \/ FetchSAML \/ AuditDone \/ FetchEvents \/ Profiles
  PROVE  AuditInv'
<1>1. log' = log /\ DOMAIN log = Accounts /\ ListingOK(call, log)
  BY DEF ReadOrg, FetchSAML, AuditDone, FetchEvents, Profiles, Quietly, AuditInv
<1> SUFFICES ListingOK(call', log) /\ InventoryOK(call')
  BY <1>1 DEF AuditInv
<1>2. CASE ReadOrg
  <2>1. call'.step \in {"saml", "failed"}
    BY <1>2 DEF ReadOrg, Failed
  <2> QED
    BY <2>1, ElsewhereOK DEF ListingSteps, InventorySteps
<1>3. CASE FetchSAML
  <2>1. PICK known : call' = [step |-> "log", known |-> known,
                              waiting |-> Accounts, asking |-> {},
                              stamped |-> {}, failed |-> Accounts = {}]
    BY <1>3 DEF FetchSAML
  <2>2. InventoryOK(call')
    BY <2>1, ElsewhereOK DEF InventorySteps
  <2> QED
    BY <2>1, <2>2 DEF ListingOK
<1>4. CASE AuditDone
  <2>1. /\ call' = [step |-> IF AuditOK THEN "profiles" ELSE "events",
                    known |-> call.known, reports |-> AuditOK,
                    stamped |-> IF AuditOK THEN call.stamped ELSE {}]
        /\ call.step = "log" /\ call.waiting = {} /\ call.asking = {}
    BY <1>4 DEF AuditDone, At
  <2>2. AuditOK => \A a \in Accounts : a \in call.stamped \/ Answered(a, log)
    BY <1>1, <2>1 DEF AuditOK, ListingOK
  <2> HIDE DEF AuditOK
  <2>3. CASE AuditOK
    <3>1. /\ call'.step = "profiles" /\ call'.stamped = call.stamped
      BY <2>1, <2>3
    <3> QED
      BY <2>2, <2>3, <3>1, ElsewhereOK DEF ListingOK, InventorySteps
  <2>4. CASE ~AuditOK
    <3>1. /\ call'.step = "events" /\ ~call'.reports
          /\ DOMAIN call' = {"step", "known", "reports", "stamped"}
      BY <2>1, <2>4
    <3> QED
      BY <3>1, ElsewhereOK DEF ListingOK, InventorySteps
  <2> QED
    BY <2>3, <2>4
<1>5. CASE FetchEvents
  <2>1. PICK dated : call' = [call EXCEPT !.step = "profiles", !.stamped = dated]
    BY <1>5 DEF FetchEvents
  <2>2. DOMAIN call = {"step", "known", "reports", "stamped"} /\ ~call.reports
    BY <1>1, <1>5 DEF FetchEvents, At, ListingOK
  <2>3. call'.step = "profiles" /\ ~call'.reports
    BY <2>1, <2>2
  <2> QED
    BY <2>3, ElsewhereOK DEF ListingOK, InventorySteps
<1>6. CASE Profiles
  <2>1. /\ call.step = "profiles" /\ call'.step = "listed"
        /\ call'.reports = call.reports /\ call'.stamped = call.stamped
    BY <1>6 DEF Profiles, At
  <2> QED
    BY <1>1, <2>1, ElsewhereOK DEF ListingOK, InventorySteps
<1> QED
  BY <1>2, <1>3, <1>4, <1>5, <1>6
-----------------------------------------------------------------------------
(* The inventory.                                                          *)

LEMMA OfWhole == Credentials = Apps \cup Of("key", Repos) \cup Of("hook", Repos)
                                    \cup {OrgHooks}
BY DEF Credentials, Of

\* One repository is read; the others are left, or it was the last.
LEMMA ReadRepoFacts ==
  ASSUME DOMAIN call = InventoryFields,
         NEW r, NEW step \in {"keys", "hooks"}, NEW kind, NEW next,
         ReadRepo(r, step, kind, next)
  PROVE  /\ call.step = step /\ r \in call.left /\ log' = log
         /\ call'.step = IF call.left \ {r} = {} THEN next ELSE step
         /\ DOMAIN call' = InventoryFields
         /\ call'.repos = call.repos
         /\ call'.left = IF call.left \ {r} = {} THEN call.repos
                         ELSE call.left \ {r}
         /\ ~call'.warned => /\ ~call.warned
                             /\ call'.found = call.found \cup {<<kind, r>>}
<1> DEFINE rest == call.left \ {r}
           left == IF rest = {} THEN call.repos ELSE rest
           to == IF rest = {} THEN next ELSE step
<1>1. PICK read \in BOOLEAN, broken \in BOOLEAN :
        /\ ~read => broken
        /\ call' = [call EXCEPT
             !.found = IF read THEN call.found \cup {<<kind, r>>}
                       ELSE call.found,
             !.warned = Warned(broken), !.left = left, !.step = to]
  BY Zenon DEF ReadRepo
<1> HIDE DEF rest, left, to
<1>2. /\ call'.step = to /\ call'.left = left /\ call'.repos = call.repos
      /\ DOMAIN call' = InventoryFields /\ call'.warned = Warned(broken)
      /\ call'.found = IF read THEN call.found \cup {<<kind, r>>}
                       ELSE call.found
  BY <1>1 DEF InventoryFields
<1>3. call.step = step /\ r \in call.left /\ log' = log
  BY DEF ReadRepo, At, Quietly
<1> QED
  BY <1>1, <1>2, <1>3 DEF Warned, rest, left, to

LEMMA DeployKeysInv ==
  ASSUME AuditInv, NEW r, FetchDeployKeys(r)
  PROVE  AuditInv'
<1>1. call.step = "keys" /\ InventoryOK(call) /\ DOMAIN call = InventoryFields
  BY DEF FetchDeployKeys, ReadRepo, At, AuditInv, InventoryOK
<1>2. /\ r \in call.left /\ log' = log
      /\ call'.step = IF call.left \ {r} = {} THEN "hooks" ELSE "keys"
      /\ DOMAIN call' = InventoryFields
      /\ call'.repos = call.repos
      /\ call'.left = IF call.left \ {r} = {} THEN call.repos
                      ELSE call.left \ {r}
      /\ ~call'.warned => /\ ~call.warned
                          /\ call'.found = call.found \cup {<<"key", r>>}
  BY <1>1, ReadRepoFacts DEF FetchDeployKeys
<1>3. ASSUME ~call'.warned
      PROVE  /\ call'.repos = Repos /\ call'.left \subseteq Repos
             /\ IF call'.step = "keys"
                THEN call'.found = Apps \cup Of("key", Repos \ call'.left)
                ELSE call'.found = Apps \cup Of("key", Repos)
                                        \cup Of("hook", Repos \ call'.left)
  <2>1. /\ call.repos = Repos /\ call.left \subseteq Repos
        /\ call.found = Apps \cup Of("key", Repos \ call.left)
        /\ call'.found = call.found \cup {<<"key", r>>}
    BY <1>1, <1>2, <1>3 DEF InventoryOK
  <2>2. call'.found = Apps \cup Of("key", Repos \ (call.left \ {r}))
    BY <1>2, <2>1 DEF Of
  <2>3. CASE call.left \ {r} = {}
    <3>1. call'.step = "hooks" /\ call'.left = Repos
      BY <1>2, <2>1, <2>3
    <3>2. Repos \ (call.left \ {r}) = Repos /\ Repos \ call'.left = {}
      BY <2>3, <3>1
    <3>3. Of("hook", {}) = {}
      BY DEF Of
    <3> QED
      BY <1>2, <2>1, <2>2, <3>1, <3>2, <3>3
  <2>4. CASE call.left \ {r} # {}
    BY <1>2, <2>1, <2>2, <2>4
  <2> QED
    BY <2>3, <2>4
<1>4. call'.step \in {"keys", "hooks"}
  BY <1>2
<1>5. InventoryOK(call')
  BY <1>2, <1>3, <1>4 DEF InventoryOK
<1>6. ListingOK(call', log')
  BY <1>4, ElsewhereOK DEF ListingSteps
<1> QED
  BY <1>2, <1>5, <1>6 DEF AuditInv

LEMMA RepoWebhooksInv ==
  ASSUME AuditInv, NEW r, FetchRepoWebhooks(r)
  PROVE  AuditInv'
<1>1. call.step = "hooks" /\ InventoryOK(call) /\ DOMAIN call = InventoryFields
  BY DEF FetchRepoWebhooks, ReadRepo, At, AuditInv, InventoryOK
<1>2. /\ r \in call.left /\ log' = log
      /\ call'.step = IF call.left \ {r} = {} THEN "org hooks" ELSE "hooks"
      /\ DOMAIN call' = InventoryFields
      /\ call'.repos = call.repos
      /\ call'.left = IF call.left \ {r} = {} THEN call.repos
                      ELSE call.left \ {r}
      /\ ~call'.warned => /\ ~call.warned
                          /\ call'.found = call.found \cup {<<"hook", r>>}
  BY <1>1, ReadRepoFacts DEF FetchRepoWebhooks
<1>3. ASSUME ~call'.warned
      PROVE  /\ call'.repos = Repos /\ call'.left \subseteq Repos
             /\ IF call'.step = "hooks"
                THEN call'.found = Apps \cup Of("key", Repos)
                                        \cup Of("hook", Repos \ call'.left)
                ELSE call'.found = Apps \cup Of("key", Repos)
                                        \cup Of("hook", Repos)
  <2>1. /\ call.repos = Repos /\ call.left \subseteq Repos
        /\ call.found = Apps \cup Of("key", Repos)
                             \cup Of("hook", Repos \ call.left)
        /\ call'.found = call.found \cup {<<"hook", r>>}
    BY <1>1, <1>2, <1>3 DEF InventoryOK
  <2>2. call'.found = Apps \cup Of("key", Repos)
                           \cup Of("hook", Repos \ (call.left \ {r}))
    BY <1>2, <2>1 DEF Of
  <2>3. CASE call.left \ {r} = {}
    <3>1. call'.step = "org hooks" /\ call'.left = Repos
      BY <1>2, <2>1, <2>3
    <3>2. Repos \ (call.left \ {r}) = Repos
      BY <2>3
    <3> QED
      BY <1>2, <2>1, <2>2, <3>1, <3>2
  <2>4. CASE call.left \ {r} # {}
    BY <1>2, <2>1, <2>2, <2>4
  <2> QED
    BY <2>3, <2>4
<1>4. call'.step \in {"hooks", "org hooks"}
  BY <1>2
<1>5. InventoryOK(call')
  BY <1>2, <1>3, <1>4 DEF InventoryOK
<1>6. ListingOK(call', log')
  BY <1>4, ElsewhereOK DEF ListingSteps
<1> QED
  BY <1>2, <1>5, <1>6 DEF AuditInv

LEMMA InventoryInv ==
  ASSUME AuditInv, ReadApps \/ ReadRepos \/ FetchOrgWebhooks
  PROVE  AuditInv'
<1>1. log' = log /\ DOMAIN log = Accounts /\ InventoryOK(call)
  BY DEF ReadApps, ReadRepos, FetchOrgWebhooks, Quietly, AuditInv
<1> SUFFICES ListingOK(call', log) /\ InventoryOK(call')
  BY <1>1 DEF AuditInv
<1>2. CASE ReadApps
  <2>1. CASE call' = Failed
    <3>1. call'.step = "failed"
      BY <2>1 DEF Failed
    <3> QED
      BY <3>1, ElsewhereOK DEF ListingSteps, InventorySteps
  <2>2. CASE \E named : call' = [step |-> "repos", named |-> named,
                                 found |-> Apps, warned |-> FALSE]
    <3>1. call'.step = "repos" /\ call'.found = Apps
      BY <2>2
    <3>2. InventoryOK(call')
      BY <3>1 DEF InventoryOK
    <3>3. ListingOK(call', log)
      BY <3>1, ElsewhereOK DEF ListingSteps
    <3> QED
      BY <3>2, <3>3
  <2> QED
    BY <1>2, <2>1, <2>2 DEF ReadApps
<1>3. CASE ReadRepos
  <2>1. PICK read \in SUBSET Repos, broken \in BOOLEAN :
          /\ read # Repos => broken
          /\ call' = [step |-> IF read = {} THEN "org hooks" ELSE "keys",
                      named |-> call.named, found |-> call.found,
                      warned |-> broken, repos |-> read, left |-> read]
    BY <1>3 DEF ReadRepos
  <2>2. call.found = Apps
    BY <1>1, <1>3 DEF ReadRepos, At, InventoryOK
  <2>3. /\ call'.step = IF read = {} THEN "org hooks" ELSE "keys"
        /\ DOMAIN call' = InventoryFields
        /\ call'.found = Apps /\ call'.warned = broken
        /\ call'.repos = read /\ call'.left = read
    BY <2>1, <2>2 DEF InventoryFields
  <2>4. Repos \ Repos = {} /\ Of("key", {}) = {} /\ Of("hook", {}) = {}
    BY DEF Of
  <2>5. InventoryOK(call')
    BY <2>1, <2>3, <2>4 DEF InventoryOK
  <2> QED
    BY <2>3, <2>5, ElsewhereOK DEF ListingSteps
<1>4. CASE FetchOrgWebhooks
  <2>1. PICK read \in BOOLEAN :
          call' = [step |-> "inventoried", named |-> call.named,
                   found |-> IF read THEN call.found \cup {OrgHooks}
                             ELSE call.found,
                   warned |-> Warned(~read)]
    BY <1>4 DEF FetchOrgWebhooks
  <2>2. ~call'.warned => read /\ ~call.warned
    BY <2>1 DEF Warned
  <2>3. ~call.warned => call.found = Apps \cup Of("key", Repos)
                                          \cup Of("hook", Repos)
    BY <1>1, <1>4 DEF FetchOrgWebhooks, At, InventoryOK
  <2>4. ~call'.warned => call'.found = Credentials
    BY <2>1, <2>2, <2>3, OfWhole
  <2>5. call'.step = "inventoried"
    BY <2>1
  <2> QED
    BY <2>4, <2>5, ElsewhereOK DEF InventoryOK, ListingSteps
<1> QED
  BY <1>2, <1>3, <1>4
-----------------------------------------------------------------------------
(* The invariant.                                                          *)

LEMMA AuditInitInv == AuditInit => AuditInv
<1> SUFFICES ASSUME AuditInit PROVE AuditInv
  OBVIOUS
<1>1. call.step = "idle" /\ DOMAIN log = Accounts
  BY DEF AuditInit, GHInit, Idle
<1> QED
  BY <1>1, ElsewhereOK DEF AuditInv, ListingSteps, InventorySteps

LEMMA StartInv ==
  ASSUME AuditInv, StartSeats \/ StartCredentials
  PROVE  AuditInv'
<1>1. log' = log /\ call'.step \in {"org", "apps", "failed"}
  BY DEF StartSeats, StartCredentials, Failed
<1> QED
  BY <1>1, ElsewhereOK DEF AuditInv, ListingSteps, InventorySteps

LEMMA AuditNextInv == AuditInv /\ [AuditNext]_auditVars => AuditInv'
<1> SUFFICES ASSUME AuditInv, [AuditNext]_auditVars PROVE AuditInv'
  OBVIOUS
<1>1. CASE UNCHANGED auditVars
  BY <1>1 DEF auditVars, ghVars, AuditInv
<1>2. CASE GHNext
  BY <1>2, ListingInv, AskInv, ReplyInv, InventoryInv, DeployKeysInv,
     RepoWebhooksInv DEF GHNext
<1> QED
  BY <1>1, <1>2, StartInv DEF AuditNext

\* The inductive invariant: unless the reading of the log has failed, whoever
\* waits for no answer has one; and without a warning what was found so far is
\* all there was to find.
THEOREM AuditInvariant == AuditSpec => []AuditInv
BY AuditInitInv, AuditNextInv, PTL DEF AuditSpec

\* When the connector says that it reports activity, a seat without a date is
\* one the log was asked about and answered for.
THEOREM AuditIdleIsProven == AuditSpec => []IdleIsProven
<1>1. AuditInv => IdleIsProven
  BY DEF AuditInv, ListingOK, Answered, IdleIsProven, At
<1> QED
  BY <1>1, AuditInvariant, PTL

\* An inventory that comes without a warning is whole.
THEOREM AuditWarnedOrWhole == AuditSpec => []WarnedOrWhole
<1>1. AuditInv => WarnedOrWhole
  BY DEF AuditInv, InventoryOK, WarnedOrWhole, At
<1> QED
  BY <1>1, AuditInvariant, PTL
-----------------------------------------------------------------------------
(* Whose a name is.                                                        *)

\* What an index of aliases holds, whatever it was built from.
IndexOK(index) == index \in [Raw -> People \cup {NoOne}]

\* An index of the people known, or of nobody.
LEMMA IndexFacts ==
  ASSUME directory \in [Corporate -> DirectoryStatus]
  PROVE  /\ IndexOK(Index)
         /\ readable => /\ \A k \in DOMAIN Explicit : Index[k] = Explicit[k]
                        /\ \A p \in People \ DOMAIN Explicit : Index[p] = NoOne
         /\ ~readable => \A k \in Raw : Index[k] = NoOne
<1>1. Known \subseteq People
  BY EngineAssumption DEF Known
<1>2. ASSUME NEW k \in Raw
      PROVE  /\ BuildAliasIndex(Known)[k] \in People \cup {NoOne}
             /\ k \in DOMAIN Explicit => BuildAliasIndex(Known)[k] = Explicit[k]
             /\ k \in People \ DOMAIN Explicit
                  => BuildAliasIndex(Known)[k] = NoOne
  <2>1. CASE k \in DOMAIN Explicit
    BY <2>1, EngineAssumption DEF BuildAliasIndex
  <2>2. CASE k \notin DOMAIN Explicit
    <3> DEFINE claimed == \E h \in Known : Claimants(k, Known) = {h}
               owner == CHOOSE h \in Known : Claimants(k, Known) = {h}
    <3>1. BuildAliasIndex(Known)[k] = IF claimed THEN owner ELSE NoOne
      BY <2>2 DEF BuildAliasIndex
    <3>2. claimed => owner \in Known
      OBVIOUS
    <3>3. k \in People => ~claimed
      <4>1. ASSUME k \in People, NEW h \in Known, Claimants(k, Known) = {h}
            PROVE  FALSE
        <5>1. k \in Keys(h)
          BY <4>1 DEF Claimants
        <5>2. LocalPart[h] \in Logins /\ Squash[LocalPart[h]] \in Logins
          BY <1>1, EngineAssumption
        <5> QED
          BY <4>1, <5>1, <5>2, EngineAssumption DEF Keys
      <4> QED
        BY <4>1
    <3> HIDE DEF claimed, owner
    <3> QED
      BY <1>1, <2>2, <3>1, <3>2, <3>3
  <2> QED
    BY <2>1, <2>2
<1>3. BuildAliasIndex(Known) \in [Raw -> People \cup {NoOne}]
  <2>1. BuildAliasIndex(Known) = [k \in Raw |-> BuildAliasIndex(Known)[k]]
    BY DEF BuildAliasIndex
  <2> QED
    BY <1>2, <2>1
<1>4. CASE readable
  <2>1. DOMAIN Explicit \subseteq Raw /\ People \subseteq Raw
    BY EngineAssumption DEF Raw
  <2>2. Index = BuildAliasIndex(Known)
    BY <1>4 DEF Index
  <2> QED
    BY <1>2, <1>3, <1>4, <2>1, <2>2 DEF IndexOK
<1>5. CASE ~readable
  <2>1. Index = [k \in Raw |-> NoOne]
    BY <1>5 DEF Index
  <2> QED
    BY <1>5, <2>1 DEF IndexOK
<1> QED
  BY <1>4, <1>5

\* The seat of a login that nobody claims.
LEMMA UnclaimedLogin ==
  ASSUME NEW index, NEW s, NEW dir, NEW desired, Resolve(index, s) \in Logins
  PROVE  SeatClass(index, dir, desired, s) = "unresolved"
<1> DEFINE id == Resolve(index, s)
<1>1. id \in Logins /\ id \notin People /\ id \notin Corporate
  BY EngineAssumption
<1> HIDE DEF id
<1> QED
  BY <1>1, Zenon DEF SeatClass, id

\* A name resolves to a person, or is a login nobody claims.
LEMMA ResolveRaw ==
  ASSUME NEW index, IndexOK(index), NEW s \in Raw
  PROVE  Resolve(index, s) \in Raw
<1>1. Squashed(s) \in Raw
  BY EngineAssumption DEF Squashed, Raw
<1> QED
  BY <1>1 DEF Resolve, IndexOK, Raw

\* An address resolves to the one an alias gives it, or to itself.
LEMMA ResolvePerson ==
  ASSUME directory \in [Corporate -> DirectoryStatus], readable,
         NEW p \in People
  PROVE  Resolve(Index, p) = Primary(p)
<1>1. Squashed(p) = p
  BY EngineAssumption DEF Squashed
<1>2. CASE p \in DOMAIN Explicit
  <2>1. Index[p] = Explicit[p] /\ Explicit[p] # NoOne
    BY <1>2, IndexFacts, EngineAssumption DEF Raw
  <2> QED
    BY <1>2, <2>1 DEF Resolve, Primary
<1>3. CASE p \notin DOMAIN Explicit
  <2>1. Index[p] = NoOne
    BY <1>3, IndexFacts
  <2> QED
    BY <1>1, <1>3, <2>1 DEF Resolve, Primary
<1> QED
  BY <1>2, <1>3

\* A primary address is one, and no alias.
LEMMA PrimaryFacts ==
  ASSUME NEW s \in People
  PROVE  Primary(s) \in People \ DOMAIN Explicit
BY EngineAssumption DEF Primary

\* Whom an offboarding matches a name to is who the name resolves to, or who
\* that one's alias stands for.
LEMMA MatchIsPrimary ==
  ASSUME directory \in [Corporate -> DirectoryStatus], readable,
         NEW p \in People \ DOMAIN Explicit, NEW listed,
         NEW n \in Raw, Matches(Index, p, listed, n)
  PROVE  Resolve(Index, n) = p
<1>1. CASE n = p
  BY <1>1, ResolvePerson DEF Primary
<1>2. CASE n \in DOMAIN Explicit /\ Explicit[n] = p
  <2>1. Index[n] = p /\ p # NoOne
    BY <1>2, IndexFacts, EngineAssumption DEF Raw
  <2> QED
    BY <2>1 DEF Resolve
<1>3. CASE n \in Linked(Index, p, listed)
  BY <1>3 DEF Linked
<1> QED
  BY <1>1, <1>2, <1>3 DEF Matches

\* The one offboarding that removes a seat is that of the person it resolves
\* to, whichever of their addresses names them.
LEMMA RemovedByOne ==
  ASSUME directory \in [Corporate -> DirectoryStatus], readable,
         NEW s \in People, NEW listed, NEW n \in Raw,
         SeatDecision(Index, directory, Mapped, listed, s, n) = "remove"
  PROVE  Primary(s) = Primary(Resolve(Index, n))
<1> DEFINE id == Resolve(Index, n)
           p == Primary(s)
<1>1. p \in People \ DOMAIN Explicit
  BY PrimaryFacts
<1>2. /\ Matches(Index, p, listed, n) \/ Matches(Index, p, listed, id)
      /\ SeatClass(Index, directory, Mapped, n) = "orphan"
  BY DEF SeatDecision
<1>3. id \in Raw
  BY IndexFacts, ResolveRaw
<1>4. id \notin Logins
  BY <1>2, UnclaimedLogin
<1>5. id \in People
  BY <1>3, <1>4 DEF Raw
<1> HIDE DEF id, p
<1>6. CASE Matches(Index, p, listed, n)
  <2>1. id = p
    BY <1>1, <1>6, MatchIsPrimary DEF id
  <2>2. Primary(p) = p
    BY <1>1 DEF Primary
  <2> QED
    BY <2>1, <2>2 DEF id, p
<1>7. CASE Matches(Index, p, listed, id)
  <2>1. Resolve(Index, id) = p
    BY <1>1, <1>3, <1>7, MatchIsPrimary
  <2>2. Resolve(Index, id) = Primary(id)
    BY <1>5, ResolvePerson
  <2> QED
    BY <2>1, <2>2 DEF id, p
<1> QED
  BY <1>2, <1>6, <1>7
-----------------------------------------------------------------------------
(* Whom a form may spell.                                                  *)

LEMMA AgainstOne ==
  ASSUME NEW claims, NEW form, NEW h \in claims[form]
  PROVE  matchAgainst(claims, form) \in {h, Nobody}
<1>1. CASE \E p \in claims[form] : claims[form] = {p}
  <2>1. claims[form] = {h}
    BY <1>1
  <2>2. (CHOOSE p \in claims[form] : TRUE) = h
    BY <2>1
  <2> QED
    BY <1>1, <2>2 DEF matchAgainst
<1>2. CASE ~\E p \in claims[form] : claims[form] = {p}
  BY <1>2 DEF matchAgainst
<1> QED
  BY <1>1, <1>2

LEMMA HandleOne ==
  ASSUME NEW claims, NEW forms, DOMAIN forms \subseteq Nat, NEW h,
         Spells(claims, forms, h)
  PROVE  matchHandle(claims, forms) \in {h, Nobody}
<1> DEFINE decisive ==
      {i \in DOMAIN forms : matchAgainst(claims, forms[i]) # Nobody}
           first == CHOOSE i \in decisive : \A j \in decisive : i <= j
<1>1. CASE decisive = {}
  BY <1>1 DEF matchHandle
<1>2. CASE decisive # {}
  <2>1. decisive \in SUBSET Nat
    OBVIOUS
  <2>2. \E i \in decisive : \A j \in decisive : i <= j
    <3> HIDE DEF decisive
    <3> QED
      BY <1>2, <2>1, LeastNatural
  <2>3. first \in decisive
    <3> HIDE DEF decisive
    <3> QED
      BY <2>2
  <2>4. first \in DOMAIN forms
    BY <2>3
  <2>5. matchHandle(claims, forms) = matchAgainst(claims, forms[first])
    BY <1>2 DEF matchHandle
  <2> HIDE DEF decisive, first
  <2>6. h \in claims[forms[first]]
    BY <2>4 DEF Spells
  <2> QED
    BY <2>5, <2>6, AgainstOne
<1> QED
  BY <1>1, <1>2
-----------------------------------------------------------------------------
(* What the audits conclude.                                               *)

\* What a listing knows of names.
NamingOK(c) ==
  /\ c.step \in {"org", "saml"} \cup ListingSteps => readable
  /\ c.step \in {"log", "events", "profiles"} =>
       c.known \subseteq {a \in Accounts : Saml[a] # NoOne}
  /\ c.step = "listed" => c.name \in [Accounts -> Raw]

NamesInv ==
  /\ directory \in [Corporate -> DirectoryStatus]
  /\ NamingOK(call)

LEMMA NamingElsewhere ==
  ASSUME NEW c, c.step \notin {"org", "saml"} \cup ListingSteps
  PROVE  NamingOK(c)
BY DEF NamingOK, ListingSteps

LEMMA AuditInitNames == AuditInit => NamesInv
<1> SUFFICES ASSUME AuditInit PROVE NamesInv
  OBVIOUS
<1>1. call.step = "idle"
  BY DEF AuditInit, GHInit, Idle
<1> QED
  BY <1>1, NamingElsewhere, AuditAssumption DEF AuditInit, NamesInv, ListingSteps

LEMMA ListingNames ==
  ASSUME AuditInv, NamingOK(call), UNCHANGED readable,
         \/ ReadOrg \/ FetchSAML \/ AuditDone \/ FetchEvents \/ Profiles
         \/ \E a \in Accounts : Ask(a) \/ Reply(a)
  PROVE  NamingOK(call)'
<1>1. CASE ReadOrg
  <2>1. call.step = "org" /\ call'.step \in {"saml", "failed"}
    BY <1>1 DEF ReadOrg, Failed, At
  <2> QED
    BY <2>1 DEF NamingOK, ListingSteps
<1>2. CASE FetchSAML
  <2>1. PICK known \in SUBSET {a \in Accounts : Saml[a] # NoOne} :
          call' = [step |-> "log", known |-> known, waiting |-> Accounts,
                   asking |-> {}, stamped |-> {}, failed |-> Accounts = {}]
    BY <1>2 DEF FetchSAML
  <2>2. call.step = "saml" /\ call'.step = "log" /\ call'.known = known
    BY <1>2, <2>1 DEF FetchSAML, At
  <2> QED
    BY <2>1, <2>2 DEF NamingOK
<1>3. CASE AuditDone
  <2>1. /\ call.step = "log" /\ call'.step \in {"profiles", "events"}
        /\ call'.known = call.known
    BY <1>3 DEF AuditDone, At
  <2> QED
    BY <2>1 DEF NamingOK, ListingSteps
<1>4. CASE FetchEvents
  <2>1. call.step = "events"
        /\ \E dated : call' = [call EXCEPT !.step = "profiles", !.stamped = dated]
    BY <1>4 DEF FetchEvents, At
  <2>2. DOMAIN call = {"step", "known", "reports", "stamped"}
    BY <2>1 DEF AuditInv, ListingOK
  <2>3. call'.step = "profiles" /\ call'.known = call.known
    BY <2>1, <2>2
  <2> QED
    BY <2>1, <2>3 DEF NamingOK, ListingSteps
<1>5. CASE Profiles
  <2>1. PICK looked \in SUBSET (Accounts \ call.known) :
          call' = [step |-> "listed", reports |-> call.reports,
                   stamped |-> call.stamped, known |-> call.known,
                   looked |-> looked,
                   name |-> [a \in Accounts |-> NameOf(a, call.known, looked)]]
    BY <1>5 DEF Profiles
  <2>2. call.step = "profiles" /\ call'.step = "listed"
        /\ call'.name = [a \in Accounts |-> NameOf(a, call.known, looked)]
    BY <1>5, <2>1 DEF Profiles, At
  <2>3. call.known \subseteq {a \in Accounts : Saml[a] # NoOne} /\ readable
    BY <2>2 DEF NamingOK, ListingSteps
  <2>4. \A a \in Accounts : NameOf(a, call.known, looked) \in Raw
    BY <2>3, GitHubAssumption DEF NameOf, Raw
  <2> QED
    BY <2>2, <2>3, <2>4 DEF NamingOK, ListingSteps
<1>6. ASSUME NEW a \in Accounts, Ask(a) \/ Reply(a) PROVE NamingOK(call)'
  <2>1. call.step = "log"
    BY <1>6 DEF Ask, Reply, At
  <2>2. DOMAIN call =
          {"step", "known", "waiting", "asking", "stamped", "failed"}
    BY <2>1 DEF AuditInv, ListingOK
  <2>3. \/ \E x, y : call' = [call EXCEPT !.waiting = x, !.asking = y]
        \/ \E x, y, z : call' = [call EXCEPT !.asking = x, !.stamped = y,
                                             !.failed = z]
    <3>1. CASE Ask(a)
      BY <3>1, Zenon DEF Ask
    <3>2. CASE Reply(a)
      <4>1. PICK entry \in {"dated", "undated", "none", "error"} :
              call' = [call EXCEPT
                !.asking = call.asking \ {a},
                !.stamped = IF entry = "dated" THEN call.stamped \cup {a}
                            ELSE call.stamped,
                !.failed = call.failed \/ entry = "error"]
        BY <3>2 DEF Reply
      <4> QED
        BY <4>1, Zenon
    <3> QED
      BY <1>6, <3>1, <3>2
  <2>4. call'.step = "log" /\ call'.known = call.known
    BY <2>1, <2>2, <2>3
  <2> QED
    BY <2>1, <2>4 DEF NamingOK, ListingSteps
<1> QED
  BY <1>1, <1>2, <1>3, <1>4, <1>5, <1>6

LEMMA AuditNextNames ==
  ASSUME AuditInv, NamesInv, [AuditNext]_auditVars
  PROVE  NamesInv'
<1>1. UNCHANGED <<directory, readable>>
  BY DEF AuditNext, auditVars, StartSeats, StartCredentials
<1>2. CASE UNCHANGED auditVars
  BY <1>2 DEF auditVars, ghVars, NamesInv, NamingOK
<1>3. CASE StartSeats \/ StartCredentials
  <2>1. readable \/ call'.step \in {"apps", "failed"}
    BY <1>3 DEF StartSeats, StartCredentials, Failed
  <2>2. call'.step \in {"org", "apps", "failed"}
    BY <1>3 DEF StartSeats, StartCredentials, Failed
  <2> QED
    BY <1>1, <2>1, <2>2 DEF NamesInv, NamingOK, ListingSteps
<1>4. CASE GHNext
  <2>1. CASE \/ ReadOrg \/ FetchSAML \/ AuditDone \/ FetchEvents \/ Profiles
             \/ \E a \in Accounts : Ask(a) \/ Reply(a)
    BY <1>1, <2>1, ListingNames DEF NamesInv
  <2>2. CASE ReadApps \/ ReadRepos \/ FetchOrgWebhooks
    <3>1. CASE ReadApps
      <4>1. call'.step = "failed" \/ call'.step = "repos"
        BY <3>1 DEF ReadApps, Failed
      <4> QED
        BY <1>1, <4>1 DEF NamesInv, NamingOK, ListingSteps
    <3>2. CASE ReadRepos
      <4>1. PICK read \in SUBSET Repos, broken \in BOOLEAN :
              call' = [step |-> IF read = {} THEN "org hooks" ELSE "keys",
                       named |-> call.named, found |-> call.found,
                       warned |-> broken, repos |-> read, left |-> read]
        BY <3>2 DEF ReadRepos
      <4>2. call'.step = "org hooks" \/ call'.step = "keys"
        BY <4>1
      <4> QED
        BY <1>1, <4>2 DEF NamesInv, NamingOK, ListingSteps
    <3>3. CASE FetchOrgWebhooks
      <4>1. PICK read \in BOOLEAN :
              call' = [step |-> "inventoried", named |-> call.named,
                       found |-> IF read THEN call.found \cup {OrgHooks}
                                 ELSE call.found,
                       warned |-> Warned(~read)]
        BY <3>3 DEF FetchOrgWebhooks
      <4>2. call'.step = "inventoried"
        BY <4>1
      <4> QED
        BY <1>1, <4>2 DEF NamesInv, NamingOK, ListingSteps
    <3> QED
      BY <2>2, <3>1, <3>2, <3>3
  <2>3. ASSUME NEW r \in Repos, FetchDeployKeys(r) \/ FetchRepoWebhooks(r)
        PROVE  NamesInv'
    <3>1. call.step \in {"keys", "hooks"} /\ DOMAIN call = InventoryFields
      BY <2>3 DEF FetchDeployKeys, FetchRepoWebhooks, ReadRepo, At, AuditInv,
         InventoryOK
    <3>2. call'.step \in {"keys", "hooks", "org hooks"}
      BY <2>3, <3>1, ReadRepoFacts DEF FetchDeployKeys, FetchRepoWebhooks
    <3> QED
      BY <1>1, <3>2 DEF NamesInv, NamingOK, ListingSteps
  <2> QED
    BY <1>4, <2>1, <2>2, <2>3 DEF GHNext
<1> QED
  BY <1>2, <1>3, <1>4 DEF AuditNext

THEOREM AuditNames == AuditSpec => []NamesInv
BY AuditInvariant, AuditInitNames, AuditNextNames, PTL DEF AuditSpec

\* Nothing has two owners: no seat is up for removal, and no credential that
\* someone authorised up for attestation or revocation, in the offboardings of
\* two people, for every directory, every set of aliases and whatever each call
\* of the listing made of a name.
THEOREM AuditOneOwner == AuditSpec => []OneOwner
<1>1. ASSUME NamesInv, At("listed") PROVE OneOwner
  <2> DEFINE listed == {call.name[a] : a \in Accounts}
  <2>1. /\ directory \in [Corporate -> DirectoryStatus] /\ readable
        /\ listed \subseteq Raw
    BY <1>1 DEF NamesInv, NamingOK, At, ListingSteps
  <2> HIDE DEF listed
  <2>2. ASSUME NEW n \in listed, NEW s \in People, NEW t \in People,
               SeatDecision(Index, directory, Mapped, listed, s, n) = "remove",
               SeatDecision(Index, directory, Mapped, listed, t, n) = "remove"
        PROVE  Primary(s) = Primary(t)
    BY <2>1, <2>2, RemovedByOne
  <2>3. ASSUME NEW c \in [by : Accounts, disabled : BOOLEAN],
               NEW s \in People, NEW t \in People,
               CredentialDecision(Index, directory, listed, s, c)
                 \in {"attest", "revoke"},
               CredentialDecision(Index, directory, listed, t, c)
                 \in {"attest", "revoke"}
        PROVE  Primary(s) = Primary(t)
    <3>1. c.by \in Raw /\ c.by # NoOne
      <4>1. c.by \in Accounts
        BY <2>3
      <4> QED
        BY <4>1, GitHubAssumption, EngineAssumption DEF Raw
    <3>2. ASSUME NEW p \in People,
                 CredentialDecision(Index, directory, listed, p, c)
                   \in {"attest", "revoke"}
          PROVE  Resolve(Index, c.by) = Primary(p)
      <4>1. Matches(Index, Primary(p), listed, c.by)
        <5> DEFINE ours == Matches(Index, Primary(p), listed, c.by)
                   class == CredentialClass(Index, directory, TRUE, c)
                   like == AmbiguousMatch(Index, Primary(p), listed, c.by)
        <5>1. CredentialDecision(Index, directory, listed, p, c) =
                CASE ours /\ class \in {"orphaned", "unowned"} -> "attest"
                  [] ours /\ class = "dormant" -> "revoke"
                  [] ~ours /\ like -> "review"
                  [] OTHER -> "nothing"
          BY <3>1 DEF CredentialDecision
        <5> HIDE DEF ours, class, like
        <5>2. ours
          BY <3>2, <5>1
        <5> QED
          BY <5>2 DEF ours
      <4> QED
        BY <2>1, <3>1, <4>1, PrimaryFacts, MatchIsPrimary
    <3> QED
      BY <2>3, <3>2
  <2> QED
    BY <2>2, <2>3 DEF OneOwner, listed
<1>2. NamesInv => OneOwner
  BY <1>1 DEF OneOwner
<1> QED
  BY <1>2, AuditNames, PTL

\* The verdict on a credential, from whom its author resolves to.
LEMMA CredentialClassFacts ==
  ASSUME NEW c, ~c.disabled, NEW author, author = Author(Index, c),
         author \in Raw \cup {NoOne}
  PROVE  LET class == CredentialClass(Index, directory, readable, c) IN
         /\ author \in Logins \cup {NoOne} => class = "unowned"
         /\ author \in People \ Corporate => class = "external"
         /\ author \in Corporate =>
              class = IF ~readable THEN "unowned"
                      ELSE IF directory[author] = "active" THEN "live"
                      ELSE "orphaned"
<1> DEFINE verdict == IF ~readable THEN "unowned"
                      ELSE IF directory[author] = "active" THEN "live"
                      ELSE "orphaned"
<1>1. CredentialClass(Index, directory, readable, c) =
        CASE c.disabled -> "dormant"
          [] ~c.disabled /\ author \notin People -> "unowned"
          [] ~c.disabled /\ author \in People \ Corporate -> "external"
          [] ~c.disabled /\ author \in Corporate -> verdict
  BY DEF CredentialClass
<1>2. /\ author \in Logins \cup {NoOne} => author \notin People
      /\ author \in Corporate => author \in People
  BY EngineAssumption DEF Raw
<1> HIDE DEF verdict
<1>3. CASE author \notin People
  BY <1>1, <1>2, <1>3
<1>4. CASE author \in People \ Corporate
  BY <1>1, <1>2, <1>4
<1>5. CASE author \in Corporate
  BY <1>1, <1>2, <1>5 DEF verdict
<1> QED
  BY <1>2, <1>3, <1>4, <1>5

\* The class of a seat, from whom its name resolves to.
LEMMA SeatClassFacts ==
  ASSUME NEW s, NEW id, id = Resolve(Index, s), id \in Raw
  PROVE  LET class == SeatClass(Index, directory, Mapped, s) IN
         /\ id \in Logins => class = "unresolved"
         /\ id \in People \ Corporate => class = "external"
         /\ id \in Corporate =>
              IF directory[id] = "active" THEN class \in {"managed", "unmapped"}
              ELSE class = "orphan"
<1>1. SeatClass(Index, directory, Mapped, s) =
        CASE id \in Logins -> "unresolved"
          [] id \in People \ Corporate -> "external"
          [] id \in Corporate /\ directory[id] # "active" -> "orphan"
          [] /\ id \in Corporate /\ directory[id] = "active"
             /\ id \in Mapped -> "managed"
          [] /\ id \in Corporate /\ directory[id] = "active"
             /\ id \notin Mapped -> "unmapped"
  BY DEF SeatClass
<1>2. CASE id \in Logins
  BY <1>1, <1>2, EngineAssumption
<1>3. CASE id \in People \ Corporate
  BY <1>1, <1>3, EngineAssumption
<1>4. CASE id \in Corporate
  BY <1>1, <1>4, EngineAssumption
<1> QED
  BY <1>2, <1>3, <1>4, EngineAssumption DEF Raw

\* The two audits agree: a credential is orphaned, live, external or unowned
\* exactly if a seat listed under its author's name would be an orphan, an
\* employee's, external or unresolved; and without a directory nobody is called
\* gone or employed.
THEOREM AuditAuthorAndSeatAgree == AuditSpec => []AuthorAndSeatAgree
<1>1. ASSUME NamesInv, NEW k \in Apps
      PROVE  LET c == CredentialOf(k)
                 class == CredentialClass(Index, directory, readable, c)
             IN /\ ~readable => class \in {"dormant", "unowned", "external"}
                /\ readable /\ c.by # NoOne /\ ~c.disabled =>
                     SeatClass(Index, directory, Mapped, c.by)
                       \in SeatClasses[class]
  <2> DEFINE c == CredentialOf(k)
             class == CredentialClass(Index, directory, readable, c)
             author == Author(Index, c)
  <2>1. c.by \in Raw \cup {NoOne} /\ c.disabled \in BOOLEAN
    BY GitHubAssumption DEF CredentialOf, Raw
  <2>2. IndexOK(Index)
    BY <1>1, IndexFacts DEF NamesInv
  <2>3. author \in Raw \cup {NoOne}
    BY <2>1, <2>2, ResolveRaw DEF Author
  <2>4. c.disabled => class = "dormant"
    BY DEF CredentialClass
  <2> HIDE DEF c, author
  <2>5. ~c.disabled =>
          /\ author \in Logins \cup {NoOne} => class = "unowned"
          /\ author \in People \ Corporate => class = "external"
          /\ author \in Corporate =>
               class = IF ~readable THEN "unowned"
                       ELSE IF directory[author] = "active" THEN "live"
                       ELSE "orphaned"
    BY <2>3, CredentialClassFacts DEF author
  <2>6. author \in Logins \cup {NoOne} \/ author \in People \ Corporate
          \/ author \in Corporate
    BY <2>3 DEF Raw
  <2> HIDE DEF class
  <2>7. ~readable => class \in {"dormant", "unowned", "external"}
    BY <2>1, <2>4, <2>5, <2>6
  <2>8. ASSUME readable, c.by # NoOne, ~c.disabled
        PROVE  SeatClass(Index, directory, Mapped, c.by) \in SeatClasses[class]
    <3>1. author = Resolve(Index, c.by) /\ author \in Raw
      BY <2>1, <2>2, <2>8, ResolveRaw DEF Author, author
    <3>2. LET seat == SeatClass(Index, directory, Mapped, c.by) IN
          /\ author \in Logins => seat = "unresolved"
          /\ author \in People \ Corporate => seat = "external"
          /\ author \in Corporate =>
               IF directory[author] = "active" THEN seat \in {"managed", "unmapped"}
               ELSE seat = "orphan"
      BY <3>1, SeatClassFacts
    <3>3. /\ SeatClasses["orphaned"] = {"orphan"}
          /\ SeatClasses["live"] = {"managed", "unmapped"}
          /\ SeatClasses["external"] = {"external"}
          /\ SeatClasses["unowned"] = {"unresolved"}
      BY DEF SeatClasses
    <3>4. author \in Logins \/ author \in People \ Corporate
            \/ author \in Corporate
      BY <3>1 DEF Raw
    <3> QED
      BY <2>5, <2>8, <3>2, <3>3, <3>4
  <2> QED
    BY <2>7, <2>8 DEF c, class
<1>2. NamesInv => AuthorAndSeatAgree
  BY <1>1, Zenon DEF AuthorAndSeatAgree
<1> QED
  BY <1>2, AuditNames, PTL

\* A match is one of the two, or nobody.
LEMMA OrOne ==
  ASSUME NEW h, NEW x \in {h, Nobody}, NEW y \in {h, Nobody}
  PROVE  Or(x, y) \in {h, Nobody}
BY DEF Or

\* Whichever people the forms may stand for, and whoever of them holds a seat:
\* if what the seat states may stand for the holder, the report of ghosts names
\* the holder or nobody; and so do the proposals if all of it may.
THEOREM AuditNobodyGuessed == AuditSpec => []NobodyGuessed
<1>1. ASSUME NamesInv, At("listed"), NEW a \in Accounts,
             NEW claims, NEW h,
             EvidenceOf(a).stated # NoForm => h \in claims[EvidenceOf(a).stated]
      PROVE  /\ (EvidenceOf(a).stated = NoForm
                   => /\ Spells(claims, EvidenceOf(a).handle, h)
                      /\ Spells(claims, EvidenceOf(a).login, h))
                => GhostMatch(claims, Active, EvidenceOf(a)) \in {h, Nobody}
             /\ Spells(claims, EvidenceOf(a).handle, h)
                => ProposedMatch(claims, EvidenceOf(a)) \in {h, Nobody}
  <2> DEFINE e == EvidenceOf(a)
             named == matchAgainst(claims, e.stated)
             handle == matchHandle(claims, e.handle)
             login == matchHandle(claims, e.login)
  <2>1. call.name[a] \in Raw /\ a \in Raw
    BY <1>1, GitHubAssumption DEF NamesInv, NamingOK, At, Raw
  <2>2. e.handle = FormsOf[call.name[a]] /\ e.login = FormsOf[a]
    BY DEF EvidenceOf, Evidence
  <2>3. DOMAIN e.handle \subseteq Nat /\ DOMAIN e.login \subseteq Nat
    BY <2>1, <2>2, AuditAssumption
  <2> HIDE DEF e
  <2>4. e.stated # NoForm => named \in {h, Nobody}
    BY <1>1, AgainstOne DEF e
  <2>5. Spells(claims, e.handle, h) => handle \in {h, Nobody}
    BY <2>3, HandleOne
  <2>6. Spells(claims, e.login, h) => login \in {h, Nobody}
    BY <2>3, HandleOne
  <2> HIDE DEF named, handle, login
  <2>7. ASSUME e.stated = NoForm => /\ Spells(claims, e.handle, h)
                                    /\ Spells(claims, e.login, h)
        PROVE  GhostMatch(claims, Active, e) \in {h, Nobody}
    <3> DEFINE match == IF e.stated # NoForm THEN named ELSE Or(handle, login)
    <3>1. match \in {h, Nobody}
      BY <2>4, <2>5, <2>6, <2>7, OrOne
    <3>2. GhostMatch(claims, Active, e) = Employed(Active, match)
      BY DEF GhostMatch, named, handle, login
    <3> QED
      BY <3>1, <3>2 DEF Employed
  <2>8. ASSUME Spells(claims, e.handle, h)
        PROVE  ProposedMatch(claims, e) \in {h, Nobody}
    <3> DEFINE first == IF e.stated = NoForm THEN Nobody ELSE named
    <3>1. first \in {h, Nobody} /\ handle \in {h, Nobody}
      BY <2>4, <2>5, <2>8
    <3>2. ProposedMatch(claims, e) = Or(first, handle)
      BY DEF ProposedMatch, named, handle
    <3> QED
      BY <3>1, <3>2, OrOne
  <2> QED
    BY <2>7, <2>8 DEF e
<1>2. NamesInv => NobodyGuessed
  BY <1>1 DEF NobodyGuessed
<1> QED
  BY <1>2, AuditNames, PTL
=============================================================================
