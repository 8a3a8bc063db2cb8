# Formal models of unseat

unseat compares what a directory (Google Workspace) says about people with the
seats they hold at some fifty SaaS providers, and takes seats away from those
who left. It has two ways of doing so: the **reconciler**, which plans and acts
on its own (with a grace period), and the **offboarding path**, which turns
findings into decisions that a human approves and `enforce` carries out.
Removing the wrong seat is the failure that matters; not removing one is the
second. This directory holds TLA+ models of both paths, the TLC runs that check
them on small instances, and proofs, checked by TLAPS, for all instances.

## 1. The system

| component | source | state | operations |
|---|---|---|---|
| Diff engine | `internal/core/engine.go`, `classify.go` | none | `BuildAliasIndex`, `resolveAlias`, `ClassifySeats`, `Reconcile` |
| Reconciler | `internal/sync/reconciler.go` | locals of a pass: directory, alias index, listed seats, plan | `Run`, `reconcileProvider`, `cancelReturnedUsers`, `executeActions`, `executeExpiredRemovals` |
| Commands that pass | `cli/sync.go`, `internal/sync/scheduler.go` | what was previewed and asked | `sync watch`, `sync plan`, `sync apply` |
| Store: countdowns | `internal/store/sqlite.go` | `pending_removals` | insert, cancel, read, read expired |
| Store: ledger | `internal/store/sqlite.go` | `decisions`, `decision_events` | upsert with merge, approve, reject, attest, mark executed, mark verified |
| Store: caches | `internal/store/sqlite.go` | `provider_users`, `sync_state`, `provider_credentials`, `credential_sync_state`, `billing_snapshots`, events, certificates | replace-all writes, reads for reports |
| Offboarding scan | `internal/offboarding`, `core/decision.go`, `identity.go`, `certificate.go`, `cli/offboard.go` | a certificate | collect, resolve the subject, build decisions, store, re-read, store the certificate |
| Enforcement | `internal/enforce/enforce.go` | none of its own | plan the approved decisions, apply one |
| HTTP client | `internal/provider/httpclient` | attempts of a request | send, retry, back off, walk a SCIM list |
| Connectors | `internal/provider/*` | none | list, add, remove or suspend users of one vendor |
| GitHub connector | `internal/provider/github` | none | the same, and an inventory of apps, deploy keys and webhooks |
| Scan and audits | `cli/scan.go`, `audit.go`, `credential_cache.go`, `core/credential.go`, `suggest.go`, `ghost.go` | what was read | list, judge, attribute, write the caches |
| Readers | `api/`, `api/mcp`, `cli/audit.go` | none | read one table or two, and format |
| Notifications, config, credentials file, OAuth | | | described in PROJECT.json |

**How they interact.** A pass reads every mapped group, builds the alias index,
reads the whole directory, and then, provider by provider, lists the seats,
reads the mapped groups again, computes the plan and carries it out: it cancels
countdowns of those who are no orphans any more, adds seats, starts countdowns
(or removes at once when there is no grace period) and executes the countdowns
that have expired. The watch daemon and `sync apply` are separate processes with
their own reads and their own policy; what they share is the SQLite file and the
providers. `offboard` upserts decisions into the ledger and stores a certificate;
humans and `enforce` move the decisions on; those are separate processes too, and
every ledger operation is one transaction of a store opened with a single writer.
Every read of a provider and every change of one goes through a connector, and
almost every connector through the HTTP client. Passes, `scan` and `audit
credentials` leave what they read in the caches, which the API, the MCP tools and
`audit inactive` answer from.

**What is hard.** A pass lasts minutes and acts on what it read at its start.
Between two calls anyone may leave, return, change group or be given a seat; time
passes; the process may be killed; any call may fail, and the code mostly logs
and goes on. The same table of countdowns is written by passes that had
different policies. In the ledger, a scan must retire a human's decision exactly
when the recommendation changes, over any sequence of scans. A removal is three
steps of `enforce`, and a scan, a rejection or another `enforce` may fall between
them. A list is only as whole as the vendor's pages, and whoever is missing from
it counts as somebody without a seat. The caches are written table by table.
PROJECT.json lists these hazards at their lines.

**What makes each part correct.**
- *Engine and reconciler*: only orphans lose a seat, whoever really uses it;
  exceptions hold against old countdowns; a dry run changes nothing; nobody loses
  a seat before the whole grace period; the period is not restarted by later
  passes; a countdown is not closed while the seat is there; in the end every
  departed person's seat is reclaimed and everyone granted one has one; and
  nothing happens that `sync apply` has not asked about.
- *Ledger*: nothing is executed without consent to the recommendation that
  stands; a decision stands as long as its recommendation and no longer; the
  row names those who took it; the events tell the whole story.
- *Offboarding and enforcement*: a seat is removed only with consent and for a
  reason that was once true; what is marked as done was done; a certificate calls
  complete only what somebody judged.
- *Client and connectors*: a change is carried out at most once, and on the
  account that was named; a list is whole if the vendor keeps to what that
  connector counts on; what was removed does not list as in use; every call ends.
- *Caches*: an answer is made of one whole read, and a state that says "read"
  stands beside what was read.
- *Attribution*: what was not asked is not called idle; two audits that read the
  same agree; nobody is named by guessing; nothing has two owners.

## 2. Modules

| module | models | of the code |
|---|---|---|
| `Engine` | pure operators: `BuildAliasIndex`, `Resolve`, `SeatClass`, `ToAdd`, `ToRemove` | `engine.go`, `classify.go` |
| `Reconciler` (extends `Engine`) | the passes of any number of processes, the countdowns, the world | `reconciler.go`, the countdown queries of `sqlite.go` |
| `SyncApply` (extends `Reconciler`) | the commands that make passes | `cli/sync.go`, `scheduler.go` |
| `DecisionLedger` | the ledger's operations, one action per transaction | `sqlite.go` |
| `Consent` | the abstract promise of the ledger | |
| `Offboarding` (extends `DecisionLedger`) | `offboard` and `enforce apply`, the people and the seats they are about | `internal/offboarding`, `decision.go`, `certificate.go`, `cli/offboard.go`, `enforce.go` |
| `HttpClient` | one call of the shared client | `httpclient/client.go` |
| `Connectors` | the catalogue: one record of traits per connector | `internal/provider/*`, `factory.go` |
| `Connector` (extends the two) | listing, removing, adding against a vendor | the same, `httpclient/scim.go` |
| `SeatCache` | the tables that hold what was read, their writers and their readers | `sqlite.go`, `reconciler.go`, `cli/scan.go`, `credential_cache.go`, `cli/audit.go`, the handlers of `api/` |
| `GitHub` (extends `Engine`) | `ListUsers` and `ListCredentialInventory`, call by call | `internal/provider/github` |
| `Identity` (extends `Engine`) | pure operators: the class of a credential, the identity of a subject, what an offboarding decides of a seat or a credential | `credential.go`, `identity.go`, `decision.go` |
| `Attribution` | pure operators: whom a name or a handle stands for | `suggest.go`, `ghost.go` |
| `Audit` (extends the three) | the two audits of one GitHub organisation | `cli/audit.go` |
| `ReconcilerProofs`, `DecisionLedgerProofs`, `OffboardingProofs`, `SyncApplyProofs`, `ConnectorProofs`, `SeatCacheProofs`, `AuditProofs` | theorems, each about the module it is named after | |
| `NaturalFacts` | lemmas: a set of naturals has a least number, a bounded one a greatest, induction over a set, and triples of naturals do not descend for ever | |
| `MCReconciler`, `MCSyncApply`, `MCDecisionLedger`, `MCOffboarding`, `MCConnector`, `MCSeatCache`, `MCAudit` | instances for TLC | |

### Engine and Reconciler

*Data.* A person is their lower-cased address, a login a provider user name
without `@`. `Explicit` is the `aliases:` section turned around (alias to
canonical address; chains of aliases are excluded, since what they resolve to
depends on the iteration order of a Go map). `LocalPart` and `Squash` stand for
the part before `@` and for `squashSeparators`. `Holder` says who really uses a
seat; the code cannot read it, only properties do.

*State.* `directory`, `members` and `seats` are the identity source and the
providers. `run[r]` holds the locals of the pass process `r` is making, with
`pc` naming its place in the code. `pending[p][h]` is a row of
`pending_removals`, kept as the ticks left before `expires_at`: expiry is only
ever compared with the clock. No row and a cancelled row are the same value,
because every query filters `cancelled = FALSE` and inserting over a cancelled
row starts it afresh. `age` is a history variable: for how long the countdown of
the same departure has been known to the store. It starts with the row, ends
when a pass plans and does not find the identity an orphan, or when its seats
are reclaimed, and is never read by an action.

*Actions.* One per external call of a pass, in the order of the code:
`StartRun`, `ReadGroupForAliases` (a failing group is skipped), `ReadDirectory`
(a failure abandons the pass), `ListSeats` and `ReadGroupForDesired` (a failure
abandons the provider, and the pass goes on: `Abandon`), `Decide` (the plan and the read of the pending rows),
`CancelReturned`, `AddSeat`, `QueueRemoval` or `RemoveNow`, `ReadExpired`,
`Reclaim` then `CloseReclaimed`, or `CloseGone`, `FinishProvider`, `FinishRun`.
`Crash` ends a pass anywhere. The world moves by `ChangeStatus`,
`ChangeMembership`, `ChangeSeat` and `Tick`. A call named in `Faults` may fail
each time it is made, and a provider in `Down` can never be listed; a removal of a seat that is not there fails as the
connectors' does. Iteration over Go maps (providers, groups) has no order in the
model either; plans and rows are worked off in any order, which covers the
sorted one of the code.

*Left out*: roles and their update, events, notifications, the seat cache and
`sync_state` (a pass writes them and never reads them; see `SeatCache`).

### SyncApply

`cmd[r]` is the command process `r` runs: `watch` passes again whenever a pass is
over (`WatchAgain`), `plan` makes one dry pass, `apply` makes a dry pass (stage
`preview`), collects what it plans, stops when that is nothing, and otherwise
asks (`asked`) and makes a second pass on `Confirm`. The passes are `Reconciler`'s
actions, begun under the policy the command was started with; `Interrupt` ends a
command anywhere. `since` is a history variable: for how long every pass that
planned has found an identity gone. The second pass of `apply` makes its own
reads and may do something that was not shown (`sync.go:80`); what is shown
counts additions even for providers that cannot add.

### DecisionLedger and Consent

A recommendation (`Recs`) stands for all the fields that
`decisionRecommendationHash` covers; `mark` is what the ledger itself writes into
the metadata, which that hash covers too. A row's status `absent` is no row.
`UpsertDecisions(batch)` is the whole transaction: merge, hash of the row kept,
store, event. Operations whose guard fails return an error and change nothing;
they are no action. `trail[d]` is the last event of a decision. `verdict` and
`seen` are history: the last word of a human and the last observation of a scan.
A batch names a decision once; a row older than the hash column, for which the
code recomputes the hash, is left out. `MarkDecisionVerified` has no caller in
the program and is modelled because the store offers it.

`Consent` says what all this is for, with two variables: a decision is open,
agreed, refused or done about a recommendation; it is done only from agreed
(or by attesting an owner); and what was agreed or refused is reopened only by
another recommendation. `DecisionLedger` implements it under the mapping that
forgets hashes, marks and names (`KeepsPromise`). The one exception it makes, that
an attested decision may be reopened by the same recommendation, is there because
the code does it (`AttestationStands`, section 6).

### Offboarding

Every subject has one seat at one provider, whose identifier resolves to the
subject; whose a seat is in general is the business of `Identity`. `person`
says how the owner stands (granted the seat by a mapped group, employed without
one, suspended, gone), `held` whether the seat is held; `Stand` and `Hand` change
them between any two calls. A command of `proc` reads the directory, the groups
(a failing one counts as empty) and the seats (or fails to), computes the class
and the batch of decisions, and makes the three store calls of
`persistOffboardingResult`: `Persist`, `Hydrate`, `Store`. `enforce apply` reads
an approved decision that the provider can carry out (`StartApply`), calls
`RemoveUser`, whose answer may be lost, and marks the decision (`MarkExecuted`),
which the ledger refuses when it is approved no more. `Abandon` is a failing call
or a kill, at any step. `CertificateStatus` is the code's order of cases. `been`,
`found`, `removed` and the `consent` a command carries are history. Ids of the
ledger are pairs of a seat and what to do about it, recommendations the reasons
`BuildDecisions` gives. *Left out*: evidence, billing claims, verification, the
printed certificate.

### HttpClient, Connectors, Connector

`HttpClient` is one call of `Do`, the client that every connector but Google's
shares: `sent`, perhaps `waiting` for another attempt,
`answered`. `Succeed`, `Undecodable`, `Refuse`, `Limit` (429), `Break` (5xx, a
broken connection, the client's timeout) and `Cancel` are what can come of an
attempt; of a break nobody knows whether the vendor `carried` the request out,
and `acted` counts how often it did. The length of a wait is not modelled.
Assumed of every vendor: what is answered 2xx was carried out, and what is
answered 4xx was not. The client looks at the status of a change only, so a 200
whose body says otherwise (`success: false` of Linear's mutation, bodies that
`DoJSON` is not asked to decode) passes for done in the code, and is left out of
the model.

`Connectors` says of each connector, in one record, what tells it apart: whether it
sends through the shared client or, as Google does, through the vendor's own
library (`client`; a library neither sends a request again, `Again`, nor ends a
wait of itself); how the
next page is asked for and what ends the walk, whether the list is read with GET,
which accounts it shows and what it reports of each status, what stands for an
account without a visible address, how `RemoveUser` finds the seat (by crawling
the list, by a filtered request with the crawl to fall back on, directly, or
never) and what it asks for. `Connector` gives the traits their meaning: one
operation at a time, a request at a time, a vendor whose accounts change
meanwhile. `breaches` are the ways a vendor may not do what the walks count on:
`capped` serves shorter pages than asked, `untold` states no total, `stalled` may
answer an empty page early, `moved` changes its accounts during the walk.
*Left out*: roles and `SetRole`, which nothing calls; display names, except in
`Audit`; the two reads of HubSpot as one; Okta's, Salesforce's and Azure's choice
among several accounts with one address (an address is one account's here).

### SeatCache

One provider. A writer is a pass, a `scan` or `audit credentials`; its calls are
the reads (`ListUsers`, `Inspect`, `FetchBilling`) and then the writes in the
order of the code, each of which may fail, with what the code does after a
failure: a pass goes on without the list, a scan stops. A table holds its rows
and, as history, the read last stored in it, so that properties can ask whether
the rows are one read. `ListUsers` returns any set of accounts; classes,
amounts and line items are left out. A reader takes two steps where the answer
needs two tables.

### GitHub, Identity, Attribution, Audit

`GitHub` is the listing in the order of its calls: the organisation (a failure
fails the listing), SSO identities (an error keeps what was read), the audit log
asked login by login by goroutines that share `Slots` tickets (`Ask`, `Reply`;
once one has failed the others give up), the public events instead, the profiles;
and the inventory: apps and who installed them, repositories, deploy keys and
hooks of each, hooks of the organisation. `Identity` and `Attribution` are the
pure functions that judge what was listed. How a form (a name, a handle stripped
of its decorations) may spell a person is left open: `claims` gives each form any
set of people, and `NobodyGuessed` quantifies over all of them. `Audit` composes:
a directory, perhaps none for credentials, then the calls, then the verdicts.

## 3. Runs

| run | instance | shows |
|---|---|---|
| `recon_safe` | one process, one provider, eve's seat listed as a login with an explicit alias; three policies (live, dry run, eve excepted) that change between passes; grace of 2 ticks; every read, the insert and the additions may fail; eve leaves, returns, changes group, is given the seat by hand | the whole removal path: nobody but the departed, exceptions, dry run, full grace, no reset |
| `recon_crash` | two providers with a group each, one where removing suspends and adding works; eve, who leaves, is in the group of the first, ann in that of the other, and they share a local part, by which ann's seat at the first is listed; crashes anywhere; list, remove, close and add may fail; grace of 1 tick, immediate removal, or an exception on one provider only | a crash or a failing call never costs an employee a seat, nor does a namesake's departure, and countdowns of one provider do not leak to the other |
| `recon_live` | one process under fairness; a second provider that can never be listed; a moving group; the removal, the read of the pending rows, the cancelling and the closing of a row fail now and then | seats of the departed are reclaimed and the granted are provisioned, whatever becomes of the other provider; a row that outlived its seat is closed as gone only when the seat is |
| `sync_apply` | the daemon (r1) beside `plan` and `apply` (r2) on one table of countdowns, live, dry or with an exception, interrupted anywhere; the directory may fail | each process removes only what its own reads and policy justify, and nothing happens unasked |
| `ledger` | an ordinary decision and an owner attestation, three recommendations of which one cannot be carried out, two humans | the ledger's invariants, its audit trail, consent, and the refinement of `Consent` |
| `offboarding` | one subject, two processes that each may scan, certify or enforce, one human, three changes of the world, two scans | removal only on consent, marks only of what was removed, certificates |
| `connectors` | every connector of the catalogue, three accounts, pages of two, two pages at most, one retry, two operations, one change of an account, a vendor with no breach, with each, or with short pages and no total | which promise of the vendor each walk rests on, at-most-once changes, termination of what goes through the shared client |
| `cache` | a pass, two scans, a credential audit, of which two start, and one reader | answers are made of whole reads |
| `audit` | three accounts, two apps, two repositories, two tickets, every directory status of one person, every call that may fail | the listing and the verdicts |
| `v_cancel_error`, `v_kept_countdown`, `v_false_clean` | the smallest instance that shows it | places where the code does what its documentation says it does not; see section 6 |

*Why these bounds are enough.* Every property of the reconciler speaks of one
identity, one provider and one or two processes, and the actions touch one of
each; two people (one who leaves, one who stays) distinguish the identity acted
on from any other, two providers distinguish the row and the seat of another
provider, and two processes give every interleaving of two passes over one row. A
grace of two ticks has a state before expiry, one at the last tick and one at
expiry, so that a restarted or prolonged countdown shows. The countdown and its
age are the only counters: both are capped by `MaxGrace`, at which `age` already
satisfies every comparison made with it. For the ledger, decisions do not interact
except through a batch, for which two suffice, and three recommendations give a
change and a change back.
- `offboarding`: the subjects do not interact, so one is enough. `MaxChanges = 3`
  lets the owner leave, return and leave again, or the seat be taken and given
  back around a return; `MaxScans = 2` lets a second scan see what changed.
- `connectors`: three accounts over pages of two make a full page and a short
  one, and, when the vendor serves one at a time, more pages than `ListSCIM`
  accepts; `Hidden` makes one account nameless; two operations let a listing
  follow a removal; one retry gives every sequence of two outcomes.
- `cache`: two commands at once are every pair of writers; the rows are compared
  as a whole, so one account and one credential (there or not) tell two reads
  apart.
- `audit`: two tickets for three logins make a login wait while two are asked;
  two repositories let one answer after the other has failed.

- `recon_live`: a row outlives its seat when the removal was carried out and the
  row could not be closed, or could not be cancelled on a return; `CloseGone` then
  fires in states of the run that no mutant made.

The proofs of section 5 need none of these bounds.

`SlowRuns = FALSE` in `sync_apply` keeps ticks between passes: with two processes
a tick is longer than a pass, as a grace period of days is longer than a pass of
minutes. Nothing in the code ensures it, and with ticks inside passes
`OnlyTheDeparted` and `ExceptionsKept` fail: one process starts a countdown from
an older read or under another policy after the other has done its cancelling,
and if the whole grace period then elapses within that other pass, it executes
the row. The theorems make the same assumption explicit. The runs with one process
allow ticks anywhere. `PassFails = FALSE` in `cache` is what `v_false_clean` shows
to be needed.

*Deadlock* is checked wherever something can always move: in the runs of the
reconciler, of `SyncApply` and of the ledger. In `connectors`, `offboarding`,
`cache`, `v_false_clean` and `audit` the commands end and the bounded number of
them runs out, so `CHECK_DEADLOCK FALSE`.

*Fairness of the reconciler* (`FairSpec`). `WF(Pass(r))`: a process that can make a
step makes one; the scheduler starts a pass at every interval and a pass has no
wait but its calls. That every call is answered is an assumption: the shared
client and the store see to it, Google's library, through which the directory and
the groups are read, sets no timeout of its own. `SF(Tick)`: time passes, although
a pass need not leave room for it. `SF` of an effective `Reclaim`: a provider asked
for a removal again and again does not refuse for ever. No fairness is given to
crashes, to the world or to the success of any other call.

*Fairness of the connectors* (`FairSpec`). `WF` of `Answer` over the shared client: an
attempt ends, with an answer or by the client's own timeout; `WF(Pause)`: the
backoff is bounded and ends; `WF(Proceed)`: the process runs on. Nothing says that
an answer is a good one, nor that anybody starts an operation. Nothing at all is
assumed of an attempt by Google's library, and `Terminates` speaks of the shared
client only: where the vendor does not answer, nothing in the code ends the wait.

## 4. Properties

*Reconciler.* `OnlyTheDeparted`, `EmployeesKept`, `ExceptionsKept`,
`DryRunHarmless`, `FullGrace` and `ClosedMeansGone` are action properties: they
speak of the step that takes a seat or closes a row, and relate it to what the
same pass read earlier, to its policy and to the history of the countdown.
`EmployeesKept` is about whoever really uses the seat: in `recon_crash` the index
of all mapped groups makes ann's login nobody's, where the index of one provider's
groups would attribute it to eve. `NeverReset` relates what is left of a countdown
to its age. `Reclaimed` and `Provisioned` are liveness, of the providers that can be
listed. `NothingUnasked` says of `sync plan` and `apply` that
no step of theirs changes a provider or a countdown before a human has said yes
to a plan that was not empty.

*Ledger.* `Attributed`, `Current`, `Audited` and `ExecutedOnConsent` relate the
row to what humans and scans said before; `KeepsPromise` is the refinement of
`Consent`.

*Offboarding.* `RemovedOnConsent`: the step that removes a seat belongs to a
command which, when it read the decision, had a human's yes to a reason that was
true of the owner at some time. `ExecutedIsRemoved`: what the ledger calls
executed was removed by enforcement. `CompleteIsJudged`: a certificate says
complete only if the provider was read and a removal found due was judged.

*Connectors.* (`RemovalShows` leaves out Intercom, whose removal marks the user as
away.) `Complete` states for each way of walking which breaches of the
vendor it survives (`Reliable`) and that the list is then whole; `CarriedOnce`
that a change is carried out at most once whatever is retried, and exactly once
when reported done; `OnlyTheNamed` that only the account with the address to
remove is touched; `RemovalShows` that a removed seat is not listed as in use;
`Terminates` that every operation over the shared client ends unless a vendor stalls a walk that stops
only when told to.

*Caches.* `InactiveComputed`: an answer about inactivity comes from one whole
list. `InventoryBacked`: a state "read" stands beside a whole inventory.
`LatestAdvances`: a late scan does not bring an older invoice back.

*Audit.* `IdleIsProven`: nobody looks idle because a query failed or was never
made. `WarnedOrWhole`: an inventory without a warning is whole.
`AuthorAndSeatAgree`: a credential and a seat of the same person get the same
verdict. `NobodyGuessed`: if what a seat states may stand for its holder, the
reports name the holder or nobody. `OneOwner`: no seat is up for removal, and no
authorised credential up for attestation or revocation, in the offboardings of
two people.

Every property has a mutant in PROJECT.json, a plausible slip in a modelled
definition, that makes it fail under its run's configuration.

## 5. Proofs

Every safety property of the runs, invariant or action property, is a theorem
about every value of the constants. The assumptions are those of the modules
(`ReconcilerAssumption` and so on, which TLC evaluates in every run), and, where
a theorem says so, a *setting* that names what the code needs and does not itself
ensure.

### Reconciler and SyncApply

| theorem | states | setting |
|---|---|---|
| `TypeCorrect`, `DryRunsHarmless`, `ListedCorrect` | `TypeOK`, `DryRunHarmless`, `ListedInv` | any |
| `PlansSound`, `OnlyOrphansRemoved` | `IInv`, `OnlyTheDeparted` | `SafeSetting` |
| `ExceptionsHonoured` | `ExceptionsKept` | `SafeSetting`, exceptions in lower case (`LowerCased = People`) |
| `IndexKnowsResidents` | `KnownInv` | any |
| `EmployeesKeepSeats` | `EmployeesKept` | `SafeSetting`, `NamesTell` |
| `CountdownsWhole`, `GraceIsWhole` | `CountInv`, `FullGrace` | `CountSetting` |
| `CountdownsNeverReset` | `NeverReset` | `RowSetting` |
| `CountdownsClosedWhenGone` | `ClosedMeansGone` | `NamedSeats` |
| `CountdownsOfThoseAtRisk`, `TakesOnlyFromThoseAtRisk` | `RiskInv`, `OnlyThoseAtRisk` | any |
| `WhoeverStaysKeepsSeats` | `UsersAtRisk` | `NamesTell`, no explicit alias is a corporate address |
| `PassesAdvance`, `PassesAreFinite` | `EveryStepShortens`; what shortens does so finitely often | finite sets (`Finite`) |
| `SyncNothingUnasked` | `NothingUnasked` | any |
| `SyncRefines` | `SyncSpec => Spec` | processes may be killed |
| `SyncOnlyOrphansRemoved`, `SyncExceptionsHonoured`, `SyncEmployeesKeepSeats`, `SyncTakesOnlyFromThoseAtRisk` | `OnlyTheDeparted`, `ExceptionsKept`, `EmployeesKept`, `OnlyThoseAtRisk` of the commands | as above |

- `SafeSetting`: reading the pending rows and cancelling one do not fail
  (otherwise see `v_cancel_error`); no tick falls inside a pass unless there is a
  single process; no explicit alias is itself a corporate address.
- `NamesTell`: an explicit alias and an address belong to the person they stand
  for. A login that is somebody's local part belongs to them, unless somebody else
  goes by it who is a resident: stays in a mapped group, no reading of which fails
  for the index. Without it the seat of a namesake whom the index does not know is
  taken (section 6).
- `CountSetting`: `SafeSetting`, one process, one length of grace, no crash, and
  rows are closed when they should be. Section 6 shows what a crash does.
- `RowSetting`: one process, no refused removal, at most one seat per identity and
  provider, and `NamedSeats`: providers name seats by address or explicit alias.

*Only orphans.* `OnlyTheDeparted` is not inductive: a removal at expiry is
justified by a row, the row by an earlier pass under another policy. `IInv` says
that, once the plan of a pass is made, every countdown of its provider that could
still expire in this pass is either about to be cancelled or of an identity the
pass may remove; that every planned seat is of such an identity; and that every
row read as expired is. The step proof follows the phases of a pass (`DecideInv`,
`ApplyInv`, `ExpireInv`); `PassKeepsCountdowns` says what the steps of others can do
to a row, `WorldInv` that neither the world nor the clock invalidates a plan.
`KnownInv` says that a pass which has read the directory knows every resident
(`Residents`), so a login that a resident shares is ambiguous to it; `IdentityTells`
adds that under `NamesTell` the identity of a seat is then its user, or nobody,
whence `EmployeesKept`. The instance of `recon_crash` satisfies both settings.

*Who is at risk.* `SafeSetting` is there for a reason: without it somebody who has
come back can lose a seat to a stale countdown (`v_cancel_error`, and two processes
with a tick inside a pass). `RiskInv` says what holds all the same, in any setting,
with any number of processes that fail and are killed anywhere and a clock that
ticks whenever it likes: every countdown that runs, everything a pass plans to
remove and every row it has read as expired is of somebody in `AtRisk(p)`, those who
may leave (`Leavers`) and whom some policy that is not dry does not except in lower
case. So an error costs at worst a seat of somebody who was once gone; an employee
who never leaves, and whoever every policy excepts, is safe from all of them. The
inductive step needs that a pass reads the directory as it is (`ReadsDirectory`) and
that its plan is within the risk if its reading is (`PlanAtRisk`).

*A pass ends.* The measure of a pass is lexicographic: the providers it has before
it, the phase of the one at hand, and the groups, seats or rows this phase has left
(`ProvidersAhead`, `Phase`, `Items`). `PassesAdvance` says that every step of a pass
makes it shorter, whatever fails, and that nobody else's step makes it longer;
`PassesAreFinite` that nothing can be made shorter for ever (`NoDescent`, of triples
of naturals). This is the part of termination that belongs to the code; that a pass
is scheduled at all is fairness, which `Reclaimed` and `Provisioned` assume and TLC
checks.

*Countdowns.* `CountInv` says of each row that what is left of it and what has
passed of it make up at least the grace period; a row without a history is one
that the pass in hand is about to cancel. `RowInv` is its counterpart: the two
together never exceed `MaxGrace`, because a row and its history start and end
together. In both, most of the work is that cancelling comes before everything
else a pass does to the rows.

*Commands.* `SyncInv` says that a pass of `sync plan` and the preview of `sync
apply` are dry, and that a command which is past its preview has shown a plan that
was not empty; with `PassPhase` (a pass that goes on keeps its policy, only
`Decide` lets it act, and it changes nothing before), a step that changes a seat or
a countdown belongs to a pass that is not dry, hence to one a human has agreed to.
`SyncRefines` maps `Interrupt` to `Crash` and every other step of a command to a
step of its pass or to a stutter.

### DecisionLedger and Offboarding

`DecisionLedgerProofs` proves `LedgerTypeCorrect`, `LedgerCurrent`,
`LedgerAttributed`, `LedgerAudited`, `LedgerExecutesOnConsent`, and
`LedgerKeepsPromise`, that the ledger implements `Consent`. The invariant adds to
the checked ones that the stored hash is that of the row's recommendation except
for marks (`HashOK`): without it nothing follows from the equality of two hashes.
`MergeKeeps` (a merge keeps a row within the invariant) and `MergeReopens` (what a
merge does to the phase) carry the argument; every other operation writes one row
(`WriteInv`, `WritePhase`).

`OffboardingProofs` proves `OffboardingTypeCorrect`, `OffboardingExecutedIsRemoved`
and `OffboardingRemovesOnConsent`, and by `OffboardingUsesLedger` that every step of
the commands is an operation of the ledger with a legal batch or leaves it alone;
with `LedgerKeepsPromise` it follows that the commands implement `Consent`
(`OffboardingKeepsPromise`). `OffInv` is the ledger's invariant, and in addition:
what a command has read of an owner was true at some time (`ProcsOK`), every
removal the ledger recommends, and every consent a human gave to one, has a reason
that was true at some time (`Reasoned`), and a command about to mark has removed.
Neither property is inductive without them: a removal is justified by a decision,
the decision by a scan that may be long over. `OffboardingCompleteIsJudged` rests
on `CertInv`: a row is judged or stale only after a human has spoken of it
(`JudgedHeard`; a scan makes only a judged row stale, `StaleWasJudged`), the row a
scan has recorded is still there when the certificate is computed, whatever the
other commands have made of it since, and what a scan is about to store is already
true.

### Connector

`ConnectorProofs` proves, for every connector of the catalogue, any accounts, page
sizes, retries and vendors:

- `ConnectorTypeCorrect`. That the records of all 54 connectors are well formed is a
  lemma of its own, `CatalogTraits`.
- `ConnectorCarriesOnce` and `ConnectorTouchesOnlyTheNamed`. `ConnInv` says of the
  client that a change that may still be sent again was never carried out (so a
  retry cannot repeat it) and of the operation that the seat in hand, once the
  list is read, is the one whose address was to be removed, because every entry
  of a page names the address of its account or something that is no address.
- `ConnectorRemovalShows`. `ListingInvariant` adds that a seat whose removal was
  reported is gone or disabled (`ShowsInv`), that an answer is kept only until it
  is taken in (`AnswerInv`), and that what was read of such a seat calls it
  suspended.
- `ConnectorComplete`: a listing without an error names everybody who was there all
  along, and `RemoveUser` finds whoever was, wherever the vendor is `Reliable` for
  that way of walking. `WalkInvariant` says that whoever was there all along has
  been read, is on the page in hand (`PageInv`), or lies ahead (`ReadInv`); for a
  cursor ahead means after the last account read, for an offset that the first so
  many accounts have been read, which holds only while the accounts do not move
  and the offset counts what was served. When the walk ends well nobody is left
  ahead (`DoneInv`): one case for each of the ways to stop (`WalkOver`,
  `OffsetWalkOver`). The rank of an account in the list and its lemmas
  (`ForemostFull`, `ForemostNext`) turn a number of accounts into a set of them.

- `ConnectorListsWhatIsThere`: if, besides, no account changes meanwhile, the list
  names exactly the accounts the vendor shows, each in the status the connector
  tells. This is what `Reconciler` takes a listing to be (`ListSeats` reads `seats[p]`
  as it is), so the theorem says when that abstraction is one. `TrueInv` adds to
  `WalkInv` that everything read so far, or on the page in hand, is still so.
- `ConnectorAdvances`: unless a vendor stalls a walk that only stops when told to
  (`Patient`), every step of an operation leaves it less to do: looking for the seat,
  reading the list or changing the account; then the places of the list still ahead;
  then the tries of the request. Accounts that come and go meanwhile give it no more.
  The lemma that carries it, `FurtherOn`, goes through every way of walking in the
  catalogue: a walk that goes on asks for a later place, and for none behind the last
  account. It needs that the page in hand leads on from where it was asked for
  (`LeadsInv`), that a walk which counts what was returned stands where it has counted
  to (`CountInv`), and that the tries are counted (`TriesInv`).

### SeatCache

`CacheTypeCorrect`, `CacheInventoryBacked`, `CacheLatestAdvances`, and, if no pass
fails to store its list (`~PassFails`), `CacheInactiveComputed`. `CacheInv` says that
every table holds one whole read or none and that a command which is about to date
a table, and a reader that was told it was dated, has a stored table before it;
what is stored is never unstored (`StoredKeeps`). `CacheShapes` adds that every
invoice, stored or in hand, carries a stamp already given; what `ORDER BY
fetched_at DESC` shows is then a greatest stamp (`LatestIsLatest`), which another
stored invoice can only raise.

### Audit

For any accounts, tickets, apps, repositories, directory and aliases.
`AuditIdleIsProven` and `AuditWarnedOrWhole` rest on `AuditInv`: unless a query has
failed, a login that is neither waiting nor asked is answered for, and, as long as
there is no warning, everything the calls so far could find was found.
`AuditOneOwner` rests on the alias index: whomever an offboarding matches with a
name is whom the name resolves to (`IndexFacts`, `MatchIsPrimary`), so two subjects
who would both lose it have one primary address (`RemovedByOne`); it needs of the
listing only that each account got some name (`NamesInv`).
`AuditAuthorAndSeatAgree` goes through the cases of the two functions that judge
(`CredentialClassFacts`, `SeatClassFacts`). `AuditNobodyGuessed` holds because a form
is decisive only if a single person claims it (`AgainstOne`, `HandleOne`).

### What the proofs found

- `RemovalShows` failed where the model forgot a seat's removal only when a later
  addition was *reported* done. An addition that was carried out and whose answer
  is lost gives the seat back too. TLC confirms it with three operations
  (`MaxCalls = 3`: remove, add with a lost answer, list), one more than the run
  `connectors` allows. `settled` now forgets the seat as soon as the addition is
  carried out.
- `ConnectorAssumption` now says that a walk may ask for one page at least
  (`maxSCIMPages` is 1000) and what the vendors may do; `CacheAssumption` that the
  accounts are finitely many.
- A TLA+ `CASE` whose guards overlap may take either branch; TLC takes the first.
  Where a definition counted on the order of a Go `switch`, the guards now exclude
  each other.

### What is only model-checked

The liveness properties `Reclaimed`, `Provisioned` and `Terminates`: fairness and
ENABLED are out of the prover's reach. What is proved towards them is that a pass,
and an operation of a connector, makes only finitely many steps (`PassesAdvance`,
`ConnectorAdvances`, `NoDescent`). The definitions of section 6 that fail are refuted
by TLC, and nothing is proved of them. The library's induction theorems take an
operator as a parameter and cannot be instantiated; `NaturalFacts` derives what is
needed for sets instead, from the well-foundedness of `<`.

## 6. Where the code and its documentation part

Three have a run whose counterexample is a behaviour of the code.

- `v_cancel_error`: a failing cancellation is logged, and the same pass executes
  the countdown of someone it has just found active.
- `v_kept_countdown`: `sync apply` ends when its preview is empty, and a preview
  cancels nothing. Where only `sync apply` is used, the countdown of someone who
  returned is never cancelled, and when they leave again they get no grace period.
- `v_false_clean`: a pass that cannot store the list it read marks the provider as
  synced all the same, and "who is inactive" is answered from a table nobody
  filled. A scan in the same place stops.

Others are definitions that fail, and say what to change in a configuration to see
it. In `Reconciler`, from `recon_safe.cfg` unless named otherwise:

| definition | instance | behaviour |
|---|---|---|
| `NeverReset` | `"remove"` added to `Faults` | a refused removal still closes its countdown, so the next pass grants a whole new grace period |
| `ClosedMeansGone` | `recon_live.cfg` with `Explicit <- NoAliases` | at expiry the seat is looked up with the explicit aliases only; one attributed through an implicit alias is "gone" and never reclaimed |
| `EmployeesKept` | `recon_crash.cfg` with `Members0 <- OnlyEveMember`, or `"aliasGroup"` added to `Faults` | ambiguity of a local part is judged among the members of the mapped groups that could be read, so the seat of a namesake outside them is attributed to someone else |
| `Provisioned` | `recon_live.cfg` with `Deactivating = {crm}` and `Seats0 <- DirectSeat` | a suspended seat counts as a seat; someone who returns never gets a working one |
| `ExceptionsKept` | `LowerCased = {ann}` | an exception spelled with capitals protects no one |
| `FullGrace` | `"crash"` added to `Faults` | a crash between the plan and its cancellations lets a countdown survive a return |

In the other modules, each as an additional property of the run named:

| definition | run | behaviour |
|---|---|---|
| `AttestationStands` | `ledger` | two scans that change nothing make an attested decision stale, and the attested owner is lost |
| `RescanRetires` | `offboarding` | a scan that finds the person employed again emits nothing for that seat, and the approved removal stays approved |
| `ProtectedKept` | `offboarding` | an orphan that `policies.exceptions` names is proposed and removed like any other |
| `AbsentOnRescan` | `connectors` | a connector that deactivates leaves the seat on the list, which the action matrix calls absent |
| `NeverPartial` | `connectors` | most walks return a truncated list without an error when the vendor breaks what they count on; `ListSCIM` alone refuses some |
| `CredentialsComputed` | `cache` | a reader that reads the inventory before, and its state after, a scan is told that an empty inventory was read |
| `InactiveTold` | `cache` | who reports activity and who is idle are read from two tables that two commands wrote |
| `IdleIsIdle` | `audit` | an audit-log entry without a date counts as no entry |

Also seen while modelling: an identity with two seats at one provider has one row
and one target, so the second seat waits for another grace period (`NeverReset`
fails); with two processes and a tick inside a pass, one process may execute the
row that the other inserted with an older directory; an executed decision absorbs
the next observation of the same recommendation, so a certificate may say complete
of a seat that was given back; a mark made after a new scan and a new approval may
mark a decision for a removal made under the earlier one; a decision whose removal
succeeded without an answer stays approved, and every later `apply` fails on the
missing seat; a certificate of a subject the directory does not know is "complete
with provider limits" although the provider could not be read; Intercom's
`RemoveUser` only marks its user as away, so every later pass schedules the seat
again; Deel and the walks that follow a cursor never end on a vendor that answers
empty pages; a partial GitHub inventory replaces the whole one that was stored.

## 7. Not modelled, and what is left

*Not modelled*: notifications (fire and forget, nothing reads them); parsing and
lint of the configuration (what the other parts use of it are CONSTANTS, and lint
only reports); the credentials file and the OAuth flow (used once per provider by
hand); the events table (nothing reads it back into a decision); billing claims
and the findings of `core.Scan` about prices, which no input can reach, since no
connector sets an amount; roles and `SetRole`, which nothing calls; evidence, the
printed certificate and all wording; rows of the ledger older than its hash
column; the handlers that read one table and format it.

*Left*: the proofs of `FullGrace` with several processes, which needs ticks to be
kept out of passes and a history for each process's reads; the concurrent fan-out
of a scan over providers; lint as checks of a configuration against what the
reconciler assumes of it (`SafeSetting`); the second seat of an identity, of which
section 6 tells, as a property of its own.
