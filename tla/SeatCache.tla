------------------------------ MODULE SeatCache ------------------------------
(***************************************************************************)
(* What one provider was last read to hold, as the local database keeps it *)
(* (internal/store/sqlite.go): its seats, its credentials, its invoices,   *)
(* and when each was read.  A reconciliation pass, `unseat scan` and       *)
(* `unseat audit credentials` write it, side by side and call by call; the *)
(* REST API, the MCP tools and `audit inactive` read it, in two queries    *)
(* where the answer needs two tables.  Any command may be killed between   *)
(* two calls, and any call may fail.                                       *)
(*                                                                         *)
(* Every table is keyed by the provider, so one provider stands for all.   *)
(* A read returns anything.  Stamps order the invoices.                    *)
(***************************************************************************)
EXTENDS Naturals, Sequences, FiniteSets

CONSTANTS
  Accounts, Keys,          \* what a provider may list
  Passes, Scans, Audits,   \* the commands that write
  Viewers,                 \* the requests that read
  PassFails,               \* whether a pass may fail to store what it listed
  MaxCommands              \* bound: commands started

Writers == Passes \cup Scans \cup Audits

ASSUME CacheAssumption ==
  /\ IsFiniteSet(Accounts)
  /\ PassFails \in BOOLEAN /\ MaxCommands \in Nat

VARIABLES
  lister,     \* whether the connector lists credentials at all
  users,      \* provider_users, and (history) the read last stored in it
  sync,       \* sync_state
  keys,       \* provider_credentials, and (history) the read last stored
  keySync,    \* credential_sync_state
  bills,      \* billing_snapshots, in the order of their ids
  proc,       \* the commands, and what each has read
  view,       \* the requests, and what each has read
  clock,      \* the last stamp given
  commands    \* bound

tables == <<users, sync, keys, keySync, bills>>
cacheVars == <<lister, tables, proc, view, clock, commands>>

Resting == [step |-> "idle"]
Never == [status |-> "never"]

CacheInit ==
  /\ lister \in BOOLEAN
  /\ users = [rows |-> {}, of |-> Never] /\ keys = [rows |-> {}, of |-> Never]
  /\ sync = Never /\ keySync = Never
  /\ bills = << >>
  /\ proc = [p \in Writers |-> Resting] /\ view = [v \in Viewers |-> Resting]
  /\ clock = 0 /\ commands = 0

At(p, step) == proc[p].step = step
Turn(p, next) == proc' = [proc EXCEPT ![p] = next]
Goto(p, step) == Turn(p, [proc[p] EXCEPT !.step = step])
Stamp == clock' = clock + 1
-----------------------------------------------------------------------------
(* The tables.                                                             *)

\* Mutant: what is new is added to what was there.
UpsertProviderUsers_Merge(read) ==
  users' = [rows |-> users.rows \cup read.who, of |-> read]

\* Deleted and inserted in one transaction.
UpsertProviderUsers(read) == users' = [rows |-> read.who, of |-> read]

UpdateSyncState(read) ==
  sync' = [status |-> "ok", count |-> Cardinality(read.who),
           reports |-> read.reports]

UpsertProviderCredentials(read) ==
  keys' = [rows |-> read.what, of |-> read]

UpdateCredentialSyncState(read) ==
  keySync' = [status |-> read.status]

InsertBillingSnapshot(bill) == bills' = Append(bills, bill)

\* Mutant: the last one stored.
LatestBillingSnapshot_ById(table) == table[Len(table)]

\* ORDER BY fetched_at DESC.
LatestBillingSnapshot(table) ==
  CHOOSE b \in {table[i] : i \in DOMAIN table} :
    \A i \in DOMAIN table : table[i].at <= b.at

\* The email of a row is unique, and a list that repeats one is refused; so is
\* a write while another process holds the database.
MayFail(p) == p \in Passes => PassFails
-----------------------------------------------------------------------------
(* Reading the provider.                                                   *)

Unchanged == UNCHANGED <<lister, tables, view>>

Start(p) ==
  /\ proc[p] = Resting
  /\ commands < MaxCommands /\ commands' = commands + 1
  /\ IF p \in Scans THEN Stamp ELSE UNCHANGED clock
  /\ Turn(p, [step |-> IF p \in Audits THEN "inspect" ELSE "list",
              began |-> IF p \in Scans THEN clock' ELSE 0,
              seats |-> Never, creds |-> Never, bill |-> Never])
  /\ Unchanged

\* ListUsers; GitHub learns whether it reports activity on the way.  Without
\* the list a command leaves everything as it was.
ListUsers(p) ==
  /\ At(p, "list")
  /\ \/ \E who \in SUBSET Accounts, reports \in BOOLEAN :
          Turn(p, [proc[p] EXCEPT
                     !.step = IF p \in Passes THEN "storeUsers" ELSE "inspect",
                     !.seats = [status |-> "ok", who |-> who,
                                reports |-> reports]])
     \/ Turn(p, Resting)
  /\ UNCHANGED <<clock, commands>> /\ Unchanged

\* inspectProviderCredentials.
Inspect(p) ==
  /\ At(p, "inspect")
  /\ \E what \in SUBSET Keys, answers \in BOOLEAN :
       LET status == IF ~lister THEN "not_supported"
                     ELSE IF answers THEN "ok" ELSE "failed"
           read == [status |-> status,
                    what |-> IF status = "ok" THEN what ELSE {}]
       IN Turn(p, [proc[p] EXCEPT
                     !.step = IF p \in Audits THEN "storeKeys" ELSE "billing",
                     !.creds = read])
  /\ UNCHANGED <<clock, commands>> /\ Unchanged

Priced(p, when) ==
  /\ At(p, "billing")
  /\ Stamp
  /\ \E at \in when :
       Turn(p, [proc[p] EXCEPT !.step = "storeKeys", !.began = 0,
                               !.bill = [at |-> at]])
  /\ UNCHANGED commands /\ Unchanged

\* Mutant: what could not be read is not dated.
FetchBilling_Undated(p) == Priced(p, {0, clock'})

\* What could not be read is dated when the scan began.
FetchBilling(p) == Priced(p, {proc[p].began, clock'})
-----------------------------------------------------------------------------
(* Writing what was read: reconcileProvider, cacheScan,                    *)
(* writeCredentialSnapshots.                                               *)

Keep == UNCHANGED <<lister, view, clock, commands>>
Afterwards(p) == IF p \in Audits THEN "idle" ELSE "storeBill"
Done(p, step) == IF step = "idle" THEN Turn(p, Resting) ELSE Goto(p, step)

\* Mutant: the state is written whether the inventory was stored or not.
StoreKeys_Regardless(p) ==
  /\ At(p, "storeKeys")
  /\ \/ proc[p].creds.status # "failed" /\ UpsertProviderCredentials(proc[p].creds)
     \/ UNCHANGED keys
  /\ Goto(p, "dateKeys")
  /\ UNCHANGED <<users, sync, keySync, bills>> /\ Keep

\* A failed read keeps the inventory; an inventory that cannot be stored
\* leaves the state alone.
StoreKeys(p) ==
  /\ At(p, "storeKeys")
  /\ \/ /\ proc[p].creds.status # "failed"
        /\ UpsertProviderCredentials(proc[p].creds)
        /\ Goto(p, "dateKeys")
     \/ /\ proc[p].creds.status # "failed"
        /\ Done(p, Afterwards(p)) /\ UNCHANGED keys
     \/ /\ proc[p].creds.status = "failed"
        /\ Goto(p, "dateKeys") /\ UNCHANGED keys
  /\ UNCHANGED <<users, sync, keySync, bills>> /\ Keep

DateKeys(p) ==
  /\ At(p, "dateKeys")
  /\ UpdateCredentialSyncState(proc[p].creds) \/ UNCHANGED keySync
  /\ Done(p, Afterwards(p))
  /\ UNCHANGED <<users, sync, keys, bills>> /\ Keep

\* An empty list of seats is not stored by a scan.
StoreBill(p) ==
  /\ At(p, "storeBill")
  /\ InsertBillingSnapshot(proc[p].bill) \/ UNCHANGED bills
  /\ Done(p, IF proc[p].seats.who = {} THEN "idle" ELSE "storeUsers")
  /\ UNCHANGED <<users, sync, keys, keySync>> /\ Keep

\* Mutant: a scan goes on without the list, as a pass does.
StoreUsers_Regardless(p) ==
  /\ At(p, "storeUsers")
  /\ \/ UpsertProviderUsers(proc[p].seats)
     \/ MayFail(p) /\ UNCHANGED users
  /\ Goto(p, "dateUsers")
  /\ UNCHANGED <<sync, keys, keySync, bills>> /\ Keep

\* A pass goes on without the list; a scan does not.
StoreUsers(p) ==
  /\ At(p, "storeUsers")
  /\ \/ UpsertProviderUsers(proc[p].seats) /\ Goto(p, "dateUsers")
     \/ /\ MayFail(p) /\ UNCHANGED users
        /\ Done(p, IF p \in Passes THEN "dateUsers" ELSE "idle")
  /\ UNCHANGED <<sync, keys, keySync, bills>> /\ Keep

DateUsers(p) ==
  /\ At(p, "dateUsers")
  /\ UpdateSyncState(proc[p].seats) \/ UNCHANGED sync
  /\ Turn(p, Resting)
  /\ UNCHANGED <<users, keys, keySync, bills>> /\ Keep

Killed(p) ==
  /\ proc[p] # Resting
  /\ Turn(p, Resting)
  /\ UNCHANGED tables /\ Keep
-----------------------------------------------------------------------------
(* The readers.                                                            *)

Look(v, next) ==
  /\ view' = [view EXCEPT ![v] = next]
  /\ UNCHANGED <<lister, tables, proc, clock, commands>>

\* handleAllInactiveUsers, handleListInactive, runAuditInactive: which
\* providers report activity, then their idle seats.
ActivityReportingProviders(v) ==
  /\ view[v] = Resting
  /\ Look(v, [step |-> "inactive",
              evaluated |-> sync # Never /\ sync.reports])

GetInactiveUsers(v) ==
  /\ view[v].step = "inactive"
  /\ Look(v, [step |-> "answer", about |-> "inactive",
              evaluated |-> view[v].evaluated,
              from |-> IF view[v].evaluated THEN users ELSE Never])

\* handleProviderCredentials, handleListCredentials, handleCredentialsSummary:
\* the inventory, then when and how it was read.
GetProviderCredentials(v) ==
  /\ view[v] = Resting
  /\ Look(v, [step |-> "credentials", from |-> keys])

ListCredentialSyncStates(v) ==
  /\ view[v].step = "credentials"
  /\ Look(v, [step |-> "answer", about |-> "credentials",
              from |-> view[v].from, state |-> keySync])

Answered(v) == view[v].step = "answer" /\ Look(v, Resting)

CacheNext ==
  \/ \E p \in Writers :
       \/ Start(p) \/ ListUsers(p) \/ Inspect(p) \/ FetchBilling(p)
       \/ StoreKeys(p) \/ DateKeys(p) \/ StoreBill(p)
       \/ StoreUsers(p) \/ DateUsers(p) \/ Killed(p)
  \/ \E v \in Viewers :
       \/ ActivityReportingProviders(v) \/ GetInactiveUsers(v)
       \/ GetProviderCredentials(v) \/ ListCredentialSyncStates(v)
       \/ Answered(v)

CacheSpec == CacheInit /\ [][CacheNext]_cacheVars
-----------------------------------------------------------------------------
(* Properties.                                                             *)

\* Each table is well formed, whoever wrote it last.
CacheTypeOK ==
  /\ users.rows \subseteq Accounts /\ keys.rows \subseteq Keys
  /\ sync = Never
     \/ sync \in [status : {"ok"}, count : 0 .. Cardinality(Accounts),
                  reports : BOOLEAN]
  /\ keySync \in [status : {"never", "ok", "failed", "not_supported"}]
  /\ \A i \in DOMAIN bills : bills[i].at \in 1 .. clock

\* A table holds one read, all of it and nothing else.
Listed(table) == table.of # Never /\ table.rows = table.of.who
Inventoried(table) ==
  /\ table.of # Never /\ table.rows = table.of.what
  /\ table.of.status # "failed"

\* "A tool that reports a clean result it never computed is the failure mode
\* this codebase exists to avoid": whoever is told who is inactive at a provider
\* is answered from one whole list of its seats, never from a table nothing
\* filled or from parts of two lists, whatever else runs.
InactiveComputed ==
  \A v \in Viewers :
    view[v].step = "answer" /\ view[v].about = "inactive" /\ view[v].evaluated
      => Listed(view[v].from)

\* A state that calls the inventory of credentials read stands beside one
\* whole inventory, however the commands that read it interleave and fail.
InventoryBacked ==
  keySync.status \in {"ok", "not_supported"} => Inventoried(keys)

\* A scan that took long and stores last does not bring back an older invoice
\* than the one that was shown.
LatestAdvances ==
  [][bills # << >> => LatestBillingSnapshot(bills).at
                        <= LatestBillingSnapshot(bills').at]_cacheVars

\* The answer to a question about credentials that calls them read shows an
\* inventory that was read.
CredentialsComputed ==
  \A v \in Viewers :
    /\ view[v].step = "answer" /\ view[v].about = "credentials"
    /\ view[v].state.status = "ok"
    => Inventoried(view[v].from)

\* Nobody is called inactive by a list that did not tell.
InactiveTold ==
  \A v \in Viewers :
    /\ view[v].step = "answer" /\ view[v].about = "inactive"
    /\ view[v].evaluated /\ view[v].from.rows # {}
    => view[v].from.of.reports
=============================================================================
