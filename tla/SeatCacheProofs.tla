--------------------------- MODULE SeatCacheProofs ---------------------------
(***************************************************************************)
(* Proofs about SeatCache, for any provider, numbers of commands and of    *)
(* requests: what is called read stands beside a whole read; if no pass    *)
(* fails to store its list, who is told who is inactive is answered from   *)
(* one; and the invoice that is shown never gives way to an older one.     *)
(***************************************************************************)
EXTENDS SeatCache, NaturalFacts, FiniteSetTheorems, SequenceTheorems, TLAPS

Fields == {"step", "began", "seats", "creds", "bill"}

\* What a command holds, beside a table of seats that last stored u and one of
\* credentials that last stored k.
CommandOK(p, me, u, k) ==
  /\ me.step # "idle" => DOMAIN me = Fields
  /\ me.step \in {"storeBill", "storeUsers", "dateUsers"} => me.seats # Never
  /\ me.step \in {"inspect", "billing", "storeKeys", "dateKeys"}
       => p \in Audits \/ me.seats # Never
  /\ me.step \in {"billing", "storeKeys", "dateKeys"}
       => me.creds.status \in {"ok", "failed", "not_supported"}
  /\ me.step = "dateKeys" /\ me.creds.status # "failed" => k # Never
  /\ me.step = "dateUsers" /\ ~PassFails => u # Never

\* What a request holds.
RequestOK(me, u) ==
  /\ me.step = "inactive" /\ me.evaluated /\ ~PassFails => u # Never
  /\ /\ me.step = "answer" /\ me.about = "inactive"
     /\ me.evaluated /\ ~PassFails
     => Listed(me.from)

\* A table holds one whole read, or none.
TablesOK ==
  /\ users.of # Never => users.rows = users.of.who
  /\ keys.of # Never => keys.rows = keys.of.what /\ keys.of.status # "failed"
  /\ sync # Never /\ ~PassFails => users.of # Never
  /\ keySync.status \in {"ok", "not_supported"} => keys.of # Never

CacheInv ==
  /\ TablesOK
  /\ DOMAIN proc = Writers /\ DOMAIN view = Viewers
  /\ \A p \in Writers : CommandOK(p, proc[p], users.of, keys.of)
  /\ \A v \in Viewers : RequestOK(view[v], users.of)
-----------------------------------------------------------------------------
LEMMA RestingOK ==
  ASSUME NEW p, NEW u, NEW k
  PROVE  CommandOK(p, Resting, u, k) /\ RequestOK(Resting, u)
BY DEF CommandOK, RequestOK, Resting

\* What was stored once is never unstored: the others keep what they hold.
LEMMA StoredKeeps ==
  ASSUME NEW p, NEW me, NEW u, NEW k, NEW u2, NEW k2,
         u # Never => u2 # Never, k # Never => k2 # Never
  PROVE  /\ CommandOK(p, me, u, k) => CommandOK(p, me, u2, k2)
         /\ RequestOK(me, u) => RequestOK(me, u2)
BY DEF CommandOK, RequestOK

\* A command takes a turn.
LEMMA TurnInv ==
  ASSUME CacheInv, NEW p \in Writers, NEW next, Turn(p, next), view' = view,
         TablesOK',
         users.of # Never => users'.of # Never,
         keys.of # Never => keys'.of # Never,
         CommandOK(p, next, users'.of, keys'.of)
  PROVE  CacheInv'
<1>1. /\ DOMAIN proc' = Writers /\ proc'[p] = next
      /\ \A q \in Writers \ {p} : proc'[q] = proc[q]
  BY DEF Turn, CacheInv
<1>2. ASSUME NEW q \in Writers
      PROVE  CommandOK(q, proc'[q], users'.of, keys'.of)
  <2>1. CASE q = p
    BY <1>1, <2>1
  <2>2. CASE q # p
    <3>1. CommandOK(q, proc[q], users.of, keys.of)
      BY DEF CacheInv
    <3> QED
      BY <1>1, <2>2, <3>1, StoredKeeps
  <2> QED
    BY <2>1, <2>2
<1>3. ASSUME NEW v \in Viewers
      PROVE  RequestOK(view'[v], users'.of)
  BY StoredKeeps DEF CacheInv
<1> QED
  BY <1>1, <1>2, <1>3 DEF CacheInv

\* A turn that stores nothing.
LEMMA ReadInv ==
  ASSUME CacheInv, NEW p \in Writers, NEW next, Turn(p, next),
         UNCHANGED <<view, tables>>,
         CommandOK(p, next, users.of, keys.of)
  PROVE  CacheInv'
<1>1. UNCHANGED <<users, sync, keys, keySync, view>>
  BY DEF tables
<1>2. TablesOK'
  BY <1>1 DEF CacheInv, TablesOK
<1> QED
  BY <1>1, <1>2, TurnInv

\* A request reads.
LEMMA LookInv ==
  ASSUME CacheInv, NEW v \in Viewers, NEW next, Look(v, next),
         RequestOK(next, users.of)
  PROVE  CacheInv'
<1>1. UNCHANGED <<users, sync, keys, keySync, proc>>
  BY DEF Look, tables
<1>2. /\ DOMAIN view' = Viewers /\ view'[v] = next
      /\ \A w \in Viewers \ {v} : view'[w] = view[w]
  BY DEF Look, CacheInv
<1>3. \A w \in Viewers : RequestOK(view'[w], users'.of)
  BY <1>1, <1>2 DEF CacheInv
<1>4. TablesOK'
  BY <1>1 DEF CacheInv, TablesOK
<1> QED
  BY <1>1, <1>2, <1>3, <1>4 DEF CacheInv

LEMMA ViewersInv ==
  ASSUME CacheInv, NEW v \in Viewers,
         \/ ActivityReportingProviders(v) \/ GetInactiveUsers(v)
         \/ GetProviderCredentials(v) \/ ListCredentialSyncStates(v)
         \/ Answered(v)
  PROVE  CacheInv'
<1>1. CASE ActivityReportingProviders(v)
  <2> DEFINE next == [step |-> "inactive",
                      evaluated |-> sync # Never /\ sync.reports]
  <2>1. Look(v, next)
    BY <1>1 DEF ActivityReportingProviders
  <2>2. RequestOK(next, users.of)
    BY DEF RequestOK, CacheInv, TablesOK
  <2> HIDE DEF next
  <2> QED
    BY <2>1, <2>2, LookInv
<1>2. CASE GetInactiveUsers(v)
  <2> DEFINE told == view[v].evaluated
             from == IF told THEN users ELSE Never
             next == [step |-> "answer", about |-> "inactive",
                      evaluated |-> told, from |-> from]
  <2>1. Look(v, next)
    BY <1>2 DEF GetInactiveUsers
  <2>2. RequestOK(view[v], users.of) /\ view[v].step = "inactive"
    BY <1>2 DEF GetInactiveUsers, CacheInv
  <2>3. told /\ ~PassFails => Listed(from)
    BY <2>2 DEF RequestOK, Listed, CacheInv, TablesOK
  <2> HIDE DEF told, from
  <2>4. RequestOK(next, users.of)
    BY <2>3 DEF RequestOK
  <2> HIDE DEF next
  <2> QED
    BY <2>1, <2>4, LookInv
<1>3. CASE GetProviderCredentials(v)
  <2> DEFINE next == [step |-> "credentials", from |-> keys]
  <2>1. Look(v, next)
    BY <1>3 DEF GetProviderCredentials
  <2>2. RequestOK(next, users.of)
    BY DEF RequestOK
  <2> HIDE DEF next
  <2> QED
    BY <2>1, <2>2, LookInv
<1>4. CASE ListCredentialSyncStates(v)
  <2> DEFINE next == [step |-> "answer", about |-> "credentials",
                      from |-> view[v].from, state |-> keySync]
  <2>1. Look(v, next)
    BY <1>4 DEF ListCredentialSyncStates
  <2>2. RequestOK(next, users.of)
    BY DEF RequestOK
  <2> HIDE DEF next
  <2> QED
    BY <2>1, <2>2, LookInv
<1>5. CASE Answered(v)
  BY <1>5, RestingOK, LookInv DEF Answered
<1> QED
  BY <1>1, <1>2, <1>3, <1>4, <1>5
-----------------------------------------------------------------------------
(* The commands.                                                           *)

\* Going on to another step.
LEMMA GotoFacts ==
  ASSUME CacheInv, NEW p \in Writers, proc[p].step # "idle", NEW step, step # "idle"
  PROVE  LET next == [proc[p] EXCEPT !.step = step] IN
         /\ DOMAIN next = Fields /\ next.step = step
         /\ next.seats = proc[p].seats /\ next.creds = proc[p].creds
BY DEF CacheInv, CommandOK, Fields

LEMMA ReadersInv ==
  ASSUME CacheInv, NEW p \in Writers,
         Start(p) \/ ListUsers(p) \/ Inspect(p) \/ FetchBilling(p) \/ Killed(p)
  PROVE  CacheInv'
<1>0. CommandOK(p, proc[p], users.of, keys.of)
  BY DEF CacheInv
<1>1. CASE Start(p)
  <2>1. PICK began : Turn(p, [step |-> IF p \in Audits THEN "inspect" ELSE "list",
                              began |-> began, seats |-> Never,
                              creds |-> Never, bill |-> Never])
    BY <1>1 DEF Start
  <2> DEFINE next == [step |-> IF p \in Audits THEN "inspect" ELSE "list",
                      began |-> began, seats |-> Never,
                      creds |-> Never, bill |-> Never]
  <2>2. CommandOK(p, next, users.of, keys.of)
    BY DEF CommandOK, Fields
  <2>3. Turn(p, next) /\ UNCHANGED <<view, tables>>
    BY <1>1, <2>1 DEF Start, Unchanged
  <2> HIDE DEF next
  <2> QED
    BY <2>2, <2>3, ReadInv
<1>2. CASE ListUsers(p)
  <2>1. UNCHANGED <<view, tables>> /\ proc[p].step = "list"
    BY <1>2 DEF ListUsers, Unchanged, At
  <2>2. ASSUME NEW who, NEW reports,
               Turn(p, [proc[p] EXCEPT
                 !.step = IF p \in Passes THEN "storeUsers" ELSE "inspect",
                 !.seats = [status |-> "ok", who |-> who, reports |-> reports]])
        PROVE  CacheInv'
    <3> DEFINE read == [status |-> "ok", who |-> who, reports |-> reports]
               next == [proc[p] EXCEPT
                 !.step = IF p \in Passes THEN "storeUsers" ELSE "inspect",
                 !.seats = read]
    <3>1. DOMAIN proc[p] = Fields
      BY <1>0, <2>1 DEF CommandOK
    <3>2. read.status # Never.status
      BY DEF Never
    <3>3. Turn(p, next)
      BY <2>2
    <3> HIDE DEF read
    <3>4. /\ DOMAIN next = Fields /\ next.seats = read
          /\ next.step \in {"storeUsers", "inspect"}
      BY <3>1 DEF Fields
    <3> HIDE DEF next
    <3>5. CommandOK(p, next, users.of, keys.of)
      BY <3>2, <3>4 DEF CommandOK
    <3> QED
      BY <2>1, <3>3, <3>5, ReadInv
  <2>3. CASE Turn(p, Resting)
    BY <2>1, <2>3, RestingOK, ReadInv
  <2>4. \/ \E who, reports :
             Turn(p, [proc[p] EXCEPT
               !.step = IF p \in Passes THEN "storeUsers" ELSE "inspect",
               !.seats = [status |-> "ok", who |-> who, reports |-> reports]])
        \/ Turn(p, Resting)
    BY <1>2, Zenon DEF ListUsers
  <2> QED
    BY <2>2, <2>3, <2>4
<1>3. CASE Inspect(p)
  <2>1. UNCHANGED <<view, tables>> /\ proc[p].step = "inspect"
    BY <1>3 DEF Inspect, Unchanged, At
  <2>2. PICK found \in SUBSET Keys, answers \in BOOLEAN :
          LET status == IF ~lister THEN "not_supported"
                        ELSE IF answers THEN "ok" ELSE "failed"
              read == [status |-> status,
                       what |-> IF status = "ok" THEN found ELSE {}]
          IN Turn(p, [proc[p] EXCEPT
                 !.step = IF p \in Audits THEN "storeKeys" ELSE "billing",
                 !.creds = read])
    BY <1>3, Zenon DEF Inspect
  <2> DEFINE status == IF ~lister THEN "not_supported"
                       ELSE IF answers THEN "ok" ELSE "failed"
             read == [status |-> status,
                      what |-> IF status = "ok" THEN found ELSE {}]
             next == [proc[p] EXCEPT
                 !.step = IF p \in Audits THEN "storeKeys" ELSE "billing",
                 !.creds = read]
  <2>3. DOMAIN proc[p] = Fields
    BY <1>0, <2>1 DEF CommandOK
  <2>4. Turn(p, next)
    BY <2>2, Zenon
  <2>5. read.status \in {"ok", "failed", "not_supported"}
    OBVIOUS
  <2> HIDE DEF status, read
  <2>6. /\ DOMAIN next = Fields /\ next.creds = read
        /\ next.step \in {"storeKeys", "billing"}
        /\ next.seats = proc[p].seats
    BY <2>3 DEF Fields
  <2> HIDE DEF next
  <2>7. CommandOK(p, next, users.of, keys.of)
    BY <1>0, <2>1, <2>5, <2>6 DEF CommandOK
  <2> QED
    BY <2>1, <2>4, <2>7, ReadInv
<1>4. CASE FetchBilling(p)
  <2>1. UNCHANGED <<view, tables>> /\ proc[p].step = "billing"
    BY <1>4 DEF FetchBilling, Priced, Unchanged, At
  <2>2. PICK bill : Turn(p, [proc[p] EXCEPT !.step = "storeKeys", !.began = 0,
                                            !.bill = bill])
    BY <1>4 DEF FetchBilling, Priced
  <2> DEFINE next == [proc[p] EXCEPT !.step = "storeKeys", !.began = 0,
                                     !.bill = bill]
  <2>3. DOMAIN proc[p] = Fields
    BY <1>0, <2>1 DEF CommandOK
  <2>4. /\ DOMAIN next = Fields /\ next.creds = proc[p].creds
        /\ next.step = "storeKeys" /\ next.seats = proc[p].seats
    BY <2>3 DEF Fields
  <2>5. Turn(p, next)
    BY <2>2
  <2> HIDE DEF next
  <2>6. CommandOK(p, next, users.of, keys.of)
    BY <1>0, <2>1, <2>4 DEF CommandOK
  <2> QED
    BY <2>1, <2>5, <2>6, ReadInv
<1>5. CASE Killed(p)
  BY <1>5, RestingOK, ReadInv DEF Killed, Keep
<1> QED
  BY <1>1, <1>2, <1>3, <1>4, <1>5

\* Done goes on, or ends.
LEMMA DoneInv ==
  ASSUME CacheInv, NEW p \in Writers, NEW step, Done(p, step),
         proc[p].step # "idle", view' = view, TablesOK',
         users.of # Never => users'.of # Never,
         keys.of # Never => keys'.of # Never,
         step # "idle" =>
           \A me : /\ DOMAIN me = Fields /\ me.step = step
                   /\ me.seats = proc[p].seats /\ me.creds = proc[p].creds
                   => CommandOK(p, me, users'.of, keys'.of)
  PROVE  CacheInv'
<1>1. CASE step = "idle"
  BY <1>1, RestingOK, TurnInv DEF Done
<1>2. CASE step # "idle"
  <2> DEFINE next == [proc[p] EXCEPT !.step = step]
  <2>1. Turn(p, next)
    BY <1>2 DEF Done, Goto
  <2>2. /\ DOMAIN next = Fields /\ next.step = step
        /\ next.seats = proc[p].seats /\ next.creds = proc[p].creds
    BY <1>2, GotoFacts
  <2> HIDE DEF next
  <2>3. CommandOK(p, next, users'.of, keys'.of)
    BY <1>2, <2>2
  <2> QED
    BY <2>1, <2>3, TurnInv
<1> QED
  BY <1>1, <1>2

LEMMA NeverRead ==
  ASSUME NEW read, read.status \in {"ok", "failed", "not_supported"}
  PROVE  read # Never
<1>1. Never.status = "never"
  BY DEF Never
<1> QED
  BY <1>1

LEMMA StoreKeysInv ==
  ASSUME CacheInv, NEW p \in Writers, StoreKeys(p)
  PROVE  CacheInv'
<1> DEFINE me == proc[p]
<1>1. /\ me.step = "storeKeys" /\ UNCHANGED <<users, sync, keySync, view>>
      /\ CommandOK(p, me, users.of, keys.of) /\ TablesOK
  BY DEF StoreKeys, At, Keep, CacheInv
<1>2. /\ me.creds.status \in {"ok", "failed", "not_supported"}
      /\ p \in Audits \/ me.seats # Never
  BY <1>1 DEF CommandOK
<1>3. me.creds # Never
  BY <1>2, NeverRead
<1>4. CASE /\ me.creds.status # "failed"
           /\ UpsertProviderCredentials(me.creds)
           /\ Goto(p, "dateKeys")
  <2>1. keys'.rows = me.creds.what /\ keys'.of = me.creds
    BY <1>4 DEF UpsertProviderCredentials
  <2>2. TablesOK'
    BY <1>1, <1>3, <1>4, <2>1 DEF TablesOK
  <2>3. \A next : /\ DOMAIN next = Fields /\ next.step = "dateKeys"
                  /\ next.seats = me.seats /\ next.creds = me.creds
                  => CommandOK(p, next, users'.of, keys'.of)
    BY <1>2, <1>3, <2>1 DEF CommandOK
  <2>4. Done(p, "dateKeys")
    BY <1>4 DEF Done
  <2> QED
    BY <1>1, <1>3, <2>1, <2>2, <2>3, <2>4, DoneInv
<1>5. CASE Done(p, Afterwards(p)) /\ UNCHANGED keys
  <2>1. TablesOK'
    BY <1>1, <1>5 DEF TablesOK
  <2>2. Afterwards(p) # "idle" =>
          \A next : /\ DOMAIN next = Fields /\ next.step = Afterwards(p)
                    /\ next.seats = me.seats /\ next.creds = me.creds
                    => CommandOK(p, next, users'.of, keys'.of)
    BY <1>2 DEF CommandOK, Afterwards
  <2> QED
    BY <1>1, <1>5, <2>1, <2>2, DoneInv
<1>6. CASE /\ me.creds.status = "failed"
           /\ Goto(p, "dateKeys") /\ UNCHANGED keys
  <2>1. TablesOK'
    BY <1>1, <1>6 DEF TablesOK
  <2>2. \A next : /\ DOMAIN next = Fields /\ next.step = "dateKeys"
                  /\ next.seats = me.seats /\ next.creds = me.creds
                  => CommandOK(p, next, users'.of, keys'.of)
    BY <1>2, <1>6 DEF CommandOK
  <2>3. Done(p, "dateKeys")
    BY <1>6 DEF Done
  <2> QED
    BY <1>1, <1>6, <2>1, <2>2, <2>3, DoneInv
<1> QED
  BY <1>4, <1>5, <1>6 DEF StoreKeys

LEMMA DateKeysInv ==
  ASSUME CacheInv, NEW p \in Writers, DateKeys(p)
  PROVE  CacheInv'
<1> DEFINE me == proc[p]
<1>1. /\ me.step = "dateKeys" /\ UNCHANGED <<users, sync, keys, view>>
      /\ CommandOK(p, me, users.of, keys.of) /\ TablesOK
      /\ Done(p, Afterwards(p))
  BY DEF DateKeys, At, Keep, CacheInv
<1>2. /\ keySync' = keySync \/ keySync'.status = me.creds.status
      /\ p \in Audits \/ me.seats # Never
      /\ me.creds.status # "failed" => keys.of # Never
  BY <1>1 DEF DateKeys, UpdateCredentialSyncState, CommandOK
<1>3. TablesOK'
  BY <1>1, <1>2 DEF TablesOK
<1>4. Afterwards(p) # "idle" =>
        \A next : /\ DOMAIN next = Fields /\ next.step = Afterwards(p)
                  /\ next.seats = me.seats /\ next.creds = me.creds
                  => CommandOK(p, next, users'.of, keys'.of)
  BY <1>2 DEF CommandOK, Afterwards
<1> QED
  BY <1>1, <1>3, <1>4, DoneInv

LEMMA StoreBillInv ==
  ASSUME CacheInv, NEW p \in Writers, StoreBill(p)
  PROVE  CacheInv'
<1> DEFINE me == proc[p]
           step == IF me.seats.who = {} THEN "idle" ELSE "storeUsers"
<1>1. /\ me.step = "storeBill" /\ UNCHANGED <<users, sync, keys, keySync, view>>
      /\ CommandOK(p, me, users.of, keys.of) /\ TablesOK
      /\ Done(p, step)
  BY DEF StoreBill, At, Keep, CacheInv
<1>2. TablesOK'
  BY <1>1 DEF TablesOK
<1>3. me.seats # Never
  BY <1>1 DEF CommandOK
<1>4. step # "idle" =>
        \A next : /\ DOMAIN next = Fields /\ next.step = step
                  /\ next.seats = me.seats /\ next.creds = me.creds
                  => CommandOK(p, next, users'.of, keys'.of)
  BY <1>3 DEF CommandOK
<1> HIDE DEF step
<1> QED
  BY <1>1, <1>2, <1>4, DoneInv

\* Unless a pass may fail to store its list, whoever dates a list stored one.
LEMMA StoreUsersInv ==
  ASSUME CacheInv, NEW p \in Writers, StoreUsers(p)
  PROVE  CacheInv'
<1> DEFINE me == proc[p]
<1>1. /\ me.step = "storeUsers" /\ UNCHANGED <<sync, keys, keySync, view>>
      /\ CommandOK(p, me, users.of, keys.of) /\ TablesOK
  BY DEF StoreUsers, At, Keep, CacheInv
<1>2. me.seats # Never
  BY <1>1 DEF CommandOK
<1>3. CASE UpsertProviderUsers(me.seats) /\ Goto(p, "dateUsers")
  <2>1. users'.rows = me.seats.who /\ users'.of = me.seats
    BY <1>3 DEF UpsertProviderUsers
  <2>2. TablesOK'
    BY <1>1, <1>2, <2>1 DEF TablesOK
  <2>3. \A next : /\ DOMAIN next = Fields /\ next.step = "dateUsers"
                  /\ next.seats = me.seats /\ next.creds = me.creds
                  => CommandOK(p, next, users'.of, keys'.of)
    BY <1>2, <2>1 DEF CommandOK
  <2>4. Done(p, "dateUsers")
    BY <1>3 DEF Done
  <2> QED
    BY <1>1, <1>2, <2>1, <2>2, <2>3, <2>4, DoneInv
<1>4. CASE /\ MayFail(p) /\ UNCHANGED users
           /\ Done(p, IF p \in Passes THEN "dateUsers" ELSE "idle")
  <2>1. TablesOK'
    BY <1>1, <1>4 DEF TablesOK
  <2> DEFINE step == IF p \in Passes THEN "dateUsers" ELSE "idle"
  <2>2. step # "idle" => PassFails
    BY <1>4 DEF MayFail
  <2>3. step # "idle" =>
          \A next : /\ DOMAIN next = Fields /\ next.step = step
                    /\ next.seats = me.seats /\ next.creds = me.creds
                    => CommandOK(p, next, users'.of, keys'.of)
    BY <1>2, <2>2 DEF CommandOK
  <2>4. Done(p, step)
    BY <1>4
  <2> HIDE DEF step
  <2> QED
    BY <1>1, <1>4, <2>1, <2>3, <2>4, DoneInv
<1> QED
  BY <1>3, <1>4 DEF StoreUsers

LEMMA DateUsersInv ==
  ASSUME CacheInv, NEW p \in Writers, DateUsers(p)
  PROVE  CacheInv'
<1>1. /\ proc[p].step = "dateUsers" /\ UNCHANGED <<users, keys, keySync, view>>
      /\ CommandOK(p, proc[p], users.of, keys.of) /\ TablesOK
      /\ Turn(p, Resting)
  BY DEF DateUsers, At, Keep, CacheInv
<1>2. ~PassFails => users.of # Never
  BY <1>1 DEF CommandOK
<1>3. TablesOK'
  BY <1>1, <1>2 DEF TablesOK
<1> QED
  BY <1>1, <1>3, RestingOK, TurnInv
-----------------------------------------------------------------------------
(* The invariant.                                                          *)

LEMMA CacheInitInv == CacheInit => CacheInv
<1> SUFFICES ASSUME CacheInit PROVE CacheInv
  OBVIOUS
<1>1. TablesOK
  BY DEF CacheInit, TablesOK, Never
<1> QED
  BY <1>1, RestingOK DEF CacheInit, CacheInv

LEMMA CacheNextInv == CacheInv /\ [CacheNext]_cacheVars => CacheInv'
<1> SUFFICES ASSUME CacheInv, [CacheNext]_cacheVars PROVE CacheInv'
  OBVIOUS
<1>1. CASE UNCHANGED cacheVars
  BY <1>1 DEF cacheVars, tables, CacheInv, TablesOK
<1>2. ASSUME NEW p \in Writers,
             \/ Start(p) \/ ListUsers(p) \/ Inspect(p) \/ FetchBilling(p)
             \/ StoreKeys(p) \/ DateKeys(p) \/ StoreBill(p)
             \/ StoreUsers(p) \/ DateUsers(p) \/ Killed(p)
      PROVE  CacheInv'
  BY <1>2, ReadersInv, StoreKeysInv, DateKeysInv, StoreBillInv, StoreUsersInv,
     DateUsersInv
<1> QED
  BY <1>1, <1>2, ViewersInv DEF CacheNext

\* The inductive invariant: every table holds one whole read or none, and no
\* state is written before the table it speaks of.
THEOREM CacheInvariant == CacheSpec => []CacheInv
BY CacheInitInv, CacheNextInv, PTL DEF CacheSpec

\* A state that calls the inventory of credentials read stands beside one whole
\* inventory, however the commands interleave and fail.
THEOREM CacheInventoryBacked == CacheSpec => []InventoryBacked
<1>1. CacheInv => InventoryBacked
  BY DEF CacheInv, TablesOK, InventoryBacked, Inventoried
<1> QED
  BY <1>1, CacheInvariant, PTL

\* If no pass fails to store its list, whoever is told who is inactive is
\* answered from one whole list.
THEOREM CacheInactiveComputed ==
  ASSUME ~PassFails
  PROVE  CacheSpec => []InactiveComputed
<1>1. CacheInv => InactiveComputed
  BY DEF CacheInv, RequestOK, InactiveComputed
<1> QED
  BY <1>1, CacheInvariant, PTL
-----------------------------------------------------------------------------
(* Types, and the invoices.                                                *)

Now(clk) == 1 .. clk

\* What a command that read the provider holds, at stamp clk: a list of seats
\* and one of credentials from it, and, where a scan is about to date an invoice
\* or has, a stamp already given.
HeldOK(p, me, clk) ==
  /\ me.step = "list" => p \notin Audits
  /\ me.step \in {"list", "inspect", "billing"}
       => p \in Audits \/ p \in Passes \/ me.began \in Now(clk)
  /\ me.step \in {"inspect", "billing"} => p \in Audits \/ p \notin Passes
  /\ me.step \in {"billing", "storeBill"} => p \notin Audits
  /\ me.step \in {"storeKeys", "dateKeys", "storeBill"}
       => p \in Audits \/ me.bill \in [at : Now(clk)]
  /\ me.step # "idle"
       => /\ \/ me.seats = Never
             \/ /\ me.seats.who \subseteq Accounts
                /\ me.seats.reports \in BOOLEAN
          /\ me.creds = Never \/ me.creds.what \subseteq Keys

CacheShapes ==
  /\ clock \in Nat
  /\ users.rows \subseteq Accounts /\ keys.rows \subseteq Keys
  /\ sync = Never
     \/ sync \in [status : {"ok"}, count : 0 .. Cardinality(Accounts),
                  reports : BOOLEAN]
  /\ keySync \in [status : {"never", "ok", "failed", "not_supported"}]
  /\ bills \in Seq([at : Now(clock)])
  /\ \A p \in Writers : HeldOK(p, proc[p], clock)

LEMMA LaterHeld ==
  ASSUME NEW p, NEW me, NEW n \in Nat, NEW m \in Nat, n <= m, HeldOK(p, me, n)
  PROVE  HeldOK(p, me, m)
<1>1. Now(n) \subseteq Now(m)
  BY DEF Now
<1>2. [at : Now(n)] \subseteq [at : Now(m)]
  BY <1>1
<1> HIDE DEF Now
<1> QED
  BY <1>1, <1>2 DEF HeldOK

LEMMA RestingHeld == ASSUME NEW p, NEW n PROVE HeldOK(p, Resting, n)
BY DEF HeldOK, Resting

\* A command takes a turn.
LEMMA TurnHeld ==
  ASSUME CacheInv, CacheShapes, NEW p \in Writers, NEW next, Turn(p, next),
         clock' \in Nat, clock <= clock', HeldOK(p, next, clock')
  PROVE  \A q \in Writers : HeldOK(q, proc'[q], clock')
<1>1. /\ proc'[p] = next
      /\ \A q \in Writers \ {p} : proc'[q] = proc[q]
  BY DEF Turn, CacheInv
<1> SUFFICES ASSUME NEW q \in Writers PROVE HeldOK(q, proc'[q], clock')
  OBVIOUS
<1>2. CASE q # p
  BY <1>1, <1>2, LaterHeld DEF CacheShapes
<1> QED
  BY <1>1, <1>2

\* A turn that stores nothing.
LEMMA ReadShapes ==
  ASSUME CacheInv, CacheShapes, NEW p \in Writers, NEW next, Turn(p, next),
         UNCHANGED tables,
         clock' \in Nat, clock <= clock', HeldOK(p, next, clock')
  PROVE  CacheShapes'
<1>1. UNCHANGED <<users, sync, keys, keySync, bills>>
  BY DEF tables
<1>2. [at : Now(clock)] \subseteq [at : Now(clock')]
  BY DEF Now, CacheShapes
<1>3. bills' \in Seq([at : Now(clock')])
  BY <1>1, <1>2, SeqMonotonic DEF CacheShapes
<1> QED
  BY <1>1, <1>3, TurnHeld DEF CacheShapes

\* What a step takes from what a command holds.
LEMMA ReadersShapes ==
  ASSUME CacheInv, CacheShapes, NEW p \in Writers,
         Start(p) \/ ListUsers(p) \/ Inspect(p) \/ FetchBilling(p) \/ Killed(p)
  PROVE  CacheShapes'
<1>0. /\ CommandOK(p, proc[p], users.of, keys.of)
      /\ HeldOK(p, proc[p], clock) /\ clock \in Nat
  BY DEF CacheInv, CacheShapes
<1>1. CASE Start(p)
  <2> DEFINE began == IF p \in Scans THEN clock' ELSE 0
             next == [step |-> IF p \in Audits THEN "inspect" ELSE "list",
                      began |-> began,
                      seats |-> Never, creds |-> Never, bill |-> Never]
  <2>1. Turn(p, next) /\ UNCHANGED tables
    BY <1>1 DEF Start, Unchanged
  <2>2. /\ clock' \in Nat /\ clock <= clock'
        /\ p \in Scans => clock' = clock + 1
    BY <1>0, <1>1 DEF Start, Stamp
  <2>3. p \in Audits \/ p \in Passes \/ began \in Now(clock')
    BY <1>0, <2>2 DEF Writers, Now
  <2> HIDE DEF began
  <2>4. /\ next.step = IF p \in Audits THEN "inspect" ELSE "list"
        /\ next.began = began /\ next.seats = Never /\ next.creds = Never
    OBVIOUS
  <2> HIDE DEF next
  <2>5. HeldOK(p, next, clock')
    BY <2>3, <2>4 DEF HeldOK
  <2> QED
    BY <2>1, <2>2, <2>5, ReadShapes
<1>2. CASE ListUsers(p)
  <2>1. /\ UNCHANGED <<tables, clock>> /\ proc[p].step = "list"
        /\ DOMAIN proc[p] = Fields
    BY <1>0, <1>2 DEF ListUsers, Unchanged, At, CommandOK
  <2>2. ASSUME NEW who \in SUBSET Accounts, NEW reports \in BOOLEAN,
               Turn(p, [proc[p] EXCEPT
                 !.step = IF p \in Passes THEN "storeUsers" ELSE "inspect",
                 !.seats = [status |-> "ok", who |-> who, reports |-> reports]])
        PROVE  CacheShapes'
    <3> DEFINE read == [status |-> "ok", who |-> who, reports |-> reports]
               next == [proc[p] EXCEPT
                 !.step = IF p \in Passes THEN "storeUsers" ELSE "inspect",
                 !.seats = read]
    <3>1. read.who \subseteq Accounts /\ read.reports \in BOOLEAN
      OBVIOUS
    <3>2. Turn(p, next)
      BY <2>2
    <3> HIDE DEF read
    <3>3. /\ next.step = IF p \in Passes THEN "storeUsers" ELSE "inspect"
          /\ next.seats = read /\ next.creds = proc[p].creds
          /\ next.began = proc[p].began
      BY <2>1 DEF Fields
    <3> HIDE DEF next
    <3>4. HeldOK(p, next, clock')
      BY <1>0, <2>1, <3>1, <3>3 DEF HeldOK
    <3> QED
      BY <1>0, <2>1, <3>2, <3>4, ReadShapes
  <2>3. CASE Turn(p, Resting)
    BY <1>0, <2>1, <2>3, RestingHeld, ReadShapes
  <2>4. \/ \E who \in SUBSET Accounts, reports \in BOOLEAN :
             Turn(p, [proc[p] EXCEPT
               !.step = IF p \in Passes THEN "storeUsers" ELSE "inspect",
               !.seats = [status |-> "ok", who |-> who, reports |-> reports]])
        \/ Turn(p, Resting)
    BY <1>2, Zenon DEF ListUsers
  <2> QED
    BY <2>2, <2>3, <2>4
<1>3. CASE Inspect(p)
  <2>1. /\ UNCHANGED <<tables, clock>> /\ proc[p].step = "inspect"
        /\ DOMAIN proc[p] = Fields
    BY <1>0, <1>3 DEF Inspect, Unchanged, At, CommandOK
  <2>2. PICK found \in SUBSET Keys, answers \in BOOLEAN :
          LET status == IF ~lister THEN "not_supported"
                        ELSE IF answers THEN "ok" ELSE "failed"
              read == [status |-> status,
                       what |-> IF status = "ok" THEN found ELSE {}]
          IN Turn(p, [proc[p] EXCEPT
                 !.step = IF p \in Audits THEN "storeKeys" ELSE "billing",
                 !.creds = read])
    BY <1>3, Zenon DEF Inspect
  <2> DEFINE status == IF ~lister THEN "not_supported"
                       ELSE IF answers THEN "ok" ELSE "failed"
             read == [status |-> status,
                      what |-> IF status = "ok" THEN found ELSE {}]
             next == [proc[p] EXCEPT
                 !.step = IF p \in Audits THEN "storeKeys" ELSE "billing",
                 !.creds = read]
  <2>3. Turn(p, next)
    BY <2>2, Zenon
  <2>4. read.what \subseteq Keys
    OBVIOUS
  <2> HIDE DEF status, read
  <2>5. /\ next.creds = read /\ next.seats = proc[p].seats
        /\ next.step = IF p \in Audits THEN "storeKeys" ELSE "billing"
        /\ next.began = proc[p].began
    BY <2>1 DEF Fields
  <2> HIDE DEF next
  <2>6. HeldOK(p, next, clock')
    BY <1>0, <2>1, <2>4, <2>5 DEF HeldOK
  <2> QED
    BY <1>0, <2>1, <2>3, <2>6, ReadShapes
<1>4. CASE FetchBilling(p)
  <2>1. /\ UNCHANGED tables /\ clock' = clock + 1 /\ proc[p].step = "billing"
        /\ DOMAIN proc[p] = Fields
    BY <1>0, <1>4 DEF FetchBilling, Priced, Unchanged, At, CommandOK, Stamp
  <2>2. PICK at \in {proc[p].began, clock'} :
          Turn(p, [proc[p] EXCEPT !.step = "storeKeys", !.began = 0,
                                  !.bill = [at |-> at]])
    BY <1>4 DEF FetchBilling, Priced
  <2> DEFINE next == [proc[p] EXCEPT !.step = "storeKeys", !.began = 0,
                                     !.bill = [at |-> at]]
  <2>3. Turn(p, next)
    BY <2>2
  <2>4. /\ next.creds = proc[p].creds /\ next.step = "storeKeys"
        /\ next.seats = proc[p].seats /\ next.bill = [at |-> at]
    BY <2>1 DEF Fields
  <2>5. at \in Now(clock')
    BY <1>0, <2>1, <2>2 DEF HeldOK, Now
  <2>6. [at |-> at] \in [at : Now(clock')]
    BY <2>5
  <2> HIDE DEF next
  <2>7. HeldOK(p, next, clock')
    BY <1>0, <2>1, <2>4, <2>6 DEF HeldOK
  <2> QED
    BY <1>0, <2>1, <2>3, <2>7, ReadShapes
<1>5. CASE Killed(p)
  BY <1>0, <1>5, RestingHeld, ReadShapes DEF Killed, Keep
<1> QED
  BY <1>1, <1>2, <1>3, <1>4, <1>5

\* Storing what was read, one table at a time.
LEMMA StoreShapes ==
  ASSUME CacheInv, CacheShapes, NEW p \in Writers, NEW next, Turn(p, next),
         clock' = clock, HeldOK(p, next, clock),
         users'.rows \subseteq Accounts, keys'.rows \subseteq Keys,
         sync' = sync \/ sync' \in [status : {"ok"},
                                    count : 0 .. Cardinality(Accounts),
                                    reports : BOOLEAN],
         keySync' \in [status : {"never", "ok", "failed", "not_supported"}],
         bills' \in Seq([at : Now(clock)])
  PROVE  CacheShapes'
<1>1. clock' \in Nat /\ clock <= clock'
  BY DEF CacheShapes
<1>2. HeldOK(p, next, clock')
  OBVIOUS
<1> QED
  BY <1>1, <1>2, TurnHeld DEF CacheShapes

\* Going on to a step keeps what is held.
LEMMA GotoHeld ==
  ASSUME CacheInv, CacheShapes, NEW p \in Writers, proc[p].step # "idle",
         NEW step, step \in {"dateKeys", "storeBill", "storeUsers", "dateUsers"},
         step = "storeBill" => p \notin Audits,
         step \in {"dateKeys", "storeBill"}
           => proc[p].step \in {"storeKeys", "dateKeys", "storeBill"}
  PROVE  HeldOK(p, [proc[p] EXCEPT !.step = step], clock)
<1> DEFINE next == [proc[p] EXCEPT !.step = step]
<1>1. DOMAIN proc[p] = Fields /\ HeldOK(p, proc[p], clock)
  BY DEF CacheInv, CommandOK, CacheShapes
<1>2. /\ next.step = step /\ next.seats = proc[p].seats
      /\ next.creds = proc[p].creds /\ next.bill = proc[p].bill
  BY <1>1 DEF Fields
<1> HIDE DEF next
<1> QED
  BY <1>1, <1>2 DEF HeldOK

LEMMA DoneShapes ==
  ASSUME CacheInv, CacheShapes, NEW p \in Writers, NEW step, Done(p, step),
         proc[p].step # "idle", clock' = clock,
         step = "idle" \/ HeldOK(p, [proc[p] EXCEPT !.step = step], clock),
         users'.rows \subseteq Accounts, keys'.rows \subseteq Keys,
         sync' = sync \/ sync' \in [status : {"ok"},
                                    count : 0 .. Cardinality(Accounts),
                                    reports : BOOLEAN],
         keySync' \in [status : {"never", "ok", "failed", "not_supported"}],
         bills' \in Seq([at : Now(clock)])
  PROVE  CacheShapes'
<1>1. CASE step = "idle"
  BY <1>1, RestingHeld, StoreShapes DEF Done
<1>2. CASE step # "idle"
  BY <1>2, StoreShapes DEF Done, Goto
<1> QED
  BY <1>1, <1>2

LEMMA WritersShapes ==
  ASSUME CacheInv, CacheShapes, NEW p \in Writers,
         \/ StoreKeys(p) \/ DateKeys(p) \/ StoreBill(p)
         \/ StoreUsers(p) \/ DateUsers(p)
  PROVE  CacheShapes'
<1> DEFINE me == proc[p]
<1>0. /\ CommandOK(p, me, users.of, keys.of) /\ HeldOK(p, me, clock)
      /\ clock' = clock
      /\ users.rows \subseteq Accounts /\ keys.rows \subseteq Keys
      /\ keySync \in [status : {"never", "ok", "failed", "not_supported"}]
      /\ bills \in Seq([at : Now(clock)])
  BY DEF CacheInv, CacheShapes, StoreKeys, DateKeys, StoreBill, StoreUsers,
     DateUsers, Keep
<1>1. CASE StoreKeys(p)
  <2>1. me.step = "storeKeys" /\ UNCHANGED <<users, sync, keySync, bills>>
    BY <1>1 DEF StoreKeys, At
  <2>2. me.creds.what \subseteq Keys
    BY <1>0, <2>1, NeverRead DEF CommandOK, HeldOK
  <2>3. keys'.rows \subseteq Keys
    BY <1>0, <1>1, <2>2 DEF StoreKeys, UpsertProviderCredentials
  <2>4. CASE Goto(p, "dateKeys")
    BY <1>0, <2>1, <2>3, <2>4, GotoHeld, StoreShapes DEF Goto
  <2>5. CASE Done(p, Afterwards(p))
    <3>1. \/ Afterwards(p) = "idle"
          \/ HeldOK(p, [proc[p] EXCEPT !.step = Afterwards(p)], clock)
      BY <2>1, GotoHeld DEF Afterwards
    <3> QED
      BY <1>0, <2>1, <2>3, <2>5, <3>1, DoneShapes
  <2> QED
    BY <1>1, <2>4, <2>5 DEF StoreKeys
<1>2. CASE DateKeys(p)
  <2>1. /\ me.step = "dateKeys" /\ UNCHANGED <<users, sync, keys, bills>>
        /\ Done(p, Afterwards(p))
    BY <1>2 DEF DateKeys, At
  <2>2. keySync' \in [status : {"never", "ok", "failed", "not_supported"}]
    BY <1>0, <1>2, <2>1 DEF DateKeys, UpdateCredentialSyncState, CommandOK
  <2>3. \/ Afterwards(p) = "idle"
        \/ HeldOK(p, [proc[p] EXCEPT !.step = Afterwards(p)], clock)
    BY <2>1, GotoHeld DEF Afterwards
  <2> QED
    BY <1>0, <2>1, <2>2, <2>3, DoneShapes
<1>3. CASE StoreBill(p)
  <2> DEFINE step == IF me.seats.who = {} THEN "idle" ELSE "storeUsers"
  <2>1. /\ me.step = "storeBill" /\ UNCHANGED <<users, sync, keys, keySync>>
        /\ Done(p, step) /\ step \in {"idle", "storeUsers"}
    BY <1>3 DEF StoreBill, At
  <2>2. me.bill \in [at : Now(clock)]
    BY <1>0, <2>1 DEF HeldOK
  <2>3. bills' \in Seq([at : Now(clock)])
    <3>1. bills' = Append(bills, me.bill) \/ bills' = bills
      BY <1>3 DEF StoreBill, InsertBillingSnapshot
    <3> DEFINE S == [at : Now(clock)]
               bill == me.bill
    <3>2. bills \in Seq(S) /\ bill \in S
      BY <1>0, <2>2
    <3> HIDE DEF S, bill
    <3>3. Append(bills, bill) \in Seq(S)
      BY <3>2, AppendProperties
    <3> QED
      BY <3>1, <3>2, <3>3 DEF S, bill
  <2> HIDE DEF step
  <2>4. step = "idle" \/ HeldOK(p, [proc[p] EXCEPT !.step = step], clock)
    BY <2>1, GotoHeld
  <2> QED
    BY <1>0, <2>1, <2>3, <2>4, DoneShapes
<1>4. CASE StoreUsers(p)
  <2>1. me.step = "storeUsers" /\ UNCHANGED <<sync, keys, keySync, bills>>
    BY <1>4 DEF StoreUsers, At
  <2>2. me.seats.who \subseteq Accounts
    BY <1>0, <2>1 DEF CommandOK, HeldOK
  <2>3. users'.rows \subseteq Accounts
    BY <1>0, <1>4, <2>2 DEF StoreUsers, UpsertProviderUsers
  <2> DEFINE step == IF p \in Passes THEN "dateUsers" ELSE "idle"
  <2>4. Goto(p, "dateUsers") \/ Done(p, step)
    BY <1>4 DEF StoreUsers
  <2>5. step = "idle" \/ HeldOK(p, [proc[p] EXCEPT !.step = step], clock)
    BY <2>1, GotoHeld
  <2> HIDE DEF step
  <2>6. CASE Goto(p, "dateUsers")
    BY <1>0, <2>1, <2>3, <2>6, GotoHeld, StoreShapes DEF Goto
  <2>7. CASE Done(p, step)
    BY <1>0, <2>1, <2>3, <2>5, <2>7, DoneShapes
  <2> QED
    BY <2>4, <2>6, <2>7
<1>5. CASE DateUsers(p)
  <2>1. /\ me.step = "dateUsers" /\ UNCHANGED <<users, keys, keySync, bills>>
        /\ Turn(p, Resting)
    BY <1>5 DEF DateUsers, At
  <2>2. me.seats.who \in SUBSET Accounts /\ me.seats.reports \in BOOLEAN
    BY <1>0, <2>1 DEF CommandOK, HeldOK
  <2>3. Cardinality(me.seats.who) \in 0 .. Cardinality(Accounts)
    BY <2>2, FS_Subset, FS_CardinalityType, CacheAssumption
  <2>4. sync' = sync \/ sync' \in [status : {"ok"},
                                   count : 0 .. Cardinality(Accounts),
                                   reports : BOOLEAN]
    BY <1>5, <2>2, <2>3 DEF DateUsers, UpdateSyncState
  <2> QED
    BY <1>0, <2>1, <2>4, RestingHeld, StoreShapes
<1> QED
  BY <1>1, <1>2, <1>3, <1>4, <1>5

LEMMA CacheInitShapes == CacheInit => CacheShapes
<1> SUFFICES ASSUME CacheInit PROVE CacheShapes
  OBVIOUS
<1>1. keySync \in [status : {"never", "ok", "failed", "not_supported"}]
  BY DEF CacheInit, Never
<1>2. bills \in Seq([at : Now(clock)])
  BY EmptySeq DEF CacheInit
<1> QED
  BY <1>1, <1>2, RestingHeld DEF CacheInit, CacheShapes

LEMMA CacheNextShapes ==
  ASSUME CacheInv, CacheShapes, [CacheNext]_cacheVars
  PROVE  CacheShapes'
<1>1. ASSUME UNCHANGED <<tables, proc, clock>> PROVE CacheShapes'
  <2>1. UNCHANGED <<users, sync, keys, keySync, bills, proc, clock>>
    BY <1>1 DEF tables
  <2> QED
    BY <2>1 DEF CacheShapes
<1>2. ASSUME NEW v \in Viewers,
             \/ ActivityReportingProviders(v) \/ GetInactiveUsers(v)
             \/ GetProviderCredentials(v) \/ ListCredentialSyncStates(v)
             \/ Answered(v)
      PROVE  CacheShapes'
  BY <1>1, <1>2 DEF ActivityReportingProviders, GetInactiveUsers,
     GetProviderCredentials, ListCredentialSyncStates, Answered, Look
<1>3. CASE UNCHANGED cacheVars
  BY <1>1, <1>3 DEF cacheVars
<1>4. CASE CacheNext
  BY <1>2, <1>4, ReadersShapes, WritersShapes DEF CacheNext
<1> QED
  BY <1>3, <1>4

THEOREM CacheShaped == CacheSpec => []CacheShapes
BY CacheInvariant, CacheInitShapes, CacheNextShapes, PTL DEF CacheSpec

\* An invoice stored is dated.
LEMMA BillDated ==
  ASSUME NEW n, NEW table \in Seq([at : Now(n)])
  PROVE  /\ DOMAIN table = 1 .. Len(table) /\ Len(table) \in Nat
         /\ \A i \in DOMAIN table : table[i].at \in Now(n)
<1> DEFINE S == [at : Now(n)]
<1>1. \A bill \in S : bill.at \in Now(n)
  OBVIOUS
<1>2. table \in Seq(S)
  OBVIOUS
<1> HIDE DEF S
<1>3. /\ DOMAIN table = 1 .. Len(table) /\ Len(table) \in Nat
      /\ \A i \in 1 .. Len(table) : table[i] \in S
  BY <1>2, LenProperties, ElementOfSeq
<1> QED
  BY <1>1, <1>3

\* Every table is well formed, whoever wrote it last.
THEOREM CacheTypeCorrect == CacheSpec => []CacheTypeOK
<1>1. CacheShapes => CacheTypeOK
  BY BillDated DEF CacheShapes, CacheTypeOK, Now
<1> QED
  BY <1>1, CacheShaped, PTL

\* What ORDER BY fetched_at DESC returns is stored, and nothing stored is later.
LEMMA LatestIsLatest ==
  ASSUME NEW n \in Nat, NEW table \in Seq([at : Now(n)]), table # << >>
  PROVE  LET latest == LatestBillingSnapshot(table) IN
         /\ \E i \in DOMAIN table : latest = table[i]
         /\ \A i \in DOMAIN table : table[i].at <= latest.at
<1> DEFINE stamps == {table[i].at : i \in DOMAIN table}
<1>1. 1 \in DOMAIN table /\ \A i \in DOMAIN table : table[i].at \in Now(n)
  <2>1. Len(table) \in Nat \ {0}
    BY EmptySeq
  <2> QED
    BY <2>1, BillDated
<1>2. /\ stamps \in SUBSET Nat /\ stamps # {}
      /\ \A at \in stamps : at <= n
  BY <1>1 DEF Now
<1>3. PICK at \in stamps : \A other \in stamps : other <= at
  BY <1>2, GreatestNatural
<1>4. PICK i \in DOMAIN table : table[i].at = at
  BY <1>3
<1>5. \E b \in {table[j] : j \in DOMAIN table} :
        \A j \in DOMAIN table : table[j].at <= b.at
  BY <1>3, <1>4
<1> QED
  BY <1>5 DEF LatestBillingSnapshot

\* Storing an invoice late never brings an older one back: the one shown, once
\* there is one, is never followed by an earlier one.
THEOREM CacheLatestAdvances == CacheSpec => LatestAdvances
<1>1. ASSUME CacheShapes, CacheShapes', [CacheNext]_cacheVars, bills # << >>
      PROVE  LatestBillingSnapshot(bills).at <= LatestBillingSnapshot(bills').at
  <2>1. \/ bills' = bills
        \/ \E p \in Writers : bills' = Append(bills, proc[p].bill)
    BY <1>1 DEF CacheNext, cacheVars, tables, Start, ListUsers, Inspect,
       FetchBilling, Priced, StoreKeys, DateKeys, StoreBill, StoreUsers,
       DateUsers, Killed, Unchanged, ActivityReportingProviders,
       GetInactiveUsers, GetProviderCredentials, ListCredentialSyncStates,
       Answered, Look, InsertBillingSnapshot
  <2>2. bills \in Seq([at : Now(clock)]) /\ bills' \in Seq([at : Now(clock')])
        /\ clock \in Nat /\ clock' \in Nat
    BY <1>1 DEF CacheShapes
  <2>3. /\ bills' # << >>
        /\ \A i \in DOMAIN bills : i \in DOMAIN bills' /\ bills'[i] = bills[i]
    BY <1>1, <2>1, <2>2
  <2>4. PICK i \in DOMAIN bills : LatestBillingSnapshot(bills) = bills[i]
    BY <1>1, <2>2, LatestIsLatest
  <2>5. bills'[i].at <= LatestBillingSnapshot(bills').at
    BY <2>2, <2>3, <2>4, LatestIsLatest
  <2> QED
    BY <2>3, <2>4, <2>5
<1> QED
  BY <1>1, CacheShaped, PTL DEF LatestAdvances, CacheSpec
=============================================================================
