------------------------------ MODULE Connector ------------------------------
(***************************************************************************)
(* One connector at work: ListUsers walks the vendor's accounts page by    *)
(* page, RemoveUser finds a seat and asks the vendor to take it away, and  *)
(* AddUser asks for a new one, each request a call of the shared client or *)
(* of the vendor's library, while the vendor's accounts change underneath. *)
(*                                                                         *)
(* Accounts are numbered in the order the vendor lists them.  Of a vendor  *)
(* that keeps to what a connector counts on nothing is wrong; `breaches`   *)
(* says where it does not: it serves pages shorter than asked (`capped`),  *)
(* states no total (`untold`), answers an empty page while more is to come *)
(* (`stalled`), or changes its accounts during a walk (`moved`).           *)
(***************************************************************************)
EXTENDS HttpClient, Connectors, FiniteSets

CONSTANTS
  Seats,       \* accounts: an interval of numbers from 1
  PageSize,    \* how many a request asks for
  MaxPages,    \* where ListSCIM and the Copilot walk give up
  Fleet,       \* the connectors of this run
  Hidden,      \* accounts whose address the vendor does not show
  Vendors,     \* the sets of breaches a vendor may start with
  MaxChanges, MaxCalls   \* bounds

ASSUME ConnectorAssumption ==
  /\ IsFiniteSet(Seats) /\ Seats = 1 .. Cardinality(Seats)
  /\ PageSize \in Nat \ {0} /\ MaxPages \in Nat \ {0}
  /\ Fleet \subseteq Catalog /\ Hidden \subseteq Seats
  /\ Vendors \subseteq SUBSET {"capped", "untold", "stalled"}

VARIABLES
  conn,      \* the connector
  breaches,  \* where the vendor does not keep to what is counted on
  account,   \* the vendor's accounts
  op,        \* what the connector is doing
  answer,    \* what the last successful request brought
  settled,   \* history: seats whose removal was reported, and not undone since
  changes, calls   \* bounds

vars == <<call, conn, breaches, account, op, answer, settled, changes, calls>>

Mail(s) == s                        \* the address of an account,
Login(s) == Cardinality(Seats) + s  \* another name of it,
Nameless == 0                       \* and neither.

Visible == {s \in Seats : account[s] \in conn.sees}
Rank(s, T) == Cardinality({t \in T : t <= s})

NoOp == [does |-> "nothing", target |-> Nameless, seat |-> 0, step |-> "over",
         pos |-> 0, pages |-> 0, count |-> 0, got |-> {}, stayed |-> {},
         outcome |-> "none"]

NoAnswer == [page |-> {}, total |-> 0, more |-> FALSE]

Init ==
  /\ call = Idle
  /\ conn \in Fleet
  /\ breaches \in Vendors
  /\ account = [s \in Seats |-> "active"]
  /\ op = NoOp
  /\ answer = NoAnswer
  /\ settled = {}
  /\ changes = 0 /\ calls = 0
-----------------------------------------------------------------------------
(* The vendor.                                                             *)

Served == IF "capped" \in breaches THEN 1 ELSE PageSize

\* The accounts that a request for the page at `pos` reaches, and the page.
Ahead(pos) ==
  CASE conn.walk.by = "once" -> Visible
    [] conn.walk.by = "cursor" -> {s \in Visible : s > pos}
    [] conn.walk.by = "page" ->
         {s \in Visible : Rank(s, Visible) > pos * Served}
    [] OTHER -> {s \in Visible : Rank(s, Visible) > pos}

Window(pos) ==
  IF conn.walk.by = "once" /\ "capped" \notin breaches THEN Visible
  ELSE {s \in Ahead(pos) : Rank(s, Ahead(pos)) <= Served}

\* What the list calls an account, when the addresses in `failed` could not
\* be looked up.
NameOf(s, failed) ==
  IF s \notin Hidden \cup failed \/ conn.names = "mail" THEN Mail(s)
  ELSE IF conn.names = "orNothing" THEN Nameless ELSE Login(s)

\* The answer to a request for a page.
Serve(page) ==
  \E failed \in IF conn.names = "lookup" THEN SUBSET page ELSE {{}} :
    answer' = [page |-> {[seat |-> s, name |-> NameOf(s, failed),
                          status |-> conn.tells[account[s]]] : s \in page},
               total |-> IF "untold" \in breaches THEN 0
                         ELSE Cardinality(Visible),
               more |-> Ahead(op.pos) # page]

\* The vendor's accounts change, perhaps under a walk that has begun.
Move(s, a) ==
  /\ changes < MaxChanges
  /\ changes' = changes + 1
  /\ account' = [account EXCEPT ![s] = a]
  /\ breaches' = IF op.step = "walk" THEN breaches \cup {"moved"} ELSE breaches
  /\ op' = [op EXCEPT !.stayed = IF a \in conn.sees THEN @ ELSE @ \ {s}]
  /\ UNCHANGED <<call, conn, answer, calls>>

Leave(s) == account[s] # "gone" /\ Move(s, "gone") /\ UNCHANGED settled

Disable(s) == account[s] = "active" /\ Move(s, "disabled") /\ UNCHANGED settled

Return(s) ==
  /\ account[s] \in {"gone", "disabled"}
  /\ \E a \in {"active", "pending"} : Move(s, a)
  /\ settled' = settled \ {s}
-----------------------------------------------------------------------------
(* The operations of a connector.                                          *)

Start(does, s, step, safe) ==
  /\ op.step = "over"
  /\ calls < MaxCalls
  /\ calls' = calls + 1
  /\ op' = [NoOp EXCEPT !.does = does, !.target = Mail(s), !.step = step,
                        !.seat = s, !.stayed = Visible]
  /\ call' = Request(safe)
  /\ breaches' = breaches \ {"moved"}
  /\ UNCHANGED <<conn, account, answer, settled, changes>>

ListUsers == Start("list", Nameless, "walk", conn.safe)

RemoveUser(s) ==
  \/ conn.finds = "crawl" /\ Start("remove", s, "walk", conn.safe)
  \/ conn.finds = "filter" /\ Start("remove", s, "filter", TRUE)
  \/ conn.finds = "direct" /\ Start("remove", s, "change", FALSE)

AddUser(s) == conn.adds /\ Start("add", s, "change", FALSE)

\* The operation ends, or goes on with another request.
End(last, outcome) ==
  /\ op' = [last EXCEPT !.step = "over", !.outcome = outcome]
  /\ call' = Idle /\ answer' = NoAnswer
Go(next, safe) ==
  op' = next /\ call' = Request(safe) /\ answer' = NoAnswer

Others == <<conn, breaches, account, settled, changes, calls>>

\* The shared client sends a limited or unanswered request again, if it may; a
\* library makes an error of it at once, as of a refusal or a cancellation.
Again(carried) ==
  /\ conn.client = "shared"
  /\ Break(carried) \/ (~carried /\ Limit)
-----------------------------------------------------------------------------
(* Reading the list.                                                       *)

PageServed ==
  /\ op.step = "walk"
  /\ Succeed
  /\ \E page \in {Window(op.pos)}
                 \cup (IF "stalled" \in breaches THEN {{}} ELSE {}) : Serve(page)
  /\ UNCHANGED <<conn, breaches, account, op, settled, changes, calls>>

\* A filtered request brings the seat itself; some tenants match nothing.
FilterServed ==
  /\ op.step = "filter"
  /\ Succeed
  /\ \E page \in {{s \in Visible : NameOf(s, {}) = op.target}, {}} : Serve(page)
  /\ UNCHANGED <<conn, breaches, account, op, settled, changes, calls>>

ReadFails ==
  /\ op.step \in {"walk", "filter"}
  /\ Undecodable \/ Refuse \/ Again(FALSE) \/ Cancel(FALSE)
  /\ UNCHANGED <<op, answer, Others>>

\* Mutant: a short page always ends the walk.
Over_Short(count) ==
  conn.walk.by = "once" \/ Cardinality(answer.page) < PageSize

\* Whether the page just read was the last; `count` is all that was read.
Over(count) ==
  LET rules == conn.walk.until
      empty == answer.page = {}
      short == Cardinality(answer.page) < PageSize IN
  \/ conn.walk.by = "once"
  \/ "noMore" \in rules /\ ~answer.more
  \/ "empty" \in rules /\ empty
  \/ "short" \in rules /\ short
  \/ "total" \in rules /\ count >= answer.total
  \/ "reach" \in rules /\ op.pos + PageSize >= answer.total
  \/ "pages" \in rules /\ (op.pos + 1) * Served >= answer.total
  \/ "cap" \in rules /\ op.pages + 1 = MaxPages
  \/ "scim" \in rules /\ \/ empty
                         \/ answer.total > 0 /\ count >= answer.total
                         \/ short /\ answer.total <= count

\* Mutant: no limit on the pages.
Stuck_Stalled(count) ==
  "scim" \in conn.walk.until /\ answer.page = {} /\ answer.total > op.count

\* ListSCIM fails on an empty page that leaves results owed, and on too many
\* pages.
Stuck(count) ==
  /\ "scim" \in conn.walk.until
  /\ \/ answer.page = {} /\ answer.total > op.count
     \/ ~Over(count) /\ op.pages + 1 = MaxPages

\* Only these two count their pages.
NextPages ==
  IF conn.walk.until \cap {"scim", "cap"} # {} THEN op.pages + 1 ELSE op.pages

\* The position of the next page.
NextPos ==
  CASE answer.page = {} /\ conn.walk.by = "cursor" -> op.pos
    [] answer.page # {} /\ conn.walk.by = "cursor" ->
         CHOOSE p \in {e.seat : e \in answer.page} :
           \A e \in answer.page : e.seat <= p
    [] conn.walk.by = "page" -> op.pos + 1
    [] conn.walk.by = "returned" -> op.pos + Cardinality(answer.page)
    [] OTHER -> op.pos + PageSize

\* Mutant: an account without an address passes for anybody's.
Found_Nameless(list) == {e \in list : e.name \in {op.target, Nameless}}

Found(list) == {e \in list : e.name = op.target}

\* The page is taken in, and the walk goes on, fails, or ends: a listing is
\* returned, a removal goes for the seat it looked for.
TurnPage ==
  LET count == op.count + Cardinality(answer.page)
      read == [op EXCEPT !.got = @ \cup answer.page, !.count = count,
                         !.pages = NextPages, !.pos = NextPos] IN
  /\ op.step = "walk"
  /\ call.phase = "answered" /\ call.verdict = "ok"
  /\ CASE Stuck(count) -> End(op, "error")
       [] ~Stuck(count) /\ ~Over(count) -> Go(read, conn.safe)
       [] OTHER ->
            \/ op.does = "list" /\ End(read, "ok")
            \/ /\ op.does = "remove"
               /\ \E e \in Found(read.got) :
                    Go([read EXCEPT !.step = "change", !.seat = e.seat], FALSE)
            \/ /\ op.does = "remove" /\ Found(read.got) = {}
               /\ End(read, "notFound")
  /\ UNCHANGED Others

\* Slack's lookup: without a match it pays for the crawl.
TurnFilter ==
  /\ op.step = "filter"
  /\ call.phase = "answered"
  /\ IF call.verdict = "ok" /\ Found(answer.page) # {}
     THEN \E e \in Found(answer.page) :
            Go([op EXCEPT !.step = "change", !.seat = e.seat], FALSE)
     ELSE Go([op EXCEPT !.step = "walk", !.stayed = Visible], conn.safe)
  /\ UNCHANGED Others
-----------------------------------------------------------------------------
(* Changing an account.                                                    *)

Becomes ==
  CASE op.does = "add" -> "pending"
    [] op.does # "add" /\ conn.does = "deletes" -> "gone"
    [] op.does # "add" /\ conn.does = "deactivates" -> "disabled"
    [] OTHER -> account[op.seat]

\* The vendor carries the request out; the answer may still be lost.
ChangeServed ==
  /\ op.step = "change"
  /\ (op.does = "add") = (account[op.seat] = "gone")
  /\ Succeed \/ (~conn.safe /\ Undecodable) \/ Again(TRUE) \/ Cancel(TRUE)
  /\ account' = [account EXCEPT ![op.seat] = Becomes]
  /\ settled' = IF op.does = "add" THEN settled \ {op.seat}
                ELSE IF call'.verdict = "ok" THEN settled \cup {op.seat}
                ELSE settled
  /\ UNCHANGED <<conn, breaches, op, answer, changes, calls>>

ChangeFails ==
  /\ op.step = "change"
  /\ Refuse \/ Again(FALSE) \/ Cancel(FALSE)
  /\ UNCHANGED <<op, answer, Others>>

\* The verdict of the client is the operation's.
Conclude ==
  /\ \/ op.step = "change"
     \/ op.step = "walk" /\ call.verdict # "ok"
  /\ call.phase = "answered"
  /\ End(op, IF call.verdict = "ok" THEN "ok" ELSE "error")
  /\ UNCHANGED Others

Pause == (CancelWait \/ Resend) /\ UNCHANGED <<op, answer, Others>>

Answer == PageServed \/ FilterServed \/ ReadFails \/ ChangeServed \/ ChangeFails
Proceed == TurnPage \/ TurnFilter \/ Conclude

Next ==
  \/ ListUsers
  \/ \E s \in Seats : RemoveUser(s) \/ AddUser(s)
                      \/ Leave(s) \/ Disable(s) \/ Return(s)
  \/ PageServed \/ FilterServed \/ ReadFails \/ ChangeServed \/ ChangeFails
  \/ TurnPage \/ TurnFilter \/ Conclude
  \/ Pause

Spec == Init /\ [][Next]_vars

\* The shared client's own timeout ends every wait for an answer, its backoff is
\* bounded, and a process runs on.  A library waits for as long as the vendor
\* lets it.
FairSpec ==
  /\ Spec
  /\ WF_vars(conn.client = "shared" /\ Answer)
  /\ WF_vars(Proceed) /\ WF_vars(Pause)
-----------------------------------------------------------------------------
(* Properties.                                                             *)

Entry == [seat : Seats, name : 0 .. 2 * Cardinality(Seats),
          status : {"active", "suspended", "invited", "other"}]

\* The type of the state.
TypeOK ==
  /\ call \in CallType
  /\ conn \in Fleet
  /\ breaches \subseteq {"capped", "untold", "stalled", "moved"}
  /\ account \in [Seats -> Accounts \cup {"gone"}]
  /\ op.step \in {"over", "filter", "walk", "change"}
  /\ op.outcome \in {"none", "ok", "error", "notFound"}
  /\ op.pages <= MaxPages
  /\ op.got \subseteq Entry /\ answer.page \subseteq Entry
  /\ op.stayed \subseteq Seats /\ settled \subseteq Seats

\* What a walk counts on.  An offset shifts when accounts move; a walk that
\* asks once, or takes a short page for the last, counts on pages as long as
\* asked, and so does one that skips what it asked for; a walk that compares
\* with a total counts on being told it; and an empty page must not come
\* early.  ListSCIM counts on neither full pages nor a total, but on one of
\* the two, and on nobody moving.
Reliable(w) ==
  /\ w.by \in {"page", "returned", "requested"} => "moved" \notin breaches
  /\ w.by \in {"once", "requested"} \/ "short" \in w.until
       => "capped" \notin breaches
  /\ w.until \cap {"total", "reach", "pages"} # {} => "untold" \notin breaches
  /\ w.by \in {"once", "page", "requested"} \/ w.until \cap {"short", "empty"} # {}
       => "stalled" \notin breaches
  /\ "scim" \in w.until /\ "untold" \in breaches
       => breaches \cap {"capped", "stalled"} = {}
  /\ "cap" \in w.until => op.pages < MaxPages

\* A listing that is returned without an error names everybody who was there
\* all along, and RemoveUser finds whoever was, if the vendor keeps to what
\* that connector counts on: the next pass takes whoever is missing for
\* somebody without a seat (ListSCIM's comment on partial lists).
Complete ==
  op.step = "over" /\ Reliable(conn.walk) =>
    /\ op.does = "list" /\ op.outcome = "ok"
         => op.stayed \subseteq {e.seat : e \in op.got}
    /\ op.outcome = "notFound" /\ conn.names # "lookup"
         => \A s \in op.stayed : NameOf(s, {}) # op.target

\* A request that changes something is carried out at most once whatever
\* fails and is sent again, and exactly once when it is reported done (the
\* retry policy of Do).
CarriedOnce ==
  op.step = "change" =>
    /\ call.acted <= 1
    /\ call.verdict = "ok" => call.acted = 1

\* A seat whose removal was reported, and which nobody gave back, is listed by
\* no later pass as a seat in use: it would be scheduled for removal again,
\* for ever.  A connector that only marks its user as away cannot keep this.
RemovalShows ==
  op.step = "over" /\ op.does = "list" /\ conn.does # "away" =>
    \A e \in op.got : e.seat \in settled => e.status = "suspended"

\* Whatever is found in the list, filtered or not, only the account that
\* carries the address to remove is ever touched (RemoveUser).
OnlyTheNamed ==
  [][\A s \in Seats :
       account'[s] # account[s] /\ changes' = changes => Mail(s) = op.target]_vars

\* Every operation over the shared client ends: retries are bounded, and so is
\* every walk, unless a vendor answers empty pages for ever to a walk that only
\* stops when told to.
Patient(w) ==
  /\ w.by \in {"cursor", "returned"}
  /\ w.until \cap {"scim", "short", "empty"} = {}
Terminates ==
  (/\ op.step # "over" /\ conn.client = "shared"
   /\ ~(Patient(conn.walk) /\ "stalled" \in breaches))
    ~> (op.step = "over")
-----------------------------------------------------------------------------
\* A removed seat is gone from the list, as ActionMatrix declares of every
\* connector that can remove (verification absent_on_rescan).
AbsentOnRescan ==
  op.step = "over" /\ op.does = "list" /\ conn.does # "away" =>
    \A e \in op.got : e.seat \notin settled
\* A listing without an error is never partial.
NeverPartial ==
  op.step = "over" /\ op.does = "list" /\ op.outcome = "ok"
    => op.stayed \subseteq {e.seat : e \in op.got}
=============================================================================
