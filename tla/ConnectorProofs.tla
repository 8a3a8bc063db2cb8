--------------------------- MODULE ConnectorProofs ---------------------------
(***************************************************************************)
(* Proofs about Connector, for any connectors of the catalogue, vendors,   *)
(* page sizes, numbers of retries and bounds: a request that changes       *)
(* something is carried out at most once, and changes the account it was   *)
(* meant for; what was removed is listed as removed; and, if the vendor    *)
(* keeps to what that connector counts on, a walk that ends without an     *)
(* error has read everybody who was there all along, and a listing of      *)
(* accounts that stand still is what the vendor holds; and unless a vendor *)
(* stalls it, an operation makes only finitely many steps.                 *)
(***************************************************************************)
EXTENDS Connector, NaturalFacts, FiniteSetTheorems, TLAPS

\* The call of a request that changes something: nobody carried it out while
\* it may be sent again.
Changing(c) ==
  /\ ~c.safe
  /\ c.phase \in {"sent", "waiting", "answered"}
  /\ c.phase # "answered" => c.acted = 0 /\ c.verdict # "ok"
  /\ c.phase = "answered" =>
       c.acted \in {0, 1} /\ (c.verdict = "ok" => c.acted = 1)

CallInv ==
  /\ DOMAIN call = DOMAIN Idle
  /\ op.step = "change" => Changing(call)

\* An entry of the list carries one of its account's own names, or none.
EntryOK(e) == e.seat \in Seats /\ e.name \in {Mail(e.seat), Nameless, Login(e.seat)}

\* Whatever changes an account looks for it by its address, and has found it.
OpOK(o, page) ==
  /\ DOMAIN o = DOMAIN NoOp
  /\ o.step \in {"over", "walk", "filter", "change"}
  /\ o.step # "over" /\ o.does # "list" => o.target \in Seats
  /\ o.step \in {"filter", "change"} => o.does # "list"
  /\ o.step = "change" => o.seat = o.target
  /\ \A e \in o.got \cup page : EntryOK(e)

ConnInv == CallInv /\ OpOK(op, answer.page) /\ changes \in Nat
-----------------------------------------------------------------------------
(* The client.                                                             *)

Client(carried) ==
  \/ Succeed \/ Undecodable \/ Refuse \/ Limit
  \/ Break(carried) \/ Cancel(carried) \/ CancelWait \/ Resend

LEMMA ClientShape ==
  ASSUME DOMAIN call = DOMAIN Idle, NEW carried \in BOOLEAN, Client(carried)
  PROVE  DOMAIN call' = DOMAIN Idle
BY DEF Client, Succeed, Undecodable, Refuse, Limit, Break, Cancel, CancelWait,
   Resend, Retry, Answered

\* An answer that ends a call keeps what Changing says of it.
LEMMA AnsweredOnce ==
  ASSUME DOMAIN call = DOMAIN Idle, Changing(call), call.phase # "answered",
         NEW verdict, NEW carried \in BOOLEAN,
         verdict = "ok" => carried, Answered(verdict, carried)
  PROVE  Changing(call')
<1>1. /\ call'.phase = "answered" /\ call'.verdict = verdict
      /\ call'.acted = call.acted + (IF carried THEN 1 ELSE 0)
      /\ call'.safe = call.safe
  BY DEF Answered, Idle
<1> QED
  BY <1>1 DEF Changing

\* A request that is not safe is sent again only if it was rate-limited.
LEMMA ClientOnce ==
  ASSUME DOMAIN call = DOMAIN Idle, Changing(call),
         NEW carried \in BOOLEAN, Client(carried)
  PROVE  Changing(call')
<1>1. CASE Succeed
  BY <1>1, AnsweredOnce DEF Succeed
<1>2. CASE Undecodable
  BY <1>2, AnsweredOnce DEF Undecodable
<1>3. CASE Refuse
  BY <1>3, AnsweredOnce DEF Refuse
<1>4. CASE Limit
  <2>1. CASE Retryable(TRUE)
    <3>1. call' = [call EXCEPT !.phase = "waiting",
                               !.acted = call.acted + 0]
      BY <1>4, <2>1 DEF Limit, Retry
    <3>2. call.phase = "sent"
      BY <1>4 DEF Limit
    <3>3. /\ call'.phase = "waiting" /\ call'.acted = call.acted + 0
          /\ call'.safe = call.safe /\ call'.verdict = call.verdict
      BY <3>1 DEF Idle
    <3> QED
      BY <3>2, <3>3 DEF Changing
  <2>2. CASE ~Retryable(TRUE)
    BY <1>4, <2>2, AnsweredOnce DEF Limit, Retry
  <2> QED
    BY <2>1, <2>2
<1>5. CASE Break(carried)
  <2>1. ~Retryable(FALSE)
    BY DEF Retryable, Changing
  <2> QED
    BY <1>5, <2>1, AnsweredOnce DEF Break, Retry
<1>6. CASE Cancel(carried)
  BY <1>6, AnsweredOnce DEF Cancel
<1>7. CASE CancelWait
  BY <1>7, AnsweredOnce DEF CancelWait
<1>8. CASE Resend
  <2>1. /\ call'.phase = "sent" /\ call'.acted = call.acted
        /\ call'.safe = call.safe /\ call'.verdict = call.verdict
        /\ call.phase = "waiting"
    BY <1>8 DEF Resend, Idle
  <2> QED
    BY <2>1 DEF Changing
<1> QED
  BY <1>1, <1>2, <1>3, <1>4, <1>5, <1>6, <1>7, <1>8 DEF Client

LEMMA RequestShape ==
  ASSUME NEW safe
  PROVE  /\ DOMAIN Request(safe) = DOMAIN Idle
         /\ Request(safe).safe = safe /\ Request(safe).phase = "sent"
         /\ Request(safe).acted = 0 /\ Request(safe).verdict = "none"
BY DEF Request, Idle

LEMMA RequestChanging == Changing(Request(FALSE))
BY RequestShape DEF Changing

\* The step of a client for an operation that goes on as it was.
LEMMA ClientInv ==
  ASSUME CallInv, NEW carried \in BOOLEAN, Client(carried), op' = op
  PROVE  CallInv'
BY ClientShape, ClientOnce DEF CallInv
-----------------------------------------------------------------------------
(* The list.                                                               *)

\* Who carries the address of a seat in the list is that seat.
LEMMA NamedIsIt ==
  ASSUME NEW e, EntryOK(e), NEW t \in Seats, e.name = t
  PROVE  e.seat = t
<1>1. Cardinality(Seats) \in Nat
  BY ConnectorAssumption, FS_CardinalityType
<1>2. /\ t \in 1 .. Cardinality(Seats) /\ e.seat \in 1 .. Cardinality(Seats)
  BY ConnectorAssumption DEF EntryOK
<1> QED
  BY <1>1, <1>2 DEF EntryOK, Mail, Nameless, Login

LEMMA WindowSeats ==
  ASSUME NEW pos
  PROVE  Window(pos) \subseteq Seats
<1>1. Visible \subseteq Seats
  BY DEF Visible
<1>2. Ahead(pos) \subseteq Visible
  BY DEF Ahead
<1> QED
  BY <1>1, <1>2 DEF Window

LEMMA ServeEntries ==
  ASSUME NEW page \in SUBSET Seats, Serve(page)
  PROVE  \A e \in answer'.page : EntryOK(e)
<1>1. PICK failed :
        answer'.page = {[seat |-> s, name |-> NameOf(s, failed),
                         status |-> conn.tells[account[s]]] : s \in page}
  BY DEF Serve
<1>2. ASSUME NEW s \in page
      PROVE  NameOf(s, failed) \in {Mail(s), Nameless, Login(s)}
  BY DEF NameOf
<1> QED
  BY <1>1, <1>2 DEF EntryOK
-----------------------------------------------------------------------------
(* The actions.                                                            *)

\* An operation ends, or goes on with another request.
LEMMA EndInv ==
  ASSUME NEW last, NEW page, NEW outcome, OpOK(last, page), End(last, outcome),
         changes \in Nat, changes' = changes
  PROVE  ConnInv'
<1>1. /\ DOMAIN op' = DOMAIN last /\ op'.step = "over"
      /\ op'.got = last.got /\ answer'.page = {} /\ call' = Idle
  BY DEF End, OpOK, NoOp, NoAnswer
<1>2. OpOK(op', answer'.page)
  BY <1>1 DEF OpOK
<1>3. CallInv'
  BY <1>1 DEF CallInv
<1> QED
  BY <1>2, <1>3 DEF ConnInv

LEMMA GoInv ==
  ASSUME NEW next, OpOK(next, {}), NEW safe,
         next.step = "change" => safe = FALSE,
         Go(next, safe), changes \in Nat, changes' = changes
  PROVE  ConnInv'
<1>1. op' = next /\ answer'.page = {} /\ call' = Request(safe)
  BY DEF Go, NoAnswer
<1>2. CallInv'
  BY <1>1, RequestShape, RequestChanging DEF CallInv
<1> QED
  BY <1>1, <1>2 DEF ConnInv

LEMMA StartInv ==
  ASSUME ConnInv, NEW does, NEW s, NEW step \in {"walk", "filter", "change"},
         NEW safe, Start(does, s, step, safe),
         does # "list" => s \in Seats,
         step \in {"filter", "change"} => does # "list",
         step = "change" => safe = FALSE
  PROVE  ConnInv'
<1> DEFINE next == [NoOp EXCEPT !.does = does, !.target = Mail(s),
                      !.step = step, !.seat = s, !.stayed = Visible]
<1>1. /\ op' = next /\ call' = Request(safe)
      /\ answer' = answer /\ changes' = changes
  BY DEF Start
<1>2. /\ DOMAIN next = DOMAIN NoOp /\ next.does = does /\ next.target = s
      /\ next.step = step /\ next.seat = s /\ next.got = {}
  BY DEF NoOp, Mail
<1> HIDE DEF next
<1>3. OpOK(next, answer.page)
  BY <1>2 DEF OpOK, ConnInv
<1>4. CallInv'
  BY <1>1, <1>2, RequestShape, RequestChanging DEF CallInv
<1> QED
  BY <1>1, <1>3, <1>4 DEF ConnInv

LEMMA OperationsInv ==
  ASSUME ConnInv, ListUsers \/ \E s \in Seats : RemoveUser(s) \/ AddUser(s)
  PROVE  ConnInv'
<1>1. CASE ListUsers
  BY <1>1, StartInv DEF ListUsers
<1>2. ASSUME NEW s \in Seats, RemoveUser(s)
      PROVE  ConnInv'
  BY <1>2, StartInv DEF RemoveUser
<1>3. ASSUME NEW s \in Seats, AddUser(s)
      PROVE  ConnInv'
  BY <1>3, StartInv DEF AddUser
<1> QED
  BY <1>1, <1>2, <1>3

LEMMA MoveInv ==
  ASSUME ConnInv, NEW s \in Seats, NEW a, Move(s, a)
  PROVE  ConnInv'
<1>1. /\ DOMAIN op' = DOMAIN op /\ op'.step = op.step /\ op'.does = op.does
      /\ op'.target = op.target /\ op'.seat = op.seat /\ op'.got = op.got
  BY DEF Move, ConnInv, OpOK, NoOp
<1>2. answer' = answer /\ call' = call /\ changes' = changes + 1
  BY DEF Move
<1>3. OpOK(op', answer'.page)
  BY <1>1, <1>2 DEF ConnInv, OpOK
<1>4. CallInv'
  BY <1>1, <1>2 DEF ConnInv, CallInv
<1> QED
  BY <1>2, <1>3, <1>4 DEF ConnInv

\* A page arrives.
LEMMA ServedInv ==
  ASSUME ConnInv, PageServed \/ FilterServed
  PROVE  ConnInv'
<1>1. Succeed /\ op' = op /\ changes' = changes
  BY DEF PageServed, FilterServed
<1>2. PICK page \in SUBSET Seats : Serve(page)
  <2>1. CASE PageServed
    BY <2>1, WindowSeats DEF PageServed
  <2>2. CASE FilterServed
    <3>1. Visible \subseteq Seats
      BY DEF Visible
    <3> QED
      BY <2>2, <3>1 DEF FilterServed
  <2> QED
    BY <2>1, <2>2
<1>3. \A e \in answer'.page : EntryOK(e)
  BY <1>2, ServeEntries
<1>4. OpOK(op', answer'.page)
  BY <1>1, <1>3 DEF ConnInv, OpOK
<1>5. CallInv'
  BY <1>1, ClientInv DEF ConnInv, Client
<1> QED
  BY <1>1, <1>4, <1>5 DEF ConnInv

\* Whatever else becomes of a request leaves the operation as it is.
LEMMA CarriedInv ==
  ASSUME ConnInv, ReadFails \/ ChangeServed \/ ChangeFails \/ Pause
  PROVE  ConnInv'
<1>1. op' = op /\ answer' = answer /\ changes' = changes
  BY DEF ReadFails, ChangeServed, ChangeFails, Pause, Others
<1>2. Client(TRUE) \/ Client(FALSE)
  BY DEF ReadFails, ChangeServed, ChangeFails, Pause, Client, Again
<1>3. CallInv'
  BY <1>1, <1>2, ClientInv DEF ConnInv
<1> QED
  BY <1>1, <1>3 DEF ConnInv

LEMMA ConcludeInv ==
  ASSUME ConnInv, Conclude
  PROVE  ConnInv'
<1>1. /\ \E outcome : End(op, outcome)
      /\ changes' = changes
  BY DEF Conclude, Others
<1> QED
  BY <1>1, EndInv DEF ConnInv

\* The seat that was looked for, or a crawl in its place.
LEMMA TurnFilterInv ==
  ASSUME ConnInv, TurnFilter
  PROVE  ConnInv'
<1>1. /\ op.step = "filter" /\ op.does # "list" /\ op.target \in Seats
      /\ DOMAIN op = DOMAIN NoOp
      /\ \A e \in op.got \cup answer.page : EntryOK(e)
      /\ changes \in Nat /\ changes' = changes
  BY DEF TurnFilter, ConnInv, OpOK, Others
<1>2. CASE call.verdict = "ok" /\ Found(answer.page) # {}
  <2>1. PICK e \in Found(answer.page) :
          Go([op EXCEPT !.step = "change", !.seat = e.seat], FALSE)
    BY <1>2 DEF TurnFilter
  <2>2. e.seat = op.target
    BY <1>1, <2>1, NamedIsIt DEF Found
  <2> DEFINE next == [op EXCEPT !.step = "change", !.seat = e.seat]
  <2>3. /\ DOMAIN next = DOMAIN NoOp /\ next.step = "change"
        /\ next.seat = e.seat /\ next.target = op.target
        /\ next.does = op.does /\ next.got = op.got
    BY <1>1 DEF NoOp
  <2>4. Go(next, FALSE)
    BY <2>1
  <2> HIDE DEF next
  <2>5. OpOK(next, {})
    BY <1>1, <2>2, <2>3 DEF OpOK
  <2> QED
    BY <1>1, <2>4, <2>5, GoInv
<1>3. CASE ~(call.verdict = "ok" /\ Found(answer.page) # {})
  <2> DEFINE next == [op EXCEPT !.step = "walk", !.stayed = Visible]
  <2>1. Go(next, conn.safe)
    BY <1>3 DEF TurnFilter
  <2>2. /\ DOMAIN next = DOMAIN NoOp /\ next.step = "walk"
        /\ next.target = op.target /\ next.does = op.does /\ next.got = op.got
    BY <1>1 DEF NoOp
  <2> HIDE DEF next
  <2>3. OpOK(next, {})
    BY <1>1, <2>2 DEF OpOK
  <2> QED
    BY <1>1, <2>1, <2>2, <2>3, GoInv
<1> QED
  BY <1>2, <1>3

\* A page is taken in; what is changed next is the seat that was looked for.
LEMMA TurnPageInv ==
  ASSUME ConnInv, TurnPage
  PROVE  ConnInv'
<1> DEFINE count == op.count + Cardinality(answer.page)
           pages == NextPages
           pos == NextPos
           read == [op EXCEPT !.got = op.got \cup answer.page,
                      !.count = count, !.pages = pages, !.pos = pos]
<1>1. /\ op.step = "walk" /\ DOMAIN op = DOMAIN NoOp
      /\ op.does # "list" => op.target \in Seats
      /\ \A e \in op.got \cup answer.page : EntryOK(e)
      /\ changes \in Nat /\ changes' = changes
  BY DEF TurnPage, ConnInv, OpOK, Others
<1>2. \/ End(op, "error") \/ Go(read, conn.safe)
      \/ End(read, "ok") \/ End(read, "notFound")
      \/ /\ op.does = "remove"
         /\ \E e \in Found(read.got) :
              Go([read EXCEPT !.step = "change", !.seat = e.seat], FALSE)
  BY DEF TurnPage
<1> HIDE DEF count, pages, pos
<1>3. /\ DOMAIN read = DOMAIN NoOp /\ read.step = "walk"
      /\ read.does = op.does /\ read.target = op.target
      /\ read.got = op.got \cup answer.page
  BY <1>1 DEF NoOp
<1> HIDE DEF read
<1>4. OpOK(read, {})
  BY <1>1, <1>3 DEF OpOK
<1>5. OpOK(op, answer.page)
  BY DEF ConnInv
<1>6. ASSUME NEW e \in Found(read.got), op.does = "remove",
             Go([read EXCEPT !.step = "change", !.seat = e.seat], FALSE)
      PROVE  ConnInv'
  <2>1. e.seat = op.target
    BY <1>1, <1>3, <1>6, NamedIsIt DEF Found
  <2> DEFINE next == [read EXCEPT !.step = "change", !.seat = e.seat]
  <2>2. /\ DOMAIN next = DOMAIN NoOp /\ next.step = "change"
        /\ next.seat = e.seat /\ next.target = read.target
        /\ next.does = read.does /\ next.got = read.got
    BY <1>3 DEF NoOp
  <2>3. Go(next, FALSE)
    BY <1>6
  <2> HIDE DEF next
  <2>4. OpOK(next, {})
    BY <1>1, <1>3, <1>6, <2>1, <2>2 DEF OpOK
  <2> QED
    BY <1>1, <2>3, <2>4, GoInv
<1>7. read.step # "change"
  BY <1>3
<1> QED
  BY <1>1, <1>2, <1>4, <1>5, <1>6, <1>7, EndInv, GoInv
-----------------------------------------------------------------------------
(* The invariant.                                                          *)

LEMMA ConnInitInv == Init => ConnInv
<1> SUFFICES ASSUME Init PROVE ConnInv
  OBVIOUS
<1>1. /\ op = NoOp /\ answer.page = {} /\ call = Idle /\ changes = 0
  BY DEF Init, NoAnswer
<1>2. OpOK(op, answer.page)
  BY <1>1 DEF OpOK, NoOp
<1>3. CallInv
  BY <1>1 DEF CallInv, NoOp
<1> QED
  BY <1>1, <1>2, <1>3 DEF ConnInv

LEMMA ConnNextInv == ConnInv /\ [Next]_vars => ConnInv'
<1> SUFFICES ASSUME ConnInv, [Next]_vars PROVE ConnInv'
  OBVIOUS
<1>1. ASSUME NEW s \in Seats, Leave(s) \/ Disable(s) \/ Return(s)
      PROVE  ConnInv'
  BY <1>1, MoveInv DEF Leave, Disable, Return
<1>2. CASE UNCHANGED vars
  BY <1>2 DEF vars, ConnInv, CallInv
<1> QED
  BY <1>1, <1>2, OperationsInv, ServedInv, CarriedInv, ConcludeInv,
     TurnFilterInv, TurnPageInv DEF Next

\* The inductive invariant: nobody has carried out a change that may be sent
\* again, and the account in hand is the one that was named.
THEOREM ConnectorInvariant == Spec => []ConnInv
BY ConnInitInv, ConnNextInv, PTL DEF Spec

\* A request that changes something is carried out at most once whatever fails
\* and is sent again, and exactly once when it is reported done.
THEOREM ConnectorCarriesOnce == Spec => []CarriedOnce
<1>1. ConnInv => CarriedOnce
  BY DEF ConnInv, CallInv, Changing, CarriedOnce
<1> QED
  BY <1>1, ConnectorInvariant, PTL

\* Only the account that carries the address to remove is ever touched.
THEOREM ConnectorTouchesOnlyTheNamed == Spec => OnlyTheNamed
<1>1. ConnInv /\ [Next]_vars =>
        [\A s \in Seats : account'[s] # account[s] /\ changes' = changes
                            => Mail(s) = op.target]_vars
  <2> SUFFICES ASSUME ConnInv, Next, NEW s \in Seats,
                      account'[s] # account[s], changes' = changes
               PROVE  Mail(s) = op.target
    OBVIOUS
  <2>1. ASSUME NEW t \in Seats, NEW a, Move(t, a)
        PROVE  FALSE
    BY <2>1 DEF Move, ConnInv
  <2>2. ChangeServed
    BY <2>1 DEF Next, ListUsers, RemoveUser, AddUser, Start, Leave, Disable,
       Return, PageServed, FilterServed, ReadFails, ChangeFails, TurnPage,
       TurnFilter, Conclude, Pause, Others
  <2>3. s = op.seat /\ op.seat = op.target
    BY <2>2 DEF ChangeServed, ConnInv, OpOK
  <2> QED
    BY <2>3 DEF Mail
<1> QED
  BY <1>1, ConnectorInvariant, PTL DEF Spec, OnlyTheNamed
-----------------------------------------------------------------------------
(* What the connectors of the catalogue have in common.                    *)

Statuses == {"active", "suspended", "invited", "other"}
Offsets == {"page", "returned", "requested"}

WalkOK(w) ==
  /\ w.by \in {"once", "cursor"} \cup Offsets
  /\ w.by = "once" => w.until = {}
  /\ w.by = "cursor" => w.until \in {{"noMore"}, {"short"}}
  /\ w.by \in Offsets =>
       w.until \subseteq {"noMore", "empty", "short", "total", "reach", "pages",
                          "cap", "scim"}
  /\ w.by \in {"page", "requested"} =>
       w.until \cap {"noMore", "empty", "short", "reach"} # {}
  /\ w.by = "returned" => w.until \in {{"scim"}, {"total"}}
  /\ "total" \in w.until => w.by \in {"page", "returned"}
  /\ "reach" \in w.until => w.by = "requested"
  /\ "pages" \in w.until => w.by = "page"
  /\ "scim" \in w.until => w.by = "returned"

TraitsOK(c) ==
  /\ c.client \in {"shared", "library"}
  /\ c.safe \in BOOLEAN /\ c.sees \subseteq Accounts
  /\ c.tells \in [Accounts -> Statuses]
  /\ c.does \in {"deletes", "deactivates", "away"}
  /\ c.does = "deactivates" /\ "disabled" \in c.sees
       => c.tells["disabled"] = "suspended"
  /\ WalkOK(c.walk)

LEMMA Tellings ==
  /\ Flagged \in [Accounts -> Statuses] /\ Flagged["disabled"] = "suspended"
  /\ Precise \in [Accounts -> Statuses] /\ Precise["disabled"] = "suspended"
  /\ Inviting \in [Accounts -> Statuses] /\ Blind \in [Accounts -> Statuses]
  /\ Verbatim \in [Accounts -> Statuses]
BY DEF Flagged, Precise, Inviting, Blind, Verbatim, Telling, Accounts, Statuses

LEMMA WalksOK ==
  /\ WalkOK(Once) /\ WalkOK(Scim)
  /\ WalkOK(Cursor({"noMore"})) /\ WalkOK(Cursor({"short"}))
  /\ WalkOK(Numbered({"noMore"})) /\ WalkOK(Numbered({"total", "empty"}))
  /\ WalkOK(Numbered({"short"})) /\ WalkOK(Numbered({"empty", "short"}))
  /\ WalkOK(Numbered({"empty"})) /\ WalkOK(Numbered({"empty", "pages"}))
  /\ WalkOK(Numbered({"empty", "short", "cap"}))
  /\ WalkOK(Numbered({"empty", "noMore"}))
  /\ WalkOK(Requested({"reach"})) /\ WalkOK(Requested({"noMore"}))
  /\ WalkOK(Returned({"total"}))
<1>1. WalkOK(Once) /\ WalkOK(Scim)
  BY DEF WalkOK, Once, Scim, Returned, Offsets
<1>2. WalkOK(Cursor({"noMore"})) /\ WalkOK(Cursor({"short"}))
  BY DEF WalkOK, Cursor, Offsets
<1>3. /\ WalkOK(Numbered({"noMore"})) /\ WalkOK(Numbered({"total", "empty"}))
      /\ WalkOK(Numbered({"short"})) /\ WalkOK(Numbered({"empty", "short"}))
      /\ WalkOK(Numbered({"empty"})) /\ WalkOK(Numbered({"empty", "pages"}))
      /\ WalkOK(Numbered({"empty", "short", "cap"}))
      /\ WalkOK(Numbered({"empty", "noMore"}))
  BY DEF WalkOK, Numbered, Offsets
<1>4. /\ WalkOK(Requested({"reach"})) /\ WalkOK(Requested({"noMore"}))
      /\ WalkOK(Returned({"total"}))
  BY DEF WalkOK, Requested, Returned, Offsets
<1> QED
  BY <1>1, <1>2, <1>3, <1>4

LEMMA CatalogTraits == \A c \in Catalog : TraitsOK(c)
<1>1. /\ TraitsOK(Slack) /\ TraitsOK(Atlassian) /\ TraitsOK(AwsIam)
      /\ TraitsOK(Notion)
  BY Tellings, WalksOK DEF TraitsOK, Slack, Atlassian, AwsIam, Notion,
     CommonScim, Common, Accounts
<1>2. TraitsOK(Canva) /\ TraitsOK(Stripe) /\ TraitsOK(Rippling)
  BY Tellings, WalksOK DEF TraitsOK, Canva, Stripe, Rippling, CommonScim,
     Common, Accounts
<1>3. /\ TraitsOK(Databricks) /\ TraitsOK(Figma) /\ TraitsOK(OnePassword)
      /\ TraitsOK(Snowflake)
  BY Tellings, WalksOK DEF TraitsOK, Databricks, Figma, OnePassword,
     Snowflake, CommonScim, Common, Accounts
<1>4. /\ TraitsOK(Asana) /\ TraitsOK(Anthropic) /\ TraitsOK(ClaudeCode)
      /\ TraitsOK(Discord)
  BY Tellings, WalksOK DEF TraitsOK, Asana, Anthropic, ClaudeCode, Discord,
     Common, Accounts
<1>5. /\ TraitsOK(Airtable) /\ TraitsOK(Brex) /\ TraitsOK(Okta)
      /\ TraitsOK(Loom)
  BY Tellings, WalksOK DEF TraitsOK, Airtable, Brex, Okta, Loom, Common,
     Accounts
<1>6. /\ TraitsOK(AzureAd) /\ TraitsOK(MsTeams) /\ TraitsOK(GcpIam)
      /\ TraitsOK(HubSpot) /\ TraitsOK(Zendesk)
  BY Tellings, WalksOK DEF TraitsOK, AzureAd, MsTeams, GcpIam, HubSpot,
     Zendesk, Common, Accounts
<1>7. /\ TraitsOK(Sentry) /\ TraitsOK(Vercel) /\ TraitsOK(Salesforce)
      /\ TraitsOK(Google)
  BY Tellings, WalksOK DEF TraitsOK, Sentry, Vercel, Salesforce, Google,
     Common, Accounts
<1>8. /\ TraitsOK(Zoom) /\ TraitsOK(Miro) /\ TraitsOK(Linear)
      /\ TraitsOK(Dropbox)
  BY Tellings, WalksOK DEF TraitsOK, Zoom, Miro, Linear, Dropbox, Common,
     Accounts
<1>9. /\ TraitsOK(Adobe) /\ TraitsOK(Auth0) /\ TraitsOK(Datadog)
      /\ TraitsOK(Freshdesk)
  BY Tellings, WalksOK DEF TraitsOK, Adobe, Auth0, Datadog, Freshdesk, Common,
     Accounts
<1>10. TraitsOK(Netlify) /\ TraitsOK(NewRelic) /\ TraitsOK(GitLab)
  BY Tellings, WalksOK DEF TraitsOK, Netlify, NewRelic, GitLab, Common,
     Accounts
<1>11. TraitsOK(GitHubCopilot) /\ TraitsOK(GitHub) /\ TraitsOK(Deel)
  BY Tellings, WalksOK DEF TraitsOK, GitHubCopilot, GitHub, Deel, Common,
     Accounts
<1>12. TraitsOK(Box) /\ TraitsOK(DocuSign) /\ TraitsOK(PagerDuty)
  BY Tellings, WalksOK DEF TraitsOK, Box, DocuSign, PagerDuty, Common,
     Accounts
<1>13. /\ TraitsOK(BambooHr) /\ TraitsOK(ClickUp) /\ TraitsOK(Grafana)
       /\ TraitsOK(Shortcut) /\ TraitsOK(Snyk)
  BY Tellings, WalksOK DEF TraitsOK, BambooHr, ClickUp, Grafana, Shortcut,
     Snyk, Common, Accounts
<1>14. /\ TraitsOK(Trello) /\ TraitsOK(Monday) /\ TraitsOK(LastPass)
       /\ TraitsOK(Intercom)
  BY Tellings, WalksOK DEF TraitsOK, Trello, Monday, LastPass, Intercom,
     Common, Accounts
<1> SUFFICES ASSUME NEW c \in Catalog PROVE TraitsOK(c)
  OBVIOUS
<1> QED
  BY <1>1, <1>2, <1>3, <1>4, <1>5, <1>6, <1>7, <1>8, <1>9, <1>10, <1>11, <1>12,
     <1>13, <1>14 DEF Catalog
-----------------------------------------------------------------------------
(* What the connector knows of the list.                                   *)

\* The pages are counted while they may still be asked for.
PagesInv ==
  /\ op.pages \in Nat
  /\ op.step \in {"walk", "filter"} => op.pages < MaxPages

\* A seat whose removal was reported is gone, or disabled; a listing that has
\* read of it says so, and nothing is removed while it is read.
ShowsInv ==
  conn.does # "away" =>
    /\ \A s \in settled :
         account[s] \in {"gone", IF conn.does = "deletes" THEN "gone"
                                 ELSE "disabled"}
    /\ op.does = "list" =>
         \A e \in op.got \cup answer.page :
           e.seat \in settled => e.status = "suspended"

\* An answer is kept only until it is taken in.
AnswerInv ==
  ~(op.step \in {"walk", "filter"} /\ call.phase = "answered" /\ call.verdict = "ok")
    => answer = NoAnswer
-----------------------------------------------------------------------------
(* What a step does to the operation in hand.                              *)

OpShape == DOMAIN op = DOMAIN NoOp

Starting == ListUsers \/ \E s \in Seats : RemoveUser(s) \/ AddUser(s)
Moving == \E s \in Seats : Leave(s) \/ Disable(s) \/ Return(s)
Failing == ReadFails \/ ChangeFails \/ Pause

\* What the operation keeps as long as it lasts.
KeptOp == op'.does = op.does /\ op'.target = op.target
ReadSoFar ==
  /\ op'.got = op.got /\ op'.count = op.count
  /\ op'.pages = op.pages /\ op'.pos = op.pos
ReadThePage ==
  /\ op'.got = op.got \cup answer.page
  /\ op'.count = op.count + Cardinality(answer.page)
  /\ op'.pages = NextPages /\ op'.pos = NextPos

\* A new operation begins.
Fresh(safe) ==
  /\ op.step = "over" /\ op'.step \in {"walk", "filter", "change"}
  /\ op'.outcome = "none" /\ op'.stayed = Visible
  /\ op'.pages = 0 /\ op'.pos = 0 /\ op'.count = 0 /\ op'.got = {}
  /\ call' = Request(safe)
  /\ breaches' = breaches \ {"moved"}
  /\ UNCHANGED <<conn, account, answer, settled, changes>>

LEMMA StartStep ==
  ASSUME NEW does, NEW s, NEW step \in {"walk", "filter", "change"}, NEW safe,
         Start(does, s, step, safe)
  PROVE  Fresh(safe)
<1>1. op' = [NoOp EXCEPT !.does = does, !.target = Mail(s), !.step = step,
                         !.seat = s, !.stayed = Visible]
  BY DEF Start
<1>2. /\ op'.step = step /\ op'.outcome = "none" /\ op'.stayed = Visible
      /\ op'.pages = 0 /\ op'.pos = 0 /\ op'.count = 0 /\ op'.got = {}
  BY <1>1 DEF NoOp
<1> QED
  BY <1>2 DEF Start, Fresh

LEMMA StartingStep ==
  ASSUME Starting
  PROVE  Fresh(TRUE) \/ Fresh(FALSE) \/ Fresh(conn.safe)
<1>1. CASE ListUsers
  BY <1>1, StartStep DEF ListUsers
<1>2. ASSUME NEW s \in Seats, RemoveUser(s)
      PROVE  Fresh(TRUE) \/ Fresh(FALSE) \/ Fresh(conn.safe)
  BY <1>2, StartStep DEF RemoveUser
<1>3. ASSUME NEW s \in Seats, AddUser(s)
      PROVE  Fresh(FALSE)
  BY <1>3, StartStep DEF AddUser
<1> QED
  BY <1>1, <1>2, <1>3 DEF Starting

LEMMA MovingStep ==
  ASSUME OpShape, NEW s, NEW a, Move(s, a)
  PROVE  /\ KeptOp /\ ReadSoFar
         /\ op'.step = op.step /\ op'.outcome = op.outcome
         /\ op'.stayed = IF a \in conn.sees THEN op.stayed ELSE op.stayed \ {s}
         /\ breaches' = IF op.step = "walk" THEN breaches \cup {"moved"}
                        ELSE breaches
         /\ account' = [account EXCEPT ![s] = a]
         /\ UNCHANGED <<call, conn, answer, calls>>
<1>1. op' = [op EXCEPT !.stayed = IF a \in conn.sees THEN op.stayed
                                  ELSE op.stayed \ {s}]
  BY DEF Move
<1>2. /\ KeptOp /\ ReadSoFar
      /\ op'.step = op.step /\ op'.outcome = op.outcome
      /\ op'.stayed = IF a \in conn.sees THEN op.stayed ELSE op.stayed \ {s}
  BY <1>1 DEF OpShape, NoOp, KeptOp, ReadSoFar
<1> QED
  BY <1>2 DEF Move

LEMMA EndStep ==
  ASSUME NEW last, NEW outcome, DOMAIN last = DOMAIN NoOp, End(last, outcome)
  PROVE  /\ op'.step = "over" /\ op'.outcome = outcome
         /\ op'.does = last.does /\ op'.target = last.target
         /\ op'.stayed = last.stayed
         /\ op'.got = last.got /\ op'.count = last.count
         /\ op'.pages = last.pages /\ op'.pos = last.pos
BY DEF End, NoOp

\* The ways a walk goes on.
TurnFails == op'.step = "over" /\ op'.outcome = "error" /\ ReadSoFar
TurnOn ==
  /\ ~Stuck(op.count + Cardinality(answer.page))
  /\ ~Over(op.count + Cardinality(answer.page))
  /\ op'.step = "walk" /\ op'.outcome = op.outcome /\ ReadThePage
  /\ call' = Request(conn.safe)
TurnOver ==
  /\ ~Stuck(op.count + Cardinality(answer.page))
  /\ Over(op.count + Cardinality(answer.page))
  /\ ReadThePage
  /\ \/ /\ op'.step = "over"
        /\ \/ op.does = "list" /\ op'.outcome = "ok"
           \/ /\ op.does = "remove" /\ op'.outcome = "notFound"
              /\ Found(op'.got) = {}
     \/ /\ op.does = "remove" /\ op'.step = "change"
        /\ op'.outcome = op.outcome

LEMMA TurnPageStep ==
  ASSUME OpShape, TurnPage
  PROVE  /\ op.step = "walk" /\ call.phase = "answered" /\ call.verdict = "ok"
         /\ KeptOp /\ op'.stayed = op.stayed /\ answer' = NoAnswer
         /\ call' \in {Idle, Request(FALSE), Request(conn.safe)}
         /\ TurnFails \/ TurnOn \/ TurnOver
         /\ UNCHANGED <<conn, breaches, account, settled>>
<1> DEFINE count == op.count + Cardinality(answer.page)
           pages == NextPages
           pos == NextPos
           read == [op EXCEPT !.got = op.got \cup answer.page,
                      !.count = count, !.pages = pages, !.pos = pos]
<1>1. /\ op.step = "walk" /\ call.phase = "answered" /\ call.verdict = "ok"
      /\ UNCHANGED <<conn, breaches, account, settled>>
  BY DEF TurnPage, Others
<1>2. \/ End(op, "error")
      \/ ~Stuck(count) /\ ~Over(count) /\ Go(read, conn.safe)
      \/ /\ ~Stuck(count) /\ Over(count)
         /\ \/ op.does = "list" /\ End(read, "ok")
            \/ /\ op.does = "remove"
               /\ \E e \in Found(read.got) :
                    Go([read EXCEPT !.step = "change", !.seat = e.seat], FALSE)
            \/ /\ op.does = "remove" /\ Found(read.got) = {}
               /\ End(read, "notFound")
  BY DEF TurnPage
<1>3. /\ DOMAIN read = DOMAIN NoOp /\ read.step = "walk"
      /\ read.does = op.does /\ read.target = op.target
      /\ read.outcome = op.outcome /\ read.stayed = op.stayed
      /\ read.got = op.got \cup answer.page /\ read.count = count
      /\ read.pages = pages /\ read.pos = pos
  BY <1>1 DEF OpShape, NoOp
<1> HIDE DEF read
<1>4. CASE End(op, "error")
  <2>1. KeptOp /\ op'.stayed = op.stayed /\ TurnFails
    BY <1>4, EndStep DEF OpShape, KeptOp, TurnFails, ReadSoFar
  <2> QED
    BY <1>1, <1>4, <2>1 DEF End
<1>5. CASE ~Stuck(count) /\ ~Over(count) /\ Go(read, conn.safe)
  <2>1. KeptOp /\ op'.stayed = op.stayed /\ TurnOn
    BY <1>1, <1>3, <1>5 DEF Go, KeptOp, TurnOn, ReadThePage
  <2> QED
    BY <1>1, <1>5, <2>1 DEF Go
<1>6. ASSUME ~Stuck(count), Over(count), op.does = "list", End(read, "ok")
      PROVE  /\ KeptOp /\ op'.stayed = op.stayed /\ TurnOver
             /\ answer' = NoAnswer /\ call' = Idle
  <2>1. KeptOp /\ op'.stayed = op.stayed /\ ReadThePage
        /\ op'.step = "over" /\ op'.outcome = "ok"
    BY <1>3, <1>6, EndStep DEF KeptOp, ReadThePage
  <2> QED
    BY <1>6, <2>1 DEF TurnOver, End
<1>7. ASSUME ~Stuck(count), Over(count), op.does = "remove",
             Found(read.got) = {}, End(read, "notFound")
      PROVE  /\ KeptOp /\ op'.stayed = op.stayed /\ TurnOver
             /\ answer' = NoAnswer /\ call' = Idle
  <2>1. /\ KeptOp /\ op'.stayed = op.stayed /\ ReadThePage
        /\ op'.step = "over" /\ op'.outcome = "notFound" /\ op'.got = read.got
        /\ op'.target = op.target
    BY <1>3, <1>7, EndStep DEF KeptOp, ReadThePage
  <2> QED
    BY <1>7, <2>1 DEF TurnOver, End, Found
<1>8. ASSUME ~Stuck(count), Over(count), op.does = "remove",
             NEW e \in Found(read.got),
             Go([read EXCEPT !.step = "change", !.seat = e.seat], FALSE)
      PROVE  /\ KeptOp /\ op'.stayed = op.stayed /\ TurnOver
             /\ answer' = NoAnswer /\ call' = Request(FALSE)
  <2> DEFINE next == [read EXCEPT !.step = "change", !.seat = e.seat]
  <2>1. /\ next.step = "change" /\ next.does = read.does
        /\ next.target = read.target /\ next.outcome = read.outcome
        /\ next.stayed = read.stayed /\ next.got = read.got
        /\ next.count = read.count /\ next.pages = read.pages
        /\ next.pos = read.pos
    BY <1>3 DEF NoOp
  <2>2. op' = next /\ answer' = NoAnswer /\ call' = Request(FALSE)
    BY <1>8 DEF Go
  <2> HIDE DEF next
  <2>3. KeptOp /\ op'.stayed = op.stayed /\ ReadThePage
    BY <1>3, <2>1, <2>2 DEF KeptOp, ReadThePage
  <2> QED
    BY <1>3, <1>8, <2>1, <2>2, <2>3 DEF TurnOver
<1> QED
  BY <1>1, <1>2, <1>4, <1>5, <1>6, <1>7, <1>8

LEMMA TurnFilterStep ==
  ASSUME OpShape, TurnFilter
  PROVE  /\ op.step = "filter" /\ KeptOp /\ ReadSoFar
         /\ op'.outcome = op.outcome /\ answer' = NoAnswer
         /\ call' \in {Request(FALSE), Request(conn.safe)}
         /\ \/ op'.step = "change" /\ op'.stayed = op.stayed
            \/ op'.step = "walk" /\ op'.stayed = Visible
         /\ UNCHANGED <<conn, breaches, account, settled>>
<1>1. op.step = "filter" /\ UNCHANGED <<conn, breaches, account, settled>>
  BY DEF TurnFilter, Others
<1>2. CASE call.verdict = "ok" /\ Found(answer.page) # {}
  <2>1. PICK e \in Found(answer.page) :
          Go([op EXCEPT !.step = "change", !.seat = e.seat], FALSE)
    BY <1>2 DEF TurnFilter
  <2>2. /\ op' = [op EXCEPT !.step = "change", !.seat = e.seat]
        /\ answer' = NoAnswer /\ call' = Request(FALSE)
    BY <2>1 DEF Go
  <2>3. /\ KeptOp /\ ReadSoFar /\ op'.outcome = op.outcome
        /\ op'.step = "change" /\ op'.stayed = op.stayed
    BY <2>2 DEF OpShape, NoOp, KeptOp, ReadSoFar
  <2> QED
    BY <1>1, <2>2, <2>3
<1>3. CASE ~(call.verdict = "ok" /\ Found(answer.page) # {})
  <2>1. /\ op' = [op EXCEPT !.step = "walk", !.stayed = Visible]
        /\ answer' = NoAnswer /\ call' = Request(conn.safe)
    BY <1>3 DEF TurnFilter, Go
  <2>2. /\ KeptOp /\ ReadSoFar /\ op'.outcome = op.outcome
        /\ op'.step = "walk" /\ op'.stayed = Visible
    BY <2>1 DEF OpShape, NoOp, KeptOp, ReadSoFar
  <2> QED
    BY <1>1, <2>1, <2>2
<1> QED
  BY <1>2, <1>3

LEMMA ConcludeStep ==
  ASSUME OpShape, Conclude
  PROVE  /\ op'.step = "over" /\ op'.outcome \in {"ok", "error"}
         /\ op'.outcome = "ok" => op.step = "change"
         /\ KeptOp /\ ReadSoFar /\ op'.stayed = op.stayed
         /\ answer' = NoAnswer /\ call' = Idle
         /\ UNCHANGED <<conn, breaches, account, settled>>
<1>1. PICK outcome \in {"ok", "error"} :
        End(op, outcome) /\ (outcome = "ok" => op.step = "change")
  BY DEF Conclude
<1>2. /\ op'.step = "over" /\ op'.outcome = outcome
      /\ KeptOp /\ ReadSoFar /\ op'.stayed = op.stayed
  BY <1>1, EndStep DEF OpShape, KeptOp, ReadSoFar
<1> QED
  BY <1>1, <1>2 DEF Conclude, Others, End

\* A request that fails, or waits, and changes nothing.
LEMMA FailingStep ==
  ASSUME Failing
  PROVE  /\ UNCHANGED <<op, answer, conn, breaches, account, settled>>
         /\ Client(FALSE)
         /\ call.phase \in {"sent", "waiting"}
BY DEF Failing, Again, ReadFails, ChangeFails, Pause, Others, Client, Undecodable,
   Refuse, Limit, Break, Cancel, CancelWait, Resend

LEMMA FailingVerdict ==
  ASSUME Failing, DOMAIN call = DOMAIN Idle
  PROVE  call'.phase # "answered" \/ call'.verdict # "ok"
<1>1. ASSUME NEW done, Answered("error", done)
      PROVE  call'.verdict = "error"
  BY <1>1 DEF Answered, Idle
<1>2. ASSUME NEW limited, NEW done, Retry(limited, done)
      PROVE  call'.phase = "waiting" \/ call'.verdict = "error"
  <2>1. CASE Retryable(limited)
    BY <1>2, <2>1 DEF Retry, Idle
  <2>2. CASE ~Retryable(limited)
    BY <1>1, <1>2, <2>2 DEF Retry
  <2> QED
    BY <2>1, <2>2
<1>3. CASE Resend
  BY <1>3 DEF Resend, Idle
<1>4. \/ Answered("error", TRUE) \/ Answered("error", FALSE)
      \/ Retry(TRUE, FALSE) \/ Retry(FALSE, FALSE) \/ Resend
  BY DEF Failing, Again, ReadFails, ChangeFails, Pause, Undecodable, Refuse, Limit,
     Break, Cancel, CancelWait
<1> QED
  BY <1>1, <1>2, <1>3, <1>4

\* The steps there are.
LEMMA NextSteps ==
  ASSUME Next
  PROVE  \/ Starting \/ Moving \/ PageServed \/ FilterServed \/ ChangeServed
         \/ Failing \/ TurnPage \/ TurnFilter \/ Conclude
BY DEF Next, Starting, Moving, Failing
-----------------------------------------------------------------------------
(* Types.                                                                  *)

LEMMA CallFields ==
  ASSUME call \in CallType, NEW phase \in {"waiting", "answered"},
         NEW verdict \in Verdicts, NEW acted \in Nat,
         call' = [call EXCEPT !.phase = phase, !.verdict = verdict, !.acted = acted]
  PROVE  call' \in CallType
BY DEF CallType

LEMMA ClientTypes ==
  ASSUME call \in CallType, NEW carried \in BOOLEAN, Client(carried)
  PROVE  call' \in CallType
<1>1. ASSUME NEW verdict \in Verdicts, NEW done \in BOOLEAN,
             Answered(verdict, done)
      PROVE  call' \in CallType
  <2> DEFINE acted == call.acted + (IF done THEN 1 ELSE 0)
  <2>1. acted \in Nat
    BY DEF CallType
  <2>2. call' = [call EXCEPT !.phase = "answered", !.verdict = verdict,
                             !.acted = acted]
    BY <1>1 DEF Answered
  <2> HIDE DEF acted
  <2> QED
    BY <2>1, <2>2, CallFields
<1>2. ASSUME NEW limited \in BOOLEAN, NEW done \in BOOLEAN,
             Retry(limited, done)
      PROVE  call' \in CallType
  <2>1. CASE Retryable(limited)
    <3> DEFINE acted == call.acted + (IF done THEN 1 ELSE 0)
    <3>1. acted \in Nat
      BY DEF CallType
    <3>2. call' = [call EXCEPT !.phase = "waiting", !.acted = acted]
      BY <1>2, <2>1 DEF Retry
    <3> HIDE DEF acted
    <3> QED
      BY <3>1, <3>2 DEF CallType
  <2>2. CASE ~Retryable(limited)
    <3>1. Answered("error", done)
      BY <1>2, <2>2 DEF Retry
    <3> QED
      BY <1>1, <3>1 DEF Verdicts
  <2> QED
    BY <2>1, <2>2
<1>3. CASE Resend
  <2> DEFINE attempt == call.attempt + 1
  <2>1. attempt \in Nat
    BY DEF CallType
  <2>2. call' = [call EXCEPT !.phase = "sent", !.attempt = attempt]
    BY <1>3 DEF Resend
  <2> HIDE DEF attempt
  <2> QED
    BY <2>1, <2>2 DEF CallType
<1>4. \/ Answered("ok", TRUE) \/ Answered("error", TRUE)
      \/ Answered("error", FALSE) \/ Answered("error", carried)
      \/ Retry(TRUE, FALSE) \/ Retry(FALSE, carried) \/ Resend
  BY DEF Client, Succeed, Undecodable, Refuse, Limit, Break, Cancel, CancelWait
<1> QED
  BY <1>1, <1>2, <1>3, <1>4 DEF Verdicts

LEMMA RequestTypes ==
  ASSUME conn \in Fleet
  PROVE  /\ Idle \in CallType
         /\ Request(TRUE) \in CallType /\ Request(FALSE) \in CallType
         /\ Request(conn.safe) \in CallType
<1>1. conn.safe \in BOOLEAN
  BY ConnectorAssumption, CatalogTraits DEF TraitsOK
<1>2. Idle \in CallType
  BY DEF Idle, CallType, Verdicts
<1>3. ASSUME NEW safe \in BOOLEAN
      PROVE  Request(safe) \in CallType
  <2>1. Request(safe) = [Idle EXCEPT !.phase = "sent", !.safe = safe]
    BY DEF Request
  <2> QED
    BY <1>2, <2>1 DEF CallType
<1> QED
  BY <1>1, <1>2, <1>3

LEMMA ConnTraits == ASSUME conn \in Fleet PROVE TraitsOK(conn)
BY ConnectorAssumption, CatalogTraits

LEMMA WindowVisible ==
  ASSUME NEW pos
  PROVE  Ahead(pos) \subseteq Visible /\ Window(pos) \subseteq Visible
<1>1. Ahead(pos) \subseteq Visible
  BY DEF Ahead
<1> QED
  BY <1>1 DEF Window

\* The page that a served request brings.
LEMMA ServedPage ==
  ASSUME PageServed \/ FilterServed
  PROVE  /\ \E page \in SUBSET Visible : Serve(page)
         /\ Succeed /\ op.step \in {"walk", "filter"}
         /\ UNCHANGED <<conn, breaches, account, op, settled, changes, calls>>
<1>1. CASE PageServed
  <2>1. PICK page \in {Window(op.pos)}
                      \cup (IF "stalled" \in breaches THEN {{}} ELSE {}) : Serve(page)
    BY <1>1 DEF PageServed
  <2>2. page \in SUBSET Visible
    BY <2>1, WindowVisible
  <2> QED
    BY <1>1, <2>1, <2>2 DEF PageServed
<1>2. CASE FilterServed
  BY <1>2 DEF FilterServed
<1> QED
  BY <1>1, <1>2

LEMMA ServeTypes ==
  ASSUME TypeOK, NEW page \in SUBSET Visible, Serve(page)
  PROVE  answer'.page \subseteq Entry
<1>1. PICK failed :
        answer'.page = {[seat |-> s, name |-> NameOf(s, failed),
                         status |-> conn.tells[account[s]]] : s \in page}
  BY DEF Serve
<1>2. ASSUME NEW s \in page
      PROVE  [seat |-> s, name |-> NameOf(s, failed),
              status |-> conn.tells[account[s]]] \in Entry
  <2>1. s \in Seats /\ account[s] \in conn.sees
    BY DEF Visible
  <2>2. conn.tells[account[s]] \in Statuses
    BY <2>1, ConnTraits DEF TypeOK, TraitsOK
  <2>3. Cardinality(Seats) \in Nat
    BY ConnectorAssumption, FS_CardinalityType
  <2>4. s \in 1 .. Cardinality(Seats)
    BY <2>1, ConnectorAssumption
  <2>5. NameOf(s, failed) \in {Mail(s), Nameless, Login(s)}
    BY DEF NameOf
  <2>6. NameOf(s, failed) \in 0 .. 2 * Cardinality(Seats)
    BY <2>3, <2>4, <2>5 DEF Mail, Nameless, Login
  <2> QED
    BY <2>1, <2>2, <2>6 DEF Entry, Statuses
<1> QED
  BY <1>1, <1>2

TypeInv == TypeOK /\ PagesInv

LEMMA TypeStarting ==
  ASSUME TypeInv, Starting
  PROVE  TypeInv'
<1>1. PICK safe \in {TRUE, FALSE, conn.safe} : Fresh(safe)
  BY StartingStep
<1>2. call' \in CallType
  BY <1>1, RequestTypes DEF Fresh, TypeInv, TypeOK
<1>3. Visible \subseteq Seats
  BY DEF Visible
<1> QED
  BY <1>1, <1>2, <1>3, ConnectorAssumption DEF Fresh, TypeInv, TypeOK, PagesInv,
     Entry

\* What becomes of the account that moved.
Became(s, a) ==
  \/ settled' = settled /\ a = "gone"
  \/ settled' = settled /\ a = "disabled" /\ account[s] = "active"
  \/ settled' = settled \ {s} /\ a \in {"active", "pending"}

LEMMA MovingOne ==
  ASSUME Moving
  PROVE  \E s \in Seats, a \in Accounts \cup {"gone"} : Move(s, a) /\ Became(s, a)
<1>1. PICK s \in Seats : Leave(s) \/ Disable(s) \/ Return(s)
  BY DEF Moving
<1>2. CASE Leave(s)
  BY <1>2 DEF Leave, Became
<1>3. CASE Disable(s)
  BY <1>3 DEF Disable, Became, Accounts
<1>4. CASE Return(s)
  <2>1. PICK a \in {"active", "pending"} : Move(s, a)
    BY <1>4 DEF Return
  <2>2. Became(s, a) /\ a \in Accounts
    BY <1>4, <2>1 DEF Return, Became, Accounts
  <2> QED
    BY <2>1, <2>2
<1> QED
  BY <1>1, <1>2, <1>3, <1>4

LEMMA TypeMoving ==
  ASSUME TypeInv, OpShape, Moving
  PROVE  TypeInv'
<1>1. PICK s \in Seats, a \in Accounts \cup {"gone"} : Move(s, a) /\ Became(s, a)
  BY MovingOne
<1>2. account' \in [Seats -> Accounts \cup {"gone"}]
  <2>1. account' = [account EXCEPT ![s] = a]
    BY <1>1, MovingStep
  <2>2. account \in [Seats -> Accounts \cup {"gone"}]
    BY DEF TypeInv, TypeOK
  <2> QED
    BY <2>1, <2>2
<1>3. op'.stayed \subseteq op.stayed /\ settled' \subseteq settled
  BY <1>1, MovingStep DEF Became
<1>4. /\ op'.step = op.step /\ op'.outcome = op.outcome
      /\ op'.pages = op.pages /\ op'.got = op.got
      /\ breaches' \subseteq breaches \cup {"moved"}
      /\ call' = call /\ conn' = conn /\ answer' = answer
  BY <1>1, MovingStep DEF ReadSoFar
<1> QED
  BY <1>2, <1>3, <1>4 DEF TypeInv, TypeOK, PagesInv, Entry

LEMMA TypeServed ==
  ASSUME TypeInv, PageServed \/ FilterServed
  PROVE  TypeInv'
<1>1. PICK page \in SUBSET Visible : Serve(page)
  BY ServedPage
<1>2. answer'.page \subseteq Entry
  BY <1>1, ServeTypes DEF TypeInv
<1>3. call' \in CallType
  BY ServedPage, ClientTypes DEF Client, TypeInv, TypeOK
<1> QED
  BY <1>2, <1>3, ServedPage DEF TypeInv, TypeOK, PagesInv, Entry

LEMMA TypeFailing ==
  ASSUME TypeInv, Failing
  PROVE  TypeInv'
<1>1. call' \in CallType
  BY FailingStep, ClientTypes DEF TypeInv, TypeOK
<1> QED
  BY <1>1, FailingStep DEF TypeInv, TypeOK, PagesInv, Entry

LEMMA TypeChange ==
  ASSUME ConnInv, TypeInv, ChangeServed
  PROVE  TypeInv'
<1>1. Client(TRUE)
  BY DEF ChangeServed, Again, Client
<1>2. call' \in CallType
  BY <1>1, ClientTypes DEF TypeInv, TypeOK
<1>3. op.seat \in Seats
  BY DEF ConnInv, OpOK, ChangeServed
<1>4. Becomes \in Accounts \cup {"gone"}
  BY <1>3 DEF Becomes, TypeInv, TypeOK, Accounts
<1>5. account' \in [Seats -> Accounts \cup {"gone"}]
  <2>1. account' = [account EXCEPT ![op.seat] = Becomes]
    BY DEF ChangeServed
  <2> QED
    BY <1>4, <2>1 DEF TypeInv, TypeOK
<1>6. settled' \subseteq Seats
  BY <1>3 DEF ChangeServed, TypeInv, TypeOK
<1>7. UNCHANGED <<conn, breaches, op, answer, changes, calls>>
  BY DEF ChangeServed
<1> QED
  BY <1>2, <1>5, <1>6, <1>7 DEF TypeInv, TypeOK, PagesInv, Entry

\* A walk that counts its pages stops at the last one it may ask for.
LEMMA TypeTurnPage ==
  ASSUME ConnInv, TypeInv, TurnPage
  PROVE  TypeInv'
<1>1. OpShape
  BY DEF ConnInv, OpOK, OpShape
<1>2. call' \in CallType
  BY <1>1, TurnPageStep, RequestTypes DEF TypeInv, TypeOK
<1>3. op.pages \in Nat /\ op.pages < MaxPages
  BY <1>1, TurnPageStep DEF TypeInv, PagesInv
<1>4. /\ op'.pages \in Nat /\ op'.pages <= MaxPages
      /\ op'.step \in {"walk", "filter"} => op'.pages < MaxPages
  <2>1. CASE TurnFails
    BY <1>3, <2>1, ConnectorAssumption DEF TurnFails, ReadSoFar
  <2>2. CASE TurnOver
    BY <1>3, <2>2, ConnectorAssumption DEF TurnOver, ReadThePage, NextPages
  <2>3. CASE TurnOn
    <3>1. CASE conn.walk.until \cap {"scim", "cap"} = {}
      BY <1>3, <2>3, <3>1, ConnectorAssumption DEF TurnOn, ReadThePage, NextPages
    <3>2. CASE conn.walk.until \cap {"scim", "cap"} # {}
      <4>1. op.pages + 1 # MaxPages
        BY <2>3, <3>2 DEF TurnOn, Stuck, Over
      <4>2. op'.pages = op.pages + 1
        BY <2>3, <3>2 DEF TurnOn, ReadThePage, NextPages
      <4> QED
        BY <1>3, <4>1, <4>2, ConnectorAssumption
    <3> QED
      BY <3>1, <3>2
  <2> QED
    BY <1>1, <2>1, <2>2, <2>3, TurnPageStep
<1>5. op'.got \subseteq Entry /\ answer'.page \subseteq Entry
  BY <1>1, TurnPageStep DEF TypeInv, TypeOK, NoAnswer, TurnFails, TurnOn,
     TurnOver, ReadSoFar, ReadThePage
<1>6. /\ op'.step \in {"over", "filter", "walk", "change"}
      /\ op'.outcome \in {"none", "ok", "error", "notFound"}
  BY <1>1, TurnPageStep DEF TypeInv, TypeOK, TurnFails, TurnOn, TurnOver
<1>7. /\ op'.stayed = op.stayed
      /\ UNCHANGED <<conn, breaches, account, settled>>
  BY <1>1, TurnPageStep
<1> QED
  BY <1>2, <1>4, <1>5, <1>6, <1>7 DEF TypeInv, TypeOK, PagesInv, Entry

LEMMA TypeTurnFilter ==
  ASSUME ConnInv, TypeInv, TurnFilter
  PROVE  TypeInv'
<1>1. OpShape
  BY DEF ConnInv, OpOK, OpShape
<1>2. call' \in CallType
  BY <1>1, TurnFilterStep, RequestTypes DEF TypeInv, TypeOK
<1>3. op'.stayed \subseteq Seats
  BY <1>1, TurnFilterStep DEF Visible, TypeInv, TypeOK
<1>4. answer'.page = {}
  BY <1>1, TurnFilterStep DEF NoAnswer
<1> QED
  BY <1>1, <1>2, <1>3, <1>4, TurnFilterStep DEF TypeInv, TypeOK, PagesInv,
     ReadSoFar, Entry

LEMMA TypeConclude ==
  ASSUME ConnInv, TypeInv, Conclude
  PROVE  TypeInv'
<1>1. OpShape
  BY DEF ConnInv, OpOK, OpShape
<1>2. call' \in CallType
  BY <1>1, ConcludeStep, RequestTypes DEF TypeInv, TypeOK
<1>3. answer'.page = {}
  BY <1>1, ConcludeStep DEF NoAnswer
<1> QED
  BY <1>1, <1>2, <1>3, ConcludeStep DEF TypeInv, TypeOK, PagesInv, ReadSoFar, Entry

LEMMA TypeInit == Init => TypeInv
<1> SUFFICES ASSUME Init PROVE TypeInv
  OBVIOUS
<1>1. call \in CallType /\ conn \in Fleet
  BY RequestTypes DEF Init
<1>2. breaches \subseteq {"capped", "untold", "stalled", "moved"}
  BY ConnectorAssumption DEF Init
<1>3. account \in [Seats -> Accounts \cup {"gone"}]
  BY DEF Init, Accounts
<1>4. op = NoOp /\ answer.page = {} /\ settled = {}
  BY DEF Init, NoAnswer
<1> QED
  BY <1>1, <1>2, <1>3, <1>4, ConnectorAssumption DEF TypeInv, TypeOK, PagesInv,
     NoOp

LEMMA TypeStep == ConnInv /\ TypeInv /\ [Next]_vars => TypeInv'
<1> SUFFICES ASSUME ConnInv, TypeInv, [Next]_vars PROVE TypeInv'
  OBVIOUS
<1>1. CASE UNCHANGED vars
  BY <1>1 DEF vars, TypeInv, TypeOK, PagesInv, Entry
<1>2. OpShape
  BY DEF ConnInv, OpOK, OpShape
<1> QED
  BY <1>1, <1>2, NextSteps, TypeStarting, TypeMoving, TypeServed, TypeFailing,
     TypeChange, TypeTurnPage, TypeTurnFilter, TypeConclude

\* The state always has its type: no page is asked for beyond the last.
THEOREM ConnectorTypeCorrect == Spec => []TypeOK
<1>1. TypeInv => TypeOK
  BY DEF TypeInv
<1> QED
  BY <1>1, TypeInit, TypeStep, ConnectorInvariant, PTL DEF Spec
-----------------------------------------------------------------------------
(* What was removed is listed as removed.                                  *)

LEMMA AnswerStep ==
  ASSUME ConnInv, AnswerInv, [Next]_vars
  PROVE  AnswerInv'
<1>1. OpShape /\ DOMAIN call = DOMAIN Idle
  BY DEF ConnInv, OpOK, OpShape, CallInv
<1>2. CASE Starting
  BY <1>2, StartingStep DEF Fresh, AnswerInv
<1>3. CASE Moving
  <2>1. PICK s \in Seats, a \in Accounts \cup {"gone"} : Move(s, a)
    BY <1>3, MovingOne
  <2> QED
    BY <1>1, <2>1, MovingStep DEF AnswerInv
<1>4. CASE PageServed \/ FilterServed
  <2>1. op' = op /\ op.step \in {"walk", "filter"} /\ Succeed
    BY <1>4, ServedPage
  <2>2. call'.phase = "answered" /\ call'.verdict = "ok"
    BY <1>1, <2>1 DEF Succeed, Answered, Idle
  <2> QED
    BY <2>1, <2>2 DEF AnswerInv
<1>5. CASE Failing
  BY <1>5, FailingStep DEF AnswerInv
<1>6. CASE ChangeServed
  BY <1>6 DEF ChangeServed, AnswerInv
<1>7. CASE TurnPage
  BY <1>1, <1>7, TurnPageStep DEF AnswerInv
<1>8. CASE TurnFilter
  BY <1>1, <1>8, TurnFilterStep DEF AnswerInv
<1>9. CASE Conclude
  BY <1>1, <1>9, ConcludeStep DEF AnswerInv
<1>10. CASE UNCHANGED vars
  BY <1>10 DEF vars, AnswerInv
<1> QED
  BY <1>2, <1>3, <1>4, <1>5, <1>6, <1>7, <1>8, <1>9, <1>10, NextSteps

\* What a vendor lists of an account whose removal was reported.
LEMMA ServedShows ==
  ASSUME TypeInv, ShowsInv, conn.does # "away",
         NEW page \in SUBSET Visible, Serve(page)
  PROVE  \A e \in answer'.page : e.seat \in settled => e.status = "suspended"
<1>1. PICK failed :
        answer'.page = {[seat |-> s, name |-> NameOf(s, failed),
                         status |-> conn.tells[account[s]]] : s \in page}
  BY DEF Serve
<1>2. ASSUME NEW s \in page, s \in settled
      PROVE  conn.tells[account[s]] = "suspended"
  <2>1. account[s] \in conn.sees
    BY DEF Visible
  <2>2. TraitsOK(conn)
    BY ConnTraits DEF TypeInv, TypeOK
  <2>3. account[s] = "disabled" /\ conn.does = "deactivates"
    BY <1>2, <2>1, <2>2 DEF ShowsInv, TraitsOK, Accounts
  <2> QED
    BY <2>1, <2>2, <2>3 DEF TraitsOK
<1> QED
  BY <1>1, <1>2

LEMMA ShowsStep ==
  ASSUME ConnInv, TypeInv, AnswerInv, ShowsInv, [Next]_vars
  PROVE  ShowsInv'
<1>1. OpShape
  BY DEF ConnInv, OpOK, OpShape
<1>2. CASE Starting
  <2>1. PICK safe : Fresh(safe)
    BY <1>2, StartingStep
  <2>2. answer'.page = {} /\ op'.got = {}
    BY <2>1 DEF Fresh, AnswerInv, NoAnswer
  <2> QED
    BY <2>1, <2>2 DEF Fresh, ShowsInv
<1>3. CASE Moving
  <2>1. PICK s \in Seats, a \in Accounts \cup {"gone"} : Move(s, a) /\ Became(s, a)
    BY <1>3, MovingOne
  <2>2. /\ op'.does = op.does /\ op'.got = op.got
        /\ answer' = answer /\ conn' = conn
        /\ account' = [account EXCEPT ![s] = a]
    BY <1>1, <2>1, MovingStep DEF KeptOp, ReadSoFar
  <2>3. ASSUME conn.does # "away", NEW t \in settled'
        PROVE  account'[t] \in {"gone", IF conn.does = "deletes" THEN "gone"
                                        ELSE "disabled"}
    <3>1. t \in settled /\ t \in Seats
      BY <2>1, <2>3 DEF Became, TypeInv, TypeOK
    <3>2. account[t] \in {"gone", IF conn.does = "deletes" THEN "gone"
                                  ELSE "disabled"}
      BY <2>3, <3>1 DEF ShowsInv
    <3>3. CASE t # s
      BY <2>2, <3>2, <3>3
    <3>4. CASE t = s
      <4>1. a = "gone"
        BY <2>1, <2>3, <3>2, <3>4 DEF Became
      <4>2. account'[t] = "gone"
        BY <2>2, <3>1, <3>4, <4>1 DEF TypeInv, TypeOK
      <4> QED
        BY <4>2
    <3> QED
      BY <3>3, <3>4
  <2>4. settled' \subseteq settled
    BY <2>1 DEF Became
  <2> QED
    BY <2>2, <2>3, <2>4 DEF ShowsInv
<1>4. CASE PageServed \/ FilterServed
  <2>1. PICK page \in SUBSET Visible : Serve(page)
    BY <1>4, ServedPage
  <2>2. conn.does # "away" =>
          \A e \in answer'.page : e.seat \in settled => e.status = "suspended"
    BY <2>1, ServedShows
  <2>3. UNCHANGED <<conn, account, op, settled>>
    BY <1>4, ServedPage
  <2> QED
    BY <2>2, <2>3 DEF ShowsInv
<1>5. CASE Failing
  BY <1>5, FailingStep DEF ShowsInv
<1>6. CASE ChangeServed
  <2>1. op.does # "list" /\ op.seat \in Seats
    BY <1>6 DEF ConnInv, OpOK, ChangeServed
  <2>2. /\ UNCHANGED <<conn, op, answer>>
        /\ account' = [account EXCEPT ![op.seat] = Becomes]
        /\ \/ settled' = settled \ {op.seat}
           \/ /\ op.does # "add"
              /\ settled' \subseteq settled \cup {op.seat}
    BY <1>6 DEF ChangeServed
  <2>3. ASSUME conn.does # "away", NEW t \in settled'
        PROVE  account'[t] \in {"gone", IF conn.does = "deletes" THEN "gone"
                                        ELSE "disabled"}
    <3>1. CASE t # op.seat
      BY <2>2, <2>3, <3>1 DEF ShowsInv
    <3>2. CASE t = op.seat
      <4>1. op.does # "add" /\ account'[t] = Becomes
        BY <2>1, <2>2, <2>3, <3>2 DEF TypeInv, TypeOK
      <4>2. conn.does \in {"deletes", "deactivates"}
        BY <2>3, ConnTraits DEF TypeInv, TypeOK, TraitsOK
      <4> QED
        BY <4>1, <4>2 DEF Becomes
    <3> QED
      BY <3>1, <3>2
  <2> QED
    BY <2>1, <2>2, <2>3 DEF ShowsInv
<1>7. CASE TurnPage
  <2>1. /\ op'.does = op.does /\ op'.got \subseteq op.got \cup answer.page
        /\ answer'.page = {} /\ UNCHANGED <<conn, account, settled>>
    BY <1>1, <1>7, TurnPageStep DEF KeptOp, NoAnswer, TurnFails, TurnOn,
       TurnOver, ReadSoFar, ReadThePage
  <2> QED
    BY <2>1 DEF ShowsInv
<1>8. CASE TurnFilter
  <2>1. /\ op'.does = op.does /\ op'.got = op.got
        /\ answer'.page = {} /\ UNCHANGED <<conn, account, settled>>
    BY <1>1, <1>8, TurnFilterStep DEF KeptOp, NoAnswer, ReadSoFar
  <2> QED
    BY <2>1 DEF ShowsInv
<1>9. CASE Conclude
  <2>1. /\ op'.does = op.does /\ op'.got = op.got
        /\ answer'.page = {} /\ UNCHANGED <<conn, account, settled>>
    BY <1>1, <1>9, ConcludeStep DEF KeptOp, NoAnswer, ReadSoFar
  <2> QED
    BY <2>1 DEF ShowsInv
<1>10. CASE UNCHANGED vars
  BY <1>10 DEF vars, ShowsInv
<1> QED
  BY <1>2, <1>3, <1>4, <1>5, <1>6, <1>7, <1>8, <1>9, <1>10, NextSteps

\* The inductive invariant of a listing: answers are kept only until they are
\* taken in, and whatever of them speaks of a removed seat calls it suspended.
ListingInv == ConnInv /\ TypeInv /\ AnswerInv /\ ShowsInv

THEOREM ListingInvariant == Spec => []ListingInv
<1>1. Init => AnswerInv /\ ShowsInv
  BY DEF Init, AnswerInv, ShowsInv, NoOp, NoAnswer
<1>2. ListingInv /\ [Next]_vars => ListingInv'
  BY ConnNextInv, TypeStep, AnswerStep, ShowsStep DEF ListingInv
<1> QED
  BY <1>1, <1>2, ConnInitInv, TypeInit, PTL DEF Spec, ListingInv

\* A seat whose removal was reported, and which nobody gave back, is listed by
\* no later pass as a seat in use.
THEOREM ConnectorRemovalShows == Spec => []RemovalShows
<1>1. ListingInv => RemovalShows
  BY DEF ListingInv, ShowsInv, RemovalShows
<1> QED
  BY <1>1, ListingInvariant, PTL
-----------------------------------------------------------------------------
(* The order of the accounts.                                              *)

\* The first n of the accounts in T.
Foremost(T, n) == {s \in T : Rank(s, T) <= n}

LEMMA SeatNumbers ==
  ASSUME NEW T \in SUBSET Seats
  PROVE  /\ IsFiniteSet(T) /\ Cardinality(T) \in Nat
         /\ T \in SUBSET Nat
         /\ Cardinality(Seats) \in Nat
         /\ \A s \in T : s > 0 /\ s <= Cardinality(Seats)
<1>1. Cardinality(Seats) \in Nat
  BY ConnectorAssumption, FS_CardinalityType
<1>2. IsFiniteSet(T)
  BY ConnectorAssumption, FS_Subset
<1>3. T \subseteq 1 .. Cardinality(Seats)
  BY ConnectorAssumption
<1> QED
  BY <1>1, <1>2, <1>3, FS_CardinalityType

LEMMA RankBounds ==
  ASSUME NEW T \in SUBSET Seats, NEW s
  PROVE  /\ IsFiniteSet({t \in T : t <= s})
         /\ Rank(s, T) \in Nat /\ Rank(s, T) <= Cardinality(T)
<1>1. {t \in T : t <= s} \subseteq T
  OBVIOUS
<1> QED
  BY <1>1, SeatNumbers, FS_Subset, FS_CardinalityType DEF Rank

\* A later account has a higher rank.
LEMMA RankGrows ==
  ASSUME NEW T \in SUBSET Seats, NEW s \in T, NEW t \in T, s < t
  PROVE  Rank(s, T) < Rank(t, T)
<1> DEFINE S == {x \in T : x <= s}
           U == {x \in T : x <= t}
<1>1. s \in Nat /\ t \in Nat /\ \A x \in T : x \in Nat
  BY SeatNumbers
<1>2. S \subseteq U /\ t \in U /\ t \notin S
  <2>1. ASSUME NEW x \in S
        PROVE  x \in U
    BY <1>1
  <2>2. ~(t <= s) /\ t <= t
    BY <1>1
  <2> QED
    BY <2>1, <2>2
<1>3. IsFiniteSet(U)
  BY RankBounds
<1> HIDE DEF S, U
<1>4. /\ Cardinality(S) <= Cardinality(U) /\ Cardinality(S) # Cardinality(U)
      /\ IsFiniteSet(S)
  <2>1. S \in SUBSET U /\ S # U
    BY <1>2
  <2> QED
    BY <1>3, <2>1, FS_Subset
<1>5. Cardinality(S) \in Nat /\ Cardinality(U) \in Nat
  BY <1>3, <1>4, FS_CardinalityType
<1>6. Cardinality(S) < Cardinality(U)
  BY <1>4, <1>5
<1> QED
  BY <1>6 DEF Rank, S, U

\* There are no more than n first n accounts,
LEMMA ForemostAtMost ==
  ASSUME NEW T \in SUBSET Seats, NEW n \in Nat
  PROVE  /\ IsFiniteSet(Foremost(T, n)) /\ Cardinality(Foremost(T, n)) \in Nat
         /\ Cardinality(Foremost(T, n)) <= n
<1> DEFINE F == Foremost(T, n)
<1>1. F \subseteq T
  BY DEF Foremost
<1>2. F \in SUBSET Seats
  BY <1>1
<1>3. IsFiniteSet(F) /\ Cardinality(F) \in Nat
  BY <1>2, SeatNumbers
<1>4. CASE F = {}
  BY <1>3, <1>4, FS_EmptySet
<1>5. CASE F # {}
  <2>1. PICK g \in F : \A y \in F : y <= g
    BY <1>2, <1>5, SeatNumbers, GreatestNatural
  <2>2. Rank(g, T) <= n /\ Rank(g, T) \in Nat
    BY <2>1, RankBounds DEF Foremost
  <2> DEFINE U == {t \in T : t <= g}
  <2>3. F \in SUBSET U /\ IsFiniteSet(U)
    BY <1>1, <2>1, RankBounds
  <2> HIDE DEF F, U
  <2>4. Cardinality(F) <= Cardinality(U)
    BY <2>3, FS_Subset
  <2>5. Cardinality(U) = Rank(g, T)
    BY DEF U, Rank
  <2>6. Cardinality(F) <= n
    BY <1>3, <2>2, <2>4, <2>5
  <2> QED
    BY <1>3, <2>6 DEF F
<1> QED
  BY <1>3, <1>4, <1>5

\* and no fewer, unless they are all.
LEMMA ForemostFull ==
  ASSUME NEW T \in SUBSET Seats, NEW n \in Nat, Foremost(T, n) # T
  PROVE  Cardinality(Foremost(T, n)) = n
<1> DEFINE F == Foremost(T, n)
<1>1. F \subseteq T
  BY DEF Foremost
<1>2. T \ F # {} /\ T \ F \in SUBSET Nat
  BY <1>1, SeatNumbers
<1>3. PICK x \in T \ F : \A y \in T \ F : x <= y
  BY <1>2, LeastNatural
<1>4. x \in T /\ x \in Nat /\ Rank(x, T) \in Nat
  BY <1>3, RankBounds, SeatNumbers
<1>5. ~(Rank(x, T) <= n)
  BY <1>3 DEF Foremost
<1> DEFINE U == {t \in T : t <= x}
           B == U \ {x}
<1>6. IsFiniteSet(U) /\ x \in U
  BY <1>4, RankBounds
<1>7. B \in SUBSET F
  <2>1. ASSUME NEW t \in B
        PROVE  t \in F
    <3>1. t \in T /\ t \in Nat /\ t <= x /\ t # x
      BY SeatNumbers
    <3> QED
      BY <1>3, <1>4, <3>1
  <2> QED
    BY <2>1
<1>8. Cardinality(U) = Rank(x, T)
  BY DEF Rank
<1>9. IsFiniteSet(F) /\ Cardinality(F) \in Nat /\ Cardinality(F) <= n
  BY ForemostAtMost
<1> HIDE DEF F, U
<1>10. Cardinality(B) = Cardinality(U) - 1
  BY <1>6, FS_RemoveElement
<1> HIDE DEF B
<1>11. Cardinality(B) <= Cardinality(F)
  BY <1>7, <1>9, FS_Subset
<1>12. Cardinality(F) = n
  BY <1>4, <1>5, <1>8, <1>9, <1>10, <1>11
<1> QED
  BY <1>12 DEF F

\* Of those beyond the first r, the first n are the next n.
LEMMA ForemostNext ==
  ASSUME NEW T \in SUBSET Seats, NEW r \in Nat, NEW n \in Nat,
         NEW s \in T, Rank(s, T) > r, Rank(s, T) <= r + n
  PROVE  Rank(s, {t \in T : Rank(t, T) > r}) <= n
<1> DEFINE F == Foremost(T, r)
           B == {t \in T : Rank(t, T) > r}
           U == {t \in T : t <= s}
           V == {t \in B : t <= s}
<1>1. \A t \in T : Rank(t, T) \in Nat /\ t \in Nat
  BY RankBounds, SeatNumbers
<1>2. s \notin F /\ F # T
  BY <1>1 DEF Foremost
<1>3. Cardinality(F) = r /\ IsFiniteSet(F)
  BY <1>2, ForemostFull, ForemostAtMost
<1>4. IsFiniteSet(V)
  <2>1. B \in SUBSET Seats
    OBVIOUS
  <2> QED
    BY <2>1, RankBounds
<1>5. F \cap V = {}
  <2>1. ASSUME NEW t \in F, t \in V
        PROVE  FALSE
    <3>1. t \in T /\ Rank(t, T) <= r /\ Rank(t, T) > r
      BY <2>1 DEF Foremost
    <3> QED
      BY <1>1, <3>1
  <2> QED
    BY <2>1
<1>6. F \cup V \in SUBSET U
  <2>1. ASSUME NEW t \in F
        PROVE  t \in U
    <3>1. t \in T /\ Rank(t, T) <= r
      BY DEF Foremost
    <3>2. ~(s < t)
      <4>1. SUFFICES ASSUME s < t PROVE FALSE
        OBVIOUS
      <4>2. Rank(s, T) < Rank(t, T)
        BY <3>1, <4>1, RankGrows
      <4> QED
        BY <1>1, <3>1, <4>2
    <3> QED
      BY <1>1, <3>1, <3>2
  <2> QED
    BY <2>1
<1>7. IsFiniteSet(U)
  BY RankBounds
<1>8. Cardinality(U) = Rank(s, T) /\ Cardinality(V) = Rank(s, B)
  BY DEF Rank
<1> HIDE DEF F, V, U, B
<1>9. Cardinality(F \cup V) = r + Cardinality(V)
  <2>1. Cardinality(F \cap V) = 0
    BY <1>5, FS_EmptySet
  <2>2. Cardinality(V) \in Nat
    BY <1>4, FS_CardinalityType
  <2> QED
    BY <1>3, <1>4, <2>1, <2>2, FS_Union
<1>10. Cardinality(F \cup V) <= Cardinality(U)
  BY <1>6, <1>7, FS_Subset
<1>11. Cardinality(V) \in Nat /\ Cardinality(U) \in Nat
  BY <1>4, <1>7, FS_CardinalityType
<1>12. Rank(s, B) <= n
  BY <1>8, <1>9, <1>10, <1>11
<1> QED
  BY <1>12 DEF B
-----------------------------------------------------------------------------
(* Walking the list.                                                       *)

SeatsOf(list) == {e.seat : e \in list}

\* How many of the accounts a walk by an offset has passed at `pos`, and who
\* they are.
Reach(pos) == IF conn.walk.by = "page" THEN pos * Served ELSE pos
First(n) == Foremost(Visible, n)

\* An offset means the same accounts from one page to the next.
Steady ==
  /\ conn.walk.by \in Offsets /\ "moved" \notin breaches
  /\ conn.walk.by \in {"page", "requested"} => "stalled" \notin breaches
  /\ conn.walk.by = "requested" => "capped" \notin breaches

\* Whoever was there all along has been read or lies ahead.
ReadInv ==
  /\ op.step = "filter" => op.pos = 0 /\ op.count = 0 /\ op.got = {}
  /\ op.step = "walk" =>
    /\ op.stayed \subseteq Visible
    /\ op.pos \in Nat /\ op.count \in Nat
    /\ conn.walk.by = "cursor" =>
         \A s \in op.stayed : s \in SeatsOf(op.got) \/ s > op.pos
    /\ Steady =>
         First(Reach(op.pos)) \subseteq SeatsOf(op.got) /\ op.count <= Reach(op.pos)

\* So it is of the page in hand: unless something moved, it is the page that
\* was asked for, or an early empty one.
PageInv ==
  LET page == SeatsOf(answer.page)
      all == SeatsOf(op.got) \cup page
      full == breaches \cap {"capped", "stalled"} = {} IN
  op.step = "walk" /\ call.phase = "answered" /\ call.verdict = "ok" =>
    /\ Cardinality(answer.page) = Cardinality(page)
    /\ conn.walk.by = "once" => (full => op.stayed \subseteq page)
    /\ conn.walk.by = "cursor" =>
         /\ \A s \in op.stayed :
              s \in all \/ (s > op.pos /\ \A p \in page : s > p)
         /\ ~answer.more => op.stayed \subseteq all
         /\ full /\ Cardinality(page) < PageSize => op.stayed \subseteq all
    /\ conn.walk.by \in Offsets /\ "moved" \notin breaches =>
         /\ page = Window(op.pos) \/ (page = {} /\ "stalled" \in breaches)
         /\ answer.total = IF "untold" \in breaches THEN 0 ELSE Cardinality(Visible)
         /\ answer.more = (Ahead(op.pos) # page)

\* A walk that ended well has read whoever was there all along, and a removal
\* that found nobody has read nobody of that name.
DoneInv ==
  op.step = "over" /\ Reliable(conn.walk)
    /\ ((op.does = "list" /\ op.outcome = "ok") \/ op.outcome = "notFound")
  => op.stayed \subseteq SeatsOf(op.got)

NamesInv ==
  conn.names # "lookup" => \A e \in op.got \cup answer.page : e.name = NameOf(e.seat, {})

LostInv ==
  op.step = "over" /\ op.outcome = "notFound" => Found(op.got) = {}
-----------------------------------------------------------------------------
(* The pages of a walk.                                                    *)

LEMMA VisibleSeats == Visible \in SUBSET Seats
BY DEF Visible

LEMMA ServedSome ==
  /\ Served \in Nat \ {0}
  /\ "capped" \notin breaches => Served = PageSize
BY ConnectorAssumption DEF Served

LEMMA AheadIs ==
  ASSUME NEW pos
  PROVE  /\ Ahead(pos) \in SUBSET Seats
         /\ conn.walk.by = "once" => Ahead(pos) = Visible
         /\ conn.walk.by = "cursor" => Ahead(pos) = {s \in Visible : s > pos}
         /\ conn.walk.by \in Offsets =>
              Ahead(pos) = {s \in Visible : Rank(s, Visible) > Reach(pos)}
<1>1. Ahead(pos) \in SUBSET Seats
  BY WindowVisible, VisibleSeats
<1>2. /\ conn.walk.by = "once" => Ahead(pos) = Visible
      /\ conn.walk.by = "cursor" => Ahead(pos) = {s \in Visible : s > pos}
      /\ conn.walk.by \in Offsets =>
           Ahead(pos) = {s \in Visible : Rank(s, Visible) > Reach(pos)}
  BY DEF Ahead, Reach, Offsets
<1> QED
  BY <1>1, <1>2

LEMMA WindowIs ==
  ASSUME NEW pos, conn.walk.by # "once"
  PROVE  /\ Window(pos) = Foremost(Ahead(pos), Served)
         /\ Cardinality(Window(pos)) \in Nat
         /\ Cardinality(Window(pos)) <= Served
         /\ Cardinality(Window(pos)) < Served => Window(pos) = Ahead(pos)
<1>1. Window(pos) = Foremost(Ahead(pos), Served)
  BY DEF Window, Foremost
<1>2. Ahead(pos) \in SUBSET Seats /\ Served \in Nat
  BY AheadIs, ServedSome
<1>3. /\ Cardinality(Window(pos)) \in Nat
      /\ Cardinality(Window(pos)) <= Served
  BY <1>1, <1>2, ForemostAtMost
<1>4. ASSUME Window(pos) # Ahead(pos)
      PROVE  Cardinality(Window(pos)) = Served
  BY <1>1, <1>2, <1>4, ForemostFull
<1> QED
  BY <1>1, <1>2, <1>3, <1>4

\* Whoever lies ahead of a walk that follows a cursor is on the page, or
\* behind everybody who is.
LEMMA CursorWindow ==
  ASSUME NEW pos, conn.walk.by # "once",
         NEW s \in Ahead(pos) \ Window(pos), NEW p \in Window(pos)
  PROVE  s > p
<1>1. /\ Ahead(pos) \in SUBSET Seats /\ Served \in Nat
      /\ Window(pos) = Foremost(Ahead(pos), Served)
  BY AheadIs, ServedSome, WindowIs
<1>2. p \in Ahead(pos) /\ Rank(p, Ahead(pos)) <= Served
  BY <1>1 DEF Foremost
<1>3. ~(Rank(s, Ahead(pos)) <= Served)
  BY <1>1 DEF Foremost
<1>4. s \in Nat /\ p \in Nat
  BY <1>1, <1>2, SeatNumbers
<1>5. s # p
  BY <1>2, <1>3
<1>6. ~(s < p)
  <2>1. SUFFICES ASSUME s < p PROVE FALSE
    OBVIOUS
  <2>2. Rank(s, Ahead(pos)) < Rank(p, Ahead(pos))
    BY <1>1, <1>2, <2>1, RankGrows
  <2>3. Rank(s, Ahead(pos)) \in Nat /\ Rank(p, Ahead(pos)) \in Nat
    BY <1>1, RankBounds
  <2> QED
    BY <1>1, <1>2, <1>3, <2>2, <2>3
<1> QED
  BY <1>4, <1>5, <1>6

LEMMA ReachIs ==
  ASSUME NEW pos \in Nat
  PROVE  /\ Reach(pos) \in Nat
         /\ conn.walk.by = "page" => Reach(pos + 1) = Reach(pos) + Served
         /\ conn.walk.by = "page" => Reach(pos + 1) = (pos + 1) * Served
         /\ conn.walk.by # "page" => \A p : Reach(p) = p
         /\ Reach(0) = 0
<1>1. Served \in Nat
  BY ServedSome
<1> DEFINE n == Served
<1>2. pos * n \in Nat /\ (pos + 1) * n = pos * n + n /\ 0 * n = 0
  <2> HIDE DEF n
  <2>1. n \in Nat
    BY <1>1 DEF n
  <2> QED
    BY <2>1
<1> QED
  BY <1>2 DEF Reach

\* A walk by an offset reaches as many more as its page could hold, or held.
LEMMA OffsetWindow ==
  ASSUME NEW pos \in Nat, conn.walk.by \in Offsets, NEW n \in Nat,
         n <= Served \/ Window(pos) = Ahead(pos)
  PROVE  First(Reach(pos) + n) \subseteq First(Reach(pos)) \cup Window(pos)
<1> DEFINE r == Reach(pos)
<1>1. /\ Visible \in SUBSET Seats /\ r \in Nat /\ Served \in Nat
      /\ Window(pos) = Foremost(Ahead(pos), Served)
      /\ Ahead(pos) = {s \in Visible : Rank(s, Visible) > r}
  BY VisibleSeats, ReachIs, ServedSome, WindowIs, AheadIs DEF Offsets
<1> HIDE DEF r
<1>2. ASSUME NEW s \in First(r + n), s \notin First(r)
      PROVE  s \in Window(pos)
  <2>1. s \in Visible /\ Rank(s, Visible) <= r + n /\ ~(Rank(s, Visible) <= r)
    BY <1>2 DEF First, Foremost
  <2>2. Rank(s, Visible) \in Nat
    BY <1>1, RankBounds
  <2>3. Rank(s, Visible) > r
    BY <1>1, <2>1, <2>2
  <2>4. s \in Ahead(pos)
    BY <1>1, <2>1, <2>3
  <2>5. CASE Window(pos) = Ahead(pos)
    BY <2>4, <2>5
  <2>6. CASE n <= Served
    <3>1. Rank(s, Ahead(pos)) <= n
      BY <1>1, <2>1, <2>3, ForemostNext
    <3>2. Rank(s, Ahead(pos)) \in Nat
      BY AheadIs, RankBounds
    <3> QED
      BY <1>1, <2>4, <2>6, <3>1, <3>2 DEF Foremost
  <2> QED
    BY <2>5, <2>6
<1> QED
  BY <1>2 DEF r

LEMMA AllReached ==
  ASSUME NEW n \in Nat, Cardinality(Visible) <= n
  PROVE  Visible \subseteq First(n)
<1>1. ASSUME NEW s \in Visible
      PROVE  Rank(s, Visible) <= n
  <2>1. /\ Rank(s, Visible) \in Nat /\ Rank(s, Visible) <= Cardinality(Visible)
        /\ Cardinality(Visible) \in Nat
    BY VisibleSeats, RankBounds, SeatNumbers
  <2> QED
    BY <2>1
<1> QED
  BY <1>1 DEF First, Foremost

LEMMA AllAhead ==
  ASSUME NEW pos \in Nat, conn.walk.by \in Offsets
  PROVE  Visible \subseteq First(Reach(pos)) \cup Ahead(pos)
<1>1. /\ Reach(pos) \in Nat
      /\ Ahead(pos) = {s \in Visible : Rank(s, Visible) > Reach(pos)}
      /\ \A s \in Visible : Rank(s, Visible) \in Nat
  BY ReachIs, AheadIs, VisibleSeats, RankBounds
<1> QED
  BY <1>1 DEF First, Foremost

\* A page holds an account once.
LEMMA EntriesOnce ==
  ASSUME NEW page \in SUBSET Seats, Serve(page)
  PROVE  /\ SeatsOf(answer'.page) = page
         /\ Cardinality(answer'.page) = Cardinality(page)
         /\ answer'.total = IF "untold" \in breaches THEN 0 ELSE Cardinality(Visible)
         /\ answer'.more = (Ahead(op.pos) # page)
<1>1. PICK failed :
        answer' = [page |-> {[seat |-> s, name |-> NameOf(s, failed),
                              status |-> conn.tells[account[s]]] : s \in page},
                   total |-> IF "untold" \in breaches THEN 0
                             ELSE Cardinality(Visible),
                   more |-> Ahead(op.pos) # page]
  BY DEF Serve
<1> DEFINE entry(s) == [seat |-> s, name |-> NameOf(s, failed),
                        status |-> conn.tells[account[s]]]
           list == {entry(s) : s \in page}
           f == [s \in page |-> entry(s)]
<1>2. /\ answer'.page = list
      /\ answer'.total = IF "untold" \in breaches THEN 0 ELSE Cardinality(Visible)
      /\ answer'.more = (Ahead(op.pos) # page)
  BY <1>1
<1>3. \A s \in page : entry(s).seat = s
  OBVIOUS
<1> HIDE DEF entry
<1>4. SeatsOf(list) = page
  BY <1>3 DEF SeatsOf
<1>5. f \in Bijection(page, list)
  <2>1. f \in [page -> list] /\ \A s \in page : f[s] = entry(s)
    OBVIOUS
  <2>2. \A s, t \in page : f[s] = f[t] => s = t
    BY <1>3, <2>1
  <2>3. \A e \in list : \E s \in page : f[s] = e
    BY <2>1
  <2> HIDE DEF f, list
  <2> QED
    BY <2>1, <2>2, <2>3 DEF Bijection, Injection, Surjection, IsInjective
<1>6. Cardinality(list) = Cardinality(page)
  BY <1>5, SeatNumbers, FS_Bijection DEF ExistsBijection
<1> QED
  BY <1>2, <1>4, <1>6

\* The page in hand of a walk by an offset that nothing has moved under.
AsAsked ==
  LET page == SeatsOf(answer.page) IN
  /\ Cardinality(answer.page) = Cardinality(page)
  /\ page = Window(op.pos) \/ (page = {} /\ "stalled" \in breaches)

\* The next position reaches no further than what has been read.
LEMMA NextReach ==
  ASSUME Steady, AsAsked, op.pos \in Nat
  PROVE  /\ NextPos \in Nat /\ Reach(NextPos) \in Nat
         /\ Cardinality(answer.page) \in Nat
         /\ First(Reach(NextPos))
              \subseteq First(Reach(op.pos)) \cup SeatsOf(answer.page)
         /\ Reach(op.pos) + Cardinality(answer.page) <= Reach(NextPos)
<1> DEFINE page == SeatsOf(answer.page)
           W == Window(op.pos)
           r == Reach(op.pos)
<1>1. /\ conn.walk.by \in Offsets /\ r \in Nat /\ Served \in Nat /\ Served > 0
      /\ Cardinality(W) \in Nat /\ Cardinality(W) <= Served
  BY ReachIs, ServedSome, WindowIs DEF Steady, Offsets
<1>2. Cardinality(answer.page) = Cardinality(page)
  BY DEF AsAsked
<1>3. page = {} <=> answer.page = {}
  BY DEF SeatsOf
<1>4. CASE conn.walk.by = "page"
  <2>1. NextPos = op.pos + 1 /\ page = W
    BY <1>4 DEF NextPos, AsAsked, Steady
  <2>2. Reach(NextPos) = r + Served
    BY <1>4, <2>1, ReachIs
  <2>3. First(r + Served) \subseteq First(r) \cup W
    BY <1>1, OffsetWindow
  <2> HIDE DEF r, W, page
  <2>4. /\ NextPos \in Nat /\ Reach(NextPos) \in Nat
        /\ Cardinality(answer.page) \in Nat
        /\ r + Cardinality(answer.page) <= Reach(NextPos)
    BY <1>1, <1>2, <2>1, <2>2
  <2> QED
    BY <2>1, <2>2, <2>3, <2>4 DEF r, page
<1>5. CASE conn.walk.by = "requested"
  <2>1. NextPos = op.pos + PageSize /\ page = W
    BY <1>5 DEF NextPos, AsAsked, Steady
  <2>2. Served = PageSize
    BY <1>5, ServedSome DEF Steady
  <2>3. r = op.pos /\ Reach(NextPos) = NextPos
    BY <1>5, ReachIs
  <2>4. First(r + Served) \subseteq First(r) \cup W
    BY <1>1, OffsetWindow
  <2> HIDE DEF r, W, page
  <2>5. /\ NextPos \in Nat /\ Reach(NextPos) \in Nat
        /\ Reach(NextPos) = r + Served
        /\ Cardinality(answer.page) \in Nat
        /\ r + Cardinality(answer.page) <= Reach(NextPos)
    BY <1>1, <1>2, <2>1, <2>2, <2>3
  <2> QED
    BY <2>1, <2>4, <2>5 DEF r, page
<1>6. CASE conn.walk.by = "returned"
  <2>1. r = op.pos /\ Reach(NextPos) = NextPos
    BY <1>6, ReachIs
  <2>2. CASE page = {}
    <3>1. NextPos = op.pos + Cardinality(answer.page)
      BY <1>6 DEF NextPos
    <3>2. Cardinality(answer.page) = 0
      BY <1>2, <2>2, FS_EmptySet
    <3>3. NextPos = op.pos
      BY <3>1, <3>2
    <3> QED
      BY <1>1, <2>1, <3>2, <3>3
  <2>3. CASE page # {}
    <3>1. page = W
      BY <2>3 DEF AsAsked
    <3>2. NextPos = op.pos + Cardinality(answer.page)
      BY <1>3, <1>6, <2>3 DEF NextPos
    <3>3. First(r + Cardinality(W)) \subseteq First(r) \cup W
      BY <1>1, OffsetWindow
    <3> HIDE DEF r, W, page
    <3>4. /\ NextPos \in Nat /\ Reach(NextPos) \in Nat
          /\ Reach(NextPos) = r + Cardinality(W)
          /\ Cardinality(answer.page) \in Nat
          /\ r + Cardinality(answer.page) <= Reach(NextPos)
      BY <1>1, <1>2, <2>1, <3>1, <3>2
    <3> QED
      BY <3>1, <3>3, <3>4 DEF r, page
  <2> QED
    BY <2>2, <2>3
<1> QED
  BY <1>1, <1>4, <1>5, <1>6 DEF Offsets

\* A walk that follows a cursor goes on from the last account on the page.
LEMMA LastOnPage ==
  ASSUME conn.walk.by = "cursor", answer.page # {},
         SeatsOf(answer.page) \in SUBSET Seats
  PROVE  NextPos \in SeatsOf(answer.page) /\ NextPos \in Nat
<1> DEFINE page == SeatsOf(answer.page)
<1>1. page # {} /\ page \in SUBSET Nat /\ \A s \in page : s <= Cardinality(Seats)
      /\ Cardinality(Seats) \in Nat
  BY SeatNumbers DEF SeatsOf
<1>2. \E p \in page : \A s \in page : s <= p
  <2> HIDE DEF page
  <2> QED
    BY <1>1, GreatestNatural
<1>3. NextPos = CHOOSE p \in {e.seat : e \in answer.page} :
                  \A e \in answer.page : e.seat <= p
  BY DEF NextPos
<1>4. \E p \in {e.seat : e \in answer.page} : \A e \in answer.page : e.seat <= p
  BY <1>2 DEF SeatsOf
<1>5. NextPos \in page
  BY <1>3, <1>4 DEF SeatsOf
<1> QED
  BY <1>1, <1>5

\* The step to the next page keeps what has been read.
LEMMA ReadOn ==
  ASSUME ConnInv, TypeInv, ReadInv, PageInv, OpShape, TurnPage, TurnOn
  PROVE  ReadInv'
<1>1. /\ op.step = "walk" /\ call.phase = "answered" /\ call.verdict = "ok"
      /\ op'.stayed = op.stayed /\ UNCHANGED <<conn, breaches, account>>
  BY TurnPageStep
<1>2. /\ op'.step = "walk" /\ op'.pos = NextPos
      /\ op'.count = op.count + Cardinality(answer.page)
      /\ op'.got = op.got \cup answer.page
  BY DEF TurnOn, ReadThePage
<1>3. /\ op.stayed \subseteq Visible /\ op.pos \in Nat /\ op.count \in Nat
      /\ conn.walk.by = "cursor" =>
           \A s \in op.stayed : s \in SeatsOf(op.got) \/ s > op.pos
      /\ Steady =>
           First(Reach(op.pos)) \subseteq SeatsOf(op.got)
             /\ op.count <= Reach(op.pos)
  BY <1>1 DEF ReadInv
<1>4. SeatsOf(op'.got) = SeatsOf(op.got) \cup SeatsOf(answer.page)
  BY <1>2 DEF SeatsOf
<1>5. SeatsOf(answer.page) \in SUBSET Seats
  BY DEF TypeInv, TypeOK, Entry, SeatsOf
<1>6. Cardinality(answer.page) \in Nat
  BY <1>1, <1>5, SeatNumbers DEF PageInv
<1>7. NextPos \in Nat
  <2>1. CASE answer.page = {} /\ conn.walk.by = "cursor"
    BY <1>3, <2>1 DEF NextPos
  <2>2. CASE answer.page # {} /\ conn.walk.by = "cursor"
    BY <1>5, <2>2, LastOnPage
  <2>3. CASE conn.walk.by # "cursor"
    BY <1>3, <1>6, <2>3, ConnectorAssumption DEF NextPos
  <2> QED
    BY <2>1, <2>2, <2>3
<1>8. ASSUME conn.walk.by = "cursor", NEW s \in op.stayed,
             s \notin SeatsOf(op.got), s \notin SeatsOf(answer.page)
      PROVE  s > NextPos
  <2>1. s > op.pos /\ \A p \in SeatsOf(answer.page) : s > p
    <3>1. \/ s \in SeatsOf(op.got) \cup SeatsOf(answer.page)
          \/ s > op.pos /\ \A p \in SeatsOf(answer.page) : s > p
      BY <1>1, <1>8 DEF PageInv
    <3> QED
      BY <1>8, <3>1
  <2>2. CASE answer.page = {}
    BY <1>8, <2>1, <2>2 DEF NextPos
  <2>3. CASE answer.page # {}
    BY <1>5, <1>8, <2>1, <2>3, LastOnPage
  <2> QED
    BY <2>2, <2>3
<1>9. ASSUME Steady
      PROVE  /\ First(Reach(NextPos)) \subseteq SeatsOf(op'.got)
             /\ op'.count <= Reach(NextPos)
  <2>1. AsAsked
    BY <1>1, <1>9 DEF PageInv, AsAsked, Steady
  <2>2. /\ First(Reach(NextPos))
             \subseteq First(Reach(op.pos)) \cup SeatsOf(answer.page)
        /\ Reach(op.pos) + Cardinality(answer.page) <= Reach(NextPos)
        /\ Reach(op.pos) \in Nat /\ Reach(NextPos) \in Nat
    BY <1>3, <1>9, <2>1, NextReach, ReachIs
  <2>3. op'.count <= Reach(NextPos)
    BY <1>2, <1>3, <1>6, <1>9, <2>2
  <2> QED
    BY <1>3, <1>4, <1>9, <2>2, <2>3
<1>10. Visible' = Visible /\ Steady' = Steady
  BY <1>1 DEF Visible, Steady
<1>11. First(Reach(op.pos))' = First(Reach(NextPos))
       /\ Reach(op.pos)' = Reach(NextPos)
  BY <1>1, <1>2 DEF First, Foremost, Reach, Rank, Visible, Served
<1>12. op'.count \in Nat
  BY <1>2, <1>3, <1>6
<1> QED
  BY <1>1, <1>2, <1>3, <1>4, <1>7, <1>8, <1>9, <1>10, <1>11, <1>12 DEF ReadInv

LEMMA ReadStep ==
  ASSUME ConnInv, TypeInv, ReadInv, PageInv, [Next]_vars
  PROVE  ReadInv'
<1>1. OpShape
  BY DEF ConnInv, OpOK, OpShape
<1>2. CASE UNCHANGED <<op, conn, breaches, account>>
  BY <1>2 DEF ReadInv, Steady, First, Foremost, Reach, Rank, Visible, Served,
     SeatsOf
<1>3. ASSUME op'.stayed = Visible, op'.pos = 0, op'.count = 0, op'.got = {},
             UNCHANGED <<conn, account>>
      PROVE  ReadInv'
  <2>1. Visible' = Visible /\ Visible' \in SUBSET Seats
    BY <1>3, VisibleSeats DEF Visible
  <2>2. \A s \in Visible : s > 0
    BY VisibleSeats, SeatNumbers
  <2>3. Reach(op.pos)' = 0
    <3>1. Served' \in Nat
      <4>1. PageSize \in Nat
        BY ConnectorAssumption
      <4> QED
        BY <4>1 DEF Served
    <3> DEFINE n == Served'
    <3>2. 0 * n = 0
      <4> HIDE DEF n
      <4>1. n \in Nat
        BY <3>1 DEF n
      <4> QED
        BY <4>1
    <3>3. Reach(op.pos)' = IF conn'.walk.by = "page" THEN op'.pos * n ELSE op'.pos
      BY DEF Reach
    <3> HIDE DEF n
    <3> QED
      BY <1>3, <3>2, <3>3
  <2>4. First(Reach(op.pos))' = {}
    <3>1. First(Reach(op.pos))' = Foremost(Visible', 0)
      BY <2>3 DEF First, Foremost, Rank
    <3>2. Cardinality(Foremost(Visible', 0)) = 0 /\ IsFiniteSet(Foremost(Visible', 0))
      BY <2>1, ForemostAtMost
    <3> QED
      BY <3>1, <3>2, FS_EmptySet
  <2> QED
    BY <1>3, <2>1, <2>2, <2>3, <2>4 DEF ReadInv
<1>4. CASE Starting
  <2>1. PICK safe : Fresh(safe)
    BY <1>4, StartingStep
  <2> QED
    BY <1>3, <2>1 DEF Fresh
<1>5. CASE Moving
  <2>1. PICK s \in Seats, a \in Accounts \cup {"gone"} : Move(s, a)
    BY <1>5, MovingOne
  <2>2. /\ op'.step = op.step /\ op'.pos = op.pos /\ op'.count = op.count
        /\ op'.got = op.got /\ conn' = conn /\ op'.stayed \subseteq op.stayed
    BY <1>1, <2>1, MovingStep DEF ReadSoFar
  <2>3. CASE op.step = "walk"
    <3>1. ~Steady'
      BY <1>1, <2>1, <2>3, MovingStep DEF Steady
    <3>2. op'.stayed \subseteq Visible'
      <4>1. ASSUME NEW t \in op'.stayed
            PROVE  account'[t] \in conn.sees /\ t \in Seats
        <5>1. t \in op.stayed /\ t \in Seats /\ account[t] \in conn.sees
          BY <2>2, <2>3 DEF ReadInv, Visible
        <5>2. account' = [account EXCEPT ![s] = a] /\ DOMAIN account = Seats
          BY <1>1, <2>1, MovingStep DEF TypeInv, TypeOK
        <5>3. CASE t # s
          BY <5>1, <5>2, <5>3
        <5>4. CASE t = s
          <6>1. a \in conn.sees
            BY <1>1, <2>1, <5>4, MovingStep
          <6> QED
            BY <5>1, <5>2, <5>4, <6>1
        <5> QED
          BY <5>3, <5>4
      <4> QED
        BY <2>2, <4>1 DEF Visible
    <3> QED
      BY <2>2, <2>3, <3>1, <3>2 DEF ReadInv
  <2>4. CASE op.step # "walk"
    BY <2>2, <2>4 DEF ReadInv
  <2> QED
    BY <2>3, <2>4
<1>6. CASE PageServed \/ FilterServed
  BY <1>2, <1>6, ServedPage
<1>7. CASE Failing
  BY <1>2, <1>7, FailingStep
<1>8. CASE ChangeServed
  BY <1>8 DEF ChangeServed, ReadInv
<1>9. CASE TurnPage
  <2>1. CASE TurnOn
    BY <1>1, <1>9, <2>1, ReadOn
  <2>2. CASE TurnFails \/ TurnOver
    BY <2>2 DEF TurnFails, TurnOver, ReadInv
  <2> QED
    BY <1>1, <1>9, <2>1, <2>2, TurnPageStep
<1>10. CASE TurnFilter
  <2>1. CASE op'.step = "change"
    BY <2>1 DEF ReadInv
  <2>2. CASE op'.step = "walk" /\ op'.stayed = Visible
    BY <1>1, <1>3, <1>10, <2>2, TurnFilterStep DEF ReadSoFar, ReadInv
  <2> QED
    BY <1>1, <1>10, <2>1, <2>2, TurnFilterStep
<1>11. CASE Conclude
  BY <1>1, <1>11, ConcludeStep DEF ReadInv
<1>12. CASE UNCHANGED vars
  BY <1>2, <1>12 DEF vars
<1> QED
  BY <1>4, <1>5, <1>6, <1>7, <1>8, <1>9, <1>10, <1>11, <1>12, NextSteps

\* The page that a walk is served.
LEMMA PageArrives ==
  ASSUME ConnInv, TypeInv, ReadInv, OpShape, PageServed
  PROVE  PageInv'
<1>1. /\ op.step = "walk" /\ UNCHANGED <<conn, breaches, account, op>>
  BY DEF PageServed
<1>2. PICK page \in {Window(op.pos)}
                    \cup (IF "stalled" \in breaches THEN {{}} ELSE {}) : Serve(page)
  BY DEF PageServed
<1>3. /\ page = Window(op.pos) \/ (page = {} /\ "stalled" \in breaches)
      /\ page \in SUBSET Seats
  BY <1>2, WindowVisible, VisibleSeats
<1>4. /\ SeatsOf(answer'.page) = page
      /\ Cardinality(answer'.page) = Cardinality(page)
      /\ answer'.total = IF "untold" \in breaches THEN 0 ELSE Cardinality(Visible)
      /\ answer'.more = (Ahead(op.pos) # page)
  BY <1>2, <1>3, EntriesOnce
<1>5. /\ op.stayed \subseteq Visible
      /\ conn.walk.by = "cursor" =>
           \A s \in op.stayed : s \in SeatsOf(op.got) \/ s > op.pos
  BY <1>1 DEF ReadInv
<1> DEFINE full == breaches \cap {"capped", "stalled"} = {}
           all == SeatsOf(op.got) \cup page
<1>6. ASSUME full, conn.walk.by = "once"
      PROVE  op.stayed \subseteq page
  <2>1. page = Visible
    BY <1>3, <1>6 DEF Window
  <2> QED
    BY <1>5, <2>1
<1>7. ASSUME conn.walk.by = "cursor"
      PROVE  /\ \A s \in op.stayed :
                  s \in all \/ (s > op.pos /\ \A p \in page : s > p)
             /\ ~answer'.more => op.stayed \subseteq all
             /\ full /\ Cardinality(page) < PageSize => op.stayed \subseteq all
  <2>1. ASSUME NEW s \in op.stayed, s \notin all
        PROVE  s \in Ahead(op.pos) \ page /\ s > op.pos
    BY <1>5, <1>7, <2>1, AheadIs
  <2>2. ASSUME NEW s \in op.stayed, s \notin all, NEW p \in page
        PROVE  s > p
    <3>1. page = Window(op.pos)
      BY <1>3, <2>2
    <3> QED
      BY <1>7, <2>1, <2>2, <3>1, CursorWindow
  <2>3. ASSUME full, Cardinality(page) < PageSize
        PROVE  page = Ahead(op.pos)
    <3>1. page = Window(op.pos) /\ Served = PageSize
      BY <1>3, <2>3, ServedSome
    <3> QED
      BY <1>7, <2>3, <3>1, WindowIs
  <2>4. ~answer'.more => page = Ahead(op.pos)
    BY <1>4
  <2> QED
    BY <2>1, <2>2, <2>3, <2>4
<1>8. /\ Window(op.pos)' = Window(op.pos) /\ Ahead(op.pos)' = Ahead(op.pos)
      /\ Visible' = Visible
  BY <1>1 DEF Window, Ahead, Visible, Served, Rank
<1>9. /\ SeatsOf(answer.page)' = page /\ SeatsOf(op.got)' = SeatsOf(op.got)
  BY <1>1, <1>4 DEF SeatsOf
<1> QED
  BY <1>1, <1>3, <1>4, <1>6, <1>7, <1>8, <1>9 DEF PageInv

LEMMA PageStep ==
  ASSUME ConnInv, TypeInv, ReadInv, PageInv, [Next]_vars
  PROVE  PageInv'
<1>1. OpShape /\ DOMAIN call = DOMAIN Idle
  BY DEF ConnInv, OpOK, OpShape, CallInv
<1>2. ASSUME \/ op'.step # "walk" \/ call'.phase # "answered"
             \/ call'.verdict # "ok"
      PROVE  PageInv'
  BY <1>2 DEF PageInv
<1>3. CASE Starting
  BY <1>2, <1>3, StartingStep, RequestShape DEF Fresh
<1>4. CASE Moving
  <2>1. PICK s \in Seats, a \in Accounts \cup {"gone"} : Move(s, a)
    BY <1>4, MovingOne
  <2>2. /\ op'.step = op.step /\ op'.pos = op.pos /\ op'.got = op.got
        /\ op'.stayed \subseteq op.stayed
        /\ conn' = conn /\ call' = call /\ answer' = answer
        /\ op.step = "walk" => breaches' = breaches \cup {"moved"}
    BY <1>1, <2>1, MovingStep DEF ReadSoFar
  <2> QED
    BY <1>2, <2>2 DEF PageInv, SeatsOf
<1>5. CASE PageServed
  BY <1>1, <1>5, PageArrives
<1>6. CASE FilterServed \/ ChangeServed
  BY <1>2, <1>6 DEF FilterServed, ChangeServed
<1>7. CASE Failing
  BY <1>1, <1>2, <1>7, FailingVerdict
<1>8. CASE TurnPage
  <2>1. call' \in {Idle, Request(FALSE), Request(conn.safe)}
    BY <1>1, <1>8, TurnPageStep
  <2>2. Idle.phase = "idle"
    BY DEF Idle
  <2>3. Request(FALSE).phase = "sent" /\ Request(conn.safe).phase = "sent"
    BY RequestShape
  <2> QED
    BY <1>2, <2>1, <2>2, <2>3
<1>9. CASE TurnFilter
  BY <1>1, <1>2, <1>9, TurnFilterStep, RequestShape
<1>10. CASE Conclude
  BY <1>1, <1>2, <1>10, ConcludeStep DEF Idle
<1>11. CASE UNCHANGED vars
  <2>1. UNCHANGED <<conn, breaches, account, op, call, answer>>
    BY <1>11 DEF vars
  <2>2. /\ Window(op.pos)' = Window(op.pos) /\ Ahead(op.pos)' = Ahead(op.pos)
        /\ Visible' = Visible
        /\ SeatsOf(answer.page)' = SeatsOf(answer.page)
        /\ SeatsOf(op.got)' = SeatsOf(op.got)
    BY <2>1 DEF Window, Ahead, Visible, Served, Rank, SeatsOf
  <2> QED
    BY <2>1, <2>2 DEF PageInv
<1> QED
  BY <1>3, <1>4, <1>5, <1>6, <1>7, <1>8, <1>9, <1>10, <1>11, NextSteps
-----------------------------------------------------------------------------
(* The end of a walk.                                                      *)

\* What a connector counts on, when it turns the page.
Trusted ==
  LET w == conn.walk IN
  /\ w.by \in {"page", "returned", "requested"} => "moved" \notin breaches
  /\ w.by \in {"once", "requested"} \/ "short" \in w.until
       => "capped" \notin breaches
  /\ w.until \cap {"total", "reach", "pages"} # {} => "untold" \notin breaches
  /\ w.by \in {"once", "page", "requested"} \/ w.until \cap {"short", "empty"} # {}
       => "stalled" \notin breaches
  /\ "scim" \in w.until /\ "untold" \in breaches
       => breaches \cap {"capped", "stalled"} = {}
  /\ "cap" \in w.until => op.pages + 1 < MaxPages

\* A walk by an offset that stops, and neither fails nor gives up, has reached
\* everybody, by whichever rule it stopped.
LEMMA OffsetWalkOver ==
  ASSUME ConnInv, TypeInv, ReadInv, PageInv, Trusted, conn.walk.by \in Offsets,
         op.step = "walk", call.phase = "answered", call.verdict = "ok",
         ~Stuck(op.count + Cardinality(answer.page)),
         Over(op.count + Cardinality(answer.page))
  PROVE  op.stayed \subseteq SeatsOf(op.got) \cup SeatsOf(answer.page)
<1> DEFINE page == SeatsOf(answer.page)
           all == SeatsOf(op.got) \cup page
           count == op.count + Cardinality(answer.page)
           until == conn.walk.until
<1>1. Steady
  BY DEF Trusted, Steady, Offsets
<1>2. /\ AsAsked
      /\ answer.total = IF "untold" \in breaches THEN 0 ELSE Cardinality(Visible)
      /\ answer.more = (Ahead(op.pos) # page)
  BY <1>1 DEF PageInv, AsAsked, Steady
<1>3. /\ op.stayed \subseteq Visible /\ op.pos \in Nat /\ op.count \in Nat
      /\ First(Reach(op.pos)) \subseteq SeatsOf(op.got)
      /\ op.count <= Reach(op.pos)
  BY <1>1 DEF ReadInv
<1>4. /\ NextPos \in Nat /\ Reach(NextPos) \in Nat /\ Reach(op.pos) \in Nat
      /\ Cardinality(answer.page) \in Nat
      /\ First(Reach(NextPos)) \subseteq First(Reach(op.pos)) \cup page
      /\ Reach(op.pos) + Cardinality(answer.page) <= Reach(NextPos)
  BY <1>1, <1>2, <1>3, NextReach, ReachIs
<1>5. count \in Nat /\ count <= Reach(NextPos) /\ op.count <= count
  BY <1>3, <1>4
<1>6. Cardinality(Visible) \in Nat
  BY VisibleSeats, SeatNumbers
<1>7. WalkOK(conn.walk)
  BY ConnTraits DEF TypeInv, TypeOK, TraitsOK
<1>8. ASSUME Cardinality(Visible) <= Reach(NextPos)
      PROVE  op.stayed \subseteq all
  BY <1>3, <1>4, <1>8, AllReached
<1>9. ASSUME page = Ahead(op.pos)
      PROVE  op.stayed \subseteq all
  BY <1>3, <1>9, AllAhead
<1>10. ASSUME "stalled" \notin breaches, answer.page = {}
       PROVE  op.stayed \subseteq all
  <2>1. page = Window(op.pos) /\ page = {}
    BY <1>2, <1>10 DEF AsAsked, SeatsOf
  <2>2. Cardinality(Window(op.pos)) = 0
    BY <2>1, FS_EmptySet
  <2>3. Window(op.pos) = Ahead(op.pos)
    BY <2>2, WindowIs, ServedSome DEF Offsets
  <2> QED
    BY <1>9, <2>1, <2>3
<1>11. ASSUME "stalled" \notin breaches, "capped" \notin breaches,
              Cardinality(answer.page) < PageSize
       PROVE  op.stayed \subseteq all
  <2>1. page = Window(op.pos) /\ Cardinality(Window(op.pos)) < Served
    BY <1>2, <1>11, ServedSome DEF AsAsked
  <2>2. Window(op.pos) = Ahead(op.pos)
    BY <2>1, WindowIs DEF Offsets
  <2> QED
    BY <1>9, <2>1, <2>2
<1>12. ASSUME "untold" \notin breaches, answer.total <= count
       PROVE  op.stayed \subseteq all
  <2>1. answer.total = Cardinality(Visible)
    BY <1>2, <1>12
  <2>2. Cardinality(Visible) <= count
    BY <1>12, <2>1
  <2>3. Cardinality(Visible) <= Reach(NextPos)
    <3> HIDE DEF count
    <3> QED
      BY <1>4, <1>5, <1>6, <2>2
  <2> QED
    BY <1>8, <2>3
<1>13. CASE "noMore" \in until /\ ~answer.more
  BY <1>2, <1>9, <1>13
<1>14. CASE "empty" \in until /\ answer.page = {}
  BY <1>10, <1>14 DEF Trusted
<1>15. CASE "short" \in until /\ Cardinality(answer.page) < PageSize
  BY <1>11, <1>15 DEF Trusted
<1>16. CASE "total" \in until /\ count >= answer.total
  <2>1. "untold" \notin breaches /\ answer.total \in Nat
    BY <1>2, <1>6, <1>16 DEF Trusted
  <2> QED
    BY <1>5, <1>12, <1>16, <2>1
<1>17. CASE "reach" \in until /\ op.pos + PageSize >= answer.total
  <2>1. "untold" \notin breaches /\ conn.walk.by = "requested"
    BY <1>7, <1>17 DEF Trusted, WalkOK
  <2>2. NextPos = op.pos + PageSize /\ Reach(NextPos) = NextPos
    BY <1>3, <2>1, ReachIs DEF NextPos
  <2>3. Cardinality(Visible) <= Reach(NextPos)
    BY <1>2, <1>4, <1>6, <1>17, <2>1, <2>2
  <2> QED
    BY <1>8, <2>3
<1>18. CASE "pages" \in until /\ (op.pos + 1) * Served >= answer.total
  <2>1. "untold" \notin breaches /\ conn.walk.by = "page"
    BY <1>7, <1>18 DEF Trusted, WalkOK
  <2>2. NextPos = op.pos + 1 /\ Reach(NextPos) = (op.pos + 1) * Served
    BY <1>3, <2>1, ReachIs DEF NextPos
  <2>3. Cardinality(Visible) <= Reach(NextPos)
    BY <1>2, <1>4, <1>6, <1>18, <2>1, <2>2
  <2> QED
    BY <1>8, <2>3
<1>19. CASE "cap" \in until /\ op.pages + 1 = MaxPages
  <2>1. op.pages + 1 < MaxPages /\ op.pages \in Nat
    BY <1>19 DEF Trusted, TypeInv, PagesInv
  <2> QED
    BY <1>19, <2>1
<1>20. CASE "scim" \in until /\ answer.page = {}
  <2>1. ~(answer.total > op.count)
    BY <1>20 DEF Stuck
  <2>2. CASE "untold" \in breaches
    BY <1>10, <1>20, <2>2 DEF Trusted
  <2>3. CASE "untold" \notin breaches
    <3>1. answer.total <= count
      BY <1>2, <1>3, <1>5, <1>6, <2>1, <2>3
    <3> QED
      BY <1>12, <2>3, <3>1
  <2> QED
    BY <2>2, <2>3
<1>21. CASE "scim" \in until /\ answer.total > 0 /\ count >= answer.total
  <2>1. "untold" \notin breaches
    BY <1>2, <1>21
  <2> QED
    BY <1>2, <1>5, <1>6, <1>12, <1>21, <2>1
<1>22. CASE /\ "scim" \in until /\ Cardinality(answer.page) < PageSize
            /\ answer.total <= count
  <2>1. CASE "untold" \in breaches
    BY <1>11, <1>22, <2>1 DEF Trusted
  <2>2. CASE "untold" \notin breaches
    BY <1>12, <1>22, <2>2
  <2> QED
    BY <2>1, <2>2
<1>23. conn.walk.by # "once"
  BY DEF Offsets
<1> QED
  BY <1>13, <1>14, <1>15, <1>16, <1>17, <1>18, <1>19, <1>20, <1>21, <1>22, <1>23
     DEF Over

LEMMA WalkOver ==
  ASSUME ConnInv, TypeInv, ReadInv, PageInv, Trusted,
         op.step = "walk", call.phase = "answered", call.verdict = "ok",
         ~Stuck(op.count + Cardinality(answer.page)),
         Over(op.count + Cardinality(answer.page))
  PROVE  op.stayed \subseteq SeatsOf(op.got) \cup SeatsOf(answer.page)
<1>1. WalkOK(conn.walk)
  BY ConnTraits DEF TypeInv, TypeOK, TraitsOK
<1>2. CASE conn.walk.by = "once"
  BY <1>2 DEF PageInv, Trusted
<1>3. CASE conn.walk.by = "cursor"
  <2>1. Cardinality(answer.page) = Cardinality(SeatsOf(answer.page))
    BY DEF PageInv
  <2>2. CASE conn.walk.until = {"noMore"}
    <3>1. ~answer.more
      BY <1>3, <2>2 DEF Over
    <3> QED
      BY <1>3, <3>1 DEF PageInv
  <2>3. CASE conn.walk.until = {"short"}
    <3>1. Cardinality(answer.page) < PageSize
      BY <1>3, <2>3 DEF Over
    <3>2. breaches \cap {"capped", "stalled"} = {}
      BY <2>3 DEF Trusted
    <3> QED
      BY <1>3, <2>1, <3>1, <3>2 DEF PageInv
  <2> QED
    BY <1>1, <1>3, <2>2, <2>3 DEF WalkOK
<1> QED
  BY <1>1, <1>2, <1>3, OffsetWalkOver DEF WalkOK

LEMMA DoneStep ==
  ASSUME ConnInv, TypeInv, ReadInv, PageInv, DoneInv, [Next]_vars
  PROVE  DoneInv'
<1>1. OpShape
  BY DEF ConnInv, OpOK, OpShape
<1>2. ASSUME op'.step # "over"
      PROVE  DoneInv'
  BY <1>2 DEF DoneInv
<1>3. CASE UNCHANGED <<op, conn, breaches>>
  BY <1>3 DEF DoneInv, Reliable, SeatsOf
<1>4. CASE Starting
  BY <1>2, <1>4, StartingStep DEF Fresh
<1>5. CASE Moving
  <2>1. PICK s \in Seats, a \in Accounts \cup {"gone"} : Move(s, a)
    BY <1>5, MovingOne
  <2>2. /\ op'.step = op.step /\ op'.does = op.does /\ op'.outcome = op.outcome
        /\ op'.pages = op.pages /\ op'.got = op.got
        /\ op'.stayed \subseteq op.stayed /\ conn' = conn
        /\ op.step = "over" => breaches' = breaches
    BY <1>1, <2>1, MovingStep DEF KeptOp, ReadSoFar
  <2> QED
    BY <1>2, <2>2 DEF DoneInv, Reliable, SeatsOf
<1>6. CASE PageServed \/ FilterServed
  BY <1>3, <1>6, ServedPage
<1>7. CASE Failing
  BY <1>3, <1>7, FailingStep
<1>8. CASE ChangeServed
  BY <1>2, <1>8 DEF ChangeServed
<1>9. CASE TurnPage
  <2>1. CASE TurnFails
    BY <2>1 DEF TurnFails, DoneInv
  <2>2. CASE TurnOn
    BY <1>2, <2>2 DEF TurnOn
  <2>3. CASE TurnOver
    <3>1. ASSUME Reliable(conn.walk)'
          PROVE  op'.stayed \subseteq SeatsOf(op'.got)
      <4>1. /\ op.step = "walk" /\ call.phase = "answered" /\ call.verdict = "ok"
            /\ op'.stayed = op.stayed /\ conn' = conn /\ breaches' = breaches
        BY <1>1, <1>9, TurnPageStep
      <4>2. op'.pages = NextPages /\ op'.got = op.got \cup answer.page
        BY <2>3 DEF TurnOver, ReadThePage
      <4>3. "cap" \in conn.walk.until => op'.pages = op.pages + 1
        BY <4>2 DEF NextPages
      <4>4. Trusted
        BY <3>1, <4>1, <4>3 DEF Trusted, Reliable
      <4>5. op.stayed \subseteq SeatsOf(op.got) \cup SeatsOf(answer.page)
        BY <2>3, <4>1, <4>4, WalkOver DEF TurnOver
      <4> QED
        BY <4>1, <4>2, <4>5 DEF SeatsOf
    <3> QED
      BY <3>1 DEF DoneInv, SeatsOf
  <2> QED
    BY <1>1, <1>9, <2>1, <2>2, <2>3, TurnPageStep
<1>10. CASE TurnFilter
  BY <1>1, <1>2, <1>10, TurnFilterStep
<1>11. CASE Conclude
  <2>1. /\ op'.outcome \in {"ok", "error"} /\ op'.does = op.does
        /\ op'.outcome = "ok" => op.does # "list"
    BY <1>1, <1>11, ConcludeStep DEF KeptOp, ConnInv, OpOK
  <2> QED
    BY <2>1 DEF DoneInv
<1>12. CASE UNCHANGED vars
  BY <1>3, <1>12 DEF vars
<1> QED
  BY <1>4, <1>5, <1>6, <1>7, <1>8, <1>9, <1>10, <1>11, <1>12, NextSteps

LEMMA NamesStep ==
  ASSUME ConnInv, NamesInv, [Next]_vars
  PROVE  NamesInv'
<1>1. OpShape
  BY DEF ConnInv, OpOK, OpShape
<1>2. ASSUME op'.got \subseteq op.got \cup answer.page,
             answer'.page \subseteq answer.page, conn' = conn
      PROVE  NamesInv'
  BY <1>2 DEF NamesInv, NameOf
<1>3. CASE Starting
  BY <1>2, <1>3, StartingStep DEF Fresh
<1>4. CASE Moving
  <2>1. PICK s \in Seats, a \in Accounts \cup {"gone"} : Move(s, a)
    BY <1>4, MovingOne
  <2> QED
    BY <1>1, <1>2, <2>1, MovingStep DEF ReadSoFar
<1>5. CASE PageServed \/ FilterServed
  <2>1. UNCHANGED <<op, conn>>
    BY <1>5, ServedPage
  <2>2. ASSUME conn.names # "lookup", NEW e \in answer'.page
        PROVE  e.name = NameOf(e.seat, {})
    <3>1. PICK page : Serve(page)
      BY <1>5, ServedPage
    <3>2. PICK failed \in IF conn.names = "lookup" THEN SUBSET page ELSE {{}} :
            answer'.page = {[seat |-> s, name |-> NameOf(s, failed),
                             status |-> conn.tells[account[s]]] : s \in page}
      BY <3>1 DEF Serve
    <3>3. failed = {}
      BY <2>2, <3>2
    <3> QED
      BY <2>2, <3>2, <3>3
  <2> QED
    BY <2>1, <2>2 DEF NamesInv, NameOf
<1>6. CASE Failing
  BY <1>2, <1>6, FailingStep
<1>7. CASE ChangeServed
  BY <1>2, <1>7 DEF ChangeServed
<1>8. CASE TurnPage
  <2>1. /\ op'.got \subseteq op.got \cup answer.page
        /\ answer'.page = {} /\ conn' = conn
    BY <1>1, <1>8, TurnPageStep DEF NoAnswer, TurnFails, TurnOn, TurnOver,
       ReadSoFar, ReadThePage
  <2> QED
    BY <1>2, <2>1
<1>9. CASE TurnFilter
  BY <1>1, <1>2, <1>9, TurnFilterStep DEF ReadSoFar, NoAnswer
<1>10. CASE Conclude
  BY <1>1, <1>2, <1>10, ConcludeStep DEF ReadSoFar, NoAnswer
<1>11. CASE UNCHANGED vars
  BY <1>2, <1>11 DEF vars
<1> QED
  BY <1>3, <1>4, <1>5, <1>6, <1>7, <1>8, <1>9, <1>10, <1>11, NextSteps

LEMMA LostStep ==
  ASSUME ConnInv, LostInv, [Next]_vars
  PROVE  LostInv'
<1>1. OpShape
  BY DEF ConnInv, OpOK, OpShape
<1>2. ASSUME op'.step # "over" \/ op'.outcome # "notFound"
      PROVE  LostInv'
  BY <1>2 DEF LostInv
<1>3. ASSUME op'.step = op.step, op'.outcome = op.outcome, op'.got = op.got,
             op'.target = op.target
      PROVE  LostInv'
  BY <1>3 DEF LostInv, Found
<1>4. CASE Starting
  BY <1>2, <1>4, StartingStep DEF Fresh
<1>5. CASE Moving
  <2>1. PICK s \in Seats, a \in Accounts \cup {"gone"} : Move(s, a)
    BY <1>5, MovingOne
  <2> QED
    BY <1>1, <1>3, <2>1, MovingStep DEF ReadSoFar, KeptOp
<1>6. CASE PageServed \/ FilterServed
  BY <1>3, <1>6, ServedPage
<1>7. CASE Failing
  BY <1>3, <1>7, FailingStep
<1>8. CASE ChangeServed
  BY <1>3, <1>8 DEF ChangeServed
<1>9. CASE TurnPage
  <2>1. CASE TurnFails \/ TurnOn
    BY <1>2, <2>1 DEF TurnFails, TurnOn
  <2>2. CASE TurnOver
    <3>1. op'.target = op.target
      BY <1>1, <1>9, TurnPageStep DEF KeptOp
    <3> QED
      BY <1>2, <2>2, <3>1 DEF TurnOver, LostInv, Found
  <2> QED
    BY <1>1, <1>9, <2>1, <2>2, TurnPageStep
<1>10. CASE TurnFilter
  BY <1>1, <1>2, <1>10, TurnFilterStep
<1>11. CASE Conclude
  BY <1>1, <1>2, <1>11, ConcludeStep
<1>12. CASE UNCHANGED vars
  BY <1>3, <1>12 DEF vars
<1> QED
  BY <1>4, <1>5, <1>6, <1>7, <1>8, <1>9, <1>10, <1>11, <1>12, NextSteps

WalkInv == ReadInv /\ PageInv /\ DoneInv /\ NamesInv /\ LostInv

\* The inductive invariant of a walk: whoever was there all along has been read,
\* is on the page in hand or lies ahead, as long as the vendor keeps to what
\* that way of walking counts on; when it ends well nobody is left ahead.
THEOREM WalkInvariant == Spec => []WalkInv
<1>1. Init => WalkInv
  BY DEF Init, NoOp, NoAnswer, Idle, WalkInv, ReadInv, PageInv, DoneInv,
     NamesInv, LostInv
<1>2. ListingInv /\ WalkInv /\ [Next]_vars => WalkInv'
  BY ReadStep, PageStep, DoneStep, NamesStep, LostStep DEF WalkInv, ListingInv
<1> QED
  BY <1>1, <1>2, ListingInvariant, PTL DEF Spec

\* A listing that is returned without an error names everybody who was there
\* all along, and RemoveUser finds whoever was, if the vendor keeps to what that
\* connector counts on.
THEOREM ConnectorComplete == Spec => []Complete
<1>1. WalkInv => Complete
  <2> SUFFICES ASSUME WalkInv, op.step = "over", Reliable(conn.walk)
               PROVE  /\ op.does = "list" /\ op.outcome = "ok"
                           => op.stayed \subseteq {e.seat : e \in op.got}
                      /\ op.outcome = "notFound" /\ conn.names # "lookup"
                           => \A s \in op.stayed : NameOf(s, {}) # op.target
    BY DEF Complete
  <2>1. (op.does = "list" /\ op.outcome = "ok") \/ op.outcome = "notFound"
          => op.stayed \subseteq {e.seat : e \in op.got}
    BY DEF WalkInv, DoneInv, SeatsOf
  <2>2. ASSUME op.outcome = "notFound", conn.names # "lookup",
               NEW s \in op.stayed
        PROVE  NameOf(s, {}) # op.target
    <3>1. PICK e \in op.got : e.seat = s
      BY <2>1, <2>2
    <3>2. e.name = NameOf(s, {})
      BY <2>2, <3>1 DEF WalkInv, NamesInv
    <3>3. e \notin Found(op.got)
      BY <2>2 DEF WalkInv, LostInv
    <3> QED
      BY <3>1, <3>2, <3>3 DEF Found
  <2> QED
    BY <2>1, <2>2
<1> QED
  BY <1>1, WalkInvariant, PTL
-----------------------------------------------------------------------------
(* A listing is what the vendor holds.                                     *)

Truthful(list) ==
  \A e \in list : e.seat \in Visible /\ e.status = conn.tells[account[e.seat]]

\* As long as nothing has moved, everything read so far is still so.
TrueInv ==
  op.step = "walk" /\ "moved" \notin breaches =>
    op.stayed = Visible /\ Truthful(op.got \cup answer.page)

LEMMA ServeTruthful ==
  ASSUME NEW page \in SUBSET Visible, Serve(page)
  PROVE  Truthful(answer'.page)
<1>1. PICK failed :
        answer'.page = {[seat |-> s, name |-> NameOf(s, failed),
                         status |-> conn.tells[account[s]]] : s \in page}
  BY DEF Serve
<1> QED
  BY <1>1 DEF Truthful

LEMMA TrueStep ==
  ASSUME ConnInv, AnswerInv, ReadInv, TrueInv, [Next]_vars
  PROVE  TrueInv'
<1>1. OpShape
  BY DEF ConnInv, OpOK, OpShape
<1>2. ASSUME op'.step # "walk" PROVE TrueInv'
  BY <1>2 DEF TrueInv
<1>3. ASSUME op'.stayed = Visible, op'.got = {}, answer'.page = {},
             UNCHANGED <<conn, account>>
      PROVE  TrueInv'
  BY <1>3 DEF TrueInv, Truthful, Visible
<1>4. ASSUME op.step = "walk", op'.stayed = op.stayed,
             op'.got \cup answer'.page \subseteq op.got \cup answer.page,
             UNCHANGED <<conn, account, breaches>>
      PROVE  TrueInv'
  <2>1. Visible' = Visible
    BY <1>4 DEF Visible
  <2> QED
    BY <1>4, <2>1 DEF TrueInv, Truthful
<1>5. CASE Starting
  <2>1. PICK safe : Fresh(safe)
    BY <1>5, StartingStep
  <2>2. answer'.page = {}
    BY <2>1 DEF Fresh, AnswerInv, NoAnswer
  <2> QED
    BY <1>3, <2>1, <2>2 DEF Fresh
<1>6. CASE Moving
  <2>1. PICK s \in Seats, a \in Accounts \cup {"gone"} : Move(s, a)
    BY <1>6, MovingOne
  <2>2. op'.step = op.step /\ (op.step = "walk" => "moved" \in breaches')
    BY <1>1, <2>1, MovingStep
  <2> QED
    BY <2>2 DEF TrueInv
<1>7. CASE PageServed \/ FilterServed
  <2>1. UNCHANGED <<conn, breaches, account, op>>
    BY <1>7, ServedPage
  <2>2. PICK page \in SUBSET Visible : Serve(page)
    BY <1>7, ServedPage
  <2>3. Truthful(answer'.page)
    BY <2>2, ServeTruthful
  <2>4. Visible' = Visible
    BY <2>1 DEF Visible
  <2> QED
    BY <2>1, <2>3, <2>4 DEF TrueInv, Truthful
<1>8. CASE Failing
  <2>1. UNCHANGED <<op, answer, conn, breaches, account>>
    BY <1>8, FailingStep
  <2> QED
    BY <1>2, <1>4, <2>1
<1>9. CASE ChangeServed
  BY <1>2, <1>9 DEF ChangeServed
<1>10. CASE TurnPage
  <2>1. /\ op.step = "walk" /\ op'.stayed = op.stayed
        /\ op'.got \cup answer'.page \subseteq op.got \cup answer.page
        /\ UNCHANGED <<conn, account, breaches>>
    BY <1>1, <1>10, TurnPageStep DEF NoAnswer, TurnFails, TurnOn, TurnOver,
       ReadSoFar, ReadThePage
  <2> QED
    BY <1>4, <2>1
<1>11. CASE TurnFilter
  <2>1. /\ op.step = "filter" /\ op'.got = op.got /\ answer'.page = {}
        /\ op'.step # "walk" \/ op'.stayed = Visible
        /\ UNCHANGED <<conn, account>>
    BY <1>1, <1>11, TurnFilterStep DEF ReadSoFar, NoAnswer
  <2>2. op'.got = {}
    BY <2>1 DEF ReadInv
  <2> QED
    BY <1>2, <1>3, <2>1, <2>2
<1>12. CASE Conclude
  BY <1>1, <1>2, <1>12, ConcludeStep
<1>13. CASE UNCHANGED vars
  BY <1>2, <1>4, <1>13 DEF vars
<1> QED
  BY <1>5, <1>6, <1>7, <1>8, <1>9, <1>10, <1>11, <1>12, <1>13, NextSteps

\* A listing that ends without an error while the accounts stand still names
\* everybody the vendor lists and nobody else, each in the status the connector
\* tells of the account: what a pass of the reconciler starts from (ListUsers).
ListsWhatIsThere ==
  [][/\ op.step = "walk" /\ op'.step = "over"
     /\ op'.does = "list" /\ op'.outcome = "ok"
     /\ Reliable(conn.walk)' /\ "moved" \notin breaches
     => /\ SeatsOf(op'.got) = Visible
        /\ \A e \in op'.got : e.status = conn.tells[account[e.seat]]]_vars

\* It holds of every connector of the catalogue whose vendor keeps to what its
\* way of walking counts on.
THEOREM ConnectorListsWhatIsThere == Spec => ListsWhatIsThere
<1> DEFINE Exact ==
      /\ op.step = "walk" /\ op'.step = "over"
      /\ op'.does = "list" /\ op'.outcome = "ok"
      /\ Reliable(conn.walk)' /\ "moved" \notin breaches
      => /\ SeatsOf(op'.got) = Visible
         /\ \A e \in op'.got : e.status = conn.tells[account[e.seat]]
<1>1. Init => TrueInv
  BY DEF Init, NoOp, TrueInv
<1>2. ListingInv /\ WalkInv /\ TrueInv /\ [Next]_vars => TrueInv'
  BY TrueStep DEF ListingInv, WalkInv
<1>3. ASSUME ListingInv, WalkInv, WalkInv', TrueInv, [Next]_vars,
             op.step = "walk", op'.step = "over", op'.does = "list",
             op'.outcome = "ok", Reliable(conn.walk)', "moved" \notin breaches
      PROVE  /\ SeatsOf(op'.got) = Visible
             /\ \A e \in op'.got : e.status = conn.tells[account[e.seat]]
  <2>1. OpShape
    BY <1>3 DEF ListingInv, ConnInv, OpOK, OpShape
  <2>2. TurnPage
    <3>1. ~Starting /\ ~(PageServed \/ FilterServed) /\ ~Failing /\ ~TurnFilter
      BY <1>3, <2>1, StartingStep, ServedPage, FailingStep, TurnFilterStep
         DEF Fresh
    <3>2. ~Moving
      <4>1. ASSUME NEW s \in Seats, NEW a \in Accounts \cup {"gone"}, Move(s, a)
            PROVE  op'.step = op.step
        BY <2>1, <4>1, MovingStep
      <4> QED
        BY <1>3, <4>1, MovingOne
    <3>3. ~ChangeServed /\ ~UNCHANGED vars
      BY <1>3 DEF ChangeServed, vars
    <3>4. ~Conclude
      BY <1>3, <2>1, ConcludeStep
    <3> QED
      BY <1>3, <3>1, <3>2, <3>3, <3>4, NextSteps
  <2>3. op'.stayed = op.stayed /\ op'.got \subseteq op.got \cup answer.page
    BY <2>1, <2>2, TurnPageStep DEF TurnFails, TurnOn, TurnOver, ReadSoFar,
       ReadThePage
  <2>4. op.stayed = Visible /\ Truthful(op.got \cup answer.page)
    BY <1>3 DEF TrueInv
  <2>5. op'.stayed \subseteq SeatsOf(op'.got)
    BY <1>3 DEF WalkInv, DoneInv, SeatsOf
  <2> QED
    BY <2>3, <2>4, <2>5 DEF Truthful, SeatsOf
<1>4. ListingInv /\ WalkInv /\ WalkInv' /\ TrueInv /\ [Next]_vars => [Exact]_vars
  BY <1>3
<1> QED
  BY <1>1, <1>2, <1>4, ListingInvariant, WalkInvariant, PTL
     DEF Spec, ListsWhatIsThere
-----------------------------------------------------------------------------
(* An operation comes to an end.                                           *)

\* How much an operation has before it: looking for the seat, reading the list
\* and changing the account; the places in the list; the tries of the request.
Stage == CASE op.step = "filter" -> 2 [] op.step = "walk" -> 1 [] OTHER -> 0
PlacesLeft ==
  IF op.step = "walk" /\ op.pos < Cardinality(Seats)
  THEN Cardinality(Seats) - op.pos ELSE 0
TriesLeft ==
  3 * (MaxRetries - call.attempt)
    + (CASE call.phase = "sent" -> 2 [] call.phase = "waiting" -> 1 [] OTHER -> 0)
Left == <<Stage, <<PlacesLeft, TriesLeft>>>>

\* A walk that stops only when it is told to, of a vendor that does not tell.
Stalling == Patient(conn.walk) /\ "stalled" \in breaches

\* The tries are counted, and so is what an offset is advanced by; and the page
\* in hand leads on from where it was asked for: there is none behind the last
\* account, and a vendor that does not stall knows it.
TriesInv ==
  op.step # "over" =>
    /\ call.attempt <= MaxRetries
    /\ call.phase = "waiting" => call.attempt < MaxRetries

CountInv == op.step = "walk" /\ conn.walk.by = "returned" => op.count = op.pos

LeadsInv ==
  op.step = "walk" /\ call.phase = "answered" /\ call.verdict = "ok" =>
    /\ answer.total \in Nat /\ answer.total <= Cardinality(Seats)
    /\ conn.walk.by # "once" /\ op.pos >= Cardinality(Seats)
         => answer.page = {} /\ ~answer.more
    /\ conn.walk.by = "cursor" => \A e \in answer.page : e.seat > op.pos
    /\ conn.walk.by # "once" /\ answer.page = {} /\ "stalled" \notin breaches
         => /\ ~answer.more
            /\ conn.walk.by = "returned" => answer.total <= op.pos

ForwardInv == TriesInv /\ CountInv /\ LeadsInv

\* The client tries again a bounded number of times (shouldRetry).
LEMMA ClientTries ==
  ASSUME call \in CallType, call.attempt <= MaxRetries,
         call.phase = "waiting" => call.attempt < MaxRetries,
         NEW carried, Client(carried)
  PROVE  /\ call'.attempt <= MaxRetries
         /\ call'.phase = "waiting" => call'.attempt < MaxRetries
         /\ TriesLeft \in Nat /\ TriesLeft' \in Nat /\ TriesLeft' < TriesLeft
<1>1. /\ call.attempt \in Nat /\ MaxRetries \in Nat
      /\ call.phase \in {"sent", "waiting"}
      /\ call.phase = "waiting" => call.attempt < MaxRetries
  BY RetriesAssumption DEF CallType, Client, Succeed, Undecodable, Refuse, Limit,
     Break, Cancel, CancelWait, Resend
<1>2. ASSUME NEW verdict, NEW done, Answered(verdict, done)
      PROVE  call'.attempt = call.attempt /\ call'.phase = "answered"
  BY <1>2 DEF Answered, CallType
<1>3. ASSUME NEW limited, NEW done, call.phase = "sent", Retry(limited, done)
      PROVE  /\ call'.attempt = call.attempt
             /\ \/ call'.phase = "waiting" /\ call.attempt < MaxRetries
                \/ call'.phase = "answered"
  <2>1. CASE Retryable(limited)
    BY <1>3, <2>1 DEF Retry, Retryable, CallType
  <2>2. CASE ~Retryable(limited)
    BY <1>2, <1>3, <2>2 DEF Retry
  <2> QED
    BY <2>1, <2>2
<1>4. ASSUME Resend
      PROVE  /\ call.phase = "waiting" /\ call'.phase = "sent"
             /\ call'.attempt = call.attempt + 1
  BY <1>4 DEF Resend, CallType
<1>5. \/ call'.attempt = call.attempt /\ call'.phase = "answered"
      \/ /\ call.phase = "sent" /\ call'.phase = "waiting"
         /\ call'.attempt = call.attempt /\ call.attempt < MaxRetries
      \/ /\ call.phase = "waiting" /\ call'.phase = "sent"
         /\ call'.attempt = call.attempt + 1
  <2>1. \/ \E verdict, done : Answered(verdict, done)
        \/ \E limited, done : call.phase = "sent" /\ Retry(limited, done)
        \/ Resend
    BY DEF Client, Succeed, Undecodable, Refuse, Limit, Break, Cancel, CancelWait
  <2> QED
    BY <1>2, <1>3, <1>4, <2>1
<1>6. /\ TriesLeft = 3 * (MaxRetries - call.attempt)
                        + IF call.phase = "sent" THEN 2 ELSE 1
      /\ TriesLeft' = 3 * (MaxRetries - call'.attempt)
                        + IF call'.phase = "sent" THEN 2
                          ELSE IF call'.phase = "waiting" THEN 1 ELSE 0
  BY <1>1, <1>5 DEF TriesLeft
<1> HIDE DEF TriesLeft
<1> QED
  BY <1>1, <1>5, <1>6

\* A new request has all its tries.
LEMMA RequestTries ==
  ASSUME NEW safe, call' = Request(safe)
  PROVE  /\ call'.attempt <= MaxRetries /\ call'.phase = "sent"
         /\ TriesLeft' \in Nat
<1>1. call'.attempt = 0 /\ call'.phase = "sent" /\ MaxRetries \in Nat
  BY RetriesAssumption DEF Request, Idle
<1>2. TriesLeft' = 3 * (MaxRetries - 0) + 2
  BY <1>1 DEF TriesLeft
<1> QED
  BY <1>1, <1>2

LEMMA TriesStep ==
  ASSUME ConnInv, TypeInv, TriesInv, [Next]_vars
  PROVE  TriesInv'
<1>1. OpShape /\ call \in CallType
  BY DEF ConnInv, OpOK, OpShape, TypeInv, TypeOK
<1>2. ASSUME op'.step = "over" PROVE TriesInv'
  BY <1>2 DEF TriesInv
<1>3. ASSUME NEW safe, call' = Request(safe) PROVE TriesInv'
  BY <1>3, RequestTries DEF TriesInv
<1>4. ASSUME op.step # "over", NEW carried, Client(carried) PROVE TriesInv'
  BY <1>1, <1>4, ClientTries DEF TriesInv
<1>5. CASE Starting
  BY <1>3, <1>5, StartingStep DEF Fresh
<1>6. CASE Moving
  <2>1. op'.step = op.step /\ call' = call
    BY <1>1, <1>6, MovingOne, MovingStep
  <2> QED
    BY <2>1 DEF TriesInv
<1>7. CASE PageServed \/ FilterServed
  <2>1. op.step # "over" /\ Client(TRUE)
    BY <1>7, ServedPage DEF Client
  <2> QED
    BY <1>4, <2>1
<1>8. CASE ChangeServed
  <2>1. op.step # "over" /\ Client(TRUE)
    BY <1>8 DEF ChangeServed, Again, Client
  <2> QED
    BY <1>4, <2>1
<1>9. CASE Failing
  <2>1. Client(FALSE) /\ op' = op
    BY <1>9, FailingStep
  <2> QED
    BY <1>2, <1>4, <2>1
<1>10. CASE TurnPage
  <2>1. \/ call' \in {Request(FALSE), Request(conn.safe)}
        \/ call' = Idle
    BY <1>1, <1>10, TurnPageStep
  <2>2. call' = Idle => TriesInv'
    <3>1. Idle.attempt = 0 /\ Idle.phase = "idle" /\ MaxRetries \in Nat
      BY RetriesAssumption DEF Idle
    <3> QED
      BY <3>1 DEF TriesInv
  <2> QED
    BY <1>3, <2>1, <2>2
<1>11. CASE TurnFilter
  BY <1>1, <1>3, <1>11, TurnFilterStep
<1>12. CASE Conclude
  BY <1>1, <1>2, <1>12, ConcludeStep
<1>13. CASE UNCHANGED vars
  BY <1>13 DEF vars, TriesInv
<1> QED
  BY <1>5, <1>6, <1>7, <1>8, <1>9, <1>10, <1>11, <1>12, <1>13, NextSteps

\* A walk that counts what was returned is where it has counted to.
LEMMA CountStep ==
  ASSUME ConnInv, TypeInv, ReadInv, PageInv, CountInv, [Next]_vars
  PROVE  CountInv'
<1>1. OpShape
  BY DEF ConnInv, OpOK, OpShape
<1>2. ASSUME op'.step # "walk" PROVE CountInv'
  BY <1>2 DEF CountInv
<1>3. ASSUME op'.step = op.step, op'.pos = op.pos, op'.count = op.count,
             conn' = conn
      PROVE  CountInv'
  BY <1>3 DEF CountInv
<1>4. ASSUME op'.pos = 0, op'.count = 0 PROVE CountInv'
  BY <1>4 DEF CountInv
<1>5. CASE Starting
  BY <1>4, <1>5, StartingStep DEF Fresh
<1>6. CASE Moving
  BY <1>1, <1>3, <1>6, MovingOne, MovingStep DEF ReadSoFar
<1>7. CASE PageServed \/ FilterServed
  BY <1>3, <1>7, ServedPage
<1>8. CASE ChangeServed
  BY <1>3, <1>8 DEF ChangeServed
<1>9. CASE Failing
  BY <1>3, <1>9, FailingStep
<1>10. CASE TurnPage
  <2>1. /\ op.step = "walk" /\ conn' = conn
        /\ TurnFails \/ TurnOn \/ TurnOver
    BY <1>1, <1>10, TurnPageStep
  <2>2. CASE op'.step = "walk" /\ conn.walk.by = "returned"
    <3>1. op'.count = op.count + Cardinality(answer.page) /\ op'.pos = NextPos
      BY <2>1, <2>2 DEF TurnFails, TurnOn, TurnOver, ReadThePage
    <3>2. NextPos = op.pos + Cardinality(answer.page)
      BY <2>2 DEF NextPos
    <3>3. op.count = op.pos
      BY <2>1, <2>2 DEF CountInv
    <3> QED
      BY <3>1, <3>2, <3>3 DEF CountInv
  <2> QED
    BY <2>1, <2>2 DEF CountInv
<1>11. CASE TurnFilter
  <2>1. op.step = "filter" /\ op'.pos = op.pos /\ op'.count = op.count
    BY <1>1, <1>11, TurnFilterStep DEF ReadSoFar
  <2> QED
    BY <1>4, <2>1 DEF ReadInv
<1>12. CASE Conclude
  BY <1>1, <1>2, <1>12, ConcludeStep
<1>13. CASE UNCHANGED vars
  BY <1>3, <1>13 DEF vars
<1> QED
  BY <1>5, <1>6, <1>7, <1>8, <1>9, <1>10, <1>11, <1>12, <1>13, NextSteps

\* Nobody lies behind the last place, and whoever finds nobody ahead has passed
\* everybody.
LEMMA AheadOf ==
  ASSUME NEW pos \in Nat, conn.walk.by # "once", WalkOK(conn.walk)
  PROVE  /\ pos >= Cardinality(Seats) => Ahead(pos) = {} /\ Window(pos) = {}
         /\ Window(pos) = {} => Ahead(pos) = {}
         /\ conn.walk.by = "returned" /\ Ahead(pos) = {} => Cardinality(Visible) <= pos
<1>1. /\ Visible \in SUBSET Seats /\ Cardinality(Seats) \in Nat
      /\ Served \in Nat \ {0} /\ Reach(pos) \in Nat
      /\ Cardinality(Visible) \in Nat
      /\ Cardinality(Visible) <= Cardinality(Seats)
  BY VisibleSeats, SeatNumbers, ServedSome, ReachIs, ConnectorAssumption, FS_Subset
<1>2. pos <= Reach(pos)
  <2>1. CASE conn.walk.by = "page"
    <3> DEFINE n == Served
    <3>1. n \in Nat /\ n >= 1
      BY <1>1
    <3>2. Reach(pos) = pos * n
      BY <2>1 DEF Reach
    <3> HIDE DEF n
    <3>3. pos <= pos * n
      BY <3>1
    <3> QED
      BY <3>2, <3>3
  <2>2. CASE conn.walk.by # "page"
    BY <2>2 DEF Reach
  <2> QED
    BY <2>1, <2>2
<1>3. ASSUME pos >= Cardinality(Seats) PROVE Ahead(pos) = {}
  <2>1. CASE conn.walk.by = "cursor"
    <3>1. \A s \in Visible : s \in Nat /\ s <= Cardinality(Seats)
      BY <1>1, SeatNumbers
    <3>2. Ahead(pos) = {s \in Visible : s > pos}
      BY <2>1, AheadIs
    <3> QED
      BY <1>1, <1>3, <3>1, <3>2
  <2>2. CASE conn.walk.by \in Offsets
    <3>1. \A s \in Visible :
            Rank(s, Visible) \in Nat /\ Rank(s, Visible) <= Cardinality(Visible)
      BY <1>1, RankBounds
    <3>2. Ahead(pos) = {s \in Visible : Rank(s, Visible) > Reach(pos)}
      BY <2>2, AheadIs
    <3> QED
      BY <1>1, <1>2, <1>3, <3>1, <3>2
  <2> QED
    BY <2>1, <2>2 DEF WalkOK
<1>4. Window(pos) \subseteq Ahead(pos)
  BY WindowIs DEF Foremost
<1>5. ASSUME Window(pos) = {} PROVE Ahead(pos) = {}
  <2>1. Cardinality(Window(pos)) = 0
    BY <1>5, FS_EmptySet
  <2> QED
    BY <1>1, <1>5, <2>1, WindowIs
<1>6. ASSUME conn.walk.by = "returned", Ahead(pos) = {}
      PROVE  Cardinality(Visible) <= pos
  <2>1. Reach(pos) = pos /\ Visible \subseteq First(pos)
    BY <1>6, ReachIs, AllAhead DEF Offsets
  <2>2. IsFiniteSet(First(pos)) /\ Cardinality(First(pos)) \in Nat
        /\ Cardinality(First(pos)) <= pos
    BY <1>1, ForemostAtMost DEF First
  <2>3. Cardinality(Visible) <= Cardinality(First(pos))
    BY <2>1, <2>2, FS_Subset
  <2> QED
    BY <1>1, <2>2, <2>3
<1> QED
  BY <1>3, <1>4, <1>5, <1>6

LEMMA LeadsArrives ==
  ASSUME ConnInv, TypeInv, ReadInv, PageServed
  PROVE  LeadsInv'
<1>1. /\ op.step = "walk" /\ UNCHANGED <<conn, breaches, account, op>>
      /\ op.pos \in Nat /\ WalkOK(conn.walk)
  BY ConnTraits DEF PageServed, ReadInv, TraitsOK, TypeInv, TypeOK
<1>2. PICK page \in {Window(op.pos)}
                    \cup (IF "stalled" \in breaches THEN {{}} ELSE {}) : Serve(page)
  BY DEF PageServed
<1>3. /\ page = Window(op.pos) \/ (page = {} /\ "stalled" \in breaches)
      /\ page \in SUBSET Seats
  BY <1>2, WindowVisible, VisibleSeats
<1>4. /\ SeatsOf(answer'.page) = page
      /\ answer'.total = IF "untold" \in breaches THEN 0 ELSE Cardinality(Visible)
      /\ answer'.more = (Ahead(op.pos) # page)
  BY <1>2, <1>3, EntriesOnce
<1>5. answer'.page = {} <=> page = {}
  BY <1>4 DEF SeatsOf
<1>6. /\ Cardinality(Seats) \in Nat /\ Cardinality(Visible) \in Nat
      /\ Cardinality(Visible) <= Cardinality(Seats)
  BY VisibleSeats, SeatNumbers, ConnectorAssumption, FS_Subset
<1>7. /\ answer'.total \in Nat /\ answer'.total <= Cardinality(Seats)
      /\ answer'.total <= Cardinality(Visible)
  BY <1>4, <1>6
<1>8. ASSUME conn.walk.by # "once", op.pos >= Cardinality(Seats)
      PROVE  answer'.page = {} /\ ~answer'.more
  BY <1>1, <1>3, <1>4, <1>5, <1>8, AheadOf
<1>9. ASSUME conn.walk.by = "cursor", NEW e \in answer'.page
      PROVE  e.seat > op.pos
  <2>1. e.seat \in page
    BY <1>4, <1>9 DEF SeatsOf
  <2>2. e.seat \in Ahead(op.pos)
    BY <1>3, <2>1, <1>9, WindowIs DEF Foremost
  <2> QED
    BY <1>9, <2>2, AheadIs
<1>10. ASSUME conn.walk.by # "once", answer'.page = {}, "stalled" \notin breaches
       PROVE  /\ ~answer'.more
              /\ conn.walk.by = "returned" => answer'.total <= op.pos
  <2>1. page = {} /\ Window(op.pos) = {}
    BY <1>3, <1>5, <1>10
  <2>2. /\ Ahead(op.pos) = {}
        /\ conn.walk.by = "returned" => Cardinality(Visible) <= op.pos
    BY <1>1, <1>10, <2>1, AheadOf
  <2>3. ~answer'.more
    BY <1>4, <2>1, <2>2
  <2>4. conn.walk.by = "returned" => answer'.total <= op.pos
    BY <1>1, <1>6, <1>7, <2>2
  <2> QED
    BY <2>3, <2>4
<1> QED
  BY <1>1, <1>7, <1>8, <1>9, <1>10 DEF LeadsInv

LEMMA LeadsStep ==
  ASSUME ConnInv, TypeInv, ReadInv, LeadsInv, [Next]_vars
  PROVE  LeadsInv'
<1>1. OpShape /\ DOMAIN call = DOMAIN Idle
  BY DEF ConnInv, OpOK, OpShape, CallInv
<1>2. ASSUME \/ op'.step # "walk" \/ call'.phase # "answered"
             \/ call'.verdict # "ok"
      PROVE  LeadsInv'
  BY <1>2 DEF LeadsInv
<1>3. ASSUME op'.step = op.step, op'.pos = op.pos,
             ("stalled" \in breaches') = ("stalled" \in breaches),
             UNCHANGED <<conn, call, answer>>
      PROVE  LeadsInv'
  BY <1>3 DEF LeadsInv
<1>4. CASE Starting
  BY <1>2, <1>4, StartingStep, RequestShape DEF Fresh
<1>5. CASE Moving
  <2>1. PICK s \in Seats, a \in Accounts \cup {"gone"} : Move(s, a)
    BY <1>5, MovingOne
  <2>2. /\ op'.step = op.step /\ op'.pos = op.pos
        /\ breaches' \in {breaches, breaches \cup {"moved"}}
        /\ UNCHANGED <<conn, call, answer>>
    BY <1>1, <2>1, MovingStep DEF ReadSoFar
  <2>3. ("stalled" \in breaches') = ("stalled" \in breaches)
    BY <2>2
  <2> QED
    BY <1>3, <2>2, <2>3
<1>6. CASE PageServed
  BY <1>6, LeadsArrives
<1>7. CASE FilterServed \/ ChangeServed
  BY <1>2, <1>7 DEF FilterServed, ChangeServed
<1>8. CASE Failing
  BY <1>1, <1>2, <1>8, FailingVerdict
<1>9. CASE TurnPage
  <2>1. call' \in {Idle, Request(FALSE), Request(conn.safe)}
    BY <1>1, <1>9, TurnPageStep
  <2>2. Idle.phase = "idle"
    BY DEF Idle
  <2>3. Request(FALSE).phase = "sent" /\ Request(conn.safe).phase = "sent"
    BY RequestShape
  <2> QED
    BY <1>2, <2>1, <2>2, <2>3
<1>10. CASE TurnFilter
  BY <1>1, <1>2, <1>10, TurnFilterStep, RequestShape
<1>11. CASE Conclude
  BY <1>1, <1>2, <1>11, ConcludeStep DEF Idle
<1>12. CASE UNCHANGED vars
  BY <1>3, <1>12 DEF vars
<1> QED
  BY <1>4, <1>5, <1>6, <1>7, <1>8, <1>9, <1>10, <1>11, <1>12, NextSteps

\* The next page is asked for further on, and not behind the last account.
LEMMA FurtherOn ==
  ASSUME ConnInv, TypeInv, ReadInv, PageInv, CountInv, LeadsInv, ~Stalling,
         op.step = "walk", call.phase = "answered", call.verdict = "ok",
         ~Over(op.count + Cardinality(answer.page))
  PROVE  op.pos \in Nat /\ NextPos \in Nat
         /\ op.pos < Cardinality(Seats) /\ op.pos < NextPos
<1> DEFINE w == conn.walk
           N == Cardinality(Seats)
           read == Cardinality(answer.page)
<1>1. /\ op.pos \in Nat /\ WalkOK(w) /\ N \in Nat
      /\ PageSize \in Nat /\ PageSize > 0 /\ w.by # "once"
  <2>1. WalkOK(w) /\ op.pos \in Nat
    BY ConnTraits DEF ReadInv, TraitsOK, TypeInv, TypeOK
  <2>2. N \in Nat /\ PageSize \in Nat /\ PageSize > 0
    BY ConnectorAssumption, FS_CardinalityType
  <2>3. w.by # "once"
    BY DEF Over
  <2> QED
    BY <2>1, <2>2, <2>3
<1>2. /\ answer.total \in Nat /\ answer.total <= N
      /\ op.pos >= N => answer.page = {} /\ ~answer.more
      /\ w.by = "cursor" => \A e \in answer.page : e.seat > op.pos
      /\ answer.page = {} /\ "stalled" \notin breaches
           => /\ ~answer.more
              /\ w.by = "returned" => answer.total <= op.pos
  BY <1>1 DEF LeadsInv
<1>3. SeatsOf(answer.page) \in SUBSET Seats
  BY DEF TypeInv, TypeOK, Entry, SeatsOf
<1>4. /\ read \in Nat
      /\ answer.page = {} => read = 0
      /\ answer.page # {} => read > 0
  <2>1. read = Cardinality(SeatsOf(answer.page))
        /\ (answer.page = {} <=> SeatsOf(answer.page) = {})
    BY DEF PageInv, SeatsOf
  <2>2. IsFiniteSet(SeatsOf(answer.page)) /\ Cardinality(SeatsOf(answer.page)) \in Nat
    BY <1>3, SeatNumbers
  <2>3. Cardinality(SeatsOf(answer.page)) = 0 <=> SeatsOf(answer.page) = {}
    BY <2>2, FS_EmptySet
  <2> HIDE DEF read
  <2> QED
    BY <2>1, <2>2, <2>3
<1>5. /\ "noMore" \in w.until => answer.more
      /\ "empty" \in w.until \/ "scim" \in w.until => answer.page # {}
      /\ "short" \in w.until => ~(read < PageSize)
      /\ "total" \in w.until => ~(op.count + read >= answer.total)
      /\ "reach" \in w.until => ~(op.pos + PageSize >= answer.total)
  BY DEF Over
<1>6. CASE w.by \in {"page", "requested"}
  <2>1. op.pos < N
    <3>1. SUFFICES ASSUME op.pos >= N PROVE FALSE
      BY <1>1
    <3>2. answer.page = {} /\ ~answer.more /\ read = 0
      BY <1>2, <1>4, <3>1
    <3>3. "reach" \notin w.until
      <4> HIDE DEF w, N
      <4> QED
        BY <1>1, <1>2, <1>5, <3>1
    <3>4. w.until \cap {"noMore", "empty", "short", "reach"} # {}
      BY <1>1, <1>6 DEF WalkOK
    <3> HIDE DEF w, read
    <3> QED
      BY <1>1, <1>5, <3>2, <3>3, <3>4
  <2>2. NextPos \in {op.pos + 1, op.pos + PageSize}
    BY <1>6 DEF NextPos
  <2> QED
    BY <1>1, <2>1, <2>2
<1>7. CASE w.by = "returned"
  <2>1. w.until \in {{"scim"}, {"total"}}
    BY <1>1, <1>7 DEF WalkOK
  <2>2. answer.page # {}
    <3>1. SUFFICES ASSUME answer.page = {} PROVE FALSE
      OBVIOUS
    <3>2. w.until = {"total"} /\ read = 0
      BY <1>4, <1>5, <2>1, <3>1
    <3>3. "stalled" \notin breaches
      BY <1>7, <3>2 DEF Stalling, Patient
    <3>4. answer.total <= op.pos /\ op.count = op.pos
      BY <1>2, <1>7, <3>1, <3>3 DEF CountInv
    <3>5. ~(op.pos + 0 >= answer.total)
      BY <1>5, <3>2, <3>4
    <3>6. op.pos \in Nat /\ answer.total \in Nat
      BY <1>1, <1>2
    <3> QED
      BY <3>4, <3>5, <3>6
  <2>3. NextPos = op.pos + read
    BY <1>7 DEF NextPos
  <2>4. op.pos < N
    BY <1>1, <1>2, <2>2
  <2>5. read \in Nat /\ read > 0 /\ op.pos \in Nat
    BY <1>1, <1>4, <2>2
  <2>6. op.pos + read \in Nat /\ op.pos < op.pos + read
    <3> HIDE DEF read
    <3> QED
      BY <2>5
  <2> QED
    BY <2>3, <2>4, <2>5, <2>6
<1>8. CASE w.by = "cursor"
  <2>1. answer.page # {}
    <3>1. SUFFICES ASSUME answer.page = {} PROVE FALSE
      OBVIOUS
    <3>2. w.until \in {{"noMore"}, {"short"}}
      BY <1>1, <1>8 DEF WalkOK
    <3>3. CASE w.until = {"short"}
      BY <1>1, <1>4, <1>5, <3>1, <3>3
    <3>4. CASE w.until = {"noMore"}
      <4>1. "stalled" \notin breaches
        BY <1>8, <3>4 DEF Stalling, Patient
      <4> QED
        BY <1>2, <1>5, <3>1, <3>4, <4>1
    <3> QED
      BY <3>2, <3>3, <3>4
  <2>2. NextPos \in SeatsOf(answer.page) /\ NextPos \in Nat
    BY <1>3, <1>8, <2>1, LastOnPage
  <2>3. NextPos > op.pos
    BY <1>2, <1>8, <2>2 DEF SeatsOf
  <2>4. op.pos < N
    BY <1>1, <1>2, <2>1
  <2> QED
    BY <1>1, <2>2, <2>3, <2>4
<1> QED
  BY <1>1, <1>6, <1>7, <1>8 DEF WalkOK, Offsets

LeftOK == op.step # "over" => Left \in Triple

LEMMA LeftNat == TypeInv /\ ReadInv /\ TriesInv => LeftOK
<1> SUFFICES ASSUME TypeInv, ReadInv, TriesInv, op.step # "over"
             PROVE  Left \in Triple
  BY DEF LeftOK
<1>1. Stage \in Nat
  BY DEF Stage
<1>2. PlacesLeft \in Nat
  <2>1. Cardinality(Seats) \in Nat /\ (op.step = "walk" => op.pos \in Nat)
    BY ConnectorAssumption, FS_CardinalityType DEF ReadInv
  <2> QED
    BY <2>1 DEF PlacesLeft
<1>3. TriesLeft \in Nat
  <2>1. call.attempt \in Nat /\ call.attempt <= MaxRetries /\ MaxRetries \in Nat
    BY RetriesAssumption DEF TriesInv, TypeInv, TypeOK, CallType
  <2>2. 3 * (MaxRetries - call.attempt) \in Nat
    BY <2>1
  <2> QED
    BY <2>2 DEF TriesLeft
<1> QED
  BY <1>1, <1>2, <1>3 DEF Left, Triple

\* What a page turned leaves before the walk.
LEMMA PageAdvances ==
  ASSUME ConnInv, TypeInv, ReadInv, PageInv, CountInv, LeadsInv, ~Stalling,
         TurnPage, op'.step # "over"
  PROVE  LexLess(Left', Left)
<1>1. OpShape
  BY DEF ConnInv, OpOK, OpShape
<1>2. /\ op.step = "walk" /\ call.phase = "answered" /\ call.verdict = "ok"
      /\ TurnOn \/ TurnOver
  BY <1>1, TurnPageStep DEF TurnFails
<1>3. CASE TurnOn
  <2>1. op'.step = "walk" /\ op'.pos = NextPos
    BY <1>3 DEF TurnOn, ReadThePage
  <2>2. /\ op.pos \in Nat /\ NextPos \in Nat /\ Cardinality(Seats) \in Nat
        /\ op.pos < Cardinality(Seats) /\ op.pos < NextPos
    BY <1>2, <1>3, FurtherOn, ConnectorAssumption, FS_CardinalityType DEF TurnOn
  <2>3. Stage' = Stage
    BY <1>2, <2>1 DEF Stage
  <2>4. PlacesLeft' < PlacesLeft
    BY <1>2, <2>1, <2>2 DEF PlacesLeft
  <2> QED
    BY <2>3, <2>4 DEF Left, LexLess
<1>4. CASE TurnOver
  <2>1. Stage' = 0 /\ Stage = 1
    BY <1>2, <1>4 DEF TurnOver, Stage
  <2> QED
    BY <2>1 DEF Left, LexLess
<1> QED
  BY <1>2, <1>3, <1>4

\* What a step of the client leaves before it.
LEMMA ClientAdvances ==
  ASSUME TypeInv, TriesInv, op.step # "over", op' = op,
         NEW carried, Client(carried)
  PROVE  LexLess(Left', Left)
<1>1. TriesLeft' < TriesLeft
  BY ClientTries DEF TypeInv, TypeOK, TriesInv
<1>2. Stage' = Stage /\ PlacesLeft' = PlacesLeft
  BY DEF Stage, PlacesLeft
<1> QED
  BY <1>1, <1>2 DEF Left, LexLess

\* Every step of an operation leaves it less to do, whatever fails, unless a
\* vendor stalls a walk that only stops when told to; and what the accounts do
\* meanwhile gives it no more (the retry policy of Do, the walks of ListUsers).
OperationAdvances ==
  [][op.step # "over" /\ op'.step # "over" /\ ~Stalling
     => /\ Left \in Triple /\ Left' \in Triple
        /\ LexLess(Left', Left) \/ (Moving /\ Left' = Left)]_vars

\* It does, for every connector of the catalogue, vendor, page size and number
\* of retries; with `NoDescent`, an operation takes finitely many steps.
THEOREM ConnectorAdvances == Spec => OperationAdvances
<1>1. ASSUME ConnInv, TypeInv, ReadInv, PageInv, ForwardInv, [Next]_vars,
             op.step # "over", op'.step # "over", ~Stalling
      PROVE  \/ LexLess(Left', Left)
             \/ Moving /\ Left' = Left
             \/ UNCHANGED vars
  <2>1. OpShape /\ TriesInv /\ CountInv /\ LeadsInv
    BY <1>1 DEF ConnInv, OpOK, OpShape, ForwardInv
  <2>2. ASSUME op' = op, NEW carried, Client(carried)
        PROVE  LexLess(Left', Left)
    BY <1>1, <2>1, <2>2, ClientAdvances
  <2>3. CASE Starting
    BY <1>1, <2>3, StartingStep DEF Fresh
  <2>4. CASE Moving
    <3>1. op'.step = op.step /\ op'.pos = op.pos /\ call' = call
      BY <2>1, <2>4, MovingOne, MovingStep DEF ReadSoFar
    <3> QED
      BY <2>4, <3>1 DEF Left, Stage, PlacesLeft, TriesLeft
  <2>5. CASE PageServed \/ FilterServed
    BY <2>2, <2>5, ServedPage DEF Client
  <2>6. CASE ChangeServed
    <3>1. op' = op /\ Client(TRUE)
      BY <2>6 DEF ChangeServed, Again, Client
    <3> QED
      BY <2>2, <3>1
  <2>7. CASE Failing
    BY <2>2, <2>7, FailingStep
  <2>8. CASE TurnPage
    BY <1>1, <2>1, <2>8, PageAdvances
  <2>9. CASE TurnFilter
    <3>1. op.step = "filter" /\ op'.step \in {"walk", "change"}
      BY <2>1, <2>9, TurnFilterStep
    <3>2. Stage = 2 /\ Stage' \in {0, 1}
      BY <3>1 DEF Stage
    <3> QED
      BY <3>2 DEF Left, LexLess
  <2>10. CASE Conclude
    BY <1>1, <2>1, <2>10, ConcludeStep
  <2> QED
    BY <1>1, <2>3, <2>4, <2>5, <2>6, <2>7, <2>8, <2>9, <2>10, NextSteps
<1>2. ConnInv /\ TypeInv /\ ReadInv /\ PageInv /\ ForwardInv /\ LeftOK /\ LeftOK'
        /\ [Next]_vars
      => [op.step # "over" /\ op'.step # "over" /\ ~Stalling
          => /\ Left \in Triple /\ Left' \in Triple
             /\ LexLess(Left', Left) \/ (Moving /\ Left' = Left)]_vars
  BY <1>1 DEF LeftOK
<1>3. Init => ForwardInv
  BY DEF Init, NoOp, ForwardInv, TriesInv, CountInv, LeadsInv
<1>4. ConnInv /\ TypeInv /\ ReadInv /\ PageInv /\ ForwardInv /\ [Next]_vars
      => ForwardInv'
  BY TriesStep, CountStep, LeadsStep DEF ForwardInv
<1>5. WalkInv => ReadInv /\ PageInv
  BY DEF WalkInv
<1>6. ListingInv => ConnInv /\ TypeInv
  BY DEF ListingInv
<1>7. TypeInv /\ ReadInv /\ ForwardInv => LeftOK
  BY LeftNat DEF ForwardInv
<1> QED
  BY <1>2, <1>3, <1>4, <1>5, <1>6, <1>7, WalkInvariant, ListingInvariant, PTL
     DEF Spec, OperationAdvances
=============================================================================
