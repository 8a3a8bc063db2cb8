------------------------------ MODULE HttpClient ------------------------------
(***************************************************************************)
(* One call of the HTTP client the connectors share                        *)
(* (internal/provider/httpclient/client.go): Do, its retries, and the      *)
(* verdict DoJSON gives on the last answer.  The module that uses the      *)
(* client begins a call, says what carrying the request out means to the   *)
(* vendor, and reads the verdict once the call is answered.                *)
(*                                                                         *)
(* Assumed of every vendor: a request answered 2xx was carried out, one    *)
(* answered 4xx was not.  The client reads no more than the status of a    *)
(* change, so a 200 whose body says otherwise (`success: false` of a       *)
(* GraphQL mutation) passes for done.                                      *)
(***************************************************************************)
EXTENDS Naturals

CONSTANT MaxRetries   \* how often a retryable failure is attempted again

ASSUME RetriesAssumption == MaxRetries \in Nat

VARIABLE call

Verdicts == {"none", "ok", "error"}

CallType ==
  [phase   : {"idle", "sent", "waiting", "answered"},
   safe    : BOOLEAN,   \* GET or HEAD
   attempt : Nat,
   verdict : Verdicts,
   acted   : Nat]       \* history: how often the vendor carried it out

Idle == [phase |-> "idle", safe |-> TRUE, attempt |-> 0, verdict |-> "none",
         acted |-> 0]

\* The first attempt of a request.
Request(safe) == [Idle EXCEPT !.phase = "sent", !.safe = safe]
-----------------------------------------------------------------------------
Answered(verdict, carried) ==
  call' = [call EXCEPT !.phase = "answered", !.verdict = verdict,
                       !.acted = @ + (IF carried THEN 1 ELSE 0)]

\* Mutant: a failed request is sent again whatever its method.
Retryable_Anything(limited) == call.attempt < MaxRetries

\* shouldRetry, and the cap on attempts.  A rate-limited request was not
\* carried out; of any other failure nobody knows.
Retryable(limited) ==
  /\ limited \/ call.safe
  /\ call.attempt < MaxRetries

\* Wait for the next attempt, or give up.
Retry(limited, carried) ==
  IF Retryable(limited)
  THEN call' = [call EXCEPT !.phase = "waiting",
                            !.acted = @ + (IF carried THEN 1 ELSE 0)]
  ELSE Answered("error", carried)

\* A 2xx answer that decodes.
Succeed == call.phase = "sent" /\ Answered("ok", TRUE)

\* A 2xx answer that does not.
Undecodable == call.phase = "sent" /\ Answered("error", TRUE)

\* A 4xx answer other than 429.
Refuse == call.phase = "sent" /\ Answered("error", FALSE)

\* A 429 answer.
Limit == call.phase = "sent" /\ Retry(TRUE, FALSE)

\* A 5xx answer, or none: a broken connection, the client's own timeout.
Break(carried) == call.phase = "sent" /\ Retry(FALSE, carried)

\* The context ends while an answer is awaited...
Cancel(carried) == call.phase = "sent" /\ Answered("error", carried)

\* ... or while the client waits for its next attempt.
CancelWait == call.phase = "waiting" /\ Answered("error", FALSE)

\* Mutant: the attempts are not counted.
Resend_NotCounted ==
  call.phase = "waiting" /\ call' = [call EXCEPT !.phase = "sent"]

\* wait is over: the body is rewound and the request sent again.
Resend ==
  /\ call.phase = "waiting"
  /\ call' = [call EXCEPT !.phase = "sent", !.attempt = @ + 1]
=============================================================================
