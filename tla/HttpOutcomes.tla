---------------------------- MODULE HttpOutcomes ----------------------------
(***************************************************************************)
(* What a guard, a pipe or a handler may end with, and what the three      *)
(* places that look at it make of it.  The exception filter builds the     *)
(* response, the audit interceptor and the logging interceptor each        *)
(* compute a status of their own, from the same outcome and before the     *)
(* filter has run.                                                         *)
(***************************************************************************)
EXTENDS Naturals

NoCode == "none"

\* A value, an HttpException (with a code in its body or without), any other
\* Error: the latter has no field "status", Prisma's errors included.
Value == [kind |-> "value"]
Exception(status, code) == [kind |-> "http", status |-> status, code |-> code]
Failure == [kind |-> "error"]

IsError(outcome) == outcome.kind # "value"

\* The status NestJS sets before the handler runs: 201 for POST, else 200.
Declared(method) == IF method = "POST" THEN 201 ELSE 200

\* Two mistakes: res.statusCode after an error too, which the filter has not set
\* yet; the number of an error that has none (0, a NULL in the table).
AuditStatusDeclared(outcome, method) == Declared(method)

AuditStatusAsThrown(outcome, method) ==
  CASE ~IsError(outcome)                                  -> Declared(method)
    [] IsError(outcome) /\ "status" \in DOMAIN outcome    -> outcome.status
    [] IsError(outcome) /\ "status" \notin DOMAIN outcome -> 0

\* What the audit interceptor records: res.statusCode after a value, the
\* error's own number when it has one, else 500.
AuditStatus(outcome, method) ==
  CASE ~IsError(outcome)                                  -> Declared(method)
    [] IsError(outcome) /\ "status" \in DOMAIN outcome    -> outcome.status
    [] IsError(outcome) /\ "status" \notin DOMAIN outcome -> 500

\* What the logging interceptor records with the metrics.
LoggedStatus(outcome, method) ==
  CASE outcome.kind = "value" -> Declared(method)
    [] outcome.kind = "http"  -> outcome.status
    [] outcome.kind = "error" -> 500

\* The code the filter gives a status when the exception brings none.
MapStatusCode(status) ==
  CASE status = 400 -> "BAD_REQUEST"
    [] status = 401 -> "UNAUTHORIZED"
    [] status = 403 -> "FORBIDDEN"
    [] status = 404 -> "NOT_FOUND"
    [] status = 429 -> "TOO_MANY_REQUESTS"
    [] status = 503 -> "SERVICE_UNAVAILABLE"
    [] OTHER        -> "HTTP_ERROR"

\* The response: a value as it is, an error as the filter words it.
Response(outcome, method) ==
  CASE outcome.kind = "value" -> [status |-> Declared(method), code |-> NoCode]
    [] outcome.kind = "http"  ->
         [status |-> outcome.status,
          code |-> IF outcome.code # NoCode THEN outcome.code
                   ELSE MapStatusCode(outcome.status)]
    [] outcome.kind = "error" ->
         [status |-> 500, code |-> "INTERNAL_SERVER_ERROR"]
=============================================================================
