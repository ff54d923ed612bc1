------------------------------- MODULE Gateway -------------------------------
(***************************************************************************)
(* sdk/go/gateway: one request in Gateway.ServeHTTP, from its arrival to   *)
(* the last observation of finishRequest.  Requests share nothing but the  *)
(* immutable configuration and the components of the project, so one is    *)
(* enough; it meets every configuration and every behaviour of the         *)
(* project's components, panics included.                                  *)
(*                                                                         *)
(* Two layers write the response: the recorder, which believes what it     *)
(* first hears, and net/http below it, which sends informational (1xx)     *)
(* headers at once and then still waits for the final ones.  Whoever       *)
(* hijacks the connection writes past both.                                *)
(***************************************************************************)
EXTENDS Integers, Sequences, SequencesExt

CONSTANTS
    UpstreamStatuses   \* final statuses that an upstream answers with

Informational == 100..199 \ {101}

ASSUME GatewayConstants == UpstreamStatuses \subseteq (101..599) \ Informational

VARIABLES
    conf,      \* the optional components that the project has configured
    named,     \* the client's Connection header names the identity headers
    at,        \* the stage that is to run next
    route,     \* the resolved route
    header,    \* the identity headers of the request
    forwarded, \* those that the upstream was given, "unsent" before
    response,  \* the recorder, and what net/http has sent
    origin,    \* the final status the upstream answered with, 0 before
    log,       \* accessLogState
    told,      \* the kinds of observation, in the order of their delivery
    trace      \* the stages that ran and their verdicts

vars == <<conf, named, at, route, header, forwarded, response, origin, log, told, trace>>

Scopes == {"client_ip", "user_id", "upstream"}
Components == Scopes \cup {"authenticator", "authorizer", "before_proxy",
                           "access_logger", "upstream_handler"}

\* WithUpstreamResolver: a handler of the project in place of a ReverseProxy.
OwnHandler == "upstream_handler" \in conf

\* Stages in the order in which ServeHTTP runs them.
Pipeline == <<"request_id", "cors", "health", "route", "upstream_resolver",
              "client_ip_resolver", "client_ip", "authenticator", "user_id",
              "authorizer", "before_proxy", "upstream", "body", "proxy">>

Stages == {Pipeline[i] : i \in DOMAIN Pipeline}
Verdicts == {"allowed", "absent", "answered", "rejected", "error",
             "panicked", "aborted"}
Passing == {"allowed", "absent"}
Faults == {"error", "panicked", "aborted"}

\* http.ErrAbortHandler is a panic of its own kind.
PanicKinds == {"panicked", "aborted"}

NoRoute == [access |-> "none", limited |-> FALSE]
Routes == [access : {"public", "protected"}, limited : BOOLEAN]

\* The codes of the GatewayErrors that the stages and the proxy answer with; the
\* three of the CORS policy are one.
StageErrors ==
    {"request_id_unavailable", "cors_rejected", "health_method_not_allowed",
     "readiness_failed", "route_resolution_failed", "route_not_found",
     "invalid_resolved_route", "upstream_resolution_failed",
     "client_ip_resolution_failed", "rate_limit_exceeded", "rate_limiter_unavailable",
     "authenticator_unavailable", "missing_credential", "invalid_credential",
     "credential_extraction_failed", "authentication_failed", "forbidden",
     "authorization_failed", "proxy_policy_rejected", "before_proxy_policy_failed",
     "request_body_too_large", "upstream_unavailable", "upstream_timeout"}
ErrorCodes == {"", "gateway_panic", "upstream_stream_aborted", "upstream_error"}
                \cup StageErrors
AuthResults == {"skipped", "public", "success", "missing_credential",
                "invalid_credential", "error"}

TypeOK ==
    /\ conf \subseteq Components
    /\ at \in Stages \cup {"panicked", "aborted", "returned", "done"}
    /\ route \in Routes \cup {NoRoute}
    /\ named \in BOOLEAN
    /\ header \in {"none", "client", "trusted"}
    /\ forwarded \in {"unsent", "none", "client", "trusted"}
    /\ response \in [wrote : BOOLEAN, status : 100..599, final : {0} \cup ((101..599) \ Informational),
                     informed : BOOLEAN, hijacked : BOOLEAN]
    /\ origin \in {0} \cup UpstreamStatuses
    /\ log \in [code : ErrorCodes, failure : ErrorCodes, auth : AuthResults,
                limits : [Scopes -> {"none", "disabled", "allowed", "rejected",
                                     "error"}],
                quiet : BOOLEAN, status : 0..599, written : BOOLEAN]
    /\ told \in Seq({"component_failure", "access_log_failure",
                     "request_completed"})
    /\ trace \in Seq([stage : Stages, verdict : Verdicts])

NewLog == [code |-> "", failure |-> "", auth |-> "skipped",
           limits |-> [s \in Scopes |-> "none"], quiet |-> FALSE,
           status |-> 0, written |-> FALSE]

Init ==
    /\ conf \in SUBSET Components
    /\ at = "request_id"
    /\ route = NoRoute
    /\ named \in BOOLEAN
    /\ header \in {"none", "client"}
    /\ forwarded = "unsent"
    /\ response = [wrote |-> FALSE, status |-> 200, final |-> 0, informed |-> FALSE,
                   hijacked |-> FALSE]
    /\ origin = 0
    /\ log = NewLog
    /\ told = <<>>
    /\ trace = <<>>

-----------------------------------------------------------------------------
(* Writing the response *)

\* net/http: informational headers go out at once, the first final ones count,
\* and nothing once the connection is hijacked.
Sent(resp, status) ==
    IF resp.hijacked THEN resp
    ELSE IF status \in Informational THEN [resp EXCEPT !.informed = TRUE]
    ELSE IF resp.final = 0 THEN [resp EXCEPT !.final = status]
    ELSE resp

\* Fault: a later header still changes the recorded status.
WriteHeader_Overwrites(resp, status) ==
    Sent([resp EXCEPT !.wrote = TRUE, !.status = status], status)

\* responseRecorder.WriteHeader
WriteHeader(resp, status) ==
    IF resp.wrote THEN resp
    ELSE Sent([resp EXCEPT !.wrote = TRUE, !.status = status], status)

\* responseRecorder.Write
Write(resp) == Sent(WriteHeader(resp, 200), 200)

GatewayError(status, code, cause) ==
    [status |-> status, code |-> code, cause |-> cause]
Unavailable(code) == GatewayError(503, code, TRUE)
Denied(status, code) == GatewayError(status, code, FALSE)

\* Fault: an error without a cause forgets the failure recorded before.
Recorded_Forgets(entry, e) ==
    [entry EXCEPT !.code = e.code, !.failure = IF e.cause THEN e.code ELSE ""]

\* recordGatewayError
Recorded(entry, e) ==
    [entry EXCEPT !.code = e.code, !.failure = IF e.cause THEN e.code ELSE @]

ResponderPanic == Denied(500, "gateway_panic")

\* Fault: the panic of a responder is swallowed without a fallback.
Fail_NoFallback(entry, e) ==
    /\ at' = "returned"
    /\ log' = Recorded(entry, e)
    /\ response' \in {response, Write(WriteHeader(response, e.status))}

\* fail.  The project's responder answers, or panics before or after it has
\* begun to; protocolErrorResponder falls back when nothing has begun.
Fail(entry, e) ==
    LET reply == Write(WriteHeader(response, e.status))
        fallback == Write(WriteHeader(response, ResponderPanic.status))
    IN /\ at' = "returned"
       /\ \/ log' = Recorded(entry, e) /\ response' = reply
          \/ /\ ~response.wrote
             /\ log' = Recorded(Recorded(entry, e), ResponderPanic)
             /\ response' = fallback
          \/ /\ response.wrote
             /\ log' = Recorded(entry, e) /\ UNCHANGED response

-----------------------------------------------------------------------------
(* The stages *)

Verdict(verdict) == trace' = Append(trace, [stage |-> at, verdict |-> verdict])

Proceed(verdict, next) ==
    /\ Verdict(verdict)
    /\ at' = next
    /\ UNCHANGED <<response, log>>

Reject(entry, e) ==
    /\ Verdict(IF e.cause THEN "error" ELSE "rejected")
    /\ Fail(entry, e)

\* A stage that only lets the request pass or fails it.
Check(stage, next, errors) ==
    /\ at = stage
    /\ Proceed("allowed", next) \/ \E e \in errors : Reject(log, e)
    /\ UNCHANGED <<conf, named, route, header, forwarded, origin, told>>

ResolveRequestID ==
    Check("request_id", "cors", {Unavailable("request_id_unavailable")})

\* corsPolicy.handle, absent when not configured or without an Origin.
HandleCORS ==
    /\ at = "cors"
    /\ \/ Proceed("absent", "health")
       \/ Proceed("allowed", "health")
       \/ Reject(log, Denied(403, "cors_rejected"))
       \/ /\ Verdict("answered")
          /\ at' = "returned"
          /\ response' = WriteHeader(response, 204)
          /\ UNCHANGED log
    /\ UNCHANGED <<conf, named, route, header, forwarded, origin, told>>

\* healthPolicy.handle on a health path.  Successful probes are logged only
\* on demand.
AnswerHealth ==
    /\ at = "health"
    /\ LET probe == [log EXCEPT !.auth = "public"] IN
       \/ Reject(probe, Denied(405, "health_method_not_allowed"))
       \/ Reject(probe, Unavailable("readiness_failed"))
       \/ /\ \E quiet \in BOOLEAN : log' = [probe EXCEPT !.quiet = quiet]
          /\ \/ /\ Verdict("answered")
                /\ at' = "returned"
                /\ response' = Write(WriteHeader(response, 200))
             \/ \E panic \in PanicKinds :
                /\ Verdict(panic)
                /\ at' = panic
                /\ response' \in {response, Write(WriteHeader(response, 200))}
    /\ UNCHANGED <<conf, named, route, header, forwarded, origin, told>>

PassHealth ==
    /\ at = "health"
    /\ Proceed("absent", "route")
    /\ UNCHANGED <<conf, named, route, header, forwarded, origin, told>>

ResolveRoute ==
    /\ at = "route"
    /\ \/ Proceed("allowed", "upstream_resolver") /\ route' \in Routes
       \/ /\ \E e \in {Unavailable("route_resolution_failed"),
                       Denied(404, "route_not_found"),
                       Unavailable("invalid_resolved_route")} : Reject(log, e)
          /\ UNCHANGED route
    /\ UNCHANGED <<conf, named, header, forwarded, origin, told>>

ResolveUpstream ==
    Check("upstream_resolver", "client_ip_resolver",
          {Unavailable("upstream_resolution_failed")})

ResolveClientIP ==
    Check("client_ip_resolver", "client_ip",
          {Unavailable("client_ip_resolution_failed")})

\* applyRateLimit
ApplyRateLimit(scope, next) ==
    /\ at = scope
    /\ LET Result(r) == [log EXCEPT !.limits[scope] = r] IN
       IF scope \notin conf
       THEN /\ Verdict("absent")
            /\ log' = Result("disabled")
            /\ at' = next
            /\ UNCHANGED response
       ELSE \/ /\ Verdict("allowed")
               /\ log' = Result("allowed")
               /\ at' = next
               /\ UNCHANGED response
            \/ Reject(Result("rejected"), Denied(429, "rate_limit_exceeded"))
            \/ Reject(Result("error"), Unavailable("rate_limiter_unavailable"))
    /\ UNCHANGED <<conf, named, route, header, forwarded, origin, told>>

LimitClientIP == ApplyRateLimit("client_ip", "authenticator")
LimitUser == ApplyRateLimit("user_id", "authorizer")
LimitUpstream == ApplyRateLimit("upstream", "body")

\* authenticate; without an identity the user's limiter is passed over.
Authenticate ==
    /\ at = "authenticator"
    /\ LET Result(r) == [log EXCEPT !.auth = r] IN
       \/ /\ route.access = "public"
          /\ Verdict("absent")
          /\ log' = Result("public")
          /\ at' = "authorizer"
          /\ UNCHANGED response
       \/ /\ route.access = "protected" /\ "authenticator" \notin conf
          /\ Reject(Result("error"), Unavailable("authenticator_unavailable"))
       \/ /\ route.access = "protected" /\ "authenticator" \in conf
          /\ \/ /\ Verdict("allowed")
                /\ log' = Result("success")
                /\ at' = "user_id"
                /\ UNCHANGED response
             \/ \E code \in {"missing_credential", "invalid_credential"} :
                  Reject(Result(code), Denied(401, code))
             \/ \E code \in {"credential_extraction_failed",
                             "authentication_failed"} :
                  Reject(Result("error"), Unavailable(code))
    /\ UNCHANGED <<conf, named, route, header, forwarded, origin, told>>

\* Fault: a policy that fails lets the request pass.
ApplyPolicy_FailOpen(component, next, denied, failed) ==
    /\ at = component
    /\ IF component \notin conf THEN Proceed("absent", next)
       ELSE \/ Proceed("allowed", next)
            \/ Reject(log, Denied(403, denied))
            \/ Proceed("error", next)
    /\ UNCHANGED <<conf, named, route, header, forwarded, origin, told>>

\* applyAuthorizer, applyBeforeProxy
ApplyPolicy(component, next, denied, failed) ==
    /\ at = component
    /\ IF component \notin conf THEN Proceed("absent", next)
       ELSE \/ Proceed("allowed", next)
            \/ Reject(log, Denied(403, denied))
            \/ Reject(log, Unavailable(failed))
    /\ UNCHANGED <<conf, named, route, header, forwarded, origin, told>>

ApplyAuthorizer ==
    ApplyPolicy("authorizer", "before_proxy", "forbidden", "authorization_failed")
ApplyBeforeProxy ==
    ApplyPolicy("before_proxy", "upstream", "proxy_policy_rejected",
                "before_proxy_policy_failed")

\* Fault: the headers are stripped only to make room for the identity.
PrepareForward_KeepsClient ==
    /\ at = "body"
    /\ header' = IF route.access = "protected" THEN "trusted" ELSE header
    /\ \/ Proceed("allowed", "proxy")
       \/ route.limited /\ Reject(log, Denied(413, "request_body_too_large"))
    /\ UNCHANGED <<conf, named, route, forwarded, origin, told>>

\* stripAndInjectIdentity, then the declared length of the body.
PrepareForward ==
    /\ at = "body"
    /\ header' = IF route.access = "protected" THEN "trusted" ELSE "none"
    /\ \/ Proceed("allowed", "proxy")
       \/ route.limited /\ Reject(log, Denied(413, "request_body_too_large"))
    /\ UNCHANGED <<conf, named, route, forwarded, origin, told>>

-----------------------------------------------------------------------------
(* The upstream: the reverse proxy or a handler of the project *)

\* ReverseProxy drops the hop-by-hop headers, those that the client's Connection
\* header names among them; Rewrite puts only the request ID back.
Forward ==
    /\ at = "proxy" /\ forwarded = "unsent"
    /\ forwarded' = IF named /\ ~OwnHandler THEN "none" ELSE header
    /\ UNCHANGED <<conf, named, at, route, header, response, origin, log, told, trace>>

Upstream(action) ==
    /\ at = "proxy" /\ forwarded # "unsent"
    /\ action
    /\ UNCHANGED <<conf, named, route, header, forwarded, told>>

\* ReverseProxy forwards 1xx responses as they come.
UpstreamInforms ==
    Upstream(/\ origin = 0 /\ ~response.informed /\ ~response.hijacked
             /\ response' = WriteHeader(response, 103)
             /\ UNCHANGED <<at, origin, log, trace>>)

\* Only the first of several final headers is the answer; ReverseProxy sends
\* one, and no 101.
UpstreamAnswers ==
    Upstream(\E status \in UpstreamStatuses :
               /\ ~response.hijacked
               /\ OwnHandler \/ (origin = 0 /\ status # 101)
               /\ origin' = IF origin = 0 THEN status ELSE origin
               /\ response' \in {WriteHeader(response, status),
                                 Write(WriteHeader(response, status))}
               /\ UNCHANGED <<at, log, trace>>)

\* handleUpgradeResponse of ReverseProxy, on a 101: the connection is hijacked
\* through Unwrap.
UpstreamHijacks ==
    Upstream(/\ origin = 0 /\ ~response.hijacked
             /\ 101 \in UpstreamStatuses
             /\ response' = [response EXCEPT !.hijacked = TRUE]
             /\ UNCHANGED <<at, origin, log, trace>>)

\* The 101 goes to the connection itself.
UpstreamSwitches ==
    Upstream(/\ origin = 0 /\ response.hijacked
             /\ 101 \in UpstreamStatuses
             /\ origin' = 101
             /\ response' = [response EXCEPT !.final = 101]
             /\ UNCHANGED <<at, log, trace>>)

\* The ErrorHandler of newReverseProxy does what fail does; on a hijacked
\* connection it hears only of a failed write of the 101.
UpstreamFails ==
    Upstream(/\ origin = 0 /\ ~OwnHandler
             /\ \/ Reject(log, GatewayError(502, "upstream_unavailable", TRUE))
                \/ /\ ~response.hijacked
                   /\ Reject(log, GatewayError(504, "upstream_timeout", TRUE))
                \/ /\ route.limited /\ ~response.hijacked
                   /\ Reject(log, GatewayError(413, "request_body_too_large", TRUE))
             /\ UNCHANGED origin)

UpstreamReturns ==
    Upstream(/\ OwnHandler \/ origin # 0
             /\ Proceed("allowed", "returned")
             /\ UNCHANGED origin)

\* A reverse proxy aborts when it loses the upstream in the middle of a body,
\* a handler or a transport of the project whenever it likes.
UpstreamAborts ==
    Upstream(Proceed("aborted", "aborted") /\ UNCHANGED origin)

-----------------------------------------------------------------------------
(* Panics and the end of the request *)

\* The code of the project runs in these stages.
ProjectCode == {"request_id", "route", "upstream_resolver", "client_ip_resolver",
                "proxy"} \cup (conf \cap Stages)

ComponentPanics ==
    /\ at \in ProjectCode
    /\ at = "authenticator" => route.access = "protected"
    /\ \E panic \in PanicKinds : Proceed(panic, panic)
    /\ UNCHANGED <<conf, named, route, header, forwarded, origin, told>>

\* recoverPanic
RecoverPanic ==
    /\ \/ /\ at = "panicked"
          /\ LET entry == [log EXCEPT !.code = "gateway_panic",
                                     !.failure = "gateway_panic"]
             IN IF response.wrote
                THEN at' = "returned" /\ log' = entry /\ UNCHANGED response
                ELSE Fail(entry, GatewayError(500, "gateway_panic", TRUE))
       \/ /\ at = "aborted"
          /\ at' = "returned"
          /\ log' = [log EXCEPT !.code = "upstream_stream_aborted",
                                !.failure = "upstream_stream_aborted"]
          /\ UNCHANGED response
    /\ UNCHANGED <<conf, named, route, header, forwarded, origin, told, trace>>

DefaultErrorCode(status) ==
    CASE status = 413 -> "request_body_too_large"
      [] status = 502 -> "upstream_unavailable"
      [] status = 504 -> "upstream_timeout"
      [] status >= 500 /\ status \notin {502, 504} -> "upstream_error"
      [] OTHER -> ""

Skipped == "access_logger" \notin conf \/ (log.quiet /\ response.status < 400)

\* The access logger returns an error or panics: "fails".
Observations(logger) ==
    LET failure == IF log.failure # "" THEN <<"component_failure">> ELSE <<>>
        failures == IF logger = "fails" THEN Append(failure, "access_log_failure")
                    ELSE failure
    IN  Append(failures, "request_completed")

\* finishRequest; net/http then completes a response that nobody began.
FinishRequest ==
    /\ at = "returned"
    /\ at' = "done"
    /\ log' = [log EXCEPT !.status = response.status, !.written = ~Skipped,
                          !.code = IF @ = "" THEN DefaultErrorCode(response.status)
                                   ELSE @]
    /\ \E logger \in IF Skipped THEN {"skipped"} ELSE {"logs", "fails"} :
         told' = Observations(logger)
    /\ response' = Sent(response, 200)
    /\ UNCHANGED <<conf, named, route, header, forwarded, origin, trace>>

Stop == at = "done" /\ UNCHANGED vars

Next ==
    \/ ResolveRequestID \/ HandleCORS \/ AnswerHealth \/ PassHealth
    \/ ResolveRoute \/ ResolveUpstream \/ ResolveClientIP
    \/ LimitClientIP \/ Authenticate \/ LimitUser
    \/ ApplyAuthorizer \/ ApplyBeforeProxy \/ LimitUpstream \/ PrepareForward
    \/ Forward \/ UpstreamInforms \/ UpstreamAnswers \/ UpstreamHijacks
    \/ UpstreamSwitches \/ UpstreamFails \/ UpstreamReturns \/ UpstreamAborts
    \/ ComponentPanics \/ RecoverPanic \/ FinishRequest \/ Stop

Spec == Init /\ [][Next]_vars

-----------------------------------------------------------------------------
(* Properties *)

Done == at = "done"
LastVerdict == Last(trace).verdict

\* On a route of this access, stage t comes right after s.
Follows(s, t, access) ==
    \E k \in 1..(Len(Pipeline) - 1) :
        /\ s = Pipeline[k]
        /\ t = IF Pipeline[k + 1] = "user_id" /\ access = "public"
               THEN Pipeline[k + 2] ELSE Pipeline[k + 1]

\* The stages run in the fixed order, without a gap, and none runs after one
\* that did not let the request pass: no quota is charged, no policy asked and
\* nothing forwarded for a request that an earlier stage has stopped.  A stage
\* is passed over exactly when its component is not configured; only the
\* user's quota may be left out, and that only on a public route.
FixedOrder ==
    /\ trace # <<>> => trace[1].stage = Pipeline[1]
    /\ \A i \in 1..(Len(trace) - 1) :
          /\ Follows(trace[i].stage, trace[i + 1].stage, route.access)
          /\ trace[i].verdict \in Passing
    /\ \A i \in 1..Len(trace) :
          trace[i].stage \in Components \ {"authenticator"} =>
            (trace[i].verdict = "absent" <=> trace[i].stage \notin conf)

\* The upstream never sees an identity that nobody vouched for: not the
\* client's own headers, and the gateway's only on a protected route after an
\* authenticator has accepted the credential.  A protected route reaches it
\* without an identity only if the client has asked for that: its Connection
\* header named the headers and the built-in proxy dropped them.
IdentityIsVouchedFor ==
    forwarded # "unsent" =>
        /\ forwarded # "client"
        /\ forwarded = "trusted" =>
             /\ route.access = "protected"
             /\ \E i \in DOMAIN trace :
                  trace[i] = [stage |-> "authenticator", verdict |-> "allowed"]
        /\ (route.access = "protected" /\ forwarded = "none") => named /\ ~OwnHandler

\* A request that a stage stopped never looks like a success to the client,
\* whatever the responder and the panic handler did on the way, unless headers
\* had gone out before: a refusal is a 4xx, an error or panic a 5xx or the 413
\* of a body that the proxy found too long, a panicking responder a 500.  It
\* does not speak of a component that panics with http.ErrAbortHandler, which
\* the client sees as an empty 200, nor of a hijacked connection.
RefusalIsVisible ==
    (/\ Done /\ origin = 0
     /\ ~response.informed /\ ~response.hijacked
     /\ Last(trace).stage # "health") =>
        /\ LastVerdict = "rejected" =>
             (response.final = 500 <=> log.code = "gateway_panic")
        /\ LastVerdict = "rejected" => response.final \in 400..500
        /\ LastVerdict \in {"error", "panicked"} =>
             response.final \in {413, 500, 502, 503, 504}

\* What the access log says the client got is what the client got, unless an
\* informational status went before it or the connection was hijacked: what the
\* client of an upgrade got is then not known to the recorder.
LoggedStatusIsSent ==
    (Done /\ ~response.informed /\ ~response.hijacked) =>
        log.status = response.final

Answered(i, s) == trace[i].stage = s /\ trace[i].verdict # "panicked"

\* A component failure is observed exactly when some component failed, the
\* completion exactly once and last, even when the logger fails too.  Every
\* failed request reaches a configured access log, a quiet probe included.
FailuresAreObserved ==
    Done =>
        /\ "component_failure" \in ToSet(told) <=> LastVerdict \in Faults
        /\ Last(told) = "request_completed"
        /\ \A i \in 1..Len(told) - 1 : told[i] # "request_completed"
        /\ (response.status >= 400 /\ "access_logger" \in conf) => log.written

\* docs/sdk/go/gateway-configuration.md asks an integration to verify that the
\* response wrapper does not break streamed responses: the client would get the
\* final status that the upstream sent.
UpstreamStatusIsKept ==
    (Done /\ origin # 0) => response.final = origin
=============================================================================
