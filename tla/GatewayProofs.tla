----------------------------- MODULE GatewayProofs -----------------------------
(***************************************************************************)
(* The invariants of Gateway hold for every set of upstream statuses; the  *)
(* second part proves those of its rate limiter, TokenBucket.              *)
(*                                                                         *)
(* Each step either passes a request on to the next stage, or ends it, or  *)
(* leaves the trace alone; the order of the stages needs no more.  What a  *)
(* response, a log and the headers look like depends on the stage alone.   *)
(***************************************************************************)
EXTENDS Gateway, TokenBucket, TLAPS, SequenceTheorems

Ended == {"panicked", "aborted", "returned", "done"}

\* The place of a stage in the pipeline.
Rank(s) ==
    CASE s = "request_id" -> 1
      [] s = "cors" -> 2
      [] s = "health" -> 3
      [] s = "route" -> 4
      [] s = "upstream_resolver" -> 5
      [] s = "client_ip_resolver" -> 6
      [] s = "client_ip" -> 7
      [] s = "authenticator" -> 8
      [] s = "user_id" -> 9
      [] s = "authorizer" -> 10
      [] s = "before_proxy" -> 11
      [] s = "upstream" -> 12
      [] s = "body" -> 13
      [] s = "proxy" -> 14
      [] OTHER -> 0

LEMMA StagesAre ==
    Stages = {"request_id", "cors", "health", "route", "upstream_resolver",
              "client_ip_resolver", "client_ip", "authenticator", "user_id",
              "authorizer", "before_proxy", "upstream", "body", "proxy"}
<1>1. DOMAIN Pipeline = 1..14
  BY DEF Pipeline
<1>2. Stages = {Pipeline[i] : i \in 1..14}
  BY <1>1 DEF Stages
<1>3. QED
  BY <1>2 DEF Pipeline

\* Follows, by ranks: one stage on, or two past the user's quota.
LEMMA FollowsByRank ==
    ASSUME NEW s \in Stages, NEW t \in Stages, NEW access,
           Rank(t) = Rank(s) + (IF s = "authenticator" /\ access = "public"
                                THEN 2 ELSE 1)
    PROVE  Follows(s, t, access)
<1>1. /\ Rank(s) \in 1..13
      /\ s = Pipeline[Rank(s)] /\ t = Pipeline[Rank(t)]
      /\ Pipeline[Rank(s) + 1] = "user_id" <=> s = "authenticator"
  BY StagesAre DEF Rank, Pipeline
<1>2. Len(Pipeline) = 14
  BY DEF Pipeline
<1>3. QED
  BY <1>1, <1>2 DEF Follows

\* The access of a route matters for the order from the authenticator on.
LEMMA FollowsEarly ==
    ASSUME NEW s \in Stages, NEW t \in Stages, NEW access, NEW other,
           Follows(s, t, access), Rank(s) < 8
    PROVE  Follows(s, t, other)
<1>1. Len(Pipeline) = 14
  BY DEF Pipeline
<1>2. PICK k \in 1..13 :
        /\ s = Pipeline[k]
        /\ t = IF Pipeline[k + 1] = "user_id" /\ access = "public"
               THEN Pipeline[k + 2] ELSE Pipeline[k + 1]
  BY <1>1 DEF Follows
<1>3. k < 8 /\ Pipeline[k + 1] # "user_id"
  BY <1>2 DEF Rank, Pipeline
<1>4. QED
  BY <1>1, <1>2, <1>3 DEF Follows

\* The three kinds of step.  Passing on ...
Passes(verdict) ==
    /\ at \in Stages /\ at' \in Stages
    /\ Rank(at') = Rank(at) + (IF at = "authenticator" /\ route.access = "public"
                               THEN 2 ELSE 1)
    /\ Verdict(verdict)
    /\ verdict \in Passing
    /\ at \in Components \ {"authenticator"} => (verdict = "absent" <=> at \notin conf)
    /\ conf' = conf /\ (at # "route" => route' = route)

\* ... ending the request ...
Ends(verdict) ==
    /\ at \in Stages /\ at' \in Ended \ {"done"}
    /\ Verdict(verdict)
    /\ verdict \in Verdicts \ {"absent"}
    /\ at \in Components \ {"authenticator"} => at \in conf
    /\ conf' = conf /\ route' = route

\* ... and everything else.
Stays ==
    /\ trace' = trace /\ conf' = conf /\ route' = route
    /\ \/ at = "proxy" /\ at' = "proxy"
       \/ at \in Ended /\ at' \in Ended

Leaves == \E verdict \in Verdicts : Passes(verdict) \/ Ends(verdict)

LEMMA RejectEnds ==
    ASSUME NEW entry, NEW e, Reject(entry, e),
           at \in Stages, conf' = conf, route' = route,
           at \in Components \ {"authenticator"} => at \in conf
    PROVE  Leaves
<1>1. \E verdict \in {"error", "rejected"} : Verdict(verdict)
  BY DEF Reject
<1>2. at' = "returned"
  BY DEF Reject, Fail
<1>3. QED
  BY <1>1, <1>2 DEF Leaves, Ends, Ended, Verdicts

\* A stage that passes a request on without a look at its component.
LEMMA ProceedPasses ==
    ASSUME NEW next \in Stages, NEW verdict \in Passing, Verdict(verdict), at' = next,
           at \in Stages \ (Components \ {"authenticator"}),
           Rank(next) = Rank(at) + (IF at = "authenticator" /\ route.access = "public"
                                    THEN 2 ELSE 1),
           conf' = conf, at # "route" => route' = route
    PROVE  Leaves
BY DEF Leaves, Passes, Passing, Verdicts

LEMMA CheckLeaves ==
    ASSUME NEW stage \in Stages \ Components, NEW next \in Stages, NEW errors,
           Check(stage, next, errors), Rank(next) = Rank(stage) + 1
    PROVE  Leaves
<1>1. at = stage /\ at # "authenticator" /\ conf' = conf /\ route' = route
  BY DEF Check, Components
<1>2. CASE Proceed("allowed", next)
  BY <1>1, <1>2, ProceedPasses DEF Proceed, Passing
<1>3. ASSUME NEW e \in errors, Reject(log, e) PROVE Leaves
  BY <1>1, <1>3, RejectEnds
<1>4. QED
  BY <1>2, <1>3 DEF Check

LEMMA LimitLeaves ==
    ASSUME NEW scope \in Scopes, NEW next \in Stages, ApplyRateLimit(scope, next),
           Rank(next) = Rank(scope) + 1
    PROVE  Leaves
<1>1. /\ at = scope /\ at \in Stages \cap (Components \ {"authenticator"})
      /\ conf' = conf /\ route' = route
  BY StagesAre DEF ApplyRateLimit, Scopes, Components
<1>2. CASE scope \notin conf
  BY <1>1, <1>2 DEF ApplyRateLimit, Leaves, Passes, Passing, Verdicts
<1>3. CASE scope \in conf /\ \E entry, e : Reject(entry, e)
  BY <1>1, <1>3, RejectEnds
<1>4. CASE scope \in conf /\ Verdict("allowed") /\ at' = next
  BY <1>1, <1>4 DEF Leaves, Passes, Passing, Verdicts
<1>5. QED
  BY <1>2, <1>3, <1>4 DEF ApplyRateLimit

LEMMA PolicyLeaves ==
    ASSUME NEW component \in {"authorizer", "before_proxy"}, NEW next \in Stages,
           NEW denied, NEW failed, ApplyPolicy(component, next, denied, failed),
           Rank(next) = Rank(component) + 1
    PROVE  Leaves
<1>1. /\ at = component /\ at \in Stages \cap (Components \ {"authenticator"})
      /\ conf' = conf /\ route' = route
  BY StagesAre DEF ApplyPolicy, Components
<1>2. CASE component \notin conf
  BY <1>1, <1>2 DEF ApplyPolicy, Proceed, Leaves, Passes, Passing, Verdicts
<1>3. CASE component \in conf /\ \E entry, e : Reject(entry, e)
  BY <1>1, <1>3, RejectEnds
<1>4. CASE component \in conf /\ Proceed("allowed", next)
  BY <1>1, <1>4 DEF Proceed, Leaves, Passes, Passing, Verdicts
<1>5. QED
  BY <1>2, <1>3, <1>4 DEF ApplyPolicy

LEMMA Kinds ==
    ASSUME TypeOK, [Next]_vars
    PROVE  Stays \/ UNCHANGED vars \/ Leaves
<1> USE StagesAre
<1>1. CASE ResolveRequestID \/ ResolveUpstream \/ ResolveClientIP
  BY <1>1, CheckLeaves
     DEF ResolveRequestID, ResolveUpstream, ResolveClientIP, Components, Scopes, Rank
<1>2. CASE LimitClientIP \/ LimitUser \/ LimitUpstream
  BY <1>2, LimitLeaves DEF LimitClientIP, LimitUser, LimitUpstream, Scopes, Rank
<1>3. CASE ApplyAuthorizer \/ ApplyBeforeProxy
  BY <1>3, PolicyLeaves DEF ApplyAuthorizer, ApplyBeforeProxy, Rank
<1>4. CASE HandleCORS
  <2>1. at = "cors" /\ conf' = conf /\ route' = route
    BY <1>4 DEF HandleCORS
  <2>2. \/ \E v \in Passing : Proceed(v, "health")
        \/ \E entry, e : Reject(entry, e)
        \/ Verdict("answered") /\ at' = "returned"
    BY <1>4 DEF HandleCORS, Passing
  <2>3. CASE \E v \in Passing : Proceed(v, "health")
    BY <2>1, <2>3, ProceedPasses DEF Proceed, Components, Scopes, Rank
  <2>4. QED
    BY <2>1, <2>2, <2>3, RejectEnds
       DEF Leaves, Ends, Ended, Verdicts, Components, Scopes
<1>5. CASE PassHealth
  BY <1>5, ProceedPasses DEF PassHealth, Proceed, Components, Scopes, Rank, Passing
<1>6. CASE AnswerHealth
  <2>1. at = "health" /\ conf' = conf /\ route' = route
    BY <1>6 DEF AnswerHealth
  <2>2. \/ \E entry, e : Reject(entry, e)
        \/ Verdict("answered") /\ at' = "returned"
        \/ \E panic \in PanicKinds : Verdict(panic) /\ at' = panic
    BY <1>6 DEF AnswerHealth
  <2>3. QED
    BY <2>1, <2>2, RejectEnds DEF PanicKinds, Leaves, Ends, Ended, Verdicts, Components, Scopes
<1>7. CASE ResolveRoute
  <2>1. at = "route" /\ conf' = conf
    BY <1>7 DEF ResolveRoute
  <2>2. \/ Proceed("allowed", "upstream_resolver")
        \/ route' = route /\ \E e : Reject(log, e)
    BY <1>7 DEF ResolveRoute
  <2>3. CASE Proceed("allowed", "upstream_resolver")
    BY <2>1, <2>3, ProceedPasses DEF Proceed, Components, Scopes, Rank, Passing
  <2>4. QED
    BY <2>1, <2>2, <2>3, RejectEnds DEF Components, Scopes
<1>8. CASE Authenticate
  <2>1. at = "authenticator" /\ conf' = conf /\ route' = route
    BY <1>8 DEF Authenticate
  <2>2. \/ route.access = "public" /\ Verdict("absent") /\ at' = "authorizer"
        \/ route.access = "protected" /\ Verdict("allowed") /\ at' = "user_id"
        \/ \E entry, e : Reject(entry, e)
    BY <1>8 DEF Authenticate
  <2>3. CASE \E entry, e : Reject(entry, e)
    BY <2>1, <2>3, RejectEnds DEF Components, Scopes
  <2>4. QED
    BY <2>1, <2>2, <2>3 DEF Leaves, Passes, Passing, Verdicts, Components, Scopes, Rank
<1>9. CASE PrepareForward
  <2>1. at = "body" /\ conf' = conf /\ route' = route
    BY <1>9 DEF PrepareForward
  <2>2. Proceed("allowed", "proxy") \/ \E entry, e : Reject(entry, e)
    BY <1>9 DEF PrepareForward
  <2>3. CASE Proceed("allowed", "proxy")
    BY <2>1, <2>3, ProceedPasses DEF Proceed, Components, Scopes, Rank, Passing
  <2>4. QED
    BY <2>1, <2>2, <2>3, RejectEnds DEF Components, Scopes
<1>10. CASE Forward \/ UpstreamInforms \/ UpstreamAnswers \/ UpstreamHijacks
            \/ UpstreamSwitches
  BY <1>10 DEF Forward, UpstreamInforms, UpstreamAnswers, UpstreamHijacks,
              UpstreamSwitches, Upstream, Stays
<1>11. CASE UpstreamFails \/ UpstreamReturns \/ UpstreamAborts
  <2>1. at = "proxy" /\ conf' = conf /\ route' = route
    BY <1>11 DEF UpstreamFails, UpstreamReturns, UpstreamAborts, Upstream
  <2>2. \/ \E entry, e : Reject(entry, e)
        \/ Verdict("allowed") /\ at' = "returned"
        \/ Verdict("aborted") /\ at' = "aborted"
    BY <1>11 DEF UpstreamFails, UpstreamReturns, UpstreamAborts, Upstream, Proceed
  <2>3. QED
    BY <2>1, <2>2, RejectEnds DEF Leaves, Ends, Ended, Verdicts, Components, Scopes
<1>12. CASE ComponentPanics
  <2>1. at \in Stages /\ (at \in Components \ {"authenticator"} => at \in conf)
    BY <1>12 DEF ComponentPanics, ProjectCode, TypeOK, Components, Scopes
  <2>2. QED
    BY <1>12, <2>1 DEF ComponentPanics, PanicKinds, Proceed, Leaves, Ends, Ended, Verdicts
<1>13. CASE RecoverPanic \/ FinishRequest
  BY <1>13 DEF RecoverPanic, FinishRequest, Fail, Stays, Ended
<1>14. QED
  BY <1>1, <1>2, <1>3, <1>4, <1>5, <1>6, <1>7, <1>8, <1>9, <1>10, <1>11, <1>12, <1>13
     DEF Next, Stop

-----------------------------------------------------------------------------
(* The order of the stages.                                                *)

Ran(i) == trace[i].stage

\* FixedOrder, and how the trace relates to the stage that is to run next.
Order ==
    /\ FixedOrder
    /\ at \notin Stages => trace # <<>>
    /\ at \in Stages =>
          /\ trace = <<>> => at = "request_id"
          /\ trace # <<>> => Follows(Ran(Len(trace)), at, route.access)
          /\ \A i \in 1..Len(trace) :
                Rank(Ran(i)) < Rank(at) /\ trace[i].verdict \in Passing

\* What one more entry does to the trace.
LEMMA VerdictFacts ==
    ASSUME TypeOK, NEW verdict \in Verdicts, at \in Stages, Verdict(verdict)
    PROVE  /\ trace' \in Seq([stage : Stages, verdict : Verdicts])
           /\ Len(trace') = Len(trace) + 1 /\ Len(trace) \in Nat
           /\ trace'[Len(trace) + 1] = [stage |-> at, verdict |-> verdict]
           /\ \A i \in 1..Len(trace) : trace'[i] = trace[i]
           /\ trace' # <<>>
<1>1. /\ trace \in Seq([stage : Stages, verdict : Verdicts])
      /\ [stage |-> at, verdict |-> verdict] \in [stage : Stages, verdict : Verdicts]
  BY DEF TypeOK
<1>2. QED
  BY <1>1, AppendProperties, EmptySeq DEF Verdict

\* The old part of the trace keeps its order after any step that extends it.
LEMMA LongerTrace ==
    ASSUME TypeOK, Order, NEW verdict \in Verdicts, at \in Stages, Verdict(verdict),
           conf' = conf, at # "route" => route' = route,
           at \in Components \ {"authenticator"} =>
             (verdict = "absent" <=> at \notin conf)
    PROVE  FixedOrder'
<1> DEFINE n == Len(trace)
<1>1. /\ n \in Nat /\ Len(trace') = n + 1 /\ trace' # <<>>
      /\ trace'[n + 1] = [stage |-> at, verdict |-> verdict]
      /\ \A i \in 1..n : trace'[i] = trace[i] /\ trace[i].stage \in Stages
  <2>1. trace \in Seq([stage : Stages, verdict : Verdicts])
    BY DEF TypeOK
  <2>2. ASSUME NEW i \in 1..n PROVE trace[i].stage \in Stages
    <3>1. trace[i] \in [stage : Stages, verdict : Verdicts]
      BY <2>1, ElementOfSeq
    <3>2. QED
      BY <3>1
  <2>3. QED
    BY <2>2, VerdictFacts
<1>2. route' = route \/ \A i \in 1..n : Rank(Ran(i)) < 8
  <2>1. SUFFICES ASSUME at = "route", NEW i \in 1..n PROVE Rank(Ran(i)) < 8
    OBVIOUS
  <2>2. Rank(Ran(i)) < Rank(at) /\ Rank(at) = 4 /\ Rank(Ran(i)) \in Nat
    BY <1>1, <2>1, StagesAre DEF Order, Rank, Ran
  <2>3. QED
    BY <2>2
<1>3. trace'[1].stage = Pipeline[1]
  <2>1. CASE n = 0
    <3>1. trace = <<>>
      BY <2>1, EmptySeq DEF TypeOK
    <3>2. QED
      BY <1>1, <2>1, <3>1 DEF Order, Pipeline
  <2>2. CASE n # 0
    BY <1>1, <2>2 DEF Order, FixedOrder, TypeOK
  <2>3. QED
    BY <2>1, <2>2
<1>4. ASSUME NEW i \in 1..n
      PROVE  /\ Follows(trace'[i].stage, trace'[i + 1].stage, route'.access)
             /\ trace'[i].verdict \in Passing
  <2>1. trace'[i].verdict \in Passing
    BY <1>1 DEF Order
  <2>2. trace # <<>>
    BY <1>1, <1>4, EmptySeq
  <2>3. CASE i = n
    <3>1. Follows(Ran(n), at, route.access)
      BY <2>2 DEF Order
    <3>2. Follows(Ran(n), at, route'.access)
      BY <1>1, <1>2, <1>4, <2>3, <3>1, FollowsEarly DEF Ran
    <3>3. QED
      BY <1>1, <2>1, <2>3, <3>2 DEF Ran
  <2>4. CASE i < n
    <3>1. Follows(Ran(i), Ran(i + 1), route.access) /\ i \in 1..n /\ i + 1 \in 1..n
      BY <1>1, <2>4 DEF Order, FixedOrder, Ran
    <3>2. Follows(Ran(i), Ran(i + 1), route'.access)
      BY <1>1, <1>2, <3>1, FollowsEarly DEF Ran
    <3>3. QED
      BY <1>1, <2>1, <3>1, <3>2 DEF Ran
  <2>5. QED
    BY <1>1, <2>3, <2>4
<1>5. ASSUME NEW i \in 1..(n + 1), trace'[i].stage \in Components \ {"authenticator"}
      PROVE  trace'[i].verdict = "absent" <=> trace'[i].stage \notin conf'
  BY <1>1, <1>5 DEF Order, FixedOrder
<1>6. QED
  BY <1>1, <1>3, <1>4, <1>5, SMTT(60) DEF FixedOrder

LEMMA OrderKept ==
    ASSUME TypeOK, Order, [Next]_vars
    PROVE  Order'
<1>1. CASE UNCHANGED vars
  BY <1>1 DEF Order, FixedOrder, Follows, Ran, vars
<1>2. CASE Stays
  BY <1>2, StagesAre DEF Order, FixedOrder, Follows, Ran, Stays, Ended
<1>3. ASSUME NEW verdict \in Verdicts, Ends(verdict) PROVE Order'
  <2>1. FixedOrder'
    BY <1>3, LongerTrace DEF Ends, TypeOK
  <2>2. at' \notin Stages /\ trace' # <<>>
    BY <1>3, StagesAre, VerdictFacts DEF Ends, Ended
  <2>3. QED
    BY <2>1, <2>2 DEF Order
<1>4. ASSUME NEW verdict \in Verdicts, Passes(verdict) PROVE Order'
  <2>1. FixedOrder'
    BY <1>4, LongerTrace DEF Passes
  <2>2. /\ Len(trace') = Len(trace) + 1 /\ Len(trace) \in Nat
        /\ trace'[Len(trace) + 1] = [stage |-> at, verdict |-> verdict]
        /\ \A i \in 1..Len(trace) : trace'[i] = trace[i]
        /\ trace' # <<>>
    BY <1>4, VerdictFacts DEF Passes
  <2>3. Follows(at, at', route.access)
    BY <1>4, FollowsByRank DEF Passes
  <2>4. Follows(at, at', route'.access)
    <3>1. route' = route \/ Rank(at) < 8
      BY <1>4 DEF Passes, Rank
    <3>2. QED
      BY <1>4, <2>3, <3>1, FollowsEarly DEF Passes
  <2>5. Rank(at) < Rank(at') /\ at \in Stages /\ at' \in Stages /\ verdict \in Passing
    BY <1>4, StagesAre DEF Passes, Rank
  <2>6. \A i \in 1..Len(trace) :
          Rank(trace[i].stage) < Rank(at) /\ trace[i].verdict \in Passing
    BY <2>5 DEF Order, Ran
  <2>7. ASSUME NEW i \in 1..Len(trace')
        PROVE  Rank(trace'[i].stage) < Rank(at') /\ trace'[i].verdict \in Passing
    <3>1. CASE i = Len(trace) + 1
      BY <2>2, <2>5, <3>1
    <3>2. CASE i # Len(trace) + 1
      <4>1. i \in 1..Len(trace) /\ trace'[i] = trace[i]
        BY <2>2, <3>2
      <4>2. Rank(trace'[i].stage) < Rank(at) /\ Rank(trace'[i].stage) \in Nat
        BY <2>6, <4>1, StagesAre, SMTT(60) DEF TypeOK, Rank
      <4>3. Rank(at) \in Nat /\ Rank(at') \in Nat
        BY <2>5, StagesAre DEF Rank
      <4>4. QED
        BY <2>5, <2>6, <4>1, <4>2, <4>3
    <3>3. QED
      BY <3>1, <3>2
  <2>8. QED
    BY <2>1, <2>2, <2>4, <2>5, <2>7 DEF Order, Ran
<1>5. QED
  BY <1>1, <1>2, <1>3, <1>4, Kinds DEF Leaves

-----------------------------------------------------------------------------
(* What a step writes.                                                     *)

FinalStatuses == (101..599) \ Informational
ResponseType == [wrote : BOOLEAN, status : 100..599, final : {0} \cup FinalStatuses,
                 informed : BOOLEAN, hijacked : BOOLEAN]
LogType == [code : ErrorCodes, failure : ErrorCodes, auth : AuthResults,
            limits : [Scopes -> {"none", "disabled", "allowed", "rejected", "error"}],
            quiet : BOOLEAN, status : 0..599, written : BOOLEAN]

\* An entry that has the same error, or none, as the log.
Keeps(entry) ==
    entry \in LogType /\ entry.code = log.code /\ entry.failure = log.failure

\* A refusal is a 4xx, a failure of a component a 5xx or the 413 of the proxy.
Proper(e) ==
    /\ e.status \in IF e.cause THEN {413, 502, 503, 504} ELSE 400..499
    /\ e.code \in StageErrors
    /\ e.cause \in BOOLEAN

\* The effects of the steps before the request is answered.
Forwards ==
    /\ at \in Stages \ {"proxy"} /\ at' \in Stages
    /\ \E verdict \in Passing : Verdict(verdict)
    /\ response' = response /\ origin' = origin /\ told' = told /\ Keeps(log')

Refuses ==
    /\ at \in Stages /\ origin' = origin /\ told' = told
    /\ at = "proxy" => origin = 0
    /\ \E entry, e : Keeps(entry) /\ Proper(e) /\ Reject(entry, e)

\* A preflight or a health probe, answered by the gateway itself.
AnswersItself ==
    /\ at \in {"cors", "health"} /\ at' = "returned" /\ Verdict("answered")
    /\ origin' = origin /\ told' = told /\ Keeps(log')
    /\ response' \in {WriteHeader(response, 204), Write(WriteHeader(response, 200))}

Panics ==
    /\ at \in Stages
    /\ \E panic \in PanicKinds : at' = panic /\ Verdict(panic)
    /\ origin' = origin /\ told' = told /\ Keeps(log')
    /\ \/ response' = response
       \/ at = "health" /\ response' = Write(WriteHeader(response, 200))

UpstreamWrites ==
    /\ at = "proxy" /\ at' = "proxy"
    /\ UNCHANGED <<trace, log, told>>
    /\ \/ origin' = origin /\ response' = WriteHeader(response, 103)
       \/ \E status \in UpstreamStatuses :
            /\ origin' = IF origin = 0 THEN status ELSE origin
            /\ response' \in {WriteHeader(response, status),
                              Write(WriteHeader(response, status))}

\* The connection is taken over, and then carries the 101.
Hijacks ==
    /\ at = "proxy" /\ at' = "proxy"
    /\ UNCHANGED <<trace, log, told>>
    /\ \/ origin' = origin /\ response' = [response EXCEPT !.hijacked = TRUE]
       \/ /\ response.hijacked /\ 101 \in UpstreamStatuses /\ origin' = 101
          /\ response' = [response EXCEPT !.final = 101]

UpstreamEnds ==
    /\ at = "proxy" /\ UNCHANGED <<response, log, told, origin>>
    /\ \/ at' = "returned" /\ Verdict("allowed")
       \/ at' = "aborted" /\ Verdict("aborted")

\* Every error that a stage or the proxy answers with.
LEMMA ErrorsAreProper ==
    /\ Proper(Unavailable("request_id_unavailable"))
    /\ Proper(Unavailable("readiness_failed"))
    /\ Proper(Unavailable("route_resolution_failed"))
    /\ Proper(Unavailable("invalid_resolved_route"))
    /\ Proper(Unavailable("upstream_resolution_failed"))
    /\ Proper(Unavailable("client_ip_resolution_failed"))
    /\ Proper(Unavailable("rate_limiter_unavailable"))
    /\ Proper(Unavailable("authenticator_unavailable"))
    /\ Proper(Unavailable("credential_extraction_failed"))
    /\ Proper(Unavailable("authentication_failed"))
    /\ Proper(Unavailable("authorization_failed"))
    /\ Proper(Unavailable("before_proxy_policy_failed"))
    /\ Proper(Denied(403, "cors_rejected"))
    /\ Proper(Denied(405, "health_method_not_allowed"))
    /\ Proper(Denied(404, "route_not_found"))
    /\ Proper(Denied(429, "rate_limit_exceeded"))
    /\ Proper(Denied(401, "missing_credential"))
    /\ Proper(Denied(401, "invalid_credential"))
    /\ Proper(Denied(403, "forbidden"))
    /\ Proper(Denied(403, "proxy_policy_rejected"))
    /\ Proper(Denied(413, "request_body_too_large"))
    /\ Proper(GatewayError(502, "upstream_unavailable", TRUE))
    /\ Proper(GatewayError(504, "upstream_timeout", TRUE))
    /\ Proper(GatewayError(413, "request_body_too_large", TRUE))
BY DEF Proper, Unavailable, Denied, GatewayError, StageErrors

LEMMA RefusesBy ==
    ASSUME NEW entry, NEW e, Keeps(entry), Proper(e), Reject(entry, e), at \in Stages,
           origin' = origin, told' = told, at = "proxy" => origin = 0
    PROVE  Refuses
BY DEF Refuses

LEMMA Effects ==
    ASSUME TypeOK, [Next]_vars
    PROVE  \/ UNCHANGED vars \/ Forwards \/ Refuses \/ AnswersItself \/ Panics
           \/ Forward \/ UpstreamWrites \/ Hijacks \/ UpstreamEnds
           \/ RecoverPanic \/ FinishRequest
<1> USE StagesAre
<1>0. log \in LogType /\ Keeps(log)
  BY DEF TypeOK, LogType, Keeps
<1>a. ASSUME NEW auth \in AuthResults PROVE Keeps([log EXCEPT !.auth = auth])
  BY <1>0 DEF LogType, Keeps
<1>1. CASE ResolveRequestID \/ ResolveUpstream \/ ResolveClientIP
  BY <1>0, <1>1, ErrorsAreProper, RefusesBy
     DEF ResolveRequestID, ResolveUpstream, ResolveClientIP, Check, Proceed, Passing,
         Forwards
<1>2. CASE LimitClientIP \/ LimitUser \/ LimitUpstream
  <2>1. PICK scope \in Scopes, next \in Stages : ApplyRateLimit(scope, next)
    BY <1>2 DEF LimitClientIP, LimitUser, LimitUpstream, Scopes
  <2>2. ASSUME NEW r \in {"none", "disabled", "allowed", "rejected", "error"}
        PROVE  Keeps([log EXCEPT !.limits[scope] = r])
    BY <1>0 DEF LogType, Keeps
  <2>3. at \in Stages \ {"proxy"} /\ origin' = origin /\ told' = told
    BY <2>1 DEF ApplyRateLimit, Scopes
  <2>4. CASE \E v \in Passing : Verdict(v) /\ at' = next /\ response' = response
             /\ \E r \in {"disabled", "allowed"} : log' = [log EXCEPT !.limits[scope] = r]
    BY <2>2, <2>3, <2>4 DEF Forwards
  <2>5. CASE \E r \in {"rejected", "error"} : \E e :
               Proper(e) /\ Reject([log EXCEPT !.limits[scope] = r], e)
    BY <2>2, <2>3, <2>5, RefusesBy
  <2>6. QED
    BY <2>1, <2>4, <2>5, ErrorsAreProper, RefusesBy DEF ApplyRateLimit, Passing
<1>3. CASE ApplyAuthorizer \/ ApplyBeforeProxy
  BY <1>0, <1>3, ErrorsAreProper, RefusesBy
     DEF ApplyAuthorizer, ApplyBeforeProxy, ApplyPolicy, Proceed, Passing, Forwards
<1>4. CASE HandleCORS
  BY <1>0, <1>4, ErrorsAreProper, RefusesBy
     DEF HandleCORS, Proceed, Passing, Forwards, AnswersItself
<1>5. CASE PassHealth \/ ResolveRoute
  BY <1>0, <1>5, ErrorsAreProper, RefusesBy
     DEF PassHealth, ResolveRoute, Proceed, Passing, Forwards
<1>6. CASE AnswerHealth
  <2> DEFINE probe == [log EXCEPT !.auth = "public"]
  <2>1. Keeps(probe) /\ probe \in LogType
    BY <1>a DEF AuthResults, Keeps
  <2>2. ASSUME NEW quiet \in BOOLEAN PROVE Keeps([probe EXCEPT !.quiet = quiet])
    <3> HIDE DEF probe
    <3>1. QED
      BY <2>1 DEF LogType, Keeps
  <2>3. at = "health" /\ at \in Stages /\ origin' = origin /\ told' = told
    BY <1>6 DEF AnswerHealth
  <2>4. CASE \E e : Proper(e) /\ Reject(probe, e)
    BY <2>1, <2>3, <2>4, RefusesBy
  <2>5. CASE Keeps(log') /\ Verdict("answered") /\ at' = "returned"
             /\ response' = Write(WriteHeader(response, 200))
    BY <2>3, <2>5 DEF AnswersItself
  <2>6. CASE /\ Keeps(log') /\ \E panic \in PanicKinds : Verdict(panic) /\ at' = panic
             /\ response' \in {response, Write(WriteHeader(response, 200))}
    BY <2>3, <2>6 DEF Panics
  <2>7. QED
    BY <1>6, <2>2, <2>4, <2>5, <2>6, ErrorsAreProper DEF AnswerHealth
<1>7. CASE Authenticate
  <2>1. at \in Stages \ {"proxy"} /\ origin' = origin /\ told' = told
    BY <1>7 DEF Authenticate
  <2>2. CASE \E auth \in AuthResults : \E e :
               Proper(e) /\ Reject([log EXCEPT !.auth = auth], e)
    BY <1>a, <2>1, <2>2, RefusesBy
  <2>3. CASE /\ \E auth \in AuthResults : log' = [log EXCEPT !.auth = auth]
             /\ \E verdict \in Passing : Verdict(verdict)
             /\ at' \in Stages /\ response' = response
    BY <1>a, <2>1, <2>3 DEF Forwards
  <2>4. /\ {"error", "missing_credential", "invalid_credential", "public", "success"}
             \subseteq AuthResults
        /\ {"absent", "allowed"} \subseteq Passing
    BY DEF AuthResults, Passing
  <2>5. QED
    BY <1>7, <2>2, <2>3, <2>4, ErrorsAreProper DEF Authenticate
<1>8. CASE PrepareForward
  BY <1>0, <1>8, ErrorsAreProper, RefusesBy
     DEF PrepareForward, Proceed, Passing, Forwards
<1>9. CASE UpstreamInforms \/ UpstreamAnswers
  BY <1>9 DEF UpstreamInforms, UpstreamAnswers, Upstream, UpstreamWrites
<1>14. CASE UpstreamHijacks \/ UpstreamSwitches
  BY <1>14 DEF UpstreamHijacks, UpstreamSwitches, Upstream, Hijacks
<1>10. CASE UpstreamFails
  <2>1. at = "proxy" /\ at \in Stages /\ origin = 0 /\ origin' = origin /\ told' = told
    BY <1>10 DEF UpstreamFails, Upstream
  <2>2. \E e : Proper(e) /\ Reject(log, e)
    BY <1>10, ErrorsAreProper, ZenonT(120) DEF UpstreamFails, Upstream
  <2>3. QED
    BY <1>0, <2>1, <2>2, RefusesBy
<1>11. CASE UpstreamReturns \/ UpstreamAborts
  BY <1>11 DEF UpstreamReturns, UpstreamAborts, Upstream, Proceed, UpstreamEnds
<1>12. CASE ComponentPanics
  BY <1>0, <1>12
     DEF ComponentPanics, ProjectCode, TypeOK, Components, Scopes, Proceed, Panics
<1>13. QED
  BY <1>1, <1>2, <1>3, <1>4, <1>5, <1>6, <1>7, <1>8, <1>9, <1>10, <1>11, <1>12, <1>14
     DEF Next, Stop

-----------------------------------------------------------------------------
(* Responses.                                                              *)

\* Until the request is done, net/http agrees with the recorder unless an
\* informational header or a hijacked connection came between them.
Agrees(resp) ==
    /\ ~resp.wrote => resp.status = 200 /\ ~resp.informed
    /\ (~resp.wrote /\ ~resp.hijacked) => resp.final = 0
    /\ (resp.wrote /\ ~resp.informed /\ ~resp.hijacked) => resp.final = resp.status

\* new answers with status what resp had not begun to answer.
Begins(resp, status, new) ==
    /\ new \in ResponseType /\ Agrees(new) /\ new.wrote
    /\ resp.wrote => new.status = resp.status /\ new.informed = resp.informed
    /\ ~resp.wrote => new.status = status
    /\ ~resp.wrote /\ status \in FinalStatuses => ~new.informed
    /\ new.hijacked = resp.hijacked

LEMMA MarkWritten ==
    ASSUME NEW resp \in ResponseType, NEW status \in 101..599
    PROVE  LET r == [resp EXCEPT !.wrote = TRUE, !.status = status]
           IN  /\ r \in ResponseType /\ r.wrote = TRUE /\ r.status = status
               /\ r.final = resp.final /\ r.informed = resp.informed
               /\ r.hijacked = resp.hijacked
<1>1. status \in 100..599 /\ TRUE \in BOOLEAN
  OBVIOUS
<1>2. QED
  BY <1>1 DEF ResponseType

LEMMA MarkInformed ==
    ASSUME NEW resp \in ResponseType
    PROVE  LET r == [resp EXCEPT !.informed = TRUE]
           IN  /\ r \in ResponseType /\ r.informed = TRUE /\ r.status = resp.status
               /\ r.final = resp.final /\ r.wrote = resp.wrote
               /\ r.hijacked = resp.hijacked
BY DEF ResponseType

LEMMA MarkFinal ==
    ASSUME NEW resp \in ResponseType, NEW status \in FinalStatuses
    PROVE  LET r == [resp EXCEPT !.final = status]
           IN  /\ r \in ResponseType /\ r.final = status /\ r.status = resp.status
               /\ r.informed = resp.informed /\ r.wrote = resp.wrote
               /\ r.hijacked = resp.hijacked
BY DEF ResponseType

LEMMA HeaderFacts ==
    ASSUME NEW resp \in ResponseType, Agrees(resp), NEW status \in 101..599
    PROVE  Begins(resp, status, WriteHeader(resp, status))
<1>1. CASE resp.wrote
  BY <1>1 DEF WriteHeader, Begins
<1>2. CASE ~resp.wrote
  <2> DEFINE r == [resp EXCEPT !.wrote = TRUE, !.status = status]
  <2>1. /\ r \in ResponseType /\ r.wrote /\ r.status = status
        /\ r.final = resp.final /\ r.informed = resp.informed
        /\ r.hijacked = resp.hijacked
    BY MarkWritten, ZenonT(120)
  <2> HIDE DEF r
  <2>2. (~r.hijacked => r.final = 0) /\ ~r.informed
    BY <1>2, <2>1 DEF Agrees
  <2>3. WriteHeader(resp, status) = Sent(r, status)
    BY <1>2 DEF WriteHeader, r
  <2>7. CASE r.hijacked
    <3>1. WriteHeader(resp, status) = r
      BY <2>3, <2>7 DEF Sent
    <3>2. Agrees(r)
      BY <2>1, <2>7 DEF Agrees
    <3>3. Begins(resp, status, r)
      BY <1>2, <2>1, <2>2, <3>2 DEF Begins
    <3>4. QED
      BY <3>1, <3>3
  <2>4. CASE status \in Informational /\ ~r.hijacked
    <3> DEFINE new == [r EXCEPT !.informed = TRUE]
    <3>1. /\ new \in ResponseType /\ new.informed = TRUE /\ new.status = r.status
          /\ new.wrote = r.wrote /\ new.hijacked = r.hijacked
      BY <2>1, MarkInformed
    <3>2. WriteHeader(resp, status) = new
      BY <2>3, <2>4 DEF Sent
    <3> HIDE DEF new
    <3>3. Agrees(new) /\ new.wrote
      BY <2>1, <3>1 DEF Agrees
    <3>4. status \notin FinalStatuses
      BY <2>4 DEF FinalStatuses
    <3>5. QED
      BY <1>2, <2>1, <3>1, <3>2, <3>3, <3>4 DEF Begins
  <2>5. CASE status \notin Informational /\ ~r.hijacked
    <3> DEFINE new == [r EXCEPT !.final = status]
    <3>1. /\ new \in ResponseType /\ new.final = status /\ new.status = r.status
          /\ new.informed = r.informed /\ new.wrote = r.wrote
          /\ new.hijacked = r.hijacked
      <4>1. status \in FinalStatuses
        BY <2>5 DEF FinalStatuses
      <4>2. QED
        BY <2>1, <4>1, MarkFinal
    <3>2. WriteHeader(resp, status) = new
      BY <2>2, <2>3, <2>5 DEF Sent
    <3> HIDE DEF new
    <3>3. QED
      BY <1>2, <2>1, <2>2, <3>1, <3>2, ZenonT(120) DEF Begins, Agrees
  <2>6. QED
    BY <2>4, <2>5, <2>7
<1>3. QED
  BY <1>1, <1>2

LEMMA BodyFacts ==
    ASSUME NEW resp \in ResponseType, Agrees(resp), resp.wrote
    PROVE  /\ Write(resp) \in ResponseType /\ Agrees(Write(resp)) /\ Write(resp).wrote
           /\ Write(resp).status = resp.status /\ Write(resp).informed = resp.informed
           /\ Write(resp).hijacked = resp.hijacked
<1>1. Write(resp) = IF resp.final = 0 /\ ~resp.hijacked THEN [resp EXCEPT !.final = 200]
                    ELSE resp
  BY DEF Write, WriteHeader, Sent, Informational
<1>2. CASE resp.final = 0 /\ ~resp.hijacked
  <2>1. resp.informed
    BY <1>2 DEF Agrees, ResponseType
  <2>2. /\ [resp EXCEPT !.final = 200] \in ResponseType
        /\ [resp EXCEPT !.final = 200].wrote
        /\ [resp EXCEPT !.final = 200].status = resp.status
        /\ [resp EXCEPT !.final = 200].informed
        /\ [resp EXCEPT !.final = 200].hijacked = resp.hijacked
    BY <2>1 DEF ResponseType, FinalStatuses, Informational
  <2>3. QED
    BY <1>1, <1>2, <2>1, <2>2 DEF Agrees
<1>3. QED
  BY <1>1, <1>2

LEMMA AnswerFacts ==
    ASSUME NEW resp \in ResponseType, Agrees(resp), NEW status \in 101..599,
           NEW new \in {WriteHeader(resp, status), Write(WriteHeader(resp, status))}
    PROVE  Begins(resp, status, new)
<1> DEFINE w == WriteHeader(resp, status)
<1>1. Begins(resp, status, w)
  BY HeaderFacts
<1> HIDE DEF w
<1>2. CASE new = w
  BY <1>1, <1>2
<1>3. CASE new = Write(w)
  BY <1>1, <1>3, BodyFacts DEF Begins
<1>4. QED
  BY <1>2, <1>3 DEF w

LEMMA RecordedFacts ==
    ASSUME NEW entry \in LogType, NEW e, e.code \in ErrorCodes, e.cause \in BOOLEAN
    PROVE  /\ Recorded(entry, e) \in LogType
           /\ Recorded(entry, e).code = e.code
           /\ Recorded(entry, e).failure = IF e.cause THEN e.code ELSE entry.failure
BY DEF Recorded, LogType

\* What fail leaves behind, whatever the responder did.
LEMMA FailFacts ==
    ASSUME response \in ResponseType, Agrees(response),
           NEW entry \in LogType, NEW e, Fail(entry, e),
           e.status \in 400..599, e.code \in ErrorCodes, e.cause \in BOOLEAN
    PROVE  /\ at' = "returned"
           /\ \E status \in {e.status, 500} :
                /\ Begins(response, status, response')
                /\ \/ status = e.status /\ log'.code = e.code
                   \/ status = 500 /\ log'.code = "gateway_panic"
           /\ log' \in LogType
           /\ log'.failure = IF e.cause THEN e.code ELSE entry.failure
<1> DEFINE first == Recorded(entry, e)
           second == Recorded(first, ResponderPanic)
<1>1. /\ first \in LogType /\ first.code = e.code
      /\ first.failure = IF e.cause THEN e.code ELSE entry.failure
  BY RecordedFacts
<1>2. second \in LogType /\ second.code = "gateway_panic" /\ second.failure = first.failure
  <2> HIDE DEF first
  <2>1. /\ ResponderPanic.code = "gateway_panic" /\ ResponderPanic.cause = FALSE
        /\ "gateway_panic" \in ErrorCodes
    BY DEF ResponderPanic, Denied, GatewayError, ErrorCodes
  <2>2. QED
    BY <1>1, <2>1, RecordedFacts
<1> HIDE DEF first, second
<1>3. Begins(response, e.status, Write(WriteHeader(response, e.status)))
  BY AnswerFacts
<1>4. ResponderPanic.status = 500
  BY DEF ResponderPanic, Denied, GatewayError
<1>5. Begins(response, 500, Write(WriteHeader(response, 500)))
  BY AnswerFacts
<1>6. response.wrote => Begins(response, e.status, response)
  BY DEF Begins
<1>7. \/ log' = first /\ response' = Write(WriteHeader(response, e.status))
      \/ log' = second /\ response' = Write(WriteHeader(response, 500))
      \/ response.wrote /\ log' = first /\ response' = response
  BY <1>4 DEF Fail, first, second
<1>8. QED
  BY <1>1, <1>2, <1>3, <1>5, <1>6, <1>7 DEF Fail

-----------------------------------------------------------------------------
(* The inductive invariant.                                                *)

Replies ==
    /\ at # "done" => Agrees(response)
    /\ LoggedStatusIsSent

\* The log knows of a failure exactly when a component failed.
Ledger ==
    /\ at \in Stages => log.failure = ""
    /\ at \in {"panicked", "aborted"} => LastVerdict = at
    /\ at = "returned" => (log.failure # "" <=> LastVerdict \in Faults)
    /\ FailuresAreObserved

Vouched ==
    \E i \in 1..Len(trace) :
        trace[i] = [stage |-> "authenticator", verdict |-> "allowed"]

\* Past the authenticator a protected route has been vouched for; what the
\* upstream is given are the headers as they are at the proxy, or none.
Identity ==
    /\ (at \in Stages /\ Rank(at) > 8 /\ route.access = "protected") => Vouched
    /\ at = "proxy" => header = IF route.access = "protected" THEN "trusted" ELSE "none"
    /\ forwarded # "unsent" => at \notin Stages \ {"proxy"}
    /\ IdentityIsVouchedFor

\* Nothing has reached the client that the gateway did not decide.
Bare == origin = 0 /\ ~response.informed /\ ~response.hijacked

Refusals ==
    /\ (at \in Stages /\ Bare) => ~response.wrote
    /\ (at \in {"panicked", "aborted"} /\ Bare /\ Last(trace).stage # "health") =>
          ~response.wrote
    /\ (at = "returned" /\ Bare /\ Last(trace).stage # "health") =>
          /\ LastVerdict = "rejected" =>
                /\ response.wrote /\ response.status \in 400..500 /\ log.code # ""
                /\ response.status = 500 <=> log.code = "gateway_panic"
          /\ LastVerdict \in {"error", "panicked"} =>
                response.wrote /\ response.status \in {413, 500, 502, 503, 504}
    /\ RefusalIsVisible

IInv == TypeOK /\ Order /\ Replies /\ Ledger /\ Identity /\ Refusals

LEMMA RouteSteps ==
    ASSUME TypeOK, [Next]_vars
    PROVE  \/ route' = route
           \/ at = "route" /\ route' \in Routes
BY DEF Next, vars, ResolveRequestID, HandleCORS, AnswerHealth, PassHealth, ResolveRoute,
       ResolveUpstream, ResolveClientIP, Check, LimitClientIP, Authenticate, LimitUser,
       LimitUpstream, ApplyRateLimit, ApplyAuthorizer, ApplyBeforeProxy, ApplyPolicy,
       PrepareForward, Forward, UpstreamInforms, UpstreamAnswers, UpstreamHijacks, UpstreamSwitches,
       UpstreamFails, UpstreamReturns, UpstreamAborts, Upstream, ComponentPanics, RecoverPanic, FinishRequest, Stop

LEMMA HeaderSteps ==
    ASSUME TypeOK, [Next]_vars
    PROVE  \/ header' = header /\ (at' = "proxy" => at = "proxy")
           \/ /\ at = "body" /\ origin' = origin /\ route' = route
              /\ header' = IF route.access = "protected" THEN "trusted" ELSE "none"
<1>1. CASE PrepareForward
  BY <1>1 DEF PrepareForward
<1>2. CASE Next /\ ~PrepareForward
  <2>1. header' = header
    BY <1>2
       DEF Next, ResolveRequestID, HandleCORS, AnswerHealth, PassHealth, ResolveRoute,
           ResolveUpstream, ResolveClientIP, Check, LimitClientIP, Authenticate, LimitUser,
           LimitUpstream, ApplyRateLimit, ApplyAuthorizer, ApplyBeforeProxy, ApplyPolicy,
           Forward, UpstreamInforms, UpstreamAnswers, UpstreamHijacks, UpstreamSwitches,
           UpstreamFails, UpstreamReturns, UpstreamAborts, Upstream, ComponentPanics, RecoverPanic, FinishRequest, Stop, vars
  <2>2. at' = "proxy" => at = "proxy"
    BY <1>2
       DEF Next, ResolveRequestID, HandleCORS, AnswerHealth, PassHealth, ResolveRoute,
           ResolveUpstream, ResolveClientIP, Check, Proceed, Reject, Fail,
           LimitClientIP, Authenticate, LimitUser,
           LimitUpstream, ApplyRateLimit, ApplyAuthorizer, ApplyBeforeProxy, ApplyPolicy,
           Forward, UpstreamInforms, UpstreamAnswers, UpstreamHijacks, UpstreamSwitches,
           UpstreamFails, UpstreamReturns, UpstreamAborts, Upstream, ComponentPanics, PanicKinds, RecoverPanic, FinishRequest, Stop, vars
  <2>3. QED
    BY <2>1, <2>2
<1>3. QED
  BY <1>1, <1>2 DEF vars

\* What a request comes with stays, and only Forward gives it to the upstream.
LEMMA GivenSteps ==
    ASSUME TypeOK, [Next]_vars
    PROVE  named' = named /\ (forwarded' = forwarded \/ Forward)
BY DEF Next, vars, ResolveRequestID, HandleCORS, AnswerHealth, PassHealth, ResolveRoute,
       ResolveUpstream, ResolveClientIP, Check, LimitClientIP, Authenticate, LimitUser,
       LimitUpstream, ApplyRateLimit, ApplyAuthorizer, ApplyBeforeProxy, ApplyPolicy,
       PrepareForward, Forward, UpstreamInforms, UpstreamAnswers, UpstreamHijacks,
       UpstreamSwitches, UpstreamFails, UpstreamReturns, UpstreamAborts, Upstream,
       ComponentPanics, RecoverPanic, FinishRequest, Stop

LEMMA ProperFacts ==
    ASSUME NEW e, Proper(e)
    PROVE  e.status \in 400..599 /\ e.code \in ErrorCodes /\ e.cause \in BOOLEAN
<1>1. e.cause = TRUE \/ e.cause = FALSE
  BY DEF Proper
<1>2. e.status \in 400..599
  BY <1>1 DEF Proper
<1>3. QED
  BY <1>2 DEF Proper, ErrorCodes

\* What a refusal leaves behind.
LEMMA RefuseFacts ==
    ASSUME TypeOK, Agrees(response), Refuses
    PROVE  \E e :
             /\ Proper(e)
             /\ Verdict(IF e.cause THEN "error" ELSE "rejected")
             /\ at' = "returned"
             /\ \E status \in {e.status, 500} :
                  /\ Begins(response, status, response')
                  /\ \/ status = e.status /\ log'.code = e.code
                     \/ status = 500 /\ log'.code = "gateway_panic"
             /\ log' \in LogType
             /\ log'.failure = IF e.cause THEN e.code ELSE log.failure
<1>1. PICK entry, e : Keeps(entry) /\ Proper(e) /\ Reject(entry, e)
  BY DEF Refuses
<1>2. /\ e.status \in 400..599 /\ e.code \in ErrorCodes /\ e.cause \in BOOLEAN
      /\ entry \in LogType /\ entry.failure = log.failure
  BY <1>1, ProperFacts DEF Keeps
<1>3. response \in ResponseType
  BY DEF TypeOK, ResponseType, FinalStatuses
<1>4. Fail(entry, e) /\ Verdict(IF e.cause THEN "error" ELSE "rejected")
  BY <1>1 DEF Reject
<1>5. /\ at' = "returned"
      /\ \E status \in {e.status, 500} :
           /\ Begins(response, status, response')
           /\ \/ status = e.status /\ log'.code = e.code
              \/ status = 500 /\ log'.code = "gateway_panic"
      /\ log' \in LogType
      /\ log'.failure = IF e.cause THEN e.code ELSE entry.failure
  BY <1>2, <1>3, <1>4, FailFacts
<1>6. QED
  BY <1>1, <1>2, <1>4, <1>5

\* What recovering from a panic leaves behind.
LEMMA RecoverFacts ==
    ASSUME TypeOK, Agrees(response), RecoverPanic
    PROVE  /\ at' = "returned" /\ log' \in LogType /\ log'.failure # ""
           /\ UNCHANGED <<conf, named, route, header, forwarded, origin, told, trace>>
           /\ \/ response' = response /\ (at = "panicked" => response.wrote)
              \/ at = "panicked" /\ Begins(response, 500, response')
<1> DEFINE seen == [log EXCEPT !.code = "gateway_panic", !.failure = "gateway_panic"]
           e == GatewayError(500, "gateway_panic", TRUE)
<1>1. response \in ResponseType /\ log \in LogType
  BY DEF TypeOK, ResponseType, FinalStatuses, LogType
<1>2. /\ "gateway_panic" \in ErrorCodes /\ "upstream_stream_aborted" \in ErrorCodes
  BY DEF ErrorCodes
<1>3. seen \in LogType /\ seen.failure = "gateway_panic"
  BY <1>1, <1>2 DEF LogType
<1>4. /\ e.status = 500 /\ e.code = "gateway_panic" /\ e.cause = TRUE
      /\ e.cause \in BOOLEAN
  BY DEF GatewayError
<1> HIDE DEF seen, e
<1>5. CASE at = "panicked" /\ response.wrote
  BY <1>3, <1>5 DEF RecoverPanic, seen
<1>6. CASE at = "panicked" /\ ~response.wrote
  <2>1. Fail(seen, e)
    BY <1>6 DEF RecoverPanic, seen, e
  <2>2. e.status \in 400..599 /\ e.code \in ErrorCodes
    BY <1>2, <1>4
  <2>3. /\ at' = "returned" /\ log' \in LogType
        /\ log'.failure = IF e.cause THEN e.code ELSE seen.failure
        /\ \E status \in {e.status, 500} : Begins(response, status, response')
    BY <1>1, <1>3, <1>4, <2>1, <2>2, FailFacts
  <2>4. log'.failure = "gateway_panic" /\ Begins(response, 500, response')
    BY <1>4, <2>3
  <2>5. UNCHANGED <<conf, named, route, header, forwarded, origin, told, trace>>
    BY DEF RecoverPanic
  <2>6. QED
    BY <1>6, <2>3, <2>4, <2>5
<1>7. CASE at = "aborted"
  <2> DEFINE cut == [log EXCEPT !.code = "upstream_stream_aborted",
                                !.failure = "upstream_stream_aborted"]
  <2>1. cut \in LogType /\ cut.failure = "upstream_stream_aborted"
    BY <1>1, <1>2 DEF LogType
  <2>2. QED
    BY <1>7, <2>1 DEF RecoverPanic
<1>8. QED
  BY <1>5, <1>6, <1>7 DEF RecoverPanic

Observed == {"component_failure", "access_log_failure", "request_completed"}

LEMMA OneMore ==
    ASSUME NEW seen \in Seq(Observed), NEW kind \in Observed
    PROVE  /\ Append(seen, kind) \in Seq(Observed)
           /\ Last(Append(seen, kind)) = kind
           /\ \A x : x \in ToSet(Append(seen, kind)) <=> x \in ToSet(seen) \/ x = kind
           /\ Len(Append(seen, kind)) = Len(seen) + 1
           /\ \A i \in 1..Len(seen) : Append(seen, kind)[i] = seen[i]
BY AppendProperties DEF Last, ToSet

LEMMA ObservationFacts ==
    ASSUME NEW logger
    PROVE  LET seen == Observations(logger)
           IN  /\ seen \in Seq(Observed)
               /\ "component_failure" \in ToSet(seen) <=> log.failure # ""
               /\ Last(seen) = "request_completed"
               /\ \A i \in 1..Len(seen) - 1 : seen[i] # "request_completed"
<1> DEFINE Early(s) == /\ s \in Seq(Observed) /\ "request_completed" \notin ToSet(s)
                       /\ "component_failure" \in ToSet(s) <=> log.failure # ""
<1>1. Early(IF log.failure # "" THEN <<"component_failure">> ELSE <<>>)
  <2>1. /\ <<"component_failure">> \in Seq(Observed) /\ <<>> \in Seq(Observed)
        /\ ToSet(<<"component_failure">>) = {"component_failure"} /\ ToSet(<<>>) = {}
    BY DEF Observed, ToSet
  <2>2. CASE log.failure # ""
    BY <2>1, <2>2
  <2>3. CASE log.failure = ""
    BY <2>1, <2>3
  <2>4. QED
    BY <2>2, <2>3
<1>2. PICK s : /\ Early(s)
               /\ Observations(logger) =
                    Append(IF logger = "fails" THEN Append(s, "access_log_failure") ELSE s,
                           "request_completed")
  BY <1>1 DEF Observations
<1>3. PICK t : Early(t) /\ Observations(logger) = Append(t, "request_completed")
  <2>1. CASE logger = "fails"
    <3>1. Early(Append(s, "access_log_failure"))
      BY <1>2, OneMore DEF Observed
    <3>2. QED
      BY <1>2, <2>1, <3>1
  <2>2. CASE logger # "fails"
    BY <1>2, <2>2
  <2>3. QED
    BY <2>1, <2>2
<1>4. ASSUME NEW i \in 1..Len(t) PROVE t[i] # "request_completed"
  <2>1. DOMAIN t = 1..Len(t) /\ t \in Seq(Observed)
    BY <1>3, LenProperties
  <2>2. t[i] \in ToSet(t)
    BY <2>1 DEF ToSet
  <2>3. QED
    BY <1>3, <2>2
<1> DEFINE seen == Append(t, "request_completed")
<1>5. /\ seen \in Seq(Observed) /\ Last(seen) = "request_completed"
      /\ \A x : x \in ToSet(seen) <=> x \in ToSet(t) \/ x = "request_completed"
      /\ Len(seen) = Len(t) + 1 /\ \A i \in 1..Len(t) : seen[i] = t[i]
  BY <1>3, OneMore DEF Observed
<1> HIDE DEF seen
<1>6. \A i \in 1..Len(seen) - 1 : seen[i] # "request_completed"
  <2>1. Len(t) \in Nat
    BY <1>3, LenProperties
  <2>2. QED
    BY <1>4, <1>5, <2>1
<1>7. Observations(logger) = seen
  BY <1>3 DEF seen
<1>8. QED
  BY <1>3, <1>5, <1>6, <1>7

LEMMA FinishFacts ==
    ASSUME TypeOK, Agrees(response), FinishRequest
    PROVE  /\ at = "returned" /\ at' = "done"
           /\ UNCHANGED <<conf, named, route, header, forwarded, origin, trace>>
           /\ response' \in ResponseType
           /\ response'.status = response.status /\ response'.informed = response.informed
           /\ response'.hijacked = response.hijacked
           /\ (~response.informed /\ ~response.hijacked) => response'.final = response.status
           /\ log' \in LogType
           /\ log'.status = response.status /\ log'.failure = log.failure
           /\ log'.written = ~Skipped
           /\ log.code # "" => log'.code = log.code
           /\ \E logger : told' = Observations(logger)
<1>1. response \in ResponseType /\ log \in LogType
  BY DEF TypeOK, ResponseType, FinalStatuses, LogType
<1>2. /\ response' \in ResponseType
      /\ response'.status = response.status /\ response'.informed = response.informed
      /\ response'.hijacked = response.hijacked
      /\ (~response.informed /\ ~response.hijacked) => response'.final = response.status
  <2>1. response' = IF response.final = 0 /\ ~response.hijacked
                    THEN [response EXCEPT !.final = 200] ELSE response
    BY DEF FinishRequest, Sent, Informational
  <2>2. 200 \in FinalStatuses
    BY DEF FinalStatuses, Informational
  <2>3. CASE response.final = 0 /\ ~response.hijacked
    <3>1. /\ response' \in ResponseType /\ response'.final = 200
          /\ response'.status = response.status /\ response'.informed = response.informed
          /\ response'.hijacked = response.hijacked
      BY <1>1, <2>1, <2>2, <2>3, MarkFinal
    <3>2. ~response.informed => response.status = 200
      BY <1>1, <2>3 DEF Agrees, ResponseType
    <3>3. QED
      BY <3>1, <3>2
  <2>4. CASE response.final # 0 \/ response.hijacked
    BY <1>1, <2>1, <2>4 DEF Agrees
  <2>5. QED
    BY <2>3, <2>4
<1>3. /\ log' \in LogType
      /\ log'.status = response.status /\ log'.failure = log.failure
      /\ log'.written = ~Skipped
      /\ log.code # "" => log'.code = log.code
  <2> DEFINE code == IF log.code = "" THEN DefaultErrorCode(response.status) ELSE log.code
             written == ~Skipped
  <2>1. DefaultErrorCode(response.status) \in ErrorCodes
    BY <1>1 DEF DefaultErrorCode, ErrorCodes, StageErrors, ResponseType
  <2>2. code \in ErrorCodes
    BY <1>1, <2>1 DEF LogType
  <2>3. written \in BOOLEAN
    BY DEF Skipped
  <2>4. response.status \in 0..599
    BY <1>1 DEF ResponseType
  <2>5. log' = [log EXCEPT !.status = response.status, !.written = written, !.code = code]
    BY DEF FinishRequest
  <2>6. log.code # "" => code = log.code
    OBVIOUS
  <2> HIDE DEF code, written
  <2>7. log' \in LogType /\ log'.status = response.status /\ log'.failure = log.failure
        /\ log'.written = written /\ log'.code = code
    BY <1>1, <2>2, <2>3, <2>4, <2>5, ZenonT(120) DEF LogType
  <2>8. QED
    BY <2>6, <2>7 DEF written
<1>4. QED
  BY <1>2, <1>3 DEF FinishRequest

-----------------------------------------------------------------------------
(* Every step keeps the invariant.                                         *)

LEMMA LastFacts ==
    ASSUME TypeOK, NEW verdict \in Verdicts, at \in Stages, Verdict(verdict)
    PROVE  LastVerdict' = verdict /\ Last(trace)'.stage = at
<1>1. /\ Len(trace') = Len(trace) + 1
      /\ trace'[Len(trace) + 1] = [stage |-> at, verdict |-> verdict]
  BY VerdictFacts
<1>2. Last(trace)' = [stage |-> at, verdict |-> verdict]
  BY <1>1 DEF Last
<1>3. QED
  BY <1>2 DEF LastVerdict

\* Every writer of a response begins it, or finds it begun.
LEMMA WritersBegin ==
    ASSUME TypeOK, Agrees(response)
    PROVE  /\ AnswersItself => \E status \in {200, 204} : Begins(response, status, response')
           /\ Panics => response' = response \/ (at = "health" /\ Begins(response, 200, response'))
           /\ UpstreamWrites =>
                \/ origin' = origin /\ Begins(response, 103, response')
                \/ \E status \in UpstreamStatuses :
                     /\ origin' = (IF origin = 0 THEN status ELSE origin)
                     /\ Begins(response, status, response')
<1>1. response \in ResponseType /\ UpstreamStatuses \subseteq 101..599
  BY GatewayConstants DEF TypeOK, ResponseType, FinalStatuses
<1>2. \A status \in 101..599 :
        /\ Begins(response, status, WriteHeader(response, status))
        /\ Begins(response, status, Write(WriteHeader(response, status)))
  BY <1>1, AnswerFacts
<1>3. /\ Begins(response, 200, Write(WriteHeader(response, 200)))
      /\ Begins(response, 204, WriteHeader(response, 204))
      /\ Begins(response, 103, WriteHeader(response, 103))
  <2>1. 200 \in 101..599 /\ 204 \in 101..599 /\ 103 \in 101..599
    OBVIOUS
  <2>2. QED
    BY <1>2, <2>1, Zenon
<1>4. AnswersItself => \E status \in {200, 204} : Begins(response, status, response')
  BY <1>3 DEF AnswersItself
<1>5. ASSUME Panics
      PROVE  response' = response \/ (at = "health" /\ Begins(response, 200, response'))
  BY <1>3, <1>5 DEF Panics
<1>6. ASSUME UpstreamWrites
      PROVE  \/ origin' = origin /\ Begins(response, 103, response')
             \/ \E status \in UpstreamStatuses :
                  /\ origin' = (IF origin = 0 THEN status ELSE origin)
                  /\ Begins(response, status, response')
  <2>1. CASE origin' = origin /\ response' = WriteHeader(response, 103)
    BY <1>3, <2>1
  <2>2. ASSUME NEW status \in UpstreamStatuses,
               origin' = (IF origin = 0 THEN status ELSE origin),
               response' \in {WriteHeader(response, status),
                              Write(WriteHeader(response, status))}
        PROVE  Begins(response, status, response')
    <3>1. status \in 101..599
      BY <1>1
    <3>2. /\ Begins(response, status, WriteHeader(response, status))
          /\ Begins(response, status, Write(WriteHeader(response, status)))
      BY <1>2, <3>1
    <3>3. QED
      BY <2>2, <3>2
  <2>3. QED
    BY <1>6, <2>1, <2>2 DEF UpstreamWrites
<1>7. QED
  BY <1>4, <1>5, <1>6

\* A hijack leaves the recorder as it was.
LEMMA HijackFacts ==
    ASSUME response \in ResponseType, Agrees(response), Hijacks
    PROVE  /\ response' \in ResponseType /\ Agrees(response') /\ response'.hijacked
           /\ origin' \in {origin} \cup UpstreamStatuses
           /\ at = "proxy" /\ at' = "proxy" /\ UNCHANGED <<trace, log, told>>
<1>1. CASE response' = [response EXCEPT !.hijacked = TRUE] /\ origin' = origin
  <2>1. /\ response' \in ResponseType /\ response'.hijacked = TRUE
        /\ response'.wrote = response.wrote /\ response'.status = response.status
        /\ response'.informed = response.informed
    BY <1>1 DEF ResponseType
  <2>2. QED
    BY <1>1, <2>1 DEF Agrees, Hijacks
<1>2. CASE /\ response' = [response EXCEPT !.final = 101] /\ response.hijacked
           /\ 101 \in UpstreamStatuses /\ origin' = 101
  <2>1. 101 \in FinalStatuses
    BY DEF FinalStatuses, Informational
  <2>2. /\ response' \in ResponseType /\ response'.hijacked = response.hijacked
        /\ response'.wrote = response.wrote /\ response'.status = response.status
        /\ response'.informed = response.informed
    BY <1>2, <2>1, MarkFinal
  <2>3. QED
    BY <1>2, <2>2 DEF Agrees, Hijacks
<1>3. QED
  BY <1>1, <1>2 DEF Hijacks

LEMMA TypeKept ==
    ASSUME TypeOK, Replies, [Next]_vars
    PROVE  TypeOK'
<1> USE StagesAre
<1>1. /\ conf' \subseteq Components /\ at' \in Stages \cup Ended
      /\ trace' \in Seq([stage : Stages, verdict : Verdicts])
  <2>1. CASE Stays \/ UNCHANGED vars
    BY <2>1 DEF TypeOK, Stays, vars, Ended
  <2>2. ASSUME NEW verdict \in Verdicts, Passes(verdict) \/ Ends(verdict) PROVE <1>1
    BY <2>2, VerdictFacts, ZenonT(120) DEF TypeOK, Passes, Ends, Ended
  <2>3. QED
    BY <2>1, <2>2, Kinds DEF Leaves
<1>2. route' \in Routes \cup {NoRoute}
  BY RouteSteps DEF TypeOK
<1>3. header' \in {"none", "client", "trusted"}
  BY HeaderSteps DEF TypeOK
<1>7. named' \in BOOLEAN /\ forwarded' \in {"unsent", "none", "client", "trusted"}
  BY GivenSteps DEF TypeOK, Forward
<1>4. response \in ResponseType /\ log \in LogType /\ UpstreamStatuses \subseteq FinalStatuses
  BY GatewayConstants DEF TypeOK, ResponseType, FinalStatuses, LogType
<1>5. /\ response' \in ResponseType /\ log' \in LogType
      /\ origin' \in {0} \cup UpstreamStatuses /\ told' \in Seq(Observed)
  <2>1. origin \in {0} \cup UpstreamStatuses /\ told \in Seq(Observed)
    BY DEF TypeOK, Observed
  <2>2. CASE UNCHANGED vars
    BY <1>4, <2>1, <2>2 DEF vars
  <2>3. CASE Forwards \/ UpstreamEnds \/ Forward
    BY <1>4, <2>1, <2>3 DEF Forwards, UpstreamEnds, Keeps, Forward
  <2>4. ASSUME at # "done" PROVE Agrees(response)
    BY <2>4 DEF Replies
  <2>5. CASE Refuses
    BY <2>1, <2>4, <2>5, RefuseFacts DEF Refuses, Begins
  <2>6. CASE AnswersItself \/ Panics
    BY <1>4, <2>1, <2>4, <2>6, WritersBegin
       DEF AnswersItself, Panics, Keeps, Begins
  <2>7. CASE UpstreamWrites
    <3>1. at # "done" /\ log' = log /\ told' = told
      BY <2>7 DEF UpstreamWrites
    <3>2. response' \in ResponseType /\ origin' \in {0} \cup UpstreamStatuses
      BY <2>1, <2>4, <2>7, <3>1, WritersBegin DEF Begins
    <3>3. QED
      BY <1>4, <2>1, <3>1, <3>2
  <2>8. CASE RecoverPanic
    BY <1>4, <2>1, <2>4, <2>8, RecoverFacts DEF RecoverPanic, Begins
  <2>9. CASE FinishRequest
    <3>1. Agrees(response)
      BY <2>4, <2>9 DEF FinishRequest
    <3>2. QED
      BY <2>1, <2>9, <3>1, FinishFacts, ObservationFacts
  <2>11. CASE Hijacks
    BY <1>4, <2>1, <2>4, <2>11, HijackFacts DEF Hijacks
  <2>10. QED
    BY <2>11, <2>2, <2>3, <2>5, <2>6, <2>7, <2>8, <2>9, Effects
<1>6. QED
  BY <1>1, <1>2, <1>3, <1>5, <1>7
     DEF TypeOK, ResponseType, LogType, FinalStatuses, Observed, Ended

LEMMA RepliesKept ==
    ASSUME TypeOK, Replies, [Next]_vars
    PROVE  Replies'
<1> USE StagesAre
<1>1. response \in ResponseType /\ UpstreamStatuses \subseteq FinalStatuses
  BY GatewayConstants DEF TypeOK, ResponseType, FinalStatuses
<1>2. CASE UNCHANGED vars
  BY <1>2 DEF Replies, LoggedStatusIsSent, Done, Agrees, vars
<1>3. SUFFICES ASSUME ~UNCHANGED vars, at # "done", Agrees(response)
               PROVE  /\ at' # "done" => Agrees(response')
                      /\ at' = "done" => ((~response'.informed /\ ~response'.hijacked)
                                          => log'.status = response'.final)
  <2>1. CASE at = "done"
    BY <2>1, Effects
       DEF Forwards, Refuses, AnswersItself, Panics, Forward, UpstreamWrites, Hijacks,
           UpstreamEnds, RecoverPanic, FinishRequest, Replies, LoggedStatusIsSent, Done, Agrees, vars
  <2>2. QED
    BY <1>2, <2>1 DEF Replies, LoggedStatusIsSent, Done, Agrees
<1>4. CASE Forwards \/ UpstreamEnds \/ Forward
  BY <1>3, <1>4 DEF Forwards, UpstreamEnds, Forward
<1>11. CASE Hijacks
  BY <1>1, <1>3, <1>11, HijackFacts
<1>5. CASE Refuses
  BY <1>3, <1>5, RefuseFacts DEF Begins
<1>6. CASE AnswersItself \/ Panics
  BY <1>3, <1>6, WritersBegin DEF AnswersItself, Panics, PanicKinds, Begins
<1>7. CASE UpstreamWrites
  <2>1. Agrees(response')
    BY <1>3, <1>7, WritersBegin DEF Begins
  <2>2. QED
    BY <1>7, <2>1 DEF UpstreamWrites
<1>8. CASE RecoverPanic
  BY <1>3, <1>8, RecoverFacts DEF Begins
<1>9. CASE FinishRequest
  BY <1>3, <1>9, FinishFacts
<1>10. QED
  BY <1>3, <1>4, <1>5, <1>6, <1>7, <1>8, <1>9, <1>11, Effects

LEMMA LedgerKept ==
    ASSUME TypeOK, Replies, Ledger, [Next]_vars
    PROVE  Ledger'
<1> USE StagesAre
<1>1. CASE UNCHANGED vars
  BY <1>1, ZenonT(120) DEF Ledger, FailuresAreObserved, LastVerdict, Done, Skipped, vars
<1>2. CASE at = "done"
  BY <1>1, <1>2, Effects
     DEF Forwards, Refuses, AnswersItself, Panics, Forward, UpstreamWrites, Hijacks,
         UpstreamEnds, RecoverPanic, FinishRequest
<1>3. CASE Forwards
  BY <1>3 DEF Ledger, FailuresAreObserved, Done, Forwards, Keeps
<1>4. CASE Refuses
  <2>1. Agrees(response) /\ at \in Stages /\ log.failure = ""
    BY <1>4 DEF Replies, Refuses, Ledger
  <2>2. PICK e : /\ Proper(e) /\ Verdict(IF e.cause THEN "error" ELSE "rejected")
                 /\ at' = "returned"
                 /\ log'.failure = IF e.cause THEN e.code ELSE log.failure
    BY <1>4, <2>1, RefuseFacts
  <2>3. e.code # "" /\ (e.cause = TRUE \/ e.cause = FALSE)
    BY <2>2 DEF Proper, StageErrors
  <2>4. CASE e.cause = TRUE
    <3>1. LastVerdict' = "error"
      BY <2>1, <2>2, <2>4, LastFacts DEF Verdicts
    <3>2. log'.failure = e.code
      BY <2>2, <2>4
    <3>3. QED
      BY <2>2, <2>3, <3>1, <3>2, StagesAre DEF Ledger, FailuresAreObserved, Done, Faults
  <2>5. CASE e.cause = FALSE
    <3>1. LastVerdict' = "rejected"
      BY <2>1, <2>2, <2>5, LastFacts DEF Verdicts
    <3>2. QED
      BY <2>1, <2>2, <2>5, <3>1 DEF Ledger, FailuresAreObserved, Done, Faults
  <2>6. QED
    BY <2>3, <2>4, <2>5
<1>5. CASE AnswersItself
  <2>1. LastVerdict' = "answered"
    BY <1>5, LastFacts DEF AnswersItself, Verdicts
  <2>2. QED
    BY <1>5, <2>1 DEF Ledger, FailuresAreObserved, Done, AnswersItself, Keeps, Faults
<1>6. CASE Panics
  <2>1. LastVerdict' = at' /\ at' \in {"panicked", "aborted"}
    BY <1>6, LastFacts DEF Panics, PanicKinds, Verdicts
  <2>2. QED
    BY <1>6, <2>1 DEF Ledger, FailuresAreObserved, Done, Panics
<1>7. CASE Forward \/ UpstreamWrites \/ Hijacks
  BY <1>7 DEF Ledger, FailuresAreObserved, Done, Forward, UpstreamWrites, Hijacks
<1>8. CASE UpstreamEnds
  <2>1. LastVerdict' = IF at' = "returned" THEN "allowed" ELSE "aborted"
    BY <1>8, LastFacts DEF UpstreamEnds, Verdicts
  <2>2. QED
    BY <1>8, <2>1 DEF Ledger, FailuresAreObserved, Done, UpstreamEnds, Faults
<1>9. CASE RecoverPanic
  <2>1. Agrees(response) /\ at \in {"panicked", "aborted"}
    BY <1>9 DEF RecoverPanic, Replies
  <2>2. at' = "returned" /\ log'.failure # "" /\ trace' = trace
    BY <1>9, <2>1, RecoverFacts
  <2>3. LastVerdict' = at
    BY <2>1, <2>2 DEF Ledger, LastVerdict
  <2>4. QED
    BY <2>1, <2>2, <2>3 DEF Ledger, FailuresAreObserved, Done, Faults
<1>10. CASE FinishRequest
  <2>1. Agrees(response) /\ at = "returned"
    BY <1>10 DEF FinishRequest, Replies
  <2>2. /\ at' = "done" /\ trace' = trace /\ conf' = conf /\ log'.written = ~Skipped
        /\ response'.status = response.status
        /\ \E logger : told' = Observations(logger)
    BY <1>10, <2>1, FinishFacts
  <2>3. /\ "component_failure" \in ToSet(told') <=> LastVerdict' \in Faults
        /\ Last(told') = "request_completed"
        /\ \A i \in 1..Len(told') - 1 : told'[i] # "request_completed"
    BY <2>1, <2>2, ObservationFacts DEF Ledger, LastVerdict
  <2>4. (response'.status >= 400 /\ "access_logger" \in conf') => log'.written
    <3>1. response.status \in 100..599
      BY DEF TypeOK
    <3>2. (response.status >= 400 /\ "access_logger" \in conf) => ~Skipped
      BY <3>1 DEF Skipped
    <3>3. QED
      BY <2>2, <3>2
  <2>5. QED
    BY <2>2, <2>3, <2>4 DEF Ledger, FailuresAreObserved, Done
<1>11. QED
  BY <1>1, <1>2, <1>3, <1>4, <1>5, <1>6, <1>7, <1>8, <1>9, <1>10, Effects

LEMMA VouchedStays ==
    ASSUME TypeOK, Vouched, [Next]_vars
    PROVE  Vouched'
<1>1. CASE trace' = trace
  BY <1>1 DEF Vouched
<1>2. ASSUME NEW verdict \in Verdicts, at \in Stages, Verdict(verdict) PROVE Vouched'
  <2>1. PICK i \in 1..Len(trace) :
          trace[i] = [stage |-> "authenticator", verdict |-> "allowed"]
    BY DEF Vouched
  <2>2. /\ Len(trace') = Len(trace) + 1 /\ Len(trace) \in Nat
        /\ \A k \in 1..Len(trace) : trace'[k] = trace[k]
    BY <1>2, VerdictFacts
  <2>3. i \in 1..Len(trace') /\ trace'[i] = trace[i]
    BY <2>2
  <2>4. QED
    BY <2>1, <2>3 DEF Vouched
<1>3. QED
  BY <1>1, <1>2, Kinds DEF Leaves, Stays, Passes, Ends, vars

LEMMA AuthenticatorVouches ==
    ASSUME TypeOK, Next, at = "authenticator", at' \in Stages \ {"authenticator"},
           route.access = "protected"
    PROVE  Vouched'
<1>1. Verdict("allowed")
  <2>1. Authenticate \/ ComponentPanics
    BY DEF Next, vars, ResolveRequestID, HandleCORS, AnswerHealth, PassHealth, ResolveRoute,
           ResolveUpstream, ResolveClientIP, Check, LimitClientIP, LimitUser,
           LimitUpstream, ApplyRateLimit, ApplyAuthorizer, ApplyBeforeProxy, ApplyPolicy,
           PrepareForward, Forward, UpstreamInforms, UpstreamAnswers, UpstreamHijacks,
           UpstreamSwitches, UpstreamFails, UpstreamReturns, UpstreamAborts, Upstream, RecoverPanic, FinishRequest, Stop
  <2>2. QED
    BY <2>1, StagesAre DEF Authenticate, Reject, Fail, ComponentPanics, PanicKinds,
                             Proceed
<1>2. /\ Len(trace) + 1 \in 1..Len(trace')
      /\ trace'[Len(trace) + 1] = [stage |-> "authenticator", verdict |-> "allowed"]
  BY <1>1, StagesAre, VerdictFacts DEF Verdicts
<1>3. QED
  BY <1>2 DEF Vouched

LEMMA IdentityKept ==
    ASSUME TypeOK, Identity, [Next]_vars
    PROVE  Identity'
<1> USE StagesAre
<1>1. CASE UNCHANGED vars
  BY <1>1 DEF Identity, IdentityIsVouchedFor, OwnHandler, Vouched, vars
<1>2. SUFFICES ASSUME Next, ~UNCHANGED vars PROVE Identity'
  BY <1>1
<1>3. Vouched => Vouched'
  BY VouchedStays
<1>4. \/ at' \in Stages /\ Rank(at') > 8 /\ at \in Stages /\ Rank(at) > 8 /\ route' = route
      \/ at' \in Stages /\ at = "authenticator" /\ at' # "authenticator" /\ route' = route
      \/ at' \in Stages /\ Rank(at') <= 8
      \/ at' \notin Stages
  <2>1. CASE Stays
    BY <2>1, <1>2 DEF Stays, Ended, Rank
  <2>2. ASSUME NEW verdict \in Verdicts, Passes(verdict) PROVE <1>4
    <3>1. at \in Stages /\ at' \in Stages /\ (at # "route" => route' = route)
          /\ Rank(at') = Rank(at) + (IF at = "authenticator" /\ route.access = "public"
                                     THEN 2 ELSE 1)
      BY <2>2 DEF Passes
    <3>2. QED
      BY <3>1 DEF Rank
  <2>3. ASSUME NEW verdict \in Verdicts, Ends(verdict) PROVE <1>4
    BY <2>3 DEF Ends, Ended
  <2>4. QED
    BY <1>2, <2>1, <2>2, <2>3, Kinds DEF Leaves
<1>5. (at' \in Stages /\ Rank(at') > 8 /\ route'.access = "protected") => Vouched'
  <2>1. SUFFICES ASSUME at' \in Stages, Rank(at') > 8, route'.access = "protected"
                 PROVE  Vouched'
    OBVIOUS
  <2>2. CASE at \in Stages /\ Rank(at) > 8 /\ route' = route
    BY <1>3, <2>1, <2>2 DEF Identity
  <2>3. CASE at = "authenticator" /\ at' # "authenticator" /\ route' = route
    BY <1>2, <2>1, <2>3, AuthenticatorVouches
  <2>4. QED
    <3>1. Rank(at') \in Nat
      BY <2>1 DEF Rank
    <3>2. QED
      BY <1>4, <2>1, <2>2, <2>3, <3>1
<1>7. at \in {"proxy"} \cup Ended => at' \notin Stages \ {"proxy"}
  <2>1. SUFFICES ASSUME at \in {"proxy"} \cup Ended PROVE at' \notin Stages \ {"proxy"}
    OBVIOUS
  <2>2. CASE Stays
    BY <2>2 DEF Stays, Ended
  <2>3. ASSUME NEW verdict \in Verdicts, Passes(verdict) PROVE FALSE
    BY <2>1, <2>3 DEF Passes, Rank, Ended
  <2>4. ASSUME NEW verdict \in Verdicts, Ends(verdict) PROVE at' \in Ended
    BY <2>4 DEF Ends
  <2>5. QED
    BY <1>2, <2>2, <2>3, <2>4, Kinds DEF Leaves, Ended
<1>6. conf' = conf /\ named' = named
  BY <1>2, GivenSteps, Kinds DEF Leaves, Stays, Passes, Ends
<1>8. CASE Forward
  <2>1. /\ at = "proxy" /\ UNCHANGED <<conf, named, at, route, header, trace>>
        /\ forwarded' = IF named /\ ~OwnHandler THEN "none" ELSE header
    BY <1>8 DEF Forward
  <2>2. header = IF route.access = "protected" THEN "trusted" ELSE "none"
    BY <2>1 DEF Identity
  <2>3. route.access = "protected" => Vouched
    BY <2>1 DEF Identity, Rank
  <2>4. IdentityIsVouchedFor'
    BY <2>1, <2>2, <2>3 DEF IdentityIsVouchedFor, Vouched, OwnHandler, TypeOK
  <2>5. QED
    BY <1>5, <2>1, <2>2, <2>4 DEF Identity
<1>9. CASE forwarded' = forwarded
  <2>1. at' = "proxy" => header' = IF route'.access = "protected" THEN "trusted" ELSE "none"
    BY HeaderSteps, RouteSteps DEF Identity
  <2>2. ASSUME forwarded # "unsent"
        PROVE  at' \notin Stages \ {"proxy"} /\ IdentityIsVouchedFor'
    <3>1. at \in {"proxy"} \cup Ended
      BY <2>2 DEF Identity, TypeOK, Ended
    <3>2. route' = route
      BY <3>1, RouteSteps DEF Ended
    <3>3. DOMAIN trace = 1..Len(trace)
      BY DEF TypeOK
    <3>4. DOMAIN trace' = 1..Len(trace')
      <4>1. trace' \in Seq([stage : Stages, verdict : Verdicts])
        BY Kinds, VerdictFacts, ZenonT(60) DEF Leaves, Stays, Passes, Ends, TypeOK, vars
      <4>2. QED
        BY <4>1
    <3>5. QED
      BY <1>3, <1>6, <1>7, <1>9, <2>2, <3>1, <3>2, <3>3, <3>4
         DEF Identity, IdentityIsVouchedFor, Vouched, OwnHandler
  <2>3. QED
    BY <1>5, <1>9, <2>1, <2>2 DEF Identity, IdentityIsVouchedFor
<1>10. QED
  BY <1>8, <1>9, GivenSteps

LEMMA RefusalsKept ==
    ASSUME TypeOK, Replies, Ledger, Refusals, [Next]_vars
    PROVE  Refusals'
<1> USE StagesAre
<1>1. CASE UNCHANGED vars
  <2>1. /\ at' = at /\ response' = response /\ log' = log /\ origin' = origin
        /\ Last(trace)' = Last(trace)
    BY <1>1 DEF vars
  <2>2. (Bare' <=> Bare) /\ LastVerdict' = LastVerdict
    BY <2>1 DEF Bare, LastVerdict
  <2>3. RefusalIsVisible'
    BY <2>1, <2>2 DEF Refusals, RefusalIsVisible, Done
  <2>4. /\ (at \in Stages /\ Bare)' => ~response'.wrote
        /\ (at' \in {"panicked", "aborted"} /\ Bare' /\ Last(trace)'.stage # "health") =>
              ~response'.wrote
    BY <2>1, <2>2, ZenonT(120) DEF Refusals
  <2>5. log'.code = log.code /\ (response'.wrote <=> response.wrote) /\ response'.status = response.status
    BY <2>1
  <2>6. (at' = "returned" /\ Bare' /\ Last(trace)'.stage # "health") =>
            /\ LastVerdict' = "rejected" =>
                 /\ response'.wrote /\ response'.status \in 400..500 /\ log'.code # ""
                 /\ response'.status = 500 <=> log'.code = "gateway_panic"
            /\ LastVerdict' \in {"error", "panicked"} =>
                 response'.wrote /\ response'.status \in {413, 500, 502, 503, 504}
    <3>1. SUFFICES ASSUME at' = "returned", Bare', Last(trace)'.stage # "health"
                   PROVE  /\ LastVerdict' = "rejected" =>
                               /\ response'.wrote /\ response'.status \in 400..500 /\ log'.code # ""
                               /\ response'.status = 500 <=> log'.code = "gateway_panic"
                          /\ LastVerdict' \in {"error", "panicked"} =>
                               response'.wrote /\ response'.status \in {413, 500, 502, 503, 504}
      BY ZenonT(120)
    <3>2. at = "returned" /\ Bare /\ Last(trace).stage # "health"
      BY <2>1, <2>2, <3>1
    <3>3. /\ LastVerdict = "rejected" =>
               /\ response.wrote /\ response.status \in 400..500 /\ log.code # ""
               /\ response.status = 500 <=> log.code = "gateway_panic"
          /\ LastVerdict \in {"error", "panicked"} =>
               response.wrote /\ response.status \in {413, 500, 502, 503, 504}
      BY <3>2 DEF Refusals
    <3>4. CASE LastVerdict = "rejected"
      <4>1. response'.wrote /\ response'.status \in 400..500 /\ log'.code # ""
        BY <2>5, <3>3, <3>4, ZenonT(120)
      <4>2. response'.status = 500 <=> log'.code = "gateway_panic"
        BY <2>5, <3>3, <3>4, ZenonT(120)
      <4>3. LastVerdict' \notin {"error", "panicked"}
        BY <2>2, <3>4
      <4>4. QED
        BY <4>1, <4>2, <4>3
    <3>5. CASE LastVerdict \in {"error", "panicked"}
      <4>1. response'.wrote /\ response'.status \in {413, 500, 502, 503, 504}
        BY <2>5, <3>3, <3>5, ZenonT(120)
      <4>2. LastVerdict' # "rejected"
        BY <2>2, <3>5
      <4>3. QED
        BY <4>1, <4>2
    <3>6. QED
      BY <2>2, <3>4, <3>5
  <2>7. QED
    BY <2>3, <2>4, <2>6, ZenonT(120) DEF Refusals
<1>2. CASE at = "done"
  BY <1>1, <1>2, Effects
     DEF Forwards, Refuses, AnswersItself, Panics, Forward, UpstreamWrites, Hijacks,
         UpstreamEnds, RecoverPanic, FinishRequest
<1>3. CASE Forwards
  BY <1>3, ZenonT(120) DEF Refusals, RefusalIsVisible, Done, Bare, Forwards
<1>4. CASE Refuses
  <2>1. Agrees(response) /\ at \in Stages /\ origin' = origin
    BY <1>4 DEF Replies, Refuses
  <2>2. PICK e : /\ Proper(e) /\ Verdict(IF e.cause THEN "error" ELSE "rejected")
                 /\ at' = "returned"
                 /\ \E status \in {e.status, 500} :
                      /\ Begins(response, status, response')
                      /\ \/ status = e.status /\ log'.code = e.code
                         \/ status = 500 /\ log'.code = "gateway_panic"
    BY <1>4, <2>1, RefuseFacts
  <2>3. e.code \notin {"", "gateway_panic"} /\ (e.cause = TRUE \/ e.cause = FALSE)
    BY <2>2 DEF Proper, StageErrors
  <2>4. Bare' => Bare /\ ~response.wrote
    <3>1. Bare' => origin = 0 /\ ~response'.informed /\ ~response'.hijacked
      BY <2>1 DEF Bare
    <3>2. /\ ~response'.informed => ~response.informed
          /\ response'.hijacked = response.hijacked
      BY <2>1, <2>2 DEF Begins, Agrees
    <3>3. QED
      BY <2>1, <3>1, <3>2 DEF Bare, Refusals
  <2>5. Bare' => /\ response'.wrote
                 /\ \/ response'.status = e.status /\ log'.code = e.code
                    \/ response'.status = 500 /\ log'.code = "gateway_panic"
    BY <2>2, <2>4 DEF Begins
  <2>6. CASE e.cause = TRUE
    <3>1. LastVerdict' = "error"
      BY <2>1, <2>2, <2>6, LastFacts DEF Verdicts
    <3>2. e.status \in {413, 502, 503, 504}
      BY <2>2, <2>6 DEF Proper
    <3>3. Bare' => response'.wrote /\ response'.status \in {413, 500, 502, 503, 504}
      BY <2>5, <3>2
    <3>4. QED
      BY <2>2, <3>1, <3>3, ZenonT(120) DEF Refusals, RefusalIsVisible, Done
  <2>7. CASE e.cause = FALSE
    <3>1. LastVerdict' = "rejected"
      BY <2>1, <2>2, <2>7, LastFacts DEF Verdicts
    <3>2. e.status \in 400..499
      BY <2>2, <2>7 DEF Proper
    <3>3. Bare' => /\ response'.wrote /\ response'.status \in 400..500 /\ log'.code # ""
                   /\ response'.status = 500 <=> log'.code = "gateway_panic"
      <4>1. CASE response'.status = e.status /\ log'.code = e.code
        <5>1. response'.status \in 400..500 /\ response'.status # 500
          BY <3>2, <4>1
        <5>2. log'.code # "" /\ log'.code # "gateway_panic"
          BY <2>3, <4>1
        <5>3. Bare' => response'.wrote
          BY <2>5
        <5>4. QED
          BY <5>1, <5>2, <5>3
      <4>2. CASE response'.status = 500 /\ log'.code = "gateway_panic"
        BY <2>5, <4>2
      <4>3. QED
        BY <2>5, <4>1, <4>2
    <3>4. QED
      BY <2>2, <3>1, <3>3, ZenonT(120) DEF Refusals, RefusalIsVisible, Done
  <2>8. QED
    BY <2>3, <2>6, <2>7
<1>5. CASE AnswersItself
  <2>1. LastVerdict' = "answered"
    BY <1>5, LastFacts DEF AnswersItself, Verdicts
  <2>2. QED
    BY <1>5, <2>1, ZenonT(120) DEF Refusals, RefusalIsVisible, Done, AnswersItself
<1>6. CASE Panics
  <2>1. /\ Last(trace)'.stage = at
        /\ at \in Stages /\ at' \in {"panicked", "aborted"} /\ origin' = origin
    BY <1>6, LastFacts DEF Panics, PanicKinds, Verdicts
  <2>2. response' = response \/ at = "health"
    BY <1>6 DEF Panics
  <2>3. QED
    BY <2>1, <2>2 DEF Refusals, RefusalIsVisible, Done, Bare
<1>7. CASE UpstreamWrites
  <2>1. Agrees(response) /\ at = "proxy" /\ at' = "proxy"
    BY <1>7 DEF UpstreamWrites, Replies
  <2>2. ~Bare'
    <3>1. CASE Bare
      <4>1. ~response.wrote /\ origin = 0 /\ ~response.hijacked
        BY <2>1, <3>1 DEF Refusals, Bare
      <4>2. CASE Begins(response, 103, response')
        <5>1. response'.wrote /\ response'.status = 103 /\ response'.final # 103
              /\ ~response'.hijacked
          BY <4>1, <4>2 DEF Begins, ResponseType, FinalStatuses, Informational
        <5>2. response'.informed
          BY <4>2, <5>1 DEF Begins, Agrees
        <5>3. QED
          BY <5>2 DEF Bare
      <4>3. CASE \E status \in UpstreamStatuses : origin' = status
        BY <4>3, GatewayConstants DEF Bare
      <4>4. QED
        BY <1>7, <2>1, <4>1, <4>2, <4>3, WritersBegin
    <3>2. CASE origin # 0
      BY <1>7, <3>2 DEF UpstreamWrites, Bare
    <3>5. CASE response.hijacked
      BY <1>7, <2>1, <3>5, WritersBegin DEF Begins, Bare
    <3>3. CASE response.informed
      <4>1. response.wrote
        BY <2>1, <3>3 DEF Agrees
      <4>2. response'.informed = response.informed
        BY <1>7, <2>1, <4>1, WritersBegin DEF Begins
      <4>3. QED
        BY <3>3, <4>2 DEF Bare
    <3>4. QED
      BY <3>1, <3>2, <3>3, <3>5 DEF Bare
  <2>3. QED
    BY <2>1, <2>2 DEF Refusals, RefusalIsVisible, Done
<1>12. CASE Forward
  <2>1. /\ at = "proxy" /\ UNCHANGED <<at, response, log, origin>>
        /\ (Bare' <=> Bare)
    BY <1>12 DEF Forward, Bare
  <2>2. QED
    BY <2>1 DEF Refusals, RefusalIsVisible, Done
<1>13. CASE Hijacks
  <2>1. Agrees(response) /\ at = "proxy" /\ at' = "proxy"
    BY <1>13 DEF Hijacks, Replies
  <2>2. response'.hijacked
    BY <1>13, <2>1, HijackFacts DEF TypeOK, ResponseType, FinalStatuses
  <2>3. QED
    BY <2>1, <2>2 DEF Refusals, RefusalIsVisible, Done, Bare
<1>8. CASE UpstreamEnds
  <2>1. LastVerdict' = IF at' = "returned" THEN "allowed" ELSE "aborted"
    BY <1>8, LastFacts DEF UpstreamEnds, Verdicts
  <2>2. QED
    BY <1>8, <2>1 DEF Refusals, RefusalIsVisible, Done, Bare, UpstreamEnds
<1>9. CASE RecoverPanic
  <2>1. Agrees(response) /\ at \in {"panicked", "aborted"}
    BY <1>9 DEF RecoverPanic, Replies
  <2>2. /\ at' = "returned" /\ trace' = trace /\ origin' = origin
        /\ \/ response' = response /\ (at = "panicked" => response.wrote)
           \/ at = "panicked" /\ Begins(response, 500, response')
    BY <1>9, <2>1, RecoverFacts
  <2>3. LastVerdict' = at /\ Last(trace)' = Last(trace)
    BY <2>1, <2>2 DEF Ledger, LastVerdict
  <2>4. (at = "panicked" /\ Bare' /\ Last(trace).stage # "health") =>
          response'.wrote /\ response'.status \in {413, 500, 502, 503, 504}
    <3>1. SUFFICES ASSUME at = "panicked", Bare', Last(trace).stage # "health"
                   PROVE  response'.wrote /\ response'.status \in {413, 500, 502, 503, 504}
      OBVIOUS
    <3>2. Bare
      BY <2>1, <2>2, <3>1 DEF Bare, Begins, Agrees
    <3>3. ~response.wrote
      BY <3>1, <3>2 DEF Refusals
    <3>4. QED
      BY <2>2, <3>1, <3>3 DEF Begins
  <2>5. QED
    BY <2>1, <2>2, <2>3, <2>4, ZenonT(120) DEF Refusals, RefusalIsVisible, Done
<1>10. CASE FinishRequest
  <2>1. Agrees(response) /\ at = "returned"
    BY <1>10 DEF FinishRequest, Replies
  <2>2. /\ at' = "done" /\ trace' = trace /\ origin' = origin
        /\ response'.informed = response.informed
        /\ response'.hijacked = response.hijacked
        /\ (~response.informed /\ ~response.hijacked) => response'.final = response.status
        /\ log.code # "" => log'.code = log.code
    BY <1>10, <2>1, FinishFacts
  <2>3. LastVerdict' = LastVerdict /\ Last(trace)' = Last(trace) /\ Bare' = Bare
    BY <2>2 DEF LastVerdict, Bare
  <2>4. RefusalIsVisible'
    <3>1. SUFFICES ASSUME Bare, Last(trace).stage # "health"
                   PROVE  /\ LastVerdict = "rejected" =>
                               (response'.final = 500 <=> log'.code = "gateway_panic")
                          /\ LastVerdict = "rejected" => response'.final \in 400..500
                          /\ LastVerdict \in {"error", "panicked"} =>
                               response'.final \in {413, 500, 502, 503, 504}
      BY <2>2, <2>3, ZenonT(120) DEF RefusalIsVisible, Done, Bare
    <3>2. response'.final = response.status
      BY <2>2, <3>1 DEF Bare
    <3>3. CASE LastVerdict = "rejected"
      <4>1. /\ response.status \in 400..500 /\ log.code # ""
            /\ response.status = 500 <=> log.code = "gateway_panic"
        BY <2>1, <3>1, <3>3, ZenonT(120) DEF Refusals
      <4>2. log'.code = log.code
        BY <2>2, <4>1
      <4>3. QED
        BY <3>2, <3>3, <4>1, <4>2, ZenonT(120)
    <3>4. CASE LastVerdict \in {"error", "panicked"}
      BY <2>1, <3>1, <3>2, <3>4, ZenonT(120) DEF Refusals
    <3>5. QED
      BY <3>3, <3>4
  <2>5. QED
    BY <2>2, <2>4 DEF Refusals
<1>11. QED
  BY <1>1, <1>2, <1>3, <1>4, <1>5, <1>6, <1>7, <1>8, <1>9, <1>10, <1>12, <1>13, Effects

-----------------------------------------------------------------------------
(* The theorems *)

LEMMA InitHolds ==
    ASSUME Init
    PROVE  IInv
<1> USE StagesAre
<1>1. /\ at = "request_id" /\ trace = <<>> /\ told = <<>> /\ origin = 0
      /\ Len(trace) = 0 /\ DOMAIN trace = {}
  BY DEF Init
<1>2. TypeOK
  <2>1. /\ trace \in Seq([stage : Stages, verdict : Verdicts])
        /\ told \in Seq(Observed)
    BY <1>1
  <2>2. log \in [code : ErrorCodes, failure : ErrorCodes, auth : AuthResults,
                 limits : [Scopes -> {"none", "disabled", "allowed", "rejected", "error"}],
                 quiet : BOOLEAN, status : 0..599, written : BOOLEAN]
    <3>1. "" \in ErrorCodes /\ "skipped" \in AuthResults
      BY DEF ErrorCodes, AuthResults
    <3>2. 0 \in 0..599 /\ FALSE \in BOOLEAN
      OBVIOUS
    <3>3. log = NewLog
      BY DEF Init
    <3>4. [s \in Scopes |-> "none"] \in
            [Scopes -> {"none", "disabled", "allowed", "rejected", "error"}]
      OBVIOUS
    <3>5. \A limits \in [Scopes -> {"none", "disabled", "allowed", "rejected", "error"}] :
            [code |-> "", failure |-> "", auth |-> "skipped", limits |-> limits,
             quiet |-> FALSE, status |-> 0, written |-> FALSE]
              \in [code : ErrorCodes, failure : ErrorCodes, auth : AuthResults,
                   limits : [Scopes -> {"none", "disabled", "allowed", "rejected", "error"}],
                   quiet : BOOLEAN, status : 0..599, written : BOOLEAN]
      BY <3>1, <3>2, Zenon
    <3>6. QED
      BY <3>3, <3>4, <3>5, Zenon DEF NewLog
  <2>3. response \in [wrote : BOOLEAN, status : 100..599,
                      final : {0} \cup ((101..599) \ Informational), informed : BOOLEAN,
                      hijacked : BOOLEAN]
    BY DEF Init
  <2>4. /\ conf \subseteq Components /\ route \in Routes \cup {NoRoute}
        /\ header \in {"none", "client", "trusted"} /\ at \in Stages
        /\ named \in BOOLEAN /\ forwarded \in {"unsent", "none", "client", "trusted"}
    BY <1>1 DEF Init
  <2>5. QED
    BY <1>1, <2>1, <2>2, <2>3, <2>4 DEF TypeOK, Observed
<1>3. Order
  BY <1>1 DEF Order, FixedOrder
<1>4. Replies
  BY <1>1 DEF Init, Replies, Agrees, LoggedStatusIsSent, Done
<1>5. Ledger
  BY <1>1 DEF Init, NewLog, Ledger, FailuresAreObserved, Done
<1>6. Identity
  BY <1>1 DEF Init, Identity, IdentityIsVouchedFor, Rank
<1>7. Refusals
  BY <1>1 DEF Init, Refusals, RefusalIsVisible, Done, Bare
<1>8. QED
  BY <1>2, <1>3, <1>4, <1>5, <1>6, <1>7 DEF IInv

\* The conjunction of the invariants is inductive, for every set of statuses an
\* upstream may answer with.
THEOREM Invariance == Spec => []IInv
<1>1. Init => IInv
  BY InitHolds
<1>2. IInv /\ [Next]_vars => IInv'
  <2>1. SUFFICES ASSUME IInv, [Next]_vars
                 PROVE  IInv'
    OBVIOUS
  <2>2. TypeOK /\ Order /\ Replies /\ Ledger /\ Identity /\ Refusals
    BY <2>1 DEF IInv
  <2>3. TypeOK'
    BY <2>1, <2>2, TypeKept
  <2>4. Order'
    BY <2>1, <2>2, OrderKept
  <2>5. Replies'
    BY <2>1, <2>2, RepliesKept
  <2>6. Ledger'
    BY <2>1, <2>2, LedgerKept
  <2>7. Identity'
    BY <2>1, <2>2, IdentityKept
  <2>8. Refusals'
    BY <2>1, <2>2, RefusalsKept
  <2>9. QED
    BY <2>3, <2>4, <2>5, <2>6, <2>7, <2>8 DEF IInv
<1>3. QED
  BY <1>1, <1>2, PTL DEF Spec

\* Every variable keeps its type.
THEOREM TypeCorrect == Spec => []TypeOK
<1>1. IInv => TypeOK
  BY DEF IInv
<1>2. QED
  BY <1>1, Invariance, PTL

\* Gateway.ServeHTTP runs the stages in the documented order, leaves none out
\* and runs none after one that stopped the request.
THEOREM StagesInOrder == Spec => []FixedOrder
<1>1. IInv => FixedOrder
  BY DEF IInv, Order
<1>2. QED
  BY <1>1, Invariance, PTL

\* No upstream is given identity headers that an authenticator has not vouched
\* for; on a protected route only the built-in proxy, told so by the client's
\* Connection header, leaves them out.
THEOREM IdentityVouched == Spec => []IdentityIsVouchedFor
<1>1. IInv => IdentityIsVouchedFor
  BY DEF IInv, Identity
<1>2. QED
  BY <1>1, Invariance, PTL

\* A request that was refused, or that a component failed, never looks like a
\* success to the client, whatever the responder and the recovery did.
THEOREM RefusalsSeen == Spec => []RefusalIsVisible
<1>1. IInv => RefusalIsVisible
  BY DEF IInv, Refusals
<1>2. QED
  BY <1>1, Invariance, PTL

\* The recorder of the access log and net/http agree on the status, as long as
\* nothing informational went before it and nobody hijacked the connection.
THEOREM StatusLogged == Spec => []LoggedStatusIsSent
<1>1. IInv => LoggedStatusIsSent
  BY DEF IInv, Replies
<1>2. QED
  BY <1>1, Invariance, PTL

\* The observer hears of every component failure, of nothing else, and of the
\* end of each request once.
THEOREM FailuresSeen == Spec => []FailuresAreObserved
<1>1. IInv => FailuresAreObserved
  BY DEF IInv, Ledger
<1>2. QED
  BY <1>1, Invariance, PTL

-----------------------------------------------------------------------------
(***************************************************************************)
(* What TokenBucket guarantees for every number of callers, every rate,    *)
(* burst and skew, whatever the bounds on calls and time.                  *)
(*                                                                         *)
(* TakenIsEarned is not inductive: what may still be taken depends on the  *)
(* tokens that are left and on the stamp up to which they were refilled.   *)
(* Balance accounts for both; for a bucket that has expired, the deadline  *)
(* takes the place of the stamp.                                           *)
(*                                                                         *)
(* RetryAfterIsExact speaks of a call that was refused some time ago;      *)
(* Waiting says what has become of the bucket since.                       *)
(***************************************************************************)

\* What has been taken and what is left is covered by a full bucket and the
\* refill up to the bucket's stamp, set back as often as it was.
Balance ==
    IF bucket = NoBucket
    THEN taken * Unit <= Rate * (LargerOf(1, deadline) - 1 + setback)
    ELSE taken * Unit + bucket.tokens
           <= Full + Rate * (bucket.updated - 1 + setback)

\* Stamps are near real time, and a bucket outlives its refill.
Stamps ==
    /\ \A c \in Clients : call[c].phase # "idle" =>
         call[c].stamp \in 1..(now + MaxSkew)
    /\ IF bucket = NoBucket THEN deadline <= now
       ELSE /\ bucket.updated \in 1..(now + MaxSkew)
            /\ Full + Rate * bucket.updated <= Rate * deadline

CallType == [phase : {"idle", "sent", "allowed", "denied", "failed"},
             stamp : Nat, sends : Nat, retry : Int, calls : Nat,
             seen : Nat \X Nat]

Typed ==
    /\ now \in Nat \ {0}
    /\ bucket = NoBucket
         \/ (bucket \in [tokens : 0..Full, updated : Nat])
    /\ deadline \in Nat
    /\ taken \in Nat /\ setback \in Nat
    /\ call \in [Clients -> CallType]

BucketInv == Typed /\ Stamps /\ Balance

-----------------------------------------------------------------------------
(* Arithmetic *)

LEMMA Constants ==
    /\ Burst \in Nat \ {0} /\ Rate \in Nat \ {0} /\ Unit \in Nat \ {0}
    /\ MinTTL \in Nat \ {0} /\ MaxSends \in Nat \ {0} /\ MaxSkew \in Nat
    /\ Skew \in [Clients -> 0..MaxSkew]
BY BucketConstants

LEMMA Monotone ==
    ASSUME NEW r \in Nat, NEW x \in Int, NEW y \in Int, x <= y
    PROVE  r * x \in Int /\ r * y \in Int /\ r * x <= r * y
OBVIOUS

LEMMA Distributes ==
    ASSUME NEW r \in Nat, NEW x \in Int, NEW y \in Int
    PROVE  r * (x + y) = r * x + r * y /\ r * (x - y) = r * x - r * y
OBVIOUS

LEMMA FullIsNat == Full \in Nat \ {0} /\ Unit <= Full
<1>1. Full = Burst * Unit /\ Burst >= 1 /\ Unit >= 1 /\ Burst \in Nat /\ Unit \in Nat
  BY Constants DEF Full
<1>2. Unit * 1 <= Unit * Burst
  BY <1>1, Monotone
<1>3. QED
  BY <1>1, <1>2

LEMMA TTLIsNat == TTL \in Nat \ {0}
<1>1. (2 * Full) \div Rate \in Int
  BY Constants, FullIsNat
<1>2. QED
  BY <1>1, Constants DEF TTL, LargerOf

-----------------------------------------------------------------------------
(* The script *)

\* Refilling up to a stamp costs what the balance gains by it: the stamp and
\* the setback together move by as much as the bucket was refilled for.
LEMMA RefillBalance ==
    ASSUME BucketInv, NEW stamp \in 1..(now + MaxSkew)
    PROVE  /\ Refilled(stamp) \in 0..Full
           /\ BehindBy(stamp) \in Nat
           /\ taken * Unit + Refilled(stamp)
                <= Full + Rate * (stamp - 1 + setback + BehindBy(stamp))
<1> USE Constants, FullIsNat DEF BucketInv, Typed
<1> DEFINE behind == BehindBy(stamp)
<1>1. behind \in Nat
  BY DEF BehindBy, LargerOf, Stamps
<1>2. CASE bucket = NoBucket
  <2>1. Refilled(stamp) = Full
    BY <1>2 DEF Refilled
  <2>2. LargerOf(1, deadline) - 1 + setback <= stamp - 1 + setback + behind
    BY <1>2 DEF LargerOf, BehindBy
  <2>3. LargerOf(1, deadline) \in Int
    BY DEF LargerOf
  <2>4. Rate * (LargerOf(1, deadline) - 1 + setback)
          <= Rate * (stamp - 1 + setback + behind)
    BY <1>1, <2>2, <2>3, Monotone
  <2>5. taken * Unit <= Rate * (LargerOf(1, deadline) - 1 + setback)
    BY <1>2 DEF Balance
  <2> HIDE DEF behind
  <2>6. /\ taken * Unit \in Int
        /\ Rate * (stamp - 1 + setback + behind) \in Int
        /\ Rate * (LargerOf(1, deadline) - 1 + setback) \in Int
    BY <1>1, <2>3
  <2>7. taken * Unit + Full <= Full + Rate * (stamp - 1 + setback + behind)
    BY <2>4, <2>5, <2>6
  <2>8. QED
    BY <1>1, <2>1, <2>7 DEF behind
<1>3. CASE bucket # NoBucket
  <2> DEFINE elapsed == LargerOf(0, stamp - bucket.updated)
             old == bucket.updated - 1 + setback
  <2>0. bucket.tokens \in 0..Full /\ bucket.updated \in Nat
    BY <1>3
  <2>9. behind = LargerOf(0, bucket.updated - stamp)
    BY <1>3 DEF BehindBy
  <2> HIDE DEF behind
  <2>1. /\ bucket.tokens \in 0..Full /\ bucket.updated \in Nat
        /\ elapsed \in Nat /\ old \in Int
        /\ stamp - 1 + setback + behind = old + elapsed
    BY <2>0, <2>9 DEF LargerOf
  <2> HIDE DEF elapsed, old
  <2>2. Rate * (old + elapsed) = Rate * old + Rate * elapsed
    BY <2>1, Distributes
  <2>3. elapsed * Rate = Rate * elapsed /\ Rate * elapsed \in Nat
    BY <2>1
  <2>4. /\ Refilled(stamp) \in 0..Full
        /\ Refilled(stamp) <= bucket.tokens + Rate * elapsed
    BY <1>3, <2>1, <2>3 DEF Refilled, SmallerOf, elapsed
  <2>5. taken * Unit + bucket.tokens <= Full + Rate * old
    BY <1>3 DEF Balance, old
  <2>6. taken * Unit \in Int /\ Rate * old \in Int
    BY <2>1
  <2>7. taken * Unit + Refilled(stamp) <= Full + Rate * (old + elapsed)
    BY <2>1, <2>2, <2>3, <2>4, <2>5, <2>6
  <2>8. QED
    BY <1>1, <2>1, <2>4, <2>7 DEF behind
<1>4. QED
  BY <1>2, <1>3

\* The stamp that Allow took keeps the bucket alive until it could be full.
LEMMA OutlivesRefill ==
    ASSUME BucketInv, NEW stamp \in 1..(now + MaxSkew)
    PROVE  Full + Rate * stamp <= Rate * (now + TTL)
<1>0. /\ now \in Nat /\ stamp \in Int /\ stamp <= now + MaxSkew
      /\ Rate \in Nat /\ MaxSkew \in Nat /\ TTL \in Nat /\ Full \in Nat
  BY Constants, FullIsNat, TTLIsNat DEF BucketInv, Typed
<1>1. Rate * stamp <= Rate * (now + MaxSkew)
  BY <1>0, Monotone
<1>2. /\ Rate * (now + MaxSkew) = Rate * now + Rate * MaxSkew
      /\ Rate * (now + TTL) = Rate * now + Rate * TTL
  BY <1>0, Distributes
<1>3. Full + Rate * MaxSkew <= Rate * TTL
  BY ReasonablySynchronised
<1>4. /\ Rate * stamp \in Int /\ Rate * now \in Int
      /\ Rate * MaxSkew \in Int /\ Rate * TTL \in Int /\ Full \in Int
  BY <1>0
<1>5. QED
  BY <1>1, <1>2, <1>3, <1>4

\* The waiting time is an integer; RetryAfterIsExact says which.
LEMMA RetryIsInt ==
    ASSUME NEW tokens \in Int
    PROVE  RetryAfter(tokens) \in Int
BY Constants DEF RetryAfter, CeilDiv

\* One run of the script (Execute).
LEMMA ExecuteKeeps ==
    ASSUME BucketInv, NEW c \in Clients, Execute(c)
    PROVE  BucketInv'
<1> DEFINE stamp == call[c].stamp
           tokens == Refilled(stamp)
           allowed == tokens >= Unit
           left == IF allowed THEN tokens - Unit ELSE tokens
           behind == BehindBy(stamp)
<1>1. stamp \in 1..(now + MaxSkew) /\ call[c].phase = "sent" /\ now \in Nat
  BY DEF BucketInv, Typed, Stamps, Execute
<1>2. /\ tokens \in 0..Full /\ behind \in Nat
      /\ taken * Unit + tokens <= Full + Rate * (stamp - 1 + setback + behind)
  BY <1>1, RefillBalance
<1>3. /\ bucket' = [tokens |-> left, updated |-> stamp]
      /\ deadline' = now + TTL
      /\ taken' = IF allowed THEN taken + 1 ELSE taken
      /\ setback' = setback + behind
      /\ now' = now
      /\ call' = [call EXCEPT
                    ![c].phase = IF allowed THEN "allowed" ELSE "denied",
                    ![c].retry = IF allowed THEN 0 ELSE RetryAfter(tokens),
                    ![c].seen = <<taken', setback'>>]
  BY DEF Execute, RunScript
<1>4. Full + Rate * stamp <= Rate * (now + TTL)
  BY <1>1, OutlivesRefill
<1>5. RetryAfter(tokens) \in Int
  BY <1>2, FullIsNat, RetryIsInt
<1>6. taken \in Nat /\ setback \in Nat
  BY DEF BucketInv, Typed
<1> HIDE DEF stamp, tokens, behind
<1>7. left \in 0..Full
  BY <1>2, Constants, FullIsNat
<1>8. bucket' # NoBucket
  <2>1. bucket'.tokens = left
    BY <1>3
  <2>2. NoBucket.tokens = -1
    BY DEF NoBucket
  <2>3. QED
    BY <2>1, <2>2, <1>7, FullIsNat
<1>9. /\ bucket' \in [tokens : 0..Full, updated : Nat]
      /\ taken' \in Nat /\ setback' \in Nat /\ deadline' \in Nat
  BY <1>1, <1>2, <1>3, <1>6, <1>7, TTLIsNat
<1>10. call' \in [Clients -> CallType]
  <2> DEFINE phase == IF allowed THEN "allowed" ELSE "denied"
             retry == IF allowed THEN 0 ELSE RetryAfter(tokens)
             new == [call[c] EXCEPT !.phase = phase, !.retry = retry,
                                    !.seen = <<taken', setback'>>]
  <2>1. call[c] \in CallType /\ call \in [Clients -> CallType]
    BY DEF BucketInv, Typed
  <2>2. retry \in Int /\ phase \in {"allowed", "denied"}
    BY <1>5
  <2>3. <<taken', setback'>> \in Nat \X Nat
    BY <1>9
  <2>4. call' = [call EXCEPT ![c] = new]
    BY <1>3, <2>1
  <2> HIDE DEF phase, retry
  <2>5. new \in CallType
    BY <2>1, <2>2, <2>3 DEF CallType
  <2> HIDE DEF new
  <2>6. QED
    BY <2>1, <2>4, <2>5
<1>11. Typed'
  BY <1>3, <1>9, <1>10 DEF BucketInv, Typed
<1>12. Stamps'
  <2>1. \A d \in Clients : call'[d].stamp = call[d].stamp
    BY <1>3 DEF BucketInv, Typed, CallType
  <2>2. \A d \in Clients : call'[d].phase # "idle" => call[d].phase # "idle"
    BY <1>1, <1>3 DEF BucketInv, Typed, CallType
  <2>3. bucket'.updated = stamp
    BY <1>3
  <2>4. QED
    BY <1>1, <1>3, <1>4, <1>8, <2>1, <2>2, <2>3 DEF BucketInv, Stamps
<1>13. Balance'
  <2>1. taken' * Unit + left = taken * Unit + tokens
    <3>1. (taken + 1) * Unit = taken * Unit + Unit
      BY <1>6, Constants
    <3>2. QED
      BY <1>2, <1>3, <1>6, <3>1, Constants, FullIsNat
  <2>2. taken' * Unit + left <= Full + Rate * (stamp - 1 + setback')
    <3>1. stamp - 1 + setback + behind = stamp - 1 + setback'
      BY <1>1, <1>2, <1>3, <1>6, Constants
    <3>2. QED
      BY <1>2, <2>1, <3>1
  <2>3. QED
    BY <1>3, <1>8, <2>2 DEF Balance
<1>14. QED
  BY <1>11, <1>12, <1>13 DEF BucketInv

\* Calls begin, are repeated and are given up without touching the bucket.
LEMMA CallKeeps ==
    ASSUME BucketInv, NEW c \in Clients, Allow(c) \/ Repeat(c) \/ GiveUp(c)
    PROVE  BucketInv'
<1> USE Constants DEF BucketInv, Typed
<1>1. UNCHANGED <<now, bucket, deadline, taken, setback>>
  BY DEF Allow, Repeat, GiveUp
<1>2. /\ call' \in [Clients -> CallType]
      /\ \A d \in Clients : call'[d].phase # "idle" =>
            call'[d].stamp \in 1..(now + MaxSkew)
  <2>1. CASE Allow(c)
    <3>1. now + Skew[c] \in 1..(now + MaxSkew)
      OBVIOUS
    <3> DEFINE new == [phase |-> "sent", stamp |-> now + Skew[c], sends |-> 1,
                       retry |-> 0, calls |-> call[c].calls + 1, seen |-> <<0, 0>>]
    <3>2. call[c].calls + 1 \in Nat
      BY DEF CallType
    <3>3. call' = [call EXCEPT ![c] = new]
      BY <2>1 DEF Allow
    <3>4. /\ new \in CallType
          /\ new.stamp \in 1..(now + MaxSkew)
      BY <3>1, <3>2 DEF CallType
    <3> HIDE DEF new
    <3>5. QED
      BY <3>3, <3>4 DEF Stamps
  <2>2. CASE Repeat(c)
    BY <2>2 DEF Repeat, Stamps, CallType
  <2>3. CASE GiveUp(c)
    BY <2>3 DEF GiveUp, Stamps, CallType
  <2>4. QED
    BY <2>1, <2>2, <2>3
<1>3. Stamps' /\ Balance'
  BY <1>1, <1>2 DEF Stamps, Balance
<1>4. QED
  BY <1>1, <1>2, <1>3

\* Time passes, and a bucket that expires is full again: it had the time.
LEMMA TickKeeps ==
    ASSUME BucketInv, Tick
    PROVE  BucketInv'
<1> USE Constants, FullIsNat DEF BucketInv, Typed
<1>1. /\ now' = now + 1
      /\ bucket' = IF now' > deadline THEN NoBucket ELSE bucket
      /\ UNCHANGED <<deadline, call, taken, setback>>
  BY DEF Tick
<1>2. Typed'
  BY <1>1
<1>3. Stamps'
  BY <1>1 DEF Stamps
<1>4. bucket' = bucket => Balance'
  BY <1>1 DEF Balance
<1>5. ASSUME bucket' = NoBucket, bucket # NoBucket
      PROVE  Balance'
  <2> DEFINE before == setback - 1
             reached == LargerOf(1, deadline) - 1 + setback
  <2>1. /\ bucket.updated \in 1..(now + MaxSkew) /\ bucket.tokens \in 0..Full
        /\ Full + Rate * bucket.updated <= Rate * deadline
        /\ taken * Unit + bucket.tokens
             <= Full + Rate * (bucket.updated - 1 + setback)
    BY <1>5 DEF Stamps, Balance
  <2>2. /\ before \in Int /\ reached \in Int /\ deadline + before <= reached
        /\ bucket.updated + before = bucket.updated - 1 + setback
    BY <2>1 DEF LargerOf
  <2> HIDE DEF before, reached
  <2>3. /\ Rate * (bucket.updated + before) = Rate * bucket.updated + Rate * before
        /\ Rate * (deadline + before) = Rate * deadline + Rate * before
    BY <2>1, <2>2, Distributes
  <2>4. /\ Rate * bucket.updated \in Int /\ Rate * deadline \in Int
        /\ Rate * before \in Int /\ taken * Unit \in Int
    BY <2>1, <2>2
  <2>5. taken * Unit <= Rate * (deadline + before)
    BY <2>1, <2>2, <2>3, <2>4
  <2>6. /\ Rate * (deadline + before) <= Rate * reached
        /\ Rate * (deadline + before) \in Int /\ Rate * reached \in Int
    BY <2>1, <2>2, Monotone
  <2>7. taken * Unit <= Rate * reached
    BY <2>4, <2>5, <2>6
  <2>8. QED
    BY <1>1, <1>5, <2>7 DEF Balance, reached
<1>6. Balance'
  BY <1>1, <1>4, <1>5
<1>7. QED
  BY <1>2, <1>3, <1>6

LEMMA BucketInitHolds == BucketInit => BucketInv
<1> SUFFICES ASSUME BucketInit PROVE BucketInv
  OBVIOUS
<1> USE Constants DEF BucketInit
<1>1. Typed
  BY DEF Typed, Idle, CallType
<1>2. Stamps
  BY DEF Stamps, Idle
<1>3. Rate * (LargerOf(1, deadline) - 1 + setback) = 0
  BY DEF LargerOf
<1>4. Balance
  BY <1>3 DEF Balance
<1>5. QED
  BY <1>1, <1>2, <1>4 DEF BucketInv

THEOREM BucketInvariance == BucketSpec => []BucketInv
<1>1. BucketInv /\ [BucketNext]_bucketVars => BucketInv'
  <2> SUFFICES ASSUME BucketInv, [BucketNext]_bucketVars PROVE BucketInv'
    OBVIOUS
  <2>1. CASE UNCHANGED bucketVars
    BY <2>1 DEF bucketVars, BucketInv, Typed, Stamps, Balance
  <2>2. ASSUME NEW c \in Clients, Allow(c) \/ Execute(c) \/ Repeat(c) \/ GiveUp(c)
        PROVE  BucketInv'
    BY <2>2, ExecuteKeeps, CallKeeps
  <2>3. CASE Tick
    BY <2>3, TickKeeps
  <2>4. QED
    BY <2>1, <2>2, <2>3 DEF BucketNext
<1>2. QED
  BY <1>1, BucketInitHolds, PTL DEF BucketSpec

-----------------------------------------------------------------------------

\* However calls overlap, repeat or find the bucket expired, no more tokens are
\* taken than a full bucket, the refill of the time that has passed, and the
\* skew and the setbacks of the stamps allow (Limiter.Allow and its script).
THEOREM TakenStaysEarned == BucketSpec => []TakenIsEarned
<1>1. ASSUME BucketInv PROVE TakenIsEarned
  <2> USE Constants, FullIsNat DEF BucketInv, Typed
  <2> USE <1>1
  <2> DEFINE target == now - 1 + MaxSkew + setback
  <2>1. CASE bucket = NoBucket
    <3>1. /\ LargerOf(1, deadline) - 1 + setback <= target
          /\ LargerOf(1, deadline) - 1 + setback \in Int /\ target \in Int
      BY <2>1 DEF LargerOf, Stamps
    <3>2. /\ taken * Unit <= Rate * (LargerOf(1, deadline) - 1 + setback)
          /\ taken * Unit \in Int
      BY <2>1 DEF Balance
    <3> HIDE DEF target
    <3>3. /\ Rate * (LargerOf(1, deadline) - 1 + setback) <= Rate * target
          /\ Rate * (LargerOf(1, deadline) - 1 + setback) \in Int
          /\ Rate * target \in Int
      BY <3>1, Monotone
    <3>4. taken * Unit <= Full + Rate * target
      BY <3>2, <3>3
    <3>5. QED
      BY <3>4 DEF TakenIsEarned, Earned, target
  <2>2. CASE bucket # NoBucket
    <3> DEFINE reached == bucket.updated - 1 + setback
    <3>1. reached <= target /\ reached \in Int /\ target \in Int
      BY <2>2 DEF Stamps
    <3>2. /\ taken * Unit + bucket.tokens <= Full + Rate * reached
          /\ taken * Unit \in Int /\ bucket.tokens \in Nat
      BY <2>2 DEF Balance
    <3> HIDE DEF target, reached
    <3>3. /\ Rate * reached <= Rate * target
          /\ Rate * reached \in Int /\ Rate * target \in Int
      BY <3>1, Monotone
    <3>4. taken * Unit <= Full + Rate * target
      BY <3>2, <3>3
    <3>5. QED
      BY <3>4 DEF TakenIsEarned, Earned, target
  <2>3. QED
    BY <2>1, <2>2
<1>2. QED
  BY <1>1, BucketInvariance, PTL

-----------------------------------------------------------------------------
(* What a refused client is told *)

LEMMA CeilDivIsCeiling ==
    ASSUME NEW a \in Nat \ {0}, NEW b \in Nat \ {0}
    PROVE  LET q == CeilDiv(a, b)
           IN  q \in Nat \ {0} /\ b * q >= a /\ b * (q - 1) < a
<1> DEFINE n == a + b - 1
           q == n \div b
<1>1. n \in Nat /\ n >= b
  OBVIOUS
<1>2. q \in Int /\ b * q <= n /\ n < b * q + b
  BY <1>1
<1>3. CeilDiv(a, b) = q
  BY DEF CeilDiv
<1>4. b * (q - 1) = b * q - b /\ b * q \in Int
  BY <1>2
<1>5. b * q >= a /\ b * (q - 1) < a
  BY <1>2, <1>4
<1>6. q >= 1
  <2>1. CASE q <= 0
    <3>1. b * q <= b * 0 /\ b * 0 = 0
      BY <1>2, <2>1, Monotone
    <3>2. QED
      BY <1>4, <1>5, <3>1
  <2>2. QED
    BY <1>2, <2>1
<1>7. QED
  BY <1>2, <1>3, <1>5, <1>6

\* The tokens the bucket would have had at a stamp it has passed.
At(stamp) == bucket.tokens - Rate * (bucket.updated - stamp)

\* While no token was taken and no stamp set back since c was refused, others were
\* refused too: the bucket has only been refilled, and c's time has not changed.
Waiting(c) ==
    call[c].phase = "denied" =>
        /\ call[c].seen[1] <= taken /\ call[c].seen[2] <= setback
        /\ call[c].seen = <<taken, setback>> /\ bucket # NoBucket =>
             /\ bucket.tokens < Unit /\ bucket.updated >= call[c].stamp
             /\ call[c].retry \in Nat \ {0}
             /\ At(call[c].stamp) + Rate * call[c].retry >= Unit
             /\ At(call[c].stamp) + Rate * (call[c].retry - 1) < Unit

LEMMA ExecuteWaits ==
    ASSUME BucketInv, \A c \in Clients : Waiting(c), NEW d \in Clients, Execute(d),
           NEW c \in Clients
    PROVE  Waiting(c)'
<1> DEFINE stamp == call[d].stamp
           tokens == Refilled(stamp)
           behind == BehindBy(stamp)
<1>1. stamp \in 1..(now + MaxSkew) /\ call[d].phase = "sent" /\ now \in Nat
  BY DEF BucketInv, Typed, Stamps, Execute
<1>2. /\ tokens \in 0..Full /\ behind \in Nat /\ Full \in Nat /\ Unit <= Full
      /\ Unit \in Nat \ {0} /\ Rate \in Nat \ {0}
      /\ taken \in Nat /\ setback \in Nat /\ stamp \in Nat
      /\ call \in [Clients -> CallType]
  BY <1>1, RefillBalance, FullIsNat, Constants DEF BucketInv, Typed
<1>3. /\ bucket' = [tokens |-> IF tokens >= Unit THEN tokens - Unit ELSE tokens,
                    updated |-> stamp]
      /\ taken' = IF tokens >= Unit THEN taken + 1 ELSE taken
      /\ setback' = setback + behind
      /\ call' = [call EXCEPT
                    ![d].phase = IF tokens >= Unit THEN "allowed" ELSE "denied",
                    ![d].retry = IF tokens >= Unit THEN 0 ELSE RetryAfter(tokens),
                    ![d].seen = <<taken', setback'>>]
  BY DEF Execute, RunScript
<1>4. CASE c = d
  <2>1. SUFFICES ASSUME call'[d].phase = "denied" PROVE Waiting(d)'
    BY <1>4 DEF Waiting
  <2>2. /\ tokens < Unit /\ call'[d].stamp = stamp /\ call'[d].retry = RetryAfter(tokens)
        /\ call'[d].seen = <<taken', setback'>>
        /\ bucket'.tokens = tokens /\ bucket'.updated = stamp
        /\ taken' \in Nat /\ setback' \in Nat
    <3> HIDE DEF tokens, behind, stamp
    <3>1. call'[d].phase = (IF tokens >= Unit THEN "allowed" ELSE "denied")
      BY <1>2, <1>3 DEF CallType
    <3>2. ~(tokens >= Unit)
      BY <2>1, <3>1
    <3>3. tokens < Unit
      BY <1>2, <3>2
    <3>4. call'[d].stamp = call[d].stamp
      BY <1>2, <1>3 DEF CallType
    <3>5. QED
      BY <1>2, <1>3, <3>2, <3>3, <3>4 DEF CallType, stamp
  <2> HIDE DEF tokens, behind, stamp
  <2>3. Unit - tokens \in Nat \ {0}
    BY <1>2, <2>2
  <2>4. /\ RetryAfter(tokens) \in Nat \ {0} /\ Rate * RetryAfter(tokens) >= Unit - tokens
        /\ Rate * (RetryAfter(tokens) - 1) < Unit - tokens
    BY <1>2, <2>3, CeilDivIsCeiling DEF RetryAfter
  <2>5. At(call[d].stamp)' = tokens
    BY <1>2, <2>2 DEF At
  <2>6. /\ Rate * RetryAfter(tokens) \in Int /\ Rate * (RetryAfter(tokens) - 1) \in Int
    BY <1>2, <2>4
  <2>7. QED
    BY <1>2, <2>2, <2>4, <2>5, <2>6 DEF Waiting
<1>5. CASE c # d
  <2>1. call'[c] = call[c]
    BY <1>2, <1>3, <1>5
  <2>2. SUFFICES ASSUME call[c].phase = "denied" PROVE Waiting(c)'
    BY <2>1 DEF Waiting
  <2>3. call[c].seen \in Nat \X Nat /\ call[c].seen[1] <= taken /\ call[c].seen[2] <= setback
    BY <1>2, <2>2 DEF CallType, Waiting
  <2> HIDE DEF tokens, behind
  <2>4. taken' \in Nat /\ setback' \in Nat /\ taken <= taken' /\ setback <= setback'
    BY <1>2, <1>3
  <2>5. call'[c].seen[1] <= taken' /\ call'[c].seen[2] <= setback'
    BY <1>2, <2>1, <2>3, <2>4
  <2>6. ASSUME call[c].seen = <<taken', setback'>>
        PROVE  /\ bucket'.tokens < Unit /\ bucket'.updated >= call[c].stamp
               /\ call[c].retry \in Nat \ {0}
               /\ At(call[c].stamp)' = At(call[c].stamp)
               /\ At(call[c].stamp) + Rate * call[c].retry >= Unit
               /\ At(call[c].stamp) + Rate * (call[c].retry - 1) < Unit
    <3>1. taken' = taken /\ setback' = setback
      BY <1>2, <2>3, <2>4, <2>6
    <3>2. tokens < Unit /\ behind = 0
      BY <1>2, <1>3, <3>1
    <3>3. bucket # NoBucket
      BY <1>2, <3>2 DEF tokens, Refilled
    <3>4. /\ bucket.tokens < Unit /\ bucket.updated >= call[c].stamp
          /\ call[c].retry \in Nat \ {0}
          /\ At(call[c].stamp) + Rate * call[c].retry >= Unit
          /\ At(call[c].stamp) + Rate * (call[c].retry - 1) < Unit
      BY <2>2, <2>6, <3>1, <3>3 DEF Waiting
    <3>5. bucket.tokens \in Nat /\ bucket.updated \in Nat /\ call[c].stamp \in Nat
      BY <1>2, <3>3 DEF BucketInv, Typed, CallType
    <3>6. stamp >= bucket.updated
      <4>1. BehindBy(stamp) = 0
        BY <3>2 DEF behind
      <4>2. QED
        BY <1>2, <3>3, <3>5, <4>1 DEF BehindBy, LargerOf
    <3>7. tokens = bucket.tokens + Rate * (stamp - bucket.updated)
      <4> DEFINE elapsed == stamp - bucket.updated
                 refilled == bucket.tokens + elapsed * Rate
      <4>1. elapsed \in Nat /\ LargerOf(0, elapsed) = elapsed
        BY <1>2, <3>5, <3>6 DEF LargerOf
      <4>2. elapsed * Rate = Rate * elapsed /\ refilled \in Int
        BY <1>2, <3>5, <4>1
      <4>3. tokens = SmallerOf(Full, bucket.tokens + LargerOf(0, elapsed) * Rate)
        BY <3>3 DEF tokens, Refilled
      <4> HIDE DEF elapsed
      <4>4. tokens = SmallerOf(Full, refilled)
        BY <4>1, <4>3
      <4> HIDE DEF refilled
      <4>5. tokens = refilled
        BY <1>2, <3>2, <4>2, <4>4 DEF SmallerOf
      <4>6. QED
        BY <4>2, <4>5 DEF refilled, elapsed
    <3>8. bucket'.tokens = tokens /\ bucket'.updated = stamp
      BY <1>2, <1>3, <3>2
    <3>9. At(call[c].stamp)' = At(call[c].stamp)
      <4>1. (stamp - bucket.updated) + (bucket.updated - call[c].stamp) = stamp - call[c].stamp
        BY <1>2, <3>5
      <4>2. Rate * (stamp - call[c].stamp)
              = Rate * (stamp - bucket.updated) + Rate * (bucket.updated - call[c].stamp)
        BY <1>2, <3>5, <4>1, Distributes
      <4>3. /\ Rate * (stamp - bucket.updated) \in Int
            /\ Rate * (bucket.updated - call[c].stamp) \in Int
        BY <1>2, <3>5
      <4>4. call'[c].stamp = call[c].stamp
        BY <2>1
      <4>5. At(call[c].stamp)' = tokens - Rate * (stamp - call[c].stamp)
        BY <3>8, <4>4 DEF At
      <4>6. QED
        BY <3>5, <3>7, <4>2, <4>3, <4>5 DEF At
    <3>10. bucket'.updated >= call[c].stamp
      BY <1>2, <3>4, <3>5, <3>6, <3>8
    <3>11. QED
      BY <3>2, <3>4, <3>8, <3>9, <3>10
  <2>7. QED
    BY <2>1, <2>5, <2>6 DEF Waiting
<1>6. QED
  BY <1>4, <1>5

LEMMA OthersWait ==
    ASSUME BucketInv, NEW c \in Clients, Waiting(c),
           \/ \E d \in Clients : Allow(d) \/ Repeat(d) \/ GiveUp(d)
           \/ Tick \/ UNCHANGED bucketVars
    PROVE  Waiting(c)'
<1>1. call \in [Clients -> CallType]
  BY DEF BucketInv, Typed
<1>2. CASE \E d \in Clients : Allow(d) \/ Repeat(d) \/ GiveUp(d)
  <2>1. UNCHANGED <<bucket, taken, setback>>
    BY <1>2 DEF Allow, Repeat, GiveUp
  <2>2. call'[c] = call[c] \/ call'[c].phase # "denied"
    <3>1. PICK d \in Clients : Allow(d) \/ Repeat(d) \/ GiveUp(d)
      BY <1>2
    <3>2. \E new : call' = [call EXCEPT ![d] = new] /\ new.phase # "denied"
      <4>1. CASE Allow(d)
        <5> DEFINE new == [phase |-> "sent", stamp |-> now + Skew[d], sends |-> 1,
                           retry |-> 0, calls |-> call[d].calls + 1, seen |-> <<0, 0>>]
        <5>1. call' = [call EXCEPT ![d] = new] /\ new.phase = "sent"
          BY <4>1 DEF Allow
        <5> HIDE DEF new
        <5>2. QED
          BY <5>1
      <4>2. CASE Repeat(d)
        <5>1. call' = [call EXCEPT ![d] = [call[d] EXCEPT !.phase = "sent", !.retry = 0,
                                                          !.sends = @ + 1]]
          BY <1>1, <4>2 DEF Repeat
        <5>2. [call[d] EXCEPT !.phase = "sent", !.retry = 0, !.sends = @ + 1].phase = "sent"
          BY <1>1 DEF CallType
        <5>3. QED
          BY <5>1, <5>2
      <4>3. CASE GiveUp(d)
        <5>1. call' = [call EXCEPT ![d] = [call[d] EXCEPT !.phase = "failed"]]
          BY <1>1, <4>3 DEF GiveUp
        <5>2. [call[d] EXCEPT !.phase = "failed"].phase = "failed"
          BY <1>1 DEF CallType
        <5>3. QED
          BY <5>1, <5>2
      <4>4. QED
        BY <3>1, <4>1, <4>2, <4>3
    <3>3. QED
      BY <1>1, <3>2
  <2>3. QED
    BY <2>1, <2>2 DEF Waiting, At
<1>3. CASE Tick
  BY <1>3 DEF Tick, Waiting, At
<1>4. CASE UNCHANGED bucketVars
  BY <1>4 DEF bucketVars, Waiting, At
<1>5. QED
  BY <1>2, <1>3, <1>4

\* A client that was refused and waits exactly as long as it was told gets a token,
\* unless another call has taken one or set the bucket back, and no sooner: the
\* rounding of retry_ms in the script is neither short nor long.
THEOREM WaitIsExact == BucketSpec => []RetryAfterIsExact
<1> DEFINE All == \A c \in Clients : Waiting(c)
<1>1. BucketInit => All
  BY DEF BucketInit, Idle, Waiting
<1>2. BucketInv /\ All /\ [BucketNext]_bucketVars => All'
  <2>1. ASSUME BucketInv, All, [BucketNext]_bucketVars, NEW c \in Clients PROVE Waiting(c)'
    <3>1. CASE \E d \in Clients : Execute(d)
      BY <2>1, <3>1, ExecuteWaits
    <3>2. CASE ~ \E d \in Clients : Execute(d)
      BY <2>1, <3>2, OthersWait DEF BucketNext
    <3>3. QED
      BY <3>1, <3>2
  <2>2. QED
    BY <2>1
<1>3. BucketInv /\ All => RetryAfterIsExact
  <2> SUFFICES ASSUME BucketInv, All, NEW c \in Clients, call[c].phase = "denied",
                      call[c].seen = <<taken, setback>>
               PROVE  /\ Refilled(call[c].stamp + call[c].retry) >= Unit
                      /\ bucket.updated = call[c].stamp =>
                           Refilled(call[c].stamp + call[c].retry - 1) < Unit
    BY DEF RetryAfterIsExact
  <2> DEFINE stamp == call[c].stamp
             retry == call[c].retry
  <2>1. /\ Unit \in Nat \ {0} /\ Rate \in Nat \ {0} /\ Full \in Nat /\ Unit <= Full
        /\ stamp \in Nat \ {0}
    BY Constants, FullIsNat DEF BucketInv, Typed, Stamps
  <2>2. CASE bucket = NoBucket
    BY <2>1, <2>2 DEF Refilled, NoBucket
  <2>3. CASE bucket # NoBucket
    <3> DEFINE passed == bucket.updated - stamp
               then == bucket.tokens - Rate * passed
    <3>1. /\ bucket.tokens \in Nat /\ bucket.updated \in Nat /\ passed \in Nat
          /\ bucket.tokens < Unit /\ retry \in Nat \ {0}
          /\ then + Rate * retry >= Unit /\ then + Rate * (retry - 1) < Unit
      BY <2>1, <2>3 DEF Waiting, At, BucketInv, Typed
    <3>3. /\ Refilled(stamp + retry)
               = SmallerOf(Full, bucket.tokens + LargerOf(0, retry - passed) * Rate)
          /\ Refilled(stamp + retry - 1)
               = SmallerOf(Full, bucket.tokens + LargerOf(0, (retry - 1) - passed) * Rate)
      <4>1. \A x : Refilled(x) =
              SmallerOf(Full, bucket.tokens + LargerOf(0, x - bucket.updated) * Rate)
        BY <2>3 DEF Refilled
      <4>2. /\ Refilled(stamp + retry) = SmallerOf(Full,
                  bucket.tokens + LargerOf(0, (stamp + retry) - bucket.updated) * Rate)
            /\ Refilled(stamp + retry - 1) = SmallerOf(Full,
                  bucket.tokens + LargerOf(0, (stamp + retry - 1) - bucket.updated) * Rate)
        BY <4>1, Zenon
      <4>3. (stamp + retry) - bucket.updated = retry - passed
            /\ (stamp + retry - 1) - bucket.updated = (retry - 1) - passed
        BY <2>1, <3>1
      <4> HIDE DEF stamp, retry, passed
      <4>4. QED
        BY <4>2, <4>3, Zenon
    <3> HIDE DEF stamp, retry, passed
    <3>4. /\ Rate * (retry - passed) = Rate * retry - Rate * passed
          /\ Rate * ((retry - 1) - passed) = Rate * (retry - 1) - Rate * passed
          /\ Rate * retry \in Int /\ Rate * passed \in Int /\ Rate * (retry - 1) \in Int
      BY <2>1, <3>1, Distributes
    <3>5. bucket.tokens + Rate * (retry - passed) >= Unit
      BY <2>1, <3>1, <3>4
    <3>6. retry - passed > 0
      <4>1. CASE retry - passed <= 0
        <5>1. Rate * (retry - passed) <= Rate * 0 /\ Rate * 0 = 0
          BY <2>1, <3>1, <4>1, Monotone
        <5>2. Rate * (retry - passed) \in Int
          BY <3>4
        <5>3. QED
          BY <2>1, <3>1, <3>5, <5>1, <5>2
      <4>2. QED
        BY <3>1, <4>1
    <3>7. /\ LargerOf(0, retry - passed) = retry - passed
          /\ LargerOf(0, (retry - 1) - passed) = (retry - 1) - passed
      BY <3>1, <3>6 DEF LargerOf
    <3>8. (retry - passed) * Rate = Rate * (retry - passed)
          /\ ((retry - 1) - passed) * Rate = Rate * ((retry - 1) - passed)
      BY <2>1, <3>1
    <3>9. Refilled(stamp + retry) >= Unit
      BY <2>1, <3>1, <3>3, <3>4, <3>5, <3>7, <3>8 DEF SmallerOf
    <3>10. Refilled(stamp + retry - 1) < Unit
      BY <2>1, <3>1, <3>3, <3>4, <3>7, <3>8 DEF SmallerOf
    <3>11. QED
      BY <3>9, <3>10 DEF stamp, retry
  <2>4. QED
    BY <2>2, <2>3
<1>4. QED
  BY <1>1, <1>2, <1>3, BucketInvariance, PTL DEF BucketSpec

=============================================================================
