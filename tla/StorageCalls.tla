----------------------------- MODULE StorageCalls -----------------------------
(***************************************************************************)
(* One call of the storage API from end to end: the Python client with its *)
(* retries, the handlers of services/storage with the access policy, the   *)
(* s3store client with the retries of the AWS SDK below it, and S3.        *)
(*                                                                         *)
(* Every hop may lose an answer: whoever waits gives up, while what it     *)
(* asked for is still on its way and may happen later.                     *)
(*                                                                         *)
(* Object data, keys and metadata are left out: there is one object, and   *)
(* what may be wrong with a request is its "flaw".  Validity periods are   *)
(* in minutes.                                                             *)
(***************************************************************************)
EXTENDS Integers, Sequences, FiniteSets

CONSTANTS
    Calls,            \* calls of the API
    MaxAttempts,      \* ClientConfig.max_attempts
    SdkAttempts,      \* the attempts of the AWS SDK's standard retryer
    Policies,         \* access files
    Services,         \* the configured validity periods
    Requests,         \* what a call may ask for
    Workloads,        \* what the calls of one run ask for
    ProviderFailures, \* statuses with which S3 may refuse anything
    Earlier,          \* an upload created before
    NoUpload

Presigns == {"presign_get", "presign_put", "presign_part", "upload"}
OnUpload == {"presign_part", "complete", "abort"}
Ops == {"stat", "delete", "create"} \cup Presigns \cup OnUpload
Capability(op) ==
    IF op \in {"stat", "presign_get"} THEN "read"
    ELSE IF op = "delete" THEN "delete" ELSE "write"

Created == [call : Calls, n : 1..MaxAttempts, k : 1..SdkAttempts]
UploadIds == Created \cup {Earlier}

\* What may be wrong with a request: found by decode, by authorize, by
\* ValidateObjectInput, or by the handler of the operation and s3store.
DecodeFlaws == {"too_large", "json"}
ObjectFlaws == {"object", "metadata"}
FieldFlaws == {"size", "checksum", "upload_id", "part_number", "parts", "expires_in"}

\* config.Load and CompilePolicy: without them the service does not start.  The
\* principals of a file come in any order.
ValidService(s) == 1 <= s.default /\ s.default <= s.max /\ s.max <= 60

CompilePolicy(p) ==
    /\ p.namespaces # {} /\ p.principals # <<>>
    /\ \A i \in DOMAIN p.principals :
         LET grants == p.principals[i].grants
         IN  /\ p.principals[i].tokens # {} /\ grants # <<>>
             /\ DOMAIN grants \subseteq p.namespaces
             /\ \A name \in DOMAIN grants : grants[name] # {}
    /\ \A i, j \in DOMAIN p.principals :
         i # j => p.principals[i].tokens \cap p.principals[j].tokens = {}

ASSUME CallConstants ==
    /\ MaxAttempts \in Nat \ {0} /\ SdkAttempts \in Nat \ {0}
    /\ Earlier \notin Created /\ NoUpload \notin UploadIds
    /\ ProviderFailures \subseteq {400, 403, 409, 412, 500, 503}
    /\ \A s \in Services : s.default \in Int /\ s.max \in Int
    /\ \A p \in Policies : DOMAIN p.principals \subseteq Nat \ {0}
    /\ \A req \in Requests :
         /\ req.op \in Ops
         /\ req.flaw \in {"none", "namespace"} \cup DecodeFlaws \cup ObjectFlaws \cup FieldFlaws
    /\ Workloads \subseteq [Calls -> Requests]

VARIABLES
    policy,    \* the access policy of the running service
    service,   \* its validity periods
    call,      \* the client's side of every call
    jobs,      \* requests to the service; k = 0 until the handler runs, then
               \* the attempt of the SDK that is under way
    s3,        \* requests to S3 that it may still execute
    uploads,   \* the multipart uploads at S3
    object,    \* whose content the object has
    known,     \* the upload IDs that clients have got
    signed,    \* the validity a presigned request was given
    expired,   \* the calls whose presigned request is too old
    did,       \* history: the calls that had their effect at S3
    lost       \* history: the calls for which somebody waited in vain

clientVars == <<call, known>>
s3Vars == <<uploads, object, did>>
vars == <<policy, service, call, jobs, s3, uploads, object, known,
          signed, expired, did, lost>>

Init ==
    /\ policy \in {p \in Policies : CompilePolicy(p)}
    /\ service \in {s \in Services : ValidService(s)}
    /\ \E req \in Workloads :
         call = [c \in Calls |->
                   [req |-> req[c], target |-> NoUpload, pc |-> "idle",
                    plane |-> "control", n |-> 1, outcome |-> "none"]]
    /\ jobs = {} /\ s3 = {}
    /\ uploads = [u \in UploadIds |-> IF u = Earlier THEN "open" ELSE "none"]
    /\ object \in {"absent", Earlier}
    /\ known = {Earlier}
    /\ signed = [c \in Calls |-> 0]
    /\ expired = {} /\ did = {} /\ lost = {}

-----------------------------------------------------------------------------
(* The client *)

\* Fault: every control request is repeated.
Retry_All(op) == TRUE

\* The retry flag in the table of operations.
Retry(op) == op \notin {"create", "complete"}

\* A direct request comes from a program that speaks HTTP itself, does not check
\* what it sends and tries once.
Attempts(req) == IF Retry(req.op) /\ ~req.direct THEN MaxAttempts ELSE 1

\* What the request models and encode_control_payload find out before anything
\* is sent; the prefix of the namespace, its longest validity and an empty
\* checksum are not among it.
ClientRefuses(req) ==
    /\ ~req.direct
    /\ req.flaw \in {"namespace", "too_large"} \cup ObjectFlaws \cup (FieldFlaws \ {"checksum"})

RetryableStatus(status) == status \in {408, 429, 500, 502, 503, 504}

ResponseError(status) ==
    CASE status = 400 -> "invalid"      [] status = 401 -> "unauthorized"
      [] status = 403 -> "forbidden"    [] status = 404 -> "not_found"
      [] status = 409 -> "conflict"     [] status = 412 -> "precondition"
      [] status = 413 -> "too_large"    [] OTHER -> "unavailable"

\* An attempt has failed in a way that another one may mend.
Again(r) ==
    IF r.n < Attempts(r.req) THEN [r EXCEPT !.pc = "sending", !.n = @ + 1]
    ELSE [r EXCEPT !.pc = "done", !.outcome = "unavailable"]

\* Fault: an attempt whose answer allows another one is not counted.
Received_Uncounted(r, status) ==
    IF status = 200 THEN [r EXCEPT !.pc = "done", !.outcome = "ok"]
    ELSE IF RetryableStatus(status) /\ Attempts(r.req) > 1 THEN [r EXCEPT !.pc = "sending"]
    ELSE [r EXCEPT !.pc = "done", !.outcome = ResponseError(status)]

\* What a status makes of the call.  upload_bytes and upload_file go on with the
\* presigned PUT, counting anew.
Received(r, status) ==
    IF status = 200 /\ r.req.op = "upload" /\ r.plane = "control"
    THEN [r EXCEPT !.pc = "sending", !.plane = "data", !.n = 1]
    ELSE IF status = 200 THEN [r EXCEPT !.pc = "done", !.outcome = "ok"]
    ELSE IF RetryableStatus(status) THEN Again(r)
    ELSE [r EXCEPT !.pc = "done", !.outcome = ResponseError(status)]

Waits(c, plane, n) ==
    call[c].pc = "waiting" /\ call[c].plane = plane /\ call[c].n = n

\* The method is called with an upload ID the caller knows.
Start(c) ==
    /\ call[c].pc = "idle"
    /\ \E u \in IF call[c].req.op \in OnUpload THEN known ELSE {NoUpload} :
         call' = [call EXCEPT ![c] =
                    IF ClientRefuses(@.req)
                    THEN [@ EXCEPT !.pc = "done", !.target = u, !.outcome = "refused"]
                    ELSE [@ EXCEPT !.pc = "sending", !.target = u]]
    /\ UNCHANGED <<policy, service, jobs, s3, known, signed, expired, lost>>
    /\ UNCHANGED s3Vars

\* The first attempt, or the next one when the back-off is over.
Send(c) ==
    /\ call[c].pc = "sending"
    /\ call' = [call EXCEPT ![c].pc = "waiting"]
    /\ \/ /\ call[c].plane = "control"
          /\ jobs' = jobs \cup {[call |-> c, n |-> call[c].n, k |-> 0]}
          /\ UNCHANGED s3
       \/ /\ call[c].plane = "data"
          /\ s3' = s3 \cup {[call |-> c, plane |-> "data", n |-> call[c].n, k |-> 0]}
          /\ UNCHANGED jobs
    /\ UNCHANGED <<policy, service, known, signed, expired, lost>>
    /\ UNCHANGED s3Vars

\* httpx.TransportError: a timeout or a broken connection; what was sent may have
\* arrived or still arrive.
TransportError(c) ==
    /\ call[c].pc = "waiting"
    /\ call' = [call EXCEPT ![c] = Again(@)]
    /\ lost' = lost \cup {c}
    /\ UNCHANGED <<policy, service, jobs, s3, known, signed, expired>>
    /\ UNCHANGED s3Vars

-----------------------------------------------------------------------------
(* The handlers *)

\* The principal with the token; the last one found counts.
Authenticate(token) ==
    LET matching == {i \in DOMAIN policy.principals : token \in policy.principals[i].tokens}
    IN  IF matching = {} THEN 0 ELSE CHOOSE i \in matching : \A j \in matching : j <= i

\* Fault: a grant for any namespace is enough.
Authorize_AnyNamespace(req) ==
    LET matched == Authenticate(req.token)
        grants  == policy.principals[matched].grants
    IN  matched # 0 /\ \E name \in DOMAIN grants : Capability(req.op) \in grants[name]

Authorize(req) ==
    LET matched == Authenticate(req.token)
        grants  == policy.principals[matched].grants
    IN  /\ matched # 0
        /\ req.namespace \in DOMAIN grants
        /\ Capability(req.op) \in grants[req.namespace]

\* PresignTTL of the contract: without expires_in it is a quarter of an hour.
PresignTTL(req) == IF req.ttl = 0 THEN 15 ELSE req.ttl

\* The handler's checks in their order: the middleware, decode, authorize,
\* storeAndValidate, the fields of the operation, and s3store's own.  "ready" is
\* the flag of StorageService, read once.
Verdict(req, ready) ==
    IF Authenticate(req.token) = 0 THEN 401
    ELSE IF ~ready THEN 503
    ELSE IF req.flaw = "too_large" THEN 413
    ELSE IF req.flaw \in {"json", "namespace"} THEN 400
    ELSE IF ~Authorize(req) THEN 403
    ELSE IF req.flaw \in ObjectFlaws \cup FieldFlaws THEN 400
    ELSE IF req.op \in Presigns /\ PresignTTL(req) \notin 1..service.max THEN 400
    ELSE 200

\* The error of s3store for an answer of S3.
ClassifyError(status) ==
    CASE status = 400 -> "ErrInvalidArgument" [] status \in {401, 403} -> "ErrForbidden"
      [] status = 404 -> "ErrNotFound"        [] status = 409 -> "ErrConflict"
      [] status = 412 -> "ErrPreconditionFailed" [] OTHER -> "ErrUnavailable"

\* Fault: a conflict is reported as an absent upload.
StoreStatus_ConflictIsAbsent(kind) ==
    CASE kind = "ErrInvalidArgument" -> 400 [] kind \in {"ErrNotFound", "ErrConflict"} -> 404
      [] kind = "ErrPreconditionFailed" -> 412 [] OTHER -> 503

\* What the client sees of such an error; that the service itself was denied is none
\* of its business.
StoreStatus(kind) ==
    CASE kind = "ErrInvalidArgument" -> 400 [] kind = "ErrNotFound" -> 404
      [] kind = "ErrConflict" -> 409 [] kind = "ErrPreconditionFailed" -> 412 [] OTHER -> 503

\* The handler writes its answer; nobody may be there to read it.
Answer(j, status, u) ==
    LET heard == Waits(j.call, "control", j.n)
    IN  /\ call' = IF heard THEN [call EXCEPT ![j.call] = Received(@, status)] ELSE call
        /\ known' = IF heard /\ status = 200 /\ u # NoUpload THEN known \cup {u} ELSE known

\* Fault: a deletion is answered while S3 is still asked.
Handle_Async(j) ==
    /\ j.k = 0
    /\ Verdict(call[j.call].req, TRUE) = 200
    /\ Answer(j, 200, NoUpload)
    /\ jobs' = jobs \ {j}
    /\ s3' = s3 \cup {[call |-> j.call, plane |-> "control", n |-> j.n, k |-> 1]}
    /\ UNCHANGED <<policy, service, signed, expired, lost>>
    /\ UNCHANGED s3Vars

\* The handler answers for itself.
Refuses(j, verdict) ==
    /\ verdict # 200
    /\ Answer(j, verdict, NoUpload)
    /\ jobs' = jobs \ {j}
    /\ UNCHANGED <<s3, signed>>

\* Signing needs no request to S3, but may find no credentials.
Signs(j) ==
    /\ call[j.call].req.op \in Presigns
    /\ \/ Answer(j, 503, NoUpload) /\ UNCHANGED signed
       \/ /\ Answer(j, 200, NoUpload)
          /\ signed' = [signed EXCEPT ![j.call] = PresignTTL(call[j.call].req)]
    /\ jobs' = jobs \ {j}
    /\ UNCHANGED s3

\* The one request to S3 of the operation goes out.
CallsStore(j) ==
    /\ call[j.call].req.op \notin Presigns
    /\ jobs' = (jobs \ {j}) \cup {[j EXCEPT !.k = 1]}
    /\ s3' = s3 \cup {[call |-> j.call, plane |-> "control", n |-> j.n, k |-> 1]}
    /\ UNCHANGED <<signed, clientVars>>

\* A handler runs.
Handle(j) ==
    \E ready \in BOOLEAN :
      LET verdict == Verdict(call[j.call].req, ready)
      IN  /\ j.k = 0
          /\ Refuses(j, verdict) \/ (verdict = 200 /\ (Signs(j) \/ CallsStore(j)))
          /\ UNCHANGED <<policy, service, expired, lost>>
          /\ UNCHANGED s3Vars

\* The request context ends with its connection: a handler whose client has gone
\* may stop, and a request may be lost before a handler runs.
Cancel(j) ==
    /\ ~Waits(j.call, "control", j.n)
    /\ jobs' = jobs \ {j}
    /\ UNCHANGED <<policy, service, s3, signed, expired, lost>>
    /\ UNCHANGED clientVars /\ UNCHANGED s3Vars

\* An attempt of the SDK got no answer, or one that it retries.
SdkAgain(j, pending) ==
    \/ /\ j.k < SdkAttempts
       /\ jobs' = (jobs \ {j}) \cup {[j EXCEPT !.k = @ + 1]}
       /\ s3' = pending \cup {[call |-> j.call, plane |-> "control", n |-> j.n, k |-> j.k + 1]}
       /\ UNCHANGED clientVars
    \/ /\ j.k = SdkAttempts
       /\ Answer(j, 503, NoUpload)
       /\ jobs' = jobs \ {j}
       /\ s3' = pending

SdkGivesUp(j) ==
    /\ j.k > 0
    /\ SdkAgain(j, s3)
    /\ lost' = lost \cup {j.call}
    /\ UNCHANGED <<policy, service, signed, expired>>
    /\ UNCHANGED s3Vars

-----------------------------------------------------------------------------
(* S3 *)

Asked(r) == IF r.plane = "data" THEN "put" ELSE call[r.call].req.op
NewUpload(r) == [call |-> r.call, n |-> r.n, k |-> r.k]

\* The status when nothing else goes wrong.
Regular(r) ==
    CASE Asked(r) = "stat" -> IF object = "absent" THEN 404 ELSE 200
      [] Asked(r) \in {"complete", "abort"} ->
           IF uploads[call[r.call].target] = "open" THEN 200 ELSE 404
      [] Asked(r) = "put" -> IF r.call \in expired THEN 403 ELSE 200
      [] OTHER -> 200

Perform(r) ==
    LET op == Asked(r) IN
    /\ uploads' = CASE op = "create"   -> [uploads EXCEPT ![NewUpload(r)] = "open"]
                    [] op = "complete" -> [uploads EXCEPT ![call[r.call].target] = "completed"]
                    [] op = "abort"    -> [uploads EXCEPT ![call[r.call].target] = "aborted"]
                    [] OTHER           -> uploads
    /\ object' = CASE op = "delete"              -> "absent"
                   [] op \in {"complete", "put"} -> r.call
                   [] OTHER                      -> object
    /\ did' = did \cup {r.call}

\* The answer reaches whoever asked.
Heard(r, status) ==
    LET j == [call |-> r.call, n |-> r.n, k |-> r.k]
        u == IF Asked(r) = "create" THEN NewUpload(r) ELSE NoUpload
    IN  \/ /\ r.plane = "data"
           /\ Waits(r.call, "data", r.n)
           /\ call' = [call EXCEPT ![r.call] = Received(@, status)]
           /\ s3' = s3 \ {r}
           /\ UNCHANGED <<jobs, known>>
        \/ /\ r.plane = "control"
           /\ j \in jobs
           /\ status \in {500, 503}
           /\ SdkAgain(j, s3 \ {r})
        \/ /\ r.plane = "control"
           /\ j \in jobs
           /\ status \notin {500, 503}
           /\ Answer(j, IF status = 200 THEN 200 ELSE StoreStatus(ClassifyError(status)), u)
           /\ jobs' = jobs \ {j}
           /\ s3' = s3 \ {r}

Execute(r) ==
    /\ \E status \in {Regular(r)} \cup ProviderFailures :
         /\ IF status = 200 THEN Perform(r) ELSE UNCHANGED s3Vars
         /\ \/ Heard(r, status)
            \/ s3' = s3 \ {r} /\ UNCHANGED <<jobs, clientVars>>
    /\ UNCHANGED <<policy, service, signed, expired, lost>>

\* The validity of a presigned request ends.
Expire(c) ==
    /\ c \notin expired
    /\ signed[c] # 0 /\ call[c].plane = "data"
    /\ expired' = expired \cup {c}
    /\ UNCHANGED <<policy, service, call, jobs, s3, known, signed, lost>>
    /\ UNCHANGED s3Vars

Next ==
    \/ \E c \in Calls : Start(c) \/ Send(c) \/ TransportError(c) \/ Expire(c)
    \/ \E j \in jobs : Handle(j) \/ Cancel(j) \/ SdkGivesUp(j)
    \/ \E r \in s3 : Execute(r)

Spec == Init /\ [][Next]_vars

\* A call that has begun goes on, and the timeouts of httpx end every wait.
Fairness == \A c \in Calls : WF_vars(Send(c)) /\ WF_vars(TransportError(c))

FairSpec == Spec /\ Fairness

-----------------------------------------------------------------------------
(* Properties *)

Outcomes == {"none", "ok", "refused", "invalid", "unauthorized", "forbidden", "not_found",
             "conflict", "precondition", "too_large", "unavailable"}

CallState ==
    [req : Requests, target : UploadIds \cup {NoUpload},
     pc : {"idle", "sending", "waiting", "done"}, plane : {"control", "data"},
     n : 1..MaxAttempts, outcome : Outcomes]

\* Every variable has its type.
TypeOK ==
    /\ policy \in {p \in Policies : CompilePolicy(p)}
    /\ service \in {s \in Services : ValidService(s)}
    /\ call \in [Calls -> CallState]
    /\ jobs \subseteq [call : Calls, n : 1..MaxAttempts, k : 0..SdkAttempts]
    /\ s3 \subseteq [call : Calls, plane : {"control", "data"}, n : 1..MaxAttempts,
                     k : 0..SdkAttempts]
    /\ uploads \in [UploadIds -> {"none", "open", "completed", "aborted"}]
    /\ object \in {"absent", Earlier} \cup Calls
    /\ known \subseteq UploadIds
    /\ signed \in [Calls -> 0..service.max]
    /\ expired \subseteq Calls /\ did \subseteq Calls /\ lost \subseteq Calls

Mutating == {"delete", "create", "complete", "abort", "upload"}

\* What the access file says, however its principals are ordered.
Allowed(req) ==
    \E i \in DOMAIN policy.principals :
        /\ req.token \in policy.principals[i].tokens
        /\ req.namespace \in DOMAIN policy.principals[i].grants
        /\ Capability(req.op) \in policy.principals[i].grants[req.namespace]

\* A success is one: what was asked for happened at S3.  And what happened at S3
\* is reported as a success, unless an answer about this call was lost on its
\* way: no error is raised for a call that in truth worked.
SuccessIsTrue ==
    \A c \in Calls : call[c].pc = "done" =>
        /\ call[c].outcome = "ok" /\ call[c].req.op \in Mutating => c \in did
        /\ c \in did /\ call[c].outcome # "ok" => c \in lost

\* The service denies only what the file denies: an unauthorized caller has no
\* listed token, a forbidden one has no grant (a presigned request may also be
\* forbidden by S3).
DeniedByPolicy ==
    \A c \in Calls :
        /\ call[c].outcome = "unauthorized" =>
             \A i \in DOMAIN policy.principals :
                 call[c].req.token \notin policy.principals[i].tokens
        /\ call[c].outcome = "forbidden" /\ call[c].plane = "control" =>
             ~Allowed(call[c].req)

\* When an abort succeeds or finds nothing, the upload is over, whatever else was
\* going on with it.
AbortedIsOver ==
    \A c \in Calls :
        (call[c].req.op = "abort" /\ call[c].outcome \in {"ok", "not_found"}) =>
            uploads[call[c].target] \in {"completed", "aborted"}

\* The caller is told the truth, whichever of the three parties answers.
OutcomesFit == SuccessIsTrue /\ DeniedByPolicy /\ AbortedIsOver

\* A call whose answers all arrived leaves nothing on its way: nothing of it
\* happens after it has returned.
NothingLeftBehind ==
    \A c \in Calls : (call[c].pc = "done" /\ c \notin lost) =>
        ~\E x \in jobs \cup s3 : x.call = c

\* Nothing is signed, sent to S3 or done there for a request that the access file
\* does not allow, and nothing is signed for longer than the service allows.
OnlyAllowed ==
    \A c \in Calls :
        /\ (c \in did \/ signed[c] # 0 \/ \E r \in s3 : r.call = c) => Allowed(call[c].req)
        /\ signed[c] <= service.max

\* The retries of the client and of the SDK below it do not multiply: no call makes
\* more attempts than it may, and one create_multipart leaves at most as many
\* uploads at S3 as the SDK makes attempts.
CreatesBounded ==
    \A c \in Calls :
        /\ call[c].n <= Attempts(call[c].req)
        /\ Cardinality({u \in Created : u.call = c /\ uploads[u] # "none"}) <= SdkAttempts

\* Every call returns, whatever is lost and however S3 and the service fail.
EveryCallReturns ==
    \A c \in Calls : (call[c].pc = "sending") ~> (call[c].pc = "done")
=============================================================================
