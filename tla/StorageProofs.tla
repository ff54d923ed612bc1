----------------------------- MODULE StorageProofs -----------------------------
(***************************************************************************)
(* What the storage service guarantees: StorageCalls, its API, for any     *)
(* number of calls, attempts, policies and services, and StorageService,   *)
(* its process, for any namespaces and requests.                           *)
(*                                                                         *)
(* Of the API: nothing happens that the access file does not allow, the    *)
(* retries do not multiply, the caller is told the truth, and a call none  *)
(* of whose answers was lost leaves nothing on its way.  None of these is  *)
(* inductive.  They need what is on its way for a call (Travels), that an  *)
(* upload ID is used once (Fresh), that without a lost answer there is at  *)
(* most one chain of requests, which ends at the waiting client (Chained), *)
(* and what an outcome says (Told).                                        *)
(*                                                                         *)
(* Of the process: CleanExit is not inductive either.  That the requests   *)
(* are over is decided when Shutdown returns, that the loop is over when   *)
(* run returns, and that the flag is down when the loop ends (Drained,     *)
(* Lowered).                                                               *)
(***************************************************************************)
EXTENDS StorageCalls, StorageService, FiniteSetTheorems, TLAPS

Req(c) == call[c].req
JobsOf(c) == {j \in jobs : j.call = c}
OnWay(c) == {r \in s3 : r.call = c}

\* Whatever is on its way for a call was allowed and is counted.
Travels(c) ==
    /\ call[c].n <= Attempts(Req(c))
    /\ call[c].pc # "done" => call[c].outcome = "none"
    /\ call[c].pc = "idle" => JobsOf(c) = {} /\ OnWay(c) = {}
    /\ call[c].plane = "data" => Allowed(Req(c)) /\ Req(c).op = "upload"
    /\ signed[c] # 0 \/ c \in did => Allowed(Req(c))
    /\ \A j \in JobsOf(c) :
         /\ j.n <= Attempts(Req(c))
         /\ j.k > 0 => Allowed(Req(c)) /\ Req(c).op \notin Presigns
    /\ \A r \in OnWay(c) :
         /\ Allowed(Req(c)) /\ r.n <= Attempts(Req(c))
         /\ r.plane = "data" => r.k = 0 /\ Req(c).op = "upload"
         /\ r.plane = "control" => r.k > 0 /\ Req(c).op \notin Presigns

\* The uploads S3 makes for a call are made by its only attempt, each with an ID of
\* its own.
Fresh(c) ==
    /\ \A u \in Created :
         u.call = c /\ uploads[u] # "none" => Req(c).op = "create" /\ u.n = 1
    /\ Req(c).op = "create" =>
         /\ call[c].pc \in {"idle", "sending"} =>
              /\ JobsOf(c) = {} /\ OnWay(c) = {}
              /\ \A u \in Created : u.call = c => uploads[u] = "none"
         /\ \A i, j \in JobsOf(c) : i = j
         /\ \A j \in JobsOf(c), r \in OnWay(c) : r.k <= j.k
         /\ \A j \in JobsOf(c), u \in Created :
              u.call = c /\ uploads[u] # "none" => u.k <= j.k
         /\ \A r \in OnWay(c) : uploads[NewUpload(r)] = "none"

\* Where no answer was lost, what is on its way is one request, and somebody waits
\* for its answer.
Chained(c) ==
    c \notin lost =>
        /\ \A j \in JobsOf(c) : Waits(c, "control", j.n)
        /\ \A i, j \in JobsOf(c) : i = j
        /\ \A r \in OnWay(c) :
             /\ r.plane = "data" => Waits(c, "data", r.n)
             /\ r.plane = "control" => [call |-> c, n |-> r.n, k |-> r.k] \in JobsOf(c)
        /\ c \in did =>
             \/ call[c].outcome = "ok"
             \/ call[c].pc = "waiting" /\ OnWay(c) = {} /\ \A j \in JobsOf(c) : j.k > 0

Over == {"completed", "aborted"}

\* An outcome is the truth.
Told(c) ==
    /\ call[c].outcome = "ok" /\ Req(c).op \in Mutating => c \in did
    /\ call[c].outcome = "unauthorized" =>
         \A i \in DOMAIN policy.principals : Req(c).token \notin policy.principals[i].tokens
    /\ call[c].outcome = "forbidden" /\ call[c].plane = "control" => ~Allowed(Req(c))
    /\ Req(c).op \in OnUpload /\ call[c].pc # "idle" => call[c].target \in known
    /\ Req(c).op = "abort" /\ call[c].outcome \in {"ok", "not_found"} =>
         uploads[call[c].target] \in Over

IInv ==
    /\ TypeOK
    /\ \A u \in known : uploads[u] # "none"
    /\ \A c \in Calls : Travels(c) /\ Fresh(c) /\ Chained(c) /\ Told(c)

-----------------------------------------------------------------------------
(* Policies and verdicts *)

\* Nobody else has the token, so whoever has it is the one found.
LEMMA OneHolder ==
    ASSUME TypeOK, NEW token, NEW i \in DOMAIN policy.principals,
           token \in policy.principals[i].tokens
    PROVE  Authenticate(token) = i /\ i # 0
<1>1. policy \in Policies /\ CompilePolicy(policy)
  BY DEF TypeOK
<1>2. DOMAIN policy.principals \subseteq Nat \ {0}
  BY <1>1, CallConstants
<1>3. \A k \in DOMAIN policy.principals : token \in policy.principals[k].tokens => k = i
  BY <1>1 DEF CompilePolicy
<1>4. {k \in DOMAIN policy.principals : token \in policy.principals[k].tokens} = {i}
  BY <1>3
<1>5. i \in Nat \ {0} /\ \A k \in {i} : k <= i
  BY <1>2
<1>6. (CHOOSE k \in {i} : \A m \in {i} : m <= k) = i
  BY <1>5
<1>7. QED
  BY <1>4, <1>5, <1>6 DEF Authenticate

LEMMA NoHolder ==
    ASSUME TypeOK, NEW token,
           \A i \in DOMAIN policy.principals : token \notin policy.principals[i].tokens
    PROVE  Authenticate(token) = 0
  BY DEF Authenticate

LEMMA AuthorizeIsAllowed ==
    ASSUME TypeOK, NEW req
    PROVE  Authorize(req) <=> Allowed(req)
<1>1. CASE \E i \in DOMAIN policy.principals : req.token \in policy.principals[i].tokens
  <2>1. PICK i \in DOMAIN policy.principals : req.token \in policy.principals[i].tokens
    BY <1>1
  <2>2. Authenticate(req.token) = i /\ i # 0
    BY <2>1, OneHolder
  <2>3. \A k \in DOMAIN policy.principals : req.token \in policy.principals[k].tokens => k = i
    BY <2>2, OneHolder
  <2>4. QED
    BY <2>1, <2>2, <2>3 DEF Authorize, Allowed
<1>2. CASE ~ \E i \in DOMAIN policy.principals : req.token \in policy.principals[i].tokens
  BY <1>2, NoHolder DEF Authorize, Allowed
<1>3. QED
  BY <1>1, <1>2

Statuses == {200, 400, 401, 403, 404, 409, 412, 413, 500, 503}

LEMMA VerdictIs ==
    ASSUME TypeOK, NEW req, NEW isReady \in BOOLEAN
    PROVE  LET verdict == Verdict(req, isReady)
           IN  /\ verdict \in Statuses \ {404}
               /\ verdict = 200 => Allowed(req)
               /\ verdict = 200 /\ req.op \in Presigns => PresignTTL(req) \in 1..service.max
               /\ verdict = 401 =>
                    \A i \in DOMAIN policy.principals : req.token \notin policy.principals[i].tokens
               /\ verdict = 403 => ~Allowed(req)
<1>1. Authenticate(req.token) = 0 =>
        \A i \in DOMAIN policy.principals : req.token \notin policy.principals[i].tokens
  BY OneHolder
<1>2. QED
  BY <1>1, AuthorizeIsAllowed, SMTT(60) DEF Verdict, Statuses

LEMMA StoreStatusIs ==
    ASSUME NEW status \in {200} \cup ProviderFailures \cup {403, 404}
    PROVE  /\ StoreStatus(ClassifyError(status)) \in Statuses \ {200, 401, 403}
           /\ StoreStatus(ClassifyError(status)) = 404 => status = 404
<1>1. status \in {200, 400, 403, 404, 409, 412, 500, 503}
  BY CallConstants
<1>2. QED
  BY <1>1 DEF StoreStatus, ClassifyError, Statuses

-----------------------------------------------------------------------------
(* What an answer makes of the waiting call *)

\* An answer with a status has arrived.
Answered(c, status) ==
    /\ call'[c].req = call[c].req /\ call'[c].target = call[c].target
    /\ call'[c].pc \in {"sending", "done"} /\ call'[c].n <= Attempts(Req(c))
    /\ call'[c].pc = "sending" =>
         /\ call'[c].outcome = call[c].outcome
         /\ \/ call'[c].plane = call[c].plane /\ Attempts(Req(c)) > 1 /\ status # 200
            \/ /\ status = 200 /\ Req(c).op = "upload"
               /\ call[c].plane = "control" /\ call'[c].plane = "data"
    /\ call'[c].pc = "done" =>
         /\ call'[c].plane = call[c].plane
         /\ call'[c].outcome = "ok" <=> status = 200
         /\ call'[c].outcome = "unauthorized" => status = 401
         /\ call'[c].outcome = "forbidden" => status = 403
         /\ call'[c].outcome = "not_found" => status = 404
         /\ call[c].plane = "control" /\ status = 200 => Req(c).op # "upload"

LEMMA AttemptsType ==
    ASSUME NEW req
    PROVE  Attempts(req) \in 1..MaxAttempts /\ MaxAttempts \in Nat /\ 1 \in 1..MaxAttempts
  BY CallConstants DEF Attempts

LEMMA ReceivedIs ==
    ASSUME NEW r \in CallState, NEW status \in Statuses, r.n <= Attempts(r.req)
    PROVE  /\ Received(r, status) \in CallState
           /\ Again(r) \in CallState
<1>1. /\ r.n \in Nat /\ Attempts(r.req) \in 1..MaxAttempts /\ 1 \in 1..MaxAttempts
      /\ r.n < Attempts(r.req) => r.n + 1 \in 1..MaxAttempts
  BY AttemptsType, CallConstants DEF CallState
<1>2. Again(r) \in CallState
  BY <1>1 DEF Again, CallState, Outcomes
<1>3. ResponseError(status) \in Outcomes
  BY DEF ResponseError, Outcomes, Statuses
<1>4. /\ [r EXCEPT !.pc = "sending", !.plane = "data", !.n = 1] \in CallState
      /\ \A outcome \in Outcomes : [r EXCEPT !.pc = "done", !.outcome = outcome] \in CallState
  BY <1>1 DEF CallState
<1>5. QED
  BY <1>2, <1>3, <1>4 DEF Received, Outcomes

LEMMA AnswerIs ==
    ASSUME TypeOK, NEW c \in Calls, NEW status \in Statuses, Travels(c),
           call' = [call EXCEPT ![c] = Received(@, status)]
    PROVE  Answered(c, status) /\ call' \in [Calls -> CallState]
<1> DEFINE r == call[c]
<1>1. call \in [Calls -> CallState] /\ r \in CallState /\ call'[c] = Received(r, status)
  BY DEF TypeOK
<1>2. r.n \in Nat /\ r.n <= Attempts(r.req) /\ Attempts(r.req) \in 1..MaxAttempts
      /\ MaxAttempts \in Nat
  BY <1>1, AttemptsType, CallConstants DEF Travels, Req, CallState
<1>3. call' \in [Calls -> CallState]
  BY <1>1, <1>2, ReceivedIs
<1>4. Answered(c, status)
  <2>1. CASE status = 200
    BY <1>1, <1>2, <2>1, CallConstants DEF Answered, Received, CallState, Req
  <2>2. CASE status # 200 /\ RetryableStatus(status)
    BY <1>1, <1>2, <2>2, CallConstants DEF Answered, Received, Again, CallState, Req
  <2>3. CASE status # 200 /\ ~RetryableStatus(status)
    <3>1. /\ call'[c] = [r EXCEPT !.pc = "done", !.outcome = ResponseError(status)]
      BY <1>1, <2>3 DEF Received
    <3>2. /\ ResponseError(status) # "ok"
          /\ ResponseError(status) = "unauthorized" => status = 401
          /\ ResponseError(status) = "forbidden" => status = 403
          /\ ResponseError(status) = "not_found" => status = 404
      BY DEF ResponseError, Statuses
    <3>3. QED
      BY <1>1, <1>2, <2>3, <3>1, <3>2 DEF Answered, CallState, Req
  <2>4. QED
    BY <2>1, <2>2, <2>3
<1>5. QED
  BY <1>3, <1>4

-----------------------------------------------------------------------------
(* The calls that do not move, and those of which only something is taken away *)

\* A step of c is none of another call.
MovesOnly(c) ==
    /\ UNCHANGED <<policy, service>>
    /\ \A d \in Calls \ {c} :
         /\ call'[d] = call[d] /\ signed'[d] = signed[d]
         /\ (d \in did' <=> d \in did) /\ (d \in lost' <=> d \in lost)
         /\ JobsOf(d)' = JobsOf(d) /\ OnWay(d)' = OnWay(d)

\* Uploads that are there stay there, those that are over stay over, and only an
\* upload of c is new.
UploadsGrow(c) ==
    /\ \A u \in UploadIds :
         /\ uploads[u] \in Over => uploads'[u] \in Over
         /\ uploads[u] # "none" => uploads'[u] # "none"
    /\ \A u \in Created : u.call # c /\ uploads[u] = "none" => uploads'[u] = "none"
    /\ known \subseteq known'

LEMMA AllowedStays == UNCHANGED policy => \A req : Allowed(req)' <=> Allowed(req)
  BY DEF Allowed

LEMMA OthersStay ==
    ASSUME IInv, NEW c \in Calls, MovesOnly(c), UploadsGrow(c), TypeOK',
           NEW d \in Calls, d # c
    PROVE  (Travels(d) /\ Fresh(d) /\ Chained(d) /\ Told(d))'
<1>1. /\ UNCHANGED policy
      /\ call'[d] = call[d] /\ signed'[d] = signed[d]
      /\ (d \in did' <=> d \in did) /\ (d \in lost' <=> d \in lost)
      /\ JobsOf(d)' = JobsOf(d) /\ OnWay(d)' = OnWay(d)
      /\ Travels(d) /\ Fresh(d) /\ Chained(d) /\ Told(d) /\ known \subseteq UploadIds
  BY DEF IInv, MovesOnly, TypeOK
<1>2. Travels(d)'
  BY <1>1, AllowedStays DEF Travels, Req, JobsOf, OnWay
<1>3. Fresh(d)'
  <2>1. \A u \in Created : u.call = d /\ uploads'[u] # "none" => uploads[u] # "none"
    BY DEF UploadsGrow
  <2>2. \A r \in OnWay(d) : Req(d).op = "create" => NewUpload(r) \in Created
    <3>1. ASSUME NEW r \in OnWay(d), Req(d).op = "create" PROVE NewUpload(r) \in Created
      <4>1. r \in s3 /\ r.call = d
        BY DEF OnWay
      <4>2. r.plane = "control" /\ r.k > 0
        BY <1>1, <3>1, <4>1 DEF Travels, TypeOK, IInv, Req
      <4>3. QED
        BY <4>1, <4>2, CallConstants DEF IInv, TypeOK, NewUpload, Created
    <3>2. QED
      BY <3>1
  <2>3. \A r \in OnWay(d) : Req(d).op = "create" => NewUpload(r).call = d
    BY DEF OnWay, NewUpload
  <2>4. QED
    BY <1>1, <2>1, <2>2, <2>3 DEF Fresh, Req, UploadsGrow
<1>4. Chained(d)'
  BY <1>1 DEF Chained, Waits
<1>5. Told(d)'
  <2>1. call[d].outcome \in {"ok", "not_found"} /\ Req(d).op = "abort" =>
          call[d].target \in UploadIds
    BY <1>1 DEF Told, Travels, OnUpload, TypeOK, IInv
  <2>2. QED
    BY <1>1, <2>1, AllowedStays DEF Told, Req, UploadsGrow
<1>6. QED
  BY <1>2, <1>3, <1>4, <1>5

\* What is left when only IInv of the acting call has to be shown.
LEMMA StepKeeps ==
    ASSUME IInv, NEW c \in Calls, MovesOnly(c), UploadsGrow(c), TypeOK',
           \A u \in known' : uploads'[u] # "none",
           (Travels(c) /\ Fresh(c) /\ Chained(c) /\ Told(c))'
    PROVE  IInv'
<1>1. \A d \in Calls : (Travels(d) /\ Fresh(d) /\ Chained(d) /\ Told(d))'
  BY OthersStay
<1>2. QED
  BY <1>1 DEF IInv

-----------------------------------------------------------------------------
(* The steps of the client *)

LEMMA Acting ==
    ASSUME IInv, NEW c \in Calls
    PROVE  /\ TypeOK /\ Travels(c) /\ Fresh(c) /\ Chained(c) /\ Told(c)
           /\ call \in [Calls -> CallState] /\ call[c] \in CallState
           /\ call[c].n \in 1..MaxAttempts /\ Attempts(Req(c)) \in 1..MaxAttempts
           /\ call[c].n \in Nat /\ Attempts(Req(c)) \in Nat
           /\ MaxAttempts \in Nat \ {0} /\ SdkAttempts \in Nat \ {0}
           /\ known \subseteq UploadIds
<1>1. call \in [Calls -> CallState] /\ call[c] \in CallState
  BY DEF IInv, TypeOK
<1>2. call[c].n \in 1..MaxAttempts /\ Attempts(Req(c)) \in 1..MaxAttempts
  BY <1>1, AttemptsType DEF CallState
<1>3. QED
  BY <1>1, <1>2, CallConstants DEF IInv, TypeOK

LEMMA StartKeeps ==
    ASSUME IInv, NEW c \in Calls, Start(c)
    PROVE  IInv'
<1>1. PICK u \in IF call[c].req.op \in OnUpload THEN known ELSE {NoUpload} :
        call' = [call EXCEPT ![c] =
                   IF ClientRefuses(@.req)
                   THEN [@ EXCEPT !.pc = "done", !.target = u, !.outcome = "refused"]
                   ELSE [@ EXCEPT !.pc = "sending", !.target = u]]
  BY DEF Start
<1>2. /\ UNCHANGED <<policy, service, jobs, s3, known, signed, expired, lost, uploads, object, did>>
      /\ call[c].pc = "idle"
  BY DEF Start, s3Vars
<1>3. u \in UploadIds \cup {NoUpload} /\ (Req(c).op \in OnUpload => u \in known)
  BY Acting DEF Req
<1>4. /\ call' \in [Calls -> CallState]
      /\ call'[c].req = call[c].req /\ call'[c].target = u /\ call'[c].n = call[c].n
      /\ call'[c].plane = call[c].plane
      /\ \/ call'[c].pc = "sending" /\ call'[c].outcome = call[c].outcome
         \/ call'[c].pc = "done" /\ call'[c].outcome = "refused"
      /\ \A d \in Calls \ {c} : call'[d] = call[d]
  BY <1>1, <1>3, Acting DEF CallState, Outcomes
<1>5. TypeOK'
  BY <1>2, <1>4 DEF IInv, TypeOK
<1>6. MovesOnly(c) /\ UploadsGrow(c)
  BY <1>2, <1>4 DEF MovesOnly, UploadsGrow, JobsOf, OnWay
<1>7. JobsOf(c)' = JobsOf(c) /\ OnWay(c)' = OnWay(c)
  BY <1>2 DEF JobsOf, OnWay
<1>8. Travels(c)'
  BY <1>2, <1>4, <1>7, Acting, AllowedStays DEF Travels, Req
<1>9. Fresh(c)'
  BY <1>2, <1>4, <1>7, Acting DEF Fresh, Req
<1>10. Chained(c)'
  BY <1>2, <1>4, <1>7, Acting DEF Chained, Travels, Waits
<1>11. Told(c)'
  BY <1>2, <1>3, <1>4, Acting DEF Told, Travels, Req
<1>12. \A x \in known' : uploads'[x] # "none"
  BY <1>2 DEF IInv
<1>13. QED
  BY <1>5, <1>6, <1>8, <1>9, <1>10, <1>11, <1>12, StepKeeps

LEMMA SendKeeps ==
    ASSUME IInv, NEW c \in Calls, Send(c)
    PROVE  IInv'
<1> DEFINE job == [call |-> c, n |-> call[c].n, k |-> 0]
           request == [call |-> c, plane |-> "data", n |-> call[c].n, k |-> 0]
<1>1. /\ UNCHANGED <<policy, service, known, signed, expired, lost, uploads, object, did>>
      /\ call[c].pc = "sending" /\ call' = [call EXCEPT ![c].pc = "waiting"]
      /\ \/ call[c].plane = "control" /\ jobs' = jobs \cup {job} /\ UNCHANGED s3
         \/ call[c].plane = "data" /\ s3' = s3 \cup {request} /\ UNCHANGED jobs
  BY DEF Send, s3Vars
<1>2. /\ call' \in [Calls -> CallState]
      /\ call'[c].req = call[c].req /\ call'[c].target = call[c].target
      /\ call'[c].n = call[c].n /\ call'[c].plane = call[c].plane
      /\ call'[c].pc = "waiting" /\ call'[c].outcome = call[c].outcome
      /\ \A d \in Calls \ {c} : call'[d] = call[d]
  BY <1>1, Acting DEF CallState
<1>3. /\ job \in [call : Calls, n : 1..MaxAttempts, k : 0..SdkAttempts]
      /\ request \in [call : Calls, plane : {"control", "data"}, n : 1..MaxAttempts,
                      k : 0..SdkAttempts]
      /\ job.call = c /\ job.n = call[c].n /\ job.k = 0
      /\ request.call = c /\ request.n = call[c].n /\ request.k = 0 /\ request.plane = "data"
  BY Acting
<1> HIDE DEF job, request
<1>4. TypeOK'
  BY <1>1, <1>2, <1>3 DEF IInv, TypeOK
<1>5. MovesOnly(c) /\ UploadsGrow(c)
  BY <1>1, <1>2, <1>3 DEF MovesOnly, UploadsGrow, JobsOf, OnWay
<1>6. \/ /\ call[c].plane = "control" /\ JobsOf(c)' = JobsOf(c) \cup {job}
         /\ OnWay(c)' = OnWay(c)
      \/ /\ call[c].plane = "data" /\ JobsOf(c)' = JobsOf(c)
         /\ OnWay(c)' = OnWay(c) \cup {request}
  BY <1>1, <1>3 DEF JobsOf, OnWay
<1>7. Travels(c)'
  BY <1>1, <1>2, <1>3, <1>6, Acting, AllowedStays DEF Travels, Req
<1>8. Fresh(c)'
  <2>1. call[c].plane = "data" => Req(c).op # "create"
    BY Acting DEF Travels
  <2>2. QED
    BY <1>1, <1>2, <1>3, <1>6, <2>1, Acting DEF Fresh, Req
<1>9. Chained(c)'
  <2>1. c \notin lost => JobsOf(c) = {} /\ c \notin did
    BY <1>1, Acting DEF Chained, Travels, Waits
  <2>2. c \notin lost => OnWay(c) = {}
    <3>1. ASSUME c \notin lost, NEW r \in OnWay(c) PROVE FALSE
      <4>1. r.plane \in {"control", "data"}
        BY DEF OnWay, IInv, TypeOK
      <4>2. QED
        BY <1>1, <2>1, <3>1, <4>1, Acting DEF Chained, Waits
    <3>2. QED
      BY <3>1
  <2>3. QED
    BY <1>1, <1>2, <1>3, <1>6, <2>1, <2>2 DEF Chained, Waits
<1>10. Told(c)'
  BY <1>1, <1>2, Acting DEF Told, Travels, Req
<1>11. \A x \in known' : uploads'[x] # "none"
  BY <1>1 DEF IInv
<1>12. QED
  BY <1>4, <1>5, <1>7, <1>8, <1>9, <1>10, <1>11, StepKeeps

LEMMA TransportErrorKeeps ==
    ASSUME IInv, NEW c \in Calls, TransportError(c)
    PROVE  IInv'
<1>1. /\ UNCHANGED <<policy, service, jobs, s3, known, signed, expired, uploads, object, did>>
      /\ call[c].pc = "waiting" /\ call' = [call EXCEPT ![c] = Again(@)]
      /\ lost' = lost \cup {c}
  BY DEF TransportError, s3Vars
<1>2. /\ call' \in [Calls -> CallState]
      /\ \A d \in Calls \ {c} : call'[d] = call[d]
      /\ call'[c] = Again(call[c])
  BY <1>1, Acting, ReceivedIs DEF Travels, Req, Statuses
<1>3. /\ call'[c].req = call[c].req /\ call'[c].target = call[c].target
      /\ call'[c].plane = call[c].plane /\ call'[c].n <= Attempts(Req(c))
      /\ \/ /\ call'[c].pc = "sending" /\ call'[c].outcome = call[c].outcome
            /\ Attempts(Req(c)) > 1
         \/ call'[c].pc = "done" /\ call'[c].outcome = "unavailable"
  BY <1>2, Acting DEF Again, Travels, Req, CallState
<1>4. TypeOK'
  BY <1>1, <1>2 DEF IInv, TypeOK
<1>5. MovesOnly(c) /\ UploadsGrow(c)
  BY <1>1, <1>2 DEF MovesOnly, UploadsGrow, JobsOf, OnWay
<1>6. JobsOf(c)' = JobsOf(c) /\ OnWay(c)' = OnWay(c)
  BY <1>1 DEF JobsOf, OnWay
<1>7. Travels(c)'
  BY <1>1, <1>3, <1>6, Acting, AllowedStays DEF Travels, Req
<1>8. Fresh(c)'
  <2>1. Req(c).op = "create" => Attempts(Req(c)) = 1
    BY DEF Attempts, Retry
  <2>2. QED
    BY <1>1, <1>3, <1>6, <2>1, Acting DEF Fresh, Req
<1>9. Chained(c)'
  BY <1>1 DEF Chained
<1>10. Told(c)'
  BY <1>1, <1>3, Acting DEF Told, Travels, Req
<1>11. \A x \in known' : uploads'[x] # "none"
  BY <1>1 DEF IInv
<1>12. QED
  BY <1>4, <1>5, <1>7, <1>8, <1>9, <1>10, <1>11, StepKeeps

LEMMA ExpireKeeps ==
    ASSUME IInv, NEW c \in Calls, Expire(c)
    PROVE  IInv'
<1>1. /\ UNCHANGED <<policy, service, call, jobs, s3, known, signed, lost, uploads, object, did>>
      /\ expired' = expired \cup {c}
  BY DEF Expire, s3Vars
<1>2. TypeOK'
  BY <1>1 DEF IInv, TypeOK
<1>3. \A d \in Calls : JobsOf(d)' = JobsOf(d) /\ OnWay(d)' = OnWay(d)
  BY <1>1 DEF JobsOf, OnWay
<1>4. \A d \in Calls : (Travels(d) /\ Fresh(d) /\ Chained(d) /\ Told(d))'
  BY <1>1, <1>3, AllowedStays DEF IInv, Travels, Fresh, Chained, Told, Req, Waits
<1>5. QED
  BY <1>1, <1>2, <1>4 DEF IInv

-----------------------------------------------------------------------------
(* What becomes of a job, for the call it belongs to *)

LEMMA AnswerMoves ==
    ASSUME IInv, NEW c \in Calls, NEW j \in JobsOf(c), NEW status \in Statuses, NEW u,
           Answer(j, status, u)
    PROVE  /\ call' \in [Calls -> CallState] /\ \A d \in Calls \ {c} : call'[d] = call[d]
           /\ \/ ~Waits(c, "control", j.n) /\ call'[c] = call[c] /\ known' = known
              \/ /\ Waits(c, "control", j.n) /\ Answered(c, status)
                 /\ known' = IF status = 200 /\ u # NoUpload THEN known \cup {u} ELSE known
<1>1. j.call = c
  BY DEF JobsOf
<1>2. CASE Waits(c, "control", j.n)
  <2>1. call' = [call EXCEPT ![c] = Received(@, status)]
    BY <1>1, <1>2 DEF Answer
  <2>2. Answered(c, status) /\ call' \in [Calls -> CallState]
    BY <2>1, Acting, AnswerIs
  <2>3. QED
    BY <1>1, <1>2, <2>1, <2>2, Acting DEF Answer
<1>3. CASE ~Waits(c, "control", j.n)
  BY <1>1, <1>3, Acting DEF Answer
<1>4. QED
  BY <1>2, <1>3

\* The handler of j returns.  The last premise is about what a status may mean.
LEMMA JobEnds ==
    ASSUME IInv, NEW c \in Calls, NEW j \in JobsOf(c), NEW status \in Statuses, NEW u,
           Answer(j, status, u), UNCHANGED policy, known \subseteq known',
           JobsOf(c)' = JobsOf(c) \ {j}, OnWay(c)' \subseteq OnWay(c),
           c \in lost => c \in lost', c \in did => c \in did',
           signed'[c] # 0 \/ c \in did' \/ status = 200 => Allowed(Req(c)),
           \A x \in Created : x.call = c /\ uploads'[x] # "none" =>
               uploads[x] # "none" \/ (Req(c).op = "create" /\ x.n = 1),
           Req(c).op = "create" => \A r \in OnWay(c)' : uploads'[NewUpload(r)] = "none",
           \A x \in UploadIds : uploads[x] \in Over => uploads'[x] \in Over,
           c \notin lost' => OnWay(c)' = {},
           c \notin lost' /\ c \in did' => status = 200 /\ Req(c).op \notin Presigns,
           /\ status = 200 /\ Req(c).op \in Mutating /\ Req(c).op # "upload" => c \in did'
           /\ status = 401 =>
                \A i \in DOMAIN policy.principals : Req(c).token \notin policy.principals[i].tokens
           /\ status = 403 => ~Allowed(Req(c))
           /\ Req(c).op = "abort" /\ status \in {200, 404} /\ call[c].pc = "waiting" =>
                uploads'[call[c].target] \in Over
    PROVE  (Travels(c) /\ Fresh(c) /\ Chained(c) /\ Told(c))'
<1>1. /\ Travels(c) /\ Fresh(c) /\ Chained(c) /\ Told(c)
      /\ call[c].n \in Nat /\ Attempts(Req(c)) \in Nat
      /\ call[c].plane \in {"control", "data"}
      /\ known \subseteq UploadIds
  BY Acting DEF CallState
<1>2. \/ ~Waits(c, "control", j.n) /\ call'[c] = call[c]
      \/ Waits(c, "control", j.n) /\ Answered(c, status)
  BY AnswerMoves
<1>3. call'[c].req = call[c].req /\ call'[c].target = call[c].target
  BY <1>2 DEF Answered
<1>4. Travels(c)'
  <2>1. /\ call'[c].n <= Attempts(Req(c))
        /\ call'[c].pc # "done" => call'[c].outcome = "none"
        /\ call'[c].pc # "idle"
        /\ call'[c].plane = "data" => Allowed(Req(c)) /\ Req(c).op = "upload"
    BY <1>1, <1>2 DEF Travels, Answered, Waits
  <2>2. Allowed(Req(c))' <=> Allowed(Req(c))
    BY <1>3, AllowedStays DEF Req
  <2>3. Req(c)' = Req(c)
    BY <1>3 DEF Req
  <2>4. /\ \A i \in JobsOf(c)' : i \in JobsOf(c)
        /\ \A r \in OnWay(c)' : r \in OnWay(c)
    OBVIOUS
  <2>5. QED
    BY <1>1, <2>1, <2>2, <2>3, <2>4 DEF Travels
<1>5. Fresh(c)'
  <2>1. Req(c).op = "create" => Attempts(Req(c)) = 1
    BY DEF Attempts, Retry
  <2>2. Req(c).op = "create" => call'[c].pc \notin {"idle", "sending"} /\ JobsOf(c)' = {}
    BY <1>1, <1>2, <2>1 DEF Fresh, Answered
  <2>3. QED
    BY <1>1, <1>3, <2>2 DEF Fresh, Req
<1>6. Chained(c)'
  <2>1. ASSUME c \notin lost'
        PROVE  Waits(c, "control", j.n) /\ JobsOf(c)' = {} /\ OnWay(c)' = {}
    BY <1>1, <2>1 DEF Chained
  <2>2. ASSUME c \notin lost', c \in did' PROVE call'[c].outcome = "ok"
    BY <1>2, <2>1, <2>2 DEF Answered, Presigns, Waits
  <2>3. QED
    BY <2>1, <2>2 DEF Chained
<1>7. Told(c)'
  <2>1. Req(c).op = "abort" /\ call[c].pc # "idle" => call[c].target \in UploadIds
    BY <1>1 DEF Told, OnUpload
  <2>2. CASE call'[c] = call[c]
    BY <1>1, <2>1, <2>2, AllowedStays DEF Told, Travels, Req
  <2>3. CASE Waits(c, "control", j.n) /\ Answered(c, status)
    BY <1>1, <1>3, <2>1, <2>3, AllowedStays DEF Told, Travels, Req, Answered, Waits
  <2>4. QED
    BY <1>2, <2>2, <2>3
<1>8. QED
  BY <1>4, <1>5, <1>6, <1>7

\* The handler of j sends another request to S3.
LEMMA JobGoesOn ==
    ASSUME IInv, NEW c \in Calls, NEW j \in JobsOf(c), NEW kept \in SUBSET OnWay(c),
           UNCHANGED <<policy, call, known, signed, did, uploads>>,
           JobsOf(c)' = (JobsOf(c) \ {j}) \cup {[j EXCEPT !.k = @ + 1]},
           OnWay(c)' = kept \cup {[call |-> c, plane |-> "control", n |-> j.n, k |-> j.k + 1]},
           j.k < SdkAttempts, Allowed(Req(c)), Req(c).op \notin Presigns,
           c \in lost => c \in lost',
           c \notin lost' => kept = {} /\ c \notin did
    PROVE  (Travels(c) /\ Fresh(c) /\ Chained(c) /\ Told(c))'
<1> DEFINE next == [j EXCEPT !.k = @ + 1]
           request == [call |-> c, plane |-> "control", n |-> j.n, k |-> j.k + 1]
<1>1. /\ Travels(c) /\ Fresh(c) /\ Chained(c) /\ Told(c)
      /\ call[c].n \in Nat /\ Attempts(Req(c)) \in Nat /\ SdkAttempts \in Nat
  BY Acting
<1>2. j \in [call : Calls, n : 1..MaxAttempts, k : 0..SdkAttempts] /\ j.call = c
  BY DEF JobsOf, IInv, TypeOK
<1>3. /\ j.k \in Nat /\ j.n \in 1..MaxAttempts /\ j.k + 1 \in 1..SdkAttempts
      /\ next.call = c /\ next.n = j.n /\ next.k = j.k + 1 /\ next \in JobsOf(c)'
      /\ request.call = c /\ request.plane = "control" /\ request.n = j.n /\ request.k = j.k + 1
      /\ next = [call |-> c, n |-> j.n, k |-> j.k + 1]
  BY <1>1, <1>2
<1>4. \A r \in OnWay(c) : r.k \in Nat
  BY <1>1 DEF OnWay, IInv, TypeOK
<1>a. OnWay(c)' = kept \cup {request}
  OBVIOUS
<1> HIDE DEF next, request
<1>5. Travels(c)'
  <2>1. Req(c)' = Req(c) /\ (Allowed(Req(c))' <=> Allowed(Req(c)))
    BY AllowedStays DEF Req
  <2>2. \A i \in JobsOf(c)' : i \in JobsOf(c) \/ i = next
    BY DEF next
  <2>3. \A r \in OnWay(c)' : r \in OnWay(c) \/ r = request
    BY <1>a
  <2>4. j.n <= Attempts(Req(c))
    BY <1>1 DEF Travels
  <2>5. QED
    BY <1>1, <1>3, <2>1, <2>2, <2>3, <2>4 DEF Travels
<1>6. Fresh(c)'
  <2>1. ASSUME Req(c).op = "create"
        PROVE  /\ call[c].pc \notin {"idle", "sending"}
               /\ JobsOf(c)' = {next}
               /\ \A r \in OnWay(c)' : r.k <= next.k
               /\ \A x \in Created : x.call = c /\ uploads'[x] # "none" => x.k <= next.k
               /\ \A r \in OnWay(c)' : uploads'[NewUpload(r)] = "none"
    <3>1. call[c].pc \notin {"idle", "sending"} /\ JobsOf(c)' = {next}
      BY <1>1, <2>1 DEF Fresh, next
    <3>2. \A r \in OnWay(c) : r.k <= j.k
      BY <1>1, <2>1 DEF Fresh
    <3>3. \A r \in OnWay(c)' : r.k <= next.k
      BY <1>3, <1>4, <1>a, <3>2
    <3>4. \A x \in Created : x.call = c /\ uploads[x] # "none" => x.k <= j.k
      BY <1>1, <2>1 DEF Fresh
    <3>5. \A x \in Created : x.k \in Nat
      BY <1>1 DEF Created
    <3>6. NewUpload(request) \in Created /\ NewUpload(request).call = c
          /\ NewUpload(request).k = j.k + 1
      BY <1>3 DEF NewUpload, Created
    <3>7. uploads[NewUpload(request)] = "none"
      BY <1>3, <3>4, <3>6
    <3>8. \A r \in OnWay(c) : uploads[NewUpload(r)] = "none"
      BY <1>1, <2>1 DEF Fresh
    <3>9. \A r \in OnWay(c)' : uploads'[NewUpload(r)] = "none"
      BY <1>a, <3>7, <3>8 DEF NewUpload
    <3>10. QED
      BY <1>3, <3>1, <3>3, <3>4, <3>5, <3>9
  <2>2. QED
    BY <1>1, <2>1 DEF Fresh, Req
<1>7. Chained(c)'
  <2>1. ASSUME c \notin lost'
        PROVE  /\ JobsOf(c)' = {next} /\ OnWay(c)' = {request} /\ c \notin did'
               /\ Waits(c, "control", next.n)
    BY <1>1, <1>3, <1>a, <2>1 DEF Chained, next
  <2>2. QED
    BY <1>3, <2>1 DEF Chained, Waits
<1>8. Told(c)'
  BY <1>1, AllowedStays DEF Told, Req
<1>9. QED
  BY <1>5, <1>6, <1>7, <1>8

-----------------------------------------------------------------------------
(* The steps of the service *)

LEMMA JobType ==
    ASSUME IInv, NEW j \in jobs
    PROVE  /\ j.call \in Calls /\ j.n \in 1..MaxAttempts /\ j.k \in 0..SdkAttempts
           /\ j \in JobsOf(j.call)
           /\ j = [call |-> j.call, n |-> j.n, k |-> j.k]
           /\ j.k < SdkAttempts =>
                /\ [j EXCEPT !.k = @ + 1] \in [call : Calls, n : 1..MaxAttempts, k : 0..SdkAttempts]
                /\ [j EXCEPT !.k = @ + 1].call = j.call
                /\ [call |-> j.call, plane |-> "control", n |-> j.n, k |-> j.k + 1]
                     \in [call : Calls, plane : {"control", "data"}, n : 1..MaxAttempts,
                          k : 0..SdkAttempts]
<1>1. j \in [call : Calls, n : 1..MaxAttempts, k : 0..SdkAttempts]
  BY DEF IInv, TypeOK
<1>2. j.k < SdkAttempts => j.k + 1 \in 0..SdkAttempts
  BY <1>1, CallConstants
<1>3. QED
  BY <1>1, <1>2 DEF JobsOf

\* Before a handler has asked S3 for anything, nothing of the call has happened,
\* unless answers were lost.
LEMMA FirstAlone ==
    ASSUME IInv, NEW c \in Calls, c \notin lost, NEW j \in JobsOf(c), j.k = 0
    PROVE  OnWay(c) = {} /\ c \notin did
<1>1. Travels(c) /\ Chained(c) /\ Waits(c, "control", j.n)
  BY Acting DEF Chained
<1>2. ASSUME NEW r \in OnWay(c) PROVE FALSE
  <2>1. r.plane \in {"control", "data"} /\ r.k \in 0..SdkAttempts /\ SdkAttempts \in Nat
    BY CallConstants DEF OnWay, IInv, TypeOK
  <2>2. CASE r.plane = "data"
    BY <1>1, <1>2, <2>2 DEF Chained, Waits
  <2>3. CASE r.plane = "control"
    <3>1. [call |-> c, n |-> r.n, k |-> r.k] = j
      BY <1>1, <1>2, <2>3 DEF Chained
    <3>2. r.k = j.k
      BY <3>1
    <3>3. r.k > 0
      BY <1>1, <1>2, <2>3 DEF Travels
    <3>4. QED
      BY <2>1, <3>2, <3>3
  <2>4. QED
    BY <2>1, <2>2, <2>3
<1>3. c \notin did
  BY <1>1 DEF Chained, Travels, Waits
<1>4. QED
  BY <1>2, <1>3

LEMMA RefusesKeeps ==
    ASSUME IInv, NEW j \in jobs, NEW isReady \in BOOLEAN, j.k = 0,
           Refuses(j, Verdict(call[j.call].req, isReady)),
           UNCHANGED <<policy, service, expired, lost, uploads, object, did>>
    PROVE  IInv'
<1> DEFINE c == j.call
           verdict == Verdict(call[j.call].req, isReady)
<1>1. c \in Calls /\ j \in JobsOf(c) /\ Travels(c) /\ Fresh(c) /\ TypeOK
  BY JobType, Acting
<1>2. /\ verdict \in Statuses /\ verdict # 200 /\ verdict # 404
      /\ verdict = 401 => \A i \in DOMAIN policy.principals :
                             Req(c).token \notin policy.principals[i].tokens
      /\ verdict = 403 => ~Allowed(Req(c))
  BY <1>1, VerdictIs DEF Refuses, Req
<1> HIDE DEF verdict
<1>3. /\ Answer(j, verdict, NoUpload) /\ jobs' = jobs \ {j} /\ UNCHANGED <<s3, signed>>
  BY DEF Refuses, verdict
<1>4. /\ call' \in [Calls -> CallState] /\ \A d \in Calls \ {c} : call'[d] = call[d]
      /\ known' = known
  BY <1>1, <1>2, <1>3, AnswerMoves
<1>5. TypeOK'
  BY <1>3, <1>4 DEF IInv, TypeOK
<1>6. MovesOnly(c) /\ UploadsGrow(c)
  BY <1>3, <1>4 DEF MovesOnly, UploadsGrow, JobsOf, OnWay
<1>7. JobsOf(c)' = JobsOf(c) \ {j} /\ OnWay(c)' = OnWay(c)
  BY <1>3 DEF JobsOf, OnWay
<1>8. c \notin lost' => OnWay(c)' = {} /\ c \notin did'
  BY <1>1, <1>7, FirstAlone
<1>9. signed'[c] # 0 \/ c \in did' \/ verdict = 200 => Allowed(Req(c))
  BY <1>1, <1>2, <1>3 DEF Travels
<1>10. Req(c).op = "create" => \A r \in OnWay(c)' : uploads'[NewUpload(r)] = "none"
  BY <1>1, <1>7 DEF Fresh
<1>11. (Travels(c) /\ Fresh(c) /\ Chained(c) /\ Told(c))'
  <2> HIDE DEF c
  <2>1. QED
    BY <1>1, <1>2, <1>3, <1>4, <1>7, <1>8, <1>9, <1>10, JobEnds
<1>12. \A x \in known' : uploads'[x] # "none"
  BY <1>4 DEF IInv
<1>13. QED
  BY <1>1, <1>5, <1>6, <1>11, <1>12, StepKeeps

LEMMA SignsKeeps ==
    ASSUME IInv, NEW j \in jobs, NEW isReady \in BOOLEAN, j.k = 0,
           Verdict(call[j.call].req, isReady) = 200, Signs(j),
           UNCHANGED <<policy, service, expired, lost, uploads, object, did>>
    PROVE  IInv'
<1> DEFINE c == j.call
<1>1. c \in Calls /\ j \in JobsOf(c) /\ Travels(c) /\ Fresh(c) /\ TypeOK
  BY JobType, Acting
<1>2. Allowed(Req(c)) /\ Req(c).op \in Presigns /\ PresignTTL(Req(c)) \in 1..service.max
  BY <1>1, VerdictIs DEF Signs, Req
<1>3. PICK status \in {200, 503} :
        /\ Answer(j, status, NoUpload) /\ jobs' = jobs \ {j} /\ UNCHANGED s3
        /\ signed' = signed \/ signed' = [signed EXCEPT ![c] = PresignTTL(Req(c))]
  BY DEF Signs, Req
<1>4. /\ status \in Statuses
      /\ call' \in [Calls -> CallState] /\ \A d \in Calls \ {c} : call'[d] = call[d]
      /\ known' = known
  BY <1>1, <1>3, AnswerMoves DEF Statuses
<1>5. signed' \in [Calls -> 0..service.max] /\ \A d \in Calls \ {c} : signed'[d] = signed[d]
  <2>1. service.max \in Int
    BY CallConstants DEF IInv, TypeOK
  <2>2. QED
    BY <1>1, <1>2, <1>3, <2>1 DEF TypeOK
<1>6. TypeOK'
  BY <1>3, <1>4, <1>5 DEF IInv, TypeOK
<1>7. MovesOnly(c) /\ UploadsGrow(c)
  BY <1>3, <1>4, <1>5 DEF MovesOnly, UploadsGrow, JobsOf, OnWay
<1>8. JobsOf(c)' = JobsOf(c) \ {j} /\ OnWay(c)' = OnWay(c)
  BY <1>3 DEF JobsOf, OnWay
<1>9. c \notin lost' => OnWay(c)' = {} /\ c \notin did'
  BY <1>1, <1>8, FirstAlone
<1>10. Req(c).op = "create" => \A r \in OnWay(c)' : uploads'[NewUpload(r)] = "none"
  BY <1>1, <1>8 DEF Fresh
<1>11. Req(c).op \in Mutating => Req(c).op = "upload"
  BY <1>2 DEF Presigns, Mutating
<1>12. Req(c).op # "abort"
  BY <1>2 DEF Presigns
<1>13. (Travels(c) /\ Fresh(c) /\ Chained(c) /\ Told(c))'
  <2> HIDE DEF c
  <2>1. QED
    BY <1>1, <1>2, <1>3, <1>4, <1>8, <1>9, <1>10, <1>11, <1>12, JobEnds
<1>14. \A x \in known' : uploads'[x] # "none"
  BY <1>4 DEF IInv
<1>15. QED
  BY <1>1, <1>6, <1>7, <1>13, <1>14, StepKeeps

LEMMA CallsStoreKeeps ==
    ASSUME IInv, NEW j \in jobs, NEW isReady \in BOOLEAN, j.k = 0,
           Verdict(call[j.call].req, isReady) = 200, CallsStore(j),
           UNCHANGED <<policy, service, expired, lost, uploads, object, did>>
    PROVE  IInv'
<1> DEFINE c == j.call
           next == [j EXCEPT !.k = @ + 1]
           request == [call |-> j.call, plane |-> "control", n |-> j.n, k |-> j.k + 1]
<1>1. c \in Calls /\ j \in JobsOf(c) /\ Travels(c) /\ Fresh(c) /\ TypeOK /\ j.k < SdkAttempts
  <2>1. 0 < SdkAttempts
    BY CallConstants
  <2>2. QED
    BY <2>1, JobType, Acting
<1>2. Allowed(Req(c)) /\ Req(c).op \notin Presigns
  BY <1>1, VerdictIs DEF CallsStore, Req
<1>3. /\ jobs' = (jobs \ {j}) \cup {next} /\ s3' = s3 \cup {request}
      /\ UNCHANGED <<signed, call, known>>
  <2>1. next = [j EXCEPT !.k = 1] /\ j.k + 1 = 1
    OBVIOUS
  <2>2. QED
    BY <2>1 DEF CallsStore, clientVars
<1>4. /\ next \in [call : Calls, n : 1..MaxAttempts, k : 0..SdkAttempts] /\ next.call = c
      /\ request \in [call : Calls, plane : {"control", "data"}, n : 1..MaxAttempts,
                      k : 0..SdkAttempts]
      /\ request.call = c
  BY <1>1, JobType
<1> HIDE DEF next, request
<1>5. TypeOK'
  BY <1>3, <1>4 DEF IInv, TypeOK
<1>6. MovesOnly(c) /\ UploadsGrow(c)
  BY <1>3, <1>4 DEF MovesOnly, UploadsGrow, JobsOf, OnWay
<1>7. JobsOf(c)' = (JobsOf(c) \ {j}) \cup {next} /\ OnWay(c)' = OnWay(c) \cup {request}
  BY <1>3, <1>4 DEF JobsOf, OnWay
<1>8. c \notin lost' => OnWay(c) = {} /\ c \notin did
  BY <1>1, FirstAlone
<1>9. (Travels(c) /\ Fresh(c) /\ Chained(c) /\ Told(c))'
  <2>1. /\ OnWay(c)' = OnWay(c) \cup {[call |-> c, plane |-> "control", n |-> j.n, k |-> j.k + 1]}
        /\ JobsOf(c)' = (JobsOf(c) \ {j}) \cup {[j EXCEPT !.k = @ + 1]}
    BY <1>7 DEF request, next
  <2>2. OnWay(c) \in SUBSET OnWay(c)
    OBVIOUS
  <2> HIDE DEF c
  <2>3. QED
    BY <1>1, <1>2, <1>3, <1>8, <2>1, <2>2, JobGoesOn
<1>10. \A x \in known' : uploads'[x] # "none"
  BY <1>3 DEF IInv
<1>11. QED
  BY <1>1, <1>5, <1>6, <1>9, <1>10, StepKeeps

LEMMA HandleKeeps ==
    ASSUME IInv, NEW j \in jobs, Handle(j)
    PROVE  IInv'
<1>1. PICK isReady \in BOOLEAN :
        \/ Refuses(j, Verdict(call[j.call].req, isReady))
        \/ Verdict(call[j.call].req, isReady) = 200 /\ (Signs(j) \/ CallsStore(j))
  BY DEF Handle
<1>2. j.k = 0 /\ UNCHANGED <<policy, service, expired, lost, uploads, object, did>>
  BY DEF Handle, s3Vars
<1>3. QED
  BY <1>1, <1>2, RefusesKeeps, SignsKeeps, CallsStoreKeeps

LEMMA CancelKeeps ==
    ASSUME IInv, NEW j \in jobs, Cancel(j)
    PROVE  IInv'
<1> DEFINE c == j.call
<1>1. c \in Calls /\ j \in JobsOf(c) /\ TypeOK
      /\ Travels(c) /\ Fresh(c) /\ Chained(c) /\ Told(c)
  BY JobType, Acting
<1>2. /\ UNCHANGED <<policy, service, s3, signed, expired, lost, call, known, uploads, object, did>>
      /\ jobs' = jobs \ {j} /\ ~Waits(c, "control", j.n)
  BY DEF Cancel, clientVars, s3Vars
<1>3. c \in lost
  BY <1>1, <1>2 DEF Chained
<1>4. TypeOK'
  BY <1>2 DEF IInv, TypeOK
<1>5. MovesOnly(c) /\ UploadsGrow(c)
  BY <1>2 DEF MovesOnly, UploadsGrow, JobsOf, OnWay
<1>6. JobsOf(c)' = JobsOf(c) \ {j} /\ OnWay(c)' = OnWay(c)
  BY <1>2 DEF JobsOf, OnWay
<1>7. Travels(c)' /\ Fresh(c)' /\ Chained(c)' /\ Told(c)'
  BY <1>1, <1>2, <1>3, <1>6, AllowedStays DEF Travels, Fresh, Chained, Told, Req
<1>8. \A x \in known' : uploads'[x] # "none"
  BY <1>2 DEF IInv
<1>9. QED
  BY <1>1, <1>4, <1>5, <1>7, <1>8, StepKeeps

-----------------------------------------------------------------------------
(* The attempts of the SDK, and S3 *)

LEMMA RequestType ==
    ASSUME IInv, NEW r \in s3
    PROVE  /\ r.call \in Calls /\ r.plane \in {"control", "data"} /\ r.n \in 1..MaxAttempts
           /\ r.k \in 0..SdkAttempts /\ r \in OnWay(r.call)
           /\ r = [call |-> r.call, plane |-> r.plane, n |-> r.n, k |-> r.k]
           /\ r.n \in Nat /\ r.k \in Nat
           /\ call[r.call].pc # "idle" /\ Allowed(Req(r.call))
           /\ r.plane = "control" => r.k \in 1..SdkAttempts /\ Req(r.call).op \notin Presigns
           /\ r.plane = "data" => r.k = 0 /\ Req(r.call).op = "upload"
<1>1. r \in [call : Calls, plane : {"control", "data"}, n : 1..MaxAttempts, k : 0..SdkAttempts]
  BY DEF IInv, TypeOK
<1>2. r.call \in Calls /\ r \in OnWay(r.call)
  BY <1>1 DEF OnWay
<1>3. Travels(r.call)
  BY <1>2, Acting
<1>4. QED
  BY <1>1, <1>2, <1>3, CallConstants DEF Travels

\* Without a lost answer a request to S3 is alone, and has not happened yet.
LEMMA LastAlone ==
    ASSUME IInv, NEW r \in s3, r.call \notin lost
    PROVE  /\ OnWay(r.call) = {r} /\ r.call \notin did
           /\ call[r.call].pc = "waiting"
           /\ r.plane = "data" => JobsOf(r.call) = {} /\ Waits(r.call, "data", r.n)
           /\ r.plane = "control" => JobsOf(r.call) = {[call |-> r.call, n |-> r.n, k |-> r.k]}
<1> DEFINE c == r.call
<1>1. c \in Calls /\ r \in OnWay(c) /\ Chained(c) /\ Travels(c)
  BY RequestType, Acting
<1>2. \/ r.plane = "data" /\ JobsOf(c) = {} /\ Waits(c, "data", r.n)
      \/ /\ r.plane = "control" /\ JobsOf(c) = {[call |-> c, n |-> r.n, k |-> r.k]}
         /\ Waits(c, "control", r.n)
  <2>1. CASE r.plane = "data"
    BY <1>1, <2>1 DEF Chained, Waits
  <2>2. CASE r.plane = "control"
    <3>1. [call |-> c, n |-> r.n, k |-> r.k] \in JobsOf(c)
      BY <1>1, <2>2 DEF Chained
    <3>2. Waits(c, "control", r.n)
      BY <1>1, <3>1 DEF Chained
    <3>3. QED
      BY <1>1, <2>2, <3>1, <3>2 DEF Chained
  <2>3. QED
    BY <2>1, <2>2, RequestType
<1>3. ASSUME NEW q \in OnWay(c) PROVE q = r
  <2>1. q \in s3 /\ q.call = c
    BY DEF OnWay
  <2>2. /\ q = [call |-> c, plane |-> q.plane, n |-> q.n, k |-> q.k]
        /\ r = [call |-> c, plane |-> r.plane, n |-> r.n, k |-> r.k]
        /\ q.plane \in {"control", "data"}
        /\ q.plane = "data" => q.k = 0
        /\ r.plane = "data" => r.k = 0
    BY <2>1, RequestType
  <2>3. CASE q.plane = "data"
    <3>1. Waits(c, "data", q.n)
      BY <1>1, <1>3, <2>3 DEF Chained
    <3>2. r.plane = "data" /\ q.n = r.n
      BY <1>2, <3>1 DEF Waits
    <3>3. QED
      BY <2>2, <2>3, <3>2
  <2>4. CASE q.plane = "control"
    <3>1. [call |-> c, n |-> q.n, k |-> q.k] \in JobsOf(c)
      BY <1>1, <1>3, <2>4 DEF Chained
    <3>2. /\ r.plane = "control"
          /\ [call |-> c, n |-> q.n, k |-> q.k] = [call |-> c, n |-> r.n, k |-> r.k]
      BY <1>2, <3>1
    <3>3. q.n = r.n /\ q.k = r.k
      BY <3>2
    <3>4. QED
      BY <2>2, <2>4, <3>2, <3>3
  <2>5. QED
    BY <2>2, <2>3, <2>4
<1>4. call[c].pc = "waiting"
  BY <1>2 DEF Waits
<1>5. c \notin did
  BY <1>1, <1>4 DEF Chained, Travels
<1>6. QED
  BY <1>1, <1>2, <1>3, <1>4, <1>5

\* SdkAgain, when what has been taken away from s3 was of the same call.
LEMMA SdkAgainKeeps ==
    ASSUME IInv, NEW j \in jobs, j.k > 0, NEW pending \in SUBSET s3, SdkAgain(j, pending),
           \A r \in s3 \ pending : r.call = j.call,
           UNCHANGED <<policy, service, signed, expired, uploads, object, did>>,
           lost \subseteq lost', lost' \subseteq lost \cup {j.call},
           j.call \notin lost' => j.call \notin did /\ \A r \in pending : r.call # j.call
    PROVE  IInv'
<1> DEFINE c == j.call
           next == [j EXCEPT !.k = @ + 1]
           request == [call |-> j.call, plane |-> "control", n |-> j.n, k |-> j.k + 1]
           kept == {r \in pending : r.call = j.call}
<1>1. c \in Calls /\ j \in JobsOf(c) /\ Travels(c) /\ Fresh(c) /\ TypeOK
  BY JobType, Acting
<1>2. Allowed(Req(c)) /\ Req(c).op \notin Presigns
  BY <1>1 DEF Travels
<1>3. kept \in SUBSET OnWay(c) /\ (c \notin lost' => kept = {} /\ c \notin did)
  BY DEF OnWay
<1>4. ASSUME j.k < SdkAttempts, jobs' = (jobs \ {j}) \cup {next}, s3' = pending \cup {request},
             UNCHANGED <<call, known>>
      PROVE  IInv'
  <2>1. /\ next \in [call : Calls, n : 1..MaxAttempts, k : 0..SdkAttempts] /\ next.call = c
        /\ request \in [call : Calls, plane : {"control", "data"}, n : 1..MaxAttempts,
                        k : 0..SdkAttempts]
        /\ request.call = c
    BY <1>4, JobType
  <2> HIDE DEF next, request
  <2>2. TypeOK'
    BY <1>1, <1>4, <2>1 DEF IInv, TypeOK
  <2>3. MovesOnly(c) /\ UploadsGrow(c)
    BY <1>4, <2>1 DEF MovesOnly, UploadsGrow, JobsOf, OnWay
  <2>4. JobsOf(c)' = (JobsOf(c) \ {j}) \cup {next} /\ OnWay(c)' = kept \cup {request}
    BY <1>4, <2>1 DEF JobsOf, OnWay
  <2>5. (Travels(c) /\ Fresh(c) /\ Chained(c) /\ Told(c))'
    <3>1. /\ OnWay(c)' = kept \cup {[call |-> c, plane |-> "control", n |-> j.n, k |-> j.k + 1]}
          /\ JobsOf(c)' = (JobsOf(c) \ {j}) \cup {[j EXCEPT !.k = @ + 1]}
      BY <2>4 DEF request, next
    <3>2. c \in lost => c \in lost'
      OBVIOUS
    <3> HIDE DEF c, kept
    <3>3. QED
      BY <1>1, <1>2, <1>3, <1>4, <3>1, <3>2, JobGoesOn
  <2>6. \A x \in known' : uploads'[x] # "none"
    BY <1>4 DEF IInv
  <2>7. QED
    BY <1>1, <2>2, <2>3, <2>5, <2>6, StepKeeps
<1>5. ASSUME Answer(j, 503, NoUpload), jobs' = jobs \ {j}, s3' = pending
      PROVE  IInv'
  <2>1. 503 \in Statuses
    BY DEF Statuses
  <2>2. /\ call' \in [Calls -> CallState] /\ \A d \in Calls \ {c} : call'[d] = call[d]
        /\ known' = known
    BY <1>1, <1>5, <2>1, AnswerMoves
  <2>3. TypeOK'
    BY <1>1, <1>5, <2>2 DEF IInv, TypeOK
  <2>4. MovesOnly(c) /\ UploadsGrow(c)
    BY <1>5, <2>2 DEF MovesOnly, UploadsGrow, JobsOf, OnWay
  <2>5. JobsOf(c)' = JobsOf(c) \ {j} /\ OnWay(c)' = kept
    BY <1>5 DEF JobsOf, OnWay
  <2>6. Req(c).op = "create" => \A r \in OnWay(c)' : uploads'[NewUpload(r)] = "none"
    BY <1>1, <1>3, <2>5 DEF Fresh
  <2>7. c \in lost => c \in lost'
    OBVIOUS
  <2>8. (Travels(c) /\ Fresh(c) /\ Chained(c) /\ Told(c))'
    <3> HIDE DEF c, kept
    <3>1. QED
      BY <1>1, <1>2, <1>3, <1>5, <2>1, <2>2, <2>5, <2>6, <2>7, JobEnds
  <2>9. \A x \in known' : uploads'[x] # "none"
    BY <2>2 DEF IInv
  <2>10. QED
    BY <1>1, <2>3, <2>4, <2>8, <2>9, StepKeeps
<1>6. QED
  <2>1. \/ /\ j.k < SdkAttempts /\ jobs' = (jobs \ {j}) \cup {next}
           /\ s3' = pending \cup {request} /\ UNCHANGED <<call, known>>
        \/ Answer(j, 503, NoUpload) /\ jobs' = jobs \ {j} /\ s3' = pending
    BY DEF SdkAgain, clientVars
  <2>2. QED
    BY <1>4, <1>5, <2>1

LEMMA SdkGivesUpKeeps ==
    ASSUME IInv, NEW j \in jobs, SdkGivesUp(j)
    PROVE  IInv'
<1>1. /\ j.k > 0 /\ SdkAgain(j, s3) /\ lost' = lost \cup {j.call}
      /\ UNCHANGED <<policy, service, signed, expired, uploads, object, did>>
  BY DEF SdkGivesUp, s3Vars
<1>2. s3 \in SUBSET s3 /\ j.call \in lost' /\ \A r \in s3 \ s3 : r.call = j.call
  BY <1>1
<1>3. lost' \subseteq Calls
  BY <1>1, JobType DEF IInv, TypeOK
<1>4. QED
  BY <1>1, <1>2, <1>3, SdkAgainKeeps

\* What S3 does when it executes r, or refuses to.
Happens(r, status) ==
    /\ status \in Statuses \ {401, 413}
    /\ uploads' \in [UploadIds -> {"none", "open"} \cup Over]
    /\ object' \in {"absent", Earlier} \cup Calls
    /\ did' = IF status = 200 THEN did \cup {r.call} ELSE did
    /\ \A u \in UploadIds :
         /\ uploads[u] \in Over => uploads'[u] \in Over
         /\ uploads[u] # "none" => uploads'[u] # "none"
         /\ uploads[u] = "none" /\ uploads'[u] # "none" =>
              Req(r.call).op = "create" /\ u = NewUpload(r) /\ u.n = 1
    /\ Req(r.call).op = "create" =>
         /\ NewUpload(r) \in Created
         /\ status = 200 => uploads'[NewUpload(r)] # "none"
         /\ \A q \in OnWay(r.call) \ {r} : uploads'[NewUpload(q)] = "none"
    /\ Req(r.call).op = "abort" /\ status \in {200, 404} =>
         uploads'[call[r.call].target] \in Over

LEMMA CreateRequests ==
    ASSUME IInv, NEW c \in Calls, Req(c).op = "create", NEW r \in OnWay(c)
    PROVE  /\ r.plane = "control" /\ r.n = 1 /\ r.call = c
           /\ r = [call |-> c, plane |-> "control", n |-> 1, k |-> r.k]
           /\ NewUpload(r) = [call |-> c, n |-> 1, k |-> r.k]
           /\ NewUpload(r) \in Created /\ uploads[NewUpload(r)] = "none"
<1>1. r \in s3 /\ r.call = c
  BY DEF OnWay
<1>2. r.plane = "control" /\ r.k \in 1..SdkAttempts /\ r.n \in 1..MaxAttempts /\ r.n \in Nat
      /\ r = [call |-> r.call, plane |-> r.plane, n |-> r.n, k |-> r.k]
  BY <1>1, RequestType
<1>3. Attempts(Req(c)) = 1
  BY DEF Attempts, Retry
<1>4. r.n <= 1
  BY <1>3, Acting DEF Travels
<1>5. r.n = 1
  BY <1>2, <1>4
<1>6. NewUpload(r) \in Created
  BY <1>1, <1>2 DEF NewUpload, Created
<1>7. uploads[NewUpload(r)] = "none"
  BY Acting DEF Fresh
<1>8. QED
  BY <1>1, <1>2, <1>5, <1>6, <1>7 DEF NewUpload

LEMMA ExecuteHappens ==
    ASSUME IInv, NEW r \in s3, NEW status \in {Regular(r)} \cup ProviderFailures,
           IF status = 200 THEN Perform(r) ELSE UNCHANGED s3Vars
    PROVE  Happens(r, status)
<1> DEFINE c == r.call
           op == Asked(r)
<1>1. /\ c \in Calls /\ r \in OnWay(c) /\ call[c].pc # "idle"
      /\ r.plane \in {"control", "data"}
      /\ r.plane = "data" => Req(c).op = "upload"
      /\ r.plane = "control" => Req(c).op \notin Presigns
  BY RequestType
<1>2. /\ op = "put" <=> r.plane = "data"
      /\ r.plane = "control" => op = Req(c).op
      /\ op \in {"stat", "delete", "create", "complete", "abort", "put"}
  <2>1. Req(c).op \in Ops
    BY <1>1, Acting, CallConstants DEF Req, CallState
  <2>2. QED
    BY <1>1, <2>1 DEF Asked, Req, Ops, Presigns, OnUpload
<1>3. op \in {"complete", "abort"} => call[c].target \in known /\ call[c].target \in UploadIds
                                      /\ uploads[call[c].target] # "none"
  <2>1. Told(c) /\ known \subseteq UploadIds /\ \A u \in known : uploads[u] # "none"
    BY <1>1, Acting DEF IInv
  <2>2. QED
    BY <1>1, <1>2, <2>1 DEF Told, OnUpload
<1>4. uploads \in [UploadIds -> {"none", "open"} \cup Over] /\ did \subseteq Calls
      /\ object \in {"absent", Earlier} \cup Calls
  BY DEF IInv, TypeOK, Over
<1>5. /\ status \in Statuses \ {401, 413}
      /\ status \in {200, 404} => status = Regular(r)
  BY <1>2, CallConstants DEF Statuses, Regular
<1>6. op \in {"complete", "abort"} =>
        /\ status = 200 => uploads[call[c].target] = "open"
        /\ status = 404 => uploads[call[c].target] \in Over
  BY <1>3, <1>4, <1>5 DEF Regular
<1>7. Req(c).op = "create" =>
        /\ NewUpload(r) \in Created /\ uploads[NewUpload(r)] = "none" /\ NewUpload(r).n = 1
        /\ \A q \in OnWay(c) \ {r} : NewUpload(q) # NewUpload(r) /\ NewUpload(q) \in Created
                                     /\ uploads[NewUpload(q)] = "none"
  <2>1. ASSUME Req(c).op = "create", NEW q \in OnWay(c), NewUpload(q) = NewUpload(r)
        PROVE  q = r
    BY <1>1, <2>1, CreateRequests
  <2>2. QED
    BY <1>1, <2>1, CreateRequests
<1> HIDE DEF op
<1>8. CASE status # 200
  <2>1. UNCHANGED <<uploads, object, did>>
    BY <1>8 DEF s3Vars
  <2>2. Req(c).op = "abort" => op = "abort"
    BY <1>1, <1>2
  <2>3. QED
    BY <1>4, <1>5, <1>6, <1>7, <1>8, <2>1, <2>2 DEF Happens
<1>9. CASE status = 200
  <2>1. /\ did' = did \cup {c}
        /\ object' \in {"absent", Earlier} \cup Calls
        /\ uploads' = CASE op = "create"   -> [uploads EXCEPT ![NewUpload(r)] = "open"]
                        [] op = "complete" -> [uploads EXCEPT ![call[c].target] = "completed"]
                        [] op = "abort"    -> [uploads EXCEPT ![call[c].target] = "aborted"]
                        [] OTHER           -> uploads
    BY <1>1, <1>4, <1>9 DEF Perform, op
  <2>2. CASE op = "create"
    <3>1. Req(c).op = "create"
      BY <1>1, <1>2, <2>2
    <3>2. uploads' = [uploads EXCEPT ![NewUpload(r)] = "open"] /\ NewUpload(r) \in UploadIds
      BY <1>7, <2>1, <2>2, <3>1 DEF UploadIds
    <3>3. \A u \in UploadIds : uploads'[u] = IF u = NewUpload(r) THEN "open" ELSE uploads[u]
      BY <1>4, <3>2
    <3>4. \A q \in OnWay(c) \ {r} : uploads'[NewUpload(q)] = "none"
      BY <1>7, <3>1, <3>3 DEF UploadIds
    <3>5. uploads' \in [UploadIds -> {"none", "open"} \cup Over]
      BY <1>4, <3>2
    <3>6. "open" \notin Over /\ "none" \notin Over
      BY DEF Over
    <3>7. QED
      BY <1>5, <1>7, <1>9, <2>1, <3>1, <3>2, <3>3, <3>4, <3>5, <3>6 DEF Happens
  <2>3. CASE op \in {"complete", "abort"}
    <3>1. Req(c).op = op
      BY <1>1, <1>2, <2>3
    <3>2. PICK end \in Over : uploads' = [uploads EXCEPT ![call[c].target] = end]
      BY <2>1, <2>3 DEF Over
    <3>3. \A u \in UploadIds : uploads'[u] = IF u = call[c].target THEN end ELSE uploads[u]
      BY <1>3, <1>4, <3>2
    <3>4. "open" \notin Over /\ "none" \notin Over
      BY DEF Over
    <3>5. uploads[call[c].target] # "none" /\ call[c].target \in UploadIds
      BY <1>3, <2>3
    <3>6. uploads' \in [UploadIds -> {"none", "open"} \cup Over]
      BY <1>4, <3>2
    <3>7. Req(c).op # "create"
      BY <2>3, <3>1
    <3>8. QED
      BY <1>5, <1>9, <2>1, <3>3, <3>4, <3>5, <3>6, <3>7 DEF Happens
  <2>4. CASE op \notin {"create", "complete", "abort"}
    <3>1. uploads' = uploads
      BY <2>1, <2>4
    <3>2. Req(c).op \notin {"create", "abort"}
      BY <1>1, <1>2, <2>4
    <3>3. Req(r.call).op \notin {"create", "abort"} /\ did' = did \cup {r.call}
      BY <2>1, <3>2
    <3>4. uploads' \in [UploadIds -> {"none", "open"} \cup Over]
      BY <1>4, <3>1
    <3>5. \A u \in UploadIds : uploads'[u] = uploads[u]
      BY <3>1
    <3>6. QED
      BY <1>5, <1>9, <2>1, <3>3, <3>4, <3>5 DEF Happens
  <2>5. QED
    BY <2>2, <2>3, <2>4
<1>10. QED
  BY <1>8, <1>9

\* What every execution of r has in common.
LEMMA ExecuteFrame ==
    ASSUME IInv, NEW r \in s3, NEW status, Happens(r, status), s3' = s3 \ {r},
           UNCHANGED <<policy, service, signed, expired, lost>>
    PROVE  LET c == r.call IN
           /\ c \in Calls /\ OnWay(c)' = OnWay(c) \ {r}
           /\ s3' \subseteq s3 /\ did' \subseteq Calls
           /\ c \notin lost' => OnWay(c)' = {} /\ c \notin did
           /\ \A d \in Calls \ {c} : OnWay(d)' = OnWay(d) /\ (d \in did' <=> d \in did)
           /\ \A x \in Created : x.call = c /\ uploads'[x] # "none" =>
                uploads[x] # "none" \/ (Req(c).op = "create" /\ x.n = 1)
           /\ Req(c).op = "create" => \A q \in OnWay(c)' : uploads'[NewUpload(q)] = "none"
           /\ \A x \in known : uploads'[x] # "none"
           /\ known \subseteq known' => UploadsGrow(c)
<1> DEFINE c == r.call
<1>1. c \in Calls /\ did \subseteq Calls /\ known \subseteq UploadIds
      /\ \A u \in known : uploads[u] # "none"
  BY RequestType DEF IInv, TypeOK
<1>2. OnWay(c)' = OnWay(c) \ {r} /\ \A d \in Calls \ {c} : OnWay(d)' = OnWay(d)
  BY DEF OnWay
<1>3. c \notin lost' => OnWay(c)' = {} /\ c \notin did
  BY <1>2, LastAlone
<1>4. did' \subseteq Calls /\ \A d \in Calls \ {c} : d \in did' <=> d \in did
  BY <1>1 DEF Happens
<1>5. /\ \A x \in Created : x.call = c /\ uploads'[x] # "none" =>
           uploads[x] # "none" \/ (Req(c).op = "create" /\ x.n = 1)
      /\ Req(c).op = "create" => \A q \in OnWay(c)' : uploads'[NewUpload(q)] = "none"
      /\ \A x \in known : uploads'[x] # "none"
  BY <1>1, <1>2 DEF Happens, UploadIds
<1>6. UploadsGrow(c) <=> known \subseteq known'
  BY DEF UploadsGrow, Happens, UploadIds, NewUpload
<1>7. QED
  BY <1>1, <1>2, <1>3, <1>4, <1>5, <1>6

\* Nobody hears of it.
LEMMA UnheardKeeps ==
    ASSUME IInv, NEW r \in s3, NEW status, Happens(r, status), s3' = s3 \ {r},
           UNCHANGED <<policy, service, signed, expired, lost, jobs, call, known>>
    PROVE  IInv'
<1> DEFINE c == r.call
<1>1. /\ c \in Calls /\ OnWay(c)' = OnWay(c) \ {r} /\ s3' \subseteq s3 /\ did' \subseteq Calls
      /\ c \notin lost' => OnWay(c)' = {} /\ c \notin did
      /\ \A d \in Calls \ {c} : OnWay(d)' = OnWay(d) /\ (d \in did' <=> d \in did)
      /\ \A x \in Created : x.call = c /\ uploads'[x] # "none" =>
           uploads[x] # "none" \/ (Req(c).op = "create" /\ x.n = 1)
      /\ Req(c).op = "create" => \A q \in OnWay(c)' : uploads'[NewUpload(q)] = "none"
      /\ \A x \in known : uploads'[x] # "none"
      /\ UploadsGrow(c)
  BY ExecuteFrame
<1>2. /\ Travels(c) /\ Fresh(c) /\ Chained(c) /\ Told(c)
      /\ Allowed(Req(c)) /\ call[c].pc # "idle" /\ r.k \in Nat /\ r \in OnWay(c)
      /\ known \subseteq UploadIds
  BY <1>1, RequestType, Acting
<1>3. TypeOK'
  BY <1>1 DEF Happens, IInv, TypeOK, Over
<1>4. JobsOf(c)' = JobsOf(c) /\ \A d \in Calls : JobsOf(d)' = JobsOf(d)
  BY DEF JobsOf
<1>5. MovesOnly(c)
  BY <1>1, <1>4 DEF MovesOnly
<1>6. Req(c)' = Req(c) /\ (Allowed(Req(c))' <=> Allowed(Req(c)))
  BY AllowedStays DEF Req
<1> HIDE DEF c
<1>7. Travels(c)'
  BY <1>1, <1>2, <1>4, <1>6 DEF Travels
<1>8. Fresh(c)'
  <2>1. Req(c).op = "create" => call[c].pc \notin {"idle", "sending"}
    BY <1>2 DEF Fresh
  <2>2. Req(c).op = "create" => \A x \in Created, j \in JobsOf(c) :
          x.call = c /\ uploads'[x] # "none" => x.k <= j.k
    <3>1. ASSUME Req(c).op = "create", NEW x \in Created, NEW j \in JobsOf(c),
                 x.call = c, uploads'[x] # "none", uploads[x] = "none"
          PROVE  x.k <= j.k
      <4>1. x = NewUpload(r)
        BY <1>1, <3>1 DEF Happens, c, UploadIds
      <4>2. x.k = r.k
        BY <4>1 DEF NewUpload
      <4>3. r.k <= j.k
        BY <1>2, <3>1 DEF Fresh
      <4>4. QED
        BY <4>2, <4>3
    <3>2. QED
      BY <1>2, <3>1 DEF Fresh
  <2>3. QED
    BY <1>1, <1>2, <1>4, <1>6, <2>1, <2>2 DEF Fresh
<1>9. Chained(c)'
  <2>1. ASSUME c \notin lost' PROVE call[c].pc = "waiting" /\ \A j \in JobsOf(c) : j.k > 0
    <3>1. c \notin lost /\ r.plane \in {"control", "data"}
      BY <2>1, RequestType
    <3>2. /\ call[c].pc = "waiting"
          /\ r.plane = "data" => JobsOf(c) = {}
          /\ r.plane = "control" => JobsOf(c) = {[call |-> c, n |-> r.n, k |-> r.k]} /\ r.k > 0
      BY <3>1, RequestType, LastAlone DEF c
    <3>3. QED
      BY <3>1, <3>2
  <2>2. QED
    BY <1>1, <1>2, <1>4, <2>1 DEF Chained, Waits
<1>10. Told(c)'
  <2>1. Req(c).op = "abort" => call[c].target \in UploadIds
    BY <1>2 DEF Told, OnUpload
  <2>2. c \in did => c \in did'
    BY DEF Happens
  <2>3. \A x \in UploadIds : uploads[x] \in Over => uploads'[x] \in Over
    BY DEF Happens
  <2>4. QED
    BY <1>2, <1>6, <2>1, <2>2, <2>3, AllowedStays DEF Told, Req
<1>11. \A x \in known' : uploads'[x] # "none"
  BY <1>1
<1>12. QED
  BY <1>1, <1>3, <1>5, <1>7, <1>8, <1>9, <1>10, <1>11, StepKeeps

\* The client hears of its presigned PUT.
LEMMA PutHeardKeeps ==
    ASSUME IInv, NEW r \in s3, NEW status, Happens(r, status), s3' = s3 \ {r},
           r.plane = "data", Waits(r.call, "data", r.n),
           call' = [call EXCEPT ![r.call] = Received(@, status)],
           UNCHANGED <<policy, service, signed, expired, lost, jobs, known>>
    PROVE  IInv'
<1> DEFINE c == r.call
<1>1. /\ c \in Calls /\ OnWay(c)' = OnWay(c) \ {r} /\ s3' \subseteq s3 /\ did' \subseteq Calls
      /\ c \notin lost' => OnWay(c)' = {} /\ c \notin did
      /\ \A d \in Calls \ {c} : OnWay(d)' = OnWay(d) /\ (d \in did' <=> d \in did)
      /\ \A x \in Created : x.call = c /\ uploads'[x] # "none" =>
           uploads[x] # "none" \/ (Req(c).op = "create" /\ x.n = 1)
      /\ \A x \in known : uploads'[x] # "none"
      /\ UploadsGrow(c)
  BY ExecuteFrame
<1>2. /\ Travels(c) /\ Fresh(c) /\ Chained(c) /\ Told(c) /\ TypeOK /\ call \in [Calls -> CallState]
      /\ Allowed(Req(c)) /\ Req(c).op = "upload"
  BY <1>1, RequestType, Acting
<1>3. /\ status \in Statuses \ {401} /\ did' = IF status = 200 THEN did \cup {c} ELSE did
  BY DEF Happens
<1>4. Answered(c, status) /\ call' \in [Calls -> CallState]
  BY <1>1, <1>2, <1>3, AnswerIs
<1>5. \A d \in Calls \ {c} : call'[d] = call[d]
  BY <1>2
<1>6. TypeOK'
  BY <1>1, <1>4 DEF Happens, IInv, TypeOK, Over
<1>7. JobsOf(c)' = JobsOf(c) /\ \A d \in Calls : JobsOf(d)' = JobsOf(d)
  BY DEF JobsOf
<1>8. MovesOnly(c)
  BY <1>1, <1>5, <1>7 DEF MovesOnly
<1>9. call[c].pc = "waiting" /\ call[c].plane = "data" /\ call[c].outcome = "none"
  BY <1>2 DEF Waits, Travels
<1>10. /\ Req(c)' = Req(c) /\ (Allowed(Req(c))' <=> Allowed(Req(c)))
       /\ call'[c].plane = "data"
       /\ call'[c].n <= Attempts(Req(c))
       /\ \/ call'[c].pc = "sending" /\ call'[c].outcome = "none" /\ status # 200
          \/ /\ call'[c].pc = "done"
             /\ call'[c].outcome = "ok" <=> status = 200
             /\ call'[c].outcome # "unauthorized"
  BY <1>3, <1>4, <1>9, AllowedStays DEF Answered, Req
<1>11. c \notin lost' => JobsOf(c) = {}
  BY LastAlone
<1> HIDE DEF c
<1>12. Travels(c)'
  BY <1>1, <1>2, <1>7, <1>10 DEF Travels
<1>13. Fresh(c)'
  BY <1>1, <1>2, <1>10 DEF Fresh
<1>14. Chained(c)'
  BY <1>1, <1>3, <1>7, <1>10, <1>11 DEF Chained
<1>15. Told(c)'
  BY <1>2, <1>3, <1>10 DEF Told, OnUpload
<1>16. \A x \in known' : uploads'[x] # "none"
  BY <1>1
<1>17. QED
  BY <1>1, <1>6, <1>8, <1>12, <1>13, <1>14, <1>15, <1>16, StepKeeps

\* The handler hears of its request, and answers.
LEMMA AnswerHeardKeeps ==
    ASSUME IInv, NEW r \in s3, NEW status, Happens(r, status), s3' = s3 \ {r},
           r.plane = "control", NEW j \in jobs,
           j = [call |-> r.call, n |-> r.n, k |-> r.k], jobs' = jobs \ {j},
           status \in {200} \cup ProviderFailures \cup {403, 404},
           Answer(j, IF status = 200 THEN 200 ELSE StoreStatus(ClassifyError(status)),
                  IF Asked(r) = "create" THEN NewUpload(r) ELSE NoUpload),
           UNCHANGED <<policy, service, signed, expired, lost>>
    PROVE  IInv'
<1> DEFINE c == r.call
           seen == IF status = 200 THEN 200 ELSE StoreStatus(ClassifyError(status))
           u == IF Asked(r) = "create" THEN NewUpload(r) ELSE NoUpload
<1>1. j.call = c /\ c \in Calls /\ j \in JobsOf(c)
  <2>1. j.call = c
    OBVIOUS
  <2>2. c \in Calls
    BY RequestType
  <2>3. QED
    BY <2>1, <2>2 DEF JobsOf
<1>2. /\ Travels(c) /\ Allowed(Req(c)) /\ Req(c).op \notin Presigns
      /\ call[c].pc # "idle" /\ known \subseteq UploadIds
  BY <1>1, RequestType, Acting
<1>3. /\ seen \in Statuses /\ seen \notin {401, 403} /\ (seen = 200 <=> status = 200)
      /\ seen = 404 => status = 404
  BY StoreStatusIs DEF Statuses
<1>4. Answer(j, seen, u)
  OBVIOUS
<1> HIDE DEF seen, u
<1>5. /\ call' \in [Calls -> CallState] /\ \A d \in Calls \ {c} : call'[d] = call[d]
      /\ \/ known' = known
         \/ known' = IF seen = 200 /\ u # NoUpload THEN known \cup {u} ELSE known
  BY <1>1, <1>3, <1>4, AnswerMoves
<1>6. /\ known \subseteq known' /\ known' \subseteq UploadIds
      /\ \A x \in known' \ known : uploads'[x] # "none"
  <2>1. u # NoUpload => Req(c).op = "create" /\ u = NewUpload(r)
    BY DEF u, Asked, Req
  <2>2. u # NoUpload /\ status = 200 => u \in UploadIds /\ uploads'[u] # "none"
    BY <2>1 DEF Happens, UploadIds
  <2>3. QED
    BY <1>2, <1>3, <1>5, <2>2
<1>7. /\ OnWay(c)' = OnWay(c) \ {r} /\ s3' \subseteq s3 /\ did' \subseteq Calls
      /\ c \notin lost' => OnWay(c)' = {} /\ c \notin did
      /\ \A d \in Calls \ {c} : OnWay(d)' = OnWay(d) /\ (d \in did' <=> d \in did)
      /\ \A x \in Created : x.call = c /\ uploads'[x] # "none" =>
           uploads[x] # "none" \/ (Req(c).op = "create" /\ x.n = 1)
      /\ Req(c).op = "create" => \A q \in OnWay(c)' : uploads'[NewUpload(q)] = "none"
      /\ \A x \in known : uploads'[x] # "none"
      /\ UploadsGrow(c)
  BY <1>6, ExecuteFrame
<1>8. /\ did' = IF status = 200 THEN did \cup {c} ELSE did
      /\ \A x \in UploadIds : uploads[x] \in Over => uploads'[x] \in Over
      /\ Req(c).op = "abort" /\ status \in {200, 404} => uploads'[call[c].target] \in Over
  BY DEF Happens
<1>9. TypeOK'
  BY <1>5, <1>6, <1>7 DEF Happens, IInv, TypeOK, Over
<1>10. JobsOf(c)' = JobsOf(c) \ {j} /\ \A d \in Calls \ {c} : JobsOf(d)' = JobsOf(d)
  BY <1>1 DEF JobsOf
<1>11. MovesOnly(c)
  BY <1>5, <1>7, <1>10 DEF MovesOnly
<1> HIDE DEF c
<1>12. /\ OnWay(c)' \subseteq OnWay(c)
       /\ c \in lost => c \in lost'
       /\ c \in did => c \in did'
  BY <1>7, <1>8
<1>13. signed'[c] # 0 \/ c \in did' \/ seen = 200 => Allowed(Req(c))
  BY <1>2
<1>14. c \notin lost' => OnWay(c)' = {}
  BY <1>7
<1>15. c \notin lost' /\ c \in did' => seen = 200 /\ Req(c).op \notin Presigns
  BY <1>2, <1>3, <1>7, <1>8
<1>16. /\ seen = 200 /\ Req(c).op \in Mutating /\ Req(c).op # "upload" => c \in did'
       /\ seen = 401 =>
            \A i \in DOMAIN policy.principals : Req(c).token \notin policy.principals[i].tokens
       /\ seen = 403 => ~Allowed(Req(c))
       /\ Req(c).op = "abort" /\ seen \in {200, 404} /\ call[c].pc = "waiting" =>
            uploads'[call[c].target] \in Over
  BY <1>3, <1>8
<1>17. c \in Calls /\ j \in JobsOf(c) /\ JobsOf(c)' = JobsOf(c) \ {j}
  BY <1>1, <1>10
<1>18. (Travels(c) /\ Fresh(c) /\ Chained(c) /\ Told(c))'
  BY <1>3, <1>4, <1>6, <1>7, <1>8, <1>12, <1>13, <1>14, <1>15, <1>16, <1>17, JobEnds
<1>19. \A x \in known' : uploads'[x] # "none"
  BY <1>6, <1>7
<1>20. QED
  BY <1>7, <1>9, <1>11, <1>17, <1>18, <1>19, StepKeeps

LEMMA ExecuteKeeps ==
    ASSUME IInv, NEW r \in s3, Execute(r)
    PROVE  IInv'
<1>1. PICK status \in {Regular(r)} \cup ProviderFailures :
        /\ IF status = 200 THEN Perform(r) ELSE UNCHANGED s3Vars
        /\ \/ Heard(r, status)
           \/ s3' = s3 \ {r} /\ UNCHANGED <<jobs, clientVars>>
  BY DEF Execute
<1>2. UNCHANGED <<policy, service, signed, expired, lost>>
  BY DEF Execute
<1>3. Happens(r, status)
  BY <1>1, ExecuteHappens
<1>4. status \in {200} \cup ProviderFailures \cup {403, 404}
  BY <1>1 DEF Regular
<1> DEFINE j == [call |-> r.call, n |-> r.n, k |-> r.k]
           u == IF Asked(r) = "create" THEN NewUpload(r) ELSE NoUpload
<1>5. CASE s3' = s3 \ {r} /\ UNCHANGED <<jobs, clientVars>>
  BY <1>2, <1>3, <1>5, UnheardKeeps DEF clientVars
<1>6. CASE /\ r.plane = "data" /\ Waits(r.call, "data", r.n)
           /\ call' = [call EXCEPT ![r.call] = Received(@, status)]
           /\ s3' = s3 \ {r} /\ UNCHANGED <<jobs, known>>
  BY <1>2, <1>3, <1>6, PutHeardKeeps
<1>7. CASE /\ r.plane = "control" /\ j \in jobs /\ status \in {500, 503}
           /\ SdkAgain(j, s3 \ {r})
  <2>1. UNCHANGED <<uploads, object, did>>
    BY <1>1, <1>7 DEF s3Vars
  <2>2. j.k > 0 /\ j.call = r.call
    BY <1>7, RequestType
  <2>3. r.call \notin lost' => r.call \notin did /\ \A q \in s3 \ {r} : q.call # r.call
    BY <1>2, LastAlone DEF OnWay
  <2>4. s3 \ {r} \in SUBSET s3 /\ \A q \in s3 \ (s3 \ {r}) : q.call = r.call
    OBVIOUS
  <2> HIDE DEF j
  <2>5. QED
    BY <1>2, <1>7, <2>1, <2>2, <2>3, <2>4, SdkAgainKeeps
<1>8. CASE /\ r.plane = "control" /\ j \in jobs
           /\ Answer(j, IF status = 200 THEN 200 ELSE StoreStatus(ClassifyError(status)), u)
           /\ jobs' = jobs \ {j} /\ s3' = s3 \ {r}
  BY <1>2, <1>3, <1>4, <1>8, AnswerHeardKeeps
<1>9. QED
  BY <1>1, <1>5, <1>6, <1>7, <1>8 DEF Heard

-----------------------------------------------------------------------------
(* The invariant *)

LEMMA Initial == Init => IInv
<1> SUFFICES ASSUME Init PROVE IInv
  OBVIOUS
<1>1. PICK req \in Workloads :
        call = [c \in Calls |->
                  [req |-> req[c], target |-> NoUpload, pc |-> "idle",
                   plane |-> "control", n |-> 1, outcome |-> "none"]]
  BY DEF Init
<1>2. req \in [Calls -> Requests] /\ 1 \in 1..MaxAttempts
  BY CallConstants
<1>3. call \in [Calls -> CallState]
  BY <1>1, <1>2 DEF CallState, Outcomes
<1>4. \A c \in Calls : call[c].pc = "idle" /\ call[c].plane = "control"
                       /\ call[c].n = 1 /\ call[c].outcome = "none"
  BY <1>1
<1>5. \A s \in {s \in Services : ValidService(s)} : 0 \in 0..s.max
  BY CallConstants DEF ValidService
<1>6. /\ jobs = {} /\ s3 = {} /\ did = {} /\ known = {Earlier}
      /\ expired = {} /\ lost = {} /\ object \in {"absent", Earlier}
      /\ policy \in {p \in Policies : CompilePolicy(p)}
      /\ service \in {s \in Services : ValidService(s)}
      /\ signed = [c \in Calls |-> 0]
      /\ uploads = [u \in UploadIds |-> IF u = Earlier THEN "open" ELSE "none"]
  BY DEF Init
<1>7. TypeOK
  BY <1>3, <1>5, <1>6 DEF TypeOK, UploadIds
<1>8. \A u \in known : uploads[u] # "none"
  BY <1>6 DEF UploadIds
<1>9. \A u \in Created : uploads[u] = "none"
  BY <1>6, CallConstants DEF UploadIds
<1>10. ASSUME NEW c \in Calls PROVE Travels(c) /\ Fresh(c) /\ Chained(c) /\ Told(c)
  <2>1. JobsOf(c) = {} /\ OnWay(c) = {} /\ signed[c] = 0
    BY <1>6 DEF JobsOf, OnWay
  <2>2. 1 <= Attempts(Req(c))
    BY AttemptsType
  <2>3. QED
    BY <1>4, <1>6, <1>9, <2>1, <2>2 DEF Travels, Fresh, Chained, Told
<1>11. QED
  BY <1>7, <1>8, <1>10 DEF IInv

LEMMA Consecutive == IInv /\ [Next]_vars => IInv'
<1> SUFFICES ASSUME IInv, [Next]_vars PROVE IInv'
  OBVIOUS
<1>1. CASE Next
  <2>1. CASE \E c \in Calls : Start(c) \/ Send(c) \/ TransportError(c) \/ Expire(c)
    BY <2>1, StartKeeps, SendKeeps, TransportErrorKeeps, ExpireKeeps
  <2>2. CASE \E j \in jobs : Handle(j) \/ Cancel(j) \/ SdkGivesUp(j)
    BY <2>2, HandleKeeps, CancelKeeps, SdkGivesUpKeeps
  <2>3. CASE \E r \in s3 : Execute(r)
    BY <2>3, ExecuteKeeps
  <2>4. QED
    BY <1>1, <2>1, <2>2, <2>3 DEF Next
<1>2. CASE UNCHANGED vars
  <2>1. UNCHANGED <<policy, service, call, jobs, s3, uploads, object, known, signed, expired,
                    did, lost>>
    BY <1>2 DEF vars
  <2>2. TypeOK'
    BY <2>1 DEF IInv, TypeOK
  <2>3. \A c \in Calls : JobsOf(c)' = JobsOf(c) /\ OnWay(c)' = OnWay(c)
    BY <2>1 DEF JobsOf, OnWay
  <2>4. \A c \in Calls : (Travels(c) /\ Fresh(c) /\ Chained(c) /\ Told(c))'
    BY <2>1, <2>3, AllowedStays DEF IInv, Travels, Fresh, Chained, Told, Req, Waits
  <2>5. QED
    BY <2>1, <2>2, <2>4 DEF IInv
<1>3. QED
  BY <1>1, <1>2

LEMMA Inductive == Spec => []IInv
<1>1. QED
  BY Initial, Consecutive, PTL DEF Spec

-----------------------------------------------------------------------------
(* The theorems *)

\* Every variable keeps its type, in every call of every client.
THEOREM TypeCorrect == Spec => []TypeOK
<1>1. IInv => TypeOK
  BY DEF IInv
<1>2. QED
  BY <1>1, Inductive, PTL

\* The outcome of a call of the storage API is the truth, whichever answers were
\* lost: a success happened, a denial is the policy's, an aborted upload is over.
THEOREM TruthTold == Spec => []OutcomesFit
<1>1. IInv => OutcomesFit
  <2> SUFFICES ASSUME IInv PROVE OutcomesFit
    OBVIOUS
  <2>1. SuccessIsTrue
    BY DEF SuccessIsTrue, IInv, Told, Chained, Req
  <2>2. DeniedByPolicy
    BY DEF DeniedByPolicy, IInv, Told, Req
  <2>3. AbortedIsOver
    BY DEF AbortedIsOver, IInv, Told, Req, Over
  <2>4. QED
    BY <2>1, <2>2, <2>3 DEF OutcomesFit
<1>2. QED
  BY <1>1, Inductive, PTL

\* When a call whose answers all arrived has returned, neither the service nor S3
\* still works on it.
THEOREM NothingFollows == Spec => []NothingLeftBehind
<1>1. IInv => NothingLeftBehind
  <2> SUFFICES ASSUME IInv, NEW c \in Calls, call[c].pc = "done", c \notin lost,
                      NEW x \in jobs \cup s3, x.call = c
               PROVE  FALSE
    BY DEF NothingLeftBehind
  <2>1. CASE x \in jobs
    BY <2>1 DEF IInv, Chained, Waits, JobsOf
  <2>2. CASE x \in s3
    BY <2>2, LastAlone
  <2>3. QED
    BY <2>1, <2>2
<1>2. QED
  BY <1>1, Inductive, PTL

\* Whatever the service signs, asks S3 for or has S3 do is granted by the access
\* file to the token that came with the request.
THEOREM OnlyAllowedHappens == Spec => []OnlyAllowed
<1>1. IInv => OnlyAllowed
  <2> SUFFICES ASSUME IInv, NEW c \in Calls
               PROVE  /\ (c \in did \/ signed[c] # 0 \/ \E r \in s3 : r.call = c) =>
                           Allowed(call[c].req)
                      /\ signed[c] <= service.max
    BY DEF OnlyAllowed
  <2>1. signed[c] \in 0..service.max /\ service.max \in Int
    BY CallConstants DEF IInv, TypeOK
  <2>2. \A r \in s3 : r.call = c => Allowed(call[c].req)
    BY RequestType DEF Req
  <2>3. QED
    BY <2>1, <2>2 DEF IInv, Travels, Req
<1>2. QED
  BY <1>1, Inductive, PTL

\* The retries of the client and those of the SDK do not multiply.
THEOREM CreatesAreBounded == Spec => []CreatesBounded
<1>1. IInv => CreatesBounded
  <2> SUFFICES ASSUME IInv, NEW c \in Calls
               PROVE  /\ call[c].n <= Attempts(call[c].req)
                      /\ Cardinality({u \in Created : u.call = c /\ uploads[u] # "none"})
                           <= SdkAttempts
    BY DEF CreatesBounded
  <2> DEFINE made == {u \in Created : u.call = c /\ uploads[u] # "none"}
             ids == {[call |-> c, n |-> 1, k |-> k] : k \in 1..SdkAttempts}
  <2>1. SdkAttempts \in Nat
    BY CallConstants
  <2>2. IsFiniteSet(1..SdkAttempts) /\ Cardinality(1..SdkAttempts) = SdkAttempts
    BY <2>1, FS_Interval
  <2>3. IsFiniteSet(ids) /\ Cardinality(ids) <= SdkAttempts
    <3> DEFINE id == [k \in 1..SdkAttempts |-> [call |-> c, n |-> 1, k |-> k]]
    <3>1. ids = {id[k] : k \in 1..SdkAttempts}
      OBVIOUS
    <3>2. id \in Surjection(1..SdkAttempts, ids)
      BY DEF Surjection
    <3>3. QED
      BY <2>2, <3>2, FS_Surjection
  <2>4. made \subseteq ids
    <3>1. ASSUME NEW u \in made PROVE u \in ids
      <4>1. u.n = 1 /\ u.call = c /\ u \in Created
        BY DEF IInv, Fresh
      <4>2. u = [call |-> c, n |-> 1, k |-> u.k] /\ u.k \in 1..SdkAttempts
        BY <4>1 DEF Created
      <4>3. QED
        BY <4>2
    <3>2. QED
      BY <3>1
  <2>5. Cardinality(made) <= Cardinality(ids) /\ Cardinality(made) \in Nat
    BY <2>3, <2>4, FS_Subset, FS_CardinalityType
  <2>6. Cardinality(ids) \in Nat
    BY <2>3, FS_CardinalityType
  <2>7. call[c].n <= Attempts(call[c].req)
    BY DEF IInv, Travels, Req
  <2>8. QED
    BY <2>1, <2>3, <2>5, <2>6, <2>7
<1>2. QED
  BY <1>1, Inductive, PTL

-----------------------------------------------------------------------------
(* StorageService: the process *)

\* Shutdown has returned without an error only when every request was answered, and
\* no request is accepted after it began.
Drained == (main \in {"joining", "exited"} /\ ~failed) => Active = {}

\* The loop lowers the flag when it ends, and nobody raises it after that.
Lowered == loop = "stopped" => ~ready

ServiceInv ==
    /\ ServiceTypeOK /\ Drained /\ Lowered
    /\ (main = "exited" /\ ~failed) => loop = "stopped"

LEMMA ServiceInitially == ServiceInit => ServiceInv
<1> SUFFICES ASSUME ServiceInit PROVE ServiceInv
  OBVIOUS
<1>1. ServiceTypeOK
  BY DEF ServiceInit, ServiceTypeOK, NewRound
<1>2. Drained /\ Lowered /\ main # "exited"
  BY DEF ServiceInit, Drained, Lowered
<1>3. QED
  BY <1>1, <1>2 DEF ServiceInv

-----------------------------------------------------------------------------
(* The health loop *)

LEMMA LoopStep ==
    ASSUME ServiceInv, (\E n \in Namespaces : CheckReturns(n)) \/ StoreOutcome \/ StartRound \/ StopLoop
    PROVE  ServiceInv'
<1> USE DEF ServiceInv, ServiceTypeOK, Running
<1>1. CASE \E n \in Namespaces : CheckReturns(n)
  <2>1. PICK n \in Namespaces : CheckReturns(n)
    BY <1>1
  <2>2. results' \in [Namespaces -> {"pending", "ok", "failed"}] /\ loop' = "checking"
    BY <2>1 DEF CheckReturns
  <2>3. QED
    BY <2>1, <2>2 DEF CheckReturns, Drained, Lowered, Active
<1>2. CASE StoreOutcome
  <2>1. AllPassed \in BOOLEAN /\ Pending' = {}
    BY <1>2 DEF StoreOutcome, AllPassed, Pending
  <2>2. QED
    BY <1>2, <2>1 DEF StoreOutcome, Drained, Lowered, Active
<1>3. CASE StartRound
  <2>1. results' \in [Namespaces -> {"pending", "ok", "failed"}] /\ loop' = "checking"
    BY <1>3 DEF StartRound, NewRound
  <2>2. QED
    BY <1>3, <2>1 DEF StartRound, Drained, Lowered, Active
<1>4. CASE StopLoop
  BY <1>4 DEF StopLoop, Drained, Lowered, Active, Pending
<1>5. QED
  BY <1>1, <1>2, <1>3, <1>4

-----------------------------------------------------------------------------
(* Requests *)

LEMMA RequestStep ==
    ASSUME ServiceInv, NEW r \in Arrivals,
           Accept(r) \/ AuthenticateArrival(r) \/ RequireReady(r) \/ AnswerArrival(r)
    PROVE  ServiceInv'
<1> USE DEF ServiceInv, ServiceTypeOK
<1>1. arrival' \in [Arrivals -> {"absent", "accepted", "authenticated", "admitted",
                             "refused", "answered"}]
  BY DEF Accept, AuthenticateArrival, RequireReady, AnswerArrival
<1>2. UNCHANGED <<up, loop, results, ready, main, canceled, overdue, failed>>
  BY DEF Accept, AuthenticateArrival, RequireReady, AnswerArrival
<1>3. Drained'
  <2>1. CASE Accept(r)
    BY <2>1 DEF Accept, Drained
  <2>2. CASE AuthenticateArrival(r) \/ RequireReady(r) \/ AnswerArrival(r)
    <3>1. r \in Active
      BY <2>2 DEF AuthenticateArrival, RequireReady, AnswerArrival, Active
    <3>2. QED
      BY <1>2, <3>1 DEF Drained
  <2>3. QED
    BY <2>1, <2>2
<1>4. QED
  BY <1>1, <1>2, <1>3 DEF Lowered, Pending

-----------------------------------------------------------------------------
(* run *)

LEMMA MainStep ==
    ASSUME ServiceInv, Notified \/ LowerReady \/ CloseListener \/ PassDeadline \/ ShutdownReturns \/ Exit
    PROVE  ServiceInv'
<1> USE DEF ServiceInv, ServiceTypeOK
<1>1. CASE Notified
  BY <1>1 DEF Notified, Drained, Lowered, Active, Pending
<1>2. CASE LowerReady
  BY <1>2 DEF LowerReady, Drained, Lowered, Active, Pending
<1>3. CASE CloseListener
  BY <1>3 DEF CloseListener, Drained, Lowered, Active, Pending
<1>4. CASE PassDeadline
  BY <1>4 DEF PassDeadline, Drained, Lowered, Active, Pending
<1>5. CASE ShutdownReturns
  <2>1. Active' = Active /\ Pending' = Pending
    BY <1>5 DEF ShutdownReturns, Active, Pending
  <2>2. QED
    BY <1>5, <2>1 DEF ShutdownReturns, Drained, Lowered
<1>6. CASE Exit
  <2>1. Active' = Active /\ Pending' = Pending
    BY <1>6 DEF Exit, Active, Pending
  <2>2. QED
    BY <1>6, <2>1 DEF Exit, Drained, Lowered
<1>7. QED
  BY <1>1, <1>2, <1>3, <1>4, <1>5, <1>6

LEMMA ServiceInvariance == ServiceSpec => []ServiceInv
<1>1. ServiceInv /\ [ServiceNext]_serviceVars => ServiceInv'
  <2> SUFFICES ASSUME ServiceInv, [ServiceNext]_serviceVars PROVE ServiceInv'
    OBVIOUS
  <2>1. CASE ChangeStores \/ UNCHANGED serviceVars
    BY <2>1 DEF ChangeStores, serviceVars, ServiceInv, ServiceTypeOK, Drained, Lowered, Active, Pending
  <2>2. QED
    BY <2>1, LoopStep, RequestStep, MainStep DEF ServiceNext
<1>2. QED
  BY ServiceInitially, <1>1, PTL DEF ServiceSpec

-----------------------------------------------------------------------------
(* The theorems *)

\* Every variable of the service keeps its type, and between two rounds no check is
\* pending: the outcome of a round is stored only when every check has returned.
THEOREM ServiceTypeCorrect == ServiceSpec => []ServiceTypeOK
<1>1. ServiceInv => ServiceTypeOK
  BY DEF ServiceInv
<1>2. QED
  BY <1>1, ServiceInvariance, PTL

\* run: however checks, requests, signals and the deadline interleave, a process that
\* exits without an error has answered every request it accepted, and its health
\* loop has ended with the flag down.
THEOREM ExitsClean == ServiceSpec => []CleanExit
<1>1. ServiceInv => CleanExit
  BY DEF ServiceInv, Drained, Lowered, CleanExit
<1>2. QED
  BY <1>1, ServiceInvariance, PTL

=============================================================================
