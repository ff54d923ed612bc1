----------------------------- MODULE AuthSession -----------------------------
(***************************************************************************)
(* sdk/frontend/src/http: the requests of one AuthSession, from capture to *)
(* settlement, and the refresh rounds they share.                          *)
(*                                                                         *)
(* JavaScript runs one stretch of code at a time, so an action is what one *)
(* request or one promise does between two awaits.  Everything else may    *)
(* happen at an await: other requests, an abort, a login or a logout.  A   *)
(* callback of the project that changes the session synchronously is the   *)
(* change followed by the callback's continuation.                         *)
(*                                                                         *)
(* The project's contract is that an epoch is never used twice, so one     *)
(* EpochState exists per epoch.  Its round objects are kept in the order   *)
(* of their creation; the last one is state.round.                         *)
(***************************************************************************)
EXTENDS Integers, Sequences

CONSTANTS
    Requests,    \* the calls of execute, on trusted targets, not yet aborted
    MaxRetries,  \* the retry limit of the requests
    MaxEpoch     \* the bound on session changes

ASSUME AuthConstants == MaxRetries \in Nat /\ MaxEpoch \in Nat \ {0}

VARIABLES
    epoch,       \* what getSessionEpoch returns
    credential,  \* credential[e]: the round whose refresh saved e's credentials
    rounds,      \* rounds[e]: the round objects of e's EpochState
    req          \* the requests

vars == <<epoch, credential, rounds, req>>

Epochs == 1..MaxEpoch

Refreshing == {"queued", "calling", "decided"}
Verdicts == {"refreshed", "expired", "auth", "session-changed"}
Notices == {"done", "auth", "session-changed"}

\* refresh and notification are the two promises of a RefreshRound.
Round == [refresh : {"none", "settled"} \cup Refreshing,
          result : {"none"} \cup Verdicts,
          notification : {"none", "queued", "calling"} \cup Notices]

NewRound == [refresh |-> "none", result |-> "none", notification |-> "none"]

Waits == {"headers", "sending", "transforming", "backoff"}
Outcomes == {"success", "error", "unauthorized", "auth", "session-changed", "canceled"}

\* epoch and round are the snapshot; header is the version of the
\* credentials that the request carries.
Request == [pc : {"idle", "refreshing", "notifying", "settled"} \cup Waits,
            epoch : Nat, round : Nat, header : Nat,
            recovered : BOOLEAN, retries : Nat, sends : Nat,
            outcome : {"none"} \cup Outcomes]

Unsent == [pc |-> "idle", epoch |-> 0, round |-> 0, header |-> 0,
           recovered |-> FALSE, retries |-> 0, sends |-> 0, outcome |-> "none"]

\* The types, and the snapshot of a request points at a round that exists.
TypeOK ==
    /\ epoch \in Epochs
    /\ credential \in [Epochs -> Nat]
    /\ rounds \in [Epochs -> Seq(Round)]
    /\ req \in [Requests -> Request]
    /\ \A i \in Requests : req[i].pc # "idle" =>
          /\ req[i].epoch \in Epochs
          /\ req[i].round \in 1..Len(rounds[req[i].epoch])
          /\ req[i].retries <= MaxRetries

Init ==
    /\ epoch = 1
    /\ credential = [e \in Epochs |-> 0]
    /\ rounds = [e \in Epochs |-> <<NewRound>>]
    /\ req = [i \in Requests |-> Unsent]

-----------------------------------------------------------------------------
(* One request: execute and createRequestAuth.                             *)

\* assertCurrent.  getSessionEpoch returns: that it may throw, which is an "auth" error
\* wherever the session is checked, is left out.
Current(i) == req[i].epoch = epoch
RoundOf(i) == rounds[req[i].epoch][req[i].round]

Settle(i, outcome) ==
    req' = [req EXCEPT ![i].pc = "settled", ![i].outcome = outcome]

Transmit(i) == req' = [req EXCEPT ![i].pc = "sending", ![i].sends = @ + 1]

\* capture, then the synchronous part of headers, which calls getAuthHeaders.
Start(i) ==
    /\ req[i].pc = "idle"
    /\ req' = [req EXCEPT ![i] =
                 [pc |-> "headers", epoch |-> epoch, round |-> Len(rounds[epoch]),
                  header |-> credential[epoch], recovered |-> FALSE,
                  retries |-> 0, sends |-> 0, outcome |-> "none"]]
    /\ UNCHANGED <<epoch, credential, rounds>>

HeadersReady(i) ==
    /\ req[i].pc = "headers"
    /\ Current(i)
    /\ Transmit(i)
    /\ UNCHANGED <<epoch, credential, rounds>>

\* getAuthHeaders throws, or returns something that is no header object.
HeadersFail(i) ==
    /\ req[i].pc = "headers"
    /\ Current(i)
    /\ Settle(i, "auth")
    /\ UNCHANGED <<epoch, credential, rounds>>

\* A response to transform and deliver.
Respond(i) ==
    /\ req[i].pc = "sending"
    /\ Current(i)
    /\ req' = [req EXCEPT ![i].pc = "transforming"]
    /\ UNCHANGED <<epoch, credential, rounds>>

Deliver(i) ==
    /\ req[i].pc = "transforming"
    /\ Current(i)
    /\ Settle(i, "success")
    /\ UNCHANGED <<epoch, credential, rounds>>

\* The error is not for recovery, or the request opted out, or the predicate
\* throws; and retryDelay returns null.
Fail(i) ==
    /\ req[i].pc \in {"sending", "transforming"}
    /\ Current(i)
    /\ \E outcome \in {"error", "auth"} : Settle(i, outcome)
    /\ UNCHANGED <<epoch, credential, rounds>>

\* Only a failure of the transport is retried.
Retry(i) ==
    /\ req[i].pc = "sending"
    /\ Current(i)
    /\ req[i].retries < MaxRetries
    /\ req' = [req EXCEPT ![i].pc = "backoff", ![i].retries = @ + 1]
    /\ UNCHANGED <<epoch, credential, rounds>>

\* The headers are those that were read before the failure.
BackoffOver(i) ==
    /\ req[i].pc = "backoff"
    /\ Current(i)
    /\ Transmit(i)
    /\ UNCHANGED <<epoch, credential, rounds>>

\* checkActive throws when the wait ends in another session.
Abandon(i) ==
    /\ req[i].pc \in Waits
    /\ ~Current(i)
    /\ Settle(i, "session-changed")
    /\ UNCHANGED <<epoch, credential, rounds>>

\* Fault: canceling the request that waits for a refresh drops the promise.
Cancel_SharedRefresh(i) ==
    /\ req[i].pc \notin {"idle", "settled"}
    /\ Settle(i, "canceled")
    /\ rounds' = IF req[i].pc = "refreshing" /\ RoundOf(i).refresh = "calling"
                 THEN [rounds EXCEPT ![req[i].epoch][req[i].round].refresh = "none"]
                 ELSE rounds
    /\ UNCHANGED <<epoch, credential>>

\* The signal aborts: the wait under way rejects, nothing else is canceled.
Cancel(i) ==
    /\ req[i].pc \notin {"idle", "settled"}
    /\ Settle(i, "canceled")
    /\ UNCHANGED <<epoch, credential, rounds>>

-----------------------------------------------------------------------------
(* Recovery: recover, refresh and notify.                                  *)

\* notify, of a session with an onUnauthorized; without one there is no notification
\* and notify resolves at once, which is left out.
JoinNotification(i) ==
    /\ req' = [req EXCEPT ![i].pc = "notifying"]
    /\ rounds' = IF RoundOf(i).notification = "none"
                 THEN [rounds EXCEPT
                         ![req[i].epoch][req[i].round].notification = "queued"]
                 ELSE rounds

\* Fault: the round in use is taken when the refusal arrives, not at capture.
JoinRefresh_LatestRound(i) ==
    LET n == Len(rounds[epoch])
    IN  /\ req' = [req EXCEPT ![i].pc = "refreshing", ![i].recovered = TRUE,
                              ![i].round = n]
        /\ rounds' = IF rounds[epoch][n].refresh = "none"
                     THEN [rounds EXCEPT ![epoch][n].refresh = "queued"]
                     ELSE rounds

\* round.refresh is created by the first request of the round that needs it.
JoinRefresh(i) ==
    /\ req' = [req EXCEPT ![i].pc = "refreshing", ![i].recovered = TRUE]
    /\ rounds' = IF RoundOf(i).refresh = "none"
                 THEN [rounds EXCEPT ![req[i].epoch][req[i].round].refresh = "queued"]
                 ELSE rounds

\* shouldRefresh accepts the HTTP or business error of the response.
Refused(i) ==
    /\ req[i].pc \in {"sending", "transforming"}
    /\ Current(i)
    /\ \/ ~req[i].recovered /\ JoinRefresh(i)
       \/ req[i].recovered /\ JoinNotification(i)
    /\ UNCHANGED <<epoch, credential>>

\* Fault: the replay goes out with the headers that were refused.
Replay_OldHeaders(i) == Transmit(i) /\ UNCHANGED rounds

\* recover returns true: the headers are read again and the loop goes on.
Replay(i) ==
    /\ req' = [req EXCEPT ![i].pc = "headers", ![i].header = credential[epoch]]
    /\ UNCHANGED rounds

\* Fault: a refresh that failed counts as an expired session.
AfterRefresh_FailedIsExpired(i) ==
    LET result == RoundOf(i).result
    IN  \/ Current(i) /\ result = "refreshed" /\ Replay(i)
        \/ Current(i) /\ result \in {"expired", "auth"} /\ JoinNotification(i)
        \/ ~Current(i) /\ Settle(i, "session-changed") /\ UNCHANGED rounds

AfterRefresh(i) ==
    LET result == RoundOf(i).result
    IN  \/ Current(i) /\ result = "refreshed" /\ Replay(i)
        \/ Current(i) /\ result = "expired" /\ JoinNotification(i)
        \/ /\ ~Current(i) /\ result \in {"refreshed", "expired"}
           /\ Settle(i, "session-changed") /\ UNCHANGED rounds
        \/ /\ result \in {"auth", "session-changed"}
           /\ Settle(i, result) /\ UNCHANGED rounds

WakeFromRefresh(i) ==
    /\ req[i].pc = "refreshing"
    /\ RoundOf(i).refresh = "settled"
    /\ AfterRefresh(i)
    /\ UNCHANGED <<epoch, credential>>

\* Fault: recover does not await the notification.
WakeFromNotification_NotAwaited(i) ==
    /\ req[i].pc = "notifying"
    /\ Settle(i, "unauthorized")
    /\ UNCHANGED <<epoch, credential, rounds>>

\* The response error is thrown although the callback may have ended the
\* session; a callback that fails hands over its own error.
WakeFromNotification(i) ==
    /\ req[i].pc = "notifying"
    /\ RoundOf(i).notification \in Notices
    /\ Settle(i, IF RoundOf(i).notification = "done" THEN "unauthorized"
                 ELSE RoundOf(i).notification)
    /\ UNCHANGED <<epoch, credential, rounds>>

-----------------------------------------------------------------------------
(* The promises of a round, which belong to no request.                    *)

\* Fault: the refresh starts without looking at the epoch again.
BeginRefresh_Unchecked(e, n) ==
    /\ rounds[e][n].refresh = "queued"
    /\ rounds' = [rounds EXCEPT ![e][n].refresh = "calling"]
    /\ UNCHANGED <<epoch, credential, req>>

\* Fault: the EpochState gets its new round when the refresh begins.
BeginRefresh_NewRound(e, n) ==
    /\ rounds[e][n].refresh = "queued"
    /\ rounds' = IF e = epoch
                 THEN [rounds EXCEPT ![e] = Append([@ EXCEPT ![n].refresh = "calling"], NewRound)]
                 ELSE [rounds EXCEPT ![e][n] = [@ EXCEPT !.refresh = "decided",
                                                         !.result = "session-changed"]]
    /\ UNCHANGED <<epoch, credential, req>>

\* The first microtask calls refreshSession, in the session of the request.
BeginRefresh(e, n) ==
    /\ rounds[e][n].refresh = "queued"
    /\ rounds' = IF e = epoch
                 THEN [rounds EXCEPT ![e][n].refresh = "calling"]
                 ELSE [rounds EXCEPT ![e][n] = [@ EXCEPT !.refresh = "decided",
                                                         !.result = "session-changed"]]
    /\ UNCHANGED <<epoch, credential, req>>

\* refreshSession answers or throws.  It has saved the new credentials
\* before it answers REFRESHED.
EndRefresh(e, n) ==
    /\ rounds[e][n].refresh = "calling"
    /\ \E result \in IF e = epoch THEN Verdicts \ {"session-changed"}
                     ELSE {"session-changed"} :
          /\ rounds' = [rounds EXCEPT ![e][n] = [@ EXCEPT !.refresh = "decided",
                                                          !.result = result]]
          /\ credential' = IF result = "refreshed" THEN [credential EXCEPT ![e] = n]
                           ELSE credential
    /\ UNCHANGED <<epoch, req>>

\* finally gives the EpochState a new round before any waiter hears of it.
SettleRefresh(e, n) ==
    /\ rounds[e][n].refresh = "decided"
    /\ LET settled == [rounds[e] EXCEPT ![n].refresh = "settled"]
       IN  rounds' = [rounds EXCEPT ![e] = IF n = Len(@) THEN Append(settled, NewRound)
                                           ELSE settled]
    /\ UNCHANGED <<epoch, credential, req>>

BeginNotification(e, n) ==
    /\ rounds[e][n].notification = "queued"
    /\ rounds' = [rounds EXCEPT ![e][n].notification =
                    IF e = epoch THEN "calling" ELSE "session-changed"]
    /\ UNCHANGED <<epoch, credential, req>>

\* onUnauthorized returns or throws, whatever the session is by then.
EndNotification(e, n) ==
    /\ rounds[e][n].notification = "calling"
    /\ \E notice \in {"done", "auth"} :
          rounds' = [rounds EXCEPT ![e][n].notification = notice]
    /\ UNCHANGED <<epoch, credential, req>>

\* The project: login, logout, or another account.
ChangeSession ==
    /\ epoch < MaxEpoch
    /\ epoch' = epoch + 1
    /\ UNCHANGED <<credential, rounds, req>>

RequestStep(i) ==
    \/ HeadersReady(i) \/ HeadersFail(i)
    \/ Respond(i) \/ Deliver(i) \/ Fail(i)
    \/ Retry(i) \/ BackoffOver(i) \/ Abandon(i)
    \/ Refused(i) \/ WakeFromRefresh(i) \/ WakeFromNotification(i)

RoundStep(e, n) ==
    \/ BeginRefresh(e, n) \/ EndRefresh(e, n) \/ SettleRefresh(e, n)
    \/ BeginNotification(e, n) \/ EndNotification(e, n)

RoundSteps == \E e \in Epochs : \E n \in 1..Len(rounds[e]) : RoundStep(e, n)

Next ==
    \/ ChangeSession
    \/ \E i \in Requests : Start(i)
    \/ \E i \in Requests : Cancel(i)
    \/ \E i \in Requests : RequestStep(i)
    \/ RoundSteps

Spec == Init /\ [][Next]_vars

\* Microtasks run, the network answers or times out, and the project's
\* callbacks return.  Starting, canceling and changing the session are
\* nobody's duty.
Fairness ==
    /\ \A i \in Requests : WF_vars(RequestStep(i))
    /\ WF_vars(RoundSteps)

FairSpec == Spec /\ Fairness

-----------------------------------------------------------------------------
(* Properties.                                                             *)

Rounds(e) == 1..Len(rounds[e])
Recovered(e, n) == rounds[e][n].result = "refreshed"

\* The moments at which a request or a callback acts for a session.
Acts(i) ==
    \/ req'[i].sends > req[i].sends
    \/ req[i].pc # "settled" /\ req'[i].outcome = "success"

Calls(e, n) ==
    \/ rounds[e][n].refresh # "calling" /\ rounds'[e][n].refresh = "calling"
    \/ rounds[e][n].notification # "calling" /\ rounds'[e][n].notification = "calling"

\* Nothing leaves for, or is delivered from, a session that is over: at the
\* moment a request is sent, a success is delivered, or refreshSession or
\* onUnauthorized is called, the epoch is the one it was captured in.
SessionBoundary ==
    [][/\ \A i \in Requests : Acts(i) => req[i].epoch = epoch
       /\ \A e \in Epochs : \A n \in Rounds(e) : Calls(e, n) => e = epoch]_vars

\* Within a session refreshes never overlap, also when the refresh of an
\* older session settles in between.
SingleRefresh ==
    \A e \in Epochs : \A m, n \in Rounds(e) :
        /\ rounds[e][m].refresh \in Refreshing
        /\ rounds[e][n].refresh \in Refreshing
        => m = n

StartsRefresh(i, e, n) ==
    /\ req[i].pc # "refreshing" /\ req'[i].pc = "refreshing"
    /\ req'[i].epoch = e /\ req'[i].round = n /\ rounds[e][n].refresh = "none"

\* A late refusal of old credentials does not refresh again: whoever starts a
\* round was refused with credentials no older than those that any earlier
\* round of the session has saved.
OnlyFreshRefusalsRefresh ==
    [][\A i \in Requests : \A e \in Epochs : \A n \in Rounds(e) :
          StartsRefresh(i, e, n) =>
            \A m \in 1..(n - 1) : Recovered(e, m) => req[i].header >= m]_vars

\* A replay carries credentials that its own round or a later one has saved.
ReplayIsFresh ==
    \A i \in Requests :
        (req[i].pc = "sending" /\ req[i].recovered)
        => Recovered(req[i].epoch, req[i].round) /\ req[i].header >= req[i].round

\* onUnauthorized is called for a round only when its refresh has settled:
\* either it said EXPIRED, or a request was refused again after it.  A refresh
\* that failed, or that the end of the session cut off, logs nobody out.
LogoutJustified ==
    \A e \in Epochs : \A n \in Rounds(e) :
        rounds[e][n].notification # "none"
        => /\ rounds[e][n].refresh = "settled"
           /\ \/ rounds[e][n].result = "expired"
              \/ /\ rounds[e][n].result = "refreshed"
                 /\ \E i \in Requests : /\ req[i].epoch = e /\ req[i].round = n
                                        /\ req[i].recovered /\ req[i].sends > 1

\* The outcomes that come out of shared promises fit the request that gets
\* them: "session-changed" only to a request whose session is over, and
\* "unauthorized" only after its round was notified.
OutcomesFit ==
    \A i \in Requests :
        /\ req[i].outcome = "session-changed" => req[i].epoch < epoch
        /\ req[i].outcome = "unauthorized" => RoundOf(i).notification = "done"

\* One transmission, one per retry, and one replay: recovery and retry
\* together never multiply.
SendsBounded ==
    \A i \in Requests :
        req[i].sends <= 1 + req[i].retries + (IF req[i].recovered THEN 1 ELSE 0)

\* Every request that was started settles: none waits for a refresh or a
\* notification that never comes, whoever started it and was canceled since.
EveryRequestSettles ==
    \A i \in Requests : req[i].pc # "idle" ~> req[i].pc = "settled"

=============================================================================
