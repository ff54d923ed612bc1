--------------------------- MODULE StorageService ---------------------------
(***************************************************************************)
(* services/storage: the life of the process.  Three kinds of goroutine    *)
(* share the atomic flag "ready": the health loop writes the outcome of    *)
(* each round of checks, the main goroutine lowers it when it stops, and   *)
(* the requests read it.                                                   *)
(*                                                                         *)
(* The loop is not told to stop until server.Shutdown has returned.        *)
(*                                                                         *)
(* No name here is one of StorageCalls, the other half of the service, so  *)
(* that one module can extend both.                                        *)
(***************************************************************************)
CONSTANTS Namespaces, Arrivals

ASSUME ServiceConstants == Namespaces # {}

VARIABLES
    up,        \* the namespaces whose check would succeed now
    loop,      \* Health.Run: between rounds, in a round, or returned
    results,   \* the outcomes of the current or of the last round
    ready,     \* Health.ready
    main,      \* where run is
    canceled,  \* runtimeCtx
    overdue,   \* shutdownCtx
    failed,    \* run has an error to return
    arrival    \* the requests to protected routes

serviceVars == <<up, loop, results, ready, main, canceled, overdue, failed, arrival>>

Pending == {n \in Namespaces : results[n] = "pending"}
AllPassed == \A n \in Namespaces : results[n] = "ok"
NewRound == [n \in Namespaces |-> "pending"]
Active == {r \in Arrivals : arrival[r] \in {"accepted", "authenticated", "admitted"}}
Running == main # "exited"

ServiceTypeOK ==
    /\ up \subseteq Namespaces
    /\ loop \in {"checking", "idle", "stopped"}
    /\ results \in [Namespaces -> {"pending", "ok", "failed"}]
    /\ loop # "checking" => Pending = {}
    /\ ready \in BOOLEAN
    /\ main \in {"serving", "notified", "lowered", "draining", "joining", "exited"}
    /\ canceled \in BOOLEAN /\ overdue \in BOOLEAN /\ failed \in BOOLEAN
    /\ arrival \in [Arrivals -> {"absent", "accepted", "authenticated", "admitted",
                             "refused", "answered"}]

\* Run checks at once; the first round has begun before the first request.
ServiceInit ==
    /\ up \in SUBSET Namespaces
    /\ loop = "checking"
    /\ results = NewRound
    /\ ready = FALSE
    /\ main = "serving"
    /\ canceled = FALSE
    /\ overdue = FALSE
    /\ failed = FALSE
    /\ arrival = [r \in Arrivals |-> "absent"]

-----------------------------------------------------------------------------
(* The health loop *)

\* Store.Check honours its context and its timeout; a namespace that answers too
\* late is one that is not up.
CheckReturns(n) ==
    /\ Running
    /\ loop = "checking"
    /\ results[n] = "pending"
    /\ \E outcome \in {"ok", "failed"} :
         /\ outcome = "ok" => n \in up
         /\ outcome = "failed" => n \notin up \/ canceled
         /\ results' = [results EXCEPT ![n] = outcome]
    /\ UNCHANGED <<up, loop, ready, main, canceled, overdue, failed, arrival>>

\* Fault: a round that fails leaves the flag as it was.
StoreOutcome_OnlyRaises ==
    /\ Running
    /\ loop = "checking"
    /\ Pending = {}
    /\ loop' = "idle"
    /\ ready' = (ready \/ AllPassed)
    /\ UNCHANGED <<up, results, main, canceled, overdue, failed, arrival>>

\* CheckAll after wait.Wait().
StoreOutcome ==
    /\ Running
    /\ loop = "checking"
    /\ Pending = {}
    /\ loop' = "idle"
    /\ ready' = AllPassed
    /\ UNCHANGED <<up, results, main, canceled, overdue, failed, arrival>>

\* The ticker fires; when the context is done as well, select may take either.
StartRound ==
    /\ Running
    /\ loop = "idle"
    /\ loop' = "checking"
    /\ results' = NewRound
    /\ UNCHANGED <<up, ready, main, canceled, overdue, failed, arrival>>

StopLoop ==
    /\ Running
    /\ loop = "idle"
    /\ canceled
    /\ loop' = "stopped"
    /\ ready' = FALSE
    /\ UNCHANGED <<up, results, main, canceled, overdue, failed, arrival>>

-----------------------------------------------------------------------------
(* Requests: authenticate, requireReady, the handler *)

\* Until Shutdown closes the listener.
Accept(r) ==
    /\ main \in {"serving", "notified", "lowered"}
    /\ arrival[r] = "absent"
    /\ arrival' = [arrival EXCEPT ![r] = "accepted"]
    /\ UNCHANGED <<up, loop, results, ready, main, canceled, overdue, failed>>

AuthenticateArrival(r) ==
    /\ Running
    /\ arrival[r] = "accepted"
    /\ \E next \in {"authenticated", "refused"} : arrival' = [arrival EXCEPT ![r] = next]
    /\ UNCHANGED <<up, loop, results, ready, main, canceled, overdue, failed>>

RequireReady(r) ==
    /\ Running
    /\ arrival[r] = "authenticated"
    /\ arrival' = [arrival EXCEPT ![r] = IF ready THEN "admitted" ELSE "refused"]
    /\ UNCHANGED <<up, loop, results, ready, main, canceled, overdue, failed>>

\* The handler calls its store and answers.
AnswerArrival(r) ==
    /\ Running
    /\ arrival[r] = "admitted"
    /\ arrival' = [arrival EXCEPT ![r] = "answered"]
    /\ UNCHANGED <<up, loop, results, ready, main, canceled, overdue, failed>>

-----------------------------------------------------------------------------
(* run *)

\* SIGINT or SIGTERM, or the listener failed.
Notified ==
    /\ main = "serving"
    /\ main' = "notified"
    /\ failed' \in BOOLEAN
    /\ UNCHANGED <<up, loop, results, ready, canceled, overdue, arrival>>

LowerReady ==
    /\ main = "notified"
    /\ main' = "lowered"
    /\ ready' = FALSE
    /\ UNCHANGED <<up, loop, results, canceled, overdue, failed, arrival>>

CloseListener ==
    /\ main = "lowered"
    /\ main' = "draining"
    /\ UNCHANGED <<up, loop, results, ready, canceled, overdue, failed, arrival>>

\* The timeout of shutdownCtx.
PassDeadline ==
    /\ main \in {"lowered", "draining", "joining"}
    /\ ~overdue
    /\ overdue' = TRUE
    /\ UNCHANGED <<up, loop, results, ready, main, canceled, failed, arrival>>

\* Fault: the error of Shutdown is dropped.
ShutdownReturns_NoError ==
    /\ main = "draining"
    /\ Active = {} \/ overdue
    /\ main' = "joining"
    /\ canceled' = TRUE
    /\ UNCHANGED <<up, loop, results, ready, overdue, failed, arrival>>

\* Shutdown waits for the requests or for its context; then cancelRuntime.
ShutdownReturns ==
    /\ main = "draining"
    /\ \/ Active = {} /\ UNCHANGED failed
       \/ overdue /\ failed' = TRUE
    /\ main' = "joining"
    /\ canceled' = TRUE
    /\ UNCHANGED <<up, loop, results, ready, overdue, arrival>>

\* Fault: run waits for the loop without a deadline.
Exit_NoDeadline ==
    /\ main = "joining"
    /\ loop = "stopped" /\ UNCHANGED failed
    /\ main' = "exited"
    /\ UNCHANGED <<up, loop, results, ready, canceled, overdue, arrival>>

\* The final select; either case may be taken when both are ready.
Exit ==
    /\ main = "joining"
    /\ \/ loop = "stopped" /\ UNCHANGED failed
       \/ overdue /\ failed' = TRUE
    /\ main' = "exited"
    /\ UNCHANGED <<up, loop, results, ready, canceled, overdue, arrival>>

\* S3 comes and goes.
ChangeStores ==
    /\ Running
    /\ up' \in SUBSET Namespaces
    /\ UNCHANGED <<loop, results, ready, main, canceled, overdue, failed, arrival>>

ServiceNext ==
    \/ \E n \in Namespaces : CheckReturns(n)
    \/ StoreOutcome \/ StartRound \/ StopLoop
    \/ \E r \in Arrivals :
         Accept(r) \/ AuthenticateArrival(r) \/ RequireReady(r) \/ AnswerArrival(r)
    \/ Notified \/ LowerReady \/ CloseListener \/ PassDeadline
    \/ ShutdownReturns \/ Exit
    \/ ChangeStores

ServiceSpec == ServiceInit /\ [][ServiceNext]_serviceVars

\* Checks return within their timeout, the ticker ticks, the main goroutine and
\* the timer of shutdownCtx make progress.  Nothing is asked of handlers and
\* clients, and when the ticker and the context are ready together, select may
\* prefer the ticker for ever.
ServiceFairness ==
    /\ \A n \in Namespaces : WF_serviceVars(CheckReturns(n))
    /\ WF_serviceVars(StoreOutcome) /\ WF_serviceVars(StartRound) /\ WF_serviceVars(StopLoop)
    /\ WF_serviceVars(LowerReady) /\ WF_serviceVars(CloseListener) /\ WF_serviceVars(PassDeadline)
    /\ WF_serviceVars(ShutdownReturns) /\ WF_serviceVars(Exit)

FairServiceSpec == ServiceSpec /\ ServiceFairness

-----------------------------------------------------------------------------
(* Properties *)

\* run returns nil only when its listener did not fail, every request it had
\* accepted has been answered, and the health loop is over with the flag down.
CleanExit ==
    (main = "exited" /\ ~failed) => Active = {} /\ loop = "stopped" /\ ~ready

\* Readiness follows S3: when every namespace stays reachable a serving process
\* is ready for good, and when one namespace stays away it is not ready for
\* good, whatever the others do.
FollowsStores ==
    /\ (<>[](up = Namespaces) /\ [](main = "serving")) => <>[]ready
    /\ \A n \in Namespaces : (<>[](n \notin up) /\ []Running) => <>[]~ready

\* Once told to stop, the process exits: neither a handler that hangs nor the
\* health loop can keep it.
ExitsOnceStopped == (main # "serving") ~> (main = "exited")

=============================================================================
