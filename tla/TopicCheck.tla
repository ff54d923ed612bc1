------------------------------ MODULE TopicCheck ------------------------------
(***************************************************************************)
(* CheckTopic of the Kafka package: the caller's goroutine, one probe per  *)
(* broker and one watcher per connection, which closes it as soon as the   *)
(* probes are no longer wanted.  A probe and its watcher share a           *)
(* sync.Once; the results go through a channel with room for all of them.  *)
(***************************************************************************)
EXTENDS Integers, Sequences, FiniteSets

CONSTANTS
    Brokers,
    Blank,      \* an entry of the configuration without an address
    Lists       \* the configured broker lists

ASSUME TopicConstants == Blank \notin Brokers /\ Lists \subseteq Seq(Brokers \cup {Blank})

VARIABLES
    unique,     \* the brokers that are probed
    ended,      \* the caller's context
    canceled,   \* probeCtx, which also ends with the caller's
    probe, watcher,
    read,       \* what ReadPartitions has returned
    stopped,    \* the closed stopClose channels
    once,       \* who is in closeOnce, or "new" or "done"
    conn,       \* the connection
    results,    \* the channel
    failures,   \* the brokers whose failure was received
    outcome     \* what CheckTopic returns

callVars == <<unique, ended, canceled, failures, outcome>>
vars == <<callVars, probe, watcher, read, stopped, once, conn, results>>

Configured(list) == {list[i] : i \in DOMAIN list} \ {Blank}

Init ==
    /\ \E list \in Lists : unique = Configured(list)
    /\ ended \in BOOLEAN /\ canceled = FALSE
    /\ probe = [b \in Brokers |-> IF b \in unique THEN "dialing" ELSE "none"]
    /\ watcher = [b \in Brokers |-> "none"]
    /\ read = [b \in Brokers |-> "none"]
    /\ stopped = {}
    /\ once = [b \in Brokers |-> "new"]
    /\ conn = [b \in Brokers |-> [open |-> FALSE, closes |-> 0, err |-> FALSE]]
    /\ results = {} /\ failures = {}
    /\ outcome = IF unique = {} THEN "no_brokers" ELSE "none"

Done == ended \/ canceled

-----------------------------------------------------------------------------
(* probeTopic and its watcher *)

Sends(b, result) ==
    /\ probe' = [probe EXCEPT ![b] = "sent"]
    /\ results' = results \cup {[broker |-> b, ok |-> result]}

\* DialContext fails, as it does when its context ends, or connects.
Dial(b) ==
    /\ probe[b] = "dialing"
    /\ \/ Sends(b, FALSE) /\ UNCHANGED <<watcher, conn>>
       \/ /\ probe' = [probe EXCEPT ![b] = "deadline"]
          /\ conn' = [conn EXCEPT ![b].open = TRUE]
          /\ UNCHANGED <<watcher, results>>
    /\ UNCHANGED <<callVars, read, stopped, once>>

\* SetDeadline: when it fails, the connection is closed before there is a watcher.
SetDeadline(b) ==
    /\ probe[b] = "deadline"
    /\ \/ /\ conn' = [conn EXCEPT ![b].open = FALSE, ![b].closes = @ + 1]
          /\ once' = [once EXCEPT ![b] = "done"]
          /\ Sends(b, FALSE)
          /\ UNCHANGED watcher
       \/ /\ probe' = [probe EXCEPT ![b] = "reading"]
          /\ watcher' = [watcher EXCEPT ![b] = "waiting"]
          /\ UNCHANGED <<conn, once, results>>
    /\ UNCHANGED <<callVars, read, stopped>>

\* ReadPartitions returns, with an error at the latest when the connection is closed.
Read(b) ==
    /\ probe[b] = "reading"
    /\ \E result \in {"partitions", "no_partitions", "error"} :
         read' = [read EXCEPT ![b] = result]
    /\ stopped' = stopped \cup {b}
    /\ probe' = [probe EXCEPT ![b] = "closing"]
    /\ UNCHANGED <<callVars, watcher, once, conn, results>>

\* The watcher's select; it may choose when both channels are closed.
Wake(b) ==
    /\ watcher[b] = "waiting"
    /\ \/ Done /\ watcher' = [watcher EXCEPT ![b] = "closing"]
       \/ b \in stopped /\ watcher' = [watcher EXCEPT ![b] = "over"]
    /\ UNCHANGED <<callVars, probe, read, stopped, once, conn, results>>

\* Fault: a flag in place of sync.Once, set when the connection is closed.
Enter_Flag(b, who) ==
    /\ once[b] # "done"
    /\ once' = [once EXCEPT ![b] = who]

\* closeOnce.Do begins; whoever comes second waits.
Enter(b, who) ==
    /\ once[b] = "new"
    /\ once' = [once EXCEPT ![b] = who]

EnterClose(b) ==
    /\ \/ /\ probe[b] = "closing" /\ Enter(b, "probe")
          /\ probe' = [probe EXCEPT ![b] = "in_close"] /\ UNCHANGED watcher
       \/ /\ watcher[b] = "closing" /\ Enter(b, "watcher")
          /\ watcher' = [watcher EXCEPT ![b] = "in_close"] /\ UNCHANGED probe
    /\ UNCHANGED <<callVars, read, stopped, conn, results>>

\* conn.Close succeeds or fails, and Do returns.
Close(b) ==
    /\ \/ /\ probe[b] = "in_close" /\ probe' = [probe EXCEPT ![b] = "closing"]
          /\ UNCHANGED watcher
       \/ /\ watcher[b] = "in_close" /\ watcher' = [watcher EXCEPT ![b] = "closing"]
          /\ UNCHANGED probe
    /\ \E err \in BOOLEAN : conn' = [conn EXCEPT ![b] = [open |-> FALSE, closes |-> @.closes + 1, err |-> err]]
    /\ once' = [once EXCEPT ![b] = "done"]
    /\ UNCHANGED <<callVars, read, stopped, results>>

\* Fault: what the probe has read decides alone whether it failed.
Succeeds_Empty(b) == read[b] # "error"

Succeeds(b) == read[b] = "partitions" /\ ~conn[b].err

\* closeConn returns to the probe or to the watcher.
Leave(b) ==
    /\ once[b] = "done"
    /\ \/ probe[b] = "closing" /\ Sends(b, Succeeds(b)) /\ UNCHANGED watcher
       \/ /\ watcher[b] = "closing"
          /\ watcher' = [watcher EXCEPT ![b] = "over"]
          /\ UNCHANGED <<probe, results>>
    /\ UNCHANGED <<callVars, read, stopped, once, conn>>

-----------------------------------------------------------------------------
(* checkTopic *)

\* Fault: the probes are not canceled.
Returns_Uncanceled(result) == outcome' = result /\ UNCHANGED canceled

\* The deferred cancel runs.
Returns(result) == outcome' = result /\ canceled' = TRUE

CallerEnds ==
    /\ ~ended
    /\ ended' = TRUE
    /\ UNCHANGED <<unique, canceled, failures, outcome, probe, watcher, read, stopped, once, conn, results>>

\* The select, which may take a result although the context has ended.
Collect ==
    /\ outcome = "none"
    /\ \/ /\ ended
          /\ Returns("ended")
          /\ UNCHANGED <<results, failures>>
       \/ \E result \in results :
            /\ results' = results \ {result}
            /\ IF result.ok
               THEN Returns(IF ended THEN "ended" ELSE "ok") /\ UNCHANGED failures
               ELSE /\ failures' = failures \cup {result.broker}
                    /\ UNCHANGED <<outcome, canceled>>
    /\ UNCHANGED <<unique, ended, probe, watcher, read, stopped, once, conn>>

\* Every probe has failed.
Conclude ==
    /\ outcome = "none" /\ failures = unique
    /\ Returns(IF ended THEN "ended" ELSE "failed")
    /\ UNCHANGED <<unique, ended, failures, probe, watcher, read, stopped, once, conn, results>>

Next ==
    \/ \E b \in Brokers :
         Dial(b) \/ SetDeadline(b) \/ Read(b) \/ Wake(b) \/ EnterClose(b) \/ Close(b) \/ Leave(b)
    \/ CallerEnds \/ Collect \/ Conclude

Spec == Init /\ [][Next]_vars

\* Go runs every goroutine; dialing ends with its context and reading with its
\* connection, but a broker that stays silent may delay either for ever.
Fairness ==
    /\ WF_vars(Collect) /\ WF_vars(Conclude)
    /\ \A b \in Brokers :
         /\ WF_vars(Done /\ Dial(b)) /\ WF_vars(~conn[b].open /\ Read(b))
         /\ WF_vars(SetDeadline(b)) /\ WF_vars(Wake(b))
         /\ WF_vars(EnterClose(b)) /\ WF_vars(Close(b)) /\ WF_vars(Leave(b))

FairSpec == Spec /\ Fairness

-----------------------------------------------------------------------------
(* Properties *)

\* Every variable has its type.
TypeOK ==
    /\ unique \subseteq Brokers /\ failures \subseteq unique
    /\ ended \in BOOLEAN /\ canceled \in BOOLEAN
    /\ probe \in [Brokers -> {"none", "dialing", "deadline", "reading", "closing", "in_close", "sent"}]
    /\ watcher \in [Brokers -> {"none", "waiting", "closing", "in_close", "over"}]
    /\ read \in [Brokers -> {"none", "partitions", "no_partitions", "error"}]
    /\ stopped \subseteq unique
    /\ once \in [Brokers -> {"new", "probe", "watcher", "done"}]
    /\ conn \in [Brokers -> [open : BOOLEAN, closes : Nat, err : BOOLEAN]]
    /\ results \subseteq [broker : unique, ok : BOOLEAN]
    /\ outcome \in {"none", "ok", "failed", "ended", "no_brokers"}

\* A connection is closed once, whether the probe ends or the context first, and
\* before the result of its probe is known.
ClosedOnce ==
    \A b \in Brokers : conn[b].closes <= 1 /\ (probe[b] = "sent" => ~conn[b].open)

\* The check succeeds only if a broker has the topic.  It fails only if each of
\* the configured brokers failed by itself, and not because nobody waited.  What
\* the caller's context has ended is told as that.
OutcomeFits ==
    [][LET Has(b) == probe[b] = "sent" /\ read[b] = "partitions" /\ ~conn[b].err
       IN  (outcome = "none" /\ outcome' # "none") =>
             /\ (outcome' = "ended") = ended
             /\ outcome' = "ok" => \E b \in unique : Has(b)
             /\ outcome' = "failed" => \A b \in unique : probe[b] = "sent" /\ ~Has(b)]_vars

\* The check ends when the caller no longer waits, and then every goroutine ends
\* and every connection is closed, though nobody receives the results any more.
AllEnds ==
    /\ ended ~> outcome # "none"
    /\ outcome # "none" ~> \A b \in Brokers :
         probe[b] \in {"none", "sent"} /\ watcher[b] \in {"none", "over"} /\ ~conn[b].open
=============================================================================
