--------------------------- MODULE TopicCheckProofs ---------------------------
(***************************************************************************)
(* What TopicCheck guarantees for every set of brokers and every list of   *)
(* them: connections are closed once, and the outcome is what the probes   *)
(* found.                                                                  *)
(*                                                                         *)
(* Neither is inductive.  ClosedOnce needs that closeOnce says who closes  *)
(* and whether the connection has been closed (Guarded).  OutcomeFits      *)
(* needs that what the channel and the list of failures hold of a probe    *)
(* is, and stays, what the probe found (Reported).                         *)
(***************************************************************************)
EXTENDS TopicCheck, TLAPS

\* How far a probe has come, with what it has and has not got by then.
Placed(b) ==
    /\ probe[b] # "none" => b \in unique
    /\ probe[b] \in {"none", "dialing", "deadline"} =>
         once[b] = "new" /\ watcher[b] = "none" /\ read[b] = "none"
    /\ probe[b] \in {"none", "dialing"} => ~conn[b].open
    /\ probe[b] = "reading" => read[b] = "none"
    /\ probe[b] = "sent" => ~conn[b].open
    /\ probe[b] = "sent" /\ once[b] # "done" => watcher[b] = "none"

\* closeOnce: it is done exactly when the connection was closed, which happens once;
\* and before that, the one who is in it is closing.
Guarded(b) ==
    /\ conn[b].closes = IF once[b] = "done" THEN 1 ELSE 0
    /\ once[b] = "done" => ~conn[b].open
    /\ once[b] = "probe" <=> probe[b] = "in_close"
    /\ once[b] = "watcher" <=> watcher[b] = "in_close"

\* What was reported of a probe is what it found.
Reported ==
    /\ \A result \in results :
         /\ probe[result.broker] = "sent"
         /\ result.ok <=> Succeeds(result.broker)
    /\ \A b \in failures : probe[b] = "sent" /\ ~Succeeds(b)

IInv == TypeOK /\ (\A b \in Brokers : Placed(b) /\ Guarded(b)) /\ Reported

-----------------------------------------------------------------------------
(* The types *)

Connection == [open : BOOLEAN, closes : Nat, err : BOOLEAN]

LEMMA ConnectionChanges ==
    ASSUME NEW c \in Connection
    PROVE  /\ c.closes + 1 \in Nat
           /\ [c EXCEPT !.open = TRUE] \in Connection
           /\ [c EXCEPT !.open = FALSE, !.closes = @ + 1] \in Connection
           /\ \A err \in BOOLEAN : [open |-> FALSE, closes |-> c.closes + 1, err |-> err] \in Connection
<1>1. c.closes + 1 \in Nat
  BY DEF Connection
<1>2. [c EXCEPT !.open = TRUE] \in Connection
  BY Zenon DEF Connection
<1>3. [c EXCEPT !.open = FALSE, !.closes = @ + 1] \in Connection
  BY <1>1, Zenon DEF Connection
<1>4. \A err \in BOOLEAN : [open |-> FALSE, closes |-> c.closes + 1, err |-> err] \in Connection
  BY <1>1, Zenon DEF Connection
<1>5. QED
  BY <1>1, <1>2, <1>3, <1>4

LEMMA ConnectionsChange ==
    ASSUME NEW c \in [Brokers -> Connection], NEW b \in Brokers
    PROVE  /\ [c EXCEPT ![b].open = TRUE] \in [Brokers -> Connection]
           /\ [c EXCEPT ![b].open = FALSE, ![b].closes = @ + 1] \in [Brokers -> Connection]
<1>1. [c EXCEPT ![b].open = TRUE] = [c EXCEPT ![b] = [c[b] EXCEPT !.open = TRUE]]
  OBVIOUS
<1>2. [c EXCEPT ![b].open = FALSE, ![b].closes = @ + 1]
        = [c EXCEPT ![b] = [c[b] EXCEPT !.open = FALSE, !.closes = @ + 1]]
  OBVIOUS
<1>3. QED
  BY <1>1, <1>2, ConnectionChanges

LEMMA TypeInit == Init => TypeOK
<1> SUFFICES ASSUME Init PROVE TypeOK
  OBVIOUS
<1>1. conn \in [Brokers -> Connection]
  <2>1. [open |-> FALSE, closes |-> 0, err |-> FALSE] \in Connection
    BY Zenon DEF Connection
  <2>2. QED
    BY <2>1 DEF Init
<1>2. unique \subseteq Brokers
  BY TopicConstants DEF Init, Configured
<1>3. QED
  BY <1>1, <1>2 DEF Init, TypeOK, Connection

LEMMA TypeProbe ==
    ASSUME TypeOK, NEW b \in Brokers, Placed(b),
           Dial(b) \/ SetDeadline(b) \/ Read(b) \/ Wake(b) \/ EnterClose(b) \/ Close(b) \/ Leave(b)
    PROVE  TypeOK'
<1> USE DEF TypeOK, Placed, callVars
<1>0. /\ conn \in [Brokers -> Connection]
      /\ [conn EXCEPT ![b].open = TRUE] \in [Brokers -> Connection]
      /\ [conn EXCEPT ![b].open = FALSE, ![b].closes = @ + 1] \in [Brokers -> Connection]
  BY ConnectionsChange DEF Connection
<1>1. CASE Dial(b)
  <2>1. conn' \in [Brokers -> Connection]
    BY <1>0, <1>1 DEF Dial
  <2>2. results' \subseteq [broker : unique, ok : BOOLEAN]
    <3>1. [broker |-> b, ok |-> FALSE] \in [broker : unique, ok : BOOLEAN]
      <4>1. b \in unique
        BY <1>1 DEF Dial
      <4>2. QED
        BY <4>1
    <3>2. results' \in {results, results \cup {[broker |-> b, ok |-> FALSE]}}
      BY <1>1 DEF Dial, Sends
    <3>3. QED
      BY <3>1, <3>2
  <2>3. QED
    BY <1>1, <2>1, <2>2 DEF Dial, Sends, Connection
<1>2. CASE SetDeadline(b)
  <2>1. conn' \in [Brokers -> Connection]
    BY <1>0, <1>2 DEF SetDeadline
  <2>2. results' \subseteq [broker : unique, ok : BOOLEAN]
    BY <1>2 DEF SetDeadline, Sends
  <2>3. QED
    BY <1>2, <2>1, <2>2 DEF SetDeadline, Sends, Connection
<1>3. CASE Read(b)
  BY <1>3 DEF Read
<1>4. CASE Wake(b)
  BY <1>4 DEF Wake
<1>5. CASE EnterClose(b)
  BY <1>5 DEF EnterClose, Enter
<1>6. CASE Close(b)
  BY <1>6, SMTT(60) DEF Close
<1>7. CASE Leave(b)
  <2>1. Succeeds(b) \in BOOLEAN
    BY DEF Succeeds
  <2>2. QED
    BY <1>7, <2>1 DEF Leave, Sends
<1>8. QED
  BY <1>1, <1>2, <1>3, <1>4, <1>5, <1>6, <1>7

LEMMA TypeCall ==
    ASSUME TypeOK, CallerEnds \/ Collect \/ Conclude
    PROVE  TypeOK'
<1> USE DEF TypeOK
<1>1. CASE CallerEnds
  BY <1>1 DEF CallerEnds
<1>2. CASE Collect
  <2>1. results' \subseteq results /\ failures' \subseteq unique /\ unique' = unique
    BY <1>2 DEF Collect
  <2>2. ended' \in BOOLEAN /\ canceled' \in BOOLEAN
    BY <1>2 DEF Collect, Returns
  <2>3. outcome' \in {"none", "ok", "failed", "ended", "no_brokers"}
    BY <1>2 DEF Collect, Returns
  <2>4. QED
    BY <1>2, <2>1, <2>2, <2>3 DEF Collect
<1>3. CASE Conclude
  BY <1>3 DEF Conclude, Returns
<1>4. QED
  BY <1>1, <1>2, <1>3

-----------------------------------------------------------------------------
(* The connections *)

\* Nothing that belongs to another broker changes.
Apart(b) ==
    /\ unique' = unique
    /\ probe'[b] = probe[b] /\ watcher'[b] = watcher[b] /\ read'[b] = read[b]
    /\ once'[b] = once[b] /\ conn'[b] = conn[b]

LEMMA ApartKeeps ==
    ASSUME NEW b \in Brokers, Placed(b), Guarded(b), Apart(b)
    PROVE  Placed(b)' /\ Guarded(b)' /\ (Succeeds(b)' <=> Succeeds(b))
BY DEF Placed, Guarded, Apart, Succeeds

LEMMA ProbesApart ==
    ASSUME TypeOK, NEW b \in Brokers, NEW other \in Brokers, other # b,
           Dial(b) \/ SetDeadline(b) \/ Read(b) \/ Wake(b) \/ EnterClose(b) \/ Close(b) \/ Leave(b)
    PROVE  Apart(other)
<1> USE DEF TypeOK, callVars, Apart
<1>1. CASE Dial(b)
  BY <1>1 DEF Dial, Sends
<1>2. CASE SetDeadline(b)
  BY <1>2 DEF SetDeadline, Sends
<1>3. CASE Read(b)
  BY <1>3 DEF Read
<1>4. CASE Wake(b)
  BY <1>4 DEF Wake
<1>5. CASE EnterClose(b)
  BY <1>5 DEF EnterClose, Enter
<1>6. CASE Close(b)
  BY <1>6 DEF Close
<1>7. CASE Leave(b)
  BY <1>7 DEF Leave, Sends
<1>8. QED
  BY <1>1, <1>2, <1>3, <1>4, <1>5, <1>6, <1>7

LEMMA ProbeKeeps ==
    ASSUME TypeOK, NEW b \in Brokers, Placed(b), Guarded(b),
           Dial(b) \/ SetDeadline(b) \/ Read(b) \/ Wake(b) \/ EnterClose(b) \/ Close(b) \/ Leave(b)
    PROVE  Placed(b)' /\ Guarded(b)'
<1> USE DEF TypeOK, Placed, Guarded, callVars
<1>1. CASE Dial(b)
  BY <1>1 DEF Dial, Sends
<1>2. CASE SetDeadline(b)
  BY <1>2 DEF SetDeadline, Sends
<1>3. CASE Read(b)
  BY <1>3 DEF Read
<1>4. CASE Wake(b)
  BY <1>4 DEF Wake
<1>5. CASE EnterClose(b)
  BY <1>5 DEF EnterClose, Enter
<1>6. CASE Close(b)
  BY <1>6 DEF Close
<1>7. CASE Leave(b)
  BY <1>7 DEF Leave, Sends
<1>8. QED
  BY <1>1, <1>2, <1>3, <1>4, <1>5, <1>6, <1>7

\* What a probe has reported does not change any more.
LEMMA ReportStands ==
    ASSUME TypeOK, NEW b \in Brokers, Placed(b), Guarded(b), probe[b] = "sent",
           Dial(b) \/ SetDeadline(b) \/ Read(b) \/ Wake(b) \/ EnterClose(b) \/ Close(b) \/ Leave(b)
    PROVE  probe'[b] = "sent" /\ (Succeeds(b)' <=> Succeeds(b)) /\ results' = results
<1> USE DEF TypeOK, Placed, Guarded, Succeeds
<1>1. CASE Wake(b)
  BY <1>1 DEF Wake
<1>2. CASE EnterClose(b)
  BY <1>2 DEF EnterClose, Enter
<1>3. CASE Close(b)
  BY <1>3 DEF Close
<1>4. CASE Leave(b)
  BY <1>4 DEF Leave
<1>5. QED
  BY <1>1, <1>2, <1>3, <1>4 DEF Dial, SetDeadline, Read

\* What a probe reports is what it found.
LEMMA ReportIsTrue ==
    ASSUME TypeOK, NEW b \in Brokers, Placed(b), Guarded(b), probe[b] # "sent",
           Dial(b) \/ SetDeadline(b) \/ Read(b) \/ Wake(b) \/ EnterClose(b) \/ Close(b) \/ Leave(b)
    PROVE  \/ results' = results
           \/ /\ probe'[b] = "sent"
              /\ \E ok \in BOOLEAN : /\ results' = results \cup {[broker |-> b, ok |-> ok]}
                                     /\ ok <=> Succeeds(b)'
<1> USE DEF TypeOK, Placed
<1>1. CASE Dial(b)
  BY <1>1 DEF Dial, Sends, Succeeds
<1>2. CASE SetDeadline(b)
  BY <1>2 DEF SetDeadline, Sends, Succeeds
<1>3. CASE Leave(b)
  <2>1. Succeeds(b) \in BOOLEAN /\ (Succeeds(b)' <=> Succeeds(b))
    BY <1>3 DEF Succeeds, Leave
  <2>2. QED
    BY <1>3, <2>1 DEF Leave, Sends
<1>4. QED
  BY <1>1, <1>2, <1>3 DEF Read, Wake, EnterClose, Close

-----------------------------------------------------------------------------
(* The invariant *)

LEMMA Initially == Init => IInv
<1> SUFFICES ASSUME Init PROVE IInv
  OBVIOUS
<1>1. TypeOK
  BY TypeInit
<1>2. \A b \in Brokers : Placed(b) /\ Guarded(b)
  BY DEF Init, Placed, Guarded
<1>3. Reported
  BY DEF Init, Reported
<1>4. QED
  BY <1>1, <1>2, <1>3 DEF IInv

LEMMA ProbeStep ==
    ASSUME IInv, NEW b \in Brokers,
           Dial(b) \/ SetDeadline(b) \/ Read(b) \/ Wake(b) \/ EnterClose(b) \/ Close(b) \/ Leave(b)
    PROVE  IInv'
<1>1. TypeOK /\ Reported /\ \A j \in Brokers : Placed(j) /\ Guarded(j)
  BY DEF IInv
<1>2. TypeOK'
  BY <1>1, TypeProbe
<1>3. \A j \in Brokers : j # b => Apart(j)
  BY <1>1, ProbesApart
<1>4. \A j \in Brokers : Placed(j)' /\ Guarded(j)'
  BY <1>1, <1>3, ProbeKeeps, ApartKeeps
<1>5. \A j \in Brokers : probe[j] = "sent" => probe'[j] = "sent" /\ (Succeeds(j)' <=> Succeeds(j))
  BY <1>1, <1>3, ApartKeeps, ReportStands DEF Apart
<1>6. \A j \in failures' : probe'[j] = "sent" /\ ~Succeeds(j)'
  <2>1. failures' = failures /\ failures \subseteq Brokers
    BY <1>1 DEF TypeOK, Dial, SetDeadline, Read, Wake, EnterClose, Close, Leave, callVars
  <2>2. QED
    BY <1>1, <1>5, <2>1 DEF Reported
<1>7. \A result \in results' : probe'[result.broker] = "sent" /\ (result.ok <=> Succeeds(result.broker)')
  <2>1. \A result \in results : probe'[result.broker] = "sent" /\ (result.ok <=> Succeeds(result.broker)')
    <3>1. \A result \in results : result.broker \in Brokers
      BY <1>1 DEF TypeOK
    <3>2. QED
      BY <1>1, <1>5, <3>1 DEF Reported
  <2>2. CASE results' = results
    BY <2>1, <2>2
  <2>3. CASE results' # results
    <3>1. probe[b] # "sent"
      BY <1>1, <2>3, ReportStands
    <3>2. PICK ok \in BOOLEAN : /\ results' = results \cup {[broker |-> b, ok |-> ok]}
                                /\ ok <=> Succeeds(b)'
      BY <1>1, <2>3, <3>1, ReportIsTrue
    <3>3. probe'[b] = "sent"
      BY <1>1, <2>3, <3>1, ReportIsTrue
    <3>4. QED
      BY <2>1, <3>2, <3>3
  <2>4. QED
    BY <2>2, <2>3
<1>8. QED
  BY <1>2, <1>4, <1>6, <1>7 DEF IInv, Reported

LEMMA CallStep ==
    ASSUME IInv, CallerEnds \/ Collect \/ Conclude
    PROVE  IInv'
<1>1. TypeOK /\ Reported /\ \A j \in Brokers : Placed(j) /\ Guarded(j)
  BY DEF IInv
<1>2. TypeOK'
  BY <1>1, TypeCall
<1>3. \A j \in Brokers : Apart(j)
  BY DEF Apart, CallerEnds, Collect, Conclude
<1>4. \A j \in Brokers : Placed(j)' /\ Guarded(j)' /\ (Succeeds(j)' <=> Succeeds(j))
  BY <1>1, <1>3, ApartKeeps
<1>5. probe' = probe /\ results' \subseteq results
  BY DEF CallerEnds, Collect, Conclude
<1>6. \A result \in results' : probe'[result.broker] = "sent" /\ (result.ok <=> Succeeds(result.broker)')
  <2>1. \A result \in results : result.broker \in Brokers
    BY <1>1 DEF TypeOK
  <2>2. QED
    BY <1>1, <1>4, <1>5, <2>1 DEF Reported
<1>7. \A j \in failures' : probe'[j] = "sent" /\ ~Succeeds(j)'
  <2>1. \A j \in failures' : probe[j] = "sent" /\ ~Succeeds(j)
    BY <1>1 DEF Reported, CallerEnds, Collect, Conclude
  <2>2. failures' \subseteq Brokers
    BY <1>2 DEF TypeOK
  <2>3. QED
    BY <1>4, <1>5, <2>1, <2>2
<1>8. QED
  BY <1>2, <1>4, <1>6, <1>7 DEF IInv, Reported

LEMMA Invariance == Spec => []IInv
<1>1. IInv /\ [Next]_vars => IInv'
  <2> SUFFICES ASSUME IInv, [Next]_vars PROVE IInv'
    OBVIOUS
  <2>1. CASE \E b \in Brokers :
               Dial(b) \/ SetDeadline(b) \/ Read(b) \/ Wake(b) \/ EnterClose(b) \/ Close(b) \/ Leave(b)
    BY <2>1, ProbeStep
  <2>2. CASE CallerEnds \/ Collect \/ Conclude
    BY <2>2, CallStep
  <2>3. CASE UNCHANGED vars
    BY <2>3 DEF vars, callVars, IInv, TypeOK, Placed, Guarded, Reported, Succeeds
  <2>4. QED
    BY <2>1, <2>2, <2>3 DEF Next
<1>2. QED
  BY Initially, <1>1, PTL DEF Spec

-----------------------------------------------------------------------------
(* The theorems *)

\* Every variable of CheckTopic keeps its type.
THEOREM TypeCorrect == Spec => []TypeOK
<1>1. IInv => TypeOK
  BY DEF IInv
<1>2. QED
  BY <1>1, Invariance, PTL

\* probeTopic: whoever of the probe and its watcher comes first, a connection is
\* closed once, and before the result of its probe is known.
THEOREM ClosesOnce == Spec => []ClosedOnce
<1>1. IInv => ClosedOnce
  BY DEF IInv, Placed, Guarded, ClosedOnce, TypeOK
<1>2. QED
  BY <1>1, Invariance, PTL

\* checkTopic: it succeeds only if a broker has the topic, fails only if every
\* configured broker failed, and tells the end of the caller's context as that.
THEOREM OutcomeIsFound == Spec => OutcomeFits
<1> DEFINE Has(b) == probe[b] = "sent" /\ read[b] = "partitions" /\ ~conn[b].err
           Fits == (outcome = "none" /\ outcome' # "none") =>
                     /\ (outcome' = "ended") = ended
                     /\ outcome' = "ok" => \E b \in unique : Has(b)
                     /\ outcome' = "failed" => \A b \in unique : probe[b] = "sent" /\ ~Has(b)
<1>1. IInv /\ [Next]_vars => [Fits]_vars
  <2> SUFFICES ASSUME IInv, Next, outcome = "none", outcome' # "none" PROVE Fits
    BY DEF vars, callVars
  <2>1. Collect \/ Conclude
    BY DEF Next, Dial, SetDeadline, Read, Wake, EnterClose, Close, Leave, CallerEnds, callVars
  <2>2. TypeOK /\ Reported
    BY DEF IInv
  <2>3. ended \in BOOLEAN
    BY <2>2 DEF TypeOK
  <2>4. CASE Collect
    <3>1. CASE ended
      BY <2>3, <2>4, <3>1 DEF Collect, Returns
    <3>2. CASE ~ended
      <4>1. PICK result \in results : result.ok /\ outcome' = "ok"
        BY <2>4, <3>2 DEF Collect, Returns
      <4>2. result.broker \in unique /\ Has(result.broker)
        BY <2>2, <4>1 DEF TypeOK, Reported, Succeeds
      <4>3. QED
        BY <2>3, <3>2, <4>1, <4>2
    <3>3. QED
      BY <3>1, <3>2
  <2>5. CASE Conclude
    <3>1. \A b \in unique : probe[b] = "sent" /\ ~Has(b)
      BY <2>2, <2>5 DEF Conclude, Reported, Succeeds
    <3>2. QED
      BY <2>3, <2>5, <3>1 DEF Conclude, Returns
  <2>6. QED
    BY <2>1, <2>4, <2>5
<1>2. QED
  BY <1>1, Invariance, PTL DEF Spec, OutcomeFits

=============================================================================
