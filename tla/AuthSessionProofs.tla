------------------------- MODULE AuthSessionProofs -------------------------
(***************************************************************************)
(* What AuthSession guarantees for any number of requests, retries and     *)
(* session changes.                                                        *)
(*                                                                         *)
(* The invariant has two halves: RoundOK says where a round object may be  *)
(* in its life, RequestOK what a request may rely on while it waits.  They *)
(* hold each other up through Advance: no step ever takes back what a      *)
(* promise has already said.                                               *)
(***************************************************************************)
EXTENDS AuthSession, SequenceTheorems, TLAPS

\* A recovered request that was refused again with the credentials of a round.
Refusal(i, e, n) ==
    /\ req[i].epoch = e /\ req[i].round = n
    /\ req[i].recovered /\ req[i].sends > 1

RoundOK(e, n) ==
    LET r == rounds[e][n]
    IN  /\ r.refresh # "none" => e <= epoch
        /\ r.refresh \in {"none", "queued", "calling"} <=> r.result = "none"
        /\ r.refresh = "settled" <=> n < Len(rounds[e])
        /\ r.result = "session-changed" => e < epoch
        /\ r.notification = "session-changed" => e < epoch
        /\ r.result = "refreshed" => n <= credential[e]
        /\ r.notification # "none" =>
              /\ r.refresh = "settled"
              /\ r.result \in {"expired", "refreshed"}
        /\ (r.notification # "none" /\ r.result = "refreshed") =>
              \E i \in Requests : Refusal(i, e, n)

\* What a request relies on while it waits, by the place where it waits.
RequestOK(i) ==
    LET q == req[i]
    IN  /\ q.pc = "idle" => q = Unsent
        /\ q.pc # "idle" =>
              /\ q.epoch \in Epochs /\ q.epoch <= epoch
              /\ q.round \in Rounds(q.epoch)
        /\ q.retries <= MaxRetries
        /\ q.pc \in {"headers", "backoff", "refreshing"} =>
              q.sends <= q.retries + (IF q.recovered THEN 1 ELSE 0)
        /\ q.sends <= 1 + q.retries + (IF q.recovered THEN 1 ELSE 0)
        /\ q.pc \in {"sending", "transforming", "backoff"} => q.sends > 0
        /\ q.recovered => q.sends > 0
        /\ (q.recovered /\ q.pc \in {"sending", "transforming", "backoff"}) =>
              q.sends > 1
        /\ (q.recovered /\ q.pc \in Waits) =>
              /\ RoundOf(i).refresh = "settled" /\ RoundOf(i).result = "refreshed"
              /\ q.header >= q.round
        /\ (~q.recovered /\ q.pc \in Waits) =>
              \A m \in 1..(q.round - 1) : Recovered(q.epoch, m) => q.header >= m
        /\ q.pc = "refreshing" => q.recovered /\ RoundOf(i).refresh # "none"
        /\ q.pc = "notifying" => RoundOf(i).notification # "none"
        /\ q.pc # "settled" => q.outcome = "none"
        /\ q.outcome = "session-changed" => q.epoch < epoch
        /\ q.outcome = "unauthorized" => RoundOf(i).notification = "done"

Typed ==
    /\ epoch \in Epochs
    /\ credential \in [Epochs -> Nat]
    /\ rounds \in [Epochs -> Seq(Round)]
    /\ req \in [Requests -> Request]

IInv ==
    /\ Typed
    /\ \A e \in Epochs : Len(rounds[e]) > 0
    /\ \A e \in Epochs : \A n \in Rounds(e) : RoundOK(e, n)
    /\ \A i \in Requests : RequestOK(i)

-----------------------------------------------------------------------------
(* What every step respects.                                               *)

\* Nothing that a round has said is taken back.
Advance ==
    /\ epoch <= epoch'
    /\ \A e \in Epochs : Len(rounds[e]) <= Len(rounds'[e])
    /\ \A e \in Epochs : \A n \in Rounds(e) :
          LET r == rounds[e][n]
              s == rounds'[e][n]
          IN  /\ r.refresh # "none" => s.refresh # "none"
              /\ r.refresh = "settled" => s.refresh = "settled" /\ s.result = r.result
              /\ r.notification # "none" => s.notification # "none"
              /\ r.notification = "done" => s.notification = "done"

\* Nor is the history of a request.
Remembers ==
    \A i \in Requests : req[i].recovered =>
        /\ req'[i].recovered /\ req'[i].sends >= req[i].sends
        /\ req'[i].epoch = req[i].epoch /\ req'[i].round = req[i].round

LEMMA RoundFacts ==
    ASSUME Typed, NEW e \in Epochs, NEW n \in Rounds(e)
    PROVE  /\ rounds[e] \in Seq(Round) /\ Len(rounds[e]) \in Nat /\ n \in Nat
           /\ rounds[e][n] \in Round
<1>1. rounds[e] \in Seq(Round)
  BY DEF Typed
<1>2. QED
  BY <1>1 DEF Rounds

\* A request that does not move keeps what it relies on.
LEMMA RequestStays ==
    ASSUME IInv, Typed', Advance, NEW i \in Requests, req'[i] = req[i]
    PROVE  RequestOK(i)'
<1> DEFINE q == req[i]
<1>1. RequestOK(i) /\ Typed /\ q \in Request
  BY DEF IInv, Typed
<1>2. CASE q.pc = "idle"
  BY <1>1, <1>2 DEF RequestOK, Unsent, Waits
<1>3. CASE q.pc # "idle"
  <2> DEFINE e == q.epoch
             n == q.round
  <2>1. e \in Epochs /\ e <= epoch /\ n \in Rounds(e) /\ n \in Nat
    BY <1>1, <1>3 DEF RequestOK, Request
  <2>2. /\ epoch \in Int /\ epoch' \in Int /\ epoch <= epoch' /\ e \in Int
        /\ Len(rounds[e]) \in Nat /\ Len(rounds'[e]) \in Nat
        /\ Len(rounds[e]) <= Len(rounds'[e])
    BY <2>1, <1>1 DEF Advance, Typed, Epochs
  <2>3. n \in Rounds(e)'
    BY <2>1, <2>2 DEF Rounds
  <2>4. \A m \in 1..(n - 1) : Recovered(e, m)' => Recovered(e, m)
    <3> SUFFICES ASSUME NEW m \in 1..(n - 1) PROVE Recovered(e, m)' => Recovered(e, m)
      OBVIOUS
    <3>1. m \in Rounds(e) /\ m < Len(rounds[e])
      BY <2>1, <2>2 DEF Rounds
    <3>2. rounds[e][m].refresh = "settled"
      BY <2>1, <3>1 DEF IInv, RoundOK
    <3>3. QED
      BY <2>1, <3>1, <3>2 DEF Advance, Recovered
  <2>5. LET r == RoundOf(i)
             t == RoundOf(i)'
         IN  /\ r.refresh # "none" => t.refresh # "none"
             /\ r.refresh = "settled" => t.refresh = "settled" /\ t.result = r.result
             /\ r.notification # "none" => t.notification # "none"
             /\ r.notification = "done" => t.notification = "done"
    BY <2>1 DEF Advance, RoundOf
  <2> HIDE DEF e, n
  <2>6. QED
    BY <1>1, <1>3, <2>1, <2>2, <2>3, <2>4, <2>5 DEF RequestOK, e, n
<1>4. QED
  BY <1>2, <1>3

\* Neither does a round lose anything by what happens elsewhere.
LEMMA RoundStays ==
    ASSUME IInv, Typed', Remembers, epoch <= epoch',
           NEW e \in Epochs, NEW n \in Rounds(e),
           rounds'[e][n] = rounds[e][n],
           n < Len(rounds'[e]) <=> n < Len(rounds[e]),
           credential'[e] = credential[e] \/ n <= credential'[e]
    PROVE  RoundOK(e, n)'
<1>1. /\ RoundOK(e, n) /\ Typed
      /\ epoch \in Int /\ epoch' \in Int /\ e \in Int
  BY DEF IInv, Typed, Epochs
<1>2. ASSUME NEW i \in Requests, Refusal(i, e, n) PROVE Refusal(i, e, n)'
  <2>1. req[i] \in Request /\ req'[i] \in Request
    BY <1>1 DEF Typed
  <2>2. QED
    BY <1>2, <2>1 DEF Refusal, Remembers, Request
<1>3. QED
  BY <1>1, <1>2 DEF RoundOK

\* What is left to show of a step.
LEMMA Assemble ==
    ASSUME IInv, Typed', Advance,
           \A i \in Requests : req'[i] = req[i] \/ RequestOK(i)',
           \A e \in Epochs : \A n \in Rounds(e)' : RoundOK(e, n)'
    PROVE  IInv'
<1>1. \A i \in Requests : RequestOK(i)'
  BY RequestStays
<1>2. \A e \in Epochs : Len(rounds'[e]) > 0
  <2> SUFFICES ASSUME NEW e \in Epochs PROVE Len(rounds'[e]) > 0
    OBVIOUS
  <2>1. /\ Len(rounds[e]) \in Nat /\ Len(rounds'[e]) \in Nat
        /\ Len(rounds[e]) > 0 /\ Len(rounds[e]) <= Len(rounds'[e])
    BY DEF IInv, Typed, Advance
  <2>2. QED
    BY <2>1
<1>3. QED
  BY <1>1, <1>2 DEF IInv

-----------------------------------------------------------------------------
(* Steps of one request that leave the rounds alone.                       *)

MovesOnly(i) ==
    /\ req' \in [Requests -> Request]
    /\ \A j \in Requests : j # i => req'[j] = req[j]

\* The fields that a step of a request changes are pc and those in the set.
Keeps(i, fields) ==
    \A f \in {"epoch", "round", "header", "recovered", "retries", "sends",
              "outcome"} \ fields : req'[i][f] = req[i][f]

LEMMA OneRequest ==
    ASSUME IInv, NEW i \in Requests, MovesOnly(i),
           UNCHANGED <<epoch, credential, rounds>>,
           req[i].recovered =>
             /\ req'[i].recovered /\ req'[i].sends >= req[i].sends
             /\ req'[i].epoch = req[i].epoch /\ req'[i].round = req[i].round,
           RequestOK(i)'
    PROVE  IInv'
<1>1. Typed'
  BY DEF IInv, Typed, MovesOnly
<1>2. /\ epoch \in Int /\ \A e \in Epochs : Len(rounds[e]) \in Int
  BY DEF IInv, Typed, Epochs
<1>3. Advance
  BY <1>2 DEF Advance
<1>4. Remembers
  <2>1. \A j \in Requests : req[j] \in Request
    BY DEF IInv, Typed
  <2>2. QED
    BY <2>1 DEF Remembers, MovesOnly, Request
<1>5. \A e \in Epochs : \A n \in Rounds(e)' : RoundOK(e, n)'
  <2> SUFFICES ASSUME NEW e \in Epochs, NEW n \in Rounds(e)' PROVE RoundOK(e, n)'
    OBVIOUS
  <2>1. n \in Rounds(e)
    BY DEF Rounds
  <2>2. QED
    BY <1>1, <1>2, <1>4, <2>1, RoundStays
<1>6. QED
  BY <1>1, <1>3, <1>5, Assemble DEF MovesOnly

LEMMA SettleFacts ==
    ASSUME Typed, NEW i \in Requests, NEW outcome \in Outcomes, Settle(i, outcome)
    PROVE  /\ MovesOnly(i)
           /\ Keeps(i, {"outcome"})
           /\ req'[i].pc = "settled" /\ req'[i].outcome = outcome
BY SMTT(60), ZenonT(120) DEF Typed, Settle, MovesOnly, Keeps, Request

LEMMA TransmitFacts ==
    ASSUME Typed, NEW i \in Requests, Transmit(i)
    PROVE  /\ MovesOnly(i)
           /\ Keeps(i, {"sends"})
           /\ req'[i].pc = "sending" /\ req'[i].sends = req[i].sends + 1
BY DEF Typed, Transmit, MovesOnly, Keeps, Request, Waits

LEMMA RetryFacts ==
    ASSUME Typed, NEW i \in Requests, Retry(i)
    PROVE  /\ MovesOnly(i)
           /\ Keeps(i, {"retries"})
           /\ req'[i].pc = "backoff" /\ req'[i].retries = req[i].retries + 1
           /\ req[i].retries < MaxRetries /\ req[i].pc = "sending"
           /\ UNCHANGED <<epoch, credential, rounds>>
<1>1. /\ req' = [req EXCEPT ![i].pc = "backoff", ![i].retries = @ + 1]
      /\ req[i].retries < MaxRetries /\ req[i].pc = "sending"
      /\ UNCHANGED <<epoch, credential, rounds>>
  BY DEF Retry
<1>2. MovesOnly(i)
  BY <1>1, SMTT(60) DEF Typed, MovesOnly, Request, Waits
<1>3. /\ Keeps(i, {"retries"})
      /\ req'[i].pc = "backoff" /\ req'[i].retries = req[i].retries + 1
  BY <1>1 DEF Typed, Keeps, Request
<1>4. QED
  BY <1>1, <1>2, <1>3

LEMMA SettleKeeps ==
    ASSUME IInv, NEW i \in Requests, NEW outcome \in Outcomes,
           req[i].pc \notin {"idle", "settled"}, Settle(i, outcome),
           UNCHANGED <<epoch, credential, rounds>>,
           outcome = "session-changed" => req[i].epoch < epoch,
           outcome = "unauthorized" => RoundOf(i).notification = "done"
    PROVE  IInv'
<1>1. Typed /\ RequestOK(i) /\ req[i] \in Request
  BY DEF IInv, Typed
<1>2. /\ MovesOnly(i) /\ Keeps(i, {"outcome"})
      /\ req'[i].pc = "settled" /\ req'[i].outcome = outcome
  BY <1>1, SettleFacts
<1>3. /\ req'[i].epoch = req[i].epoch /\ req'[i].round = req[i].round
      /\ req'[i].header = req[i].header /\ req'[i].recovered = req[i].recovered
      /\ req'[i].retries = req[i].retries /\ req'[i].sends = req[i].sends
  BY <1>2 DEF Keeps
<1>4. RequestOK(i)'
  BY <1>1, <1>2, <1>3 DEF RequestOK, RoundOf, Rounds, Waits
<1>5. QED
  BY <1>1, <1>2, <1>3, <1>4, OneRequest DEF Request

LEMMA TransmitKeeps ==
    ASSUME IInv, NEW i \in Requests, req[i].pc \in {"headers", "backoff"},
           Transmit(i), UNCHANGED <<epoch, credential, rounds>>
    PROVE  IInv'
<1>1. Typed /\ RequestOK(i) /\ req[i] \in Request
  BY DEF IInv, Typed
<1>2. /\ MovesOnly(i) /\ Keeps(i, {"sends"})
      /\ req'[i].pc = "sending" /\ req'[i].sends = req[i].sends + 1
  BY <1>1, TransmitFacts
<1>3. /\ req'[i].epoch = req[i].epoch /\ req'[i].round = req[i].round
      /\ req'[i].header = req[i].header /\ req'[i].recovered = req[i].recovered
      /\ req'[i].retries = req[i].retries /\ req'[i].outcome = req[i].outcome
  BY <1>2 DEF Keeps
<1>4. RequestOK(i)'
  BY <1>1, <1>2, <1>3
     DEF RequestOK, RoundOf, Rounds, Recovered, Waits, Request
<1>5. QED
  BY <1>1, <1>2, <1>3, <1>4, OneRequest DEF Request

\* The steps of a request that only wait for the network or the project.
LEMMA WaitingKeeps ==
    ASSUME IInv, NEW i \in Requests,
           \/ HeadersReady(i) \/ HeadersFail(i) \/ Respond(i) \/ Deliver(i)
           \/ Fail(i) \/ Retry(i) \/ BackoffOver(i) \/ Abandon(i) \/ Cancel(i)
           \/ WakeFromNotification(i)
    PROVE  IInv'
<1>1. Typed /\ RequestOK(i) /\ req[i] \in Request /\ epoch \in Int
  BY DEF IInv, Typed, Epochs
<1>2. CASE HeadersReady(i) \/ BackoffOver(i)
  BY <1>2, TransmitKeeps DEF HeadersReady, BackoffOver
<1>3. CASE HeadersFail(i) \/ Deliver(i) \/ Fail(i) \/ Cancel(i)
  <2>1. PICK outcome \in {"auth", "success", "error", "canceled"} :
          Settle(i, outcome)
    BY <1>3 DEF HeadersFail, Deliver, Fail, Cancel
  <2>2. /\ req[i].pc \notin {"idle", "settled"}
        /\ UNCHANGED <<epoch, credential, rounds>>
    BY <1>3 DEF HeadersFail, Deliver, Fail, Cancel
  <2>3. QED
    BY <2>1, <2>2, SettleKeeps DEF Outcomes
<1>4. CASE Respond(i)
  <2>1. /\ MovesOnly(i) /\ Keeps(i, {}) /\ req'[i].pc = "transforming"
        /\ UNCHANGED <<epoch, credential, rounds>> /\ req[i].pc = "sending"
    BY <1>1, <1>4 DEF Respond, MovesOnly, Keeps, Typed, Request, Waits
  <2>2. /\ req'[i].epoch = req[i].epoch /\ req'[i].round = req[i].round
        /\ req'[i].header = req[i].header /\ req'[i].recovered = req[i].recovered
        /\ req'[i].retries = req[i].retries /\ req'[i].sends = req[i].sends
        /\ req'[i].outcome = req[i].outcome
    BY <2>1 DEF Keeps
  <2>3. RequestOK(i)'
    BY <1>1, <2>1, <2>2 DEF RequestOK, RoundOf, Rounds, Recovered, Waits
  <2>4. QED
    BY <1>1, <2>1, <2>2, <2>3, OneRequest DEF Request
<1>5. CASE Retry(i)
  <2>1. /\ MovesOnly(i) /\ Keeps(i, {"retries"}) /\ req'[i].pc = "backoff"
        /\ req'[i].retries = req[i].retries + 1 /\ req[i].retries < MaxRetries
        /\ UNCHANGED <<epoch, credential, rounds>> /\ req[i].pc = "sending"
    BY <1>1, <1>5, RetryFacts
  <2>2. /\ req'[i].epoch = req[i].epoch /\ req'[i].round = req[i].round
        /\ req'[i].header = req[i].header /\ req'[i].recovered = req[i].recovered
        /\ req'[i].sends = req[i].sends /\ req'[i].outcome = req[i].outcome
    BY <2>1 DEF Keeps
  <2>3. RequestOK(i)'
    BY <1>1, <2>1, <2>2, AuthConstants
       DEF RequestOK, RoundOf, Rounds, Recovered, Waits, Request
  <2>4. QED
    BY <1>1, <2>1, <2>2, <2>3, OneRequest DEF Request
<1>6. CASE Abandon(i)
  <2>1. req[i].epoch < epoch /\ req[i].pc \notin {"idle", "settled"}
    BY <1>1, <1>6 DEF Abandon, Current, RequestOK, Waits, Request
  <2>2. QED
    BY <1>6, <2>1, SettleKeeps DEF Abandon, Outcomes
<1>7. CASE WakeFromNotification(i)
  <2> DEFINE outcome == IF RoundOf(i).notification = "done" THEN "unauthorized"
                        ELSE RoundOf(i).notification
  <2>1. /\ outcome \in Outcomes /\ Settle(i, outcome) /\ req[i].pc = "notifying"
        /\ UNCHANGED <<epoch, credential, rounds>>
    BY <1>7 DEF WakeFromNotification, Notices, Outcomes
  <2>2. outcome = "session-changed" => req[i].epoch < epoch
    <3>1. RoundOK(req[i].epoch, req[i].round)
      BY <1>1, <2>1 DEF RequestOK, IInv
    <3>2. QED
      BY <3>1 DEF RoundOK, RoundOf
  <2>3. outcome = "unauthorized" => RoundOf(i).notification = "done"
    BY <1>7 DEF WakeFromNotification, Notices
  <2> HIDE DEF outcome
  <2>4. QED
    BY <2>1, <2>2, <2>3, SettleKeeps
<1>8. QED
  BY <1>2, <1>3, <1>4, <1>5, <1>6, <1>7

-----------------------------------------------------------------------------
(* Steps that change one round.                                            *)

SetsRound(e, n, r) ==
    rounds' = [rounds EXCEPT ![e] = [rounds[e] EXCEPT ![n] = r]]

LEMMA SetRoundFacts ==
    ASSUME Typed, NEW e \in Epochs, NEW n \in Rounds(e), NEW r \in Round,
           SetsRound(e, n, r)
    PROVE  /\ rounds' \in [Epochs -> Seq(Round)]
           /\ \A f \in Epochs : Len(rounds'[f]) = Len(rounds[f])
           /\ rounds'[e][n] = r
           /\ \A f \in Epochs : \A m \in Rounds(f) :
                 f # e \/ m # n => rounds'[f][m] = rounds[f][m]
<1> DEFINE new == [rounds[e] EXCEPT ![n] = r]
<1>1. rounds[e] \in Seq(Round) /\ n \in 1..Len(rounds[e])
  BY DEF Typed, Rounds
<1>2. /\ new \in Seq(Round) /\ Len(new) = Len(rounds[e])
      /\ \A m \in 1..Len(rounds[e]) : new[m] = IF m = n THEN r ELSE rounds[e][m]
  BY <1>1, ExceptSeq
<1>3. rounds' = [rounds EXCEPT ![e] = new]
  BY DEF SetsRound
<1> HIDE DEF new
<1>4. QED
  BY <1>1, <1>2, <1>3 DEF Typed, Rounds

LEMMA OneRound ==
    ASSUME IInv, NEW e \in Epochs, NEW n \in Rounds(e), NEW r \in Round,
           SetsRound(e, n, r), Remembers, epoch' = epoch,
           req' \in [Requests -> Request],
           credential' \in [Epochs -> Nat],
           \A f \in Epochs : credential'[f] = credential[f]
                               \/ (f = e /\ credential'[e] = Len(rounds[e])),
           rounds[e][n].refresh # "none" => r.refresh # "none",
           rounds[e][n].refresh = "settled" =>
              r.refresh = "settled" /\ r.result = rounds[e][n].result,
           rounds[e][n].notification # "none" => r.notification # "none",
           rounds[e][n].notification = "done" => r.notification = "done",
           RoundOK(e, n)',
           \A i \in Requests : req'[i] = req[i] \/ RequestOK(i)'
    PROVE  IInv'
<1>1. Typed
  BY DEF IInv
<1>2. /\ rounds' \in [Epochs -> Seq(Round)]
      /\ \A f \in Epochs : Len(rounds'[f]) = Len(rounds[f])
      /\ rounds'[e][n] = r
      /\ \A f \in Epochs : \A m \in Rounds(f) :
            f # e \/ m # n => rounds'[f][m] = rounds[f][m]
  BY <1>1, SetRoundFacts
<1>3. Typed'
  BY <1>1, <1>2 DEF Typed
<1>4. epoch \in Int /\ \A f \in Epochs : Len(rounds[f]) \in Int
  BY <1>1 DEF Typed, Epochs
<1>5. Advance
  <2>1. \A f \in Epochs : \A m \in Rounds(f) :
          LET q == rounds[f][m]
              s == rounds'[f][m]
          IN  /\ q.refresh # "none" => s.refresh # "none"
              /\ q.refresh = "settled" => s.refresh = "settled" /\ s.result = q.result
              /\ q.notification # "none" => s.notification # "none"
              /\ q.notification = "done" => s.notification = "done"
    BY <1>2
  <2>2. QED
    BY <1>2, <1>4, <2>1 DEF Advance
<1>6. ASSUME NEW f \in Epochs, NEW m \in Rounds(f)'
      PROVE  RoundOK(f, m)'
  <2>1. m \in Rounds(f) /\ m \in Int /\ m <= Len(rounds[f])
    BY <1>2, <1>4 DEF Rounds
  <2>2. CASE f = e /\ m = n
    BY <2>2
  <2>3. CASE ~(f = e /\ m = n)
    <3>1. rounds'[f][m] = rounds[f][m] /\ Len(rounds'[f]) = Len(rounds[f])
      BY <1>2, <2>1, <2>3
    <3>2. credential'[f] = credential[f] \/ m <= credential'[f]
      BY <2>1
    <3>3. QED
      BY <1>3, <1>4, <2>1, <3>1, <3>2, RoundStays
  <2>4. QED
    BY <2>2, <2>3
<1>7. QED
  BY <1>3, <1>5, <1>6, Assemble

LEMMA RoundIsRecord ==
    ASSUME NEW r \in Round
    PROVE  /\ r.refresh \in {"none", "settled", "queued", "calling", "decided"}
           /\ r.result \in {"none", "refreshed", "expired", "auth", "session-changed"}
           /\ r.notification \in {"none", "queued", "calling", "done", "auth",
                                  "session-changed"}
BY DEF Round, Refreshing, Verdicts, Notices

LEMMA BeginRefreshKeeps ==
    ASSUME IInv, NEW e \in Epochs, NEW n \in Rounds(e), BeginRefresh(e, n)
    PROVE  IInv'
<1> DEFINE old == rounds[e][n]
           r == IF e = epoch THEN [old EXCEPT !.refresh = "calling"]
                ELSE [old EXCEPT !.refresh = "decided", !.result = "session-changed"]
<1>1. Typed /\ old \in Round /\ RoundOK(e, n) /\ epoch \in Int /\ e \in Int
  BY RoundFacts DEF IInv, Typed, Epochs
<1>2. /\ SetsRound(e, n, r) /\ old.refresh = "queued"
      /\ UNCHANGED <<epoch, credential, req>>
  BY DEF BeginRefresh, SetsRound
<1>3. r \in Round
  BY <1>1 DEF Round, Refreshing, Verdicts
<1>4. /\ rounds'[e][n] = r /\ Len(rounds'[e]) = Len(rounds[e])
  BY <1>1, <1>2, <1>3, SetRoundFacts
<1>5. /\ r.notification = old.notification
      /\ e = epoch => r.refresh = "calling" /\ r.result = old.result
      /\ e # epoch => r.refresh = "decided" /\ r.result = "session-changed"
  BY <1>1 DEF Round
<1> HIDE DEF r
<1>6. RoundOK(e, n)'
  BY <1>1, <1>2, <1>4, <1>5, RoundIsRecord DEF RoundOK
<1>7. Remembers /\ req' \in [Requests -> Request] /\ credential' \in [Epochs -> Nat]
  BY <1>1, <1>2 DEF Remembers, Typed, Request
<1>8. QED
  BY <1>1, <1>2, <1>3, <1>5, <1>6, <1>7, OneRound

LEMMA EndRefreshKeeps ==
    ASSUME IInv, NEW e \in Epochs, NEW n \in Rounds(e), EndRefresh(e, n)
    PROVE  IInv'
<1> DEFINE old == rounds[e][n]
<1>1. Typed /\ old \in Round /\ RoundOK(e, n) /\ epoch \in Int /\ e \in Int
  BY RoundFacts DEF IInv, Typed, Epochs
<1>2. PICK result \in IF e = epoch THEN Verdicts \ {"session-changed"}
                      ELSE {"session-changed"} :
        /\ SetsRound(e, n, [old EXCEPT !.refresh = "decided", !.result = result])
        /\ credential' = IF result = "refreshed" THEN [credential EXCEPT ![e] = n]
                         ELSE credential
  BY DEF EndRefresh, SetsRound
<1> DEFINE r == [old EXCEPT !.refresh = "decided", !.result = result]
<1>3. old.refresh = "calling" /\ UNCHANGED <<epoch, req>>
  BY DEF EndRefresh
<1>4. result \in Verdicts
  BY <1>2 DEF Verdicts
<1>5. /\ r \in Round /\ r.refresh = "decided" /\ r.result = result
      /\ r.notification = old.notification
  BY <1>1, <1>4 DEF Round, Refreshing
<1> HIDE DEF r
<1>6. SetsRound(e, n, r)
  BY <1>2 DEF r
<1>7. /\ rounds'[e][n] = r /\ Len(rounds'[e]) = Len(rounds[e])
  BY <1>1, <1>5, <1>6, SetRoundFacts
<1>8. n = Len(rounds[e]) /\ n \in Nat
  <2>1. Len(rounds[e]) \in Nat
    BY <1>1 DEF Typed
  <2>2. QED
    BY <1>1, <1>3, <2>1 DEF RoundOK, Rounds
<1>9. /\ credential' \in [Epochs -> Nat]
      /\ \A f \in Epochs : credential'[f] = credential[f]
                             \/ (f = e /\ credential'[e] = Len(rounds[e]))
      /\ result = "refreshed" => credential'[e] = n
  BY <1>1, <1>2, <1>8 DEF Typed
<1>10. RoundOK(e, n)'
  <2>1. result = "session-changed" <=> e # epoch
    BY <1>2
  <2>2. old.notification = "none"
    BY <1>1, <1>3 DEF RoundOK
  <2>3. QED
    BY <1>1, <1>3, <1>4, <1>5, <1>7, <1>8, <1>9, <2>1, <2>2 DEF RoundOK, Verdicts
<1>11. Remembers /\ req' \in [Requests -> Request]
  BY <1>1, <1>3 DEF Remembers, Typed, Request
<1>12. QED
  BY <1>3, <1>5, <1>6, <1>9, <1>10, <1>11, OneRound

LEMMA NotificationKeeps ==
    ASSUME IInv, NEW e \in Epochs, NEW n \in Rounds(e),
           BeginNotification(e, n) \/ EndNotification(e, n)
    PROVE  IInv'
<1> DEFINE old == rounds[e][n]
<1>1. Typed /\ old \in Round /\ RoundOK(e, n) /\ epoch \in Int /\ e \in Int
  BY RoundFacts DEF IInv, Typed, Epochs
<1>2. PICK notice \in {"calling", "session-changed", "done", "auth"} :
        /\ SetsRound(e, n, [old EXCEPT !.notification = notice])
        /\ notice = "session-changed" => e # epoch
  BY DEF BeginNotification, EndNotification, SetsRound
<1> DEFINE r == [old EXCEPT !.notification = notice]
<1>3. /\ old.notification \in {"queued", "calling"}
      /\ UNCHANGED <<epoch, credential, req>>
  BY DEF BeginNotification, EndNotification
<1>4. /\ r \in Round /\ r.notification = notice
      /\ r.refresh = old.refresh /\ r.result = old.result
  BY <1>1 DEF Round, Notices
<1> HIDE DEF r
<1>5. SetsRound(e, n, r)
  BY <1>2 DEF r
<1>6. /\ rounds'[e][n] = r /\ Len(rounds'[e]) = Len(rounds[e])
  BY <1>1, <1>4, <1>5, SetRoundFacts
<1>7. RoundOK(e, n)'
  <2>1. \A i \in Requests : Refusal(i, e, n) => Refusal(i, e, n)'
    BY <1>3 DEF Refusal
  <2>2. QED
    BY <1>1, <1>2, <1>3, <1>4, <1>6, <2>1 DEF RoundOK
<1>8. Remembers /\ req' \in [Requests -> Request] /\ credential' \in [Epochs -> Nat]
  BY <1>1, <1>3 DEF Remembers, Typed, Request
<1>9. QED
  BY <1>1, <1>3, <1>4, <1>5, <1>7, <1>8, OneRound

\* A refresh settles and its session gets a new round.
LEMMA SettleRefreshKeeps ==
    ASSUME IInv, NEW e \in Epochs, NEW n \in Rounds(e), SettleRefresh(e, n)
    PROVE  IInv'
<1> DEFINE old == rounds[e][n]
           r == [old EXCEPT !.refresh = "settled"]
           settled == [rounds[e] EXCEPT ![n] = r]
           new == Append(settled, NewRound)
<1>1. /\ Typed /\ old \in Round /\ RoundOK(e, n) /\ epoch \in Int /\ e \in Int
      /\ rounds[e] \in Seq(Round) /\ Len(rounds[e]) \in Nat /\ n \in 1..Len(rounds[e])
  BY RoundFacts DEF IInv, Typed, Epochs, Rounds
<1>2. old.refresh = "decided" /\ UNCHANGED <<epoch, credential, req>>
  BY DEF SettleRefresh
<1>3. n = Len(rounds[e])
  BY <1>1, <1>2 DEF RoundOK
<1>4. rounds' = [rounds EXCEPT ![e] = new]
  BY <1>1, <1>3 DEF SettleRefresh, Typed
<1>5. /\ r \in Round /\ NewRound \in Round /\ r.refresh = "settled"
      /\ r.result = old.result /\ r.notification = old.notification
  BY <1>1 DEF Round, NewRound
<1> HIDE DEF r
<1>6. /\ settled \in Seq(Round) /\ Len(settled) = n
      /\ \A m \in 1..n : settled[m] = IF m = n THEN r ELSE rounds[e][m]
  BY <1>1, <1>3, <1>5, ExceptSeq
<1> HIDE DEF settled
<1>7. /\ new \in Seq(Round) /\ Len(new) = n + 1 /\ new[n + 1] = NewRound
      /\ \A m \in 1..n : new[m] = IF m = n THEN r ELSE rounds[e][m]
  BY <1>5, <1>6, AppendProperties
<1> HIDE DEF new
<1>8. Typed'
  BY <1>1, <1>2, <1>4, <1>7 DEF Typed
<1>9. Remembers
  BY <1>1, <1>2 DEF Remembers, Typed, Request
<1>10. /\ rounds'[e] = new
       /\ \A f \in Epochs : f # e => rounds'[f] = rounds[f]
  BY <1>1, <1>4 DEF Typed
<1>11. Advance
  <2>1. \A f \in Epochs : Len(rounds[f]) <= Len(rounds'[f])
    <3>1. \A f \in Epochs : Len(rounds[f]) \in Nat
      BY <1>1 DEF Typed
    <3>2. QED
      BY <1>3, <1>7, <1>10, <3>1
  <2>2. ASSUME NEW f \in Epochs, NEW m \in Rounds(f)
        PROVE  \/ rounds'[f][m] = rounds[f][m]
               \/ f = e /\ m = n /\ rounds'[f][m] = r
    BY <1>3, <1>7, <1>10 DEF Rounds
  <2>3. QED
    BY <1>1, <1>2, <1>5, <2>1, <2>2, SMTT(60) DEF Advance
<1>12. ASSUME NEW f \in Epochs, NEW m \in Rounds(f)'
       PROVE  RoundOK(f, m)'
  <2>1. CASE f # e
    <3>1. rounds'[f] = rounds[f] /\ m \in Rounds(f)
      BY <1>10, <2>1 DEF Rounds
    <3>2. QED
      BY <1>1, <1>2, <1>8, <1>9, <3>1, RoundStays
  <2>2. CASE f = e /\ m \in 1..(n - 1)
    <3>1. /\ rounds'[f][m] = rounds[f][m] /\ m \in Rounds(f)
          /\ m < Len(rounds'[f]) <=> m < Len(rounds[f])
      BY <1>1, <1>3, <1>7, <1>10, <2>2 DEF Rounds
    <3>2. /\ credential'[f] = credential[f] \/ m <= credential'[f]
          /\ epoch <= epoch'
      BY <1>1, <1>2
    <3>3. QED
      BY <1>8, <1>9, <3>1, <3>2, RoundStays
  <2>3. CASE f = e /\ m = n
    <3>1. rounds'[e][n] = r /\ n < Len(rounds'[e])
      BY <1>1, <1>3, <1>7, <1>10
    <3>2. \A i \in Requests : Refusal(i, e, n) => Refusal(i, e, n)'
      BY <1>2 DEF Refusal
    <3>3. QED
      BY <1>1, <1>2, <1>5, <2>3, <3>1, <3>2 DEF RoundOK
  <2>4. CASE f = e /\ m = n + 1
    <3>1. rounds'[e][n + 1] = NewRound /\ Len(rounds'[e]) = n + 1
      BY <1>7, <1>10
    <3>2. /\ NewRound.refresh = "none" /\ NewRound.result = "none"
          /\ NewRound.notification = "none" /\ ~(n + 1 < n + 1)
      BY <1>1 DEF NewRound
    <3>3. QED
      BY <2>4, <3>1, <3>2 DEF RoundOK
  <2>5. QED
    BY <1>1, <1>7, <1>10, <2>1, <2>2, <2>3, <2>4 DEF Rounds
<1>13. QED
  BY <1>2, <1>8, <1>11, <1>12, Assemble

\* Login or logout only makes older what was captured before.
LEMMA ChangeKeeps ==
    ASSUME IInv, ChangeSession
    PROVE  IInv'
<1>1. /\ Typed /\ epoch \in Epochs /\ epoch < MaxEpoch /\ MaxEpoch \in Nat
      /\ epoch' = epoch + 1 /\ UNCHANGED <<credential, rounds, req>>
  BY AuthConstants DEF IInv, Typed, ChangeSession
<1>2. Typed' /\ epoch <= epoch'
  BY <1>1 DEF Typed, Epochs
<1>3. Advance /\ Remembers
  <2>1. \A e \in Epochs : Len(rounds[e]) \in Nat
    BY <1>1 DEF Typed
  <2>2. QED
    BY <1>1, <1>2, <2>1 DEF Advance, Remembers, Typed, Request
<1>4. ASSUME NEW e \in Epochs, NEW n \in Rounds(e)'
      PROVE  RoundOK(e, n)'
  <2>1. n \in Rounds(e)
    BY <1>1 DEF Rounds
  <2>2. QED
    BY <1>1, <1>2, <1>3, <2>1, RoundStays
<1>5. QED
  BY <1>1, <1>2, <1>3, <1>4, Assemble

-----------------------------------------------------------------------------
(* Capture, recovery and replay.                                           *)

LEMMA StartKeeps ==
    ASSUME IInv, NEW i \in Requests, Start(i)
    PROVE  IInv'
<1> DEFINE n == Len(rounds[epoch])
           q == [pc |-> "headers", epoch |-> epoch, round |-> n,
                 header |-> credential[epoch], recovered |-> FALSE,
                 retries |-> 0, sends |-> 0, outcome |-> "none"]
<1>1. /\ Typed /\ RequestOK(i) /\ req[i] = Unsent
      /\ epoch \in Epochs /\ epoch \in Nat /\ n \in Nat /\ n > 0
      /\ credential[epoch] \in Nat
  BY DEF IInv, Typed, Epochs, Start, RequestOK
<1>2. /\ req' = [req EXCEPT ![i] = q]
      /\ UNCHANGED <<epoch, credential, rounds>>
  BY DEF Start
<1>3. q \in Request
  BY <1>1 DEF Request, Waits
<1>4. MovesOnly(i) /\ req'[i] = q
  BY <1>1, <1>2, <1>3 DEF MovesOnly, Typed
<1>5. \A m \in 1..(n - 1) : Recovered(epoch, m) => credential[epoch] >= m
  <2> SUFFICES ASSUME NEW m \in 1..(n - 1), Recovered(epoch, m)
               PROVE  credential[epoch] >= m
    OBVIOUS
  <2>1. m \in Rounds(epoch)
    BY <1>1 DEF Rounds
  <2>2. RoundOK(epoch, m)
    BY <1>1, <2>1 DEF IInv
  <2>3. QED
    BY <1>1, <2>2 DEF RoundOK, Recovered
<1>6. RequestOK(i)'
  BY <1>1, <1>2, <1>4, <1>5, AuthConstants
     DEF RequestOK, Rounds, Recovered, Waits
<1>7. QED
  BY <1>1, <1>2, <1>4, <1>6, OneRequest DEF Unsent

LEMMA JoinRefreshKeeps ==
    ASSUME IInv, NEW i \in Requests, req[i].pc \in {"sending", "transforming"},
           Current(i), ~req[i].recovered, JoinRefresh(i),
           UNCHANGED <<epoch, credential>>
    PROVE  IInv'
<1>e. PICK e \in Epochs : e = req[i].epoch
  BY DEF IInv, RequestOK
<1>n. PICK n \in Rounds(e) : n = req[i].round
  BY <1>e DEF IInv, RequestOK
<1>snapshot. e = req[i].epoch /\ n = req[i].round
  BY <1>e, <1>n
<1> DEFINE r == [rounds[e][n] EXCEPT !.refresh = "queued"]
<1>1. /\ Typed /\ RequestOK(i) /\ req[i] \in Request
      /\ e = epoch /\ epoch \in Int
  BY <1>snapshot DEF IInv, Typed, RequestOK, Epochs, Current
<1>2. /\ MovesOnly(i) /\ Keeps(i, {"recovered"})
      /\ req'[i].pc = "refreshing" /\ req'[i].recovered
  BY <1>1 DEF JoinRefresh, MovesOnly, Keeps, Typed, Request
<1>3. /\ req'[i].epoch = e /\ req'[i].round = n /\ req'[i].header = req[i].header
      /\ req'[i].retries = req[i].retries /\ req'[i].sends = req[i].sends
      /\ req'[i].outcome = req[i].outcome
  BY <1>snapshot, <1>2 DEF Keeps
<1>4. /\ rounds[e][n] \in Round /\ RoundOK(e, n)
  BY <1>1, RoundFacts DEF IInv
<1>5. CASE rounds[e][n].refresh # "none"
  <2>1. UNCHANGED rounds
    BY <1>snapshot, <1>5 DEF JoinRefresh, RoundOf
  <2>2. RequestOK(i)'
    BY <1>snapshot, <1>1, <1>2, <1>3, <1>5, <2>1 DEF RequestOK, RoundOf, Rounds, Waits, Request
  <2>3. QED
    BY <1>snapshot, <1>1, <1>2, <1>3, <2>1, <2>2, OneRequest
<1>6. CASE rounds[e][n].refresh = "none"
  <2>1. SetsRound(e, n, r)
    BY <1>snapshot, <1>6 DEF JoinRefresh, RoundOf, SetsRound
  <2>2. /\ r \in Round /\ r.refresh = "queued" /\ r.result = rounds[e][n].result
        /\ r.notification = rounds[e][n].notification
    BY <1>4 DEF Round, Refreshing
  <2> HIDE DEF r
  <2>3. /\ rounds'[e][n] = r /\ Len(rounds'[e]) = Len(rounds[e])
    BY <1>1, <2>1, <2>2, SetRoundFacts
  <2>4. RoundOK(e, n)'
    BY <1>1, <1>4, <1>6, <2>2, <2>3 DEF RoundOK
  <2>5. RequestOK(i)'
    BY <1>snapshot, <1>1, <1>2, <1>3, <2>2, <2>3 DEF RequestOK, RoundOf, Rounds, Waits, Request
  <2>6. Remembers
    <3>1. \A j \in Requests : req[j] \in Request
      BY <1>1 DEF Typed
    <3>2. QED
      BY <1>snapshot, <1>2, <1>3, <3>1 DEF Remembers, MovesOnly, Request
  <2>7. req' \in [Requests -> Request] /\ credential' \in [Epochs -> Nat]
    BY <1>1, <1>2 DEF MovesOnly, Typed
  <2>8. rounds[e][n].notification = "none"
    BY <1>4, <1>6 DEF RoundOK
  <2>9. QED
    BY <1>1, <1>2, <1>6, <2>1, <2>2, <2>4, <2>5, <2>6, <2>7, <2>8, OneRound
       DEF MovesOnly
<1>7. QED
  BY <1>5, <1>6

\* A round is notified when its refresh said EXPIRED, or when a request that
\* recovered with it was refused again.
LEMMA JoinNotificationKeeps ==
    ASSUME IInv, NEW i \in Requests,
           req[i].pc \in {"sending", "transforming", "refreshing"},
           JoinNotification(i), UNCHANGED <<epoch, credential>>,
           RoundOf(i).refresh = "settled",
           \/ RoundOf(i).result = "expired"
           \/ /\ RoundOf(i).result = "refreshed"
              /\ req[i].recovered /\ req[i].sends > 1
    PROVE  IInv'
<1>e. PICK e \in Epochs : e = req[i].epoch
  BY DEF IInv, RequestOK
<1>n. PICK n \in Rounds(e) : n = req[i].round
  BY <1>e DEF IInv, RequestOK
<1>snapshot. e = req[i].epoch /\ n = req[i].round
  BY <1>e, <1>n
<1> DEFINE r == [rounds[e][n] EXCEPT !.notification = "queued"]
<1>1. /\ Typed /\ RequestOK(i) /\ req[i] \in Request /\ epoch \in Int
  BY DEF IInv, Typed, RequestOK, Epochs
<1>2. /\ MovesOnly(i) /\ Keeps(i, {}) /\ req'[i].pc = "notifying"
  BY <1>1 DEF JoinNotification, MovesOnly, Keeps, Typed, Request
<1>3. /\ req'[i].epoch = e /\ req'[i].round = n /\ req'[i].header = req[i].header
      /\ req'[i].recovered = req[i].recovered
      /\ req'[i].retries = req[i].retries /\ req'[i].sends = req[i].sends
      /\ req'[i].outcome = req[i].outcome
  BY <1>snapshot, <1>2 DEF Keeps
<1>4. /\ rounds[e][n] \in Round /\ RoundOK(e, n)
  BY <1>1, RoundFacts DEF IInv
<1>5. CASE rounds[e][n].notification # "none"
  <2>1. UNCHANGED rounds
    BY <1>snapshot, <1>5 DEF JoinNotification, RoundOf
  <2>2. RequestOK(i)'
    BY <1>snapshot, <1>1, <1>2, <1>3, <1>5, <2>1 DEF RequestOK, RoundOf, Rounds, Waits, Request
  <2>3. QED
    BY <1>snapshot, <1>1, <1>2, <1>3, <2>1, <2>2, OneRequest DEF Request
<1>6. CASE rounds[e][n].notification = "none"
  <2>1. SetsRound(e, n, r)
    BY <1>snapshot, <1>6 DEF JoinNotification, RoundOf, SetsRound
  <2>2. /\ r \in Round /\ r.notification = "queued"
        /\ r.refresh = rounds[e][n].refresh /\ r.result = rounds[e][n].result
    BY <1>4 DEF Round
  <2> HIDE DEF r
  <2>3. /\ rounds'[e][n] = r /\ Len(rounds'[e]) = Len(rounds[e])
    BY <1>1, <2>1, <2>2, SetRoundFacts
  <2>4. RoundOK(e, n)'
    <3>1. r.result = "refreshed" => Refusal(i, e, n)'
      BY <1>snapshot, <1>3, <2>2 DEF RoundOf, Refusal
    <3>2. r.refresh = "settled" /\ r.result \in {"expired", "refreshed"}
      BY <1>snapshot, <2>2 DEF RoundOf
    <3>3. QED
      BY <1>1, <1>4, <2>2, <2>3, <3>1, <3>2 DEF RoundOK
  <2>5. RequestOK(i)'
    BY <1>snapshot, <1>1, <1>2, <1>3, <2>2, <2>3 DEF RequestOK, RoundOf, Rounds, Waits, Request
  <2>6. Remembers
    <3>1. \A j \in Requests : req[j] \in Request
      BY <1>1 DEF Typed
    <3>2. QED
      BY <1>snapshot, <1>2, <1>3, <3>1 DEF Remembers, MovesOnly, Request
  <2>7. req' \in [Requests -> Request] /\ credential' \in [Epochs -> Nat]
    BY <1>1, <1>2 DEF MovesOnly, Typed
  <2>8. QED
    BY <1>1, <1>2, <1>6, <2>1, <2>2, <2>4, <2>5, <2>6, <2>7, OneRound
       DEF MovesOnly
<1>7. QED
  BY <1>5, <1>6

LEMMA RefusedKeeps ==
    ASSUME IInv, NEW i \in Requests, Refused(i)
    PROVE  IInv'
<1>1. /\ Typed /\ RequestOK(i) /\ req[i] \in Request
      /\ req[i].pc \in {"sending", "transforming"} /\ Current(i)
      /\ UNCHANGED <<epoch, credential>>
  BY DEF IInv, Typed, Refused
<1>2. CASE ~req[i].recovered /\ JoinRefresh(i)
  BY <1>1, <1>2, JoinRefreshKeeps
<1>3. CASE req[i].recovered /\ JoinNotification(i)
  <2>1. /\ RoundOf(i).refresh = "settled" /\ RoundOf(i).result = "refreshed"
        /\ req[i].sends > 1
    BY <1>1, <1>3 DEF RequestOK, Waits
  <2>2. QED
    BY <1>1, <1>3, <2>1, JoinNotificationKeeps
<1>4. QED
  BY <1>2, <1>3 DEF Refused

LEMMA WakeFromRefreshKeeps ==
    ASSUME IInv, NEW i \in Requests, WakeFromRefresh(i)
    PROVE  IInv'
<1> DEFINE result == RoundOf(i).result
<1>1. /\ Typed /\ RequestOK(i) /\ req[i] \in Request /\ epoch \in Int
      /\ req[i].pc = "refreshing" /\ req[i].recovered
      /\ RoundOf(i).refresh = "settled" /\ UNCHANGED <<epoch, credential>>
      /\ req[i].epoch <= epoch
  BY DEF IInv, Typed, Epochs, WakeFromRefresh, RequestOK
<1>2. PICK e \in Epochs : e = req[i].epoch
  BY <1>1 DEF RequestOK
<1>3. PICK n \in Rounds(e) : n = req[i].round
  BY <1>1, <1>2 DEF RequestOK
<1>4. RoundOK(e, n) /\ RoundOf(i) = rounds[e][n]
  BY <1>2, <1>3 DEF IInv, RoundOf
<1>5. CASE Current(i) /\ result = "refreshed" /\ Replay(i)
  <2>1. /\ MovesOnly(i) /\ Keeps(i, {"header"}) /\ UNCHANGED rounds
        /\ req'[i].pc = "headers" /\ req'[i].header = credential[e]
    BY <1>1, <1>2, <1>5
       DEF Replay, MovesOnly, Keeps, Typed, Request, Waits, Current
  <2>2. /\ req'[i].epoch = e /\ req'[i].round = n
        /\ req'[i].recovered /\ req'[i].outcome = req[i].outcome
        /\ req'[i].retries = req[i].retries /\ req'[i].sends = req[i].sends
    BY <1>1, <1>2, <1>3, <2>1 DEF Keeps
  <2>3. credential[e] >= n
    BY <1>1, <1>2, <1>3, <1>4, <1>5 DEF RoundOK, Typed, Request
  <2>4. RequestOK(i)'
    BY <1>1, <1>2, <1>3, <1>4, <1>5, <2>1, <2>2, <2>3
       DEF RequestOK, RoundOf, Rounds, Waits, Request
  <2>5. QED
    BY <1>1, <1>2, <1>3, <2>1, <2>2, <2>4, OneRequest DEF Request
<1>6. CASE Current(i) /\ result = "expired" /\ JoinNotification(i)
  BY <1>1, <1>6, JoinNotificationKeeps
<1>7. CASE /\ ~Current(i) /\ result \in {"refreshed", "expired"}
           /\ Settle(i, "session-changed") /\ UNCHANGED rounds
  <2>1. req[i].epoch < epoch
    BY <1>1, <1>7 DEF Current, Request
  <2>2. QED
    BY <1>1, <1>7, <2>1, SettleKeeps DEF Outcomes
<1>8. CASE /\ result \in {"auth", "session-changed"}
           /\ Settle(i, result) /\ UNCHANGED rounds
  <2>1. PICK outcome \in {"auth", "session-changed"} : outcome = result
    BY <1>8
  <2>2. outcome = "session-changed" => req[i].epoch < epoch
    BY <1>2, <1>4, <2>1 DEF RoundOK
  <2>3. Settle(i, outcome) /\ UNCHANGED rounds
    BY <1>8, <2>1
  <2>4. QED
    BY <1>1, <2>2, <2>3, SettleKeeps DEF Outcomes
<1>9. QED
  BY <1>5, <1>6, <1>7, <1>8 DEF WakeFromRefresh, AfterRefresh

-----------------------------------------------------------------------------
(* The invariant and what follows from it.                                 *)

LEMMA InitHolds == Init => IInv
<1> SUFFICES ASSUME Init PROVE IInv
  OBVIOUS
<1>1. NewRound \in Round /\ <<NewRound>> \in Seq(Round) /\ Unsent \in Request
  BY DEF NewRound, Round, Unsent, Request
<1>2. Typed
  BY <1>1, AuthConstants DEF Init, Typed, Epochs
<1>3. /\ \A e \in Epochs : Len(rounds[e]) = 1 /\ rounds[e][1] = NewRound
      /\ \A i \in Requests : req[i] = Unsent
  BY DEF Init
<1>4. \A e \in Epochs : \A n \in Rounds(e) : RoundOK(e, n)
  <2> SUFFICES ASSUME NEW e \in Epochs, NEW n \in Rounds(e) PROVE RoundOK(e, n)
    OBVIOUS
  <2>1. n = 1 /\ Len(rounds[e]) = 1 /\ rounds[e][n] = NewRound
    <3>1. n \in 1..1 /\ Len(rounds[e]) = 1
      BY <1>3 DEF Rounds
    <3>2. n = 1
      BY <3>1
    <3>3. QED
      BY <1>3, <3>1, <3>2
  <2>2. /\ NewRound.refresh = "none" /\ NewRound.result = "none"
        /\ NewRound.notification = "none" /\ ~(n < Len(rounds[e]))
    BY <2>1 DEF NewRound
  <2>3. QED
    BY <2>1, <2>2 DEF RoundOK
<1>5. \A i \in Requests : RequestOK(i)
  <2>1. /\ Unsent.pc = "idle" /\ ~Unsent.recovered /\ Unsent.sends = 0
        /\ Unsent.retries = 0 /\ Unsent.outcome = "none"
    BY DEF Unsent
  <2> SUFFICES ASSUME NEW i \in Requests PROVE RequestOK(i)
    OBVIOUS
  <2>2. req[i] = Unsent
    BY <1>3
  <2>3. QED
    BY <2>1, <2>2, AuthConstants DEF RequestOK, Waits
<1>6. QED
  BY <1>2, <1>3, <1>4, <1>5 DEF IInv

LEMMA StepKeeps == IInv /\ [Next]_vars => IInv'
<1> SUFFICES ASSUME IInv, [Next]_vars PROVE IInv'
  OBVIOUS
<1>1. CASE UNCHANGED vars
  BY <1>1 DEF vars, IInv, Typed, RoundOK, RequestOK, Refusal, RoundOf, Rounds,
              Recovered
<1>2. CASE ChangeSession
  BY <1>2, ChangeKeeps
<1>3. ASSUME NEW i \in Requests, Start(i)
      PROVE  IInv'
  BY <1>3, StartKeeps
<1>4. ASSUME NEW i \in Requests, Cancel(i) \/ RequestStep(i)
      PROVE  IInv'
  BY <1>4, WaitingKeeps, RefusedKeeps, WakeFromRefreshKeeps DEF RequestStep
<1>5. CASE RoundSteps
  <2>1. PICK e \in Epochs : \E n \in Rounds(e) : RoundStep(e, n)
    BY <1>5 DEF RoundSteps, Rounds
  <2>2. PICK n \in Rounds(e) : RoundStep(e, n)
    BY <2>1
  <2>3. QED
    BY <2>2, BeginRefreshKeeps, EndRefreshKeeps, SettleRefreshKeeps,
       NotificationKeeps DEF RoundStep
<1>6. QED
  BY <1>1, <1>2, <1>3, <1>4, <1>5 DEF Next

THEOREM Invariance == Spec => []IInv
BY InitHolds, StepKeeps, PTL DEF Spec

\* Every variable keeps its type, and the snapshot of a request (capture) always
\* points at a round object that exists.
THEOREM TypeCorrect == Spec => []TypeOK
<1>1. ASSUME IInv PROVE TypeOK
  BY <1>1 DEF IInv, Typed, TypeOK, RequestOK, Rounds
<1>2. QED
  BY <1>1, Invariance, PTL

\* Refreshes of one session never overlap (refresh and its finally), however many
\* requests are refused at once.
THEOREM RefreshesAlone == Spec => []SingleRefresh
<1>1. ASSUME IInv PROVE SingleRefresh
  <2> SUFFICES ASSUME NEW e \in Epochs, NEW m \in Rounds(e), NEW n \in Rounds(e),
                      rounds[e][m].refresh \in Refreshing,
                      rounds[e][n].refresh \in Refreshing
               PROVE  m = n
    BY DEF SingleRefresh
  <2>1. Len(rounds[e]) \in Nat
    BY <1>1 DEF IInv, Typed
  <2>2. ~(m < Len(rounds[e])) /\ ~(n < Len(rounds[e]))
    BY <1>1 DEF IInv, RoundOK, Refreshing
  <2>3. QED
    BY <2>1, <2>2 DEF Rounds
<1>2. QED
  BY <1>1, Invariance, PTL

\* A replay (execute after recover) carries credentials that its own round or a
\* later one has saved.
THEOREM ReplaysAreFresh == Spec => []ReplayIsFresh
<1>1. ASSUME IInv PROVE ReplayIsFresh
  BY <1>1 DEF IInv, ReplayIsFresh, RequestOK, RoundOf, Recovered, Waits
<1>2. QED
  BY <1>1, Invariance, PTL

\* onUnauthorized is called only when a refresh of the session said EXPIRED or one of
\* its replays was refused.
THEOREM LogoutsAreJustified == Spec => []LogoutJustified
<1>1. ASSUME IInv PROVE LogoutJustified
  BY <1>1 DEF IInv, LogoutJustified, RoundOK, Refusal
<1>2. QED
  BY <1>1, Invariance, PTL

\* What a request is told fits what happened to it and to its session.
THEOREM OutcomesAreRight == Spec => []OutcomesFit
<1>1. ASSUME IInv PROVE OutcomesFit
  BY <1>1 DEF IInv, OutcomesFit, RequestOK
<1>2. QED
  BY <1>1, Invariance, PTL

\* Recovery and retries never multiply transmissions.
THEOREM SendsAreBounded == Spec => []SendsBounded
<1>1. ASSUME IInv PROVE SendsBounded
  BY <1>1 DEF IInv, SendsBounded, RequestOK
<1>2. QED
  BY <1>1, Invariance, PTL

-----------------------------------------------------------------------------
(* Action properties.                                                      *)

\* Requests act only in their session.
LEMMA ActsInSession ==
    ASSUME IInv, [Next]_vars, NEW i \in Requests, Acts(i)
    PROVE  req[i].epoch = epoch
<1>1. Typed /\ req[i] \in Request /\ RequestOK(i)
  BY DEF IInv, Typed
<1>2. req'[i] # req[i]
  BY <1>1 DEF Acts, Request, RequestOK
<1>3. ASSUME Start(i) PROVE FALSE
  BY <1>1, <1>3 DEF Start, Acts, Typed, Request, Unsent, RequestOK
<1>4. ASSUME NEW outcome \in Outcomes \ {"success"}, Settle(i, outcome) PROVE FALSE
  BY <1>1, <1>4 DEF Settle, Acts, Typed, Request
<1>5. ASSUME JoinRefresh(i) \/ JoinNotification(i) \/ Replay(i) PROVE FALSE
  <2>1. CASE JoinRefresh(i)
    BY <1>1, <2>1 DEF JoinRefresh, Acts, Typed, Request, RequestOK
  <2>2. CASE JoinNotification(i)
    BY <1>1, <2>2 DEF JoinNotification, Acts, Typed, Request, RequestOK
  <2>3. CASE Replay(i)
    BY <1>1, <2>3 DEF Replay, Acts, Typed, Request, RequestOK
  <2>4. QED
    BY <1>5, <2>1, <2>2, <2>3
<1>6. ASSUME WakeFromNotification(i) PROVE FALSE
  BY <1>4, <1>6 DEF WakeFromNotification, Notices, Outcomes
<1>7. ASSUME WakeFromRefresh(i) PROVE FALSE
  BY <1>4, <1>5, <1>7 DEF WakeFromRefresh, AfterRefresh, Outcomes
<1>8. ASSUME RequestStep(i) PROVE Current(i)
  BY <1>4, <1>6, <1>7, <1>8
     DEF RequestStep, HeadersReady, HeadersFail, Respond, Deliver, Fail, Retry,
         BackoffOver, Abandon, Refused, Outcomes
<1>9. ~Cancel(i)
  BY <1>4 DEF Cancel, Outcomes
<1>10. ASSUME NEW j \in Requests, j # i,
              Start(j) \/ Cancel(j) \/ RequestStep(j)
       PROVE  FALSE
  <2>1. \/ Start(j) \/ \E outcome : Settle(j, outcome)
        \/ Transmit(j) \/ Respond(j) \/ Retry(j)
        \/ JoinRefresh(j) \/ JoinNotification(j) \/ Replay(j)
    BY <1>10 DEF RequestStep, HeadersReady, HeadersFail, Deliver, Fail, BackoffOver,
                 Abandon, Refused, WakeFromNotification, WakeFromRefresh, AfterRefresh,
                 Cancel
  <2>2. req'[i] = req[i]
    BY <1>1, <1>10, <2>1
       DEF Start, Settle, Transmit, Respond, Retry, JoinRefresh, JoinNotification,
           Replay, Typed
  <2>3. QED
    BY <1>2, <2>2
<1>11. ASSUME ChangeSession \/ RoundSteps \/ UNCHANGED vars PROVE FALSE
  BY <1>2, <1>11
     DEF ChangeSession, RoundSteps, RoundStep, BeginRefresh, EndRefresh, SettleRefresh,
         BeginNotification, EndNotification, vars
<1>12. QED
  BY <1>3, <1>8, <1>9, <1>10, <1>11 DEF Next, Current

\* A request that is told to join a round does not start a callback yet.
LEMMA JoiningCallsNothing ==
    ASSUME Typed, NEW i \in Requests, req[i].epoch \in Epochs,
           req[i].round \in Rounds(req[i].epoch),
           JoinRefresh(i) \/ JoinNotification(i),
           NEW e \in Epochs, NEW n \in Rounds(e)
    PROVE  ~Calls(e, n)
<1>1. PICK f \in Epochs : f = req[i].epoch
  OBVIOUS
<1>2. PICK m \in Rounds(f) : m = req[i].round
  BY <1>1
<1>3. rounds[f][m] \in Round
  BY RoundFacts
<1>4. CASE UNCHANGED rounds
  BY <1>4 DEF Calls
<1>5. CASE SetsRound(f, m, [rounds[f][m] EXCEPT !.refresh = "queued"])
  <2> DEFINE r == [rounds[f][m] EXCEPT !.refresh = "queued"]
  <2>1. /\ r \in Round /\ r.refresh = "queued"
        /\ r.notification = rounds[f][m].notification
    BY <1>3 DEF Round, Refreshing
  <2> HIDE DEF r
  <2>2. SetsRound(f, m, r)
    BY <1>5 DEF r
  <2>3. \/ rounds'[e][n] = rounds[e][n]
        \/ rounds'[e][n] = r /\ e = f /\ n = m
    BY <2>1, <2>2, SetRoundFacts
  <2>4. QED
    BY <2>1, <2>3 DEF Calls
<1>6. CASE SetsRound(f, m, [rounds[f][m] EXCEPT !.notification = "queued"])
  <2> DEFINE r == [rounds[f][m] EXCEPT !.notification = "queued"]
  <2>1. /\ r \in Round /\ r.notification = "queued"
        /\ r.refresh = rounds[f][m].refresh
    BY <1>3 DEF Round
  <2> HIDE DEF r
  <2>2. SetsRound(f, m, r)
    BY <1>6 DEF r
  <2>3. \/ rounds'[e][n] = rounds[e][n]
        \/ rounds'[e][n] = r /\ e = f /\ n = m
    BY <2>1, <2>2, SetRoundFacts
  <2>4. QED
    BY <2>1, <2>3 DEF Calls
<1>7. QED
  BY <1>1, <1>2, <1>4, <1>5, <1>6 DEF JoinRefresh, JoinNotification, RoundOf, SetsRound

\* The promises call the project only for the session in force.
LEMMA PromisesCallInSession ==
    ASSUME Typed, NEW f \in Epochs, NEW m \in Rounds(f), RoundStep(f, m),
           NEW e \in Epochs, NEW n \in Rounds(e), Calls(e, n)
    PROVE  e = epoch
<1> DEFINE old == rounds[f][m]
<1>1. old \in Round /\ rounds[f] \in Seq(Round) /\ m \in 1..Len(rounds[f])
  BY RoundFacts DEF Rounds
<1>2. CASE SettleRefresh(f, m)
  <2> DEFINE r == [old EXCEPT !.refresh = "settled"]
             settled == [rounds[f] EXCEPT ![m] = r]
             new == Append(settled, NewRound)
  <2>1. /\ r \in Round /\ NewRound \in Round /\ r.refresh = "settled"
        /\ r.notification = old.notification
    BY <1>1 DEF Round, NewRound
  <2> HIDE DEF r
  <2>2. /\ settled \in Seq(Round) /\ Len(settled) = Len(rounds[f])
        /\ \A k \in 1..Len(rounds[f]) : settled[k] = IF k = m THEN r ELSE rounds[f][k]
    BY <1>1, <2>1, ExceptSeq
  <2>3. rounds' = [rounds EXCEPT ![f] = new] \/ rounds' = [rounds EXCEPT ![f] = settled]
    BY <1>2 DEF SettleRefresh, Typed, r
  <2> HIDE DEF settled
  <2>4. \A k \in 1..Len(settled) : new[k] = settled[k]
    BY <2>1, <2>2, AppendProperties
  <2> HIDE DEF new
  <2>5. \/ rounds'[e][n] = rounds[e][n]
        \/ rounds'[e][n] = r /\ e = f /\ n = m
    BY <2>2, <2>3, <2>4 DEF Typed, Rounds
  <2>6. QED
    BY <2>1, <2>5 DEF Calls
<1>3. ASSUME NEW r \in Round, SetsRound(f, m, r),
             r.refresh = "calling" => f = epoch \/ old.refresh = "calling",
             r.notification = "calling" => f = epoch \/ old.notification = "calling"
      PROVE  e = epoch
  <2>1. \/ rounds'[e][n] = rounds[e][n]
        \/ rounds'[e][n] = r /\ e = f /\ n = m
    BY <1>3, SetRoundFacts
  <2>2. QED
    BY <1>3, <2>1 DEF Calls
<1>4. CASE BeginRefresh(f, m)
  <2> DEFINE r == IF f = epoch THEN [old EXCEPT !.refresh = "calling"]
                  ELSE [old EXCEPT !.refresh = "decided", !.result = "session-changed"]
  <2>1. /\ r \in Round /\ r.notification = old.notification
        /\ f # epoch => r.refresh = "decided"
    BY <1>1 DEF Round, Refreshing, Verdicts
  <2>2. SetsRound(f, m, r)
    BY <1>4 DEF BeginRefresh, SetsRound
  <2> HIDE DEF r
  <2>3. QED
    BY <2>1, <2>2, <1>3
<1>5. CASE EndRefresh(f, m)
  <2>1. PICK result \in Verdicts :
          SetsRound(f, m, [old EXCEPT !.refresh = "decided", !.result = result])
    BY <1>5 DEF EndRefresh, SetsRound, Verdicts
  <2> DEFINE r == [old EXCEPT !.refresh = "decided", !.result = result]
  <2>2. /\ r \in Round /\ r.refresh = "decided" /\ r.notification = old.notification
    BY <1>1 DEF Round, Refreshing
  <2> HIDE DEF r
  <2>3. SetsRound(f, m, r)
    BY <2>1 DEF r
  <2>4. QED
    BY <2>2, <2>3, <1>3
<1>6. CASE BeginNotification(f, m) \/ EndNotification(f, m)
  <2>1. PICK notice \in {"calling", "session-changed", "done", "auth"} :
          /\ SetsRound(f, m, [old EXCEPT !.notification = notice])
          /\ notice = "calling" => f = epoch
    BY <1>6 DEF BeginNotification, EndNotification, SetsRound
  <2> DEFINE r == [old EXCEPT !.notification = notice]
  <2>2. /\ r \in Round /\ r.notification = notice /\ r.refresh = old.refresh
    BY <1>1 DEF Round, Notices
  <2> HIDE DEF r
  <2>3. SetsRound(f, m, r)
    BY <2>1 DEF r
  <2>4. QED
    BY <2>1, <2>2, <2>3, <1>3
<1>7. QED
  BY <1>2, <1>4, <1>5, <1>6 DEF RoundStep

LEMMA CallsInSession ==
    ASSUME IInv, [Next]_vars, NEW e \in Epochs, NEW n \in Rounds(e), Calls(e, n)
    PROVE  e = epoch
<1>1. Typed
  BY DEF IInv
<1>2. ~UNCHANGED rounds
  BY DEF Calls
<1>3. ASSUME NEW i \in Requests, Cancel(i) \/ RequestStep(i) \/ Start(i) PROVE FALSE
  <2>1. req[i].pc # "idle" /\ (JoinRefresh(i) \/ JoinNotification(i))
    BY <1>2, <1>3
       DEF Cancel, RequestStep, Start, HeadersReady, HeadersFail, Respond, Deliver, Fail,
           Retry, BackoffOver, Abandon, Refused, WakeFromRefresh, WakeFromNotification,
           AfterRefresh, Replay
  <2>2. req[i].epoch \in Epochs /\ req[i].round \in Rounds(req[i].epoch)
    BY <2>1 DEF IInv, RequestOK
  <2>3. QED
    BY <1>1, <2>1, <2>2, JoiningCallsNothing
<1>4. ASSUME RoundSteps PROVE e = epoch
  <2>1. PICK f \in Epochs : \E m \in Rounds(f) : RoundStep(f, m)
    BY <1>4 DEF RoundSteps, Rounds
  <2>2. PICK m \in Rounds(f) : RoundStep(f, m)
    BY <2>1
  <2>3. QED
    BY <1>1, <2>2, PromisesCallInSession
<1>5. QED
  BY <1>2, <1>3, <1>4 DEF Next, vars, ChangeSession

\* Nothing is sent for, delivered from, or asked of the project for a session that
\* is over (checkActive, assertCurrent and the microtasks of refresh and notify).
THEOREM SessionsKeepApart == Spec => SessionBoundary
<1>1. IInv /\ [Next]_vars =>
        [/\ \A i \in Requests : Acts(i) => req[i].epoch = epoch
         /\ \A e \in Epochs : \A n \in Rounds(e) : Calls(e, n) => e = epoch]_vars
  BY ActsInSession, CallsInSession
<1>2. QED
  BY <1>1, Invariance, PTL DEF Spec, SessionBoundary

\* Only a refusal turns a request into one that waits for a refresh.
LEMMA StartersAreRefused ==
    ASSUME IInv, [Next]_vars, NEW i \in Requests,
           req[i].pc # "refreshing", req'[i].pc = "refreshing"
    PROVE  Refused(i) /\ ~req[i].recovered /\ JoinRefresh(i)
<1>1. Typed /\ req[i] \in Request
  BY DEF IInv, Typed
<1>2. req'[i] # req[i]
  OBVIOUS
<1>3. ASSUME Start(i) PROVE FALSE
  BY <1>1, <1>3 DEF Start, Typed
<1>4. ASSUME NEW outcome, Settle(i, outcome) PROVE FALSE
  BY <1>1, <1>4 DEF Settle, Typed, Request
<1>5. ASSUME Transmit(i) \/ Respond(i) \/ Retry(i) \/ Replay(i) \/ JoinNotification(i)
      PROVE  FALSE
  BY <1>1, <1>5 DEF Transmit, Respond, Retry, Replay, JoinNotification, Typed, Request
<1>6. ASSUME Cancel(i) \/ RequestStep(i)
      PROVE  Refused(i) /\ ~req[i].recovered /\ JoinRefresh(i)
  BY <1>4, <1>5, <1>6
     DEF Cancel, RequestStep, HeadersReady, HeadersFail, Deliver, Fail, BackoffOver,
         Abandon, Refused, WakeFromRefresh, AfterRefresh, WakeFromNotification
<1>7. ASSUME NEW j \in Requests, j # i, Start(j) \/ Cancel(j) \/ RequestStep(j)
      PROVE  FALSE
  <2>1. \/ Start(j) \/ \E outcome : Settle(j, outcome)
        \/ Transmit(j) \/ Respond(j) \/ Retry(j)
        \/ JoinRefresh(j) \/ JoinNotification(j) \/ Replay(j)
    BY <1>7 DEF RequestStep, HeadersReady, HeadersFail, Deliver, Fail, BackoffOver,
                Abandon, Refused, WakeFromNotification, WakeFromRefresh, AfterRefresh,
                Cancel
  <2>2. req'[i] = req[i]
    BY <1>1, <1>7, <2>1
       DEF Start, Settle, Transmit, Respond, Retry, JoinRefresh, JoinNotification,
           Replay, Typed
  <2>3. QED
    BY <1>2, <2>2
<1>8. ASSUME ChangeSession \/ RoundSteps \/ UNCHANGED vars PROVE FALSE
  BY <1>2, <1>8
     DEF ChangeSession, RoundSteps, RoundStep, BeginRefresh, EndRefresh, SettleRefresh,
         BeginNotification, EndNotification, vars
<1>9. QED
  BY <1>3, <1>6, <1>7, <1>8 DEF Next

LEMMA StartersAreFresh ==
    ASSUME IInv, [Next]_vars, NEW i \in Requests, NEW e \in Epochs, NEW n \in Rounds(e),
           StartsRefresh(i, e, n)
    PROVE  \A m \in 1..(n - 1) : Recovered(e, m) => req[i].header >= m
<1>1. Refused(i) /\ ~req[i].recovered /\ JoinRefresh(i)
  BY StartersAreRefused DEF StartsRefresh
<1>2. req[i].epoch = e /\ req[i].round = n
  BY <1>1 DEF StartsRefresh, JoinRefresh, IInv, Typed, Request
<1>3. req[i].pc \in Waits
  BY <1>1 DEF Refused, Waits
<1>4. QED
  BY <1>1, <1>2, <1>3 DEF IInv, RequestOK

\* A late refusal of old credentials starts no further refresh: the round that a
\* request was given at capture is the one it joins (capture, refresh).
THEOREM LateRefusalsJoin == Spec => OnlyFreshRefusalsRefresh
<1>1. IInv /\ [Next]_vars =>
        [\A i \in Requests : \A e \in Epochs : \A n \in Rounds(e) :
            StartsRefresh(i, e, n) =>
              \A m \in 1..(n - 1) : Recovered(e, m) => req[i].header >= m]_vars
  BY StartersAreFresh
<1>2. QED
  BY <1>1, Invariance, PTL DEF Spec, OnlyFreshRefusalsRefresh

=============================================================================
