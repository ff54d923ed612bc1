------------------------------ MODULE SseStream ------------------------------
(***************************************************************************)
(* One call of the SSE API of the frontend package: the requests it sends, *)
(* the one authentication recovery, the parser and the consumer that       *)
(* iterates over the events, while the caller may abort its signal, the    *)
(* session may change and the connection may break at any time.            *)
(*                                                                         *)
(* A text is a sequence of pieces that no chunk divides: the field names,  *)
(* the colon, values, CR and LF.  What refresh and the exit callback do is *)
(* in AuthSession; here they take time and have a result.                  *)
(***************************************************************************)
EXTENDS Integers, Sequences, FiniteSets, SequencesExt

CONSTANTS
    Pieces,     \* "data", "event", "id", ":", "CR", "LF" and any values
    Texts       \* what a server may send

ASSUME SseConstants == Texts \subseteq Seq(Pieces)

VARIABLES
    pc, outcome,
    aborted, current,            \* the caller's signal; the captured session is current
    timeout, timer, timedOut,    \* whether there is a timeout; the timer is armed; it fired
    controller,                  \* the AbortController of the fetches is aborted
    recovered, fetches,
    body, reader,                \* the last response's body; it is locked by a reader
    text, received, chunk,       \* not yet sent, read, read but not yet parsed
    parser, got                  \* the state of the parser; the events yielded

envVars == <<aborted, current, timeout>>
netVars == <<timer, timedOut, controller, body, reader>>
textVars == <<text, received, chunk, parser, got>>
vars == <<pc, outcome, envVars, netVars, recovered, fetches, textVars>>

NewParser == [line |-> <<>>, skipLF |-> FALSE, data |-> <<>>, event |-> <<>>, id |-> <<>>, out |-> <<>>]

Init ==
    /\ pc = "idle" /\ outcome = "none"
    /\ aborted \in BOOLEAN /\ current = TRUE /\ timeout \in BOOLEAN
    /\ timer = FALSE /\ timedOut = FALSE /\ controller = FALSE
    /\ recovered = FALSE /\ fetches = 0
    /\ body = "none" /\ reader = FALSE
    /\ text \in Texts /\ received = <<>> /\ chunk = <<>>
    /\ parser = NewParser /\ got = <<>>

-----------------------------------------------------------------------------
(* The parser *)

Colon(line) == SelectInSeq(line, LAMBDA x : x = ":")
Field(line) == IF Colon(line) = 0 THEN line ELSE SubSeq(line, 1, Colon(line) - 1)
Content(line) == IF Colon(line) = 0 THEN <<>> ELSE SubSeq(line, Colon(line) + 1, Len(line))

\* An empty line dispatches what there is; the id is kept for later events.
ConsumeLine(p) ==
    LET message == [data |-> p.data, event |-> p.event, id |-> p.id]
        q == [p EXCEPT !.line = <<>>]
    IN  CASE p.line = <<>> ->
               [q EXCEPT !.data = <<>>, !.event = <<>>,
                         !.out = IF p.data = <<>> THEN @ ELSE Append(@, message)]
          [] Field(p.line) = <<"data">>  -> [q EXCEPT !.data = Append(@, Content(p.line))]
          [] Field(p.line) = <<"event">> -> [q EXCEPT !.event = Content(p.line)]
          [] Field(p.line) = <<"id">>    -> [q EXCEPT !.id = Content(p.line)]
          [] OTHER -> q

Consume(p, x) ==
    LET q == [p EXCEPT !.skipLF = (x = "CR")]
    IN  IF p.skipLF /\ x = "LF" THEN q
        ELSE IF x \in {"CR", "LF"} THEN ConsumeLine(q)
        ELSE [q EXCEPT !.line = Append(@, x)]

\* Fault: the line end is forgotten between two chunks.
Parse_Afresh(p, pieces) ==
    LET state[k \in 0..Len(pieces)] ==
          IF k = 0 THEN [p EXCEPT !.skipLF = FALSE, !.out = <<>>]
          ELSE Consume(state[k - 1], pieces[k])
    IN  state

\* The states of the parser on its way through the pieces.
Parse(p, pieces) ==
    LET state[k \in 0..Len(pieces)] ==
          IF k = 0 THEN [p EXCEPT !.out = <<>>] ELSE Consume(state[k - 1], pieces[k])
    IN  state

-----------------------------------------------------------------------------
(* The generator *)

Active == ~aborted /\ current

\* What checkActive throws.
Inactive == IF aborted THEN "canceled" ELSE "changed"

\* The generator returns or throws: its finally block begins.
Leave(result) ==
    /\ pc' = "closing" /\ outcome' = result
    /\ timer' = FALSE /\ controller' = TRUE
    /\ UNCHANGED <<timedOut, reader>>

Call ==
    /\ pc = "idle"
    /\ IF aborted THEN pc' = "done" /\ outcome' = "canceled" ELSE pc' = "headers" /\ UNCHANGED outcome
    /\ UNCHANGED <<envVars, netVars, recovered, fetches, textVars>>

\* auth.headers() has a result; an attempt begins with its own timer.
Fetch ==
    /\ pc = "headers"
    /\ \/ /\ Active
          /\ pc' = "fetching" /\ fetches' = fetches + 1
          /\ timer' = timeout /\ timedOut' = FALSE
          /\ UNCHANGED <<outcome, controller, reader>>
       \/ /\ Leave(IF Active THEN "auth" ELSE Inactive)
          /\ UNCHANGED fetches
    /\ UNCHANGED <<envVars, body, recovered, textVars>>

TimerFires ==
    /\ timer
    /\ timer' = FALSE /\ timedOut' = TRUE /\ controller' = TRUE
    /\ UNCHANGED <<pc, outcome, envVars, body, reader, recovered, fetches, textVars>>

FetchFails ==
    /\ pc = "fetching"
    /\ Leave(IF ~Active THEN Inactive ELSE IF timedOut THEN "timeout" ELSE "network")
    /\ UNCHANGED <<envVars, body, recovered, fetches, textVars>>

\* The headers of a response arrive: an event stream, another success, or an error.
Respond ==
    /\ pc = "fetching" /\ ~controller
    /\ body' = "open"
    /\ \/ ~Active /\ Leave(Inactive)
       \/ Active /\ Leave("format")
       \/ /\ Active
          /\ \/ pc' = "reading" /\ reader' = TRUE
             \/ pc' = "errorbody" /\ UNCHANGED reader
          /\ timer' = FALSE
          /\ UNCHANGED <<outcome, timedOut, controller>>
    /\ UNCHANGED <<envVars, recovered, fetches, textVars>>

\* The text of the error has been read, or reading it failed, which is an error of the
\* network.  recover leaves the error alone, fails, refreshes, or after the refresh
\* goes on to the exit callback.
Recover ==
    /\ pc = "errorbody"
    /\ body' = "closed"
    /\ \/ /\ Active /\ recovered' = TRUE
          /\ pc' = IF recovered THEN "notifying" ELSE "refreshing"
          /\ UNCHANGED <<outcome, timer, timedOut, controller, reader>>
       \/ /\ \E result \in {"network", "http", "auth"} :
               Leave(IF Active THEN result ELSE Inactive)
          /\ UNCHANGED recovered
    /\ UNCHANGED <<envVars, fetches, textVars>>

\* The shared refresh ends.
Refreshed ==
    /\ pc = "refreshing"
    /\ \/ /\ Active
          /\ pc' \in {"headers", "notifying"}
          /\ UNCHANGED <<outcome, timer, timedOut, controller, reader>>
       \/ Leave(IF Active THEN "auth" ELSE Inactive)
    /\ UNCHANGED <<envVars, body, recovered, fetches, textVars>>

\* The exit callback is over or has failed; it may itself have changed the session.
Notified ==
    /\ pc = "notifying"
    /\ \E result \in {"http", "auth"} : Leave(result)
    /\ UNCHANGED <<envVars, body, recovered, fetches, textVars>>

\* The chunk is parsed up to the next event, which is yielded, or to its end.
Yield(p, pieces) ==
    LET state == Parse(p, pieces)
        ends  == {k \in 1..Len(pieces) : state[k].out # <<>>}
        used  == IF ends = {} THEN Len(pieces) ELSE CHOOSE i \in ends : \A j \in ends : i <= j
        q     == state[used]
    IN  /\ pc' = IF ends = {} THEN "reading" ELSE "yielded"
        /\ parser' = q /\ got' = got \o q.out
        /\ chunk' = SubSeq(pieces, used + 1, Len(pieces))
        /\ UNCHANGED <<outcome, timer, timedOut, controller, reader>>

\* Fault: the caller and the session are not looked at between two events.
Deliver_Unchecked(p, pieces) == Yield(p, pieces)

\* checkActive before every event and before every read.
Deliver(p, pieces) ==
    \/ Active /\ Yield(p, pieces)
    \/ ~Active /\ Leave(Inactive) /\ chunk' = pieces /\ UNCHANGED <<parser, got>>

\* A chunk arrives, and after it the stream may go on or not.
Read ==
    /\ pc = "reading"
    /\ \E n \in 1..Len(text) :
         /\ text' = SubSeq(text, n + 1, Len(text))
         /\ received' = received \o SubSeq(text, 1, n)
         /\ Deliver(parser, SubSeq(text, 1, n))
    /\ UNCHANGED <<envVars, body, recovered, fetches>>

\* The response ends, or breaks off.
ReadEnds ==
    /\ pc = "reading"
    /\ \E result \in {"ok", "network"} : Leave(IF Active THEN result ELSE Inactive)
    /\ UNCHANGED <<envVars, body, recovered, fetches, textVars>>

\* The consumer asks for the next event.
Continue ==
    /\ pc = "yielded"
    /\ Deliver(parser, chunk)
    /\ UNCHANGED <<envVars, body, recovered, fetches, text, received>>

\* The consumer leaves its loop.
Return ==
    /\ pc = "yielded"
    /\ Leave("returned")
    /\ UNCHANGED <<envVars, body, recovered, fetches, textVars>>

\* Fault: the text of an error is awaited without the signal.
Awaits_NotErrors == {"headers", "fetching", "refreshing", "notifying", "reading"}

\* Where the generator awaits something that the signal interrupts.
Awaits == {"headers", "fetching", "errorbody", "refreshing", "notifying", "reading"}

Interrupt ==
    /\ aborted /\ pc \in Awaits
    /\ Leave("canceled")
    /\ UNCHANGED <<envVars, body, recovered, fetches, textVars>>

\* Fault: only a body with a reader is canceled.
Closed_ReaderOnly ==
    /\ pc = "closing"
    /\ pc' = "done" /\ reader' = FALSE
    /\ body' = IF reader THEN "closed" ELSE body
    /\ UNCHANGED <<outcome, envVars, timer, timedOut, controller, recovered, fetches, textVars>>

\* The finally block ends: the body is canceled, and the lock released.
Closed ==
    /\ pc = "closing"
    /\ pc' = "done" /\ reader' = FALSE
    /\ body' = IF body = "open" THEN "closed" ELSE body
    /\ UNCHANGED <<outcome, envVars, timer, timedOut, controller, recovered, fetches, textVars>>

-----------------------------------------------------------------------------
(* The caller and the session *)

Abort ==
    /\ ~aborted
    /\ aborted' = TRUE
    /\ controller' = (controller \/ pc \notin {"idle", "closing", "done"})
    /\ UNCHANGED <<pc, outcome, current, timeout, timer, timedOut, body, reader,
                   recovered, fetches, textVars>>

ChangeSession ==
    /\ current /\ pc # "idle"
    /\ current' = FALSE
    /\ UNCHANGED <<pc, outcome, aborted, timeout, netVars, recovered, fetches, textVars>>

Next ==
    \/ Call \/ Fetch \/ TimerFires \/ FetchFails \/ Respond \/ Recover \/ Refreshed \/ Notified
    \/ Read \/ ReadEnds \/ Continue \/ Return \/ Interrupt \/ Closed
    \/ Abort \/ ChangeSession

Spec == Init /\ [][Next]_vars

\* Timers fire, an abort reaches the await it interrupts, and clean-up ends.
Fairness ==
    /\ WF_vars(TimerFires) /\ WF_vars(controller /\ FetchFails)
    /\ WF_vars(Interrupt) /\ WF_vars(Closed)

FairSpec == Spec /\ Fairness

-----------------------------------------------------------------------------
(* Properties *)

Messages == [data : Seq(Seq(Pieces)), event : Seq(Pieces), id : Seq(Pieces)]

\* Every variable has its type.
TypeOK ==
    /\ pc \in Awaits \cup {"idle", "yielded", "closing", "done"}
    /\ outcome \in {"none", "ok", "returned", "canceled", "changed", "timeout", "network",
                    "format", "http", "auth"}
    /\ aborted \in BOOLEAN /\ current \in BOOLEAN
    /\ timeout \in BOOLEAN /\ timer \in BOOLEAN /\ timedOut \in BOOLEAN /\ controller \in BOOLEAN
    /\ recovered \in BOOLEAN /\ fetches \in Nat
    /\ body \in {"none", "open", "closed"} /\ reader \in BOOLEAN
    /\ text \in Seq(Pieces) /\ received \in Seq(Pieces) /\ chunk \in Seq(Pieces)
    /\ parser \in [line : Seq(Pieces), skipLF : BOOLEAN, data : Seq(Seq(Pieces)),
                   event : Seq(Pieces), id : Seq(Pieces), out : Seq(Messages)]
    /\ got \in Seq(Messages)

\* The events of a text as the standard defines them, without the parser: lines
\* end with CR, LF or CRLF, an empty line ends an event, one without data is none.
\* What follows speaks of the piece at position i of a text.

The(S) == CHOOSE x \in S : TRUE
Latest(S) == The({i \in S \cup {0} : \A j \in S : j <= i})
Ordered(S) == [k \in 1..Cardinality(S) |-> The({i \in S : Cardinality({j \in S : j <= i}) = k})]

Ends(s) == {i \in DOMAIN s : s[i] = "CR" \/ (s[i] = "LF" /\ (i = 1 \/ s[i - 1] # "CR"))}

\* The line in front of i: what follows the last CR or LF.
Line(s, i) == SubSeq(s, Latest({j \in 1..(i - 1) : s[j] \in {"CR", "LF"}}) + 1, i - 1)

Blanks(s, i) == {j \in Ends(s) : j < i /\ Line(s, j) = <<>>}

\* The ends of the lines with this field: since the event before ended, and since ever.
Named(s, i, name) == {j \in Ends(s) : j < i /\ Field(Line(s, j)) = <<name>>}
InBlock(s, i, name) == {j \in Named(s, i, name) : Latest(Blanks(s, i)) < j}

LastContent(s, ends) == IF ends = {} THEN <<>> ELSE Content(Line(s, Latest(ends)))

\* The event that ends at i.
Event(s, i) ==
    LET data == Ordered(InBlock(s, i, "data"))
    IN  [data  |-> [k \in DOMAIN data |-> Content(Line(s, data[k]))],
         event |-> LastContent(s, InBlock(s, i, "event")),
         id    |-> LastContent(s, Named(s, i, "id"))]

\* The empty lines that end an event.
Dispatches(s) == {i \in Ends(s) : Line(s, i) = <<>> /\ InBlock(s, i, "data") # {}}

Events(s) ==
    LET ends == Ordered(Dispatches(s))
    IN  [k \in DOMAIN ends |-> Event(s, ends[k])]

\* However the response is cut into chunks, the consumer gets the events of the
\* text that was read, in order, each once, and none that an end cuts off.
EventsAreRight ==
    /\ IsPrefix(got, Events(received))
    /\ pc = "reading" \/ outcome = "ok" => got = Events(received)

\* No event reaches the consumer after it has aborted or the session has changed,
\* not even the rest of a chunk.  Nor does a result or an error: then the caller learns
\* that it canceled or that the session changed, and only then.  The error that made
\* the session end is the exception.
NothingLate ==
    [][/\ ~Active => got' = got
       /\ (outcome = "none" /\ outcome' \notin {"none", "returned"} /\ pc # "notifying") =>
            IF Active THEN outcome' \notin {"canceled", "changed"} ELSE outcome' = Inactive]_vars

\* At most one request follows the first.  The timeout is for connecting: it ends no
\* stream and no error response.  When the call is over, none of its responses is
\* open, no timer runs and no stream is locked.
Released ==
    /\ fetches <= 2
    /\ timer => pc = "fetching"
    /\ controller /\ ~aborted => pc \in {"fetching", "closing", "done"}
    /\ pc = "done" => body # "open" /\ ~reader /\ ~timer

\* An aborted call ends, unless it is the consumer's turn; and with a timeout a
\* fetch does not last for ever.
EndsAtLast ==
    /\ (aborted /\ pc \notin {"idle", "yielded"}) ~> (pc = "done")
    /\ (pc = "fetching" /\ timeout) ~> (pc # "fetching")
=============================================================================
