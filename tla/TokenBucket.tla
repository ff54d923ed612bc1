----------------------------- MODULE TokenBucket -----------------------------
(***************************************************************************)
(* sdk/go/gateway/redislimit: one bucket, its Lua script, and the gateways *)
(* that call Allow.                                                        *)
(*                                                                         *)
(* Allow reads the gateway's clock first and then sends the script, which  *)
(* Redis runs later, once more when the Redis client repeats a lost Eval,  *)
(* and not in the order in which the clocks were read.  The bucket's       *)
(* deadline is on Redis' own clock.  A token is Unit units, so that the    *)
(* refill of one tick, RatePerSecond scaled to it, is a natural number.    *)
(***************************************************************************)
EXTENDS Integers, FiniteSets

CONSTANTS
    Clients,   \* calls of Allow that can be under way together
    Skew,      \* [Clients -> 0..MaxSkew]: how far each gateway's clock is ahead
    MaxSkew,
    Burst,     \* the bucket's capacity in tokens
    Rate,      \* units refilled in a tick
    Unit,      \* units in a token
    MinTTL,    \* one second in ticks
    MaxSends,  \* times the Redis client sends one Eval
    MaxCalls,  \* the bound on the calls of each client
    MaxTime    \* the bound on time

ASSUME BucketConstants ==
    /\ MaxSkew \in Nat
    /\ Skew \in [Clients -> 0..MaxSkew]
    /\ {Burst, Rate, Unit, MinTTL, MaxSends} \subseteq Nat \ {0}
    /\ MaxCalls \in Nat /\ MaxTime \in Nat

VARIABLES
    now,       \* real time, which is Redis' time
    bucket,    \* the hash under the key, or NoBucket
    deadline,  \* when the key expires
    call,      \* the calls of Allow
    taken,     \* tokens taken so far
    setback    \* by how much the stamps of executed calls have gone back so far

bucketVars == <<now, bucket, deadline, call, taken, setback>>

NoBucket == [tokens |-> -1, updated |-> 0]
Full == Burst * Unit
LargerOf(a, b) == IF a >= b THEN a ELSE b
SmallerOf(a, b) == IF a <= b THEN a ELSE b
CeilDiv(a, b) == (a + b - 1) \div b

\* New: the time of two complete refills, but at least a second.
TTL == LargerOf(MinTTL, (2 * Full) \div Rate)

\* limiter.go asks for clocks that are reasonably synchronised.  Here: they
\* differ by no more than what remains of a bucket's life after a full refill.
ASSUME ReasonablySynchronised == Full + Rate * MaxSkew <= Rate * TTL

\* seen is the value of <<taken, setback>> when the call was decided.
Idle == [phase |-> "idle", stamp |-> 0, sends |-> 0, retry |-> 0, calls |-> 0,
         seen |-> <<0, 0>>]

BucketInit ==
    /\ now = 1
    /\ bucket = NoBucket
    /\ deadline = 0
    /\ call = [c \in Clients |-> Idle]
    /\ taken = 0
    /\ setback = 0

-----------------------------------------------------------------------------
(* The script *)

\* The tokens at the time of a stamp, before the call takes one.
Refilled(stamp) ==
    IF bucket = NoBucket THEN Full
    ELSE SmallerOf(Full,
                   bucket.tokens + LargerOf(0, stamp - bucket.updated) * Rate)

\* How far a stamp lies behind the one it replaces, or behind the deadline of
\* the bucket that has expired.
BehindBy(stamp) ==
    LargerOf(0, (IF bucket = NoBucket THEN deadline ELSE bucket.updated) - stamp)

\* Fault: the waiting time is rounded down.
RetryAfter_Down(tokens) == LargerOf(1, (Unit - tokens) \div Rate)

RetryAfter(tokens) == CeilDiv(Unit - tokens, Rate)

\* Fault: a denied call does not move updated_at_ms.
RunScript_KeepsTime(c) ==
    LET stamp == call[c].stamp
        tokens == Refilled(stamp)
        allowed == tokens >= Unit
    IN /\ bucket' = [tokens |-> IF allowed THEN tokens - Unit ELSE tokens,
                     updated |-> IF allowed \/ bucket = NoBucket THEN stamp
                                 ELSE bucket.updated]
       /\ deadline' = now + TTL
       /\ taken' = IF allowed THEN taken + 1 ELSE taken
       /\ setback' = setback + BehindBy(stamp)
       /\ call' = [call EXCEPT
                    ![c].phase = IF allowed THEN "allowed" ELSE "denied",
                    ![c].retry = IF allowed THEN 0 ELSE RetryAfter(tokens),
                    ![c].seen = <<taken', setback'>>]

\* tokenBucketScript.  The stamp is stored even when it is older than the one
\* it replaces.
RunScript(c) ==
    LET stamp == call[c].stamp
        tokens == Refilled(stamp)
        allowed == tokens >= Unit
    IN /\ bucket' = [tokens |-> IF allowed THEN tokens - Unit ELSE tokens,
                     updated |-> stamp]
       /\ deadline' = now + TTL
       /\ taken' = IF allowed THEN taken + 1 ELSE taken
       /\ setback' = setback + BehindBy(stamp)
       /\ call' = [call EXCEPT
                    ![c].phase = IF allowed THEN "allowed" ELSE "denied",
                    ![c].retry = IF allowed THEN 0 ELSE RetryAfter(tokens),
                    ![c].seen = <<taken', setback'>>]

-----------------------------------------------------------------------------
(* Allow and the network *)

\* Allow reads the clock.
Allow(c) ==
    /\ call[c].phase \in {"idle", "allowed", "denied", "failed"}
    /\ call[c].calls < MaxCalls
    /\ call' = [call EXCEPT
                 ![c] = [phase |-> "sent", stamp |-> now + Skew[c], sends |-> 1,
                         retry |-> 0, calls |-> call[c].calls + 1,
                         seen |-> <<0, 0>>]]
    /\ UNCHANGED <<now, bucket, deadline, taken, setback>>

Execute(c) ==
    /\ call[c].phase = "sent"
    /\ RunScript(c)
    /\ UNCHANGED now

\* The reply is lost after the script ran: the Redis client repeats the Eval.
Repeat(c) ==
    /\ call[c].phase \in {"allowed", "denied"}
    /\ call[c].sends < MaxSends
    /\ call' = [call EXCEPT ![c].phase = "sent", ![c].retry = 0,
                            ![c].sends = @ + 1]
    /\ UNCHANGED <<now, bucket, deadline, taken, setback>>

\* Allow returns an error, and the gateway answers 503.
GiveUp(c) ==
    /\ call[c].phase = "sent"
    /\ call' = [call EXCEPT ![c].phase = "failed"]
    /\ UNCHANGED <<now, bucket, deadline, taken, setback>>

\* Redis drops the key once its deadline is past, not at the deadline.
Tick ==
    /\ now < MaxTime
    /\ now' = now + 1
    /\ bucket' = IF now' > deadline THEN NoBucket ELSE bucket
    /\ UNCHANGED <<deadline, call, taken, setback>>

BucketNext ==
    \/ \E c \in Clients : Allow(c) \/ Execute(c) \/ Repeat(c) \/ GiveUp(c)
    \/ Tick

BucketSpec == BucketInit /\ [][BucketNext]_bucketVars

-----------------------------------------------------------------------------
(* Properties *)

Earned(ticks) == Full + Rate * ticks

\* However calls overlap, repeat, or find the bucket expired, no more tokens
\* are taken than a full bucket and the refill of the time that has passed,
\* prolonged only by the clock skew and by every setback of updated_at_ms.
TakenIsEarned == taken * Unit <= Earned(now - 1 + MaxSkew + setback)

\* A client that is told to wait is let in after exactly that time, unless
\* another call has taken a token or set the bucket back in between; a
\* millisecond earlier would have been too early.
RetryAfterIsExact ==
    \A c \in Clients :
      (call[c].phase = "denied" /\ call[c].seen = <<taken, setback>>) =>
        /\ Refilled(call[c].stamp + call[c].retry) >= Unit
        /\ bucket.updated = call[c].stamp =>
             Refilled(call[c].stamp + call[c].retry - 1) < Unit

=============================================================================
