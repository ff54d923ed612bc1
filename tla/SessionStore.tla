---------------------------- MODULE SessionStore ----------------------------
(***************************************************************************)
(* sdk/go/gateway/sessionauth: the Store, its Lua script on one Redis      *)
(* master, and the network between them.                                   *)
(*                                                                         *)
(* Redis runs one script at a time and its clock stands still meanwhile,   *)
(* so a script is one action.  A session key and a user's index are keys   *)
(* of their own with deadlines of their own, which Redis enforces: their   *)
(* agreement is what the script has to maintain.                           *)
(*                                                                         *)
(* A client is a goroutine inside a Store method.  The Redis client under  *)
(* it sends the script again when it gets a network error; an Eval it gave *)
(* up on may have run (its reply is lost), may be lost, or may still be on *)
(* its way and run at any later time.                                      *)
(***************************************************************************)
EXTENDS Integers, FiniteSets

CONSTANTS
    Ids, Users, NoUser, NoSession, TTLs,
    Clients,
    LimitOf,      \* [Clients -> Nat \ {0}]: each client's MaxSessionsPerUser
    Slots,        \* the bound on Evals delayed on the way to Redis at a time
    MaxSends,     \* times the Redis client sends one Eval (MaxRetries + 1)
    MaxAttempts,  \* IDs that one Create may draw: 3 in the code
    MaxTime       \* the bound on Redis time

ASSUME StoreConstants ==
    /\ Ids \subseteq Nat
    /\ IsFiniteSet(Ids)
    /\ TTLs \subseteq Nat \ {0}
    /\ Clients # {}
    /\ LimitOf \in [Clients -> Nat \ {0}]
    /\ NoUser \notin Users
    /\ MaxSends \in Nat \ {0}
    /\ MaxAttempts \in Nat \ {0}
    /\ MaxTime \in Nat

VARIABLES
    now,       \* Redis server time in milliseconds
    store,     \* the session keys: [Ids -> Session \cup {NoSession}]
    score,     \* the indexes: score[u][s] is the score of s, 0 when absent
    deadline,  \* when each index expires
    owner,     \* the user for whom an ID was drawn
    call,      \* what each client is doing
    delayed    \* Evals that their client no longer waits for

redis == <<store, score, deadline>>
vars == <<now, store, score, deadline, owner, call, delayed>>

Time == Nat \ {0}
Session == [user : Users, created : Time, expires : Time]

ASSUME StoreNoSession == NoSession \notin Session

NoId == 0
SessionOps == {"lookup", "renew", "revoke"}
UserOps == {"list", "revoke_user"}
Limits == {LimitOf[c] : c \in Clients}

\* The arguments of an Eval; user is empty for the operations on one session.
Request ==
    [op : {"create"}, id : Ids, user : Users, ttl : TTLs, limit : Limits]
      \cup [op : {"renew"}, id : Ids, user : {NoUser}, ttl : TTLs, limit : Limits]
      \cup [op : {"lookup", "revoke"}, id : Ids, user : {NoUser}, ttl : {0},
            limit : Limits]
      \cup [op : UserOps, id : {NoId}, user : Users, ttl : {0}, limit : Limits]

NoRequest == [op |-> "none", id |-> NoId, user |-> NoUser, ttl |-> 0, limit |-> 0]
Replies == {"ok", "missing", "collision", "corrupt"}

Idle == [phase |-> "idle", req |-> NoRequest, reply |-> "none",
         attempt |-> 0, sends |-> 0]

Call == [phase : {"idle", "sent", "replied"}, req : Request \cup {NoRequest},
         reply : Replies \cup {"none"},
         attempt : 0..MaxAttempts, sends : 0..MaxSends]

TypeOK ==
    /\ now \in Time
    /\ store \in [Ids -> Session \cup {NoSession}]
    /\ score \in [Users -> [Ids -> Nat]]
    /\ deadline \in [Users -> Nat]
    /\ owner \in [Ids -> Users \cup {NoUser}]
    /\ call \in [Clients -> Call]
    /\ delayed \in [Slots -> Request \cup {NoRequest}]

Init ==
    /\ now = 1
    /\ store = [s \in Ids |-> NoSession]
    /\ score = [u \in Users |-> [s \in Ids |-> 0]]
    /\ deadline = [u \in Users |-> 0]
    /\ owner = [s \in Ids |-> NoUser]
    /\ call = [c \in Clients |-> Idle]
    /\ delayed = [k \in Slots |-> NoRequest]

-----------------------------------------------------------------------------
(* What the script reads before it writes. *)

\* load(sid) finds a row that it rejects with SESSION_CORRUPT.
Corrupt(s) ==
    /\ store[s] # NoSession
    /\ \/ store[s].created > now
       \/ store[s].expires <= store[s].created

\* Fault: load takes a key that is still there for a session that is valid.
Loads_AnyKey(s) == store[s] # NoSession

\* load(sid) returns the row.  A row that expires at this very millisecond
\* still has its key but is no longer returned.
Loads(s) == store[s] # NoSession /\ now < store[s].expires

Members(u) == {s \in Ids : score[u][s] # 0}
Active(u) == {s \in Members(u) : Loads(s)}

\* Fault: the session that expires first is evicted, not the oldest one.
Older_ByExpiry(u, x, y) ==
    \/ store[x].expires < store[y].expires
    \/ store[x].expires = store[y].expires /\ x < y

\* ZRANGE yields members by score, then by ID.
Older(u, x, y) ==
    \/ score[u][x] < score[u][y]
    \/ score[u][x] = score[u][y] /\ x < y

\* A member of the index contradicts its own session row.
IndexCorrupt(u) ==
    \E s \in Members(u) :
        \/ Corrupt(s)
        \/ (Loads(s) /\ (store[s].user # u \/ store[s].created # score[u][s]))

-----------------------------------------------------------------------------
(* What the script writes.  u's index ends up with the members kept, whose *)
(* keys stay; the keys of all its other members are deleted.               *)

Kept(u, kept, s) == s \in kept \/ s \notin Members(u)

\* PEXPIREAT to the latest expiry of the sessions that remain, or DEL.
SetDeadline(u, kept) ==
    \E d \in {store'[s].expires : s \in kept} \cup {0} :
        /\ \A s \in kept : store'[s].expires <= d
        /\ deadline' = [deadline EXCEPT ![u] = d]

KeepOnly(u, kept) ==
    /\ store' = [s \in Ids |-> IF Kept(u, kept, s) THEN store[s] ELSE NoSession]
    /\ score' = [score EXCEPT ![u] =
                   [s \in Ids |-> IF s \in kept THEN score[u][s] ELSE 0]]
    /\ SetDeadline(u, kept)

\* Fault: one session too many stays.
Retained_OneMore(u, limit, kept) ==
    LET n == Cardinality(Active(u))
    IN  /\ Cardinality(kept) = IF n < limit + 1 THEN n ELSE limit
        /\ \A x \in Active(u) \ kept, y \in kept : Older(u, x, y)

\* while #active >= limit: the oldest active session goes.
Retained(u, limit, kept) ==
    LET n == Cardinality(Active(u))
    IN  /\ Cardinality(kept) = IF n < limit THEN n ELSE limit - 1
        /\ \A x \in Active(u) \ kept, y \in kept : Older(u, x, y)

NewSession(req) == [user |-> req.user, created |-> now, expires |-> now + req.ttl]

WriteNew(req, kept) ==
    LET u == req.user
        s == req.id
    IN  /\ store' = [x \in Ids |->
                       IF x = s THEN NewSession(req)
                       ELSE IF Kept(u, kept, x) THEN store[x] ELSE NoSession]
        /\ score' = [score EXCEPT ![u] =
                       [x \in Ids |-> IF x = s THEN now
                                      ELSE IF x \in kept THEN score[u][x] ELSE 0]]
        /\ SetDeadline(u, kept \cup {s})

RunCreate(req, reply) ==
    /\ req.op = "create"
    /\ \/ /\ store[req.id] # NoSession
          /\ reply = "collision"
          /\ UNCHANGED redis
       \/ /\ store[req.id] = NoSession
          /\ IndexCorrupt(req.user)
          /\ reply = "corrupt"
          /\ UNCHANGED redis
       \/ /\ store[req.id] = NoSession
          /\ ~IndexCorrupt(req.user)
          /\ \E kept \in SUBSET Active(req.user) :
                /\ Retained(req.user, req.limit, kept)
                /\ WriteNew(req, kept)
          /\ reply = "ok"

\* Fault: a renewal leaves the deadline of the index as it was.
RewriteExpiry_SameDeadline(u, s, ttl) ==
    /\ store' = [x \in Ids |->
                   IF x = s THEN [store[x] EXCEPT !.expires = now + ttl]
                   ELSE IF Kept(u, Active(u), x) THEN store[x] ELSE NoSession]
    /\ score' = [score EXCEPT ![u] =
                   [x \in Ids |-> IF x \in Active(u) THEN score[u][x] ELSE 0]]
    /\ UNCHANGED deadline

RewriteExpiry(u, s, ttl) ==
    /\ store' = [x \in Ids |->
                   IF x = s THEN [store[x] EXCEPT !.expires = now + ttl]
                   ELSE IF Kept(u, Active(u), x) THEN store[x] ELSE NoSession]
    /\ score' = [score EXCEPT ![u] =
                   [x \in Ids |-> IF x \in Active(u) THEN score[u][x] ELSE 0]]
    /\ SetDeadline(u, Active(u))

\* lookup, renew and revoke: the target decides whose index is checked.  A
\* target that load does not return ends the script before any clean-up.
RunOnSession(req, reply) ==
    LET s == req.id
        u == store[s].user
    IN  /\ req.op \in SessionOps
        /\ \/ /\ ~Corrupt(s) /\ ~Loads(s)
              /\ reply = "missing"
              /\ UNCHANGED redis
           \/ /\ Corrupt(s) \/ (Loads(s) /\ (IndexCorrupt(u) \/ s \notin Active(u)))
              /\ reply = "corrupt"
              /\ UNCHANGED redis
           \/ /\ ~Corrupt(s) /\ Loads(s) /\ ~IndexCorrupt(u) /\ s \in Active(u)
              /\ \/ req.op = "lookup" /\ KeepOnly(u, Active(u))
                 \/ req.op = "renew" /\ RewriteExpiry(u, s, req.ttl)
                 \/ req.op = "revoke" /\ KeepOnly(u, Active(u) \ {s})
              /\ reply = "ok"

RunOnUser(req, reply) ==
    /\ req.op \in UserOps
    /\ \/ /\ IndexCorrupt(req.user)
          /\ reply = "corrupt"
          /\ UNCHANGED redis
       \/ /\ ~IndexCorrupt(req.user)
          /\ \/ req.op = "list" /\ KeepOnly(req.user, Active(req.user))
             \/ req.op = "revoke_user" /\ KeepOnly(req.user, {})
          /\ reply = "ok"

Script(req, reply) ==
    RunCreate(req, reply) \/ RunOnSession(req, reply) \/ RunOnUser(req, reply)

-----------------------------------------------------------------------------
(* Redis: time, and the Evals that reach it.                               *)

\* Redis removes a key once its deadline is past, not at the deadline.
Tick ==
    /\ now < MaxTime
    /\ now' = now + 1
    /\ store' = [s \in Ids |->
                   IF store[s] # NoSession /\ store[s].expires < now' THEN NoSession
                   ELSE store[s]]
    /\ score' = [u \in Users |->
                   IF deadline[u] < now' THEN [s \in Ids |-> 0] ELSE score[u]]
    /\ UNCHANGED <<deadline, owner, call, delayed>>

\* The script runs while its client waits for the reply.
Execute(c) ==
    /\ call[c].phase = "sent"
    /\ \E reply \in Replies :
          /\ Script(call[c].req, reply)
          /\ call' = [call EXCEPT ![c].phase = "replied", ![c].reply = reply]
    /\ UNCHANGED <<now, owner, delayed>>

\* A delayed Eval runs at last, and nobody reads its reply.
ExecuteDelayed(k) ==
    /\ delayed[k] # NoRequest
    /\ \E reply \in Replies : Script(delayed[k], reply)
    /\ delayed' = [delayed EXCEPT ![k] = NoRequest]
    /\ UNCHANGED <<now, owner, call>>

LoseDelayed(k) ==
    /\ delayed[k] # NoRequest
    /\ delayed' = [delayed EXCEPT ![k] = NoRequest]
    /\ UNCHANGED <<now, store, score, deadline, owner, call>>

-----------------------------------------------------------------------------
(* The Store's methods.                                                    *)

Send(c, req, attempt, sends) ==
    call' = [call EXCEPT ![c] = [phase |-> "sent", req |-> req, reply |-> "none",
                                 attempt |-> attempt, sends |-> sends]]

\* 32 random bytes: an ID that was never drawn before.
DrawAndSend(c, u, ttl, attempt) ==
    \E s \in Ids :
        /\ owner[s] = NoUser
        /\ owner' = [owner EXCEPT ![s] = u]
        /\ Send(c, [op |-> "create", id |-> s, user |-> u, ttl |-> ttl,
                    limit |-> LimitOf[c]], attempt, 1)

Create(c, u, ttl) ==
    /\ call[c].phase = "idle"
    /\ DrawAndSend(c, u, ttl, 1)
    /\ UNCHANGED <<now, store, score, deadline, delayed>>

\* Lookup, Renew and Revoke, on any ID a cookie may still carry.
CallOnSession(c, op, s, ttl) ==
    /\ call[c].phase = "idle"
    /\ op \in SessionOps
    /\ ttl \in IF op = "renew" THEN TTLs ELSE {0}
    /\ Send(c, [op |-> op, id |-> s, user |-> NoUser, ttl |-> ttl,
                limit |-> LimitOf[c]], 1, 1)
    /\ UNCHANGED <<now, store, score, deadline, owner, delayed>>

\* ListByUser and RevokeByUser.
CallOnUser(c, op, u) ==
    /\ call[c].phase = "idle"
    /\ op \in UserOps
    /\ Send(c, [op |-> op, id |-> NoId, user |-> u, ttl |-> 0,
                limit |-> LimitOf[c]], 1, 1)
    /\ UNCHANGED <<now, store, score, deadline, owner, delayed>>

\* A collision makes Create draw another ID, MaxAttempts times at most; any
\* other reply is the method's result.
DrawAgain(c) ==
    /\ call[c].phase = "replied"
    /\ call[c].reply = "collision"
    /\ call[c].attempt < MaxAttempts
    /\ DrawAndSend(c, call[c].req.user, call[c].req.ttl, call[c].attempt + 1)
    /\ UNCHANGED <<now, store, score, deadline, delayed>>

Return(c) ==
    /\ call[c].phase = "replied"
    /\ call[c].reply = "collision" => call[c].attempt = MaxAttempts
    /\ call' = [call EXCEPT ![c] = Idle]
    /\ UNCHANGED <<now, store, score, deadline, owner, delayed>>

\* The connection breaks.  An Eval that has not run is lost or delayed; the
\* reply of one that has run is lost.
BreakConnection(c) ==
    /\ call[c].phase # "idle"
    /\ \/ UNCHANGED delayed
       \/ /\ call[c].phase = "sent"
          /\ \E k \in Slots :
                /\ delayed[k] = NoRequest
                /\ delayed' = [delayed EXCEPT ![k] = call[c].req]
    /\ UNCHANGED <<now, store, score, deadline, owner>>

Resend(c) ==
    /\ BreakConnection(c)
    /\ call[c].sends < MaxSends
    /\ Send(c, call[c].req, call[c].attempt, call[c].sends + 1)

\* The retries are used up, or the caller's context ends: run returns an error.
GiveUp(c) ==
    /\ BreakConnection(c)
    /\ call' = [call EXCEPT ![c] = Idle]

Next ==
    \/ Tick
    \/ \E c \in Clients, u \in Users, ttl \in TTLs : Create(c, u, ttl)
    \/ \E c \in Clients, op \in SessionOps, s \in Ids, ttl \in TTLs \cup {0} :
          CallOnSession(c, op, s, ttl)
    \/ \E c \in Clients, op \in UserOps, u \in Users : CallOnUser(c, op, u)
    \/ \E c \in Clients : Execute(c)
    \/ \E c \in Clients : DrawAgain(c)
    \/ \E c \in Clients : Return(c)
    \/ \E c \in Clients : Resend(c)
    \/ \E c \in Clients : GiveUp(c)
    \/ \E k \in Slots : ExecuteDelayed(k)
    \/ \E k \in Slots : LoseDelayed(k)

Spec == Init /\ [][Next]_vars

-----------------------------------------------------------------------------
(* Properties.                                                             *)

\* A session is valid until, and not at, the millisecond it expires.
Live(s) == store[s] # NoSession /\ now < store[s].expires
LiveOf(u) == {s \in Ids : Live(s) /\ store[s].user = u}

\* The keys and the indexes agree at every moment: a key is indexed under the
\* user its ID was drawn for, with its creation time as score, its row does
\* not lie in the future, and the index outlives the last key it covers; an
\* index holds nobody else's IDs.  Whatever order scripts, expiries and
\* repeated Evals come in, there is nothing for SESSION_CORRUPT to find.
IndexCoherent ==
    /\ \A s \in Ids : store[s] # NoSession =>
          /\ store[s].user = owner[s]
          /\ store[s].created <= now
          /\ store[s].created < store[s].expires
          /\ score[owner[s]][s] = store[s].created
          /\ store[s].expires <= deadline[owner[s]]
    /\ \A u \in Users, s \in Ids : score[u][s] # 0 => owner[s] = u

\* No method ever reports ErrCorruptSession for what the Store itself wrote.
NeverCorrupt == \A c \in Clients : call[c].reply # "corrupt"

\* However many replies are lost and Evals repeated, a user has at most as
\* many live sessions as the most generous configured limit.
SessionLimit ==
    \A u \in Users : \E l \in Limits : Cardinality(LiveOf(u)) <= l

CreateOutstanding(s) ==
    \/ \E c \in Clients : /\ call[c].phase = "sent"
                          /\ call[c].req.op = "create"
                          /\ call[c].req.id = s
    \/ \E k \in Slots : delayed[k].op = "create" /\ delayed[k].id = s

\* Once no copy of its creation is on the way, a session that is not live
\* never becomes live again: no renewal, lookup, list or clean-up revives it.
DeadStaysDead ==
    [][\A s \in Ids : (owner[s] # NoUser /\ ~Live(s) /\ ~CreateOutstanding(s))
                       => ~Live(s)']_vars

\* The session store behind its network is the registry it promises to be.
liveSessions == [s \in Ids |-> IF Live(s) THEN store[s] ELSE NoSession]
Registry == INSTANCE SessionRegistry WITH live <- liveSessions
RefinesRegistry == Registry!RegistrySpec

=============================================================================
