------------------------- MODULE SessionStoreProofs -------------------------
(***************************************************************************)
(* What SessionStore guarantees for every set of IDs, users, clients and   *)
(* slots, every limit and lifetime, and every number of repetitions.       *)
(*                                                                         *)
(* IndexCoherent is not inductive alone: a delayed create could index an   *)
(* ID under a user it was not drawn for.  RequestsOwned excludes that.     *)
(***************************************************************************)
EXTENDS SessionStore, FiniteSetTheorems, TLAPS

RedisTypeOK ==
    /\ now \in Time
    /\ store \in [Ids -> Session \cup {NoSession}]
    /\ score \in [Users -> [Ids -> Nat]]
    /\ deadline \in [Users -> Nat]
    /\ owner \in [Ids -> Users \cup {NoUser}]

ClientTypeOK ==
    /\ call \in [Clients -> Call]
    /\ delayed \in [Slots -> Request \cup {NoRequest}]

RequestOwned(req) == req.op = "create" => owner[req.id] = req.user

RequestsOwned ==
    /\ \A c \in Clients : RequestOwned(call[c].req)
    /\ \A k \in Slots : RequestOwned(delayed[k])

CallShape ==
    \A c \in Clients :
        /\ call[c].phase # "idle" => call[c].req \in Request
        /\ call[c].reply = "collision" => call[c].req.op = "create"

RedisOK == RedisTypeOK /\ IndexCoherent
IInv == RedisOK /\ ClientTypeOK /\ CallShape /\ RequestsOwned /\ NeverCorrupt

-----------------------------------------------------------------------------
(* Facts about the script's reads, in a coherent state.                    *)

\* A session row is found in the index of its user, and only there.
LEMMA ActiveIsLive ==
    ASSUME RedisOK, NEW u \in Users
    PROVE  /\ Active(u) = LiveOf(u)
           /\ \A s \in Active(u) : /\ s \in Ids
                                   /\ store[s] \in Session
                                   /\ owner[s] = u
<1> USE StoreNoSession DEF RedisOK, RedisTypeOK
<1>1. \A s \in Active(u) : /\ s \in Ids /\ Live(s)
                           /\ store[s] \in Session
                           /\ owner[s] = u
  BY DEF IndexCoherent, Active, Members, Loads, Live
<1>2. \A s \in Active(u) : s \in LiveOf(u)
  BY <1>1 DEF IndexCoherent, LiveOf, Live
<1>3. ASSUME NEW s \in LiveOf(u)
      PROVE  s \in Active(u)
  <2>1. /\ s \in Ids /\ store[s] # NoSession /\ store[s] \in Session
        /\ store[s].user = u /\ now < store[s].expires
    BY DEF LiveOf, Live
  <2>2. owner[s] = u /\ score[u][s] = store[s].created
    BY <2>1 DEF IndexCoherent
  <2>3. score[u][s] # 0
    BY <2>1, <2>2 DEF Session, Time
  <2>4. QED
    BY <2>1, <2>3 DEF Active, Members, Loads
<1>4. QED
  BY <1>1, <1>2, <1>3

\* The checks that answer SESSION_CORRUPT find nothing.
LEMMA NothingCorrupt ==
    ASSUME RedisOK
    PROVE  /\ \A s \in Ids : ~Corrupt(s)
           /\ \A u \in Users : ~IndexCorrupt(u)
           /\ \A s \in Ids : Loads(s) => s \in Active(store[s].user)
<1> USE StoreNoSession, StoreConstants DEF RedisOK, RedisTypeOK
<1>1. \A s \in Ids : ~Corrupt(s)
  BY DEF IndexCoherent, Corrupt, Session, Time
<1>2. \A u \in Users : ~IndexCorrupt(u)
  BY <1>1 DEF IndexCoherent, IndexCorrupt, Members, Loads, Session, Time
<1>3. \A s \in Ids : Loads(s) => s \in Active(store[s].user)
  BY DEF IndexCoherent, Active, Members, Loads, Session, Time
<1>4. QED
  BY <1>1, <1>2, <1>3

\* A key that a user's index does not hold belongs to another user.
LEMMA OtherOwner ==
    ASSUME RedisOK, NEW u \in Users, NEW x \in Ids, store[x] # NoSession,
           x \notin Members(u)
    PROVE  owner[x] # u /\ owner[x] \in Users
<1>1. store[x] \in Session
  BY DEF RedisOK, RedisTypeOK
<1>2. store[x].user \in Users /\ store[x].created # 0
  BY <1>1 DEF Session, Time
<1>3. store[x].user = owner[x] /\ score[owner[x]][x] = store[x].created
  BY DEF RedisOK, IndexCoherent
<1>4. QED
  BY <1>2, <1>3 DEF Members

-----------------------------------------------------------------------------
(* Facts about the script's writes.                                        *)

\* The new deadline of an index covers every key it keeps.
LEMMA DeadlineCovers ==
    ASSUME RedisTypeOK, NEW u \in Users, NEW kept, SetDeadline(u, kept),
           \A s \in kept : store'[s] \in Session
    PROVE  /\ deadline' \in [Users -> Nat]
           /\ \A s \in kept : store'[s].expires <= deadline'[u]
           /\ \A v \in Users \ {u} : deadline'[v] = deadline[v]
<1>1. PICK d \in {store'[s].expires : s \in kept} \cup {0} :
         /\ \A s \in kept : store'[s].expires <= d
         /\ deadline' = [deadline EXCEPT ![u] = d]
  BY DEF SetDeadline
<1>2. d \in Nat
  BY <1>1 DEF Session, Time
<1>3. QED
  BY <1>1, <1>2 DEF RedisTypeOK

\* A create that keeps some of its user's active sessions (script, op create)
\* leaves keys and indexes in agreement.
LEMMA WriteNewCoherent ==
    ASSUME RedisOK, NEW req \in Request, req.op = "create", RequestOwned(req),
           store[req.id] = NoSession,
           NEW kept \in SUBSET Active(req.user),
           WriteNew(req, kept), UNCHANGED <<now, owner>>
    PROVE  RedisOK'
<1> DEFINE u == req.user
           s == req.id
<1> USE StoreNoSession, StoreConstants DEF RedisOK
<1>1. /\ s \in Ids /\ u \in Users /\ owner[s] = u /\ req.ttl \in Nat \ {0}
      /\ u # NoUser
  BY DEF Request, RequestOwned, SessionOps, UserOps
<1>2. NewSession(req) \in Session
  BY <1>1 DEF NewSession, Session, RedisTypeOK, Time
<1>3. /\ store' \in [Ids -> Session \cup {NoSession}]
      /\ score' \in [Users -> [Ids -> Nat]]
  BY <1>1, <1>2 DEF WriteNew, RedisTypeOK, Time
<1>4. \A x \in kept : x \in Ids /\ store[x] \in Session /\ owner[x] = u /\ x # s
  BY <1>1, ActiveIsLive
<1>5. \A x \in kept \cup {s} : store'[x] \in Session
  BY <1>1, <1>2, <1>4 DEF WriteNew, Kept
<1>6. /\ deadline' \in [Users -> Nat]
      /\ \A x \in kept \cup {s} : store'[x].expires <= deadline'[u]
      /\ \A v \in Users \ {u} : deadline'[v] = deadline[v]
  BY <1>1, <1>5, DeadlineCovers DEF WriteNew
<1>7. RedisTypeOK'
  BY <1>3, <1>6 DEF RedisTypeOK
<1>8. ASSUME NEW x \in Ids, store'[x] # NoSession
      PROVE  /\ store'[x].user = owner'[x]
             /\ store'[x].created <= now'
             /\ store'[x].created < store'[x].expires
             /\ score'[owner'[x]][x] = store'[x].created
             /\ store'[x].expires <= deadline'[owner'[x]]
  <2>1. CASE x = s
    <3>1. store'[x] = NewSession(req) /\ score'[u][x] = now
      BY <1>1, <2>1 DEF WriteNew, RedisTypeOK
    <3>2. store'[x].expires <= deadline'[u]
      BY <1>6, <2>1
    <3>3. QED
      BY <1>1, <2>1, <3>1, <3>2 DEF NewSession, RedisTypeOK, Time
  <2>2. CASE x # s /\ x \in kept
    BY <1>1, <1>4, <1>6, <2>2 DEF WriteNew, Kept, RedisTypeOK, IndexCoherent
  <2>3. CASE x # s /\ x \notin kept
    <3>1. x \notin Members(u) /\ store'[x] = store[x]
      BY <1>8, <2>3 DEF WriteNew, Kept
    <3>2. owner[x] # u /\ owner[x] \in Users
      BY <1>1, <1>8, <3>1, OtherOwner
    <3>3. QED
      <4> DEFINE v == owner[x]
      <4>1. score'[v] = score[v] /\ deadline'[v] = deadline[v] /\ v \in Users
        BY <1>1, <1>6, <3>2 DEF WriteNew, RedisTypeOK
      <4>2. /\ store[x].user = v /\ store[x].created <= now
            /\ store[x].created < store[x].expires
            /\ score[v][x] = store[x].created /\ store[x].expires <= deadline[v]
        BY <1>8, <3>1 DEF IndexCoherent
      <4>3. QED
        BY <3>1, <4>1, <4>2
  <2>4. QED
    BY <2>1, <2>2, <2>3
<1>9. ASSUME NEW v \in Users, NEW x \in Ids, score'[v][x] # 0
      PROVE  owner'[x] = v
  BY <1>1, <1>4, <1>9 DEF WriteNew, RedisTypeOK, IndexCoherent
<1>10. QED
  BY <1>7, <1>8, <1>9 DEF IndexCoherent

\* So does a clean-up or a removal, whatever subset of the active sessions it
\* keeps (lookup, list, revoke, revoke_user).
LEMMA KeepOnlyCoherent ==
    ASSUME RedisOK, NEW u \in Users, NEW kept \in SUBSET Active(u),
           KeepOnly(u, kept), UNCHANGED <<now, owner>>
    PROVE  RedisOK'
<1> USE StoreNoSession, StoreConstants DEF RedisOK
<1>1. \A x \in kept : x \in Ids /\ store[x] \in Session /\ owner[x] = u
  BY ActiveIsLive
<1>2. /\ store' \in [Ids -> Session \cup {NoSession}]
      /\ score' \in [Users -> [Ids -> Nat]]
  BY DEF KeepOnly, RedisTypeOK
<1>3. /\ deadline' \in [Users -> Nat]
      /\ \A x \in kept : store'[x].expires <= deadline'[u]
      /\ \A v \in Users \ {u} : deadline'[v] = deadline[v]
  <2>1. \A x \in kept : store'[x] \in Session
    BY <1>1 DEF KeepOnly, Kept
  <2>2. QED
    BY <2>1, DeadlineCovers DEF KeepOnly
<1>4. RedisTypeOK'
  BY <1>2, <1>3 DEF RedisTypeOK
<1>5. ASSUME NEW x \in Ids, store'[x] # NoSession
      PROVE  /\ store'[x].user = owner'[x]
             /\ store'[x].created <= now'
             /\ store'[x].created < store'[x].expires
             /\ score'[owner'[x]][x] = store'[x].created
             /\ store'[x].expires <= deadline'[owner'[x]]
  <2>1. CASE x \in kept
    BY <1>1, <1>3, <2>1 DEF KeepOnly, Kept, RedisTypeOK, IndexCoherent
  <2>2. CASE x \notin kept
    <3>1. x \notin Members(u) /\ store'[x] = store[x]
      BY <1>5, <2>2 DEF KeepOnly, Kept
    <3>2. owner[x] # u /\ owner[x] \in Users
      BY <1>5, <3>1, OtherOwner
    <3>3. QED
      BY <1>3, <1>5, <3>1, <3>2 DEF KeepOnly, RedisTypeOK, IndexCoherent
  <2>3. QED
    BY <2>1, <2>2
<1>6. ASSUME NEW v \in Users, NEW x \in Ids, score'[v][x] # 0
      PROVE  owner'[x] = v
  BY <1>1, <1>6 DEF KeepOnly, RedisTypeOK, IndexCoherent
<1>7. QED
  BY <1>4, <1>5, <1>6 DEF IndexCoherent

\* So does a renewal, because it moves the deadline of the index as well.
LEMMA RewriteExpiryCoherent ==
    ASSUME RedisOK, NEW u \in Users, NEW s \in Active(u), NEW ttl \in Nat \ {0},
           RewriteExpiry(u, s, ttl), UNCHANGED <<now, owner>>
    PROVE  RedisOK'
<1> DEFINE kept == Active(u)
<1> USE StoreNoSession, StoreConstants DEF RedisOK
<1>1. \A x \in kept : x \in Ids /\ store[x] \in Session /\ owner[x] = u
  BY ActiveIsLive
<1>2. /\ store'[s] = [store[s] EXCEPT !.expires = now + ttl]
      /\ store'[s] \in Session
      /\ store'[s].user = store[s].user
      /\ store'[s].created = store[s].created
      /\ store'[s].expires = now + ttl
  <2>1. /\ s \in Ids /\ store[s] \in Session /\ now \in Nat \ {0}
        /\ now + ttl \in Nat \ {0}
    BY <1>1 DEF RedisTypeOK, Time
  <2>2. store'[s] = [store[s] EXCEPT !.expires = now + ttl]
    BY <2>1 DEF RewriteExpiry
  <2>3. QED
    BY <2>1, <2>2 DEF Session, Time
<1>3. /\ store' \in [Ids -> Session \cup {NoSession}]
      /\ score' \in [Users -> [Ids -> Nat]]
  <2>1. \A x \in Ids : store'[x] \in Session \cup {NoSession}
    BY <1>1, <1>2 DEF RewriteExpiry, RedisTypeOK
  <2>2. QED
    BY <2>1 DEF RewriteExpiry, RedisTypeOK
<1>4. /\ deadline' \in [Users -> Nat]
      /\ \A x \in kept : store'[x].expires <= deadline'[u]
      /\ \A v \in Users \ {u} : deadline'[v] = deadline[v]
  <2>1. \A x \in kept : store'[x] \in Session
    BY <1>1, <1>2 DEF RewriteExpiry, Kept
  <2>2. QED
    BY <2>1, DeadlineCovers DEF RewriteExpiry
<1>5. RedisTypeOK'
  BY <1>3, <1>4 DEF RedisTypeOK
<1>6. ASSUME NEW x \in Ids, store'[x] # NoSession
      PROVE  /\ store'[x].user = owner'[x]
             /\ store'[x].created <= now'
             /\ store'[x].created < store'[x].expires
             /\ score'[owner'[x]][x] = store'[x].created
             /\ store'[x].expires <= deadline'[owner'[x]]
  <2>1. CASE x = s
    <3>1. score'[u][x] = score[u][x]
      BY <1>1, <2>1 DEF RewriteExpiry, RedisTypeOK
    <3>2. /\ store[x].user = u /\ store[x].created <= now
          /\ score[u][x] = store[x].created
      BY <1>1, <2>1 DEF IndexCoherent
    <3>3. now < now + ttl /\ now \in Nat /\ store[x].created \in Nat
      BY <1>1, <2>1 DEF RedisTypeOK, Time, Session
    <3>4. store[x].created < now + ttl
      BY <3>2, <3>3
    <3>5. QED
      BY <1>1, <1>2, <1>4, <2>1, <3>1, <3>2, <3>4
  <2>2. CASE x # s /\ x \in kept
    BY <1>1, <1>4, <2>2 DEF RewriteExpiry, Kept, RedisTypeOK, IndexCoherent
  <2>3. CASE x # s /\ x \notin kept
    <3>1. x \notin Members(u) /\ store'[x] = store[x]
      BY <1>6, <2>3 DEF RewriteExpiry, Kept
    <3>2. owner[x] # u /\ owner[x] \in Users
      BY <1>6, <3>1, OtherOwner
    <3>3. QED
      BY <1>4, <1>6, <3>1, <3>2 DEF RewriteExpiry, RedisTypeOK, IndexCoherent
  <2>4. QED
    BY <2>1, <2>2, <2>3
<1>7. ASSUME NEW v \in Users, NEW x \in Ids, score'[v][x] # 0
      PROVE  owner'[x] = v
  BY <1>1, <1>7 DEF RewriteExpiry, RedisTypeOK, IndexCoherent
<1>8. QED
  BY <1>5, <1>6, <1>7 DEF IndexCoherent

-----------------------------------------------------------------------------
(* A whole script keeps Redis coherent and does not fail.                  *)

\* Any op of the script leaves Redis coherent, and answers anything but
\* SESSION_CORRUPT.
LEMMA ScriptCoherent ==
    ASSUME RedisOK, NEW req \in Request, RequestOwned(req), NEW reply \in Replies,
           Script(req, reply), UNCHANGED <<now, owner>>
    PROVE  /\ RedisOK'
           /\ reply # "corrupt"
           /\ reply = "collision" => req.op = "create"
<1> USE NothingCorrupt
<1>1. CASE /\ UNCHANGED redis
           /\ reply # "corrupt"
           /\ reply = "collision" => req.op = "create"
  BY <1>1 DEF redis, RedisOK, RedisTypeOK, IndexCoherent
<1>2. CASE RunCreate(req, reply)
  <2>1. req.user \in Users
    BY <1>2 DEF RunCreate, Request, SessionOps, UserOps
  <2>2. \/ reply = "collision" /\ UNCHANGED redis
        \/ /\ reply = "ok" /\ store[req.id] = NoSession
           /\ \E kept \in SUBSET Active(req.user) : WriteNew(req, kept)
    BY <1>2, <2>1 DEF RunCreate
  <2>3. CASE reply = "ok" /\ store[req.id] = NoSession
             /\ \E kept \in SUBSET Active(req.user) : WriteNew(req, kept)
    BY <1>2, <2>3, WriteNewCoherent DEF RunCreate
  <2>4. QED
    BY <1>1, <1>2, <2>2, <2>3 DEF RunCreate
<1>3. CASE RunOnSession(req, reply)
  <2> DEFINE s == req.id
             u == store[s].user
  <2>1. s \in Ids /\ (req.op = "renew" => req.ttl \in Nat \ {0})
    BY <1>3, StoreConstants DEF RunOnSession, Request, SessionOps, UserOps
  <2>2. CASE ~Loads(s)
    BY <1>1, <1>3, <2>1, <2>2 DEF RunOnSession
  <2>3. CASE Loads(s)
    <3>1. s \in Active(u) /\ u \in Users
      BY <2>1, <2>3 DEF Loads, RedisOK, RedisTypeOK, Session
    <3>2. /\ reply = "ok"
          /\ \/ KeepOnly(u, Active(u))
             \/ req.op = "renew" /\ RewriteExpiry(u, s, req.ttl)
             \/ KeepOnly(u, Active(u) \ {s})
      BY <1>3, <2>1, <2>3, <3>1 DEF RunOnSession
    <3>3. QED
      BY <2>1, <3>1, <3>2, KeepOnlyCoherent, RewriteExpiryCoherent
  <2>4. QED
    BY <2>2, <2>3
<1>4. CASE RunOnUser(req, reply)
  <2>1. req.user \in Users
    BY <1>4 DEF RunOnUser, Request, SessionOps, UserOps
  <2>2. /\ reply = "ok"
        /\ \E kept \in SUBSET Active(req.user) : KeepOnly(req.user, kept)
    BY <1>4, <2>1 DEF RunOnUser
  <2>3. QED
    BY <2>1, <2>2, KeepOnlyCoherent
<1>5. QED
  BY <1>2, <1>3, <1>4 DEF Script

-----------------------------------------------------------------------------
(* The inductive invariant.                                                *)

\* The steps of the clients and of the network leave Redis alone.
LEMMA SameRedis ==
    ASSUME RedisOK, UNCHANGED <<now, store, score, deadline>>,
           owner' \in [Ids -> Users \cup {NoUser}],
           \A s \in Ids : owner[s] # NoUser => owner'[s] = owner[s]
    PROVE  RedisOK'
<1>1. \A s \in Ids : store[s] # NoSession => owner'[s] = owner[s]
  BY StoreConstants, StoreNoSession DEF RedisOK, RedisTypeOK, IndexCoherent, Session
<1>2. \A u \in Users, s \in Ids : score[u][s] # 0 => owner'[s] = owner[s]
  BY StoreConstants DEF RedisOK, RedisTypeOK, IndexCoherent
<1>3. QED
  BY <1>1, <1>2 DEF RedisOK, RedisTypeOK, IndexCoherent

\* Redis removes an index no earlier than the last key it covers.
LEMMA TickCoherent ==
    ASSUME RedisOK, Tick
    PROVE  RedisOK'
<1> USE StoreNoSession, StoreConstants DEF RedisOK
<1>1. RedisTypeOK'
  BY DEF Tick, RedisTypeOK, Time
<1>2. ASSUME NEW s \in Ids, store'[s] # NoSession
      PROVE  /\ store'[s] = store[s] /\ store[s] # NoSession
             /\ store[s] \in Session /\ owner[s] \in Users
             /\ now < now' /\ now' <= store[s].expires
  BY <1>2 DEF Tick, RedisTypeOK, Session, Time, IndexCoherent
<1>3. ASSUME NEW s \in Ids, store'[s] # NoSession
      PROVE  /\ store'[s].user = owner'[s]
             /\ store'[s].created <= now'
             /\ store'[s].created < store'[s].expires
             /\ score'[owner'[s]][s] = store'[s].created
             /\ store'[s].expires <= deadline'[owner'[s]]
  <2>1. ~(deadline[owner[s]] < now')
    BY <1>1, <1>2, <1>3 DEF IndexCoherent, RedisTypeOK, Session, Time
  <2>2. score'[owner[s]] = score[owner[s]]
    BY <1>2, <1>3, <2>1 DEF Tick, RedisTypeOK
  <2>3. store[s].created <= now /\ store[s].created \in Nat /\ now \in Nat /\ now' \in Nat
    BY <1>1, <1>2, <1>3 DEF IndexCoherent, RedisTypeOK, Session, Time
  <2>4. QED
    BY <1>2, <1>3, <2>2, <2>3 DEF Tick, IndexCoherent
<1>4. ASSUME NEW u \in Users, NEW s \in Ids, score'[u][s] # 0
      PROVE  owner'[s] = u
  BY <1>4 DEF Tick, RedisTypeOK, IndexCoherent
<1>5. QED
  BY <1>1, <1>3, <1>4 DEF IndexCoherent

\* The empty Redis and the idle clients satisfy the invariant.
LEMMA InitInvariant == Init => IInv
<1> SUFFICES ASSUME Init PROVE IInv
  OBVIOUS
<1> USE StoreConstants, StoreNoSession DEF Init
<1>1. RedisTypeOK
  BY DEF RedisTypeOK, Time
<1>2. IndexCoherent
  BY DEF IndexCoherent
<1>3. ClientTypeOK
  BY DEF ClientTypeOK, Call, Idle
<1>4. RequestsOwned /\ NeverCorrupt /\ CallShape
  BY DEF RequestsOwned, RequestOwned, NeverCorrupt, CallShape, Idle, NoRequest
<1>5. QED
  BY <1>1, <1>2, <1>3, <1>4 DEF IInv, RedisOK

\* A request that waits, in a call or in a slot, stays owned.
LEMMA OwnedStays ==
    ASSUME NEW req \in Request \cup {NoRequest}, RequestOwned(req), req.op = "create",
           \A s \in Ids : owner[s] # NoUser => owner'[s] = owner[s]
    PROVE  owner'[req.id] = req.user
<1>1. req.id \in Ids /\ req.user \in Users
  BY DEF Request, NoRequest, UserOps
<1>2. QED
  BY <1>1, StoreConstants DEF RequestOwned

\* What Send leaves behind, whichever method sends.
LEMMA SendOK ==
    ASSUME ClientTypeOK, CallShape, RequestsOwned, NeverCorrupt,
           NEW c \in Clients, NEW req \in Request,
           NEW attempt \in 0..MaxAttempts, NEW sends \in 0..MaxSends,
           Send(c, req, attempt, sends),
           RequestOwned(req)',
           \A s \in Ids : owner[s] # NoUser => owner'[s] = owner[s]
    PROVE  /\ call' \in [Clients -> Call]
           /\ \A d \in Clients : RequestOwned(call[d].req)'
           /\ NeverCorrupt'
           /\ CallShape'
<1>1. call' \in [Clients -> Call]
  BY DEF Send, ClientTypeOK, Call
<1>2. ASSUME NEW d \in Clients PROVE RequestOwned(call[d].req)'
  <2>1. CASE d = c
    BY <2>1 DEF Send, ClientTypeOK, RequestOwned
  <2>2. CASE d # c
    <3>1. call'[d] = call[d] /\ call[d].req \in Request \cup {NoRequest}
      BY <2>2 DEF Send, ClientTypeOK, Call
    <3>2. RequestOwned(call[d].req)
      BY DEF RequestsOwned
    <3>3. QED
      BY <3>1, <3>2, OwnedStays DEF RequestOwned
  <2>3. QED
    BY <2>1, <2>2
<1>3. NeverCorrupt'
  BY DEF NeverCorrupt, Send, ClientTypeOK
<1>4. CallShape'
  BY DEF CallShape, Send, ClientTypeOK
<1>5. QED
  BY <1>1, <1>2, <1>3, <1>4

\* What the end of a call leaves behind.
LEMMA IdleOK ==
    ASSUME ClientTypeOK, CallShape, RequestsOwned, NeverCorrupt, NEW c \in Clients,
           call' = [call EXCEPT ![c] = Idle], owner' = owner
    PROVE  /\ call' \in [Clients -> Call]
           /\ \A d \in Clients : RequestOwned(call[d].req)'
           /\ NeverCorrupt'
           /\ CallShape'
<1>1. Idle \in Call
  BY StoreConstants DEF Idle, Call
<1>2. call' \in [Clients -> Call]
  BY <1>1 DEF ClientTypeOK
<1>3. \A d \in Clients : call'[d] = call[d] \/ call'[d] = Idle
  BY DEF ClientTypeOK
<1>4. \A d \in Clients : RequestOwned(call[d].req)'
  BY <1>3 DEF RequestsOwned, RequestOwned, Idle, NoRequest
<1>5. NeverCorrupt' /\ CallShape'
  BY <1>3 DEF NeverCorrupt, CallShape, Idle
<1>6. QED
  BY <1>2, <1>4, <1>5

\* Every step of the clients, of Redis and of the network keeps the invariant.
LEMMA NextInvariant == IInv /\ [Next]_vars => IInv'
<1> SUFFICES ASSUME IInv, [Next]_vars PROVE IInv'
  OBVIOUS
<1> USE DEF IInv
<1> DEFINE Owners == \A s \in Ids : owner[s] # NoUser => owner'[s] = owner[s]
<1>1. CASE UNCHANGED vars
  BY <1>1 DEF vars, RedisOK, RedisTypeOK, IndexCoherent, ClientTypeOK,
              RequestsOwned, RequestOwned, NeverCorrupt, CallShape
<1>2. CASE Tick
  <2>1. RedisOK'
    BY <1>2, TickCoherent
  <2>2. QED
    BY <1>2, <2>1 DEF Tick, ClientTypeOK, RequestsOwned, RequestOwned, NeverCorrupt,
                       CallShape
<1>3. ASSUME NEW c \in Clients, NEW u \in Users, NEW ttl \in TTLs,
             NEW attempt \in 0..MaxAttempts,
             DrawAndSend(c, u, ttl, attempt),
             UNCHANGED <<now, store, score, deadline, delayed>>
      PROVE  IInv'
  <2>1. PICK s \in Ids :
          /\ owner[s] = NoUser
          /\ owner' = [owner EXCEPT ![s] = u]
          /\ Send(c, [op |-> "create", id |-> s, user |-> u, ttl |-> ttl,
                      limit |-> LimitOf[c]], attempt, 1)
    BY <1>3 DEF DrawAndSend
  <2> DEFINE req == [op |-> "create", id |-> s, user |-> u, ttl |-> ttl,
                     limit |-> LimitOf[c]]
  <2>2. req \in Request
    BY DEF Request, Limits
  <2>3. owner \in [Ids -> Users \cup {NoUser}]
    BY DEF RedisOK, RedisTypeOK
  <2>4. Owners /\ owner' \in [Ids -> Users \cup {NoUser}] /\ owner'[s] = u
    BY <2>1, <2>3
  <2>5. RequestOwned(req)'
    BY <2>4 DEF RequestOwned
  <2>6. /\ call' \in [Clients -> Call]
        /\ \A d \in Clients : RequestOwned(call[d].req)'
        /\ NeverCorrupt' /\ CallShape'
    <3>1. 1 \in 0..MaxSends
      BY StoreConstants
    <3>2. Send(c, req, attempt, 1)
      BY <2>1
    <3> HIDE DEF req
    <3>3. QED
      BY <2>2, <2>4, <2>5, <3>1, <3>2, SendOK
  <2>7. ClientTypeOK'
    BY <1>3, <2>6 DEF ClientTypeOK
  <2>8. \A k \in Slots : RequestOwned(delayed[k])'
    BY <1>3, <2>4, OwnedStays DEF RequestsOwned, RequestOwned, ClientTypeOK
  <2>9. RedisOK'
    BY <1>3, <2>4, SameRedis
  <2>10. QED
    BY <2>6, <2>7, <2>8, <2>9 DEF RequestsOwned
<1>4. ASSUME NEW c \in Clients, NEW u \in Users, NEW ttl \in TTLs, Create(c, u, ttl)
      PROVE  IInv'
  BY <1>3, <1>4, StoreConstants DEF Create
<1>5. ASSUME NEW c \in Clients, NEW req \in Request, req.op # "create",
             Send(c, req, 1, 1), UNCHANGED <<now, store, score, deadline, owner, delayed>>
      PROVE  IInv'
  <2>1. 1 \in 0..MaxAttempts /\ 1 \in 0..MaxSends
    BY StoreConstants
  <2>2. RequestOwned(req)' /\ Owners
    BY <1>5 DEF RequestOwned
  <2>3. /\ call' \in [Clients -> Call]
        /\ \A d \in Clients : RequestOwned(call[d].req)'
        /\ NeverCorrupt' /\ CallShape'
    BY <1>5, <2>1, <2>2, SendOK
  <2>4. RedisOK'
    BY <1>5, SameRedis DEF RedisOK, RedisTypeOK
  <2>5. QED
    BY <1>5, <2>3, <2>4 DEF ClientTypeOK, RequestsOwned, RequestOwned
<1>6. ASSUME NEW c \in Clients, NEW op \in SessionOps, NEW s \in Ids,
             NEW ttl \in TTLs \cup {0}, CallOnSession(c, op, s, ttl)
      PROVE  IInv'
  <2>1. [op |-> op, id |-> s, user |-> NoUser, ttl |-> ttl,
         limit |-> LimitOf[c]] \in Request
    BY <1>6 DEF CallOnSession, Request, SessionOps, Limits
  <2>2. op # "create"
    BY DEF SessionOps
  <2>3. QED
    BY <1>5, <1>6, <2>1, <2>2 DEF CallOnSession
<1>7. ASSUME NEW c \in Clients, NEW op \in UserOps, NEW u \in Users,
             CallOnUser(c, op, u)
      PROVE  IInv'
  <2>1. [op |-> op, id |-> NoId, user |-> u, ttl |-> 0,
         limit |-> LimitOf[c]] \in Request
    BY DEF Request, UserOps, Limits
  <2>2. op # "create"
    BY DEF UserOps
  <2>3. QED
    BY <1>5, <1>7, <2>1, <2>2 DEF CallOnUser
<1>8. ASSUME NEW c \in Clients, Execute(c)
      PROVE  IInv'
  <2>1. PICK reply \in Replies :
          /\ Script(call[c].req, reply)
          /\ call' = [call EXCEPT ![c].phase = "replied", ![c].reply = reply]
    BY <1>8 DEF Execute
  <2>2. call[c].req \in Request /\ RequestOwned(call[c].req)
    <3>1. call[c].req # NoRequest
      BY <2>1 DEF Script, RunCreate, RunOnSession, RunOnUser, NoRequest,
                  SessionOps, UserOps
    <3>2. QED
      BY <3>1 DEF ClientTypeOK, Call, RequestsOwned
  <2>3. RedisOK' /\ reply # "corrupt" /\ (reply = "collision" => call[c].req.op = "create")
    BY <1>8, <2>1, <2>2, ScriptCoherent DEF Execute
  <2>4. call' \in [Clients -> Call] /\ \A d \in Clients : call'[d].req = call[d].req
    BY <2>1, ZenonT(120) DEF ClientTypeOK, Call
  <2>5. NeverCorrupt' /\ CallShape'
    BY <2>1, <2>2, <2>3 DEF NeverCorrupt, CallShape, ClientTypeOK, Call
  <2>6. QED
    BY <1>8, <2>3, <2>4, <2>5 DEF Execute, ClientTypeOK, RequestsOwned, RequestOwned
<1>9. ASSUME NEW k \in Slots, ExecuteDelayed(k)
      PROVE  IInv'
  <2>1. PICK reply \in Replies : Script(delayed[k], reply)
    BY <1>9 DEF ExecuteDelayed
  <2>2. delayed[k] \in Request /\ RequestOwned(delayed[k])
    BY <1>9 DEF ExecuteDelayed, ClientTypeOK, RequestsOwned
  <2>3. RedisOK'
    BY <1>9, <2>1, <2>2, ScriptCoherent DEF ExecuteDelayed
  <2>4. QED
    BY <1>9, <2>3 DEF ExecuteDelayed, ClientTypeOK, RequestsOwned, RequestOwned,
                      NeverCorrupt, CallShape, NoRequest
<1>10. ASSUME NEW k \in Slots, LoseDelayed(k)
       PROVE  IInv'
  <2>1. RedisOK'
    BY <1>10, SameRedis DEF LoseDelayed, RedisOK, RedisTypeOK
  <2>2. QED
    BY <1>10, <2>1 DEF LoseDelayed, ClientTypeOK, RequestsOwned, RequestOwned,
                       NeverCorrupt, CallShape, NoRequest
<1>11. ASSUME NEW c \in Clients, DrawAgain(c)
       PROVE  IInv'
  <2>1. call[c].req.user \in Users /\ call[c].req.ttl \in TTLs
    BY <1>11 DEF DrawAgain, CallShape, Request, UserOps
  <2>2. call[c].attempt + 1 \in 0..MaxAttempts
    BY <1>11, StoreConstants DEF DrawAgain, ClientTypeOK, Call
  <2>3. QED
    BY <1>3, <1>11, <2>1, <2>2 DEF DrawAgain
<1>12. ASSUME NEW c \in Clients, Return(c)
       PROVE  IInv'
  <2>1. RedisOK'
    BY <1>12, SameRedis DEF Return, RedisOK, RedisTypeOK
  <2>2. /\ call' = [call EXCEPT ![c] = Idle]
        /\ UNCHANGED <<owner, delayed>>
    BY <1>12 DEF Return
  <2>3. QED
    BY <2>1, <2>2, IdleOK DEF ClientTypeOK, RequestsOwned, RequestOwned
<1>13. ASSUME NEW c \in Clients, BreakConnection(c)
       PROVE  /\ RedisOK'
              /\ delayed' \in [Slots -> Request \cup {NoRequest}]
              /\ \A k \in Slots : RequestOwned(delayed[k])'
  <2>1. RedisOK'
    BY <1>13, SameRedis DEF BreakConnection, RedisOK, RedisTypeOK
  <2>2. call[c].req \in Request \cup {NoRequest}
    BY DEF ClientTypeOK, Call
  <2>3. QED
    BY <1>13, <2>1, <2>2 DEF BreakConnection, ClientTypeOK, RequestsOwned, RequestOwned
<1>14. ASSUME NEW c \in Clients, Resend(c)
       PROVE  IInv'
  <2>1. call[c].req \in Request
    BY <1>14 DEF Resend, BreakConnection, CallShape
  <2>2. call[c].attempt \in 0..MaxAttempts /\ call[c].sends + 1 \in 0..MaxSends
    BY <1>14, StoreConstants DEF Resend, ClientTypeOK, Call
  <2>3. RequestOwned(call[c].req) /\ UNCHANGED <<now, store, score, deadline, owner>>
    BY <1>14 DEF Resend, BreakConnection, RequestsOwned
  <2> DEFINE req == call[c].req
  <2>4. /\ call' \in [Clients -> Call]
        /\ \A d \in Clients : RequestOwned(call[d].req)'
        /\ NeverCorrupt' /\ CallShape'
    <3>1. PICK r \in Request : r = call[c].req
      BY <2>1
    <3>2. Send(c, r, call[c].attempt, call[c].sends + 1)
      BY <1>14, <3>1 DEF Resend
    <3>3. RequestOwned(r)'
      BY <2>3, <3>1 DEF RequestOwned
    <3>4. QED
      BY <2>2, <2>3, <3>2, <3>3, SendOK
  <2>5. /\ RedisOK'
        /\ delayed' \in [Slots -> Request \cup {NoRequest}]
        /\ \A k \in Slots : RequestOwned(delayed[k])'
    BY <1>13, <1>14 DEF Resend
  <2>6. QED
    BY <2>4, <2>5 DEF ClientTypeOK, RequestsOwned
<1>15. ASSUME NEW c \in Clients, GiveUp(c)
       PROVE  IInv'
  <2>1. /\ RedisOK'
        /\ delayed' \in [Slots -> Request \cup {NoRequest}]
        /\ \A k \in Slots : RequestOwned(delayed[k])'
    BY <1>13, <1>15 DEF GiveUp
  <2>2. call' = [call EXCEPT ![c] = Idle] /\ owner' = owner
    BY <1>15 DEF GiveUp, BreakConnection
  <2>3. QED
    BY <2>1, <2>2, IdleOK DEF ClientTypeOK, RequestsOwned
<1>16. QED
  BY <1>1, <1>2, <1>4, <1>6, <1>7, <1>8, <1>9, <1>10, <1>11, <1>12, <1>14, <1>15 DEF Next

\* The inductive invariant holds in every reachable state: the keys, the indexes,
\* their deadlines and the requests under way always fit together.
THEOREM Invariance == Spec => []IInv
BY InitInvariant, NextInvariant, PTL DEF Spec

\* Every variable keeps its type; in particular Create never draws more IDs
\* than MaxAttempts.
THEOREM TypeCorrect == Spec => []TypeOK
<1>1. IInv => TypeOK
  BY DEF IInv, RedisOK, RedisTypeOK, ClientTypeOK, TypeOK
<1>2. QED
  BY <1>1, Invariance, PTL

\* In every reachable state the indexes agree with the session keys, and no
\* method answers ErrCorruptSession for data the Store wrote.
THEOREM IndexesCoverKeys == Spec => [](IndexCoherent /\ NeverCorrupt)
<1>1. IInv => IndexCoherent /\ NeverCorrupt
  BY DEF IInv, RedisOK
<1>2. QED
  BY <1>1, Invariance, PTL

-----------------------------------------------------------------------------
(* What each kind of step does to the sessions that are live.              *)

\* What a create does to the live sessions: its own appears, those it does not
\* keep disappear.
LEMMA WriteNewLive ==
    ASSUME RedisOK, NEW req \in Request, req.op = "create", RequestOwned(req),
           store[req.id] = NoSession, NEW kept \in SUBSET Active(req.user),
           WriteNew(req, kept), UNCHANGED <<now, owner>>,
           NEW x \in Ids
    PROVE  liveSessions'[x] =
             IF x = req.id THEN NewSession(req)
             ELSE IF x \in LiveOf(req.user) \ kept THEN NoSession
             ELSE liveSessions[x]
<1> DEFINE u == req.user
           s == req.id
<1> USE StoreNoSession DEF RedisOK
<1>1. s \in Ids /\ u \in Users /\ req.ttl \in Nat \ {0}
  BY StoreConstants DEF Request, SessionOps, UserOps
<1>2. Active(u) = LiveOf(u)
  BY <1>1, ActiveIsLive
<1>3. liveSessions'[x] = IF store'[x] # NoSession /\ now < store'[x].expires
                         THEN store'[x] ELSE NoSession
  BY DEF liveSessions, Live
<1>4. CASE x = s
  <2>1. store'[x] = NewSession(req) /\ NewSession(req).expires = now + req.ttl
    BY <1>1, <1>4 DEF WriteNew, NewSession
  <2>2. now < now + req.ttl
    BY <1>1 DEF RedisTypeOK, Time
  <2>3. NewSession(req) \in Session
    BY <1>1, <2>2 DEF NewSession, Session, RedisTypeOK, Time
  <2>4. QED
    BY <1>3, <1>4, <2>1, <2>2, <2>3
<1>5. CASE x # s /\ x \in LiveOf(u) \ kept
  <2>1. x \in Members(u)
    BY <1>2, <1>5 DEF Active
  <2>2. store'[x] = NoSession
    BY <1>5, <2>1 DEF WriteNew, Kept
  <2>3. QED
    BY <1>3, <1>5, <2>2
<1>6. CASE x # s /\ x \notin LiveOf(u) \ kept
  <2>1. CASE Kept(u, kept, x)
    BY <1>3, <1>6, <2>1 DEF WriteNew, liveSessions, Live
  <2>2. CASE ~Kept(u, kept, x)
    <3>1. x \in Members(u) /\ x \notin Active(u)
      BY <1>2, <1>6, <2>2 DEF Kept
    <3>2. ~Live(x)
      BY <3>1 DEF Active, Loads, Live
    <3>3. store'[x] = NoSession
      BY <1>6, <2>2 DEF WriteNew
    <3>4. QED
      BY <1>3, <1>6, <3>2, <3>3 DEF liveSessions
  <2>3. QED
    BY <2>1, <2>2
<1>7. QED
  BY <1>4, <1>5, <1>6

\* What a clean-up or a removal does to them: those it does not keep disappear.
LEMMA KeepOnlyLive ==
    ASSUME RedisOK, NEW u \in Users, NEW kept \in SUBSET Active(u),
           KeepOnly(u, kept), UNCHANGED <<now, owner>>, NEW x \in Ids
    PROVE  liveSessions'[x] =
             IF x \in LiveOf(u) \ kept THEN NoSession ELSE liveSessions[x]
<1>1. Active(u) = LiveOf(u)
  BY ActiveIsLive
<1>2. liveSessions'[x] = IF store'[x] # NoSession /\ now < store'[x].expires
                         THEN store'[x] ELSE NoSession
  BY DEF liveSessions, Live
<1>3. CASE Kept(u, kept, x)
  <2>1. x \notin LiveOf(u) \ kept
    BY <1>1, <1>3 DEF Kept, Active
  <2>2. QED
    BY <1>2, <1>3, <2>1 DEF KeepOnly, liveSessions, Live
<1>4. CASE ~Kept(u, kept, x)
  <2>1. store'[x] = NoSession
    BY <1>4 DEF KeepOnly
  <2>2. x \in LiveOf(u) \/ ~Live(x)
    BY <1>1, <1>4 DEF Kept, Active, Loads, Live
  <2>3. x \notin kept
    BY <1>4 DEF Kept
  <2>4. QED
    BY <1>2, <2>1, <2>2, <2>3 DEF liveSessions
<1>5. QED
  BY <1>3, <1>4

\* What a renewal does to them: one of them changes its expiry.
LEMMA RewriteExpiryLive ==
    ASSUME RedisOK, NEW u \in Users, NEW s \in Active(u), NEW ttl \in Nat \ {0},
           RewriteExpiry(u, s, ttl), UNCHANGED <<now, owner>>, NEW x \in Ids
    PROVE  liveSessions'[x] =
             IF x = s THEN [store[x] EXCEPT !.expires = now + ttl] ELSE liveSessions[x]
<1> USE StoreNoSession DEF RedisOK
<1>1. Active(u) = LiveOf(u) /\ s \in Ids /\ store[s] \in Session
  BY ActiveIsLive
<1>2. liveSessions'[x] = IF store'[x] # NoSession /\ now < store'[x].expires
                         THEN store'[x] ELSE NoSession
  BY DEF liveSessions, Live
<1>3. CASE x = s
  <2>1. store'[x] = [store[x] EXCEPT !.expires = now + ttl]
    BY <1>1, <1>3 DEF RewriteExpiry
  <2>2. now \in Nat \ {0} /\ now < now + ttl /\ now + ttl \in Nat \ {0}
    BY DEF RedisTypeOK, Time
  <2>3. store'[x] \in Session /\ store'[x].expires = now + ttl
    BY <1>1, <1>3, <2>1, <2>2 DEF Session, Time
  <2>4. QED
    BY <1>2, <1>3, <2>1, <2>2, <2>3
<1>4. CASE x # s /\ Kept(u, Active(u), x)
  BY <1>2, <1>4 DEF RewriteExpiry, liveSessions, Live
<1>5. CASE x # s /\ ~Kept(u, Active(u), x)
  <2>1. store'[x] = NoSession
    BY <1>5 DEF RewriteExpiry
  <2>2. ~Live(x)
    BY <1>5 DEF Kept, Active, Loads, Live
  <2>3. QED
    BY <1>2, <1>5, <2>1, <2>2 DEF liveSessions
<1>6. QED
  BY <1>3, <1>4, <1>5

\* A script either adds the session it creates, within the limit, or leaves at
\* most the sessions that were live, each with its user.
Shrinks(req) ==
    \A x \in Ids : liveSessions'[x] # NoSession =>
        /\ liveSessions[x] # NoSession
        /\ liveSessions'[x].user = liveSessions[x].user

Adds(req) ==
    /\ req.op = "create"
    /\ \E kept \in SUBSET LiveOf(req.user) :
          /\ Retained(req.user, req.limit, kept)
          /\ \A x \in Ids :
                liveSessions'[x] = IF x = req.id THEN NewSession(req)
                                   ELSE IF x \in LiveOf(req.user) \ kept THEN NoSession
                                   ELSE liveSessions[x]

\* Every run of the script either adds one live session of its user or only
\* removes and renews live sessions.
LEMMA ScriptLive ==
    ASSUME RedisOK, NEW req \in Request, RequestOwned(req), NEW reply \in Replies,
           Script(req, reply), UNCHANGED <<now, owner>>
    PROVE  Shrinks(req) \/ Adds(req)
<1> USE NothingCorrupt
<1>1. CASE UNCHANGED redis
  BY <1>1 DEF redis, Shrinks, liveSessions, Live
<1>2. ASSUME NEW u \in Users, NEW kept \in SUBSET Active(u), KeepOnly(u, kept)
      PROVE  Shrinks(req)
  <2>1. \A x \in Ids : liveSessions'[x] =
           IF x \in LiveOf(u) \ kept THEN NoSession ELSE liveSessions[x]
    BY <1>2, KeepOnlyLive
  <2>2. QED
    BY <2>1 DEF Shrinks
<1>3. CASE RunCreate(req, reply)
  <2>1. req.user \in Users
    BY <1>3 DEF RunCreate, Request, SessionOps, UserOps
  <2>2. CASE store[req.id] = NoSession
    <3>1. PICK kept \in SUBSET Active(req.user) :
            Retained(req.user, req.limit, kept) /\ WriteNew(req, kept)
      BY <1>3, <2>1, <2>2 DEF RunCreate
    <3>2. kept \in SUBSET LiveOf(req.user)
      BY <2>1, ActiveIsLive
    <3>3. \A x \in Ids :
             liveSessions'[x] = IF x = req.id THEN NewSession(req)
                                ELSE IF x \in LiveOf(req.user) \ kept THEN NoSession
                                ELSE liveSessions[x]
      BY <1>3, <2>2, <3>1, WriteNewLive DEF RunCreate
    <3>4. QED
      BY <1>3, <3>1, <3>2, <3>3 DEF Adds, RunCreate
  <2>3. CASE store[req.id] # NoSession
    BY <1>1, <1>3, <2>3 DEF RunCreate
  <2>4. QED
    BY <2>2, <2>3
<1>4. CASE RunOnSession(req, reply)
  <2> DEFINE s == req.id
             u == store[s].user
  <2>1. s \in Ids /\ (req.op = "renew" => req.ttl \in Nat \ {0})
    BY <1>4, StoreConstants DEF RunOnSession, Request, SessionOps, UserOps
  <2>2. CASE ~Loads(s)
    BY <1>1, <1>4, <2>1, <2>2 DEF RunOnSession
  <2>3. CASE Loads(s)
    <3>1. s \in Active(u) /\ u \in Users
      BY <2>1, <2>3 DEF Loads, RedisOK, RedisTypeOK, Session
    <3>2. \/ KeepOnly(u, Active(u))
          \/ req.op = "renew" /\ RewriteExpiry(u, s, req.ttl)
          \/ KeepOnly(u, Active(u) \ {s})
      BY <1>4, <2>1, <2>3, <3>1 DEF RunOnSession
    <3>3. CASE req.op = "renew" /\ RewriteExpiry(u, s, req.ttl)
      <4>1. \A x \in Ids : liveSessions'[x] =
              IF x = s THEN [store[x] EXCEPT !.expires = now + req.ttl] ELSE liveSessions[x]
        BY <2>1, <3>1, <3>3, RewriteExpiryLive
      <4>2. liveSessions[s] = store[s] /\ store[s] \in Session /\ store[s] # NoSession
        BY <2>1, <2>3 DEF Loads, liveSessions, Live, RedisOK, RedisTypeOK
      <4>3. QED
        BY <2>1, <4>1, <4>2, ZenonT(120) DEF Shrinks, Session
    <3>4. QED
      BY <1>2, <3>1, <3>2, <3>3
  <2>4. QED
    BY <2>2, <2>3
<1>5. CASE RunOnUser(req, reply)
  <2>1. req.user \in Users
    BY <1>5 DEF RunOnUser, Request, SessionOps, UserOps
  <2>2. \E kept \in SUBSET Active(req.user) : KeepOnly(req.user, kept)
    BY <1>5, <2>1 DEF RunOnUser
  <2>3. QED
    BY <1>2, <2>1, <2>2
<1>6. QED
  BY <1>3, <1>4, <1>5 DEF Script

\* Every step either runs one outstanding script or lets the live sessions shrink.
RunsScript(req) ==
    /\ req \in Request
    /\ RequestOwned(req)
    /\ \E reply \in Replies : Script(req, reply)
    /\ UNCHANGED <<now, owner>>
    /\ \/ \E c \in Clients : call[c].phase = "sent" /\ call[c].req = req
       \/ \E k \in Slots : delayed[k] = req

\* A step runs the script for an outstanding request, or live sessions change in
\* no other way than by expiring.
LEMMA StepKinds ==
    ASSUME IInv, [Next]_vars
    PROVE  \/ \E req \in Request : RunsScript(req)
           \/ \A x \in Ids : liveSessions'[x] \in {liveSessions[x], NoSession}
<1> USE DEF IInv
<1>1. ASSUME NEW c \in Clients, Execute(c)
      PROVE  RunsScript(call[c].req)
  BY <1>1 DEF Execute, RunsScript, CallShape, RequestsOwned
<1>2. ASSUME NEW k \in Slots, ExecuteDelayed(k)
      PROVE  RunsScript(delayed[k])
  BY <1>2 DEF ExecuteDelayed, RunsScript, ClientTypeOK, RequestsOwned
<1>3. CASE Tick
  <2>1. now' = now + 1 /\ now \in Nat
    BY <1>3 DEF Tick, RedisOK, RedisTypeOK, Time
  <2>2. ASSUME NEW x \in Ids
        PROVE  liveSessions'[x] \in {liveSessions[x], NoSession}
    <3>1. CASE store'[x] = store[x]
      <4>1. store[x] = NoSession \/ store[x].expires \in Nat
        BY DEF RedisOK, RedisTypeOK, Session, Time
      <4>2. QED
        BY <2>1, <3>1, <4>1 DEF liveSessions, Live
    <3>2. CASE store'[x] = NoSession
      BY <3>2 DEF liveSessions, Live
    <3>3. QED
      BY <1>3, <3>1, <3>2 DEF Tick
  <2>3. QED
    BY <2>2
<1>4. CASE UNCHANGED <<now, store>>
  BY <1>4 DEF liveSessions, Live
<1>5. ASSUME Next, ~Tick, \A c \in Clients : ~Execute(c),
             \A k \in Slots : ~ExecuteDelayed(k)
      PROVE  UNCHANGED <<now, store>>
  BY <1>5 DEF Next, Create, CallOnSession, CallOnUser, DrawAgain, Return, Resend, GiveUp,
              BreakConnection, LoseDelayed
<1>6. CASE UNCHANGED vars
  BY <1>4, <1>6 DEF vars
<1>7. QED
  BY <1>1, <1>2, <1>3, <1>4, <1>5, <1>6 DEF RunsScript

-----------------------------------------------------------------------------

\* A dead session whose creation is no longer on the way stays dead: only the
\* script of Create makes a session live, and only under its own ID.
THEOREM DeadSessionsStayDead == Spec => DeadStaysDead
<1> DEFINE Dead(s) == owner[s] # NoUser /\ ~Live(s) /\ ~CreateOutstanding(s)
<1>1. IInv /\ [Next]_vars => [\A s \in Ids : Dead(s) => ~Live(s)']_vars
  <2> SUFFICES ASSUME IInv, [Next]_vars, NEW s \in Ids, Dead(s)
               PROVE  ~Live(s)'
    OBVIOUS
  <2>1. /\ liveSessions[s] # NoSession <=> Live(s)
        /\ liveSessions'[s] # NoSession <=> Live(s)'
    BY DEF liveSessions, Live
  <2>2. CASE \A x \in Ids : liveSessions'[x] \in {liveSessions[x], NoSession}
    BY <2>1, <2>2
  <2>3. ASSUME NEW req \in Request, RunsScript(req)
        PROVE  ~Live(s)'
    <3>1. Shrinks(req) \/ Adds(req)
      BY <2>3, ScriptLive DEF RunsScript, IInv
    <3>2. ~(req.op = "create" /\ req.id = s)
      BY <2>3 DEF RunsScript, CreateOutstanding
    <3>3. QED
      BY <2>1, <3>1, <3>2 DEF Shrinks, Adds
  <2>4. QED
    BY <2>2, <2>3, StepKinds
<1>2. QED
  BY <1>1, Invariance, PTL DEF Spec, DeadStaysDead

\* The bound on a user's sessions survives every step: what a create retains is
\* one below its own limit.
LEMMA AddsWithinLimit ==
    ASSUME IInv, NEW req \in Request, Adds(req), UNCHANGED now, RequestOwned(req)
    PROVE  Cardinality(LiveOf(req.user)') <= req.limit
<1> DEFINE u == req.user
<1>1. PICK kept \in SUBSET LiveOf(u) :
         /\ Retained(u, req.limit, kept)
         /\ \A x \in Ids :
               liveSessions'[x] = IF x = req.id THEN NewSession(req)
                                  ELSE IF x \in LiveOf(u) \ kept THEN NoSession
                                  ELSE liveSessions[x]
  BY DEF Adds
<1>2. u \in Users /\ req.limit \in Nat \ {0}
  BY StoreConstants DEF Adds, Request, Limits, SessionOps, UserOps
<1>3. /\ IsFiniteSet(kept) /\ IsFiniteSet(kept \cup {req.id})
      /\ IsFiniteSet(Active(u))
  <2>1. kept \subseteq Ids /\ Active(u) \subseteq Ids /\ IsFiniteSet(Ids)
    BY StoreConstants DEF LiveOf, Active, Members
  <2>2. IsFiniteSet(kept) /\ IsFiniteSet(Active(u))
    BY <2>1, FS_Subset
  <2>3. QED
    BY <2>2, FS_AddElement
<1>4. Cardinality(kept) <= req.limit - 1 /\ Cardinality(kept) \in Nat
  <2>1. Cardinality(Active(u)) \in Nat /\ Cardinality(kept) \in Nat
    BY <1>3, FS_CardinalityType
  <2>2. Cardinality(kept) = IF Cardinality(Active(u)) < req.limit
                            THEN Cardinality(Active(u)) ELSE req.limit - 1
    BY <1>1 DEF Retained
  <2>3. QED
    BY <1>2, <2>1, <2>2
<1>5. LiveOf(u)' \subseteq kept \cup {req.id}
  <2> SUFFICES ASSUME NEW x \in LiveOf(u)', x # req.id
               PROVE  x \in kept
    OBVIOUS
  <2>1. /\ x \in Ids /\ liveSessions'[x] # NoSession
        /\ liveSessions'[x].user = u
    BY DEF LiveOf, Live, liveSessions
  <2>2. liveSessions[x] = liveSessions'[x] /\ x \notin LiveOf(u) \ kept
    BY <1>1, <2>1
  <2>3. x \in LiveOf(u)
    BY <2>1, <2>2 DEF LiveOf, Live, liveSessions
  <2>4. QED
    BY <2>2, <2>3
<1>6. Cardinality(LiveOf(u)') <= Cardinality(kept \cup {req.id})
  BY <1>3, <1>5, FS_Subset
<1>7. Cardinality(kept \cup {req.id}) <= Cardinality(kept) + 1
  BY <1>3, <1>4, FS_AddElement
<1>8. Cardinality(LiveOf(u)') \in Nat /\ Cardinality(kept \cup {req.id}) \in Nat
  <2>1. IsFiniteSet(LiveOf(u)')
    BY <1>3, <1>5, FS_Subset
  <2>2. QED
    BY <1>3, <2>1, FS_CardinalityType
<1>9. QED
  BY <1>2, <1>4, <1>6, <1>7, <1>8

\* A user whose live sessions only shrink stays within every bound.
LEMMA FewerWithinLimit ==
    ASSUME NEW u, LiveOf(u)' \subseteq LiveOf(u), NEW l \in Nat,
           Cardinality(LiveOf(u)) <= l
    PROVE  Cardinality(LiveOf(u)') <= l
<1>1. IsFiniteSet(LiveOf(u))
  BY StoreConstants, FS_Subset DEF LiveOf
<1>2. /\ IsFiniteSet(LiveOf(u)')
      /\ Cardinality(LiveOf(u)') <= Cardinality(LiveOf(u))
  BY <1>1, FS_Subset
<1>3. Cardinality(LiveOf(u)') \in Nat /\ Cardinality(LiveOf(u)) \in Nat
  BY <1>1, <1>2, FS_CardinalityType
<1>4. QED
  BY <1>2, <1>3

\* A user never has more live sessions than the most generous limit any client
\* is configured with, whatever is lost, delayed or repeated.
THEOREM SessionsWithinLimit == Spec => []SessionLimit
<1> USE DEF SessionLimit
<1>1. Init => SessionLimit
  <2> SUFFICES ASSUME Init, NEW u \in Users PROVE \E l \in Limits : Cardinality(LiveOf(u)) <= l
    OBVIOUS
  <2>1. LiveOf(u) = {}
    BY DEF Init, LiveOf, Live
  <2>2. PICK l \in Limits : l \in Nat
    BY StoreConstants DEF Limits
  <2>3. QED
    BY <2>1, <2>2, FS_EmptySet
<1>2. SessionLimit /\ IInv /\ [Next]_vars => SessionLimit'
  <2> SUFFICES ASSUME SessionLimit, IInv, [Next]_vars, NEW u \in Users
               PROVE  (\E l \in Limits : Cardinality(LiveOf(u)) <= l)'
    OBVIOUS
  <2>1. PICK l \in Limits : Cardinality(LiveOf(u)) <= l
    OBVIOUS
  <2>2. l \in Nat
    BY StoreConstants DEF Limits
  <2>3. \A x : /\ x \in LiveOf(u) <=> /\ x \in Ids /\ liveSessions[x] # NoSession
                                       /\ liveSessions[x].user = u
               /\ x \in LiveOf(u)' <=> /\ x \in Ids /\ liveSessions'[x] # NoSession
                                        /\ liveSessions'[x].user = u
    BY DEF LiveOf, Live, liveSessions
  <2>4. CASE LiveOf(u)' \subseteq LiveOf(u)
    BY <2>1, <2>2, <2>4, FewerWithinLimit
  <2>5. CASE \A x \in Ids : liveSessions'[x] \in {liveSessions[x], NoSession}
    BY <2>3, <2>4, <2>5
  <2>6. ASSUME NEW req \in Request, RunsScript(req)
        PROVE  \E m \in Limits : Cardinality(LiveOf(u)') <= m
    <3>1. Shrinks(req) \/ Adds(req)
      BY <2>6, ScriptLive DEF RunsScript, IInv
    <3>2. CASE Shrinks(req)
      BY <2>3, <2>4, <3>2 DEF Shrinks
    <3>3. CASE Adds(req) /\ u = req.user
      <4>1. Cardinality(LiveOf(u)') <= req.limit
        BY <2>6, <3>3, AddsWithinLimit DEF RunsScript
      <4>2. req.limit \in Limits
        BY DEF Request
      <4>3. QED
        BY <4>1, <4>2
    <3>4. CASE Adds(req) /\ u # req.user
      <4>1. NewSession(req).user # u
        BY <3>4 DEF NewSession
      <4>2. LiveOf(u)' \subseteq LiveOf(u)
        BY <2>3, <3>4, <4>1 DEF Adds
      <4>3. QED
        BY <2>4, <4>2
    <3>5. QED
      BY <3>1, <3>2, <3>3, <3>4
  <2>7. QED
    BY <2>5, <2>6, StepKinds
<1>3. QED
  BY <1>1, <1>2, Invariance, PTL DEF Spec

-----------------------------------------------------------------------------
(* The store implements the registry.                                      *)

\* The registry sees the sessions that load would return.
LEMMA RegistryView ==
    ASSUME RedisOK
    PROVE  /\ liveSessions \in [Ids -> Session \cup {NoSession}]
           /\ \A u \in Users : Registry!LiveOf(u) = Active(u)
           /\ \A x \in Ids : Loads(x) => liveSessions[x] = store[x]
           /\ \A u \in Users : \A x, y \in Active(u) :
                 Older(u, x, y) => Registry!Before(x, y)
<1>1. liveSessions \in [Ids -> Session \cup {NoSession}]
  BY DEF liveSessions, RedisOK, RedisTypeOK
<1>2. \A u \in Users : Registry!LiveOf(u) = Active(u)
  BY ActiveIsLive DEF Registry!LiveOf, LiveOf, liveSessions, Live
<1>3. \A x \in Ids : Loads(x) => liveSessions[x] = store[x]
  BY DEF liveSessions, Live, Loads
<1>4. ASSUME NEW u \in Users, NEW x \in Active(u)
      PROVE  liveSessions[x].created = score[u][x]
  <2>1. x \in Ids /\ Loads(x) /\ owner[x] = u
    BY ActiveIsLive DEF Active, Members
  <2>2. store[x].created = score[u][x]
    BY <2>1 DEF RedisOK, IndexCoherent, Loads
  <2>3. QED
    BY <1>3, <2>1, <2>2
<1>5. QED
  BY <1>1, <1>2, <1>3, <1>4 DEF Older, Registry!Before

\* The registry counts with the same Cardinality.
LEMMA SameCardinality ==
    ASSUME NEW S
    PROVE  Registry!Cardinality(S) = Cardinality(S)
BY DEF Registry!Cardinality, Cardinality, Registry!IsFiniteSet, IsFiniteSet

\* A create that is accepted is the registry's Create.
LEMMA CreateRefines ==
    ASSUME RedisOK, NEW req \in Request, req.op = "create", RequestOwned(req),
           store[req.id] = NoSession, NEW kept \in SUBSET Active(req.user),
           Retained(req.user, req.limit, kept), WriteNew(req, kept),
           UNCHANGED <<now, owner>>
    PROVE  Registry!RegistryNext
<1> DEFINE u == req.user
           s == req.id
<1>1. /\ s \in Ids /\ u \in Users /\ req.ttl \in TTLs /\ req.limit \in Limits
      /\ owner[s] = u /\ owner[s] # NoUser
  BY StoreConstants DEF Request, RequestOwned, SessionOps, UserOps
<1>2. liveSessions[s] = NoSession
  BY <1>1 DEF liveSessions, Live
<1>3. Registry!LiveOf(u) = Active(u) /\ LiveOf(u) = Active(u)
  BY <1>1, RegistryView, ActiveIsLive
<1>4. \A x \in Active(u) \ kept, y \in kept : Registry!Before(x, y)
  BY <1>1, RegistryView DEF Retained
<1>5. liveSessions' = [x \in Ids |->
                         IF x = s THEN [user |-> owner[s], created |-> now,
                                        expires |-> now + req.ttl]
                         ELSE IF x \in Active(u) \ kept THEN NoSession
                         ELSE liveSessions[x]]
  <2>1. \A x \in Ids : liveSessions'[x] =
           IF x = s THEN NewSession(req)
           ELSE IF x \in Active(u) \ kept THEN NoSession ELSE liveSessions[x]
    BY <1>3, WriteNewLive
  <2>2. NewSession(req) = [user |-> owner[s], created |-> now, expires |-> now + req.ttl]
    BY <1>1 DEF NewSession
  <2>3. liveSessions' = [x \in Ids |-> liveSessions'[x]]
    BY DEF liveSessions
  <2>4. QED
    BY <2>1, <2>2, <2>3
<1>6. Cardinality(kept) = IF Cardinality(Active(u)) < req.limit
                          THEN Cardinality(Active(u)) ELSE req.limit - 1
  BY DEF Retained
<1>7. Registry!Create(s, req.ttl, req.limit)
  BY <1>1, <1>2, <1>3, <1>4, <1>5, <1>6, SameCardinality DEF Registry!Create
<1>8. QED
  BY <1>1, <1>7 DEF Registry!RegistryNext

\* A clean-up is a stutter of the registry; a removal of all of a user's active
\* sessions is its RevokeAll, of one of them its Revoke.
LEMMA KeepOnlyRefines ==
    ASSUME RedisOK, NEW u \in Users, UNCHANGED <<now, owner>>
    PROVE  /\ KeepOnly(u, Active(u)) => UNCHANGED Registry!registryVars
           /\ KeepOnly(u, {}) => Registry!RegistryNext
           /\ \A s \in Active(u) : KeepOnly(u, Active(u) \ {s}) => Registry!RegistryNext
<1>1. LiveOf(u) = Active(u) /\ Registry!LiveOf(u) = Active(u)
  BY RegistryView, ActiveIsLive
<1>2. ASSUME NEW kept \in SUBSET Active(u), KeepOnly(u, kept)
      PROVE  liveSessions' = [x \in Ids |->
               IF x \in Active(u) \ kept THEN NoSession ELSE liveSessions[x]]
  <2>1. \A x \in Ids : liveSessions'[x] =
           IF x \in Active(u) \ kept THEN NoSession ELSE liveSessions[x]
    BY <1>1, <1>2, KeepOnlyLive
  <2>2. liveSessions' = [x \in Ids |-> liveSessions'[x]]
    BY DEF liveSessions
  <2>3. QED
    BY <2>1, <2>2
<1>3. KeepOnly(u, Active(u)) => UNCHANGED Registry!registryVars
  <2> SUFFICES ASSUME KeepOnly(u, Active(u)) PROVE UNCHANGED Registry!registryVars
    OBVIOUS
  <2>1. liveSessions' = [x \in Ids |-> liveSessions[x]]
    BY <1>2
  <2>2. liveSessions' = liveSessions
    BY <2>1, RegistryView
  <2>3. QED
    BY <2>2 DEF Registry!registryVars
<1>4. KeepOnly(u, {}) => Registry!RegistryNext
  BY <1>1, <1>2 DEF Registry!RevokeAll, Registry!RegistryNext
<1>5. ASSUME NEW s \in Active(u), KeepOnly(u, Active(u) \ {s})
      PROVE  Registry!RegistryNext
  <2>1. s \in Ids /\ liveSessions[s] # NoSession
    BY RegistryView DEF Active, Members, Loads
  <2>2. liveSessions' = [x \in Ids |-> IF x = s THEN NoSession ELSE liveSessions[x]]
    BY <1>2, <1>5
  <2>3. liveSessions' = [liveSessions EXCEPT ![s] = NoSession]
    BY <2>1, <2>2, RegistryView
  <2>4. QED
    BY <2>1, <2>3 DEF Registry!Revoke, Registry!RegistryNext
<1>6. QED
  BY <1>3, <1>4, <1>5

\* A renewal is the registry's Renew.
LEMMA RenewRefines ==
    ASSUME RedisOK, NEW u \in Users, NEW s \in Active(u), NEW ttl \in TTLs,
           RewriteExpiry(u, s, ttl), UNCHANGED <<now, owner>>
    PROVE  Registry!RegistryNext
<1>1. s \in Ids /\ Loads(s) /\ liveSessions[s] = store[s] /\ liveSessions[s] # NoSession
  BY RegistryView DEF Active, Members, Loads
<1>2. ttl \in Nat \ {0}
  BY StoreConstants
<1>3. \A x \in Ids : liveSessions'[x] =
         IF x = s THEN [store[x] EXCEPT !.expires = now + ttl] ELSE liveSessions[x]
  BY <1>2, RewriteExpiryLive
<1>4. liveSessions' = [x \in Ids |-> liveSessions'[x]]
  BY DEF liveSessions
<1>5. liveSessions' = [liveSessions EXCEPT ![s].expires = now + ttl]
  BY <1>1, <1>3, <1>4, RegistryView
<1>6. QED
  BY <1>1, <1>5 DEF Registry!Renew, Registry!RegistryNext

\* Every run of the script is a step of the registry or a stutter.
LEMMA ScriptRefines ==
    ASSUME RedisOK, NEW req \in Request, RequestOwned(req), NEW reply \in Replies,
           Script(req, reply), UNCHANGED <<now, owner>>
    PROVE  [Registry!RegistryNext]_Registry!registryVars
<1> USE NothingCorrupt
<1>1. CASE UNCHANGED redis
  BY <1>1 DEF redis, Registry!registryVars, liveSessions, Live
<1>2. CASE RunCreate(req, reply)
  <2>1. req.user \in Users
    BY <1>2 DEF RunCreate, Request, SessionOps, UserOps
  <2>2. QED
    BY <1>1, <1>2, <2>1, CreateRefines DEF RunCreate
<1>3. CASE RunOnSession(req, reply)
  <2> DEFINE s == req.id
             u == store[s].user
  <2>1. s \in Ids /\ (req.op = "renew" => req.ttl \in TTLs)
    BY <1>3, StoreConstants DEF RunOnSession, Request, SessionOps, UserOps
  <2>2. CASE ~Loads(s)
    BY <1>1, <1>3, <2>1, <2>2 DEF RunOnSession
  <2>3. CASE Loads(s)
    <3>1. s \in Active(u) /\ u \in Users
      BY <2>1, <2>3 DEF Loads, RedisOK, RedisTypeOK, Session
    <3>2. \/ KeepOnly(u, Active(u))
          \/ req.op = "renew" /\ RewriteExpiry(u, s, req.ttl)
          \/ KeepOnly(u, Active(u) \ {s})
      BY <1>3, <2>1, <2>3, <3>1 DEF RunOnSession
    <3>3. QED
      BY <2>1, <3>1, <3>2, KeepOnlyRefines, RenewRefines
  <2>4. QED
    BY <2>2, <2>3
<1>4. CASE RunOnUser(req, reply)
  <2>1. req.user \in Users
    BY <1>4 DEF RunOnUser, Request, SessionOps, UserOps
  <2>2. KeepOnly(req.user, Active(req.user)) \/ KeepOnly(req.user, {})
    BY <1>4, <2>1 DEF RunOnUser
  <2>3. QED
    BY <2>1, <2>2, KeepOnlyRefines
<1>5. QED
  BY <1>2, <1>3, <1>4 DEF Script

\* Redis time passing is the registry's Expire.
LEMMA TickRefines ==
    ASSUME RedisOK, Tick
    PROVE  Registry!RegistryNext
<1>1. ASSUME NEW s \in Ids
      PROVE  liveSessions'[s] =
               IF liveSessions[s] # NoSession /\ liveSessions[s].expires <= now'
               THEN NoSession ELSE liveSessions[s]
  <2>1. /\ now' = now + 1 /\ now \in Nat
        /\ store[s] = NoSession \/ (store[s] # NoSession /\ store[s].expires \in Nat)
    BY StoreNoSession DEF Tick, RedisOK, RedisTypeOK, Time, Session
  <2>2. store'[s] = IF store[s] # NoSession /\ store[s].expires < now' THEN NoSession
                    ELSE store[s]
    BY DEF Tick
  <2>3. CASE store[s] = NoSession
    BY <2>2, <2>3 DEF liveSessions, Live
  <2>4. CASE store[s] # NoSession
    BY <2>1, <2>2, <2>4 DEF liveSessions, Live
  <2>5. QED
    BY <2>3, <2>4
<1>2. liveSessions' = [s \in Ids |-> liveSessions'[s]]
  BY DEF liveSessions
<1>3. QED
  BY <1>1, <1>2 DEF Tick, Registry!Expire, Registry!RegistryNext

\* For every instance: whatever the network does, the sessions a caller can
\* find behave as the registry says.
THEOREM StoreRefinesRegistry == Spec => RefinesRegistry
<1>1. Init => Registry!RegistryInit
  BY DEF Init, Registry!RegistryInit, liveSessions, Live
<1>2. IInv /\ [Next]_vars => [Registry!RegistryNext]_Registry!registryVars
  <2> SUFFICES ASSUME IInv, [Next]_vars
               PROVE  [Registry!RegistryNext]_Registry!registryVars
    OBVIOUS
  <2>1. CASE UNCHANGED <<now, store, owner>>
    BY <2>1 DEF Registry!registryVars, liveSessions, Live
  <2>2. CASE UNCHANGED vars
    BY <2>1, <2>2 DEF vars
  <2>3. CASE Tick
    BY <2>3, TickRefines DEF IInv
  <2>4. ASSUME NEW c \in Clients, NEW u \in Users, NEW ttl \in TTLs, NEW attempt,
               DrawAndSend(c, u, ttl, attempt), UNCHANGED <<now, store>>
        PROVE  Registry!RegistryNext
    BY <2>4 DEF DrawAndSend, Registry!Draw, Registry!RegistryNext, liveSessions, Live
  <2>5. ASSUME NEW c \in Clients, DrawAgain(c)
        PROVE  Registry!RegistryNext
    <3>1. call[c].req.user \in Users /\ call[c].req.ttl \in TTLs
      BY <2>5 DEF DrawAgain, IInv, CallShape, Request, UserOps
    <3>2. QED
      BY <2>4, <2>5, <3>1 DEF DrawAgain
  <2>6. ASSUME NEW req \in Request, RunsScript(req)
        PROVE  [Registry!RegistryNext]_Registry!registryVars
    BY <2>6, ScriptRefines DEF RunsScript, IInv
  <2>7. ASSUME NEW c \in Clients, Execute(c)
        PROVE  [Registry!RegistryNext]_Registry!registryVars
    BY <2>6, <2>7 DEF Execute, RunsScript, IInv, CallShape, RequestsOwned
  <2>8. ASSUME NEW k \in Slots, ExecuteDelayed(k)
        PROVE  [Registry!RegistryNext]_Registry!registryVars
    BY <2>6, <2>8 DEF ExecuteDelayed, RunsScript, IInv, ClientTypeOK, RequestsOwned
  <2>9. QED
    BY <2>1, <2>2, <2>3, <2>4, <2>5, <2>7, <2>8
       DEF Next, Create, CallOnSession, CallOnUser, Return, Resend, GiveUp,
           BreakConnection, LoseDelayed
<1>3. QED
  BY <1>1, <1>2, Invariance, PTL DEF Spec, RefinesRegistry, Registry!RegistrySpec

=============================================================================
