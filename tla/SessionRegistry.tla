-------------------------- MODULE SessionRegistry --------------------------
(***************************************************************************)
(* What sessionauth promises, without Redis: a set of live sessions, each  *)
(* owned by one user, that expire with time, at most Limit of them per     *)
(* user.  It knows nothing of the index, of the keys' deadlines or of the  *)
(* network; SessionStore is shown to implement it.                         *)
(***************************************************************************)
EXTENDS Integers, FiniteSets

CONSTANTS
    Ids,        \* session IDs; only their order (ties in creation time) matters
    Users,
    NoUser,     \* the owner of an ID that was never drawn
    NoSession,  \* the value of an ID under which no session is live
    TTLs,       \* the lifetimes callers ask for, in milliseconds
    Limits      \* the MaxSessionsPerUser values of the configured stores

VARIABLES
    now,    \* Redis server time
    owner,  \* [Ids -> Users \cup {NoUser}]
    live    \* [Ids -> Session \cup {NoSession}]

registryVars == <<now, owner, live>>

Session == [user : Users, created : Nat \ {0}, expires : Nat \ {0}]

LiveOf(u) == {s \in Ids : live[s] # NoSession /\ live[s].user = u}

\* The order of eviction and of ListByUser: creation time, then ID.
Before(x, y) ==
    \/ live[x].created < live[y].created
    \/ live[x].created = live[y].created /\ x < y

RegistryInit ==
    /\ now = 1
    /\ owner = [s \in Ids |-> NoUser]
    /\ live = [s \in Ids |-> NoSession]

\* A login draws an ID nobody drew before.
Draw(s, u) ==
    /\ owner[s] = NoUser
    /\ owner' = [owner EXCEPT ![s] = u]
    /\ UNCHANGED <<now, live>>

\* The session appears and the oldest ones of its user beyond the limit go.
Create(s, ttl, limit) ==
    /\ owner[s] # NoUser
    /\ live[s] = NoSession
    /\ \E kept \in SUBSET LiveOf(owner[s]) :
          LET n == Cardinality(LiveOf(owner[s]))
              evicted == LiveOf(owner[s]) \ kept
          IN  /\ Cardinality(kept) = IF n < limit THEN n ELSE limit - 1
              /\ \A x \in evicted, y \in kept : Before(x, y)
              /\ live' = [x \in Ids |->
                            IF x = s THEN [user |-> owner[s], created |-> now,
                                           expires |-> now + ttl]
                            ELSE IF x \in evicted THEN NoSession ELSE live[x]]
    /\ UNCHANGED <<now, owner>>

\* Only the expiry of a live session changes, and it may come earlier.
Renew(s, ttl) ==
    /\ live[s] # NoSession
    /\ live' = [live EXCEPT ![s].expires = now + ttl]
    /\ UNCHANGED <<now, owner>>

Revoke(s) ==
    /\ live[s] # NoSession
    /\ live' = [live EXCEPT ![s] = NoSession]
    /\ UNCHANGED <<now, owner>>

RevokeAll(u) ==
    /\ live' = [s \in Ids |-> IF s \in LiveOf(u) THEN NoSession ELSE live[s]]
    /\ UNCHANGED <<now, owner>>

Expire ==
    /\ now' = now + 1
    /\ live' = [s \in Ids |->
                  IF live[s] # NoSession /\ live[s].expires <= now'
                  THEN NoSession ELSE live[s]]
    /\ UNCHANGED owner

RegistryNext ==
    \/ \E s \in Ids, u \in Users : Draw(s, u)
    \/ \E s \in Ids, ttl \in TTLs, limit \in Limits : Create(s, ttl, limit)
    \/ \E s \in Ids, ttl \in TTLs : Renew(s, ttl)
    \/ \E s \in Ids : Revoke(s)
    \/ \E u \in Users : RevokeAll(u)
    \/ Expire

RegistrySpec == RegistryInit /\ [][RegistryNext]_registryVars

=============================================================================
