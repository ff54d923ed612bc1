------------------------ MODULE SessionStoreHistory ------------------------
(***************************************************************************)
(* SessionStore with a record of the sessions that a Revoke or a           *)
(* RevokeByUser has ended while its caller was there to read the reply.    *)
(***************************************************************************)
EXTENDS SessionStore

VARIABLE revoked

\* The sessions that the script of client c ends in this step, if it is one
\* of the revocations.
EndedBy(c) ==
    IF call[c].phase = "sent" /\ call'[c].phase = "replied" /\ call'[c].reply = "ok"
    THEN CASE call[c].req.op = "revoke" -> {call[c].req.id}
           [] call[c].req.op = "revoke_user" -> LiveOf(call[c].req.user)
           [] OTHER -> {}
    ELSE {}

HistoryInit == Init /\ revoked = {}
HistoryNext == Next /\ revoked' = revoked \cup UNION {EndedBy(c) : c \in Clients}
HistorySpec == HistoryInit /\ [][HistoryNext]_<<vars, revoked>>

\* docs/sdk/go/sessionauth.md says of every revoked session that later
\* authentications answer 401, that is, Lookup does not find it again.
RevokedStaysRevoked == \A s \in revoked : ~Live(s)

=============================================================================
