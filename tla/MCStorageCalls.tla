--------------------------- MODULE MCStorageCalls ---------------------------
(* Values of the constants for TLC. *)
EXTENDS StorageCalls, TLC

CONSTANTS c1, c2

AllOf == {"read", "write", "delete"}
File(principals) == [namespaces |-> {"media", "logs"}, principals |-> principals]

\* A writer and a reader; a principal with grants for another namespace only; a
\* token listed twice, which does not compile.
MCPolicies ==
    LET writer == [tokens |-> {"t1"}, grants |-> [name \in {"media"} |-> AllOf]]
        reader == [tokens |-> {"t2", "t1"}, grants |-> [name \in {"media"} |-> {"read"}]]
        other  == [tokens |-> {"t2"}, grants |-> [name \in {"media", "logs"} |->
                      IF name = "logs" THEN AllOf ELSE {"read"}]]
    IN  {File(<<writer, other>>), File(<<other, writer>>), File(<<writer, reader>>)}

\* A service that signs for no longer than ten minutes.
MCServices == {[default |-> 5, max |-> 10]}

Plain(op, ttl) == [op |-> op, token |-> "t1", namespace |-> "media", flaw |-> "none",
                   ttl |-> ttl, direct |-> FALSE]

Delete == Plain("delete", 0)
Create == Plain("create", 0)
Complete == Plain("complete", 0)
Abort == Plain("abort", 0)
Upload == Plain("upload", 10)
Pair(first, second) == (c1 :> first @@ c2 :> second)

\* Pairs of calls that can get into each other's way, flawed or denied ones, and
\* presigned requests with and without expires_in.
MCWorkloads ==
    {Pair(Complete, Abort), Pair(Create, Abort),
     Pair(Delete, [Upload EXCEPT !.flaw = "expires_in"]),
     Pair(Upload, [Delete EXCEPT !.token = "t2"]),
     Pair(Plain("stat", 0), [Plain("stat", 0) EXCEPT !.token = "t3"]),
     Pair([Create EXCEPT !.flaw = "checksum"], [Complete EXCEPT !.flaw = "parts"]),
     Pair([Upload EXCEPT !.token = "t2", !.namespace = "logs"], [Complete EXCEPT !.token = "t2"]),
     Pair(Plain("presign_get", 11), [Plain("presign_put", 0) EXCEPT !.direct = TRUE])}

MCRequests == {w[c] : w \in MCWorkloads, c \in {c1, c2}}
=============================================================================
