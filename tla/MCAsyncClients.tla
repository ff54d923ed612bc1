---------------------------- MODULE MCAsyncClients ----------------------------
(* Values of the constants for TLC. *)
EXTENDS AsyncClients, TLC

CONSTANTS t1, t2, t3

Triple(first, second, third) == (t1 :> first @@ t2 :> second @@ t3 :> third)

\* Downloads to one target; an opened client that is closed three times; calls of
\* aclose beside a download.
MCWorkloads ==
    {Triple("objects_download", "objects_download", "storage_download"),
     Triple("objects_session", "objects_close", "objects_close"),
     Triple("storage_close", "storage_close", "objects_download")}
=============================================================================
