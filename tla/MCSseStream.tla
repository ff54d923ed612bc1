----------------------------- MODULE MCSseStream -----------------------------
(* Values of the constants for TLC. *)
EXTENDS SseStream

MCPieces == {"data", "event", "id", ":", "a", "b", "CR", "LF"}

\* All kinds of line ends; several data lines, an id that stays and an event type
\* that does not; an event without data and one that the end of the text cuts off.
MCTexts ==
    {<<"data", ":", "a", "CR", "LF", "CR", "LF", "data", "CR", "CR", "data", "LF">>,
     <<"id", ":", "a", "LF", "data", ":", "a", "LF", "data", ":", ":", "b", "LF", "LF", "event", ":",
       "b", "CR", "data", "LF", "LF", "data", "LF", "LF">>,
     <<"event", ":", "a", "CR", "LF", "CR", "LF", "LF", ":", "b", "CR", "data", "CR", "LF", "LF">>}
=============================================================================
