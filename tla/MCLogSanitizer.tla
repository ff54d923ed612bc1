---------------------------- MODULE MCLogSanitizer ----------------------------
(* A small pool of attributes in which every kind of value occurs, sensitive  *)
(* names at every level, and limits that end a record at every point.         *)
EXTENDS LogSanitizer

MCKeys == {"", "a", "b", "g", "m", "API-KEY", "tenant key", "token"}
MCNormalizeKey ==
    [key \in MCKeys |-> IF key = "API-KEY" THEN "apikey"
                        ELSE IF key = "tenant key" THEN "tenantkey" ELSE key]

MCOptions == [attributes : {-1, 1, 4, 6}, depth : {-1, 1, 3}, extra : {{"tenant key"}}]
                \cup {[attributes |-> 0, depth |-> 0, extra |-> {}],
                      [attributes |-> 3, depth |-> 3, extra |-> {""}]}

A(key, value) == [key |-> key, value |-> value]

\* What each value is, and what it holds.
MCPool == <<
    <<"leaf", <<>>>>,
    <<"leaf", <<>>>>,
    <<"nil", <<>>>>,
    <<"bad", <<>>>>,
    <<"group", <<>>>>,
    <<"map", <<A("a", 1)>>>>,
    <<"map", <<A("tenant key", 6), A("b", 2)>>>>,                \* 7
    <<"map", <<A("token", 1), A("a", 2)>>>>,
    <<"list", <<A("", 1), A("", 8)>>>>,                          \* 9
    <<"group", <<A("a", 1)>>>>,
    <<"group", <<A("a", 2), A("token", 10)>>>>,                  \* 11
    <<"group", <<A("b", 3)>>>>,
    <<"group", <<A("g", 12), A("b", 5)>>>>,                      \* 13
    <<"group", <<A("g", 10), A("g", 1), A("API-KEY", 2), A("g", 12), A("b", 4)>>>>,
    <<"list", <<A("", 14)>>>>                                    \* 15
    >>

MCValues == DOMAIN MCPool
MCKind == [v \in MCValues |-> MCPool[v][1]]
MCItems == [v \in MCValues |-> MCPool[v][2]]

MCFields == {A("a", 1), A("API-KEY", 2), A("m", 7), A("b", 9)}
MCAttrs == MCFields \cup {A("g", 11), A("", 13), A("m", 15), A("", 3)}
MCGroupNames == {"g", "token"}
=============================================================================
