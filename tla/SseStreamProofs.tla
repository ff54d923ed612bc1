---------------------------- MODULE SseStreamProofs ----------------------------
(***************************************************************************)
(* What SseStream guarantees for every text, of any length and of any      *)
(* pieces, and for every way to cut it into chunks.                        *)
(*                                                                         *)
(* EventsAreRight compares a parser that goes through the text piece by    *)
(* piece with Events, which is defined by the positions of line ends and   *)
(* knows no parser.  The invariant between them is At: in front of         *)
(* position i, the parser holds the line and the event that end there.     *)
(* ConsumeAt shows that a piece keeps it, ParseAt that a chunk does, and   *)
(* SameLines, SamePast and SameUpto that what is still to come does not    *)
(* change what was, so that At survives the arrival of a chunk.  Parsed    *)
(* adds which part of a chunk is left in which state of the call.          *)
(*                                                                         *)
(* The definitions count and recur, so the proofs need induction over      *)
(* numbers.  It takes the form of LeastNumber: of the cases in which a     *)
(* statement fails, there would be a least one.                            *)
(***************************************************************************)
EXTENDS SseStream, FiniteSetTheorems, SequenceTheorems, WellFoundedInduction, TLAPS

-----------------------------------------------------------------------------
(* Least and latest numbers, and sets in their order *)

\* Induction over the numbers, in a form without an operator.
LEMMA LeastNumber ==
    ASSUME NEW S, S \subseteq Nat, S # {}
    PROVE  \E n \in S : \A m \in S : n <= m
<1>1. IsWellFoundedOn(OpToRel(<, Nat), Nat)
  BY NatLessThanWellFounded
<1>2. PICK n \in S : \A m \in S : ~ (<<m, n>> \in OpToRel(<, Nat))
  BY <1>1, WFMin
<1>3. \A m \in S : ~(m < n)
  BY <1>2 DEF OpToRel
<1>4. ASSUME NEW m \in S PROVE n <= m
  <2>1. n \in Nat /\ m \in Nat
    OBVIOUS
  <2>2. QED
    BY <2>1, <1>3
<1>5. QED
  BY <1>2, <1>4

LEMMA TheIsIn ==
    ASSUME NEW S, S # {}
    PROVE  The(S) \in S
BY Zenon DEF The

LEMMA LatestIsLast ==
    ASSUME NEW n \in Nat, NEW S, S \subseteq 1..n
    PROVE  Latest(S) \in S \cup {0} /\ \A j \in S : j <= Latest(S)
<1> DEFINE Gaps == {n - i : i \in S \cup {0}}
           Greatest == {i \in S \cup {0} : \A j \in S : j <= i}
<1>1. Gaps \subseteq Nat /\ Gaps # {}
  OBVIOUS
<1>2. PICK g \in Gaps : \A h \in Gaps : g <= h
  <2> HIDE DEF Gaps
  <2>1. QED
    BY <1>1, LeastNumber
<1>3. PICK i \in S \cup {0} : g = n - i
  OBVIOUS
<1>4. ASSUME NEW j \in S PROVE j <= i
  <2>1. n - i <= n - j
    BY <1>2, <1>3
  <2>2. i \in 0..n /\ j \in 1..n
    BY <1>3
  <2>3. QED
    BY <2>1, <2>2
<1>5. i \in Greatest
  BY <1>4
<1>6. The(Greatest) \in Greatest
  <2> HIDE DEF Greatest
  <2>1. QED
    BY <1>5, TheIsIn
<1>7. QED
  BY <1>6 DEF Latest

LEMMA LatestIs ==
    ASSUME NEW S, S \subseteq Nat, NEW i \in S \cup {0}, \A j \in S : j <= i
    PROVE  Latest(S) = i
<1> DEFINE Greatest == {k \in S \cup {0} : \A j \in S : j <= k}
<1>1. i \in Greatest
  OBVIOUS
<1>2. ASSUME NEW k \in Greatest PROVE k = i
  BY <1>1
<1>3. The(Greatest) \in Greatest
  <2> HIDE DEF Greatest
  <2>1. QED
    BY <1>1, TheIsIn
<1>4. QED
  BY <1>2, <1>3 DEF Latest

\* Whoever is k-th.
Kth(S, k) == {i \in S : Cardinality({j \in S : j <= i}) = k}

LEMMA OrderedNone == Ordered({}) = <<>>
BY FS_EmptySet DEF Ordered

LEMMA UpToIsFinite ==
    ASSUME NEW n \in Nat, NEW S, S \subseteq 1..n
    PROVE  IsFiniteSet(S) /\ Cardinality(S) \in Nat
<1>1. IsFiniteSet(1..n)
  BY FS_Interval
<1>2. QED
  BY <1>1, FS_Subset, FS_CardinalityType

\* A number beyond all others is the last.
LEMMA KthAdded ==
    ASSUME NEW n \in Nat, NEW S, S \subseteq 1..n, NEW m \in Nat, m > n,
           NEW k \in 1..(Cardinality(S) + 1)
    PROVE  Kth(S \cup {m}, k) = IF k = Cardinality(S) + 1 THEN {m} ELSE Kth(S, k)
<1> DEFINE T == S \cup {m}
           c == Cardinality(S)
<1>1. IsFiniteSet(S) /\ c \in Nat
  BY UpToIsFinite
<1>2. Cardinality(T) = c + 1
  <2>1. m \notin S
    OBVIOUS
  <2>2. QED
    BY <1>1, <2>1, FS_AddElement
<1>3. {j \in T : j <= m} = T
  <2>1. ASSUME NEW j \in T PROVE j <= m
    <3>1. CASE j = m
      BY <3>1
    <3>2. CASE j \in 1..n
      BY <3>2
    <3>3. QED
      BY <3>1, <3>2
  <2>2. QED
    BY <2>1
<1>4. ASSUME NEW i \in S
      PROVE  /\ {j \in T : j <= i} = {j \in S : j <= i}
             /\ Cardinality({j \in S : j <= i}) <= c
  <2>1. {j \in T : j <= i} = {j \in S : j <= i}
    OBVIOUS
  <2>2. {j \in S : j <= i} \subseteq S
    OBVIOUS
  <2>3. QED
    BY <1>1, <2>1, <2>2, FS_Subset
<1>5. ASSUME NEW i \in S PROVE i \in Kth(T, k) <=> i \in Kth(S, k)
  BY <1>4 DEF Kth
<1>6. m \in Kth(T, k) <=> k = c + 1
  BY <1>2, <1>3 DEF Kth
<1>7. k = c + 1 => \A i \in S : i \notin Kth(S, k)
  BY <1>1, <1>4 DEF Kth
<1>8. Kth(T, k) \subseteq T /\ Kth(S, k) \subseteq S /\ m \notin S
  BY DEF Kth
<1>9. CASE k = c + 1
  <2>1. \A i \in S : i \notin Kth(T, k)
    BY <1>5, <1>7, <1>9
  <2>2. Kth(T, k) = {m}
    BY <2>1, <1>6, <1>8, <1>9
  <2>3. QED
    BY <2>2, <1>9
<1>10. CASE k # c + 1
  <2>1. m \notin Kth(T, k)
    BY <1>6, <1>10
  <2>2. Kth(T, k) = Kth(S, k)
    BY <2>1, <1>5, <1>8
  <2>3. QED
    BY <2>2, <1>10
<1>11. QED
  BY <1>9, <1>10

\* T has the order of S, and then m.
Follows(T, S, m) ==
    /\ Cardinality(T) = Cardinality(S) + 1
    /\ Cardinality(S) \in Nat
    /\ DOMAIN Ordered(T) = 1..(Cardinality(S) + 1)
    /\ DOMAIN Ordered(S) = 1..Cardinality(S)
    /\ Ordered(T)[Cardinality(S) + 1] = m
    /\ \A k \in 1..Cardinality(S) : Ordered(T)[k] = Ordered(S)[k]

LEMMA OrderedAdded ==
    ASSUME NEW n \in Nat, NEW S, S \subseteq 1..n, NEW m \in Nat, m > n
    PROVE  Follows(S \cup {m}, S, m)
<1> DEFINE T == S \cup {m}
           c == Cardinality(S)
<1>1. IsFiniteSet(S) /\ c \in Nat
  BY UpToIsFinite
<1>2. Cardinality(T) = c + 1
  <2>1. m \notin S
    OBVIOUS
  <2>2. QED
    BY <1>1, <2>1, FS_AddElement
<1>3. Ordered(T) = [k \in 1..(c + 1) |-> The(Kth(T, k))]
  BY <1>2 DEF Ordered, Kth
<1>4. Ordered(S) = [k \in 1..c |-> The(Kth(S, k))]
  BY DEF Ordered, Kth
<1>5. \A k \in 1..(c + 1) : Kth(T, k) = IF k = c + 1 THEN {m} ELSE Kth(S, k)
  BY KthAdded
<1>6. The({m}) = m
  BY TheIsIn
<1>7. c + 1 \in 1..(c + 1) /\ \A k \in 1..c : k \in 1..(c + 1) /\ k # c + 1
  BY <1>1
<1>8. QED
  <2> HIDE DEF T, c
  <2>1. Ordered(T)[c + 1] = m
    BY <1>3, <1>5, <1>6, <1>7
  <2>2. \A k \in 1..c : Ordered(T)[k] = Ordered(S)[k]
    BY <1>3, <1>4, <1>5, <1>7
  <2>3. QED
    BY <1>1, <1>2, <1>3, <1>4, <2>1, <2>2 DEF T, c, Follows

LEMMA OrderedType ==
    ASSUME NEW N \in Nat
    PROVE  \A S \in SUBSET (1..N) :
             Ordered(S) \in Seq(S) /\ Len(Ordered(S)) = Cardinality(S)
<1> DEFINE Is(S) == Ordered(S) \in Seq(S) /\ Len(Ordered(S)) = Cardinality(S)
           Bad == {n \in 0..N : \E S \in SUBSET (1..n) : ~Is(S)}
<1>1. Bad = {}
  <2> SUFFICES ASSUME Bad # {} PROVE FALSE
    OBVIOUS
  <2>1. PICK n \in Bad : \A m \in Bad : n <= m
    <3>1. Bad \subseteq Nat
      OBVIOUS
    <3> HIDE DEF Bad
    <3>2. QED
      BY <3>1, LeastNumber
  <2>2. PICK S \in SUBSET (1..n) : ~Is(S)
    OBVIOUS
  <2>3. CASE n = 0
    <3>1. S = {}
      BY <2>3
    <3>2. Is({})
      <4>1. Ordered({}) = <<>> /\ <<>> \in Seq({}) /\ Len(<<>>) = 0
        BY OrderedNone, EmptySeq
      <4>2. Cardinality({}) = 0
        BY FS_EmptySet
      <4>3. QED
        BY <4>1, <4>2
    <3>3. QED
      BY <2>2, <3>1, <3>2
  <2>4. CASE n # 0
    <3> DEFINE R == S \ {n}
    <3>1. n - 1 \in 0..N /\ ~(n <= n - 1)
      BY <2>4
    <3>2. n - 1 \notin Bad
      BY <2>1, <3>1
    <3>3. R \subseteq 1..(n - 1)
      OBVIOUS
    <3>4. Is(R)
      <4> HIDE DEF Is
      <4>1. QED
        BY <3>1, <3>2, <3>3
    <3>5. n \in S /\ S = R \cup {n}
      <4>1. CASE n \notin S
        <5>1. R = S
          BY <4>1
        <5>2. QED
          BY <2>2, <3>4, <5>1
      <4>2. QED
        BY <4>1
    <3> DEFINE c == Cardinality(R)
    <3>6. /\ Cardinality(S) = c + 1 /\ c \in Nat
          /\ DOMAIN Ordered(S) = 1..(c + 1)
          /\ Ordered(S)[c + 1] = n
          /\ \A k \in 1..c : Ordered(S)[k] = Ordered(R)[k]
      <4> HIDE DEF R
      <4>1. PICK o \in Nat : o = n - 1
        BY <3>1
      <4>2. R \subseteq 1..o /\ n \in Nat /\ n > o
        BY <3>3, <4>1
      <4>3. Follows(R \cup {n}, R, n)
        BY <4>2, OrderedAdded
      <4>4. QED
        BY <3>5, <4>3 DEF Follows
    <3>7. \A k \in 1..c : Ordered(R)[k] \in R
      <4> HIDE DEF R
      <4>1. QED
        BY <3>4, ElementOfSeq
    <3>8. \A k \in 1..(c + 1) : Ordered(S)[k] \in S
      <4>1. n \in S /\ R \subseteq S
        BY <3>5
      <4> HIDE DEF R, c
      <4>2. ASSUME NEW k \in 1..(c + 1) PROVE Ordered(S)[k] \in S
        <5>1. CASE k = c + 1
          BY <3>6, <4>1, <5>1
        <5>2. CASE k \in 1..c
          BY <3>6, <3>7, <4>1, <5>2
        <5>3. QED
          BY <3>6, <5>1, <5>2
      <4>3. QED
        BY <4>2
    <3>9. Ordered(S) = [k \in 1..(c + 1) |-> Ordered(S)[k]]
      BY <3>6 DEF Ordered
    <3>10. Is(S)
      <4> HIDE DEF R, c
      <4>1. c + 1 \in Nat
        BY <3>6
      <4>2. Ordered(S) \in [1..(c + 1) -> S]
        BY <3>8, <3>9
      <4>3. QED
        BY <3>6, <4>1, <4>2
    <3>11. QED
      BY <2>2, <3>10
  <2>5. QED
    BY <2>3, <2>4
<1>2. QED
  BY <1>1

\* What f says of the members of S, in their order.
Listed(f, S) == [k \in DOMAIN Ordered(S) |-> f[Ordered(S)[k]]]

LEMMA ListedType ==
    ASSUME NEW n \in Nat, NEW S, S \subseteq 1..n, NEW T, NEW f, \A i \in S : f[i] \in T
    PROVE  /\ Listed(f, S) \in Seq(T)
           /\ Len(Listed(f, S)) = Cardinality(S)
           /\ Listed(f, S) = <<>> <=> S = {}
<1>1. Ordered(S) \in Seq(S) /\ Len(Ordered(S)) = Cardinality(S)
  BY OrderedType
<1>2. Listed(f, S) \in Seq(T) /\ Len(Listed(f, S)) = Len(Ordered(S))
  <2> DEFINE o == Ordered(S)
  <2>1. Len(o) \in Nat /\ DOMAIN o = 1..Len(o) /\ \A k \in 1..Len(o) : o[k] \in S
    BY <1>1, LenProperties, ElementOfSeq
  <2> HIDE DEF o
  <2>2. [k \in 1..Len(o) |-> f[o[k]]] \in [1..Len(o) -> T]
    BY <2>1
  <2>3. QED
    BY <2>1, <2>2 DEF Listed, o
<1>3. IsFiniteSet(S)
  BY UpToIsFinite
<1>4. Cardinality(S) = 0 <=> S = {}
  BY <1>3, FS_EmptySet
<1>5. QED
  BY <1>1, <1>2, <1>4

LEMMA ListedAdded ==
    ASSUME NEW n \in Nat, NEW S, S \subseteq 1..n, NEW m \in Nat, m > n,
           NEW T, NEW f, \A i \in S \cup {m} : f[i] \in T
    PROVE  Listed(f, S \cup {m}) = Append(Listed(f, S), f[m])
<1> DEFINE c == Cardinality(S)
           l == Listed(f, S)
           x == Listed(f, S \cup {m})
<1>1. /\ c \in Nat /\ DOMAIN Ordered(S \cup {m}) = 1..(c + 1) /\ DOMAIN Ordered(S) = 1..c
      /\ Ordered(S \cup {m})[c + 1] = m
      /\ \A k \in 1..c : Ordered(S \cup {m})[k] = Ordered(S)[k]
  <2>1. Follows(S \cup {m}, S, m)
    BY OrderedAdded
  <2>2. QED
    BY <2>1 DEF Follows
<1>2. l \in Seq(T) /\ Len(l) = c
  BY ListedType
<1>3. x = [k \in 1..(c + 1) |-> IF k = c + 1 THEN f[m] ELSE l[k]]
  <2>1. l = [k \in 1..c |-> f[Ordered(S)[k]]]
    BY <1>1 DEF Listed
  <2>2. x = [k \in 1..(c + 1) |-> f[Ordered(S \cup {m})[k]]]
    BY <1>1 DEF Listed
  <2> HIDE DEF c, l, x
  <2>3. ASSUME NEW k \in 1..(c + 1)
        PROVE  f[Ordered(S \cup {m})[k]] = IF k = c + 1 THEN f[m] ELSE l[k]
    <3>1. CASE k = c + 1
      BY <1>1, <3>1
    <3>2. CASE k \in 1..c
      <4>1. k # c + 1
        BY <1>1, <3>2
      <4>2. QED
        BY <1>1, <2>1, <3>2, <4>1
    <3>3. QED
      BY <1>1, <3>1, <3>2
  <2>4. QED
    BY <2>2, <2>3
<1>4. QED
  <2> HIDE DEF c, l, x
  <2>1. f[m] \in T
    OBVIOUS
  <2>2. Append(l, f[m]) = [k \in 1..(c + 1) |-> IF k = c + 1 THEN f[m] ELSE l[k]]
    BY <1>1, <1>2, <2>1
  <2>3. QED
    BY <1>3, <2>2 DEF l, x

LEMMA ListedSame ==
    ASSUME NEW n \in Nat, NEW S, S \subseteq 1..n, NEW f, NEW g, \A i \in S : f[i] = g[i]
    PROVE  Listed(f, S) = Listed(g, S)
<1>1. \A k \in DOMAIN Ordered(S) : Ordered(S)[k] \in S
  BY OrderedType, ElementOfSeq, LenProperties
<1>2. QED
  BY <1>1 DEF Listed

-----------------------------------------------------------------------------
(* One piece further *)

Breaks(s, i) == {j \in 1..(i - 1) : s[j] \in {"CR", "LF"}}

LEMMA LineAtFirst == \A s : Line(s, 1) = <<>>
<1> SUFFICES ASSUME NEW s PROVE Line(s, 1) = <<>>
  OBVIOUS
<1>1. Breaks(s, 1) = {}
  BY DEF Breaks
<1>2. Latest({}) = 0
  BY LatestIs
<1>3. SubSeq(s, 1, 0) = <<>>
  BY SubSeqEmpty
<1>4. QED
  BY <1>1, <1>2, <1>3 DEF Line, Breaks

LEMMA LineType ==
    ASSUME NEW s \in Seq(Pieces), NEW i \in 1..(Len(s) + 1)
    PROVE  Line(s, i) \in Seq(Pieces)
<1> DEFINE b == Latest(Breaks(s, i))
<1>1. Breaks(s, i) \subseteq 1..(i - 1) /\ i - 1 \in Nat
  BY DEF Breaks
<1>2. b \in Nat
  BY <1>1, LatestIsLast
<1>3. \A j \in (b + 1)..(i - 1) : s[j] \in Pieces
  BY <1>2
<1>4. QED
  <2> HIDE DEF b
  <2>1. SubSeq(s, b + 1, i - 1) \in Seq(Pieces)
    BY <1>2, <1>3, SubSeqProperties
  <2>2. QED
    BY <2>1 DEF b, Line, Breaks

LEMMA LineNext ==
    ASSUME NEW s \in Seq(Pieces), NEW i \in 1..Len(s)
    PROVE  Line(s, i + 1) = IF s[i] \in {"CR", "LF"} THEN <<>> ELSE Append(Line(s, i), s[i])
<1>1. /\ Breaks(s, i) \subseteq 1..(i - 1) /\ i - 1 \in Nat /\ (i + 1) - 1 = i
      /\ Breaks(s, i + 1) = IF s[i] \in {"CR", "LF"} THEN Breaks(s, i) \cup {i} ELSE Breaks(s, i)
  BY DEF Breaks
<1>2. CASE s[i] \in {"CR", "LF"}
  <2>1. \A j \in Breaks(s, i + 1) : j <= i
    BY DEF Breaks
  <2>2. Breaks(s, i + 1) \subseteq Nat /\ i \in Breaks(s, i + 1) \cup {0}
    BY <1>2 DEF Breaks
  <2>3. Latest(Breaks(s, i + 1)) = i
    BY <2>1, <2>2, LatestIs
  <2>4. SubSeq(s, i + 1, i) = <<>>
    BY SubSeqEmpty
  <2>5. QED
    BY <1>1, <1>2, <2>3, <2>4 DEF Line, Breaks
<1>3. CASE s[i] \notin {"CR", "LF"}
  <2> DEFINE b == Latest(Breaks(s, i))
  <2>1. b \in 0..(i - 1)
    BY <1>1, LatestIsLast
  <2>2. Line(s, i) = SubSeq(s, b + 1, i - 1) /\ Line(s, i + 1) = SubSeq(s, b + 1, i)
    BY <1>1, <1>3 DEF Line, Breaks
  <2> HIDE DEF b
  <2>3. SubSeq(s, b + 1, i) = SubSeq(s, b + 1, i - 1) \o <<s[i]>>
    BY <2>1, SubSeqRecursiveSecond
  <2>4. SubSeq(s, b + 1, i - 1) \in Seq(Pieces) /\ s[i] \in Pieces
    <3>1. i \in 1..(Len(s) + 1)
      OBVIOUS
    <3>2. Line(s, i) \in Seq(Pieces)
      BY <3>1, LineType
    <3>3. QED
      BY <2>2, <3>2
  <2>5. QED
    BY <1>3, <2>2, <2>3, <2>4, AppendIsConcat
<1>4. QED
  BY <1>2, <1>3

\* A line that has ended.
Ended(s, i, name) == i \in Ends(s) /\ Field(Line(s, i)) = <<name>>

LEMMA AllBefore ==
    ASSUME NEW s \in Seq(Pieces), NEW i \in 1..(Len(s) + 1)
    PROVE  /\ Blanks(s, i) \subseteq 1..(i - 1)
           /\ \A name : /\ Named(s, i, name) \subseteq 1..(i - 1)
                        /\ InBlock(s, i, name) \subseteq 1..(i - 1)
BY DEF Blanks, Named, InBlock, Ends

LEMMA BlanksNext ==
    ASSUME NEW s \in Seq(Pieces), NEW i \in 1..Len(s)
    PROVE  Blanks(s, i + 1) =
             IF i \in Ends(s) /\ Line(s, i) = <<>> THEN Blanks(s, i) \cup {i} ELSE Blanks(s, i)
BY DEF Blanks, Ends

LEMMA NamedNext ==
    ASSUME NEW s \in Seq(Pieces), NEW i \in 1..Len(s), NEW name
    PROVE  Named(s, i + 1, name) =
             IF Ended(s, i, name) THEN Named(s, i, name) \cup {i} ELSE Named(s, i, name)
BY DEF Named, Ended, Ends

LEMMA InBlockNext ==
    ASSUME NEW s \in Seq(Pieces), NEW i \in 1..Len(s), NEW name
    PROVE  InBlock(s, i + 1, name) =
             IF i \in Ends(s) /\ Line(s, i) = <<>> THEN {}
             ELSE IF Ended(s, i, name) THEN InBlock(s, i, name) \cup {i}
             ELSE InBlock(s, i, name)
<1>1. CASE i \in Ends(s) /\ Line(s, i) = <<>>
  <2>1. Blanks(s, i + 1) \subseteq Nat /\ i \in Blanks(s, i + 1) /\ \A j \in Blanks(s, i + 1) : j <= i
    BY <1>1 DEF Blanks, Ends
  <2>2. Latest(Blanks(s, i + 1)) = i
    BY <2>1, LatestIs
  <2>3. \A j \in Named(s, i + 1, name) : ~(i < j)
    BY DEF Named, Ends
  <2>4. QED
    BY <1>1, <2>2, <2>3 DEF InBlock
<1>2. CASE ~(i \in Ends(s) /\ Line(s, i) = <<>>)
  <2> DEFINE b == Latest(Blanks(s, i))
  <2>1. Blanks(s, i + 1) = Blanks(s, i)
    BY <1>2, BlanksNext
  <2>2. b \in Nat /\ b < i
    <3>1. i - 1 \in Nat
      OBVIOUS
    <3>2. Blanks(s, i) \subseteq 1..(i - 1)
      BY AllBefore
    <3>3. b \in Blanks(s, i) \cup {0}
      BY <3>1, <3>2, LatestIsLast
    <3>4. QED
      BY <3>2, <3>3
  <2>3. InBlock(s, i + 1, name) = {j \in Named(s, i + 1, name) : b < j}
    BY <2>1 DEF InBlock
  <2>4. InBlock(s, i, name) = {j \in Named(s, i, name) : b < j}
    BY DEF InBlock
  <2> HIDE DEF b
  <2>5. CASE Ended(s, i, name)
    BY <1>2, <2>2, <2>3, <2>4, <2>5, NamedNext
  <2>6. CASE ~Ended(s, i, name)
    BY <1>2, <2>3, <2>4, <2>6, NamedNext
  <2>7. QED
    BY <2>5, <2>6
<1>3. QED
  BY <1>1, <1>2

LEMMA ContentType ==
    ASSUME NEW line \in Seq(Pieces)
    PROVE  Content(line) \in Seq(Pieces)
<1> DEFINE I == {k \in 1..Len(line) : line[k] = ":"}
<1>1. Colon(line) = IF I # {} THEN Min(I) ELSE 0
  BY DEF Colon, SelectInSeq
<1>2. CASE I = {}
  BY <1>1, <1>2 DEF Content
<1>3. CASE I # {}
  <2>1. I \subseteq Nat
    OBVIOUS
  <2>2. PICK m \in I : \A k \in I : m <= k
    <3> HIDE DEF I
    <3>1. QED
      BY <1>3, <2>1, LeastNumber
  <2>3. Min(I) \in I
    BY <2>2 DEF Min
  <2>4. Colon(line) \in 1..Len(line)
    BY <1>1, <1>3, <2>3
  <2>5. Content(line) = SubSeq(line, Colon(line) + 1, Len(line))
    BY <2>4 DEF Content
  <2>6. \A k \in (Colon(line) + 1)..Len(line) : line[k] \in Pieces
    BY <2>4
  <2>7. QED
    BY <2>4, <2>5, <2>6, SubSeqProperties
<1>4. QED
  BY <1>2, <1>3

LEMMA FieldOfBlank == Field(<<>>) = <<>>
<1>1. {k \in 1..Len(<<>>) : <<>>[k] = ":"} = {}
  OBVIOUS
<1>2. Colon(<<>>) = 0
  BY <1>1 DEF Colon, SelectInSeq
<1>3. QED
  BY <1>2 DEF Field

Contents(s) == [j \in DOMAIN s |-> Content(Line(s, j))]

LEMMA ContentsType ==
    ASSUME NEW s \in Seq(Pieces), NEW i \in 1..Len(s)
    PROVE  Contents(s)[i] = Content(Line(s, i)) /\ Contents(s)[i] \in Seq(Pieces)
<1>1. Line(s, i) \in Seq(Pieces)
  <2>1. i \in 1..(Len(s) + 1)
    OBVIOUS
  <2>2. QED
    BY <2>1, LineType
<1>2. QED
  BY <1>1, ContentType DEF Contents

LEMMA LastContentIs ==
    ASSUME NEW s \in Seq(Pieces), NEW i \in 1..(Len(s) + 1), NEW S, S \subseteq 1..(i - 1)
    PROVE  /\ LastContent(s, S) \in Seq(Pieces)
           /\ i <= Len(s) => LastContent(s, S \cup {i}) = Content(Line(s, i))
<1>1. LastContent(s, S) \in Seq(Pieces)
  <2>1. CASE S = {}
    BY <2>1 DEF LastContent
  <2>2. CASE S # {}
    <3>1. i - 1 \in Nat
      OBVIOUS
    <3>2. Latest(S) \in S \cup {0} /\ \A j \in S : j <= Latest(S)
      BY <3>1, LatestIsLast
    <3>3. PICK j \in S : j \in 1..(i - 1) /\ j <= Latest(S)
      BY <2>2, <3>2
    <3>4. Latest(S) \in 1..Len(s)
      <4>1. Latest(S) # 0
        BY <3>3
      <4>2. Latest(S) \in 1..(i - 1)
        BY <3>2, <4>1
      <4>3. QED
        BY <4>2
    <3>5. QED
      BY <2>2, <3>4, ContentsType DEF LastContent
  <2>3. QED
    BY <2>1, <2>2
<1>2. Latest(S \cup {i}) = i
  <2>1. S \cup {i} \subseteq Nat /\ \A j \in S \cup {i} : j <= i
    OBVIOUS
  <2>2. QED
    BY <2>1, LatestIs
<1>3. QED
  BY <1>1, <1>2 DEF LastContent

LEMMA EventIs ==
    ASSUME NEW s \in Seq(Pieces), NEW i \in 1..(Len(s) + 1)
    PROVE  /\ Event(s, i) = [data  |-> Listed(Contents(s), InBlock(s, i, "data")),
                             event |-> LastContent(s, InBlock(s, i, "event")),
                             id    |-> LastContent(s, Named(s, i, "id"))]
           /\ Event(s, i) \in Messages
           /\ Event(s, i).data = <<>> <=> InBlock(s, i, "data") = {}
<1> DEFINE S == InBlock(s, i, "data")
           o == Ordered(S)
<1>1. S \subseteq 1..(i - 1) /\ S \subseteq 1..Len(s)
  BY AllBefore
<1>2. \A k \in DOMAIN o : o[k] \in S
  BY <1>1, OrderedType, ElementOfSeq, LenProperties
<1>3. [k \in DOMAIN o |-> Content(Line(s, o[k]))] = Listed(Contents(s), S)
  <2> HIDE DEF S
  <2>1. \A k \in DOMAIN o : Contents(s)[o[k]] = Content(Line(s, o[k]))
    BY <1>1, <1>2, ContentsType
  <2>2. QED
    BY <2>1 DEF Listed
<1>4. /\ Listed(Contents(s), S) \in Seq(Seq(Pieces))
      /\ Listed(Contents(s), S) = <<>> <=> S = {}
  <2>1. \A j \in S : Contents(s)[j] \in Seq(Pieces)
    BY <1>1, ContentsType
  <2> DEFINE f == Contents(s)
             T == Seq(Pieces)
  <2>2. Len(s) \in Nat
    OBVIOUS
  <2> HIDE DEF S, f, T
  <2>3. \A j \in S : f[j] \in T
    BY <2>1 DEF f, T
  <2>4. Listed(f, S) \in Seq(T) /\ (Listed(f, S) = <<>> <=> S = {})
    BY <1>1, <2>2, <2>3, ListedType
  <2>5. QED
    BY <2>4 DEF f, T
<1>5. /\ LastContent(s, InBlock(s, i, "event")) \in Seq(Pieces)
      /\ LastContent(s, Named(s, i, "id")) \in Seq(Pieces)
  <2>1. InBlock(s, i, "event") \subseteq 1..(i - 1) /\ Named(s, i, "id") \subseteq 1..(i - 1)
    BY AllBefore
  <2>2. QED
    BY <2>1, LastContentIs
<1>6. QED
  <2>1. Event(s, i) = [data  |-> Listed(Contents(s), S),
                       event |-> LastContent(s, InBlock(s, i, "event")),
                       id    |-> LastContent(s, Named(s, i, "id"))]
    BY <1>3 DEF Event
  <2> HIDE DEF S
  <2>2. QED
    BY <1>4, <1>5, <2>1 DEF Messages, S

LEMMA EventNext ==
    ASSUME NEW s \in Seq(Pieces), NEW i \in 1..Len(s)
    PROVE  LET blank == i \in Ends(s) /\ Line(s, i) = <<>>
           IN  /\ Event(s, i + 1).data =
                    IF blank THEN <<>>
                    ELSE IF Ended(s, i, "data") THEN Append(Event(s, i).data, Content(Line(s, i)))
                    ELSE Event(s, i).data
               /\ Event(s, i + 1).event =
                    IF blank THEN <<>>
                    ELSE IF Ended(s, i, "event") THEN Content(Line(s, i))
                    ELSE Event(s, i).event
               /\ Event(s, i + 1).id =
                    IF Ended(s, i, "id") THEN Content(Line(s, i)) ELSE Event(s, i).id
<1> DEFINE blank == i \in Ends(s) /\ Line(s, i) = <<>>
           S == InBlock(s, i, "data")
<1>1. i \in 1..(Len(s) + 1) /\ i + 1 \in 1..(Len(s) + 1) /\ i - 1 \in Nat
  OBVIOUS
<1>2. /\ Event(s, i).data = Listed(Contents(s), S)
      /\ Event(s, i).event = LastContent(s, InBlock(s, i, "event"))
      /\ Event(s, i).id = LastContent(s, Named(s, i, "id"))
  BY <1>1, EventIs
<1>3. /\ Event(s, i + 1).data = Listed(Contents(s), InBlock(s, i + 1, "data"))
      /\ Event(s, i + 1).event = LastContent(s, InBlock(s, i + 1, "event"))
      /\ Event(s, i + 1).id = LastContent(s, Named(s, i + 1, "id"))
  BY <1>1, EventIs
<1>4. Listed(Contents(s), S \cup {i}) = Append(Listed(Contents(s), S), Content(Line(s, i)))
  <2> DEFINE f == Contents(s)
             T == Seq(Pieces)
  <2>1. S \subseteq 1..(i - 1)
    BY <1>1, AllBefore
  <2>2. \A j \in S \cup {i} : f[j] \in T
    <3>1. \A j \in S \cup {i} : j \in 1..Len(s)
      BY <2>1
    <3> HIDE DEF S
    <3>2. QED
      BY <3>1, ContentsType
  <2>3. i > i - 1 /\ i \in Nat
    OBVIOUS
  <2> HIDE DEF S, f, T
  <2>4. Listed(f, S \cup {i}) = Append(Listed(f, S), f[i])
    BY <1>1, <2>1, <2>2, <2>3, ListedAdded
  <2>5. QED
    BY <2>4, ContentsType DEF f
<1>5. /\ LastContent(s, InBlock(s, i, "event") \cup {i}) = Content(Line(s, i))
      /\ LastContent(s, Named(s, i, "id") \cup {i}) = Content(Line(s, i))
  <2>1. InBlock(s, i, "event") \subseteq 1..(i - 1) /\ Named(s, i, "id") \subseteq 1..(i - 1)
    BY <1>1, AllBefore
  <2>2. i <= Len(s)
    OBVIOUS
  <2>3. QED
    BY <1>1, <2>1, <2>2, LastContentIs
<1>6. Listed(Contents(s), {}) = <<>>
  BY OrderedNone DEF Listed
<1>7. LastContent(s, {}) = <<>>
  BY DEF LastContent
<1> HIDE DEF S
<1>8. Event(s, i + 1).data = IF blank THEN <<>>
                             ELSE IF Ended(s, i, "data")
                                  THEN Append(Event(s, i).data, Content(Line(s, i)))
                             ELSE Event(s, i).data
  BY <1>2, <1>3, <1>4, <1>6, InBlockNext DEF S
<1>9. Event(s, i + 1).event = IF blank THEN <<>>
                              ELSE IF Ended(s, i, "event") THEN Content(Line(s, i))
                              ELSE Event(s, i).event
  BY <1>2, <1>3, <1>5, <1>7, InBlockNext
<1>10. Event(s, i + 1).id =
         IF Ended(s, i, "id") THEN Content(Line(s, i)) ELSE Event(s, i).id
  BY <1>2, <1>3, <1>5, NamedNext
<1>11. QED
  BY <1>8, <1>9, <1>10

-----------------------------------------------------------------------------
(* The parser, piece by piece *)

Parsers == [line : Seq(Pieces), skipLF : BOOLEAN, data : Seq(Seq(Pieces)),
            event : Seq(Pieces), id : Seq(Pieces), out : Seq(Messages)]

\* The parser stands in front of i and has seen what came before.
At(s, i, p) ==
    /\ p.line = Line(s, i)
    /\ p.skipLF <=> i > 1 /\ s[i - 1] = "CR"
    /\ p.data = Event(s, i).data /\ p.event = Event(s, i).event /\ p.id = Event(s, i).id

LEMMA ConsumeLineIs ==
    ASSUME NEW q \in Parsers
    PROVE  ConsumeLine(q) =
             [line   |-> <<>>,
              skipLF |-> q.skipLF,
              data   |-> IF q.line = <<>> THEN <<>>
                         ELSE IF Field(q.line) = <<"data">> THEN Append(q.data, Content(q.line))
                         ELSE q.data,
              event  |-> IF q.line = <<>> THEN <<>>
                         ELSE IF Field(q.line) = <<"event">> THEN Content(q.line)
                         ELSE q.event,
              id     |-> IF q.line # <<>> /\ Field(q.line) = <<"id">> THEN Content(q.line) ELSE q.id,
              out    |-> IF q.line = <<>> /\ q.data # <<>>
                         THEN Append(q.out, [data |-> q.data, event |-> q.event, id |-> q.id])
                         ELSE q.out]
<1>1. q = [line |-> q.line, skipLF |-> q.skipLF, data |-> q.data, event |-> q.event,
           id |-> q.id, out |-> q.out]
  BY DEF Parsers
<1>2. PICK m : m = [data |-> q.data, event |-> q.event, id |-> q.id]
  OBVIOUS
<1>3. <<"data">> # <<"event">> /\ <<"data">> # <<"id">> /\ <<"event">> # <<"id">>
  OBVIOUS
<1>4. CASE q.line = <<>>
  <2>1. Field(q.line) \notin {<<"data">>, <<"event">>, <<"id">>}
    BY <1>4, FieldOfBlank
  <2>2. ConsumeLine(q) =
          [[q EXCEPT !.line = <<>>] EXCEPT
             !.data = <<>>, !.event = <<>>, !.out = IF q.data = <<>> THEN @ ELSE Append(@, m)]
    BY <1>1, <1>2, <1>4, <2>1 DEF ConsumeLine
  <2>3. QED
    BY <1>1, <1>2, <1>4, <2>2
<1>5. CASE q.line # <<>> /\ Field(q.line) = <<"data">>
  BY <1>1, <1>3, <1>5 DEF ConsumeLine
<1>6. CASE q.line # <<>> /\ Field(q.line) = <<"event">>
  BY <1>1, <1>3, <1>6 DEF ConsumeLine
<1>7. CASE q.line # <<>> /\ Field(q.line) = <<"id">>
  BY <1>1, <1>3, <1>7 DEF ConsumeLine
<1>8. CASE q.line # <<>> /\ Field(q.line) \notin {<<"data">>, <<"event">>, <<"id">>}
  BY <1>1, <1>8 DEF ConsumeLine
<1>9. QED
  BY <1>4, <1>5, <1>6, <1>7, <1>8

LEMMA ConsumeLineFields ==
    ASSUME NEW q \in Parsers, NEW r, r = ConsumeLine(q)
    PROVE  /\ r.line = <<>> /\ r.skipLF = q.skipLF
           /\ r.data = IF q.line = <<>> THEN <<>>
                       ELSE IF Field(q.line) = <<"data">> THEN Append(q.data, Content(q.line))
                       ELSE q.data
           /\ r.event = IF q.line = <<>> THEN <<>>
                        ELSE IF Field(q.line) = <<"event">> THEN Content(q.line)
                        ELSE q.event
           /\ r.id = IF q.line # <<>> /\ Field(q.line) = <<"id">> THEN Content(q.line) ELSE q.id
           /\ r.out = IF q.line = <<>> /\ q.data # <<>>
                      THEN Append(q.out, [data |-> q.data, event |-> q.event, id |-> q.id])
                      ELSE q.out
<1> DEFINE data == IF q.line = <<>> THEN <<>>
                   ELSE IF Field(q.line) = <<"data">> THEN Append(q.data, Content(q.line))
                   ELSE q.data
           event == IF q.line = <<>> THEN <<>>
                    ELSE IF Field(q.line) = <<"event">> THEN Content(q.line)
                    ELSE q.event
           id == IF q.line # <<>> /\ Field(q.line) = <<"id">> THEN Content(q.line) ELSE q.id
           out == IF q.line = <<>> /\ q.data # <<>>
                  THEN Append(q.out, [data |-> q.data, event |-> q.event, id |-> q.id])
                  ELSE q.out
<1>1. r = [line |-> <<>>, skipLF |-> q.skipLF, data |-> data, event |-> event,
           id |-> id, out |-> out]
  BY ConsumeLineIs
<1>2. /\ r.line = <<>> /\ r.skipLF = q.skipLF
      /\ r.data = data /\ r.event = event /\ r.id = id /\ r.out = out
  <2> HIDE DEF data, event, id, out
  <2>1. QED
    BY <1>1
<1>3. QED
  BY <1>2

LEMMA ConsumeLineType ==
    ASSUME NEW q \in Parsers
    PROVE  ConsumeLine(q) \in Parsers
<1>1. /\ q.line \in Seq(Pieces) /\ q.skipLF \in BOOLEAN /\ q.data \in Seq(Seq(Pieces))
      /\ q.event \in Seq(Pieces) /\ q.id \in Seq(Pieces) /\ q.out \in Seq(Messages)
  BY DEF Parsers
<1>2. Content(q.line) \in Seq(Pieces)
  BY <1>1, ContentType
<1>3. Append(q.data, Content(q.line)) \in Seq(Seq(Pieces))
  BY <1>1, <1>2, AppendProperties
<1>4. Append(q.out, [data |-> q.data, event |-> q.event, id |-> q.id]) \in Seq(Messages)
  <2>1. [data |-> q.data, event |-> q.event, id |-> q.id] \in Messages
    BY <1>1 DEF Messages
  <2>2. QED
    BY <1>1, <2>1, AppendProperties
<1>5. <<>> \in Seq(Pieces) /\ <<>> \in Seq(Seq(Pieces))
  BY EmptySeq
<1>6. PICK data, event, id, out :
          /\ data \in Seq(Seq(Pieces)) /\ event \in Seq(Pieces) /\ id \in Seq(Pieces)
          /\ out \in Seq(Messages)
          /\ ConsumeLine(q) = [line |-> <<>>, skipLF |-> q.skipLF, data |-> data,
                               event |-> event, id |-> id, out |-> out]
  BY <1>1, <1>2, <1>3, <1>4, <1>5, ConsumeLineIs, Zenon
<1>7. QED
  BY <1>1, <1>5, <1>6 DEF Parsers

LEMMA ConsumeType ==
    ASSUME NEW p \in Parsers, NEW x \in Pieces
    PROVE  Consume(p, x) \in Parsers
<1> DEFINE q == [p EXCEPT !.skipLF = (x = "CR")]
<1>1. q \in Parsers /\ q.line = p.line
  BY DEF Parsers
<1>2. Append(p.line, x) \in Seq(Pieces)
  BY DEF Parsers
<1>3. ConsumeLine(q) \in Parsers
  <2> HIDE DEF q
  <2>1. QED
    BY <1>1, ConsumeLineType
<1>4. QED
  BY <1>1, <1>2, <1>3 DEF Consume, Parsers

LEMMA ConsumeAt ==
    ASSUME NEW s \in Seq(Pieces), NEW i \in 1..Len(s), NEW p \in Parsers, At(s, i, p)
    PROVE  /\ At(s, i + 1, Consume(p, s[i]))
           /\ Consume(p, s[i]).out =
                IF i \in Dispatches(s) THEN Append(p.out, Event(s, i)) ELSE p.out
<1> DEFINE q == [p EXCEPT !.skipLF = (s[i] = "CR")]
           line == Line(s, i)
           r == Consume(p, s[i])
<1>1. /\ p.line = line /\ (p.skipLF <=> i > 1 /\ s[i - 1] = "CR")
      /\ p.data = Event(s, i).data /\ p.event = Event(s, i).event /\ p.id = Event(s, i).id
  BY DEF At
<1>2. /\ q \in Parsers /\ q.line = line /\ (q.skipLF <=> s[i] = "CR")
      /\ q.data = p.data /\ q.event = p.event /\ q.id = p.id /\ q.out = p.out
  BY <1>1 DEF Parsers
<1>3. i + 1 > 1 /\ s[(i + 1) - 1] = s[i]
  OBVIOUS
<1>4. i \in Ends(s) <=> s[i] \in {"CR", "LF"} /\ ~(p.skipLF /\ s[i] = "LF")
  BY <1>1 DEF Ends
<1>5. Event(s, i) = [data |-> q.data, event |-> q.event, id |-> q.id]
  <2>1. i \in 1..(Len(s) + 1)
    OBVIOUS
  <2>2. Event(s, i) \in Messages
    BY <2>1, EventIs
  <2>3. QED
    BY <1>1, <1>2, <2>2 DEF Messages
<1>6. i \in Dispatches(s) <=> i \in Ends(s) /\ line = <<>> /\ q.data # <<>>
  <2>1. i \in 1..(Len(s) + 1)
    OBVIOUS
  <2>2. QED
    BY <1>1, <1>2, <2>1, EventIs DEF Dispatches
<1> HIDE DEF q
<1>7. CASE p.skipLF /\ s[i] = "LF"
  <2>1. r = q
    BY <1>7 DEF Consume, q
  <2>2. i - 1 \in 1..Len(s) /\ (i - 1) + 1 = i /\ s[i - 1] = "CR"
    BY <1>1, <1>7
  <2>3. line = <<>>
    BY <2>2, LineNext
  <2>4. Line(s, i + 1) = <<>>
    BY <1>7, LineNext
  <2>5. i \notin Ends(s) /\ \A name : ~Ended(s, i, name)
    BY <1>4, <1>7 DEF Ended
  <2>6. /\ Event(s, i + 1).data = Event(s, i).data /\ Event(s, i + 1).event = Event(s, i).event
        /\ Event(s, i + 1).id = Event(s, i).id
    BY <2>5, EventNext
  <2>7. QED
    BY <1>1, <1>2, <1>3, <1>6, <2>1, <2>3, <2>4, <2>5, <2>6 DEF At
<1>8. CASE i \in Ends(s)
  <2>1. r = ConsumeLine(q)
    BY <1>4, <1>8 DEF Consume, q
  <2>2. Line(s, i + 1) = <<>>
    BY <1>4, <1>8, LineNext
  <2>3. /\ r.line = <<>> /\ r.skipLF = q.skipLF
        /\ r.data = IF line = <<>> THEN <<>>
                    ELSE IF Field(line) = <<"data">> THEN Append(q.data, Content(line))
                    ELSE q.data
        /\ r.event = IF line = <<>> THEN <<>>
                     ELSE IF Field(line) = <<"event">> THEN Content(line)
                     ELSE q.event
        /\ r.id = IF line # <<>> /\ Field(line) = <<"id">> THEN Content(line) ELSE q.id
        /\ r.out = IF line = <<>> /\ q.data # <<>> THEN Append(q.out, Event(s, i)) ELSE q.out
    <3>1. q \in Parsers /\ q.line = line
      BY <1>2
    <3> HIDE DEF r, line
    <3>2. QED
      BY <1>5, <2>1, <3>1, ConsumeLineFields
  <2>4. \A name : Ended(s, i, name) <=> Field(line) = <<name>>
    BY <1>8 DEF Ended
  <2>5. line = <<>> => Field(line) # <<"id">>
    BY FieldOfBlank
  <2>6. r.data = Event(s, i + 1).data
    BY <1>1, <1>2, <1>8, <2>3, <2>4, EventNext
  <2>7. r.event = Event(s, i + 1).event
    BY <1>1, <1>2, <1>8, <2>3, <2>4, EventNext
  <2>8. r.id = Event(s, i + 1).id
    BY <1>1, <1>2, <1>8, <2>3, <2>4, <2>5, EventNext
  <2>9. At(s, i + 1, r)
    BY <1>2, <1>3, <2>2, <2>3, <2>6, <2>7, <2>8 DEF At
  <2>10. QED
    BY <1>2, <1>6, <1>8, <2>3, <2>9
<1>9. CASE s[i] \notin {"CR", "LF"}
  <2>1. r = [q EXCEPT !.line = Append(@, s[i])]
    BY <1>9 DEF Consume, q
  <2>2. /\ r.line = Append(line, s[i]) /\ r.skipLF = q.skipLF /\ r.data = q.data
        /\ r.event = q.event /\ r.id = q.id /\ r.out = q.out
    BY <1>2, <2>1 DEF Parsers
  <2>3. Line(s, i + 1) = Append(line, s[i])
    BY <1>9, LineNext
  <2>4. i \notin Ends(s) /\ \A name : ~Ended(s, i, name)
    BY <1>4, <1>9 DEF Ended
  <2>5. /\ Event(s, i + 1).data = Event(s, i).data /\ Event(s, i + 1).event = Event(s, i).event
        /\ Event(s, i + 1).id = Event(s, i).id
    BY <2>4, EventNext
  <2>6. QED
    BY <1>1, <1>2, <1>3, <1>6, <2>2, <2>3, <2>4, <2>5 DEF At
<1>10. QED
  BY <1>4, <1>7, <1>8, <1>9

-----------------------------------------------------------------------------
(* The events in front of a piece *)

EventsAt(s) == [j \in DOMAIN s |-> Event(s, j)]
DispatchesBefore(s, i) == {j \in Dispatches(s) : j < i}
Upto(s, i) == Listed(EventsAt(s), DispatchesBefore(s, i))

LEMMA EventsAtType ==
    ASSUME NEW s \in Seq(Pieces), NEW i \in 1..Len(s)
    PROVE  EventsAt(s)[i] = Event(s, i) /\ EventsAt(s)[i] \in Messages
<1>1. i \in 1..(Len(s) + 1)
  OBVIOUS
<1>2. QED
  BY <1>1, EventIs DEF EventsAt

LEMMA DispatchesNext ==
    ASSUME NEW s \in Seq(Pieces), NEW i \in 1..(Len(s) + 1)
    PROVE  /\ DispatchesBefore(s, i) \subseteq 1..(i - 1)
           /\ DispatchesBefore(s, i) \subseteq 1..Len(s)
           /\ i <= Len(s) =>
                DispatchesBefore(s, i + 1) = IF i \in Dispatches(s) THEN DispatchesBefore(s, i) \cup {i}
                                             ELSE DispatchesBefore(s, i)
           /\ DispatchesBefore(s, 1) = {}
           /\ DispatchesBefore(s, Len(s) + 1) = Dispatches(s)
<1>1. Dispatches(s) \subseteq 1..Len(s)
  BY DEF Dispatches, Ends
<1>2. QED
  BY <1>1 DEF DispatchesBefore

LEMMA UptoType ==
    ASSUME NEW s \in Seq(Pieces), NEW i \in 1..(Len(s) + 1)
    PROVE  Upto(s, i) \in Seq(Messages)
<1> DEFINE S == DispatchesBefore(s, i)
           f == EventsAt(s)
<1>1. S \subseteq 1..Len(s)
  BY DispatchesNext, Zenon
<1>2. \A j \in S : f[j] \in Messages
  BY <1>1, EventsAtType
<1> HIDE DEF S, f
<1>3. Len(s) \in Nat
  OBVIOUS
<1>4. Listed(f, S) \in Seq(Messages)
  BY <1>1, <1>2, <1>3, ListedType
<1>5. QED
  BY <1>4 DEF Upto, S, f

LEMMA UptoNext ==
    ASSUME NEW s \in Seq(Pieces), NEW i \in 1..Len(s)
    PROVE  Upto(s, i + 1) = IF i \in Dispatches(s) THEN Append(Upto(s, i), Event(s, i)) ELSE Upto(s, i)
<1> DEFINE S == DispatchesBefore(s, i)
           f == EventsAt(s)
<1>1. i \in 1..(Len(s) + 1) /\ i <= Len(s) /\ i - 1 \in Nat /\ i > i - 1 /\ i \in Nat
  OBVIOUS
<1>2. /\ S \subseteq 1..(i - 1)
      /\ DispatchesBefore(s, i + 1) = IF i \in Dispatches(s) THEN S \cup {i} ELSE S
  BY <1>1, DispatchesNext
<1>3. CASE i \in Dispatches(s)
  <2>1. \A j \in S \cup {i} : f[j] \in Messages
    <3>1. \A j \in S \cup {i} : j \in 1..Len(s)
      BY <1>1, <1>2
    <3> HIDE DEF S
    <3>2. QED
      BY <3>1, EventsAtType
  <2>2. f[i] = Event(s, i)
    BY EventsAtType
  <2> HIDE DEF S, f
  <2>3. S \subseteq 1..(i - 1)
    BY <1>2
  <2>4. Listed(f, S \cup {i}) = Append(Listed(f, S), f[i])
    BY <1>1, <2>1, <2>3, ListedAdded
  <2>5. QED
    BY <1>2, <1>3, <2>2, <2>4 DEF Upto, S, f
<1>4. CASE i \notin Dispatches(s)
  BY <1>2, <1>4 DEF Upto
<1>5. QED
  BY <1>3, <1>4

LEMMA UptoFirst == \A s \in Seq(Pieces) : Upto(s, 1) = <<>>
<1> SUFFICES ASSUME NEW s \in Seq(Pieces) PROVE Upto(s, 1) = <<>>
  OBVIOUS
<1>1. 1 \in 1..(Len(s) + 1)
  OBVIOUS
<1>2. DispatchesBefore(s, 1) = {}
  BY <1>1, DispatchesNext
<1>3. Listed(EventsAt(s), {}) = <<>>
  BY OrderedNone DEF Listed
<1>4. QED
  BY <1>2, <1>3 DEF Upto

LEMMA UptoLast == \A s \in Seq(Pieces) : Upto(s, Len(s) + 1) = Events(s)
<1> SUFFICES ASSUME NEW s \in Seq(Pieces) PROVE Upto(s, Len(s) + 1) = Events(s)
  OBVIOUS
<1> DEFINE S == Dispatches(s)
           o == Ordered(S)
<1>1. Len(s) + 1 \in 1..(Len(s) + 1) /\ Len(s) \in Nat
  OBVIOUS
<1>2. DispatchesBefore(s, Len(s) + 1) = S /\ S \subseteq 1..Len(s)
  BY <1>1, DispatchesNext
<1>3. \A k \in DOMAIN o : o[k] \in 1..Len(s)
  <2> HIDE DEF S
  <2>1. \A k \in DOMAIN o : o[k] \in S
    BY <1>1, <1>2, OrderedType, ElementOfSeq, LenProperties
  <2>2. QED
    BY <1>2, <2>1
<1>4. \A k \in DOMAIN o : EventsAt(s)[o[k]] = Event(s, o[k])
  BY <1>3, EventsAtType
<1>5. QED
  BY <1>2, <1>4 DEF Upto, Events, Listed

LEMMA PrefixAppend ==
    ASSUME NEW T, NEW a \in Seq(T), NEW b \in Seq(T), NEW e \in T, IsPrefix(a, b)
    PROVE  IsPrefix(a, Append(b, e))
<1>1. Len(Append(b, e)) = Len(b) + 1 /\ \A k \in 1..Len(b) : Append(b, e)[k] = b[k]
  OBVIOUS
<1>2. Len(a) \in Nat /\ Len(a) <= Len(b) /\ SubSeq(a, 1, Len(a)) = SubSeq(b, 1, Len(a))
  BY DEF IsPrefix
<1>3. SubSeq(Append(b, e), 1, Len(a)) = SubSeq(b, 1, Len(a))
  BY <1>1, <1>2
<1>4. QED
  BY <1>1, <1>2, <1>3 DEF IsPrefix

LEMMA UptoPrefix ==
    ASSUME NEW s \in Seq(Pieces), NEW i \in 1..(Len(s) + 1)
    PROVE  IsPrefix(Upto(s, i), Events(s))
<1> DEFINE Bad == {n \in Nat : i + n <= Len(s) + 1 /\ ~IsPrefix(Upto(s, i), Upto(s, i + n))}
<1>1. Bad = {}
  <2> SUFFICES ASSUME Bad # {} PROVE FALSE
    OBVIOUS
  <2>1. PICK n \in Bad : \A m \in Bad : n <= m
    <3>1. Bad \subseteq Nat
      OBVIOUS
    <3> HIDE DEF Bad
    <3>2. QED
      BY <3>1, LeastNumber
  <2>2. CASE n = 0
    <3>1. i + 0 = i
      OBVIOUS
    <3>2. IsPrefix(Upto(s, i), Upto(s, i))
      BY UptoType DEF IsPrefix
    <3>3. QED
      BY <2>2, <3>1, <3>2
  <2>3. CASE n # 0
    <3>1. PICK o \in Nat : n = o + 1
      BY <2>3
    <3>2. ~(n <= o) /\ i + o <= Len(s) + 1
      BY <3>1
    <3>3. IsPrefix(Upto(s, i), Upto(s, i + o))
      BY <2>1, <3>2
    <3>4. /\ i + o \in 1..Len(s) /\ i + n = (i + o) + 1 /\ i + o \in 1..(Len(s) + 1)
      BY <3>1
    <3>5. /\ Upto(s, i) \in Seq(Messages) /\ Upto(s, i + o) \in Seq(Messages)
          /\ Event(s, i + o) \in Messages
      BY <3>4, UptoType, EventIs
    <3>6. IsPrefix(Upto(s, i), Append(Upto(s, i + o), Event(s, i + o)))
      BY <3>3, <3>5, PrefixAppend
    <3>7. IsPrefix(Upto(s, i), Upto(s, i + n))
      BY <3>3, <3>4, <3>6, UptoNext
    <3>8. QED
      BY <3>7
  <2>4. QED
    BY <2>2, <2>3
<1>2. PICK n \in Nat : i + n = Len(s) + 1
  OBVIOUS
<1>3. IsPrefix(Upto(s, i), Upto(s, Len(s) + 1))
  <2>1. i + n <= Len(s) + 1 /\ (~IsPrefix(Upto(s, i), Upto(s, i + n)) => n \in Bad)
    BY <1>2
  <2>2. IsPrefix(Upto(s, i), Upto(s, i + n))
    BY <1>1, <2>1
  <2>3. QED
    BY <1>2, <2>2
<1>4. QED
  BY <1>3, UptoLast

-----------------------------------------------------------------------------
(* What came before does not depend on what follows *)

LEMMA SameLines ==
    ASSUME NEW s \in Seq(Pieces), NEW d \in Seq(Pieces), NEW i \in 1..(Len(s) + 1)
    PROVE  /\ Line(s \o d, i) = Line(s, i)
           /\ i <= Len(s) => (i \in Ends(s \o d) <=> i \in Ends(s))
<1> DEFINE t == s \o d
           b == Latest(Breaks(s, i))
<1>1. /\ t \in Seq(Pieces) /\ Len(t) = Len(s) + Len(d) /\ Len(d) \in Nat
      /\ \A j \in 1..Len(s) : t[j] = s[j]
  BY ConcatProperties
<1>2. Breaks(t, i) = Breaks(s, i)
  <2> HIDE DEF t
  <2>1. \A j \in 1..(i - 1) : t[j] = s[j]
    BY <1>1
  <2>2. QED
    BY <2>1 DEF Breaks
<1>3. b \in 0..(i - 1)
  <2>1. Breaks(s, i) \subseteq 1..(i - 1) /\ i - 1 \in Nat
    BY DEF Breaks
  <2>2. QED
    BY <2>1, LatestIsLast
<1>4. SubSeq(t, b + 1, i - 1) = SubSeq(s, b + 1, i - 1)
  <2> HIDE DEF b
  <2>1. CASE b + 1 <= i - 1
    <3>1. b + 1 \in 1..Len(s) /\ i - 1 \in 1..Len(s)
      BY <1>3, <2>1
    <3>2. QED
      BY <3>1, SubSeqOfConcat1
  <2>2. CASE b + 1 > i - 1
    <3>1. i - 1 < b + 1 /\ b + 1 \in Int /\ i - 1 \in Int
      BY <1>3, <2>2
    <3>2. QED
      BY <3>1, SubSeqEmpty
  <2>3. QED
    BY <1>3, <2>1, <2>2
<1>5. Line(t, i) = Line(s, i)
  BY <1>2, <1>4 DEF Line, Breaks
<1>6. i <= Len(s) => (i \in Ends(t) <=> i \in Ends(s))
  <2> HIDE DEF t
  <2>1. i <= Len(s) => t[i] = s[i] /\ (i # 1 => t[i - 1] = s[i - 1])
    BY <1>1
  <2>2. i <= Len(s) => i \in DOMAIN s /\ i \in DOMAIN t
    BY <1>1
  <2>3. QED
    BY <2>1, <2>2 DEF Ends
<1>7. QED
  BY <1>5, <1>6

LEMMA SamePast ==
    ASSUME NEW s \in Seq(Pieces), NEW d \in Seq(Pieces), NEW i \in 1..(Len(s) + 1)
    PROVE  /\ Event(s \o d, i) = Event(s, i)
           /\ InBlock(s \o d, i, "data") = InBlock(s, i, "data")
<1> DEFINE t == s \o d
<1>1. t \in Seq(Pieces) /\ Len(t) = Len(s) + Len(d) /\ Len(d) \in Nat
  BY ConcatProperties
<1>2. \A j \in 1..(i - 1) : Line(t, j) = Line(s, j) /\ (j \in Ends(t) <=> j \in Ends(s))
  <2>1. ASSUME NEW j \in 1..(i - 1)
        PROVE  Line(t, j) = Line(s, j) /\ (j \in Ends(t) <=> j \in Ends(s))
    <3>1. j \in 1..(Len(s) + 1) /\ j <= Len(s)
      OBVIOUS
    <3>2. QED
      BY <3>1, SameLines
  <2>2. QED
    BY <2>1
<1>3. Ends(t) \subseteq Nat \ {0} /\ Ends(s) \subseteq Nat \ {0}
  BY <1>1 DEF Ends
<1>4. \A j \in Nat \ {0} : j < i => j \in 1..(i - 1)
  OBVIOUS
<1>5. i \in 1..(Len(t) + 1) /\ i - 1 \in Nat
  BY <1>1
<1> HIDE DEF t
<1>6. Blanks(t, i) = Blanks(s, i)
  BY <1>2, <1>3, <1>4 DEF Blanks
<1>7. \A name : Named(t, i, name) = Named(s, i, name)
  BY <1>2, <1>3, <1>4 DEF Named
<1>8. \A name : InBlock(t, i, name) = InBlock(s, i, name)
  BY <1>6, <1>7 DEF InBlock
<1>9. ASSUME NEW S, S \subseteq 1..(i - 1) PROVE LastContent(t, S) = LastContent(s, S)
  <2>1. CASE S = {}
    BY <2>1 DEF LastContent
  <2>2. CASE S # {}
    <3>1. Latest(S) \in S \cup {0} /\ \A j \in S : j <= Latest(S)
      BY <1>5, <1>9, LatestIsLast
    <3>2. PICK j \in S : j \in 1..(i - 1) /\ j <= Latest(S)
      BY <1>9, <2>2, <3>1
    <3>3. Latest(S) \in 1..(i - 1)
      <4>1. Latest(S) # 0
        BY <3>2
      <4>2. QED
        BY <1>9, <3>1, <4>1
    <3>4. QED
      BY <1>2, <2>2, <3>3 DEF LastContent
  <2>3. QED
    BY <2>1, <2>2
<1>10. /\ LastContent(t, InBlock(s, i, "event")) = LastContent(s, InBlock(s, i, "event"))
       /\ LastContent(t, Named(s, i, "id")) = LastContent(s, Named(s, i, "id"))
  <2>1. InBlock(s, i, "event") \subseteq 1..(i - 1) /\ Named(s, i, "id") \subseteq 1..(i - 1)
    BY AllBefore
  <2>2. QED
    BY <1>9, <2>1
<1>11. Listed(Contents(t), InBlock(s, i, "data")) = Listed(Contents(s), InBlock(s, i, "data"))
  <2> DEFINE S == InBlock(s, i, "data")
  <2>1. S \subseteq 1..(i - 1)
    BY AllBefore
  <2>2. ASSUME NEW j \in S PROVE Contents(t)[j] = Contents(s)[j]
    <3>1. j \in 1..(i - 1)
      BY <2>1
    <3>2. j \in 1..Len(s) /\ j \in 1..Len(t)
      BY <1>5, <3>1
    <3>3. QED
      BY <1>1, <1>2, <3>1, <3>2, ContentsType
  <2> HIDE DEF S
  <2>3. QED
    BY <1>5, <2>1, <2>2, ListedSame DEF S
<1>12. Event(t, i) = Event(s, i)
  <2>1. Event(t, i) = [data  |-> Listed(Contents(t), InBlock(t, i, "data")),
                       event |-> LastContent(t, InBlock(t, i, "event")),
                       id    |-> LastContent(t, Named(t, i, "id"))]
    BY <1>1, <1>5, EventIs
  <2>2. Event(s, i) = [data  |-> Listed(Contents(s), InBlock(s, i, "data")),
                       event |-> LastContent(s, InBlock(s, i, "event")),
                       id    |-> LastContent(s, Named(s, i, "id"))]
    BY EventIs
  <2>3. QED
    BY <1>7, <1>8, <1>10, <1>11, <2>1, <2>2
<1>13. QED
  BY <1>8, <1>12 DEF t

LEMMA SameUpto ==
    ASSUME NEW s \in Seq(Pieces), NEW d \in Seq(Pieces), NEW i \in 1..(Len(s) + 1)
    PROVE  Upto(s \o d, i) = Upto(s, i)
<1> DEFINE t == s \o d
           S == DispatchesBefore(s, i)
<1>1. t \in Seq(Pieces) /\ Len(t) = Len(s) + Len(d) /\ Len(d) \in Nat
  BY ConcatProperties
<1>2. ASSUME NEW j \in 1..(i - 1)
      PROVE  /\ j \in Dispatches(t) <=> j \in Dispatches(s)
             /\ EventsAt(t)[j] = EventsAt(s)[j]
  <2>1. j \in 1..(Len(s) + 1) /\ j <= Len(s) /\ j \in 1..Len(s) /\ j \in 1..Len(t)
    BY <1>1
  <2>2. /\ Line(t, j) = Line(s, j) /\ (j \in Ends(t) <=> j \in Ends(s))
        /\ Event(t, j) = Event(s, j)
        /\ InBlock(t, j, "data") = InBlock(s, j, "data")
    BY <2>1, SameLines, SamePast
  <2> HIDE DEF t
  <2>3. QED
    BY <1>1, <2>1, <2>2, EventsAtType DEF Dispatches
<1>3. i \in 1..(Len(t) + 1) /\ i - 1 \in Nat
  BY <1>1
<1>4. S \subseteq 1..(i - 1) /\ DispatchesBefore(t, i) \subseteq 1..(i - 1)
  <2> HIDE DEF t
  <2>1. QED
    BY <1>1, <1>3, DispatchesNext, Zenon
<1> HIDE DEF t
<1>5. DispatchesBefore(t, i) = S
  BY <1>2, <1>4 DEF DispatchesBefore
<1>6. Listed(EventsAt(t), S) = Listed(EventsAt(s), S)
  <2> HIDE DEF S
  <2>1. QED
    BY <1>2, <1>3, <1>4, ListedSame
<1>7. QED
  BY <1>5, <1>6 DEF Upto, t

-----------------------------------------------------------------------------
(* A chunk *)

\* Parse is what its equations say.
LEMMA ParseIs ==
    ASSUME NEW p \in Parsers, NEW pieces \in Seq(Pieces)
    PROVE  /\ Parse(p, pieces) \in [0..Len(pieces) -> Parsers]
           /\ Parse(p, pieces)[0] = [p EXCEPT !.out = <<>>]
           /\ \A k \in 1..Len(pieces) :
                Parse(p, pieces)[k] = Consume(Parse(p, pieces)[k - 1], pieces[k])
<1> DEFINE first == [p EXCEPT !.out = <<>>]
           Is(g, n) == /\ g \in [0..n -> Parsers] /\ g[0] = first
                       /\ \A k \in 1..n : g[k] = Consume(g[k - 1], pieces[k])
           Bad == {n \in 0..Len(pieces) : ~ \E g : Is(g, n)}
<1>1. first \in Parsers
  BY EmptySeq DEF Parsers
<1> HIDE DEF first
<1>2. Bad = {}
  <2> SUFFICES ASSUME Bad # {} PROVE FALSE
    OBVIOUS
  <2>1. PICK n \in Bad : \A m \in Bad : n <= m
    <3>1. Bad \subseteq Nat
      OBVIOUS
    <3> HIDE DEF Bad
    <3>2. QED
      BY <3>1, LeastNumber
  <2>2. CASE n = 0
    <3>1. Is([k \in 0..0 |-> first], 0)
      BY <1>1
    <3>2. QED
      BY <2>1, <2>2, <3>1
  <2>3. CASE n # 0
    <3>1. n - 1 \in 0..Len(pieces) /\ ~(n <= n - 1) /\ n \in 1..Len(pieces)
      BY <2>3
    <3>2. n - 1 \notin Bad
      BY <2>1, <3>1
    <3>3. PICK g : Is(g, n - 1)
      <4> HIDE DEF Is
      <4>1. QED
        BY <3>1, <3>2
    <3> DEFINE last == Consume(g[n - 1], pieces[n])
               h == [k \in 0..n |-> IF k = n THEN last ELSE g[k]]
    <3>4. last \in Parsers
      <4>1. g[n - 1] \in Parsers /\ pieces[n] \in Pieces
        BY <3>1, <3>3
      <4>2. QED
        BY <4>1, ConsumeType
    <3> HIDE DEF last
    <3>5. h \in [0..n -> Parsers] /\ h[0] = first
      BY <3>1, <3>3, <3>4
    <3>6. ASSUME NEW k \in 1..n PROVE h[k] = Consume(h[k - 1], pieces[k])
      <4>1. CASE k = n
        <5>1. h[k] = last /\ h[k - 1] = g[n - 1]
          BY <3>1, <4>1
        <5>2. QED
          BY <4>1, <5>1 DEF last
      <4>2. CASE k # n
        <5>1. k \in 1..(n - 1) /\ h[k] = g[k] /\ h[k - 1] = g[k - 1]
          BY <3>1, <4>2
        <5> HIDE DEF h
        <5>2. QED
          BY <3>3, <5>1
      <4>3. QED
        BY <4>1, <4>2
    <3>7. Is(h, n)
      BY <3>5, <3>6
    <3>8. QED
      BY <2>1, <3>7
  <2>4. QED
    BY <2>2, <2>3
<1>3. PICK g : Is(g, Len(pieces))
  BY <1>2
<1> DEFINE F(f) == [k \in 0..Len(pieces) |-> IF k = 0 THEN first ELSE Consume(f[k - 1], pieces[k])]
           r == Parse(p, pieces)
<1>4. g = F(g)
  <2>1. ASSUME NEW k \in 0..Len(pieces)
        PROVE  g[k] = IF k = 0 THEN first ELSE Consume(g[k - 1], pieces[k])
    <3>1. CASE k = 0
      BY <1>3, <3>1
    <3>2. CASE k # 0
      <4>1. k \in 1..Len(pieces)
        BY <3>2
      <4>2. QED
        BY <1>3, <3>2, <4>1
    <3>3. QED
      BY <3>1, <3>2
  <2>2. DOMAIN g = 0..Len(pieces) /\ g = [k \in 0..Len(pieces) |-> g[k]]
    BY <1>3
  <2>3. QED
    BY <2>1, <2>2
<1>5. r = CHOOSE f : f = F(f)
  BY DEF Parse, first
<1>6. r = F(r)
  <2> HIDE DEF F
  <2>1. QED
    BY <1>4, <1>5
<1> HIDE DEF r
<1>7. r[0] = first /\ \A k \in 1..Len(pieces) : r[k] = Consume(r[k - 1], pieces[k])
  <2>1. r[0] = first
    BY <1>6
  <2>2. ASSUME NEW k \in 1..Len(pieces) PROVE r[k] = Consume(r[k - 1], pieces[k])
    <3>1. k \in 0..Len(pieces) /\ k # 0
      OBVIOUS
    <3>2. F(r)[k] = Consume(r[k - 1], pieces[k])
      BY <3>1
    <3>3. QED
      BY <1>6, <3>2
  <2>3. QED
    BY <2>1, <2>2
<1>8. r = g
  <2> DEFINE D == {n \in 0..Len(pieces) : r[n] # g[n]}
  <2>1. D = {}
    <3> SUFFICES ASSUME D # {} PROVE FALSE
      OBVIOUS
    <3>1. PICK n \in D : \A m \in D : n <= m
      <4>1. D \subseteq Nat
        OBVIOUS
      <4> HIDE DEF D
      <4>2. QED
        BY <4>1, LeastNumber
    <3>2. n # 0
      BY <1>3, <1>7
    <3>3. n \in 1..Len(pieces) /\ n - 1 \in 0..Len(pieces) /\ ~(n <= n - 1)
      BY <3>2
    <3>4. r[n - 1] = g[n - 1]
      BY <3>1, <3>3
    <3>5. r[n] = Consume(r[n - 1], pieces[n])
      BY <1>7, <3>3
    <3>6. g[n] = Consume(g[n - 1], pieces[n])
      BY <1>3, <3>3
    <3>7. QED
      BY <3>4, <3>5, <3>6
  <2>2. r = [n \in 0..Len(pieces) |-> r[n]] /\ g = [n \in 0..Len(pieces) |-> g[n]]
    BY <1>3, <1>6
  <2>3. QED
    BY <2>1, <2>2
<1>9. QED
  BY <1>3, <1>7, <1>8 DEF r, first

AppendsLater(a, b, e) == Append(a \o b, e) = a \o Append(b, e)

LEMMA AppendOfConcat ==
    ASSUME NEW T, NEW a \in Seq(T), NEW b \in Seq(T), NEW e \in T
    PROVE  AppendsLater(a, b, e)
BY DEF AppendsLater

LEMMA ParseAt ==
    ASSUME NEW s \in Seq(Pieces), NEW i \in 1..(Len(s) + 1), NEW p \in Parsers, At(s, i, p),
           NEW pieces \in Seq(Pieces), pieces = SubSeq(s, i, Len(s))
    PROVE  \A k \in 0..Len(pieces) :
             /\ Parse(p, pieces)[k] \in Parsers
             /\ i + k \in 1..(Len(s) + 1)
             /\ At(s, i + k, Parse(p, pieces)[k])
             /\ Upto(s, i + k) = Upto(s, i) \o Parse(p, pieces)[k].out
<1> DEFINE r == Parse(p, pieces)
           Holds(k) == /\ At(s, i + k, r[k])
                       /\ Upto(s, i + k) = Upto(s, i) \o r[k].out
           Bad == {k \in 0..Len(pieces) : ~Holds(k)}
<1>1. /\ r \in [0..Len(pieces) -> Parsers]
      /\ r[0] = [p EXCEPT !.out = <<>>]
      /\ \A k \in 1..Len(pieces) : r[k] = Consume(r[k - 1], pieces[k])
  BY ParseIs
<1> HIDE DEF r
<1>2. Len(pieces) = (Len(s) + 1) - i /\ \A k \in 1..Len(pieces) : pieces[k] = s[(i + k) - 1]
  OBVIOUS
<1>3. Upto(s, i) \in Seq(Messages)
  BY UptoType
<1>4. Bad = {}
  <2> SUFFICES ASSUME Bad # {} PROVE FALSE
    OBVIOUS
  <2>1. PICK k \in Bad : \A m \in Bad : k <= m
    <3>1. Bad \subseteq Nat
      OBVIOUS
    <3> HIDE DEF Bad
    <3>2. QED
      BY <3>1, LeastNumber
  <2>2. CASE k = 0
    <3>1. i + 0 = i
      OBVIOUS
    <3>2. At(s, i, r[0]) /\ r[0].out = <<>>
      BY <1>1 DEF At, Parsers
    <3>3. Upto(s, i) \o <<>> = Upto(s, i)
      BY <1>3, ConcatEmptySeq
    <3>4. Holds(0)
      BY <3>1, <3>2, <3>3
    <3>5. QED
      BY <2>2, <3>4
  <2>3. CASE k # 0
    <3>1. PICK j \in 0..Len(pieces) : k = j + 1 /\ k - 1 = j
      <4>1. k - 1 \in 0..Len(pieces) /\ k = (k - 1) + 1
        BY <2>3
      <4>2. QED
        BY <4>1
    <3>2. ~(k <= j)
      BY <3>1
    <3>3. Holds(j)
      BY <2>1, <3>2
    <3>4. i + j \in 1..Len(s) /\ (i + k) - 1 = i + j /\ i + k = (i + j) + 1 /\ k \in 1..Len(pieces)
      BY <1>2, <3>1
    <3>5. r[j] \in Parsers /\ r[k] = Consume(r[j], s[i + j])
      <4>1. pieces[k] = s[i + j]
        BY <1>2, <3>4
      <4>2. r[k] = Consume(r[k - 1], pieces[k])
        BY <1>1, <3>4
      <4>3. r[j] \in Parsers
        BY <1>1, <3>1
      <4>4. QED
        BY <3>1, <4>1, <4>2, <4>3
    <3>6. /\ At(s, (i + j) + 1, Consume(r[j], s[i + j]))
          /\ Consume(r[j], s[i + j]).out =
               IF i + j \in Dispatches(s) THEN Append(r[j].out, Event(s, i + j)) ELSE r[j].out
      BY <3>3, <3>4, <3>5, ConsumeAt
    <3>7. Upto(s, (i + j) + 1) = IF i + j \in Dispatches(s) THEN Append(Upto(s, i + j), Event(s, i + j))
                                 ELSE Upto(s, i + j)
      BY <3>4, UptoNext
    <3>8. Append(Upto(s, i) \o r[j].out, Event(s, i + j)) = Upto(s, i) \o Append(r[j].out, Event(s, i + j))
      <4>1. i + j \in 1..(Len(s) + 1)
        BY <3>4
      <4>2. Event(s, i + j) \in Messages
        BY <4>1, EventIs
      <4>3. r[j].out \in Seq(Messages)
        BY <3>5 DEF Parsers
      <4>4. AppendsLater(Upto(s, i), r[j].out, Event(s, i + j))
        BY <1>3, <4>2, <4>3, AppendOfConcat
      <4>5. QED
        BY <4>4 DEF AppendsLater
    <3>9. Upto(s, i + k) = Upto(s, i) \o r[k].out
      BY <3>3, <3>4, <3>5, <3>6, <3>7, <3>8
    <3>10. Holds(k)
      BY <3>4, <3>5, <3>6, <3>9
    <3>11. QED
      BY <3>10
  <2>4. QED
    BY <2>2, <2>3
<1>5. \A k \in 0..Len(pieces) : r[k] \in Parsers /\ i + k \in 1..(Len(s) + 1)
  BY <1>1, <1>2
<1>6. QED
  BY <1>4, <1>5 DEF r

-----------------------------------------------------------------------------
(* The invariant of the call *)

\* The parser stands in front of the part of s that is not yet parsed, c, and the
\* events before it have been yielded, g.
Fits(s, c, p, g) ==
    LET i == (Len(s) - Len(c)) + 1
    IN  /\ i \in 1..(Len(s) + 1)
        /\ c = SubSeq(s, i, Len(s))
        /\ At(s, i, p)
        /\ g = Upto(s, i)

\* Only between two events is a part of a chunk left, and a stream is never at its
\* end with one.
Parsed ==
    /\ Fits(received, chunk, parser, got)
    /\ chunk # <<>> => pc \in {"yielded", "closing", "done"} /\ outcome # "ok"
    /\ outcome # "none" => pc \in {"closing", "done"}

\* The requests are counted by the one recovery.
Counted ==
    /\ fetches <= IF recovered THEN 2 ELSE 1
    /\ pc = "idle" => fetches = 0 /\ ~recovered
    /\ pc = "headers" => fetches = IF recovered THEN 1 ELSE 0
    /\ pc = "refreshing" => fetches = 1 /\ recovered
    /\ pc = "errorbody" /\ ~recovered => fetches = 1
    /\ pc = "fetching" => fetches = IF recovered THEN 2 ELSE 1

Held ==
    /\ timer => pc = "fetching"
    /\ controller /\ ~aborted => pc \in {"fetching", "closing", "done"}
    /\ pc = "idle" => body = "none" /\ ~reader
    /\ pc = "done" => body # "open" /\ ~reader

CallInv == TypeOK /\ Parsed /\ Counted /\ Held

LEMMA FitsLater ==
    ASSUME NEW s \in Seq(Pieces), NEW d \in Seq(Pieces), NEW p, NEW g, Fits(s, <<>>, p, g)
    PROVE  Fits(s \o d, d, p, g)
<1> DEFINE t == s \o d
           i == Len(s) + 1
<1>1. /\ t \in Seq(Pieces) /\ Len(t) = Len(s) + Len(d) /\ Len(s) \in Nat /\ Len(d) \in Nat
      /\ \A j \in 1..Len(s) : t[j] = s[j]
  BY ConcatProperties
<1>2. (Len(s) - Len(<<>>)) + 1 = i
  <2>1. Len(<<>>) = 0
    BY EmptySeq
  <2>2. QED
    BY <1>1, <2>1
<1>3. At(s, i, p) /\ g = Upto(s, i)
  BY <1>2 DEF Fits
<1>4. (Len(t) - Len(d)) + 1 = i /\ i \in 1..(Len(t) + 1) /\ i \in 1..(Len(s) + 1)
  <2> HIDE DEF t
  <2>1. QED
    BY <1>1
<1>5. d = SubSeq(t, i, Len(t))
  <2>1. SubSeq(t, Len(s) + 1, Len(s) + Len(d)) = d
    OBVIOUS
  <2> HIDE DEF t
  <2>2. QED
    BY <1>1, <2>1
<1>6. At(t, i, p)
  <2>1. Line(t, i) = Line(s, i) /\ Event(t, i) = Event(s, i)
    BY <1>4, SameLines, SamePast
  <2>2. i > 1 => t[i - 1] = s[i - 1]
    <3> HIDE DEF t
    <3>1. i > 1 => i - 1 \in 1..Len(s)
      BY <1>1
    <3>2. QED
      BY <1>1, <3>1
  <2> HIDE DEF t, i
  <2>3. QED
    BY <1>3, <2>1, <2>2 DEF At
<1>7. g = Upto(t, i)
  BY <1>3, <1>4, SameUpto
<1> HIDE DEF t, i
<1>8. Fits(t, d, p, g)
  BY <1>4, <1>5, <1>6, <1>7 DEF Fits
<1>9. QED
  BY <1>8 DEF t

\* What is left of c, itself the rest of s from i, after u pieces.
IsRest(s, i, c, u) ==
    /\ SubSeq(c, u + 1, Len(c)) = SubSeq(s, i + u, Len(s))
    /\ Len(SubSeq(c, u + 1, Len(c))) = Len(c) - u
    /\ SubSeq(c, u + 1, Len(c)) \in Seq(Pieces)
    /\ u = Len(c) => SubSeq(c, u + 1, Len(c)) = <<>>

LEMMA RestOfRest ==
    ASSUME NEW s \in Seq(Pieces), NEW i \in 1..(Len(s) + 1),
           NEW c \in Seq(Pieces), c = SubSeq(s, i, Len(s)), NEW u \in 0..Len(c)
    PROVE  IsRest(s, i, c, u)
<1> DEFINE n == Len(c)
           x == SubSeq(c, u + 1, n)
           y == SubSeq(s, i + u, Len(s))
<1>1. /\ Len(s) \in Nat /\ n \in Nat /\ n = (Len(s) + 1) - i /\ u \in Nat /\ u <= n
      /\ \A k \in 1..n : c[k] = s[(i + k) - 1]
  OBVIOUS
<1>2. /\ x \in Seq(Pieces) /\ Len(x) = n - u
      /\ \A k \in 1..(n - u) : x[k] = c[k + u]
  OBVIOUS
<1>3. /\ y \in Seq(Pieces) /\ Len(y) = (Len(s) - (i + u)) + 1
      /\ \A k \in 1..((Len(s) - (i + u)) + 1) : y[k] = s[(k + (i + u)) - 1]
  BY <1>1
<1>4. Len(y) = n - u
  BY <1>1, <1>3
<1> HIDE DEF n, x, y
<1>5. ASSUME NEW k \in 1..Len(x) PROVE x[k] = y[k]
  <2>1. x[k] = c[k + u] /\ y[k] = s[(k + (i + u)) - 1]
    BY <1>1, <1>2, <1>3, <1>4
  <2>2. k + u \in 1..n /\ (i + (k + u)) - 1 = (k + (i + u)) - 1
    BY <1>1, <1>2
  <2>3. QED
    BY <1>1, <2>1, <2>2
<1>6. x = y
  BY <1>2, <1>3, <1>4, <1>5, SeqEqual
<1>7. u = n => x = <<>>
  BY <1>1, <1>2, EmptySeq
<1>8. QED
  BY <1>2, <1>6, <1>7 DEF n, x, y, IsRest

LEMMA YieldFits ==
    ASSUME NEW s \in Seq(Pieces), NEW c \in Seq(Pieces), parser \in Parsers,
           Fits(s, c, parser, got), Yield(parser, c)
    PROVE  /\ Fits(s, chunk', parser', got')
           /\ parser' \in Parsers /\ chunk' \in Seq(Pieces) /\ got' \in Seq(Messages)
           /\ pc' \in {"reading", "yielded"}
           /\ pc' = "reading" => chunk' = <<>>
           /\ UNCHANGED <<outcome, timer, timedOut, controller, reader>>
<1> DEFINE i == (Len(s) - Len(c)) + 1
           state == Parse(parser, c)
           ends == {k \in 1..Len(c) : state[k].out # <<>>}
           used == IF ends = {} THEN Len(c) ELSE CHOOSE k \in ends : \A j \in ends : k <= j
<1>1. /\ pc' = IF ends = {} THEN "reading" ELSE "yielded"
      /\ parser' = state[used] /\ got' = got \o state[used].out
      /\ chunk' = SubSeq(c, used + 1, Len(c))
      /\ UNCHANGED <<outcome, timer, timedOut, controller, reader>>
  BY DEF Yield
<1>2. used \in 0..Len(c) /\ (ends = {} => used = Len(c))
  <2>1. CASE ends = {}
    BY <2>1
  <2>2. CASE ends # {}
    <3>1. ends \subseteq Nat
      OBVIOUS
    <3>2. ends \subseteq 0..Len(c)
      OBVIOUS
    <3> HIDE DEF ends
    <3>3. \E k \in ends : \A j \in ends : k <= j
      BY <2>2, <3>1, LeastNumber
    <3>4. used \in ends
      BY <2>2, <3>3
    <3>5. QED
      BY <2>2, <3>2, <3>4
  <2>3. QED
    BY <2>1, <2>2
<1>3. i \in 1..(Len(s) + 1) /\ c = SubSeq(s, i, Len(s)) /\ At(s, i, parser) /\ got = Upto(s, i)
  BY DEF Fits
<1> HIDE DEF i, used, ends
<1>4. /\ state[used] \in Parsers /\ i + used \in 1..(Len(s) + 1)
      /\ At(s, i + used, state[used])
      /\ Upto(s, i + used) = Upto(s, i) \o state[used].out
  BY <1>2, <1>3, ParseAt
<1>5. /\ SubSeq(c, used + 1, Len(c)) = SubSeq(s, i + used, Len(s))
      /\ Len(SubSeq(c, used + 1, Len(c))) = Len(c) - used
      /\ SubSeq(c, used + 1, Len(c)) \in Seq(Pieces)
      /\ used = Len(c) => SubSeq(c, used + 1, Len(c)) = <<>>
  <2>1. IsRest(s, i, c, used)
    BY <1>2, <1>3, RestOfRest
  <2>2. QED
    BY <2>1 DEF IsRest
<1>6. (Len(s) - Len(chunk')) + 1 = i + used
  <2>1. Len(chunk') = Len(c) - used
    BY <1>1, <1>5
  <2>2. QED
    BY <1>2, <2>1 DEF i
<1>7. Fits(s, chunk', parser', got')
  BY <1>1, <1>3, <1>4, <1>5, <1>6 DEF Fits
<1>8. got' \in Seq(Messages)
  BY <1>1, <1>3, <1>4, UptoType
<1>9. QED
  BY <1>1, <1>2, <1>4, <1>5, <1>7, <1>8

\* The generator awaits the next chunk, has yielded an event, or leaves.
Proceeds ==
    /\ pc' \in {"reading", "yielded", "closing"}
    /\ timedOut' = timedOut /\ reader' = reader
    /\ pc' = "reading" => chunk' = <<>>
    /\ pc' # "closing" => outcome' = outcome /\ timer' = timer /\ controller' = controller
    /\ pc' = "closing" => outcome' \in {"canceled", "changed"} /\ timer' = FALSE /\ controller' = TRUE

LEMMA DeliverFits ==
    ASSUME NEW s \in Seq(Pieces), NEW c \in Seq(Pieces), parser \in Parsers, got \in Seq(Messages),
           Fits(s, c, parser, got), Deliver(parser, c)
    PROVE  /\ Fits(s, chunk', parser', got')
           /\ parser' \in Parsers /\ chunk' \in Seq(Pieces) /\ got' \in Seq(Messages)
           /\ Proceeds
<1>1. CASE Active /\ Yield(parser, c)
  BY <1>1, YieldFits DEF Proceeds
<1>2. CASE ~Active /\ Leave(Inactive) /\ chunk' = c /\ UNCHANGED <<parser, got>>
  BY <1>2 DEF Leave, Inactive, Proceeds
<1>3. QED
  BY <1>1, <1>2 DEF Deliver

\* A chunk of what was sent.
LEMMA ChunkIsText ==
    ASSUME NEW w \in Seq(Pieces), NEW n \in 1..Len(w)
    PROVE  SubSeq(w, 1, n) \in Seq(Pieces) /\ SubSeq(w, n + 1, Len(w)) \in Seq(Pieces)
<1>1. (\A k \in 1..n : w[k] \in Pieces) /\ \A k \in (n + 1)..Len(w) : w[k] \in Pieces
  OBVIOUS
<1>2. QED
  BY <1>1, SubSeqProperties

\* What a chunk that arrives, and the next event of a chunk, leave behind.
LEMMA ReadFits ==
    ASSUME CallInv, Read
    PROVE  /\ Fits(received', chunk', parser', got')
           /\ text' \in Seq(Pieces) /\ received' \in Seq(Pieces)
           /\ parser' \in Parsers /\ chunk' \in Seq(Pieces) /\ got' \in Seq(Messages)
           /\ Proceeds
<1>1. PICK n \in 1..Len(text) :
          /\ text' = SubSeq(text, n + 1, Len(text))
          /\ received' = received \o SubSeq(text, 1, n)
          /\ Deliver(parser, SubSeq(text, 1, n))
  BY DEF Read
<1>2. /\ text \in Seq(Pieces) /\ received \in Seq(Pieces) /\ parser \in Parsers
      /\ got \in Seq(Messages) /\ Fits(received, chunk, parser, got) /\ chunk = <<>>
  BY DEF CallInv, TypeOK, Parsed, Parsers, Read
<1> DEFINE d == SubSeq(text, 1, n)
<1>3. d \in Seq(Pieces) /\ SubSeq(text, n + 1, Len(text)) \in Seq(Pieces)
  BY <1>2, ChunkIsText
<1> HIDE DEF d
<1>4. received \o d \in Seq(Pieces) /\ Fits(received \o d, d, parser, got)
  BY <1>2, <1>3, FitsLater, ConcatProperties
<1>5. PICK s \in Seq(Pieces) : s = received \o d
  BY <1>4
<1>6. Deliver(parser, d) /\ received' = s
  BY <1>1, <1>5 DEF d
<1>7. Fits(s, d, parser, got)
  BY <1>4, <1>5
<1>8. QED
  BY <1>1, <1>2, <1>3, <1>6, <1>7, DeliverFits

LEMMA ContinueFits ==
    ASSUME CallInv, Continue
    PROVE  /\ Fits(received', chunk', parser', got')
           /\ parser' \in Parsers /\ chunk' \in Seq(Pieces) /\ got' \in Seq(Messages)
           /\ Proceeds
<1>1. /\ received \in Seq(Pieces) /\ chunk \in Seq(Pieces) /\ parser \in Parsers
      /\ got \in Seq(Messages) /\ Fits(received, chunk, parser, got)
  BY DEF CallInv, TypeOK, Parsed, Parsers
<1>2. Deliver(parser, chunk) /\ received' = received
  BY DEF Continue
<1>3. QED
  BY <1>1, <1>2, DeliverFits

LEMMA InitInv == Init => CallInv
<1> SUFFICES ASSUME Init PROVE CallInv
  OBVIOUS
<1>1. <<>> \in Seq(Pieces) /\ Len(<<>>) = 0 /\ <<>> \in Seq(Seq(Pieces)) /\ <<>> \in Seq(Messages)
  BY EmptySeq
<1>2. TypeOK
  BY <1>1, SseConstants DEF Init, TypeOK, NewParser, Awaits
<1>3. Fits(<<>>, <<>>, NewParser, <<>>)
  <2>1. 1 \in 1..(Len(<<>>) + 1) /\ (Len(<<>>) - Len(<<>>)) + 1 = 1
    BY <1>1
  <2>2. /\ Event(<<>>, 1).data = <<>> /\ Event(<<>>, 1).event = <<>> /\ Event(<<>>, 1).id = <<>>
    <3>1. \A name : InBlock(<<>>, 1, name) = {} /\ Named(<<>>, 1, name) = {}
      BY DEF InBlock, Named, Ends
    <3>2. Event(<<>>, 1) = [data  |-> Listed(Contents(<<>>), InBlock(<<>>, 1, "data")),
                            event |-> LastContent(<<>>, InBlock(<<>>, 1, "event")),
                            id    |-> LastContent(<<>>, Named(<<>>, 1, "id"))]
      BY <1>1, <2>1, EventIs
    <3>3. Listed(Contents(<<>>), {}) = <<>> /\ LastContent(<<>>, {}) = <<>>
      BY OrderedNone DEF Listed, LastContent
    <3>4. Event(<<>>, 1) = [data |-> <<>>, event |-> <<>>, id |-> <<>>]
      BY <3>1, <3>2, <3>3, Zenon
    <3>5. QED
      BY <3>4
  <2>3. At(<<>>, 1, NewParser)
    BY <2>2, LineAtFirst DEF At, NewParser
  <2>4. <<>> = SubSeq(<<>>, 1, Len(<<>>))
    BY <1>1, SubSeqEmpty
  <2>5. Upto(<<>>, 1) = <<>>
    BY <1>1, UptoFirst
  <2>6. QED
    BY <2>1, <2>3, <2>4, <2>5 DEF Fits
<1>4. Parsed /\ Counted /\ Held
  BY <1>3 DEF Init, Parsed, Counted, Held
<1>5. QED
  BY <1>2, <1>4 DEF CallInv

\* TypeOK in two parts: the texts and the parser, and the rest.
TextTypes ==
    /\ text \in Seq(Pieces) /\ received \in Seq(Pieces) /\ chunk \in Seq(Pieces)
    /\ parser \in Parsers /\ got \in Seq(Messages)

Outcomes == {"none", "ok", "returned", "canceled", "changed", "timeout", "network", "format",
             "http", "auth"}

CallTypes ==
    /\ pc \in Awaits \cup {"idle", "yielded", "closing", "done"}
    /\ outcome \in Outcomes
    /\ aborted \in BOOLEAN /\ current \in BOOLEAN
    /\ timeout \in BOOLEAN /\ timer \in BOOLEAN /\ timedOut \in BOOLEAN /\ controller \in BOOLEAN
    /\ recovered \in BOOLEAN /\ fetches \in Nat
    /\ body \in {"none", "open", "closed"} /\ reader \in BOOLEAN

LEMMA TypeParts == TypeOK <=> CallTypes /\ TextTypes
BY DEF TypeOK, CallTypes, TextTypes, Parsers, Outcomes

LEMMA LeaveTypes ==
    ASSUME CallTypes, \E result \in Outcomes : Leave(result), UNCHANGED <<envVars, fetches>>,
           body' \in {"none", "open", "closed"}, recovered' \in BOOLEAN
    PROVE  CallTypes'
<1>1. /\ pc' = "closing" /\ outcome' \in Outcomes /\ timer' \in BOOLEAN /\ controller' \in BOOLEAN
      /\ UNCHANGED <<timedOut, reader, aborted, current, timeout, fetches>>
  BY DEF Leave, envVars
<1>2. QED
  BY <1>1 DEF CallTypes

\* Only a chunk changes the texts.
LEMMA TextTypesStep == CallInv /\ [Next]_vars => TextTypes'
<1> SUFFICES ASSUME CallInv, [Next]_vars PROVE TextTypes'
  OBVIOUS
<1>1. TextTypes
  BY TypeParts DEF CallInv
<1>2. CASE Read
  BY <1>2, ReadFits DEF TextTypes
<1>3. CASE Continue
  <2>1. UNCHANGED <<text, received>>
    BY <1>3 DEF Continue
  <2>2. QED
    BY <1>1, <1>3, <2>1, ContinueFits DEF TextTypes
<1>4. CASE UNCHANGED textVars
  BY <1>1, <1>4 DEF TextTypes, textVars
<1>5. CASE \/ Call \/ Fetch \/ TimerFires \/ FetchFails \/ Respond \/ Recover \/ Refreshed
           \/ Notified \/ ReadEnds \/ Return \/ Interrupt \/ Closed \/ Abort \/ ChangeSession
  BY <1>4, <1>5 DEF Call, Fetch, TimerFires, FetchFails, Respond, Recover, Refreshed, Notified,
                    ReadEnds, Return, Interrupt, Closed, Abort, ChangeSession
<1>6. CASE UNCHANGED vars
  BY <1>4, <1>6 DEF vars
<1>7. QED
  BY <1>2, <1>3, <1>5, <1>6 DEF Next

LEMMA ProceedTypes ==
    ASSUME CallTypes, Proceeds, UNCHANGED <<envVars, body, recovered, fetches>>
    PROVE  CallTypes'
<1>1. UNCHANGED <<aborted, current, timeout, body, recovered, fetches, timedOut, reader>>
  BY DEF Proceeds, envVars
<1>2. pc' \in Awaits \cup {"idle", "yielded", "closing", "done"}
  BY DEF Proceeds, Awaits
<1>3. outcome' \in Outcomes /\ timer' \in BOOLEAN /\ controller' \in BOOLEAN
  BY DEF Proceeds, CallTypes, Outcomes
<1>4. QED
  BY <1>1, <1>2, <1>3 DEF CallTypes

\* Every step keeps the types of the rest.
LEMMA CallTypesStep == CallInv /\ [Next]_vars => CallTypes'
<1> SUFFICES ASSUME CallInv, [Next]_vars PROVE CallTypes'
  OBVIOUS
<1>1. CallTypes
  BY TypeParts DEF CallInv
<1>2. CASE Call
  BY <1>1, <1>2 DEF Call, Awaits, CallTypes, Outcomes, envVars, netVars
<1>3. CASE Fetch
  <2>1. CASE Leave(IF Active THEN "auth" ELSE Inactive) /\ UNCHANGED fetches
    <3>1. \E result \in Outcomes : Leave(result)
      BY <2>1 DEF Inactive, Outcomes
    <3>2. UNCHANGED <<envVars, body, recovered>>
      BY <1>3 DEF Fetch
    <3>3. QED
      BY <1>1, <2>1, <3>1, <3>2, LeaveTypes DEF CallTypes
  <2>2. CASE /\ pc' = "fetching" /\ fetches' = fetches + 1
             /\ timer' = timeout /\ timedOut' = FALSE /\ UNCHANGED <<outcome, controller, reader>>
    <3>1. fetches' \in Nat
      BY <1>1, <2>2 DEF CallTypes
    <3>2. UNCHANGED <<aborted, current, timeout, body, recovered>>
      BY <1>3 DEF Fetch, envVars
    <3>3. QED
      BY <1>1, <2>2, <3>1, <3>2 DEF CallTypes, Awaits
  <2>3. QED
    BY <1>3, <2>1, <2>2 DEF Fetch
<1>4. CASE TimerFires
  BY <1>1, <1>4 DEF TimerFires, CallTypes, envVars
<1>5. CASE FetchFails
  <2>1. \E result \in Outcomes : Leave(result)
    BY <1>5 DEF FetchFails, Inactive, Outcomes
  <2>2. UNCHANGED <<envVars, body, recovered, fetches>>
    BY <1>5 DEF FetchFails
  <2>3. QED
    BY <1>1, <2>1, <2>2, LeaveTypes DEF CallTypes
<1>6. CASE Respond
  <2>1. UNCHANGED <<envVars, recovered, fetches>> /\ body' = "open"
    BY <1>6 DEF Respond
  <2>2. CASE \E result \in Outcomes : Leave(result)
    BY <1>1, <2>1, <2>2, LeaveTypes DEF CallTypes
  <2>3. CASE /\ pc' \in {"reading", "errorbody"} /\ reader' \in BOOLEAN
             /\ timer' = FALSE /\ UNCHANGED <<outcome, timedOut, controller>>
    <3>1. UNCHANGED <<aborted, current, timeout>>
      BY <2>1 DEF envVars
    <3>2. QED
      BY <1>1, <2>1, <2>3, <3>1 DEF CallTypes, Awaits
  <2>4. reader \in BOOLEAN
    BY <1>1 DEF CallTypes
  <2>5. QED
    BY <1>6, <2>2, <2>3, <2>4 DEF Respond, Inactive, Outcomes
<1>7. CASE Recover
  <2>1. UNCHANGED <<envVars, fetches>> /\ body' = "closed"
    BY <1>7 DEF Recover
  <2>2. CASE (\E result \in Outcomes : Leave(result)) /\ UNCHANGED recovered
    BY <1>1, <2>1, <2>2, LeaveTypes DEF CallTypes
  <2>3. CASE /\ recovered' = TRUE /\ pc' \in {"notifying", "refreshing"}
             /\ UNCHANGED <<outcome, timer, timedOut, controller, reader>>
    BY <1>1, <2>1, <2>3 DEF CallTypes, Awaits, envVars
  <2>4. QED
    BY <1>7, <2>2, <2>3 DEF Recover, Inactive, Outcomes
<1>8. CASE Refreshed
  <2>1. UNCHANGED <<envVars, body, recovered, fetches>>
    BY <1>8 DEF Refreshed
  <2>2. CASE \E result \in Outcomes : Leave(result)
    BY <1>1, <2>1, <2>2, LeaveTypes DEF CallTypes
  <2>3. CASE /\ pc' \in {"headers", "notifying"}
             /\ UNCHANGED <<outcome, timer, timedOut, controller, reader>>
    BY <1>1, <2>1, <2>3 DEF CallTypes, Awaits, envVars
  <2>4. QED
    BY <1>8, <2>2, <2>3 DEF Refreshed, Inactive, Outcomes
<1>9. CASE Notified
  <2>1. \E result \in Outcomes : Leave(result)
    BY <1>9 DEF Notified, Outcomes
  <2>2. UNCHANGED <<envVars, body, recovered, fetches>>
    BY <1>9 DEF Notified
  <2>3. QED
    BY <1>1, <2>1, <2>2, LeaveTypes DEF CallTypes
<1>10. CASE Read
  <2>1. UNCHANGED <<envVars, body, recovered, fetches>> /\ Proceeds
    BY <1>10, ReadFits DEF Read
  <2>2. QED
    BY <1>1, <2>1, ProceedTypes
<1>11. CASE ReadEnds
  <2>1. \E result \in Outcomes : Leave(result)
    BY <1>11 DEF ReadEnds, Inactive, Outcomes
  <2>2. UNCHANGED <<envVars, body, recovered, fetches>>
    BY <1>11 DEF ReadEnds
  <2>3. QED
    BY <1>1, <2>1, <2>2, LeaveTypes DEF CallTypes
<1>12. CASE Continue
  <2>1. UNCHANGED <<envVars, body, recovered, fetches>> /\ Proceeds
    BY <1>12, ContinueFits DEF Continue
  <2>2. QED
    BY <1>1, <2>1, ProceedTypes
<1>13. CASE Return
  <2>1. \E result \in Outcomes : Leave(result)
    BY <1>13 DEF Return, Outcomes
  <2>2. UNCHANGED <<envVars, body, recovered, fetches>>
    BY <1>13 DEF Return
  <2>3. QED
    BY <1>1, <2>1, <2>2, LeaveTypes DEF CallTypes
<1>14. CASE Interrupt
  <2>1. \E result \in Outcomes : Leave(result)
    BY <1>14 DEF Interrupt, Outcomes
  <2>2. UNCHANGED <<envVars, body, recovered, fetches>>
    BY <1>14 DEF Interrupt
  <2>3. QED
    BY <1>1, <2>1, <2>2, LeaveTypes DEF CallTypes
<1> USE DEF envVars, netVars, CallTypes
<1>15. CASE Closed
  BY <1>1, <1>15 DEF Closed, Awaits
<1>16. CASE Abort
  <2>1. /\ controller' \in BOOLEAN /\ aborted' \in BOOLEAN
        /\ UNCHANGED <<pc, outcome, current, timeout, timer, timedOut, body, reader, recovered, fetches>>
    BY <1>16 DEF Abort
  <2>2. QED
    BY <1>1, <2>1 DEF Awaits
<1>17. CASE ChangeSession
  <2>1. /\ current' \in BOOLEAN
        /\ UNCHANGED <<pc, outcome, aborted, timeout, timer, timedOut, controller, body, reader,
                       recovered, fetches>>
    BY <1>17 DEF ChangeSession
  <2>2. QED
    BY <1>1, <2>1 DEF Awaits
<1>18. CASE UNCHANGED vars
  BY <1>1, <1>18 DEF vars
<1>19. QED
  BY <1>2, <1>3, <1>4, <1>5, <1>6, <1>7, <1>8, <1>9,
     <1>10, <1>11, <1>12, <1>13, <1>14, <1>15, <1>16, <1>17, <1>18 DEF Next

\* Every step keeps the parser where it belongs.
LEMMA ParsedStep == CallInv /\ [Next]_vars => Parsed'
<1> SUFFICES ASSUME CallInv, [Next]_vars PROVE Parsed'
  OBVIOUS
<1>1. Parsed
  BY DEF CallInv
<1>2. CASE /\ UNCHANGED <<received, chunk, parser, got>>
           /\ chunk # <<>> => pc' \in {"yielded", "closing", "done"} /\ outcome' # "ok"
           /\ outcome' # "none" => pc' \in {"closing", "done"}
  BY <1>1, <1>2 DEF Parsed
<1> USE DEF envVars, netVars, textVars
<1>3. CASE Read
  BY <1>1, <1>3, ReadFits DEF Parsed, Read, Proceeds
<1>4. CASE Continue
  BY <1>1, <1>4, ContinueFits DEF Parsed, Continue, Proceeds
<1>5. CASE Call
  BY <1>1, <1>2, <1>5 DEF Call, Parsed
<1>6. CASE Fetch
  BY <1>1, <1>2, <1>6 DEF Fetch, Leave, Parsed
<1>7. CASE TimerFires
  BY <1>1, <1>2, <1>7 DEF TimerFires, Parsed
<1>8. CASE FetchFails
  BY <1>1, <1>2, <1>8 DEF FetchFails, Leave, Parsed
<1>9. CASE Respond
  BY <1>1, <1>2, <1>9 DEF Respond, Leave, Parsed
<1>10. CASE Recover
  BY <1>1, <1>2, <1>10 DEF Recover, Leave, Parsed
<1>11. CASE Refreshed
  BY <1>1, <1>2, <1>11 DEF Refreshed, Leave, Parsed
<1>12. CASE Notified
  BY <1>1, <1>2, <1>12 DEF Notified, Leave, Parsed
<1>13. CASE ReadEnds
  BY <1>1, <1>2, <1>13 DEF ReadEnds, Leave, Parsed
<1>14. CASE Return
  BY <1>1, <1>2, <1>14 DEF Return, Leave, Parsed
<1>15. CASE Interrupt
  BY <1>1, <1>2, <1>15 DEF Interrupt, Leave, Parsed, Awaits
<1>16. CASE Closed
  BY <1>1, <1>2, <1>16 DEF Closed, Parsed
<1>17. CASE Abort
  BY <1>1, <1>2, <1>17 DEF Abort, Parsed
<1>18. CASE ChangeSession
  BY <1>1, <1>2, <1>18 DEF ChangeSession, Parsed
<1>19. CASE UNCHANGED vars
  BY <1>1, <1>2, <1>19 DEF vars, Parsed
<1>20. QED
  BY <1>3, <1>4, <1>5, <1>6, <1>7, <1>8, <1>9, <1>10, <1>11, <1>12, <1>13, <1>14, <1>15, <1>16,
     <1>17, <1>18, <1>19 DEF Next

\* Every step keeps the count of the requests and what the call holds.
LEMMA HeldStep == CallInv /\ [Next]_vars => Counted' /\ Held'
<1> SUFFICES ASSUME CallInv, [Next]_vars PROVE Counted' /\ Held'
  OBVIOUS
<1>1. TypeOK /\ Counted /\ Held
  BY DEF CallInv
<1> USE DEF envVars, netVars, textVars, Counted, Held
<1>2. CASE Call
  BY <1>1, <1>2 DEF Call
<1>3. CASE Fetch
  BY <1>1, <1>3 DEF Fetch, Leave, TypeOK
<1>4. CASE TimerFires
  BY <1>1, <1>4 DEF TimerFires
<1>5. CASE FetchFails
  BY <1>1, <1>5 DEF FetchFails, Leave
<1>6. CASE Respond
  BY <1>1, <1>6 DEF Respond, Leave
<1>7. CASE Recover
  BY <1>1, <1>7 DEF Recover, Leave, TypeOK
<1>8. CASE Refreshed
  BY <1>1, <1>8 DEF Refreshed, Leave
<1>9. CASE Notified
  BY <1>1, <1>9 DEF Notified, Leave
<1>10. CASE Read
  <2>1. UNCHANGED <<envVars, body, recovered, fetches>> /\ pc = "reading" /\ Proceeds
    BY <1>10, ReadFits DEF Read
  <2>2. QED
    BY <1>1, <2>1 DEF Proceeds
<1>11. CASE ReadEnds
  BY <1>1, <1>11 DEF ReadEnds, Leave
<1>12. CASE Continue
  <2>1. UNCHANGED <<envVars, body, recovered, fetches>> /\ pc = "yielded" /\ Proceeds
    BY <1>12, ContinueFits DEF Continue
  <2>2. QED
    BY <1>1, <2>1 DEF Proceeds
<1>13. CASE Return
  BY <1>1, <1>13 DEF Return, Leave
<1>14. CASE Interrupt
  BY <1>1, <1>14 DEF Interrupt, Leave, Awaits
<1>15. CASE Closed
  BY <1>1, <1>15 DEF Closed
<1>16. CASE Abort
  BY <1>1, <1>16 DEF Abort
<1>17. CASE ChangeSession
  BY <1>1, <1>17 DEF ChangeSession
<1>18. CASE UNCHANGED vars
  BY <1>1, <1>18 DEF vars
<1>19. QED
  BY <1>2, <1>3, <1>4, <1>5, <1>6, <1>7, <1>8, <1>9, <1>10, <1>11, <1>12, <1>13, <1>14, <1>15,
     <1>16, <1>17, <1>18 DEF Next

LEMMA CallInvariant == Spec => []CallInv
<1>1. CallInv /\ [Next]_vars => CallInv'
  <2> SUFFICES ASSUME CallInv, [Next]_vars PROVE CallInv'
    OBVIOUS
  <2>1. CallTypes' /\ TextTypes'
    BY TextTypesStep, CallTypesStep
  <2>2. TypeOK'
    BY <2>1 DEF TypeOK, CallTypes, TextTypes, Parsers, Outcomes
  <2>3. QED
    BY <2>2, ParsedStep, HeldStep DEF CallInv
<1>2. QED
  BY InitInv, <1>1, PTL DEF Spec

-----------------------------------------------------------------------------
(* What the consumer can rely on *)

\* Every variable keeps its type: the call always has an outcome of its kind, the
\* parser never holds anything but pieces and messages.
THEOREM TypeCorrect == Spec => []TypeOK
<1>1. CallInv => TypeOK
  BY DEF CallInv
<1>2. QED
  BY <1>1, CallInvariant, PTL

\* However any text is cut into chunks, the consumer of parseSSEStream has the events
\* of the text so far, in order, each once, and all of them when it waits for the next
\* chunk and when the stream has ended.
THEOREM EventsInOrder == Spec => []EventsAreRight
<1>1. CallInv => EventsAreRight
  <2> SUFFICES ASSUME CallInv PROVE EventsAreRight
    OBVIOUS
  <2> DEFINE i == (Len(received) - Len(chunk)) + 1
  <2>1. /\ received \in Seq(Pieces) /\ i \in 1..(Len(received) + 1) /\ got = Upto(received, i)
        /\ pc = "reading" \/ outcome = "ok" => chunk = <<>>
    BY DEF CallInv, TypeOK, Parsed, Fits
  <2>2. chunk = <<>> => i = Len(received) + 1
    BY <2>1, EmptySeq
  <2> HIDE DEF i
  <2>3. IsPrefix(got, Events(received))
    BY <2>1, UptoPrefix
  <2>4. pc = "reading" \/ outcome = "ok" => got = Events(received)
    BY <2>1, <2>2, UptoLast
  <2>5. QED
    BY <2>3, <2>4 DEF EventsAreRight
<1>2. QED
  BY <1>1, CallInvariant, PTL

\* At most one request follows the first, the timeout ends nothing but a fetch, and a
\* call that is over has released its responses, its timer and its stream.
THEOREM AllReleased == Spec => []Released
<1>1. CallInv => Released
  BY DEF CallInv, TypeOK, Counted, Held, Released
<1>2. QED
  BY <1>1, CallInvariant, PTL

\* After the caller's abort, or when the session is another, nothing is delivered but
\* that the call was canceled or that the session changed; and that is said only then.
THEOREM NothingTooLate == Spec => NothingLate
<1> DEFINE Late == /\ ~Active => got' = got
                   /\ (outcome = "none" /\ outcome' \notin {"none", "returned"} /\ pc # "notifying") =>
                        IF Active THEN outcome' \notin {"canceled", "changed"} ELSE outcome' = Inactive
<1>1. [Next]_vars => [Late]_vars
  <2> SUFFICES ASSUME Next PROVE Late
    OBVIOUS
  <2> USE DEF envVars, netVars, textVars, Leave, Inactive
  <2>1. CASE Call
    BY <2>1 DEF Call, Active
  <2>2. CASE Fetch
    BY <2>2 DEF Fetch
  <2>3. CASE TimerFires
    BY <2>3 DEF TimerFires
  <2>4. CASE FetchFails
    BY <2>4 DEF FetchFails
  <2>5. CASE Respond
    BY <2>5 DEF Respond
  <2>6. CASE Recover
    BY <2>6 DEF Recover
  <2>7. CASE Refreshed
    BY <2>7 DEF Refreshed
  <2>8. CASE Notified
    BY <2>8 DEF Notified
  <2>9. CASE Read
    BY <2>9 DEF Read, Deliver, Yield
  <2>10. CASE ReadEnds
    BY <2>10 DEF ReadEnds
  <2>11. CASE Continue
    BY <2>11 DEF Continue, Deliver, Yield
  <2>12. CASE Return
    BY <2>12 DEF Return
  <2>13. CASE Interrupt
    BY <2>13 DEF Interrupt, Active
  <2>14. CASE Closed
    BY <2>14 DEF Closed
  <2>15. CASE Abort
    BY <2>15 DEF Abort
  <2>16. CASE ChangeSession
    BY <2>16 DEF ChangeSession
  <2>17. QED
    BY <2>1, <2>2, <2>3, <2>4, <2>5, <2>6, <2>7, <2>8, <2>9, <2>10, <2>11, <2>12, <2>13, <2>14,
       <2>15, <2>16 DEF Next
<1>2. QED
  BY <1>1, PTL DEF Spec, NothingLate

=============================================================================
