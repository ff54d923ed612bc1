-------------------------- MODULE LogSanitizerProofs --------------------------
(***************************************************************************)
(* Proofs about LogSanitizer, for every pool of values and all options.    *)
(*                                                                         *)
(* Each leaf that a record was given is in one of three places: it has     *)
(* been told or dropped, it is still under a call to come, or the budget   *)
(* has cut it off.  Telling says so, in the order of the record, and the   *)
(* invariant adds that every call to come stands at a field whose names    *)
(* may be shown, at the depth of its children.                             *)
(*                                                                         *)
(* Path, Replaced, Leaves and FlattenSeq are recursive functions.  That    *)
(* they are what their equations say is proved from the existence and the  *)
(* uniqueness of such functions, which the least number without one gives. *)
(***************************************************************************)
EXTENDS LogSanitizer, SequenceTheorems, WellFoundedInduction, TLAPS

-----------------------------------------------------------------------------
(* Recursion over numbers *)

\* Induction over the numbers, in a form without an operator.
LEMMA LeastNumber ==
    ASSUME NEW S, S \subseteq Nat, S # {}
    PROVE  \E n \in S : \A m \in S : n <= m
<1>1. IsWellFoundedOn(OpToRel(<, Nat), Nat)
  BY NatLessThanWellFounded
<1>2. PICK n \in S : \A m \in S : ~ (<<m, n>> \in OpToRel(<, Nat))
  BY <1>1, WFMin
<1>3. \A m \in S : ~(m < n)
  BY <1>2 DEF OpToRel
<1>4. ASSUME NEW m \in S PROVE n <= m
  <2>1. n \in Nat /\ m \in Nat
    OBVIOUS
  <2>2. QED
    BY <2>1, <1>3
<1>5. QED
  BY <1>2, <1>4

\* A function that gives every number a step from the value of an earlier one.
Follows(f, n, T, earlier, first, step) ==
    /\ f \in [0..n -> T] /\ f[0] = first
    /\ \A i \in 1..n : f[i] = step[<<i, f[earlier[i]]>>]

\* Such a function exists, however the steps are chosen.
LEMMA RecursionExists ==
    ASSUME NEW n \in Nat, NEW T, NEW first \in T, NEW step \in [(1..n) \X T -> T],
           NEW earlier \in [1..n -> Nat], \A i \in 1..n : earlier[i] < i
    PROVE  \E f : Follows(f, n, T, earlier, first, step)
<1> DEFINE Bad == {m \in 0..n : ~ \E f : Follows(f, m, T, earlier, first, step)}
<1>1. Bad = {}
  <2> SUFFICES ASSUME Bad # {} PROVE FALSE
    OBVIOUS
  <2>1. PICK m \in Bad : \A k \in Bad : m <= k
    <3>1. Bad \subseteq Nat
      OBVIOUS
    <3> HIDE DEF Bad
    <3>2. QED
      BY <3>1, LeastNumber
  <2>2. CASE m = 0
    <3>1. Follows([i \in 0..0 |-> first], 0, T, earlier, first, step)
      BY DEF Follows
    <3>2. QED
      BY <2>1, <2>2, <3>1
  <2>3. CASE m # 0
    <3>1. m - 1 \in 0..n /\ ~(m <= m - 1) /\ m \in 1..n
      BY <2>3
    <3>2. PICK g : Follows(g, m - 1, T, earlier, first, step)
      BY <2>1, <3>1
    <3>3. earlier[m] \in 0..(m - 1)
      BY <3>1
    <3> DEFINE last == step[<<m, g[earlier[m]]>>]
               h == [i \in 0..m |-> IF i = m THEN last ELSE g[i]]
    <3>4. last \in T
      <4>1. g[earlier[m]] \in T
        BY <3>2, <3>3 DEF Follows
      <4>2. QED
        BY <3>1, <4>1
    <3> HIDE DEF last
    <3>5. h \in [0..m -> T] /\ h[0] = first
      BY <3>1, <3>2, <3>4 DEF Follows
    <3>6. ASSUME NEW i \in 1..m PROVE h[i] = step[<<i, h[earlier[i]]>>]
      <4>1. i \in 1..n /\ earlier[i] \in Nat /\ earlier[i] < i
        BY <3>1
      <4>2. earlier[i] \in 0..m /\ earlier[i] # m
        BY <4>1
      <4>3. h[earlier[i]] = g[earlier[i]]
        BY <4>2
      <4>4. CASE i = m
        <5>1. h[i] = last
          BY <4>4
        <5> HIDE DEF h
        <5>2. QED
          BY <4>3, <4>4, <5>1 DEF last
      <4>5. CASE i # m
        <5>1. i \in 1..(m - 1) /\ h[i] = g[i]
          BY <4>5
        <5> HIDE DEF h
        <5>2. QED
          BY <3>2, <4>3, <5>1 DEF Follows
      <4>6. QED
        BY <4>4, <4>5
    <3>7. Follows(h, m, T, earlier, first, step)
      BY <3>5, <3>6 DEF Follows
    <3>8. QED
      BY <2>1, <3>7
  <2>4. QED
    BY <2>2, <2>3
<1>2. n \in 0..n
  OBVIOUS
<1>3. QED
  BY <1>1, <1>2

\* The same of a function whose values are not known to be in a set.
Solves(g, n, earlier, first, step) ==
    g[0] = first /\ \A i \in 1..n : g[i] = step[<<i, g[earlier[i]]>>]

\* There is only one such function.
LEMMA RecursionIsUnique ==
    ASSUME NEW n \in Nat, NEW T, NEW first, NEW step, NEW earlier \in [1..n -> Nat],
           \A i \in 1..n : earlier[i] < i,
           NEW f, Follows(f, n, T, earlier, first, step),
           NEW g, Solves(g, n, earlier, first, step)
    PROVE  \A i \in 0..n : g[i] = f[i]
<1> DEFINE Bad == {i \in 0..n : g[i] # f[i]}
<1>1. Bad = {}
  <2> SUFFICES ASSUME Bad # {} PROVE FALSE
    OBVIOUS
  <2>1. PICK m \in Bad : \A k \in Bad : m <= k
    <3>1. Bad \subseteq Nat
      OBVIOUS
    <3> HIDE DEF Bad
    <3>2. QED
      BY <3>1, LeastNumber
  <2>2. m # 0
    BY <2>1 DEF Follows, Solves
  <2>3. m \in 1..n /\ earlier[m] \in 0..n /\ ~(m <= earlier[m])
    BY <2>2
  <2>4. g[earlier[m]] = f[earlier[m]]
    BY <2>1, <2>3
  <2>5. f[m] = step[<<m, f[earlier[m]]>>] /\ g[m] = step[<<m, g[earlier[m]]>>]
    BY <2>3 DEF Follows, Solves
  <2>6. QED
    BY <2>4, <2>5
<1>2. QED
  BY <1>1

-----------------------------------------------------------------------------
(* FlattenSeq *)

\* f has the sequences of ss joined up to each place.
Sums(f, ss, T) ==
    /\ f \in [0..Len(ss) -> Seq(T)] /\ f[0] = <<>>
    /\ \A i \in 1..Len(ss) : f[i] = f[i - 1] \o ss[i]

\* FlattenSeq is the last of these sums.
LEMMA FlattenIs ==
    ASSUME NEW T, NEW ss \in Seq(Seq(T))
    PROVE  \E f : Sums(f, ss, T) /\ FlattenSeq(ss) = f[Len(ss)]
<1> DEFINE n == Len(ss)
           earlier == [i \in 1..n |-> i - 1]
           step == [p \in (1..n) \X Seq(T) |-> p[2] \o ss[p[1]]]
<1>1. n \in Nat /\ \A i \in 1..n : ss[i] \in Seq(T)
  OBVIOUS
<1>2. <<>> \in Seq(T)
  BY EmptySeq
<1>3. step \in [(1..n) \X Seq(T) -> Seq(T)]
  <2>1. ASSUME NEW i \in 1..n, NEW s \in Seq(T) PROVE s \o ss[i] \in Seq(T)
    BY <1>1, <2>1, ConcatProperties
  <2>2. QED
    BY <2>1
<1>4. /\ earlier \in [1..n -> Nat] /\ \A i \in 1..n : earlier[i] < i
      /\ \A i \in 1..n : earlier[i] = i - 1
  BY <1>1
<1> HIDE DEF earlier
<1>5. PICK f : Follows(f, n, Seq(T), earlier, <<>>, step)
  <2> HIDE DEF n, step
  <2>1. QED
    BY <1>1, <1>2, <1>3, <1>4, RecursionExists
<1>6. Sums(f, ss, T)
  <2>1. ASSUME NEW i \in 1..n PROVE f[i] = f[i - 1] \o ss[i]
    <3>1. f[i] = step[<<i, f[i - 1]>>] /\ f[i - 1] \in Seq(T)
      <4>1. i - 1 \in 0..n
        BY <1>1
      <4>2. QED
        BY <1>4, <1>5, <4>1 DEF Follows
    <3>2. QED
      BY <3>1
  <2>2. QED
    BY <1>5, <2>1 DEF Sums, Follows
<1>7. FlattenSeq(ss) = f[n]
  <2>1. CASE n = 0
    BY <1>6, <2>1, EmptySeq DEF FlattenSeq, Sums
  <2>2. CASE n # 0
    <3> DEFINE F(g) == [i \in 1..n |-> IF i = 1 THEN ss[i] ELSE g[i - 1] \o ss[i]]
               r == CHOOSE g : g = F(g)
               e == [i \in 1..n |-> f[i]]
    <3>1. FlattenSeq(ss) = r[n]
      BY <2>2 DEF FlattenSeq
    <3>2. e = F(e)
      <4>1. ASSUME NEW i \in 1..n PROVE f[i] = IF i = 1 THEN ss[i] ELSE e[i - 1] \o ss[i]
        <5>1. CASE i = 1
          <6>1. f[i] = f[i - 1] \o ss[i] /\ f[0] = <<>>
            BY <1>6 DEF Sums
          <6>2. ss[i] \in Seq(T) /\ i - 1 = 0
            BY <1>1, <5>1
          <6>3. f[i] = <<>> \o ss[i]
            BY <6>1, <6>2
          <6>4. QED
            BY <5>1, <6>2, <6>3, ConcatEmptySeq
        <5>2. CASE i # 1
          <6>1. i - 1 \in 1..n
            BY <1>1, <5>2
          <6>2. QED
            BY <1>6, <5>2, <6>1 DEF Sums
        <5>3. QED
          BY <5>1, <5>2
      <4>2. QED
        BY <4>1
    <3>3. r = F(r)
      <4> HIDE DEF F
      <4>1. QED
        BY <3>2
    <3> HIDE DEF r
    <3> DEFINE h == [i \in 0..n |-> IF i = 0 THEN <<>> ELSE r[i]]
    <3>4. ASSUME NEW i \in 1..n PROVE h[i] = step[<<i, h[earlier[i]]>>]
      <4>1. r[i] = IF i = 1 THEN ss[i] ELSE r[i - 1] \o ss[i]
        BY <3>3
      <4>2. CASE i = 1
        <5>1. earlier[i] = 0 /\ h[0] = <<>> /\ h[i] = ss[i]
          BY <1>1, <1>4, <4>1, <4>2
        <5>2. step[<<i, <<>>>>] = <<>> \o ss[i]
          BY <1>2
        <5>3. QED
          BY <1>1, <5>1, <5>2, ConcatEmptySeq
      <4>3. CASE i # 1
        <5> DEFINE Bad == {k \in 1..n : r[k] \notin Seq(T)}
        <5>1. Bad = {}
          <6> SUFFICES ASSUME Bad # {} PROVE FALSE
            OBVIOUS
          <6>1. PICK k \in Bad : \A l \in Bad : k <= l
            <7>1. Bad \subseteq Nat
              OBVIOUS
            <7> HIDE DEF Bad
            <7>2. QED
              BY <7>1, LeastNumber
          <6>2. r[k] = IF k = 1 THEN ss[k] ELSE r[k - 1] \o ss[k]
            BY <3>3, <6>1
          <6>3. k # 1
            BY <1>1, <6>1, <6>2
          <6>4. k - 1 \in 1..n /\ ~(k <= k - 1)
            BY <6>1, <6>3
          <6>5. r[k - 1] \in Seq(T)
            BY <6>1, <6>4
          <6>6. ss[k] \in Seq(T)
            BY <1>1, <6>1
          <6>7. r[k - 1] \o ss[k] \in Seq(T)
            BY <6>5, <6>6, ConcatProperties
          <6>8. QED
            BY <6>1, <6>2, <6>3, <6>7
        <5>2. i - 1 \in 1..n /\ i - 1 # 0 /\ earlier[i] = i - 1
          BY <1>4, <4>3
        <5>3. r[i - 1] \in Seq(T) /\ h[i - 1] = r[i - 1] /\ h[i] = r[i]
          BY <5>1, <5>2
        <5> HIDE DEF h
        <5>4. step[<<i, r[i - 1]>>] = r[i - 1] \o ss[i]
          BY <5>3
        <5>5. QED
          BY <4>1, <4>3, <5>2, <5>3, <5>4
      <4>4. QED
        BY <4>2, <4>3
    <3>5. h[0] = <<>>
      OBVIOUS
    <3>6. h[n] = f[n]
      <4> HIDE DEF h, step, n, F, e
      <4>1. \A i \in 1..n : h[i] = step[<<i, h[earlier[i]]>>]
        BY <3>4
      <4>2. n \in Nat /\ earlier \in [1..n -> Nat] /\ \A i \in 1..n : earlier[i] < i
        BY <1>1, <1>4
      <4>3. Solves(h, n, earlier, <<>>, step)
        BY <3>5, <4>1 DEF Solves
      <4> DEFINE U == Seq(T)
                 empty == <<>>
      <4> HIDE DEF U, empty
      <4>5. Follows(f, n, U, earlier, empty, step) /\ Solves(h, n, earlier, empty, step)
        BY <1>5, <4>3 DEF U, empty
      <4>6. \A i \in 0..n : h[i] = f[i]
        BY <4>2, <4>5, RecursionIsUnique, SMTT(60)
      <4>7. QED
        BY <4>2, <4>6
    <3>7. h[n] = r[n]
      BY <1>1, <2>2
    <3>8. QED
      BY <3>1, <3>6, <3>7
  <2>3. QED
    BY <2>1, <2>2
<1>8. QED
  BY <1>6, <1>7

\* What is flattened are elements of the parts.
LEMMA FlattenType ==
    ASSUME NEW T, NEW ss \in Seq(Seq(T))
    PROVE  FlattenSeq(ss) \in Seq(T)
<1>1. PICK f : Sums(f, ss, T) /\ FlattenSeq(ss) = f[Len(ss)]
  BY FlattenIs
<1>2. Len(ss) \in 0..Len(ss)
  OBVIOUS
<1>3. QED
  BY <1>1, <1>2 DEF Sums

\* Of no sequence nothing is left.
LEMMA FlattenEmpty == FlattenSeq(<<>>) = <<>>
BY DEF FlattenSeq

\* A sequence more is joined at the end.
LEMMA FlattenAppend ==
    ASSUME NEW T, NEW ss \in Seq(Seq(T)), NEW s \in Seq(T)
    PROVE  FlattenSeq(Append(ss, s)) = FlattenSeq(ss) \o s
<1> DEFINE tt == Append(ss, s)
           n == Len(ss)
<1>1. /\ tt \in Seq(Seq(T)) /\ Len(tt) = n + 1 /\ n \in Nat
      /\ tt[n + 1] = s /\ \A i \in 1..n : tt[i] = ss[i]
  BY AppendProperties
<1> HIDE DEF tt
<1>2. PICK f : Sums(f, ss, T) /\ FlattenSeq(ss) = f[n]
  BY FlattenIs
<1>3. PICK g : Sums(g, tt, T) /\ FlattenSeq(tt) = g[n + 1]
  BY <1>1, FlattenIs
<1> HIDE DEF n
<1> DEFINE Bad == {i \in 0..n : f[i] # g[i]}
<1>4. Bad = {}
  <2> SUFFICES ASSUME Bad # {} PROVE FALSE
    OBVIOUS
  <2>1. PICK m \in Bad : \A k \in Bad : m <= k
    <3>1. Bad \subseteq Nat
      BY <1>1
    <3> HIDE DEF Bad
    <3>2. QED
      BY <3>1, LeastNumber
  <2>2. m # 0
    BY <1>2, <1>3, <2>1 DEF Sums
  <2>3. m \in 1..n /\ m \in 1..(n + 1) /\ m - 1 \in 0..n /\ ~(m <= m - 1)
    BY <1>1, <2>1, <2>2
  <2>4. f[m - 1] = g[m - 1]
    BY <2>1, <2>3
  <2>5. f[m] = f[m - 1] \o ss[m] /\ g[m] = g[m - 1] \o tt[m] /\ tt[m] = ss[m]
    BY <1>1, <1>2, <1>3, <2>3 DEF Sums, n
  <2>6. QED
    BY <2>1, <2>4, <2>5
<1>5. f[n] = g[n]
  BY <1>1, <1>4
<1>6. g[n + 1] = g[n] \o tt[n + 1]
  <2>1. n + 1 \in 1..(n + 1) /\ (n + 1) - 1 = n
    BY <1>1
  <2>2. g[n + 1] = g[(n + 1) - 1] \o tt[n + 1]
    BY <1>1, <1>3, <2>1 DEF Sums
  <2>3. QED
    BY <2>1, <2>2
<1>7. QED
  BY <1>1, <1>2, <1>3, <1>5, <1>6 DEF tt

\* Joining one element is appending it.
LEMMA ConcatAppend ==
    ASSUME NEW T, NEW s \in Seq(T), NEW t \in Seq(T), NEW e \in T
    PROVE  s \o Append(t, e) = Append(s \o t, e) /\ s \o t \in Seq(T)
OBVIOUS

\* Flattening distributes over joining.
LEMMA FlattenConcat ==
    ASSUME NEW T, NEW ss \in Seq(Seq(T)), NEW tt \in Seq(Seq(T))
    PROVE  FlattenSeq(ss \o tt) = FlattenSeq(ss) \o FlattenSeq(tt)
<1>0. \A x, y, z \in Seq(T) : (x \o y) \o z = x \o (y \o z)
  <2> TAKE x, y, z \in Seq(T)
  <2>1. QED
    BY ConcatAssociative
<1> DEFINE n == Len(tt)
           first(m) == SubSeq(tt, 1, m)
           Bad == {m \in 0..n : FlattenSeq(ss \o first(m)) # FlattenSeq(ss) \o FlattenSeq(first(m))}
<1>1. n \in Nat /\ FlattenSeq(ss) \in Seq(T)
  BY FlattenType
<1>2. first(0) = <<>> /\ first(n) = tt
  BY SubSeqEmpty, SubSeqFull
<1>3. Bad = {}
  <2> SUFFICES ASSUME Bad # {} PROVE FALSE
    OBVIOUS
  <2>1. PICK m \in Bad : \A k \in Bad : m <= k
    <3>1. Bad \subseteq Nat
      BY <1>1
    <3> HIDE DEF Bad
    <3>2. QED
      BY <3>1, LeastNumber
  <2>2. m # 0
    <3>1. ss \o <<>> = ss /\ FlattenSeq(ss) \o <<>> = FlattenSeq(ss)
      BY <1>1, ConcatEmptySeq
    <3>2. FlattenSeq(ss \o first(0)) = FlattenSeq(ss) \o FlattenSeq(first(0))
      BY <1>2, <3>1, FlattenEmpty
    <3>3. QED
      BY <2>1, <3>2
  <2>3. m \in 1..n /\ m - 1 \in 0..n /\ ~(m <= m - 1)
    BY <1>1, <2>1, <2>2
  <2> DEFINE u == first(m - 1)
             s == tt[m]
  <2>4. u \in Seq(Seq(T)) /\ s \in Seq(T) /\ first(m) = Append(u, s)
    BY <2>3
  <2>5. FlattenSeq(ss \o u) = FlattenSeq(ss) \o FlattenSeq(u)
    BY <2>1, <2>3
  <2> HIDE DEF u, s
  <2>6. ss \o Append(u, s) = Append(ss \o u, s) /\ ss \o u \in Seq(Seq(T))
    <3>1. u \in Seq(Seq(T)) /\ s \in Seq(T)
      BY <2>4
    <3> HIDE DEF first, n
    <3>2. QED
      BY <3>1, ConcatAppend
  <2>7. FlattenSeq(Append(ss \o u, s)) = FlattenSeq(ss \o u) \o s
    BY <2>4, <2>6, FlattenAppend
  <2>8. FlattenSeq(Append(u, s)) = FlattenSeq(u) \o s /\ FlattenSeq(u) \in Seq(T)
    BY <2>4, FlattenAppend, FlattenType
  <2>9. (FlattenSeq(ss) \o FlattenSeq(u)) \o s = FlattenSeq(ss) \o (FlattenSeq(u) \o s)
    <3> HIDE DEF first, n
    <3>1. QED
      BY <1>1, <1>0, <2>4, <2>8
  <2>10. FlattenSeq(ss \o first(m)) = FlattenSeq(ss) \o FlattenSeq(first(m))
    BY <2>4, <2>5, <2>6, <2>7, <2>8, <2>9
  <2>11. QED
    BY <2>1, <2>10
<1>4. n \in 0..n
  BY <1>1
<1>5. QED
  BY <1>2, <1>3, <1>4

\* One sequence is left as it is.
LEMMA FlattenOne ==
    ASSUME NEW T, NEW s \in Seq(T)
    PROVE  FlattenSeq(<<s>>) = s
<1>1. <<>> \in Seq(Seq(T)) /\ <<s>> = Append(<<>>, s)
  OBVIOUS
<1>2. FlattenSeq(<<s>>) = FlattenSeq(<<>>) \o s
  BY <1>1, FlattenAppend
<1>3. QED
  BY <1>2, FlattenEmpty, ConcatEmptySeq

-----------------------------------------------------------------------------
(* Leaves under names *)

\* A leaf that was given: its value and the names on the way to it.
Leaf == [path : Seq(Keys), value : Values]

\* A leaf under more names is a leaf.
LEMMA LeafUnder ==
    ASSUME NEW p \in Seq(Keys), NEW leaf \in Leaf
    PROVE  /\ [leaf EXCEPT !.path = p \o @] = [path |-> p \o leaf.path, value |-> leaf.value]
           /\ [path |-> p \o leaf.path, value |-> leaf.value] \in Leaf
<1> USE DEF Leaf
<1>1. leaf.path \in Seq(Keys) /\ leaf.value \in Values
  OBVIOUS
<1>2. p \o leaf.path \in Seq(Keys)
  BY <1>1, ConcatProperties
<1>3. [leaf EXCEPT !.path = p \o @] = [path |-> p \o leaf.path, value |-> leaf.value]
  <2>1. leaf = [path |-> leaf.path, value |-> leaf.value]
    OBVIOUS
  <2>2. \A q1 : [leaf EXCEPT !.path = q1] = [path |-> q1, value |-> leaf.value]
    BY <2>1
  <2>3. QED
    BY <2>2
<1>4. QED
  BY <1>1, <1>2, <1>3

\* Under puts the names before those of every leaf.
LEMMA UnderIs ==
    ASSUME NEW p \in Seq(Keys), NEW s \in Seq(Leaf)
    PROVE  /\ Under(p, s) \in Seq(Leaf) /\ Len(Under(p, s)) = Len(s)
           /\ \A i \in 1..Len(s) :
                Under(p, s)[i] = [path |-> p \o s[i].path, value |-> s[i].value]
<1>1. ASSUME NEW i \in 1..Len(s)
      PROVE  /\ [s[i] EXCEPT !.path = p \o @] = [path |-> p \o s[i].path, value |-> s[i].value]
             /\ [path |-> p \o s[i].path, value |-> s[i].value] \in Leaf
  <2>1. s[i] \in Leaf
    OBVIOUS
  <2>2. QED
    BY <2>1, LeafUnder
<1>2. Under(p, s) = [i \in 1..Len(s) |-> [path |-> p \o s[i].path, value |-> s[i].value]]
  <2>1. DOMAIN s = 1..Len(s)
    OBVIOUS
  <2>2. QED
    BY <1>1, <2>1, Zenon DEF Under
<1> DEFINE u == [i \in 1..Len(s) |-> [path |-> p \o s[i].path, value |-> s[i].value]]
<1>3. u \in [1..Len(s) -> Leaf] /\ Len(s) \in Nat
  <2>1. \A i \in 1..Len(s) : [path |-> p \o s[i].path, value |-> s[i].value] \in Leaf
    BY <1>1
  <2>2. u \in [1..Len(s) -> Leaf]
    BY <2>1, Zenon
  <2>3. Len(s) \in Nat
    OBVIOUS
  <2>4. QED
    BY <2>2, <2>3
<1>4. \A i \in 1..Len(s) : u[i] = [path |-> p \o s[i].path, value |-> s[i].value]
  OBVIOUS
<1> HIDE DEF u
<1>5. u \in Seq(Leaf) /\ Len(u) = Len(s)
  BY <1>3
<1>6. QED
  BY <1>2, <1>4, <1>5 DEF u

\* Two sequences of leaves are under the names when both halves are.
LEMMA UnderConcat ==
    ASSUME NEW p \in Seq(Keys), NEW s \in Seq(Leaf), NEW t \in Seq(Leaf)
    PROVE  Under(p, s \o t) = Under(p, s) \o Under(p, t)
<1>1. s \o t \in Seq(Leaf) /\ Len(s \o t) = Len(s) + Len(t) /\ Len(s) \in Nat /\ Len(t) \in Nat
  OBVIOUS
<1> DEFINE a == Under(p, s \o t)
           b == Under(p, s) \o Under(p, t)
<1>2. a \in Seq(Leaf) /\ b \in Seq(Leaf) /\ Len(a) = Len(s) + Len(t) /\ Len(b) = Len(s) + Len(t)
  <2>1. Under(p, s) \in Seq(Leaf) /\ Under(p, t) \in Seq(Leaf) /\ Len(Under(p, s)) = Len(s) /\ Len(Under(p, t)) = Len(t)
    BY UnderIs
  <2>2. a \in Seq(Leaf) /\ Len(a) = Len(s) + Len(t)
    BY <1>1, UnderIs
  <2>3. QED
    BY <2>1, <2>2, ConcatProperties
<1>3. ASSUME NEW i \in 1..Len(a) PROVE a[i] = b[i]
  <2>1. a[i] = [path |-> p \o (s \o t)[i].path, value |-> (s \o t)[i].value]
    <3>1. i \in 1..Len(s \o t)
      BY <1>1, <1>2
    <3>2. QED
      BY <1>1, <3>1, UnderIs
  <2>2. CASE i <= Len(s)
    <3>1. i \in 1..Len(s) /\ (s \o t)[i] = s[i]
      BY <1>1, <1>2, <2>2
    <3>2. b[i] = Under(p, s)[i]
      BY <1>1, <1>2, <2>2, UnderIs, ConcatProperties
    <3> HIDE DEF a, b
    <3>3. QED
      BY <2>1, <3>1, <3>2, UnderIs
  <2>3. CASE ~(i <= Len(s))
    <3>1. i - Len(s) \in 1..Len(t) /\ (s \o t)[i] = t[i - Len(s)]
      BY <1>1, <1>2, <2>3
    <3>2. b[i] = Under(p, t)[i - Len(s)]
      BY <1>1, <1>2, <2>3, UnderIs, ConcatProperties
    <3> HIDE DEF a, b
    <3>3. QED
      BY <2>1, <3>1, <3>2, UnderIs
  <2>4. QED
    BY <2>2, <2>3
<1> HIDE DEF a, b
<1>4. a = b
  BY <1>2, <1>3, SeqEqual
<1>5. QED
  BY <1>4 DEF a, b

\* Names under names are one list of names.
LEMMA UnderUnder ==
    ASSUME NEW p \in Seq(Keys), NEW q \in Seq(Keys), NEW s \in Seq(Leaf)
    PROVE  Under(p, Under(q, s)) = Under(p \o q, s)
<1> DEFINE a == Under(p, Under(q, s))
           b == Under(p \o q, s)
<1>1. p \o q \in Seq(Keys)
  OBVIOUS
<1>2. a \in Seq(Leaf) /\ b \in Seq(Leaf) /\ Len(a) = Len(s) /\ Len(b) = Len(s)
  BY <1>1, UnderIs
<1>3. ASSUME NEW i \in 1..Len(a) PROVE a[i] = b[i]
  <2>1. i \in 1..Len(s) /\ s[i] \in Leaf /\ Under(q, s) \in Seq(Leaf) /\ Len(Under(q, s)) = Len(s)
    BY <1>2, UnderIs
  <2>2. Under(q, s)[i] = [path |-> q \o s[i].path, value |-> s[i].value]
    BY <2>1, UnderIs
  <2>3. a[i] = [path |-> p \o (q \o s[i].path), value |-> s[i].value]
    <3>1. i \in 1..Len(Under(q, s))
      BY <2>1
    <3>2. a[i] = [path |-> p \o Under(q, s)[i].path, value |-> Under(q, s)[i].value]
      BY <2>1, <3>1, UnderIs
    <3> HIDE DEF a, b
    <3>3. QED
      BY <2>2, <3>2
  <2>4. b[i] = [path |-> (p \o q) \o s[i].path, value |-> s[i].value]
    BY <1>1, <2>1, UnderIs
  <2>5. (p \o q) \o s[i].path = p \o (q \o s[i].path)
    <3>1. s[i].path \in Seq(Keys)
      BY <2>1 DEF Leaf
    <3>2. \A x, y, z \in Seq(Keys) : (x \o y) \o z = x \o (y \o z)
      BY ConcatAssociative
    <3>3. QED
      BY <3>1, <3>2
  <2> HIDE DEF a, b
  <2>6. QED
    BY <2>3, <2>4, <2>5
<1> HIDE DEF a, b
<1>4. a = b
  BY <1>2, <1>3, SeqEqual
<1>5. QED
  BY <1>4 DEF a, b

\* Under no name the leaves stay as they are.
LEMMA UnderNothing ==
    ASSUME NEW s \in Seq(Leaf)
    PROVE  Under(<<>>, s) = s
<1> DEFINE a == Under(<<>>, s)
<1>1. <<>> \in Seq(Keys)
  OBVIOUS
<1>2. a \in Seq(Leaf) /\ Len(a) = Len(s)
  BY <1>1, UnderIs
<1>3. ASSUME NEW i \in 1..Len(a) PROVE a[i] = s[i]
  <2>1. i \in 1..Len(s) /\ s[i] \in Leaf
    BY <1>2
  <2>2. a[i] = [path |-> <<>> \o s[i].path, value |-> s[i].value]
    BY <1>1, <2>1, UnderIs
  <2>3. <<>> \o s[i].path = s[i].path
    BY <2>1, ConcatEmptySeq DEF Leaf
  <2> HIDE DEF a
  <2>4. QED
    BY <2>1, <2>2, <2>3 DEF Leaf
<1> HIDE DEF a
<1>4. a = s
  BY <1>2, <1>3, SeqEqual
<1>5. QED
  BY <1>4 DEF a

\* Names can be put in front of all leaves or of those of each part.
LEMMA UnderFlatten ==
    ASSUME NEW p \in Seq(Keys), NEW ss \in Seq(Seq(Leaf))
    PROVE  Under(p, FlattenSeq(ss)) = FlattenSeq([i \in DOMAIN ss |-> Under(p, ss[i])])
<1> DEFINE n == Len(ss)
           tt == [i \in DOMAIN ss |-> Under(p, ss[i])]
<1>1. n \in Nat /\ DOMAIN ss = 1..n /\ \A i \in 1..n : ss[i] \in Seq(Leaf) /\ Under(p, ss[i]) \in Seq(Leaf)
  BY UnderIs
<1>2. tt \in Seq(Seq(Leaf)) /\ Len(tt) = n /\ \A i \in 1..n : tt[i] = Under(p, ss[i])
  BY <1>1
<1> HIDE DEF tt
<1>3. PICK f : Sums(f, ss, Leaf) /\ FlattenSeq(ss) = f[n]
  BY FlattenIs
<1>4. PICK g : Sums(g, tt, Leaf) /\ FlattenSeq(tt) = g[n]
  BY <1>2, FlattenIs
<1> DEFINE Bad == {i \in 0..n : Under(p, f[i]) # g[i]}
<1>5. Bad = {}
  <2> SUFFICES ASSUME Bad # {} PROVE FALSE
    OBVIOUS
  <2>1. PICK m \in Bad : \A k \in Bad : m <= k
    <3>1. Bad \subseteq Nat
      BY <1>1
    <3> HIDE DEF Bad
    <3>2. QED
      BY <3>1, LeastNumber
  <2>2. m # 0
    <3>1. Under(p, <<>>) = <<>>
      BY DEF Under
    <3>2. QED
      BY <1>3, <1>4, <2>1, <3>1 DEF Sums
  <2>3. m \in 1..n /\ m - 1 \in 0..n /\ ~(m <= m - 1)
    BY <1>1, <2>1, <2>2
  <2>4. Under(p, f[m - 1]) = g[m - 1]
    BY <2>1, <2>3
  <2>5. f[m] = f[m - 1] \o ss[m] /\ f[m - 1] \in Seq(Leaf) /\ g[m] = g[m - 1] \o Under(p, ss[m])
    BY <1>2, <1>3, <1>4, <2>3 DEF Sums
  <2>6. Under(p, f[m - 1] \o ss[m]) = Under(p, f[m - 1]) \o Under(p, ss[m])
    BY <1>1, <2>3, <2>5, UnderConcat
  <2>7. QED
    BY <2>1, <2>4, <2>5, <2>6
<1>6. n \in 0..n
  BY <1>1
<1>7. Under(p, f[n]) = g[n]
  BY <1>5, <1>6
<1>8. QED
  BY <1>3, <1>4, <1>7 DEF tt

\* The leaves of an attribute, a member or an element are leaves, in the order given.
LEMMA NamedIs ==
    ASSUME NEW how, NEW attr \in Attr, NEW s \in Seq(Leaf)
    PROVE  Named(how, attr, s) \in Seq(Leaf)
<1>1. <<attr.key>> \in Seq(Keys) /\ <<>> \in Seq(Leaf)
  BY DEF Attr
<1>2. Under(<<attr.key>>, s) \in Seq(Leaf)
  BY <1>1, UnderIs
<1>3. QED
  BY <1>1, <1>2 DEF Named

-----------------------------------------------------------------------------
(* The leaves of a value *)

\* The leaves of each item of v, if f has those of the older values.
Parts(f, v) ==
    [i \in DOMAIN Items[v] |-> Named(Into[Kind[v]], Items[v][i], f[Items[v][i].value])]

\* The leaves of v, if f has those of the older values.
LeavesOf(f, v) ==
    CASE Kind[v] \in {"nil", "leaf"} -> <<[path |-> <<>>, value |-> v]>>
      [] Kind[v] = "bad" -> <<>>
      [] OTHER -> FlattenSeq(Parts(f, v))

\* So a set of values has a least one.
LEMMA ValuesAreNumbers == \A v \in Values : v \in Nat
BY LogConstants

\* A value and what it holds, which is older.
LEMMA ItemsAreOlder ==
    ASSUME NEW v \in Values
    PROVE  /\ v \in Nat /\ Kind[v] \in Kinds /\ Items[v] \in Seq(Attr)
           /\ \A i \in 1..Len(Items[v]) :
                /\ Items[v][i] \in Attr /\ Items[v][i].value \in Values
                /\ Items[v][i].value < v
                /\ Kind[v] = "list" => Items[v][i].key = ""
<1>1. v \in Nat /\ Kind[v] \in Kinds /\ Items[v] \in Seq(Attr)
  BY LogConstants
<1>2. DOMAIN Items[v] = 1..Len(Items[v])
  BY <1>1
<1>3. ASSUME NEW i \in 1..Len(Items[v])
      PROVE  Items[v][i] \in Attr /\ Items[v][i].value \in Values
  <2>1. Items[v][i] \in Attr
    BY <1>1, ElementOfSeq
  <2>2. QED
    BY <2>1 DEF Attr
<1>4. \A i \in 1..Len(Items[v]) :
        Items[v][i].value < v /\ (Kind[v] = "list" => Items[v][i].key = "")
  BY <1>2, LogConstants
<1>5. QED
  BY <1>1, <1>3, <1>4

\* The parts are leaves when f has leaves for the older values.
LEMMA PartsType ==
    ASSUME NEW v \in Values, NEW f, \A w \in Values : w < v => f[w] \in Seq(Leaf)
    PROVE  /\ Parts(f, v) \in Seq(Seq(Leaf)) /\ Len(Parts(f, v)) = Len(Items[v])
           /\ \A i \in 1..Len(Items[v]) :
                Parts(f, v)[i] = Named(Into[Kind[v]], Items[v][i], f[Items[v][i].value])
<1>1. DOMAIN Items[v] = 1..Len(Items[v]) /\ Len(Items[v]) \in Nat
  <2>1. Items[v] \in Seq(Attr)
    BY ItemsAreOlder
  <2>2. QED
    BY <2>1, LenProperties
<1>2. ASSUME NEW i \in 1..Len(Items[v])
      PROVE  Named(Into[Kind[v]], Items[v][i], f[Items[v][i].value]) \in Seq(Leaf)
  <2>1. Items[v][i] \in Attr /\ f[Items[v][i].value] \in Seq(Leaf)
    BY ItemsAreOlder
  <2>2. QED
    BY <2>1, NamedIs
<1> DEFINE parts == [i \in 1..Len(Items[v]) |-> Named(Into[Kind[v]], Items[v][i], f[Items[v][i].value])]
<1>3. Parts(f, v) = parts
  BY <1>1 DEF Parts
<1>4. parts \in [1..Len(Items[v]) -> Seq(Leaf)]
  BY <1>2
<1>5. \A i \in 1..Len(Items[v]) : parts[i] = Named(Into[Kind[v]], Items[v][i], f[Items[v][i].value])
  OBVIOUS
<1> HIDE DEF parts
<1>6. parts \in Seq(Seq(Leaf)) /\ Len(parts) = Len(Items[v])
  BY <1>1, <1>4
<1>7. QED
  BY <1>3, <1>5, <1>6

\* What a value holds are leaves when f has leaves for the older values.
LEMMA LeavesOfType ==
    ASSUME NEW v \in Values, NEW f, \A w \in Values : w < v => f[w] \in Seq(Leaf)
    PROVE  LeavesOf(f, v) \in Seq(Leaf)
<1>1. FlattenSeq(Parts(f, v)) \in Seq(Leaf)
  BY PartsType, FlattenType
<1>2. <<[path |-> <<>>, value |-> v]>> \in Seq(Leaf)
  BY DEF Leaf
<1>3. <<>> \in Seq(Leaf)
  OBVIOUS
<1>4. QED
  BY <1>1, <1>2, <1>3 DEF LeavesOf

\* Only the older values count.
LEMMA LeavesOfSame ==
    ASSUME NEW v \in Values, NEW f, NEW g, \A w \in Values : w < v => f[w] = g[w]
    PROVE  LeavesOf(f, v) = LeavesOf(g, v)
<1>1. ASSUME NEW i \in DOMAIN Items[v]
      PROVE  f[Items[v][i].value] = g[Items[v][i].value]
  <2>1. i \in 1..Len(Items[v])
    BY ItemsAreOlder, LenProperties
  <2>2. QED
    BY <2>1, ItemsAreOlder
<1>2. Parts(f, v) = Parts(g, v)
  BY <1>1, Zenon DEF Parts
<1>3. QED
  BY <1>2 DEF LeavesOf

\* f has the leaves of the values before n.
Partial(f, n) ==
    \A v \in Values : v < n => f[v] \in Seq(Leaf) /\ f[v] = LeavesOf(f, v)

\* Two such functions agree where both are defined.
LEMMA PartialIsUnique ==
    ASSUME NEW m \in Nat, NEW n \in Nat, NEW f, NEW g, Partial(f, m), Partial(g, n)
    PROVE  \A v \in Values : v < m /\ v < n => f[v] = g[v]
<1> DEFINE Bad == {v \in Values : v < m /\ v < n /\ f[v] # g[v]}
<1>1. Bad = {}
  <2> SUFFICES ASSUME Bad # {} PROVE FALSE
    OBVIOUS
  <2>1. PICK v \in Bad : \A w \in Bad : v <= w
    <3>1. Bad \subseteq Nat
      BY ValuesAreNumbers
    <3> HIDE DEF Bad
    <3>2. QED
      BY <3>1, LeastNumber
  <2>2. v \in Nat /\ \A w \in Values : w \in Nat
    BY <2>1, ValuesAreNumbers
  <2>3. \A w \in Values : w < v => f[w] = g[w]
    BY <2>1, <2>2
  <2>4. LeavesOf(f, v) = LeavesOf(g, v)
    BY <2>1, <2>3, LeavesOfSame
  <2>5. QED
    BY <2>1, <2>4 DEF Partial
<1>2. QED
  BY <1>1

\* There is one for every bound.
LEMMA PartialExists ==
    ASSUME NEW n \in Nat
    PROVE  \E f : Partial(f, n)
<1> DEFINE Bad == {m \in Nat : ~ \E f : Partial(f, m)}
<1>1. Bad = {}
  <2> SUFFICES ASSUME Bad # {} PROVE FALSE
    OBVIOUS
  <2>1. PICK m \in Bad : \A k \in Bad : m <= k
    <3>1. Bad \subseteq Nat
      OBVIOUS
    <3> HIDE DEF Bad
    <3>2. QED
      BY <3>1, LeastNumber
  <2>2. m # 0
    <3>1. \A v \in Values : ~(v < 0)
      BY ValuesAreNumbers
    <3>2. Partial(<<>>, 0)
      BY <3>1 DEF Partial
    <3>3. QED
      BY <2>1, <3>2
  <2>3. m - 1 \in Nat /\ ~(m <= m - 1)
    BY <2>1, <2>2
  <2>4. PICK g : Partial(g, m - 1)
    BY <2>1, <2>3
  <2> DEFINE h == [v \in Values |-> IF v < m - 1 THEN g[v] ELSE LeavesOf(g, v)]
  <2>5. \A v \in Values : v \in Nat /\ (v < m /\ ~(v < m - 1) => v = m - 1)
    BY <2>3, ValuesAreNumbers
  <2>6. ASSUME NEW v \in Values, v < m
        PROVE  h[v] \in Seq(Leaf) /\ h[v] = LeavesOf(h, v)
    <3>1. \A w \in Values : w < v => w < m - 1
      BY <2>3, <2>5, <2>6
    <3>2. \A w \in Values : w < v => h[w] = g[w] /\ g[w] \in Seq(Leaf)
      BY <2>4, <3>1 DEF Partial
    <3>3. h[v] = LeavesOf(g, v)
      <4>1. v < m - 1 => g[v] = LeavesOf(g, v)
        BY <2>4 DEF Partial
      <4>2. QED
        BY <4>1
    <3>4. LeavesOf(g, v) \in Seq(Leaf)
      BY <3>2, LeavesOfType
    <3> HIDE DEF h
    <3>5. LeavesOf(h, v) = LeavesOf(g, v)
      BY <3>2, LeavesOfSame
    <3>6. QED
      BY <3>3, <3>4, <3>5
  <2>7. Partial(h, m)
    BY <2>6 DEF Partial
  <2>8. QED
    BY <2>1, <2>7
<1>2. QED
  BY <1>1

\* What Leaves gives: its equation has a solution.
LEMMA LeavesIs ==
    ASSUME NEW v \in Values
    PROVE  Leaves[v] \in Seq(Leaf) /\ Leaves[v] = LeavesOf(Leaves, v)
<1> DEFINE upTo == [n \in Nat |-> CHOOSE f : Partial(f, n)]
           all == [w \in Values |-> upTo[w + 1][w]]
           body(f) == [w \in Values |-> LeavesOf(f, w)]
<1>1. \A w \in Values : w \in Nat /\ w + 1 \in Nat /\ w < w + 1
  BY ValuesAreNumbers
<1>2. \A n \in Nat : Partial(upTo[n], n)
  BY PartialExists
<1> HIDE DEF upTo
<1>3. ASSUME NEW w \in Values
      PROVE  all[w] \in Seq(Leaf) /\ all[w] = LeavesOf(all, w)
  <2>1. Partial(upTo[w + 1], w + 1)
    BY <1>1, <1>2
  <2>2. ASSUME NEW u \in Values, u < w PROVE all[u] = upTo[w + 1][u]
    <3>1. u < u + 1 /\ u < w + 1 /\ u + 1 \in Nat /\ w + 1 \in Nat
      BY <1>1, <2>2
    <3>2. Partial(upTo[u + 1], u + 1)
      BY <1>2, <3>1
    <3>3. upTo[u + 1][u] = upTo[w + 1][u]
      BY <2>1, <3>1, <3>2, PartialIsUnique
    <3>4. QED
      BY <3>3
  <2>3. all[w] = upTo[w + 1][w]
    OBVIOUS
  <2> HIDE DEF all
  <2>4. LeavesOf(all, w) = LeavesOf(upTo[w + 1], w)
    BY <2>2, LeavesOfSame
  <2>5. QED
    BY <1>1, <2>1, <2>3, <2>4 DEF Partial
<1>4. all = body(all)
  <2>1. all = [w \in Values |-> all[w]]
    OBVIOUS
  <2> HIDE DEF all
  <2>2. QED
    BY <1>3, <2>1, Zenon
<1>5. Leaves = CHOOSE f : f = body(f)
  BY Zenon DEF Leaves, LeavesOf, Parts
<1>6. Leaves = body(Leaves)
  <2> HIDE DEF body, all
  <2>1. QED
    BY <1>4, <1>5
<1>7. ASSUME NEW w \in Values PROVE Leaves[w] = LeavesOf(Leaves, w)
  <2> DEFINE L == Leaves
  <2>1. L = body(L)
    BY <1>6
  <2> HIDE DEF L
  <2>2. L[w] = LeavesOf(L, w)
    BY <2>1
  <2>3. QED
    BY <2>2 DEF L
<1>8. \A w \in Values : Leaves[w] \in Seq(Leaf)
  <2> DEFINE Bad == {w \in Values : Leaves[w] \notin Seq(Leaf)}
  <2>1. Bad = {}
    <3> SUFFICES ASSUME Bad # {} PROVE FALSE
      OBVIOUS
    <3>1. PICK w \in Bad : \A u \in Bad : w <= u
      <4>1. Bad \subseteq Nat
        BY ValuesAreNumbers
      <4> HIDE DEF Bad
      <4>2. QED
        BY <4>1, LeastNumber
    <3>2. \A u \in Values : u < w => Leaves[u] \in Seq(Leaf)
      BY <1>1, <3>1
    <3>3. LeavesOf(Leaves, w) \in Seq(Leaf)
      BY <3>1, <3>2, LeavesOfType
    <3>4. QED
      BY <1>7, <3>1, <3>3
  <2>2. QED
    BY <2>1
<1>9. QED
  BY <1>7, <1>8

-----------------------------------------------------------------------------
(* The names on the way to a field *)

\* A field is made after its parent.
Tree(fields) == \A i \in 1..Len(fields) : fields[i].parent \in 0..(i - 1)

\* The names on the way to a field are those of its parent and its own.
LEMMA PathIs ==
    ASSUME NEW fields \in Seq(LogFields), Tree(fields)
    PROVE  /\ Path(fields) \in [0..Len(fields) -> Seq(Keys)]
           /\ Path(fields)[0] = <<>>
           /\ \A i \in 1..Len(fields) :
                Path(fields)[i] = Append(Path(fields)[fields[i].parent], fields[i].key)
<1> DEFINE n == Len(fields)
           earlier == [i \in 1..n |-> fields[i].parent]
           step == [p \in (1..n) \X Seq(Keys) |-> Append(p[2], fields[p[1]].key)]
           body(f) == [i \in 0..n |-> IF i = 0 THEN <<>> ELSE Append(f[fields[i].parent], fields[i].key)]
<1>1. n \in Nat /\ \A i \in 1..n : /\ fields[i].key \in Keys /\ fields[i].parent \in 0..n
                                   /\ fields[i].parent \in Nat /\ fields[i].parent < i
  <2>1. ASSUME NEW i \in 1..n
        PROVE  /\ fields[i].key \in Keys /\ fields[i].parent \in 0..n
               /\ fields[i].parent \in Nat /\ fields[i].parent < i
    <3>1. fields[i] \in LogFields /\ fields[i].parent \in 0..(i - 1)
      BY DEF Tree
    <3>2. QED
      BY <3>1 DEF LogFields
  <2>2. QED
    BY <2>1
<1>2. step \in [(1..n) \X Seq(Keys) -> Seq(Keys)]
  BY <1>1
<1>3. earlier \in [1..n -> Nat] /\ \A i \in 1..n : earlier[i] < i
  BY <1>1
<1>4. \A i \in 1..n : earlier[i] = fields[i].parent
  OBVIOUS
<1>5. \A i \in 1..n, s \in Seq(Keys) : step[<<i, s>>] = Append(s, fields[i].key)
  OBVIOUS
<1>6. PICK f : Follows(f, n, Seq(Keys), earlier, <<>>, step)
  <2> HIDE DEF n, step, earlier
  <2>1. <<>> \in Seq(Keys)
    OBVIOUS
  <2>2. QED
    BY <1>1, <1>2, <1>3, <2>1, RecursionExists
<1> HIDE DEF step, earlier
<1>7. f \in [0..n -> Seq(Keys)] /\ f[0] = <<>>
  BY <1>6 DEF Follows
<1>8. ASSUME NEW i \in 1..n PROVE f[i] = Append(f[fields[i].parent], fields[i].key)
  <2>1. f[i] = step[<<i, f[fields[i].parent]>>]
    BY <1>4, <1>6 DEF Follows
  <2>2. f[fields[i].parent] \in Seq(Keys)
    BY <1>1, <1>7
  <2>3. QED
    BY <1>5, <2>1, <2>2
<1>9. f = body(f)
  <2>1. \A i \in 0..n : f[i] = IF i = 0 THEN <<>> ELSE Append(f[fields[i].parent], fields[i].key)
    BY <1>1, <1>7, <1>8
  <2>2. f = [i \in 0..n |-> f[i]]
    BY <1>7
  <2>3. QED
    BY <2>1, <2>2, Zenon
<1>10. Path(fields) = CHOOSE g : g = body(g)
  BY Zenon DEF Path
<1> DEFINE p == Path(fields)
<1>11. p = body(p)
  <2> HIDE DEF body
  <2>1. QED
    BY <1>9, <1>10
<1> HIDE DEF p
<1>12. p[0] = <<>> /\ \A i \in 1..n : p[i] = Append(p[fields[i].parent], fields[i].key)
  <2>1. \A i \in 0..n : p[i] = IF i = 0 THEN <<>> ELSE Append(p[fields[i].parent], fields[i].key)
    BY <1>11
  <2>2. 0 \in 0..n /\ \A i \in 1..n : i \in 0..n /\ i # 0
    BY <1>1
  <2> HIDE DEF body
  <2>3. QED
    BY <2>1, <2>2
<1>13. \A i \in 0..n : p[i] \in Seq(Keys)
  <2> DEFINE Bad == {i \in 0..n : p[i] \notin Seq(Keys)}
  <2>1. Bad = {}
    <3> SUFFICES ASSUME Bad # {} PROVE FALSE
      OBVIOUS
    <3>1. PICK m \in Bad : \A k \in Bad : m <= k
      <4>1. Bad \subseteq Nat
        OBVIOUS
      <4> HIDE DEF Bad
      <4>2. QED
        BY <4>1, LeastNumber
    <3>2. m # 0
      <4>1. <<>> \in Seq(Keys)
        OBVIOUS
      <4>2. QED
        BY <1>12, <3>1, <4>1
    <3>3. m \in 1..n /\ fields[m].parent \in 0..n /\ ~(m <= fields[m].parent)
      BY <1>1, <3>1, <3>2
    <3>4. p[fields[m].parent] \in Seq(Keys)
      BY <3>1, <3>3
    <3>5. p[m] \in Seq(Keys)
      <4>1. p[m] = Append(p[fields[m].parent], fields[m].key) /\ fields[m].key \in Keys
        BY <1>1, <1>12, <3>3
      <4>2. QED
        BY <3>4, <4>1, AppendProperties
    <3>6. QED
      BY <3>1, <3>5
  <2>2. QED
    BY <2>1
<1>14. p \in [0..n -> Seq(Keys)]
  <2>1. p = [i \in 0..n |-> IF i = 0 THEN <<>> ELSE Append(p[fields[i].parent], fields[i].key)]
    BY <1>11
  <2>2. DOMAIN p = 0..n /\ p = [i \in 0..n |-> p[i]]
    BY <2>1
  <2>3. QED
    BY <1>13, <2>2
<1>15. QED
  BY <1>12, <1>14 DEF p

\* A new field leaves the names of the older ones alone.
LEMMA PathKept ==
    ASSUME NEW fields \in Seq(LogFields), Tree(fields), NEW field \in LogFields,
           field.parent \in 0..Len(fields)
    PROVE  /\ Append(fields, field) \in Seq(LogFields) /\ Tree(Append(fields, field))
           /\ Len(Append(fields, field)) = Len(fields) + 1
           /\ \A i \in 1..Len(fields) : Append(fields, field)[i] = fields[i]
           /\ Append(fields, field)[Len(fields) + 1] = field
           /\ \A i \in 0..Len(fields) : Path(Append(fields, field))[i] = Path(fields)[i]
           /\ Path(Append(fields, field))[Len(fields) + 1]
                = Append(Path(fields)[field.parent], field.key)
<1> DEFINE more == Append(fields, field)
           n == Len(fields)
<1>1. /\ n \in Nat /\ more \in Seq(LogFields) /\ Len(more) = n + 1
      /\ more[n + 1] = field /\ \A i \in 1..n : more[i] = fields[i]
  BY AppendProperties
<1> HIDE DEF more
<1>2. Tree(more)
  <2>1. ASSUME NEW i \in 1..(n + 1) PROVE more[i].parent \in 0..(i - 1)
    <3>1. CASE i = n + 1
      BY <1>1, <3>1
    <3>2. CASE i # n + 1
      <4>1. i \in 1..n
        BY <1>1, <3>2
      <4>2. QED
        BY <1>1, <4>1 DEF Tree
    <3>3. QED
      BY <3>1, <3>2
  <2>2. QED
    BY <1>1, <2>1 DEF Tree
<1> DEFINE p == Path(fields)
           q == Path(more)
<1>3. p[0] = <<>> /\ \A i \in 1..n : p[i] = Append(p[fields[i].parent], fields[i].key)
  BY PathIs
<1>4. q[0] = <<>> /\ \A i \in 1..(n + 1) : q[i] = Append(q[more[i].parent], more[i].key)
  BY <1>1, <1>2, PathIs
<1> HIDE DEF p, q
<1> DEFINE Bad == {i \in 0..n : p[i] # q[i]}
<1>5. Bad = {}
  <2> SUFFICES ASSUME Bad # {} PROVE FALSE
    OBVIOUS
  <2>1. PICK m \in Bad : \A k \in Bad : m <= k
    <3>1. Bad \subseteq Nat
      BY <1>1
    <3> HIDE DEF Bad
    <3>2. QED
      BY <3>1, LeastNumber
  <2>2. m # 0
    BY <1>3, <1>4, <2>1
  <2>3. m \in 1..n /\ m \in 1..(n + 1)
    BY <1>1, <2>1, <2>2
  <2>4. fields[m].parent \in 0..n /\ ~(m <= fields[m].parent)
    BY <1>1, <2>3 DEF Tree
  <2>5. p[fields[m].parent] = q[fields[m].parent]
    BY <2>1, <2>4
  <2>6. p[m] = Append(p[fields[m].parent], fields[m].key)
    BY <1>3, <2>3
  <2>7. q[m] = Append(q[fields[m].parent], fields[m].key)
    BY <1>1, <1>4, <2>3
  <2>8. QED
    BY <2>1, <2>5, <2>6, <2>7
<1>6. q[n + 1] = Append(p[field.parent], field.key)
  <2>1. n + 1 \in 1..(n + 1)
    BY <1>1
  <2>2. q[n + 1] = Append(q[field.parent], field.key)
    BY <1>1, <1>4, <2>1
  <2>3. QED
    BY <1>5, <2>2
<1>7. \A i \in 0..n : q[i] = p[i]
  BY <1>5
<1>8. QED
  BY <1>1, <1>2, <1>6, <1>7 DEF more, p, q

-----------------------------------------------------------------------------
(* The leaves that are still to come *)

\* The leaves that a call of the sanitizer was given.
CallLeaves(fields, c) ==
    Under(Path(fields)[c.target] \o c.groups, Named(c.how, c.attr, Leaves[c.attr.value]))

\* The leaves that the calls will tell, in their order.
TodoIn(fields, calls) == FlattenSeq([i \in DOMAIN calls |-> CallLeaves(fields, calls[i])])

\* Every call adds to a field there is.
Aimed(fields, calls) ==
    /\ calls \in Seq(PendingCalls)
    /\ \A i \in 1..Len(calls) : calls[i].target \in 0..Len(fields)

\* What a call will tell are leaves.
LEMMA CallLeavesType ==
    ASSUME NEW fields \in Seq(LogFields), Tree(fields),
           NEW c \in PendingCalls, c.target \in 0..Len(fields)
    PROVE  /\ Path(fields)[c.target] \in Seq(Keys)
           /\ Path(fields)[c.target] \o c.groups \in Seq(Keys)
           /\ Leaves[c.attr.value] \in Seq(Leaf)
           /\ Named(c.how, c.attr, Leaves[c.attr.value]) \in Seq(Leaf)
           /\ CallLeaves(fields, c) \in Seq(Leaf)
<1>1. c.groups \in Seq(Keys) /\ c.attr \in Attr /\ c.attr.value \in Values
  BY DEF PendingCalls, Attr
<1>2. Path(fields)[c.target] \in Seq(Keys)
  BY PathIs
<1>3. Path(fields)[c.target] \o c.groups \in Seq(Keys)
  BY <1>1, <1>2, ConcatProperties
<1>4. Leaves[c.attr.value] \in Seq(Leaf)
  BY <1>1, LeavesIs
<1>5. Named(c.how, c.attr, Leaves[c.attr.value]) \in Seq(Leaf)
  BY <1>1, <1>4, NamedIs
<1>6. QED
  BY <1>2, <1>3, <1>4, <1>5, UnderIs DEF CallLeaves

\* The leaves of each call, one after the other.
LEMMA TodoIs ==
    ASSUME NEW fields \in Seq(LogFields), Tree(fields), NEW calls, Aimed(fields, calls)
    PROVE  \E ss \in Seq(Seq(Leaf)) :
              /\ ss = [i \in DOMAIN calls |-> CallLeaves(fields, calls[i])]
              /\ TodoIn(fields, calls) = FlattenSeq(ss)
              /\ Len(ss) = Len(calls)
              /\ \A i \in 1..Len(calls) : ss[i] = CallLeaves(fields, calls[i])
<1>1. /\ DOMAIN calls = 1..Len(calls) /\ Len(calls) \in Nat
      /\ \A i \in 1..Len(calls) : calls[i] \in PendingCalls /\ calls[i].target \in 0..Len(fields)
  BY DEF Aimed
<1>2. \A i \in 1..Len(calls) : CallLeaves(fields, calls[i]) \in Seq(Leaf)
  BY <1>1, CallLeavesType
<1> DEFINE ss == [i \in 1..Len(calls) |-> CallLeaves(fields, calls[i])]
<1>3. ss = [i \in DOMAIN calls |-> CallLeaves(fields, calls[i])]
  BY <1>1
<1>4. /\ ss \in [1..Len(calls) -> Seq(Leaf)]
      /\ \A i \in 1..Len(calls) : ss[i] = CallLeaves(fields, calls[i])
  BY <1>2
<1> HIDE DEF ss
<1>5. ss \in Seq(Seq(Leaf)) /\ Len(ss) = Len(calls)
  BY <1>1, <1>4
<1>6. QED
  BY <1>3, <1>4, <1>5 DEF TodoIn

\* What the calls will tell are leaves.
LEMMA TodoType ==
    ASSUME NEW fields \in Seq(LogFields), Tree(fields), NEW calls, Aimed(fields, calls)
    PROVE  TodoIn(fields, calls) \in Seq(Leaf)
BY TodoIs, FlattenType

\* No call tells nothing.
LEMMA TodoNone ==
    ASSUME NEW fields
    PROVE  TodoIn(fields, <<>>) = <<>>
<1>1. [i \in DOMAIN <<>> |-> CallLeaves(fields, <<>>[i])] = <<>>
  OBVIOUS
<1>2. QED
  BY <1>1, FlattenEmpty DEF TodoIn

\* One call tells its own leaves.
LEMMA TodoOne ==
    ASSUME NEW fields \in Seq(LogFields), Tree(fields),
           NEW c \in PendingCalls, c.target \in 0..Len(fields)
    PROVE  Aimed(fields, <<c>>) /\ TodoIn(fields, <<c>>) = CallLeaves(fields, c)
<1>1. <<c>> \in Seq(PendingCalls) /\ Len(<<c>>) = 1 /\ <<c>>[1] = c
  OBVIOUS
<1>2. Aimed(fields, <<c>>)
  BY <1>1 DEF Aimed
<1>3. [i \in DOMAIN <<c>> |-> CallLeaves(fields, <<c>>[i])] = <<CallLeaves(fields, c)>>
  OBVIOUS
<1>4. CallLeaves(fields, c) \in Seq(Leaf)
  BY CallLeavesType
<1>5. QED
  BY <1>2, <1>3, <1>4, FlattenOne DEF TodoIn

\* Calls in a row tell what they tell, one after another.
LEMMA TodoConcat ==
    ASSUME NEW fields \in Seq(LogFields), Tree(fields),
           NEW a, Aimed(fields, a), NEW b, Aimed(fields, b)
    PROVE  /\ Aimed(fields, a \o b)
           /\ TodoIn(fields, a \o b) = TodoIn(fields, a) \o TodoIn(fields, b)
<1> DEFINE ab == a \o b
<1>1. /\ a \in Seq(PendingCalls) /\ b \in Seq(PendingCalls)
      /\ Len(a) \in Nat /\ Len(b) \in Nat
  BY DEF Aimed
<1>2. /\ ab \in Seq(PendingCalls) /\ Len(ab) = Len(a) + Len(b)
      /\ \A i \in 1..Len(ab) : ab[i] = IF i <= Len(a) THEN a[i] ELSE b[i - Len(a)]
  BY <1>1, ConcatProperties
<1>3. \A i \in 1..Len(ab) : (i <= Len(a) => i \in 1..Len(a)) /\ (~(i <= Len(a)) => i - Len(a) \in 1..Len(b))
  BY <1>1, <1>2
<1> HIDE DEF ab
<1>4. Aimed(fields, ab)
  BY <1>2, <1>3 DEF Aimed
<1>5. PICK ss \in Seq(Seq(Leaf)) :
        /\ TodoIn(fields, ab) = FlattenSeq(ss) /\ Len(ss) = Len(ab)
        /\ \A i \in 1..Len(ab) : ss[i] = CallLeaves(fields, ab[i])
  BY <1>4, TodoIs
<1>6. PICK sa \in Seq(Seq(Leaf)) :
        /\ TodoIn(fields, a) = FlattenSeq(sa) /\ Len(sa) = Len(a)
        /\ \A i \in 1..Len(a) : sa[i] = CallLeaves(fields, a[i])
  BY TodoIs
<1>7. PICK sb \in Seq(Seq(Leaf)) :
        /\ TodoIn(fields, b) = FlattenSeq(sb) /\ Len(sb) = Len(b)
        /\ \A i \in 1..Len(b) : sb[i] = CallLeaves(fields, b[i])
  BY TodoIs
<1>8. ss = sa \o sb
  <2> DEFINE t == sa \o sb
  <2>1. /\ t \in Seq(Seq(Leaf)) /\ Len(t) = Len(ab)
        /\ \A i \in 1..Len(ab) : t[i] = IF i <= Len(a) THEN sa[i] ELSE sb[i - Len(a)]
    <3>1. /\ t \in Seq(Seq(Leaf)) /\ Len(t) = Len(sa) + Len(sb)
          /\ \A i \in 1..Len(sa) + Len(sb) : t[i] = IF i <= Len(sa) THEN sa[i] ELSE sb[i - Len(sa)]
      BY ConcatProperties
    <3> HIDE DEF t
    <3>2. QED
      BY <1>2, <1>6, <1>7, <3>1
  <2> HIDE DEF t
  <2>2. \A i \in 1..Len(ss) : ss[i] = t[i]
    BY <1>2, <1>3, <1>5, <1>6, <1>7, <2>1
  <2>3. ss = t
    BY <1>5, <2>1, <2>2, SeqEqual
  <2>4. QED
    BY <2>3 DEF t
<1>9. FlattenSeq(sa \o sb) = FlattenSeq(sa) \o FlattenSeq(sb)
  BY FlattenConcat
<1>10. QED
  BY <1>4, <1>5, <1>6, <1>7, <1>8, <1>9 DEF ab

\* A new field does not change what the calls were given.
LEMMA TodoKept ==
    ASSUME NEW fields \in Seq(LogFields), Tree(fields),
           NEW field \in LogFields, field.parent \in 0..Len(fields),
           NEW calls, Aimed(fields, calls)
    PROVE  /\ Aimed(Append(fields, field), calls)
           /\ TodoIn(Append(fields, field), calls) = TodoIn(fields, calls)
<1> DEFINE more == Append(fields, field)
<1>1. /\ Len(more) = Len(fields) + 1 /\ Len(fields) \in Nat
      /\ \A i \in 0..Len(fields) : Path(more)[i] = Path(fields)[i]
  BY PathKept, LenProperties
<1> HIDE DEF more
<1>2. Aimed(more, calls)
  <2>1. \A i \in 0..Len(fields) : i \in 0..Len(more)
    BY <1>1
  <2>2. QED
    BY <2>1 DEF Aimed
<1>3. \A i \in DOMAIN calls : CallLeaves(more, calls[i]) = CallLeaves(fields, calls[i])
  <2>1. ASSUME NEW i \in DOMAIN calls
        PROVE  CallLeaves(more, calls[i]) = CallLeaves(fields, calls[i])
    <3>1. calls[i].target \in 0..Len(fields)
      BY DEF Aimed
    <3>2. Path(more)[calls[i].target] = Path(fields)[calls[i].target]
      BY <1>1, <3>1
    <3>3. QED
      BY <3>2, Zenon DEF CallLeaves
  <2>2. QED
    BY <2>1
<1>4. [i \in DOMAIN calls |-> CallLeaves(more, calls[i])]
        = [i \in DOMAIN calls |-> CallLeaves(fields, calls[i])]
  BY <1>3, Zenon
<1>5. QED
  BY <1>2, <1>4, Zenon DEF TodoIn, more

-----------------------------------------------------------------------------
(* What a container holds *)

\* A container is handed on item by item.
LEMMA CallsAre ==
    ASSUME NEW v \in Values, Kind[v] \in {"group", "map", "list"},
           NEW target \in Nat, NEW depth \in Nat
    PROVE  /\ Calls(v, target, depth) \in Seq(PendingCalls)
           /\ Len(Calls(v, target, depth)) = Len(Items[v])
           /\ \A i \in 1..Len(Items[v]) :
                Calls(v, target, depth)[i] = Call(target, <<>>, Items[v][i], depth, Into[Kind[v]])
<1>1. Into[Kind[v]] \in Modes
  BY DEF Into, Modes
<1>2. DOMAIN Items[v] = 1..Len(Items[v]) /\ Len(Items[v]) \in Nat
  <2>1. Items[v] \in Seq(Attr)
    BY ItemsAreOlder
  <2>2. QED
    BY <2>1, LenProperties
<1>3. ASSUME NEW i \in 1..Len(Items[v])
      PROVE  Call(target, <<>>, Items[v][i], depth, Into[Kind[v]]) \in PendingCalls
  <2>1. Items[v][i] \in Attr /\ <<>> \in Seq(Keys)
    BY ItemsAreOlder, EmptySeq
  <2>2. QED
    BY <1>1, <2>1 DEF Call, PendingCalls
<1> DEFINE calls == [i \in 1..Len(Items[v]) |-> Call(target, <<>>, Items[v][i], depth, Into[Kind[v]])]
<1>4. Calls(v, target, depth) = calls
  BY <1>2, Zenon DEF Calls
<1>5. /\ calls \in [1..Len(Items[v]) -> PendingCalls]
      /\ \A i \in 1..Len(Items[v]) : calls[i] = Call(target, <<>>, Items[v][i], depth, Into[Kind[v]])
  BY <1>3
<1> HIDE DEF calls
<1>6. calls \in Seq(PendingCalls) /\ Len(calls) = Len(Items[v])
  BY <1>2, <1>5
<1>7. QED
  BY <1>4, <1>5, <1>6

\* The calls for what a container holds were given what it was given.
LEMMA ContainerLeaves ==
    ASSUME NEW fields \in Seq(LogFields), Tree(fields),
           NEW v \in Values, Kind[v] \in {"group", "map", "list"},
           NEW target \in 0..Len(fields), NEW depth \in Nat
    PROVE  /\ Aimed(fields, Calls(v, target, depth))
           /\ TodoIn(fields, Calls(v, target, depth)) = Under(Path(fields)[target], Leaves[v])
<1> DEFINE calls == Calls(v, target, depth)
           parts == Parts(Leaves, v)
           p == Path(fields)[target]
           n == Len(Items[v])
<1>1. target \in Nat /\ p \in Seq(Keys)
  BY PathIs
<1>2. /\ calls \in Seq(PendingCalls) /\ Len(calls) = n
      /\ \A i \in 1..n : calls[i] = Call(target, <<>>, Items[v][i], depth, Into[Kind[v]])
  BY <1>1, CallsAre
<1>3. /\ parts \in Seq(Seq(Leaf)) /\ Len(parts) = n
      /\ \A i \in 1..n : parts[i] = Named(Into[Kind[v]], Items[v][i], Leaves[Items[v][i].value])
  BY LeavesIs, PartsType
<1>4. Leaves[v] = FlattenSeq(parts)
  <2>1. Leaves[v] = LeavesOf(Leaves, v)
    BY LeavesIs
  <2>2. QED
    BY <2>1 DEF LeavesOf
<1> HIDE DEF calls, parts, p, n
<1>5. Aimed(fields, calls)
  BY <1>2 DEF Aimed, Call
<1>6. Under(p, FlattenSeq(parts)) = FlattenSeq([i \in DOMAIN parts |-> Under(p, parts[i])])
  BY <1>1, <1>3, UnderFlatten
<1>7. DOMAIN parts = 1..n /\ DOMAIN calls = 1..n
  BY <1>2, <1>3
<1>8. ASSUME NEW i \in 1..n PROVE CallLeaves(fields, calls[i]) = Under(p, parts[i])
  <2>1. p \o <<>> = p
    BY <1>1, ConcatEmptySeq
  <2>2. CallLeaves(fields, calls[i])
          = Under(p \o <<>>, Named(Into[Kind[v]], Items[v][i], Leaves[Items[v][i].value]))
    <3>1. calls[i] = [target |-> target, groups |-> <<>>, attr |-> Items[v][i], depth |-> depth, how |-> Into[Kind[v]]]
      BY <1>2 DEF Call
    <3> DEFINE c == calls[i]
    <3>2. c.target = target /\ c.groups = <<>> /\ c.attr = Items[v][i] /\ c.how = Into[Kind[v]]
      BY <3>1
    <3> HIDE DEF c
    <3>3. CallLeaves(fields, c) = Under(p \o <<>>, Named(Into[Kind[v]], Items[v][i], Leaves[Items[v][i].value]))
      BY <3>2, Zenon DEF CallLeaves, p
    <3>4. QED
      BY <3>3 DEF c
  <2>3. QED
    BY <1>3, <2>1, <2>2
<1>9. [i \in DOMAIN calls |-> CallLeaves(fields, calls[i])] = [i \in DOMAIN parts |-> Under(p, parts[i])]
  BY <1>7, <1>8, Zenon
<1>10. TodoIn(fields, calls) = Under(p, Leaves[v])
  BY <1>4, <1>6, <1>9, Zenon DEF TodoIn
<1>11. QED
  BY <1>5, <1>10 DEF calls, p

-----------------------------------------------------------------------------
(* What may be shown *)

\* SensitiveKey and Shown, with the options they depend on as a parameter.
Secret(o, key) ==
    NormalizeKey[key] \in BuiltinSensitiveKeys \cup {NormalizeKey[k] : k \in o.extra}

\* No name is sensitive and there are no more than the depth allows.
Fits(o, path) ==
    Len(path) <= o.depth /\ \A i \in 1..Len(path) : ~Secret(o, path[i])

\* The leaves of a list that may be shown.
ShownIn(o, s) == {s[i] : i \in {n \in 1..Len(s) : Fits(o, s[n].path)}}

\* Of two lists those may be shown that may be shown of either.
LEMMA ShownConcat ==
    ASSUME NEW o, NEW s \in Seq(Leaf), NEW t \in Seq(Leaf)
    PROVE  ShownIn(o, s \o t) = ShownIn(o, s) \cup ShownIn(o, t)
<1> DEFINE st == s \o t
           m == Len(s)
           n == Len(t)
<1>1. /\ m \in Nat /\ n \in Nat /\ Len(st) = m + n
      /\ \A i \in 1..(m + n) : st[i] = IF i <= m THEN s[i] ELSE t[i - m]
  BY ConcatProperties
<1>2. \A i \in 1..m : i \in 1..(m + n) /\ st[i] = s[i]
  BY <1>1
<1>3. \A i \in 1..n : i + m \in 1..(m + n) /\ st[i + m] = t[i]
  <2>1. ASSUME NEW i \in 1..n PROVE i + m \in 1..(m + n) /\ st[i + m] = t[i]
    <3>1. i + m \in 1..(m + n) /\ ~(i + m <= m) /\ (i + m) - m = i
      BY <1>1
    <3> HIDE DEF st, m, n
    <3>2. QED
      BY <1>1, <3>1
  <2>2. QED
    BY <2>1
<1>4. \A i \in 1..(m + n) : i \in 1..m \/ \E j \in 1..n : i = j + m
  <2>1. ASSUME NEW i \in 1..(m + n), i \notin 1..m PROVE i - m \in 1..n /\ i = (i - m) + m
    BY <1>1, <2>1
  <2>2. QED
    BY <2>1
<1> HIDE DEF st, m, n
<1> DEFINE A == {st[i] : i \in {k \in 1..(m + n) : Fits(o, st[k].path)}}
           B == {s[i] : i \in {k \in 1..m : Fits(o, s[k].path)}}
           C == {t[i] : i \in {k \in 1..n : Fits(o, t[k].path)}}
<1>5. \A x \in A : x \in B \cup C
  BY <1>2, <1>3, <1>4
<1>6. \A x \in B \cup C : x \in A
  BY <1>2, <1>3
<1>7. A = B \cup C
  BY <1>5, <1>6
<1>8. QED
  BY <1>1, <1>7 DEF ShownIn, st, m, n

\* A name more may be shown when its own depth and the name allow it.
LEMMA FitsAppend ==
    ASSUME NEW o, o.depth \in Nat, NEW p \in Seq(Keys), NEW key \in Keys
    PROVE  /\ Append(p, key) \in Seq(Keys) /\ Len(Append(p, key)) = Len(p) + 1
           /\ Fits(o, Append(p, key)) <=> Fits(o, p) /\ Len(p) + 1 <= o.depth /\ ~Secret(o, key)
<1> DEFINE q == Append(p, key)
           n == Len(p)
<1>1. /\ n \in Nat /\ q \in Seq(Keys) /\ Len(q) = n + 1
      /\ \A i \in 1..n : q[i] = p[i]
      /\ q[n + 1] = key
  BY AppendProperties
<1> HIDE DEF q
<1>2. ASSUME Fits(o, q) PROVE Fits(o, p) /\ n + 1 <= o.depth /\ ~Secret(o, key)
  <2>1. n + 1 \in 1..(n + 1) /\ \A i \in 1..n : i \in 1..(n + 1)
    BY <1>1
  <2>2. QED
    BY <1>1, <1>2, <2>1 DEF Fits
<1>3. ASSUME Fits(o, p), n + 1 <= o.depth, ~Secret(o, key) PROVE Fits(o, q)
  <2>1. \A i \in 1..(n + 1) : i = n + 1 \/ i \in 1..n
    BY <1>1
  <2>2. QED
    BY <1>1, <1>3, <2>1 DEF Fits
<1>4. QED
  BY <1>1, <1>2, <1>3 DEF q

\* Nothing under a sensitive name or a name that is too deep may be shown.
LEMMA HiddenUnder ==
    ASSUME NEW o, o.depth \in Nat, NEW p \in Seq(Keys), ~Fits(o, p), NEW s \in Seq(Leaf)
    PROVE  ShownIn(o, Under(p, s)) = {}
<1> DEFINE u == Under(p, s)
<1>1. Len(u) = Len(s) /\ \A i \in 1..Len(s) : u[i] = [path |-> p \o s[i].path, value |-> s[i].value]
  BY UnderIs
<1> HIDE DEF u
<1>2. ASSUME NEW i \in 1..Len(s) PROVE ~Fits(o, u[i].path)
  <2>1. s[i].path \in Seq(Keys)
    <3>1. s[i] \in Leaf
      OBVIOUS
    <3>2. QED
      BY <3>1 DEF Leaf
  <2> DEFINE q == s[i].path
  <2>2. u[i].path = p \o q
    <3>1. u[i] = [path |-> p \o s[i].path, value |-> s[i].value]
      BY <1>1
    <3>2. [path |-> p \o s[i].path, value |-> s[i].value].path = p \o s[i].path
      OBVIOUS
    <3>3. QED
      BY <3>1, <3>2
  <2> HIDE DEF q
  <2> DEFINE pq == p \o q
  <2>3. /\ Len(p) \in Nat /\ Len(q) \in Nat /\ Len(pq) = Len(p) + Len(q)
        /\ \A k \in 1..Len(p) : pq[k] = p[k]
    BY <2>1, ConcatProperties DEF q
  <2> HIDE DEF pq
  <2>4. Fits(o, pq) => Fits(o, p)
    <3>1. \A k \in 1..Len(p) : k \in 1..Len(pq)
      BY <2>3
    <3>2. Len(pq) <= o.depth => Len(p) <= o.depth
      BY <2>3
    <3>3. QED
      BY <2>3, <3>1, <3>2 DEF Fits
  <2>5. QED
    BY <2>2, <2>4 DEF pq
<1>3. ShownIn(o, u) = {}
  BY <1>1, <1>2 DEF ShownIn
<1>4. QED
  BY <1>3 DEF u

\* Of no leaf none may be shown.
LEMMA ShownNone ==
    ASSUME NEW o
    PROVE  ShownIn(o, <<>>) = {}
BY DEF ShownIn

\* Of one leaf under names that fit that leaf may be shown.
LEMMA ShownOne ==
    ASSUME NEW o, NEW leaf \in Leaf, Fits(o, leaf.path)
    PROVE  ShownIn(o, <<leaf>>) = {leaf}
<1> DEFINE s == <<leaf>>
<1>1. Len(s) = 1 /\ s[1] = leaf /\ \A i \in 1..Len(s) : i = 1
  OBVIOUS
<1>2. 1 \in 1..Len(s)
  BY <1>1
<1> HIDE DEF s
<1>3. ShownIn(o, s) = {leaf}
  BY <1>1, <1>2 DEF ShownIn
<1>4. QED
  BY <1>3 DEF s

\* A field that is no leaf tells nothing; a leaf tells itself under its names.
LEMMA ToldMore ==
    ASSUME NEW fields \in Seq(LogFields), Tree(fields),
           NEW field \in LogFields, field.parent \in 0..Len(fields)
    PROVE  LET more == Append(fields, field)
           IN  Told(more, DOMAIN more) = Told(fields, DOMAIN fields) \cup
                 (IF field.kind = "leaf"
                  THEN {[path |-> Append(Path(fields)[field.parent], field.key), value |-> field.value]}
                  ELSE {})
<1> DEFINE more == Append(fields, field)
           n == Len(fields)
           p == Path(fields)
           q == Path(more)
           new == [path |-> Append(p[field.parent], field.key), value |-> field.value]
           A == {[path |-> q[i], value |-> more[i].value] : i \in {k \in DOMAIN more : more[k].kind = "leaf"}}
           B == {[path |-> p[i], value |-> fields[i].value] : i \in {k \in DOMAIN fields : fields[k].kind = "leaf"}}
<1>1. /\ n \in Nat /\ DOMAIN fields = 1..n
      /\ \A i \in 1..n : more[i] = fields[i]
      /\ more[n + 1] = field
      /\ \A i \in 0..n : q[i] = p[i]
      /\ q[n + 1] = Append(p[field.parent], field.key)
  BY PathKept, LenProperties
<1>2. DOMAIN more = 1..(n + 1)
  <2>1. more \in Seq(LogFields) /\ Len(more) = n + 1
    BY PathKept
  <2> HIDE DEF more, n
  <2>2. QED
    BY <2>1, LenProperties
<1>3. Told(more, DOMAIN more) = A /\ Told(fields, DOMAIN fields) = B
  BY Zenon DEF Told
<1> HIDE DEF more, n, p, q
<1>4. \A i \in 1..(n + 1) : i = n + 1 \/ i \in 1..n
  BY <1>1
<1>5. \A i \in 1..n : i \in 0..n /\ i \in 1..(n + 1)
  BY <1>1
<1>6. n + 1 \in 1..(n + 1)
  BY <1>1
<1>7. \A i \in 1..n : more[i] = fields[i] /\ q[i] = p[i]
  BY <1>1, <1>5
<1>8. A = B \cup (IF field.kind = "leaf" THEN {new} ELSE {})
  <2>1. \A x \in A : x \in B \/ (x = new /\ field.kind = "leaf")
    BY <1>1, <1>2, <1>4, <1>7
  <2>2. \A x \in B : x \in A
    BY <1>1, <1>2, <1>5, <1>7
  <2>3. field.kind = "leaf" => new \in A
    BY <1>1, <1>2, <1>6
  <2> HIDE DEF A, B, new
  <2>4. QED
    BY <2>1, <2>2, <2>3
<1>9. QED
  BY <1>3, <1>8 DEF more, p

-----------------------------------------------------------------------------
(* The invariant *)

\* What a record was given, as a function of the entry.
GivenIn(e) ==
    FlattenSeq([i \in DOMAIN e |->
        Under(e[i].groups, Named(e[i].how, e[i].attr, Leaves[e[i].attr.value]))])

\* What was given is what has been told or may not be shown, and then what the calls
\* to come were given, unless the budget has cut that off.
Telling(o, e, fields, calls, budget) ==
    e # <<>> =>
    \E done, todo \in Seq(Leaf) :
        /\ GivenIn(e) = done \o todo
        /\ Told(fields, DOMAIN fields) = ShownIn(o, done)
        /\ todo = TodoIn(fields, calls) \/ (budget = 0 /\ calls = <<>>)

\* A call adds to a field whose names may be shown, at the depth of its children.
Placed(o, fields, calls) ==
    \A i \in 1..Len(calls) :
        LET c == calls[i]
        IN  /\ c.target \in 0..Len(fields)
            /\ Fits(o, Path(fields)[c.target])
            /\ c.depth = Len(Path(fields)[c.target]) + 1
            /\ c.how = "element" => c.attr.key = ""

\* A group is open when its names may be shown.
GroupsFit(o, fields) ==
    \A i \in 1..Len(fields) :
        fields[i].group =>
            (IsOpen(fields[i].kind) <=>
                Len(Path(fields)[i]) <= o.depth /\ ~Secret(o, fields[i].key))

\* Among the children of a field a name has one group.
OneGroupPerName(fields) ==
    \A i, j \in 1..Len(fields) :
        (/\ fields[i].group /\ fields[j].group
         /\ fields[i].parent = fields[j].parent /\ fields[i].key = fields[j].key) => i = j

\* Between records nothing is under way.
Idle(o, e, fields, calls, budget) ==
    e = <<>> => calls = <<>> /\ fields = <<>> /\ budget = o.attributes

\* The inductive invariant.
SanitizerInv ==
    /\ TypeOK
    /\ Tree(out)
    /\ Placed(options, out, work)
    /\ GroupsFit(options, out)
    /\ OneGroupPerName(out)
    /\ Len(out) + left = options.attributes
    /\ Telling(options, entry, out, work, left)
    /\ Idle(options, entry, out, work, left)

-----------------------------------------------------------------------------
(* One call *)

\* A list of calls is its head and its tail, and both add to fields there are.
LEMMA AimedRest ==
    ASSUME NEW fields \in Seq(LogFields), NEW calls, Aimed(fields, calls), calls # <<>>
    PROVE  /\ Head(calls) \in PendingCalls /\ Head(calls).target \in 0..Len(fields)
           /\ Head(calls) = calls[1] /\ Len(calls) >= 1
           /\ Aimed(fields, Tail(calls)) /\ Aimed(fields, <<Head(calls)>>)
           /\ calls = <<Head(calls)>> \o Tail(calls)
           /\ \A i \in 1..Len(Tail(calls)) : Tail(calls)[i] = calls[i + 1] /\ i + 1 \in 1..Len(calls)
<1>1. calls \in Seq(PendingCalls) /\ Len(calls) \in Nat /\ Len(calls) >= 1
  BY EmptySeq DEF Aimed
<1>2. Head(calls) = calls[1] /\ calls[1] \in PendingCalls
  BY <1>1
<1>3. calls[1].target \in 0..Len(fields)
  BY <1>1 DEF Aimed
<1>4. /\ Tail(calls) \in Seq(PendingCalls) /\ Len(Tail(calls)) = Len(calls) - 1
      /\ \A i \in 1..Len(Tail(calls)) : Tail(calls)[i] = calls[i + 1]
  BY <1>1, HeadTailProperties
<1>5. \A i \in 1..Len(Tail(calls)) : i + 1 \in 1..Len(calls)
  BY <1>1, <1>4
<1>6. Aimed(fields, Tail(calls))
  BY <1>4, <1>5 DEF Aimed
<1>7. Aimed(fields, <<Head(calls)>>)
  <2> DEFINE h == Head(calls)
  <2>1. h \in PendingCalls /\ h.target \in 0..Len(fields)
    BY <1>2, <1>3
  <2> HIDE DEF h
  <2>2. <<h>> \in Seq(PendingCalls) /\ \A i \in 1..Len(<<h>>) : <<h>>[i] = h
    BY <2>1
  <2>3. Aimed(fields, <<h>>)
    BY <2>1, <2>2 DEF Aimed
  <2>4. QED
    BY <2>3 DEF h
<1>8. calls = <<Head(calls)>> \o Tail(calls)
  BY <1>1
<1>9. QED
  BY <1>1, <1>2, <1>3, <1>4, <1>5, <1>6, <1>7, <1>8

\* One list after another, by a name the provers leave folded.
Joined(a, b) == a \o b

\* Joining is associative, of four lists.
LEMMA Regroup ==
    \A a, b, c, d \in Seq(Leaf) :
        /\ Joined(a, b) \in Seq(Leaf)
        /\ Joined(a, Joined(Joined(b, c), d)) = Joined(Joined(a, b), Joined(c, d))
<1> TAKE a, b, c, d \in Seq(Leaf)
<1>1. a \o b \in Seq(Leaf)
  BY ConcatProperties
<1>2. (b \o c) \o d = b \o (c \o d)
  BY ConcatAssociative
<1>3. c \o d \in Seq(Leaf)
  BY ConcatProperties
<1>4. (a \o b) \o (c \o d) = a \o (b \o (c \o d))
  BY <1>3, ConcatAssociative
<1>5. QED
  BY <1>1, <1>2, <1>4 DEF Joined

\* A call tells or drops what it was given, or leaves it to the calls it makes.
LEMMA CallProgress ==
    ASSUME NEW o, NEW e, NEW fields \in Seq(LogFields), Tree(fields),
           NEW calls, Aimed(fields, calls), calls # <<>>, NEW budget,
           Telling(o, e, fields, calls, budget),
           NEW more \in Seq(LogFields), Tree(more), NEW new, Aimed(more, new),
           Aimed(more, Tail(calls)),
           TodoIn(more, Tail(calls)) = TodoIn(fields, Tail(calls)),
           NEW x \in Seq(Leaf), CallLeaves(fields, Head(calls)) = x \o TodoIn(more, new),
           Told(more, DOMAIN more) = Told(fields, DOMAIN fields) \cup ShownIn(o, x),
           NEW after
    PROVE  Aimed(more, new \o Tail(calls)) /\ Telling(o, e, more, new \o Tail(calls), after)
<1> DEFINE rest == Tail(calls)
<1>1. Aimed(more, new \o rest) /\ TodoIn(more, new \o rest) = TodoIn(more, new) \o TodoIn(more, rest)
  BY TodoConcat
<1>2. SUFFICES ASSUME e # <<>> PROVE Telling(o, e, more, new \o rest, after)
  BY <1>1 DEF Telling
<1>3. PICK done, todo \in Seq(Leaf) :
        /\ GivenIn(e) = done \o todo
        /\ Told(fields, DOMAIN fields) = ShownIn(o, done)
        /\ todo = TodoIn(fields, calls)
  BY <1>2 DEF Telling
<1>4. TodoIn(fields, calls) = CallLeaves(fields, Head(calls)) \o TodoIn(fields, rest)
  <2> DEFINE one == <<Head(calls)>>
  <2>1. /\ Aimed(fields, one) /\ Aimed(fields, rest) /\ calls = one \o rest
        /\ Head(calls) \in PendingCalls /\ Head(calls).target \in 0..Len(fields)
    BY AimedRest
  <2>2. TodoIn(fields, one) = CallLeaves(fields, Head(calls))
    BY <2>1, TodoOne
  <2> HIDE DEF one, rest
  <2>3. TodoIn(fields, one \o rest) = TodoIn(fields, one) \o TodoIn(fields, rest)
    BY <2>1, TodoConcat
  <2>4. QED
    BY <2>1, <2>2, <2>3
<1> DEFINE u == TodoIn(more, new)
           v == TodoIn(more, rest)
<1>5. u \in Seq(Leaf) /\ v \in Seq(Leaf)
  BY TodoType
<1>6. todo = (x \o u) \o v
  BY <1>3, <1>4
<1> HIDE DEF u, v
<1>7. done \o x \in Seq(Leaf) /\ u \o v \in Seq(Leaf) /\ done \o todo = (done \o x) \o (u \o v)
  <2>1. /\ Joined(done, x) \in Seq(Leaf) /\ Joined(u, v) \in Seq(Leaf)
        /\ Joined(done, Joined(Joined(x, u), v)) = Joined(Joined(done, x), Joined(u, v))
    BY <1>5, Regroup
  <2>2. todo = Joined(Joined(x, u), v)
    BY <1>6 DEF Joined
  <2>3. Joined(done, todo) = Joined(Joined(done, x), Joined(u, v))
    BY <2>1, <2>2
  <2>4. QED
    BY <2>1, <2>3 DEF Joined
<1>8. ShownIn(o, done \o x) = ShownIn(o, done) \cup ShownIn(o, x)
  BY ShownConcat
<1>9. Told(more, DOMAIN more) = ShownIn(o, done \o x)
  BY <1>3, <1>8
<1>10. u \o v = TodoIn(more, new \o rest)
  BY <1>1 DEF u, v
<1> HIDE DEF rest
<1>11. QED
  BY <1>3, <1>7, <1>9, <1>10 DEF Telling

\* A field is added: what a new field must be for the invariant to stay.
LEMMA FieldAdded ==
    ASSUME NEW o, NEW fields \in Seq(LogFields), Tree(fields), GroupsFit(o, fields),
           OneGroupPerName(fields), NEW calls, Aimed(fields, calls), Placed(o, fields, calls),
           NEW field \in LogFields, field.parent \in 0..Len(fields),
           field.group =>
             /\ IsOpen(field.kind) <=>
                  Len(Path(fields)[field.parent]) + 1 <= o.depth /\ ~Secret(o, field.key)
             /\ \A i \in 1..Len(fields) :
                  ~(fields[i].group /\ fields[i].parent = field.parent /\ fields[i].key = field.key)
    PROVE  LET more == Append(fields, field)
           IN  /\ more \in Seq(LogFields) /\ Len(more) = Len(fields) + 1
               /\ Tree(more) /\ GroupsFit(o, more) /\ OneGroupPerName(more)
               /\ Aimed(more, calls) /\ Placed(o, more, calls)
               /\ TodoIn(more, calls) = TodoIn(fields, calls)
<1> DEFINE more == Append(fields, field)
           n == Len(fields)
<1>1. /\ n \in Nat /\ more \in Seq(LogFields) /\ Tree(more) /\ Len(more) = n + 1
      /\ \A i \in 1..n : more[i] = fields[i]
      /\ more[n + 1] = field
      /\ \A i \in 0..n : Path(more)[i] = Path(fields)[i]
      /\ Path(more)[n + 1] = Append(Path(fields)[field.parent], field.key)
  BY PathKept, LenProperties
<1>2. Aimed(more, calls) /\ TodoIn(more, calls) = TodoIn(fields, calls)
  BY TodoKept
<1>3. Path(fields)[field.parent] \in Seq(Keys) /\ field.key \in Keys
  BY PathIs DEF LogFields
<1> HIDE DEF more, n
<1>4. \A i \in 1..(n + 1) : i = n + 1 \/ i \in 1..n
  BY <1>1
<1>5. \A i \in 1..n : i \in 0..n /\ i # n + 1
  BY <1>1
<1>6. Len(Append(Path(fields)[field.parent], field.key)) = Len(Path(fields)[field.parent]) + 1
  BY <1>3, AppendProperties
<1>7. GroupsFit(o, more)
  <2>1. ASSUME NEW i \in 1..(n + 1), more[i].group
        PROVE  IsOpen(more[i].kind) <=> Len(Path(more)[i]) <= o.depth /\ ~Secret(o, more[i].key)
    <3>1. CASE i = n + 1
      <4>1. more[i] = field /\ Len(Path(more)[i]) = Len(Path(fields)[field.parent]) + 1
        BY <1>1, <1>6, <3>1
      <4>2. QED
        BY <2>1, <4>1
    <3>2. CASE i \in 1..n
      <4>1. more[i] = fields[i] /\ Path(more)[i] = Path(fields)[i]
        BY <1>1, <1>5, <3>2
      <4>2. QED
        BY <2>1, <3>2, <4>1 DEF GroupsFit, n
    <3>3. QED
      BY <1>4, <3>1, <3>2
  <2>2. QED
    BY <1>1, <2>1 DEF GroupsFit
<1>8. OneGroupPerName(more)
  <2>1. ASSUME NEW i \in 1..(n + 1), NEW j \in 1..(n + 1), more[i].group, more[j].group,
               more[i].parent = more[j].parent, more[i].key = more[j].key
        PROVE  i = j
    <3>1. CASE i \in 1..n /\ j \in 1..n
      BY <1>1, <2>1, <3>1 DEF OneGroupPerName, n
    <3>2. CASE i \in 1..n /\ j = n + 1
      BY <1>1, <2>1, <3>2 DEF n
    <3>3. CASE i = n + 1 /\ j \in 1..n
      BY <1>1, <2>1, <3>3 DEF n
    <3>4. QED
      BY <1>4, <3>1, <3>2, <3>3
  <2>2. QED
    BY <1>1, <2>1 DEF OneGroupPerName
<1>9. Placed(o, more, calls)
  <2>1. ASSUME NEW i \in 1..Len(calls)
        PROVE  /\ calls[i].target \in 0..n
               /\ Path(more)[calls[i].target] = Path(fields)[calls[i].target]
    <3>1. calls[i].target \in 0..n
      BY DEF Placed, n
    <3>2. QED
      BY <1>1, <3>1
  <2>2. \A i \in 0..n : i \in 0..(n + 1)
    BY <1>1
  <2>3. QED
    BY <1>1, <2>1, <2>2 DEF Placed
<1>10. QED
  BY <1>1, <1>2, <1>7, <1>8, <1>9 DEF more, n

\* The same for where they add and how deep.
LEMMA PlacedRest ==
    ASSUME NEW o, NEW fields \in Seq(LogFields), NEW calls, Aimed(fields, calls), calls # <<>>,
           Placed(o, fields, calls)
    PROVE  /\ Placed(o, fields, Tail(calls))
           /\ Fits(o, Path(fields)[Head(calls).target])
           /\ Head(calls).depth = Len(Path(fields)[Head(calls).target]) + 1
           /\ Head(calls).how = "element" => Head(calls).attr.key = ""
<1>1. /\ Head(calls) = calls[1] /\ 1 \in 1..Len(calls)
      /\ \A i \in 1..Len(Tail(calls)) : Tail(calls)[i] = calls[i + 1] /\ i + 1 \in 1..Len(calls)
  <2>1. Len(calls) \in Nat
    BY DEF Aimed
  <2>2. QED
    BY <2>1, AimedRest
<1>2. QED
  BY <1>1 DEF Placed

\* Well-placed calls in a row are well placed.
LEMMA PlacedConcat ==
    ASSUME NEW o, NEW fields, NEW a, Aimed(fields, a), Placed(o, fields, a),
           NEW b, Aimed(fields, b), Placed(o, fields, b)
    PROVE  Placed(o, fields, a \o b)
<1> DEFINE ab == a \o b
<1>1. /\ Len(a) \in Nat /\ Len(b) \in Nat /\ Len(ab) = Len(a) + Len(b)
      /\ \A i \in 1..Len(a) + Len(b) : ab[i] = IF i <= Len(a) THEN a[i] ELSE b[i - Len(a)]
  <2>1. a \in Seq(PendingCalls) /\ b \in Seq(PendingCalls)
    BY DEF Aimed
  <2>2. QED
    BY <2>1, ConcatProperties
<1>2. \A i \in 1..Len(ab) : \/ i \in 1..Len(a) /\ ab[i] = a[i]
                            \/ i - Len(a) \in 1..Len(b) /\ ab[i] = b[i - Len(a)]
  BY <1>1
<1> HIDE DEF ab
<1>3. Placed(o, fields, ab)
  BY <1>2 DEF Placed
<1>4. QED
  BY <1>3 DEF ab

\* The calls for what a container holds.
LEMMA CallsPlaced ==
    ASSUME NEW o, NEW fields \in Seq(LogFields),
           NEW v \in Values, Kind[v] \in {"group", "map", "list"},
           NEW target \in 0..Len(fields), NEW depth \in Nat,
           Fits(o, Path(fields)[target]), depth = Len(Path(fields)[target]) + 1
    PROVE  Placed(o, fields, Calls(v, target, depth))
<1> DEFINE calls == Calls(v, target, depth)
<1>1. target \in Nat
  OBVIOUS
<1>2. /\ Len(calls) = Len(Items[v])
      /\ \A i \in 1..Len(Items[v]) : calls[i] = Call(target, <<>>, Items[v][i], depth, Into[Kind[v]])
  BY <1>1, CallsAre
<1> HIDE DEF calls
<1>3. ASSUME NEW i \in 1..Len(Items[v])
      PROVE  /\ calls[i].target = target /\ calls[i].depth = depth
             /\ calls[i].how = "element" => calls[i].attr.key = ""
  <2>1. calls[i] = [target |-> target, groups |-> <<>>, attr |-> Items[v][i], depth |-> depth, how |-> Into[Kind[v]]]
    BY <1>2 DEF Call
  <2>2. Into[Kind[v]] = "element" => Kind[v] = "list"
    BY DEF Into
  <2>3. Kind[v] = "list" => Items[v][i].key = ""
    BY ItemsAreOlder
  <2> DEFINE c == calls[i]
  <2>4. c.target = target /\ c.depth = depth /\ c.how = Into[Kind[v]] /\ c.attr = Items[v][i]
    BY <2>1
  <2> HIDE DEF c
  <2>5. c.how = "element" => c.attr.key = ""
    BY <2>2, <2>3, <2>4
  <2>6. QED
    BY <2>4, <2>5 DEF c
<1>4. Placed(o, fields, calls)
  BY <1>2, <1>3 DEF Placed
<1>5. QED
  BY <1>4 DEF calls

\* One element is a sequence.
LEMMA SingleSeq ==
    ASSUME NEW T, NEW e \in T
    PROVE  <<e>> \in Seq(T)
OBVIOUS

\* The leaves of a call without groups are under its target and its name.
LEMMA CallUnderName ==
    ASSUME NEW fields \in Seq(LogFields), Tree(fields),
           NEW c \in PendingCalls, c.target \in 0..Len(fields), c.groups = <<>>, ~IsNothing(c),
           ~(IsGroup(c) /\ c.attr.key = "")
    PROVE  /\ c.attr.key \in Keys /\ c.attr.value \in Values
           /\ CallLeaves(fields, c)
                = Under(Append(Path(fields)[c.target], c.attr.key), Leaves[c.attr.value])
<1> DEFINE p == Path(fields)[c.target]
           L == Leaves[c.attr.value]
           k == c.attr.key
<1>1. c.attr \in Attr /\ k \in Keys /\ c.attr.value \in Values
  BY DEF PendingCalls, Attr
<1>2. p \in Seq(Keys) /\ L \in Seq(Leaf) /\ <<k>> \in Seq(Keys)
  <2>1. p \in Seq(Keys) /\ L \in Seq(Leaf)
    BY CallLeavesType
  <2>2. <<k>> \in Seq(Keys)
    BY <1>1, SingleSeq
  <2>3. QED
    BY <2>1, <2>2
<1>3. Named(c.how, c.attr, L) = Under(<<k>>, L)
  BY DEF Named, IsNothing, IsGroup
<1>4. CallLeaves(fields, c) = Under(p \o <<>>, Under(<<k>>, L))
  BY <1>3 DEF CallLeaves
<1> HIDE DEF p, L, k
<1>5. p \o <<>> = p /\ p \o <<k>> = Append(p, k)
  BY <1>1, <1>2, ConcatEmptySeq, AppendIsConcat
<1>6. Under(p, Under(<<k>>, L)) = Under(p \o <<k>>, L)
  BY <1>2, UnderUnder
<1>7. QED
  BY <1>1, <1>4, <1>5, <1>6 DEF p, L, k

-----------------------------------------------------------------------------
(* The steps *)

\* A step of the sanitizer keeps the invariant when its new calls and fields fit
\* the old ones and it tells or drops exactly the leaves it takes from its call.
LEMMA CallStep ==
    ASSUME SanitizerInv, Busy, Frame,
           NEW new, work' = new \o Tail(work),
           out' \in Seq(LogFields), Tree(out'), GroupsFit(options, out'), OneGroupPerName(out'),
           left' \in Nat, Len(out') + left' = Len(out) + left,
           Aimed(out', new), Placed(options, out', new),
           Aimed(out', Tail(work)), Placed(options, out', Tail(work)),
           TodoIn(out', Tail(work)) = TodoIn(out, Tail(work)),
           NEW x \in Seq(Leaf), CallLeaves(out, This) = x \o TodoIn(out', new),
           Told(out', DOMAIN out') = Told(out, DOMAIN out) \cup ShownIn(options, x)
    PROVE  SanitizerInv'
<1>1. work \in Seq(PendingCalls) /\ work # <<>> /\ out \in Seq(LogFields) /\ Tree(out)
  BY DEF SanitizerInv, TypeOK, Busy
<1>2. Aimed(out, work)
  BY <1>1 DEF SanitizerInv, Placed, Aimed
<1>3. Telling(options, entry, out, work, left) /\ CallLeaves(out, Head(work)) = x \o TodoIn(out', new)
  BY DEF SanitizerInv, This
<1>4. Aimed(out', work') /\ Telling(options, entry, out', work', left')
  BY <1>1, <1>2, <1>3, CallProgress
<1>5. Placed(options, out', work')
  BY PlacedConcat
<1>6. options' = options /\ entry' = entry /\ handler' = handler
  BY DEF Frame
<1>7. TypeOK'
  BY <1>4, <1>6 DEF SanitizerInv, TypeOK, Aimed
<1>8. entry # <<>>
  BY <1>1 DEF SanitizerInv, Idle
<1>9. Placed(options', out', work') /\ GroupsFit(options', out') /\ Telling(options', entry', out', work', left')
  BY <1>4, <1>5, <1>6
<1>10. Idle(options', entry', out', work', left')
  BY <1>6, <1>8 DEF Idle
<1>11. Len(out') + left' = options'.attributes
  BY <1>6 DEF SanitizerInv
<1>12. QED
  BY <1>7, <1>9, <1>10, <1>11 DEF SanitizerInv

\* The facts about the next call.
LEMMA ThisIs ==
    ASSUME SanitizerInv, Busy
    PROVE  /\ out \in Seq(LogFields) /\ Tree(out) /\ GroupsFit(options, out) /\ OneGroupPerName(out)
           /\ left \in Nat /\ left > 0 /\ options.depth \in Nat /\ options.depth >= 1
           /\ This \in PendingCalls /\ This.target \in 0..Len(out)
           /\ This.groups \in Seq(Keys) /\ This.attr \in Attr /\ This.attr.key \in Keys
           /\ This.attr.value \in Values /\ This.depth \in Nat
           /\ Path(out)[This.target] \in Seq(Keys)
           /\ Fits(options, Path(out)[This.target])
           /\ This.depth = Len(Path(out)[This.target]) + 1
           /\ This.how = "element" => This.attr.key = ""
           /\ Aimed(out, Tail(work)) /\ Placed(options, out, Tail(work))
           /\ CallLeaves(out, This) \in Seq(Leaf)
<1>1. work \in Seq(PendingCalls) /\ work # <<>> /\ out \in Seq(LogFields) /\ Tree(out)
      /\ GroupsFit(options, out) /\ OneGroupPerName(out)
      /\ left \in Nat /\ left > 0 /\ options.depth \in Nat /\ options.depth >= 1
      /\ Placed(options, out, work)
  <2>1. options.depth \in Nat \ {0} /\ left \in Nat
    BY DEF SanitizerInv, TypeOK
  <2>2. /\ work \in Seq(PendingCalls) /\ out \in Seq(LogFields) /\ Tree(out)
        /\ GroupsFit(options, out) /\ OneGroupPerName(out) /\ Placed(options, out, work)
    BY DEF SanitizerInv, TypeOK
  <2>3. QED
    BY <2>1, <2>2 DEF Busy
<1>2. Aimed(out, work)
  BY <1>1 DEF Placed, Aimed
<1>3. This \in PendingCalls /\ This.target \in 0..Len(out) /\ Aimed(out, Tail(work))
  BY <1>1, <1>2, AimedRest DEF This
<1>4. /\ Placed(options, out, Tail(work))
      /\ Fits(options, Path(out)[This.target])
      /\ This.depth = Len(Path(out)[This.target]) + 1
      /\ This.how = "element" => This.attr.key = ""
  BY <1>1, <1>2, PlacedRest DEF This
<1>5. /\ This.groups \in Seq(Keys) /\ This.attr \in Attr /\ This.depth \in Nat
      /\ This.attr.key \in Keys /\ This.attr.value \in Values
  BY <1>3 DEF PendingCalls, Attr
<1>6. Path(out)[This.target] \in Seq(Keys) /\ CallLeaves(out, This) \in Seq(Leaf)
  BY <1>1, <1>3, CallLeavesType
<1>7. QED
  BY <1>1, <1>3, <1>4, <1>5, <1>6

\* A call that leaves no call behind leaves nothing to tell.
LEMMA NoCalls ==
    ASSUME NEW o, NEW fields
    PROVE  /\ Aimed(fields, <<>>) /\ Placed(o, fields, <<>>)
           /\ TodoIn(fields, <<>>) = <<>>
           /\ \A s \in Seq(PendingCalls) : <<>> \o s = s
           /\ \A s \in Seq(Leaf) : s \o <<>> = s /\ <<>> \o s = s
<1>1. <<>> \in Seq(PendingCalls) /\ Len(<<>>) = 0
  OBVIOUS
<1>2. Aimed(fields, <<>>) /\ Placed(o, fields, <<>>)
  BY <1>1 DEF Aimed, Placed
<1>3. \A s \in Seq(PendingCalls) : <<>> \o s = s
  BY ConcatEmptySeq
<1>4. \A s \in Seq(Leaf) : s \o <<>> = s /\ <<>> \o s = s
  BY ConcatEmptySeq
<1>5. QED
  BY <1>2, <1>3, <1>4, TodoNone

\* What is left out was given nothing.
LEMMA AddNothingStep ==
    ASSUME SanitizerInv, AddNothing
    PROVE  SanitizerInv'
<1>1. Busy /\ Frame /\ work' = Tail(work) /\ out' = out /\ left' = left
  BY DEF AddNothing
<1>2. CallLeaves(out, This) = <<>>
  <2> DEFINE c == This
             L == Leaves[c.attr.value]
  <2>1. Named(c.how, c.attr, L) = <<>>
    <3>1. CASE IsNothing(This)
      BY <3>1 DEF Named, IsNothing
    <3>2. CASE IsGroup(This) /\ Items[This.attr.value] = <<>>
      <4>1. This.attr.value \in Values
        BY <1>1, ThisIs
      <4>2. Parts(Leaves, This.attr.value) = <<>>
        BY <3>2 DEF Parts
      <4>3. L = FlattenSeq(Parts(Leaves, This.attr.value))
        BY <3>2, <4>1, LeavesIs DEF LeavesOf, IsGroup
      <4>4. L = <<>>
        BY <4>2, <4>3, FlattenEmpty
      <4>5. \A p : Under(p, <<>>) = <<>>
        BY DEF Under
      <4> HIDE DEF L, c
      <4>6. Named(c.how, c.attr, L) = <<>>
        BY <4>4, <4>5 DEF Named
      <4>7. QED
        BY <4>6 DEF c
    <3>3. QED
      BY <3>1, <3>2 DEF AddNothing
  <2>2. \A p : Under(p, <<>>) = <<>>
    BY DEF Under
  <2>3. QED
    BY <2>1, <2>2 DEF CallLeaves
<1>3. /\ out' \in Seq(LogFields) /\ Tree(out') /\ GroupsFit(options, out') /\ OneGroupPerName(out')
      /\ left' \in Nat /\ Len(out') + left' = Len(out) + left
      /\ Aimed(out', Tail(work)) /\ Placed(options, out', Tail(work))
      /\ TodoIn(out', Tail(work)) = TodoIn(out, Tail(work))
  BY <1>1, ThisIs
<1> DEFINE x == <<>>
<1>4. work' = x \o Tail(work)
  <2>1. Tail(work) \in Seq(PendingCalls)
    BY <1>1, ThisIs DEF Aimed
  <2>2. QED
    BY <1>1, <2>1, ConcatEmptySeq
<1>5. /\ Aimed(out', x) /\ Placed(options, out', x)
      /\ CallLeaves(out, This) = x \o TodoIn(out', x)
  <2>1. <<>> \o <<>> = <<>>
    OBVIOUS
  <2>2. QED
    BY <1>2, <2>1, NoCalls
<1>6. Told(out', DOMAIN out') = Told(out, DOMAIN out) \cup ShownIn(options, x)
  BY <1>1, ShownNone
<1>7. x \in Seq(Leaf)
  OBVIOUS
<1> HIDE DEF x
<1>8. QED
  BY <1>1, <1>3, <1>4, <1>5, <1>6, <1>7, CallStep

-----------------------------------------------------------------------------
(* A group is looked up or made *)

\* Secret is SensitiveKey, and what has no name is not sensitive.
LEMMA SecretIs ==
    ASSUME SanitizerInv
    PROVE  (\A key : SensitiveKey(key) <=> Secret(options, key)) /\ ~Secret(options, "")
<1>1. \A key : SensitiveKey(key) <=> Secret(options, key)
  BY DEF SensitiveKey, Secret
<1>2. NormalizeKey[""] = "" /\ "" \notin BuiltinSensitiveKeys
  BY LogConstants
<1>3. \A key \in options.extra : NormalizeKey[key] # ""
  BY DEF SanitizerInv, TypeOK
<1>4. ~Secret(options, "")
  BY <1>2, <1>3 DEF Secret
<1>5. QED
  BY <1>1, <1>4

\* The group is open exactly when its names may be shown, whether it is new or not.
LEMMA GroupMade ==
    ASSUME SanitizerInv, Busy, NEW key \in Keys, Group(This.target, key, This.depth)
    PROVE  LET at == GroupAt(This.target, key)
               rest == Tail(work)
           IN  /\ out' \in Seq(LogFields) /\ Tree(out') /\ GroupsFit(options, out')
               /\ OneGroupPerName(out')
               /\ left' \in Nat /\ Len(out') + left' = Len(out) + left
               /\ Aimed(out', rest) /\ Placed(options, out', rest)
               /\ TodoIn(out', rest) = TodoIn(out, rest)
               /\ Told(out', DOMAIN out') = Told(out, DOMAIN out)
               /\ at \in 1..Len(out')
               /\ Path(out')[at] = Append(Path(out)[This.target], key)
               /\ IsOpen(out'[at].kind) <=> Fits(options, Append(Path(out)[This.target], key))
<1> DEFINE t == This.target
           p == Path(out)[t]
           named == GroupsNamed(t, key)
           rest == Tail(work)
           n == Len(out)
<1>1. /\ out \in Seq(LogFields) /\ Tree(out) /\ GroupsFit(options, out) /\ OneGroupPerName(out)
      /\ left \in Nat /\ left > 0 /\ options.depth \in Nat
      /\ t \in 0..n /\ p \in Seq(Keys) /\ Fits(options, p) /\ This.depth = Len(p) + 1
      /\ Aimed(out, rest) /\ Placed(options, out, rest)
  BY ThisIs
<1>2. n \in Nat /\ DOMAIN out = 1..n
  BY <1>1
<1>3. Fits(options, Append(p, key)) <=> Len(p) + 1 <= options.depth /\ ~Secret(options, key)
  BY <1>1, FitsAppend
<1>4. CASE named # {}
  <2>1. out' = out /\ left' = left
    BY <1>4 DEF Group
  <2> DEFINE at == CHOOSE i \in named : TRUE
  <2>2. GroupAt(t, key) = at /\ at \in named
    BY <1>4 DEF GroupAt
  <2> HIDE DEF at
  <2>3. at \in 1..n /\ out[at].group /\ out[at].parent = t /\ out[at].key = key
    BY <1>2, <2>2 DEF GroupsNamed
  <2>4. Path(out)[at] = Append(p, key)
    BY <1>1, <2>3, PathIs
  <2>5. Len(Path(out)[at]) = Len(p) + 1
    BY <1>1, <2>4, AppendProperties
  <2>6. IsOpen(out[at].kind) <=> Fits(options, Append(p, key))
    BY <1>1, <1>3, <2>3, <2>5 DEF GroupsFit
  <2>7. Len(out') + left' = Len(out) + left
    BY <2>1
  <2> HIDE DEF t, p, rest, n
  <2>8. QED
    BY <1>1, <2>1, <2>2, <2>3, <2>4, <2>6, <2>7 DEF t, p, rest, n
<1>5. CASE named = {}
  <2> DEFINE kind == Placeholder(key, This.depth)
             field == Field(t, key, IF kind = "group" /\ InObject(t) THEN "object" ELSE kind, 0, TRUE)
             more == Append(out, field)
  <2>1. out' = more /\ left' = left - 1
    BY <1>5 DEF Group, Put
  <2>2. kind \in {"redacted", "truncated", "group"}
    BY DEF Placeholder
  <2>3. kind = "group" <=> Fits(options, Append(p, key))
    <3>1. SensitiveKey(key) <=> Secret(options, key)
      BY SecretIs
    <3>2. This.depth = Len(p) + 1 /\ options.depth \in Nat /\ Len(p) \in Nat
      BY <1>1
    <3>3. kind = "group" <=> ~SensitiveKey(key) /\ ~(This.depth > options.depth)
      BY DEF Placeholder
    <3> HIDE DEF kind, p
    <3>4. QED
      BY <1>3, <3>1, <3>2, <3>3
  <2> HIDE DEF kind
  <2>4. /\ field.parent = t /\ field.key = key /\ field.group = TRUE /\ field.value = 0
        /\ field.kind = IF kind = "group" /\ InObject(t) THEN "object" ELSE kind
    BY DEF Field
  <2>5. field \in LogFields
    <3>1. t \in Nat
      BY <1>1
    <3>2. (IF kind = "group" /\ InObject(t) THEN "object" ELSE kind) \in Places
      BY <2>2 DEF Places
    <3>3. QED
      BY <3>1, <3>2 DEF Field, LogFields
  <2> HIDE DEF field
  <2>6. field.kind # "leaf" /\ (IsOpen(field.kind) <=> kind = "group")
    BY <2>2, <2>4 DEF IsOpen
  <2>7. \A i \in 1..n : ~(out[i].group /\ out[i].parent = field.parent /\ out[i].key = field.key)
    BY <1>2, <1>5, <2>4 DEF GroupsNamed
  <2>8. IsOpen(field.kind) <=> Len(p) + 1 <= options.depth /\ ~Secret(options, key)
    BY <1>3, <2>3, <2>6
  <2>9. field.parent \in 0..n /\ p = Path(out)[field.parent]
    BY <1>1, <2>4
  <2>10. /\ more \in Seq(LogFields) /\ Len(more) = n + 1
         /\ Tree(more) /\ GroupsFit(options, more) /\ OneGroupPerName(more)
         /\ Aimed(more, rest) /\ Placed(options, more, rest)
         /\ TodoIn(more, rest) = TodoIn(out, rest)
    <3> HIDE DEF rest, p
    <3>1. QED
      BY <1>1, <2>4, <2>5, <2>7, <2>8, <2>9, FieldAdded
  <2>11. Told(more, DOMAIN more) = Told(out, DOMAIN out)
    BY <1>1, <2>5, <2>6, <2>9, ToldMore
  <2>12. more[n + 1] = field /\ Path(more)[n + 1] = Append(p, key)
    <3>1. Path(more)[n + 1] = Append(Path(out)[field.parent], field.key) /\ more[n + 1] = field
      BY <1>1, <2>5, <2>9, PathKept
    <3>2. QED
      BY <2>4, <2>9, <3>1
  <2>13. GroupAt(t, key) = n + 1
    BY <1>5 DEF GroupAt
  <2> HIDE DEF more, n, t, p, rest
  <2>14. n + 1 \in 1..Len(more) /\ left - 1 \in Nat /\ Len(more) + (left - 1) = n + left
    BY <1>1, <1>2, <2>10
  <2>15. IsOpen(more[n + 1].kind) <=> Fits(options, Append(p, key))
    BY <2>3, <2>6, <2>12
  <2>16. QED
    BY <2>1, <2>10, <2>11, <2>12, <2>13, <2>14, <2>15 DEF n, t, p, rest
<1>6. QED
  BY <1>4, <1>5

-----------------------------------------------------------------------------
(* The calls, one by one *)

\* Joining nothing changes nothing.
LEMMA EmptyLeaves == <<>> \in Seq(Leaf) /\ \A s \in Seq(Leaf) : s \o <<>> = s /\ <<>> \o s = s
<1>1. <<>> \in Seq(Leaf)
  OBVIOUS
<1>2. \A s \in Seq(Leaf) : s \o <<>> = s /\ <<>> \o s = s
  BY ConcatEmptySeq
<1>3. QED
  BY <1>1, <1>2

\* The first element may move from one list to the end of another.
LEMMA HeadAndTail ==
    ASSUME NEW T, NEW s \in Seq(T), s # <<>>, NEW p \in Seq(T)
    PROVE  /\ Head(s) \in T /\ Tail(s) \in Seq(T)
           /\ Append(p, Head(s)) \in Seq(T) /\ Len(Append(p, Head(s))) = Len(p) + 1
           /\ p \o s = Append(p, Head(s)) \o Tail(s)
OBVIOUS

\* The call for what is below a group.
LEMMA CallBelow ==
    ASSUME NEW c \in PendingCalls, c.groups # <<>>, NEW at \in Nat
    PROVE  LET d == [c EXCEPT !.target = at, !.groups = Tail(@), !.depth = @ + 1]
           IN  /\ d \in PendingCalls
               /\ d.target = at /\ d.groups = Tail(c.groups) /\ d.depth = c.depth + 1
               /\ d.how = c.how /\ d.attr = c.attr
<1> DEFINE d == [c EXCEPT !.target = at, !.groups = Tail(@), !.depth = @ + 1]
<1>1. PICK t \in Nat, g \in Seq(Keys), a \in Attr, e \in Nat, h \in Modes :
        c = [target |-> t, groups |-> g, attr |-> a, depth |-> e, how |-> h]
  BY DEF PendingCalls
<1>2. c.groups = g /\ c.depth = e /\ c.how = h /\ c.attr = a
  BY <1>1
<1> DEFINE below == Tail(g)
           next == e + 1
<1>3. below \in Seq(Keys) /\ next \in Nat
  BY <1>2, HeadTailProperties
<1>4. d = [c EXCEPT !.target = at, !.groups = below, !.depth = next]
  BY <1>1, <1>2
<1> HIDE DEF d, below, next
<1>5. d = [target |-> at, groups |-> below, attr |-> a, depth |-> next, how |-> h]
  BY <1>1, <1>4
<1>6. d \in PendingCalls
  BY <1>3, <1>5 DEF PendingCalls
<1>7. d.target = at /\ d.groups = below /\ d.depth = next /\ d.how = h /\ d.attr = a
  BY <1>5
<1>8. QED
  BY <1>2, <1>6, <1>7 DEF d, below, next

\* What goes into an open group keeps its names; a closed group swallows it.
LEMMA AddUnderGroupStep ==
    ASSUME SanitizerInv, AddUnderGroup
    PROVE  SanitizerInv'
<1> DEFINE name == Head(This.groups)
           at == GroupAt(This.target, name)
           below == Tail(This.groups)
           p == Path(out)[This.target]
           q == Append(p, name)
           N == Named(This.how, This.attr, Leaves[This.attr.value])
           c == [This EXCEPT !.target = at, !.groups = Tail(@), !.depth = @ + 1]
           rest == Tail(work)
           before == CallLeaves(out, This)
           empty == <<>>
<1>1. /\ Busy /\ Frame /\ This.groups # <<>> /\ Group(This.target, name, This.depth)
      /\ work' = IF IsOpen(out'[at].kind) THEN <<c>> \o rest ELSE rest
  BY DEF AddUnderGroup
<1>2. /\ out \in Seq(LogFields) /\ Tree(out) /\ options.depth \in Nat
      /\ This \in PendingCalls /\ This.target \in 0..Len(out)
      /\ This.groups \in Seq(Keys) /\ This.depth \in Nat
      /\ p \in Seq(Keys) /\ Fits(options, p) /\ This.depth = Len(p) + 1
      /\ This.how = "element" => This.attr.key = ""
      /\ before \in Seq(Leaf) /\ Aimed(out, rest)
  BY <1>1, ThisIs
<1>3. /\ name \in Keys /\ below \in Seq(Keys)
      /\ q \in Seq(Keys) /\ Len(q) = Len(p) + 1 /\ p \o This.groups = q \o below
  BY <1>1, <1>2, HeadAndTail
<1>4. /\ out' \in Seq(LogFields) /\ Tree(out') /\ GroupsFit(options, out')
      /\ OneGroupPerName(out')
      /\ left' \in Nat /\ Len(out') + left' = Len(out) + left
      /\ Aimed(out', rest) /\ Placed(options, out', rest)
      /\ TodoIn(out', rest) = TodoIn(out, rest)
      /\ Told(out', DOMAIN out') = Told(out, DOMAIN out)
      /\ at \in 1..Len(out')
      /\ Path(out')[at] = q
      /\ IsOpen(out'[at].kind) <=> Fits(options, q)
  BY <1>1, <1>3, GroupMade
<1>5. N \in Seq(Leaf) /\ before = Under(p \o This.groups, N)
  BY <1>2, CallLeavesType DEF CallLeaves
<1> HIDE DEF N, before, rest, q, p, below, at, name
<1>7. rest \in Seq(PendingCalls) /\ <<>> \o rest = rest
  <2>1. rest \in Seq(PendingCalls)
    BY <1>2 DEF Aimed
  <2>2. QED
    BY <2>1, ConcatEmptySeq
<1>8. CASE IsOpen(out'[at].kind)
  <2>1. /\ c.target = at /\ c.groups = below /\ c.depth = This.depth + 1
        /\ c.how = This.how /\ c.attr = This.attr
        /\ c \in PendingCalls
    <3>1. at \in Nat
      BY <1>4
    <3>2. QED
      BY <1>1, <1>2, <3>1, CallBelow DEF below
  <2> HIDE DEF c
  <2> DEFINE new == <<c>>
  <2>2. c.target \in 0..Len(out')
    BY <1>4, <2>1
  <2>3. Aimed(out', new) /\ TodoIn(out', new) = CallLeaves(out', c)
    BY <1>4, <2>1, <2>2, TodoOne
  <2>4. CallLeaves(out', c) = before
    BY <1>3, <1>4, <1>5, <2>1, Zenon DEF CallLeaves, N
  <2>5. Placed(options, out', new)
    <3>1. Len(new) = 1 /\ \A i \in 1..Len(new) : new[i] = c
      OBVIOUS
    <3> HIDE DEF new
    <3>2. c.depth = Len(Path(out')[c.target]) + 1 /\ Fits(options, Path(out')[c.target])
      BY <1>2, <1>3, <1>4, <1>8, <2>1
    <3>3. QED
      BY <1>2, <2>1, <2>2, <3>1, <3>2 DEF Placed
  <2>6. work' = new \o rest
    BY <1>1, <1>8
  <2>7. empty \in Seq(Leaf) /\ before = empty \o TodoIn(out', new)
    <3>1. empty \in Seq(Leaf) /\ empty \o before = before
      BY <1>2, EmptyLeaves
    <3> HIDE DEF empty, new
    <3>2. QED
      BY <2>3, <2>4, <3>1
  <2>8. Told(out', DOMAIN out') = Told(out, DOMAIN out) \cup ShownIn(options, empty)
    BY <1>4, ShownNone
  <2> HIDE DEF new, empty
  <2>9. QED
    BY <1>1, <1>4, <2>3, <2>5, <2>6, <2>7, <2>8, CallStep DEF rest, before
<1>9. CASE ~IsOpen(out'[at].kind)
  <2>1. before = Under(q, Under(below, N))
    BY <1>3, <1>5, UnderUnder
  <2>2. Under(below, N) \in Seq(Leaf) /\ ~Fits(options, q)
    BY <1>3, <1>4, <1>5, <1>9, UnderIs
  <2>3. ShownIn(options, before) = {}
    BY <1>2, <1>3, <2>1, <2>2, HiddenUnder
  <2>4. /\ Aimed(out', empty) /\ Placed(options, out', empty)
        /\ before = before \o TodoIn(out', empty)
    BY <1>2, NoCalls
  <2>5. work' = empty \o rest
    BY <1>1, <1>7, <1>9
  <2>6. Told(out', DOMAIN out') = Told(out, DOMAIN out) \cup ShownIn(options, before)
    BY <1>4, <2>3
  <2> HIDE DEF empty
  <2>7. QED
    BY <1>1, <1>2, <1>4, <2>4, <2>5, <2>6, CallStep DEF rest, before
<1>10. QED
  BY <1>8, <1>9

\* A field that is no group is put in the log.
LEMMA FieldPut ==
    ASSUME SanitizerInv, Busy, NEW key \in Keys, NEW kind \in Places, NEW value \in Nat,
           Put(Field(This.target, key, kind, value, FALSE))
    PROVE  LET rest == Tail(work)
           IN  /\ out' = Append(out, Field(This.target, key, kind, value, FALSE))
               /\ out' \in Seq(LogFields) /\ Tree(out') /\ GroupsFit(options, out')
               /\ OneGroupPerName(out') /\ Len(out') = Len(out) + 1
               /\ left' \in Nat /\ Len(out') + left' = Len(out) + left
               /\ Aimed(out', rest) /\ Placed(options, out', rest)
               /\ TodoIn(out', rest) = TodoIn(out, rest)
               /\ Path(out')[Len(out) + 1] = Append(Path(out)[This.target], key)
               /\ Told(out', DOMAIN out') = Told(out, DOMAIN out) \cup
                    (IF kind = "leaf"
                     THEN {[path |-> Append(Path(out)[This.target], key), value |-> value]}
                     ELSE {})
<1> DEFINE field == Field(This.target, key, kind, value, FALSE)
           more == Append(out, field)
           rest == Tail(work)
<1>1. /\ out \in Seq(LogFields) /\ Tree(out) /\ GroupsFit(options, out) /\ OneGroupPerName(out)
      /\ left \in Nat /\ left > 0 /\ This.target \in 0..Len(out)
      /\ Aimed(out, rest) /\ Placed(options, out, rest)
  BY ThisIs
<1>2. out' = more /\ left' = left - 1
  BY DEF Put
<1>3. /\ field.parent = This.target /\ field.key = key /\ field.kind = kind
      /\ field.value = value /\ field.group = FALSE
  BY DEF Field
<1>4. field \in LogFields
  <2>1. This.target \in Nat
    BY <1>1
  <2>2. QED
    BY <2>1 DEF Field, LogFields
<1> HIDE DEF field
<1>5. /\ more \in Seq(LogFields) /\ Len(more) = Len(out) + 1
      /\ Tree(more) /\ GroupsFit(options, more) /\ OneGroupPerName(more)
      /\ Aimed(more, rest) /\ Placed(options, more, rest)
      /\ TodoIn(more, rest) = TodoIn(out, rest)
  <2> HIDE DEF rest
  <2>1. QED
    BY <1>1, <1>3, <1>4, FieldAdded
<1>6. Told(more, DOMAIN more) = Told(out, DOMAIN out) \cup
        (IF kind = "leaf" THEN {[path |-> Append(Path(out)[This.target], key), value |-> value]} ELSE {})
  BY <1>1, <1>3, <1>4, ToldMore
<1>7. Path(more)[Len(out) + 1] = Append(Path(out)[This.target], key)
  BY <1>1, <1>3, <1>4, PathKept
<1> HIDE DEF more, rest
<1>8. left - 1 \in Nat /\ Len(more) + (left - 1) = Len(out) + left
  <2>1. Len(out) \in Nat
    BY <1>1
  <2>2. QED
    BY <1>1, <1>5, <2>1
<1>9. QED
  BY <1>2, <1>5, <1>6, <1>7, <1>8 DEF more, rest, field

\* A placeholder stands for leaves none of which may be shown.
LEMMA AddByNameStep ==
    ASSUME SanitizerInv, AddByName
    PROVE  SanitizerInv'
<1> DEFINE key == This.attr.key
           kind == Placeholder(key, This.depth)
           p == Path(out)[This.target]
           q == Append(p, key)
           L == Leaves[This.attr.value]
           before == CallLeaves(out, This)
           empty == <<>>
           rest == Tail(work)
<1>1. /\ Busy /\ Frame /\ This.groups = <<>> /\ ByName(This) /\ work' = rest
      /\ Put(Field(This.target, key, kind, 0, FALSE))
  BY DEF AddByName
<1>2. /\ out \in Seq(LogFields) /\ Tree(out) /\ options.depth \in Nat
      /\ This \in PendingCalls /\ This.target \in 0..Len(out) /\ key \in Keys
      /\ This.attr.value \in Values
      /\ p \in Seq(Keys) /\ This.depth = Len(p) + 1
      /\ before \in Seq(Leaf) /\ Aimed(out, rest)
  BY <1>1, ThisIs
<1>3. kind \in {"redacted", "truncated", "group"} /\ kind \in Places
  BY DEF Placeholder, Places
<1>4. Secret(options, key) \/ This.depth > options.depth
  BY <1>1, SecretIs DEF ByName
<1>5. ~IsNothing(This) /\ ~(IsGroup(This) /\ key = "")
  BY <1>1 DEF ByName, IsNothing, IsGroup
<1>6. before = Under(q, L)
  BY <1>1, <1>2, <1>5, CallUnderName
<1>7. L \in Seq(Leaf)
  BY <1>2, LeavesIs
<1>8. q \in Seq(Keys) /\ ~Fits(options, q)
  <2>1. /\ q \in Seq(Keys)
        /\ Fits(options, q) <=> Fits(options, p) /\ Len(p) + 1 <= options.depth /\ ~Secret(options, key)
    BY <1>2, FitsAppend
  <2>2. Len(p) \in Nat
    BY <1>2
  <2> HIDE DEF p, q
  <2>3. QED
    BY <1>2, <1>4, <2>1, <2>2
<1> HIDE DEF L, q, p
<1>9. ShownIn(options, before) = {}
  BY <1>2, <1>6, <1>7, <1>8, HiddenUnder
<1> HIDE DEF before, kind, key
<1>10. /\ out' \in Seq(LogFields) /\ Tree(out') /\ GroupsFit(options, out')
       /\ OneGroupPerName(out')
       /\ left' \in Nat /\ Len(out') + left' = Len(out) + left
       /\ Aimed(out', rest) /\ Placed(options, out', rest)
       /\ TodoIn(out', rest) = TodoIn(out, rest)
       /\ Told(out', DOMAIN out') = Told(out, DOMAIN out)
  <2>1. 0 \in Nat /\ kind # "leaf"
    BY <1>3
  <2>2. QED
    BY <1>1, <1>2, <1>3, <2>1, FieldPut
<1>11. /\ Aimed(out', empty) /\ Placed(options, out', empty)
       /\ before = before \o TodoIn(out', empty)
  BY <1>2, NoCalls
<1>12. work' = empty \o rest
  <2>1. rest \in Seq(PendingCalls)
    BY <1>2 DEF Aimed
  <2> HIDE DEF rest
  <2>2. QED
    BY <1>1, <2>1, ConcatEmptySeq
<1> HIDE DEF empty
<1>13. Told(out', DOMAIN out') = Told(out, DOMAIN out) \cup ShownIn(options, before)
  BY <1>9, <1>10
<1>14. QED
  BY <1>1, <1>2, <1>10, <1>11, <1>12, <1>13, CallStep DEF before

\* A group leaves what it was given to its attributes.
LEMMA AddGroupStep ==
    ASSUME SanitizerInv, AddGroup
    PROVE  SanitizerInv'
<1> DEFINE key == This.attr.key
           v == This.attr.value
           p == Path(out)[This.target]
           q == Append(p, key)
           L == Leaves[v]
           before == CallLeaves(out, This)
           empty == <<>>
           rest == Tail(work)
<1>1. /\ Busy /\ Frame /\ This.groups = <<>> /\ ~ByName(This) /\ IsGroup(This)
  BY DEF AddGroup
<1>2. /\ out \in Seq(LogFields) /\ Tree(out) /\ GroupsFit(options, out) /\ OneGroupPerName(out)
      /\ options.depth \in Nat /\ left \in Nat
      /\ This \in PendingCalls /\ This.target \in 0..Len(out) /\ key \in Keys
      /\ v \in Values /\ This.depth \in Nat
      /\ p \in Seq(Keys) /\ Fits(options, p) /\ This.depth = Len(p) + 1
      /\ before \in Seq(Leaf) /\ Aimed(out, rest) /\ Placed(options, out, rest)
  BY <1>1, ThisIs
<1>3. Kind[v] = "group" /\ Kind[v] \in {"group", "map", "list"} /\ This.how = "add"
  BY <1>1 DEF IsGroup
<1>4. L \in Seq(Leaf) /\ empty \in Seq(Leaf) /\ ShownIn(options, empty) = {}
  BY <1>2, LeavesIs, EmptyLeaves, ShownNone
<1>5. CASE key = "" /\ work' = Calls(v, This.target, This.depth) \o rest /\ UNCHANGED <<out, left>>
  <2> DEFINE new == Calls(v, This.target, This.depth)
  <2>1. Aimed(out, new) /\ TodoIn(out, new) = Under(p, L)
    BY <1>2, <1>3, ContainerLeaves
  <2>2. Placed(options, out, new)
    BY <1>2, <1>3, CallsPlaced
  <2>3. before = Under(p, L)
    <3>1. Named(This.how, This.attr, L) = L
      BY <1>3, <1>5 DEF Named
    <3>2. p \o This.groups = p
      BY <1>1, <1>2, ConcatEmptySeq
    <3> HIDE DEF L, p
    <3>3. QED
      BY <3>1, <3>2 DEF CallLeaves, L, p
  <2>4. out' = out /\ left' = left
    BY <1>5
  <2> HIDE DEF new, L, p
  <2>5. before = empty \o TodoIn(out, new)
    <3>1. empty \o before = before
      BY <1>2, EmptyLeaves
    <3> HIDE DEF empty, before
    <3>2. QED
      BY <2>1, <2>3, <3>1
  <2>6. work' = new \o rest
    BY <1>5 DEF new
  <2> HIDE DEF empty
  <2>7. Told(out', DOMAIN out') = Told(out, DOMAIN out) \cup ShownIn(options, empty)
    BY <1>4, <2>4
  <2>8. QED
    BY <1>1, <1>2, <1>4, <2>1, <2>2, <2>4, <2>5, <2>6, <2>7, CallStep DEF before
<1>6. CASE /\ key # "" /\ Group(This.target, key, This.depth)
           /\ work' = Calls(v, GroupAt(This.target, key), This.depth + 1) \o rest
  <2> DEFINE at == GroupAt(This.target, key)
             new == Calls(v, at, This.depth + 1)
  <2>1. /\ out' \in Seq(LogFields) /\ Tree(out') /\ GroupsFit(options, out')
        /\ OneGroupPerName(out')
        /\ left' \in Nat /\ Len(out') + left' = Len(out) + left
        /\ Aimed(out', rest) /\ Placed(options, out', rest)
        /\ TodoIn(out', rest) = TodoIn(out, rest)
        /\ Told(out', DOMAIN out') = Told(out, DOMAIN out)
        /\ at \in 1..Len(out')
        /\ Path(out')[at] = q
    BY <1>1, <1>2, <1>6, GroupMade
  <2>2. Fits(options, q) /\ This.depth + 1 = Len(q) + 1 /\ This.depth + 1 \in Nat
    <3>1. /\ Len(q) = Len(p) + 1 /\ Len(p) \in Nat
          /\ Fits(options, q) <=> Fits(options, p) /\ Len(p) + 1 <= options.depth /\ ~Secret(options, key)
      BY <1>2, FitsAppend
    <3>2. ~Secret(options, key) /\ ~(This.depth > options.depth)
      BY <1>1, <1>3, <1>6, SecretIs DEF ByName
    <3> HIDE DEF p, q
    <3>3. QED
      BY <1>2, <3>1, <3>2
  <2>3. at \in 0..Len(out')
    BY <2>1
  <2> HIDE DEF at
  <2>4. Aimed(out', new) /\ TodoIn(out', new) = Under(q, L)
    <3> DEFINE depth == This.depth + 1
    <3>1. depth \in Nat
      BY <2>2
    <3> HIDE DEF q, depth
    <3>2. /\ Aimed(out', Calls(v, at, depth))
          /\ TodoIn(out', Calls(v, at, depth)) = Under(Path(out')[at], L)
      BY <1>2, <1>3, <2>1, <2>3, <3>1, ContainerLeaves
    <3>3. QED
      BY <2>1, <3>2 DEF depth
  <2>5. Placed(options, out', new)
    BY <1>2, <1>3, <2>1, <2>2, <2>3, CallsPlaced
  <2>6. before = Under(q, L)
    <3>1. ~IsNothing(This) /\ ~(IsGroup(This) /\ key = "")
      BY <1>3, <1>6 DEF IsNothing
    <3>2. QED
      BY <1>1, <1>2, <3>1, CallUnderName
  <2> HIDE DEF new, L, q
  <2>7. before = empty \o TodoIn(out', new)
    <3>1. empty \o before = before
      BY <1>2, EmptyLeaves
    <3> HIDE DEF empty, before
    <3>2. QED
      BY <2>4, <2>6, <3>1
  <2>8. work' = new \o rest
    BY <1>6 DEF new, at
  <2> HIDE DEF empty
  <2>9. Told(out', DOMAIN out') = Told(out, DOMAIN out) \cup ShownIn(options, empty)
    BY <1>4, <2>1
  <2>10. QED
    BY <1>1, <1>4, <2>1, <2>4, <2>5, <2>7, <2>8, <2>9, CallStep DEF before
<1>7. QED
  BY <1>5, <1>6 DEF AddGroup

\* A value is logged under its names, is left to its items, or may not be shown.
LEMMA AddValueStep ==
    ASSUME SanitizerInv, AddValue
    PROVE  SanitizerInv'
<1> DEFINE key == This.attr.key
           v == This.attr.value
           kind == Clean(v, This.depth)
           put == IF kind = "leaf" THEN v ELSE 0
           p == Path(out)[This.target]
           q == Append(p, key)
           L == Leaves[v]
           before == CallLeaves(out, This)
           empty == <<>>
           rest == Tail(work)
           child == Len(out) + 1
           container == kind \in {"object", "map", "list"}
           calls == Calls(v, child, This.depth + 1)
<1>1. /\ Busy /\ Frame /\ This.groups = <<>> /\ ~ByName(This) /\ ~IsNothing(This) /\ ~IsGroup(This)
      /\ Put(Field(This.target, key, kind, put, FALSE))
      /\ work' = IF container THEN calls \o rest ELSE rest
  BY DEF AddValue
<1>2. /\ out \in Seq(LogFields) /\ Tree(out) /\ options.depth \in Nat
      /\ This \in PendingCalls /\ This.target \in 0..Len(out) /\ key \in Keys
      /\ v \in Values /\ This.depth \in Nat
      /\ p \in Seq(Keys) /\ Fits(options, p) /\ This.depth = Len(p) + 1
      /\ This.how = "element" => key = ""
      /\ before \in Seq(Leaf) /\ Aimed(out, rest)
  BY <1>1, ThisIs
<1>3. before = Under(q, L)
  BY <1>1, <1>2, CallUnderName
<1>4. /\ q \in Seq(Keys) /\ Len(q) = Len(p) + 1 /\ Len(p) \in Nat
      /\ Fits(options, q) <=> Fits(options, p) /\ Len(p) + 1 <= options.depth /\ ~Secret(options, key)
  <2>1. options.depth \in Nat /\ p \in Seq(Keys) /\ key \in Keys
    BY <1>2
  <2>2. Len(p) \in Nat
    BY <2>1, LenProperties
  <2> HIDE DEF p, key
  <2>3. QED
    BY <2>1, <2>2, FitsAppend
<1>5. ~Secret(options, key)
  <2>1. This.how \in Modes
    BY <1>2 DEF PendingCalls
  <2>2. CASE key = ""
    BY <2>2, SecretIs
  <2>3. CASE key # ""
    BY <1>1, <1>2, <2>1, <2>3, SecretIs DEF ByName, Modes
  <2>4. QED
    BY <2>2, <2>3
<1>6. Fits(options, q) <=> ~(This.depth > options.depth)
  <2> HIDE DEF p, q
  <2>1. QED
    <3> DEFINE d == This.depth
               m == options.depth
               n == Len(p)
    <3>1. d \in Nat /\ m \in Nat /\ n \in Nat /\ d = n + 1
      BY <1>2, <1>4
    <3>2. Fits(options, q) <=> n + 1 <= m
      BY <1>2, <1>4, <1>5
    <3> HIDE DEF d, m, n
    <3>3. Fits(options, q) <=> ~(d > m)
      BY <3>1, <3>2
    <3>4. QED
      BY <3>3 DEF d, m
<1>7. Kind[v] \in Kinds /\ v \in Nat /\ L \in Seq(Leaf) /\ L = LeavesOf(Leaves, v)
  BY <1>2, ItemsAreOlder, LeavesIs
<1>8. kind \in Places /\ put \in Nat
  <2>1. kind \in Places
    BY <1>7 DEF Clean, Kinds, Places
  <2>2. QED
    BY <1>7, <2>1
<1>9. empty \in Seq(Leaf) /\ ShownIn(options, empty) = {}
  BY EmptyLeaves, ShownNone
<1>10. rest \in Seq(PendingCalls) /\ empty \o rest = rest
  <2>1. rest \in Seq(PendingCalls)
    BY <1>2 DEF Aimed
  <2>2. QED
    BY <2>1, ConcatEmptySeq
<1>11. Aimed(out', empty) /\ Placed(options, out', empty) /\ TodoIn(out', empty) = empty
  BY NoCalls
<1>12. /\ before \o empty = before /\ empty \o before = before
  BY <1>2, EmptyLeaves
<1>13. \/ ~Fits(options, q) /\ kind = "truncated"
       \/ Fits(options, q) /\ kind = "leaf" /\ Kind[v] \in {"leaf", "nil"}
       \/ Fits(options, q) /\ kind = "unserializable" /\ Kind[v] = "bad"
       \/ Fits(options, q) /\ container /\ kind # "leaf" /\ Kind[v] \in {"group", "map", "list"}
  <2>1. (This.depth > options.depth) => kind = "truncated"
    BY DEF Clean
  <2>2. ~(This.depth > options.depth) =>
          \/ kind = "leaf" /\ Kind[v] \in {"leaf", "nil"}
          \/ kind = "unserializable" /\ Kind[v] = "bad"
          \/ container /\ kind # "leaf" /\ Kind[v] \in {"group", "map", "list"}
    BY <1>7 DEF Clean, Kinds
  <2> HIDE DEF kind, v, q
  <2>3. QED
    BY <1>6, <2>1, <2>2
<1> HIDE DEF kind, put, q, p, empty
<1>14. /\ out' \in Seq(LogFields) /\ Tree(out') /\ GroupsFit(options, out')
       /\ OneGroupPerName(out') /\ Len(out') = child
       /\ left' \in Nat /\ Len(out') + left' = Len(out) + left
       /\ Aimed(out', rest) /\ Placed(options, out', rest)
       /\ TodoIn(out', rest) = TodoIn(out, rest)
       /\ Path(out')[child] = q
       /\ Told(out', DOMAIN out') = Told(out, DOMAIN out) \cup
            (IF kind = "leaf" THEN {[path |-> q, value |-> put]} ELSE {})
  BY <1>1, <1>2, <1>8, FieldPut DEF p, q
<1>15. CASE ~Fits(options, q) /\ kind = "truncated"
  <2>1. ShownIn(options, before) = {}
    BY <1>2, <1>3, <1>4, <1>7, <1>15, HiddenUnder
  <2>2. work' = empty \o rest
    BY <1>1, <1>10, <1>15
  <2> HIDE DEF before, rest, child
  <2>3. Told(out', DOMAIN out') = Told(out, DOMAIN out) \cup ShownIn(options, before)
    BY <1>14, <1>15, <2>1
  <2>4. before = before \o TodoIn(out', empty)
    BY <1>11, <1>12
  <2>5. QED
    BY <1>1, <1>2, <1>11, <1>14, <2>2, <2>3, <2>4, CallStep DEF before, rest
<1>16. CASE Fits(options, q) /\ kind = "leaf" /\ Kind[v] \in {"leaf", "nil"}
  <2> DEFINE leaf == [path |-> q, value |-> v]
             x == <<leaf>>
  <2>1. leaf \in Leaf
    BY <1>2, <1>4 DEF Leaf
  <2>2. L = <<[path |-> <<>>, value |-> v]>>
    BY <1>7, <1>16 DEF LeavesOf
  <2>3. before = x
    <3>1. Len(L) = 1 /\ L[1] = [path |-> <<>>, value |-> v]
      BY <2>2
    <3>2. L[1].path = <<>> /\ L[1].value = v /\ q \o <<>> = q
      BY <1>4, <3>1, ConcatEmptySeq
    <3> HIDE DEF L, before
    <3>3. /\ before \in Seq(Leaf) /\ Len(before) = Len(L)
          /\ \A i \in 1..Len(L) : before[i] = [path |-> q \o L[i].path, value |-> L[i].value]
      BY <1>3, <1>4, <1>7, UnderIs
    <3>4. Len(before) = 1 /\ before[1] = leaf
      <4>1. Len(before) = 1 /\ 1 \in 1..Len(L)
        BY <3>1, <3>3
      <4>2. before[1] = [path |-> q \o L[1].path, value |-> L[1].value]
        BY <3>3, <4>1
      <4>3. QED
        BY <3>2, <4>1, <4>2
    <3> HIDE DEF leaf
    <3>5. QED
      BY <3>3, <3>4
  <2>4. ShownIn(options, x) = {leaf}
    <3>1. leaf.path = q
      OBVIOUS
    <3> HIDE DEF leaf
    <3>2. QED
      BY <1>16, <2>1, <3>1, ShownOne
  <2>5. put = v
    BY <1>16 DEF put
  <2>6. work' = empty \o rest
    BY <1>1, <1>10, <1>16
  <2> HIDE DEF x, rest, child
  <2>7. Told(out', DOMAIN out') = Told(out, DOMAIN out) \cup ShownIn(options, x)
    BY <1>14, <1>16, <2>4, <2>5
  <2>8. before = x \o TodoIn(out', empty) /\ x \in Seq(Leaf)
    <3> HIDE DEF before
    <3>1. QED
      BY <1>2, <1>11, <1>12, <2>3
  <2>9. QED
    BY <1>1, <1>11, <1>14, <2>6, <2>7, <2>8, CallStep DEF before, rest
<1>17. CASE Fits(options, q) /\ kind = "unserializable" /\ Kind[v] = "bad"
  <2>1. L = <<>>
    BY <1>7, <1>17 DEF LeavesOf
  <2>2. before = empty
    BY <1>3, <2>1 DEF Under, empty
  <2>3. work' = empty \o rest
    BY <1>1, <1>10, <1>17
  <2> HIDE DEF before, rest, child
  <2>4. Told(out', DOMAIN out') = Told(out, DOMAIN out) \cup ShownIn(options, empty)
    BY <1>9, <1>14, <1>17
  <2>5. before = empty \o TodoIn(out', empty)
    BY <1>11, <1>12, <2>2
  <2>6. QED
    BY <1>1, <1>9, <1>11, <1>14, <2>3, <2>4, <2>5, CallStep DEF before, rest
<1>18. CASE Fits(options, q) /\ container /\ kind # "leaf" /\ Kind[v] \in {"group", "map", "list"}
  <2>1. child \in 0..Len(out') /\ This.depth + 1 \in Nat
    <3>1. Len(out) \in Nat
      BY <1>2, LenProperties
    <3>2. Len(out') = child /\ This.depth \in Nat
      BY <1>2, <1>14
    <3>3. QED
      BY <3>1, <3>2
  <2>2. work' = calls \o rest
    BY <1>1, <1>18
  <2>3. Fits(options, Path(out')[child]) /\ This.depth + 1 = Len(Path(out')[child]) + 1
    BY <1>2, <1>4, <1>14, <1>18
  <2> HIDE DEF child
  <2>4. Aimed(out', calls) /\ TodoIn(out', calls) = Under(q, L)
    BY <1>2, <1>14, <1>18, <2>1, ContainerLeaves
  <2>5. Placed(options, out', calls)
    BY <1>2, <1>14, <1>18, <2>1, <2>3, CallsPlaced
  <2> HIDE DEF before, rest, calls
  <2>6. before = empty \o TodoIn(out', calls)
    BY <1>3, <1>12, <2>4
  <2>7. Told(out', DOMAIN out') = Told(out, DOMAIN out) \cup ShownIn(options, empty)
    BY <1>9, <1>14, <1>18
  <2>8. QED
    BY <1>1, <1>9, <1>14, <2>2, <2>4, <2>5, <2>6, <2>7, CallStep DEF before, rest
<1>19. QED
  BY <1>13, <1>15, <1>16, <1>17, <1>18

\* With the budget the rest is cut off.
LEMMA ExhaustedStep ==
    ASSUME SanitizerInv, Exhausted
    PROVE  SanitizerInv'
<1>1. /\ work # <<>> /\ left = 0 /\ work' = <<>> /\ out' = out /\ left' = left
      /\ options' = options /\ entry' = entry /\ handler' = handler
  BY DEF Exhausted, Frame
<1>2. TypeOK'
  <2>1. <<>> \in Seq(PendingCalls)
    OBVIOUS
  <2>2. QED
    BY <1>1, <2>1 DEF SanitizerInv, TypeOK
<1>3. Placed(options, out, <<>>)
  BY NoCalls
<1>4. entry # <<>>
  BY <1>1 DEF SanitizerInv, Idle
<1>5. Telling(options, entry, out, <<>>, 0)
  <2>1. PICK done, todo \in Seq(Leaf) :
          GivenIn(entry) = done \o todo /\ Told(out, DOMAIN out) = ShownIn(options, done)
    BY <1>4 DEF SanitizerInv, Telling
  <2>2. QED
    BY <2>1 DEF Telling
<1>6. /\ Tree(out') /\ GroupsFit(options', out') /\ OneGroupPerName(out')
      /\ Len(out') + left' = options'.attributes
  BY <1>1 DEF SanitizerInv
<1>7. Placed(options', out', work') /\ Telling(options', entry', out', work', left')
  BY <1>1, <1>3, <1>5
<1>8. Idle(options', entry', out', work', left')
  BY <1>1, <1>4 DEF Idle
<1>9. QED
  BY <1>2, <1>6, <1>7, <1>8 DEF SanitizerInv

\* Handlers are made between records.
LEMMA WithStep ==
    ASSUME SanitizerInv, WithAttrs \/ WithGroup
    PROVE  SanitizerInv'
<1>1. /\ options' = options /\ entry' = entry /\ work' = work /\ out' = out /\ left' = left
  BY DEF WithAttrs, WithGroup
<1>2. handler.attrs \in Seq(Inputs) /\ handler.groups \in Seq(Keys)
  BY DEF SanitizerInv, TypeOK
<1>3. handler'.attrs \in Seq(Inputs) /\ handler'.groups \in Seq(Keys)
  <2>1. CASE WithAttrs
    <3>1. PICK a \in Attrs :
            handler' = [handler EXCEPT !.attrs = Append(@, [groups |-> handler.groups, attr |-> a, how |-> "add"])]
      BY <2>1 DEF WithAttrs
    <3> DEFINE input == [groups |-> handler.groups, attr |-> a, how |-> "add"]
    <3>2. input \in Inputs
      <4>1. a \in Attr /\ "add" \in Modes \ {"element"}
        BY LogConstants DEF Modes
      <4>2. QED
        BY <1>2, <4>1 DEF Inputs
    <3>3. handler'.attrs \in {handler.attrs, Append(handler.attrs, input)} /\ handler'.groups = handler.groups
      BY <3>1
    <3> HIDE DEF input
    <3>4. Append(handler.attrs, input) \in Seq(Inputs)
      BY <1>2, <3>2, AppendProperties
    <3>5. QED
      BY <1>2, <3>3, <3>4
  <2>2. CASE WithGroup
    <3>1. PICK name \in GroupNames : handler' = [handler EXCEPT !.groups = Append(@, name)]
      BY <2>2 DEF WithGroup
    <3>2. name \in Keys
      BY LogConstants
    <3>3. handler'.groups \in {handler.groups, Append(handler.groups, name)} /\ handler'.attrs = handler.attrs
      BY <3>1
    <3>4. Append(handler.groups, name) \in Seq(Keys)
      BY <1>2, <3>2, AppendProperties
    <3>5. QED
      BY <1>2, <3>3, <3>4
  <2>3. QED
    BY <2>1, <2>2
<1>4. TypeOK'
  BY <1>1, <1>3 DEF SanitizerInv, TypeOK
<1>5. /\ Tree(out') /\ GroupsFit(options', out') /\ OneGroupPerName(out')
      /\ Len(out') + left' = options'.attributes
      /\ Placed(options', out', work') /\ Telling(options', entry', out', work', left')
      /\ Idle(options', entry', out', work', left')
  BY <1>1 DEF SanitizerInv
<1>6. QED
  BY <1>4, <1>5 DEF SanitizerInv

\* Nothing is in the log yet.
LEMMA NoFields ==
    ASSUME NEW o, o.depth \in Nat
    PROVE  /\ <<>> \in Seq(LogFields) /\ Tree(<<>>) /\ GroupsFit(o, <<>>) /\ OneGroupPerName(<<>>)
           /\ Told(<<>>, DOMAIN <<>>) = {} /\ Path(<<>>)[0] = <<>> /\ Fits(o, <<>>)
<1> DEFINE none == <<>>
<1>1. none \in Seq(LogFields) /\ Len(none) = 0 /\ DOMAIN none = {} /\ \A i : i \notin 1..Len(none)
  OBVIOUS
<1> HIDE DEF none
<1>2. Tree(none) /\ GroupsFit(o, none) /\ OneGroupPerName(none) /\ Fits(o, none)
  BY <1>1 DEF Tree, GroupsFit, OneGroupPerName, Fits
<1>3. Told(none, DOMAIN none) = {}
  BY <1>1 DEF Told
<1>4. Path(none)[0] = <<>>
  BY <1>1, <1>2, PathIs
<1>5. QED
  BY <1>1, <1>2, <1>3, <1>4 DEF none

\* A record starts with all it was given still to come.
LEMMA BeginStep ==
    ASSUME SanitizerInv, NEW given \in Seq(Inputs), Begin(given)
    PROVE  SanitizerInv'
<1> DEFINE empty == <<>>
<1>1. /\ given # <<>> /\ options' = options /\ handler' = handler /\ entry' = given
      /\ out' = empty /\ left' = options.attributes
      /\ work' = [i \in DOMAIN given |-> Call(0, given[i].groups, given[i].attr, 1, given[i].how)]
  BY DEF Begin
<1>2. /\ options.depth \in Nat /\ options.attributes \in Nat
      /\ options.depth \in Nat \ {0} /\ options.attributes \in Nat \ {0}
      /\ handler.attrs \in Seq(Inputs) /\ handler.groups \in Seq(Keys)
      /\ \A key \in options.extra : NormalizeKey[key] # ""
  BY DEF SanitizerInv, TypeOK
<1>3. /\ empty \in Seq(LogFields) /\ Tree(empty) /\ GroupsFit(options, empty) /\ OneGroupPerName(empty)
      /\ Told(empty, DOMAIN empty) = {} /\ Path(empty)[0] = empty /\ Fits(options, empty)
      /\ Len(empty) = 0 /\ empty \in Seq(Keys) /\ empty \in Seq(Leaf)
  <2>1. Len(empty) = 0 /\ empty \in Seq(Keys) /\ empty \in Seq(Leaf)
    OBVIOUS
  <2>2. QED
    BY <1>2, <2>1, NoFields
<1> HIDE DEF empty
<1>4. Len(given) \in Nat /\ DOMAIN given = 1..Len(given)
  OBVIOUS
<1>5. ASSUME NEW i \in 1..Len(given)
      PROVE  LET c == Call(0, given[i].groups, given[i].attr, 1, given[i].how)
             IN  /\ c \in PendingCalls /\ c.target = 0 /\ c.depth = 1 /\ c.how # "element"
                 /\ CallLeaves(empty, c) =
                      Under(given[i].groups, Named(given[i].how, given[i].attr, Leaves[given[i].attr.value]))
  <2> DEFINE g == given[i]
             c == Call(0, g.groups, g.attr, 1, g.how)
  <2>1. g \in Inputs
    OBVIOUS
  <2>2. g.groups \in Seq(Keys) /\ g.attr \in Attr /\ g.how \in Modes /\ g.how # "element"
    BY <2>1 DEF Inputs
  <2> HIDE DEF g
  <2>3. /\ c.target = 0 /\ c.depth = 1 /\ c.how = g.how /\ c.groups = g.groups /\ c.attr = g.attr
        /\ c \in PendingCalls
    BY <2>2 DEF Call, PendingCalls
  <2> HIDE DEF c
  <2>4. empty \o g.groups = g.groups
    BY <2>2, ConcatEmptySeq DEF empty
  <2>5. CallLeaves(empty, c) = Under(g.groups, Named(g.how, g.attr, Leaves[g.attr.value]))
    BY <1>3, <2>3, <2>4, Zenon DEF CallLeaves
  <2>6. QED
    BY <2>2, <2>3, <2>5 DEF c, g
<1> DEFINE calls == [i \in 1..Len(given) |-> Call(0, given[i].groups, given[i].attr, 1, given[i].how)]
<1>6. work' = calls
  BY <1>1, <1>4
<1>7. /\ calls \in [1..Len(given) -> PendingCalls]
      /\ \A i \in 1..Len(given) : calls[i] = Call(0, given[i].groups, given[i].attr, 1, given[i].how)
  BY <1>5
<1> HIDE DEF calls
<1>8. calls \in Seq(PendingCalls) /\ Len(calls) = Len(given) /\ DOMAIN calls = 1..Len(given)
  BY <1>4, <1>7
<1>9. \A i \in 1..Len(given) :
        /\ calls[i].target = 0 /\ calls[i].depth = 1 /\ calls[i].how # "element"
        /\ CallLeaves(empty, calls[i]) =
             Under(given[i].groups, Named(given[i].how, given[i].attr, Leaves[given[i].attr.value]))
  BY <1>5, <1>7
<1>10. Aimed(empty, calls) /\ Placed(options, empty, calls)
  <2>1. 0 \in 0..Len(empty) /\ Len(Path(empty)[0]) + 1 = 1 /\ Fits(options, Path(empty)[0])
    BY <1>3
  <2> HIDE DEF empty
  <2>2. Aimed(empty, calls)
    BY <1>8, <1>9, <2>1 DEF Aimed
  <2>3. Placed(options, empty, calls)
    BY <1>8, <1>9, <2>1 DEF Placed
  <2>4. QED
    BY <2>2, <2>3
<1>11. TodoIn(empty, calls) = GivenIn(given)
  <2>1. [i \in DOMAIN calls |-> CallLeaves(empty, calls[i])]
          = [i \in DOMAIN given |->
               Under(given[i].groups, Named(given[i].how, given[i].attr, Leaves[given[i].attr.value]))]
    BY <1>4, <1>8, <1>9, Zenon
  <2>2. QED
    BY <2>1, Zenon DEF TodoIn, GivenIn
<1>12. Telling(options, given, empty, calls, options.attributes)
  <2>1. TodoIn(empty, calls) \in Seq(Leaf)
    BY <1>3, <1>10, TodoType
  <2>2. empty \o TodoIn(empty, calls) = TodoIn(empty, calls)
    BY <2>1, EmptyLeaves DEF empty
  <2>3. Told(empty, DOMAIN empty) = ShownIn(options, empty)
    BY <1>3, ShownNone DEF empty
  <2>4. QED
    BY <1>3, <1>11, <2>1, <2>2, <2>3 DEF Telling
<1>13. TypeOK'
  BY <1>1, <1>2, <1>3, <1>6, <1>8 DEF TypeOK
<1>14. Len(out') + left' = options'.attributes
  <2>1. Len(out') = 0 /\ left' = options.attributes /\ options' = options
    BY <1>1, <1>3
  <2>2. 0 + options.attributes = options.attributes
    <3>1. options.attributes \in Nat
      BY <1>2
    <3>2. \A n \in Nat : 0 + n = n
      OBVIOUS
    <3>3. QED
      BY <3>1, <3>2
  <2>3. QED
    BY <2>1, <2>2
<1>15. Idle(options', entry', out', work', left')
  BY <1>1 DEF Idle
<1>16. /\ Tree(out') /\ GroupsFit(options', out') /\ OneGroupPerName(out')
       /\ Placed(options', out', work') /\ Telling(options', entry', out', work', left')
  BY <1>1, <1>3, <1>6, <1>10, <1>12
<1>17. QED
  BY <1>13, <1>14, <1>15, <1>16 DEF SanitizerInv

\* The attributes of a record become inputs.
LEMMA InputsOf ==
    ASSUME NEW A, A \subseteq Attr, NEW own \in SeqOf(A, MaxRecord),
           NEW groups \in Seq(Keys), NEW how \in Modes \ {"element"}
    PROVE  [i \in DOMAIN own |-> [groups |-> groups, attr |-> own[i], how |-> how]] \in Seq(Inputs)
<1>1. PICK m \in 0..MaxRecord : own \in [1..m -> A]
  BY DEF SeqOf
<1>2. m \in Nat
  <2>1. MaxRecord \in Nat
    BY LogConstants
  <2>2. QED
    BY <2>1
<1>3. DOMAIN own = 1..m /\ \A i \in 1..m : own[i] \in Attr
  BY <1>1
<1> DEFINE given == [i \in 1..m |-> [groups |-> groups, attr |-> own[i], how |-> how]]
<1>4. \A i \in 1..m : [groups |-> groups, attr |-> own[i], how |-> how] \in Inputs
  BY <1>3 DEF Inputs
<1>5. given \in [1..m -> Inputs]
  BY <1>4, Zenon
<1> HIDE DEF given
<1>6. given \in Seq(Inputs)
  BY <1>2, <1>5
<1>7. QED
  BY <1>3, <1>6 DEF given

\* Handle begins a record of Go with a new budget.
LEMMA HandleStep ==
    ASSUME SanitizerInv, Handle
    PROVE  SanitizerInv'
<1> DEFINE own(s) == [i \in DOMAIN s |-> [groups |-> handler.groups, attr |-> s[i], how |-> "add"]]
<1>1. PICK s \in SeqOf(Attrs, MaxRecord) : Begin(handler.attrs \o own(s))
  BY DEF Handle
<1>2. handler.attrs \in Seq(Inputs) /\ handler.groups \in Seq(Keys)
  BY DEF SanitizerInv, TypeOK
<1>3. own(s) \in Seq(Inputs)
  <2>1. Attrs \subseteq Attr /\ "add" \in Modes \ {"element"}
    BY LogConstants DEF Modes
  <2>2. QED
    BY <1>2, <2>1, InputsOf
<1> HIDE DEF own
<1>4. handler.attrs \o own(s) \in Seq(Inputs)
  BY <1>2, <1>3, ConcatProperties
<1>5. QED
  BY <1>1, <1>4, BeginStep

\* Format begins a record of Python with a new budget.
LEMMA FormatStep ==
    ASSUME SanitizerInv, Format
    PROVE  SanitizerInv'
<1> DEFINE fields(s) == [i \in DOMAIN s |-> [groups |-> <<>>, attr |-> s[i], how |-> "member"]]
<1>1. PICK s \in SeqOf(Fields, MaxRecord) : Begin(fields(s))
  BY DEF Format
<1>2. Fields \subseteq Attr /\ "member" \in Modes \ {"element"} /\ <<>> \in Seq(Keys)
  <2>1. Fields \subseteq Attr
    BY LogConstants
  <2>2. "member" \in Modes \ {"element"} /\ <<>> \in Seq(Keys)
    BY EmptySeq DEF Modes
  <2>3. QED
    BY <2>1, <2>2
<1>3. fields(s) \in Seq(Inputs)
  BY <1>2, InputsOf
<1> HIDE DEF fields
<1>4. QED
  BY <1>1, <1>3, BeginStep

\* Emit leaves nothing under way.
LEMMA EmitStep ==
    ASSUME SanitizerInv, Emit
    PROVE  SanitizerInv'
<1> DEFINE empty == <<>>
<1>1. /\ options' = options /\ handler' = handler /\ work' = work /\ work = empty
      /\ entry' = empty /\ out' = empty /\ left' = options.attributes
  BY DEF Emit
<1>2. /\ options.depth \in Nat /\ options.attributes \in Nat
      /\ TypeOK
  BY DEF SanitizerInv, TypeOK
<1>3. /\ empty \in Seq(LogFields) /\ Tree(empty) /\ GroupsFit(options, empty) /\ OneGroupPerName(empty)
      /\ Placed(options, empty, empty) /\ Len(empty) = 0 /\ empty \in Seq(Inputs)
  <2>1. Len(empty) = 0 /\ empty \in Seq(Inputs)
    OBVIOUS
  <2>2. QED
    BY <1>2, <2>1, NoFields, NoCalls
<1>4. Telling(options, empty, empty, empty, options.attributes) /\ Idle(options, empty, empty, empty, options.attributes)
  BY DEF Telling, Idle
<1> HIDE DEF empty
<1>5. TypeOK'
  BY <1>1, <1>2, <1>3 DEF TypeOK
<1>6. Len(out') + left' = options'.attributes
  BY <1>1, <1>2, <1>3
<1>7. /\ Tree(out') /\ GroupsFit(options', out') /\ OneGroupPerName(out')
      /\ Placed(options', out', work') /\ Telling(options', entry', out', work', left')
      /\ Idle(options', entry', out', work', left')
  BY <1>1, <1>3, <1>4
<1>8. QED
  BY <1>5, <1>6, <1>7 DEF SanitizerInv

-----------------------------------------------------------------------------
(* The theorems *)

\* The invariant holds before the first record.
LEMMA SanitizerInit ==
    ASSUME Init
    PROVE  SanitizerInv
<1> DEFINE empty == <<>>
<1>1. /\ handler = [attrs |-> empty, groups |-> empty]
      /\ entry = empty /\ work = empty /\ out = empty /\ left = options.attributes
  BY DEF Init
<1>2. PICK o \in AllOptions : ValidOptions(o) /\ options = NormalizeOptions(o)
  BY DEF Init
<1>3. PICK a \in Int, d \in Int, e \in SUBSET Keys : o = [attributes |-> a, depth |-> d, extra |-> e]
  <2>1. o \in [attributes : Int, depth : Int, extra : SUBSET Keys]
    BY LogConstants
  <2>2. QED
    BY <2>1
<1>4. /\ options.attributes \in Int /\ options.attributes >= 1
      /\ options.depth \in Int /\ options.depth >= 1
      /\ \A key \in options.extra : NormalizeKey[key] # ""
  <2> DEFINE a1 == IF a = 0 THEN 64 ELSE a
             d1 == IF d = 0 THEN 8 ELSE d
  <2>1. a1 \in Int /\ d1 \in Int
    OBVIOUS
  <2>2. NormalizeOptions(o) = [attributes |-> a1, depth |-> d1, extra |-> e]
    <3>1. o.attributes = a /\ o.depth = d
      BY <1>3
    <3>2. NormalizeOptions(o) = [o EXCEPT !.attributes = a1, !.depth = d1]
      BY <1>3, <3>1 DEF NormalizeOptions
    <3> HIDE DEF a1, d1
    <3>3. QED
      BY <1>3, <3>2
  <2> HIDE DEF a1, d1
  <2>3. options.attributes = a1 /\ options.depth = d1 /\ options.extra = e /\ o.extra = e
    BY <1>2, <1>3, <2>2
  <2>4. /\ options.attributes >= 1 /\ options.depth >= 1
        /\ \A key \in e : NormalizeKey[key] # ""
    BY <1>2, <2>3 DEF ValidOptions
  <2>5. QED
    BY <2>1, <2>3, <2>4
<1>5. /\ options.attributes \in Nat \ {0} /\ options.depth \in Nat \ {0}
      /\ options.attributes \in Nat /\ options.depth \in Nat
  <2> DEFINE a1 == options.attributes
             d1 == options.depth
  <2>1. a1 \in Int /\ a1 >= 1 /\ d1 \in Int /\ d1 >= 1
    BY <1>4
  <2> HIDE DEF a1, d1
  <2>2. a1 \in Nat \ {0} /\ d1 \in Nat \ {0} /\ a1 \in Nat /\ d1 \in Nat
    BY <2>1
  <2>3. QED
    BY <2>2 DEF a1, d1
<1>6. /\ empty \in Seq(LogFields) /\ Tree(empty) /\ GroupsFit(options, empty) /\ OneGroupPerName(empty)
      /\ Placed(options, empty, empty) /\ Len(empty) = 0 /\ empty \in Seq(Inputs)
      /\ empty \in Seq(Keys) /\ empty \in Seq(PendingCalls)
  <2>1. Len(empty) = 0 /\ empty \in Seq(Inputs) /\ empty \in Seq(Keys) /\ empty \in Seq(PendingCalls)
    OBVIOUS
  <2>2. QED
    BY <1>5, <2>1, NoFields, NoCalls
<1>7. Telling(options, empty, empty, empty, options.attributes) /\ Idle(options, empty, empty, empty, options.attributes)
  BY DEF Telling, Idle
<1> HIDE DEF empty
<1>8. handler.attrs = empty /\ handler.groups = empty
  BY <1>1
<1>9. TypeOK
  BY <1>1, <1>4, <1>5, <1>6, <1>8 DEF TypeOK
<1>10. Len(out) + left = options.attributes
  BY <1>1, <1>5, <1>6
<1>11. QED
  BY <1>1, <1>6, <1>7, <1>9, <1>10 DEF SanitizerInv

\* Every step keeps it: one lemma for each action.
LEMMA SanitizerStep ==
    ASSUME SanitizerInv, [Next]_vars
    PROVE  SanitizerInv'
<1>1. CASE UNCHANGED vars
  <2>1. /\ options' = options /\ handler' = handler /\ entry' = entry
        /\ work' = work /\ out' = out /\ left' = left
    BY <1>1 DEF vars
  <2>2. TypeOK'
    BY <2>1 DEF SanitizerInv, TypeOK
  <2>3. /\ Tree(out') /\ GroupsFit(options', out') /\ OneGroupPerName(out')
        /\ Len(out') + left' = options'.attributes
        /\ Placed(options', out', work') /\ Telling(options', entry', out', work', left')
        /\ Idle(options', entry', out', work', left')
    BY <2>1 DEF SanitizerInv
  <2>4. QED
    BY <2>2, <2>3 DEF SanitizerInv
<1>2. CASE WithAttrs \/ WithGroup
  BY <1>2, WithStep
<1>3. CASE Handle
  BY <1>3, HandleStep
<1>4. CASE Format
  BY <1>4, FormatStep
<1>5. CASE Emit
  BY <1>5, EmitStep
<1>6. CASE AddNothing
  BY <1>6, AddNothingStep
<1>7. CASE AddUnderGroup
  BY <1>7, AddUnderGroupStep
<1>8. CASE AddByName
  BY <1>8, AddByNameStep
<1>9. CASE AddGroup
  BY <1>9, AddGroupStep
<1>10. CASE AddValue
  BY <1>10, AddValueStep
<1>11. CASE Exhausted
  BY <1>11, ExhaustedStep
<1>12. QED
  BY <1>1, <1>2, <1>3, <1>4, <1>5, <1>6, <1>7, <1>8, <1>9, <1>10, <1>11 DEF Next

\* SanitizerInv is inductive: it holds between any two calls of the sanitizer.
THEOREM SanitizerInvariance == Spec => []SanitizerInv
<1>1. Init => SanitizerInv
  BY SanitizerInit
<1>2. SanitizerInv /\ [Next]_vars => SanitizerInv'
  BY SanitizerStep
<1>3. QED
  BY <1>1, <1>2, PTL DEF Spec

\* The types of the options, the handler, the fields and the pending calls.
THEOREM SanitizerTypes == Spec => []TypeOK
<1>1. SanitizerInv => TypeOK
  BY DEF SanitizerInv
<1>2. QED
  BY <1>1, SanitizerInvariance, PTL

\* One budget for a record, in which a group is charged once: for every budget and
\* every record, between any two calls.
THEOREM BudgetStaysExact == Spec => []BudgetIsExact
<1>1. SanitizerInv => BudgetIsExact
  <2> SUFFICES ASSUME SanitizerInv PROVE BudgetIsExact
    OBVIOUS
  <2>1. DOMAIN out = 1..Len(out)
    BY LenProperties DEF SanitizerInv, TypeOK
  <2>2. QED
    BY <2>1 DEF SanitizerInv, OneGroupPerName, BudgetIsExact
<1>2. QED
  BY <1>1, SanitizerInvariance, PTL

-----------------------------------------------------------------------------
(* Objects keep the last field of a name *)

\* fieldsObject as an equation: a field gave way when its parent or it itself did.
LEMMA ReplacedIs ==
    ASSUME out \in Seq(LogFields), Tree(out)
    PROVE  /\ Replaced[0] = FALSE
           /\ \A i \in 1..Len(out) :
                Replaced[i] <=> Replaced[out[i].parent] \/ HasNamesake(i)
<1> DEFINE n == Len(out)
           earlier == [i \in 1..n |-> out[i].parent]
           step == [p \in (1..n) \X BOOLEAN |-> p[2] \/ HasNamesake(p[1])]
           body(f) == [i \in 0..n |-> i # 0 /\ (f[out[i].parent] \/ HasNamesake(i))]
           no == FALSE
<1>1. n \in Nat /\ \A i \in 1..n : /\ out[i].parent \in 0..n
                                   /\ out[i].parent \in Nat /\ out[i].parent < i
  <2>1. ASSUME NEW i \in 1..n
        PROVE  out[i].parent \in 0..n /\ out[i].parent \in Nat /\ out[i].parent < i
    <3>1. out[i].parent \in 0..(i - 1)
      BY DEF Tree
    <3>2. QED
      BY <3>1
  <2>2. QED
    BY <2>1
<1>2. /\ step \in [(1..n) \X BOOLEAN -> BOOLEAN]
      /\ \A i \in 1..n, b \in BOOLEAN : step[<<i, b>>] = (b \/ HasNamesake(i))
  OBVIOUS
<1>3. earlier \in [1..n -> Nat] /\ \A i \in 1..n : earlier[i] < i /\ earlier[i] = out[i].parent
  BY <1>1
<1>4. PICK f : Follows(f, n, BOOLEAN, earlier, no, step)
  <2> HIDE DEF n, step, earlier, no
  <2>1. no \in BOOLEAN
    BY DEF no
  <2>2. QED
    BY <1>1, <1>2, <1>3, <2>1, RecursionExists
<1> HIDE DEF step, earlier
<1>5. f \in [0..n -> BOOLEAN] /\ f[0] = FALSE
  BY <1>4 DEF Follows
<1>6. ASSUME NEW i \in 1..n PROVE f[i] = (f[out[i].parent] \/ HasNamesake(i))
  <2>1. f[i] = step[<<i, f[out[i].parent]>>]
    BY <1>3, <1>4 DEF Follows
  <2>2. f[out[i].parent] \in BOOLEAN
    BY <1>1, <1>5
  <2>3. QED
    BY <1>2, <2>1, <2>2
<1>7. f = body(f)
  <2>1. \A i \in 0..n : f[i] = (i # 0 /\ (f[out[i].parent] \/ HasNamesake(i)))
    <3>1. ASSUME NEW i \in 0..n
          PROVE  f[i] = (i # 0 /\ (f[out[i].parent] \/ HasNamesake(i)))
      <4>1. CASE i = 0
        BY <1>5, <4>1, Zenon
      <4>2. CASE i # 0
        <5>1. i \in 1..n
          BY <1>1, <4>2
        <5>2. QED
          BY <1>6, <4>2, <5>1, Zenon
      <4>3. QED
        BY <4>1, <4>2
    <3>2. QED
      BY <3>1, Zenon
  <2>2. f = [i \in 0..n |-> f[i]]
    BY <1>5
  <2>3. QED
    BY <2>1, <2>2, Zenon
<1>8. Replaced = CHOOSE g : g = body(g)
  BY Zenon DEF Replaced
<1> DEFINE r == Replaced
<1>9. r = body(r)
  <2> HIDE DEF body
  <2>1. QED
    BY <1>7, <1>8
<1> HIDE DEF r
<1>10. 0 \in 0..n /\ \A i \in 1..n : i \in 0..n /\ i # 0
  BY <1>1
<1>11. r[0] = FALSE
  <2>1. r[0] = (0 # 0 /\ (r[out[0].parent] \/ HasNamesake(0)))
    BY <1>9, <1>10, Zenon
  <2>2. QED
    BY <2>1
<1>12. ASSUME NEW i \in 1..n PROVE r[i] <=> r[out[i].parent] \/ HasNamesake(i)
  <2>1. r[i] = (i # 0 /\ (r[out[i].parent] \/ HasNamesake(i)))
    BY <1>9, <1>10, Zenon
  <2>2. i # 0
    BY <1>10
  <2>3. QED
    BY <2>1, <2>2, Zenon
<1>13. QED
  BY <1>11, <1>12 DEF r

\* The last field of a name in an object is there unless the object gave way.
LEMMA LastNamesake ==
    ASSUME out \in Seq(LogFields), Tree(out), NEW i \in 1..Len(out),
           ~Replaced[out[i].parent], HasNamesake(i)
    PROVE  \E j \in Logged : /\ InObject(out[i].parent) /\ i < j
                             /\ out[i].parent = out[j].parent /\ out[i].key = out[j].key
<1> DEFINE n == Len(out)
           Same(j) == out[j].parent = out[i].parent /\ out[j].key = out[i].key
           S == {n - j : j \in {k \in (i + 1)..n : Same(k)}}
<1>1. n \in Nat /\ i \in Nat
  BY LenProperties
<1>2. InObject(out[i].parent) /\ \E j \in (i + 1)..n : Same(j)
  BY DEF HasNamesake
<1>3. S \subseteq Nat /\ S # {}
  <2>1. \A j \in (i + 1)..n : n - j \in Nat
    BY <1>1
  <2>2. QED
    BY <1>2, <2>1
<1>4. PICK m \in S : \A k \in S : m <= k
  <2> HIDE DEF S
  <2>1. QED
    BY <1>3, LeastNumber
<1>5. PICK j \in (i + 1)..n : Same(j) /\ m = n - j
  BY <1>4
<1>6. j \in 1..n /\ i < j /\ j \in Nat
  BY <1>1
<1>7. ASSUME NEW k \in (j + 1)..n PROVE ~(out[k].parent = out[j].parent /\ out[k].key = out[j].key)
  <2> SUFFICES ASSUME out[k].parent = out[j].parent, out[k].key = out[j].key PROVE FALSE
    OBVIOUS
  <2>1. Same(k) /\ k \in (i + 1)..n
    BY <1>1, <1>5, <1>6
  <2>2. n - k \in S /\ ~(n - j <= n - k)
    BY <1>1, <1>6, <2>1
  <2> HIDE DEF S
  <2>3. QED
    BY <1>4, <1>5, <2>2
<1>8. ~HasNamesake(j)
  BY <1>7 DEF HasNamesake
<1>9. ~Replaced[j]
  BY <1>5, <1>6, <1>8, ReplacedIs
<1>10. j \in Logged
  <2>1. DOMAIN out = 1..n
    BY LenProperties
  <2>2. QED
    BY <1>6, <1>9, <2>1 DEF Logged
<1>11. QED
  BY <1>2, <1>5, <1>6, <1>10

\* A field that gave way has a name on its way that a later field has taken.
LEMMA ReplacedGaveWay ==
    ASSUME out \in Seq(LogFields), Tree(out), NEW f \in 1..Len(out), Replaced[f]
    PROVE  \E i \in 1..Len(out), j \in Logged :
              /\ InObject(out[i].parent) /\ i < j
              /\ out[i].parent = out[j].parent /\ out[i].key = out[j].key
              /\ IsPrefix(Path(out)[i], Path(out)[f])
<1> DEFINE n == Len(out)
           P == Path(out)
           Away(g) == \E i \in 1..n, j \in Logged :
                        /\ InObject(out[i].parent) /\ i < j
                        /\ out[i].parent = out[j].parent /\ out[i].key = out[j].key
                        /\ IsPrefix(P[i], P[g])
           Bad == {g \in 1..n : Replaced[g] /\ ~Away(g)}
<1>1. n \in Nat /\ \A i \in 1..n : /\ out[i].parent \in 0..n /\ ~(i <= out[i].parent)
                                   /\ out[i].key \in Keys
  <2>1. ASSUME NEW i \in 1..n
        PROVE  out[i].parent \in 0..n /\ ~(i <= out[i].parent) /\ out[i].key \in Keys
    <3>1. out[i].parent \in 0..(i - 1) /\ out[i] \in LogFields
      BY DEF Tree
    <3>2. QED
      BY <3>1 DEF LogFields
  <2>2. QED
    BY <2>1
<1>2. P \in [0..n -> Seq(Keys)] /\ \A i \in 1..n : P[i] = Append(P[out[i].parent], out[i].key)
  BY PathIs
<1> HIDE DEF P
<1>3. \A s \in Seq(Keys) : IsPrefix(s, s)
  BY DEF IsPrefix
<1>4. ASSUME NEW s \in Seq(Keys), NEW t \in Seq(Keys), NEW k \in Keys, IsPrefix(s, t)
      PROVE  IsPrefix(s, Append(t, k))
  <2>1. Len(s) \in Nat /\ Len(t) \in Nat /\ Len(s) <= Len(t) /\ SubSeq(s, 1, Len(s)) = SubSeq(t, 1, Len(s))
    BY <1>4, LenProperties DEF IsPrefix
  <2>2. Len(Append(t, k)) = Len(t) + 1 /\ \A i \in 1..Len(t) : Append(t, k)[i] = t[i]
    BY AppendProperties
  <2>3. \A i \in 1..Len(s) : i \in 1..Len(t)
    BY <2>1
  <2>4. SubSeq(Append(t, k), 1, Len(s)) = SubSeq(t, 1, Len(s))
    BY <2>1, <2>2, <2>3
  <2>5. QED
    BY <2>1, <2>2, <2>4 DEF IsPrefix
<1>5. Bad = {}
  <2> SUFFICES ASSUME Bad # {} PROVE FALSE
    OBVIOUS
  <2>1. PICK g \in Bad : \A k \in Bad : g <= k
    <3>1. Bad \subseteq Nat
      OBVIOUS
    <3> HIDE DEF Bad
    <3>2. QED
      BY <3>1, LeastNumber
  <2>2. g \in 1..n /\ Replaced[g] /\ ~Away(g)
    BY <2>1
  <2> DEFINE parent == out[g].parent
  <2>3. parent \in 0..n /\ ~(g <= parent) /\ P[g] = Append(P[parent], out[g].key) /\ out[g].key \in Keys
    BY <1>1, <1>2, <2>2
  <2>4. CASE Replaced[parent]
    <3>1. parent # 0
      BY <2>4, ReplacedIs
    <3>2. parent \in 1..n
      BY <1>1, <2>3, <3>1
    <3>3. parent \notin Bad
      BY <2>1, <2>3
    <3>4. Away(parent)
      BY <2>4, <3>2, <3>3
    <3>5. PICK i \in 1..n, j \in Logged :
            /\ InObject(out[i].parent) /\ i < j
            /\ out[i].parent = out[j].parent /\ out[i].key = out[j].key
            /\ IsPrefix(P[i], P[parent])
      BY <3>4
    <3>6. P[i] \in Seq(Keys) /\ P[parent] \in Seq(Keys)
      <4>1. i \in 0..n
        BY <1>1
      <4>2. QED
        BY <1>2, <2>3, <4>1
    <3>7. IsPrefix(P[i], P[g])
      BY <1>4, <2>3, <3>5, <3>6
    <3>8. Away(g)
      BY <3>5, <3>7
    <3>9. QED
      BY <2>2, <3>8
  <2>5. CASE ~Replaced[parent]
    <3>1. HasNamesake(g)
      BY <2>2, <2>5, ReplacedIs
    <3>2. PICK j \in Logged : /\ InObject(out[g].parent) /\ g < j
                              /\ out[g].parent = out[j].parent /\ out[g].key = out[j].key
      BY <2>2, <2>5, <3>1, LastNamesake
    <3>3. P[g] \in Seq(Keys)
      <4>1. g \in 0..n
        BY <1>1, <2>2
      <4>2. QED
        BY <1>2, <4>1
    <3>4. Away(g)
      BY <1>3, <2>2, <3>2, <3>3
    <3>5. QED
      BY <2>2, <3>4
  <2>6. QED
    BY <2>4, <2>5
<1>6. Away(f)
  BY <1>5
<1>7. QED
  BY <1>6 DEF P

\* What has been told is in the log or gave way, and nothing else is in the log.
LEMMA LogIsRight ==
    ASSUME SanitizerInv, entry # <<>>, work = <<>>
    PROVE  \E k \in 0..Len(Given) :
             LET shown  == {Given[i] : i \in {n \in 1..k : Shown(Given[n])}}
                 logged == Told(out, Logged)
             IN  /\ logged \subseteq shown
                 /\ \A leaf \in shown \ logged : GaveWay(leaf)
                 /\ left > 0 => k = Len(Given)
<1>1. out \in Seq(LogFields) /\ Tree(out) /\ left \in Nat
  BY DEF SanitizerInv, TypeOK
<1>2. Given = GivenIn(entry)
  BY Zenon DEF Given, GivenIn
<1>3. PICK done, todo \in Seq(Leaf) :
        /\ GivenIn(entry) = done \o todo
        /\ Told(out, DOMAIN out) = ShownIn(options, done)
        /\ todo = TodoIn(out, work) \/ (left = 0 /\ work = <<>>)
  BY DEF SanitizerInv, Telling
<1>4. left > 0 => todo = <<>>
  <2>1. left > 0 => todo = TodoIn(out, work)
    BY <1>1, <1>3
  <2>2. QED
    BY <2>1, TodoNone
<1> DEFINE g == Given
           k == Len(done)
           shown == {g[i] : i \in {n \in 1..k : Shown(g[n])}}
           logged == Told(out, Logged)
           told == Told(out, DOMAIN out)
<1>5. /\ k \in Nat /\ Len(g) = k + Len(todo) /\ Len(todo) \in Nat
      /\ \A i \in 1..k : g[i] = done[i] /\ done[i] \in Leaf
  <2>1. Len(done) \in Nat /\ Len(todo) \in Nat /\ \A i \in 1..Len(done) : done[i] \in Leaf
    BY LenProperties, ElementOfSeq
  <2>2. /\ Len(done \o todo) = Len(done) + Len(todo)
        /\ \A i \in 1..Len(done) : (done \o todo)[i] = done[i]
    BY <2>1, ConcatProperties
  <2>3. QED
    BY <1>2, <1>3, <2>1, <2>2
<1>6. \A leaf \in Leaf : Shown(leaf) <=> Fits(options, leaf.path)
  <2>1. ASSUME NEW leaf \in Leaf PROVE Shown(leaf) <=> Fits(options, leaf.path)
    <3>1. DOMAIN leaf.path = 1..Len(leaf.path)
      BY LenProperties DEF Leaf
    <3>2. \A key : SensitiveKey(key) <=> Secret(options, key)
      BY SecretIs
    <3>3. QED
      BY <3>1, <3>2 DEF Shown, Fits
  <2>2. QED
    BY <2>1
<1> HIDE DEF g
<1>7. shown = told
  <2>1. \A i \in 1..k : g[i] = done[i] /\ (Shown(g[i]) <=> Fits(options, done[i].path))
    BY <1>5, <1>6
  <2>2. shown = ShownIn(options, done)
    BY <2>1 DEF ShownIn
  <2>3. QED
    BY <1>3, <2>2
<1> DEFINE P == Path(out)
           Leaf1(i) == [path |-> P[i], value |-> out[i].value]
<1>8. DOMAIN out = 1..Len(out) /\ Logged = {i \in 1..Len(out) : ~Replaced[i]}
  BY <1>1, LenProperties DEF Logged
<1>9. /\ told = {Leaf1(i) : i \in {n \in DOMAIN out : out[n].kind = "leaf"}}
      /\ logged = {Leaf1(i) : i \in {n \in Logged : out[n].kind = "leaf"}}
  BY Zenon DEF Told
<1>10. logged \subseteq told
  <2>1. Logged \subseteq DOMAIN out
    BY <1>8
  <2> HIDE DEF Leaf1, logged, told
  <2>2. QED
    BY <1>9, <2>1
<1>11. ASSUME NEW leaf \in told \ logged PROVE GaveWay(leaf)
  <2>1. PICK f \in DOMAIN out : out[f].kind = "leaf" /\ leaf = Leaf1(f)
    <3> HIDE DEF Leaf1, logged, told
    <3>1. QED
      BY <1>9
  <2>2. f \notin Logged
    <3> HIDE DEF Leaf1, logged, told
    <3>1. QED
      BY <1>9, <2>1
  <2>3. f \in 1..Len(out) /\ Replaced[f]
    BY <1>8, <2>1, <2>2
  <2>4. PICK i \in 1..Len(out), j \in Logged :
          /\ InObject(out[i].parent) /\ i < j
          /\ out[i].parent = out[j].parent /\ out[i].key = out[j].key
          /\ IsPrefix(Path(out)[i], Path(out)[f])
    BY <1>1, <2>3, ReplacedGaveWay
  <2>5. leaf.path = Path(out)[f]
    BY <2>1
  <2>6. QED
    BY <1>8, <2>4, <2>5, Zenon DEF GaveWay
<1>12. k \in 0..Len(g) /\ (left > 0 => k = Len(g))
  <2>1. left > 0 => Len(todo) = 0
    BY <1>4
  <2>2. QED
    BY <1>5, <2>1
<1> HIDE DEF k, told, logged
<1>13. /\ logged \subseteq shown /\ \A leaf \in shown \ logged : GaveWay(leaf)
  BY <1>7, <1>10, <1>11
<1>14. QED
  BY <1>12, <1>13 DEF g, logged

\* Every value is in the log under its names, is under a sensitive name or too deep, was
\* cut off by the budget or gave way to a namesake: for every value, every group and
\* every budget.
THEOREM LeavesStayRight == Spec => []LeavesAreRight
<1>1. SanitizerInv => LeavesAreRight
  BY LogIsRight DEF LeavesAreRight
<1>2. QED
  BY <1>1, SanitizerInvariance, PTL

=============================================================================
