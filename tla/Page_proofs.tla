----------------------------- MODULE Page_proofs -----------------------------
(***************************************************************************)
(* Proofs about what the public page is made of: the availability of a     *)
(* control, for any sources, checks, windows, resolutions and days, and    *)
(* the incidents and the statuses shown, for any components and requests,  *)
(* any revisions of impacts, and any number of faults.                     *)
(***************************************************************************)
EXTENDS Availability, Incidents, WellFoundedInduction, FiniteSetTheorems, SequenceTheorems, TLAPS

-----------------------------------------------------------------------------
(* Integers: least and greatest members, induction and recursion. *)

\* Naturals have a least element.
LEMMA Least ==
    ASSUME NEW S, S \subseteq Nat, S # {}
    PROVE  Min(S) \in S /\ \A m \in S : Min(S) <= m
<1> DEFINE less == {pair \in Nat \X Nat : pair[1] < pair[2]}
<1>1. IsWellFoundedOn(less, Nat)
  BY NatLessThanWellFounded DEF OpToRel
<1>2. PICK n \in S : \A m \in S : ~ (<<m, n>> \in less)
  <2> HIDE DEF less
  <2> QED BY <1>1, WFMin
<1>3. \A m \in S : n =< m
  <2> SUFFICES ASSUME NEW m \in S PROVE n =< m OBVIOUS
  <2>1. m \in Nat /\ n \in Nat /\ <<m, n>> \in Nat \X Nat
    OBVIOUS
  <2>2. ~ (m < n)
    BY <1>2, <2>1
  <2> QED BY <2>1, <2>2
<1> QED BY <1>3 DEF Min

\* So have integers that are bounded from below.
LEMMA LeastInt ==
    ASSUME NEW S \in SUBSET Int, S # {}, NEW b \in Int, \A x \in S : b <= x
    PROVE  Min(S) \in S /\ \A x \in S : Min(S) <= x
<1> DEFINE T == {x - b : x \in S}
<1>1. T \subseteq Nat /\ T # {}
  <2>1. \A x \in S : x - b \in Nat OBVIOUS
  <2>2. QED BY <2>1
<1>2. PICK k \in T : \A m \in T : k <= m BY <1>1, Least
<1>3. PICK y \in S : k = y - b OBVIOUS
<1>4. ASSUME NEW x \in S PROVE y <= x
  <2>1. k <= x - b BY <1>2
  <2>2. QED BY <1>3, <2>1
<1>5. QED BY <1>4 DEF Min

\* Integers that are bounded from above have a greatest.
LEMMA GreatestInt ==
    ASSUME NEW S \in SUBSET Int, S # {}, NEW b \in Int, \A x \in S : x <= b
    PROVE  Max(S) \in S /\ \A x \in S : x <= Max(S)
<1> DEFINE T == {b - x : x \in S}
<1>1. T \subseteq Nat /\ T # {}
  <2>1. \A x \in S : b - x \in Nat OBVIOUS
  <2>2. QED BY <2>1
<1>2. PICK k \in T : \A m \in T : k <= m BY <1>1, Least
<1>3. PICK y \in S : k = b - y OBVIOUS
<1>4. ASSUME NEW x \in S PROVE y >= x
  <2>1. k <= b - x BY <1>2
  <2>2. QED BY <1>3, <2>1
<1>5. Max(S) \in S /\ \A x \in S : Max(S) >= x BY <1>4 DEF Max
<1>6. QED BY <1>5

\* The lesser and the greater of two.
LEMMA OfTwo ==
    ASSUME NEW x \in Int, NEW y \in Int
    PROVE  /\ Min({x, y}) = IF x <= y THEN x ELSE y
           /\ Max({x, y}) = IF x <= y THEN y ELSE x
<1>1. \A z \in {x, y} : Min({x, y}) <= z /\ Min({x, y}) \in {x, y}
  BY DEF Min
<1>2. \A z \in {x, y} : Max({x, y}) >= z /\ Max({x, y}) \in {x, y}
  BY DEF Max
<1>3. QED BY <1>1, <1>2

\* What holds at the start and goes on holding holds throughout.
LEMMA Throughout ==
    ASSUME NEW a \in Int, NEW b \in Int, NEW G, a \in G,
           \A t \in a .. b : t # a /\ t - 1 \in G => t \in G
    PROVE  \A t \in a .. b : t \in G
<1> SUFFICES ASSUME NEW t \in a .. b, t \notin G PROVE FALSE
  OBVIOUS
<1> DEFINE B == {x \in a .. b : x \notin G}
<1>1. B \in SUBSET Int /\ B # {} /\ \A x \in B : a <= x OBVIOUS
<1>2. PICK x \in B : \A y \in B : x <= y BY <1>1, LeastInt
<1>3. x # a OBVIOUS
<1>4. x - 1 \in a .. b /\ x - 1 \notin B BY <1>2, <1>3
<1>5. QED BY <1>3, <1>4

\* f begins with d, and each of its values is g of the one before.
Recursive(f, a, b, D, d, g) ==
    f \in [a .. b -> D] /\ f[a] = d /\ \A t \in a .. b : t # a => f[t] = g[<<t, f[t - 1]>>]

\* There is such a function.
LEMMA Recursion ==
    ASSUME NEW a \in Int, NEW b \in Int, a <= b, NEW D, NEW d \in D, NEW g \in [Int \X D -> D]
    PROVE  \E f : Recursive(f, a, b, D, d, g)
<1> DEFINE fits(f, c) == f[a] = d /\ \A t \in a .. c : t # a => f[t] = g[<<t, f[t - 1]>>]
           G == {c \in a .. b : \E f \in [a .. c -> D] : fits(f, c)}
<1>1. a \in G
  <2>1. [t \in a .. a |-> d] \in [a .. a -> D] /\ fits([t \in a .. a |-> d], a) OBVIOUS
  <2>2. a \in a .. b OBVIOUS
  <2> HIDE DEF fits
  <2>3. QED BY <2>1, <2>2, Zenon
<1>2. ASSUME NEW c \in a .. b, c # a, c - 1 \in G PROVE c \in G
  <2>1. PICK f \in [a .. c - 1 -> D] : fits(f, c - 1) BY <1>2
  <2> DEFINE h == [t \in a .. c |-> IF t = c THEN g[<<c, f[c - 1]>>] ELSE f[t]]
  <2>2. f[c - 1] \in D /\ g[<<c, f[c - 1]>>] \in D BY <1>2
  <2>3. h \in [a .. c -> D] BY <2>2
  <2>4. \A t \in a .. c - 1 : h[t] = f[t] OBVIOUS
  <2>5. h[c] = g[<<c, h[c - 1]>>]
    <3>1. h[c] = g[<<c, f[c - 1]>>] /\ c - 1 \in a .. c - 1 BY <1>2
    <3>2. QED BY <2>4, <3>1
  <2>6. fits(h, c)
    <3> HIDE DEF h
    <3>1. h[a] = d BY <1>2, <2>1, <2>4
    <3>2. ASSUME NEW t \in a .. c, t # a PROVE h[t] = g[<<t, h[t - 1]>>]
      <4>1. CASE t = c BY <2>5, <4>1
      <4>2. CASE t \in a .. c - 1
        <5>1. f[t] = g[<<t, f[t - 1]>>] BY <2>1, <3>2, <4>2
        <5>2. t - 1 \in a .. c - 1 /\ t \in a .. c - 1 BY <3>2, <4>2
        <5>3. QED BY <2>4, <5>1, <5>2
      <4>3. QED BY <4>1, <4>2
    <3>3. QED BY <3>1, <3>2
  <2>7. QED
    <3> HIDE DEF h
    <3>1. QED BY <2>3, <2>6
<1>3. \A c \in a .. b : c \in G
  <2> HIDE DEF G
  <2> QED BY <1>1, <1>2, Throughout
<1>4. QED BY <1>3 DEF Recursive

-----------------------------------------------------------------------------
(* Sums. *)

\* A sum is the last of the partial sums.
LEMMA PartialSums ==
    ASSUME NEW n \in Nat, NEW q \in [1 .. n -> Int]
    PROVE  \E f \in [0 .. n -> Int] :
              f[0] = 0 /\ (\A i \in 1 .. n : f[i] = f[i - 1] + q[i]) /\ total(q) = f[n]
<1> DEFINE g == [p \in Int \X Int |-> p[2] + (IF p[1] \in 1 .. n THEN q[p[1]] ELSE 0)]
           sum == CHOOSE sum : sum = [i \in 0 .. Len(q) |-> IF i = 0 THEN 0 ELSE sum[i - 1] + q[i]]
<1>1. Len(q) = n
  OBVIOUS
<1>2. g \in [Int \X Int -> Int] /\ \A x \in Int : \A i \in 1 .. n : g[<<i, x>>] = x + q[i]
  <2>1. \A i \in 1 .. n : q[i] \in Int /\ i \in Int OBVIOUS
  <2>2. \A p \in Int \X Int : p[2] + (IF p[1] \in 1 .. n THEN q[p[1]] ELSE 0) \in Int BY <2>1
  <2>3. g \in [Int \X Int -> Int] BY <2>2
  <2>4. ASSUME NEW x \in Int, NEW i \in 1 .. n PROVE g[<<i, x>>] = x + q[i]
    <3>1. <<i, x>> \in Int \X Int OBVIOUS
    <3>2. QED BY <3>1
  <2>5. QED BY <2>3, <2>4
<1>3. PICK f \in [0 .. n -> Int] : f[0] = 0 /\ \A i \in 0 .. n : i # 0 => f[i] = g[<<i, f[i - 1]>>]
  <2> HIDE DEF g
  <2>1. 0 \in Int /\ n \in Int /\ 0 <= n OBVIOUS
  <2>2. \E f : Recursive(f, 0, n, Int, 0, g) BY <1>2, <2>1, Recursion, Zenon
  <2>3. QED BY <2>2 DEF Recursive
<1>4. ASSUME NEW i \in 1 .. n PROVE f[i] = f[i - 1] + q[i]
  <2> HIDE DEF g
  <2>1. i \in 0 .. n /\ i # 0 /\ i - 1 \in 0 .. n OBVIOUS
  <2>2. f[i - 1] \in Int /\ f[i] = g[<<i, f[i - 1]>>] BY <1>3, <2>1
  <2>3. QED BY <1>2, <2>2
<1>5. f = [i \in 0 .. Len(q) |-> IF i = 0 THEN 0 ELSE f[i - 1] + q[i]]
  BY <1>1, <1>3, <1>4
<1>6. sum = [i \in 0 .. Len(q) |-> IF i = 0 THEN 0 ELSE sum[i - 1] + q[i]]
  BY <1>5
<1>7. total(q) = sum[n]
  BY <1>1 DEF total
<1>8. sum[0] = 0 /\ \A i \in 1 .. n : sum[i] = sum[i - 1] + q[i]
  <2> HIDE DEF sum
  <2> QED BY <1>1, <1>6
<1>9. sum \in [0 .. n -> Int]
  <2> DEFINE G == {i \in 0 .. n : sum[i] \in Int}
  <2> HIDE DEF sum
  <2>1. 0 \in G BY <1>8
  <2>2. \A i \in 0 .. n : i # 0 /\ i - 1 \in G => i \in G BY <1>8
  <2>3. \A i \in 0 .. n : i \in G
    <3> HIDE DEF G
    <3>1. 0 \in Int /\ n \in Int OBVIOUS
    <3>2. QED BY <2>1, <2>2, <3>1, Throughout, Zenon
  <2>4. QED BY <1>1, <1>6, <2>3
<1>10. QED BY <1>7, <1>8, <1>9

\* A sum of integers is one.
LEMMA TotalInt ==
    ASSUME NEW n \in Nat, NEW q \in [1 .. n -> Int]
    PROVE  total(q) \in Int
BY PartialSums

\* Sums are added term by term.
LEMMA TotalPlus ==
    ASSUME NEW n \in Nat, NEW p \in [1 .. n -> Int], NEW q \in [1 .. n -> Int],
           NEW r \in [1 .. n -> Int], \A i \in 1 .. n : r[i] = p[i] + q[i]
    PROVE  total(r) = total(p) + total(q)
<1>1. PICK f \in [0 .. n -> Int] : f[0] = 0 /\ (\A i \in 1 .. n : f[i] = f[i - 1] + p[i]) /\ total(p) = f[n]
  BY PartialSums
<1>2. PICK g \in [0 .. n -> Int] : g[0] = 0 /\ (\A i \in 1 .. n : g[i] = g[i - 1] + q[i]) /\ total(q) = g[n]
  BY PartialSums
<1>3. PICK h \in [0 .. n -> Int] : h[0] = 0 /\ (\A i \in 1 .. n : h[i] = h[i - 1] + r[i]) /\ total(r) = h[n]
  BY PartialSums
<1> DEFINE G == {i \in 0 .. n : h[i] = f[i] + g[i]}
<1>4. 0 \in G BY <1>1, <1>2, <1>3
<1>5. \A i \in 0 .. n : i # 0 /\ i - 1 \in G => i \in G BY <1>1, <1>2, <1>3
<1>6. \A i \in 0 .. n : i \in G
  <2> HIDE DEF G
  <2>1. 0 \in Int /\ n \in Int OBVIOUS
  <2>2. QED BY <1>4, <1>5, <2>1, Throughout, Zenon
<1>7. QED BY <1>1, <1>2, <1>3, <1>6

\* A sum of naturals is one.
LEMMA TotalNat ==
    ASSUME NEW n \in Nat, NEW q \in [1 .. n -> Int], \A i \in 1 .. n : q[i] >= 0
    PROVE  total(q) \in Nat
<1>1. PICK f \in [0 .. n -> Int] : f[0] = 0 /\ (\A i \in 1 .. n : f[i] = f[i - 1] + q[i]) /\ total(q) = f[n]
  BY PartialSums
<1> DEFINE G == {i \in 0 .. n : f[i] >= 0}
<1>2. 0 \in G BY <1>1
<1>3. \A i \in 0 .. n : i # 0 /\ i - 1 \in G => i \in G BY <1>1
<1>4. \A i \in 0 .. n : i \in G
  <2> HIDE DEF G
  <2>1. 0 \in Int /\ n \in Int OBVIOUS
  <2>2. QED BY <1>2, <1>3, <2>1, Throughout, Zenon
<1>5. QED BY <1>1, <1>4

\* A sum is at most another when its terms are.
LEMMA TotalAtMost ==
    ASSUME NEW n \in Nat, NEW p \in [1 .. n -> Int], NEW q \in [1 .. n -> Int],
           \A i \in 1 .. n : p[i] <= q[i]
    PROVE  total(p) <= total(q)
<1> DEFINE r == [i \in 1 .. n |-> q[i] - p[i]]
<1>1. r \in [1 .. n -> Int] /\ \A i \in 1 .. n : r[i] >= 0 /\ q[i] = p[i] + r[i]
  OBVIOUS
<1> HIDE DEF r
<1>2. total(r) \in Nat BY <1>1, TotalNat
<1>3. total(q) = total(p) + total(r) BY <1>1, TotalPlus
<1>4. total(p) \in Int /\ total(q) \in Int BY TotalInt
<1>5. QED BY <1>2, <1>3, <1>4

-----------------------------------------------------------------------------
(* What lies outside planned work. *)

\* How much of a span lies in a window.
Overlap(w, from, to) == Max({0, Min({to, w.to}) - Max({from, w.from})})

\* Windows in the order of time, apart, and within a period.
Apart(W, within) ==
    /\ W \in Seq([from : Int, to : Int])
    /\ \A i \in DOMAIN W : within.from <= W[i].from /\ W[i].from < W[i].to /\ W[i].to <= within.to
    /\ \A i, j \in DOMAIN W : i < j => W[i].to <= W[j].from

\* Of each window, and what is left.
Overlapping(W, from, to) == [i \in DOMAIN W |-> Overlap(W[i], from, to)]

Outside(from, to, W) == to - from - total(Overlapping(W, from, to))

\* The overlap by cases.
Shared(x, y, a, b) ==
    IF a <= x THEN IF b <= y THEN IF x <= b THEN b - x ELSE 0
                             ELSE IF x <= y THEN y - x ELSE 0
              ELSE IF b <= y THEN IF a <= b THEN b - a ELSE 0
                             ELSE IF a <= y THEN y - a ELSE 0

LEMMA OverlapIs ==
    ASSUME NEW w, w.from \in Int, w.to \in Int, NEW a \in Int, NEW b \in Int
    PROVE  Overlap(w, a, b) = Shared(w.from, w.to, a, b) /\ Overlap(w, a, b) \in Nat
<1> DEFINE e == IF b <= w.to THEN b ELSE w.to
           s == IF a <= w.from THEN w.from ELSE a
<1>1. Min({b, w.to}) = e /\ Max({a, w.from}) = s BY OfTwo
<1>2. e \in Int /\ s \in Int OBVIOUS
<1>3. Max({0, e - s}) = IF s <= e THEN e - s ELSE 0
  <2> HIDE DEF e, s
  <2>1. 0 \in Int /\ e - s \in Int BY <1>2
  <2>2. Max({0, e - s}) = IF 0 <= e - s THEN e - s ELSE 0 BY <2>1, OfTwo, Zenon
  <2>3. QED BY <1>2, <2>2
<1>4. Overlap(w, a, b) = IF s <= e THEN e - s ELSE 0 BY <1>1, <1>3 DEF Overlap
<1>5. PICK x \in Int, y \in Int : w.from = x /\ w.to = y OBVIOUS
<1>6. QED BY <1>4, <1>5 DEF Shared

\* What two spans in a row share with a window is shared by both together; and it
\* fits what of the span the window lets in.
LEMMA SharedIs ==
    ASSUME NEW x \in Int, NEW y \in Int, x < y, NEW a \in Int, NEW b \in Int, a <= b
    PROVE  \/ Shared(x, y, a, b) = 0
           \/ Shared(x, y, a, b) \in Nat /\ Shared(x, y, a, b) <= b - a /\ Shared(x, y, a, b) <= b - x
                                         /\ Shared(x, y, a, b) <= y - a /\ Shared(x, y, a, b) <= y - x
BY DEF Shared

\* What it says of them.
LEMMA ApartIs ==
    ASSUME NEW W, NEW within, Apart(W, within)
    PROVE  /\ Len(W) \in Nat /\ DOMAIN W = 1 .. Len(W)
           /\ \A i \in 1 .. Len(W) : W[i].from \in Int /\ W[i].to \in Int /\ W[i].from < W[i].to
           /\ \A i, j \in 1 .. Len(W) : i < j => W[i].to <= W[j].from
<1>1. W \in Seq([from : Int, to : Int]) BY DEF Apart
<1>2. Len(W) \in Nat /\ DOMAIN W = 1 .. Len(W) BY <1>1
<1>3. \A i \in 1 .. Len(W) : W[i] \in [from : Int, to : Int] BY <1>1, ElementOfSeq
<1>4. QED BY <1>2, <1>3 DEF Apart

\* The terms of the sum.
LEMMA Overlaps ==
    ASSUME NEW W, NEW within, Apart(W, within), NEW a \in Int, NEW b \in Int
    PROVE  /\ Overlapping(W, a, b) \in [1 .. Len(W) -> Int]
           /\ \A i \in 1 .. Len(W) : Overlapping(W, a, b)[i] = Overlap(W[i], a, b)
<1>1. DOMAIN W = 1 .. Len(W) BY ApartIs
<1>2. ASSUME NEW i \in 1 .. Len(W) PROVE Overlap(W[i], a, b) \in Int
  <2>1. W[i].from \in Int /\ W[i].to \in Int BY ApartIs
  <2>2. QED BY <2>1, OverlapIs
<1>3. QED BY <1>1, <1>2 DEF Overlapping

\* What lies outside is an integer, and that of two spans in a row is that of both.
LEMMA OutsideAdds ==
    ASSUME NEW W, NEW within, Apart(W, within),
           NEW a \in Int, NEW b \in Int, NEW c \in Int, a <= b, b <= c
    PROVE  Outside(a, b, W) \in Int /\ Outside(b, c, W) \in Int /\ Outside(a, c, W) = Outside(a, b, W) + Outside(b, c, W)
<1> DEFINE p == Overlapping(W, a, b)
           q == Overlapping(W, b, c)
           r == Overlapping(W, a, c)
           n == Len(W)
<1>1. n \in Nat BY ApartIs
<1>2. /\ p \in [1 .. n -> Int] /\ \A i \in 1 .. n : p[i] = Overlap(W[i], a, b)
      /\ q \in [1 .. n -> Int] /\ \A i \in 1 .. n : q[i] = Overlap(W[i], b, c)
      /\ r \in [1 .. n -> Int] /\ \A i \in 1 .. n : r[i] = Overlap(W[i], a, c)
  BY Overlaps
<1>3. ASSUME NEW i \in 1 .. n PROVE r[i] = p[i] + q[i]
  <2> HIDE DEF p, q, r
  <2>1. PICK x \in Int, y \in Int : W[i].from = x /\ W[i].to = y /\ x < y BY ApartIs
  <2>2. \A d, e \in Int : Overlap(W[i], d, e) = Shared(x, y, d, e) BY <2>1, OverlapIs
  <2>3. Shared(x, y, a, c) = Shared(x, y, a, b) + Shared(x, y, b, c) BY <2>1, SMT DEF Shared
  <2>4. QED BY <1>2, <2>2, <2>3
<1> HIDE DEF p, q, r, n
<1>4. total(p) \in Int /\ total(q) \in Int /\ total(r) = total(p) + total(q)
  BY <1>1, <1>2, <1>3, TotalPlus, TotalInt
<1>5. QED BY <1>4 DEF Outside, p, q, r

\* It is never negative: windows that are apart take no time twice.
LEMMA OutsideNat ==
    ASSUME NEW W, NEW within, Apart(W, within), NEW a \in Int, NEW b \in Int, a <= b
    PROVE  Outside(a, b, W) \in Nat
<1> DEFINE p == Overlapping(W, a, b)
           n == Len(W)
<1>1. n \in Nat BY ApartIs
<1>2. p \in [1 .. n -> Int] /\ \A i \in 1 .. n : p[i] = Overlap(W[i], a, b) BY Overlaps
<1> HIDE DEF p, n
<1>5. PICK f \in [0 .. n -> Int] : f[0] = 0 /\ (\A i \in 1 .. n : f[i] = f[i - 1] + p[i]) /\ total(p) = f[n]
  BY <1>1, <1>2, PartialSums
<1> DEFINE within_b(i) == f[i] <= b - a /\ f[i] <= W[i].to - a
           G == {i \in 0 .. n : f[i] <= 0 \/ (i # 0 /\ within_b(i))}
<1>6. 0 \in G BY <1>1, <1>5
<1>7. ASSUME NEW i \in 0 .. n, i # 0, i - 1 \in G PROVE i \in G
  <2>1. i \in 1 .. n /\ i - 1 \in 0 .. n BY <1>1, <1>7
  <2>2. PICK x \in Int, y \in Int : W[i].from = x /\ W[i].to = y /\ x < y BY <2>1, ApartIs DEF n
  <2>3. f[i] = f[i - 1] + Shared(x, y, a, b)
    <3>1. p[i] = Shared(x, y, a, b) BY <1>2, <2>1, <2>2, OverlapIs
    <3>2. QED BY <1>5, <2>1, <3>1
  <2>4. f[i - 1] \in Int /\ f[i] \in Int BY <1>1, <2>1
  <2>5. PICK z \in Int : /\ f[i] = f[i - 1] + z
                         /\ z = 0 \/ (z <= b - a /\ z <= b - x /\ z <= y - a /\ z <= y - x)
    <3>1. \/ Shared(x, y, a, b) = 0
          \/ Shared(x, y, a, b) \in Nat /\ Shared(x, y, a, b) <= b - a /\ Shared(x, y, a, b) <= b - x
                                        /\ Shared(x, y, a, b) <= y - a /\ Shared(x, y, a, b) <= y - x
      BY <2>2, SharedIs, Zenon
    <3>2. QED BY <2>3, <3>1
  <2>6. CASE f[i - 1] <= 0 BY <2>1, <2>2, <2>4, <2>5, <2>6
  <2>7. CASE i - 1 # 0 /\ within_b(i - 1)
    <3>1. i - 1 \in 1 .. n BY <2>1, <2>7
    <3>2. W[i - 1].to \in Int /\ W[i - 1].to <= W[i].from
      <4>1. i - 1 < i BY <2>1
      <4>2. QED BY <1>1, <2>1, <3>1, <4>1, ApartIs DEF n
    <3>3. PICK u \in Int : W[i - 1].to = u /\ u <= x BY <2>2, <3>2
    <3>4. QED BY <2>1, <2>2, <2>4, <2>5, <2>7, <3>3
  <2>8. QED BY <1>7, <2>6, <2>7
<1>8. \A i \in 0 .. n : i \in G
  <2> HIDE DEF G
  <2>1. 0 \in Int /\ n \in Int BY <1>1
  <2>2. QED BY <1>6, <1>7, <2>1, Throughout, Zenon
<1>9. f[n] \in Int /\ f[n] <= b - a BY <1>1, <1>8
<1>10. QED BY <1>5, <1>9 DEF Outside, p

\* It is at most the span.
LEMMA OutsideAtMost ==
    ASSUME NEW W, NEW within, Apart(W, within), NEW a \in Int, NEW b \in Int
    PROVE  Outside(a, b, W) <= b - a
<1> DEFINE p == Overlapping(W, a, b)
           n == Len(W)
<1>1. n \in Nat BY ApartIs
<1>2. p \in [1 .. n -> Int] /\ \A i \in 1 .. n : p[i] = Overlap(W[i], a, b) BY Overlaps
<1>3. ASSUME NEW i \in 1 .. n PROVE p[i] >= 0
  <2>1. W[i].from \in Int /\ W[i].to \in Int BY ApartIs
  <2>2. Overlap(W[i], a, b) \in Nat BY <2>1, OverlapIs
  <2>3. QED BY <1>2, <2>2
<1> HIDE DEF p, n
<1>4. total(p) \in Nat BY <1>1, <1>2, <1>3, TotalNat
<1>5. QED BY <1>4 DEF Outside, p

\* What the code computes is what lies outside.
LEMMA DurationOutside ==
    ASSUME NEW W, NEW within, Apart(W, within), NEW a \in Int, NEW b \in Int, a <= b
    PROVE  durationOutside(a, b, W) = Outside(a, b, W) /\ durationOutside(a, b, W) \in Nat
<1>1. Outside(a, b, W) \in Nat BY OutsideNat
<1>2. durationOutside(a, b, W) = Max({0, Outside(a, b, W)}) BY DEF durationOutside, Outside, Overlapping, Overlap
<1>3. QED BY <1>1, <1>2, OfTwo

-----------------------------------------------------------------------------
(* The count. *)

\* Spans in the order of time, between two instants.
InOrder(spans, R, a, b) ==
    /\ spans \in Seq(R)
    /\ \A i \in DOMAIN spans : /\ spans[i].from \in Int /\ spans[i].to \in Int
                               /\ a <= spans[i].from /\ spans[i].from <= spans[i].to /\ spans[i].to <= b
    /\ \A i, j \in DOMAIN spans : i < j => spans[i].to <= spans[j].from

Segments ==
    {s \in [from : Int, to : Int, down : Nat, maintenance : Nat, unknown : Nat,
            definite : BOOLEAN, fromSilence : BOOLEAN] : s.down + s.maintenance + s.unknown <= Scale}

\* The segments of a window.
Placed(segs, window) == InOrder(segs, Segments, window.from, window.to)

\* What it says of them.
LEMMA PlacedIs ==
    ASSUME NEW segs, NEW window, Placed(segs, window)
    PROVE  /\ Len(segs) \in Nat /\ DOMAIN segs = 1 .. Len(segs)
           /\ \A i \in 1 .. Len(segs) :
                /\ segs[i].from \in Int /\ segs[i].to \in Int
                /\ segs[i].down \in Nat /\ segs[i].maintenance \in Nat /\ segs[i].unknown \in Nat
                /\ segs[i].down + segs[i].maintenance + segs[i].unknown <= Scale
                /\ window.from <= segs[i].from /\ segs[i].from <= segs[i].to /\ segs[i].to <= window.to
           /\ \A i, j \in 1 .. Len(segs) : i < j => segs[i].to <= segs[j].from
<1>1. segs \in Seq(Segments) BY DEF Placed, InOrder
<1>2. Len(segs) \in Nat /\ DOMAIN segs = 1 .. Len(segs) BY <1>1
<1>3. \A i \in 1 .. Len(segs) : segs[i] \in Segments BY <1>1, ElementOfSeq
<1>4. QED BY <1>2, <1>3 DEF Placed, InOrder, Segments

\* One more span at the end.
LEMMA OneMore ==
    ASSUME NEW R, NEW s, NEW a \in Int, NEW b \in Int, NEW c \in Int, a <= b, b <= c, InOrder(s, R, a, b),
           NEW e \in R, e.from \in Int, e.to \in Int, b <= e.from, e.from <= e.to, e.to <= c
    PROVE  InOrder(Append(s, e), R, a, c)
<1> DEFINE k == Len(s)
           N == Append(s, e)
<1>1. s \in Seq(R) /\ k \in Nat /\ DOMAIN s = 1 .. k BY DEF InOrder
<1>2. /\ \A i \in 1 .. k : /\ s[i].from \in Int /\ s[i].to \in Int
                           /\ a <= s[i].from /\ s[i].from <= s[i].to /\ s[i].to <= b
      /\ \A i, j \in 1 .. k : i < j => s[i].to <= s[j].from
  BY <1>1 DEF InOrder
<1>3. /\ N \in Seq(R) /\ Len(N) = k + 1 /\ DOMAIN N = 1 .. k + 1
      /\ \A i \in 1 .. k : N[i] = s[i]
      /\ N[k + 1] = e
  <2>1. N \in Seq(R) BY <1>1
  <2>2. Len(N) = k + 1 /\ (\A i \in 1 .. k : N[i] = s[i]) /\ N[k + 1] = e BY <1>1, AppendProperties
  <2>3. QED BY <2>1, <2>2, LenProperties
<1> HIDE DEF k, N
<1>4. ASSUME NEW i \in 1 .. k + 1
      PROVE  /\ N[i].from \in Int /\ N[i].to \in Int
             /\ a <= N[i].from /\ N[i].from <= N[i].to /\ N[i].to <= c
  <2>1. CASE i = k + 1 BY <1>3, <2>1
  <2>2. CASE i \in 1 .. k
    <3>1. N[i] = s[i] BY <1>3, <2>2
    <3>2. QED BY <1>2, <2>2, <3>1
  <2>3. QED BY <1>1, <2>1, <2>2
<1>5. ASSUME NEW i \in 1 .. k + 1, NEW j \in 1 .. k + 1, i < j PROVE N[i].to <= N[j].from
  <2>1. i \in 1 .. k /\ N[i] = s[i] BY <1>1, <1>3, <1>5
  <2>2. CASE j \in 1 .. k BY <1>2, <1>3, <1>5, <2>1, <2>2
  <2>3. CASE j = k + 1 BY <1>2, <1>3, <2>1, <2>3
  <2>4. QED BY <1>1, <2>2, <2>3
<1>6. QED BY <1>3, <1>4, <1>5 DEF InOrder, N

\* Spans that are in order until then are so later.
LEMMA Later ==
    ASSUME NEW R, NEW s, NEW a \in Int, NEW b \in Int, NEW c \in Int, b <= c, InOrder(s, R, a, b)
    PROVE  InOrder(s, R, a, c)
<1>1. \A i \in DOMAIN s : s[i].to <= b /\ s[i].to \in Int BY DEF InOrder
<1>2. \A i \in DOMAIN s : s[i].to <= c BY <1>1
<1>3. QED BY <1>2 DEF InOrder

\* The shares of a span that are known fit into it.
LEMMA Shares ==
    ASSUME NEW t \in Nat, NEW m \in Int, NEW u \in Nat, NEW S \in Nat
    PROVE  /\ t * (S - m - u) \in Int /\ t * m \in Int /\ t * S \in Int
           /\ t * (S - m - u) + t * m <= t * S
<1>1. t * (S - m - u) + t * m = t * S - t * u OBVIOUS
<1>2. t * u \in Nat OBVIOUS
<1>3. QED BY <1>1, <1>2

\* What of each segment is measured, and what is planned, outside the windows.
Weighed(m, p, segs, X) == \A i \in 1 .. Len(segs) :
    LET t == Outside(segs[i].from, segs[i].to, X) IN
    m[i] = t * (Scale - segs[i].maintenance - segs[i].unknown) /\ p[i] = t * segs[i].maintenance

\* Together it fits into what lies outside of the whole window.
LEMMA MeasuredFits ==
    ASSUME NEW segs, NEW window, NEW X, Placed(segs, window), Apart(X, window), Scale \in Nat,
           NEW a \in Int, NEW b \in Int, window.from = a, window.to = b, a <= b, NEW k, k = Len(segs),
           NEW m \in [1 .. k -> Int], NEW p \in [1 .. k -> Int], Weighed(m, p, segs, X)
    PROVE  total(m) \in Int /\ total(p) \in Int /\ total(m) + total(p) <= Scale * Outside(a, b, X)
<1> PICK S \in Nat : S = Scale OBVIOUS
<1>1. /\ k \in Nat
      /\ \A i \in 1 .. k : /\ segs[i].from \in Int /\ segs[i].to \in Int
                           /\ a <= segs[i].from /\ segs[i].from <= segs[i].to /\ segs[i].to <= b
  BY PlacedIs
<1>2. PICK f \in [0 .. k -> Int] : f[0] = 0 /\ (\A i \in 1 .. k : f[i] = f[i - 1] + m[i]) /\ total(m) = f[k]
  BY <1>1, PartialSums
<1>3. PICK g \in [0 .. k -> Int] : g[0] = 0 /\ (\A i \in 1 .. k : g[i] = g[i - 1] + p[i]) /\ total(p) = g[k]
  BY <1>1, PartialSums
<1> DEFINE at(i) == IF i = 0 THEN a ELSE segs[i].to
           G == {i \in 0 .. k : f[i] + g[i] <= S * Outside(a, at(i), X)}
<1>4. 0 \in G
  <2>1. Outside(a, a, X) \in Nat BY OutsideNat
  <2>2. 0 <= S * Outside(a, a, X) BY <2>1
  <2>3. QED BY <1>1, <1>2, <1>3, <2>2
<1>5. ASSUME NEW i \in 0 .. k, i # 0, i - 1 \in G PROVE i \in G
  <2>1. i \in 1 .. k /\ i - 1 \in 0 .. k BY <1>1, <1>5
  <2>2. PICK u \in Int, v \in Int : segs[i].from = u /\ segs[i].to = v /\ u <= v /\ a <= u
    BY <1>1, <2>1
  <2>3. PICK z \in Int : at(i - 1) = z /\ a <= z /\ z <= u
    <3>1. CASE i - 1 = 0 BY <2>2, <3>1
    <3>2. CASE i - 1 # 0
      <4>1. i - 1 \in 1 .. k /\ i - 1 < i BY <2>1, <3>2
      <4>2. segs[i - 1].to \in Int /\ segs[i - 1].to <= segs[i].from /\ a <= segs[i - 1].from
            /\ segs[i - 1].from \in Int /\ segs[i - 1].from <= segs[i - 1].to
        BY <2>1, <4>1, PlacedIs
      <4>3. QED BY <2>2, <3>2, <4>2
    <3>3. QED BY <3>1, <3>2
  <2>4. PICK o \in Nat, w \in Nat, t \in Nat :
           Outside(a, z, X) = o /\ Outside(z, u, X) = w /\ Outside(u, v, X) = t /\ Outside(a, v, X) = o + w + t
    <3>1. Outside(a, z, X) \in Nat /\ Outside(z, u, X) \in Nat /\ Outside(u, v, X) \in Nat
      BY <2>2, <2>3, OutsideNat
    <3>2. Outside(a, u, X) = Outside(a, z, X) + Outside(z, u, X) BY <2>2, <2>3, OutsideAdds
    <3>3. Outside(a, v, X) = Outside(a, u, X) + Outside(u, v, X) BY <2>2, <2>3, OutsideAdds
    <3>4. QED BY <3>1, <3>2, <3>3
  <2>5. m[i] + p[i] <= t * S
    <3>1. segs[i].maintenance \in Int /\ segs[i].unknown \in Nat BY <2>1, PlacedIs
    <3>2. m[i] = t * (S - segs[i].maintenance - segs[i].unknown) /\ p[i] = t * segs[i].maintenance
      BY <2>1, <2>2, <2>4 DEF Weighed
    <3>3. QED BY <3>1, <3>2, Shares
  <2>6. f[i - 1] + g[i - 1] <= S * o BY <1>5, <2>3, <2>4
  <2>7. f[i] = f[i - 1] + m[i] /\ g[i] = g[i - 1] + p[i] /\ f[i - 1] \in Int /\ g[i - 1] \in Int
        /\ m[i] \in Int /\ p[i] \in Int
    BY <1>2, <1>3, <2>1
  <2>8. at(i) = v BY <1>5, <2>2
  <2>9. S * (o + w + t) = S * o + S * w + t * S /\ S * w \in Nat /\ S * o \in Int /\ t * S \in Int OBVIOUS
  <2>10. f[i] + g[i] <= S * Outside(a, at(i), X)
    <3>1. PICK c \in Int, d \in Nat, e \in Int : S * o = c /\ S * w = d /\ t * S = e BY <2>9
    <3>2. S * Outside(a, at(i), X) = c + d + e BY <2>4, <2>8, <2>9, <3>1
    <3>3. m[i] + p[i] <= e /\ f[i - 1] + g[i - 1] <= c BY <2>5, <2>6, <3>1
    <3>4. f[i] + g[i] <= c + e BY <2>7, <3>3
    <3>5. QED BY <2>7, <3>2, <3>4
  <2>11. QED BY <2>1, <2>10
<1>6. \A i \in 0 .. k : i \in G
  <2> HIDE DEF G
  <2>1. 0 \in Int /\ k \in Int BY <1>1
  <2>2. QED BY <1>4, <1>5, <2>1, Throughout, Zenon
<1>7. PICK z \in Int : at(k) = z /\ a <= z /\ z <= b
  <2>1. CASE k = 0 BY <2>1
  <2>2. CASE k # 0
    <3>1. k \in 1 .. k BY <1>1, <2>2
    <3>2. QED BY <1>1, <2>2, <3>1
  <2>3. QED BY <2>1, <2>2
<1>8. PICK o \in Nat, w \in Nat : Outside(a, z, X) = o /\ Outside(a, b, X) = o + w
  <2>1. Outside(a, z, X) \in Nat /\ Outside(z, b, X) \in Nat BY <1>7, OutsideNat
  <2>2. Outside(a, b, X) = Outside(a, z, X) + Outside(z, b, X) BY <1>7, OutsideAdds
  <2>3. QED BY <2>1, <2>2
<1>9. f[k] + g[k] <= S * o
  <2>1. k \in G BY <1>1, <1>6
  <2>2. QED BY <1>7, <1>8, <2>1
<1>10. S * (o + w) = S * o + S * w /\ S * w \in Nat /\ S * o \in Int OBVIOUS
<1>11. f[k] \in Int /\ g[k] \in Int BY <1>1
<1>12. PICK c \in Int, d \in Nat : S * o = c /\ S * w = d BY <1>10
<1>13. S * Outside(a, b, X) = c + d BY <1>8, <1>10, <1>12
<1>14. PICK x \in Int : f[k] + g[k] = x /\ x <= c BY <1>9, <1>11, <1>12
<1>15. f[k] + g[k] <= S * Outside(a, b, X) BY <1>13, <1>14
<1>16. QED BY <1>2, <1>3, <1>11, <1>15

\* The four numbers of any segments in a window are those of all of it, and none is
\* negative.
LEMMA CountAddsUp ==
    ASSUME ConstantsOK, NEW segs, NEW window, NEW X, Placed(segs, window), Apart(X, window),
           NEW a \in Int, NEW b \in Int, window.from = a, window.to = b, a <= b
    PROVE  LET n == count(segs, window, X) IN
           /\ n.up >= 0 /\ n.down >= 0 /\ n.excluded >= 0 /\ n.unknown >= 0
           /\ n.up + n.down + n.excluded + n.unknown = (b - a) * Scale
<1> DEFINE k == Len(segs)
           span(s) == durationOutside(s.from, s.to, X)
           confirmed == {r \in failingRuns(segs) : r.length >= debounce}
           charged(s) == s.fromSilence \/ ~s.definite
                         \/ \E r \in confirmed : r.start <= s.from /\ s.to <= r.end
           m == [i \in DOMAIN segs |-> span(segs[i]) * (Scale - segs[i].maintenance - segs[i].unknown)]
           p == [i \in DOMAIN segs |-> span(segs[i]) * segs[i].maintenance]
           d == [i \in DOMAIN segs |-> IF charged(segs[i]) THEN span(segs[i]) * segs[i].down ELSE 0]
           n == count(segs, window, X)
           all == (b - a) * Scale
           outside == durationOutside(a, b, X) * Scale
<1>1. n = [up |-> total(m) - total(d), down |-> total(d), excluded |-> all - outside + total(p),
           unknown |-> Max({0, outside - ((total(m) - total(d)) + total(d)) - total(p)})]
  BY DEF count
<1>2. /\ k \in Nat /\ DOMAIN segs = 1 .. k
      /\ \A i \in 1 .. k : /\ segs[i].from \in Int /\ segs[i].to \in Int /\ segs[i].from <= segs[i].to
                           /\ segs[i].down \in Nat /\ segs[i].maintenance \in Nat /\ segs[i].unknown \in Nat
                           /\ segs[i].down + segs[i].maintenance + segs[i].unknown <= Scale
  BY PlacedIs
<1>3. Scale \in Nat BY DEF ConstantsOK
<1>4. \A i \in 1 .. k : span(segs[i]) = Outside(segs[i].from, segs[i].to, X) /\ span(segs[i]) \in Nat
  BY <1>2, DurationOutside
<1>5. PICK c \in Nat : durationOutside(a, b, X) = c /\ Outside(a, b, X) = c
  BY DurationOutside
<1> HIDE DEF span, charged, k
<1>6. m \in [1 .. k -> Int] /\ p \in [1 .. k -> Int] /\ d \in [1 .. k -> Int]
  <2>1. ASSUME NEW i \in 1 .. k
        PROVE  /\ span(segs[i]) * (Scale - segs[i].maintenance - segs[i].unknown) \in Int
               /\ span(segs[i]) * segs[i].maintenance \in Int
               /\ (IF charged(segs[i]) THEN span(segs[i]) * segs[i].down ELSE 0) \in Int
    BY <1>2, <1>3, <1>4
  <2>2. QED BY <1>2, <2>1
<1>7. Weighed(m, p, segs, X) BY <1>2, <1>4 DEF Weighed, k
<1> HIDE DEF m, p, d, n
<1>8. total(m) \in Int /\ total(p) \in Int /\ total(m) + total(p) <= Scale * Outside(a, b, X)
  <2>1. k = Len(segs) BY DEF k
  <2>2. QED BY <1>3, <1>6, <1>7, <2>1, MeasuredFits, Zenon
<1>9. total(d) \in Nat /\ total(p) \in Nat /\ total(d) <= total(m)
  <2>1. ASSUME NEW i \in 1 .. k PROVE d[i] >= 0 /\ p[i] >= 0 /\ d[i] <= m[i]
    <3>1. PICK t \in Nat, u \in Nat, v \in Nat, w \in Nat :
             /\ span(segs[i]) = t /\ segs[i].down = u /\ segs[i].maintenance = v /\ segs[i].unknown = w
             /\ u + v + w <= Scale
      BY <1>2, <1>4
    <3>2. m[i] = t * (Scale - v - w) /\ p[i] = t * v /\ (d[i] = t * u \/ d[i] = 0)
      BY <1>2, <3>1 DEF m, p, d
    <3>3. PICK x \in Nat : Scale - v - w = u + x
      <4>1. PICK S \in Nat : Scale = S /\ u + v + w <= S BY <1>3, <3>1
      <4>2. S - v - w = u + (S - u - v - w) /\ S - u - v - w \in Nat BY <4>1
      <4>3. QED BY <4>1, <4>2
    <3>4. PICK f \in Nat, g \in Nat, h \in Nat : t * u = f /\ t * v = g /\ t * x = h /\ t * (u + x) = f + h
      <4>1. t * u \in Nat /\ t * v \in Nat /\ t * x \in Nat /\ t * (u + x) = t * u + t * x OBVIOUS
      <4>2. QED BY <4>1
    <3>5. m[i] = f + h /\ p[i] = g /\ (d[i] = f \/ d[i] = 0) BY <3>2, <3>3, <3>4
    <3>6. QED BY <3>5
  <2>2. total(d) \in Nat /\ total(p) \in Nat BY <1>2, <1>6, <2>1, TotalNat
  <2>3. total(d) <= total(m) BY <1>2, <1>6, <2>1, TotalAtMost
  <2>4. QED BY <2>2, <2>3
<1>10. PICK o \in Int : outside = o /\ total(m) + total(p) <= o BY <1>3, <1>5, <1>8
<1>11. PICK e \in Int : all = e /\ o <= e
  <2>1. PICK z \in Nat, S \in Nat : b - a = c + z /\ Scale = S
    <3>1. c <= b - a BY <1>5, OutsideAtMost
    <3>2. QED BY <1>3, <3>1
  <2>2. (c + z) * S = c * S + z * S /\ c * S \in Nat /\ z * S \in Nat OBVIOUS
  <2>3. QED BY <1>5, <1>10, <2>1, <2>2
<1>12. PICK x \in Int, y \in Nat, z \in Nat : total(m) = x /\ total(p) = y /\ total(d) = z /\ z <= x
  BY <1>8, <1>9
<1>13. Max({0, o - ((x - z) + z) - y}) = o - x - y /\ o - x - y >= 0
  <2>1. PICK v \in Nat : o - ((x - z) + z) - y = v /\ o - x - y = v BY <1>10, <1>12
  <2>2. Max({0, v}) = v
    <3>1. 0 \in Int /\ v \in Int OBVIOUS
    <3>2. Max({0, v}) = IF 0 <= v THEN v ELSE 0 BY <3>1, OfTwo, Zenon
    <3>3. QED BY <3>2
  <2>3. QED BY <2>1, <2>2
<1> HIDE DEF all, outside
<1>14. n.up = x - z /\ n.down = z /\ n.excluded = e - o + y /\ n.unknown = o - x - y
  BY <1>1, <1>10, <1>11, <1>12, <1>13
<1>15. /\ n.up >= 0 /\ n.down >= 0 /\ n.excluded >= 0 /\ n.unknown >= 0
       /\ n.up + n.down + n.excluded + n.unknown = e
  BY <1>11, <1>12, <1>13, <1>14
<1>16. QED BY <1>11, <1>15 DEF n, all

-----------------------------------------------------------------------------
(* The windows, clamped and merged. *)

Windows == [from : Int, to : Int]

\* What a window is merged into.
Merge(M, from, to) ==
    IF M # <<>> /\ from <= Last(M).to
    THEN [M EXCEPT ![Len(M)].to = Max({@, to})]
    ELSE Append(M, [from |-> from, to |-> to])

\* A window that begins where one of the others ends, or before, makes it longer.
LEMMA MergeLast ==
    ASSUME NEW M \in Seq(Windows), M # <<>>, NEW y \in Int
    PROVE  LET N == [M EXCEPT ![Len(M)].to = Max({@, y})] IN
           /\ N \in Seq(Windows) /\ Len(N) = Len(M)
           /\ \A i \in 1 .. Len(M) : i # Len(M) => N[i] = M[i]
           /\ N[Len(M)].from = M[Len(M)].from
           /\ N[Len(M)].to = IF M[Len(M)].to <= y THEN y ELSE M[Len(M)].to
<1> DEFINE N == [M EXCEPT ![Len(M)].to = Max({@, y})]
<1>1. PICK k \in Nat : k = Len(M) /\ k \in 1 .. k /\ DOMAIN M = 1 .. k
  BY EmptySeq, LenProperties
<1>2. PICK f \in Int, t \in Int : M[k] = [from |-> f, to |-> t]
  <2>1. M[k] \in Windows BY <1>1, ElementOfSeq
  <2>2. QED BY <2>1 DEF Windows
<1>3. PICK v \in Int : Max({t, y}) = v /\ v = IF t <= y THEN y ELSE t BY OfTwo
<1>4. N = [i \in 1 .. k |-> IF i = k THEN [from |-> f, to |-> v] ELSE M[i]]
  <2>1. Max({M[k].to, y}) = v BY <1>2, <1>3
  <2>2. N = [M EXCEPT ![k] = [M[k] EXCEPT !.to = v]]
    <3>1. N = [M EXCEPT ![k] = [M[k] EXCEPT !.to = Max({M[k].to, y})]] BY <1>1
    <3>2. QED BY <2>1, <3>1
  <2>3. [M[k] EXCEPT !.to = v] = [from |-> f, to |-> v] BY <1>2
  <2> HIDE DEF N
  <2>4. QED BY <1>1, <2>2, <2>3
<1>5. \A i \in 1 .. k : (IF i = k THEN [from |-> f, to |-> v] ELSE M[i]) \in Windows
  BY <1>1, ElementOfSeq DEF Windows
<1> HIDE DEF N
<1>6. N \in [1 .. k -> Windows] BY <1>4, <1>5
<1>7. N \in Seq(Windows) /\ Len(N) = k BY <1>6, IsASeq, LenProperties
<1>8. \A i \in 1 .. k : N[i] = IF i = k THEN [from |-> f, to |-> v] ELSE M[i] BY <1>4
<1>9. (\A i \in 1 .. k : i # k => N[i] = M[i]) /\ N[k] = [from |-> f, to |-> v] BY <1>1, <1>8
<1>10. QED BY <1>1, <1>2, <1>3, <1>7, <1>9 DEF N

\* Merging keeps them apart.
LEMMA MergeApart ==
    ASSUME NEW M, NEW window, NEW a \in Int, NEW b \in Int, window.from = a, window.to = b, Apart(M, window),
           NEW x \in Int, NEW y \in Int, a <= x, x < y, y <= b
    PROVE  Apart(Merge(M, x, y), window) /\ Merge(M, x, y) \in Seq(Windows)
<1> DEFINE k == Len(M)
<1>1. M \in Seq(Windows) /\ k \in Nat /\ DOMAIN M = 1 .. k BY ApartIs DEF Apart, Windows
<1>2. /\ \A i \in 1 .. k : /\ M[i].from \in Int /\ M[i].to \in Int /\ M[i].from < M[i].to
                           /\ a <= M[i].from /\ M[i].to <= b
      /\ \A i, j \in 1 .. k : i < j => M[i].to <= M[j].from
  BY <1>1, ApartIs DEF Apart
<1>3. CASE M # <<>> /\ x <= Last(M).to
  <2> DEFINE N == [M EXCEPT ![Len(M)].to = Max({@, y})]
  <2>1. Merge(M, x, y) = N BY <1>3 DEF Merge
  <2>2. /\ N \in Seq(Windows) /\ Len(N) = k
        /\ \A i \in 1 .. k : i # k => N[i] = M[i]
        /\ N[k].from = M[k].from
        /\ N[k].to = IF M[k].to <= y THEN y ELSE M[k].to
    BY <1>1, <1>3, MergeLast
  <2> HIDE DEF N, k
  <2>3. DOMAIN N = 1 .. k BY <2>2
  <2>4. ASSUME NEW i \in 1 .. k PROVE a <= N[i].from /\ N[i].from < N[i].to /\ N[i].to <= b
    <3>1. CASE i = k BY <1>2, <2>2, <3>1
    <3>2. CASE i # k BY <1>2, <2>2, <3>2
    <3>3. QED BY <3>1, <3>2
  <2>5. ASSUME NEW i \in 1 .. k, NEW j \in 1 .. k, i < j PROVE N[i].to <= N[j].from
    <3>1. N[i] = M[i] /\ M[i].to <= M[j].from BY <1>1, <1>2, <2>2, <2>5
    <3>2. N[j].from = M[j].from BY <2>2
    <3>3. QED BY <3>1, <3>2
  <2>6. Apart(N, window) BY <2>2, <2>3, <2>4, <2>5 DEF Apart, Windows
  <2>7. QED BY <2>1, <2>2, <2>6
<1>4. CASE ~(M # <<>> /\ x <= Last(M).to)
  <2> DEFINE w == [from |-> x, to |-> y]
             N == Append(M, w)
  <2>1. Merge(M, x, y) = N BY <1>4 DEF Merge
  <2>2. w \in Windows BY DEF Windows
  <2>3. /\ N \in Seq(Windows) /\ Len(N) = k + 1 /\ DOMAIN N = 1 .. k + 1
        /\ \A i \in 1 .. k : N[i] = M[i]
        /\ N[k + 1] = w
    <3> HIDE DEF w
    <3>1. N \in Seq(Windows) BY <1>1, <2>2
    <3>2. Len(N) = k + 1 /\ (\A i \in 1 .. k : N[i] = M[i]) /\ N[k + 1] = w BY <1>1, <2>2, AppendProperties
    <3>3. QED BY <3>1, <3>2, LenProperties
  <2>4. k # 0 => M[k].to < x
    <3>1. SUFFICES ASSUME k # 0 PROVE M[k].to < x OBVIOUS
    <3>2. M # <<>> /\ k \in 1 .. k BY <1>1, <3>1
    <3>3. Last(M) = M[k] BY DEF Last
    <3>4. M[k].to \in Int BY <1>2, <3>2
    <3>5. QED BY <1>4, <3>2, <3>3, <3>4
  <2>5. w.from = x /\ w.to = y OBVIOUS
  <2> HIDE DEF N, k, w
  <2>6. ASSUME NEW i \in 1 .. k + 1 PROVE a <= N[i].from /\ N[i].from < N[i].to /\ N[i].to <= b
    <3>1. CASE i = k + 1 BY <2>3, <2>5, <3>1
    <3>2. CASE i \in 1 .. k BY <1>2, <2>3, <3>2
    <3>3. QED BY <1>1, <3>1, <3>2
  <2>7. ASSUME NEW i \in 1 .. k + 1, NEW j \in 1 .. k + 1, i < j PROVE N[i].to <= N[j].from
    <3>1. i \in 1 .. k /\ N[i] = M[i] /\ k \in 1 .. k /\ k # 0 BY <1>1, <2>3, <2>7
    <3>2. CASE j \in 1 .. k BY <1>2, <2>3, <2>7, <3>1, <3>2
    <3>3. CASE j = k + 1
      <4>1. M[i].to <= M[k].to
        <5>1. CASE i = k BY <1>2, <5>1
        <5>2. CASE i < k
          <6>1. M[i].to <= M[k].from /\ M[k].from < M[k].to BY <1>2, <3>1, <5>2
          <6>2. QED BY <1>2, <3>1, <6>1
        <5>3. QED BY <1>1, <3>1, <5>1, <5>2
      <4>2. M[i].to \in Int /\ M[k].to \in Int BY <1>2, <3>1
      <4>3. QED BY <2>3, <2>4, <2>5, <3>1, <3>3, <4>1, <4>2
    <3>4. QED BY <1>1, <3>2, <3>3
  <2>8. Apart(N, window) BY <2>3, <2>6, <2>7 DEF Apart, Windows
  <2>9. QED BY <2>1, <2>3, <2>8
<1>5. QED BY <1>3, <1>4

\* The windows of a control, clamped and merged, are apart.
LEMMA WindowsApart ==
    ASSUME NEW W, \A w \in W : w.from \in Int /\ w.to \in Int,
           NEW window, NEW a \in Int, NEW b \in Int, window.from = a, window.to = b, a <= b
    PROVE  Apart(normaliseWindows(W, window), window)
<1> DEFINE clamp(w) == [from |-> Max({w.from, window.from}), to |-> Min({w.to, window.to})]
           clamped == {w \in {clamp(w) : w \in W} : w.from < w.to}
           merge(M, from, to) ==
               IF M # <<>> /\ from <= Last(M).to
               THEN [M EXCEPT ![Len(M)].to = Max({@, to})]
               ELSE Append(M, [from |-> from, to |-> to])
           begun(t) == {w \in clamped : w.from = t - 1}
           longest(t) == Max({w.to : w \in begun(t)})
           merged == CHOOSE merged : merged = [t \in window.from .. window.to |->
                        IF t = window.from THEN <<>>
                        ELSE IF begun(t) = {} THEN merged[t - 1]
                             ELSE merge(merged[t - 1], t - 1, longest(t))]
           g == [p \in Int \X Seq(Windows) |->
                    IF p[1] \in a .. b /\ begun(p[1]) # {} /\ p[1] # a /\ Apart(p[2], window)
                    THEN Merge(p[2], p[1] - 1, longest(p[1])) ELSE p[2]]
<1>1. normaliseWindows(W, window) = merged[b]
  BY DEF normaliseWindows
<1>2. ASSUME NEW t \in a .. b, begun(t) # {}
      PROVE  longest(t) \in Int /\ t - 1 < longest(t) /\ longest(t) <= b
  <2> DEFINE E == {w.to : w \in begun(t)}
  <2>1. ASSUME NEW w \in begun(t) PROVE w.to \in Int /\ w.from \in Int /\ t - 1 < w.to /\ w.to <= b
    <3>1. PICK c \in W : w = clamp(c) OBVIOUS
    <3>2. c.from \in Int /\ c.to \in Int OBVIOUS
    <3>3. w.to = Min({c.to, b}) /\ w.from = Max({c.from, a}) BY <3>1
    <3>4. w.from < w.to /\ w.from = t - 1 OBVIOUS
    <3> HIDE DEF begun
    <3>5. QED BY <3>2, <3>3, <3>4, OfTwo
  <2> HIDE DEF begun
  <2>2. E \in SUBSET Int /\ E # {} /\ \A e \in E : e <= b /\ t - 1 < e BY <1>2, <2>1
  <2> HIDE DEF E
  <2>3. Max(E) \in E BY <2>2, GreatestInt
  <2>4. QED BY <2>2, <2>3 DEF E
<1> HIDE DEF begun, longest
<1> DEFINE next(M, t) == IF begun(t) = {} THEN M ELSE Merge(M, t - 1, longest(t))
<1>3. ASSUME NEW M \in Seq(Windows), NEW t \in a .. b, t # a, Apart(M, window)
      PROVE  Apart(next(M, t), window) /\ next(M, t) \in Seq(Windows) /\ g[<<t, M>>] = next(M, t)
  <2>1. g[<<t, M>>] = next(M, t)
    <3>1. <<t, M>> \in Int \X Seq(Windows) BY <1>3
    <3>2. QED BY <1>3, <3>1
  <2> HIDE DEF g
  <2>2. CASE begun(t) = {} BY <1>3, <2>1, <2>2
  <2>3. CASE begun(t) # {}
    <3>1. PICK x \in Int, y \in Int : t - 1 = x /\ longest(t) = y /\ a <= x /\ x < y /\ y <= b
      BY <1>2, <1>3, <2>3
    <3>2. Apart(Merge(M, x, y), window) /\ Merge(M, x, y) \in Seq(Windows) BY <1>3, <3>1, MergeApart
    <3>3. QED BY <2>1, <2>3, <3>1, <3>2
  <2>4. QED BY <2>2, <2>3
<1>4. g \in [Int \X Seq(Windows) -> Seq(Windows)]
  <2>1. ASSUME NEW t \in Int, NEW M \in Seq(Windows) PROVE g[<<t, M>>] \in Seq(Windows)
    <3>1. CASE t \in a .. b /\ t # a /\ Apart(M, window) BY <1>3, <3>1
    <3>2. CASE ~(t \in a .. b /\ t # a /\ Apart(M, window)) BY <3>2
    <3>3. QED BY <3>1, <3>2
  <2>2. QED BY <2>1
<1>5. PICK f : Recursive(f, a, b, Seq(Windows), <<>>, g)
  <2> HIDE DEF g
  <2>1. <<>> \in Seq(Windows) BY EmptySeq
  <2>2. QED BY <1>4, <2>1, Recursion, Zenon
<1>6. /\ f \in [a .. b -> Seq(Windows)] /\ f[a] = <<>>
      /\ \A t \in a .. b : t # a => f[t] = g[<<t, f[t - 1]>>]
  BY <1>5 DEF Recursive
<1> HIDE DEF g
<1>7. \A t \in a .. b : Apart(f[t], window)
  <2> DEFINE G == {t \in a .. b : Apart(f[t], window)}
  <2>1. a \in G
    <3>1. Apart(<<>>, window) BY EmptySeq DEF Apart
    <3>2. QED BY <1>6, <3>1
  <2>2. ASSUME NEW t \in a .. b, t # a, t - 1 \in G PROVE t \in G
    <3>1. Apart(f[t - 1], window) /\ f[t - 1] \in Seq(Windows) BY <1>6, <2>2
    <3>2. f[t] = next(f[t - 1], t) BY <1>3, <1>6, <2>2, <3>1
    <3>3. QED BY <1>3, <2>2, <3>1, <3>2
  <2>3. \A t \in a .. b : t \in G
    <3> HIDE DEF G
    <3> QED BY <2>1, <2>2, Throughout, Zenon
  <2>4. QED BY <2>3
<1>8. \A t \in a .. b : t # a => f[t] = next(f[t - 1], t)
  <2>1. SUFFICES ASSUME NEW t \in a .. b, t # a PROVE f[t] = next(f[t - 1], t) OBVIOUS
  <2>2. t - 1 \in a .. b BY <2>1
  <2>3. Apart(f[t - 1], window) /\ f[t - 1] \in Seq(Windows) BY <1>6, <1>7, <2>2
  <2>4. QED BY <1>3, <1>6, <2>1, <2>3
<1>9. f = [t \in window.from .. window.to |->
             IF t = window.from THEN <<>>
             ELSE IF begun(t) = {} THEN f[t - 1] ELSE merge(f[t - 1], t - 1, longest(t))]
  BY <1>6, <1>8 DEF Merge
<1>10. merged = [t \in window.from .. window.to |->
             IF t = window.from THEN <<>>
             ELSE IF begun(t) = {} THEN merged[t - 1] ELSE merge(merged[t - 1], t - 1, longest(t))]
  BY <1>9
<1> HIDE DEF merged
<1>11. merged[a] = <<>> /\ \A t \in a .. b : t # a => merged[t] = next(merged[t - 1], t)
  <2>1. \A M, t : merge(M, t - 1, longest(t)) = Merge(M, t - 1, longest(t)) BY Zenon DEF Merge
  <2> HIDE DEF merge
  <2>2. window.from = a /\ window.to = b OBVIOUS
  <2>3. merged[a] = <<>> BY <1>10, <2>2
  <2>4. ASSUME NEW t \in a .. b, t # a PROVE merged[t] = next(merged[t - 1], t)
    <3>1. merged[t] = IF begun(t) = {} THEN merged[t - 1] ELSE merge(merged[t - 1], t - 1, longest(t))
      BY <1>10, <2>2, <2>4
    <3>2. QED BY <2>1, <3>1
  <2>5. QED BY <2>3, <2>4
<1>12. \A t \in a .. b : merged[t] = f[t]
  <2> DEFINE G == {t \in a .. b : merged[t] = f[t]}
  <2>1. a \in G BY <1>6, <1>11
  <2>2. ASSUME NEW t \in a .. b, t # a, t - 1 \in G PROVE t \in G
    BY <1>8, <1>11, <2>2
  <2>3. \A t \in a .. b : t \in G
    <3> HIDE DEF G
    <3> QED BY <2>1, <2>2, Throughout, Zenon
  <2>4. QED BY <2>3
<1>13. QED BY <1>1, <1>7, <1>12

-----------------------------------------------------------------------------
(* The segments of the buckets. *)

Rows ==
    {b \in [from : Int, to : Int, samples : Nat \ {0}, down : Nat, maintenance : Nat, unknown : Nat] :
        b.down + b.maintenance + b.unknown <= b.samples}

\* Of a finite set, parts that have nothing in common have no more members.
LEMMA ThreeParts ==
    ASSUME NEW S, IsFiniteSet(S), NEW A \in SUBSET S, NEW B \in SUBSET S, NEW C \in SUBSET S,
           A \cap B = {}, (A \union B) \cap C = {}
    PROVE  Cardinality(A) + Cardinality(B) + Cardinality(C) <= Cardinality(S)
<1>1. IsFiniteSet(A) /\ IsFiniteSet(B) /\ IsFiniteSet(C) /\ IsFiniteSet(A \union B)
  BY FS_Subset
<1>2. /\ Cardinality(A) \in Nat /\ Cardinality(B) \in Nat /\ Cardinality(C) \in Nat
      /\ Cardinality(S) \in Nat /\ Cardinality(A \union B) \in Nat
  BY <1>1, FS_CardinalityType
<1>3. Cardinality(A \union B) = Cardinality(A) + Cardinality(B) - Cardinality(A \cap B)
  BY <1>1, FS_Union
<1>4. Cardinality((A \union B) \union C)
        = Cardinality(A \union B) + Cardinality(C) - Cardinality((A \union B) \cap C)
  BY <1>1, FS_Union
<1>5. Cardinality({}) = 0 BY FS_EmptySet
<1>6. Cardinality((A \union B) \union C) <= Cardinality(S) BY FS_Subset
<1>7. QED BY <1>2, <1>3, <1>4, <1>5, <1>6

\* What is rounded down fits.
LEMMA Floor ==
    ASSUME NEW x \in Nat, NEW n \in Nat, n > 0
    PROVE  x \div n \in Nat /\ (x \div n) * n <= x
OBVIOUS

LEMMA ThreeShares ==
    ASSUME NEW n \in Nat, n > 0, NEW S \in Nat, NEW d \in Nat, NEW m \in Nat, NEW u \in Nat,
           d + m + u <= n
    PROVE  (d * S) \div n + (m * S) \div n + (u * S) \div n <= S
<1>1. d * S \in Nat /\ m * S \in Nat /\ u * S \in Nat OBVIOUS
<1>2. PICK x \in Nat, y \in Nat, z \in Nat :
         /\ x = (d * S) \div n /\ y = (m * S) \div n /\ z = (u * S) \div n
         /\ x * n <= d * S /\ y * n <= m * S /\ z * n <= u * S
  BY <1>1, Floor
<1>3. /\ (x + y + z) * n = x * n + y * n + z * n
      /\ (d + m + u) * S = d * S + m * S + u * S
  OBVIOUS
<1>4. (d + m + u) * S <= n * S /\ n * S = S * n
  <2>1. \A i, j \in Nat : i <= j => i * S <= j * S OBVIOUS
  <2>2. QED BY <2>1
<1>5. (x + y + z) * n <= S * n BY <1>2, <1>3, <1>4
<1>6. x + y + z <= S
  <2>1. \A i, j \in Nat : i * n <= j * n => i <= j OBVIOUS
  <2>2. QED BY <1>5, <2>1
<1>7. QED BY <1>2, <1>6

\* A bucket with checks is a row that spans it.
LEMMA BucketIs ==
    ASSUME NEW C, IsFiniteSet(C), NEW x \in Int, NEW r \in Int, Bucket(C, x, r).samples > 0
    PROVE  Bucket(C, x, r) \in Rows /\ Bucket(C, x, r).from = x /\ Bucket(C, x, r).to = x + r
<1> DEFINE said(S) == {c \in C : x <= c.ts /\ c.ts < x + r /\ c.status \in S}
           number(S) == Cardinality(said(S))
<1>1. ASSUME NEW S PROVE IsFiniteSet(said(S)) /\ number(S) \in Nat
  <2>1. IsFiniteSet(said(S)) BY FS_Subset
  <2>2. QED BY <2>1, FS_CardinalityType
<1>2. Bucket(C, x, r) = [from |-> x, to |-> x + r, samples |-> number(Statuses),
                         down |-> number({"down", "partial"}), maintenance |-> number({"maintenance"}),
                         unknown |-> number({"unknown"})]
  BY Zenon DEF Bucket
<1>3. number({"down", "partial"}) + number({"maintenance"}) + number({"unknown"}) <= number(Statuses)
  <2>1. {"down", "partial", "maintenance", "unknown"} \subseteq Statuses BY DEF Statuses, SEVERITY_ORDER
  <2>2. /\ said({"down", "partial"}) \subseteq said(Statuses)
        /\ said({"maintenance"}) \subseteq said(Statuses) /\ said({"unknown"}) \subseteq said(Statuses)
    BY <2>1
  <2>3. /\ said({"down", "partial"}) \cap said({"maintenance"}) = {}
        /\ (said({"down", "partial"}) \union said({"maintenance"})) \cap said({"unknown"}) = {}
    OBVIOUS
  <2> HIDE DEF said
  <2>4. QED BY <1>1, <2>2, <2>3, ThreeParts
<1> HIDE DEF number
<1>4. /\ number(Statuses) \in Nat /\ number({"down", "partial"}) \in Nat
      /\ number({"maintenance"}) \in Nat /\ number({"unknown"}) \in Nat
  BY <1>1
<1>5. number(Statuses) \in Nat \ {0} BY <1>2, <1>4
<1>6. QED BY <1>2, <1>3, <1>4, <1>5 DEF Rows

\* The shares of a row are whole parts of an interval.
LEMMA SegmentsOfRows ==
    ASSUME ConstantsOK, NEW B, NEW a \in Int, NEW b \in Int, InOrder(B, Rows, a, b)
    PROVE  InOrder(segmentsFromBuckets(B), Segments, a, b)
<1> DEFINE k == Len(B)
           share(n, i) == (n * Scale) \div B[i].samples
           s == [i \in DOMAIN B |-> Segment(B[i].from, B[i].to, share(B[i].down, i),
                                            share(B[i].maintenance, i), share(B[i].unknown, i),
                                            B[i].down \in {0, B[i].samples}, FALSE)]
<1>1. segmentsFromBuckets(B) = s BY Zenon DEF segmentsFromBuckets
<1>2. B \in Seq(Rows) /\ k \in Nat /\ DOMAIN B = 1 .. k BY DEF InOrder
<1>3. Scale \in Nat BY DEF ConstantsOK
<1>4. ASSUME NEW i \in 1 .. k, NEW n \in Nat PROVE share(n, i) \in Nat
  <2>1. B[i] \in Rows BY <1>2, ElementOfSeq
  <2>2. PICK m \in Nat : B[i].samples = m /\ m > 0 BY <1>2, <2>1 DEF Rows
  <2>3. PICK p \in Nat : n * Scale = p BY <1>3
  <2>4. p \div m \in Nat BY <2>2
  <2>5. QED BY <2>2, <2>3, <2>4
<1> HIDE DEF share
<1>5. ASSUME NEW i \in 1 .. k
      PROVE  s[i] \in Segments /\ s[i].from = B[i].from /\ s[i].to = B[i].to
  <2>1. B[i] \in Rows BY <1>2, ElementOfSeq
  <2>2. /\ B[i].from \in Int /\ B[i].to \in Int
        /\ B[i].down \in Nat /\ B[i].maintenance \in Nat /\ B[i].unknown \in Nat
    BY <2>1 DEF Rows
  <2>3. share(B[i].down, i) \in Nat /\ share(B[i].maintenance, i) \in Nat /\ share(B[i].unknown, i) \in Nat
    BY <1>4, <2>2
  <2>4. share(B[i].down, i) + share(B[i].maintenance, i) + share(B[i].unknown, i) <= Scale
    <3>1. PICK n \in Nat, x \in Nat, y \in Nat, z \in Nat, S \in Nat :
             /\ B[i].samples = n /\ n > 0 /\ B[i].down = x /\ B[i].maintenance = y /\ B[i].unknown = z
             /\ x + y + z <= n /\ Scale = S
      BY <1>3, <2>1 DEF Rows
    <3>2. (x * S) \div n + (y * S) \div n + (z * S) \div n <= S BY <3>1, ThreeShares
    <3>3. QED BY <3>1, <3>2 DEF share
  <2>5. QED BY <1>2, <2>2, <2>3, <2>4 DEF Segments, Segment
<1>6. s \in Seq(Segments) /\ DOMAIN s = 1 .. k
  <2>1. DOMAIN s = 1 .. k BY <1>2
  <2> HIDE DEF s
  <2>2. s = [i \in 1 .. k |-> s[i]] BY <1>2, <2>1 DEF s
  <2>3. s \in [1 .. k -> Segments] BY <1>5, <2>2
  <2>4. QED BY <1>2, <2>1, <2>3, IsASeq
<1> HIDE DEF s
<1>7. QED BY <1>1, <1>2, <1>5, <1>6 DEF InOrder

\* The rows of a day are in order.
LEMMA RowsInOrder ==
    ASSUME ConstantsOK, NEW C, IsFiniteSet(C), NEW window, NEW a \in Int, window.from = a,
           NEW r \in Resolutions
    PROVE  InOrder(BucketsOf(C, window, r), Rows, a, a + DayLength)
<1> DEFINE k == DayLength \div r
           bucket(i) == Bucket(C, window.from + (i - 1) * r, r)
           rows == CHOOSE rows : rows = [i \in 0 .. DayLength \div r |->
                       IF i = 0 THEN <<>>
                       ELSE IF bucket(i).samples > 0 THEN Append(rows[i - 1], bucket(i))
                       ELSE rows[i - 1]]
           next(M, i) == IF bucket(i).samples > 0 THEN Append(M, bucket(i)) ELSE M
           g == [p \in Int \X Seq(Rows) |-> next(p[2], p[1])]
<1>1. BucketsOf(C, window, r) = rows[k] BY DEF BucketsOf
<1>2. /\ r \in Nat /\ r > 0 /\ DayLength \in Nat /\ k \in Nat /\ k * r <= DayLength
      /\ \A i \in 0 .. k : i * r \in Nat /\ i * r <= DayLength
  <2>1. r \in Nat /\ r > 0 /\ DayLength \in Nat BY DEF ConstantsOK
  <2>2. PICK m \in Nat, n \in Nat : m = r /\ n = DayLength /\ m > 0 BY <2>1
  <2>3. PICK q \in Nat : q = n \div m /\ q * m <= n BY <2>2
  <2>4. \A i \in 0 .. q : i * m \in Nat /\ i * m <= q * m /\ q * m \in Nat BY <2>2, <2>3
  <2>5. \A i \in 0 .. q : i * m \in Nat /\ i * m <= n BY <2>2, <2>3, <2>4
  <2>6. QED BY <2>1, <2>2, <2>3, <2>5
<1>3. ASSUME NEW i \in Int, bucket(i).samples > 0
      PROVE  bucket(i) \in Rows /\ bucket(i).from = a + (i - 1) * r /\ bucket(i).to = a + (i - 1) * r + r
  <2>1. a + (i - 1) * r \in Int /\ r \in Int BY <1>2
  <2>2. QED BY <1>3, <2>1, BucketIs
<1> HIDE DEF bucket, k
<1>4. g \in [Int \X Seq(Rows) -> Seq(Rows)] /\ \A i \in Int : \A M \in Seq(Rows) : g[<<i, M>>] = next(M, i)
  <2>1. ASSUME NEW i \in Int, NEW M \in Seq(Rows) PROVE next(M, i) \in Seq(Rows)
    BY <1>3
  <2> HIDE DEF next
  <2>2. QED BY <2>1
<1>5. PICK f : Recursive(f, 0, k, Seq(Rows), <<>>, g)
  <2> HIDE DEF g
  <2>1. <<>> \in Seq(Rows) /\ 0 \in Int /\ k \in Int /\ 0 <= k BY <1>2, EmptySeq
  <2>2. QED BY <1>4, <2>1, Recursion, Zenon
<1> HIDE DEF g, next
<1>6. /\ f \in [0 .. k -> Seq(Rows)] /\ f[0] = <<>>
      /\ \A i \in 0 .. k : i # 0 => f[i] = next(f[i - 1], i)
  <2>1. /\ f \in [0 .. k -> Seq(Rows)] /\ f[0] = <<>>
        /\ \A i \in 0 .. k : i # 0 => f[i] = g[<<i, f[i - 1]>>]
    BY <1>5 DEF Recursive
  <2>2. ASSUME NEW i \in 0 .. k, i # 0 PROVE f[i] = next(f[i - 1], i)
    <3>1. i - 1 \in 0 .. k /\ i \in Int BY <1>2, <2>2
    <3>2. f[i - 1] \in Seq(Rows) BY <2>1, <3>1
    <3>3. QED BY <1>4, <2>1, <2>2, <3>1, <3>2
  <2>3. QED BY <2>1, <2>2
<1>7. f = [i \in 0 .. DayLength \div r |->
             IF i = 0 THEN <<>>
             ELSE IF bucket(i).samples > 0 THEN Append(f[i - 1], bucket(i)) ELSE f[i - 1]]
  BY <1>6 DEF next, k
<1>8. rows = [i \in 0 .. DayLength \div r |->
             IF i = 0 THEN <<>>
             ELSE IF bucket(i).samples > 0 THEN Append(rows[i - 1], bucket(i)) ELSE rows[i - 1]]
  BY <1>7
<1> HIDE DEF rows
<1>9. rows[0] = <<>> /\ \A i \in 0 .. k : i # 0 => rows[i] = next(rows[i - 1], i)
  <2>1. DayLength \div r = k BY DEF k
  <2>2. 0 \in 0 .. k BY <1>2
  <2>3. rows[0] = <<>> BY <1>8, <2>1, <2>2
  <2>4. ASSUME NEW i \in 0 .. k, i # 0 PROVE rows[i] = next(rows[i - 1], i)
    BY <1>8, <2>1, <2>4 DEF next
  <2>5. QED BY <2>3, <2>4
<1> DEFINE G == {i \in 0 .. k : InOrder(rows[i], Rows, a, a + i * r)}
<1>10. 0 \in G
  <2>1. InOrder(<<>>, Rows, a, a + 0 * r) BY EmptySeq DEF InOrder
  <2>2. QED BY <1>2, <1>9, <2>1
<1>11. ASSUME NEW i \in 0 .. k, i # 0, i - 1 \in G PROVE i \in G
  <2>1. PICK b \in Int, c \in Int : a + (i - 1) * r = b /\ a + i * r = c /\ b <= c /\ a <= b /\ b + r = c
    BY <1>2, <1>11
  <2>2. InOrder(rows[i - 1], Rows, a, b) BY <1>11, <2>1
  <2>3. CASE bucket(i).samples > 0
    <3>1. bucket(i) \in Rows /\ bucket(i).from = b /\ bucket(i).to = c BY <1>2, <1>3, <2>1, <2>3
    <3>2. InOrder(Append(rows[i - 1], bucket(i)), Rows, a, c) BY <2>1, <2>2, <3>1, OneMore
    <3>3. rows[i] = Append(rows[i - 1], bucket(i)) BY <1>9, <1>11, <2>3 DEF next
    <3>4. QED BY <2>1, <3>2, <3>3
  <2>4. CASE ~(bucket(i).samples > 0)
    <3>1. InOrder(rows[i - 1], Rows, a, c) BY <2>1, <2>2, Later
    <3>2. rows[i] = rows[i - 1] BY <1>9, <1>11, <2>4 DEF next
    <3>3. QED BY <2>1, <3>1, <3>2
  <2>5. QED BY <2>3, <2>4
<1>12. \A i \in 0 .. k : i \in G
  <2> HIDE DEF G
  <2>1. 0 \in Int /\ k \in Int BY <1>2
  <2>2. QED BY <1>10, <1>11, <2>1, Throughout, Zenon
<1>13. PICK b \in Int : a + k * r = b /\ b <= a + DayLength BY <1>2
<1>14. InOrder(rows[k], Rows, a, b) BY <1>2, <1>12, <1>13
<1>15. InOrder(rows[k], Rows, a, a + DayLength)
  <2>1. a + DayLength \in Int BY <1>2
  <2>2. QED BY <1>13, <1>14, <2>1, Later
<1>16. QED BY <1>1, <1>15

-----------------------------------------------------------------------------
(* A segment, and the instants between two boundaries. *)

\* One or two spans at the end.
LEMMA Joined ==
    ASSUME NEW R, NEW s \in Seq(R), NEW x \in R, NEW y \in R
    PROVE  /\ s \o <<x>> = Append(s, x)
           /\ s \o (<<x>> \o <<>>) = Append(s, x)
           /\ s \o (<<x>> \o <<y>>) = Append(Append(s, x), y)
<1>1. <<x>> \in Seq(R) /\ <<y>> \in Seq(R) OBVIOUS
<1>2. \A u \in Seq(R) : \A e \in R : u \o <<e>> = Append(u, e) BY AppendIsConcat
<1>3. <<x>> \o <<>> = <<x>> BY <1>1, ConcatEmptySeq
<1>4. s \o (<<x>> \o <<y>>) = (s \o <<x>>) \o <<y>> BY <1>1, ConcatAssociative
<1>5. Append(s, x) \in Seq(R) OBVIOUS
<1>6. QED BY <1>2, <1>3, <1>4, <1>5

\* A segment of silence.
LEMMA SilentIs ==
    ASSUME ConstantsOK, NEW x \in Int, NEW y \in Int, NEW isDown \in BOOLEAN
    PROVE  silent(x, y, isDown) \in Segments /\ silent(x, y, isDown).from = x /\ silent(x, y, isDown).to = y
<1>1. Scale \in Nat BY DEF ConstantsOK
<1>2. Part(isDown) \in Nat /\ Part(~isDown) \in Nat /\ Part(isDown) + 0 + Part(~isDown) <= Scale
  BY <1>1 DEF Part
<1>3. QED BY <1>2 DEF silent, Segment, Segments

\* The first of the instants from t on, or after t, or the end.
Following(S, t, b) == Min({b} \union {x \in S : t <= x})
After(S, t, b)     == Min({b} \union {x \in S : t < x})

LEMMA FollowingIs ==
    ASSUME NEW S \in SUBSET Int, NEW t \in Int, NEW b \in Int, t <= b
    PROVE  /\ Following(S, t, b) \in Int /\ t <= Following(S, t, b) /\ Following(S, t, b) <= b
           /\ t \in S => Following(S, t, b) = t
           /\ t \notin S => Following(S, t, b) = Following(S, t + 1, b)
           /\ Following(S, t + 1, b) = After(S, t, b)
<1> DEFINE T == {b} \union {x \in S : t <= x}
<1>1. T \in SUBSET Int /\ T # {} /\ b \in T /\ \A x \in T : t <= x OBVIOUS
<1>2. Min(T) \in T /\ \A x \in T : Min(T) <= x
  <2> HIDE DEF T
  <2> QED BY <1>1, LeastInt
<1>3. Following(S, t, b) = Min(T) BY DEF Following
<1>4. Min(T) \in Int /\ t <= Min(T) /\ Min(T) <= b
  <2> HIDE DEF T
  <2> QED BY <1>1, <1>2
<1>5. t \in S => Min(T) = t
  <2>1. SUFFICES ASSUME t \in S PROVE Min(T) = t OBVIOUS
  <2>2. t \in T BY <2>1
  <2> HIDE DEF T
  <2>3. QED BY <1>2, <1>4, <2>2
<1>6. {x \in S : t + 1 <= x} = {x \in S : t < x}
  <2>1. \A x \in S : t + 1 <= x <=> t < x OBVIOUS
  <2>2. QED BY <2>1, Zenon
<1>7. t \notin S => {x \in S : t <= x} = {x \in S : t < x}
  <2>1. \A x \in S : t <= x /\ x # t <=> t < x OBVIOUS
  <2>2. QED BY <2>1
<1>8. Following(S, t + 1, b) = After(S, t, b) BY <1>6 DEF Following, After
<1>9. t \notin S => Following(S, t, b) = Following(S, t + 1, b) BY <1>7, <1>8 DEF Following, After
<1>10. QED BY <1>3, <1>4, <1>5, <1>8, <1>9

-----------------------------------------------------------------------------
(* The segments of the checks, instant by instant. *)

\* Until when what was said holds.
Holds(L, next) == Min({next, Max({c.ts : c \in L}) + maxGap})

\* What was said until then.
Spoken(L, at, next, isDown) ==
    LET allUnknown == \A c \in L : isUnknown(c.status)
        failing    == (\E c \in L : isFailing(c.status)) \/ (allUnknown /\ isDown)
        excluded   == ~failing /\ \A c \in L : isExcluded(c.status)
    IN  Segment(at, Holds(L, next), Part(failing), Part(excluded), Part(~failing /\ ~excluded /\ allUnknown),
                TRUE, allUnknown /\ isDown)

\* Where those who were looked at say something new, within the window.
Boundaries(looked, window) == {Max({c.ts, window.from}) : c \in looked}

\* The last of the instants until x.
Preceding(S, x) == Max({y \in S : y <= x})

\* The segment of an instant, between two boundaries.
Covering(L, at, next, isDown, x) ==
    IF L = {} THEN silent(at, next, isDown)
    ELSE IF x < Holds(L, next) THEN Spoken(L, at, next, isDown)
    ELSE silent(Holds(L, next), next, isDown)

SegmentOf(looked, window, isDown, x) ==
    LET at == Preceding(Boundaries(looked, window), x)
    IN  Covering(live(looked, at), at, After(Boundaries(looked, window), at, window.to), isDown, x)

\* Segments that cover every instant from z to e once, each the one of its instants.
Tiled(s, F, a, z, e) ==
    /\ InOrder(s, Segments, a, e)
    /\ \A i \in DOMAIN s : s[i].from < s[i].to /\ \A x \in s[i].from .. s[i].to - 1 : s[i] = F[x]
    /\ \A i \in DOMAIN s : i + 1 \in DOMAIN s => s[i].to = s[i + 1].from
    /\ IF s = <<>> THEN z = e ELSE s[1].from = z /\ s[Len(s)].to = e

\* One more at the end.
LEMMA TileAdded ==
    ASSUME NEW F, NEW s, NEW a \in Int, NEW z, NEW e \in Int, NEW n \in Int, a <= e, e < n,
           Tiled(s, F, a, z, e),
           NEW p \in Segments, p.from = e, p.to = n, \A x \in e .. n - 1 : F[x] = p
    PROVE  Tiled(Append(s, p), F, a, z, n)
<1> DEFINE k == Len(s)
           N == Append(s, p)
<1>1. s \in Seq(Segments) /\ k \in Nat /\ DOMAIN s = 1 .. k BY DEF Tiled, InOrder
<1>2. InOrder(N, Segments, a, n)
  <2>1. InOrder(s, Segments, a, e) BY DEF Tiled
  <2>2. e <= n OBVIOUS
  <2>3. p.from \in Int /\ p.to \in Int /\ e <= p.from /\ p.from <= p.to /\ p.to <= n OBVIOUS
  <2>4. QED BY <2>1, <2>2, <2>3, OneMore
<1>3. /\ Len(N) = k + 1 /\ DOMAIN N = 1 .. k + 1
      /\ \A i \in 1 .. k : N[i] = s[i]
      /\ N[k + 1] = p
  <2>1. N \in Seq(Segments) BY <1>1
  <2>2. Len(N) = k + 1 /\ (\A i \in 1 .. k : N[i] = s[i]) /\ N[k + 1] = p BY <1>1, AppendProperties
  <2>3. QED BY <2>1, <2>2, LenProperties
<1>4. s = <<>> <=> k = 0 BY <1>1, EmptySeq
<1> HIDE DEF k, N
<1>5. ASSUME NEW i \in 1 .. k + 1 PROVE N[i].from < N[i].to /\ \A x \in N[i].from .. N[i].to - 1 : N[i] = F[x]
  <2>1. CASE i = k + 1 BY <1>3, <2>1
  <2>2. CASE i \in 1 .. k
    <3>1. N[i] = s[i] BY <1>3, <2>2
    <3>2. QED BY <1>1, <2>2, <3>1 DEF Tiled
  <2>3. QED BY <1>1, <2>1, <2>2
<1>6. ASSUME NEW i \in 1 .. k PROVE N[i].to = N[i + 1].from
  <2>1. N[i] = s[i] BY <1>3
  <2>2. CASE i = k
    <3>1. s[k].to = e BY <1>1, <1>4, <2>2 DEF Tiled, k
    <3>2. QED BY <1>3, <2>1, <2>2, <3>1
  <2>3. CASE i + 1 \in 1 .. k
    <3>1. N[i + 1] = s[i + 1] BY <1>3, <2>3
    <3>2. QED BY <1>1, <2>1, <2>3, <3>1 DEF Tiled
  <2>4. QED BY <1>1, <2>2, <2>3
<1>7. N # <<>> /\ N[1].from = z /\ N[Len(N)].to = n
  <2>1. N # <<>> BY <1>1, <1>3
  <2>2. N[Len(N)].to = n BY <1>3
  <2>3. CASE k = 0 BY <1>3, <1>4, <2>3 DEF Tiled
  <2>4. CASE k # 0
    <3>1. N[1] = s[1] BY <1>1, <1>3, <2>4
    <3>2. QED BY <1>4, <2>1, <2>2, <2>4, <3>1 DEF Tiled
  <2>5. QED BY <2>3, <2>4
<1>8. \A i \in DOMAIN N : i + 1 \in DOMAIN N => N[i].to = N[i + 1].from
  <2>1. ASSUME NEW i \in 1 .. k + 1, i + 1 \in 1 .. k + 1 PROVE N[i].to = N[i + 1].from
    <3>1. i \in 1 .. k BY <1>1, <2>1
    <3>2. QED BY <1>6, <3>1
  <2>2. QED BY <1>3, <2>1
<1>9. QED BY <1>2, <1>3, <1>5, <1>7, <1>8 DEF Tiled, N

\* Until when something holds that was said by checks that are live.
LEMMA HoldsIs ==
    ASSUME NEW at \in Int, NEW next \in Int, at < next,
           NEW L, L # {}, \A c \in L : c.ts \in Int /\ c.ts <= at /\ at - c.ts < maxGap
    PROVE  /\ Holds(L, next) \in Int /\ at < Holds(L, next) /\ Holds(L, next) <= next
           /\ \E c \in L : /\ \A d \in L : d.ts <= c.ts
                           /\ Holds(L, next) = IF next <= c.ts + maxGap THEN next ELSE c.ts + maxGap
<1> DEFINE heard == {c.ts : c \in L}
<1>1. heard \in SUBSET Int /\ heard # {} /\ \A x \in heard : x <= at /\ at - x < maxGap OBVIOUS
<1>2. Max(heard) \in heard /\ \A x \in heard : x <= Max(heard)
  <2> HIDE DEF heard
  <2> QED BY <1>1, GreatestInt
<1>3. PICK c \in L : c.ts = Max(heard) /\ \A d \in L : d.ts <= c.ts BY <1>2
<1>4. PICK m \in Int : c.ts = m /\ m <= at /\ at - m < maxGap BY <1>3
<1>5. PICK n \in Int : m + maxGap = n /\ at < n BY <1>4 DEF maxGap
<1>6. Holds(L, next) = IF next <= n THEN next ELSE n
  <2>1. Holds(L, next) = Min({next, n}) BY <1>3, <1>4, <1>5 DEF Holds
  <2>2. QED BY <2>1, OfTwo
<1>7. QED BY <1>3, <1>4, <1>5, <1>6

\* What the live checks of an instant say is a segment.
LEMMA SpokenIs ==
    ASSUME ConstantsOK, NEW L, NEW at \in Int, NEW next \in Int, Holds(L, next) \in Int, NEW isDown \in BOOLEAN
    PROVE  /\ Spoken(L, at, next, isDown) \in Segments
           /\ Spoken(L, at, next, isDown).from = at /\ Spoken(L, at, next, isDown).to = Holds(L, next)
<1> DEFINE allUnknown == \A c \in L : isUnknown(c.status)
           failing    == (\E c \in L : isFailing(c.status)) \/ (allUnknown /\ isDown)
           excluded   == ~failing /\ \A c \in L : isExcluded(c.status)
<1>1. Scale \in Nat BY DEF ConstantsOK
<1>2. allUnknown \in BOOLEAN /\ failing \in BOOLEAN /\ excluded \in BOOLEAN OBVIOUS
<1>3. ~(failing /\ excluded) OBVIOUS
<1>4. Spoken(L, at, next, isDown) =
        Segment(at, Holds(L, next), Part(failing), Part(excluded), Part(~failing /\ ~excluded /\ allUnknown),
                TRUE, allUnknown /\ isDown)
  BY Zenon DEF Spoken
<1> HIDE DEF allUnknown, failing, excluded
<1>5. \A b \in BOOLEAN : Part(b) \in Nat BY <1>1 DEF Part
<1>6. /\ Part(failing) \in Nat /\ Part(excluded) \in Nat
      /\ Part(~failing /\ ~excluded /\ allUnknown) \in Nat /\ (allUnknown /\ isDown) \in BOOLEAN
  BY <1>2, <1>5
<1>7. Part(failing) + Part(excluded) + Part(~failing /\ ~excluded /\ allUnknown) <= Scale
  BY <1>1, <1>2, <1>3 DEF Part
<1>8. QED BY <1>4, <1>6, <1>7 DEF Segment, Segments

\* What they say, and the silence after it, ends where the next begins.
LEMMA TilesAdded ==
    ASSUME ConstantsOK, NEW F, NEW s, NEW a \in Int, NEW z, NEW at \in Int, NEW next \in Int, a <= at, at < next,
           Tiled(s, F, a, z, at), NEW isDown \in BOOLEAN,
           NEW L, L # {}, \A c \in L : c.ts \in Int /\ c.ts <= at /\ at - c.ts < maxGap,
           \A x \in at .. next - 1 : F[x] = Covering(L, at, next, isDown, x)
    PROVE  Tiled(s \o segmentAt(L, at, next, isDown), F, a, z, next)
<1> DEFINE first == Spoken(L, at, next, isDown)
           to    == Holds(L, next)
           rest  == silent(to, next, isDown)
<1>1. segmentAt(L, at, next, isDown) = <<first>> \o (IF to < next THEN <<rest>> ELSE <<>>)
  BY Zenon DEF segmentAt, Spoken, Holds
<1>2. to \in Int /\ at < to /\ to <= next BY HoldsIs, Zenon
<1>3. first \in Segments /\ first.from = at /\ first.to = to
  <2>1. Holds(L, next) \in Int BY <1>2
  <2>2. QED BY <2>1, SpokenIs
<1>4. rest \in Segments /\ rest.from = to /\ rest.to = next BY <1>2, SilentIs
<1>5. /\ \A x \in at .. to - 1 : F[x] = first
      /\ \A x \in to .. next - 1 : F[x] = rest
  <2>1. \A x \in at .. next - 1 : F[x] = IF x < to THEN first ELSE rest BY DEF Covering
  <2> HIDE DEF first, to, rest
  <2>2. QED BY <1>2, <2>1
<1> HIDE DEF first, to, rest
<1>6. s \in Seq(Segments) BY DEF Tiled, InOrder
<1>7. Tiled(Append(s, first), F, a, z, to) BY <1>2, <1>3, <1>5, TileAdded
<1>8. CASE to < next
  <2>1. a <= to BY <1>2
  <2>2. Tiled(Append(Append(s, first), rest), F, a, z, next) BY <1>2, <1>4, <1>5, <1>7, <1>8, <2>1, TileAdded
  <2>3. s \o segmentAt(L, at, next, isDown) = Append(Append(s, first), rest)
    <3>1. segmentAt(L, at, next, isDown) = <<first>> \o <<rest>> BY <1>1, <1>8
    <3>2. s \o (<<first>> \o <<rest>>) = Append(Append(s, first), rest) BY <1>3, <1>4, <1>6, Joined
    <3>3. QED BY <3>1, <3>2, Zenon
  <2>4. QED BY <2>2, <2>3
<1>9. CASE ~(to < next)
  <2>1. to = next BY <1>2, <1>9
  <2>2. s \o segmentAt(L, at, next, isDown) = Append(s, first)
    <3>1. segmentAt(L, at, next, isDown) = <<first>> \o <<>> BY <1>1, <1>9
    <3>2. s \o (<<first>> \o <<>>) = Append(s, first) BY <1>3, <1>4, <1>6, Joined, Zenon
    <3>3. QED BY <3>1, <3>2, Zenon
  <2>3. QED BY <1>7, <2>1, <2>2
<1>10. QED BY <1>8, <1>9

\* The last of the instants is the one that none lies after.
LEMMA PrecedingIs ==
    ASSUME NEW S \in SUBSET Int, NEW x \in Int, NEW u \in S, u <= x, \A y \in S : y <= x => y <= u
    PROVE  Preceding(S, x) = u
<1> DEFINE T == {y \in S : y <= x}
<1>1. T \in SUBSET Int /\ T # {} /\ u \in T /\ \A y \in T : y <= x /\ y <= u OBVIOUS
<1>2. Max(T) \in T /\ u <= Max(T)
  <2> HIDE DEF T
  <2> QED BY <1>1, GreatestInt
<1>3. Max(T) <= u BY <1>1, <1>2
<1>4. Max(T) \in Int BY <1>1, <1>2
<1>5. Max(T) = u
  <2> HIDE DEF T
  <2> QED BY <1>2, <1>3, <1>4
<1>6. QED BY <1>5 DEF Preceding

\* None lies between an instant and the one after it.
LEMMA AfterIs ==
    ASSUME NEW S \in SUBSET Int, NEW u \in Int, NEW b \in Int, u < b
    PROVE  /\ After(S, u, b) \in Int /\ u < After(S, u, b) /\ After(S, u, b) <= b
           /\ After(S, u, b) = b \/ After(S, u, b) \in S
           /\ \A y \in S : u < y => After(S, u, b) <= y
<1> DEFINE T == {b} \union {x \in S : u < x}
<1>1. T \subseteq Int /\ b \in T OBVIOUS
<1>2. \A x \in T : u <= x
  <2>1. ASSUME NEW x \in T PROVE u <= x
    <3>1. x = b \/ (x \in S /\ u < x) OBVIOUS
    <3>2. QED BY <3>1
  <2>2. QED BY <2>1
<1>3. Min(T) \in T /\ \A x \in T : Min(T) <= x
  <2> HIDE DEF T
  <2>1. T \in SUBSET Int /\ T # {} BY <1>1
  <2>2. QED BY <1>2, <2>1, LeastInt
<1>4. QED BY <1>3 DEF After

\* The segments of the checks cover every instant from the first boundary on, and of
\* each they say what was said last.
LEMMA SamplesTile ==
    ASSUME ConstantsOK, NEW C, \A c \in C : c.ts \in Int, NEW isDown \in BOOLEAN,
           NEW window, NEW a \in Int, NEW b \in Int, window.from = a, window.to = b, a <= b
    PROVE  Tiled(segmentsFromSamples(C, window, isDown),
                 [x \in a .. b - 1 |-> SegmentOf(relevant(C, window), window, isDown, x)],
                 a, Following(Boundaries(relevant(C, window), window), a, b), b)
<1> DEFINE looked == relevant(C, window)
           boundaries == Boundaries(looked, window)
           F == [x \in a .. b - 1 |-> SegmentOf(looked, window, isDown, x)]
           z == Following(boundaries, a, b)
           \* The segments of all boundaries before t.
           until_t(s, t) == Tiled(s, F, a, z, Following(boundaries, t, b))
           next(at) == Min({window.to} \union {x \in boundaries : at < x})
           segments(at) == IF live(looked, at) = {} THEN <<silent(at, next(at), isDown)>>
                           ELSE segmentAt(live(looked, at), at, next(at), isDown)
           until == CHOOSE until : until = [t \in window.from .. window.to |->
                        IF t = window.from THEN <<>>
                        ELSE IF t - 1 \in boundaries THEN until[t - 1] \o segments(t - 1)
                        ELSE until[t - 1]]
           grown(s, t) == IF t - 1 \in boundaries THEN s \o segments(t - 1) ELSE s
           fits(t, s) == t \in a .. b /\ t # a /\ until_t(s, t - 1)
           g == [p \in Int \X Seq(Segments) |-> IF fits(p[1], p[2]) THEN grown(p[2], p[1]) ELSE p[2]]
<1>1. segmentsFromSamples(C, window, isDown) = until[b] BY DEF segmentsFromSamples, Boundaries
<1>2. boundaries \in SUBSET Int
  <2>1. ASSUME NEW c \in looked PROVE Max({c.ts, window.from}) \in Int
    <3>1. c.ts \in Int BY DEF relevant
    <3>2. QED BY <3>1, OfTwo
  <2>2. QED BY <2>1 DEF Boundaries
<1>3. ASSUME NEW t \in a .. b, t # a
      PROVE  LET u == t - 1 IN
             /\ Following(boundaries, u, b) \in Int /\ a <= u /\ u <= Following(boundaries, u, b)
             /\ Following(boundaries, t, b) = next(u)
             /\ u \in boundaries => Following(boundaries, u, b) = u /\ next(u) \in Int /\ u < next(u)
             /\ u \notin boundaries => Following(boundaries, u, b) = Following(boundaries, t, b)
  <2> HIDE DEF boundaries
  <2>1. PICK u \in Int : u = t - 1 /\ a <= u /\ u <= b /\ u + 1 = t BY <1>3
  <2>2. /\ Following(boundaries, u, b) \in Int /\ u <= Following(boundaries, u, b)
        /\ u \in boundaries => Following(boundaries, u, b) = u
        /\ u \notin boundaries => Following(boundaries, u, b) = Following(boundaries, u + 1, b)
        /\ Following(boundaries, u + 1, b) = After(boundaries, u, b)
    <3>1. u \in Int /\ u <= b BY <2>1
    <3>2. Following(boundaries, u, b) \in Int /\ u <= Following(boundaries, u, b)
      BY <1>2, <3>1, FollowingIs, Zenon
    <3>3. u \in boundaries => Following(boundaries, u, b) = u
      BY <1>2, <3>1, FollowingIs, Zenon
    <3>4. u \notin boundaries => Following(boundaries, u, b) = Following(boundaries, u + 1, b)
      BY <1>2, <3>1, FollowingIs
    <3>5. Following(boundaries, u + 1, b) = After(boundaries, u, b)
      BY <1>2, <3>1, FollowingIs
    <3>6. QED BY <3>2, <3>3, <3>4, <3>5
  <2>3. Following(boundaries, t, b) \in Int /\ t <= Following(boundaries, t, b)
    <3>1. t \in Int /\ t <= b BY <1>3
    <3>2. QED BY <1>2, <3>1, FollowingIs, Zenon
  <2>4. next(u) = After(boundaries, u, b) BY DEF After
  <2> HIDE DEF next
  <2>5. QED BY <2>1, <2>2, <2>3, <2>4
<1>4. ASSUME NEW s, NEW t \in a .. b, t # a, until_t(s, t - 1) PROVE until_t(grown(s, t), t)
  <2>1. PICK u \in Int : u = t - 1 /\ a <= u /\ u < b /\ u \in a .. b - 1 BY <1>4
  <2>2. CASE u \in boundaries
    <3>1. PICK n \in Int : next(u) = n /\ u < n /\ Following(boundaries, t, b) = n /\ n = After(boundaries, u, b)
      <4>1. next(u) = After(boundaries, u, b) BY DEF After
      <4> HIDE DEF boundaries, next
      <4>2. QED BY <1>3, <1>4, <2>1, <2>2, <4>1
    <3>2. Following(boundaries, u, b) = u
      <4> HIDE DEF boundaries, next
      <4>1. QED BY <1>3, <1>4, <2>1, <2>2
    <3>3. Tiled(s, F, a, z, u) BY <1>4, <2>1, <3>2
    <3>4. \A x \in u .. n - 1 : F[x] = Covering(live(looked, u), u, n, isDown, x)
      <4>1. n <= b /\ \A y \in boundaries : u < y => n <= y
        <5> HIDE DEF boundaries
        <5>1. QED BY <1>2, <2>1, <3>1, AfterIs
      <4>2. ASSUME NEW x \in u .. n - 1 PROVE F[x] = Covering(live(looked, u), u, n, isDown, x)
        <5>1. x \in Int /\ u <= x /\ x \in a .. b - 1 BY <2>1, <3>1, <4>1
        <5>2. \A y \in boundaries : y <= x => y <= u
          <6> HIDE DEF boundaries
          <6>1. QED BY <1>2, <2>1, <3>1, <4>1
        <5>3. Preceding(boundaries, x) = u
          <6> HIDE DEF boundaries
          <6>1. QED BY <1>2, <2>2, <5>1, <5>2, PrecedingIs
        <5>4. F[x] = SegmentOf(looked, window, isDown, x) BY <5>1
        <5>5. QED BY <3>1, <5>3, <5>4 DEF SegmentOf
      <4>3. QED BY <4>2
    <3>5. grown(s, t) = s \o segments(u) BY <2>1, <2>2
    <3> HIDE DEF boundaries, next, F, z
    <3>6. Tiled(s \o segments(u), F, a, z, n)
      <4>1. CASE live(looked, u) = {}
        <5> DEFINE p == silent(u, n, isDown)
        <5>1. p \in Segments /\ p.from = u /\ p.to = n BY SilentIs
        <5>2. \A x \in u .. n - 1 : F[x] = p BY <3>4, <4>1 DEF Covering
        <5>3. s \o <<p>> = Append(s, p)
          <6>1. s \in Seq(Segments) BY <3>3 DEF Tiled, InOrder
          <6>2. QED BY <5>1, <6>1, Joined
        <5>4. segments(u) = <<p>> BY <3>1, <4>1
        <5> HIDE DEF p
        <5>5. Tiled(Append(s, p), F, a, z, n) BY <2>1, <3>1, <3>3, <5>1, <5>2, TileAdded
        <5>6. QED BY <5>3, <5>4, <5>5
      <4>2. CASE live(looked, u) # {}
        <5>1. \A c \in live(looked, u) : c.ts \in Int /\ c.ts <= u /\ u - c.ts < maxGap
          BY DEF live, relevant
        <5>2. segments(u) = segmentAt(live(looked, u), u, n, isDown) BY <3>1, <4>2
        <5>3. Tiled(s \o segmentAt(live(looked, u), u, n, isDown), F, a, z, n)
          BY <2>1, <3>1, <3>3, <3>4, <4>2, <5>1, TilesAdded
        <5>4. QED BY <5>2, <5>3
      <4>3. QED BY <4>1, <4>2
    <3>7. QED BY <3>1, <3>5, <3>6
  <2>3. CASE u \notin boundaries
    <3>1. Following(boundaries, u, b) = Following(boundaries, t, b)
      <4> HIDE DEF boundaries, next
      <4>1. QED BY <1>3, <1>4, <2>1, <2>3
    <3>2. grown(s, t) = s BY <2>1, <2>3
    <3>3. QED BY <1>4, <2>1, <3>1, <3>2
  <2>4. QED BY <2>2, <2>3
<1> HIDE DEF boundaries, next, grown, until_t
<1>5. /\ g \in [Int \X Seq(Segments) -> Seq(Segments)]
      /\ \A t, s : fits(t, s) => s \in Seq(Segments) /\ g[<<t, s>>] = grown(s, t)
  <2>1. ASSUME NEW t, NEW s, fits(t, s) PROVE t \in Int /\ s \in Seq(Segments) /\ grown(s, t) \in Seq(Segments)
    <3>1. until_t(grown(s, t), t) BY <1>4, <2>1
    <3>2. QED BY <2>1, <3>1 DEF until_t, Tiled, InOrder
  <2> HIDE DEF fits
  <2>2. \A t \in Int : \A s \in Seq(Segments) : g[<<t, s>>] = IF fits(t, s) THEN grown(s, t) ELSE s
    OBVIOUS
  <2>3. g \in [Int \X Seq(Segments) -> Seq(Segments)] BY <2>1
  <2>4. \A t, s : fits(t, s) => s \in Seq(Segments) /\ g[<<t, s>>] = grown(s, t) BY <2>1, <2>2
  <2>5. QED BY <2>3, <2>4
<1>6. PICK f : Recursive(f, a, b, Seq(Segments), <<>>, g)
  <2> HIDE DEF g
  <2>1. <<>> \in Seq(Segments) BY EmptySeq
  <2>2. QED BY <1>5, <2>1, Recursion, Zenon
<1>7. /\ f \in [a .. b -> Seq(Segments)] /\ f[a] = <<>>
      /\ \A t \in a .. b : t # a => f[t] = g[<<t, f[t - 1]>>]
  BY <1>6 DEF Recursive
<1> HIDE DEF g
<1>8. \A t \in a .. b : until_t(f[t], t)
  <2> DEFINE G == {t \in a .. b : until_t(f[t], t)}
  <2>1. a \in G
    <3>1. Tiled(<<>>, F, a, z, Following(boundaries, a, b)) BY EmptySeq DEF Tiled, InOrder
    <3>2. QED BY <1>7, <3>1 DEF until_t
  <2>2. ASSUME NEW t \in a .. b, t # a, t - 1 \in G PROVE t \in G
    <3>1. until_t(f[t - 1], t - 1) BY <2>2
    <3>2. fits(t, f[t - 1]) BY <2>2, <3>1
    <3>3. f[t] = grown(f[t - 1], t)
      <4> HIDE DEF fits
      <4>1. QED BY <1>5, <1>7, <2>2, <3>2
    <3>4. until_t(grown(f[t - 1], t), t) BY <1>4, <2>2, <3>1
    <3>5. QED BY <2>2, <3>3, <3>4
  <2>3. \A t \in a .. b : t \in G
    <3> HIDE DEF G
    <3> QED BY <2>1, <2>2, Throughout, Zenon
  <2>4. QED BY <2>3
<1>9. \A t \in a .. b : t # a => f[t] = grown(f[t - 1], t)
  <2>1. SUFFICES ASSUME NEW t \in a .. b, t # a PROVE f[t] = grown(f[t - 1], t) OBVIOUS
  <2>2. t - 1 \in a .. b BY <2>1
  <2>3. fits(t, f[t - 1]) BY <1>8, <2>1, <2>2
  <2> HIDE DEF fits
  <2>4. QED BY <1>5, <1>7, <2>1, <2>3
<1>10. f = [t \in window.from .. window.to |->
              IF t = window.from THEN <<>>
              ELSE IF t - 1 \in boundaries THEN f[t - 1] \o segments(t - 1) ELSE f[t - 1]]
  BY <1>7, <1>9 DEF grown
<1>11. until = [t \in window.from .. window.to |->
              IF t = window.from THEN <<>>
              ELSE IF t - 1 \in boundaries THEN until[t - 1] \o segments(t - 1) ELSE until[t - 1]]
  BY <1>10
<1> HIDE DEF until
<1>12. until[a] = <<>> /\ \A t \in a .. b : t # a => until[t] = grown(until[t - 1], t)
  <2>1. window.from = a /\ window.to = b OBVIOUS
  <2>2. until[a] = <<>> BY <1>11, <2>1
  <2>3. ASSUME NEW t \in a .. b, t # a PROVE until[t] = grown(until[t - 1], t)
    BY <1>11, <2>1, <2>3 DEF grown
  <2>4. QED BY <2>2, <2>3
<1>13. \A t \in a .. b : until[t] = f[t]
  <2> DEFINE G == {t \in a .. b : until[t] = f[t]}
  <2>1. a \in G BY <1>7, <1>12
  <2>2. ASSUME NEW t \in a .. b, t # a, t - 1 \in G PROVE t \in G
    BY <1>9, <1>12, <2>2
  <2>3. \A t \in a .. b : t \in G
    <3> HIDE DEF G
    <3> QED BY <2>1, <2>2, Throughout, Zenon
  <2>4. QED BY <2>3
<1>14. Tiled(until[b], F, a, z, b)
  <2>1. b <= b OBVIOUS
  <2>2. Following(boundaries, b, b) \in Int /\ Following(boundaries, b, b) <= b /\ b <= Following(boundaries, b, b)
    BY <1>2, <2>1, FollowingIs, Zenon
  <2>3. Following(boundaries, b, b) = b BY <2>2
  <2>4. until_t(until[b], b) BY <1>8, <1>13
  <2>5. QED BY <2>3, <2>4 DEF until_t
<1>15. QED BY <1>1, <1>14 DEF boundaries

\* They are in order.
LEMMA SamplesInOrder ==
    ASSUME ConstantsOK, NEW C, \A c \in C : c.ts \in Int, NEW isDown \in BOOLEAN,
           NEW window, NEW a \in Int, NEW b \in Int, window.from = a, window.to = b, a <= b
    PROVE  Placed(segmentsFromSamples(C, window, isDown), window)
BY SamplesTile DEF Tiled, Placed

-----------------------------------------------------------------------------
(* The day. *)

\* The checks are finitely many.
Recorded == CheckTypeOK /\ IsFiniteSet(checks)

LEMMA CheckInitRecorded == ConstantsOK /\ CheckInit => Recorded
<1> SUFFICES ASSUME ConstantsOK, CheckInit PROVE Recorded OBVIOUS
<1>1. IsFiniteSet(checks) BY FS_EmptySet DEF CheckInit
<1>2. Start \in Start .. End BY DEF ConstantsOK
<1>3. QED BY <1>1, <1>2 DEF CheckInit, Recorded, CheckTypeOK

LEMMA CheckNextRecorded == ConstantsOK /\ Recorded /\ [CheckNext]_checkVars => Recorded'
<1> SUFFICES ASSUME ConstantsOK, Recorded, [CheckNext]_checkVars PROVE Recorded' OBVIOUS
<1>1. Start \in Nat /\ End \in Nat /\ IsFiniteSet(Sources)
  BY FS_AddElement DEF ConstantsOK, Sources
<1>2. CASE Report
  <2>1. PICK t \in now .. End - 1, who \in SUBSET Sources \ {{}} : \E said \in [who -> Statuses] :
           /\ checks' = checks \union {[ts |-> t, source |-> s, status |-> said[s]] : s \in who}
           /\ now' = t + 1
    BY <1>2 DEF Report
  <2>2. PICK said \in [who -> Statuses] :
           /\ checks' = checks \union {[ts |-> t, source |-> s, status |-> said[s]] : s \in who}
           /\ now' = t + 1
    BY <2>1
  <2> DEFINE new == {[ts |-> t, source |-> s, status |-> said[s]] : s \in who}
  <2>3. t \in Start .. End /\ t + 1 \in Start .. End BY <1>1 DEF Recorded, CheckTypeOK
  <2>4. new \subseteq [ts : Start .. End, source : Sources, status : Statuses] BY <2>3
  <2>5. IsFiniteSet(who) BY <1>1, FS_Subset
  <2>6. IsFiniteSet(new)
    <3> DEFINE f == [s \in who |-> [ts |-> t, source |-> s, status |-> said[s]]]
    <3>1. f \in Surjection(who, new) BY DEF Surjection
    <3> HIDE DEF f, new
    <3>2. QED BY <2>5, <3>1, FS_Surjection
  <2> HIDE DEF new
  <2>7. checks' = checks \union new BY <2>2 DEF new
  <2>8. IsFiniteSet(checks') BY <2>6, <2>7, FS_Union DEF Recorded
  <2>9. windows' = windows /\ markers' = markers BY <1>2 DEF Report
  <2>10. QED BY <2>2, <2>3, <2>4, <2>7, <2>8, <2>9 DEF Recorded, CheckTypeOK
<1>3. CASE Sweep
  <2>1. PICK t \in now .. End - 1 :
           /\ checks' = checks \union {[ts |-> t, source |-> Nobody, status |-> "unknown"]}
           /\ markers' = markers \union {t}
           /\ now' = t + 1
    BY <1>3 DEF Sweep
  <2>2. t \in Start .. End /\ t + 1 \in Start .. End BY <1>1 DEF Recorded, CheckTypeOK
  <2>3. [ts |-> t, source |-> Nobody, status |-> "unknown"] \in [ts : Start .. End, source : Sources, status : Statuses]
    <3>1. "unknown" \in Statuses BY DEF Statuses, SEVERITY_ORDER
    <3>2. Nobody \in Sources BY DEF Sources
    <3>3. QED BY <2>2, <3>1, <3>2
  <2>4. IsFiniteSet(checks') BY <2>1, FS_AddElement DEF Recorded
  <2>5. windows' = windows BY <1>3 DEF Sweep
  <2>6. QED BY <2>1, <2>2, <2>3, <2>4, <2>5 DEF Recorded, CheckTypeOK
<1>4. CASE UNCHANGED checkVars BY <1>4 DEF checkVars, Recorded, CheckTypeOK
<1>5. QED BY <1>2, <1>3, <1>4 DEF CheckNext

\* A day has DayLength intervals.
LEMMA DayIs ==
    ASSUME ConstantsOK, NEW d \in Days
    PROVE  /\ Day(d).from \in Int /\ Day(d).to \in Int /\ Day(d).from <= Day(d).to
           /\ Day(d).to = Day(d).from + DayLength
           /\ (Day(d).to - Day(d).from) * Scale = DayLength * Scale
<1>1. PICK m \in Nat : DayLength = m /\ m > 0 BY DEF ConstantsOK
<1>2. PICK e \in Int : End - 1 = e BY DEF ConstantsOK
<1>3. d \in Int
  <2>1. d = e \div m BY <1>1, <1>2 DEF Days
  <2>2. QED BY <1>1, <2>1
<1>4. (d + 1) * m = d * m + m /\ d * m \in Int BY <1>1, <1>3
<1>5. PICK x \in Int : d * m = x /\ (d + 1) * m = x + m BY <1>4
<1>6. Day(d).from = x /\ Day(d).to = x + m BY <1>1, <1>5 DEF Day
<1>7. (x + m) - x = m BY <1>1
<1>8. QED BY <1>1, <1>6, <1>7

\* In a state that was recorded the four numbers account for the day.
LEMMA DayAddsUp ==
    ASSUME ConstantsOK, Recorded
    PROVE  FourNumbersAddUp
<1> DEFINE accounts(n, all) == /\ n.up >= 0 /\ n.down >= 0 /\ n.excluded >= 0 /\ n.unknown >= 0
                               /\ n.up + n.down + n.excluded + n.unknown = all
<1>1. \A w \in windows : w.from \in Int /\ w.to \in Int BY DEF ConstantsOK, Recorded, CheckTypeOK
<1>2. IsFiniteSet(checks) /\ \A c \in checks : c.ts \in Int BY DEF ConstantsOK, Recorded, CheckTypeOK
<1>3. ASSUME NEW segs, NEW window, NEW X, Placed(segs, window), Apart(X, window),
             NEW a \in Int, NEW b \in Int, window.from = a, window.to = b, a <= b
      PROVE  accounts(count(segs, window, X), (b - a) * Scale)
  BY <1>3, CountAddsUp
<1> HIDE DEF accounts
<1>4. ASSUME NEW d \in Days, NEW isDown \in BOOLEAN
      PROVE  accounts(fromSamples(checks, Day(d), isDown), DayLength * Scale)
  <2>1. PICK a \in Int, b \in Int : Day(d).from = a /\ Day(d).to = b /\ a <= b /\ (b - a) * Scale = DayLength * Scale
    BY DayIs
  <2>2. Apart(normaliseWindows(windows, Day(d)), Day(d)) BY <1>1, <2>1, WindowsApart
  <2>3. Placed(segmentsFromSamples(checks, Day(d), isDown), Day(d)) BY <1>2, <2>1, SamplesInOrder
  <2>4. accounts(count(segmentsFromSamples(checks, Day(d), isDown), Day(d), normaliseWindows(windows, Day(d))),
                 (b - a) * Scale)
    BY <1>3, <2>1, <2>2, <2>3
  <2>5. QED BY <2>1, <2>4 DEF fromSamples
<1>5. ASSUME NEW d \in Days, NEW r \in Resolutions
      PROVE  accounts(fromBuckets(BucketsOf(checks, Day(d), r), Day(d)), DayLength * Scale)
  <2>1. PICK a \in Int, b \in Int : /\ Day(d).from = a /\ Day(d).to = b /\ a <= b /\ b = a + DayLength
                                   /\ (b - a) * Scale = DayLength * Scale
    BY DayIs
  <2> DEFINE B == BucketsOf(checks, Day(d), r)
  <2>2. Apart(normaliseWindows(windows, Day(d)), Day(d)) BY <1>1, <2>1, WindowsApart
  <2>3. InOrder(B, Rows, a, b) BY <1>2, <2>1, RowsInOrder
  <2>4. Placed(segmentsFromBuckets(B), Day(d))
    <3> HIDE DEF B
    <3> QED BY <2>1, <2>3, SegmentsOfRows DEF Placed
  <2>5. accounts(count(segmentsFromBuckets(B), Day(d), normaliseWindows(windows, Day(d))), (b - a) * Scale)
    BY <1>3, <2>1, <2>2, <2>4
  <2>6. QED BY <2>1, <2>5 DEF fromBuckets
<1>6. QED BY <1>4, <1>5 DEF FourNumbersAddUp, accounts

\* Checks, windows, markers and the clock stay what they are declared to be.
THEOREM CheckTypes == CheckSpec => []CheckTypeOK
<1>1. ConstantsOK BY AvailabilityAssumption
<1>2. CheckInit => Recorded BY <1>1, CheckInitRecorded
<1>3. Recorded /\ [CheckNext]_checkVars => Recorded' BY <1>1, CheckNextRecorded
<1>4. Recorded => CheckTypeOK BY DEF Recorded
<1>5. QED BY <1>2, <1>3, <1>4, PTL DEF CheckSpec

\* Up, down, excluded and unknown account for the whole day, whoever reports what and
\* when, whatever windows overlap, from checks and from buckets of any resolution.
THEOREM NumbersAddUp == CheckSpec => []FourNumbersAddUp
<1>1. ConstantsOK BY AvailabilityAssumption
<1>2. CheckInit => Recorded BY <1>1, CheckInitRecorded
<1>3. Recorded /\ [CheckNext]_checkVars => Recorded' BY <1>1, CheckNextRecorded
<1>4. Recorded => FourNumbersAddUp BY <1>1, DayAddsUp
<1>5. QED BY <1>2, <1>3, <1>4, PTL DEF CheckSpec

-----------------------------------------------------------------------------
(* Runs of failing segments. *)

\* A segment of checks where silence is down and nobody reports work: it failed
\* throughout or not at all.
AllOrNothing(s) == s.definite = TRUE /\ s.maintenance = 0 /\ s.unknown = 0 /\ s.down \in {0, Scale}

Failed(s) == s.down = Scale

\* Such segments, each of which begins where the one before ends.
Chain(segs) ==
    /\ Len(segs) \in Nat /\ DOMAIN segs = 1 .. Len(segs)
    /\ \A i \in 1 .. Len(segs) : /\ segs[i].from \in Int /\ segs[i].to \in Int /\ segs[i].from < segs[i].to
                                 /\ AllOrNothing(segs[i])
    /\ \A i, j \in 1 .. Len(segs) : i < j => segs[i].to <= segs[j].from

\* One step of the search for runs.
Run == [start : Int, end : Int, length : Int]
Runs == [runs : SUBSET Run, run : Run]

Step(acc, s) ==
    IF s.unknown = Scale \/ s.maintenance = Scale THEN acc
    ELSE IF s.definite /\ s.down = Scale
    THEN [acc EXCEPT !.run = [start |-> IF @ = NoRun THEN s.from ELSE @.start,
                              end |-> s.to, length |-> @.length + 1]]
    ELSE [runs |-> acc.runs \union {acc.run}, run |-> NoRun]

\* What it does with a segment that failed, and with one that did not.
LEMMA StepIs ==
    ASSUME NEW acc \in Runs, NEW s, s.from \in Int, s.to \in Int, AllOrNothing(s), Scale \in Nat \ {0}
    PROVE  /\ Step(acc, s) \in Runs
           /\ Failed(s) => /\ Step(acc, s).runs = acc.runs
                           /\ Step(acc, s).run.start = IF acc.run = NoRun THEN s.from ELSE acc.run.start
                           /\ Step(acc, s).run.end = s.to
                           /\ Step(acc, s).run.length = acc.run.length + 1
           /\ ~Failed(s) => Step(acc, s) = [runs |-> acc.runs \union {acc.run}, run |-> NoRun]
<1>1. s.unknown # Scale /\ s.maintenance # Scale /\ s.definite = TRUE BY DEF AllOrNothing
<1>2. NoRun \in Run BY DEF NoRun, Run
<1>3. acc.run \in Run /\ acc.runs \in SUBSET Run BY DEF Runs
<1>4. CASE Failed(s)
  <2> DEFINE r == [start |-> IF acc.run = NoRun THEN s.from ELSE acc.run.start,
                   end |-> s.to, length |-> acc.run.length + 1]
  <2>1. Step(acc, s) = [acc EXCEPT !.run = r] BY <1>1, <1>4 DEF Step, Failed
  <2>2. r \in Run BY <1>3 DEF Run
  <2>3. [acc EXCEPT !.run = r] = [runs |-> acc.runs, run |-> r] BY DEF Runs
  <2>4. QED BY <1>3, <1>4, <2>1, <2>2, <2>3 DEF Runs
<1>5. CASE ~Failed(s)
  <2>1. Step(acc, s) = [runs |-> acc.runs \union {acc.run}, run |-> NoRun]
    BY <1>1, <1>5 DEF Step, Failed
  <2>2. QED BY <1>2, <1>3, <1>5, <2>1 DEF Runs
<1>6. QED BY <1>4, <1>5

\* The search is a function of how many segments it has seen.
LEMMA SearchIs ==
    ASSUME Scale \in Nat \ {0}, NEW segs, Chain(segs)
    PROVE  \E f \in [0 .. Len(segs) -> Runs] :
              /\ f[0] = [runs |-> {}, run |-> NoRun]
              /\ \A i \in 1 .. Len(segs) : f[i] = Step(f[i - 1], segs[i])
              /\ failingRuns(segs) = f[Len(segs)].runs \union {f[Len(segs)].run}
<1> DEFINE n == Len(segs)
           base == [runs |-> {}, run |-> NoRun]
           until == CHOOSE until : until = [i \in 0 .. Len(segs) |->
                        IF i = 0 THEN base ELSE Step(until[i - 1], segs[i])]
           g == [p \in Int \X Runs |-> IF p[1] \in 1 .. n THEN Step(p[2], segs[p[1]]) ELSE p[2]]
<1>1. failingRuns(segs) = until[n].runs \union {until[n].run} BY DEF failingRuns, Step
<1>2. n \in Nat BY DEF Chain
<1>3. base \in Runs BY DEF Runs, Run, NoRun
<1>4. \A i \in 1 .. n : \A acc \in Runs : Step(acc, segs[i]) \in Runs BY StepIs DEF Chain
<1>5. g \in [Int \X Runs -> Runs] /\ \A i \in 1 .. n : \A acc \in Runs : g[<<i, acc>>] = Step(acc, segs[i])
  <2>1. g \in [Int \X Runs -> Runs] BY <1>4
  <2>2. ASSUME NEW i \in 1 .. n, NEW acc \in Runs PROVE g[<<i, acc>>] = Step(acc, segs[i])
    <3>1. <<i, acc>> \in Int \X Runs OBVIOUS
    <3>2. QED BY <3>1
  <2>3. QED BY <2>1, <2>2
<1> HIDE DEF n, base, g
<1>6. PICK f : Recursive(f, 0, n, Runs, base, g)
  <2>1. 0 \in Int /\ n \in Int /\ 0 <= n BY <1>2
  <2>2. QED BY <1>3, <1>5, <2>1, Recursion, Zenon
<1>7. f \in [0 .. n -> Runs] /\ f[0] = base /\ \A i \in 1 .. n : f[i] = Step(f[i - 1], segs[i])
  <2>1. f \in [0 .. n -> Runs] /\ f[0] = base /\ \A i \in 0 .. n : i # 0 => f[i] = g[<<i, f[i - 1]>>]
    BY <1>6 DEF Recursive
  <2>2. ASSUME NEW i \in 1 .. n PROVE f[i] = Step(f[i - 1], segs[i])
    <3>1. i \in 0 .. n /\ i # 0 /\ i - 1 \in 0 .. n BY <1>2
    <3>2. f[i - 1] \in Runs /\ f[i] = g[<<i, f[i - 1]>>] BY <2>1, <3>1
    <3>3. QED BY <1>5, <3>2
  <2>3. QED BY <2>1, <2>2
<1>8. f = [i \in 0 .. Len(segs) |-> IF i = 0 THEN base ELSE Step(f[i - 1], segs[i])]
  <2>1. \A i \in 0 .. n : f[i] = IF i = 0 THEN base ELSE Step(f[i - 1], segs[i])
    BY <1>2, <1>7
  <2>2. QED BY <1>7, <2>1 DEF n
<1>9. until = [i \in 0 .. Len(segs) |-> IF i = 0 THEN base ELSE Step(until[i - 1], segs[i])] BY <1>8
<1> HIDE DEF until
<1>10. until[0] = base /\ \A i \in 1 .. n : until[i] = Step(until[i - 1], segs[i])
  <2>1. \A i \in 0 .. n : until[i] = IF i = 0 THEN base ELSE Step(until[i - 1], segs[i]) BY <1>9 DEF n
  <2>2. QED BY <1>2, <2>1
<1>11. \A i \in 0 .. n : until[i] = f[i]
  <2> DEFINE G == {i \in 0 .. n : until[i] = f[i]}
  <2>1. 0 \in G BY <1>2, <1>7, <1>10
  <2>2. \A i \in 0 .. n : i # 0 /\ i - 1 \in G => i \in G BY <1>2, <1>7, <1>10
  <2>3. \A i \in 0 .. n : i \in G
    <3> HIDE DEF G
    <3>1. 0 \in Int /\ n \in Int BY <1>2
    <3>2. QED BY <2>1, <2>2, <3>1, Throughout, Zenon
  <2>4. QED BY <2>3
<1>12. failingRuns(segs) = f[n].runs \union {f[n].run}
  <2>1. until[n] = f[n] BY <1>2, <1>11
  <2>2. QED BY <1>1, <2>1
<1>13. QED BY <1>7, <1>12 DEF n, base

\* With a debounce of two, a segment that failed is in a confirmed run if and only if
\* one beside it failed too.
LEMMA Confirmed ==
    ASSUME Scale \in Nat \ {0}, NEW segs, Chain(segs), NEW j \in 1 .. Len(segs), Failed(segs[j])
    PROVE  (\E r \in {x \in failingRuns(segs) : x.length >= debounce} :
               r.start <= segs[j].from /\ segs[j].to <= r.end)
           <=> (1 < j /\ Failed(segs[j - 1])) \/ (j < Len(segs) /\ Failed(segs[j + 1]))
<1> DEFINE n == Len(segs)
           bad(i) == Failed(segs[i])
           covers(r, i) == r.start <= segs[i].from /\ segs[i].to <= r.end
           beside(i, k) == (1 < i /\ bad(i - 1)) \/ (i < k /\ bad(i + 1))
<1>1. PICK f \in [0 .. n -> Runs] :
         /\ f[0] = [runs |-> {}, run |-> NoRun]
         /\ \A i \in 1 .. n : f[i] = Step(f[i - 1], segs[i])
         /\ failingRuns(segs) = f[n].runs \union {f[n].run}
  BY SearchIs
<1>2. /\ n \in Nat
      /\ \A i \in 1 .. n : /\ segs[i].from \in Int /\ segs[i].to \in Int /\ segs[i].from < segs[i].to
                           /\ AllOrNothing(segs[i])
      /\ \A i, k \in 1 .. n : i < k => segs[i].to <= segs[k].from
  BY DEF Chain
<1> HIDE DEF n
<1> DEFINE len(i) == f[i].run.length
           \* The run under way: the last so many segments, all of which failed.
           current(i) ==
               /\ len(i) \in 0 .. i
               /\ i # 0 => (bad(i) <=> len(i) # 0)
               /\ len(i) = 0 => f[i].run = NoRun
               /\ len(i) # 0 => f[i].run.start = segs[i - len(i) + 1].from /\ f[i].run.end = segs[i].to
               /\ \A k \in i - len(i) + 1 .. i : bad(k)
               /\ len(i) < i => ~bad(i - len(i))
           \* A run that is over is one.
           sound(i) == \A r \in f[i].runs :
               r.length >= 2 => \E p, q \in 1 .. i : /\ p < q /\ r.start = segs[p].from /\ r.end = segs[q].to
                                                     /\ \A k \in p .. q : bad(k)
           \* What failed before the run under way is in a run that is over.
           complete(i) == \A k \in 1 .. i - len(i) :
               bad(k) => \E r \in f[i].runs : covers(r, k) /\ (beside(k, i) => r.length >= 2)
           G == {i \in 0 .. n : current(i) /\ sound(i) /\ complete(i)}
<1>3. 0 \in G
  <2>1. f[0].runs = {} /\ f[0].run = NoRun /\ NoRun.length = 0 BY <1>1 DEF NoRun
  <2>2. QED BY <1>2, <2>1
\* The run under way covers its segments.
<1>3a. ASSUME NEW i \in 0 .. n, current(i), NEW k \in i - len(i) + 1 .. i
       PROVE  covers(f[i].run, k) /\ (beside(k, i) => len(i) >= 2)
  <2>1. PICK l \in 1 .. i : len(i) = l BY <1>2, <1>3a
  <2> HIDE DEF bad
  <2>2. f[i].run.start = segs[i - l + 1].from /\ f[i].run.end = segs[i].to BY <1>3a, <2>1
  <2>3. i \in 1 .. n /\ i - l + 1 \in 1 .. n /\ k \in 1 .. n /\ k \in i - l + 1 .. i BY <1>2, <1>3a, <2>1
  <2>4. segs[i - l + 1].from <= segs[k].from
    <3>1. CASE k = i - l + 1 BY <1>2, <2>3, <3>1
    <3>2. CASE i - l + 1 < k
      <4>1. segs[i - l + 1].to <= segs[k].from BY <1>2, <2>3, <3>2
      <4>2. segs[i - l + 1].from < segs[i - l + 1].to BY <1>2, <2>3
      <4>3. segs[i - l + 1].from \in Int /\ segs[i - l + 1].to \in Int /\ segs[k].from \in Int BY <1>2, <2>3
      <4>4. QED BY <4>1, <4>2, <4>3
    <3>3. QED BY <2>3, <3>1, <3>2
  <2>5. segs[k].to <= segs[i].to
    <3>1. CASE k = i BY <1>2, <2>3, <3>1
    <3>2. CASE k < i
      <4>1. segs[k].to <= segs[i].from BY <1>2, <2>3, <3>2
      <4>2. segs[i].from < segs[i].to BY <1>2, <2>3
      <4>3. segs[i].from \in Int /\ segs[i].to \in Int /\ segs[k].to \in Int BY <1>2, <2>3
      <4>4. QED BY <4>1, <4>2, <4>3
    <3>3. QED BY <2>3, <3>1, <3>2
  <2>6. beside(k, i) => l >= 2
    <3>1. SUFFICES ASSUME l = 1, beside(k, i) PROVE FALSE BY <2>1
    <3>2. k = i /\ 1 < i /\ bad(i - 1) BY <2>3, <3>1
    <3>3. QED BY <1>3a, <2>1, <3>1, <3>2
  <2>7. QED BY <2>1, <2>2, <2>4, <2>5, <2>6
<1>4. ASSUME NEW i \in 0 .. n, i # 0, i - 1 \in G PROVE i \in G
  <2>1. i \in 1 .. n /\ i - 1 \in 0 .. n BY <1>2, <1>4
  <2>2. PICK m \in Nat : m = i - 1 /\ i = m + 1 BY <1>2, <1>4
  <2>3. current(m) /\ sound(m) /\ complete(m) /\ f[m] \in Runs BY <1>1, <1>4, <2>1, <2>2
  <2>4. f[i] = Step(f[m], segs[i]) BY <1>1, <2>1, <2>2
  <2>5. PICK l \in 0 .. m : len(m) = l BY <2>3
  <2> HIDE DEF G, bad
  <2>6. CASE bad(i)
    <3>1. /\ f[i].runs = f[m].runs /\ f[i].run.end = segs[i].to /\ len(i) = l + 1
          /\ f[i].run.start = IF f[m].run = NoRun THEN segs[i].from ELSE f[m].run.start
      <4>1. segs[i].from \in Int /\ segs[i].to \in Int /\ AllOrNothing(segs[i]) /\ Failed(segs[i])
        BY <1>2, <2>1, <2>6 DEF bad
      <4>2. /\ Step(f[m], segs[i]).runs = f[m].runs /\ Step(f[m], segs[i]).run.end = segs[i].to
            /\ Step(f[m], segs[i]).run.start = IF f[m].run = NoRun THEN segs[i].from ELSE f[m].run.start
            /\ Step(f[m], segs[i]).run.length = f[m].run.length + 1
        BY <2>3, <4>1, StepIs, Zenon
      <4>3. QED BY <2>4, <2>5, <4>2
    <3>2. f[m].run = NoRun <=> l = 0
      <4>1. NoRun.length = 0 BY DEF NoRun
      <4>2. QED BY <2>3, <2>5, <4>1
    <3>3. f[i].run.start = segs[i - len(i) + 1].from
      <4>1. CASE l = 0
        <5>1. f[i].run.start = segs[i].from BY <3>1, <3>2, <4>1
        <5>2. i - len(i) + 1 = i BY <2>2, <3>1, <4>1
        <5>3. QED BY <5>1, <5>2
      <4>2. CASE l # 0
        <5>1. f[i].run.start = segs[m - l + 1].from BY <2>3, <2>5, <3>1, <3>2, <4>2
        <5>2. i - len(i) + 1 = m - l + 1 BY <2>2, <3>1
        <5>3. QED BY <5>1, <5>2
      <4>3. QED BY <4>1, <4>2
    <3>4. \A k \in i - len(i) + 1 .. i : bad(k) BY <2>2, <2>3, <2>5, <2>6, <3>1
    <3>5. len(i) < i => ~bad(i - len(i))
      <4>1. i - len(i) = m - l BY <2>2, <3>1
      <4>2. QED BY <2>2, <2>3, <2>5, <3>1, <4>1
    <3>6. current(i)
      <4>1. len(i) \in 0 .. i /\ len(i) # 0 BY <2>2, <2>5, <3>1
      <4>2. f[i].run.end = segs[i].to BY <3>1
      <4> HIDE DEF len
      <4>3. QED BY <2>6, <3>3, <3>4, <3>5, <4>1, <4>2
    <3>7. sound(i)
      <4>1. \A p \in 1 .. m : p \in 1 .. i BY <2>2
      <4>2. QED BY <2>3, <3>1, <4>1
    <3>8. complete(i)
      <4>1. ASSUME NEW k \in 1 .. i - len(i), bad(k)
            PROVE  \E r \in f[i].runs : covers(r, k) /\ (beside(k, i) => r.length >= 2)
        <5>1. k \in 1 .. m - l BY <2>2, <3>1
        <5>2. PICK r \in f[m].runs : covers(r, k) /\ (beside(k, m) => r.length >= 2)
          BY <2>3, <2>5, <4>1, <5>1
        <5>3. k # m
          <6>1. SUFFICES ASSUME k = m PROVE FALSE OBVIOUS
          <6>2. l = 0 /\ m # 0 BY <2>5, <5>1, <6>1
          <6>3. QED BY <2>3, <2>5, <4>1, <6>1, <6>2
        <5>4. beside(k, i) => beside(k, m) BY <2>2, <2>5, <5>1, <5>3
        <5>5. QED BY <3>1, <5>2, <5>4
      <4>2. QED BY <4>1
    <3>9. QED BY <2>1, <3>6, <3>7, <3>8 DEF G
  <2>7. CASE ~bad(i)
    <3>1. f[i].runs = f[m].runs \union {f[m].run} /\ f[i].run = NoRun /\ len(i) = 0
      <4>1. f[i] = [runs |-> f[m].runs \union {f[m].run}, run |-> NoRun]
        BY <1>2, <2>1, <2>3, <2>4, <2>7, StepIs DEF bad
      <4>2. NoRun.length = 0 BY DEF NoRun
      <4>3. QED BY <4>1, <4>2
    <3>2. current(i) BY <2>2, <2>7, <3>1
    <3>3. sound(i)
      <4>1. ASSUME NEW r \in f[i].runs, r.length >= 2
            PROVE  \E p, q \in 1 .. i : /\ p < q /\ r.start = segs[p].from /\ r.end = segs[q].to
                                        /\ \A k \in p .. q : bad(k)
        <5>1. CASE r \in f[m].runs
          <6>1. \A p \in 1 .. m : p \in 1 .. i BY <2>2
          <6>2. QED BY <2>3, <4>1, <5>1, <6>1
        <5>2. CASE r = f[m].run
          <6>1. l >= 2 BY <2>5, <4>1, <5>2
          <6>2. PICK p \in 1 .. i : p = m - l + 1 /\ p < m BY <2>2, <2>5, <6>1
          <6>3. m \in 1 .. i BY <2>2, <2>5, <6>1
          <6>4. r.start = segs[p].from /\ r.end = segs[m].to BY <2>3, <2>5, <5>2, <6>1, <6>2
          <6>5. \A k \in p .. m : bad(k) BY <2>3, <2>5, <6>2
          <6>6. QED BY <6>2, <6>3, <6>4, <6>5
        <5>3. QED BY <3>1, <4>1, <5>1, <5>2
      <4>2. QED BY <4>1
    <3>4. complete(i)
      <4>1. ASSUME NEW k \in 1 .. i - len(i), bad(k)
            PROVE  \E r \in f[i].runs : covers(r, k) /\ (beside(k, i) => r.length >= 2)
        <5>1. k \in 1 .. m BY <2>2, <2>7, <3>1, <4>1
        <5>2. beside(k, i) => beside(k, m) BY <2>2, <2>7, <5>1
        <5>3. CASE k \in 1 .. m - l
          <6>1. PICK r \in f[m].runs : covers(r, k) /\ (beside(k, m) => r.length >= 2)
            BY <2>3, <2>5, <4>1, <5>3
          <6>2. QED BY <3>1, <5>2, <6>1
        <5>4. CASE k \in m - l + 1 .. m
          <6>1. covers(f[m].run, k) /\ (beside(k, m) => len(m) >= 2) BY <1>3a, <2>1, <2>2, <2>3, <2>5, <5>4
          <6>2. QED BY <3>1, <5>2, <6>1
        <5>5. QED BY <2>5, <5>1, <5>3, <5>4
      <4>2. QED BY <4>1
    <3>5. QED BY <2>1, <3>2, <3>3, <3>4 DEF G
  <2>8. QED BY <2>6, <2>7
<1>5. current(n) /\ sound(n) /\ complete(n)
  <2>1. \A i \in 0 .. n : i \in G
    <3> HIDE DEF G
    <3>1. 0 \in Int /\ n \in Int BY <1>2
    <3>2. QED BY <1>3, <1>4, <3>1, Throughout, Zenon
  <2>2. n \in 0 .. n BY <1>2
  <2>3. QED BY <2>1, <2>2
<1> HIDE DEF bad
\* Whatever segments a run spans, one of them that it covers has one of them beside it.
<1>6. ASSUME NEW r, NEW p \in 1 .. n, NEW q \in 1 .. n, p < q, r.start = segs[p].from, r.end = segs[q].to,
             \A k \in p .. q : bad(k), covers(r, j)
      PROVE  beside(j, n)
  <2>1. j \in 1 .. n BY DEF n
  <2>2. p <= j
    <3>1. SUFFICES ASSUME j < p PROVE FALSE BY <2>1
    <3>2. segs[j].to <= segs[p].from BY <1>2, <2>1, <3>1
    <3>3. segs[j].from < segs[j].to /\ segs[p].from <= segs[j].from BY <1>2, <1>6, <2>1
    <3>4. segs[j].from \in Int /\ segs[j].to \in Int /\ segs[p].from \in Int BY <1>2, <2>1
    <3>5. QED BY <3>2, <3>3, <3>4
  <2>3. j <= q
    <3>1. SUFFICES ASSUME q < j PROVE FALSE BY <2>1
    <3>2. segs[q].to <= segs[j].from BY <1>2, <2>1, <3>1
    <3>3. segs[j].from < segs[j].to /\ segs[j].to <= segs[q].to BY <1>2, <1>6, <2>1
    <3>4. segs[j].from \in Int /\ segs[j].to \in Int /\ segs[q].to \in Int BY <1>2, <2>1
    <3>5. QED BY <3>2, <3>3, <3>4
  <2>4. CASE j < q
    <3>1. j + 1 \in p .. q /\ j < n BY <1>2, <2>1, <2>2, <2>4
    <3>2. QED BY <1>6, <3>1
  <2>5. CASE j = q
    <3>1. j - 1 \in p .. q /\ 1 < j BY <1>6, <2>1, <2>5
    <3>2. QED BY <1>6, <3>1
  <2>6. QED BY <2>1, <2>3, <2>4, <2>5
<1>7. ASSUME NEW r \in failingRuns(segs), r.length >= 2, covers(r, j) PROVE beside(j, n)
  <2>1. CASE r \in f[n].runs
    <3>1. PICK p, q \in 1 .. n : /\ p < q /\ r.start = segs[p].from /\ r.end = segs[q].to
                                 /\ \A k \in p .. q : bad(k)
      BY <1>5, <1>7, <2>1
    <3>2. QED BY <1>6, <1>7, <3>1
  <2>2. CASE r = f[n].run
    <3>1. PICK l \in 2 .. n : len(n) = l BY <1>2, <1>5, <1>7, <2>2
    <3>2. PICK p \in 1 .. n : p = n - l + 1 /\ p < n BY <1>2, <3>1
    <3>3. n \in 1 .. n BY <1>2, <3>1
    <3>4. r.start = segs[p].from /\ r.end = segs[n].to BY <1>5, <2>2, <3>1, <3>2
    <3>5. \A k \in p .. n : bad(k) BY <1>5, <3>1, <3>2
    <3>6. QED BY <1>6, <1>7, <3>2, <3>3, <3>4, <3>5
  <2>3. QED BY <1>1, <1>7, <2>1, <2>2
<1>8. ASSUME beside(j, n) PROVE \E r \in failingRuns(segs) : r.length >= 2 /\ covers(r, j)
  <2>1. j \in 1 .. n /\ bad(j) BY DEF n, bad
  <2>2. CASE j \in 1 .. n - len(n)
    <3>1. PICK r \in f[n].runs : covers(r, j) /\ (beside(j, n) => r.length >= 2) BY <1>5, <2>1, <2>2
    <3>2. QED BY <1>1, <1>8, <3>1
  <2>3. CASE j \in n - len(n) + 1 .. n
    <3>1. n \in 0 .. n BY <1>2
    <3>2. covers(f[n].run, j) /\ len(n) >= 2 BY <1>3a, <1>5, <1>8, <2>3, <3>1
    <3>3. QED BY <1>1, <3>2
  <2>4. QED BY <1>2, <1>5, <2>1, <2>2, <2>3
<1>9. QED BY <1>7, <1>8 DEF n, bad, debounce

-----------------------------------------------------------------------------
(* A sum over segments as one over instants. *)

\* Of a span, the parts that lie outside planned work.
Weight(from, to, W) == Outside(from, to, W) * Scale

LEMMA WeightAdds ==
    ASSUME Scale \in Nat, NEW W, NEW within, Apart(W, within),
           NEW a \in Int, NEW b \in Int, NEW c \in Int, a <= b, b <= c
    PROVE  /\ Weight(a, b, W) \in Int /\ Weight(b, c, W) \in Int
           /\ Weight(a, c, W) = Weight(a, b, W) + Weight(b, c, W)
           /\ Weight(a, a, W) = 0
<1>1. /\ Outside(a, b, W) \in Int /\ Outside(b, c, W) \in Int
      /\ Outside(a, c, W) = Outside(a, b, W) + Outside(b, c, W)
  BY OutsideAdds
<1>2. PICK p \in Int, q \in Int : Outside(a, b, W) = p /\ Outside(b, c, W) = q /\ Outside(a, c, W) = p + q
  BY <1>1
<1>3. Outside(a, a, W) = 0
  <2>1. a <= a OBVIOUS
  <2>2. Outside(a, a, W) \in Int /\ Outside(a, a, W) = Outside(a, a, W) + Outside(a, a, W)
    BY <2>1, OutsideAdds, Zenon
  <2>3. PICK o \in Int : Outside(a, a, W) = o /\ o = o + o BY <2>2
  <2>4. QED BY <2>3
<1>4. (p + q) * Scale = p * Scale + q * Scale /\ p * Scale \in Int /\ q * Scale \in Int /\ 0 * Scale = 0
  OBVIOUS
<1>5. QED BY <1>2, <1>3, <1>4 DEF Weight

\* What is charged of the instants in B, until t.
Charges(Q, B, W, a, b) ==
    /\ Q \in [a .. b -> Int] /\ Q[a] = 0
    /\ \A t \in a .. b : t # a => Q[t] = Q[t - 1] + (IF t - 1 \in B THEN Weight(t - 1, t, W) ELSE 0)

LEMMA ChargesExist ==
    ASSUME Scale \in Nat, NEW W, NEW within, Apart(W, within), NEW a \in Int, NEW b \in Int, a <= b, NEW B
    PROVE  \E Q : Charges(Q, B, W, a, b)
<1> DEFINE g == [p \in Int \X Int |-> p[2] + (IF p[1] - 1 \in B THEN Weight(p[1] - 1, p[1], W) ELSE 0)]
<1>1. g \in [Int \X Int -> Int]
  <2>1. ASSUME NEW t \in Int PROVE Weight(t - 1, t, W) \in Int
    <3>1. t - 1 \in Int /\ t - 1 <= t /\ t <= t OBVIOUS
    <3>2. QED BY <3>1, WeightAdds
  <2>2. ASSUME NEW p \in Int \X Int
        PROVE  p[2] + (IF p[1] - 1 \in B THEN Weight(p[1] - 1, p[1], W) ELSE 0) \in Int
    <3>1. p[1] \in Int /\ p[2] \in Int OBVIOUS
    <3>2. Weight(p[1] - 1, p[1], W) \in Int BY <2>1, <3>1
    <3>3. QED BY <3>1, <3>2
  <2>3. QED BY <2>2
<1>2. \A t, x \in Int : g[<<t, x>>] = x + (IF t - 1 \in B THEN Weight(t - 1, t, W) ELSE 0) OBVIOUS
<1> HIDE DEF g
<1>3. PICK Q : Recursive(Q, a, b, Int, 0, g)
  <2>1. 0 \in Int OBVIOUS
  <2>2. QED BY <1>1, <2>1, Recursion, Zenon
<1>4. Q \in [a .. b -> Int] /\ Q[a] = 0 /\ \A t \in a .. b : t # a => Q[t] = g[<<t, Q[t - 1]>>]
  BY <1>3 DEF Recursive
<1>5. ASSUME NEW t \in a .. b, t # a
      PROVE  Q[t] = Q[t - 1] + (IF t - 1 \in B THEN Weight(t - 1, t, W) ELSE 0)
  <2>1. t \in Int /\ t - 1 \in a .. b BY <1>5
  <2>2. Q[t - 1] \in Int BY <1>4, <2>1
  <2>3. QED BY <1>2, <1>4, <1>5, <2>1, <2>2
<1>6. QED BY <1>4, <1>5 DEF Charges

\* Over a span that is in B or not, they are its weight or nothing.
LEMMA ChargesOver ==
    ASSUME Scale \in Nat, NEW W, NEW within, Apart(W, within), NEW a \in Int, NEW b \in Int, NEW B,
           NEW Q, Charges(Q, B, W, a, b),
           NEW x \in a .. b, NEW y \in a .. b, x < y, \A t \in x .. y - 1 : t \in B <=> x \in B
    PROVE  Q[y] = Q[x] + (IF x \in B THEN Weight(x, y, W) ELSE 0)
<1>0. PICK in \in BOOLEAN : in <=> x \in B OBVIOUS
<1> DEFINE G == {t \in x .. y : Q[t] = Q[x] + (IF in THEN Weight(x, t, W) ELSE 0)}
<1>1. x \in Int /\ y \in Int /\ Q[x] \in Int BY DEF Charges
<1>2. x \in G
  <2>1. Weight(x, x, W) = 0 BY <1>1, WeightAdds
  <2>2. x \in x .. y BY <1>1
  <2>3. QED BY <1>1, <2>1, <2>2
<1>3. ASSUME NEW t \in x .. y, t # x, t - 1 \in G PROVE t \in G
  <2>1. PICK u \in Int : u = t - 1 /\ t = u + 1 /\ x <= u /\ u \in x .. y - 1 /\ t \in a .. b /\ t # a
    BY <1>1, <1>3
  <2>2. Q[t] = Q[u] + (IF in THEN Weight(u, t, W) ELSE 0)
    <3>1. u \in B <=> in BY <1>0, <2>1
    <3>2. QED BY <2>1, <3>1 DEF Charges
  <2>3. Q[u] = Q[x] + (IF in THEN Weight(x, u, W) ELSE 0) BY <1>3, <2>1
  <2>4. Weight(x, u, W) \in Int /\ Weight(u, t, W) \in Int /\ Weight(x, t, W) = Weight(x, u, W) + Weight(u, t, W)
    <3>1. t \in Int /\ u <= t BY <2>1
    <3>2. QED BY <1>1, <2>1, <3>1, WeightAdds
  <2>5. Q[t] = Q[x] + (IF in THEN Weight(x, t, W) ELSE 0) BY <1>1, <2>2, <2>3, <2>4
  <2>6. QED BY <2>5
<1>4. \A t \in x .. y : t \in G
  <2> HIDE DEF G
  <2>1. QED BY <1>1, <1>2, <1>3, Throughout, Zenon
<1>5. Q[y] = Q[x] + (IF in THEN Weight(x, y, W) ELSE 0)
  <2>1. y \in x .. y BY <1>1
  <2>2. QED BY <1>4, <2>1
<1>6. QED BY <1>0, <1>5

\* A sum over segments, each of which lies in B or outside.
LEMMA SumIsCharges ==
    ASSUME Scale \in Nat, NEW W, NEW within, Apart(W, within), NEW F, NEW s,
           NEW a \in Int, NEW z \in Int, NEW b \in Int, a <= z, z <= b, Tiled(s, F, a, z, b),
           NEW B, \A x \in B : x \in Int /\ z <= x,
           NEW Q, Charges(Q, B, W, a, b),
           NEW d, d \in [1 .. Len(s) -> Int],
           \A i \in 1 .. Len(s) :
               /\ d[i] = IF s[i].from \in B THEN Weight(s[i].from, s[i].to, W) ELSE 0
               /\ \A x \in s[i].from .. s[i].to - 1 : x \in B <=> s[i].from \in B
    PROVE  total(d) = Q[b]
<1> DEFINE n == Len(s)
<1>1. /\ n \in Nat /\ DOMAIN s = 1 .. n
      /\ \A i \in 1 .. n : s[i].from \in a .. b /\ s[i].to \in a .. b /\ s[i].from < s[i].to
      /\ \A i \in 1 .. n : i + 1 \in 1 .. n => s[i].to = s[i + 1].from
      /\ n # 0 => s[1].from = z /\ s[n].to = b
      /\ n = 0 => z = b
  <2>1. s \in Seq(Segments) /\ InOrder(s, Segments, a, b) BY DEF Tiled, InOrder
  <2>2. n \in Nat /\ DOMAIN s = 1 .. n /\ (s = <<>> <=> n = 0) BY <2>1, EmptySeq
  <2>3. \A i \in 1 .. n : s[i].from \in Int /\ s[i].to \in Int /\ a <= s[i].from /\ s[i].from <= s[i].to /\ s[i].to <= b
    BY <2>1, <2>2 DEF InOrder
  <2>4. \A i \in 1 .. n : s[i].from \in a .. b /\ s[i].to \in a .. b BY <2>3
  <2>5. /\ \A i \in 1 .. n : s[i].from < s[i].to
        /\ \A i \in 1 .. n : i + 1 \in 1 .. n => s[i].to = s[i + 1].from
        /\ n # 0 => s[1].from = z /\ s[n].to = b
        /\ n = 0 => z = b
    BY <2>2 DEF Tiled
  <2>6. QED BY <2>2, <2>4, <2>5
<1>2. Q[z] = 0
  <2>1. a \in a .. b /\ z \in a .. b OBVIOUS
  <2>2. CASE a = z BY <2>2 DEF Charges
  <2>3. CASE a < z
    <3>1. a \notin B /\ \A t \in a .. z - 1 : t \in B <=> a \in B BY <2>3
    <3>2. Q[z] = Q[a] + (IF a \in B THEN Weight(a, z, W) ELSE 0) BY <2>1, <2>3, <3>1, ChargesOver
    <3>3. QED BY <3>1, <3>2 DEF Charges
  <2>4. QED BY <2>2, <2>3
<1>3. ASSUME NEW i \in 1 .. n PROVE Q[s[i].to] = Q[s[i].from] + d[i]
  <2>1. PICK x \in a .. b, y \in a .. b : s[i].from = x /\ s[i].to = y /\ x < y BY <1>1
  <2>2. d[i] = (IF x \in B THEN Weight(x, y, W) ELSE 0) /\ \A t \in x .. y - 1 : t \in B <=> x \in B
    BY <2>1 DEF n
  <2>3. Q[y] = Q[x] + (IF x \in B THEN Weight(x, y, W) ELSE 0) BY <2>1, <2>2, ChargesOver
  <2>4. QED BY <2>1, <2>2, <2>3
<1>4. PICK f \in [0 .. n -> Int] : f[0] = 0 /\ (\A i \in 1 .. n : f[i] = f[i - 1] + d[i]) /\ total(d) = f[n]
  BY <1>1, PartialSums DEF n
<1>5. CASE n = 0 BY <1>1, <1>2, <1>4, <1>5
<1>6. CASE n # 0
  <2> DEFINE G == {i \in 1 .. n : f[i] = Q[s[i].to]}
  <2> HIDE DEF n
  <2>0. \A i \in 1 .. n : Q[s[i].from] \in Int /\ Q[s[i].to] \in Int /\ d[i] \in Int BY <1>1 DEF Charges, n
  <2>1. 1 \in G
    <3>1. 1 \in 1 .. n /\ f[1] = f[0] + d[1] BY <1>1, <1>4, <1>6
    <3>2. Q[s[1].to] = Q[z] + d[1] BY <1>1, <1>3, <1>6, <3>1
    <3>3. QED BY <1>2, <1>4, <3>1, <3>2
  <2>2. ASSUME NEW i \in 1 .. n, i # 1, i - 1 \in G PROVE i \in G
    <3>1. PICK k \in 1 .. n : k = i - 1 /\ i = k + 1 BY <1>1, <2>2
    <3>2. f[i] = f[k] + d[i] /\ f[k] = Q[s[k].to] BY <1>4, <2>2, <3>1
    <3>3. s[k].to = s[i].from BY <1>1, <3>1
    <3>4. QED BY <1>3, <3>2, <3>3
  <2>3. \A i \in 1 .. n : i \in G
    <3> HIDE DEF G
    <3>1. 1 \in Int /\ n \in Int BY <1>1
    <3>2. QED BY <2>1, <2>2, <3>1, Throughout, Zenon
  <2>4. n \in 1 .. n BY <1>1, <1>6
  <2>5. f[n] = Q[s[n].to] BY <2>3, <2>4
  <2>6. QED BY <1>1, <1>4, <1>6, <2>5
<1>7. QED BY <1>5, <1>6

-----------------------------------------------------------------------------
(* What is down, instant by instant. *)

\* A segment that is charged: from silence, or with a failure beside it.
Charged(segs, i) ==
    Failed(segs[i]) /\ \/ segs[i].fromSilence
                       \/ 1 < i /\ Failed(segs[i - 1])
                       \/ i < Len(segs) /\ Failed(segs[i + 1])

\* What each segment is charged.
ChargedOf(d, segs, W) ==
    /\ d \in [1 .. Len(segs) -> Int]
    /\ \A i \in 1 .. Len(segs) : d[i] = IF Charged(segs, i) THEN Weight(segs[i].from, segs[i].to, W) ELSE 0

LEMMA DownOfChain ==
    ASSUME Scale \in Nat \ {0}, NEW segs, Chain(segs), NEW window, NEW W, NEW within, Apart(W, within),
           \A i \in 1 .. Len(segs) : segs[i].fromSilence \in BOOLEAN
    PROVE  \E d : ChargedOf(d, segs, W) /\ count(segs, window, W).down = total(d)
<1> DEFINE n == Len(segs)
           span(s) == durationOutside(s.from, s.to, W)
           confirmed == {r \in failingRuns(segs) : r.length >= debounce}
           charged(s) == s.fromSilence \/ ~s.definite
                         \/ \E r \in confirmed : r.start <= s.from /\ s.to <= r.end
           d == [i \in DOMAIN segs |-> IF charged(segs[i]) THEN span(segs[i]) * segs[i].down ELSE 0]
<1>1. count(segs, window, W).down = total(d) BY DEF count
<1>2. /\ n \in Nat /\ DOMAIN segs = 1 .. n
      /\ \A i \in 1 .. n : /\ segs[i].from \in Int /\ segs[i].to \in Int /\ segs[i].from < segs[i].to
                           /\ segs[i].definite = TRUE /\ segs[i].down \in {0, Scale}
  BY DEF Chain, AllOrNothing
<1>3. ASSUME NEW i \in 1 .. n
      PROVE  d[i] = (IF Charged(segs, i) THEN Weight(segs[i].from, segs[i].to, W) ELSE 0) /\ d[i] \in Int
  <2>1. span(segs[i]) = Outside(segs[i].from, segs[i].to, W) /\ span(segs[i]) \in Nat
    <3>1. segs[i].from \in Int /\ segs[i].to \in Int /\ segs[i].from <= segs[i].to BY <1>2
    <3>2. QED BY <3>1, DurationOutside
  <2>2. d[i] = IF charged(segs[i]) THEN span(segs[i]) * segs[i].down ELSE 0 BY <1>2
  <2>3. CASE Failed(segs[i])
    <3>1. (\E r \in confirmed : r.start <= segs[i].from /\ segs[i].to <= r.end)
          <=> (1 < i /\ Failed(segs[i - 1])) \/ (i < n /\ Failed(segs[i + 1]))
      BY <2>3, Confirmed
    <3>2. charged(segs[i]) <=> Charged(segs, i) BY <1>2, <2>3, <3>1 DEF Charged
    <3>3. span(segs[i]) * segs[i].down = Weight(segs[i].from, segs[i].to, W) BY <2>1, <2>3 DEF Failed, Weight
    <3>4. span(segs[i]) * segs[i].down \in Int
      <4>1. segs[i].down \in Int BY <1>2
      <4> HIDE DEF span
      <4>2. QED BY <2>1, <4>1
    <3> HIDE DEF charged, span, d
    <3>5. QED BY <2>2, <3>2, <3>3, <3>4
  <2>4. CASE ~Failed(segs[i])
    <3>1. segs[i].down = 0 BY <1>2, <2>4 DEF Failed
    <3>2. span(segs[i]) * segs[i].down = 0
      <4> HIDE DEF span
      <4>1. QED BY <2>1, <3>1
    <3>3. ~Charged(segs, i) BY <2>4 DEF Charged
    <3> HIDE DEF charged, span, d
    <3>4. QED BY <2>2, <3>2, <3>3
  <2>5. QED BY <2>3, <2>4
<1>4. d \in [1 .. n -> Int]
  <2>1. d = [i \in 1 .. n |-> d[i]] BY <1>2
  <2> HIDE DEF d
  <2>2. QED BY <1>3, <2>1
<1> HIDE DEF d
<1>5. QED BY <1>1, <1>3, <1>4 DEF n, ChargedOf

\* The instants of such segments.
DownAt(F, z, b) ==
    {x \in z .. b - 1 :
        Failed(F[x]) /\ \/ F[x].fromSilence
                        \/ z < F[x].from /\ Failed(F[F[x].from - 1])
                        \/ F[x].to < b /\ Failed(F[F[x].to])}

LEMMA ChargedAt ==
    ASSUME NEW F, NEW s, NEW a \in Int, NEW z \in Int, NEW b \in Int, Tiled(s, F, a, z, b),
           NEW i \in 1 .. Len(s), NEW x \in s[i].from .. s[i].to - 1
    PROVE  x \in DownAt(F, z, b) <=> Charged(s, i)
<1> DEFINE n == Len(s)
<1>1. /\ n \in Nat /\ DOMAIN s = 1 .. n
      /\ \A k \in 1 .. n : s[k].from \in Int /\ s[k].to \in Int /\ s[k].from < s[k].to
      /\ \A k, l \in 1 .. n : k < l => s[k].to <= s[l].from
      /\ \A k \in 1 .. n : k + 1 \in 1 .. n => s[k].to = s[k + 1].from
      /\ s[1].from = z /\ s[n].to = b
      /\ \A k \in 1 .. n : \A y \in s[k].from .. s[k].to - 1 : s[k] = F[y]
  <2>1. s \in Seq(Segments) BY DEF Tiled, InOrder
  <2>2. n \in Nat /\ DOMAIN s = 1 .. n /\ s # <<>> BY <2>1, EmptySeq
  <2>3. QED BY <2>2 DEF Tiled, InOrder
<1> HIDE DEF n
<1>2. i \in 1 .. n /\ 1 \in 1 .. n /\ n \in 1 .. n BY <1>1 DEF n
<1>3. F[x] = s[i] BY <1>1, <1>2
<1>4. x \in z .. b - 1
  <2>1. z <= s[i].from
    <3>1. CASE i = 1 BY <1>1, <3>1
    <3>2. CASE 1 < i
      <4>1. s[1].to <= s[i].from /\ s[1].from < s[1].to /\ s[1].from = z BY <1>1, <1>2, <3>2
      <4>2. s[1].to \in Int /\ s[i].from \in Int BY <1>1, <1>2
      <4>3. QED BY <4>1, <4>2
    <3>3. QED BY <1>2, <3>1, <3>2
  <2>2. s[i].to <= b
    <3>1. CASE i = n BY <1>1, <3>1
    <3>2. CASE i < n
      <4>1. s[i].to <= s[n].from /\ s[n].from < s[n].to /\ s[n].to = b BY <1>1, <1>2, <3>2
      <4>2. s[n].from \in Int /\ s[i].to \in Int BY <1>1, <1>2
      <4>3. QED BY <4>1, <4>2
    <3>3. QED BY <1>1, <1>2, <3>1, <3>2
  <2>3. s[i].from \in Int /\ s[i].to \in Int BY <1>1, <1>2
  <2>4. QED BY <2>1, <2>2, <2>3
<1>5. 1 < i => z < s[i].from /\ F[s[i].from - 1] = s[i - 1]
  <2>1. SUFFICES ASSUME 1 < i PROVE z < s[i].from /\ F[s[i].from - 1] = s[i - 1] OBVIOUS
  <2>2. s[1].to <= s[i].from /\ s[1].from < s[1].to /\ s[1].from = z BY <1>1, <1>2, <2>1
  <2>3. s[1].to \in Int /\ s[i].from \in Int BY <1>1, <1>2
  <2>4. PICK k \in 1 .. n : k = i - 1 /\ k + 1 = i BY <1>1, <1>2, <2>1
  <2>5. s[k].to = s[i].from /\ s[k].from < s[k].to /\ s[k].from \in Int /\ s[k].to \in Int BY <1>1, <1>2, <2>4
  <2>6. s[i].from - 1 \in s[k].from .. s[k].to - 1 BY <2>5
  <2>7. F[s[i].from - 1] = s[k] BY <1>1, <2>6
  <2>8. QED BY <2>2, <2>3, <2>4, <2>7
<1>6. i < n => s[i].to < b /\ F[s[i].to] = s[i + 1]
  <2>1. SUFFICES ASSUME i < n PROVE s[i].to < b /\ F[s[i].to] = s[i + 1] OBVIOUS
  <2>2. s[i].to <= s[n].from /\ s[n].from < s[n].to /\ s[n].to = b BY <1>1, <1>2, <2>1
  <2>3. s[n].from \in Int /\ s[i].to \in Int BY <1>1, <1>2
  <2>4. PICK k \in 1 .. n : k = i + 1 BY <1>1, <1>2, <2>1
  <2>5. s[i].to = s[k].from /\ s[k].from < s[k].to /\ s[k].from \in Int /\ s[k].to \in Int BY <1>1, <1>2, <2>4
  <2>6. s[i].to \in s[k].from .. s[k].to - 1 BY <2>5
  <2>7. F[s[i].to] = s[k] BY <1>1, <2>6
  <2>8. QED BY <2>2, <2>3, <2>4, <2>7
<1>7. z < s[i].from => 1 < i BY <1>1, <1>2
<1>8. s[i].to < b => i < n BY <1>1, <1>2
<1>9. QED BY <1>3, <1>4, <1>5, <1>6, <1>7, <1>8 DEF DownAt, Charged, n

\* Two readings with the same instants down are equally down.
LEMMA SameDown ==
    ASSUME Scale \in Nat \ {0}, NEW a \in Int, NEW z \in Int, NEW b \in Int, a <= z, z <= b,
           NEW window, NEW W, NEW within, Apart(W, within),
           NEW F, NEW s, Tiled(s, F, a, z, b), Chain(s),
           NEW G, NEW r, Tiled(r, G, a, z, b), Chain(r),
           DownAt(F, z, b) = DownAt(G, z, b)
    PROVE  count(s, window, W).down = count(r, window, W).down
<1> DEFINE B == DownAt(F, z, b)
<1>1. PICK Q : Charges(Q, B, W, a, b)
  <2>1. a <= b /\ Scale \in Nat OBVIOUS
  <2>2. QED BY <2>1, ChargesExist
<1>2. \A x \in B : x \in Int /\ z <= x BY DEF DownAt
<1>3. ASSUME NEW H, NEW t, Tiled(t, H, a, z, b), Chain(t), DownAt(H, z, b) = B
      PROVE  count(t, window, W).down = Q[b]
  <2>1. \A i \in 1 .. Len(t) : t[i] \in Segments /\ t[i].from \in t[i].from .. t[i].to - 1
    <3>1. t \in Seq(Segments) BY <1>3 DEF Tiled, InOrder
    <3>2. \A i \in 1 .. Len(t) : t[i].from \in Int /\ t[i].to \in Int /\ t[i].from < t[i].to BY <1>3 DEF Chain
    <3>3. \A i \in 1 .. Len(t) : t[i].from \in t[i].from .. t[i].to - 1 BY <3>2
    <3>4. QED BY <3>1, <3>3, ElementOfSeq
  <2>2. PICK d : ChargedOf(d, t, W) /\ count(t, window, W).down = total(d)
    <3>1. \A i \in 1 .. Len(t) : t[i].fromSilence \in BOOLEAN BY <2>1 DEF Segments
    <3>2. Scale \in Nat \ {0} /\ Apart(W, within) /\ Chain(t) BY <1>3
    <3> HIDE DEF B
    <3>3. QED BY <3>1, <3>2, DownOfChain, Zenon
  <2>3. ASSUME NEW i \in 1 .. Len(t)
        PROVE  /\ d[i] = IF t[i].from \in B THEN Weight(t[i].from, t[i].to, W) ELSE 0
               /\ \A x \in t[i].from .. t[i].to - 1 : x \in B <=> t[i].from \in B
    <3>1. \A x \in t[i].from .. t[i].to - 1 : x \in B <=> Charged(t, i) BY <1>3, ChargedAt
    <3>2. QED BY <2>1, <2>2, <3>1 DEF ChargedOf
  <2>4. Scale \in Nat OBVIOUS
  <2> HIDE DEF B
  <2>5. total(d) = Q[b] BY <1>1, <1>2, <1>3, <2>2, <2>3, <2>4, SumIsCharges DEF ChargedOf
  <2>6. QED BY <2>2, <2>5
<1>4. QED BY <1>3

-----------------------------------------------------------------------------
(* The markers of the sweep. *)

\* A member below which there is none is the least.
LEMMA LeastIs ==
    ASSUME NEW S \in SUBSET Int, NEW x \in S, \A y \in S : x <= y
    PROVE  Min(S) = x
<1>1. x \in Int OBVIOUS
<1>2. Min(S) \in S /\ \A y \in S : Min(S) <= y BY <1>1, LeastInt
<1>3. Min(S) <= x /\ x <= Min(S) /\ Min(S) \in Int BY <1>2
<1>4. QED BY <1>1, <1>3

\* The first of the instants from t on comes before all others.
LEMMA FollowingLeast ==
    ASSUME NEW S \in SUBSET Int, NEW t \in Int, NEW b \in Int, t <= b
    PROVE  /\ Following(S, t, b) = b \/ Following(S, t, b) \in S
           /\ \A y \in S : t <= y => Following(S, t, b) <= y
<1> DEFINE T == {b} \union {x \in S : t <= x}
<1>1. T \in SUBSET Int /\ T # {} /\ \A x \in T : t <= x OBVIOUS
<1>2. Min(T) \in T /\ \A x \in T : Min(T) <= x
  <2> HIDE DEF T
  <2> QED BY <1>1, LeastInt
<1>3. Following(S, t, b) = Min(T) BY DEF Following
<1>4. QED BY <1>2, <1>3

\* The last of the instants until x comes after all others.
LEMMA PrecedingLast ==
    ASSUME NEW S \in SUBSET Int, NEW x \in Int, \E y \in S : y <= x
    PROVE  /\ Preceding(S, x) \in S /\ Preceding(S, x) <= x
           /\ \A y \in S : y <= x => y <= Preceding(S, x)
<1> DEFINE T == {y \in S : y <= x}
<1>1. T \in SUBSET Int /\ T # {} /\ \A y \in T : y <= x OBVIOUS
<1>2. Max(T) \in T /\ \A y \in T : y <= Max(T)
  <2> HIDE DEF T
  <2> QED BY <1>1, GreatestInt
<1>3. QED BY <1>2 DEF Preceding

\* Silence that is down fails.
Silence(s) == Failed(s) /\ s.fromSilence = TRUE

LEMMA SilentFails ==
    ASSUME NEW from, NEW to
    PROVE  /\ Silence(silent(from, to, TRUE)) /\ AllOrNothing(silent(from, to, TRUE))
           /\ silent(from, to, TRUE).from = from /\ silent(from, to, TRUE).to = to
BY DEF Silence, Failed, AllOrNothing, silent, Segment, Part

\* Where no work is announced, what was said is all failing or not at all, and
\* nothing but markers is silence.
LEMMA SpokenSays ==
    ASSUME Scale \in Nat \ {0}, NEW L, L # {}, \A c \in L : ~isExcluded(c.status), NEW at, NEW next
    PROVE  LET s == Spoken(L, at, next, TRUE) IN
           /\ AllOrNothing(s) /\ s.from = at /\ s.to = Holds(L, next)
           /\ (\A c \in L : isUnknown(c.status)) => Silence(s)
<1> DEFINE allUnknown == \A c \in L : isUnknown(c.status)
           failing    == (\E c \in L : isFailing(c.status)) \/ allUnknown
           excluded   == ~failing /\ \A c \in L : isExcluded(c.status)
<1>1. ~(\A c \in L : isExcluded(c.status)) OBVIOUS
<1>2. ~excluded BY <1>1, Zenon
<1>3. Spoken(L, at, next, TRUE) =
        Segment(at, Holds(L, next), Part(failing), Part(excluded), Part(~failing /\ ~excluded /\ allUnknown),
                TRUE, allUnknown)
  <2>1. (allUnknown /\ TRUE) = allUnknown OBVIOUS
  <2>2. QED BY <2>1 DEF Spoken
<1>4. Part(excluded) = 0 /\ Part(~failing /\ ~excluded /\ allUnknown) = 0 /\ Part(failing) \in {0, Scale}
  <2>1. ~(~failing /\ ~excluded /\ allUnknown) OBVIOUS
  <2> HIDE DEF failing, excluded, allUnknown
  <2>2. QED BY <1>2, <2>1 DEF Part
<1>5. allUnknown => Part(failing) = Scale
  <2>1. allUnknown => failing OBVIOUS
  <2> HIDE DEF failing, allUnknown
  <2>2. QED BY <2>1 DEF Part
<1>6. allUnknown => allUnknown = TRUE OBVIOUS
<1> DEFINE down == Part(failing)
<1>7. Spoken(L, at, next, TRUE) =
        [from |-> at, to |-> Holds(L, next), down |-> down, maintenance |-> 0, unknown |-> 0,
         definite |-> TRUE, fromSilence |-> allUnknown]
  BY <1>3, <1>4, Zenon DEF Segment
<1>8. down \in {0, Scale} /\ (allUnknown => down = Scale /\ allUnknown = TRUE) BY <1>4, <1>5, <1>6
<1> HIDE DEF failing, excluded, allUnknown, down
<1>9. PICK unk \in BOOLEAN : unk = allUnknown
  <2>1. allUnknown \in BOOLEAN BY DEF allUnknown
  <2>2. QED BY <2>1
<1> DEFINE s == [from |-> at, to |-> Holds(L, next), down |-> down, maintenance |-> 0, unknown |-> 0,
                 definite |-> TRUE, fromSilence |-> unk]
<1>10. Spoken(L, at, next, TRUE) = s BY <1>7, <1>9, Zenon
<1>11. /\ s.down = down /\ s.maintenance = 0 /\ s.unknown = 0 /\ s.definite = TRUE
       /\ s.from = at /\ s.to = Holds(L, next) /\ s.fromSilence = unk
  OBVIOUS
<1> HIDE DEF s
<1>12. AllOrNothing(s) BY <1>8, <1>11 DEF AllOrNothing
<1>13. allUnknown => Silence(s)
  <2>1. allUnknown => down = Scale /\ unk = TRUE BY <1>8, <1>9, Zenon
  <2>2. QED BY <1>11, <2>1 DEF Silence, Failed
<1>14. QED BY <1>10, <1>11, <1>12, <1>13, Zenon DEF allUnknown

\* Where one begins to speak, within a window from a.
Begins(c, a) == IF c.ts <= a THEN a ELSE c.ts

\* Boundaries are instants of the window.
LEMMA BoundariesInt ==
    ASSUME NEW R, \A c \in R : c.ts \in Int, NEW window, NEW a \in Int, window.from = a
    PROVE  /\ Boundaries(R, window) \in SUBSET Int
           /\ \A y \in Boundaries(R, window) : a <= y
           /\ \A y \in Boundaries(R, window) : \E c \in R : y = Begins(c, a)
           /\ \A c \in R : Begins(c, a) \in Boundaries(R, window)
<1>1. ASSUME NEW c \in R PROVE Max({c.ts, window.from}) = Begins(c, a) BY OfTwo DEF Begins
<1>2. ASSUME NEW c \in R
      PROVE  Begins(c, a) \in Int /\ a <= Begins(c, a)
  BY DEF Begins
<1>3. ASSUME NEW y \in Boundaries(R, window) PROVE \E c \in R : y = Begins(c, a)
  BY <1>1 DEF Boundaries
<1>4. ASSUME NEW c \in R PROVE Begins(c, a) \in Boundaries(R, window)
  BY <1>1 DEF Boundaries
<1>5. QED BY <1>2, <1>3, <1>4

\* Where no work is announced and silence is down, the segment of an instant holds
\* it, and failed throughout or not at all.
LEMMA SegmentOfIs ==
    ASSUME Scale \in Nat \ {0}, NEW R, \A c \in R : c.ts \in Int /\ ~isExcluded(c.status),
           NEW window, NEW a \in Int, NEW b \in Int, window.from = a, window.to = b,
           NEW x \in Int, x < b, \E y \in Boundaries(R, window) : y <= x
    PROVE  /\ AllOrNothing(SegmentOf(R, window, TRUE, x))
           /\ SegmentOf(R, window, TRUE, x).from \in Int /\ SegmentOf(R, window, TRUE, x).to \in Int
           /\ SegmentOf(R, window, TRUE, x).from <= x /\ x < SegmentOf(R, window, TRUE, x).to
<1> DEFINE S == Boundaries(R, window)
           u == Preceding(S, x)
           n == After(S, u, b)
           L == live(R, u)
<1>1. S \in SUBSET Int BY BoundariesInt
<1>2. u \in S /\ u <= x /\ \A y \in S : y <= x => y <= u
  <2>1. \E y \in S : y <= x OBVIOUS
  <2> HIDE DEF S
  <2>2. QED BY <1>1, <2>1, PrecedingLast
<1>3. u \in Int /\ u < b BY <1>1, <1>2
<1> HIDE DEF S, u
<1>4. n \in Int /\ u < n /\ (n = b \/ n \in S) BY <1>1, <1>3, AfterIs
<1> HIDE DEF n
<1>5. x < n BY <1>1, <1>2, <1>3, <1>4
<1>6. SegmentOf(R, window, TRUE, x) = Covering(L, u, n, TRUE, x) BY DEF SegmentOf, S, u, n
<1>7. \A c \in L : c.ts \in Int /\ c.ts <= u /\ u - c.ts < maxGap /\ ~isExcluded(c.status) BY DEF live
<1> HIDE DEF L
<1>8. CASE L = {}
  <2>1. SegmentOf(R, window, TRUE, x) = silent(u, n, TRUE) BY <1>6, <1>8 DEF Covering
  <2>2. AllOrNothing(silent(u, n, TRUE)) /\ silent(u, n, TRUE).from = u /\ silent(u, n, TRUE).to = n
    BY SilentFails
  <2>3. QED BY <1>2, <1>3, <1>4, <1>5, <2>1, <2>2
<1>9. CASE L # {}
  <2>1. PICK h \in Int : Holds(L, n) = h /\ u < h /\ h <= n BY <1>3, <1>4, <1>7, <1>9, HoldsIs
  <2>2. CASE x < h
    <3>1. SegmentOf(R, window, TRUE, x) = Spoken(L, u, n, TRUE) BY <1>6, <1>9, <2>1, <2>2 DEF Covering
    <3>2. /\ AllOrNothing(Spoken(L, u, n, TRUE)) /\ Spoken(L, u, n, TRUE).from = u
          /\ Spoken(L, u, n, TRUE).to = Holds(L, n)
      BY <1>7, <1>9, SpokenSays
    <3>3. QED BY <1>2, <1>3, <2>1, <2>2, <3>1, <3>2
  <2>3. CASE ~(x < h)
    <3>1. SegmentOf(R, window, TRUE, x) = silent(h, n, TRUE) BY <1>6, <1>9, <2>1, <2>3 DEF Covering
    <3>2. AllOrNothing(silent(h, n, TRUE)) /\ silent(h, n, TRUE).from = h /\ silent(h, n, TRUE).to = n
      BY SilentFails
    <3>3. h \in Int /\ h <= x BY <2>1, <2>3
    <3>4. QED BY <1>4, <1>5, <3>1, <3>2, <3>3
  <2>4. QED BY <2>2, <2>3
<1>10. QED BY <1>8, <1>9

\* Segments of such instants are a chain.
LEMMA TiledChain ==
    ASSUME NEW s, NEW F, NEW a \in Int, NEW z \in Int, NEW b \in Int, Tiled(s, F, a, z, b),
           \A x \in z .. b - 1 : AllOrNothing(F[x])
    PROVE  Chain(s)
<1> DEFINE n == Len(s)
<1>1. s \in Seq(Segments) BY DEF Tiled, InOrder
<1>2. n \in Nat /\ DOMAIN s = 1 .. n BY <1>1
<1>3. /\ \A k \in 1 .. n : s[k].from \in Int /\ s[k].to \in Int /\ s[k].from < s[k].to
      /\ \A k, l \in 1 .. n : k < l => s[k].to <= s[l].from
      /\ \A k \in 1 .. n : \A y \in s[k].from .. s[k].to - 1 : s[k] = F[y]
      /\ n # 0 => s[1].from = z /\ s[n].to = b
  <2>1. n # 0 => s # <<>> BY EmptySeq
  <2>2. QED BY <1>2, <2>1 DEF Tiled, InOrder
<1> HIDE DEF n
<1>4. ASSUME NEW k \in 1 .. n PROVE AllOrNothing(s[k])
  <2>1. 1 \in 1 .. n /\ n \in 1 .. n /\ n # 0 BY <1>2, <1>4
  <2>2. z <= s[k].from
    <3>1. CASE k = 1 BY <1>3, <2>1, <3>1
    <3>2. CASE 1 < k
      <4>1. s[1].to <= s[k].from /\ s[1].from < s[1].to /\ s[1].from = z BY <1>3, <2>1, <3>2
      <4>2. s[1].to \in Int /\ s[k].from \in Int BY <1>3, <2>1
      <4>3. QED BY <4>1, <4>2
    <3>3. QED BY <1>2, <1>4, <3>1, <3>2
  <2>3. s[k].to <= b
    <3>1. CASE k = n BY <1>3, <2>1, <3>1
    <3>2. CASE k < n
      <4>1. s[k].to <= s[n].from /\ s[n].from < s[n].to /\ s[n].to = b BY <1>3, <2>1, <3>2
      <4>2. s[n].from \in Int /\ s[k].to \in Int BY <1>3, <2>1
      <4>3. QED BY <4>1, <4>2
    <3>3. QED BY <1>2, <1>4, <3>1, <3>2
  <2>4. s[k].from \in Int /\ s[k].to \in Int /\ s[k].from < s[k].to BY <1>3
  <2>5. s[k].from \in z .. b - 1 /\ s[k].from \in s[k].from .. s[k].to - 1 BY <2>2, <2>3, <2>4
  <2>6. s[k] = F[s[k].from] BY <1>3, <2>5
  <2>7. AllOrNothing(F[s[k].from]) BY <2>5
  <2>8. QED BY <2>6, <2>7
<1>5. QED BY <1>2, <1>3, <1>4 DEF Chain, n

\* Markers say that nobody knows, and come after everything that had been heard went stale.
Spaced(K, M) == \A m \in M : /\ isUnknown(m.status)
                             /\ \A c \in K : c = m \/ c.ts + maxGap < m.ts \/ m.ts < c.ts

\* Markers hide no check that is live.
LEMMA LiveAlike ==
    ASSUME NEW R, \A c \in R : c.ts \in Int, NEW M \in SUBSET R, Spaced(R, M), NEW u \in Int
    PROVE  live(R \ M, u) = live(R, u) \ M
<1>1. ASSUME NEW c \in live(R, u), c \notin M PROVE c \in live(R \ M, u) BY <1>1 DEF live
<1>2. ASSUME NEW c \in live(R \ M, u) PROVE c \in live(R, u) /\ c \notin M
  <2>1. c \in R /\ c \notin M /\ c.ts <= u /\ u - c.ts < maxGap
        /\ ~\E d \in R \ M : d.source = c.source /\ c.ts < d.ts /\ d.ts <= u
    BY <1>2 DEF live
  <2>2. ASSUME NEW d \in R, d \in M, c.ts < d.ts, d.ts <= u PROVE FALSE
    <3>1. c = d \/ c.ts + maxGap < d.ts \/ d.ts < c.ts BY <2>1, <2>2 DEF Spaced
    <3>2. c.ts \in Int /\ d.ts \in Int BY <2>1
    <3>3. c.ts + 2 < d.ts /\ u - c.ts < 2 BY <2>1, <2>2, <3>1, <3>2 DEF maxGap
    <3>4. QED BY <2>2, <3>2, <3>3
  <2>3. QED BY <2>1, <2>2 DEF live
<1>3. QED BY <1>1, <1>2

\* What was said until then and has not gone stale.
Fresh(L, at) == \A c \in L : c.ts \in Int /\ c.ts <= at /\ at - c.ts < maxGap

\* Some of it, with the last of it.
Leading(K, L) == K \in SUBSET L /\ K # {} /\ \A c \in L : \E d \in K : c.ts <= d.ts

\* What was said holds as long without the markers, as long as something else is live.
LEMMA HoldsAlike ==
    ASSUME NEW at \in Int, NEW next \in Int, NEW then \in Int, at < next, next <= then,
           NEW L, NEW K, Fresh(L, at), Leading(K, L),
           next = then \/ \A c \in K : c.ts + maxGap < next
    PROVE  Holds(L, next) = Holds(K, then)
<1>0. /\ \A c \in L : c.ts \in Int /\ c.ts <= at /\ at - c.ts < maxGap
      /\ K \in SUBSET L /\ K # {} /\ \A c \in L : \E d \in K : c.ts <= d.ts
  BY DEF Fresh, Leading
<1>1. PICK c \in L : /\ \A d \in L : d.ts <= c.ts
                     /\ Holds(L, next) = IF next <= c.ts + maxGap THEN next ELSE c.ts + maxGap
  BY <1>0, HoldsIs
<1>2. PICK d \in K : /\ \A x \in K : x.ts <= d.ts
                     /\ Holds(K, then) = IF then <= d.ts + maxGap THEN then ELSE d.ts + maxGap
  <2>1. at < then OBVIOUS
  <2>2. \A x \in K : x.ts \in Int /\ x.ts <= at /\ at - x.ts < maxGap BY <1>0
  <2>3. K # {} BY <1>0
  <2>4. QED BY <2>1, <2>2, <2>3, HoldsIs
<1>3. c.ts = d.ts
  <2>1. d.ts <= c.ts BY <1>0, <1>1
  <2>2. PICK e \in K : c.ts <= e.ts BY <1>0
  <2>3. e.ts <= d.ts BY <1>2
  <2>4. c.ts \in Int /\ d.ts \in Int /\ e.ts \in Int BY <1>0
  <2>5. QED BY <2>1, <2>2, <2>3, <2>4
<1>4. PICK w \in Int : w = c.ts + maxGap /\ w = d.ts + maxGap BY <1>0, <1>3 DEF maxGap
<1>5. next = then \/ w < next BY <1>0, <1>2, <1>4
<1>6. QED BY <1>1, <1>2, <1>4, <1>5

\* What was looked at since a, with markers among it that something was heard before.
Marked(R, M, a) ==
    /\ \A c \in R : c.ts \in Int /\ a - maxGap <= c.ts /\ ~isExcluded(c.status)
    /\ M \in SUBSET R /\ Spaced(R, M)
    /\ \A m \in M : \E c \in R \ M : c.ts < m.ts

\* S has the boundaries of P, and those of the markers, none of which is the first.
Added(S, P, R, M, a, b) ==
    /\ S \in SUBSET Int /\ P \subseteq S
    /\ \A y \in S : y \in P \/ \E m \in M : y = m.ts
    /\ \A y \in P : y = a \/ \E c \in R \ M : y = c.ts
    /\ \A m \in M : m.ts \in Int /\ a < m.ts /\ m.ts \notin P
    /\ Following(S, a, b) = Following(P, a, b)

\* The markers add boundaries of their own.
LEMMA BoundariesAlike ==
    ASSUME NEW R, NEW M, NEW window, NEW a \in Int, NEW b \in Int, window.from = a, a <= b, Marked(R, M, a)
    PROVE  Added(Boundaries(R, window), Boundaries(R \ M, window), R, M, a, b)
<1> DEFINE S == Boundaries(R, window)
           P == Boundaries(R \ M, window)
<1>1. /\ \A c \in R : c.ts \in Int /\ a - 2 <= c.ts
      /\ M \in SUBSET R
      /\ \A m \in M : \A c \in R : c = m \/ c.ts + 2 < m.ts \/ m.ts < c.ts
      /\ \A m \in M : \E c \in R \ M : c.ts < m.ts
  BY DEF Marked, Spaced, maxGap
<1>2. ASSUME NEW X \in SUBSET R
      PROVE  /\ Boundaries(X, window) \in SUBSET Int /\ \A y \in Boundaries(X, window) : a <= y
             /\ \A y \in Boundaries(X, window) : \E c \in X : y = Begins(c, a)
             /\ \A c \in X : Begins(c, a) \in Boundaries(X, window)
  <2>1. \A c \in X : c.ts \in Int BY <1>1
  <2>2. window.from = a OBVIOUS
  <2>3. Boundaries(X, window) \in SUBSET Int BY <2>1, <2>2, BoundariesInt
  <2>4. \A y \in Boundaries(X, window) : a <= y BY <2>1, <2>2, BoundariesInt
  <2>5. \A y \in Boundaries(X, window) : \E c \in X : y = Begins(c, a) BY <2>1, <2>2, BoundariesInt
  <2>6. \A c \in X : Begins(c, a) \in Boundaries(X, window) BY <2>1, <2>2, BoundariesInt
  <2>7. QED BY <2>3, <2>4, <2>5, <2>6
<1>3. /\ S \in SUBSET Int /\ (\A y \in S : a <= y)
      /\ (\A y \in S : \E c \in R : y = Begins(c, a)) /\ \A c \in R : Begins(c, a) \in S
      /\ P \in SUBSET Int
      /\ (\A y \in P : \E c \in R \ M : y = Begins(c, a)) /\ \A c \in R \ M : Begins(c, a) \in P
  <2>1. R \in SUBSET R /\ R \ M \in SUBSET R OBVIOUS
  <2>2. QED BY <1>2, <2>1
<1> HIDE DEF S, P
<1>4. ASSUME NEW m \in M
      PROVE  /\ m.ts \in Int /\ a < m.ts /\ m.ts \notin P
             /\ \E p \in P : a <= p /\ p < m.ts
  <2>1. PICK c \in R \ M : c.ts < m.ts BY <1>1
  <2>2. m.ts \in Int /\ c.ts \in Int /\ a - 2 <= c.ts BY <1>1
  <2>3. c # m OBVIOUS
  <2>4. c.ts + 2 < m.ts \/ m.ts < c.ts BY <1>1, <2>3
  <2>5. a < m.ts BY <2>1, <2>2, <2>4
  <2>6. Begins(c, a) \in P /\ a <= Begins(c, a) /\ Begins(c, a) < m.ts BY <1>3, <2>1, <2>2, <2>5 DEF Begins
  <2>7. ASSUME m.ts \in P PROVE FALSE
    <3>1. PICK e \in R \ M : m.ts = Begins(e, a) BY <1>3, <2>7
    <3>2. m.ts = e.ts /\ e.ts \in Int BY <1>1, <2>2, <2>5, <3>1 DEF Begins
    <3>3. e = m \/ e.ts + 2 < m.ts \/ m.ts < e.ts BY <1>1
    <3>4. QED BY <2>2, <3>2, <3>3
  <2>8. QED BY <2>2, <2>5, <2>6, <2>7
<1>5. P \subseteq S BY <1>3
<1>6. ASSUME NEW y \in S PROVE y \in P \/ \E m \in M : y = m.ts
  <2>1. PICK c \in R : y = Begins(c, a) BY <1>3
  <2>2. CASE c \in M
    <3>1. a < c.ts /\ c.ts \in Int BY <1>4, <2>2
    <3>2. y = c.ts BY <2>1, <3>1 DEF Begins
    <3>3. QED BY <2>2, <3>2
  <2>3. CASE c \notin M BY <1>3, <2>1, <2>3
  <2>4. QED BY <2>2, <2>3
<1>7. \A y \in P : y = a \/ \E c \in R \ M : y = c.ts BY <1>3 DEF Begins
<1>8. Following(S, a, b) = Following(P, a, b)
  <2>1. PICK z \in Int : /\ z = Following(P, a, b) /\ a <= z /\ z <= b /\ (z = b \/ z \in P)
                         /\ \A y \in P : a <= y => z <= y
    BY <1>3, FollowingIs, FollowingLeast
  <2> DEFINE T == {b} \union {x \in S : a <= x}
  <2>2. z \in T /\ T \in SUBSET Int BY <1>3, <1>5, <2>1
  <2>3. ASSUME NEW y \in S PROVE z <= y
    <3>1. CASE y \in P BY <1>3, <2>1, <3>1
    <3>2. CASE y \notin P
      <4>1. PICK m \in M : y = m.ts BY <1>6, <3>2
      <4>2. PICK p \in P : a <= p /\ p < m.ts BY <1>4
      <4>3. z <= p /\ p \in Int BY <1>3, <2>1, <4>2
      <4>4. y \in Int BY <1>3
      <4>5. QED BY <4>1, <4>2, <4>3, <4>4
    <3>3. QED BY <3>1, <3>2
  <2>4. \A y \in T : z <= y BY <2>1, <2>3
  <2>5. Min(T) = z
    <3> HIDE DEF T
    <3> QED BY <2>2, <2>4, LeastIs
  <2>6. Following(S, a, b) = Min(T) BY DEF Following
  <2>7. QED BY <2>1, <2>5, <2>6
<1>9. QED BY <1>3, <1>4, <1>5, <1>6, <1>7, <1>8 DEF S, P, Added

\* Every instant is read alike with the markers and without, or as silence in both.
LEMMA ReadAlike ==
    ASSUME Scale \in Nat \ {0}, NEW R, NEW M, NEW window, NEW a \in Int, NEW b \in Int,
           window.from = a, window.to = b, a <= b, Marked(R, M, a),
           NEW x \in Following(Boundaries(R \ M, window), a, b) .. b - 1
    PROVE  \/ SegmentOf(R, window, TRUE, x) = SegmentOf(R \ M, window, TRUE, x)
           \/ Silence(SegmentOf(R, window, TRUE, x)) /\ Silence(SegmentOf(R \ M, window, TRUE, x))
<1> DEFINE S == Boundaries(R, window)
           P == Boundaries(R \ M, window)
           u == Preceding(S, x)
           v == Preceding(P, x)
           n == After(S, u, b)
           k == After(P, v, b)
           L == live(R, u)
           K == live(R \ M, v)
           F == SegmentOf(R, window, TRUE, x)
           G == SegmentOf(R \ M, window, TRUE, x)
<1>1. /\ \A c \in R : c.ts \in Int /\ ~isExcluded(c.status)
      /\ M \in SUBSET R /\ Spaced(R, M)
      /\ \A m \in M : isUnknown(m.status)
      /\ \A m \in M : \A c \in R : c = m \/ c.ts + 2 < m.ts \/ m.ts < c.ts
  BY DEF Marked, Spaced, maxGap
<1>2. /\ S \in SUBSET Int /\ P \subseteq S
      /\ \A y \in S : y \in P \/ \E m \in M : y = m.ts
      /\ \A y \in P : y = a \/ \E c \in R \ M : y = c.ts
      /\ \A m \in M : m.ts \in Int /\ a < m.ts /\ m.ts \notin P
  <2>1. Added(S, P, R, M, a, b) BY BoundariesAlike
  <2> HIDE DEF S, P
  <2>2. QED BY <2>1 DEF Added
<1>3. F = Covering(L, u, n, TRUE, x) /\ G = Covering(K, v, k, TRUE, x) BY DEF SegmentOf
<1>4. \E y \in P : y <= x
  <2>1. Following(P, a, b) = b \/ Following(P, a, b) \in P
    <3>1. P \in SUBSET Int BY <1>2
    <3> HIDE DEF P
    <3>2. QED BY <3>1, FollowingLeast
  <2> DEFINE z == Following(P, a, b)
  <2>2. x \in z .. b - 1 OBVIOUS
  <2>3. z \in Int
    <3>1. P \in SUBSET Int BY <1>2
    <3> HIDE DEF P
    <3>2. QED BY <3>1, FollowingIs
  <2> HIDE DEF P, z
  <2>4. z <= x /\ x < b /\ x \in Int BY <2>2, <2>3
  <2>5. z \in P BY <2>1, <2>3, <2>4 DEF z
  <2>6. QED BY <2>4, <2>5
<1>5. x \in Int /\ x < b
  <2>1. Following(P, a, b) \in Int
    <3>1. P \in SUBSET Int BY <1>2
    <3> HIDE DEF P
    <3>2. QED BY <3>1, FollowingIs
  <2>2. x \in Following(P, a, b) .. b - 1 OBVIOUS
  <2> HIDE DEF P
  <2>3. QED BY <2>1, <2>2
<1> HIDE DEF S, P, F, G
<1>6. /\ u \in S /\ u <= x /\ \A y \in S : y <= x => y <= u
      /\ v \in P /\ v <= x /\ \A y \in P : y <= x => y <= v
  <2>1. P \in SUBSET Int /\ \E y \in S : y <= x BY <1>2, <1>4
  <2>2. u \in S /\ u <= x /\ \A y \in S : y <= x => y <= u BY <1>2, <1>5, <2>1, PrecedingLast
  <2>3. v \in P /\ v <= x /\ \A y \in P : y <= x => y <= v BY <1>4, <1>5, <2>1, PrecedingLast
  <2>4. QED BY <2>2, <2>3
<1> HIDE DEF u, v
<1>7. u \in Int /\ v \in Int /\ v <= u /\ u < b BY <1>2, <1>5, <1>6
<1>8. /\ n \in Int /\ u < n /\ (n = b \/ n \in S) /\ n <= b /\ \A y \in S : u < y => n <= y
      /\ k \in Int /\ v < k /\ (k = b \/ k \in P) /\ k <= b /\ \A y \in P : v < y => k <= y
  <2>1. P \in SUBSET Int /\ v < b BY <1>2, <1>7
  <2>2. n \in Int /\ u < n /\ (n = b \/ n \in S) /\ n <= b /\ \A y \in S : u < y => n <= y
    BY <1>2, <1>7, AfterIs
  <2>3. k \in Int /\ v < k /\ (k = b \/ k \in P) /\ k <= b /\ \A y \in P : v < y => k <= y
    BY <1>7, <2>1, AfterIs
  <2>4. QED BY <2>2, <2>3
<1> HIDE DEF n, k
<1>9. /\ \A c \in L : c \in R /\ c.ts \in Int /\ c.ts <= u /\ u - c.ts < maxGap /\ ~isExcluded(c.status)
      /\ \A c \in K : c \in R /\ c \notin M /\ c.ts \in Int /\ c.ts <= v /\ v - c.ts < maxGap
  BY <1>1 DEF live
<1>10. CASE u \in P
  <2>1. u = v BY <1>6, <1>7, <1>10
  <2>2. K = L \ M
    <3>1. K = live(R \ M, u) BY <2>1
    <3>2. QED BY <1>1, <1>7, <3>1, LiveAlike
  <2>3. n <= k BY <1>2, <1>8, <2>1
  \* A live marker has just been followed by a check.
  <2>4. ASSUME NEW m \in L, m \in M PROVE \E c \in K : c.ts = u
    <3>1. m.ts \in Int /\ a < m.ts /\ m.ts <= u /\ m.ts # u BY <1>2, <1>9, <1>10, <2>4
    <3>2. u # a BY <1>7, <3>1
    <3>3. PICK c \in R \ M : u = c.ts BY <1>2, <1>10, <3>2
    <3>4. c \in live(R \ M, u)
      <4>1. ~\E d \in R \ M : d.source = c.source /\ c.ts < d.ts /\ d.ts <= u
        <5>1. \A d \in R : d.ts \in Int BY <1>1
        <5>2. QED BY <1>7, <3>3, <5>1
      <4>2. u - c.ts < maxGap /\ c.ts <= u BY <1>7, <3>3 DEF maxGap
      <4>3. QED BY <4>1, <4>2 DEF live
    <3>5. QED BY <2>1, <3>3, <3>4
  <2>5. CASE K = {}
    <3>1. L = {} BY <2>2, <2>4, <2>5
    <3>2. F = silent(u, n, TRUE) /\ G = silent(v, k, TRUE) BY <1>3, <2>5, <3>1 DEF Covering
    <3>3. QED BY <3>2, SilentFails DEF F, G
  <2>6. CASE K # {}
    <3> HIDE DEF L, K
    <3>1. L # {} /\ K \in SUBSET L BY <2>2, <2>6
    <3>2. \A c \in L : \E d \in K : c.ts <= d.ts
      <4>1. ASSUME NEW c \in L PROVE \E d \in K : c.ts <= d.ts
        <5>1. CASE c \in M
          <6>1. PICK d \in K : d.ts = u BY <2>4, <5>1
          <6>2. QED BY <1>9, <6>1
        <5>2. CASE c \notin M
          <6>1. c \in K /\ c.ts <= c.ts BY <1>9, <2>2, <5>2
          <6>2. QED BY <6>1
        <5>3. QED BY <5>1, <5>2
      <4>2. QED BY <4>1
    <3>3. n = k \/ \A c \in K : c.ts + maxGap < n
      <4>1. SUFFICES ASSUME n # k, NEW c \in K PROVE c.ts + maxGap < n OBVIOUS
      <4>2. n < k /\ n # b BY <1>8, <2>3, <4>1
      <4>3. n \in S /\ n \notin P
        <5>1. v < n BY <1>8, <2>1
        <5>2. n \in P => k <= n BY <1>8, <5>1
        <5>3. QED BY <1>8, <4>2, <5>2
      <4>4. PICK m \in M : n = m.ts BY <1>2, <4>3
      <4>5. c # m /\ c \in R /\ c.ts \in Int /\ c.ts <= u BY <1>9, <2>1
      <4>6. c.ts + 2 < m.ts \/ m.ts < c.ts BY <1>1, <4>5
      <4>7. QED BY <1>7, <1>8, <4>4, <4>5, <4>6 DEF maxGap
    <3>4. Holds(L, n) = Holds(K, k)
      <4>1. u \in Int /\ n \in Int /\ k \in Int /\ u < n /\ n <= k BY <1>7, <1>8, <2>3
      <4>2. Fresh(L, u) BY <1>9 DEF Fresh
      <4>3. Leading(K, L) BY <2>6, <3>1, <3>2 DEF Leading
      <4>4. QED BY <3>3, <4>1, <4>2, <4>3, HoldsAlike
    <3>5. CASE x < Holds(L, n)
      <4>1. F = Spoken(L, u, n, TRUE) /\ G = Spoken(K, u, k, TRUE)
        BY <1>3, <2>1, <2>6, <3>1, <3>4, <3>5 DEF Covering
      <4>2. Spoken(L, u, n, TRUE) = Spoken(K, u, k, TRUE)
        <5>1. \A c \in L : ~isExcluded(c.status) BY <1>9
        <5>2. \A c \in L \ K : isUnknown(c.status) BY <1>1, <2>2
        <5>3. (\A c \in L : isUnknown(c.status)) = (\A c \in K : isUnknown(c.status)) BY <3>1, <5>2
        <5>4. \A c : isUnknown(c.status) => ~isFailing(c.status) BY DEF isUnknown, isFailing
        <5>5. (\E c \in L : isFailing(c.status)) = (\E c \in K : isFailing(c.status)) BY <3>1, <5>2, <5>4
        <5>6. (\A c \in L : isExcluded(c.status)) = FALSE /\ (\A c \in K : isExcluded(c.status)) = FALSE
          BY <2>6, <3>1, <5>1
        <5>7. QED BY <3>4, <5>3, <5>5, <5>6, Zenon DEF Spoken
      <4>3. QED BY <4>1, <4>2 DEF F, G
    <3>6. CASE ~(x < Holds(L, n))
      <4>1. F = silent(Holds(L, n), n, TRUE) /\ G = silent(Holds(K, k), k, TRUE)
        BY <1>3, <2>6, <3>1, <3>4, <3>6 DEF Covering
      <4>2. QED BY <4>1, SilentFails DEF F, G
    <3>7. QED BY <3>5, <3>6
  <2>7. QED BY <2>5, <2>6
<1>11. CASE u \notin P
  <2>1. PICK m \in M : u = m.ts BY <1>2, <1>6, <1>11
  <2>2. Silence(F)
    <3>1. m \in R BY <1>1
    <3>2. m \in L
      <4>1. ~\E d \in R : d.source = m.source /\ m.ts < d.ts /\ d.ts <= u
        <5>1. \A d \in R : d.ts \in Int BY <1>1
        <5>2. QED BY <1>7, <2>1, <5>1
      <4>2. u - m.ts < maxGap /\ m.ts <= u BY <1>7, <2>1 DEF maxGap
      <4>3. QED BY <3>1, <4>1, <4>2 DEF live
    <3> HIDE DEF L, K
    <3>3. \A c \in L : c = m
      <4>1. SUFFICES ASSUME NEW c \in L, c # m PROVE FALSE OBVIOUS
      <4>2. c \in R /\ c.ts \in Int /\ c.ts <= u /\ u - c.ts < 2 BY <1>9 DEF maxGap
      <4>3. c.ts + 2 < m.ts \/ m.ts < c.ts BY <1>1, <4>1, <4>2
      <4>4. QED BY <1>7, <2>1, <4>2, <4>3
    <3>4. L # {} /\ (\A c \in L : isUnknown(c.status)) /\ \A c \in L : ~isExcluded(c.status)
      BY <1>1, <1>9, <3>2, <3>3
    <3>5. Silence(Spoken(L, u, n, TRUE)) BY <3>4, SpokenSays
    <3>6. Silence(silent(Holds(L, n), n, TRUE)) BY SilentFails
    <3>7. QED BY <1>3, <3>4, <3>5, <3>6 DEF Covering
  <2>3. Silence(G)
    <3> HIDE DEF L, K
    <3>1. CASE K = {}
      <4>1. G = silent(v, k, TRUE) BY <1>3, <3>1 DEF Covering
      <4>2. QED BY <4>1, SilentFails
    <3>2. CASE K # {}
      <4>1. PICK c \in K : Holds(K, k) = IF k <= c.ts + maxGap THEN k ELSE c.ts + maxGap
        BY <1>7, <1>8, <1>9, <3>2, HoldsIs
      <4>2. c # m /\ c \in R /\ c.ts \in Int /\ c.ts <= u BY <1>7, <1>9
      <4>3. c.ts + 2 < m.ts \/ m.ts < c.ts BY <1>1, <4>2
      <4>4. c.ts + 2 < u BY <1>7, <2>1, <4>2, <4>3
      <4>5. PICK w \in Int : w = c.ts + maxGap /\ w < u BY <4>2, <4>4 DEF maxGap
      <4>6. ~(x < Holds(K, k)) BY <1>5, <1>6, <1>7, <1>8, <4>1, <4>5
      <4>7. G = silent(Holds(K, k), k, TRUE) BY <1>3, <3>2, <4>6 DEF Covering
      <4>8. QED BY <4>7, SilentFails
    <3>3. QED BY <3>1, <3>2
  <2>4. QED BY <2>2, <2>3 DEF F, G
<1>12. QED BY <1>10, <1>11

\* From the first boundary on, every instant has its segment, the first of them apart.
LEMMA ReadingIs ==
    ASSUME Scale \in Nat \ {0}, NEW R, \A c \in R : c.ts \in Int /\ ~isExcluded(c.status),
           NEW window, NEW a \in Int, NEW b \in Int, window.from = a, window.to = b, a <= b,
           NEW x \in Following(Boundaries(R, window), a, b) .. b - 1
    PROVE  /\ x \in a .. b - 1
           /\ AllOrNothing(SegmentOf(R, window, TRUE, x))
           /\ SegmentOf(R, window, TRUE, x).from \in Int /\ SegmentOf(R, window, TRUE, x).to \in Int
           /\ SegmentOf(R, window, TRUE, x).from <= x /\ x < SegmentOf(R, window, TRUE, x).to
<1> DEFINE S == Boundaries(R, window)
           z == Following(S, a, b)
<1>1. S \in SUBSET Int BY BoundariesInt
<1> HIDE DEF S
<1>2. z \in Int /\ a <= z BY <1>1, FollowingIs
<1>3. z = b \/ z \in S BY <1>1, FollowingLeast
<1>4. x \in z .. b - 1 BY DEF S
<1> HIDE DEF z
<1>5. x \in Int /\ z <= x /\ x < b /\ x \in a .. b - 1 BY <1>2, <1>4
<1>6. \E y \in S : y <= x BY <1>2, <1>3, <1>5
<1>7. /\ AllOrNothing(SegmentOf(R, window, TRUE, x))
      /\ SegmentOf(R, window, TRUE, x).from \in Int /\ SegmentOf(R, window, TRUE, x).to \in Int
      /\ SegmentOf(R, window, TRUE, x).from <= x /\ x < SegmentOf(R, window, TRUE, x).to
  BY <1>5, <1>6, SegmentOfIs DEF S
<1>8. QED BY <1>5, <1>7

\* Readings that are alike at every instant, or silence in both, are down at the same.
LEMMA DownAlike ==
    ASSUME NEW z \in Int, NEW b \in Int, NEW F, NEW G,
           \A x \in z .. b - 1 : /\ F[x] = G[x] \/ (Silence(F[x]) /\ Silence(G[x]))
                                 /\ F[x].from \in Int /\ F[x].to \in Int /\ F[x].from <= x /\ x < F[x].to
                                 /\ G[x].from \in Int /\ G[x].to \in Int /\ G[x].from <= x /\ x < G[x].to
    PROVE  DownAt(F, z, b) = DownAt(G, z, b)
<1>1. \A x \in z .. b - 1 : Failed(F[x]) <=> Failed(G[x]) BY DEF Silence
<1>2. ASSUME NEW x \in z .. b - 1 PROVE x \in DownAt(F, z, b) <=> x \in DownAt(G, z, b)
  <2>1. CASE Silence(F[x]) /\ Silence(G[x]) BY <1>2, <2>1 DEF DownAt, Silence
  <2>2. CASE F[x] = G[x]
    <3>1. z < F[x].from => F[x].from - 1 \in z .. b - 1 BY <1>2
    <3>2. F[x].to < b => F[x].to \in z .. b - 1 BY <1>2
    <3>3. z < F[x].from => (Failed(F[F[x].from - 1]) <=> Failed(G[G[x].from - 1])) BY <1>1, <2>2, <3>1
    <3>4. F[x].to < b => (Failed(F[F[x].to]) <=> Failed(G[G[x].to])) BY <1>1, <2>2, <3>2
    <3>5. QED BY <1>2, <2>2, <3>3, <3>4 DEF DownAt
  <2>3. QED BY <1>2, <2>1, <2>2
<1>3. QED BY <1>2 DEF DownAt

\* D is C without its markers, as far as a window looks at them.
Without(C, D, M, window, a, b) ==
    /\ a \in Int /\ b \in Int /\ window.from = a /\ window.to = b /\ a <= b
    /\ D \subseteq C /\ \A c \in C : c.ts \in Int
    /\ relevant(D, window) = relevant(C, window) \ M
    /\ Marked(relevant(C, window), M, a)

\* The downtime that is read of checks, where silence is down.
Downtime(C, window, W) == count(segmentsFromSamples(C, window, TRUE), window, W).down

\* The markers charge nothing, and take nothing back.
LEMMA SameWithout ==
    ASSUME ConstantsOK, NEW C, NEW D, NEW M, NEW window, NEW a, NEW b, Without(C, D, M, window, a, b),
           NEW W, Apart(W, window)
    PROVE  Downtime(C, window, W) = Downtime(D, window, W)
<1>0. /\ a \in Int /\ b \in Int /\ window.from = a /\ window.to = b /\ a <= b
      /\ D \subseteq C /\ \A c \in C : c.ts \in Int
  BY DEF Without
<1> DEFINE R == relevant(C, window)
           O == relevant(D, window)
           F == [x \in a .. b - 1 |-> SegmentOf(R, window, TRUE, x)]
           G == [x \in a .. b - 1 |-> SegmentOf(O, window, TRUE, x)]
           z == Following(Boundaries(R, window), a, b)
           s == segmentsFromSamples(C, window, TRUE)
           r == segmentsFromSamples(D, window, TRUE)
<1>1. Scale \in Nat \ {0} BY DEF ConstantsOK
<1>2. O = R \ M /\ Marked(R, M, a) BY DEF Without
<1>3. Added(Boundaries(R, window), Boundaries(R \ M, window), R, M, a, b) BY <1>0, <1>2, BoundariesAlike
<1> HIDE DEF R, O
<1>4. /\ z = Following(Boundaries(O, window), a, b)
      /\ Boundaries(R, window) \in SUBSET Int
  BY <1>3, <1>2 DEF Added
<1>5. z \in Int /\ a <= z /\ z <= b BY <1>0, <1>4, FollowingIs
<1>6. Tiled(s, F, a, z, b)
  <2>1. TRUE \in BOOLEAN OBVIOUS
  <2>2. QED BY <1>0, <2>1, SamplesTile DEF R
<1>7. Tiled(r, G, a, z, b)
  <2>1. TRUE \in BOOLEAN /\ \A c \in D : c.ts \in Int BY <1>0
  <2>2. Tiled(r, G, a, Following(Boundaries(O, window), a, b), b) BY <1>0, <2>1, SamplesTile DEF O
  <2> HIDE DEF r, G, z
  <2>3. QED BY <1>4, <2>2
<1>8. /\ Marked(R, M, a)
      /\ \A c \in R : c.ts \in Int /\ ~isExcluded(c.status)
      /\ \A c \in O : c.ts \in Int /\ ~isExcluded(c.status)
  BY <1>0, <1>2 DEF Marked
<1>9. ASSUME NEW x \in z .. b - 1
      PROVE  /\ F[x] = G[x] \/ (Silence(F[x]) /\ Silence(G[x]))
             /\ AllOrNothing(F[x]) /\ AllOrNothing(G[x])
             /\ F[x].from \in Int /\ F[x].to \in Int /\ F[x].from <= x /\ x < F[x].to
             /\ G[x].from \in Int /\ G[x].to \in Int /\ G[x].from <= x /\ x < G[x].to
  <2> DEFINE f == SegmentOf(R, window, TRUE, x)
             g == SegmentOf(O, window, TRUE, x)
  <2>1. x \in Following(Boundaries(R, window), a, b) .. b - 1 BY <1>9
  <2>2. x \in Following(Boundaries(O, window), a, b) .. b - 1 BY <1>4, <1>9
  <2>3. x \in a .. b - 1 /\ AllOrNothing(f) /\ f.from \in Int /\ f.to \in Int /\ f.from <= x /\ x < f.to
    BY <1>0, <1>1, <1>8, <2>1, ReadingIs
  <2>4. AllOrNothing(g) /\ g.from \in Int /\ g.to \in Int /\ g.from <= x /\ x < g.to
    BY <1>0, <1>1, <1>8, <2>2, ReadingIs
  <2>5. f = g \/ (Silence(f) /\ Silence(g))
    <3>1. x \in Following(Boundaries(R \ M, window), a, b) .. b - 1 BY <1>2, <2>2
    <3>2. \/ SegmentOf(R, window, TRUE, x) = SegmentOf(R \ M, window, TRUE, x)
          \/ Silence(SegmentOf(R, window, TRUE, x)) /\ Silence(SegmentOf(R \ M, window, TRUE, x))
      BY <1>0, <1>1, <1>8, <3>1, ReadAlike
    <3>3. QED BY <1>2, <3>2
  <2>6. F[x] = f /\ G[x] = g BY <2>3
  <2> HIDE DEF f, g, F, G
  <2>7. QED BY <2>3, <2>4, <2>5, <2>6
<1> HIDE DEF F, G, z, s, r
<1>10. Chain(s) BY <1>0, <1>5, <1>6, <1>9, TiledChain
<1>11. Chain(r) BY <1>0, <1>5, <1>7, <1>9, TiledChain
<1>12. DownAt(F, z, b) = DownAt(G, z, b) BY <1>0, <1>5, <1>9, DownAlike
<1>13. count(s, window, W).down = count(r, window, W).down
  BY <1>0, <1>1, <1>5, <1>6, <1>7, <1>10, <1>11, <1>12, SameDown
<1>14. QED BY <1>13 DEF s, r, Downtime

-----------------------------------------------------------------------------
(* The sweep. *)

\* Whatever was recorded is past, and a marker is apart from every other check.
Swept ==
    /\ Recorded
    /\ \A c \in checks : c.ts < now
    /\ \A t \in markers : t < now
    /\ Spaced(checks, Marks)

LEMMA CheckInitSwept == ConstantsOK /\ CheckInit => Swept
<1> SUFFICES ASSUME ConstantsOK, CheckInit PROVE Swept OBVIOUS
<1>1. Recorded BY CheckInitRecorded
<1>2. checks = {} /\ markers = {} BY DEF CheckInit
<1>3. QED BY <1>1, <1>2 DEF Swept, Spaced, Marks

LEMMA CheckNextSwept == ConstantsOK /\ Swept /\ [CheckNext]_checkVars => Swept'
<1> SUFFICES ASSUME ConstantsOK, Swept, [CheckNext]_checkVars PROVE Swept' OBVIOUS
<1>1. Recorded' BY CheckNextRecorded DEF Swept
<1>2. /\ now \in Int /\ (\A c \in checks : c.ts \in Int /\ c.ts < now)
      /\ (\A t \in markers : t \in Int /\ t < now) /\ End \in Int
  BY DEF Swept, Recorded, CheckTypeOK, ConstantsOK
<1>3. ASSUME NEW t \in now .. End - 1, NEW new, \A c \in new : c.ts = t, checks' = checks \union new, now' = t + 1,
             markers' = markers
      PROVE  Swept'
  <2>1. t \in Int /\ now <= t BY <1>2, <1>3
  <2>2. \A c \in checks' : c.ts < now' BY <1>2, <1>3, <2>1
  <2>3. \A x \in markers' : x < now' BY <1>2, <1>3, <2>1
  <2>4. Marks' = Marks
    <3>1. \A c \in new : c.ts \notin markers BY <1>2, <1>3, <2>1
    <3>2. QED BY <1>3, <3>1 DEF Marks
  <2>5. \A m \in Marks : \A c \in new : m.ts < c.ts BY <1>2, <1>3, <2>1 DEF Marks
  <2>6. Spaced(checks', Marks) BY <1>3, <2>5 DEF Swept, Spaced
  <2>7. QED BY <1>1, <2>2, <2>3, <2>4, <2>6 DEF Swept
<1>4. CASE Report
  <2>1. PICK t \in now .. End - 1, who \in SUBSET Sources \ {{}} : \E said \in [who -> Statuses] :
           /\ checks' = checks \union {[ts |-> t, source |-> s, status |-> said[s]] : s \in who}
           /\ now' = t + 1
    BY <1>4 DEF Report
  <2>2. PICK said \in [who -> Statuses] :
           /\ checks' = checks \union {[ts |-> t, source |-> s, status |-> said[s]] : s \in who}
           /\ now' = t + 1
    BY <2>1
  <2> DEFINE new == {[ts |-> t, source |-> s, status |-> said[s]] : s \in who}
  <2>3. \A c \in new : c.ts = t OBVIOUS
  <2>4. markers' = markers BY <1>4 DEF Report
  <2> HIDE DEF new
  <2>5. checks' = checks \union new BY <2>2 DEF new
  <2>6. QED BY <1>3, <2>2, <2>3, <2>4, <2>5
<1>5. CASE Sweep
  <2>1. PICK t \in now .. End - 1, last \in checks :
           /\ \A c \in checks : c.ts <= last.ts
           /\ last.ts + 2 < t
           /\ checks' = checks \union {[ts |-> t, source |-> Nobody, status |-> "unknown"]}
           /\ markers' = markers \union {t}
           /\ now' = t + 1
    BY <1>5 DEF Sweep
  <2> DEFINE new == [ts |-> t, source |-> Nobody, status |-> "unknown"]
  <2>2. t \in Int /\ now <= t BY <1>2
  <2>3. new.ts = t /\ new.source = Nobody /\ new.status = "unknown" OBVIOUS
  <2> HIDE DEF new
  <2>4. checks' = checks \union {new} BY <2>1 DEF new
  <2>5. \A c \in checks' : c.ts < now' BY <1>2, <2>1, <2>2, <2>3, <2>4
  <2>6. \A x \in markers' : x < now' BY <1>2, <2>1, <2>2
  <2>7. Marks' = Marks \union {new}
    <3>1. \A c \in checks : c.ts # t BY <1>2, <2>2
    <3>2. QED BY <2>1, <2>3, <2>4, <3>1 DEF Marks
  <2>8. ASSUME NEW c \in checks PROVE c.ts + maxGap < new.ts
    <3>1. c.ts <= last.ts /\ c.ts \in Int /\ last.ts \in Int BY <1>2, <2>1
    <3>2. QED BY <2>1, <2>2, <2>3, <3>1 DEF maxGap
  <2>9. ASSUME NEW m \in Marks PROVE m.ts < new.ts
    <3>1. m \in checks BY DEF Marks
    <3>2. QED BY <1>2, <2>2, <2>3, <3>1
  <2>10. Spaced(checks', Marks')
    <3>1. isUnknown(new.status) BY <2>3 DEF isUnknown
    <3>2. QED BY <2>4, <2>7, <2>8, <2>9, <3>1 DEF Swept, Spaced
  <2>11. QED BY <1>1, <2>5, <2>6, <2>10 DEF Swept
<1>6. CASE UNCHANGED checkVars BY <1>1, <1>6 DEF checkVars, Swept, Marks
<1>7. QED BY <1>4, <1>5, <1>6 DEF CheckNext

LEMMA SweptIsSilence == ConstantsOK /\ Swept => MarkersChangeNothing
<1> DEFINE own == checks \ Marks
<1> SUFFICES ASSUME ConstantsOK, Swept, NEW d \in Days,
                    \A m \in relevant(Marks, Day(d)) : \E c \in relevant(own, Day(d)) : c.ts < m.ts,
                    \A c \in own : ~isExcluded(c.status)
             PROVE  fromSamples(checks, Day(d), TRUE).down = fromSamples(own, Day(d), TRUE).down
  BY DEF MarkersChangeNothing
<1>1. PICK a \in Int, b \in Int : Day(d).from = a /\ Day(d).to = b /\ a <= b BY DayIs
<1>2. \A w \in windows : w.from \in Int /\ w.to \in Int BY DEF Swept, ConstantsOK, Recorded, CheckTypeOK
<1>3. Apart(normaliseWindows(windows, Day(d)), Day(d)) BY <1>1, <1>2, WindowsApart
<1>4. \A c \in checks : c.ts \in Int BY DEF Swept, ConstantsOK, Recorded, CheckTypeOK
<1> DEFINE R == relevant(checks, Day(d))
           M == relevant(Marks, Day(d))
<1>5. M \in SUBSET R /\ M \in SUBSET Marks /\ relevant(own, Day(d)) = R \ M BY DEF relevant, Marks
<1>6. Marked(R, M, a)
  <2>1. Spaced(R, M)
    <3>1. R \in SUBSET checks BY DEF relevant
    <3>2. QED BY <1>5, <3>1 DEF Swept, Spaced
  <2>2. \A c \in R : c.ts \in Int /\ a - maxGap <= c.ts BY <1>1, <1>4 DEF relevant
  <2>3. \A c \in R : ~isExcluded(c.status)
    <3>1. \A m \in Marks : ~isExcluded(m.status) BY DEF Swept, Spaced, isUnknown, isExcluded
    <3>2. \A c \in R : c \in Marks \/ c \in own BY DEF relevant
    <3>3. QED BY <3>1, <3>2
  <2>4. \A m \in M : \E c \in R \ M : c.ts < m.ts BY <1>5
  <2> HIDE DEF R, M
  <2>5. QED BY <1>5, <2>1, <2>2, <2>3, <2>4 DEF Marked
<1>7. own \in SUBSET checks OBVIOUS
<1> HIDE DEF own, M
<1>8. Without(checks, own, M, Day(d), a, b) BY <1>1, <1>4, <1>5, <1>6, <1>7 DEF Without
<1>9. Downtime(checks, Day(d), normaliseWindows(windows, Day(d)))
      = Downtime(own, Day(d), normaliseWindows(windows, Day(d)))
  BY <1>3, <1>8, SameWithout
<1>10. QED BY <1>9 DEF fromSamples, Downtime

\* The markers of the sweep change no downtime of a day in which the control was heard
\* of before them and nobody announced work, whoever reported what and when, whatever
\* windows there are, and however long the silence lasts.
THEOREM MarkersAreSilence == CheckSpec => []MarkersChangeNothing
<1>1. ConstantsOK BY AvailabilityAssumption
<1>2. CheckInit => Swept BY <1>1, CheckInitSwept
<1>3. Swept /\ [CheckNext]_checkVars => Swept' BY <1>1, CheckNextSwept
<1>4. Swept => MarkersChangeNothing BY <1>1, SweptIsSilence
<1>5. QED BY <1>2, <1>3, <1>4, PTL DEF CheckSpec

-----------------------------------------------------------------------------
(* Incidents. *)

USE DEF incidents, request

\* What a request is about, and what it says, from the step it is at.  An
\* incident bears the name of the request that opened it.
Shaped(q) ==
    /\ step[q] = "new" => of[q] = None /\ status[q] = "none" /\ says[q] = "investigating"
    /\ step[q] # "new" => of[q] \in Requests /\ status[of[q]] # "none"
    /\ status[q] = "none" => resolvedAt[q] = None /\ impacts[q] = NoImpact
    /\ of[q] = q => /\ says[q] = "investigating"
                    /\ step[q] \in {"impact", "write", "announce", "done", "refused", "ended"}
    /\ step[q] \in {"write", "row", "erase", "impact", "clear"} => says[q] \in statusSchema
    /\ step[q] = "publish" => says[q] \in {"draft", "published"}
    /\ step[q] = "announce" => says[q] # "draft"
    /\ step[q] = "clear" => resolving(q)
    /\ \A r, s \in revises[q] : r = s

Shape == \A q \in Requests : Shaped(q)

\* Two requests of one incident that are both on their way have crossed.
Rivalry == \A q, r \in OnTheirWay : q # r /\ of[q] = of[r] => q \in crossed

\* Past the row it writes: an update from there on, the opening from its start.
Past(q) ==
    \/ step[q] \in {"erase", "impact", "clear"}
    \/ step[q] = "write" /\ of[q] = q
    \/ step[q] = "announce" /\ says[q] # "published"

\* A request whose incident nobody else is at leaves it as it says, from the row
\* on; its impacts are none before they are declared, and what it declared after.
StandsBy(q) ==
    LET i == of[q] IN
    /\ Past(q) => status[i] = says[q] /\ (resolving(q) <=> resolvedAt[i] # None)
    /\ step[q] = "impact" => impacts[i] = NoImpact
    /\ Past(q) /\ step[q] \in {"write", "announce"} =>
          IF resolving(q) THEN impacts[i] = NoImpact ELSE \A r \in revises[q] : impacts[i] = r

Stands == \A q \in Requests \ crossed : StandsBy(q)

\* The timeline has an entry of every request that may announce an update.
Entered ==
    \A q \in Requests :
        step[q] \in {"row", "erase", "clear"} \/ (step[q] = "impact" /\ of[q] # q)
            \/ (step[q] = "announce" /\ says[q] # "published")
        => q \in timeline

\* What stood since the page was begun stands, and the page has read of it.
Watched == standing \subseteq Standing /\ \A x \in standing : x[1] \in seen

\* What each step keeps: the cleared incident needs to know who stands by what,
\* that needs to know who has crossed, and all of it where each request can be.
IInv == TypeOK /\ Shape /\ Rivalry /\ Stands /\ Entered /\ Watched /\ ResolvedIsCleared

\* What the rows of a declaration do: either the request is refused and nothing
\* of the incident changes, or what it declares is there and the request goes on.
LEMMA ImpactCases ==
    ASSUME TypeOK, Shape, NEW q \in Requests, Impact(q)
    PROVE  /\ of[q] \in Requests /\ step[q] = "impact"
           /\ status' = status /\ resolvedAt' = resolvedAt /\ isPublic' = isPublic
           /\ postmortem' = postmortem /\ timeline' = timeline /\ told' = told
           /\ of' = of /\ says' = says /\ revises' = revises /\ ended' = ended
           /\ crossed' = crossed /\ faults' = faults /\ seen' = seen
           /\ step' \in [Requests -> Steps]
           /\ \A p \in Requests \ {q} : step'[p] = step[p]
           /\ impacts' \in [Requests -> [Controls -> impactSchema \union {None}]]
           /\ \A i \in Requests \ {of[q]} : impacts'[i] = impacts[i]
           /\ \/ step'[q] = "refused" /\ impacts' = impacts
              \/ /\ step'[q] = Then(q) /\ Then(q) \in {"write", "clear", "announce"}
                 /\ \E r \in revises[q] :
                       /\ r \in [Controls -> impactSchema \union {None}]
                       /\ impacts'[of[q]] = [c \in Controls |-> IF r[c] = None THEN impacts[of[q]][c] ELSE r[c]]
<1>1. of[q] \in Requests /\ step[q] = "impact"
  BY DEF Impact, Shape, Shaped
<1>2. Then(q) \in Steps /\ Then(q) \in {"write", "clear", "announce"}
  BY DEF Then, Steps
<1>3. CASE step' = [step EXCEPT ![q] = "refused"] /\ impacts' = impacts
  BY <1>1, <1>3 DEF Impact, Watch, TypeOK, Steps
<1>4. ASSUME NEW r \in revises[q],
             step' = [step EXCEPT ![q] = Then(q)],
             impacts' = [impacts EXCEPT ![of[q]] = [c \in Controls |-> IF r[c] = None THEN @[c] ELSE r[c]]]
      PROVE  /\ step' \in [Requests -> Steps] /\ step'[q] = Then(q)
             /\ \A p \in Requests \ {q} : step'[p] = step[p]
             /\ impacts' \in [Requests -> [Controls -> impactSchema \union {None}]]
             /\ \A i \in Requests \ {of[q]} : impacts'[i] = impacts[i]
             /\ r \in [Controls -> impactSchema \union {None}]
             /\ impacts'[of[q]] = [c \in Controls |-> IF r[c] = None THEN impacts[of[q]][c] ELSE r[c]]
  <2>1. r \in [Controls -> impactSchema \union {None}]
    BY IncidentsAssumption DEF TypeOK
  <2>2. [c \in Controls |-> IF r[c] = None THEN impacts[of[q]][c] ELSE r[c]] \in [Controls -> impactSchema \union {None}]
    BY <1>1, <2>1 DEF TypeOK
  <2> QED BY <1>1, <1>2, <1>4, <2>1, <2>2 DEF TypeOK
<1> QED BY <1>1, <1>2, <1>3, <1>4 DEF Impact, Goes, Watch

\* A step keeps every variable in its type.
LEMMA TypeStep == TypeOK /\ Shape /\ [Next]_vars => TypeOK'
<1> SUFFICES ASSUME TypeOK, Shape, [Next]_vars PROVE TypeOK'
  OBVIOUS
<1>1. ASSUME NEW q \in Requests, NEW public \in BOOLEAN, NEW r \in Revisions, Open(q, public, r) PROVE TypeOK'
  BY <1>1 DEF Open, Goes, TypeOK, Steps, statusSchema, Watch
<1>2. ASSUME NEW q \in Requests, NEW i \in Requests, NEW s \in Said, NEW r \in {{}} \union {{x} : x \in Revisions}, Update(q, i, s, r) PROVE TypeOK'
  BY <1>2, IncidentsAssumption DEF Update, Load, Goes, Rivals, TypeOK, OnTheirWay, Steps, Watch
<1>3. ASSUME NEW q \in Requests, NEW i \in Requests, NEW s \in {"draft", "published"}, Postmortem(q, i, s) PROVE TypeOK'
  BY <1>3 DEF Postmortem, Load, Goes, Rivals, TypeOK, OnTheirWay, Steps, Watch
<1>4. ASSUME NEW q \in Requests, Impact(q) PROVE TypeOK'
  <2>1. standing' \in SUBSET (Requests \X Controls)
    BY <1>4 DEF Impact, Watch, TypeOK
  <2> QED BY <1>4, ImpactCases, <2>1 DEF TypeOK
<1>5. ASSUME NEW q \in Requests, Write(q) PROVE TypeOK'
  BY <1>5 DEF Write, Goes, TypeOK, Steps, Watch
<1>6. ASSUME NEW q \in Requests, Row(q) PROVE TypeOK'
  BY <1>6 DEF Row, Goes, Then, TypeOK, Shape, Shaped, Steps, Watch
<1>7. ASSUME NEW q \in Requests, Foreign(q) PROVE TypeOK'
  BY <1>7 DEF Foreign, Goes, TypeOK, Steps, Watch
<1>8. ASSUME NEW q \in Requests, Erase(q) PROVE TypeOK'
  BY <1>8 DEF Erase, Emptied, Goes, TypeOK, Steps, Watch, NoImpact
<1>9. ASSUME NEW q \in Requests, Clear(q) PROVE TypeOK'
  BY <1>9 DEF Clear, Emptied, Goes, TypeOK, Steps, Watch, NoImpact
<1>10. ASSUME NEW q \in Requests, Publish(q) PROVE TypeOK'
  BY <1>10 DEF Publish, Goes, TypeOK, Shape, Shaped, Steps, Watch
<1>11. ASSUME NEW q \in Requests, Announce(q) PROVE TypeOK'
  BY <1>11 DEF Announce, Goes, TypeOK, Steps, Watch
<1>12. CASE BeginPage
  BY <1>12 DEF BeginPage, TypeOK, Active, Standing
<1>13. ASSUME NEW S \in SUBSET OnTheirWay, CutShort(S) PROVE TypeOK'
  BY <1>13, IncidentsAssumption DEF CutShort, TypeOK, Steps, Watch
<1>14. CASE UNCHANGED vars
  BY <1>14 DEF vars, TypeOK
<1> QED BY <1>1, <1>2, <1>3, <1>4, <1>5, <1>6, <1>7, <1>8, <1>9, <1>10, <1>11, <1>12, <1>13, <1>14 DEF Next,
      Fails, Crash

\* A step leaves each request shaped as the step it is at: what it is about is
\* there, and what it says is what it may say.
LEMMA ShapeStep == TypeOK /\ Shape /\ [Next]_vars => Shape'
<1> SUFFICES ASSUME TypeOK, Shape, [Next]_vars PROVE Shape'
  OBVIOUS
<1>1. ASSUME NEW q \in Requests, NEW public \in BOOLEAN, NEW r \in Revisions, Open(q, public, r) PROVE Shape'
  <2> SUFFICES ASSUME NEW p \in Requests PROVE Shaped(p)'
    BY DEF Shape
  <2>1. CASE p = q
    BY <1>1, <2>1 DEF Open, Goes, TypeOK, Shape, Shaped
  <2>2. CASE p # q
    BY <1>1, <2>2 DEF Open, Goes, Shape, Shaped, resolving
  <2> QED BY <2>1, <2>2
<1>2. ASSUME NEW q \in Requests, NEW i \in Requests, NEW s \in Said, NEW r \in {{}} \union {{x} : x \in Revisions}, Update(q, i, s, r) PROVE Shape'
  BY <1>2, IncidentsAssumption DEF Update, Load, Goes, TypeOK, Shape, Shaped, resolving
<1>3. ASSUME NEW q \in Requests, NEW i \in Requests, NEW s \in {"draft", "published"}, Postmortem(q, i, s) PROVE Shape'
  BY <1>3 DEF Postmortem, Load, Goes, TypeOK, Shape, Shaped, resolving
<1>4. ASSUME NEW q \in Requests, Impact(q) PROVE Shape'
  <2> SUFFICES ASSUME NEW p \in Requests PROVE Shaped(p)'
    BY DEF Shape
  <2>1. Shaped(p) /\ Shaped(q) /\ status[of[q]] # "none"
    BY <1>4, ImpactCases DEF Shape, Shaped
  <2>2. CASE p = q
    <3>1. CASE step'[q] = "refused"
      BY <1>4, <2>1, <2>2, <3>1, ImpactCases DEF Shaped
    <3>2. CASE step'[q] = Then(q)
      BY <1>4, <2>1, <2>2, <3>2, ImpactCases, IncidentsAssumption DEF Shaped, Then, resolving,
                                                                      statusSchema
    <3> QED BY <1>4, <3>1, <3>2, ImpactCases
  <2>3. CASE p # q
    BY <1>4, <2>1, <2>3, ImpactCases DEF Shaped, resolving
  <2> QED BY <2>2, <2>3
<1>5. ASSUME NEW q \in Requests, Write(q) PROVE Shape'
  BY <1>5 DEF Write, Goes, Shape, Shaped, resolving
<1>6. ASSUME NEW q \in Requests, Row(q) PROVE Shape'
  <2>1. of[q] \in Requests /\ of[q] # q /\ says[q] \in statusSchema /\ step[q] = "row"
    BY <1>6 DEF Row, Goes, Shape, Shaped
  <2> SUFFICES ASSUME NEW p \in Requests PROVE Shaped(p)'
    BY DEF Shape
  <2>2. CASE p = q
    BY <1>6, <2>1, <2>2, IncidentsAssumption DEF Row, Goes, Then, Shape, Shaped, resolving,
                                                 statusSchema
  <2>3. CASE p # q
    BY <1>6, <2>1, <2>3 DEF Row, Goes, Shape, Shaped, resolving, statusSchema
  <2> QED BY <2>2, <2>3
<1>7. ASSUME NEW q \in Requests, Foreign(q) PROVE Shape'
  BY <1>7 DEF Foreign, Goes, Shape, Shaped, resolving
<1>8. ASSUME NEW q \in Requests, Erase(q) PROVE Shape'
  BY <1>8 DEF Erase, Emptied, Goes, Shape, Shaped, resolving
<1>9. ASSUME NEW q \in Requests, Clear(q) PROVE Shape'
  BY <1>9 DEF Clear, Emptied, Goes, Shape, Shaped, resolving
<1>10. ASSUME NEW q \in Requests, Publish(q) PROVE Shape'
  BY <1>10 DEF Publish, Goes, Shape, Shaped, resolving
<1>11. ASSUME NEW q \in Requests, Announce(q) PROVE Shape'
  BY <1>11 DEF Announce, Goes, Shape, Shaped, resolving
<1>12. CASE BeginPage
  BY <1>12 DEF BeginPage, Shape, Shaped, resolving
<1>13. ASSUME NEW S \in SUBSET OnTheirWay, CutShort(S) PROVE Shape'
  BY <1>13 DEF CutShort, Shape, Shaped, OnTheirWay, resolving
<1>14. CASE UNCHANGED vars
  BY <1>14 DEF vars, Shape, Shaped, resolving
<1> QED BY <1>1, <1>2, <1>3, <1>4, <1>5, <1>6, <1>7, <1>8, <1>9, <1>10, <1>11, <1>12, <1>13, <1>14 DEF Next,
      Fails, Crash

\* A request that loads an incident marks whoever is at it, and itself if anyone is.
LEMMA RivalryStep == TypeOK /\ Shape /\ Rivalry /\ [Next]_vars => Rivalry'
<1> SUFFICES ASSUME TypeOK, Shape, Rivalry, [Next]_vars PROVE Rivalry'
  OBVIOUS
<1>1. ASSUME NEW q \in Requests, NEW public \in BOOLEAN, NEW r \in Revisions, Open(q, public, r) PROVE Rivalry'
  BY <1>1, IncidentsAssumption DEF Open, Goes, Shape, Shaped, Rivalry, OnTheirWay
<1>2. ASSUME NEW q \in Requests, NEW i \in Requests, NEW s \in Said, NEW r \in {{}} \union {{x} : x \in Revisions}, Update(q, i, s, r) PROVE Rivalry'
  BY <1>2 DEF Update, Load, Goes, Rivals, TypeOK, Rivalry, OnTheirWay
<1>3. ASSUME NEW q \in Requests, NEW i \in Requests, NEW s \in {"draft", "published"}, Postmortem(q, i, s) PROVE Rivalry'
  BY <1>3 DEF Postmortem, Load, Goes, Rivals, TypeOK, Rivalry, OnTheirWay
<1>4. ASSUME NEW q \in Requests, Impact(q) PROVE Rivalry'
  BY <1>4, ImpactCases DEF Rivalry, OnTheirWay
<1>5. ASSUME NEW q \in Requests, Write(q) PROVE Rivalry'
  BY <1>5 DEF Write, Goes, Rivalry, OnTheirWay
<1>6. ASSUME NEW q \in Requests, Row(q) PROVE Rivalry'
  BY <1>6 DEF Row, Goes, Rivalry, OnTheirWay
<1>7. ASSUME NEW q \in Requests, Foreign(q) PROVE Rivalry'
  BY <1>7 DEF Foreign, Goes, Rivalry, OnTheirWay
<1>8. ASSUME NEW q \in Requests, Erase(q) PROVE Rivalry'
  BY <1>8 DEF Erase, Emptied, Goes, Rivalry, OnTheirWay
<1>9. ASSUME NEW q \in Requests, Clear(q) PROVE Rivalry'
  BY <1>9 DEF Clear, Emptied, Goes, Rivalry, OnTheirWay
<1>10. ASSUME NEW q \in Requests, Publish(q) PROVE Rivalry'
  BY <1>10 DEF Publish, Goes, Rivalry, OnTheirWay
<1>11. ASSUME NEW q \in Requests, Announce(q) PROVE Rivalry'
  BY <1>11 DEF Announce, Goes, Rivalry, OnTheirWay
<1>12. CASE BeginPage
  BY <1>12 DEF BeginPage, Rivalry, OnTheirWay
<1>13. ASSUME NEW S \in SUBSET OnTheirWay, CutShort(S) PROVE Rivalry'
  BY <1>13 DEF CutShort, Rivalry, OnTheirWay
<1>14. CASE UNCHANGED vars
  BY <1>14 DEF vars, Rivalry, OnTheirWay
<1> QED BY <1>1, <1>2, <1>3, <1>4, <1>5, <1>6, <1>7, <1>8, <1>9, <1>10, <1>11, <1>12, <1>13, <1>14 DEF Next,
      Fails, Crash

\* Nothing but another request of the same incident undoes what a request wrote
\* of it, and such a request has crossed it.
LEMMA StandsStep == TypeOK /\ Shape /\ Rivalry /\ Stands /\ [Next]_vars => Stands'
<1> SUFFICES ASSUME TypeOK, Shape, Rivalry, Stands, [Next]_vars PROVE Stands'
  OBVIOUS
<1>1. ASSUME NEW q \in Requests, NEW public \in BOOLEAN, NEW r \in Revisions, Open(q, public, r) PROVE Stands'
  <2> SUFFICES ASSUME NEW p \in Requests \ crossed' PROVE StandsBy(p)'
    BY DEF Stands
  <2>1. CASE p # q
    BY <1>1, <2>1, IncidentsAssumption DEF Open, Goes, Stands, StandsBy, Past, resolving, Shape,
                                           Shaped
  <2>2. CASE p = q
    BY <1>1, <2>2 DEF Open, Goes, StandsBy, resolving, Shape, Shaped, TypeOK
  <2> QED BY <2>1, <2>2
<1>2. ASSUME NEW q \in Requests, NEW i \in Requests, NEW s \in Said, NEW r \in {{}} \union {{x} : x \in Revisions}, Update(q, i, s, r) PROVE Stands'
  BY <1>2, IncidentsAssumption DEF Update, Load, Goes, Shape, Shaped, Stands, StandsBy, Past,
                                   resolving
<1>3. ASSUME NEW q \in Requests, NEW i \in Requests, NEW s \in {"draft", "published"}, Postmortem(q, i, s) PROVE Stands'
  BY <1>3 DEF Postmortem, Load, Goes, Stands, StandsBy, Past, resolving
<1>4. ASSUME NEW q \in Requests, Impact(q) PROVE Stands'
  <2> SUFFICES ASSUME NEW p \in Requests \ crossed' PROVE StandsBy(p)'
    BY DEF Stands
  <2>1. CASE p # q
    <3>1. Past(p) \/ step[p] = "impact" => of[p] # of[q]
      BY <1>4, <2>1, ImpactCases DEF Rivalry, OnTheirWay, Past
    <3>2. StandsBy(p) /\ of[p] \in Requests \union {None}
      BY <1>4, ImpactCases DEF Stands, TypeOK
    <3>3. step'[p] = step[p] /\ of' = of /\ says' = says /\ status' = status
          /\ resolvedAt' = resolvedAt /\ revises' = revises
      BY <1>4, <2>1, ImpactCases
    <3>4. Past(p) \/ step[p] = "impact" => impacts'[of[p]] = impacts[of[p]]
      BY <1>4, <3>1, <3>2, ImpactCases DEF Past, Shape, Shaped
    <3> QED BY <3>2, <3>3, <3>4 DEF StandsBy, Past, resolving
  <2>2. CASE p = q
    <3>1. CASE step'[q] = "refused"
      BY <1>4, <2>2, <3>1 DEF StandsBy, Past
    <3>2. CASE step'[q] # "refused"
      <4>1. step'[q] = Then(q) /\ impacts[of[q]] = NoImpact /\ Past(q) /\ StandsBy(q)
        BY <1>4, <2>2, <3>2, ImpactCases DEF Stands, StandsBy, Past
      <4>2. PICK x \in revises[q] :
                /\ x \in [Controls -> impactSchema \union {None}]
                /\ impacts'[of[q]] = [c \in Controls |-> IF x[c] = None THEN impacts[of[q]][c] ELSE x[c]]
        BY <1>4, <3>2, ImpactCases
      <4>5. impacts'[of[q]] = x
        BY <4>1, <4>2 DEF NoImpact
      <4>3. \A r \in revises[q] : impacts'[of[q]] = r
        BY <4>5 DEF Shape, Shaped
      <4> QED BY <1>4, <2>2, <4>1, <4>3, ImpactCases DEF StandsBy, Then, resolving, Shape, Shaped
    <3> QED BY <3>1, <3>2
  <2> QED BY <2>1, <2>2
<1>5. ASSUME NEW q \in Requests, Write(q) PROVE Stands'
  BY <1>5 DEF Write, Goes, Stands, StandsBy, Past, resolving
<1>6. ASSUME NEW q \in Requests, Row(q) PROVE Stands'
  <2> SUFFICES ASSUME NEW p \in Requests \ crossed' PROVE StandsBy(p)'
    BY DEF Stands
  <2>1. CASE p # q
    <3>1. Past(p) \/ step[p] = "impact" => of[p] # of[q]
      BY <1>6, <2>1 DEF Row, Goes, Rivalry, OnTheirWay, Past
    <3>2. StandsBy(p) /\ of[p] \in Requests \union {None}
      BY <1>6 DEF Row, Stands, TypeOK
    <3> QED BY <1>6, <2>1, <3>1, <3>2 DEF Row, Goes, StandsBy, Past, resolving
  <2>2. CASE p = q
    <3>1. of[q] \in Requests /\ of[q] # q
      BY <1>6 DEF Row, Goes, Shape, Shaped
    <3> QED BY <1>6, <2>2, <3>1, IncidentsAssumption DEF Row, Goes, Then, StandsBy, resolving,
                                                         TypeOK
  <2> QED BY <2>1, <2>2
<1>7. ASSUME NEW q \in Requests, Foreign(q) PROVE Stands'
  BY <1>7 DEF Foreign, Goes, Stands, StandsBy, Past, resolving
<1>8. ASSUME NEW q \in Requests, Erase(q) PROVE Stands'
  <2> SUFFICES ASSUME NEW p \in Requests \ crossed' PROVE StandsBy(p)'
    BY DEF Stands
  <2>1. CASE p # q
    <3>1. Past(p) \/ step[p] = "impact" => of[p] # of[q]
      BY <1>8, <2>1 DEF Erase, Emptied, Goes, Rivalry, OnTheirWay, Past
    <3>2. StandsBy(p) /\ of[p] \in Requests \union {None}
      BY <1>8 DEF Erase, Emptied, Stands, TypeOK
    <3> QED BY <1>8, <2>1, <3>1, <3>2 DEF Erase, Emptied, Goes, StandsBy, Past, resolving
  <2>2. CASE p = q
    BY <1>8, <2>2 DEF Erase, Emptied, Goes, Stands, StandsBy, Past, resolving, Shape, Shaped, TypeOK
  <2> QED BY <2>1, <2>2
<1>9. ASSUME NEW q \in Requests, Clear(q) PROVE Stands'
  <2> SUFFICES ASSUME NEW p \in Requests \ crossed' PROVE StandsBy(p)'
    BY DEF Stands
  <2>1. CASE p # q
    <3>1. Past(p) \/ step[p] = "impact" => of[p] # of[q]
      BY <1>9, <2>1 DEF Clear, Emptied, Goes, Rivalry, OnTheirWay, Past
    <3>2. StandsBy(p) /\ of[p] \in Requests \union {None}
      BY <1>9 DEF Clear, Emptied, Stands, TypeOK
    <3> QED BY <1>9, <2>1, <3>1, <3>2 DEF Clear, Emptied, Goes, StandsBy, Past, resolving
  <2>2. CASE p = q
    BY <1>9, <2>2 DEF Clear, Emptied, Goes, Stands, StandsBy, Past, resolving, Shape, Shaped, TypeOK
  <2> QED BY <2>1, <2>2
<1>10. ASSUME NEW q \in Requests, Publish(q) PROVE Stands'
  BY <1>10 DEF Publish, Goes, Stands, StandsBy, Past, resolving
<1>11. ASSUME NEW q \in Requests, Announce(q) PROVE Stands'
  BY <1>11 DEF Announce, Goes, Stands, StandsBy, Past, resolving
<1>12. CASE BeginPage
  BY <1>12 DEF BeginPage, Stands, StandsBy, Past, resolving
<1>13. ASSUME NEW S \in SUBSET OnTheirWay, CutShort(S) PROVE Stands'
  BY <1>13 DEF CutShort, Stands, StandsBy, Past, resolving
<1>14. CASE UNCHANGED vars
  BY <1>14 DEF vars, Stands, StandsBy, Past, resolving
<1> QED BY <1>1, <1>2, <1>3, <1>4, <1>5, <1>6, <1>7, <1>8, <1>9, <1>10, <1>11, <1>12, <1>13, <1>14 DEF Next,
      Fails, Crash

\* An update gets past its entry in the timeline only by writing one.
LEMMA EnteredStep == TypeOK /\ Shape /\ Entered /\ [Next]_vars => Entered'
<1> SUFFICES ASSUME TypeOK, Shape, Entered, [Next]_vars PROVE Entered'
  OBVIOUS
<1>1. ASSUME NEW q \in Requests, NEW public \in BOOLEAN, NEW r \in Revisions, Open(q, public, r) PROVE Entered'
  BY <1>1 DEF Open, Goes, TypeOK, Entered
<1>2. ASSUME NEW q \in Requests, NEW i \in Requests, NEW s \in Said, NEW r \in {{}} \union {{x} : x \in Revisions}, Update(q, i, s, r) PROVE Entered'
  BY <1>2 DEF Update, Load, Goes, Entered
<1>3. ASSUME NEW q \in Requests, NEW i \in Requests, NEW s \in {"draft", "published"}, Postmortem(q, i, s) PROVE Entered'
  BY <1>3 DEF Postmortem, Load, Goes, Entered
<1>4. ASSUME NEW q \in Requests, Impact(q) PROVE Entered'
  BY <1>4 DEF Impact, Goes, Then, TypeOK, Entered
<1>5. ASSUME NEW q \in Requests, Write(q) PROVE Entered'
  BY <1>5 DEF Write, Goes, Entered
<1>6. ASSUME NEW q \in Requests, Row(q) PROVE Entered'
  BY <1>6 DEF Row, Goes, Entered
<1>7. ASSUME NEW q \in Requests, Foreign(q) PROVE Entered'
  BY <1>7 DEF Foreign, Goes, Entered
<1>8. ASSUME NEW q \in Requests, Erase(q) PROVE Entered'
  BY <1>8 DEF Erase, Emptied, Goes, Entered
<1>9. ASSUME NEW q \in Requests, Clear(q) PROVE Entered'
  BY <1>9 DEF Clear, Emptied, Goes, Entered
<1>10. ASSUME NEW q \in Requests, Publish(q) PROVE Entered'
  BY <1>10 DEF Publish, Goes, Entered
<1>11. ASSUME NEW q \in Requests, Announce(q) PROVE Entered'
  BY <1>11 DEF Announce, Goes, Entered
<1>12. CASE BeginPage
  BY <1>12 DEF BeginPage, Entered
<1>13. ASSUME NEW S \in SUBSET OnTheirWay, CutShort(S) PROVE Entered'
  BY <1>13 DEF CutShort, Entered
<1>14. CASE UNCHANGED vars
  BY <1>14 DEF vars, Entered
<1> QED BY <1>1, <1>2, <1>3, <1>4, <1>5, <1>6, <1>7, <1>8, <1>9, <1>10, <1>11, <1>12, <1>13, <1>14 DEF Next,
      Fails, Crash

\* A page keeps what it has read, and what stood all along still stands.
LEMMA WatchedStep == TypeOK /\ Watched /\ [Next]_vars => Watched'
<1> SUFFICES ASSUME TypeOK, Watched, [Next]_vars PROVE Watched'
  OBVIOUS
<1>1. ASSUME NEW q \in Requests, NEW public \in BOOLEAN, NEW r \in Revisions, Open(q, public, r) PROVE Watched'
  BY <1>1 DEF Open, Watched, Watch
<1>2. ASSUME NEW q \in Requests, NEW i \in Requests, NEW s \in Said, NEW r \in {{}} \union {{x} : x \in Revisions}, Update(q, i, s, r) PROVE Watched'
  BY <1>2 DEF Update, Watched, Watch
<1>3. ASSUME NEW q \in Requests, NEW i \in Requests, NEW s \in {"draft", "published"}, Postmortem(q, i, s) PROVE Watched'
  BY <1>3 DEF Postmortem, Watched, Watch
<1>4. ASSUME NEW q \in Requests, Impact(q) PROVE Watched'
  BY <1>4 DEF Impact, Watched, Watch
<1>5. ASSUME NEW q \in Requests, Write(q) PROVE Watched'
  BY <1>5 DEF Write, Watched, Watch
<1>6. ASSUME NEW q \in Requests, Row(q) PROVE Watched'
  BY <1>6 DEF Row, Watched, Watch
<1>7. ASSUME NEW q \in Requests, Foreign(q) PROVE Watched'
  BY <1>7 DEF Foreign, Watched, Watch
<1>8. ASSUME NEW q \in Requests, Erase(q) PROVE Watched'
  BY <1>8 DEF Erase, Emptied, Watched, Watch
<1>9. ASSUME NEW q \in Requests, Clear(q) PROVE Watched'
  BY <1>9 DEF Clear, Emptied, Watched, Watch
<1>10. ASSUME NEW q \in Requests, Publish(q) PROVE Watched'
  BY <1>10 DEF Publish, Watched, Watch
<1>11. ASSUME NEW q \in Requests, Announce(q) PROVE Watched'
  BY <1>11 DEF Announce, Watched, Watch
<1>12. CASE BeginPage
  BY <1>12 DEF BeginPage, Watched, Standing, Active
<1>13. ASSUME NEW S \in SUBSET OnTheirWay, CutShort(S) PROVE Watched'
  BY <1>13 DEF CutShort, Watched, Watch
<1>14. CASE UNCHANGED vars
  BY <1>14 DEF vars, Watched, Standing, Active
<1> QED BY <1>1, <1>2, <1>3, <1>4, <1>5, <1>6, <1>7, <1>8, <1>9, <1>10, <1>11, <1>12, <1>13, <1>14 DEF Next,
      Fails, Crash

\* Where a request that resolves its incident has not cleared its impacts yet.
Uncleared == {"erase", "impact", "clear", "refused", "ended"}

Excuse(i, q) == of[q] = i /\ (q \in crossed \/ (resolving(q) /\ step[q] \in Uncleared))

\* An excuse lasts for as long as requests go on without clearing.
LEMMA ExcuseKept ==
    ASSUME Shape, ResolvedIsCleared, crossed \subseteq crossed',
           NEW i \in Requests, status[i] = "resolved", impacts[i] # NoImpact,
           \A q \in Requests : step[q] # "new" =>
               /\ of'[q] = of[q] /\ says'[q] = says[q]
               /\ of[q] = i /\ step[q] \in Uncleared => step'[q] \in Uncleared
    PROVE  \E q \in Requests : Excuse(i, q)'
<1>1. PICK q \in Requests : Excuse(i, q)
  BY DEF ResolvedIsCleared, Excuse, Uncleared
<1>2. step[q] # "new"
  BY <1>1, IncidentsAssumption DEF Shape, Shaped, Excuse
<1> QED BY <1>1, <1>2 DEF Excuse, resolving

\* What is resolved and declares something has an excuse: the request that
\* resolved it, or one that crossed it.
LEMMA ClearedStep ==
    TypeOK /\ Shape /\ Stands /\ ResolvedIsCleared /\ [Next]_vars => ResolvedIsCleared'
<1> SUFFICES ASSUME TypeOK, Shape, Stands, ResolvedIsCleared, [Next]_vars,
                    NEW i \in Requests, status'[i] = "resolved", impacts'[i] # NoImpact
             PROVE  \E q \in Requests : Excuse(i, q)'
  BY DEF ResolvedIsCleared, Excuse, Uncleared
<1> DEFINE Goal == \E q \in Requests : Excuse(i, q)'
<1>1. ASSUME NEW q \in Requests, NEW public \in BOOLEAN, NEW r \in Revisions, Open(q, public, r) PROVE Goal
  <2>1. status[i] = "resolved" /\ impacts[i] # NoImpact
    BY <1>1 DEF Open
  <2> HIDE DEF Goal
  <2> QED BY <1>1, <2>1, ExcuseKept DEF Goal, Open, Goes
<1>2. ASSUME NEW q \in Requests, NEW j \in Requests, NEW s \in Said,
             NEW r \in {{}} \union {{x} : x \in Revisions}, Update(q, j, s, r)
      PROVE Goal
  BY <1>2, ExcuseKept DEF Update, Load, Goes
<1>3. ASSUME NEW q \in Requests, NEW j \in Requests, NEW s \in {"draft", "published"}, Postmortem(q, j, s) PROVE Goal
  BY <1>3, ExcuseKept DEF Postmortem, Load, Goes
<1>4. ASSUME NEW q \in Requests, Impact(q) PROVE Goal
  <2>1. CASE of[q] # i
    BY <1>4, <2>1, ExcuseKept DEF Impact, Goes, TypeOK
  <2>2. CASE of[q] = i /\ step'[q] = "refused"
    BY <1>4, <2>2, ImpactCases, ExcuseKept DEF Uncleared
  <2>3. CASE of[q] = i /\ step'[q] # "refused" /\ q \in crossed
    BY <1>4, <2>3 DEF Impact, Excuse
  <2>4. CASE of[q] = i /\ step'[q] # "refused" /\ q \notin crossed
    <3>1. says[q] = "resolved"
      BY <1>4, <2>4 DEF Impact, Stands, StandsBy, Past
    <3>2. step'[q] = "clear"
      BY <1>4, <2>4, <3>1 DEF Impact, Goes, Then, TypeOK, Shape, Shaped, resolving
    <3> QED BY <1>4, <2>4, <3>1, <3>2 DEF Impact, Excuse, Uncleared, resolving
  <2> QED BY <2>1, <2>2, <2>3, <2>4
<1>5. ASSUME NEW q \in Requests, Row(q) PROVE Goal
  <2>1. CASE of[q] # i
    BY <1>5, <2>1, ExcuseKept DEF Row, Goes
  <2>2. CASE of[q] = i
    <3>1. of[q] # q /\ says[q] = "resolved"
      BY <1>5, <2>2 DEF Row, Shape, Shaped, TypeOK
    <3> QED BY <1>5, <2>2, <3>1 DEF Row, Goes, Then, Excuse, Uncleared, resolving, TypeOK
  <2> QED BY <2>1, <2>2
<1>6. ASSUME NEW q \in Requests, Erase(q) \/ Clear(q) PROVE Goal
  <2>1. of[q] # i /\ status[i] = "resolved" /\ impacts[i] # NoImpact
    BY <1>6 DEF Erase, Clear, Emptied, TypeOK
  <2> QED BY <1>6, <2>1, ExcuseKept DEF Erase, Clear, Emptied, Goes, TypeOK
<1>7. ASSUME NEW q \in Requests, Write(q) \/ Foreign(q) \/ Publish(q) \/ Announce(q) PROVE Goal
  BY <1>7, ExcuseKept DEF Write, Foreign, Publish, Announce, Goes, TypeOK, Uncleared
<1>8. ASSUME NEW S \in SUBSET OnTheirWay, CutShort(S) PROVE Goal
  BY <1>8, ExcuseKept DEF CutShort, Uncleared
<1>9. CASE BeginPage \/ UNCHANGED vars
  BY <1>9, ExcuseKept DEF BeginPage, vars
<1> QED BY <1>1, <1>2, <1>3, <1>4, <1>5, <1>6, <1>7, <1>8, <1>9 DEF Next, Fails, Crash

\* It holds before anything is asked for.
LEMMA Initially == Init => IInv
<1> SUFFICES ASSUME Init PROVE IInv
  OBVIOUS
<1>1. TypeOK
  BY IncidentsAssumption DEF Init, TypeOK, Steps, statusSchema, NoImpact
<1>2. Shape /\ Entered
  BY IncidentsAssumption DEF Init, Shape, Shaped, Entered
<1>3. Rivalry /\ Stands /\ Watched
  BY DEF Init, Rivalry, OnTheirWay, Stands, StandsBy, Past, Watched
<1>4. ResolvedIsCleared
  BY DEF Init, ResolvedIsCleared
<1> QED BY <1>1, <1>2, <1>3, <1>4 DEF IInv

\* The invariant holds of every run.
LEMMA Always == Spec => []IInv
<1>1. IInv /\ [Next]_vars => IInv'
  BY TypeStep, ShapeStep, RivalryStep, StandsStep, EnteredStep, WatchedStep, ClearedStep DEF IInv
<1> QED BY Initially, <1>1, PTL DEF Spec

\* Every run is well typed.
THEOREM Types == Spec => []TypeOK
<1>1. IInv => TypeOK
  BY DEF IInv
<1> QED BY Always, <1>1, PTL

\* A resolved incident declares nothing any more (routes/incidents.ts clears its
\* impacts), unless requests crossed or the one that resolved it is not through.
THEOREM Cleared == Spec => []ResolvedIsCleared
<1>1. IInv => ResolvedIsCleared
  BY DEF IInv
<1> QED BY Always, <1>1, PTL

\* What subscribers are told of an update is what stands: it is on the timeline,
\* and the row and its impacts are as it says, whichever requests of other
\* incidents are under way and wherever they were cut short.
THEOREM TellsWhatStands == Spec => ToldWhenItStands
<1>1. ASSUME IInv, [Next]_vars, NEW q \in told' \ told PROVE Told(q)
  <2>1. q \in Requests /\ Announce(q)
    <3>1. ASSUME NEW p \in Requests, NEW public \in BOOLEAN, NEW r \in Revisions, Open(p, public, r)
          PROVE  told' = told
      BY <3>1 DEF Open
    <3>2. ASSUME NEW p \in Requests, NEW i \in Requests, NEW s \in Said,
                 NEW r \in {{}} \union {{x} : x \in Revisions}, Update(p, i, s, r)
          PROVE  told' = told
      BY <3>2 DEF Update, Load
    <3>3. ASSUME NEW p \in Requests, NEW i \in Requests, NEW s \in {"draft", "published"}, Postmortem(p, i, s)
          PROVE  told' = told
      BY <3>3 DEF Postmortem, Load
    <3>4. ASSUME NEW p \in Requests,
                 Impact(p) \/ Write(p) \/ Row(p) \/ Foreign(p) \/ Erase(p) \/ Clear(p) \/ Publish(p) \/ Fails(p)
          PROVE  told' = told
      BY <3>4 DEF Impact, Write, Row, Foreign, Erase, Clear, Emptied, Publish, Fails, CutShort
    <3>5. ASSUME BeginPage \/ Crash \/ UNCHANGED vars PROVE told' = told
      BY <3>5 DEF BeginPage, Crash, CutShort, vars
    <3>6. told' # told
      OBVIOUS
    <3>7. PICK p \in Requests : Announce(p)
      BY <1>1, <3>1, <3>2, <3>3, <3>4, <3>5, <3>6 DEF Next
    <3> QED BY <1>1, <3>7 DEF Announce
  <2> SUFFICES ASSUME says[q] # "published" PROVE Told(q)
    BY DEF Told
  <2>2. step[q] = "announce" /\ isPublic[of[q]]
    BY <1>1, <2>1 DEF Announce, Goes
  <2>3. q \in timeline
    BY <1>1, <2>1, <2>2 DEF IInv, Entered
  <2>4. q \notin crossed => StandsBy(q)
    BY <1>1, <2>1 DEF IInv, Stands
  <2> QED BY <2>2, <2>3, <2>4 DEF Told, StandsBy, Past
<1>2. IInv /\ [Next]_vars => [\A q \in told' \ told : Told(q)]_vars
  BY <1>1
<1> QED BY Always, <1>2, PTL DEF Spec, ToldWhenItStands

-----------------------------------------------------------------------------
(* The page. *)

\* The six statuses, and how bad each is.
LEMMA Ranks ==
    /\ Statuses = {"operational", "maintenance", "unknown", "degraded", "partial", "down"}
    /\ severityRank("operational") = 0 /\ severityRank("maintenance") = 1
    /\ severityRank("unknown") = 2 /\ severityRank("degraded") = 3
    /\ severityRank("partial") = 4 /\ severityRank("down") = 5
    /\ \A s \in Statuses : severityRank(s) \in 0 .. 5
BY DEF Statuses, severityRank, SEVERITY_ORDER

\* The worst of some statuses is one of them, and none of them is worse.
LEMMA WorstIsWorst ==
    ASSUME NEW S \in SUBSET Statuses, S # {}
    PROVE  WorstOf(S) \in S /\ \A t \in S : severityRank(t) <= severityRank(WorstOf(S))
<1>1. \E s \in S : \A t \in S : severityRank(t) <= severityRank(s)
  <2>1. CASE "down" \in S
    BY <2>1, Ranks
  <2>2. CASE "down" \notin S /\ "partial" \in S
    BY <2>2, Ranks
  <2>3. CASE "down" \notin S /\ "partial" \notin S /\ "degraded" \in S
    BY <2>3, Ranks
  <2>4. CASE S \subseteq {"operational", "maintenance", "unknown"}
    <3>1. CASE "unknown" \in S
      BY <2>4, <3>1, Ranks
    <3>2. CASE "unknown" \notin S /\ "maintenance" \in S
      BY <2>4, <3>2, Ranks
    <3>3. CASE S = {"operational"}
      BY <3>3, Ranks
    <3> QED BY <2>4, <3>1, <3>2, <3>3
  <2> QED BY <2>1, <2>2, <2>3, <2>4, Ranks
<1> QED BY <1>1 DEF WorstOf

\* A bad status among others makes for a headline that is not green.
LEMMA BadIsNotGreen ==
    ASSUME NEW S \in SUBSET Statuses, NEW t \in S, severityRank(t) >= 3
    PROVE  ~Green(WorstOf(S))
<1>1. WorstOf(S) \in S /\ severityRank(t) <= severityRank(WorstOf(S))
  BY WorstIsWorst
<1>2. severityRank(WorstOf(S)) \in 0 .. 5 /\ severityRank(t) \in 0 .. 5
  BY <1>1, Ranks
<1> QED BY <1>1, <1>2, Ranks DEF Green

\* A component that an incident the page has read declares for shows a bad
\* status, at least as bad as each that is declared.
LEMMA DeclaredComponent ==
    ASSUME TypeOK, NEW c \in Controls, NEW i \in seen, impacts[i][c] # None,
           NEW measured \in Measured, NEW maintenance \in SUBSET Controls
    PROVE  /\ component(c, measured, maintenance) \in Statuses
           /\ severityRank(component(c, measured, maintenance)) >= 3
           /\ severityRank(component(c, measured, maintenance)) >= severityRank(impactToStatus(impacts[i][c]))
<1>1. impactToStatus(impacts[i][c]) \in declared(c)
  BY DEF declared
<1>2. declared(c) \subseteq {"degraded", "partial", "down"}
  BY DEF declared, TypeOK, impactToStatus, impactSchema
<1>3. component(c, measured, maintenance) = WorstOf(declared(c))
  BY <1>1 DEF component
<1>4. declared(c) \in SUBSET Statuses /\ declared(c) # {}
  BY <1>1, <1>2, Ranks
<1>5. WorstOf(declared(c)) \in declared(c)
      /\ severityRank(impactToStatus(impacts[i][c])) <= severityRank(WorstOf(declared(c)))
  BY <1>1, <1>4, WorstIsWorst
<1> QED BY <1>1, <1>2, <1>3, <1>5, Ranks

\* Whatever is measured and planned, a component shows a status.
LEMMA ComponentIsStatus ==
    ASSUME TypeOK, NEW c \in Controls, NEW measured \in Measured, NEW maintenance \in SUBSET Controls
    PROVE  component(c, measured, maintenance) \in Statuses
<1>1. CASE declared(c) = {}
  BY <1>1, Ranks DEF component, Measured
<1>2. CASE declared(c) # {}
  <2>1. PICK i \in seen : impacts[i][c] # None
    BY <1>2 DEF declared
  <2> QED BY <2>1, DeclaredComponent
<1> QED BY <1>1, <1>2

\* One bad child keeps a group from reading green, however it is rolled up.
LEMMA BadChildShows ==
    ASSUME NEW f \in [Controls -> Statuses], NEW c \in Controls, severityRank(f[c]) >= 3,
           NEW strategy \in statusRollupSchema
    PROVE  ~Green(rollupStatus(f, strategy))
<1> DEFINE unhealthy == {x \in Controls : f[x] \notin {"operational", "maintenance"}}
<1>1. f[c] \in Statuses /\ c \in unhealthy
  BY Ranks
<1>2. ~Green(WorstOf(StatusesOf(f, Controls)))
  BY <1>1, BadIsNotGreen DEF StatusesOf
<1>3. ~Green(WorstOf(StatusesOf(f, unhealthy)))
  BY <1>1, BadIsNotGreen DEF StatusesOf
<1>4. ~Green("degraded")
  BY Ranks DEF Green
<1> QED BY <1>2, <1>3, <1>4 DEF rollupStatus, worstStatus

\* A page shows what stood all the while it was put together.
LEMMA PageShows == TypeOK /\ Watched => DeclaredIsShown
<1> SUFFICES ASSUME TypeOK, Watched PROVE DeclaredIsShown
  OBVIOUS
<1>1. ASSUME NEW y \in standing, NEW measured \in Measured, NEW maintenance \in SUBSET Controls
      PROVE  LET shown == components(measured, maintenance) IN
             /\ \A x \in standing : severityRank(shown[x[2]]) >= severityRank(impactToStatus(impacts[x[1]][x[2]]))
             /\ ~Green(overallStatus(shown))
             /\ \A strategy \in statusRollupSchema : ~Green(rollupStatus(shown, strategy))
  <2> DEFINE shown == components(measured, maintenance)
  <2>1. shown \in [Controls -> Statuses]
        /\ \A c \in Controls : shown[c] = component(c, measured, maintenance)
    BY ComponentIsStatus DEF components
  <2>2. ASSUME NEW x \in standing
        PROVE  /\ x[2] \in Controls /\ severityRank(shown[x[2]]) >= 3
               /\ severityRank(shown[x[2]]) >= severityRank(impactToStatus(impacts[x[1]][x[2]]))
    <3>1. x[2] \in Controls /\ x[1] \in seen /\ impacts[x[1]][x[2]] # None
      BY DEF Watched, Standing
    <3> QED BY <2>1, <3>1, DeclaredComponent
  <2> HIDE DEF shown
  <2>3. ~Green(overallStatus(shown))
    <3>1. shown[y[2]] \in StatusesOf(shown, Controls) \ {"unknown"}
      BY <2>1, <2>2, Ranks DEF StatusesOf
    <3>2. StatusesOf(shown, Controls) \ {"unknown"} \in SUBSET Statuses
      BY <2>1 DEF StatusesOf
    <3>3. DOMAIN shown = Controls
      BY <2>1
    <3> QED BY <2>2, <3>1, <3>2, <3>3, BadIsNotGreen DEF overallStatus
  <2>4. \A strategy \in statusRollupSchema : ~Green(rollupStatus(shown, strategy))
    BY <2>1, <2>2, BadChildShows
  <2> QED BY <2>2, <2>3, <2>4 DEF shown
<1>2. \A c \in Controls, measured \in Measured :
         measured[c] = "down" /\ declared(c) = {} => component(c, measured, Controls) = "down"
  BY DEF component
<1> QED BY <1>1, <1>2 DEF DeclaredIsShown

\* What an open incident declares is on the page and in every group and headline
\* (routes/status.ts), for any components, incidents, measurements and plans.
THEOREM Shown == Spec => []DeclaredIsShown
<1>1. IInv => DeclaredIsShown
  BY PageShows DEF IInv
<1> QED BY Always, <1>1, PTL

=============================================================================
