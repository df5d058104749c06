-------------------------- MODULE StagingRingProofs --------------------------
(* What the operations of a staging buffer do to a ring that is as RingOK says, *)
(* and which bytes it holds until a submit has finished.                        *)
EXTENDS StagingRing, FiniteSetTheorems, WellFoundedInduction, TLAPS

-----------------------------------------------------------------------------
(* Sums of sizes. *)

LEMMA Induction ==
  ASSUME NEW T, 0 \in T, \A n \in Nat : n \in T => n + 1 \in T
  PROVE  Nat \subseteq T
  <1> DEFINE R == OpToRel(<, Nat)
             S == Nat \ T
  <1>1. SUFFICES ASSUME S # {}
                 PROVE  FALSE
    OBVIOUS
  <1>2. \A x, y \in Nat : y < x => <<y, x>> \in R
    BY DEF OpToRel
  <1>3. IsWellFoundedOn(R, Nat) /\ S \subseteq Nat
    BY NatLessThanWellFounded
  <1>. HIDE DEF R
  <1>4. \E x \in S : \A y \in S : <<y, x>> \notin R
    BY <1>1, <1>3, WFMin
  <1>5. PICK x \in S : \A y \in S : <<y, x>> \notin R
    BY <1>4
  <1>6. x \in Nat /\ x # 0 /\ x - 1 \in Nat /\ x - 1 < x /\ (x - 1) + 1 = x
    OBVIOUS
  <1>7. x - 1 \in T
    BY <1>2, <1>5, <1>6
  <1>8. x \in T
    BY <1>6, <1>7
  <1>. QED BY <1>5, <1>8

LEMMA Elements ==
  ASSUME NEW S, NEW s \in Seq(S)
  PROVE  Len(s) \in Nat /\ DOMAIN s = 1..Len(s) /\ \A i \in DOMAIN s : s[i] \in S
  OBVIOUS

LEMMA SizesOf ==
  ASSUME NEW s \in Seq(Submitted)
  PROVE  /\ Len(s) \in Nat /\ DOMAIN s = 1..Len(s)
         /\ \A i \in 1..Len(s) : s[i].size \in Nat /\ s[i].size > 0 /\ s[i].timelineId \in Nat
  <1>1. Len(s) \in Nat /\ DOMAIN s = 1..Len(s) /\ \A i \in DOMAIN s : s[i] \in Submitted
    BY Elements
  <1>2. \A u \in Submitted : u.size \in 1..Size /\ u.timelineId \in Nat
    BY DEF Submitted
  <1>. QED BY <1>1, <1>2, SizeAssumption

\* The first n sums exist.
SumsTo(s, n, g) ==
  g = [i \in 0..n |-> IF i = 0 THEN 0 ELSE g[i - 1] + s[i].size]

LEMMA SumsExist ==
  ASSUME NEW s \in Seq(Submitted)
  PROVE  \A n \in 0..Len(s) : \E g \in [0..n -> Nat] : SumsTo(s, n, g)
  <1> DEFINE T == {n \in Nat : n <= Len(s) => \E g \in [0..n -> Nat] : SumsTo(s, n, g)}
  <1>1. 0 \in T
    <2> DEFINE g == [i \in 0..0 |-> 0]
    <2>1. 0..0 = {0}
      OBVIOUS
    <2>2. g \in [0..0 -> Nat] /\ SumsTo(s, 0, g)
      BY <2>1 DEF SumsTo
    <2>. QED BY <2>2
  <1>2. ASSUME NEW n \in Nat, n \in T
        PROVE  n + 1 \in T
    <2>1. SUFFICES ASSUME n + 1 <= Len(s)
                   PROVE  \E g \in [0..(n + 1) -> Nat] : SumsTo(s, n + 1, g)
      OBVIOUS
    <2>2. n <= Len(s) /\ n + 1 \in 1..Len(s) /\ s[n + 1].size \in Nat
      BY <2>1, SizesOf
    <2>3. PICK g \in [0..n -> Nat] : SumsTo(s, n, g)
      BY <1>2, <2>2
    <2> DEFINE h == [i \in 0..(n + 1) |-> IF i = n + 1 THEN g[n] + s[n + 1].size ELSE g[i]]
    <2>4. h \in [0..(n + 1) -> Nat]
      BY <2>2
    <2>5. ASSUME NEW i \in 0..(n + 1)
          PROVE  h[i] = IF i = 0 THEN 0 ELSE h[i - 1] + s[i].size
      <3>1. CASE i = n + 1
        BY <3>1
      <3>2. CASE i # n + 1
        <4>1. i \in 0..n /\ h[i] = g[i] /\ (i # 0 => h[i - 1] = g[i - 1])
          BY <3>2
        <4>2. g[i] = IF i = 0 THEN 0 ELSE g[i - 1] + s[i].size
          BY <2>3, <4>1 DEF SumsTo
        <4>. QED BY <4>1, <4>2
      <3>. QED BY <3>1, <3>2
    <2>. HIDE DEF h
    <2>6. SumsTo(s, n + 1, h)
      BY <2>4, <2>5 DEF SumsTo
    <2>. QED BY <2>4, <2>6
  <1>. HIDE DEF T
  <1>3. Nat \subseteq T
    BY <1>1, <1>2, Induction
  <1>. QED BY <1>3, SizesOf DEF T

\* What Sums is.
LEMMA SumsDefined ==
  ASSUME NEW s \in Seq(Submitted)
  PROVE  /\ Sums(s) \in [0..Len(s) -> Nat]
         /\ Sums(s)[0] = 0
         /\ \A i \in 1..Len(s) : Sums(s)[i] = Sums(s)[i - 1] + s[i].size
  <1>1. Len(s) \in Nat /\ Len(s) \in 0..Len(s)
    OBVIOUS
  <1>2. \E g \in [0..Len(s) -> Nat] : SumsTo(s, Len(s), g)
    BY <1>1, SumsExist
  <1>3. Sums(s) = CHOOSE g : SumsTo(s, Len(s), g)
    BY DEF Sums, SumsTo
  <1>4. SumsTo(s, Len(s), Sums(s))
    BY <1>2, <1>3
  <1> DEFINE g == Sums(s)
  <1>5. /\ DOMAIN g = 0..Len(s)
        /\ \A i \in 0..Len(s) : g[i] = IF i = 0 THEN 0 ELSE g[i - 1] + s[i].size
    BY <1>4 DEF SumsTo
  <1>6. g = [i \in 0..Len(s) |-> g[i]]
    BY <1>4 DEF SumsTo
  <1>. HIDE DEF g
  <1> DEFINE T == {n \in Nat : n <= Len(s) => g[n] \in Nat}
  <1>7. 0 \in T
    <2>1. 0 \in 0..Len(s)
      BY <1>1
    <2>2. g[0] = 0
      BY <1>5, <2>1
    <2>. QED BY <2>2
  <1>8. ASSUME NEW n \in Nat, n \in T
        PROVE  n + 1 \in T
    <2>1. CASE n + 1 <= Len(s)
      <3>1. n + 1 \in 1..Len(s) /\ s[n + 1].size \in Nat /\ g[n] \in Nat /\ n + 1 \in 0..Len(s) /\ (n + 1) - 1 = n
        BY <1>1, <1>8, <2>1, SizesOf
      <3>2. g[n + 1] = g[n] + s[n + 1].size
        BY <1>5, <3>1
      <3>. QED BY <3>1, <3>2
    <2>2. CASE ~ (n + 1 <= Len(s))
      BY <2>2
    <2>. QED BY <2>1, <2>2
  <1>. HIDE DEF T
  <1>9. Nat \subseteq T
    BY <1>7, <1>8, Induction
  <1>10. g \in [0..Len(s) -> Nat]
    <2>1. \A i \in 0..Len(s) : g[i] \in Nat
      BY <1>1, <1>9 DEF T
    <2>. QED BY <1>6, <2>1
  <1>11. g[0] = 0 /\ \A i \in 1..Len(s) : g[i] = g[i - 1] + s[i].size
    BY <1>1, <1>5
  <1>. QED BY <1>10, <1>11 DEF g

LEMMA SumsGrow ==
  ASSUME NEW s \in Seq(Submitted), NEW i \in 0..Len(s), NEW j \in 0..Len(s), i <= j
  PROVE  Sums(s)[i] <= Sums(s)[j]
  <1> DEFINE g == Sums(s)
             T == {n \in Nat : i + n <= Len(s) => g[i] <= g[i + n]}
  <1>1. /\ Len(s) \in Nat /\ g \in [0..Len(s) -> Nat]
        /\ \A k \in 1..Len(s) : g[k] = g[k - 1] + s[k].size /\ s[k].size \in Nat
    BY SumsDefined, SizesOf
  <1>. HIDE DEF g
  <1>2. 0 \in T
    <2>1. i + 0 = i /\ g[i] \in Nat
      BY <1>1
    <2>. QED BY <2>1
  <1>3. ASSUME NEW n \in Nat, n \in T
        PROVE  n + 1 \in T
    <2>1. CASE i + (n + 1) <= Len(s)
      <3>1. i + n + 1 \in 1..Len(s) /\ (i + n + 1) - 1 = i + n /\ i + n \in 0..Len(s) /\ i + (n + 1) = i + n + 1
        BY <1>1, <2>1
      <3>2. g[i + n + 1] = g[i + n] + s[i + n + 1].size /\ s[i + n + 1].size \in Nat
        BY <1>1, <3>1
      <3>3. g[i] <= g[i + n] /\ g[i] \in Nat /\ g[i + n] \in Nat
        <4>1. i + n <= Len(s)
          BY <1>1, <3>1
        <4>2. g[i] <= g[i + n]
          BY <1>3, <4>1
        <4>. QED BY <1>1, <3>1, <4>2
      <3>4. g[i] <= g[i + (n + 1)]
        BY <3>1, <3>2, <3>3
      <3>. QED BY <3>4
    <2>2. CASE ~ (i + (n + 1) <= Len(s))
      BY <2>2
    <2>. QED BY <2>1, <2>2
  <1>. HIDE DEF T
  <1>4. Nat \subseteq T
    BY <1>2, <1>3, Induction
  <1>5. j - i \in T /\ i + (j - i) = j
    BY <1>1, <1>4
  <1>. QED BY <1>1, <1>5 DEF T, g

LEMMA SumsAppended ==
  ASSUME NEW s \in Seq(Submitted), NEW u \in Submitted
  PROVE  /\ \A i \in 0..Len(s) : Sums(Append(s, u))[i] = Sums(s)[i]
         /\ Sums(Append(s, u))[Len(s) + 1] = Sums(s)[Len(s)] + u.size
  <1> DEFINE t == Append(s, u)
             g == Sums(s)
             h == Sums(t)
             T == {n \in Nat : n <= Len(s) => h[n] = g[n]}
  <1>1. /\ t \in Seq(Submitted) /\ Len(t) = Len(s) + 1 /\ Len(s) \in Nat
        /\ \A i \in 1..Len(s) : t[i] = s[i]
        /\ t[Len(s) + 1] = u
    OBVIOUS
  <1>. HIDE DEF t
  <1>2. /\ g \in [0..Len(s) -> Nat] /\ g[0] = 0
        /\ \A k \in 1..Len(s) : g[k] = g[k - 1] + s[k].size
    BY SumsDefined
  <1>3. /\ h[0] = 0
        /\ \A k \in 1..(Len(s) + 1) : h[k] = h[k - 1] + t[k].size
    BY <1>1, SumsDefined
  <1>. HIDE DEF g, h
  <1>4. 0 \in T
    BY <1>2, <1>3
  <1>5. ASSUME NEW n \in Nat, n \in T
        PROVE  n + 1 \in T
    <2>1. CASE n + 1 <= Len(s)
      <3>1. n + 1 \in 1..Len(s) /\ (n + 1) - 1 = n /\ h[n] = g[n] /\ n + 1 \in 1..(Len(s) + 1)
        BY <1>1, <1>5, <2>1
      <3>2. h[n + 1] = h[n] + t[n + 1].size
        BY <1>3, <3>1
      <3>3. g[n + 1] = g[n] + s[n + 1].size
        BY <1>2, <3>1
      <3>. QED BY <1>1, <3>1, <3>2, <3>3
    <2>2. CASE ~ (n + 1 <= Len(s))
      BY <2>2
    <2>. QED BY <2>1, <2>2
  <1>. HIDE DEF T
  <1>6. Nat \subseteq T
    BY <1>4, <1>5, Induction
  <1>7. \A i \in 0..Len(s) : h[i] = g[i]
    BY <1>1, <1>6 DEF T
  <1>8. h[Len(s) + 1] = g[Len(s)] + u.size
    <2>1. Len(s) + 1 \in 1..(Len(s) + 1) /\ (Len(s) + 1) - 1 = Len(s) /\ Len(s) \in 0..Len(s)
      BY <1>1
    <2>2. h[Len(s) + 1] = h[Len(s)] + t[Len(s) + 1].size
      BY <1>3, <2>1
    <2>. QED BY <1>1, <1>7, <2>1, <2>2
  <1>. QED BY <1>7, <1>8 DEF g, h, t

\* The sums of what is left when the first n submits are gone.
LEMMA SumsLeft ==
  ASSUME NEW s \in Seq(Submitted), NEW n \in 0..Len(s)
  PROVE  /\ SubSeq(s, n + 1, Len(s)) \in Seq(Submitted)
         /\ Len(SubSeq(s, n + 1, Len(s))) = Len(s) - n
         /\ \A i \in 1..(Len(s) - n) : SubSeq(s, n + 1, Len(s))[i] = s[n + i]
         /\ \A i \in 0..(Len(s) - n) : Sums(SubSeq(s, n + 1, Len(s)))[i] = Sums(s)[n + i] - Sums(s)[n]
  <1> DEFINE t == SubSeq(s, n + 1, Len(s))
             g == Sums(s)
             h == Sums(t)
             m == Len(s) - n
             T == {i \in Nat : i <= m => h[i] = g[n + i] - g[n]}
  <1>1. /\ t \in Seq(Submitted) /\ Len(t) = m /\ m \in Nat /\ Len(s) \in Nat
        /\ \A i \in 1..m : t[i] = s[n + i]
    OBVIOUS
  <1>. HIDE DEF t
  <1>2. /\ g \in [0..Len(s) -> Nat]
        /\ \A k \in 1..Len(s) : g[k] = g[k - 1] + s[k].size /\ s[k].size \in Nat
    BY SumsDefined, SizesOf
  <1>3. /\ h[0] = 0
        /\ \A k \in 1..m : h[k] = h[k - 1] + t[k].size
    BY <1>1, SumsDefined
  <1>. HIDE DEF g, h
  <1>4. 0 \in T
    <2>1. n + 0 = n /\ g[n] - g[n] = 0
      BY <1>2
    <2>. QED BY <1>3, <2>1
  <1>5. ASSUME NEW i \in Nat, i \in T
        PROVE  i + 1 \in T
    <2>1. CASE i + 1 <= m
      <3>1. /\ i + 1 \in 1..m /\ (i + 1) - 1 = i /\ n + i + 1 \in 1..Len(s) /\ (n + i + 1) - 1 = n + i
            /\ n + i \in 0..Len(s) /\ n + (i + 1) = n + i + 1
        BY <1>1, <2>1
      <3>2. h[i + 1] = h[i] + t[i + 1].size /\ t[i + 1] = s[n + i + 1] /\ h[i] = g[n + i] - g[n]
        BY <1>1, <1>3, <1>5, <3>1
      <3>3. g[n + i + 1] = g[n + i] + s[n + i + 1].size /\ s[n + i + 1].size \in Nat /\ g[n + i] \in Nat /\ g[n] \in Nat
        BY <1>2, <3>1
      <3>4. h[i + 1] = g[n + i + 1] - g[n]
        BY <3>2, <3>3
      <3>. QED BY <3>1, <3>4
    <2>2. CASE ~ (i + 1 <= m)
      BY <2>2
    <2>. QED BY <2>1, <2>2
  <1>. HIDE DEF T
  <1>6. Nat \subseteq T
    BY <1>4, <1>5, Induction
  <1>7. \A i \in 0..m : h[i] = g[n + i] - g[n]
    BY <1>1, <1>6 DEF T
  <1>. QED BY <1>1, <1>7 DEF g, h, t

-----------------------------------------------------------------------------
(* Prefixes of sequences. *)

\* A set of positions that has all those before each of its own is a prefix.
LEMMA Prefix ==
  ASSUME NEW m \in Nat, NEW P \in SUBSET (1..m), \A i \in P : \A j \in 1..i : j \in P
  PROVE  Cardinality(P) \in 0..m /\ P = 1..Cardinality(P)
  <1> DEFINE T == P \cup {0}
  <1>1. \E n \in T : n + 1 \notin T
    <2>1. SUFFICES ASSUME \A n \in T : n + 1 \in T
                   PROVE  FALSE
      OBVIOUS
    <2>2. Nat \subseteq T
      <3>. HIDE DEF T
      <3>1. 0 \in T
        BY DEF T
      <3>. QED BY <2>1, <3>1, Induction
    <2>3. m + 1 \in T
      BY <2>2
    <2>. QED BY <2>3
  <1>2. PICK n \in T : n + 1 \notin T
    BY <1>1
  <1>3. n \in 0..m
    BY <1>2
  <1>4. \A i \in 1..m : i \in P <=> i \in 1..n
    <2>1. ASSUME NEW i \in P
          PROVE  i \in 1..n
      <3>1. i \in Nat /\ i >= 1 /\ n \in Nat
        BY <1>3
      <3>2. CASE i > n
        <4>1. n + 1 \in 1..i
          BY <3>1, <3>2
        <4>2. n + 1 \in P
          BY <2>1, <4>1
        <4>. QED BY <1>2, <4>2
      <3>. QED BY <3>1, <3>2
    <2>2. ASSUME NEW i \in 1..n
          PROVE  i \in P
      <3>1. n \in P
        BY <1>2, <1>3
      <3>. QED BY <3>1
    <2>. QED BY <2>1, <2>2
  <1>5. P = 1..n
    <2>1. P \subseteq 1..m /\ 1..n \subseteq 1..m
      BY <1>3
    <2>. QED BY <1>4, <2>1
  <1>6. Cardinality(1..n) = n
    BY <1>3, FS_Interval
  <1>. QED BY <1>3, <1>5, <1>6

\* What is left of a sequence without its first n elements.
LEMMA Dropped ==
  ASSUME NEW S, NEW s \in Seq(S), NEW n \in 0..Len(s)
  PROVE  /\ SubSeq(s, n + 1, Len(s)) \in Seq(S)
         /\ DOMAIN SubSeq(s, n + 1, Len(s)) = 1..(Len(s) - n)
         /\ \A i \in 1..(Len(s) - n) : n + i \in DOMAIN s /\ SubSeq(s, n + 1, Len(s))[i] = s[n + i]
  OBVIOUS

LEMMA Appended ==
  ASSUME NEW S, NEW s \in Seq(S), NEW x \in S
  PROVE  /\ Append(s, x) \in Seq(S)
         /\ Len(Append(s, x)) = Len(s) + 1
         /\ DOMAIN Append(s, x) = 1..(Len(s) + 1) /\ DOMAIN s = 1..Len(s)
         /\ \A i \in 1..Len(s) : Append(s, x)[i] = s[i]
         /\ Append(s, x)[Len(s) + 1] = x
  OBVIOUS

-----------------------------------------------------------------------------
(* The ring. *)

LEMMA Rings ==
  ASSUME NEW r \in Ring
  PROVE  /\ r.first \in 0..(Size - 1) /\ r.used \in 0..Size /\ Size \in Nat \ {0}
         /\ Available(r) = Size - r.used
         /\ FirstSegment(r) = IF Size - r.first <= Size - r.used THEN Size - r.first ELSE Size - r.used
  BY SizeAssumption DEF Ring, Available, FirstSegment

LEMMA AtTheEnd ==
  ASSUME NEW x \in 0..Size
  PROVE  x % Size = IF x = Size THEN 0 ELSE x
  BY SizeAssumption

\* fetch moves the ring n bytes on: bytes in use get n further behind, and those
\* it hands out were not in use.
LEMMA Fetched ==
  ASSUME NEW r \in Ring, NEW n \in Nat, n <= Available(r)
  PROVE  /\ Fetch(r, n) \in Ring /\ Fetch(r, n).used = r.used + n
         /\ \A c \in 0..(Size - 1) :
              Behind(r, c) <= r.used => Behind(Fetch(r, n), c) = Behind(r, c) + n
         /\ \A c \in Cells(r, n) :
              c \in 0..(Size - 1) /\ Behind(r, c) > r.used /\ Behind(Fetch(r, n), c) <= n
  <1> DEFINE f == Fetch(r, n)
  <1>1. /\ r.first \in 0..(Size - 1) /\ r.used \in 0..Size /\ Size \in Nat \ {0}
        /\ Available(r) = Size - r.used
        /\ FirstSegment(r) = IF Size - r.first <= Size - r.used THEN Size - r.first ELSE Size - r.used
    BY Rings
  <1>2. /\ f = [first |-> f.first, used |-> r.used + n]
        /\ f.first = IF n <= FirstSegment(r) THEN (r.first + n) % Size ELSE n - FirstSegment(r)
    BY DEF Fetch
  <1>3. f.first = IF r.first + n < Size THEN r.first + n ELSE r.first + n - Size
    <2>1. CASE n <= FirstSegment(r)
      <3>1. r.first + n \in 0..Size
        BY <1>1, <2>1
      <3>. QED BY <1>1, <1>2, <2>1, <3>1, AtTheEnd
    <2>2. CASE n > FirstSegment(r)
      BY <1>1, <1>2, <2>2
    <2>. QED BY <1>1, <2>1, <2>2
  <1>. HIDE DEF f
  <1>4. f \in Ring /\ f.used = r.used + n
    <2>1. f.first \in 0..(Size - 1) /\ r.used + n \in 0..Size
      BY <1>1, <1>3
    <2>. QED BY <1>2, <2>1 DEF Ring
  <1>5. ASSUME NEW c \in 0..(Size - 1), Behind(r, c) <= r.used
        PROVE  Behind(f, c) = Behind(r, c) + n
    BY <1>1, <1>3, <1>5 DEF Behind
  <1>6. ASSUME NEW c \in Cells(r, n)
        PROVE  c \in 0..(Size - 1) /\ Behind(r, c) > r.used /\ Behind(f, c) <= n
    <2>1. CASE n <= FirstSegment(r)
      <3>1. c \in r.first..(r.first + n - 1)
        BY <2>1 DEF Cells
      <3>. QED BY <1>1, <1>3, <2>1, <3>1 DEF Behind
    <2>2. CASE n > FirstSegment(r)
      <3>1. c \in r.first..(r.first + FirstSegment(r) - 1) \/ c \in 0..(n - FirstSegment(r) - 1)
        BY <1>1, <2>2 DEF Cells
      <3>. QED BY <1>1, <1>3, <2>2, <3>1 DEF Behind
    <2>. QED BY <1>1, <2>1, <2>2
  <1>. QED BY <1>4, <1>5, <1>6 DEF f

LEMMA PaddingIsNat ==
  ASSUME NEW r \in Ring, NEW align \in Nat \ {0}
  PROVE  Padding(r, align) \in Nat
  <1>1. r.first \in Nat
    BY Rings
  <1>2. r.first % align \in 0..(align - 1)
    BY <1>1
  <1>3. align - (r.first % align) \in Nat
    BY <1>2
  <1>. QED BY <1>3 DEF Padding

\* The same of the bytes skipped and those staged.
LEMMA StageMoves ==
  ASSUME NEW r \in Ring, NEW n \in Nat, NEW align \in Nat \ {0}, CanStage(r, n, align)
  PROVE  /\ Staged(r, n, align) \in Ring /\ Staged(r, n, align).used - r.used \in Nat
         /\ n <= Staged(r, n, align).used - r.used
         /\ \A c \in 0..(Size - 1) :
              Behind(r, c) <= r.used =>
                Behind(Staged(r, n, align), c) = Behind(r, c) + (Staged(r, n, align).used - r.used)
         /\ \A c \in StagedCells(r, n, align) :
              c \in 0..(Size - 1) /\ Behind(r, c) > r.used /\ Behind(Staged(r, n, align), c) <= n
  <1> DEFINE k == Skipped(r, n, align)
             a == Aligned(r, n, align)
             s == Staged(r, n, align)
  <1>1. /\ r.first \in 0..(Size - 1) /\ r.used \in 0..Size /\ Size \in Nat \ {0}
        /\ Available(r) = Size - r.used
        /\ FirstSegment(r) = IF Size - r.first <= Size - r.used THEN Size - r.first ELSE Size - r.used
    BY Rings
  <1>2. k \in Nat /\ k + n <= Available(r)
    BY <1>1, PaddingIsNat DEF Skipped, CanStage
  <1>3. a = Fetch(r, k) /\ s = Fetch(a, n) /\ StagedCells(r, n, align) = Cells(a, n)
    BY DEF Aligned, Staged, StagedCells
  <1>. HIDE DEF k, a, s
  <1>4. /\ a \in Ring /\ a.used = r.used + k
        /\ \A c \in 0..(Size - 1) : Behind(r, c) <= r.used => Behind(a, c) = Behind(r, c) + k
    BY <1>1, <1>2, <1>3, Fetched
  <1>5. n <= Available(a)
    BY <1>1, <1>2, <1>4 DEF Available
  <1>6. /\ s \in Ring /\ s.used = a.used + n
        /\ \A c \in 0..(Size - 1) : Behind(a, c) <= a.used => Behind(s, c) = Behind(a, c) + n
        /\ \A c \in Cells(a, n) : c \in 0..(Size - 1) /\ Behind(a, c) > a.used /\ Behind(s, c) <= n
    BY <1>3, <1>4, <1>5, Fetched
  <1>7. \A c \in 0..(Size - 1) : Behind(r, c) \in Int
    BY <1>1 DEF Behind
  <1>8. s.used - r.used = k + n
    BY <1>1, <1>2, <1>4, <1>6
  <1>9. ASSUME NEW c \in 0..(Size - 1), Behind(r, c) <= r.used
        PROVE  Behind(s, c) = Behind(r, c) + (s.used - r.used)
    <2>1. Behind(a, c) = Behind(r, c) + k /\ Behind(r, c) \in Int
      BY <1>4, <1>7, <1>9
    <2>2. Behind(a, c) <= a.used
      BY <1>1, <1>2, <1>4, <1>9, <2>1
    <2>3. Behind(s, c) = Behind(a, c) + n
      BY <1>6, <2>2
    <2>. QED BY <1>2, <1>8, <2>1, <2>3
  <1>10. ASSUME NEW c \in Cells(a, n)
         PROVE  c \in 0..(Size - 1) /\ Behind(r, c) > r.used /\ Behind(s, c) <= n
    <2>1. c \in 0..(Size - 1) /\ Behind(a, c) > a.used /\ Behind(s, c) <= n
      BY <1>6
    <2>2. Behind(r, c) \in Int /\ (Behind(r, c) <= r.used => Behind(a, c) = Behind(r, c) + k)
      BY <1>4, <1>7, <2>1
    <2>3. ~ (Behind(r, c) <= r.used)
      BY <1>1, <1>2, <1>4, <2>1, <2>2
    <2>. QED BY <1>1, <2>1, <2>2, <2>3
  <1>. QED BY <1>2, <1>3, <1>6, <1>8, <1>9, <1>10 DEF s

LEMMA BehindIs ==
  ASSUME NEW r \in Ring, NEW c \in 0..(Size - 1)
  PROVE  Behind(r, c) \in Nat /\ Behind(r, c) > 0
  BY Rings DEF Behind

LEMMA FinishedFirst ==
  ASSUME submitted \in Seq(Submitted), NEW k
  PROVE  /\ Finished(k) \in 0..Len(submitted)
         /\ \A i \in 1..Finished(k) : submitted[i].timelineId <= k
  <1> DEFINE P == {i \in DOMAIN submitted : \A j \in 1..i : submitted[j].timelineId <= k}
  <1>1. Len(submitted) \in Nat /\ DOMAIN submitted = 1..Len(submitted)
    BY SizesOf
  <1>2. P \in SUBSET (1..Len(submitted)) /\ \A i \in P : i \in 1..i /\ \A j \in 1..i : j \in P
    BY <1>1
  <1>3. \A i \in P : submitted[i].timelineId <= k
    BY <1>2
  <1>4. Cardinality(P) = Finished(k)
    BY DEF Finished
  <1>. HIDE DEF P
  <1>5. Cardinality(P) \in 0..Len(submitted) /\ P = 1..Cardinality(P)
    BY <1>1, <1>2, Prefix
  <1>. QED BY <1>3, <1>4, <1>5

\* What notify_finished_frames leaves.
LEMMA FreedRing ==
  ASSUME RingOK, NEW k
  PROVE  /\ Unfinished(k) \in Seq(Submitted) /\ Freed(k) \in Ring
         /\ \A i \in DOMAIN Unfinished(k) : \E j \in DOMAIN submitted : Unfinished(k)[i] = submitted[j]
         /\ Freed(k).first = ring.first
         /\ Freed(k).used = Total(Unfinished(k)) + pending
         /\ Freed(k).used = ring.used - Sums(submitted)[Finished(k)]
         /\ Total(Unfinished(k)) \in Nat
  <1> DEFINE n == Finished(k)
             m == Len(submitted)
             left == Unfinished(k)
  <1>1. submitted \in Seq(Submitted) /\ m \in Nat /\ n \in 0..m
    BY FinishedFirst DEF RingOK
  <1>2. left = SubSeq(submitted, n + 1, m)
    BY DEF Unfinished
  <1>3. /\ left \in Seq(Submitted) /\ Len(left) = m - n
        /\ \A i \in 1..(m - n) : left[i] = submitted[n + i]
        /\ \A i \in 0..(m - n) : Sums(left)[i] = Sums(submitted)[n + i] - Sums(submitted)[n]
    <2>. HIDE DEF n
    <2>. QED BY <1>1, <1>2, SumsLeft
  <1>4. /\ Sums(submitted)[n] \in Nat /\ Sums(submitted)[m] \in Nat
        /\ Sums(submitted)[n] <= Sums(submitted)[m]
    <2>. HIDE DEF n
    <2>1. m \in 0..m
      BY <1>1
    <2>. QED BY <1>1, <2>1, SumsDefined, SumsGrow
  <1>5. ring \in Ring /\ pending \in Nat /\ ring.used = Sums(submitted)[m] + pending
    BY DEF RingOK, Total
  <1>6. Freed(k) = [ring EXCEPT !.used = @ - Sums(submitted)[n]]
    BY DEF Freed
  <1>. HIDE DEF n, left
  <1>7. m - n \in 0..(m - n) /\ n + (m - n) = m
    BY <1>1
  <1>8. Total(left) = Sums(submitted)[m] - Sums(submitted)[n]
    BY <1>3, <1>7 DEF Total
  <1>9. ring.used - Sums(submitted)[n] \in 0..Size
    <2> DEFINE a == Sums(submitted)[n]
               b == Sums(submitted)[m]
    <2>1. ring.used \in 0..Size /\ Size \in Nat /\ pending \in Nat
      BY <1>5, Rings
    <2>2. a \in Nat /\ b \in Nat /\ a <= b /\ ring.used = b + pending
      BY <1>4, <1>5
    <2>. HIDE DEF a, b
    <2>3. ring.used - a \in 0..Size
      BY <2>1, <2>2
    <2>. QED BY <2>3 DEF a
  <1>10. Freed(k) \in Ring /\ Freed(k).first = ring.first /\ Freed(k).used = ring.used - Sums(submitted)[n]
    BY <1>5, <1>6, <1>9 DEF Ring
  <1>11. \A i \in DOMAIN left : \E j \in DOMAIN submitted : left[i] = submitted[j]
    <2>1. \A i \in 1..(m - n) : n + i \in 1..m
      BY <1>1
    <2>2. DOMAIN left = 1..(m - n) /\ DOMAIN submitted = 1..m
      BY <1>1, <1>3
    <2>. QED BY <1>3, <2>1, <2>2
  <1>. QED BY <1>3, <1>4, <1>5, <1>8, <1>10, <1>11 DEF left, n

-----------------------------------------------------------------------------
(* Bytes that are held. *)

LEMMA HeldIsUsed ==
  ASSUME NEW r \in Ring, NEW s \in Seq(Submitted), NEW c \in 0..(Size - 1), NEW k,
         HeldUntil(r, s, c, k)
  PROVE  Behind(r, c) <= r.used
  <1>1. PICK p \in 0..Len(s) : Behind(r, c) <= r.used - Sums(s)[p]
    BY DEF HeldUntil
  <1>2. Sums(s)[p] \in Nat
    BY SumsDefined
  <1>3. r.used \in Nat /\ Behind(r, c) \in Nat
    BY Rings, BehindIs
  <1>. QED BY <1>1, <1>2, <1>3

\* The pending bytes come after those of every submit.
LEMMA PendingIsHeld ==
  ASSUME NEW r \in Ring, NEW s \in Seq(Submitted), NEW n \in Nat, r.used = Total(s) + n,
         NEW c \in 0..(Size - 1), Behind(r, c) <= n, NEW k
  PROVE  HeldUntil(r, s, c, k)
  <1>1. Len(s) \in 0..Len(s) /\ DOMAIN s = 1..Len(s)
    BY SizesOf
  <1>2. Sums(s)[Len(s)] \in Nat
    BY <1>1, SumsDefined
  <1>3. r.used = Sums(s)[Len(s)] + n
    BY DEF Total
  <1>4. Behind(r, c) \in Nat
    BY BehindIs
  <1>5. Behind(r, c) <= r.used - Sums(s)[Len(s)]
    BY <1>2, <1>3, <1>4
  <1>6. \A j \in DOMAIN s : s[j].timelineId < k => j <= Len(s)
    BY <1>1
  <1>. QED BY <1>1, <1>5, <1>6 DEF HeldUntil

\* Bytes are held as before when the ring moves on and they get further behind.
LEMMA HeldWhenMoved ==
  ASSUME NEW r \in Ring, NEW t \in Ring, NEW s \in Seq(Submitted), NEW d \in Nat,
         t.used = r.used + d, NEW c \in 0..(Size - 1), Behind(t, c) = Behind(r, c) + d,
         NEW k, HeldUntil(r, s, c, k)
  PROVE  HeldUntil(t, s, c, k)
  <1>1. PICK p \in 0..Len(s) :
          /\ \A j \in DOMAIN s : s[j].timelineId < k => j <= p
          /\ Behind(r, c) <= r.used - Sums(s)[p]
    BY DEF HeldUntil
  <1>2. Sums(s)[p] \in Nat
    BY SumsDefined
  <1>3. r.used \in Nat /\ Behind(r, c) \in Nat
    BY Rings, BehindIs
  <1>4. Behind(t, c) <= t.used - Sums(s)[p]
    BY <1>1, <1>2, <1>3
  <1>. QED BY <1>1, <1>4 DEF HeldUntil

\* They are held as before when a later submit takes the pending bytes.
LEMMA HeldWhenTaken ==
  ASSUME NEW r, NEW s \in Seq(Submitted), NEW u \in Submitted,
         NEW c, NEW k \in Nat, k <= u.timelineId, HeldUntil(r, s, c, k)
  PROVE  HeldUntil(r, Append(s, u), c, k)
  <1>1. PICK p \in 0..Len(s) :
          /\ \A j \in DOMAIN s : s[j].timelineId < k => j <= p
          /\ Behind(r, c) <= r.used - Sums(s)[p]
    BY DEF HeldUntil
  <1>2. /\ Len(Append(s, u)) = Len(s) + 1 /\ Len(s) \in Nat
        /\ DOMAIN Append(s, u) = 1..(Len(s) + 1) /\ DOMAIN s = 1..Len(s)
        /\ \A i \in 1..Len(s) : Append(s, u)[i] = s[i]
        /\ Append(s, u)[Len(s) + 1] = u
    BY Appended
  <1>3. u.timelineId \in Nat /\ ~ (u.timelineId < k)
    BY DEF Submitted
  <1>4. Sums(Append(s, u))[p] = Sums(s)[p]
    BY SumsAppended
  <1> DEFINE t == Append(s, u)
  <1>. HIDE DEF t
  <1>5. ASSUME NEW j \in DOMAIN t, t[j].timelineId < k
        PROVE  j <= p
    <2>1. j \in 1..Len(s) \/ j = Len(s) + 1
      BY <1>2 DEF t
    <2>2. j # Len(s) + 1
      BY <1>2, <1>3, <1>5 DEF t
    <2>3. j \in DOMAIN s /\ t[j] = s[j]
      BY <1>2, <2>1, <2>2 DEF t
    <2>. QED BY <1>1, <1>5, <2>3
  <1>6. p \in 0..Len(t) /\ Behind(r, c) <= r.used - Sums(t)[p]
    BY <1>1, <1>2, <1>4 DEF t
  <1>7. HeldUntil(r, t, c, k)
    BY <1>5, <1>6 DEF HeldUntil
  <1>. QED BY <1>7 DEF t

\* They are held as before when the bytes of earlier submits are given back.
LEMMA HeldWhenFreed ==
  ASSUME RingOK, NEW f \in Nat, NEW k \in Nat, f < k,
         NEW c \in 0..(Size - 1), HeldUntil(ring, submitted, c, k)
  PROVE  HeldUntil(Freed(f), Unfinished(f), c, k)
  <1> DEFINE n == Finished(f)
             left == Unfinished(f)
             r == Freed(f)
  <1>1. submitted \in Seq(Submitted) /\ ring \in Ring
    BY DEF RingOK
  <1>2. /\ n \in 0..Len(submitted) /\ \A i \in 1..n : submitted[i].timelineId <= f
        /\ Len(submitted) \in Nat /\ DOMAIN submitted = 1..Len(submitted)
    BY <1>1, FinishedFirst
  <1>3. r.first = ring.first /\ r.used = ring.used - Sums(submitted)[n]
    BY FreedRing
  <1>4. Behind(r, c) = Behind(ring, c)
    BY <1>3 DEF Behind
  <1>5. left = SubSeq(submitted, n + 1, Len(submitted))
    BY DEF Unfinished
  <1>6. /\ Len(left) = Len(submitted) - n /\ DOMAIN left = 1..(Len(submitted) - n)
        /\ \A i \in 1..(Len(submitted) - n) : left[i] = submitted[n + i]
        /\ \A i \in 0..(Len(submitted) - n) : Sums(left)[i] = Sums(submitted)[n + i] - Sums(submitted)[n]
    <2>. HIDE DEF n, left
    <2>1. left \in Seq(Submitted) /\ Len(left) = Len(submitted) - n
      <3>1. /\ SubSeq(submitted, n + 1, Len(submitted)) \in Seq(Submitted)
            /\ Len(SubSeq(submitted, n + 1, Len(submitted))) = Len(submitted) - n
        BY <1>1, <1>2, SumsLeft
      <3>. QED BY <1>5, <3>1
    <2>2. DOMAIN left = 1..(Len(submitted) - n)
      BY <2>1, SizesOf
    <2>3. \A i \in 1..(Len(submitted) - n) : left[i] = submitted[n + i]
      BY <1>1, <1>2, <1>5, SumsLeft
    <2>4. \A i \in 0..(Len(submitted) - n) : Sums(left)[i] = Sums(submitted)[n + i] - Sums(submitted)[n]
      BY <1>1, <1>2, <1>5, SumsLeft
    <2>. QED BY <2>1, <2>2, <2>3, <2>4
  <1>. HIDE DEF n, left, r
  <1>7. PICK p \in 0..Len(submitted) :
          /\ \A j \in DOMAIN submitted : submitted[j].timelineId < k => j <= p
          /\ Behind(ring, c) <= ring.used - Sums(submitted)[p]
    BY DEF HeldUntil
  <1>8. n <= p
    <2>1. CASE n = 0
      BY <2>1
    <2>2. CASE n # 0
      <3>1. n \in 1..n /\ n \in DOMAIN submitted
        BY <1>2, <2>2
      <3>2. submitted[n].timelineId <= f /\ submitted[n].timelineId \in Nat
        BY <1>1, <1>2, <3>1, SizesOf
      <3>3. submitted[n].timelineId < k
        BY <3>2
      <3>. QED BY <1>7, <3>1, <3>3
    <2>. QED BY <2>1, <2>2
  <1>9. p - n \in 0..Len(left) /\ n + (p - n) = p
    BY <1>2, <1>6, <1>8
  <1>10. ASSUME NEW j \in DOMAIN left, left[j].timelineId < k
         PROVE  j <= p - n
    <2>1. j \in 1..(Len(submitted) - n) /\ n + j \in DOMAIN submitted
      BY <1>2, <1>6
    <2>2. n + j <= p
      BY <1>6, <1>7, <1>10, <2>1
    <2>. QED BY <1>2, <2>1, <2>2
  <1>11. Behind(r, c) <= r.used - Sums(left)[p - n]
    <2> DEFINE a == Sums(submitted)[n]
               b == Sums(submitted)[p]
    <2>1. Sums(left)[p - n] = b - a
      BY <1>2, <1>6, <1>9
    <2>2. a \in Nat /\ b \in Nat
      BY <1>1, <1>2, SumsDefined
    <2>3. ring.used \in Nat /\ Behind(ring, c) \in Nat /\ Behind(ring, c) <= ring.used - b
      BY <1>1, <1>7, Rings, BehindIs
    <2>4. r.used = ring.used - a
      BY <1>3
    <2>. HIDE DEF a, b
    <2>. QED BY <1>4, <2>1, <2>2, <2>3, <2>4
  <1>12. HeldUntil(r, left, c, k)
    BY <1>9, <1>10, <1>11 DEF HeldUntil
  <1>. QED BY <1>12 DEF r, left

\* What is held until a submit is held until an earlier one.
LEMMA HeldEarlier ==
  ASSUME NEW r, NEW s \in Seq(Submitted), NEW c,
         NEW k \in Nat, NEW l \in Nat, k <= l, HeldUntil(r, s, c, l)
  PROVE  HeldUntil(r, s, c, k)
  <1>1. \A j \in DOMAIN s : s[j].timelineId \in Nat
    BY SizesOf
  <1>2. \A j \in DOMAIN s : s[j].timelineId < k => s[j].timelineId < l
    BY <1>1
  <1>. QED BY <1>2 DEF HeldUntil
=============================================================================
