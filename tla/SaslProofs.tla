----------------------------- MODULE SaslProofs -----------------------------
(***************************************************************************)
(* Proofs about SaslParsers, for payloads and names of every length: the   *)
(* parsers accept what the formats say, and the two mechanisms read the    *)
(* same user.                                                              *)
(***************************************************************************)
EXTENDS SaslParsers, FiniteSetTheorems, SequenceTheorems, WellFoundedInduction, TLAPS

\* Induction over the naturals, for a set.
LEMMA NatSetInduction ==
    ASSUME NEW T, \A n \in Nat : (\A m \in Nat : m < n => m \in T) => n \in T
    PROVE  Nat \subseteq T
<1> DEFINE R == {ss \in Nat \X Nat : ss[1] < ss[2]}
<1>1. IsWellFoundedOn(R, Nat)
  BY NatLessThanWellFounded DEF OpToRel
<1>2. SUFFICES ASSUME Nat \ T # {} PROVE FALSE
  OBVIOUS
<1>3. PICK n \in Nat \ T : \A y \in Nat \ T : <<y, n>> \notin R
  <2> HIDE DEF R
  <2>1. Nat \ T \subseteq Nat
    OBVIOUS
  <2> QED
    BY <1>1, <1>2, <2>1, WFMin, Zenon
<1>4. \A m \in Nat : m < n => m \in T
  BY <1>3, Zenon
<1> QED
  BY <1>3, <1>4

\* A set of positions has a first.
LEMMA FirstOf ==
    ASSUME NEW S \in SUBSET Nat, S # {}
    PROVE  Min(S) \in S /\ \A y \in S : Min(S) <= y
<1> DEFINE R == {ss \in Nat \X Nat : ss[1] < ss[2]}
<1>1. IsWellFoundedOn(R, Nat)
  BY NatLessThanWellFounded DEF OpToRel
<1>2. \E x \in S : \A y \in S : x <= y
  <2> HIDE DEF R
  <2>1. PICK x \in S : \A y \in S : ~(<<y, x>> \in R)
    BY <1>1, WFMin, Zenon
  <2>2. ASSUME NEW y \in S PROVE x <= y
    <3>1. x \in Nat /\ y \in Nat /\ <<y, x>> \notin R
      BY <2>1
    <3>2. y < x => <<y, x>> \in R
      BY <3>1 DEF R
    <3> QED
      BY <3>1, <3>2
  <2> QED
    BY <2>2
<1> QED
  BY <1>2, Zenon DEF Min

\* The least member is the first.
LEMMA MinIs ==
    ASSUME NEW S \in SUBSET Nat, NEW x \in S, \A y \in S : x <= y
    PROVE  Min(S) = x
<1>1. Min(S) \in S /\ \A y \in S : Min(S) <= y
  BY FirstOf
<1>2. Min(S) \in Nat /\ x \in Nat
  BY <1>1, Zenon
<1>3. x <= Min(S) /\ Min(S) <= x
  BY <1>1, Zenon
<1> QED
  BY <1>2, <1>3

\* Parts of parts.
LEMMA PartOfPart ==
    ASSUME NEW C, NEW s \in Seq(C), NEW m \in 1 .. Len(s) + 1, NEW n \in m - 1 .. Len(s),
           NEW a \in Nat \ {0}, NEW b \in a - 1 .. n - m + 1
    PROVE  SubSeq(SubSeq(s, m, n), a, b) = SubSeq(s, m + a - 1, m + b - 1)
<1> DEFINE t == SubSeq(s, m, n)
           u == SubSeq(t, a, b)
           v == SubSeq(s, m + a - 1, m + b - 1)
<1>1. /\ Len(s) \in Nat /\ m \in Int /\ n \in Int /\ a \in Int /\ b \in Int
      /\ 1 <= m /\ n <= Len(s) /\ m - 1 <= n /\ 1 <= a /\ a - 1 <= b /\ b <= n - m + 1
  OBVIOUS
<1>2. \A i \in 1 .. Len(s) : s[i] \in C
  BY ElementOfSeq
<1>3. /\ t \in Seq(C) /\ Len(t) = n - m + 1
      /\ \A i \in 1 .. n - m + 1 : t[i] = s[m + i - 1]
  <2>1. \A i \in m .. n : s[i] \in C
    BY <1>1, <1>2
  <2>2. Len(t) = IF m <= n THEN n - m + 1 ELSE 0
    BY <1>1, <2>1, SubSeqProperties
  <2> QED
    BY <1>1, <2>1, <2>2, SubSeqProperties
<1> HIDE DEF t
<1>4. /\ u \in Seq(C) /\ Len(u) = b - a + 1
      /\ \A i \in 1 .. b - a + 1 : u[i] = t[a + i - 1]
  <2>1. \A i \in a .. b : t[i] \in C
    BY <1>1, <1>2, <1>3
  <2>2. Len(u) = IF a <= b THEN b - a + 1 ELSE 0
    BY <1>1, <2>1, SubSeqProperties
  <2> QED
    BY <1>1, <2>1, <2>2, SubSeqProperties
<1>5. /\ v \in Seq(C) /\ Len(v) = b - a + 1
      /\ \A i \in 1 .. b - a + 1 : v[i] = s[m + a - 1 + i - 1]
  <2> DEFINE x == m + a - 1
             y == m + b - 1
  <2>1. x \in Int /\ y \in Int /\ \A i \in x .. y : s[i] \in C
    BY <1>1, <1>2
  <2>2. y - x + 1 = b - a + 1 /\ (x <= y <=> a <= b)
    BY <1>1
  <2> HIDE DEF x, y
  <2>3. /\ SubSeq(s, x, y) \in Seq(C) /\ Len(SubSeq(s, x, y)) = IF x <= y THEN y - x + 1 ELSE 0
        /\ \A i \in 1 .. y - x + 1 : SubSeq(s, x, y)[i] = s[x + i - 1]
    BY <2>1, SubSeqProperties
  <2> QED
    BY <1>1, <2>2, <2>3 DEF x, y
<1> HIDE DEF u, v
<1>6. \A i \in 1 .. b - a + 1 : u[i] = v[i]
  <2>1. SUFFICES ASSUME NEW i \in 1 .. b - a + 1 PROVE u[i] = v[i]
    BY Zenon
  <2>2. a + i - 1 \in 1 .. n - m + 1 /\ m + (a + i - 1) - 1 = m + a - 1 + i - 1
    BY <1>1
  <2>3. u[i] = t[a + i - 1] /\ t[a + i - 1] = s[m + (a + i - 1) - 1]
    BY <1>3, <1>4, <2>2, Zenon
  <2> QED
    BY <1>5, <2>2, <2>3, Zenon
<1> QED
  <2>1. Len(u) = Len(v) /\ \A i \in 1 .. Len(u) : u[i] = v[i]
    BY <1>4, <1>5, <1>6, Zenon
  <2>2. u = v
    BY <1>4, <1>5, <2>1, SeqEqual, Zenon
  <2> QED
    BY <2>2 DEF u, v, t

\* A part of a text.
LEMMA PartIs ==
    ASSUME NEW C, NEW s \in Seq(C), NEW m \in 1 .. Len(s) + 1, NEW n \in m - 1 .. Len(s)
    PROVE  /\ SubSeq(s, m, n) \in Seq(C) /\ Len(SubSeq(s, m, n)) = n - m + 1
           /\ \A k \in 1 .. n - m + 1 : SubSeq(s, m, n)[k] = s[m + k - 1]
<1>1. Len(s) \in Nat /\ m \in Int /\ n \in Int /\ 1 <= m /\ m - 1 <= n /\ n <= Len(s)
  BY LenProperties
<1>2. \A k \in m .. n : s[k] \in C
  BY <1>1, ElementOfSeq
<1>3. /\ SubSeq(s, m, n) \in Seq(C)
      /\ Len(SubSeq(s, m, n)) = IF m <= n THEN n - m + 1 ELSE 0
      /\ \A k \in 1 .. n - m + 1 : SubSeq(s, m, n)[k] = s[m + k - 1]
  BY <1>1, <1>2, SubSeqProperties
<1> QED
  BY <1>1, <1>3

\* What is left of a text behind position i.
LEMMA FromIs ==
    ASSUME NEW C, NEW s \in Seq(C), NEW i \in 0 .. Len(s)
    PROVE  /\ From(s, i + 1) \in Seq(C) /\ Len(From(s, i + 1)) = Len(s) - i
           /\ \A k \in 1 .. Len(s) - i : From(s, i + 1)[k] = s[i + k]
<1>1. Len(s) \in Nat /\ i \in Nat /\ i <= Len(s)
  OBVIOUS
<1>2. \A k \in i + 1 .. Len(s) : s[k] \in C
  BY <1>1, ElementOfSeq
<1>3. /\ SubSeq(s, i + 1, Len(s)) \in Seq(C)
      /\ Len(SubSeq(s, i + 1, Len(s))) = IF i + 1 <= Len(s) THEN Len(s) - (i + 1) + 1 ELSE 0
      /\ \A k \in 1 .. Len(s) - (i + 1) + 1 : SubSeq(s, i + 1, Len(s))[k] = s[i + 1 + k - 1]
  BY <1>1, <1>2, SubSeqProperties
<1> QED
  BY <1>1, <1>3 DEF From

-----------------------------------------------------------------------------
(* cutByte.                                                                *)

\* The separators behind position i.
Behind(s, c, i) == {j \in Positions(s, c) : j > i}

\* cutByte on what is left behind position i cuts at the next separator.
LEMMA CutBehind ==
    ASSUME NEW C, NEW s \in Seq(C), NEW c, NEW i \in 0 .. Len(s)
    PROVE  LET Q == Behind(s, c, i)
               t == From(s, i + 1)
           IN  /\ Q = {} => ~cutByte(t, c).found
               /\ Q # {} => /\ Min(Q) \in i + 1 .. Len(s) /\ s[Min(Q)] = c
                            /\ \A j \in i + 1 .. Min(Q) - 1 : s[j] # c
                            /\ cutByte(t, c) = [before |-> SubSeq(s, i + 1, Min(Q) - 1),
                                                after |-> From(s, Min(Q) + 1), found |-> TRUE]
<1> DEFINE t == From(s, i + 1)
           Q == Behind(s, c, i)
<1> t = From(s, i + 1) /\ Q = Behind(s, c, i)
  OBVIOUS
<1> HIDE DEF t, Q
<1> DEFINE P == Positions(t, c)
           m == Min(Q)
<1>1. Len(s) \in Nat /\ i \in Nat /\ i <= Len(s)
  OBVIOUS
<1>2. /\ t \in Seq(C) /\ Len(t) = Len(s) - i
      /\ \A k \in 1 .. Len(s) - i : t[k] = s[i + k]
  BY FromIs, Zenon
<1>3. P = {k \in 1 .. Len(s) - i : s[i + k] = c}
  BY <1>2 DEF Positions
<1>4. Q = {j \in i + 1 .. Len(s) : s[j] = c}
  BY <1>1 DEF Behind, Positions
<1>5. CASE Q = {}
  <2>1. P = {}
    <3>1. ASSUME NEW k \in P PROVE FALSE
      <4>1. i + k \in i + 1 .. Len(s) /\ s[i + k] = c
        BY <1>1, <1>3
      <4> QED
        BY <1>4, <1>5, <4>1, Zenon
    <3> QED
      BY <3>1, Zenon
  <2> HIDE DEF P
  <2> QED
    BY <1>5, <2>1 DEF cutByte, P, t, Q
<1>6. CASE Q # {}
  <2>1. Q \in SUBSET Nat
    BY <1>1, <1>4
  <2>2. m \in Q /\ \A y \in Q : m <= y
    BY <1>6, <2>1, FirstOf, Zenon
  <2>3. m \in Nat /\ m \in i + 1 .. Len(s) /\ s[m] = c
    BY <1>1, <1>4, <2>2
  <2>4. \A j \in i + 1 .. m - 1 : s[j] # c
    <3>1. SUFFICES ASSUME NEW j \in i + 1 .. m - 1, s[j] = c PROVE FALSE
      BY Zenon
    <3>2. j \in Q
      BY <1>1, <1>4, <2>3, <3>1
    <3> QED
      BY <1>1, <2>2, <2>3, <3>2
  <2>5. m - i \in P /\ P \in SUBSET Nat
    BY <1>1, <1>3, <2>3
  <2>6. \A y \in P : m - i <= y
    <3>1. SUFFICES ASSUME NEW y \in P PROVE m - i <= y
      BY Zenon
    <3>2. y \in Nat /\ i + y \in i + 1 .. Len(s) /\ s[i + y] = c
      BY <1>1, <1>3
    <3>3. m <= i + y
      BY <1>4, <2>2, <3>2, Zenon
    <3> QED
      BY <1>1, <2>3, <3>2, <3>3
  <2> HIDE DEF P, m
  <2>7. Min(P) = m - i
    BY <2>5, <2>6, MinIs, Zenon
  <2>8. cutByte(t, c) = [before |-> SubSeq(t, 1, m - i - 1), after |-> From(t, m - i + 1), found |-> TRUE]
    <3>1. P # {}
      BY <2>5, Zenon
    <3> QED
      BY <2>7, <3>1, Zenon DEF cutByte, P
  <2>9. SubSeq(t, 1, m - i - 1) = SubSeq(s, i + 1, m - 1)
    <3> DEFINE b == m - i - 1
               x == i + 1
    <3>1. /\ x \in 1 .. Len(s) + 1 /\ Len(s) \in x - 1 .. Len(s) /\ 1 \in Nat \ {0}
          /\ b \in 1 - 1 .. Len(s) - x + 1 /\ x + 1 - 1 = x /\ x + b - 1 = m - 1
      BY <1>1, <2>3
    <3> HIDE DEF b, x
    <3>2. SubSeq(SubSeq(s, x, Len(s)), 1, b) = SubSeq(s, x + 1 - 1, x + b - 1)
      BY <3>1, PartOfPart
    <3> QED
      BY <3>1, <3>2, Zenon DEF From, b, x
  <2>10. From(t, m - i + 1) = From(s, m + 1)
    <3> DEFINE a == m - i + 1
               b == Len(s) - i
               x == i + 1
    <3>1. /\ x \in 1 .. Len(s) + 1 /\ Len(s) \in x - 1 .. Len(s) /\ a \in Nat \ {0}
          /\ b \in a - 1 .. Len(s) - x + 1 /\ x + a - 1 = m + 1 /\ x + b - 1 = Len(s)
      BY <1>1, <2>3
    <3> HIDE DEF a, b, x
    <3>2. SubSeq(SubSeq(s, x, Len(s)), a, b) = SubSeq(s, x + a - 1, x + b - 1)
      BY <3>1, PartOfPart
    <3>3. Len(t) = b
      BY <1>2, Zenon DEF b
    <3> QED
      BY <3>1, <3>2, <3>3, Zenon DEF From, a, x
  <2> QED
    BY <1>6, <2>3, <2>4, <2>8, <2>9, <2>10, Zenon DEF m, t, Q
<1> QED
  BY <1>5, <1>6, Zenon

-----------------------------------------------------------------------------
(* The fields of a message.                                                *)

\* The separator, a name for the provers.
Sep == ","

\* The comma is none of the other characters.
LEMMA SepIs == Sep \notin {"=", "n", "m", "2", "C", "3", "D", "r", "x"}
BY Zenon DEF Sep

\* The commas and the ends, and those before i.
Bounds(s) == Positions(s, Sep) \cup {0, Len(s) + 1}
\* Those before position i.
Below(s, i) == {j \in Bounds(s) : j < i}

\* Comma, by Bounds.
LEMMA CommaDef ==
    ASSUME NEW s, NEW k
    PROVE  Comma(s, k) = CHOOSE i \in Bounds(s) : Cardinality(Below(s, i)) = k
BY Zenon DEF Comma, Bounds, Below, Sep

\* They are finitely many numbers.
LEMMA BoundsAre ==
    ASSUME NEW C, NEW s \in Seq(C)
    PROVE  /\ Bounds(s) \subseteq 0 .. Len(s) + 1
           /\ \A i : IsFiniteSet(Below(s, i)) /\ Cardinality(Below(s, i)) \in Nat
<1>1. Len(s) \in Nat /\ DOMAIN s = 1 .. Len(s)
  BY LenProperties
<1>2. Bounds(s) \subseteq 0 .. Len(s) + 1
  BY <1>1 DEF Bounds, Positions
<1>3. IsFiniteSet(0 .. Len(s) + 1)
  BY <1>1, FS_Interval
<1>4. ASSUME NEW i PROVE IsFiniteSet(Below(s, i)) /\ Cardinality(Below(s, i)) \in Nat
  <2>1. Below(s, i) \subseteq 0 .. Len(s) + 1
    BY <1>2, Zenon DEF Below
  <2> QED
    BY <1>3, <2>1, FS_Subset, FS_CardinalityType, Zenon
<1> QED
  BY <1>2, <1>4, Zenon

\* The k-th of them is the one with k before it.
LEMMA CommaIs ==
    ASSUME NEW C, NEW s \in Seq(C), NEW i \in Bounds(s), NEW k, Cardinality(Below(s, i)) = k
    PROVE  Comma(s, k) = i
<1>1. ASSUME NEW a \in Bounds(s), NEW b \in Bounds(s), a < b
      PROVE  Cardinality(Below(s, a)) # Cardinality(Below(s, b))
  <2>1. a \in Nat /\ b \in Nat /\ \A j \in Bounds(s) : j \in Nat
    BY BoundsAre
  <2>2. Below(s, a) \subseteq Below(s, b)
    <3>1. \A j \in Bounds(s) : j < a => j < b
      BY <1>1, <2>1
    <3> QED
      BY <3>1, Zenon DEF Below
  <2>3. a \in Below(s, b) /\ a \notin Below(s, a)
    BY <1>1, <2>1 DEF Below
  <2>4. IsFiniteSet(Below(s, b))
    BY BoundsAre, Zenon
  <2> QED
    BY <2>2, <2>3, <2>4, FS_Subset, Zenon
<1>2. ASSUME NEW j \in Bounds(s), Cardinality(Below(s, j)) = k PROVE j = i
  <2>1. i \in Nat /\ j \in Nat
    BY BoundsAre
  <2>2. ~(i < j) /\ ~(j < i)
    BY <1>1, <1>2, Zenon
  <2> QED
    BY <2>1, <2>2
<1> QED
  BY <1>2, CommaDef, Zenon

\* The next of them.
Next1(s, i) == IF Behind(s, Sep, i) = {} THEN Len(s) + 1 ELSE Min(Behind(s, Sep, i))

\* Between position i and the next bound there is none.
LEMMA NextIs ==
    ASSUME NEW C, NEW s \in Seq(C), NEW i \in Bounds(s), i <= Len(s),
           NEW k \in Nat, Cardinality(Below(s, i)) = k
    PROVE  /\ Next1(s, i) \in Bounds(s) /\ i < Next1(s, i)
           /\ Cardinality(Below(s, Next1(s, i))) = k + 1
<1> DEFINE Q == Behind(s, Sep, i)
           m == Next1(s, i)
<1>1. /\ Len(s) \in Nat /\ i \in Nat /\ Bounds(s) \subseteq 0 .. Len(s) + 1
      /\ \A j \in Bounds(s) : j \in Nat /\ j <= Len(s) + 1
  <2>1. Len(s) \in Nat /\ Bounds(s) \subseteq 0 .. Len(s) + 1
    BY BoundsAre
  <2> QED
    BY <2>1
<1>2. Q \in SUBSET Nat /\ Q \subseteq Bounds(s)
  BY <1>1 DEF Behind, Bounds
<1>3. \A j \in Bounds(s) : j > i => j \in Q \/ j = Len(s) + 1
  BY <1>1 DEF Behind, Bounds
<1>4. m \in Bounds(s) /\ i < m /\ \A j \in Bounds(s) : j > i => m <= j
  <2>1. CASE Q = {}
    <3>1. m = Len(s) + 1
      BY <2>1, Zenon DEF Next1
    <3> QED
      BY <1>1, <1>3, <2>1, <3>1 DEF Bounds
  <2>2. CASE Q # {}
    <3>1. m = Min(Q)
      BY <2>2, Zenon DEF Next1
    <3>2. m \in Q /\ \A y \in Q : m <= y
      BY <1>2, <2>2, <3>1, FirstOf, Zenon
    <3>3. i < m /\ m \in Nat /\ m <= Len(s)
      <4>1. i < m /\ m \in Positions(s, Sep)
        BY <1>1, <1>2, <3>2 DEF Behind
      <4> QED
        BY <4>1, <1>1 DEF Positions
    <3> HIDE DEF Q, m
    <3> QED
      BY <1>1, <1>2, <1>3, <3>2, <3>3
  <2> QED
    BY <2>1, <2>2
<1> HIDE DEF m, Q
<1>5. m \in Nat
  BY <1>1, <1>4
<1>6. Below(s, m) = Below(s, i) \cup {i} /\ i \notin Below(s, i)
  BY <1>1, <1>4, <1>5 DEF Below
<1>7. IsFiniteSet(Below(s, i))
  BY BoundsAre, Zenon
<1>8. Cardinality(Below(s, i) \cup {i}) = Cardinality(Below(s, i)) + 1
  BY <1>6, <1>7, FS_AddElement, Zenon
<1> QED
  BY <1>4, <1>6, <1>8, Zenon DEF m

\* The separators behind the next one are one less.
LEMMA CountBehind ==
    ASSUME NEW C, NEW s \in Seq(C), NEW i \in Nat, Behind(s, Sep, i) # {}
    PROVE  LET m == Min(Behind(s, Sep, i))
           IN  Cardinality(Behind(s, Sep, i)) = Cardinality(Behind(s, Sep, m)) + 1
<1> DEFINE Q == Behind(s, Sep, i)
           m == Min(Q)
<1>1. Len(s) \in Nat /\ DOMAIN s = 1 .. Len(s)
  BY LenProperties
<1>2. Q \subseteq 1 .. Len(s) /\ Q \in SUBSET Nat /\ \A j \in Q : j > i
  BY <1>1 DEF Behind, Positions
<1>3. IsFiniteSet(Q)
  <2>1. IsFiniteSet(1 .. Len(s))
    BY <1>1, FS_Interval
  <2> QED
    BY <1>2, <2>1, FS_Subset, Zenon
<1>4. m \in Q /\ \A y \in Q : m <= y
  BY <1>2, FirstOf, Zenon
<1>5. Behind(s, Sep, m) = Q \ {m}
  <2>1. m \in Nat /\ m > i
    BY <1>2, <1>4
  <2>2. \A j \in Positions(s, Sep) : j \in Nat
    BY <1>1 DEF Positions
  <2>3. ASSUME NEW j \in Behind(s, Sep, m) PROVE j \in Q \ {m}
    BY <2>1, <2>2 DEF Behind
  <2>4. ASSUME NEW j \in Q \ {m} PROVE j \in Behind(s, Sep, m)
    <3>1. m <= j /\ j # m /\ j \in Nat /\ j \in Positions(s, Sep)
      BY <1>2, <1>4, Zenon DEF Behind
    <3>2. m < j
      BY <2>1, <3>1
    <3> QED
      BY <3>1, <3>2 DEF Behind
  <2> QED
    BY <2>3, <2>4, Zenon
<1>6. Cardinality(Q \ {m}) = Cardinality(Q) - 1 /\ Cardinality(Q) \in Nat
  BY <1>3, <1>4, FS_RemoveElement, FS_CardinalityType
<1> QED
  BY <1>5, <1>6

-----------------------------------------------------------------------------
(* The fields as the parser walks them.                                    *)

\* The fields of what cutByte returns.
LEMMA CutFields ==
    ASSUME NEW a, NEW b
    PROVE  LET r == [before |-> a, after |-> b, found |-> TRUE]
           IN  r.found /\ r.before = a /\ r.after = b
OBVIOUS

\* A sequence of two.
LEMMA TwoIs ==
    ASSUME NEW C, NEW t \in Seq(C), Len(t) = 2
    PROVE  t = <<t[1], t[2]>>
<1> DEFINE x == t[1]
           y == t[2]
<1>1. x \in C /\ y \in C
  BY ElementOfSeq
<1>2. <<x, y>> \in Seq(C) /\ Len(<<x, y>>) = 2 /\ <<x, y>>[1] = x /\ <<x, y>>[2] = y
  BY <1>1
<1>3. \A k \in 1 .. 2 : k = 1 \/ k = 2
  OBVIOUS
<1> DEFINE u == <<x, y>>
<1> HIDE DEF u
<1>4. \A k \in 1 .. Len(t) : t[k] = u[k]
  BY <1>2, <1>3, Zenon DEF u
<1>5. t = u
  BY <1>2, <1>4, SeqEqual, Zenon DEF u
<1> QED
  BY <1>5 DEF u

\* What it is to begin with two characters.
LEMMA PrefixTwo ==
    ASSUME NEW C, NEW t \in Seq(C), NEW x, NEW y
    PROVE  StartsWith(t, <<x, y>>) <=> Len(t) >= 2 /\ t[1] = x /\ t[2] = y
<1>1. Len(t) \in Nat /\ Len(<<x, y>>) = 2
  BY LenProperties
<1>2. ASSUME Len(t) >= 2 PROVE SubSeq(t, 1, 2) = <<t[1], t[2]>>
  <2>1. /\ SubSeq(t, 1, 2) \in Seq(C) /\ Len(SubSeq(t, 1, 2)) = 2
        /\ SubSeq(t, 1, 2)[1] = t[1] /\ SubSeq(t, 1, 2)[2] = t[2]
    <3>1. 1 \in 1 .. Len(t) + 1 /\ 2 \in 1 - 1 .. Len(t) /\ 2 - 1 + 1 = 2
      BY <1>1, <1>2
    <3>2. /\ SubSeq(t, 1, 2) \in Seq(C) /\ Len(SubSeq(t, 1, 2)) = 2 - 1 + 1
          /\ \A k \in 1 .. 2 - 1 + 1 : SubSeq(t, 1, 2)[k] = t[1 + k - 1]
      BY <3>1, PartIs, Zenon
    <3> QED
      BY <3>2
  <2>2. SubSeq(t, 1, 2) = <<SubSeq(t, 1, 2)[1], SubSeq(t, 1, 2)[2]>>
    BY <2>1, TwoIs, Zenon
  <2> QED
    BY <2>1, <2>2, Zenon
<1> QED
  BY <1>1, <1>2 DEF StartsWith

\* The two characters before the next separator are the two the rest begins
\* with.
LEMMA PrefixOfField ==
    ASSUME NEW C, NEW s \in Seq(C), NEW i \in 0 .. Len(s), NEW x, NEW y, x # Sep, y # Sep,
           Behind(s, Sep, i) # {}
    PROVE  LET F == SubSeq(s, i + 1, Min(Behind(s, Sep, i)) - 1)
           IN  /\ F \in Seq(C) /\ Len(F) = Min(Behind(s, Sep, i)) - 1 - i
               /\ StartsWith(From(s, i + 1), <<x, y>>) <=> StartsWith(F, <<x, y>>)
               /\ StartsWith(F, <<x, y>>) => i + 2 <= Len(s) /\ s[i + 1] = x /\ s[i + 2] = y
<1> DEFINE m == Min(Behind(s, Sep, i))
           F == SubSeq(s, i + 1, m - 1)
           t == From(s, i + 1)
<1>1. Len(s) \in Nat /\ i \in Nat /\ i <= Len(s)
  BY LenProperties
<1>2. m \in i + 1 .. Len(s) /\ s[m] = Sep
  <2>1. Behind(s, Sep, i) \in SUBSET Nat
    BY DEF Behind, Positions
  <2>2. m \in Behind(s, Sep, i)
    BY <2>1, FirstOf, Zenon
  <2> HIDE DEF m
  <2> QED
    BY <1>1, <2>2 DEF Behind, Positions
<1>3. t \in Seq(C) /\ Len(t) = Len(s) - i /\ \A k \in 1 .. Len(t) : t[k] = s[i + k]
  BY FromIs
<1> HIDE DEF m, t
<1>4. F \in Seq(C) /\ Len(F) = m - 1 - i /\ \A k \in 1 .. m - 1 - i : F[k] = s[i + k]
  <2>1. i + 1 \in 1 .. Len(s) + 1 /\ m - 1 \in i .. Len(s)
    BY <1>1, <1>2
  <2>2. F \in Seq(C) /\ Len(F) = (m - 1) - (i + 1) + 1
        /\ \A k \in 1 .. (m - 1) - (i + 1) + 1 : F[k] = s[i + 1 + k - 1]
    BY <2>1, PartIs
  <2> HIDE DEF F
  <2> QED
    BY <1>1, <2>1, <2>2
<1> HIDE DEF F
<1>5. StartsWith(F, <<x, y>>) <=> Len(F) >= 2 /\ F[1] = x /\ F[2] = y
  BY <1>4, PrefixTwo, Zenon
<1>6. StartsWith(t, <<x, y>>) <=> Len(t) >= 2 /\ t[1] = x /\ t[2] = y
  BY <1>3, PrefixTwo, Zenon
<1>7. Len(F) >= 2 => i + 2 <= Len(s) /\ F[1] = s[i + 1] /\ F[2] = s[i + 2]
                     /\ Len(t) >= 2 /\ t[1] = s[i + 1] /\ t[2] = s[i + 2]
  BY <1>1, <1>2, <1>3, <1>4
<1>8. Len(t) >= 2 /\ t[1] = x /\ t[2] = y => Len(F) >= 2
  <2> SUFFICES ASSUME Len(t) >= 2, t[1] = x, t[2] = y PROVE Len(F) >= 2
    OBVIOUS
  <2>1. t[1] = s[i + 1] /\ t[2] = s[i + 2]
    BY <1>1, <1>3
  <2>2. m # i + 1 /\ m # i + 2
    BY <1>2, <2>1
  <2>3. m \in Int /\ i + 1 <= m /\ i \in Int
    BY <1>1, <1>2
  <2>4. Len(F) = m - 1 - i
    BY <1>4, Zenon
  <2>5. m - 1 - i >= 2
    BY <2>2, <2>3
  <2> QED
    BY <2>4, <2>5, Zenon
<1>9. StartsWith(t, <<x, y>>) <=> StartsWith(F, <<x, y>>)
  BY <1>5, <1>6, <1>7, <1>8, Zenon
<1>10. StartsWith(F, <<x, y>>) => i + 2 <= Len(s) /\ s[i + 1] = x /\ s[i + 2] = y
  BY <1>5, <1>7, Zenon
<1> QED
  BY <1>4, <1>9, <1>10, Zenon DEF m, F, t

\* parseBare takes the name out of the field behind the separator at i.
LEMMA BareIs ==
    ASSUME NEW C, NEW s \in Seq(C), NEW i \in 0 .. Len(s)
    PROVE  LET Q == Behind(s, Sep, i)
               F == SubSeq(s, i + 1, Min(Q) - 1)
               named == Q # {} /\ StartsWith(F, <<"n", "=">>) /\ Len(F) > 2
           IN  parseBare(From(s, i + 1)) = IF named THEN decodeSASLname(From(F, 3)) ELSE Malformed
<1> DEFINE Q == Behind(s, Sep, i)
           m == Min(Q)
           F == SubSeq(s, i + 1, m - 1)
           t == From(s, i + 1)
           u == From(t, 3)
           named == Q # {} /\ StartsWith(F, <<"n", "=">>) /\ Len(F) > 2
           begins == StartsWith(t, <<"n", "=">>)
<1>0. Len(s) \in Nat /\ i \in Nat /\ i <= Len(s) /\ DOMAIN s = 1 .. Len(s)
  BY LenProperties
<1>1. Sep # "=" /\ Sep # "n"
  BY SepIs, Zenon
<1>2. Q # {} => /\ F \in Seq(C) /\ Len(F) = m - 1 - i
                /\ begins <=> StartsWith(F, <<"n", "=">>)
  BY <1>1, PrefixOfField
<1>3. parseBare(t) = IF ~begins \/ ~cutByte(u, Sep).found \/ cutByte(u, Sep).before = << >>
                     THEN Malformed ELSE decodeSASLname(cutByte(u, Sep).before)
  BY Zenon DEF parseBare, Sep
<1>4. t \in Seq(C) /\ Len(t) = Len(s) - i /\ \A k \in 1 .. Len(t) : t[k] = s[i + k]
  BY FromIs, Zenon
<1>5. begins <=> Len(t) >= 2 /\ t[1] = "n" /\ t[2] = "="
  <2> HIDE DEF t
  <2> QED
    BY <1>4, PrefixTwo
<1>6. CASE ~begins
  <2>1. ~named
    BY <1>2, <1>6, Zenon
  <2> QED
    BY <1>3, <1>6, <2>1, Zenon
<1>7. CASE begins
  <2>1. i + 2 <= Len(s) /\ s[i + 1] = "n" /\ s[i + 2] = "="
    <3>1. Len(t) >= 2 /\ t[1] = "n" /\ t[2] = "="
      BY <1>5, <1>7, Zenon
    <3> HIDE DEF t
    <3> QED
      BY <3>1, <1>0, <1>4
  <2>2. Behind(s, Sep, i + 2) = Q
    <3>1. \A j \in Positions(s, Sep) : j \in Nat /\ j # i + 1 /\ j # i + 2
      BY <1>0, <1>1, <2>1 DEF Positions
    <3>2. \A j \in Positions(s, Sep) : j > i + 2 <=> j > i
      BY <1>0, <3>1
    <3> QED
      BY <3>2, Zenon DEF Behind
  <2>3. i + 2 \in 0 .. Len(s) /\ (i + 2) + 1 = i + 3
    BY <1>0, <2>1
  <2>4. u = From(s, i + 3)
    <3>1. u = SubSeq(SubSeq(s, i + 1, Len(s)), 3, Len(s) - i)
      BY <1>4, Zenon DEF From
    <3>2. SubSeq(SubSeq(s, i + 1, Len(s)), 3, Len(s) - i) = SubSeq(s, i + 3, Len(s))
      <4>1. /\ i + 1 \in 1 .. Len(s) + 1 /\ Len(s) \in i .. Len(s)
            /\ 3 \in 1 .. Len(s) - i + 1 /\ Len(s) - i \in 2 .. Len(s) - i
        BY <1>0, <2>1
      <4> QED
        BY <1>0, <2>1, <4>1, PartOfPart
    <3> QED
      BY <3>1, <3>2, Zenon DEF From
  <2>5. CASE Q = {}
    <3>1. ~cutByte(From(s, (i + 2) + 1), Sep).found
      BY <2>2, <2>3, <2>5, CutBehind, Zenon
    <3>2. ~cutByte(u, Sep).found
      BY <2>3, <2>4, <3>1, Zenon
    <3> QED
      BY <1>3, <2>5, <3>2, Zenon
  <2>6. CASE Q # {}
    <3>1. /\ m \in (i + 2) + 1 .. Len(s)
          /\ cutByte(From(s, (i + 2) + 1), Sep) =
                [before |-> SubSeq(s, (i + 2) + 1, m - 1), after |-> From(s, m + 1), found |-> TRUE]
      BY <2>2, <2>3, <2>6, CutBehind
    <3>2. cutByte(u, Sep).found /\ cutByte(u, Sep).before = SubSeq(s, i + 3, m - 1)
      <4>1. cutByte(u, Sep) =
              [before |-> SubSeq(s, i + 3, m - 1), after |-> From(s, m + 1), found |-> TRUE]
        BY <2>3, <2>4, <3>1, Zenon
      <4> DEFINE x == SubSeq(s, i + 3, m - 1)
                 y == From(s, m + 1)
                 w == [before |-> x, after |-> y, found |-> TRUE]
      <4> HIDE DEF x, y
      <4>2. w.found /\ w.before = x
        BY CutFields, Zenon
      <4> HIDE DEF w
      <4> QED
        BY <4>1, <4>2, Zenon DEF w, x, y
    <3>3. From(F, 3) = SubSeq(s, i + 3, m - 1)
      <4>1. From(F, 3) = SubSeq(SubSeq(s, i + 1, m - 1), 3, m - 1 - i)
        BY <1>2, <2>6, Zenon DEF From
      <4> HIDE DEF m
      <4>2. /\ i + 1 \in 1 .. Len(s) + 1 /\ m - 1 \in i .. Len(s)
            /\ 3 \in 1 .. (m - 1) - i + 1 /\ m - 1 - i \in 2 .. (m - 1) - i
        BY <1>0, <2>1, <3>1
      <4>3. SubSeq(SubSeq(s, i + 1, m - 1), 3, m - 1 - i) = SubSeq(s, i + 3, m - 1)
        BY <1>0, <2>1, <3>1, <4>2, PartOfPart
      <4> QED
        BY <4>1, <4>3, Zenon DEF m
    <3>4. SubSeq(s, i + 3, m - 1) = << >> <=> ~(Len(F) > 2)
      <4>1. Len(F) = m - 1 - i
        BY <1>2, <2>6, Zenon
      <4> HIDE DEF m, F
      <4>2. m - 1 \in i + 2 .. Len(s) /\ i + 3 \in 1 .. Len(s) + 1
        BY <1>0, <2>1, <3>1
      <4>3. SubSeq(s, i + 3, m - 1) \in Seq(C)
            /\ Len(SubSeq(s, i + 3, m - 1)) = (IF i + 3 <= m - 1 THEN (m - 1) - (i + 3) + 1 ELSE 0)
        BY <1>0, <4>2, SubSeqProperties
      <4>4. SubSeq(s, i + 3, m - 1) = << >> <=> Len(SubSeq(s, i + 3, m - 1)) = 0
        BY <4>3, EmptySeq, Zenon
      <4> QED
        BY <1>0, <4>1, <4>2, <4>3, <4>4
    <3> HIDE DEF m, F, u, t
    <3>5. named <=> Len(F) > 2
      BY <1>2, <1>7, <2>6, Zenon
    <3>6. parseBare(t) = IF Len(F) > 2 THEN decodeSASLname(From(F, 3)) ELSE Malformed
      BY <1>3, <1>7, <3>2, <3>3, <3>4, Zenon
    <3> HIDE DEF named
    <3> QED
      BY <3>5, <3>6, Zenon DEF named, m, F, t
  <2> QED
    BY <2>5, <2>6, Zenon
<1> QED
  BY <1>6, <1>7, Zenon

-----------------------------------------------------------------------------
(* Escape.                                                                 *)

\* The characters that escaping needs.
Letters == {"=", "2", "C", "3", "D"}

\* How a character is written.
LEMMA EscIs ==
    ASSUME NEW c
    PROVE  /\ c = Sep => EscapeChar(c) = <<"=", "2", "C">>
           /\ c = "=" => EscapeChar(c) = <<"=", "3", "D">>
           /\ c # Sep /\ c # "=" => EscapeChar(c) = <<c>>
<1>1. CASE c = ","
  BY <1>1, Zenon DEF EscapeChar, Sep
<1>2. CASE c = "="
  <2>1. c # ","
    BY <1>2, Zenon
  <2> QED
    BY <1>2, <2>1, Zenon DEF EscapeChar, Sep
<1>3. CASE c # "," /\ c # "="
  BY <1>3, Zenon DEF EscapeChar, Sep
<1> QED
  BY <1>1, <1>2, <1>3, Zenon

\* It is written in characters.
LEMMA EscType ==
    ASSUME NEW C, Letters \subseteq C, NEW c \in C
    PROVE  EscapeChar(c) \in Seq(C)
<1>1. <<"=", "2", "C">> \in Seq(C) /\ <<"=", "3", "D">> \in Seq(C)
  BY DEF Letters
<1>2. <<c>> \in Seq(C)
  OBVIOUS
<1> QED
  BY <1>1, <1>2, EscIs, Zenon

\* The recursion that defines Escape, and its solutions.
EscStep(u, f, i) == IF i = 0 THEN << >> ELSE f[i - 1] \o EscapeChar(u[i])
\* A function that solves it for u.
EscSolution(C, u, f) ==
    f \in [0 .. Len(u) -> Seq(C)] /\ \A i \in 0 .. Len(u) : f[i] = EscStep(u, f, i)

\* It has one.
LEMMA EscExists ==
    ASSUME NEW C, Letters \subseteq C, NEW u \in Seq(C)
    PROVE  \E f : EscSolution(C, u, f)
<1> DEFINE N == Len(u)
           Upto(f, n) == \A i \in 0 .. N : i <= n => f[i] = EscStep(u, f, i)
           T == {n \in Nat : \E f \in [0 .. N -> Seq(C)] : Upto(f, n)}
<1>0. N \in Nat /\ << >> \in Seq(C)
  BY LenProperties
<1>1. ASSUME NEW n \in Nat, \A m \in Nat : m < n => m \in T
      PROVE  n \in T
  <2>1. CASE n = 0
    <3> DEFINE f == [i \in 0 .. N |-> << >>]
    <3>1. f \in [0 .. N -> Seq(C)]
      BY <1>0, Zenon
    <3>2. Upto(f, 0)
      <4>1. \A i \in 0 .. N : i <= 0 => i = 0
        BY <1>0
      <4>2. \A i \in 0 .. N : f[i] = << >>
        BY Zenon
      <4> HIDE DEF f
      <4> QED
        BY <4>1, <4>2, Zenon DEF EscStep
    <3> HIDE DEF f, Upto
    <3> QED
      BY <2>1, <3>1, <3>2, Zenon
  <2>2. CASE n > 0
    <3>1. n - 1 \in Nat /\ n - 1 < n
      BY <2>2
    <3>2. PICK f \in [0 .. N -> Seq(C)] : Upto(f, n - 1)
      BY <1>1, <3>1, Zenon
    <3> DEFINE h == [i \in 0 .. N |-> IF i = n THEN EscStep(u, f, i) ELSE f[i]]
    <3>3. ASSUME NEW i \in 0 .. N PROVE EscStep(u, f, i) \in Seq(C)
      <4>1. CASE i = 0
        BY <1>0, <4>1, Zenon DEF EscStep
      <4>2. CASE i # 0
        <5>1. i - 1 \in 0 .. N /\ i \in 1 .. Len(u)
          BY <1>0, <4>2
        <5>2. u[i] \in C
          BY <5>1, ElementOfSeq, Zenon
        <5>3. f[i - 1] \in Seq(C) /\ EscapeChar(u[i]) \in Seq(C)
          BY <5>1, <5>2, EscType, Zenon
        <5>4. f[i - 1] \o EscapeChar(u[i]) \in Seq(C)
          BY <5>3, ConcatProperties, Zenon
        <5> QED
          BY <4>2, <5>4, Zenon DEF EscStep
      <4> QED
        BY <4>1, <4>2, Zenon
    <3>4. h \in [0 .. N -> Seq(C)]
      BY <3>3, Zenon
    <3>5. ASSUME NEW i \in 0 .. N, i <= n PROVE h[i] = EscStep(u, h, i)
      <4>1. EscStep(u, h, i) = EscStep(u, f, i)
        <5>1. CASE i = 0
          BY <5>1, Zenon DEF EscStep
        <5>2. CASE i # 0
          <6>1. i - 1 \in 0 .. N /\ i - 1 # n
            BY <1>0, <3>5, <5>2
          <6>2. h[i - 1] = f[i - 1]
            BY <6>1, Zenon
          <6> HIDE DEF h
          <6> QED
            BY <5>2, <6>2, Zenon DEF EscStep
        <5> QED
          BY <5>1, <5>2, Zenon
      <4>2. CASE i = n
        BY <4>1, <4>2, Zenon
      <4>3. CASE i # n
        <5>1. i <= n - 1
          BY <1>0, <3>5, <4>3
        <5>2. f[i] = EscStep(u, f, i)
          BY <3>2, <5>1, Zenon
        <5> QED
          BY <4>1, <4>3, <5>2, Zenon
      <4> QED
        BY <4>2, <4>3, Zenon
    <3> HIDE DEF h
    <3> QED
      BY <3>4, <3>5, Zenon
  <2> HIDE DEF T
  <2> QED
    BY <2>1, <2>2
<1>2. N \in T
  <2>1. Nat \subseteq T
    <3> HIDE DEF T
    <3> QED
      BY <1>1, NatSetInduction, Zenon
  <2> HIDE DEF T, N
  <2> QED
    BY <1>0, <2>1, Zenon
<1>3. PICK f \in [0 .. N -> Seq(C)] : Upto(f, N)
  BY <1>2, Zenon
<1>4. \A i \in 0 .. N : i <= N
  BY <1>0
<1>5. EscSolution(C, u, f)
  BY <1>3, <1>4, Zenon DEF EscSolution
<1> QED
  BY <1>5, Zenon

\* Escape is the end of it.
LEMMA EscRec ==
    ASSUME NEW C, Letters \subseteq C, NEW u \in Seq(C)
    PROVE  \E f : EscSolution(C, u, f) /\ Escape(u) = f[Len(u)]
<1> DEFINE N == Len(u)
           iter == CHOOSE g : g = [i \in 0 .. N |-> EscStep(u, g, i)]
<1>0. N \in Nat
  BY LenProperties
<1>1. PICK f : EscSolution(C, u, f)
  BY EscExists, Zenon
<1>2. f = [i \in 0 .. N |-> f[i]] /\ \A i \in 0 .. N : f[i] = EscStep(u, f, i)
  BY <1>1, Zenon DEF EscSolution
<1>3. f = [i \in 0 .. N |-> EscStep(u, f, i)]
  <2> HIDE DEF N
  <2> QED
    BY <1>2
<1>4. iter = [i \in 0 .. N |-> EscStep(u, iter, i)]
  BY <1>3, Zenon
<1>5. Escape(u) = iter[N]
  BY Zenon DEF Escape, EscStep
<1> HIDE DEF iter
<1>6. \A i \in 0 .. N : iter[i] = EscStep(u, iter, i)
  BY <1>4, Zenon
<1> DEFINE T == {n \in Nat : n <= N => iter[n] = f[n]}
<1>7. ASSUME NEW n \in Nat, \A m \in Nat : m < n => m \in T
      PROVE  n \in T
  <2>1. SUFFICES ASSUME n <= N PROVE iter[n] = f[n]
    BY Zenon
  <2>2. n \in 0 .. N
    BY <1>0, <2>1
  <2>3. iter[n] = EscStep(u, iter, n) /\ f[n] = EscStep(u, f, n)
    BY <1>2, <1>6, <2>2, Zenon
  <2>4. CASE n = 0
    BY <2>3, <2>4, Zenon DEF EscStep
  <2>5. CASE n # 0
    <3>1. n - 1 \in Nat /\ n - 1 < n /\ n - 1 <= N
      BY <1>0, <2>1, <2>5
    <3>2. iter[n - 1] = f[n - 1]
      BY <1>7, <3>1, Zenon
    <3> HIDE DEF T
    <3> QED
      BY <2>3, <2>5, <3>2, Zenon DEF EscStep
  <2> QED
    BY <2>4, <2>5, Zenon
<1>8. Nat \subseteq T
  <2> HIDE DEF T
  <2> QED
    BY <1>7, NatSetInduction, Zenon
<1>9. N <= N
  BY <1>0
<1>10. iter[N] = f[N]
  BY <1>0, <1>8, <1>9, Zenon
<1> QED
  BY <1>1, <1>5, <1>10, Zenon

\* Escape takes one character after the other.
LEMMA EscapeHead ==
    ASSUME NEW C, Letters \subseteq C, NEW u \in Seq(C)
    PROVE  /\ Escape(u) \in Seq(C)
           /\ Len(u) > 0 => Escape(u) = EscapeChar(u[1]) \o Escape(From(u, 2))
<1> DEFINE N == Len(u)
           v == From(u, 2)
           M == Len(v)
           a == EscapeChar(u[1])
<1>0. N \in Nat
  BY LenProperties
<1>1. PICK f : EscSolution(C, u, f) /\ Escape(u) = f[N]
  BY EscRec, Zenon
<1>2. \A i \in 0 .. N : f[i] \in Seq(C) /\ f[i] = EscStep(u, f, i)
  BY <1>1, Zenon DEF EscSolution
<1>3. Escape(u) \in Seq(C)
  <2>1. N \in 0 .. N
    BY <1>0
  <2> QED
    BY <1>1, <1>2, <2>1, Zenon
<1>4. ASSUME N > 0 PROVE Escape(u) = a \o Escape(v)
  <2>1. 1 \in 0 .. N /\ 1 + 1 = 2 /\ 1 \in 1 .. N
    BY <1>0, <1>4
  <2>2. v \in Seq(C) /\ M = N - 1 /\ \A k \in 1 .. N - 1 : v[k] = u[1 + k]
    <3>1. /\ From(u, 1 + 1) \in Seq(C) /\ Len(From(u, 1 + 1)) = Len(u) - 1
          /\ \A k \in 1 .. Len(u) - 1 : From(u, 1 + 1)[k] = u[1 + k]
      BY <2>1, FromIs, Zenon
    <3> QED
      BY <2>1, <3>1, Zenon
  <2> HIDE DEF v
  <2>3. PICK g : EscSolution(C, v, g) /\ Escape(v) = g[M]
    BY <2>2, EscRec, Zenon
  <2>4. \A i \in 0 .. M : g[i] \in Seq(C) /\ g[i] = EscStep(v, g, i)
    BY <2>3, Zenon DEF EscSolution
  <2>5. a \in Seq(C)
    <3>1. u[1] \in C
      BY <2>1, ElementOfSeq, Zenon
    <3> QED
      BY <3>1, EscType, Zenon
  <2>6. M \in Nat /\ M + 1 = N
    BY <1>0, <1>4, <2>2
  <2> HIDE DEF N, M, a
  <2> DEFINE T == {n \in Nat : n <= M => f[n + 1] = a \o g[n]}
  <2>7. ASSUME NEW n \in Nat, \A m \in Nat : m < n => m \in T
        PROVE  n \in T
    <3>1. SUFFICES ASSUME n <= M PROVE f[n + 1] = a \o g[n]
      BY Zenon
    <3>2. n \in 0 .. M /\ n \in 0 .. N /\ n + 1 \in 0 .. N /\ n + 1 # 0 /\ (n + 1) - 1 = n
      BY <2>6, <3>1
    <3>3. f[n + 1] = f[n] \o EscapeChar(u[n + 1])
      <4>1. f[n + 1] = f[(n + 1) - 1] \o EscapeChar(u[n + 1])
        BY <1>2, <3>2, Zenon DEF EscStep
      <4> QED
        BY <3>2, <4>1, Zenon
    <3>4. CASE n = 0
      <4>1. g[n] = << >> /\ f[n] = << >>
        BY <1>2, <2>4, <3>2, <3>4, Zenon DEF EscStep
      <4>2. a \o << >> = a /\ << >> \o a = a
        BY <2>5, ConcatEmptySeq, Zenon
      <4>3. u[n + 1] = u[1]
        BY <3>4
      <4> QED
        BY <3>3, <4>1, <4>2, <4>3, Zenon DEF a
    <3>5. CASE n # 0
      <4>1. n - 1 \in Nat /\ n - 1 < n /\ n - 1 <= M /\ (n - 1) + 1 = n /\ n - 1 \in 0 .. M
            /\ n \in 1 .. N - 1 /\ 1 + n = n + 1
        BY <2>6, <3>1, <3>5
      <4>2. f[n] = a \o g[n - 1]
        <5>1. n - 1 \in T
          <6> HIDE DEF T
          <6> QED
            BY <2>7, <4>1, Zenon
        <5>2. f[(n - 1) + 1] = a \o g[n - 1]
          BY <4>1, <5>1, Zenon
        <5> QED
          BY <4>1, <5>2, Zenon
      <4> HIDE DEF T
      <4> DEFINE b == g[n - 1]
                 c == EscapeChar(u[n + 1])
      <4>3. v[n] = u[n + 1]
        <5>1. v[n] = u[1 + n]
          BY <2>2, <4>1, Zenon DEF N
        <5> QED
          BY <4>1, <5>1, Zenon
      <4>4. g[n] = b \o c
        BY <2>4, <3>2, <3>5, <4>3, Zenon DEF EscStep
      <4>5. b \in Seq(C) /\ c \in Seq(C)
        <5>1. n + 1 \in 1 .. Len(u)
          BY <2>6, <3>1 DEF N
        <5>2. u[n + 1] \in C
          BY <5>1, ElementOfSeq, Zenon
        <5> QED
          BY <2>4, <4>1, <5>2, EscType, Zenon
      <4> HIDE DEF b, c
      <4>6. (a \o b) \o c = a \o (b \o c)
        BY <2>5, <4>5, ConcatAssociative
      <4> QED
        BY <3>3, <4>2, <4>4, <4>6, Zenon DEF b, c
    <3> QED
      BY <3>4, <3>5, Zenon
  <2>8. Nat \subseteq T
    <3> HIDE DEF T
    <3> QED
      BY <2>7, NatSetInduction, Zenon
  <2>9. M <= M
    BY <2>6
  <2>10. f[M + 1] = a \o g[M]
    BY <2>6, <2>8, <2>9, Zenon
  <2> QED
    BY <1>1, <2>3, <2>6, <2>10, Zenon
<1> QED
  BY <1>3, <1>4, Zenon

\* The empty name is written as it is.
LEMMA EscapeEmpty == Escape(<< >>) = << >>
<1> DEFINE C == Letters
<1>1. << >> \in Seq(C) /\ Len(<< >>) = 0 /\ 0 \in 0 .. 0
  OBVIOUS
<1>2. PICK f : EscSolution(C, << >>, f) /\ Escape(<< >>) = f[Len(<< >>)]
  BY <1>1, EscRec, Zenon
<1> QED
  BY <1>1, <1>2, Zenon DEF EscSolution, EscStep

-----------------------------------------------------------------------------
(* decodeSASLname.                                                         *)

\* One round of its loop, as it is written, and by cases.
DecBody(raw, f, i) ==
    IF i = Len(raw) + 1 THEN User(<< >>)
    ELSE LET esc == escape(raw, i)
             step == CASE raw[i] = "," -> Malformed
                       [] raw[i] = "=" /\ esc = <<"2", "C">> -> User(<<",">>)
                       [] raw[i] = "=" /\ esc = <<"3", "D">> -> User(<<"=">>)
                       [] raw[i] \notin {",", "="} -> User(<<raw[i]>>)
                       [] OTHER -> Malformed
             next == f[IF raw[i] = "=" THEN i + 3 ELSE i + 1]
         IN  IF ~step.ok THEN Malformed
             ELSE IF ~next.ok THEN Malformed ELSE User(step.user \o next.user)
\* A character, and what the rest is decoded to.
Then(c, r) == IF ~r.ok THEN Malformed ELSE User(<<c>> \o r.user)
\* The round at i, by cases.
DecStep(raw, f, i) ==
    IF i = Len(raw) + 1 THEN User(<< >>)
    ELSE IF raw[i] = Sep THEN Malformed
    ELSE IF raw[i] # "=" THEN Then(raw[i], f[i + 1])
    ELSE IF escape(raw, i) = <<"2", "C">> THEN Then(Sep, f[i + 3])
    ELSE IF escape(raw, i) = <<"3", "D">> THEN Then("=", f[i + 3])
    ELSE Malformed

\* The fields of a result.
LEMMA Results ==
    /\ Malformed.ok = FALSE
    /\ \A u : User(u).ok = TRUE /\ User(u).user = u
BY DEF Malformed, User

\* The two escapes.
LEMMA EscapesDiffer == <<"2", "C">> # <<"3", "D">>
<1>1. <<"2", "C">>[1] = "2" /\ <<"3", "D">>[1] = "3"
  OBVIOUS
<1> QED
  BY <1>1

\* The two forms of the round are the same.
LEMMA BodyIsStep ==
    ASSUME NEW raw, NEW f, NEW i
    PROVE  DecBody(raw, f, i) = DecStep(raw, f, i)
<1> DEFINE c == raw[i]
           esc == escape(raw, i)
           two == <<"2", "C">>
           three == <<"3", "D">>
           step == CASE c = "," -> Malformed
                     [] c = "=" /\ esc = two -> User(<<",">>)
                     [] c = "=" /\ esc = three -> User(<<"=">>)
                     [] c \notin {",", "="} -> User(<<c>>)
                     [] OTHER -> Malformed
<1>0. two # three
  BY EscapesDiffer
<1>1. "," # "="
  BY Zenon
<1>2. Malformed.ok = FALSE /\ \A u : User(u).ok = TRUE /\ User(u).user = u
  BY Results, Zenon
<1>3. DecBody(raw, f, i) =
        IF i = Len(raw) + 1 THEN User(<< >>)
        ELSE IF ~step.ok THEN Malformed
        ELSE IF ~f[IF c = "=" THEN i + 3 ELSE i + 1].ok THEN Malformed
        ELSE User(step.user \o f[IF c = "=" THEN i + 3 ELSE i + 1].user)
  BY Zenon DEF DecBody
<1> HIDE DEF two, three, esc, c
<1>4. CASE i = Len(raw) + 1
  BY <1>3, <1>4, Zenon DEF DecStep
<1>5. CASE i # Len(raw) + 1
  <2>1. CASE c = ","
    <3>1. step = Malformed
      BY <1>1, <2>1, Zenon
    <3> HIDE DEF step
    <3> QED
      BY <1>2, <1>3, <1>5, <2>1, <3>1, Zenon DEF DecStep, Sep, c
  <2>2. CASE c = "=" /\ esc = two
    <3>1. step = User(<<",">>)
      BY <1>0, <1>1, <2>2, Zenon
    <3> HIDE DEF step
    <3>2. DecBody(raw, f, i) = Then(",", f[i + 3])
      BY <1>2, <1>3, <1>5, <2>2, <3>1, Zenon DEF Then
    <3> QED
      BY <1>1, <1>5, <2>2, <3>2, Zenon DEF DecStep, Sep, c, esc, two
  <2>3. CASE c = "=" /\ esc = three
    <3>1. step = User(<<"=">>)
      BY <1>0, <1>1, <2>3, Zenon
    <3> HIDE DEF step
    <3>2. DecBody(raw, f, i) = Then("=", f[i + 3])
      BY <1>2, <1>3, <1>5, <2>3, <3>1, Zenon DEF Then
    <3> QED
      BY <1>0, <1>1, <1>5, <2>3, <3>2, Zenon DEF DecStep, Sep, c, esc, two, three
  <2>4. CASE c = "=" /\ esc # two /\ esc # three
    <3>1. step = Malformed
      BY <1>1, <2>4, Zenon
    <3> HIDE DEF step
    <3> QED
      BY <1>1, <1>2, <1>3, <1>5, <2>4, <3>1, Zenon DEF DecStep, Sep, c, esc, two, three
  <2>5. CASE c # "," /\ c # "="
    <3>1. step = User(<<c>>)
      BY <2>5, Zenon
    <3> HIDE DEF step
    <3>2. DecBody(raw, f, i) = Then(c, f[i + 1])
      BY <1>2, <1>3, <1>5, <2>5, <3>1, Zenon DEF Then
    <3> QED
      BY <1>5, <2>5, <3>2, Zenon DEF DecStep, Sep, c
  <2> QED
    BY <2>1, <2>2, <2>3, <2>4, <2>5, Zenon
<1> QED
  BY <1>4, <1>5, Zenon

\* What the parsers return.
Results1(C) == {Malformed} \cup {User(u) : u \in Seq(C)}
\* f is a solution of the recursion.
Solves(raw, f) == \A i \in 1 .. Len(raw) + 1 : f[i] = DecStep(raw, f, i)
\* f is a solution of the right type.
DecSolution(C, raw, f) == f \in [1 .. Len(raw) + 1 -> Results1(C)] /\ Solves(raw, f)

\* Then returns a result.
LEMMA ThenIs ==
    ASSUME NEW C, NEW c \in C, NEW r \in Results1(C)
    PROVE  Then(c, r) \in Results1(C)
<1>1. CASE r = Malformed
  BY <1>1, Results, Zenon DEF Then, Results1
<1>2. ASSUME NEW u \in Seq(C), r = User(u) PROVE Then(c, r) \in Results1(C)
  <2>1. <<c>> \in Seq(C)
    OBVIOUS
  <2>2. <<c>> \o u \in Seq(C)
    BY <1>2, <2>1, ConcatProperties, Zenon
  <2>3. Then(c, r) = User(<<c>> \o u)
    BY <1>2, Results, Zenon DEF Then
  <2> QED
    BY <2>2, <2>3, Zenon DEF Results1
<1> QED
  BY <1>1, <1>2, Zenon DEF Results1

\* The round looks only ahead, and inside.
LEMMA StepAhead ==
    ASSUME NEW C, Letters \subseteq C, Sep \in C, NEW raw \in Seq(C), NEW i \in 1 .. Len(raw) + 1,
           NEW f, \A k \in 1 .. Len(raw) + 1 : f[k] \in Results1(C)
    PROVE  /\ DecStep(raw, f, i) \in Results1(C)
           /\ \A g : (\A k \in 1 .. Len(raw) + 1 : k > i => g[k] = f[k])
                     => DecStep(raw, g, i) = DecStep(raw, f, i)
<1>0. Len(raw) \in Nat /\ i \in Nat /\ 1 <= i /\ i <= Len(raw) + 1
  BY LenProperties
<1>1. << >> \in Seq(C) /\ User(<< >>) \in Results1(C) /\ Malformed \in Results1(C)
  <2>1. << >> \in Seq(C)
    OBVIOUS
  <2> QED
    BY <2>1, Zenon DEF Results1
<1>2. i # Len(raw) + 1 => i + 1 \in 1 .. Len(raw) + 1 /\ i + 1 > i /\ raw[i] \in C
  BY <1>0, ElementOfSeq
<1>3. escape(raw, i) # << >> => i + 3 \in 1 .. Len(raw) + 1 /\ i + 3 > i
  <2>1. escape(raw, i) # << >> => i + 2 <= Len(raw)
    <3>1. escape(raw, i) # << >> => ~(i + 2 > Len(raw))
      BY Zenon DEF escape
    <3> QED
      BY <1>0, <3>1
  <2> QED
    BY <1>0, <2>1
<1>4. <<"2", "C">> # << >> /\ <<"3", "D">> # << >>
  OBVIOUS
<1>5. "=" \in C
  BY Zenon DEF Letters
<1>6. DecStep(raw, f, i) \in Results1(C)
  <2>1. i # Len(raw) + 1 => Then(raw[i], f[i + 1]) \in Results1(C)
    BY <1>2, ThenIs, Zenon
  <2>2. escape(raw, i) # << >> =>
           Then(Sep, f[i + 3]) \in Results1(C) /\ Then("=", f[i + 3]) \in Results1(C)
    BY <1>3, <1>5, ThenIs, Zenon
  <2> QED
    BY <1>1, <1>4, <2>1, <2>2, Zenon DEF DecStep
<1>7. ASSUME NEW g, \A k \in 1 .. Len(raw) + 1 : k > i => g[k] = f[k]
      PROVE  DecStep(raw, g, i) = DecStep(raw, f, i)
  <2>1. i # Len(raw) + 1 => g[i + 1] = f[i + 1]
    BY <1>2, <1>7, Zenon
  <2>2. escape(raw, i) # << >> => g[i + 3] = f[i + 3]
    BY <1>3, <1>7, Zenon
  <2> QED
    BY <1>4, <2>1, <2>2, Zenon DEF DecStep
<1> QED
  BY <1>6, <1>7, Zenon

\* The loop has a solution.
LEMMA DecExists ==
    ASSUME NEW C, Letters \subseteq C, Sep \in C, NEW raw \in Seq(C)
    PROVE  \E f : DecSolution(C, raw, f)
<1> DEFINE M == Len(raw) + 1
           R == Results1(C)
           Upto(f, n) == \A i \in 1 .. M : i > M - n => f[i] = DecStep(raw, f, i)
           T == {n \in Nat : \E f \in [1 .. M -> R] : Upto(f, n)}
<1>0. M \in Nat
  BY LenProperties
<1>1. ASSUME NEW n \in Nat, \A m \in Nat : m < n => m \in T
      PROVE  n \in T
  <2> HIDE DEF R
  <2>1. CASE n = 0
    <3> DEFINE f == [i \in 1 .. M |-> Malformed]
    <3>1. f \in [1 .. M -> R]
      BY Zenon DEF R, Results1
    <3>2. Upto(f, 0)
      <4>1. \A i \in 1 .. M : ~(i > M - 0)
        BY <1>0
      <4> HIDE DEF f, M
      <4> QED
        BY <4>1, Zenon
    <3> HIDE DEF f, Upto
    <3> QED
      BY <2>1, <3>1, <3>2, Zenon
  <2>2. CASE n > 0
    <3>1. n - 1 \in Nat /\ n - 1 < n
      BY <2>2
    <3>2. PICK f \in [1 .. M -> R] : Upto(f, n - 1)
      BY <1>1, <3>1, Zenon
    <3> DEFINE h == [i \in 1 .. M |-> IF i = M - n + 1 THEN DecStep(raw, f, i) ELSE f[i]]
    <3>3. ASSUME NEW i \in 1 .. M
          PROVE  /\ DecStep(raw, f, i) \in R
                 /\ \A g : (\A k \in 1 .. M : k > i => g[k] = f[k])
                           => DecStep(raw, g, i) = DecStep(raw, f, i)
      <4>1. \A k \in 1 .. M : f[k] \in R
        BY Zenon
      <4> QED
        BY <4>1, StepAhead, Zenon DEF R
    <3>4. h \in [1 .. M -> R]
      BY <3>3, Zenon
    <3>5. ASSUME NEW i \in 1 .. M, i > M - n PROVE h[i] = DecStep(raw, h, i)
      <4>1. DecStep(raw, h, i) = DecStep(raw, f, i)
        <5>1. \A k \in 1 .. M : k > i => k # M - n + 1
          BY <1>0, <3>5
        <5>2. \A k \in 1 .. M : k > i => h[k] = f[k]
          BY <5>1, Zenon
        <5> HIDE DEF h
        <5> QED
          BY <3>3, <5>2, Zenon
      <4>2. CASE i = M - n + 1
        BY <4>1, <4>2, Zenon
      <4>3. CASE i # M - n + 1
        <5>1. i > M - (n - 1)
          BY <1>0, <3>5, <4>3
        <5>2. f[i] = DecStep(raw, f, i)
          BY <3>2, <5>1, Zenon
        <5> QED
          BY <4>1, <4>3, <5>2, Zenon
      <4> QED
        BY <4>2, <4>3, Zenon
    <3> HIDE DEF h
    <3> QED
      BY <3>4, <3>5, Zenon
  <2> HIDE DEF T
  <2> QED
    BY <2>1, <2>2
<1>2. M \in T
  <2>1. Nat \subseteq T
    <3> HIDE DEF T
    <3> QED
      BY <1>1, NatSetInduction, Zenon
  <2> HIDE DEF T, M
  <2> QED
    BY <1>0, <2>1, Zenon
<1>3. PICK f \in [1 .. M -> R] : Upto(f, M)
  BY <1>2, Zenon
<1>4. \A i \in 1 .. M : i > M - M
  BY <1>0
<1>5. DecSolution(C, raw, f)
  BY <1>3, <1>4, Zenon DEF DecSolution, Solves
<1> QED
  BY <1>5, Zenon

\* The two characters behind a position, in what is left behind another.
LEMMA EscapeShift ==
    ASSUME NEW C, NEW raw \in Seq(C), NEW d \in 0 .. Len(raw), NEW k \in Nat \ {0}
    PROVE  escape(raw, d + k) = escape(From(raw, d + 1), k)
<1> DEFINE w == From(raw, d + 1)
<1>1. Len(raw) \in Nat /\ d \in Nat /\ d <= Len(raw) /\ Len(w) = Len(raw) - d
  BY LenProperties, FromIs
<1>2. d + k + 2 > Len(raw) <=> k + 2 > Len(w)
  <2> HIDE DEF w
  <2> QED
    BY <1>1
<1>3. CASE k + 2 > Len(w)
  BY <1>2, <1>3, Zenon DEF escape
<1>4. CASE ~(k + 2 > Len(w))
  <2>1. escape(raw, d + k) = SubSeq(raw, d + k + 1, d + k + 2)
    BY <1>2, <1>4, Zenon DEF escape
  <2>2. escape(w, k) = SubSeq(SubSeq(raw, d + 1, Len(raw)), k + 1, k + 2)
    BY <1>4, Zenon DEF escape, From
  <2>3. SubSeq(SubSeq(raw, d + 1, Len(raw)), k + 1, k + 2) = SubSeq(raw, d + k + 1, d + k + 2)
    <3> DEFINE m == d + 1
               a == k + 1
               b == k + 2
    <3>1. /\ m \in 1 .. Len(raw) + 1 /\ Len(raw) \in m - 1 .. Len(raw) /\ a \in Nat \ {0}
          /\ b \in a - 1 .. Len(raw) - m + 1
          /\ m + a - 1 = d + k + 1 /\ m + b - 1 = d + k + 2
      <4> HIDE DEF w
      <4> QED
        BY <1>1, <1>4
    <3> HIDE DEF m, a, b
    <3>2. SubSeq(SubSeq(raw, m, Len(raw)), a, b) = SubSeq(raw, m + a - 1, m + b - 1)
      BY <3>1, PartOfPart
    <3> QED
      BY <3>1, <3>2, Zenon DEF m, a, b
  <2> QED
    BY <2>1, <2>2, <2>3, Zenon
<1> QED
  BY <1>3, <1>4, Zenon

\* A solution for the whole is one for what is left behind d.
LEMMA DecShift ==
    ASSUME NEW C, Letters \subseteq C, Sep \in C, NEW raw \in Seq(C), NEW d \in 0 .. Len(raw),
           NEW f, DecSolution(C, raw, f),
           NEW w, w = From(raw, d + 1), NEW g, Solves(w, g)
    PROVE  \A k \in 1 .. Len(w) + 1 : g[k] = f[d + k] /\ g[k] \in Results1(C)
<1> DEFINE L == Len(w) + 1
           h == [k \in 1 .. L |-> f[d + k]]
<1>w. \A k \in 1 .. Len(raw) - d : w[k] = raw[d + k]
  BY FromIs, Zenon
<1>s. w \in Seq(C) /\ Len(w) = Len(raw) - d
  BY FromIs, Zenon
<1>0. Len(raw) \in Nat /\ d \in Nat /\ d <= Len(raw) /\ Len(w) = Len(raw) - d
  BY <1>s, LenProperties
<1>1. L \in Nat /\ L = Len(raw) + 1 - d
  BY <1>0
<1>2. ASSUME NEW k \in 1 .. L PROVE d + k \in 1 .. Len(raw) + 1
  BY <1>0, <1>1
<1>3. \A k \in 1 .. L : h[k] = f[d + k] /\ h[k] \in Results1(C)
  BY <1>2, Zenon DEF DecSolution, Solves
<1> HIDE DEF h
<1>4. ASSUME NEW k \in 1 .. L PROVE DecStep(w, h, k) = f[d + k]
  <2>1. f[d + k] = DecStep(raw, f, d + k)
    BY <1>2, Zenon DEF DecSolution, Solves
  <2>2. d + k = Len(raw) + 1 <=> k = Len(w) + 1
    BY <1>0, <1>1
  <2>3. k # Len(w) + 1 => w[k] = raw[d + k] /\ k + 1 \in 1 .. L /\ d + (k + 1) = d + k + 1
    <3>1. k # Len(w) + 1 => k \in 1 .. Len(raw) - d /\ k + 1 \in 1 .. L
      BY <1>0, <1>1
    <3>2. d + (k + 1) = d + k + 1
      BY <1>0, <1>1
    <3> QED
      BY <1>w, <3>1, <3>2, Zenon
  <2>4. escape(raw, d + k) = escape(w, k)
    <3>1. k \in Nat \ {0}
      BY <1>1
    <3> QED
      BY <3>1, EscapeShift, Zenon
  <2>5. escape(w, k) # << >> => k + 3 \in 1 .. L /\ d + (k + 3) = d + k + 3
    <3>1. escape(w, k) # << >> => ~(k + 2 > Len(w))
      BY Zenon DEF escape
    <3> QED
      BY <1>0, <1>1, <3>1
  <2>6. k # Len(w) + 1 => h[k + 1] = f[d + k + 1]
    <3>1. SUFFICES ASSUME k # Len(w) + 1 PROVE h[k + 1] = f[d + k + 1]
      BY Zenon
    <3>2. k + 1 \in 1 .. L /\ d + (k + 1) = d + k + 1
      BY <2>3, <3>1, Zenon
    <3>3. h[k + 1] = f[d + (k + 1)]
      <4> HIDE DEF L
      <4> QED
        BY <1>3, <3>2, Zenon
    <3> QED
      BY <3>2, <3>3
  <2>7. escape(w, k) # << >> => h[k + 3] = f[d + k + 3]
    <3>1. SUFFICES ASSUME escape(w, k) # << >> PROVE h[k + 3] = f[d + k + 3]
      BY Zenon
    <3>2. k + 3 \in 1 .. L /\ d + (k + 3) = d + k + 3
      BY <2>5, <3>1, Zenon
    <3>3. h[k + 3] = f[d + (k + 3)]
      <4> HIDE DEF L
      <4> QED
        BY <1>3, <3>2, Zenon
    <3> QED
      BY <3>2, <3>3
  <2>8. <<"2", "C">> # << >> /\ <<"3", "D">> # << >>
    OBVIOUS
  <2>9. DecStep(raw, f, d + k) = DecStep(w, h, k)
    BY <2>2, <2>3, <2>4, <2>6, <2>7, <2>8, Zenon DEF DecStep
  <2> QED
    BY <2>1, <2>9, Zenon
<1>5. ASSUME NEW k \in 1 .. L, \A j \in 1 .. L : j > k => g[j] = f[d + j]
      PROVE  g[k] = f[d + k]
  <2>1. \A j \in 1 .. L : j > k => g[j] = h[j]
    BY <1>3, <1>5, Zenon
  <2>2. DecStep(w, g, k) = DecStep(w, h, k)
    BY <1>s, <1>3, <2>1, StepAhead, Zenon
  <2>3. g[k] = DecStep(w, g, k)
    BY Zenon DEF Solves
  <2> QED
    BY <1>4, <2>2, <2>3, Zenon
<1> DEFINE T == {n \in Nat : n < L => g[L - n] = f[d + (L - n)]}
<1>6. ASSUME NEW n \in Nat, \A m \in Nat : m < n => m \in T
      PROVE  n \in T
  <2>1. SUFFICES ASSUME n < L PROVE g[L - n] = f[d + (L - n)]
    BY Zenon
  <2>2. L - n \in 1 .. L
    BY <1>1, <2>1
  <2>3. ASSUME NEW j \in 1 .. L, j > L - n PROVE g[j] = f[d + j]
    <3>1. L - j \in Nat /\ L - j < n /\ L - j < L /\ L - (L - j) = j
      BY <1>1, <2>3
    <3>2. g[L - (L - j)] = f[d + (L - (L - j))]
      BY <1>6, <3>1, Zenon
    <3> QED
      BY <3>1, <3>2, Zenon
  <2> HIDE DEF L, T
  <2> QED
    BY <1>5, <2>2, <2>3, Zenon
<1>7. Nat \subseteq T
  <2> HIDE DEF T
  <2> QED
    BY <1>6, NatSetInduction, Zenon
<1>8. ASSUME NEW k \in 1 .. L PROVE g[k] = f[d + k]
  <2>1. L - k \in Nat /\ L - k < L /\ L - (L - k) = k
    BY <1>1
  <2>2. g[L - (L - k)] = f[d + (L - (L - k))]
    BY <1>7, <2>1, Zenon
  <2> QED
    BY <2>1, <2>2, Zenon
<1> QED
  BY <1>2, <1>8, Zenon DEF DecSolution, Solves

\* decodeSASLname is a solution.
LEMMA DecodeSolves ==
    ASSUME NEW C, Letters \subseteq C, Sep \in C, NEW w \in Seq(C)
    PROVE  \E g : Solves(w, g) /\ decodeSASLname(w) = g[1]
<1> DEFINE M == Len(w) + 1
           iter == CHOOSE g : g = [i \in 1 .. M |-> DecBody(w, g, i)]
<1>1. PICK f : DecSolution(C, w, f)
  BY DecExists, Zenon
<1>2. f = [i \in 1 .. M |-> f[i]]
  BY <1>1, Zenon DEF DecSolution
<1>3. \A i \in 1 .. M : f[i] = DecBody(w, f, i)
  BY <1>1, BodyIsStep, Zenon DEF DecSolution, Solves
<1>4. f = [i \in 1 .. M |-> DecBody(w, f, i)]
  <2> HIDE DEF M
  <2> QED
    BY <1>2, <1>3
<1>5. iter = [i \in 1 .. M |-> DecBody(w, iter, i)]
  BY <1>4, Zenon
<1>6. decodeSASLname(w) = iter[1]
  BY Zenon DEF decodeSASLname, DecBody
<1> HIDE DEF iter
<1>7. \A i \in 1 .. M : iter[i] = DecBody(w, iter, i)
  BY <1>5, Zenon
<1>8. Solves(w, iter)
  BY <1>7, BodyIsStep, Zenon DEF Solves
<1> QED
  BY <1>6, <1>8, Zenon

\* The name from the character at d + 1 on.
LEMMA DecodeFrom ==
    ASSUME NEW C, Letters \subseteq C, Sep \in C, NEW raw \in Seq(C),
           NEW f, DecSolution(C, raw, f), NEW d \in 0 .. Len(raw)
    PROVE  decodeSASLname(From(raw, d + 1)) = f[d + 1]
<1> DEFINE w == From(raw, d + 1)
<1>1. w \in Seq(C) /\ Len(w) = Len(raw) - d
  BY FromIs, Zenon
<1>2. w = From(raw, d + 1)
  OBVIOUS
<1> HIDE DEF w
<1>3. PICK g : Solves(w, g) /\ decodeSASLname(w) = g[1]
  BY <1>1, DecodeSolves, Zenon
<1>4. \A k \in 1 .. Len(w) + 1 : g[k] = f[d + k] /\ g[k] \in Results1(C)
  BY <1>2, <1>3, DecShift, Zenon
<1>5. 1 \in 1 .. Len(w) + 1
  BY <1>1, LenProperties
<1> QED
  BY <1>2, <1>3, <1>4, <1>5, Zenon

\* decodeSASLname takes one character, or one escape, after the other.
LEMMA DecodeHead ==
    ASSUME NEW C, Letters \subseteq C, Sep \in C, NEW raw \in Seq(C)
    PROVE  /\ decodeSASLname(raw) \in Results1(C)
           /\ Len(raw) = 0 => decodeSASLname(raw) = User(<< >>)
           /\ Len(raw) > 0 =>
                IF raw[1] = Sep THEN decodeSASLname(raw) = Malformed
                ELSE IF raw[1] # "="
                THEN decodeSASLname(raw) = Then(raw[1], decodeSASLname(From(raw, 2)))
                ELSE IF escape(raw, 1) = <<"2", "C">>
                THEN decodeSASLname(raw) = Then(Sep, decodeSASLname(From(raw, 4)))
                ELSE IF escape(raw, 1) = <<"3", "D">>
                THEN decodeSASLname(raw) = Then("=", decodeSASLname(From(raw, 4)))
                ELSE decodeSASLname(raw) = Malformed
<1>0. Len(raw) \in Nat
  BY LenProperties
<1>1. PICK f : DecSolution(C, raw, f)
  BY DecExists, Zenon
<1>2. \A d \in 0 .. Len(raw) : decodeSASLname(From(raw, d + 1)) = f[d + 1]
  BY <1>1, DecodeFrom, Zenon
<1>3. decodeSASLname(raw) = f[1]
  <2>1. 0 \in 0 .. Len(raw) /\ 0 + 1 = 1
    BY <1>0
  <2>2. decodeSASLname(From(raw, 0 + 1)) = f[0 + 1]
    BY <1>2, <2>1, Zenon
  <2>3. From(raw, 1) = raw
    BY SubSeqFull, Zenon DEF From
  <2> QED
    BY <2>1, <2>2, <2>3, Zenon
<1>4. 1 \in 1 .. Len(raw) + 1
  BY <1>0
<1>5. f[1] \in Results1(C) /\ f[1] = DecStep(raw, f, 1)
  BY <1>1, <1>4, Zenon DEF DecSolution, Solves
<1>6. CASE Len(raw) = 0
  <2>1. 1 = Len(raw) + 1 /\ ~(Len(raw) > 0)
    BY <1>6
  <2> QED
    BY <1>3, <1>5, <1>6, <2>1, Zenon DEF DecStep
<1>7. CASE Len(raw) # 0
  <2>1. 1 # Len(raw) + 1 /\ 1 \in 0 .. Len(raw) /\ 1 + 1 = 2
    BY <1>0, <1>7
  <2>2. decodeSASLname(From(raw, 2)) = f[2]
    <3>1. decodeSASLname(From(raw, 1 + 1)) = f[1 + 1]
      BY <1>2, <2>1, Zenon
    <3> QED
      BY <2>1, <3>1, Zenon
  <2>3. escape(raw, 1) # << >> => decodeSASLname(From(raw, 4)) = f[4]
    <3>1. escape(raw, 1) # << >> => ~(1 + 2 > Len(raw))
      BY Zenon DEF escape
    <3>2. ~(1 + 2 > Len(raw)) => 3 \in 0 .. Len(raw)
      BY <1>0
    <3>3. 3 + 1 = 4
      OBVIOUS
    <3>4. 3 \in 0 .. Len(raw) => decodeSASLname(From(raw, 3 + 1)) = f[3 + 1]
      BY <1>2, Zenon
    <3> QED
      BY <3>1, <3>2, <3>3, <3>4, Zenon
  <2>4. <<"2", "C">> # << >> /\ <<"3", "D">> # << >>
    OBVIOUS
  <2>5. 1 + 1 = 2 /\ 1 + 3 = 4
    OBVIOUS
  <2>6. f[1] = IF raw[1] = Sep THEN Malformed
               ELSE IF raw[1] # "=" THEN Then(raw[1], f[2])
               ELSE IF escape(raw, 1) = <<"2", "C">> THEN Then(Sep, f[4])
               ELSE IF escape(raw, 1) = <<"3", "D">> THEN Then("=", f[4])
               ELSE Malformed
    BY <1>5, <2>1, <2>5, Zenon DEF DecStep
  <2> QED
    BY <1>3, <1>5, <1>7, <2>2, <2>3, <2>4, <2>6, Zenon
<1> QED
  BY <1>6, <1>7, Zenon

\* The first d characters are none, or begin with an escape.
GoodUpTo(raw, d) ==
    \A i \in 1 .. d : raw[i] # Sep /\ (raw[i] = "=" => escape(raw, i) \in {<<"2", "C">>, <<"3", "D">>})

\* WellEscaped takes one step at a time too.
LEMMA WellShift ==
    ASSUME NEW C, NEW raw \in Seq(C), NEW d \in 0 .. Len(raw)
    PROVE  WellEscaped(raw) <=> GoodUpTo(raw, d) /\ WellEscaped(From(raw, d + 1))
<1> DEFINE good == {<<"2", "C">>, <<"3", "D">>}
           w == From(raw, d + 1)
           Good(s, i) == s[i] # Sep /\ (s[i] = "=" => escape(s, i) \in good)
<1>1. Len(raw) \in Nat /\ d \in Nat /\ d <= Len(raw) /\ DOMAIN raw = 1 .. Len(raw)
  BY LenProperties
<1>2. w \in Seq(C) /\ Len(w) = Len(raw) - d /\ \A k \in 1 .. Len(raw) - d : w[k] = raw[d + k]
  BY FromIs, Zenon
<1> HIDE DEF w
<1>3. DOMAIN w = 1 .. Len(raw) - d
  BY <1>2, LenProperties
<1>4. WellEscaped(raw) <=> \A i \in 1 .. Len(raw) : Good(raw, i)
  BY <1>1, Zenon DEF WellEscaped, Positions, Sep
<1>5. WellEscaped(w) <=> \A i \in 1 .. Len(raw) - d : Good(w, i)
  BY <1>3, Zenon DEF WellEscaped, Positions, Sep
<1>6. ASSUME NEW k \in 1 .. Len(raw) - d PROVE Good(raw, d + k) <=> Good(w, k)
  <2>1. k \in Nat \ {0}
    BY <1>1
  <2>2. escape(raw, d + k) = escape(w, k)
    BY <2>1, EscapeShift, Zenon DEF w
  <2>3. w[k] = raw[d + k]
    BY <1>2, Zenon
  <2> QED
    BY <2>2, <2>3, Zenon
<1> HIDE DEF Good
<1>7. (\A i \in 1 .. Len(raw) : Good(raw, i)) <=>
        (\A i \in 1 .. d : Good(raw, i)) /\ (\A k \in 1 .. Len(raw) - d : Good(raw, d + k))
  <2>1. ASSUME NEW i \in 1 .. Len(raw) 
        PROVE  i \in 1 .. d \/ (i - d \in 1 .. Len(raw) - d /\ d + (i - d) = i)
    BY <1>1
  <2>2. \A i \in 1 .. d : i \in 1 .. Len(raw)
    BY <1>1
  <2>3. \A k \in 1 .. Len(raw) - d : d + k \in 1 .. Len(raw)
    BY <1>1
  <2>4. ASSUME \A i \in 1 .. d : Good(raw, i), \A k \in 1 .. Len(raw) - d : Good(raw, d + k),
               NEW i \in 1 .. Len(raw)
        PROVE  Good(raw, i)
    <3>1. CASE i \in 1 .. d
      BY <2>4, <3>1, Zenon
    <3>2. CASE i - d \in 1 .. Len(raw) - d /\ d + (i - d) = i
      <4>1. Good(raw, d + (i - d))
        BY <2>4, <3>2, Zenon
      <4> QED
        BY <3>2, <4>1, Zenon
    <3> QED
      BY <2>1, <3>1, <3>2, Zenon
  <2> QED
    BY <2>2, <2>3, <2>4, Zenon
<1>8. WellEscaped(raw) <=> (\A i \in 1 .. d : Good(raw, i)) /\ WellEscaped(w)
  BY <1>4, <1>5, <1>6, <1>7, Zenon
<1> QED
  BY <1>8, Zenon DEF Good, w, GoodUpTo

\* A sequence is its first element and the rest.
LEMMA ConsIs ==
    ASSUME NEW C, NEW c \in C, NEW u \in Seq(C)
    PROVE  LET v == <<c>> \o u
           IN  v \in Seq(C) /\ Len(v) > 0 /\ v[1] = c /\ From(v, 2) = u
<1> DEFINE v == <<c>> \o u
<1>0. <<c>> \in Seq(C) /\ Len(<<c>>) = 1 /\ <<c>>[1] = c /\ Len(u) \in Nat
  BY LenProperties
<1>1. /\ v \in Seq(C) /\ Len(v) = 1 + Len(u) /\ v[1] = c
      /\ \A i \in 1 .. Len(u) : v[1 + i] = u[i]
  BY <1>0, ConcatProperties
<1> HIDE DEF v
<1>2. /\ From(v, 2) \in Seq(C) /\ Len(From(v, 2)) = Len(u)
      /\ \A k \in 1 .. Len(u) : From(v, 2)[k] = v[1 + k]
  <2>1. 1 \in 0 .. Len(v) /\ 1 + 1 = 2 /\ Len(v) - 1 = Len(u)
    BY <1>0, <1>1
  <2>2. /\ From(v, 1 + 1) \in Seq(C) /\ Len(From(v, 1 + 1)) = Len(v) - 1
        /\ \A k \in 1 .. Len(v) - 1 : From(v, 1 + 1)[k] = v[1 + k]
    BY <1>1, <2>1, FromIs, Zenon
  <2> QED
    BY <2>1, <2>2, Zenon
<1>3. \A k \in 1 .. Len(From(v, 2)) : From(v, 2)[k] = u[k]
  BY <1>1, <1>2, Zenon
<1>4. From(v, 2) = u
  BY <1>2, <1>3, SeqEqual, Zenon
<1>5. Len(v) > 0
  BY <1>0, <1>1
<1> QED
  BY <1>1, <1>4, <1>5, Zenon DEF v

\* A sequence that is not empty is its head and the rest.
LEMMA HeadRest ==
    ASSUME NEW C, NEW u \in Seq(C), Len(u) > 0
    PROVE  u[1] \in C /\ From(u, 2) \in Seq(C) /\ Len(From(u, 2)) = Len(u) - 1
           /\ u = <<u[1]>> \o From(u, 2)
<1>1. Len(u) \in Nat /\ 1 \in 0 .. Len(u) /\ 1 + 1 = 2 /\ 1 \in 1 .. Len(u) /\ Len(u) \in 1 .. Len(u)
  BY LenProperties
<1>2. From(u, 1 + 1) \in Seq(C) /\ Len(From(u, 1 + 1)) = Len(u) - 1
  BY <1>1, FromIs, Zenon
<1>3. SubSeq(u, 1, Len(u)) = <<u[1]>> \o SubSeq(u, 1 + 1, Len(u))
  BY <1>1, SubSeqRecursiveFirst, Zenon
<1>4. SubSeq(u, 1, Len(u)) = u
  BY SubSeqFull, Zenon
<1>5. u[1] \in C
  BY <1>1, ElementOfSeq, Zenon
<1> QED
  BY <1>1, <1>2, <1>3, <1>4, <1>5, Zenon DEF From

\* What decodeSASLname returns for a name.
Decoded(C, raw) ==
    LET p == decodeSASLname(raw)
    IN  /\ p.ok <=> WellEscaped(raw)
        /\ p.ok => p.user \in Seq(C) /\ p = User(p.user) /\ Escape(p.user) = raw

\* A character, or an escape, and a name is a name.
LEMMA ThenDecoded ==
    ASSUME NEW C, Letters \subseteq C, Sep \in C, NEW raw \in Seq(C), NEW d \in 1 .. Len(raw),
           NEW c \in C, SubSeq(raw, 1, d) = EscapeChar(c),
           GoodUpTo(raw, d),
           decodeSASLname(raw) = Then(c, decodeSASLname(From(raw, d + 1))),
           Decoded(C, From(raw, d + 1))
    PROVE  Decoded(C, raw)
<1> DEFINE w == From(raw, d + 1)
           p == decodeSASLname(w)
<1>0. d \in 0 .. Len(raw) /\ Len(raw) \in Nat /\ d \in Nat
  BY LenProperties
<1>1. w \in Seq(C)
  BY <1>0, FromIs, Zenon
<1>2. WellEscaped(raw) <=> WellEscaped(w)
  BY <1>0, WellShift, Zenon
<1>3. p.ok <=> WellEscaped(w)
  BY Zenon DEF Decoded
<1>4. CASE ~p.ok
  <2>1. decodeSASLname(raw) = Malformed
    BY <1>4, Zenon DEF Then
  <2>2. ~decodeSASLname(raw).ok
    BY <2>1, Results, Zenon
  <2> QED
    BY <1>2, <1>3, <1>4, <2>2, Zenon DEF Decoded
<1>5. CASE p.ok
  <2> DEFINE u == p.user
             v == <<c>> \o u
  <2>1. u \in Seq(C) /\ Escape(u) = w
    BY <1>5, Zenon DEF Decoded
  <2>2. decodeSASLname(raw) = User(v)
    BY <1>5, Zenon DEF Then
  <2>3. decodeSASLname(raw).ok /\ decodeSASLname(raw).user = v
    BY <2>2, Results, Zenon
  <2> HIDE DEF u
  <2>4. v \in Seq(C) /\ Len(v) > 0 /\ v[1] = c /\ From(v, 2) = u
    BY <2>1, ConsIs, ZenonT(30)
  <2> HIDE DEF v
  <2>5. Escape(v) = EscapeChar(v[1]) \o Escape(From(v, 2))
    BY <2>4, EscapeHead, Zenon
  <2>6. Escape(v) = SubSeq(raw, 1, d) \o SubSeq(raw, d + 1, Len(raw))
    BY <2>1, <2>4, <2>5, Zenon DEF From
  <2>7. SubSeq(raw, 1, d) \o SubSeq(raw, d + 1, Len(raw)) = raw
    <3>1. 1 \in 1 .. Len(raw) + 1 /\ d \in 1 - 1 .. Len(raw) /\ Len(raw) \in d .. Len(raw)
      BY <1>0
    <3>2. SubSeq(raw, 1, d) \o SubSeq(raw, d + 1, Len(raw)) = SubSeq(raw, 1, Len(raw))
      BY <3>1, ConcatAdjacentSubSeq, Zenon
    <3>3. SubSeq(raw, 1, Len(raw)) = raw
      BY SubSeqFull, Zenon
    <3> QED
      BY <3>2, <3>3, Zenon
  <2> QED
    BY <1>2, <1>3, <1>5, <2>2, <2>3, <2>4, <2>6, <2>7, Zenon DEF Decoded
<1> QED
  BY <1>4, <1>5, Zenon

\* One and two are three.
LEMMA OneAndTwo ==
    ASSUME NEW c, NEW x, NEW y
    PROVE  <<c>> \o <<x, y>> = <<c, x, y>>
<1> DEFINE C == {c, x, y}
           s == <<c>>
           t == <<x, y>>
           u == <<c, x, y>>
<1>1. s \in Seq(C) /\ Len(s) = 1 /\ s[1] = c
  OBVIOUS
<1>2. t \in Seq(C) /\ Len(t) = 2 /\ t[1] = x /\ t[2] = y
  OBVIOUS
<1>3. u \in Seq(C) /\ Len(u) = 3 /\ u[1] = c /\ u[2] = x /\ u[3] = y
  OBVIOUS
<1> HIDE DEF C, s, t, u
<1>4. /\ s \o t \in Seq(C) /\ Len(s \o t) = 3
      /\ (s \o t)[1] = s[1] /\ (s \o t)[2] = t[1] /\ (s \o t)[3] = t[2]
  <2>1. /\ s \o t \in Seq(C) /\ Len(s \o t) = Len(s) + Len(t)
        /\ \A i \in 1 .. Len(s) + Len(t) : (s \o t)[i] = IF i <= Len(s) THEN s[i] ELSE t[i - Len(s)]
    BY <1>1, <1>2, ConcatProperties, Zenon
  <2> DEFINE v == s \o t
  <2> HIDE DEF v
  <2>2. /\ v \in Seq(C) /\ Len(v) = 3 /\ \A i \in 1 .. 3 : v[i] = IF i <= 1 THEN s[i] ELSE t[i - 1]
    BY <1>1, <1>2, <2>1 DEF v
  <2>3. v[1] = s[1] /\ v[2] = t[1] /\ v[3] = t[2]
    BY <2>2
  <2> QED
    BY <2>2, <2>3 DEF v
<1>5. \A i \in 1 .. 3 : i = 1 \/ i = 2 \/ i = 3
  OBVIOUS
<1>6. \A i \in 1 .. Len(s \o t) : (s \o t)[i] = u[i]
  BY <1>1, <1>2, <1>3, <1>4, <1>5, Zenon
<1>7. s \o t = u
  BY <1>3, <1>4, <1>6, SeqEqual, Zenon
<1> QED
  BY <1>7 DEF s, t, u

\* An escape at the beginning.
LEMMA EscapedAt ==
    ASSUME NEW C, NEW raw \in Seq(C), NEW x, NEW y, escape(raw, 1) = <<x, y>>
    PROVE  /\ 3 <= Len(raw) /\ raw[2] = x /\ raw[3] = y
           /\ SubSeq(raw, 1, 3) = <<raw[1], x, y>>
<1>1. Len(raw) \in Nat
  BY LenProperties
<1>2. <<x, y>> # << >> /\ <<x, y>>[1] = x /\ <<x, y>>[2] = y
  OBVIOUS
<1>3. 3 <= Len(raw) /\ escape(raw, 1) = SubSeq(raw, 1 + 1, 1 + 2)
  <2>1. ~(1 + 2 > Len(raw)) /\ escape(raw, 1) = SubSeq(raw, 1 + 1, 1 + 2)
    BY <1>2, Zenon DEF escape
  <2> QED
    BY <1>1, <2>1
<1>10. 1 + 1 = 2 /\ 1 + 2 = 3
  OBVIOUS
<1>4. SubSeq(raw, 2, 3) = <<x, y>>
  BY <1>3, <1>10, Zenon
<1>5. /\ SubSeq(raw, 2, 3) \in Seq(C) /\ Len(SubSeq(raw, 2, 3)) = 2
      /\ SubSeq(raw, 2, 3)[1] = raw[2] /\ SubSeq(raw, 2, 3)[2] = raw[3]
  <2>1. 2 \in 1 .. Len(raw) + 1 /\ 3 \in 2 - 1 .. Len(raw)
    BY <1>1, <1>3
  <2>2. /\ SubSeq(raw, 2, 3) \in Seq(C) /\ Len(SubSeq(raw, 2, 3)) = 3 - 2 + 1
        /\ \A k \in 1 .. 3 - 2 + 1 : SubSeq(raw, 2, 3)[k] = raw[2 + k - 1]
    BY <2>1, PartIs, Zenon
  <2> QED
    BY <2>2
<1>6. raw[2] = x /\ raw[3] = y
  BY <1>2, <1>4, <1>5, Zenon
<1>7. SubSeq(raw, 1, 3) = <<raw[1]>> \o SubSeq(raw, 1 + 1, 3)
  <2>1. 1 \in 1 .. Len(raw) /\ 3 \in 1 .. Len(raw)
    BY <1>1, <1>3
  <2> QED
    BY <2>1, SubSeqRecursiveFirst, Zenon
<1>8. SubSeq(raw, 1, 3) = <<raw[1]>> \o <<x, y>>
  BY <1>4, <1>7, <1>10, Zenon
<1> QED
  BY <1>3, <1>6, <1>8, OneAndTwo, Zenon

\* decodeSASLname accepts the well-escaped names, and returns what is written so.
LEMMA DecodeIs ==
    ASSUME NEW C, Letters \subseteq C, Sep \in C, NEW raw \in Seq(C)
    PROVE  Decoded(C, raw)
<1> DEFINE T == {n \in Nat : \A r \in Seq(C) : Len(r) = n => Decoded(C, r)}
<1>1. ASSUME NEW n \in Nat, \A m \in Nat : m < n => m \in T
      PROVE  n \in T
  <2>1. SUFFICES ASSUME NEW r \in Seq(C), Len(r) = n PROVE Decoded(C, r)
    BY Zenon
  <2>2. ASSUME NEW d \in 1 .. Len(r) PROVE Decoded(C, From(r, d + 1))
    <3>1. d \in 0 .. Len(r) /\ Len(r) - d \in Nat /\ Len(r) - d < n
      BY <2>1
    <3>2. From(r, d + 1) \in Seq(C) /\ Len(From(r, d + 1)) = Len(r) - d
      BY <3>1, FromIs, Zenon
    <3>3. Len(r) - d \in T
      <4> HIDE DEF T
      <4> QED
        BY <1>1, <3>1, Zenon
    <3> QED
      BY <3>2, <3>3, Zenon
  <2> HIDE DEF T
  <2>3. Sep # "=" /\ Sep # "2" /\ Sep # "C" /\ Sep # "3" /\ Sep # "D"
    BY SepIs, Zenon
  <2>4. CASE Len(r) = 0
    <3>1. r = << >>
      BY <2>4, EmptySeq
    <3>2. WellEscaped(r)
      <4>1. DOMAIN r = {}
        BY <3>1
      <4> QED
        BY <4>1, Zenon DEF WellEscaped, Positions
    <3>3. decodeSASLname(r) = User(<< >>)
      BY <2>4, DecodeHead, Zenon
    <3>4. << >> \in Seq(C)
      OBVIOUS
    <3> QED
      BY <3>1, <3>2, <3>3, <3>4, Results, EscapeEmpty, Zenon DEF Decoded
  <2>5. CASE Len(r) # 0
    <3>0. Len(r) > 0 /\ 1 \in 1 .. Len(r) /\ 1 \in 0 .. Len(r) /\ 1 \in 1 .. 1 /\ 1 + 1 = 2
      BY <2>1, <2>5
    <3>1. ASSUME ~GoodUpTo(r, 1), decodeSASLname(r) = Malformed PROVE Decoded(C, r)
      <4>1. ~WellEscaped(r)
        BY <3>0, <3>1, WellShift, Zenon
      <4> QED
        BY <3>1, <4>1, Results, Zenon DEF Decoded
    <3>2. CASE r[1] = Sep
      <4>1. decodeSASLname(r) = Malformed
        BY <3>0, <3>2, DecodeHead, Zenon
      <4>2. ~GoodUpTo(r, 1)
        BY <3>0, <3>2, Zenon DEF GoodUpTo
      <4> QED
        BY <3>1, <4>1, <4>2, Zenon
    <3>3. CASE r[1] # Sep /\ r[1] # "="
      <4>1. decodeSASLname(r) = Then(r[1], decodeSASLname(From(r, 2)))
        BY <3>0, <3>3, DecodeHead, Zenon
      <4>2. \A i \in 1 .. 1 : i = 1
        OBVIOUS
      <4>3. GoodUpTo(r, 1)
        BY <3>3, <4>2, Zenon DEF GoodUpTo
      <4>4. r[1] \in C
        BY <3>0, ElementOfSeq, Zenon
      <4>5. SubSeq(r, 1, 1) = EscapeChar(r[1])
        <5>1. SubSeq(r, 1, 1) = <<r[1]>>
          <6>1. SubSeq(r, 1, 1) = <<r[1]>> \o SubSeq(r, 1 + 1, 1)
            BY <3>0, SubSeqRecursiveFirst, Zenon
          <6>2. SubSeq(r, 1 + 1, 1) = << >>
            BY SubSeqEmpty
          <6>3. <<r[1]>> \in Seq(C)
            BY <4>4
          <6>4. <<r[1]>> \o << >> = <<r[1]>>
            BY <6>3, ConcatEmptySeq, Zenon
          <6> QED
            BY <6>1, <6>2, <6>4, Zenon
        <5> QED
          BY <3>3, <5>1, EscIs, Zenon
      <4>6. Decoded(C, From(r, 1 + 1)) /\ decodeSASLname(r) = Then(r[1], decodeSASLname(From(r, 1 + 1)))
        BY <2>2, <3>0, <4>1, Zenon
      <4> QED
        BY <3>0, <4>3, <4>4, <4>5, <4>6, ThenDecoded, Zenon
    <3>4. ASSUME r[1] = "=", NEW x, NEW y, NEW c \in C, escape(r, 1) = <<x, y>>,
                 <<x, y>> \in {<<"2", "C">>, <<"3", "D">>}, EscapeChar(c) = <<"=", x, y>>,
                 x \notin {Sep, "="}, y \notin {Sep, "="},
                 decodeSASLname(r) = Then(c, decodeSASLname(From(r, 4)))
          PROVE  Decoded(C, r)
      <4>1. 3 <= Len(r) /\ r[2] = x /\ r[3] = y /\ SubSeq(r, 1, 3) = <<r[1], x, y>>
        BY <3>4, EscapedAt, Zenon
      <4>2. 3 \in 1 .. Len(r) /\ 3 + 1 = 4
        BY <2>1, <4>1
      <4>3. \A i \in 1 .. 3 : i = 1 \/ i = 2 \/ i = 3
        OBVIOUS
      <4>4. GoodUpTo(r, 3)
        BY <2>3, <3>4, <4>1, <4>3, Zenon DEF GoodUpTo
      <4>5. Decoded(C, From(r, 3 + 1)) /\ decodeSASLname(r) = Then(c, decodeSASLname(From(r, 3 + 1)))
        BY <2>2, <3>4, <4>2, Zenon
      <4>6. SubSeq(r, 1, 3) = EscapeChar(c)
        BY <3>4, <4>1, Zenon
      <4> QED
        BY <4>2, <4>4, <4>5, <4>6, ThenDecoded, ZenonT(30)
    <3>5. CASE r[1] = "=" /\ escape(r, 1) = <<"2", "C">>
      <4>1. decodeSASLname(r) = Then(Sep, decodeSASLname(From(r, 4)))
        BY <2>3, <3>0, <3>5, DecodeHead, Zenon
      <4>2. "2" \notin {Sep, "="} /\ "C" \notin {Sep, "="}
        BY <2>3, Zenon
      <4>3. EscapeChar(Sep) = <<"=", "2", "C">>
        BY EscIs, Zenon
      <4> QED
        BY <3>4, <3>5, <4>1, <4>2, <4>3, Zenon
    <3>6. CASE r[1] = "=" /\ escape(r, 1) = <<"3", "D">>
      <4>1. decodeSASLname(r) = Then("=", decodeSASLname(From(r, 4)))
        BY <2>3, <3>0, <3>6, DecodeHead, EscapesDiffer, Zenon
      <4>2. "3" \notin {Sep, "="} /\ "D" \notin {Sep, "="} /\ "=" \in C
        BY <2>3, Zenon DEF Letters
      <4>3. EscapeChar("=") = <<"=", "3", "D">>
        BY EscIs, Zenon
      <4> QED
        BY <3>4, <3>6, <4>1, <4>2, <4>3, Zenon
    <3>7. CASE r[1] = "=" /\ escape(r, 1) # <<"2", "C">> /\ escape(r, 1) # <<"3", "D">>
      <4>1. decodeSASLname(r) = Malformed
        BY <2>3, <3>0, <3>7, DecodeHead, Zenon
      <4>2. ~GoodUpTo(r, 1)
        BY <3>0, <3>7, Zenon DEF GoodUpTo
      <4> QED
        BY <3>1, <4>1, <4>2, Zenon
    <3> QED
      BY <3>2, <3>3, <3>5, <3>6, <3>7, Zenon
  <2> QED
    BY <2>4, <2>5, Zenon
<1>2. Nat \subseteq T
  <2> HIDE DEF T
  <2> QED
    BY <1>1, NatSetInduction, Zenon
<1>3. Len(raw) \in Nat
  BY LenProperties
<1> QED
  BY <1>2, <1>3, Zenon

\* Position i ends the k-th field.
At(s, i, k) == i \in Bounds(s) /\ i <= Len(s) /\ k \in Nat /\ Cardinality(Below(s, i)) = k

\* The text begins at the bound 0.
LEMMA AtStart == ASSUME NEW C, NEW s \in Seq(C) PROVE At(s, 0, 0)
<1>1. Len(s) \in Nat /\ Bounds(s) \subseteq 0 .. Len(s) + 1
  BY BoundsAre
<1>2. Below(s, 0) = {}
  BY <1>1 DEF Below
<1>3. Cardinality({}) = 0
  BY FS_EmptySet, Zenon
<1>4. 0 \in Bounds(s) /\ 0 <= Len(s) /\ 0 \in Nat
  BY <1>1 DEF Bounds
<1> QED
  BY <1>2, <1>3, <1>4, Zenon DEF At

\* What cutByte finds behind the k-th field.
LEMMA NextField ==
    ASSUME NEW C, NEW s \in Seq(C), NEW i, NEW k, At(s, i, k), Behind(s, Sep, i) # {}
    PROVE  LET m == Min(Behind(s, Sep, i))
           IN  /\ At(s, m, k + 1)
               /\ Field(s, k + 1) = SubSeq(s, i + 1, m - 1)
               /\ cutByte(From(s, i + 1), Sep) =
                     [before |-> Field(s, k + 1), after |-> From(s, m + 1), found |-> TRUE]
               /\ Cardinality(Behind(s, Sep, i)) = Cardinality(Behind(s, Sep, m)) + 1
<1> DEFINE Q == Behind(s, Sep, i)
           m == Min(Q)
<1>1. Len(s) \in Nat /\ i \in 0 .. Len(s) /\ k \in Nat /\ i \in Nat /\ k + 1 \in Nat
  BY BoundsAre DEF At
<1>2. m \in i + 1 .. Len(s) /\ cutByte(From(s, i + 1), Sep) =
         [before |-> SubSeq(s, i + 1, m - 1), after |-> From(s, m + 1), found |-> TRUE]
  BY <1>1, CutBehind
<1>3. m = Next1(s, i)
  BY Zenon DEF Next1
<1> HIDE DEF m, Q
<1>4. m \in Bounds(s) /\ Cardinality(Below(s, m)) = k + 1
  BY <1>1, <1>3, NextIs, Zenon DEF At
<1>5. At(s, m, k + 1)
  <2>1. m <= Len(s)
    BY <1>1, <1>2
  <2> QED
    BY <1>1, <1>4, <2>1, Zenon DEF At
<1>6. Comma(s, k) = i /\ Comma(s, k + 1) = m
  BY <1>4, CommaIs, Zenon DEF At
<1>7. Field(s, k + 1) = SubSeq(s, i + 1, m - 1)
  <2>1. (k + 1) - 1 = k
    BY <1>1
  <2> QED
    BY <1>6, <2>1, Zenon DEF Field
<1>8. Cardinality(Q) = Cardinality(Behind(s, Sep, m)) + 1
  BY <1>1, CountBehind, Zenon DEF m, Q
<1> QED
  BY <1>2, <1>5, <1>7, <1>8, Zenon DEF m, Q

\* A field that begins with two characters is those and the rest.
LEMMA TwoAndRest ==
    ASSUME NEW C, NEW F \in Seq(C), NEW x, NEW y, StartsWith(F, <<x, y>>)
    PROVE  From(F, 3) \in Seq(C) /\ <<x, y>> \o From(F, 3) = F
<1>1. Len(F) \in Nat /\ Len(F) >= 2 /\ F[1] = x /\ F[2] = y
  BY PrefixTwo, LenProperties
<1>2. 2 \in 0 .. Len(F) /\ 2 + 1 = 3 /\ 1 \in 1 .. Len(F) + 1 /\ 2 \in 1 - 1 .. Len(F) /\ Len(F) \in 2 .. Len(F)
  BY <1>1
<1>3. From(F, 2 + 1) \in Seq(C)
  BY <1>2, FromIs, Zenon
<1>4. SubSeq(F, 1, 2) \o SubSeq(F, 2 + 1, Len(F)) = SubSeq(F, 1, Len(F))
  BY <1>2, ConcatAdjacentSubSeq, Zenon
<1>5. SubSeq(F, 1, Len(F)) = F
  BY SubSeqFull, Zenon
<1>6. SubSeq(F, 1, 2) = <<x, y>>
  <2>1. SubSeq(F, 1, Len(<<x, y>>)) = <<x, y>>
    BY Zenon DEF StartsWith
  <2>2. Len(<<x, y>>) = 2
    OBVIOUS
  <2> QED
    BY <2>1, <2>2, Zenon
<1> QED
  BY <1>2, <1>3, <1>4, <1>5, <1>6, Zenon DEF From

\* parseBare behind the k-th field reads the next one.
NameIs(s, k) ==
    /\ StartsWith(Field(s, k), <<"n", "=">>) /\ Len(Field(s, k)) > 2
    /\ WellEscaped(From(Field(s, k), 3))

\* parseBare at position i, which ends field k, reads field k + 1.
LEMMA BareField ==
    ASSUME NEW C, Letters \subseteq C, Sep \in C, NEW s \in Seq(C), NEW i, NEW k, At(s, i, k)
    PROVE  LET p == parseBare(From(s, i + 1))
           IN  /\ p.ok <=> Behind(s, Sep, i) # {} /\ NameIs(s, k + 1)
               /\ p.ok => <<"n", "=">> \o Escape(p.user) = Field(s, k + 1)
<1> DEFINE Q == Behind(s, Sep, i)
           F == SubSeq(s, i + 1, Min(Q) - 1)
           p == parseBare(From(s, i + 1))
           named == Q # {} /\ StartsWith(F, <<"n", "=">>) /\ Len(F) > 2
<1>1. i \in 0 .. Len(s)
  BY BoundsAre DEF At
<1>2. p = IF named THEN decodeSASLname(From(F, 3)) ELSE Malformed
  BY <1>1, BareIs, Zenon
<1>3. Q # {} => Field(s, k + 1) = F
  BY NextField, Zenon
<1>4. CASE ~named
  <2>1. ~p.ok
    BY <1>2, <1>4, Results, Zenon
  <2>2. ~(Q # {} /\ NameIs(s, k + 1))
    BY <1>3, <1>4, Zenon DEF NameIs
  <2> QED
    BY <2>1, <2>2, Zenon
<1>5. CASE named
  <2>1. F \in Seq(C)
    <3>1. Sep # "=" /\ Sep # "n"
      BY SepIs, Zenon
    <3> QED
      BY <1>1, <1>5, <3>1, PrefixOfField
  <2> HIDE DEF F, Q
  <2>2. From(F, 3) \in Seq(C) /\ <<"n", "=">> \o From(F, 3) = F
    BY <1>5, <2>1, TwoAndRest, Zenon
  <2>3. Decoded(C, From(F, 3))
    BY <2>2, DecodeIs, Zenon
  <2>4. p = decodeSASLname(From(F, 3))
    BY <1>2, <1>5, Zenon
  <2> HIDE DEF p
  <2>5. p.ok <=> WellEscaped(From(F, 3))
    BY <2>3, <2>4, Zenon DEF Decoded
  <2>6. p.ok => Escape(p.user) = From(F, 3)
    BY <2>3, <2>4, Zenon DEF Decoded
  <2>7. Field(s, k + 1) = F
    BY <1>3, <1>5, Zenon
  <2>8. p.ok <=> Q # {} /\ NameIs(s, k + 1)
    BY <1>5, <2>5, <2>7, Zenon DEF NameIs
  <2>9. p.ok => <<"n", "=">> \o Escape(p.user) = Field(s, k + 1)
    BY <2>2, <2>6, <2>7, Zenon
  <2> QED
    BY <2>8, <2>9, Zenon DEF p, Q
<1> QED
  BY <1>4, <1>5, Zenon

\* The parser by its cuts.
LEMMA ParseDef ==
    ASSUME NEW s
    PROVE  LET flag == cutByte(s, Sep)
               authzid == cutByte(flag.after, Sep)
               mext == cutByte(authzid.after, Sep)
           IN  ParseSCRAMClientFirstUsername(s) =
                 IF ~flag.found \/ flag.before # <<"n">> \/ ~authzid.found THEN Malformed
                 ELSE IF ~StartsWith(authzid.after, <<"m", "=">>) THEN parseBare(authzid.after)
                 ELSE IF mext.found THEN parseBare(mext.after) ELSE Malformed
BY Zenon DEF ParseSCRAMClientFirstUsername, Sep

\* The number of fields.
LEMMA FieldsDef == ASSUME NEW C, NEW s \in Seq(C) PROVE Fields(s) = Cardinality(Behind(s, Sep, 0)) + 1
<1>1. DOMAIN s = 1 .. Len(s) /\ Len(s) \in Nat
  BY LenProperties
<1>2. Behind(s, Sep, 0) = Positions(s, Sep)
  BY <1>1 DEF Behind, Positions
<1> QED
  BY <1>2, Zenon DEF Fields, Sep

\* A cut that is found.
LEMMA Found ==
    ASSUME NEW r, NEW a, NEW b, r = [before |-> a, after |-> b, found |-> TRUE]
    PROVE  r.found /\ r.before = a /\ r.after = b
<1> DEFINE w == [before |-> a, after |-> b, found |-> TRUE]
<1>1. w.found /\ w.before = a /\ w.after = b
  BY CutFields, Zenon
<1> HIDE DEF w
<1>2. r = w
  BY DEF w
<1> QED
  BY <1>1, <1>2, Zenon

\* ScramReadsTheName, of any text.
Follows(s) ==
    LET p == ParseSCRAMClientFirstUsername(s)
    IN  /\ p.ok <=> UpToNonce(s)
        /\ p.ok => <<"n", "=">> \o Escape(p.user) = Field(s, NameField(s))

\* ParseSCRAMClientFirstUsername on every text.
LEMMA ScramIs ==
    ASSUME NEW C, Letters \subseteq C, Sep \in C, NEW s \in Seq(C)
    PROVE  Follows(s)
<1> DEFINE p == ParseSCRAMClientFirstUsername(s)
           flag == cutByte(s, Sep)
           authzid == cutByte(flag.after, Sep)
           mext == cutByte(authzid.after, Sep)
           Q0 == Behind(s, Sep, 0)
           c1 == Min(Q0)
           Q1 == Behind(s, Sep, c1)
           c2 == Min(Q1)
           Q2 == Behind(s, Sep, c2)
           c3 == Min(Q2)
           Q3 == Behind(s, Sep, c3)
<1>1. p = IF ~flag.found \/ flag.before # <<"n">> \/ ~authzid.found THEN Malformed
          ELSE IF ~StartsWith(authzid.after, <<"m", "=">>) THEN parseBare(authzid.after)
          ELSE IF mext.found THEN parseBare(mext.after) ELSE Malformed
  BY ParseDef, Zenon
<1>2. flag = cutByte(From(s, 0 + 1), Sep)
  <2>1. From(s, 1) = s /\ 0 + 1 = 1
    BY SubSeqFull DEF From
  <2> QED
    BY <2>1, Zenon
<1>3. Fields(s) = Cardinality(Q0) + 1
  BY FieldsDef, Zenon
<1>4. At(s, 0, 0)
  BY AtStart, Zenon
<1>5. Cardinality({}) = 0 /\ 0 + 1 = 1 /\ 1 + 1 = 2 /\ 2 + 1 = 3 /\ 3 + 1 = 4
  <2>1. Cardinality({}) = 0
    BY FS_EmptySet, Zenon
  <2> QED
    BY <2>1
<1>6. ASSUME NEW i \in Nat PROVE i <= Len(s) => ~cutByte(From(s, i + 1), Sep).found \/ Behind(s, Sep, i) # {}
  <2>1. i <= Len(s) => i \in 0 .. Len(s)
    BY LenProperties
  <2> QED
    BY <2>1, CutBehind, Zenon
<1>7. ASSUME NEW i, NEW k, At(s, i, k) PROVE i \in Nat /\ i <= Len(s)
  <2>1. Bounds(s) \subseteq 0 .. Len(s) + 1
    BY BoundsAre, Zenon
  <2> QED
    BY <1>7, <2>1 DEF At
<1>8. ASSUME NEW i, NEW k, At(s, i, k) PROVE Cardinality(Behind(s, Sep, i)) \in Nat
                                             /\ (Cardinality(Behind(s, Sep, i)) = 0 <=> Behind(s, Sep, i) = {})
  <2>1. DOMAIN s = 1 .. Len(s) /\ Len(s) \in Nat
    BY LenProperties
  <2>2. Behind(s, Sep, i) \subseteq 1 .. Len(s)
    BY <2>1 DEF Behind, Positions
  <2>3. IsFiniteSet(1 .. Len(s))
    BY <2>1, FS_Interval
  <2>4. IsFiniteSet(Behind(s, Sep, i))
    BY <2>2, <2>3, FS_Subset, Zenon
  <2> QED
    BY <2>4, FS_CardinalityType, FS_EmptySet, Zenon
<1>9. ASSUME ~UpToNonce(s), p = Malformed PROVE Follows(s)
  BY <1>9, Results, Zenon DEF Follows
<1>10. CASE Q0 = {}
  <2>1. ~flag.found
    BY <1>2, <1>4, <1>6, <1>7, <1>10, Zenon
  <2>2. Fields(s) = 1
    BY <1>3, <1>5, <1>10, Zenon
  <2>3. ~(1 > 3)
    OBVIOUS
  <2>4. ~UpToNonce(s)
    BY <2>2, <2>3, Zenon DEF UpToNonce
  <2>5. p = Malformed
    BY <1>1, <2>1, Zenon
  <2> QED
    BY <1>9, <2>4, <2>5, Zenon
<1>11. CASE Q0 # {}
  <2>1. /\ At(s, c1, 0 + 1)
        /\ flag = [before |-> Field(s, 0 + 1), after |-> From(s, c1 + 1), found |-> TRUE]
        /\ Cardinality(Q0) = Cardinality(Q1) + 1
    BY <1>2, <1>4, <1>11, NextField, Zenon
  <2>2. flag.found /\ flag.before = Field(s, 0 + 1) /\ flag.after = From(s, c1 + 1)
    <3> HIDE DEF flag, c1
    <3> QED
      BY <2>1, Found, Zenon
  <2>3. At(s, c1, 1) /\ flag.before = Field(s, 1)
    BY <1>5, <2>1, <2>2, Zenon
  <2>4. authzid = cutByte(From(s, c1 + 1), Sep)
    BY <2>2, Zenon
  <2> HIDE DEF flag, Q0, c1
  <2>5. CASE Q1 = {}
    <3>1. ~authzid.found
      BY <1>6, <1>7, <2>3, <2>4, <2>5, Zenon
    <3>2. Fields(s) = 0 + 1 + 1
      BY <1>3, <1>5, <2>1, <2>5, Zenon
    <3>3. ~(0 + 1 + 1 > 3)
      OBVIOUS
    <3>4. ~UpToNonce(s)
      BY <3>2, <3>3, Zenon DEF UpToNonce
    <3>5. p = Malformed
      BY <1>1, <3>1, Zenon
    <3> QED
      BY <1>9, <3>4, <3>5, Zenon
  <2>6. CASE Q1 # {}
    <3>1. /\ At(s, c2, 1 + 1)
          /\ authzid = [before |-> Field(s, 1 + 1), after |-> From(s, c2 + 1), found |-> TRUE]
          /\ Cardinality(Q1) = Cardinality(Q2) + 1
      BY <2>3, <2>4, <2>6, NextField, Zenon
    <3>2. authzid.found /\ authzid.after = From(s, c2 + 1)
      <4> HIDE DEF authzid, c2
      <4> QED
        BY <3>1, Found, Zenon
    <3>3. At(s, c2, 2)
      BY <1>5, <3>1, Zenon
    <3>4. mext = cutByte(From(s, c2 + 1), Sep)
      BY <3>2, Zenon
    <3> HIDE DEF authzid, Q1, c2, mext
    <3>5. p = IF Field(s, 1) # <<"n">> THEN Malformed
              ELSE IF ~StartsWith(From(s, c2 + 1), <<"m", "=">>) THEN parseBare(From(s, c2 + 1))
              ELSE IF mext.found THEN parseBare(mext.after) ELSE Malformed
      BY <1>1, <2>2, <2>3, <3>2, Zenon
    <3> HIDE DEF p
    <3>6. CASE Field(s, 1) # <<"n">>
      BY <1>9, <3>5, <3>6, Zenon DEF UpToNonce
    <3>7. CASE Field(s, 1) = <<"n">>
      <4>1. LET q == parseBare(From(s, c2 + 1))
            IN  /\ q.ok <=> Q2 # {} /\ NameIs(s, 3)
                /\ q.ok => <<"n", "=">> \o Escape(q.user) = Field(s, 3)
        <5>1. LET q == parseBare(From(s, c2 + 1))
              IN  /\ q.ok <=> Q2 # {} /\ NameIs(s, 2 + 1)
                  /\ q.ok => <<"n", "=">> \o Escape(q.user) = Field(s, 2 + 1)
          BY <3>3, BareField, Zenon
        <5> QED
          BY <1>5, <5>1, Zenon
      <4>2. CASE Q2 = {}
        <5>1. ~UpToNonce(s)
          <6>1. Fields(s) = 0 + 1 + 1 + 1
            BY <1>3, <1>5, <2>1, <3>1, <4>2, Zenon
          <6>2. ~(0 + 1 + 1 + 1 > 3)
            OBVIOUS
          <6> QED
            BY <6>1, <6>2, Zenon DEF UpToNonce
        <5>2. ~mext.found
          BY <1>6, <1>7, <3>3, <3>4, <4>2, Zenon
        <5>3. ~p.ok
          BY <3>5, <3>7, <4>1, <4>2, <5>2, Results, Zenon
        <5> QED
          BY <5>1, <5>3, Zenon DEF Follows, p
      <4>3. CASE Q2 # {}
        <5>1. /\ At(s, c3, 2 + 1)
              /\ Field(s, 2 + 1) = SubSeq(s, c2 + 1, c3 - 1)
              /\ mext = [before |-> Field(s, 2 + 1), after |-> From(s, c3 + 1), found |-> TRUE]
              /\ Cardinality(Q2) = Cardinality(Q3) + 1
          BY <3>3, <3>4, <4>3, NextField, Zenon
        <5>2. mext.found /\ mext.after = From(s, c3 + 1)
          <6> HIDE DEF c3
          <6> QED
            BY <5>1, Found, Zenon
        <5>3. At(s, c3, 3) /\ Field(s, 3) = SubSeq(s, c2 + 1, c3 - 1)
          BY <1>5, <5>1, Zenon
        <5>4. StartsWith(From(s, c2 + 1), <<"m", "=">>) <=> StartsWith(Field(s, 3), <<"m", "=">>)
          <6>1. Sep # "=" /\ Sep # "m"
            BY SepIs, Zenon
          <6>2. c2 \in 0 .. Len(s)
            BY <1>7, <3>3, LenProperties
          <6>3. StartsWith(From(s, c2 + 1), <<"m", "=">>) <=> StartsWith(SubSeq(s, c2 + 1, c3 - 1), <<"m", "=">>)
            BY <4>3, <6>1, <6>2, PrefixOfField
          <6> QED
            BY <5>3, <6>3, Zenon
        <5>5. Cardinality(Q3) \in Nat /\ (Cardinality(Q3) = 0 <=> Q3 = {})
          BY <1>8, <5>3, Zenon
        <5>6. Fields(s) = Cardinality(Q3) + 1 + 1 + 1 + 1
          BY <1>3, <2>1, <3>1, <5>1, Zenon
        <5>7. Fields(s) > 3 /\ (Fields(s) > 4 <=> Q3 # {})
          <6> HIDE DEF Q3
          <6> QED
            BY <5>5, <5>6
        <5> HIDE DEF Q2, Q3, c3
        <5>8. CASE ~StartsWith(Field(s, 3), <<"m", "=">>)
          <6>1. NameField(s) = 3
            BY <5>8, Zenon DEF NameField
          <6>2. p = parseBare(From(s, c2 + 1))
            BY <3>5, <3>7, <5>4, <5>8, Zenon
          <6>3. UpToNonce(s) <=> NameIs(s, 3)
            BY <3>7, <5>7, <6>1, Zenon DEF UpToNonce, NameIs
          <6> QED
            BY <4>1, <4>3, <6>1, <6>2, <6>3, Zenon DEF Follows, p
        <5>9. CASE StartsWith(Field(s, 3), <<"m", "=">>)
          <6>1. NameField(s) = 4
            BY <5>9, Zenon DEF NameField
          <6>2. p = parseBare(From(s, c3 + 1))
            BY <3>5, <3>7, <5>2, <5>4, <5>9, Zenon
          <6>3. UpToNonce(s) <=> Q3 # {} /\ NameIs(s, 4)
            BY <3>7, <5>7, <6>1, Zenon DEF UpToNonce, NameIs
          <6>4. LET q == parseBare(From(s, c3 + 1))
                IN  /\ q.ok <=> Q3 # {} /\ NameIs(s, 3 + 1)
                    /\ q.ok => <<"n", "=">> \o Escape(q.user) = Field(s, 3 + 1)
            BY <5>3, BareField, Zenon DEF Q3
          <6> QED
            BY <1>5, <6>1, <6>2, <6>3, <6>4, Zenon DEF Follows, p
        <5> QED
          BY <5>8, <5>9, Zenon
      <4> QED
        BY <4>2, <4>3, Zenon
    <3> QED
      BY <3>6, <3>7, Zenon
  <2> QED
    BY <2>5, <2>6, Zenon
<1> QED
  BY <1>10, <1>11, Zenon

\* A text around one character.
Round(a, c, b) == a \o (<<c>> \o b)

\* Its characters and its two parts.
LEMMA Around ==
    ASSUME NEW C, NEW a \in Seq(C), NEW c \in C, NEW b \in Seq(C)
    PROVE  LET s == Round(a, c, b) IN
           /\ s \in Seq(C) /\ Len(s) = Len(a) + 1 + Len(b)
           /\ \A i \in 1 .. Len(a) : s[i] = a[i]
           /\ s[Len(a) + 1] = c
           /\ \A i \in 1 .. Len(b) : s[Len(a) + 1 + i] = b[i]
           /\ SubSeq(s, 1, Len(a)) = a
           /\ From(s, Len(a) + 2) = b
<1> DEFINE o == <<c>>
           t == o \o b
           s == Round(a, c, b)
<1>0. Len(a) \in Nat /\ Len(b) \in Nat
  BY LenProperties
<1>1. o \in Seq(C) /\ Len(o) = 1 /\ o[1] = c
  OBVIOUS
<1> HIDE DEF o
<1>2. /\ t \in Seq(C) /\ Len(t) = Len(o) + Len(b)
      /\ \A i \in 1 .. Len(o) + Len(b) : t[i] = IF i <= Len(o) THEN o[i] ELSE b[i - Len(o)]
  BY <1>1, ConcatProperties, Zenon
<1> HIDE DEF t
<1>3. Len(t) = 1 + Len(b) /\ t[1] = c
  BY <1>0, <1>1, <1>2
<1>4. ASSUME NEW i \in 1 .. Len(b) PROVE t[1 + i] = b[i]
  BY <1>0, <1>1, <1>2
<1>5. /\ a \o t \in Seq(C) /\ Len(a \o t) = Len(a) + Len(t)
      /\ \A i \in 1 .. Len(a) + Len(t) : (a \o t)[i] = IF i <= Len(a) THEN a[i] ELSE t[i - Len(a)]
  <2>1. t \in Seq(C)
    BY <1>2, Zenon
  <2> QED
    BY <2>1, ConcatProperties, Zenon
<1>6. s = a \o t
  BY Zenon DEF t, o, Round
<1> HIDE DEF s
<1>7. /\ s \in Seq(C) /\ Len(s) = Len(a) + 1 + Len(b)
      /\ \A i \in 1 .. Len(a) + 1 + Len(b) : s[i] = IF i <= Len(a) THEN a[i] ELSE t[i - Len(a)]
  <2>1. Len(a) + Len(t) = Len(a) + 1 + Len(b)
    BY <1>0, <1>3
  <2> QED
    BY <1>5, <1>6, <2>1, Zenon
<1>8. \A i \in 1 .. Len(a) : s[i] = a[i]
  BY <1>0, <1>7
<1>9. s[Len(a) + 1] = c
  <2> DEFINE k == Len(a) + 1
  <2>1. k \in 1 .. Len(a) + 1 + Len(b) /\ ~ (k <= Len(a)) /\ k - Len(a) = 1
    BY <1>0
  <2> HIDE DEF k
  <2>2. s[k] = t[1]
    BY <1>7, <2>1, Zenon
  <2> QED
    BY <1>3, <2>2, Zenon DEF k
<1>10. ASSUME NEW i \in 1 .. Len(b) PROVE s[Len(a) + 1 + i] = b[i]
  <2> DEFINE k == Len(a) + 1 + i
  <2>1. k \in 1 .. Len(a) + 1 + Len(b) /\ ~ (k <= Len(a)) /\ k - Len(a) = 1 + i
    BY <1>0
  <2> HIDE DEF k
  <2>2. s[k] = t[1 + i]
    BY <1>7, <2>1, Zenon
  <2> QED
    BY <1>4, <2>2, Zenon DEF k
<1>11. SubSeq(s, 1, Len(a)) = a
  <2>1. /\ 1 \in 1 .. Len(s) + 1 /\ Len(a) \in 1 - 1 .. Len(s) /\ Len(a) - 1 + 1 = Len(a)
        /\ \A k \in 1 .. Len(a) : 1 + k - 1 = k
    BY <1>0, <1>7
  <2>2. /\ SubSeq(s, 1, Len(a)) \in Seq(C) /\ Len(SubSeq(s, 1, Len(a))) = Len(a) - 1 + 1
        /\ \A k \in 1 .. Len(a) - 1 + 1 : SubSeq(s, 1, Len(a))[k] = s[1 + k - 1]
    BY <1>7, <2>1, PartIs, ZenonT(60)
  <2>3. \A k \in 1 .. Len(a) : SubSeq(s, 1, Len(a))[k] = a[k]
    BY <1>8, <2>1, <2>2, Zenon
  <2>4. Len(SubSeq(s, 1, Len(a))) = Len(a)
    BY <2>1, <2>2, Zenon
  <2> QED
    BY <2>2, <2>3, <2>4, SeqEqual, Zenon
<1>12. From(s, Len(a) + 2) = b
  <2> DEFINE i == Len(a) + 1
  <2>1. i \in 0 .. Len(s) /\ i + 1 = Len(a) + 2 /\ Len(s) - i = Len(b)
    BY <1>0, <1>7
  <2> HIDE DEF i
  <2>2. /\ From(s, i + 1) \in Seq(C) /\ Len(From(s, i + 1)) = Len(s) - i
        /\ \A k \in 1 .. Len(s) - i : From(s, i + 1)[k] = s[i + k]
    BY <1>7, <2>1, FromIs, Zenon
  <2>3. \A k \in 1 .. Len(b) : From(s, i + 1)[k] = b[k]
    BY <1>10, <2>1, <2>2, Zenon DEF i
  <2>4. Len(From(s, i + 1)) = Len(b)
    BY <2>1, <2>2, Zenon
  <2>5. From(s, i + 1) = b
    BY <2>2, <2>3, <2>4, SeqEqual, Zenon
  <2> QED
    BY <2>1, <2>5, Zenon
<1> QED
  BY <1>7, <1>8, <1>9, <1>10, <1>11, <1>12, Zenon DEF s

\* The first of them is the one it is around, when there is none before.
LEMMA FirstAround ==
    ASSUME NEW C, NEW a \in Seq(C), NEW c \in C, NEW b \in Seq(C),
           \A i \in 1 .. Len(a) : a[i] # c
    PROVE  LET s == Round(a, c, b) IN
           /\ Positions(s, c) \in SUBSET Nat /\ Len(a) + 1 \in Positions(s, c)
           /\ Min(Positions(s, c)) = Len(a) + 1
<1> DEFINE s == Round(a, c, b)
<1>0. Len(a) \in Nat /\ Len(b) \in Nat
  BY LenProperties
<1>1. s \in Seq(C) /\ Len(s) = Len(a) + 1 + Len(b) /\ s[Len(a) + 1] = c
  BY Around
<1>2. \A i \in 1 .. Len(a) : s[i] = a[i]
  BY Around, SMTT(20)
<1> HIDE DEF s
<1>3. DOMAIN s = 1 .. Len(a) + 1 + Len(b)
  BY <1>1, LenProperties
<1>4. Positions(s, c) \in SUBSET Nat
  BY <1>0, <1>3 DEF Positions
<1>5. Len(a) + 1 \in Positions(s, c)
  BY <1>0, <1>1, <1>3 DEF Positions
<1>6. ASSUME NEW y \in Positions(s, c) PROVE Len(a) + 1 <= y
  <2>1. y \in 1 .. Len(a) + 1 + Len(b) /\ s[y] = c
    BY <1>3, Zenon DEF Positions
  <2>2. y \notin 1 .. Len(a)
    BY <1>2, <2>1, Zenon
  <2> QED
    BY <1>0, <2>1, <2>2
<1>7. Min(Positions(s, c)) = Len(a) + 1
  BY <1>4, <1>5, <1>6, MinIs, Zenon
<1> QED
  BY <1>4, <1>5, <1>7, Zenon DEF s

\* cutByte cuts there.
LEMMA CutAround ==
    ASSUME NEW C, NEW a \in Seq(C), NEW c \in C, NEW b \in Seq(C),
           \A i \in 1 .. Len(a) : a[i] # c
    PROVE  cutByte(Round(a, c, b), c) = [before |-> a, after |-> b, found |-> TRUE]
<1> DEFINE s == Round(a, c, b)
           i == Min(Positions(s, c))
<1>1. Len(a) + 1 \in Positions(s, c) /\ i = Len(a) + 1
  BY FirstAround, Zenon
<1>2. SubSeq(s, 1, Len(a)) = a /\ From(s, Len(a) + 2) = b
  BY Around
<1> HIDE DEF s
<1>3. (Len(a) + 1) - 1 = Len(a) /\ (Len(a) + 1) + 1 = Len(a) + 2
  BY LenProperties
<1>4. Positions(s, c) # {}
  BY <1>1, Zenon
<1>5. cutByte(s, c) = [before |-> SubSeq(s, 1, i - 1), after |-> From(s, i + 1), found |-> TRUE]
  BY <1>4, Zenon DEF cutByte
<1> HIDE DEF i
<1> QED
  BY <1>1, <1>2, <1>3, <1>5, Zenon DEF s

\* An escape and a text behind it.
LEMMA TripleIs ==
    ASSUME NEW C, NEW p \in C, NEW x \in C, NEW y \in C, NEW w \in Seq(C)
    PROVE  LET v == <<p, x, y>> \o w
           IN  /\ v \in Seq(C) /\ Len(v) > 0 /\ v[1] = p /\ escape(v, 1) = <<x, y>>
               /\ From(v, 4) = w
<1> DEFINE e == <<p, x, y>>
           v == e \o w
<1>0. Len(w) \in Nat
  BY LenProperties
<1>1. e \in Seq(C) /\ Len(e) = 3 /\ e[1] = p /\ e[2] = x /\ e[3] = y
  OBVIOUS
<1> HIDE DEF e
<1>2. /\ v \in Seq(C) /\ Len(v) = Len(e) + Len(w)
      /\ \A i \in 1 .. Len(e) + Len(w) : v[i] = IF i <= Len(e) THEN e[i] ELSE w[i - Len(e)]
  <2>1. e \in Seq(C)
    BY <1>1, Zenon
  <2> QED
    BY <2>1, ConcatProperties, Zenon
<1> HIDE DEF v
<1>3. Len(v) = 3 + Len(w) /\ v[1] = p /\ v[2] = x /\ v[3] = y
  BY <1>0, <1>1, <1>2
<1>4. ASSUME NEW i \in 1 .. Len(w) PROVE v[3 + i] = w[i]
  BY <1>0, <1>1, <1>2
<1>5. From(v, 4) = w
  <2>1. 3 \in 0 .. Len(v) /\ 3 + 1 = 4 /\ Len(v) - 3 = Len(w)
    BY <1>0, <1>3
  <2>2. /\ From(v, 3 + 1) \in Seq(C) /\ Len(From(v, 3 + 1)) = Len(v) - 3
        /\ \A k \in 1 .. Len(v) - 3 : From(v, 3 + 1)[k] = v[3 + k]
    BY <1>2, <2>1, FromIs, Zenon
  <2>3. \A k \in 1 .. Len(From(v, 4)) : From(v, 4)[k] = w[k]
    BY <1>4, <2>1, <2>2, Zenon
  <2>4. From(v, 4) \in Seq(C) /\ Len(From(v, 4)) = Len(w)
    BY <2>1, <2>2, Zenon
  <2> QED
    BY <2>3, <2>4, SeqEqual, Zenon
<1>6. escape(v, 1) = <<x, y>>
  <2>1. 2 \in 1 .. Len(v) + 1 /\ 3 \in 2 - 1 .. Len(v) /\ 3 - 2 + 1 = 2 /\ ~(1 + 2 > Len(v))
    BY <1>0, <1>3
  <2>2. /\ SubSeq(v, 2, 3) \in Seq(C) /\ Len(SubSeq(v, 2, 3)) = 3 - 2 + 1
        /\ \A k \in 1 .. 3 - 2 + 1 : SubSeq(v, 2, 3)[k] = v[2 + k - 1]
    <3>1. v \in Seq(C)
      BY <1>2, Zenon
    <3> QED
      BY <2>1, <3>1, PartIs, ZenonT(60)
  <2>3. SubSeq(v, 2, 3) \in Seq(C) /\ Len(SubSeq(v, 2, 3)) = 2
        /\ SubSeq(v, 2, 3)[1] = v[2] /\ SubSeq(v, 2, 3)[2] = v[3]
    BY <2>2
  <2>4. SubSeq(v, 2, 3) = <<SubSeq(v, 2, 3)[1], SubSeq(v, 2, 3)[2]>>
    BY <2>3, TwoIs, Zenon
  <2>5. SubSeq(v, 2, 3) = <<x, y>>
    BY <1>3, <2>3, <2>4, Zenon
  <2>6. 1 + 1 = 2 /\ 1 + 2 = 3
    OBVIOUS
  <2> QED
    BY <2>1, <2>5, <2>6, Zenon DEF escape
<1>7. Len(v) > 0
  BY <1>0, <1>3
<1> QED
  BY <1>2, <1>3, <1>5, <1>6, <1>7, Zenon DEF v, e

\* decodeSASLname takes off what EscapeChar put on.
LEMMA EscapedHead ==
    ASSUME NEW C, Letters \subseteq C, Sep \in C, NEW c \in C, NEW w \in Seq(C)
    PROVE  decodeSASLname(EscapeChar(c) \o w) = Then(c, decodeSASLname(w))
<1>0. Sep # "="
  BY SepIs, Zenon
<1>1. CASE c # Sep /\ c # "="
  <2> DEFINE v == <<c>> \o w
  <2>1. v \in Seq(C) /\ Len(v) > 0 /\ v[1] = c /\ From(v, 2) = w
    BY ConsIs, Zenon
  <2>2. EscapeChar(c) \o w = v
    BY <1>1, EscIs, Zenon
  <2> HIDE DEF v
  <2>3. decodeSASLname(v) = Then(v[1], decodeSASLname(From(v, 2)))
    BY <1>1, <2>1, DecodeHead, Zenon
  <2> QED
    BY <2>1, <2>2, <2>3, Zenon
<1>2. ASSUME NEW x \in C, NEW y \in C
      PROVE  LET v == <<"=", x, y>> \o w
             IN  /\ v \in Seq(C) /\ Len(v) > 0 /\ v[1] = "=" /\ escape(v, 1) = <<x, y>>
                 /\ From(v, 4) = w
  <2>1. "=" \in C
    BY Zenon DEF Letters
  <2> QED
    BY <2>1, TripleIs, SMTT(20)
<1>3. CASE c = Sep
  <2> DEFINE v == <<"=", "2", "C">> \o w
  <2>1. "2" \in C /\ "C" \in C
    BY Zenon DEF Letters
  <2>2. v \in Seq(C) /\ Len(v) > 0 /\ v[1] = "=" /\ escape(v, 1) = <<"2", "C">> /\ From(v, 4) = w
    BY <1>2, <2>1, Zenon
  <2>3. EscapeChar(c) \o w = v
    BY <1>3, EscIs, Zenon
  <2> HIDE DEF v
  <2>4. decodeSASLname(v) = Then(Sep, decodeSASLname(From(v, 4)))
    BY <1>0, <2>2, DecodeHead, Zenon
  <2> QED
    BY <1>3, <2>2, <2>3, <2>4, Zenon
<1>4. CASE c = "="
  <2> DEFINE v == <<"=", "3", "D">> \o w
  <2>1. "3" \in C /\ "D" \in C
    BY Zenon DEF Letters
  <2>2. v \in Seq(C) /\ Len(v) > 0 /\ v[1] = "=" /\ escape(v, 1) = <<"3", "D">> /\ From(v, 4) = w
    BY <1>2, <2>1, Zenon
  <2>3. EscapeChar(c) \o w = v
    BY <1>4, EscIs, Zenon
  <2> HIDE DEF v
  <2>4. decodeSASLname(v) = Then("=", decodeSASLname(From(v, 4)))
    BY <1>0, <2>2, EscapesDiffer, DecodeHead, Zenon
  <2> QED
    BY <1>4, <2>2, <2>3, <2>4, Zenon
<1> QED
  BY <1>1, <1>3, <1>4, Zenon

\* Every name survives the escaping of the client and the decoding of the proxy.
LEMMA DecodeEscape ==
    ASSUME NEW C, Letters \subseteq C, Sep \in C, NEW name \in Seq(C)
    PROVE  decodeSASLname(Escape(name)) = User(name)
<1> DEFINE Back(u) == decodeSASLname(Escape(u)) = User(u)
           T == {n \in Nat : \A u \in Seq(C) : Len(u) = n => Back(u)}
<1>1. ASSUME NEW n \in Nat, \A m \in Nat : m < n => m \in T
      PROVE  n \in T
  <2>1. SUFFICES ASSUME NEW u \in Seq(C), Len(u) = n PROVE Back(u)
    BY Zenon
  <2>2. CASE n = 0
    <3>1. u = << >>
      BY <2>1, <2>2, EmptySeq
    <3>2. << >> \in Seq(C) /\ Len(<< >>) = 0
      OBVIOUS
    <3>3. decodeSASLname(<< >>) = User(<< >>)
      BY <3>2, DecodeHead, Zenon
    <3> QED
      BY <3>1, <3>3, EscapeEmpty, Zenon
  <2>3. CASE n # 0
    <3> DEFINE v == From(u, 2)
    <3>1. Len(u) > 0
      BY <2>1, <2>3
    <3>2. u[1] \in C /\ v \in Seq(C) /\ Len(v) = Len(u) - 1 /\ u = <<u[1]>> \o v
      BY <3>1, HeadRest, Zenon
    <3>3. Len(v) \in Nat /\ Len(v) < n
      BY <2>1, <2>3, <3>2
    <3>4. Escape(u) = EscapeChar(u[1]) \o Escape(v)
      BY <3>1, EscapeHead, Zenon
    <3> HIDE DEF v
    <3>5. Escape(v) \in Seq(C)
      BY <3>2, EscapeHead, Zenon
    <3>6. decodeSASLname(Escape(v)) = User(v)
      BY <1>1, <3>2, <3>3, Zenon
    <3>7. decodeSASLname(EscapeChar(u[1]) \o Escape(v)) = Then(u[1], decodeSASLname(Escape(v)))
      BY <3>2, <3>5, EscapedHead, Zenon
    <3>8. Then(u[1], User(v)) = User(<<u[1]>> \o v)
      BY Results, Zenon DEF Then
    <3> QED
      BY <3>2, <3>4, <3>6, <3>7, <3>8, Zenon
  <2> QED
    BY <2>2, <2>3, Zenon
<1>2. Nat \subseteq T
  <2> HIDE DEF T
  <2> QED
    BY <1>1, NatSetInduction, Zenon
<1>3. Len(name) \in Nat
  BY LenProperties
<1> QED
  BY <1>2, <1>3, Zenon

\* What a client writes for a name has no comma, and something in it.
LEMMA EscapeWritten ==
    ASSUME NEW C, Letters \subseteq C, Sep \in C, NEW name \in Seq(C), name # << >>
    PROVE  LET e == Escape(name)
           IN  /\ e \in Seq(C) /\ e # << >> /\ decodeSASLname(e) = User(name)
               /\ \A i \in 1 .. Len(e) : e[i] # Sep
<1> DEFINE e == Escape(name)
<1>1. e \in Seq(C)
  BY EscapeHead, Zenon
<1>2. decodeSASLname(e) = User(name)
  BY DecodeEscape, Zenon
<1> HIDE DEF e
<1>3. e # << >>
  <2>1. SUFFICES ASSUME e = << >> PROVE FALSE
    BY Zenon
  <2>2. << >> \in Seq(C) /\ Len(<< >>) = 0
    OBVIOUS
  <2>3. decodeSASLname(<< >>) = User(<< >>)
    BY <2>2, DecodeHead, Zenon
  <2>4. User(<< >>).user = << >> /\ User(name).user = name
    BY Results, Zenon
  <2> QED
    BY <1>2, <2>1, <2>3, <2>4, Zenon
<1>4. Decoded(C, e)
  BY <1>1, DecodeIs, Zenon
<1>5. User(name).ok
  BY Results, Zenon
<1>6. WellEscaped(e)
  BY <1>2, <1>4, <1>5, Zenon DEF Decoded
<1>7. DOMAIN e = 1 .. Len(e)
  BY <1>1, LenProperties
<1>8. \A i \in 1 .. Len(e) : e[i] # Sep
  BY <1>6, <1>7, Zenon DEF WellEscaped, Positions, Sep
<1> QED
  BY <1>1, <1>2, <1>3, <1>8, Zenon DEF e

\* The characters a message of a client is written in.
Written(C) == Letters \cup {Sep, "n", "m", "r", "x", "0"} \subseteq C

\* Texts can be grouped either way.
Either(p, q, r) == (p \o q) \o r = p \o (q \o r)

\* Either holds of all texts.
LEMMA EitherIs ==
    ASSUME NEW C, NEW p \in Seq(C), NEW q \in Seq(C), NEW r \in Seq(C)
    PROVE  Either(p, q, r)
BY ConcatAssociative DEF Either

\* Texts put together from the left and from the right.
Grouped(C, a, b, c, d, e) ==
    /\ a \o b \o c \o d \o e = a \o (b \o (c \o (d \o e)))
    /\ c \o (d \o e) \in Seq(C) /\ b \o (c \o (d \o e)) \in Seq(C)

\* Grouped holds of all texts.
LEMMA Regroup ==
    ASSUME NEW C, NEW a \in Seq(C), NEW b \in Seq(C), NEW c \in Seq(C), NEW d \in Seq(C),
           NEW e \in Seq(C)
    PROVE  Grouped(C, a, b, c, d, e)
<1>1. ASSUME NEW p \in Seq(C), NEW q \in Seq(C), NEW r \in Seq(C)
      PROVE  Either(p, q, r) /\ p \o q \in Seq(C)
  BY EitherIs, ConcatProperties, Zenon
<1> DEFINE ab == a \o b
           abc == ab \o c
           de == d \o e
           cde == c \o de
<1>2. ab \in Seq(C) /\ de \in Seq(C)
  BY <1>1, Zenon
<1> HIDE DEF ab, de
<1>3. abc \in Seq(C) /\ cde \in Seq(C)
  BY <1>1, <1>2, Zenon
<1> HIDE DEF abc, cde
<1>4. Either(abc, d, e)
  BY <1>1, <1>3, Zenon
<1>5. Either(ab, c, de)
  BY <1>1, <1>2, Zenon
<1>6. Either(a, b, cde) /\ b \o cde \in Seq(C)
  BY <1>1, <1>3, Zenon
<1>7. abc \o de = ab \o cde
  BY <1>5, Zenon DEF abc, cde, Either
<1>8. ab \o cde = a \o (b \o cde)
  BY <1>6, Zenon DEF ab, Either
<1>9. (abc \o d) \o e = a \o (b \o cde)
  BY <1>4, <1>7, <1>8, Zenon DEF de, Either
<1>10. a \o b \o c \o d \o e = a \o (b \o (c \o (d \o e)))
  BY <1>9, Zenon DEF abc, ab, cde, de
<1> QED
  BY <1>3, <1>6, <1>10, Zenon DEF cde, de, Grouped

\* A client-first-message, from its end.
LEMMA ClientFirstIs ==
    ASSUME NEW C, Written(C), NEW z \in Seq(C), NEW name \in Seq(C)
    PROVE  LET tail == Round(Escape(name), Sep, <<"r", "=", "x">>)
           IN  ClientFirstOf(z, name) = Round(<<"n">>, Sep, Round(z, Sep, <<"n", "=">> \o tail))
<1> DEFINE e == Escape(name)
           S == <<Sep>>
           n1 == <<"n">>
           ne == <<"n", "=">>
           rx == <<"r", "=", "x">>
           ns == <<"n", Sep>>
           sne == <<Sep, "n", "=">>
           srx == <<Sep, "r", "=", "x">>
<1>0. Letters \subseteq C /\ Sep \in C /\ "n" \in C /\ "r" \in C /\ "x" \in C /\ "=" \in C
  BY Zenon DEF Written, Letters
<1>1. e \in Seq(C)
  BY <1>0, EscapeHead, Zenon
<1>2. /\ S \in Seq(C) /\ n1 \in Seq(C) /\ ne \in Seq(C) /\ rx \in Seq(C)
      /\ ns \in Seq(C) /\ sne \in Seq(C) /\ srx \in Seq(C)
  BY <1>0
<1>3. ns = n1 \o S /\ sne = S \o ne /\ srx = S \o rx
  OBVIOUS
<1>4. ClientFirstOf(z, name) = ns \o z \o sne \o e \o srx
  BY Zenon DEF ClientFirstOf, Sep
<1> HIDE DEF e, S, n1, ne, rx, ns, sne, srx
<1>5. ns \o z \o sne \o e \o srx = ns \o (z \o (sne \o (e \o srx)))
      /\ z \o (sne \o (e \o srx)) \in Seq(C)
  <2>1. Grouped(C, ns, z, sne, e, srx)
    BY <1>1, <1>2, Regroup, Zenon
  <2> QED
    BY <2>1, Zenon DEF Grouped
<1>6. e \o srx \in Seq(C)
  BY <1>1, <1>2, ConcatProperties, Zenon
<1> DEFINE t == e \o srx
           w == sne \o t
           y == z \o w
<1>7. t \in Seq(C) /\ y \in Seq(C) /\ ClientFirstOf(z, name) = ns \o y
  BY <1>4, <1>5, <1>6, Zenon
<1>8. Either(n1, S, y)
  <2> HIDE DEF y
  <2> QED
    BY <1>2, <1>7, EitherIs, Zenon
<1>9. ns \o y = n1 \o (S \o y)
  BY <1>3, <1>8, Zenon DEF Either
<1>10. w = S \o (ne \o t)
  <2> HIDE DEF t
  <2>1. Either(S, ne, t)
    BY <1>2, <1>7, EitherIs, Zenon
  <2> QED
    BY <1>3, <2>1, Zenon DEF Either
<1>11. t = Round(e, Sep, rx)
  BY <1>3, Zenon DEF Round, S
<1> HIDE DEF t, w
<1>12. z \o w = Round(z, Sep, ne \o t)
  BY <1>10, Zenon DEF Round, S
<1>13. n1 \o (S \o y) = Round(n1, Sep, Round(z, Sep, ne \o t))
  BY <1>12, Zenon DEF Round, S
<1>14. ClientFirstOf(z, name) = Round(n1, Sep, Round(z, Sep, ne \o t))
  BY <1>7, <1>9, <1>13, Zenon
<1> QED
  BY <1>11, <1>14, Zenon DEF e, n1, ne, rx

\* Whatever the authzid, the name of a client-first-message is the name the
\* client wrote into it.
LEMMA ScramName ==
    ASSUME NEW C, Written(C), NEW z \in Seq(C), NEW name \in Seq(C), name # << >>,
           \A i \in 1 .. Len(z) : z[i] # Sep
    PROVE  ParseSCRAMClientFirstUsername(ClientFirstOf(z, name)) = User(name)
<1> DEFINE e == Escape(name)
           n1 == <<"n">>
           ne == <<"n", "=">>
           rx == <<"r", "=", "x">>
           t == Round(e, Sep, rx)
           bare == ne \o t
           w == Round(z, Sep, bare)
           s == Round(n1, Sep, w)
<1>0. /\ Letters \subseteq C /\ Sep \in C
      /\ "n" \in C /\ "r" \in C /\ "x" \in C /\ "=" \in C
  BY Zenon DEF Written, Letters
<1>1. Sep # "n" /\ "n" # "m"
  BY SepIs
<1>2. s = ClientFirstOf(z, name)
  BY ClientFirstIs, Zenon
<1>3. n1 \in Seq(C) /\ ne \in Seq(C) /\ rx \in Seq(C) /\ Len(n1) = 1 /\ n1[1] = "n"
      /\ Len(ne) = 2 /\ ne[1] = "n" /\ ne[2] = "="
  BY <1>0
<1>4. e \in Seq(C) /\ e # << >> /\ decodeSASLname(e) = User(name)
      /\ \A i \in 1 .. Len(e) : e[i] # Sep
  BY <1>0, EscapeWritten, Zenon
<1> HIDE DEF e, rx, n1
<1>5. t \in Seq(C)
  BY <1>0, <1>3, <1>4, Around
<1>6. cutByte(t, Sep) = [before |-> e, after |-> rx, found |-> TRUE]
  BY <1>0, <1>3, <1>4, CutAround
<1> HIDE DEF t
<1>7. bare \in Seq(C) /\ Len(bare) >= 2 /\ bare[1] = "n" /\ bare[2] = "=" /\ From(bare, 3) = t
  <2> HIDE DEF ne
  <2>1. /\ bare \in Seq(C) /\ Len(bare) = Len(ne) + Len(t)
        /\ \A i \in 1 .. Len(ne) + Len(t) : bare[i] = IF i <= Len(ne) THEN ne[i] ELSE t[i - Len(ne)]
    <3>1. ne \in Seq(C)
      BY <1>3, Zenon
    <3> QED
      BY <1>5, <3>1, ConcatProperties, Zenon
  <2> HIDE DEF bare
  <2>2. Len(t) \in Nat
    BY <1>5, LenProperties
  <2>3. Len(bare) = 2 + Len(t) /\ bare[1] = "n" /\ bare[2] = "="
    BY <1>3, <2>1, <2>2
  <2>4. ASSUME NEW i \in 1 .. Len(t) PROVE bare[2 + i] = t[i]
    BY <1>3, <2>1, <2>2
  <2>5. From(bare, 3) = t
    <3>1. 2 \in 0 .. Len(bare) /\ 2 + 1 = 3 /\ Len(bare) - 2 = Len(t)
      BY <2>2, <2>3
    <3>2. /\ From(bare, 2 + 1) \in Seq(C) /\ Len(From(bare, 2 + 1)) = Len(bare) - 2
          /\ \A k \in 1 .. Len(bare) - 2 : From(bare, 2 + 1)[k] = bare[2 + k]
      BY <2>1, <3>1, FromIs, Zenon
    <3>3. \A k \in 1 .. Len(From(bare, 3)) : From(bare, 3)[k] = t[k]
      BY <2>4, <3>1, <3>2, Zenon
    <3>4. From(bare, 3) \in Seq(C) /\ Len(From(bare, 3)) = Len(t)
      BY <3>1, <3>2, Zenon
    <3> QED
      BY <1>5, <3>3, <3>4, SeqEqual, Zenon
  <2>6. Len(bare) >= 2
    BY <2>2, <2>3
  <2> QED
    BY <2>1, <2>3, <2>5, <2>6, Zenon
<1> HIDE DEF bare
<1>8. StartsWith(bare, <<"n", "=">>) /\ ~StartsWith(bare, <<"m", "=">>)
  BY <1>1, <1>7, PrefixTwo, Zenon
<1>9. w \in Seq(C)
  BY <1>0, <1>7, Around
<1>10. cutByte(w, Sep) = [before |-> z, after |-> bare, found |-> TRUE]
  BY <1>0, <1>7, CutAround
<1> HIDE DEF w
<1>11. \A i \in 1 .. Len(n1) : n1[i] # Sep
  BY <1>1, <1>3
<1>12. cutByte(s, Sep) = [before |-> n1, after |-> w, found |-> TRUE]
  <2>1. n1 \in Seq(C)
    BY <1>3, Zenon
  <2> QED
    BY <1>0, <1>9, <1>11, <2>1, CutAround
<1> HIDE DEF s
<1>13. cutByte(s, Sep).found /\ cutByte(s, Sep).before = n1 /\ cutByte(s, Sep).after = w
  BY <1>12, Found, Zenon
<1>14. cutByte(w, Sep).found /\ cutByte(w, Sep).after = bare
  BY <1>10, Found, Zenon
<1>15. cutByte(t, Sep).found /\ cutByte(t, Sep).before = e
  BY <1>6, Found, Zenon
<1>16. ParseSCRAMClientFirstUsername(s) = parseBare(bare)
  BY <1>8, <1>13, <1>14, ParseDef, Zenon DEF n1
<1>17. parseBare(bare) = decodeSASLname(e)
  <2>1. cutByte(From(bare, 3), Sep) = cutByte(t, Sep)
    BY <1>7, Zenon
  <2> QED
    BY <1>4, <1>8, <1>15, <2>1, Zenon DEF parseBare, Sep
<1> QED
  BY <1>2, <1>4, <1>16, <1>17, Zenon

\* Whatever the authzid and the password, the user of a PLAIN payload is the
\* name the client wrote into it.
LEMMA PlainName ==
    ASSUME NEW C, "0" \in C, NEW z \in Seq(C), NEW name \in Seq(C), NEW pw \in Seq(C),
           \A i \in 1 .. Len(z) : z[i] # "0",
           \A i \in 1 .. Len(name) : name[i] # "0"
    PROVE  ParsePlain(PlainOf(z, name, pw)) = User(name)
<1> DEFINE t == Round(name, "0", pw)
           s == Round(z, "0", t)
           N == Positions(s, "0")
           a == Len(z) + 1
           b == a + Len(name) + 1
<1>0. Len(z) \in Nat /\ Len(name) \in Nat /\ Len(pw) \in Nat
  BY LenProperties
<1>1. s = PlainOf(z, name, pw)
  <2> DEFINE o == <<"0">>
  <2>1. o \in Seq(C)
    OBVIOUS
  <2> HIDE DEF o
  <2>2. Grouped(C, z, o, name, o, pw)
    BY <2>1, Regroup, Zenon
  <2> QED
    BY <2>2, Zenon DEF Grouped, PlainOf, Round, o
<1>2. /\ t \in Seq(C) /\ Len(t) = Len(name) + 1 + Len(pw)
      /\ \A i \in 1 .. Len(name) : t[i] = name[i]
      /\ t[Len(name) + 1] = "0"
  <2>1. t \in Seq(C) /\ Len(t) = Len(name) + 1 + Len(pw) /\ t[Len(name) + 1] = "0"
    BY Around
  <2>2. \A i \in 1 .. Len(name) : t[i] = name[i]
    BY Around
  <2> QED
    BY <2>1, <2>2, Zenon
<1> HIDE DEF t
<1>3. t \in Seq(C)
  BY <1>2, Zenon
<1>4. /\ s \in Seq(C) /\ Len(s) = Len(z) + 1 + Len(t)
      /\ \A i \in 1 .. Len(t) : s[Len(z) + 1 + i] = t[i]
  BY <1>3, Around
<1>5. N \in SUBSET Nat /\ a \in N /\ Min(N) = a
  BY <1>3, FirstAround
<1> HIDE DEF s
<1>6. DOMAIN s = 1 .. Len(s)
  BY <1>4, LenProperties
<1>7. b \in N
  <2>1. Len(name) + 1 \in 1 .. Len(t) /\ b = Len(z) + 1 + (Len(name) + 1) /\ b \in 1 .. Len(s)
    BY <1>0, <1>2, <1>4
  <2> HIDE DEF a, b
  <2>2. s[b] = "0"
    BY <1>2, <1>4, <2>1, Zenon
  <2> QED
    BY <1>6, <2>1, <2>2, Zenon DEF Positions
<1>8. ASSUME NEW y \in N \ {a} PROVE b <= y
  <2>1. y \in 1 .. Len(s) /\ s[y] = "0" /\ y \in Nat
    BY <1>5, <1>6, Zenon DEF Positions
  <2> DEFINE i == y - a
  <2>2. a <= y
    <3> HIDE DEF N, a
    <3> QED
      BY <1>5, FirstOf
  <2>3. y \in Nat /\ y # a
    BY <2>1, Zenon
  <2>4. i \in 1 .. Len(t) /\ y = Len(z) + 1 + i
    BY <1>0, <1>2, <1>4, <2>1, <2>2, <2>3
  <2> HIDE DEF i
  <2>5. t[i] = "0"
    BY <1>4, <2>1, <2>4, Zenon
  <2>6. i \notin 1 .. Len(name)
    BY <1>2, <2>5, Zenon
  <2> QED
    BY <1>0, <2>4, <2>6
<1>9. b # a
  BY <1>0
<1> HIDE DEF N
<1>10. Min(N \ {a}) = b
  <2>1. b \in N \ {a} /\ N \ {a} \in SUBSET Nat
    BY <1>5, <1>7, <1>9, Zenon
  <2> HIDE DEF a, b
  <2> QED
    BY <1>8, <2>1, MinIs, Zenon
<1>11. ~(Cardinality(N) < 2)
  <2>1. IsFiniteSet(N)
    <3>1. IsFiniteSet(1 .. Len(s))
      BY SMTT(20), <1>4, LenProperties, FS_Interval
    <3>2. N \subseteq 1 .. Len(s)
      BY <1>6, Zenon DEF N, Positions
    <3> QED
      BY <3>1, <3>2, FS_Subset, Zenon
  <2>2. {a, b} \subseteq N
    BY <1>5, <1>7, Zenon
  <2> HIDE DEF a, b
  <2>3. IsFiniteSet({a, b}) /\ Cardinality({a, b}) <= Cardinality(N)
    BY <2>1, <2>2, FS_Subset, Zenon
  <2>4. Cardinality({a, b}) = 2
    <3>1. IsFiniteSet({a}) /\ Cardinality({a}) = 1
      BY FS_Singleton, Zenon
    <3>2. b \notin {a} /\ {a} \cup {b} = {a, b}
      BY <1>9, Zenon
    <3>3. Cardinality({a} \cup {b}) = Cardinality({a}) + 1
      BY <3>1, <3>2, FS_AddElement, Zenon
    <3>4. 1 + 1 = 2
      OBVIOUS
    <3> QED
      BY <3>1, <3>2, <3>3, <3>4, Zenon
  <2>5. Cardinality(N) \in Nat
    BY <2>1, FS_CardinalityType, Zenon
  <2> QED
    BY <2>3, <2>4, <2>5
<1>12. ParsePlain(s) = User(SubSeq(s, a + 1, b - 1))
  <2> HIDE DEF a, b
  <2> QED
    BY <1>5, <1>10, <1>11, Zenon DEF ParsePlain, N
<1>13. SubSeq(s, a + 1, b - 1) = name
  <2>1. /\ a + 1 \in 1 .. Len(s) + 1 /\ b - 1 \in (a + 1) - 1 .. Len(s)
        /\ (b - 1) - (a + 1) + 1 = Len(name)
        /\ \A k \in 1 .. Len(name) : (a + 1) + k - 1 = Len(z) + 1 + k /\ k \in 1 .. Len(t)
    BY <1>0, <1>2, <1>4
  <2> DEFINE i == a + 1
             j == b - 1
             v == SubSeq(s, i, j)
  <2> HIDE DEF i, j
  <2>2. /\ v \in Seq(C) /\ Len(v) = j - i + 1
        /\ \A k \in 1 .. j - i + 1 : v[k] = s[i + k - 1]
    <3>1. s \in Seq(C) /\ i \in 1 .. Len(s) + 1 /\ j \in i - 1 .. Len(s)
      BY <1>4, <2>1, Zenon DEF i, j
    <3> QED
      BY <3>1, PartIs, Zenon
  <2> HIDE DEF v
  <2>3. \A k \in 1 .. Len(name) : v[k] = s[i + k - 1] /\ i + k - 1 = Len(z) + 1 + k /\ k \in 1 .. Len(t)
    BY <2>1, <2>2, Zenon DEF i, j
  <2>4. \A k \in 1 .. Len(name) : v[k] = name[k]
    BY <1>2, <1>4, <2>3, Zenon
  <2>5. v \in Seq(C) /\ Len(v) = Len(name)
    BY <2>1, <2>2, Zenon DEF i, j
  <2>6. v = name
    BY <2>4, <2>5, SeqEqual, Zenon
  <2> QED
    BY <2>6, Zenon DEF v, i, j
<1> QED
  BY <1>1, <1>12, <1>13, Zenon

\* The text is a sequence of characters, and a name has no NUL.
TextInv ==
    /\ form \in Form /\ text \in Seq(STRING)
    /\ form.kind = "user" => \A i \in 1 .. Len(text) : text[i] # "0"

\* The characters of a text and of the messages.
Chars == STRING \cup Letters \cup {Sep, "n", "m", "r", "x", "0"}

\* TextInv holds of every text that is spelled out.
THEOREM TextInvariant == ParserSpec => []TextInv
<1>1. ParserInit => TextInv
  <2>1. SUFFICES ASSUME ParserInit PROVE TextInv
    BY Zenon
  <2>2. form \in Form /\ text = form.start
    BY <2>1, Zenon DEF ParserInit
  <2>3. text \in Seq(STRING) /\ (form.kind = "user" => "0" \notin Range(text))
    BY <2>2, FormAssumption, Zenon
  <2>4. DOMAIN text = 1 .. Len(text)
    BY <2>3, LenProperties
  <2>5. form.kind = "user" => \A i \in 1 .. Len(text) : text[i] # "0"
    BY <2>3, <2>4, Zenon DEF Range
  <2> QED
    BY <2>2, <2>3, <2>5, Zenon DEF TextInv
<1>2. TextInv /\ [ParserNext]_parserVars => TextInv'
  <2>1. SUFFICES ASSUME TextInv, [ParserNext]_parserVars PROVE TextInv'
    BY Zenon
  <2>2. CASE Spell
    <3>1. PICK c \in form.chars : text' = Append(text, c)
      BY <2>2, Zenon DEF Spell
    <3>2. form \in Form /\ text \in Seq(STRING) /\ form' = form
      BY <2>1, <2>2, Zenon DEF TextInv, Spell
    <3>3. c \in STRING /\ (form.kind = "user" => c # "0")
      BY <3>1, <3>2, FormAssumption, Zenon
    <3>4. /\ text' \in Seq(STRING) /\ Len(text') = Len(text) + 1 /\ text'[Len(text) + 1] = c
          /\ \A i \in 1 .. Len(text) : text'[i] = text[i]
      BY <3>1, <3>2, <3>3, AppendProperties
    <3>5. \A i \in 1 .. Len(text) + 1 : i \in 1 .. Len(text) \/ i = Len(text) + 1
      BY <3>2, LenProperties
    <3>6. form.kind = "user" => \A i \in 1 .. Len(text') : text'[i] # "0"
      BY <2>1, <3>3, <3>4, <3>5, Zenon DEF TextInv
    <3> QED
      BY <3>2, <3>4, <3>6, Zenon DEF TextInv
  <2>3. CASE UNCHANGED parserVars
    BY <2>1, <2>3 DEF TextInv, parserVars
  <2> QED
    BY <2>1, <2>2, <2>3, Zenon DEF ParserNext, Finished
<1> QED
  BY <1>1, <1>2, PTL DEF ParserSpec

\* A text is written in Chars.
LEMMA InChars ==
    /\ Written(Chars) /\ Letters \subseteq Chars /\ Sep \in Chars
    /\ "0" \in Chars /\ "x" \in Chars
    /\ \A s \in Seq(STRING) : s \in Seq(Chars)
<1>1. Written(Chars) /\ Letters \subseteq Chars /\ Sep \in Chars /\ "0" \in Chars /\ "x" \in Chars
  BY Zenon DEF Written, Chars
<1>2. STRING \subseteq Chars
  BY Zenon DEF Chars
<1>3. Seq(STRING) \subseteq Seq(Chars)
  BY <1>2, SeqMonotonic, Zenon
<1> QED
  BY <1>1, <1>3, Zenon

\* For every payload of every length: ParseSCRAMClientFirstUsername accepts the
\* client-first-messages of the grammar and nothing else, and returns the name
\* whose escaped form the message contains.
THEOREM ScramIsParsed == ParserSpec => []ScramReadsTheName
<1>1. TextInv => ScramReadsTheName
  <2>1. SUFFICES ASSUME TextInv PROVE ScramReadsTheName
    BY Zenon
  <2>2. text \in Seq(Chars)
    BY <2>1, InChars, Zenon DEF TextInv
  <2>3. Follows(text)
    BY <2>2, InChars, ScramIs, Zenon
  <2> QED
    BY <2>3, Zenon DEF ScramReadsTheName, Follows
<1> QED
  BY <1>1, TextInvariant, PTL

\* For every name without a NUL, every authzid without a comma and a NUL, and
\* every password: the name a client sends by PLAIN, and the same name as a
\* SCRAM client escapes it, are both read as that name.
THEOREM NameSurvives ==
    ASSUME NEW C, Written(C), NEW authzid \in Seq(C), NEW name \in Seq(C), name # << >>,
           NEW password \in Seq(C),
           \A i \in 1 .. Len(authzid) : authzid[i] # Sep /\ authzid[i] # "0",
           \A i \in 1 .. Len(name) : name[i] # "0"
    PROVE  /\ ParseSCRAMClientFirstUsername(ClientFirstOf(authzid, name)) = User(name)
           /\ ParsePlain(PlainOf(authzid, name, password)) = User(name)
<1>1. /\ \A i \in 1 .. Len(authzid) : authzid[i] # Sep
      /\ \A i \in 1 .. Len(authzid) : authzid[i] # "0"
      /\ "0" \in C
  BY Zenon DEF Written
<1>2. ParseSCRAMClientFirstUsername(ClientFirstOf(authzid, name)) = User(name)
  BY <1>1, ScramName
<1>3. ParsePlain(PlainOf(authzid, name, password)) = User(name)
  BY <1>1, PlainName
<1> QED
  BY <1>2, <1>3, Zenon

\* For every name of every length: the two mechanisms read the same user.
THEOREM SameUser == ParserSpec => []SameUserOnBothMechanisms
<1>1. TextInv => SameUserOnBothMechanisms
  <2>1. SUFFICES ASSUME TextInv, form.kind = "user", text # << >>,
                        NEW authzid \in {<< >>, <<"x">>},
                        NEW password \in {<< >>, <<"x">>, <<"0", "x">>}
                 PROVE  /\ ParseSCRAMClientFirstUsername(ClientFirstOf(authzid, text)) = User(text)
                        /\ ParsePlain(PlainOf(authzid, text, password)) = User(text)
    BY Zenon DEF SameUserOnBothMechanisms
  <2>2. text \in Seq(Chars) /\ \A i \in 1 .. Len(text) : text[i] # "0"
    BY <2>1, InChars, Zenon DEF TextInv
  <2>3. authzid \in Seq(Chars) /\ password \in Seq(Chars)
    <3>1. "x" \in Chars /\ "0" \in Chars
      BY InChars, Zenon
    <3>2. << >> \in Seq(Chars) /\ <<"x">> \in Seq(Chars) /\ <<"0", "x">> \in Seq(Chars)
      BY <3>1
    <3> QED
      BY <2>1, <3>2, Zenon
  <2>4. \A i \in 1 .. Len(authzid) : authzid[i] = "x"
    BY <2>1
  <2>5. "x" # Sep /\ "x" # "0"
    BY SepIs
  <2>6. \A i \in 1 .. Len(authzid) : authzid[i] # Sep /\ authzid[i] # "0"
    BY <2>4, <2>5, Zenon
  <2>7. Written(Chars)
    BY InChars, Zenon
  <2> QED
    BY <2>1, <2>2, <2>3, <2>6, <2>7, NameSurvives
<1> QED
  BY <1>1, TextInvariant, PTL

\* A sequence splits at two of its positions.
LEMMA SplitAt ==
    ASSUME NEW C, NEW s \in Seq(C), NEW a \in 1 .. Len(s), NEW b \in a + 1 .. Len(s)
    PROVE  s = SubSeq(s, 1, a - 1) \o <<s[a]>> \o SubSeq(s, a + 1, b - 1) \o <<s[b]>>
               \o SubSeq(s, b + 1, Len(s))
<1>1. Len(s) \in Nat /\ a \in Nat /\ b \in Nat /\ 1 <= a /\ a < b /\ b <= Len(s)
  OBVIOUS
<1>2. ASSUME NEW i \in 1 .. Len(s) PROVE SubSeq(s, i, i) = <<s[i]>>
  <2>1. SubSeq(s, i, i) = <<s[i]>> \o SubSeq(s, i + 1, i)
    BY <1>1, SubSeqRecursiveFirst
  <2>2. SubSeq(s, i + 1, i) = << >>
    BY <1>1, SubSeqEmpty
  <2>3. <<s[i]>> \in Seq(C)
    BY ElementOfSeq
  <2> QED
    BY <2>1, <2>2, <2>3, ConcatEmptySeq, ZenonT(60)
<1>3. SubSeq(s, 1, a - 1) \o SubSeq(s, a, a) = SubSeq(s, 1, a)
  BY ConcatAdjacentSubSeq
<1>4. SubSeq(s, 1, a) \o SubSeq(s, a + 1, b - 1) = SubSeq(s, 1, b - 1)
  BY ConcatAdjacentSubSeq
<1>5. SubSeq(s, 1, b - 1) \o SubSeq(s, b, b) = SubSeq(s, 1, b)
  BY ConcatAdjacentSubSeq
<1>6. SubSeq(s, 1, b) \o SubSeq(s, b + 1, Len(s)) = SubSeq(s, 1, Len(s))
  <2>1. 1 \in 1 .. Len(s) + 1 /\ b \in 1 - 1 .. Len(s) /\ Len(s) \in b .. Len(s)
    BY <1>1
  <2> QED
    BY <2>1, ConcatAdjacentSubSeq, ZenonT(60)
<1>7. SubSeq(s, 1, Len(s)) = s
  BY SubSeqFull
<1>8. b \in 1 .. Len(s)
  BY <1>1, SMTT(30)
<1> QED
  BY <1>2, <1>3, <1>4, <1>5, <1>6, <1>7, <1>8, ZenonT(60)

\* A payload with two NULs: the user is what is between the first two.
LEMMA PlainAccepted ==
    ASSUME NEW s \in Seq(STRING), ~(Cardinality(Positions(s, "0")) < 2)
    PROVE  \E a \in 1 .. Len(s) : \E b \in a + 1 .. Len(s) :
               /\ s[a] = "0" /\ s[b] = "0"
               /\ \A i \in 1 .. b - 1 : i # a => s[i] # "0"
               /\ ParsePlain(s) = User(SubSeq(s, a + 1, b - 1))
<1> DEFINE N == Positions(s, "0")
           a == Min(N)
           b == Min(N \ {a})
<1>1. N \subseteq 1 .. Len(s) /\ Len(s) \in Nat /\ \A i \in 1 .. Len(s) : i \in N <=> s[i] = "0"
  BY DEF Positions
<1>2. IsFiniteSet(N) /\ Cardinality(N) \in Nat
  <2>1. IsFiniteSet(1 .. Len(s))
    BY <1>1, FS_Interval, SMTT(30)
  <2> HIDE DEF N
  <2> QED
    BY <1>1, <2>1, FS_Subset, FS_CardinalityType, ZenonT(60)
<1>3. N # {}
  BY <1>2, FS_EmptySet, SMTT(30)
<1>4. a \in N /\ \A y \in N : a <= y
  <2> HIDE DEF N
  <2> QED BY <1>1, <1>3, FirstOf
<1>5. N \ {a} # {}
  <2> HIDE DEF N, a
  <2>1. IsFiniteSet(N \ {a}) /\ Cardinality(N \ {a}) = Cardinality(N) - 1
    BY <1>2, <1>4, FS_RemoveElement, SMTT(30)
  <2>2. Cardinality(N \ {a}) # 0
    BY <1>2, <2>1 DEF N
  <2> QED
    BY <2>2, FS_EmptySet, ZenonT(60)
<1>6. b \in N \ {a} /\ \A y \in N \ {a} : b <= y
  <2> HIDE DEF N, a
  <2>1. N \subseteq Nat
    BY <1>1
  <2>2. N \ {a} \in SUBSET Nat
    BY <2>1, Zenon
  <2> QED
    BY <1>5, <2>2, FirstOf, ZenonT(60)
<1>7. ParsePlain(s) = User(SubSeq(s, a + 1, b - 1))
  BY Zenon DEF ParsePlain
<1> HIDE DEF N, a, b
<1>8. a \in 1 .. Len(s) /\ b \in a + 1 .. Len(s)
  BY <1>1, <1>4, <1>6, SMTT(30)
<1>9. \A i \in 1 .. b - 1 : i # a => s[i] # "0"
  BY <1>1, <1>4, <1>6, <1>8, SMTT(30)
<1> QED
  BY <1>1, <1>4, <1>6, <1>7, <1>8, <1>9, SMTT(30)

\* What holds of the payload, whatever the form.
LEMMA PlainParsed ==
    ASSUME TextInv
    PROVE  PlainFollowsGrammar
<1> DEFINE p == ParsePlain(text)
<1>1. CASE Cardinality(Positions(text, "0")) < 2
  <2>1. ~p.ok
    BY <1>1 DEF ParsePlain, Malformed
  <2> QED
    BY <1>1, <2>1, ZenonT(60) DEF PlainFollowsGrammar
<1>2. CASE ~(Cardinality(Positions(text, "0")) < 2)
  <2>1. text \in Seq(STRING) /\ Len(text) \in Nat
    BY DEF TextInv
  <2>2. PICK a \in 1 .. Len(text) : \E b \in a + 1 .. Len(text) :
           /\ text[a] = "0" /\ text[b] = "0"
           /\ \A i \in 1 .. b - 1 : i # a => text[i] # "0"
           /\ p = User(SubSeq(text, a + 1, b - 1))
    BY <1>2, <2>1, PlainAccepted, SMTT(30)
  <2>3. PICK b \in a + 1 .. Len(text) :
           /\ text[a] = "0" /\ text[b] = "0"
           /\ \A i \in 1 .. b - 1 : i # a => text[i] # "0"
           /\ p = User(SubSeq(text, a + 1, b - 1))
    BY <2>2
  <2> HIDE DEF p
  <2>4. p.ok /\ p.user = SubSeq(text, a + 1, b - 1)
    BY <2>3 DEF User
  <2>5. "0" \notin Range(SubSeq(text, a + 1, b - 1))
    BY <2>1, <2>3 DEF Range
  <2>6. "0" \notin Range(SubSeq(text, 1, a - 1))
    <3>1. a - 1 \in Nat /\ a - 1 <= Len(text) /\ a - 1 <= b - 1
      BY <2>1
    <3>2. /\ DOMAIN SubSeq(text, 1, a - 1) = 1 .. a - 1
          /\ \A i \in 1 .. a - 1 : SubSeq(text, 1, a - 1)[i] = text[i]
      BY <2>1, <3>1, SMTT(30)
    <3>3. \A i \in 1 .. a - 1 : text[i] # "0"
      BY <2>3, <3>1
    <3> QED
      BY <3>2, <3>3, ZenonT(60) DEF Range
  <2>7. text = PlainOf(SubSeq(text, 1, a - 1), p.user, From(text, b + 1))
    <3>1. text = SubSeq(text, 1, a - 1) \o <<text[a]>> \o SubSeq(text, a + 1, b - 1)
                     \o <<text[b]>> \o SubSeq(text, b + 1, Len(text))
      BY <2>1, SplitAt, ZenonT(60)
    <3> QED
      BY <2>3, <2>4, <3>1, ZenonT(60) DEF PlainOf, From
  <2>8. a - 1 \in 0 .. Len(text) /\ b \in 0 .. Len(text)
    BY <2>1
  <2> QED
    BY <2>4, <2>5, <2>6, <2>7, <2>8, ZenonT(60) DEF PlainFollowsGrammar, p
<1> QED
  BY <1>1, <1>2

\* For every payload of every length: ParsePlain accepts what has two NULs, and
\* returns what is between the first two.
THEOREM PlainIsParsed == ParserSpec => []PlainFollowsGrammar
<1>1. TextInv => PlainFollowsGrammar
  BY PlainParsed
<1> QED
  BY <1>1, TextInvariant, PTL
=============================================================================
