----------------------------- MODULE DataLemmas -----------------------------
(*****************************************************************************)
(* Facts about numbers, finite sets and texts that the proofs of several     *)
(* components rest on.                                                       *)
(*****************************************************************************)
EXTENDS CommandLine, Integers, FiniteSetTheorems, TLAPS

\* A set of natural numbers has a least element: what induction over a position,
\* a digit or an exponent is made of.
LEMMA LeastElement ==
  ASSUME NEW T \in SUBSET Nat, T # {}
  PROVE  \E m \in T : \A k \in T : m <= k
<1> DEFINE R == OpToRel(<, Nat)
<1>1. IsWellFoundedOn(R, Nat)
  BY NatLessThanWellFounded
<1> HIDE DEF R
<1>2. PICK m \in T : \A k \in T : ~(<<k, m>> \in R)
  BY <1>1, WFMin
<1>3. \A k \in T : k < m => <<k, m>> \in R
  BY DEF R, OpToRel
<1>4. \A k \in T : ~(k < m)
  BY <1>2, <1>3
<1>5. \A k \in T : m <= k
  BY <1>4
<1> QED
  BY <1>5

\* Induction up to n, over the numbers that have a property.
LEMMA UpTo ==
  ASSUME NEW n \in Nat, NEW G, n # 0 => 1 \in G,
         \A i \in 1 .. n : i \in G /\ i < n => i + 1 \in G
  PROVE  \A i \in 1 .. n : i \in G
<1> DEFINE bad == {i \in 1 .. n : i \notin G}
<1> SUFFICES ASSUME bad # {}
             PROVE  FALSE
  OBVIOUS
<1>1. PICK m \in bad : \A k \in bad : m <= k
  <2>1. bad \in SUBSET Nat
    OBVIOUS
  <2> HIDE DEF bad
  <2> QED
    BY <2>1, LeastElement
<1>2. m # 1 /\ m - 1 \in 1 .. n /\ m - 1 \notin bad
  BY <1>1
<1>3. m - 1 \in G /\ m - 1 < n /\ (m - 1) + 1 = m
  BY <1>2
<1> QED
  BY <1>2, <1>3

\* Counting the members of S that are at most i numbers them from 1 up, and a
\* member greater than all others is counted last.
LEMMA RankOfNewest ==
  ASSUME NEW n \in Nat, NEW S \in SUBSET (1 .. n)
  PROVE  /\ IsFiniteSet(S) /\ Cardinality(S) \in Nat
         /\ \A i \in S : Cardinality({e \in S : e <= i}) \in 1 .. Cardinality(S)
         /\ LET new == S \cup {n + 1}
            IN  /\ Cardinality(new) = Cardinality(S) + 1
                /\ {e \in new : e <= n + 1} = new
                /\ \A i \in S : {e \in new : e <= i} = {e \in S : e <= i}
<1>1. IsFiniteSet(S) /\ Cardinality(S) \in Nat
  <2>1. IsFiniteSet(1 .. n)
    BY FS_Interval
  <2>2. IsFiniteSet(S)
    BY <2>1, FS_Subset
  <2> QED
    BY <2>2, FS_CardinalityType
<1>2. ASSUME NEW i \in S
      PROVE  Cardinality({e \in S : e <= i}) \in 1 .. Cardinality(S)
  <2> DEFINE low == {e \in S : e <= i}
  <2>1. IsFiniteSet(low) /\ Cardinality(low) <= Cardinality(S)
    BY <1>1, FS_Subset
  <2>2. i \in low
    BY <1>2
  <2>3. Cardinality(low) \in Nat /\ Cardinality(low) # 0
    BY <2>1, <2>2, FS_CardinalityType, FS_EmptySet
  <2> QED
    BY <1>1, <2>1, <2>3
<1>3. Cardinality(S \cup {n + 1}) = Cardinality(S) + 1
  <2>1. n + 1 \notin S
    OBVIOUS
  <2> QED
    BY <1>1, <2>1, FS_AddElement
<1>4. {e \in S \cup {n + 1} : e <= n + 1} = S \cup {n + 1}
  <2>1. \A e \in S \cup {n + 1} : e <= n + 1
    OBVIOUS
  <2> QED
    BY <2>1
<1>5. ASSUME NEW i \in S
      PROVE  {e \in S \cup {n + 1} : e <= i} = {e \in S : e <= i}
  OBVIOUS
<1> QED
  BY <1>1, <1>2, <1>3, <1>4, <1>5

\* A greater member is counted later.
LEMMA RanksGrow ==
  ASSUME NEW n \in Nat, NEW S \in SUBSET (1 .. n), NEW i \in S, NEW j \in S, i < j
  PROVE  Cardinality({e \in S : e <= i}) < Cardinality({e \in S : e <= j})
<1> DEFINE a == {e \in S : e <= i}
           b == {e \in S : e <= j}
<1>1. IsFiniteSet(S)
  BY RankOfNewest
<1>2. a \subseteq b /\ a # b
  <2>1. ASSUME NEW e \in a
        PROVE  e \in b
    <3>1. e \in Int /\ i \in Int /\ j \in Int /\ e <= i
      OBVIOUS
    <3> QED
      BY <3>1
  <2>2. j \in b /\ j \notin a
    OBVIOUS
  <2> QED
    BY <2>1, <2>2
<1>3. IsFiniteSet(b)
  BY <1>1, FS_Subset
<1>4. Cardinality(a) \in Nat /\ Cardinality(b) \in Nat /\ Cardinality(a) <= Cardinality(b)
  BY <1>2, <1>3, FS_Subset, FS_CardinalityType
<1>5. Cardinality(a) # Cardinality(b)
  BY <1>2, <1>3, FS_Subset
<1> QED
  BY <1>4, <1>5

\* Every number up to their count is some member's.
LEMMA RanksCover ==
  ASSUME NEW n \in Nat, NEW S \in SUBSET (1 .. n), NEW j \in 1 .. Cardinality(S)
  PROVE  \E i \in S : Cardinality({e \in S : e <= i}) = j
<1> DEFINE Covered(U) == \A k \in 1 .. Cardinality(U) :
                           \E i \in U : Cardinality({e \in U : e <= i}) = k
           G == {m \in Nat : \A U \in SUBSET (1 .. m) : Covered(U)}
<1>1. Covered({})
  BY FS_EmptySet
<1>2. ASSUME NEW m \in Nat, \A U \in SUBSET (1 .. m) : Covered(U), NEW U \in SUBSET (1 .. m + 1)
      PROVE  Covered(U)
  <2>1. CASE m + 1 \notin U
    <3>1. U \in SUBSET (1 .. m)
      BY <2>1
    <3> HIDE DEF Covered
    <3> QED
      BY <1>2, <3>1
  <2>2. CASE m + 1 \in U
    <3> DEFINE V == U \ {m + 1}
    <3>1. V \in SUBSET (1 .. m) /\ U = V \cup {m + 1}
      BY <2>2
    <3>2. Covered(V)
      <4> HIDE DEF Covered
      <4> QED
        BY <1>2, <3>1
    <3> HIDE DEF V
    <3>3. /\ Cardinality(V) \in Nat
          /\ Cardinality(U) = Cardinality(V) + 1
          /\ {e \in U : e <= m + 1} = U
          /\ \A i \in V : {e \in U : e <= i} = {e \in V : e <= i}
      BY <3>1, RankOfNewest
    <3> SUFFICES ASSUME NEW k \in 1 .. Cardinality(U)
                 PROVE  \E i \in U : Cardinality({e \in U : e <= i}) = k
      OBVIOUS
    <3>4. CASE k = Cardinality(V) + 1
      BY <2>2, <3>3, <3>4
    <3>5. CASE k # Cardinality(V) + 1
      <4>1. k \in 1 .. Cardinality(V)
        BY <3>3, <3>5
      <4>2. PICK i \in V : Cardinality({e \in V : e <= i}) = k
        BY <3>2, <4>1
      <4> QED
        BY <3>1, <3>3, <4>2
    <3> QED
      BY <3>4, <3>5
  <2> QED
    BY <2>1, <2>2
<1>3. CASE n = 0
  <2>1. S = {}
    BY <1>3
  <2> QED
    BY <1>1, <2>1
<1>4. CASE n # 0
  <2>1. 1 \in G
    <3>1. \A U \in SUBSET (1 .. 0) : Covered(U)
      <4>1. \A U \in SUBSET (1 .. 0) : U = {}
        OBVIOUS
      <4> HIDE DEF Covered
      <4> QED
        BY <1>1, <4>1
    <3>2. 0 + 1 = 1 /\ 0 \in Nat
      OBVIOUS
    <3> HIDE DEF Covered
    <3> QED
      BY <1>2, <3>1, <3>2
  <2>2. ASSUME NEW i \in 1 .. n, i \in G
        PROVE  i + 1 \in G
    <3>1. i \in Nat /\ i + 1 \in Nat
      OBVIOUS
    <3>2. \A U \in SUBSET (1 .. i) : Covered(U)
      BY <2>2
    <3> HIDE DEF Covered
    <3>3. \A U \in SUBSET (1 .. i + 1) : Covered(U)
      BY <1>2, <3>1, <3>2
    <3> QED
      BY <3>1, <3>3
  <2>3. n \in G
    <3>1. n \in 1 .. n
      BY <1>4
    <3> HIDE DEF G
    <3> QED
      BY <2>1, <2>2, <3>1, UpTo
  <2> QED
    BY <2>3
<1> QED
  BY <1>3, <1>4

-------------------------------------------------------------------------------
(* Powers and digits                                                         *)

\* The powers of a positive number are positive.
LEMMA PowersPositive ==
  ASSUME NEW b \in Nat \ {0}, NEW n \in Nat, b^0 = 1, \A i \in 1 .. n : b^i = b * b^(i - 1)
  PROVE  \A i \in 0 .. n : b^i \in Nat \ {0}
<1> DEFINE bad == {i \in 0 .. n : b^i \notin Nat \ {0}}
<1> SUFFICES ASSUME bad # {}
             PROVE  FALSE
  OBVIOUS
<1>1. bad \in SUBSET Nat
  OBVIOUS
<1>2. PICK m \in bad : \A k \in bad : m <= k
  <2> HIDE DEF bad
  <2> QED
    BY <1>1, LeastElement
<1>3. m \in 1 .. n /\ m - 1 \in 0 .. n
  OBVIOUS
<1>4. b^(m - 1) \in Nat \ {0}
  BY <1>2, <1>3
<1>5. \A x, y \in Nat \ {0} : x * y \in Nat \ {0}
  OBVIOUS
<1>6. b^m \in Nat \ {0}
  BY <1>3, <1>4, <1>5
<1> QED
  BY <1>6

\* Dividing by a product is dividing by one factor and then by the other.
LEMMA DivOfDiv ==
  ASSUME NEW x \in Nat, NEW b \in Nat \ {0}, NEW w \in Nat \ {0}
  PROVE  x \div (b * w) = (x \div w) \div b
<1> DEFINE q == x \div w
           r == x % w
           p == q \div b
           s == q % b
<1>1. q \in Nat /\ r \in 0 .. w - 1 /\ x = w * q + r
  OBVIOUS
<1>2. p \in Nat /\ s \in 0 .. b - 1 /\ q = b * p + s
  BY <1>1
<1> HIDE DEF q, r, p, s
<1>3. w * s <= w * (b - 1)
  BY <1>2
<1>4. w * s + r \in 0 .. b * w - 1
  BY <1>1, <1>2, <1>3
<1>5. x = (b * w) * p + (w * s + r)
  BY <1>1, <1>2
<1>6. b * w \in Nat \ {0}
  OBVIOUS
<1>7. \A t \in 0 .. b * w - 1 : ((b * w) * p + t) \div (b * w) = p
  BY <1>2, <1>6
<1>8. x \div (b * w) = p
  BY <1>4, <1>5, <1>7
<1> QED
  BY <1>8 DEF p, q

\* A quotient grows with what is divided.
LEMMA DivMonotonic ==
  ASSUME NEW w \in Nat \ {0}, NEW x \in Nat, NEW y \in Nat, x <= y
  PROVE  x \div w <= y \div w
<1> DEFINE p == x \div w
           q == y \div w
<1>1. p \in Nat /\ q \in Nat /\ w * p <= x /\ y < w * (q + 1)
  OBVIOUS
<1>2. ASSUME q + 1 <= p
      PROVE  FALSE
  <2>1. w * (q + 1) <= w * p
    BY <1>1, <1>2
  <2> QED
    BY <1>1, <2>1
<1> QED
  BY <1>1, <1>2

\* Of two numbers with the same digits but the last, the lower has the lower last digit.
LEMMA DigitGrows ==
  ASSUME NEW b \in Nat \ {0}, NEW x \in Nat, NEW y \in Nat, x < y, x \div b = y \div b
  PROVE  x % b < y % b
<1>1. x = b * (x \div b) + (x % b) /\ y = b * (y \div b) + (y % b)
  OBVIOUS
<1> QED
  BY <1>1

-------------------------------------------------------------------------------
(* Texts                                                                     *)

\* Two texts end to end: their pieces, one after the other.
LEMMA Joined ==
  ASSUME NEW T, NEW x \in Seq(T), NEW y \in Seq(T)
  PROVE  /\ x \o y \in Seq(T) /\ Len(x \o y) = Len(x) + Len(y)
         /\ Len(x) \in Nat /\ Len(y) \in Nat
         /\ \A k \in 1 .. Len(x) : (x \o y)[k] = x[k]
         /\ \A k \in 1 .. Len(y) : (x \o y)[Len(x) + k] = y[k]
OBVIOUS

\* A text over some pieces is one over more.
LEMMA TextOver ==
  ASSUME NEW T, NEW U, T \subseteq U, NEW text \in Seq(T)
  PROVE  text \in Seq(U)
OBVIOUS

\* A text of one piece, and of two.
LEMMA Pieces ==
  ASSUME NEW T, NEW p \in T, NEW q \in T
  PROVE  /\ <<p>> \in Seq(T) /\ Len(<<p>>) = 1 /\ <<p>>[1] = p /\ <<p>> # <<>>
         /\ <<p, q>> \in Seq(T) /\ Len(<<p, q>>) = 2 /\ <<p, q>>[1] = p /\ <<p, q>>[2] = q
OBVIOUS

\* A text after one piece, or after two.
LEMMA Headed ==
  ASSUME NEW T, NEW text \in Seq(T), NEW p, NEW q
  PROVE  /\ (<<>> \o <<q>> \o text)[1] = q /\ Len(<<>> \o <<q>> \o text) >= 1
         /\ (<<p>> \o <<q>> \o text)[1] = p /\ (<<p>> \o <<q>> \o text)[2] = q
         /\ Len(<<p>> \o <<q>> \o text) >= 2
<1> DEFINE U == T \cup {p, q}
<1>1. text \in Seq(U) /\ <<p>> \in Seq(U) /\ <<q>> \in Seq(U)
  BY TextOver
<1>2. <<>> \o <<q>> = <<q>>
  BY <1>1
<1>3. (<<q>> \o text)[1] = q /\ Len(<<q>> \o text) >= 1
  BY <1>1
<1> DEFINE two == <<p>> \o <<q>>
<1>4. two \in Seq(U) /\ Len(two) = 2 /\ two[1] = p /\ two[2] = q
  BY <1>1
<1> HIDE DEF two
<1>5. /\ Len(two \o text) = Len(two) + Len(text) /\ Len(text) \in Nat
      /\ \A k \in 1 .. Len(two) : (two \o text)[k] = two[k]
  <2>1. two \in Seq(U) /\ text \in Seq(U)
    BY <1>1, <1>4
  <2> HIDE DEF U
  <2> QED
    BY ONLY <2>1, Joined
<1>6. 1 \in 1 .. 2 /\ 2 \in 1 .. 2
  OBVIOUS
<1>7. (two \o text)[1] = p /\ (two \o text)[2] = q /\ Len(two \o text) >= 2
  BY <1>4, <1>5, <1>6
<1> QED
  BY <1>2, <1>3, <1>7 DEF two

\* What follows the second piece of a text.
LEMMA RestOfText ==
  ASSUME NEW T, NEW text \in Seq(T), Len(text) >= 2
  PROVE  SubSeq(text, 3, Len(text)) = [i \in 1 .. Len(text) - 2 |-> text[i + 2]]
<1>1. Len(text) \in Nat
  OBVIOUS
<1>2. CASE Len(text) = 2
  <2>1. SubSeq(text, 3, 2) = <<>>
    OBVIOUS
  <2>2. [i \in 1 .. 0 |-> text[i + 2]] = <<>>
    OBVIOUS
  <2> QED
    BY <1>2, <2>1, <2>2
<1>3. CASE Len(text) >= 3
  <2>1. \A i \in 1 .. (1 + Len(text)) - 3 : (3 + i) - 1 = i + 2
    OBVIOUS
  <2>2. (1 + Len(text)) - 3 = Len(text) - 2
    BY <1>1
  <2> QED
    BY <1>1, <1>3, <2>1, <2>2
<1> QED
  BY <1>1, <1>2, <1>3

\* FlattenSeq appends the sequences one after the other.
LEMMA FlattenSteps ==
  ASSUME NEW s, NEW n \in Nat \ {0}, Len(s) = n
  PROVE  \E f : /\ f[1] = s[1]
                /\ \A i \in 2 .. n : f[i] = f[i - 1] \o s[i]
                /\ FlattenSeq(s) = f[n]
<1> DEFINE Steps(f, m) == f = [i \in 1 .. m |-> IF i = 1 THEN s[i] ELSE f[i - 1] \o s[i]]
           G == {m \in 1 .. n : \E f : Steps(f, m)}
<1>1. \A i \in 1 .. n : i \in G
  <2>1. 1 \in G
    <3> DEFINE f == [i \in 1 .. 1 |-> s[i]]
    <3>1. f = [i \in 1 .. 1 |-> IF i = 1 THEN s[i] ELSE f[i - 1] \o s[i]]
      OBVIOUS
    <3>2. \E g : Steps(g, 1)
      BY <3>1
    <3>3. 1 \in 1 .. n
      OBVIOUS
    <3> HIDE DEF Steps
    <3> QED
      BY <3>2, <3>3
  <2>2. ASSUME NEW m \in 1 .. n, m \in G, m < n
        PROVE  m + 1 \in G
    <3>1. PICK g : Steps(g, m)
      BY <2>2
    <3> DEFINE f == [i \in 1 .. m + 1 |-> IF i = m + 1 THEN g[m] \o s[m + 1] ELSE g[i]]
    <3>2. ASSUME NEW i \in 1 .. m + 1
          PROVE  f[i] = IF i = 1 THEN s[i] ELSE f[i - 1] \o s[i]
      <4>1. CASE i = m + 1
        <5>1. m \in 1 .. m + 1 /\ m # m + 1 /\ m + 1 # 1 /\ (m + 1) - 1 = m /\ m + 1 \in 1 .. m + 1
          OBVIOUS
        <5>2. f[m] = g[m] /\ f[m + 1] = g[m] \o s[m + 1]
          BY <5>1
        <5> HIDE DEF f
        <5> QED
          BY <4>1, <5>1, <5>2
      <4>2. CASE i # m + 1
        <5>1. i \in 1 .. m /\ (i # 1 => i - 1 \in 1 .. m /\ i - 1 # m + 1 /\ i - 1 \in 1 .. m + 1)
          BY <2>2, <4>2
        <5>2. g[i] = IF i = 1 THEN s[i] ELSE g[i - 1] \o s[i]
          BY <3>1, <5>1
        <5> QED
          BY <4>2, <5>1, <5>2
      <4> QED
        BY <4>1, <4>2
    <3>3. f = [i \in 1 .. m + 1 |-> f[i]]
      OBVIOUS
    <3>4. Steps(f, m + 1)
      <4> HIDE DEF f
      <4> QED
        BY <3>2, <3>3
    <3>5. m + 1 \in 1 .. n
      BY <2>2
    <3> HIDE DEF f, Steps
    <3> QED
      BY <3>4, <3>5
  <2> HIDE DEF G
  <2> QED
    BY <2>1, <2>2, UpTo
<1>2. \E f : Steps(f, n)
  <2>1. n \in 1 .. n
    OBVIOUS
  <2> HIDE DEF Steps
  <2> QED
    BY <1>1, <2>1
<1> DEFINE f == CHOOSE f : Steps(f, n)
<1>3. Steps(f, n)
  <2> HIDE DEF Steps
  <2> QED
    BY <1>2
<1>4. FlattenSeq(s) = f[n]
  BY DEF FlattenSeq
<1> HIDE DEF f
<1>5. \A i \in 1 .. n : f[i] = IF i = 1 THEN s[i] ELSE f[i - 1] \o s[i]
  <2> DEFINE body == [i \in 1 .. n |-> IF i = 1 THEN s[i] ELSE f[i - 1] \o s[i]]
  <2>1. f = body
    BY <1>3
  <2>2. \A i \in 1 .. n : body[i] = IF i = 1 THEN s[i] ELSE f[i - 1] \o s[i]
    OBVIOUS
  <2> HIDE DEF body
  <2> QED
    BY <2>1, <2>2
<1>6. f[1] = s[1]
  BY <1>5
<1>7. ASSUME NEW i \in 2 .. n
      PROVE  f[i] = f[i - 1] \o s[i]
  <2>1. i \in 1 .. n /\ i # 1
    OBVIOUS
  <2> QED
    BY <1>5, <2>1
<1> QED
  BY <1>4, <1>6, <1>7

\* The text that replacing a piece results in: its pieces, that it is not empty, and that
\* it begins as the text did, up to the first piece replaced.
LEMMA Replaced ==
  ASSUME NEW T, NEW text \in Seq(T), text # <<>>, NEW piece, NEW by \in Seq(T)
  PROVE  LET out == Replace(text, piece, by)
         IN  /\ out \in Seq(T)
             /\ by # <<>> => out # <<>>
             /\ \A i \in 1 .. Len(out) :
                  \/ \E k \in 1 .. Len(by) : out[i] = by[k]
                  \/ \E k \in 1 .. Len(text) : out[i] = text[k] /\ text[k] # piece
             /\ \A m \in 1 .. Len(text) :
                  (\A k \in 1 .. m : text[k] # piece) =>
                    Len(out) >= m /\ \A k \in 1 .. m : out[k] = text[k]
<1> DEFINE n == Len(text)
           P(i) == IF text[i] = piece THEN by ELSE <<text[i]>>
           Fits(t) == \A i \in 1 .. Len(t) :
                        \/ \E k \in 1 .. Len(by) : t[i] = by[k]
                        \/ \E k \in 1 .. n : t[i] = text[k] /\ text[k] # piece
<1>1. n \in Nat \ {0} /\ Len(text) = n
  OBVIOUS
<1> HIDE DEF n
<1> HIDE DEF Fits
<1>2. \A i \in 1 .. n : P(i) \in Seq(T) /\ Fits(P(i)) /\ (by # <<>> => P(i) # <<>>)
  <2> SUFFICES ASSUME NEW i \in 1 .. n
               PROVE  P(i) \in Seq(T) /\ Fits(P(i)) /\ (by # <<>> => P(i) # <<>>)
    OBVIOUS
  <2>1. CASE text[i] = piece
    BY <2>1 DEF Fits
  <2>2. CASE text[i] # piece
    <3>1. text[i] \in T
      BY <1>1
    <3>2. P(i) = <<text[i]>> /\ Len(<<text[i]>>) = 1 /\ <<text[i]>>[1] = text[i]
      BY <2>2
    <3> QED
      BY <2>2, <3>1, <3>2 DEF Fits
  <2> QED
    BY <2>1, <2>2
<1> DEFINE s == [i \in DOMAIN text |-> P(i)]
<1>3. Len(s) = n /\ (\A i \in 1 .. n : s[i] = P(i)) /\ Replace(text, piece, by) = FlattenSeq(s)
  BY <1>1 DEF Replace
<1> HIDE DEF s, P
<1>4. PICK f : /\ f[1] = P(1)
               /\ \A i \in 2 .. n : f[i] = f[i - 1] \o P(i)
               /\ Replace(text, piece, by) = f[n]
  <2>1. PICK f : /\ f[1] = s[1]
                 /\ \A i \in 2 .. n : f[i] = f[i - 1] \o s[i]
                 /\ FlattenSeq(s) = f[n]
    BY <1>1, <1>3, FlattenSteps
  <2>2. 1 \in 1 .. n /\ \A i \in 2 .. n : i \in 1 .. n
    BY <1>1
  <2> QED
    BY <1>3, <2>1, <2>2
<1> USE DEF Fits
<1>5. /\ \A x, y \in Seq(T) : Fits(x) /\ Fits(y) => Fits(x \o y)
      /\ \A x, y \in Seq(T) : y # <<>> => x \o y # <<>>
  <2>1. ASSUME NEW x \in Seq(T), NEW y \in Seq(T), Fits(x), Fits(y),
               NEW i \in 1 .. Len(x \o y)
        PROVE  \/ \E k \in 1 .. Len(by) : (x \o y)[i] = by[k]
               \/ \E k \in 1 .. n : (x \o y)[i] = text[k] /\ text[k] # piece
    <3>1. CASE i \in 1 .. Len(x)
      <4>1. (x \o y)[i] = x[i]
        BY <3>1
      <4> QED
        BY <2>1, <3>1, <4>1
    <3>2. CASE i \notin 1 .. Len(x)
      <4>1. i - Len(x) \in 1 .. Len(y) /\ (x \o y)[i] = y[i - Len(x)]
        BY <3>2
      <4> QED
        BY <2>1, <4>1
    <3> QED
      BY <3>1, <3>2
  <2>2. \A x, y \in Seq(T) : y # <<>> => x \o y # <<>>
    OBVIOUS
  <2> QED
    BY <2>1, <2>2
<1> DEFINE G == {i \in 1 .. n : f[i] \in Seq(T) /\ Fits(f[i]) /\ (by # <<>> => f[i] # <<>>)}
<1>6. \A i \in 1 .. n : i \in G
  <2> HIDE DEF Fits
  <2>1. 1 \in G
    BY <1>1, <1>4, <1>2
  <2>2. ASSUME NEW i \in 1 .. n, i \in G, i < n
        PROVE  i + 1 \in G
    <3>1. i + 1 \in 2 .. n /\ i + 1 \in 1 .. n /\ (i + 1) - 1 = i
      BY <1>1, <2>2
    <3>2. f[i + 1] = f[i] \o P(i + 1)
      BY <1>4, <3>1
    <3>3. /\ f[i] \in Seq(T) /\ Fits(f[i])
          /\ P(i + 1) \in Seq(T) /\ Fits(P(i + 1)) /\ (by # <<>> => P(i + 1) # <<>>)
      BY <1>2, <2>2, <3>1
    <3>4. Fits(f[i + 1]) /\ (by # <<>> => f[i + 1] # <<>>)
      BY <1>5, <3>2, <3>3
    <3>5. f[i + 1] \in Seq(T)
      BY <3>2, <3>3, Joined
    <3> QED
      BY <3>1, <3>4, <3>5
  <2> HIDE DEF G
  <2> QED
    BY <1>1, <2>1, <2>2, UpTo
<1>7. ASSUME NEW m \in 1 .. n, \A k \in 1 .. m : text[k] # piece
      PROVE  Len(f[n]) >= m /\ \A k \in 1 .. m : f[n][k] = text[k]
  <2> DEFINE Begins(i) == LET l == IF i < m THEN i ELSE m
                          IN  Len(f[i]) >= l /\ \A k \in 1 .. l : f[i][k] = text[k]
             Same(i) == i <= m => Len(f[i]) = i
             H == {i \in 1 .. n : Begins(i) /\ Same(i)}
  <2>1. \A i \in 1 .. m : P(i) = <<text[i]>>
    BY <1>7 DEF P
  <2>2. 1 \in H
    <3>1. f[1] = <<text[1]>> /\ 1 \in 1 .. n /\ m \in Nat /\ 1 <= m
      BY <1>1, <1>4, <2>1
    <3>2. Len(f[1]) = 1 /\ f[1][1] = text[1] /\ (IF 1 < m THEN 1 ELSE m) = 1
      BY <3>1
    <3>3. \A k \in 1 .. 1 : k = 1
      OBVIOUS
    <3>4. Begins(1) /\ Same(1)
      BY <3>2, <3>3
    <3> QED
      BY <3>1, <3>4
  <2>3. ASSUME NEW i \in 1 .. n, i \in H, i < n
        PROVE  i + 1 \in H
    <3>1. i + 1 \in 2 .. n /\ i + 1 \in 1 .. n /\ (i + 1) - 1 = i /\ i \in Nat /\ m \in Nat
      BY <1>1, <2>3
    <3>2. f[i + 1] = f[i] \o P(i + 1) /\ f[i] \in Seq(T) /\ P(i + 1) \in Seq(T)
      BY <1>2, <1>4, <1>6, <3>1
    <3>3. /\ Len(f[i + 1]) = Len(f[i]) + Len(P(i + 1))
          /\ \A k \in 1 .. Len(f[i]) : f[i + 1][k] = f[i][k]
          /\ \A k \in 1 .. Len(P(i + 1)) : f[i + 1][Len(f[i]) + k] = P(i + 1)[k]
          /\ Len(f[i]) \in Nat /\ Len(P(i + 1)) \in Nat
      <4> DEFINE x == f[i]
                 y == P(i + 1)
      <4>1. x \in Seq(T) /\ y \in Seq(T) /\ f[i + 1] = x \o y
        BY <3>2
      <4> HIDE DEF x, y
      <4>2. /\ Len(f[i + 1]) = Len(x) + Len(y)
            /\ Len(x) \in Nat /\ Len(y) \in Nat
            /\ \A k \in 1 .. Len(x) : f[i + 1][k] = x[k]
            /\ \A k \in 1 .. Len(y) : f[i + 1][Len(x) + k] = y[k]
        BY <4>1, Joined
      <4> QED
        BY <4>2 DEF x, y
    <3> DEFINE l == Len(f[i])
               r == Len(P(i + 1))
    <3>4. l \in Nat /\ r \in Nat /\ Len(f[i + 1]) = l + r
      BY <3>3
    <3> HIDE DEF l, r
    <3>5. CASE i < m
      <4>1. P(i + 1) = <<text[i + 1]>> /\ Len(f[i]) = i
        BY <2>1, <2>3, <3>1, <3>5
      <4>2. Len(f[i + 1]) = i + 1 /\ f[i + 1][i + 1] = text[i + 1]
        <5>1. Len(<<text[i + 1]>>) = 1 /\ <<text[i + 1]>>[1] = text[i + 1] /\ 1 \in 1 .. 1
          OBVIOUS
        <5> QED
          BY <3>1, <3>3, <4>1, <5>1
      <4>3. \A k \in 1 .. i : f[i + 1][k] = text[k]
        BY <2>3, <3>1, <3>3, <3>5, <4>1
      <4>4. \A k \in 1 .. i + 1 : f[i + 1][k] = text[k]
        BY <3>1, <4>2, <4>3
      <4>5. (IF i + 1 < m THEN i + 1 ELSE m) = i + 1
        BY <3>1, <3>5
      <4> QED
        BY <3>1, <4>2, <4>4, <4>5
    <3>6. CASE ~(i < m)
      <4>1. Len(f[i]) >= m /\ \A k \in 1 .. m : f[i][k] = text[k]
        BY <2>3, <3>6
      <4>2. l >= m
        BY <4>1 DEF l
      <4>3. ASSUME NEW k \in 1 .. m
            PROVE  f[i + 1][k] = text[k]
        <5>1. k \in 1 .. Len(f[i])
          BY <3>1, <3>4, <4>2 DEF l
        <5> QED
          BY <3>3, <4>1, <5>1
      <4>4. ~(i + 1 < m) /\ ~(i + 1 <= m)
        BY <3>1, <3>6
      <4>5. Len(f[i + 1]) >= m
        BY <3>1, <3>4, <4>2
      <4> QED
        BY <3>1, <4>3, <4>4, <4>5
    <3> QED
      BY <3>5, <3>6
  <2>4. \A i \in 1 .. n : i \in H
    <3> HIDE DEF H
    <3> QED
      BY <1>1, <2>2, <2>3, UpTo
  <2>5. n \in H /\ ~(n < m)
    BY <1>1, <2>4
  <2> QED
    BY <2>5
<1>8. n \in 1 .. n
  BY <1>1
<1>9. f[n] \in Seq(T) /\ Fits(f[n]) /\ (by # <<>> => f[n] # <<>>)
  BY <1>6, <1>8
<1> QED
  BY <1>1, <1>4, <1>7, <1>8, <1>9

\* A word ends before the next blank, or with the text.
LEMMA WordEnds ==
  ASSUME NEW T, NEW text \in Seq(T), NEW i \in WordStarts(text)
  PROVE  LET e == WordEnd(text, i)
         IN  /\ i \in 1 .. Len(text) /\ e \in i .. Len(text)
             /\ \A k \in i .. e : text[k] # Blank
             /\ e = Len(text) \/ text[e + 1] = Blank
<1> DEFINE n == Len(text)
           Last1(e) == e = n \/ text[e + 1] = Blank
           ends == {e \in i .. n : Last1(e)}
           Ends(e) == (\A k \in i .. e : text[k] # Blank) /\ Last1(e)
<1>1. n \in Nat /\ i \in 1 .. n /\ text[i] # Blank
  BY DEF WordStarts
<1> HIDE DEF n
<1>2. n \in ends /\ ends \in SUBSET Nat
  BY <1>1
<1>3. PICK e \in ends : \A k \in ends : e <= k
  <2> HIDE DEF ends
  <2> QED
    BY <1>2, LeastElement
<1>4. ASSUME NEW k \in i .. e
      PROVE  text[k] # Blank
  <2>1. CASE k = i
    BY <1>1, <2>1
  <2>2. CASE k # i
    <3>1. k - 1 \in i .. n /\ k - 1 < e /\ (k - 1) + 1 = k
      BY <1>1, <1>3, <2>2
    <3>2. k - 1 \notin ends
      BY <1>1, <1>3, <3>1
    <3> QED
      BY <3>1, <3>2
  <2> QED
    BY <2>1, <2>2
<1>5. \E f \in i .. n : Ends(f)
  BY <1>3, <1>4
<1>6. WordEnd(text, i) = CHOOSE f \in i .. n : Ends(f)
  BY DEF WordEnd, n
<1> HIDE DEF Ends
<1>7. WordEnd(text, i) \in i .. n /\ Ends(WordEnd(text, i))
  BY <1>5, <1>6
<1> QED
  BY <1>1, <1>7 DEF Ends, n

\* The j-th word starts where j words have started.
LEMMA WordOf ==
  ASSUME NEW T, NEW text \in Seq(T), NEW j \in DOMAIN Fields(text)
  PROVE  \E i \in WordStarts(text) :
           /\ Cardinality({s \in WordStarts(text) : s <= i}) = j
           /\ Fields(text)[j] = SubSeq(text, i, WordEnd(text, i))
<1> DEFINE begin == WordStarts(text)
           Rank(i) == Cardinality({s \in begin : s <= i})
           Start(k) == CHOOSE i \in begin : Rank(i) = k
<1>1. Len(text) \in Nat /\ begin \in SUBSET (1 .. Len(text))
  BY DEF WordStarts
<1>2. Fields(text) = [k \in 1 .. Cardinality(begin) |-> SubSeq(text, Start(k), WordEnd(text, Start(k)))]
  BY DEF Fields
<1>3. j \in 1 .. Cardinality(begin)
  BY <1>2
<1> HIDE DEF begin
<1>4. \E i \in begin : Rank(i) = j
  BY <1>1, <1>3, RanksCover
<1>5. Start(j) \in begin /\ Rank(Start(j)) = j
  <2> HIDE DEF Rank
  <2> QED
    BY <1>4
<1>6. Fields(text)[j] = SubSeq(text, Start(j), WordEnd(text, Start(j)))
  BY <1>2, <1>3
<1> HIDE DEF Start
<1> QED
  BY <1>5, <1>6 DEF begin

\* The words hold pieces of the text.
LEMMA WordsAreOfText ==
  ASSUME NEW T, NEW text \in Seq(T), NEW j \in DOMAIN Fields(text), NEW piece \in ToSet(Fields(text)[j])
  PROVE  \E k \in 1 .. Len(text) : text[k] = piece
<1>1. PICK i \in WordStarts(text) : Fields(text)[j] = SubSeq(text, i, WordEnd(text, i))
  BY WordOf
<1> DEFINE e == WordEnd(text, i)
           word == Fields(text)[j]
<1>2. Len(text) \in Nat /\ i \in 1 .. Len(text) /\ e \in i .. Len(text)
  BY WordEnds
<1>3. word = SubSeq(text, i, e)
  BY <1>1
<1>4. \E k \in DOMAIN word : word[k] = piece
  <2> HIDE DEF word
  <2>1. piece \in ToSet(word)
    BY DEF word
  <2> QED
    BY <2>1 DEF ToSet
<1> HIDE DEF e, word
<1>5. ASSUME NEW k \in DOMAIN word
      PROVE  \E m \in 1 .. Len(text) : word[k] = text[m]
  <2>1. k \in 1 .. (e - i) + 1
    BY <1>2, <1>3
  <2>2. word[k] = text[(i + k) - 1]
    BY <1>2, <1>3, <2>1
  <2>3. (i + k) - 1 \in 1 .. Len(text)
    BY <1>2, <2>1
  <2> QED
    BY <2>2, <2>3
<1> QED
  BY <1>4, <1>5

\* A pair of different members counts two.
LEMMA TwoMembers ==
  ASSUME NEW x, NEW y, x # y
  PROVE  Cardinality({x, y}) = 2
<1> DEFINE one == {x}
<1>1. IsFiniteSet(one) /\ Cardinality(one) = 1 /\ y \notin one
  BY FS_Singleton
<1>2. {x, y} = one \cup {y}
  OBVIOUS
<1> HIDE DEF one
<1>3. Cardinality(one \cup {y}) = Cardinality(one) + 1
  BY <1>1, FS_AddElement
<1> QED
  BY <1>1, <1>2, <1>3

\* The first two words of a text that begins with a piece, a blank and another piece.
LEMMA FirstWords ==
  ASSUME NEW T, NEW text \in Seq(T), Len(text) >= 3,
         text[1] # Blank, text[2] = Blank, text[3] # Blank
  PROVE  /\ 3 \in WordStarts(text)
         /\ Fields(text)[1] = <<text[1]>>
         /\ Fields(text)[2] = SubSeq(text, 3, WordEnd(text, 3))
<1> DEFINE n == Len(text)
           begin == WordStarts(text)
           Rank(i) == Cardinality({s \in begin : s <= i})
<1>1. n \in Nat /\ n >= 3 /\ begin \in SUBSET (1 .. n)
  BY DEF WordStarts
<1>2. 1 \in begin /\ 2 \notin begin /\ 3 \in begin
  BY <1>1 DEF WordStarts
<1>3. DOMAIN Fields(text) = 1 .. Cardinality(begin)
  BY DEF Fields
<1> HIDE DEF n, begin
<1>4. Rank(1) = 1
  <2>1. ASSUME NEW s \in begin
        PROVE  s <= 1 <=> s = 1
    <3>1. s \in Int /\ s >= 1
      BY <1>1
    <3> QED
      BY <3>1
  <2>2. {s \in begin : s <= 1} = {1}
    <3>1. {s \in begin : s <= 1} = {s \in begin : s = 1}
      BY <2>1
    <3> QED
      BY <1>2, <3>1
  <2> QED
    BY <2>2, FS_Singleton
<1>5. Rank(3) = 2
  <2>1. ASSUME NEW s \in begin
        PROVE  s <= 3 <=> s = 1 \/ s = 3
    <3>1. s \in Int /\ s >= 1 /\ s # 2
      BY <1>1, <1>2
    <3> QED
      BY <3>1
  <2>2. {s \in begin : s <= 3} = {1, 3}
    <3>1. {s \in begin : s <= 3} = {s \in begin : s = 1 \/ s = 3}
      BY <2>1
    <3> QED
      BY <1>2, <3>1
  <2>3. 1 # 3
    OBVIOUS
  <2>4. Cardinality({1, 3}) = 2
    BY <2>3, TwoMembers
  <2> QED
    BY <2>2, <2>4
<1>6. \A i \in begin : (Rank(i) = 1 => i = 1) /\ (Rank(i) = 2 => i = 3)
  <2> SUFFICES ASSUME NEW i \in begin
               PROVE  (Rank(i) = 1 => i = 1) /\ (Rank(i) = 2 => i = 3)
    OBVIOUS
  <2>1. i \in 1 .. n /\ (i = 1 \/ i = 3 \/ i > 3)
    BY <1>1, <1>2
  <2>2. i > 3 => Rank(3) < Rank(i)
    BY <1>1, <1>2, <2>1, RanksGrow
  <2> HIDE DEF Rank
  <2> QED
    BY <1>4, <1>5, <2>1, <2>2
<1>7. Cardinality(begin) \in Nat /\ Rank(3) <= Cardinality(begin)
  <2>1. Cardinality(begin) \in Nat /\ Rank(3) \in 1 .. Cardinality(begin)
    BY <1>1, <1>2, RankOfNewest
  <2> QED
    BY <2>1
<1>8. 1 \in DOMAIN Fields(text) /\ 2 \in DOMAIN Fields(text)
  BY <1>3, <1>5, <1>7
<1>9. Fields(text)[1] = SubSeq(text, 1, WordEnd(text, 1))
  <2>1. PICK i \in begin : Rank(i) = 1 /\ Fields(text)[1] = SubSeq(text, i, WordEnd(text, i))
    BY <1>8, WordOf DEF begin
  <2>2. i = 1
    BY <1>6, <2>1
  <2> QED
    BY <2>1, <2>2
<1>10. Fields(text)[2] = SubSeq(text, 3, WordEnd(text, 3))
  <2>1. PICK i \in begin : Rank(i) = 2 /\ Fields(text)[2] = SubSeq(text, i, WordEnd(text, i))
    BY <1>8, WordOf DEF begin
  <2>2. i = 3
    BY <1>6, <2>1
  <2> QED
    BY <2>1, <2>2
<1>11. SubSeq(text, 1, WordEnd(text, 1)) = <<text[1]>>
  <2> DEFINE e == WordEnd(text, 1)
  <2>1. e \in 1 .. n /\ \A k \in 1 .. e : text[k] # Blank
    BY <1>2, WordEnds DEF begin, n
  <2>2. e = 1
    <3> HIDE DEF e
    <3>1. ~(2 \in 1 .. e)
      BY <2>1
    <3> QED
      BY <1>1, <2>1, <3>1
  <2>3. SubSeq(text, 1, 1) = <<text[1]>>
    <3> DEFINE one == SubSeq(text, 1, 1)
    <3>1. one \in Seq(T) /\ Len(one) = 1 /\ one[1] = text[1]
      BY <1>1 DEF n
    <3> HIDE DEF one
    <3>2. one = <<one[1]>>
      BY <3>1
    <3> QED
      BY <3>1, <3>2 DEF one
  <2> QED
    BY <2>2, <2>3
<1> QED
  BY <1>2, <1>9, <1>10, <1>11 DEF begin
===============================================================================
