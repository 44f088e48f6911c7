--------------------------- MODULE TranslateProofs ---------------------------
(***************************************************************************)
(* The kernel reaches the very bytes of a program that the program names,  *)
(* for every size of pages, of virtual addresses and of pointers.          *)
(***************************************************************************)
EXTENDS Translate, WellFoundedInduction, TLAPS

-----------------------------------------------------------------------------
(* Induction over numbers, for a set of them *)

\* A set of natural numbers that is not empty has a least one.
LEMMA LeastNumber ==
  ASSUME NEW S \in SUBSET Nat, S # {}
  PROVE  \E n \in S : \A m \in S : n <= m
  <1> DEFINE R == {ss \in Nat \X Nat : ss[1] < ss[2]}
  <1>1. IsWellFoundedOn(R, Nat)
    BY NatLessThanWellFounded, Zenon DEF OpToRel
  <1>2. PICK n \in S : \A m \in S : <<m, n>> \notin R
    <2> HIDE DEF R
    <2> QED BY <1>1, WFMin, Zenon
  <1>3. n \in Nat
    OBVIOUS
  <1>4. ASSUME NEW m \in S PROVE n <= m
    <2>1. m \in Nat /\ <<m, n>> \notin R
      BY <1>2
    <2> QED BY <1>3, <2>1
  <1> QED BY <1>4

\* What holds of 0, and of the next number, holds of all.
LEMMA Induction ==
  ASSUME NEW S, 0 \in S, \A n \in Nat : n \in S => n + 1 \in S
  PROVE  Nat \subseteq S
  <1> SUFFICES ASSUME Nat \ S # {} PROVE FALSE
    BY Zenon
  <1>1. PICK n \in Nat \ S : \A m \in Nat \ S : n <= m
    BY LeastNumber, Zenon
  <1>2. n # 0 /\ n \in Nat
    BY Zenon
  <1>3. n - 1 \in Nat /\ n - 1 + 1 = n /\ n - 1 < n
    BY <1>2
  <1>4. n - 1 \in S
    BY <1>1, <1>2, <1>3
  <1> QED BY <1>3, <1>4, Zenon

-----------------------------------------------------------------------------
(* Powers of two *)

\* The recursion of 1 << n has a solution up to every n.
LEMMA ShlSolved ==
  ASSUME NEW b \in Nat
  PROVE  \E f : f = [n \in 0..b |-> IF n = 0 THEN 1 ELSE 2 * f[n - 1]]
  <1> DEFINE Solved(m) == \E f : f = [n \in 0..m |-> IF n = 0 THEN 1 ELSE 2 * f[n - 1]]
             S == {m \in Nat : Solved(m)}
  <1>1. Solved(0)
    <2> DEFINE f == [n \in 0..0 |-> 1]
    <2>1. f = [n \in 0..0 |-> IF n = 0 THEN 1 ELSE 2 * f[n - 1]]
      OBVIOUS
    <2> QED BY <2>1, Zenon
  <1>2. ASSUME NEW m \in Nat, Solved(m) PROVE Solved(m + 1)
    <2>1. PICK f : f = [n \in 0..m |-> IF n = 0 THEN 1 ELSE 2 * f[n - 1]]
      BY <1>2, Zenon
    <2> DEFINE g == [n \in 0..(m + 1) |-> IF n = m + 1 THEN 2 * f[m] ELSE f[n]]
    <2>2. ASSUME NEW n \in 0..(m + 1)
          PROVE  g[n] = IF n = 0 THEN 1 ELSE 2 * g[n - 1]
      <3>1. CASE n = m + 1
        BY <3>1, <2>1
      <3>2. CASE n # m + 1
        <4>1. n \in 0..m /\ g[n] = f[n] /\ (n # 0 => n - 1 \in 0..(m + 1) /\ n - 1 # m + 1)
          BY <3>2
        <4>2. f[n] = IF n = 0 THEN 1 ELSE 2 * f[n - 1]
          BY <2>1, <4>1
        <4>3. n # 0 => g[n - 1] = f[n - 1]
          BY <4>1
        <4> QED BY <4>1, <4>2, <4>3
      <3> QED BY <3>1, <3>2
    <2>3. g = [n \in 0..(m + 1) |-> IF n = 0 THEN 1 ELSE 2 * g[n - 1]]
      BY <2>2, Zenon
    <2> QED BY <2>3, Zenon
  <1> HIDE DEF Solved
  <1>3. 0 \in S /\ \A m \in Nat : m \in S => m + 1 \in S
    BY <1>1, <1>2
  <1>4. Solved(b)
    BY <1>3, Induction, Zenon
  <1> QED BY <1>4 DEF Solved

\* So 1 << 0 is 1, and 1 << (n + 1) is twice 1 << n.
LEMMA ShlStep ==
  /\ Shl[0] = 1
  /\ \A n \in 0..UBITS : n > 0 => Shl[n] = 2 * Shl[n - 1]
  <1> DEFINE Eq(f) == f = [n \in 0..UBITS |-> IF n = 0 THEN 1 ELSE 2 * f[n - 1]]
  <1>1. Shl = CHOOSE f : Eq(f)
    BY DEF Shl
  <1>2. \E f : Eq(f)
    BY ShlSolved, ShiftAssumption, Zenon
  <1>3. Eq(Shl)
    <2> HIDE DEF Eq
    <2> QED BY <1>1, <1>2
  <1>4. \A n \in 0..UBITS : Shl[n] = IF n = 0 THEN 1 ELSE 2 * Shl[n - 1]
    BY <1>3, Zenon
  <1>5. 0 \in 0..UBITS
    BY ShiftAssumption
  <1> QED BY <1>4, <1>5

\* Powers of two are positive.
LEMMA ShlPositive == \A n \in 0..UBITS : Shl[n] \in Nat \ {0}
  <1> DEFINE S == {n \in Nat : n <= UBITS => Shl[n] \in Nat \ {0}}
  <1>1. 0 \in S
    BY ShlStep
  <1>2. ASSUME NEW n \in Nat, n \in S PROVE n + 1 \in S
    <2>1. SUFFICES ASSUME n + 1 <= UBITS PROVE Shl[n + 1] \in Nat \ {0}
      OBVIOUS
    <2>2. n + 1 \in 0..UBITS /\ n + 1 > 0 /\ n + 1 - 1 = n /\ n <= UBITS
      BY <2>1, ShiftAssumption
    <2>3. Shl[n + 1] = 2 * Shl[n] /\ Shl[n] \in Nat \ {0}
      BY <1>2, <2>2, ShlStep
    <2> QED BY <2>3
  <1>3. Nat \subseteq S
    <2> HIDE DEF S
    <2> QED BY <1>1, <1>2, Induction, Zenon
  <1> QED BY <1>3, ShiftAssumption

\* A power of two is a multiple of every smaller one.
LEMMA ShlMultiple ==
  ASSUME NEW a \in Nat, NEW b \in Nat, a <= b, b <= UBITS
  PROVE  \E q \in Nat \ {0} : Shl[b] = q * Shl[a]
  <1> DEFINE P(n) == \E q \in Nat \ {0} : Shl[a + n] = q * Shl[a]
             S == {n \in Nat : a + n <= UBITS => P(n)}
  <1>1. P(0)
    <2>1. Shl[a] \in Nat /\ a + 0 = a
      BY ShlPositive, ShiftAssumption
    <2>2. Shl[a + 0] = 1 * Shl[a] /\ 1 \in Nat \ {0}
      BY <2>1
    <2> QED BY <2>2, Zenon
  <1>2. ASSUME NEW n \in Nat, a + (n + 1) <= UBITS, P(n) PROVE P(n + 1)
    <2>1. PICK q \in Nat \ {0} : Shl[a + n] = q * Shl[a]
      BY <1>2, Zenon
    <2>2. /\ a + (n + 1) \in 0..UBITS /\ a + (n + 1) > 0 /\ a + (n + 1) - 1 = a + n
          /\ a \in 0..UBITS
      BY <1>2, ShiftAssumption
    <2>3. Shl[a + (n + 1)] = 2 * Shl[a + n] /\ Shl[a] \in Nat
      BY <2>2, ShlStep, ShlPositive
    <2>4. Shl[a + (n + 1)] = (2 * q) * Shl[a] /\ 2 * q \in Nat \ {0}
      BY <2>1, <2>3
    <2> QED BY <2>4, Zenon
  <1> HIDE DEF P
  <1>3. 0 \in S
    BY <1>1
  <1>4. \A n \in Nat : n \in S => n + 1 \in S
    <2> SUFFICES ASSUME NEW n \in Nat, n \in S, a + (n + 1) <= UBITS PROVE P(n + 1)
      OBVIOUS
    <2>1. a + n <= UBITS
      BY ShiftAssumption
    <2> QED BY <1>2, <2>1
  <1>5. Nat \subseteq S
    <2> HIDE DEF S
    <2> QED BY <1>3, <1>4, Induction, Zenon
  <1>6. b - a \in Nat /\ a + (b - a) = b
    OBVIOUS
  <1>7. P(b - a)
    BY <1>5, <1>6
  <1> QED BY <1>6, <1>7 DEF P

-----------------------------------------------------------------------------
(* FlattenSeq *)

\* f[i] is the concatenation of the first i members of q.
IsFlat(q, f) == f = [i \in 1..Len(q) |-> IF i = 1 THEN q[i] ELSE f[i - 1] \o q[i]]

\* There is such a function: it grows with q.
LEMMA FlatGrows ==
  ASSUME NEW q \in Seq(Seq(Nat)), NEW x \in Seq(Nat), NEW f, IsFlat(q, f)
  PROVE  \E g : /\ IsFlat(Append(q, x), g)
                /\ \A i \in 1..Len(q) : g[i] = f[i]
                /\ g[Len(q) + 1] = IF Len(q) = 0 THEN x ELSE f[Len(q)] \o x
  <1> DEFINE n == Len(q)
             r == Append(q, x)
             last == IF n = 0 THEN x ELSE f[n] \o x
             g == [i \in 1..(n + 1) |-> IF i = n + 1 THEN last ELSE f[i]]
  <1>1. n \in Nat /\ Len(r) = n + 1 /\ r[n + 1] = x /\ \A i \in 1..n : r[i] = q[i]
    OBVIOUS
  <1>2. ASSUME NEW i \in 1..(n + 1)
        PROVE  g[i] = IF i = 1 THEN r[i] ELSE g[i - 1] \o r[i]
    <2>1. CASE i = n + 1
      <3>1. g[i] = last /\ r[i] = x
        BY <1>1, <2>1
      <3>2. n # 0 => g[i - 1] = f[n] /\ i # 1
        BY <1>1, <2>1
      <3>3. n = 0 => i = 1
        BY <2>1
      <3> QED BY <3>1, <3>2, <3>3
    <2>2. CASE i # n + 1
      <3>1. i \in 1..n /\ g[i] = f[i] /\ r[i] = q[i]
        BY <1>1, <2>2
      <3>2. f[i] = IF i = 1 THEN q[i] ELSE f[i - 1] \o q[i]
        BY <3>1, Zenon DEF IsFlat
      <3>3. i # 1 => g[i - 1] = f[i - 1]
        BY <1>1, <3>1
      <3> QED BY <3>1, <3>2, <3>3
    <2> QED BY <2>1, <2>2
  <1>3. g = [i \in 1..(n + 1) |-> IF i = 1 THEN r[i] ELSE g[i - 1] \o r[i]]
    BY <1>2, Zenon
  <1>4. IsFlat(r, g)
    BY <1>1, <1>3, Zenon DEF IsFlat
  <1>5. \A i \in 1..n : g[i] = f[i]
    BY <1>1
  <1>6. g[n + 1] = last
    BY <1>1
  <1> HIDE DEF g
  <1> QED BY <1>4, <1>5, <1>6, Zenon

\* A prefix of a sequence of sequences.
LEMMA Shorter ==
  ASSUME NEW q \in Seq(Seq(Nat)), NEW n \in Nat, n + 1 <= Len(q)
  PROVE  /\ SubSeq(q, 1, n) \in Seq(Seq(Nat)) /\ Len(SubSeq(q, 1, n)) = n
         /\ q[n + 1] \in Seq(Nat) /\ SubSeq(q, 1, n + 1) = Append(SubSeq(q, 1, n), q[n + 1])
  <1>1. /\ SubSeq(q, 1, n) \in Seq(Seq(Nat)) /\ Len(SubSeq(q, 1, n)) = n
        /\ q[n + 1] \in Seq(Nat)
    OBVIOUS
  <1>2. SubSeq(q, 1, n + 1) = Append(SubSeq(q, 1, n), q[n + 1])
    OBVIOUS
  <1> QED BY <1>1, <1>2

LEMMA FlatExists ==
  ASSUME NEW q \in Seq(Seq(Nat))
  PROVE  \E f : IsFlat(q, f)
  <1> DEFINE Solved(n) == \E f : IsFlat(SubSeq(q, 1, n), f)
             S == {n \in Nat : n <= Len(q) => Solved(n)}
  <1>1. Solved(0)
    <2> DEFINE e == SubSeq(q, 1, 0)
               f == [i \in 1..0 |-> e]
    <2>1. Len(e) = 0
      OBVIOUS
    <2>2. f = [i \in 1..Len(e) |-> IF i = 1 THEN e[i] ELSE f[i - 1] \o e[i]]
      BY <2>1
    <2> QED BY <2>2, Zenon DEF IsFlat
  <1>2. ASSUME NEW n \in Nat, n + 1 <= Len(q), Solved(n) PROVE Solved(n + 1)
    <2>1. PICK f : IsFlat(SubSeq(q, 1, n), f)
      BY <1>2, Zenon
    <2>2. /\ SubSeq(q, 1, n) \in Seq(Seq(Nat)) /\ q[n + 1] \in Seq(Nat)
          /\ SubSeq(q, 1, n + 1) = Append(SubSeq(q, 1, n), q[n + 1])
      BY <1>2, Shorter
    <2>3. \E g : IsFlat(Append(SubSeq(q, 1, n), q[n + 1]), g)
      BY <2>1, <2>2, FlatGrows, Zenon
    <2> QED BY <2>2, <2>3, Zenon
  <1> HIDE DEF Solved
  <1>3. 0 \in S
    BY <1>1
  <1>4. \A n \in Nat : n \in S => n + 1 \in S
    BY <1>2
  <1>5. Nat \subseteq S
    <2> HIDE DEF S
    <2> QED BY <1>3, <1>4, Induction, Zenon
  <1>6. Solved(Len(q)) /\ SubSeq(q, 1, Len(q)) = q
    BY <1>5
  <1> QED BY <1>6, Zenon DEF Solved

\* and only one.
LEMMA FlatUnique ==
  ASSUME NEW q \in Seq(Seq(Nat)), NEW f, NEW g, IsFlat(q, f), IsFlat(q, g),
         NEW i \in 1..Len(q)
  PROVE  f[i] = g[i] /\ f[i] \in Seq(Nat)
  <1> DEFINE S == {n \in Nat : n + 1 <= Len(q) => f[n + 1] = g[n + 1] /\ f[n + 1] \in Seq(Nat)}
  <1>1. \A j \in 1..Len(q) : /\ f[j] = IF j = 1 THEN q[j] ELSE f[j - 1] \o q[j]
                             /\ g[j] = IF j = 1 THEN q[j] ELSE g[j - 1] \o q[j]
                             /\ q[j] \in Seq(Nat)
    <2>1. \A j \in 1..Len(q) : f[j] = IF j = 1 THEN q[j] ELSE f[j - 1] \o q[j]
      BY Zenon DEF IsFlat
    <2>2. \A j \in 1..Len(q) : g[j] = IF j = 1 THEN q[j] ELSE g[j - 1] \o q[j]
      BY Zenon DEF IsFlat
    <2>3. \A j \in 1..Len(q) : q[j] \in Seq(Nat)
      OBVIOUS
    <2> QED BY <2>1, <2>2, <2>3, Zenon
  <1>2. 0 \in S
    <2> SUFFICES ASSUME 0 + 1 <= Len(q) PROVE f[0 + 1] = g[0 + 1] /\ f[0 + 1] \in Seq(Nat)
      OBVIOUS
    <2>1. 0 + 1 = 1 /\ 1 \in 1..Len(q)
      OBVIOUS
    <2> QED BY <1>1, <2>1, Zenon
  <1>3. ASSUME NEW n \in Nat, n \in S PROVE n + 1 \in S
    <2>0. PICK m, l \in Nat : m = n + 1 /\ l = m + 1
      OBVIOUS
    <2> SUFFICES ASSUME l <= Len(q) PROVE f[l] = g[l] /\ f[l] \in Seq(Nat)
      BY <2>0
    <2>1. l \in 1..Len(q) /\ l # 1 /\ l - 1 = m /\ m <= Len(q)
      BY <2>0
    <2>2. f[m] = g[m] /\ f[m] \in Seq(Nat)
      BY <1>3, <2>0, <2>1
    <2>3. f[l] = f[m] \o q[l] /\ g[l] = g[m] \o q[l] /\ q[l] \in Seq(Nat)
      <3>1. \A j \in 1..Len(q) : j # 1 => /\ f[j] = f[j - 1] \o q[j] /\ q[j] \in Seq(Nat)
                                         /\ g[j] = g[j - 1] \o q[j]
        BY <1>1, Zenon
      <3> QED BY <2>1, <3>1, Zenon
    <2>4. f[m] \o q[l] \in Seq(Nat)
      BY <2>2, <2>3
    <2> QED BY <2>2, <2>3, <2>4, Zenon
  <1>4. Nat \subseteq S
    <2> HIDE DEF S
    <2> QED BY <1>2, <1>3, Induction, Zenon
  <1>5. i - 1 \in Nat /\ i - 1 + 1 = i /\ i <= Len(q)
    OBVIOUS
  <1> QED BY <1>4, <1>5, Zenon

\* Flattening takes one member after the other.
LEMMA FlattenAppend ==
  ASSUME NEW q \in Seq(Seq(Nat)), NEW x \in Seq(Nat)
  PROVE  FlattenSeq(q) \in Seq(Nat) /\ FlattenSeq(Append(q, x)) = FlattenSeq(q) \o x
  <1>1. PICK f : IsFlat(q, f)
    BY FlatExists, Zenon
  <1>2. PICK g : /\ IsFlat(Append(q, x), g)
                 /\ \A i \in 1..Len(q) : g[i] = f[i]
                 /\ g[Len(q) + 1] = IF Len(q) = 0 THEN x ELSE f[Len(q)] \o x
    BY <1>1, FlatGrows, Zenon
  <1>3. ASSUME NEW r \in Seq(Seq(Nat)), NEW h, IsFlat(r, h), Len(r) # 0
        PROVE  FlattenSeq(r) = h[Len(r)] /\ h[Len(r)] \in Seq(Nat)
    <2> DEFINE c == CHOOSE e : IsFlat(r, e)
    <2>1. FlattenSeq(r) = c[Len(r)]
      BY <1>3, Zenon DEF FlattenSeq, IsFlat
    <2>2. IsFlat(r, c)
      BY <1>3, Zenon
    <2>3. Len(r) \in 1..Len(r)
      BY <1>3
    <2> HIDE DEF c
    <2> QED BY <1>3, <2>1, <2>2, <2>3, FlatUnique, Zenon
  <1>4. Append(q, x) \in Seq(Seq(Nat)) /\ Len(Append(q, x)) = Len(q) + 1 /\ Len(q) + 1 # 0
    OBVIOUS
  <1>5. FlattenSeq(Append(q, x)) = g[Len(q) + 1]
    BY <1>2, <1>3, <1>4, Zenon
  <1>6. CASE Len(q) = 0
    <2>1. FlattenSeq(q) = q /\ q = <<>>
      BY <1>6 DEF FlattenSeq
    <2>2. <<>> \in Seq(Nat) /\ <<>> \o x = x
      OBVIOUS
    <2> QED BY <1>2, <1>5, <1>6, <2>1, <2>2, Zenon
  <1>7. CASE Len(q) # 0
    <2>1. FlattenSeq(q) = f[Len(q)] /\ f[Len(q)] \in Seq(Nat)
      BY <1>1, <1>3, <1>7, Zenon
    <2> QED BY <1>2, <1>5, <1>7, <2>1, Zenon
  <1> QED BY <1>6, <1>7

-----------------------------------------------------------------------------
(* Addresses *)

Half == Shl[VA_WIDTH - 1]
Whole == Shl[VA_WIDTH]
Top == Shl[UBITS]

\* The sizes of a page, of half the virtual addresses, of all and of a usize.
LEMMA Sizes ==
  /\ PAGE_SIZE \in Nat \ {0} /\ Half \in Nat \ {0} /\ Whole \in Nat \ {0} /\ Top \in Nat \ {0}
  /\ Whole = 2 * Half
  /\ \E q \in Nat \ {0} : Half = q * PAGE_SIZE
  /\ \E r \in Nat \ {0} : Top = r * Whole
  <1>1. /\ UBITS \in Nat /\ VA_WIDTH \in Nat /\ VA_WIDTH - 1 \in Nat /\ PAGE_SIZE_BITS \in Nat
        /\ PAGE_SIZE_BITS <= VA_WIDTH - 1 /\ VA_WIDTH <= UBITS /\ VA_WIDTH > 0
        /\ VA_WIDTH - 1 <= UBITS
        /\ {PAGE_SIZE_BITS, VA_WIDTH - 1, VA_WIDTH, UBITS} \subseteq 0..UBITS
    BY ShiftAssumption, TranslateAssumption
  <1>2. /\ PAGE_SIZE \in Nat \ {0} /\ Half \in Nat \ {0} /\ Whole \in Nat \ {0}
        /\ Top \in Nat \ {0}
    BY <1>1, ShlPositive DEF PAGE_SIZE, Half, Whole, Top
  <1>3. Whole = 2 * Half
    BY <1>1, ShlStep DEF Half, Whole
  <1>4. \E q \in Nat \ {0} : Half = q * PAGE_SIZE
    BY <1>1, ShlMultiple, Zenon DEF PAGE_SIZE, Half
  <1>5. \E r \in Nat \ {0} : Top = r * Whole
    <2>1. UBITS <= UBITS
      BY <1>1
    <2> QED BY <1>1, <2>1, ShlMultiple, Zenon DEF Top, Whole
  <1> QED BY <1>2, <1>3, <1>4, <1>5, Zenon

\* Quotient and remainder.
LEMMA DivMod ==
  ASSUME NEW p \in Nat \ {0}, NEW q \in Nat, NEW r \in Nat, r < p, NEW a, a = q * p + r
  PROVE  a \div p = q /\ a % p = r
  OBVIOUS

Division(a, p, q, r) ==
  p \in Nat \ {0} /\ q \in Nat /\ r \in Nat /\ r < p /\ a = q * p + r

LEMMA DivisionIs ==
  ASSUME NEW a, NEW p, NEW q, NEW r, Division(a, p, q, r)
  PROVE  a \div p = q /\ a % p = r
  BY DivMod, Zenon DEF Division

\* Every number has them.
LEMMA Divided ==
  ASSUME NEW p \in Nat \ {0}, NEW a \in Nat
  PROVE  \E q, r \in Nat : r < p /\ a = q * p + r /\ a \div p = q /\ a % p = r
  <1> DEFINE Parts(n) == \E q, r \in Nat : r < p /\ n = q * p + r
             S == {n \in Nat : Parts(n)}
  <1>1. Parts(0)
    <2>1. 0 < p /\ 0 = 0 * p + 0 /\ 0 \in Nat
      OBVIOUS
    <2> QED BY <2>1, Zenon
  <1>2. ASSUME NEW n \in Nat, Parts(n) PROVE Parts(n + 1)
    <2>1. PICK q, r \in Nat : r < p /\ n = q * p + r
      BY <1>2, Zenon
    <2>2. CASE r + 1 < p
      <3>1. r + 1 \in Nat /\ n + 1 = q * p + (r + 1)
        BY <2>1
      <3> QED BY <2>2, <3>1, Zenon
    <2>3. CASE ~(r + 1 < p)
      <3>1. r + 1 = p
        BY <2>1, <2>3
      <3>2. q + 1 \in Nat /\ 0 \in Nat /\ 0 < p /\ n + 1 = (q + 1) * p + 0
        BY <2>1, <3>1
      <3> QED BY <3>2, Zenon
    <2> QED BY <2>2, <2>3
  <1> HIDE DEF Parts
  <1>3. 0 \in S /\ \A n \in Nat : n \in S => n + 1 \in S
    BY <1>1, <1>2
  <1>4. Parts(a)
    BY <1>3, Induction, Zenon
  <1>5. PICK q, r \in Nat : r < p /\ a = q * p + r
    BY <1>4, Zenon DEF Parts
  <1>6. a \div p = q /\ a % p = r
    BY <1>5, DivMod, Zenon
  <1> QED BY <1>5, <1>6, Zenon

\* A remainder by a multiple of p has the same remainder by p.
LEMMA ModMod ==
  ASSUME NEW p \in Nat \ {0}, NEW r \in Nat \ {0}, NEW a \in Nat
  PROVE  (a % (r * p)) % p = a % p
  <1>1. PICK m \in Nat : m = r * p
    OBVIOUS
  <1>2. m # 0
    BY <1>1
  <1>3. PICK d, b \in Nat : b < m /\ a = d * m + b /\ a \div m = d /\ a % m = b
    <2>1. m \in Nat \ {0}
      BY <1>2
    <2> QED BY <2>1, Divided, Zenon
  <1>4. PICK e, c \in Nat : c < p /\ b = e * p + c /\ b \div p = e /\ b % p = c
    BY Divided, Zenon
  <1>5. d * r + e \in Nat
    OBVIOUS
  <1>6. d * m = d * r * p
    BY <1>1
  <1>7. a = (d * r + e) * p + c
    BY <1>3, <1>4, <1>6
  <1>8. a % p = c
    BY <1>4, <1>5, <1>7, DivMod
  <1> QED BY <1>1, <1>3, <1>4, <1>8, Zenon

-----------------------------------------------------------------------------
(* The pointer of a call *)

\* What a pointer of the upper half is above its virtual address.
Base == IF ptr < Half THEN 0 ELSE Top - Whole

\* A pointer that the hardware takes is in one of the halves.
LEMMA Halves ==
  ASSUME NEW x \in Canonical
  PROVE  x \in Nat /\ x < Top /\ (x < Half \/ x >= Top - Half)
  <1>1. x \in Nat /\ x < Top /\ usize(VirtAddr(x)) = x
    BY Sizes DEF Canonical, Usize, Top
  <1>2. PICK va \in Nat : va = VirtAddr(x) /\ va < Whole
    BY <1>1, Sizes, Divided, Zenon DEF VirtAddr, Whole
  <1>3. PICK q, r \in Nat : r < Half /\ va = q * Half + r /\ va \div Half = q /\ va % Half = r
    BY Sizes, Divided, Zenon
  <1>4. CASE q > 0
    <2>1. x = Top - Half + r
      BY <1>1, <1>2, <1>3, <1>4 DEF usize, Half, Top
    <2> QED BY <1>1, <1>3, <2>1, Sizes
  <1>5. CASE ~(q > 0)
    <2>1. x = va /\ q = 0
      BY <1>1, <1>2, <1>3, <1>5 DEF usize, Half
    <2>2. va = r
      BY <1>3, <2>1, Sizes
    <2> QED BY <1>1, <1>3, <2>1, <2>2
  <1> QED BY <1>4, <1>5

\* The virtual address of a pointer, and the pointer of a virtual address.
LEMMA Lower ==
  ASSUME NEW x \in Nat, x < Whole
  PROVE  /\ VirtAddr(x) = x
         /\ x < Half => usize(x) = x
         /\ x >= Half => usize(x) = x + (Top - Whole)
  <1>1. VirtAddr(x) = x
    <2>1. x = 0 * Whole + x
      BY Sizes
    <2> QED BY <2>1, Sizes, DivMod DEF VirtAddr, Whole
  <1>2. CASE x < Half
    <2>1. x = 0 * Half + x
      BY Sizes
    <2>2. x \div Half = 0
      BY <1>2, <2>1, Sizes, DivMod
    <2> QED BY <1>1, <1>2, <2>2, Sizes DEF usize, Half
  <1>3. CASE x >= Half
    <2>1. PICK q, y \in Nat : q = 1 /\ y = x - Half
      BY <1>3, Sizes
    <2>2. x \div Half = 1 /\ x % Half = x - Half
      <3>1. Half \in Nat \ {0} /\ y < Half /\ x = q * Half + y
        BY <1>3, <2>1, Sizes
      <3>2. x \div Half = q /\ x % Half = y
        BY <3>1, DivMod, Zenon
      <3> QED BY <2>1, <3>2, Zenon
    <2>3. usize(x) = Top - Half + (x - Half)
      <3>1. usize(x) = IF x \div Half > 0 THEN Top - Half + (x % Half) ELSE x
        BY Zenon DEF usize, Half, Top
      <3> QED BY <2>2, <3>1
    <2> QED BY <1>1, <1>3, <2>3, Sizes
  <1> QED BY <1>2, <1>3, Sizes

LEMMA Upper ==
  ASSUME NEW x \in Nat, x >= Top - Whole, x < Top
  PROVE  VirtAddr(x) = x - (Top - Whole)
  <1>1. PICK r \in Nat \ {0} : Top = r * Whole
    BY Sizes, Zenon
  <1>2. r - 1 \in Nat /\ Top - Whole = (r - 1) * Whole
    BY <1>1, Sizes
  <1>3. x - (Top - Whole) \in Nat /\ x - (Top - Whole) < Whole
        /\ x = (r - 1) * Whole + (x - (Top - Whole))
    BY <1>2, Sizes
  <1>4. x % Whole = x - (Top - Whole)
    <2>1. PICK q, y \in Nat : q = r - 1 /\ y = x - (Top - Whole)
      BY <1>2, <1>3
    <2>2. Whole \in Nat \ {0} /\ y < Whole /\ x = q * Whole + y
      BY <1>3, <2>1, Sizes, Zenon
    <2>3. x % Whole = y
      BY <2>2, DivMod, Zenon
    <2> QED BY <2>1, <2>3, Zenon
  <1> QED BY <1>4, Zenon DEF VirtAddr, Whole

\* A buffer has its virtual addresses at a fixed distance, and so do the
\* pointers after them; only the end of the lower half is far below its pointer.
Named ==
  /\ ptr \in Nat /\ len \in Nat /\ end = ptr + len /\ Base \in Nat /\ Base <= ptr
  /\ \A n \in 0..len : VirtAddr(ptr + n) = ptr + n - Base
  /\ \A n \in 1..len : \/ usize(ptr + n - Base) = ptr + n
                       \/ /\ n = len /\ usize(ptr + n - Base) \in Nat
                          /\ usize(ptr + n - Base) >= end

LEMMA InitNamed ==
  ASSUME UserInit
  PROVE  Named
  <1>1. /\ ptr \in Canonical /\ len \in Nat /\ end = ptr + len /\ ptr + len < Top
        /\ \A k \in 0..(len - 1) : ptr + k \in Canonical
    BY TranslateAssumption, Sizes DEF UserInit, SameHalf, Usize, Top
  <1>2. ptr \in Nat /\ ptr < Top /\ (ptr < Half \/ ptr >= Top - Half)
    BY <1>1, Halves
  <1>3. Top >= Whole
    BY Sizes
  <1>4. CASE ptr < Half
    <2>1. Base = 0
      BY <1>4 DEF Base
    <2>2. ptr + len <= Half \/ Top = Whole
      <3>1. SUFFICES ASSUME ptr + len > Half PROVE Top = Whole
        BY <1>1, <1>2, Sizes
      <3>2. Half - ptr \in 0..(len - 1) /\ ptr + (Half - ptr) = Half
        BY <1>1, <1>2, <1>4, <3>1, Sizes
      <3>3. Half \in Canonical
        BY <1>1, <3>2
      <3> QED BY <1>3, <3>3, Halves, Sizes
    <2>3. ptr + len < Whole
      BY <1>1, <1>2, <2>2, Sizes
    <2>4. \A n \in 0..len : VirtAddr(ptr + n) = ptr + n
      BY <1>1, <1>2, <2>3, Lower, Sizes
    <2>5. ASSUME NEW n \in 1..len
          PROVE  \/ usize(ptr + n) = ptr + n
                 \/ n = len /\ usize(ptr + n) \in Nat /\ usize(ptr + n) >= end
      <3>1. ptr + n \in Nat /\ ptr + n < Whole /\ ptr + n <= ptr + len
        BY <1>1, <1>2, <2>3, Sizes
      <3>2. CASE ptr + n < Half
        BY <3>1, <3>2, Lower
      <3>3. CASE ~(ptr + n < Half)
        <4>1. usize(ptr + n) = ptr + n + (Top - Whole)
          BY <3>1, <3>3, Lower, Sizes
        <4> QED BY <1>1, <1>2, <1>3, <2>2, <3>1, <3>3, <4>1, Sizes
      <3> QED BY <3>2, <3>3
    <2>6. \A n \in 0..len : ptr + n - Base = ptr + n
      BY <1>1, <1>2, <2>1
    <2> QED BY <1>1, <1>2, <2>1, <2>4, <2>5, <2>6 DEF Named
  <1>5. CASE ptr >= Top - Half /\ ~(ptr < Half)
    <2>1. Base = Top - Whole /\ Base \in Nat /\ Base <= ptr
      BY <1>2, <1>3, <1>5, Sizes DEF Base
    <2>2. \A n \in 0..len : VirtAddr(ptr + n) = ptr + n - Base
      BY <1>1, <1>2, <2>1, Upper, Sizes
    <2>3. ASSUME NEW n \in 1..len PROVE usize(ptr + n - Base) = ptr + n
      <3>1. PICK x \in Nat : x = ptr + n - Base /\ x < Whole /\ x >= Half
        BY <1>1, <1>2, <1>5, <2>1, Sizes
      <3>2. usize(x) = x + (Top - Whole)
        BY <3>1, Lower, Sizes
      <3> QED BY <1>1, <1>2, <2>1, <3>1, <3>2, Sizes
    <2> QED BY <1>1, <1>2, <2>1, <2>2, <2>3 DEF Named
  <1> QED BY <1>2, <1>4, <1>5

-----------------------------------------------------------------------------
(* A turn of translated_byte_buffer *)

\* A function on 1..N is a sequence.
LEMMA SequenceIs ==
  ASSUME NEW N \in Nat, NEW s, DOMAIN s = 1..N, s = [k \in 1..N |-> s[k]],
         \A k \in 1..N : s[k] \in Nat
  PROVE  s \in Seq(Nat) /\ Len(s) = N
  <1>1. s \in [1..N -> Nat]
    BY Zenon
  <1> QED BY <1>1

\* Where a slice ends in its page.
Ends(end_va) == IF page_offset(end_va) = 0 THEN PAGE_SIZE ELSE page_offset(end_va)

\* The end of a slice is in the page of its start, or right after that page,
\* and no further than the end of the buffer.
LEMMA SliceEnd ==
  ASSUME Named, NEW n \in Nat, n < len, NEW va, va = VirtAddr(ptr + n),
         NEW f \in Nat, NEW o \in Nat, o < PAGE_SIZE, va = f * PAGE_SIZE + o,
         va \div PAGE_SIZE = f
  PROVE  \E m \in Nat : /\ n < m /\ m <= len /\ EndOf(va) = va + (m - n)
                        /\ Ends(EndOf(va)) = o + (m - n) /\ o + (m - n) <= PAGE_SIZE
  <1>0. PICK p \in Nat \ {0}, g \in Nat : p = PAGE_SIZE /\ g = f * p
    BY Sizes
  <1>1. PICK t \in Nat : t = VirtAddr(end) /\ t = va + (len - n)
    <2>1. /\ n \in 0..len /\ len \in 0..len /\ end = ptr + len /\ ptr \in Nat /\ len \in Nat
          /\ Base \in Nat /\ Base <= ptr
      BY DEF Named
    <2>2. va = ptr + n - Base /\ VirtAddr(end) = ptr + len - Base
      BY <2>1, Zenon DEF Named
    <2> QED BY <2>1, <2>2
  <1>2. len \in Nat
    BY DEF Named
  <1>3. va = g + o /\ va \in Nat /\ o < p /\ (f + 1) * p = g + p
    BY <1>0
  <1>4. EndOf(va) = IF g + p < t THEN g + p ELSE t
    BY <1>0, <1>1, <1>3 DEF EndOf, MinOf, floor
  <1>5. ASSUME NEW e \in Nat, g < e, e <= g + p
        PROVE  Ends(e) = e - g
    <2>1. CASE e = g + p
      <3>1. PICK q, r \in Nat : q = f + 1 /\ r = 0
        OBVIOUS
      <3>2. e = q * p + r /\ r < p
        BY <1>3, <2>1, <3>1
      <3>3. e % p = r
        BY <3>2, DivMod, Zenon
      <3> QED BY <1>0, <2>1, <3>1, <3>3 DEF Ends, page_offset
    <2>2. CASE e < g + p
      <3>1. PICK r \in Nat : r = e - g
        BY <1>5
      <3>2. e = f * p + r /\ r < p /\ r # 0
        BY <1>0, <1>5, <2>2, <3>1
      <3>3. Division(e, p, f, r)
        BY <3>2, Zenon DEF Division
      <3>4. e % p = r
        BY <3>3, DivisionIs, Zenon
      <3> QED BY <1>0, <3>1, <3>2, <3>4 DEF Ends, page_offset
    <2> QED BY <1>5, <2>1, <2>2
  <1>6. CASE g + p < t
    <2>1. PICK m \in Nat : m = n + (p - o)
      BY <1>3
    <2>2. EndOf(va) = g + p /\ g + p \in Nat /\ g < g + p /\ g + p <= g + p
      BY <1>4, <1>6
    <2>3. Ends(EndOf(va)) = p
      BY <1>5, <2>2
    <2>4. n < m /\ m <= len /\ g + p = va + (m - n) /\ p = o + (m - n) /\ o + (m - n) <= p
      BY <1>1, <1>2, <1>3, <1>6, <2>1
    <2> QED BY <1>0, <2>2, <2>3, <2>4, Zenon
  <1>7. CASE ~(g + p < t)
    <2>1. EndOf(va) = t /\ g < t /\ t <= g + p
      BY <1>1, <1>2, <1>3, <1>4, <1>7
    <2>2. Ends(EndOf(va)) = t - g
      BY <1>5, <2>1
    <2>3. t - g = o + (len - n) /\ o + (len - n) <= p /\ len <= len
      BY <1>1, <1>2, <1>3, <2>1
    <2> QED BY <1>0, <1>1, <1>2, <2>1, <2>2, <2>3, Zenon
  <1> QED BY <1>6, <1>7

\* A turn takes the bytes from the n-th up to some m-th, which is then the next
\* to take, unless it took the last one.
LEMMA Turn ==
  ASSUME Named, NEW n \in Nat, n < len, NEW va, va = VirtAddr(ptr + n),
         NEW e, e = EndOf(va)
  PROVE  \E m \in Nat :
           /\ n < m /\ m <= len
           /\ Slice(va, e) \in Seq(Nat) /\ Len(Slice(va, e)) = m - n
           /\ \A k \in 1..(m - n) : Slice(va, e)[k] = Byte(n + k - 1)
           /\ After(e) = ptr + m \/ (m = len /\ After(e) \in Nat /\ After(e) >= end)
  <1>0. /\ ptr \in Nat /\ len \in Nat /\ Base \in Nat /\ Base <= ptr
        /\ \A i \in 0..len : VirtAddr(ptr + i) = ptr + i - Base
        /\ \A i \in 1..len : \/ usize(ptr + i - Base) = ptr + i
                             \/ /\ i = len /\ usize(ptr + i - Base) \in Nat
                                /\ usize(ptr + i - Base) >= end
    BY Zenon DEF Named
  <1>1. va \in Nat /\ va = ptr + n - Base
    BY <1>0
  <1>p. PICK p \in Nat \ {0} : p = PAGE_SIZE
    BY Sizes
  <1>2. PICK f, o \in Nat : o < p /\ va = f * p + o /\ va \div p = f /\ va % p = o
    BY <1>1, Divided, Zenon
  <1>3. PICK m \in Nat : /\ n < m /\ m <= len /\ e = va + (m - n)
                         /\ Ends(e) = o + (m - n) /\ o + (m - n) <= p
    <2>1. o < PAGE_SIZE /\ va = f * PAGE_SIZE + o /\ va \div PAGE_SIZE = f
      BY <1>p, <1>2, Zenon
    <2>2. PICK m \in Nat : /\ n < m /\ m <= len /\ EndOf(va) = va + (m - n)
                           /\ Ends(EndOf(va)) = o + (m - n) /\ o + (m - n) <= PAGE_SIZE
      BY <2>1, SliceEnd
    <2> QED BY <1>p, <2>2, Zenon
  <1>4. PICK c \in Nat : c = ppn(va)
    BY TranslateAssumption DEF ppn
  <1>5. Slice(va, e) = [k \in 1..(m - n) |-> c * p + o + k - 1]
    <2>1. Slice(va, e) = [k \in 1..(Ends(e) - o) |-> c * p + o + k - 1]
      BY <1>p, <1>2, <1>4, Zenon DEF Slice, Ends, Bytes, page_offset
    <2>2. Ends(e) - o = m - n
      BY <1>3
    <2> QED BY <2>1, <2>2, Zenon
  <1>6. ASSUME NEW k \in 1..(m - n) PROVE Byte(n + k - 1) = c * p + o + k - 1
    <2>0. PICK g \in Nat : g = f * p
      OBVIOUS
    <2>1. PICK x, r \in Nat : r = o + k - 1 /\ r < p /\ x = g + r /\ x = va + k - 1
      <3>1. va = g + o
        BY <1>2, <2>0, Zenon
      <3>2. PICK r \in Nat : r = o + k - 1 /\ r < p
        BY <1>3
      <3>3. g + r \in Nat /\ g + r = va + k - 1
        BY <1>1, <3>1, <3>2
      <3> QED BY <3>2, <3>3, Zenon
    <2>2. x \div p = f /\ x % p = r
      <3>1. Division(x, p, f, r)
        BY <2>0, <2>1, Zenon DEF Division
      <3> QED BY <3>1, DivisionIs, Zenon
    <2>3. n + k - 1 \in 0..len /\ ptr + (n + k - 1) - Base = x
      BY <1>0, <1>1, <1>3, <2>1
    <2>4. VirtAddr(ptr + (n + k - 1)) = x
      BY <1>0, <2>3
    <2>5. ppn(x) = c
      BY <1>p, <1>2, <1>4, <2>2, Zenon DEF ppn, floor
    <2>6. Byte(n + k - 1) = c * p + r
      BY <1>p, <2>2, <2>4, <2>5, Zenon DEF Byte, translate_va, page_offset
    <2> QED BY <2>1, <2>6
  <1>7. m - n \in Nat /\ \A k \in 1..(m - n) : c * p + o + k - 1 \in Nat
    BY <1>3
  <1>8. Slice(va, e) \in Seq(Nat) /\ Len(Slice(va, e)) = m - n
    <2>1. PICK N \in Nat : N = m - n
      BY <1>7
    <2>2. Slice(va, e) = [k \in 1..N |-> c * p + o + k - 1]
      BY <1>5, <2>1, Zenon
    <2>3. \A k \in 1..N : c * p + o + k - 1 \in Nat
      BY <1>7, <2>1, Zenon
    <2>4. PICK s : s = Slice(va, e)
      OBVIOUS
    <2>5. DOMAIN s = 1..N /\ s = [k \in 1..N |-> s[k]] /\ \A k \in 1..N : s[k] \in Nat
      BY <2>2, <2>3, <2>4
    <2>6. s \in Seq(Nat) /\ Len(s) = N
      BY <2>5, SequenceIs, Zenon
    <2> QED BY <2>1, <2>4, <2>6, Zenon
  <1>9. \A k \in 1..(m - n) : Slice(va, e)[k] = Byte(n + k - 1)
    BY <1>5, <1>6, Zenon
  <1>10. After(e) = ptr + m \/ (m = len /\ After(e) \in Nat /\ After(e) >= end)
    <2>1. m \in 1..len /\ e = ptr + m - Base
      BY <1>0, <1>1, <1>3
    <2> QED BY <1>0, <2>1, Zenon DEF After
  <1> QED BY <1>3, <1>8, <1>9, <1>10, Zenon

-----------------------------------------------------------------------------
(* The slices of a buffer and the place of the iterator in them *)

\* Byte, for a pointer p.
ByteAt(p, k) == translate_va(VirtAddr(p + k))

\* The slices w are the first bytes of the buffer of l bytes at p: slice s ends
\* before the byte b[s].
Layout(p, l, w, b) ==
  /\ b \in [0..Len(w) -> Nat] /\ b[0] = 0 /\ b[Len(w)] <= l
  /\ \A s \in 0..Len(w) : b[s] <= b[Len(w)]
  /\ \A s \in 1..Len(w) : /\ b[s] = b[s - 1] + Len(w[s]) /\ Len(w[s]) > 0
                          /\ \A k \in 1..Len(w[s]) : w[s][k] = ByteAt(p, b[s - 1] + k - 1)
  /\ FlattenSeq(w) \in Seq(Nat) /\ Len(FlattenSeq(w)) = b[Len(w)]
  /\ \A k \in 1..b[Len(w)] : FlattenSeq(w)[k] = ByteAt(p, k - 1)

\* The iterator that gave the addresses u is at byte o of slice i + 1.
Place(p, w, b, i, o, u) ==
  /\ i \in 0..Len(w) /\ o \in Nat
  /\ i < Len(w) => o < Len(w[i + 1])
  /\ i = Len(w) => o = 0
  /\ u \in Seq(Nat) /\ Len(u) = b[i] + o
  /\ \A k \in 1..Len(u) : u[k] = ByteAt(p, k - 1)

\* Two sequences in a row.
LEMMA Joined ==
  ASSUME NEW z \in Seq(Nat), NEW x \in Seq(Nat)
  PROVE  /\ z \o x \in Seq(Nat) /\ Len(z \o x) = Len(z) + Len(x)
         /\ \A k \in 1..Len(z) : (z \o x)[k] = z[k]
         /\ \A k \in 1..(Len(z) + Len(x)) : k > Len(z) => (z \o x)[k] = x[k - Len(z)]
  OBVIOUS

\* Before the first turn there are no slices.
LEMMA LayoutEmpty ==
  ASSUME NEW p, NEW l \in Nat
  PROVE  \E b : Layout(p, l, <<>>, b) /\ b[0] = 0
  <1> DEFINE b == [s \in 0..0 |-> 0]
  <1>1. Len(<<>>) = 0 /\ FlattenSeq(<<>>) = <<>> /\ <<>> \in Seq(Nat)
    BY DEF FlattenSeq
  <1>2. b \in [0..0 -> Nat] /\ b[0] = 0
    OBVIOUS
  <1> HIDE DEF b
  <1>3. b[0] <= l /\ (\A s \in 0..0 : b[s] <= b[0]) /\ \A s \in 1..0 : FALSE
    BY <1>2
  <1> QED BY <1>1, <1>2, <1>3 DEF Layout

\* x holds the bytes from the n-th up to the m-th.
NextSlice(p, l, n, m, x) ==
  /\ n \in Nat /\ m \in Nat /\ n < m /\ m <= l
  /\ x \in Seq(Nat) /\ Len(x) = m - n
  /\ \A k \in 1..(m - n) : x[k] = ByteAt(p, n + k - 1)

\* A slice of the next bytes makes the layout longer.
Growing(p, l, w, b, m, x) ==
  /\ l \in Nat /\ w \in Seq(Seq(Nat)) /\ Layout(p, l, w, b)
  /\ NextSlice(p, l, b[Len(w)], m, x)

Reaches(p, l, w, m) == \E b : Layout(p, l, w, b) /\ b[Len(w)] = m

LEMMA LayoutGrows ==
  ASSUME NEW p, NEW l, NEW w, NEW b, NEW m, NEW x, Growing(p, l, w, b, m, x)
  PROVE  Reaches(p, l, Append(w, x), m)
  <1>w. /\ l \in Nat /\ w \in Seq(Seq(Nat)) /\ Layout(p, l, w, b)
        /\ NextSlice(p, l, b[Len(w)], m, x)
    BY Zenon DEF Growing
  <1>0. PICK n \in Nat : n = b[Len(w)]
    BY <1>w, Zenon DEF NextSlice
  <1>1. PICK N \in Nat : N = Len(w)
    BY <1>w
  <1>t. l \in Nat /\ m \in Nat /\ n < m /\ m <= l /\ x \in Seq(Nat) /\ Len(x) = m - n
    BY <1>0, <1>w, Zenon DEF NextSlice
  <1>x. \A k \in 1..(m - n) : x[k] = ByteAt(p, n + k - 1)
    BY <1>0, <1>w, Zenon DEF NextSlice
  <1> DEFINE r == Append(w, x)
             c == [s \in 0..(N + 1) |-> IF s = N + 1 THEN m ELSE b[s]]
             z == FlattenSeq(w)
  <1>2. r \in Seq(Seq(Nat)) /\ Len(r) = N + 1 /\ r[N + 1] = x /\ \A s \in 1..N : r[s] = w[s]
    BY <1>1, <1>t, <1>w
  <1>3. /\ b \in [0..N -> Nat] /\ b[0] = 0 /\ n = b[N]
        /\ \A s \in 1..N : /\ b[s] = b[s - 1] + Len(w[s]) /\ Len(w[s]) > 0
                           /\ \A k \in 1..Len(w[s]) : w[s][k] = ByteAt(p, b[s - 1] + k - 1)
        /\ z \in Seq(Nat) /\ Len(z) = n
        /\ \A k \in 1..n : z[k] = ByteAt(p, k - 1)
    BY <1>0, <1>1, <1>w, Zenon DEF Layout
  <1>4. /\ c \in [0..(N + 1) -> Nat] /\ c[0] = 0 /\ c[N + 1] = m
        /\ \A s \in 0..N : c[s] = b[s]
    <2>1. b \in [0..N -> Nat] /\ b[0] = 0
      BY <1>3, Zenon
    <2> QED BY <1>t, <2>1
  <1> HIDE DEF c
  <1>5. FlattenSeq(r) = z \o x
    BY <1>t, <1>w, FlattenAppend, Zenon
  <1> HIDE DEF r, z
  <1>6. FlattenSeq(r) \in Seq(Nat) /\ Len(FlattenSeq(r)) = m
    <2>1. z \in Seq(Nat) /\ Len(z) = n
      BY <1>3, Zenon
    <2>2. z \o x \in Seq(Nat) /\ Len(z \o x) = n + (m - n)
      BY <1>t, <2>1, Joined, Zenon
    <2> QED BY <1>5, <1>t, <2>2
  <1>7. ASSUME NEW k \in 1..m PROVE FlattenSeq(r)[k] = ByteAt(p, k - 1)
    <2>1. CASE k <= n
      <3>1. k \in 1..n /\ (z \o x)[k] = z[k]
        BY <1>3, <2>1
      <3> QED BY <1>3, <1>5, <3>1, Zenon
    <2>2. CASE ~(k <= n)
      <3>1. PICK j \in 1..(m - n) : j = k - n
        BY <1>t, <2>2
      <3>2. (z \o x)[k] = x[j] /\ n + j - 1 = k - 1
        <4>1. z \in Seq(Nat) /\ Len(z) = n
          BY <1>3, Zenon
        <4>2. k \in 1..(n + (m - n)) /\ k > n
          BY <1>t, <2>2
        <4>3. k \in 1..(Len(z) + Len(x)) /\ k > Len(z) /\ x \in Seq(Nat)
          BY <1>t, <4>1, <4>2, Zenon
        <4>4. (z \o x)[k] = x[k - Len(z)]
          BY <4>1, <4>3, Joined, Zenon
        <4> QED BY <3>1, <4>1, <4>4
      <3>3. x[j] = ByteAt(p, n + j - 1)
        BY <1>x, Zenon
      <3> QED BY <1>5, <3>2, <3>3, Zenon
    <2> QED BY <2>1, <2>2
  <1>8. ASSUME NEW s \in 1..(N + 1)
        PROVE  /\ c[s] = c[s - 1] + Len(r[s]) /\ Len(r[s]) > 0
               /\ \A k \in 1..Len(r[s]) : r[s][k] = ByteAt(p, c[s - 1] + k - 1)
    <2>1. CASE s = N + 1
      <3>1. s - 1 = N /\ N \in 0..N
        BY <2>1
      <3>2. c[s] = m /\ c[s - 1] = n /\ r[s] = x
        BY <1>2, <1>3, <1>4, <2>1, <3>1
      <3>3. m = n + (m - n) /\ m - n > 0
        BY <1>t
      <3> QED BY <1>t, <1>x, <3>2, <3>3, Zenon
    <2>2. CASE s # N + 1
      <3>1. s \in 1..N /\ s \in 0..N /\ s - 1 \in 0..N
        BY <2>2
      <3>2. c[s] = b[s] /\ c[s - 1] = b[s - 1] /\ r[s] = w[s]
        BY <1>2, <1>4, <3>1, Zenon
      <3> QED BY <1>3, <3>1, <3>2, Zenon
    <2> QED BY <2>1, <2>2
  <1>9. \A s \in 0..(N + 1) : c[s] <= c[N + 1]
    <2> SUFFICES ASSUME NEW s \in 0..(N + 1) PROVE c[s] <= m
      BY <1>4, Zenon
    <2>1. CASE s = N + 1
      BY <1>4, <1>t, <2>1
    <2>2. CASE s # N + 1
      <3>1. s \in 0..N
        BY <2>2
      <3>2. c[s] = b[s] /\ b[s] \in Nat /\ b[s] <= n
        <4>1. b[s] <= b[Len(w)]
          BY <1>1, <1>w, <3>1, Zenon DEF Layout
        <4> QED BY <1>0, <1>3, <1>4, <3>1, <4>1, Zenon
      <3> QED BY <1>t, <3>2
    <2> QED BY <2>1, <2>2
  <1>10. Layout(p, l, r, c)
    BY <1>2, <1>4, <1>6, <1>7, <1>8, <1>9, <1>t, Zenon DEF Layout
  <1> QED BY <1>2, <1>4, <1>10, Zenon DEF Reaches, r

\* One more at the end of a sequence.
LEMMA Appended ==
  ASSUME NEW T, NEW u \in Seq(T), NEW y \in T
  PROVE  /\ Append(u, y) \in Seq(T) /\ Len(Append(u, y)) = Len(u) + 1
         /\ Append(u, y)[Len(u) + 1] = y
         /\ \A k \in 1..(Len(u) + 1) : k # Len(u) + 1 => k \in 1..Len(u) /\ Append(u, y)[k] = u[k]
  OBVIOUS

\* What the iterator finds: a byte in its slice, and the next place.
LEMMA PlaceMoves ==
  ASSUME NEW p, NEW l, NEW w, w \in Seq(Seq(Nat)), NEW b, Layout(p, l, w, b),
         NEW i, NEW o, NEW u, Place(p, w, b, i, o, u), i < Len(w)
  PROVE  /\ o < Len(w[i + 1])
         /\ o + 1 = Len(w[i + 1]) => Place(p, w, b, i + 1, 0, Append(u, w[i + 1][o + 1]))
         /\ o + 1 # Len(w[i + 1]) => Place(p, w, b, i, o + 1, Append(u, w[i + 1][o + 1]))
  <1>1. PICK N \in Nat : N = Len(w)
    OBVIOUS
  <1>2. /\ i \in 0..N /\ i < N /\ o \in Nat /\ o < Len(w[i + 1])
        /\ u \in Seq(Nat) /\ Len(u) = b[i] + o
    BY <1>1, Zenon DEF Place
  <1>3. PICK j \in 1..N : j = i + 1 /\ j - 1 = i
    BY <1>2
  <1>4. PICK x : x = w[j]
    OBVIOUS
  <1>5. x \in Seq(Nat) /\ o < Len(x) /\ Len(x) \in Nat
    BY <1>1, <1>2, <1>3, <1>4
  <1>6. /\ b \in [0..N -> Nat] /\ b[j] = b[j - 1] + Len(x)
        /\ \A k \in 1..Len(x) : x[k] = ByteAt(p, b[j - 1] + k - 1)
        /\ \A s \in 1..N : Len(w[s]) > 0
    BY <1>1, <1>4, Zenon DEF Layout
  <1>7. b[i] \in Nat /\ b[j] = b[i] + Len(x)
    BY <1>2, <1>3, <1>6
  <1>b. PICK B, E, L, M \in Nat : B = b[i] /\ E = b[j] /\ L = Len(u) /\ M = Len(x)
    BY <1>2, <1>5, <1>7
  <1>c. o \in Nat /\ i \in 0..N /\ i < N /\ L = B + o /\ E = B + M /\ o < M
    BY <1>2, <1>5, <1>7, <1>b, Zenon
  <1>8. PICK y \in Nat : y = x[o + 1] /\ y = ByteAt(p, Len(u))
    <2>1. o + 1 \in 1..Len(x) /\ b[i] + (o + 1) - 1 = Len(u)
      BY <1>2, <1>5, <1>7
    <2>2. x[o + 1] = ByteAt(p, Len(u))
      BY <1>3, <1>6, <2>1, Zenon
    <2>3. x[o + 1] \in Nat
      BY <1>5, <2>1
    <2> QED BY <2>2, <2>3, Zenon
  <1> DEFINE r == Append(u, y)
  <1>9. /\ r \in Seq(Nat) /\ Len(r) = L + 1 /\ r[L + 1] = y
        /\ \A k \in 1..(L + 1) : k # L + 1 => k \in 1..L /\ r[k] = u[k]
    <2>1. u \in Seq(Nat) /\ Len(u) = L
      BY <1>2, <1>b, Zenon
    <2>2. /\ r \in Seq(Nat) /\ Len(r) = Len(u) + 1 /\ r[Len(u) + 1] = y
          /\ \A k \in 1..(Len(u) + 1) : k # Len(u) + 1 => k \in 1..Len(u) /\ r[k] = u[k]
      BY <2>1, Appended
    <2> QED BY <2>1, <2>2, Zenon
  <1>10. ASSUME NEW k \in 1..Len(r) PROVE r[k] = ByteAt(p, k - 1)
    <2>1. CASE k = L + 1
      <3>1. k - 1 = L
        BY <2>1
      <3> QED BY <1>8, <1>9, <1>b, <2>1, <3>1, Zenon
    <2>2. CASE k # L + 1
      <3>1. k \in 1..L /\ r[k] = u[k]
        BY <1>9, <2>2, Zenon
      <3> QED BY <1>b, <3>1, Zenon DEF Place
    <2> QED BY <2>1, <2>2
  <1> HIDE DEF r
  <1>11. ASSUME o + 1 = Len(x) PROVE Place(p, w, b, j, 0, r)
    <2>1. j \in 0..N /\ 0 \in Nat /\ Len(r) = b[j] + 0
      <3>1. L + 1 = E + 0 /\ j \in 0..N
        <4>1. o + 1 = M
          BY <1>b, <1>11, Zenon
        <4> QED BY <1>c, <4>1
      <3> QED BY <1>9, <1>b, <3>1, Zenon
    <2>2. j < N => 0 < Len(w[j + 1])
      <3> SUFFICES ASSUME j < N PROVE 0 < Len(w[j + 1])
        OBVIOUS
      <3>1. PICK s \in 1..N : s = j + 1
        OBVIOUS
      <3>2. Len(w[s]) \in Nat /\ Len(w[s]) > 0
        BY <1>1, <1>6
      <3> QED BY <3>1, <3>2
    <2> QED BY <1>1, <1>9, <1>10, <2>1, <2>2, Zenon DEF Place
  <1>12. ASSUME o + 1 # Len(x) PROVE Place(p, w, b, i, o + 1, r)
    <2>1. o + 1 \in Nat /\ o + 1 < Len(x) /\ Len(r) = b[i] + (o + 1) /\ i # N
      <3>1. o + 1 \in Nat /\ o + 1 < M /\ L + 1 = B + (o + 1) /\ i # N
        <4>1. o + 1 # M
          BY <1>b, <1>12, Zenon
        <4> QED BY <1>c, <4>1
      <3> QED BY <1>9, <1>b, <3>1, Zenon
    <2>2. o + 1 < Len(w[i + 1])
      BY <1>3, <1>4, <2>1, Zenon
    <2> QED BY <1>1, <1>2, <1>9, <1>10, <2>1, <2>2, Zenon DEF Place
  <1> QED BY <1>2, <1>3, <1>4, <1>8, <1>11, <1>12, Zenon DEF r

-----------------------------------------------------------------------------
(* Strings *)

\* The character after the one at a, for a pointer that may wrap.
LEMMA NextMod ==
  ASSUME NEW t \in Nat \ {0}, NEW a \in Nat
  PROVE  ((a % t) + 1) % t = (a + 1) % t
  <1>1. PICK q, r \in Nat : r < t /\ a = q * t + r /\ a \div t = q /\ a % t = r
    BY Divided, Zenon
  <1>2. CASE r + 1 < t
    <2>1. PICK c, z \in Nat : c = r + 1 /\ z = 0
      OBVIOUS
    <2>2. c = z * t + c /\ a + 1 = q * t + c /\ c < t
      BY <1>1, <1>2, <2>1
    <2>3. Division(c, t, z, c) /\ Division(a + 1, t, q, c)
      BY <2>2, Zenon DEF Division
    <2> QED BY <1>1, <2>1, <2>3, DivisionIs, Zenon
  <1>3. CASE ~(r + 1 < t)
    <2>1. PICK o, p, z \in Nat : o = 1 /\ p = q + 1 /\ z = 0
      OBVIOUS
    <2>2. r + 1 = t
      BY <1>1, <1>3
    <2>3. t = o * t + z /\ z < t
      BY <2>1
    <2>4. a + 1 = p * t + z
      BY <1>1, <2>1, <2>2
    <2>5. Division(t, t, o, z) /\ Division(a + 1, t, p, z)
      BY <2>3, <2>4, Zenon DEF Division
    <2> QED BY <1>1, <2>2, <2>5, DivisionIs, ZenonT(30)
  <1> QED BY <1>2, <1>3

\* A pointer that wrapped has the virtual address that it had.
LEMMA Wrapped ==
  ASSUME NEW a \in Nat
  PROVE  VirtAddr(a % Top) = VirtAddr(a) /\ a % Top \in Nat /\ VirtAddr(a) \in Nat
  <1>1. PICK r \in Nat \ {0} : Top = r * Whole
    BY Sizes, Zenon
  <1>2. Whole \in Nat \ {0} /\ Top \in Nat \ {0}
    BY Sizes, Zenon
  <1>3. (a % (r * Whole)) % Whole = a % Whole
    BY <1>2, ModMod, Zenon
  <1>4. a % Top \in Nat /\ a % Whole \in Nat
    BY <1>2, Divided, Zenon
  <1> QED BY <1>1, <1>3, <1>4, Zenon DEF VirtAddr, Whole

\* An address that is translated is a number.
LEMMA Translated ==
  ASSUME NEW va \in Nat
  PROVE  translate_va(va) \in Nat
  <1>1. PICK p \in Nat \ {0} : p = PAGE_SIZE
    BY Sizes
  <1>2. PICK c, r \in Nat : c = ppn(va) /\ r = page_offset(va)
    <2>1. ppn(va) \in Nat
      BY TranslateAssumption, Zenon DEF ppn
    <2>2. va % p \in Nat
      BY Divided, Zenon
    <2> QED BY <1>1, <2>1, <2>2, Zenon DEF page_offset
  <1>3. c * p + r \in Nat
    OBVIOUS
  <1> QED BY <1>1, <1>2, <1>3, Zenon DEF translate_va

Chars == {Text[a] : a \in Nat}

\* The loop of translated_str has the characters u of the string at p, none of
\* them zero.
Spelled(p, u) ==
  /\ u \in Seq(Chars)
  /\ \A k \in 1..Len(u) : u[k] = Text[ByteAt(p, k - 1)] /\ u[k] # 0

StringInv ==
  call = "str" =>
    /\ ptr \in Nat /\ Spelled(ptr, out) /\ start = (ptr + Len(out)) % Top
    /\ pc = "done" => Text[ByteAt(ptr, Len(out))] = 0

\* A turn of translated_str looks at the next character.
LEMMA StringTurn ==
  ASSUME StringInv, translated_str
  PROVE  StringInv'
  <1>1. call = "str" /\ pc = "translate" /\ ptr' = ptr /\ call' = call
    BY DEF translated_str
  <1>2. ptr \in Nat /\ out \in Seq(Chars) /\ start = (ptr + Len(out)) % Top
    BY <1>1, Zenon DEF StringInv, Spelled
  <1>3. PICK L, a \in Nat : L = Len(out) /\ a = ptr + L
    BY <1>2
  <1>4. VirtAddr(start) = VirtAddr(a) /\ VirtAddr(a) \in Nat
    BY <1>2, <1>3, Wrapped, Zenon
  <1>5. PICK ch \in Chars : ch = Text[translate_va(VirtAddr(start))] /\ ch = Text[ByteAt(ptr, L)]
    <2>1. translate_va(VirtAddr(a)) \in Nat /\ translate_va(VirtAddr(a)) = ByteAt(ptr, L)
      BY <1>3, <1>4, Translated, Zenon DEF ByteAt
    <2> QED BY <1>4, <2>1, Zenon DEF Chars
  <1>6. \/ pc' = "panic" /\ out' = out /\ start' = start
        \/ ch = 0 /\ pc' = "done" /\ out' = out /\ start' = start
        \/ ch # 0 /\ out' = Append(out, ch) /\ start' = (start + 1) % Top /\ pc' = pc
    BY <1>5 DEF translated_str, Top
  <1>7. CASE pc' = "panic" /\ out' = out /\ start' = start
    BY <1>1, <1>7 DEF StringInv
  <1>8. CASE ch = 0 /\ pc' = "done" /\ out' = out /\ start' = start
    <2>1. Text[ByteAt(ptr, Len(out))] = 0
      BY <1>3, <1>5, <1>8, Zenon
    <2> QED BY <1>1, <1>8, <2>1, Zenon DEF StringInv
  <1>9. CASE ch # 0 /\ out' = Append(out, ch) /\ start' = (start + 1) % Top /\ pc' = pc
    <2> DEFINE r == Append(out, ch)
    <2>1. /\ r \in Seq(Chars) /\ Len(r) = Len(out) + 1 /\ r[Len(out) + 1] = ch
          /\ \A k \in 1..(Len(out) + 1) : k # Len(out) + 1 => k \in 1..Len(out) /\ r[k] = out[k]
      BY <1>2, Appended
    <2> HIDE DEF r
    <2>2. ASSUME NEW k \in 1..Len(r) PROVE r[k] = Text[ByteAt(ptr, k - 1)] /\ r[k] # 0
      <3>1. CASE k = L + 1
        <4>1. k - 1 = L
          BY <3>1
        <4> QED BY <1>3, <1>5, <1>9, <2>1, <3>1, <4>1, Zenon
      <3>2. CASE k # L + 1
        <4>1. k \in 1..Len(out) /\ r[k] = out[k]
          BY <1>3, <2>1, <3>2, Zenon
        <4> QED BY <1>1, <4>1, Zenon DEF StringInv, Spelled
      <3> QED BY <3>1, <3>2
    <2>3. Spelled(ptr, r)
      BY <2>1, <2>2, Zenon DEF Spelled
    <2>4. (start + 1) % Top = (ptr + Len(r)) % Top
      <3>1. Len(r) = L + 1 /\ start = a % Top
        BY <1>2, <1>3, <2>1, Zenon
      <3>2. ((a % Top) + 1) % Top = (a + 1) % Top
        BY NextMod, Sizes, Zenon
      <3>3. a + 1 = ptr + (L + 1)
        BY <1>2, <1>3
      <3> QED BY <3>1, <3>2, <3>3, Zenon
    <2>5. pc' # "done"
      BY <1>1, <1>9
    <2> QED BY <1>1, <1>2, <1>9, <2>3, <2>4, <2>5, Zenon DEF StringInv, r
  <1> QED BY <1>6, <1>7, <1>8, <1>9, Zenon

-----------------------------------------------------------------------------
(* Buffers *)

\* What a call knows: its slices, and where the loop or the iterator is.
Sliced(b) ==
  /\ Layout(ptr, len, v, b)
  /\ pc = "translate" =>
       /\ buffer_id = 0 /\ offset = 0 /\ out = <<>> /\ start \in Nat
       /\ start = ptr + b[Len(v)] \/ (b[Len(v)] = len /\ start >= end)
  /\ pc \in {"iterate", "done"} =>
       b[Len(v)] = len /\ Place(ptr, v, b, buffer_id, offset, out)
  /\ pc = "done" => buffer_id = Len(v)

BufferInv ==
  call = "buffer" =>
    /\ Named /\ v \in Seq(Seq(Nat)) /\ pc \in {"translate", "iterate", "done", "panic"}
    /\ pc = "panic" => ~Mapped
    /\ pc # "panic" => \E b : Sliced(b)

\* The arguments of a call do not change.
LEMMA ArgumentsStay ==
  ASSUME ptr' = ptr, len' = len, end' = end
  PROVE  (Named => Named') /\ (Mapped' <=> Mapped)
  <1>1. Named => Named'
    BY DEF Named, Base
  <1>2. Mapped' <=> Mapped
    BY DEF Mapped
  <1> QED BY <1>1, <1>2

LEMMA InitSliced ==
  ASSUME UserInit
  PROVE  BufferInv /\ StringInv
  <1>1. /\ ptr \in Nat /\ ptr < Top /\ len \in Nat /\ start = ptr /\ v = <<>> /\ pc = "translate"
        /\ buffer_id = 0 /\ offset = 0 /\ out = <<>>
    <2>1. ptr \in Nat /\ ptr < Top
      BY Halves DEF UserInit
    <2> QED BY <2>1, TranslateAssumption DEF UserInit
  <1>2. Named
    BY InitNamed
  <1>3. PICK b : Layout(ptr, len, v, b) /\ b[0] = 0
    BY <1>1, LayoutEmpty, Zenon
  <1>4. Len(v) = 0 /\ v \in Seq(Seq(Nat)) /\ start = ptr + 0
    BY <1>1
  <1>5. Sliced(b)
    BY <1>1, <1>3, <1>4 DEF Sliced
  <1>6. BufferInv
    BY <1>1, <1>2, <1>4, <1>5 DEF BufferInv
  <1>7. StringInv
    <2>1. out \in Seq(Chars) /\ Len(out) = 0 /\ (\A k \in 1..Len(out) : FALSE) /\ ptr + 0 = ptr
      BY <1>1
    <2>2. PICK z \in Nat : z = 0
      OBVIOUS
    <2>3. ptr = z * Top + ptr
      BY <1>1, <2>2, Sizes
    <2>4. Division(ptr, Top, z, ptr)
      BY <1>1, <2>2, <2>3, Sizes, Zenon DEF Division
    <2>5. start = (ptr + Len(out)) % Top
      BY <1>1, <2>1, <2>4, DivisionIs, Zenon
    <2> QED BY <1>1, <2>1, <2>5, Zenon DEF StringInv, Spelled
  <1> QED BY <1>6, <1>7

\* A turn of translated_byte_buffer adds the slice of the next bytes; it stops
\* only at a byte that is not mapped.
LEMMA BufferTurn ==
  ASSUME BufferInv, translated_byte_buffer
  PROVE  BufferInv'
  <1>1. /\ call = "buffer" /\ pc = "translate" /\ start < end /\ call' = call /\ ptr' = ptr
        /\ len' = len /\ end' = end /\ buffer_id' = buffer_id /\ offset' = offset /\ out' = out
    BY DEF translated_byte_buffer
  <1>2. Named /\ v \in Seq(Seq(Nat))
    BY <1>1, Zenon DEF BufferInv
  <1>3. PICK b : Sliced(b)
    BY <1>1, Zenon DEF BufferInv
  <1>4. /\ Layout(ptr, len, v, b) /\ buffer_id = 0 /\ offset = 0 /\ out = <<>> /\ start \in Nat
        /\ start = ptr + b[Len(v)] \/ (b[Len(v)] = len /\ start >= end)
    BY <1>1, <1>3, Zenon DEF Sliced
  <1>5. ptr \in Nat /\ len \in Nat /\ end = ptr + len
    BY <1>2, Zenon DEF Named
  <1>6. PICK n \in Nat : n = b[Len(v)]
    <2>1. b \in [0..Len(v) -> Nat] /\ Len(v) \in 0..Len(v)
      BY <1>2, <1>4 DEF Layout
    <2> QED BY <2>1
  <1>7. n < len /\ start = ptr + n
    BY <1>1, <1>4, <1>5, <1>6
  <1>8. PICK va, e : va = VirtAddr(start) /\ e = EndOf(va)
    BY Zenon
  <1>9. Named' /\ (Mapped' <=> Mapped)
    BY <1>1, <1>2, ArgumentsStay, Zenon
  <1>10. CASE Unreached(va)
    <2>1. pc' = "panic" /\ v' = v
      BY <1>8, <1>10 DEF translated_byte_buffer
    <2>2. ~Mapped
      <3>1. n \in 0..(len - 1)
        BY <1>5, <1>7
      <3>2. floor(VirtAddr(ptr + n)) \notin DOMAIN Table
        BY <1>7, <1>8, <1>10, TranslateAssumption, Zenon DEF Unreached
      <3> QED BY <3>1, <3>2, Zenon DEF Mapped
    <2> QED BY <1>2, <1>9, <2>1, <2>2, Zenon DEF BufferInv
  <1>11. CASE ~Unreached(va)
    <2>1. pc' = pc /\ v' = Append(v, Slice(va, e)) /\ start' = After(e)
      BY <1>8, <1>11 DEF translated_byte_buffer
    <2>2. PICK m \in Nat :
            /\ n < m /\ m <= len
            /\ Slice(va, e) \in Seq(Nat) /\ Len(Slice(va, e)) = m - n
            /\ \A k \in 1..(m - n) : Slice(va, e)[k] = Byte(n + k - 1)
            /\ After(e) = ptr + m \/ (m = len /\ After(e) \in Nat /\ After(e) >= end)
      BY <1>2, <1>7, <1>8, Turn, Zenon
    <2>3. PICK x : x = Slice(va, e)
      OBVIOUS
    <2>4. NextSlice(ptr, len, n, m, x)
      <3>1. \A k \in 1..(m - n) : x[k] = ByteAt(ptr, n + k - 1)
        BY <2>2, <2>3, Zenon DEF Byte, ByteAt
      <3> QED BY <2>2, <2>3, <3>1, Zenon DEF NextSlice
    <2>5. PICK c : Layout(ptr, len, v', c) /\ c[Len(v')] = m
      <3>1. Growing(ptr, len, v, b, m, x)
        BY <1>2, <1>4, <1>5, <1>6, <2>4, Zenon DEF Growing
      <3>2. Reaches(ptr, len, Append(v, x), m)
        BY <3>1, LayoutGrows, Zenon
      <3> QED BY <2>1, <2>3, <3>2, Zenon DEF Reaches
    <2>6. v' \in Seq(Seq(Nat))
      BY <1>2, <2>1, <2>2, Appended, Zenon
    <2>7. start' \in Nat /\ (start' = ptr + m \/ (m = len /\ start' >= end))
      BY <1>5, <2>1, <2>2
    <2>8. Sliced(c)'
      BY <1>1, <1>4, <2>1, <2>5, <2>7 DEF Sliced
    <2> QED BY <1>1, <1>9, <2>1, <2>6, <2>8, Zenon DEF BufferInv
  <1> QED BY <1>10, <1>11

\* Once all the bytes have a slice, the iterator is at the first.
LEMMA IterStarts ==
  ASSUME BufferInv, IntoIter
  PROVE  BufferInv'
  <1>1. /\ call = "buffer" /\ pc = "translate" /\ start >= end /\ pc' = "iterate"
        /\ call' = call /\ ptr' = ptr /\ len' = len /\ end' = end /\ v' = v
        /\ buffer_id' = buffer_id /\ offset' = offset /\ out' = out
    BY DEF IntoIter
  <1>2. Named /\ v \in Seq(Seq(Nat)) /\ Named' /\ v' \in Seq(Seq(Nat))
    BY <1>1, ArgumentsStay, Zenon DEF BufferInv
  <1>3. PICK b : Sliced(b)
    BY <1>1, Zenon DEF BufferInv
  <1>4. /\ Layout(ptr, len, v, b) /\ buffer_id = 0 /\ offset = 0 /\ out = <<>> /\ start \in Nat
        /\ start = ptr + b[Len(v)] \/ (b[Len(v)] = len /\ start >= end)
    BY <1>1, <1>3, Zenon DEF Sliced
  <1>5. ptr \in Nat /\ len \in Nat /\ end = ptr + len
    BY <1>2, Zenon DEF Named
  <1>6. PICK N \in Nat : N = Len(v)
    BY <1>2
  <1>7. /\ b \in [0..N -> Nat] /\ b[0] = 0 /\ b[N] <= len /\ \A s \in 1..N : Len(v[s]) > 0
    BY <1>4, <1>6, Zenon DEF Layout
  <1>8. b[N] = len
    <2>1. b[N] \in Nat /\ (start = ptr + b[N] \/ b[N] = len)
      BY <1>4, <1>6, <1>7
    <2> QED BY <1>1, <1>4, <1>5, <1>7, <2>1
  <1>9. Place(ptr, v, b, buffer_id, offset, out)
    <2>1. /\ buffer_id \in 0..N /\ offset \in Nat /\ out \in Seq(Nat) /\ Len(out) = 0
          /\ 0 = 0 + 0 /\ \A k \in 1..0 : FALSE
      BY <1>4
    <2>2. buffer_id < N => offset < Len(v[buffer_id + 1])
      <3> SUFFICES ASSUME 0 < N PROVE 0 < Len(v[0 + 1])
        BY <1>4, Zenon
      <3>1. 1 \in 1..N /\ 0 + 1 = 1 /\ Len(v[1]) \in Nat
        BY <1>2, <1>6
      <3>2. Len(v[1]) > 0
        BY <1>7, <3>1, Zenon
      <3> QED BY <3>1, <3>2
    <2> QED BY <1>4, <1>6, <1>7, <2>1, <2>2, Zenon DEF Place
  <1>10. Sliced(b)'
    BY <1>1, <1>4, <1>6, <1>8, <1>9 DEF Sliced
  <1> QED BY <1>1, <1>2, <1>10 DEF BufferInv

\* A call of next gives the next byte, or ends the walk.
LEMMA IterMoves ==
  ASSUME BufferInv, next \/ Exhausted
  PROVE  BufferInv'
  <1>1. /\ call = "buffer" /\ pc = "iterate" /\ call' = call /\ ptr' = ptr /\ len' = len
        /\ end' = end /\ v' = v
    BY DEF next, Exhausted
  <1>2. Named /\ v \in Seq(Seq(Nat)) /\ Named' /\ v' \in Seq(Seq(Nat))
    BY <1>1, ArgumentsStay, Zenon DEF BufferInv
  <1>3. PICK b : Sliced(b)
    BY <1>1, Zenon DEF BufferInv
  <1>4. /\ Layout(ptr, len, v, b) /\ b[Len(v)] = len
        /\ Place(ptr, v, b, buffer_id, offset, out)
    BY <1>1, <1>3, Zenon DEF Sliced
  <1>5. buffer_id \in 0..Len(v) /\ offset \in Nat /\ Len(v) \in Nat
    BY <1>2, <1>4 DEF Place
  <1>6. CASE Exhausted
    <2>1. /\ pc' = "done" /\ buffer_id >= Len(v) /\ buffer_id' = buffer_id /\ offset' = offset
          /\ out' = out
      BY <1>6 DEF Exhausted
    <2>2. buffer_id = Len(v)
      BY <1>5, <2>1
    <2>3. Sliced(b)'
      BY <1>1, <1>4, <2>1, <2>2 DEF Sliced
    <2> QED BY <1>1, <1>2, <2>1, <2>3 DEF BufferInv
  <1>7. CASE next
    <2>1. PICK x : x = v[buffer_id + 1]
      OBVIOUS
    <2>2. buffer_id < Len(v)
      BY <1>7 DEF next
    <2>3. /\ offset < Len(x)
          /\ offset + 1 = Len(x) =>
               Place(ptr, v, b, buffer_id + 1, 0, Append(out, x[offset + 1]))
          /\ offset + 1 # Len(x) =>
               Place(ptr, v, b, buffer_id, offset + 1, Append(out, x[offset + 1]))
      BY <1>2, <1>4, <2>1, <2>2, PlaceMoves, Zenon
    <2>4. ~(offset >= Len(x))
      <3>1. x \in Seq(Nat)
        BY <1>2, <1>5, <2>1, <2>2
      <3>2. Len(x) \in Nat
        BY <3>1
      <3> QED BY <1>5, <2>3, <3>2
    <2>5. pc' = pc /\ out' = Append(out, x[offset + 1]) /\ Step(x)
      BY <1>7, <2>1, <2>4 DEF next
    <2>6. Place(ptr, v, b, buffer_id', offset', out')
      <3>1. CASE offset + 1 = Len(x)
        <4>1. buffer_id' = buffer_id + 1 /\ offset' = 0
          BY <2>5, <3>1 DEF Step
        <4> QED BY <2>3, <2>5, <3>1, <4>1, Zenon
      <3>2. CASE offset + 1 # Len(x)
        <4>1. buffer_id' = buffer_id /\ offset' = offset + 1
          BY <2>5, <3>2 DEF Step
        <4> QED BY <2>3, <2>5, <3>2, <4>1, Zenon
      <3> QED BY <3>1, <3>2
    <2>7. Sliced(b)'
      BY <1>1, <1>4, <2>5, <2>6 DEF Sliced
    <2> QED BY <1>1, <1>2, <2>5, <2>7 DEF BufferInv
  <1> QED BY <1>6, <1>7

-----------------------------------------------------------------------------
(* The theorem *)

UserInv == call \in {"buffer", "str"} /\ BufferInv /\ StringInv

\* Every step keeps the invariant.
LEMMA UserStep ==
  ASSUME UserInv, [UserNext]_userVars
  PROVE  UserInv'
  <1>1. call \in {"buffer", "str"} /\ BufferInv /\ StringInv
    BY Zenon DEF UserInv
  <1>2. CASE translated_byte_buffer
    <2>1. call' = "buffer"
      BY <1>2 DEF translated_byte_buffer
    <2> QED BY <1>1, <1>2, <2>1, BufferTurn DEF UserInv, StringInv
  <1>3. CASE IntoIter
    <2>1. call' = "buffer"
      BY <1>3 DEF IntoIter
    <2> QED BY <1>1, <1>3, <2>1, IterStarts DEF UserInv, StringInv
  <1>4. CASE next \/ Exhausted
    <2>1. call' = "buffer"
      BY <1>4 DEF next, Exhausted
    <2> QED BY <1>1, <1>4, <2>1, IterMoves DEF UserInv, StringInv
  <1>5. CASE translated_str
    <2>1. call' = "str"
      BY <1>5 DEF translated_str
    <2> QED BY <1>1, <1>5, <2>1, StringTurn DEF UserInv, BufferInv
  <1>6. CASE UNCHANGED userVars
    <2>1. /\ call' = call /\ ptr' = ptr /\ len' = len /\ start' = start /\ end' = end /\ v' = v
          /\ buffer_id' = buffer_id /\ offset' = offset /\ out' = out /\ pc' = pc
      BY <1>6 DEF userVars
    <2>2. Named => Named'
      BY <2>1, ArgumentsStay, Zenon
    <2>3. Mapped' <=> Mapped
      BY <2>1, ArgumentsStay, Zenon
    <2>4. ASSUME NEW b, Sliced(b) PROVE Sliced(b)'
      BY <2>1, <2>4 DEF Sliced
    <2>5. BufferInv'
      BY <1>1, <2>1, <2>2, <2>3, <2>4, Zenon DEF BufferInv
    <2>6. StringInv'
      BY <1>1, <2>1, Zenon DEF StringInv
    <2> QED BY <1>1, <2>1, <2>5, <2>6, Zenon DEF UserInv
  <1> QED BY <1>2, <1>3, <1>4, <1>5, <1>6, Zenon DEF UserNext

LEMMA PrefixIs ==
  ASSUME NEW z \in Seq(Nat), NEW t \in Seq(Nat), Len(z) <= Len(t),
         \A k \in 1..Len(z) : z[k] = t[k]
  PROVE  IsPrefix(z, t)
  <1> DEFINE n == Len(z)
             y == SubSeq(t, 1, n)
  <1>1. n \in Nat /\ Len(t) \in Nat
    OBVIOUS
  <1>2. y \in Seq(Nat) /\ Len(y) = n /\ \A k \in 1..n : y[k] = t[k]
    BY <1>1
  <1>3. SubSeq(z, 1, n) = z
    BY <1>1
  <1>4. z = y
    <2> HIDE DEF y
    <2>1. z = [k \in 1..n |-> z[k]] /\ y = [k \in 1..n |-> y[k]]
      BY <1>1, <1>2
    <2>2. \A k \in 1..n : z[k] = y[k]
      BY <1>2, Zenon
    <2> QED BY <2>1, <2>2, Zenon
  <1> QED BY <1>3, <1>4 DEF IsPrefix

\* The slices are the bytes of the buffer.
LEMMA SlicesExact ==
  ASSUME BufferInv
  PROVE  BufferExact /\ IteratorExact
  <1>1. SUFFICES ASSUME call = "buffer", Mapped
        PROVE  /\ IsPrefix(FlattenSeq(v), [k \in 1..len |-> Byte(k - 1)])
               /\ pc \in {"iterate", "done"} => Len(FlattenSeq(v)) = len
               /\ pc # "panic"
               /\ \A s \in DOMAIN v : v[s] # <<>>
               /\ \A k \in DOMAIN out : k <= len /\ out[k] = Byte(k - 1)
               /\ pc = "done" => Len(out) = len
    BY DEF BufferExact, IteratorExact
  <1>2. /\ Named /\ v \in Seq(Seq(Nat)) /\ pc \in {"translate", "iterate", "done"}
    BY <1>1, Zenon DEF BufferInv
  <1>3. PICK b : Sliced(b)
    BY <1>1, <1>2 DEF BufferInv
  <1>4. PICK N \in Nat : N = Len(v) /\ DOMAIN v = 1..N
    BY <1>2
  <1>5. PICK l \in Nat : l = len
    BY <1>2 DEF Named
  <1>6. /\ b \in [0..N -> Nat] /\ b[0] = 0 /\ b[N] <= l /\ b[N] \in Nat
        /\ \A s \in 0..N : b[s] <= b[N]
    BY <1>3, <1>4, <1>5 DEF Sliced, Layout
  <1>7. \A s \in 1..N : b[s] = b[s - 1] + Len(v[s]) /\ Len(v[s]) > 0
    BY <1>3, <1>4, Zenon DEF Sliced, Layout
  <1>8. PICK z \in Seq(Nat) : /\ z = FlattenSeq(v) /\ Len(z) = b[N]
                              /\ \A k \in 1..b[N] : z[k] = ByteAt(ptr, k - 1)
    BY <1>3, <1>4, Zenon DEF Sliced, Layout
  <1>9. IsPrefix(z, [k \in 1..l |-> Byte(k - 1)])
    <2> DEFINE t == [k \in 1..l |-> Byte(k - 1)]
    <2>1. PICK L \in Nat : L = b[N] /\ L = Len(z) /\ L <= l
      BY <1>6, <1>8
    <2>2. \A k \in 1..L : z[k] = t[k]
      <3> SUFFICES ASSUME NEW k \in 1..L PROVE z[k] = t[k]
        BY Zenon
      <3>1. k \in 1..l
        BY <2>1
      <3>2. t[k] = Byte(k - 1)
        BY <3>1
      <3> QED BY <1>8, <2>1, <3>2, Zenon DEF Byte, ByteAt
    <2>3. DOMAIN t = 1..l /\ t = [k \in 1..l |-> t[k]]
      OBVIOUS
    <2>4. ASSUME NEW k \in 1..l PROVE t[k] \in Nat
      <3>1. PICK i \in Nat : i = k - 1 /\ i \in 0..l
        OBVIOUS
      <3>2. ptr \in Nat /\ ptr + i \in Nat
        BY <1>2 DEF Named
      <3>3. VirtAddr(ptr + i) \in Nat
        BY <3>2, Wrapped, Zenon
      <3>4. Byte(i) \in Nat
        BY <3>3, Translated, Zenon DEF Byte
      <3> QED BY <3>1, <3>4
    <2> HIDE DEF t
    <2>5. t \in Seq(Nat) /\ Len(t) = l
      BY <2>3, <2>4, SequenceIs, Zenon
    <2>6. IsPrefix(z, t)
      BY <2>1, <2>2, <2>5, PrefixIs, Zenon
    <2> QED BY <2>6 DEF t
  <1>10. \A s \in DOMAIN v : v[s] # <<>>
    <2> SUFFICES ASSUME NEW s \in 1..N, v[s] = <<>> PROVE FALSE
      BY <1>4, Zenon
    <2>1. Len(v[s]) > 0 /\ Len(v[s]) = 0
      BY <1>7
    <2> QED BY <2>1
  <1>11. CASE pc = "translate"
    <2>1. out = <<>> /\ DOMAIN out = {}
      BY <1>3, <1>11 DEF Sliced
    <2> QED BY <1>5, <1>8, <1>9, <1>10, <1>11, <2>1, SMTT(30)
  <1>12. CASE pc \in {"iterate", "done"}
    <2>1. b[N] = l /\ Place(ptr, v, b, buffer_id, offset, out)
      BY <1>3, <1>4, <1>5, <1>12, Zenon DEF Sliced
    <2>2. /\ buffer_id \in 0..N /\ offset \in Nat
          /\ buffer_id < N => offset < Len(v[buffer_id + 1])
          /\ buffer_id = N => offset = 0
          /\ out \in Seq(Nat) /\ Len(out) = b[buffer_id] + offset
          /\ \A k \in 1..Len(out) : out[k] = ByteAt(ptr, k - 1)
      BY <1>4, <2>1, Zenon DEF Place
    <2>3. PICK B \in Nat : B = b[buffer_id] /\ Len(out) = B + offset
      BY <1>6, <2>2
    <2>4. Len(out) <= l
      <3>1. CASE buffer_id = N
        <4>1. B = l /\ offset = 0
          BY <2>1, <2>2, <2>3, <3>1, Zenon
        <4> QED BY <2>3, <4>1
      <3>2. CASE buffer_id # N
        <4>1. PICK j \in 1..N : j = buffer_id + 1 /\ j - 1 = buffer_id
          BY <2>2, <3>2
        <4>2. PICK M, E \in Nat : M = Len(v[j]) /\ E = b[j] /\ E <= l
          <5>1. v[j] \in Seq(Nat)
            BY <1>2, <1>4
          <5>2. Len(v[j]) \in Nat
            BY <5>1
          <5>3. j \in 0..N
            OBVIOUS
          <5>4. b[j] \in Nat /\ b[j] <= l
            BY <1>6, <2>1, <5>3, Zenon
          <5> QED BY <5>2, <5>4, Zenon
        <4>3. E = B + M
          BY <1>7, <2>3, <4>1, <4>2, Zenon
        <4>4. offset < M /\ offset \in Nat
          <5>1. buffer_id < N
            BY <2>2, <3>2
          <5> QED BY <2>2, <4>1, <4>2, <5>1, Zenon
        <4> QED BY <2>3, <4>2, <4>3, <4>4
      <3> QED BY <3>1, <3>2
    <2>5. \A k \in DOMAIN out : k <= l /\ out[k] = Byte(k - 1)
      <3>1. DOMAIN out = 1..Len(out) /\ Len(out) \in Nat
        BY <2>2
      <3>2. \A k \in 1..Len(out) : out[k] = Byte(k - 1)
        BY <2>2, Zenon DEF Byte, ByteAt
      <3>3. \A k \in 1..Len(out) : k <= l
        BY <2>4, <3>1
      <3> QED BY <3>1, <3>2, <3>3, Zenon
    <2>6. pc = "done" => Len(out) = l
      <3> SUFFICES ASSUME pc = "done" PROVE Len(out) = l
        OBVIOUS
      <3>1. buffer_id = N
        BY <1>3, <1>4, Zenon DEF Sliced
      <3>2. B = l /\ offset = 0
        BY <2>1, <2>2, <2>3, <3>1, Zenon
      <3> QED BY <2>3, <3>2
    <2>7. pc # "panic" /\ Len(FlattenSeq(v)) = l
      BY <1>8, <1>12, <2>1, Zenon
    <2> QED BY <1>5, <1>8, <1>9, <1>10, <2>5, <2>6, <2>7, Zenon
  <1> QED BY <1>2, <1>11, <1>12

\* translated_str gives the characters before the first zero.
LEMMA StringIsExact ==
  ASSUME StringInv
  PROVE  StringExact
  <1>1. SUFFICES ASSUME call = "str", pc = "done"
        PROVE  /\ \A k \in DOMAIN out : out[k] = Text[Byte(k - 1)] /\ out[k] # 0
               /\ Text[Byte(Len(out))] = 0
    BY DEF StringExact
  <1>2. out \in Seq(Chars)
    BY <1>1, Zenon DEF StringInv, Spelled
  <1>3. DOMAIN out = 1..Len(out)
    BY <1>2
  <1> QED BY <1>1, <1>3, Zenon DEF StringInv, Spelled, Byte, ByteAt

\* translated_byte_buffer and UserBufferIterator give the kernel the very bytes
\* of every buffer of a program, each once and in order, and translated_str the
\* characters before the first zero: whatever the sizes of pages, of virtual
\* addresses and of pointers, and wherever the program's pages are.
THEOREM AccessTheorem == UserSpec => []AccessExact
  <1>1. UserInit => UserInv
    BY InitSliced DEF UserInit, UserInv
  <1>2. UserInv /\ [UserNext]_userVars => UserInv'
    BY UserStep
  <1>3. UserInv => AccessExact
    BY SlicesExact, StringIsExact DEF UserInv, AccessExact
  <1> QED BY <1>1, <1>2, <1>3, PTL DEF UserSpec
====
