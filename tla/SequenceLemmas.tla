--------------------------- MODULE SequenceLemmas ---------------------------
(***************************************************************************)
(* What removing, adding and selecting elements do to a sequence, the      *)
(* induction over the natural numbers that the last takes, and when one    *)
(* sequence is the beginning of another.                                   *)
(***************************************************************************)
EXTENDS Integers, Sequences, SequencesExt, Selection, WellFoundedInduction,
        TLAPS

\* What is left of a sequence without its element at i.
LEMMA Removed ==
  ASSUME NEW S, NEW s \in Seq(S), NEW i \in 1 .. Len(s)
  PROVE  /\ RemoveAt(s, i) \in Seq(S)
         /\ Len(RemoveAt(s, i)) = Len(s) - 1
         /\ \A j \in 1 .. Len(s) - 1 :
              RemoveAt(s, i)[j] = IF j < i THEN s[j] ELSE s[j + 1]
<1>1. SubSeq(s, 1, i - 1) \in Seq(S) /\ SubSeq(s, i + 1, Len(s)) \in Seq(S)
  OBVIOUS
<1>2. /\ Len(SubSeq(s, 1, i - 1)) = i - 1
      /\ Len(SubSeq(s, i + 1, Len(s))) = Len(s) - i
  OBVIOUS
<1>3. \A j \in 1 .. i - 1 : SubSeq(s, 1, i - 1)[j] = s[j]
  OBVIOUS
<1>4. \A j \in 1 .. Len(s) - i : SubSeq(s, i + 1, Len(s))[j] = s[j + i]
  OBVIOUS
<1> DEFINE b == SubSeq(s, 1, i - 1)
           c == SubSeq(s, i + 1, Len(s))
<1>5. RemoveAt(s, i) = b \o c
  BY DEF RemoveAt
<1>6. b \in Seq(S) /\ Len(b) = i - 1 /\ c \in Seq(S) /\ Len(c) = Len(s) - i
  BY <1>1, <1>2
<1>7. \A j \in 1 .. i - 1 : b[j] = s[j]
  BY <1>3
<1>8. \A j \in 1 .. Len(s) - i : c[j] = s[j + i]
  BY <1>4
<1> HIDE DEF b, c
<1>9. Len(s) \in Nat /\ i \in Nat
  OBVIOUS
<1>10. b \o c \in Seq(S) /\ Len(b \o c) = Len(s) - 1
  <2>1. b \o c \in Seq(S)
    BY <1>6
  <2>2. Len(b \o c) = Len(b) + Len(c)
    BY <1>6
  <2> QED
    BY <1>6, <1>9, <2>1, <2>2
<1>11. \A j \in 1 .. Len(s) - 1 : (b \o c)[j] = IF j < i THEN s[j] ELSE s[j + 1]
  <2> SUFFICES ASSUME NEW j \in 1 .. Len(s) - 1
               PROVE  (b \o c)[j] = IF j < i THEN s[j] ELSE s[j + 1]
    OBVIOUS
  <2>1. CASE j < i
    BY <1>6, <1>7, <1>9, <2>1
  <2>2. CASE ~(j < i)
    <3>1. (b \o c)[j] = c[j - (i - 1)]
      BY <1>6, <1>9, <2>2
    <3>2. j - (i - 1) \in 1 .. Len(s) - i
      BY <1>9, <2>2
    <3> QED
      BY <1>8, <1>9, <2>2, <3>1, <3>2
  <2> QED
    BY <2>1, <2>2
<1> QED
  BY <1>5, <1>10, <1>11

\* What a sequence is with a new head.
LEMMA Headed ==
  ASSUME NEW S, NEW s \in Seq(S), NEW e \in S
  PROVE  /\ <<e>> \o s \in Seq(S)
         /\ Len(<<e>> \o s) = Len(s) + 1
         /\ (<<e>> \o s)[1] = e
         /\ \A j \in 1 .. Len(s) : (<<e>> \o s)[j + 1] = s[j]
<1>1. <<e>> \in Seq(S) /\ Len(<<e>>) = 1 /\ <<e>>[1] = e
  OBVIOUS
<1> QED
  BY <1>1

\* Its elements.
LEMMA HeadedElements ==
  ASSUME NEW S, NEW s \in Seq(S), NEW e \in S, NEW t, t = <<e>> \o s
  PROVE  \A j \in 1 .. Len(t) : t[j] = e \/ \E k \in 1 .. Len(s) : t[j] = s[k]
<1>1. Len(s) \in Nat
  OBVIOUS
<1>2. Len(t) = Len(s) + 1 /\ t[1] = e /\ \A j \in 1 .. Len(s) : t[j + 1] = s[j]
  BY Headed
<1> SUFFICES ASSUME NEW j \in 1 .. Len(t), j # 1
             PROVE  \E k \in 1 .. Len(s) : t[j] = s[k]
  BY <1>2
<1>3. j - 1 \in 1 .. Len(s) /\ (j - 1) + 1 = j
  BY <1>1, <1>2
<1> QED
  BY <1>2, <1>3

\* The elements of a sequence.
LEMMA Elements ==
  ASSUME NEW S, NEW s \in Seq(S)
  PROVE  ToSet(s) \subseteq S
<1>1. DOMAIN s = 1 .. Len(s) /\ \A i \in 1 .. Len(s) : s[i] \in S
  OBVIOUS
<1> QED
  BY <1>1 DEF ToSet

-----------------------------------------------------------------------------
(* Induction.                                                              *)

\* A set of numbers has a least one.
LEMMA NatSetMin ==
  ASSUME NEW T \in SUBSET Nat, T # {}
  PROVE  \E x \in T : \A y \in T : x <= y
<1> DEFINE R == OpToRel(<, Nat)
<1>1. IsWellFoundedOn(R, Nat)
  BY NatLessThanWellFounded
<1> HIDE DEF R
<1>2. PICK x \in T : \A y \in T : ~(<<y, x>> \in R)
  BY <1>1, WFMin
<1>3. ASSUME NEW y \in T PROVE x <= y
  <2>1. ~(<<y, x>> \in R)
    BY <1>2
  <2>2. ~(y < x)
    BY <2>1 DEF R, OpToRel
  <2> QED BY <2>2
<1> QED BY <1>3

\* Induction over the natural numbers, with a set for the predicate.
LEMMA NatSetInduction ==
  ASSUME NEW T, 0 \in T, \A n \in Nat : n \in T => n + 1 \in T
  PROVE  Nat \subseteq T
<1> DEFINE U == {n \in Nat : n \notin T}
<1> SUFFICES ASSUME U # {} PROVE FALSE
  OBVIOUS
<1>1. PICK x \in U : \A y \in U : x <= y
  <2> HIDE DEF U
  <2>1. U \in SUBSET Nat BY DEF U
  <2> QED BY <2>1, NatSetMin
<1>2. x # 0 /\ x \in Nat OBVIOUS
<1>3. x - 1 \in Nat /\ x - 1 \notin U BY <1>1, <1>2
<1>4. x - 1 \in T BY <1>3
<1>5. x - 1 + 1 \in T BY <1>3, <1>4
<1> QED BY <1>2, <1>5

\* A function of the numbers to n that is defined step by step.
LEMMA Recursion ==
  ASSUME NEW S, NEW a \in S, NEW n \in Nat, NEW h \in [1 .. n -> [S -> S]]
  PROVE  \E f \in [0 .. n -> S] : f[0] = a /\ \A k \in 1 .. n : f[k] = h[k][f[k - 1]]
<1> DEFINE Step(f, k) == IF k = 0 THEN a ELSE h[k][f[k - 1]]
           Upto(m) == m <= n => \E f \in [0 .. m -> S] : \A k \in 0 .. m : f[k] = Step(f, k)
           T == {m \in Nat : Upto(m)}
<1>1. 0 \in T
  <2> DEFINE f == [k \in 0 .. 0 |-> a]
  <2>1. f \in [0 .. 0 -> S] /\ \A k \in 0 .. 0 : f[k] = Step(f, k)
    OBVIOUS
  <2> HIDE DEF f
  <2>2. Upto(0)
    BY <2>1
  <2> QED
    BY <2>2
<1>2. ASSUME NEW m \in Nat, m \in T PROVE m + 1 \in T
  <2> SUFFICES ASSUME m + 1 <= n PROVE Upto(m + 1)
    OBVIOUS
  <2>1. PICK f \in [0 .. m -> S] : \A k \in 0 .. m : f[k] = Step(f, k)
    BY <1>2
  <2> DEFINE g == [k \in 0 .. m + 1 |-> IF k = m + 1 THEN h[m + 1][f[m]] ELSE f[k]]
  <2>2. \A k \in 0 .. m : g[k] = f[k]
    OBVIOUS
  <2>3. g[m + 1] = h[m + 1][f[m]]
    OBVIOUS
  <2>4. g \in [0 .. m + 1 -> S]
    <3>1. f[m] \in S
      OBVIOUS
    <3>2. h[m + 1][f[m]] \in S
      BY <3>1
    <3> QED
      BY <3>2
  <2> HIDE DEF g
  <2>5. ASSUME NEW k \in 0 .. m + 1 PROVE g[k] = Step(g, k)
    <3>1. CASE k = 0
      BY <2>1, <2>2, <3>1
    <3>2. CASE k # 0 /\ k # m + 1
      <4>1. k - 1 \in 0 .. m /\ k \in 0 .. m
        BY <3>2
      <4> QED
        BY <2>1, <2>2, <3>2, <4>1
    <3>3. CASE k = m + 1
      <4>1. m \in 0 .. m /\ k - 1 = m
        BY <3>3
      <4> QED
        BY <2>2, <2>3, <3>3, <4>1
    <3> QED
      BY <3>1, <3>2, <3>3
  <2> QED
    BY <2>4, <2>5
<1> HIDE DEF T
<1>3. n \in T
  BY <1>1, <1>2, NatSetInduction
<1>4. PICK f \in [0 .. n -> S] : \A k \in 0 .. n : f[k] = Step(f, k)
  BY <1>3 DEF T
<1> QED
  BY <1>4

-----------------------------------------------------------------------------
(* Selection.                                                              *)

\* t is what the indices of I among the first n select from s: g says where in
\* s each element of t comes from.
Selects(t, s, I, n) ==
  \E g \in [1 .. Len(t) -> I \cap (1 .. n)] :
    /\ \A i \in 1 .. Len(t) : t[i] = s[g[i]]
    /\ \A i, j \in 1 .. Len(t) : i < j => g[i] < g[j]
    /\ \A k \in I \cap (1 .. n) : \E i \in 1 .. Len(t) : g[i] = k

\* f selects from the first n elements of s, one at a time.
StepByStep(f, s, I, n) ==
  f = [k \in 0 .. n |-> IF k = 0 THEN <<>>
                        ELSE IF k \in I THEN Append(f[k - 1], s[k]) ELSE f[k - 1]]

\* There is such a function.
LEMMA SelectionFunction ==
  ASSUME NEW s, NEW I, NEW n \in Nat
  PROVE  \E f : StepByStep(f, s, I, n)
<1> DEFINE Step(f, k) == IF k = 0 THEN <<>>
                         ELSE IF k \in I THEN Append(f[k - 1], s[k]) ELSE f[k - 1]
           Upto(m) == \E f : StepByStep(f, s, I, m)
           T == {m \in Nat : Upto(m)}
<1>1. 0 \in T
  <2> DEFINE f == [k \in 0 .. 0 |-> <<>>]
  <2>1. StepByStep(f, s, I, 0)
    BY DEF StepByStep
  <2> HIDE DEF f
  <2>2. Upto(0)
    BY <2>1
  <2> QED
    BY <2>2
<1>2. ASSUME NEW m \in Nat, m \in T PROVE m + 1 \in T
  <2>1. PICK f : f = [k \in 0 .. m |-> Step(f, k)]
    BY <1>2 DEF StepByStep
  <2> DEFINE h == [k \in 0 .. m + 1 |-> IF k = m + 1 THEN Step(f, k) ELSE f[k]]
  <2>2. \A k \in 0 .. m : h[k] = f[k]
    OBVIOUS
  <2>3. ASSUME NEW k \in 0 .. m + 1 PROVE h[k] = Step(h, k)
    <3>1. CASE k = 0
      <4>1. f[0] = Step(f, 0)
        BY <2>1
      <4> QED
        BY <2>2, <3>1, <4>1
    <3>2. CASE k # 0 /\ k # m + 1
      <4>1. k - 1 \in 0 .. m /\ k \in 0 .. m
        BY <3>2
      <4>2. f[k] = Step(f, k)
        BY <2>1, <4>1
      <4>3. h[k - 1] = f[k - 1] /\ h[k] = f[k]
        BY <2>2, <4>1
      <4> HIDE DEF h
      <4> QED
        BY <4>2, <4>3
    <3>3. CASE k = m + 1
      <4>1. k - 1 \in 0 .. m /\ h[k] = Step(f, k)
        BY <3>3
      <4>2. h[k - 1] = f[k - 1]
        BY <2>2, <4>1
      <4> HIDE DEF h
      <4> QED
        BY <4>1, <4>2
    <3> QED
      BY <3>1, <3>2, <3>3
  <2>4. h = [k \in 0 .. m + 1 |-> h[k]]
    OBVIOUS
  <2> HIDE DEF h
  <2>5. h = [k \in 0 .. m + 1 |-> Step(h, k)]
    BY <2>3, <2>4
  <2>6. Upto(m + 1)
    BY <2>5 DEF StepByStep
  <2> QED
    BY <2>6
<1> HIDE DEF T
<1>3. n \in T
  BY <1>1, <1>2, NatSetInduction
<1> QED
  BY <1>3 DEF T

\* One more index.
LEMMA SelectsNext ==
  ASSUME NEW S, NEW s \in Seq(S), NEW I, NEW n \in Nat, n + 1 \in 1 .. Len(s),
         NEW t \in Seq(S), Selects(t, s, I, n),
         NEW u, u = IF n + 1 \in I THEN Append(t, s[n + 1]) ELSE t
  PROVE  u \in Seq(S) /\ Selects(u, s, I, n + 1)
<1>1. PICK g \in [1 .. Len(t) -> I \cap (1 .. n)] :
        /\ \A i \in 1 .. Len(t) : t[i] = s[g[i]]
        /\ \A i, j \in 1 .. Len(t) : i < j => g[i] < g[j]
        /\ \A k \in I \cap (1 .. n) : \E i \in 1 .. Len(t) : g[i] = k
  BY DEF Selects
<1>2. Len(t) \in Nat /\ s[n + 1] \in S
  OBVIOUS
<1>3. CASE n + 1 \notin I
  <2>1. I \cap (1 .. n + 1) = I \cap (1 .. n)
    BY <1>3
  <2>2. u = t
    BY <1>3
  <2>3. Selects(t, s, I, n + 1)
    BY <2>1 DEF Selects
  <2> QED
    BY <2>2, <2>3
<1>4. CASE n + 1 \in I
  <2>1. /\ u \in Seq(S) /\ Len(u) = Len(t) + 1 /\ u[Len(t) + 1] = s[n + 1]
        /\ \A i \in 1 .. Len(t) : u[i] = t[i]
    BY <1>2, <1>4
  <2> DEFINE h == [i \in 1 .. Len(u) |-> IF i = Len(t) + 1 THEN n + 1 ELSE g[i]]
  <2>2. \A i \in 1 .. Len(t) : h[i] = g[i] /\ g[i] \in I \cap (1 .. n)
    <3> TAKE i \in 1 .. Len(t)
    <3>1. i \in 1 .. Len(u) /\ i # Len(t) + 1
      BY <1>2, <2>1
    <3>2. g[i] \in I \cap (1 .. n)
      BY <1>1
    <3> QED
      BY <3>1, <3>2
  <2>3. h[Len(t) + 1] = n + 1
    BY <1>2, <2>1
  <2>4. h \in [1 .. Len(u) -> I \cap (1 .. n + 1)]
    <3>1. ASSUME NEW i \in 1 .. Len(u) PROVE h[i] \in I \cap (1 .. n + 1)
      <4>1. CASE i = Len(t) + 1
        BY <1>4, <2>3, <4>1
      <4>2. CASE i # Len(t) + 1
        <5>1. i \in 1 .. Len(t)
          BY <1>2, <2>1, <4>2
        <5> QED
          BY <2>2, <5>1
      <4> QED
        BY <4>1, <4>2
    <3> QED
      BY <3>1
  <2> HIDE DEF h
  <2>5. ASSUME NEW i \in 1 .. Len(u) PROVE u[i] = s[h[i]]
    <3>1. i \in 1 .. Len(t) \/ i = Len(t) + 1
      BY <1>2, <2>1
    <3> QED
      BY <1>1, <2>1, <2>2, <2>3, <3>1
  <2>6. ASSUME NEW i \in 1 .. Len(u), NEW j \in 1 .. Len(u), i < j PROVE h[i] < h[j]
    <3>1. i \in 1 .. Len(t) /\ (j \in 1 .. Len(t) \/ j = Len(t) + 1)
      BY <1>2, <2>1, <2>6
    <3>2. CASE j \in 1 .. Len(t)
      BY <1>1, <2>2, <2>6, <3>1, <3>2
    <3>3. CASE j = Len(t) + 1
      BY <2>2, <2>3, <3>1, <3>3
    <3> QED
      BY <3>1, <3>2, <3>3
  <2>7. ASSUME NEW k \in I \cap (1 .. n + 1) PROVE \E i \in 1 .. Len(u) : h[i] = k
    <3>1. CASE k = n + 1
      BY <1>2, <2>1, <2>3, <3>1
    <3>2. CASE k # n + 1
      <4>1. k \in I \cap (1 .. n)
        BY <3>2
      <4>2. PICK i \in 1 .. Len(t) : g[i] = k
        BY <1>1, <4>1
      <4>3. i \in 1 .. Len(u)
        BY <1>2, <2>1
      <4> QED
        BY <2>2, <4>2, <4>3
    <3> QED
      BY <3>1, <3>2
  <2>8. Selects(u, s, I, n + 1)
    BY <2>4, <2>5, <2>6, <2>7 DEF Selects
  <2> QED
    BY <2>1, <2>8
<1> QED
  BY <1>3, <1>4

\* What Selected() selects, for every sequence and every set.
LEMMA SelectedSelects ==
  ASSUME NEW S, NEW s \in Seq(S), NEW I
  PROVE  Selected(s, I) \in Seq(S) /\ Selects(Selected(s, I), s, I, Len(s))
<1> DEFINE Step(f, k) == IF k = 0 THEN <<>>
                         ELSE IF k \in I THEN Append(f[k - 1], s[k]) ELSE f[k - 1]
           Is(f) == StepByStep(f, s, I, Len(s))
           u == CHOOSE f : Is(f)
           T == {k \in Nat : k <= Len(s) => u[k] \in Seq(S) /\ Selects(u[k], s, I, k)}
<1>0. Len(s) \in Nat
  OBVIOUS
<1>1. Is(u)
  <2>1. \E f : Is(f)
    BY <1>0, SelectionFunction
  <2> HIDE DEF Is
  <2> QED
    BY <2>1
<1>2. Selected(s, I) = u[Len(s)]
  BY DEF Selected, StepByStep
<1> HIDE DEF u
<1>3. 0 \in T
  <2>1. u[0] = <<>>
    BY <1>0, <1>1 DEF StepByStep
  <2>2. Selects(<<>>, s, I, 0)
    <3> DEFINE g == [i \in 1 .. 0 |-> 0]
    <3>1. Len(<<>>) = 0
      OBVIOUS
    <3>2. g \in [1 .. 0 -> I \cap (1 .. 0)]
      OBVIOUS
    <3>3. 1 .. 0 = {}
      OBVIOUS
    <3> HIDE DEF g
    <3> QED
      BY <3>1, <3>2, <3>3 DEF Selects
  <2>3. <<>> \in Seq(S)
    OBVIOUS
  <2> HIDE DEF Step, Is
  <2> QED
    BY <2>1, <2>2, <2>3
<1>4. ASSUME NEW n \in Nat, n \in T PROVE n + 1 \in T
  <2> SUFFICES ASSUME n + 1 <= Len(s)
               PROVE  u[n + 1] \in Seq(S) /\ Selects(u[n + 1], s, I, n + 1)
    OBVIOUS
  <2>1. n + 1 \in 1 .. Len(s) /\ n + 1 \in 0 .. Len(s)
    BY <1>0
  <2>2. u[n + 1] = Step(u, n + 1)
    BY <1>1, <2>1 DEF StepByStep
  <2>3. u[n + 1] = IF n + 1 \in I THEN Append(u[n], s[n + 1]) ELSE u[n]
    BY <2>2
  <2>4. u[n] \in Seq(S) /\ Selects(u[n], s, I, n)
    BY <1>0, <1>4
  <2> QED
    BY <2>1, <2>3, <2>4, SelectsNext
<1> HIDE DEF T
<1>5. Len(s) \in T
  BY <1>0, <1>3, <1>4, NatSetInduction
<1> QED
  BY <1>0, <1>2, <1>5 DEF T

-----------------------------------------------------------------------------
\* t begins with s.
Leads(s, t) == Len(s) <= Len(t) /\ \A i \in 1 .. Len(s) : s[i] = t[i]

\* No element comes twice.
Unrepeated(s) == \A i, j \in 1 .. Len(s) : s[i] = s[j] => i = j

\* u has the selection after each element of s.
Grows(u, S, s, I) ==
  /\ u \in [0 .. Len(s) -> Seq(S)] /\ u[0] = <<>> /\ u[Len(s)] = Selected(s, I)
  /\ \A k \in 1 .. Len(s) :
       u[k] = IF k \in I THEN Append(u[k - 1], s[k]) ELSE u[k - 1]

\* There is such a function.
LEMMA SelectionSteps ==
  ASSUME NEW S, NEW s \in Seq(S), NEW I
  PROVE  \E u : Grows(u, S, s, I)
<1> DEFINE Step(f, k) == IF k = 0 THEN <<>>
                         ELSE IF k \in I THEN Append(f[k - 1], s[k]) ELSE f[k - 1]
           Is(f) == StepByStep(f, s, I, Len(s))
           u == CHOOSE f : Is(f)
           T == {k \in Nat : k <= Len(s) => u[k] \in Seq(S)}
<1>0. Len(s) \in Nat
  OBVIOUS
<1>1. Is(u)
  <2>1. \E f : Is(f)
    BY <1>0, SelectionFunction
  <2> HIDE DEF Is
  <2> QED
    BY <2>1
<1>2. Selected(s, I) = u[Len(s)]
  BY DEF Selected, StepByStep
<1> HIDE DEF u
<1>3. u[0] = <<>>
  BY <1>0, <1>1 DEF StepByStep
<1>4. ASSUME NEW k \in 1 .. Len(s)
      PROVE  u[k] = IF k \in I THEN Append(u[k - 1], s[k]) ELSE u[k - 1]
  <2>1. k \in 0 .. Len(s) /\ k # 0
    BY <1>0
  <2>2. u[k] = Step(u, k)
    BY <1>1, <2>1 DEF StepByStep
  <2> QED
    BY <2>1, <2>2
<1>5. 0 \in T
  <2>1. u[0] \in Seq(S)
    BY <1>3
  <2> HIDE DEF Is
  <2> QED
    BY <2>1
<1>6. ASSUME NEW n \in Nat, n \in T PROVE n + 1 \in T
  <2> SUFFICES ASSUME n + 1 <= Len(s) PROVE u[n + 1] \in Seq(S)
    OBVIOUS
  <2>1. n + 1 \in 1 .. Len(s) /\ u[n] \in Seq(S) /\ s[n + 1] \in S
    BY <1>0, <1>6
  <2>2. u[n + 1] = IF n + 1 \in I THEN Append(u[n], s[n + 1]) ELSE u[n]
    BY <1>4, <2>1
  <2> QED
    BY <2>1, <2>2
<1>7. \A k \in 0 .. Len(s) : u[k] \in Seq(S)
  <2> HIDE DEF T
  <2>1. Nat \subseteq T
    BY <1>5, <1>6, NatSetInduction
  <2> QED
    BY <1>0, <2>1 DEF T
<1>8. u = [k \in 0 .. Len(s) |-> u[k]]
  BY <1>1 DEF StepByStep
<1>9. u \in [0 .. Len(s) -> Seq(S)]
  BY <1>7, <1>8
<1>10. Grows(u, S, s, I)
  BY <1>2, <1>3, <1>4, <1>9 DEF Grows
<1> QED
  BY <1>10

\* What is selected from the beginning is the beginning of what is selected.
LEMMA SelectedLeads ==
  ASSUME NEW S, NEW s \in Seq(S), NEW t \in Seq(S), Leads(t, s), NEW I, NEW J,
         \A k \in 1 .. Len(t) : k \in J <=> k \in I
  PROVE  Leads(Selected(t, J), Selected(s, I))
<1>0. Len(s) \in Nat /\ Len(t) \in Nat /\ Len(t) <= Len(s)
  BY DEF Leads
<1>1. PICK u : Grows(u, S, s, I)
  BY SelectionSteps
<1>2. PICK v : Grows(v, S, t, J)
  BY SelectionSteps
<1> DEFINE T == {k \in Nat : k <= Len(t) => u[k] = v[k]}
<1>3. 0 \in T
  BY <1>1, <1>2 DEF Grows
<1>4. ASSUME NEW n \in Nat, n \in T PROVE n + 1 \in T
  <2> SUFFICES ASSUME n + 1 <= Len(t) PROVE u[n + 1] = v[n + 1]
    OBVIOUS
  <2>1. n + 1 \in 1 .. Len(t) /\ n + 1 \in 1 .. Len(s) /\ n + 1 - 1 = n
    BY <1>0
  <2>2. u[n] = v[n]
    BY <1>0, <1>4
  <2>3. t[n + 1] = s[n + 1] /\ (n + 1 \in J <=> n + 1 \in I)
    BY <2>1 DEF Leads
  <2>4. u[n + 1] = IF n + 1 \in I THEN Append(u[n], s[n + 1]) ELSE u[n]
    BY <1>1, <2>1 DEF Grows
  <2>5. v[n + 1] = IF n + 1 \in J THEN Append(v[n], t[n + 1]) ELSE v[n]
    BY <1>2, <2>1 DEF Grows
  <2> QED
    BY <2>2, <2>3, <2>4, <2>5
<1>5. u[Len(t)] = v[Len(t)]
  <2> HIDE DEF T
  <2>1. Nat \subseteq T
    BY <1>3, <1>4, NatSetInduction
  <2> QED
    BY <1>0, <2>1 DEF T
<1> DEFINE w == u[Len(t)]
           U == {k \in Nat : Len(t) + k <= Len(s) => Leads(w, u[Len(t) + k])}
<1>6. 0 \in U
  <2>1. w \in Seq(S) /\ Len(t) + 0 = Len(t)
    BY <1>0, <1>1 DEF Grows
  <2> QED
    BY <2>1 DEF Leads
<1>7. ASSUME NEW n \in Nat, n \in U PROVE n + 1 \in U
  <2> DEFINE k == Len(t) + n
  <2> SUFFICES ASSUME k + 1 <= Len(s) PROVE Leads(w, u[k + 1])
    BY <1>0
  <2>1. k + 1 \in 1 .. Len(s) /\ k \in 0 .. Len(s) /\ k + 1 - 1 = k /\ k <= Len(s)
    BY <1>0
  <2>2. Leads(w, u[k])
    BY <1>7, <2>1
  <2>3. w \in Seq(S) /\ u[k] \in Seq(S) /\ s[k + 1] \in S
    BY <1>0, <1>1, <2>1 DEF Grows
  <2>4. u[k + 1] = IF k + 1 \in I THEN Append(u[k], s[k + 1]) ELSE u[k]
    BY <1>1, <2>1 DEF Grows
  <2> HIDE DEF k, w
  <2>5. CASE k + 1 \in I
    <3>1. /\ Len(u[k + 1]) = Len(u[k]) + 1 /\ Len(u[k]) \in Nat /\ Len(w) \in Nat
          /\ \A i \in 1 .. Len(u[k]) : u[k + 1][i] = u[k][i]
      BY <2>3, <2>4, <2>5
    <3> QED
      BY <2>2, <3>1 DEF Leads
  <2> QED
    BY <2>2, <2>4, <2>5
<1>8. Leads(w, u[Len(s)])
  <2> HIDE DEF U
  <2>1. Nat \subseteq U
    BY <1>6, <1>7, NatSetInduction
  <2>2. Len(s) - Len(t) \in U /\ Len(t) + (Len(s) - Len(t)) = Len(s)
    BY <1>0, <2>1
  <2> HIDE DEF w
  <2> QED
    BY <1>0, <2>2 DEF U
<1> QED
  BY <1>1, <1>2, <1>5, <1>8 DEF Grows

\* What is selected was there, and what is to be selected is.
LEMMA SelectedElements ==
  ASSUME NEW S, NEW s \in Seq(S), NEW I, NEW u, u = Selected(s, I)
  PROVE  /\ \A i \in 1 .. Len(u) : \E k \in I \cap (1 .. Len(s)) : u[i] = s[k]
         /\ \A k \in I \cap (1 .. Len(s)) : \E i \in 1 .. Len(u) : u[i] = s[k]
         /\ Unrepeated(s) => Unrepeated(u)
<1>1. u \in Seq(S) /\ Selects(u, s, I, Len(s))
  BY SelectedSelects
<1>2. PICK g \in [1 .. Len(u) -> I \cap (1 .. Len(s))] :
        /\ \A i \in 1 .. Len(u) : u[i] = s[g[i]]
        /\ \A i, j \in 1 .. Len(u) : i < j => g[i] < g[j]
        /\ \A k \in I \cap (1 .. Len(s)) : \E i \in 1 .. Len(u) : g[i] = k
  BY <1>1 DEF Selects
<1>3. ASSUME NEW i \in 1 .. Len(u) PROVE \E k \in I \cap (1 .. Len(s)) : u[i] = s[k]
  BY <1>2
<1>4. ASSUME NEW k \in I \cap (1 .. Len(s)) PROVE \E i \in 1 .. Len(u) : u[i] = s[k]
  BY <1>2
<1>5. ASSUME Unrepeated(s), NEW i \in 1 .. Len(u), NEW j \in 1 .. Len(u), u[i] = u[j]
      PROVE  i = j
  <2>1. /\ g[i] \in 1 .. Len(s) /\ g[j] \in 1 .. Len(s)
        /\ s[g[i]] = u[i] /\ s[g[j]] = u[j]
    BY <1>2
  <2>2. g[i] = g[j]
    BY <1>5, <2>1 DEF Unrepeated
  <2>3. ~(i < j) /\ ~(j < i)
    <3>1. g[i] \in Int /\ g[j] \in Int
      BY <2>1
    <3> QED
      BY <1>2, <2>2, <3>1
  <2>4. i \in Int /\ j \in Int
    BY <1>1
  <2> QED
    BY <2>3, <2>4
<1> QED
  BY <1>3, <1>4, <1>5 DEF Unrepeated

-----------------------------------------------------------------------------
(* Beginnings of sequences.                                                *)

LEMMA PrefixLeads ==
  ASSUME NEW S, NEW s \in Seq(S), NEW t \in Seq(S)
  PROVE  IsPrefix(s, t) <=> Leads(s, t)
<1>1. Len(s) \in Nat /\ Len(t) \in Nat
  OBVIOUS
<1>2. ASSUME Len(s) <= Len(t), \A i \in 1 .. Len(s) : s[i] = t[i]
      PROVE  SubSeq(s, 1, Len(s)) = SubSeq(t, 1, Len(s))
  BY <1>1, <1>2
<1>3. ASSUME Len(s) <= Len(t), SubSeq(s, 1, Len(s)) = SubSeq(t, 1, Len(s)),
             NEW i \in 1 .. Len(s)
      PROVE  s[i] = t[i]
  <2>1. SubSeq(s, 1, Len(s))[i] = s[i] /\ SubSeq(t, 1, Len(s))[i] = t[i]
    BY <1>1, <1>3
  <2> QED
    BY <1>3, <2>1
<1> QED
  BY <1>2, <1>3 DEF IsPrefix, Leads

LEMMA LeadsOn ==
  ASSUME NEW S, NEW s \in Seq(S), NEW t \in Seq(S), NEW u \in Seq(S),
         Leads(s, t), Leads(t, u)
  PROVE  Leads(s, u)
<1>1. Len(s) \in Nat /\ Len(t) \in Nat /\ Len(u) \in Nat
  OBVIOUS
<1> QED
  BY <1>1 DEF Leads

LEMMA LeadsSelf ==
  ASSUME NEW S, NEW s \in Seq(S)
  PROVE  Leads(s, s)
BY DEF Leads

\* The rest of v behind its beginning.
LEMMA Completed ==
  ASSUME NEW S, NEW s \in Seq(S), NEW v \in Seq(S), Leads(s, v)
  PROVE  s \o SubSeq(v, Len(s) + 1, Len(v)) = v
<1> DEFINE r == SubSeq(v, Len(s) + 1, Len(v))
<1>1. Len(s) \in Nat /\ Len(v) \in Nat /\ Len(s) <= Len(v)
  BY DEF Leads
<1>2. /\ r \in Seq(S) /\ Len(r) = Len(v) - Len(s)
      /\ \A i \in 1 .. Len(v) - Len(s) : r[i] = v[Len(s) + i]
  BY <1>1
<1> HIDE DEF r
<1> DEFINE q == s \o r
<1>3. /\ q \in Seq(S) /\ Len(q) = Len(v)
      /\ \A i \in 1 .. Len(s) : q[i] = s[i]
      /\ \A i \in 1 .. Len(r) : q[Len(s) + i] = r[i]
  BY <1>1, <1>2
<1> HIDE DEF q
<1>4. ASSUME NEW i \in 1 .. Len(v) PROVE q[i] = v[i]
  <2>1. CASE i \in 1 .. Len(s)
    BY <1>3, <2>1 DEF Leads
  <2>2. CASE i \notin 1 .. Len(s)
    <3>1. i - Len(s) \in 1 .. Len(r) /\ Len(s) + (i - Len(s)) = i
      BY <1>1, <1>2, <2>2
    <3>2. q[i] = r[i - Len(s)]
      BY <1>3, <3>1
    <3> QED
      BY <1>2, <3>1, <3>2
  <2> QED
    BY <2>1, <2>2
<1>5. q = v
  BY <1>3, <1>4
<1> QED
  BY <1>5 DEF q, r

=============================================================================
