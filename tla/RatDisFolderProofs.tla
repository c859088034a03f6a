------------------------- MODULE RatDisFolderProofs -------------------------
(***************************************************************************)
(* Theorems about disconnected folders, for any number of messages and     *)
(* operations, and any failures within what each theorem says.             *)
(***************************************************************************)
EXTENDS RatDisFolder, SequenceLemmas, FiniteSetTheorems, TLAPS

Message == [uid : Nat, msg : Nat, flags : SUBSET Flags]
Line == Nat \X Nat

LEMMA MessageFields ==
  ASSUME NEW m \in Message, NEW u
  PROVE  /\ [m EXCEPT !.uid = u].uid = u /\ [m EXCEPT !.uid = u].msg = m.msg
         /\ m.uid \in Nat /\ m.msg \in Nat /\ m.flags \subseteq Flags
BY DEF Message

-----------------------------------------------------------------------------
(* Sets of numbers.                                                        *)

\* A set of indices has a greatest one.
LEMMA MaxIndex ==
  ASSUME NEW n \in Nat, NEW S \in SUBSET (1 .. n), S # {}
  PROVE  Max(S) \in S /\ \A x \in S : x <= Max(S)
<1> DEFINE U == {m \in Nat : \A x \in S : x <= m}
<1>1. n \in U
  OBVIOUS
<1>2. PICK m \in U : \A k \in U : m <= k
  <2>1. U \in SUBSET Nat /\ U # {}
    BY <1>1
  <2> HIDE DEF U
  <2> QED
    BY <2>1, NatSetMin
<1>3. m \in S
  <2>1. SUFFICES ASSUME m \notin S PROVE FALSE
    OBVIOUS
  <2>2. PICK x \in S : TRUE
    OBVIOUS
  <2>3. m - 1 \in Nat
    BY <1>2, <2>1, <2>2
  <2>4. m - 1 \in U
    BY <1>2, <2>1, <2>3
  <2> QED
    BY <1>2, <2>3, <2>4
<1>4. \A x \in S : m >= x
  BY <1>2
<1>5. Max(S) \in S /\ \A x \in S : Max(S) >= x
  BY <1>3, <1>4 DEF Max
<1> QED
  BY <1>5

\* A set of numbers that is not empty has a least one.
LEMMA MinNumber ==
  ASSUME NEW S \in SUBSET Nat, S # {}
  PROVE  Min(S) \in S /\ \A x \in S : Min(S) <= x
<1>1. PICK m \in S : \A x \in S : m <= x
  BY NatSetMin
<1> QED
  BY <1>1 DEF Min

\* A finite set as a sequence.
LEMMA SetSequence ==
  ASSUME NEW S, IsFiniteSet(S)
  PROVE  /\ SetToSeq(S) \in Seq(S)
         /\ \A x \in S : \E j \in 1 .. Len(SetToSeq(S)) : SetToSeq(S)[j] = x
<1> DEFINE t == SetToSeq(S)
           c == Cardinality(S)
<1>1. c \in Nat /\ ExistsBijection(1 .. c, S)
  BY FS_CardinalityType
<1>2. PICK f \in [1 .. c -> S] : IsInjective(f)
  BY <1>1 DEF ExistsBijection, Bijection, Injection
<1>3. t \in [1 .. c -> S] /\ IsInjective(t)
  BY <1>2 DEF SetToSeq
<1> HIDE DEF t
<1>4. t \in Seq(S) /\ Len(t) = c
  BY <1>1, <1>3
<1>5. t \in Surjection(1 .. c, S)
  <2>1. IsFiniteSet(1 .. c) /\ Cardinality(1 .. c) = c
    BY <1>1, FS_Interval
  <2>2. t \in Injection(1 .. c, S)
    BY <1>3 DEF Injection
  <2> QED
    BY <2>1, <2>2, FS_Injection
<1>6. \A x \in S : \E k \in 1 .. c : t[k] = x
  BY <1>5 DEF Surjection
<1> QED
  BY <1>4, <1>6 DEF t

\* How many elements of a set of numbers are up to a number.
Counts(c, S) ==
  /\ c[0] = 0
  /\ \A m \in Nat : /\ c[m] \in Nat
                    /\ c[m + 1] = IF m + 1 \in S THEN c[m] + 1 ELSE c[m]

LEMMA Counting ==
  ASSUME NEW S, IsFiniteSet(S), \A v \in S : v \in Nat /\ 1 <= v
  PROVE  Counts([m \in Nat |-> Cardinality({v \in S : v <= m})], S)
<1> DEFINE Upto(m) == {v \in S : v <= m}
           c == [m \in Nat |-> Cardinality(Upto(m))]
<1>1. ASSUME NEW m \in Nat PROVE IsFiniteSet(Upto(m)) /\ c[m] = Cardinality(Upto(m)) /\ c[m] \in Nat
  <2>1. Upto(m) \in SUBSET S
    OBVIOUS
  <2>2. IsFiniteSet(Upto(m))
    BY <2>1, FS_Subset
  <2>3. Cardinality(Upto(m)) \in Nat
    BY <2>2, FS_CardinalityType
  <2> QED
    BY <2>2, <2>3
<1>2. ASSUME NEW m \in Nat
      PROVE  c[m + 1] = IF m + 1 \in S THEN c[m] + 1 ELSE c[m]
  <2>1. CASE m + 1 \in S
    <3>1. Upto(m + 1) = Upto(m) \cup {m + 1} /\ m + 1 \notin Upto(m) /\ m + 1 \in Nat
      BY <2>1
    <3> HIDE DEF c, Upto
    <3>2. Cardinality(Upto(m) \cup {m + 1}) = Cardinality(Upto(m)) + 1
      BY <1>1, <3>1, FS_AddElement
    <3> QED
      BY <1>1, <2>1, <3>1, <3>2
  <2>2. CASE m + 1 \notin S
    <3>1. Upto(m + 1) = Upto(m) /\ m + 1 \in Nat
      BY <2>2
    <3> HIDE DEF c, Upto
    <3> QED
      BY <1>1, <2>2, <3>1
  <2> QED
    BY <2>1, <2>2
<1>3. c[0] = 0
  <2>1. Upto(0) = {} /\ 0 \in Nat
    OBVIOUS
  <2> HIDE DEF c, Upto
  <2> QED
    BY <1>1, <2>1, FS_EmptySet
<1>4. \A m \in Nat : c[m] \in Nat /\ c[m] = Cardinality(Upto(m))
  BY <1>1
<1> QED
  BY <1>2, <1>3, <1>4 DEF Counts

\* The uids the stream knows, one for each place.
LEMMA PlaceInSet ==
  ASSUME NEW b \in Nat, NEW S \in SUBSET (1 .. b), NEW n \in Nat,
         1 <= n, n <= Cardinality(S)
  PROVE  UidOf(S, n) \in S /\ MsgNo(S, UidOf(S, n)) = n
<1>1. IsFiniteSet(S) /\ Cardinality(S) \in Nat
  <2>1. 1 \in Int /\ b \in Int
    OBVIOUS
  <2>2. IsFiniteSet(1 .. b)
    BY <2>1, FS_Interval, Zenon
  <2>3. IsFiniteSet(S)
    BY <2>2, FS_Subset
  <2> QED
    BY <2>3, FS_CardinalityType
<1> DEFINE c == [m \in Nat |-> Cardinality({v \in S : v <= m})]
<1>2. Counts(c, S)
  <2>1. \A v \in S : v \in Nat /\ 1 <= v
    OBVIOUS
  <2> QED
    BY <1>1, <2>1, Counting
<1>3. c[b] = Cardinality(S)
  <2>1. {v \in S : v <= b} = S
    <3>1. \A v \in S : v <= b
      OBVIOUS
    <3> QED
      BY <3>1, Zenon
  <2> QED
    BY <2>1
<1>4. \A m \in Nat : MsgNo(S, m) = IF m \in S THEN c[m] ELSE 0
  BY DEF MsgNo
<1> HIDE DEF c
<1> DEFINE U == {m \in Nat : n <= c[m]}
<1>5. PICK m \in U : \A k \in U : m <= k
  <2>1. U \in SUBSET Nat
    OBVIOUS
  <2>2. b \in U
    BY <1>1, <1>3
  <2> HIDE DEF U
  <2> QED
    BY <2>1, <2>2, NatSetMin
<1>6. m \in S /\ c[m] = n
  <2>1. m # 0
    BY <1>2, <1>5 DEF Counts
  <2>2. m - 1 \in Nat /\ m - 1 + 1 = m
    BY <1>5, <2>1
  <2>3. m - 1 \notin U
    BY <1>5, <2>2
  <2>4. c[m - 1] \in Nat /\ c[m] \in Nat
    BY <1>2, <1>5, <2>2 DEF Counts
  <2>5. c[m - 1] < n
    BY <2>2, <2>3, <2>4
  <2>6. n <= c[m]
    BY <1>5
  <2>7. c[m] = IF m \in S THEN c[m - 1] + 1 ELSE c[m - 1]
    BY <1>2, <2>2 DEF Counts
  <2> QED
    BY <2>4, <2>5, <2>6, <2>7
<1>7. MsgNo(S, m) = n
  BY <1>4, <1>5, <1>6
<1> QED
  BY <1>6, <1>7 DEF UidOf

-----------------------------------------------------------------------------
(* The uids of the local mailbox.                                          *)

\* The messages the driver has not parsed yet come last, and the uids of the
\* others ascend, up to the last one of the header.
UidsRight(f, h) ==
  /\ \A i \in 1 .. Len(f) : f[i].uid <= h
  /\ \A i, j \in 1 .. Len(f) : i < j /\ f[j].uid # 0 => f[i].uid # 0 /\ f[i].uid < f[j].uid

\* What the driver makes of f, when the last uid in the header is h, and the last
\* uid it has given out then.
Numbered(f, h) ==
  [i \in DOMAIN f |-> IF f[i].uid # 0 THEN f[i]
     ELSE [f[i] EXCEPT !.uid = h + Cardinality({j \in Unparsed(f) : j <= i})]]
LastGiven(f, h) == h + Cardinality(Unparsed(f))

\* Every message has a uid, and the uids ascend up to a.
Ascends(p, a) ==
  /\ \A i \in 1 .. Len(p) : 1 <= p[i].uid /\ p[i].uid <= a
  /\ \A i, j \in 1 .. Len(p) : i < j => p[i].uid < p[j].uid

\* The same messages under the same uids, whatever their flags.
Alike(f, g) ==
  /\ Len(f) = Len(g)
  /\ \A i \in 1 .. Len(f) : f[i].uid = g[i].uid /\ f[i].msg = g[i].msg

\* What numbering changes.
Numbers(p, a, f, h) ==
  /\ p \in Seq(Message) /\ Len(p) = Len(f) /\ a \in Nat /\ h <= a /\ Ascends(p, a)
  /\ \A i \in 1 .. Len(f) :
       /\ p[i].msg = f[i].msg /\ p[i].flags = f[i].flags
       /\ IF f[i].uid # 0 THEN p[i] = f[i] ELSE p[i].uid > h

\* The unparsed messages up to one place.
LEMMA UnparsedCounts ==
  ASSUME NEW f \in Seq(Message)
  PROVE  /\ IsFiniteSet(Unparsed(f)) /\ Cardinality(Unparsed(f)) \in Nat
         /\ Counts([m \in Nat |-> Cardinality({v \in Unparsed(f) : v <= m})], Unparsed(f))
         /\ Cardinality(Unparsed(f)) = Cardinality({v \in Unparsed(f) : v <= Len(f)})
<1>1. Len(f) \in Nat /\ Unparsed(f) \subseteq 1 .. Len(f)
  BY DEF Unparsed
<1>2. IsFiniteSet(1 .. Len(f))
  <2>1. 1 \in Int /\ Len(f) \in Int
    BY <1>1
  <2> QED
    BY <2>1, FS_Interval, Zenon
<1>3. IsFiniteSet(Unparsed(f)) /\ Cardinality(Unparsed(f)) \in Nat
  BY <1>1, <1>2, FS_Subset, FS_CardinalityType
<1>4. \A v \in Unparsed(f) : v \in Nat /\ 1 <= v /\ v <= Len(f)
  BY <1>1
<1>5. {v \in Unparsed(f) : v <= Len(f)} = Unparsed(f)
  BY <1>4, Zenon
<1> QED
  BY <1>3, <1>4, <1>5, Counting

\* The number of elements up to a number never falls, and it rises at each one.
LEMMA CountsRise ==
  ASSUME NEW S, NEW c, Counts(c, S), NEW i \in Nat, NEW j \in Nat, i < j
  PROVE  c[i] <= c[j] /\ (j \in S => c[i] < c[j])
<1> DEFINE T == {k \in Nat : c[i] <= c[i + k]}
<1>1. 0 \in T
  BY DEF Counts
<1>2. ASSUME NEW k \in Nat, k \in T PROVE k + 1 \in T
  <2>1. i + k \in Nat /\ i + (k + 1) = (i + k) + 1 /\ k + 1 \in Nat
    OBVIOUS
  <2>2. c[i] \in Nat /\ c[i + k] \in Nat
        /\ c[(i + k) + 1] = IF (i + k) + 1 \in S THEN c[i + k] + 1 ELSE c[i + k]
    BY <2>1 DEF Counts
  <2> QED
    BY <1>2, <2>1, <2>2
<1> HIDE DEF T
<1>3. Nat \subseteq T
  BY <1>1, <1>2, NatSetInduction
<1>4. \A k \in Nat : c[i] <= c[i + k]
  BY <1>3 DEF T
<1>5. j - 1 \in Nat /\ j - 1 - i \in Nat /\ i + (j - 1 - i) = j - 1 /\ (j - 1) + 1 = j
  OBVIOUS
<1>6. c[i] <= c[j - 1]
  BY <1>4, <1>5
<1>7. /\ c[i] \in Nat /\ c[j - 1] \in Nat
      /\ c[j] = IF j \in S THEN c[j - 1] + 1 ELSE c[j - 1]
  BY <1>5 DEF Counts
<1> QED
  BY <1>6, <1>7

LEMMA Numbering ==
  ASSUME NEW f \in Seq(Message), NEW h \in Nat, UidsRight(f, h)
  PROVE  Numbers(Numbered(f, h), LastGiven(f, h), f, h)
<1> DEFINE c == [m \in Nat |-> Cardinality({v \in Unparsed(f) : v <= m})]
           p == Numbered(f, h)
           a == LastGiven(f, h)
<1>1. Len(f) \in Nat /\ DOMAIN f = 1 .. Len(f) /\ \A i \in 1 .. Len(f) : f[i] \in Message
  OBVIOUS
<1>2. /\ Counts(c, Unparsed(f)) /\ a = h + c[Len(f)]
      /\ \A i \in 1 .. Len(f) : c[i] = Cardinality({v \in Unparsed(f) : v <= i})
  <2>1. a = h + c[Len(f)]
    BY <1>1, UnparsedCounts DEF LastGiven
  <2> QED
    BY <2>1, UnparsedCounts
<1>3. \A i \in 1 .. Len(f) : p[i] = IF f[i].uid # 0 THEN f[i]
                                    ELSE [f[i] EXCEPT !.uid = h + c[i]]
  BY <1>1, <1>2 DEF Numbered
<1>4. DOMAIN p = 1 .. Len(f)
  BY <1>1 DEF Numbered
<1> HIDE DEF c, p, a
<1>5. \A i \in 1 .. Len(f) : i \in Unparsed(f) <=> f[i].uid = 0
  BY <1>1 DEF Unparsed
<1>6. \A i \in 1 .. Len(f) : c[i] \in Nat /\ c[i] <= c[Len(f)] /\ (f[i].uid = 0 => 1 <= c[i])
  <2> SUFFICES ASSUME NEW i \in 1 .. Len(f)
               PROVE  c[i] \in Nat /\ c[i] <= c[Len(f)] /\ (f[i].uid = 0 => 1 <= c[i])
    OBVIOUS
  <2>1. i \in Nat /\ 0 < i /\ 0 \in Nat /\ Len(f) \in Nat /\ i <= Len(f)
    BY <1>1
  <2>2. c[i] \in Nat /\ c[0] = 0
    BY <1>2, <2>1 DEF Counts
  <2>3. i < Len(f) => c[i] <= c[Len(f)]
    BY <1>2, <2>1, CountsRise
  <2>4. i \in Unparsed(f) => c[0] < c[i]
    BY <1>2, <2>1, CountsRise
  <2> QED
    BY <1>5, <2>1, <2>2, <2>3, <2>4
<1>7. c[Len(f)] \in Nat
  BY <1>1, <1>2 DEF Counts
<1>8. ASSUME NEW i \in 1 .. Len(f) PROVE p[i] \in Message
  <2>1. h + c[i] \in Nat /\ f[i] \in Message
    BY <1>1, <1>6
  <2> QED
    BY <1>3, <2>1 DEF Message
<1>9. p \in Seq(Message) /\ Len(p) = Len(f)
  <2>1. p \in [1 .. Len(f) -> Message]
    <3>1. p = [i \in 1 .. Len(f) |-> p[i]]
      BY <1>1 DEF p, Numbered
    <3> QED
      BY <1>8, <3>1
  <2> QED
    BY <1>1, <2>1
<1>10. a \in Nat /\ h <= a
  BY <1>2, <1>7
<1>11. ASSUME NEW i \in 1 .. Len(f)
       PROVE  /\ p[i].msg = f[i].msg /\ p[i].flags = f[i].flags
              /\ IF f[i].uid # 0 THEN p[i] = f[i] ELSE p[i].uid = h + c[i]
  BY <1>1, <1>3 DEF Message
<1>12. ASSUME NEW i \in 1 .. Len(f)
       PROVE  1 <= p[i].uid /\ p[i].uid <= a /\ (f[i].uid = 0 => p[i].uid > h)
  <2>1. f[i].uid \in Nat /\ f[i].uid <= h
    BY <1>1 DEF Message, UidsRight
  <2>2. CASE f[i].uid # 0
    BY <1>10, <1>11, <2>1, <2>2
  <2>3. CASE f[i].uid = 0
    BY <1>2, <1>6, <1>7, <1>11, <2>3
  <2> QED
    BY <2>2, <2>3
<1>13. ASSUME NEW i \in 1 .. Len(f), NEW j \in 1 .. Len(f), i < j
       PROVE  p[i].uid < p[j].uid
  <2>1. /\ f[i].uid \in Nat /\ f[j].uid \in Nat /\ f[i].uid <= h
        /\ i \in Nat /\ j \in Nat /\ c[i] \in Nat /\ c[j] \in Nat
    <3>1. f[i] \in Message /\ f[j] \in Message /\ f[i].uid <= h
      BY <1>1 DEF UidsRight
    <3>2. f[i].uid \in Nat /\ f[j].uid \in Nat
      BY <3>1, MessageFields
    <3>3. i \in Nat /\ j \in Nat /\ c[i] \in Nat /\ c[j] \in Nat
      BY <1>1, <1>6
    <3> QED
      BY <3>1, <3>2, <3>3
  <2>2. CASE f[j].uid # 0
    BY <1>11, <1>13, <2>1, <2>2 DEF UidsRight
  <2>3. CASE f[j].uid = 0 /\ f[i].uid # 0
    BY <1>6, <1>11, <1>13, <2>1, <2>3
  <2>4. CASE f[j].uid = 0 /\ f[i].uid = 0
    <3>1. c[i] < c[j]
      BY <1>2, <1>5, <1>13, <2>1, <2>4, CountsRise
    <3> QED
      BY <1>11, <2>1, <2>4, <3>1
  <2> QED
    BY <2>2, <2>3, <2>4
<1>14. Ascends(p, a)
  BY <1>9, <1>12, <1>13 DEF Ascends
<1> QED
  BY <1>9, <1>10, <1>11, <1>12, <1>14 DEF Numbers, p, a

\* All is parsed.
AllParsed(f) == \A i \in 1 .. Len(f) : f[i].uid # 0

LEMMA NoneUnparsed ==
  ASSUME NEW f \in Seq(Message), NEW h \in Nat, AllParsed(f)
  PROVE  Unparsed(f) = {} /\ Numbered(f, h) = f /\ LastGiven(f, h) = h
<1>1. DOMAIN f = 1 .. Len(f) /\ f = [i \in DOMAIN f |-> f[i]]
  OBVIOUS
<1>2. Unparsed(f) = {}
  BY <1>1 DEF Unparsed, AllParsed
<1>3. Numbered(f, h) = f
  BY <1>1 DEF Numbered, AllParsed
<1>4. LastGiven(f, h) = h
  BY <1>2, FS_EmptySet DEF LastGiven
<1> QED
  BY <1>2, <1>3, <1>4

\* Every message of q is one of p, under the same uid.
Within(q, p) ==
  \A i \in 1 .. Len(q) : \E j \in 1 .. Len(p) : q[i].uid = p[j].uid /\ q[i].msg = p[j].msg

\* The mailbox g with the header k has no other messages than f with h, and has
\* given out no other uids; and all messages of f when they are alike.
Fewer(f, h, g, k) ==
  /\ g \in Seq(Message) /\ k \in Nat /\ h <= k /\ UidsRight(g, k)
  /\ LastGiven(g, k) = LastGiven(f, h)
  /\ Within(Numbered(g, k), Numbered(f, h))
Same(f, h, g, k) == Fewer(f, h, g, k) /\ Alike(Numbered(g, k), Numbered(f, h))

\* A mailbox in which every message has its uid.
LEMMA Ascending ==
  ASSUME NEW p \in Seq(Message), NEW a \in Nat, Ascends(p, a)
  PROVE  AllParsed(p) /\ UidsRight(p, a)
<1>1. Len(p) \in Nat /\ \A i \in 1 .. Len(p) : p[i] \in Message
  OBVIOUS
<1>2. \A i \in 1 .. Len(p) : p[i].uid \in Nat
  BY <1>1, MessageFields
<1>3. AllParsed(p)
  BY <1>2 DEF Ascends, AllParsed
<1>4. UidsRight(p, a)
  BY <1>2 DEF Ascends, UidsRight
<1> QED
  BY <1>3, <1>4

LEMMA AlikeWithin ==
  ASSUME NEW f, NEW g, Alike(f, g)
  PROVE  Within(f, g) /\ Within(g, f)
BY DEF Alike, Within

\* What does not look at flags does not tell mailboxes apart that are alike.
LEMMA AlikeNumbered ==
  ASSUME NEW f \in Seq(Message), NEW h \in Nat, UidsRight(f, h),
         NEW g \in Seq(Message), Alike(g, f)
  PROVE  Same(f, h, g, h)
<1>1. /\ Len(f) \in Nat /\ DOMAIN f = 1 .. Len(f) /\ DOMAIN g = 1 .. Len(f) /\ Len(g) = Len(f)
      /\ \A i \in 1 .. Len(f) : g[i].uid = f[i].uid /\ g[i].msg = f[i].msg
      /\ \A i \in 1 .. Len(f) : f[i] \in Message /\ g[i] \in Message
  BY DEF Alike
<1>2. Unparsed(g) = Unparsed(f)
  BY <1>1 DEF Unparsed
<1>3. UidsRight(g, h)
  BY <1>1 DEF UidsRight
<1>4. LastGiven(g, h) = LastGiven(f, h)
  BY <1>2 DEF LastGiven
<1> DEFINE n(i) == h + Cardinality({j \in Unparsed(f) : j <= i})
<1>5. \A i \in 1 .. Len(f) :
        /\ Numbered(f, h)[i] = IF f[i].uid # 0 THEN f[i] ELSE [f[i] EXCEPT !.uid = n(i)]
        /\ Numbered(g, h)[i] = IF g[i].uid # 0 THEN g[i] ELSE [g[i] EXCEPT !.uid = n(i)]
  BY <1>1, <1>2 DEF Numbered
<1>6. Len(Numbered(f, h)) = Len(f) /\ Len(Numbered(g, h)) = Len(f)
  BY <1>1, <1>3, Numbering DEF Numbers
<1> HIDE DEF n
<1>7. ASSUME NEW i \in 1 .. Len(f)
      PROVE  /\ Numbered(g, h)[i].uid = Numbered(f, h)[i].uid
             /\ Numbered(g, h)[i].msg = Numbered(f, h)[i].msg
  <2>1. f[i] \in Message /\ g[i] \in Message /\ g[i].uid = f[i].uid /\ g[i].msg = f[i].msg
    BY <1>1
  <2>2. CASE f[i].uid # 0
    BY <1>5, <2>1, <2>2
  <2>3. CASE f[i].uid = 0
    <3>1. /\ Numbered(f, h)[i] = [f[i] EXCEPT !.uid = n(i)]
          /\ Numbered(g, h)[i] = [g[i] EXCEPT !.uid = n(i)]
      BY <1>5, <2>1, <2>3
    <3> QED
      BY <2>1, <3>1, MessageFields
  <2> QED
    BY <2>2, <2>3
<1>8. Alike(Numbered(g, h), Numbered(f, h))
  BY <1>6, <1>7 DEF Alike
<1>9. Within(Numbered(g, h), Numbered(f, h))
  BY <1>8, AlikeWithin
<1> QED
  BY <1>3, <1>4, <1>8, <1>9 DEF Same, Fewer

\* The driver parses.
LEMMA ParsedSame ==
  ASSUME NEW f \in Seq(Message), NEW h \in Nat, UidsRight(f, h),
         NEW g \in Seq(Message), Alike(g, f)
  PROVE  /\ Same(f, h, Numbered(g, h), LastGiven(g, h))
         /\ AllParsed(Numbered(g, h))
         /\ LastGiven(Numbered(g, h), LastGiven(g, h)) = LastGiven(g, h)
<1> DEFINE p == Numbered(g, h)
           a == LastGiven(g, h)
<1>1. Same(f, h, g, h)
  BY AlikeNumbered
<1>2. Numbers(p, a, g, h)
  BY <1>1, Numbering DEF Same, Fewer
<1>3. a = LastGiven(f, h) /\ Alike(p, Numbered(f, h)) /\ Within(p, Numbered(f, h))
  BY <1>1 DEF Same, Fewer
<1> HIDE DEF p, a
<1>4. p \in Seq(Message) /\ a \in Nat /\ h <= a /\ Ascends(p, a)
  BY <1>2 DEF Numbers
<1>5. AllParsed(p) /\ UidsRight(p, a)
  BY <1>4, Ascending
<1>6. Numbered(p, a) = p /\ LastGiven(p, a) = a
  BY <1>4, <1>5, NoneUnparsed
<1>7. Same(f, h, p, a)
  BY <1>3, <1>4, <1>5, <1>6 DEF Same, Fewer
<1> QED
  BY <1>5, <1>6, <1>7 DEF p, a

\* The local mailbox is expunged.
LEMMA ExpungedFewer ==
  ASSUME NEW f \in Seq(Message), NEW h \in Nat, UidsRight(f, h), NEW I,
         NEW g, g = Selected(Numbered(f, h), I)
  PROVE  /\ Fewer(f, h, g, LastGiven(f, h)) /\ AllParsed(g)
         /\ LastGiven(g, LastGiven(f, h)) = LastGiven(f, h)
<1> DEFINE p == Numbered(f, h)
           a == LastGiven(f, h)
<1>1. Numbers(p, a, f, h)
  BY Numbering
<1> HIDE DEF p, a
<1>2. p \in Seq(Message) /\ a \in Nat /\ h <= a /\ Ascends(p, a)
  BY <1>1 DEF Numbers
<1>3. g \in Seq(Message) /\ Selects(g, p, I, Len(p))
  BY <1>2, SelectedSelects DEF p
<1>4. PICK s \in [1 .. Len(g) -> I \cap (1 .. Len(p))] :
        /\ \A i \in 1 .. Len(g) : g[i] = p[s[i]]
        /\ \A i, j \in 1 .. Len(g) : i < j => s[i] < s[j]
  BY <1>3 DEF Selects
<1>5. \A i \in 1 .. Len(g) : s[i] \in 1 .. Len(p)
  BY <1>4
<1>6. Within(g, p)
  BY <1>4, <1>5 DEF Within
<1>7. Ascends(g, a)
  BY <1>2, <1>4, <1>5 DEF Ascends
<1>8. AllParsed(g) /\ UidsRight(g, a)
  BY <1>2, <1>3, <1>7, Ascending
<1>9. Numbered(g, a) = g /\ LastGiven(g, a) = a
  BY <1>2, <1>3, <1>8, NoneUnparsed
<1>10. Fewer(f, h, g, a)
  BY <1>2, <1>3, <1>6, <1>8, <1>9 DEF Fewer, p, a
<1> QED
  BY <1>8, <1>9, <1>10 DEF a

\* A message is appended, which the driver has not parsed yet.
\* The mailbox g is f with the message m, which gets the next uid.
OneMore(f, h, g, m) ==
  /\ LastGiven(g, h) = LastGiven(f, h) + 1 /\ Len(Numbered(g, h)) = Len(f) + 1
  /\ Numbered(g, h)[Len(f) + 1].uid = LastGiven(f, h) + 1
  /\ Numbered(g, h)[Len(f) + 1].msg = m.msg
  /\ \A i \in 1 .. Len(f) : Numbered(g, h)[i] = Numbered(f, h)[i]

LEMMA Appended ==
  ASSUME NEW f \in Seq(Message), NEW h \in Nat, UidsRight(f, h),
         NEW m \in Message, m.uid = 0, NEW g, g = Append(f, m)
  PROVE  /\ g \in Seq(Message) /\ Len(g) = Len(f) + 1 /\ UidsRight(g, h)
         /\ OneMore(f, h, g, m)
<1> DEFINE n == Len(f) + 1
<1>1. /\ Len(f) \in Nat /\ DOMAIN f = 1 .. Len(f) /\ \A i \in 1 .. Len(f) : f[i] \in Message
      /\ g \in Seq(Message) /\ Len(g) = n /\ DOMAIN g = 1 .. n
      /\ g[n] = m /\ \A i \in 1 .. Len(f) : g[i] = f[i]
  OBVIOUS
<1>2. UidsRight(g, h)
  <2>1. ASSUME NEW i \in 1 .. n PROVE g[i].uid <= h
    BY <1>1 DEF UidsRight
  <2>2. ASSUME NEW i \in 1 .. n, NEW j \in 1 .. n, i < j, g[j].uid # 0
        PROVE  g[i].uid # 0 /\ g[i].uid < g[j].uid
    <3>1. j # n
      BY <1>1, <2>2
    <3>2. i \in 1 .. Len(f) /\ j \in 1 .. Len(f)
      BY <1>1, <2>2, <3>1
    <3> QED
      BY <1>1, <2>2, <3>2 DEF UidsRight
  <2> QED
    BY <1>1, <2>1, <2>2 DEF UidsRight
<1>3. Unparsed(g) = Unparsed(f) \cup {n} /\ n \notin Unparsed(f)
  <2>1. \A i \in 1 .. n : i = n \/ i \in 1 .. Len(f)
    BY <1>1
  <2>2. n \in 1 .. n /\ n \notin 1 .. Len(f) /\ \A i \in 1 .. Len(f) : i \in 1 .. n
    BY <1>1
  <2>3. \A i : i \in Unparsed(g) <=> i \in Unparsed(f) \cup {n}
    BY <1>1, <2>1, <2>2 DEF Unparsed
  <2> QED
    BY <1>1, <2>2, <2>3 DEF Unparsed
<1>4. Cardinality(Unparsed(g)) = Cardinality(Unparsed(f)) + 1 /\ Cardinality(Unparsed(f)) \in Nat
  <2>1. IsFiniteSet(Unparsed(f)) /\ Cardinality(Unparsed(f)) \in Nat
    BY UnparsedCounts
  <2> HIDE DEF n
  <2>2. Cardinality(Unparsed(f) \cup {n}) = Cardinality(Unparsed(f)) + 1
    BY <1>3, <2>1, FS_AddElement
  <2> QED
    BY <1>3, <2>1, <2>2
<1>5. LastGiven(g, h) = LastGiven(f, h) + 1
  BY <1>4 DEF LastGiven
<1>6. Len(Numbered(g, h)) = n
  BY <1>1, <1>2, Numbering DEF Numbers
<1>7. Numbered(g, h)[n] = [m EXCEPT !.uid = LastGiven(g, h)]
  <2>1. {j \in Unparsed(g) : j <= n} = Unparsed(g)
    <3>1. \A j \in Unparsed(g) : j <= n
      BY <1>1 DEF Unparsed
    <3> QED
      BY <3>1, Zenon
  <2>2. n \in DOMAIN g /\ g[n] = m
    BY <1>1
  <2> HIDE DEF n
  <2>3. Numbered(g, h)[n] = [m EXCEPT !.uid = h + Cardinality({j \in Unparsed(g) : j <= n})]
    BY <2>2 DEF Numbered
  <2> QED
    BY <2>1, <2>3 DEF LastGiven
<1>8. ASSUME NEW i \in 1 .. Len(f) PROVE Numbered(g, h)[i] = Numbered(f, h)[i]
  <2>1. i \in 1 .. n /\ i < n /\ i \in Int /\ n \in Int
    BY <1>1
  <2>2. \A j : j \in {k \in Unparsed(g) : k <= i} <=> j \in {k \in Unparsed(f) : k <= i}
    BY <1>3, <2>1
  <2>3. {k \in Unparsed(g) : k <= i} = {k \in Unparsed(f) : k <= i}
    BY <2>2, Zenon
  <2>4. i \in DOMAIN f /\ i \in DOMAIN g /\ g[i] = f[i]
    BY <1>1, <2>1
  <2> QED
    BY <2>3, <2>4 DEF Numbered
<1>9. [m EXCEPT !.uid = LastGiven(g, h)].uid = LastGiven(g, h)
      /\ [m EXCEPT !.uid = LastGiven(g, h)].msg = m.msg
  BY MessageFields
<1> QED
  BY <1>1, <1>2, <1>5, <1>6, <1>7, <1>8, <1>9 DEF OneMore

-----------------------------------------------------------------------------
(* The mappings.                                                           *)

\* The uid u of the master is one of the message m.
Stands(arr, u, m) == u \in 1 .. Len(arr) /\ arr[u] = m.msg

\* What the map f says of the messages of p; and what lines say, where the last
\* one for a uid counts, or where all count.
MapRight(p, arr, f) ==
  \A i \in 1 .. Len(p) : p[i].uid \in DOMAIN f => Stands(arr, f[p[i].uid], p[i])
Latest(lines, j) == \A k \in 1 .. Len(lines) : j < k => lines[k][2] # lines[j][2]
LinesRight(p, arr, lines) ==
  \A i \in 1 .. Len(p), j \in 1 .. Len(lines) :
    lines[j][2] = p[i].uid /\ Latest(lines, j) => Stands(arr, lines[j][1], p[i])
AllRight(p, arr, lines) ==
  \A i \in 1 .. Len(p), j \in 1 .. Len(lines) :
    lines[j][2] = p[i].uid => Stands(arr, lines[j][1], p[i])

\* Lines that map to uids of the master up to n, and a map that does.
LinesTo(lines, n) == lines \in Seq(Line) /\ \A j \in 1 .. Len(lines) : lines[j][1] \in 1 .. n
MapTo(f, n) ==
  f \in [DOMAIN f -> 1 .. n] /\ DOMAIN f \subseteq Nat /\ IsFiniteSet(DOMAIN f)

LEMMA StandsOn ==
  ASSUME NEW arr \in Seq(Nat), NEW brr \in Seq(Nat), Leads(arr, brr), NEW u, NEW m, NEW o,
         m.msg = o.msg, Stands(arr, u, m)
  PROVE  Stands(brr, u, o)
<1>1. Len(arr) \in Nat /\ Len(brr) \in Nat /\ Len(arr) <= Len(brr)
  BY DEF Leads
<1> QED
  BY <1>1 DEF Stands, Leads

\* Fewer messages, and more uids, make nothing wrong.
LEMMA RightWithin ==
  ASSUME NEW arr \in Seq(Nat), NEW brr \in Seq(Nat), Leads(arr, brr),
         NEW p, NEW q, Within(q, p), NEW x
  PROVE  /\ MapRight(p, arr, x) => MapRight(q, brr, x)
         /\ LinesRight(p, arr, x) => LinesRight(q, brr, x)
         /\ AllRight(p, arr, x) => AllRight(q, brr, x)
<1>1. ASSUME NEW i \in 1 .. Len(q)
      PROVE  \E k \in 1 .. Len(p) :
               /\ q[i].uid = p[k].uid
               /\ \A u : Stands(arr, u, p[k]) => Stands(brr, u, q[i])
  <2>1. PICK k \in 1 .. Len(p) : q[i].uid = p[k].uid /\ q[i].msg = p[k].msg
    BY DEF Within
  <2>2. ASSUME NEW u, Stands(arr, u, p[k]) PROVE Stands(brr, u, q[i])
    BY <2>1, <2>2, StandsOn
  <2> QED
    BY <2>1, <2>2
<1>2. ASSUME MapRight(p, arr, x) PROVE MapRight(q, brr, x)
  BY <1>1, <1>2 DEF MapRight
<1>3. ASSUME LinesRight(p, arr, x) PROVE LinesRight(q, brr, x)
  BY <1>1, <1>3 DEF LinesRight
<1>4. ASSUME AllRight(p, arr, x) PROVE AllRight(q, brr, x)
  BY <1>1, <1>4 DEF AllRight
<1> QED
  BY <1>2, <1>3, <1>4

LEMMA AllLinesRight ==
  ASSUME NEW p, NEW arr, NEW lines, AllRight(p, arr, lines)
  PROVE  LinesRight(p, arr, lines)
BY DEF AllRight, LinesRight

\* What ReadMappings() reads: the latest line for each uid.
LEMMA ReadLatest ==
  ASSUME NEW lines \in Seq(Line), NEW l \in DOMAIN ReadMappings(lines)
  PROVE  \E j \in 1 .. Len(lines) :
           /\ lines[j][2] = l /\ Latest(lines, j) /\ ReadMappings(lines)[l] = lines[j][1]
<1> DEFINE S == {i \in DOMAIN lines : lines[i][2] = l}
<1>1. Len(lines) \in Nat /\ DOMAIN lines = 1 .. Len(lines)
  OBVIOUS
<1>2. S \in SUBSET (1 .. Len(lines)) /\ S # {} /\ ReadMappings(lines)[l] = lines[Max(S)][1]
  BY <1>1 DEF ReadMappings
<1>3. Max(S) \in S /\ \A x \in S : x <= Max(S)
  <2> HIDE DEF S
  <2> QED
    BY <1>1, <1>2, MaxIndex
<1>4. Max(S) \in 1 .. Len(lines) /\ lines[Max(S)][2] = l
  BY <1>1, <1>3
<1>5. \A k \in 1 .. Len(lines) : lines[k][2] = l => k <= Max(S)
  BY <1>1, <1>3
<1> DEFINE j == Max(S)
<1>6. j \in 1 .. Len(lines) /\ lines[j][2] = l /\ ReadMappings(lines)[l] = lines[j][1]
      /\ \A k \in 1 .. Len(lines) : lines[k][2] = l => k <= j
  BY <1>2, <1>4, <1>5
<1> HIDE DEF j
<1>7. Latest(lines, j)
  BY <1>1, <1>6 DEF Latest
<1> QED
  BY <1>6, <1>7

LEMMA ReadDomain ==
  ASSUME NEW lines \in Seq(Line)
  PROVE  /\ DOMAIN ReadMappings(lines) = {lines[i][2] : i \in 1 .. Len(lines)}
         /\ DOMAIN ReadMappings(lines) \subseteq Nat
         /\ IsFiniteSet(DOMAIN ReadMappings(lines))
<1>1. /\ Len(lines) \in Nat /\ DOMAIN lines = 1 .. Len(lines)
      /\ \A i \in 1 .. Len(lines) : lines[i][2] \in Nat
  BY DEF Line
<1>2. DOMAIN ReadMappings(lines) = {lines[i][2] : i \in 1 .. Len(lines)}
  BY <1>1 DEF ReadMappings
<1> DEFINE T == {lines[i][2] : i \in 1 .. Len(lines)}
           g == [i \in 1 .. Len(lines) |-> lines[i][2]]
<1>3. g \in Surjection(1 .. Len(lines), T)
  <2>1. g \in [1 .. Len(lines) -> T]
    OBVIOUS
  <2>2. \A t \in T : \E i \in 1 .. Len(lines) : g[i] = t
    OBVIOUS
  <2> QED
    BY <2>1, <2>2 DEF Surjection
<1>4. IsFiniteSet(1 .. Len(lines))
  <2>1. 1 \in Int /\ Len(lines) \in Int
    BY <1>1
  <2> QED
    BY <2>1, FS_Interval, Zenon
<1>5. IsFiniteSet(T)
  <2> HIDE DEF g, T
  <2> QED
    BY <1>3, <1>4, FS_Surjection
<1>6. T \subseteq Nat
  BY <1>1
<1> QED
  BY <1>2, <1>5, <1>6

LEMMA ReadTo ==
  ASSUME NEW n, NEW lines, LinesTo(lines, n)
  PROVE  MapTo(ReadMappings(lines), n)
<1> DEFINE f == ReadMappings(lines)
<1>1. lines \in Seq(Line) /\ \A j \in 1 .. Len(lines) : lines[j][1] \in 1 .. n
  BY DEF LinesTo
<1>2. DOMAIN f \subseteq Nat /\ IsFiniteSet(DOMAIN f)
  BY <1>1, ReadDomain
<1>3. f = [l \in DOMAIN f |-> f[l]]
  BY DEF ReadMappings
<1>4. ASSUME NEW l \in DOMAIN f PROVE f[l] \in 1 .. n
  <2>1. PICK j \in 1 .. Len(lines) : f[l] = lines[j][1]
    BY <1>1, ReadLatest
  <2> QED
    BY <1>1, <2>1
<1> HIDE DEF f
<1> QED
  BY <1>2, <1>3, <1>4 DEF MapTo, f

LEMMA ReadRight ==
  ASSUME NEW p, NEW arr, NEW lines \in Seq(Line), LinesRight(p, arr, lines)
  PROVE  MapRight(p, arr, ReadMappings(lines))
<1> SUFFICES ASSUME NEW i \in 1 .. Len(p), p[i].uid \in DOMAIN ReadMappings(lines)
             PROVE  Stands(arr, ReadMappings(lines)[p[i].uid], p[i])
  BY DEF MapRight
<1>1. PICK j \in 1 .. Len(lines) :
        /\ lines[j][2] = p[i].uid /\ Latest(lines, j)
        /\ ReadMappings(lines)[p[i].uid] = lines[j][1]
  BY ReadLatest
<1> QED
  BY <1>1 DEF LinesRight

\* Lines that are all right, behind others.
LEMMA JoinRight ==
  ASSUME NEW p, NEW arr, NEW s \in Seq(Line), NEW t \in Seq(Line),
         LinesRight(p, arr, s), AllRight(p, arr, t)
  PROVE  LinesRight(p, arr, s \o t)
<1> DEFINE r == s \o t
<1>1. /\ Len(s) \in Nat /\ Len(t) \in Nat /\ Len(r) = Len(s) + Len(t)
      /\ \A j \in 1 .. Len(r) : r[j] = IF j <= Len(s) THEN s[j] ELSE t[j - Len(s)]
  OBVIOUS
<1> HIDE DEF r
<1> SUFFICES ASSUME NEW i \in 1 .. Len(p), NEW j \in 1 .. Len(r),
                    r[j][2] = p[i].uid, Latest(r, j)
             PROVE  Stands(arr, r[j][1], p[i])
  BY DEF LinesRight, r
<1>2. CASE j <= Len(s)
  <2>1. j \in 1 .. Len(s) /\ r[j] = s[j]
    BY <1>1, <1>2
  <2>2. Latest(s, j)
    <3>1. ASSUME NEW k \in 1 .. Len(s), j < k PROVE s[k][2] # s[j][2]
      <4>1. k \in 1 .. Len(r) /\ r[k] = s[k]
        BY <1>1
      <4> QED
        BY <2>1, <3>1, <4>1 DEF Latest
    <3> QED
      BY <3>1 DEF Latest
  <2> QED
    BY <2>1, <2>2 DEF LinesRight
<1>3. CASE ~(j <= Len(s))
  <2>1. j - Len(s) \in 1 .. Len(t) /\ r[j] = t[j - Len(s)]
    BY <1>1, <1>3
  <2> QED
    BY <2>1 DEF AllRight
<1> QED
  BY <1>2, <1>3

\* A line for a uid that no message has.
LEMMA OtherLine ==
  ASSUME NEW p, NEW arr, NEW s \in Seq(Line), NEW l \in Line,
         LinesRight(p, arr, s), \A i \in 1 .. Len(p) : p[i].uid # l[2]
  PROVE  LinesRight(p, arr, Append(s, l))
<1>1. AllRight(p, arr, <<l>>)
  BY DEF AllRight
<1>2. <<l>> \in Seq(Line) /\ Append(s, l) = s \o <<l>>
  OBVIOUS
<1> QED
  BY <1>1, <1>2, JoinRight

LEMMA JoinTo ==
  ASSUME NEW n, NEW s, NEW t, LinesTo(s, n), LinesTo(t, n)
  PROVE  LinesTo(s \o t, n)
<1>1. s \in Seq(Line) /\ t \in Seq(Line) /\ Len(s) \in Nat /\ Len(t) \in Nat
  BY DEF LinesTo
<1> DEFINE r == s \o t
<1>2. /\ r \in Seq(Line) /\ Len(r) = Len(s) + Len(t)
      /\ \A j \in 1 .. Len(r) : r[j] = IF j <= Len(s) THEN s[j] ELSE t[j - Len(s)]
  BY <1>1
<1> HIDE DEF r
<1>3. ASSUME NEW j \in 1 .. Len(r) PROVE r[j][1] \in 1 .. n
  <2>1. j <= Len(s) => j \in 1 .. Len(s)
    BY <1>1, <1>2
  <2>2. ~(j <= Len(s)) => j - Len(s) \in 1 .. Len(t)
    BY <1>1, <1>2
  <2> QED
    BY <1>2, <2>1, <2>2 DEF LinesTo
<1> QED
  BY <1>2, <1>3 DEF LinesTo, r

LEMMA AppendTo ==
  ASSUME NEW n \in Nat, NEW s, LinesTo(s, n), NEW u \in 1 .. n, NEW l \in Nat
  PROVE  <<u, l>> \in Line /\ LinesTo(Append(s, <<u, l>>), n)
<1> DEFINE e == <<u, l>>
<1>1. s \in Seq(Line) /\ e \in Line /\ e[1] \in 1 .. n
  BY DEF LinesTo, Line
<1> HIDE DEF e
<1>2. <<e>> \in Seq(Line) /\ Append(s, e) = s \o <<e>>
  BY <1>1
<1>3. LinesTo(<<e>>, n)
  BY <1>1, <1>2 DEF LinesTo
<1> QED
  BY <1>1, <1>2, <1>3, JoinTo DEF e

\* What WriteMappings() writes.
LEMMA LinesOfMap ==
  ASSUME NEW n \in Nat, NEW f, MapTo(f, n)
  PROVE  /\ LinesTo(LinesOf(f), n)
         /\ \A p, arr : MapRight(p, arr, f) => AllRight(p, arr, LinesOf(f))
         /\ \A j \in 1 .. Len(LinesOf(f)) :
              LinesOf(f)[j][2] \in DOMAIN f /\ LinesOf(f)[j][1] = f[LinesOf(f)[j][2]]
<1> DEFINE S == {<<f[l], l>> : l \in DOMAIN f}
           g == [l \in DOMAIN f |-> <<f[l], l>>]
<1>1. /\ IsFiniteSet(DOMAIN f) /\ \A l \in DOMAIN f : l \in Nat /\ f[l] \in 1 .. n
  BY DEF MapTo
<1>2. g \in Surjection(DOMAIN f, S)
  BY DEF Surjection
<1>3. IsFiniteSet(S)
  <2> HIDE DEF g, S
  <2> QED
    BY <1>1, <1>2, FS_Surjection
<1>4. SetToSeq(S) \in Seq(S)
  <2> HIDE DEF S
  <2> QED
    BY <1>3, SetSequence
<1>5. S \subseteq Line
  <2>1. \A l \in DOMAIN f : f[l] \in Nat /\ l \in Nat
    BY <1>1
  <2> QED
    BY <2>1 DEF Line
<1> DEFINE t == LinesOf(f)
<1>6. t \in Seq(S)
  BY <1>4 DEF LinesOf
<1> HIDE DEF t
<1>7. t \in Seq(Line) /\ \A j \in 1 .. Len(t) : t[j] \in S
  <2> HIDE DEF S
  <2> QED
    BY <1>5, <1>6
<1>8. \A j \in 1 .. Len(t) : t[j][2] \in DOMAIN f /\ t[j][1] = f[t[j][2]]
  BY <1>7
<1> HIDE DEF S
<1>9. LinesTo(t, n)
  BY <1>1, <1>7, <1>8 DEF LinesTo
<1>10. ASSUME NEW p, NEW arr, MapRight(p, arr, f) PROVE AllRight(p, arr, t)
  BY <1>8, <1>10 DEF MapRight, AllRight
<1> QED
  BY <1>8, <1>9, <1>10 DEF t

LEMMA PutTo ==
  ASSUME NEW n, NEW f, MapTo(f, n), NEW l \in Nat, NEW u \in 1 .. n
  PROVE  MapTo(Put(f, l, u), n)
<1>1. IsFiniteSet(DOMAIN f \cup {l})
  BY FS_AddElement DEF MapTo
<1>2. Put(f, l, u) \in [DOMAIN f \cup {l} -> 1 .. n] /\ DOMAIN Put(f, l, u) = DOMAIN f \cup {l}
  BY DEF Put, MapTo
<1> QED
  BY <1>1, <1>2 DEF MapTo

LEMMA WithoutTo ==
  ASSUME NEW n, NEW f, MapTo(f, n), NEW X
  PROVE  /\ MapTo(Without(f, X), n)
         /\ \A p, arr : MapRight(p, arr, f) => MapRight(p, arr, Without(f, X))
<1>1. DOMAIN Without(f, X) = DOMAIN f \ X /\ \A l \in DOMAIN f \ X : Without(f, X)[l] = f[l]
  BY DEF Without
<1>2. IsFiniteSet(DOMAIN f \ X)
  BY FS_Subset DEF MapTo
<1>3. Without(f, X) \in [DOMAIN f \ X -> 1 .. n]
  BY DEF Without, MapTo
<1>4. MapTo(Without(f, X), n)
  BY <1>1, <1>2, <1>3 DEF MapTo
<1>5. ASSUME NEW p, NEW arr, MapRight(p, arr, f) PROVE MapRight(p, arr, Without(f, X))
  BY <1>1, <1>5 DEF MapRight
<1> QED
  BY <1>4, <1>5

-----------------------------------------------------------------------------
(* The types, and where the program may be.                                *)

ServerRight ==
  /\ arrived \in Seq(Nat) /\ born \in Nat
  /\ \A u \in 1 .. Len(arrived) : arrived[u] \in 1 .. born
  /\ master \in [DOMAIN master -> SUBSET Flags] /\ DOMAIN master \subseteq 1 .. Len(arrived)

StreamRight ==
  /\ view \in [DOMAIN view -> SUBSET Flags] /\ DOMAIN view \subseteq 1 .. Len(arrived)
  /\ uidLast \in 0 .. Len(arrived)

FolderRight ==
  /\ folder \in Seq(Message) /\ hdrLast \in Nat /\ UidsRight(folder, hdrLast)
  /\ \A i \in 1 .. Len(folder) : folder[i].msg \in 1 .. born

MapsRight ==
  /\ LinesTo(mappings, Len(arrived)) /\ LinesTo(mapBuf, Len(arrived))
  /\ MapTo(map, Len(arrived)) /\ localLast \in Nat

PlacesRight ==
  /\ stateUid \in 0 .. Len(arrived) \cup {Unreadable}
  /\ lastUid \in 0 .. Len(arrived) /\ last \in 0 .. Len(arrived)
  /\ start \in 0 .. Len(arrived) /\ todo \subseteq 1 .. Len(arrived) /\ got \subseteq Flags
  /\ uidMap \subseteq 1 .. Len(arrived)
  /\ msgno \in Nat /\ nmsgs \in 0 .. Len(folder) /\ number \in 0 .. Len(folder)

CountersRight ==
  /\ ops \in Nat /\ others \in Nat /\ losses \in Nat /\ fulls \in Nat /\ crashes \in Nat

Downloading == {"d_search", "d_next", "d_append", "d_rename"}
Syncing == {"s_delete", "s_map", "s_flags", "s_unlink", "s_download", "s_loop", "s_search",
            "s_state", "s_end"}

\* A sync may have no folder, all other operations have one; a download returns to
\* its caller, and the loop of a sync is over the messages it has counted.
Control ==
  /\ pc \in Labels /\ session \in {"closed", "open", "batch"}
  /\ IF pc \in Downloading THEN ret \in {"s_loop", "u_state", "i_state"} ELSE ret = "idle"
  /\ session = "closed" => pc = "idle"
  /\ session = "batch" => pc \in Syncing \/ ret = "s_loop"
  /\ pc \in {"d_append", "d_rename"} => todo # {}
  /\ pc \in {"s_loop", "s_search"} \/ ret = "s_loop" => 1 <= msgno
  /\ pc = "s_search" => msgno <= nmsgs
  /\ pc \in {"idle", "c_local", "c_map"} => nmsgs = 0
  /\ pc \in {"i_upload", "i_search"} => 1 <= Len(folder)

TypeInv ==
  /\ ServerRight /\ StreamRight /\ FolderRight /\ MapsRight /\ PlacesRight
  /\ CountersRight /\ Control

-----------------------------------------------------------------------------
(* What the steps do to the local mailbox.                                 *)

LEMMA ParsedNumbered == \A f : Parsed(f) = Numbered(f, hdrLast)
BY DEF Parsed, Numbered

\* The local mailbox has the messages it had, some of them or all.
Keeps == Same(folder, hdrLast, folder', hdrLast')
Loses == Fewer(folder, hdrLast, folder', hdrLast')

\* It grows by a message with the content m, which is not parsed yet.
Gains(m) ==
  \E o \in Message : o.uid = 0 /\ o.msg = m /\ folder' = Append(folder, o) /\ hdrLast' = hdrLast

LEMMA ParseKeeps ==
  ASSUME FolderRight, NEW g \in Seq(Message), Alike(g, folder), Parse(g)
  PROVE  /\ Keeps /\ AllParsed(folder') /\ localLast' = LastGiven(folder', hdrLast')
         /\ folder' = Numbered(g, hdrLast)
<1>1. folder \in Seq(Message) /\ hdrLast \in Nat /\ UidsRight(folder, hdrLast)
  BY DEF FolderRight
<1>2. /\ folder' = Numbered(g, hdrLast) /\ hdrLast' = LastGiven(g, hdrLast)
      /\ localLast' = hdrLast'
  BY ParsedNumbered DEF Parse, LastGiven
<1>3. /\ Same(folder, hdrLast, Numbered(g, hdrLast), LastGiven(g, hdrLast))
      /\ AllParsed(Numbered(g, hdrLast))
      /\ LastGiven(Numbered(g, hdrLast), LastGiven(g, hdrLast)) = LastGiven(g, hdrLast)
  BY <1>1, ParsedSame
<1> QED
  BY <1>2, <1>3 DEF Keeps

LEMMA StayKeeps ==
  ASSUME FolderRight, folder' = folder, hdrLast' = hdrLast
  PROVE  Keeps
<1>1. folder \in Seq(Message) /\ hdrLast \in Nat /\ UidsRight(folder, hdrLast)
  BY DEF FolderRight
<1>2. Alike(folder, folder)
  BY DEF Alike
<1>3. Same(folder, hdrLast, folder, hdrLast)
  BY <1>1, <1>2, AlikeNumbered
<1> QED
  BY <1>3 DEF Keeps

LEMMA KeepsLoses == Keeps => Loses
BY DEF Keeps, Loses, Same

LEMMA UnparsedEmpty ==
  ASSUME NEW f \in Seq(Message)
  PROVE  Unparsed(f) = {} <=> AllParsed(f)
<1>1. DOMAIN f = 1 .. Len(f)
  OBVIOUS
<1> QED
  BY <1>1 DEF Unparsed, AllParsed

LEMMA PingKeeps ==
  ASSUME FolderRight, Ping(folder)
  PROVE  /\ Keeps /\ AllParsed(folder')
         /\ localLast' = localLast \/ localLast' = LastGiven(folder', hdrLast')
<1>1. folder \in Seq(Message) /\ Alike(folder, folder)
  BY DEF FolderRight, Alike
<1>2. CASE Unparsed(folder) # {}
  <2>1. Parse(folder)
    BY <1>2 DEF Ping
  <2> QED
    BY <1>1, <2>1, ParseKeeps
<1>3. CASE Unparsed(folder) = {}
  <2>1. folder' = folder /\ hdrLast' = hdrLast /\ localLast' = localLast
    BY <1>3 DEF Ping
  <2>2. AllParsed(folder)
    BY <1>1, <1>3, UnparsedEmpty
  <2> QED
    BY <2>1, <2>2, StayKeeps
<1> QED
  BY <1>2, <1>3

LEMMA FlagsAlike ==
  ASSUME NEW f \in Seq(Message), NEW i \in 1 .. Len(f), NEW X \in SUBSET Flags
  PROVE  [f EXCEPT ![i].flags = X] \in Seq(Message) /\ Alike([f EXCEPT ![i].flags = X], f)
<1> DEFINE o == [f[i] EXCEPT !.flags = X]
           g == [f EXCEPT ![i] = o]
<1>1. f[i] \in Message
  OBVIOUS
<1>2. o \in Message /\ o.uid = f[i].uid /\ o.msg = f[i].msg
  BY <1>1 DEF Message
<1> HIDE DEF o
<1>3. /\ g \in Seq(Message) /\ Len(g) = Len(f)
      /\ \A k \in 1 .. Len(f) : g[k] = IF k = i THEN o ELSE f[k]
  BY <1>2
<1>4. Alike(g, f)
  BY <1>2, <1>3 DEF Alike
<1> QED
  BY <1>3, <1>4 DEF o

LEMMA SetLocalKeeps ==
  ASSUME FolderRight, NEW i \in 1 .. Len(folder), NEW X \in SUBSET Flags, SetLocal(i, X)
  PROVE  /\ Keeps
         /\ \/ localLast' = localLast /\ folder' = folder
            \/ localLast' = LastGiven(folder', hdrLast') /\ AllParsed(folder')
<1>1. folder \in Seq(Message)
  BY DEF FolderRight
<1>2. CASE X = folder[i].flags
  <2>1. folder' = folder /\ hdrLast' = hdrLast /\ localLast' = localLast
    BY <1>2 DEF SetLocal
  <2> QED
    BY <2>1, StayKeeps
<1>3. CASE X # folder[i].flags
  <2>1. Parse([folder EXCEPT ![i].flags = X])
    BY <1>3 DEF SetLocal
  <2> QED
    BY <1>1, <2>1, FlagsAlike, ParseKeeps
<1> QED
  BY <1>2, <1>3

LEMMA ExpungeLoses ==
  ASSUME FolderRight, ExpungeLocal
  PROVE  /\ Loses /\ AllParsed(folder') /\ localLast' = LastGiven(folder', hdrLast')
         /\ number' = Len(folder')
<1>1. folder \in Seq(Message) /\ hdrLast \in Nat /\ UidsRight(folder, hdrLast)
  BY DEF FolderRight
<1> DEFINE p == Numbered(folder, hdrLast)
           I == {i \in DOMAIN p : "deleted" \notin p[i].flags}
           g == Selected(p, I)
<1>2. folder' = g /\ number' = Len(g) /\ hdrLast' = LastGiven(folder, hdrLast)
      /\ localLast' = hdrLast'
  BY ParsedNumbered DEF ExpungeLocal, LastGiven
<1> HIDE DEF I
<1>3. /\ Fewer(folder, hdrLast, g, LastGiven(folder, hdrLast)) /\ AllParsed(g)
      /\ LastGiven(g, LastGiven(folder, hdrLast)) = LastGiven(folder, hdrLast)
  BY <1>1, ExpungedFewer
<1> HIDE DEF g
<1> QED
  BY <1>2, <1>3 DEF Loses

-----------------------------------------------------------------------------
(* The types stay.                                                         *)

\* A mailbox of flags by uids up to n.
Mailbox(box, n) == box \in [DOMAIN box -> SUBSET Flags] /\ DOMAIN box \subseteq 1 .. n

\* The server forgets no uid and no message.
Ages ==
  /\ Len(arrived) \in Nat /\ Len(arrived') \in Nat /\ Len(arrived) <= Len(arrived')
  /\ born \in Nat /\ born' \in Nat /\ born <= born'

LEMMA SameAge ==
  ASSUME TypeInv, UNCHANGED <<arrived, born>>
  PROVE  Ages
BY DEF TypeInv, ServerRight, Ages

LEMMA ToMore ==
  ASSUME NEW n \in Nat, NEW m \in Nat, n <= m, NEW x
  PROVE  /\ LinesTo(x, n) => LinesTo(x, m)
         /\ MapTo(x, n) => MapTo(x, m)
         /\ Mailbox(x, n) => Mailbox(x, m)
<1>1. 1 .. n \subseteq 1 .. m
  OBVIOUS
<1> QED
  BY <1>1 DEF LinesTo, MapTo, Mailbox

\* What a step leaves alone keeps its type.
LEMMA Stays ==
  ASSUME TypeInv, Ages
  PROVE  /\ UNCHANGED <<server, born>> => ServerRight'
         /\ UNCHANGED stream => StreamRight'
         /\ UNCHANGED <<folder, hdrLast>> => FolderRight'
         /\ UNCHANGED <<mappings, mapBuf, map, localLast>> => MapsRight'
         /\ UNCHANGED <<stateUid, lastUid, last, start, todo, got, msgno, nmsgs, uidMap, number>>
            /\ Len(folder') = Len(folder) => PlacesRight'
         /\ UNCHANGED bounds => CountersRight'
<1>1. /\ 0 .. Len(arrived) \subseteq 0 .. Len(arrived')
      /\ 1 .. Len(arrived) \subseteq 1 .. Len(arrived')
      /\ 1 .. born \subseteq 1 .. born'
  BY DEF Ages
<1>2. ASSUME UNCHANGED <<server, born>> PROVE ServerRight'
  BY <1>2 DEF TypeInv, ServerRight, server
<1>3. ASSUME UNCHANGED stream PROVE StreamRight'
  BY <1>1, <1>3 DEF TypeInv, StreamRight, stream
<1>4. ASSUME UNCHANGED <<folder, hdrLast>> PROVE FolderRight'
  BY <1>1, <1>4 DEF TypeInv, FolderRight
<1>5. ASSUME UNCHANGED <<mappings, mapBuf, map, localLast>> PROVE MapsRight'
  BY <1>5, ToMore DEF TypeInv, MapsRight, Ages
<1>6. ASSUME UNCHANGED <<stateUid, lastUid, last, start, todo, got, msgno, nmsgs, uidMap, number>>,
             Len(folder') = Len(folder)
      PROVE  PlacesRight'
  BY <1>1, <1>6 DEF TypeInv, PlacesRight
<1>7. ASSUME UNCHANGED bounds PROVE CountersRight'
  BY <1>7 DEF TypeInv, CountersRight, bounds
<1> QED
  BY <1>2, <1>3, <1>4, <1>5, <1>6, <1>7

LEMMA Boxes ==
  ASSUME NEW n, NEW box, Mailbox(box, n)
  PROVE  /\ \A X : Mailbox(Without(box, X), n)
         /\ Mailbox(Expunged(box), n)
         /\ \A u \in 1 .. n, X \in SUBSET Flags : Mailbox(Put(box, u, X), n)
         /\ \A u, v : \A f \in Flags : Mailbox([box EXCEPT ![u] = With(@, f, v)], n)
<1>1. \A X : Mailbox(Without(box, X), n)
  BY DEF Mailbox, Without
<1>2. Mailbox(Expunged(box), n)
  BY DEF Mailbox, Expunged
<1>3. ASSUME NEW u \in 1 .. n, NEW X \in SUBSET Flags PROVE Mailbox(Put(box, u, X), n)
  BY DEF Mailbox, Put
<1>4. ASSUME NEW u, NEW f \in Flags, NEW v
      PROVE  Mailbox([box EXCEPT ![u] = With(@, f, v)], n)
  <2>1. u \in DOMAIN box => With(box[u], f, v) \in SUBSET Flags
    BY DEF Mailbox, With
  <2> QED
    BY <2>1 DEF Mailbox
<1> QED
  BY <1>1, <1>2, <1>3, <1>4

LEMMA ServerBox == TypeInv => Mailbox(master, Len(arrived)) /\ Mailbox(view, Len(arrived))
BY DEF TypeInv, ServerRight, StreamRight, Mailbox

\* After a command the mailbox is what it was to be, or unchanged.
LEMMA CommandTypes ==
  ASSUME TypeInv, Ages, NEW box, Mailbox(box, Len(arrived')), Command(box)
  PROVE  /\ Mailbox(master', Len(arrived')) /\ Mailbox(view', Len(arrived'))
<1>1. Mailbox(master, Len(arrived')) /\ Mailbox(view, Len(arrived'))
  BY ServerBox, ToMore DEF Ages
<1> QED
  BY <1>1 DEF Command, TypeInv, StreamRight

\* Nothing is left of the memory.
LEMMA GoneTypes ==
  ASSUME TypeInv, Gone, UNCHANGED <<arrived, folder>>, LinesTo(mappings', Len(arrived)),
         stateUid' \in {stateUid, Unreadable}
  PROVE  StreamRight' /\ MapsRight' /\ PlacesRight' /\ Control'
<1>1. Len(arrived) \in Nat /\ Len(arrived') = Len(arrived)
  BY DEF TypeInv, ServerRight
<1>2. DOMAIN <<>> = {} /\ <<>> \in [{} -> SUBSET Flags] /\ <<>> \in Seq(Line) /\ Len(<<>>) = 0
      /\ <<>> \in [{} -> 1 .. Len(arrived)]
  OBVIOUS
<1>3. StreamRight'
  <2>1. view' = <<>> /\ uidLast' = 0
    BY DEF Gone
  <2>2. view' \in [DOMAIN view' -> SUBSET Flags] /\ DOMAIN view' = {}
    BY <1>2, <2>1
  <2>3. uidLast' \in 0 .. Len(arrived')
    BY <1>1, <2>1
  <2> QED
    BY <2>1, <2>2, <2>3 DEF StreamRight
<1>4. MapTo(map', Len(arrived')) /\ LinesTo(mapBuf', Len(arrived'))
  BY <1>1, <1>2, FS_EmptySet DEF Gone, MapTo, LinesTo
<1>5. MapsRight'
  BY <1>1, <1>4 DEF MapsRight, Gone
<1>6. PlacesRight'
  <2>1. Len(folder') \in Nat
    BY DEF TypeInv, FolderRight
  <2> QED
    BY <1>1, <2>1 DEF PlacesRight, Gone, Idle, TypeInv
<1>7. Control'
  BY DEF Control, Gone, Idle, Labels, Downloading, Syncing
<1> QED
  BY <1>3, <1>5, <1>6, <1>7

LEMMA DeliverTypes ==
  ASSUME TypeInv, Deliver
  PROVE  TypeInv'
<1>1. /\ UNCHANGED stream
      /\ UNCHANGED <<folder, hdrLast>>
      /\ UNCHANGED <<mappings, mapBuf, map, localLast>>
      /\ UNCHANGED <<stateUid, lastUid, last, start, todo, got, msgno, nmsgs, uidMap, number>>
      /\ Len(folder') = Len(folder)
  BY DEF Deliver, server, stream, disk, memory, args, history, bounds
<1>2. Ages
  BY DEF Deliver, TypeInv, ServerRight, Ages
<1>3. StreamRight' /\ FolderRight' /\ MapsRight' /\ PlacesRight'
  BY <1>1, <1>2, Stays
<1>4. ServerRight'
  <2>1. /\ born' = born + 1 /\ arrived' = Append(arrived, born')
        /\ master' = Put(master, Len(arrived'), {})
    BY DEF Deliver
  <2>2. /\ arrived' \in Seq(Nat) /\ Len(arrived') = Len(arrived) + 1 /\ Len(arrived) \in Nat
        /\ \A u \in 1 .. Len(arrived) : arrived'[u] = arrived[u]
        /\ arrived'[Len(arrived')] = born'
    BY <2>1 DEF TypeInv, ServerRight
  <2>3. Mailbox(master, Len(arrived'))
    BY <2>2, ServerBox, ToMore
  <2>4. Mailbox(master', Len(arrived'))
    BY <2>1, <2>2, <2>3, Boxes
  <2>5. \A u \in 1 .. Len(arrived') : arrived'[u] \in 1 .. born'
    BY <2>1, <2>2 DEF TypeInv, ServerRight
  <2> QED
    BY <1>2, <2>2, <2>4, <2>5 DEF ServerRight, Mailbox, Ages
<1>5. CountersRight'
  BY DEF Deliver, TypeInv, CountersRight, server, stream, disk, memory, args, history, bounds
<1>6. Control'
  BY <1>1 DEF TypeInv, Control, Deliver, Faulty, Labels, Downloading, Syncing, server, stream, disk, memory, args, history, bounds
<1> QED
  BY <1>3, <1>4, <1>5, <1>6 DEF TypeInv

LEMMA OtherClientTypes ==
  ASSUME TypeInv, OtherClient
  PROVE  TypeInv'
<1>1. /\ UNCHANGED stream
      /\ UNCHANGED <<folder, hdrLast>>
      /\ UNCHANGED <<mappings, mapBuf, map, localLast>>
      /\ UNCHANGED <<stateUid, lastUid, last, start, todo, got, msgno, nmsgs, uidMap, number>>
      /\ UNCHANGED <<arrived, born>>
      /\ Len(folder') = Len(folder)
  BY DEF OtherClient, server, stream, disk, memory, args, history, bounds
<1>2. Ages
  BY <1>1, SameAge
<1>3. StreamRight' /\ FolderRight' /\ MapsRight' /\ PlacesRight'
  BY <1>1, <1>2, Stays
<1>4. ServerRight'
  <2>1. Mailbox(master', Len(arrived'))
    <3>1. PICK u \in DOMAIN master :
            \/ master' = Without(master, {u})
            \/ master' = [master EXCEPT ![u] = With(@, "flagged", TRUE)]
      BY DEF OtherClient
    <3>2. "flagged" \in Flags
      BY DEF Flags
    <3> QED
      <4>1. Mailbox(master, Len(arrived))
        BY ServerBox
      <4>2. /\ Mailbox(Without(master, {u}), Len(arrived))
            /\ Mailbox([master EXCEPT ![u] = With(@, "flagged", TRUE)], Len(arrived))
        BY <3>2, <4>1, Boxes
      <4> QED
        BY <1>1, <3>1, <4>2
  <2> QED
    BY <1>1, <2>1 DEF TypeInv, ServerRight, Mailbox
<1>5. CountersRight'
  BY DEF OtherClient, TypeInv, CountersRight, server, stream, disk, memory, args, history, bounds
<1>6. Control'
  BY <1>1 DEF TypeInv, Control, OtherClient, Faulty, Labels, Downloading, Syncing, server, stream, disk, memory, args, history, bounds
<1> QED
  BY <1>3, <1>4, <1>5, <1>6 DEF TypeInv

LEMMA LoseTypes ==
  ASSUME TypeInv, Lose
  PROVE  TypeInv'
<1>1. /\ UNCHANGED <<server, born>>
      /\ UNCHANGED <<folder, hdrLast>>
      /\ UNCHANGED <<mappings, mapBuf, map, localLast>>
      /\ UNCHANGED <<stateUid, lastUid, last, start, todo, got, msgno, nmsgs, uidMap, number>>
      /\ UNCHANGED <<arrived, born>>
      /\ Len(folder') = Len(folder)
  BY DEF Lose, server, stream, disk, memory, args, history, bounds
<1>2. Ages
  BY <1>1, SameAge
<1>3. ServerRight' /\ FolderRight' /\ MapsRight' /\ PlacesRight'
  BY <1>1, <1>2, Stays
<1>4. StreamRight'
  BY <1>1 DEF Lose, TypeInv, StreamRight
<1>5. CountersRight'
  BY DEF Lose, Faulty, OpenMaster, TypeInv, CountersRight, server, stream, disk, memory, args, history, bounds
<1>6. Control'
  BY <1>1 DEF TypeInv, Control, Lose, Faulty, Labels, Downloading, Syncing, server, stream, disk, memory, args, history, bounds
<1> QED
  BY <1>3, <1>4, <1>5, <1>6 DEF TypeInv

LEMMA CrashTypes ==
  ASSUME TypeInv, Crash
  PROVE  TypeInv'
<1>1. /\ UNCHANGED <<arrived, born, folder>> /\ UNCHANGED <<server, born>>
      /\ UNCHANGED <<folder, hdrLast>>
  BY DEF Crash, server, stream, disk, memory, args, history, bounds
<1>2. Ages
  BY <1>1, SameAge
<1>3. ServerRight' /\ FolderRight'
  BY <1>1, <1>2, Stays
<1>4. /\ Gone /\ stateUid' \in {stateUid, Unreadable}
      /\ mappings' \in {mappings, mappings \o mapBuf, LinesOf(map)}
  BY DEF Crash, server, stream, disk, memory, args, history, bounds
<1>5. LinesTo(mappings', Len(arrived))
  <2>1. Len(arrived) \in Nat
    BY DEF TypeInv, ServerRight
  <2> QED
    <3>1. /\ LinesTo(mappings, Len(arrived)) /\ LinesTo(mapBuf, Len(arrived))
          /\ MapTo(map, Len(arrived))
      BY DEF TypeInv, MapsRight
    <3>2. LinesTo(mappings \o mapBuf, Len(arrived)) /\ LinesTo(LinesOf(map), Len(arrived))
      BY <2>1, <3>1, JoinTo, LinesOfMap
    <3> QED
      BY <1>4, <3>1, <3>2
<1>6. StreamRight' /\ MapsRight' /\ PlacesRight' /\ Control'
  BY <1>1, <1>4, <1>5, GoneTypes
<1>7. CountersRight'
  <2>1. /\ ops' = ops /\ others' = others /\ losses' = losses /\ fulls' = fulls
        /\ crashes' \in {crashes, crashes + 1}
    BY DEF Crash, server, stream, disk, memory, args, history, bounds
  <2> QED
    BY <2>1 DEF TypeInv, CountersRight
<1> QED
  BY <1>3, <1>6, <1>7 DEF TypeInv

LEMMA CrashWritingTypes ==
  ASSUME TypeInv, CrashWriting
  PROVE  TypeInv'
<1>1. /\ UNCHANGED <<arrived, born, folder>> /\ UNCHANGED <<server, born>>
      /\ UNCHANGED <<folder, hdrLast>>
  BY DEF CrashWriting, server, stream, disk, memory, args, history, bounds
<1>2. Ages
  BY <1>1, SameAge
<1>3. ServerRight' /\ FolderRight'
  BY <1>1, <1>2, Stays
<1>4. /\ Gone /\ stateUid' \in {stateUid, Unreadable}
      /\ mappings' \in {mappings, mappings \o mapBuf, LinesOf(map)}
  BY DEF CrashWriting, server, stream, disk, memory, args, history, bounds
<1>5. LinesTo(mappings', Len(arrived))
  <2>1. Len(arrived) \in Nat
    BY DEF TypeInv, ServerRight
  <2> QED
    <3>1. /\ LinesTo(mappings, Len(arrived)) /\ LinesTo(mapBuf, Len(arrived))
          /\ MapTo(map, Len(arrived))
      BY DEF TypeInv, MapsRight
    <3>2. LinesTo(mappings \o mapBuf, Len(arrived)) /\ LinesTo(LinesOf(map), Len(arrived))
      BY <2>1, <3>1, JoinTo, LinesOfMap
    <3> QED
      BY <1>4, <3>1, <3>2
<1>6. StreamRight' /\ MapsRight' /\ PlacesRight' /\ Control'
  BY <1>1, <1>4, <1>5, GoneTypes
<1>7. CountersRight'
  <2>1. /\ ops' = ops /\ others' = others /\ losses' = losses /\ fulls' = fulls
        /\ crashes' \in {crashes, crashes + 1}
    BY DEF CrashWriting, server, stream, disk, memory, args, history, bounds
  <2> QED
    BY <2>1 DEF TypeInv, CountersRight
<1> QED
  BY <1>3, <1>6, <1>7 DEF TypeInv

LEMMA DieTypes ==
  ASSUME TypeInv, Die
  PROVE  TypeInv'
<1>1. /\ UNCHANGED <<arrived, born, folder>> /\ UNCHANGED <<server, born>>
      /\ UNCHANGED <<folder, hdrLast>>
  BY DEF Die, server, stream, disk, memory, args, history, bounds
<1>2. Ages
  BY <1>1, SameAge
<1>3. ServerRight' /\ FolderRight'
  BY <1>1, <1>2, Stays
<1>4. /\ Gone /\ stateUid' \in {stateUid, Unreadable}
      /\ mappings' \in {mappings, mappings \o mapBuf, LinesOf(map)}
  BY DEF Die, server, stream, disk, memory, args, history, bounds
<1>5. LinesTo(mappings', Len(arrived))
  <2>1. Len(arrived) \in Nat
    BY DEF TypeInv, ServerRight
  <2> QED
    <3>1. /\ LinesTo(mappings, Len(arrived)) /\ LinesTo(mapBuf, Len(arrived))
          /\ MapTo(map, Len(arrived))
      BY DEF TypeInv, MapsRight
    <3>2. LinesTo(mappings \o mapBuf, Len(arrived)) /\ LinesTo(LinesOf(map), Len(arrived))
      BY <2>1, <3>1, JoinTo, LinesOfMap
    <3> QED
      BY <1>4, <3>1, <3>2
<1>6. StreamRight' /\ MapsRight' /\ PlacesRight' /\ Control'
  BY <1>1, <1>4, <1>5, GoneTypes
<1>7. CountersRight'
  <2>1. /\ ops' = ops /\ others' = others /\ losses' = losses /\ fulls' = fulls
        /\ crashes' \in {crashes, crashes + 1}
    BY DEF Die, server, stream, disk, memory, args, history, bounds
  <2> QED
    BY <2>1 DEF TypeInv, CountersRight
<1> QED
  BY <1>3, <1>6, <1>7 DEF TypeInv

LEMMA c_mapTypes ==
  ASSUME TypeInv, c_map
  PROVE  TypeInv'
<1>1. /\ UNCHANGED <<arrived, born, folder>> /\ UNCHANGED <<server, born>>
      /\ UNCHANGED <<folder, hdrLast>>
  BY DEF c_map, WriteMappings, server, stream, disk, memory, args, history, bounds
<1>2. Ages
  BY <1>1, SameAge
<1>3. ServerRight' /\ FolderRight'
  BY <1>1, <1>2, Stays
<1>4. /\ Gone /\ stateUid' \in {stateUid, Unreadable}
      /\ mappings' \in {mappings, mappings \o mapBuf, LinesOf(map)}
  BY DEF c_map, WriteMappings, server, stream, disk, memory, args, history, bounds
<1>5. LinesTo(mappings', Len(arrived))
  <2>1. Len(arrived) \in Nat
    BY DEF TypeInv, ServerRight
  <2> QED
    <3>1. /\ LinesTo(mappings, Len(arrived)) /\ LinesTo(mapBuf, Len(arrived))
          /\ MapTo(map, Len(arrived))
      BY DEF TypeInv, MapsRight
    <3>2. LinesTo(mappings \o mapBuf, Len(arrived)) /\ LinesTo(LinesOf(map), Len(arrived))
      BY <2>1, <3>1, JoinTo, LinesOfMap
    <3> QED
      BY <1>4, <3>1, <3>2
<1>6. StreamRight' /\ MapsRight' /\ PlacesRight' /\ Control'
  BY <1>1, <1>4, <1>5, GoneTypes
<1>7. CountersRight'
  <2>1. /\ ops' = ops /\ others' = others /\ losses' = losses /\ fulls' = fulls
        /\ crashes' \in {crashes, crashes + 1}
    BY DEF c_map, WriteMappings, server, stream, disk, memory, args, history, bounds
  <2> QED
    BY <2>1 DEF TypeInv, CountersRight
<1> QED
  BY <1>3, <1>6, <1>7 DEF TypeInv

LEMMA GoOnlineTypes ==
  ASSUME TypeInv, GoOnline
  PROVE  TypeInv'
<1>1. /\ UNCHANGED <<server, born>>
      /\ UNCHANGED <<folder, hdrLast>>
      /\ UNCHANGED <<mappings, mapBuf, map, localLast>>
      /\ UNCHANGED <<arrived, born>>
  BY DEF GoOnline, Issue, OpenMaster, server, stream, disk, memory, args, history, bounds
<1>2. Ages
  BY <1>1, SameAge
<1>3. ServerRight' /\ FolderRight' /\ MapsRight'
  BY <1>1, <1>2, Stays
<1>4. StreamRight'
  BY <1>1, ServerBox DEF GoOnline, OpenMaster, TypeInv, ServerRight, StreamRight, Mailbox, stream
<1>5. PlacesRight'
  BY <1>1 DEF GoOnline, OpenMaster, TypeInv, PlacesRight, FolderRight, Unreadable, disk, memory
<1>6. CountersRight'
  BY DEF GoOnline, Issue, OpenMaster, TypeInv, CountersRight, server, stream, disk, memory, args, history, bounds
<1>7. Control'
  BY <1>1 DEF TypeInv, Control, GoOnline, Issue, OpenMaster, Faulty, Labels, Downloading, Syncing, server, stream, disk, memory, args, history, bounds
<1> QED
  BY <1>3, <1>4, <1>5, <1>6, <1>7 DEF TypeInv

LEMMA GoOfflineTypes ==
  ASSUME TypeInv, GoOffline
  PROVE  TypeInv'
<1>1. /\ UNCHANGED <<server, born>>
      /\ UNCHANGED <<folder, hdrLast>>
      /\ UNCHANGED <<mappings, mapBuf, map, localLast>>
      /\ UNCHANGED <<stateUid, lastUid, last, start, todo, got, msgno, nmsgs, uidMap, number>>
      /\ UNCHANGED <<arrived, born>>
      /\ Len(folder') = Len(folder)
  BY DEF GoOffline, Issue, server, stream, disk, memory, args, history, bounds
<1>2. Ages
  BY <1>1, SameAge
<1>3. ServerRight' /\ FolderRight' /\ MapsRight' /\ PlacesRight'
  BY <1>1, <1>2, Stays
<1>4. StreamRight'
  BY <1>1 DEF GoOffline, TypeInv, StreamRight
<1>5. CountersRight'
  BY DEF GoOffline, Issue, OpenMaster, TypeInv, CountersRight, server, stream, disk, memory, args, history, bounds
<1>6. Control'
  BY <1>1 DEF TypeInv, Control, GoOffline, Issue, Faulty, Labels, Downloading, Syncing, server, stream, disk, memory, args, history, bounds
<1> QED
  BY <1>3, <1>4, <1>5, <1>6 DEF TypeInv

LEMMA SyncRefusedTypes ==
  ASSUME TypeInv, SyncRefused
  PROVE  TypeInv'
<1>1. /\ UNCHANGED <<server, born>>
      /\ UNCHANGED stream
      /\ UNCHANGED <<folder, hdrLast>>
      /\ UNCHANGED <<mappings, mapBuf, map, localLast>>
      /\ UNCHANGED <<stateUid, lastUid, last, start, todo, got, msgno, nmsgs, uidMap, number>>
      /\ UNCHANGED <<arrived, born>>
      /\ Len(folder') = Len(folder)
  BY DEF SyncRefused, Issue, server, stream, disk, memory, args, history, bounds
<1>2. Ages
  BY <1>1, SameAge
<1>3. ServerRight' /\ StreamRight' /\ FolderRight' /\ MapsRight' /\ PlacesRight'
  BY <1>1, <1>2, Stays
<1>4. CountersRight'
  BY DEF SyncRefused, Issue, OpenMaster, TypeInv, CountersRight, server, stream, disk, memory, args, history, bounds
<1>5. Control'
  BY <1>1 DEF TypeInv, Control, SyncRefused, Issue, Faulty, Labels, Downloading, Syncing, server, stream, disk, memory, args, history, bounds
<1> QED
  BY <1>3, <1>4, <1>5 DEF TypeInv

LEMMA StartUpdateTypes ==
  ASSUME TypeInv, NEW o, StartUpdate(o)
  PROVE  TypeInv'
<1>1. /\ UNCHANGED <<server, born>>
      /\ UNCHANGED stream
      /\ UNCHANGED <<folder, hdrLast>>
      /\ UNCHANGED <<mappings, mapBuf, map, localLast>>
      /\ UNCHANGED <<stateUid, lastUid, last, start, todo, got, msgno, nmsgs, uidMap, number>>
      /\ UNCHANGED <<arrived, born>>
      /\ Len(folder') = Len(folder)
  BY DEF StartUpdate, Issue, server, stream, disk, memory, args, history, bounds
<1>2. Ages
  BY <1>1, SameAge
<1>3. ServerRight' /\ StreamRight' /\ FolderRight' /\ MapsRight' /\ PlacesRight'
  BY <1>1, <1>2, Stays
<1>4. CountersRight'
  BY DEF StartUpdate, Issue, OpenMaster, TypeInv, CountersRight, server, stream, disk, memory, args, history, bounds
<1>5. Control'
  BY <1>1 DEF TypeInv, Control, StartUpdate, Issue, Faulty, Labels, Downloading, Syncing, server, stream, disk, memory, args, history, bounds
<1> QED
  BY <1>3, <1>4, <1>5 DEF TypeInv

LEMMA LastGivenType ==
  ASSUME NEW f \in Seq(Message), NEW h \in Nat
  PROVE  LastGiven(f, h) \in Nat
<1>1. Cardinality(Unparsed(f)) \in Nat
  BY UnparsedCounts
<1> QED
  BY <1>1 DEF LastGiven

\* A local mailbox that has lost messages, or none, has its type.
LEMMA LosesTypes ==
  ASSUME TypeInv, Ages, Loses
  PROVE  FolderRight'
<1>1. /\ folder \in Seq(Message) /\ hdrLast \in Nat /\ UidsRight(folder, hdrLast)
      /\ \A i \in 1 .. Len(folder) : folder[i].msg \in 1 .. born
  BY DEF TypeInv, FolderRight
<1>2. /\ folder' \in Seq(Message) /\ hdrLast' \in Nat /\ UidsRight(folder', hdrLast')
      /\ Within(Numbered(folder', hdrLast'), Numbered(folder, hdrLast))
  BY DEF Loses, Fewer
<1>3. /\ Len(Numbered(folder, hdrLast)) = Len(folder)
      /\ \A i \in 1 .. Len(folder) : Numbered(folder, hdrLast)[i].msg = folder[i].msg
  BY <1>1, Numbering DEF Numbers
<1>4. /\ Len(Numbered(folder', hdrLast')) = Len(folder')
      /\ \A i \in 1 .. Len(folder') : Numbered(folder', hdrLast')[i].msg = folder'[i].msg
  BY <1>2, Numbering DEF Numbers
<1>5. ASSUME NEW i \in 1 .. Len(folder') PROVE folder'[i].msg \in 1 .. born'
  <2>1. PICK j \in 1 .. Len(folder) : folder'[i].msg = folder[j].msg
    BY <1>2, <1>3, <1>4 DEF Within
  <2> QED
    BY <1>1, <2>1 DEF Ages
<1> QED
  BY <1>2, <1>5 DEF FolderRight

LEMMA KeepsTypes ==
  ASSUME TypeInv, Ages, Keeps
  PROVE  /\ FolderRight' /\ Len(folder') = Len(folder) /\ Len(folder) \in Nat
         /\ LastGiven(folder', hdrLast') \in Nat
<1>1. FolderRight'
  BY KeepsLoses, LosesTypes
<1>2. /\ folder \in Seq(Message) /\ hdrLast \in Nat /\ UidsRight(folder, hdrLast)
      /\ folder' \in Seq(Message) /\ hdrLast' \in Nat /\ UidsRight(folder', hdrLast')
      /\ Len(Numbered(folder', hdrLast')) = Len(Numbered(folder, hdrLast))
  BY <1>1 DEF TypeInv, FolderRight, Keeps, Same, Alike
<1>3. /\ Len(Numbered(folder, hdrLast)) = Len(folder)
      /\ Len(Numbered(folder', hdrLast')) = Len(folder')
  BY <1>2, Numbering DEF Numbers
<1> QED
  BY <1>1, <1>2, <1>3, LastGivenType

\* A mailbox that gains a message that has been born.
LEMMA GainsTypes ==
  ASSUME TypeInv, NEW m \in 1 .. born', Ages, Gains(m)
  PROVE  FolderRight' /\ Len(folder') = Len(folder) + 1 /\ Len(folder) \in Nat
<1>1. /\ folder \in Seq(Message) /\ hdrLast \in Nat /\ UidsRight(folder, hdrLast)
      /\ \A i \in 1 .. Len(folder) : folder[i].msg \in 1 .. born
  BY DEF TypeInv, FolderRight
<1>2. PICK o \in Message : o.uid = 0 /\ o.msg = m /\ folder' = Append(folder, o)
                           /\ hdrLast' = hdrLast
  BY DEF Gains
<1>3. folder' \in Seq(Message) /\ Len(folder') = Len(folder) + 1 /\ UidsRight(folder', hdrLast)
  BY <1>1, <1>2, Appended
<1>4. ASSUME NEW i \in 1 .. Len(folder') PROVE folder'[i].msg \in 1 .. born'
  <2>1. CASE i \in 1 .. Len(folder)
    <3>1. folder'[i] = folder[i]
      BY <1>1, <1>2, <2>1
    <3> QED
      BY <1>1, <2>1, <3>1 DEF Ages
  <2>2. CASE i = Len(folder) + 1
    <3>1. folder'[i] = o
      BY <1>1, <1>2, <2>2
    <3> QED
      BY <1>2, <3>1
  <2> QED
    BY <1>1, <1>3, <2>1, <2>2
<1> QED
  BY <1>1, <1>2, <1>3, <1>4 DEF FolderRight

LEMMA LastUids ==
  TypeInv => /\ LastGiven(folder, hdrLast) \in Nat /\ Len(folder) \in Nat
             /\ Len(arrived) \in Nat /\ folder \in Seq(Message)
             /\ \A i \in 1 .. Len(folder) :
                  /\ folder[i] \in Message /\ folder[i].uid \in Nat
                  /\ folder[i].msg \in 1 .. born /\ folder[i].flags \subseteq Flags
<1>1. TypeInv => folder \in Seq(Message) /\ hdrLast \in Nat
  BY DEF TypeInv, FolderRight
<1>2. TypeInv => \A i \in 1 .. Len(folder) :
                   /\ folder[i] \in Message /\ folder[i].uid \in Nat
                   /\ folder[i].flags \subseteq Flags
  BY <1>1, MessageFields
<1> QED
  BY <1>1, <1>2, LastGivenType DEF TypeInv, FolderRight, ServerRight

\* After a command both the mailbox and the stream have their types.
LEMMA CommandBoth ==
  ASSUME TypeInv, Ages, NEW box, Mailbox(box, Len(arrived)), Command(box),
         UNCHANGED <<arrived, born, uidLast>>
  PROVE  ServerRight' /\ StreamRight'
<1>1. Mailbox(box, Len(arrived'))
  OBVIOUS
<1>2. Mailbox(master', Len(arrived')) /\ Mailbox(view', Len(arrived'))
  BY <1>1, CommandTypes
<1> QED
  BY <1>2 DEF TypeInv, ServerRight, StreamRight, Mailbox

LEMMA UploadTypes ==
  ASSUME TypeInv, NEW m \in Message, m.msg \in 1 .. born, NEW back, Upload(m, back),
         UNCHANGED <<born, uidLast>>
  PROVE  Ages /\ ServerRight' /\ StreamRight'
<1>1. m.flags \in SUBSET Flags /\ m.msg \in Nat
  BY MessageFields
<1>2. /\ arrived \in Seq(Nat) /\ Len(arrived) \in Nat /\ born \in Nat
      /\ \A u \in 1 .. Len(arrived) : arrived[u] \in 1 .. born
  BY DEF TypeInv, ServerRight
<1>3. CASE broken
  <2>1. UNCHANGED <<arrived, master, view, born, uidLast>>
    BY <1>3 DEF Upload, Command
  <2>2. Ages
    BY <2>1, SameAge
  <2> QED
    BY <2>1, <2>2 DEF TypeInv, ServerRight, StreamRight
<1>4. CASE ~broken
  <2>1. arrived' = Append(arrived, m.msg) /\ Command(Put(master, Len(arrived'), m.flags))
    BY <1>4 DEF Upload
  <2>2. /\ arrived' \in Seq(Nat) /\ Len(arrived') = Len(arrived) + 1
        /\ \A u \in 1 .. Len(arrived') : arrived'[u] \in 1 .. born
    BY <1>1, <1>2, <2>1
  <2>3. Ages
    BY <1>2, <2>2 DEF Ages
  <2>4. Mailbox(master, Len(arrived'))
    BY <1>2, <2>2, ServerBox, ToMore
  <2>5. Len(arrived') \in 1 .. Len(arrived')
    BY <1>2, <2>2
  <2>6. Mailbox(Put(master, Len(arrived'), m.flags), Len(arrived'))
    BY <1>1, <2>4, <2>5, Boxes
  <2>7. Mailbox(master', Len(arrived')) /\ Mailbox(view', Len(arrived'))
    BY <2>1, <2>3, <2>6, CommandTypes
  <2>8. uidLast' \in 0 .. Len(arrived')
    BY <1>2, <2>2 DEF TypeInv, StreamRight
  <2> QED
    BY <1>2, <2>2, <2>3, <2>7, <2>8 DEF ServerRight, StreamRight, Mailbox
<1> QED
  BY <1>3, <1>4

LEMMA FoundType == TypeInv => \A m : Found(m) \in 0 .. Len(arrived)
BY DEF TypeInv, ServerRight, StreamRight, Found

\* The map and the lines with what has been uploaded.
LEMMA UploadedTypes ==
  ASSUME TypeInv, Ages, NEW u \in 0 .. Len(arrived), NEW l \in Nat, Uploaded(u, l),
         UNCHANGED <<arrived, mappings, localLast, view>>
  PROVE  MapsRight' /\ StreamRight'
<1>1. Len(arrived) \in Nat
  BY DEF Ages
<1>2. LinesTo(mapBuf, Len(arrived)) /\ MapTo(map, Len(arrived))
  BY DEF TypeInv, MapsRight
<1>3. CASE u = 0
  BY <1>3 DEF Uploaded, TypeInv, MapsRight, StreamRight
<1>4. CASE u # 0
  <2>1. /\ mapBuf' = Append(mapBuf, <<u, l>>) /\ map' = Put(map, l, u) /\ uidLast' = u
        /\ u \in 1 .. Len(arrived)
    BY <1>1, <1>4 DEF Uploaded
  <2>2. LinesTo(mapBuf', Len(arrived)) /\ MapTo(map', Len(arrived))
    BY <1>1, <1>2, <2>1, AppendTo, PutTo
  <2> QED
    BY <2>1, <2>2 DEF TypeInv, MapsRight, StreamRight
<1> QED
  BY <1>3, <1>4

\* The lines that stdio buffers reach the file.
LEMMA FlushTypes ==
  ASSUME TypeInv, Ages, UNCHANGED <<map, localLast>>,
         mappings' \in {mappings, mappings \o mapBuf, LinesOf(map)}, mapBuf' \in {mapBuf, <<>>}
  PROVE  MapsRight'
<1>1. Len(arrived) \in Nat
  BY DEF Ages
<1>2. /\ LinesTo(mappings, Len(arrived)) /\ LinesTo(mapBuf, Len(arrived))
      /\ MapTo(map, Len(arrived)) /\ localLast \in Nat
  BY DEF TypeInv, MapsRight
<1>3. LinesTo(mappings \o mapBuf, Len(arrived)) /\ LinesTo(LinesOf(map), Len(arrived))
  BY <1>1, <1>2, JoinTo, LinesOfMap
<1>4. LinesTo(<<>>, Len(arrived))
  BY <1>1 DEF LinesTo
<1>5. LinesTo(mappings', Len(arrived)) /\ LinesTo(mapBuf', Len(arrived))
  BY <1>2, <1>3, <1>4
<1>6. /\ LinesTo(mappings', Len(arrived')) /\ LinesTo(mapBuf', Len(arrived'))
      /\ MapTo(map', Len(arrived'))
  BY <1>2, <1>5, ToMore DEF Ages
<1> QED
  BY <1>2, <1>6 DEF MapsRight

\* What CheckDeletion() leaves of the map.
LEMMA DeletionTypes ==
  ASSUME TypeInv, Ages, CheckDeletion \/ UNCHANGED map,
         UNCHANGED <<arrived, mappings, mapBuf, localLast>>
  PROVE  MapsRight'
<1>1. MapTo(map, Len(arrived))
  BY DEF TypeInv, MapsRight
<1>2. map' = map \/ \E X : map' = Without(map, X)
  BY DEF CheckDeletion
<1>3. MapTo(map', Len(arrived))
  BY <1>1, <1>2, WithoutTo
<1> QED
  BY <1>3 DEF TypeInv, MapsRight

\* What a download starts with and what it returns.
LEMMA DownloadTypes ==
  ASSUME TypeInv, UNCHANGED <<arrived, stateUid, lastUid, last, got, uidMap, number>>,
         Len(folder') = Len(folder), nmsgs' \in 0 .. Len(folder), msgno' \in Nat,
         NEW uids \in SUBSET (1 .. Len(arrived)), NEW a \in 0 .. Len(arrived), NEW b, NEW back,
         Download(uids, a, b, back)
  PROVE  PlacesRight'
BY DEF Download, TypeInv, PlacesRight

LEMMA ReturnTypes ==
  ASSUME TypeInv, UNCHANGED <<arrived, stateUid, msgno, nmsgs, uidMap, number>>,
         Len(folder') = Len(folder), NEW u \in 0 .. Len(arrived), Return(u)
  PROVE  PlacesRight'
BY DEF Return, TypeInv, PlacesRight, ServerRight

LEMMA OpenLocalTypes ==
  ASSUME TypeInv, Ages, NEW s, OpenLocal(s), UNCHANGED <<arrived, mappings>>
  PROVE  /\ FolderRight' /\ MapsRight' /\ Len(folder') = Len(folder)
         /\ number' \in 0 .. Len(folder') /\ lastUid' = 0
         /\ Keeps /\ AllParsed(folder') /\ localLast' = LastGiven(folder', hdrLast')
<1>1. Parse(folder) /\ folder \in Seq(Message) /\ Alike(folder, folder) /\ FolderRight
  BY DEF OpenLocal, TypeInv, FolderRight, Alike
<1>2. Keeps /\ AllParsed(folder') /\ localLast' = LastGiven(folder', hdrLast')
  BY <1>1, ParseKeeps
<1>3. /\ FolderRight' /\ Len(folder') = Len(folder) /\ localLast' \in Nat
      /\ Len(folder) \in Nat
  BY <1>2, KeepsTypes
<1>4. LinesTo(mappings, Len(arrived)) /\ LinesTo(mapBuf, Len(arrived))
  BY DEF TypeInv, MapsRight
<1>5. MapTo(ReadMappings(mappings), Len(arrived))
  BY <1>4, ReadTo
<1>6. /\ map' = ReadMappings(mappings) /\ mapBuf' = mapBuf /\ lastUid' = 0
      /\ number' = Len(folder)
  BY DEF OpenLocal
<1>7. MapsRight'
  BY <1>3, <1>4, <1>5, <1>6 DEF MapsRight
<1> QED
  BY <1>2, <1>3, <1>6, <1>7

LEMMA OpenMasterTypes ==
  ASSUME TypeInv, OpenMaster, UNCHANGED arrived
  PROVE  /\ StreamRight' /\ last' \in 0 .. Len(arrived')
         /\ UNCHANGED <<start, todo, got, msgno, nmsgs, uidMap>>
<1>1. Len(arrived) \in Nat /\ Mailbox(master, Len(arrived))
  BY ServerBox DEF TypeInv, ServerRight
<1>2. StreamRight'
  BY <1>1 DEF OpenMaster, TypeInv, StreamRight, Mailbox, stream
<1>3. last' \in 0 .. Len(arrived)
  BY DEF OpenMaster, TypeInv, PlacesRight
<1> QED
  BY <1>2, <1>3 DEF OpenMaster


LEMMA OpenTypes ==
  ASSUME TypeInv, Open
  PROVE  TypeInv'
<1>1. UNCHANGED <<server, born>> /\ UNCHANGED <<arrived, born>> /\ stateUid' = stateUid
  BY DEF Open, server
<1>2. Ages
  BY <1>1, SameAge
<1>3. /\ FolderRight' /\ MapsRight' /\ Len(folder') = Len(folder)
      /\ number' \in 0 .. Len(folder') /\ lastUid' = 0
  <2>1. OpenLocal("open") /\ UNCHANGED <<arrived, mappings>>
    BY <1>1 DEF Open
  <2> QED
    BY <1>2, <2>1, OpenLocalTypes
<1>4. /\ StreamRight' /\ last' \in 0 .. Len(arrived')
      /\ UNCHANGED <<start, todo, got, msgno, nmsgs, uidMap>>
  <2>1. CASE UNCHANGED <<stream, pc, args>>
    <3>1. StreamRight'
      BY <1>2, <2>1, Stays
    <3> QED
      BY <1>1, <2>1, <3>1 DEF TypeInv, PlacesRight, args
  <2>2. CASE OpenMaster
    BY <1>1, <2>2, OpenMasterTypes
  <2> QED
    BY <2>1, <2>2 DEF Open
<1>5. PlacesRight'
  BY <1>1, <1>3, <1>4, LastUids DEF TypeInv, PlacesRight
<1>6. CountersRight'
  BY DEF Open, Issue, OpenMaster, OpenLocal, TypeInv, CountersRight
<1>7. Control'
  BY DEF Open, Issue, OpenMaster, OpenLocal, TypeInv, Control, Labels, Downloading, Syncing, args
<1> QED
  BY <1>1, <1>2, <1>3, <1>4, <1>5, <1>6, <1>7, Stays DEF TypeInv

LEMMA NetSyncTypes ==
  ASSUME TypeInv, NetSync
  PROVE  TypeInv'
<1>1. UNCHANGED <<server, born>> /\ UNCHANGED <<arrived, born, mappings>> /\ stateUid' = stateUid
  BY DEF NetSync, server
<1>2. Ages
  BY <1>1, SameAge
<1>3. /\ FolderRight' /\ MapsRight' /\ Len(folder') = Len(folder)
      /\ number' \in 0 .. Len(folder') /\ lastUid' \in 0 .. Len(arrived')
  <2>1. CASE session = "closed"
    <3>1. OpenLocal("batch")
      BY <2>1 DEF NetSync
    <3> QED
      BY <1>1, <1>2, <3>1, OpenLocalTypes, LastUids
  <2>2. CASE session # "closed"
    <3>1. UNCHANGED <<folder, hdrLast, memory>>
      BY <2>2 DEF NetSync
    <3>2. UNCHANGED <<mapBuf, map, localLast, number, lastUid>>
      BY <3>1 DEF memory
    <3>3. FolderRight' /\ MapsRight'
      BY <1>1, <1>2, <3>1, <3>2, Stays
    <3> QED
      BY <1>1, <3>1, <3>2, <3>3 DEF TypeInv, PlacesRight
  <2> QED
    BY <2>1, <2>2
<1>4. /\ StreamRight' /\ last' \in 0 .. Len(arrived')
      /\ UNCHANGED <<start, todo, got, msgno, nmsgs, uidMap>>
  <2>1. OpenMaster
    BY DEF NetSync
  <2> QED
    BY <1>1, <2>1, OpenMasterTypes
<1>5. PlacesRight'
  BY <1>1, <1>3, <1>4 DEF TypeInv, PlacesRight
<1>6. CountersRight'
  BY DEF NetSync, Issue, OpenMaster, TypeInv, CountersRight
<1>7. Control'
  BY DEF NetSync, Issue, OpenMaster, OpenLocal, TypeInv, Control, Labels, Downloading, Syncing, memory
<1> QED
  BY <1>1, <1>2, <1>3, <1>4, <1>5, <1>6, <1>7, Stays DEF TypeInv


LEMMA SetFlagTypes ==
  ASSUME TypeInv, SetFlag
  PROVE  TypeInv'
<1>1. UNCHANGED <<arrived, born, uidLast, mappings, stateUid, session, map, mapBuf, lastUid, number>>
      /\ UNCHANGED <<pc, ret, start, todo, got, last, msgno, nmsgs, uidMap>>
  BY DEF SetFlag, args
<1>2. Ages
  BY <1>1, SameAge
<1>3. PICK i \in 1 .. number :
        \E f \in Flags :
          /\ \/ \E u : Command(IF u \in DOMAIN master THEN [master EXCEPT ![u] = With(@, f, f \notin folder[i].flags)]
                                                      ELSE master)
             \/ UNCHANGED <<master, view>>
          /\ Parse([folder EXCEPT ![i].flags = With(@, f, f \notin folder[i].flags)])
  BY DEF SetFlag
<1>4. PICK f \in Flags :
        /\ \/ \E u : Command(IF u \in DOMAIN master THEN [master EXCEPT ![u] = With(@, f, f \notin folder[i].flags)]
                                                    ELSE master)
           \/ UNCHANGED <<master, view>>
        /\ Parse([folder EXCEPT ![i].flags = With(@, f, f \notin folder[i].flags)])
  BY <1>3
<1>5. ServerRight' /\ StreamRight'
  <2>1. CASE UNCHANGED <<master, view>>
    BY <1>1, <2>1 DEF TypeInv, ServerRight, StreamRight
  <2>2. ASSUME NEW u, Command(IF u \in DOMAIN master THEN [master EXCEPT ![u] = With(@, f, f \notin folder[i].flags)]
                                                     ELSE master)
        PROVE  ServerRight' /\ StreamRight'
    <3> DEFINE box == [master EXCEPT ![u] = With(@, f, f \notin folder[i].flags)]
    <3>1. Mailbox(master, Len(arrived)) /\ Mailbox(box, Len(arrived))
      BY ServerBox, Boxes
    <3>2. Command(box) \/ Command(master)
      BY <2>2
    <3> HIDE DEF box
    <3> QED
      BY <1>1, <1>2, <3>1, <3>2, CommandBoth
  <2> QED
    BY <1>4, <2>1, <2>2
<1>6. Keeps /\ localLast' = LastGiven(folder', hdrLast')
  <2>1. folder \in Seq(Message) /\ i \in 1 .. Len(folder) /\ FolderRight
    BY LastUids DEF TypeInv, PlacesRight
  <2>2. With(folder[i].flags, f, f \notin folder[i].flags) \in SUBSET Flags
    BY <2>1, LastUids DEF With
  <2> DEFINE g == [folder EXCEPT ![i].flags = With(folder[i].flags, f, f \notin folder[i].flags)]
  <2>3. g \in Seq(Message) /\ Alike(g, folder)
    BY <2>1, <2>2, FlagsAlike
  <2>4. Parse(g)
    BY <1>4
  <2> HIDE DEF g
  <2> QED
    BY <2>1, <2>3, <2>4, ParseKeeps
<1>7. FolderRight' /\ Len(folder') = Len(folder) /\ localLast' \in Nat
  BY <1>2, <1>6, KeepsTypes
<1>8. MapsRight' /\ PlacesRight'
  BY <1>1, <1>7 DEF TypeInv, MapsRight, PlacesRight
<1>9. CountersRight'
  BY DEF SetFlag, Issue, TypeInv, CountersRight
<1>10. Control'
  BY <1>1, <1>7 DEF TypeInv, Control
<1> QED
  BY <1>5, <1>7, <1>8, <1>9, <1>10 DEF TypeInv

LEMMA CloseTypes ==
  ASSUME TypeInv, Close
  PROVE  TypeInv'
<1>1. /\ UNCHANGED <<server, born>>
      /\ UNCHANGED stream
      /\ UNCHANGED <<folder, hdrLast>>
      /\ UNCHANGED <<stateUid, lastUid, last, start, todo, got, msgno, nmsgs, uidMap, number>>
      /\ UNCHANGED <<arrived, born>>
      /\ Len(folder') = Len(folder)
  BY DEF Close, Issue, server, stream, disk, memory, args, history, bounds
<1>2. Ages
  BY <1>1, SameAge
<1>3. ServerRight' /\ StreamRight' /\ FolderRight' /\ PlacesRight'
  BY <1>1, <1>2, Stays
<1>4. MapsRight'
  <2>1. (CheckDeletion \/ UNCHANGED map) /\ UNCHANGED <<mappings, mapBuf, localLast>>
    BY DEF Close
  <2> QED
    BY <1>1, <1>2, <2>1, DeletionTypes
<1>5. CountersRight'
  BY DEF Close, Issue, TypeInv, CountersRight, server, stream, disk, memory, args, history, bounds
<1>6. Control'
  BY <1>1 DEF TypeInv, Control, Close, Issue, Faulty, Labels, Downloading, Syncing, server, stream, disk, memory, args, history, bounds
<1> QED
  BY <1>3, <1>4, <1>5, <1>6 DEF TypeInv


LEMMA ExpungeTypes ==
  ASSUME TypeInv, Ages, ExpungeLocal, UNCHANGED <<arrived, born, mappings, mapBuf, map>>
  PROVE  FolderRight' /\ MapsRight' /\ number' = Len(folder') /\ Len(folder') \in Nat
<1>1. Loses /\ localLast' = LastGiven(folder', hdrLast') /\ number' = Len(folder')
  BY ExpungeLoses DEF TypeInv
<1>2. FolderRight'
  BY <1>1, LosesTypes
<1>3. Len(folder') \in Nat /\ localLast' \in Nat
  BY <1>1, <1>2, LastGivenType DEF FolderRight
<1> QED
  BY <1>1, <1>2, <1>3 DEF TypeInv, MapsRight

LEMMA c_localTypes ==
  ASSUME TypeInv, c_local
  PROVE  TypeInv'
<1>1. /\ UNCHANGED <<server, born>> /\ UNCHANGED stream /\ UNCHANGED bounds
      /\ UNCHANGED <<arrived, born, mappings, mapBuf, map>> /\ ExpungeLocal
      /\ UNCHANGED <<stateUid, lastUid, last, start, todo, got, msgno, nmsgs, uidMap>>
  BY DEF c_local, server, stream, args, bounds
<1>2. Ages
  BY <1>1, SameAge
<1>3. FolderRight' /\ MapsRight' /\ number' = Len(folder') /\ Len(folder') \in Nat
  BY <1>1, <1>2, ExpungeTypes
<1>4. nmsgs = 0
  BY DEF c_local, TypeInv, Control
<1>5. PlacesRight'
  BY <1>1, <1>3, <1>4 DEF TypeInv, PlacesRight
<1>6. Control'
  BY DEF c_local, TypeInv, Control, Labels, Downloading, Syncing, args
<1> QED
  BY <1>1, <1>2, <1>3, <1>5, <1>6, Stays DEF TypeInv

LEMMA d_searchTypes ==
  ASSUME TypeInv, d_search
  PROVE  TypeInv'
<1>1. /\ UNCHANGED <<server, born>>
      /\ UNCHANGED <<folder, hdrLast>>
      /\ UNCHANGED <<mappings, mapBuf, map, localLast>>
      /\ UNCHANGED bounds
      /\ UNCHANGED <<arrived, born>>
  BY DEF d_search, server, stream, disk, memory, args, history, bounds
<1>2. Ages
  BY <1>1, SameAge
<1>3. ServerRight' /\ FolderRight' /\ MapsRight' /\ CountersRight'
  BY <1>1, <1>2, Stays
<1>4. StreamRight'
  BY <1>1 DEF d_search, TypeInv, StreamRight
<1>5. PlacesRight'
  <2>1. UNCHANGED <<stateUid, msgno, nmsgs, uidMap, number>>
    BY DEF d_search, disk
  <2>2. uidLast \in 0 .. Len(arrived)
    BY DEF TypeInv, StreamRight
  <2>3. CASE Return(uidLast)
    BY <1>1, <2>1, <2>2, <2>3, ReturnTypes
  <2>4. CASE UNCHANGED <<start, todo, got, last, lastUid>>
    BY <1>1, <1>2, <2>1, <2>4, Stays
  <2> QED
    BY <2>3, <2>4 DEF d_search
<1>6. Control'
  <2>1. pc = "d_search" /\ session' = session /\ folder' = folder /\ nmsgs' = nmsgs /\ msgno' = msgno
        /\ ((pc' = ret /\ ret' = "idle") \/ (pc' = "d_next" /\ ret' = ret /\ todo' = todo))
    BY DEF d_search, Return, disk
  <2> QED
    BY <2>1 DEF TypeInv, Control, Labels, Downloading, Syncing
<1> QED
  BY <1>3, <1>4, <1>5, <1>6 DEF TypeInv

LEMMA d_doneTypes ==
  ASSUME TypeInv, d_done
  PROVE  TypeInv'
<1>1. /\ UNCHANGED <<server, born>>
      /\ UNCHANGED <<folder, hdrLast>>
      /\ UNCHANGED <<mappings, mapBuf, map, localLast>>
      /\ UNCHANGED bounds
      /\ UNCHANGED <<arrived, born>>
  BY DEF d_done, server, stream, disk, memory, args, history, bounds
<1>2. Ages
  BY <1>1, SameAge
<1>3. ServerRight' /\ FolderRight' /\ MapsRight' /\ CountersRight'
  BY <1>1, <1>2, Stays
<1>4. StreamRight'
  BY <1>1 DEF d_done, TypeInv, StreamRight
<1>5. PlacesRight'
  <2>1. UNCHANGED <<stateUid, msgno, nmsgs, uidMap, number>> /\ Return(uidLast)
    BY DEF d_done, disk
  <2>2. uidLast \in 0 .. Len(arrived)
    BY DEF TypeInv, StreamRight
  <2> QED
    BY <1>1, <2>1, <2>2, ReturnTypes
<1>6. Control'
  <2>1. pc = "d_next" /\ session' = session /\ folder' = folder /\ nmsgs' = nmsgs /\ msgno' = msgno
        /\ pc' = ret /\ ret' = "idle"
    BY DEF d_done, Return, disk
  <2> QED
    BY <2>1 DEF TypeInv, Control, Labels, Downloading, Syncing
<1> QED
  BY <1>3, <1>4, <1>5, <1>6 DEF TypeInv

LEMMA d_fullTypes ==
  ASSUME TypeInv, d_full
  PROVE  TypeInv'
<1>1. /\ UNCHANGED <<server, born>>
      /\ UNCHANGED stream
      /\ UNCHANGED <<folder, hdrLast>>
      /\ UNCHANGED <<arrived, born>>
  BY DEF d_full, server, stream, disk, memory, args, history, bounds
<1>2. Ages
  BY <1>1, SameAge
<1>3. ServerRight' /\ StreamRight' /\ FolderRight'
  BY <1>1, <1>2, Stays
<1>4. MapsRight'
  <2>1. UNCHANGED <<mappings, map>> /\ localLast' = localLast + 1 /\ Min(todo) \in DOMAIN master
        /\ (mapBuf' = mapBuf \/ mapBuf' = Append(mapBuf, <<Min(todo), localLast'>>))
    BY DEF d_full, disk
  <2>2. /\ LinesTo(mapBuf, Len(arrived)) /\ localLast \in Nat /\ Len(arrived) \in Nat
        /\ Min(todo) \in 1 .. Len(arrived)
    BY <2>1 DEF TypeInv, MapsRight, ServerRight
  <2> DEFINE u == Min(todo)
  <2>3. LinesTo(mapBuf', Len(arrived))
    <3>1. u \in 1 .. Len(arrived) /\ localLast' \in Nat
          /\ (mapBuf' = mapBuf \/ mapBuf' = Append(mapBuf, <<u, localLast'>>))
      BY <2>1, <2>2
    <3> HIDE DEF u
    <3> QED
      BY <2>2, <3>1, AppendTo
  <2> QED
    BY <1>1, <2>1, <2>2, <2>3 DEF TypeInv, MapsRight
<1>5. PlacesRight'
  <2>1. UNCHANGED <<stateUid, msgno, nmsgs, uidMap, number>> /\ Return(start)
    BY DEF d_full, disk
  <2>2. start \in 0 .. Len(arrived)
    BY DEF TypeInv, PlacesRight
  <2> QED
    BY <1>1, <2>1, <2>2, ReturnTypes
<1>6. CountersRight'
  BY DEF d_full, TypeInv, CountersRight, server, stream, disk, memory, args, history, bounds
<1>7. Control'
  <2>1. pc = "d_next" /\ session' = session /\ folder' = folder /\ nmsgs' = nmsgs /\ msgno' = msgno
        /\ pc' = ret /\ ret' = "idle"
    BY DEF d_full, Return, disk
  <2> QED
    BY <2>1 DEF TypeInv, Control, Labels, Downloading, Syncing
<1> QED
  BY <1>3, <1>4, <1>5, <1>6, <1>7 DEF TypeInv


LEMMA d_nextTypes ==
  ASSUME TypeInv, d_next
  PROVE  TypeInv'
<1>1. /\ UNCHANGED <<server, born>> /\ UNCHANGED <<folder, hdrLast>> /\ UNCHANGED bounds
      /\ UNCHANGED <<arrived, born, uidLast, map, lastUid, last, start, msgno, nmsgs, uidMap, number>>
      /\ UNCHANGED stateUid
  BY DEF d_next, WriteLine, server, history, bounds
<1>2. Ages
  BY <1>1, SameAge
<1>3. ServerRight' /\ FolderRight' /\ CountersRight'
  BY <1>1, <1>2, Stays
<1> DEFINE u == Min(todo)
<1>4. CASE u \notin DOMAIN master
  <2>1. todo' = todo \ {u} /\ UNCHANGED <<view, localLast, mappings, mapBuf, got, pc>>
    BY <1>4 DEF d_next
  <2>2. StreamRight' /\ MapsRight' /\ PlacesRight'
    BY <1>1, <2>1 DEF TypeInv, StreamRight, MapsRight, PlacesRight
  <2>3. Control'
    BY <2>1 DEF d_next, TypeInv, Control
  <2> QED
    BY <1>3, <2>2, <2>3 DEF TypeInv
<1>5. CASE u \in DOMAIN master
  <2>1. /\ got' = master[u] /\ view' = [view EXCEPT ![u] = got'] /\ WriteLine(u)
        /\ pc' = "d_append" /\ todo' = todo
    BY <1>5 DEF d_next
  <2>2. got' \in SUBSET Flags /\ u \in 1 .. Len(arrived) /\ Len(arrived) \in Nat
    BY <1>5, <2>1 DEF TypeInv, ServerRight
  <2>3. StreamRight'
    BY <1>1, <2>1, <2>2 DEF TypeInv, StreamRight
  <2>4. PlacesRight'
    BY <1>1, <2>1, <2>2 DEF TypeInv, PlacesRight
  <2>5. /\ LinesTo(mappings, Len(arrived)) /\ LinesTo(mapBuf, Len(arrived)) /\ localLast \in Nat
        /\ localLast' = localLast + 1 /\ mapBuf' = <<>>
        /\ mappings' = mappings \o Append(mapBuf, <<u, localLast'>>)
    BY <2>1 DEF TypeInv, MapsRight, WriteLine
  <2>6. localLast' \in Nat
    BY <2>5
  <2> HIDE DEF u
  <2>7. LinesTo(Append(mapBuf, <<u, localLast'>>), Len(arrived))
    BY <2>2, <2>5, <2>6, AppendTo
  <2>8. LinesTo(mappings', Len(arrived)) /\ LinesTo(<<>>, Len(arrived))
    <3>1. LinesTo(mappings', Len(arrived))
      BY <2>2, <2>5, <2>7, JoinTo
    <3> QED
      BY <3>1 DEF LinesTo
  <2>9. MapsRight'
    BY <1>1, <2>5, <2>6, <2>8 DEF TypeInv, MapsRight
  <2>10. Control'
    BY <2>1 DEF d_next, TypeInv, Control, Labels, Downloading, Syncing
  <2> QED
    BY <1>3, <2>3, <2>4, <2>9, <2>10 DEF TypeInv
<1> QED
  BY <1>4, <1>5

\* The message that is being downloaded.
LEMMA FirstTodo ==
  TypeInv /\ pc \in {"d_append", "d_rename"} => Min(todo) \in 1 .. Len(arrived)
<1> SUFFICES ASSUME TypeInv, pc \in {"d_append", "d_rename"} PROVE Min(todo) \in 1 .. Len(arrived)
  OBVIOUS
<1>1. todo # {}
  BY DEF TypeInv, Control
<1>2. todo \subseteq 1 .. Len(arrived)
  BY DEF TypeInv, PlacesRight
<1>3. todo \in SUBSET Nat
  BY <1>2
<1> QED
  BY <1>1, <1>2, <1>3, MinNumber

LEMMA AppendGains == TypeInv /\ d_append => Gains(arrived[Min(todo)])
<1> SUFFICES ASSUME TypeInv, d_append PROVE Gains(arrived[Min(todo)])
  OBVIOUS
<1>2. Min(todo) \in 1 .. Len(arrived)
  BY FirstTodo DEF d_append
<1> DEFINE o == [uid |-> 0, msg |-> arrived[Min(todo)], flags |-> got]
<1>3. o \in Message /\ o.uid = 0 /\ o.msg = arrived[Min(todo)]
  BY <1>2 DEF TypeInv, PlacesRight, ServerRight, Message
<1>4. folder' = Append(folder, o) /\ hdrLast' = hdrLast
  BY DEF d_append
<1> HIDE DEF o
<1> QED
  BY <1>3, <1>4 DEF Gains

LEMMA d_appendTypes ==
  ASSUME TypeInv, d_append
  PROVE  TypeInv'
<1>1. /\ UNCHANGED <<server, born>> /\ UNCHANGED stream /\ UNCHANGED bounds
      /\ UNCHANGED <<mappings, mapBuf, map, localLast>> /\ UNCHANGED <<arrived, born>>
      /\ UNCHANGED <<stateUid, lastUid, last, start, todo, got, msgno, nmsgs, uidMap, number>>
  BY DEF d_append, server, memory, args, history, bounds
<1>2. Ages
  BY <1>1, SameAge
<1>3. todo # {}
  BY DEF TypeInv, Control, d_append
<1>4. arrived[Min(todo)] \in 1 .. born'
  <2>1. Min(todo) \in 1 .. Len(arrived)
    BY FirstTodo DEF d_append
  <2> QED
    BY <1>1, <2>1 DEF TypeInv, ServerRight
<1>5. FolderRight' /\ Len(folder') = Len(folder) + 1 /\ Len(folder) \in Nat
  BY <1>2, <1>4, AppendGains, GainsTypes
<1>6. PlacesRight'
  BY <1>1, <1>5 DEF TypeInv, PlacesRight
<1>7. Control'
  BY <1>3, <1>5 DEF d_append, TypeInv, Control, Labels, Downloading, Syncing, memory, args
<1> QED
  BY <1>1, <1>2, <1>5, <1>6, <1>7, Stays DEF TypeInv

LEMMA d_renameTypes ==
  ASSUME TypeInv, d_rename
  PROVE  TypeInv'
<1> DEFINE u == Min(todo)
<1>1. /\ UNCHANGED <<server, born>> /\ UNCHANGED <<folder, hdrLast>> /\ UNCHANGED bounds
      /\ UNCHANGED <<arrived, born, view, mappings, mapBuf, localLast, lastUid, last, start>>
      /\ UNCHANGED <<msgno, nmsgs, uidMap, number>>
      /\ stateUid' = u /\ uidLast' = u /\ todo' = todo \ {u} /\ got' = {}
      /\ map' = Put(map, localLast, u)
  BY DEF d_rename, server, history, bounds
<1>2. Ages
  BY <1>1, SameAge
<1>3. u \in 1 .. Len(arrived) /\ Len(arrived) \in Nat
  <2>1. u \in 1 .. Len(arrived)
    BY FirstTodo DEF d_rename
  <2> QED
    BY <2>1, LastUids
<1> HIDE DEF u
<1>4. MapTo(map', Len(arrived))
  BY <1>1, <1>3, PutTo DEF TypeInv, MapsRight
<1>5. MapsRight'
  BY <1>1, <1>4 DEF TypeInv, MapsRight
<1>6. StreamRight' /\ PlacesRight'
  BY <1>1, <1>3 DEF TypeInv, StreamRight, PlacesRight
<1>7. Control'
  BY DEF d_rename, TypeInv, Control, Labels, Downloading, Syncing
<1> QED
  BY <1>1, <1>2, <1>5, <1>6, <1>7, Stays DEF TypeInv

LEMMA s_deleteTypes ==
  ASSUME TypeInv, s_delete
  PROVE  TypeInv'
<1>1. /\ UNCHANGED <<arrived, born, uidLast>> /\ Len(folder') = Len(folder)
      /\ UNCHANGED <<folder, hdrLast>> /\ UNCHANGED <<mappings, mapBuf, map, localLast>>
      /\ UNCHANGED <<stateUid, lastUid, last, start, todo, got, msgno, nmsgs, uidMap, number>>
      /\ UNCHANGED bounds
  BY DEF s_delete, disk, memory, args, history
<1>2. Ages
  BY <1>1, SameAge
<1>3. Command(Expunged(Without(master, {changes[i][2] : i \in {j \in DOMAIN changes : changes[j][1] = "delete"}}))) \/ UNCHANGED <<master, view>>
  BY DEF s_delete
<1>4. Mailbox(Expunged(Without(master, {changes[i][2] : i \in {j \in DOMAIN changes : changes[j][1] = "delete"}})), Len(arrived))
  BY ServerBox, Boxes
<1>5. ServerRight' /\ StreamRight'
  <2>1. CASE UNCHANGED <<master, view>>
    BY <1>1, <2>1 DEF TypeInv, ServerRight, StreamRight
  <2>2. CASE Command(Expunged(Without(master, {changes[i][2] : i \in {j \in DOMAIN changes : changes[j][1] = "delete"}})))
    BY <1>1, <1>2, <1>4, <2>2, CommandBoth
  <2> QED
    BY <1>3, <2>1, <2>2
<1>6. FolderRight' /\ MapsRight' /\ PlacesRight' /\ CountersRight'
  BY <1>1, <1>2, Stays
<1>7. Control'
  BY <1>1 DEF TypeInv, Control, s_delete, Labels, Downloading, Syncing, server, stream, disk, memory, args, history, bounds
<1> QED
  BY <1>5, <1>6, <1>7 DEF TypeInv

LEMMA s_mapTypes ==
  ASSUME TypeInv, s_map
  PROVE  TypeInv'
<1>1. /\ UNCHANGED <<server, born>>
      /\ UNCHANGED <<folder, hdrLast>>
      /\ UNCHANGED <<mappings, mapBuf, map, localLast>>
      /\ UNCHANGED bounds
      /\ UNCHANGED <<arrived, born>>
  BY DEF s_map, server, stream, disk, memory, args, history, bounds
<1>2. Ages
  BY <1>1, SameAge
<1>3. ServerRight' /\ FolderRight' /\ MapsRight' /\ CountersRight'
  BY <1>1, <1>2, Stays
<1>4. StreamRight'
  BY <1>1 DEF s_map, TypeInv, StreamRight
<1>5. PlacesRight'
  <2>1. /\ UNCHANGED <<stateUid, lastUid, last, start, todo, got, msgno, nmsgs, number>>
        /\ uidMap' = DOMAIN view
    BY DEF s_map, disk, memory
  <2> QED
    BY <1>1, <2>1 DEF TypeInv, PlacesRight, StreamRight
<1>6. Control'
  BY <1>1 DEF TypeInv, Control, s_map, Faulty, Labels, Downloading, Syncing, server, stream, disk, memory, args, history, bounds
<1> QED
  BY <1>3, <1>4, <1>5, <1>6 DEF TypeInv

LEMMA s_abortTypes ==
  ASSUME TypeInv, s_abort
  PROVE  TypeInv'
<1>1. /\ UNCHANGED <<server, born>> /\ UNCHANGED <<arrived, born, folder>>
      /\ UNCHANGED <<folder, hdrLast>> /\ UNCHANGED bounds /\ UNCHANGED <<mappings, stateUid>>
  BY DEF s_abort, server, disk, history
<1>2. Ages
  BY <1>1, SameAge
<1>3. ServerRight' /\ FolderRight' /\ CountersRight'
  BY <1>1, <1>2, Stays
<1>4. StreamRight' /\ MapsRight' /\ PlacesRight' /\ Control'
  <2>1. CASE Gone
    <3>1. LinesTo(mappings', Len(arrived))
      BY <1>1 DEF TypeInv, MapsRight
    <3> QED
      BY <1>1, <2>1, <3>1, GoneTypes
  <2>2. CASE session # "batch" /\ Idle /\ UNCHANGED <<view, uidLast, broken, error, memory>>
    <3>1. StreamRight'
      BY <1>1, <2>2 DEF TypeInv, StreamRight
    <3>2. MapsRight'
      BY <1>1, <2>2 DEF TypeInv, MapsRight, memory
    <3>3. Len(folder) \in Nat /\ Len(arrived) \in Nat
      BY LastUids
    <3>4. PlacesRight'
      BY <1>1, <2>2, <3>3 DEF TypeInv, PlacesRight, Idle, memory
    <3>5. Control'
      BY <2>2 DEF TypeInv, Control, Idle, memory, s_abort, Labels, Downloading, Syncing
    <3> QED
      BY <3>1, <3>2, <3>4, <3>5
  <2> QED
    BY <2>1, <2>2 DEF s_abort
<1> QED
  BY <1>3, <1>4 DEF TypeInv

LEMMA s_flagsTypes ==
  ASSUME TypeInv, s_flags
  PROVE  TypeInv'
<1>1. /\ UNCHANGED <<arrived, born, uidLast>> /\ Len(folder') = Len(folder)
      /\ UNCHANGED <<folder, hdrLast>> /\ UNCHANGED <<mappings, mapBuf, map, localLast>>
      /\ UNCHANGED <<stateUid, lastUid, last, start, todo, got, msgno, nmsgs, uidMap, number>>
      /\ UNCHANGED bounds
  BY DEF s_flags, disk, memory, args, history
<1>2. Ages
  BY <1>1, SameAge
<1>3. Command([u \in DOMAIN master |-> IF u \in uidMap THEN NewFlags(u) ELSE master[u]]) \/ UNCHANGED <<master, view>>
  BY DEF s_flags
<1>4. Mailbox([u \in DOMAIN master |-> IF u \in uidMap THEN NewFlags(u) ELSE master[u]], Len(arrived))
  BY ServerBox DEF Mailbox, NewFlags
<1>5. ServerRight' /\ StreamRight'
  <2>1. CASE UNCHANGED <<master, view>>
    BY <1>1, <2>1 DEF TypeInv, ServerRight, StreamRight
  <2>2. CASE Command([u \in DOMAIN master |-> IF u \in uidMap THEN NewFlags(u) ELSE master[u]])
    BY <1>1, <1>2, <1>4, <2>2, CommandBoth
  <2> QED
    BY <1>3, <2>1, <2>2
<1>6. FolderRight' /\ MapsRight' /\ PlacesRight' /\ CountersRight'
  BY <1>1, <1>2, Stays
<1>7. Control'
  BY <1>1 DEF TypeInv, Control, s_flags, Labels, Downloading, Syncing, server, stream, disk, memory, args, history, bounds
<1> QED
  BY <1>5, <1>6, <1>7 DEF TypeInv

LEMMA s_unlinkTypes ==
  ASSUME TypeInv, s_unlink
  PROVE  TypeInv'
<1>1. /\ UNCHANGED <<server, born>>
      /\ UNCHANGED stream
      /\ UNCHANGED <<folder, hdrLast>>
      /\ UNCHANGED <<mappings, mapBuf, map, localLast>>
      /\ UNCHANGED <<stateUid, lastUid, last, start, todo, got, msgno, nmsgs, uidMap, number>>
      /\ UNCHANGED bounds
      /\ UNCHANGED <<arrived, born>>
      /\ Len(folder') = Len(folder)
  BY DEF s_unlink, server, stream, disk, memory, args, history, bounds
<1>2. Ages
  BY <1>1, SameAge
<1>3. ServerRight' /\ StreamRight' /\ FolderRight' /\ MapsRight' /\ PlacesRight' /\ CountersRight'
  BY <1>1, <1>2, Stays
<1>4. Control'
  BY <1>1 DEF TypeInv, Control, s_unlink, Faulty, Labels, Downloading, Syncing, server, stream, disk, memory, args, history, bounds
<1> QED
  BY <1>3, <1>4 DEF TypeInv

LEMMA s_downloadTypes ==
  ASSUME TypeInv, s_download
  PROVE  TypeInv'
<1>1. /\ UNCHANGED <<server, born>> /\ UNCHANGED stream /\ UNCHANGED <<folder, hdrLast>>
      /\ UNCHANGED <<mappings, mapBuf, map, localLast>> /\ UNCHANGED bounds
      /\ UNCHANGED <<arrived, born>> /\ Len(folder') = Len(folder)
      /\ UNCHANGED <<stateUid, lastUid, last, got, uidMap, number>> /\ nmsgs' = Len(folder) /\ msgno' = 1
      /\ Download(DOMAIN view, last, MaxUid(DOMAIN view), "s_loop")
      /\ pc = "s_download" /\ session' = session /\ folder' = folder
  BY DEF s_download, server, disk, memory, history, bounds
<1>2. Ages
  BY <1>1, SameAge
<1>3. PlacesRight'
  <2>1. DOMAIN view \in SUBSET (1 .. Len(arrived)) /\ last \in 0 .. Len(arrived)
    BY DEF TypeInv, StreamRight, PlacesRight
  <2>2. nmsgs' \in 0 .. Len(folder) /\ msgno' \in Nat
    BY <1>1, LastUids
  <2> QED
    BY <1>1, <2>1, <2>2, DownloadTypes
<1>4. Control'
  BY <1>1 DEF Download, TypeInv, Control, Labels, Downloading, Syncing
<1> QED
  BY <1>1, <1>2, <1>3, <1>4, Stays DEF TypeInv


\* What the loop of a sync is about: a message of the folder.
LEMMA InLoop ==
  TypeInv /\ (Looping \/ pc = "s_search") =>
    msgno \in 1 .. Len(folder) /\ msgno \in Nat /\ nmsgs \in Nat
BY LastUids DEF TypeInv, Control, PlacesRight, Looping

LEMMA FlagsNowType ==
  TypeInv => \A u \in DOMAIN view : FlagsNow(u) \in SUBSET Flags
BY DEF TypeInv, StreamRight, ServerRight, FlagsNow

\* The flags of a message that has a place in the stream.
LEMMA PlaceFlags ==
  ASSUME TypeInv, NEW S, NEW u, NEW n, n = MsgNo(S, u), n # 0, n <= Cardinality(DOMAIN view),
         S \subseteq 1 .. Len(arrived)
  PROVE  FlagsNow(UidOf(DOMAIN view, n)) \in SUBSET Flags
<1>1. Len(arrived) \in Nat /\ DOMAIN view \in SUBSET (1 .. Len(arrived))
  BY LastUids DEF TypeInv, StreamRight
<1>2. n \in Nat /\ 1 <= n
  <2>1. 1 \in Int /\ Len(arrived) \in Int
    BY <1>1
  <2>2. IsFiniteSet(1 .. Len(arrived))
    BY <2>1, FS_Interval, Zenon
  <2>3. Cardinality({v \in S : v <= u}) \in Nat
    <3>1. {v \in S : v <= u} \subseteq 1 .. Len(arrived)
      OBVIOUS
    <3> QED
      BY <2>2, <3>1, FS_Subset, FS_CardinalityType
  <2>4. n = Cardinality({v \in S : v <= u})
    BY DEF MsgNo
  <2> DEFINE c == Cardinality({v \in S : v <= u})
  <2>5. c \in Nat /\ n = c
    BY <2>3, <2>4
  <2> HIDE DEF c
  <2> QED
    BY <2>5
<1> DEFINE x == UidOf(DOMAIN view, n)
<1>3. x \in DOMAIN view
  BY <1>1, <1>2, PlaceInSet
<1> HIDE DEF x
<1> QED
  BY <1>3, FlagsNowType DEF x

\* The loop of a sync copies flags, and nothing else.
LEMMA FlaggedKeeps ==
  ASSUME TypeInv, s_flagged
  PROVE  /\ Keeps
         /\ \/ localLast' = localLast /\ folder' = folder
            \/ localLast' = LastGiven(folder', hdrLast') /\ AllParsed(folder')
<1>1. msgno \in 1 .. Len(folder) /\ msgno \in Nat
  BY InLoop DEF s_flagged
<1>2. \E X \in SUBSET Flags : SetLocal(msgno, X)
  <2> DEFINE uid == GetMasterUID(map, folder[msgno])
             n == MsgNo(uidMap, uid)
  <2>1. n <= Cardinality(DOMAIN view)
        /\ IF n = 0 THEN SetLocal(msgno, folder[msgno].flags \cup {"deleted"})
                    ELSE SetLocal(msgno, FlagsNow(UidOf(DOMAIN view, n)))
    BY DEF s_flagged
  <2>2. folder[msgno].flags \cup {"deleted"} \in SUBSET Flags
    BY <1>1, LastUids DEF Flags
  <2>3. n = MsgNo(uidMap, uid) /\ uidMap \subseteq 1 .. Len(arrived)
    BY DEF TypeInv, PlacesRight
  <2> HIDE DEF n, uid
  <2>4. n # 0 => FlagsNow(UidOf(DOMAIN view, n)) \in SUBSET Flags
    BY <2>1, <2>3, PlaceFlags
  <2> QED
    BY <2>1, <2>2, <2>4
<1>3. /\ Keeps
      /\ \/ localLast' = localLast /\ folder' = folder
         \/ localLast' = LastGiven(folder', hdrLast') /\ AllParsed(folder')
  <2>1. FolderRight
    BY DEF TypeInv
  <2> QED
    BY <1>1, <1>2, <2>1, SetLocalKeeps
<1> QED
  BY <1>3

LEMMA s_flaggedTypes ==
  ASSUME TypeInv, s_flagged
  PROVE  TypeInv'
<1>1. /\ UNCHANGED <<server, born>> /\ UNCHANGED <<arrived, born>> /\ UNCHANGED bounds
      /\ UNCHANGED <<view, uidLast, mappings, mapBuf, map, pc, ret, session, todo>>
      /\ UNCHANGED <<stateUid, lastUid, last, start, todo, got, nmsgs, uidMap, number>>
      /\ msgno' = msgno + 1 /\ pc = "s_loop"
  BY DEF s_flagged, Looping, server, history, bounds
<1>2. Ages
  BY <1>1, SameAge
<1>3. msgno \in 1 .. Len(folder) /\ msgno \in Nat
  BY InLoop DEF s_flagged
<1>5. Keeps /\ (localLast' = localLast \/ localLast' = LastGiven(folder', hdrLast'))
  BY FlaggedKeeps
<1>6. FolderRight' /\ Len(folder') = Len(folder) /\ localLast' \in Nat /\ Len(folder) \in Nat
  BY <1>2, <1>5, KeepsTypes DEF TypeInv, MapsRight
<1>7. StreamRight' /\ MapsRight' /\ PlacesRight'
  BY <1>1, <1>3, <1>6 DEF TypeInv, StreamRight, MapsRight, PlacesRight
<1>8. Control'
  BY <1>1, <1>3, <1>6 DEF TypeInv, Control, Downloading
<1> QED
  BY <1>1, <1>2, <1>6, <1>7, <1>8, Stays DEF TypeInv

LEMMA s_uploadTypes ==
  ASSUME TypeInv, s_upload
  PROVE  TypeInv'
<1>1. /\ UNCHANGED <<folder, hdrLast>> /\ UNCHANGED <<mappings, mapBuf, map, localLast>>
      /\ UNCHANGED <<stateUid, lastUid, last, start, todo, got, msgno, nmsgs, uidMap, number>>
      /\ UNCHANGED bounds /\ UNCHANGED <<born, uidLast>> /\ Len(folder') = Len(folder)
  BY DEF s_upload, disk, memory, args, history
<1>2. folder[msgno] \in Message /\ folder[msgno].msg \in 1 .. born
  BY InLoop, LastUids DEF s_upload
<1>3. \E back : Upload(folder[msgno], back)
  BY DEF s_upload
<1>4. Ages /\ ServerRight' /\ StreamRight'
  BY <1>1, <1>2, <1>3, UploadTypes
<1>5. FolderRight' /\ MapsRight' /\ PlacesRight' /\ CountersRight'
  BY <1>1, <1>4, Stays
<1>6. Control'
  BY <1>1 DEF s_upload, Upload, TypeInv, Control, Looping, Labels, Downloading, Syncing, server, stream, disk, memory, args, history, bounds
<1> QED
  BY <1>4, <1>5, <1>6 DEF TypeInv

LEMMA i_uploadTypes ==
  ASSUME TypeInv, i_upload
  PROVE  TypeInv'
<1>1. /\ UNCHANGED <<folder, hdrLast>> /\ UNCHANGED <<mappings, mapBuf, map, localLast>>
      /\ UNCHANGED <<stateUid, lastUid, last, start, todo, got, msgno, nmsgs, uidMap, number>>
      /\ UNCHANGED bounds /\ UNCHANGED <<born, uidLast>> /\ Len(folder') = Len(folder)
  BY DEF i_upload, disk, memory, args, history
<1>2. folder[Len(folder)] \in Message /\ folder[Len(folder)].msg \in 1 .. born
  <2>1. 1 <= Len(folder)
    BY DEF i_upload, TypeInv, Control
  <2> QED
    BY <2>1, LastUids
<1>3. \E back : Upload(folder[Len(folder)], back)
  BY DEF i_upload
<1>4. Ages /\ ServerRight' /\ StreamRight'
  BY <1>1, <1>2, <1>3, UploadTypes
<1>5. FolderRight' /\ MapsRight' /\ PlacesRight' /\ CountersRight'
  BY <1>1, <1>4, Stays
<1>6. Control'
  BY <1>1 DEF i_upload, Upload, TypeInv, Control, Looping, Labels, Downloading, Syncing, server, stream, disk, memory, args, history, bounds
<1> QED
  BY <1>4, <1>5, <1>6 DEF TypeInv

LEMMA s_searchTypes ==
  ASSUME TypeInv, s_search
  PROVE  TypeInv'
<1>1. /\ UNCHANGED <<server, born>> /\ UNCHANGED <<folder, hdrLast>> /\ UNCHANGED bounds
      /\ UNCHANGED <<arrived, born, mappings, localLast, view>> /\ Len(folder') = Len(folder)
      /\ UNCHANGED <<stateUid, lastUid, start, todo, got, nmsgs, uidMap, number>>
      /\ msgno' \in {msgno, msgno + 1}
      /\ Uploaded(Found(folder[msgno]), folder[msgno].uid) /\ last' = Found(folder[msgno])
  BY DEF s_search, server, disk, history, bounds
<1>2. Ages
  BY <1>1, SameAge
<1>3. folder[msgno].uid \in Nat /\ msgno \in Nat
  BY InLoop, LastUids DEF s_search
<1>4. Found(folder[msgno]) \in 0 .. Len(arrived)
  BY FoundType
<1>5. MapsRight' /\ StreamRight'
  BY <1>1, <1>2, <1>3, <1>4, UploadedTypes
<1>6. PlacesRight'
  BY <1>1, <1>3, <1>4 DEF TypeInv, PlacesRight
<1>7. Control'
  BY <1>1, <1>3 DEF s_search, TypeInv, Control, Labels, Downloading, Syncing, disk
<1> QED
  BY <1>1, <1>2, <1>5, <1>6, <1>7, Stays DEF TypeInv

LEMMA i_searchTypes ==
  ASSUME TypeInv, i_search
  PROVE  TypeInv'
<1>1. /\ UNCHANGED <<server, born>> /\ UNCHANGED <<folder, hdrLast>> /\ UNCHANGED bounds
      /\ UNCHANGED <<arrived, born, mappings, localLast, view>> /\ Len(folder') = Len(folder)
      /\ UNCHANGED <<stateUid, lastUid, start, todo, got, nmsgs, uidMap, number>>
      /\ msgno' \in {msgno, msgno + 1}
      /\ Uploaded(Found(folder[Len(folder)]), msgno) /\ last' = Found(folder[Len(folder)])
  BY DEF i_search, server, disk, history, bounds
<1>2. Ages
  BY <1>1, SameAge
<1>3. msgno \in Nat /\ msgno \in Nat
  BY DEF TypeInv, PlacesRight
<1>4. Found(folder[Len(folder)]) \in 0 .. Len(arrived)
  BY FoundType
<1>5. MapsRight' /\ StreamRight'
  BY <1>1, <1>2, <1>3, <1>4, UploadedTypes
<1>6. PlacesRight'
  BY <1>1, <1>3, <1>4 DEF TypeInv, PlacesRight
<1>7. Control'
  BY <1>1, <1>3 DEF i_search, TypeInv, Control, Labels, Downloading, Syncing, disk
<1> QED
  BY <1>1, <1>2, <1>5, <1>6, <1>7, Stays DEF TypeInv

LEMMA s_flushTypes ==
  ASSUME TypeInv, s_flush
  PROVE  TypeInv'
<1>1. /\ UNCHANGED <<server, born>>
      /\ UNCHANGED stream
      /\ UNCHANGED <<folder, hdrLast>>
      /\ UNCHANGED <<stateUid, lastUid, last, start, todo, got, msgno, nmsgs, uidMap, number>>
      /\ UNCHANGED bounds
      /\ UNCHANGED <<arrived, born>>
      /\ Len(folder') = Len(folder)
  BY DEF s_flush, server, stream, disk, memory, args, history, bounds
<1>2. Ages
  BY <1>1, SameAge
<1>3. ServerRight' /\ StreamRight' /\ FolderRight' /\ PlacesRight' /\ CountersRight'
  BY <1>1, <1>2, Stays
<1>4. MapsRight'
  <2>1. /\ UNCHANGED <<map, localLast>> /\ mapBuf' \in {mapBuf, <<>>}
        /\ mappings' \in {mappings, mappings \o mapBuf, LinesOf(map)}
    BY DEF s_flush
  <2> QED
    BY <1>2, <2>1, FlushTypes
<1>5. Control'
  BY <1>1 DEF TypeInv, Control, s_flush, Looping, Labels, Downloading, Syncing, server, stream, disk, memory, args, history, bounds
<1> QED
  BY <1>3, <1>4, <1>5 DEF TypeInv

LEMMA s_stateTypes ==
  ASSUME TypeInv, s_state
  PROVE  TypeInv'
<1>1. /\ UNCHANGED <<server, born>>
      /\ UNCHANGED stream
      /\ UNCHANGED <<folder, hdrLast>>
      /\ UNCHANGED <<mappings, mapBuf, map, localLast>>
      /\ UNCHANGED bounds
      /\ UNCHANGED <<arrived, born>>
  BY DEF s_state, server, stream, disk, memory, args, history, bounds
<1>2. Ages
  BY <1>1, SameAge
<1>3. ServerRight' /\ StreamRight' /\ FolderRight' /\ MapsRight' /\ CountersRight'
  BY <1>1, <1>2, Stays
<1>4. PlacesRight'
  BY DEF s_state, TypeInv, PlacesRight, server, stream, disk, memory, args, history, bounds
<1>5. Control'
  BY <1>1 DEF TypeInv, Control, s_state, Faulty, Labels, Downloading, Syncing, server, stream, disk, memory, args, history, bounds
<1> QED
  BY <1>3, <1>4, <1>5 DEF TypeInv

LEMMA s_endTypes ==
  ASSUME TypeInv, s_end
  PROVE  TypeInv'
<1>1. /\ UNCHANGED <<server, born>> /\ UNCHANGED <<arrived, born, folder>>
      /\ UNCHANGED <<folder, hdrLast>> /\ UNCHANGED bounds /\ UNCHANGED <<mappings, stateUid>>
  BY DEF s_end, server, disk, history
<1>2. Ages
  BY <1>1, SameAge
<1>3. ServerRight' /\ FolderRight' /\ CountersRight'
  BY <1>1, <1>2, Stays
<1>4. StreamRight' /\ MapsRight' /\ PlacesRight' /\ Control'
  <2>1. CASE session = "batch"
    <3>1. LinesTo(mappings', Len(arrived)) /\ Gone
      BY <1>1, <2>1 DEF TypeInv, MapsRight, s_end
    <3> QED
      BY <1>1, <3>1, GoneTypes
  <2>2. CASE session # "batch"
    <3>1. /\ lastUid' = last /\ pc' = "u_start" /\ pc = "s_end" /\ session' = session
          /\ UNCHANGED <<view, uidLast, localLast, map, mapBuf, number, ret>>
          /\ UNCHANGED <<last, start, todo, got, msgno, nmsgs, uidMap>>
      BY <2>2 DEF s_end, stream, args
    <3>2. StreamRight' /\ MapsRight' /\ PlacesRight'
      BY <1>1, <3>1 DEF TypeInv, StreamRight, MapsRight, PlacesRight
    <3>3. Control'
      BY <2>2, <3>1 DEF TypeInv, Control, Labels, Downloading, Syncing
    <3> QED
      BY <3>2, <3>3
  <2> QED
    BY <2>1, <2>2
<1> QED
  BY <1>3, <1>4 DEF TypeInv

LEMMA u_startTypes ==
  ASSUME TypeInv, u_start
  PROVE  TypeInv'
<1>1. /\ UNCHANGED <<folder, hdrLast>> /\ UNCHANGED <<mappings, mapBuf, map, localLast>>
      /\ UNCHANGED bounds /\ UNCHANGED <<arrived, born, uidLast>> /\ Len(folder') = Len(folder)
      /\ UNCHANGED <<stateUid, lastUid, last, got, msgno, nmsgs, uidMap, number>>
      /\ pc = "u_start" /\ session' = session /\ folder' = folder
  BY DEF u_start, disk, memory, history
<1>2. Ages
  BY <1>1, SameAge
<1>3. /\ Command(IF op = "sync" THEN Expunged(master) ELSE master) \/ UNCHANGED <<master, view>>
      /\ \/ Download(DOMAIN view', lastUid, MaxUid(DOMAIN view'), "u_state")
         \/ pc' \in {"u_net", "u_check"} /\ UNCHANGED <<ret, start, todo>>
  BY DEF u_start
<1>4. Mailbox(IF op = "sync" THEN Expunged(master) ELSE master, Len(arrived))
  BY ServerBox, Boxes
<1>5. ServerRight' /\ StreamRight'
  <2>1. CASE UNCHANGED <<master, view>>
    BY <1>1, <2>1 DEF TypeInv, ServerRight, StreamRight
  <2>2. CASE Command(IF op = "sync" THEN Expunged(master) ELSE master)
    BY <1>1, <1>2, <1>4, <2>2, CommandBoth
  <2> QED
    BY <1>3, <2>1, <2>2
<1>6. FolderRight' /\ MapsRight' /\ CountersRight'
  BY <1>1, <1>2, Stays
<1>7. PlacesRight'
  <2>1. CASE Download(DOMAIN view', lastUid, MaxUid(DOMAIN view'), "u_state")
    <3>1. DOMAIN view' \in SUBSET (1 .. Len(arrived)) /\ nmsgs \in 0 .. Len(folder) /\ msgno \in Nat
      BY <1>1, <1>5 DEF StreamRight, TypeInv, PlacesRight
    <3>2. lastUid \in 0 .. Len(arrived)
      BY DEF TypeInv, PlacesRight
    <3> QED
      BY <1>1, <2>1, <3>1, <3>2, DownloadTypes
  <2>2. CASE UNCHANGED <<ret, start, todo>>
    BY <1>1, <1>2, <2>2, Stays
  <2> QED
    BY <1>3, <2>1, <2>2
<1>8. Control'
  BY <1>1, <1>3 DEF Download, TypeInv, Control, Labels, Downloading, Syncing
<1> QED
  BY <1>5, <1>6, <1>7, <1>8 DEF TypeInv

LEMMA i_pingTypes ==
  ASSUME TypeInv, i_ping
  PROVE  TypeInv'
<1>1. /\ UNCHANGED <<folder, hdrLast>> /\ UNCHANGED <<mappings, mapBuf, map, localLast>>
      /\ UNCHANGED bounds /\ UNCHANGED <<arrived, born, uidLast>> /\ Len(folder') = Len(folder)
      /\ UNCHANGED <<stateUid, lastUid, last, got, msgno, nmsgs, uidMap, number>>
      /\ pc = "i_ping" /\ session' = session /\ folder' = folder
  BY DEF i_ping, disk, memory, history
<1>2. Ages
  BY <1>1, SameAge
<1>3. /\ Command(master) \/ UNCHANGED <<master, view>>
      /\ \/ (lastUid + 1 < last /\ Download(DOMAIN view', lastUid + 1, last, "i_state"))
         \/ pc' \in {"i_state"} /\ UNCHANGED <<ret, start, todo>>
  BY DEF i_ping
<1>4. Mailbox(master, Len(arrived))
  BY ServerBox
<1>5. ServerRight' /\ StreamRight'
  <2>1. CASE UNCHANGED <<master, view>>
    BY <1>1, <2>1 DEF TypeInv, ServerRight, StreamRight
  <2>2. CASE Command(master)
    BY <1>1, <1>2, <1>4, <2>2, CommandBoth
  <2> QED
    BY <1>3, <2>1, <2>2
<1>6. FolderRight' /\ MapsRight' /\ CountersRight'
  BY <1>1, <1>2, Stays
<1>7. PlacesRight'
  <2>1. CASE (lastUid + 1 < last /\ Download(DOMAIN view', lastUid + 1, last, "i_state"))
    <3>1. DOMAIN view' \in SUBSET (1 .. Len(arrived)) /\ nmsgs \in 0 .. Len(folder) /\ msgno \in Nat
      BY <1>1, <1>5 DEF StreamRight, TypeInv, PlacesRight
    <3>2. lastUid + 1 \in 0 .. Len(arrived)
      BY <2>1, LastUids DEF TypeInv, PlacesRight
    <3> QED
      BY <1>1, <2>1, <3>1, <3>2, DownloadTypes
  <2>2. CASE UNCHANGED <<ret, start, todo>>
    BY <1>1, <1>2, <2>2, Stays
  <2> QED
    BY <1>3, <2>1, <2>2
<1>8. Control'
  BY <1>1, <1>3 DEF Download, TypeInv, Control, Labels, Downloading, Syncing
<1> QED
  BY <1>5, <1>6, <1>7, <1>8 DEF TypeInv

LEMMA u_stateTypes ==
  ASSUME TypeInv, u_state
  PROVE  TypeInv'
<1>1. /\ UNCHANGED <<server, born>>
      /\ UNCHANGED stream
      /\ UNCHANGED <<folder, hdrLast>>
      /\ UNCHANGED bounds
      /\ UNCHANGED <<arrived, born>>
  BY DEF u_state, server, stream, disk, memory, args, history, bounds
<1>2. Ages
  BY <1>1, SameAge
<1>3. ServerRight' /\ StreamRight' /\ FolderRight' /\ CountersRight'
  BY <1>1, <1>2, Stays
<1>4. MapsRight'
  <2>1. /\ UNCHANGED <<map, localLast>> /\ mapBuf' \in {mapBuf, <<>>}
        /\ mappings' \in {mappings, mappings \o mapBuf, LinesOf(map)}
    BY DEF u_state
  <2> QED
    BY <1>2, <2>1, FlushTypes
<1>5. PlacesRight'
  BY <1>1 DEF u_state, TypeInv, PlacesRight, memory, args
<1>6. Control'
  BY <1>1 DEF TypeInv, Control, u_state, Faulty, Labels, Downloading, Syncing, server, stream, disk, memory, args, history, bounds
<1> QED
  BY <1>3, <1>4, <1>5, <1>6 DEF TypeInv

LEMMA state_fullTypes ==
  ASSUME TypeInv, state_full
  PROVE  TypeInv'
<1>1. /\ UNCHANGED <<server, born>>
      /\ UNCHANGED stream
      /\ UNCHANGED <<folder, hdrLast>>
      /\ UNCHANGED <<arrived, born>>
  BY DEF state_full, server, stream, disk, memory, args, history, bounds
<1>2. Ages
  BY <1>1, SameAge
<1>3. ServerRight' /\ StreamRight' /\ FolderRight'
  BY <1>1, <1>2, Stays
<1>4. MapsRight'
  <2>1. /\ UNCHANGED <<map, localLast>> /\ mapBuf' \in {mapBuf, <<>>}
        /\ mappings' \in {mappings, mappings \o mapBuf, LinesOf(map)}
    BY DEF state_full
  <2> QED
    BY <1>2, <2>1, FlushTypes
<1>5. PlacesRight'
  <2>1. /\ lastUid' \in {lastUid, last} /\ stateUid' = Unreadable
        /\ UNCHANGED <<last, start, todo, got, msgno, nmsgs, uidMap, number>>
    BY DEF state_full, memory, args
  <2> QED
    BY <1>1, <2>1 DEF TypeInv, PlacesRight
<1>6. CountersRight'
  BY DEF state_full, Faulty, TypeInv, CountersRight, server, stream, disk, memory, args, history, bounds
<1>7. Control'
  BY <1>1 DEF TypeInv, Control, state_full, Faulty, Labels, Downloading, Syncing, server, stream, disk, memory, args, history, bounds
<1> QED
  BY <1>3, <1>4, <1>5, <1>6, <1>7 DEF TypeInv

LEMMA u_netTypes ==
  ASSUME TypeInv, u_net
  PROVE  TypeInv'
<1>1. /\ UNCHANGED <<server, born>>
      /\ UNCHANGED <<folder, hdrLast>>
      /\ UNCHANGED <<mappings, mapBuf, map, localLast>>
      /\ UNCHANGED <<stateUid, lastUid, last, start, todo, got, msgno, nmsgs, uidMap, number>>
      /\ UNCHANGED bounds
      /\ UNCHANGED <<arrived, born>>
      /\ Len(folder') = Len(folder)
  BY DEF u_net, server, stream, disk, memory, args, history, bounds
<1>2. Ages
  BY <1>1, SameAge
<1>3. ServerRight' /\ FolderRight' /\ MapsRight' /\ PlacesRight' /\ CountersRight'
  BY <1>1, <1>2, Stays
<1>4. StreamRight'
  BY <1>1 DEF u_net, TypeInv, StreamRight
<1>5. Control'
  BY <1>1 DEF TypeInv, Control, u_net, Faulty, Labels, Downloading, Syncing, server, stream, disk, memory, args, history, bounds
<1> QED
  BY <1>3, <1>4, <1>5 DEF TypeInv

LEMMA i_stateTypes ==
  ASSUME TypeInv, i_state
  PROVE  TypeInv'
<1>1. /\ UNCHANGED <<server, born>>
      /\ UNCHANGED stream
      /\ UNCHANGED <<folder, hdrLast>>
      /\ UNCHANGED bounds
      /\ UNCHANGED <<arrived, born>>
  BY DEF i_state, server, stream, disk, memory, args, history, bounds
<1>2. Ages
  BY <1>1, SameAge
<1>3. ServerRight' /\ StreamRight' /\ FolderRight' /\ CountersRight'
  BY <1>1, <1>2, Stays
<1>4. MapsRight'
  <2>1. /\ UNCHANGED <<map, localLast>> /\ mapBuf' \in {mapBuf, <<>>}
        /\ mappings' \in {mappings, mappings \o mapBuf, LinesOf(map)}
    BY DEF i_state
  <2> QED
    BY <1>2, <2>1, FlushTypes
<1>5. PlacesRight'
  BY <1>1 DEF i_state, TypeInv, PlacesRight, memory, args
<1>6. Control'
  BY <1>1 DEF TypeInv, Control, i_state, Faulty, Labels, Downloading, Syncing, server, stream, disk, memory, args, history, bounds
<1> QED
  BY <1>3, <1>4, <1>5, <1>6 DEF TypeInv

LEMMA u_checkTypes ==
  ASSUME TypeInv, u_check
  PROVE  TypeInv'
<1>1. /\ UNCHANGED <<server, born>>
      /\ UNCHANGED stream
      /\ UNCHANGED <<folder, hdrLast>>
      /\ UNCHANGED <<stateUid, lastUid, last, start, todo, got, msgno, nmsgs, uidMap, number>>
      /\ UNCHANGED bounds
      /\ UNCHANGED <<arrived, born>>
      /\ Len(folder') = Len(folder)
  BY DEF u_check, server, stream, disk, memory, args, history, bounds
<1>2. Ages
  BY <1>1, SameAge
<1>3. ServerRight' /\ StreamRight' /\ FolderRight' /\ PlacesRight' /\ CountersRight'
  BY <1>1, <1>2, Stays
<1>4. MapsRight'
  <2>1. (CheckDeletion \/ UNCHANGED map) /\ UNCHANGED <<mappings, mapBuf, localLast>>
    BY DEF u_check
  <2> QED
    BY <1>1, <1>2, <2>1, DeletionTypes
<1>5. Control'
  BY <1>1 DEF TypeInv, Control, u_check, Faulty, Labels, Downloading, Syncing, server, stream, disk, memory, args, history, bounds
<1> QED
  BY <1>3, <1>4, <1>5 DEF TypeInv

LEMMA u_mapTypes ==
  ASSUME TypeInv, u_map
  PROVE  TypeInv'
<1>1. /\ UNCHANGED <<server, born>>
      /\ UNCHANGED stream
      /\ UNCHANGED <<folder, hdrLast>>
      /\ UNCHANGED <<stateUid, lastUid, last, start, todo, got, msgno, nmsgs, uidMap, number>>
      /\ UNCHANGED bounds
      /\ UNCHANGED <<arrived, born>>
      /\ Len(folder') = Len(folder)
  BY DEF u_map, server, stream, disk, memory, args, history, bounds
<1>2. Ages
  BY <1>1, SameAge
<1>3. ServerRight' /\ StreamRight' /\ FolderRight' /\ PlacesRight' /\ CountersRight'
  BY <1>1, <1>2, Stays
<1>4. MapsRight'
  <2>1. /\ UNCHANGED <<map, localLast>> /\ mapBuf' \in {mapBuf, <<>>}
        /\ mappings' \in {mappings, mappings \o mapBuf, LinesOf(map)}
    BY DEF u_map, WriteMappings
  <2> QED
    BY <1>2, <2>1, FlushTypes
<1>5. Control'
  BY <1>1 DEF TypeInv, Control, u_map, Faulty, Labels, Downloading, Syncing, server, stream, disk, memory, args, history, bounds
<1> QED
  BY <1>3, <1>4, <1>5 DEF TypeInv

LEMMA u_localTypes ==
  ASSUME TypeInv, u_local
  PROVE  TypeInv'
<1>1. /\ UNCHANGED <<server, born>> /\ UNCHANGED bounds /\ UNCHANGED <<arrived, born>>
      /\ UNCHANGED <<view, uidLast, mappings, stateUid, session, map, mapBuf, lastUid>> /\ Idle
  BY DEF u_local, server, history
<1>2. Ages
  BY <1>1, SameAge
<1>3. FolderRight' /\ MapsRight' /\ number' = Len(folder') /\ Len(folder') \in Nat
  <2>1. CASE ExpungeLocal
    BY <1>1, <1>2, <2>1, ExpungeTypes
  <2>2. CASE Ping(folder) /\ number' = Len(folder)
    <3>1. Keeps /\ (localLast' = localLast \/ localLast' = LastGiven(folder', hdrLast'))
      BY <2>2, PingKeeps DEF TypeInv
    <3>2. /\ FolderRight' /\ Len(folder') = Len(folder) /\ localLast' \in Nat
          /\ Len(folder) \in Nat
      BY <1>2, <3>1, KeepsTypes DEF TypeInv, MapsRight
    <3> QED
      BY <1>1, <2>2, <3>2 DEF TypeInv, MapsRight
  <2> QED
    BY <2>1, <2>2 DEF u_local
<1>4. StreamRight'
  BY <1>1 DEF TypeInv, StreamRight
<1>5. PlacesRight'
  BY <1>1, <1>3, LastUids DEF TypeInv, PlacesRight, Idle
<1>6. Control'
  BY <1>1 DEF u_local, TypeInv, Control, Idle, Labels, Downloading, Syncing
<1> QED
  BY <1>1, <1>2, <1>3, <1>4, <1>5, <1>6, Stays DEF TypeInv

LEMMA InsertTypes ==
  ASSUME TypeInv, Insert
  PROVE  TypeInv'
<1>1. /\ UNCHANGED stream /\ UNCHANGED <<server, mappings, mapBuf, map, stateUid, session>>
      /\ UNCHANGED <<lastUid, last, start, todo, got, nmsgs, uidMap, number, ret>>
      /\ born' = born + 1 /\ msgno' = localLast + 1 /\ pc = "idle" /\ session = "open"
      /\ pc' \in {"i_upload", "u_start"} /\ arrived' = arrived /\ master' = master
  BY DEF Insert, Issue, server
<1>2. Ages
  BY <1>1 DEF TypeInv, ServerRight, Ages
<1>3. ServerRight'
  BY <1>1 DEF TypeInv, ServerRight
<1> DEFINE o == [uid |-> 0, msg |-> born + 1, flags |-> {}]
           g == Append(folder, o)
<1>4. /\ folder \in Seq(Message) /\ o \in Message /\ o.uid = 0 /\ o.msg = born + 1
      /\ born \in Nat /\ g \in Seq(Message) /\ Len(g) = Len(folder) + 1 /\ Len(folder) \in Nat
      /\ hdrLast \in Nat /\ UidsRight(folder, hdrLast)
  <2>1. born \in Nat /\ folder \in Seq(Message) /\ hdrLast \in Nat /\ UidsRight(folder, hdrLast)
    BY DEF TypeInv, ServerRight, FolderRight
  <2>2. o \in Message /\ o.uid = 0 /\ o.msg = born + 1
    BY <2>1 DEF Message
  <2> HIDE DEF o
  <2> QED
    BY <2>1, <2>2
<1>5. Ping(g) \/ (folder' = g /\ UNCHANGED <<hdrLast, localLast>>)
  BY DEF Insert
<1> HIDE DEF o
<1>6. UidsRight(g, hdrLast) /\ LastGiven(g, hdrLast) \in Nat
  BY <1>4, Appended, LastGivenType
<1> HIDE DEF g
<1>7. /\ folder' \in Seq(Message) /\ hdrLast' \in Nat /\ UidsRight(folder', hdrLast')
      /\ Len(folder') = Len(g) /\ \A i \in 1 .. Len(g) : folder'[i].msg = g[i].msg
      /\ localLast' \in Nat
  <2>1. CASE folder' = g /\ UNCHANGED <<hdrLast, localLast>>
    BY <1>4, <1>6, <2>1 DEF TypeInv, MapsRight
  <2>2. CASE Parse(g)
    <3>1. folder' = Numbered(g, hdrLast) /\ hdrLast' = LastGiven(g, hdrLast) /\ localLast' = hdrLast'
      BY <2>2, ParsedNumbered DEF Parse, LastGiven
    <3>2. Numbers(folder', hdrLast', g, hdrLast)
      BY <1>4, <1>6, <3>1, Numbering
    <3>3. /\ folder' \in Seq(Message) /\ hdrLast' \in Nat /\ Ascends(folder', hdrLast')
          /\ Len(folder') = Len(g) /\ \A i \in 1 .. Len(g) : folder'[i].msg = g[i].msg
      BY <3>2 DEF Numbers
    <3> QED
      BY <3>1, <3>3, Ascending
  <2> QED
    BY <1>5, <2>1, <2>2 DEF Ping
<1>8. \A i \in 1 .. Len(g) : g[i].msg \in 1 .. born'
  <2>1. \A i \in 1 .. Len(g) : g[i] = IF i = Len(folder) + 1 THEN o ELSE folder[i]
    BY <1>4 DEF g
  <2>2. \A i \in 1 .. Len(folder) : folder[i].msg \in 1 .. born
    BY DEF TypeInv, FolderRight
  <2> QED
    BY <1>1, <1>4, <2>1, <2>2
<1>9. FolderRight' /\ MapsRight' /\ PlacesRight'
  <2>1. FolderRight'
    BY <1>7, <1>8 DEF FolderRight
  <2>2. MapsRight'
    BY <1>1, <1>7 DEF TypeInv, MapsRight
  <2>3. localLast \in Nat
    BY DEF TypeInv, MapsRight
  <2> QED
    BY <1>1, <1>4, <1>7, <2>1, <2>2, <2>3 DEF TypeInv, PlacesRight
<1>10. StreamRight'
  BY <1>1, <1>2, Stays DEF TypeInv, StreamRight, stream
<1>11. CountersRight'
  BY DEF Insert, Issue, TypeInv, CountersRight
<1>12. Control'
  BY <1>1, <1>4, <1>7 DEF TypeInv, Control, Labels, Downloading, Syncing
<1> QED
  BY <1>3, <1>9, <1>10, <1>11, <1>12 DEF TypeInv

LEMMA FatalTypes ==
  ASSUME TypeInv, s_fatal \/ i_fatal
  PROVE  TypeInv'
BY DieTypes DEF s_fatal, i_fatal

LEMMA TypeInit == Init => TypeInv
<1> SUFFICES ASSUME Init PROVE TypeInv
  OBVIOUS
<1>1. DOMAIN <<>> = {} /\ <<>> \in [{} -> SUBSET Flags] /\ Len(<<>>) = 0
      /\ <<>> \in Seq(Line) /\ <<>> \in Seq(Nat) /\ <<>> \in Seq(Message)
  OBVIOUS
<1>2. /\ arrived = <<>> /\ master = <<>> /\ view = <<>> /\ folder = <<>> /\ mappings = <<>>
      /\ mapBuf = <<>> /\ map = <<>>
  BY DEF Init
<1>3. ServerRight /\ StreamRight
  BY <1>1, <1>2 DEF Init, ServerRight, StreamRight
<1>4. FolderRight
  BY <1>1, <1>2 DEF Init, FolderRight, UidsRight
<1>5. LinesTo(<<>>, 0) /\ MapTo(<<>>, 0)
  <2>1. <<>> \in [{} -> 1 .. 0]
    OBVIOUS
  <2> QED
    BY <1>1, <2>1, FS_EmptySet DEF LinesTo, MapTo
<1>6. MapsRight
  BY <1>1, <1>2, <1>5 DEF Init, MapsRight
<1>7. PlacesRight /\ CountersRight
  BY <1>1, <1>2 DEF Init, PlacesRight, CountersRight
<1>8. Control
  BY DEF Init, Control, Labels, Downloading
<1> QED
  BY <1>3, <1>4, <1>6, <1>7, <1>8 DEF TypeInv

LEMMA TypeStays ==
  ASSUME TypeInv, UNCHANGED vars
  PROVE  TypeInv'
<1>1. /\ UNCHANGED <<server, born>> /\ UNCHANGED stream /\ UNCHANGED <<folder, hdrLast>>
      /\ UNCHANGED <<mappings, mapBuf, map, localLast>> /\ UNCHANGED bounds
      /\ UNCHANGED <<stateUid, lastUid, last, start, todo, got, msgno, nmsgs, uidMap, number>>
      /\ UNCHANGED <<arrived, born>> /\ Len(folder') = Len(folder)
  BY DEF vars, server, disk, memory, args, history
<1>2. Ages
  BY <1>1, SameAge
<1>3. Control'
  BY <1>1 DEF TypeInv, Control, vars, memory, args
<1> QED
  BY <1>1, <1>2, <1>3, Stays DEF TypeInv

\* A step of the world, of the user, or of the program.
LEMMA TypeStep == TypeInv /\ [Next]_vars => TypeInv'
<1> SUFFICES ASSUME TypeInv, [Next]_vars PROVE TypeInv'
  OBVIOUS
<1>1. CASE World
  BY <1>1, DeliverTypes, OtherClientTypes, LoseTypes, CrashTypes, CrashWritingTypes DEF World
<1>2. CASE User
  BY <1>2, OpenTypes, NetSyncTypes, GoOnlineTypes, GoOfflineTypes, SyncRefusedTypes,
     StartUpdateTypes, SetFlagTypes, CloseTypes, InsertTypes DEF User
<1>3. CASE c_local \/ c_map \/ d_search \/ d_next \/ d_done \/ d_full \/ d_append \/ d_rename
  BY <1>3, c_localTypes, c_mapTypes, d_searchTypes, d_nextTypes, d_doneTypes, d_fullTypes,
     d_appendTypes, d_renameTypes
<1>4. CASE s_delete \/ s_map \/ s_abort \/ s_flags \/ s_unlink \/ s_download
             \/ s_flagged \/ s_fatal \/ s_upload \/ s_search \/ s_flush \/ s_state \/ s_end
  BY <1>4, s_deleteTypes, s_mapTypes, s_abortTypes, s_flagsTypes, s_unlinkTypes,
     s_downloadTypes, s_flaggedTypes, FatalTypes, s_uploadTypes, s_searchTypes, s_flushTypes,
     s_stateTypes, s_endTypes
<1>5. CASE u_start \/ u_state \/ state_full \/ u_net \/ u_check \/ u_map \/ u_local
  BY <1>5, u_startTypes, u_stateTypes, state_fullTypes, u_netTypes, u_checkTypes, u_mapTypes,
     u_localTypes
<1>6. CASE i_upload \/ i_search \/ i_ping \/ i_fatal \/ i_state
  BY <1>6, i_uploadTypes, i_searchTypes, i_pingTypes, FatalTypes, i_stateTypes
<1>7. CASE UNCHANGED vars
  BY <1>7, TypeStays
<1> QED
  BY <1>1, <1>2, <1>3, <1>4, <1>5, <1>6, <1>7 DEF Next, Steps

\* Every variable has its type, and the program is where it can be.
THEOREM TypesHold == Spec => []TypeInv
<1>1. Init => TypeInv
  BY TypeInit
<1>2. TypeInv /\ [Next]_vars => TypeInv'
  BY TypeStep
<1> QED
  BY <1>1, <1>2, PTL DEF Spec

-----------------------------------------------------------------------------
(* What the mappings say is right, while the disk has room and the user     *)
(* inserts no message himself.                                              *)

Local == Numbered(folder, hdrLast)

\* The map, but for the message that is about to be put into it.
Settled == IF pc = "d_rename" THEN Without(map, {localLast}) ELSE map

Sound ==
  /\ MapRight(Local, arrived, Settled)
  /\ LinesRight(Local, arrived, mappings) /\ AllRight(Local, arrived, mapBuf)
  /\ \A j \in 1 .. Len(mapBuf) : mapBuf[j][2] <= hdrLast
  /\ session # "closed" =>
       localLast = LastGiven(folder, hdrLast) + (IF pc = "d_append" THEN 1 ELSE 0)
  /\ pc = "d_append" =>
       /\ 1 <= Len(mappings) /\ mappings[Len(mappings)] = <<Min(todo), localLast>>
  /\ pc = "d_rename" =>
       /\ 1 <= Len(Local) /\ Local[Len(Local)].uid = localLast
       /\ Stands(arrived, Min(todo), Local[Len(Local)])

NoInsert == pc \notin {"i_upload", "i_search", "i_ping", "i_state"} /\ ret # "i_state"

SoundInv == NoInsert /\ (fulls = 0 => Sound)

LEMMA SameLeads ==
  ASSUME TypeInv, arrived' = arrived
  PROVE  Leads(arrived, arrived')
BY DEF TypeInv, ServerRight, Leads

\* What is right of the local messages stays so when some go and the master grows.
LEMMA Carried ==
  ASSUME TypeInv, TypeInv', Loses, Leads(arrived, arrived'), NEW x
  PROVE  /\ MapRight(Local, arrived, x) => MapRight(Local', arrived', x)
         /\ LinesRight(Local, arrived, x) => LinesRight(Local', arrived', x)
         /\ AllRight(Local, arrived, x) => AllRight(Local', arrived', x)
         /\ hdrLast \in Nat /\ hdrLast' \in Nat /\ hdrLast <= hdrLast'
         /\ LastGiven(folder', hdrLast') = LastGiven(folder, hdrLast)
<1>1. arrived \in Seq(Nat) /\ arrived' \in Seq(Nat)
  BY DEF TypeInv, ServerRight
<1>2. /\ Within(Local', Local) /\ LastGiven(folder', hdrLast') = LastGiven(folder, hdrLast)
      /\ hdrLast <= hdrLast'
  BY DEF Loses, Fewer, Local
<1>3. hdrLast \in Nat /\ hdrLast' \in Nat
  BY DEF TypeInv, FolderRight
<1> QED
  BY <1>1, <1>2, <1>3, RightWithin

\* The local messages: their uids ascend up to the last one given.
LEMMA LocalRight ==
  TypeInv => /\ Numbers(Local, LastGiven(folder, hdrLast), folder, hdrLast)
             /\ Local \in Seq(Message) /\ Len(Local) = Len(folder) /\ Len(Local) \in Nat
             /\ LastGiven(folder, hdrLast) \in Nat
             /\ Ascends(Local, LastGiven(folder, hdrLast))
             /\ \A i \in 1 .. Len(Local) : Local[i].uid \in Nat /\ Local[i].msg = folder[i].msg
<1> SUFFICES ASSUME TypeInv
             PROVE  /\ Numbers(Local, LastGiven(folder, hdrLast), folder, hdrLast)
                    /\ Local \in Seq(Message) /\ Len(Local) = Len(folder) /\ Len(Local) \in Nat
                    /\ LastGiven(folder, hdrLast) \in Nat
                    /\ Ascends(Local, LastGiven(folder, hdrLast))
                    /\ \A i \in 1 .. Len(Local) : Local[i].uid \in Nat /\ Local[i].msg = folder[i].msg
  OBVIOUS
<1>1. Numbers(Local, LastGiven(folder, hdrLast), folder, hdrLast)
  BY Numbering DEF TypeInv, FolderRight, Local
<1>2. /\ Local \in Seq(Message) /\ Len(Local) = Len(folder)
      /\ LastGiven(folder, hdrLast) \in Nat
      /\ Ascends(Local, LastGiven(folder, hdrLast))
      /\ \A i \in 1 .. Len(folder) : Local[i].msg = folder[i].msg
  BY <1>1 DEF Numbers
<1>3. Len(Local) \in Nat /\ \A i \in 1 .. Len(Local) : Local[i].uid \in Nat
  BY <1>2, MessageFields
<1> QED
  BY <1>1, <1>2, <1>3

\* A step that leaves the local copy and what is said of it alone.
LEMMA SoundSame ==
  ASSUME TypeInv, TypeInv', Sound, Leads(arrived, arrived'),
         UNCHANGED <<folder, hdrLast, map, mappings, mapBuf, session, localLast>>,
         pc \in {"d_append", "d_rename"} \/ pc' \in {"d_append", "d_rename"} =>
           UNCHANGED <<pc, todo>>
  PROVE  Sound'
<1>1. Loses
  BY StayKeeps, KeepsLoses DEF TypeInv
<1>2. Local' = Local
  BY DEF Local
<1>3. Settled' = Settled
  BY DEF Settled
<1>4. MapRight(Local', arrived', Settled')
  BY <1>1, <1>3, Carried DEF Sound
<1>5. LinesRight(Local', arrived', mappings') /\ AllRight(Local', arrived', mapBuf')
  BY <1>1, Carried DEF Sound
<1>6. pc' = "d_rename" =>
        /\ 1 <= Len(Local') /\ Local'[Len(Local')].uid = localLast'
        /\ Stands(arrived', Min(todo'), Local'[Len(Local')])
  <2>1. SUFFICES ASSUME pc' = "d_rename"
                 PROVE  /\ 1 <= Len(Local) /\ Local[Len(Local)].uid = localLast
                        /\ Stands(arrived', Min(todo), Local[Len(Local)])
    BY <1>2, <2>1
  <2>2. /\ 1 <= Len(Local) /\ Local[Len(Local)].uid = localLast
        /\ Stands(arrived, Min(todo), Local[Len(Local)])
    BY <2>1 DEF Sound
  <2>3. arrived \in Seq(Nat) /\ arrived' \in Seq(Nat)
    BY DEF TypeInv, ServerRight
  <2> QED
    BY <2>2, <2>3, StandsOn
<1> QED
  BY <1>4, <1>5, <1>6 DEF Sound

\* A step that changes the local copy, and puts nothing into it.
LEMMA SoundLoses ==
  ASSUME TypeInv, TypeInv', Sound, Loses, UNCHANGED <<arrived, map, mappings, mapBuf, session>>,
         pc \notin {"d_append", "d_rename"}, pc' \notin {"d_append", "d_rename"},
         localLast' = LastGiven(folder', hdrLast') \/ localLast' = localLast
  PROVE  Sound'
<1>1. Leads(arrived, arrived')
  BY SameLeads
<1>2. Settled = map /\ Settled' = map
  BY DEF Settled
<1>3. MapRight(Local', arrived', Settled')
  BY <1>1, <1>2, Carried DEF Sound
<1>4. LinesRight(Local', arrived', mappings') /\ AllRight(Local', arrived', mapBuf')
  BY <1>1, Carried DEF Sound
<1>5. \A j \in 1 .. Len(mapBuf') : mapBuf'[j][2] <= hdrLast'
  <2>1. hdrLast \in Nat /\ hdrLast' \in Nat /\ hdrLast <= hdrLast'
    BY <1>1, Carried
  <2>2. \A j \in 1 .. Len(mapBuf) : mapBuf[j] \in Line
    BY DEF TypeInv, MapsRight, LinesTo
  <2>3. \A j \in 1 .. Len(mapBuf) : mapBuf[j][2] \in Nat
    BY <2>2 DEF Line
  <2> QED
    BY <2>1, <2>3 DEF Sound
<1>6. session' # "closed" => localLast' = LastGiven(folder', hdrLast')
  <2>1. /\ LastGiven(folder', hdrLast') = LastGiven(folder, hdrLast)
        /\ LastGiven(folder, hdrLast) \in Nat
    BY <1>1, Carried, LocalRight
  <2> QED
    BY <2>1 DEF Sound
<1>7. LastGiven(folder', hdrLast') \in Nat
  BY <1>1, Carried, LocalRight
<1> QED
  BY <1>3, <1>4, <1>5, <1>6, <1>7 DEF Sound

\* Nothing of the memory is left; stdio may have written its buffer.
LEMMA SoundGone ==
  ASSUME TypeInv, TypeInv', Sound, Gone, UNCHANGED <<arrived, folder, hdrLast>>,
         \/ mappings' \in {mappings, mappings \o mapBuf}
         \/ mappings' = LinesOf(map) /\ pc \notin {"d_append", "d_rename"}
  PROVE  Sound'
<1>1. Local' = Local
  BY DEF Local
<1>2. /\ pc' = "idle" /\ map' = <<>> /\ mapBuf' = <<>> /\ session' = "closed"
      /\ DOMAIN <<>> = {} /\ Len(<<>>) = 0
  BY DEF Gone, Idle
<1>3. Settled' = <<>>
  BY <1>2 DEF Settled
<1>4. MapRight(Local', arrived', Settled') /\ AllRight(Local', arrived', mapBuf')
  BY <1>2, <1>3 DEF MapRight, AllRight
<1>5. LinesRight(Local, arrived, mappings')
  <2>1. /\ mappings \in Seq(Line) /\ mapBuf \in Seq(Line) /\ MapTo(map, Len(arrived))
        /\ Len(arrived) \in Nat
    BY LastUids DEF TypeInv, MapsRight, LinesTo
  <2>2. LinesRight(Local, arrived, mappings \o mapBuf)
    BY <2>1, JoinRight DEF Sound
  <2>3. CASE mappings' = LinesOf(map) /\ pc \notin {"d_append", "d_rename"}
    <3>1. MapRight(Local, arrived, map)
      BY <2>3 DEF Sound, Settled
    <3>2. AllRight(Local, arrived, LinesOf(map))
      BY <2>1, <3>1, LinesOfMap
    <3> QED
      BY <2>3, <3>2, AllLinesRight
  <2> QED
    BY <2>2, <2>3 DEF Sound
<1>6. \A j \in 1 .. Len(mapBuf') : mapBuf'[j][2] <= hdrLast'
  BY <1>2
<1> QED
  BY <1>1, <1>2, <1>4, <1>5, <1>6 DEF Sound

\* A step that takes lines out of the map, or moves lines to the file.
LEMMA SoundLines ==
  ASSUME TypeInv, TypeInv', Sound, UNCHANGED <<arrived, folder, hdrLast, session, localLast>>,
         pc \notin {"d_append", "d_rename"}, pc' \notin {"d_append", "d_rename"},
         map' = map \/ \E X : map' = Without(map, X),
         \/ mappings' = mappings /\ mapBuf' = mapBuf
         \/ mappings' = mappings \o mapBuf /\ mapBuf' = <<>>
         \/ mappings' = LinesOf(map) /\ mapBuf' = mapBuf
  PROVE  Sound'
<1>1. Local' = Local
  BY DEF Local
<1>2. Settled = map /\ Settled' = map'
  BY DEF Settled
<1>3. /\ mappings \in Seq(Line) /\ mapBuf \in Seq(Line) /\ MapTo(map, Len(arrived))
      /\ Len(arrived) \in Nat
  BY LastUids DEF TypeInv, MapsRight, LinesTo
<1>4. MapRight(Local, arrived, map)
  BY <1>2 DEF Sound
<1>5. MapRight(Local', arrived', Settled')
  BY <1>1, <1>2, <1>3, <1>4, WithoutTo
<1>6. LinesRight(Local, arrived, mappings')
  <2>1. LinesRight(Local, arrived, mappings \o mapBuf)
    BY <1>3, JoinRight DEF Sound
  <2>2. AllRight(Local, arrived, LinesOf(map))
    BY <1>3, <1>4, LinesOfMap
  <2>3. LinesRight(Local, arrived, LinesOf(map))
    BY <2>2, AllLinesRight
  <2> QED
    BY <2>1, <2>3 DEF Sound
<1>7. /\ AllRight(Local, arrived, mapBuf')
      /\ \A j \in 1 .. Len(mapBuf') : mapBuf'[j][2] <= hdrLast'
  <2>1. CASE mapBuf' = mapBuf
    BY <2>1 DEF Sound
  <2>2. CASE mapBuf' = <<>>
    BY <2>2 DEF AllRight
  <2> QED
    BY <2>1, <2>2
<1> QED
  BY <1>1, <1>5, <1>6, <1>7 DEF Sound

\* The line of the message that is about to be appended.
LEMMA SoundNext ==
  ASSUME TypeInv, TypeInv', Sound, d_next, pc' = "d_append"
  PROVE  Sound'
<1> DEFINE u == Min(todo)
           e == <<u, localLast'>>
           L == LastGiven(folder, hdrLast)
<1>1. /\ UNCHANGED <<folder, hdrLast, arrived, map, session, todo>>
      /\ localLast' = localLast + 1 /\ mapBuf' = <<>>
      /\ mappings' = mappings \o Append(mapBuf, e) /\ pc = "d_next" /\ u \in DOMAIN master
  BY DEF d_next, server, WriteLine
<1>2. Local' = Local /\ Settled = map /\ Settled' = map
  BY <1>1 DEF Local, Settled
<1>3. L \in Nat /\ localLast = L /\ localLast' = L + 1 /\ session # "closed"
  <2>1. session # "closed"
    BY <1>1 DEF TypeInv, Control
  <2>2. L \in Nat
    BY LocalRight
  <2> QED
    BY <1>1, <2>1, <2>2 DEF Sound
<1>4. /\ mappings \in Seq(Line) /\ mapBuf \in Seq(Line) /\ e \in Line /\ e[2] = L + 1
  BY <1>1, <1>3 DEF TypeInv, MapsRight, LinesTo, ServerRight, Line
<1> HIDE DEF u, e, L
<1> DEFINE m == mappings \o mapBuf
<1>5. m \in Seq(Line) /\ LinesRight(Local, arrived, m)
  BY <1>4, JoinRight DEF Sound
<1>6. mappings' = Append(m, e)
  BY <1>1, <1>4
<1>7. \A i \in 1 .. Len(Local) : Local[i].uid # e[2]
  BY <1>3, <1>4, LocalRight DEF Ascends, L
<1> HIDE DEF m
<1>8. LinesRight(Local, arrived, mappings')
  BY <1>4, <1>5, <1>6, <1>7, OtherLine
<1>9. 1 <= Len(mappings') /\ mappings'[Len(mappings')] = e
  BY <1>4, <1>5, <1>6
<1>10. Len(mapBuf') = 0
  BY <1>1
<1> QED
  BY <1>1, <1>2, <1>3, <1>8, <1>9, <1>10 DEF Sound, AllRight, e, u, L

\* The message gets the uid that its line gives it.
LEMMA SoundAppend ==
  ASSUME TypeInv, TypeInv', Sound, d_append
  PROVE  Sound'
<1> DEFINE n == Len(folder) + 1
           L == LastGiven(folder, hdrLast)
           u == Min(todo)
<1>1. /\ UNCHANGED <<hdrLast, arrived, map, mappings, mapBuf, session, todo, localLast>>
      /\ pc = "d_append" /\ pc' = "d_rename"
  BY DEF d_append, server, memory, args
<1>2. u \in 1 .. Len(arrived)
  BY <1>1, FirstTodo
<1>3. PICK o \in Message : o.uid = 0 /\ o.msg = arrived[u] /\ folder' = Append(folder, o)
  BY AppendGains DEF Gains
<1>4. /\ Len(folder) \in Nat /\ LastGiven(folder', hdrLast') = L + 1 /\ Len(Local') = n
      /\ Local'[n].uid = L + 1 /\ Local'[n].msg = arrived[u]
      /\ \A i \in 1 .. Len(folder) : Local'[i] = Local[i]
  <2>1. folder \in Seq(Message) /\ hdrLast \in Nat /\ UidsRight(folder, hdrLast)
    BY DEF TypeInv, FolderRight
  <2>2. hdrLast' = hdrLast
    BY <1>1
  <2> DEFINE g == Append(folder, o)
  <2>3. /\ LastGiven(g, hdrLast) = L + 1 /\ Len(Numbered(g, hdrLast)) = n
        /\ Numbered(g, hdrLast)[n].uid = L + 1 /\ Numbered(g, hdrLast)[n].msg = o.msg
        /\ \A i \in 1 .. Len(folder) : Numbered(g, hdrLast)[i] = Numbered(folder, hdrLast)[i]
    <3>1. g = Append(folder, o) /\ o \in Message /\ o.uid = 0
      BY <1>3
    <3> HIDE DEF g, n, L
    <3>2. OneMore(folder, hdrLast, g, o)
      BY <2>1, <3>1, Appended
    <3> QED
      BY <3>2 DEF OneMore, n, L
  <2>4. /\ Local' = Numbered(g, hdrLast) /\ Local = Numbered(folder, hdrLast)
        /\ LastGiven(folder', hdrLast') = LastGiven(g, hdrLast) /\ Len(folder) \in Nat
    BY <1>3, <2>1, <2>2 DEF Local
  <2> HIDE DEF g, n, L
  <2> QED
    BY <1>3, <2>3, <2>4
<1>5. L \in Nat /\ localLast = L + 1 /\ session # "closed"
  <2>1. session # "closed"
    BY <1>1 DEF TypeInv, Control
  <2>2. L \in Nat
    BY LocalRight
  <2> QED
    BY <1>1, <2>1, <2>2 DEF Sound
<1>6. Stands(arrived, u, Local'[n])
  BY <1>2, <1>4 DEF Stands
<1>7. /\ Len(Local) = Len(folder) /\ \A i \in 1 .. Len(Local) : Local[i].uid \in Nat /\ Local[i].uid <= L
  BY LocalRight DEF Ascends
<1>8. /\ 1 <= Len(mappings) /\ mappings[Len(mappings)][1] = u
      /\ mappings[Len(mappings)][2] = localLast /\ Len(mappings) \in Nat
  BY <1>1 DEF Sound, TypeInv, MapsRight, LinesTo
<1> HIDE DEF L, u, n
<1>9. MapRight(Local', arrived', Settled')
  <2>1. /\ MapRight(Local, arrived, map) /\ DOMAIN Settled' = DOMAIN map \ {localLast}
        /\ \A l \in DOMAIN Settled' : Settled'[l] = map[l]
    BY <1>1 DEF Sound, Settled, Without
  <2>2. SUFFICES ASSUME NEW i \in 1 .. Len(Local'), Local'[i].uid \in DOMAIN Settled'
                 PROVE  Stands(arrived', Settled'[Local'[i].uid], Local'[i])
    BY DEF MapRight
  <2>3. i # n
    BY <1>4, <1>5, <2>1, <2>2
  <2>4. i \in 1 .. Len(folder)
    BY <1>4, <2>2, <2>3 DEF n
  <2> QED
    BY <1>1, <1>4, <1>7, <2>1, <2>2, <2>4 DEF MapRight
<1>10. LinesRight(Local', arrived', mappings')
  <2>1. SUFFICES ASSUME NEW i \in 1 .. Len(Local'), NEW j \in 1 .. Len(mappings),
                        mappings[j][2] = Local'[i].uid, Latest(mappings, j)
                 PROVE  Stands(arrived, mappings[j][1], Local'[i])
    BY <1>1 DEF LinesRight
  <2>2. CASE i = n
    <3>1. mappings[j][2] = mappings[Len(mappings)][2]
      BY <1>4, <1>5, <1>8, <2>1, <2>2
    <3>2. j = Len(mappings)
      <4>1. Len(mappings) \in 1 .. Len(mappings)
        BY <1>8
      <4>2. ~(j < Len(mappings))
        BY <2>1, <3>1, <4>1 DEF Latest
      <4> QED
        BY <1>8, <4>2
    <3> QED
      BY <1>6, <1>8, <2>2, <3>2
  <2>3. CASE i # n
    <3>1. i \in 1 .. Len(folder)
      BY <1>4, <2>3 DEF n
    <3> QED
      BY <1>4, <1>7, <2>1, <3>1 DEF Sound, LinesRight
  <2> QED
    BY <2>2, <2>3
<1>11. AllRight(Local', arrived', mapBuf')
  <2>1. SUFFICES ASSUME NEW i \in 1 .. Len(Local'), NEW j \in 1 .. Len(mapBuf),
                        mapBuf[j][2] = Local'[i].uid
                 PROVE  Stands(arrived, mapBuf[j][1], Local'[i])
    BY <1>1 DEF AllRight
  <2>2. mapBuf[j][2] <= hdrLast /\ hdrLast \in Nat /\ hdrLast <= L
    <3>1. Numbers(Local, L, folder, hdrLast)
      BY LocalRight DEF L
    <3> QED
      BY <3>1 DEF Sound, TypeInv, FolderRight, Numbers
  <2>3. i # n
    BY <1>4, <1>5, <2>1, <2>2
  <2>4. i \in 1 .. Len(folder)
    BY <1>4, <2>3 DEF n
  <2> QED
    BY <1>4, <1>7, <2>1, <2>4 DEF Sound, AllRight
<1>12. /\ 1 <= Len(Local') /\ Local'[Len(Local')].uid = localLast'
       /\ Stands(arrived', Min(todo'), Local'[Len(Local')])
  BY <1>1, <1>4, <1>5, <1>6 DEF n, u
<1> QED
  BY <1>1, <1>4, <1>5, <1>9, <1>10, <1>11, <1>12 DEF Sound

\* The message is put into the map.
LEMMA SoundRename ==
  ASSUME TypeInv, TypeInv', Sound, d_rename
  PROVE  Sound'
<1> DEFINE u == Min(todo)
<1>1. /\ UNCHANGED <<folder, hdrLast, arrived, mappings, mapBuf, session, localLast>>
      /\ pc = "d_rename" /\ pc' = "d_next" /\ map' = Put(map, localLast, u)
  BY DEF d_rename, server
<1>2. Local' = Local /\ Settled = Without(map, {localLast}) /\ Settled' = map'
  BY <1>1 DEF Local, Settled
<1> DEFINE n == Len(Local)
<1>3. /\ n \in Nat /\ 1 <= n /\ Local[n].uid = localLast /\ Stands(arrived, u, Local[n])
      /\ \A i \in 1 .. n : i < n => Local[i].uid < Local[n].uid
      /\ \A i \in 1 .. n : Local[i].uid \in Nat
  BY <1>1, LocalRight DEF Sound, Ascends
<1> HIDE DEF n, u
<1>4. MapRight(Local, arrived, map')
  <2>1. SUFFICES ASSUME NEW i \in 1 .. n, Local[i].uid \in DOMAIN map'
                 PROVE  Stands(arrived, map'[Local[i].uid], Local[i])
    BY DEF MapRight, n
  <2>2. /\ DOMAIN map' = DOMAIN map \cup {localLast} /\ map'[localLast] = u
        /\ \A l \in DOMAIN map \ {localLast} : map'[l] = map[l]
    BY <1>1 DEF Put
  <2>3. CASE i = n
    BY <1>3, <2>2, <2>3
  <2>4. CASE i # n
    <3>1. Local[i].uid # localLast /\ Local[i].uid \in DOMAIN map
      BY <1>3, <2>1, <2>2, <2>4
    <3>2. Local[i].uid \in DOMAIN Settled /\ Settled[Local[i].uid] = map[Local[i].uid]
      BY <1>2, <3>1 DEF Without
    <3> QED
      BY <2>2, <3>1, <3>2 DEF Sound, MapRight, n
  <2> QED
    BY <2>3, <2>4
<1> QED
  BY <1>1, <1>2, <1>4 DEF Sound

\* A message that was uploaded and found is put into the map.
LEMMA SoundSearch ==
  ASSUME TypeInv, TypeInv', Sound, s_search
  PROVE  Sound'
<1> DEFINE m == folder[msgno]
           u == Found(m)
<1>1. /\ UNCHANGED <<folder, hdrLast, arrived, mappings, session, localLast>>
      /\ pc = "s_search" /\ pc' = "s_loop" /\ Uploaded(u, m.uid)
  BY DEF s_search, server, disk
<1>2. Local' = Local /\ Settled = map /\ Settled' = map'
  BY <1>1 DEF Local, Settled
<1>3. CASE u = 0
  <2>1. UNCHANGED <<map, mapBuf>>
    BY <1>1, <1>3 DEF Uploaded
  <2>2. /\ pc \notin {"d_append", "d_rename"} /\ pc' \notin {"d_append", "d_rename"}
    BY <1>1
  <2> QED
    BY <1>1, <2>1, <2>2, SameLeads, SoundSame
<1>4. CASE u # 0
  <2>1. mapBuf' = Append(mapBuf, <<u, m.uid>>) /\ map' = Put(map, m.uid, u)
    BY <1>1, <1>4 DEF Uploaded
  <2>2. u \in 1 .. Len(arrived) /\ arrived[u] = m.msg
    <3>1. u = uidLast + 1 /\ u \in DOMAIN master /\ arrived[u] = m.msg
      BY <1>4 DEF Found
    <3> QED
      BY <3>1 DEF TypeInv, ServerRight
  <2>3. msgno \in 1 .. Len(folder) /\ m \in Message /\ m.uid \in Nat
    BY <1>1, InLoop, LastUids
  <2>4. m.uid <= hdrLast
    BY <2>3 DEF TypeInv, FolderRight, UidsRight
  \* The message with that uid, if it has one yet, is this one.
  <2>5. ASSUME NEW i \in 1 .. Len(Local), Local[i].uid = m.uid
        PROVE  Stands(arrived, u, Local[i])
    <3>1. Numbers(Local, LastGiven(folder, hdrLast), folder, hdrLast) /\ Len(Local) = Len(folder)
          /\ Local[i].uid \in Nat /\ Len(folder) \in Nat
      BY LocalRight
    <3>2. m.uid # 0
      BY <2>5, <3>1 DEF Numbers, Ascends
    <3>3. Local[msgno] = m
      BY <2>3, <3>1, <3>2 DEF Numbers
    <3>4. i = msgno
      <4>1. \A a, b \in 1 .. Len(Local) : a < b => Local[a].uid < Local[b].uid
        BY <3>1 DEF Numbers, Ascends
      <4>2. ~(i < msgno) /\ ~(msgno < i)
        BY <2>3, <2>5, <3>1, <3>3, <4>1
      <4> QED
        BY <2>3, <3>1, <4>2
    <3> QED
      BY <2>2, <3>3, <3>4 DEF Stands
  <2> DEFINE e == <<u, m.uid>>
  <2>6. e \in Line /\ e[1] = u /\ e[2] = m.uid
    BY <2>2, <2>3 DEF Line
  <2>7. mapBuf \in Seq(Line) /\ mapBuf' = Append(mapBuf, e)
    BY <2>1 DEF TypeInv, MapsRight, LinesTo
  <2> DEFINE k == m.uid
  <2>8. k \in Nat /\ k <= hdrLast /\ hdrLast \in Nat /\ e[2] = k /\ map' = Put(map, k, u)
        /\ \A i \in 1 .. Len(Local) : Local[i].uid = k => Stands(arrived, u, Local[i])
    BY <2>1, <2>3, <2>4, <2>5, <2>6 DEF TypeInv, FolderRight
  <2> HIDE DEF e, u, m, k
  <2>9. /\ Len(mapBuf) \in Nat /\ Len(mapBuf') = Len(mapBuf) + 1
        /\ \A j \in 1 .. Len(mapBuf') : mapBuf'[j] = IF j = Len(mapBuf) + 1 THEN e ELSE mapBuf[j]
    BY <2>6, <2>7
  <2>10. AllRight(Local, arrived, mapBuf')
    <3>1. SUFFICES ASSUME NEW i \in 1 .. Len(Local), NEW j \in 1 .. Len(mapBuf'),
                          mapBuf'[j][2] = Local[i].uid
                   PROVE  Stands(arrived, mapBuf'[j][1], Local[i])
      BY DEF AllRight
    <3>2. CASE j = Len(mapBuf) + 1
      BY <2>6, <2>8, <2>9, <3>1, <3>2
    <3>3. CASE j # Len(mapBuf) + 1
      <4>1. j \in 1 .. Len(mapBuf) /\ mapBuf'[j] = mapBuf[j]
        BY <2>9, <3>3
      <4> QED
        BY <3>1, <4>1 DEF Sound, AllRight
    <3> QED
      BY <3>2, <3>3
  <2>11. \A j \in 1 .. Len(mapBuf') : mapBuf'[j][2] <= hdrLast
    <3>1. SUFFICES ASSUME NEW j \in 1 .. Len(mapBuf') PROVE mapBuf'[j][2] <= hdrLast
      OBVIOUS
    <3>2. CASE j = Len(mapBuf) + 1
      BY <2>8, <2>9, <3>2
    <3>3. CASE j # Len(mapBuf) + 1
      <4>1. j \in 1 .. Len(mapBuf) /\ mapBuf'[j] = mapBuf[j]
        BY <2>9, <3>3
      <4> QED
        BY <4>1 DEF Sound
    <3> QED
      BY <3>2, <3>3
  <2>12. MapRight(Local, arrived, map')
    <3>1. SUFFICES ASSUME NEW i \in 1 .. Len(Local), Local[i].uid \in DOMAIN map'
                   PROVE  Stands(arrived, map'[Local[i].uid], Local[i])
      BY DEF MapRight
    <3>2. /\ DOMAIN map' = DOMAIN map \cup {k} /\ map'[k] = u
          /\ \A l \in DOMAIN map \ {k} : map'[l] = map[l]
      BY <2>8 DEF Put
    <3> QED
      BY <1>2, <2>8, <3>1, <3>2 DEF Sound, MapRight
  <2> QED
    BY <1>1, <1>2, <2>10, <2>11, <2>12 DEF Sound
<1> QED
  BY <1>3, <1>4

\* The folder is opened: the map is what the file says.
LEMMA SoundOpen ==
  ASSUME TypeInv, TypeInv', Sound, NEW s, OpenLocal(s), UNCHANGED <<arrived, born, mappings>>,
         pc \notin {"d_append", "d_rename"}, pc' \notin {"d_append", "d_rename"}
  PROVE  Sound'
<1>1. Ages
  BY SameAge
<1>2. Loses /\ localLast' = LastGiven(folder', hdrLast')
  BY <1>1, OpenLocalTypes, KeepsLoses
<1>3. Leads(arrived, arrived') /\ arrived' = arrived /\ mapBuf' = mapBuf
  BY SameLeads DEF OpenLocal
<1>4. MapRight(Local, arrived, ReadMappings(mappings))
  BY ReadRight DEF Sound, TypeInv, MapsRight, LinesTo
<1>5. Settled' = ReadMappings(mappings)
  BY DEF Settled, OpenLocal
<1>6. MapRight(Local', arrived', Settled')
  BY <1>2, <1>3, <1>4, <1>5, Carried
<1>7. LinesRight(Local', arrived', mappings') /\ AllRight(Local', arrived', mapBuf')
  BY <1>2, <1>3, Carried DEF Sound
<1>8. \A j \in 1 .. Len(mapBuf') : mapBuf'[j][2] <= hdrLast'
  <2>1. hdrLast \in Nat /\ hdrLast' \in Nat /\ hdrLast <= hdrLast'
    BY <1>2, <1>3, Carried
  <2>2. \A j \in 1 .. Len(mapBuf) : mapBuf[j] \in Line
    BY DEF TypeInv, MapsRight, LinesTo
  <2>3. \A j \in 1 .. Len(mapBuf) : mapBuf[j][2] \in Nat
    BY <2>2 DEF Line
  <2> QED
    BY <1>3, <2>1, <2>3 DEF Sound
<1>9. LastGiven(folder', hdrLast') \in Nat
  BY <1>2, <1>3, Carried, LocalRight
<1> QED
  BY <1>2, <1>6, <1>7, <1>8, <1>9 DEF Sound

LEMMA DeliverSound ==
  ASSUME TypeInv, TypeInv', Sound, Deliver
  PROVE  Sound'
<1>1. /\ UNCHANGED <<folder, hdrLast, map, mappings, mapBuf, session, localLast>>
      /\ pc \in {"d_append", "d_rename"} \/ pc' \in {"d_append", "d_rename"} =>
           UNCHANGED <<pc, todo>>
  BY DEF Deliver, server, stream, disk, memory, args, history, bounds
<1>2. Leads(arrived, arrived')
  <2>1. arrived' = Append(arrived, born') /\ arrived \in Seq(Nat)
    BY DEF Deliver, TypeInv, ServerRight
  <2> QED
    BY <2>1 DEF Leads
<1> QED
  BY <1>1, <1>2, SoundSame

LEMMA OtherClientSound ==
  ASSUME TypeInv, TypeInv', Sound, OtherClient
  PROVE  Sound'
<1>1. /\ UNCHANGED <<folder, hdrLast, map, mappings, mapBuf, session, localLast, arrived>>
      /\ pc \in {"d_append", "d_rename"} \/ pc' \in {"d_append", "d_rename"} =>
           UNCHANGED <<pc, todo>>
  BY DEF OtherClient, server, stream, disk, memory, args, history, bounds
<1>2. Leads(arrived, arrived')
  BY <1>1, SameLeads
<1> QED
  BY <1>1, <1>2, SoundSame

LEMMA LoseSound ==
  ASSUME TypeInv, TypeInv', Sound, Lose
  PROVE  Sound'
<1>1. /\ UNCHANGED <<folder, hdrLast, map, mappings, mapBuf, session, localLast, arrived>>
      /\ pc \in {"d_append", "d_rename"} \/ pc' \in {"d_append", "d_rename"} =>
           UNCHANGED <<pc, todo>>
  BY DEF Lose, server, stream, disk, memory, args, history, bounds
<1>2. Leads(arrived, arrived')
  BY <1>1, SameLeads
<1> QED
  BY <1>1, <1>2, SoundSame

LEMMA GoOnlineSound ==
  ASSUME TypeInv, TypeInv', Sound, GoOnline
  PROVE  Sound'
<1>1. /\ UNCHANGED <<folder, hdrLast, map, mappings, mapBuf, session, localLast, arrived>>
      /\ pc \in {"d_append", "d_rename"} \/ pc' \in {"d_append", "d_rename"} =>
           UNCHANGED <<pc, todo>>
  BY DEF GoOnline, Issue, OpenMaster, server, stream, disk, memory, args, history, bounds
<1>2. Leads(arrived, arrived')
  BY <1>1, SameLeads
<1> QED
  BY <1>1, <1>2, SoundSame

LEMMA GoOfflineSound ==
  ASSUME TypeInv, TypeInv', Sound, GoOffline
  PROVE  Sound'
<1>1. /\ UNCHANGED <<folder, hdrLast, map, mappings, mapBuf, session, localLast, arrived>>
      /\ pc \in {"d_append", "d_rename"} \/ pc' \in {"d_append", "d_rename"} =>
           UNCHANGED <<pc, todo>>
  BY DEF GoOffline, Issue, server, stream, disk, memory, args, history, bounds
<1>2. Leads(arrived, arrived')
  BY <1>1, SameLeads
<1> QED
  BY <1>1, <1>2, SoundSame

LEMMA SyncRefusedSound ==
  ASSUME TypeInv, TypeInv', Sound, SyncRefused
  PROVE  Sound'
<1>1. /\ UNCHANGED <<folder, hdrLast, map, mappings, mapBuf, session, localLast, arrived>>
      /\ pc \in {"d_append", "d_rename"} \/ pc' \in {"d_append", "d_rename"} =>
           UNCHANGED <<pc, todo>>
  BY DEF SyncRefused, Issue, server, stream, disk, memory, args, history, bounds
<1>2. Leads(arrived, arrived')
  BY <1>1, SameLeads
<1> QED
  BY <1>1, <1>2, SoundSame

LEMMA StartUpdateSound ==
  ASSUME TypeInv, TypeInv', Sound, NEW o, StartUpdate(o)
  PROVE  Sound'
<1>1. /\ UNCHANGED <<folder, hdrLast, map, mappings, mapBuf, session, localLast, arrived>>
      /\ pc \in {"d_append", "d_rename"} \/ pc' \in {"d_append", "d_rename"} =>
           UNCHANGED <<pc, todo>>
  BY DEF StartUpdate, Issue, server, stream, disk, memory, args, history, bounds
<1>2. Leads(arrived, arrived')
  BY <1>1, SameLeads
<1> QED
  BY <1>1, <1>2, SoundSame

LEMMA d_searchSound ==
  ASSUME TypeInv, TypeInv', Sound, d_search
  PROVE  Sound'
<1>1. UNCHANGED <<folder, hdrLast, map, mappings, mapBuf, session, localLast, arrived>>
  BY DEF d_search, server, disk
<1>2. pc \notin {"d_append", "d_rename"} /\ pc' \notin {"d_append", "d_rename"}
  BY DEF d_search, Return, TypeInv, Control, Downloading
<1> QED
  BY <1>1, <1>2, SameLeads, SoundSame

LEMMA d_doneSound ==
  ASSUME TypeInv, TypeInv', Sound, d_done
  PROVE  Sound'
<1>1. UNCHANGED <<folder, hdrLast, map, mappings, mapBuf, session, localLast, arrived>>
  BY DEF d_done, server, disk
<1>2. pc \notin {"d_append", "d_rename"} /\ pc' \notin {"d_append", "d_rename"}
  BY DEF d_done, Return, TypeInv, Control, Downloading
<1> QED
  BY <1>1, <1>2, SameLeads, SoundSame

LEMMA s_deleteSound ==
  ASSUME TypeInv, TypeInv', Sound, s_delete
  PROVE  Sound'
<1>1. /\ UNCHANGED <<folder, hdrLast, map, mappings, mapBuf, session, localLast, arrived>>
      /\ pc \in {"d_append", "d_rename"} \/ pc' \in {"d_append", "d_rename"} =>
           UNCHANGED <<pc, todo>>
  BY DEF s_delete, server, stream, disk, memory, args, history, bounds
<1>2. Leads(arrived, arrived')
  BY <1>1, SameLeads
<1> QED
  BY <1>1, <1>2, SoundSame

LEMMA s_mapSound ==
  ASSUME TypeInv, TypeInv', Sound, s_map
  PROVE  Sound'
<1>1. /\ UNCHANGED <<folder, hdrLast, map, mappings, mapBuf, session, localLast, arrived>>
      /\ pc \in {"d_append", "d_rename"} \/ pc' \in {"d_append", "d_rename"} =>
           UNCHANGED <<pc, todo>>
  BY DEF s_map, server, stream, disk, memory, args, history, bounds
<1>2. Leads(arrived, arrived')
  BY <1>1, SameLeads
<1> QED
  BY <1>1, <1>2, SoundSame

LEMMA s_flagsSound ==
  ASSUME TypeInv, TypeInv', Sound, s_flags
  PROVE  Sound'
<1>1. /\ UNCHANGED <<folder, hdrLast, map, mappings, mapBuf, session, localLast, arrived>>
      /\ pc \in {"d_append", "d_rename"} \/ pc' \in {"d_append", "d_rename"} =>
           UNCHANGED <<pc, todo>>
  BY DEF s_flags, server, stream, disk, memory, args, history, bounds
<1>2. Leads(arrived, arrived')
  BY <1>1, SameLeads
<1> QED
  BY <1>1, <1>2, SoundSame

LEMMA s_unlinkSound ==
  ASSUME TypeInv, TypeInv', Sound, s_unlink
  PROVE  Sound'
<1>1. /\ UNCHANGED <<folder, hdrLast, map, mappings, mapBuf, session, localLast, arrived>>
      /\ pc \in {"d_append", "d_rename"} \/ pc' \in {"d_append", "d_rename"} =>
           UNCHANGED <<pc, todo>>
  BY DEF s_unlink, server, stream, disk, memory, args, history, bounds
<1>2. Leads(arrived, arrived')
  BY <1>1, SameLeads
<1> QED
  BY <1>1, <1>2, SoundSame

LEMMA s_stateSound ==
  ASSUME TypeInv, TypeInv', Sound, s_state
  PROVE  Sound'
<1>1. /\ UNCHANGED <<folder, hdrLast, map, mappings, mapBuf, session, localLast, arrived>>
      /\ pc \in {"d_append", "d_rename"} \/ pc' \in {"d_append", "d_rename"} =>
           UNCHANGED <<pc, todo>>
  BY DEF s_state, server, stream, disk, memory, args, history, bounds
<1>2. Leads(arrived, arrived')
  BY <1>1, SameLeads
<1> QED
  BY <1>1, <1>2, SoundSame

LEMMA u_netSound ==
  ASSUME TypeInv, TypeInv', Sound, u_net
  PROVE  Sound'
<1>1. /\ UNCHANGED <<folder, hdrLast, map, mappings, mapBuf, session, localLast, arrived>>
      /\ pc \in {"d_append", "d_rename"} \/ pc' \in {"d_append", "d_rename"} =>
           UNCHANGED <<pc, todo>>
  BY DEF u_net, server, stream, disk, memory, args, history, bounds
<1>2. Leads(arrived, arrived')
  BY <1>1, SameLeads
<1> QED
  BY <1>1, <1>2, SoundSame

LEMMA s_downloadSound ==
  ASSUME TypeInv, TypeInv', Sound, s_download
  PROVE  Sound'
<1>1. /\ UNCHANGED <<folder, hdrLast, map, mappings, mapBuf, session, localLast, arrived>>
      /\ pc \in {"d_append", "d_rename"} \/ pc' \in {"d_append", "d_rename"} =>
           UNCHANGED <<pc, todo>>
  BY DEF s_download, Download, server, stream, disk, memory, args, history, bounds
<1>2. Leads(arrived, arrived')
  BY <1>1, SameLeads
<1> QED
  BY <1>1, <1>2, SoundSame

LEMMA u_startSound ==
  ASSUME TypeInv, TypeInv', Sound, u_start
  PROVE  Sound'
<1>1. /\ UNCHANGED <<folder, hdrLast, map, mappings, mapBuf, session, localLast, arrived>>
      /\ pc \in {"d_append", "d_rename"} \/ pc' \in {"d_append", "d_rename"} =>
           UNCHANGED <<pc, todo>>
  BY DEF u_start, Download, server, stream, disk, memory, args, history, bounds
<1>2. Leads(arrived, arrived')
  BY <1>1, SameLeads
<1> QED
  BY <1>1, <1>2, SoundSame

LEMMA s_uploadSound ==
  ASSUME TypeInv, TypeInv', Sound, s_upload
  PROVE  Sound'
<1>1. /\ UNCHANGED <<folder, hdrLast, map, mappings, mapBuf, session, localLast>>
      /\ pc \in {"d_append", "d_rename"} \/ pc' \in {"d_append", "d_rename"} =>
           UNCHANGED <<pc, todo>>
  BY DEF s_upload, Looping, Upload, server, stream, disk, memory, args, history, bounds
<1>2. Leads(arrived, arrived')
  <2>1. arrived' = arrived \/ arrived' = Append(arrived, folder[msgno].msg)
    BY DEF s_upload, Upload
  <2>2. arrived \in Seq(Nat) /\ folder[msgno].msg \in Nat
    <3>1. msgno \in 1 .. Len(folder)
      BY InLoop DEF s_upload
    <3> QED
      BY <3>1, LastUids, MessageFields DEF TypeInv, ServerRight
  <2> QED
    BY <2>1, <2>2, SameLeads DEF Leads
<1> QED
  BY <1>1, <1>2, SoundSame

LEMMA CrashSound ==
  ASSUME TypeInv, TypeInv', Sound, Crash
  PROVE  Sound'
<1>1. /\ Gone /\ UNCHANGED <<arrived, folder, hdrLast>>
      /\ \/ mappings' \in {mappings, mappings \o mapBuf}
         \/ mappings' = LinesOf(map) /\ pc \notin {"d_append", "d_rename"}
  BY DEF Crash, server, disk
<1> QED
  BY <1>1, SoundGone

LEMMA CrashWritingSound ==
  ASSUME TypeInv, TypeInv', Sound, CrashWriting
  PROVE  Sound'
<1>1. /\ Gone /\ UNCHANGED <<arrived, folder, hdrLast>>
      /\ \/ mappings' \in {mappings, mappings \o mapBuf}
         \/ mappings' = LinesOf(map) /\ pc \notin {"d_append", "d_rename"}
  BY DEF CrashWriting, server, disk
<1> QED
  BY <1>1, SoundGone

LEMMA DieSound ==
  ASSUME TypeInv, TypeInv', Sound, Die
  PROVE  Sound'
<1>1. /\ Gone /\ UNCHANGED <<arrived, folder, hdrLast>>
      /\ \/ mappings' \in {mappings, mappings \o mapBuf}
         \/ mappings' = LinesOf(map) /\ pc \notin {"d_append", "d_rename"}
  BY DEF Die, server, disk
<1> QED
  BY <1>1, SoundGone

LEMMA c_mapSound ==
  ASSUME TypeInv, TypeInv', Sound, c_map
  PROVE  Sound'
<1>1. /\ Gone /\ UNCHANGED <<arrived, folder, hdrLast>>
      /\ \/ mappings' \in {mappings, mappings \o mapBuf}
         \/ mappings' = LinesOf(map) /\ pc \notin {"d_append", "d_rename"}
  BY DEF c_map, WriteMappings, server, disk
<1> QED
  BY <1>1, SoundGone

LEMMA s_endSound ==
  ASSUME TypeInv, TypeInv', Sound, s_end
  PROVE  Sound'
<1>1. CASE Gone
  <2>1. UNCHANGED <<arrived, folder, hdrLast, mappings>>
    BY DEF s_end, server, disk
  <2> QED
    BY <1>1, <2>1, SoundGone
<1>2. CASE session # "batch"
  <2>1. /\ UNCHANGED <<folder, hdrLast, map, mappings, mapBuf, session, localLast, arrived>>
        /\ pc \notin {"d_append", "d_rename"} /\ pc' \notin {"d_append", "d_rename"}
    BY <1>2 DEF s_end, Idle, server, disk, memory
  <2> QED
    BY <2>1, SameLeads, SoundSame
<1> QED
  BY <1>1, <1>2 DEF s_end

LEMMA s_abortSound ==
  ASSUME TypeInv, TypeInv', Sound, s_abort
  PROVE  Sound'
<1>1. CASE Gone
  <2>1. UNCHANGED <<arrived, folder, hdrLast, mappings>>
    BY DEF s_abort, server, disk
  <2> QED
    BY <1>1, <2>1, SoundGone
<1>2. CASE session # "batch"
  <2>1. /\ UNCHANGED <<folder, hdrLast, map, mappings, mapBuf, session, localLast, arrived>>
        /\ pc \notin {"d_append", "d_rename"} /\ pc' \notin {"d_append", "d_rename"}
    BY <1>2 DEF s_abort, Idle, server, disk, memory
  <2> QED
    BY <2>1, SameLeads, SoundSame
<1> QED
  BY <1>1, <1>2 DEF s_abort

LEMMA d_nextSound ==
  ASSUME TypeInv, TypeInv', Sound, d_next
  PROVE  Sound'
<1>1. CASE Min(todo) \notin DOMAIN master
  <2>1. /\ UNCHANGED <<folder, hdrLast, map, mappings, mapBuf, session, localLast, arrived, pc>>
        /\ pc = "d_next"
    BY <1>1 DEF d_next, server
  <2> QED
    BY <2>1, SameLeads, SoundSame
<1>2. CASE Min(todo) \in DOMAIN master
  <2>1. pc' = "d_append"
    BY <1>2 DEF d_next
  <2> QED
    BY <2>1, SoundNext
<1> QED
  BY <1>1, <1>2

LEMMA CloseSound ==
  ASSUME TypeInv, TypeInv', Sound, Close
  PROVE  Sound'
<1>1. /\ UNCHANGED <<arrived, folder, hdrLast, session, localLast>>
      /\ pc \notin {"d_append", "d_rename"} /\ pc' \notin {"d_append", "d_rename"}
      /\ map' = map \/ \E X : map' = Without(map, X)
      /\ \/ mappings' = mappings /\ mapBuf' = mapBuf
         \/ mappings' = mappings \o mapBuf /\ mapBuf' = <<>>
         \/ mappings' = LinesOf(map) /\ mapBuf' = mapBuf
  BY DEF Close, Issue, CheckDeletion, server
<1> QED
  BY <1>1, SoundLines

LEMMA u_checkSound ==
  ASSUME TypeInv, TypeInv', Sound, u_check
  PROVE  Sound'
<1>1. /\ UNCHANGED <<arrived, folder, hdrLast, session, localLast>>
      /\ pc \notin {"d_append", "d_rename"} /\ pc' \notin {"d_append", "d_rename"}
      /\ map' = map \/ \E X : map' = Without(map, X)
      /\ \/ mappings' = mappings /\ mapBuf' = mapBuf
         \/ mappings' = mappings \o mapBuf /\ mapBuf' = <<>>
         \/ mappings' = LinesOf(map) /\ mapBuf' = mapBuf
  BY DEF u_check, CheckDeletion, server
<1> QED
  BY <1>1, SoundLines

LEMMA s_flushSound ==
  ASSUME TypeInv, TypeInv', Sound, s_flush
  PROVE  Sound'
<1>1. /\ UNCHANGED <<arrived, folder, hdrLast, session, localLast>>
      /\ pc \notin {"d_append", "d_rename"} /\ pc' \notin {"d_append", "d_rename"}
      /\ map' = map \/ \E X : map' = Without(map, X)
      /\ \/ mappings' = mappings /\ mapBuf' = mapBuf
         \/ mappings' = mappings \o mapBuf /\ mapBuf' = <<>>
         \/ mappings' = LinesOf(map) /\ mapBuf' = mapBuf
  BY DEF s_flush, server
<1> QED
  BY <1>1, SoundLines

LEMMA u_stateSound ==
  ASSUME TypeInv, TypeInv', Sound, u_state
  PROVE  Sound'
<1>1. /\ UNCHANGED <<arrived, folder, hdrLast, session, localLast>>
      /\ pc \notin {"d_append", "d_rename"} /\ pc' \notin {"d_append", "d_rename"}
      /\ map' = map \/ \E X : map' = Without(map, X)
      /\ \/ mappings' = mappings /\ mapBuf' = mapBuf
         \/ mappings' = mappings \o mapBuf /\ mapBuf' = <<>>
         \/ mappings' = LinesOf(map) /\ mapBuf' = mapBuf
  BY DEF u_state, server
<1> QED
  BY <1>1, SoundLines

LEMMA u_mapSound ==
  ASSUME TypeInv, TypeInv', Sound, u_map
  PROVE  Sound'
<1>1. /\ UNCHANGED <<arrived, folder, hdrLast, session, localLast>>
      /\ pc \notin {"d_append", "d_rename"} /\ pc' \notin {"d_append", "d_rename"}
      /\ map' = map \/ \E X : map' = Without(map, X)
      /\ \/ mappings' = mappings /\ mapBuf' = mapBuf
         \/ mappings' = mappings \o mapBuf /\ mapBuf' = <<>>
         \/ mappings' = LinesOf(map) /\ mapBuf' = mapBuf
  BY DEF u_map, WriteMappings, server
<1> QED
  BY <1>1, SoundLines

LEMMA OpenSound ==
  ASSUME TypeInv, TypeInv', Sound, Open
  PROVE  Sound'
<1>1. OpenLocal("open") /\ UNCHANGED <<arrived, born, mappings>>
      /\ pc \notin {"d_append", "d_rename"} /\ pc' \notin {"d_append", "d_rename"}
  BY DEF Open, Issue, OpenMaster, server
<1> QED
  BY <1>1, SoundOpen

LEMMA NetSyncSound ==
  ASSUME TypeInv, TypeInv', Sound, NetSync
  PROVE  Sound'
<1>1. /\ UNCHANGED <<arrived, born, mappings>>
      /\ pc \notin {"d_append", "d_rename"} /\ pc' \notin {"d_append", "d_rename"}
  BY DEF NetSync, Issue, OpenMaster, server
<1>2. CASE session = "closed"
  <2>1. OpenLocal("batch")
    BY <1>2 DEF NetSync
  <2> QED
    BY <1>1, <2>1, SoundOpen
<1>3. CASE session # "closed"
  <2>1. UNCHANGED <<folder, hdrLast, map, mapBuf, session, localLast>>
    BY <1>3 DEF NetSync, memory
  <2> QED
    BY <1>1, <2>1, SameLeads, SoundSame
<1> QED
  BY <1>2, <1>3

\* The messages are the same after a flag is set.
LEMMA SetFlagKeeps ==
  ASSUME TypeInv, SetFlag
  PROVE  /\ Keeps /\ AllParsed(folder') /\ localLast' = LastGiven(folder', hdrLast')
         /\ UNCHANGED <<arrived, map, mappings, mapBuf, session, pc>> /\ pc = "idle"
<1>1. /\ UNCHANGED <<arrived, map, mappings, mapBuf, session, pc>> /\ pc = "idle"
  BY DEF SetFlag, Issue
<1>2. PICK i \in 1 .. number, f \in Flags :
        Parse([folder EXCEPT ![i].flags = With(@, f, f \notin folder[i].flags)])
  BY DEF SetFlag
<1>3. folder \in Seq(Message) /\ i \in 1 .. Len(folder) /\ FolderRight
  BY LastUids DEF TypeInv, PlacesRight
<1>4. With(folder[i].flags, f, f \notin folder[i].flags) \in SUBSET Flags
  BY <1>3, LastUids DEF With
<1> DEFINE g == [folder EXCEPT ![i].flags = With(folder[i].flags, f, f \notin folder[i].flags)]
<1>5. g \in Seq(Message) /\ Alike(g, folder)
  BY <1>3, <1>4, FlagsAlike
<1>6. Parse(g)
  BY <1>2
<1> HIDE DEF g
<1> QED
  BY <1>1, <1>3, <1>5, <1>6, ParseKeeps

LEMMA SetFlagSound ==
  ASSUME TypeInv, TypeInv', Sound, SetFlag
  PROVE  Sound'
BY SetFlagKeeps, KeepsLoses, SoundLoses

LEMMA c_localSound ==
  ASSUME TypeInv, TypeInv', Sound, c_local
  PROVE  Sound'
<1>1. /\ UNCHANGED <<arrived, map, mappings, mapBuf, session>> /\ ExpungeLocal
      /\ pc \notin {"d_append", "d_rename"} /\ pc' \notin {"d_append", "d_rename"}
  BY DEF c_local, server
<1>2. Loses /\ localLast' = LastGiven(folder', hdrLast')
  BY <1>1, ExpungeLoses DEF TypeInv
<1> QED
  BY <1>1, <1>2, SoundLoses

LEMMA u_localSound ==
  ASSUME TypeInv, TypeInv', Sound, u_local
  PROVE  Sound'
<1>1. /\ UNCHANGED <<arrived, map, mappings, mapBuf, session>>
      /\ pc \notin {"d_append", "d_rename"} /\ pc' \notin {"d_append", "d_rename"}
      /\ ExpungeLocal \/ Ping(folder)
  BY DEF u_local, Idle, server
<1>2. Loses /\ (localLast' = LastGiven(folder', hdrLast') \/ localLast' = localLast)
  <2>1. FolderRight
    BY DEF TypeInv
  <2> QED
    BY <1>1, <2>1, ExpungeLoses, PingKeeps, KeepsLoses
<1> QED
  BY <1>1, <1>2, SoundLoses

LEMMA s_flaggedSound ==
  ASSUME TypeInv, TypeInv', Sound, s_flagged
  PROVE  Sound'
<1>1. /\ UNCHANGED <<arrived, map, mappings, mapBuf, session>>
      /\ pc \notin {"d_append", "d_rename"} /\ pc' \notin {"d_append", "d_rename"}
  BY DEF s_flagged, Looping, server
<1>2. Keeps /\ (localLast' = localLast \/ localLast' = LastGiven(folder', hdrLast'))
  BY FlaggedKeeps
<1> QED
  BY <1>1, <1>2, KeepsLoses, SoundLoses

NoInserts == "insert" \notin Ops

\* Nothing is inserted: the program is never where it would insert.
LEMMA NoInsertStep ==
  ASSUME NoInserts, TypeInv, NoInsert, [Next]_vars
  PROVE  NoInsert'
<1>1. CASE World
  BY <1>1 DEF World, Deliver, OtherClient, Lose, Crash, CrashWriting, Gone, Idle, NoInsert, args
<1>2. CASE Open \/ NetSync \/ GoOnline
  BY <1>2 DEF Open, NetSync, GoOnline, OpenMaster, NoInsert, args, Issue, TypeInv, Control, Downloading
<1>3. CASE GoOffline \/ SyncRefused \/ StartUpdate("update") \/ StartUpdate("sync") \/ SetFlag
             \/ Close \/ Insert
  BY <1>3 DEF GoOffline, SyncRefused, StartUpdate, SetFlag, Close, Insert, Issue, NoInserts,
     NoInsert, args
<1>4. CASE c_local \/ c_map
  BY <1>4 DEF c_local, c_map, Gone, Idle, NoInsert, args
<1>5. CASE d_search \/ d_next \/ d_done \/ d_full \/ d_append \/ d_rename
  <2>1. (pc' = ret /\ ret' = "idle") \/ (pc' \in Downloading /\ ret' = ret)
    <3>1. CASE d_search \/ d_done \/ d_full
      BY <3>1 DEF d_search, d_done, d_full, Return, Downloading
    <3>2. CASE d_next
      BY <3>2 DEF d_next, Downloading
    <3>3. CASE d_append \/ d_rename
      BY <3>3 DEF d_append, d_rename, Downloading, args
    <3> QED
      BY <1>5, <3>1, <3>2, <3>3
  <2>2. ret \notin {"i_upload", "i_search", "i_ping"}
    BY DEF TypeInv, Control
  <2> QED
    BY <2>1, <2>2 DEF NoInsert, Downloading
<1>6. CASE s_delete \/ s_map \/ s_abort \/ s_flags \/ s_unlink \/ s_download \/ s_flagged
  BY <1>6 DEF s_delete, s_map, s_abort, s_flags, s_unlink, s_download, s_flagged, Download,
     Gone, Idle, NoInsert, args
<1>7. CASE s_fatal \/ s_upload \/ s_search \/ s_flush \/ s_state \/ s_end
  BY <1>7 DEF s_fatal, Die, s_upload, s_search, s_flush, s_state, s_end, Upload, Gone, Idle,
     NoInsert, args
<1>8. CASE u_start \/ u_state \/ state_full \/ u_net \/ u_check \/ u_map \/ u_local
  BY <1>8 DEF u_start, u_state, state_full, u_net, u_check, u_map, u_local, Download, Idle,
     NoInsert, args
<1>9. CASE i_upload \/ i_search \/ i_ping \/ i_fatal \/ i_state
  BY <1>9 DEF i_upload, i_search, i_ping, i_fatal, i_state, NoInsert
<1>10. CASE UNCHANGED vars
  BY <1>10 DEF vars, args, NoInsert
<1> QED
  BY <1>1, <1>2, <1>3, <1>4, <1>5, <1>6, <1>7, <1>8, <1>9, <1>10 DEF Next, User, Steps

\* The disk has been full once or more when it is found full.
LEMMA FullStep ==
  ASSUME TypeInv, d_full \/ state_full
  PROVE  fulls' # 0
BY DEF d_full, state_full, TypeInv, CountersRight

LEMMA FullsStay ==
  ASSUME TypeInv, [Next]_vars, ~d_full, ~state_full
  PROVE  fulls' = fulls
<1>1. CASE World
  BY <1>1 DEF World, Deliver, OtherClient, Lose, Crash, CrashWriting
<1>2. CASE User
  BY <1>2 DEF User, Open, NetSync, GoOnline, GoOffline, SyncRefused, StartUpdate, SetFlag,
     Close, Insert, Issue
<1>3. CASE c_local \/ c_map \/ d_search \/ d_next \/ d_done \/ d_append \/ d_rename
  BY <1>3 DEF c_local, c_map, d_search, d_next, d_done, d_append, d_rename, bounds
<1>4. CASE s_delete \/ s_map \/ s_abort \/ s_flags \/ s_unlink \/ s_download \/ s_flagged
             \/ s_fatal \/ s_upload \/ s_search \/ s_flush \/ s_state \/ s_end
  BY <1>4 DEF s_delete, s_map, s_abort, s_flags, s_unlink, s_download, s_flagged, s_fatal,
     Die, s_upload, s_search, s_flush, s_state, s_end, bounds
<1>5. CASE u_start \/ u_state \/ u_net \/ u_check \/ u_map \/ u_local
             \/ i_upload \/ i_search \/ i_ping \/ i_fatal \/ i_state
  BY <1>5 DEF u_start, u_state, u_net, u_check, u_map, u_local, i_upload, i_search, i_ping,
     i_fatal, Die, i_state, bounds
<1>6. CASE UNCHANGED vars
  BY <1>6 DEF vars, bounds
<1> QED
  BY <1>1, <1>2, <1>3, <1>4, <1>5, <1>6 DEF Next, Steps

LEMMA FatalSound ==
  ASSUME TypeInv, TypeInv', Sound, s_fatal \/ i_fatal
  PROVE  Sound'
BY DieSound DEF s_fatal, i_fatal

LEMMA StaySound ==
  ASSUME TypeInv, TypeInv', Sound, UNCHANGED vars
  PROVE  Sound'
<1>1. UNCHANGED <<folder, hdrLast, map, mappings, mapBuf, session, localLast, arrived, pc, todo>>
  BY DEF vars, server, disk, memory, args
<1> QED
  BY <1>1, SameLeads, SoundSame

LEMMA SoundStep ==
  ASSUME NoInserts, TypeInv, TypeInv', NoInsert, Sound, [Next]_vars, ~d_full, ~state_full
  PROVE  Sound'
<1>1. CASE World
  BY <1>1, DeliverSound, OtherClientSound, LoseSound, CrashSound, CrashWritingSound DEF World
<1>2. CASE User
  <2>1. ~Insert
    BY DEF Insert, Issue, NoInserts
  <2> QED
    BY <1>2, <2>1, OpenSound, NetSyncSound, GoOnlineSound, GoOfflineSound, SyncRefusedSound,
       StartUpdateSound, SetFlagSound, CloseSound DEF User
<1>3. CASE c_local \/ c_map \/ d_search \/ d_next \/ d_done \/ d_append \/ d_rename
  BY <1>3, c_localSound, c_mapSound, d_searchSound, d_nextSound, d_doneSound, SoundAppend,
     SoundRename
<1>4. CASE s_delete \/ s_map \/ s_abort \/ s_flags \/ s_unlink \/ s_download
             \/ s_flagged \/ s_fatal \/ s_upload \/ s_search \/ s_flush \/ s_state \/ s_end
  BY <1>4, s_deleteSound, s_mapSound, s_abortSound, s_flagsSound, s_unlinkSound,
     s_downloadSound, s_flaggedSound, FatalSound, s_uploadSound, SoundSearch, s_flushSound,
     s_stateSound, s_endSound
<1>5. CASE u_start \/ u_state \/ u_net \/ u_check \/ u_map \/ u_local
  BY <1>5, u_startSound, u_stateSound, u_netSound, u_checkSound, u_mapSound, u_localSound
<1>6. CASE i_upload \/ i_search \/ i_ping \/ i_fatal \/ i_state
  BY <1>6 DEF i_upload, i_search, i_ping, i_fatal, i_state, NoInsert
<1>7. CASE UNCHANGED vars
  BY <1>7, StaySound
<1> QED
  BY <1>1, <1>2, <1>3, <1>4, <1>5, <1>6, <1>7 DEF Next, Steps

LEMMA SoundInit == Init => SoundInv
<1> SUFFICES ASSUME Init PROVE SoundInv
  OBVIOUS
<1>1. folder = <<>> /\ map = <<>> /\ mappings = <<>> /\ mapBuf = <<>> /\ session = "closed"
      /\ pc = "idle" /\ ret = "idle"
  BY DEF Init
<1>2. Len(<<>>) = 0 /\ DOMAIN <<>> = {}
  OBVIOUS
<1>3. MapRight(Local, arrived, Settled)
  BY <1>1, <1>2 DEF MapRight, Settled
<1> QED
  BY <1>1, <1>2, <1>3 DEF SoundInv, NoInsert, Sound, LinesRight, AllRight

LEMMA SoundImplies == TypeInv /\ SoundInv => MapSound
<1> SUFFICES ASSUME TypeInv, Sound, pc # "d_rename",
                    NEW i \in DOMAIN Parsed(folder), Parsed(folder)[i].uid \in DOMAIN TheMap
             PROVE  /\ TheMap[Parsed(folder)[i].uid] \in DOMAIN arrived
                    /\ arrived[TheMap[Parsed(folder)[i].uid]] = Parsed(folder)[i].msg
  BY DEF SoundInv, MapSound
<1>1. Parsed(folder) = Local
  BY ParsedNumbered DEF Local
<1>2. Local \in Seq(Message) /\ arrived \in Seq(Nat) /\ mappings \in Seq(Line)
  BY LocalRight DEF TypeInv, ServerRight, MapsRight, LinesTo
<1>3. i \in 1 .. Len(Local) /\ DOMAIN arrived = 1 .. Len(arrived)
  BY <1>1, <1>2
<1>4. MapRight(Local, arrived, TheMap)
  <2>1. CASE session = "closed"
    BY <1>2, <2>1, ReadRight DEF TheMap, Sound
  <2>2. CASE session # "closed"
    BY <2>2 DEF TheMap, Sound, Settled
  <2> QED
    BY <2>1, <2>2
<1> QED
  BY <1>1, <1>3, <1>4 DEF MapRight, Stands

\* A message that is mapped is the one its uid of the master stands for, whatever
\* the other clients do and the connection and the program suffer: what
\* Dis_SyncFolder() (ratDisFolder.c) flags, deletes, or takes for uploaded is right.
\* Two things break it, a full disk and a message the user inserts.
THEOREM MapsAreSound ==
  ASSUME "insert" \notin Ops
  PROVE  Spec => []MapSound
<1>1. Init => SoundInv
  BY SoundInit
<1>2. TypeInv /\ TypeInv' /\ SoundInv /\ [Next]_vars => SoundInv'
  <2> SUFFICES ASSUME TypeInv, TypeInv', SoundInv, [Next]_vars PROVE SoundInv'
    OBVIOUS
  <2>1. NoInserts /\ NoInsert
    BY DEF NoInserts, SoundInv
  <2>2. NoInsert'
    BY <2>1, NoInsertStep
  <2>3. fulls' = 0 => Sound'
    <3>1. SUFFICES ASSUME fulls' = 0 PROVE Sound'
      OBVIOUS
    <3>2. ~d_full /\ ~state_full
      BY <3>1, FullStep
    <3>3. Sound
      BY <3>1, <3>2, FullsStay DEF SoundInv
    <3> QED
      BY <2>1, <3>2, <3>3, SoundStep
  <2> QED
    BY <2>2, <2>3 DEF SoundInv
<1>3. TypeInv /\ SoundInv => MapSound
  BY SoundImplies
<1> QED
  BY <1>1, <1>2, <1>3, TypesHold, PTL DEF Spec

-----------------------------------------------------------------------------
(* What a connection that holds promises, whatever the operations.          *)

\* A connection is down, or an error noticed, only when one was lost.
Noticed == broken \/ error => losses # 0

LEMMA NoticedStep ==
  ASSUME TypeInv, Noticed, [Next]_vars
  PROVE  Noticed'
<1> USE DEF stream, bounds, history, memory, disk, server, args
<1> DEFINE Calm == losses' = losses /\ (broken' => broken) /\ (error' => broken \/ error)
<1>1. Calm => Noticed'
  BY DEF Noticed
<1>2. CASE Deliver \/ OtherClient \/ Crash \/ CrashWriting
  BY <1>1, <1>2, Zenon DEF Deliver, OtherClient, Crash, CrashWriting, Gone
<1>3. CASE Lose
  <2>1. losses' = losses + 1 /\ losses \in Nat
    BY <1>3 DEF Lose, TypeInv, CountersRight
  <2> QED
    BY <2>1 DEF Noticed
<1>4. CASE Open
  BY <1>1, <1>4, Zenon DEF Open, Issue, OpenMaster
<1>5. CASE NetSync
  BY <1>1, <1>5, Zenon DEF NetSync, Issue, OpenMaster
<1>6. CASE GoOnline
  BY <1>1, <1>6, Zenon DEF GoOnline, Issue, OpenMaster
<1>7. CASE GoOffline \/ SyncRefused \/ StartUpdate("update") \/ StartUpdate("sync")
  BY <1>1, <1>7, Zenon DEF GoOffline, SyncRefused, StartUpdate, Issue
<1>8. CASE SetFlag
  BY <1>1, <1>8, Zenon DEF SetFlag, Issue, Command
<1>9. CASE Close \/ Insert
  BY <1>1, <1>9, Zenon DEF Close, Insert, Issue
<1>10. CASE c_local \/ c_map \/ d_search \/ d_next
  BY <1>1, <1>10, Zenon DEF c_local, c_map, d_search, d_next, Gone
<1>11. CASE d_done
  BY <1>1, <1>11, Zenon DEF d_done
<1>12. CASE d_full \/ d_append \/ d_rename
  BY <1>1, <1>12, Zenon DEF d_full, d_append, d_rename
<1>13. CASE s_delete
  BY <1>1, <1>13, Zenon DEF s_delete, Command
<1>14. CASE s_map \/ s_abort \/ s_unlink \/ s_download
  BY <1>1, <1>14, Zenon DEF s_map, s_abort, s_unlink, s_download, Gone
<1>15. CASE s_flags
  BY <1>1, <1>15, Zenon DEF s_flags, Command
<1>16. CASE s_flagged
  BY <1>1, <1>16, Zenon DEF s_flagged
<1>17. CASE s_fatal \/ i_fatal
  BY <1>1, <1>17, Zenon DEF s_fatal, i_fatal, Die, Gone
<1>18. CASE s_upload \/ i_upload
  BY <1>1, <1>18, Zenon DEF s_upload, i_upload, Upload, Command
<1>19. CASE s_search \/ i_search \/ s_flush \/ s_state \/ s_end
  BY <1>1, <1>19, Zenon DEF s_search, i_search, s_flush, s_state, s_end, Gone
<1>20. CASE u_start
  BY <1>1, <1>20, Zenon DEF u_start, Command
<1>21. CASE u_state \/ u_net \/ u_check \/ u_map \/ u_local \/ i_state
  BY <1>1, <1>21, Zenon DEF u_state, u_net, u_check, u_map, u_local, i_state
<1>22. CASE state_full
  BY <1>1, <1>22, Zenon DEF state_full
<1>23. CASE i_ping
  BY <1>1, <1>23, Zenon DEF i_ping, Command
<1>24. CASE UNCHANGED vars
  BY <1>1, <1>24, Zenon DEF vars
<1> QED
  BY <1>2, <1>3, <1>4, <1>5, <1>6, <1>7, <1>8, <1>9, <1>10, <1>11, <1>12, <1>13, <1>14,
     <1>15, <1>16, <1>17, <1>18, <1>19, <1>20, <1>21, <1>22, <1>23, <1>24
  DEF Next, World, User, Steps

\* The driver gives the unparsed messages their uids, and changes nothing else.
LEMMA ParseNumbers ==
  ASSUME FolderRight, NEW g \in Seq(Message), Alike(g, folder), Parse(g)
  PROVE  /\ folder' \in Seq(Message) /\ Len(folder') = Len(folder) /\ Len(folder) \in Nat
         /\ AllParsed(folder')
         /\ \A k \in 1 .. Len(folder) :
              /\ folder'[k].msg = g[k].msg /\ folder'[k].flags = g[k].flags
              /\ g[k].uid # 0 => folder'[k] = g[k]
<1>1. folder \in Seq(Message) /\ hdrLast \in Nat /\ UidsRight(folder, hdrLast)
  BY DEF FolderRight
<1>2. Len(g) = Len(folder) /\ UidsRight(g, hdrLast)
  BY <1>1 DEF Alike, UidsRight
<1>3. Numbers(Numbered(g, hdrLast), LastGiven(g, hdrLast), g, hdrLast)
  BY <1>1, <1>2, Numbering
<1>4. folder' = Numbered(g, hdrLast) /\ AllParsed(folder')
  BY ParseKeeps
<1> QED
  BY <1>1, <1>2, <1>3, <1>4 DEF Numbers

LEMMA PingNumbers ==
  ASSUME FolderRight, NEW g \in Seq(Message), Alike(g, folder), Ping(g)
  PROVE  /\ folder' \in Seq(Message) /\ Len(folder') = Len(folder) /\ Len(folder) \in Nat
         /\ AllParsed(folder')
         /\ \A k \in 1 .. Len(folder) :
              folder'[k].msg = g[k].msg /\ folder'[k].flags = g[k].flags
<1>1. CASE Unparsed(g) # {}
  <2>1. Parse(g)
    BY <1>1 DEF Ping
  <2> QED
    BY <2>1, ParseNumbers
<1>2. CASE Unparsed(g) = {}
  BY <1>2, UnparsedEmpty DEF Ping, Alike
<1> QED
  BY <1>1, <1>2

\* Who sets a flag changes it, and no other, in one message, and tells the master
\* or notes it.
FlagSet(i, f, uid, value) ==
  /\ folder' \in Seq(Message) /\ Len(folder') = Len(folder) /\ Len(folder) \in Nat
  /\ AllParsed(folder')
  /\ \A k \in 1 .. Len(folder) : folder[k].uid # 0 => folder'[k].uid = folder[k].uid
  /\ \A k \in 1 .. Len(folder), g \in Flags :
       g \in folder'[k].flags <=> IF k = i /\ g = f THEN value ELSE g \in folder[k].flags
  /\ IF uid # 0 /\ online
     THEN Command(IF uid \in DOMAIN master THEN [master EXCEPT ![uid] = With(@, f, value)]
                                           ELSE master)
     ELSE NoteFlag(uid, f, value) /\ UNCHANGED master

LEMMA SetFlagSets ==
  ASSUME TypeInv, SetFlag
  PROVE  \E i \in 1 .. number, f \in Flags :
           FlagSet(i, f, GetMasterUID(map, folder[i]), f \notin folder[i].flags)
<1>1. PICK i \in 1 .. number :
        \E f \in Flags :
          LET uid == GetMasterUID(map, folder[i])
              value == f \notin folder[i].flags IN
          /\ IF uid # 0 /\ online
             THEN Command(IF uid \in DOMAIN master
                            THEN [master EXCEPT ![uid] = With(@, f, value)] ELSE master)
             ELSE NoteFlag(uid, f, value) /\ UNCHANGED master
          /\ Parse([folder EXCEPT ![i].flags = With(@, f, value)])
  BY DEF SetFlag
<1> DEFINE uid == GetMasterUID(map, folder[i])
<1>2. PICK f \in Flags :
        /\ IF uid # 0 /\ online
           THEN Command(IF uid \in DOMAIN master
                          THEN [master EXCEPT ![uid] = With(@, f, f \notin folder[i].flags)]
                          ELSE master)
           ELSE NoteFlag(uid, f, f \notin folder[i].flags) /\ UNCHANGED master
        /\ Parse([folder EXCEPT ![i].flags = With(@, f, f \notin folder[i].flags)])
  BY <1>1
<1> HIDE DEF uid
<1>3. folder \in Seq(Message) /\ i \in 1 .. Len(folder) /\ FolderRight
  BY LastUids DEF TypeInv, PlacesRight
<1> DEFINE X == With(folder[i].flags, f, f \notin folder[i].flags)
           g == [folder EXCEPT ![i].flags = X]
<1>4. X \in SUBSET Flags /\ \A h \in Flags : h \in X <=> IF h = f THEN f \notin folder[i].flags
                                                              ELSE h \in folder[i].flags
  BY <1>3, LastUids DEF With
<1>5. Parse(g)
  BY <1>2
<1> HIDE DEF X
<1>6. g \in Seq(Message) /\ Alike(g, folder)
  BY <1>3, <1>4, FlagsAlike
<1>7. \A k \in 1 .. Len(folder) : g[k].flags = IF k = i THEN X ELSE folder[k].flags
  <2>1. \A k \in 1 .. Len(folder) : folder[k] \in Message
    BY <1>3
  <2> QED
    BY <1>3, <2>1 DEF Message
<1> HIDE DEF g
<1>8. /\ folder' \in Seq(Message) /\ Len(folder') = Len(folder) /\ Len(folder) \in Nat
      /\ AllParsed(folder')
      /\ \A k \in 1 .. Len(folder) :
           /\ folder'[k].msg = g[k].msg /\ folder'[k].flags = g[k].flags
           /\ g[k].uid # 0 => folder'[k] = g[k]
  BY <1>3, <1>5, <1>6, ParseNumbers
<1>9. \A k \in 1 .. Len(folder) : folder[k].uid # 0 => folder'[k].uid = folder[k].uid
  BY <1>6, <1>8 DEF Alike
<1>10. \A k \in 1 .. Len(folder), h \in Flags :
         h \in folder'[k].flags <=>
           IF k = i /\ h = f THEN f \notin folder[i].flags ELSE h \in folder[k].flags
  BY <1>4, <1>7, <1>8
<1>11. FlagSet(i, f, uid, f \notin folder[i].flags)
  BY <1>2, <1>8, <1>9, <1>10 DEF FlagSet
<1> QED
  BY <1>11 DEF uid

\* The other operations of an open folder leave the flags alone.
LEMMA OthersKeepFlags ==
  ASSUME TypeInv, [Next]_vars, ops' # ops, session = "open", ~SetFlag
  PROVE  \A i \in DOMAIN folder \cap DOMAIN folder' : folder'[i].flags = folder[i].flags
<1> USE DEF disk
<1>1. World => ops' = ops
  BY DEF World, Deliver, OtherClient, Lose, Crash, CrashWriting
<1>2. Steps => ops' = ops
  BY DEF Steps, bounds, c_local, c_map, d_search, d_next, d_done, d_full, d_append, d_rename,
     s_delete, s_map, s_abort, s_flags, s_unlink, s_download, s_flagged, s_fatal, s_upload,
     s_search, s_flush, s_state, s_end, u_start, u_state, state_full, u_net, u_check, u_map,
     u_local, i_upload, i_search, i_ping, i_fatal, i_state, Die
<1>3. User
  BY <1>1, <1>2 DEF Next, vars, bounds
<1>4. CASE Open
  BY <1>4 DEF Open
<1>5. CASE NetSync \/ GoOnline \/ GoOffline \/ SyncRefused \/ StartUpdate("update")
           \/ StartUpdate("sync") \/ Close
  BY <1>5 DEF NetSync, GoOnline, GoOffline, SyncRefused, StartUpdate, Close
<1>6. CASE Insert
  <2> DEFINE m == [uid |-> 0, msg |-> born + 1, flags |-> {}]
             grown == Append(folder, m)
  <2>1. folder' = grown \/ Ping(grown)
    BY <1>6 DEF Insert
  <2>2. folder \in Seq(Message) /\ hdrLast \in Nat /\ UidsRight(folder, hdrLast) /\ born \in Nat
    BY DEF TypeInv, FolderRight, ServerRight
  <2>3. m \in Message /\ m.uid = 0
    BY <2>2 DEF Message
  <2> HIDE DEF m
  <2>4. grown \in Seq(Message) /\ UidsRight(grown, hdrLast)
    BY <2>2, <2>3, Appended
  <2>5. \A k \in 1 .. Len(folder) : grown[k] = folder[k]
    BY <2>2, <2>3
  <2> HIDE DEF grown
  <2>6. CASE folder' = grown
    BY <2>2, <2>5, <2>6
  <2>7. CASE folder' = Numbered(grown, hdrLast)
    <3>1. Numbers(Numbered(grown, hdrLast), LastGiven(grown, hdrLast), grown, hdrLast)
      BY <2>2, <2>4, Numbering
    <3>2. \A k \in 1 .. Len(grown) : Numbered(grown, hdrLast)[k].flags = grown[k].flags
      BY <3>1 DEF Numbers
    <3>3. \A k \in DOMAIN grown : folder'[k].flags = grown[k].flags
      BY <2>4, <2>7, <3>2
    <3>4. DOMAIN folder' = DOMAIN grown
      BY <2>7 DEF Numbered
    <3> QED
      BY <2>2, <2>5, <3>3, <3>4
  <2> QED
    BY <2>1, <2>6, <2>7, ParsedNumbered DEF Ping, Parse
<1> QED
  BY <1>3, <1>4, <1>5, <1>6 DEF User

LEMMA FlagsStep ==
  ASSUME TypeInv, TypeInv', Noticed, [Next]_vars, losses = 0,
         NEW i \in DOMAIN folder, NEW f \in Flags,
         ops' # ops, session = "open", i \in DOMAIN folder',
         (f \in folder'[i].flags) # (f \in folder[i].flags)
  PROVE  LET u == GetMasterUID(map, folder[i]) IN
           \/ u \notin DOMAIN master'
           \/ (f \in master'[u]) = (f \in folder'[i].flags)
           \/ changes' = Append(changes, <<"flag", u, f, f \in folder'[i].flags>>)
<1>1. SetFlag
  BY OthersKeepFlags
<1>2. PICK j \in 1 .. number, g \in Flags :
        FlagSet(j, g, GetMasterUID(map, folder[j]), g \notin folder[j].flags)
  BY <1>1, SetFlagSets
<1> DEFINE u == GetMasterUID(map, folder[i])
           v == f \in folder'[i].flags
<1>3. DOMAIN folder = 1 .. Len(folder)
  BY LastUids
<1>4. j = i /\ g = f
  BY <1>2, <1>3 DEF FlagSet
<1>5. (g \notin folder[j].flags) = v
  BY <1>2, <1>3, <1>4 DEF FlagSet
<1> HIDE DEF u, v
<1>6. IF u # 0 /\ online
      THEN Command(IF u \in DOMAIN master THEN [master EXCEPT ![u] = With(@, f, v)] ELSE master)
      ELSE NoteFlag(u, f, v) /\ UNCHANGED master
  BY <1>2, <1>4, <1>5 DEF FlagSet, u
<1>7. CASE u # 0 /\ online
  <2>1. ~broken
    BY DEF Noticed
  <2>2. u \in DOMAIN master => master' = [master EXCEPT ![u] = With(@, f, v)]
    BY <1>6, <1>7, <2>1 DEF Command
  <2>3. u \notin DOMAIN master => master' = master
    BY <1>6, <1>7, <2>1 DEF Command
  <2>4. CASE u \in DOMAIN master
    <3>1. master'[u] = With(master[u], f, v)
      BY <2>2, <2>4
    <3>2. (f \in master'[u]) = v
      BY <3>1 DEF With, v
    <3> QED
      BY <3>2 DEF u, v
  <2> QED
    BY <2>3, <2>4 DEF u
<1>8. CASE u # 0 /\ ~online
  <2>1. changes' = Append(changes, <<"flag", u, f, v>>)
    BY <1>6, <1>8 DEF NoteFlag
  <2> QED
    BY <2>1 DEF u, v
<1>9. CASE u = 0
  <2>1. 0 \notin DOMAIN master'
    BY DEF TypeInv, ServerRight
  <2> QED
    BY <1>9, <2>1 DEF u
<1> QED
  BY <1>7, <1>8, <1>9

\* A flag the user sets reaches the master or the file changes: Dis_SetFlagProc()
\* (ratDisFolder.c), for every set of operations and as long as no connection is lost.
THEOREM FlagsAreNoted == Spec => FlagsNoted
<1>1. Init => Noticed
  BY DEF Init, Noticed
<1>2. TypeInv /\ Noticed /\ [Next]_vars => Noticed'
  BY NoticedStep
<1>3. TypeInv /\ TypeInv' /\ Noticed /\ [Next]_vars =>
        [losses = 0 => \A i \in DOMAIN folder, f \in Flags :
          (/\ ops' # ops /\ session = "open" /\ i \in DOMAIN folder'
           /\ (f \in folder'[i].flags) # (f \in folder[i].flags)) =>
            LET u == GetMasterUID(map, folder[i]) IN
              \/ u \notin DOMAIN master'
              \/ (f \in master'[u]) = (f \in folder'[i].flags)
              \/ changes' = Append(changes, <<"flag", u, f, f \in folder'[i].flags>>)]_vars
  <2> SUFFICES ASSUME TypeInv, TypeInv', Noticed, [Next]_vars, losses = 0,
                      NEW i \in DOMAIN folder, NEW f \in Flags,
                      ops' # ops, session = "open", i \in DOMAIN folder',
                      (f \in folder'[i].flags) # (f \in folder[i].flags)
               PROVE  LET u == GetMasterUID(map, folder[i]) IN
                        \/ u \notin DOMAIN master'
                        \/ (f \in master'[u]) = (f \in folder'[i].flags)
                        \/ changes' = Append(changes, <<"flag", u, f, f \in folder'[i].flags>>)
    OBVIOUS
  <2> QED
    BY FlagsStep
<1> QED
  BY <1>1, <1>2, <1>3, TypesHold, PTL DEF Spec, FlagsNoted

-----------------------------------------------------------------------------
(* What is deleted is noted.                                               *)

Positive(lines) == \A j \in 1 .. Len(lines) : lines[j][2] # 0

Updating == {"u_start", "u_state", "u_net", "u_check", "u_map", "u_local"}

\* While no operation is under way, and until a synchronisation fetches something,
\* the open folder knows all its messages, and the driver has parsed them.
Rests == (pc = "idle" /\ session = "open")
         \/ pc \in {"s_delete", "s_map", "s_flags", "s_unlink", "s_download", "c_local"}
Loops == pc \in {"s_loop", "s_search"} \/ ret = "s_loop"

Known ==
  /\ Rests => AllParsed(folder) /\ number = Len(folder)
  /\ Loops => \A i \in 1 .. nmsgs : folder[i].uid # 0
  /\ op = "sync" => /\ pc \in Updating \/ ret = "u_state"
                    /\ \A i \in 1 .. Len(folder) : i > number => folder[i].uid = 0
  /\ pc = "u_map" => op = "sync"

LEMMA OpenKnown ==
  ASSUME TypeInv, Known, Open
  PROVE  Known'
<1>1. AllParsed(folder') /\ number' = Len(folder')
  <2>1. OpenLocal("open") /\ UNCHANGED <<arrived, born>> /\ UNCHANGED <<arrived, mappings>>
    BY DEF Open, server
  <2>2. AllParsed(folder') /\ Len(folder') = Len(folder)
    BY <2>1, SameAge, OpenLocalTypes
  <2> QED
    BY <2>1, <2>2 DEF OpenLocal
<1>2. pc = "idle" /\ pc' \in {"idle", "s_delete"} /\ ret' = ret
      /\ (op' = op \/ op' = "online")
  BY DEF Open, Issue, OpenMaster, args
<1>3. ret = "idle"
  BY <1>2 DEF TypeInv, Control, Downloading
<1> QED
  BY <1>1, <1>2, <1>3 DEF Known, Rests, Loops, Updating

LEMMA NetSyncKnown ==
  ASSUME TypeInv, Known, NetSync
  PROVE  Known'
<1>1. pc = "idle" /\ pc' = "s_delete" /\ ret' = ret /\ op' = "netsync"
  BY DEF NetSync, Issue, OpenMaster
<1>2. ret = "idle" /\ session # "batch"
  BY <1>1 DEF TypeInv, Control, Downloading, Syncing
<1>3. AllParsed(folder') /\ number' = Len(folder')
  <2>1. CASE session = "closed"
    <3>1. OpenLocal("batch") /\ UNCHANGED <<arrived, born>> /\ UNCHANGED <<arrived, mappings>>
      BY <2>1 DEF NetSync, server
    <3>2. AllParsed(folder') /\ Len(folder') = Len(folder)
      BY <3>1, SameAge, OpenLocalTypes
    <3> QED
      BY <3>1, <3>2 DEF OpenLocal
  <2>2. CASE session = "open"
    <3>1. UNCHANGED folder /\ UNCHANGED number
      BY <2>2 DEF NetSync, memory
    <3> QED
      BY <1>1, <2>2, <3>1 DEF Known, Rests
  <2> QED
    BY <1>2, <2>1, <2>2 DEF TypeInv, Control
<1> QED
  BY <1>1, <1>2, <1>3 DEF Known, Rests, Loops, Updating

LEMMA SetFlagKnown ==
  ASSUME TypeInv, Known, SetFlag
  PROVE  Known'
<1>1. AllParsed(folder') /\ Len(folder') = Len(folder)
  BY SetFlagSets DEF FlagSet
<1>2. /\ pc = "idle" /\ session = "open" /\ UNCHANGED args
      /\ UNCHANGED <<pc, session, number>>
  BY DEF SetFlag, Issue
<1>3. ret = "idle"
  BY <1>2 DEF TypeInv, Control, Downloading
<1> QED
  BY <1>1, <1>2, <1>3 DEF Known, Rests, Loops, Updating, args

LEMMA s_flaggedKnown ==
  ASSUME TypeInv, Known, s_flagged
  PROVE  Known'
<1>1. /\ pc = "s_loop" /\ UNCHANGED <<pc, ret, op, nmsgs>>
  BY DEF s_flagged, Looping
<1>2. folder' = folder \/ AllParsed(folder')
  BY FlaggedKeeps
<1>3. nmsgs \in Nat /\ nmsgs <= Len(folder) /\ Len(folder') = Len(folder) /\ Len(folder) \in Nat
  <2>1. UNCHANGED <<arrived, born>>
    BY DEF s_flagged, server, history
  <2> QED
    BY <2>1, SameAge, FlaggedKeeps, KeepsTypes DEF TypeInv, PlacesRight
<1>4. ret = "idle"
  BY <1>1 DEF TypeInv, Control, Downloading
<1> QED
  BY <1>1, <1>2, <1>3, <1>4 DEF Known, Rests, Loops, Updating, AllParsed

LEMMA u_localKnown ==
  ASSUME TypeInv, Known, u_local
  PROVE  Known'
<1>1. pc' = "idle" /\ op' = "none" /\ ret' = "idle"
  BY DEF u_local, Idle
<1>2. UNCHANGED <<arrived, born>>
  BY DEF u_local, server, history
<1>3. AllParsed(folder') /\ number' = Len(folder')
  <2>1. CASE ExpungeLocal
    BY <2>1, ExpungeLoses DEF TypeInv
  <2>2. CASE Ping(folder) /\ number' = Len(folder)
    BY <1>2, <2>2, SameAge, PingKeeps, KeepsTypes DEF TypeInv
  <2> QED
    BY <2>1, <2>2 DEF u_local
<1> QED
  BY <1>1, <1>3 DEF Known, Rests, Loops

\* What the folder knows of its messages stays so.
LEMMA KnownStep ==
  ASSUME TypeInv, Known, [Next]_vars
  PROVE  Known'
<1> USE DEF server, stream, disk, memory, args, history, bounds, Known, Rests, Loops
<1>1. CASE Deliver \/ OtherClient \/ Lose \/ UNCHANGED vars
  BY <1>1 DEF Deliver, OtherClient, Lose, vars
<1>2. CASE Crash \/ CrashWriting \/ s_fatal \/ i_fatal \/ c_map
  BY <1>2 DEF Crash, CrashWriting, s_fatal, i_fatal, Die, c_map, Gone, Idle
<1>3. CASE Open \/ NetSync \/ SetFlag \/ s_flagged \/ u_local
  BY <1>3, OpenKnown, NetSyncKnown, SetFlagKnown, s_flaggedKnown, u_localKnown
<1>4. CASE GoOnline \/ GoOffline \/ SyncRefused
  BY <1>4 DEF GoOnline, OpenMaster, GoOffline, SyncRefused, Issue, TypeInv, Control, Downloading
<1>5. CASE StartUpdate("update") \/ StartUpdate("sync")
  BY <1>5 DEF StartUpdate, Issue, Updating, TypeInv, Control, Downloading
<1>6. CASE Close
  BY <1>6 DEF Close, Issue, TypeInv, Control, Downloading
<1>7. CASE Insert
  BY <1>7 DEF Insert, Issue, TypeInv, Control, Downloading
<1>8. CASE c_local
  BY <1>8 DEF c_local, TypeInv, Control, Downloading, Updating
<1>9. CASE d_search \/ d_done \/ d_full
  BY <1>9 DEF d_search, d_done, d_full, Return, TypeInv, Control, Downloading, Updating
<1>10. CASE d_next
  BY <1>10 DEF d_next, Updating
<1>11. CASE d_append
  BY <1>11 DEF d_append, TypeInv, PlacesRight, FolderRight, Updating
<1>12. CASE d_rename
  BY <1>12 DEF d_rename, Updating
<1>13. CASE s_delete \/ s_map \/ s_flags \/ s_unlink
  BY <1>13 DEF s_delete, s_map, s_flags, s_unlink, TypeInv, Control, Downloading, Updating
<1>14. CASE s_abort \/ s_end
  BY <1>14 DEF s_abort, s_end, Gone, Idle, TypeInv, Control, Downloading, Updating
<1>15. CASE s_download
  BY <1>15 DEF s_download, Download, AllParsed, Updating, TypeInv, Control, Downloading
<1>16. CASE s_upload \/ s_search \/ s_flush \/ s_state
  BY <1>16 DEF s_upload, s_search, s_flush, s_state, Upload, Looping, TypeInv, Control,
     Downloading, Updating
<1>17. CASE u_start
  BY <1>17 DEF u_start, Download, TypeInv, Control, Downloading, Updating
<1>18. CASE u_state \/ u_net \/ u_check \/ u_map
  BY <1>18 DEF u_state, u_net, u_check, u_map, TypeInv, Control, Downloading, Updating
<1>19. CASE i_upload \/ i_search \/ i_ping \/ i_state
  BY <1>19 DEF i_upload, i_search, i_ping, i_state, Upload, Download, TypeInv, Control,
     Downloading, Updating
<1>20. CASE state_full
  BY <1>20 DEF state_full, TypeInv, Control, Downloading, Updating
<1> QED
  BY <1>1, <1>2, <1>3, <1>4, <1>5, <1>6, <1>7, <1>8, <1>9, <1>10, <1>11, <1>12, <1>13, <1>14,
     <1>15, <1>16, <1>17, <1>18, <1>19, <1>20 DEF Next, World, User, Steps

\* The uids the mappings tell of are uids.
Uids ==
  /\ 0 \notin DOMAIN map /\ Positive(mappings) /\ Positive(mapBuf)
  /\ pc \in {"d_append", "d_rename"} => localLast # 0
  /\ pc \in {"i_upload", "i_search"} => msgno # 0

LEMMA JoinPositive ==
  ASSUME NEW s \in Seq(Line), NEW t \in Seq(Line), Positive(s), Positive(t)
  PROVE  Positive(s \o t)
<1> SUFFICES ASSUME NEW j \in 1 .. Len(s \o t) PROVE (s \o t)[j][2] # 0
  BY DEF Positive
<1>1. Len(s) \in Nat /\ Len(t) \in Nat /\ Len(s \o t) = Len(s) + Len(t)
  OBVIOUS
<1>2. (s \o t)[j] = IF j <= Len(s) THEN s[j] ELSE t[j - Len(s)]
  OBVIOUS
<1>3. CASE j <= Len(s)
  BY <1>1, <1>2, <1>3 DEF Positive
<1>4. CASE j > Len(s)
  <2>1. j - Len(s) \in 1 .. Len(t)
    BY <1>1, <1>4
  <2> QED
    BY <1>1, <1>2, <1>4, <2>1 DEF Positive
<1> QED
  BY <1>1, <1>3, <1>4

LEMMA AppendPositive ==
  ASSUME NEW s \in Seq(Line), Positive(s), NEW u, NEW l \in Nat, l # 0
  PROVE  Positive(Append(s, <<u, l>>))
<1>1. Len(s) \in Nat /\ Len(Append(s, <<u, l>>)) = Len(s) + 1
  OBVIOUS
<1>2. \A j \in 1 .. Len(s) + 1 :
        Append(s, <<u, l>>)[j] = IF j = Len(s) + 1 THEN <<u, l>> ELSE s[j]
  OBVIOUS
<1> QED
  BY <1>1, <1>2 DEF Positive

LEMMA LinesPositive ==
  ASSUME NEW n \in Nat, NEW f, MapTo(f, n), 0 \notin DOMAIN f
  PROVE  Positive(LinesOf(f))
BY LinesOfMap DEF Positive

LEMMA ReadPositive ==
  ASSUME NEW lines \in Seq(Line), Positive(lines)
  PROVE  0 \notin DOMAIN ReadMappings(lines)
BY ReadDomain DEF Positive

LEMMA GoneUids ==
  ASSUME TypeInv, Uids, Gone, mappings' \in {mappings, mappings \o mapBuf, LinesOf(map)}
  PROVE  Uids'
<1>1. /\ mappings \in Seq(Line) /\ mapBuf \in Seq(Line) /\ MapTo(map, Len(arrived))
      /\ Len(arrived) \in Nat
  BY LastUids DEF TypeInv, MapsRight, LinesTo
<1>2. Positive(mappings \o mapBuf) /\ Positive(LinesOf(map))
  BY <1>1, JoinPositive, LinesPositive DEF Uids
<1>3. map' = <<>> /\ mapBuf' = <<>> /\ pc' = "idle" /\ DOMAIN <<>> = {} /\ Len(<<>>) = 0
  BY DEF Gone, Idle
<1>4. Positive(mappings')
  BY <1>2 DEF Uids
<1> QED
  BY <1>3, <1>4 DEF Uids, Positive

LEMMA UploadedUids ==
  ASSUME TypeInv, Uids, NEW u, NEW l \in Nat, l # 0, Uploaded(u, l), UNCHANGED mappings,
         pc' \notin {"d_append", "d_rename", "i_upload", "i_search"}
  PROVE  Uids'
<1>1. mapBuf \in Seq(Line)
  BY DEF TypeInv, MapsRight, LinesTo
<1>2. Positive(mapBuf')
  BY <1>1, AppendPositive DEF Uids, Uploaded
<1>3. 0 \notin DOMAIN map'
  BY DEF Uids, Uploaded, Put
<1> QED
  BY <1>2, <1>3 DEF Uids

LEMMA UidsStep ==
  ASSUME TypeInv, Known, Uids, [Next]_vars
  PROVE  Uids'
<1> USE DEF server, stream, disk, memory, args, history, bounds
<1>1. /\ mappings \in Seq(Line) /\ mapBuf \in Seq(Line) /\ MapTo(map, Len(arrived))
      /\ Len(arrived) \in Nat
  BY LastUids DEF TypeInv, MapsRight, LinesTo
<1>2. CASE Deliver \/ OtherClient \/ Lose
  BY <1>2 DEF Deliver, OtherClient, Lose, Uids
<1>3. CASE Crash \/ CrashWriting \/ s_fatal \/ i_fatal \/ c_map
  BY <1>3, GoneUids DEF Crash, CrashWriting, s_fatal, i_fatal, Die, c_map, WriteMappings
<1>4. CASE Open
  <2>1. 0 \notin DOMAIN map' /\ UNCHANGED <<mappings, mapBuf>> /\ pc' \in {"idle", "s_delete"}
    BY <1>1, <1>4, ReadPositive DEF Open, OpenLocal, OpenMaster, Issue, Uids
  <2> QED
    BY <2>1 DEF Uids
<1>5. CASE NetSync
  <2>1. 0 \notin DOMAIN map' /\ UNCHANGED <<mappings, mapBuf>> /\ pc' = "s_delete"
    BY <1>1, <1>5, ReadPositive DEF NetSync, OpenLocal, OpenMaster, Uids
  <2> QED
    BY <2>1 DEF Uids
<1>6. CASE GoOnline \/ GoOffline \/ SyncRefused \/ StartUpdate("update") \/ StartUpdate("sync")
  BY <1>6 DEF GoOnline, OpenMaster, GoOffline, SyncRefused, StartUpdate, Issue, Uids
<1>7. CASE SetFlag
  BY <1>7 DEF SetFlag, Issue, Uids
<1>8. CASE Close \/ u_check
  BY <1>8 DEF Close, u_check, CheckDeletion, Without, Uids
<1>9. CASE Insert
  <2>1. localLast \in Nat
    BY DEF TypeInv, MapsRight
  <2> QED
    BY <1>9, <2>1 DEF Insert, Issue, Uids
<1>10. CASE c_local
  BY <1>10 DEF c_local, Uids
<1>11. CASE d_search \/ d_done
  BY <1>11 DEF d_search, d_done, Return, TypeInv, Control, Downloading, Uids
<1>12. CASE d_next
  <2> DEFINE u == Min(todo)
  <2>1. CASE u \notin DOMAIN master
    BY <1>12, <2>1 DEF d_next, Uids
  <2>2. CASE u \in DOMAIN master
    <3>1. /\ localLast' = localLast + 1 /\ localLast \in Nat /\ map' = map /\ mapBuf' = <<>>
          /\ mappings' = mappings \o Append(mapBuf, <<u, localLast'>>) /\ pc' = "d_append"
      BY <1>12, <2>2 DEF d_next, WriteLine, TypeInv, MapsRight
    <3>2. u \in Nat
      BY <2>2 DEF TypeInv, ServerRight
    <3> HIDE DEF u
    <3>3. Append(mapBuf, <<u, localLast'>>) \in Seq(Line)
      BY <1>1, <3>1, <3>2 DEF Line
    <3>4. Positive(Append(mapBuf, <<u, localLast'>>))
      BY <1>1, <3>1, AppendPositive DEF Uids
    <3>5. Positive(mappings')
      BY <1>1, <3>1, <3>3, <3>4, JoinPositive DEF Uids
    <3>6. Positive(<<>>) /\ localLast' # 0
      BY <3>1 DEF Positive
    <3> QED
      BY <3>1, <3>5, <3>6 DEF Uids
  <2> QED
    BY <2>1, <2>2
<1>13. CASE d_full
  <2> DEFINE u == Min(todo)
  <2>1. /\ localLast' = localLast + 1 /\ localLast \in Nat /\ UNCHANGED <<map, mappings>>
        /\ mapBuf' = mapBuf \/ mapBuf' = Append(mapBuf, <<u, localLast'>>)
        /\ pc' \in {"s_loop", "u_state", "i_state"}
    BY <1>13 DEF d_full, Return, TypeInv, MapsRight, Control, Downloading
  <2> HIDE DEF u
  <2>2. localLast' \in Nat /\ localLast' # 0
    BY <2>1
  <2>3. Positive(Append(mapBuf, <<u, localLast'>>))
    BY <1>1, <2>2, AppendPositive DEF Uids
  <2>4. Positive(mapBuf')
    BY <2>1, <2>3 DEF Uids
  <2> QED
    BY <2>1, <2>4 DEF Uids
<1>14. CASE d_append
  BY <1>14 DEF d_append, Uids
<1>15. CASE d_rename
  BY <1>15 DEF d_rename, Put, Uids
<1>16. CASE s_delete \/ s_map \/ s_flags \/ s_unlink \/ s_download \/ s_flagged \/ s_state
  BY <1>16 DEF s_delete, s_map, s_flags, s_unlink, s_download, Download, s_flagged, Looping,
     s_state, Uids
<1>17. CASE s_abort \/ s_end
  <2>1. Gone /\ UNCHANGED mappings => Uids'
    BY GoneUids
  <2> QED
    BY <1>17, <2>1 DEF s_abort, s_end, Idle, Uids
<1>18. CASE s_upload \/ i_upload
  BY <1>18 DEF s_upload, i_upload, Upload, Looping, Uids
<1>19. CASE s_search
  <2>1. PICK u : Uploaded(u, folder[msgno].uid)
    BY <1>19 DEF s_search
  <2>2. UNCHANGED mappings /\ pc' = "s_loop" /\ pc = "s_search"
    BY <1>19 DEF s_search
  <2>3. msgno \in 1 .. nmsgs /\ msgno \in 1 .. Len(folder)
    BY <2>2 DEF TypeInv, Control, PlacesRight
  <2>4. folder[msgno].uid # 0
    BY <2>2, <2>3 DEF Known, Loops
  <2>5. folder[msgno].uid \in Nat
    BY <2>3, LastUids
  <2> QED
    BY <2>1, <2>2, <2>4, <2>5, UploadedUids
<1>20. CASE i_search
  <2>1. PICK u : Uploaded(u, msgno)
    BY <1>20 DEF i_search
  <2>2. UNCHANGED mappings /\ pc' = "i_ping" /\ pc = "i_search" /\ msgno \in Nat
    BY <1>20 DEF i_search, TypeInv, PlacesRight
  <2> QED
    BY <2>1, <2>2, UploadedUids DEF Uids
<1>21. CASE s_flush \/ u_state \/ i_state \/ state_full
  <2>1. /\ mappings' \in {mappings, mappings \o mapBuf} /\ mapBuf' = <<>> /\ map' = map
        /\ pc' \in {"s_state", "u_net", "u_start", "s_end"}
    BY <1>21 DEF s_flush, u_state, i_state, state_full
  <2>2. Positive(mappings \o mapBuf) /\ Positive(<<>>)
    BY <1>1, JoinPositive DEF Uids, Positive
  <2>3. Positive(mappings')
    BY <2>1, <2>2 DEF Uids
  <2> QED
    BY <2>1, <2>2, <2>3 DEF Uids
<1>22. CASE u_start
  BY <1>22 DEF u_start, Download, Uids
<1>23. CASE u_net \/ i_ping
  BY <1>23 DEF u_net, i_ping, Download, Uids
<1>24. CASE u_map
  <2>1. mappings' \in {mappings, LinesOf(map)} /\ UNCHANGED <<map, mapBuf>> /\ pc' = "u_local"
    BY <1>24 DEF u_map, WriteMappings
  <2>2. Positive(mappings')
    BY <1>1, <2>1, LinesPositive DEF Uids
  <2> QED
    BY <2>1, <2>2 DEF Uids
<1>25. CASE u_local
  BY <1>25 DEF u_local, Idle, Uids
<1>26. CASE UNCHANGED vars
  BY <1>26 DEF vars, Uids
<1> QED
  BY <1>2, <1>3, <1>4, <1>5, <1>6, <1>7, <1>8, <1>9, <1>10, <1>11, <1>12, <1>13, <1>14,
     <1>15, <1>16, <1>17, <1>18, <1>19, <1>20, <1>21, <1>22, <1>23, <1>24, <1>25, <1>26
  DEF Next, World, User, Steps

\* What an expunge is about to remove is out of the map, and noted for the master.
Noted ==
  losses = 0 /\ (pc \in {"c_local", "u_map"} \/ (pc = "u_local" /\ op = "sync")) =>
    \A i \in 1 .. Len(folder) :
      "deleted" \in folder[i].flags => folder[i].uid \notin DOMAIN map

LEMMA CheckDeletionNotes ==
  ASSUME TypeInv, Uids, CheckDeletion, folder' = folder,
         \A i \in 1 .. Len(folder) : i > number => folder[i].uid = 0
  PROVE  \A i \in 1 .. Len(folder') :
           "deleted" \in folder'[i].flags => folder'[i].uid \notin DOMAIN map'
<1> DEFINE gone == {i \in 1 .. number : "deleted" \in folder[i].flags}
           uids == {folder[i].uid : i \in gone} \cap DOMAIN map
<1>1. map' = Without(map, uids)
  BY DEF CheckDeletion
<1>2. DOMAIN map' = DOMAIN map \ uids
  BY <1>1 DEF Without
<1>3. SUFFICES ASSUME NEW i \in 1 .. Len(folder), "deleted" \in folder[i].flags
               PROVE  folder[i].uid \notin DOMAIN map'
  OBVIOUS
<1>4. number \in Nat /\ Len(folder) \in Nat
  BY LastUids DEF TypeInv, PlacesRight
<1>5. CASE i <= number
  BY <1>2, <1>3, <1>4, <1>5
<1>6. CASE i > number
  BY <1>2, <1>4, <1>6 DEF Uids
<1> QED
  BY <1>4, <1>5, <1>6

LEMMA NotedStep ==
  ASSUME TypeInv, Noticed, Known, Uids, Noted, [Next]_vars
  PROVE  Noted'
<1> USE DEF server, stream, disk, memory, args, history, bounds
<1>1. CASE Deliver \/ OtherClient \/ UNCHANGED vars
  BY <1>1 DEF Deliver, OtherClient, vars, Noted
<1>2. CASE Lose
  <2>1. losses' # 0
    BY <1>2 DEF Lose, TypeInv, CountersRight
  <2> QED
    BY <2>1 DEF Noted
<1>3. CASE Crash \/ CrashWriting \/ s_fatal \/ i_fatal \/ c_map
  BY <1>3 DEF Crash, CrashWriting, s_fatal, i_fatal, Die, c_map, Gone, Idle, Noted
<1>4. CASE Open \/ NetSync \/ GoOnline \/ GoOffline \/ SyncRefused
  BY <1>4 DEF Open, NetSync, GoOnline, OpenMaster, GoOffline, SyncRefused, Issue, Noted
<1>5. CASE StartUpdate("update") \/ StartUpdate("sync") \/ SetFlag \/ Insert
  BY <1>5 DEF StartUpdate, SetFlag, Insert, Issue, Noted
<1>6. CASE Close
  <2>1. AllParsed(folder) /\ number = Len(folder) /\ Len(folder) \in Nat
    BY <1>6, LastUids DEF Close, Issue, Known, Rests
  <2>2. pc' = "c_local" => CheckDeletion
    BY <1>6 DEF Close
  <2>3. folder' = folder
    BY <1>6 DEF Close
  <2>4. pc' = "c_local" \/ pc' = "c_map"
    BY <1>6 DEF Close
  <2>5. CASE pc' = "c_local"
    BY <2>1, <2>2, <2>3, <2>5, CheckDeletionNotes DEF Noted
  <2> QED
    BY <2>4, <2>5 DEF Noted
<1>7. CASE c_local \/ u_local
  BY <1>7 DEF c_local, u_local, Idle, Noted
<1>8. CASE d_search \/ d_done \/ d_full
  BY <1>8 DEF d_search, d_done, d_full, Return, TypeInv, Control, Downloading, Noted
<1>9. CASE d_next \/ d_append \/ d_rename
  BY <1>9 DEF d_next, d_append, d_rename, Noted
<1>10. CASE s_delete \/ s_map \/ s_flags \/ s_unlink \/ s_download \/ s_abort \/ s_flagged
  BY <1>10 DEF s_delete, s_map, s_flags, s_unlink, s_download, Download, s_abort, Gone, Idle,
     s_flagged, Looping, Noted
<1>11. CASE s_upload \/ s_search \/ s_flush \/ s_state \/ s_end
  BY <1>11 DEF s_upload, Upload, s_search, s_flush, s_state, s_end, Gone, Idle, Noted
<1>12. CASE u_start
  <2>1. pc' = "u_check" \/ pc' = "u_net" \/ pc' = "d_search"
    BY <1>12 DEF u_start, Download
  <2> QED
    BY <2>1 DEF Noted
<1>13. CASE u_state \/ u_net \/ state_full
  BY <1>13 DEF u_state, u_net, state_full, Noted
<1>14. CASE u_check
  <2>1. losses = 0 => ~error
    BY DEF Noticed
  <2>2. folder' = folder /\ op' = op /\ losses' = losses
    BY <1>14 DEF u_check
  <2>3. pc' = "u_map" \/ pc' = "u_local"
    BY <1>14 DEF u_check
  <2>4. CASE op = "sync" /\ losses = 0
    <3>1. CheckDeletion
      BY <1>14, <2>1, <2>4 DEF u_check
    <3>2. \A i \in 1 .. Len(folder) : i > number => folder[i].uid = 0
      BY <2>4 DEF Known
    <3> QED
      BY <2>2, <3>1, <3>2, CheckDeletionNotes DEF Noted
  <2>5. CASE op # "sync"
    <3>1. pc' = "u_local"
      BY <1>14, <2>5 DEF u_check
    <3> QED
      BY <2>2, <2>5, <3>1 DEF Noted
  <2> QED
    BY <2>2, <2>4, <2>5 DEF Noted
<1>15. CASE u_map
  BY <1>15 DEF u_map, WriteMappings, Noted
<1>16. CASE i_upload \/ i_search \/ i_ping \/ i_state
  BY <1>16 DEF i_upload, Upload, i_search, i_ping, Download, i_state, Noted
<1> QED
  BY <1>1, <1>2, <1>3, <1>4, <1>5, <1>6, <1>7, <1>8, <1>9, <1>10, <1>11, <1>12, <1>13, <1>14,
     <1>15, <1>16 DEF Next, World, User, Steps

\* Every message of the local mailbox stays in its place.
KeptIn(f, g) ==
  \A k \in 1 .. Len(f) : k \in 1 .. Len(g) /\ g[k].msg = f[k].msg

\* ... and none is added.
AllIn(f, g) == Len(g) = Len(f) /\ KeptIn(f, g)

LEMMA KeepsMessages ==
  ASSUME TypeInv, TypeInv', Keeps
  PROVE  AllIn(folder, folder')
<1>1. /\ Len(Local) = Len(folder) /\ \A i \in 1 .. Len(Local) : Local[i].msg = folder[i].msg
  BY LocalRight
<1>2. /\ Len(Local') = Len(folder')
      /\ \A i \in 1 .. Len(folder') : Local'[i].msg = folder'[i].msg
  BY Numbering DEF TypeInv, FolderRight, Local, Numbers
<1>3. Alike(Local', Local)
  BY DEF Keeps, Same, Local
<1> QED
  BY <1>1, <1>2, <1>3 DEF Alike, AllIn, KeptIn

LEMMA InsertKeepsIn ==
  ASSUME TypeInv, Insert
  PROVE  KeptIn(folder, folder')
<1> DEFINE m == [uid |-> 0, msg |-> born + 1, flags |-> {}]
           grown == Append(folder, m)
<1>1. folder' = grown \/ Ping(grown)
  BY DEF Insert
<1>2. folder \in Seq(Message) /\ hdrLast \in Nat /\ UidsRight(folder, hdrLast) /\ born \in Nat
  BY DEF TypeInv, FolderRight, ServerRight
<1>3. m \in Message /\ m.uid = 0
  BY <1>2 DEF Message
<1> HIDE DEF m
<1>4. grown \in Seq(Message) /\ UidsRight(grown, hdrLast)
  BY <1>2, <1>3, Appended
<1>5. Len(folder) \in Nat /\ Len(grown) = Len(folder) + 1
      /\ \A k \in 1 .. Len(folder) : grown[k] = folder[k]
  BY <1>2, <1>3
<1> HIDE DEF grown
<1>6. CASE folder' = grown
  BY <1>5, <1>6 DEF KeptIn
<1>7. CASE folder' = Numbered(grown, hdrLast)
  <2>1. Numbers(folder', LastGiven(grown, hdrLast), grown, hdrLast)
    BY <1>2, <1>4, <1>7, Numbering
  <2> QED
    BY <1>5, <2>1 DEF Numbers, KeptIn
<1> QED
  BY <1>1, <1>6, <1>7, ParsedNumbered DEF Ping, Parse

LEMMA StayIn == TypeInv /\ folder' = folder => AllIn(folder, folder')
BY LastUids DEF AllIn, KeptIn

\* Only an expunge removes a message.
LEMMA OnlyExpunges ==
  ASSUME TypeInv, TypeInv', [Next]_vars
  PROVE  \/ AllIn(folder, folder')
         \/ (Insert \/ d_append) /\ KeptIn(folder, folder')
         \/ ExpungeLocal /\ (pc = "c_local" \/ (pc = "u_local" /\ op = "sync"))
<1> USE DEF server, stream, disk, memory, args, history, bounds
<1>1. FolderRight
  BY DEF TypeInv
<1>2. CASE Deliver \/ OtherClient \/ Lose \/ Crash \/ CrashWriting \/ UNCHANGED vars
  BY <1>2, StayIn DEF Deliver, OtherClient, Lose, Crash, CrashWriting, vars
<1>3. CASE Open
  <2>1. OpenLocal("open") /\ UNCHANGED <<arrived, born>> /\ UNCHANGED <<arrived, mappings>>
    BY <1>3 DEF Open
  <2> QED
    BY <2>1, SameAge, OpenLocalTypes, KeepsMessages
<1>4. CASE NetSync
  <2>1. CASE session = "closed"
    <3>1. OpenLocal("batch") /\ UNCHANGED <<arrived, born>> /\ UNCHANGED <<arrived, mappings>>
      BY <1>4, <2>1 DEF NetSync
    <3> QED
      BY <3>1, SameAge, OpenLocalTypes, KeepsMessages
  <2>2. CASE session # "closed"
    BY <1>4, <2>2, StayIn DEF NetSync
  <2> QED
    BY <2>1, <2>2
<1>5. CASE GoOnline \/ GoOffline \/ SyncRefused \/ StartUpdate("update") \/ StartUpdate("sync")
           \/ Close
  BY <1>5, StayIn DEF GoOnline, GoOffline, SyncRefused, StartUpdate, Close
<1>6. CASE SetFlag
  BY <1>6, SetFlagKeeps, KeepsMessages
<1>7. CASE Insert
  BY <1>7, InsertKeepsIn
<1>8. CASE c_local
  BY <1>8 DEF c_local
<1>9. CASE c_map \/ d_search \/ d_next \/ d_done \/ d_full \/ d_rename
  BY <1>9, StayIn DEF c_map, d_search, d_next, d_done, d_full, d_rename
<1>10. CASE d_append
  <2> DEFINE m == [uid |-> 0, msg |-> arrived[Min(todo)], flags |-> got]
  <2>1. folder' = Append(folder, m)
    BY <1>10 DEF d_append
  <2> HIDE DEF m
  <2>2. folder \in Seq(Message) /\ Len(folder) \in Nat
    BY LastUids
  <2>3. KeptIn(folder, folder')
    BY <2>1, <2>2 DEF KeptIn
  <2> QED
    BY <1>10, <2>3
<1>11. CASE s_delete \/ s_map \/ s_abort \/ s_flags \/ s_unlink \/ s_download
  BY <1>11, StayIn DEF s_delete, s_map, s_abort, s_flags, s_unlink, s_download
<1>12. CASE s_flagged
  BY <1>12, FlaggedKeeps, KeepsMessages
<1>13. CASE s_fatal \/ i_fatal \/ s_upload \/ s_search \/ s_flush \/ s_state \/ s_end
  BY <1>13, StayIn DEF s_fatal, i_fatal, Die, s_upload, s_search, s_flush, s_state, s_end
<1>14. CASE u_start \/ u_state \/ state_full \/ u_net \/ u_check \/ u_map
  BY <1>14, StayIn DEF u_start, u_state, state_full, u_net, u_check, u_map
<1>15. CASE u_local
  <2>1. CASE op = "sync"
    BY <1>15, <2>1 DEF u_local
  <2>2. CASE op # "sync"
    BY <1>1, <1>15, <2>2, PingKeeps, KeepsMessages DEF u_local
  <2> QED
    BY <2>1, <2>2
<1>16. CASE i_upload \/ i_search \/ i_ping \/ i_state
  BY <1>16, StayIn DEF i_upload, i_search, i_ping, i_state
<1> QED
  BY <1>2, <1>3, <1>4, <1>5, <1>6, <1>7, <1>8, <1>9, <1>10, <1>11, <1>12, <1>13, <1>14,
     <1>15, <1>16 DEF Next, World, User, Steps

\* An expunge keeps what is not marked.
LEMMA ExpungeKeepsOthers ==
  ASSUME TypeInv, ExpungeLocal, NEW i \in 1 .. Len(folder), "deleted" \notin folder[i].flags
  PROVE  \E j \in 1 .. Len(folder') : folder'[j].msg = folder[i].msg
<1> DEFINE p == Numbered(folder, hdrLast)
           I == {k \in DOMAIN p : "deleted" \notin p[k].flags}
<1>1. folder' = Selected(p, I)
  BY ParsedNumbered DEF ExpungeLocal
<1>2. Numbers(p, LastGiven(folder, hdrLast), folder, hdrLast)
  BY Numbering DEF TypeInv, FolderRight
<1> HIDE DEF p
<1>3. p \in Seq(Message) /\ Len(p) = Len(folder)
      /\ p[i].msg = folder[i].msg /\ p[i].flags = folder[i].flags
  BY <1>2 DEF Numbers
<1>4. i \in I \cap (1 .. Len(p))
  BY <1>3
<1> HIDE DEF I
<1>5. \E j \in 1 .. Len(folder') : folder'[j] = p[i]
  <2>1. p \in Seq(Message) /\ folder' = Selected(p, I)
    BY <1>1, <1>3
  <2>2. \A k \in I \cap (1 .. Len(p)) : \E j \in 1 .. Len(folder') : folder'[j] = p[k]
    BY <2>1, SelectedElements
  <2> QED
    BY <1>4, <2>2
<1> QED
  BY <1>3, <1>5

\* What a local expunge removes has left the map before, and is noted for the
\* master: Dis_CloseProc() and Dis_UpdateProc() (ratDisFolder.c), for every set of
\* operations and as long as no connection is lost.
THEOREM DeletionsAreNoted == Spec => DeletionsNoted
<1> DEFINE Inv == Noticed /\ Known /\ Uids /\ Noted
<1>1. Init => Inv
  BY DEF Init, Noticed, Known, Rests, Loops, Uids, Positive, Noted
<1>2. TypeInv /\ Inv /\ [Next]_vars => Inv'
  BY NoticedStep, KnownStep, UidsStep, NotedStep
<1>3. TypeInv /\ TypeInv' /\ Inv /\ [Next]_vars =>
        [losses = 0 => \A i \in DOMAIN folder :
           (\A j \in DOMAIN folder' : folder'[j].msg # folder[i].msg) =>
             folder[i].uid \notin DOMAIN map]_vars
  <2> SUFFICES ASSUME TypeInv, TypeInv', Inv, [Next]_vars, losses = 0,
                      NEW i \in DOMAIN folder,
                      \A j \in DOMAIN folder' : folder'[j].msg # folder[i].msg
               PROVE  folder[i].uid \notin DOMAIN map
    OBVIOUS
  <2>1. DOMAIN folder = 1 .. Len(folder) /\ DOMAIN folder' = 1 .. Len(folder')
    <3>1. folder \in Seq(Message) /\ folder' \in Seq(Message)
      BY DEF TypeInv, FolderRight
    <3> QED
      BY <3>1
  <2>2. ~KeptIn(folder, folder')
    BY <2>1 DEF KeptIn
  <2>3. ExpungeLocal /\ (pc = "c_local" \/ (pc = "u_local" /\ op = "sync"))
    BY <2>2, OnlyExpunges DEF AllIn
  <2>4. "deleted" \in folder[i].flags
    BY <2>1, <2>3, ExpungeKeepsOthers
  <2> QED
    BY <2>1, <2>3, <2>4 DEF Noted
<1> QED
  BY <1>1, <1>2, <1>3, TypesHold, PTL DEF Spec, DeletionsNoted

-----------------------------------------------------------------------------
(* Nothing is downloaded twice, and the state never goes back, while the    *)
(* disk has room, nothing crashes and the user inserts no message himself.  *)

\* The local uids in lines of mappings.
Names(lines) == {lines[j][2] : j \in 1 .. Len(lines)}

\* The local expunge is under way: what is deleted is out of the map already.
Halfway == pc \in {"c_local", "u_map"} \/ (pc = "u_local" /\ op = "sync")

\* Every local message is mapped.
Mapped ==
  /\ pc # "s_search"
  /\ pc \notin {"c_local", "c_map", "u_map"} => ~mapChanged
  /\ ~mapChanged => DOMAIN map \subseteq Names(mappings)
  /\ pc = "d_rename" => localLast \in Names(mappings)
  /\ \A i \in 1 .. Len(folder) :
       IF session = "closed" THEN Local[i].uid \in Names(mappings)
       ELSE \/ Local[i].uid \in DOMAIN map
            \/ pc = "d_rename" /\ i = Len(folder)
            \/ Halfway /\ "deleted" \in folder[i].flags

\* What the stream and the folder have seen last is not behind the state.
Ahead == stateUid <= lastUid /\ stateUid <= uidLast

Opening == {"s_delete", "s_map", "s_flags", "s_unlink", "s_download"}

Advanced ==
  /\ stateUid # Unreadable
  /\ pc \in Opening =>
       stateUid <= last /\ stateUid <= uidLast
  /\ pc \in Downloading => stateUid <= uidLast /\ \A u \in todo : stateUid < u
  /\ pc \in {"s_loop", "s_state"} => stateUid <= last /\ last = uidLast
  /\ pc = "s_end" => stateUid = last /\ last = uidLast
  /\ pc \in {"u_state", "u_net"} => Ahead
  /\ pc = "u_state" => lastUid = uidLast
  /\ pc \in {"u_start", "u_check", "u_map", "u_local", "idle", "c_local", "c_map"} =>
       /\ online \/ op = "online" => Ahead
       /\ lastUid = 0 \/ stateUid <= lastUid
  /\ pc \in Opening =>
       lastUid = 0 \/ stateUid <= lastUid
  /\ pc = "idle" => op = "none"
  /\ session = "closed" => ~online

\* A uid of the master stands for one message, a local message is what a uid up to
\* the state stands for, and no two are the same.
Copies ==
  /\ \A u, v \in 1 .. Len(arrived) : arrived[u] = arrived[v] => u = v
  /\ \A i, j \in 1 .. Len(folder) : folder[i].msg = folder[j].msg => i = j
  /\ \A i \in 1 .. Len(folder) :
       \/ \E u \in 1 .. Len(arrived) : u <= stateUid /\ arrived[u] = folder[i].msg
       \/ pc = "d_rename" /\ i = Len(folder) /\ folder[i].msg = arrived[Min(todo)]

Steady == fulls + crashes = 0 => Mapped /\ Advanced /\ Copies


\* What WriteMappings() writes has a line for each local uid.
LEMMA LinesNames ==
  ASSUME NEW n \in Nat, NEW f, MapTo(f, n)
  PROVE  DOMAIN f \subseteq Names(LinesOf(f))
<1> DEFINE S == {<<f[l], l>> : l \in DOMAIN f}
<1>1. IsFiniteSet(S)
  <2> DEFINE g == [l \in DOMAIN f |-> <<f[l], l>>]
  <2>1. g \in Surjection(DOMAIN f, S) /\ IsFiniteSet(DOMAIN f)
    BY DEF Surjection, MapTo
  <2> HIDE DEF g, S
  <2> QED
    BY <2>1, FS_Surjection
<1>2. ASSUME NEW l \in DOMAIN f PROVE l \in Names(LinesOf(f))
  <2>1. <<f[l], l>> \in S
    OBVIOUS
  <2>2. LinesOf(f) = SetToSeq(S)
    BY DEF LinesOf
  <2> HIDE DEF S
  <2>3. PICK j \in 1 .. Len(LinesOf(f)) : LinesOf(f)[j] = <<f[l], l>>
    BY <1>1, <2>1, <2>2, SetSequence
  <2>4. LinesOf(f)[j][2] = l
    BY <2>3
  <2> QED
    BY <2>4 DEF Names
<1> QED
  BY <1>2

\* Lines that are added take no name away.
LEMMA NamesJoin ==
  ASSUME NEW s \in Seq(Line), NEW t \in Seq(Line)
  PROVE  Names(s) \subseteq Names(s \o t) /\ Names(t) \subseteq Names(s \o t)
<1>1. Len(s) \in Nat /\ Len(t) \in Nat /\ Len(s \o t) = Len(s) + Len(t)
  OBVIOUS
<1>2. \A j \in 1 .. Len(s) : (s \o t)[j] = s[j] /\ j \in 1 .. Len(s \o t)
  OBVIOUS
<1>3. \A j \in 1 .. Len(t) : (s \o t)[Len(s) + j] = t[j] /\ Len(s) + j \in 1 .. Len(s \o t)
  OBVIOUS
<1> DEFINE r == s \o t
<1> HIDE DEF r
<1>4. ASSUME NEW x \in Names(s) PROVE x \in Names(r)
  <2>1. PICK j \in 1 .. Len(s) : s[j][2] = x
    BY DEF Names
  <2>2. r[j][2] = x /\ j \in 1 .. Len(r)
    BY <1>2, <2>1 DEF r
  <2> QED
    BY <2>2 DEF Names
<1>5. ASSUME NEW x \in Names(t) PROVE x \in Names(r)
  <2>1. PICK j \in 1 .. Len(t) : t[j][2] = x
    BY DEF Names
  <2>2. r[Len(s) + j][2] = x /\ Len(s) + j \in 1 .. Len(r)
    BY <1>3, <2>1 DEF r
  <2> QED
    BY <2>2 DEF Names
<1> QED
  BY <1>4, <1>5 DEF r

Plain == {"d_rename", "c_local", "c_map", "u_map", "s_search"}

\* A step that leaves the local copy and the map alone.
LEMMA MappedSame ==
  ASSUME Mapped, UNCHANGED <<folder, hdrLast, session, map, mapChanged>>,
         Names(mappings) \subseteq Names(mappings'), ~Halfway,
         pc # "d_rename", pc' \notin Plain,
         pc \in {"c_local", "c_map", "u_map"} => ~mapChanged
  PROVE  Mapped'
<1>1. Local' = Local
  BY DEF Local
<1>2. ~mapChanged
  BY DEF Mapped
<1>3. DOMAIN map \subseteq Names(mappings')
  BY <1>2 DEF Mapped
<1>4. \A i \in 1 .. Len(folder') :
        IF session' = "closed" THEN Local'[i].uid \in Names(mappings')
        ELSE Local'[i].uid \in DOMAIN map'
  BY <1>1 DEF Mapped, Halfway
<1> QED
  BY <1>2, <1>3, <1>4 DEF Mapped, Plain

\* A step of the world.
LEMMA MappedWorld ==
  ASSUME Mapped,
         UNCHANGED <<folder, hdrLast, session, map, mapChanged, mappings, pc, op, localLast>>
  PROVE  Mapped'
<1>1. Local' = Local
  BY DEF Local
<1> QED
  BY <1>1 DEF Mapped, Halfway

\* The program closes the folder, or is gone; the map has been written.
LEMMA MappedGone ==
  ASSUME Mapped, Gone, UNCHANGED <<folder, hdrLast>>, session # "closed",
         DOMAIN map \subseteq Names(mappings'), ~Halfway, pc # "d_rename"
  PROVE  Mapped'
<1>1. Local' = Local
  BY DEF Local
<1>2. \A i \in 1 .. Len(folder) : Local[i].uid \in DOMAIN map
  BY DEF Mapped
<1>3. pc' = "idle" /\ ~mapChanged' /\ DOMAIN map' = {} /\ session' = "closed"
  BY DEF Gone, Idle
<1>4. \A i \in 1 .. Len(folder) : Local[i].uid \in Names(mappings')
  BY <1>2
<1> QED
  BY <1>1, <1>3, <1>4 DEF Mapped

\* The driver parses the local mailbox.
LEMMA MappedKeeps ==
  ASSUME TypeInv, TypeInv', Mapped, Keeps, UNCHANGED <<session, map, mapChanged, mappings>>,
         ~Halfway, pc # "d_rename", pc' \notin Plain, session # "closed", pc # "c_map"
  PROVE  Mapped'
<1>1. Len(Local) = Len(folder) /\ Len(Local') = Len(folder')
      /\ \A i \in 1 .. Len(Local) : Local'[i].uid = Local[i].uid
  <2>1. Len(Local) = Len(folder)
    BY LocalRight
  <2>2. Len(Local') = Len(folder')
    BY Numbering DEF TypeInv, FolderRight, Local, Numbers
  <2>3. Alike(Local', Local)
    BY DEF Keeps, Same, Local
  <2> QED
    BY <2>1, <2>2, <2>3 DEF Alike
<1>2. Len(Local') = Len(Local)
  BY DEF Keeps, Same, Local, Alike
<1>3. ~mapChanged
  BY DEF Mapped, Halfway
<1>4. \A i \in 1 .. Len(folder) : Local[i].uid \in DOMAIN map
  BY DEF Mapped
<1> QED
  BY <1>1, <1>2, <1>3, <1>4 DEF Mapped, Plain

\* The folder is opened, and its mappings are read.
LEMMA MappedOpen ==
  ASSUME TypeInv, TypeInv', Mapped, NEW s, OpenLocal(s), UNCHANGED mappings,
         session = "closed", Keeps, pc' \notin Plain
  PROVE  Mapped'
<1>1. Len(Local) = Len(folder) /\ Len(Local') = Len(folder')
      /\ \A i \in 1 .. Len(Local) : Local'[i].uid = Local[i].uid
  <2>1. Len(Local) = Len(folder)
    BY LocalRight
  <2>2. Len(Local') = Len(folder')
    BY Numbering DEF TypeInv, FolderRight, Local, Numbers
  <2>3. Alike(Local', Local)
    BY DEF Keeps, Same, Local
  <2> QED
    BY <2>1, <2>2, <2>3 DEF Alike
<1>2. Len(Local') = Len(Local)
  BY DEF Keeps, Same, Local, Alike
<1>3. ~mapChanged' /\ map' = ReadMappings(mappings)
  BY DEF OpenLocal
<1>4. DOMAIN map' = Names(mappings)
  <2>1. mappings \in Seq(Line)
    BY DEF TypeInv, MapsRight, LinesTo
  <2> QED
    BY <1>3, <2>1, ReadDomain DEF Names
<1>5. \A i \in 1 .. Len(folder) : Local[i].uid \in Names(mappings)
  BY DEF Mapped
<1>6. \A i \in 1 .. Len(folder') : Local'[i].uid \in DOMAIN map' /\ Local'[i].uid \in Names(mappings')
  BY <1>1, <1>2, <1>4, <1>5
<1> QED
  BY <1>3, <1>4, <1>6 DEF Mapped, Plain

\* CheckDeletion() takes out of the map what is marked, and nothing else.
LEMMA MappedDeletion ==
  ASSUME TypeInv, Mapped, Uids, CheckDeletion, UNCHANGED <<folder, hdrLast, session, mappings>>,
         ~Halfway, pc # "d_rename", session # "closed", Halfway', pc' \in {"c_local", "u_map"},
         pc # "c_map"
  PROVE  Mapped'
<1> DEFINE gone == {i \in 1 .. number : "deleted" \in folder[i].flags}
           uids == {folder[i].uid : i \in gone} \cap DOMAIN map
<1>1. DOMAIN map' = DOMAIN map \ uids
  BY DEF CheckDeletion, Without
<1>2. Local' = Local
  BY DEF Local
<1>3. ASSUME NEW i \in 1 .. Len(folder), Local[i].uid \notin DOMAIN map'
      PROVE  "deleted" \in folder[i].flags
  <2>1. Local[i].uid \in DOMAIN map
    BY DEF Mapped
  <2>2. PICK k \in gone : folder[k].uid = Local[i].uid
    BY <1>1, <1>3, <2>1
  <2>3. number \in 0 .. Len(folder) /\ Len(folder) \in Nat
    BY LastUids DEF TypeInv, PlacesRight
  <2>4. k \in 1 .. Len(folder) /\ folder[k].uid # 0
    BY <2>1, <2>2, <2>3 DEF Uids
  <2>5. Local[k].uid = folder[k].uid
    BY <2>4, LocalRight DEF Numbers
  <2>6. k = i
    <3>1. /\ Len(Local) = Len(folder) /\ \A j \in 1 .. Len(Local) : Local[j].uid \in Nat
          /\ Ascends(Local, LastGiven(folder, hdrLast))
      BY LocalRight
    <3> QED
      BY <2>2, <2>3, <2>4, <2>5, <3>1 DEF Ascends
  <2> QED
    BY <2>2, <2>6
<1>4. ~mapChanged
  BY DEF Mapped, Halfway
<1>5. DOMAIN map' \subseteq Names(mappings')
  BY <1>1, <1>4 DEF Mapped
<1> HIDE DEF gone, uids
<1> QED
  BY <1>2, <1>3, <1>5 DEF Mapped

\* The local expunge leaves what is not marked, which the map has.
LEMMA MappedExpunge ==
  ASSUME TypeInv, TypeInv', Mapped, ExpungeLocal, UNCHANGED <<session, map, mapChanged, mappings>>,
         pc # "d_rename", session # "closed", pc' \in {"c_map", "idle"},
         pc' = "idle" => ~mapChanged
  PROVE  Mapped'
<1> DEFINE I == {k \in DOMAIN Local : "deleted" \notin Local[k].flags}
<1>1. folder' = Selected(Local, I)
  BY ParsedNumbered DEF ExpungeLocal, Local
<1>2. /\ Numbers(Local, LastGiven(folder, hdrLast), folder, hdrLast)
      /\ Local \in Seq(Message) /\ Len(Local) = Len(folder)
  BY LocalRight
<1>3. Selects(folder', Local, I, Len(Local))
  <2> HIDE DEF I
  <2> QED
    BY <1>1, <1>2, SelectedSelects
<1>4. Local' = folder'
  <2>1. AllParsed(folder')
    BY ExpungeLoses DEF TypeInv
  <2>2. folder' \in Seq(Message) /\ hdrLast' \in Nat
    BY DEF TypeInv, FolderRight
  <2> QED
    BY <2>1, <2>2, NoneUnparsed DEF Local
<1>5. ASSUME NEW i \in 1 .. Len(folder') PROVE Local'[i].uid \in DOMAIN map
  <2>1. PICK k \in I \cap (1 .. Len(Local)) : folder'[i] = Local[k]
    <3> HIDE DEF I
    <3> QED
      BY <1>3 DEF Selects
  <2>2. k \in 1 .. Len(folder) /\ "deleted" \notin folder[k].flags
    BY <1>2, <2>1 DEF Numbers
  <2>3. Local[k].uid \in DOMAIN map
    BY <2>2 DEF Mapped
  <2> QED
    BY <1>4, <2>1, <2>3
<1>6. ~mapChanged' => DOMAIN map' \subseteq Names(mappings')
  BY DEF Mapped
<1> QED
  BY <1>5, <1>6 DEF Mapped


\* What an append does to the local messages: it adds one, with the next uid.
LEMMA AppendLocal ==
  ASSUME TypeInv, d_append
  PROVE  LET n == Len(folder) + 1 IN
         /\ Len(folder) \in Nat /\ LastGiven(folder', hdrLast') = LastGiven(folder, hdrLast) + 1
         /\ Len(Local') = n /\ Local'[n].uid = LastGiven(folder, hdrLast) + 1
         /\ Local'[n].msg = arrived[Min(todo)]
         /\ \A i \in 1 .. Len(folder) : Local'[i] = Local[i]
<1> DEFINE n == Len(folder) + 1
           L == LastGiven(folder, hdrLast)
           u == Min(todo)
<1>1. hdrLast' = hdrLast
  BY DEF d_append
<1>2. folder \in Seq(Message) /\ hdrLast \in Nat /\ UidsRight(folder, hdrLast)
      /\ Len(folder) \in Nat
  BY DEF TypeInv, FolderRight
<1>3. PICK o \in Message : o.uid = 0 /\ o.msg = arrived[u] /\ folder' = Append(folder, o)
  BY AppendGains DEF Gains
<1> DEFINE g == Append(folder, o)
<1>4. OneMore(folder, hdrLast, g, o)
  <2>1. g = Append(folder, o) /\ o \in Message /\ o.uid = 0
    BY <1>3
  <2> HIDE DEF g, n, L
  <2> QED
    BY <1>2, <2>1, Appended
<1>5. /\ Local' = Numbered(g, hdrLast) /\ Local = Numbered(folder, hdrLast)
      /\ LastGiven(folder', hdrLast') = LastGiven(g, hdrLast)
  BY <1>1, <1>3 DEF Local
<1> HIDE DEF g
<1> QED
  BY <1>2, <1>3, <1>4, <1>5 DEF OneMore

\* The message that is appended will be mapped: its line is in the file.
LEMMA MappedAppend ==
  ASSUME TypeInv, TypeInv', Sound, Mapped, d_append
  PROVE  Mapped'
<1>1. /\ UNCHANGED <<map, mappings, mapChanged, session, localLast>>
      /\ pc = "d_append" /\ pc' = "d_rename"
  BY DEF d_append, memory
<1>2. session # "closed"
  BY <1>1 DEF TypeInv, Control
<1>3. localLast \in Names(mappings)
  <2>1. /\ 1 <= Len(mappings) /\ mappings[Len(mappings)] = <<Min(todo), localLast>>
        /\ Len(mappings) \in Nat
    BY <1>1 DEF Sound, TypeInv, MapsRight, LinesTo
  <2>2. Len(mappings) \in 1 .. Len(mappings) /\ mappings[Len(mappings)][2] = localLast
    BY <2>1
  <2> QED
    BY <2>2 DEF Names
<1>4. Len(folder') = Len(folder) + 1 /\ Len(folder) \in Nat
      /\ \A i \in 1 .. Len(folder) : Local'[i] = Local[i]
  <2>1. Len(Local') = Len(folder')
    BY Numbering DEF TypeInv, FolderRight, Local, Numbers
  <2> QED
    BY <2>1, AppendLocal
<1>5. \A i \in 1 .. Len(folder) : Local[i].uid \in DOMAIN map
  BY <1>1, <1>2 DEF Mapped, Halfway
<1>6. ~mapChanged /\ DOMAIN map \subseteq Names(mappings)
  BY <1>1 DEF Mapped
<1>7. \A i \in 1 .. Len(folder') : Local'[i].uid \in DOMAIN map \/ i = Len(folder')
  BY <1>4, <1>5
<1> QED
  BY <1>1, <1>2, <1>3, <1>6, <1>7 DEF Mapped

LEMMA MappedRename ==
  ASSUME TypeInv, Sound, Mapped, d_rename
  PROVE  Mapped'
<1>1. /\ UNCHANGED <<folder, hdrLast, mappings, mapChanged, session, localLast>>
      /\ pc = "d_rename" /\ pc' = "d_next" /\ DOMAIN map' = DOMAIN map \cup {localLast}
  BY DEF d_rename, Put
<1>2. Local' = Local
  BY <1>1 DEF Local
<1>3. session # "closed"
  BY <1>1 DEF TypeInv, Control
<1>4. Local[Len(folder)].uid = localLast
  <2>1. Len(Local) = Len(folder)
    BY LocalRight
  <2> QED
    BY <1>1, <2>1 DEF Sound
<1>5. \A i \in 1 .. Len(folder) : Local[i].uid \in DOMAIN map'
  BY <1>1, <1>3, <1>4 DEF Mapped, Halfway
<1>6. ~mapChanged /\ DOMAIN map' \subseteq Names(mappings)
  BY <1>1 DEF Mapped
<1> QED
  BY <1>1, <1>2, <1>3, <1>5, <1>6 DEF Mapped

\* Every local message is mapped, so nothing is ever uploaded.
LEMMA NothingUploaded ==
  ASSUME TypeInv, Known, Mapped
  PROVE  ~s_upload
<1> SUFFICES ASSUME s_upload PROVE FALSE
  OBVIOUS
<1>1. Looping /\ pc = "s_loop" /\ GetMasterUID(map, folder[msgno]) = 0
  BY DEF s_upload, Looping
<1>2. msgno \in 1 .. Len(folder) /\ msgno \in 1 .. nmsgs
  BY <1>1, InLoop DEF Looping
<1>3. folder[msgno].uid # 0
  BY <1>1, <1>2 DEF Known, Loops
<1>4. Local[msgno] = folder[msgno]
  BY <1>2, <1>3, LocalRight DEF Numbers
<1>5. folder[msgno].uid \in DOMAIN map
  <2>1. session # "closed"
    BY <1>1 DEF TypeInv, Control
  <2> QED
    BY <1>1, <1>2, <1>4, <2>1 DEF Mapped, Halfway
<1>6. map[folder[msgno].uid] \in 1 .. Len(arrived) /\ Len(arrived) \in Nat
  BY <1>5, LastUids DEF TypeInv, MapsRight, MapTo
<1> QED
  BY <1>1, <1>5, <1>6 DEF GetMasterUID

LEMMA MappedStep ==
  ASSUME NoInserts, TypeInv, TypeInv', NoInsert, Known, Uids, Sound, Mapped, [Next]_vars,
         ~d_full, ~state_full, ~Crash, ~CrashWriting
  PROVE  Mapped'
<1> USE DEF server, stream, disk, memory, args, history, bounds
<1>1. CASE Deliver \/ OtherClient \/ Lose \/ UNCHANGED vars
  <2>1. UNCHANGED <<folder, hdrLast, session, map, mapChanged, mappings, pc, op, localLast>>
    BY <1>1, Zenon DEF Deliver, OtherClient, Lose, vars
  <2> QED
    BY <2>1, MappedWorld
<1>2. CASE Open
  <2>1. OpenLocal("open") /\ UNCHANGED <<arrived, born>> /\ UNCHANGED <<arrived, mappings>>
        /\ session = "closed" /\ pc' \notin Plain
    BY <1>2 DEF Open, Issue, OpenMaster, Plain
  <2>2. Keeps
    BY <2>1, SameAge, OpenLocalTypes
  <2> QED
    BY <2>1, <2>2, MappedOpen
<1>3. CASE NetSync
  <2>1. pc = "idle" /\ pc' = "s_delete" /\ UNCHANGED <<arrived, born>> /\ UNCHANGED <<arrived, mappings>>
    BY <1>3 DEF NetSync, Issue, OpenMaster
  <2>2. CASE session = "closed"
    <3>1. OpenLocal("batch")
      BY <1>3, <2>2 DEF NetSync
    <3>2. Keeps
      BY <2>1, <3>1, SameAge, OpenLocalTypes
    <3> QED
      BY <2>1, <2>2, <3>1, <3>2, MappedOpen DEF Plain
  <2>3. CASE session # "closed"
    <3>1. UNCHANGED <<folder, hdrLast, session, map, mapChanged>>
      BY <1>3, <2>3 DEF NetSync
    <3> QED
      BY <2>1, <3>1, MappedSame DEF Plain, Halfway
  <2> QED
    BY <2>2, <2>3
<1>4. CASE GoOnline \/ GoOffline \/ SyncRefused \/ StartUpdate("update") \/ StartUpdate("sync")
  <2>1. UNCHANGED <<folder, hdrLast, session, map, mapChanged, mappings>> /\ pc = "idle"
        /\ pc' \in {"idle", "s_delete", "u_start"}
    BY <1>4 DEF GoOnline, OpenMaster, GoOffline, SyncRefused, StartUpdate, Issue
  <2> QED
    BY <2>1, MappedSame DEF Plain, Halfway
<1>5. CASE SetFlag
  <2>1. Keeps /\ UNCHANGED <<map, mappings, session, pc>> /\ pc = "idle"
    BY <1>5, SetFlagKeeps
  <2>2. UNCHANGED mapChanged /\ session # "closed"
    BY <1>5 DEF SetFlag
  <2> QED
    BY <2>1, <2>2, MappedKeeps DEF Plain, Halfway
<1>6. CASE Close
  <2>1. UNCHANGED <<folder, hdrLast, session, mappings>> /\ pc = "idle" /\ session # "closed"
    BY <1>6 DEF Close, Issue
  <2>2. CASE CheckDeletion /\ pc' = "c_local"
    BY <2>1, <2>2, MappedDeletion DEF Halfway
  <2>3. CASE UNCHANGED <<changes, map, mapChanged>> /\ pc' = "c_map"
    <3>1. Local' = Local
      BY <2>1 DEF Local
    <3> QED
      BY <2>1, <2>3, <3>1 DEF Mapped, Halfway
  <2> QED
    BY <1>6, <2>2, <2>3 DEF Close
<1>7. CASE Insert \/ i_upload \/ i_search \/ i_ping \/ i_fatal \/ i_state
  BY <1>7 DEF Insert, Issue, NoInserts, i_upload, i_search, i_ping, i_fatal, i_state, NoInsert
<1>8. CASE c_local
  <2>1. ExpungeLocal /\ UNCHANGED <<session, map, mapChanged, mappings>> /\ pc = "c_local"
        /\ pc' = "c_map"
    BY <1>8 DEF c_local
  <2>2. session # "closed"
    BY <2>1 DEF TypeInv, Control
  <2> QED
    BY <2>1, <2>2, MappedExpunge
<1>9. CASE c_map
  <2>1. Gone /\ UNCHANGED <<folder, hdrLast>> /\ pc = "c_map"
        /\ mappings' = IF mapChanged THEN LinesOf(map) ELSE mappings
    BY <1>9 DEF c_map, WriteMappings
  <2>2. session # "closed" /\ MapTo(map, Len(arrived)) /\ Len(arrived) \in Nat
    BY <2>1, LastUids DEF TypeInv, Control, MapsRight
  <2>3. DOMAIN map \subseteq Names(mappings')
    BY <2>1, <2>2, LinesNames DEF Mapped
  <2> QED
    BY <2>1, <2>2, <2>3, MappedGone DEF Halfway
<1>10. CASE d_search \/ d_done
  <2>1. /\ UNCHANGED <<folder, hdrLast, session, map, mapChanged, mappings>>
        /\ pc \in {"d_search", "d_next"} /\ (pc' = ret \/ pc' = "d_next")
    BY <1>10 DEF d_search, d_done, Return
  <2>2. ret \in {"s_loop", "u_state", "i_state"}
    BY <2>1 DEF TypeInv, Control, Downloading
  <2> QED
    BY <2>1, <2>2, MappedSame DEF Plain, Halfway
<1>11. CASE d_next
  <2> DEFINE e == <<Min(todo), localLast'>>
  <2>1. /\ UNCHANGED <<folder, hdrLast, session, map, mapChanged>>
        /\ pc = "d_next" /\ pc' \in {"d_next", "d_append"}
        /\ mappings' = mappings \/ mappings' = mappings \o Append(mapBuf, e)
    BY <1>11 DEF d_next, WriteLine
  <2>2. mappings \in Seq(Line) /\ mapBuf \in Seq(Line)
    BY DEF TypeInv, MapsRight, LinesTo
  <2>3. e \in Line
    <3>1. todo # {} /\ todo \in SUBSET Nat /\ localLast \in Nat
      BY <1>11 DEF d_next, TypeInv, PlacesRight, MapsRight
    <3>2. Min(todo) \in Nat
      BY <3>1, MinNumber
    <3>3. localLast' \in Nat
      BY DEF TypeInv, MapsRight
    <3> QED
      BY <3>2, <3>3 DEF Line
  <2> HIDE DEF e
  <2>4. Append(mapBuf, e) \in Seq(Line)
    BY <2>2, <2>3
  <2>5. Names(mappings) \subseteq Names(mappings')
    BY <2>1, <2>2, <2>4, NamesJoin
  <2> QED
    BY <2>1, <2>5, MappedSame DEF Plain, Halfway
<1>12. CASE d_append
  BY <1>12, MappedAppend
<1>13. CASE d_rename
  BY <1>13, MappedRename
<1>14. CASE s_delete \/ s_map \/ s_flags \/ s_unlink \/ s_download
  <2>1. UNCHANGED <<folder, hdrLast, session, map, mapChanged, mappings>>
        /\ pc \in {"s_delete", "s_map", "s_flags", "s_unlink", "s_download"}
        /\ pc' \in {"s_map", "s_flags", "s_unlink", "s_download", "d_search"}
    BY <1>14 DEF s_delete, s_map, s_flags, s_unlink, s_download, Download
  <2> QED
    BY <2>1, MappedSame DEF Plain, Halfway
<1>15. CASE s_abort \/ s_end
  <2>1. pc \in {"s_flags", "s_unlink", "s_end"} /\ UNCHANGED <<folder, hdrLast, mappings>>
        /\ \/ Gone
           \/ UNCHANGED <<session, map, mapChanged>> /\ pc' \in {"idle", "u_start"}
    BY <1>15 DEF s_abort, s_end, Idle
  <2>2. session # "closed"
    BY <2>1 DEF TypeInv, Control
  <2>3. DOMAIN map \subseteq Names(mappings) /\ ~mapChanged
    BY <2>1 DEF Mapped
  <2> QED
    BY <2>1, <2>2, <2>3, MappedGone, MappedSame DEF Plain, Halfway
<1>16. CASE s_flagged
  <2>1. Keeps
    BY <1>16, FlaggedKeeps
  <2>2. UNCHANGED <<session, map, mapChanged, mappings, pc>> /\ pc = "s_loop"
    BY <1>16 DEF s_flagged, Looping
  <2>3. session # "closed"
    BY <2>2 DEF TypeInv, Control
  <2> QED
    BY <2>1, <2>2, <2>3, MappedKeeps DEF Plain, Halfway
<1>17. CASE s_fatal
  <2>1. Gone /\ UNCHANGED <<folder, hdrLast, mappings>> /\ pc = "s_loop"
    BY <1>17 DEF s_fatal, Die, Looping
  <2>2. session # "closed"
    BY <2>1 DEF TypeInv, Control
  <2>3. DOMAIN map \subseteq Names(mappings)
    BY <2>1 DEF Mapped
  <2> QED
    BY <2>1, <2>2, <2>3, MappedGone DEF Halfway
<1>18. CASE s_upload
  BY <1>18, NothingUploaded
<1>19. CASE s_search
  BY <1>19 DEF s_search, Mapped
<1>20. CASE s_flush \/ u_state
  <2>1. /\ UNCHANGED <<folder, hdrLast, session, map, mapChanged>>
        /\ mappings' = mappings \o mapBuf
        /\ pc \in {"s_loop", "u_state"} /\ pc' \in {"s_state", "u_net"}
    BY <1>20 DEF s_flush, u_state
  <2>2. mappings \in Seq(Line) /\ mapBuf \in Seq(Line)
    BY DEF TypeInv, MapsRight, LinesTo
  <2>3. Names(mappings) \subseteq Names(mappings')
    BY <2>1, <2>2, NamesJoin
  <2> QED
    BY <2>1, <2>3, MappedSame DEF Plain, Halfway
<1>21. CASE s_state \/ u_start \/ u_net
  <2>1. /\ UNCHANGED <<folder, hdrLast, session, map, mapChanged, mappings>>
        /\ pc \in {"s_state", "u_start", "u_net"}
        /\ pc' \in {"s_end", "d_search", "u_net", "u_check"}
    BY <1>21 DEF s_state, u_start, Download, u_net
  <2> QED
    BY <2>1, MappedSame DEF Plain, Halfway
<1>22. CASE u_check
  <2>1. /\ UNCHANGED <<folder, hdrLast, session, mappings>> /\ pc = "u_check"
    BY <1>22 DEF u_check
  <2>2. session # "closed"
    BY <2>1 DEF TypeInv, Control
  <2>3. CASE CheckDeletion /\ pc' = "u_map"
    BY <2>1, <2>2, <2>3, MappedDeletion DEF Halfway
  <2>4. CASE pc' = "u_local" /\ UNCHANGED <<changes, map, mapChanged>>
    BY <2>1, <2>4, MappedSame DEF Plain, Halfway
  <2> QED
    BY <1>22, <2>3, <2>4 DEF u_check
<1>23. CASE u_map
  <2>1. /\ UNCHANGED <<folder, hdrLast, session, map, op>> /\ pc = "u_map" /\ pc' = "u_local"
        /\ mappings' = IF mapChanged THEN LinesOf(map) ELSE mappings
        /\ ~mapChanged'
    BY <1>23 DEF u_map, WriteMappings
  <2>2. op' = "sync"
    BY <2>1 DEF Known
  <2>3. DOMAIN map' \subseteq Names(mappings')
    <3>1. MapTo(map, Len(arrived)) /\ Len(arrived) \in Nat
      BY LastUids DEF TypeInv, MapsRight
    <3> QED
      BY <2>1, <3>1, LinesNames DEF Mapped
  <2>4. Local' = Local /\ session # "closed"
    BY <2>1 DEF Local, TypeInv, Control
  <2> QED
    BY <2>1, <2>2, <2>3, <2>4 DEF Mapped, Halfway
<1>24. CASE u_local
  <2>1. pc = "u_local" /\ pc' = "idle" /\ UNCHANGED <<session, map, mapChanged, mappings>>
    BY <1>24 DEF u_local, Idle
  <2>2. session # "closed" /\ ~mapChanged
    BY <2>1 DEF TypeInv, Control, Mapped
  <2>3. CASE op = "sync"
    BY <1>24, <2>1, <2>2, <2>3, MappedExpunge DEF u_local
  <2>4. CASE op # "sync"
    <3>1. Keeps
      BY <1>24, <2>4, PingKeeps DEF u_local, TypeInv
    <3> QED
      BY <2>1, <2>2, <2>4, <3>1, MappedKeeps DEF Plain, Halfway
  <2> QED
    BY <2>3, <2>4
<1> QED
  BY <1>1, <1>2, <1>3, <1>4, <1>5, <1>6, <1>7, <1>8, <1>9, <1>10, <1>11, <1>12, <1>13, <1>14,
     <1>15, <1>16, <1>17, <1>18, <1>19, <1>20, <1>21, <1>22, <1>23, <1>24
  DEF Next, World, User, Steps

LEMMA PlacesNumbers ==
  TypeInv => /\ stateUid \in Int /\ lastUid \in Nat /\ last \in Nat /\ uidLast \in Nat
             /\ (stateUid # Unreadable => stateUid \in 0 .. Len(arrived)) /\ Len(arrived) \in Nat
             /\ Unreadable = -1
<1> SUFFICES ASSUME TypeInv
             PROVE  /\ stateUid \in Int /\ lastUid \in Nat /\ last \in Nat /\ uidLast \in Nat
                    /\ (stateUid # Unreadable => stateUid \in 0 .. Len(arrived)) /\ Len(arrived) \in Nat
                    /\ Unreadable = -1
  OBVIOUS
<1>1. Len(arrived) \in Nat
  BY LastUids
<1> QED
  BY <1>1 DEF TypeInv, PlacesRight, StreamRight, Unreadable

LEMMA AdvancedStep ==
  ASSUME NoInserts, TypeInv, TypeInv', NoInsert, Advanced, [Next]_vars,
         ~d_full, ~state_full, ~Crash, ~CrashWriting, pc # "s_search"
  PROVE  Advanced' /\ stateUid <= stateUid'
<1> USE DEF server, stream, disk, memory, args, history, bounds
<1>1. /\ stateUid \in Int /\ lastUid \in Nat /\ last \in Nat /\ uidLast \in Nat
      /\ stateUid \in 0 .. Len(arrived) /\ Len(arrived) \in Nat
  BY PlacesNumbers DEF Advanced
<1>2. CASE Deliver \/ OtherClient \/ Lose \/ UNCHANGED vars
  <2>1. UNCHANGED <<stateUid, last, lastUid, uidLast, pc, todo, online, op, session>>
    BY <1>2 DEF Deliver, OtherClient, Lose, vars
  <2> QED
    BY <1>1, <2>1 DEF Advanced, Ahead
<1>3. CASE s_fatal \/ c_map
  BY <1>1, <1>3 DEF s_fatal, Die, c_map, Gone, Idle, Advanced, Ahead, Downloading, Opening
<1>4. CASE Open
  <2>1. pc = "idle" /\ session = "closed" /\ lastUid' = 0 /\ UNCHANGED stateUid /\ op = "none"
        /\ ~online /\ session' = "open"
    BY <1>4 DEF Open, OpenLocal, Issue, Advanced
  <2>2. CASE UNCHANGED <<stream, pc, args>>
    BY <1>1, <2>1, <2>2 DEF Advanced, Ahead, Downloading, Opening
  <2>3. CASE OpenMaster
    BY <1>1, <2>1, <2>3 DEF OpenMaster, Advanced, Ahead, Downloading, Opening
  <2> QED
    BY <1>4, <2>2, <2>3 DEF Open
<1>5. CASE NetSync
  BY <1>1, <1>5 DEF NetSync, OpenLocal, OpenMaster, Issue, Advanced, Ahead, Downloading, Opening
<1>6. CASE GoOnline
  BY <1>1, <1>6 DEF GoOnline, OpenMaster, Issue, Advanced, Ahead, Downloading, Opening
<1>7. CASE GoOffline \/ SyncRefused
  BY <1>1, <1>7 DEF GoOffline, SyncRefused, Issue, Advanced, Ahead, Downloading, Opening
<1>8. CASE StartUpdate("update") \/ StartUpdate("sync")
  BY <1>1, <1>8 DEF StartUpdate, Issue, Advanced, Ahead, Downloading, Opening
<1>9. CASE SetFlag \/ Close
  BY <1>1, <1>9 DEF SetFlag, Close, Issue, Advanced, Ahead, Downloading, Opening
<1>10. CASE Insert \/ i_upload \/ i_search \/ i_ping \/ i_fatal \/ i_state
  BY <1>10 DEF Insert, Issue, NoInserts, i_upload, i_search, i_ping, i_fatal, i_state, NoInsert
<1>11. CASE c_local
  BY <1>1, <1>11 DEF c_local, ExpungeLocal, Advanced, Ahead, Downloading, Opening
<1>12. CASE d_search \/ d_done
  <2>1. \/ Return(uidLast)
        \/ pc' = "d_next" /\ UNCHANGED <<ret, start, todo, got, last, lastUid>>
    BY <1>12 DEF d_search, d_done
  <2>3. ret \in {"s_loop", "u_state"}
    BY <1>12 DEF d_search, d_done, TypeInv, Control, Downloading, NoInsert
  <2>2. pc \in Downloading /\ UNCHANGED <<stateUid, uidLast, session, online>>
    BY <1>12 DEF d_search, d_done, Downloading, Opening
  <2> QED
    BY <1>1, <2>1, <2>2, <2>3 DEF Return, Advanced, Ahead, Downloading, Opening
<1>13. CASE d_next
  BY <1>1, <1>13 DEF d_next, WriteLine, Advanced, Ahead, Downloading, Opening
<1>14. CASE d_append
  BY <1>1, <1>14 DEF d_append, Advanced, Ahead, Downloading, Opening
<1>15. CASE d_rename
  <2> DEFINE u == Min(todo)
  <2>1. stateUid' = u /\ uidLast' = u /\ todo' = todo \ {u} /\ pc' = "d_next" /\ pc = "d_rename"
        /\ UNCHANGED <<session, online>>
    BY <1>15 DEF d_rename
  <2>2. u \in todo /\ \A v \in todo : v \in Nat /\ u <= v
    <3>1. todo # {}
      <4>1. TypeInv => Control
        BY DEF TypeInv
      <4>2. pc \in {"d_append", "d_rename"}
        BY <2>1
      <4> QED
        BY <4>1, <4>2 DEF Control
    <3>2. todo \subseteq 1 .. Len(arrived)
      BY DEF TypeInv, PlacesRight
    <3>3. todo \in SUBSET Nat
      BY <3>2
    <3> QED
      BY <3>1, <3>3, MinNumber
  <2> HIDE DEF u
  <2>3. u # Unreadable /\ stateUid < u /\ \A v \in todo' : u < v
    BY <2>1, <2>2 DEF Advanced, Downloading, Opening, Unreadable
  <2> QED
    BY <1>1, <2>1, <2>2, <2>3 DEF Advanced, Downloading, Opening
<1>16. CASE s_delete \/ s_map \/ s_flags \/ s_unlink
  BY <1>1, <1>16 DEF s_delete, s_map, s_flags, s_unlink, Advanced, Ahead, Downloading, Opening
<1>17. CASE s_abort
  <2>1. /\ pc \in {"s_flags", "s_unlink"} /\ UNCHANGED stateUid /\ pc' = "idle" /\ op' = "none"
        /\ ~online' /\ lastUid' \in {lastUid, 0} /\ todo' = {}
    BY <1>17 DEF s_abort, Gone, Idle
  <2> QED
    BY <1>1, <2>1 DEF Advanced, Ahead, Downloading, Opening
<1>18. CASE s_download
  <2>1. /\ pc = "s_download" /\ pc' = "d_search"
        /\ UNCHANGED <<stateUid, uidLast, session, online>>
        /\ \A u \in todo' : last < u /\ u \in DOMAIN view
    BY <1>18 DEF s_download, Download
  <2>2. DOMAIN view \subseteq Nat
    BY DEF TypeInv, StreamRight
  <2> QED
    BY <1>1, <2>1, <2>2 DEF Advanced, Downloading, Opening
<1>19. CASE s_flagged \/ s_upload \/ s_search
  BY <1>1, <1>19 DEF s_flagged, s_upload, s_search, Upload, Looping, Advanced, Ahead, Downloading, Opening
<1>20. CASE s_flush
  BY <1>1, <1>20 DEF s_flush, Advanced, Ahead, Downloading, Opening
<1>21. CASE s_state
  BY <1>1, <1>21 DEF s_state, Advanced, Ahead, Downloading, Opening, Unreadable
<1>22. CASE s_end
  BY <1>1, <1>22 DEF s_end, Gone, Idle, Advanced, Ahead, Downloading, Opening
<1>23. CASE u_start
  BY <1>1, <1>23 DEF u_start, Download, Advanced, Ahead, Downloading, Opening, TypeInv, StreamRight
<1>24. CASE u_state
  <2>1. /\ pc = "u_state" /\ pc' = "u_net" /\ stateUid' = lastUid
        /\ UNCHANGED <<lastUid, uidLast, op, session, online>>
    BY <1>24 DEF u_state
  <2>2. stateUid <= lastUid /\ lastUid = uidLast
    BY <2>1 DEF Advanced, Ahead
  <2> QED
    BY <1>1, <2>1, <2>2 DEF Advanced, Ahead, Downloading, Opening, Unreadable
<1>25. CASE u_net \/ u_check \/ u_map
  BY <1>1, <1>25 DEF u_net, u_check, u_map, Advanced, Ahead, Downloading, Opening, TypeInv, Control
<1>26. CASE u_local
  <2>1. /\ pc = "u_local" /\ pc' = "idle" /\ UNCHANGED <<stateUid, lastUid, uidLast, session>>
        /\ op' = "none" /\ (online' => online \/ op = "online") /\ session # "closed"
    BY <1>26 DEF u_local, Idle, TypeInv, Control
  <2> QED
    BY <1>1, <2>1 DEF Advanced, Ahead, Downloading, Opening
<1> QED
  BY <1>2, <1>3, <1>4, <1>5, <1>6, <1>7, <1>8, <1>9, <1>10, <1>11, <1>12, <1>13, <1>14,
     <1>15, <1>16, <1>17, <1>18, <1>19, <1>20, <1>21, <1>22, <1>23, <1>24, <1>25, <1>26
  DEF Next, World, User, Steps


\* Messages that stay where they are are no new copies.
LEMMA CopiesStay ==
  ASSUME TypeInv, Copies, UNCHANGED arrived, AllIn(folder, folder'), pc # "d_rename",
         stateUid \in Int, stateUid' \in Int, stateUid <= stateUid'
  PROVE  Copies'
<1>1. /\ Len(folder') = Len(folder)
      /\ \A i \in 1 .. Len(folder) : folder'[i].msg = folder[i].msg
  BY DEF AllIn, KeptIn
<1>2. ASSUME NEW i \in 1 .. Len(folder)
      PROVE  \E u \in 1 .. Len(arrived) : u <= stateUid' /\ arrived[u] = folder[i].msg
  <2>1. PICK u \in 1 .. Len(arrived) : u <= stateUid /\ arrived[u] = folder[i].msg
    BY DEF Copies
  <2>2. u \in Int /\ u <= stateUid'
    BY <2>1
  <2> QED
    BY <2>1, <2>2
<1> QED
  BY <1>1, <1>2 DEF Copies

\* A message that arrives is a new one.
LEMMA CopiesDeliver ==
  ASSUME TypeInv, Copies, Deliver
  PROVE  Copies'
<1>1. /\ arrived' = Append(arrived, born + 1)
      /\ UNCHANGED <<folder, stateUid, pc, todo>>
  BY DEF Deliver, disk, args
<1>2. /\ arrived \in Seq(Nat) /\ Len(arrived) \in Nat /\ born \in Nat
      /\ \A u \in 1 .. Len(arrived) : arrived[u] \in 1 .. born
  BY DEF TypeInv, ServerRight
<1>3. /\ Len(arrived') = Len(arrived) + 1 /\ arrived'[Len(arrived) + 1] = born + 1
      /\ \A u \in 1 .. Len(arrived) : arrived'[u] = arrived[u] /\ u \in 1 .. Len(arrived')
  BY <1>1, <1>2
<1>4. \A u, v \in 1 .. Len(arrived') : arrived'[u] = arrived'[v] => u = v
  <2>1. \A u \in 1 .. Len(arrived) : arrived'[u] # born + 1
    BY <1>2, <1>3
  <2>2. \A u, v \in 1 .. Len(arrived) : arrived'[u] = arrived'[v] => u = v
    BY <1>3 DEF Copies
  <2>3. \A u \in 1 .. Len(arrived') : u \in 1 .. Len(arrived) \/ u = Len(arrived) + 1
    BY <1>2, <1>3
  <2> QED
    BY <1>3, <2>1, <2>2, <2>3
<1>5. pc = "d_rename" => arrived'[Min(todo)] = arrived[Min(todo)]
  BY <1>3, FirstTodo
<1>6. ASSUME NEW i \in 1 .. Len(folder)
      PROVE  \/ \E u \in 1 .. Len(arrived') : u <= stateUid /\ arrived'[u] = folder[i].msg
             \/ pc = "d_rename" /\ i = Len(folder) /\ folder[i].msg = arrived'[Min(todo)]
  <2>1. CASE \E u \in 1 .. Len(arrived) : u <= stateUid /\ arrived[u] = folder[i].msg
    BY <1>3, <2>1
  <2>2. CASE pc = "d_rename" /\ i = Len(folder) /\ folder[i].msg = arrived[Min(todo)]
    BY <1>5, <2>2
  <2> QED
    BY <2>1, <2>2 DEF Copies
<1>7. \A i, j \in 1 .. Len(folder') : folder'[i].msg = folder'[j].msg => i = j
  BY <1>1 DEF Copies
<1> QED
  BY <1>1, <1>4, <1>6, <1>7 DEF Copies

\* The message that is fetched is beyond the state, so it is not here yet.
LEMMA CopiesAppend ==
  ASSUME TypeInv, Advanced, Copies, d_append
  PROVE  Copies'
<1> DEFINE x == Min(todo)
           n == Len(folder) + 1
           m == [uid |-> 0, msg |-> arrived[x], flags |-> got]
<1>1. /\ folder' = Append(folder, m) /\ UNCHANGED <<arrived, stateUid, todo>>
      /\ pc = "d_append" /\ pc' = "d_rename"
  BY DEF d_append, server, args
<1>2. m.msg = arrived[x]
  OBVIOUS
<1>3. folder \in Seq(Message) /\ Len(folder) \in Nat
  BY LastUids
<1>4. /\ Len(folder') = n /\ folder'[n].msg = arrived[x]
      /\ \A i \in 1 .. Len(folder) : folder'[i].msg = folder[i].msg
  <2> HIDE DEF m
  <2> QED
    BY <1>1, <1>2, <1>3
<1>5. x \in 1 .. Len(arrived) /\ stateUid < x
  <2>1. todo # {} /\ todo \in SUBSET Nat
    BY <1>1 DEF TypeInv, Control, PlacesRight
  <2>2. x \in todo
    BY <2>1, MinNumber
  <2> HIDE DEF x
  <2> QED
    BY <1>1, <2>2 DEF Advanced, Downloading, TypeInv, PlacesRight
<1>6. stateUid \in Int
  BY PlacesNumbers
<1> HIDE DEF x, m, n
<1>7. ASSUME NEW i \in 1 .. Len(folder)
      PROVE  /\ \E u \in 1 .. Len(arrived) : u <= stateUid /\ arrived[u] = folder[i].msg
             /\ folder[i].msg # arrived[x]
  <2>1. PICK u \in 1 .. Len(arrived) : u <= stateUid /\ arrived[u] = folder[i].msg
    BY <1>1 DEF Copies
  <2>2. u # x
    BY <1>5, <1>6, <2>1
  <2> QED
    BY <1>5, <2>1, <2>2 DEF Copies
<1>8. \A i \in 1 .. Len(folder') : i \in 1 .. Len(folder) \/ i = n
  BY <1>3, <1>4 DEF n
<1>9. \A i, j \in 1 .. Len(folder') : folder'[i].msg = folder'[j].msg => i = j
  BY <1>4, <1>7, <1>8 DEF Copies
<1>10. ASSUME NEW i \in 1 .. Len(folder')
       PROVE  \/ \E u \in 1 .. Len(arrived) : u <= stateUid /\ arrived[u] = folder'[i].msg
              \/ i = n /\ folder'[i].msg = arrived[x]
  BY <1>4, <1>7, <1>8
<1> QED
  BY <1>1, <1>4, <1>9, <1>10 DEF Copies, x

LEMMA CopiesRename ==
  ASSUME TypeInv, Advanced, Copies, d_rename
  PROVE  Copies'
<1> DEFINE x == Min(todo)
<1>1. UNCHANGED <<folder, arrived>> /\ stateUid' = x /\ pc = "d_rename"
  BY DEF d_rename, server
<1>2. x \in 1 .. Len(arrived) /\ stateUid < x
  <2>1. todo # {} /\ todo \in SUBSET Nat
    BY <1>1 DEF TypeInv, Control, PlacesRight
  <2>2. x \in todo
    BY <2>1, MinNumber
  <2> HIDE DEF x
  <2> QED
    BY <1>1, <2>2 DEF Advanced, Downloading, TypeInv, PlacesRight
<1>3. stateUid \in Int
  BY PlacesNumbers
<1>4. ASSUME NEW i \in 1 .. Len(folder)
      PROVE  \E u \in 1 .. Len(arrived) : u <= stateUid' /\ arrived[u] = folder[i].msg
  <2> HIDE DEF x
  <2>1. CASE \E u \in 1 .. Len(arrived) : u <= stateUid /\ arrived[u] = folder[i].msg
    <3>1. PICK u \in 1 .. Len(arrived) : u <= stateUid /\ arrived[u] = folder[i].msg
      BY <2>1
    <3>2. u <= stateUid'
      BY <1>1, <1>2, <1>3, <3>1
    <3> QED
      BY <3>1, <3>2
  <2>2. CASE folder[i].msg = arrived[x]
    <3>1. x <= stateUid'
      BY <1>1, <1>2
    <3> QED
      BY <1>2, <2>2, <3>1
  <2> QED
    BY <2>1, <2>2 DEF Copies, x
<1> HIDE DEF x
<1> QED
  BY <1>1, <1>4 DEF Copies

LEMMA CopiesExpunge ==
  ASSUME TypeInv, Copies, ExpungeLocal, UNCHANGED <<arrived, stateUid>>, pc # "d_rename"
  PROVE  Copies'
<1> DEFINE I == {k \in DOMAIN Local : "deleted" \notin Local[k].flags}
<1>1. folder' = Selected(Local, I)
  BY ParsedNumbered DEF ExpungeLocal, Local
<1>2. /\ Local \in Seq(Message) /\ Len(Local) = Len(folder) /\ Len(Local) \in Nat
      /\ \A i \in 1 .. Len(Local) : Local[i].msg = folder[i].msg
  BY LocalRight
<1> HIDE DEF I
<1>3. folder' \in Seq(Message) /\ Selects(folder', Local, I, Len(Local))
  BY <1>1, <1>2, SelectedSelects
<1>4. PICK s \in [1 .. Len(folder') -> I \cap (1 .. Len(Local))] :
        /\ \A i \in 1 .. Len(folder') : folder'[i] = Local[s[i]]
        /\ \A i, j \in 1 .. Len(folder') : i < j => s[i] < s[j]
  BY <1>3 DEF Selects
<1>5. \A i \in 1 .. Len(folder') : s[i] \in 1 .. Len(folder) /\ folder'[i].msg = folder[s[i]].msg
  BY <1>2, <1>4
<1>6. \A i, j \in 1 .. Len(folder') : s[i] = s[j] => i = j
  <2>1. SUFFICES ASSUME NEW i \in 1 .. Len(folder'), NEW j \in 1 .. Len(folder'), s[i] = s[j]
                 PROVE  i = j
    OBVIOUS
  <2>2. Len(folder') \in Nat
    BY <1>3
  <2>3. s[i] \in Int /\ s[j] \in Int /\ i \in Int /\ j \in Int
    BY <1>5, <2>2
  <2>4. ~(s[i] < s[j]) /\ ~(s[j] < s[i])
    BY <2>1, <2>3
  <2>5. ~(i < j) /\ ~(j < i)
    BY <1>4, <2>4
  <2> QED
    BY <2>3, <2>5
<1> HIDE DEF I
<1>7. \A i, j \in 1 .. Len(folder') : folder'[i].msg = folder'[j].msg => i = j
  <2>1. SUFFICES ASSUME NEW i \in 1 .. Len(folder'), NEW j \in 1 .. Len(folder'),
                        folder'[i].msg = folder'[j].msg
                 PROVE  i = j
    OBVIOUS
  <2>2. s[i] \in 1 .. Len(folder) /\ folder'[i].msg = folder[s[i]].msg
    BY <1>5
  <2>3. s[j] \in 1 .. Len(folder) /\ folder'[j].msg = folder[s[j]].msg
    BY <1>5
  <2>4. \A k, l \in 1 .. Len(folder) : folder[k].msg = folder[l].msg => k = l
    BY DEF Copies
  <2>5. s[i] = s[j]
    BY <2>1, <2>2, <2>3, <2>4
  <2> QED
    BY <1>6, <2>5
<1>8. ASSUME NEW i \in 1 .. Len(folder')
      PROVE  \E u \in 1 .. Len(arrived) : u <= stateUid /\ arrived[u] = folder'[i].msg
  <2>1. \E u \in 1 .. Len(arrived) : u <= stateUid /\ arrived[u] = folder[s[i]].msg
    BY <1>5 DEF Copies
  <2> QED
    BY <1>5, <2>1
<1> QED
  BY <1>7, <1>8 DEF Copies

\* Only a delivery gives the master messages, and only its renaming ends an append.
LEMMA OnlyDelivers ==
  ASSUME NoInserts, NoInsert, TypeInv, [Next]_vars, ~s_upload
  PROVE  \/ Deliver \/ OtherClient \/ Lose \/ Crash \/ CrashWriting \/ d_rename \/ UNCHANGED vars
         \/ UNCHANGED arrived /\ pc # "d_rename"
<1> USE DEF server
<1>1. CASE User
  <2>1. pc = "idle" /\ UNCHANGED arrived
    BY <1>1 DEF User, Open, NetSync, GoOnline, GoOffline, SyncRefused, StartUpdate, SetFlag,
       Close, Insert, Issue, NoInserts
  <2> QED
    BY <2>1
<1>2. CASE c_local \/ c_map \/ d_search \/ d_next \/ d_done \/ d_full \/ d_append
  BY <1>2 DEF c_local, c_map, d_search, d_next, d_done, d_full, d_append
<1>3. CASE s_delete \/ s_map \/ s_abort \/ s_flags \/ s_unlink \/ s_download
  BY <1>3 DEF s_delete, s_map, s_abort, s_flags, s_unlink, s_download
<1>4. CASE s_flagged \/ s_fatal \/ s_search \/ s_flush \/ s_state \/ s_end
  BY <1>4 DEF s_flagged, s_fatal, Die, Looping, s_search, s_flush, s_state, s_end
<1>5. CASE u_start \/ u_state \/ state_full \/ u_net \/ u_check \/ u_map \/ u_local
  BY <1>5 DEF u_start, u_state, state_full, u_net, u_check, u_map, u_local
<1>6. CASE i_upload \/ i_search \/ i_ping \/ i_fatal \/ i_state
  BY <1>6 DEF i_upload, i_search, i_ping, i_fatal, i_state, NoInsert
<1> QED
  BY <1>1, <1>2, <1>3, <1>4, <1>5, <1>6 DEF Next, World, Steps

LEMMA CopiesStep ==
  ASSUME NoInserts, TypeInv, TypeInv', NoInsert, Advanced, Copies, [Next]_vars, ~s_upload,
         ~Crash, ~CrashWriting, stateUid <= stateUid'
  PROVE  Copies'
<1>1. stateUid \in Int /\ stateUid' \in Int
  <2>1. stateUid' \in 0 .. Len(arrived') \cup {Unreadable} /\ Len(arrived') \in Nat
    BY DEF TypeInv, PlacesRight, ServerRight
  <2> QED
    BY <2>1, PlacesNumbers DEF Unreadable
<1>2. CASE Deliver
  BY <1>2, CopiesDeliver
<1>3. CASE OtherClient \/ Lose \/ UNCHANGED vars
  <2>1. UNCHANGED <<arrived, folder, stateUid, pc, todo>>
    BY <1>3, Zenon DEF OtherClient, Lose, vars, server, disk, args
  <2> QED
    BY <2>1 DEF Copies
<1>4. CASE d_rename
  BY <1>4, CopiesRename
<1>5. CASE UNCHANGED arrived /\ pc # "d_rename"
  <2>1. CASE AllIn(folder, folder')
    BY <1>1, <1>5, <2>1, CopiesStay
  <2>2. CASE d_append
    BY <2>2, CopiesAppend
  <2>3. CASE ExpungeLocal /\ (pc = "c_local" \/ (pc = "u_local" /\ op = "sync"))
    <3>1. UNCHANGED stateUid
      <4>1. c_local \/ u_local \/ Deliver \/ OtherClient \/ Lose \/ UNCHANGED vars
        BY <2>3, SMT DEF Next, World, User, Steps, Open, NetSync, GoOnline, GoOffline, SyncRefused,
           StartUpdate, SetFlag, Close, Insert, Issue, c_map, d_search, d_next, d_done, d_full,
           d_append, d_rename, s_delete, s_map, s_abort, s_flags, s_unlink, s_download,
           s_flagged, s_fatal, s_upload, s_search, s_flush, s_state, s_end, Looping,
           u_start, u_state, state_full, u_net, u_check, u_map, i_upload, i_search, i_ping,
           i_fatal, i_state
      <4> QED
        BY <4>1 DEF c_local, u_local, Deliver, OtherClient, Lose, vars, disk
    <3> QED
      BY <1>5, <2>3, <3>1, CopiesExpunge
  <2>4. ~Insert
    BY DEF Insert, Issue, NoInserts
  <2> QED
    BY <2>1, <2>2, <2>3, <2>4, OnlyExpunges
<1> QED
  BY <1>2, <1>3, <1>4, <1>5, OnlyDelivers


LEMMA NoneOfBoth ==
  ASSUME NEW a \in Nat, NEW b \in Nat, a + b = 0
  PROVE  a = 0 /\ b = 0 /\ b + a = 0
OBVIOUS

\* Neither a full disk nor the death of the program is ever taken back.
LEMMA Whole ==
  ASSUME TypeInv, TypeInv', [Next]_vars, (fulls + crashes)' = 0
  PROVE  fulls = 0 /\ crashes = 0 /\ ~d_full /\ ~state_full /\ ~Crash /\ ~CrashWriting
<1>1. fulls' = 0 /\ crashes' = 0
  <2>1. fulls' \in Nat /\ crashes' \in Nat
    BY DEF TypeInv, CountersRight
  <2>2. fulls' + crashes' = 0
    OBVIOUS
  <2> QED
    BY <2>1, <2>2, NoneOfBoth, Zenon
<1>2. ~d_full /\ ~state_full
  BY <1>1, FullStep
<1>3. fulls = 0
  BY <1>1, <1>2, FullsStay
<1>4. ~Crash /\ ~CrashWriting
  BY <1>1 DEF Crash, CrashWriting, TypeInv, CountersRight
<1>5. crashes' = crashes
  <2>1. CASE Deliver \/ OtherClient \/ Lose
    BY <2>1 DEF Deliver, OtherClient, Lose
  <2>2. CASE User
    BY <2>2 DEF User, Open, NetSync, GoOnline, GoOffline, SyncRefused, StartUpdate, SetFlag,
       Close, Insert, Issue
  <2>3. CASE c_local \/ c_map \/ d_search \/ d_next \/ d_done \/ d_append \/ d_rename
    BY <2>3 DEF c_local, c_map, d_search, d_next, d_done, d_append, d_rename, bounds
  <2>4. CASE s_delete \/ s_map \/ s_abort \/ s_flags \/ s_unlink \/ s_download \/ s_flagged
               \/ s_fatal \/ s_upload \/ s_search \/ s_flush \/ s_state \/ s_end
    BY <2>4 DEF s_delete, s_map, s_abort, s_flags, s_unlink, s_download, s_flagged, s_fatal,
       Die, s_upload, s_search, s_flush, s_state, s_end, bounds
  <2>5. CASE u_start \/ u_state \/ u_net \/ u_check \/ u_map \/ u_local
               \/ i_upload \/ i_search \/ i_ping \/ i_fatal \/ i_state
    BY <2>5 DEF u_start, u_state, u_net, u_check, u_map, u_local, i_upload, i_search, i_ping,
       i_fatal, Die, i_state, bounds
  <2>6. CASE UNCHANGED vars
    BY <2>6 DEF vars, bounds
  <2> QED
    BY <1>2, <1>4, <2>1, <2>2, <2>3, <2>4, <2>5, <2>6 DEF Next, World, Steps
<1> QED
  BY <1>1, <1>2, <1>3, <1>4, <1>5

SteadyInv == SoundInv /\ Known /\ Uids /\ Steady

LEMMA SteadyInit == Init => SteadyInv
<1> SUFFICES ASSUME Init PROVE SteadyInv
  OBVIOUS
<1>1. SoundInv
  BY SoundInit
<1>2. /\ folder = <<>> /\ map = <<>> /\ mappings = <<>> /\ mapBuf = <<>> /\ arrived = <<>>
      /\ session = "closed" /\ ~online /\ ~mapChanged /\ pc = "idle" /\ op = "none"
      /\ ret = "idle" /\ stateUid = 0 /\ lastUid = 0 /\ uidLast = 0
  BY DEF Init
<1>3. Len(<<>>) = 0 /\ DOMAIN <<>> = {}
  OBVIOUS
<1>4. Known /\ Uids
  BY <1>2, <1>3 DEF Known, Rests, Loops, Uids, Positive
<1>5. Mapped /\ Copies
  BY <1>2, <1>3 DEF Mapped, Copies
<1>6. Advanced
  BY <1>2 DEF Advanced, Ahead, Opening, Downloading, Unreadable
<1> QED
  BY <1>1, <1>4, <1>5, <1>6 DEF SteadyInv, Steady

\* A step of a program that lives and has room on the disk.
LEMMA SteadyStep ==
  ASSUME NoInserts, TypeInv, TypeInv', SoundInv, Known, Uids, Steady, [Next]_vars,
         (fulls + crashes)' = 0
  PROVE  /\ Mapped' /\ Advanced' /\ Copies' /\ stateUid <= stateUid'
<1>1. fulls = 0 /\ crashes = 0 /\ ~d_full /\ ~state_full /\ ~Crash /\ ~CrashWriting
  BY Whole
<1>2. Sound /\ NoInsert /\ Mapped /\ Advanced /\ Copies
  BY <1>1 DEF SoundInv, Steady
<1>3. ~s_upload /\ pc # "s_search"
  BY <1>2, NothingUploaded DEF Mapped
<1>4. Mapped'
  BY <1>1, <1>2, MappedStep
<1>5. Advanced' /\ stateUid <= stateUid'
  BY <1>1, <1>2, <1>3, AdvancedStep
<1>6. Copies'
  BY <1>1, <1>2, <1>3, <1>5, CopiesStep
<1> QED
  BY <1>4, <1>5, <1>6

LEMMA SteadyStays ==
  ASSUME NoInserts, TypeInv, TypeInv', SteadyInv, [Next]_vars
  PROVE  SteadyInv'
<1>1. SoundInv'
  <2>1. NoInsert'
    BY NoInsertStep DEF SteadyInv, SoundInv
  <2>2. ASSUME fulls' = 0 PROVE Sound'
    <3>1. ~d_full /\ ~state_full
      BY <2>2, FullStep
    <3>2. Sound /\ NoInsert
      BY <2>2, <3>1, FullsStay DEF SteadyInv, SoundInv
    <3> QED
      BY <3>1, <3>2, SoundStep
  <2> QED
    BY <2>1, <2>2 DEF SoundInv
<1>2. Known' /\ Uids'
  BY KnownStep, UidsStep DEF SteadyInv
<1>3. Steady'
  BY SteadyStep DEF SteadyInv, Steady
<1> QED
  BY <1>1, <1>2, <1>3 DEF SteadyInv

\* The uid in the file state never goes back, and so DisDownloadMsgs()
\* (ratDisFolder.c) fetches nothing twice, whatever happens to the connection: as
\* long as the program lives, the disk has room and the user inserts no message.
THEOREM StateNeverGoesBack ==
  ASSUME "insert" \notin Ops
  PROVE  Spec => StateAdvances
<1> USE DEF NoInserts
<1>1. Init => SteadyInv
  BY SteadyInit
<1>2. TypeInv /\ TypeInv' /\ SteadyInv /\ [Next]_vars => SteadyInv'
  BY SteadyStays
<1>3. TypeInv /\ TypeInv' /\ SteadyInv /\ [Next]_vars =>
        [(crashes + fulls)' = 0 => stateUid' >= stateUid]_vars
  <2> SUFFICES ASSUME TypeInv, TypeInv', SteadyInv, [Next]_vars, (crashes + fulls)' = 0
               PROVE  stateUid' >= stateUid
    OBVIOUS
  <2>1. (fulls + crashes)' = 0
    <3>1. fulls' \in Nat /\ crashes' \in Nat
      BY DEF TypeInv, CountersRight
    <3>2. crashes' + fulls' = 0
      OBVIOUS
    <3>3. fulls' + crashes' = 0
      BY <3>1, <3>2, NoneOfBoth, Zenon
    <3> QED
      BY <3>3, Zenon
  <2>2. stateUid <= stateUid'
    BY <2>1, SteadyStep DEF SteadyInv
  <2>3. stateUid \in Int /\ stateUid' \in Int
    <3>1. stateUid' \in 0 .. Len(arrived') \cup {Unreadable} /\ Len(arrived') \in Nat
      BY DEF TypeInv, PlacesRight, ServerRight
    <3> QED
      BY <3>1, PlacesNumbers DEF Unreadable
  <2> QED
    BY <2>2, <2>3
<1> QED
  BY <1>1, <1>2, <1>3, TypesHold, PTL DEF Spec, StateAdvances

\* Neither the local mailbox nor the master gets a message twice, whatever happens
\* to the connection and whatever the other clients do: as long as the program
\* lives, the disk has room and the user inserts no message.
THEOREM NothingTwice ==
  ASSUME "insert" \notin Ops
  PROVE  Spec => []NoDuplicates
<1> USE DEF NoInserts
<1>1. Init => SteadyInv
  BY SteadyInit
<1>2. TypeInv /\ TypeInv' /\ SteadyInv /\ [Next]_vars => SteadyInv'
  BY SteadyStays
<1>3. TypeInv /\ SteadyInv => NoDuplicates
  <2> SUFFICES ASSUME TypeInv, SteadyInv, fulls + crashes = 0
               PROVE  /\ \A i, j \in DOMAIN folder : folder[i].msg = folder[j].msg => i = j
                      /\ \A u, v \in DOMAIN master : arrived[u] = arrived[v] => u = v
    BY DEF NoDuplicates
  <2>1. Copies
    BY DEF SteadyInv, Steady
  <2>2. DOMAIN folder = 1 .. Len(folder)
    <3>1. folder \in Seq(Message)
      BY LastUids
    <3> QED
      BY <3>1
  <2>3. DOMAIN master \subseteq 1 .. Len(arrived)
    BY DEF TypeInv, ServerRight
  <2> QED
    BY <2>1, <2>2, <2>3 DEF Copies
<1> QED
  BY <1>1, <1>2, <1>3, TypesHold, PTL DEF Spec

-----------------------------------------------------------------------------
(* What was fetched is kept, or its deletion noted, while no connection is   *)
(* lost and the disk has room; whatever crashes.                             *)

\* The last line for the local uid l says that it is uid u of the master.
Says(lines, l, u) ==
  \E j \in 1 .. Len(lines) :
    /\ lines[j][2] = l /\ lines[j][1] = u
    /\ \A k \in 1 .. Len(lines) : j < k /\ lines[k][2] = l => lines[k][1] = u

\* A message of p is uid u of the master, by the map f and by the lines.
Ties(p, f, lines, u) ==
  \E i \in 1 .. Len(p) :
    /\ p[i].uid \in DOMAIN f /\ f[p[i].uid] = u
    /\ Says(lines, p[i].uid, u)

\* The changes tell that uid u is to be deleted.
Tells(lines, u) == \E i \in 1 .. Len(lines) : lines[i] = <<"delete", u>>

\* The uids of the master that the folder has looked at.
Looped == {"s_loop", "s_search", "s_state", "s_end"}
Fetched(u) ==
  \/ u <= stateUid \/ u <= lastUid
  \/ pc \in Opening /\ u <= last
  \/ pc \in Downloading /\ u \in DOMAIN view /\ u \notin todo
  \/ pc \in Looped /\ u <= uidLast

\* Each message of the master that was fetched is tied to a local one, in memory and
\* on the disk, or noted as deleted.
Safe ==
  \A u \in DOMAIN master :
    /\ u <= stateUid => Tells(changes, u) \/ Ties(Local, TheMap, mappings, u)
    /\ Fetched(u) => Tells(changes, u) \/ Ties(Local, TheMap, mappings \o mapBuf, u)

\* The stream knows all messages up to its last one.
Seen ==
  /\ \A u \in DOMAIN master, v \in DOMAIN view : u <= v => u \in DOMAIN view
  /\ \A u \in DOMAIN master : u <= uidLast => u \in DOMAIN view
  /\ pc \in Downloading => todo \subseteq DOMAIN view
  /\ pc \in Looped => last <= uidLast
  /\ pc = "s_search" => \E v \in DOMAIN view : uidLast < v

\* A line is in the file before the message is appended, and one that waits in the
\* buffer is of a message that was not mapped.
Written ==
  /\ mapBuf # <<>> => pc \in {"s_loop", "s_search"}
  /\ pc \in {"d_append", "d_rename"} => Says(mappings, localLast, Min(todo))
  /\ pc = "s_search" => folder[msgno].uid \notin DOMAIN map

\* The lines of the file changes, about uids up to n.
Change(n) == ({"delete"} \X (1 .. n)) \cup ({"flag"} \X (0 .. n) \X Flags \X BOOLEAN)

\* The deletions have reached the master when they are forgotten.
Noting ==
  /\ changes \in Seq(Change(Len(arrived)))
  /\ pc \in {"s_map", "s_flags", "s_unlink"} => \A u \in DOMAIN master : ~Tells(changes, u)

\* What is fetched by an update that expunges is not deleted.
Clean ==
  op = "sync" =>
    /\ \A i \in 1 .. Len(folder) : folder[i].uid = 0 => "deleted" \notin folder[i].flags
    /\ pc \in Downloading => \A u \in DOMAIN master : "deleted" \notin master[u]
    /\ pc = "d_append" => "deleted" \notin got

Kept == losses = 0 /\ fulls = 0 => Safe /\ Seen /\ Written /\ Noting /\ Clean

\* What ReadMappings() makes of it.
LEMMA SaysRead ==
  ASSUME NEW lines \in Seq(Line), NEW l, NEW u, Says(lines, l, u)
  PROVE  l \in DOMAIN ReadMappings(lines) /\ ReadMappings(lines)[l] = u
<1>1. Len(lines) \in Nat
  OBVIOUS
<1>2. PICK j \in 1 .. Len(lines) :
        /\ lines[j][2] = l /\ lines[j][1] = u
        /\ \A k \in 1 .. Len(lines) : j < k /\ lines[k][2] = l => lines[k][1] = u
  BY DEF Says
<1>3. l \in DOMAIN ReadMappings(lines)
  BY <1>2, ReadDomain
<1>4. PICK i \in 1 .. Len(lines) :
        /\ lines[i][2] = l /\ Latest(lines, i) /\ ReadMappings(lines)[l] = lines[i][1]
  BY <1>3, ReadLatest
<1>5. ~(i < j)
  BY <1>2, <1>4 DEF Latest
<1>6. lines[i][1] = u
  <2>1. j = i \/ j < i
    BY <1>1, <1>5
  <2> QED
    BY <1>2, <1>4, <2>1
<1> QED
  BY <1>3, <1>4, <1>6

\* One more line.
LEMMA SaysAppend ==
  ASSUME NEW s \in Seq(Line), NEW v, NEW k
  PROVE  /\ Says(Append(s, <<v, k>>), k, v)
         /\ \A l, u : Says(s, l, u) /\ l # k => Says(Append(s, <<v, k>>), l, u)
<1> DEFINE t == Append(s, <<v, k>>)
<1>1. /\ Len(s) \in Nat /\ Len(t) = Len(s) + 1
      /\ t[Len(s) + 1][2] = k /\ t[Len(s) + 1][1] = v
      /\ \A j \in 1 .. Len(s) : t[j] = s[j]
  OBVIOUS
<1> HIDE DEF t
<1>2. Says(t, k, v)
  BY <1>1 DEF Says
<1>3. ASSUME NEW l, NEW u, Says(s, l, u), l # k PROVE Says(t, l, u)
  <2>1. PICK j \in 1 .. Len(s) :
          /\ s[j][2] = l /\ s[j][1] = u
          /\ \A i \in 1 .. Len(s) : j < i /\ s[i][2] = l => s[i][1] = u
    BY <1>3 DEF Says
  <2>2. j \in 1 .. Len(t) /\ t[j][2] = l /\ t[j][1] = u
    BY <1>1, <2>1
  <2>3. ASSUME NEW i \in 1 .. Len(t), j < i, t[i][2] = l PROVE t[i][1] = u
    <3>1. i # Len(s) + 1
      BY <1>1, <1>3, <2>3
    <3>2. i \in 1 .. Len(s) /\ t[i] = s[i]
      BY <1>1, <3>1
    <3> QED
      BY <2>1, <2>3, <3>2
  <2> QED
    BY <2>2, <2>3 DEF Says
<1> QED
  BY <1>2, <1>3 DEF t

\* What WriteMappings() writes says what the map says.
LEMMA SaysLines ==
  ASSUME NEW n \in Nat, NEW f, MapTo(f, n), NEW l \in DOMAIN f
  PROVE  Says(LinesOf(f), l, f[l])
<1>1. PICK j \in 1 .. Len(LinesOf(f)) : LinesOf(f)[j][2] = l
  BY LinesNames DEF Names
<1>2. \A k \in 1 .. Len(LinesOf(f)) : LinesOf(f)[k][2] = l => LinesOf(f)[k][1] = f[l]
  BY LinesOfMap
<1> QED
  BY <1>1, <1>2 DEF Says

\* What ties a message is not lost when the messages stay.
LEMMA TiesAlike ==
  ASSUME NEW p, NEW q, Alike(q, p), NEW f, NEW lines, NEW u, Ties(p, f, lines, u)
  PROVE  Ties(q, f, lines, u)
BY DEF Ties, Alike

\* What is read from the disk ties what was tied.
LEMMA TiesRead ==
  ASSUME NEW p, NEW f, NEW lines \in Seq(Line), NEW u, Ties(p, f, lines, u)
  PROVE  Ties(p, ReadMappings(lines), lines, u)
BY SaysRead DEF Ties

\* What is written to the disk ties what was tied.
LEMMA TiesWrite ==
  ASSUME NEW n \in Nat, NEW f, MapTo(f, n), NEW p, NEW lines, NEW u, Ties(p, f, lines, u)
  PROVE  Ties(p, f, LinesOf(f), u)
<1>1. PICK i \in 1 .. Len(p) : p[i].uid \in DOMAIN f /\ f[p[i].uid] = u
  BY DEF Ties
<1>2. Says(LinesOf(f), p[i].uid, u)
  BY <1>1, SaysLines
<1> QED
  BY <1>1, <1>2 DEF Ties

LEMMA TellsJoin ==
  ASSUME NEW C, NEW s \in Seq(C), NEW t \in Seq(C), NEW u
  PROVE  Tells(s, u) \/ Tells(t, u) => Tells(s \o t, u)
<1> DEFINE r == s \o t
<1>1. /\ Len(s) \in Nat /\ Len(t) \in Nat /\ Len(r) = Len(s) + Len(t)
      /\ \A j \in 1 .. Len(s) : r[j] = s[j] /\ j \in 1 .. Len(r)
      /\ \A j \in 1 .. Len(t) : r[Len(s) + j] = t[j] /\ Len(s) + j \in 1 .. Len(r)
  OBVIOUS
<1> HIDE DEF r
<1>2. CASE Tells(s, u)
  <2>1. PICK j \in 1 .. Len(s) : s[j] = <<"delete", u>>
    BY <1>2 DEF Tells
  <2>2. r[j] = <<"delete", u>> /\ j \in 1 .. Len(r)
    BY <1>1, <2>1
  <2> QED
    BY <2>2 DEF Tells, r
<1>3. CASE Tells(t, u)
  <2>1. PICK j \in 1 .. Len(t) : t[j] = <<"delete", u>>
    BY <1>3 DEF Tells
  <2>2. r[Len(s) + j] = <<"delete", u>> /\ Len(s) + j \in 1 .. Len(r)
    BY <1>1, <2>1
  <2> QED
    BY <2>2 DEF Tells, r
<1> QED
  BY <1>2, <1>3

\* What an expunge is about to remove is noted.
LEMMA CheckTells ==
  ASSUME TypeInv, changes \in Seq(Change(Len(arrived))), CheckDeletion
  PROVE  /\ changes' \in Seq(Change(Len(arrived)))
         /\ DOMAIN map' \subseteq DOMAIN map
         /\ \A l \in DOMAIN map' : map'[l] = map[l]
         /\ \A l \in DOMAIN map \ DOMAIN map' : Tells(changes', map[l])
         /\ \A u : Tells(changes, u) => Tells(changes', u)
<1> DEFINE uids == {folder[i].uid : i \in {k \in 1 .. number : "deleted" \in folder[k].flags}}
                     \cap DOMAIN map
           S == {<<"delete", map[l]>> : l \in uids}
           g == [l \in uids |-> <<"delete", map[l]>>]
<1>1. /\ changes' = changes \o SetToSeq(S) /\ DOMAIN map' = DOMAIN map \ uids
      /\ \A l \in DOMAIN map' : map'[l] = map[l]
  BY DEF CheckDeletion, Without
<1>2. /\ IsFiniteSet(DOMAIN map) /\ \A l \in DOMAIN map : map[l] \in 1 .. Len(arrived)
  <2>1. MapTo(map, Len(arrived)) /\ Len(arrived) \in Nat
    BY LastUids DEF TypeInv, MapsRight
  <2> QED
    BY <2>1 DEF MapTo
<1>3. uids \subseteq DOMAIN map
  OBVIOUS
<1> HIDE DEF uids
<1>4. IsFiniteSet(S)
  <2>1. IsFiniteSet(uids)
    BY <1>2, <1>3, FS_Subset
  <2>2. g \in Surjection(uids, S)
    BY DEF Surjection
  <2> HIDE DEF g, S
  <2> QED
    BY <2>1, <2>2, FS_Surjection
<1> DEFINE C == Change(Len(arrived))
<1>5. S \subseteq C
  BY <1>2, <1>3 DEF Change
<1> HIDE DEF C
<1>6. ASSUME NEW l \in uids PROVE <<"delete", map[l]>> \in S
  OBVIOUS
<1> DEFINE t == SetToSeq(S)
<1> HIDE DEF S
<1>7. t \in Seq(S) /\ \A x \in S : \E j \in 1 .. Len(t) : t[j] = x
  BY <1>4, SetSequence
<1>8. changes' = changes \o t
  BY <1>1
<1> HIDE DEF t
<1>9. t \in Seq(C) /\ changes \in Seq(C)
  BY <1>5, <1>7 DEF C
<1>10. ASSUME NEW l \in uids PROVE Tells(t, map[l])
  BY <1>6, <1>7 DEF Tells
<1>11. changes' \in Seq(C)
  BY <1>8, <1>9
<1>12. \A l \in DOMAIN map \ DOMAIN map' : l \in uids
  BY <1>1
<1>13. ASSUME NEW u, Tells(changes, u) \/ Tells(t, u) PROVE Tells(changes', u)
  BY <1>8, <1>9, <1>13, TellsJoin
<1> QED
  BY <1>1, <1>10, <1>11, <1>12, <1>13 DEF C

\* The lines that are read.
LEMMA TypedLines ==
  TypeInv => /\ mappings \in Seq(Line) /\ mapBuf \in Seq(Line) /\ mappings \o mapBuf \in Seq(Line)
             /\ mappings \o <<>> = mappings /\ Len(arrived) \in Nat /\ MapTo(map, Len(arrived))
BY LastUids DEF TypeInv, MapsRight, LinesTo

\* A step after which each message that is taken for fetched was fetched before, and is
\* tied to a local one as before.
LEMMA SafeSame ==
  ASSUME Safe, UNCHANGED <<stateUid, mappings, mapBuf>>,
         \A u \in DOMAIN master' : Fetched(u)' => u \in DOMAIN master /\ Fetched(u),
         \A u \in DOMAIN master' : Tells(changes, u) => Tells(changes', u),
         \A u, lines : Ties(Local, TheMap, lines, u) =>
           Ties(Local', TheMap', lines, u) \/ Tells(changes', u)
  PROVE  Safe'
<1> SUFFICES ASSUME NEW u \in DOMAIN master'
             PROVE  /\ u <= stateUid' =>
                         Tells(changes', u) \/ Ties(Local', TheMap', mappings', u)
                    /\ Fetched(u)' =>
                         Tells(changes', u) \/ Ties(Local', TheMap', mappings' \o mapBuf', u)
  BY DEF Safe
<1>1. ASSUME u <= stateUid' PROVE Tells(changes', u) \/ Ties(Local', TheMap', mappings', u)
  <2>1. Fetched(u)'
    BY <1>1 DEF Fetched
  <2>2. u \in DOMAIN master /\ u <= stateUid
    BY <1>1, <2>1
  <2> QED
    BY <2>2 DEF Safe
<1>2. ASSUME Fetched(u)'
      PROVE  Tells(changes', u) \/ Ties(Local', TheMap', mappings' \o mapBuf', u)
  BY <1>2 DEF Safe
<1> QED
  BY <1>1, <1>2

\* A step that leaves the local copy and the changes alone.
LEMMA SafeStays ==
  ASSUME Safe, UNCHANGED <<stateUid, mappings, mapBuf, folder, hdrLast, map, session, changes>>,
         \A u \in DOMAIN master' : Fetched(u)' => u \in DOMAIN master /\ Fetched(u)
  PROVE  Safe'
<1>1. Local' = Local /\ TheMap' = TheMap
  BY DEF Local, TheMap
<1> QED
  BY <1>1, SafeSame

\* A step that flags local messages, or gives them their uids.
LEMMA TiesKeep ==
  ASSUME Keeps, NEW f, NEW lines, NEW u, Ties(Local, f, lines, u)
  PROVE  Ties(Local', f, lines, u)
<1>1. Alike(Local', Local)
  BY DEF Keeps, Same, Local
<1> QED
  BY <1>1, TiesAlike

\* The program ends, or the folder is closed: what the disk has is what counts.
LEMMA SafeGone ==
  ASSUME TypeInv, TypeInv', Safe, Gone, session # "closed",
         UNCHANGED <<master, folder, hdrLast, changes>>,
         mappings' \in {mappings, LinesOf(map)}, stateUid' \in {stateUid, Unreadable}
  PROVE  Safe'
<1>1. /\ session' = "closed" /\ lastUid' = 0 /\ mapBuf' = <<>> /\ pc' = "idle"
  BY DEF Gone, Idle
<1>2. Local' = Local /\ TheMap = map /\ TheMap' = ReadMappings(mappings')
  BY <1>1 DEF Local, TheMap
<1>3. /\ mappings' \in Seq(Line) /\ mappings' \o <<>> = mappings'
      /\ Len(arrived) \in Nat /\ MapTo(map, Len(arrived))
  BY TypedLines DEF TypeInv, MapsRight, LinesTo
<1> SUFFICES ASSUME NEW u \in DOMAIN master, Fetched(u)'
             PROVE  Tells(changes', u) \/ Ties(Local', TheMap', mappings', u)
  BY <1>1, <1>3 DEF Safe, Fetched
<1>4. u \in Nat /\ 1 <= u /\ (stateUid \in Nat \/ stateUid = Unreadable)
  <2>1. DOMAIN master \subseteq 1 .. Len(arrived) /\ stateUid \in 0 .. Len(arrived) \cup {Unreadable}
    BY DEF TypeInv, ServerRight, PlacesRight
  <2> QED
    BY <1>3, <2>1
<1>5. u <= stateUid
  <2>1. u <= stateUid'
    BY <1>1, <1>4 DEF Fetched, Opening, Downloading, Looped
  <2> QED
    BY <1>4, <2>1 DEF Unreadable
<1>6. CASE Tells(changes, u)
  BY <1>6
<1>7. CASE Ties(Local, map, mappings, u)
  <2>1. Ties(Local, map, mappings', u)
    BY <1>3, <1>7, TiesWrite
  <2> QED
    BY <1>2, <1>3, <2>1, TiesRead
<1> QED
  BY <1>2, <1>5, <1>6, <1>7 DEF Safe

\* The folder is opened.
LEMMA SafeOpen ==
  ASSUME TypeInv, Safe, NEW s, s # "closed", OpenLocal(s), session = "closed",
         UNCHANGED <<stateUid, mappings, changes>>,
         \A u \in DOMAIN master' : Fetched(u)' => u \in DOMAIN master /\ Fetched(u)
  PROVE  Safe'
<1>1. /\ Parse(folder) /\ UNCHANGED mapBuf /\ session' = s /\ map' = ReadMappings(mappings)
  BY DEF OpenLocal
<1>2. TheMap' = TheMap
  BY <1>1 DEF TheMap
<1>3. Keeps
  <2>1. FolderRight /\ folder \in Seq(Message) /\ Alike(folder, folder)
    BY DEF TypeInv, FolderRight, Alike
  <2> QED
    BY <1>1, <2>1, ParseKeeps
<1> QED
  BY <1>1, <1>2, <1>3, TiesKeep, SafeSame

\* The local expunge removes what the map has not.
LEMMA SafeExpunge ==
  ASSUME TypeInv, TypeInv', Safe, ExpungeLocal, session # "closed",
         UNCHANGED <<stateUid, mappings, mapBuf, changes, session, map>>,
         \A i \in 1 .. Len(Local) :
           "deleted" \in Local[i].flags => Local[i].uid \notin DOMAIN map,
         \A u \in DOMAIN master' : Fetched(u)' => u \in DOMAIN master /\ Fetched(u)
  PROVE  Safe'
<1> DEFINE I == {k \in DOMAIN Local : "deleted" \notin Local[k].flags}
<1>1. folder' = Selected(Local, I)
  BY ParsedNumbered DEF ExpungeLocal, Local
<1>2. Local \in Seq(Message) /\ DOMAIN Local = 1 .. Len(Local)
  BY LocalRight
<1>3. Local' = folder'
  <2>1. AllParsed(folder')
    BY ExpungeLoses DEF TypeInv
  <2>2. folder' \in Seq(Message) /\ hdrLast' \in Nat
    BY DEF TypeInv, FolderRight
  <2> QED
    BY <2>1, <2>2, NoneUnparsed DEF Local
<1>4. TheMap = map /\ TheMap' = map
  BY DEF TheMap
<1>5. ASSUME NEW u, NEW lines, Ties(Local, map, lines, u) PROVE Ties(Local', map, lines, u)
  <2>1. PICK i \in 1 .. Len(Local) :
          /\ Local[i].uid \in DOMAIN map /\ map[Local[i].uid] = u
          /\ Says(lines, Local[i].uid, u)
    BY <1>5 DEF Ties
  <2>2. i \in I \cap (1 .. Len(Local))
    BY <1>2, <2>1
  <2> HIDE DEF I
  <2>3. PICK j \in 1 .. Len(folder') : folder'[j] = Local[i]
    <3> DEFINE p == Local
               q == folder'
    <3>1. p \in Seq(Message) /\ q = Selected(p, I)
      BY <1>1, <1>2
    <3> HIDE DEF p, q
    <3>2. \A k \in I \cap (1 .. Len(p)) : \E j \in 1 .. Len(q) : q[j] = p[k]
      BY <3>1, SelectedElements
    <3>3. \A k \in I \cap (1 .. Len(Local)) : \E j \in 1 .. Len(folder') : folder'[j] = Local[k]
      BY <3>2 DEF p, q
    <3> QED
      BY <2>2, <3>3
  <2> QED
    BY <1>3, <2>1, <2>3 DEF Ties
<1> QED
  BY <1>4, <1>5, SafeSame

\* What is taken out of the map is noted.
LEMMA SafeDeletion ==
  ASSUME TypeInv, Safe, changes \in Seq(Change(Len(arrived))), CheckDeletion, session # "closed",
         UNCHANGED <<stateUid, mappings, mapBuf, folder, hdrLast, session>>,
         \A u \in DOMAIN master' : Fetched(u)' => u \in DOMAIN master /\ Fetched(u)
  PROVE  Safe'
<1>1. TheMap = map /\ TheMap' = map' /\ Local' = Local
  BY DEF TheMap, Local
<1>2. ASSUME NEW u, NEW lines, Ties(Local, map, lines, u)
      PROVE  Ties(Local, map', lines, u) \/ Tells(changes', u)
  <2>1. PICK i \in 1 .. Len(Local) :
          /\ Local[i].uid \in DOMAIN map /\ map[Local[i].uid] = u
          /\ Says(lines, Local[i].uid, u)
    BY <1>2 DEF Ties
  <2>2. CASE Local[i].uid \in DOMAIN map'
    BY <2>1, <2>2, CheckTells DEF Ties
  <2>3. CASE Local[i].uid \notin DOMAIN map'
    BY <2>1, <2>3, CheckTells
  <2> QED
    BY <2>2, <2>3
<1>3. \A u : Tells(changes, u) => Tells(changes', u)
  BY CheckTells
<1> QED
  BY <1>1, <1>2, <1>3, SafeSame

\* The lines in the buffer go to the file, and the state with them.
LEMMA SafeFlush ==
  ASSUME TypeInv, TypeInv', Safe, UNCHANGED <<folder, hdrLast, map, session, changes>>,
         mappings' = mappings \o mapBuf, mapBuf' = <<>>,
         \A u \in DOMAIN master' : Fetched(u)' => u \in DOMAIN master /\ Fetched(u)
  PROVE  Safe'
<1>1. Local' = Local /\ (session # "closed" => TheMap' = TheMap)
  BY DEF Local, TheMap
<1>2. mappings' \o mapBuf' = mappings'
  BY TypedLines DEF TypeInv, MapsRight, LinesTo
<1>3. session = "closed" => TheMap' = ReadMappings(mappings')
  BY DEF TheMap
<1>4. mappings' \in Seq(Line)
  BY DEF TypeInv, MapsRight, LinesTo
<1> SUFFICES ASSUME NEW u \in DOMAIN master', Fetched(u)'
             PROVE  Tells(changes', u) \/ Ties(Local', TheMap', mappings', u)
  BY <1>2 DEF Safe, Fetched
<1>5. Tells(changes, u) \/ Ties(Local, TheMap, mappings', u)
  BY DEF Safe
<1> QED
  BY <1>1, <1>3, <1>4, <1>5, TiesRead

\* The map goes to the file.
LEMMA SafeWrite ==
  ASSUME TypeInv, TypeInv', Safe, UNCHANGED <<stateUid, folder, hdrLast, map, session, changes>>,
         session # "closed", mapBuf = <<>>, mapBuf' = <<>>, mappings' \in {mappings, LinesOf(map)},
         \A u \in DOMAIN master' : Fetched(u)' => u \in DOMAIN master /\ Fetched(u)
  PROVE  Safe'
<1>1. Local' = Local /\ TheMap' = map /\ TheMap = map
  BY DEF Local, TheMap
<1>2. mappings' \o mapBuf' = mappings' /\ mappings \o mapBuf = mappings
  BY TypedLines DEF TypeInv, MapsRight, LinesTo
<1>3. Len(arrived) \in Nat /\ MapTo(map, Len(arrived))
  BY TypedLines
<1> SUFFICES ASSUME NEW u \in DOMAIN master', Fetched(u)'
             PROVE  Tells(changes', u) \/ Ties(Local', TheMap', mappings', u)
  BY <1>2 DEF Safe, Fetched
<1>4. Tells(changes, u) \/ Ties(Local, map, mappings, u)
  BY <1>1, <1>2 DEF Safe
<1> QED
  BY <1>1, <1>3, <1>4, TiesWrite

\* The line of the next message is written: no message has its uid yet.
LEMMA SafeNext ==
  ASSUME TypeInv, Sound, Safe, Seen, Written, d_next
  PROVE  Safe'
<1>1. /\ pc = "d_next" /\ todo # {} /\ UNCHANGED <<server, folder, hdrLast, changes, session, map>>
      /\ UNCHANGED <<lastUid, uidLast, stateUid>> /\ DOMAIN view' = DOMAIN view
      /\ pc' \in {"d_next", "d_append"}
  BY DEF d_next, WriteLine
<1>2. Local' = Local /\ TheMap' = TheMap /\ session # "closed" /\ TheMap = map
  BY <1>1 DEF Local, TheMap, TypeInv, Control
<1>3. mapBuf = <<>>
  BY <1>1 DEF Written
<1> DEFINE u0 == Min(todo)
<1>4. CASE u0 \notin DOMAIN master
  <2>1. UNCHANGED <<mappings, mapBuf>> /\ todo' = todo \ {u0}
    BY <1>4 DEF d_next
  <2>2. ASSUME NEW u \in DOMAIN master', Fetched(u)' PROVE u \in DOMAIN master /\ Fetched(u)
    <3>1. u \in DOMAIN master /\ u # u0
      BY <1>1, <1>4 DEF server
    <3> HIDE DEF u0
    <3> QED
      BY <1>1, <2>1, <2>2, <3>1 DEF Fetched, Opening, Downloading, Looped
  <2> QED
    BY <1>1, <2>1, <2>2, SafeStays
<1>5. CASE u0 \in DOMAIN master
  <2> DEFINE l == localLast + 1
  <2>1. /\ todo' = todo /\ mapBuf' = <<>>
        /\ mappings' = mappings \o Append(mapBuf, <<u0, l>>)
    BY <1>5 DEF d_next, WriteLine
  <2>2. mappings' = Append(mappings, <<u0, l>>)
    <3>1. mappings \in Seq(Line) /\ <<u0, l>> \in Line
      <4>1. localLast \in Nat /\ Len(arrived) \in Nat /\ mappings \in Seq(Line)
        BY TypedLines DEF TypeInv, MapsRight
      <4>2. u0 \in Nat
        BY <1>5, <4>1 DEF TypeInv, ServerRight
      <4> QED
        BY <4>1, <4>2 DEF Line
    <3> HIDE DEF u0, l
    <3> QED
      BY <1>3, <2>1, <3>1
  <2>3. mappings \o mapBuf = mappings /\ mappings' \o mapBuf' = mappings'
    <3>1. mappings \in Seq(Line) /\ mappings \o <<>> = mappings
      BY TypedLines
    <3>2. Append(mappings, <<u0, l>>) \o <<>> = Append(mappings, <<u0, l>>)
      BY <3>1
    <3> QED
      BY <1>3, <2>1, <2>2, <3>1, <3>2
  <2>4. \A i \in 1 .. Len(Local) : Local[i].uid # l
    <3>1. /\ Ascends(Local, LastGiven(folder, hdrLast)) /\ LastGiven(folder, hdrLast) \in Nat
          /\ \A i \in 1 .. Len(Local) : Local[i].uid \in Nat
      BY LocalRight
    <3>2. localLast = LastGiven(folder, hdrLast)
      BY <1>1, <1>2, <3>1 DEF Sound
    <3> QED
      BY <3>1, <3>2 DEF Ascends
  <2>5. \A k, u : Says(mappings, k, u) /\ k # l => Says(mappings', k, u)
    <3>1. mappings \in Seq(Line)
      BY TypedLines
    <3> HIDE DEF l, u0
    <3> QED
      BY <2>2, <3>1, SaysAppend
  <2> HIDE DEF l, u0
  <2>6. ASSUME NEW u, Ties(Local, map, mappings, u) PROVE Ties(Local, map, mappings', u)
    BY <2>4, <2>5, <2>6 DEF Ties
  <2>7. ASSUME NEW u \in DOMAIN master', Fetched(u)' PROVE u \in DOMAIN master /\ Fetched(u)
    <3>1. u \in DOMAIN master
      BY <1>1 DEF server
    <3> QED
      BY <1>1, <2>1, <2>7, <3>1 DEF Fetched, Opening, Downloading, Looped
  <2>8. ASSUME NEW u \in DOMAIN master', Fetched(u)'
        PROVE  Tells(changes', u) \/ Ties(Local', TheMap', mappings', u)
    <3>1. Tells(changes, u) \/ Ties(Local, map, mappings, u)
      BY <1>2, <2>3, <2>7, <2>8 DEF Safe
    <3> QED
      BY <1>1, <1>2, <2>6, <3>1
  <2> QED
    BY <2>3, <2>8 DEF Safe, Fetched
<1> QED
  BY <1>4, <1>5

LEMMA SafeAppend ==
  ASSUME TypeInv, Safe, d_append
  PROVE  Safe'
<1>1. /\ pc = "d_append" /\ pc' = "d_rename"
      /\ UNCHANGED <<server, view, uidLast, mappings, stateUid, changes, session, map, mapBuf,
                     lastUid, todo>>
  BY DEF d_append, stream, memory, args
<1>2. TheMap' = TheMap
  BY <1>1 DEF TheMap
<1>3. /\ Len(Local) = Len(folder) /\ Len(Local') = Len(folder) + 1 /\ Len(folder) \in Nat
      /\ \A i \in 1 .. Len(folder) : Local'[i] = Local[i]
  BY AppendLocal, LocalRight
<1>4. ASSUME NEW f, NEW lines, NEW u, Ties(Local, f, lines, u) PROVE Ties(Local', f, lines, u)
  BY <1>3, <1>4 DEF Ties
<1>5. ASSUME NEW u \in DOMAIN master', Fetched(u)' PROVE u \in DOMAIN master /\ Fetched(u)
  <2>1. u \in DOMAIN master
    BY <1>1 DEF server
  <2> QED
    BY <1>1, <1>5, <2>1 DEF Fetched, Opening, Downloading, Looped
<1> QED
  BY <1>1, <1>2, <1>4, <1>5, SafeSame

\* What the map learns when the lines say it.
LEMMA TiesPut ==
  ASSUME NEW p, NEW f, NEW lines \in Seq(Line), NEW l, NEW v, Says(lines, l, v),
         NEW u, Ties(p, f, lines, u)
  PROVE  Ties(p, Put(f, l, v), lines, u)
<1>1. PICK i \in 1 .. Len(p) :
        p[i].uid \in DOMAIN f /\ f[p[i].uid] = u /\ Says(lines, p[i].uid, u)
  BY DEF Ties
<1>2. p[i].uid = l => u = v
  BY <1>1, SaysRead
<1>3. p[i].uid \in DOMAIN Put(f, l, v) /\ Put(f, l, v)[p[i].uid] = u
  BY <1>1, <1>2 DEF Put
<1> QED
  BY <1>1, <1>3 DEF Ties

\* The message is there, and the state with it.
LEMMA SafeRename ==
  ASSUME TypeInv, TypeInv', Sound, Safe, Seen, Written, d_rename
  PROVE  Safe'
<1> DEFINE u0 == Min(todo)
<1>1. /\ pc = "d_rename" /\ pc' = "d_next" /\ stateUid' = u0 /\ todo' = todo \ {u0}
      /\ map' = Put(map, localLast, u0)
      /\ UNCHANGED <<master, view, folder, hdrLast, mappings, changes, session, mapBuf, lastUid>>
  BY DEF d_rename, server
<1>2. Local' = Local /\ session # "closed" /\ TheMap = map /\ TheMap' = map'
  BY <1>1 DEF Local, TheMap, TypeInv, Control
<1>3. mapBuf = <<>> /\ mappings \o mapBuf = mappings /\ mappings \in Seq(Line)
  BY <1>1, TypedLines DEF Written
<1>4. Says(mappings, localLast, u0)
  BY <1>1 DEF Written
<1>5. u0 \in todo /\ u0 \in Nat /\ \A v \in todo : v \in Nat /\ u0 <= v
  <2>1. TypeInv => Control
    BY DEF TypeInv
  <2>2. pc \in {"d_append", "d_rename"}
    BY <1>1
  <2>3. todo # {}
    BY <2>1, <2>2 DEF Control
  <2>4. todo \subseteq 1 .. Len(arrived)
    BY DEF TypeInv, PlacesRight
  <2>5. todo \in SUBSET Nat
    BY <2>4
  <2> QED
    BY <2>3, <2>5, MinNumber
<1>6. 1 <= Len(Local) /\ Local[Len(Local)].uid = localLast
  BY <1>1 DEF Sound
<1> HIDE DEF u0
<1>7. Ties(Local, map', mappings, u0)
  <2>1. Len(Local) \in 1 .. Len(Local)
    BY <1>6, LocalRight
  <2>2. localLast \in DOMAIN map' /\ map'[localLast] = u0
    BY <1>1 DEF Put
  <2> QED
    BY <1>4, <1>6, <2>1, <2>2 DEF Ties
<1>8. ASSUME NEW u, Ties(Local, map, mappings, u) PROVE Ties(Local, map', mappings, u)
  BY <1>1, <1>3, <1>4, <1>8, TiesPut
<1>9. ASSUME NEW u \in DOMAIN master, Fetched(u)
      PROVE  Tells(changes', u) \/ Ties(Local', TheMap', mappings', u)
  <2>1. Tells(changes, u) \/ Ties(Local, map, mappings, u)
    BY <1>2, <1>3, <1>9 DEF Safe
  <2> QED
    BY <1>1, <1>2, <1>8, <2>1
<1>10. ASSUME NEW u \in DOMAIN master, Fetched(u)', u # u0 PROVE Fetched(u)
  <2>1. u \in Nat
    BY LastUids DEF TypeInv, ServerRight
  <2>2. u <= stateUid' => u \in DOMAIN view /\ u \notin todo
    <3>1. u <= u0 => u < u0
      BY <1>5, <1>10, <2>1
    <3>2. u <= u0 => u \notin todo
      BY <1>5, <2>1, <3>1
    <3>3. u0 \in DOMAIN view
      BY <1>1, <1>5 DEF Seen, Downloading
    <3>4. u <= u0 => u \in DOMAIN view
      BY <3>3 DEF Seen
    <3> QED
      BY <1>1, <3>2, <3>4
  <2>3. u \notin todo' => u \notin todo
    BY <1>1, <1>10
  <2> QED
    BY <1>1, <1>10, <2>2, <2>3 DEF Fetched, Opening, Downloading, Looped
<1>11. ASSUME NEW u \in DOMAIN master', Fetched(u)'
       PROVE  Tells(changes', u) \/ Ties(Local', TheMap', mappings', u)
  <2>1. CASE u = u0
    BY <1>1, <1>2, <1>7, <2>1
  <2>2. CASE u # u0
    BY <1>1, <1>9, <1>10, <1>11, <2>2
  <2> QED
    BY <2>1, <2>2
<1>12. mappings' \o mapBuf' = mappings'
  BY <1>1, <1>3
<1> QED
  BY <1>11, <1>12 DEF Safe, Fetched

\* What was uploaded is mapped, in memory and in the buffer.
LEMMA SafeSearch ==
  ASSUME TypeInv, Known, Safe, Written, s_search
  PROVE  Safe'
<1> DEFINE m == folder[msgno]
           l == m.uid
           v == Found(m)
<1>1. /\ pc = "s_search" /\ pc' = "s_loop" /\ Uploaded(v, l)
      /\ UNCHANGED <<server, view, disk, session, lastUid>>
  BY DEF s_search
<1>2. /\ l # 0 /\ l \notin DOMAIN map /\ msgno \in 1 .. Len(folder)
  <2>1. msgno \in 1 .. nmsgs /\ msgno \in 1 .. Len(folder)
    BY <1>1 DEF TypeInv, Control, PlacesRight
  <2> QED
    BY <1>1, <2>1 DEF Known, Loops, Written
<1>3. Local' = Local /\ session # "closed" /\ TheMap = map /\ TheMap' = map'
  BY <1>1 DEF Local, TheMap, TypeInv, Control, disk
<1>4. CASE v = 0
  <2>1. UNCHANGED <<mapBuf, map, uidLast>>
    BY <1>1, <1>4 DEF Uploaded
  <2>2. ASSUME NEW u \in DOMAIN master', Fetched(u)' PROVE u \in DOMAIN master /\ Fetched(u)
    BY <1>1, <2>1, <2>2 DEF server, disk, Fetched, Opening, Downloading, Looped
  <2> QED
    BY <1>1, <2>1, <2>2, SafeStays DEF disk
<1>5. CASE v # 0
  <2>1. /\ mapBuf' = Append(mapBuf, <<v, l>>) /\ map' = Put(map, l, v) /\ uidLast' = v
        /\ v = uidLast + 1
    BY <1>1, <1>5 DEF Uploaded, Found
  <2>2. Local[msgno].uid = l /\ msgno \in 1 .. Len(Local)
    <3>1. Numbers(Local, LastGiven(folder, hdrLast), folder, hdrLast)
          /\ Len(Local) = Len(folder)
      BY LocalRight
    <3> QED
      BY <1>2, <3>1 DEF Numbers
  <2> HIDE DEF v, l, m
  <2>3. /\ l \in DOMAIN map' /\ map'[l] = v
        /\ \A k \in DOMAIN map : k \in DOMAIN map' /\ k # l /\ map'[k] = map[k]
    BY <1>2, <2>1 DEF Put
  <2> DEFINE s == mappings \o mapBuf
  <2>4. mappings' \o mapBuf' = Append(s, <<v, l>>)
    <3>1. mappings \in Seq(Line) /\ mapBuf \in Seq(Line) /\ mappings' = mappings
      BY <1>1, TypedLines DEF disk
    <3>2. <<v, l>> \in Line
      <4>1. uidLast \in Nat
        BY LastUids DEF TypeInv, StreamRight
      <4>2. l \in Nat
        BY <1>2, LastUids DEF l, m
      <4> QED
        BY <2>1, <4>1, <4>2 DEF Line
    <3> QED
      BY <2>1, <3>1, <3>2
  <2>5. s \in Seq(Line)
    BY TypedLines
  <2> HIDE DEF s
  <2>6. ASSUME NEW u, Ties(Local, map, mappings, u) PROVE Ties(Local, map', mappings, u)
    BY <2>3, <2>6 DEF Ties
  <2>7. ASSUME NEW u, Ties(Local, map, s, u) PROVE Ties(Local, map', Append(s, <<v, l>>), u)
    <3>1. PICK i \in 1 .. Len(Local) :
            /\ Local[i].uid \in DOMAIN map /\ map[Local[i].uid] = u
            /\ Says(s, Local[i].uid, u)
      BY <2>7 DEF Ties
    <3>2. Says(Append(s, <<v, l>>), Local[i].uid, u)
      BY <2>3, <2>5, <3>1, SaysAppend
    <3> QED
      BY <2>3, <3>1, <3>2 DEF Ties
  <2>8. Ties(Local, map', Append(s, <<v, l>>), v)
    <3>1. Says(Append(s, <<v, l>>), l, v)
      BY <2>5, SaysAppend
    <3> QED
      BY <2>2, <2>3, <3>1 DEF Ties
  <2>9. ASSUME NEW u \in DOMAIN master', Fetched(u)', u # v PROVE u \in DOMAIN master /\ Fetched(u)
    <3>1. u \in DOMAIN master /\ u \in Nat /\ uidLast \in Nat
      BY <1>1, LastUids DEF server, TypeInv, ServerRight, StreamRight
    <3>2. u <= uidLast' => u <= uidLast
      BY <2>1, <2>9, <3>1
    <3> QED
      BY <1>1, <2>9, <3>1, <3>2 DEF disk, Fetched, Opening, Downloading, Looped
  <2>10. ASSUME NEW u \in DOMAIN master', Fetched(u)'
         PROVE  Tells(changes', u) \/ Ties(Local', TheMap', mappings' \o mapBuf', u)
    <3>1. CASE u = v
      BY <1>3, <2>4, <2>8, <3>1
    <3>2. CASE u # v
      <4>1. Tells(changes, u) \/ Ties(Local, map, s, u)
        BY <1>3, <2>9, <2>10, <3>2 DEF Safe, s
      <4> QED
        BY <1>1, <1>3, <2>4, <2>7, <4>1 DEF disk
    <3> QED
      BY <3>1, <3>2
  <2>11. ASSUME NEW u \in DOMAIN master', u <= stateUid'
         PROVE  Tells(changes', u) \/ Ties(Local', TheMap', mappings', u)
    <3>1. u \in DOMAIN master /\ u <= stateUid /\ changes' = changes /\ mappings' = mappings
      BY <1>1, <2>11 DEF server, disk
    <3>2. Tells(changes, u) \/ Ties(Local, map, mappings, u)
      BY <1>3, <3>1 DEF Safe
    <3> QED
      BY <1>3, <2>6, <3>1, <3>2
  <2> QED
    BY <2>10, <2>11 DEF Safe
<1> QED
  BY <1>4, <1>5

\* The stream knows what it has to know, after a step that finds it working.
LEMMA SeenStep ==
  ASSUME TypeInv, NoInsert, Seen, ~broken, ~error, [Next]_vars,
         ~d_full, ~state_full, ~Insert
  PROVE  Seen'
<1> USE DEF Looped, Downloading
<1>1. /\ Len(arrived) \in Nat /\ DOMAIN master \subseteq 1 .. Len(arrived)
      /\ DOMAIN view \subseteq 1 .. Len(arrived) /\ uidLast \in 0 .. Len(arrived)
  BY LastUids DEF TypeInv, ServerRight, StreamRight
<1>2. CASE Deliver
  <2> DEFINE n == Len(arrived')
  <2>1. /\ n = Len(arrived) + 1 /\ DOMAIN master' = DOMAIN master \cup {n}
        /\ UNCHANGED <<view, uidLast, pc, todo, last>>
    <3>1. arrived \in Seq(Nat)
      BY DEF TypeInv, ServerRight
    <3> QED
      BY <1>2, <3>1 DEF Deliver, Put, stream, args
  <2> HIDE DEF n
  <2> QED
    BY <1>1, <2>1 DEF Seen
<1>3. CASE OtherClient
  <2>1. DOMAIN master' \subseteq DOMAIN master /\ UNCHANGED <<stream, pc, args>>
    BY <1>3 DEF OtherClient, Without
  <2> QED
    BY <2>1 DEF Seen, stream, args
<1>4. CASE Lose
  BY <1>4 DEF Lose, Seen, server, args
<1>5. CASE Crash \/ CrashWriting \/ s_fatal \/ i_fatal \/ c_map
  <2>1. Gone /\ UNCHANGED master
    BY <1>5 DEF Crash, CrashWriting, s_fatal, i_fatal, Die, c_map, server
  <2>2. view' = <<>> /\ uidLast' = 0 /\ pc' = "idle" /\ DOMAIN <<>> = {}
    BY <2>1 DEF Gone, Idle
  <2> QED
    BY <1>1, <2>1, <2>2 DEF Seen
<1>6. CASE Open \/ NetSync \/ GoOnline
  <2>1. UNCHANGED server /\ pc = "idle" /\ (UNCHANGED <<stream, pc>> \/ OpenMaster)
    BY <1>6 DEF Open, NetSync, GoOnline, Issue
  <2>2. CASE UNCHANGED <<stream, pc>>
    BY <2>1, <2>2 DEF Seen, server, stream
  <2>3. CASE OpenMaster
    <3>1. pc' = "s_delete" /\ (UNCHANGED stream \/ (view' = master /\ uidLast' = Len(arrived)))
      BY <2>3 DEF OpenMaster
    <3> QED
      BY <1>1, <2>1, <3>1 DEF Seen, server, stream
  <2> QED
    BY <2>1, <2>2, <2>3
<1>7. CASE GoOffline \/ SyncRefused \/ StartUpdate("update") \/ StartUpdate("sync") \/ Close \/ c_local
  <2>1. UNCHANGED <<server, view, uidLast>> /\ pc \notin Downloading \cup Looped
        /\ pc' \notin Downloading \cup Looped
    BY <1>7 DEF GoOffline, SyncRefused, StartUpdate, Close, c_local, Issue, stream
  <2> QED
    BY <2>1 DEF Seen, server
<1>8. CASE SetFlag
  <2>1. pc = "idle" /\ pc' = "idle" /\ DOMAIN master' = DOMAIN master
        /\ (view' = view \/ view' = master') /\ uidLast' = uidLast
    <3>1. PICK i \in 1 .. number, f \in Flags :
            LET uid == GetMasterUID(map, folder[i])
                value == f \notin folder[i].flags IN
            IF uid # 0 /\ online
            THEN Command(IF uid \in DOMAIN master
                           THEN [master EXCEPT ![uid] = With(@, f, value)] ELSE master)
            ELSE UNCHANGED <<master, view>>
      BY <1>8 DEF SetFlag
    <3>2. pc = "idle" /\ pc' = "idle" /\ uidLast' = uidLast
      BY <1>8 DEF SetFlag, Issue
    <3>3. DOMAIN master' = DOMAIN master /\ (view' = view \/ view' = master')
      BY <3>1 DEF Command
    <3> QED
      BY <3>2, <3>3
  <2> QED
    BY <2>1 DEF Seen
<1>9. CASE d_search \/ d_done
  <2>1. pc \in Downloading /\ UNCHANGED <<server, view, uidLast>>
        /\ ((pc' = "d_next" /\ todo' = todo)
             \/ (pc' = ret /\ last' = (IF ret = "s_loop" THEN uidLast ELSE last)))
    BY <1>9 DEF d_search, d_done, Return
  <2>2. ret \in {"s_loop", "u_state"}
    BY <2>1 DEF TypeInv, Control, NoInsert
  <2>3. pc' = "d_next" \/ (pc' \in {"s_loop", "u_state"} /\ (pc' = "s_loop" => last' = uidLast))
    BY <2>1, <2>2
  <2>4. pc' = "d_next" => todo' = todo
    BY <2>1, <2>2
  <2>5. \A x : x = uidLast => x <= uidLast
    BY <1>1
  <2> QED
    BY <2>1, <2>3, <2>4, <2>5 DEF Seen, server
<1>10. CASE d_next \/ d_append
  <2>1. /\ pc \in Downloading /\ pc' \in Downloading /\ UNCHANGED <<server, uidLast>>
        /\ DOMAIN view' = DOMAIN view /\ todo' \subseteq todo
    BY <1>10 DEF d_next, d_append, stream, args
  <2> QED
    BY <2>1 DEF Seen, server
<1>11. CASE d_rename
  <2> DEFINE u0 == Min(todo)
  <2>1. /\ pc = "d_rename" /\ pc' = "d_next" /\ UNCHANGED <<master, view>> /\ uidLast' = u0
        /\ todo' = todo \ {u0}
    BY <1>11 DEF d_rename, server
  <2>2. u0 \in todo
    <3>1. TypeInv => Control
      BY DEF TypeInv
    <3>2. pc \in {"d_append", "d_rename"}
      BY <2>1
    <3>3. todo # {}
      BY <3>1, <3>2 DEF Control
    <3>4. todo \subseteq 1 .. Len(arrived)
      BY DEF TypeInv, PlacesRight
    <3>5. todo \in SUBSET Nat
      BY <3>4
    <3> QED
      BY <3>3, <3>5, MinNumber
  <2> HIDE DEF u0
  <2>3. u0 \in DOMAIN view
    BY <2>1, <2>2 DEF Seen
  <2> QED
    BY <2>1, <2>3 DEF Seen
<1>12. CASE s_delete \/ s_map \/ s_flags \/ s_unlink
  <2>1. (UNCHANGED <<master, view, uidLast>> \/ view' = master')
        /\ pc' \in {"s_map", "s_flags", "s_unlink", "s_download"}
    BY <1>12 DEF s_delete, s_map, s_flags, s_unlink, Command, server, stream
  <2> QED
    BY <2>1 DEF Seen
<1>13. CASE s_abort
  BY <1>13 DEF s_abort
<1>14. CASE s_download
  BY <1>14 DEF s_download, Download, Seen, server, stream
<1>15. CASE s_flagged
  BY <1>15 DEF s_flagged, Looping, Seen, server
<1>16. CASE s_upload
  <2> DEFINE n == Len(arrived')
  <2>1. /\ n = Len(arrived) + 1 /\ DOMAIN master' = DOMAIN master \cup {n}
        /\ view' = master' /\ UNCHANGED <<uidLast, last>> /\ pc = "s_loop" /\ pc' = "s_search"
    <3>1. arrived \in Seq(Nat)
      BY DEF TypeInv, ServerRight
    <3>2. PICK m : Upload(m, "s_search") /\ UNCHANGED <<uidLast, args>> /\ pc = "s_loop"
      BY <1>16 DEF s_upload, Looping
    <3>3. arrived' = Append(arrived, m.msg) /\ master' = Put(master, n, m.flags)
          /\ view' = master' /\ pc' = "s_search"
      BY <3>2 DEF Upload, Command
    <3> QED
      BY <3>1, <3>2, <3>3 DEF Put, args
  <2> HIDE DEF n
  <2>2. n \in DOMAIN view' /\ uidLast' < n
    BY <1>1, <2>1
  <2> QED
    BY <2>1, <2>2 DEF Seen
<1>17. CASE s_search
  <2>1. PICK v : /\ v = 0 \/ v = uidLast + 1
                 /\ Uploaded(v, folder[msgno].uid) /\ last' = v
    BY <1>17 DEF s_search, Found
  <2>2. pc = "s_search" /\ pc' = "s_loop" /\ UNCHANGED <<server, view>>
    BY <1>17 DEF s_search
  <2>3. uidLast' = (IF v = 0 THEN uidLast ELSE v)
    BY <2>1 DEF Uploaded
  <2>4. PICK w \in DOMAIN view : uidLast < w
    BY <2>2 DEF Seen
  <2>5. \A u \in DOMAIN master : u <= uidLast' => u <= uidLast \/ u <= w
    BY <1>1, <2>1, <2>3, <2>4
  <2>6. \A u \in DOMAIN master : u <= uidLast' => u \in DOMAIN view
    BY <2>4, <2>5 DEF Seen
  <2>7. last' <= uidLast'
    BY <1>1, <2>1, <2>3
  <2> QED
    BY <2>2, <2>6, <2>7 DEF Seen, server
<1>18. CASE s_flush \/ s_state
  BY <1>18 DEF s_flush, s_state, Seen, server, stream, args
<1>19. CASE s_end
  <2>1. CASE Gone
    <3>1. view' = <<>> /\ uidLast' = 0 /\ pc' = "idle" /\ DOMAIN <<>> = {} /\ UNCHANGED master
      BY <1>19, <2>1 DEF Gone, Idle, s_end, server
    <3> QED
      BY <1>1, <3>1 DEF Seen
  <2>2. CASE pc' = "u_start" /\ UNCHANGED stream
    BY <1>19, <2>2 DEF s_end, Seen, server, stream
  <2> QED
    BY <1>19, <2>1, <2>2 DEF s_end
<1>20. CASE u_start
  <2>1. /\ UNCHANGED uidLast /\ (UNCHANGED <<master, view>> \/ view' = master')
        /\ pc' \in {"d_search", "u_net", "u_check"} /\ pc = "u_start"
        /\ pc' = "d_search" => todo' \subseteq DOMAIN view'
    BY <1>20 DEF u_start, Command, Download
  <2> QED
    BY <2>1 DEF Seen
<1>21. CASE u_state \/ u_net \/ u_check \/ u_map \/ u_local
  <2>1. UNCHANGED <<server, view, uidLast>> /\ pc' \in {"u_net", "u_check", "u_map", "u_local", "idle"}
    BY <1>21 DEF u_state, u_net, u_check, u_map, u_local, Idle, stream
  <2> QED
    BY <2>1 DEF Seen, server
<1>22. CASE i_upload \/ i_search \/ i_ping \/ i_state
  BY <1>22 DEF i_upload, i_search, i_ping, i_state, NoInsert
<1>23. CASE UNCHANGED vars
  BY <1>23 DEF vars, server, stream, args, Seen
<1> QED
  BY <1>2, <1>3, <1>4, <1>5, <1>6, <1>7, <1>8, <1>9, <1>10, <1>11, <1>12, <1>13, <1>14, <1>15,
     <1>16, <1>17, <1>18, <1>19, <1>20, <1>21, <1>22, <1>23 DEF Next, World, User, Steps

\* A message without a uid of the master is not in the map.
LEMMA NotMapped ==
  ASSUME TypeInv, NEW m, GetMasterUID(map, m) = 0
  PROVE  m.uid \notin DOMAIN map
<1>1. MapTo(map, Len(arrived)) /\ Len(arrived) \in Nat
  BY TypedLines
<1>2. \A l \in DOMAIN map : map[l] # 0
  BY <1>1 DEF MapTo
<1> QED
  BY <1>2 DEF GetMasterUID

\* What is written stays so.
LEMMA WrittenStep ==
  ASSUME TypeInv, NoInsert, Written, [Next]_vars, ~d_full, ~state_full, ~Insert
  PROVE  Written'
<1> USE DEF server, stream, disk, memory, args, history, bounds
<1>1. CASE Deliver \/ OtherClient \/ Lose \/ UNCHANGED vars
  BY <1>1 DEF Deliver, OtherClient, Lose, vars, Written
<1>2. CASE Crash \/ CrashWriting \/ s_fatal \/ i_fatal \/ c_map
  BY <1>2 DEF Crash, CrashWriting, s_fatal, i_fatal, Die, c_map, Gone, Idle, Written
<1>3. CASE Open \/ NetSync \/ GoOnline
  BY <1>3 DEF Open, NetSync, GoOnline, Issue, OpenLocal, OpenMaster, Written
<1>4. CASE GoOffline \/ SyncRefused \/ StartUpdate("update") \/ StartUpdate("sync") \/ SetFlag
           \/ Close \/ c_local
  BY <1>4 DEF GoOffline, SyncRefused, StartUpdate, SetFlag, Close, c_local, Issue, Written
<1>5. CASE d_search \/ d_done
  <2>1. pc \in Downloading /\ UNCHANGED mapBuf /\ (pc' = "d_next" \/ pc' = ret)
    BY <1>5 DEF d_search, d_done, Return, Downloading
  <2>2. ret \in {"s_loop", "u_state"}
    BY <2>1 DEF TypeInv, Control, NoInsert
  <2>3. pc' \in {"d_next", "s_loop", "u_state"} /\ mapBuf = <<>>
    BY <2>1, <2>2 DEF Written, Downloading
  <2> QED
    BY <2>1, <2>3 DEF Written
<1>6. CASE d_next
  <2>1. mapBuf = <<>> /\ pc = "d_next"
    BY <1>6 DEF Written, d_next
  <2>2. CASE Min(todo) \notin DOMAIN master
    BY <1>6, <2>1, <2>2 DEF d_next, Written
  <2>3. CASE Min(todo) \in DOMAIN master
    <3> DEFINE u0 == Min(todo)
               l == localLast + 1
    <3>1. /\ localLast' = l /\ mapBuf' = <<>> /\ todo' = todo /\ pc' = "d_append"
          /\ mappings' = mappings \o Append(<<>>, <<u0, l>>)
      BY <1>6, <2>1, <2>3 DEF d_next, WriteLine
    <3>2. mappings \in Seq(Line) /\ <<u0, l>> \in Line
      <4>1. localLast \in Nat /\ Len(arrived) \in Nat /\ mappings \in Seq(Line)
        BY TypedLines DEF TypeInv, MapsRight
      <4>2. u0 \in Nat
        BY <2>3, <4>1 DEF TypeInv, ServerRight
      <4> QED
        BY <4>1, <4>2 DEF Line
    <3> HIDE DEF u0, l
    <3>3. mappings' = Append(mappings, <<u0, l>>)
      BY <3>1, <3>2
    <3>4. Says(mappings', l, u0)
      BY <3>2, <3>3, SaysAppend
    <3>5. Says(mappings', localLast', Min(todo'))
      BY <3>1, <3>4 DEF u0
    <3> QED
      BY <3>1, <3>5 DEF Written
  <2> QED
    BY <2>2, <2>3
<1>7. CASE d_append
  BY <1>7 DEF d_append, Written
<1>8. CASE d_rename
  BY <1>8 DEF d_rename, Written
<1>9. CASE s_delete \/ s_map \/ s_flags \/ s_unlink \/ s_download
  BY <1>9 DEF s_delete, s_map, s_flags, s_unlink, s_download, Download, Written
<1>10. CASE s_abort \/ s_end
  BY <1>10 DEF s_abort, s_end, Gone, Idle, Written
<1>11. CASE s_flagged
  BY <1>11 DEF s_flagged, Looping, Written
<1>12. CASE s_upload
  <2>1. /\ pc' = "s_search" /\ UNCHANGED <<folder, map, msgno>>
        /\ GetMasterUID(map, folder[msgno]) = 0
    BY <1>12 DEF s_upload, Upload
  <2> QED
    BY <2>1, NotMapped DEF Written
<1>13. CASE s_search
  BY <1>13 DEF s_search, Written
<1>14. CASE s_flush \/ s_state
  BY <1>14 DEF s_flush, s_state, Written
<1>15. CASE u_start
  BY <1>15 DEF u_start, Download, Written
<1>16. CASE u_state \/ u_net \/ u_check \/ u_map \/ u_local
  BY <1>16 DEF u_state, u_net, u_check, u_map, u_local, Idle, Written
<1>17. CASE i_upload \/ i_search \/ i_ping \/ i_state
  BY <1>17 DEF i_upload, i_search, i_ping, i_state, NoInsert
<1> QED
  BY <1>1, <1>2, <1>3, <1>4, <1>5, <1>6, <1>7, <1>8, <1>9, <1>10, <1>11, <1>12, <1>13, <1>14,
     <1>15, <1>16, <1>17 DEF Next, World, User, Steps

\* More uids of the master.
LEMMA ChangesTo ==
  ASSUME NEW n \in Nat, NEW m \in Nat, n <= m, NEW c \in Seq(Change(n))
  PROVE  c \in Seq(Change(m))
<1>1. Change(n) \subseteq Change(m)
  BY DEF Change
<1> DEFINE C == Change(n)
           D == Change(m)
<1>2. c \in Seq(C) /\ C \subseteq D
  BY <1>1
<1> HIDE DEF C, D
<1>3. c \in Seq(D)
  BY <1>2
<1> QED
  BY <1>3 DEF D

\* Only a uid that was given out is noted.
LEMMA TellsUid ==
  ASSUME NEW n \in Nat, NEW c \in Seq(Change(n)), NEW u, Tells(c, u)
  PROVE  u \in 1 .. n
<1>1. PICK i \in 1 .. Len(c) : c[i] = <<"delete", u>>
  BY DEF Tells
<1> DEFINE C == Change(n)
<1>2. c[i] \in C
  <2> HIDE DEF C
  <2>1. c \in Seq(C)
    BY DEF C
  <2> QED
    BY <2>1
<1> QED
  BY <1>1, <1>2 DEF Change

\* A step that leaves the changes alone.
LEMMA NotingStays ==
  ASSUME Noting, UNCHANGED changes, Len(arrived) \in Nat, Len(arrived') \in Nat,
         Len(arrived) <= Len(arrived'),
         pc' \in {"s_map", "s_flags", "s_unlink"} =>
           /\ pc \in {"s_map", "s_flags", "s_unlink"}
           /\ \A u \in DOMAIN master' : u \in DOMAIN master \/ u \notin 1 .. Len(arrived)
  PROVE  Noting'
<1> DEFINE n == Len(arrived)
           m == Len(arrived')
<1>1. n \in Nat /\ m \in Nat /\ n <= m /\ changes \in Seq(Change(n))
  BY DEF Noting
<1>2. changes \in Seq(Change(m))
  <2> HIDE DEF n, m
  <2> QED
    BY <1>1, ChangesTo
<1>3. ASSUME NEW u, Tells(changes, u) PROVE u \in 1 .. n
  <2> HIDE DEF n, m
  <2> QED
    BY <1>1, <1>3, TellsUid
<1>4. ASSUME pc' \in {"s_map", "s_flags", "s_unlink"}, NEW u \in DOMAIN master'
      PROVE  ~Tells(changes', u)
  BY <1>3, <1>4 DEF Noting
<1> QED
  BY <1>2, <1>4 DEF Noting

\* The deletions that are noted are carried out.
LEMMA DeletionsReach ==
  ASSUME TypeInv, Noting, s_delete, ~broken
  PROVE  \A u \in DOMAIN master' : ~Tells(changes, u)
<1> DEFINE gone == {changes[i][2] : i \in {j \in DOMAIN changes : changes[j][1] = "delete"}}
           n == Len(arrived)
<1>1. DOMAIN changes = 1 .. Len(changes)
  <2> HIDE DEF n
  <2>1. changes \in Seq(Change(n))
    BY DEF Noting, n
  <2> QED
    BY <2>1
<1>2. ASSUME NEW u, Tells(changes, u) PROVE u \in gone
  <2>1. PICK i \in 1 .. Len(changes) : changes[i] = <<"delete", u>>
    BY <1>2 DEF Tells
  <2>2. i \in DOMAIN changes /\ changes[i][1] = "delete" /\ changes[i][2] = u
    BY <1>1, <2>1
  <2> QED
    BY <2>2
<1>3. \/ gone = {} /\ master' = master
      \/ DOMAIN master' \cap gone = {}
  <2>1. CASE gone = {}
    BY <2>1 DEF s_delete
  <2>2. CASE gone # {}
    <3>1. master' = Expunged(Without(master, gone))
      BY <2>2 DEF s_delete, Command
    <3> HIDE DEF gone
    <3> QED
      BY <3>1 DEF Expunged, Without
  <2> QED
    BY <2>1, <2>2
<1> QED
  BY <1>2, <1>3

\* What is noted of a flag is a line of the changes.
LEMMA NoteFlagNotes ==
  ASSUME NEW n \in Nat, changes \in Seq(Change(n)), NEW u \in 0 .. n, NEW f \in Flags,
         NEW v \in BOOLEAN, NoteFlag(u, f, v)
  PROVE  changes' \in Seq(Change(n))
<1> DEFINE C == Change(n)
           line == <<"flag", u, f, v>>
<1>1. line \in C /\ changes \in Seq(C)
  BY DEF Change
<1>2. changes' = changes \/ changes' = Append(changes, line)
  BY DEF NoteFlag
<1> HIDE DEF C, line
<1>3. changes' \in Seq(C)
  BY <1>1, <1>2
<1> QED
  BY <1>3 DEF C

\* What is noted stays so.
LEMMA NotingStep ==
  ASSUME TypeInv, TypeInv', NoInsert, Noting, ~broken, ~error, [Next]_vars,
         ~d_full, ~state_full, ~Insert
  PROVE  Noting'
<1> DEFINE P == {"s_map", "s_flags", "s_unlink"}
<1>1. Len(arrived) \in Nat /\ Len(arrived') \in Nat
  BY LastUids
<1>2. /\ arrived' = arrived => Len(arrived) <= Len(arrived')
      /\ \A x : x = Len(arrived) => x <= Len(arrived)
  BY <1>1
<1>3. ASSUME UNCHANGED <<changes, arrived>>, pc' \notin P PROVE Noting'
  BY <1>1, <1>2, <1>3, NotingStays
<1>4. ASSUME UNCHANGED <<changes, arrived, master, pc>> PROVE Noting'
  BY <1>1, <1>2, <1>4, NotingStays
<1>5. CASE Deliver
  <2>1. /\ UNCHANGED <<changes, pc>> /\ Len(arrived') = Len(arrived) + 1
        /\ DOMAIN master' = DOMAIN master \cup {Len(arrived')}
    <3>1. arrived \in Seq(Nat)
      BY DEF TypeInv, ServerRight
    <3> QED
      BY <1>5, <3>1 DEF Deliver, Put, disk
  <2> QED
    BY <1>1, <2>1, NotingStays
<1>6. CASE OtherClient
  <2>1. UNCHANGED <<changes, pc, arrived>> /\ DOMAIN master' \subseteq DOMAIN master
    BY <1>6 DEF OtherClient, Without, disk
  <2> QED
    BY <1>1, <1>2, <2>1, NotingStays
<1>7. CASE Lose \/ SyncRefused \/ UNCHANGED vars
  BY <1>4, <1>7 DEF Lose, SyncRefused, vars, disk, server
<1>8. CASE Crash \/ CrashWriting \/ s_fatal \/ i_fatal \/ c_map
  BY <1>3, <1>8 DEF Crash, CrashWriting, s_fatal, i_fatal, Die, c_map, Gone, Idle, disk, server
<1>9. CASE Open \/ NetSync \/ GoOnline
  BY <1>3, <1>9 DEF Open, NetSync, GoOnline, Issue, OpenLocal, OpenMaster, disk, server
<1>10. CASE GoOffline \/ StartUpdate("update") \/ StartUpdate("sync") \/ c_local
  BY <1>3, <1>10 DEF GoOffline, StartUpdate, c_local, Issue, disk, server
<1>11. CASE SetFlag
  <2>1. PICK i \in 1 .. number, f \in Flags :
          LET uid == GetMasterUID(map, folder[i])
              value == f \notin folder[i].flags IN
          UNCHANGED changes \/ NoteFlag(uid, f, value)
    BY <1>11 DEF SetFlag
  <2>2. arrived' = arrived /\ pc' = "idle"
    BY <1>11 DEF SetFlag, Issue
  <2> DEFINE u == GetMasterUID(map, folder[i])
             v == f \notin folder[i].flags
             n == Len(arrived)
  <2>3. u \in 0 .. n /\ v \in BOOLEAN /\ n \in Nat /\ changes \in Seq(Change(n))
    <3>1. MapTo(map, Len(arrived)) /\ Len(arrived) \in Nat
      BY TypedLines
    <3>2. u \in 0 .. n
      BY <3>1 DEF GetMasterUID, MapTo
    <3> QED
      BY <3>1, <3>2 DEF Noting
  <2>4. UNCHANGED changes \/ NoteFlag(u, f, v)
    BY <2>1
  <2> HIDE DEF u, v, n
  <2>5. changes' \in Seq(Change(n))
    BY <2>3, <2>4, NoteFlagNotes
  <2> QED
    BY <2>2, <2>5 DEF Noting, n
<1>12. CASE Close \/ u_check
  <2>1. arrived' = arrived /\ pc' \notin P /\ (UNCHANGED changes \/ CheckDeletion)
    BY <1>12 DEF Close, u_check, server
  <2>2. CASE UNCHANGED changes
    BY <1>3, <2>1, <2>2
  <2>3. CASE CheckDeletion
    <3>1. changes' \in Seq(Change(Len(arrived)))
      BY <2>3, CheckTells DEF Noting
    <3> QED
      BY <2>1, <3>1 DEF Noting
  <2> QED
    BY <2>1, <2>2, <2>3
<1>13. CASE d_search \/ d_done
  <2>1. pc \in Downloading /\ (pc' = "d_next" \/ pc' = ret) /\ UNCHANGED <<changes, arrived>>
    BY <1>13 DEF d_search, d_done, Return, Downloading, disk, server
  <2>2. ret \in {"s_loop", "u_state"}
    BY <2>1 DEF TypeInv, Control, NoInsert
  <2> QED
    BY <1>3, <2>1, <2>2
<1>14. CASE d_next \/ d_append \/ d_rename
  BY <1>3, <1>14 DEF d_next, d_append, d_rename, server
<1>15. CASE s_delete
  <2>1. UNCHANGED <<changes, arrived>>
    BY <1>15 DEF s_delete, disk
  <2>2. \A u \in DOMAIN master' : ~Tells(changes, u)
    BY <1>15, DeletionsReach
  <2> QED
    BY <2>1, <2>2 DEF Noting
<1>16. CASE s_map \/ s_flags
  <2>1. UNCHANGED <<changes, arrived>> /\ pc \in P
    BY <1>16 DEF s_map, s_flags, disk, server
  <2>2. DOMAIN master' = DOMAIN master
    BY <1>16 DEF s_map, s_flags, Command, server
  <2> QED
    BY <1>1, <1>2, <2>1, <2>2, NotingStays
<1>17. CASE s_abort
  BY <1>17 DEF s_abort
<1>18. CASE s_unlink
  <2>1. arrived' = arrived /\ changes' = <<>> /\ pc' = "s_download"
    BY <1>18 DEF s_unlink, server
  <2> DEFINE C == Change(Len(arrived))
  <2> HIDE DEF C
  <2>2. <<>> \in Seq(C)
    OBVIOUS
  <2> QED
    BY <2>1, <2>2 DEF Noting, C
<1>19. CASE s_download \/ s_flagged \/ s_search \/ s_flush \/ s_state \/ s_end
  BY <1>3, <1>19 DEF s_download, Download, s_flagged, Looping, s_search, s_flush, s_state, s_end,
     Gone, Idle, disk, server
<1>20. CASE s_upload
  <2>1. UNCHANGED changes /\ pc' = "s_search" /\ (arrived' = arrived \/ \E m : arrived' = Append(arrived, m))
    BY <1>20 DEF s_upload, Upload, disk
  <2>2. Len(arrived) <= Len(arrived')
    <3>1. arrived \in Seq(Nat)
      BY DEF TypeInv, ServerRight
    <3>2. ASSUME NEW m, arrived' = Append(arrived, m) PROVE Len(arrived') = Len(arrived) + 1
      BY <3>1, <3>2
    <3> QED
      BY <1>1, <2>1, <3>2
  <2> QED
    BY <1>1, <2>1, <2>2, NotingStays
<1>21. CASE u_start
  BY <1>3, <1>21 DEF u_start, Download, disk
<1>22. CASE u_state \/ u_net \/ u_map \/ u_local
  BY <1>3, <1>22 DEF u_state, u_net, u_map, u_local, Idle, disk, server
<1>23. CASE i_upload \/ i_search \/ i_ping \/ i_state
  BY <1>23 DEF i_upload, i_search, i_ping, i_state, NoInsert
<1> QED
  BY <1>5, <1>6, <1>7, <1>8, <1>9, <1>10, <1>11, <1>12, <1>13, <1>14, <1>15,
     <1>16, <1>17, <1>18, <1>19, <1>20, <1>21, <1>22, <1>23 DEF Next, World, User, Steps

\* An update that expunges is where an update may be.
LEMMA WhereSync ==
  ASSUME TypeInv, Known, op = "sync"
  PROVE  pc \in Updating \cup Downloading
BY DEF TypeInv, Control, Known, Downloading

\* A step of an update that expunges, which changes neither copy.
LEMMA CleanStays ==
  ASSUME Clean, UNCHANGED <<folder, op>>,
         pc' \in Downloading => pc \in Downloading /\ master' = master,
         pc' = "d_append" => pc = "d_append" /\ got' = got
  PROVE  Clean'
BY DEF Clean

\* What is fetched stays clean.
LEMMA CleanStep ==
  ASSUME TypeInv, NoInsert, Known, Clean, ~broken, ~error, [Next]_vars,
         ~d_full, ~state_full, ~Insert
  PROVE  Clean'
<1> USE DEF server, stream, disk, memory, args, history, bounds
<1>1. op' # "sync" => Clean'
  BY DEF Clean
<1>2. pc \notin Updating \cup Downloading /\ op' = op => Clean'
  BY <1>1, WhereSync
<1>3. CASE Deliver
  <2> DEFINE n == Len(arrived')
  <2>1. master' = Put(master, n, {}) /\ UNCHANGED <<folder, pc, op, got>>
    BY <1>3 DEF Deliver
  <2> HIDE DEF n
  <2>2. \A u \in DOMAIN master' : (u \in DOMAIN master /\ master'[u] = master[u]) \/ master'[u] = {}
    BY <2>1 DEF Put
  <2> QED
    BY <2>1, <2>2 DEF Clean
<1>4. CASE OtherClient
  <2>1. UNCHANGED <<folder, pc, op, got>>
    BY <1>4 DEF OtherClient
  <2>2. \A u \in DOMAIN master' : u \in DOMAIN master
          /\ ("deleted" \in master'[u] => "deleted" \in master[u])
    BY <1>4 DEF OtherClient, Without, With
  <2> QED
    BY <2>1, <2>2 DEF Clean
<1>5. CASE Lose \/ UNCHANGED vars
  BY <1>5, CleanStays DEF Lose, vars
<1>6. CASE Crash \/ CrashWriting \/ s_fatal \/ i_fatal \/ c_map
  <2>1. op' = "none"
    BY <1>6 DEF Crash, CrashWriting, s_fatal, i_fatal, Die, c_map, Gone, Idle
  <2> QED
    BY <1>1, <2>1
<1>7. CASE Open \/ NetSync \/ GoOnline \/ GoOffline \/ SyncRefused \/ SetFlag \/ Close
           \/ StartUpdate("update")
  <2>1. pc = "idle"
    BY <1>7 DEF Open, NetSync, GoOnline, GoOffline, SyncRefused, SetFlag, Close, StartUpdate, Issue
  <2>2. op' = op \/ op' \in {"online", "netsync", "close", "update"}
    BY <1>7 DEF Open, NetSync, GoOnline, GoOffline, SyncRefused, SetFlag, Close, StartUpdate
  <2>3. pc \notin Updating \cup Downloading
    BY <2>1 DEF Updating, Downloading
  <2> QED
    BY <1>1, <1>2, <2>2, <2>3
<1>8. CASE StartUpdate("sync")
  <2>1. pc = "idle" /\ session = "open" /\ pc' = "u_start" /\ folder' = folder
    BY <1>8 DEF StartUpdate, Issue
  <2>2. AllParsed(folder)
    BY <2>1 DEF Known, Rests
  <2> QED
    BY <2>1, <2>2 DEF Clean, AllParsed, Downloading
<1>9. CASE c_local \/ s_delete \/ s_map \/ s_flags \/ s_unlink \/ s_download \/ s_flagged \/ s_upload
           \/ s_search \/ s_flush \/ s_state
  <2>1. pc \in {"c_local", "s_delete", "s_map", "s_flags", "s_unlink", "s_download", "s_loop",
                "s_search", "s_state"}
    BY <1>9 DEF c_local, s_delete, s_map, s_flags, s_unlink, s_download, s_flagged, s_upload, Looping,
       s_search, s_flush, s_state
  <2>2. op' = op
    BY <1>9 DEF c_local, s_delete, s_map, s_flags, s_unlink, s_download, s_flagged, s_upload,
       s_search, s_flush, s_state
  <2>3. pc \notin Updating \cup Downloading
    BY <2>1 DEF Updating, Downloading
  <2> QED
    BY <1>2, <2>2, <2>3
<1>10. CASE s_abort
  BY <1>10 DEF s_abort
<1>11. CASE s_end
  <2>1. op' = op \/ op' = "none"
    BY <1>11 DEF s_end, Gone, Idle
  <2>2. pc \notin Updating \cup Downloading
    BY <1>11 DEF s_end, Updating, Downloading
  <2> QED
    BY <1>1, <1>2, <2>1, <2>2
<1>12. CASE d_search \/ d_done
  <2>1. pc \in Downloading /\ (pc' = "d_next" \/ pc' = ret) /\ UNCHANGED <<folder, op, master>>
    BY <1>12 DEF d_search, d_done, Return, Downloading
  <2>2. ret \in {"s_loop", "u_state"}
    BY <2>1 DEF TypeInv, Control, NoInsert
  <2>3. pc' # "d_append"
    BY <2>1, <2>2
  <2> QED
    BY <2>1, <2>3, CleanStays
<1>13. CASE d_next
  <2>1. UNCHANGED <<folder, op, master>> /\ pc \in Downloading
    BY <1>13 DEF d_next, Downloading
  <2>2. pc' = "d_append" => Min(todo) \in DOMAIN master /\ got' = master[Min(todo)]
    BY <1>13 DEF d_next
  <2> QED
    BY <2>1, <2>2 DEF Clean
<1>14. CASE d_append
  <2> DEFINE o == [uid |-> 0, msg |-> arrived[Min(todo)], flags |-> got]
  <2>1. folder' = Append(folder, o) /\ UNCHANGED <<op, master>> /\ pc \in Downloading
        /\ pc = "d_append" /\ pc' = "d_rename"
    BY <1>14 DEF d_append, Downloading
  <2>2. o.flags = got
    OBVIOUS
  <2>3. folder \in Seq(Message)
    BY LastUids
  <2> HIDE DEF o
  <2>4. Len(folder') = Len(folder) + 1 /\ folder'[Len(folder) + 1] = o /\ Len(folder) \in Nat
        /\ \A i \in 1 .. Len(folder) : folder'[i] = folder[i]
    BY <2>1, <2>3
  <2>5. \A i \in 1 .. Len(folder') : i \in 1 .. Len(folder) \/ i = Len(folder) + 1
    BY <2>4
  <2> QED
    BY <2>1, <2>2, <2>4, <2>5 DEF Clean
<1>15. CASE d_rename
  BY <1>15, CleanStays DEF d_rename, Downloading
<1>16. CASE u_start
  <2>1. UNCHANGED <<folder, op>> /\ pc' \in {"d_search", "u_net", "u_check"}
    BY <1>16 DEF u_start, Download
  <2>2. op = "sync" /\ pc' = "d_search" => master' = Expunged(master)
    BY <1>16 DEF u_start, Command
  <2> QED
    BY <2>1, <2>2 DEF Clean, Expunged, Downloading
<1>17. CASE u_state \/ u_net \/ u_check \/ u_map
  <2>1. UNCHANGED <<folder, op>> /\ pc' \in {"u_net", "u_check", "u_map", "u_local"}
    BY <1>17 DEF u_state, u_net, u_check, u_map
  <2> QED
    BY <2>1, CleanStays DEF Downloading
<1>18. CASE u_local
  BY <1>1, <1>18 DEF u_local, Idle
<1>19. CASE i_upload \/ i_search \/ i_ping \/ i_state
  BY <1>19 DEF i_upload, i_search, i_ping, i_state, NoInsert
<1> QED
  BY <1>3, <1>4, <1>5, <1>6, <1>7, <1>8, <1>9, <1>10, <1>11, <1>12, <1>13, <1>14, <1>15,
     <1>16, <1>17, <1>18, <1>19 DEF Next, World, User, Steps

\* What is taken for fetched was fetched before.
NoneNew == \A u \in DOMAIN master' : Fetched(u)' => u \in DOMAIN master /\ Fetched(u)

\* ... when the program is where only the state and lastUid say so.
LEMMA NoneNewOutside ==
  ASSUME UNCHANGED <<stateUid, lastUid>>, DOMAIN master' \subseteq DOMAIN master,
         pc' \notin Opening \cup Downloading \cup Looped
  PROVE  NoneNew
BY DEF NoneNew, Fetched

\* Every uid in the range is one up to the last.
LEMMA MaxUidLast ==
  ASSUME NEW n \in Nat, NEW S \in SUBSET (1 .. n)
  PROVE  \A u \in S : u <= MaxUid(S)
<1> DEFINE T == S \cup {0}
           R == {x + 1 : x \in T}
<1>1. PICK m \in T : \A x \in T : x <= m
  <2>1. R \in SUBSET (1 .. n + 1) /\ R # {} /\ n + 1 \in Nat
    OBVIOUS
  <2> HIDE DEF R
  <2>2. Max(R) \in R /\ \A x \in R : x <= Max(R)
    BY <2>1, MaxIndex
  <2>3. PICK m \in T : Max(R) = m + 1
    BY <2>2 DEF R
  <2>4. \A x \in T : x + 1 <= m + 1
    BY <2>2, <2>3 DEF R
  <2>5. \A x \in T : x \in Nat
    OBVIOUS
  <2>6. \A x \in T : x <= m
    BY <2>3, <2>4, <2>5
  <2> QED
    BY <2>3, <2>6
<1>2. \A x \in T : x \in Nat
  OBVIOUS
<1>3. \A x \in T : m >= x
  BY <1>1, <1>2
<1>4. \A x \in T : Max(T) >= x
  <2> HIDE DEF T
  <2> QED
    BY <1>1, <1>3 DEF Max
<1>5. Max(T) \in T
  <2> HIDE DEF T
  <2> QED
    BY <1>1, <1>3 DEF Max
<1> QED
  BY <1>2, <1>4, <1>5 DEF MaxUid

\* The steps that fetch nothing.
LEMMA NoneNewStep ==
  ASSUME TypeInv, TypeInv', NoInsert, Seen, ~broken, ~error, [Next]_vars,
         ~d_full, ~state_full, ~Insert, ~d_next, ~d_append, ~d_rename, ~s_search,
         session # "closed" => session' # "closed"
  PROVE  NoneNew
<1> USE DEF Looped, Downloading, Opening
<1>1. /\ Len(arrived) \in Nat /\ DOMAIN master \subseteq 1 .. Len(arrived)
      /\ DOMAIN view \subseteq 1 .. Len(arrived) /\ uidLast \in 0 .. Len(arrived)
      /\ todo \subseteq 1 .. Len(arrived) /\ last \in 0 .. Len(arrived)
      /\ lastUid \in 0 .. Len(arrived) /\ stateUid \in Int /\ stateUid <= Len(arrived)
  <2>1. stateUid \in Int /\ (stateUid # -1 => stateUid <= Len(arrived)) /\ Len(arrived) \in Nat
    BY PlacesNumbers
  <2>2. stateUid <= Len(arrived)
    BY <2>1
  <2> QED
    BY <2>1, <2>2 DEF TypeInv, ServerRight, StreamRight, PlacesRight
<1>2. CASE Deliver
  <2> DEFINE n == Len(arrived')
  <2>1. /\ n = Len(arrived) + 1 /\ DOMAIN master' = DOMAIN master \cup {n}
        /\ UNCHANGED <<view, uidLast, pc, todo, last, stateUid, lastUid>>
    <3>1. arrived \in Seq(Nat)
      BY DEF TypeInv, ServerRight
    <3> QED
      BY <1>2, <3>1 DEF Deliver, Put, stream, args, disk, memory
  <2> HIDE DEF n
  <2>2. ASSUME NEW u, u = n PROVE ~Fetched(u)'
    BY <1>1, <2>1, <2>2 DEF Fetched
  <2>3. \A u : Fetched(u)' => Fetched(u)
    BY <2>1 DEF Fetched
  <2> QED
    BY <2>1, <2>2, <2>3 DEF NoneNew
<1>3. CASE OtherClient \/ Lose \/ SyncRefused \/ GoOffline \/ s_flagged \/ UNCHANGED vars
  <2>1. /\ DOMAIN master' \subseteq DOMAIN master
        /\ UNCHANGED <<view, uidLast, pc, todo, last, stateUid, lastUid>>
    BY <1>3 DEF OtherClient, Lose, SyncRefused, GoOffline, s_flagged, vars, Without, server, stream,
       args, disk, memory
  <2>2. \A u : Fetched(u)' => Fetched(u)
    BY <2>1 DEF Fetched
  <2> QED
    BY <2>1, <2>2 DEF NoneNew
<1>4. CASE Crash \/ CrashWriting \/ s_fatal \/ i_fatal \/ c_map
  <2>1. session # "closed" \/ pc # "idle"
    BY <1>4 DEF Crash, CrashWriting, s_fatal, Looping, i_fatal, c_map
  <2>2. session # "closed"
    BY <2>1 DEF TypeInv, Control
  <2>3. session' = "closed"
    BY <1>4 DEF Crash, CrashWriting, s_fatal, i_fatal, Die, c_map, Gone
  <2> QED
    BY <2>2, <2>3
<1>5. CASE Open \/ NetSync \/ GoOnline
  <2>1. /\ UNCHANGED <<master, stateUid>> /\ lastUid' \in {lastUid, 0} /\ pc = "idle"
        /\ pc' = "idle" \/ (pc' = "s_delete" /\ last' \in {lastUid, stateUid})
    BY <1>5 DEF Open, NetSync, GoOnline, Issue, OpenLocal, OpenMaster, server, disk, memory
  <2>2. \A u \in DOMAIN master : Fetched(u)' => u <= stateUid \/ u <= lastUid \/ u <= 0
    BY <2>1 DEF Fetched
  <2>3. \A u \in DOMAIN master : ~(u <= 0)
    BY <1>1
  <2> QED
    BY <2>1, <2>2, <2>3 DEF NoneNew, Fetched
<1>6. CASE StartUpdate("update") \/ StartUpdate("sync") \/ Close \/ c_local \/ u_net \/ u_check
           \/ u_map \/ u_local
  <2>1. UNCHANGED <<stateUid, lastUid, master>>
        /\ pc' \in {"u_start", "c_local", "c_map", "u_check", "u_map", "u_local", "idle"}
    BY <1>6 DEF StartUpdate, Close, c_local, u_net, u_check, u_map, u_local, Idle, server, disk,
       memory
  <2> QED
    BY <2>1, NoneNewOutside
<1>7. CASE SetFlag
  <2>1. UNCHANGED <<stateUid, lastUid>> /\ pc' = "idle"
    BY <1>7 DEF SetFlag, Issue
  <2>2. DOMAIN master' = DOMAIN master
    BY <1>7 DEF SetFlag, Command
  <2> QED
    BY <2>1, <2>2, NoneNewOutside
<1>8. CASE d_search \/ d_done
  <2>1. /\ pc \in Downloading /\ UNCHANGED <<master, view, uidLast, stateUid>>
        /\ \/ pc' = "d_next" /\ UNCHANGED <<todo, lastUid>>
           \/ /\ pc' = ret /\ (todo = {} \/ view = <<>>)
              /\ lastUid' = (IF ret = "u_state" THEN uidLast ELSE lastUid)
    BY <1>8 DEF d_search, d_done, Return, server, disk
  <2>2. ret \in {"s_loop", "u_state"}
    BY <2>1 DEF TypeInv, Control, NoInsert
  <2>3. CASE pc' = "d_next" /\ UNCHANGED <<todo, lastUid>>
    BY <2>1, <2>3 DEF NoneNew, Fetched
  <2>4. CASE /\ pc' = ret /\ (todo = {} \/ view = <<>>)
             /\ lastUid' = (IF ret = "u_state" THEN uidLast ELSE lastUid)
    <3>1. \A u \in DOMAIN master : u <= uidLast => u \in DOMAIN view
      BY DEF Seen
    <3>2. \A u \in DOMAIN view : u \notin todo
      <4>1. DOMAIN <<>> = {}
        OBVIOUS
      <4> QED
        BY <2>4, <4>1
    <3>3. \A u \in DOMAIN master : u <= uidLast => Fetched(u)
      BY <2>1, <3>1, <3>2 DEF Fetched
    <3>4. pc' \in {"s_loop", "u_state"} /\ lastUid' \in {uidLast, lastUid}
      BY <2>2, <2>4
    <3>5. \A u : Fetched(u)' => u <= stateUid \/ u <= uidLast \/ u <= lastUid
      BY <2>1, <3>4 DEF Fetched
    <3>6. \A u : u <= stateUid \/ u <= lastUid => Fetched(u)
      BY DEF Fetched
    <3> QED
      BY <2>1, <3>3, <3>5, <3>6 DEF NoneNew
  <2> QED
    BY <2>1, <2>3, <2>4
<1>9. CASE s_delete \/ s_map \/ s_flags \/ s_unlink
  <2>1. UNCHANGED <<stateUid, lastUid, last>> /\ pc \in Opening /\ pc' \in Opening
    BY <1>9 DEF s_delete, s_map, s_flags, s_unlink, disk, memory, args
  <2>2. DOMAIN master' \subseteq DOMAIN master
    BY <1>9 DEF s_delete, s_map, s_flags, s_unlink, Command, Expunged, Without, server
  <2> QED
    BY <2>1, <2>2 DEF NoneNew, Fetched
<1>10. CASE s_download
  <2>1. /\ UNCHANGED <<master, view, stateUid, lastUid>> /\ pc \in Opening /\ pc' = "d_search"
        /\ todo' = {u \in DOMAIN view : last < u /\ u <= MaxUid(DOMAIN view)}
    BY <1>10 DEF s_download, Download, server, stream, disk, memory
  <2>2. \A u \in DOMAIN view : u <= MaxUid(DOMAIN view)
    BY <1>1, MaxUidLast
  <2>3. \A u \in DOMAIN view : u \notin todo' => u <= last
    BY <1>1, <2>1, <2>2
  <2> QED
    BY <2>1, <2>3 DEF NoneNew, Fetched
<1>11. CASE s_abort
  BY <1>11 DEF s_abort
<1>12. CASE s_upload
  <2> DEFINE n == Len(arrived')
  <2>1. /\ n = Len(arrived) + 1 /\ DOMAIN master' = DOMAIN master \cup {n}
        /\ UNCHANGED <<uidLast, stateUid, lastUid>> /\ pc = "s_loop" /\ pc' = "s_search"
    <3>1. arrived \in Seq(Nat)
      BY DEF TypeInv, ServerRight
    <3>2. PICK m : Upload(m, "s_search") /\ UNCHANGED <<uidLast, disk, memory>> /\ pc = "s_loop"
      BY <1>12 DEF s_upload, Looping
    <3>3. arrived' = Append(arrived, m.msg) /\ master' = Put(master, n, m.flags)
          /\ pc' = "s_search"
      BY <3>2 DEF Upload, Command
    <3> QED
      BY <3>1, <3>2, <3>3 DEF Put, disk, memory
  <2> HIDE DEF n
  <2>2. ASSUME NEW u, u = n PROVE ~Fetched(u)'
    BY <1>1, <2>1, <2>2 DEF Fetched
  <2>3. \A u : Fetched(u)' => Fetched(u)
    BY <2>1 DEF Fetched
  <2> QED
    BY <2>1, <2>2, <2>3 DEF NoneNew
<1>13. CASE s_flush \/ s_state
  <2>1. UNCHANGED <<master, uidLast, lastUid>> /\ pc \in Looped /\ pc' \in Looped
        /\ stateUid' \in {stateUid, last}
    BY <1>13 DEF s_flush, s_state, server, stream, memory
  <2>2. \A u \in DOMAIN master : u <= last => u <= uidLast
    <3>1. last <= uidLast
      BY <2>1 DEF Seen
    <3> QED
      BY <1>1, <3>1
  <2> QED
    BY <2>1, <2>2 DEF NoneNew, Fetched
<1>14. CASE s_end
  <2>1. session # "batch"
    <3>1. session = "batch" => session' = "closed"
      BY <1>14 DEF s_end, Gone
    <3> QED
      BY <3>1
  <2>2. UNCHANGED <<master, stateUid>> /\ lastUid' = last /\ pc' = "u_start" /\ pc = "s_end"
    BY <1>14, <2>1 DEF s_end, server, disk
  <2>3. \A u \in DOMAIN master : u <= last => u <= uidLast
    <3>1. last <= uidLast
      BY <2>2 DEF Seen
    <3> QED
      BY <1>1, <3>1
  <2> QED
    BY <2>2, <2>3 DEF NoneNew, Fetched
<1>15. CASE u_start
  <2>1. UNCHANGED <<stateUid, lastUid>> /\ pc' \in {"d_search", "u_net", "u_check"}
    BY <1>15 DEF u_start, Download, disk, memory
  <2>2. DOMAIN master' \subseteq DOMAIN master
    BY <1>15 DEF u_start, Command, Expunged
  <2>3. CASE pc' = "d_search"
    <3>1. todo' = {u \in DOMAIN view' : lastUid < u /\ u <= MaxUid(DOMAIN view')}
      BY <1>15, <2>3 DEF u_start, Download
    <3>2. DOMAIN view' \subseteq 1 .. Len(arrived') /\ Len(arrived') \in Nat
      BY LastUids DEF TypeInv, StreamRight
    <3>3. \A u \in DOMAIN view' : u <= MaxUid(DOMAIN view')
      BY <3>2, MaxUidLast
    <3>4. \A u \in DOMAIN view' : u \notin todo' => u <= lastUid
      BY <1>1, <3>1, <3>2, <3>3
    <3> QED
      BY <2>1, <2>2, <2>3, <3>4 DEF NoneNew, Fetched
  <2>4. CASE pc' # "d_search"
    BY <2>1, <2>2, <2>4, NoneNewOutside
  <2> QED
    BY <2>3, <2>4
<1>16. CASE u_state
  <2>1. UNCHANGED <<master, lastUid>> /\ stateUid' = lastUid /\ pc' = "u_net"
    BY <1>16 DEF u_state, server
  <2> QED
    BY <2>1 DEF NoneNew, Fetched
<1>17. CASE i_upload \/ i_search \/ i_ping \/ i_state
  BY <1>17 DEF i_upload, i_search, i_ping, i_state, NoInsert
<1> QED
  BY <1>2, <1>3, <1>4, <1>5, <1>6, <1>7, <1>8, <1>9, <1>10, <1>11, <1>12, <1>13, <1>14, <1>15,
     <1>16, <1>17 DEF Next, World, User, Steps

\* What is deleted, of what an expunge finds, is out of the map.
LEMMA DeletedNoted ==
  ASSUME TypeInv, Known, Noted, Clean, losses = 0, pc = "c_local" \/ (pc = "u_local" /\ op = "sync")
  PROVE  \A i \in 1 .. Len(Local) : "deleted" \in Local[i].flags => Local[i].uid \notin DOMAIN map
<1>1. \A i \in 1 .. Len(folder) :
        "deleted" \in folder[i].flags => folder[i].uid \notin DOMAIN map
  BY DEF Noted
<1>2. /\ Len(Local) = Len(folder)
      /\ \A i \in 1 .. Len(folder) :
           /\ Local[i].flags = folder[i].flags
           /\ folder[i].uid # 0 => Local[i] = folder[i]
  BY LocalRight DEF Numbers
<1>3. ASSUME NEW i \in 1 .. Len(folder), "deleted" \in folder[i].flags PROVE folder[i].uid # 0
  <2>1. CASE pc = "c_local"
    BY <1>3, <2>1 DEF Known, Rests, AllParsed
  <2>2. CASE op = "sync"
    BY <1>3, <2>2 DEF Clean
  <2> QED
    BY <2>1, <2>2
<1> QED
  BY <1>1, <1>2, <1>3

\* Noting a flag forgets no deletion.
LEMMA NoteFlagTells ==
  ASSUME TypeInv, Noting, NEW u, NEW f, NEW v, NoteFlag(u, f, v), NEW w, Tells(changes, w)
  PROVE  Tells(changes', w)
<1> DEFINE C == Change(Len(arrived))
           line == <<"flag", u, f, v>>
<1>1. changes \in Seq(C) /\ (changes' = changes \/ changes' = Append(changes, line))
  BY DEF NoteFlag, Noting
<1>2. PICK i \in 1 .. Len(changes) : changes[i] = <<"delete", w>>
  BY DEF Tells
<1> HIDE DEF C, line
<1>3. i \in 1 .. Len(changes') /\ changes'[i] = changes[i]
  BY <1>1, <1>2
<1> QED
  BY <1>2, <1>3 DEF Tells

\* The program ends, or the synchronisation of a folder that is closed.
LEMMA SafeEnd ==
  ASSUME TypeInv, TypeInv', NoInsert, Safe, Written,
         Crash \/ CrashWriting \/ s_fatal \/ c_map \/ (s_end /\ session = "batch")
  PROVE  Safe'
<1>1. Gone
  BY DEF Crash, CrashWriting, s_fatal, Die, c_map, s_end
<1>2. session # "closed"
  <2>1. session # "closed" \/ pc # "idle"
    BY DEF Crash, CrashWriting, s_fatal, Looping, c_map
  <2> QED
    BY <2>1 DEF TypeInv, Control
<1>3. UNCHANGED <<master, folder, hdrLast, changes>>
  BY DEF Crash, CrashWriting, s_fatal, Die, c_map, s_end, server, disk
<1>4. stateUid' \in {stateUid, Unreadable}
  BY DEF Crash, CrashWriting, s_fatal, Die, c_map, s_end, disk
<1>5. mappings' \in {mappings, LinesOf(map)}
  <2>1. CASE CrashWriting
    <3>1. mapBuf = <<>> /\ mappings' = mappings \o mapBuf
      BY <2>1 DEF CrashWriting, Written
    <3> QED
      BY <3>1, TypedLines
  <2>2. CASE c_map
    BY <2>2 DEF c_map, WriteMappings
  <2>3. CASE Crash \/ s_fatal \/ s_end
    BY <2>3 DEF Crash, s_fatal, Die, s_end, disk
  <2> QED
    BY <2>1, <2>2, <2>3
<1> QED
  BY <1>1, <1>2, <1>3, <1>4, <1>5, SafeGone

\* What was fetched is kept, in each step.
LEMMA SafeStep ==
  ASSUME TypeInv, TypeInv', NoInsert, Sound, Known, Noted, losses = 0,
         Safe, Seen, Written, Noting, Clean, ~broken, ~error, [Next]_vars,
         ~d_full, ~state_full, ~Insert
  PROVE  Safe'
<1> USE DEF NoneNew
<1>1. CASE Crash \/ CrashWriting \/ s_fatal \/ c_map \/ (s_end /\ session = "batch")
  BY <1>1, SafeEnd
<1>2. CASE d_next \/ d_append \/ d_rename \/ s_search
  BY <1>2, SafeNext, SafeAppend, SafeRename, SafeSearch
<1>3. ASSUME session # "closed" => session' # "closed", ~d_next, ~d_append, ~d_rename, ~s_search
      PROVE  NoneNew
  BY <1>3, NoneNewStep
<1> DEFINE Plainly == ~d_next /\ ~d_append /\ ~d_rename /\ ~s_search
           Quiet == UNCHANGED <<stateUid, mappings, mapBuf, folder, hdrLast, map, session, changes>>
<1>4. ASSUME Quiet, Plainly PROVE Safe'
  <2>1. NoneNew
    BY <1>3, <1>4
  <2> QED
    BY <1>4, <2>1, SafeStays
<1>5. Plainly \/ d_next \/ d_append \/ d_rename \/ s_search
  OBVIOUS
<1> HIDE DEF Plainly
<1>6. CASE Plainly
  <2>1. CASE Deliver \/ OtherClient \/ Lose \/ UNCHANGED vars
    <3>1. Quiet
      BY <2>1 DEF Deliver, OtherClient, Lose, vars, disk, memory
    <3> QED
      BY <1>4, <1>6, <3>1
  <2>2. CASE GoOnline \/ GoOffline \/ SyncRefused \/ StartUpdate("update") \/ StartUpdate("sync")
    <3>1. Quiet
      BY <2>2 DEF GoOnline, GoOffline, SyncRefused, StartUpdate, disk, memory
    <3> QED
      BY <1>4, <1>6, <3>1
  <2>3. CASE d_search \/ d_done \/ s_delete \/ s_map \/ s_flags \/ s_download \/ s_upload
    <3>1. Quiet
      BY <2>3 DEF d_search, d_done, s_delete, s_map, s_flags, s_download, s_upload, disk, memory
    <3> QED
      BY <1>4, <1>6, <3>1
  <2>4. CASE u_start \/ u_net \/ (s_end /\ session # "batch")
    <3>1. Quiet
      BY <2>4 DEF u_start, u_net, s_end, disk, memory
    <3> QED
      BY <1>4, <1>6, <3>1
  <2>5. CASE Open
    <3>1. session = "closed" /\ OpenLocal("open") /\ UNCHANGED <<stateUid, mappings, changes>>
      BY <2>5 DEF Open
    <3>2. NoneNew
      BY <1>3, <1>6, <3>1 DEF Plainly
    <3> QED
      BY <3>1, <3>2, SafeOpen
  <2>6. CASE NetSync
    <3>1. CASE session = "closed"
      <4>1. OpenLocal("batch") /\ UNCHANGED <<stateUid, mappings, changes>>
        BY <2>6, <3>1 DEF NetSync
      <4>2. NoneNew
        BY <1>3, <1>6, <3>1 DEF Plainly
      <4> QED
        BY <3>1, <4>1, <4>2, SafeOpen
    <3>2. CASE session # "closed"
      <4>1. Quiet
        BY <2>6, <3>2 DEF NetSync, memory
      <4> QED
        BY <1>4, <1>6, <4>1
    <3> QED
      BY <3>1, <3>2
  <2>7. CASE SetFlag
    <3>1. /\ Keeps /\ UNCHANGED <<map, mappings, mapBuf, session, stateUid>>
      BY <2>7, SetFlagKeeps DEF SetFlag
    <3>2. ASSUME NEW u, Tells(changes, u) PROVE Tells(changes', u)
      <4>1. \E v, f, b : UNCHANGED changes \/ NoteFlag(v, f, b)
        BY <2>7 DEF SetFlag
      <4> QED
        BY <3>2, <4>1, NoteFlagTells
    <3>3. NoneNew
      BY <1>3, <1>6, <3>1 DEF Plainly
    <3>4. TheMap' = TheMap
      BY <3>1 DEF TheMap
    <3> QED
      BY <3>1, <3>2, <3>3, <3>4, TiesKeep, SafeSame
  <2>8. CASE s_flagged
    <3>1. Keeps /\ UNCHANGED <<map, mappings, mapBuf, session, stateUid, changes>>
      BY <2>8, FlaggedKeeps DEF s_flagged
    <3>2. NoneNew /\ TheMap' = TheMap
      BY <1>3, <1>6, <3>1 DEF Plainly, TheMap
    <3> QED
      BY <3>1, <3>2, TiesKeep, SafeSame
  <2>9. CASE Close \/ u_check
    <3>1. /\ UNCHANGED <<stateUid, mappings, mapBuf, folder, hdrLast, session>>
          /\ CheckDeletion \/ UNCHANGED <<changes, map>>
          /\ session = "open" \/ pc = "u_check"
      BY <2>9 DEF Close, u_check
    <3>2. session # "closed"
      BY <3>1 DEF TypeInv, Control
    <3>3. CASE UNCHANGED <<changes, map>>
      BY <1>4, <1>6, <3>1, <3>3
    <3>4. CASE CheckDeletion
      <4>1. changes \in Seq(Change(Len(arrived)))
        BY DEF Noting
      <4>2. NoneNew
        BY <1>3, <1>6, <3>1 DEF Plainly
      <4> QED
        BY <3>1, <3>2, <3>4, <4>1, <4>2, SafeDeletion
    <3> QED
      BY <3>1, <3>3, <3>4
  <2>10. CASE c_local \/ (u_local /\ op = "sync")
    <3>1. /\ ExpungeLocal /\ UNCHANGED <<stateUid, mappings, mapBuf, changes, session, map>>
          /\ pc = "c_local" \/ (pc = "u_local" /\ op = "sync")
      BY <2>10 DEF c_local, u_local
    <3>2. session # "closed"
      BY <3>1 DEF TypeInv, Control
    <3>3. \A i \in 1 .. Len(Local) :
            "deleted" \in Local[i].flags => Local[i].uid \notin DOMAIN map
      BY <3>1, DeletedNoted
    <3>4. NoneNew
      BY <1>3, <1>6, <3>1 DEF Plainly
    <3> QED
      BY <3>1, <3>2, <3>3, <3>4, SafeExpunge
  <2>11. CASE u_local /\ op # "sync"
    <3>1. Ping(folder) /\ UNCHANGED <<map, mappings, mapBuf, session, stateUid, changes>>
      BY <2>11 DEF u_local
    <3>2. Keeps
      BY <3>1, PingKeeps DEF TypeInv
    <3>3. NoneNew /\ TheMap' = TheMap
      BY <1>3, <1>6, <3>1 DEF Plainly, TheMap
    <3> QED
      BY <3>1, <3>2, <3>3, TiesKeep, SafeSame
  <2>12. CASE u_map
    <3>1. /\ UNCHANGED <<stateUid, folder, hdrLast, map, session, changes, mapBuf>> /\ pc = "u_map"
          /\ mappings' \in {mappings, LinesOf(map)}
      BY <2>12 DEF u_map, WriteMappings
    <3>2. session # "closed" /\ mapBuf = <<>>
      BY <3>1 DEF TypeInv, Control, Written
    <3>3. NoneNew
      BY <1>3, <1>6, <3>1 DEF Plainly
    <3> QED
      BY <3>1, <3>2, <3>3, SafeWrite
  <2>13. CASE s_flush \/ u_state \/ s_state
    <3>1. UNCHANGED <<folder, hdrLast, map, session, changes>>
      BY <2>13 DEF s_flush, u_state, s_state, memory
    <3>2. mappings' = mappings \o mapBuf /\ mapBuf' = <<>>
      <4>1. CASE s_state
        <5>1. mapBuf = <<>> /\ UNCHANGED <<mappings, mapBuf>>
          BY <4>1 DEF s_state, Written, memory
        <5> QED
          BY <5>1, TypedLines
      <4> QED
        BY <2>13, <4>1 DEF s_flush, u_state
    <3>3. NoneNew
      BY <1>3, <1>6, <3>1 DEF Plainly
    <3> QED
      BY <3>1, <3>2, <3>3, SafeFlush
  <2>14. CASE s_unlink
    <3>1. /\ UNCHANGED <<stateUid, mappings, mapBuf, folder, hdrLast, map, session, master>>
          /\ pc = "s_unlink"
      BY <2>14 DEF s_unlink, memory, server
    <3>2. \A u \in DOMAIN master' : ~Tells(changes, u)
      BY <3>1 DEF Noting
    <3>3. NoneNew /\ TheMap' = TheMap /\ Local' = Local
      BY <1>3, <1>6, <3>1 DEF Plainly, TheMap, Local
    <3> QED
      BY <3>1, <3>2, <3>3, SafeSame
  <2>15. CASE s_abort \/ i_fatal
    BY <2>15 DEF s_abort, i_fatal
  <2>16. CASE i_upload \/ i_search \/ i_ping \/ i_state
    BY <2>16 DEF i_upload, i_search, i_ping, i_state, NoInsert
  <2> QED
    BY <1>1, <1>2, <2>1, <2>2, <2>3, <2>4, <2>5, <2>6, <2>7, <2>8, <2>9, <2>10, <2>11, <2>12,
       <2>13, <2>14, <2>15, <2>16 DEF Next, World, User, Steps
<1> QED
  BY <1>2, <1>5, <1>6

\* A connection is not given back.
LEMMA LossesStay ==
  ASSUME TypeInv, [Next]_vars, losses' = 0
  PROVE  losses = 0
<1>1. CASE Lose
  BY <1>1 DEF Lose, TypeInv, CountersRight
<1>2. CASE Deliver \/ OtherClient \/ Crash \/ CrashWriting
  BY <1>2 DEF Deliver, OtherClient, Crash, CrashWriting
<1>3. CASE User
  BY <1>3 DEF User, Open, NetSync, GoOnline, GoOffline, SyncRefused, StartUpdate, SetFlag,
     Close, Insert, Issue
<1>4. CASE c_local \/ c_map \/ d_search \/ d_next \/ d_done \/ d_full \/ d_append \/ d_rename
  BY <1>4 DEF c_local, c_map, d_search, d_next, d_done, d_full, d_append, d_rename, bounds
<1>5. CASE s_delete \/ s_map \/ s_abort \/ s_flags \/ s_unlink \/ s_download \/ s_flagged
             \/ s_fatal \/ s_upload \/ s_search \/ s_flush \/ s_state \/ s_end
  BY <1>5 DEF s_delete, s_map, s_abort, s_flags, s_unlink, s_download, s_flagged, s_fatal,
     Die, s_upload, s_search, s_flush, s_state, s_end, bounds
<1>6. CASE u_start \/ u_state \/ state_full \/ u_net \/ u_check \/ u_map \/ u_local
             \/ i_upload \/ i_search \/ i_ping \/ i_fatal \/ i_state
  BY <1>6 DEF u_start, u_state, state_full, u_net, u_check, u_map, u_local, i_upload, i_search,
     i_ping, i_fatal, Die, i_state, bounds
<1>7. CASE UNCHANGED vars
  BY <1>7 DEF vars, bounds
<1> QED
  BY <1>1, <1>2, <1>3, <1>4, <1>5, <1>6, <1>7 DEF Next, World, Steps

KeptInv == SoundInv /\ Known /\ Uids /\ Noticed /\ Noted /\ Kept

LEMMA KeptInit == Init => KeptInv
<1> SUFFICES ASSUME Init PROVE KeptInv
  OBVIOUS
<1>1. SoundInv
  BY SoundInit
<1>2. Known /\ Uids /\ Noticed /\ Noted
  BY DEF Init, Noticed, Known, Rests, Loops, Uids, Positive, Noted
<1>3. /\ master = <<>> /\ changes = <<>> /\ mapBuf = <<>> /\ pc = "idle" /\ op = "none"
      /\ view = <<>> /\ DOMAIN <<>> = {}
  BY DEF Init
<1>4. Safe /\ Seen /\ Written /\ Clean
  BY <1>3 DEF Safe, Seen, Written, Clean, Downloading, Looped
<1>5. Noting
  <2> DEFINE C == Change(Len(arrived))
  <2> HIDE DEF C
  <2>1. <<>> \in Seq(C)
    OBVIOUS
  <2> QED
    BY <1>3, <2>1 DEF Noting, C
<1> QED
  BY <1>1, <1>2, <1>4, <1>5 DEF KeptInv, Kept

LEMMA KeptStep ==
  ASSUME NoInserts, TypeInv, TypeInv', KeptInv, [Next]_vars
  PROVE  KeptInv'
<1>1. NoInsert /\ (fulls = 0 => Sound) /\ Known /\ Uids /\ Noticed /\ Noted /\ Kept
  BY DEF KeptInv, SoundInv
<1>2. NoInsert'
  BY <1>1, NoInsertStep
<1>3. Known' /\ Uids' /\ Noticed' /\ Noted'
  BY <1>1, KnownStep, UidsStep, NoticedStep, NotedStep
<1>4. ASSUME fulls' = 0 PROVE fulls = 0 /\ ~d_full /\ ~state_full /\ Sound /\ Sound'
  <2>1. ~d_full /\ ~state_full
    BY <1>4, FullStep
  <2>2. fulls = 0
    BY <1>4, <2>1, FullsStay
  <2>3. Sound
    BY <1>1, <2>2
  <2> QED
    BY <1>1, <2>1, <2>2, <2>3, SoundStep
<1>5. Kept'
  <2> SUFFICES ASSUME losses' = 0, fulls' = 0
               PROVE  Safe' /\ Seen' /\ Written' /\ Noting' /\ Clean'
    BY DEF Kept
  <2>1. fulls = 0 /\ ~d_full /\ ~state_full /\ Sound
    BY <1>4
  <2>2. losses = 0
    BY LossesStay
  <2>3. ~broken /\ ~error
    BY <1>1, <2>2 DEF Noticed
  <2>4. Safe /\ Seen /\ Written /\ Noting /\ Clean
    BY <1>1, <2>1, <2>2 DEF Kept
  <2>5. ~Insert
    BY DEF NoInserts, Insert, Issue
  <2>6. Safe'
    BY <1>1, <2>1, <2>2, <2>3, <2>4, <2>5, SafeStep
  <2>7. Seen'
    BY <1>1, <2>1, <2>3, <2>4, <2>5, SeenStep
  <2>8. Written'
    BY <1>1, <2>1, <2>4, <2>5, WrittenStep
  <2>9. Noting'
    BY <1>1, <2>1, <2>3, <2>4, <2>5, NotingStep
  <2>10. Clean'
    BY <1>1, <2>1, <2>3, <2>4, <2>5, CleanStep
  <2> QED
    BY <2>6, <2>7, <2>8, <2>9, <2>10
<1>6. fulls' = 0 => Sound'
  BY <1>4
<1> QED
  BY <1>2, <1>3, <1>5, <1>6 DEF KeptInv, SoundInv

LEMMA KeptAccounts == TypeInv /\ KeptInv => Accounted
<1> SUFFICES ASSUME TypeInv, KeptInv, losses + fulls = 0, NEW u \in DOMAIN master, u <= stateUid
             PROVE  \/ \E i \in DOMAIN folder : folder[i].msg = arrived[u]
                    \/ <<"delete", u>> \in ToSet(changes)
  BY DEF Accounted
<1>1. losses = 0 /\ fulls = 0
  BY NoneOfBoth DEF TypeInv, CountersRight
<1>2. Safe /\ Noting /\ Sound
  BY <1>1 DEF KeptInv, Kept, SoundInv
<1>3. CASE Tells(changes, u)
  <2>1. PICK i \in 1 .. Len(changes) : changes[i] = <<"delete", u>>
    BY <1>3 DEF Tells
  <2> DEFINE C == Change(Len(arrived))
  <2>2. changes \in Seq(C)
    BY <1>2 DEF Noting
  <2> HIDE DEF C
  <2>3. i \in DOMAIN changes
    BY <2>1, <2>2
  <2> QED
    BY <2>1, <2>3 DEF ToSet
<1>4. CASE Ties(Local, TheMap, mappings, u)
  <2>1. PICK i \in 1 .. Len(Local) : Says(mappings, Local[i].uid, u)
    BY <1>4 DEF Ties
  <2>2. mappings \in Seq(Line)
    BY TypedLines
  <2>3. Local[i].uid \in DOMAIN ReadMappings(mappings) /\ ReadMappings(mappings)[Local[i].uid] = u
    BY <2>1, <2>2, SaysRead
  <2>4. MapRight(Local, arrived, ReadMappings(mappings))
    BY <1>2, <2>2, ReadRight DEF Sound
  <2>5. Local[i].msg = arrived[u]
    BY <2>3, <2>4 DEF MapRight, Stands
  <2>6. /\ Len(Local) = Len(folder) /\ folder \in Seq(Message)
        /\ \A k \in 1 .. Len(folder) : Local[k].msg = folder[k].msg
    BY LocalRight, LastUids DEF Numbers
  <2>7. i \in DOMAIN folder /\ folder[i].msg = arrived[u]
    BY <2>5, <2>6
  <2> QED
    BY <2>7
<1> QED
  BY <1>2, <1>3, <1>4 DEF Safe

\* What the file state says has been fetched is in the local mailbox, or its deletion
\* is noted for the master, wherever the program dies and whatever the other clients
\* do: DisDownloadMsgs() (ratDisFolder.c) writes the line of mappings, the message and
\* the state in an order that loses nothing.  It takes a connection that holds, room
\* on the disk, and a user who inserts no message.
THEOREM FetchedIsKept ==
  ASSUME "insert" \notin Ops
  PROVE  Spec => []Accounted
<1> USE DEF NoInserts
<1>1. Init => KeptInv
  BY KeptInit
<1>2. TypeInv /\ TypeInv' /\ KeptInv /\ [Next]_vars => KeptInv'
  BY KeptStep
<1>3. TypeInv /\ KeptInv => Accounted
  BY KeptAccounts
<1> QED
  BY <1>1, <1>2, <1>3, TypesHold, PTL DEF Spec

=============================================================================
