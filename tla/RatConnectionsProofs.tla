------------------------ MODULE RatConnectionsProofs ------------------------
(***************************************************************************)
(* Theorems about the connections to mail servers and the passwords, for   *)
(* any servers and any number of folders, lost connections and restarts.   *)
(***************************************************************************)
EXTENDS RatConnections, SequenceLemmas, FiniteSetTheorems, TLAPS

Stream == [half : BOOLEAN, live : BOOLEAN, up : BOOLEAN]
Conn == [stream : Nat, host : Specs, refs : Nat, closing : BOOLEAN,
         timer : BOOLEAN, owner : Nat]
FolderRecord == [kind : Kinds, stream : Nat, error : BOOLEAN, open : BOOLEAN]
Dialog == [kind : Kinds, host : Specs, known : BOOLEAN]

-----------------------------------------------------------------------------
(* The inductive invariant, in terms of a list of connections cs, streams  *)
(* ss, n of them, and folders fs.                                          *)

\* One record to a stream; a connection is closing when nobody uses it, and
\* only then a timer runs.
ConnsOK(cs, n) ==
  /\ cs \in Seq(Conn)
  /\ \A i, j \in 1 .. Len(cs) : cs[i].stream = cs[j].stream => i = j
  /\ \A i \in 1 .. Len(cs) :
       /\ cs[i].stream \in 1 .. n
       /\ cs[i].closing <=> cs[i].refs = 0
       /\ cs[i].timer => cs[i].closing

FoldersOK(fs, n) ==
  fs \in Seq(FolderRecord) /\ \A f \in 1 .. Len(fs) : fs[f].stream \in 0 .. n

\* the folders that have stream s
Users(fs, s) == {f \in 1 .. Len(fs) : fs[f].open /\ fs[f].stream = s}

\* The references to stream s cover its folders and k more; a stream that is not
\* on the list has one folder at most.
Covered(cs, fs, s, k) ==
  /\ \A i \in 1 .. Len(cs) :
       cs[i].stream = s => Cardinality(Users(fs, s)) + k <= cs[i].refs
  /\ (\A i \in 1 .. Len(cs) : cs[i].stream # s) => Cardinality(Users(fs, s)) + k <= 1

AllCovered(cs, fs, n) == \A s \in 1 .. n : Covered(cs, fs, s, 0)

\* What is on the list or has a folder is not freed.
Alive(cs, ss, fs) ==
  /\ \A i \in 1 .. Len(cs) : ss[cs[i].stream].live
  /\ \A f \in 1 .. Len(fs) : fs[f].open /\ fs[f].stream # 0 => ss[fs[f].stream].live

\* f reads its stream
Reads(fs, f) == fs[f].open /\ fs[f].stream # 0 /\ fs[f].kind \in {"std", "dis"}

Alone(fs) ==
  \A f, g \in 1 .. Len(fs) :
    Reads(fs, f) /\ Reads(fs, g) /\ fs[f].stream = fs[g].stream => f = g

\* The state but for what is freed too early.
Sound(cs, ss, fs) ==
  /\ ss \in Seq(Stream)
  /\ ConnsOK(cs, Len(ss)) /\ FoldersOK(fs, Len(ss))
  /\ AllCovered(cs, fs, Len(ss))

IInv ==
  /\ Sound(conns, streams, folders)
  /\ Alone(folders)
  /\ "broken" \notin faults => Alive(conns, streams, folders)
  /\ dialog # NoDialog => dialog \in Dialog

-----------------------------------------------------------------------------
(* The folders of a stream.                                                *)

LEMMA UsersCount ==
  ASSUME NEW n, NEW fs, FoldersOK(fs, n), NEW s
  PROVE  IsFiniteSet(Users(fs, s)) /\ Cardinality(Users(fs, s)) \in Nat
<1>1. Len(fs) \in Nat
  BY DEF FoldersOK
<1>2. IsFiniteSet(1 .. Len(fs))
  BY <1>1, FS_Interval
<1>3. Users(fs, s) \subseteq 1 .. Len(fs)
  BY DEF Users
<1>4. IsFiniteSet(Users(fs, s))
  BY <1>2, <1>3, FS_Subset
<1> QED
  BY <1>4, FS_CardinalityType

LEMMA ConnTypes ==
  ASSUME NEW cs \in Seq(Conn)
  PROVE  \A i \in 1 .. Len(cs) : cs[i] \in Conn /\ cs[i].refs \in Nat
<1>1. \A i \in 1 .. Len(cs) : cs[i] \in Conn
  OBVIOUS
<1> QED
  BY <1>1 DEF Conn

\* Fewer folders are covered by the references there are.
LEMMA FewerUsers ==
  ASSUME NEW n, NEW cs \in Seq(Conn), NEW fs, FoldersOK(fs, n), NEW fs2, NEW s,
         NEW k \in Nat,
         Users(fs2, s) \subseteq Users(fs, s), Covered(cs, fs, s, k)
  PROVE  Covered(cs, fs2, s, k)
<1>1. IsFiniteSet(Users(fs, s)) /\ Cardinality(Users(fs, s)) \in Nat
  BY UsersCount
<1>2. /\ IsFiniteSet(Users(fs2, s))
      /\ Cardinality(Users(fs2, s)) <= Cardinality(Users(fs, s))
  BY <1>1, FS_Subset
<1>3. Cardinality(Users(fs2, s)) \in Nat
  BY <1>2, FS_CardinalityType
<1>4. \A i \in 1 .. Len(cs) : cs[i].refs \in Nat
  BY ConnTypes
<1> QED
  BY <1>1, <1>2, <1>3, <1>4 DEF Covered

\* A folder that gives up its stream frees a reference.
LEMMA OneUserLess ==
  ASSUME NEW n, NEW cs \in Seq(Conn), NEW fs, FoldersOK(fs, n), NEW fs2, NEW s,
         NEW f \in Users(fs, s),
         Users(fs2, s) = Users(fs, s) \ {f}, Covered(cs, fs, s, 0)
  PROVE  Covered(cs, fs2, s, 1)
<1>1. IsFiniteSet(Users(fs, s)) /\ Cardinality(Users(fs, s)) \in Nat
  BY UsersCount
<1>2. Cardinality(Users(fs2, s)) = Cardinality(Users(fs, s)) - 1
  BY <1>1, FS_RemoveElement
<1>4. \A i \in 1 .. Len(cs) : cs[i].refs \in Nat
  BY ConnTypes
<1> QED
  BY <1>1, <1>2, <1>4 DEF Covered

\* A folder that takes the stream needs one.
LEMMA OneUserMore ==
  ASSUME NEW n, NEW cs \in Seq(Conn), NEW fs, FoldersOK(fs, n), NEW fs2, NEW s,
         NEW f, f \notin Users(fs, s),
         Users(fs2, s) = Users(fs, s) \cup {f}, Covered(cs, fs, s, 1)
  PROVE  Covered(cs, fs2, s, 0)
<1>1. IsFiniteSet(Users(fs, s)) /\ Cardinality(Users(fs, s)) \in Nat
  BY UsersCount
<1>2. Cardinality(Users(fs2, s)) = Cardinality(Users(fs, s)) + 1
  BY <1>1, FS_AddElement
<1>4. \A i \in 1 .. Len(cs) : cs[i].refs \in Nat
  BY ConnTypes
<1> QED
  BY <1>1, <1>2, <1>4 DEF Covered

\* A stream that nobody uses is covered once.
LEMMA NoUsers ==
  ASSUME NEW cs, NEW fs, NEW s, Users(fs, s) = {},
         \A i \in 1 .. Len(cs) : cs[i].stream = s => cs[i].refs \in Nat /\ cs[i].refs >= 1
  PROVE  Covered(cs, fs, s, 1)
<1>1. Cardinality(Users(fs, s)) = 0
  BY FS_EmptySet
<1> QED
  BY <1>1 DEF Covered

-----------------------------------------------------------------------------
(* The list of connections.                                                *)

\* One of the connections has become c: those of the list are sound, what was
\* alive or counted is still, and the users of the stream of c may be as many
\* as it counts.
Becomes(cs, cs2, c, n) ==
  /\ ConnsOK(cs2, n)
  /\ \A ss, fs : Alive(cs, ss, fs) => Alive(cs2, ss, fs)
  /\ \A fs, t : t # c.stream /\ Covered(cs, fs, t, 0) => Covered(cs2, fs, t, 0)
  /\ \A fs, k : Cardinality(Users(fs, c.stream)) + k <= c.refs
                  => Covered(cs2, fs, c.stream, k)

\* A connection of the list becomes c, which has the same stream.
LEMMA Replaced ==
  ASSUME NEW n \in Nat, NEW cs, ConnsOK(cs, n), NEW i \in 1 .. Len(cs),
         NEW c \in Conn, c.stream = cs[i].stream,
         c.closing <=> c.refs = 0, c.timer => c.closing,
         NEW cs2, cs2 = [cs EXCEPT ![i] = c]
  PROVE  Becomes(cs, cs2, c, n)
<1>1. cs \in Seq(Conn)
  BY DEF ConnsOK
<1>2. /\ cs2 \in Seq(Conn) /\ Len(cs2) = Len(cs) /\ cs2[i] = c
      /\ \A j \in 1 .. Len(cs) : j # i => cs2[j] = cs[j]
  BY <1>1
<1>3. \A j \in 1 .. Len(cs) : cs2[j].stream = cs[j].stream
  BY <1>2
<1>4. ConnsOK(cs2, n)
  <2>1. \A j, k \in 1 .. Len(cs2) : cs2[j].stream = cs2[k].stream => j = k
    BY <1>2, <1>3 DEF ConnsOK
  <2>2. ASSUME NEW j \in 1 .. Len(cs2)
        PROVE  /\ cs2[j].stream \in 1 .. n
               /\ cs2[j].closing <=> cs2[j].refs = 0
               /\ cs2[j].timer => cs2[j].closing
    BY <1>2, <1>3 DEF ConnsOK
  <2> QED
    BY <1>2, <2>1, <2>2 DEF ConnsOK
<1>5. \A ss, fs : Alive(cs, ss, fs) => Alive(cs2, ss, fs)
  BY <1>2, <1>3 DEF Alive
<1>6. \A fs, t : t # c.stream /\ Covered(cs, fs, t, 0) => Covered(cs2, fs, t, 0)
  BY <1>2, <1>3 DEF Covered
<1>7. ASSUME NEW fs, NEW k, Cardinality(Users(fs, c.stream)) + k <= c.refs
      PROVE  Covered(cs2, fs, c.stream, k)
  <2>1. \A j \in 1 .. Len(cs2) : cs2[j].stream = c.stream => cs2[j] = c
    BY <1>2, <1>3 DEF ConnsOK
  <2> QED
    BY <1>2, <1>7, <2>1 DEF Covered
<1> QED
  BY <1>4, <1>5, <1>6, <1>7 DEF Becomes

\* A connection leaves the list.
LEMMA ConnRemoved ==
  ASSUME NEW n \in Nat, NEW cs, ConnsOK(cs, n), NEW i \in 1 .. Len(cs),
         NEW cs2, cs2 = RemoveAt(cs, i), NEW s, s = cs[i].stream
  PROVE  /\ ConnsOK(cs2, n)
         /\ \A j \in 1 .. Len(cs2) : cs2[j].stream # s
         /\ \A j \in 1 .. Len(cs2) : \E k \in 1 .. Len(cs) : cs2[j] = cs[k]
         /\ \A fs, t : t # s /\ Covered(cs, fs, t, 0) => Covered(cs2, fs, t, 0)
<1>1. cs \in Seq(Conn) /\ Len(cs) \in Nat
  BY DEF ConnsOK
<1>2. /\ cs2 \in Seq(Conn) /\ Len(cs2) = Len(cs) - 1
      /\ \A j \in 1 .. Len(cs) - 1 : cs2[j] = IF j < i THEN cs[j] ELSE cs[j + 1]
  BY <1>1, Removed
<1>3. \A j \in 1 .. Len(cs2) :
        \E k \in 1 .. Len(cs) : k # i /\ cs2[j] = cs[k] /\ k = (IF j < i THEN j ELSE j + 1)
  BY <1>1, <1>2
<1>4. \A k \in 1 .. Len(cs) : k # i => \E j \in 1 .. Len(cs2) : cs2[j] = cs[k]
  <2> SUFFICES ASSUME NEW k \in 1 .. Len(cs), k # i
               PROVE  \E j \in 1 .. Len(cs2) : cs2[j] = cs[k]
    OBVIOUS
  <2>1. CASE k < i
    <3>1. k \in 1 .. Len(cs2) /\ cs2[k] = cs[k]
      BY <1>1, <1>2, <2>1
    <3> QED
      BY <3>1
  <2>2. CASE ~(k < i)
    <3>1. k - 1 \in 1 .. Len(cs2) /\ cs2[k - 1] = cs[k]
      BY <1>1, <1>2, <2>2
    <3> QED
      BY <3>1
  <2> QED
    BY <2>1, <2>2
<1>5. \A j \in 1 .. Len(cs2) : cs2[j].stream # s
  BY <1>3 DEF ConnsOK
<1>6. ConnsOK(cs2, n)
  <2>1. ASSUME NEW j \in 1 .. Len(cs2), NEW k \in 1 .. Len(cs2),
               cs2[j].stream = cs2[k].stream
        PROVE  j = k
    <3>1. PICK p \in 1 .. Len(cs) : cs2[j] = cs[p] /\ p = (IF j < i THEN j ELSE j + 1)
      BY <1>3
    <3>2. PICK q \in 1 .. Len(cs) : cs2[k] = cs[q] /\ q = (IF k < i THEN k ELSE k + 1)
      BY <1>3
    <3>3. p = q
      BY <2>1, <3>1, <3>2 DEF ConnsOK
    <3> QED
      BY <1>1, <3>1, <3>2, <3>3
  <2>2. ASSUME NEW j \in 1 .. Len(cs2)
        PROVE  /\ cs2[j].stream \in 1 .. n
               /\ cs2[j].closing <=> cs2[j].refs = 0
               /\ cs2[j].timer => cs2[j].closing
    BY <1>3 DEF ConnsOK
  <2> QED
    BY <1>2, <2>1, <2>2 DEF ConnsOK
<1>7. ASSUME NEW fs, NEW t, t # s, Covered(cs, fs, t, 0)
      PROVE  Covered(cs2, fs, t, 0)
  <2>1. ASSUME NEW j \in 1 .. Len(cs2), cs2[j].stream = t
        PROVE  Cardinality(Users(fs, t)) + 0 <= cs2[j].refs
    BY <1>3, <1>7, <2>1 DEF Covered
  <2>2. ASSUME \A j \in 1 .. Len(cs2) : cs2[j].stream # t
        PROVE  Cardinality(Users(fs, t)) + 0 <= 1
    <3>1. \A k \in 1 .. Len(cs) : cs[k].stream # t
      BY <1>4, <1>7, <2>2
    <3> QED
      BY <1>7, <3>1 DEF Covered
  <2> QED
    BY <2>1, <2>2 DEF Covered
<1> QED
  BY <1>3, <1>5, <1>6, <1>7

\* A connection to a stream that no other connection has comes to the front.
LEMMA ConnAdded ==
  ASSUME NEW n \in Nat, NEW cs, ConnsOK(cs, n), NEW c \in Conn, c.stream = n + 1,
         c.refs # 0, ~c.closing, ~c.timer, NEW cs2, cs2 = <<c>> \o cs
  PROVE  /\ ConnsOK(cs2, n + 1)
         /\ \A j \in 1 .. Len(cs2) : cs2[j] = c \/ \E k \in 1 .. Len(cs) : cs2[j] = cs[k]
         /\ \A fs, t : t # n + 1 /\ Covered(cs, fs, t, 0) => Covered(cs2, fs, t, 0)
<1>1. cs \in Seq(Conn) /\ Len(cs) \in Nat
  BY DEF ConnsOK
<1>2. /\ cs2 \in Seq(Conn) /\ Len(cs2) = Len(cs) + 1 /\ cs2[1] = c
      /\ \A j \in 1 .. Len(cs) : cs2[j + 1] = cs[j]
  BY <1>1, Headed
<1>3. \A j \in 1 .. Len(cs2) :
        \/ j = 1 /\ cs2[j] = c
        \/ j # 1 /\ j - 1 \in 1 .. Len(cs) /\ cs2[j] = cs[j - 1]
  <2> SUFFICES ASSUME NEW j \in 1 .. Len(cs2), j # 1
               PROVE  j - 1 \in 1 .. Len(cs) /\ cs2[j] = cs[j - 1]
    BY <1>2
  <2>1. j - 1 \in 1 .. Len(cs) /\ (j - 1) + 1 = j
    BY <1>1, <1>2
  <2> QED
    BY <1>2, <2>1
<1>4. \A k \in 1 .. Len(cs) : k + 1 \in 1 .. Len(cs2)
  BY <1>1, <1>2
<1>5. \A k \in 1 .. Len(cs) : cs[k].stream # n + 1
  BY DEF ConnsOK
<1>6. ConnsOK(cs2, n + 1)
  <2>1. ASSUME NEW j \in 1 .. Len(cs2), NEW k \in 1 .. Len(cs2),
               cs2[j].stream = cs2[k].stream
        PROVE  j = k
    <3>1. CASE j = 1 \/ k = 1
      BY <1>3, <1>5, <2>1, <3>1
    <3>2. CASE j # 1 /\ k # 1
      <4>1. \A p, q \in 1 .. Len(cs) : cs[p].stream = cs[q].stream => p = q
        BY DEF ConnsOK
      <4>2. /\ j - 1 \in 1 .. Len(cs) /\ cs2[j] = cs[j - 1]
            /\ k - 1 \in 1 .. Len(cs) /\ cs2[k] = cs[k - 1]
        BY <1>3, <3>2
      <4>3. j - 1 = k - 1
        BY <2>1, <4>1, <4>2
      <4> QED
        BY <4>3
    <3> QED
      BY <3>1, <3>2
  <2>2. ASSUME NEW j \in 1 .. Len(cs2)
        PROVE  /\ cs2[j].stream \in 1 .. n + 1
               /\ cs2[j].closing <=> cs2[j].refs = 0
               /\ cs2[j].timer => cs2[j].closing
    BY <1>3 DEF ConnsOK
  <2> QED
    BY <1>2, <2>1, <2>2 DEF ConnsOK
<1>7. ASSUME NEW fs, NEW t, t # n + 1, Covered(cs, fs, t, 0)
      PROVE  Covered(cs2, fs, t, 0)
  BY <1>2, <1>3, <1>4, <1>7 DEF Covered
<1> QED
  BY <1>3, <1>5, <1>6, <1>7

-----------------------------------------------------------------------------
(* Std_StreamClose, and the callers of Std_StreamOpen.                     *)

\* A stream that is not on the list and has no folder may be freed.
LEMMA StreamGone ==
  ASSUME NEW ss \in Seq(Stream), NEW s \in 1 .. Len(ss)
  PROVE  /\ MailClose(ss, s) \in Seq(Stream) /\ Len(MailClose(ss, s)) = Len(ss)
         /\ \A cs, fs : /\ Alive(cs, ss, fs) /\ Users(fs, s) = {}
                        /\ \A i \in 1 .. Len(cs) : cs[i].stream # s
                        => Alive(cs, MailClose(ss, s), fs)
<1>1. NoStream \in Stream
  BY DEF NoStream, Stream
<1>2. /\ MailClose(ss, s) \in Seq(Stream) /\ Len(MailClose(ss, s)) = Len(ss)
      /\ \A t : t # s => MailClose(ss, s)[t] = ss[t]
  BY <1>1 DEF MailClose
<1>3. ASSUME NEW cs, NEW fs, Alive(cs, ss, fs), Users(fs, s) = {},
             \A i \in 1 .. Len(cs) : cs[i].stream # s
      PROVE  Alive(cs, MailClose(ss, s), fs)
  <2>1. \A f \in 1 .. Len(fs) : fs[f].open => fs[f].stream # s
    BY <1>3 DEF Users
  <2> QED
    BY <1>2, <1>3, <2>1 DEF Alive
<1> QED
  BY <1>2, <1>3

\* What Std_StreamClose does to the list and to the streams.
Closes(cs, ss, s, cs2, ss2) ==
  \/ /\ \A i \in 1 .. Len(cs) : cs[i].stream # s
     /\ cs2 = cs /\ ss2 = MailClose(ss, s)
  \/ \E i \in 1 .. Len(cs) :
       /\ cs[i].stream = s
       /\ \/ /\ cs[i].refs > 1
             /\ cs2 = [cs EXCEPT ![i].refs = @ - 1] /\ ss2 = ss
          \/ /\ cs[i].refs = 1
             /\ cs2 = [cs EXCEPT ![i] = Cached(@)] /\ ss2 = ss
          \/ /\ cs[i].refs = 1
             /\ cs2 = RemoveAt(cs, i) /\ ss2 = MailClose(ss, s)

\* Who closes a stream gives back the reference that covered it.
LEMMA StreamClosed ==
  ASSUME NEW cs, NEW ss \in Seq(Stream), NEW fs,
         ConnsOK(cs, Len(ss)), FoldersOK(fs, Len(ss)), NEW s \in 1 .. Len(ss),
         Covered(cs, fs, s, 1),
         \A t \in 1 .. Len(ss) : t # s => Covered(cs, fs, t, 0),
         NEW cs2, NEW ss2,
         Closes(cs, ss, s, cs2, ss2)
  PROVE  Sound(cs2, ss2, fs) /\ (Alive(cs, ss, fs) => Alive(cs2, ss2, fs))
<1>1. cs \in Seq(Conn) /\ Len(ss) \in Nat
  BY DEF ConnsOK
<1>2. IsFiniteSet(Users(fs, s)) /\ Cardinality(Users(fs, s)) \in Nat
  BY UsersCount
<1>3. Cardinality(Users(fs, s)) = 0 => Users(fs, s) = {}
  BY <1>2, FS_EmptySet
<1>4. CASE /\ \A i \in 1 .. Len(cs) : cs[i].stream # s
           /\ cs2 = cs /\ ss2 = MailClose(ss, s)
  <2>1. Cardinality(Users(fs, s)) + 1 <= 1
    BY <1>4 DEF Covered
  <2>2. Users(fs, s) = {} /\ Covered(cs, fs, s, 0)
    BY <1>2, <1>3, <1>4, <2>1 DEF Covered
  <2>3. ss2 \in Seq(Stream) /\ Len(ss2) = Len(ss)
    BY <1>4, StreamGone
  <2>4. AllCovered(cs, fs, Len(ss))
    BY <2>2 DEF AllCovered
  <2>5. Alive(cs, ss, fs) => Alive(cs2, ss2, fs)
    BY <1>4, <2>2, StreamGone
  <2> QED
    BY <1>4, <2>3, <2>4, <2>5 DEF Sound
<1>5. ASSUME NEW i \in 1 .. Len(cs), cs[i].stream = s,
             \/ /\ cs[i].refs > 1
                /\ cs2 = [cs EXCEPT ![i].refs = @ - 1] /\ ss2 = ss
             \/ /\ cs[i].refs = 1
                /\ cs2 = [cs EXCEPT ![i] = Cached(@)] /\ ss2 = ss
             \/ /\ cs[i].refs = 1
                /\ cs2 = RemoveAt(cs, i) /\ ss2 = MailClose(ss, s)
      PROVE  Sound(cs2, ss2, fs) /\ (Alive(cs, ss, fs) => Alive(cs2, ss2, fs))
  <2>1. cs[i] \in Conn /\ cs[i].refs \in Nat
    BY <1>1, ConnTypes
  <2>2. Cardinality(Users(fs, s)) + 1 <= cs[i].refs
    BY <1>5 DEF Covered
  <2>3. /\ cs[i].closing <=> cs[i].refs = 0
        /\ cs[i].timer => cs[i].closing
    BY DEF ConnsOK
  <2>4. CASE cs[i].refs > 1 /\ cs2 = [cs EXCEPT ![i].refs = @ - 1] /\ ss2 = ss
    <3> DEFINE c == [cs[i] EXCEPT !.refs = @ - 1]
    <3>1. cs2 = [cs EXCEPT ![i] = c]
      BY <2>4
    <3>2. /\ c \in Conn /\ c.stream = s /\ c.refs = cs[i].refs - 1
          /\ c.closing = cs[i].closing /\ c.timer = cs[i].timer
      <4>1. cs[i].refs - 1 \in Nat /\ cs[i].stream = s
        BY <1>5, <2>1, <2>4
      <4> QED
        BY <2>1, <4>1 DEF Conn
    <3>3. (c.closing <=> c.refs = 0) /\ (c.timer => c.closing)
      BY <2>1, <2>3, <2>4, <3>2
    <3> HIDE DEF c
    <3>4. Cardinality(Users(fs, s)) + 0 <= c.refs
      BY <1>2, <2>1, <2>2, <3>2
    <3>5. /\ ConnsOK(cs2, Len(ss))
          /\ \A sx, fx : Alive(cs, sx, fx) => Alive(cs2, sx, fx)
          /\ \A fx, t : t # c.stream /\ Covered(cs, fx, t, 0) => Covered(cs2, fx, t, 0)
          /\ \A fx, k : Cardinality(Users(fx, c.stream)) + k <= c.refs
                           => Covered(cs2, fx, c.stream, k)
      <4>1. Becomes(cs, cs2, c, Len(ss))
        BY <1>1, <1>5, <3>1, <3>2, <3>3, Replaced
      <4> QED
        BY <4>1 DEF Becomes
    <3>6. AllCovered(cs2, fs, Len(ss))
      BY <3>2, <3>4, <3>5 DEF AllCovered
    <3>7. Sound(cs2, ss, fs)
      BY <3>5, <3>6 DEF Sound
    <3> QED
      BY <2>4, <3>5, <3>7
  <2>5. CASE cs[i].refs = 1 /\ cs2 = [cs EXCEPT ![i] = Cached(@)] /\ ss2 = ss
    <3> DEFINE c == Cached(cs[i])
    <3>1. cs2 = [cs EXCEPT ![i] = c]
      BY <2>5
    <3>2. c \in Conn /\ c.stream = s /\ c.refs = 0 /\ c.closing
      BY <1>5, <2>1 DEF Conn, Cached, Nobody
    <3> HIDE DEF c
    <3>4. Cardinality(Users(fs, s)) + 0 <= c.refs
      BY <1>2, <2>2, <2>5, <3>2
    <3>5. /\ ConnsOK(cs2, Len(ss))
          /\ \A sx, fx : Alive(cs, sx, fx) => Alive(cs2, sx, fx)
          /\ \A fx, t : t # c.stream /\ Covered(cs, fx, t, 0) => Covered(cs2, fx, t, 0)
          /\ \A fx, k : Cardinality(Users(fx, c.stream)) + k <= c.refs
                           => Covered(cs2, fx, c.stream, k)
      <4>1. Becomes(cs, cs2, c, Len(ss))
        BY <1>1, <1>5, <3>1, <3>2, Replaced
      <4> QED
        BY <4>1 DEF Becomes
    <3>6. AllCovered(cs2, fs, Len(ss))
      BY <3>2, <3>4, <3>5 DEF AllCovered
    <3>7. Sound(cs2, ss, fs)
      BY <3>5, <3>6 DEF Sound
    <3> QED
      BY <2>5, <3>5, <3>7
  <2>6. CASE cs[i].refs = 1 /\ cs2 = RemoveAt(cs, i) /\ ss2 = MailClose(ss, s)
    <3>0. s = cs[i].stream /\ cs2 = RemoveAt(cs, i)
      BY <1>5, <2>6
    <3>1. Users(fs, s) = {} /\ Cardinality(Users(fs, s)) + 0 <= 1
      BY <1>2, <1>3, <2>2, <2>6
    <3>2. /\ ConnsOK(cs2, Len(ss))
          /\ \A j \in 1 .. Len(cs2) : cs2[j].stream # s
          /\ \A j \in 1 .. Len(cs2) : \E k \in 1 .. Len(cs) : cs2[j] = cs[k]
          /\ \A fx, t : t # s /\ Covered(cs, fx, t, 0) => Covered(cs2, fx, t, 0)
      BY <1>1, <3>0, ConnRemoved
    <3>3. AllCovered(cs2, fs, Len(ss))
      <4>1. Covered(cs2, fs, s, 0)
        BY <3>1, <3>2 DEF Covered
      <4> QED
        BY <3>2, <4>1 DEF AllCovered
    <3>4. ss2 \in Seq(Stream) /\ Len(ss2) = Len(ss)
      BY <2>6, StreamGone
    <3>5. Alive(cs, ss, fs) => Alive(cs2, ss, fs)
      BY <3>2 DEF Alive
    <3>6. Alive(cs, ss, fs) => Alive(cs2, ss2, fs)
      BY <2>6, <3>1, <3>2, <3>5, StreamGone
    <3>7. Sound(cs2, ss2, fs)
      BY <3>2, <3>3, <3>4 DEF Sound
    <3> QED
      BY <3>6, <3>7
  <2> QED
    BY <1>5, <2>4, <2>5, <2>6
<1> QED
  BY <1>4, <1>5 DEF Closes

LEMMA StreamCloses ==
  ASSUME NEW cs \in Seq(Conn), NEW ss, NEW s, StreamClose(cs, ss, s)
  PROVE  Closes(cs, ss, s, conns', streams')
<1> DEFINE users == {i \in DOMAIN cs : cs[i].stream = s}
<1>1. DOMAIN cs = 1 .. Len(cs)
  OBVIOUS
<1>2. CASE users = {} /\ conns' = cs /\ streams' = MailClose(ss, s)
  BY <1>1, <1>2 DEF Closes
<1>3. ASSUME NEW i \in users,
             \/ /\ cs[i].refs > 1
                /\ conns' = [cs EXCEPT ![i].refs = @ - 1] /\ streams' = ss
             \/ /\ cs[i].refs = 1
                /\ conns' = [cs EXCEPT ![i] = Cached(@)] /\ streams' = ss
             \/ /\ cs[i].refs = 1
                /\ conns' = RemoveAt(cs, i) /\ streams' = MailClose(ss, s)
      PROVE  Closes(cs, ss, s, conns', streams')
  BY <1>1, <1>3 DEF Closes
<1>4. \/ users = {} /\ conns' = cs /\ streams' = MailClose(ss, s)
      \/ \E i \in users :
           \/ /\ cs[i].refs > 1
              /\ conns' = [cs EXCEPT ![i].refs = @ - 1] /\ streams' = ss
           \/ /\ cs[i].refs = 1
              /\ conns' = [cs EXCEPT ![i] = Cached(@)] /\ streams' = ss
           \/ /\ cs[i].refs = 1
              /\ conns' = RemoveAt(cs, i) /\ streams' = MailClose(ss, s)
  BY DEF StreamClose
<1> QED
  BY <1>2, <1>3, <1>4

\* The same streams are live.
LEMMA LiveKept ==
  ASSUME NEW cs, NEW ss \in Seq(Stream), NEW fs, NEW ss2 \in Seq(Stream),
         Len(ss2) = Len(ss), \A t \in 1 .. Len(ss) : ss2[t].live = ss[t].live,
         ConnsOK(cs, Len(ss)), FoldersOK(fs, Len(ss))
  PROVE  /\ ConnsOK(cs, Len(ss2)) /\ FoldersOK(fs, Len(ss2))
         /\ Alive(cs, ss, fs) => Alive(cs, ss2, fs)
<1>1. \A i \in 1 .. Len(cs) : cs[i].stream \in 1 .. Len(ss)
  BY DEF ConnsOK
<1>2. \A f \in 1 .. Len(fs) : fs[f].stream # 0 => fs[f].stream \in 1 .. Len(ss)
  BY DEF FoldersOK
<1> QED
  BY <1>1, <1>2 DEF Alive

\* Folders that gave up what they had, or learnt of an error.
Fewer(fs, fs2) ==
  /\ fs2 \in Seq(FolderRecord) /\ Len(fs2) = Len(fs)
  /\ \A f \in 1 .. Len(fs) :
       /\ fs2[f].stream \in {0, fs[f].stream}
       /\ fs2[f].open /\ fs2[f].stream # 0
            => fs[f].open /\ fs2[f].kind = fs[f].kind

LEMMA FewerFolders ==
  ASSUME NEW n \in Nat, NEW cs, ConnsOK(cs, n), NEW fs, FoldersOK(fs, n),
         NEW fs2, Fewer(fs, fs2)
  PROVE  /\ FoldersOK(fs2, n)
         /\ \A t \in 1 .. n : Users(fs2, t) \subseteq Users(fs, t)
         /\ \A t \in 1 .. n : Covered(cs, fs, t, 0) => Covered(cs, fs2, t, 0)
         /\ Alone(fs) => Alone(fs2)
         /\ \A ss : Alive(cs, ss, fs) => Alive(cs, ss, fs2)
<1>1. FoldersOK(fs2, n)
  BY DEF FoldersOK, Fewer
<1>2. \A t \in 1 .. n : Users(fs2, t) \subseteq Users(fs, t)
  BY DEF Users, Fewer
<1>3. ASSUME NEW t \in 1 .. n, Covered(cs, fs, t, 0)
      PROVE  Covered(cs, fs2, t, 0)
  <2>1. cs \in Seq(Conn) /\ 0 \in Nat
    BY DEF ConnsOK
  <2> QED
    BY <1>2, <1>3, <2>1, FewerUsers
<1>4. Alone(fs) => Alone(fs2)
  <2>1. \A f \in 1 .. Len(fs2) :
          Reads(fs2, f) => Reads(fs, f) /\ fs2[f].stream = fs[f].stream
    BY DEF Reads, Fewer
  <2> QED
    BY <2>1 DEF Alone, Fewer
<1>5. \A ss : Alive(cs, ss, fs) => Alive(cs, ss, fs2)
  BY DEF Alive, Fewer
<1> QED
  BY <1>1, <1>2, <1>3, <1>4, <1>5

\* A new folder takes the stream of its record.
LEMMA FolderAdded ==
  ASSUME NEW n \in Nat, NEW fs, FoldersOK(fs, n), NEW r \in FolderRecord,
         r.stream \in 0 .. n
  PROVE  /\ FoldersOK(Append(fs, r), n)
         /\ Len(Append(fs, r)) = Len(fs) + 1 /\ Len(fs) \in Nat
         /\ Append(fs, r)[Len(fs) + 1] = r
         /\ \A f \in 1 .. Len(fs) : Append(fs, r)[f] = fs[f]
<1>1. fs \in Seq(FolderRecord) /\ Len(fs) \in Nat
  BY DEF FoldersOK
<1>2. /\ Append(fs, r) \in Seq(FolderRecord) /\ Len(Append(fs, r)) = Len(fs) + 1
      /\ Append(fs, r)[Len(fs) + 1] = r
      /\ \A f \in 1 .. Len(fs) : Append(fs, r)[f] = fs[f]
  BY <1>1
<1>3. \A f \in 1 .. Len(fs) + 1 : f = Len(fs) + 1 \/ f \in 1 .. Len(fs)
  BY <1>1
<1>4. FoldersOK(Append(fs, r), n)
  BY <1>2, <1>3 DEF FoldersOK
<1> QED
  BY <1>1, <1>2, <1>4

\* The folders of a stream then.
LEMMA UsersAdded ==
  ASSUME NEW fs, NEW fs2, NEW r, Len(fs) \in Nat, Len(fs2) = Len(fs) + 1,
         fs2[Len(fs) + 1] = r, \A f \in 1 .. Len(fs) : fs2[f] = fs[f], NEW t
  PROVE  /\ Users(fs2, t) = IF r.open /\ r.stream = t THEN Users(fs, t) \cup {Len(fs) + 1}
                            ELSE Users(fs, t)
         /\ Len(fs) + 1 \notin Users(fs, t)
<1>1. 1 .. Len(fs2) = 1 .. Len(fs) \cup {Len(fs) + 1} /\ Len(fs) + 1 \notin 1 .. Len(fs)
  OBVIOUS
<1> QED
  BY <1>1 DEF Users

\* A use of stream s that the references cover, and that has no reader if it is
\* for a reader.
Ready(kind, cs, ss, fs, s) ==
  /\ ss \in Seq(Stream) /\ s \in 1 .. Len(ss) /\ kind \in Kinds
  /\ ConnsOK(cs, Len(ss)) /\ FoldersOK(fs, Len(ss)) /\ Alone(fs)
  /\ Covered(cs, fs, s, 1)
  /\ \A t \in 1 .. Len(ss) : t # s => Covered(cs, fs, t, 0)
  /\ kind \in {"std", "dis"}
       => \A f \in 1 .. Len(fs) : Reads(fs, f) => fs[f].stream # s

\* The opening of a folder ends with a sound state, and a stream in use is live.
LEMMA Refuses ==
  ASSUME NEW kind, NEW cs, NEW ss, NEW fs, NEW s, Ready(kind, cs, ss, fs, s),
         Refused(cs, ss, fs, s)
  PROVE  /\ Sound(conns, streams, folders)' /\ Alone(folders)'
         /\ Alive(cs, ss, fs) => Alive(conns, streams, folders)'
<1>1. folders' = fs /\ cs \in Seq(Conn) /\ StreamClose(cs, ss, s)
  BY DEF Refused, Ready, ConnsOK
<1>2. Closes(cs, ss, s, conns', streams')
  BY <1>1, StreamCloses
<1>3. /\ Sound(conns', streams', fs)
      /\ Alive(cs, ss, fs) => Alive(conns', streams', fs)
  BY <1>2, StreamClosed DEF Ready
<1> QED
  BY <1>1, <1>3 DEF Ready

LEMMA Opens ==
  ASSUME NEW kind, NEW cs, NEW ss, NEW fs, NEW s, Ready(kind, cs, ss, fs, s),
         Opened(kind, cs, ss, fs, s)
  PROVE  /\ Sound(conns, streams, folders)' /\ Alone(folders)'
         /\ Alive(cs, ss, fs) /\ ss[s].live => Alive(conns, streams, folders)'
<1>1. CASE kind = "manage"
  <2>1. Refused(cs, ss, fs, s)
    BY <1>1 DEF Opened, Refused
  <2> QED
    BY <2>1, Refuses
<1>2. CASE kind # "manage"
  <2> DEFINE r == Folder(kind, s)
  <2>1. conns' = cs /\ streams' = ss /\ folders' = Append(fs, r)
    BY <1>2 DEF Opened
  <2>2. /\ r \in FolderRecord /\ r.stream = s /\ r.kind = kind /\ r.open
        /\ s # 0 /\ s \in 0 .. Len(ss) /\ Len(ss) \in Nat
    <3>1. Len(ss) \in Nat /\ s \in 1 .. Len(ss) /\ kind \in Kinds
      BY DEF Ready
    <3> QED
      BY <3>1 DEF Folder, FolderRecord
  <2> HIDE DEF r
  <2>3. FoldersOK(fs, Len(ss)) /\ ConnsOK(cs, Len(ss)) /\ cs \in Seq(Conn)
    BY DEF Ready, ConnsOK
  <2>4. /\ FoldersOK(folders', Len(ss))
        /\ Len(folders') = Len(fs) + 1 /\ Len(fs) \in Nat
        /\ folders'[Len(fs) + 1] = r
        /\ \A f \in 1 .. Len(fs) : folders'[f] = fs[f]
    BY <2>1, <2>2, <2>3, FolderAdded
  <2>5. Covered(cs, folders', s, 0)
    <3>1. Covered(cs, fs, s, 1)
      BY DEF Ready
    <3>2. /\ Users(folders', s) = Users(fs, s) \cup {Len(fs) + 1}
          /\ Len(fs) + 1 \notin Users(fs, s)
      BY <2>2, <2>4, UsersAdded
    <3> QED
      BY <2>3, <3>1, <3>2, OneUserMore
  <2>6. AllCovered(cs, folders', Len(ss))
    <3>1. \A t \in 1 .. Len(ss) : t # s => Covered(cs, fs, t, 0)
      BY DEF Ready
    <3>2. ASSUME NEW t \in 1 .. Len(ss), t # s
          PROVE  Covered(cs, folders', t, 0)
      <4>1. Users(folders', t) = Users(fs, t)
        BY <2>2, <2>4, <3>2, UsersAdded
      <4> QED
        BY <3>1, <3>2, <4>1 DEF Covered
    <3> QED
      BY <2>5, <3>2 DEF AllCovered
  <2>7. \A f \in 1 .. Len(folders') : f = Len(fs) + 1 \/ f \in 1 .. Len(fs)
    BY <2>4
  <2>8. Alone(folders)'
    <3> SUFFICES ASSUME NEW f \in 1 .. Len(folders'), NEW g \in 1 .. Len(folders'),
                        Reads(folders', f), Reads(folders', g),
                        folders'[f].stream = folders'[g].stream
                 PROVE  f = g
      BY DEF Alone
    <3>1. CASE f \in 1 .. Len(fs) /\ g \in 1 .. Len(fs)
      BY <2>4, <3>1 DEF Reads, Alone, Ready
    <3>2. CASE f = Len(fs) + 1 /\ g \in 1 .. Len(fs)
      BY <2>2, <2>4, <3>2 DEF Reads, Ready
    <3>3. CASE g = Len(fs) + 1 /\ f \in 1 .. Len(fs)
      BY <2>2, <2>4, <3>3 DEF Reads, Ready
    <3> QED
      BY <2>7, <3>1, <3>2, <3>3
  <2>9. Alive(cs, ss, fs) /\ ss[s].live => Alive(conns, streams, folders)'
    BY <2>1, <2>2, <2>4, <2>7 DEF Alive
  <2>10. Sound(cs, ss, folders')
    BY <2>3, <2>4, <2>6 DEF Sound, Ready
  <2> QED
    BY <2>1, <2>8, <2>9, <2>10
<1> QED
  BY <1>1, <1>2

-----------------------------------------------------------------------------
(* Opening: one lemma per action.                                          *)

LEMMA NumberOfStreams ==
  ASSUME IInv
  PROVE  /\ streams \in Seq(Stream) /\ Len(streams) \in Nat
         /\ ConnsOK(conns, Len(streams)) /\ conns \in Seq(Conn) /\ Len(conns) \in Nat
         /\ FoldersOK(folders, Len(streams)) /\ folders \in Seq(FolderRecord)
         /\ AllCovered(conns, folders, Len(streams)) /\ Alone(folders)
         /\ DOMAIN conns = 1 .. Len(conns) /\ DOMAIN streams = 1 .. Len(streams)
         /\ DOMAIN folders = 1 .. Len(folders) /\ Len(folders) \in Nat
BY DEF IInv, Sound, ConnsOK, FoldersOK

\* A connection gets one more reference, for somebody who may read its stream
\* only if nobody uses it.
LEMMA ReferenceTaken ==
  ASSUME IInv, NEW kind \in Kinds, NEW i \in 1 .. Len(conns),
         conns[i].closing \/ HalfOpen(kind), NEW ss \in Seq(Stream),
         Len(ss) = Len(streams),
         \A t \in 1 .. Len(streams) : ss[t].live = streams[t].live,
         NEW cs, cs = [conns EXCEPT ![i] = Taken(@, kind)]
  PROVE  /\ Ready(kind, cs, ss, folders, conns[i].stream)
         /\ Covered(cs, folders, conns[i].stream, 0)
         /\ Alive(conns, streams, folders)
              => Alive(cs, ss, folders) /\ ss[conns[i].stream].live
<1> DEFINE c == Taken(conns[i], kind)
           s == conns[i].stream
           n == Len(streams)
<1>1. /\ streams \in Seq(Stream) /\ n \in Nat /\ ConnsOK(conns, n)
      /\ conns \in Seq(Conn) /\ FoldersOK(folders, n) /\ Alone(folders)
      /\ AllCovered(conns, folders, n) /\ Len(folders) \in Nat
  BY NumberOfStreams
<1>2. conns[i] \in Conn /\ conns[i].refs \in Nat
  BY <1>1, ConnTypes
<1>3. s \in 1 .. n /\ (conns[i].closing <=> conns[i].refs = 0)
  BY <1>1 DEF ConnsOK
<1>4. /\ c \in Conn /\ c.stream = s /\ c.refs = conns[i].refs + 1
      /\ ~c.closing /\ ~c.timer
  <2>1. Owner(kind) \in Nat
    BY <1>1 DEF Owner, Nobody
  <2> DEFINE o == IF conns[i].closing THEN Owner(kind) ELSE conns[i].owner
  <2>2. o \in Nat /\ conns[i].refs + 1 \in Nat
    BY <1>2, <2>1 DEF Conn
  <2>3. c = [conns[i] EXCEPT !.refs = conns[i].refs + 1, !.timer = FALSE,
                             !.closing = FALSE, !.owner = o]
    BY DEF Taken
  <2> HIDE DEF o
  <2> QED
    BY <1>2, <2>2, <2>3 DEF Conn
<1>5. c.refs # 0
  BY <1>2, <1>4
<1>6. cs = [conns EXCEPT ![i] = c]
  OBVIOUS
<1>7. IsFiniteSet(Users(folders, s)) /\ Cardinality(Users(folders, s)) \in Nat
  BY <1>1, UsersCount
<1>8. Cardinality(Users(folders, s)) + 0 <= conns[i].refs
  BY <1>1, <1>3 DEF AllCovered, Covered
<1>9. /\ Cardinality(Users(folders, s)) + 1 <= c.refs
      /\ Cardinality(Users(folders, s)) + 0 <= c.refs
  BY <1>2, <1>4, <1>7, <1>8
<1> HIDE DEF c, s, n
<1>10. /\ ConnsOK(cs, n)
       /\ \A sx, fx : Alive(conns, sx, fx) => Alive(cs, sx, fx)
       /\ \A fx, t : t # c.stream /\ Covered(conns, fx, t, 0) => Covered(cs, fx, t, 0)
       /\ \A fx, k : Cardinality(Users(fx, c.stream)) + k <= c.refs
                       => Covered(cs, fx, c.stream, k)
  <2>1. c.stream = conns[i].stream /\ (c.closing <=> c.refs = 0) /\ (c.timer => c.closing)
    BY <1>4, <1>5 DEF s
  <2>2. Becomes(conns, cs, c, n)
    BY <1>1, <1>4, <1>6, <2>1, Replaced
  <2> QED
    BY <2>2 DEF Becomes
<1>11. Covered(cs, folders, s, 1) /\ Covered(cs, folders, s, 0)
  BY <1>4, <1>9, <1>10
<1>12. \A t \in 1 .. n : t # s => Covered(cs, folders, t, 0)
  BY <1>1, <1>4, <1>10 DEF AllCovered
<1>13. ASSUME kind \in {"std", "dis"}, NEW f \in 1 .. Len(folders), Reads(folders, f)
       PROVE  folders[f].stream # s
  <2>1. conns[i].refs = 0
    BY <1>3, <1>13 DEF HalfOpen
  <2>2. Users(folders, s) = {}
    BY <1>7, <1>8, <2>1, FS_EmptySet
  <2> QED
    BY <1>13, <2>2 DEF Users, Reads
<1>14. Ready(kind, cs, ss, folders, s)
  BY <1>1, <1>3, <1>10, <1>11, <1>12, <1>13 DEF Ready, n
<1>15. ASSUME Alive(conns, streams, folders)
       PROVE  Alive(cs, ss, folders) /\ ss[s].live
  <2>1. Alive(cs, streams, folders)
    BY <1>10, <1>15
  <2>2. Alive(cs, ss, folders)
    BY <1>1, <1>10, <2>1, LiveKept DEF n
  <2>3. streams[s].live
    BY <1>15 DEF Alive, s
  <2> QED
    BY <1>3, <2>2, <2>3 DEF n
<1> QED
  BY <1>11, <1>14, <1>15 DEF s

LEMMA ReuseStep ==
  ASSUME IInv, NEW kind \in Kinds, NEW h \in Specs, Reuse(kind, h)
  PROVE  IInv'
<1>1. PICK i \in Found(h, HalfOpen(kind)) :
        LET s     == conns[i].stream
            taken == [conns EXCEPT ![i] = Taken(@, kind)]
        IN
        \/ /\ HalfOpen(kind) /\ Opened(kind, taken, streams, folders, s)
           /\ faults' = IF kind = "append" /\ ~conns[i].closing
                        THEN faults \cup {"shared"} ELSE faults
        \/ /\ ~HalfOpen(kind)
           /\ \/ Opened(kind, taken, [streams EXCEPT ![s].half = FALSE], folders, s)
              \/ Refused(taken, [streams EXCEPT ![s].half = TRUE], folders, s)
           /\ faults' = faults
        \/ /\ conns' = taken
           /\ streams' = MailClose(streams, s)
           /\ folders' = Append(folders, NoFolder)
           /\ faults' = faults \cup {"broken"}
  BY DEF Reuse
<1> DEFINE s     == conns[i].stream
           taken == [conns EXCEPT ![i] = Taken(@, kind)]
           ss(half) == [streams EXCEPT ![s].half = half]
<1>2. /\ streams \in Seq(Stream) /\ Len(streams) \in Nat
      /\ ConnsOK(conns, Len(streams)) /\ conns \in Seq(Conn)
      /\ FoldersOK(folders, Len(streams))
      /\ AllCovered(conns, folders, Len(streams)) /\ Alone(folders)
      /\ DOMAIN conns = 1 .. Len(conns)
  BY NumberOfStreams
<1>3. i \in 1 .. Len(conns) /\ (conns[i].closing \/ HalfOpen(kind))
  BY <1>2 DEF Found, Usable
<1>4. s \in 1 .. Len(streams)
  BY <1>2, <1>3 DEF ConnsOK
<1> HIDE DEF ss
<1>5. ASSUME NEW half \in BOOLEAN
      PROVE  /\ ss(half) \in Seq(Stream) /\ Len(ss(half)) = Len(streams)
             /\ \A t \in 1 .. Len(streams) : ss(half)[t].live = streams[t].live
  <2> DEFINE x == [streams[s] EXCEPT !.half = half]
  <2>1. x \in Stream /\ x.live = streams[s].live
    <3>1. streams[s] \in Stream
      BY <1>2, <1>4
    <3> QED
      BY <3>1 DEF Stream
  <2>2. ss(half) = [streams EXCEPT ![s] = x]
    BY DEF ss
  <2> HIDE DEF x
  <2> QED
    BY <1>2, <1>4, <2>1, <2>2
<1>6. dialog' = dialog
  BY DEF Reuse
<1>7. CASE /\ HalfOpen(kind) /\ Opened(kind, taken, streams, folders, s)
           /\ "broken" \notin faults' => "broken" \notin faults
  <2>1. /\ Ready(kind, taken, streams, folders, s)
        /\ Alive(conns, streams, folders)
              => Alive(taken, streams, folders) /\ streams[s].live
    BY <1>2, <1>3, ReferenceTaken
  <2> QED
    BY <1>6, <1>7, <2>1, Opens DEF IInv
<1>8. CASE /\ ~HalfOpen(kind) /\ faults' = faults
           /\ Opened(kind, taken, ss(FALSE), folders, s)
  <2>1. /\ Ready(kind, taken, ss(FALSE), folders, s)
        /\ Alive(conns, streams, folders)
              => Alive(taken, ss(FALSE), folders) /\ ss(FALSE)[s].live
    BY <1>3, <1>5, ReferenceTaken
  <2> QED
    BY <1>6, <1>8, <2>1, Opens DEF IInv
<1>9. CASE /\ ~HalfOpen(kind) /\ faults' = faults
           /\ Refused(taken, ss(TRUE), folders, s)
  <2>1. /\ Ready(kind, taken, ss(TRUE), folders, s)
        /\ Alive(conns, streams, folders) => Alive(taken, ss(TRUE), folders)
    BY <1>3, <1>5, ReferenceTaken
  <2> QED
    BY <1>6, <1>9, <2>1, Refuses DEF IInv
<1>10. CASE /\ conns' = taken /\ streams' = MailClose(streams, s)
            /\ folders' = Append(folders, NoFolder)
            /\ faults' = faults \cup {"broken"}
  <2>1. /\ Ready(kind, taken, streams, folders, s)
        /\ Covered(taken, folders, s, 0)
    BY <1>2, <1>3, ReferenceTaken
  <2>2. streams' \in Seq(Stream) /\ Len(streams') = Len(streams)
    BY <1>2, <1>4, <1>10, StreamGone
  <2>3. NoFolder \in FolderRecord /\ NoFolder.stream \in 0 .. Len(streams) /\ ~NoFolder.open
    BY <1>2 DEF NoFolder, FolderRecord, Kinds
  <2>4. /\ FoldersOK(folders', Len(streams))
        /\ Len(folders') = Len(folders) + 1 /\ Len(folders) \in Nat
        /\ folders'[Len(folders) + 1] = NoFolder
        /\ \A f \in 1 .. Len(folders) : folders'[f] = folders[f]
    BY <1>2, <1>10, <2>3, FolderAdded
  <2>5. \A t : Users(folders', t) = Users(folders, t)
    BY <2>3, <2>4, UsersAdded
  <2>6. AllCovered(taken, folders', Len(streams))
    <3>1. ASSUME NEW t \in 1 .. Len(streams)
          PROVE  Covered(taken, folders, t, 0)
      BY <2>1 DEF Ready
    <3> QED
      BY <2>5, <3>1 DEF AllCovered, Covered
  <2>7. Sound(conns, streams, folders)'
    <3>1. ConnsOK(taken, Len(streams))
      BY <2>1 DEF Ready
    <3> QED
      BY <1>10, <2>2, <2>4, <2>6, <3>1 DEF Sound
  <2>8. Alone(folders)'
    <3>1. \A f \in 1 .. Len(folders') : Reads(folders', f) => f \in 1 .. Len(folders)
      BY <2>3, <2>4 DEF Reads
    <3> QED
      BY <1>2, <2>4, <3>1 DEF Alone, Reads
  <2> QED
    BY <1>6, <1>10, <2>7, <2>8 DEF IInv
<1> QED
  <2>1. \/ /\ HalfOpen(kind) /\ Opened(kind, taken, streams, folders, s)
           /\ "broken" \notin faults' => "broken" \notin faults
        \/ /\ ~HalfOpen(kind)
           /\ \/ Opened(kind, taken, ss(FALSE), folders, s)
              \/ Refused(taken, ss(TRUE), folders, s)
           /\ faults' = faults
        \/ /\ conns' = taken /\ streams' = MailClose(streams, s)
           /\ folders' = Append(folders, NoFolder)
           /\ faults' = faults \cup {"broken"}
    BY <1>1 DEF ss
  <2> QED
    BY <1>7, <1>8, <1>9, <1>10, <2>1

\* Notified changes nothing but the error flag of a folder.
LEMMA NotifiedFewer ==
  ASSUME IInv, NEW owner
  PROVE  Fewer(folders, Notified(owner))
<1>1. folders \in Seq(FolderRecord) /\ DOMAIN folders = 1 .. Len(folders)
  BY NumberOfStreams
<1>2. CASE ~(owner \in DOMAIN folders /\ folders[owner].open)
  <2>1. Notified(owner) = folders
    BY <1>2 DEF Notified
  <2> QED
    BY <1>1, <2>1 DEF Fewer
<1>3. CASE owner \in DOMAIN folders /\ folders[owner].open
  <2> DEFINE r == [folders[owner] EXCEPT !.error = TRUE]
  <2>1. folders[owner] \in FolderRecord
    BY <1>1, <1>3
  <2>2. /\ r \in FolderRecord /\ r.stream = folders[owner].stream
        /\ r.kind = folders[owner].kind /\ r.open = folders[owner].open
    BY <2>1 DEF FolderRecord
  <2>3. Notified(owner) = [folders EXCEPT ![owner] = r]
    BY <1>3 DEF Notified
  <2> HIDE DEF r
  <2> QED
    BY <1>1, <1>3, <2>2, <2>3 DEF Fewer
<1> QED
  BY <1>2, <1>3

LEMMA PingedFewer ==
  ASSUME IInv, NEW kind, NEW h
  PROVE  Fewer(folders, Pinged(kind, h))
<1>1. folders \in Seq(FolderRecord)
  BY NumberOfStreams
<1>2. Fewer(folders, folders)
  BY <1>1 DEF Fewer
<1> QED
  BY <1>2, NotifiedFewer DEF Pinged

\* Nothing but some folders changes.
LEMMA OnlyFolders ==
  ASSUME IInv, conns' = conns, streams' = streams, Fewer(folders, folders'),
         faults \subseteq faults', dialog' # NoDialog => dialog' \in Dialog
  PROVE  IInv'
<1>1. /\ streams \in Seq(Stream) /\ Len(streams) \in Nat
      /\ ConnsOK(conns, Len(streams)) /\ FoldersOK(folders, Len(streams))
      /\ AllCovered(conns, folders, Len(streams)) /\ Alone(folders)
  BY NumberOfStreams
<1>2. /\ FoldersOK(folders', Len(streams)) /\ Alone(folders')
      /\ \A t \in 1 .. Len(streams) : Covered(conns, folders', t, 0)
      /\ \A sx : Alive(conns, sx, folders) => Alive(conns, sx, folders')
  BY <1>1, FewerFolders DEF AllCovered
<1>3. Sound(conns, streams, folders')
  BY <1>1, <1>2 DEF Sound, AllCovered
<1> QED
  BY <1>2, <1>3 DEF IInv

\* A server has let us in: the stream is new, and nobody has it.
LEMMA ConnectedStep ==
  ASSUME IInv, NEW kind \in Kinds, NEW h \in Specs, NEW known, NEW fs,
         Fewer(folders, fs), Connected(kind, h, known, fs),
         faults' = faults, dialog' # NoDialog => dialog' \in Dialog
  PROVE  IInv'
<1> DEFINE n      == Len(streams)
           record == [stream |-> n + 1, host |-> h, refs |-> 1, closing |-> FALSE,
                      timer |-> FALSE, owner |-> Owner(kind)]
           cs     == IF known THEN conns ELSE <<record>> \o conns
           new(half) == [half |-> half, live |-> TRUE, up |-> TRUE]
           ss(half) == Append(streams, new(half))
<1>1. /\ streams \in Seq(Stream) /\ n \in Nat
      /\ ConnsOK(conns, n) /\ conns \in Seq(Conn)
      /\ FoldersOK(folders, n)
      /\ AllCovered(conns, folders, n) /\ Alone(folders) /\ Len(folders) \in Nat
  BY NumberOfStreams
<1>2. \/ Opened(kind, cs, ss(HalfOpen(kind)), fs, n + 1)
      \/ Refused(cs, ss(TRUE), fs, n + 1)
  BY DEF Connected
<1>3. /\ record \in Conn /\ record.stream = n + 1 /\ record.refs = 1 /\ record.refs # 0
      /\ ~record.closing /\ ~record.timer
  <2>1. Owner(kind) \in Nat
    BY <1>1 DEF Owner, Nobody
  <2> QED
    BY <1>1, <2>1 DEF Conn
<1> HIDE DEF record, n
<1>4. /\ FoldersOK(fs, n) /\ Alone(fs)
      /\ \A t \in 1 .. n : Covered(conns, fs, t, 0)
      /\ \A sx : Alive(conns, sx, folders) => Alive(conns, sx, fs)
  BY <1>1, FewerFolders DEF AllCovered
<1>5. Users(fs, n + 1) = {} /\ \A f \in 1 .. Len(fs) : fs[f].stream # n + 1
  <2>1. \A f \in 1 .. Len(fs) : fs[f].stream \in 0 .. n
    BY <1>4 DEF FoldersOK
  <2>2. \A f \in 1 .. Len(fs) : fs[f].stream # n + 1
    BY <1>1, <2>1
  <2> QED
    BY <2>2 DEF Users
<1>6. /\ ConnsOK(cs, n + 1) /\ Covered(cs, fs, n + 1, 1)
      /\ \A t \in 1 .. n : Covered(cs, fs, t, 0)
      /\ \A i \in 1 .. Len(cs) :
           cs[i].stream = n + 1 \/ \E k \in 1 .. Len(conns) : cs[i] = conns[k]
  <2>1. CASE known
    <3>1. ConnsOK(conns, n + 1) /\ \A i \in 1 .. Len(conns) : conns[i].stream # n + 1
      BY <1>1 DEF ConnsOK
    <3>2. Covered(conns, fs, n + 1, 1)
      BY <1>5, <3>1, NoUsers
    <3> QED
      BY <1>4, <2>1, <3>1, <3>2
  <2>2. CASE ~known
    <3>1. cs = <<record>> \o conns
      BY <2>2
    <3> HIDE DEF cs
    <3>2. /\ ConnsOK(cs, n + 1)
          /\ \A j \in 1 .. Len(cs) : cs[j] = record \/ \E k \in 1 .. Len(conns) : cs[j] = conns[k]
          /\ \A fx, t : t # n + 1 /\ Covered(conns, fx, t, 0) => Covered(cs, fx, t, 0)
      <4>1. ConnsOK(cs, n + 1)
        BY <1>1, <1>3, <3>1, ConnAdded
      <4>2. \A j \in 1 .. Len(cs) : cs[j] = record \/ \E k \in 1 .. Len(conns) : cs[j] = conns[k]
        BY <1>1, <1>3, <3>1, HeadedElements
      <4>3. \A fx, t : t # n + 1 /\ Covered(conns, fx, t, 0) => Covered(cs, fx, t, 0)
        BY <1>1, <1>3, <3>1, ConnAdded
      <4> QED
        BY <4>1, <4>2, <4>3
    <3>3. Covered(cs, fs, n + 1, 1)
      <4>1. \A k \in 1 .. Len(conns) : conns[k].stream \in 1 .. n
        BY <1>1 DEF ConnsOK
      <4>2. \A j \in 1 .. Len(cs) : cs[j].stream = n + 1 => cs[j] = record
        BY <1>1, <3>2, <4>1
      <4> QED
        BY <1>3, <1>5, <4>2, NoUsers
    <3>4. \A t \in 1 .. n : t # n + 1
      BY <1>1
    <3> QED
      BY <1>3, <1>4, <3>2, <3>3, <3>4
  <2> QED
    BY <2>1, <2>2
<1> HIDE DEF cs
<1>7. \A half \in BOOLEAN :
        /\ ss(half) \in Seq(Stream) /\ Len(ss(half)) = n + 1 /\ ss(half)[n + 1].live
        /\ \A t \in 1 .. n : ss(half)[t] = streams[t]
  <2>1. \A half \in BOOLEAN : new(half) \in Stream /\ new(half).live
    BY DEF Stream
  <2> HIDE DEF new
  <2> QED
    BY <1>1, <2>1 DEF n
<1> HIDE DEF ss
<1>8. \A half \in BOOLEAN : Ready(kind, cs, ss(half), fs, n + 1)
  <2> SUFFICES ASSUME NEW half \in BOOLEAN
               PROVE  Ready(kind, cs, ss(half), fs, n + 1)
    OBVIOUS
  <2>1. n + 1 \in 1 .. n + 1 /\ FoldersOK(fs, n + 1)
    BY <1>1, <1>4 DEF FoldersOK
  <2>2. \A t \in 1 .. n + 1 : t # n + 1 => Covered(cs, fs, t, 0)
    BY <1>1, <1>6
  <2> QED
    BY <1>4, <1>5, <1>6, <1>7, <2>1, <2>2 DEF Ready
<1>9. ASSUME Alive(conns, streams, folders), NEW half \in BOOLEAN
      PROVE  Alive(cs, ss(half), fs)
  <2>1. Alive(conns, streams, fs)
    BY <1>4, <1>9
  <2>2. \A i \in 1 .. Len(conns) : conns[i].stream \in 1 .. n
    BY <1>1 DEF ConnsOK
  <2>3. \A f \in 1 .. Len(fs) : fs[f].stream # 0 => fs[f].stream \in 1 .. n
    BY <1>4 DEF FoldersOK
  <2>4. \A f \in 1 .. Len(fs) :
          fs[f].open /\ fs[f].stream # 0 => ss(half)[fs[f].stream].live
    BY <1>7, <2>1, <2>3 DEF Alive
  <2>5. \A k \in 1 .. Len(conns) : ss(half)[conns[k].stream].live
    BY <1>7, <2>1, <2>2 DEF Alive
  <2>6. \A i \in 1 .. Len(cs) : ss(half)[cs[i].stream].live
    BY <1>6, <1>7, <2>5
  <2> QED
    BY <2>4, <2>6 DEF Alive
<1>10. HalfOpen(kind) \in BOOLEAN /\ TRUE \in BOOLEAN
  BY DEF HalfOpen
<1>11. CASE Opened(kind, cs, ss(HalfOpen(kind)), fs, n + 1)
  <2>1. /\ Sound(conns, streams, folders)' /\ Alone(folders)'
        /\ Alive(cs, ss(HalfOpen(kind)), fs) /\ ss(HalfOpen(kind))[n + 1].live
             => Alive(conns, streams, folders)'
    BY <1>8, <1>10, <1>11, Opens
  <2> QED
    BY <1>7, <1>9, <1>10, <2>1 DEF IInv
<1>12. CASE Refused(cs, ss(TRUE), fs, n + 1)
  <2>1. /\ Sound(conns, streams, folders)' /\ Alone(folders)'
        /\ Alive(cs, ss(TRUE), fs) => Alive(conns, streams, folders)'
    BY <1>8, <1>12, Refuses
  <2> QED
    BY <1>9, <2>1 DEF IInv
<1> QED
  BY <1>2, <1>11, <1>12

-----------------------------------------------------------------------------
(* Closing.                                                                *)

\* A folder leaves the stream it has, and Std_StreamClose is called.
LEMMA FolderLeaves ==
  ASSUME IInv, NEW f \in 1 .. Len(folders), folders[f].open, folders[f].stream # 0,
         NEW r \in FolderRecord, r.stream = 0,
         folders' = [folders EXCEPT ![f] = r],
         StreamClose(conns, streams, folders[f].stream),
         faults' = faults, dialog' = dialog
  PROVE  IInv'
<1> DEFINE n == Len(streams)
           s == folders[f].stream
<1>1. /\ streams \in Seq(Stream) /\ n \in Nat /\ ConnsOK(conns, n)
      /\ conns \in Seq(Conn) /\ FoldersOK(folders, n) /\ Alone(folders)
      /\ folders \in Seq(FolderRecord) /\ AllCovered(conns, folders, n)
  BY NumberOfStreams
<1>2. s \in 1 .. n /\ s \in 0 .. n
  BY <1>1 DEF FoldersOK
<1>3. /\ folders' \in Seq(FolderRecord) /\ Len(folders') = Len(folders)
      /\ folders'[f] = r /\ \A g \in 1 .. Len(folders) : g # f => folders'[g] = folders[g]
  BY <1>1
<1>4. Fewer(folders, folders')
  BY <1>3 DEF Fewer
<1>5. /\ FoldersOK(folders', n) /\ Alone(folders')
      /\ \A t \in 1 .. n : Covered(conns, folders', t, 0)
      /\ \A sx : Alive(conns, sx, folders) => Alive(conns, sx, folders')
  BY <1>1, <1>4, FewerFolders DEF AllCovered
<1>6. f \in Users(folders, s) /\ Users(folders', s) = Users(folders, s) \ {f}
  BY <1>2, <1>3 DEF Users
<1>7. Covered(conns, folders, s, 0)
  BY <1>1, <1>2 DEF AllCovered
<1>8. Covered(conns, folders', s, 1)
  BY <1>1, <1>6, <1>7, OneUserLess
<1>9. Closes(conns, streams, s, conns', streams')
  BY <1>1, StreamCloses
<1>10. /\ Sound(conns', streams', folders')
       /\ Alive(conns, streams, folders') => Alive(conns', streams', folders')
  BY <1>1, <1>2, <1>5, <1>8, <1>9, StreamClosed
<1> QED
  BY <1>5, <1>10 DEF IInv

LEMMA CloseFolderStep ==
  ASSUME IInv, NEW f \in 1 .. Len(folders), CloseFolder(f)
  PROVE  IInv'
<1>1. NoFolder \in FolderRecord /\ NoFolder.stream = 0 /\ ~NoFolder.open
  BY DEF NoFolder, FolderRecord, Kinds
<1>2. /\ folders[f].open /\ folders' = [folders EXCEPT ![f] = NoFolder]
      /\ faults' = faults /\ dialog' = dialog
  BY DEF CloseFolder
<1>3. CASE folders[f].stream = 0
  <2>1. conns' = conns /\ streams' = streams
    BY <1>3 DEF CloseFolder
  <2>2. folders \in Seq(FolderRecord)
    BY NumberOfStreams
  <2>3. Fewer(folders, folders')
    BY <1>1, <1>2, <2>2 DEF Fewer
  <2> QED
    BY <1>2, <2>1, <2>3, OnlyFolders DEF IInv
<1>4. CASE folders[f].stream # 0
  <2>1. StreamClose(conns, streams, folders[f].stream)
    BY <1>4 DEF CloseFolder
  <2> QED
    BY <1>1, <1>2, <1>4, <2>1, FolderLeaves
<1> QED
  BY <1>3, <1>4

LEMMA MasterLostStep ==
  ASSUME IInv, NEW f \in 1 .. Len(folders), MasterLost(f)
  PROVE  IInv'
<1> DEFINE r == [folders[f] EXCEPT !.stream = 0]
<1>1. folders[f] \in FolderRecord
  <2>1. folders \in Seq(FolderRecord)
    BY NumberOfStreams
  <2> QED
    BY <2>1
<1>2. r \in FolderRecord /\ r.stream = 0
  BY <1>1 DEF FolderRecord
<1>3. folders' = [folders EXCEPT ![f] = r]
  BY DEF MasterLost
<1> HIDE DEF r
<1> QED
  BY <1>2, <1>3, FolderLeaves DEF MasterLost

\* The timer of a connection runs only when nobody uses it.
LEMMA CloseTimerStep ==
  ASSUME IInv, NEW i \in 1 .. Len(conns), CloseTimer(i)
  PROVE  IInv'
<1> DEFINE n == Len(streams)
           s == conns[i].stream
<1>1. /\ streams \in Seq(Stream) /\ n \in Nat /\ ConnsOK(conns, n)
      /\ conns \in Seq(Conn) /\ FoldersOK(folders, n) /\ Alone(folders)
      /\ AllCovered(conns, folders, n)
  BY NumberOfStreams
<1>2. /\ conns' = RemoveAt(conns, i) /\ streams' = MailClose(streams, s)
      /\ folders' = folders /\ faults' = faults /\ dialog' = dialog
      /\ conns[i].timer
  BY DEF CloseTimer, CloseConnection
<1>3. s \in 1 .. n /\ conns[i].refs = 0
  BY <1>1, <1>2 DEF ConnsOK
<1>4. Users(folders, s) = {} /\ Cardinality(Users(folders, s)) = 0
  <2>1. IsFiniteSet(Users(folders, s)) /\ Cardinality(Users(folders, s)) \in Nat
    BY <1>1, UsersCount
  <2>2. Cardinality(Users(folders, s)) + 0 <= 0
    BY <1>1, <1>3 DEF AllCovered, Covered
  <2> QED
    BY <2>1, <2>2, FS_EmptySet
<1> HIDE DEF n, s
<1>5. /\ ConnsOK(conns', n)
      /\ \A j \in 1 .. Len(conns') : conns'[j].stream # s
      /\ \A j \in 1 .. Len(conns') : \E k \in 1 .. Len(conns) : conns'[j] = conns[k]
      /\ \A fx, t : t # s /\ Covered(conns, fx, t, 0) => Covered(conns', fx, t, 0)
  BY <1>1, <1>2, ConnRemoved DEF s
<1>6. AllCovered(conns', folders, n)
  <2>1. Covered(conns', folders, s, 0)
    BY <1>4, <1>5 DEF Covered
  <2> QED
    BY <1>1, <1>5, <2>1 DEF AllCovered
<1>7. streams' \in Seq(Stream) /\ Len(streams') = n
  BY <1>1, <1>2, <1>3, StreamGone DEF n
<1>8. ASSUME Alive(conns, streams, folders)
      PROVE  Alive(conns', streams', folders)
  <2>1. Alive(conns', streams, folders)
    BY <1>5, <1>8 DEF Alive
  <2> QED
    BY <1>1, <1>2, <1>3, <1>4, <1>5, <2>1, StreamGone DEF n
<1>9. Sound(conns', streams', folders)
  BY <1>1, <1>5, <1>6, <1>7 DEF Sound
<1> QED
  BY <1>1, <1>2, <1>8, <1>9 DEF IInv

-----------------------------------------------------------------------------
(* The other actions.                                                      *)

LEMMA FailStep ==
  ASSUME IInv, NEW kind \in Kinds, NEW h \in Specs, Fail(kind, h)
  PROVE  IInv'
<1>1. folders' = Pinged(kind, h) /\ UNCHANGED <<conns, streams, faults, dialog>>
  BY DEF Fail
<1> QED
  BY <1>1, PingedFewer, OnlyFolders DEF IInv

LEMMA AskStep ==
  ASSUME IInv, NEW kind \in Kinds, NEW h \in Specs, Ask(kind, h)
  PROVE  IInv'
<1>1. /\ folders' = Pinged(kind, h) /\ UNCHANGED <<conns, streams, faults>>
      /\ dialog' \in Dialog
  BY DEF Ask, Dialog
<1> QED
  BY <1>1, PingedFewer, OnlyFolders DEF IInv

LEMMA ConnectStep ==
  ASSUME IInv, NEW kind \in Kinds, NEW h \in Specs, Connect(kind, h)
  PROVE  IInv'
<1>1. /\ Connected(kind, h, Found(h, HalfOpen(kind)) # {}, Pinged(kind, h))
      /\ faults' = faults /\ dialog' = dialog
  BY DEF Connect
<1> QED
  BY <1>1, PingedFewer, ConnectedStep DEF IInv

LEMMA AnswerStep ==
  ASSUME IInv, NEW store \in BOOLEAN, Answer(store)
  PROVE  IInv'
<1>1. /\ Connected(dialog.kind, dialog.host, dialog.known, folders)
      /\ faults' = faults /\ dialog' = NoDialog
  BY DEF Answer
<1>2. dialog.kind \in Kinds /\ dialog.host \in Specs
  BY DEF Answer, IInv, Dialog
<1>3. Fewer(folders, folders)
  <2>1. folders \in Seq(FolderRecord)
    BY NumberOfStreams
  <2> QED
    BY <2>1 DEF Fewer
<1> QED
  BY <1>1, <1>2, <1>3, ConnectedStep

\* What changes no connection, stream or folder.
LEMMA UnchangedStep ==
  ASSUME IInv, UNCHANGED <<conns, streams, folders, faults>>,
         dialog' # NoDialog => dialog' = dialog
  PROVE  IInv'
BY DEF IInv, Sound, ConnsOK, FoldersOK, AllCovered, Covered, Users, Alone, Reads, Alive

LEMMA PurgeStep ==
  ASSUME IInv, Purge
  PROVE  IInv'
<1> DEFINE n == Len(streams)
<1>1. UNCHANGED <<streams, folders, dialog>>
  BY DEF Purge
<1>2. CASE UNCHANGED <<conns, faults>>
  BY <1>1, <1>2, UnchangedStep
<1>3. ASSUME NEW i \in DOMAIN conns, conns' = [conns EXCEPT ![i].timer = FALSE],
             faults' = faults \cup {"unwritten"}
      PROVE  IInv'
  <2> DEFINE c == [conns[i] EXCEPT !.timer = FALSE]
  <2>1. /\ streams \in Seq(Stream) /\ n \in Nat /\ ConnsOK(conns, n)
        /\ conns \in Seq(Conn) /\ FoldersOK(folders, n) /\ Alone(folders)
        /\ AllCovered(conns, folders, n) /\ DOMAIN conns = 1 .. Len(conns)
    BY NumberOfStreams
  <2>2. i \in 1 .. Len(conns) /\ conns[i] \in Conn /\ conns[i].refs \in Nat
    BY <1>3, <2>1, ConnTypes
  <2>3. (conns[i].closing <=> conns[i].refs = 0) /\ conns[i].stream \in 1 .. n
    BY <2>1, <2>2 DEF ConnsOK
  <2>4. /\ c \in Conn /\ c.stream = conns[i].stream /\ c.refs = conns[i].refs
        /\ c.closing = conns[i].closing /\ ~c.timer
    BY <2>2 DEF Conn
  <2>5. conns' = [conns EXCEPT ![i] = c] /\ (c.closing <=> c.refs = 0)
    BY <1>3, <2>3, <2>4
  <2> HIDE DEF c, n
  <2>6. /\ ConnsOK(conns', n)
        /\ \A sx, fx : Alive(conns, sx, fx) => Alive(conns', sx, fx)
        /\ \A fx, t : t # c.stream /\ Covered(conns, fx, t, 0) => Covered(conns', fx, t, 0)
        /\ \A fx, k : Cardinality(Users(fx, c.stream)) + k <= c.refs
                        => Covered(conns', fx, c.stream, k)
    <3>1. Becomes(conns, conns', c, n)
      BY <2>1, <2>2, <2>4, <2>5, Replaced
    <3> QED
      BY <3>1 DEF Becomes
  <2>7. Cardinality(Users(folders, c.stream)) + 0 <= c.refs
    BY <2>1, <2>2, <2>3, <2>4 DEF AllCovered, Covered
  <2>8. AllCovered(conns', folders, n)
    BY <2>1, <2>6, <2>7 DEF AllCovered
  <2>9. Sound(conns', streams, folders)
    BY <2>1, <2>6, <2>8 DEF Sound, n
  <2> QED
    BY <1>1, <1>3, <2>1, <2>6, <2>9 DEF IInv
<1> QED
  BY <1>2, <1>3 DEF Purge

LEMMA DropStep ==
  ASSUME IInv, NEW s \in 1 .. Len(streams), Drop(s)
  PROVE  IInv'
<1> DEFINE x == [streams[s] EXCEPT !.up = FALSE]
<1>1. /\ streams \in Seq(Stream) /\ Len(streams) \in Nat
      /\ ConnsOK(conns, Len(streams)) /\ FoldersOK(folders, Len(streams))
      /\ AllCovered(conns, folders, Len(streams))
  BY NumberOfStreams
<1>2. streams[s] \in Stream
  BY <1>1
<1>3. x \in Stream /\ x.live = streams[s].live
  BY <1>2 DEF Stream
<1>4. streams' = [streams EXCEPT ![s] = x] /\ UNCHANGED <<conns, folders, faults, dialog>>
  BY DEF Drop
<1> HIDE DEF x
<1>5. /\ streams' \in Seq(Stream) /\ Len(streams') = Len(streams)
      /\ \A t \in 1 .. Len(streams) : streams'[t].live = streams[t].live
  BY <1>1, <1>3, <1>4
<1>6. /\ ConnsOK(conns, Len(streams')) /\ FoldersOK(folders, Len(streams'))
      /\ Alive(conns, streams, folders) => Alive(conns, streams', folders)
  BY <1>1, <1>5, LiveKept
<1>7. Sound(conns, streams', folders)
  BY <1>1, <1>5, <1>6 DEF Sound
<1> QED
  BY <1>4, <1>6, <1>7 DEF IInv, Alone, Reads

LEMMA ByeStep ==
  ASSUME IInv, NEW f \in 1 .. Len(folders), Bye(f)
  PROVE  IInv'
<1>1. UNCHANGED <<conns, streams, faults, dialog>>
  BY DEF Bye
<1>2. \E i \in DOMAIN conns : folders' = Notified(conns[i].owner)
  BY DEF Bye
<1> QED
  BY <1>1, <1>2, NotifiedFewer, OnlyFolders DEF IInv

LEMMA LostStep ==
  ASSUME IInv, NEW f \in 1 .. Len(folders), Lost(f)
  PROVE  IInv'
<1>1. /\ folders' = [folders EXCEPT ![f] = NoFolder] /\ faults \subseteq faults'
      /\ UNCHANGED <<conns, streams, dialog>>
  BY DEF Lost
<1>2. NoFolder \in FolderRecord /\ NoFolder.stream = 0 /\ ~NoFolder.open
  BY DEF NoFolder, FolderRecord, Kinds
<1>3. folders \in Seq(FolderRecord)
  BY NumberOfStreams
<1>4. Fewer(folders, folders')
  BY <1>1, <1>2, <1>3 DEF Fewer
<1> QED
  BY <1>1, <1>4, OnlyFolders DEF IInv

LEMMA RestartStep ==
  ASSUME IInv, Restart
  PROVE  IInv'
<1>1. /\ streams \in Seq(Stream) /\ Len(streams) \in Nat
      /\ FoldersOK(folders, Len(streams)) /\ folders \in Seq(FolderRecord)
      /\ Len(folders) \in Nat
      /\ DOMAIN streams = 1 .. Len(streams) /\ DOMAIN folders = 1 .. Len(folders)
  BY NumberOfStreams
<1>2. /\ conns' = <<>> /\ dialog' = NoDialog
      /\ streams' = [s \in 1 .. Len(streams) |-> NoStream]
      /\ folders' = [f \in 1 .. Len(folders) |-> NoFolder]
  BY <1>1 DEF Restart
<1>3. streams' \in Seq(Stream) /\ Len(streams') = Len(streams)
  BY <1>1, <1>2 DEF Stream, NoStream
<1>4. NoFolder \in FolderRecord /\ NoFolder.stream = 0 /\ ~NoFolder.open
  BY DEF NoFolder, FolderRecord, Kinds
<1>5. /\ folders' \in Seq(FolderRecord) /\ Len(folders') = Len(folders)
      /\ \A f \in 1 .. Len(folders') : ~folders'[f].open /\ folders'[f].stream = 0
  BY <1>1, <1>2, <1>4
<1>6. Alone(folders') /\ Alive(conns', streams', folders')
  BY <1>2, <1>5 DEF Alone, Reads, Alive
<1>7. \A t : Users(folders', t) = {}
  BY <1>5 DEF Users
<1>8. ASSUME NEW t PROVE Covered(conns', folders', t, 0)
  <2>1. Cardinality(Users(folders', t)) = 0
    BY <1>7, FS_EmptySet
  <2>2. 1 .. Len(conns') = {}
    BY <1>2
  <2> QED
    BY <2>1, <2>2 DEF Covered
<1>9. ConnsOK(conns', Len(streams')) /\ FoldersOK(folders', Len(streams'))
  BY <1>1, <1>2, <1>3, <1>5 DEF ConnsOK, FoldersOK
<1> QED
  BY <1>2, <1>3, <1>6, <1>8, <1>9 DEF IInv, Sound, AllCovered

\* Going off line: the references of the masters are given back, what then is
\* not used leaves the list and is freed.
Master(f) == folders[f].open /\ folders[f].kind = "dis"
Masters   == {folders[f].stream : f \in {g \in DOMAIN folders : Master(g)}}
Less(c)   == IF c.stream \in Masters THEN [c EXCEPT !.refs = @ - 1] ELSE c
Used      == {i \in DOMAIN conns : ~conns[i].closing /\ Less(conns[i]).refs > 0}
Kept      == {conns[i].stream : i \in Used}
Ended     == (Masters \cup {conns[i].stream : i \in DOMAIN conns}) \ Kept

\* What becomes of the streams, of the folders, and of the list, whose record k
\* was at at[k].
WentOffline(at) ==
  /\ streams' = [s \in 1 .. Len(streams) |-> IF s \in Ended THEN NoStream ELSE streams[s]]
  /\ folders' \in Seq(FolderRecord) /\ Len(folders') = Len(folders)
  /\ \A f \in 1 .. Len(folders) :
       /\ Master(f) => folders'[f].stream = 0
       /\ ~Master(f) => folders'[f] = folders[f]
       /\ folders'[f].open = folders[f].open /\ folders'[f].kind = folders[f].kind
  /\ conns' \in Seq(Conn) /\ Len(conns') = Cardinality(Used)
  /\ \A k \in 1 .. Cardinality(Used) :
       \A l \in 1 .. Cardinality(Used) : at[k] = at[l] => k = l
  /\ \A i \in Used : \E k \in 1 .. Cardinality(Used) : at[k] = i
  /\ \A k \in 1 .. Len(conns') :
       /\ at[k] \in Used /\ at[k] \in 1 .. Len(conns)
       /\ conns'[k].stream = conns[at[k]].stream
       /\ conns'[k].owner = conns[at[k]].owner
       /\ conns'[k].refs # 0 /\ ~conns'[k].closing /\ ~conns'[k].timer
       /\ conns'[k].refs = IF conns[at[k]].stream \in Masters
                           THEN conns[at[k]].refs - 1 ELSE conns[at[k]].refs

LEMMA OfflineList ==
  ASSUME IInv, GoOffline
  PROVE  /\ \E at : WentOffline(at)
         /\ UNCHANGED <<dialog, faults>>
<1> USE DEF Master, Masters, Less, Used, Kept, Ended
<1> DEFINE n == Len(streams)
<1>1. /\ streams \in Seq(Stream) /\ n \in Nat /\ ConnsOK(conns, n)
      /\ conns \in Seq(Conn) /\ FoldersOK(folders, n) /\ Alone(folders)
      /\ folders \in Seq(FolderRecord) /\ Len(folders) \in Nat /\ Len(conns) \in Nat
      /\ AllCovered(conns, folders, n)
      /\ DOMAIN conns = 1 .. Len(conns) /\ DOMAIN streams = 1 .. n
      /\ DOMAIN folders = 1 .. Len(folders)
  BY NumberOfStreams
<1>2. PICK at \in Ascending(Used) :
        conns' = [k \in 1 .. Cardinality(Used) |-> Less(conns[at[k]])]
  BY DEF GoOffline
<1>3. /\ streams' = [s \in 1 .. n |-> IF s \in Ended THEN NoStream ELSE streams[s]]
      /\ folders' = [f \in 1 .. Len(folders) |->
                       IF Master(f) THEN [folders[f] EXCEPT !.stream = 0] ELSE folders[f]]
      /\ UNCHANGED <<dialog, faults>>
  <2>1. /\ streams' = [s \in DOMAIN streams |-> IF s \in Ended THEN NoStream ELSE streams[s]]
        /\ folders' = [f \in DOMAIN folders |->
                         IF Master(f) THEN [folders[f] EXCEPT !.stream = 0] ELSE folders[f]]
        /\ UNCHANGED <<dialog, faults>>
    BY DEF GoOffline
  <2> HIDE DEF Ended, Master
  <2> QED
    BY <1>1, <2>1
<1>4. Cardinality(Used) \in Nat
  <2>1. IsFiniteSet(1 .. Len(conns))
    <3>1. 1 \in Int /\ Len(conns) \in Int
      BY <1>1
    <3> HIDE DEF Used
    <3> QED
      BY <3>1, FS_Interval
  <2>2. Used \subseteq 1 .. Len(conns)
    BY <1>1
  <2> HIDE DEF Used
  <2>3. IsFiniteSet(Used)
    BY <2>1, <2>2, FS_Subset
  <2> QED
    BY <2>3, FS_CardinalityType
\* The folders.
<1>5. /\ folders' \in Seq(FolderRecord) /\ Len(folders') = Len(folders)
      /\ \A f \in 1 .. Len(folders) :
           /\ Master(f) => folders'[f].stream = 0
           /\ ~Master(f) => folders'[f] = folders[f]
           /\ folders'[f].open = folders[f].open /\ folders'[f].kind = folders[f].kind
  <2> DEFINE r(f) == [folders[f] EXCEPT !.stream = 0]
  <2>1. \A f \in 1 .. Len(folders) : folders[f] \in FolderRecord
    BY <1>1
  <2>2. \A f \in 1 .. Len(folders) :
          /\ r(f) \in FolderRecord /\ r(f).stream = 0
          /\ r(f).open = folders[f].open /\ r(f).kind = folders[f].kind
    BY <2>1 DEF FolderRecord
  <2>3. folders' = [f \in 1 .. Len(folders) |-> IF Master(f) THEN r(f) ELSE folders[f]]
    BY <1>3
  <2> HIDE DEF r, Master
  <2> QED
    BY <1>1, <2>1, <2>2, <2>3
\* The list.
<1>6. \A k \in 1 .. Cardinality(Used) :
         /\ at[k] \in Used
         /\ \A l \in 1 .. Cardinality(Used) : at[k] = at[l] => k = l
  <2> HIDE DEF Used
  <2>1. /\ at \in [1 .. Cardinality(Used) -> Used]
        /\ \A k, l \in 1 .. Cardinality(Used) : k < l => at[k] < at[l]
    BY DEF Ascending
  <2>2. Used \subseteq Nat
    BY <1>1 DEF Used
  <2>3. \A k \in 1 .. Cardinality(Used) : at[k] \in Nat
    BY <2>1, <2>2
  <2> QED
    BY <1>4, <2>1, <2>3
<1>7. \A i \in Used : \E k \in 1 .. Cardinality(Used) : at[k] = i
  BY DEF Ascending
<1>8. \A i \in Used :
         /\ Less(conns[i]) \in Conn /\ Less(conns[i]).stream = conns[i].stream
         /\ Less(conns[i]).owner = conns[i].owner
         /\ Less(conns[i]).refs # 0 /\ ~Less(conns[i]).closing /\ ~Less(conns[i]).timer
         /\ Less(conns[i]).refs =
              IF conns[i].stream \in Masters THEN conns[i].refs - 1 ELSE conns[i].refs
  <2> SUFFICES ASSUME NEW i \in Used
               PROVE  /\ Less(conns[i]) \in Conn /\ Less(conns[i]).stream = conns[i].stream
                      /\ Less(conns[i]).owner = conns[i].owner
                      /\ Less(conns[i]).refs # 0 /\ ~Less(conns[i]).closing
                      /\ ~Less(conns[i]).timer
                      /\ Less(conns[i]).refs =
                           IF conns[i].stream \in Masters THEN conns[i].refs - 1
                           ELSE conns[i].refs
    OBVIOUS
  <2>1. conns[i] \in Conn /\ conns[i].refs \in Nat
    BY <1>1, ConnTypes
  <2>2. ~conns[i].closing /\ ~conns[i].timer /\ conns[i].refs # 0
    BY <1>1 DEF ConnsOK
  <2>3. conns[i].refs - 1 \in Nat
    BY <2>1, <2>2
  <2> HIDE DEF Masters
  <2>4. Less(conns[i]).refs > 0
    OBVIOUS
  <2>5. CASE conns[i].stream \in Masters
    <3>1. Less(conns[i]) = [conns[i] EXCEPT !.refs = conns[i].refs - 1]
      BY <2>5
    <3>2. /\ Less(conns[i]) \in Conn /\ Less(conns[i]).stream = conns[i].stream
          /\ Less(conns[i]).owner = conns[i].owner
          /\ Less(conns[i]).refs = conns[i].refs - 1
          /\ Less(conns[i]).closing = conns[i].closing
          /\ Less(conns[i]).timer = conns[i].timer
      BY <2>1, <2>3, <3>1 DEF Conn
    <3> HIDE DEF Less
    <3> QED
      BY <2>2, <2>3, <2>4, <2>5, <3>2
  <2>6. CASE conns[i].stream \notin Masters
    BY <2>1, <2>2, <2>6
  <2> QED
    BY <2>5, <2>6
<1> HIDE DEF Less, Used, Masters
<1>9. /\ conns' \in Seq(Conn) /\ Len(conns') = Cardinality(Used)
      /\ \A k \in 1 .. Cardinality(Used) : conns'[k] = Less(conns[at[k]])
  BY <1>2, <1>4, <1>6, <1>8
<1>10. Used \subseteq 1 .. Len(conns)
  BY <1>1 DEF Used
\* What the records that stay were.
<1>11. \A k \in 1 .. Len(conns') :
         /\ at[k] \in Used /\ at[k] \in 1 .. Len(conns)
         /\ conns'[k].stream = conns[at[k]].stream
         /\ conns'[k].owner = conns[at[k]].owner
         /\ conns'[k].refs # 0 /\ ~conns'[k].closing /\ ~conns'[k].timer
         /\ conns'[k].refs = IF conns[at[k]].stream \in Masters
                             THEN conns[at[k]].refs - 1 ELSE conns[at[k]].refs
  <2> SUFFICES ASSUME NEW k \in 1 .. Cardinality(Used)
               PROVE  /\ at[k] \in Used /\ at[k] \in 1 .. Len(conns)
                      /\ conns'[k].stream = conns[at[k]].stream
                      /\ conns'[k].owner = conns[at[k]].owner
                      /\ conns'[k].refs # 0 /\ ~conns'[k].closing /\ ~conns'[k].timer
                      /\ conns'[k].refs = IF conns[at[k]].stream \in Masters
                                          THEN conns[at[k]].refs - 1 ELSE conns[at[k]].refs
    BY <1>9
  <2>1. at[k] \in Used /\ at[k] \in 1 .. Len(conns) /\ conns'[k] = Less(conns[at[k]])
    BY <1>6, <1>9, <1>10
  <2> QED
    BY <1>8, <2>1
<1> HIDE DEF Ended, Master
<1>12. WentOffline(at)
  BY <1>3, <1>5, <1>6, <1>7, <1>9, <1>11 DEF WentOffline
<1> QED
  BY <1>3, <1>12

LEMMA GoOfflineStep ==
  ASSUME IInv, GoOffline
  PROVE  IInv'
<1> DEFINE n == Len(streams)
<1>1. /\ streams \in Seq(Stream) /\ n \in Nat /\ ConnsOK(conns, n)
      /\ conns \in Seq(Conn) /\ FoldersOK(folders, n) /\ Alone(folders)
      /\ folders \in Seq(FolderRecord) /\ Len(folders) \in Nat /\ Len(conns) \in Nat
      /\ AllCovered(conns, folders, n)
      /\ DOMAIN conns = 1 .. Len(conns) /\ DOMAIN streams = 1 .. n
      /\ DOMAIN folders = 1 .. Len(folders)
  BY NumberOfStreams
<1>2. PICK at : WentOffline(at)
  BY OfflineList
<1>3. /\ streams' = [s \in 1 .. n |-> IF s \in Ended THEN NoStream ELSE streams[s]]
      /\ UNCHANGED <<dialog, faults>>
  BY <1>2, OfflineList DEF WentOffline
\* The folders.
<1>4. /\ folders' \in Seq(FolderRecord) /\ Len(folders') = Len(folders)
      /\ \A f \in 1 .. Len(folders) :
           /\ Master(f) => folders'[f].stream = 0
           /\ ~Master(f) => folders'[f] = folders[f]
           /\ folders'[f].open = folders[f].open /\ folders'[f].kind = folders[f].kind
  BY <1>2 DEF WentOffline
<1> USE DEF Master, Masters, Less, Used, Kept, Ended
<1>5. Fewer(folders, folders')
  BY <1>4 DEF Fewer
<1>6. /\ FoldersOK(folders', n) /\ Alone(folders')
      /\ \A t \in 1 .. n : Users(folders', t) \subseteq Users(folders, t)
      /\ \A t \in 1 .. n : Covered(conns, folders', t, 0)
      /\ \A sx : Alive(conns, sx, folders) => Alive(conns, sx, folders')
  BY <1>1, <1>5, FewerFolders DEF AllCovered
\* A master's stream has a user less.
<1>7. \A t \in 1 .. n : t \in Masters => Covered(conns, folders', t, 1)
  <2> SUFFICES ASSUME NEW t \in 1 .. n, t \in Masters
               PROVE  Covered(conns, folders', t, 1)
    OBVIOUS
  <2>1. PICK f \in 1 .. Len(folders) : Master(f) /\ folders[f].stream = t
    BY <1>1
  <2> DEFINE left == Users(folders, t) \ {f}
  <2>2. f \in Users(folders, t) /\ Users(folders', t) \subseteq left
    <3>1. f \in Users(folders, t)
      BY <2>1 DEF Users
    <3>2. f \notin Users(folders', t)
      BY <1>4, <2>1 DEF Users
    <3> QED
      BY <1>6, <3>1, <3>2
  <2>3. IsFiniteSet(Users(folders, t)) /\ Cardinality(Users(folders, t)) \in Nat
    BY <1>1, UsersCount
  <2>4. IsFiniteSet(left) /\ Cardinality(left) = Cardinality(Users(folders, t)) - 1
    BY <2>2, <2>3, FS_RemoveElement
  <2>5. IsFiniteSet(Users(folders', t)) /\ Cardinality(Users(folders', t)) \in Nat
    BY <1>6, UsersCount
  <2>6. Cardinality(Users(folders', t)) <= Cardinality(left)
    BY <2>2, <2>4, FS_Subset
  <2>7. Cardinality(Users(folders', t)) + 1 <= Cardinality(Users(folders, t)) + 0
    BY <2>3, <2>4, <2>5, <2>6
  <2>8. Covered(conns, folders, t, 0) /\ \A i \in 1 .. Len(conns) : conns[i].refs \in Nat
    BY <1>1, ConnTypes DEF AllCovered
  <2> QED
    BY <2>3, <2>5, <2>7, <2>8 DEF Covered
\* What a record that leaves the list had to cover.
<1>8. ASSUME NEW i \in 1 .. Len(conns), i \notin Used
      PROVE  Users(folders', conns[i].stream) = {}
  <2> DEFINE t == conns[i].stream
  <2>1. conns[i] \in Conn /\ conns[i].refs \in Nat
    BY <1>1, ConnTypes
  <2>2. t \in 1 .. n /\ (conns[i].closing <=> conns[i].refs = 0)
    BY <1>1 DEF ConnsOK
  <2>3. IsFiniteSet(Users(folders', t)) /\ Cardinality(Users(folders', t)) \in Nat
    BY <1>6, UsersCount
  <2>4. Cardinality(Users(folders', t)) + 0 <= conns[i].refs
    BY <1>6, <2>2 DEF Covered
  <2>5. conns[i].refs = 0 \/ ~(Less(conns[i]).refs > 0)
    BY <1>8, <2>2
  <2>6. CASE conns[i].refs = 0
    BY <2>3, <2>4, <2>6, FS_EmptySet
  <2>7. CASE conns[i].refs # 0
    <3>1. t \in Masters
      BY <2>1, <2>5, <2>7
    <3>2. Less(conns[i]).refs = conns[i].refs - 1
      BY <2>1, <3>1 DEF Conn
    <3>3. conns[i].refs = 1
      BY <2>1, <2>5, <2>7, <3>2
    <3>4. Cardinality(Users(folders', t)) + 1 <= conns[i].refs
      BY <1>7, <2>2, <3>1 DEF Covered
    <3> QED
      BY <2>3, <3>3, <3>4, FS_EmptySet
  <2> QED
    BY <2>6, <2>7
<1> HIDE DEF Less, Used, Masters
\* The list.
<1>9. /\ conns' \in Seq(Conn) /\ Len(conns') = Cardinality(Used)
      /\ \A k \in 1 .. Cardinality(Used) :
           \A l \in 1 .. Cardinality(Used) : at[k] = at[l] => k = l
      /\ \A i \in Used : \E k \in 1 .. Cardinality(Used) : at[k] = i
  BY <1>2 DEF WentOffline
<1>10. \A k \in 1 .. Len(conns') :
         /\ at[k] \in Used /\ at[k] \in 1 .. Len(conns)
         /\ conns'[k].stream = conns[at[k]].stream
         /\ conns'[k].refs # 0 /\ ~conns'[k].closing /\ ~conns'[k].timer
         /\ conns'[k].refs = IF conns[at[k]].stream \in Masters
                             THEN conns[at[k]].refs - 1 ELSE conns[at[k]].refs
  BY <1>2 DEF WentOffline
<1>11. ConnsOK(conns', n)
  <2>1. ASSUME NEW k \in 1 .. Len(conns'), NEW l \in 1 .. Len(conns'),
               conns'[k].stream = conns'[l].stream
        PROVE  k = l
    <3>1. /\ at[k] \in 1 .. Len(conns) /\ at[l] \in 1 .. Len(conns)
          /\ conns[at[k]].stream = conns[at[l]].stream
      BY <1>10, <2>1
    <3>2. at[k] = at[l]
      BY <1>1, <3>1 DEF ConnsOK
    <3> QED
      BY <1>9, <3>2
  <2>2. ASSUME NEW k \in 1 .. Len(conns')
        PROVE  conns'[k].stream \in 1 .. n
    <3>1. \A i \in 1 .. Len(conns) : conns[i].stream \in 1 .. n
      BY <1>1 DEF ConnsOK
    <3> QED
      BY <1>10, <3>1
  <2> QED
    BY <1>9, <1>10, <2>1, <2>2 DEF ConnsOK
<1>12. ASSUME NEW t \in 1 .. n
       PROVE  Covered(conns', folders', t, 0)
  <2>1. IsFiniteSet(Users(folders', t)) /\ Cardinality(Users(folders', t)) \in Nat
    BY <1>6, UsersCount
  <2>2. ASSUME NEW k \in 1 .. Len(conns'), conns'[k].stream = t
        PROVE  Cardinality(Users(folders', t)) + 0 <= conns'[k].refs
    <3> DEFINE i == at[k]
    <3>1. /\ i \in Used /\ i \in 1 .. Len(conns) /\ conns[i].stream = t
          /\ conns'[k].refs = IF t \in Masters THEN conns[i].refs - 1 ELSE conns[i].refs
      BY <1>10, <2>2
    <3> HIDE DEF i
    <3>2. conns[i].refs \in Nat
      BY <1>1, <3>1, ConnTypes
    <3>3. CASE t \in Masters
      <4>1. Cardinality(Users(folders', t)) + 1 <= conns[i].refs
        BY <1>7, <3>1, <3>3 DEF Covered
      <4> QED
        BY <2>1, <3>1, <3>2, <3>3, <4>1
    <3>4. CASE t \notin Masters
      <4>1. Cardinality(Users(folders', t)) + 0 <= conns[i].refs
        BY <1>6, <3>1 DEF Covered
      <4> QED
        BY <3>1, <3>4, <4>1
    <3> QED
      BY <3>3, <3>4
  <2>3. ASSUME \A k \in 1 .. Len(conns') : conns'[k].stream # t
        PROVE  Cardinality(Users(folders', t)) + 0 <= 1
    <3>1. CASE \E i \in 1 .. Len(conns) : conns[i].stream = t
      <4>1. PICK i \in 1 .. Len(conns) : conns[i].stream = t
        BY <3>1
      <4>2. i \notin Used
        BY <1>9, <1>10, <2>3, <4>1
      <4>3. Users(folders', t) = {}
        BY <1>8, <4>1, <4>2
      <4> QED
        BY <4>3, FS_EmptySet
    <3>2. CASE \A i \in 1 .. Len(conns) : conns[i].stream # t
      BY <1>6, <3>2 DEF Covered
    <3> QED
      BY <3>1, <3>2
  <2> QED
    BY <2>2, <2>3 DEF Covered
\* What is freed.
<1>13. streams' \in Seq(Stream) /\ Len(streams') = n
  <2>1. NoStream \in Stream /\ \A t \in 1 .. n : streams[t] \in Stream
    <3>1. \A t \in 1 .. n : streams[t] \in Stream
      BY <1>1
    <3> QED
      BY <3>1 DEF NoStream, Stream
  <2> HIDE DEF Ended
  <2> QED
    BY <1>1, <1>3, <2>1
<1>14. \A t \in 1 .. n : t \in Ended => Users(folders', t) = {}
  <2> SUFFICES ASSUME NEW t \in 1 .. n, t \in Ended
               PROVE  Users(folders', t) = {}
    OBVIOUS
  <2>1. t \notin Kept /\ (t \in Masters \/ \E i \in 1 .. Len(conns) : conns[i].stream = t)
    OBVIOUS
  <2>2. CASE \E i \in 1 .. Len(conns) : conns[i].stream = t
    <3>1. PICK i \in 1 .. Len(conns) : conns[i].stream = t
      BY <2>2
    <3>2. i \notin Used
      BY <2>1, <3>1
    <3> QED
      BY <1>8, <3>1, <3>2
  <2>3. CASE t \in Masters /\ \A i \in 1 .. Len(conns) : conns[i].stream # t
    <3>1. IsFiniteSet(Users(folders', t)) /\ Cardinality(Users(folders', t)) \in Nat
      BY <1>6, UsersCount
    <3>2. Cardinality(Users(folders', t)) + 1 <= 1
      BY <1>7, <2>3 DEF Covered
    <3> QED
      BY <3>1, <3>2, FS_EmptySet
  <2> QED
    BY <2>1, <2>2, <2>3
<1>15. ASSUME Alive(conns, streams, folders)
       PROVE  Alive(conns', streams', folders')
  <2>1. Alive(conns, streams, folders')
    BY <1>6, <1>15
  <2>2. \A t \in 1 .. n : t \notin Ended => streams'[t] = streams[t]
    BY <1>3
  <2>3. \A k \in 1 .. Len(conns') : streams'[conns'[k].stream].live
    <3> SUFFICES ASSUME NEW k \in 1 .. Len(conns')
                 PROVE  streams'[conns'[k].stream].live
      OBVIOUS
    <3>1. at[k] \in Used /\ conns'[k].stream = conns[at[k]].stream /\ at[k] \in 1 .. Len(conns)
      BY <1>10
    <3>2. conns'[k].stream \in Kept /\ conns'[k].stream \in 1 .. n
      BY <1>1, <3>1 DEF ConnsOK
    <3>3. streams'[conns'[k].stream] = streams[conns'[k].stream]
      BY <2>2, <3>2
    <3> QED
      BY <2>1, <3>1, <3>3 DEF Alive
  <2>4. ASSUME NEW f \in 1 .. Len(folders'), folders'[f].open, folders'[f].stream # 0
        PROVE  streams'[folders'[f].stream].live
    <3>1. folders'[f].stream \in 1 .. n
      BY <1>1, <1>6, <2>4 DEF FoldersOK
    <3>2. f \in Users(folders', folders'[f].stream)
      BY <2>4 DEF Users
    <3>3. streams'[folders'[f].stream] = streams[folders'[f].stream]
      BY <1>14, <2>2, <3>1, <3>2
    <3> QED
      BY <2>1, <2>4, <3>3 DEF Alive
  <2> QED
    BY <2>3, <2>4 DEF Alive
<1> HIDE DEF n
<1>16. AllCovered(conns', folders', n)
  BY <1>12 DEF AllCovered
<1>17. Sound(conns', streams', folders')
  BY <1>6, <1>11, <1>13, <1>16 DEF Sound
<1> QED
  BY <1>3, <1>6, <1>15, <1>17 DEF IInv

-----------------------------------------------------------------------------
(* The theorems.                                                           *)

LEMMA InitIInv == Init => IInv
<1> SUFFICES ASSUME Init PROVE IInv
  OBVIOUS
<1>1. conns = <<>> /\ streams = <<>> /\ folders = <<>> /\ dialog = NoDialog
  BY DEF Init
<1>2. /\ conns \in Seq(Conn) /\ streams \in Seq(Stream) /\ folders \in Seq(FolderRecord)
      /\ Len(conns) = 0 /\ Len(streams) = 0 /\ Len(folders) = 0
  BY <1>1
<1>3. 1 .. 0 = {}
  OBVIOUS
<1> QED
  BY <1>1, <1>2, <1>3
     DEF IInv, Sound, ConnsOK, FoldersOK, AllCovered, Alone, Alive

LEMMA NextIInv == IInv /\ [Next]_vars => IInv'
<1> SUFFICES ASSUME IInv, [Next]_vars PROVE IInv'
  OBVIOUS
<1>1. DOMAIN conns = 1 .. Len(conns) /\ DOMAIN streams = 1 .. Len(streams)
      /\ DOMAIN folders = 1 .. Len(folders)
  BY NumberOfStreams
<1>2. ASSUME NEW kind \in Kinds, NEW h \in Specs,
             Reuse(kind, h) \/ Connect(kind, h) \/ Fail(kind, h) \/ Ask(kind, h)
      PROVE  IInv'
  BY <1>2, ReuseStep, ConnectStep, FailStep, AskStep
<1>3. ASSUME NEW store \in BOOLEAN, Answer(store)
      PROVE  IInv'
  BY <1>3, AnswerStep
<1>4. ASSUME NEW f \in DOMAIN folders,
             CloseFolder(f) \/ Bye(f) \/ Lost(f) \/ MasterLost(f)
      PROVE  IInv'
  BY <1>1, <1>4, CloseFolderStep, ByeStep, LostStep, MasterLostStep
<1>5. CASE GiveUp
  BY <1>5, UnchangedStep DEF GiveUp
<1>6. CASE GoOffline
  BY <1>6, GoOfflineStep
<1>7. CASE Purge
  BY <1>7, PurgeStep
<1>8. CASE Restart
  BY <1>8, RestartStep
<1>9. ASSUME NEW i \in DOMAIN conns, CloseTimer(i)
      PROVE  IInv'
  BY <1>1, <1>9, CloseTimerStep
<1>10. ASSUME NEW i \in DOMAIN cache, EraseTimer(i)
       PROVE  IInv'
  BY <1>10, UnchangedStep DEF EraseTimer
<1>11. ASSUME NEW s \in DOMAIN streams, Drop(s)
       PROVE  IInv'
  BY <1>1, <1>11, DropStep
<1>12. CASE UNCHANGED vars
  BY <1>12, UnchangedStep DEF vars
<1> QED
  BY <1>2, <1>3, <1>4, <1>5, <1>6, <1>7, <1>8, <1>9, <1>10, <1>11, <1>12
     DEF Next, User, Events

\* The lists of connections, streams and folders fit together at any time: each
\* connection counts at least the folders that have its stream (Std_StreamOpen
\* and Std_StreamClose), and a timer runs only for a connection nobody uses.
THEOREM Invariance == Spec => []IInv
<1> QED
  BY InitIInv, NextIInv, PTL DEF Spec

\* Two folders never read one stream: Std_StreamOpen takes a stream into use
\* again for a mailbox only if its connection is closing, that is unused.
THEOREM OneReader == Spec => []OneOwner
<1>1. IInv => OneOwner
  <2> SUFFICES ASSUME IInv PROVE OneOwner
    OBVIOUS
  <2>1. DOMAIN folders = 1 .. Len(folders) /\ Alone(folders)
    BY NumberOfStreams
  <2> QED
    BY <2>1 DEF OneOwner, Alone, Reads, InUse
<1> QED
  BY <1>1, Invariance, PTL

\* No folder that is open works on a freed stream, whatever timers, ends of other
\* folders and the going off line do, unless a connection broke while mail_open
\* took its stream into use again.
THEOREM StreamsInUseLive == Spec => []StreamsLive
<1>1. IInv => StreamsLive
  <2> SUFFICES ASSUME IInv PROVE StreamsLive
    OBVIOUS
  <2>1. DOMAIN folders = 1 .. Len(folders)
    BY NumberOfStreams
  <2> QED
    BY <2>1 DEF IInv, StreamsLive, Alive, InUse
<1> QED
  BY <1>1, Invariance, PTL

-----------------------------------------------------------------------------
(* The passwords.                                                          *)

Entry == [spec : Specs, onDisk : BOOLEAN, token : Tokens]

\* The list c and the file f, once it has been read; l: it was left behind.
Remembered(c, f, l) ==
  /\ c \in Seq(Entry) /\ f \in Seq(Specs)
  /\ \A i, j \in 1 .. Len(c) : c[i].spec = c[j].spec => i = j
  /\ \A i, j \in 1 .. Len(f) : f[i] = f[j] => i = j
  /\ \A i \in 1 .. Len(c) : ~c[i].onDisk =>
       /\ ~l => \A j \in 1 .. Len(f) : f[j] # c[i].spec
       /\ PwTimeout => c[i].token = "set"
  /\ \A i \in 1 .. Len(c) : c[i].token = "set" => ~c[i].onDisk
  /\ ~l => \A j \in 1 .. Len(f) :
             \E i \in 1 .. Len(c) : c[i].onDisk /\ c[i].spec = f[j]

\* Until then the list is empty.
Unread ==
  /\ cache = <<>> /\ file \in Seq(Specs) /\ leftover = FALSE
  /\ \A i, j \in 1 .. Len(file) : file[i] = file[j] => i = j

\* The dialog asks for a password that is not in memory.
Asked ==
  dialog # NoDialog /\ ~dialog.known =>
    /\ initialized /\ dialog.host \in Specs
    /\ \A i \in 1 .. Len(cache) : cache[i].spec # dialog.host

PwInv ==
  /\ {initialized, leftover} \subseteq BOOLEAN
  /\ IF initialized THEN Remembered(cache, file, leftover) ELSE Unread
  /\ Asked

\* What WriteDisk writes: the specifications of the entries to be stored, in
\* their order.
LEMMA StoredSpecs ==
  ASSUME NEW c \in Seq(Entry)
  PROVE  /\ Stored(c) \in Seq(Specs)
         /\ \E g \in [1 .. Len(Stored(c)) -> 1 .. Len(c)] :
              /\ \A i \in 1 .. Len(Stored(c)) :
                   c[g[i]].onDisk /\ Stored(c)[i] = c[g[i]].spec
              /\ \A i, j \in 1 .. Len(Stored(c)) : i < j => g[i] < g[j]
              /\ \A k \in 1 .. Len(c) :
                   c[k].onDisk => \E i \in 1 .. Len(Stored(c)) : g[i] = k
<1> DEFINE I == {i \in DOMAIN c : c[i].onDisk}
           t == Selected(c, I)
           u == [i \in DOMAIN t |-> t[i].spec]
<1>1. Stored(c) = u
  BY DEF Stored
<1>2. t \in Seq(Entry) /\ Selects(t, c, I, Len(c))
  <2> HIDE DEF I
  <2> QED
    BY SelectedSelects
<1>3. PICK g \in [1 .. Len(t) -> I \cap (1 .. Len(c))] :
        /\ \A i \in 1 .. Len(t) : t[i] = c[g[i]]
        /\ \A i, j \in 1 .. Len(t) : i < j => g[i] < g[j]
        /\ \A k \in I \cap (1 .. Len(c)) : \E i \in 1 .. Len(t) : g[i] = k
  <2> HIDE DEF I, t
  <2> QED
    BY <1>2 DEF Selects
<1>4. \A k \in I : k \in 1 .. Len(c) /\ c[k].onDisk
  OBVIOUS
<1>5. \A k \in 1 .. Len(c) : c[k].onDisk => k \in I
  OBVIOUS
<1> HIDE DEF I, t
<1>6. DOMAIN t = 1 .. Len(t) /\ Len(t) \in Nat
  BY <1>2
<1>7. \A i \in 1 .. Len(t) : t[i].spec \in Specs
  <2> TAKE i \in 1 .. Len(t)
  <2>1. t[i] \in Entry
    BY <1>2
  <2> QED
    BY <2>1 DEF Entry
<1>8. u \in Seq(Specs) /\ Len(u) = Len(t)
  BY <1>6, <1>7
<1>9. \A i \in 1 .. Len(t) : u[i] = t[i].spec
  BY <1>6
<1> HIDE DEF u
<1>10. g \in [1 .. Len(u) -> 1 .. Len(c)]
  BY <1>3, <1>8
<1>11. \A i \in 1 .. Len(u) : c[g[i]].onDisk /\ u[i] = c[g[i]].spec
  <2> TAKE i \in 1 .. Len(u)
  <2>1. i \in 1 .. Len(t) /\ g[i] \in I
    BY <1>3, <1>8
  <2>2. t[i] = c[g[i]] /\ u[i] = t[i].spec
    BY <1>3, <1>9, <2>1
  <2> QED
    BY <1>4, <2>1, <2>2
<1>12. \A i, j \in 1 .. Len(u) : i < j => g[i] < g[j]
  BY <1>3, <1>8
<1>13. \A k \in 1 .. Len(c) : c[k].onDisk => \E i \in 1 .. Len(u) : g[i] = k
  BY <1>3, <1>5, <1>8
<1> QED
  BY <1>1, <1>8, <1>10, <1>11, <1>12, <1>13

\* The front of a sequence.
LEMMA FrontOf ==
  ASSUME NEW S, NEW s \in Seq(S), NEW p \in Prefixes(s)
  PROVE  /\ p \in Seq(S) /\ Len(p) \in Nat /\ Len(p) <= Len(s)
         /\ \A i \in 1 .. Len(p) : i \in 1 .. Len(s) /\ p[i] = s[i]
         /\ Len(p) = Len(s) => p = s
<1>1. PICK l \in 0 .. Len(s) : p = SubSeq(s, 1, l)
  BY DEF Prefixes
<1>2. p \in Seq(S) /\ Len(p) = l /\ \A i \in 1 .. l : p[i] = s[i]
  BY <1>1
<1>3. l \in Nat /\ l <= Len(s) /\ Len(s) \in Nat
  BY <1>1
<1>5. \A i \in 1 .. Len(p) : i \in 1 .. Len(s) /\ p[i] = s[i]
  BY <1>2, <1>3
<1>4. Len(p) = Len(s) => p = s
  <2> SUFFICES ASSUME Len(p) = Len(s) PROVE p = s
    OBVIOUS
  <2>1. \A i \in 1 .. Len(s) : p[i] = s[i]
    BY <1>2
  <2>4. DOMAIN s = 1 .. Len(s)
    OBVIOUS
  <2>5. DOMAIN p = 1 .. Len(p)
    BY <1>2
  <2>2. DOMAIN p = 1 .. Len(s) /\ DOMAIN s = 1 .. Len(s)
    BY <2>4, <2>5
  <2>3. p = [i \in DOMAIN p |-> p[i]] /\ s = [i \in DOMAIN s |-> s[i]]
    BY <1>2
  <2> QED
    BY <2>1, <2>2, <2>3
<1> QED
  BY <1>2, <1>3, <1>4, <1>5

\* A list and the file written from it.
LEMMA WrittenRemembered ==
  ASSUME NEW c \in Seq(Entry),
         \A i, j \in 1 .. Len(c) : c[i].spec = c[j].spec => i = j,
         \A i \in 1 .. Len(c) : ~c[i].onDisk /\ PwTimeout => c[i].token = "set",
         \A i \in 1 .. Len(c) : c[i].token = "set" => ~c[i].onDisk,
         NEW f \in Prefixes(Stored(c))
  PROVE  Remembered(c, f, FALSE)
<1>1. PICK g \in [1 .. Len(Stored(c)) -> 1 .. Len(c)] :
        /\ \A i \in 1 .. Len(Stored(c)) :
             c[g[i]].onDisk /\ Stored(c)[i] = c[g[i]].spec
        /\ \A i, j \in 1 .. Len(Stored(c)) : i < j => g[i] < g[j]
  BY StoredSpecs
<1>2. /\ f \in Seq(Specs) /\ Len(f) \in Nat /\ Len(c) \in Nat
      /\ \A i \in 1 .. Len(f) : i \in 1 .. Len(Stored(c)) /\ f[i] = Stored(c)[i]
  BY StoredSpecs, FrontOf
<1>3. \A i \in 1 .. Len(f) :
        g[i] \in 1 .. Len(c) /\ c[g[i]].onDisk /\ f[i] = c[g[i]].spec
  BY <1>1, <1>2
<1>4. ASSUME NEW i \in 1 .. Len(f), NEW j \in 1 .. Len(f), f[i] = f[j]
      PROVE  i = j
  <2>1. g[i] = g[j]
    BY <1>3, <1>4
  <2>2. ~(i < j) /\ ~(j < i)
    BY <1>1, <1>2, <1>3, <2>1
  <2> QED
    BY <1>2, <2>2
<1>5. ASSUME NEW i \in 1 .. Len(c), ~c[i].onDisk, NEW j \in 1 .. Len(f)
      PROVE  f[j] # c[i].spec
  BY <1>3, <1>5
<1>6. \A j \in 1 .. Len(f) : \E i \in 1 .. Len(c) : c[i].onDisk /\ c[i].spec = f[j]
  BY <1>3
<1> QED
  BY <1>2, <1>4, <1>5, <1>6 DEF Remembered

\* The list made of the lines p of the file f.
LEMMA LinesRemembered ==
  ASSUME NEW f \in Seq(Specs), \A i, j \in 1 .. Len(f) : f[i] = f[j] => i = j,
         NEW p \in Prefixes(f),
         NEW c, c = Reverse([i \in DOMAIN p |-> FromLine(p[i])])
  PROVE  Len(c) = Len(p) /\ Remembered(c, f, Len(c) < Len(f))
<1> DEFINE n == Len(p)
           r == [i \in DOMAIN p |-> FromLine(p[i])]
<1>1. /\ p \in Seq(Specs) /\ n \in Nat /\ n <= Len(f) /\ DOMAIN p = 1 .. n
      /\ \A i \in 1 .. n : i \in 1 .. Len(f) /\ p[i] = f[i]
      /\ n = Len(f) => p = f
  BY FrontOf
<1>2. c = Reverse(r)
  OBVIOUS
<1>3. Len(r) = n
  BY <1>1
<1> HIDE DEF r
<1>4. c = [i \in 1 .. n |-> r[n - i + 1]]
  BY <1>2, <1>3 DEF Reverse
<1>5. ASSUME NEW i \in 1 .. n
      PROVE  n - i + 1 \in 1 .. n /\ c[i] = FromLine(p[n - i + 1])
  <2>1. n - i + 1 \in 1 .. n
    BY <1>1
  <2>2. c[i] = r[n - i + 1]
    BY <1>4
  <2> QED
    BY <1>1, <2>1, <2>2 DEF r
<1>6. ASSUME NEW i \in 1 .. n
      PROVE  /\ c[i] \in Entry /\ c[i].spec = p[n - i + 1]
             /\ c[i].onDisk /\ c[i].token = "unwritten"
  <2> DEFINE x == p[n - i + 1]
  <2>1. x \in Specs
    BY <1>1, <1>5
  <2>2. c[i] = [spec |-> x, onDisk |-> TRUE, token |-> "unwritten"]
    BY <1>5 DEF FromLine
  <2> HIDE DEF x
  <2>3. c[i] \in Entry /\ c[i].spec = x /\ c[i].onDisk /\ c[i].token = "unwritten"
    BY ONLY <2>1, <2>2 DEF Entry, Tokens
  <2> QED
    BY <2>3 DEF x
<1>7. Len(c) = n /\ DOMAIN c = 1 .. n
  BY <1>1, <1>4
<1>8. c = [i \in 1 .. n |-> c[i]]
  BY <1>4
<1>9. c \in Seq(Entry)
  BY <1>1, <1>6, <1>8
<1>10. ASSUME NEW i \in 1 .. Len(c), NEW j \in 1 .. Len(c), c[i].spec = c[j].spec
       PROVE  i = j
  <2>1. p[n - i + 1] = p[n - j + 1]
    BY <1>6, <1>7, <1>10
  <2>2. f[n - i + 1] = f[n - j + 1] /\ {n - i + 1, n - j + 1} \subseteq 1 .. Len(f)
    BY <1>1, <1>5, <1>7, <2>1
  <2>3. n - i + 1 = n - j + 1
    BY <2>2
  <2> QED
    BY <1>1, <1>7, <2>3
<1>11. ASSUME n = Len(f), NEW j \in 1 .. n
       PROVE  \E i \in 1 .. n : c[i].onDisk /\ c[i].spec = f[j]
  <2>1. n - j + 1 \in 1 .. n /\ n - (n - j + 1) + 1 = j
    BY <1>1
  <2> QED
    BY <1>1, <1>6, <1>11, <2>1
<1>12. ~(Len(c) < Len(f)) => n = Len(f)
  BY <1>1, <1>7
<1> QED
  BY <1>6, <1>7, <1>9, <1>10, <1>11, <1>12 DEF Remembered

\* What ReadDisk finds.
LEMMA ReadRemembered ==
  ASSUME PwInv, NEW c \in ReadDisk
  PROVE  Remembered(c, file, leftover \/ Missed(c))
<1>1. CASE initialized
  <2>1. c = cache /\ (leftover \/ Missed(c)) = leftover
    BY <1>1 DEF PwInv, ReadDisk, Missed
  <2> QED
    BY <1>1, <2>1 DEF PwInv
<1>2. CASE ~initialized
  <2>1. /\ file \in Seq(Specs) /\ leftover = FALSE
        /\ \A i, j \in 1 .. Len(file) : file[i] = file[j] => i = j
    BY <1>2 DEF PwInv, Unread
  <2>2. PICK p \in Prefixes(file) : c = Reverse([i \in DOMAIN p |-> FromLine(p[i])])
    BY <1>2 DEF ReadDisk
  <2>3. Remembered(c, file, Len(c) < Len(file))
    BY <2>1, <2>2, LinesRemembered
  <2> QED
    BY <1>2, <2>1, <2>3 DEF Missed
<1> QED
  BY <1>1, <1>2

\* TouchEntry.
LEMMA TouchedEntry ==
  ASSUME NEW e \in Entry
  PROVE  /\ TouchEntry(e) \in Entry
         /\ TouchEntry(e).spec = e.spec /\ TouchEntry(e).onDisk = e.onDisk
         /\ e.onDisk => TouchEntry(e) = e
         /\ ~e.onDisk /\ PwTimeout => TouchEntry(e).token = "set"
         /\ TouchEntry(e).token = "set" => e.token = "set" \/ ~e.onDisk
<1>1. CASE e.onDisk
  BY <1>1 DEF TouchEntry
<1>2. CASE ~e.onDisk
  <2> DEFINE r == [e EXCEPT !.token = IF PwTimeout THEN "set" ELSE "none"]
  <2>1. /\ r \in Entry /\ r.spec = e.spec /\ r.onDisk = e.onDisk
        /\ PwTimeout => r.token = "set"
    BY DEF Entry, Tokens
  <2>2. TouchEntry(e) = r
    BY <1>2 DEF TouchEntry
  <2> HIDE DEF r
  <2> QED
    BY <1>2, <2>1, <2>2
<1> QED
  BY <1>1, <1>2

\* RatGetCachedPassword.
LEMMA TouchedRemembered ==
  ASSUME NEW c, NEW f, NEW l \in BOOLEAN, Remembered(c, f, l), NEW i \in 1 .. Len(c)
  PROVE  Remembered(Touched(c, i), f, l)
<1> DEFINE d == Touched(c, i)
<1>1. c \in Seq(Entry) /\ Len(c) \in Nat /\ DOMAIN c = 1 .. Len(c)
  BY DEF Remembered
<1>2. c[i] \in Entry
  BY <1>1
<1>3. d = [c EXCEPT ![i] = TouchEntry(c[i])]
  BY DEF Touched
<1> HIDE DEF d
<1>4. d \in Seq(Entry) /\ Len(d) = Len(c)
  BY <1>1, <1>2, <1>3, TouchedEntry
<1>5. \A j \in 1 .. Len(c) : d[j] = IF j = i THEN TouchEntry(c[i]) ELSE c[j]
  BY <1>1, <1>3
<1>6. ASSUME NEW j \in 1 .. Len(c)
      PROVE  /\ d[j].spec = c[j].spec /\ d[j].onDisk = c[j].onDisk
             /\ d[j].token = c[j].token \/ ~c[j].onDisk
             /\ ~c[j].onDisk /\ PwTimeout => d[j].token = "set"
  <2>1. CASE j = i
    BY <1>2, <1>5, <2>1, TouchedEntry
  <2>2. CASE j # i
    <3>1. d[j] = c[j]
      BY <1>5, <2>2
    <3>2. ~c[j].onDisk /\ PwTimeout => c[j].token = "set"
      BY DEF Remembered
    <3> QED
      BY <3>1, <3>2
  <2> QED
    BY <2>1, <2>2
<1>7. \A j, k \in 1 .. Len(d) : d[j].spec = d[k].spec => j = k
  BY <1>4, <1>6 DEF Remembered
<1>8. \A j \in 1 .. Len(d) : ~d[j].onDisk =>
        /\ ~l => \A k \in 1 .. Len(f) : f[k] # d[j].spec
        /\ PwTimeout => d[j].token = "set"
  BY <1>4, <1>6 DEF Remembered
<1>9. \A j \in 1 .. Len(d) : d[j].token = "set" => ~d[j].onDisk
  BY <1>4, <1>6 DEF Remembered
<1>10. ASSUME ~l, NEW k \in 1 .. Len(f)
       PROVE  \E j \in 1 .. Len(d) : d[j].onDisk /\ d[j].spec = f[k]
  <2>1. PICK j \in 1 .. Len(c) : c[j].onDisk /\ c[j].spec = f[k]
    BY <1>10 DEF Remembered
  <2> QED
    BY <1>4, <1>6, <2>1
<1>11. Remembered(d, f, l)
  BY <1>4, <1>7, <1>8, <1>9, <1>10 DEF Remembered
<1> QED
  BY <1>11 DEF d

\* The timer of an entry erases it.
LEMMA ErasedRemembered ==
  ASSUME NEW c, NEW f, NEW l \in BOOLEAN, Remembered(c, f, l),
         NEW i \in 1 .. Len(c), c[i].token = "set"
  PROVE  Remembered(RemoveAt(c, i), f, l)
<1> DEFINE d == RemoveAt(c, i)
           o(j) == IF j < i THEN j ELSE j + 1
<1>1. c \in Seq(Entry) /\ Len(c) \in Nat
  BY DEF Remembered
<1>2. /\ d \in Seq(Entry) /\ Len(d) = Len(c) - 1
      /\ \A j \in 1 .. Len(c) - 1 : d[j] = IF j < i THEN c[j] ELSE c[j + 1]
  BY <1>1, Removed
<1> HIDE DEF d
<1>3. \A j \in 1 .. Len(d) : o(j) \in 1 .. Len(c) /\ d[j] = c[o(j)]
  <2> TAKE j \in 1 .. Len(d)
  <2>1. j \in 1 .. Len(c) - 1 /\ j + 1 \in 1 .. Len(c) /\ j \in 1 .. Len(c)
    BY <1>1, <1>2
  <2> QED
    BY <1>2, <2>1
<1>4. \A j, k \in 1 .. Len(d) : o(j) = o(k) => j = k
  BY <1>1, <1>2
<1>5. ASSUME NEW j \in 1 .. Len(c), j # i PROVE \E k \in 1 .. Len(d) : o(k) = j
  <2>1. CASE j < i
    BY <1>1, <1>2, <2>1
  <2>2. CASE i < j
    <3>1. j - 1 \in 1 .. Len(d) /\ o(j - 1) = j
      BY <1>1, <1>2, <2>2
    <3> QED
      BY <3>1
  <2> QED
    BY <1>1, <1>5, <2>1, <2>2
<1> HIDE DEF o
<1>6. ASSUME NEW j \in 1 .. Len(d), NEW k \in 1 .. Len(d), d[j].spec = d[k].spec
      PROVE  j = k
  <2>1. o(j) \in 1 .. Len(c) /\ o(k) \in 1 .. Len(c) /\ c[o(j)].spec = c[o(k)].spec
    BY <1>3, <1>6
  <2>2. o(j) = o(k)
    BY <2>1 DEF Remembered
  <2> QED
    BY <1>4, <2>2
<1>7. ASSUME NEW j \in 1 .. Len(d), ~d[j].onDisk
      PROVE  /\ ~l => \A k \in 1 .. Len(f) : f[k] # d[j].spec
             /\ PwTimeout => d[j].token = "set"
  <2>1. o(j) \in 1 .. Len(c) /\ d[j] = c[o(j)]
    BY <1>3
  <2> QED
    BY <1>7, <2>1 DEF Remembered
<1>8. ASSUME NEW j \in 1 .. Len(d), d[j].token = "set"
      PROVE  ~d[j].onDisk
  <2>1. o(j) \in 1 .. Len(c) /\ d[j] = c[o(j)]
    BY <1>3
  <2> QED
    BY <1>8, <2>1 DEF Remembered
<1>9. ASSUME ~l, NEW k \in 1 .. Len(f)
      PROVE  \E j \in 1 .. Len(d) : d[j].onDisk /\ d[j].spec = f[k]
  <2>1. PICK j \in 1 .. Len(c) : c[j].onDisk /\ c[j].spec = f[k]
    BY <1>9 DEF Remembered
  <2>2. j # i
    BY <2>1 DEF Remembered
  <2>3. PICK m \in 1 .. Len(d) : o(m) = j
    BY <1>5, <2>2
  <2> QED
    BY <1>3, <2>1, <2>3
<1>10. f \in Seq(Specs) /\ \A j, k \in 1 .. Len(f) : f[j] = f[k] => j = k
  BY DEF Remembered
<1>11. Remembered(d, f, l)
  BY <1>2, <1>6, <1>7, <1>8, <1>9, <1>10 DEF Remembered
<1> QED
  BY <1>11 DEF d

\* A new entry in front of the list: the file is still as it was.
LEMMA HeadedRemembered ==
  ASSUME NEW c, NEW f, NEW l \in BOOLEAN, Remembered(c, f, l), NEW e \in Entry,
         \A i \in 1 .. Len(c) : c[i].spec # e.spec,
         ~e.onDisk /\ PwTimeout => e.token = "set", e.token = "set" => ~e.onDisk,
         NEW d \in Seq(Entry), Len(d) = Len(c) + 1, d[1] = e,
         \A j \in 1 .. Len(c) : d[j + 1] = c[j]
  PROVE  Remembered(d, f, l)
<1>1. c \in Seq(Entry) /\ Len(c) \in Nat /\ f \in Seq(Specs)
  BY DEF Remembered
<1>2. ASSUME NEW j \in 1 .. Len(d), j # 1
      PROVE  j - 1 \in 1 .. Len(c) /\ d[j] = c[j - 1]
  <2>1. j - 1 \in 1 .. Len(c) /\ j = (j - 1) + 1
    BY <1>1, <1>2
  <2> QED
    BY <2>1
<1>3. ASSUME NEW j \in 1 .. Len(d), NEW k \in 1 .. Len(d), d[j].spec = d[k].spec
      PROVE  j = k
  <2>1. CASE j = 1 \/ k = 1
    BY <1>2, <1>3, <2>1
  <2>2. CASE j # 1 /\ k # 1
    <3>1. /\ j - 1 \in 1 .. Len(c) /\ k - 1 \in 1 .. Len(c)
          /\ c[j - 1].spec = c[k - 1].spec
      BY <1>2, <1>3, <2>2
    <3>2. j - 1 = k - 1
      BY <3>1 DEF Remembered
    <3> QED
      BY <1>1, <3>2
  <2> QED
    BY <2>1, <2>2
<1>4. ASSUME ~l, NEW k \in 1 .. Len(f)
      PROVE  \E j \in 1 .. Len(c) : c[j].onDisk /\ c[j].spec = f[k]
  BY <1>4 DEF Remembered
<1>5. ASSUME ~l, NEW k \in 1 .. Len(f) PROVE f[k] # e.spec
  BY <1>4, <1>5
<1>6. ASSUME NEW j \in 1 .. Len(d)
      PROVE  /\ ~d[j].onDisk => /\ ~l => \A k \in 1 .. Len(f) : f[k] # d[j].spec
                                /\ PwTimeout => d[j].token = "set"
             /\ d[j].token = "set" => ~d[j].onDisk
  <2>1. CASE j = 1
    BY <1>5, <2>1
  <2>2. CASE j # 1
    <3>1. j - 1 \in 1 .. Len(c) /\ d[j] = c[j - 1]
      BY <1>2, <2>2
    <3> QED
      BY <3>1 DEF Remembered
  <2> QED
    BY <2>1, <2>2
<1>7. ASSUME ~l, NEW k \in 1 .. Len(f)
      PROVE  \E j \in 1 .. Len(d) : d[j].onDisk /\ d[j].spec = f[k]
  <2>1. PICK j \in 1 .. Len(c) : c[j].onDisk /\ c[j].spec = f[k]
    BY <1>4, <1>7
  <2>2. j + 1 \in 1 .. Len(d)
    BY <1>1
  <2> QED
    BY <2>1, <2>2
<1>8. \A j, k \in 1 .. Len(f) : f[j] = f[k] => j = k
  BY DEF Remembered
<1> QED
  BY <1>1, <1>3, <1>6, <1>7, <1>8 DEF Remembered

\* What RatCachePassword leaves, when the list with the new entry is d and the
\* file was f.
CachedInto(d, f, l, store) ==
  /\ store => /\ \A g \in Prefixes(Stored(d)) : Remembered(d, g, FALSE)
              /\ Remembered(d, f, l)
  /\ ~store => Remembered(Touched(d, 1), f, l)

\* RatCachePassword, of a mailbox whose password is not in memory.
LEMMA CachedRemembered ==
  ASSUME NEW c, NEW f, NEW l \in BOOLEAN, Remembered(c, f, l),
         NEW h \in Specs, NEW store \in BOOLEAN,
         \A i \in 1 .. Len(c) : c[i].spec # h,
         NEW new, new = [spec |-> h, onDisk |-> store, token |-> "none"],
         NEW d, d = <<new>> \o c
  PROVE  CachedInto(d, f, l, store)
<1>1. c \in Seq(Entry) /\ Len(c) \in Nat
  BY DEF Remembered
<1>2. new \in Entry /\ new.spec = h /\ new.onDisk = store /\ new.token = "none"
  BY DEF Entry, Tokens
<1>3. /\ d \in Seq(Entry) /\ Len(d) = Len(c) + 1 /\ d[1] = new
      /\ \A j \in 1 .. Len(c) : d[j + 1] = c[j]
  BY <1>1, <1>2, Headed
<1>4. CASE store
  <2>1. Remembered(d, f, l)
    BY <1>2, <1>3, <1>4, HeadedRemembered
  <2>2. /\ \A i, j \in 1 .. Len(d) : d[i].spec = d[j].spec => i = j
        /\ \A i \in 1 .. Len(d) : ~d[i].onDisk /\ PwTimeout => d[i].token = "set"
        /\ \A i \in 1 .. Len(d) : d[i].token = "set" => ~d[i].onDisk
    BY <2>1 DEF Remembered
  <2>3. ASSUME NEW g \in Prefixes(Stored(d)) PROVE Remembered(d, g, FALSE)
    BY <1>3, <2>2, WrittenRemembered
  <2> QED
    BY <1>4, <2>1, <2>3 DEF CachedInto
<1>5. CASE ~store
  <2> DEFINE e == Touched(d, 1)
  <2>1. e = [d EXCEPT ![1] = TouchEntry(new)] /\ 1 \in 1 .. Len(d)
    BY <1>1, <1>3 DEF Touched
  <2> HIDE DEF e
  <2>2. /\ TouchEntry(new) \in Entry /\ TouchEntry(new).spec = h
        /\ ~TouchEntry(new).onDisk /\ (PwTimeout => TouchEntry(new).token = "set")
    BY <1>2, <1>5, TouchedEntry
  <2>3. e \in Seq(Entry) /\ Len(e) = Len(c) + 1
    BY <1>3, <2>1, <2>2
  <2>4. DOMAIN d = 1 .. Len(d)
    BY <1>3
  <2>5. e[1] = TouchEntry(new)
    BY <2>1, <2>4
  <2>6. \A j \in 1 .. Len(d) : j # 1 => e[j] = d[j]
    BY <2>1, <2>4
  <2>7. ASSUME NEW j \in 1 .. Len(c) PROVE e[j + 1] = c[j]
    <3>1. j + 1 \in 1 .. Len(d) /\ j + 1 # 1
      BY <1>1, <1>3
    <3> QED
      BY <1>3, <2>6, <3>1
  <2>8. Remembered(e, f, l)
    BY <2>2, <2>3, <2>5, <2>7, HeadedRemembered
  <2> QED
    BY <1>5, <2>8 DEF e, CachedInto
<1> QED
  BY <1>4, <1>5

\* A password is fetched, or looked for in vain.
LEMMA GetCached ==
  ASSUME PwInv, NEW h, GetCachedPassword(h)
  PROVE  initialized' /\ leftover' \in BOOLEAN /\ Remembered(cache', file', leftover')
<1>1. PICK c \in ReadDisk :
        /\ Entries(c, h) # {}
        /\ cache' = Touched(c, Min(Entries(c, h)))
        /\ leftover' = (leftover \/ Missed(c))
  BY DEF GetCachedPassword
<1> DEFINE E == Entries(c, h)
<1>2. Remembered(c, file, leftover') /\ leftover' \in BOOLEAN
  BY <1>1, ReadRemembered
<1>3. E \subseteq 1 .. Len(c) /\ Len(c) \in Nat
  <2>1. c \in Seq(Entry)
    BY <1>2 DEF Remembered
  <2> QED
    BY <2>1 DEF Entries
<1>4. E # {} /\ initialized' = TRUE /\ file' = file /\ cache' = Touched(c, Min(E))
  BY <1>1 DEF GetCachedPassword
<1> HIDE DEF E
<1>5. Min(E) \in E
  <2>1. \E x \in E : \A y \in E : x <= y
    BY <1>3, <1>4, NatSetMin
  <2> QED
    BY <2>1 DEF Min
<1>6. Remembered(Touched(c, Min(E)), file, leftover')
  BY <1>2, <1>3, <1>5, TouchedRemembered
<1> QED
  BY <1>2, <1>4, <1>6

LEMMA NotCached ==
  ASSUME PwInv, NEW h, NoCachedPassword(h)
  PROVE  /\ initialized' /\ leftover' \in BOOLEAN
         /\ Remembered(cache', file', leftover')
         /\ \A i \in 1 .. Len(cache') : cache'[i].spec # h
<1>1. PICK c \in ReadDisk :
        Entries(c, h) = {} /\ cache' = c /\ leftover' = (leftover \/ Missed(c))
  BY DEF NoCachedPassword
<1>2. Remembered(c, file, leftover') /\ leftover' \in BOOLEAN
  BY <1>1, ReadRemembered
<1>3. initialized' = TRUE /\ file' = file
  BY DEF NoCachedPassword
<1>4. DOMAIN c = 1 .. Len(c)
  BY <1>2 DEF Remembered
<1> QED
  BY <1>1, <1>2, <1>3, <1>4 DEF Entries

LEMMA PwUnchanged ==
  ASSUME PwInv, UNCHANGED pwVars, dialog' = dialog \/ dialog' = NoDialog
  PROVE  PwInv'
<1>1. /\ cache' = cache /\ file' = file /\ initialized' = initialized
      /\ leftover' = leftover
  BY DEF pwVars
<1>2. Unread' <=> Unread
  BY <1>1 DEF Unread
<1>3. Asked'
  BY <1>1 DEF PwInv, Asked
<1> QED
  BY <1>1, <1>2, <1>3 DEF PwInv

LEMMA PwAnswer ==
  ASSUME PwInv, NEW store \in BOOLEAN, Answer(store)
  PROVE  PwInv'
<1>1. dialog # NoDialog /\ dialog' = NoDialog
  BY DEF Answer
<1>2. CASE dialog.known
  BY <1>1, <1>2, PwUnchanged DEF Answer
<1>3. CASE ~dialog.known
  <2> DEFINE h == dialog.host
             new == [spec |-> h, onDisk |-> store, token |-> "none"]
             d == <<new>> \o cache
  <2>1. /\ initialized /\ h \in Specs
        /\ \A i \in 1 .. Len(cache) : cache[i].spec # h
    BY <1>1, <1>3 DEF PwInv, Asked
  <2>2. Remembered(cache, file, leftover) /\ leftover \in BOOLEAN
    BY <2>1 DEF PwInv
  <2>3. RatCachePassword(h, store)
    BY <1>3 DEF Answer
  <2>4. PICK read \in ReadDisk :
          LET c     == <<new>> \o read
              apart == leftover \/ Missed(read) IN
          IF store THEN cache' = c /\ WriteDisk(c, apart)
          ELSE cache' = Touched(c, 1) /\ leftover' = apart /\ UNCHANGED file
    BY <2>3 DEF RatCachePassword
  <2>5. read = cache /\ (leftover \/ Missed(read)) = leftover
    BY <2>1, <2>2 DEF ReadDisk, Missed
  <2>6. /\ initialized' = TRUE
        /\ IF store
           THEN /\ cache' = d
                /\ \/ file' \in Prefixes(Stored(d)) /\ leftover' = FALSE
                   \/ file' = file /\ leftover' = leftover
           ELSE cache' = Touched(d, 1) /\ file' = file /\ leftover' = leftover
    BY <2>3, <2>4, <2>5 DEF RatCachePassword, WriteDisk
  <2>8. d = <<new>> \o cache /\ new = [spec |-> h, onDisk |-> store, token |-> "none"]
    OBVIOUS
  <2> HIDE DEF h, d, new
  <2>9. CachedInto(d, file, leftover, store)
    BY <2>1, <2>2, <2>8, CachedRemembered
  <2>10. Remembered(cache', file', leftover')
    BY <2>6, <2>9 DEF CachedInto
  <2>7. Asked'
    BY <1>1 DEF Asked
  <2> QED
    BY <2>6, <2>7, <2>10 DEF PwInv
<1> QED
  BY <1>2, <1>3

LEMMA PwErase ==
  ASSUME PwInv, NEW i \in DOMAIN cache, EraseTimer(i)
  PROVE  PwInv'
<1>1. /\ cache[i].token = "set" /\ cache' = RemoveAt(cache, i)
      /\ file' = file /\ initialized' = initialized /\ dialog' = dialog
      /\ leftover' = leftover
  BY DEF EraseTimer, ErasePasswd
<1>2. initialized
  BY DEF PwInv, Unread
<1>3. Remembered(cache, file, leftover) /\ leftover \in BOOLEAN
  BY <1>2 DEF PwInv
<1>4. cache \in Seq(Entry) /\ DOMAIN cache = 1 .. Len(cache) /\ Len(cache) \in Nat
  BY <1>3 DEF Remembered
<1>5. Remembered(cache', file', leftover')
  BY <1>1, <1>3, <1>4, ErasedRemembered
<1>6. /\ Len(RemoveAt(cache, i)) = Len(cache) - 1
      /\ \A j \in 1 .. Len(cache) - 1 :
           RemoveAt(cache, i)[j] = IF j < i THEN cache[j] ELSE cache[j + 1]
  BY <1>4, Removed
<1>7. \A j \in 1 .. Len(cache') : \E k \in 1 .. Len(cache) : cache'[j] = cache[k]
  <2> TAKE j \in 1 .. Len(cache')
  <2>1. j \in 1 .. Len(cache) - 1 /\ j \in 1 .. Len(cache) /\ j + 1 \in 1 .. Len(cache)
    BY <1>1, <1>4, <1>6
  <2> QED
    BY <1>1, <1>6, <2>1
<1>8. Asked'
  BY <1>1, <1>7 DEF PwInv, Asked
<1> QED
  BY <1>1, <1>2, <1>5, <1>8 DEF PwInv

LEMMA PwPurge ==
  ASSUME PwInv, Purge
  PROVE  PwInv'
<1> DEFINE c == <<>>
<1>1. /\ cache' = c /\ initialized' = TRUE /\ dialog' = NoDialog
      /\ \/ file' \in Prefixes(Stored(c)) /\ leftover' = FALSE
         \/ file' = file /\ leftover' = (file # <<>>)
  BY DEF Purge, PasswdCachePurge, WriteDisk, Idle
<1>2. c \in Seq(Entry) /\ Len(c) = 0
  OBVIOUS
<1> HIDE DEF c
<1>3. 1 .. Len(c) = {}
  BY <1>2
<1>4. CASE file' \in Prefixes(Stored(c)) /\ leftover' = FALSE
  <2>1. \A f \in Prefixes(Stored(c)) : Remembered(c, f, FALSE)
    BY <1>2, <1>3, WrittenRemembered
  <2> QED
    BY <1>1, <1>4, <2>1 DEF PwInv, Asked
<1>5. CASE file' = file /\ leftover' = (file # <<>>)
  <2>1. /\ file \in Seq(Specs)
        /\ \A i, j \in 1 .. Len(file) : file[i] = file[j] => i = j
    BY DEF PwInv, Remembered, Unread
  <2>2. ~leftover' => 1 .. Len(file) = {}
    <3>1. leftover' = (file # <<>>)
      BY <1>5
    <3>2. file = <<>> => Len(file) = 0
      OBVIOUS
    <3>3. Len(file) = 0 => 1 .. Len(file) = {}
      BY <2>1
    <3> QED
      BY <3>1, <3>2, <3>3
  <2>3. Remembered(c, file, leftover')
    BY <1>2, <1>3, <2>1, <2>2 DEF Remembered
  <2> QED
    BY <1>1, <1>5, <2>3 DEF PwInv, Asked
<1> QED
  BY <1>1, <1>4, <1>5

LEMMA PwRestarts ==
  ASSUME PwInv, Restart
  PROVE  PwInv'
<1>1. /\ cache' = <<>> /\ initialized' = FALSE /\ file' = file
      /\ leftover' = FALSE /\ dialog' = NoDialog
  BY DEF Restart, PwRestart
<1>2. file \in Seq(Specs) /\ \A i, j \in 1 .. Len(file) : file[i] = file[j] => i = j
  BY DEF PwInv, Remembered, Unread
<1> QED
  BY <1>1, <1>2 DEF PwInv, Unread, Asked

LEMMA PwAsk ==
  ASSUME PwInv, NEW kind \in Kinds, NEW h \in Specs, Ask(kind, h)
  PROVE  PwInv'
<1>1. NoCachedPassword(h) /\ dialog'.host = h
  BY DEF Ask
<1>2. /\ initialized' /\ Remembered(cache', file', leftover') /\ leftover' \in BOOLEAN
      /\ \A i \in 1 .. Len(cache') : cache'[i].spec # h
  BY <1>1, NotCached
<1>3. initialized' = TRUE
  BY <1>1 DEF NoCachedPassword
<1> QED
  BY <1>1, <1>2, <1>3 DEF PwInv, Asked

LEMMA PwGet ==
  ASSUME PwInv, NEW h, GetCachedPassword(h), dialog = NoDialog, dialog' = dialog
  PROVE  PwInv'
<1>1. initialized' = TRUE /\ Remembered(cache', file', leftover') /\ leftover' \in BOOLEAN
  BY GetCached DEF GetCachedPassword
<1> QED
  BY <1>1 DEF PwInv, Asked

LEMMA InitPwInv == Init => PwInv
<1> SUFFICES ASSUME Init PROVE PwInv
  OBVIOUS
<1>1. /\ cache = <<>> /\ file = <<>> /\ initialized = FALSE /\ leftover = FALSE
      /\ dialog = NoDialog
  BY DEF Init, PwInit
<1>2. <<>> \in Seq(Specs) /\ Len(<<>>) = 0
  OBVIOUS
<1>3. Unread
  BY <1>1, <1>2 DEF Unread
<1> QED
  BY <1>1, <1>3 DEF PwInv, Asked

LEMMA NextPwInv == PwInv /\ [Next]_vars => PwInv'
<1> SUFFICES ASSUME PwInv, [Next]_vars PROVE PwInv'
  OBVIOUS
<1>1. ASSUME NEW kind \in Kinds, NEW h \in Specs, Connect(kind, h) \/ Fail(kind, h)
      PROVE  PwInv'
  <2>1. dialog = NoDialog /\ dialog' = dialog
    BY <1>1 DEF Connect, Fail, NoConnection, Idle
  <2>2. GetCachedPassword(h) \/ UNCHANGED pwVars
    BY <1>1 DEF Connect, Fail
  <2> QED
    BY <2>1, <2>2, PwGet, PwUnchanged
<1>2. ASSUME NEW kind \in Kinds, NEW h \in Specs, Ask(kind, h)
      PROVE  PwInv'
  BY <1>2, PwAsk
<1>3. ASSUME NEW store \in BOOLEAN, Answer(store)
      PROVE  PwInv'
  BY <1>3, PwAnswer
<1>4. CASE Purge
  BY <1>4, PwPurge
<1>5. CASE Restart
  BY <1>5, PwRestarts
<1>6. ASSUME NEW i \in DOMAIN cache, EraseTimer(i)
      PROVE  PwInv'
  BY <1>6, PwErase
<1>7. ASSUME NEW kind \in Kinds, NEW h \in Specs, Reuse(kind, h)
      PROVE  PwInv'
  BY <1>7, PwUnchanged DEF Reuse, pwVars
<1>8. ASSUME NEW f \in DOMAIN folders,
             CloseFolder(f) \/ Bye(f) \/ Lost(f) \/ MasterLost(f)
      PROVE  PwInv'
  BY <1>8, PwUnchanged DEF CloseFolder, Bye, Lost, MasterLost, pwVars
<1>9. CASE GiveUp \/ GoOffline
  BY <1>9, PwUnchanged DEF GiveUp, GoOffline, pwVars
<1>10. ASSUME NEW i \in DOMAIN conns, CloseTimer(i)
       PROVE  PwInv'
  BY <1>10, PwUnchanged DEF CloseTimer, pwVars
<1>11. ASSUME NEW s \in DOMAIN streams, Drop(s)
       PROVE  PwInv'
  BY <1>11, PwUnchanged DEF Drop, pwVars
<1>12. CASE UNCHANGED vars
  BY <1>12, PwUnchanged DEF vars, pwVars
<1> QED
  BY <1>1, <1>2, <1>3, <1>4, <1>5, <1>6, <1>7, <1>8, <1>9, <1>10, <1>11, <1>12
     DEF Next, User, Events

\* There is one password for a mailbox in memory and one in the file, which is
\* read in the other direction (ReadDisk); what the user did not ask to store has
\* a timer (TouchEntry); at any time, for any mailboxes, whatever answers, timers,
\* purges, failures to read or write the file and restarts there are.  The file
\* holds nothing that is not remembered to be stored, unless it could not be read
\* or a purge could not open it (leftover), until it is written again or the next
\* process reads it.
THEOREM PasswordsKept == Spec => []Passwords
<1>1. PwInv => Passwords
  <2> SUFFICES ASSUME PwInv PROVE Passwords
    OBVIOUS
  <2>1. CASE ~initialized
    <3>1. cache = <<>> /\ DOMAIN cache = {} /\ DOMAIN file = 1 .. Len(file)
      BY <2>1 DEF PwInv, Unread
    <3>2. OnePerSpec
      BY <2>1, <3>1 DEF OnePerSpec, PwInv, Unread
    <3>3. Temporary /\ FileKnown
      BY <2>1, <3>1 DEF Temporary, FileKnown
    <3> QED
      BY <3>2, <3>3 DEF Passwords
  <2>2. CASE initialized
    <3>1. Remembered(cache, file, leftover)
      BY <2>2 DEF PwInv
    <3>2. /\ cache \in Seq(Entry) /\ DOMAIN cache = 1 .. Len(cache)
          /\ DOMAIN file = 1 .. Len(file)
      BY <3>1 DEF Remembered
    <3>3. OnePerSpec
      BY <3>1, <3>2 DEF OnePerSpec, Remembered
    <3>4. Temporary
      BY <3>1, <3>2 DEF Temporary, Remembered, ToSet
    <3>5. ASSUME ~leftover, NEW j \in 1 .. Len(file) PROVE file[j] \in ToSet(Stored(cache))
      <4>1. PICK k \in 1 .. Len(cache) : cache[k].onDisk /\ cache[k].spec = file[j]
        BY <3>1, <3>5 DEF Remembered
      <4>2. PICK g \in [1 .. Len(Stored(cache)) -> 1 .. Len(cache)] :
              /\ \A i \in 1 .. Len(Stored(cache)) : Stored(cache)[i] = cache[g[i]].spec
              /\ \E i \in 1 .. Len(Stored(cache)) : g[i] = k
        BY <3>2, <4>1, StoredSpecs
      <4>3. DOMAIN Stored(cache) = 1 .. Len(Stored(cache))
        BY <3>2, StoredSpecs
      <4> QED
        BY <4>1, <4>2, <4>3 DEF ToSet
    <3>6. FileKnown
      BY <3>2, <3>5 DEF FileKnown, ToSet
    <3> QED
      BY <3>3, <3>4, <3>6 DEF Passwords
  <2> QED
    BY <2>1, <2>2
<1> QED
  BY <1>1, InitPwInv, NextPwInv, PTL DEF Spec

-----------------------------------------------------------------------------
(* The invariant of the streams: no reference without a folder, no stream  *)
(* that is live without a record or a folder.                              *)

\* A timer runs for a connection that nobody uses.
Timed(cs) == \A i \in 1 .. Len(cs) : cs[i].closing => cs[i].timer

\* The references to stream s are those of its folders and k more; a live stream
\* that is not on the list has a folder or is one of the k.
Owed(cs, ss, fs, s, k) ==
  /\ \A i \in 1 .. Len(cs) :
       cs[i].stream = s => cs[i].refs <= Cardinality(Users(fs, s)) + k
  /\ ss[s].live /\ (\A i \in 1 .. Len(cs) : cs[i].stream # s)
       => 1 <= Cardinality(Users(fs, s)) + k

Settled(cs, ss, fs) ==
  Timed(cs) /\ \A s \in 1 .. Len(ss) : Owed(cs, ss, fs, s, 0)

\* All but the stream s, which somebody has taken who has no folder yet or no more.
Settling(cs, ss, fs, s) ==
  /\ Timed(cs) /\ Owed(cs, ss, fs, s, 1)
  /\ \A t \in 1 .. Len(ss) : t # s => Owed(cs, ss, fs, t, 0)

Forgets == {"lost", "broken", "unwritten"}

NoneForgotten == faults \cap Forgets = {} => Settled(conns, streams, folders)

-----------------------------------------------------------------------------
(* Std_StreamClose, and the callers of Std_StreamOpen.                     *)

\* A record is replaced by one of the same stream.
LEMMA OwedReplaced ==
  ASSUME NEW cs \in Seq(Conn), NEW i \in 1 .. Len(cs), NEW n, ConnsOK(cs, n),
         NEW c \in Conn, c.stream = cs[i].stream, NEW cs2, cs2 = [cs EXCEPT ![i] = c],
         NEW ss, NEW fs, NEW s, s = c.stream, NEW k,
         c.refs <= Cardinality(Users(fs, s)) + k, c.closing => c.timer, Timed(cs)
  PROVE  /\ Timed(cs2) /\ Owed(cs2, ss, fs, s, k)
         /\ \A t : t # s /\ Owed(cs, ss, fs, t, 0) => Owed(cs2, ss, fs, t, 0)
<1>1. /\ Len(cs2) = Len(cs) /\ cs2[i] = c
      /\ \A j \in 1 .. Len(cs) : j # i => cs2[j] = cs[j]
  OBVIOUS
<1>2. \A j \in 1 .. Len(cs) : cs2[j].stream = cs[j].stream
  BY <1>1
<1>3. \A j \in 1 .. Len(cs2) : cs2[j].stream = s => cs2[j] = c
  BY <1>1, <1>2 DEF ConnsOK
<1>4. Timed(cs2)
  BY <1>1 DEF Timed
<1>5. Owed(cs2, ss, fs, s, k)
  BY <1>1, <1>3 DEF Owed
<1>6. \A t : t # s /\ Owed(cs, ss, fs, t, 0) => Owed(cs2, ss, fs, t, 0)
  BY <1>1, <1>2 DEF Owed
<1> QED
  BY <1>4, <1>5, <1>6

\* The stream of s is freed, and no record of it is left.
LEMMA OwedFreed ==
  ASSUME NEW ss \in Seq(Stream), NEW s \in 1 .. Len(ss), NEW cs, NEW cs2, NEW fs,
         Timed(cs2),
         \A j \in 1 .. Len(cs2) : cs2[j].stream # s,
         \A t \in 1 .. Len(ss) : t # s => Owed(cs2, ss, fs, t, 0)
  PROVE  Settled(cs2, MailClose(ss, s), fs)
<1>1. /\ Len(MailClose(ss, s)) = Len(ss) /\ ~MailClose(ss, s)[s].live
      /\ \A t : t # s => MailClose(ss, s)[t] = ss[t]
  BY DEF MailClose, NoStream
<1>2. Owed(cs2, MailClose(ss, s), fs, s, 0)
  BY <1>1 DEF Owed
<1>3. \A t \in 1 .. Len(ss) : t # s => Owed(cs2, MailClose(ss, s), fs, t, 0)
  BY <1>1 DEF Owed
<1> QED
  BY <1>1, <1>2, <1>3 DEF Settled

\* A record leaves the list.
LEMMA OwedRemoved ==
  ASSUME NEW n, NEW cs, ConnsOK(cs, n), n \in Nat, NEW i \in 1 .. Len(cs),
         NEW cs2, cs2 = RemoveAt(cs, i), NEW s, s = cs[i].stream, NEW ss, NEW fs,
         Timed(cs)
  PROVE  /\ Timed(cs2) /\ \A j \in 1 .. Len(cs2) : cs2[j].stream # s
         /\ \A t : t # s /\ Owed(cs, ss, fs, t, 0) => Owed(cs2, ss, fs, t, 0)
<1>1. cs \in Seq(Conn) /\ Len(cs) \in Nat
  BY DEF ConnsOK
<1>2. /\ \A j \in 1 .. Len(cs2) : cs2[j].stream # s
      /\ \A j \in 1 .. Len(cs2) : \E k \in 1 .. Len(cs) : cs2[j] = cs[k]
  BY ConnRemoved
<1>3. /\ Len(cs2) = Len(cs) - 1
      /\ \A j \in 1 .. Len(cs) - 1 : cs2[j] = IF j < i THEN cs[j] ELSE cs[j + 1]
  BY <1>1, Removed
<1>4. ASSUME NEW k \in 1 .. Len(cs), k # i
      PROVE  \E j \in 1 .. Len(cs2) : cs2[j] = cs[k]
  <2>1. CASE k < i
    <3>1. k \in 1 .. Len(cs2) /\ cs2[k] = cs[k]
      BY <1>1, <1>3, <2>1
    <3> QED
      BY <3>1
  <2>2. CASE ~(k < i)
    <3>1. k - 1 \in 1 .. Len(cs2) /\ cs2[k - 1] = cs[k]
      BY <1>1, <1>3, <1>4, <2>2
    <3> QED
      BY <3>1
  <2> QED
    BY <2>1, <2>2
<1>5. Timed(cs2)
  BY <1>2 DEF Timed
<1>6. ASSUME NEW t, t # s, Owed(cs, ss, fs, t, 0)
      PROVE  Owed(cs2, ss, fs, t, 0)
  <2>1. \A j \in 1 .. Len(cs2) : cs2[j].stream = t => cs2[j].refs <= Cardinality(Users(fs, t)) + 0
    BY <1>2, <1>6 DEF Owed
  <2>2. ASSUME \A j \in 1 .. Len(cs2) : cs2[j].stream # t
        PROVE  \A k \in 1 .. Len(cs) : cs[k].stream # t
    BY <1>4, <1>6, <2>2
  <2> QED
    BY <1>6, <2>1, <2>2 DEF Owed
<1> QED
  BY <1>2, <1>5, <1>6

\* Who closes a stream takes his reference with him.
LEMMA CloseSettles ==
  ASSUME NEW cs, NEW ss \in Seq(Stream), NEW fs,
         ConnsOK(cs, Len(ss)), FoldersOK(fs, Len(ss)), NEW s \in 1 .. Len(ss),
         Settling(cs, ss, fs, s), NEW cs2, NEW ss2, Closes(cs, ss, s, cs2, ss2)
  PROVE  Settled(cs2, ss2, fs)
<1>1. cs \in Seq(Conn) /\ Len(ss) \in Nat
  BY DEF ConnsOK
<1>2. Cardinality(Users(fs, s)) \in Nat
  BY UsersCount
<1>3. CASE /\ \A i \in 1 .. Len(cs) : cs[i].stream # s
           /\ cs2 = cs /\ ss2 = MailClose(ss, s)
  BY <1>3, OwedFreed DEF Settling
<1>4. ASSUME NEW i \in 1 .. Len(cs), cs[i].stream = s, cs[i].refs > 1,
             cs2 = [cs EXCEPT ![i].refs = @ - 1], ss2 = ss
      PROVE  Settled(cs2, ss2, fs)
  <2> DEFINE c == [cs[i] EXCEPT !.refs = @ - 1]
  <2>1. cs[i] \in Conn /\ cs[i].refs \in Nat /\ cs[i].refs - 1 \in Nat
    BY <1>1, <1>4, ConnTypes
  <2>2. /\ c \in Conn /\ c.stream = s /\ c.refs = cs[i].refs - 1
        /\ c.closing = cs[i].closing /\ c.timer = cs[i].timer
    BY <1>4, <2>1 DEF Conn
  <2>3. cs2 = [cs EXCEPT ![i] = c]
    BY <1>4
  <2>4. cs[i].refs <= Cardinality(Users(fs, s)) + 1
    BY <1>4 DEF Settling, Owed
  <2> HIDE DEF c
  <2>5. c.refs <= Cardinality(Users(fs, s)) + 0 /\ (c.closing => c.timer)
    BY <1>2, <2>1, <2>2, <2>4 DEF Settling, Timed
  <2>6. /\ Timed(cs2) /\ Owed(cs2, ss, fs, s, 0)
        /\ \A t : t # s /\ Owed(cs, ss, fs, t, 0) => Owed(cs2, ss, fs, t, 0)
    <3>1. c.stream = cs[i].stream /\ s = c.stream /\ Timed(cs)
      BY <1>4, <2>2 DEF Settling
    <3> QED
      BY <1>1, <2>2, <2>3, <2>5, <3>1, OwedReplaced
  <2>7. Settled(cs2, ss, fs)
    BY <2>6 DEF Settled, Settling
  <2> QED
    BY <1>4, <2>7
<1>5. ASSUME NEW i \in 1 .. Len(cs), cs[i].stream = s, cs[i].refs = 1,
             cs2 = [cs EXCEPT ![i] = Cached(@)], ss2 = ss
      PROVE  Settled(cs2, ss2, fs)
  <2> DEFINE c == Cached(cs[i])
  <2>1. cs[i] \in Conn
    BY <1>1, ConnTypes
  <2>2. c \in Conn /\ c.stream = s /\ c.refs = 0 /\ c.closing /\ c.timer
    BY <1>5, <2>1 DEF Conn, Cached, Nobody
  <2>3. cs2 = [cs EXCEPT ![i] = c]
    BY <1>5
  <2> HIDE DEF c
  <2>5. c.refs <= Cardinality(Users(fs, s)) + 0
    BY <1>2, <2>2
  <2>6. /\ Timed(cs2) /\ Owed(cs2, ss, fs, s, 0)
        /\ \A t : t # s /\ Owed(cs, ss, fs, t, 0) => Owed(cs2, ss, fs, t, 0)
    <3>1. c.stream = cs[i].stream /\ s = c.stream /\ Timed(cs)
      BY <1>5, <2>2 DEF Settling
    <3> QED
      BY <1>1, <2>2, <2>3, <2>5, <3>1, OwedReplaced
  <2>7. Settled(cs2, ss, fs)
    BY <2>6 DEF Settled, Settling
  <2> QED
    BY <1>5, <2>7
<1>6. ASSUME NEW i \in 1 .. Len(cs), cs[i].stream = s,
             cs2 = RemoveAt(cs, i), ss2 = MailClose(ss, s)
      PROVE  Settled(cs2, ss2, fs)
  <2>1. s = cs[i].stream /\ Timed(cs) /\ cs2 = RemoveAt(cs, i)
    BY <1>6 DEF Settling
  <2>2. Timed(cs2) /\ \A j \in 1 .. Len(cs2) : cs2[j].stream # s
    BY <1>1, <2>1, OwedRemoved
  <2>3. \A t : t # s /\ Owed(cs, ss, fs, t, 0) => Owed(cs2, ss, fs, t, 0)
    BY <1>1, <2>1, OwedRemoved
  <2>4. \A t \in 1 .. Len(ss) : t # s => Owed(cs2, ss, fs, t, 0)
    BY <2>3 DEF Settling
  <2> QED
    BY <1>6, <2>2, <2>4, OwedFreed
<1> QED
  BY <1>3, <1>4, <1>5, <1>6 DEF Closes

\* The same streams are live, the same folders have them.
LEMMA SettledSame ==
  ASSUME NEW cs, NEW ss, NEW ss2, NEW fs, NEW fs2, Len(ss2) = Len(ss),
         \A t \in 1 .. Len(ss) : ss2[t].live = ss[t].live,
         \A t \in 1 .. Len(ss) : Users(fs2, t) = Users(fs, t),
         Settled(cs, ss, fs)
  PROVE  Settled(cs, ss2, fs2)
BY DEF Settled, Owed

\* A command is done with the stream, or mail_open was refused the mailbox.
LEMMA RefuseSettles ==
  ASSUME NEW cs, NEW ss \in Seq(Stream), NEW fs,
         ConnsOK(cs, Len(ss)), FoldersOK(fs, Len(ss)), NEW s \in 1 .. Len(ss),
         Settling(cs, ss, fs, s), Refused(cs, ss, fs, s)
  PROVE  Settled(conns', streams', folders')
<1>1. folders' = fs /\ cs \in Seq(Conn) /\ StreamClose(cs, ss, s)
  BY DEF Refused, ConnsOK
<1>2. Closes(cs, ss, s, conns', streams')
  BY <1>1, StreamCloses
<1>3. Settled(conns', streams', fs)
  BY <1>2, CloseSettles
<1> QED
  BY <1>1, <1>3

\* The folder that is opened is the one more that the reference is for.
LEMMA OpenSettles ==
  ASSUME NEW kind \in Kinds, NEW cs, NEW ss \in Seq(Stream), NEW fs,
         ConnsOK(cs, Len(ss)), FoldersOK(fs, Len(ss)), NEW s \in 1 .. Len(ss),
         Settling(cs, ss, fs, s), Opened(kind, cs, ss, fs, s)
  PROVE  Settled(conns', streams', folders')
<1>1. CASE kind = "manage"
  <2>1. Refused(cs, ss, fs, s)
    BY <1>1 DEF Opened, Refused
  <2> QED
    BY <2>1, RefuseSettles
<1>2. CASE kind # "manage"
  <2> DEFINE r == Folder(kind, s)
  <2>1. conns' = cs /\ streams' = ss /\ folders' = Append(fs, r)
    BY <1>2 DEF Opened
  <2>2. Len(ss) \in Nat
    BY DEF ConnsOK
  <2>3. r \in FolderRecord /\ r.stream = s /\ r.open /\ r.stream \in 0 .. Len(ss)
    BY <2>2 DEF Folder, FolderRecord
  <2> HIDE DEF r
  <2>4. /\ Len(folders') = Len(fs) + 1 /\ Len(fs) \in Nat
        /\ folders'[Len(fs) + 1] = r
        /\ \A f \in 1 .. Len(fs) : folders'[f] = fs[f]
    BY <2>1, <2>2, <2>3, FolderAdded
  <2>5. Owed(cs, ss, folders', s, 0)
    <3>1. /\ Users(folders', s) = Users(fs, s) \cup {Len(fs) + 1}
          /\ Len(fs) + 1 \notin Users(fs, s)
      BY <2>3, <2>4, UsersAdded
    <3>2. IsFiniteSet(Users(fs, s)) /\ Cardinality(Users(fs, s)) \in Nat
      BY UsersCount
    <3>3. Cardinality(Users(folders', s)) = Cardinality(Users(fs, s)) + 1
      BY <3>1, <3>2, FS_AddElement
    <3>4. Owed(cs, ss, fs, s, 1)
      BY DEF Settling
    <3> QED
      BY <3>2, <3>3, <3>4 DEF Owed
  <2>6. ASSUME NEW t \in 1 .. Len(ss), t # s
        PROVE  Owed(cs, ss, folders', t, 0)
    <3>1. Users(folders', t) = Users(fs, t)
      BY <2>3, <2>4, <2>6, UsersAdded
    <3>2. Owed(cs, ss, fs, t, 0)
      BY <2>6 DEF Settling
    <3> QED
      BY <3>1, <3>2 DEF Owed
  <2>7. Settled(cs, ss, folders')
    BY <2>5, <2>6 DEF Settled, Settling
  <2> QED
    BY <2>1, <2>7
<1> QED
  BY <1>1, <1>2

\* A connection is taken into use again: its timer is off.
LEMMA TakenSettles ==
  ASSUME IInv, Settled(conns, streams, folders), NEW kind \in Kinds,
         NEW i \in 1 .. Len(conns), NEW ss, Len(ss) = Len(streams),
         \A t \in 1 .. Len(streams) : ss[t].live = streams[t].live,
         NEW cs, cs = [conns EXCEPT ![i] = Taken(@, kind)]
  PROVE  Settling(cs, ss, folders, conns[i].stream)
<1> DEFINE c == Taken(conns[i], kind)
           s == conns[i].stream
           n == Len(streams)
<1>1. /\ n \in Nat /\ ConnsOK(conns, n) /\ conns \in Seq(Conn)
      /\ FoldersOK(folders, n) /\ Len(folders) \in Nat
  BY NumberOfStreams
<1>2. conns[i] \in Conn /\ conns[i].refs \in Nat
  BY <1>1, ConnTypes
<1>3. s \in 1 .. n
  BY <1>1 DEF ConnsOK
<1>4. /\ c \in Conn /\ c.stream = s /\ c.refs = conns[i].refs + 1
      /\ ~c.closing /\ ~c.timer
  <2>1. Owner(kind) \in Nat
    BY <1>1 DEF Owner, Nobody
  <2> DEFINE o == IF conns[i].closing THEN Owner(kind) ELSE conns[i].owner
  <2>2. o \in Nat /\ conns[i].refs + 1 \in Nat
    BY <1>2, <2>1 DEF Conn
  <2>3. c = [conns[i] EXCEPT !.refs = conns[i].refs + 1, !.timer = FALSE,
                             !.closing = FALSE, !.owner = o]
    BY DEF Taken
  <2> HIDE DEF o
  <2> QED
    BY <1>2, <2>2, <2>3 DEF Conn
<1>5. Settled(conns, ss, folders)
  BY SettledSame
<1>6. Cardinality(Users(folders, s)) \in Nat
  BY <1>1, UsersCount
<1>7. Owed(conns, ss, folders, s, 0) /\ Timed(conns)
  BY <1>3, <1>5 DEF Settled
<1>8. c.refs <= Cardinality(Users(folders, s)) + 1
  <2>1. conns[i].refs <= Cardinality(Users(folders, s)) + 0
    BY <1>7 DEF Owed
  <2> QED
    BY <1>2, <1>4, <1>6, <2>1
<1>9. cs = [conns EXCEPT ![i] = c]
  OBVIOUS
<1> HIDE DEF c, n
<1>10. /\ Timed(cs) /\ Owed(cs, ss, folders, s, 1)
       /\ \A t : t # s /\ Owed(conns, ss, folders, t, 0) => Owed(cs, ss, folders, t, 0)
  <2>1. c.stream = conns[i].stream /\ s = c.stream /\ (c.closing => c.timer)
    BY <1>4
  <2> HIDE DEF s
  <2> QED
    BY <1>1, <1>4, <1>7, <1>8, <1>9, <2>1, OwedReplaced
<1>11. \A t \in 1 .. Len(ss) : t # s => Owed(cs, ss, folders, t, 0)
  BY <1>5, <1>10 DEF Settled
<1> QED
  BY <1>10, <1>11 DEF Settling, s

-----------------------------------------------------------------------------
(* Opening: one lemma per action.                                          *)

LEMMA ReuseSettles ==
  ASSUME IInv, NoneForgotten, NEW kind \in Kinds, NEW h \in Specs, Reuse(kind, h)
  PROVE  NoneForgotten'
<1>1. PICK i \in Found(h, HalfOpen(kind)) :
        LET s     == conns[i].stream
            taken == [conns EXCEPT ![i] = Taken(@, kind)]
        IN
        \/ /\ Opened(kind, taken, streams, folders, s)
           /\ faults' = faults \/ faults' = faults \cup {"shared"}
        \/ /\ \/ Opened(kind, taken, [streams EXCEPT ![s].half = FALSE], folders, s)
              \/ Refused(taken, [streams EXCEPT ![s].half = TRUE], folders, s)
           /\ faults' = faults
        \/ faults' = faults \cup {"broken"}
  BY DEF Reuse
<1> DEFINE s     == conns[i].stream
           taken == [conns EXCEPT ![i] = Taken(@, kind)]
           ss(half) == [streams EXCEPT ![s].half = half]
<1>2. /\ streams \in Seq(Stream) /\ Len(streams) \in Nat
      /\ ConnsOK(conns, Len(streams)) /\ conns \in Seq(Conn)
      /\ FoldersOK(folders, Len(streams)) /\ DOMAIN conns = 1 .. Len(conns)
  BY NumberOfStreams
<1>3. i \in 1 .. Len(conns) /\ (conns[i].closing \/ HalfOpen(kind))
  BY <1>2 DEF Found, Usable
<1>4. s \in 1 .. Len(streams)
  BY <1>2, <1>3 DEF ConnsOK
<1> HIDE DEF ss
<1>5. ASSUME NEW half \in BOOLEAN
      PROVE  /\ ss(half) \in Seq(Stream) /\ Len(ss(half)) = Len(streams)
             /\ \A t \in 1 .. Len(streams) : ss(half)[t].live = streams[t].live
  <2> DEFINE x == [streams[s] EXCEPT !.half = half]
  <2>1. x \in Stream /\ x.live = streams[s].live
    <3>1. streams[s] \in Stream
      BY <1>2, <1>4
    <3> QED
      BY <3>1 DEF Stream
  <2>2. ss(half) = [streams EXCEPT ![s] = x]
    BY DEF ss
  <2> HIDE DEF x
  <2> QED
    BY <1>2, <1>4, <2>1, <2>2
<1>6. ASSUME NEW sx \in Seq(Stream), Len(sx) = Len(streams),
             \A t \in 1 .. Len(streams) : sx[t].live = streams[t].live,
             Settled(conns, streams, folders),
             Opened(kind, taken, sx, folders, s) \/ Refused(taken, sx, folders, s)
      PROVE  Settled(conns', streams', folders')
  <2>1. Settling(taken, sx, folders, s)
    BY <1>3, <1>6, TakenSettles
  <2>2. Ready(kind, taken, sx, folders, s)
    BY <1>3, <1>6, ReferenceTaken
  <2>3. ConnsOK(taken, Len(sx)) /\ FoldersOK(folders, Len(sx)) /\ s \in 1 .. Len(sx)
    BY <2>2 DEF Ready
  <2> HIDE DEF taken, s
  <2> QED
    BY <1>6, <2>1, <2>3, OpenSettles, RefuseSettles
<1>7. SUFFICES ASSUME faults' \cap Forgets = {}
               PROVE  Settled(conns', streams', folders')
  BY DEF NoneForgotten
<1>8. faults \cap Forgets = {} /\ faults' # faults \cup {"broken"}
  BY <1>1, <1>7 DEF Forgets
<1>9. Settled(conns, streams, folders)
  BY <1>8 DEF NoneForgotten
<1>10. \/ Opened(kind, taken, streams, folders, s)
       \/ Opened(kind, taken, ss(FALSE), folders, s)
       \/ Refused(taken, ss(TRUE), folders, s)
  BY <1>1, <1>8 DEF ss
<1> HIDE DEF taken, s
<1> QED
  BY <1>2, <1>5, <1>6, <1>9, <1>10

\* A new stream: its record has one reference, for who opens it.
LEMMA ConnectedSettles ==
  ASSUME IInv, NoneForgotten, NEW kind \in Kinds, NEW h \in Specs, NEW known, NEW fs,
         Fewer(folders, fs), \A t \in 1 .. Len(streams) : Users(fs, t) = Users(folders, t),
         Connected(kind, h, known, fs), faults' = faults
  PROVE  NoneForgotten'
<1> SUFFICES ASSUME faults \cap Forgets = {}
             PROVE  Settled(conns', streams', folders')
  BY DEF NoneForgotten
<1> DEFINE n      == Len(streams)
           record == [stream |-> n + 1, host |-> h, refs |-> 1, closing |-> FALSE,
                      timer |-> FALSE, owner |-> Owner(kind)]
           cs     == IF known THEN conns ELSE <<record>> \o conns
           new(half) == [half |-> half, live |-> TRUE, up |-> TRUE]
           ss(half) == Append(streams, new(half))
<1>1. /\ streams \in Seq(Stream) /\ n \in Nat
      /\ ConnsOK(conns, n) /\ conns \in Seq(Conn)
      /\ FoldersOK(folders, n) /\ Len(folders) \in Nat
  BY NumberOfStreams
<1>2. Settled(conns, streams, fs)
  BY SettledSame DEF NoneForgotten
<1>3. \/ Opened(kind, cs, ss(HalfOpen(kind)), fs, n + 1)
      \/ Refused(cs, ss(TRUE), fs, n + 1)
  BY DEF Connected
<1>4. /\ record \in Conn /\ record.stream = n + 1 /\ record.refs = 1 /\ record.refs # 0
      /\ ~record.closing /\ ~record.timer
  <2>1. Owner(kind) \in Nat
    BY <1>1 DEF Owner, Nobody
  <2> QED
    BY <1>1, <2>1 DEF Conn
<1> HIDE DEF record, n
<1>5. FoldersOK(fs, n) /\ FoldersOK(fs, n + 1)
  <2>1. FoldersOK(fs, n)
    BY <1>1, FewerFolders
  <2>2. \A k \in 0 .. n : k \in 0 .. n + 1
    BY <1>1
  <2>3. FoldersOK(fs, n + 1)
    BY <2>1, <2>2 DEF FoldersOK
  <2> QED
    BY <2>1, <2>3
<1>6. Cardinality(Users(fs, n + 1)) \in Nat
  <2>1. \A s : Cardinality(Users(fs, s)) \in Nat
    BY <1>5, UsersCount
  <2> QED
    BY <2>1
<1>7. \A k \in 1 .. Len(conns) : conns[k].stream \in 1 .. n /\ conns[k].stream # n + 1
  BY <1>1 DEF ConnsOK
<1>8. \A half \in BOOLEAN :
        /\ ss(half) \in Seq(Stream) /\ Len(ss(half)) = n + 1
        /\ \A t \in 1 .. n : ss(half)[t] = streams[t]
  <2>1. \A half \in BOOLEAN : new(half) \in Stream
    BY DEF Stream
  <2> HIDE DEF new
  <2> QED
    BY <1>1, <2>1 DEF n
<1> HIDE DEF ss
<1>9. /\ ConnsOK(cs, n + 1) /\ Timed(cs)
      /\ \A j \in 1 .. Len(cs) : cs[j].stream = n + 1 => cs[j].refs = 1
      /\ \A j \in 1 .. Len(cs) :
           cs[j].stream # n + 1 => \E k \in 1 .. Len(conns) : cs[j] = conns[k]
      /\ \A k \in 1 .. Len(conns) : \E j \in 1 .. Len(cs) : cs[j] = conns[k]
  <2>1. CASE known
    <3>1. ConnsOK(conns, n + 1)
      BY <1>1 DEF ConnsOK
    <3> QED
      BY <1>2, <1>7, <2>1, <3>1 DEF Settled
  <2>2. CASE ~known
    <3>1. cs = <<record>> \o conns
      BY <2>2
    <3> HIDE DEF cs
    <3>2. ConnsOK(cs, n + 1)
      BY <1>1, <1>4, <3>1, ConnAdded
    <3>3. \A j \in 1 .. Len(cs) : cs[j] = record \/ \E k \in 1 .. Len(conns) : cs[j] = conns[k]
      BY <1>1, <1>4, <3>1, HeadedElements
    <3>4. Timed(cs)
      BY <1>2, <1>4, <3>3 DEF Timed, Settled
    <3>5. \A k \in 1 .. Len(conns) : k + 1 \in 1 .. Len(cs) /\ cs[k + 1] = conns[k]
      <4>1. Len(conns) \in Nat
        BY <1>1
      <4>2. Len(cs) = Len(conns) + 1 /\ \A k \in 1 .. Len(conns) : cs[k + 1] = conns[k]
        BY <1>1, <1>4, <3>1, Headed
      <4> QED
        BY <4>1, <4>2
    <3>6. \A k \in 1 .. Len(conns) : \E j \in 1 .. Len(cs) : cs[j] = conns[k]
      BY <3>5
    <3>7. \A j \in 1 .. Len(cs) : cs[j].stream = n + 1 => cs[j].refs = 1
      BY <1>4, <1>7, <3>3
    <3> QED
      BY <1>4, <3>2, <3>3, <3>4, <3>6, <3>7
  <2> QED
    BY <2>1, <2>2
<1> HIDE DEF cs
<1>10. ASSUME NEW half \in BOOLEAN
       PROVE  /\ ss(half) \in Seq(Stream) /\ Len(ss(half)) = n + 1
              /\ Settling(cs, ss(half), fs, n + 1)
  <2>1. Owed(cs, ss(half), fs, n + 1, 1)
    BY <1>6, <1>9 DEF Owed
  <2>2. ASSUME NEW t \in 1 .. n + 1, t # n + 1
        PROVE  Owed(cs, ss(half), fs, t, 0)
    <3>1. t \in 1 .. n /\ ss(half)[t] = streams[t]
      BY <1>1, <1>8, <2>2
    <3>2. Owed(conns, streams, fs, t, 0)
      BY <1>2, <3>1 DEF Settled, n
    <3>3. \A j \in 1 .. Len(cs) : cs[j].stream = t => cs[j].refs <= Cardinality(Users(fs, t)) + 0
      BY <1>9, <2>2, <3>2 DEF Owed
    <3>4. (\A j \in 1 .. Len(cs) : cs[j].stream # t) => \A k \in 1 .. Len(conns) : conns[k].stream # t
      BY <1>9
    <3> QED
      BY <3>1, <3>2, <3>3, <3>4 DEF Owed
  <2>3. ss(half) \in Seq(Stream) /\ Len(ss(half)) = n + 1
    BY <1>8
  <2> QED
    BY <1>9, <2>1, <2>2, <2>3 DEF Settling
<1>11. n + 1 \in 1 .. n + 1 /\ HalfOpen(kind) \in BOOLEAN /\ TRUE \in BOOLEAN
  BY <1>1 DEF HalfOpen
<1>12. CASE Opened(kind, cs, ss(HalfOpen(kind)), fs, n + 1)
  <2> DEFINE sx == ss(HalfOpen(kind))
  <2>1. sx \in Seq(Stream) /\ Len(sx) = n + 1 /\ Settling(cs, sx, fs, n + 1)
    BY <1>10, <1>11
  <2>2. Opened(kind, cs, sx, fs, n + 1)
    BY <1>12
  <2> HIDE DEF sx
  <2> QED
    BY <1>5, <1>9, <1>11, <2>1, <2>2, OpenSettles
<1>13. CASE Refused(cs, ss(TRUE), fs, n + 1)
  <2> DEFINE sx == ss(TRUE)
  <2>1. sx \in Seq(Stream) /\ Len(sx) = n + 1 /\ Settling(cs, sx, fs, n + 1)
    BY <1>10, <1>11
  <2>2. Refused(cs, sx, fs, n + 1)
    BY <1>13
  <2> HIDE DEF sx
  <2> QED
    BY <1>5, <1>9, <1>11, <2>1, <2>2, RefuseSettles
<1> QED
  BY <1>3, <1>12, <1>13

\* An error flag makes no difference to who has a stream.
LEMMA NotifiedSame ==
  ASSUME IInv, NEW owner
  PROVE  /\ Len(Notified(owner)) = Len(folders)
         /\ Notified(owner) \in Seq(FolderRecord)
         /\ \A f \in 1 .. Len(folders) :
              /\ Notified(owner)[f].open = folders[f].open
              /\ Notified(owner)[f].stream = folders[f].stream
<1>1. folders \in Seq(FolderRecord) /\ DOMAIN folders = 1 .. Len(folders)
  BY NumberOfStreams
<1>2. CASE owner \in 1 .. Len(folders) /\ folders[owner].open
  <2> DEFINE r == [folders[owner] EXCEPT !.error = TRUE]
  <2>1. Notified(owner) = [folders EXCEPT ![owner] = r]
    BY <1>1, <1>2 DEF Notified
  <2>2. /\ r \in FolderRecord
        /\ r.open = folders[owner].open /\ r.stream = folders[owner].stream
    <3>1. folders[owner] \in FolderRecord
      BY <1>1, <1>2
    <3> QED
      BY <3>1 DEF FolderRecord
  <2> HIDE DEF r
  <2>3. /\ Len(Notified(owner)) = Len(folders) /\ Notified(owner)[owner] = r
        /\ \A f \in 1 .. Len(folders) : f # owner => Notified(owner)[f] = folders[f]
        /\ Notified(owner) \in Seq(FolderRecord)
    BY <1>1, <1>2, <2>1, <2>2
  <2> QED
    BY <2>2, <2>3
<1>3. CASE ~(owner \in 1 .. Len(folders) /\ folders[owner].open)
  BY <1>1, <1>3 DEF Notified
<1> QED
  BY <1>2, <1>3

LEMMA PingedSame ==
  ASSUME IInv, NEW kind, NEW h
  PROVE  /\ Len(Pinged(kind, h)) = Len(folders)
         /\ Pinged(kind, h) \in Seq(FolderRecord)
         /\ \A f \in 1 .. Len(folders) :
              /\ Pinged(kind, h)[f].open = folders[f].open
              /\ Pinged(kind, h)[f].stream = folders[f].stream
<1>1. folders \in Seq(FolderRecord)
  BY NumberOfStreams
<1>2. CASE Found(h, HalfOpen(kind)) = {}
  BY <1>1, <1>2 DEF Pinged
<1>3. CASE Found(h, HalfOpen(kind)) # {}
  <2>1. Pinged(kind, h) = Notified(conns[Min(Found(h, HalfOpen(kind)))].owner)
    BY <1>3 DEF Pinged
  <2> QED
    BY <2>1, NotifiedSame
<1> QED
  BY <1>2, <1>3

LEMMA NotifiedUsers ==
  ASSUME IInv, NEW owner, NEW t
  PROVE  Users(Notified(owner), t) = Users(folders, t)
BY NotifiedSame DEF Users

LEMMA PingedUsers ==
  ASSUME IInv, NEW kind, NEW h, NEW t
  PROVE  Users(Pinged(kind, h), t) = Users(folders, t)
BY PingedSame DEF Users

LEMMA ConnectSettles ==
  ASSUME IInv, NoneForgotten, NEW kind \in Kinds, NEW h \in Specs, Connect(kind, h)
  PROVE  NoneForgotten'
<1>1. /\ Connected(kind, h, Found(h, HalfOpen(kind)) # {}, Pinged(kind, h))
      /\ faults' = faults
  BY DEF Connect
<1> QED
  BY <1>1, PingedFewer, PingedUsers, ConnectedSettles

LEMMA AnswerSettles ==
  ASSUME IInv, NoneForgotten, NEW store \in BOOLEAN, Answer(store)
  PROVE  NoneForgotten'
<1>1. /\ Connected(dialog.kind, dialog.host, dialog.known, folders)
      /\ faults' = faults
  BY DEF Answer
<1>2. dialog.kind \in Kinds /\ dialog.host \in Specs
  BY DEF Answer, IInv, Dialog
<1>3. Fewer(folders, folders)
  <2>1. folders \in Seq(FolderRecord)
    BY NumberOfStreams
  <2> QED
    BY <2>1 DEF Fewer
<1> QED
  BY <1>1, <1>2, <1>3, ConnectedSettles

\* The list stays, and so does who has which stream.
LEMMA OnlyFlags ==
  ASSUME NoneForgotten, conns' = conns, faults' = faults,
         Len(streams') = Len(streams),
         \A t \in 1 .. Len(streams) : streams'[t].live = streams[t].live,
         \A t \in 1 .. Len(streams) : Users(folders', t) = Users(folders, t)
  PROVE  NoneForgotten'
<1> SUFFICES ASSUME faults \cap Forgets = {}
             PROVE  Settled(conns', streams', folders')
  BY DEF NoneForgotten
<1>1. Settled(conns, streams, folders)
  BY DEF NoneForgotten
<1> QED
  BY <1>1, SettledSame

-----------------------------------------------------------------------------
(* Closing.                                                                *)

\* A folder leaves the stream it has, and Std_StreamClose is called.
LEMMA LeaveSettles ==
  ASSUME IInv, NoneForgotten, NEW f \in 1 .. Len(folders),
         folders[f].open, folders[f].stream # 0,
         NEW r \in FolderRecord, r.stream = 0,
         folders' = [folders EXCEPT ![f] = r],
         StreamClose(conns, streams, folders[f].stream), faults' = faults
  PROVE  NoneForgotten'
<1> DEFINE n == Len(streams)
           s == folders[f].stream
<1> SUFFICES ASSUME faults \cap Forgets = {}
             PROVE  Settled(conns', streams', folders')
  BY DEF NoneForgotten
<1>1. /\ streams \in Seq(Stream) /\ n \in Nat /\ ConnsOK(conns, n)
      /\ conns \in Seq(Conn) /\ FoldersOK(folders, n)
      /\ folders \in Seq(FolderRecord)
  BY NumberOfStreams
<1>2. s \in 1 .. n /\ s \in 0 .. n
  BY <1>1 DEF FoldersOK
<1>3. /\ folders' \in Seq(FolderRecord) /\ Len(folders') = Len(folders)
      /\ folders'[f] = r /\ \A g \in 1 .. Len(folders) : g # f => folders'[g] = folders[g]
  BY <1>1
<1>4. FoldersOK(folders', n)
  <2>1. Fewer(folders, folders')
    BY <1>3 DEF Fewer
  <2> QED
    BY <1>1, <2>1, FewerFolders
<1>5. f \in Users(folders, s) /\ Users(folders', s) = Users(folders, s) \ {f}
  BY <1>2, <1>3 DEF Users
<1>6. \A t \in 1 .. n : t # s => Users(folders', t) = Users(folders, t)
  BY <1>3 DEF Users
<1>7. Settled(conns, streams, folders)
  BY DEF NoneForgotten
<1>8. Settling(conns, streams, folders', s)
  <2>1. IsFiniteSet(Users(folders, s)) /\ Cardinality(Users(folders, s)) \in Nat
    BY <1>1, UsersCount
  <2>2. Cardinality(Users(folders', s)) = Cardinality(Users(folders, s)) - 1
    <3> DEFINE left == Users(folders, s) \ {f}
    <3>1. Cardinality(left) = Cardinality(Users(folders, s)) - 1
      BY <1>5, <2>1, FS_RemoveElement
    <3> QED
      BY <1>5, <3>1
  <2>3. Owed(conns, streams, folders, s, 0)
    BY <1>2, <1>7 DEF Settled
  <2>4. Owed(conns, streams, folders', s, 1)
    BY <2>1, <2>2, <2>3 DEF Owed
  <2>5. \A t \in 1 .. n : t # s => Owed(conns, streams, folders', t, 0)
    BY <1>6, <1>7 DEF Settled, Owed
  <2> QED
    BY <1>7, <2>4, <2>5 DEF Settling, Settled
<1>9. Closes(conns, streams, s, conns', streams')
  BY <1>1, StreamCloses
<1> QED
  BY <1>1, <1>2, <1>4, <1>8, <1>9, CloseSettles

LEMMA CloseFolderSettles ==
  ASSUME IInv, NoneForgotten, NEW f \in 1 .. Len(folders), CloseFolder(f)
  PROVE  NoneForgotten'
<1>1. NoFolder \in FolderRecord /\ NoFolder.stream = 0 /\ ~NoFolder.open
  BY DEF NoFolder, FolderRecord, Kinds
<1>2. /\ folders[f].open /\ faults' = faults
      /\ folders' = [folders EXCEPT ![f] = NoFolder]
      /\ IF folders[f].stream = 0 THEN conns' = conns /\ streams' = streams
         ELSE StreamClose(conns, streams, folders[f].stream)
  BY DEF CloseFolder
<1>3. CASE folders[f].stream # 0
  BY <1>1, <1>2, <1>3, LeaveSettles
<1>4. CASE folders[f].stream = 0
  <2>1. folders \in Seq(FolderRecord) /\ Len(streams) \in Nat
    BY NumberOfStreams
  <2>2. /\ Len(folders') = Len(folders) /\ folders'[f] = NoFolder
        /\ \A g \in 1 .. Len(folders) : g # f => folders'[g] = folders[g]
    BY <1>2, <2>1
  <2>3. \A t \in 1 .. Len(streams) : Users(folders', t) = Users(folders, t)
    BY <1>1, <1>4, <2>1, <2>2 DEF Users
  <2> QED
    BY <1>2, <1>4, <2>3, OnlyFlags
<1> QED
  BY <1>3, <1>4

LEMMA MasterLostSettles ==
  ASSUME IInv, NoneForgotten, NEW f \in 1 .. Len(folders), MasterLost(f)
  PROVE  NoneForgotten'
<1> DEFINE r == [folders[f] EXCEPT !.stream = 0]
<1>1. r \in FolderRecord /\ r.stream = 0
  <2>1. folders[f] \in FolderRecord
    <3>1. folders \in Seq(FolderRecord)
      BY NumberOfStreams
    <3> QED
      BY <3>1
  <2> QED
    BY <2>1 DEF FolderRecord
<1>2. /\ folders[f].open /\ folders[f].stream # 0 /\ faults' = faults
      /\ StreamClose(conns, streams, folders[f].stream)
      /\ folders' = [folders EXCEPT ![f] = r]
  BY DEF MasterLost
<1> HIDE DEF r
<1> QED
  BY <1>1, <1>2, LeaveSettles

LEMMA CloseTimerSettles ==
  ASSUME IInv, NoneForgotten, NEW i \in 1 .. Len(conns), CloseTimer(i)
  PROVE  NoneForgotten'
<1> DEFINE n == Len(streams)
           s == conns[i].stream
<1>1. /\ streams \in Seq(Stream) /\ n \in Nat /\ ConnsOK(conns, n)
      /\ conns \in Seq(Conn)
  BY NumberOfStreams
<1>2. /\ conns' = RemoveAt(conns, i) /\ streams' = MailClose(streams, s)
      /\ folders' = folders /\ faults' = faults
  BY DEF CloseTimer, CloseConnection
<1>3. s \in 1 .. n
  BY <1>1 DEF ConnsOK
<1> SUFFICES ASSUME faults \cap Forgets = {}
             PROVE  Settled(conns', streams', folders)
  BY <1>2 DEF NoneForgotten
<1>4. Settled(conns, streams, folders)
  BY DEF NoneForgotten
<1> HIDE DEF s
<1>5. /\ Timed(conns') /\ \A j \in 1 .. Len(conns') : conns'[j].stream # s
      /\ \A t : t # s /\ Owed(conns, streams, folders, t, 0)
                  => Owed(conns', streams, folders, t, 0)
  BY <1>1, <1>2, <1>4, OwedRemoved DEF s, Settled
<1>6. \A t \in 1 .. n : t # s => Owed(conns', streams, folders, t, 0)
  BY <1>4, <1>5 DEF Settled
<1>7. Settled(conns', MailClose(streams, s), folders)
  BY <1>1, <1>3, <1>5, <1>6, OwedFreed
<1> QED
  BY <1>2, <1>7

\* Going off line frees what only masters had and all that is cached; a stream
\* that is kept loses the user and the reference of its one master.
LEMMA GoOfflineSettles ==
  ASSUME IInv, NoneForgotten, GoOffline
  PROVE  NoneForgotten'
<1> DEFINE n == Len(streams)
<1>1. /\ streams \in Seq(Stream) /\ n \in Nat /\ ConnsOK(conns, n)
      /\ conns \in Seq(Conn) /\ FoldersOK(folders, n) /\ Alone(folders)
      /\ DOMAIN conns = 1 .. Len(conns) /\ DOMAIN folders = 1 .. Len(folders)
  BY NumberOfStreams
<1>2. PICK at : WentOffline(at)
  BY OfflineList
<1>3. /\ streams' = [s \in 1 .. n |-> IF s \in Ended THEN NoStream ELSE streams[s]]
      /\ faults' = faults
  BY <1>2, OfflineList DEF WentOffline
<1>4. /\ folders' \in Seq(FolderRecord) /\ Len(folders') = Len(folders)
      /\ \A f \in 1 .. Len(folders) :
           /\ Master(f) => folders'[f].stream = 0
           /\ ~Master(f) => folders'[f] = folders[f]
           /\ folders'[f].open = folders[f].open
  BY <1>2 DEF WentOffline
<1>5. /\ \A i \in Used : \E k \in 1 .. Len(conns') : at[k] = i
      /\ \A k \in 1 .. Len(conns') :
           /\ at[k] \in 1 .. Len(conns) /\ ~conns'[k].closing
           /\ conns'[k].stream = conns[at[k]].stream
           /\ conns'[k].refs = IF conns[at[k]].stream \in Masters
                               THEN conns[at[k]].refs - 1 ELSE conns[at[k]].refs
  BY <1>2 DEF WentOffline
<1>6. Len(streams') = n
  <2> HIDE DEF n
  <2> QED
    BY <1>1, <1>3
<1> SUFFICES ASSUME faults \cap Forgets = {}
             PROVE  Settled(conns', streams', folders')
  BY <1>3 DEF NoneForgotten
<1>7. Settled(conns, streams, folders)
  BY DEF NoneForgotten
\* The folders.
<1>8. ASSUME NEW t \in 1 .. n, t \notin Masters
      PROVE  Users(folders', t) = Users(folders, t)
  <2>1. \A f \in 1 .. Len(folders) : folders[f].stream = t => ~Master(f)
    BY <1>1, <1>8 DEF Masters
  <2> QED
    BY <1>1, <1>4, <2>1 DEF Users
<1>9. FoldersOK(folders', n)
  <2>1. \A f \in 1 .. Len(folders) : folders[f].stream \in 0 .. n
    BY <1>1 DEF FoldersOK
  <2>2. \A f \in 1 .. Len(folders) : folders'[f].stream \in 0 .. n
    BY <1>1, <1>4, <2>1
  <2> QED
    BY <1>4, <2>2 DEF FoldersOK
<1>10. \A t : IsFiniteSet(Users(folders', t)) /\ Cardinality(Users(folders', t)) \in Nat
  BY <1>9, UsersCount
<1>11. \A t : IsFiniteSet(Users(folders, t)) /\ Cardinality(Users(folders, t)) \in Nat
  BY <1>1, UsersCount
<1>12. ASSUME NEW t \in 1 .. n, t \in Masters
       PROVE  Cardinality(Users(folders, t)) <= Cardinality(Users(folders', t)) + 1
  <2>1. PICK f \in 1 .. Len(folders) : Master(f) /\ folders[f].stream = t
    BY <1>1, <1>12 DEF Masters
  <2> DEFINE more == Users(folders', t) \cup {f}
  <2>2. ASSUME NEW g \in Users(folders, t), g # f
        PROVE  g \in Users(folders', t)
    <3>1. g \in 1 .. Len(folders) /\ folders[g].open /\ folders[g].stream = t
      BY DEF Users
    <3>2. ~Master(g)
      <4>1. Master(g) => Reads(folders, g) /\ Reads(folders, f)
        BY <2>1, <3>1 DEF Master, Reads
      <4> QED
        BY <1>1, <2>1, <2>2, <3>1, <4>1 DEF Alone
    <3> QED
      BY <1>4, <3>1, <3>2 DEF Users
  <2>3. Users(folders, t) \subseteq more
    BY <2>2
  <2>4. f \notin Users(folders', t)
    BY <1>4, <2>1 DEF Users
  <2>5. IsFiniteSet(more) /\ Cardinality(more) = Cardinality(Users(folders', t)) + 1
    BY <1>10, <2>4, FS_AddElement
  <2>6. Cardinality(Users(folders, t)) <= Cardinality(more)
    BY <2>3, <2>5, FS_Subset
  <2> QED
    BY <2>5, <2>6
\* The records that stay.
<1>13. ASSUME NEW t \in 1 .. n, NEW k \in 1 .. Len(conns'), conns'[k].stream = t
       PROVE  conns'[k].refs <= Cardinality(Users(folders', t)) + 0
  <2> DEFINE i == at[k]
  <2>1. /\ i \in 1 .. Len(conns) /\ conns[i].stream = t
        /\ conns'[k].refs = IF t \in Masters THEN conns[i].refs - 1 ELSE conns[i].refs
    BY <1>5, <1>13
  <2> HIDE DEF i
  <2>2. conns[i].refs \in Nat
    BY <1>1, <2>1, ConnTypes
  <2>3. conns[i].refs <= Cardinality(Users(folders, t)) + 0
    BY <1>7, <2>1 DEF Settled, Owed
  <2> QED
    BY <1>8, <1>10, <1>11, <1>12, <2>1, <2>2, <2>3
\* The streams that stay.
<1>14. ASSUME NEW t \in 1 .. n, streams'[t].live,
              \A k \in 1 .. Len(conns') : conns'[k].stream # t
       PROVE  1 <= Cardinality(Users(folders', t)) + 0
  <2>1. t \notin Ended /\ streams'[t] = streams[t]
    BY <1>3, <1>14 DEF NoStream
  <2>2. t \notin Kept
    <3> SUFFICES ASSUME NEW i \in Used, conns[i].stream = t
                 PROVE  FALSE
      BY DEF Kept
    <3>1. PICK k \in 1 .. Len(conns') : at[k] = i
      BY <1>5
    <3> QED
      BY <1>5, <1>14, <3>1
  <2>3. t \notin Masters /\ \A i \in 1 .. Len(conns) : conns[i].stream # t
    BY <1>1, <2>1, <2>2 DEF Ended
  <2>4. 1 <= Cardinality(Users(folders, t)) + 0
    BY <1>7, <1>14, <2>1, <2>3 DEF Settled, Owed
  <2> QED
    BY <1>8, <2>3, <2>4
<1>15. Timed(conns')
  BY <1>5 DEF Timed
<1> HIDE DEF n
<1>16. \A t \in 1 .. n : Owed(conns', streams', folders', t, 0)
  BY <1>13, <1>14 DEF Owed
<1> QED
  BY <1>6, <1>15, <1>16 DEF Settled

-----------------------------------------------------------------------------
(* The other actions, and the theorem about the streams.                   *)

LEMMA DropSettles ==
  ASSUME IInv, NoneForgotten, NEW s \in 1 .. Len(streams), Drop(s)
  PROVE  NoneForgotten'
<1> DEFINE x == [streams[s] EXCEPT !.up = FALSE]
<1>1. streams \in Seq(Stream)
  BY NumberOfStreams
<1>2. x.live = streams[s].live
  <2>1. streams[s] \in Stream
    BY <1>1
  <2> QED
    BY <2>1 DEF Stream
<1>3. /\ streams' = [streams EXCEPT ![s] = x]
      /\ conns' = conns /\ folders' = folders /\ faults' = faults
  BY DEF Drop
<1> HIDE DEF x
<1>4. /\ Len(streams') = Len(streams)
      /\ \A t \in 1 .. Len(streams) : streams'[t].live = streams[t].live
  BY <1>1, <1>2, <1>3
<1> QED
  BY <1>3, <1>4, OnlyFlags

LEMMA RestartSettles ==
  ASSUME IInv, NoneForgotten, Restart
  PROVE  NoneForgotten'
<1>1. /\ streams \in Seq(Stream) /\ Len(streams) \in Nat
      /\ DOMAIN streams = 1 .. Len(streams)
  BY NumberOfStreams
<1>2. /\ conns' = <<>> /\ streams' = [s \in 1 .. Len(streams) |-> NoStream]
  BY <1>1 DEF Restart
<1>3. Len(streams') = Len(streams) /\ \A s \in 1 .. Len(streams) : ~streams'[s].live
  BY <1>1, <1>2 DEF NoStream
<1>4. Len(conns') = 0 /\ 1 .. 0 = {}
  BY <1>2
<1>5. Settled(conns', streams', folders')
  BY <1>3, <1>4 DEF Settled, Timed, Owed
<1> QED
  BY <1>5 DEF NoneForgotten

LEMMA InitSettled == Init => NoneForgotten
<1> SUFFICES ASSUME Init PROVE NoneForgotten
  OBVIOUS
<1>1. Len(conns) = 0 /\ Len(streams) = 0 /\ 1 .. 0 = {}
  BY DEF Init
<1> QED
  BY <1>1 DEF NoneForgotten, Settled, Timed

LEMMA NextSettled == IInv /\ NoneForgotten /\ [Next]_vars => NoneForgotten'
<1> SUFFICES ASSUME IInv, NoneForgotten, [Next]_vars PROVE NoneForgotten'
  OBVIOUS
<1>1. DOMAIN conns = 1 .. Len(conns) /\ DOMAIN streams = 1 .. Len(streams)
      /\ DOMAIN folders = 1 .. Len(folders)
  BY NumberOfStreams
<1>2. ASSUME NEW kind \in Kinds, NEW h \in Specs,
             Reuse(kind, h) \/ Connect(kind, h) \/ Fail(kind, h) \/ Ask(kind, h)
      PROVE  NoneForgotten'
  <2>1. CASE Fail(kind, h) \/ Ask(kind, h)
    <3>1. /\ conns' = conns /\ streams' = streams /\ faults' = faults
          /\ folders' = Pinged(kind, h)
      BY <2>1 DEF Fail, Ask
    <3> QED
      BY <3>1, PingedUsers, OnlyFlags
  <2> QED
    BY <1>2, <2>1, ReuseSettles, ConnectSettles
<1>3. ASSUME NEW store \in BOOLEAN, Answer(store)
      PROVE  NoneForgotten'
  BY <1>3, AnswerSettles
<1>4. ASSUME NEW f \in DOMAIN folders, CloseFolder(f) \/ MasterLost(f)
      PROVE  NoneForgotten'
  BY <1>1, <1>4, CloseFolderSettles, MasterLostSettles
<1>5. ASSUME NEW f \in DOMAIN folders, Bye(f)
      PROVE  NoneForgotten'
  <2>1. /\ conns' = conns /\ streams' = streams /\ faults' = faults
        /\ \E owner : folders' = Notified(owner)
    BY <1>5 DEF Bye
  <2> QED
    BY <2>1, NotifiedUsers, OnlyFlags
<1>6. ASSUME NEW f \in DOMAIN folders, Lost(f)
      PROVE  NoneForgotten'
  BY <1>6 DEF Lost, NoneForgotten, Forgets
<1>7. CASE Purge
  <2>1. CASE faults' = faults \cup {"unwritten"}
    BY <2>1 DEF NoneForgotten, Forgets
  <2>2. CASE UNCHANGED <<conns, faults>>
    BY <1>7, <2>2 DEF Purge, NoneForgotten
  <2> QED
    BY <1>7, <2>1, <2>2 DEF Purge
<1>8. CASE Restart
  BY <1>8, RestartSettles
<1>9. CASE GoOffline
  BY <1>9, GoOfflineSettles
<1>10. ASSUME NEW i \in DOMAIN conns, CloseTimer(i)
       PROVE  NoneForgotten'
  BY <1>1, <1>10, CloseTimerSettles
<1>11. ASSUME NEW s \in DOMAIN streams, Drop(s)
       PROVE  NoneForgotten'
  BY <1>1, <1>11, DropSettles
<1>12. CASE UNCHANGED <<conns, streams, folders, faults>>
  BY <1>12 DEF NoneForgotten
<1>13. GiveUp \/ (\E i \in DOMAIN cache : EraseTimer(i)) \/ UNCHANGED vars
         => UNCHANGED <<conns, streams, folders, faults>>
  BY DEF GiveUp, EraseTimer, vars
<1> QED
  BY <1>2, <1>3, <1>4, <1>5, <1>6, <1>7, <1>8, <1>9, <1>10, <1>11, <1>12, <1>13
     DEF Next, User, Events

\* No stream to a mail server is forgotten, whatever folders share it, however
\* mail_open, the timers, the end of a folder (Std_StreamClose) and the going off
\* line follow each other: it has a folder, or a timer that will close it, unless
\* a folder was closed without its stream (Std_UpdateProc), a connection broke
\* while mail_open took its stream into use again, or the user dropped the
\* passwords while the timers were not all known.
THEOREM NoStreamForgotten == Spec => []NoOrphans
<1>1. IInv /\ NoneForgotten => NoOrphans
  <2> SUFFICES ASSUME IInv, NoneForgotten, faults \cap Forgets = {},
                      NEW s \in DOMAIN streams, streams[s].live,
                      \A i \in DOMAIN conns : conns[i].stream = s => ~conns[i].timer
               PROVE  \E f \in DOMAIN folders : InUse(f) /\ folders[f].stream = s
    BY DEF NoOrphans, Forgets
  <2>1. /\ ConnsOK(conns, Len(streams)) /\ FoldersOK(folders, Len(streams))
        /\ DOMAIN conns = 1 .. Len(conns) /\ DOMAIN streams = 1 .. Len(streams)
        /\ DOMAIN folders = 1 .. Len(folders) /\ conns \in Seq(Conn)
    BY NumberOfStreams
  <2>2. Timed(conns) /\ Owed(conns, streams, folders, s, 0)
    BY <2>1 DEF NoneForgotten, Settled
  <2>3. IsFiniteSet(Users(folders, s)) /\ Cardinality(Users(folders, s)) \in Nat
    BY <2>1, UsersCount
  <2>4. Cardinality(Users(folders, s)) # 0
    <3>1. CASE \A i \in 1 .. Len(conns) : conns[i].stream # s
      BY <2>2, <2>3, <3>1 DEF Owed
    <3>2. CASE \E i \in 1 .. Len(conns) : conns[i].stream = s
      <4>1. PICK i \in 1 .. Len(conns) : conns[i].stream = s
        BY <3>2
      <4> DEFINE r == conns[i].refs
                 u == Cardinality(Users(folders, s))
      <4>2. r # 0 /\ r \in Nat
        <5>1. ~conns[i].closing
          BY <2>1, <2>2, <4>1 DEF Timed
        <5>2. r \in Nat
          BY <2>1, ConnTypes
        <5> QED
          BY <2>1, <5>1, <5>2 DEF ConnsOK
      <4>3. r <= u + 0 /\ u \in Nat
        BY <2>2, <2>3, <4>1 DEF Owed
      <4> HIDE DEF r, u
      <4>4. u # 0
        BY <4>2, <4>3
      <4> QED
        BY <4>4 DEF u
    <3> QED
      BY <3>1, <3>2
  <2>5. Users(folders, s) # {}
    BY <2>4, FS_EmptySet
  <2>6. s # 0
    BY <2>1
  <2> QED
    BY <2>1, <2>5, <2>6 DEF Users, InUse
<1> QED
  BY <1>1, InitSettled, NextSettled, Invariance, PTL DEF Spec

-----------------------------------------------------------------------------
(* To whom a connection points: the invariant.                             *)

\* A connection points to nobody, or to a folder that is open and has its stream.
Pointed(c, fs) ==
  c.owner # Nobody =>
    /\ c.owner \in 1 .. Len(fs) /\ fs[c.owner].open
    /\ fs[c.owner].stream = c.stream

\* One user at a time: so the folder that a connection points to is the last one.
Solid(c, fs) == c.refs <= 1 /\ Pointed(c, fs)

AllSolid(cs, fs) == \A i \in 1 .. Len(cs) : Solid(cs[i], fs)

Strays == {"lost", "broken", "shared"}

AllPointed == faults \cap Strays = {} => AllSolid(conns, folders)

\* The owner of a use that begins when the folders are fs
NewOwner(kind, fs) == IF kind = "manage" THEN Nobody ELSE Len(fs) + 1

\* Somebody has taken stream s, to use it for what kind says.
Taking(kind, cs, fs, s) ==
  \A i \in 1 .. Len(cs) :
    IF cs[i].stream = s
    THEN \/ cs[i].refs <= 1 /\ cs[i].owner = NewOwner(kind, fs)
         \/ kind = "manage" /\ cs[i].refs = 2 /\ Pointed(cs[i], fs)
    ELSE Solid(cs[i], fs)

\* Who closes a stream that nobody else uses is not pointed to any more.
LEMMA ClosePoints ==
  ASSUME NEW n \in Nat, NEW cs, ConnsOK(cs, n), NEW fs, NEW ss, NEW s,
         \A i \in 1 .. Len(cs) : cs[i].stream # s => Solid(cs[i], fs),
         \A i \in 1 .. Len(cs) :
           cs[i].stream = s => cs[i].refs <= 1 \/ (cs[i].refs = 2 /\ Pointed(cs[i], fs)),
         NEW cs2, NEW ss2, Closes(cs, ss, s, cs2, ss2)
  PROVE  AllSolid(cs2, fs)
<1>1. cs \in Seq(Conn)
  BY DEF ConnsOK
<1>2. CASE (\A i \in 1 .. Len(cs) : cs[i].stream # s) /\ cs2 = cs
  BY <1>2 DEF AllSolid
<1>3. ASSUME NEW i \in 1 .. Len(cs), cs[i].stream = s, NEW c, cs2 = [cs EXCEPT ![i] = c],
             Solid(c, fs)
      PROVE  AllSolid(cs2, fs)
  <2>1. /\ Len(cs2) = Len(cs) /\ cs2[i] = c
        /\ \A j \in 1 .. Len(cs) : j # i => cs2[j] = cs[j] /\ cs[j].stream # s
    BY <1>1, <1>3 DEF ConnsOK
  <2> QED
    BY <1>3, <2>1 DEF AllSolid
<1>4. ASSUME NEW i \in 1 .. Len(cs), cs[i].stream = s, cs[i].refs > 1,
             cs2 = [cs EXCEPT ![i].refs = @ - 1]
      PROVE  AllSolid(cs2, fs)
  <2> DEFINE c == [cs[i] EXCEPT !.refs = @ - 1]
  <2>1. cs[i] \in Conn /\ cs[i].refs \in Nat
    BY <1>1, ConnTypes
  <2>2. c.refs = cs[i].refs - 1 /\ c.owner = cs[i].owner /\ c.stream = cs[i].stream
    BY <2>1 DEF Conn
  <2>3. cs[i].refs = 2 /\ Pointed(cs[i], fs)
    BY <1>4, <2>1
  <2>4. cs2 = [cs EXCEPT ![i] = c]
    BY <1>4
  <2> HIDE DEF c
  <2>5. Solid(c, fs)
    BY <2>2, <2>3 DEF Solid, Pointed
  <2> QED
    BY <1>3, <1>4, <2>4, <2>5
<1>5. ASSUME NEW i \in 1 .. Len(cs), cs[i].stream = s,
             cs2 = [cs EXCEPT ![i] = Cached(@)]
      PROVE  AllSolid(cs2, fs)
  <2> DEFINE c == Cached(cs[i])
  <2>1. cs[i] \in Conn
    BY <1>1, ConnTypes
  <2>2. c.refs = 0 /\ c.owner = Nobody
    BY <2>1 DEF Cached, Conn
  <2>3. cs2 = [cs EXCEPT ![i] = c]
    BY <1>5
  <2> HIDE DEF c
  <2>4. Solid(c, fs)
    BY <2>2 DEF Solid, Pointed
  <2> QED
    BY <1>3, <1>5, <2>3, <2>4
<1>6. ASSUME NEW i \in 1 .. Len(cs), cs[i].stream = s, cs2 = RemoveAt(cs, i)
      PROVE  AllSolid(cs2, fs)
  <2>1. /\ \A j \in 1 .. Len(cs2) : cs2[j].stream # s
        /\ \A j \in 1 .. Len(cs2) : \E k \in 1 .. Len(cs) : cs2[j] = cs[k]
    BY <1>6, ConnRemoved
  <2> QED
    BY <2>1 DEF AllSolid
<1> QED
  BY <1>2, <1>4, <1>5, <1>6 DEF Closes

LEMMA RefusePoints ==
  ASSUME NEW n \in Nat, NEW kind, NEW cs, ConnsOK(cs, n), NEW fs, NEW ss, NEW s,
         Taking(kind, cs, fs, s), Refused(cs, ss, fs, s)
  PROVE  AllSolid(conns', folders')
<1>1. folders' = fs /\ cs \in Seq(Conn) /\ StreamClose(cs, ss, s)
  BY DEF Refused, ConnsOK
<1>2. Closes(cs, ss, s, conns', streams')
  BY <1>1, StreamCloses
<1>3. \A i \in 1 .. Len(cs) : cs[i].stream # s => Solid(cs[i], fs)
  BY DEF Taking
<1>4. \A i \in 1 .. Len(cs) :
        cs[i].stream = s => cs[i].refs <= 1 \/ (cs[i].refs = 2 /\ Pointed(cs[i], fs))
  BY DEF Taking
<1>5. AllSolid(conns', fs)
  BY <1>2, <1>3, <1>4, ClosePoints
<1> QED
  BY <1>1, <1>5

\* The folder that the connection points to is the next one.
LEMMA OpenPoints ==
  ASSUME NEW n \in Nat, NEW kind, NEW cs, ConnsOK(cs, n), NEW fs, NEW ss, NEW s \in Nat,
         fs \in Seq(FolderRecord), kind \in Kinds,
         Taking(kind, cs, fs, s), Opened(kind, cs, ss, fs, s)
  PROVE  AllSolid(conns', folders')
<1>1. CASE kind = "manage"
  <2>1. Refused(cs, ss, fs, s)
    BY <1>1 DEF Opened, Refused
  <2> QED
    BY <2>1, RefusePoints
<1>2. CASE kind # "manage"
  <2> DEFINE r == Folder(kind, s)
  <2>1. conns' = cs /\ folders' = Append(fs, r)
    BY <1>2 DEF Opened
  <2>2. r \in FolderRecord /\ r.stream = s /\ r.open
    BY DEF Folder, FolderRecord
  <2> HIDE DEF r
  <2>3. /\ Len(folders') = Len(fs) + 1 /\ Len(fs) \in Nat
        /\ folders'[Len(fs) + 1] = r
        /\ \A f \in 1 .. Len(fs) : f \in 1 .. Len(folders') /\ folders'[f] = fs[f]
    BY <2>1, <2>2
  <2>4. ASSUME NEW i \in 1 .. Len(cs)
        PROVE  Solid(cs[i], folders')
    <3>1. CASE cs[i].stream = s
      <4>1. cs[i].refs <= 1 /\ cs[i].owner = Len(fs) + 1
        BY <1>2, <3>1 DEF Taking, NewOwner
      <4>2. Len(fs) + 1 \in 1 .. Len(folders')
        BY <2>3
      <4> QED
        BY <2>2, <2>3, <3>1, <4>1, <4>2 DEF Solid, Pointed
    <3>2. CASE cs[i].stream # s
      <4>1. Solid(cs[i], fs)
        BY <3>2 DEF Taking
      <4> QED
        BY <2>3, <4>1 DEF Solid, Pointed
    <3> QED
      BY <3>1, <3>2
  <2> QED
    BY <2>1, <2>4 DEF AllSolid
<1> QED
  BY <1>1, <1>2

-----------------------------------------------------------------------------
(* To whom a connection points: one lemma per action.                      *)

LEMMA ReusePoints ==
  ASSUME IInv, AllPointed, NEW kind \in Kinds, NEW h \in Specs, Reuse(kind, h)
  PROVE  AllPointed'
<1>1. PICK i \in Found(h, HalfOpen(kind)) :
        LET s     == conns[i].stream
            taken == [conns EXCEPT ![i] = Taken(@, kind)]
        IN
        \/ /\ \E ss : Opened(kind, taken, ss, folders, s) \/ Refused(taken, ss, folders, s)
           /\ faults' = faults /\ (kind = "append" => conns[i].closing)
        \/ faults' = faults \cup {"shared"}
        \/ faults' = faults \cup {"broken"}
  <2>1. ~HalfOpen(kind) => kind # "append"
    BY DEF HalfOpen
  <2> QED
    BY <2>1 DEF Reuse
<1> SUFFICES ASSUME faults' \cap Strays = {}
             PROVE  AllSolid(conns', folders')
  BY DEF AllPointed
<1>2. AllSolid(conns, folders) /\ (kind = "append" => conns[i].closing)
  BY <1>1 DEF AllPointed, Strays
<1> DEFINE s     == conns[i].stream
           taken == [conns EXCEPT ![i] = Taken(@, kind)]
           c     == Taken(conns[i], kind)
<1>3. PICK ss : Opened(kind, taken, ss, folders, s) \/ Refused(taken, ss, folders, s)
  BY <1>1 DEF Strays
<1>4. /\ Len(streams) \in Nat /\ streams \in Seq(Stream)
      /\ ConnsOK(conns, Len(streams)) /\ conns \in Seq(Conn)
      /\ folders \in Seq(FolderRecord) /\ DOMAIN conns = 1 .. Len(conns)
  BY NumberOfStreams
<1>5. i \in 1 .. Len(conns) /\ (conns[i].closing \/ HalfOpen(kind))
  BY <1>4 DEF Found, Usable
<1>6. /\ conns[i] \in Conn /\ conns[i].refs \in Nat /\ s \in Nat
      /\ (conns[i].closing <=> conns[i].refs = 0)
  <2>1. conns[i] \in Conn /\ conns[i].refs \in Nat
    BY <1>4, <1>5, ConnTypes
  <2> QED
    BY <1>4, <1>5, <2>1 DEF ConnsOK, Conn
<1>7. ConnsOK(taken, Len(streams))
  <2>1. Ready(kind, taken, streams, folders, s)
    BY <1>4, <1>5, ReferenceTaken
  <2> QED
    BY <2>1 DEF Ready
<1>8. /\ Len(taken) = Len(conns) /\ taken[i] = c
      /\ \A j \in 1 .. Len(conns) : j # i => taken[j] = conns[j] /\ taken[j].stream # s
  BY <1>4, <1>5 DEF ConnsOK
<1>9. /\ c.refs = conns[i].refs + 1 /\ c.stream = s
      /\ c.owner = IF conns[i].closing THEN NewOwner(kind, folders) ELSE conns[i].owner
  BY <1>6 DEF Taken, Conn, Owner, NewOwner
<1> HIDE DEF c, taken, s
<1>10. \/ c.refs <= 1 /\ c.owner = NewOwner(kind, folders)
       \/ kind = "manage" /\ c.refs = 2 /\ Pointed(c, folders)
  <2>1. CASE conns[i].closing
    BY <1>6, <1>9, <2>1
  <2>2. CASE ~conns[i].closing
    <3>1. kind = "manage"
      BY <1>2, <1>5, <2>2 DEF HalfOpen
    <3>2. Solid(conns[i], folders)
      BY <1>2, <1>5 DEF AllSolid
    <3>3. conns[i].refs = 1
      BY <1>6, <2>2, <3>2 DEF Solid
    <3>4. Pointed(c, folders)
      BY <1>9, <2>2, <3>2 DEF Solid, Pointed, s
    <3> QED
      BY <1>9, <3>1, <3>3, <3>4
  <2> QED
    BY <2>1, <2>2
<1>11. Taking(kind, taken, folders, s)
  <2>1. \A j \in 1 .. Len(conns) : j # i => Solid(taken[j], folders)
    BY <1>2, <1>8 DEF AllSolid
  <2> QED
    BY <1>8, <1>9, <1>10, <2>1 DEF Taking
<1> QED
  BY <1>3, <1>4, <1>6, <1>7, <1>11, OpenPoints, RefusePoints

\* What was solid is so for folders that stay.
LEMMA StaysSolid ==
  ASSUME NEW c, NEW fs, NEW fs2, Len(fs2) = Len(fs), Solid(c, fs),
         c.owner \in 1 .. Len(fs)
           => /\ fs2[c.owner].open = fs[c.owner].open
              /\ fs2[c.owner].stream = fs[c.owner].stream
  PROVE  Solid(c, fs2)
BY DEF Solid, Pointed

LEMMA ConnectedPoints ==
  ASSUME IInv, AllPointed, NEW kind \in Kinds, NEW h \in Specs, NEW known,
         NEW fs \in Seq(FolderRecord), Len(fs) = Len(folders),
         \A f \in 1 .. Len(folders) :
           fs[f].open = folders[f].open /\ fs[f].stream = folders[f].stream,
         Connected(kind, h, known, fs), faults' = faults
  PROVE  AllPointed'
<1> SUFFICES ASSUME faults \cap Strays = {}
             PROVE  AllSolid(conns', folders')
  BY DEF AllPointed
<1> DEFINE n      == Len(streams)
           record == [stream |-> n + 1, host |-> h, refs |-> 1, closing |-> FALSE,
                      timer |-> FALSE, owner |-> Owner(kind)]
           cs     == IF known THEN conns ELSE <<record>> \o conns
           ss(half) == Append(streams, [half |-> half, live |-> TRUE, up |-> TRUE])
<1>1. n \in Nat /\ ConnsOK(conns, n) /\ conns \in Seq(Conn) /\ Len(folders) \in Nat
  BY NumberOfStreams
<1>2. \/ Opened(kind, cs, ss(HalfOpen(kind)), fs, n + 1)
      \/ Refused(cs, ss(TRUE), fs, n + 1)
  BY DEF Connected
<1>3. /\ record \in Conn /\ record.stream = n + 1 /\ record.refs = 1 /\ record.refs # 0
      /\ ~record.closing /\ ~record.timer /\ record.owner = NewOwner(kind, fs)
  <2>1. Owner(kind) \in Nat /\ Owner(kind) = NewOwner(kind, fs)
    BY <1>1 DEF Owner, Nobody, NewOwner
  <2> QED
    BY <1>1, <2>1 DEF Conn
<1> HIDE DEF record, n, ss
<1>4. ASSUME NEW k \in 1 .. Len(conns)
      PROVE  Solid(conns[k], fs) /\ conns[k].stream # n + 1
  <2>1. Solid(conns[k], folders)
    BY DEF AllPointed, AllSolid
  <2>2. Solid(conns[k], fs)
    BY <2>1, StaysSolid
  <2> QED
    BY <1>1, <2>2 DEF ConnsOK
<1>5. ConnsOK(cs, n + 1) /\ Taking(kind, cs, fs, n + 1)
  <2>1. CASE known
    <3>1. ConnsOK(conns, n + 1)
      BY <1>1 DEF ConnsOK
    <3> QED
      BY <1>4, <2>1, <3>1 DEF Taking
  <2>2. CASE ~known
    <3>1. cs = <<record>> \o conns
      BY <2>2
    <3> HIDE DEF cs
    <3>2. ConnsOK(cs, n + 1)
      BY <1>1, <1>3, <3>1, ConnAdded
    <3>3. \A j \in 1 .. Len(cs) : cs[j] = record \/ \E k \in 1 .. Len(conns) : cs[j] = conns[k]
      BY <1>1, <1>3, <3>1, HeadedElements
    <3> QED
      BY <1>3, <1>4, <3>2, <3>3 DEF Taking
  <2> QED
    BY <2>1, <2>2
<1>6. n + 1 \in Nat
  BY <1>1
<1> HIDE DEF cs
<1> QED
  BY <1>2, <1>5, <1>6, OpenPoints, RefusePoints

LEMMA ConnectPoints ==
  ASSUME IInv, AllPointed, NEW kind \in Kinds, NEW h \in Specs, Connect(kind, h)
  PROVE  AllPointed'
<1>1. /\ Connected(kind, h, Found(h, HalfOpen(kind)) # {}, Pinged(kind, h))
      /\ faults' = faults
  BY DEF Connect
<1> QED
  BY <1>1, PingedSame, ConnectedPoints

LEMMA AnswerPoints ==
  ASSUME IInv, AllPointed, NEW store \in BOOLEAN, Answer(store)
  PROVE  AllPointed'
<1>1. /\ Connected(dialog.kind, dialog.host, dialog.known, folders)
      /\ faults' = faults
  BY DEF Answer
<1>2. dialog.kind \in Kinds /\ dialog.host \in Specs
  BY DEF Answer, IInv, Dialog
<1>3. folders \in Seq(FolderRecord)
  BY NumberOfStreams
<1> QED
  BY <1>1, <1>2, <1>3, ConnectedPoints

\* A folder leaves its stream: the others, to which connections point, stay.
LEMMA LeavePoints ==
  ASSUME IInv, AllPointed, NEW f \in 1 .. Len(folders),
         folders[f].open, folders[f].stream # 0,
         NEW r \in FolderRecord, folders' = [folders EXCEPT ![f] = r],
         StreamClose(conns, streams, folders[f].stream), faults' = faults
  PROVE  AllPointed'
<1> SUFFICES ASSUME faults \cap Strays = {}
             PROVE  AllSolid(conns', folders')
  BY DEF AllPointed
<1> DEFINE s == folders[f].stream
           n == Len(streams)
<1>1. /\ n \in Nat /\ ConnsOK(conns, n) /\ conns \in Seq(Conn)
      /\ folders \in Seq(FolderRecord)
  BY NumberOfStreams
<1>2. AllSolid(conns, folders)
  BY DEF AllPointed
<1>3. /\ Len(folders') = Len(folders)
      /\ \A g \in 1 .. Len(folders) : g # f => folders'[g] = folders[g]
  BY <1>1
<1>4. ASSUME NEW i \in 1 .. Len(conns), conns[i].stream # s
      PROVE  Solid(conns[i], folders')
  <2>1. Solid(conns[i], folders)
    BY <1>2 DEF AllSolid
  <2>2. conns[i].owner \in 1 .. Len(folders) => conns[i].owner # f \/ conns[i].owner = Nobody
    BY <1>4, <2>1 DEF Solid, Pointed
  <2> QED
    BY <1>3, <2>1, <2>2 DEF Solid, Pointed
<1>5. \A i \in 1 .. Len(conns) : conns[i].refs <= 1
  BY <1>2 DEF AllSolid, Solid
<1>6. Closes(conns, streams, s, conns', streams')
  BY <1>1, StreamCloses
<1> HIDE DEF n, s
<1> QED
  BY <1>1, <1>4, <1>5, <1>6, ClosePoints

\* A folder without a stream is not pointed to.
LEMMA CloseFolderPoints ==
  ASSUME IInv, AllPointed, NEW f \in 1 .. Len(folders), CloseFolder(f)
  PROVE  AllPointed'
<1>1. NoFolder \in FolderRecord
  BY DEF NoFolder, FolderRecord, Kinds
<1>2. /\ folders[f].open /\ faults' = faults
      /\ folders' = [folders EXCEPT ![f] = NoFolder]
      /\ IF folders[f].stream = 0 THEN conns' = conns
         ELSE StreamClose(conns, streams, folders[f].stream)
  BY DEF CloseFolder
<1>3. CASE folders[f].stream # 0
  BY <1>1, <1>2, <1>3, LeavePoints
<1>4. CASE folders[f].stream = 0
  <2> SUFFICES ASSUME faults \cap Strays = {}, NEW i \in 1 .. Len(conns)
               PROVE  Solid(conns[i], folders')
    BY <1>2, <1>4 DEF AllPointed, AllSolid
  <2>1. folders \in Seq(FolderRecord) /\ ConnsOK(conns, Len(streams))
    BY NumberOfStreams
  <2>2. /\ Len(folders') = Len(folders)
        /\ \A g \in 1 .. Len(folders) : g # f => folders'[g] = folders[g]
    BY <1>2, <2>1
  <2>3. conns[i].stream # 0 /\ Solid(conns[i], folders)
    BY <2>1 DEF AllPointed, AllSolid, ConnsOK
  <2>4. Pointed(conns[i], folders) => conns[i].owner # f \/ conns[i].owner = Nobody
    BY <1>4, <2>3 DEF Pointed
  <2> QED
    BY <2>2, <2>3, <2>4 DEF Solid, Pointed
<1> QED
  BY <1>3, <1>4

LEMMA MasterLostPoints ==
  ASSUME IInv, AllPointed, NEW f \in 1 .. Len(folders), MasterLost(f)
  PROVE  AllPointed'
<1> DEFINE r == [folders[f] EXCEPT !.stream = 0]
<1>1. r \in FolderRecord
  <2>1. folders[f] \in FolderRecord
    <3>1. folders \in Seq(FolderRecord)
      BY NumberOfStreams
    <3> QED
      BY <3>1
  <2> QED
    BY <2>1 DEF FolderRecord
<1>2. /\ folders[f].open /\ folders[f].stream # 0 /\ faults' = faults
      /\ StreamClose(conns, streams, folders[f].stream)
      /\ folders' = [folders EXCEPT ![f] = r]
  BY DEF MasterLost
<1> HIDE DEF r
<1> QED
  BY <1>1, <1>2, LeavePoints

LEMMA CloseTimerPoints ==
  ASSUME IInv, AllPointed, NEW i \in 1 .. Len(conns), CloseTimer(i)
  PROVE  AllPointed'
<1>1. ConnsOK(conns, Len(streams)) /\ Len(streams) \in Nat
  BY NumberOfStreams
<1>2. conns' = RemoveAt(conns, i) /\ folders' = folders /\ faults' = faults
  BY DEF CloseTimer, CloseConnection
<1>3. \A j \in 1 .. Len(conns') : \E k \in 1 .. Len(conns) : conns'[j] = conns[k]
  BY <1>1, <1>2, ConnRemoved
<1> QED
  BY <1>2, <1>3 DEF AllPointed, AllSolid

\* A connection to a master's stream had no other user: it leaves the list.
LEMMA GoOfflinePoints ==
  ASSUME IInv, AllPointed, GoOffline
  PROVE  AllPointed'
<1>1. conns \in Seq(Conn) /\ DOMAIN folders = 1 .. Len(folders)
  BY NumberOfStreams
<1>2. PICK at : WentOffline(at)
  BY OfflineList
<1> SUFFICES ASSUME faults \cap Strays = {}, NEW k \in 1 .. Len(conns')
             PROVE  Solid(conns'[k], folders')
  BY OfflineList DEF AllPointed, AllSolid
<1> DEFINE c == conns[at[k]]
<1>3. /\ at[k] \in Used /\ at[k] \in 1 .. Len(conns)
      /\ conns'[k].stream = c.stream /\ conns'[k].owner = c.owner
      /\ conns'[k].refs # 0
      /\ conns'[k].refs = IF c.stream \in Masters THEN c.refs - 1 ELSE c.refs
  BY <1>2 DEF WentOffline
<1>4. conns'[k].refs \in Nat
  <2>1. conns' \in Seq(Conn)
    BY <1>2 DEF WentOffline
  <2> QED
    BY <2>1, ConnTypes
<1>5. c.refs \in Nat /\ Solid(c, folders)
  BY <1>1, <1>3, ConnTypes DEF AllPointed, AllSolid
<1> HIDE DEF c
<1>6. c.stream \notin Masters
  BY <1>3, <1>4, <1>5 DEF Solid
<1>7. ASSUME c.owner # Nobody
      PROVE  /\ c.owner \in 1 .. Len(folders) /\ ~Master(c.owner)
             /\ folders[c.owner].open /\ folders[c.owner].stream = c.stream
  <2>1. /\ c.owner \in 1 .. Len(folders)
        /\ folders[c.owner].open /\ folders[c.owner].stream = c.stream
    BY <1>5, <1>7 DEF Solid, Pointed
  <2> QED
    BY <1>1, <1>6, <2>1 DEF Masters
<1>8. /\ Len(folders') = Len(folders)
      /\ \A f \in 1 .. Len(folders) : ~Master(f) => folders'[f] = folders[f]
  BY <1>2 DEF WentOffline
<1>9. Pointed(conns'[k], folders')
  BY <1>3, <1>7, <1>8 DEF Pointed
<1> QED
  BY <1>3, <1>5, <1>6, <1>9 DEF Solid

LEMMA PurgePoints ==
  ASSUME IInv, AllPointed, Purge
  PROVE  AllPointed'
<1>1. /\ conns \in Seq(Conn) /\ DOMAIN conns = 1 .. Len(conns)
  BY NumberOfStreams
<1>2. CASE UNCHANGED <<conns, faults>>
  BY <1>2 DEF Purge, AllPointed
<1>3. ASSUME NEW i \in DOMAIN conns, conns' = [conns EXCEPT ![i].timer = FALSE],
             faults' = faults \cup {"unwritten"}
      PROVE  AllPointed'
  <2> SUFFICES ASSUME faults \cap Strays = {}
               PROVE  AllSolid(conns', folders)
    BY <1>3 DEF AllPointed, Purge
  <2> DEFINE c == [conns[i] EXCEPT !.timer = FALSE]
  <2>1. conns[i] \in Conn
    BY <1>1, ConnTypes
  <2>2. c.refs = conns[i].refs /\ c.owner = conns[i].owner /\ c.stream = conns[i].stream
    BY <2>1 DEF Conn
  <2>3. conns' = [conns EXCEPT ![i] = c]
    BY <1>3
  <2> HIDE DEF c
  <2>4. /\ Len(conns') = Len(conns) /\ conns'[i] = c
        /\ \A j \in 1 .. Len(conns) : j # i => conns'[j] = conns[j]
    BY <1>1, <1>3, <2>3
  <2>5. AllSolid(conns, folders)
    BY DEF AllPointed
  <2>6. Solid(c, folders)
    BY <1>1, <2>2, <2>5 DEF AllSolid, Solid, Pointed
  <2> QED
    BY <2>4, <2>5, <2>6 DEF AllSolid
<1> QED
  BY <1>2, <1>3 DEF Purge

-----------------------------------------------------------------------------
(* The theorem about what connections point to.                            *)

LEMMA InitPointed == Init => AllPointed
<1> SUFFICES ASSUME Init PROVE AllPointed
  OBVIOUS
<1>1. Len(conns) = 0 /\ 1 .. 0 = {}
  BY DEF Init
<1> QED
  BY <1>1 DEF AllPointed, AllSolid

LEMMA NextPointed == IInv /\ AllPointed /\ [Next]_vars => AllPointed'
<1> SUFFICES ASSUME IInv, AllPointed, [Next]_vars PROVE AllPointed'
  OBVIOUS
<1>1. DOMAIN conns = 1 .. Len(conns) /\ DOMAIN streams = 1 .. Len(streams)
      /\ DOMAIN folders = 1 .. Len(folders)
  BY NumberOfStreams
\* An error flag.
<1>2. ASSUME conns' = conns, faults' = faults, Len(folders') = Len(folders),
             \A f \in 1 .. Len(folders) :
               folders'[f].open = folders[f].open /\ folders'[f].stream = folders[f].stream
      PROVE  AllPointed'
  BY <1>2, StaysSolid DEF AllPointed, AllSolid
<1>3. ASSUME NEW kind \in Kinds, NEW h \in Specs,
             Reuse(kind, h) \/ Connect(kind, h) \/ Fail(kind, h) \/ Ask(kind, h)
      PROVE  AllPointed'
  <2>1. CASE Fail(kind, h) \/ Ask(kind, h)
    <3>1. conns' = conns /\ faults' = faults /\ folders' = Pinged(kind, h)
      BY <2>1 DEF Fail, Ask
    <3> QED
      BY <1>2, <3>1, PingedSame
  <2> QED
    BY <1>3, <2>1, ReusePoints, ConnectPoints
<1>4. ASSUME NEW store \in BOOLEAN, Answer(store)
      PROVE  AllPointed'
  BY <1>4, AnswerPoints
<1>5. ASSUME NEW f \in DOMAIN folders, CloseFolder(f) \/ MasterLost(f)
      PROVE  AllPointed'
  BY <1>1, <1>5, CloseFolderPoints, MasterLostPoints
<1>6. ASSUME NEW f \in DOMAIN folders, Bye(f)
      PROVE  AllPointed'
  <2>1. PICK owner : conns' = conns /\ faults' = faults /\ folders' = Notified(owner)
    BY <1>6 DEF Bye
  <2> QED
    BY <1>2, <2>1, NotifiedSame
<1>7. ASSUME NEW f \in DOMAIN folders, Lost(f)
      PROVE  AllPointed'
  BY <1>7 DEF Lost, AllPointed, Strays
<1>8. CASE Purge
  BY <1>8, PurgePoints
<1>9. CASE Restart
  <2>1. conns' = <<>>
    BY <1>9 DEF Restart
  <2>2. Len(conns') = 0 /\ 1 .. 0 = {}
    BY <2>1
  <2> QED
    BY <2>2 DEF AllPointed, AllSolid
<1>10. CASE GoOffline
  BY <1>10, GoOfflinePoints
<1>11. ASSUME NEW i \in DOMAIN conns, CloseTimer(i)
       PROVE  AllPointed'
  BY <1>1, <1>11, CloseTimerPoints
<1>12. CASE UNCHANGED <<conns, folders, faults>>
  BY <1>12 DEF AllPointed
<1>13. /\ GiveUp \/ (\E i \in DOMAIN cache : EraseTimer(i)) \/ UNCHANGED vars
            => UNCHANGED <<conns, folders, faults>>
       /\ \A s \in DOMAIN streams : Drop(s) => UNCHANGED <<conns, folders, faults>>
  BY DEF GiveUp, EraseTimer, Drop, vars
<1> QED
  BY <1>3, <1>4, <1>5, <1>6, <1>7, <1>8, <1>9, <1>10, <1>11, <1>12, <1>13
     DEF Next, User, Events

\* The handlers and the error flag that a connection points to are those of a
\* folder that is open and has its stream, when folders of any kinds open, share
\* and close streams (Std_StreamOpen, Std_StreamClose) and go off line; unless a
\* folder was closed without its stream, a connection broke while mail_open took
\* its stream into use again, or a folder was opened to append to a mailbox of a
\* connection in use.
THEOREM PointersToOpenFolders == Spec => []OwnersOpen
<1>1. IInv /\ AllPointed => OwnersOpen
  <2> SUFFICES ASSUME IInv, AllPointed, faults \cap Strays = {},
                      NEW i \in DOMAIN conns, conns[i].owner # Nobody
               PROVE  /\ conns[i].owner \in DOMAIN folders /\ InUse(conns[i].owner)
                      /\ folders[conns[i].owner].stream = conns[i].stream
    BY DEF OwnersOpen, Strays
  <2>1. /\ ConnsOK(conns, Len(streams)) /\ DOMAIN conns = 1 .. Len(conns)
        /\ DOMAIN folders = 1 .. Len(folders)
    BY NumberOfStreams
  <2>2. Pointed(conns[i], folders)
    BY <2>1 DEF AllPointed, AllSolid, Solid
  <2>3. conns[i].stream # 0
    BY <2>1 DEF ConnsOK
  <2> QED
    BY <2>1, <2>2, <2>3 DEF Pointed, InUse
<1> QED
  BY <1>1, InitPointed, NextPointed, Invariance, PTL DEF Spec

=============================================================================
