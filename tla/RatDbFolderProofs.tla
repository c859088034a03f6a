-------------------------- MODULE RatDbFolderProofs --------------------------
(***************************************************************************)
(* The commands, the order and the rows of a database folder belong to its *)
(* messages, for any number of folders, entries and operations.            *)
(***************************************************************************)
EXTENDS RatDbFolder, SequenceLemmas, TLAPS

\* What the files and the memory hold.
Database == [keys : Seq(SUBSET Folders), gone : SUBSET Nat, marked : SUBSET Nat]

\* What a folder keeps.
Commands == [no : Nat, entry : Nat]

View == [list : Seq(Nat), cmds : Seq(Commands), order : Seq(Nat),
         rows : Seq(Nat), held : BOOLEAN]

\* There is a place for the command of each message.
Even(r) == Len(r.cmds) = Len(r.list)

\* The order presents each of n messages once.
Presents(r, n) == Len(r.order) = n /\ ToSet(r.order) = 1 .. n

\* The window shows the messages in this order.
Shows(r) == r.rows # Cleared => r.rows = Rows(r.list, r.order)

Right(r) == EntriesRight(r) /\ Presents(r, Len(r.list)) /\ Shows(r)

\* The inductive invariant: the last conjunct is RowsRight.
IInv ==
  /\ disk \in Database /\ mem \in Database
  /\ folder \in [Opened -> View]
  /\ \A f \in Opened : Even(folder[f])
  /\ \A f \in Opened \ displaced : Right(folder[f])

LEMMA InvariantRows == ASSUME IInv PROVE RowsRight
<1> SUFFICES ASSUME NEW f \in Opened \ displaced
             PROVE  LET r == folder[f] IN
                    /\ EntriesRight(r)
                    /\ Len(r.order) = Len(r.list) /\ ToSet(r.order) = DOMAIN r.list
                    /\ r.rows # Cleared => r.rows = Rows(r.list, r.order)
  BY DEF RowsRight
<1>1. Right(folder[f]) /\ folder[f] \in View
  BY DEF IInv
<1>2. DOMAIN folder[f].list = 1 .. Len(folder[f].list)
  BY <1>1 DEF View
<1> QED
  BY <1>1, <1>2 DEF Right, Presents, Shows

-----------------------------------------------------------------------------
(* The operators.                                                          *)

\* A command holds two numbers.
LEMMA CommandType ==
  /\ \A no, entry \in Nat :
       Command(no, entry) \in Commands /\ Command(no, entry).entry = entry
  /\ NoCommand \in Commands
BY DEF Command, NoCommand, Commands, Nothing

\* The first n elements of a sequence.
LEMMA Shortened ==
  ASSUME NEW S, NEW s \in Seq(S), NEW n \in 0 .. Len(s)
  PROVE  SubSeq(s, 1, n) \in Seq(S) /\ Len(SubSeq(s, 1, n)) = n
OBVIOUS

\* Two of them, one behind the other.
LEMMA Joined ==
  ASSUME NEW S, NEW s \in Seq(S), NEW t \in Seq(S)
  PROVE  /\ s \o t \in Seq(S) /\ Len(s \o t) = Len(s) + Len(t)
         /\ \A i \in 1 .. Len(s) : (s \o t)[i] = s[i]
         /\ \A i \in 1 .. Len(t) : (s \o t)[Len(s) + i] = t[i]
OBVIOUS

\* What is as long as its beginning is the same.
LEMMA Whole ==
  ASSUME NEW s \in Seq(Nat), NEW t \in Seq(Nat), Len(s) = Len(t),
         \A i \in 1 .. Len(s) : s[i] = t[i]
  PROVE  s = t
OBVIOUS

\* Selecting from the first n numbers.
LEMMA Ordered ==
  ASSUME NEW n \in Nat, NEW S
  PROVE  Selected([e \in 1 .. n |-> e], S) \in Seq(1 .. n)
<1> DEFINE s == [e \in 1 .. n |-> e]
<1>1. s \in Seq(1 .. n)
  OBVIOUS
<1> HIDE DEF s
<1>2. Selected(s, S) \in Seq(1 .. n)
  BY <1>1, SelectedSelects
<1> QED
  BY <1>2 DEF s

\* A sequence with another element at i.
LEMMA Replaced ==
  ASSUME NEW S, NEW s \in Seq(S), NEW i, NEW e \in S
  PROVE  /\ [s EXCEPT ![i] = e] \in Seq(S) /\ Len([s EXCEPT ![i] = e]) = Len(s)
         /\ \A j \in 1 .. Len(s) : [s EXCEPT ![i] = e][j] = IF j = i THEN e ELSE s[j]
<1> DEFINE n == Len(s)
           t == [s EXCEPT ![i] = e]
<1>1. n \in Nat /\ s \in [1 .. n -> S]
  OBVIOUS
<1> HIDE DEF n
<1>2. t \in [1 .. n -> S] /\ \A j \in 1 .. n : t[j] = IF j = i THEN e ELSE s[j]
  BY <1>1
<1> HIDE DEF t
<1>3. t \in Seq(S) /\ Len(t) = n
  BY <1>1, <1>2
<1> QED
  BY <1>2, <1>3 DEF n, t

\* A search finds numbers.
LEMMA Searched ==
  ASSUME NEW db \in Database, NEW f
  PROVE  Search(f, db) \in Seq(Nat)
<1> DEFINE S == {e \in Entries(db) : e \notin db.gone /\ f \in db.keys[e]}
<1>1. Len(db.keys) \in Nat
  BY DEF Database
<1>2. Search(f, db) = Selected([e \in 1 .. Len(db.keys) |-> e], S)
  BY DEF Search, Entries
<1> HIDE DEF S
<1>3. Search(f, db) \in Seq(1 .. Len(db.keys))
  BY <1>1, <1>2, Ordered
<1> QED
  BY <1>1, <1>3

\* The order of n messages, forwards or backwards.
LEMMA SortedOrder ==
  ASSUME NEW f, NEW n \in Nat
  PROVE  /\ Sorted(f, n) \in Seq(Nat) /\ Len(Sorted(f, n)) = n
         /\ ToSet(Sorted(f, n)) = 1 .. n
<1> DEFINE o == [i \in 1 .. n |-> i]
           b == [i \in 1 .. n |-> (n - i) + 1]
<1>1. o \in Seq(Nat) /\ Len(o) = n /\ DOMAIN o = 1 .. n /\ \A i \in 1 .. n : o[i] = i
  OBVIOUS
<1>2. b \in Seq(Nat) /\ Len(b) = n /\ DOMAIN b = 1 .. n /\ \A i \in 1 .. n : b[i] = (n - i) + 1
  OBVIOUS
<1>3. Reverse(o) = b
  BY DEF Reverse
<1>4. Sorted(f, n) = IF f \in Reversed THEN Reverse(o) ELSE o
  BY DEF Sorted
<1> HIDE DEF o, b
<1>5. ToSet(o) = 1 .. n
  BY <1>1 DEF ToSet
<1>6. ToSet(b) = 1 .. n
  <2>1. \A i \in 1 .. n : b[i] \in 1 .. n
    BY <1>2
  <2>2. \A k \in 1 .. n : (n - k) + 1 \in 1 .. n /\ b[(n - k) + 1] = k
    BY <1>2
  <2> QED
    BY <1>2, <2>1, <2>2 DEF ToSet
<1> QED
  BY <1>1, <1>2, <1>3, <1>4, <1>5, <1>6

\* The rows are numbers, whatever the order.
LEMMA RowsNumbers ==
  ASSUME NEW list \in Seq(Nat), NEW order
  PROVE  Rows(list, order) \in Seq(Nat)
<1> DEFINE row(k) == IF order[k] \in DOMAIN list THEN list[order[k]] ELSE Nothing
<1>1. Len(list) \in Nat /\ DOMAIN list = 1 .. Len(list)
  OBVIOUS
<1>2. \A k \in DOMAIN list : list[k] \in Nat
  OBVIOUS
<1>3. \A k \in DOMAIN list : row(k) \in Nat
  BY <1>2 DEF Nothing
<1>4. Rows(list, order) = [k \in 1 .. Len(list) |-> row(k)]
  BY <1>1 DEF Rows
<1> HIDE DEF row
<1> QED
  BY <1>1, <1>3, <1>4

\* The expunge keeps a command with its message.
LEMMA KeptView ==
  ASSUME NEW r \in View, Even(r), NEW gone
  PROVE  /\ Kept(r, gone) \in View /\ Even(Kept(r, gone))
         /\ EntriesRight(r) => EntriesRight(Kept(r, gone))
         /\ Kept(r, gone).order = r.order /\ Kept(r, gone).rows = r.rows
<1> DEFINE I == {i \in DOMAIN r.list : r.list[i] \notin gone}
           at == Selected([i \in DOMAIN r.list |-> i], I)
           l == [k \in DOMAIN at |-> r.list[at[k]]]
           c == [k \in DOMAIN at |-> r.cmds[at[k]]]
<1>1. Kept(r, gone) = [r EXCEPT !.list = l, !.cmds = c]
  BY DEF Kept
<1>2. r.list \in Seq(Nat) /\ r.cmds \in Seq(Commands) /\ Len(r.list) \in Nat
      /\ DOMAIN r.list = 1 .. Len(r.list) /\ DOMAIN r.cmds = DOMAIN r.list
  BY DEF View, Even
<1>3. at \in Seq(DOMAIN r.list)
  <2> HIDE DEF I
  <2> QED
    BY <1>2, Ordered
<1> HIDE DEF at, I
<1>4. DOMAIN at = 1 .. Len(at) /\ Len(at) \in Nat /\ \A k \in DOMAIN at : at[k] \in DOMAIN r.list
  BY <1>3
<1>5. \A k \in DOMAIN at : r.list[at[k]] \in Nat /\ r.cmds[at[k]] \in Commands
  BY <1>2, <1>4
<1>6. l \in Seq(Nat) /\ c \in Seq(Commands) /\ Len(l) = Len(at) /\ Len(c) = Len(at)
  BY <1>4, <1>5
<1>7. /\ DOMAIN l = DOMAIN at
      /\ \A k \in DOMAIN at : l[k] = r.list[at[k]] /\ c[k] = r.cmds[at[k]]
  OBVIOUS
<1> HIDE DEF l, c
<1>8. Kept(r, gone) \in View
  BY <1>1, <1>6 DEF View
<1>9. /\ Kept(r, gone).list = l /\ Kept(r, gone).cmds = c
      /\ Kept(r, gone).order = r.order /\ Kept(r, gone).rows = r.rows
  BY <1>1 DEF View
<1>10. EntriesRight(r) => EntriesRight(Kept(r, gone))
  BY <1>4, <1>7, <1>9 DEF EntriesRight
<1> QED
  BY <1>6, <1>8, <1>9, <1>10 DEF Even

-----------------------------------------------------------------------------
(* An update.                                                              *)

\* What Refreshed() makes of a folder, whatever the search finds.
LEMMA RefreshedView ==
  ASSUME NEW f, NEW r \in View, Even(r), NEW old, NEW db \in Database,
         NEW asking \in BOOLEAN
  PROVE  LET new == Refreshed(f, r, old, db, asking) IN new \in View /\ Even(new)
<1> DEFINE found == Search(f, db)
           more == [i \in 1 .. Len(found) - Len(r.list) |-> NoCommand]
           new == Refreshed(f, r, old, db, asking)
<1>1. found \in Seq(Nat) /\ Len(found) \in Nat
  <2>1. found \in Seq(Nat)
    BY Searched
  <2> QED
    BY <2>1
<1>2. /\ r.list \in Seq(Nat) /\ r.cmds \in Seq(Commands) /\ r.order \in Seq(Nat)
      /\ r.rows \in Seq(Nat) /\ r.held \in BOOLEAN
      /\ Len(r.list) \in Nat /\ Len(r.cmds) = Len(r.list)
  BY DEF View, Even
<1>3. Sorted(f, Len(found)) \in Seq(Nat)
  BY <1>1, SortedOrder
<1>4. Cleared \in Seq(Nat)
  BY DEF Cleared
<1> HIDE DEF found
<1>5. ~(Len(found) < Len(r.list)) => more \in Seq(Commands) /\ Len(more) = Len(found) - Len(r.list)
  BY <1>1, <1>2, CommandType
<1> HIDE DEF more
<1> DEFINE list == IF Differs(r.list, found) THEN found ELSE r.list
           fewer == Len(found) < Len(r.list)
           unlike == Len(found) > Len(r.list) \/ Len(found) # old
           order == IF ~fewer /\ unlike THEN Sorted(f, Len(found)) ELSE r.order
           drawn == r.rows # Cleared /\ Redrawn(asking, found, old)
           cmds == IF fewer THEN SubSeq(r.cmds, 1, Len(found)) ELSE r.cmds \o more
           rows == CASE fewer  -> IF asking THEN Cleared ELSE r.rows
                     [] ~fewer -> IF drawn THEN Rows(list, order) ELSE r.rows
           held == r.held \/ (fewer /\ asking)
<1>6. new = [list |-> list, cmds |-> cmds, order |-> order, rows |-> rows, held |-> held]
  BY DEF Refreshed, found, more
<1>7. list = found
  BY DEF Differs
<1>8. order \in Seq(Nat) /\ held \in BOOLEAN
  BY <1>2, <1>3
<1>9. rows \in Seq(Nat)
  <2>1. Rows(list, order) \in Seq(Nat)
    <3> HIDE DEF list, order
    <3> QED
      BY <1>1, <1>7, RowsNumbers
  <2> HIDE DEF list, order, drawn
  <2> QED
    BY <1>2, <1>4, <2>1
<1>10. cmds \in Seq(Commands) /\ Len(cmds) = Len(found)
  <2>1. CASE fewer
    <3>1. cmds = SubSeq(r.cmds, 1, Len(found))
      BY <2>1
    <3>2. Len(found) \in 0 .. Len(r.cmds)
      BY <1>1, <1>2, <2>1
    <3> HIDE DEF cmds
    <3>3. r.cmds \in Seq(Commands)
      BY <1>2
    <3> DEFINE c == r.cmds
               n == Len(found)
    <3>4. c \in Seq(Commands) /\ n \in 0 .. Len(c)
      BY <3>2, <3>3
    <3>5. cmds = SubSeq(c, 1, n)
      BY <3>1
    <3> HIDE DEF c, n
    <3>6. cmds \in Seq(Commands) /\ Len(cmds) = n
      BY ONLY <3>4, <3>5, Shortened
    <3> QED
      BY <3>6 DEF n
  <2>2. CASE ~fewer
    <3> DEFINE c == r.cmds
    <3>1. cmds = c \o more
      BY <2>2
    <3>2. c \in Seq(Commands) /\ more \in Seq(Commands)
      BY <1>2, <1>5, <2>2
    <3>3. Len(c) + Len(more) = Len(found)
      BY <1>1, <1>2, <1>5, <2>2
    <3> HIDE DEF c, cmds
    <3>4. cmds \in Seq(Commands) /\ Len(cmds) = Len(c) + Len(more)
      BY ONLY <3>1, <3>2, Joined
    <3> QED
      BY <3>3, <3>4
  <2> QED
    BY <2>1, <2>2
<1> HIDE DEF list, cmds, order, rows, held
<1>11. new \in View
  BY <1>1, <1>6, <1>7, <1>8, <1>9, <1>10 DEF View
<1>12. new.list = found /\ new.cmds = cmds
  BY <1>6, <1>7
<1> HIDE DEF new
<1> QED
  BY <1>10, <1>11, <1>12 DEF Even, new

\* A folder that finds what it has left, and more: its parts belong together,
\* also when its order is that of the messages before an expunge.
LEMMA RefreshedRight ==
  ASSUME NEW f, NEW r \in View, Even(r), NEW old \in Nat, NEW db \in Database,
         NEW asking \in BOOLEAN, IsPrefix(r.list, Search(f, db)),
         EntriesRight(r), Presents(r, old),
         ~asking => old = Len(r.list) /\ Shows(r)
  PROVE  Right(Refreshed(f, r, old, db, asking))
<1> DEFINE found == Search(f, db)
           more == [i \in 1 .. Len(found) - Len(r.list) |-> NoCommand]
           unlike == Len(found) > Len(r.list) \/ Len(found) # old
           order == IF unlike THEN Sorted(f, Len(found)) ELSE r.order
           drawn == r.rows # Cleared /\ Redrawn(asking, found, old)
           rows == IF drawn THEN Rows(found, order) ELSE r.rows
           new == Refreshed(f, r, old, db, asking)
<1>1. found \in Seq(Nat) /\ Len(found) \in Nat
  <2>1. found \in Seq(Nat)
    BY Searched
  <2> QED
    BY <2>1
<1>2. /\ r.list \in Seq(Nat) /\ r.cmds \in Seq(Commands)
      /\ Len(r.list) \in Nat /\ Len(r.cmds) = Len(r.list)
      /\ DOMAIN r.list = 1 .. Len(r.list)
  BY DEF View, Even
<1>3. Len(r.list) <= Len(found) /\ \A i \in 1 .. Len(r.list) : r.list[i] = found[i]
  <2>1. IsPrefix(r.list, found)
    OBVIOUS
  <2> HIDE DEF found
  <2>2. Leads(r.list, found)
    BY <1>1, <1>2, <2>1, PrefixLeads
  <2> QED
    BY <2>2 DEF Leads
<1>4. /\ new.list = found /\ new.cmds = r.cmds \o more
      /\ new.order = order /\ new.rows = rows
  <2>1. ~(Len(found) < Len(r.list))
    BY <1>1, <1>2, <1>3
  <2>2. (IF Differs(r.list, found) THEN found ELSE r.list) = found
    BY DEF Differs
  <2> QED
    BY <2>1, <2>2 DEF Refreshed
<1> HIDE DEF found, new
<1>5. EntriesRight(new)
  <2>1. more \in Seq(Commands) /\ Len(more) = Len(found) - Len(r.list)
        /\ \A i \in 1 .. Len(more) : more[i] = NoCommand
    BY <1>1, <1>2, <1>3, CommandType
  <2> HIDE DEF more
  <2> DEFINE c == r.cmds \o more
  <2>2. /\ \A i \in 1 .. Len(r.cmds) : c[i] = r.cmds[i]
        /\ \A i \in 1 .. Len(more) : c[Len(r.cmds) + i] = more[i]
    <3>1. r.cmds \in Seq(Commands) /\ more \in Seq(Commands)
      BY <1>2, <2>1
    <3> QED
      BY <3>1, Joined
  <2> HIDE DEF c
  <2>3. \A i \in 1 .. Len(r.list) : c[i] = r.cmds[i]
    BY <1>2, <2>2
  <2>4. \A i \in 1 .. Len(more) : c[Len(r.list) + i] = more[i]
    BY <1>2, <2>2
  <2>5. new.cmds = c /\ new.list = found
    BY <1>4 DEF c
  <2>6. ASSUME NEW i \in 1 .. Len(found) PROVE c[i] = NoCommand \/ c[i].entry = found[i]
    <3>1. CASE i <= Len(r.list)
      <4>1. i \in 1 .. Len(r.list)
        BY <1>1, <1>2, <3>1
      <4>2. r.cmds[i] = NoCommand \/ r.cmds[i].entry = r.list[i]
        BY <1>2, <4>1 DEF EntriesRight
      <4> QED
        BY <1>3, <2>3, <4>1, <4>2
    <3>2. CASE ~(i <= Len(r.list))
      <4> DEFINE k == i - Len(r.list)
      <4>1. k \in 1 .. Len(more) /\ Len(r.list) + k = i
        BY <1>1, <1>2, <2>1, <3>2
      <4> HIDE DEF k
      <4> QED
        BY <2>1, <2>4, <4>1
    <3> QED
      BY <3>1, <3>2
  <2>7. DOMAIN found = 1 .. Len(found)
    BY <1>1
  <2> QED
    BY <2>5, <2>6, <2>7 DEF EntriesRight
<1>6. Presents(new, Len(found))
  <2>1. CASE unlike
    BY <1>1, <1>4, <2>1, SortedOrder DEF Presents
  <2>2. CASE ~unlike
    BY <1>1, <1>4, <2>2 DEF Presents
  <2> QED
    BY <2>1, <2>2
<1>7. Shows(new)
  <2>1. CASE drawn
    BY <1>4, <2>1 DEF Shows
  <2>2. CASE r.rows # Cleared /\ ~drawn
    <3>1. ~asking /\ Len(found) = old
      BY <2>2 DEF Redrawn
    <3>2. old = Len(r.list) /\ Shows(r)
      BY <3>1
    <3>3. r.list = found
      <4>1. Len(r.list) = Len(found) /\ \A i \in 1 .. Len(r.list) : r.list[i] = found[i]
        BY <1>3, <3>1, <3>2
      <4> QED
        BY <1>1, <1>2, <4>1, Whole
    <3>4. ~unlike
      BY <1>1, <1>2, <3>1, <3>2
    <3>5. r.rows = Rows(r.list, r.order)
      BY <2>2, <3>2 DEF Shows
    <3>6. order = r.order /\ rows = r.rows
      BY <2>2, <3>4
    <3> QED
      BY <1>4, <3>3, <3>5, <3>6 DEF Shows
  <2>3. CASE r.rows = Cleared
    BY <1>4, <2>3 DEF Shows
  <2> QED
    BY <2>1, <2>2, <2>3
<1> QED
  BY <1>4, <1>5, <1>6, <1>7 DEF Right, new

-----------------------------------------------------------------------------
(* The operations on the database.                                         *)

LEMMA InsertedDatabase ==
  ASSUME NEW db \in Database, NEW keys \in SUBSET Folders
  PROVE  Inserted(db, keys) \in Database
<1>1. db.keys \in Seq(SUBSET Folders)
  BY DEF Database
<1>2. Append(db.keys, keys) \in Seq(SUBSET Folders)
  BY <1>1
<1> QED
  BY <1>2 DEF Inserted, Database

LEMMA ExpungedDatabase ==
  ASSUME NEW db \in Database, mem \in Database
  PROVE  Expunged(db) \in Database
BY DEF Expunged, Database

LEMMA ChangedKeys ==
  ASSUME NEW db \in Database, NEW e, NEW keys \in SUBSET Folders
  PROVE  [db EXCEPT !.keys[e] = keys] \in Database
<1> DEFINE new == [db.keys EXCEPT ![e] = keys]
<1>1. db.keys \in Seq(SUBSET Folders)
  BY DEF Database
<1>2. new \in Seq(SUBSET Folders)
  BY <1>1, Replaced
<1>3. [db EXCEPT !.keys[e] = keys] = [db EXCEPT !.keys = new]
  OBVIOUS
<1> HIDE DEF new
<1> QED
  BY <1>2, <1>3 DEF Database

\* RAT_UPDATE of the folders F, which no window has called for.
LEMMA UpdateStep ==
  ASSUME IInv, NEW F, NEW db \in Database, Update(F, db)
  PROVE  /\ folder' \in [Opened' -> View]
         /\ \A f \in Opened' : Even(folder'[f])
         /\ \A f \in Opened' \ displaced' : Right(folder'[f])
<1> DEFINE new(f) == IF f \in F THEN Refreshed(f, folder[f], Len(folder[f].list), db, FALSE)
                     ELSE folder[f]
<1>1. folder' = [f \in Opened |-> new(f)] /\ Opened' = Opened
  BY DEF Update, Opened
<1>2. ASSUME NEW f \in Opened
      PROVE  /\ folder[f] \in View /\ Even(folder[f]) /\ Len(folder[f].list) \in Nat
             /\ f \notin displaced => Right(folder[f])
  BY DEF IInv, View
<1>3. ASSUME NEW f \in Opened PROVE new(f) \in View /\ Even(new(f))
  BY <1>2, RefreshedView
<1>4. ASSUME NEW f \in Opened, f \notin displaced' PROVE Right(new(f))
  <2>1. f \notin displaced /\ (f \in F => IsPrefix(folder[f].list, Search(f, db)))
    BY <1>4 DEF Update, Displaced
  <2>2. Right(folder[f])
    BY <1>2, <2>1
  <2>3. CASE f \in F
    BY <1>2, <2>1, <2>2, <2>3, RefreshedRight DEF Right
  <2> QED
    BY <2>2, <2>3
<1> HIDE DEF new
<1> QED
  BY <1>1, <1>3, <1>4

-----------------------------------------------------------------------------
(* The steps.                                                              *)

\* A step that changes one open folder only.
LEMMA OneFolder ==
  ASSUME IInv, NEW f \in Opened, NEW r \in View, Even(r),
         folder' = [folder EXCEPT ![f] = r],
         disk' \in Database, mem' \in Database, displaced \subseteq displaced',
         f \notin displaced' => Right(r)
  PROVE  IInv'
<1>1. Opened' = Opened /\ folder' \in [Opened -> View]
  BY DEF IInv, Opened
<1>2. \A g \in Opened : folder'[g] = IF g = f THEN r ELSE folder[g]
  BY DEF IInv
<1>3. \A g \in Opened : Even(folder'[g])
  BY <1>2 DEF IInv
<1>4. \A g \in Opened \ displaced' : Right(folder'[g])
  BY <1>2 DEF IInv
<1> QED
  BY <1>1, <1>3, <1>4 DEF IInv

LEMMA OpenStep ==
  ASSUME IInv, NEW f \in Folders, Open(f)
  PROVE  IInv'
<1>1. CASE f \notin Opened /\ Write(disk)
  <2> DEFINE found == Search(f, disk)
             order == Sorted(f, Len(found))
             cmds == [i \in DOMAIN found |-> NoCommand]
             rows == Rows(found, order)
             r == [list |-> found, cmds |-> cmds, order |-> order, rows |-> rows,
                   held |-> FALSE]
  <2>1. /\ folder' = [g \in Opened \cup {f} |-> IF g = f THEN r ELSE folder[g]]
        /\ displaced' = displaced \ {f}
    BY <1>1 DEF Open
  <2>2. found \in Seq(Nat)
    BY Searched DEF IInv
  <2> HIDE DEF found
  <2>3. Len(found) \in Nat /\ DOMAIN found = 1 .. Len(found)
    BY <2>2
  <2>4. /\ order \in Seq(Nat) /\ Len(order) = Len(found)
        /\ ToSet(order) = 1 .. Len(found)
    BY <2>3, SortedOrder
  <2> HIDE DEF order
  <2>5. rows \in Seq(Nat)
    BY <2>2, RowsNumbers
  <2>6. /\ cmds \in Seq(Commands) /\ Len(cmds) = Len(found)
        /\ \A i \in DOMAIN found : cmds[i] = NoCommand
    BY <2>3, CommandType
  <2>7. r.list = found /\ r.cmds = cmds /\ r.order = order /\ r.rows = rows
    OBVIOUS
  <2>8. r \in View
    <3> HIDE DEF cmds, rows
    <3> QED
      BY <2>2, <2>4, <2>5, <2>6 DEF View
  <2>9. r.rows = Rows(r.list, r.order)
    BY <2>7
  <2> HIDE DEF cmds, rows, r
  <2>10. Even(r) /\ Right(r)
    BY <2>4, <2>6, <2>7, <2>9 DEF Even, Right, EntriesRight, Presents, Shows
  <2>11. Opened' = Opened \cup {f}
    BY <2>1 DEF Opened
  <2>12. \A g \in Opened' : folder'[g] = IF g = f THEN r ELSE folder[g]
    BY <2>1, <2>11
  <2>13. folder' \in [Opened' -> View]
    BY <2>1, <2>8, <2>11 DEF IInv
  <2>14. \A g \in Opened' : Even(folder'[g])
    BY <2>10, <2>11, <2>12 DEF IInv
  <2>15. \A g \in Opened' \ displaced' : Right(folder'[g])
    BY <2>1, <2>10, <2>11, <2>12 DEF IInv
  <2>16. disk' \in Database /\ mem' \in Database
    BY <1>1 DEF Write, IInv
  <2> QED
    BY <2>13, <2>14, <2>15, <2>16 DEF IInv
<1>2. CASE f \in Opened /\ Open(f)
  <2> DEFINE l == folder[f].list
             o == folder[f].order
             r == [folder[f] EXCEPT !.rows = Rows(l, o)]
  <2>1. folder[f] \in View /\ Even(folder[f]) /\ (f \notin displaced => Right(folder[f]))
    BY <1>2 DEF IInv
  <2>2. folder' = [folder EXCEPT ![f] = r] /\ UNCHANGED <<disk, mem, displaced>>
    BY <1>2 DEF Open, Unread
  <2>3. Rows(l, o) \in Seq(Nat)
    BY <2>1, RowsNumbers DEF View
  <2>4. /\ r \in View /\ r.list = l /\ r.cmds = folder[f].cmds /\ r.order = o
        /\ r.rows = Rows(l, o)
    BY <2>1, <2>3 DEF View
  <2> HIDE DEF r
  <2>5. Even(r) /\ (f \notin displaced => Right(r))
    BY <2>1, <2>4 DEF Even, Right, EntriesRight, Presents, Shows
  <2>6. disk' \in Database /\ mem' \in Database /\ displaced' = displaced
    BY <2>2 DEF IInv
  <2> QED
    BY <1>2, <2>2, <2>4, <2>5, <2>6, OneFolder
<1> QED
  BY <1>1, <1>2 DEF Open

LEMMA CloseStep ==
  ASSUME IInv, NEW f, Close(f)
  PROVE  IInv'
<1>1. f \in Opened /\ UNCHANGED <<disk, mem, displaced>>
  BY DEF Close, Unread
<1>2. CASE folder[f].held
  <2> DEFINE r == [folder[f] EXCEPT !.rows = Cleared]
  <2>1. folder[f] \in View /\ Even(folder[f]) /\ (f \notin displaced => Right(folder[f]))
    BY <1>1 DEF IInv
  <2>2. folder' = [folder EXCEPT ![f] = r]
    BY <1>2 DEF Close
  <2>3. /\ r \in View /\ r.list = folder[f].list /\ r.cmds = folder[f].cmds
        /\ r.order = folder[f].order /\ r.rows = Cleared
    <3>1. Cleared \in Seq(Nat)
      BY DEF Cleared
    <3> QED
      BY <2>1, <3>1 DEF View
  <2> HIDE DEF r
  <2>4. Even(r) /\ (f \notin displaced => Right(r))
    BY <2>1, <2>3 DEF Even, Right, EntriesRight, Presents, Shows
  <2>5. disk' \in Database /\ mem' \in Database /\ displaced' = displaced
    BY <1>1 DEF IInv
  <2> QED
    BY <1>1, <2>2, <2>3, <2>4, <2>5, OneFolder
<1>3. CASE ~folder[f].held
  <2>1. folder' = [g \in Opened \ {f} |-> folder[g]]
    BY <1>3 DEF Close
  <2>2. Opened' = Opened \ {f} /\ \A g \in Opened' : folder'[g] = folder[g]
    BY <2>1 DEF Opened
  <2>3. folder' \in [Opened' -> View]
    BY <2>1, <2>2 DEF IInv
  <2> QED
    BY <1>1, <2>2, <2>3 DEF IInv
<1> QED
  BY <1>2, <1>3

LEMMA GetStep ==
  ASSUME IInv, NEW f, NEW k, Get(f, k)
  PROVE  IInv'
<1> DEFINE i == folder[f].order[k]
           new == Command(i, folder[f].list[i])
           c == [folder[f].cmds EXCEPT ![i] = new]
           r == [folder[f] EXCEPT !.cmds = c]
<1>1. /\ f \in Opened /\ i \in DOMAIN folder[f].list
      /\ folder' = [folder EXCEPT ![f].cmds[i] = new]
      /\ UNCHANGED <<disk, mem, displaced>>
  BY DEF Get, Shown, Unread
<1> HIDE DEF i
<1>2. folder[f] \in View /\ Even(folder[f]) /\ (f \notin displaced => Right(folder[f]))
  BY <1>1 DEF IInv
<1>3. folder' = [folder EXCEPT ![f] = r]
  BY <1>1
<1>4. /\ folder[f].list \in Seq(Nat) /\ folder[f].cmds \in Seq(Commands)
      /\ Len(folder[f].cmds) = Len(folder[f].list)
  BY <1>2 DEF View, Even
<1>5. DOMAIN folder[f].cmds = DOMAIN folder[f].list
  BY <1>4
<1>12. new \in Commands /\ new.entry = folder[f].list[i]
  <2>1. i \in Nat /\ folder[f].list[i] \in Nat
    BY <1>1, <1>4
  <2> QED
    BY <2>1, CommandType
<1> HIDE DEF new
<1>6. /\ c \in Seq(Commands) /\ Len(c) = Len(folder[f].cmds)
      /\ \A j \in DOMAIN folder[f].list :
           c[j] = IF j = i THEN new ELSE folder[f].cmds[j]
  <2>1. DOMAIN folder[f].list = 1 .. Len(folder[f].cmds)
    BY <1>4
  <2>2. /\ c \in Seq(Commands) /\ Len(c) = Len(folder[f].cmds)
        /\ \A j \in 1 .. Len(folder[f].cmds) :
             c[j] = IF j = i THEN new ELSE folder[f].cmds[j]
    <3> DEFINE s == folder[f].cmds
    <3>1. s \in Seq(Commands)
      BY <1>4
    <3>2. c = [s EXCEPT ![i] = new]
      OBVIOUS
    <3> HIDE DEF s, c
    <3>3. /\ c \in Seq(Commands) /\ Len(c) = Len(s)
          /\ \A j \in 1 .. Len(s) : c[j] = IF j = i THEN new ELSE s[j]
      BY <1>12, <3>1, <3>2, Replaced
    <3> QED
      BY <3>3 DEF s
  <2> QED
    BY <2>1, <2>2
<1> HIDE DEF c
<1>7. /\ r \in View /\ r.list = folder[f].list /\ r.cmds = c
      /\ r.order = folder[f].order /\ r.rows = folder[f].rows
  BY <1>2, <1>6 DEF View
<1> HIDE DEF r
<1>8. Even(r)
  BY <1>2, <1>6, <1>7 DEF Even
<1>9. EntriesRight(folder[f]) => EntriesRight(r)
  BY <1>6, <1>7, <1>12 DEF EntriesRight
<1>10. f \notin displaced => Right(r)
  BY <1>2, <1>7, <1>9 DEF Right, Presents, Shows
<1>11. disk' \in Database /\ mem' \in Database /\ displaced' = displaced
  BY <1>1 DEF IInv
<1> QED
  BY <1>1, <1>3, <1>7, <1>8, <1>10, <1>11, OneFolder

LEMMA SetFlagStep ==
  ASSUME IInv, NEW f, NEW k, NEW value \in BOOLEAN, SetFlag(f, k, value)
  PROVE  IInv'
<1>1. PICK e :
        \/ /\ e \in Entries(mem) /\ UNCHANGED folder
           /\ \/ Unread
              \/ Write([disk EXCEPT !.marked = IF value THEN @ \cup {e} ELSE @ \ {e}])
        \/ folder' = <<>> /\ Unread
  BY DEF SetFlag
<1>2. displaced' = displaced
  BY DEF SetFlag
<1>3. CASE UNCHANGED <<folder, disk, mem>>
  BY <1>2, <1>3 DEF IInv, Opened
<1>4. CASE /\ e \in Entries(mem) /\ UNCHANGED folder
           /\ Write([disk EXCEPT !.marked = IF value THEN @ \cup {e} ELSE @ \ {e}])
  <2> DEFINE marked == IF value THEN disk.marked \cup {e} ELSE disk.marked \ {e}
             db == [disk EXCEPT !.marked = marked]
  <2>1. e \in Nat
    BY <1>4 DEF Entries, IInv, Database
  <2>2. marked \in SUBSET Nat
    BY <2>1 DEF IInv, Database
  <2>3. disk' = db /\ mem' = db
    BY <1>4 DEF Write
  <2> HIDE DEF marked
  <2>4. db \in Database
    BY <2>2 DEF IInv, Database
  <2> QED
    BY <1>2, <1>4, <2>3, <2>4 DEF IInv, Opened
<1>5. CASE folder' = <<>> /\ Unread
  <2>1. Opened' = {}
    BY <1>5 DEF Opened
  <2>2. folder' \in [{} -> View]
    BY <1>5
  <2> QED
    BY <1>5, <2>1, <2>2 DEF IInv, Unread
<1> QED
  BY <1>1, <1>3, <1>4, <1>5 DEF Unread

LEMMA DbinfoSetStep ==
  ASSUME IInv, NEW f, NEW k, NEW keys \in SUBSET Folders, DbinfoSet(f, k, keys)
  PROVE  IInv'
<1>1. UNCHANGED <<folder, displaced>>
  BY DEF DbinfoSet
<1>2. disk' \in Database /\ mem' \in Database
  <2>1. PICK e : IF e \in Entries(mem) THEN Write([disk EXCEPT !.keys[e] = keys]) ELSE Unread
    BY DEF DbinfoSet
  <2>2. [disk EXCEPT !.keys[e] = keys] \in Database
    BY ChangedKeys DEF IInv
  <2>3. CASE e \in Entries(mem)
    BY <2>1, <2>2, <2>3 DEF Write
  <2>4. CASE e \notin Entries(mem)
    BY <2>1, <2>4 DEF Unread, IInv
  <2> QED
    BY <2>3, <2>4
<1> QED
  BY <1>1, <1>2 DEF IInv, Opened

LEMMA MoveStep ==
  ASSUME IInv, NEW f \in Folders, NEW fails \in BOOLEAN, Move(f, fails)
  PROVE  IInv'
<1>1. disk' \in Database /\ mem' \in Database
  <2>1. Inserted(disk, {f}) \in Database
    BY InsertedDatabase DEF IInv
  <2> QED
    BY <2>1 DEF Move, Write, IInv
<1>2. ASSUME NEW db, db = disk', Update({f}, db)
      PROVE  IInv'
  <2>1. /\ folder' \in [Opened' -> View]
        /\ \A g \in Opened' : Even(folder'[g])
        /\ \A g \in Opened' \ displaced' : Right(folder'[g])
    BY <1>1, <1>2, UpdateStep
  <2> QED
    BY <1>1, <2>1 DEF IInv
<1> QED
  BY <1>2 DEF Move

LEMMA UpdateTimeStep ==
  ASSUME IInv, UpdateTime
  PROVE  IInv'
<1>1. disk' \in Database /\ mem' \in Database
  BY DEF UpdateTime, Write, IInv
<1>2. /\ folder' \in [Opened' -> View]
      /\ \A g \in Opened' : Even(folder'[g])
      /\ \A g \in Opened' \ displaced' : Right(folder'[g])
  <2>1. disk \in Database
    BY DEF IInv
  <2> QED
    BY <2>1, UpdateStep DEF UpdateTime
<1> QED
  BY <1>1, <1>2 DEF IInv

\* What an expunge leaves of the folder, or the folder.
LEMMA Left ==
  ASSUME IInv, NEW f \in Opened, NEW sync, NEW gone, NEW r,
         r = IF sync THEN Kept(folder[f], gone) ELSE folder[f]
  PROVE  /\ r \in View /\ Even(r)
         /\ f \notin displaced => EntriesRight(r) /\ Presents(r, Len(folder[f].list))
<1>1. folder[f] \in View /\ Even(folder[f]) /\ (f \notin displaced => Right(folder[f]))
  BY DEF IInv
<1>2. CASE sync
  <2>1. /\ r \in View /\ Even(r) /\ (EntriesRight(folder[f]) => EntriesRight(r))
        /\ r.order = folder[f].order
    BY <1>1, <1>2, KeptView
  <2> QED
    BY <1>1, <2>1 DEF Right, Presents
<1>3. CASE ~sync
  BY <1>1, <1>3 DEF Right
<1> QED
  BY <1>2, <1>3

\* Sync and SyncFails: what the expunge makes of the database.
LEMMA WrittenDatabase ==
  ASSUME IInv
  PROVE  Expunged(disk) \in Database
BY ExpungedDatabase DEF IInv

LEMMA SyncStep ==
  ASSUME IInv, NEW f, NEW sync \in BOOLEAN, Sync(f, sync)
  PROVE  IInv'
<1> DEFINE r == IF sync THEN Kept(folder[f], disk'.gone) ELSE folder[f]
           old == Len(folder[f].list)
           new == Refreshed(f, r, old, disk', TRUE)
<1>1. /\ f \in Opened /\ folder' = [folder EXCEPT ![f] = new]
      /\ displaced' = displaced \cup Displaced({f}, [g \in {f} |-> r], disk')
  BY DEF Sync
<1>2. disk' \in Database /\ mem' \in Database
  BY WrittenDatabase DEF Sync, Write, IInv
<1>3. /\ r \in View /\ Even(r)
      /\ f \notin displaced => EntriesRight(r) /\ Presents(r, old)
  BY <1>1, Left
<1>4. old \in Nat
  BY <1>1 DEF IInv, View
<1> HIDE DEF r, old
<1>5. new \in View /\ Even(new)
  BY <1>2, <1>3, RefreshedView
<1>6. ASSUME f \notin displaced' PROVE Right(new)
  <2>1. f \notin displaced /\ IsPrefix(r.list, Search(f, disk'))
    BY <1>1, <1>6 DEF Displaced
  <2> QED
    BY <1>2, <1>3, <1>4, <2>1, RefreshedRight
<1> HIDE DEF new
<1>7. displaced \subseteq displaced'
  BY <1>1
<1> QED
  BY <1>1, <1>2, <1>5, <1>6, <1>7, OneFolder

LEMMA SyncFailsStep ==
  ASSUME IInv, NEW f, NEW sync \in BOOLEAN, SyncFails(f, sync)
  PROVE  IInv'
<1> DEFINE r == IF sync THEN Kept(folder[f], disk'.gone) ELSE folder[f]
           new == [r EXCEPT !.rows = Cleared, !.held = TRUE]
<1>1. /\ f \in Opened /\ folder' = [folder EXCEPT ![f] = new]
      /\ displaced' = IF r = folder[f] THEN displaced ELSE displaced \cup {f}
  BY DEF SyncFails
<1>2. disk' \in Database /\ mem' \in Database
  BY WrittenDatabase DEF SyncFails, Unread, Write, IInv
<1>3. r \in View /\ Even(r)
  BY <1>1, Left
<1> HIDE DEF r
<1>4. /\ new \in View /\ new.list = r.list /\ new.cmds = r.cmds
      /\ new.order = r.order /\ new.rows = Cleared
  <2>1. Cleared \in Seq(Nat)
    BY DEF Cleared
  <2> QED
    BY <1>3, <2>1 DEF View
<1> HIDE DEF new
<1>5. Even(new)
  BY <1>3, <1>4 DEF Even
<1>6. ASSUME f \notin displaced' PROVE Right(new)
  <2>1. r = folder[f] /\ f \notin displaced
    BY <1>1, <1>6
  <2>2. Right(folder[f])
    BY <1>1, <2>1 DEF IInv
  <2> QED
    BY <1>4, <2>1, <2>2 DEF Right, EntriesRight, Presents, Shows
<1>7. displaced \subseteq displaced'
  BY <1>1
<1> QED
  BY <1>1, <1>2, <1>4, <1>5, <1>6, <1>7, OneFolder

LEMMA OtherStep ==
  ASSUME IInv, Other
  PROVE  IInv'
<1>1. UNCHANGED <<mem, folder, displaced>>
  BY DEF Other
<1>2. disk \in Database
  BY DEF IInv
<1>3. disk' \in Database
  <2>1. CASE \E keys \in SUBSET Folders : disk' = Inserted(disk, keys)
    BY <1>2, <2>1, InsertedDatabase
  <2>2. ASSUME NEW e \in Entries(disk), disk' = [disk EXCEPT !.marked = @ \cup {e}]
        PROVE  disk' \in Database
    <3>1. e \in Nat
      BY <1>2 DEF Entries, Database
    <3> QED
      BY <1>2, <2>2, <3>1 DEF Database
  <2>3. ASSUME NEW e \in Entries(disk), disk' = [disk EXCEPT !.gone = @ \cup {e}]
        PROVE  disk' \in Database
    <3>1. e \in Nat
      BY <1>2 DEF Entries, Database
    <3> QED
      BY <1>2, <2>3, <3>1 DEF Database
  <2>4. ASSUME NEW e \in Entries(disk), NEW keys \in SUBSET Folders,
               disk' = [disk EXCEPT !.keys[e] = keys]
        PROVE  disk' \in Database
    BY <1>2, <2>4, ChangedKeys
  <2> QED
    BY <2>1, <2>2, <2>3, <2>4 DEF Other
<1> QED
  BY <1>1, <1>3 DEF IInv, Opened

-----------------------------------------------------------------------------
(* The specification.                                                      *)

LEMMA Initial == Init => IInv
<1> SUFFICES ASSUME Init PROVE IInv
  OBVIOUS
<1>1. disk \in Database /\ mem \in Database
  BY DEF Init, Database
<1>2. Opened = {} /\ folder \in [{} -> View]
  BY DEF Init, Opened
<1> QED
  BY <1>1, <1>2 DEF IInv

LEMMA Step == IInv /\ [Next]_vars => IInv'
<1> SUFFICES ASSUME IInv, [Next]_vars PROVE IInv'
  OBVIOUS
<1>1. CASE UNCHANGED vars
  BY <1>1 DEF vars, IInv, Opened
<1>2. CASE UpdateTime
  BY <1>2, UpdateTimeStep
<1>3. CASE Other
  BY <1>3, OtherStep
<1>4. ASSUME NEW f \in Folders, Window(f) PROVE IInv'
  <2>1. CASE Open(f)
    BY <2>1, OpenStep
  <2>2. CASE Close(f)
    BY <2>2, CloseStep
  <2>3. ASSUME NEW b \in BOOLEAN, Move(f, b) \/ Sync(f, b) \/ SyncFails(f, b)
        PROVE  IInv'
    BY <2>3, MoveStep, SyncStep, SyncFailsStep
  <2>4. ASSUME NEW k, Row(f, k) PROVE IInv'
    BY <2>4, GetStep, SetFlagStep, DbinfoSetStep DEF Row
  <2> QED
    BY <1>4, <2>1, <2>2, <2>3, <2>4 DEF Window
<1> QED
  BY <1>1, <1>2, <1>3, <1>4 DEF Next, Process

\* RowsRight, with the types it needs.
THEOREM Invariance == Spec => []IInv
<1>1. Init => IInv
  BY Initial
<1>2. IInv /\ [Next]_vars => IInv'
  BY Step
<1> QED
  BY <1>1, <1>2, PTL DEF Spec

\* While a folder loses no message but by its own expunge, Db_UpdateProc and the
\* redrawing of its window keep the entries of the commands, the order and the
\* rows with their messages, whatever the other folders and the other processes do.
THEOREM RowsStayRight == Spec => []RowsRight
<1>1. IInv => RowsRight
  BY InvariantRows
<1> QED
  BY <1>1, Invariance, PTL

=============================================================================
