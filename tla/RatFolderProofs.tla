--------------------------- MODULE RatFolderProofs ---------------------------
(***************************************************************************)
(* Theorems about an open folder, for any finite set of windows and any    *)
(* number of messages: its references, and that its arrays, its rows and   *)
(* its marks are about the same messages; and, at the end, about the links *)
(* of the threads it is sorted by, for any mail.                           *)
(***************************************************************************)
EXTENDS RatFolder, RatThread, SequenceLemmas, FiniteSetTheorems, TLAPS

\* The inductive invariant.  A copy is made while its command has a reference, or
\* it has lost the folder, which nobody can open before it has ended.
IInv ==
  /\ refs \in Nat /\ copying \in BOOLEAN /\ lost \in BOOLEAN
  /\ lost => copying /\ refs = 0
  /\ rows = [w \in Windows |-> rows[w]]
  /\ HandlesLive

-----------------------------------------------------------------------------
(* Sets of windows.                                                        *)

\* Fewer windows show the folder: not more references are needed.
LEMMA Subsets ==
  ASSUME NEW S \in SUBSET Windows, NEW T \in SUBSET S
  PROVE  /\ IsFiniteSet(S)
         /\ Cardinality(S) \in Nat /\ Cardinality(T) \in Nat
         /\ Cardinality(T) <= Cardinality(S)
<1>1. IsFiniteSet(S)
  BY ConstantsAssumption, FS_Subset
<1>2. IsFiniteSet(T) /\ Cardinality(T) <= Cardinality(S)
  BY <1>1, FS_Subset
<1> QED
  BY <1>1, <1>2, FS_CardinalityType

LEMMA ShowingCount ==
  /\ Showing \in SUBSET Windows /\ IsFiniteSet(Showing)
  /\ Cardinality(Showing) \in Nat
<1>1. Showing \in SUBSET Windows
  BY DEF Showing
<1> QED
  BY <1>1, Subsets

LEMMA ShowingCountPrime ==
  /\ Showing' \in SUBSET Windows /\ IsFiniteSet(Showing')
  /\ Cardinality(Showing') \in Nat
<1>1. Showing' \in SUBSET Windows
  BY DEF Showing
<1> QED
  BY <1>1, Subsets

\* A window less.
LEMMA OneLess ==
  ASSUME NEW w \in Showing
  PROVE  Cardinality(Showing \ {w}) = Cardinality(Showing) - 1
<1>1. IsFiniteSet(Showing)
  BY ShowingCount
<1> QED
  BY <1>1, FS_RemoveElement

\* A window more.
LEMMA OneMore ==
  ASSUME NEW w
  PROVE  /\ Cardinality(Showing \cup {w}) \in Nat
         /\ Cardinality(Showing \cup {w}) <= Cardinality(Showing) + 1
<1>1. IsFiniteSet(Showing) /\ Cardinality(Showing) \in Nat
  BY ShowingCount
<1>2. /\ IsFiniteSet(Showing \cup {w})
      /\ Cardinality(Showing \cup {w}) =
           IF w \in Showing THEN Cardinality(Showing) ELSE Cardinality(Showing) + 1
  BY <1>1, FS_AddElement
<1> QED
  BY <1>1, <1>2

-----------------------------------------------------------------------------
(* The steps.                                                              *)

\* The invariant, when no copy is made.
LEMMA NotCopying ==
  ASSUME copying' = FALSE, lost' = FALSE, rows' = [w \in Windows |-> rows'[w]],
         refs' \in Nat, Cardinality(Showing') <= refs'
  PROVE  IInv'
<1>1. Cardinality(Showing') + 0 = Cardinality(Showing')
  BY ShowingCountPrime
<1>2. HandlesLive'
  BY <1>1 DEF HandlesLive
<1> QED
  BY <1>2 DEF IInv

LEMMA Initial == Init => IInv
<1> SUFFICES ASSUME Init PROVE IInv
  OBVIOUS
<1>1. Showing = {} /\ rows = [w \in Windows |-> rows[w]]
  BY DEF Init, Showing
<1>2. Cardinality(Showing) + 0 = 0
  BY <1>1, FS_EmptySet
<1>3. HandlesLive
  BY <1>2 DEF Init, HandlesLive
<1> QED
  BY <1>1, <1>3 DEF Init, IInv

\* The windows and the references are as they were.
LEMMA Quiet ==
  ASSUME IInv, UNCHANGED <<refs, rows, copying, lost>>
  PROVE  IInv'
<1>1. Showing' = Showing
  BY DEF Showing
<1> QED
  BY <1>1 DEF IInv, HandlesLive

\* A redraw shows the folder in no window that did not show it.
LEMMA RedrawShows ==
  ASSUME NEW shown, NEW asking, NEW fewer, Redraw(shown, asking, fewer)
  PROVE  /\ rows' = [w \in Windows |-> rows'[w]]
         /\ Showing' \subseteq {w \in Windows : shown[w] # Cleared}
<1>1. rows' = [w \in Windows |-> rows'[w]]
  BY DEF Redraw
<1>2. ASSUME NEW w \in Windows, shown[w] = Cleared PROVE rows'[w] = Cleared
  BY <1>2 DEF Redraw
<1>3. Cleared' = Cleared
  BY DEF Cleared
<1> QED
  BY <1>1, <1>2, <1>3 DEF Showing

\* An update keeps the references; it may clear windows.
LEMMA UpdateStep ==
  ASSUME IInv, NEW sync, NEW asking, NEW new, NEW fault,
         UpdateFolder(sync, rows, asking, new, fault),
         UNCHANGED <<refs, copying, lost>>
  PROVE  IInv'
<1>1. \E fewer : Redraw(rows, asking, fewer)
  BY DEF UpdateFolder
<1>2. Showing' \subseteq Showing /\ rows' = [w \in Windows |-> rows'[w]]
  BY <1>1, RedrawShows DEF Showing
<1>3. /\ Cardinality(Showing') <= Cardinality(Showing)
      /\ Cardinality(Showing') \in Nat /\ Cardinality(Showing) \in Nat
  BY <1>2, ShowingCount, Subsets
<1> QED
  BY <1>2, <1>3 DEF IInv, HandlesLive

\* No window shows a folder that was freed.
LEMMA ForgottenShows ==
  ASSUME Forgotten
  PROVE  /\ Cardinality(Showing') = 0 /\ refs' = 0
         /\ rows' = [w \in Windows |-> rows'[w]]
<1>1. Showing' = {} /\ rows' = [w \in Windows |-> rows'[w]] /\ refs' = 0
  BY DEF Forgotten, ClearWindows, Showing
<1> QED
  BY <1>1, FS_EmptySet

LEMMA FreedStep ==
  ASSUME IInv, NEW expunge, Freed(expunge), copying' = FALSE, lost' = FALSE
  PROVE  IInv'
<1>1. Cardinality(Showing') = 0 /\ refs' = 0 /\ rows' = [w \in Windows |-> rows'[w]]
  BY ForgottenShows DEF Freed
<1>2. refs' \in Nat /\ Cardinality(Showing') <= refs'
  BY <1>1
<1> QED
  BY <1>1, <1>2, NotCopying

\* Who closes the folder no longer shows it: shown is what the others show.
LEMMA CloseShows ==
  ASSUME NEW shown, Close(shown), ~LastReference, shown = [w \in Windows |-> shown[w]]
  PROVE  /\ refs' = refs - 1
         /\ rows' = [w \in Windows |-> rows'[w]]
         /\ Showing' \subseteq {w \in Windows : shown[w] # Cleared}
<1>1. refs' = refs - 1
  BY DEF Close
<1>2. CASE rows' = shown
  BY <1>1, <1>2 DEF Showing, Cleared
<1>3. CASE \E fault \in BOOLEAN : UpdateFolder(TRUE, shown, {}, FALSE, fault)
  <2>1. \E fewer : Redraw(shown, {}, fewer)
    BY <1>3 DEF UpdateFolder
  <2> QED
    BY <1>1, <2>1, RedrawShows
<1> QED
  BY <1>2, <1>3 DEF Close

LEMMA CloseFolderStep ==
  ASSUME IInv, NEW w \in Windows, CloseFolder(w)
  PROVE  IInv'
<1> DEFINE shown == [rows EXCEPT ![w] = Cleared]
<1>1. /\ ~copying /\ copying' = FALSE /\ lost' = FALSE /\ w \in Showing
      /\ Close(shown)
  BY DEF CloseFolder, Showing, IInv
<1>2. CASE LastReference
  <2>1. Freed(ExpungeOnClose)
    BY <1>1, <1>2 DEF Close
  <2> QED
    BY <1>1, <2>1, FreedStep
<1>3. CASE ~LastReference
  <2>1. shown = [v \in Windows |-> shown[v]] /\ shown[w] = Cleared
        /\ \A v \in Windows \ {w} : shown[v] = rows[v]
    BY DEF IInv
  <2>2. refs' = refs - 1 /\ rows' = [v \in Windows |-> rows'[v]]
        /\ Showing' \subseteq {v \in Windows : shown[v] # Cleared}
    BY <1>1, <1>3, <2>1, CloseShows
  <2>3. Showing' \subseteq Showing \ {w}
    BY <2>1, <2>2 DEF Showing
  <2>4. Cardinality(Showing \ {w}) = Cardinality(Showing) - 1
    BY <1>1, OneLess
  <2>5. /\ Cardinality(Showing') <= Cardinality(Showing \ {w})
        /\ Cardinality(Showing') \in Nat
    <3>1. Showing \ {w} \in SUBSET Windows
      BY DEF Showing
    <3> QED
      BY <2>3, <3>1, Subsets
  <2>6. Cardinality(Showing) \in Nat /\ Cardinality(Showing) <= refs /\ refs \in Nat
    BY <1>1, ShowingCount DEF IInv, HandlesLive
  <2>7. refs' \in Nat /\ Cardinality(Showing') <= refs'
    BY <2>2, <2>4, <2>5, <2>6
  <2> QED
    BY <1>1, <2>2, <2>7, NotCopying
<1> QED
  BY <1>2, <1>3

LEMMA InsertedStep == ASSUME IInv, Inserted PROVE IInv'
<1>1. copying /\ copying' = FALSE /\ lost' = FALSE
  BY DEF Inserted
<1>2. CASE lost
  <2>1. UNCHANGED <<refs, rows>>
    BY <1>2 DEF Inserted
  <2>2. Showing' = Showing
    BY <2>1 DEF Showing
  <2>3. Cardinality(Showing) \in Nat /\ Cardinality(Showing) + 0 <= refs
    BY <1>2, ShowingCount DEF IInv, HandlesLive
  <2>4. refs' \in Nat /\ Cardinality(Showing') <= refs'
    BY <2>1, <2>2, <2>3 DEF IInv
  <2>5. rows' = [v \in Windows |-> rows'[v]]
    BY <2>1 DEF IInv
  <2> QED
    BY <1>1, <2>4, <2>5, NotCopying
<1>3. CASE ~lost /\ LastReference
  <2>1. Freed(ExpungeOnClose)
    BY <1>3 DEF Inserted, Close
  <2> QED
    BY <1>1, <2>1, FreedStep
<1>4. CASE ~lost /\ ~LastReference
  <2>1. refs' = refs - 1 /\ rows' = [v \in Windows |-> rows'[v]]
        /\ Showing' \subseteq Showing
    BY <1>4, CloseShows DEF Inserted, IInv, Showing
  <2>2. /\ Cardinality(Showing') <= Cardinality(Showing)
        /\ Cardinality(Showing') \in Nat /\ Cardinality(Showing) \in Nat
    BY <2>1, ShowingCount, Subsets
  <2>3. Cardinality(Showing) + 1 <= refs /\ refs \in Nat
    BY <1>1, <1>4, <2>2 DEF IInv, HandlesLive
  <2>4. refs' \in Nat /\ Cardinality(Showing') <= refs'
    BY <2>1, <2>2, <2>3
  <2> QED
    BY <1>1, <2>1, <2>4, NotCopying
<1> QED
  BY <1>2, <1>3, <1>4

LEMMA InsertStep == ASSUME IInv, Insert PROVE IInv'
<1>1. ~copying /\ copying' = TRUE
  BY DEF Insert
<1>2. CASE /\ refs' = refs + 1 /\ lost' = FALSE
           /\ Grown \/ UpdateFolder(FALSE, rows, {}, FALSE, FALSE)
  <2>1. \E fewer : Redraw(rows, {}, fewer)
    BY <1>2 DEF Grown, UpdateFolder
  <2>2. Showing' \subseteq Showing /\ rows' = [w \in Windows |-> rows'[w]]
    BY <2>1, RedrawShows DEF Showing
  <2>3. /\ Cardinality(Showing') <= Cardinality(Showing)
        /\ Cardinality(Showing') \in Nat /\ Cardinality(Showing) \in Nat
    BY <2>2, ShowingCount, Subsets
  <2>4. Cardinality(Showing) + 0 <= refs /\ refs \in Nat
    BY <1>1 DEF IInv, HandlesLive
  <2>5. Cardinality(Showing') + 1 <= refs' /\ refs' \in Nat
    BY <1>2, <2>3, <2>4
  <2>6. HandlesLive'
    BY <1>1, <1>2, <2>5 DEF HandlesLive
  <2> QED
    BY <1>1, <1>2, <2>2, <2>5, <2>6 DEF IInv
<1>3. CASE lost' = TRUE /\ Forgotten
  BY <1>1, <1>3, ForgottenShows DEF IInv, HandlesLive
<1> QED
  BY <1>2, <1>3 DEF Insert

LEMMA OpenStep == ASSUME IInv, NEW w \in Windows, Open(w) PROVE IInv'
<1>1. /\ ~copying /\ UNCHANGED <<copying, lost>> /\ refs' = refs + 1
      /\ rows' = [rows EXCEPT ![w] = List(priv', order')]
  BY DEF Open
<1>2. Showing' \subseteq Showing \cup {w} /\ rows' = [v \in Windows |-> rows'[v]]
  BY <1>1 DEF IInv, Showing, Cleared
<1>3. /\ Cardinality(Showing \cup {w}) \in Nat
      /\ Cardinality(Showing \cup {w}) <= Cardinality(Showing) + 1
  BY OneMore
<1>4. /\ Cardinality(Showing') <= Cardinality(Showing \cup {w})
      /\ Cardinality(Showing') \in Nat
  <2>1. Showing \cup {w} \in SUBSET Windows
    BY DEF Showing
  <2> QED
    BY <1>2, <2>1, Subsets
<1>5. Cardinality(Showing) \in Nat
  BY ShowingCount
<1> QED
  BY <1>1, <1>2, <1>3, <1>4, <1>5 DEF IInv, HandlesLive

LEMMA WindowStep == ASSUME IInv, NEW w \in Windows, Window(w) PROVE IInv'
<1>1. CASE SetSortOrder(w)
  BY <1>1, UpdateStep DEF SetSortOrder
<1>2. ASSUME NEW sync \in BOOLEAN, Sync(w, sync) PROVE IInv'
  BY <1>2, UpdateStep DEF Sync
<1>3. ASSUME NEW K, NEW value, SetFlag(w, K, value) PROVE IInv'
  BY <1>3, Quiet DEF SetFlag
<1> QED
  BY <1>1, <1>2, <1>3, OpenStep, CloseFolderStep DEF Window

LEMMA Step == IInv /\ [Next]_vars => IInv'
<1> SUFFICES ASSUME IInv, [Next]_vars PROVE IInv'
  OBVIOUS
<1>1. CASE UpdateTime
  BY <1>1, UpdateStep DEF UpdateTime
<1>2. CASE LostContact
  BY <1>2, FreedStep DEF LostContact, IInv
<1>3. CASE Arrive \/ Exists \/ \E i \in DOMAIN box : OtherExpunge(i)
  BY <1>3, Quiet DEF Arrive, Exists, OtherExpunge
<1>4. CASE UNCHANGED vars
  BY <1>4, Quiet DEF vars
<1> QED
  BY <1>1, <1>2, <1>3, <1>4, WindowStep, InsertStep, InsertedStep DEF Next

-----------------------------------------------------------------------------
(* The references, whatever fails.                                         *)

\* The invariant holds, whatever is closed, refused or lost.
THEOREM Invariance == Spec => []IInv
<1>1. Init => IInv
  BY Initial
<1>2. IInv /\ [Next]_vars => IInv'
  BY Step
<1> QED
  BY <1>1, <1>2, PTL DEF Spec

\* RatFolderClose() frees a folder when nobody has it any more, or by force when it
\* has cleared the windows that show it: so no window ever shows a folder that was
\* freed.  The command that copies a message has its reference too, as long as it
\* has not found the stream dead itself: then the folder is freed under it.
THEOREM NoDanglingHandle == Spec => []HandlesLive
<1>1. IInv => HandlesLive
  BY DEF IInv
<1> QED
  BY <1>1, Invariance, PTL

-----------------------------------------------------------------------------
(* The arrays.  Nothing has gone wrong at the server.                      *)

Calm == faults \subseteq {"unnoticed"}

\* The mailbox: no message is in it twice.
Mail ==
  /\ arrived \in Nat /\ box \in Seq(1 .. arrived) /\ Unrepeated(box)
  /\ deleted \subseteq ToSet(box)

\* o presents each of n messages.
Orders(o, n) ==
  /\ o \in Seq(1 .. n) /\ Len(o) = n
  /\ \A i \in 1 .. n : \E k \in 1 .. n : o[k] = i

Members == Cardinality(Showing) + (IF copying THEN 1 ELSE 0)

\* The open folder: the arrays are the beginning of what the stream has reported,
\* which is the beginning of the mailbox, with the same marks.
Parts ==
  /\ view \in Seq(1 .. arrived) /\ priv \in Seq(1 .. arrived)
  /\ Leads(priv, view) /\ Leads(view, box) /\ marked = deleted
  /\ Orders(order, Len(priv))

\* The rows are counted from 1.
Numbered == \A w \in Windows : DOMAIN rows[w] \subseteq Nat \ {0}

Good ==
  /\ Mail /\ ~resort /\ Numbered
  /\ refs > 0 => Parts /\ refs = Members

\* The marks are those of the user, while every window shows the arrays.
Meant ==
  /\ deleted = asked \cap ToSet(box)
  /\ (1 .. arrived) \ ToSet(box) \subseteq asked /\ asked \subseteq 1 .. arrived
  /\ Fresh

Sound == (Calm => Good) /\ (faults = {} => Meant)

-----------------------------------------------------------------------------
(* The parts of an update.                                                 *)

\* RatFolderSort presents every message, in either direction.
LEMMA SortedOrders ==
  ASSUME NEW n \in Nat
  PROVE  Orders(Sorted(n), n)
<1> DEFINE o == [i \in 1 .. n |-> i]
           q == [i \in 1 .. n |-> n - i + 1]
<1>1. o \in Seq(1 .. n) /\ Len(o) = n
  OBVIOUS
<1>2. q \in Seq(1 .. n) /\ Len(q) = n
  OBVIOUS
<1>3. Reverse(o) = q
  BY <1>1 DEF Reverse
<1>4. Orders(o, n)
  BY <1>1 DEF Orders
<1>5. Orders(q, n)
  <2>1. ASSUME NEW i \in 1 .. n PROVE \E k \in 1 .. n : q[k] = i
    <3>1. n - i + 1 \in 1 .. n /\ n - (n - i + 1) + 1 = i
      OBVIOUS
    <3> QED
      BY <3>1
  <2> QED
    BY <1>2, <2>1 DEF Orders
<1>6. Sorted(n) = IF reverse' THEN q ELSE o
  BY <1>3 DEF Sorted
<1> HIDE DEF o, q
<1> QED
  BY <1>4, <1>5, <1>6

\* What is presented are the messages.
LEMMA OrdersAll ==
  ASSUME NEW n \in Nat, NEW o, Orders(o, n)
  PROVE  DOMAIN o = 1 .. n /\ (\A k \in 1 .. n : o[k] \in 1 .. n) /\ ToSet(o) = 1 .. n
<1>1. o \in Seq(1 .. n) /\ Len(o) = n
  BY DEF Orders
<1>2. DOMAIN o = 1 .. n /\ \A k \in 1 .. n : o[k] \in 1 .. n
  BY <1>1
<1>3. ASSUME NEW i \in 1 .. n PROVE i \in ToSet(o)
  <2>1. PICK k \in 1 .. n : o[k] = i
    BY DEF Orders
  <2> QED
    BY <1>2, <2>1 DEF ToSet
<1>4. ASSUME NEW i \in ToSet(o) PROVE i \in 1 .. n
  BY <1>2, <1>4 DEF ToSet
<1> QED
  BY <1>2, <1>3, <1>4

\* When what stays of the arrays begins what the stream holds, the new arrays are
\* the messages of the stream, and each is presented.
LEMMA ArraysStep ==
  ASSUME NEW S, NEW kept \in Seq(S), NEW v \in Seq(S), Leads(kept, v), NEW new,
         priv \in Seq(S), Orders(order, Len(priv)), Arrays(kept, v, new)
  PROVE  priv' = v /\ Orders(order', Len(v)) /\ ~resort' /\ ~Fewer(kept, v)
<1>1. Len(kept) \in Nat /\ Len(v) \in Nat /\ Len(priv) \in Nat
  OBVIOUS
<1>2. ~Fewer(kept, v)
  BY <1>1 DEF Fewer, Leads
<1>3. priv' = v
  BY <1>2, Completed DEF Arrays
<1>4. Orders(order', Len(v))
  <2>1. CASE Unsorted(kept, v, new)
    BY <1>2, <2>1 DEF Arrays, Unsorted
  <2>2. CASE ~Unsorted(kept, v, new)
    BY <1>1, <1>2, <2>2, SortedOrders DEF Arrays
  <2> QED
    BY <2>1, <2>2
<1> QED
  BY <1>2, <1>3, <1>4 DEF Arrays

\* A list of messages is not what a cleared window shows.
LEMMA ListShows ==
  ASSUME NEW n \in Nat, NEW p \in Seq(1 .. n), NEW o
  PROVE  List(p, o) # Cleared
<1> SUFFICES ASSUME List(p, o) = Cleared PROVE FALSE
  OBVIOUS
<1>1. DOMAIN List(p, o) = DOMAIN p /\ DOMAIN Cleared = 1 .. 1 /\ Cleared[1] = 0
  BY DEF List, Cleared
<1>2. 1 \in DOMAIN p /\ List(p, o)[1] = 0
  BY <1>1
<1>3. List(p, o)[1] = IF o[1] \in DOMAIN p THEN p[o[1]] ELSE Unknown
  BY <1>2 DEF List
<1>4. CASE o[1] \in DOMAIN p
  <2>1. p[o[1]] \in 1 .. n
    BY <1>4
  <2> QED
    BY <1>2, <1>3, <1>4, <2>1
<1>5. CASE o[1] \notin DOMAIN p
  BY <1>2, <1>3, <1>5, ConstantsAssumption DEF Unknown
<1> QED
  BY <1>4, <1>5

\* What mail_expunge leaves.
LEMMA Expunged ==
  ASSUME Mail
  PROVE  /\ Undeleted \in Seq(1 .. arrived) /\ Unrepeated(Undeleted)
         /\ ToSet(Undeleted) = ToSet(box) \ deleted
<1> DEFINE I == {i \in DOMAIN box : box[i] \notin deleted}
           u == Selected(box, I)
<1>1. box \in Seq(1 .. arrived) /\ Unrepeated(box)
  BY DEF Mail
<1>2. DOMAIN box = 1 .. Len(box) /\ I \cap (1 .. Len(box)) = I
  BY <1>1
<1>3. \A i \in I : i \in DOMAIN box /\ box[i] \notin deleted
  OBVIOUS
<1>4. \A i \in DOMAIN box : box[i] \notin deleted => i \in I
  OBVIOUS
<1>5. u \in Seq(1 .. arrived)
  <2> HIDE DEF I
  <2> QED
    BY <1>1, SelectedSelects
<1>6. /\ \A i \in 1 .. Len(u) : \E k \in I : u[i] = box[k]
      /\ \A k \in I : \E i \in 1 .. Len(u) : u[i] = box[k]
      /\ Unrepeated(u)
  <2> HIDE DEF I
  <2>1. /\ \A i \in 1 .. Len(u) : \E k \in I \cap (1 .. Len(box)) : u[i] = box[k]
        /\ \A k \in I \cap (1 .. Len(box)) : \E i \in 1 .. Len(u) : u[i] = box[k]
        /\ Unrepeated(box) => Unrepeated(u)
    BY <1>1, SelectedElements
  <2> QED
    BY <1>1, <1>2, <2>1
<1>7. Undeleted = u
  BY DEF Undeleted
<1> HIDE DEF I, u
<1>8. DOMAIN u = 1 .. Len(u)
  BY <1>5
<1>9. ToSet(u) = ToSet(box) \ deleted
  <2>1. ASSUME NEW m \in ToSet(u) PROVE m \in ToSet(box) \ deleted
    <3>1. PICK i \in 1 .. Len(u) : m = u[i]
      BY <1>8 DEF ToSet
    <3>2. PICK k \in I : u[i] = box[k]
      BY <1>6
    <3> QED
      BY <1>3, <3>1, <3>2 DEF ToSet
  <2>2. ASSUME NEW m \in ToSet(box) \ deleted PROVE m \in ToSet(u)
    <3>1. PICK k \in DOMAIN box : m = box[k]
      BY DEF ToSet
    <3>2. k \in I
      BY <1>4, <3>1
    <3> QED
      BY <1>6, <1>8, <3>1, <3>2 DEF ToSet
  <2> QED
    BY <2>1, <2>2
<1> QED
  BY <1>5, <1>6, <1>7, <1>9

\* What Std_UpdateProc keeps begins what an expunge leaves.
LEMMA KeptLeads ==
  ASSUME Mail, Parts, NEW sync \in BOOLEAN
  PROVE  /\ Kept(sync) \in Seq(1 .. arrived)
         /\ Leads(Kept(sync), IF sync THEN Undeleted ELSE box)
<1> DEFINE J == {i \in DOMAIN priv : view[i] \notin marked}
           I == {i \in DOMAIN box : box[i] \notin deleted}
<1>1. /\ box \in Seq(1 .. arrived) /\ view \in Seq(1 .. arrived)
      /\ priv \in Seq(1 .. arrived) /\ Leads(priv, view) /\ Leads(view, box)
      /\ marked = deleted
  BY DEF Mail, Parts
<1>2. Leads(priv, box)
  BY <1>1, LeadsOn
<1>3. ASSUME NEW k \in 1 .. Len(priv) PROVE k \in J <=> k \in I
  <2>1. /\ Len(priv) \in Nat /\ Len(view) \in Nat /\ Len(box) \in Nat
        /\ Len(priv) <= Len(view) /\ Len(view) <= Len(box)
    BY <1>1 DEF Leads
  <2>2. k \in 1 .. Len(view) /\ k \in DOMAIN priv /\ k \in DOMAIN box
    BY <1>1, <2>1
  <2>3. view[k] = box[k]
    BY <1>1, <2>2 DEF Leads
  <2> QED
    BY <1>1, <2>2, <2>3
<1> HIDE DEF I, J
<1>4. Leads(Selected(priv, J), Selected(box, I)) /\ Selected(priv, J) \in Seq(1 .. arrived)
  BY <1>1, <1>2, <1>3, SelectedLeads, SelectedSelects
<1>5. CASE sync
  <2>1. Kept(sync) = Selected(priv, J) /\ Undeleted = Selected(box, I)
    BY <1>5 DEF Kept, Undeleted, I, J
  <2> QED
    BY <1>4, <1>5, <2>1
<1>6. CASE ~sync
  BY <1>1, <1>2, <1>6 DEF Kept
<1> QED
  BY <1>5, <1>6

\* A redraw with messages for all shows the folder where it was shown.
LEMMA RedrawKeeps ==
  ASSUME NEW shown, NEW asking, NEW fewer, Redraw(shown, asking, fewer), ~fewer,
         NEW n \in Nat, priv' \in Seq(1 .. n)
  PROVE  Showing' = {w \in Windows : shown[w] # Cleared}
<1>1. ASSUME NEW w \in Windows PROVE rows'[w] = Cleared <=> shown[w] = Cleared
  <2>1. List(priv', order') # Cleared
    BY ListShows
  <2> QED
    BY <2>1 DEF Redraw
<1>2. Cleared' = Cleared
  BY DEF Cleared
<1> QED
  BY <1>1, <1>2 DEF Showing

\* A window shows what it showed, or nothing, or the messages.
LEMMA NumberedStep ==
  ASSUME Numbered, NEW n \in Nat, priv' \in Seq(1 .. n),
         \A w \in Windows : rows'[w] \in {rows[w], Cleared, List(priv', order')}
  PROVE  Numbered'
<1>1. DOMAIN List(priv', order') = 1 .. Len(priv') /\ Len(priv') \in Nat
  BY DEF List
<1>2. DOMAIN Cleared = 1 .. 1
  BY DEF Cleared
<1>3. ASSUME NEW w \in Windows, NEW k \in DOMAIN (rows'[w]) PROVE k \in Nat \ {0}
  <2>1. CASE rows'[w] = rows[w]
    BY <1>3, <2>1 DEF Numbered
  <2>2. CASE rows'[w] = Cleared
    BY <1>2, <1>3, <2>2
  <2>3. CASE rows'[w] = List(priv', order')
    BY <1>1, <1>3, <2>3
  <2> QED
    BY <2>1, <2>2, <2>3
<1> QED
  BY <1>3 DEF Numbered

LEMMA RedrawNumbered ==
  ASSUME NEW shown, NEW asking, NEW fewer, Redraw(shown, asking, fewer),
         NEW n \in Nat, priv' \in Seq(1 .. n), Numbered,
         \A w \in Windows : shown[w] \in {rows[w], Cleared}
  PROVE  Numbered'
<1>1. ASSUME NEW w \in Windows
      PROVE  rows'[w] \in {rows[w], Cleared, List(priv', order')}
  <2>1. rows'[w] \in {shown[w], Cleared, List(priv', order')}
    BY DEF Redraw
  <2> QED
    BY <2>1
<1> QED
  BY <1>1, NumberedStep

LEMMA NumberedStays ==
  ASSUME Numbered, UNCHANGED rows
  PROVE  Numbered'
BY DEF Numbered

\* Where an update is noticed each window shows the arrays.
LEMMA RedrawFresh ==
  ASSUME NEW shown, NEW asking, NEW fewer, Redraw(shown, asking, fewer), ~fewer,
         Fresh, ~Unnoticed, \A w \in Windows : shown[w] \in {rows[w], Cleared}
  PROVE  Fresh'
<1> SUFFICES ASSUME NEW w \in Windows, rows'[w] # Cleared
             PROVE  rows'[w] = List(priv', order')
  BY DEF Fresh, Cleared
<1>1. shown[w] # Cleared /\ shown[w] = rows[w] /\ rows[w] = List(priv, order)
  BY DEF Redraw, Fresh
<1>2. rows'[w] = IF w \in asking \/ Delta THEN List(priv', order') ELSE shown[w]
  BY <1>1 DEF Redraw
<1>3. CASE Delta \/ w \in asking
  BY <1>2, <1>3
<1>4. CASE ~Delta /\ w \notin asking /\ priv' = priv /\ order' = order
  BY <1>1, <1>2, <1>4
<1>5. CASE ~Delta /\ ~(priv' = priv /\ order' = order)
  BY <1>5 DEF Delta, Unnoticed
<1> QED
  BY <1>3, <1>4, <1>5

-----------------------------------------------------------------------------
(* An update.                                                              *)

\* b is what is left of the mailbox when what is marked may be gone.
Remains(b) ==
  /\ b \in Seq(1 .. arrived) /\ Unrepeated(b) /\ ToSet(b) \subseteq ToSet(box)
  /\ ToSet(box) \ ToSet(b) \subseteq deleted

LEMMA BothRemain ==
  ASSUME Mail
  PROVE  Remains(box) /\ Remains(Undeleted)
BY Expunged DEF Mail, Remains

\* The mailbox after that.
LEMMA RemainsMail ==
  ASSUME Mail, NEW b, Remains(b), box' = b, deleted' = deleted \cap ToSet(b),
         arrived' = arrived
  PROVE  Mail'
<1>1. ToSet(box)' = ToSet(b)
  BY DEF ToSet
<1> QED
  BY <1>1 DEF Mail, Remains

LEMMA RemainsMeant ==
  ASSUME Mail, Meant, NEW b, Remains(b), box' = b, deleted' = deleted \cap ToSet(b),
         arrived' = arrived, asked' = asked, Fresh'
  PROVE  Meant'
<1>1. ToSet(box)' = ToSet(b)
  BY DEF ToSet
<1>2. deleted' = asked' \cap ToSet(b)
  BY DEF Meant, Remains
<1>3. (1 .. arrived') \ ToSet(b) \subseteq asked'
  BY DEF Meant, Remains
<1> QED
  BY <1>1, <1>2, <1>3 DEF Meant

\* All that an update without a fault of the server does to an open folder.
LEMMA Updated ==
  ASSUME Mail, Parts, ~resort, NEW sync \in BOOLEAN, NEW shown, NEW asking,
         NEW new \in BOOLEAN, NEW fault \in BOOLEAN,
         UpdateFolder(sync, shown, asking, new, fault), Calm'
  PROVE  /\ Calm /\ Mail' /\ Parts' /\ ~resort'
         /\ Showing' = {w \in Windows : shown[w] # Cleared}
         /\ Numbered /\ (\A w \in Windows : shown[w] \in {rows[w], Cleared}) => Numbered'
         /\ faults' = {} /\ Meant /\ (\A w \in Windows : shown[w] \in {rows[w], Cleared})
              => Meant'
<1> DEFINE srv   == IF sync THEN Undeleted ELSE box
           kept  == Kept(sync)
           fewer == Fewer(kept, srv)
<1>1. ~fault
  BY DEF UpdateFolder, Calm
<1>2. /\ box' = srv /\ deleted' = deleted \cap ToSet(srv)
      /\ view' = srv /\ marked' = marked \cap ToSet(srv)
      /\ Arrays(kept, srv, new \/ resort)
      /\ Redraw(shown, asking, fewer)
      /\ faults' = IF ~fewer /\ Unnoticed THEN faults \cup {"unnoticed"} ELSE faults
      /\ arrived' = arrived /\ asked' = asked
  BY <1>1 DEF UpdateFolder
<1>3. Remains(srv)
  BY BothRemain
<1>4. srv \in Seq(1 .. arrived) /\ kept \in Seq(1 .. arrived) /\ Leads(kept, srv)
  BY <1>3, KeptLeads DEF Remains
<1> HIDE DEF srv, kept
<1>5. /\ arrived \in Nat /\ marked = deleted
      /\ priv \in Seq(1 .. arrived) /\ Orders(order, Len(priv))
  BY DEF Mail, Parts
<1>6. priv' = srv /\ Orders(order', Len(srv)) /\ ~resort' /\ ~fewer
  BY <1>2, <1>4, <1>5, ArraysStep
<1> HIDE DEF fewer
<1>7. Mail'
  BY <1>2, <1>3, RemainsMail
<1>8. Parts'
  <2>1. Leads(srv, srv)
    BY <1>4, LeadsSelf
  <2> QED
    BY <1>2, <1>4, <1>5, <1>6, <2>1 DEF Parts
<1>9. Showing' = {w \in Windows : shown[w] # Cleared}
  BY <1>2, <1>4, <1>5, <1>6, RedrawKeeps
<1>10. Calm
  BY <1>2 DEF Calm
<1>11. ASSUME Numbered, \A w \in Windows : shown[w] \in {rows[w], Cleared}
       PROVE  Numbered'
  BY <1>2, <1>4, <1>5, <1>6, <1>11, RedrawNumbered
<1>12. ASSUME faults' = {}, Meant, \A w \in Windows : shown[w] \in {rows[w], Cleared}
       PROVE  Meant'
  <2>1. ~Unnoticed
    BY <1>2, <1>6, <1>12
  <2>2. Fresh'
    BY <1>2, <1>6, <1>12, <2>1, RedrawFresh DEF Meant
  <2> QED
    BY <1>2, <1>3, <1>12, <2>2, RemainsMeant
<1> QED
  BY <1>6, <1>7, <1>8, <1>9, <1>10, <1>11, <1>12

\* No fault is forgotten.
LEMMA UpdateFaults ==
  ASSUME NEW sync, NEW shown, NEW asking, NEW new, NEW fault,
         UpdateFolder(sync, shown, asking, new, fault)
  PROVE  faults \subseteq faults'
BY DEF UpdateFolder

-----------------------------------------------------------------------------
(* The steps.                                                              *)

\* Who has the folder open in a window has a reference.
LEMMA ShownIsOpen ==
  ASSUME IInv, NEW w \in Windows, rows[w] # Cleared
  PROVE  refs > 0
<1>1. w \in Showing /\ IsFiniteSet(Showing) /\ Cardinality(Showing) \in Nat
  BY ShowingCount DEF Showing
<1>2. Cardinality(Showing) # 0
  BY <1>1, FS_EmptySet
<1> QED
  BY <1>1, <1>2 DEF IInv, HandlesLive

LEMMA UpdateSound ==
  ASSUME Sound, refs > 0, NEW sync \in BOOLEAN, NEW asking, NEW new \in BOOLEAN,
         NEW fault \in BOOLEAN, UpdateFolder(sync, rows, asking, new, fault),
         UNCHANGED <<refs, copying>>
  PROVE  Sound'
<1>1. faults \subseteq faults'
  BY UpdateFaults
<1>2. ASSUME Calm' PROVE Mail /\ Parts /\ ~resort /\ refs = Members /\ Numbered
  BY <1>1, <1>2 DEF Calm, Sound, Good
<1>3. ASSUME Calm' PROVE Good'
  <2>1. Mail' /\ Parts' /\ ~resort' /\ Numbered' /\ Showing' = Showing
    BY <1>2, <1>3, Updated DEF Showing
  <2> QED
    BY <1>2, <1>3, <2>1 DEF Good, Members
<1>4. ASSUME faults' = {} PROVE Meant'
  <2>1. Calm' /\ Meant
    BY <1>1, <1>4 DEF Calm, Sound
  <2> QED
    BY <1>2, <1>4, <2>1, Updated
<1> QED
  BY <1>3, <1>4 DEF Sound

\* The folder is freed.
LEMMA FreedSound ==
  ASSUME Sound, NEW expunge \in BOOLEAN, Freed(expunge)
  PROVE  Sound'
<1> DEFINE b == IF expunge THEN Undeleted ELSE box
<1>1. /\ box' = b /\ deleted' = deleted \cap ToSet(b)
      /\ ~resort' /\ refs' = 0 /\ rows' = [w \in Windows |-> Cleared]
      /\ arrived' = arrived /\ asked' = asked /\ faults' = faults
  BY DEF Freed, Forgotten, ClearWindows, ToSet
<1>2. ASSUME Calm' PROVE Mail /\ Remains(b)
  BY <1>1, <1>2, BothRemain DEF Calm, Sound, Good
<1> HIDE DEF b
<1>3. ASSUME Calm' PROVE Good'
  <2>1. Mail'
    BY <1>1, <1>2, <1>3, RemainsMail
  <2>2. Numbered'
    BY <1>1 DEF Numbered, Cleared
  <2> QED
    BY <1>1, <2>1, <2>2 DEF Good
<1>4. ASSUME faults' = {} PROVE Meant'
  <2>1. Calm' /\ Meant
    BY <1>1, <1>4 DEF Calm, Sound
  <2>2. Fresh'
    BY <1>1 DEF Fresh, Cleared
  <2> QED
    BY <1>1, <1>2, <2>1, <2>2, RemainsMeant
<1> QED
  BY <1>3, <1>4 DEF Sound

\* Others keep the folder: the references go down as those do who have it.
LEMMA CloseSound ==
  ASSUME IInv, Sound, refs > 0, NEW shown, Close(shown),
         \A w \in Windows : shown[w] \in {rows[w], Cleared},
         shown = [w \in Windows |-> shown[w]],
         Cardinality({w \in Windows : shown[w] # Cleared})
           + (IF copying' THEN 1 ELSE 0) = Members - 1
  PROVE  Sound'
<1> DEFINE S == {w \in Windows : shown[w] # Cleared}
<1>1. CASE LastReference
  BY <1>1, FreedSound, ConstantsAssumption DEF Close
<1>2. CASE ~LastReference
  <2>1. refs' = refs - 1 /\ refs' > 0
    <3>1. refs' = refs - 1
      BY <1>2 DEF Close
    <3>2. refs \in Nat /\ refs # 1
      BY <1>2 DEF LastReference, IInv
    <3> QED
      BY <3>1, <3>2
  <2>2. CASE \E fault \in BOOLEAN : UpdateFolder(TRUE, shown, {}, FALSE, fault)
    <3>1. PICK fault \in BOOLEAN : UpdateFolder(TRUE, shown, {}, FALSE, fault)
      BY <2>2
    <3>2. faults \subseteq faults'
      BY <3>1, UpdateFaults
    <3>3. ASSUME Calm' PROVE Mail /\ Parts /\ ~resort /\ refs = Members /\ Numbered
      BY <3>2, <3>3 DEF Calm, Sound, Good
    <3>4. ASSUME Calm' PROVE Good'
      <4>1. Mail' /\ Parts' /\ ~resort' /\ Numbered' /\ Showing' = S
        BY <3>1, <3>3, <3>4, Updated
      <4>2. Members' = refs - 1
        BY <3>3, <3>4, <4>1 DEF Members
      <4> QED
        BY <2>1, <4>1, <4>2 DEF Good
    <3>5. ASSUME faults' = {} PROVE Meant'
      <4>1. Calm' /\ Meant
        BY <3>2, <3>5 DEF Calm, Sound
      <4> QED
        BY <3>1, <3>3, <3>5, <4>1, Updated
    <3> QED
      BY <3>4, <3>5 DEF Sound
  <2>3. CASE rows' = shown /\ UNCHANGED <<mailbox, stream, arrays, asked, faults>>
    <3>1. UNCHANGED <<box, deleted, arrived, view, marked, priv, order, resort>>
      BY <2>3 DEF mailbox, stream, arrays
    <3>2. Showing' = S
      BY <2>3 DEF Showing, Cleared
    <3>3. ASSUME Calm' PROVE Good'
      <4>1. Good /\ Parts /\ refs = Members
        BY <2>3, <3>3 DEF Calm, Sound, Good
      <4>2. Members' = refs - 1
        BY <3>2, <4>1 DEF Members
      <4>3. Mail' /\ Parts' /\ ~resort'
        BY <3>1, <4>1 DEF Good, Mail, Parts
      <4>4. Numbered'
        <5>1. \A w \in Windows : rows'[w] \in {rows[w], Cleared}
          BY <2>3
        <5>2. \A w \in Windows : DOMAIN rows[w] \subseteq Nat \ {0}
          BY <4>1 DEF Good, Numbered
        <5>3. DOMAIN Cleared = 1 .. 1
          BY DEF Cleared
        <5>4. \A w \in Windows : DOMAIN (rows'[w]) \subseteq Nat \ {0}
          BY <5>1, <5>2, <5>3
        <5> QED
          BY <5>4 DEF Numbered
      <4> QED
        BY <2>1, <4>2, <4>3, <4>4 DEF Good
    <3>4. ASSUME faults' = {} PROVE Meant'
      <4>1. Meant
        BY <2>3, <3>4 DEF Sound
      <4>2. List(priv', order') = List(priv, order)
        BY <3>1
      <4>3. Fresh'
        BY <2>3, <4>1, <4>2 DEF Meant, Fresh, Cleared
      <4> QED
        BY <2>3, <3>1, <4>1, <4>3 DEF Meant
    <3> QED
      BY <3>3, <3>4 DEF Sound
  <2> QED
    BY <1>2, <2>2, <2>3 DEF Close
<1> QED
  BY <1>1, <1>2

LEMMA CloseFolderSound ==
  ASSUME IInv, Sound, NEW w \in Windows, CloseFolder(w)
  PROVE  Sound'
<1> DEFINE shown == [rows EXCEPT ![w] = Cleared]
           S == {v \in Windows : shown[v] # Cleared}
<1>1. /\ ~copying /\ copying' = FALSE /\ w \in Showing /\ rows[w] # Cleared
      /\ Close(shown)
  BY DEF CloseFolder, Showing, IInv
<1>2. /\ shown = [v \in Windows |-> shown[v]] /\ shown[w] = Cleared
      /\ \A v \in Windows \ {w} : shown[v] = rows[v]
  BY DEF IInv
<1> HIDE DEF shown
<1>3. S = Showing \ {w}
  BY <1>2 DEF Showing
<1>4. Cardinality(S) = Cardinality(Showing) - 1 /\ Cardinality(Showing) \in Nat
  BY <1>1, <1>3, OneLess, ShowingCount
<1>5. Cardinality(S) + (IF copying' THEN 1 ELSE 0) = Members - 1
  BY <1>1, <1>4 DEF Members
<1>6. refs > 0
  BY <1>1, ShownIsOpen
<1>7. \A v \in Windows : shown[v] \in {rows[v], Cleared}
  BY <1>2
<1> QED
  BY <1>1, <1>2, <1>5, <1>6, <1>7, CloseSound

LEMMA InsertedSound == ASSUME IInv, Sound, Inserted PROVE Sound'
<1>1. copying /\ copying' = FALSE
  BY DEF Inserted
<1>2. CASE ~lost
  <2>1. Close(rows)
    BY <1>2 DEF Inserted
  <2>2. Cardinality(Showing) \in Nat
    BY ShowingCount
  <2>3. Cardinality(Showing) + (IF copying' THEN 1 ELSE 0) = Members - 1
    BY <1>1, <2>2 DEF Members
  <2>4. refs > 0
    BY <1>1, <1>2, <2>2 DEF IInv, HandlesLive
  <2>5. rows = [w \in Windows |-> rows[w]]
    BY DEF IInv
  <2> QED
    BY <2>1, <2>3, <2>4, <2>5, CloseSound DEF Showing
<1>3. CASE lost
  <2>1. UNCHANGED <<box, deleted, arrived, view, marked, priv, order, resort, refs,
                    rows, asked, faults>>
    BY <1>3 DEF Inserted, mailbox, stream, arrays
  <2>2. ~(refs > 0)
    BY <1>3 DEF IInv
  <2>3. List(priv', order') = List(priv, order)
    BY <2>1
  <2>4. (Mail <=> Mail') /\ (Numbered <=> Numbered') /\ (Fresh <=> Fresh')
    BY <2>1, <2>3 DEF Mail, Numbered, Fresh, Cleared
  <2> QED
    BY <2>1, <2>2, <2>4 DEF Sound, Calm, Good, Meant
<1> QED
  BY <1>2, <1>3

\* One more message at the end of the mailbox.
LEMMA Arrived ==
  ASSUME Mail, NEW b, b = Append(box, arrived + 1)
  PROVE  /\ b \in Seq(1 .. arrived + 1) /\ Unrepeated(b) /\ Leads(box, b)
         /\ ToSet(b) = ToSet(box) \cup {arrived + 1}
<1>1. /\ arrived \in Nat /\ box \in Seq(1 .. arrived) /\ Len(box) \in Nat
      /\ Unrepeated(box)
  BY DEF Mail
<1>2. /\ box \in Seq(1 .. arrived + 1)
      /\ \A i \in 1 .. Len(box) : box[i] \in 1 .. arrived
  BY <1>1
<1>3. /\ b \in Seq(1 .. arrived + 1) /\ Len(b) = Len(box) + 1
      /\ b[Len(box) + 1] = arrived + 1 /\ \A i \in 1 .. Len(box) : b[i] = box[i]
  BY <1>1, <1>2
<1>4. DOMAIN b = 1 .. Len(box) + 1 /\ DOMAIN box = 1 .. Len(box)
  BY <1>1, <1>3
<1>5. ASSUME NEW i \in 1 .. Len(b)
      PROVE  i \in 1 .. Len(box) \/ i = Len(box) + 1
  BY <1>1, <1>3
<1>6. arrived + 1 \notin 1 .. arrived
  BY <1>1
<1>7. Unrepeated(b)
  <2> SUFFICES ASSUME NEW i \in 1 .. Len(b), NEW j \in 1 .. Len(b), b[i] = b[j]
               PROVE  i = j
    BY DEF Unrepeated
  <2>1. CASE i \in 1 .. Len(box) /\ j \in 1 .. Len(box)
    BY <1>1, <1>3, <2>1 DEF Unrepeated
  <2>2. CASE i \in 1 .. Len(box) /\ j = Len(box) + 1
    BY <1>2, <1>3, <1>6, <2>2
  <2>3. CASE i = Len(box) + 1 /\ j \in 1 .. Len(box)
    BY <1>2, <1>3, <1>6, <2>3
  <2> QED
    BY <1>5, <2>1, <2>2, <2>3
<1>8. Leads(box, b)
  BY <1>1, <1>3 DEF Leads
<1>9. ToSet(b) = ToSet(box) \cup {arrived + 1}
  <2>1. ASSUME NEW m \in ToSet(b) PROVE m \in ToSet(box) \cup {arrived + 1}
    <3>1. PICK i \in 1 .. Len(box) + 1 : m = b[i]
      BY <1>4 DEF ToSet
    <3> QED
      BY <1>3, <1>4, <1>5, <3>1 DEF ToSet
  <2>2. ASSUME NEW m \in ToSet(box) PROVE m \in ToSet(b)
    <3>1. PICK i \in 1 .. Len(box) : m = box[i]
      BY <1>4 DEF ToSet
    <3>2. i \in 1 .. Len(box) + 1
      BY <1>1
    <3> QED
      BY <1>3, <1>4, <3>1, <3>2 DEF ToSet
  <2>3. arrived + 1 \in ToSet(b)
    <3>1. Len(box) + 1 \in DOMAIN b /\ arrived + 1 = b[Len(box) + 1]
      BY <1>1, <1>3, <1>4
    <3> QED
      BY <3>1 DEF ToSet
  <2> QED
    BY <2>1, <2>2, <2>3
<1> QED
  BY <1>3, <1>7, <1>8, <1>9

LEMMA ArrivedMail ==
  ASSUME Mail, arrived' = arrived + 1, box' = Append(box, arrived + 1),
         deleted' = deleted
  PROVE  Mail'
<1>1. /\ box' \in Seq(1 .. arrived + 1) /\ Unrepeated(box')
      /\ ToSet(box') = ToSet(box) \cup {arrived + 1}
  BY Arrived
<1>2. ToSet(box)' = ToSet(box')
  BY DEF ToSet
<1> QED
  BY <1>1, <1>2 DEF Mail

LEMMA ArrivedMeant ==
  ASSUME Mail, Meant, arrived' = arrived + 1, box' = Append(box, arrived + 1),
         deleted' = deleted, asked' = asked, Fresh'
  PROVE  Meant'
<1>1. arrived \in Nat /\ ToSet(box') = ToSet(box) \cup {arrived + 1}
  BY Arrived DEF Mail
<1>2. ToSet(box)' = ToSet(box')
  BY DEF ToSet
<1>3. asked \subseteq 1 .. arrived /\ arrived + 1 \notin asked
  BY <1>1 DEF Meant
<1>4. deleted' = asked' \cap ToSet(box')
  BY <1>1, <1>3 DEF Meant
<1>5. \A m \in 1 .. arrived + 1 : m \in 1 .. arrived \/ m = arrived + 1
  BY <1>1
<1>6. (1 .. arrived') \ ToSet(box') \subseteq asked'
  BY <1>1, <1>5 DEF Meant
<1>7. asked' \subseteq 1 .. arrived'
  BY <1>1, <1>3
<1> QED
  BY <1>2, <1>4, <1>6, <1>7 DEF Meant

LEMMA ArriveSound == ASSUME IInv, Sound, Arrive PROVE Sound'
<1>1. /\ arrived' = arrived + 1 /\ box' = Append(box, arrived + 1)
      /\ UNCHANGED <<deleted, view, marked, priv, order, resort, refs, rows, copying,
                     asked, faults>>
  BY DEF Arrive, NewMail, stream, arrays
<1>2. ASSUME Calm' PROVE Good'
  <2>1. Good
    BY <1>1, <1>2 DEF Calm, Sound
  <2>2. Mail'
    BY <1>1, <2>1, ArrivedMail DEF Good
  <2>3. ASSUME refs > 0 PROVE Parts'
    <3>1. Parts /\ arrived \in Nat /\ Mail
      BY <2>1, <2>3 DEF Good, Mail
    <3>2. view \in Seq(1 .. arrived + 1) /\ priv \in Seq(1 .. arrived + 1)
      BY <3>1 DEF Parts
    <3>3. /\ box \in Seq(1 .. arrived + 1) /\ box' \in Seq(1 .. arrived + 1)
          /\ Leads(box, box')
      <4>1. box' \in Seq(1 .. arrived + 1) /\ Leads(box, box')
        BY <1>1, <3>1, Arrived
      <4>2. box \in Seq(1 .. arrived + 1)
        BY <3>1 DEF Mail
      <4> QED
        BY <4>1, <4>2
    <3>4. Leads(view, box')
      BY <3>1, <3>2, <3>3, LeadsOn DEF Parts
    <3> QED
      BY <1>1, <3>1, <3>2, <3>4 DEF Parts
  <2>4. Showing' = Showing
    BY <1>1 DEF Showing, Cleared
  <2>5. Numbered'
    BY <1>1, <2>1, NumberedStays DEF Good
  <2> QED
    BY <1>1, <2>1, <2>2, <2>3, <2>4, <2>5 DEF Good, Members
<1>3. ASSUME faults' = {} PROVE Meant'
  <2>1. Mail /\ Meant
    BY <1>1, <1>3 DEF Calm, Sound, Good
  <2>2. List(priv', order') = List(priv, order)
    BY <1>1
  <2>3. Fresh'
    BY <1>1, <2>1, <2>2 DEF Meant, Fresh, Cleared
  <2> QED
    BY <1>1, <2>1, <2>3, ArrivedMeant
<1> QED
  BY <1>2, <1>3 DEF Sound

LEMMA ExistsSound == ASSUME IInv, Sound, Exists PROVE Sound'
<1>1. /\ view' = box /\ refs > 0
      /\ UNCHANGED <<box, deleted, arrived, marked, priv, order, resort, refs, rows,
                     copying, asked, faults>>
  BY DEF Exists, mailbox, arrays
<1>2. Showing' = Showing
  BY <1>1 DEF Showing, Cleared
<1>3. ASSUME Calm' PROVE Good'
  <2>1. Good /\ Mail /\ Parts
    BY <1>1, <1>3 DEF Calm, Sound, Good
  <2>2. box \in Seq(1 .. arrived) /\ Leads(box, box) /\ Leads(priv, box)
    BY <2>1, LeadsOn, LeadsSelf DEF Mail, Parts
  <2>3. Mail' /\ Parts'
    BY <1>1, <2>1, <2>2 DEF Mail, Parts
  <2>4. Numbered'
    BY <1>1, <2>1, NumberedStays DEF Good
  <2> QED
    BY <1>1, <1>2, <2>1, <2>3, <2>4 DEF Good, Members
<1>4. ASSUME faults' = {} PROVE Meant'
  <2>1. Meant /\ List(priv', order') = List(priv, order)
    BY <1>1, <1>4 DEF Sound
  <2>2. Fresh'
    BY <1>1, <2>1 DEF Meant, Fresh, Cleared
  <2> QED
    BY <1>1, <2>1, <2>2 DEF Meant
<1> QED
  BY <1>3, <1>4 DEF Sound

\* A window more, and a reference more.
LEMMA OpenMembers ==
  ASSUME IInv, IInv', NEW w \in Windows, Open(w), NEW n \in Nat, priv' \in Seq(1 .. n)
  PROVE  Members' = Members + 1
<1>1. /\ rows[w] = Cleared /\ copying' = copying /\ ~copying
      /\ rows' = [rows EXCEPT ![w] = List(priv', order')]
  BY DEF Open
<1>2. List(priv', order') # Cleared
  BY ListShows
<1>3. Showing' = Showing \cup {w}
  <2>1. /\ \A v \in Windows \ {w} : rows'[v] = rows[v]
        /\ rows'[w] = List(priv', order')
    BY <1>1 DEF IInv
  <2> QED
    BY <1>2, <2>1 DEF Showing, Cleared
<1>4. w \notin Showing /\ IsFiniteSet(Showing) /\ Cardinality(Showing) \in Nat
  BY <1>1, ShowingCount DEF Showing
<1>5. Cardinality(Showing \cup {w}) = Cardinality(Showing) + 1
  BY <1>4, FS_AddElement
<1> QED
  BY <1>1, <1>3, <1>4, <1>5 DEF Members

LEMMA OpenSound ==
  ASSUME IInv, IInv', Sound, NEW w \in Windows, Open(w)
  PROVE  Sound'
<1>1. /\ refs' = refs + 1 /\ refs \in Nat
      /\ rows' = [rows EXCEPT ![w] = List(priv', order')]
      /\ UNCHANGED <<box, deleted, arrived, copying, asked, faults>>
  BY DEF Open, mailbox, IInv
<1>2. ASSUME Calm' PROVE Mail' /\ Parts' /\ ~resort' /\ refs = Members
  <2>1. Good /\ Mail
    BY <1>1, <1>2 DEF Calm, Sound, Good
  <2>2. Mail'
    BY <1>1, <2>1 DEF Mail
  <2>3. CASE refs > 0
    <3>1. UNCHANGED <<view, marked, priv, order, resort>>
      BY <2>3 DEF Open, stream, arrays
    <3> QED
      BY <1>1, <2>1, <2>2, <2>3, <3>1 DEF Good, Parts
  <2>4. CASE refs = 0
    <3>1. /\ view' = box /\ marked' = deleted
          /\ priv' = box /\ order' = Sorted(Len(box)) /\ resort' = FALSE
      BY <2>4 DEF Open
    <3>2. /\ box \in Seq(1 .. arrived) /\ Leads(box, box)
          /\ Orders(Sorted(Len(box)), Len(box))
      BY <2>1, LeadsSelf, SortedOrders DEF Mail
    <3>3. ~copying
      BY DEF Open
    <3>4. Cardinality(Showing) + 0 <= refs /\ Cardinality(Showing) \in Nat
      BY <3>3, ShowingCount DEF IInv, HandlesLive
    <3>5. refs = Members
      BY <2>4, <3>3, <3>4 DEF Members
    <3> QED
      BY <1>1, <2>2, <3>1, <3>2, <3>5 DEF Parts
  <2> QED
    BY <1>1, <2>3, <2>4
<1>3. ASSUME Calm' PROVE Good'
  <2>1. priv' \in Seq(1 .. arrived') /\ arrived' \in Nat
    BY <1>2, <1>3 DEF Parts, Mail
  <2>2. Members' = Members + 1
    BY <2>1, OpenMembers
  <2>3. Numbered
    BY <1>1, <1>3 DEF Calm, Sound, Good
  <2>4. \A v \in Windows : rows'[v] \in {rows[v], Cleared, List(priv', order')}
    BY <1>1 DEF IInv
  <2>5. Numbered'
    BY <2>1, <2>3, <2>4, NumberedStep
  <2> QED
    BY <1>1, <1>2, <1>3, <2>2, <2>5 DEF Good
<1>4. ASSUME faults' = {} PROVE Meant'
  <2>1. Meant
    BY <1>1, <1>4 DEF Sound
  <2>2. ASSUME NEW v \in Windows, rows'[v] # Cleared
        PROVE  rows'[v] = List(priv', order')
    <3>1. CASE v = w
      BY <1>1, <3>1 DEF IInv
    <3>2. CASE v # w
      <4>1. rows'[v] = rows[v] /\ rows[v] # Cleared
        BY <1>1, <2>2, <3>2 DEF IInv
      <4>2. refs > 0
        BY <4>1, ShownIsOpen
      <4>3. List(priv', order') = List(priv, order)
        BY <1>1, <4>2 DEF Open, arrays
      <4> QED
        BY <2>1, <4>1, <4>3 DEF Meant, Fresh
    <3> QED
      BY <3>1, <3>2
  <2>3. Fresh'
    BY <2>2 DEF Fresh, Cleared
  <2> QED
    BY <1>1, <2>1, <2>3 DEF Meant
<1> QED
  BY <1>3, <1>4 DEF Sound

\* The message is in the mailbox, and the folder has it.
LEMMA GrownSound ==
  ASSUME IInv, Sound, refs > 0, ~copying, copying' = TRUE, refs' = refs + 1, Grown
  PROVE  Sound'
<1> DEFINE b == Append(box, arrived + 1)
           fewer == Fewer(priv, b)
<1>1. /\ ~copying /\ copying' = TRUE /\ refs' = refs + 1 /\ refs > 0 /\ refs \in Nat
      /\ arrived' = arrived + 1 /\ box' = b /\ view' = b
      /\ UNCHANGED <<deleted, marked, asked>>
  BY DEF Grown, NewMail, IInv
<1>2. /\ Arrays(priv, b, resort) /\ Redraw(rows, {}, fewer)
      /\ faults' = IF ~fewer /\ Unnoticed THEN faults \cup {"unnoticed"} ELSE faults
  BY <1>1 DEF Grown
<1> HIDE DEF b
<1>3. ASSUME Calm' PROVE Good /\ Mail /\ Parts /\ refs = Members /\ ~resort
  BY <1>1, <1>2, <1>3 DEF Calm, Sound, Good
<1>4. ASSUME Calm'
      PROVE  /\ arrived + 1 \in Nat /\ b \in Seq(1 .. arrived + 1)
             /\ priv' = b /\ Orders(order', Len(b)) /\ ~resort' /\ ~fewer
  <2>1. b \in Seq(1 .. arrived + 1) /\ Leads(box, b)
    BY <1>3, <1>4, Arrived DEF b
  <2>2. /\ priv \in Seq(1 .. arrived + 1) /\ view \in Seq(1 .. arrived + 1)
        /\ box \in Seq(1 .. arrived + 1) /\ arrived + 1 \in Nat
        /\ Leads(priv, view) /\ Leads(view, box) /\ Orders(order, Len(priv))
    BY <1>3, <1>4 DEF Mail, Parts
  <2>3. Leads(priv, box)
    BY <2>2, LeadsOn
  <2>4. Leads(priv, b)
    BY <2>1, <2>2, <2>3, LeadsOn
  <2> QED
    BY <1>2, <2>1, <2>2, <2>4, ArraysStep
<1> HIDE DEF fewer
<1>5. ASSUME Calm' PROVE Good'
  <2>1. Mail'
    BY <1>1, <1>3, <1>5, ArrivedMail DEF b
  <2>2. Leads(b, b)
    BY <1>4, <1>5, LeadsSelf
  <2>3. Parts'
    BY <1>1, <1>3, <1>4, <1>5, <2>2 DEF Parts
  <2>4. Showing' = Showing
    BY <1>2, <1>4, <1>5, RedrawKeeps DEF Showing
  <2>5. Members' = Members + 1
    BY <1>1, <2>4, ShowingCount DEF Members
  <2>6. Numbered'
    BY <1>2, <1>3, <1>4, <1>5, RedrawNumbered DEF Good
  <2> QED
    BY <1>1, <1>3, <1>4, <1>5, <2>1, <2>3, <2>5, <2>6 DEF Good
<1>6. ASSUME faults' = {} PROVE Meant'
  <2>1. Calm' /\ Meant
    BY <1>2, <1>6 DEF Calm, Sound
  <2>2. ~fewer /\ ~Unnoticed
    BY <1>2, <1>4, <1>6, <2>1
  <2>3. Fresh'
    BY <1>2, <2>1, <2>2, RedrawFresh DEF Meant
  <2> QED
    BY <1>1, <1>3, <2>1, <2>3, ArrivedMeant DEF b
<1> QED
  BY <1>5, <1>6 DEF Sound

\* The message could not be appended, and the folder was updated.
LEMMA RefusedSound ==
  ASSUME IInv, Sound, refs > 0, ~copying, copying' = TRUE, refs' = refs + 1,
         UpdateFolder(FALSE, rows, {}, FALSE, FALSE)
  PROVE  Sound'
<1>1. faults \subseteq faults'
  BY UpdateFaults
<1>2. ASSUME Calm' PROVE Mail /\ Parts /\ ~resort /\ refs = Members /\ Numbered
  BY <1>1, <1>2 DEF Calm, Sound, Good
<1>3. ASSUME Calm' PROVE Good'
  <2>1. Mail' /\ Parts' /\ ~resort' /\ Numbered' /\ Showing' = Showing
    BY <1>2, <1>3, Updated DEF Showing
  <2>2. Members' = Members + 1
    BY <2>1, ShowingCount DEF Members
  <2> QED
    BY <1>2, <1>3, <2>1, <2>2 DEF Good
<1>4. ASSUME faults' = {} PROVE Meant'
  <2>1. Calm' /\ Meant
    BY <1>1, <1>4 DEF Calm, Sound
  <2> QED
    BY <1>2, <1>4, <2>1, Updated
<1> QED
  BY <1>3, <1>4 DEF Sound

\* The folder is freed, and the message may be in the mailbox.
LEMMA LostSound ==
  ASSUME Sound, Forgotten, NewMail \/ UNCHANGED mailbox
  PROVE  Sound'
<1>1. /\ ~resort' /\ refs' = 0 /\ rows' = [w \in Windows |-> Cleared]
      /\ asked' = asked /\ faults' = faults
  BY DEF Forgotten, ClearWindows
<1>2. ASSUME Calm' PROVE Mail
  BY <1>1, <1>2 DEF Calm, Sound, Good
<1>3. Numbered' /\ Fresh'
  BY <1>1 DEF Numbered, Fresh, Cleared
<1>4. CASE NewMail
  <2>1. arrived' = arrived + 1 /\ box' = Append(box, arrived + 1) /\ deleted' = deleted
    BY <1>4 DEF NewMail
  <2>2. Calm' => Good'
    BY <1>1, <1>2, <1>3, <2>1, ArrivedMail DEF Good
  <2>3. ASSUME faults' = {} PROVE Meant'
    <3>1. Mail /\ Meant
      BY <1>1, <1>2, <2>3 DEF Calm, Sound
    <3> QED
      BY <1>1, <1>3, <2>1, <3>1, ArrivedMeant
  <2> QED
    BY <2>2, <2>3 DEF Sound
<1>5. CASE UNCHANGED mailbox
  <2>1. UNCHANGED <<box, deleted, arrived>>
    BY <1>5 DEF mailbox
  <2>2. Mail <=> Mail'
    BY <2>1 DEF Mail
  <2>3. Calm' => Good'
    BY <1>1, <1>2, <1>3, <2>2 DEF Good
  <2>4. ASSUME faults' = {} PROVE Meant'
    <3>1. Meant
      BY <1>1, <2>4 DEF Sound
    <3> QED
      BY <1>1, <1>3, <2>1, <3>1 DEF Meant
  <2> QED
    BY <2>3, <2>4 DEF Sound
<1> QED
  BY <1>4, <1>5

LEMMA InsertSound == ASSUME IInv, Sound, Insert PROVE Sound'
<1>1. ~copying /\ copying' = TRUE /\ refs > 0
  BY DEF Insert
<1>2. CASE refs' = refs + 1 /\ (Grown \/ UpdateFolder(FALSE, rows, {}, FALSE, FALSE))
  BY <1>1, <1>2, GrownSound, RefusedSound
<1>3. CASE Forgotten /\ (NewMail \/ UNCHANGED mailbox)
  BY <1>3, LostSound
<1> QED
  BY <1>2, <1>3 DEF Insert

\* The messages that Std_SetFlagProc marks are those the list command has shown.
LEMMA SetFlagSound ==
  ASSUME IInv, Sound, NEW w \in Windows, NEW K \in SUBSET DOMAIN rows[w],
         NEW value \in BOOLEAN, SetFlag(w, K, value)
  PROVE  Sound'
<1> DEFINE ms == {view[p] : p \in Positions(K)}
           To(set, s) == IF value THEN set \cup s ELSE set \ s
<1>1. /\ rows[w] # Cleared /\ refs > 0 /\ marked' = To(marked, ms)
      /\ asked' = To(asked, {rows[w][k] : k \in K})
      /\ \A k \in K : k <= Len(priv)
      /\ UNCHANGED <<box, arrived, view, priv, order, resort, refs, rows, copying>>
  BY ShownIsOpen DEF SetFlag, arrays
<1>2. /\ faults \subseteq faults'
      /\ Calm' => faults' = faults /\ deleted' = To(deleted, ms \cap ToSet(box))
  BY DEF SetFlag, Calm
<1>3. ASSUME Calm' PROVE Good /\ Mail /\ Parts /\ Numbered
  BY <1>1, <1>2, <1>3 DEF Calm, Sound, Good
<1>4. ASSUME Calm', NEW k \in K
      PROVE  /\ k \in DOMAIN priv /\ order[k] \in DOMAIN priv
             /\ priv[order[k]] = view[order[k]] /\ view[order[k]] \in ToSet(box)
  <2>1. /\ box \in Seq(1 .. arrived) /\ view \in Seq(1 .. arrived)
        /\ priv \in Seq(1 .. arrived) /\ Leads(priv, view) /\ Leads(view, box)
        /\ Orders(order, Len(priv))
    BY <1>3, <1>4 DEF Mail, Parts
  <2>2. k \in Nat \ {0} /\ k <= Len(priv) /\ Len(priv) \in Nat
    BY <1>1, <1>3, <1>4, <2>1 DEF Numbered
  <2>3. k \in 1 .. Len(priv)
    BY <2>2
  <2>4. order[k] \in 1 .. Len(priv)
    BY <2>1, <2>2, <2>3, OrdersAll
  <2>5. /\ Len(priv) \in Nat /\ Len(view) \in Nat /\ Len(box) \in Nat
        /\ Len(priv) <= Len(view) /\ Len(view) <= Len(box)
    BY <2>1 DEF Leads
  <2>6. order[k] \in 1 .. Len(view) /\ order[k] \in 1 .. Len(box)
    BY <2>4, <2>5
  <2>7. priv[order[k]] = view[order[k]] /\ view[order[k]] = box[order[k]]
    BY <2>1, <2>4, <2>6 DEF Leads
  <2>8. view[order[k]] \in ToSet(box)
    BY <2>1, <2>6, <2>7 DEF ToSet
  <2> QED
    BY <2>1, <2>3, <2>4, <2>7, <2>8
<1>5. Calm' => ms \subseteq ToSet(box)
  BY <1>4 DEF Positions
<1>6. ASSUME faults' = {} PROVE {rows[w][k] : k \in K} = ms
  <2>1. Calm' /\ rows[w] = List(priv, order)
    BY <1>1, <1>2, <1>6 DEF Calm, Sound, Meant, Fresh
  <2>2. ASSUME NEW k \in K PROVE rows[w][k] = view[order[k]]
    BY <1>4, <2>1 DEF List
  <2> QED
    BY <2>2 DEF Positions
<1> HIDE DEF ms
<1>7. ASSUME Calm' PROVE Good'
  <2>1. deleted' = To(deleted, ms) /\ ms \subseteq ToSet(box)
    <3>1. ms \cap ToSet(box) = ms
      BY <1>5, <1>7
    <3> QED
      BY <1>2, <1>7, <3>1
  <2>2. ToSet(box)' = ToSet(box)
    BY <1>1 DEF ToSet
  <2>3. Mail'
    BY <1>1, <1>3, <1>7, <2>1, <2>2 DEF Mail
  <2>4. Parts'
    BY <1>1, <1>3, <1>7, <2>1 DEF Parts
  <2>5. Showing' = Showing
    BY <1>1 DEF Showing, Cleared
  <2>6. Numbered'
    BY <1>1, <1>3, <1>7, NumberedStays
  <2> QED
    BY <1>1, <1>3, <1>7, <2>3, <2>4, <2>5, <2>6 DEF Good, Members
<1>8. ASSUME faults' = {} PROVE Meant'
  <2>1. Calm' /\ Meant
    BY <1>2, <1>8 DEF Calm, Sound
  <2>2. ms \subseteq ToSet(box) /\ ms \cap ToSet(box) = ms
    BY <1>5, <2>1
  <2>3. asked' = To(asked, ms) /\ deleted' = To(deleted, ms)
    BY <1>1, <1>2, <1>6, <1>8, <2>1, <2>2
  <2>4. ToSet(box)' = ToSet(box) /\ ToSet(box) \subseteq 1 .. arrived
    <3>1. box \in Seq(1 .. arrived)
      BY <1>3, <2>1 DEF Mail
    <3>2. ToSet(box) \subseteq 1 .. arrived
      BY <3>1, Elements
    <3>3. box' = box
      BY <1>1
    <3>4. ToSet(box)' = ToSet(box)
      BY <3>3 DEF ToSet
    <3> QED
      BY <3>2, <3>4
  <2>5. deleted' = asked' \cap ToSet(box)
    BY <2>1, <2>2, <2>3 DEF Meant
  <2>6. (1 .. arrived) \ ToSet(box) \subseteq asked' /\ asked' \subseteq 1 .. arrived
    BY <2>1, <2>2, <2>3, <2>4 DEF Meant
  <2>7. List(priv', order') = List(priv, order)
    BY <1>1
  <2>8. Fresh'
    BY <1>1, <2>1, <2>7 DEF Meant, Fresh, Cleared
  <2> QED
    BY <1>1, <2>4, <2>5, <2>6, <2>8 DEF Meant
<1> QED
  BY <1>7, <1>8 DEF Sound

LEMMA UnchangedSound == ASSUME Sound, UNCHANGED vars PROVE Sound'
<1>1. UNCHANGED <<box, deleted, arrived, view, marked, priv, order, resort, refs,
                  rows, copying, asked, faults>>
  BY DEF vars, mailbox, stream, arrays
<1>2. List(priv', order') = List(priv, order) /\ Cleared' = Cleared
  BY <1>1 DEF Cleared
<1>3. (Mail <=> Mail') /\ (Parts <=> Parts') /\ (Numbered <=> Numbered')
  BY <1>1 DEF Mail, Parts, Numbered
<1>4. Members' = Members
  <2>1. Showing' = Showing
    BY <1>1, <1>2 DEF Showing
  <2> QED
    BY <1>1, <2>1 DEF Members
<1>5. Fresh <=> Fresh'
  BY <1>1, <1>2 DEF Fresh
<1> QED
  BY <1>1, <1>3, <1>4, <1>5 DEF Sound, Calm, Good, Meant

LEMMA WindowSound ==
  ASSUME IInv, IInv', Sound, NEW w \in Windows, Window(w)
  PROVE  Sound'
<1>1. CASE SetSortOrder(w)
  <2>1. UpdateFolder(FALSE, rows, {w}, TRUE, FALSE) /\ UNCHANGED <<refs, copying>>
    BY <1>1 DEF SetSortOrder
  <2>2. refs > 0
    BY <1>1, ShownIsOpen DEF SetSortOrder
  <2> QED
    BY <2>1, <2>2, UpdateSound
<1>2. ASSUME NEW sync \in BOOLEAN, Sync(w, sync) PROVE Sound'
  <2>1. PICK fault \in BOOLEAN : UpdateFolder(sync, rows, {w}, FALSE, fault)
    BY <1>2 DEF Sync
  <2>2. refs > 0 /\ UNCHANGED <<refs, copying>>
    BY <1>2, ShownIsOpen DEF Sync
  <2> QED
    BY <2>1, <2>2, UpdateSound
<1>3. ASSUME NEW K \in SUBSET DOMAIN rows[w], NEW value \in BOOLEAN,
             SetFlag(w, K, value)
      PROVE  Sound'
  BY <1>3, SetFlagSound
<1> QED
  BY <1>1, <1>2, <1>3, OpenSound, CloseFolderSound DEF Window

LEMMA SoundStep == IInv /\ IInv' /\ Sound /\ [Next]_vars => Sound'
<1> SUFFICES ASSUME IInv, IInv', Sound, [Next]_vars PROVE Sound'
  OBVIOUS
<1>1. CASE UpdateTime
  <2>1. /\ refs > 0 /\ UNCHANGED <<refs, copying>>
        /\ UpdateFolder(FALSE, rows, {}, FALSE, FALSE)
    BY <1>1 DEF UpdateTime
  <2> QED
    BY <2>1, UpdateSound
<1>2. CASE LostContact
  BY <1>2, FreedSound DEF LostContact
<1>3. ASSUME NEW i, OtherExpunge(i) PROVE Sound'
  <2>1. "removed" \in faults' /\ "removed" # "unnoticed"
    BY <1>3 DEF OtherExpunge
  <2> QED
    BY <2>1 DEF Sound, Calm
<1>4. CASE UNCHANGED vars
  BY <1>4, UnchangedSound
<1> QED
  BY <1>1, <1>2, <1>3, <1>4, WindowSound, InsertSound, InsertedSound, ArriveSound,
     ExistsSound DEF Next

LEMMA InitialSound == Init => Sound
<1> SUFFICES ASSUME Init PROVE Sound
  OBVIOUS
<1>1. box = <<>> /\ deleted = {} /\ arrived = 0 /\ asked = {} /\ refs = 0
      /\ resort = FALSE /\ rows = [w \in Windows |-> Cleared]
  BY DEF Init
<1>2. Mail
  BY <1>1 DEF Mail, Unrepeated
<1>3. Good
  BY <1>1, <1>2 DEF Good, Numbered, Cleared
<1>4. Meant
  BY <1>1 DEF Meant, Fresh
<1> QED
  BY <1>3, <1>4 DEF Sound

-----------------------------------------------------------------------------
(* The theorems.                                                           *)

\* While nothing goes wrong at the server the folder's arrays and marks are those
\* of the stream, and when no window has missed an update the marks are the user's.
THEOREM Soundness == Spec => []Sound
<1>1. Init => IInv /\ Sound
  BY Initial, InitialSound
<1>2. (IInv /\ Sound) /\ [Next]_vars => (IInv /\ Sound)'
  BY Step, SoundStep
<1> QED
  BY <1>1, <1>2, PTL DEF Spec

\* RatUpdateFolder() and Std_UpdateProc() keep privatePtr and presentationOrder in
\* step with the stream, and refCount in step with the windows and the copies,
\* whatever expunges, arrivals, sort orders and closings come together.
THEOREM ArraysAligned == Spec => []Aligned
<1>1. IInv /\ Sound => Aligned
  <2> SUFFICES ASSUME Sound, refs > 0, faults \subseteq {"unnoticed"}
               PROVE  /\ IsPrefix(priv, view)
                      /\ Len(order) = Len(priv) /\ ToSet(order) = DOMAIN priv
                      /\ ~copying => refs = Cardinality(Showing)
    BY DEF Aligned
  <2>1. /\ view \in Seq(1 .. arrived) /\ priv \in Seq(1 .. arrived)
        /\ Leads(priv, view) /\ Orders(order, Len(priv)) /\ refs = Members
    BY DEF Sound, Calm, Good, Parts
  <2>2. IsPrefix(priv, view)
    BY <2>1, PrefixLeads
  <2>3. DOMAIN priv = 1 .. Len(priv) /\ Len(priv) \in Nat /\ Len(order) = Len(priv)
    BY <2>1 DEF Orders
  <2>4. ToSet(order) = 1 .. Len(priv)
    BY <2>1, <2>3, OrdersAll
  <2>5. ~copying => refs = Cardinality(Showing)
    BY <2>1, ShowingCount DEF Members
  <2> QED
    BY <2>2, <2>3, <2>4, <2>5
<1> QED
  BY <1>1, Invariance, Soundness, PTL

\* What Std_SetFlagProc() marks and mail_expunge() removes is what the user marked
\* in the rows of his window, as long as every window has been drawn again.
THEOREM MarksMeant == Spec => []FlagsMeant
<1>1. Sound => FlagsMeant
  <2>1. faults = {} => Calm
    BY DEF Calm
  <2> QED
    BY <2>1 DEF Sound, Good, Meant, Parts, FlagsMeant
<1> QED
  BY <1>1, Soundness, PTL

-----------------------------------------------------------------------------
(* Threads: the links.                                                     *)

\* The links of each message, and the first and the last one on top.
Linking == [prev : [Msgs -> Link], next : [Msgs -> Link], child : [Msgs -> Link],
            parent : [Msgs -> Link], first : Msgs, last : Msgs]

\* f, with v for m if that is a message
With(f, m, v) == [k \in Msgs |-> IF k = m THEN v ELSE f[k]]

LEMMA NilNoMessage == Nil \notin Msgs /\ Msgs \subseteq Nat
BY SizeAssumption DEF Nil, Msgs

LEMMA SetNext ==
  ASSUME NEW l \in Linking, NEW m \in Link, NEW v \in Link
  PROVE  Set(l, "next", m, v) = [l EXCEPT !.next = With(@, m, v)]
<1>1. CASE m = Nil
  <2>1. With(l.next, m, v) = l.next
    BY <1>1, NilNoMessage DEF With, Linking
  <2> QED
    BY <1>1, <2>1 DEF Set, Linking
<1>2. CASE m # Nil
  <2>1. [l.next EXCEPT ![m] = v] = With(l.next, m, v)
    BY <1>2 DEF With, Linking, Link
  <2> QED
    BY <1>2, <2>1 DEF Set, Linking
<1> QED
  BY <1>1, <1>2

LEMMA SetPrev ==
  ASSUME NEW l \in Linking, NEW m \in Link, NEW v \in Link
  PROVE  Set(l, "prev", m, v) = [l EXCEPT !.prev = With(@, m, v)]
<1>1. CASE m = Nil
  <2>1. With(l.prev, m, v) = l.prev
    BY <1>1, NilNoMessage DEF With, Linking
  <2> QED
    BY <1>1, <2>1 DEF Set, Linking
<1>2. CASE m # Nil
  <2>1. [l.prev EXCEPT ![m] = v] = With(l.prev, m, v)
    BY <1>2 DEF With, Linking, Link
  <2> QED
    BY <1>2, <2>1 DEF Set, Linking
<1> QED
  BY <1>1, <1>2

LEMMA SetParent ==
  ASSUME NEW l \in Linking, NEW m \in Link, NEW v \in Link
  PROVE  Set(l, "parent", m, v) = [l EXCEPT !.parent = With(@, m, v)]
<1>1. CASE m = Nil
  <2>1. With(l.parent, m, v) = l.parent
    BY <1>1, NilNoMessage DEF With, Linking
  <2> QED
    BY <1>1, <2>1 DEF Set, Linking
<1>2. CASE m # Nil
  <2>1. [l.parent EXCEPT ![m] = v] = With(l.parent, m, v)
    BY <1>2 DEF With, Linking, Link
  <2> QED
    BY <1>2, <2>1 DEF Set, Linking
<1> QED
  BY <1>1, <1>2

\* Any of the four functions of the links.
LEMMA WithType ==
  ASSUME NEW f \in [Msgs -> Link], NEW m, NEW v \in Link
  PROVE  /\ With(f, m, v) \in [Msgs -> Link]
         /\ \A k \in Msgs : With(f, m, v)[k] = IF k = m THEN v ELSE f[k]
BY DEF With

LEMMA UnlinkLinks ==
  ASSUME NEW l \in Linking, NEW m \in Msgs
  PROVE  Unlink(l, m) = [l EXCEPT !.next = With(@, l.prev[m], l.next[m]),
                                  !.prev = With(@, l.next[m], l.prev[m])]
<1>1. l.prev[m] \in Link /\ l.next[m] \in Link
  BY DEF Linking
<1> DEFINE u == [l EXCEPT !.next = With(@, l.prev[m], l.next[m])]
<1>2. Set(l, "next", l.prev[m], l.next[m]) = u
  BY <1>1, SetNext
<1>3. u \in Linking /\ u.prev = l.prev
  BY <1>1, WithType DEF Linking
<1>4. u = [l EXCEPT !.next = With(l.next, l.prev[m], l.next[m])]
  OBVIOUS
<1> HIDE DEF u
<1>5. Set(u, "prev", l.next[m], l.prev[m]) = [u EXCEPT !.prev = With(@, l.next[m], l.prev[m])]
  BY <1>1, <1>3, SetPrev
<1>6. [u EXCEPT !.prev = With(@, l.next[m], l.prev[m])]
        = [l EXCEPT !.next = With(@, l.prev[m], l.next[m]),
                    !.prev = With(@, l.next[m], l.prev[m])]
  BY <1>3, <1>4 DEF Linking
<1> QED
  BY <1>2, <1>5, <1>6 DEF Unlink

\* The links after n has adopted j.
LEMMA AdoptLinks ==
  ASSUME NEW l \in Linking, NEW n \in Msgs, NEW j \in Msgs, NEW v,
         l.parent[j] = Nil, mail.ref[j] = mail.msgid[n],
         l.first = j => l.next[j] # Nil, v = Adopt(l, n, j)
  PROVE  /\ v \in Linking /\ v.last = l.last
         /\ v.first = IF l.first = j THEN l.next[j] ELSE l.first
         /\ \A k \in Msgs :
              /\ v.prev[k] = IF k = j THEN Nil ELSE IF k = l.child[n] THEN j
                              ELSE IF k = l.next[j] THEN l.prev[j] ELSE l.prev[k]
              /\ v.next[k] = IF k = j THEN l.child[n]
                              ELSE IF k = l.prev[j] THEN l.next[j] ELSE l.next[k]
              /\ v.child[k] = IF k = n THEN j ELSE l.child[k]
              /\ v.parent[k] = IF k = j THEN n ELSE l.parent[k]
<1> DEFINE x == l.next[j]
           y == l.prev[j]
           c == l.child[n]
           u == Unlink(l, j)
           p == With(u.prev, c, j)
           q == With(u.next, j, c)
           w == [[u EXCEPT !.prev = p] EXCEPT !.next = q]
           first == IF l.first = j THEN x ELSE l.first
           child == With(l.child, n, j)
           parent == With(l.parent, j, n)
           prev == With(p, j, Nil)
<1>1. x \in Link /\ y \in Link /\ c \in Link /\ j \in Link /\ n \in Link /\ Nil \in Link
  BY DEF Linking, Link
<1>2. /\ u \in Linking /\ u.next = With(l.next, y, x) /\ u.prev = With(l.prev, x, y)
      /\ u.child = l.child /\ u.parent = l.parent /\ u.first = l.first /\ u.last = l.last
  <2>1. With(l.next, y, x) \in [Msgs -> Link] /\ With(l.prev, x, y) \in [Msgs -> Link]
    BY <1>1, WithType DEF Linking
  <2> HIDE DEF x, y
  <2>2. u = [l EXCEPT !.next = With(@, y, x), !.prev = With(@, x, y)]
    BY UnlinkLinks DEF x, y
  <2> QED
    BY <2>1, <2>2 DEF Linking
<1> HIDE DEF u
<1>3. p \in [Msgs -> Link] /\ q \in [Msgs -> Link]
  BY <1>1, <1>2, WithType DEF Linking
<1>4. Set(u, "prev", c, j) = [u EXCEPT !.prev = p]
  BY <1>1, <1>2, SetPrev
<1>5. Set(Set(u, "prev", c, j), "next", j, c) = w
  <2> DEFINE z == [u EXCEPT !.prev = p]
  <2>1. z \in Linking /\ z.next = u.next
    BY <1>2, <1>3 DEF Linking
  <2> HIDE DEF z
  <2>2. Set(z, "next", j, c) = [z EXCEPT !.next = With(@, j, c)]
    BY <1>1, <2>1, SetNext
  <2> QED
    BY <1>4, <2>1, <2>2 DEF z
<1>6. first \in Msgs
  BY <1>1 DEF Linking, Link
<1>7. /\ w.prev = p /\ w.next = q /\ w.child = l.child /\ w.parent = l.parent
      /\ w.first = l.first /\ w.last = l.last /\ w \in Linking
  BY <1>2, <1>3 DEF Linking
<1>8. Adopt(l, n, j) = [w EXCEPT !.first = first, !.child[n] = j, !.prev[j] = Nil, !.parent[j] = n]
  <2>1. u.child[n] = c
    BY <1>2
  <2>2. Adopt(l, n, j) =
          [Set(Set(u, "prev", u.child[n], j), "next", j, u.child[n]) EXCEPT
             !.first = IF l.first = j THEN l.next[j] ELSE @,
             !.child[n] = j, !.prev[j] = Nil, !.parent[j] = n]
    BY DEF Adopt, u
  <2> HIDE DEF w
  <2>3. w.first = l.first
    BY <1>7
  <2> QED
    BY <1>5, <2>1, <2>2, <2>3
<1> HIDE DEF w
<1>9. /\ [l.child EXCEPT ![n] = j] = child /\ [p EXCEPT ![j] = Nil] = prev
      /\ [l.parent EXCEPT ![j] = n] = parent
  BY <1>3 DEF With, Linking
<1>10. /\ child \in [Msgs -> Link] /\ prev \in [Msgs -> Link] /\ parent \in [Msgs -> Link]
  BY <1>1, <1>3, WithType DEF Linking
<1> HIDE DEF p, q, child, prev, parent, first
<1>11. /\ v.prev = prev /\ v.next = q /\ v.child = child /\ v.parent = parent
       /\ v.first = first /\ v.last = l.last /\ v \in Linking
  <2>1. v = [w EXCEPT !.first = first, !.child = [l.child EXCEPT ![n] = j],
                      !.prev = [p EXCEPT ![j] = Nil], !.parent = [l.parent EXCEPT ![j] = n]]
    BY <1>7, <1>8
  <2>2. v = [w EXCEPT !.first = first, !.child = child, !.prev = prev, !.parent = parent]
    BY <1>9, <2>1
  <2> QED
    BY <1>3, <1>6, <1>7, <1>10, <2>2 DEF Linking
<1>12. \A k \in Msgs : v.prev[k] = IF k = j THEN Nil ELSE IF k = c THEN j
                                    ELSE IF k = x THEN y ELSE l.prev[k]
  BY <1>2, <1>11 DEF With, prev, p
<1>13. \A k \in Msgs : v.next[k] = IF k = j THEN c
                                    ELSE IF k = y THEN x ELSE l.next[k]
  BY <1>2, <1>11 DEF With, q
<1>14. \A k \in Msgs :
         /\ v.child[k] = IF k = n THEN j ELSE l.child[k]
         /\ v.parent[k] = IF k = j THEN n ELSE l.parent[k]
  BY <1>11 DEF With, child, parent
<1> QED
  BY <1>11, <1>12, <1>13, <1>14 DEF first

LEMMA AppendLinks ==
  ASSUME NEW l \in Linking, NEW n \in Msgs, NEW v, v = AppendTop(l, n)
  PROVE  /\ v \in Linking /\ v.first = l.first /\ v.last = n
         /\ v.child = l.child /\ v.parent = l.parent
         /\ \A k \in Msgs :
              /\ v.prev[k] = IF k = n THEN l.last ELSE l.prev[k]
              /\ v.next[k] = IF k = l.last THEN n ELSE l.next[k]
<1> DEFINE prev == [l.prev EXCEPT ![n] = l.last]
           next == [l.next EXCEPT ![l.last] = n]
<1>1. v = [prev |-> prev, next |-> next, child |-> l.child, parent |-> l.parent,
           first |-> l.first, last |-> n]
  BY DEF AppendTop
<1>2. prev = With(l.prev, n, l.last) /\ next = With(l.next, l.last, n)
  BY DEF With, Linking
<1>3. l.last \in Link /\ n \in Link
  BY DEF Linking, Link
<1> HIDE DEF prev, next
<1>4. prev \in [Msgs -> Link] /\ next \in [Msgs -> Link]
  BY <1>2, <1>3, WithType DEF Linking
<1>5. v \in Linking
  BY <1>1, <1>4 DEF Linking
<1>6. v.prev = prev /\ v.next = next
  BY <1>1
<1> QED
  BY <1>1, <1>2, <1>5, <1>6 DEF With

\* The links after n, the last one on top, has become the last child of j.
LEMMA ReplyLinks ==
  ASSUME NEW l \in Linking, NEW n \in Msgs, NEW j \in Msgs, NEW v,
         l.last = n, l.first # n, l.next[n] = Nil, l.prev[n] # Nil, v = Reply(l, n, j),
         NEW k \in Link,
         k = IF l.child[j] = Nil THEN Nil ELSE Last(ListFrom(Unlink(l, n), l.child[j]))
  PROVE  /\ v \in Linking /\ v.first = l.first /\ v.last = l.prev[n]
         /\ \A m \in Msgs :
              /\ v.prev[m] = IF m = n THEN k ELSE l.prev[m]
              /\ v.next[m] = IF m = n THEN Nil ELSE IF m = k THEN n
                              ELSE IF m = l.prev[n] THEN Nil ELSE l.next[m]
              /\ v.child[m] = IF k = Nil /\ m = j THEN n ELSE l.child[m]
              /\ v.parent[m] = IF m = n THEN IF k = Nil THEN j ELSE k ELSE l.parent[m]
<1> DEFINE y == l.prev[n]
           u == Unlink(l, n)
           w == IF k = Nil
                THEN [u EXCEPT !.child[j] = n, !.prev[n] = Nil, !.parent[n] = j]
                ELSE [u EXCEPT !.prev[n] = k, !.next[k] = n, !.parent[n] = k]
<1>1. y \in Msgs /\ n \in Link /\ j \in Link /\ Nil \in Link
  BY DEF Linking, Link
<1>2. /\ u \in Linking /\ u.next = With(l.next, y, Nil) /\ u.prev = With(l.prev, Nil, y)
      /\ u.child = l.child /\ u.parent = l.parent /\ u.first = l.first /\ u.last = l.last
  <2>1. With(l.next, y, Nil) \in [Msgs -> Link] /\ With(l.prev, Nil, y) \in [Msgs -> Link]
    BY <1>1, WithType DEF Linking, Link
  <2> HIDE DEF y
  <2>2. u = [l EXCEPT !.next = With(@, y, Nil), !.prev = With(@, Nil, y)]
    BY UnlinkLinks DEF y
  <2> QED
    BY <2>1, <2>2 DEF Linking
<1>3. u.prev = l.prev
  BY <1>2, NilNoMessage DEF With, Linking
<1>4. v = [w EXCEPT !.next[n] = Nil, !.first = l.first, !.last = y]
  <2>1. k = IF u.child[j] = Nil THEN Nil ELSE Last(ListFrom(u, u.child[j]))
    BY <1>2
  <2> HIDE DEF u
  <2> QED
    BY <2>1 DEF Reply, u
<1> HIDE DEF u
<1>5. k # Nil => k \in Msgs
  BY DEF Link
<1>6. CASE k = Nil
  <2> DEFINE p == With(l.prev, n, Nil)
             q == With(u.next, n, Nil)
             c == With(l.child, j, n)
             r == With(l.parent, n, j)
  <2>1. w = [u EXCEPT !.child[j] = n, !.prev[n] = Nil, !.parent[n] = j]
    BY <1>6
  <2>2. /\ [u.child EXCEPT ![j] = n] = c /\ [u.prev EXCEPT ![n] = Nil] = p
        /\ [u.parent EXCEPT ![n] = j] = r /\ [u.next EXCEPT ![n] = Nil] = q
    BY <1>2, <1>3 DEF With, Linking
  <2>3. /\ c \in [Msgs -> Link] /\ p \in [Msgs -> Link]
        /\ r \in [Msgs -> Link] /\ q \in [Msgs -> Link]
    BY <1>1, <1>2, WithType DEF Linking
  <2> HIDE DEF p, q, c, r, w
  <2>4. w = [u EXCEPT !.child = c, !.prev = p, !.parent = r]
    BY <2>1, <2>2
  <2>5. w.next = u.next
    BY <2>4
  <2>6. v = [w EXCEPT !.next = q, !.first = l.first, !.last = y]
    BY <1>4, <2>2, <2>5
  <2>7. v = [u EXCEPT !.prev = p, !.next = q, !.child = c, !.parent = r,
                      !.first = l.first, !.last = y]
    BY <1>2, <2>4, <2>6 DEF Linking
  <2>8. /\ v \in Linking /\ v.prev = p /\ v.next = q /\ v.child = c /\ v.parent = r
        /\ v.first = l.first /\ v.last = y
    <3>1. l.first \in Msgs
      BY DEF Linking
    <3> HIDE DEF y
    <3> QED
      BY <1>1, <1>2, <2>3, <2>7, <3>1 DEF Linking
  <2>9. \A m \in Msgs :
          /\ p[m] = IF m = n THEN Nil ELSE l.prev[m]
          /\ q[m] = IF m = n THEN Nil ELSE IF m = y THEN Nil ELSE l.next[m]
          /\ c[m] = IF m = j THEN n ELSE l.child[m]
          /\ r[m] = IF m = n THEN j ELSE l.parent[m]
    BY <1>2 DEF With, p, q, c, r
  <2> QED
    BY <1>6, <2>8, <2>9, NilNoMessage
<1>7. CASE k # Nil
  <2> DEFINE p == With(l.prev, n, k)
             b == With(u.next, k, n)
             q == With(b, n, Nil)
             r == With(l.parent, n, k)
  <2>1. w = [u EXCEPT !.prev[n] = k, !.next[k] = n, !.parent[n] = k]
    BY <1>7
  <2>2. /\ [u.prev EXCEPT ![n] = k] = p /\ [u.parent EXCEPT ![n] = k] = r
        /\ [u.next EXCEPT ![k] = n] = b /\ [b EXCEPT ![n] = Nil] = q
    BY <1>2, <1>3, <1>5, <1>7 DEF With, Linking
  <2>3. /\ p \in [Msgs -> Link] /\ b \in [Msgs -> Link]
        /\ r \in [Msgs -> Link] /\ q \in [Msgs -> Link]
    BY <1>1, <1>2, WithType DEF Linking
  <2>9. \A m \in Msgs :
          /\ p[m] = IF m = n THEN k ELSE l.prev[m]
          /\ q[m] = IF m = n THEN Nil ELSE IF m = k THEN n ELSE IF m = y THEN Nil ELSE l.next[m]
          /\ r[m] = IF m = n THEN k ELSE l.parent[m]
    BY <1>2 DEF With
  <2> HIDE DEF p, q, b, r, w
  <2>4. w = [u EXCEPT !.prev = p, !.next = b, !.parent = r]
    BY <2>1, <2>2
  <2>5. w.next = b
    BY <1>2, <2>4 DEF Linking
  <2>6. v = [w EXCEPT !.next = q, !.first = l.first, !.last = y]
    BY <1>4, <2>2, <2>5
  <2>7. v = [u EXCEPT !.prev = p, !.next = q, !.parent = r,
                      !.first = l.first, !.last = y]
    BY <1>2, <2>4, <2>6 DEF Linking
  <2>8. /\ v \in Linking /\ v.prev = p /\ v.next = q /\ v.child = l.child /\ v.parent = r
        /\ v.first = l.first /\ v.last = y
    <3>1. l.first \in Msgs /\ l.child \in [Msgs -> Link]
      BY DEF Linking
    <3> HIDE DEF y
    <3> QED
      BY <1>1, <1>2, <2>3, <2>7, <3>1 DEF Linking
  <2> QED
    BY <1>7, <2>8, <2>9
<1> QED
  BY <1>6, <1>7

\* The links after n has been put behind its elder j, or above j's children.
LEMMA SubjectLinks ==
  ASSUME NEW l \in Linking, NEW n \in Msgs, NEW j \in Msgs, n # j, NEW v, v = BySubject(l, n, j),
         NEW z, z = IF j = l.prev[n] THEN l.next[n] ELSE l.next[j]
  PROVE  /\ v \in Linking /\ v.first = l.first
         /\ \/ /\ v.child = l.child /\ v.parent = l.parent
               /\ l.parent[HeadOf(Unlink(l, n), j)] # Nil
               /\ \A m \in Msgs :
                    /\ v.prev[m] = IF m = n THEN j ELSE IF m = z THEN n
                                    ELSE IF m = l.next[n] THEN l.prev[n] ELSE l.prev[m]
                    /\ v.next[m] = IF m = j THEN n ELSE IF m = n THEN z
                                    ELSE IF m = l.prev[n] THEN l.next[n] ELSE l.next[m]
            \/ \A m \in Msgs :
                 /\ v.prev[m] = IF m = n THEN Nil ELSE IF m = l.child[j] THEN n
                                 ELSE IF m = l.next[n] THEN l.prev[n] ELSE l.prev[m]
                 /\ v.next[m] = IF m = n THEN l.child[j]
                                 ELSE IF m = l.prev[n] THEN l.next[n] ELSE l.next[m]
                 /\ v.child[m] = IF m = j THEN n ELSE l.child[m]
                 /\ v.parent[m] = IF m = n THEN j ELSE IF m = l.child[j] THEN Nil
                                   ELSE l.parent[m]
<1> DEFINE x == l.next[n]
           y == l.prev[n]
           c == l.child[j]
           u == Unlink(l, n)
           d == Set(u, "prev", z, n)
           e == Set(Set(u, "prev", c, n), "parent", c, Nil)
           behind == [d EXCEPT !.prev[n] = j, !.next[n] = z, !.next[j] = n]
           above == [e EXCEPT !.parent[n] = j, !.prev[n] = Nil, !.next[n] = c, !.child[j] = n]
<1>1. /\ x \in Link /\ y \in Link /\ z \in Link /\ c \in Link /\ n \in Link /\ j \in Link
      /\ Nil \in Link
  BY DEF Linking, Link
<1>2. /\ u \in Linking /\ u.next = With(l.next, y, x) /\ u.prev = With(l.prev, x, y)
      /\ u.child = l.child /\ u.parent = l.parent /\ u.first = l.first /\ u.last = l.last
  <2>1. With(l.next, y, x) \in [Msgs -> Link] /\ With(l.prev, x, y) \in [Msgs -> Link]
    BY <1>1, WithType DEF Linking
  <2> HIDE DEF x, y
  <2>2. u = [l EXCEPT !.next = With(@, y, x), !.prev = With(@, x, y)]
    BY UnlinkLinks DEF x, y
  <2> QED
    BY <2>1, <2>2 DEF Linking
<1>3. u.next[j] = z /\ u.child[j] = c
  BY <1>2 DEF With
<1>4. (v = behind /\ l.parent[HeadOf(u, j)] # Nil) \/ v = above
  <2>1. \/ /\ v = [Set(u, "prev", u.next[j], n) EXCEPT
                       !.prev[n] = j, !.next[n] = u.next[j], !.next[j] = n]
           /\ u.parent[HeadOf(u, j)] # Nil
        \/ v = [Set(Set(u, "prev", u.child[j], n), "parent", u.child[j], Nil) EXCEPT
                  !.parent[n] = j, !.prev[n] = Nil, !.next[n] = u.child[j], !.child[j] = n]
    BY DEF BySubject, u
  <2> QED
    BY <1>2, <1>3, <2>1
<1> HIDE DEF u
<1>5. CASE v = behind /\ l.parent[HeadOf(u, j)] # Nil
  <2> DEFINE p == With(With(u.prev, z, n), n, j)
             q == With(With(u.next, n, z), j, n)
  <2>1. d = [u EXCEPT !.prev = With(u.prev, z, n)]
    <3>1. z \in Link /\ n \in Link /\ u \in Linking
      BY <1>1, <1>2
    <3> QED
      BY ONLY <3>1, SetPrev, NilNoMessage
  <2>2. /\ [With(u.prev, z, n) EXCEPT ![n] = j] = p
        /\ [[u.next EXCEPT ![n] = z] EXCEPT ![j] = n] = q
    BY <1>2 DEF With, Linking
  <2>3. p \in [Msgs -> Link] /\ q \in [Msgs -> Link]
    BY <1>1, <1>2, WithType DEF Linking
  <2>4. \A m \in Msgs :
          /\ p[m] = IF m = n THEN j ELSE IF m = z THEN n ELSE IF m = x THEN y ELSE l.prev[m]
          /\ q[m] = IF m = j THEN n ELSE IF m = n THEN z ELSE IF m = y THEN x ELSE l.next[m]
    BY <1>2 DEF With
  <2>5. d.next = u.next /\ d.prev = With(u.prev, z, n)
    BY <1>2, <2>1 DEF Linking
  <2>6. v = [d EXCEPT !.prev = p, !.next = q]
    <3> HIDE DEF d, p, q
    <3>1. v = [d EXCEPT !.prev = [d.prev EXCEPT ![n] = j],
                        !.next = [[d.next EXCEPT ![n] = z] EXCEPT ![j] = n]]
      BY <1>5
    <3> QED
      BY <2>2, <2>5, <3>1
  <2> HIDE DEF p, q, d
  <2>7. v = [u EXCEPT !.prev = p, !.next = q]
    BY <1>2, <2>1, <2>6 DEF Linking
  <2>8. /\ v \in Linking /\ v.first = l.first /\ v.child = l.child /\ v.parent = l.parent
        /\ v.prev = p /\ v.next = q
    BY <1>2, <2>3, <2>7 DEF Linking
  <2> QED
    BY <1>5, <2>4, <2>8 DEF u
<1>6. CASE v = above
  <2> DEFINE p == With(With(u.prev, c, n), n, Nil)
             q == With(u.next, n, c)
             h == With(l.child, j, n)
             r == With(With(l.parent, c, Nil), n, j)
  <2>1. e = [u EXCEPT !.prev = With(u.prev, c, n), !.parent = With(l.parent, c, Nil)]
    <3> DEFINE f == [u EXCEPT !.prev = With(u.prev, c, n)]
    <3>1. f \in Linking /\ f.parent = l.parent
      <4>1. With(u.prev, c, n) \in [Msgs -> Link]
        BY <1>1, <1>2, WithType DEF Linking
      <4> QED
        BY <1>2, <4>1 DEF Linking
    <3>2. Set(u, "prev", c, n) = f
      BY <1>1, <1>2, SetPrev
    <3> HIDE DEF f
    <3>3. Set(f, "parent", c, Nil) = [f EXCEPT !.parent = With(@, c, Nil)]
      BY <1>1, <3>1, SetParent
    <3>4. Set(f, "parent", c, Nil) = [f EXCEPT !.parent = With(l.parent, c, Nil)]
      BY <3>1, <3>3
    <3> QED
      BY <3>2, <3>4 DEF f
  <2>2. /\ [With(u.prev, c, n) EXCEPT ![n] = Nil] = p
        /\ [u.next EXCEPT ![n] = c] = q /\ [l.child EXCEPT ![j] = n] = h
        /\ [With(l.parent, c, Nil) EXCEPT ![n] = j] = r
    BY <1>2 DEF With, Linking
  <2>3. /\ p \in [Msgs -> Link] /\ q \in [Msgs -> Link]
        /\ h \in [Msgs -> Link] /\ r \in [Msgs -> Link]
    BY <1>1, <1>2, WithType DEF Linking
  <2>4. \A m \in Msgs :
          /\ p[m] = IF m = n THEN Nil ELSE IF m = c THEN n ELSE IF m = x THEN y ELSE l.prev[m]
          /\ q[m] = IF m = n THEN c ELSE IF m = y THEN x ELSE l.next[m]
          /\ h[m] = IF m = j THEN n ELSE l.child[m]
          /\ r[m] = IF m = n THEN j ELSE IF m = c THEN Nil ELSE l.parent[m]
    BY <1>2 DEF With
  <2>5. /\ e.next = u.next /\ e.prev = With(u.prev, c, n) /\ e.child = l.child
        /\ e.parent = With(l.parent, c, Nil)
    BY <1>2, <2>1 DEF Linking
  <2>6. v = [e EXCEPT !.parent = r, !.prev = p, !.next = q, !.child = h]
    <3> HIDE DEF e, p, q, r, h
    <3>1. v = [e EXCEPT !.parent = [e.parent EXCEPT ![n] = j], !.prev = [e.prev EXCEPT ![n] = Nil],
                        !.next = [e.next EXCEPT ![n] = c], !.child = [e.child EXCEPT ![j] = n]]
      BY <1>6
    <3> QED
      BY <2>2, <2>5, <3>1
  <2> HIDE DEF p, q, r, h, e
  <2>7. v = [u EXCEPT !.parent = r, !.prev = p, !.next = q, !.child = h]
    BY <1>2, <2>1, <2>6 DEF Linking
  <2>8. /\ v \in Linking /\ v.first = l.first /\ v.child = h /\ v.parent = r
        /\ v.prev = p /\ v.next = q
    BY <1>2, <2>3, <2>7 DEF Linking
  <2> QED
    BY <2>4, <2>8
<1> QED
  BY <1>4, <1>5, <1>6

-----------------------------------------------------------------------------
(* Threads: what is above a message.                                       *)

\* Up(), as a function
UpOf(l) == [m \in Msgs |-> Up(l, m)]

\* Who goes up comes to an end.
Acyclic(up) == \A S \in SUBSET Msgs : S # {} => \E m \in S : up[m] \notin S

\* Message n goes to a place below j, and D is closed above j: there is still an end.
LEMMA Moved ==
  ASSUME NEW up, NEW up2, Acyclic(up), NEW n, NEW j, up2[n] = j, j # Nil,
         NEW D, j \in D, n \notin D,
         \A m \in D \cap Msgs : up2[m] \in D \cup {Nil} \/ (up2[m] = n /\ up[m] = j),
         \A m \in Msgs \ {n} : \/ up2[m] = up[m]
                               \/ up[m] = n /\ up2[m] = up[n]
                               \/ up[m] = j /\ up2[m] = n,
         n \in Msgs
  PROVE  Acyclic(up2)
<1> SUFFICES ASSUME NEW S \in SUBSET Msgs, S # {}, \A m \in S : up2[m] \in S
             PROVE  FALSE
  BY DEF Acyclic
<1>1. ASSUME NEW T \in SUBSET Msgs, T # {}, n \notin T, \A m \in T : up2[m] \in T \/ (up[m] = j /\ up[m] \in T)
      PROVE  FALSE
  <2>1. \A m \in T : up[m] \in T \/ (up[m] = n /\ up[n] \in T)
    BY <1>1
  <2>2. CASE \E m \in T : up[m] = n /\ up[n] \in T
    <3>1. \A m \in T \cup {n} : up[m] \in T \cup {n}
      BY <2>1, <2>2
    <3>2. T \cup {n} \in SUBSET Msgs /\ T \cup {n} # {}
      OBVIOUS
    <3> QED
      BY <3>1, <3>2 DEF Acyclic
  <2>3. CASE ~ \E m \in T : up[m] = n /\ up[n] \in T
    BY <1>1, <2>1, <2>3 DEF Acyclic
  <2> QED
    BY <2>2, <2>3
<1>2. CASE n \notin S
  BY <1>1, <1>2
<1>3. CASE n \in S
  <2>1. j \in S \cap D
    BY <1>3
  <2>2. ASSUME NEW m \in S \cap D
        PROVE  up2[m] \in S \cap D \/ (up[m] = j /\ up[m] \in S \cap D)
    <3>1. up2[m] \in S /\ up2[m] # Nil
      BY NilNoMessage
    <3>2. up2[m] \in D \cup {Nil} \/ (up2[m] = n /\ up[m] = j)
      OBVIOUS
    <3> QED
      BY <2>1, <3>1, <3>2
  <2> QED
    BY <1>1, <2>1, <2>2
<1> QED
  BY <1>2, <1>3

\* f is the way from m up.
IsPath(f, l, m) ==
  f = [k \in 0..N |-> IF k = 0 THEN m
                      ELSE IF f[k-1] = Nil THEN Nil ELSE Up(l, f[k-1])]

\* In more places than there are messages one of them comes twice.
LEMMA OneTwice ==
  ASSUME NEW f \in [0 .. N -> Msgs]
  PROVE  \E u \in 0 .. N, w \in 0 .. N : u # w /\ f[u] = f[w]
<1>1. N \in Nat
  BY SizeAssumption
<1>2. IsFiniteSet(0 .. N) /\ Cardinality(0 .. N) = N + 1
  BY <1>1, FS_Interval
<1>3. IsFiniteSet(Msgs) /\ Cardinality(Msgs) = N
  <2>1. 0 \in Int /\ N - 1 \in Int /\ ~ (0 > N - 1) /\ N - 1 - 0 + 1 = N
    BY SizeAssumption
  <2> QED
    BY <2>1, FS_Interval DEF Msgs
<1>4. Cardinality(Msgs) < Cardinality(0 .. N)
  BY <1>1, <1>2, <1>3
<1> QED
  BY <1>2, <1>3, <1>4, FS_PigeonHole

LEMMA UpLink ==
  ASSUME NEW l \in Linking, NEW m \in Msgs
  PROVE  Up(l, m) \in Link
BY DEF Up, Linking

\* What IsChild() passes.
LEMMA PassedPath ==
  ASSUME NEW l \in Linking, NEW m \in Msgs
  PROVE  \E f \in [0 .. N -> Link] :
           /\ IsPath(f, l, m)
           /\ Passed(l, m) = {f[k] : k \in 0 .. N} \ {Nil}
<1> DEFINE at == CHOOSE f : IsPath(f, l, m)
<1>1. N \in Nat /\ m \in Link /\ Nil \in Link
  BY SizeAssumption DEF Link
<1>2. IsPath(at, l, m)
  <2> DEFINE s == [x \in Link |-> IF x = Nil THEN Nil ELSE Up(l, x)]
             h == [k \in 1 .. N |-> s]
  <2>1. s \in [Link -> Link]
    <3>1. \A x \in Link : x # Nil => Up(l, x) \in Link
      BY UpLink DEF Link
    <3> QED
      BY <1>1, <3>1
  <2>2. h \in [1 .. N -> [Link -> Link]]
    BY <2>1
  <2> HIDE DEF h
  <2>4. PICK f \in [0 .. N -> Link] : f[0] = m /\ \A k \in 1 .. N : f[k] = h[k][f[k - 1]]
    <3>1. m \in Link
      BY <1>1
    <3>2. N \in Nat
      BY <1>1
    <3>3. \E f \in [0 .. N -> Link] : f[0] = m /\ \A k \in 1 .. N : f[k] = h[k][f[k - 1]]
      BY ONLY <3>1, <3>2, <2>2, Recursion
    <3> QED
      BY <3>3
  <2>5. \A k \in 0 .. N : f[k] = IF k = 0 THEN m ELSE IF f[k-1] = Nil THEN Nil ELSE Up(l, f[k-1])
    <3> TAKE k \in 0 .. N
    <3>1. CASE k = 0
      BY <2>4, <3>1
    <3>2. CASE k # 0
      <4>1. k \in 1 .. N /\ f[k - 1] \in Link
        BY <1>1, <3>2
      <4>2. f[k] = h[k][f[k - 1]]
        BY <2>4, <3>2
      <4> QED
        BY <3>2, <4>1, <4>2 DEF h
    <3> QED
      BY <3>1, <3>2
  <2>6. IsPath(f, l, m)
    BY <2>5 DEF IsPath
  <2> QED
    BY <2>6
<1>3. Passed(l, m) = {at[k] : k \in 0 .. N} \ {Nil}
  BY DEF Passed, IsPath
<1> HIDE DEF at
<1>4. \A k \in 0 .. N : at[k] = IF k = 0 THEN m ELSE IF at[k-1] = Nil THEN Nil ELSE Up(l, at[k-1])
  BY <1>2 DEF IsPath
<1>5. \A k \in 0 .. N : at[k] \in Link
  <2> DEFINE T == {k \in Nat : k <= N => at[k] \in Link}
  <2>1. 0 \in T
    BY <1>1, <1>4
  <2>2. ASSUME NEW k \in Nat, k \in T PROVE k + 1 \in T
    <3> SUFFICES ASSUME k + 1 <= N PROVE at[k + 1] \in Link
      OBVIOUS
    <3>1. k + 1 \in 0 .. N /\ k + 1 # 0 /\ k + 1 - 1 = k /\ at[k] \in Link
      BY <1>1, <2>2
    <3>2. at[k + 1] = IF at[k] = Nil THEN Nil ELSE Up(l, at[k])
      BY <1>4, <3>1
    <3>3. at[k] # Nil => at[k] \in Msgs
      BY <3>1 DEF Link
    <3> QED
      BY <1>1, <3>2, <3>3, UpLink
  <2> HIDE DEF T
  <2>3. Nat \subseteq T
    BY <2>1, <2>2, NatSetInduction
  <2> QED
    BY <1>1, <2>3 DEF T
<1>6. at \in [0 .. N -> Link]
  BY <1>2, <1>5 DEF IsPath
<1> QED
  BY <1>2, <1>3, <1>6

\* Of the ways up in trees, each ends within N steps.
LEMMA PathEnds ==
  ASSUME NEW l \in Linking, NEW m \in Msgs, Acyclic(UpOf(l)),
         NEW f \in [0 .. N -> Link], IsPath(f, l, m)
  PROVE  f[N] = Nil
<1>1. N \in Nat
  BY SizeAssumption
<1>2. \A k \in 0 .. N : f[k] = IF k = 0 THEN m ELSE IF f[k-1] = Nil THEN Nil ELSE Up(l, f[k-1])
  BY DEF IsPath
<1> SUFFICES ASSUME f[N] # Nil
             PROVE  FALSE
  OBVIOUS
<1>3. \A k \in 0 .. N : f[k] # Nil
  <2> SUFFICES ASSUME NEW k \in 0 .. N, f[k] = Nil
               PROVE  FALSE
    OBVIOUS
  <2> DEFINE T == {x \in k .. N : f[x] # Nil}
  <2>1. T \in SUBSET Nat /\ T # {}
    BY <1>1
  <2>2. PICK x \in T : \A y \in T : x <= y
    BY <2>1, NatSetMin
  <2>3. x # k /\ x - 1 \in k .. N /\ x - 1 \notin T /\ x \in 0 .. N /\ x # 0
    <3>1. k \in Nat /\ x \in Nat /\ k <= x /\ x <= N /\ x # k /\ x - 1 \in Int /\ ~ (x <= x - 1)
      BY <1>1, <2>2
    <3> QED
      BY <1>1, <2>2, <3>1
  <2>4. f[x - 1] = Nil
    BY <2>3
  <2> QED
    BY <1>2, <2>2, <2>3, <2>4
<1>4. \A k \in 0 .. N : f[k] \in Msgs
  BY <1>3 DEF Link
<1>5. \A k \in 0 .. N - 1 : f[k + 1] = UpOf(l)[f[k]]
  <2> TAKE k \in 0 .. N - 1
  <2>1. k + 1 \in 0 .. N /\ k + 1 # 0 /\ k + 1 - 1 = k /\ k \in 0 .. N
    BY <1>1
  <2>2. f[k + 1] = Up(l, f[k])
    BY <1>2, <1>3, <2>1
  <2> QED
    BY <1>4, <2>1, <2>2 DEF UpOf
<1>6. PICK u \in 0 .. N, w \in 0 .. N : u # w /\ f[u] = f[w]
  <2>1. f \in [0 .. N -> Msgs]
    BY <1>4
  <2> QED
    BY ONLY <2>1, OneTwice
<1>7. ASSUME NEW a \in 0 .. N, NEW b \in 0 .. N, a < b, f[a] = f[b]
      PROVE  FALSE
  <2> DEFINE S == {f[k] : k \in a .. b - 1}
  <2>1. S \in SUBSET Msgs
    BY <1>1, <1>4, <1>7
  <2>2. a \in a .. b - 1
    BY <1>1, <1>7
  <2>3. ASSUME NEW k \in a .. b - 1 PROVE UpOf(l)[f[k]] \in S
    <3>1. k \in 0 .. N - 1
      BY <1>1, <1>7
    <3>2. UpOf(l)[f[k]] = f[k + 1]
      BY <1>5, <3>1
    <3>3. k + 1 \in a .. b - 1 \/ k + 1 = b
      BY <1>1, <1>7
    <3> QED
      BY <1>7, <2>2, <3>2, <3>3
  <2>4. S # {} /\ \A x \in S : UpOf(l)[x] \in S
    BY <2>2, <2>3
  <2> HIDE DEF S
  <2> QED
    BY <2>1, <2>4 DEF Acyclic
<1> QED
  BY <1>1, <1>6, <1>7

\* What IsChild() passes: it begins with m and goes up to the end.
LEMMA PassedUp ==
  ASSUME NEW l \in Linking, NEW m \in Msgs, Acyclic(UpOf(l))
  PROVE  /\ Passed(l, m) \in SUBSET Msgs /\ m \in Passed(l, m)
         /\ \A x \in Passed(l, m) : Up(l, x) \in Passed(l, m) \cup {Nil}
         /\ \E x \in Passed(l, m) : Up(l, x) = Nil
         /\ \A P : (m \in P /\ \A x \in P : Up(l, x) \in P \cup {Nil}) => Passed(l, m) \subseteq P
<1>1. PICK f \in [0 .. N -> Link] : IsPath(f, l, m) /\ Passed(l, m) = {f[k] : k \in 0 .. N} \ {Nil}
  BY PassedPath
<1>2. f[N] = Nil
  BY <1>1, PathEnds
<1>3. N \in Nat
  BY SizeAssumption
<1>4. \A k \in 0 .. N : f[k] = IF k = 0 THEN m ELSE IF f[k-1] = Nil THEN Nil ELSE Up(l, f[k-1])
  BY <1>1 DEF IsPath
<1> DEFINE D == Passed(l, m)
<1>5. D \in SUBSET Msgs
  BY <1>1 DEF Link
<1>6. m \in D
  <2>1. f[0] = m /\ 0 \in 0 .. N
    BY <1>3, <1>4
  <2> QED
    BY <1>1, <2>1, NilNoMessage
<1>7. ASSUME NEW x \in D PROVE Up(l, x) \in D \cup {Nil}
  <2>1. PICK k \in 0 .. N : x = f[k]
    BY <1>1
  <2>2. x # Nil /\ k # N
    BY <1>1, <1>2, <2>1
  <2>3. k + 1 \in 0 .. N /\ k + 1 # 0 /\ k + 1 - 1 = k
    BY <1>3, <2>2
  <2>4. f[k + 1] = Up(l, x)
    BY <1>4, <2>1, <2>2, <2>3
  <2> QED
    BY <1>1, <2>3, <2>4
<1>8. PICK x \in D : UpOf(l)[x] \notin D
  BY <1>5, <1>6 DEF Acyclic
<1>9. Up(l, x) \notin D
  BY <1>5, <1>8 DEF UpOf
<1>10. Up(l, x) = Nil
  BY <1>7, <1>9
<1>11. ASSUME NEW P, m \in P, \A b \in P : Up(l, b) \in P \cup {Nil}
       PROVE  D \subseteq P
  <2> DEFINE T == {k \in 0 .. N : f[k] \notin P \cup {Nil}}
  <2> SUFFICES ASSUME T # {}
               PROVE  FALSE
    BY <1>1
  <2>1. T \in SUBSET Nat
    BY <1>3
  <2>2. PICK k \in T : \A y \in T : k <= y
    BY <2>1, NatSetMin
  <2>3. k # 0
    BY <1>3, <1>4, <1>11, <2>2
  <2>4. k \in 0 .. N /\ k - 1 \in 0 .. N /\ k - 1 \notin T
    <3>1. k \in Nat /\ k <= N /\ k - 1 \in Int /\ ~ (k <= k - 1) /\ 0 <= k - 1
      BY <1>3, <2>2, <2>3
    <3> QED
      BY <1>3, <2>2, <3>1
  <2>5. f[k - 1] \in P \cup {Nil}
    BY <2>4
  <2>6. f[k] = IF f[k-1] = Nil THEN Nil ELSE Up(l, f[k-1])
    BY <1>4, <2>3, <2>4
  <2>7. f[k] \in P \cup {Nil}
    BY <1>11, <2>5, <2>6
  <2> QED
    BY <2>2, <2>7
<1> HIDE DEF D
<1> QED
  BY <1>5, <1>6, <1>7, <1>10, <1>11 DEF D

-----------------------------------------------------------------------------
(* Threads: the trees.                                                     *)

\* The links are among the messages of P.
Within(l, P) ==
  \A m \in Msgs :
    /\ {l.prev[m], l.next[m], l.child[m], l.parent[m]} \subseteq P \cup {Nil}
    /\ m \notin P => {l.prev[m], l.next[m], l.child[m], l.parent[m]} = {Nil}

\* The lists are linked both ways; a first child knows its parent.
Doubly(l) ==
  \A m \in Msgs :
    /\ l.next[m] # Nil => l.prev[l.next[m]] = m
    /\ l.prev[m] # Nil => l.next[l.prev[m]] = m
    /\ l.child[m] # Nil => l.prev[l.child[m]] = Nil /\ l.parent[l.child[m]] = m

\* The trees of the messages of P: who goes up ends at the first one on top.
Trees(l, P) ==
  /\ l \in Linking /\ l.first \in P /\ Within(l, P) /\ Doubly(l)
  /\ Acyclic(UpOf(l))
  /\ \A m \in P : Up(l, m) = Nil => m = l.first

LEMMA PassedFirst ==
  ASSUME NEW P \in SUBSET Msgs, NEW l, Trees(l, P), NEW m \in P
  PROVE  l.first \in Passed(l, m)
<1>1. l \in Linking /\ Acyclic(UpOf(l)) /\ m \in Msgs
  BY DEF Trees
<1>2. \A x \in P : Up(l, x) \in P \cup {Nil}
  BY DEF Trees, Within, Up
<1>3. PICK x \in Passed(l, m) : Up(l, x) = Nil
  BY <1>1, PassedUp
<1>4. x \in P
  BY <1>1, <1>2, PassedUp
<1> QED
  BY <1>3, <1>4 DEF Trees

\* Message n is on top, and not the first: it has one before it.
LEMMA TopHasPrevious ==
  ASSUME NEW P \in SUBSET Msgs, NEW l, Trees(l, P), NEW n \in P, NEW j \in P,
         l.parent[n] = Nil, ~ IsChild(l, j, n)
  PROVE  /\ l.prev[n] \in Msgs /\ n # j /\ l.first # n
         /\ l.next[n] # n /\ l.prev[n] # n
<1>1. l.first # n
  BY PassedFirst DEF IsChild
<1>2. n # j
  BY PassedUp DEF IsChild, Trees
<1>3. Up(l, n) # Nil /\ Up(l, n) = l.prev[n]
  BY <1>1 DEF Trees, Up
<1>4. l.prev[n] \in Msgs
  BY <1>3 DEF Trees, Linking, Link
<1>5. l.prev[n] # n
  <2>1. UpOf(l)[n] = l.prev[n]
    BY <1>3 DEF UpOf
  <2>2. {n} \in SUBSET Msgs /\ {n} # {}
    OBVIOUS
  <2>3. \E m \in {n} : UpOf(l)[m] \notin {n}
    BY <2>2 DEF Trees, Acyclic
  <2> QED
    BY <2>1, <2>3
<1>6. l.next[n] # n
  BY <1>5, NilNoMessage DEF Trees, Doubly
<1> QED
  BY <1>1, <1>2, <1>4, <1>5, <1>6

LEMMA BehindDoubly ==
  ASSUME NEW l \in Linking, Doubly(l), NEW n \in Msgs, NEW j \in Msgs, n # j,
         l.parent[n] = Nil, l.prev[n] \in Msgs, l.next[n] # n, l.prev[n] # n,
         NEW z, z = IF j = l.prev[n] THEN l.next[n] ELSE l.next[j],
         NEW v \in Linking, v.child = l.child, v.parent = l.parent,
         \A m \in Msgs :
           /\ v.prev[m] = IF m = n THEN j ELSE IF m = z THEN n
                           ELSE IF m = l.next[n] THEN l.prev[n] ELSE l.prev[m]
           /\ v.next[m] = IF m = j THEN n ELSE IF m = n THEN z
                           ELSE IF m = l.prev[n] THEN l.next[n] ELSE l.next[m]
  PROVE  Doubly(v)
<1> DEFINE x == l.next[n]
           y == l.prev[n]
<1>1. /\ x \in Link /\ z \in Link /\ Nil \notin Msgs /\ l.next[j] \in Link
      /\ \A m \in Msgs : l.next[m] \in Link /\ l.prev[m] \in Link /\ l.child[m] \in Link
  BY NilNoMessage DEF Linking
<1>2. \A m \in Msgs : /\ l.next[m] # Nil => l.prev[l.next[m]] = m
                      /\ l.prev[m] # Nil => l.next[l.prev[m]] = m
                      /\ l.child[m] # Nil => l.prev[l.child[m]] = Nil /\ l.parent[l.child[m]] = m
  BY DEF Doubly
<1>3. l.next[y] = n /\ (x # Nil => l.prev[x] = n)
  BY <1>1, <1>2
<1>4. z # n /\ (z # Nil => l.prev[z] = IF j = y THEN n ELSE j)
  BY <1>1, <1>2, <1>3
<1>5. ASSUME NEW m \in Msgs, v.next[m] # Nil PROVE v.prev[v.next[m]] = m
  <2>1. CASE m = j
    BY <2>1
  <2>2. CASE m = n
    BY <1>1, <1>4, <1>5, <2>2 DEF Link
  <2>3. CASE m # j /\ m # n /\ m = y
    <3>1. v.next[m] = x /\ x \in Msgs /\ x # n /\ x # z
      BY <1>1, <1>3, <1>4, <1>5, <2>3 DEF Link
    <3> QED
      BY <2>3, <3>1
  <2>4. CASE m # j /\ m # n /\ m # y
    <3>1. v.next[m] = l.next[m]
      BY <2>4
    <3>2. l.next[m] \in Msgs /\ l.prev[l.next[m]] = m
      BY <1>1, <1>2, <1>5, <3>1 DEF Link
    <3>3. l.next[m] # n /\ l.next[m] # z /\ l.next[m] # x
      BY <1>3, <1>4, <2>4, <3>2, <1>1
    <3> QED
      BY <3>1, <3>2, <3>3
  <2> QED
    BY <2>1, <2>2, <2>3, <2>4
<1>6. ASSUME NEW m \in Msgs, v.prev[m] # Nil PROVE v.next[v.prev[m]] = m
  <2>1. CASE m = n
    BY <2>1
  <2>2. CASE m = z /\ m # n
    BY <2>2
  <2>3. CASE m # n /\ m # z /\ m = x
    <3>1. v.prev[m] = y /\ y # j
      BY <2>3
    <3> QED
      BY <2>3, <3>1
  <2>4. CASE m # n /\ m # z /\ m # x
    <3>1. v.prev[m] = l.prev[m]
      BY <2>4
    <3>2. l.prev[m] \in Msgs /\ l.next[l.prev[m]] = m
      BY <1>1, <1>2, <1>6, <3>1 DEF Link
    <3>3. l.prev[m] # n /\ l.prev[m] # y /\ l.prev[m] # j
      BY <1>3, <2>4, <3>2
    <3> QED
      BY <3>1, <3>2, <3>3
  <2> QED
    BY <2>1, <2>2, <2>3, <2>4
<1>7. ASSUME NEW m \in Msgs, v.child[m] # Nil
      PROVE  v.prev[v.child[m]] = Nil /\ v.parent[v.child[m]] = m
  <2>1. l.child[m] \in Msgs /\ l.prev[l.child[m]] = Nil /\ l.parent[l.child[m]] = m
    BY <1>1, <1>2, <1>7 DEF Link
  <2>2. l.child[m] # n /\ l.child[m] # z /\ l.child[m] # x
    BY <1>1, <1>3, <1>4, <2>1
  <2> QED
    BY <2>1, <2>2
<1> QED
  BY <1>5, <1>6, <1>7 DEF Doubly

LEMMA AboveDoubly ==
  ASSUME NEW l \in Linking, Doubly(l), NEW n \in Msgs, NEW j \in Msgs, n # j,
         l.parent[n] = Nil, l.prev[n] \in Msgs, l.next[n] # n, l.prev[n] # n,
         NEW v \in Linking,
         \A m \in Msgs :
           /\ v.prev[m] = IF m = n THEN Nil ELSE IF m = l.child[j] THEN n
                           ELSE IF m = l.next[n] THEN l.prev[n] ELSE l.prev[m]
           /\ v.next[m] = IF m = n THEN l.child[j]
                           ELSE IF m = l.prev[n] THEN l.next[n] ELSE l.next[m]
           /\ v.child[m] = IF m = j THEN n ELSE l.child[m]
           /\ v.parent[m] = IF m = n THEN j ELSE IF m = l.child[j] THEN Nil
                             ELSE l.parent[m]
  PROVE  Doubly(v)
<1> DEFINE x == l.next[n]
           y == l.prev[n]
           c == l.child[j]
<1>1. /\ x \in Link /\ c \in Link /\ Nil \notin Msgs
      /\ \A m \in Msgs : l.next[m] \in Link /\ l.prev[m] \in Link /\ l.child[m] \in Link
  BY NilNoMessage DEF Linking
<1>2. \A m \in Msgs : /\ l.next[m] # Nil => l.prev[l.next[m]] = m
                      /\ l.prev[m] # Nil => l.next[l.prev[m]] = m
                      /\ l.child[m] # Nil => l.prev[l.child[m]] = Nil /\ l.parent[l.child[m]] = m
  BY DEF Doubly
<1>3. l.next[y] = n /\ (x # Nil => l.prev[x] = n)
  BY <1>1, <1>2
<1>4. c # Nil => l.prev[c] = Nil /\ l.parent[c] = j /\ c # n /\ c # x
  BY <1>1, <1>2, <1>3
<1>5. ASSUME NEW m \in Msgs, v.next[m] # Nil PROVE v.prev[v.next[m]] = m
  <2>1. CASE m = n
    BY <1>1, <1>4, <1>5, <2>1 DEF Link
  <2>2. CASE m # n /\ m = y
    <3>1. v.next[m] = x /\ x \in Msgs /\ x # n /\ x # c
      BY <1>1, <1>3, <1>4, <1>5, <2>2 DEF Link
    <3> QED
      BY <2>2, <3>1
  <2>3. CASE m # n /\ m # y
    <3>1. v.next[m] = l.next[m]
      BY <2>3
    <3>2. l.next[m] \in Msgs /\ l.prev[l.next[m]] = m
      BY <1>1, <1>2, <1>5, <3>1 DEF Link
    <3>3. l.next[m] # n /\ l.next[m] # c /\ l.next[m] # x
      BY <1>1, <1>3, <1>4, <2>3, <3>2
    <3> QED
      BY <3>1, <3>2, <3>3
  <2> QED
    BY <2>1, <2>2, <2>3
<1>6. ASSUME NEW m \in Msgs, v.prev[m] # Nil PROVE v.next[v.prev[m]] = m
  <2>1. CASE m = n
    BY <1>6, <2>1
  <2>2. CASE m = c /\ m # n
    BY <2>2
  <2>3. CASE m # n /\ m # c /\ m = x
    BY <2>3
  <2>4. CASE m # n /\ m # c /\ m # x
    <3>1. v.prev[m] = l.prev[m]
      BY <2>4
    <3>2. l.prev[m] \in Msgs /\ l.next[l.prev[m]] = m
      BY <1>1, <1>2, <1>6, <3>1 DEF Link
    <3>3. l.prev[m] # n /\ l.prev[m] # y
      BY <1>3, <2>4, <3>2
    <3> QED
      BY <3>1, <3>2, <3>3
  <2> QED
    BY <2>1, <2>2, <2>3, <2>4
<1>7. ASSUME NEW m \in Msgs, v.child[m] # Nil
      PROVE  v.prev[v.child[m]] = Nil /\ v.parent[v.child[m]] = m
  <2>1. CASE m = j
    BY <2>1
  <2>2. CASE m # j
    <3>1. v.child[m] = l.child[m]
      BY <2>2
    <3>2. l.child[m] \in Msgs /\ l.prev[l.child[m]] = Nil /\ l.parent[l.child[m]] = m
      BY <1>1, <1>2, <1>7, <3>1 DEF Link
    <3>3. l.child[m] # n /\ l.child[m] # c /\ l.child[m] # x
      BY <1>1, <1>3, <1>4, <2>2, <3>2
    <3> QED
      BY <3>1, <3>2, <3>3
  <2> QED
    BY <2>1, <2>2
<1> QED
  BY <1>5, <1>6, <1>7 DEF Doubly

\* The second pass keeps the trees: LinkSubject takes n with what is below it.
LEMMA SubjectTrees ==
  ASSUME NEW l, Trees(l, Msgs), NEW n \in Msgs, NEW j \in Msgs,
         l.parent[n] = Nil, ~ IsChild(l, j, n),
         NEW v, v = BySubject(l, n, j)
  PROVE  Trees(v, Msgs)
<1> DEFINE x == l.next[n]
           y == l.prev[n]
           c == l.child[j]
           z == IF j = y THEN x ELSE l.next[j]
           D == Passed(l, j)
<1>1. l \in Linking /\ Doubly(l) /\ Acyclic(UpOf(l)) /\ \A m \in Msgs : Up(l, m) = Nil => m = l.first
  BY DEF Trees
<1>2. y \in Msgs /\ n # j /\ l.first # n /\ x # n /\ y # n
  BY TopHasPrevious
<1> HIDE DEF D
<1>3. /\ D \in SUBSET Msgs /\ j \in D /\ n \notin D
      /\ \A m \in D : Up(l, m) \in D \cup {Nil}
  BY <1>1, PassedUp DEF D, IsChild
<1>4. \A m \in Msgs : /\ l.next[m] # Nil => l.prev[l.next[m]] = m
                      /\ l.prev[m] # Nil => l.next[l.prev[m]] = m
                      /\ l.child[m] # Nil => l.prev[l.child[m]] = Nil /\ l.parent[l.child[m]] = m
  BY <1>1 DEF Doubly
<1>5. Nil \notin Msgs /\ n \in Msgs /\ j \in Msgs
  BY NilNoMessage
<1>6. Up(l, n) = y /\ (x # Nil => l.prev[x] = n) /\ l.next[y] = n
  BY <1>2, <1>4, <1>5 DEF Up
<1>7. ASSUME v \in Linking, v.first = l.first, Doubly(v), Up(v, n) = j,
             \A m \in Msgs \ {n} : \/ Up(v, m) = Up(l, m)
                                   \/ Up(l, m) = n /\ Up(v, m) = y
                                   \/ Up(l, m) = j /\ Up(v, m) = n
      PROVE  Trees(v, Msgs)
  <2> DEFINE up == UpOf(l)
             up2 == UpOf(v)
  <2>1. \A m \in Msgs : up[m] = Up(l, m) /\ up2[m] = Up(v, m)
    BY DEF UpOf
  <2> HIDE DEF up, up2
  <2>2. Acyclic(up) /\ up2[n] = j /\ j # Nil
    BY <1>1, <1>5, <1>7, <2>1 DEF up
  <2>3. \A m \in Msgs \ {n} : \/ up2[m] = up[m]
                              \/ up[m] = n /\ up2[m] = up[n]
                              \/ up[m] = j /\ up2[m] = n
    BY <1>6, <1>7, <2>1
  <2>4. \A m \in D \cap Msgs : up2[m] \in D \cup {Nil} \/ (up2[m] = n /\ up[m] = j)
    <3> TAKE m \in D \cap Msgs
    <3>1. m # n /\ up[m] \in D \cup {Nil} /\ up[m] # n
      BY <1>3, <1>5, <2>1
    <3> QED
      BY <2>3, <3>1
  <2>5. Acyclic(up2)
    <3>1. j \in D /\ n \notin D /\ n \in Msgs
      BY <1>3
    <3> QED
      BY ONLY <2>2, <2>3, <2>4, <3>1, Moved
  <2>6. \A m \in Msgs : Up(v, m) = Nil => m = v.first
    BY <1>1, <1>2, <1>5, <1>7
  <2>7. v.first \in Msgs /\ Within(v, Msgs)
    BY <1>7 DEF Linking, Within, Link
  <2> QED
    BY <1>7, <2>5, <2>6, <2>7 DEF Trees, up2
<1>8. /\ v \in Linking /\ v.first = l.first
      /\ \/ /\ v.child = l.child /\ v.parent = l.parent
            /\ \A m \in Msgs :
                 /\ v.prev[m] = IF m = n THEN j ELSE IF m = z THEN n
                                 ELSE IF m = x THEN y ELSE l.prev[m]
                 /\ v.next[m] = IF m = j THEN n ELSE IF m = n THEN z
                                 ELSE IF m = y THEN x ELSE l.next[m]
         \/ \A m \in Msgs :
              /\ v.prev[m] = IF m = n THEN Nil ELSE IF m = c THEN n
                              ELSE IF m = x THEN y ELSE l.prev[m]
              /\ v.next[m] = IF m = n THEN c
                              ELSE IF m = y THEN x ELSE l.next[m]
              /\ v.child[m] = IF m = j THEN n ELSE l.child[m]
              /\ v.parent[m] = IF m = n THEN j ELSE IF m = c THEN Nil
                                ELSE l.parent[m]
  BY <1>1, <1>2, SubjectLinks
<1>9. CASE /\ v.child = l.child /\ v.parent = l.parent
           /\ \A m \in Msgs :
                /\ v.prev[m] = IF m = n THEN j ELSE IF m = z THEN n
                                ELSE IF m = x THEN y ELSE l.prev[m]
                /\ v.next[m] = IF m = j THEN n ELSE IF m = n THEN z
                                ELSE IF m = y THEN x ELSE l.next[m]
  <2>1. Doubly(v)
    BY <1>1, <1>2, <1>8, <1>9, BehindDoubly
  <2>2. Up(v, n) = j
    BY <1>5, <1>9 DEF Up
  <2>3. ASSUME NEW m \in Msgs \ {n}
        PROVE  \/ Up(v, m) = Up(l, m)
               \/ Up(l, m) = n /\ Up(v, m) = y
               \/ Up(l, m) = j /\ Up(v, m) = n
    <3>1. CASE l.parent[m] # Nil
      BY <1>9, <3>1 DEF Up
    <3>2. CASE l.parent[m] = Nil /\ m = z
      <4>1. Up(v, m) = n
        BY <1>9, <3>2 DEF Up
      <4>2. Up(l, m) = n \/ Up(l, m) = j
        BY <1>4, <1>5, <1>6, <3>2 DEF Up
      <4> QED
        BY <4>1, <4>2
    <3>3. CASE l.parent[m] = Nil /\ m # z /\ m = x
      <4>1. Up(v, m) = y
        BY <1>9, <3>3 DEF Up
      <4>2. Up(l, m) = n
        BY <1>5, <1>6, <3>3 DEF Up
      <4> QED
        BY <4>1, <4>2
    <3>4. CASE l.parent[m] = Nil /\ m # z /\ m # x
      BY <1>9, <3>4 DEF Up
    <3> QED
      BY <3>1, <3>2, <3>3, <3>4
  <2> QED
    BY <1>7, <1>8, <2>1, <2>2, <2>3
<1>10. CASE \A m \in Msgs :
              /\ v.prev[m] = IF m = n THEN Nil ELSE IF m = c THEN n
                              ELSE IF m = x THEN y ELSE l.prev[m]
              /\ v.next[m] = IF m = n THEN c
                              ELSE IF m = y THEN x ELSE l.next[m]
              /\ v.child[m] = IF m = j THEN n ELSE l.child[m]
              /\ v.parent[m] = IF m = n THEN j ELSE IF m = c THEN Nil
                                ELSE l.parent[m]
  <2>1. Doubly(v)
    BY <1>1, <1>2, <1>8, <1>10, AboveDoubly
  <2>2. Up(v, n) = j
    BY <1>5, <1>10 DEF Up
  <2>3. ASSUME NEW m \in Msgs \ {n}
        PROVE  \/ Up(v, m) = Up(l, m)
               \/ Up(l, m) = n /\ Up(v, m) = y
               \/ Up(l, m) = j /\ Up(v, m) = n
    <3>1. CASE m = c
      <4>1. Up(v, m) = n
        BY <1>10, <3>1 DEF Up
      <4>2. Up(l, m) = j
        BY <1>4, <1>5, <3>1 DEF Up
      <4> QED
        BY <4>1, <4>2
    <3>2. CASE m # c /\ l.parent[m] # Nil
      BY <1>10, <3>2 DEF Up
    <3>3. CASE m # c /\ l.parent[m] = Nil /\ m = x
      <4>1. Up(v, m) = y
        BY <1>10, <3>3 DEF Up
      <4>2. Up(l, m) = n
        BY <1>5, <1>6, <3>3 DEF Up
      <4> QED
        BY <4>1, <4>2
    <3>4. CASE m # c /\ l.parent[m] = Nil /\ m # x
      BY <1>10, <3>4 DEF Up
    <3> QED
      BY <3>1, <3>2, <3>3, <3>4
  <2> QED
    BY <1>7, <1>8, <2>1, <2>2, <2>3
<1> QED
  BY <1>8, <1>9, <1>10

-----------------------------------------------------------------------------
(* Threads: lists.                                                         *)

\* f[k] is the list from a message on, of at most k messages.
Lists(f, l) ==
  f = [k \in 0..N |->
        [n \in Link |-> IF n = Nil \/ k = 0 THEN <<>> ELSE <<n>> \o f[k-1][l.next[n]]]]

\* The same, by cases.
Lengthens(f, l) ==
  /\ \A n \in Link : f[0][n] = <<>>
  /\ \A k \in 1 .. N : \A n \in Msgs : f[k][n] = <<n>> \o f[k - 1][l.next[n]]
  /\ \A k \in 1 .. N : f[k][Nil] = <<>>

LEMMA ListFromLists ==
  ASSUME NEW l \in Linking, NEW m
  PROVE  \E f \in [0 .. N -> [Link -> Seq(Msgs)]] :
           ListFrom(l, m) = f[N][m] /\ Lengthens(f, l)
<1> DEFINE from == CHOOSE f : Lists(f, l)
           S == [Link -> Seq(Msgs)]
           Longer(k, g) == [n \in Link |-> IF n = Nil \/ k = 0 THEN <<>> ELSE <<n>> \o g[l.next[n]]]
<1>1. N \in Nat /\ Nil \in Link
  BY SizeAssumption DEF Link
<1>2. ASSUME NEW k, NEW g \in S PROVE Longer(k, g) \in S
  <2>1. ASSUME NEW n \in Link, n # Nil PROVE <<n>> \o g[l.next[n]] \in Seq(Msgs)
    <3>1. n \in Msgs /\ l.next[n] \in Link
      BY <2>1 DEF Linking, Link
    <3>2. g[l.next[n]] \in Seq(Msgs)
      BY <3>1
    <3> QED
      BY <3>1, <3>2, Headed
  <2>2. <<>> \in Seq(Msgs)
    OBVIOUS
  <2> QED
    BY <2>1, <2>2
<1>3. \E f \in [0 .. N -> S] : Lists(f, l)
  <2> DEFINE a == [n \in Link |-> <<>>]
             h == [k \in 1 .. N |-> [g \in S |-> Longer(k, g)]]
  <2>1. a \in S
    OBVIOUS
  <2>2. h \in [1 .. N -> [S -> S]]
    BY <1>2
  <2>3. \A k \in 1 .. N : \A g \in S : h[k][g] = Longer(k, g)
    OBVIOUS
  <2>4. a = [n \in Link |-> <<>>]
    OBVIOUS
  <2> HIDE DEF h, a
  <2>5. PICK f \in [0 .. N -> S] : f[0] = a /\ \A k \in 1 .. N : f[k] = h[k][f[k - 1]]
    <3> HIDE DEF S
    <3>1. N \in Nat
      BY <1>1
    <3> QED
      BY ONLY <2>1, <2>2, <3>1, Recursion
  <2>6. \A k \in 0 .. N : f[k] = [n \in Link |-> IF n = Nil \/ k = 0 THEN <<>> ELSE <<n>> \o f[k-1][l.next[n]]]
    <3> TAKE k \in 0 .. N
    <3>1. CASE k = 0
      BY <2>4, <2>5, <3>1
    <3>2. CASE k # 0
      <4>1. k \in 1 .. N /\ k - 1 \in 0 .. N
        BY <1>1, <3>2
      <4>2. f[k - 1] \in S
        BY <4>1
      <4>3. f[k] = Longer(k, f[k - 1])
        BY <2>3, <2>5, <4>1, <4>2
      <4> QED
        BY <4>3
    <3> QED
      BY <3>1, <3>2
  <2>7. Lists(f, l)
    BY <2>6 DEF Lists
  <2> QED
    BY <2>7
<1>4. Lists(from, l)
  BY <1>3
<1>5. ListFrom(l, m) = from[N][m]
  BY DEF ListFrom, Lists
<1> HIDE DEF from
<1>6. \A k \in 0 .. N : from[k] = [n \in Link |-> IF n = Nil \/ k = 0 THEN <<>> ELSE <<n>> \o from[k-1][l.next[n]]]
  BY <1>4 DEF Lists
<1>7. \A k \in 0 .. N : from[k] \in S
  <2> DEFINE T == {k \in Nat : k <= N => from[k] \in S}
  <2>1. 0 \in T
    <3>1. from[0] = [n \in Link |-> <<>>]
      BY <1>1, <1>6
    <3>2. from[0] \in S
      BY <3>1
    <3> QED
      BY <3>2
  <2>2. ASSUME NEW k \in Nat, k \in T PROVE k + 1 \in T
    <3> SUFFICES ASSUME k + 1 <= N PROVE from[k + 1] \in S
      OBVIOUS
    <3>1. k + 1 \in 0 .. N /\ k + 1 - 1 = k /\ from[k] \in S
      BY <1>1, <2>2
    <3>2. from[k + 1] = Longer(k + 1, from[k])
      BY <1>6, <3>1
    <3> HIDE DEF S, Longer
    <3> QED
      BY <1>2, <3>1, <3>2
  <2> HIDE DEF T
  <2>3. Nat \subseteq T
    BY <2>1, <2>2, NatSetInduction
  <2> QED
    BY <1>1, <2>3 DEF T
<1>8. from \in [0 .. N -> S]
  BY <1>4, <1>7 DEF Lists
<1>9. \A n \in Link : from[0][n] = <<>>
  <2>1. 0 \in 0 .. N
    BY <1>1
  <2>2. from[0] = Longer(0, from[0 - 1])
    BY <1>6, <2>1
  <2> QED
    BY <2>2
<1>10. \A k \in 1 .. N : \A n \in Msgs : from[k][n] = <<n>> \o from[k - 1][l.next[n]]
  <2> TAKE k \in 1 .. N
  <2> TAKE n \in Msgs
  <2>1. k \in 0 .. N /\ k # 0 /\ n \in Link /\ n # Nil
    BY <1>1, NilNoMessage DEF Link
  <2> QED
    BY <1>6, <2>1
<1>11. \A k \in 1 .. N : from[k][Nil] = <<>>
  <2> TAKE k \in 1 .. N
  <2>1. k \in 0 .. N
    BY <1>1
  <2>2. from[k] = Longer(k, from[k - 1])
    BY <1>6, <2>1
  <2> QED
    BY <1>1, <2>2
<1> QED
  BY <1>5, <1>8, <1>9, <1>10, <1>11 DEF Lengthens

\* g goes from a message to the next, i times.
Along(g, l, i) == \A x \in 1 .. i : g[x] = l.next[g[x - 1]]

\* A list that has a beginning does not come back to a message.
LEMMA NoCircle ==
  ASSUME NEW l \in Linking, NEW c \in Msgs, l.prev[c] = Nil,
         \A m \in Msgs : l.next[m] # Nil => l.prev[l.next[m]] = m,
         NEW g \in [0 .. N -> Msgs], g[0] = c, Along(g, l, N)
  PROVE  FALSE
<1>1. N \in Nat
  BY SizeAssumption
<1>2. \A x \in 1 .. N : l.prev[g[x]] = g[x - 1] /\ g[x - 1] \in Msgs
  <2> TAKE x \in 1 .. N
  <2>1. x \in 0 .. N /\ x - 1 \in 0 .. N
    BY <1>1
  <2>2. g[x] = l.next[g[x - 1]] /\ g[x] # Nil /\ g[x - 1] \in Msgs
    BY <2>1, NilNoMessage DEF Along
  <2> QED
    BY <2>2
<1>3. PICK u \in 0 .. N, w \in 0 .. N : u # w /\ g[u] = g[w]
  <2>1. g \in [0 .. N -> Msgs]
    OBVIOUS
  <2> QED
    BY ONLY <2>1, OneTwice
<1> DEFINE T == {a \in 0 .. N : \E b \in 0 .. N : a < b /\ g[a] = g[b]}
<1>4. T \in SUBSET Nat /\ T # {}
  BY <1>1, <1>3
<1>5. PICK a \in T : \A b \in T : a <= b
  BY <1>4, NatSetMin
<1>6. PICK b \in 0 .. N : a < b /\ g[a] = g[b]
  BY <1>5
<1>7. a \in 0 .. N /\ b \in 1 .. N
  BY <1>1, <1>5, <1>6
<1>8. CASE a = 0
  <2>1. l.prev[g[b]] = g[b - 1] /\ g[b - 1] \in Msgs
    BY <1>2, <1>7
  <2> QED
    BY <1>6, <1>8, <2>1, NilNoMessage
<1>9. CASE a # 0
  <2>1. a \in 1 .. N /\ a - 1 \in 0 .. N /\ b - 1 \in 0 .. N /\ a - 1 < b - 1 /\ ~ (a <= a - 1)
    BY <1>1, <1>6, <1>7, <1>9
  <2>2. g[a - 1] = g[b - 1]
    BY <1>2, <1>6, <1>7, <2>1
  <2>3. a - 1 \in T
    BY <2>1, <2>2
  <2> QED
    BY <1>5, <2>1, <2>3
<1> QED
  BY <1>8, <1>9

\* The last one of a list has no next one, and what is the same for all, o, is so for it.
LEMMA LastOfList ==
  ASSUME NEW l \in Linking, NEW c \in Msgs, l.prev[c] = Nil,
         \A m \in Msgs : l.next[m] # Nil => l.prev[l.next[m]] = m,
         NEW o, \A m \in Msgs : l.next[m] # Nil => o[l.next[m]] = o[m]
  PROVE  LET k == Last(ListFrom(l, c)) IN k \in Msgs /\ l.next[k] = Nil /\ o[k] = o[c]
<1> DEFINE Way(k, m, q) == \E g \in [0 .. k - 1 -> Msgs] :
                             g[0] = m /\ g[k - 1] = q /\ Along(g, l, k - 1)
           Ends(s, k, m) == /\ s \in Seq(Msgs) /\ Len(s) >= 1
                            /\ s[Len(s)] \in Msgs /\ o[s[Len(s)]] = o[m]
                            /\ l.next[s[Len(s)]] = Nil \/ Way(k, m, s[Len(s)])
<1>1. N \in Nat /\ N # 0
  BY SizeAssumption
<1>2. PICK f \in [0 .. N -> [Link -> Seq(Msgs)]] : ListFrom(l, c) = f[N][c] /\ Lengthens(f, l)
  <2> HIDE DEF Ends, Way
  <2> QED
    BY ListFromLists
<1>3. \A m \in Msgs : l.next[m] \in Link /\ (l.next[m] # Nil => l.next[m] \in Msgs)
  BY DEF Linking, Link
<1>4. ASSUME NEW m \in Msgs, NEW s, s = <<m>> \o <<>>, NEW k,
             l.next[m] = Nil \/ k = 1
      PROVE  Ends(s, k, m)
  <2>1. <<>> \in Seq(Msgs) /\ Len(<<>>) = 0
    OBVIOUS
  <2>2. s \in Seq(Msgs) /\ Len(s) = 1 /\ s[1] = m
    BY <1>4, <2>1, Headed
  <2>3. ASSUME k = 1 PROVE Way(k, m, m)
    <3> DEFINE g == [x \in 0 .. 0 |-> m]
    <3>1. g \in [0 .. 0 -> Msgs] /\ g[0] = m
      OBVIOUS
    <3>2. Along(g, l, 0)
      BY DEF Along
    <3> HIDE DEF g
    <3> QED
      BY <2>3, <3>1, <3>2
  <2> HIDE DEF Way
  <2> QED
    BY <1>4, <2>2, <2>3
<1>5. ASSUME NEW k \in Nat, k # 0, NEW m \in Msgs, l.next[m] # Nil,
             NEW t, Ends(t, k, l.next[m]), NEW s, s = <<m>> \o t
      PROVE  Ends(s, k + 1, m)
  <2> DEFINE q == t[Len(t)]
  <2>1. t \in Seq(Msgs) /\ Len(t) \in Nat /\ Len(t) >= 1 /\ Len(t) \in 1 .. Len(t)
    BY <1>5
  <2>2. s \in Seq(Msgs) /\ Len(s) = Len(t) + 1 /\ s[Len(s)] = q
    BY <1>5, <2>1, Headed
  <2>3. ASSUME Way(k, l.next[m], q) PROVE Way(k + 1, m, q)
    <3> HIDE DEF q
    <3>1. PICK g \in [0 .. k - 1 -> Msgs] : g[0] = l.next[m] /\ g[k - 1] = q /\ Along(g, l, k - 1)
      BY <2>3
    <3> DEFINE h == [x \in 0 .. k |-> IF x = 0 THEN m ELSE g[x - 1]]
    <3>2. h[0] = m /\ \A x \in 1 .. k : h[x] = g[x - 1]
      BY <1>5
    <3>3. h \in [0 .. k -> Msgs]
      BY <1>5
    <3> HIDE DEF h
    <3>4. h[k] = q
      BY <1>5, <3>1, <3>2
    <3>5. Along(h, l, k)
      <4> SUFFICES ASSUME NEW x \in 1 .. k PROVE h[x] = l.next[h[x - 1]]
        BY DEF Along
      <4>1. CASE x = 1
        BY <3>1, <3>2, <4>1
      <4>2. CASE x # 1
        <5>1. x - 1 \in 1 .. k - 1 /\ x - 1 \in 1 .. k
          BY <1>5, <4>2
        <5>2. h[x] = g[x - 1] /\ h[x - 1] = g[x - 1 - 1]
          BY <3>2, <5>1
        <5>3. g[x - 1] = l.next[g[x - 1 - 1]]
          BY <3>1, <5>1 DEF Along
        <5> QED
          BY <5>2, <5>3
      <4> QED
        BY <4>1, <4>2
    <3>6. k + 1 - 1 = k
      BY <1>5
    <3> QED
      BY <3>2, <3>3, <3>4, <3>5, <3>6
  <2>4. q \in Msgs /\ o[q] = o[m] /\ (l.next[q] = Nil \/ Way(k, l.next[m], q))
    BY <1>5
  <2> HIDE DEF q, Way
  <2> QED
    BY <2>1, <2>2, <2>3, <2>4
<1> DEFINE Inds == {k \in Nat : k <= N /\ k # 0 => \A m \in Msgs : Ends(f[k][m], k, m)}
<1>6. 0 \in Inds
  OBVIOUS
<1>7. ASSUME NEW k \in Nat, k \in Inds PROVE k + 1 \in Inds
  <2> SUFFICES ASSUME k + 1 <= N, NEW m \in Msgs PROVE Ends(f[k + 1][m], k + 1, m)
    OBVIOUS
  <2>1. k + 1 \in 1 .. N /\ k + 1 - 1 = k
    BY <1>1
  <2>2. f[k + 1][m] = <<m>> \o f[k][l.next[m]]
    <3>1. \A x \in 1 .. N : f[x][m] = <<m>> \o f[x - 1][l.next[m]]
      BY <1>2 DEF Lengthens
    <3>2. PICK x \in 1 .. N : x = k + 1
      BY <2>1
    <3>3. x - 1 = k
      BY <3>2
    <3> HIDE DEF Inds, Ends
    <3>4. f[x][m] = <<m>> \o f[k][l.next[m]]
      BY ONLY <3>1, <3>3
    <3> QED
      BY ONLY <3>2, <3>4
  <2>3. CASE l.next[m] = Nil \/ k = 0
    <3>1. f[k][l.next[m]] = <<>>
      <4>1. CASE k = 0
        BY <1>2, <1>3, <4>1 DEF Lengthens
      <4>2. CASE k # 0
        <5>1. k \in 1 .. N
          BY <1>1, <2>1, <4>2
        <5> QED
          BY <1>2, <2>3, <4>2, <5>1 DEF Lengthens
      <4> QED
        BY <4>1, <4>2
    <3>2. l.next[m] = Nil \/ k + 1 = 1
      BY <2>3
    <3> HIDE DEF Ends
    <3> QED
      BY <1>4, <2>2, <3>1, <3>2
  <2>4. CASE l.next[m] # Nil /\ k # 0
    <3>1. l.next[m] \in Msgs /\ k <= N
      BY <1>1, <1>3, <2>1, <2>4
    <3>2. Ends(f[k][l.next[m]], k, l.next[m])
      BY <1>7, <2>4, <3>1
    <3> HIDE DEF Ends
    <3> QED
      BY <1>5, <2>2, <2>4, <3>2
  <2> QED
    BY <2>3, <2>4
<1>8. Ends(f[N][c], N, c)
  <2> HIDE DEF Inds
  <2>1. N \in Inds
    BY <1>1, <1>6, <1>7, NatSetInduction
  <2> HIDE DEF Ends
  <2> QED
    BY <1>1, <2>1 DEF Inds
<1> DEFINE s == ListFrom(l, c)
           q == s[Len(s)]
<1>9. q \in Msgs /\ o[q] = o[c] /\ (l.next[q] = Nil \/ Way(N, c, q))
  BY <1>2, <1>8
<1>10. Last(s) = q
  BY DEF Last
<1> HIDE DEF s, q
<1>11. l.next[q] = Nil
  <2> SUFFICES ASSUME l.next[q] # Nil PROVE FALSE
    OBVIOUS
  <2>1. PICK g \in [0 .. N - 1 -> Msgs] : g[0] = c /\ g[N - 1] = q /\ Along(g, l, N - 1)
    BY <1>9
  <2> DEFINE h == [x \in 0 .. N |-> IF x = N THEN l.next[q] ELSE g[x]]
  <2>2. h[N] = l.next[q] /\ \A x \in 0 .. N - 1 : h[x] = g[x]
    BY <1>1
  <2>3. h \in [0 .. N -> Msgs]
    BY <1>1, <1>3, <1>9
  <2> HIDE DEF h
  <2>4. h[0] = c
    BY <1>1, <2>1, <2>2
  <2>5. Along(h, l, N)
    <3> SUFFICES ASSUME NEW x \in 1 .. N PROVE h[x] = l.next[h[x - 1]]
      BY DEF Along
    <3>1. x - 1 \in 0 .. N - 1 /\ h[x - 1] = g[x - 1]
      BY <1>1, <2>2
    <3>2. CASE x = N
      BY <2>1, <2>2, <3>1, <3>2
    <3>3. CASE x # N
      <4>1. x \in 1 .. N - 1 /\ x \in 0 .. N - 1
        BY <1>1, <3>3
      <4> QED
        BY <2>1, <2>2, <3>1, <4>1 DEF Along
    <3> QED
      BY <3>2, <3>3
  <2> QED
    BY <2>3, <2>4, <2>5, NoCircle
<1> QED
  BY <1>9, <1>10, <1>11 DEF s

-----------------------------------------------------------------------------
(* Threads: the first pass.                                                *)

\* o tells whose child each is: the lists have one owner, and the parent that a
\* message knows is the owner, or one of the same list.
Owned(l, o) ==
  \A m \in Msgs :
    /\ o[m] = Nil <=> l.parent[m] = Nil
    /\ l.child[m] # Nil => o[l.child[m]] = m
    /\ l.next[m] # Nil => o[l.next[m]] = o[m]
    /\ l.parent[m] # Nil => l.parent[m] = o[m] \/ o[l.parent[m]] = o[m]

\* What RatFolderSortLinearize() comes from to each: the one before it in its list, or
\* the owner of the list.
Over(l, o) == [m \in Msgs |-> IF l.prev[m] # Nil THEN l.prev[m] ELSE o[m]]

\* The lists hang on their owners, and no message is below itself.
Hung(l, o, P) ==
  /\ \A m \in Msgs : o[m] \in P \cup {Nil}
  /\ \A m \in Msgs : l.prev[m] = Nil /\ o[m] # Nil => l.child[o[m]] = m
  /\ Acyclic(Over(l, o))

\* The list on top ends with the last one, and is in the order of the dates.
Tops(l, P) ==
  /\ l.last \in P /\ l.parent[l.last] = Nil /\ l.next[l.last] = Nil
  /\ \A m \in P : l.parent[m] = Nil /\ l.next[m] = Nil => m = l.last
  /\ \A m \in P : l.parent[m] = Nil /\ l.next[m] # Nil => m < l.next[m]

\* The trees as the references make them.
ByReference(l, P) == Trees(l, P) /\ Tops(l, P) /\ \E o \in [Msgs -> Link] : Owned(l, o) /\ Hung(l, o, P)

\* What Trees says of the links, in one place.
LEMMA TreesLinks ==
  ASSUME NEW l, NEW P, Trees(l, P)
  PROVE  /\ l \in Linking /\ Acyclic(UpOf(l)) /\ l.first \in P
         /\ \A m \in Msgs :
              /\ l.prev[m] \in P \cup {Nil} /\ l.next[m] \in P \cup {Nil}
              /\ l.child[m] \in P \cup {Nil} /\ l.parent[m] \in P \cup {Nil}
              /\ m \notin P => /\ l.prev[m] = Nil /\ l.next[m] = Nil
                               /\ l.child[m] = Nil /\ l.parent[m] = Nil
              /\ l.next[m] # Nil => l.prev[l.next[m]] = m
              /\ l.prev[m] # Nil => l.next[l.prev[m]] = m
              /\ l.child[m] # Nil => l.prev[l.child[m]] = Nil /\ l.parent[l.child[m]] = m
         /\ \A m \in P : Up(l, m) = Nil => m = l.first
BY DEF Trees, Within, Doubly

\* AppendTop(): a new message comes last.
LEMMA AppendTrees ==
  ASSUME NEW P \in SUBSET Msgs, NEW n \in Msgs \ P, \A m \in P : m < n, NEW l, ByReference(l, P),
         NEW v, v = AppendTop(l, n)
  PROVE  ByReference(v, P \cup {n}) /\ v.last = n
<1> DEFINE k == l.last
           Q == P \cup {n}
<1>1. /\ l \in Linking /\ Acyclic(UpOf(l)) /\ l.first \in P
      /\ \A m \in Msgs :
           /\ l.prev[m] \in P \cup {Nil} /\ l.next[m] \in P \cup {Nil}
           /\ l.child[m] \in P \cup {Nil} /\ l.parent[m] \in P \cup {Nil}
           /\ m \notin P => /\ l.prev[m] = Nil /\ l.next[m] = Nil
                            /\ l.child[m] = Nil /\ l.parent[m] = Nil
           /\ l.next[m] # Nil => l.prev[l.next[m]] = m
           /\ l.prev[m] # Nil => l.next[l.prev[m]] = m
           /\ l.child[m] # Nil => l.prev[l.child[m]] = Nil /\ l.parent[l.child[m]] = m
      /\ \A m \in P : Up(l, m) = Nil => m = l.first
  BY TreesLinks DEF ByReference
<1>2. k \in P /\ k \in Msgs /\ l.parent[k] = Nil /\ l.next[k] = Nil /\ Nil \notin Msgs
      /\ \A m \in P : l.parent[m] = Nil /\ l.next[m] = Nil => m = k
  BY NilNoMessage DEF ByReference, Tops
<1>3. PICK o \in [Msgs -> Link] : Owned(l, o) /\ Hung(l, o, P)
  BY DEF ByReference
<1>4. /\ v \in Linking /\ v.first = l.first /\ v.last = n
      /\ v.child = l.child /\ v.parent = l.parent
      /\ \A m \in Msgs :
           /\ v.prev[m] = IF m = n THEN k ELSE l.prev[m]
           /\ v.next[m] = IF m = k THEN n ELSE l.next[m]
  <2>1. l \in Linking /\ n \in Msgs /\ v = AppendTop(l, n)
    BY <1>1
  <2> QED
    BY ONLY <2>1, AppendLinks
<1>5. l.prev[n] = Nil /\ l.next[n] = Nil /\ l.child[n] = Nil /\ l.parent[n] = Nil /\ n # k
  BY <1>1, <1>2
<1>6. Within(v, Q)
  BY <1>1, <1>2, <1>4 DEF Within
<1>7. Doubly(v)
  <2>1. ASSUME NEW m \in Msgs, v.next[m] # Nil PROVE v.prev[v.next[m]] = m
    <3>1. CASE m = k
      BY <1>4, <3>1
    <3>2. CASE m # k
      <4>1. v.next[m] = l.next[m] /\ l.next[m] \in P /\ l.prev[l.next[m]] = m
        BY <1>1, <1>4, <2>1, <3>2
      <4> QED
        BY <1>4, <4>1
    <3> QED
      BY <3>1, <3>2
  <2>2. ASSUME NEW m \in Msgs, v.prev[m] # Nil PROVE v.next[v.prev[m]] = m
    <3>1. CASE m = n
      BY <1>2, <1>4, <3>1
    <3>2. CASE m # n
      <4>1. v.prev[m] = l.prev[m] /\ l.prev[m] \in P /\ l.next[l.prev[m]] = m
        BY <1>1, <1>4, <2>2, <3>2
      <4>2. l.prev[m] # k
        BY <1>2, <4>1
      <4> QED
        BY <1>4, <4>1, <4>2
    <3> QED
      BY <3>1, <3>2
  <2>3. ASSUME NEW m \in Msgs, v.child[m] # Nil
        PROVE  v.prev[v.child[m]] = Nil /\ v.parent[v.child[m]] = m
    BY <1>1, <1>4, <2>3
  <2> QED
    BY <2>1, <2>2, <2>3 DEF Doubly
<1>8. Up(v, n) = k /\ \A m \in Msgs \ {n} : Up(v, m) = Up(l, m)
  BY <1>4, <1>5 DEF Up
<1>9. Acyclic(UpOf(v))
  <2> DEFINE up == UpOf(l)
             up2 == UpOf(v)
  <2>1. \A m \in Msgs : up[m] = Up(l, m) /\ up2[m] = Up(v, m)
    BY DEF UpOf
  <2>2. Acyclic(up)
    BY <1>1
  <2> HIDE DEF up, up2
  <2>3. up2[n] = k /\ k # Nil /\ k \in P /\ n \notin P /\ n \in Msgs
    BY <1>2, <1>8, <2>1
  <2>4. \A m \in Msgs \ {n} : \/ up2[m] = up[m]
                              \/ up[m] = n /\ up2[m] = up[n]
                              \/ up[m] = k /\ up2[m] = n
    BY <1>8, <2>1
  <2>5. \A m \in P \cap Msgs : up2[m] \in P \cup {Nil} \/ (up2[m] = n /\ up[m] = k)
    <3> TAKE m \in P \cap Msgs
    <3>1. Up(l, m) \in P \cup {Nil} /\ m # n
      BY <1>1 DEF Up
    <3> QED
      BY <1>8, <2>1, <3>1
  <2>6. Acyclic(up2)
    <3> HIDE DEF k
    <3> QED
      BY ONLY <2>2, <2>3, <2>4, <2>5, Moved
  <2> QED
    BY <2>6 DEF up2
<1>10. \A m \in Q : Up(v, m) = Nil => m = v.first
  BY <1>1, <1>2, <1>4, <1>8
<1>11. Trees(v, Q)
  BY <1>1, <1>4, <1>6, <1>7, <1>9, <1>10 DEF Trees
<1>12. Tops(v, Q)
  <2>1. v.last \in Q /\ v.parent[v.last] = Nil /\ v.next[v.last] = Nil
    BY <1>4, <1>5
  <2>2. ASSUME NEW m \in Q, v.parent[m] = Nil, v.next[m] = Nil PROVE m = v.last
    BY <1>2, <1>4, <2>2
  <2>3. ASSUME NEW m \in Q, v.parent[m] = Nil, v.next[m] # Nil PROVE m < v.next[m]
    <3>1. m # n
      BY <1>4, <1>5, <2>3
    <3>2. CASE m = k
      BY <1>2, <1>4, <3>2
    <3>3. CASE m # k
      BY <1>3, <1>4, <2>3, <3>1, <3>3 DEF ByReference, Tops
    <3> QED
      BY <3>2, <3>3
  <2> QED
    BY <2>1, <2>2, <2>3 DEF Tops
<1>13. Owned(v, o)
  <2>1. o[n] = Nil /\ o[k] = Nil
    BY <1>2, <1>3, <1>5 DEF Owned
  <2> QED
    BY <1>3, <1>4, <2>1 DEF Owned
<1>14. /\ Acyclic(Over(l, o))
       /\ \A m \in Msgs : o[m] \in P \cup {Nil}
       /\ \A m \in Msgs : l.prev[m] = Nil /\ o[m] # Nil => l.child[o[m]] = m
       /\ \A m \in Msgs : Over(l, o)[m] = IF l.prev[m] # Nil THEN l.prev[m] ELSE o[m]
  BY <1>3 DEF Hung, Over
<1>15. /\ Over(v, o)[n] = k /\ o[n] = Nil
       /\ \A m \in Msgs \ {n} : Over(v, o)[m] = Over(l, o)[m]
  <2>1. o[n] = Nil
    BY <1>3, <1>5 DEF Owned
  <2> QED
    BY <1>2, <1>4, <2>1 DEF Over
<1>16. Acyclic(Over(v, o))
  <2> DEFINE up == Over(l, o)
             up2 == Over(v, o)
  <2>1. Acyclic(up)
    BY <1>14
  <2>2. up2[n] = k /\ k # Nil /\ k \in P /\ n \notin P /\ n \in Msgs
    BY <1>2, <1>15
  <2>3. \A m \in Msgs \ {n} : \/ up2[m] = up[m]
                              \/ up[m] = n /\ up2[m] = up[n]
                              \/ up[m] = k /\ up2[m] = n
    BY <1>15
  <2>4. \A m \in P \cap Msgs : up2[m] \in P \cup {Nil} \/ (up2[m] = n /\ up[m] = k)
    <3> TAKE m \in P \cap Msgs
    <3>1. up2[m] = up[m]
      BY <1>15
    <3>2. up[m] = IF l.prev[m] # Nil THEN l.prev[m] ELSE o[m]
      BY <1>14
    <3>3. l.prev[m] \in P \cup {Nil} /\ o[m] \in P \cup {Nil}
      BY <1>1, <1>14
    <3> HIDE DEF up, up2
    <3> QED
      BY <3>1, <3>2, <3>3
  <2> HIDE DEF up, up2, k
  <2>5. Acyclic(up2)
    BY ONLY <2>1, <2>2, <2>3, <2>4, Moved
  <2> QED
    BY <2>5 DEF up2
<1>17. Hung(v, o, Q)
  <2>1. \A m \in Msgs : v.prev[m] = Nil /\ o[m] # Nil => v.child[o[m]] = m
    BY <1>4, <1>14, <1>15
  <2> QED
    BY <1>14, <1>16, <2>1 DEF Hung
<1> QED
  BY <1>3, <1>4, <1>11, <1>12, <1>13, <1>17 DEF ByReference

\* Adopt(): n, which is the last one, takes j from the list on top.
LEMMA AdoptTrees ==
  ASSUME NEW P \in SUBSET Msgs, NEW n \in P, NEW j \in P, n # j, NEW l, ByReference(l, P),
         l.last = n, NEW v, v = Adopt(l, n, j)
  PROVE  ByReference(v, P) /\ v.last = n
<1> SUFFICES ASSUME l.parent[j] = Nil, mail.ref[j] = mail.msgid[n]
             PROVE  ByReference(v, P) /\ v.last = n
  BY DEF Adopt
<1> DEFINE x == l.next[j]
           y == l.prev[j]
           c == l.child[n]
<1>1. /\ l \in Linking /\ Acyclic(UpOf(l)) /\ l.first \in P
      /\ \A m \in Msgs :
           /\ l.prev[m] \in P \cup {Nil} /\ l.next[m] \in P \cup {Nil}
           /\ l.child[m] \in P \cup {Nil} /\ l.parent[m] \in P \cup {Nil}
           /\ m \notin P => /\ l.prev[m] = Nil /\ l.next[m] = Nil
                            /\ l.child[m] = Nil /\ l.parent[m] = Nil
           /\ l.next[m] # Nil => l.prev[l.next[m]] = m
           /\ l.prev[m] # Nil => l.next[l.prev[m]] = m
           /\ l.child[m] # Nil => l.prev[l.child[m]] = Nil /\ l.parent[l.child[m]] = m
      /\ \A m \in P : Up(l, m) = Nil => m = l.first
  BY TreesLinks DEF ByReference
<1>2. /\ l.parent[n] = Nil /\ l.next[n] = Nil /\ Nil \notin Msgs /\ n \in Msgs /\ j \in Msgs
      /\ \A m \in P : l.parent[m] = Nil /\ l.next[m] = Nil => m = n
  BY NilNoMessage DEF ByReference, Tops
<1>3. PICK o \in [Msgs -> Link] : Owned(l, o) /\ Hung(l, o, P)
  BY DEF ByReference
<1>4. \A m \in Msgs :
        /\ o[m] = Nil <=> l.parent[m] = Nil
        /\ l.child[m] # Nil => o[l.child[m]] = m
        /\ l.next[m] # Nil => o[l.next[m]] = o[m]
        /\ l.parent[m] # Nil => l.parent[m] = o[m] \/ o[l.parent[m]] = o[m]
  BY <1>3 DEF Owned
<1>5. x \in P /\ l.prev[x] = j /\ l.parent[x] = Nil /\ x # j
  <2>1. x \in P
    BY <1>1, <1>2
  <2>2. l.prev[x] = j /\ l.parent[x] = Nil
    BY <1>1, <1>2, <1>4, <2>1
  <2>3. x # j
    <3>1. {j} \in SUBSET Msgs /\ {j} # {}
      BY <1>2
    <3>2. UpOf(l)[j] = l.prev[j]
      BY <1>2 DEF UpOf, Up
    <3>3. \E m \in {j} : UpOf(l)[m] \notin {j}
      BY <1>1, <3>1 DEF Acyclic
    <3> QED
      BY <2>2, <3>2, <3>3
  <2> QED
    BY <2>1, <2>2, <2>3
<1>6. y # Nil => y \in P /\ l.next[y] = j /\ l.parent[y] = Nil /\ y # j /\ y # n
  BY <1>1, <1>2, <1>4, <1>5
<1>7. c # Nil => c \in P /\ l.prev[c] = Nil /\ l.parent[c] = n /\ c # j /\ c # x /\ c # n
  BY <1>1, <1>2, <1>5
<1>8. /\ v \in Linking /\ v.last = n
      /\ v.first = IF l.first = j THEN x ELSE l.first
      /\ \A k \in Msgs :
           /\ v.prev[k] = IF k = j THEN Nil ELSE IF k = c THEN j
                           ELSE IF k = x THEN y ELSE l.prev[k]
           /\ v.next[k] = IF k = j THEN c
                           ELSE IF k = y THEN x ELSE l.next[k]
           /\ v.child[k] = IF k = n THEN j ELSE l.child[k]
           /\ v.parent[k] = IF k = j THEN n ELSE l.parent[k]
  <2>1. /\ l \in Linking /\ n \in Msgs /\ j \in Msgs /\ l.parent[j] = Nil
        /\ mail.ref[j] = mail.msgid[n] /\ v = Adopt(l, n, j) /\ l.last = n
        /\ l.first = j => l.next[j] # Nil
    BY <1>1, <1>2, <1>5
  <2> QED
    BY ONLY <2>1, AdoptLinks
<1>9. v.first \in P
  BY <1>1, <1>5, <1>8
<1>10. Within(v, P)
  <2>1. ASSUME NEW m \in Msgs
        PROVE  /\ v.prev[m] \in P \cup {Nil} /\ v.next[m] \in P \cup {Nil}
               /\ v.child[m] \in P \cup {Nil} /\ v.parent[m] \in P \cup {Nil}
    BY <1>1, <1>5, <1>6, <1>7, <1>8
  <2>2. ASSUME NEW m \in Msgs, m \notin P
        PROVE  v.prev[m] = Nil /\ v.next[m] = Nil /\ v.child[m] = Nil /\ v.parent[m] = Nil
    <3>1. m # j /\ m # n /\ m # x /\ m # y /\ m # c
      BY <1>2, <1>5, <1>6, <1>7, <2>2
    <3> QED
      BY <1>1, <1>8, <2>2, <3>1
  <2> QED
    BY <2>1, <2>2 DEF Within
<1>11. Doubly(v)
  <2>1. ASSUME NEW m \in Msgs, v.next[m] # Nil PROVE v.prev[v.next[m]] = m
    <3>1. CASE m = j
      BY <1>2, <1>7, <1>8, <2>1, <3>1
    <3>2. CASE m # j /\ m = y
      BY <1>2, <1>5, <1>7, <1>8, <3>2
    <3>3. CASE m # j /\ m # y
      <4>1. v.next[m] = l.next[m] /\ l.next[m] \in Msgs /\ l.prev[l.next[m]] = m
        BY <1>1, <1>8, <2>1, <3>3
      <4>2. l.next[m] # j /\ l.next[m] # c /\ l.next[m] # x
        BY <1>2, <1>5, <1>7, <3>3, <4>1
      <4> QED
        BY <1>8, <4>1, <4>2
    <3> QED
      BY <3>1, <3>2, <3>3
  <2>2. ASSUME NEW m \in Msgs, v.prev[m] # Nil PROVE v.next[v.prev[m]] = m
    <3>1. CASE m = j
      BY <1>8, <2>2, <3>1
    <3>2. CASE m = c /\ m # j
      BY <1>2, <1>8, <3>2
    <3>3. CASE m = x /\ m # c /\ m # j
      <4>1. v.prev[m] = y /\ y \in Msgs /\ y # j
        BY <1>6, <1>8, <2>2, <3>3
      <4> QED
        BY <1>8, <3>3, <4>1
    <3>4. CASE m # x /\ m # c /\ m # j
      <4>1. v.prev[m] = l.prev[m] /\ l.prev[m] \in Msgs /\ l.next[l.prev[m]] = m
        BY <1>1, <1>8, <2>2, <3>4
      <4>2. l.prev[m] # j /\ l.prev[m] # y
        BY <1>2, <1>6, <3>4, <4>1
      <4> QED
        BY <1>8, <4>1, <4>2
    <3> QED
      BY <3>1, <3>2, <3>3, <3>4
  <2>3. ASSUME NEW m \in Msgs, v.child[m] # Nil
        PROVE  v.prev[v.child[m]] = Nil /\ v.parent[v.child[m]] = m
    <3>1. CASE m = n
      BY <1>2, <1>8, <3>1
    <3>2. CASE m # n
      <4>1. v.child[m] = l.child[m] /\ l.child[m] \in Msgs
            /\ l.prev[l.child[m]] = Nil /\ l.parent[l.child[m]] = m
        BY <1>1, <1>8, <2>3, <3>2
      <4>2. l.child[m] # j /\ l.child[m] # c /\ l.child[m] # x
        BY <1>2, <1>5, <1>7, <3>2, <4>1
      <4> QED
        BY <1>8, <4>1, <4>2
    <3> QED
      BY <3>1, <3>2
  <2> QED
    BY <2>1, <2>2, <2>3 DEF Doubly
<1>12. Up(v, j) = n /\ Up(l, j) = y /\ Up(v, x) = y /\ Up(l, x) = j
  <2>1. x # c
    BY <1>2, <1>5, <1>7
  <2> QED
    BY <1>2, <1>5, <1>8, <2>1 DEF Up
<1>13. ASSUME NEW m \in Msgs, m # j, m # x PROVE Up(v, m) = Up(l, m)
  <2>1. CASE m = c
    BY <1>2, <1>7, <1>8, <1>13, <2>1 DEF Up
  <2>2. CASE m # c
    BY <1>8, <1>13, <2>2 DEF Up
  <2> QED
    BY <2>1, <2>2
<1>14. Acyclic(UpOf(v))
  <2> DEFINE up == UpOf(l)
             up2 == UpOf(v)
             D == {m \in P : l.parent[m] = Nil} \ {j}
  <2>1. \A m \in Msgs : up[m] = Up(l, m) /\ up2[m] = Up(v, m)
    BY DEF UpOf
  <2>2. Acyclic(up)
    BY <1>1
  <2> HIDE DEF up, up2
  <2>3. up2[j] = n /\ n # Nil /\ n \in D /\ j \notin D /\ j \in Msgs
    BY <1>2, <1>12, <2>1
  <2>4. \A m \in Msgs \ {j} : \/ up2[m] = up[m]
                              \/ up[m] = j /\ up2[m] = up[j]
                              \/ up[m] = n /\ up2[m] = j
    BY <1>2, <1>12, <1>13, <2>1
  <2>5. \A m \in D \cap Msgs : up2[m] \in D \cup {Nil} \/ (up2[m] = j /\ up[m] = n)
    <3> SUFFICES ASSUME NEW m \in D \cap Msgs PROVE up2[m] \in D \cup {Nil}
      OBVIOUS
    <3>1. CASE m = x
      BY <1>6, <1>12, <2>1, <3>1
    <3>2. CASE m # x
      <4>1. up2[m] = l.prev[m] /\ l.prev[m] \in P \cup {Nil}
        BY <1>1, <1>13, <2>1, <3>2 DEF Up
      <4>2. ASSUME l.prev[m] # Nil PROVE l.prev[m] \in D
        <5>1. l.prev[m] \in P /\ l.prev[m] \in Msgs /\ l.next[l.prev[m]] = m
          BY <1>1, <4>1, <4>2
        <5>2. l.prev[m] # j
          BY <3>2, <5>1
        <5>3. m # Nil /\ o[m] = Nil
          BY <1>2, <1>4
        <5>4. l.parent[l.prev[m]] = Nil
          BY <1>4, <5>1, <5>3
        <5> QED
          BY <5>1, <5>2, <5>4
      <4> QED
        BY <4>1, <4>2
    <3> QED
      BY <3>1, <3>2
  <2>6. Acyclic(up2)
    <3> HIDE DEF D
    <3> QED
      BY ONLY <2>2, <2>3, <2>4, <2>5, Moved
  <2> QED
    BY <2>6 DEF up2
<1>15. ASSUME NEW m \in P, Up(v, m) = Nil PROVE m = v.first
  <2>1. CASE m = j
    BY <1>2, <1>12, <1>15, <2>1
  <2>2. CASE m = x
    <3>1. Up(l, j) = Nil
      BY <1>12, <1>15, <2>2
    <3> QED
      BY <1>1, <1>8, <2>2, <3>1
  <2>3. CASE m # j /\ m # x
    <3>1. Up(l, m) = Nil
      BY <1>13, <1>15, <2>3
    <3> QED
      BY <1>1, <1>8, <2>3, <3>1
  <2> QED
    BY <2>1, <2>2, <2>3
<1>16. Trees(v, P)
  BY <1>8, <1>9, <1>10, <1>11, <1>14, <1>15 DEF Trees
<1>17. Tops(v, P)
  <2>1. v.last \in P /\ v.parent[v.last] = Nil /\ v.next[v.last] = Nil
    BY <1>2, <1>6, <1>8
  <2>2. ASSUME NEW m \in P, v.parent[m] = Nil, v.next[m] = Nil PROVE m = v.last
    <3>1. m # j /\ m # y
      BY <1>2, <1>5, <1>8, <2>2
    <3> QED
      BY <1>2, <1>8, <2>2, <3>1
  <2>3. ASSUME NEW m \in P, v.parent[m] = Nil, v.next[m] # Nil PROVE m < v.next[m]
    <3>1. m # j /\ l.parent[m] = Nil
      BY <1>2, <1>8, <2>3
    <3>2. \A i \in P : l.parent[i] = Nil /\ l.next[i] # Nil => i < l.next[i]
      BY DEF ByReference, Tops
    <3>3. CASE m = y
      <4>1. y < j /\ j < x /\ v.next[m] = x
        BY <1>2, <1>5, <1>6, <1>8, <3>1, <3>2, <3>3
      <4>2. y \in Nat /\ j \in Nat /\ x \in Nat
        BY <1>5, <3>3, NilNoMessage
      <4> HIDE DEF x, y
      <4> QED
        BY <3>3, <4>1, <4>2
    <3>4. CASE m # y
      BY <1>8, <2>3, <3>1, <3>2, <3>4
    <3> QED
      BY <3>3, <3>4
  <2> QED
    BY <2>1, <2>2, <2>3 DEF Tops
<1> DEFINE o2 == [m \in Msgs |-> IF m = j THEN n ELSE o[m]]
<1>18. o2 \in [Msgs -> Link] /\ \A m \in Msgs : o2[m] = IF m = j THEN n ELSE o[m]
  BY <1>2 DEF Link
<1> HIDE DEF o2
<1>19. ASSUME NEW m \in Msgs
       PROVE  /\ o2[m] = Nil <=> v.parent[m] = Nil
              /\ v.child[m] # Nil => o2[v.child[m]] = m
              /\ v.next[m] # Nil => o2[v.next[m]] = o2[m]
              /\ v.parent[m] # Nil => v.parent[m] = o2[m] \/ o2[v.parent[m]] = o2[m]
  <2>1. o2[m] = Nil <=> v.parent[m] = Nil
    BY <1>2, <1>4, <1>8, <1>18
  <2>2. ASSUME v.child[m] # Nil PROVE o2[v.child[m]] = m
    <3>1. CASE m = n
      BY <1>2, <1>8, <1>18, <3>1
    <3>2. CASE m # n
      <4>1. v.child[m] = l.child[m] /\ l.child[m] \in Msgs /\ o[l.child[m]] = m
            /\ l.parent[l.child[m]] = m
        BY <1>1, <1>4, <1>8, <2>2, <3>2
      <4>2. l.child[m] # j
        BY <1>2, <4>1
      <4> QED
        BY <1>18, <4>1, <4>2
    <3> QED
      BY <3>1, <3>2
  <2>3. ASSUME v.next[m] # Nil PROVE o2[v.next[m]] = o2[m]
    <3>1. CASE m = j
      <4>1. v.next[m] = c /\ c \in Msgs /\ c # j
        BY <1>7, <1>8, <2>3, <3>1
      <4>2. o[c] = n
        BY <1>2, <1>4, <4>1
      <4> QED
        BY <1>18, <3>1, <4>1, <4>2
    <3>2. CASE m # j /\ m = y
      <4>1. v.next[m] = x /\ x \in Msgs /\ x # j
        BY <1>5, <1>8, <3>2
      <4>2. o[x] = Nil /\ o[m] = Nil
        BY <1>4, <1>5, <1>6, <3>2, <4>1, <1>2
      <4> QED
        BY <1>18, <3>2, <4>1, <4>2
    <3>3. CASE m # j /\ m # y
      <4>1. v.next[m] = l.next[m] /\ l.next[m] \in Msgs /\ o[l.next[m]] = o[m]
            /\ l.prev[l.next[m]] = m
        BY <1>1, <1>4, <1>8, <2>3, <3>3
      <4>2. l.next[m] # j
        BY <3>3, <4>1
      <4> QED
        BY <1>18, <3>3, <4>1, <4>2
    <3> QED
      BY <3>1, <3>2, <3>3
  <2>4. ASSUME v.parent[m] # Nil PROVE v.parent[m] = o2[m] \/ o2[v.parent[m]] = o2[m]
    <3>1. CASE m = j
      BY <1>8, <1>18, <3>1
    <3>2. CASE m # j
      <4>1. v.parent[m] = l.parent[m] /\ l.parent[m] \in Msgs /\ o[m] # Nil /\ o2[m] = o[m]
            /\ (l.parent[m] = o[m] \/ o[l.parent[m]] = o[m])
        BY <1>1, <1>4, <1>8, <1>18, <2>4, <3>2
      <4>2. o[j] = Nil
        BY <1>2, <1>4
      <4> QED
        BY <1>18, <4>1, <4>2
    <3> QED
      BY <3>1, <3>2
  <2> QED
    BY <2>1, <2>2, <2>3, <2>4
<1>20. Owned(v, o2)
  BY <1>19 DEF Owned
<1>21. /\ Acyclic(Over(l, o))
       /\ \A m \in Msgs : o[m] \in P \cup {Nil}
       /\ \A m \in Msgs : l.prev[m] = Nil /\ o[m] # Nil => l.child[o[m]] = m
       /\ \A m \in Msgs : Over(l, o)[m] = IF l.prev[m] # Nil THEN l.prev[m] ELSE o[m]
  BY <1>3 DEF Hung, Over
<1>22. \A m \in Msgs : Over(v, o2)[m] = IF v.prev[m] # Nil THEN v.prev[m] ELSE o2[m]
  BY DEF Over
<1>23. /\ o[j] = Nil /\ o[n] = Nil /\ o[x] = Nil /\ (c # Nil => o[c] = n)
       /\ x # c
  BY <1>2, <1>4, <1>5, <1>7, <1>1
<1>24. /\ Over(v, o2)[j] = n /\ Over(l, o)[j] = y
       /\ Over(v, o2)[x] = y /\ Over(l, o)[x] = j
       /\ c # Nil => Over(v, o2)[c] = j /\ Over(l, o)[c] = n
  <2> DEFINE up == Over(l, o)
             up2 == Over(v, o2)
  <2>1. /\ \A m \in Msgs : up[m] = IF l.prev[m] # Nil THEN l.prev[m] ELSE o[m]
        /\ \A m \in Msgs : up2[m] = IF v.prev[m] # Nil THEN v.prev[m] ELSE o2[m]
    BY <1>21, <1>22
  <2> HIDE DEF up, up2
  <2>2. /\ v.prev[j] = Nil /\ o2[j] = n /\ l.prev[x] = j /\ v.prev[x] = y /\ o2[x] = Nil
        /\ c # Nil => v.prev[c] = j /\ l.prev[c] = Nil /\ o[c] = n
    BY <1>1, <1>2, <1>5, <1>7, <1>8, <1>18, <1>23
  <2>3. x \in Msgs /\ (c # Nil => c \in Msgs) /\ j # Nil
    BY <1>2, <1>5, <1>7
  <2>4. up2[j] = n /\ up[j] = y
    BY <1>2, <1>23, <2>1, <2>2
  <2>5. up2[x] = y /\ up[x] = j
    BY <2>1, <2>2, <2>3
  <2>6. c # Nil => up2[c] = j /\ up[c] = n
    BY <2>1, <2>2, <2>3
  <2> QED
    BY <2>4, <2>5, <2>6 DEF up, up2
<1>25. ASSUME NEW m \in Msgs, m # j, m # x, m # c PROVE Over(v, o2)[m] = Over(l, o)[m]
  BY <1>8, <1>18, <1>21, <1>22, <1>25
<1>26. Acyclic(Over(v, o2))
  <2> DEFINE up == Over(l, o)
             up2 == Over(v, o2)
             D == {m \in P : l.parent[m] = Nil} \ {j}
  <2>1. Acyclic(up)
    BY <1>21
  <2>2. up2[j] = n /\ n # Nil /\ n \in D /\ j \notin D /\ j \in Msgs
    BY <1>2, <1>24
  <2>3. \A m \in Msgs \ {j} : \/ up2[m] = up[m]
                              \/ up[m] = j /\ up2[m] = up[j]
                              \/ up[m] = n /\ up2[m] = j
    <3> TAKE m \in Msgs \ {j}
    <3>1. CASE m = x
      BY <1>24, <3>1
    <3>2. CASE m = c /\ m # x
      BY <1>2, <1>24, <3>2
    <3>3. CASE m # c /\ m # x
      BY <1>25, <3>3
    <3> QED
      BY <3>1, <3>2, <3>3
  <2>4. \A m \in D \cap Msgs : up2[m] \in D \cup {Nil} \/ (up2[m] = j /\ up[m] = n)
    <3> SUFFICES ASSUME NEW m \in D \cap Msgs PROVE up2[m] \in D \cup {Nil}
      OBVIOUS
    <3>1. CASE m = x
      BY <1>6, <1>24, <3>1
    <3>2. CASE m # x
      <4>1. m # c /\ o[m] = Nil /\ m # j
        BY <1>2, <1>4, <1>7
      <4>2. up2[m] = l.prev[m] /\ l.prev[m] \in P \cup {Nil}
        <5>1. up2[m] = up[m]
          BY <1>25, <3>2, <4>1
        <5>2. up[m] = IF l.prev[m] # Nil THEN l.prev[m] ELSE o[m]
          BY <1>21
        <5>3. l.prev[m] \in P \cup {Nil}
          BY <1>1
        <5> HIDE DEF up, up2
        <5> QED
          BY <4>1, <5>1, <5>2, <5>3
      <4>3. ASSUME l.prev[m] # Nil PROVE l.prev[m] \in D
        <5>1. l.prev[m] \in P /\ l.prev[m] \in Msgs /\ l.next[l.prev[m]] = m /\ m # Nil
          BY <1>1, <1>2, <4>2, <4>3
        <5>2. l.prev[m] # j
          BY <3>2, <5>1
        <5>3. l.parent[l.prev[m]] = Nil
          BY <1>4, <4>1, <5>1
        <5> QED
          BY <5>1, <5>2, <5>3
      <4> QED
        BY <4>2, <4>3
    <3> QED
      BY <3>1, <3>2
  <2> HIDE DEF up, up2, D
  <2>5. Acyclic(up2)
    BY ONLY <2>1, <2>2, <2>3, <2>4, Moved
  <2> QED
    BY <2>5 DEF up2
<1>27. Hung(v, o2, P)
  <2>1. ASSUME NEW m \in Msgs, v.prev[m] = Nil, o2[m] # Nil PROVE v.child[o2[m]] = m
    <3>1. CASE m = j
      BY <1>2, <1>8, <1>18, <3>1
    <3>2. CASE m # j
      <4>1. o2[m] = o[m] /\ m # c /\ m # x
        BY <1>2, <1>8, <1>18, <1>23, <2>1, <3>2
      <4>2. l.prev[m] = Nil /\ o[m] \in Msgs /\ l.child[o[m]] = m
        BY <1>8, <1>21, <2>1, <3>2, <4>1
      <4>3. o[m] # n
        BY <4>1, <4>2
      <4> QED
        BY <1>8, <4>1, <4>2, <4>3
    <3> QED
      BY <3>1, <3>2
  <2>2. \A m \in Msgs : o2[m] \in P \cup {Nil}
    BY <1>18, <1>21
  <2> QED
    BY <1>26, <2>1, <2>2 DEF Hung
<1> QED
  BY <1>8, <1>16, <1>17, <1>18, <1>20, <1>27 DEF ByReference

\* IsChild() passes the owners of what it passes: the parent of a message is its owner,
\* or one of the same list, and who goes from one to the next of a list comes to the owner.
LEMMA OwnerPassed ==
  ASSUME NEW l \in Linking, Acyclic(UpOf(l)), NEW o \in [Msgs -> Link], Owned(l, o),
         NEW S \in SUBSET Msgs, \A m \in S : Up(l, m) \in S \cup {Nil},
         NEW m \in S, o[m] # Nil
  PROVE  o[m] \in S
<1> SUFFICES ASSUME o[m] \notin S PROVE FALSE
  OBVIOUS
<1> DEFINE T == {x \in S : o[x] = o[m]}
<1>1. T \in SUBSET Msgs /\ T # {}
  OBVIOUS
<1>2. ASSUME NEW x \in T PROVE UpOf(l)[x] \in T
  <2>1. x \in Msgs /\ l.parent[x] # Nil /\ (l.parent[x] = o[m] \/ o[l.parent[x]] = o[m])
    BY DEF Owned
  <2>2. Up(l, x) = l.parent[x] /\ UpOf(l)[x] = l.parent[x]
    BY <2>1 DEF Up, UpOf
  <2>3. l.parent[x] \in S
    BY <2>1, <2>2
  <2> QED
    BY <2>1, <2>2, <2>3
<1> HIDE DEF T
<1> QED
  BY <1>1, <1>2 DEF Acyclic

\* Reply(): n, which is the last one on top, goes to the end of j's children.
LEMMA ReplyTrees ==
  ASSUME NEW P \in SUBSET Msgs, NEW n \in P, NEW j \in P, NEW l, ByReference(l, P),
         l.last = n, ~ IsChild(l, j, n), NEW v, v = Reply(l, n, j)
  PROVE  ByReference(v, P)
<1> DEFINE y == l.prev[n]
           c == l.child[j]
           u == Unlink(l, n)
           k == IF c = Nil THEN Nil ELSE Last(ListFrom(u, c))
           t == IF k = Nil THEN j ELSE k
<1>1. /\ l \in Linking /\ Acyclic(UpOf(l)) /\ l.first \in P
      /\ \A m \in Msgs :
           /\ l.prev[m] \in P \cup {Nil} /\ l.next[m] \in P \cup {Nil}
           /\ l.child[m] \in P \cup {Nil} /\ l.parent[m] \in P \cup {Nil}
           /\ m \notin P => /\ l.prev[m] = Nil /\ l.next[m] = Nil
                            /\ l.child[m] = Nil /\ l.parent[m] = Nil
           /\ l.next[m] # Nil => l.prev[l.next[m]] = m
           /\ l.prev[m] # Nil => l.next[l.prev[m]] = m
           /\ l.child[m] # Nil => l.prev[l.child[m]] = Nil /\ l.parent[l.child[m]] = m
      /\ \A m \in P : Up(l, m) = Nil => m = l.first
  BY TreesLinks DEF ByReference
<1>2. /\ l.parent[n] = Nil /\ l.next[n] = Nil /\ Nil \notin Msgs /\ n \in Msgs /\ j \in Msgs
      /\ \A m \in P : l.parent[m] = Nil /\ l.next[m] = Nil => m = n
  BY NilNoMessage DEF ByReference, Tops
<1>3. PICK o \in [Msgs -> Link] : Owned(l, o) /\ Hung(l, o, P)
  BY DEF ByReference
<1>4. \A m \in Msgs :
        /\ o[m] = Nil <=> l.parent[m] = Nil
        /\ l.child[m] # Nil => o[l.child[m]] = m
        /\ l.next[m] # Nil => o[l.next[m]] = o[m]
        /\ l.parent[m] # Nil => l.parent[m] = o[m] \/ o[l.parent[m]] = o[m]
  BY <1>3 DEF Owned
<1>5. y \in Msgs /\ n # j /\ l.first # n /\ y # n
  BY <1>2, TopHasPrevious DEF ByReference
<1>6. y \in P /\ l.next[y] = n /\ l.parent[y] = Nil
  BY <1>1, <1>2, <1>4, <1>5
<1>7. /\ u \in Linking /\ u.prev = l.prev
      /\ \A m \in Msgs : u.next[m] = IF m = y THEN Nil ELSE l.next[m]
  <2>1. u = [l EXCEPT !.next = With(l.next, y, Nil), !.prev = With(l.prev, Nil, y)]
    <3>1. Unlink(l, n) = [l EXCEPT !.next = With(@, l.prev[n], l.next[n]),
                                   !.prev = With(@, l.next[n], l.prev[n])]
      <4>1. l \in Linking /\ n \in Msgs
        BY <1>1, <1>2
      <4> QED
        BY ONLY <4>1, UnlinkLinks
    <3>2. Unlink(l, n) = [l EXCEPT !.next = With(l.next, l.prev[n], l.next[n]),
                                   !.prev = With(l.prev, l.next[n], l.prev[n])]
      BY <3>1
    <3> QED
      BY <1>2, <3>2 DEF u
  <2>2. With(l.prev, Nil, y) = l.prev
    BY <1>1, <1>2 DEF With, Linking
  <2>3. With(l.next, y, Nil) \in [Msgs -> Link] /\ l.prev \in [Msgs -> Link]
        /\ \A m \in Msgs : With(l.next, y, Nil)[m] = IF m = y THEN Nil ELSE l.next[m]
    BY <1>1, WithType DEF Linking, Link
  <2> HIDE DEF u, y
  <2>4. u = [l EXCEPT !.next = With(l.next, y, Nil), !.prev = l.prev]
    BY <2>1, <2>2
  <2> QED
    BY <1>1, <2>3, <2>4 DEF Linking
<1> HIDE DEF u
<1>8. k # Nil => k \in P /\ l.next[k] = Nil /\ o[k] = j /\ k # n /\ k # y /\ c # Nil
  <2> SUFFICES ASSUME k # Nil
               PROVE  k \in P /\ l.next[k] = Nil /\ o[k] = j /\ k # n /\ k # y
    OBVIOUS
  <2> DEFINE q == Last(ListFrom(u, c))
  <2>1. c # Nil /\ k = q
    OBVIOUS
  <2>2. c \in Msgs /\ u.prev[c] = Nil /\ o[c] = j
    BY <1>1, <1>2, <1>4, <1>7, <2>1
  <2>3. \A m \in Msgs : u.next[m] # Nil => u.prev[u.next[m]] = m
    BY <1>1, <1>7
  <2>4. \A m \in Msgs : u.next[m] # Nil => o[u.next[m]] = o[m]
    BY <1>4, <1>7
  <2>5. q \in Msgs /\ u.next[q] = Nil /\ o[q] = o[c]
    BY ONLY <1>7, <2>2, <2>3, <2>4, LastOfList
  <2> HIDE DEF k, q
  <2>6. k \in Msgs /\ u.next[k] = Nil /\ o[k] = j
    BY <2>1, <2>2, <2>5
  <2>7. l.parent[k] # Nil
    BY <1>2, <1>4, <2>6
  <2>8. k # n /\ k # y /\ k \in P
    BY <1>1, <1>2, <1>6, <2>6, <2>7
  <2> QED
    BY <1>7, <2>6, <2>8
<1>9. k = Nil => c = Nil
  <2> SUFFICES ASSUME c # Nil PROVE Last(ListFrom(u, c)) # Nil
    OBVIOUS
  <2>2. c \in Msgs /\ u.prev[c] = Nil /\ o[c] = j
    BY <1>1, <1>2, <1>4, <1>7
  <2>3. \A m \in Msgs : u.next[m] # Nil => u.prev[u.next[m]] = m
    BY <1>1, <1>7
  <2>4. \A m \in Msgs : u.next[m] # Nil => o[u.next[m]] = o[m]
    BY <1>4, <1>7
  <2>5. Last(ListFrom(u, c)) \in Msgs
    BY ONLY <1>7, <2>2, <2>3, <2>4, LastOfList
  <2> QED
    BY <1>2, <2>5
<1>10. /\ v \in Linking /\ v.first = l.first /\ v.last = y
       /\ \A m \in Msgs :
            /\ v.prev[m] = IF m = n THEN k ELSE l.prev[m]
            /\ v.next[m] = IF m = n THEN Nil ELSE IF m = k THEN n
                            ELSE IF m = y THEN Nil ELSE l.next[m]
            /\ v.child[m] = IF k = Nil /\ m = j THEN n ELSE l.child[m]
            /\ v.parent[m] = IF m = n THEN IF k = Nil THEN j ELSE k ELSE l.parent[m]
  <2>1. /\ l \in Linking /\ n \in Msgs /\ j \in Msgs /\ l.last = n /\ l.first # n
        /\ l.next[n] = Nil /\ l.prev[n] # Nil /\ v = Reply(l, n, j)
    BY <1>1, <1>2, <1>5
  <2>2. k = IF l.child[j] = Nil THEN Nil ELSE Last(ListFrom(Unlink(l, n), l.child[j]))
    BY DEF u
  <2>3. k \in Link
    BY <1>8 DEF Link
  <2> HIDE DEF k
  <2> QED
    BY ONLY <2>1, <2>2, <2>3, ReplyLinks
<1> HIDE DEF k
<1>11. Within(v, P)
  <2>1. ASSUME NEW m \in Msgs
        PROVE  /\ v.prev[m] \in P \cup {Nil} /\ v.next[m] \in P \cup {Nil}
               /\ v.child[m] \in P \cup {Nil} /\ v.parent[m] \in P \cup {Nil}
    BY <1>1, <1>8, <1>10
  <2>2. ASSUME NEW m \in Msgs, m \notin P
        PROVE  v.prev[m] = Nil /\ v.next[m] = Nil /\ v.child[m] = Nil /\ v.parent[m] = Nil
    <3>1. m # j /\ m # n /\ m # y /\ m # k
      BY <1>2, <1>6, <1>8, <2>2
    <3> QED
      BY <1>1, <1>10, <2>2, <3>1
  <2> QED
    BY <2>1, <2>2 DEF Within
<1>12. Doubly(v)
  <2>1. ASSUME NEW m \in Msgs, v.next[m] # Nil PROVE v.prev[v.next[m]] = m
    <3>1. CASE m = k
      BY <1>2, <1>8, <1>10, <2>1, <3>1
    <3>2. CASE m # k
      <4>1. v.next[m] = l.next[m] /\ l.next[m] \in Msgs /\ l.prev[l.next[m]] = m /\ m # y
        BY <1>1, <1>10, <2>1, <3>2
      <4>2. l.next[m] # n
        BY <4>1
      <4> QED
        BY <1>10, <4>1, <4>2
    <3> QED
      BY <3>1, <3>2
  <2>2. ASSUME NEW m \in Msgs, v.prev[m] # Nil PROVE v.next[v.prev[m]] = m
    <3>1. CASE m = n
      <4>1. v.prev[m] = k /\ k \in Msgs /\ k # n
        BY <1>8, <1>10, <2>2, <3>1
      <4> QED
        BY <1>10, <3>1, <4>1
    <3>2. CASE m # n
      <4>1. v.prev[m] = l.prev[m] /\ l.prev[m] \in Msgs /\ l.next[l.prev[m]] = m
        BY <1>1, <1>10, <2>2, <3>2
      <4>2. l.prev[m] # n /\ l.prev[m] # y /\ l.prev[m] # k
        BY <1>2, <1>6, <1>8, <3>2, <4>1
      <4> QED
        BY <1>10, <4>1, <4>2
    <3> QED
      BY <3>1, <3>2
  <2>3. ASSUME NEW m \in Msgs, v.child[m] # Nil
        PROVE  v.prev[v.child[m]] = Nil /\ v.parent[v.child[m]] = m
    <3>1. CASE k = Nil /\ m = j
      BY <1>2, <1>10, <3>1
    <3>2. CASE ~ (k = Nil /\ m = j)
      <4>1. v.child[m] = l.child[m] /\ l.child[m] \in Msgs
            /\ l.prev[l.child[m]] = Nil /\ l.parent[l.child[m]] = m
        BY <1>1, <1>10, <2>3, <3>2
      <4>2. l.child[m] # n
        BY <1>2, <4>1
      <4> QED
        BY <1>10, <4>1, <4>2
    <3> QED
      BY <3>1, <3>2
  <2> QED
    BY <2>1, <2>2, <2>3 DEF Doubly
<1>13. t \in P /\ Up(v, n) = t /\ \A m \in Msgs \ {n} : Up(v, m) = Up(l, m)
  <2>1. t \in P /\ t # Nil
    BY <1>2, <1>8
  <2>2. v.parent[n] = t
    BY <1>2, <1>10
  <2>3. \A m \in Msgs \ {n} : v.parent[m] = l.parent[m] /\ v.prev[m] = l.prev[m]
    BY <1>10
  <2> QED
    BY <2>1, <2>2, <2>3 DEF Up
<1>14. Acyclic(UpOf(v))
  <2> DEFINE up == UpOf(l)
             up2 == UpOf(v)
             S == Passed(l, j)
             D == S \cup {m \in Msgs : o[m] = j}
  <2>1. \A m \in Msgs : up[m] = Up(l, m) /\ up2[m] = Up(v, m)
    BY DEF UpOf
  <2>2. Acyclic(up)
    BY <1>1
  <2> HIDE DEF up, up2, S
  <2>3. S \in SUBSET Msgs /\ j \in S /\ n \notin S /\ \A m \in S : Up(l, m) \in S \cup {Nil}
    BY <1>1, <1>2, PassedUp DEF IsChild, S
  <2>4. \A m \in Msgs \ {n} : \/ up2[m] = up[m]
                              \/ up[m] = n /\ up2[m] = up[n]
                              \/ up[m] = t /\ up2[m] = n
    BY <1>13, <2>1
  <2>5. up2[n] = t /\ t # Nil /\ t \in D /\ n \notin D /\ n \in Msgs
    <3>1. o[n] = Nil /\ j # Nil
      BY <1>2, <1>4
    <3>2. t \in D
      BY <1>8, <2>3
    <3> QED
      BY <1>2, <1>13, <2>1, <2>3, <3>1, <3>2
  <2>6. \A m \in D \cap Msgs : up2[m] \in D \cup {Nil} \/ (up2[m] = n /\ up[m] = t)
    <3> SUFFICES ASSUME NEW m \in D \cap Msgs PROVE up2[m] \in D \cup {Nil}
      OBVIOUS
    <3>1. m # n /\ up2[m] = Up(l, m)
      BY <1>13, <2>1, <2>5
    <3>2. CASE m \in S
      BY <2>3, <3>1, <3>2
    <3>3. CASE o[m] = j
      <4>1. l.parent[m] # Nil /\ l.parent[m] \in Msgs
        BY <1>1, <1>2, <1>4, <3>3
      <4>2. Up(l, m) = l.parent[m]
        BY <4>1 DEF Up
      <4>3. l.parent[m] = j \/ o[l.parent[m]] = j
        BY <1>4, <3>3, <4>1
      <4> QED
        BY <2>3, <3>1, <4>1, <4>2, <4>3
    <3> QED
      BY <3>2, <3>3
  <2>7. Acyclic(up2)
    <3> HIDE DEF D, t
    <3> QED
      BY ONLY <2>2, <2>4, <2>5, <2>6, Moved
  <2> QED
    BY <2>7 DEF up2
<1>15. \A m \in P : Up(v, m) = Nil => m = v.first
  BY <1>1, <1>2, <1>10, <1>13
<1>16. Trees(v, P)
  BY <1>1, <1>10, <1>11, <1>12, <1>14, <1>15 DEF Trees
<1>17. Tops(v, P)
  <2>1. v.last \in P /\ v.parent[v.last] = Nil /\ v.next[v.last] = Nil
    BY <1>2, <1>5, <1>6, <1>8, <1>10
  <2>2. ASSUME NEW m \in P, v.parent[m] = Nil, v.next[m] = Nil PROVE m = v.last
    <3>1. m # n
      BY <1>2, <1>8, <1>10, <2>2
    <3>2. l.parent[m] = Nil /\ m # k
      BY <1>2, <1>4, <1>8, <1>10, <2>2, <3>1
    <3>3. m # y => l.next[m] = Nil
      BY <1>10, <2>2, <3>1, <3>2
    <3> QED
      BY <1>2, <1>10, <3>1, <3>2, <3>3
  <2>3. ASSUME NEW m \in P, v.parent[m] = Nil, v.next[m] # Nil PROVE m < v.next[m]
    <3>1. m # n /\ m # y
      BY <1>2, <1>5, <1>8, <1>10, <2>3
    <3>2. l.parent[m] = Nil /\ m # k
      BY <1>2, <1>4, <1>8, <1>10, <2>3, <3>1
    <3>3. v.next[m] = l.next[m]
      BY <1>10, <3>1, <3>2
    <3> QED
      BY <2>3, <3>2, <3>3 DEF ByReference, Tops
  <2> QED
    BY <2>1, <2>2, <2>3 DEF Tops
<1> DEFINE o2 == [m \in Msgs |-> IF m = n THEN j ELSE o[m]]
<1>18. o2 \in [Msgs -> Link] /\ \A m \in Msgs : o2[m] = IF m = n THEN j ELSE o[m]
  BY <1>2 DEF Link
<1> HIDE DEF o2
<1>19. ASSUME NEW m \in Msgs
       PROVE  /\ o2[m] = Nil <=> v.parent[m] = Nil
              /\ v.child[m] # Nil => o2[v.child[m]] = m
              /\ v.next[m] # Nil => o2[v.next[m]] = o2[m]
              /\ v.parent[m] # Nil => v.parent[m] = o2[m] \/ o2[v.parent[m]] = o2[m]
  <2>1. o2[m] = Nil <=> v.parent[m] = Nil
    BY <1>2, <1>4, <1>8, <1>10, <1>18
  <2>2. ASSUME v.child[m] # Nil PROVE o2[v.child[m]] = m
    <3>1. CASE k = Nil /\ m = j
      BY <1>2, <1>10, <1>18, <3>1
    <3>2. CASE ~ (k = Nil /\ m = j)
      <4>1. v.child[m] = l.child[m] /\ l.child[m] \in Msgs /\ o[l.child[m]] = m
            /\ l.parent[l.child[m]] = m
        BY <1>1, <1>4, <1>10, <2>2, <3>2
      <4>2. l.child[m] # n
        BY <1>2, <4>1
      <4> QED
        BY <1>18, <4>1, <4>2
    <3> QED
      BY <3>1, <3>2
  <2>3. ASSUME v.next[m] # Nil PROVE o2[v.next[m]] = o2[m]
    <3>1. CASE m = k
      <4>1. m # n /\ o[m] = j
        BY <1>2, <1>8, <3>1
      <4>2. v.next[m] = n
        BY <1>10, <3>1, <4>1
      <4> QED
        BY <1>2, <1>18, <4>1, <4>2
    <3>2. CASE m # k
      <4>1. v.next[m] = l.next[m] /\ l.next[m] \in Msgs /\ o[l.next[m]] = o[m]
            /\ l.prev[l.next[m]] = m /\ m # y /\ m # n
        BY <1>1, <1>4, <1>10, <2>3, <3>2
      <4>2. l.next[m] # n
        BY <4>1
      <4> QED
        BY <1>18, <4>1, <4>2
    <3> QED
      BY <3>1, <3>2
  <2>4. ASSUME v.parent[m] # Nil PROVE v.parent[m] = o2[m] \/ o2[v.parent[m]] = o2[m]
    <3>1. CASE m = n
      <4>1. o2[m] = j /\ v.parent[m] = t
        BY <1>10, <1>18, <3>1
      <4>2. k # Nil => o2[k] = j
        BY <1>8, <1>18
      <4> QED
        BY <4>1, <4>2
    <3>2. CASE m # n
      <4>1. v.parent[m] = l.parent[m] /\ l.parent[m] \in Msgs /\ o[m] # Nil /\ o2[m] = o[m]
            /\ (l.parent[m] = o[m] \/ o[l.parent[m]] = o[m])
        BY <1>1, <1>4, <1>10, <1>18, <2>4, <3>2
      <4>2. o[n] = Nil
        BY <1>2, <1>4
      <4> QED
        BY <1>18, <4>1, <4>2
    <3> QED
      BY <3>1, <3>2
  <2> QED
    BY <2>1, <2>2, <2>3, <2>4
<1>20. Owned(v, o2)
  BY <1>19 DEF Owned
<1>21. /\ Acyclic(Over(l, o))
       /\ \A m \in Msgs : o[m] \in P \cup {Nil}
       /\ \A m \in Msgs : l.prev[m] = Nil /\ o[m] # Nil => l.child[o[m]] = m
       /\ \A m \in Msgs : Over(l, o)[m] = IF l.prev[m] # Nil THEN l.prev[m] ELSE o[m]
  BY <1>3 DEF Hung, Over
<1>22. \A m \in Msgs : Over(v, o2)[m] = IF v.prev[m] # Nil THEN v.prev[m] ELSE o2[m]
  BY DEF Over
<1>23. Over(v, o2)[n] = t /\ \A m \in Msgs \ {n} : Over(v, o2)[m] = Over(l, o)[m]
  <2> DEFINE up == Over(l, o)
             up2 == Over(v, o2)
  <2>1. /\ \A m \in Msgs : up[m] = IF l.prev[m] # Nil THEN l.prev[m] ELSE o[m]
        /\ \A m \in Msgs : up2[m] = IF v.prev[m] # Nil THEN v.prev[m] ELSE o2[m]
    BY <1>21, <1>22
  <2> HIDE DEF up, up2
  <2>2. \A m \in Msgs \ {n} : v.prev[m] = l.prev[m] /\ o2[m] = o[m]
    BY <1>10, <1>18
  <2>3. v.prev[n] = k /\ o2[n] = j /\ n \in Msgs
    BY <1>2, <1>10, <1>18
  <2>4. \A m \in Msgs \ {n} : up2[m] = up[m]
    BY <2>1, <2>2
  <2>5. up2[n] = t
    BY <2>1, <2>3
  <2> QED
    BY <2>4, <2>5 DEF up, up2
<1>24. Acyclic(Over(v, o2))
  <2> DEFINE up == Over(l, o)
             up2 == Over(v, o2)
             S == Passed(l, j)
             D == {m \in Msgs : o[m] \in S} \cup {m \in S : o[m] = Nil}
  <2>1. Acyclic(up)
    BY <1>21
  <2> HIDE DEF S
  <2>2. S \in SUBSET Msgs /\ j \in S /\ n \notin S /\ \A m \in S : Up(l, m) \in S \cup {Nil}
    BY <1>1, <1>2, PassedUp DEF IsChild, S
  <2>3. \A m \in S : o[m] # Nil => o[m] \in S
    <3>1. l \in Linking /\ Acyclic(UpOf(l)) /\ Owned(l, o)
      BY <1>1, <1>3
    <3> QED
      BY <2>2, <3>1, OwnerPassed
  <2>4. t \in D /\ n \notin D
    <3>1. o[n] = Nil /\ Nil \notin S
      BY <1>2, <1>4, <2>2
    <3>2. j \in D
      BY <2>2, <2>3
    <3>3. k # Nil => k \in D
      BY <1>1, <1>8, <2>2
    <3> QED
      BY <2>2, <3>1, <3>2, <3>3
  <2>5. up2[n] = t /\ t # Nil /\ t \in D /\ n \notin D /\ n \in Msgs
    BY <1>2, <1>13, <1>23, <2>4
  <2>6. \A m \in Msgs \ {n} : \/ up2[m] = up[m]
                              \/ up[m] = n /\ up2[m] = up[n]
                              \/ up[m] = t /\ up2[m] = n
    BY <1>23
  <2>7. \A m \in D \cap Msgs : up2[m] \in D \cup {Nil} \/ (up2[m] = n /\ up[m] = t)
    <3> SUFFICES ASSUME NEW m \in D PROVE up2[m] \in D \cup {Nil}
      OBVIOUS
    <3>1. m \in Msgs /\ m # n
      BY <2>2, <2>4
    <3>2. up2[m] = IF l.prev[m] # Nil THEN l.prev[m] ELSE o[m]
      <4>1. up2[m] = up[m]
        BY <1>23, <3>1
      <4>2. up[m] = IF l.prev[m] # Nil THEN l.prev[m] ELSE o[m]
        BY <1>21, <3>1
      <4> HIDE DEF up, up2
      <4> QED
        BY <4>1, <4>2
    <3>3. CASE l.prev[m] # Nil
      <4>1. l.prev[m] \in Msgs /\ o[l.prev[m]] = o[m]
        <5>1. l.prev[m] \in Msgs /\ l.next[l.prev[m]] = m /\ m # Nil
          BY <1>1, <1>2, <3>1, <3>3
        <5> QED
          BY <1>4, <5>1
      <4>2. CASE o[m] \in S
        BY <3>2, <3>3, <4>1, <4>2
      <4>3. CASE o[m] = Nil /\ m \in S
        <5>1. Up(l, m) = l.prev[m]
          BY <1>4, <3>1, <4>3 DEF Up
        <5>2. l.prev[m] \in S
          BY <2>2, <3>3, <4>3, <5>1
        <5> QED
          BY <3>2, <3>3, <4>1, <4>3, <5>2
      <4> QED
        BY <4>2, <4>3
    <3>4. CASE l.prev[m] = Nil
      <4>1. CASE o[m] = Nil
        BY <3>2, <3>4, <4>1
      <4>2. CASE o[m] # Nil
        <5>1. o[m] \in S
          BY <4>2
        <5>2. o[m] \in D
          BY <2>2, <2>3, <5>1
        <5> QED
          BY <3>2, <3>4, <5>2
      <4> QED
        BY <4>1, <4>2
    <3> QED
      BY <3>3, <3>4
  <2> HIDE DEF up, up2, D, t
  <2>8. Acyclic(up2)
    BY ONLY <2>1, <2>5, <2>6, <2>7, Moved
  <2> QED
    BY <2>8 DEF up2
<1>25. Hung(v, o2, P)
  <2>1. ASSUME NEW m \in Msgs, v.prev[m] = Nil, o2[m] # Nil PROVE v.child[o2[m]] = m
    <3>1. CASE m = n
      BY <1>2, <1>10, <1>18, <2>1, <3>1
    <3>2. CASE m # n
      <4>1. o2[m] = o[m] /\ l.prev[m] = Nil
        BY <1>10, <1>18, <2>1, <3>2
      <4>2. o[m] \in Msgs /\ l.child[o[m]] = m /\ m # Nil
        BY <1>2, <1>21, <2>1, <4>1
      <4>3. ~ (k = Nil /\ o[m] = j)
        BY <1>9, <4>2
      <4> QED
        BY <1>10, <4>1, <4>2, <4>3
    <3> QED
      BY <3>1, <3>2
  <2>2. \A m \in Msgs : o2[m] \in P \cup {Nil}
    BY <1>18, <1>21
  <2> QED
    BY <1>24, <2>1, <2>2 DEF Hung
<1> QED
  BY <1>16, <1>17, <1>18, <1>20, <1>25 DEF ByReference

\* Adoptions(): all of the earlier messages are asked.
LEMMA AdoptionsTrees ==
  ASSUME NEW n \in Msgs, NEW l, ByReference(l, 0 .. n), l.last = n,
         NEW v, v = Adoptions(l, n)
  PROVE  ByReference(v, 0 .. n) /\ v.last = n
<1> DEFINE P == 0 .. n
           S == {s \in Linking : ByReference(s, P) /\ s.last = n}
           Is(f) == f = [k \in 0 .. n |-> IF k = 0 THEN l ELSE Adopt(f[k-1], n, n - k)]
           adopted == CHOOSE f : Is(f)
<1>1. n \in Nat /\ P \in SUBSET Msgs /\ n \in P /\ l \in S
  BY SizeAssumption DEF Msgs, ByReference, Trees
<1>2. ASSUME NEW k \in 1 .. n, NEW s \in S PROVE Adopt(s, n, n - k) \in S
  <2> DEFINE w == Adopt(s, n, n - k)
             j == n - k
  <2>1. j \in P /\ n # j /\ ByReference(s, P) /\ s.last = n
    BY <1>1
  <2> HIDE DEF P, w, j
  <2>2. w = Adopt(s, n, j)
    BY DEF w, j
  <2>3. ByReference(w, P) /\ w.last = n
    BY ONLY <1>1, <2>1, <2>2, AdoptTrees
  <2> QED
    BY <2>3 DEF ByReference, Trees, w
<1>3. \E f : Is(f)
  <2> DEFINE h == [k \in 1 .. n |-> [s \in S |-> Adopt(s, n, n - k)]]
  <2>1. h \in [1 .. n -> [S -> S]]
    <3> HIDE DEF S
    <3> QED
      BY <1>2
  <2>2. \A k \in 1 .. n : \A s \in S : h[k][s] = Adopt(s, n, n - k)
    OBVIOUS
  <2> HIDE DEF h, S
  <2>3. l \in S /\ n \in Nat
    BY <1>1
  <2>4. PICK f \in [0 .. n -> S] : f[0] = l /\ \A k \in 1 .. n : f[k] = h[k][f[k - 1]]
    BY ONLY <2>1, <2>3, Recursion
  <2>5. \A k \in 0 .. n : f[k] = IF k = 0 THEN l ELSE Adopt(f[k-1], n, n - k)
    <3> TAKE k \in 0 .. n
    <3>1. CASE k = 0
      BY <2>4, <3>1
    <3>2. CASE k # 0
      <4>1. k \in 1 .. n /\ k - 1 \in 0 .. n
        BY <2>3, <3>2
      <4>2. f[k - 1] \in S
        BY <4>1
      <4> QED
        BY <2>2, <2>4, <3>2, <4>1, <4>2
    <3> QED
      BY <3>1, <3>2
  <2>6. Is(f)
    BY <2>5
  <2> QED
    BY <2>6
<1>4. Is(adopted)
  <2> HIDE DEF Is
  <2> QED
    BY <1>3
<1>5. v = IF mail.msgid[n] = NoId THEN l ELSE adopted[n]
  BY DEF Adoptions
<1> HIDE DEF adopted, S
<1>6. adopted[n] \in S
  <2> DEFINE T == {k \in Nat : k <= n => adopted[k] \in S}
  <2>1. 0 \in T
    BY <1>1, <1>4
  <2>2. ASSUME NEW k \in Nat, k \in T PROVE k + 1 \in T
    <3> SUFFICES ASSUME k + 1 <= n PROVE adopted[k + 1] \in S
      OBVIOUS
    <3>1. k + 1 \in 1 .. n /\ k + 1 \in 0 .. n /\ k + 1 - 1 = k /\ k + 1 # 0
      BY <1>1
    <3>2. adopted[k] \in S
      BY <1>1, <2>2
    <3>3. adopted[k + 1] = Adopt(adopted[k], n, n - (k + 1))
      <4>1. \A x \in 0 .. n : adopted[x] = IF x = 0 THEN l ELSE Adopt(adopted[x - 1], n, n - x)
        BY <1>4
      <4>2. PICK x \in 0 .. n : x = k + 1
        BY <3>1
      <4>3. x - 1 = k /\ x # 0
        BY <4>2
      <4>4. adopted[x] = Adopt(adopted[k], n, n - x)
        BY ONLY <4>1, <4>3
      <4> QED
        BY ONLY <4>2, <4>4
    <3> QED
      BY <1>2, <3>1, <3>2, <3>3
  <2> HIDE DEF T
  <2>3. n \in T
    BY <1>1, <2>1, <2>2, NatSetInduction
  <2> QED
    BY <1>1, <2>3 DEF T
<1> QED
  BY <1>1, <1>5, <1>6 DEF S

LEMMA FirstOfIn ==
  ASSUME NEW S \in SUBSET Nat, S # {}
  PROVE  FirstOf(S) \in S
<1>1. \E j \in S : \A k \in S : j <= k
  BY NatSetMin
<1> QED
  BY <1>1 DEF FirstOf

LEMMA LastOfIn ==
  ASSUME NEW n \in Nat, NEW S \in SUBSET (0 .. n), S # {}
  PROVE  LastOf(S) \in S
<1> DEFINE T == {x \in 0 .. n : n - x \in S}
<1>1. T \in SUBSET Nat /\ T # {}
  <2>1. PICK j \in S : j \in 0 .. n
    OBVIOUS
  <2>2. n - j \in 0 .. n /\ n - (n - j) = j
    BY <2>1
  <2>3. n - j \in T
    BY <2>2
  <2>4. \A x \in T : x \in Nat
    OBVIOUS
  <2> HIDE DEF T
  <2> QED
    BY <2>3, <2>4
<1>2. PICK x \in T : \A y \in T : x <= y
  BY <1>1, NatSetMin
<1>3. ASSUME NEW k \in S PROVE k <= n - x
  <2>0. k \in 0 .. n /\ x \in 0 .. n
    BY <1>2
  <2>1. n - k \in 0 .. n /\ n - (n - k) = k
    BY <2>0
  <2>2. n - k \in T
    BY <2>1
  <2> HIDE DEF T
  <2>3. x <= n - k /\ x \in Nat /\ k \in Nat
    BY <1>2, <2>0, <2>2
  <2> QED
    BY <2>3
<1>4. \E j \in S : \A k \in S : k <= j
  BY <1>2, <1>3
<1> QED
  BY <1>4 DEF LastOf

-----------------------------------------------------------------------------
(* Threads: the list on top, in the second pass.                           *)

\* The messages of Q are a list on top, in the order of the dates, or lists of which
\* the one on top is one: the links between neighbours stay in Q.
OnTop(l, Q) ==
  /\ Q \in SUBSET Msgs /\ l.first \in Q
  /\ \A m \in Q : /\ l.parent[m] = Nil
                  /\ l.prev[m] \in Q \cup {Nil} /\ l.next[m] \in Q \cup {Nil}
                  /\ l.next[m] # Nil => m < l.next[m]

\* The first of a list is where the ones before lead.
LEMMA HeadWithin ==
  ASSUME NEW u \in Linking, NEW Q \in SUBSET Msgs, NEW j \in Q,
         \A m \in Q : u.prev[m] \in Q \cup {Nil}
  PROVE  HeadOf(u, j) \in Q
<1> DEFINE Is(f) == f = [k \in 0 .. N |-> IF k = 0 THEN j
                                          ELSE IF u.prev[f[k-1]] = Nil THEN f[k-1] ELSE u.prev[f[k-1]]]
           at == CHOOSE f : Is(f)
<1>1. N \in Nat
  BY SizeAssumption
<1>2. Is(at)
  <2> DEFINE s == [m \in Q |-> IF u.prev[m] = Nil THEN m ELSE u.prev[m]]
             h == [k \in 1 .. N |-> s]
  <2>1. s \in [Q -> Q]
    OBVIOUS
  <2>2. h \in [1 .. N -> [Q -> Q]] /\ \A k \in 1 .. N : h[k] = s
    BY <2>1
  <2>3. \A m \in Q : s[m] = IF u.prev[m] = Nil THEN m ELSE u.prev[m]
    OBVIOUS
  <2> HIDE DEF s, h
  <2>4. PICK f \in [0 .. N -> Q] : f[0] = j /\ \A k \in 1 .. N : f[k] = h[k][f[k - 1]]
    <3>1. j \in Q /\ h \in [1 .. N -> [Q -> Q]] /\ N \in Nat
      BY <1>1, <2>2
    <3>2. \E f \in [0 .. N -> Q] : f[0] = j /\ \A k \in 1 .. N : f[k] = h[k][f[k - 1]]
      BY ONLY <3>1, Recursion
    <3> QED
      BY <3>2
  <2>5. \A k \in 0 .. N : f[k] = IF k = 0 THEN j
                                 ELSE IF u.prev[f[k-1]] = Nil THEN f[k-1] ELSE u.prev[f[k-1]]
    <3> TAKE k \in 0 .. N
    <3>1. CASE k = 0
      BY <2>4, <3>1
    <3>2. CASE k # 0
      <4>1. k \in 1 .. N /\ f[k - 1] \in Q
        BY <1>1, <3>2
      <4> QED
        BY <2>2, <2>3, <2>4, <3>2, <4>1
    <3> QED
      BY <3>1, <3>2
  <2>6. Is(f)
    BY <2>5
  <2> HIDE DEF Is
  <2> QED
    BY <2>6
<1>3. HeadOf(u, j) = at[N]
  BY DEF HeadOf
<1> HIDE DEF at
<1>4. \A k \in 0 .. N : at[k] = IF k = 0 THEN j
                                ELSE IF u.prev[at[k-1]] = Nil THEN at[k-1] ELSE u.prev[at[k-1]]
  BY <1>2
<1> DEFINE T == {k \in Nat : k <= N => at[k] \in Q}
<1>5. 0 \in T
  BY <1>1, <1>4
<1>6. ASSUME NEW k \in Nat, k \in T PROVE k + 1 \in T
  <2> SUFFICES ASSUME k + 1 <= N PROVE at[k + 1] \in Q
    OBVIOUS
  <2>1. k + 1 \in 0 .. N /\ k + 1 # 0 /\ k + 1 - 1 = k /\ at[k] \in Q
    BY <1>1, <1>6
  <2>2. at[k + 1] = IF u.prev[at[k]] = Nil THEN at[k] ELSE u.prev[at[k]]
    BY <1>4, <2>1
  <2> QED
    BY <2>1, <2>2
<1> HIDE DEF T
<1>7. Nat \subseteq T
  BY <1>5, <1>6, NatSetInduction
<1> QED
  BY <1>1, <1>3, <1>7 DEF T

\* A list goes where the next ones lead.
LEMMA ListWithin ==
  ASSUME NEW l \in Linking, NEW Q \in SUBSET Msgs, \A m \in Q : l.next[m] \in Q \cup {Nil},
         NEW m \in Q
  PROVE  ToSet(ListFrom(l, m)) \subseteq Q
<1>1. PICK f \in [0 .. N -> [Link -> Seq(Msgs)]] : ListFrom(l, m) = f[N][m] /\ Lengthens(f, l)
  BY ListFromLists
<1>2. N \in Nat /\ Nil \in Link /\ Q \subseteq Link
  BY SizeAssumption DEF Link
<1> DEFINE In(s) == \A i \in 1 .. Len(s) : s[i] \in Q
           T == {k \in Nat : k <= N => \A x \in Q \cup {Nil} : In(f[k][x])}
<1>3. 0 \in T
  <2>1. \A x \in Q \cup {Nil} : f[0][x] = <<>>
    BY <1>1, <1>2 DEF Lengthens
  <2> QED
    BY <2>1
<1>4. ASSUME NEW k \in Nat, k \in T PROVE k + 1 \in T
  <2> SUFFICES ASSUME k + 1 <= N, NEW x \in Q \cup {Nil} PROVE In(f[k + 1][x])
    OBVIOUS
  <2>1. PICK i \in 1 .. N : i = k + 1 /\ i - 1 = k /\ k \in 0 .. N
    BY <1>2
  <2>2. CASE x = Nil
    <3>1. f[i][x] = <<>>
      BY <1>1, <2>2 DEF Lengthens
    <3> QED
      BY <2>1, <3>1
  <2>3. CASE x # Nil
    <3> DEFINE s == f[k][l.next[x]]
               t == f[i][x]
    <3>1. x \in Q /\ x \in Msgs /\ l.next[x] \in Q \cup {Nil} /\ l.next[x] \in Link
      BY <1>2, <2>3
    <3>2. t = <<x>> \o s
      BY <1>1, <2>1, <3>1 DEF Lengthens
    <3>3. s \in Seq(Msgs) /\ In(s)
      BY <1>4, <2>1, <3>1
    <3> HIDE DEF s, t
    <3>4. \A y \in 1 .. Len(t) : t[y] = x \/ \E z \in 1 .. Len(s) : t[y] = s[z]
      BY ONLY <3>1, <3>2, <3>3, HeadedElements
    <3>5. In(t)
      BY <3>1, <3>3, <3>4
    <3> QED
      BY <2>1, <3>5 DEF t
  <2> QED
    BY <2>2, <2>3
<1>5. In(f[N][m])
  <2> HIDE DEF T, In
  <2>1. N \in T
    BY <1>2, <1>3, <1>4, NatSetInduction
  <2> QED
    BY <1>2, <2>1 DEF T
<1>6. f[N][m] \in Seq(Msgs)
  BY <1>2
<1> QED
  BY <1>1, <1>5, <1>6 DEF ToSet

\* As the second pass starts, the messages that know no parent are on top.
LEMMA ReferencesOnTop ==
  ASSUME NEW l, ByReference(l, Msgs)
  PROVE  OnTop(l, {m \in Msgs : l.parent[m] = Nil})
<1> DEFINE Q == {m \in Msgs : l.parent[m] = Nil}
<1>1. /\ l \in Linking /\ Acyclic(UpOf(l)) /\ l.first \in Msgs /\ Nil \notin Msgs
      /\ \A m \in Msgs :
           /\ l.prev[m] \in Msgs \cup {Nil} /\ l.next[m] \in Msgs \cup {Nil}
           /\ l.prev[m] # Nil => l.next[l.prev[m]] = m
      /\ \A m \in Msgs : Up(l, m) = Nil => m = l.first
  BY TreesLinks, NilNoMessage DEF ByReference
<1>2. PICK o \in [Msgs -> Link] : Owned(l, o)
  BY DEF ByReference
<1>3. \A m \in Msgs : /\ o[m] = Nil <=> l.parent[m] = Nil
                      /\ l.next[m] # Nil => o[l.next[m]] = o[m]
  BY <1>2 DEF Owned
<1>4. l.first \in Q
  <2>1. PICK x \in Passed(l, l.first) : Up(l, x) = Nil
    BY <1>1, PassedUp
  <2>2. x \in Msgs
    BY <1>1, PassedUp
  <2>3. Up(l, l.first) = Nil
    BY <1>1, <2>1, <2>2
  <2> QED
    BY <1>1, <2>3 DEF Up
<1>5. ASSUME NEW m \in Q
      PROVE  /\ l.prev[m] \in Q \cup {Nil} /\ l.next[m] \in Q \cup {Nil}
             /\ l.next[m] # Nil => m < l.next[m]
  <2>1. m \in Msgs /\ l.parent[m] = Nil /\ o[m] = Nil
    BY <1>3
  <2>2. l.next[m] # Nil => m < l.next[m]
    BY <2>1 DEF ByReference, Tops
  <2> QED
    BY <1>1, <1>3, <2>1, <2>2
<1> QED
  BY <1>4, <1>5 DEF OnTop

\* What IsChild() passes from a message on top is on top, and not later.
LEMMA PassedOnTop ==
  ASSUME NEW l, Trees(l, Msgs), NEW Q, OnTop(l, Q), NEW m \in Q
  PROVE  \A x \in Passed(l, m) : x \in Q /\ x <= m
<1> DEFINE S == {x \in Q : x <= m}
<1>1. Q \in SUBSET Msgs /\ m \in Nat /\ m \in S
  BY NilNoMessage DEF OnTop
<1>2. ASSUME NEW x \in S PROVE Up(l, x) \in S \cup {Nil}
  <2>1. x \in Q /\ x \in Msgs /\ x \in Nat /\ x <= m
    BY <1>1, NilNoMessage
  <2>2. Up(l, x) = l.prev[x] /\ l.prev[x] \in Q \cup {Nil}
    BY <2>1 DEF OnTop, Up
  <2>3. ASSUME l.prev[x] # Nil PROVE l.prev[x] < x
    <3>1. l.next[l.prev[x]] = x /\ x # Nil
      BY <2>1, <2>3, TreesLinks, NilNoMessage
    <3>2. l.prev[x] \in Q
      BY <2>2, <2>3
    <3> QED
      BY <3>1, <3>2 DEF OnTop
  <2>4. ASSUME l.prev[x] # Nil PROVE l.prev[x] \in S
    <3>1. l.prev[x] \in Q /\ l.prev[x] \in Nat /\ l.prev[x] < x
      BY <1>1, <2>2, <2>3, <2>4, NilNoMessage
    <3>2. l.prev[x] <= m
      BY <1>1, <2>1, <3>1
    <3> QED
      BY <3>1, <3>2
  <2> HIDE DEF S
  <2> QED
    BY <2>2, <2>4
<1> HIDE DEF S
<1>3. l \in Linking /\ Acyclic(UpOf(l)) /\ m \in Msgs
  BY <1>1 DEF Trees
<1>4. Passed(l, m) \subseteq S
  BY <1>1, <1>2, <1>3, PassedUp
<1> QED
  BY <1>4 DEF S

\* The message that the second pass moves leaves the list on top, and none comes there.
LEMMA SubjectOnTop ==
  ASSUME NEW l, Trees(l, Msgs), NEW n \in Msgs, NEW j \in Msgs,
         l.parent[n] = Nil, ~ IsChild(l, j, n), NEW Q, OnTop(l, Q),
         NEW v, v = BySubject(l, n, j)
  PROVE  OnTop(v, Q \ {n})
<1> DEFINE x == l.next[n]
           y == l.prev[n]
           c == l.child[j]
           z == IF j = y THEN x ELSE l.next[j]
           u == Unlink(l, n)
           R == Q \ {n}
<1>1. /\ l \in Linking /\ Nil \notin Msgs /\ Msgs \subseteq Nat
      /\ \A m \in Msgs :
           /\ l.prev[m] \in Msgs \cup {Nil} /\ l.next[m] \in Msgs \cup {Nil}
           /\ l.child[m] \in Msgs \cup {Nil}
           /\ l.next[m] # Nil => l.prev[l.next[m]] = m
           /\ l.prev[m] # Nil => l.next[l.prev[m]] = m
           /\ l.child[m] # Nil => l.prev[l.child[m]] = Nil /\ l.parent[l.child[m]] = m
  BY TreesLinks, NilNoMessage
<1>2. y \in Msgs /\ n # j /\ l.first # n /\ x # n /\ y # n
  BY TopHasPrevious
<1>3. /\ Q \in SUBSET Msgs /\ l.first \in R
      /\ \A m \in Q : /\ l.parent[m] = Nil
                      /\ l.prev[m] \in Q \cup {Nil} /\ l.next[m] \in Q \cup {Nil}
                      /\ l.next[m] # Nil => m < l.next[m]
  BY <1>2 DEF OnTop
<1>4. /\ v \in Linking /\ v.first = l.first
      /\ \/ /\ v.child = l.child /\ v.parent = l.parent
            /\ l.parent[HeadOf(u, j)] # Nil
            /\ \A m \in Msgs :
                 /\ v.prev[m] = IF m = n THEN j ELSE IF m = z THEN n
                                 ELSE IF m = x THEN y ELSE l.prev[m]
                 /\ v.next[m] = IF m = j THEN n ELSE IF m = n THEN z
                                 ELSE IF m = y THEN x ELSE l.next[m]
         \/ \A m \in Msgs :
              /\ v.prev[m] = IF m = n THEN Nil ELSE IF m = c THEN n
                              ELSE IF m = x THEN y ELSE l.prev[m]
              /\ v.next[m] = IF m = n THEN c
                              ELSE IF m = y THEN x ELSE l.next[m]
              /\ v.child[m] = IF m = j THEN n ELSE l.child[m]
              /\ v.parent[m] = IF m = n THEN j ELSE IF m = c THEN Nil
                                ELSE l.parent[m]
  BY <1>1, <1>2, SubjectLinks
<1>5. l.next[y] = n /\ (x # Nil => l.prev[x] = n)
  BY <1>1, <1>2
\* The neighbours of n are on top together.
<1>6. ASSUME NEW m \in R
      PROVE  /\ m \in Msgs /\ m # n /\ l.parent[m] = Nil
             /\ m = x => n \in Q /\ y \in R
             /\ m # x => l.prev[m] \in R \cup {Nil}
             /\ m = y => n \in Q /\ x \in R \cup {Nil} /\ (x # Nil => m < x)
             /\ m # y => l.next[m] \in R \cup {Nil}
  <2>1. m \in Msgs /\ m # n /\ l.parent[m] = Nil /\ m \in Q
    BY <1>3
  <2>2. m = x => n \in Q /\ y \in R
    BY <1>1, <1>2, <1>3, <1>5, <2>1
  <2>3. m # x => l.prev[m] \in R \cup {Nil}
    <3> SUFFICES ASSUME m # x PROVE l.prev[m] # n
      BY <1>3, <2>1
    <3> QED
      BY <1>1, <2>1
  <2>4. ASSUME m = y PROVE n \in Q /\ x \in R \cup {Nil} /\ (x # Nil => m < x)
    <3>1. n \in Q /\ m < n /\ x \in Q \cup {Nil}
      BY <1>1, <1>3, <1>5, <2>1, <2>4
    <3>2. x # Nil => n < x /\ x \in Nat
      BY <1>1, <1>3, <3>1
    <3>3. m \in Nat /\ n \in Nat
      BY <1>1, <2>1
    <3> QED
      BY <1>2, <3>1, <3>2, <3>3
  <2>5. m # y => l.next[m] \in R \cup {Nil}
    <3> SUFFICES ASSUME m # y PROVE l.next[m] # n
      BY <1>3, <2>1
    <3> QED
      BY <1>1, <2>1
  <2> QED
    BY <2>1, <2>2, <2>3, <2>4, <2>5
<1>7. CASE \A m \in Msgs :
              /\ v.prev[m] = IF m = n THEN Nil ELSE IF m = c THEN n
                              ELSE IF m = x THEN y ELSE l.prev[m]
              /\ v.next[m] = IF m = n THEN c
                              ELSE IF m = y THEN x ELSE l.next[m]
              /\ v.child[m] = IF m = j THEN n ELSE l.child[m]
              /\ v.parent[m] = IF m = n THEN j ELSE IF m = c THEN Nil
                                ELSE l.parent[m]
  <2> SUFFICES ASSUME NEW m \in R
               PROVE  /\ v.parent[m] = Nil
                      /\ v.prev[m] \in R \cup {Nil} /\ v.next[m] \in R \cup {Nil}
                      /\ v.next[m] # Nil => m < v.next[m]
    BY <1>3, <1>4 DEF OnTop
  <2>1. m # n /\ m \in Msgs /\ l.parent[m] = Nil
    BY <1>6
  <2>2. m # c
    BY <1>1, <2>1
  <2>3. v.parent[m] = Nil
    BY <1>7, <2>1, <2>2
  <2>4. v.prev[m] \in R \cup {Nil}
    BY <1>6, <1>7, <2>1, <2>2
  <2>5. v.next[m] \in R \cup {Nil} /\ (v.next[m] # Nil => m < v.next[m])
    <3>1. CASE m = y
      BY <1>6, <1>7, <2>1, <3>1
    <3>2. CASE m # y
      <4>1. v.next[m] = l.next[m]
        BY <1>7, <2>1, <3>2
      <4> QED
        BY <1>3, <1>6, <3>2, <4>1
    <3> QED
      BY <3>1, <3>2
  <2> QED
    BY <2>3, <2>4, <2>5
<1>8. CASE /\ v.child = l.child /\ v.parent = l.parent
           /\ l.parent[HeadOf(u, j)] # Nil
           /\ \A m \in Msgs :
                /\ v.prev[m] = IF m = n THEN j ELSE IF m = z THEN n
                                ELSE IF m = x THEN y ELSE l.prev[m]
                /\ v.next[m] = IF m = j THEN n ELSE IF m = n THEN z
                                ELSE IF m = y THEN x ELSE l.next[m]
  <2>1. j \notin Q
    <3> SUFFICES ASSUME j \in Q PROVE FALSE
      OBVIOUS
    <3>1. u = [l EXCEPT !.next = With(@, y, x), !.prev = With(@, x, y)]
      BY <1>1, UnlinkLinks
    <3>2. /\ x \in Link /\ y \in Link
          /\ With(l.next, y, x) \in [Msgs -> Link] /\ With(l.prev, x, y) \in [Msgs -> Link]
      BY <1>1, WithType DEF Linking
    <3>3. \A m \in Msgs : With(l.prev, x, y)[m] = IF m = x THEN y ELSE l.prev[m]
      BY DEF With
    <3> HIDE DEF u, x, y, z, c
    <3>4. u \in Linking /\ u.prev = With(l.prev, x, y)
      BY <1>1, <3>1, <3>2 DEF Linking
    <3>5. R \in SUBSET Msgs /\ j \in R
      BY <1>2, <1>3
    <3>6. \A m \in R : u.prev[m] \in R \cup {Nil}
      BY <1>6, <3>3, <3>4
    <3> HIDE DEF R
    <3>7. HeadOf(u, j) \in R
      BY ONLY <3>4, <3>5, <3>6, HeadWithin
    <3> QED
      BY <1>6, <1>8, <3>7
  <2>2. z \notin Q
    <3> SUFFICES ASSUME z \in Q PROVE FALSE
      OBVIOUS
    <3>1. z \in Msgs
      BY <1>3
    <3>2. CASE j = y
      <4>1. x \in Msgs /\ x \in Q /\ l.prev[x] = n
        BY <1>1, <1>5, <3>1, <3>2
      <4>2. n \in Q
        <5>1. \A m \in Q : l.prev[m] \in Q \cup {Nil}
          BY <1>3
        <5>2. n # Nil
          BY <1>1
        <5> HIDE DEF x
        <5> QED
          BY <4>1, <5>1, <5>2
      <4>3. y \in Q
        BY <1>1, <1>2, <1>3, <4>2
      <4> QED
        BY <2>1, <3>2, <4>3
    <3>3. CASE j # y
      <4>1. z = l.next[j] /\ z # Nil
        BY <1>1, <3>1, <3>3
      <4>2. l.prev[z] = j /\ j # Nil
        BY <1>1, <4>1
      <4>3. \A m \in Q : l.prev[m] \in Q \cup {Nil}
        BY <1>3
      <4> HIDE DEF z
      <4> QED
        BY <2>1, <4>2, <4>3
    <3> QED
      BY <3>2, <3>3
  <2> SUFFICES ASSUME NEW m \in R
               PROVE  /\ v.parent[m] = Nil
                      /\ v.prev[m] \in R \cup {Nil} /\ v.next[m] \in R \cup {Nil}
                      /\ v.next[m] # Nil => m < v.next[m]
    BY <1>3, <1>4 DEF OnTop
  <2>3. m # n /\ m \in Msgs /\ l.parent[m] = Nil /\ m # j /\ m # z
    BY <1>6, <2>1, <2>2
  <2>4. v.parent[m] = Nil
    BY <1>8, <2>3
  <2>5. v.prev[m] \in R \cup {Nil}
    <3> HIDE DEF z
    <3> QED
      BY <1>6, <1>8, <2>3
  <2>6. v.next[m] \in R \cup {Nil} /\ (v.next[m] # Nil => m < v.next[m])
    <3> HIDE DEF z
    <3>1. CASE m = y
      BY <1>6, <1>8, <2>3, <3>1
    <3>2. CASE m # y
      <4>1. v.next[m] = l.next[m]
        BY <1>8, <2>3, <3>2
      <4> QED
        BY <1>3, <1>6, <3>2, <4>1
    <3> QED
      BY <3>1, <3>2
  <2> QED
    BY <2>4, <2>5, <2>6
<1> QED
  BY <1>4, <1>7, <1>8

-----------------------------------------------------------------------------
(* Threads: the invariant and the theorems.                                *)

\* The links of the first pass are those of trees that have owners; the second
\* pass breaks what the children know of those, and keeps the trees.
ThreadInv ==
  /\ turn \in 1 .. N /\ pc \in {"ref", "subject", "done"}
  /\ pc = "ref" => ByReference(links, 0 .. (turn - 1))
  /\ pc # "ref" => Trees(links, Msgs)
  /\ pc = "done" => turn = N

LEMMA ThreadInitInv == ThreadInit => ThreadInv
<1> SUFFICES ASSUME ThreadInit PROVE ThreadInv
  OBVIOUS
<1> DEFINE none == [m \in Msgs |-> Nil]
<1>1. 0 \in Msgs /\ Nil \notin Msgs /\ none \in [Msgs -> Link] /\ \A m \in Msgs : none[m] = Nil
  BY SizeAssumption, NilNoMessage DEF Msgs, Link
<1>2. turn = 1 /\ pc = "ref" /\ links = [prev |-> none, next |-> none, child |-> none,
                                         parent |-> none, first |-> 0, last |-> 0]
  BY DEF ThreadInit
<1> HIDE DEF none
<1>3. /\ links.prev = none /\ links.next = none /\ links.child = none /\ links.parent = none
      /\ links.first = 0 /\ links.last = 0 /\ links \in Linking
  BY <1>1, <1>2 DEF Linking
<1>4. Trees(links, {0})
  <2>1. Within(links, {0}) /\ Doubly(links)
    BY <1>1, <1>3 DEF Within, Doubly
  <2>2. \A m \in Msgs : UpOf(links)[m] = Nil
    BY <1>1, <1>3 DEF UpOf, Up
  <2>3. Acyclic(UpOf(links))
    BY <1>1, <2>2 DEF Acyclic
  <2> QED
    BY <1>3, <2>1, <2>3 DEF Trees
<1>5. Tops(links, {0})
  BY <1>1, <1>3 DEF Tops
<1>6. Owned(links, none)
  BY <1>1, <1>3 DEF Owned
<1>7. 0 .. (turn - 1) = {0} /\ turn \in 1 .. N
  BY <1>2, SizeAssumption
<1>8. Hung(links, none, {0})
  <2>1. \A m \in Msgs : Over(links, none)[m] = Nil
    BY <1>1, <1>3 DEF Over
  <2>2. Acyclic(Over(links, none))
    BY <1>1, <2>1 DEF Acyclic
  <2> QED
    BY <1>1, <2>2 DEF Hung
<1>9. ByReference(links, 0 .. (turn - 1))
  BY <1>1, <1>4, <1>5, <1>6, <1>7, <1>8 DEF ByReference
<1> QED
  BY <1>2, <1>7, <1>9 DEF ThreadInv

LEMMA ThreadNextInv == ThreadInv /\ [ThreadNext]_threadVars => ThreadInv'
<1> SUFFICES ASSUME ThreadInv, [ThreadNext]_threadVars PROVE ThreadInv'
  OBVIOUS
<1>0. N \in Nat /\ turn \in 1 .. N
  BY SizeAssumption DEF ThreadInv
<1>1. CASE LinkRef
  <2> DEFINE n == turn
             P == 0 .. (n - 1)
             a == Adoptions(AppendTop(links, n), n)
             o == Originals(a, n)
  <2>1. /\ pc = "ref" /\ turn < N /\ turn' = turn + 1 /\ pc' = pc
        /\ links' = IF o = {} THEN a ELSE Reply(a, n, FirstOf(o))
    BY <1>1 DEF LinkRef
  <2>2. n \in Msgs \ P /\ P \in SUBSET Msgs /\ P \cup {n} = 0 .. n /\ n \in 0 .. n
        /\ 0 .. n \in SUBSET Msgs /\ n \in Nat /\ \A m \in P : m < n
    BY <1>0, <2>1 DEF Msgs
  <2>3. ByReference(links, P)
    BY <2>1 DEF ThreadInv
  <2>4. ByReference(AppendTop(links, n), 0 .. n) /\ AppendTop(links, n).last = n
    <3> HIDE DEF P, n
    <3>1. ByReference(AppendTop(links, n), P \cup {n}) /\ AppendTop(links, n).last = n
      BY <2>2, <2>3, AppendTrees
    <3> QED
      BY <2>2, <3>1
  <2>5. ByReference(a, 0 .. n) /\ a.last = n
    <3> HIDE DEF n
    <3> QED
      BY <2>2, <2>4, AdoptionsTrees
  <2>6. ByReference(links', 0 .. n)
    <3> HIDE DEF a, n
    <3>1. CASE o = {}
      BY <2>1, <2>5, <3>1
    <3>2. CASE o # {}
      <4> DEFINE j == FirstOf(o)
      <4>1. o \in SUBSET Nat /\ o \subseteq 0 .. n /\ \A x \in o : ~ IsChild(a, x, n)
        BY <2>2 DEF Originals
      <4> HIDE DEF o
      <4>2. j \in o
        BY <3>2, <4>1, FirstOfIn
      <4>3. j \in 0 .. n /\ ~ IsChild(a, j, n) /\ links' = Reply(a, n, j)
        BY <2>1, <3>2, <4>1, <4>2
      <4> HIDE DEF j
      <4> QED
        BY <2>2, <2>5, <4>3, ReplyTrees
    <3> QED
      BY <3>1, <3>2
  <2>7. turn' - 1 = n /\ turn' \in 1 .. N
    BY <1>0, <2>1
  <2> QED
    BY <2>1, <2>6, <2>7 DEF ThreadInv
<1>2. CASE StartSubjects
  <2>1. pc = "ref" /\ turn = N /\ pc' = "subject" /\ turn' = 1 /\ links' = links
    BY <1>2 DEF StartSubjects
  <2>2. Trees(links, Msgs)
    BY <2>1 DEF ThreadInv, ByReference, Msgs
  <2> QED
    BY <2>1, <2>2, SizeAssumption DEF ThreadInv
<1>3. CASE LinkSubject
  <2> DEFINE s == SameSubject(links, turn)
             j == LastOf(s)
  <2>1. /\ pc = "subject" /\ turn < N /\ turn' = turn + 1 /\ pc' = pc
        /\ links' = IF s = {} THEN links ELSE BySubject(links, turn, j)
    BY <1>3 DEF LinkSubject
  <2>2. Trees(links, Msgs) /\ turn \in Msgs
    BY <1>0, <2>1 DEF ThreadInv, Msgs
  <2>3. Trees(links', Msgs)
    <3>1. CASE s = {}
      BY <2>1, <2>2, <3>1
    <3>2. CASE s # {}
      <4>1. /\ s \in SUBSET (0 .. turn) /\ links.parent[turn] = Nil /\ turn \in Nat
            /\ \A x \in s : ~ IsChild(links, x, turn)
        BY <1>0, <3>2 DEF SameSubject
      <4> HIDE DEF s
      <4>2. j \in s
        BY ONLY <3>2, <4>1, LastOfIn
      <4>3. links' = BySubject(links, turn, j)
        BY <2>1, <3>2
      <4> HIDE DEF j
      <4>4. \A x \in 0 .. turn : x \in Msgs
        BY <1>0, <2>1 DEF Msgs
      <4>5. j \in Msgs /\ ~ IsChild(links, j, turn)
        BY <4>1, <4>2, <4>4
      <4> QED
        BY <2>2, <4>1, <4>3, <4>5, SubjectTrees
    <3> QED
      BY <3>1, <3>2
  <2> QED
    BY <1>0, <2>1, <2>3 DEF ThreadInv
<1>4. CASE Done
  BY <1>4 DEF Done, ThreadInv
<1>5. CASE UNCHANGED threadVars
  BY <1>5 DEF threadVars, ThreadInv
<1> QED
  BY <1>1, <1>2, <1>3, <1>4, <1>5 DEF ThreadNext

LEMMA ThreadInvariance == ThreadSpec => []ThreadInv
BY ThreadInitInv, ThreadNextInv, PTL DEF ThreadSpec

\* The second pass: of the messages on top that it has come to, no two have the same
\* subject.  The later one would have been moved: what IsChild() passes from the
\* earlier one is on top and not later.
SubjectInv ==
  pc # "ref" =>
    \E Q \in SUBSET Msgs :
      /\ OnTop(links, Q)
      /\ \A a, b \in Q : a < turn /\ b < turn /\ mail.subject[a] = mail.subject[b] => a = b

LEMMA SubjectStep ==
  ASSUME ThreadInv, SubjectInv, LinkSubject
  PROVE  SubjectInv'
<1> DEFINE n == turn
           s == SameSubject(links, n)
           j == LastOf(s)
<1>1. /\ pc = "subject" /\ n < N /\ turn' = n + 1 /\ pc' = pc /\ mail' = mail
      /\ links' = IF s = {} THEN links ELSE BySubject(links, n, j)
  BY DEF LinkSubject
<1>2. N \in Nat /\ n \in Nat /\ n \in Msgs /\ Msgs \subseteq Nat /\ Trees(links, Msgs)
  BY <1>1, SizeAssumption, NilNoMessage DEF ThreadInv, Msgs
<1>3. PICK Q \in SUBSET Msgs :
        /\ OnTop(links, Q)
        /\ \A a, b \in Q : a < n /\ b < n /\ mail.subject[a] = mail.subject[b] => a = b
  BY <1>1 DEF SubjectInv
<1>4. ASSUME NEW R \in SUBSET Q, OnTop(links', R),
             n \in R => \A a \in R : a < n => mail.subject[a] # mail.subject[n]
      PROVE  SubjectInv'
  <2>1. ASSUME NEW a \in R, NEW b \in R, a < n + 1, b < n + 1,
               mail.subject[a] = mail.subject[b]
        PROVE  a = b
    <3>1. a \in Nat /\ b \in Nat /\ a \in Q /\ b \in Q
      BY <1>2
    <3>2. (a < n \/ a = n) /\ (b < n \/ b = n)
      BY <1>2, <2>1, <3>1
    <3> QED
      BY <1>3, <1>4, <2>1, <3>1, <3>2
  <2>2. R \in SUBSET Msgs
    OBVIOUS
  <2> QED
    BY <1>1, <1>4, <2>1, <2>2 DEF SubjectInv, Msgs
<1>5. CASE s = {}
  <2>1. ASSUME n \in Q, NEW a \in Q, a < n, mail.subject[a] = mail.subject[n]
        PROVE  FALSE
    <3>1. links.parent[n] = Nil
      BY <1>3, <2>1 DEF OnTop
    <3>2. ~ IsChild(links, a, n)
      <4>1. \A x \in Passed(links, a) : x <= a
        BY <1>2, <1>3, PassedOnTop
      <4>2. a \in Nat /\ ~ (n <= a)
        BY <1>2, <2>1
      <4> QED
        BY <4>1, <4>2 DEF IsChild
    <3>3. a \in 0 .. (n - 1)
      BY <1>2, <2>1
    <3>4. a \in s
      BY <2>1, <3>1, <3>2, <3>3 DEF SameSubject
    <3> QED
      BY <1>5, <3>4
  <2>2. links' = links
    BY <1>1, <1>5
  <2>3. OnTop(links', Q)
    BY <1>3, <2>2
  <2> QED
    BY <1>4, <2>1, <2>3
<1>6. CASE s # {}
  <2>1. /\ s \in SUBSET (0 .. n) /\ links.parent[n] = Nil
        /\ \A x \in s : ~ IsChild(links, x, n)
    BY <1>2, <1>6 DEF SameSubject
  <2>2. links' = BySubject(links, n, j)
    BY <1>1, <1>6
  <2>3. \A x \in 0 .. n : x \in Msgs
    BY <1>1, <1>2 DEF Msgs
  <2> HIDE DEF s
  <2>4. j \in s
    BY <1>2, <1>6, <2>1, LastOfIn
  <2> HIDE DEF j
  <2>5. j \in Msgs /\ ~ IsChild(links, j, n)
    BY <2>1, <2>3, <2>4
  <2> HIDE DEF n
  <2>6. OnTop(links', Q \ {n})
    BY <1>2, <1>3, <2>1, <2>2, <2>5, SubjectOnTop
  <2>7. Q \ {n} \in SUBSET Q /\ n \notin Q \ {n}
    OBVIOUS
  <2> QED
    BY <1>4, <2>6, <2>7
<1> QED
  BY <1>5, <1>6

LEMMA SubjectInvariance == ThreadSpec => []SubjectInv
<1>1. ThreadInit => SubjectInv
  BY DEF ThreadInit, SubjectInv
<1>2. ThreadInv /\ SubjectInv /\ [ThreadNext]_threadVars => SubjectInv'
  <2> SUFFICES ASSUME ThreadInv, SubjectInv, [ThreadNext]_threadVars PROVE SubjectInv'
    OBVIOUS
  <2>1. CASE LinkRef
    BY <2>1 DEF LinkRef, SubjectInv
  <2>2. CASE StartSubjects
    <3> DEFINE Q == {m \in Msgs : links.parent[m] = Nil}
    <3>1. pc = "ref" /\ turn = N /\ turn' = 1 /\ links' = links /\ mail' = mail
      BY <2>2 DEF StartSubjects
    <3>2. ByReference(links, Msgs)
      BY <3>1 DEF ThreadInv, Msgs
    <3>3. OnTop(links, Q) /\ Q \in SUBSET Msgs
      BY <3>2, ReferencesOnTop
    <3> HIDE DEF Q
    <3>4. \A a, b \in Q : a < 1 /\ b < 1 => a = b
      <4>1. \A a \in Q : a \in Nat
        BY <3>3, NilNoMessage
      <4> QED
        BY <4>1
    <3>5. OnTop(links', Q)
      BY <3>1, <3>3
    <3> QED
      BY <3>1, <3>3, <3>4, <3>5 DEF SubjectInv, Msgs
  <2>3. CASE LinkSubject
    BY <2>3, SubjectStep
  <2>4. CASE Done
    BY <2>4 DEF Done, SubjectInv
  <2>5. CASE UNCHANGED threadVars
    BY <2>5 DEF threadVars, SubjectInv
  <2> QED
    BY <2>1, <2>2, <2>3, <2>4, <2>5 DEF ThreadNext
<1> QED
  BY <1>1, <1>2, ThreadInvariance, PTL DEF ThreadSpec

\* The links that have been made are those of trees.
LEMMA PlacedTrees ==
  ASSUME ThreadInv
  PROVE  Placed \in SUBSET Msgs /\ Trees(links, Placed)
<1>1. CASE pc = "ref"
  <2>1. Placed = 0 .. (turn - 1)
    BY <1>1 DEF Placed
  <2> QED
    BY <1>1, <2>1, SizeAssumption DEF ThreadInv, ByReference, Msgs
<1>2. CASE pc # "ref"
  BY <1>2 DEF Placed, ThreadInv
<1> QED
  BY <1>1, <1>2

\* The message the second pass moves has one before it, so that it is right to write
\* the next of that one without asking (1046).
LEMMA PreviousIsThere == ThreadInv => HasPrevious
<1> SUFFICES ASSUME ThreadInv, pc = "subject", turn < N, SameSubject(links, turn) # {}
             PROVE  links.prev[turn] # Nil
  BY DEF HasPrevious
<1>1. Trees(links, Msgs) /\ turn \in Msgs
  BY SizeAssumption DEF ThreadInv, Msgs
<1>2. PICK j \in SameSubject(links, turn) : TRUE
  OBVIOUS
<1>3. j \in Msgs /\ links.parent[turn] = Nil /\ ~ IsChild(links, j, turn)
  <2>1. \A x \in 0 .. (turn - 1) : x \in Msgs
    BY <1>1, SizeAssumption DEF Msgs
  <2>2. j \in 0 .. (turn - 1) /\ links.parent[turn] = Nil /\ ~ IsChild(links, j, turn)
    BY DEF SameSubject
  <2> QED
    BY <2>1, <2>2
<1>4. links.prev[turn] \in Msgs
  BY <1>1, <1>3, TopHasPrevious
<1> QED
  BY <1>4, NilNoMessage

\* Whatever the references and the subjects are, the lists that RatFolderSort()
\* links stay linked both ways and belong to one message, and the message that leaves
\* one has the neighbour the code takes for granted, for any number of messages.
THEOREM ListsBothWays == ThreadSpec => []BothWays
<1>1. ThreadInv => BothWays
  <2> SUFFICES ASSUME ThreadInv PROVE BothWays
    OBVIOUS
  <2> QED
    BY PlacedTrees, PreviousIsThere DEF Trees, Doubly, BothWays
<1> QED
  BY <1>1, ThreadInvariance, PTL

\* The first pass loses no message, whatever the references are and however many there
\* are: who follows the lists and the children from the first one on top, as
\* RatFolderSortLinearize() does, comes to all of them.
THEOREM ReferencesLoseNothing == ThreadSpec => []AllReached
<1>1. ThreadInv => AllReached
  <2> SUFFICES ASSUME ThreadInv, pc = "ref", NEW S \in SUBSET Placed, links.first \in S,
                      \A m \in S : {links.next[m], links.child[m]} \subseteq S \cup {Nil}
               PROVE  S = Placed
    BY DEF AllReached
  <2> DEFINE P == 0 .. (turn - 1)
             T == P \ S
  <2>1. Placed = P /\ P \in SUBSET Msgs /\ ByReference(links, P) /\ Nil \notin Msgs
    BY SizeAssumption, NilNoMessage DEF ThreadInv, Placed, Msgs
  <2> HIDE DEF P
  <2> SUFFICES ASSUME T # {} PROVE FALSE
    BY <2>1
  <2>2. PICK o \in [Msgs -> Link] : Owned(links, o) /\ Hung(links, o, P)
    BY <2>1 DEF ByReference
  <2>3. Trees(links, P)
    BY <2>1 DEF ByReference
  <2>4. PICK m \in T : Over(links, o)[m] \notin T
    BY <2>1, <2>2 DEF Hung, Acyclic
  <2>5. m \in P /\ m \in Msgs /\ m \notin S /\ m # Nil
    BY <2>1
  <2>6. CASE links.prev[m] # Nil
    <3>1. links.prev[m] \in P /\ links.next[links.prev[m]] = m
      BY <2>3, <2>5, <2>6, TreesLinks
    <3>2. links.prev[m] \in S
      BY <2>4, <2>5, <2>6, <3>1 DEF Over
    <3> QED
      BY <2>5, <3>1, <3>2
  <2>7. CASE links.prev[m] = Nil /\ o[m] # Nil
    <3>1. o[m] \in P /\ links.child[o[m]] = m
      BY <2>2, <2>5, <2>7 DEF Hung
    <3>2. o[m] \in S
      BY <2>4, <2>5, <2>7, <3>1 DEF Over
    <3> QED
      BY <2>5, <3>1, <3>2
  <2>8. CASE links.prev[m] = Nil /\ o[m] = Nil
    <3>1. Up(links, m) = Nil
      BY <2>2, <2>5, <2>8 DEF Owned, Up
    <3>2. m = links.first
      BY <2>3, <2>5, <3>1, TreesLinks
    <3> QED
      BY <2>5, <3>2
  <2> QED
    BY <2>6, <2>7, <2>8
<1> QED
  BY <1>1, ThreadInvariance, PTL

\* When the second pass has ended, no two messages of the list on top have the same
\* subject, for any number of messages: whatever it moved into the trees, and even when
\* it has hidden some of them there, it passed over none that has an earlier one.
THEOREM OneThreadPerSubject == ThreadSpec => []OnePerSubject
<1>1. ThreadInv /\ SubjectInv => OnePerSubject
  <2> SUFFICES ASSUME ThreadInv, SubjectInv, pc = "done",
                      NEW n \in ToSet(ListFrom(links, links.first)),
                      NEW m \in ToSet(ListFrom(links, links.first)),
                      mail.subject[n] = mail.subject[m]
               PROVE  n = m
    BY DEF OnePerSubject
  <2>1. PICK Q \in SUBSET Msgs :
          /\ OnTop(links, Q)
          /\ \A a, b \in Q : a < turn /\ b < turn /\ mail.subject[a] = mail.subject[b] => a = b
    BY DEF SubjectInv
  <2>2. links \in Linking /\ links.first \in Q /\ \A i \in Q : links.next[i] \in Q \cup {Nil}
    BY <2>1 DEF ThreadInv, Trees, OnTop
  <2>3. ToSet(ListFrom(links, links.first)) \subseteq Q
    BY <2>2, ListWithin
  <2>4. turn = N /\ \A i \in Q : i < N
    BY SizeAssumption DEF ThreadInv, Msgs
  <2> QED
    BY <2>1, <2>3, <2>4
<1> QED
  BY <1>1, ThreadInvariance, SubjectInvariance, PTL

\* IsChild(), which follows the parents and the lists up, always ends, and at the
\* first message on top.
THEOREM FirstAboveAll == ThreadSpec => []AllBelowFirst
<1>1. ThreadInv => AllBelowFirst
  <2> SUFFICES ASSUME ThreadInv, NEW m \in Placed PROVE links.first \in Passed(links, m)
    BY DEF AllBelowFirst
  <2> QED
    BY PlacedTrees, PassedFirst
<1> QED
  BY <1>1, ThreadInvariance, PTL
=============================================================================
