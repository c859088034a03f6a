------------------------------ MODULE RatFolder ------------------------------
(***************************************************************************)
(* An open folder (lib/ratFolder.c, the functions of lib/ratStdFolder.c    *)
(* that it calls for a mailbox) and the windows that show it               *)
(* (tkrat/folder.tcl, tkrat/watcher.tcl).  A message has one number on the *)
(* server, one in the stream of c-client, one in the arrays of the folder, *)
(* one in the order of presentation and a row in each window; a mark that  *)
(* a user sets on a row goes through all of them.                          *)
(*                                                                         *)
(* The windows share the folder and its counter of references.  A window   *)
(* is drawn again when it asks for an update itself, and when an update    *)
(* has changed the number of messages: then a trace on the variable        *)
(* folderChanged synchronises every window, which is part of the action.   *)
(*                                                                         *)
(* Abstractions: a message is the number of its arrival; a folder is       *)
(* sorted by arrival, forwards or backwards; the only flag is "deleted";   *)
(* no window filters; a checkpoint is an update.                           *)
(***************************************************************************)
EXTENDS Naturals, Sequences, FiniteSets, SequencesExt, FiniteSetsExt, Selection

CONSTANTS
  Windows,         \* the windows that may show the folder
  ExpungeOnClose,  \* the option expunge_on_close
  FaultKinds,      \* what may go wrong, at most one thing
  MaxMsgs          \* bound: messages that arrive

ASSUME ConstantsAssumption ==
  /\ IsFiniteSet(Windows) /\ ExpungeOnClose \in BOOLEAN /\ MaxMsgs \in Nat
  /\ FaultKinds \subseteq {"removed", "refused", "overread"}

VARIABLES
  box,        \* the mailbox on the server
  deleted,    \* the messages with the flag \Deleted there
  view,       \* the messages of the stream, as c-client numbers them
  marked,     \* those whose elt->deleted is set
  priv,       \* privatePtr: the message of each number
  order,      \* presentationOrder
  reverse,    \* infoPtr->reverse
  resort,     \* sortOrderChanged
  refs,       \* refCount, 0 if the folder is not open
  rows,       \* what each window shows: its messages, or Cleared
  copying,    \* a message command has the folder open to insert a copy
  lost,       \* and its own update has lost the contact: the folder is freed
  arrived,    \* the number of the last message
  asked,      \* history: the messages the user wants deleted
  faults      \* history: what went wrong

mailbox == <<box, deleted, arrived>>
stream  == <<view, marked>>
arrays  == <<priv, order, resort>>
vars == <<mailbox, stream, arrays, reverse, refs, rows, copying, lost, asked, faults>>

Cleared == <<0>>           \* FolderWindowClear: no folder in the window
Unknown == MaxMsgs + 1     \* what the memory behind an array holds

\* one thing goes wrong
MayFail(kind) == kind \in FaultKinds /\ faults \subseteq {"unnoticed"}

Init ==
  /\ box = <<>> /\ deleted = {} /\ arrived = 0
  /\ view = <<>> /\ marked = {}
  /\ priv = <<>> /\ order = <<>> /\ reverse \in BOOLEAN /\ resort = FALSE
  /\ refs = 0 /\ rows = [w \in Windows |-> Cleared]
  /\ copying = FALSE /\ lost = FALSE
  /\ asked = {} /\ faults = {}

-----------------------------------------------------------------------------
(* RatUpdateFolder.                                                        *)

\* RatFolderSort of n messages, with SORT_NONE
Sorted(n) == LET o == [i \in 1 .. n |-> i] IN IF reverse' THEN Reverse(o) ELSE o

\* the list command: the rows for the messages p in the order o, which may be
\* an old one that leads behind the end of the array
List(p, o) == [k \in DOMAIN p |-> IF o[k] \in DOMAIN p THEN p[o[k]] ELSE Unknown]

\* The messages that are marked keep their places.
Kept_All(sync) == priv

\* Std_UpdateProc drops from the arrays what is marked in the stream.
Kept(sync) ==
  IF sync THEN Selected(priv, {i \in DOMAIN priv : view[i] \notin marked}) ELSE priv

\* numNew < 0
Fewer(kept, v) == Len(v) < Len(kept)

\* nothing is new, nothing is gone and the order is not new
Unsorted(kept, v, new) == Len(kept) = Len(v) /\ Len(v) = Len(priv) /\ ~new

\* number = newExists; the last numNew messages are initialised
Arrays(kept, v, new) ==
  /\ priv' = IF Fewer(kept, v) THEN SubSeq(kept, 1, Len(v))
             ELSE kept \o SubSeq(v, Len(kept) + 1, Len(v))
  /\ order' = IF Fewer(kept, v) \/ Unsorted(kept, v, new) THEN order
              ELSE Sorted(Len(v))
  /\ resort' = (new /\ Fewer(kept, v))

\* The trace does not run.
Delta_None == FALSE

\* delta # 0: the trace on folderChanged runs
Delta == Len(priv') # Len(priv)

\* What windows show that showed shown: those of asking have called for the
\* update; one for which it fails is cleared, and the folder is not closed.
Redraw(shown, asking, fewer) ==
  rows' = [w \in Windows |->
    CASE shown[w] = Cleared -> Cleared
      [] shown[w] # Cleared /\ fewer -> IF w \in asking THEN Cleared ELSE shown[w]
      [] shown[w] # Cleared /\ ~fewer ->
           IF w \in asking \/ Delta THEN List(priv', order') ELSE shown[w]]

\* Who changes the folder without a change of the number of its messages is not
\* noticed by the other windows.
Unnoticed ==
  /\ Len(priv') = Len(priv) /\ <<priv, order>>' # <<priv, order>>
  /\ \E w \in Windows : rows'[w] # Cleared /\ rows'[w] # List(priv', order')

\* mail_expunge leaves what has no flag.
Undeleted == Selected(box, {i \in DOMAIN box : box[i] \notin deleted})

\* RatUpdateFolder; new: setSortOrder was called; fault: the expunge is refused
UpdateFolder(sync, shown, asking, new, fault) ==
  LET srv   == IF sync /\ ~fault THEN Undeleted ELSE box
      kept  == Kept(sync)
      fewer == Fewer(kept, srv)
      wrong == IF fault THEN faults \cup {"refused"} ELSE faults
  IN
  /\ fault => sync /\ MayFail("refused")
  /\ box' = srv /\ deleted' = deleted \cap ToSet(srv)
  /\ view' = srv /\ marked' = marked \cap ToSet(srv)
  /\ Arrays(kept, srv, new \/ resort)
  /\ Redraw(shown, asking, fewer)
  /\ faults' = IF ~fewer /\ Unnoticed THEN wrong \cup {"unnoticed"} ELSE wrong
  /\ UNCHANGED <<arrived, asked>>

-----------------------------------------------------------------------------
(* The mailbox.                                                            *)

\* a message more
NewMail ==
  /\ arrived < MaxMsgs
  /\ arrived' = arrived + 1
  /\ box' = Append(box, arrived')
  /\ UNCHANGED deleted

Arrive ==
  /\ NewMail
  /\ UNCHANGED <<stream, arrays, reverse, refs, rows, copying, lost, asked, faults>>

\* another client removes a message
OtherExpunge(i) ==
  /\ MayFail("removed") /\ faults' = faults \cup {"removed"}
  /\ box' = RemoveAt(box, i) /\ deleted' = deleted \ {box[i]}
  /\ UNCHANGED <<arrived, stream, arrays, reverse, refs, rows, copying, lost, asked>>

\* mm_exists in any call to c-client
Exists ==
  /\ refs > 0 /\ IsStrictPrefix(view, box)
  /\ view' = box
  /\ UNCHANGED <<mailbox, marked, arrays, reverse, refs, rows, copying, lost, asked,
                 faults>>

-----------------------------------------------------------------------------
(* Opening and closing.                                                    *)

\* RatOpenFolder: the folder may be open in another window
Open(w) ==
  /\ ~copying /\ rows[w] = Cleared
  /\ refs' = refs + 1
  /\ \/ /\ refs = 0
        /\ reverse' \in BOOLEAN
        /\ view' = box /\ marked' = deleted
        /\ priv' = box /\ order' = Sorted(Len(box)) /\ resort' = FALSE
     \/ /\ refs > 0
        /\ UNCHANGED <<reverse, stream, arrays>>
  /\ rows' = [rows EXCEPT ![w] = List(priv', order')]
  /\ UNCHANGED <<mailbox, copying, lost, asked, faults>>

\* The windows that still show the folder are forgotten.
ClearWindows_None == UNCHANGED rows

\* the loop over folderWindowList
ClearWindows == rows' = [w \in Windows |-> Cleared]

\* RatFolderClose to the end: no window shows the folder, and it is freed
Forgotten ==
  /\ view' = <<>> /\ marked' = {} /\ priv' = <<>> /\ order' = <<>> /\ resort' = FALSE
  /\ refs' = 0 /\ ClearWindows
  /\ UNCHANGED <<asked, faults>>

\* closeProc has its expunge option
Freed(expunge) ==
  /\ box' = IF expunge THEN Undeleted ELSE box
  /\ deleted' = deleted \cap ToSet(box') /\ UNCHANGED arrived
  /\ Forgotten

\* refCount-- == 1
LastReference == refs = 1

\* RatFolderClose, when the windows show what they showed but for the one that
\* closes: others keep the folder, but what is marked may be expunged
Close(shown) ==
  \/ LastReference /\ Freed(ExpungeOnClose)
  \/ /\ ~LastReference /\ refs' = refs - 1
     /\ \/ ExpungeOnClose /\ \E fault \in BOOLEAN :
             UpdateFolder(TRUE, shown, {}, FALSE, fault)
        \/ ~ExpungeOnClose /\ rows' = shown
           /\ UNCHANGED <<mailbox, stream, arrays, asked, faults>>

\* FolderReadDo with another folder, CloseFolderWin
CloseFolder(w) ==
  /\ ~copying /\ rows[w] # Cleared /\ UNCHANGED <<reverse, copying, lost>>
  /\ Close([rows EXCEPT ![w] = Cleared])

\* The update after the message was appended.
Grown ==
  /\ NewMail /\ view' = box' /\ UNCHANGED <<marked, asked>>
  /\ Arrays(priv, box', resort)
  /\ Redraw(rows, {}, Fewer(priv, box'))
  /\ faults' = IF ~Fewer(priv, box') /\ Unnoticed THEN faults \cup {"unnoticed"}
               ELSE faults

\* The copy command of a message takes a reference and inserts it here: it may be
\* appended or not, and RatFolderInsert updates the folder in either case.  Where
\* the stream is found dead, by this update or by that of a window it has called,
\* the folder is freed although the command has it.  (Std_InsertProc, which pings
\* too when it appends to an empty folder, gives up one reference then, and the
\* update finds the stream dead after it.)
Insert ==
  /\ ~copying /\ refs > 0
  /\ copying' = TRUE /\ UNCHANGED reverse
  /\ \/ /\ refs' = refs + 1 /\ lost' = FALSE
        /\ Grown \/ UpdateFolder(FALSE, rows, {}, FALSE, FALSE)
     \/ /\ lost' = TRUE /\ Forgotten
        /\ NewMail \/ UNCHANGED mailbox

\* It closes the folder again.  If that was freed the behaviour is undefined: the
\* program dies, or finds in the memory that others have the folder and leaves it.
\* Either way no folder is open.
Inserted ==
  /\ copying /\ copying' = FALSE /\ lost' = FALSE /\ UNCHANGED reverse
  /\ \/ ~lost /\ Close(rows)
     \/ lost /\ UNCHANGED <<mailbox, stream, arrays, refs, rows, asked, faults>>

\* Std_UpdateProc finds the stream dead: close 1.  In the update of the timer or
\* of a window, one that a close has called included.
LostContact ==
  /\ ~copying /\ refs > 0
  /\ Freed(FALSE)
  /\ UNCHANGED <<reverse, copying, lost>>

-----------------------------------------------------------------------------
(* The windows.                                                            *)

\* The rows are taken for numbers of messages.
Positions_Rows(K) == K

\* RatFolderCmdSetFlag: the numbers of the rows
Positions(K) == {order[k] : k \in K}

\* Two numbers at the end that follow each other: Std_SetFlagProc compares the
\* last with what is behind the list.
EndsInRun(P) == Max(P) - 1 \in P

\* SetFlag: the user sets or clears the flag on some rows
SetFlag(w, K, value) ==
  LET P  == Positions(K)
      ms == {view[p] : p \in P}
      To(set, s) == IF value THEN set \cup s ELSE set \ s
  IN
  /\ ~copying /\ rows[w] # Cleared
  /\ \A k \in K : k <= Len(priv) /\ order[k] <= Len(view)
  /\ asked' = To(asked, {rows[w][k] : k \in K})
  /\ marked' = To(marked, ms)
  /\ \/ deleted' = To(deleted, ms \cap ToSet(box)) /\ UNCHANGED faults
     \/ /\ EndsInRun(P) /\ MayFail("overread") /\ faults' = faults \cup {"overread"}
        /\ UNCHANGED deleted
  /\ UNCHANGED <<box, arrived, view, arrays, reverse, refs, rows, copying, lost>>

\* Sync: the menu, the trace and the timer of the window
Sync(w, sync) ==
  /\ ~copying /\ rows[w] # Cleared /\ UNCHANGED <<reverse, refs, copying, lost>>
  /\ \E fault \in BOOLEAN : UpdateFolder(sync, rows, {w}, FALSE, fault)

SetSortOrder(w) ==
  /\ ~copying /\ rows[w] # Cleared
  /\ reverse' = ~reverse
  /\ UpdateFolder(FALSE, rows, {w}, TRUE, FALSE)
  /\ UNCHANGED <<refs, copying, lost>>

\* RatFolderUpdateTime
UpdateTime ==
  /\ ~copying /\ refs > 0 /\ UNCHANGED <<reverse, refs, copying, lost>>
  /\ UpdateFolder(FALSE, rows, {}, FALSE, FALSE)

-----------------------------------------------------------------------------
Window(w) ==
  \/ Open(w) \/ CloseFolder(w) \/ SetSortOrder(w)
  \/ \E sync \in BOOLEAN : Sync(w, sync)
  \/ \E K \in (SUBSET DOMAIN rows[w]) \ {{}}, value \in BOOLEAN : SetFlag(w, K, value)

Next ==
  \/ \E w \in Windows : Window(w)
  \/ Insert \/ Inserted \/ UpdateTime \/ LostContact
  \/ Arrive \/ Exists \/ \E i \in DOMAIN box : OtherExpunge(i)

Spec == Init /\ [][Next]_vars

\* RatFolderUpdateTime starts its timer again whatever happens, and the commands
\* that copy a message go on.
FairSpec == Spec /\ WF_vars(UpdateTime) /\ WF_vars(Inserted)

-----------------------------------------------------------------------------
Showing == {w \in Windows : rows[w] # Cleared}

\* While nothing goes wrong at the server the arrays of the folder are the first
\* messages of its stream in their order, and every one is presented once:
\* whatever expunges, arrivals, orders and closings come together.  The folder is
\* kept for as many as show it, so that the last one closes it.
Aligned ==
  refs > 0 /\ faults \subseteq {"unnoticed"} =>
    /\ IsPrefix(priv, view)
    /\ Len(order) = Len(priv) /\ ToSet(order) = DOMAIN priv
    /\ ~copying => refs = Cardinality(Showing)

\* What is marked for deletion, on the server and in the stream, is what the user
\* marked, and nothing else is ever expunged: a row means the same message as the
\* number behind it, unless an update went unnoticed by a window.
FlagsMeant ==
  faults = {} =>
    /\ deleted = asked \cap ToSet(box)
    /\ refs > 0 => marked = deleted
    /\ (1 .. arrived) \ ToSet(box) \subseteq asked

\* A window never shows a folder that was freed, whatever is closed or lost, and a
\* command that copies a message has a reference of its own beside the windows,
\* unless it has lost the contact with the mailbox itself.
HandlesLive ==
  Cardinality(Showing) + (IF copying /\ ~lost THEN 1 ELSE 0) <= refs

\* The timer brings new mail into every window that shows the folder.
NewMailShown ==
  \A w \in Windows, m \in 1 .. MaxMsgs :
    (rows[w] # Cleared /\ m \in ToSet(box)) ~>
      (rows[w] = Cleared \/ m \notin ToSet(box) \/ m \in ToSet(rows[w]) \/ faults # {})

-----------------------------------------------------------------------------
(* What the code does not do.                                              *)

\* What a window shows is what the list command would return now: an update of
\* another window, or of the copy command, that finds as many new messages as it
\* expunges leaves the rows of this one as they were, and so does another order.
Fresh == \A w \in Windows : rows[w] # Cleared => rows[w] = List(priv, order)

\* The command that copies a message closes a folder that is there: the update of
\* RatFolderInsert closes it by force when the stream is dead, and RatMessageCmd
\* closes what it had got before.
CopyLive == copying => refs > 0

\* The number of references is that of the users: an update that fails clears the
\* window and does not close the folder.
Counted == ~copying => refs = Cardinality(Showing)

=============================================================================
