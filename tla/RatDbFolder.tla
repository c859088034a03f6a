----------------------------- MODULE RatDbFolder -----------------------------
(***************************************************************************)
(* Searches of the message database that are kept as folders               *)
(* (lib/ratDbFolder.c), what lib/ratFolder.c does with such a folder, and  *)
(* the window that shows it.  The folders of one process share the entries *)
(* in its memory; each keeps the numbers of the entries it found, the      *)
(* message commands, and the order of presentation.  An update searches    *)
(* again: entries may have come, gone or been given other keywords, by     *)
(* this folder, by another folder of the process or by another process.    *)
(*                                                                         *)
(* Abstractions: the database is what its files say and what this process  *)
(* has read of them, with the numbers of this process and no compaction    *)
(* (RatDbase has the files themselves, and shows that the number of an     *)
(* entry keeps its meaning in a process); a folder searches for a keyword  *)
(* that is its name; the only flag is "deleted"; a folder has one window   *)
(* and is sorted by number, forwards or backwards; the option              *)
(* expunge_on_close is off.                                                *)
(***************************************************************************)
EXTENDS Naturals, Sequences, SequencesExt, FiniteSets, FiniteSetsExt, Selection

CONSTANTS
  Folders,     \* the searches, each for the keyword of this name
  Reversed,    \* the folders that are sorted backwards
  FaultKinds,  \* what may go wrong
  MaxEntries,  \* bound: entries of the database
  MaxOther     \* bound: operations of other processes and changes of keywords

ASSUME ConstantsAssumption ==
  /\ IsFiniteSet(Folders) /\ Reversed \subseteq Folders
  /\ FaultKinds \subseteq {"insert", "search"}
  /\ MaxEntries \in Nat /\ MaxOther \in Nat

VARIABLES
  disk,       \* the database in the files
  mem,        \* the database as this process last read it
  folder,     \* the open folders: listPtr, msgCmdPtr, presentationOrder, the
              \* rows of the window, and whether nobody gives a reference back
  crashed,    \* the process followed a null pointer
  others,     \* history: the operations of other processes and changes of keywords
  displaced,  \* history: folders that lost messages they did not expunge themselves
  lost        \* history: a message was moved into a folder, and is nowhere

vars == <<disk, mem, folder, crashed, others, displaced, lost>>

Nothing == 0     \* no message
Cleared == <<0>> \* FolderWindowClear: no folder in the window

\* A message command: msgPtr->msgNo and dbMsgPtr->index.
Command(no, entry) == [no |-> no, entry |-> entry]
NoCommand == Command(0, Nothing)  \* not created yet

Entries(db) == 1 .. Len(db.keys)

\* the folders that are open
Opened == DOMAIN folder

Init ==
  /\ disk = [keys |-> <<>>, gone |-> {}, marked |-> {}]
  /\ mem = disk
  /\ folder = <<>> /\ crashed = FALSE
  /\ others = 0 /\ displaced = {} /\ lost = FALSE

-----------------------------------------------------------------------------
(* The database.                                                           *)

\* RatDbSearch: the entries that are there, by their numbers
Search(f, db) ==
  Selected([e \in Entries(db) |-> e], {e \in Entries(db) : e \notin db.gone /\ f \in db.keys[e]})

\* an operation appends to the log what turns the files into db, and reads it
Write(db) == disk' = db /\ mem' = db

\* RatDbInsert
Inserted(db, keys) == [db EXCEPT !.keys = Append(@, keys)]

\* RatDbExpunge writes what is marked in memory, whatever the files say now.
Expunged(db) == [db EXCEPT !.gone = @ \cup mem.marked]

-----------------------------------------------------------------------------
(* Db_UpdateProc and RatUpdateFolder.                                      *)

\* RatFolderSort of n messages, with SORT_NONE
Sorted(f, n) ==
  LET o == [i \in 1 .. n |-> i] IN IF f \in Reversed THEN Reverse(o) ELSE o

\* the list command: a row may lead to memory that is behind the list
Rows(list, order) ==
  [k \in DOMAIN list |-> IF order[k] \in DOMAIN list THEN list[order[k]] ELSE Nothing]

\* The commands stay where they are.
Kept_Commands(r, gone) ==
  LET list == SelectSeq(r.list, LAMBDA e : e \notin gone)
  IN [r EXCEPT !.list = list, !.cmds = SubSeq(r.cmds, 1, Len(list))]

\* The loop that follows the expunge moves what is still there to the front; no
\* command is told that its msgNo is another.
Kept(r, gone) ==
  LET at == Selected([i \in DOMAIN r.list |-> i], {i \in DOMAIN r.list : r.list[i] \notin gone})
  IN [r EXCEPT !.list = [k \in DOMAIN at |-> r.list[at[k]]],
               !.cmds = [k \in DOMAIN at |-> r.cmds[at[k]]]]

\* The list is compared by its length.
Differs_Length(kept, found) == Len(kept) # Len(found)

\* not the same numbers up to the end of both
Differs(kept, found) == kept # found

\* asking, or the trace on folderChanged
Redrawn(asking, found, old) == asking \/ Len(found) # old

\* The folder r after the search of f in db: before the expunge it had old
\* messages; asking: its window has called for the update.
Refreshed(f, r, old, db, asking) ==
  LET found == Search(f, db)
      list  == IF Differs(r.list, found) THEN found ELSE r.list
      fewer == Len(found) < Len(r.list)
      unlike == Len(found) > Len(r.list) \/ Len(found) # old
      order == IF ~fewer /\ unlike THEN Sorted(f, Len(found)) ELSE r.order
      drawn == r.rows # Cleared /\ Redrawn(asking, found, old)
  IN
  [list  |-> list,
   cmds  |-> IF fewer THEN SubSeq(r.cmds, 1, Len(found))
             ELSE r.cmds \o [i \in 1 .. Len(found) - Len(r.list) |-> NoCommand],
   order |-> order,
   rows  |-> CASE fewer  -> IF asking THEN Cleared ELSE r.rows
               [] ~fewer -> IF drawn THEN Rows(list, order) ELSE r.rows,
   held  |-> r.held \/ (fewer /\ asking)]

\* what the folders F, with the messages r had left after an expunge, miss in db
Displaced(F, r, db) == {f \in F : ~IsPrefix(r[f].list, Search(f, db))}

\* RAT_UPDATE of the folders F, which no window has called for
Update(F, db) ==
  /\ folder' = [f \in Opened |->
       IF f \in F THEN Refreshed(f, folder[f], Len(folder[f].list), db, FALSE)
       ELSE folder[f]]
  /\ displaced' = displaced \cup Displaced(F, folder, db)

-----------------------------------------------------------------------------
(* The operations.                                                         *)

Unread == UNCHANGED <<disk, mem>>

\* RatDbFolderCreate, RatOpenFolder; a folder that is open is only shown
Open(f) ==
  \/ /\ f \notin Opened /\ Write(disk)
     /\ LET found == Search(f, disk)
            order == Sorted(f, Len(found))
            r == [list |-> found, cmds |-> [i \in DOMAIN found |-> NoCommand],
                  order |-> order, rows |-> Rows(found, order), held |-> FALSE]
        IN folder' = [g \in Opened \cup {f} |-> IF g = f THEN r ELSE folder[g]]
     /\ displaced' = displaced \ {f} /\ UNCHANGED <<crashed, others, lost>>
  \/ /\ f \in Opened /\ folder[f].rows = Cleared
     /\ folder' = [folder EXCEPT ![f].rows = Rows(folder[f].list, folder[f].order)]
     /\ UNCHANGED <<crashed, others, lost, displaced>> /\ Unread

\* RatFolderClose, Db_CloseProc; a folder with a reference too many stays
Close(f) ==
  /\ f \in Opened /\ folder[f].rows # Cleared
  /\ folder' = IF folder[f].held THEN [folder EXCEPT ![f].rows = Cleared]
               ELSE [g \in Opened \ {f} |-> folder[g]]
  /\ UNCHANGED <<crashed, others, lost, displaced>> /\ Unread

\* The window of f has row k.
Shown(f, k) ==
  /\ f \in Opened /\ folder[f].rows # Cleared
  /\ k \in DOMAIN folder[f].rows /\ k \in DOMAIN folder[f].list

\* RatFolderCmdGet, Db_CreateProc: the user opens a message
Get(f, k) ==
  LET i == folder[f].order[k] IN
  /\ Shown(f, k) /\ i \in DOMAIN folder[f].list /\ folder[f].cmds[i] = NoCommand
  /\ folder' = [folder EXCEPT ![f].cmds[i] = Command(i, folder[f].list[i])]
  /\ UNCHANGED <<crashed, others, lost, displaced>> /\ Unread

\* The numbers the row k may lead to: behind the list is any.
Numbers(f, k) ==
  LET r == folder[f] IN
  IF r.order[k] \in DOMAIN r.list THEN {r.list[r.order[k]]} ELSE 1 .. MaxEntries + 1

\* RatFolderCmdSetFlag, Db_SetFlagProc, RatDbSetStatus
SetFlag(f, k, value) ==
  /\ Shown(f, k)
  /\ \E e \in Numbers(f, k) :
       \/ /\ e \in Entries(mem) /\ e \notin mem.gone /\ UNCHANGED <<folder, crashed>>
          /\ \/ (e \in mem.marked) = value /\ Unread
             \/ /\ (e \in mem.marked) # value
                /\ Write([disk EXCEPT !.marked = IF value THEN @ \cup {e} ELSE @ \ {e}])
       \/ /\ e \in Entries(mem) => e \in mem.gone
          /\ crashed' = TRUE /\ folder' = <<>> /\ Unread
  /\ UNCHANGED <<others, displaced, lost>>

\* Db_DbinfoSetProc, RatDbSetInfo
DbinfoSet(f, k, keys) ==
  /\ Shown(f, k) /\ others < MaxOther /\ others' = others + 1
  /\ \E e \in Numbers(f, k) :
       IF e \in Entries(mem) THEN Write([disk EXCEPT !.keys[e] = keys]) ELSE Unread
  /\ UNCHANGED <<folder, crashed, displaced, lost>>

\* VFolderInsertDo with delete, the copy command, RatFolderInsert,
\* Db_InsertProc: a message is moved into an open folder
Move(f, fails) ==
  /\ f \in Opened /\ Len(disk.keys) < MaxEntries
  /\ fails => "insert" \in FaultKinds
  /\ Write(IF fails THEN disk ELSE Inserted(disk, {f}))
  /\ Update({f}, disk')
  /\ lost' = (lost \/ fails)
  /\ UNCHANGED <<crashed, others>>

\* Sync: the window updates its folder, after an expunge or without
Sync(f, sync) ==
  /\ f \in Opened /\ folder[f].rows # Cleared
  /\ Write(IF sync THEN Expunged(disk) ELSE disk)
  /\ LET r == IF sync THEN Kept(folder[f], disk'.gone) ELSE folder[f] IN
     /\ folder' = [folder EXCEPT ![f] =
                     Refreshed(f, r, Len(folder[f].list), disk', TRUE)]
     /\ displaced' = displaced \cup Displaced({f}, [g \in {f} |-> r], disk')
  /\ UNCHANGED <<crashed, others, lost>>

\* the same, but the search fails
SyncFails(f, sync) ==
  /\ "search" \in FaultKinds /\ f \in Opened /\ folder[f].rows # Cleared
  /\ \/ ~sync /\ Unread
     \/ sync /\ Write(Expunged(disk))
  /\ LET r == IF sync THEN Kept(folder[f], disk'.gone) ELSE folder[f] IN
     /\ folder' = [folder EXCEPT ![f] = [r EXCEPT !.rows = Cleared, !.held = TRUE]]
     /\ displaced' = IF r = folder[f] THEN displaced ELSE displaced \cup {f}
  /\ UNCHANGED <<crashed, others, lost>>

\* RatFolderUpdateTime
UpdateTime ==
  /\ Opened # {}
  /\ Write(disk) /\ Update(Opened, disk)
  /\ UNCHANGED <<crashed, others, lost>>

\* Another process inserts, marks, expunges or changes keywords.
Other ==
  /\ others < MaxOther /\ others' = others + 1
  /\ \/ /\ Len(disk.keys) < MaxEntries
        /\ \E keys \in SUBSET Folders : disk' = Inserted(disk, keys)
     \/ \E e \in Entries(disk) :
          \/ disk' = [disk EXCEPT !.marked = @ \cup {e}]
          \/ disk' = [disk EXCEPT !.gone = @ \cup {e}]
          \/ \E keys \in SUBSET Folders : disk' = [disk EXCEPT !.keys[e] = keys]
  /\ UNCHANGED <<mem, folder, crashed, displaced, lost>>

-----------------------------------------------------------------------------
Row(f, k) ==
  \/ Get(f, k)
  \/ \E value \in BOOLEAN : SetFlag(f, k, value)
  \/ \E keys \in SUBSET Folders : DbinfoSet(f, k, keys)

Window(f) ==
  \/ Open(f) \/ Close(f)
  \/ \E b \in BOOLEAN : Move(f, b) \/ Sync(f, b) \/ SyncFails(f, b)
  \/ \E k \in 1 .. MaxEntries : Row(f, k)

Process == UpdateTime \/ \E f \in Folders : Window(f)

Next == ~crashed /\ (Process \/ Other)

Spec == Init /\ [][Next]_vars

\* RatFolderUpdateTime starts its timer again whatever happens.
FairSpec == Spec /\ WF_vars(~crashed /\ UpdateTime)

-----------------------------------------------------------------------------
\* Each command has the entry of the message it stands for (headers, text,
\* keywords).
EntriesRight(r) ==
  \A i \in DOMAIN r.list : r.cmds[i] = NoCommand \/ r.cmds[i].entry = r.list[i]

\* While a folder loses no message but by its own expunge, each command has the
\* entry of the message it stands for, each message is presented once, and the
\* window shows them in this order, whatever the other folders of the process and
\* the other processes do: in particular when an update expunges and finds others.
RowsRight ==
  \A f \in Opened \ displaced :
    LET r == folder[f] IN
    /\ EntriesRight(r)
    /\ Len(r.order) = Len(r.list) /\ ToSet(r.order) = DOMAIN r.list
    /\ r.rows # Cleared => r.rows = Rows(r.list, r.order)

Showing(f) == f \in Opened /\ folder[f].rows # Cleared

Found(f) == {e \in Entries(disk) : e \notin disk.gone /\ f \in disk.keys[e]}

\* The timer brings every open folder, again and again, to what its search finds
\* now: an update keeps a list it takes for unchanged, and never one that is as
\* long as the new one but has other messages.  It also brings what is inserted,
\* by this process or another, into the window of every folder that finds it and
\* has lost no message to others.
Follows ==
  \A f \in Folders :
    /\ []<>(f \in Opened => ToSet(folder[f].list) = Found(f))
    /\ []<>(Showing(f) => f \in displaced \/ Found(f) \subseteq ToSet(folder[f].rows))

-----------------------------------------------------------------------------
(* What the code does not do.                                              *)

\* presentationOrder is the order in which the messages are presented, and leads
\* to messages of the folder: an update that finds fewer leaves the old order,
\* and the next update sees no reason to sort.
OrderPresents ==
  \A f \in Opened : \A k \in DOMAIN folder[f].list : folder[f].order[k] \in DOMAIN folder[f].list

\* A message that is moved into a folder is there, or its original is kept:
\* Db_InsertProc drops the result of the insertion.
MovesKeep == ~lost

\* The process never looks at an entry that is gone: a mark on a message that
\* another folder or another process has expunged does.
Survives == ~crashed

\* A command has the entry of the message it stands for, in every folder: a list
\* of the same length with other messages keeps the commands of the old ones.
CommandsRight == \A f \in Opened : EntriesRight(folder[f])

\* What a command answers of the subject, the sender, the date and the flags
\* (Db_GetInfoProc goes by msgNo) is of its own message, in a folder that lost
\* none but by its own expunge: after this expunge it is of another, or of none.
AnswersRight ==
  \A f \in Opened \ displaced : \A i \in DOMAIN folder[f].list :
    LET r == folder[f] IN
    r.cmds[i] = NoCommand \/ /\ r.cmds[i].no \in DOMAIN r.list
                             /\ r.list[r.cmds[i].no] = r.cmds[i].entry

=============================================================================
