---------------------------- MODULE RatDisFolder ----------------------------
(***************************************************************************)
(* A disconnected folder of TkRat (lib/ratDisFolder.c): a local copy of an *)
(* IMAP mailbox, the master.  Its directory holds                          *)
(*                                                                         *)
(*   folder    the local copy, a mailbox in mbx format                     *)
(*   mappings  lines 'MASTER_UID LOCAL_UID'                                *)
(*   state     the uid of the last message fetched from the master         *)
(*   changes   what was deleted and flagged while there was no connection  *)
(*                                                                         *)
(* A synchronisation (Dis_SyncFolder) applies the changes to the master,   *)
(* fetches its new messages, copies the flags of the old ones and uploads  *)
(* the messages the master has not got.  With a connection kept open       *)
(* ("online") flags go to the master at once and an update of the folder   *)
(* fetches what is new.                                                    *)
(*                                                                         *)
(* Other clients work on the master meanwhile, the connection breaks, the  *)
(* disk fills up and the program dies.                                     *)
(*                                                                         *)
(* Abstractions: a message is a number, in the order of birth, and two of  *)
(* its flags; the uidvalidity does not change; opening a connection        *)
(* succeeds or the operation does nothing; the server reports arrivals and *)
(* expunges in its answer to any command but FETCH and SEARCH; the user    *)
(* inserts one message at a time; the small files are written at once.     *)
(***************************************************************************)
EXTENDS Integers, Sequences, FiniteSets, SequencesExt, FiniteSetsExt, Selection

CONSTANTS
  Ops,         \* the operations the user issues
  MaxMsgs,     \* bound: the messages ever made
  MaxOps,      \* bound: operations of the user
  MaxOther,    \* bound: what the other clients of the master do
  Faults,      \* what may go wrong: "lost" connections, a "full" disk, "crash"es
  MaxFaults    \* bound: the times something goes wrong

ASSUME BoundsAssumption ==
  /\ {MaxMsgs, MaxOps, MaxOther, MaxFaults} \subseteq Nat
  /\ Faults \subseteq {"lost", "full", "crash"}

VARIABLES
  master,      \* the master: the flags of its messages, by uid
  arrived,     \* what the uids of the master stand for: uid u is message arrived[u]
  view,        \* the master as the stream knows it
  uidLast,     \* masterStream->uid_last
  online,      \* disPtr->master is set
  broken,      \* the connection is down, noticed or not
  error,       \* disPtr->error: ... noticed
  folder,      \* the file folder; uid 0 where the driver has not parsed yet
  hdrLast,     \* the last uid in the header of the file folder
  mappings,    \* the lines of the file mappings
  stateUid,    \* the last uid in the file state
  changes,     \* the lines of the file changes
  session,     \* "closed", "open", or "batch": no folder, only a sync
  localLast,   \* localStream->uid_last
  map,         \* disPtr->map: the master's uids of local uids
  mapChanged,  \* disPtr->mapChanged
  mapBuf,      \* lines written to mappings that stdio still buffers
  lastUid,     \* disPtr->lastUid
  diskfull,    \* disPtr->diskfull
  number,      \* infoPtr->number
  pc,          \* where the program is; "idle" between operations
  op,          \* the operation under way
  ret,         \* where DisDownloadMsgs returns to
  start,       \* its startAfterUid
  todo,        \* the uids its search found
  got,         \* the flags of the message it has fetched
  last,        \* lastUid of Dis_SyncFolder, ue of Dis_InsertProc
  uidMap,      \* the uid map of the sync: a copy of view
  msgno,       \* the loop over the local messages: the next one
  nmsgs,       \* ... and the last one
  born,        \* history: the number of messages ever made
  calm,        \* history: nothing interfered with the operation under way
  died,        \* history: the program followed a null pointer or a bad index
  ops, others, losses, fulls, crashes   \* bounds

server  == <<master, arrived>>
stream  == <<view, uidLast, online, broken, error>>
disk    == <<folder, hdrLast, mappings, stateUid, changes>>
memory  == <<session, localLast, map, mapChanged, mapBuf, lastUid, diskfull, number>>
args    == <<op, ret, start, todo, got, last, uidMap, msgno, nmsgs>>
history == <<born, calm, died>>
bounds  == <<ops, others, losses, fulls, crashes>>
vars == <<server, stream, disk, memory, pc, args, history, bounds>>

-----------------------------------------------------------------------------
(* Data                                                                    *)

Flags == {"flagged", "deleted"}

\* Something may go wrong in this way.
Faulty(kind) == kind \in Faults /\ losses + fulls + crashes < MaxFaults

MaxUid(uids) == Max(uids \cup {0})

\* The content of a state file that was truncated and not written.
Unreadable == -1

\* MsgNo() that counts from zero.
MsgNo_FromZero(uids, u) == IF u \in uids THEN Cardinality({v \in uids : v < u}) ELSE 0

\* MsgNo(): the place of a uid in the uid map; 0 when it has none.
MsgNo(uids, u) == IF u \in uids THEN Cardinality({v \in uids : v <= u}) ELSE 0

\* The uid the stream knows message n by.
UidOf(uids, n) == CHOOSE u \in uids : MsgNo(uids, u) = n

With(flags, name, value) == IF value THEN flags \cup {name} ELSE flags \ {name}

Put(f, x, y) == [z \in DOMAIN f \cup {x} |-> IF z = x THEN y ELSE f[z]]
Without(f, X) == [z \in DOMAIN f \ X |-> f[z]]

\* ReadMappings(): of two lines for a local uid the later one counts.
ReadMappings(lines) ==
  [l \in {lines[i][2] : i \in DOMAIN lines} |->
     lines[Max({i \in DOMAIN lines : lines[i][2] = l})][1]]

\* WriteMappings() writes the map as lines, in no order that matters.
LinesOf(f) == SetToSeq({<<f[l], l>> : l \in DOMAIN f})

\* GetMasterUID(): 0 when the message has no mapping.
GetMasterUID(f, m) == IF m.uid \in DOMAIN f THEN f[m.uid] ELSE 0

\* What the mbx driver makes of the messages appended since it last looked.
Unparsed(f) == {i \in DOMAIN f : f[i].uid = 0}
Parsed(f) ==
  [i \in DOMAIN f |-> IF f[i].uid # 0 THEN f[i]
      ELSE [f[i] EXCEPT !.uid = hdrLast + Cardinality({j \in Unparsed(f) : j <= i})]]

\* The driver parses the local folder f: its new messages get uids, and the
\* stream takes its last uid from the header again.
Parse(f) ==
  /\ folder' = Parsed(f)
  /\ hdrLast' = hdrLast + Cardinality(Unparsed(f))
  /\ localLast' = hdrLast'

\* mail_ping() parses the file only when it has changed.
Ping(f) == IF Unparsed(f) # {} THEN Parse(f)
           ELSE folder' = f /\ UNCHANGED <<hdrLast, localLast>>

Idle ==
  /\ pc' = "idle" /\ op' = "none" /\ ret' = "idle" /\ start' = 0 /\ todo' = {}
  /\ got' = {} /\ last' = 0 /\ uidMap' = {} /\ msgno' = 0 /\ nmsgs' = 0

\* The stream is open: kept by the folder, or for the sync under way.
Connected == online \/ pc \in {"s_delete", "s_map", "s_flags", "s_unlink", "s_download",
                               "s_loop", "s_search", "s_state", "s_end"} \/ ret = "s_loop"

\* A command to the server, after which its mailbox is box.  It fails when the
\* connection is down; else the answer tells the stream all that has happened.
Command(box) ==
  IF broken THEN error' = TRUE /\ UNCHANGED <<master, view>>
            ELSE master' = box /\ view' = box /\ UNCHANGED error

\* mail_expunge() removes what carries \Deleted, whoever set it.
Expunged(box) == [u \in {v \in DOMAIN box : "deleted" \notin box[v]} |-> box[u]]

-----------------------------------------------------------------------------
(* The world                                                               *)

\* A message arrives in the master.
Deliver ==
  /\ others < MaxOther /\ born < MaxMsgs
  /\ born' = born + 1 /\ arrived' = Append(arrived, born')
  /\ master' = Put(master, Len(arrived'), {})
  /\ others' = others + 1 /\ calm' = FALSE
  /\ UNCHANGED <<stream, disk, memory, pc, args, died, ops, losses, fulls, crashes>>

\* Another client of the master flags a message, or deletes and expunges it.
OtherClient ==
  /\ others < MaxOther
  /\ \E u \in DOMAIN master :
       \/ master' = Without(master, {u})
       \/ /\ "flagged" \notin master[u]
          /\ master' = [master EXCEPT ![u] = With(@, "flagged", TRUE)]
  /\ others' = others + 1 /\ calm' = FALSE
  /\ UNCHANGED <<arrived, stream, disk, memory, pc, args, born, died,
                 ops, losses, fulls, crashes>>

\* The connection breaks; the next command notices.
Lose ==
  /\ Faulty("lost") /\ Connected /\ ~broken
  /\ broken' = TRUE /\ losses' = losses + 1 /\ calm' = FALSE
  /\ UNCHANGED <<server, view, uidLast, online, error, disk, memory, pc, args, born, died, ops, others, fulls, crashes>>

\* Nothing of the program's memory survives, lines in stdio's buffers included.
Gone ==
  /\ session' = "closed" /\ localLast' = 0 /\ map' = <<>> /\ mapChanged' = FALSE
  /\ mapBuf' = <<>> /\ lastUid' = 0 /\ diskfull' = FALSE /\ number' = 0
  /\ view' = <<>> /\ uidLast' = 0 /\ online' = FALSE /\ broken' = FALSE /\ error' = FALSE
  /\ Idle

\* The program is killed, between two steps of an operation or of the user.
Crash ==
  /\ Faulty("crash") /\ session # "closed"
  /\ Gone
  /\ crashes' = crashes + 1 /\ calm' = FALSE
  /\ UNCHANGED <<server, disk, born, died, ops, others, losses, fulls>>

\* ... or while it writes the file state, which has been truncated then, or is
\* about to be.
CrashWriting ==
  /\ Faulty("crash") /\ pc \in {"s_state", "u_state", "i_state"}
  /\ Gone
  /\ mappings' = mappings \o mapBuf
  /\ stateUid' \in {stateUid, Unreadable}
  /\ crashes' = crashes + 1 /\ calm' = FALSE
  /\ UNCHANGED <<server, folder, hdrLast, changes, born, died, ops, others, losses, fulls>>

\* The program follows a null pointer, or c-client finds a bad message number.
Die ==
  /\ Gone
  /\ died' = TRUE /\ calm' = FALSE
  /\ UNCHANGED <<server, disk, born, bounds>>

-----------------------------------------------------------------------------
(* What the user does                                                      *)

\* The user issues operation o.
Issue(o) ==
  /\ pc = "idle" /\ o \in Ops /\ ops < MaxOps
  /\ ops' = ops + 1 /\ calm' = TRUE
  /\ UNCHANGED <<others, losses, fulls, crashes, died>>

\* The local mailbox is opened and its mappings are read.
OpenLocal(s) ==
  /\ Parse(folder)
  /\ map' = ReadMappings(mappings)
  /\ session' = s /\ number' = Len(folder) /\ lastUid' = 0
  /\ mapChanged' = FALSE /\ diskfull' = FALSE
  /\ UNCHANGED mapBuf

\* A sync that does not read the state file.
OpenMaster_NoState ==
  /\ stateUid # Unreadable
  /\ last' = lastUid
  /\ IF online THEN UNCHANGED stream
     ELSE /\ view' = master /\ uidLast' = Len(arrived)
          /\ broken' = FALSE /\ error' = FALSE /\ UNCHANGED online
  /\ pc' = "s_delete"
  /\ UNCHANGED <<ret, start, todo, got, uidMap, msgno, nmsgs, born>>

\* The master is opened, unless the folder keeps it open; the sync goes on from
\* lastUid, or from the file state, which it must be able to read.
OpenMaster ==
  /\ stateUid # Unreadable
  /\ last' = IF lastUid # 0 THEN lastUid ELSE stateUid
  /\ IF online THEN UNCHANGED stream
     ELSE /\ view' = master /\ uidLast' = Len(arrived)
          /\ broken' = FALSE /\ error' = FALSE /\ UNCHANGED online
  /\ pc' = "s_delete"
  /\ UNCHANGED <<ret, start, todo, got, uidMap, msgno, nmsgs, born>>

\* RatDisFolderCreate(): the folder is opened; online it is synchronised at
\* once (Dis_FinalProc).
Open ==
  /\ Issue("open") /\ session = "closed"
  /\ OpenLocal("open")
  /\ \/ UNCHANGED <<stream, pc, args>>
     \/ OpenMaster /\ op' = "online"
  /\ UNCHANGED <<server, mappings, stateUid, changes, born>>

\* Dis_SyncProc(), and Dis_FindAndSyncFolders(), which takes closed folders too.
NetSync ==
  /\ Issue("netsync")
  /\ IF session = "closed" THEN OpenLocal("batch")
     ELSE UNCHANGED <<folder, hdrLast, memory>>
  /\ OpenMaster /\ op' = "netsync"
  /\ UNCHANGED <<server, mappings, stateUid, changes, born>>

\* RatDisOnOffTrans(): an open folder goes online with a sync ...
GoOnline ==
  /\ Issue("online") /\ session = "open" /\ ~online
  /\ OpenMaster /\ op' = "online"
  /\ UNCHANGED <<server, disk, memory, born>>

\* ... and offline by closing its connection.
GoOffline ==
  /\ Issue("offline") /\ online
  /\ online' = FALSE
  /\ UNCHANGED <<server, view, uidLast, broken, error, disk, memory, pc, args, born>>

\* There is no sync when the file state cannot be read: "Failed to read
\* statefile".
SyncRefused ==
  /\ stateUid = Unreadable
  /\ Issue("netsync") \/ (Issue("online") /\ session = "open" /\ ~online)
  /\ UNCHANGED <<server, stream, disk, memory, pc, args, born>>

\* Updates: look for new mail (update) or expunge as well (sync).
StartUpdate(o) ==
  /\ Issue(o) /\ session = "open"
  /\ pc' = "u_start" /\ op' = o
  /\ UNCHANGED <<server, stream, disk, memory, ret, start, todo, got, last,
                 uidMap, msgno, nmsgs, born>>

\* A line for changes that only notes the flags that are set.
NoteFlag_OnlySet(uid, f, value) ==
  changes' = IF uid = 0 \/ ~value THEN changes ELSE Append(changes, <<"flag", uid, f, value>>)

\* A line for changes, when the message has a uid.
NoteFlag(uid, f, value) ==
  changes' = IF uid = 0 THEN changes ELSE Append(changes, <<"flag", uid, f, value>>)

\* Dis_SetFlagProc(): the flag goes to the master, or into changes; then it
\* goes to the local copy.
SetFlag ==
  /\ Issue("flag") /\ session = "open"
  /\ \E i \in 1..number, f \in Flags :
       LET uid == GetMasterUID(map, folder[i])
           value == f \notin folder[i].flags IN
       /\ IF uid # 0 /\ online
          THEN /\ Command(IF uid \in DOMAIN master
                            THEN [master EXCEPT ![uid] = With(@, f, value)] ELSE master)
               /\ UNCHANGED changes
          ELSE NoteFlag(uid, f, value) /\ UNCHANGED <<master, view, error>>
       /\ Parse([folder EXCEPT ![i].flags = With(@, f, value)])
  /\ UNCHANGED <<arrived, uidLast, online, broken, mappings, stateUid, session, map,
                 mapChanged, mapBuf, lastUid, diskfull, number, pc, args, born>>

\* CheckDeletion() that overlooks the last message.
CheckDeletion_OffByOne ==
  LET gone == {i \in 1..(number - 1) : "deleted" \in folder[i].flags}
      uids == {folder[i].uid : i \in gone} \cap DOMAIN map IN
  /\ changes' = changes \o SetToSeq({<<"delete", map[l]>> : l \in uids})
  /\ map' = Without(map, uids)
  /\ mapChanged' = (mapChanged \/ uids # {})

\* CheckDeletion(): what the local expunge is about to remove goes into
\* changes, and out of the map.
CheckDeletion ==
  LET gone == {i \in 1..number : "deleted" \in folder[i].flags}
      uids == {folder[i].uid : i \in gone} \cap DOMAIN map IN
  /\ changes' = changes \o SetToSeq({<<"delete", map[l]>> : l \in uids})
  /\ map' = Without(map, uids)
  /\ mapChanged' = (mapChanged \/ uids # {})

\* WriteMappings()
WriteMappings ==
  /\ mappings' = IF mapChanged THEN LinesOf(map) ELSE mappings
  /\ mapChanged' = FALSE

\* The local expunge.
ExpungeLocal ==
  LET f == Parsed(folder)
      kept == Selected(f, {i \in DOMAIN f : "deleted" \notin f[i].flags}) IN
  /\ folder' = kept /\ number' = Len(kept)
  /\ hdrLast' = hdrLast + Cardinality(Unparsed(folder)) /\ localLast' = hdrLast'

\* Dis_CloseProc(), with the option expunge_on_close or without.
Close ==
  /\ Issue("close") /\ session = "open"
  /\ \/ CheckDeletion /\ pc' = "c_local"
     \/ UNCHANGED <<changes, map, mapChanged>> /\ pc' = "c_map"
  /\ op' = "close"
  /\ UNCHANGED <<server, stream, folder, hdrLast, mappings, stateUid, session, localLast,
                 mapBuf, lastUid, diskfull, number, ret, start, todo, got, last, uidMap,
                 msgno, nmsgs, born>>

c_local ==
  /\ pc = "c_local"
  /\ ExpungeLocal
  /\ pc' = "c_map"
  /\ UNCHANGED <<server, stream, mappings, stateUid, changes, session, map, mapChanged,
                 mapBuf, lastUid, diskfull, args, born, calm, died, bounds>>

c_map ==
  /\ pc = "c_map"
  /\ WriteMappings /\ Gone
  /\ UNCHANGED <<server, folder, hdrLast, stateUid, changes, history, bounds>>

-----------------------------------------------------------------------------
(* DisDownloadMsgs(): called for the messages, among uids, after uid after   *)
(* and up to before; the caller goes on at back with the last uid.           *)

\* The range begins with the last message that is known.
Download_KnownToo(uids, after, before, back) ==
  /\ pc' = "d_search" /\ ret' = back /\ start' = after
  /\ todo' = {u \in uids : after <= u /\ u <= before}

Download(uids, after, before, back) ==
  /\ pc' = "d_search" /\ ret' = back /\ start' = after
  /\ todo' = {u \in uids : after < u /\ u <= before}

\* What the caller does with the uid it is given.
Return(uid) ==
  /\ pc' = ret
  /\ last' = IF ret = "s_loop" THEN uid ELSE last
  /\ lastUid' = IF ret = "u_state" THEN uid ELSE lastUid
  /\ start' = 0 /\ todo' = {} /\ got' = {} /\ ret' = "idle"

\* The two callers that pass on whether the disk is full are those of the folder.
TellsDisk == session = "open" /\ ret # "i_state"

\* Nothing is searched for in an empty master; a search that fails finds nothing.
d_search ==
  /\ pc = "d_search"
  /\ error' = (error \/ (broken /\ view # <<>>))
  /\ IF view = <<>> \/ broken \/ todo = {}
     THEN Return(uidLast)
     ELSE pc' = "d_next" /\ UNCHANGED <<ret, start, todo, got, last, lastUid>>
  /\ UNCHANGED <<server, view, uidLast, online, broken, disk, session, localLast, map,
                 mapChanged, mapBuf, diskfull, number, op, uidMap, msgno, nmsgs,
                 history, bounds>>

\* The line of uid u goes to the file mappings, and the new state to the file.
WriteLine_State(u) ==
  /\ localLast' = localLast + 1
  /\ mappings' = mappings \o Append(mapBuf, <<u, localLast'>>) /\ mapBuf' = <<>>
  /\ stateUid' = u

\* The line of uid u, with the local uid the message will get, goes to the file
\* mappings; the new state waits in state.tmp.
WriteLine(u) ==
  /\ localLast' = localLast + 1
  /\ mappings' = mappings \o Append(mapBuf, <<u, localLast'>>) /\ mapBuf' = <<>>
  /\ UNCHANGED stateUid

\* A message that is gone is asked for again.
d_next_Again ==
  /\ pc = "d_next" /\ todo # {} /\ ~broken
  /\ LET u == Min(todo) IN
       IF u \notin DOMAIN master                  \* it has been expunged: skipped
       THEN UNCHANGED <<todo, view, localLast, mappings, mapBuf, stateUid, got, pc>>
       ELSE /\ got' = master[u] /\ view' = [view EXCEPT ![u] = got']
            /\ WriteLine(u)
            /\ pc' = "d_append"
            /\ UNCHANGED todo
  /\ UNCHANGED <<server, uidLast, online, broken, error, folder, hdrLast, changes,
                 session, map, mapChanged, lastUid, diskfull, number, op, ret, start,
                 last, uidMap, msgno, nmsgs, history, bounds>>

\* The next message is fetched.
d_next ==
  /\ pc = "d_next" /\ todo # {} /\ ~broken
  /\ LET u == Min(todo) IN
       IF u \notin DOMAIN master                  \* it has been expunged: skipped
       THEN /\ todo' = todo \ {u}
            /\ UNCHANGED <<view, localLast, mappings, mapBuf, stateUid, got, pc>>
       ELSE /\ got' = master[u] /\ view' = [view EXCEPT ![u] = got']
            /\ WriteLine(u)
            /\ pc' = "d_append"
            /\ UNCHANGED todo
  /\ UNCHANGED <<server, uidLast, online, broken, error, folder, hdrLast, changes,
                 session, map, mapChanged, lastUid, diskfull, number, op, ret, start,
                 last, uidMap, msgno, nmsgs, history, bounds>>

\* All are fetched, or the connection turns out to be down.
d_done ==
  /\ pc = "d_next" /\ (todo = {} \/ broken)
  /\ error' = (error \/ todo # {})
  /\ Return(uidLast)
  /\ UNCHANGED <<server, view, uidLast, online, broken, disk, session, localLast, map,
                 mapChanged, mapBuf, diskfull, number, op, uidMap, msgno, nmsgs,
                 history, bounds>>

\* The disk is full.  Either the line of mappings fails and stays in stdio's
\* buffer, or state.tmp or the message fails and the line is cut off again.
\* The local uid is not taken back.
d_full ==
  /\ pc = "d_next" /\ todo # {} /\ ~broken /\ Faulty("full")
  /\ Min(todo) \in DOMAIN master
  /\ localLast' = localLast + 1
  /\ \/ UNCHANGED mapBuf
     \/ mapBuf' = Append(mapBuf, <<Min(todo), localLast'>>)
  /\ diskfull' = (diskfull \/ TellsDisk)
  /\ Return(start)
  /\ fulls' = fulls + 1 /\ calm' = FALSE
  /\ UNCHANGED <<server, stream, disk, session, map, mapChanged, number, op, uidMap,
                 msgno, nmsgs, born, died, ops, others, losses, crashes>>

\* The message is appended to the file folder.
d_append ==
  /\ pc = "d_append"
  /\ folder' = Append(folder, [uid |-> 0, msg |-> arrived[Min(todo)], flags |-> got])
  /\ pc' = "d_rename"
  /\ UNCHANGED <<server, stream, hdrLast, mappings, stateUid, changes, memory, args,
                 history, bounds>>

\* The map learns of the message under the uid the next one will get.
d_rename_NextUid ==
  /\ pc = "d_rename"
  /\ LET u == Min(todo) IN
       /\ stateUid' = u /\ uidLast' = u /\ todo' = todo \ {u}
       /\ map' = Put(map, localLast + 1, u)
  /\ diskfull' = (diskfull /\ ~TellsDisk)
  /\ got' = {} /\ pc' = "d_next"
  /\ UNCHANGED <<server, view, online, broken, error, folder, hdrLast, mappings, changes,
                 session, localLast, mapChanged, mapBuf, lastUid, number, op, ret, start,
                 last, uidMap, msgno, nmsgs, history, bounds>>

\* The new state takes the place of the old one, and memory follows.
d_rename ==
  /\ pc = "d_rename"
  /\ LET u == Min(todo) IN
       /\ stateUid' = u /\ uidLast' = u /\ todo' = todo \ {u}
       /\ map' = Put(map, localLast, u)
  /\ diskfull' = (diskfull /\ ~TellsDisk)
  /\ got' = {} /\ pc' = "d_next"
  /\ UNCHANGED <<server, view, online, broken, error, folder, hdrLast, mappings, changes,
                 session, localLast, mapChanged, mapBuf, lastUid, number, op, ret, start,
                 last, uidMap, msgno, nmsgs, history, bounds>>

-----------------------------------------------------------------------------
(* Dis_SyncFolder()                                                        *)

\* Apply deletion commands and expunge.
s_delete ==
  /\ pc = "s_delete"
  /\ LET gone == {changes[i][2] : i \in {j \in DOMAIN changes : changes[j][1] = "delete"}} IN
       IF gone = {} THEN UNCHANGED <<master, view, error>>
       ELSE Command(Expunged(Without(master, gone)))
  /\ pc' = "s_map"
  /\ UNCHANGED <<arrived, uidLast, online, broken, disk, memory, args, history, bounds>>

\* InitUidMap()
s_map ==
  /\ pc = "s_map"
  /\ uidMap' = DOMAIN view
  /\ error' = (error \/ (broken /\ ~online /\ view # <<>>))
  /\ pc' = "s_flags"
  /\ UNCHANGED <<server, view, uidLast, online, broken, disk, memory, op, ret, start, todo,
                 got, last, msgno, nmsgs, history, bounds>>

\* An error until here ends the sync: the master is closed, the changes stay.
s_abort ==
  /\ pc \in {"s_flags", "s_unlink"} /\ error
  /\ IF session = "batch" THEN Gone
     ELSE online' = FALSE /\ Idle /\ UNCHANGED <<view, uidLast, broken, error, memory>>
  /\ UNCHANGED <<server, disk, history, bounds>>

\* The value the changes give to flag f of uid u: the latest one.
FlagLines(u, f) ==
  {i \in DOMAIN changes : changes[i][1] = "flag" /\ changes[i][2] = u /\ changes[i][3] = f}
NewFlags(u) ==
  {f \in Flags : IF FlagLines(u, f) = {} THEN f \in master[u]
                 ELSE changes[Max(FlagLines(u, f))][4]}

\* Apply flag commands, to the messages that still exist ...
s_flags ==
  /\ pc = "s_flags" /\ ~error
  /\ IF \E u \in uidMap, f \in Flags : FlagLines(u, f) # {}
     THEN Command([u \in DOMAIN master |-> IF u \in uidMap THEN NewFlags(u) ELSE master[u]])
     ELSE UNCHANGED <<master, view, error>>
  /\ pc' = "s_unlink"
  /\ UNCHANGED <<arrived, uidLast, online, broken, disk, memory, args, history, bounds>>

\* ... and remove the changes file.
s_unlink ==
  /\ pc = "s_unlink" /\ ~error
  /\ changes' = <<>>
  /\ pc' = "s_download"
  /\ UNCHANGED <<server, stream, folder, hdrLast, mappings, stateUid, memory, args,
                 history, bounds>>

s_download ==
  /\ pc = "s_download"
  /\ nmsgs' = Len(folder) /\ msgno' = 1
  /\ Download(DOMAIN view, last, MaxUid(DOMAIN view), "s_loop")
  /\ UNCHANGED <<server, stream, disk, memory, op, got, last, uidMap, history, bounds>>

\* The local copy of message i gets the flags; the driver parses the file when
\* it has something to store.
SetLocal(i, flags) ==
  IF flags = folder[i].flags THEN UNCHANGED <<folder, hdrLast, localLast>>
  ELSE Parse([folder EXCEPT ![i].flags = flags])

\* The loop goes on while there are messages and no error.
Looping == pc = "s_loop" /\ msgno <= nmsgs /\ ~error

\* The flags of a message in the stream.  A connection that was kept has them
\* already; a new one fetches them, and what it cannot fetch has none.
FlagsNow(u) == IF online THEN view[u]
               ELSE IF u \in DOMAIN master /\ ~broken THEN master[u] ELSE {}

\* A message with a master uid: it is deleted when the master has deleted it,
\* else it gets the flags of the message that has its place in the stream.  A
\* place beyond the last one is fatal.
s_flagged ==
  /\ Looping
  /\ LET uid == GetMasterUID(map, folder[msgno])
         n == MsgNo(uidMap, uid) IN
       /\ uid # 0 /\ n <= Cardinality(DOMAIN view)
       /\ IF n = 0
          THEN /\ SetLocal(msgno, folder[msgno].flags \cup {"deleted"})
               /\ UNCHANGED error
          ELSE /\ SetLocal(msgno, FlagsNow(UidOf(DOMAIN view, n)))
               /\ error' = (broken /\ ~online)
  /\ msgno' = msgno + 1
  /\ UNCHANGED <<server, view, uidLast, online, broken, mappings, stateUid, changes,
                 session, map, mapChanged, mapBuf, lastUid, diskfull, number, pc, op, ret,
                 start, todo, got, last, uidMap, nmsgs, history, bounds>>

s_fatal ==
  /\ Looping
  /\ MsgNo(uidMap, GetMasterUID(map, folder[msgno])) > Cardinality(DOMAIN view)
  /\ Die

\* DisUploadMsg(): the message is appended to the master ...
Upload(m, back) ==
  /\ arrived' = IF broken THEN arrived ELSE Append(arrived, m.msg)
  /\ Command(Put(master, Len(arrived'), m.flags))
  /\ pc' = back

\* ... and looked for with the uid that follows the last one known, and no other.
\* Its own uid is the answer, and 0 when it is not found.
Found(m) ==
  IF ~broken /\ uidLast + 1 \in DOMAIN master /\ arrived[uidLast + 1] = m.msg
  THEN uidLast + 1 ELSE 0

\* The file learns of an upload and the map does not.
Uploaded_NoMap(uid, local) ==
  /\ mapBuf' = IF uid = 0 THEN mapBuf ELSE Append(mapBuf, <<uid, local>>)
  /\ uidLast' = IF uid = 0 THEN uidLast ELSE uid
  /\ UNCHANGED map

\* What DisUploadMsg() notes of a message it has found.
Uploaded(uid, local) ==
  IF uid = 0 THEN UNCHANGED <<mapBuf, map, uidLast>>
  ELSE /\ mapBuf' = Append(mapBuf, <<uid, local>>)
       /\ map' = Put(map, local, uid)
       /\ uidLast' = uid

\* A message without a master uid is uploaded.
s_upload ==
  /\ Looping /\ GetMasterUID(map, folder[msgno]) = 0
  /\ Upload(folder[msgno], "s_search")
  /\ UNCHANGED <<uidLast, online, broken, disk, memory, args, history, bounds>>

s_search ==
  /\ pc = "s_search"
  /\ LET uid == Found(folder[msgno]) IN
       Uploaded(uid, folder[msgno].uid) /\ last' = uid
  /\ error' = (error \/ broken)
  /\ mapChanged' = (mapChanged \/ session = "open")
  /\ msgno' = msgno + 1 /\ pc' = "s_loop"
  /\ UNCHANGED <<server, view, online, broken, disk, session, localLast, lastUid, diskfull,
                 number, op, ret, start, todo, got, uidMap, nmsgs, history, bounds>>

\* The loop is over: the mappings are flushed ...
s_flush ==
  /\ pc = "s_loop" /\ ~Looping
  /\ mappings' = mappings \o mapBuf /\ mapBuf' = <<>>
  /\ pc' = "s_state"
  /\ UNCHANGED <<server, stream, folder, hdrLast, stateUid, changes, session, localLast, map,
                 mapChanged, lastUid, diskfull, number, args, history, bounds>>

\* ... and the state file is left to the downloads.
s_state_Skipped ==
  /\ pc = "s_state"
  /\ pc' = "s_end"
  /\ UNCHANGED <<server, stream, disk, memory, args, history, bounds>>

\* ... and the state file is updated.
s_state ==
  /\ pc = "s_state"
  /\ stateUid' = last
  /\ pc' = "s_end"
  /\ UNCHANGED <<server, stream, folder, hdrLast, mappings, changes, memory, args, history,
                 bounds>>

\* A folder that is open goes on with an update.
s_end ==
  /\ pc = "s_end"
  /\ IF session = "batch" THEN Gone
     ELSE /\ lastUid' = last /\ pc' = "u_start"
          /\ UNCHANGED <<stream, session, localLast, map, mapChanged, mapBuf, diskfull,
                         number, args>>
  /\ UNCHANGED <<server, disk, history, bounds>>

-----------------------------------------------------------------------------
(* Dis_UpdateProc(), by way of RatUpdateFolder()                           *)

\* The master is expunged or checked, and its new messages are fetched when its
\* size is not what the folder's size and the expunges make it.
u_start ==
  /\ pc = "u_start"
  /\ IF online /\ ~error
     THEN /\ Command(IF op = "sync" THEN Expunged(master) ELSE master)
          /\ LET expunged == Cardinality(DOMAIN view \ DOMAIN view') IN
               IF ~error' /\ (Cardinality(DOMAIN view') # number - expunged \/ diskfull)
               THEN Download(DOMAIN view', lastUid, MaxUid(DOMAIN view'), "u_state")
               ELSE pc' = "u_net" /\ UNCHANGED <<ret, start, todo>>
     ELSE pc' = "u_check" /\ UNCHANGED <<master, view, error, ret, start, todo>>
  /\ UNCHANGED <<arrived, uidLast, online, broken, disk, memory, op, got, last, uidMap,
                 msgno, nmsgs, history, bounds>>

\* WriteState()
u_state ==
  /\ pc = "u_state"
  /\ mappings' = mappings \o mapBuf /\ mapBuf' = <<>>
  /\ stateUid' = lastUid
  /\ pc' = "u_net"
  /\ UNCHANGED <<server, stream, folder, hdrLast, changes, session, localLast, map,
                 mapChanged, lastUid, diskfull, number, args, history, bounds>>

\* Nobody looks whether the file state could be written: on a full disk it is
\* left empty.
state_full ==
  /\ pc \in {"s_state", "u_state", "i_state"} /\ Faulty("full")
  /\ mappings' \in {mappings, mappings \o mapBuf} /\ mapBuf' = <<>>
  /\ stateUid' = Unreadable
  /\ lastUid' = IF pc = "i_state" THEN last ELSE lastUid
  /\ pc' = CASE pc = "s_state" -> "s_end"
             [] pc = "u_state" -> "u_net"
             [] pc = "i_state" -> "u_start"
  /\ fulls' = fulls + 1 /\ calm' = FALSE
  /\ UNCHANGED <<server, stream, folder, hdrLast, changes, session, localLast, map,
                 mapChanged, diskfull, number, args, born, died, ops, others, losses,
                 crashes>>

\* After an error the master is closed.
u_net ==
  /\ pc = "u_net"
  /\ online' = ~error
  /\ pc' = "u_check"
  /\ UNCHANGED <<server, view, uidLast, broken, error, disk, memory, args, history, bounds>>

\* Before an expunge the deletions are noted ...
u_check ==
  /\ pc = "u_check"
  /\ IF op = "sync" /\ ~error THEN CheckDeletion /\ pc' = "u_map"
     ELSE pc' = "u_local" /\ UNCHANGED <<changes, map, mapChanged>>
  /\ UNCHANGED <<server, stream, folder, hdrLast, mappings, stateUid, session, localLast,
                 mapBuf, lastUid, diskfull, number, args, history, bounds>>

u_map ==
  /\ pc = "u_map"
  /\ WriteMappings
  /\ pc' = "u_local"
  /\ UNCHANGED <<server, stream, folder, hdrLast, stateUid, changes, session, localLast, map,
                 mapBuf, lastUid, diskfull, number, args, history, bounds>>

\* ... and the local mailbox is updated.  A folder that went online is given its
\* connection now that the sync is done.
u_local ==
  /\ pc = "u_local"
  /\ IF op = "sync" THEN ExpungeLocal
     ELSE Ping(folder) /\ number' = Len(folder)
  /\ online' = (online \/ op = "online")
  /\ Idle
  /\ UNCHANGED <<server, view, uidLast, broken, error, mappings, stateUid, changes, session,
                 map, mapChanged, mapBuf, lastUid, diskfull, history, bounds>>

-----------------------------------------------------------------------------
(* Dis_InsertProc(), by way of RatFolderInsert()                           *)

\* The message is appended to the local mailbox; flags do not come with it.
Insert ==
  /\ Issue("insert") /\ session = "open" /\ born < MaxMsgs
  /\ LET grown == Append(folder, [uid |-> 0, msg |-> born + 1, flags |-> {}]) IN
       IF number = 0 THEN Ping(grown)
       ELSE folder' = grown /\ UNCHANGED <<hdrLast, localLast>>
  /\ born' = born + 1
  /\ msgno' = localLast + 1 /\ op' = "insert"
  /\ pc' = IF online THEN "i_upload" ELSE "u_start"
  /\ UNCHANGED <<server, stream, mappings, stateUid, changes, session, map, mapChanged,
                 mapBuf, lastUid, diskfull, number, ret, start, todo, got, last, uidMap,
                 nmsgs>>

i_upload ==
  /\ pc = "i_upload"
  /\ Upload(folder[Len(folder)], "i_search")
  /\ UNCHANGED <<uidLast, online, broken, disk, memory, args, history, bounds>>

i_search ==
  /\ pc = "i_search"
  /\ LET uid == Found(folder[Len(folder)]) IN
       Uploaded(uid, msgno) /\ last' = uid
  /\ mapChanged' = TRUE /\ pc' = "i_ping"
  /\ error' = (error \/ broken)
  /\ UNCHANGED <<server, view, online, broken, disk, session, localLast, lastUid, diskfull,
                 number, op, ret, start, todo, got, uidMap, msgno, nmsgs, history, bounds>>

\* mail_ping(); what came before the message is fetched when it came later than
\* was to be expected.
i_ping ==
  /\ pc = "i_ping" /\ ~broken
  /\ Command(master)
  /\ IF lastUid + 1 < last THEN Download(DOMAIN view', lastUid + 1, last, "i_state")
     ELSE pc' = "i_state" /\ UNCHANGED <<ret, start, todo>>
  /\ UNCHANGED <<arrived, uidLast, online, broken, disk, memory, op, got, last, uidMap,
                 msgno, nmsgs, history, bounds>>

\* When the ping fails the master is forgotten, and used.
i_fatal == pc = "i_ping" /\ broken /\ Die

i_state ==
  /\ pc = "i_state"
  /\ mappings' = mappings \o mapBuf /\ mapBuf' = <<>>
  /\ lastUid' = last /\ stateUid' = last
  /\ pc' = "u_start"
  /\ UNCHANGED <<server, stream, folder, hdrLast, changes, session, localLast, map,
                 mapChanged, diskfull, number, args, history, bounds>>

-----------------------------------------------------------------------------

Init ==
  /\ master = <<>> /\ arrived = <<>>
  /\ view = <<>> /\ uidLast = 0 /\ online = FALSE /\ broken = FALSE /\ error = FALSE
  /\ folder = <<>> /\ hdrLast = 0 /\ mappings = <<>> /\ stateUid = 0
  /\ changes = <<>>
  /\ session = "closed" /\ localLast = 0 /\ map = <<>> /\ mapChanged = FALSE
  /\ mapBuf = <<>> /\ lastUid = 0 /\ diskfull = FALSE /\ number = 0
  /\ pc = "idle" /\ op = "none" /\ ret = "idle" /\ start = 0 /\ todo = {}
  /\ got = {} /\ last = 0 /\ uidMap = {} /\ msgno = 0 /\ nmsgs = 0
  /\ born = 0 /\ calm = TRUE /\ died = FALSE
  /\ ops = 0 /\ others = 0 /\ losses = 0 /\ fulls = 0 /\ crashes = 0

World == Deliver \/ OtherClient \/ Lose \/ Crash \/ CrashWriting
User  == Open \/ NetSync \/ GoOnline \/ GoOffline \/ SyncRefused \/ StartUpdate("update")
           \/ StartUpdate("sync") \/ SetFlag \/ Close \/ Insert
Steps == c_local \/ c_map \/ d_search \/ d_next \/ d_done \/ d_full \/ d_append \/ d_rename
           \/ s_delete \/ s_map \/ s_abort \/ s_flags \/ s_unlink \/ s_download
           \/ s_flagged \/ s_fatal \/ s_upload \/ s_search \/ s_flush \/ s_state \/ s_end
           \/ u_start \/ u_state \/ state_full \/ u_net \/ u_check \/ u_map \/ u_local
           \/ i_upload \/ i_search \/ i_ping \/ i_fatal \/ i_state

Next == World \/ User \/ Steps

Spec == Init /\ [][Next]_vars

-----------------------------------------------------------------------------
(* Properties                                                              *)

Labels == {"idle", "c_local", "c_map", "d_search", "d_next", "d_append", "d_rename",
           "s_delete", "s_map", "s_flags", "s_unlink", "s_download", "s_loop", "s_search",
           "s_state", "s_end", "u_start", "u_state", "u_net", "u_check", "u_map", "u_local",
           "i_upload", "i_search", "i_ping", "i_state"}

\* The map in force: in memory, or in the file when the folder is closed.
TheMap == IF session = "closed" THEN ReadMappings(mappings) ELSE map

\* Every variable has its type, and the master and its stream know no uid that
\* was never given out.
TypeOK ==
  /\ master \in [DOMAIN master -> SUBSET Flags] /\ DOMAIN master \subseteq DOMAIN arrived
  /\ \A u \in DOMAIN arrived : arrived[u] \in 1..born
  /\ DOMAIN view \subseteq DOMAIN arrived /\ uidLast \in 0..Len(arrived)
  /\ {online, broken, error, mapChanged, diskfull, calm, died} \subseteq BOOLEAN
  /\ \A i \in DOMAIN folder : /\ folder[i].uid \in 0..hdrLast /\ folder[i].msg \in 1..born
                              /\ folder[i].flags \subseteq Flags
  /\ stateUid \in 0..Len(arrived) \cup {Unreadable} /\ lastUid \in 0..Len(arrived)
  /\ session \in {"closed", "open", "batch"} /\ localLast \in Nat
  /\ \A l \in DOMAIN TheMap : TheMap[l] \in DOMAIN arrived
  /\ number \in 0..Len(folder)
  /\ pc \in Labels /\ ret \in Labels
  /\ todo \subseteq DOMAIN arrived /\ got \subseteq Flags /\ last \in 0..Len(arrived)

\* A local message that is mapped to a uid of the master is the message of
\* that uid: what is flagged, deleted or taken for uploaded is the right one.
\* DisDownloadMsgs() maps a message right after it has appended it.  A message
\* that finds the disk full is skipped, and the next one is taken for it.
MapSound ==
  LET f == Parsed(folder) IN
  pc # "d_rename" /\ fulls = 0 =>
  \A i \in DOMAIN f :
    f[i].uid \in DOMAIN TheMap =>
      LET u == TheMap[f[i].uid] IN u \in DOMAIN arrived /\ arrived[u] = f[i].msg

\* Nothing has gone wrong, and no other client was near when a message was uploaded.
Undisturbed == losses + fulls + crashes = 0 /\ ("insert" \in Ops => others = 0)

\* Neither copy holds a message twice.  An upload that the program or the
\* connection does not survive, or that an arrival interrupts, is repeated.
NoDuplicates ==
  fulls + crashes = 0 /\ ("insert" \in Ops => Undisturbed) =>
  /\ \A i, j \in DOMAIN folder : folder[i].msg = folder[j].msg => i = j
  /\ \A u, v \in DOMAIN master : arrived[u] = arrived[v] => u = v

\* What the state file says has been fetched from the master is in the local
\* copy, or the master is to be told that it was deleted there.  A connection that
\* breaks in the search for new messages leaves them behind, and a full disk puts
\* a line in mappings for a message that is not there.
Accounted ==
  losses + fulls = 0 =>
  \A u \in DOMAIN master :
    u <= stateUid => \/ \E i \in DOMAIN folder : folder[i].msg = arrived[u]
                     \/ <<"delete", u>> \in ToSet(changes)

\* The copies mirror each other: each message of the master has one local copy,
\* with its flags, and the local messages that the master has not got carry the
\* flag that removes them with the next expunge.
Mirrored ==
  LET f == Parsed(folder)
      copies(u) == {i \in DOMAIN f : GetMasterUID(map, f[i]) = u} IN
  /\ \A u \in DOMAIN master :
       \E i \in DOMAIN f : copies(u) = {i} /\ f[i].flags = master[u]
  /\ \A i \in DOMAIN f :
       GetMasterUID(map, f[i]) \notin DOMAIN master => "deleted" \in f[i].flags

\* Dis_SyncFolder() over a new connection that nothing interferes with ends with
\* copies that mirror each other, unless an earlier operation was disturbed.
SyncMirrors ==
  (pc = "s_end" /\ calm /\ ~online /\ Undisturbed) => Mirrored

\* The state never goes back, with a program that lives and room on the disk:
\* nothing is fetched a second time.
StateAdvances == [][(crashes + fulls)' = 0 => stateUid' >= stateUid]_vars

\* What a local expunge removes is out of the map before: CheckDeletion() has
\* noted it for the master, with a connection that holds.
DeletionsNoted ==
  [][losses = 0 => \A i \in DOMAIN folder :
       (\A j \in DOMAIN folder' : folder'[j].msg # folder[i].msg) =>
         folder[i].uid \notin DOMAIN map]_vars

\* A flag the user sets on a message of the master reaches the master, or is
\* noted in changes, with a connection that holds.
FlagsNoted ==
  [][losses = 0 => \A i \in DOMAIN folder, f \in Flags :
       (/\ ops' # ops /\ session = "open" /\ i \in DOMAIN folder'
        /\ (f \in folder'[i].flags) # (f \in folder[i].flags)) =>
         LET u == GetMasterUID(map, folder[i]) IN
           \/ u \notin DOMAIN master'
           \/ (f \in master'[u]) = (f \in folder'[i].flags)
           \/ changes' = Append(changes, <<"flag", u, f, f \in folder'[i].flags>>)]_vars

\* Every operation comes to its end, whatever the loops meet: messages that have
\* gone from the master, a connection that breaks, a full disk.
Returns == pc # "idle" ~> pc = "idle"

FairSpec == Spec /\ WF_vars(Steps)

-----------------------------------------------------------------------------
(* What the code does not do.                                              *)

\* MsgNo() gives the place of a uid in the stream, or 0 when it is not there.
MsgNoCurrent ==
  Looping => LET uid == GetMasterUID(map, folder[msgno])
                 n == MsgNo(uidMap, uid) IN
               n # 0 => n \in 1..Cardinality(DOMAIN view) /\ UidOf(DOMAIN view, n) = uid

\* The loss of the connection does not make the program follow a null pointer.
Survives == ~died

\* A folder that is closed can be synchronised the next time: its "State against
\* master" (ratDisFolder.c:20) is there to be read.
Resumes == session = "closed" => stateUid # Unreadable

\* After an update with a connection that nothing interfered with, the folder
\* has got every message of the master.
UpdateFetches ==
  (pc = "u_local" /\ op = "update" /\ calm /\ online) =>
    \A u \in DOMAIN master : \E i \in DOMAIN folder : folder[i].msg = arrived[u]

=============================================================================
