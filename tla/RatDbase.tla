------------------------------ MODULE RatDbase ------------------------------
(***************************************************************************)
(* The message database of TkRat (lib/ratDbase.c): a directory shared by   *)
(* any number of agents (processes), holding                               *)
(*                                                                         *)
(*   index          one entry per message                                  *)
(*   index.info     how many of them count                                 *)
(*   index.changes  a log of what happened since the index was written     *)
(*   lock           an exclusive lock, taken around most operations        *)
(*   rlock.IDENT    one per agent that has the database open               *)
(*   dbase/         one file per message                                   *)
(*                                                                         *)
(* Every agent keeps its own copy of the entries in memory and brings it   *)
(* up to date by replaying the log (Sync).  The agent that finds the log   *)
(* long enough, and no fresh rlock of another agent, compacts: it writes   *)
(* the entries that are not deleted to a new index and removes the log.    *)
(*                                                                         *)
(* The user may have a process verify the database, and mend it            *)
(* (RatDbCheck()), while the others go on using it.                        *)
(*                                                                         *)
(* An agent is one incarnation of a process: after its exit or its crash   *)
(* the user starts another one, whose pid makes another IDENT.             *)
(*                                                                         *)
(* Abstractions: an entry is the message, whether its status holds 'D',    *)
(* its keywords, and whether the agent saw it deleted (FROM = NULL).       *)
(* Offsets and sizes in the index and in the log count entries and         *)
(* records, not bytes; indices start at 1.                                 *)
(***************************************************************************)
EXTENDS Integers, Sequences, FiniteSets

CONSTANTS
  Agents,      \* the processes that ever open the database
  Msgs,        \* the messages that may be inserted
  Keywords,    \* the values of the keywords field
  NoKeywords,  \* the value an inserted message has
  LostMessage, \* the value of an entry made up for a file without one
  None,        \* no agent: the lock file does not exist
  NoMsg,       \* no message
  Threshold,   \* log records that make Sync compact (20 in the code)
  Ops,         \* the operations the users issue
  MaxOps,      \* bound: operations that write to the log, verifications
  MaxTime,     \* bound: periods of UPDATE_INTERVAL that pass
  MaxCrashes,  \* bound: processes that die without cleaning up
  Faults,      \* BOOLEAN: may an I/O call fail?
  EmptyStatus  \* BOOLEAN: the mark 'D' is the only flag, so that a status
               \* without it is the empty string

ASSUME ConstantsAssumption ==
  /\ None \notin Agents
  /\ NoMsg \notin Msgs
  /\ NoKeywords \in Keywords /\ LostMessage \in Keywords
  /\ Threshold \in Nat \ {0}
  /\ MaxOps \in Nat /\ MaxTime \in Nat /\ MaxCrashes \in Nat
  /\ Faults \in BOOLEAN /\ EmptyStatus \in BOOLEAN

VARIABLES
  index,        \* the entries of the file index
  info,         \* the count in index.info
  changes,      \* the records of index.changes; <<>> when there is none
  files,        \* the messages that have a file under dbase/
  lock,         \* the agent whose lock file exists, or None
  rlock,        \* the agents whose rlock file exists
  age,          \* periods since the rlock file of an agent was touched
  armed,        \* the agents whose Update() timer is armed
  pc,           \* where each agent is
  ret,          \* where the call of Sync under way returns to
  pos,          \* loop position or file offset of the operation under way
  arg,          \* the message RatDbInsert is working on
  work,         \* the local variables of the RatDbCheck under way
  isRead,       \* static isRead
  mem,          \* static entryPtr[0..numRead-1]
  changeSize,   \* static changeSize
  numChanges,   \* static numChanges
  needRewrite,  \* static needRewrite
  stale,        \* static stale of Sync()
  inserted,     \* history: messages whose insertion succeeded
  condemned,    \* history: messages some agent wrote a deletion of
  ops, clock, crashes    \* bounds

disk    == <<index, info, changes, files>>
locks   == <<lock, rlock, age, armed>>
locals  == <<pos, arg, work>>
control == <<pc, ret, locals>>
memory  == <<isRead, mem, changeSize, numChanges, needRewrite, stale>>
history == <<inserted, condemned>>
bounds  == <<ops, clock, crashes>>
vars    == <<disk, locks, control, memory, history, bounds>>

-----------------------------------------------------------------------------
(* Types *)

Entry == [msg : Msgs, del : BOOLEAN, kw : Keywords, gone : BOOLEAN]

\* The lines of index.changes: 'a OFFSET', 'd INDEX', 's INDEX STATUS' and
\* 'k 0 {INDEXES KEYWORDS EX_TIME EX_TYPE}'.
Record == [op : {"a"}, at : Nat]
     \cup [op : {"d"}, at : Nat]
     \cup [op : {"s"}, at : Nat, del : BOOLEAN]
     \cup [op : {"k"}, at : SUBSET Nat, kw : Keywords]

RlockTimeout == 3   \* RLOCK_TIMEOUT is three times UPDATE_INTERVAL

\* What a verification knows:
\*   fix      the argument
\*   alone    history: nobody else had the database open at the start
\*   items    hash table items: the messages that have a file
\*   counted  indexInfo: the entries index.info and the log account for; then j
\*   status   hash table status: the statuses in the log, by index
\*   fresh    the entries still to be written to the index
Work == [fix : BOOLEAN, alone : BOOLEAN, items : SUBSET Msgs, counted : Nat,
         status : SUBSET [at : Nat, del : BOOLEAN], fresh : SUBSET Entry]

NoWork == [fix |-> FALSE, alone |-> FALSE, items |-> {}, counted |-> 0,
           status |-> {}, fresh |-> {}]

\* Where an agent can be.  In a state of Exclusive it is between a call of
\* Lock() and the matching Unlock(), outside Sync().
Reading   == {"r_info", "r_index"}
Verifying == {"v_info", "v_files", "v_changes", "v_index", "v_write", "v_unlink"}
Exclusive == Reading \cup Verifying \cup {"i_file", "i_log", "unlock", "restart"}
Syncing   == {"sync", "apply", "c_files", "c_index", "c_info", "c_unlink"}
PCs       == {"idle", "dead"} \cup Exclusive \cup Syncing

-----------------------------------------------------------------------------
(* The initial database is the empty one that Read() creates. *)

Init ==
  /\ index = <<>> /\ info = 0 /\ changes = <<>> /\ files = {}
  /\ lock = None /\ rlock = {} /\ armed = {}
  /\ age = [a \in Agents |-> 0]
  /\ pc = [a \in Agents |-> "idle"]
  /\ ret = [a \in Agents |-> "idle"]
  /\ pos = [a \in Agents |-> 0]
  /\ arg = [a \in Agents |-> NoMsg]
  /\ work = [a \in Agents |-> NoWork]
  /\ isRead = [a \in Agents |-> FALSE]
  /\ mem = [a \in Agents |-> <<>>]
  /\ changeSize = [a \in Agents |-> 0]
  /\ numChanges = [a \in Agents |-> 0]
  /\ needRewrite = [a \in Agents |-> FALSE]
  /\ stale = [a \in Agents |-> 0]
  /\ inserted = {} /\ condemned = {}
  /\ ops = 0 /\ clock = 0 /\ crashes = 0

Goto(a, label) == pc' = [pc EXCEPT ![a] = label]

\* Sync() returns: to Unlock() when its caller holds the lock.
Return(a) == Goto(a, ret[a])

\* Lock() without O_EXCL.
Lock_NoExcl(a) == lock' = a

\* Lock(): open(O_CREAT|O_EXCL), retried every two seconds while the file
\* exists.  A retry changes nothing, so waiting is not an action.
Lock(a) == lock = None /\ lock' = a

\* A locked operation starts with what its first disk write leaves behind.
Enter(a, label) ==
  /\ Lock(a)
  /\ Goto(a, label)
  /\ ret' = [ret EXCEPT ![a] = "unlock"]

Idle(a) == pc[a] = "idle"

\* An operation on an open database that adds to the log, within the bound.
Operation(a, op) ==
  /\ op \in Ops
  /\ Idle(a) /\ isRead[a]
  /\ ops < MaxOps /\ ops' = ops + 1

Unlock(a) ==
  /\ pc[a] = "unlock"
  /\ lock' = None
  /\ Goto(a, "idle")
  /\ UNCHANGED <<disk, rlock, age, armed, ret, locals, memory, history, bounds>>

-----------------------------------------------------------------------------
(* Read(): the first operation of an agent opens the database.             *)

\* The lock, the rlock file (which open() does not touch when it exists) and
\* the timer for Update().
ReadLock(a) ==
  /\ Idle(a) /\ ~isRead[a]
  /\ Enter(a, "r_info")
  /\ rlock' = rlock \cup {a}
  /\ age' = [age EXCEPT ![a] = IF a \in rlock THEN @ ELSE 0]
  /\ armed' = armed \cup {a}
  /\ UNCHANGED <<disk, locals, memory, history, bounds>>

ReadInfo(a) ==
  /\ pc[a] = "r_info"
  /\ pos' = [pos EXCEPT ![a] = info]
  /\ Goto(a, "r_index")
  /\ UNCHANGED <<disk, locks, ret, arg, work, memory, history, bounds>>

\* The first numRead entries of the index, then Sync(interp, 0).
ReadIndex(a) ==
  /\ pc[a] = "r_index"
  /\ pos[a] <= Len(index)
  /\ mem' = [mem EXCEPT ![a] = SubSeq(index, 1, pos[a])]
  /\ isRead' = [isRead EXCEPT ![a] = TRUE]
  /\ Goto(a, "sync")
  /\ UNCHANGED <<disk, locks, ret, locals, changeSize, numChanges,
                 needRewrite, stale, history, bounds>>

\* "error in index-file": the rlock is removed and the operation fails.
ReadIndexError(a) ==
  /\ pc[a] = "r_index"
  /\ pos[a] > Len(index) /\ index # <<>>
  /\ rlock' = rlock \ {a}
  /\ Goto(a, "unlock")
  /\ UNCHANGED <<disk, lock, age, armed, ret, locals, memory, history, bounds>>

\* An empty index is not read, whatever index.info says: the entries counted
\* there are memory nobody has written, and the agent dies when it uses one,
\* in Sync() or after it has let the lock go.
ReadIndexUnwritten(a) ==
  /\ pc[a] = "r_index"
  /\ pos[a] > 0 /\ index = <<>>
  /\ lock' \in {a, None}
  /\ armed' = armed \ {a}
  /\ Goto(a, "dead")
  /\ UNCHANGED <<disk, rlock, age, ret, locals, memory, history, bounds>>

-----------------------------------------------------------------------------
(* Sync(interp, 0)                                                         *)

\* stat() of the log.  Nothing is read when it is not longer than changeSize.
SyncStat(a) ==
  /\ pc[a] = "sync"
  /\ IF changeSize[a] >= Len(changes)
       THEN /\ Return(a)
            /\ UNCHANGED <<pos, changeSize>>
       ELSE /\ pos' = [pos EXCEPT ![a] = changeSize[a]]
            /\ changeSize' = [changeSize EXCEPT ![a] = Len(changes)]
            /\ Goto(a, "apply")
  /\ UNCHANGED <<disk, locks, ret, arg, work, isRead, mem, numChanges,
                 needRewrite, stale, history, bounds>>

\* Is a record one that the loop carries out?  'd' and 's' with an index the
\* agent does not have are counted and skipped.
InRange(a, r) == r.at \in 1..Len(mem[a])

\* The memory of agent a after record r of the log.
AfterRecord(a, r) ==
  CASE r.op = "a" -> Append(mem[a], index[r.at])
    [] r.op = "d" /\ InRange(a, r) -> [mem[a] EXCEPT ![r.at].gone = TRUE]
    [] r.op = "s" /\ InRange(a, r) -> [mem[a] EXCEPT ![r.at].del = r.del]
    [] r.op = "k" -> [i \in 1..Len(mem[a]) |->
                        IF i \in r.at THEN [mem[a][i] EXCEPT !.kw = r.kw]
                                      ELSE mem[a][i]]
    [] OTHER -> mem[a]

\* 's INDEX ' with nothing behind it: scanf skips the end of the line too.
Blank(r) == EmptyStatus /\ r.op = "s" /\ ~r.del

\* One turn of the loop over the records from the old changeSize to the end
\* of the file.
SyncApply(a) ==
  /\ pc[a] = "apply"
  /\ pos[a] < Len(changes)
  /\ LET r == changes[pos[a] + 1] IN
       /\ ~Blank(r)
       /\ r.op = "a" => r.at \in 1..Len(index)
       /\ mem' = [mem EXCEPT ![a] = AfterRecord(a, r)]
       /\ needRewrite' = [needRewrite EXCEPT ![a] =
                            @ \/ (r.op \in {"d", "s"} /\ InRange(a, r))]
  /\ numChanges' = [numChanges EXCEPT ![a] = @ + 1]
  /\ pos' = [pos EXCEPT ![a] = @ + 1]
  /\ UNCHANGED <<disk, locks, pc, ret, arg, work, isRead, changeSize, stale,
                 history, bounds>>

\* May a line of the log, taken for a status, hold a 'D'?
MarksIn(r) == CASE r.op = "s" -> {r.del}
                [] r.op = "k" -> BOOLEAN
                [] OTHER      -> {FALSE}

\* A blank status: the line after it is read as the status, and its own change
\* is not made.
SyncSwallow(a) ==
  /\ pc[a] = "apply"
  /\ pos[a] + 1 < Len(changes)
  /\ LET r == changes[pos[a] + 1] IN
       /\ Blank(r)
       /\ \E del \in MarksIn(changes[pos[a] + 2]) :
            mem' = [mem EXCEPT ![a] = AfterRecord(a, [r EXCEPT !.del = del])]
       /\ needRewrite' = [needRewrite EXCEPT ![a] = @ \/ InRange(a, r)]
  /\ numChanges' = [numChanges EXCEPT ![a] = @ + 1]
  /\ pos' = [pos EXCEPT ![a] = @ + 2]
  /\ UNCHANGED <<disk, locks, pc, ret, arg, work, isRead, changeSize, stale,
                 history, bounds>>

\* A blank status at the end of the log is taken for the end.
SyncBlankEnd(a) ==
  /\ pc[a] = "apply"
  /\ pos[a] + 1 = Len(changes)
  /\ Blank(changes[pos[a] + 1])
  /\ pos' = [pos EXCEPT ![a] = @ + 1]
  /\ UNCHANGED <<disk, locks, pc, ret, arg, work, memory, history, bounds>>

\* An 'a' record with no entry at its offset: Sync() gives up, and its
\* callers that hold the lock ignore the result.
SyncError(a) ==
  /\ pc[a] = "apply"
  /\ pos[a] < Len(changes)
  /\ changes[pos[a] + 1].op = "a"
  /\ changes[pos[a] + 1].at \notin 1..Len(index)
  /\ numChanges' = [numChanges EXCEPT ![a] = @ + 1]
  /\ Return(a)
  /\ UNCHANGED <<disk, locks, ret, locals, isRead, mem, changeSize,
                 needRewrite, stale, history, bounds>>

\* IsRlocked(): the rlock files of other agents, old ones and fresh ones.
\* readdir() finds them in any order, old ones are unlinked until a fresh
\* one is met.
OldRlocks(a)   == {b \in rlock \ {a} : age[b] >= RlockTimeout}
FreshRlocks(a) == (rlock \ {a}) \ OldRlocks(a)

\* SyncEnd() that does not look for rlock files.
SyncEnd_NoIsRlocked(a) ==
  /\ pc[a] = "apply"
  /\ pos[a] >= Len(changes)
  /\ IF numChanges[a] < Threshold
       THEN Return(a)
       ELSE Goto(a, IF needRewrite[a] THEN "c_files" ELSE "c_info")
  /\ UNCHANGED <<disk, locks, ret, locals, memory, history, bounds>>

\* The end of the log: compact when it is long enough and nobody else has the
\* database open.
SyncEnd(a) ==
  /\ pc[a] = "apply"
  /\ pos[a] >= Len(changes)
  /\ IF numChanges[a] < Threshold
       THEN Return(a) /\ UNCHANGED rlock
       ELSE IF FreshRlocks(a) # {}
         THEN Return(a) /\ \E S \in SUBSET OldRlocks(a) : rlock' = rlock \ S
         ELSE /\ Goto(a, IF needRewrite[a] THEN "c_files" ELSE "c_info")
              /\ rlock' = rlock \ OldRlocks(a)
  /\ UNCHANGED <<disk, lock, age, armed, ret, locals, memory, history, bounds>>

LiveAt(m) == {i \in 1..Len(m) : ~m[i].gone}

\* The listings of a set of indices in increasing order (there is one).
Ascending(S) ==
  {f \in [1..Cardinality(S) -> S] :
     \A i, j \in 1..Cardinality(S) : i < j => f[i] < f[j]}

\* CompactFiles() that removes the files of marked entries.
CompactFiles_Marked(a) ==
  /\ pc[a] = "c_files"
  /\ files' = files \ {mem[a][i].msg : i \in {j \in 1..Len(mem[a]) : mem[a][j].del}}
  /\ Goto(a, "c_index")
  /\ UNCHANGED <<index, info, changes, locks, ret, locals, memory, history,
                 bounds>>

\* While index.new is written the files of the deleted entries are removed.
CompactFiles(a) ==
  /\ pc[a] = "c_files"
  /\ files' = files \ {mem[a][i].msg : i \in 1..Len(mem[a]) \ LiveAt(mem[a])}
  /\ Goto(a, "c_index")
  /\ UNCHANGED <<index, info, changes, locks, ret, locals, memory, history,
                 bounds>>

\* CompactIndex() that compacts the entries in memory as well.
CompactIndex_CompactsMemory(a) ==
  /\ pc[a] = "c_index"
  /\ \E f \in Ascending(LiveAt(mem[a])) :
       /\ index' = [i \in 1..Cardinality(LiveAt(mem[a])) |-> mem[a][f[i]]]
       /\ mem' = [mem EXCEPT ![a] = index']
  /\ Goto(a, "c_info")
  /\ UNCHANGED <<info, changes, files, locks, ret, locals, isRead, changeSize,
                 numChanges, needRewrite, stale, history, bounds>>

\* index.new takes the place of the index: every entry in memory that is not
\* deleted.  The memory itself keeps the deleted ones.
CompactIndex(a) ==
  /\ pc[a] = "c_index"
  /\ \E f \in Ascending(LiveAt(mem[a])) :
       index' = [i \in 1..Cardinality(LiveAt(mem[a])) |-> mem[a][f[i]]]
  /\ stale' = [stale EXCEPT ![a] = Len(mem[a]) - Cardinality(LiveAt(mem[a]))]
  /\ Goto(a, "c_info")
  /\ UNCHANGED <<info, changes, files, locks, ret, locals, isRead, mem,
                 changeSize, numChanges, needRewrite, history, bounds>>

CompactInfo(a) ==
  /\ pc[a] = "c_info"
  /\ info' = Len(mem[a]) - stale[a]
  /\ Goto(a, "c_unlink")
  /\ UNCHANGED <<index, changes, files, locks, ret, locals, memory, history,
                 bounds>>

\* The log is removed; when another agent did so first, the error leaves the
\* counters as they are.
CompactUnlink(a) ==
  /\ pc[a] = "c_unlink"
  /\ changes' = <<>>
  /\ IF changes = <<>>
       THEN UNCHANGED <<changeSize, numChanges, needRewrite>>
       ELSE /\ changeSize' = [changeSize EXCEPT ![a] = 0]
            /\ numChanges' = [numChanges EXCEPT ![a] = 0]
            /\ needRewrite' = [needRewrite EXCEPT ![a] = FALSE]
  /\ Return(a)
  /\ UNCHANGED <<index, info, files, locks, ret, locals, isRead, mem, stale,
                 history, bounds>>

\* index.new cannot be created: Sync() gives up before it has changed a file.
CompactFail(a) ==
  /\ Faults
  /\ pc[a] = "c_files"
  /\ Return(a)
  /\ UNCHANGED <<disk, locks, ret, locals, memory, history, bounds>>

\* index.new cannot be completed or moved, or index.info not opened.  The files
\* are those that a death here would leave behind, so it counts as one.
CompactBreaks(a) ==
  /\ Faults
  /\ pc[a] \in {"c_index", "c_info"}
  /\ crashes < MaxCrashes /\ crashes' = crashes + 1
  /\ Return(a)
  /\ UNCHANGED <<disk, locks, ret, locals, memory, history, ops, clock>>

-----------------------------------------------------------------------------
(* The operations.  Lock() and the write that follows it are one step: no  *)
(* other agent can tell them apart.                                        *)

\* RatDbInsert(), up to the new entry at the end of the index.
InsertIndex(a, m) ==
  /\ Operation(a, "insert")
  /\ m \notin inserted \cup {arg[b] : b \in Agents}
  /\ Enter(a, "i_file")
  /\ pos' = [pos EXCEPT ![a] = Len(index)]
  /\ arg' = [arg EXCEPT ![a] = m]
  /\ index' = Append(index, [msg |-> m, del |-> FALSE, kw |-> NoKeywords,
                             gone |-> FALSE])
  /\ UNCHANGED <<info, changes, files, rlock, age, armed, work, memory, history,
                 clock, crashes>>

\* The message file.
InsertFile(a) ==
  /\ pc[a] = "i_file"
  /\ files' = files \cup {arg[a]}
  /\ Goto(a, "i_log")
  /\ UNCHANGED <<index, info, changes, locks, ret, locals, memory, history,
                 bounds>>

\* The 'a' record.
InsertChanges(a) ==
  /\ pc[a] = "i_log"
  /\ changes' = Append(changes, [op |-> "a", at |-> pos[a] + 1])
  /\ inserted' = inserted \cup {arg[a]}
  /\ arg' = [arg EXCEPT ![a] = NoMsg]
  /\ Goto(a, "sync")
  /\ UNCHANGED <<index, info, files, locks, ret, pos, work, memory, condemned,
                 bounds>>

\* "losing" without the truncation of the index.
InsertFail_NoTruncate(a) ==
  /\ Faults
  /\ pc[a] \in {"i_file", "i_log"}
  /\ files' = files \ {arg[a]}
  /\ arg' = [arg EXCEPT ![a] = NoMsg]
  /\ Goto(a, "unlock")
  /\ UNCHANGED <<index, info, changes, locks, ret, pos, work, memory, history,
                 bounds>>

\* "losing" without the call of Unlock().
InsertFail_NoUnlock(a) ==
  /\ Faults
  /\ pc[a] \in {"i_file", "i_log"}
  /\ index' = SubSeq(index, 1, IF pos[a] < Len(index) THEN pos[a] ELSE Len(index))
  /\ files' = files \ {arg[a]}
  /\ arg' = [arg EXCEPT ![a] = NoMsg]
  /\ Goto(a, "idle")
  /\ UNCHANGED <<info, changes, locks, ret, pos, work, memory, history, bounds>>

\* "losing": the file or the record could not be written; the file is removed
\* and the index is truncated.
InsertFail(a) ==
  /\ Faults
  /\ pc[a] \in {"i_file", "i_log"}
  /\ index' = SubSeq(index, 1, IF pos[a] < Len(index) THEN pos[a] ELSE Len(index))
  /\ files' = files \ {arg[a]}
  /\ arg' = [arg EXCEPT ![a] = NoMsg]
  /\ Goto(a, "unlock")
  /\ UNCHANGED <<info, changes, locks, ret, pos, work, memory, history, bounds>>

\* Locked operations whose only write is to the log: they append records and
\* call Sync().
AppendLog(a, records) ==
  /\ Enter(a, "sync")
  /\ changes' = changes \o records
  /\ UNCHANGED <<index, info, files, rlock, age, armed, locals, memory,
                 inserted, clock, crashes>>

\* RatDbSetStatus(): the comparison is with the status in memory.
SetStatus(a, i, del) ==
  /\ Operation(a, "setstatus")
  /\ i \in 1..Len(mem[a]) /\ mem[a][i].del # del
  /\ AppendLog(a, <<[op |-> "s", at |-> i, del |-> del]>>)
  /\ UNCHANGED condemned

\* 'd' records that count from zero on disk and from one in memory.
Delete_OffByOne(a, S) ==
  /\ \E f \in Ascending(S) :
       AppendLog(a, [i \in 1..Cardinality(S) |-> [op |-> "d", at |-> f[i] - 1]])
  /\ condemned' = condemned \cup {mem[a][i].msg : i \in S}

\* 'd' records for a set of indices, in increasing order.
Delete(a, S) ==
  /\ \E f \in Ascending(S) :
       AppendLog(a, [i \in 1..Cardinality(S) |-> [op |-> "d", at |-> f[i]]])
  /\ condemned' = condemned \cup {mem[a][i].msg : i \in S}

\* RatDbExpunge(): every entry in memory whose status holds 'D', the deleted
\* ones too.
Marked(a) == {i \in 1..Len(mem[a]) : mem[a][i].del}

Expunge(a) ==
  /\ Operation(a, "expunge")
  /\ Delete(a, Marked(a))

\* RatDbExpire(): entries whose time has come, deleted ones skipped.
Expire(a, S) ==
  /\ Operation(a, "expire")
  /\ S # {} /\ S \subseteq LiveAt(mem[a])
  /\ Delete(a, S)

\* RatDbSetInfo(): one 'k' record for a set of entries.
SetInfo(a, S, kw) ==
  /\ Operation(a, "setinfo")
  /\ S # {} /\ S \subseteq 1..Len(mem[a])
  /\ AppendLog(a, <<[op |-> "k", at |-> S, kw |-> kw]>>)
  /\ UNCHANGED condemned

\* RatDbSearch() and RatDbaseInfoCmd() call Sync() without the lock.
Search(a) ==
  /\ "search" \in Ops
  /\ Idle(a) /\ isRead[a]
  /\ ret' = [ret EXCEPT ![a] = "idle"]
  /\ Goto(a, "sync")
  /\ UNCHANGED <<disk, locks, locals, memory, history, bounds>>

\* RatDbGetMessage() and its like: the file is read under the lock.
GetMessage(a) ==
  /\ "getmessage" \in Ops
  /\ Idle(a) /\ isRead[a]
  /\ LiveAt(mem[a]) # {}
  /\ Enter(a, "unlock")
  /\ UNCHANGED <<disk, rlock, age, armed, locals, memory, history, bounds>>

\* The read of the file fails: the function returns without Unlock().
GetMessageReadError(a) ==
  /\ Faults
  /\ "getmessage" \in Ops
  /\ Idle(a) /\ isRead[a]
  /\ LiveAt(mem[a]) # {}
  /\ Lock(a)
  /\ UNCHANGED <<disk, rlock, age, armed, control, memory, history, bounds>>

\* RatDbClose(), called when the program exits.
Close(a) ==
  /\ Idle(a) /\ isRead[a]
  /\ isRead' = [isRead EXCEPT ![a] = FALSE]
  /\ rlock' = rlock \ {a}
  /\ armed' = armed \ {a}
  /\ Goto(a, "dead")
  /\ UNCHANGED <<disk, lock, age, ret, locals, mem, changeSize, numChanges,
                 needRewrite, stale, history, bounds>>

\* The process dies wherever it is; its lock and rlock files stay.
Crash(a) ==
  /\ crashes < MaxCrashes /\ crashes' = crashes + 1
  /\ pc[a] # "dead" /\ (isRead[a] \/ pc[a] # "idle")
  /\ isRead' = [isRead EXCEPT ![a] = FALSE]
  /\ armed' = armed \ {a}
  /\ Goto(a, "dead")
  /\ UNCHANGED <<disk, lock, rlock, age, ret, locals, mem, changeSize,
                 numChanges, needRewrite, stale, history, ops, clock>>

-----------------------------------------------------------------------------
(* RatDbCheck(): entries are taken to be well-formed, and the empty files, *)
(* protections and sequence numbers mended on the way are left out, as are *)
(* deletions, which count alike on both sides of the comparison of counts. *)

\* A step of a verification that takes no lock and leaves the disk alone.
Look(a, from, to) ==
  /\ pc[a] = from
  /\ Goto(a, to)
  /\ UNCHANGED <<disk, locks, ret, pos, arg, memory, history, bounds>>

\* Lock(), and IsRlocked(NULL), which finds no rlock file whatever there is.
CheckLock(a, fix) ==
  /\ "check" \in Ops
  /\ Idle(a)
  /\ ops < MaxOps /\ ops' = ops + 1
  /\ Enter(a, "v_info")
  /\ work' = [work EXCEPT ![a].fix = fix,
                          ![a].alone = \A b \in Agents \ {a} : ~isRead[b]]
  /\ UNCHANGED <<disk, rlock, age, armed, pos, arg, memory, history, clock,
                 crashes>>

CheckInfo(a) ==
  /\ Look(a, "v_info", "v_files")
  /\ work' = [work EXCEPT ![a].counted = info]

\* index.info cannot be opened or the index not be read: a return without
\* Unlock().
CheckError(a) ==
  /\ Faults
  /\ Look(a, "v_info", "idle") \/ Look(a, "v_index", "idle")
  /\ work' = [work EXCEPT ![a] = NoWork]

\* RatDbBuildList()
CheckFiles(a) ==
  /\ Look(a, "v_files", "v_changes")
  /\ work' = [work EXCEPT ![a].items = files]

Records(op) == {i \in DOMAIN changes : changes[i].op = op}
Numbers     == {changes[i].at : i \in Records("s")}

\* The last status record for entry n.
LastFor(n) == CHOOSE i \in Records("s") :
                /\ changes[i].at = n
                /\ \A j \in Records("s") : changes[j].at = n => j <= i

\* The records of the log: insertions are counted and the last status of each
\* entry is kept.  A blank one leaves its buffer unwritten.
CheckChanges(a) ==
  /\ Look(a, "v_changes", "v_index")
  /\ \E del \in [Numbers -> BOOLEAN] :
       /\ \A n \in Numbers :
            ~Blank(changes[LastFor(n)]) => del[n] = changes[LastFor(n)].del
       /\ work' = [work EXCEPT
                      ![a].counted = @ + Cardinality(Records("a")),
                      ![a].status = {[at |-> n, del |-> del[n]] : n \in Numbers}]

\* The entries that have a file, and which of these an entry is (numFound).
Found(a)   == {i \in DOMAIN index : index[i].msg \in work[a].items}
Rank(a, i) == Cardinality({j \in Found(a) : j <= i})

\* What is kept of an entry: its status is the log's for its number among the
\* entries found, when there is one.
Kept(a, i) ==
  LET logged == {s \in work[a].status : s.at = Rank(a, i)}
  IN [index[i] EXCEPT !.del = IF logged = {} THEN @ ELSE \E s \in logged : s.del]

\* Of several entries with one file the last is kept.
KeptEntries(a) ==
  {Kept(a, i) : i \in {j \in Found(a) :
                         \A k \in Found(a) : index[k].msg = index[j].msg => k <= j}}

\* numUnlinked: the files without an entry, which get one.
Unlinked(a) == work[a].items \ {index[i].msg : i \in Found(a)}

MadeUp(a) == {[msg |-> m, del |-> FALSE, kw |-> LostMessage, gone |-> FALSE] :
                m \in Unlinked(a)}

\* Wrong() that does not look at the counts.
Wrong_NoCount(a) == Found(a) # DOMAIN index \/ Unlinked(a) # {}

\* An entry has no file, a file no entry, or the counts differ.
Wrong(a) ==
  \/ Found(a) # DOMAIN index
  \/ Unlinked(a) # {}
  \/ work[a].counted # Cardinality(Found(a)) + Cardinality(Unlinked(a))

\* Nothing is wrong, or nothing is to be done about it.
CheckClean(a) ==
  /\ ~(work[a].fix /\ Wrong(a))
  /\ Look(a, "v_index", "unlock")
  /\ work' = [work EXCEPT ![a] = NoWork]

\* The new index is opened, which empties the old one.
CheckOpen(a) ==
  /\ pc[a] = "v_index"
  /\ work[a].fix /\ Wrong(a)
  /\ index' = <<>>
  /\ work' = [work EXCEPT ![a].fresh = KeptEntries(a) \cup MadeUp(a),
                          ![a].counted = 0]
  /\ Goto(a, "v_write")
  /\ UNCHANGED <<info, changes, files, locks, ret, pos, arg, memory, history,
                 bounds>>

\* The entries are written in the order of the hash table.
CheckWrite(a) ==
  /\ pc[a] = "v_write"
  /\ \E e \in work[a].fresh :
       /\ index' = Append(index, e)
       /\ work' = [work EXCEPT ![a].fresh = @ \ {e}, ![a].counted = @ + 1]
  /\ UNCHANGED <<info, changes, files, locks, pc, ret, pos, arg, memory, history,
                 bounds>>

CheckWriteInfo(a) ==
  /\ pc[a] = "v_write" /\ work[a].fresh = {}
  /\ info' = work[a].counted
  /\ Goto(a, "v_unlink")
  /\ UNCHANGED <<index, changes, files, locks, ret, locals, memory, history,
                 bounds>>

\* The log is removed.  An agent that had the database open forgets that and
\* tells the user to restart.
CheckUnlink(a) ==
  /\ pc[a] = "v_unlink"
  /\ changes' = <<>>
  /\ isRead' = [isRead EXCEPT ![a] = FALSE]
  /\ Goto(a, IF isRead[a] THEN "restart" ELSE "unlock")
  /\ work' = [work EXCEPT ![a] = NoWork]
  /\ UNCHANGED <<index, info, files, locks, ret, pos, arg, mem, changeSize,
                 numChanges, needRewrite, stale, history, bounds>>

\* Unlock(), and the user does as told; RatDbClose() leaves the rlock file of
\* an agent whose isRead is not set.
Restart(a) ==
  /\ pc[a] = "restart"
  /\ lock' = None
  /\ armed' = armed \ {a}
  /\ Goto(a, "dead")
  /\ UNCHANGED <<disk, rlock, age, ret, locals, memory, history, bounds>>

\* The user removes the lock file of a process that is no longer there.
RemoveLock ==
  /\ lock \in Agents /\ pc[lock] = "dead"
  /\ lock' = None
  /\ UNCHANGED <<disk, rlock, age, armed, control, memory, history, bounds>>

-----------------------------------------------------------------------------
(* UPDATE_INTERVAL passes, the timers that are armed fire.                 *)

\* Update(): returns at once, and is not armed again, when isRead is set.
Touches(a) == a \in armed /\ ~isRead[a]

TimePasses ==
  /\ clock < MaxTime /\ clock' = clock + 1
  /\ \A a \in Agents : pc[a] \in {"idle", "dead"}
  /\ age' = [a \in Agents |-> IF Touches(a) THEN 0
                              ELSE IF age[a] < RlockTimeout THEN age[a] + 1
                              ELSE age[a]]
  /\ armed' = {a \in armed : Touches(a)}
  /\ UNCHANGED <<disk, lock, rlock, control, memory, history, ops, crashes>>

-----------------------------------------------------------------------------

Start(a) ==
  \/ ReadLock(a)
  \/ \E m \in Msgs : InsertIndex(a, m)
  \/ \E i \in 1..Len(mem[a]), del \in BOOLEAN : SetStatus(a, i, del)
  \/ Expunge(a)
  \/ \E S \in SUBSET (1..Len(mem[a])) : Expire(a, S)
  \/ \E S \in SUBSET (1..Len(mem[a])), kw \in Keywords : SetInfo(a, S, kw)
  \/ Search(a) \/ GetMessage(a) \/ GetMessageReadError(a)
  \/ \E fix \in BOOLEAN : CheckLock(a, fix)
  \/ Close(a) \/ Crash(a)

\* The rest of an operation that has started.
Continue(a) ==
  \/ ReadInfo(a) \/ ReadIndex(a) \/ ReadIndexError(a) \/ ReadIndexUnwritten(a)
  \/ InsertFile(a) \/ InsertChanges(a) \/ InsertFail(a)
  \/ SyncStat(a) \/ SyncApply(a) \/ SyncSwallow(a) \/ SyncBlankEnd(a)
  \/ SyncError(a) \/ SyncEnd(a)
  \/ CompactFiles(a) \/ CompactIndex(a) \/ CompactInfo(a) \/ CompactUnlink(a)
  \/ CompactFail(a) \/ CompactBreaks(a)
  \/ CheckInfo(a) \/ CheckError(a) \/ CheckFiles(a) \/ CheckChanges(a)
  \/ CheckClean(a) \/ CheckOpen(a) \/ CheckWrite(a) \/ CheckWriteInfo(a)
  \/ CheckUnlink(a) \/ Restart(a)
  \/ Unlock(a)

Next == TimePasses \/ RemoveLock \/ \E a \in Agents : Start(a) \/ Continue(a)

Spec == Init /\ [][Next]_vars

\* An operation that has started runs on: the code calls nothing that waits
\* for another agent once it holds the lock.
FairSpec == Spec /\ \A a \in Agents : WF_vars(Continue(a))
-----------------------------------------------------------------------------
(* Properties that need no replay of the log (RatDbaseLog has the others). *)

DiskOK ==
  /\ index \in Seq(Entry)
  /\ info \in Nat
  /\ changes \in Seq(Record)
  /\ files \subseteq Msgs

LocksOK ==
  /\ lock \in Agents \cup {None}
  /\ rlock \subseteq Agents /\ armed \subseteq Agents
  /\ age \in [Agents -> 0..RlockTimeout]

ControlOK ==
  /\ pc \in [Agents -> PCs]
  /\ ret \in [Agents -> {"idle", "unlock"}]
  /\ pos \in [Agents -> Nat]
  /\ arg \in [Agents -> Msgs \cup {NoMsg}]
  /\ work \in [Agents -> Work]

MemoryOK ==
  /\ isRead \in [Agents -> BOOLEAN]
  /\ mem \in [Agents -> Seq(Entry)]
  /\ changeSize \in [Agents -> Nat]
  /\ numChanges \in [Agents -> Nat]
  /\ needRewrite \in [Agents -> BOOLEAN]
  /\ stale \in [Agents -> Nat]

HistoryOK == inserted \subseteq Msgs /\ condemned \subseteq Msgs

BoundsOK == ops \in 0..MaxOps /\ clock \in 0..MaxTime /\ crashes \in 0..MaxCrashes

TypeOK == DiskOK /\ LocksOK /\ ControlOK /\ MemoryOK /\ HistoryOK /\ BoundsOK

\* An agent that believes it holds the lock: it is past Lock() and has not
\* reached Unlock().
InCritical(a) == \/ pc[a] \in Exclusive
                 \/ pc[a] \in Syncing /\ ret[a] = "unlock"

\* No two agents are between Lock() and Unlock() at once, whatever mixture of
\* locked operations, searches, verifications, crashes and leaked or removed
\* locks comes before: "while
\* a lock like this is active nobody but the owner of the lock may do anything
\* to the database" (ratDbase.c:373-375).
LockExclusion ==
  \A a, b \in Agents : InCritical(a) /\ InCritical(b) => a = b

\* The inductive form: the agent in the critical section is the one the lock
\* file names.
CriticalHoldsLock == \A a \in Agents : InCritical(a) => lock = a

\* What the memory of an agent is worth where: it has been read before an
\* insertion or a Sync() starts, and not before Read() has filled it; an agent
\* has no stale entries before it has entries.
SessionOK ==
  \A a \in Agents :
    /\ pc[a] \in Syncing \cup {"i_file", "i_log"} => isRead[a]
    /\ pc[a] \in Reading => ~isRead[a]
    /\ pc[a] \in {"i_file", "i_log"} => arg[a] \in Msgs
    /\ ~isRead[a] /\ pc[a] \notin {"restart", "dead"} => stale[a] = 0
    /\ stale[a] <= Len(mem[a])

\* The invariant that is inductive.
IInv == TypeOK /\ SessionOK /\ CriticalHoldsLock

\* The entries of an agent that has the database open keep their indices and
\* messages, and deleted ones stay deleted.
StableIndices ==
  \A a \in Agents : isRead[a] /\ isRead'[a] =>
    /\ Len(mem[a]) <= Len(mem'[a])
    /\ \A i \in 1..Len(mem[a]) :
         /\ mem'[a][i].msg = mem[a][i].msg
         /\ mem[a][i].gone => mem'[a][i].gone

\* The index an agent handed to a folder keeps meaning the same message, and a
\* deleted entry stays deleted, for as long as the agent has the database
\* open; folders keep such indices (listPtr in ratDbFolder.c) across every
\* operation, compactions included.
IndexStability == [][StableIndices]_vars

=============================================================================
