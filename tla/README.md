# TkRat: verification of the mail store, the folders, the connections and the sending

TkRat is a mail program: a C library (`src/lib`) extends Tcl with folders,
messages, a message database and mail sending; Tcl/Tk scripts (`src/tkrat`) are
the windows; the vendored c-client library (`src/imap`) speaks IMAP, POP and the
mailbox formats. Several TkRat processes may run on one database directory; a
process is single threaded, driven by the Tcl event loop, and has child
processes (the sender, the watchdog).

This directory holds TLA+ models of the parts whose order of events is hard to
test, the TLC configurations that check them, and TLAPS proofs. `PROJECT.json`
maps every definition to the source lines it stands for. The line numbers below
are those of the sources under `src/`.

To check: `tlc -config X.cfg M` for a module `M` and a configuration `X.cfg` of
the table of runs; `tlapm M.tla` for `M` one of `RatDbaseLogProofs`,
`RatSenderProofs`, `RatSmtpCacheProofs`, `RatConnectionsProofs`, `RatDisFolderProofs`,
`RatFolderProofs`, `RatDbFolderProofs` and `SequenceLemmas`.

## 1. Inventory

For each component: its state, its operations, whom it works with, what is hard
about it, and what makes it correct.

### Message database (`lib/ratDbase.c`) - modelled but for its daily backup
- State on disk: `index` (one entry per message), `index.info` (their number),
  `index.changes` (a log: `a` added, `d` deleted, `s` status, `k` keywords),
  `lock`, one `rlock.IDENT` per process that has the database open, and a file
  per message under `dbase/`. In each process: `entryPtr`/`numRead`, `changeSize`
  (how far it has read the log), `numChanges`, `isRead`, `needRewrite`, `stale`.
- Operations: `RatDbInsert`, `RatDbSetStatus`, `RatDbExpunge`, `RatDbExpire`,
  `RatDbSetInfo`, `RatDbGetMessage`, `RatDbSearch`, `RatDbClose`, `RatDbCheck`;
  inside them `Lock`/`Unlock`, `Read`, `Sync`, and the timer `Update`.
- Interactions: processes meet only in the files. Database folders keep indices
  into `entryPtr`.
- Hard: any interleaving of processes; compaction and repair while others have old
  indices and old log positions; `Sync` without the lock; failing I/O; crashes between
  any two of the files, in a repair too; records that cannot be read back.
- Correct when: memory is what the files say, indices keep their meaning, one
  process at a time is in the critical section, the lock is released, the whole is a
  set of messages with marks (`MessageStore`), and a repair finds every message
  that has a file.

### Disconnected folders (`lib/ratDisFolder.c`) - modelled
- State: the master (an IMAP mailbox others use too), a local mailbox, the files
  `mappings` (local uid to master uid), `state` (last uid fetched) and `changes`
  (deletions and flags to send), the map in memory, a stream that may be down.
- Operations: open, close, update, sync, insert, set flag, go online and offline,
  `Dis_SyncFolder` in a batch (network synchronisation).
- Interactions: c-client calls back (`mm_exists`, `mm_expunged`, `mm_notify`,
  full disk) in the middle of the operations; the master is a stream of the
  connections below.
- Hard: other clients act between any two commands; connections break and answers
  are empty; the disk is full half way through; crashes between two files.
- Correct when: the map links copies of one message, nothing is copied twice, what
  `state` claims to have been fetched is there, deletions and flags reach the
  master or `changes`, a synchronisation ends with equal copies.

### Sending (`lib/ratSender.c`, `tkrat/compose.tcl`, `tkrat/folder.tcl`) - modelled
- State: the folder "outgoing"; in the main process `is_sending`,
  `sender_created`, `to_sender_fh`, the file handler, name and save command of the
  message in the works; two pipes; the sender process.
- Operations: queue a message, `RatNudgeSender`, `RatSenderHandler` (answers,
  death of the sender, next message), `RatSender` (the child's loop), quitting.
- Interactions: the handler is an event of the Tcl loop; the user sees and edits
  "outgoing" in a window; the child talks to SMTP servers.
- Hard: the folder changes during a delivery; either process ends at any time;
  nudges, answers and deaths in any order.
- Correct when: one job at a time, the answer is applied to its message, nothing
  leaves the folder without a verdict, nothing is sent twice but for an
  interruption, every message has its turn.

### Cache of SMTP connections (`lib/ratSender.c`) - modelled
- State: `conn_cache`, a list of connections with times of expiry.
- Operations: the loop of the child over the cache, `RatSendSMTP`'s reuse, opening,
  refusal, and return of a connection.
- Correct when: one connection to a host, none leaks, expired ones are closed.

### Connections of mailbox folders (`lib/ratStdFolder.c`) - modelled
- State: `connListPtr`, for each stream its reference count, whether it is only
  cached (`closing`), its timer, and pointers to the error flag and the handlers
  of the folder that uses it.
- Operations: `Std_StreamOpen` with its reuse, `Std_StreamClose`,
  `CloseConnection` (a timer), `Std_StreamCloseAllCached`, `RatStdCheckNet`, the
  login dialog, `mm_notify`.
- Interactions: mailbox folders, masters of disconnected folders and commands that
  manage mailboxes share streams; the login asks the password cache or the user,
  and in its dialog the timers run.
- Hard: a timer against a reuse; a stream whose folder is gone; connections that
  are found dead; going off line with cached streams.
- Correct when: a stream in use is open, one folder reads a stream, no stream is
  forgotten, the pointers lead to a folder that is there.

### Password cache (`lib/ratPwCache.c`) - modelled
- State: the list in memory, the file of the passwords to keep, a timer for each of
  the others, whether the file has been read.
- Operations: `RatGetCachedPassword`, `RatCachePassword`, `RatPasswdCachePurge`,
  the timer, `ReadDisk`, `WriteDisk`.
- Hard: the file cannot be read or opened, or not be written to its end, and is read
  again by the next process.
- Correct when: one password for a mailbox, what the user did not ask to store is
  never on the disk and is forgotten, the file is what is remembered to be stored; what
  is purged need not be gone when the file cannot be opened (section 5).

### Folder core and windows (`lib/ratFolder.c`, `tkrat/folder.tcl`) - modelled
- State: `number`, `privatePtr` (the message of each number), `presentationOrder`,
  `sortOrderChanged`, `refCount`; the windows and the rows they show; the numbers
  of the stream.
- Operations: `RatOpenFolder`, `RatFolderClose`, `RatUpdateFolder`,
  `RatFolderInsert`, the flag, sort and list commands, `RatFolderUpdateTime`; for
  mailboxes `Std_UpdateProc`, `Std_SetFlagProc`, `Std_InsertProc`.
- Interactions: windows share an open folder, a trace on the variable
  `folderChanged` draws them again; c-client renumbers what was expunged.
- Hard: a message has five numbers that change at different moments; one window
  updates under another; an update fails half way, or frees the folder under the
  command that called it.
- Correct when: the arrays are those of the stream, a mark hits the message of its
  row, no window shows a folder that was freed, new mail is shown.

### Threads (`lib/ratFolder.c` 969-1200) - modelled
- State: the linked lists of the trees.
- Operations: `RatFolderSort` with `SORT_THREADED`, `IsChild`,
  `RatFolderSortLinearize`.
- Hard: references in circles, missing and double ids, answers that are older than
  what they answer; messages that are moved while others name them as their parent.
- Correct when: every message is presented once (from six messages on it need not be,
  section 5), the lists are whole, answers stand below what they answer, one tree
  is left to a subject.

### Database folders (`lib/ratDbFolder.c`) - modelled but for columns and flags
- State: `listPtr` (the entries a search found), in the folder core `msgCmdPtr` and
  `presentationOrder`, in the window the rows; below them the entries of the
  process, which all its folders share.
- Operations: `RatDbFolderCreate`, `Db_CloseProc`, `Db_UpdateProc`, `Db_InsertProc`,
  `Db_SetFlagProc`, `Db_DbinfoSetProc`, `Db_CreateProc`, under the operations of the
  folder core.
- Interactions: an update searches again and so meets what other folders and other
  processes have done; an expunge takes what is marked, in whichever folder.
- Hard: messages leave the middle of a list that commands, order and rows count
  through; as many go as come; an update that fails.
- Correct when: commands, order and rows belong to the messages of the list (of the two
  numbers of a command only the one of the entry does, section 5), and the list becomes
  what the search finds.

### Not modelled, with state of their own
- Number sequences (`lib/ratSequence.c`): pure, ordered insertion.

### Not modelled, and why
Expressions, addresses, encodings, messages, printing, mailcap and the message
list are parsing and formatting; PGP and the watchdog are blocking calls of other
programs; postponed messages and the busy counter have no state that could go
wrong; the windows call the components above. c-client (`src/imap`, with its
servers, its tables of character sets and its ports to other systems) is a library
of the University of Washington that is vendored whole and is more than four fifths
of all the lines of the repository; it is external and appears through its calls
(`mail_open`, `mail_ping`, `mm_login`, `mm_notify`, `mm_exists`, ...).
`PROJECT.json` lists all of them.

## 2. Modules

| module | models | source |
|---|---|---|
| `MessageStore` | abstract: a set of messages, added once, marked, dropped | - |
| `RatDbase` | the database: files, locks, agents; the properties that need no replay of the log; IInv | `ratDbase.c` |
| `RatDbaseLog` | what the files mean (replay as a fold), the properties about it, the refinement of `MessageStore` | - |
| `MCRatDbase` | symmetry for TLC | - |
| `RatDisFolder` | the disconnected folder, its master, its files and its stream | `ratDisFolder.c` |
| `Outbox` | abstract: messages wait for a verdict | - |
| `RatSender` | main process, pipes, sender, folder "outgoing", restarts; the refinement of `Outbox` | `ratSender.c` and its callers |
| `RatSmtpCache` | the connection cache of the sender | `ratSender.c` |
| `RatPwCache` | the passwords in memory and on the disk | `ratPwCache.c` |
| `RatConnections` | the connections to mail servers, over `RatPwCache` | `ratStdFolder.c` |
| `RatFolder` | an open folder, its stream and its windows | `ratFolder.c`, `ratStdFolder.c`, `folder.tcl` |
| `RatThread` | sorting by threads | `ratFolder.c` |
| `RatDbFolder` | searches kept as folders, their windows and other processes | `ratDbFolder.c`, `ratFolder.c`, `folder.tcl` |
| `Selection` | the loop "for each element, if ..., put it behind the others", as a recursive function | - |
| `RatDbaseLogProofs`, `RatSenderProofs`, `RatSmtpCacheProofs`, `RatConnectionsProofs`, `RatDisFolderProofs`, `RatFolderProofs`, `RatDbFolderProofs` | theorems about the module of the name; those about `RatDbase` are in `RatDbaseLogProofs`, those about the passwords in `RatConnectionsProofs`, those about `RatThread` in `RatFolderProofs` | - |
| `SequenceLemmas` | what removing, adding and selecting elements do to a list, beginnings of lists, and induction over the naturals, for the proofs | - |

**RatDbase.** An agent is one incarnation of a process. `Start(a)` begins an
operation, `Continue(a)` runs the program of agent `a` to its next access to a
file that others may see change: `ReadLock`, `ReadInfo`, `ReadIndex` are `Read()`;
`SyncStat`, `SyncApply`, `SyncEnd`, `CompactFiles`, `CompactIndex`, `CompactInfo`,
`CompactUnlink` are `Sync()`; `InsertIndex`, `InsertFile`, `InsertChanges`,
`InsertFail` are `RatDbInsert()`. Offsets count entries and records instead of bytes.
A failing I/O call is a disjunct or an action (`Faults`): `CompactFail` ends a compaction
before it has changed a file, `CompactBreaks` in the middle, with the files a death there
leaves, and is counted with the deaths (`MaxCrashes`). A death is `Crash`; the lock of the dead
stays, as in the code, until the user removes it (`RemoveLock`).

`CheckLock` to `CheckUnlink` are `RatDbCheck()`, with what it has gathered in `work`:
the messages that have a file (`RatDbBuildList`), the count and the statuses of the
log, and the entries of the new index, which is written one entry at a time over the
old one, in any order (that of a hash table). A process that had the database open
tells the user to restart, and `Restart` takes it that the user does. The log's
statuses are applied by number among the entries that have a file, as in the code,
which is not always the entry they were meant for.

`EmptyStatus` says that 'D' is the only flag, so that taking it away writes a status of
no characters: `SyncSwallow` and `SyncBlankEnd` are what `fscanf` makes of that.

**RatDisFolder.** One program counter for the program; `World` is what happens
beside it: arrivals (`Deliver`), other clients (`OtherClient`), a connection that breaks
(`Lose`), the end of the program (`Crash`). `c_*` applies `changes`, `d_*` is
`DisDownloadMsgs`, `s_*` is `Dis_SyncFolder`, `u_*` is `Dis_UpdateProc`, `i_*`
is `Dis_InsertProc`; what the server reports is applied to `view` in the actions
that wait for an answer. `mapBuf` is the stdio buffer of the file `mappings`, which
a full disk leaves behind. The file `state` is truncated before it is written:
`CrashWriting` and `state_full` leave it empty, and `SyncRefused` is what comes of that. `Faults` names the faults that may happen, `MaxFaults`
how many. The local expunge keeps the unmarked messages as `Selected` of `Selection` does.

**RatSender.** The main process is at `loop` between events; each action is a piece
of a handler that runs without a look at the pipes. `Write` has the three outcomes
a write to a pipe has: taken, taken but lost in the buffer, failed. `Quit` and
`Start` keep the folder; a sender in the middle of a message becomes an orphan and
ends it. Which message is "message 0" depends on the order of the folder
(`NewestFirst`), as in `RatFolderCmdSetFlag`. The promise of `Outbox` ends when the
user marks a message of the folder (`edited`, the action `Edit`): from then on the
answer may hit another message.

**RatSmtpCache.** The loop of the child and the part of `RatSendSMTP` around the
cache, with a clock.

**RatConnections** extends **RatPwCache.** Streams and folders are numbered in the
order in which they are opened; a record of a connection is one of `connListPtr`.
`Reuse` and `Connect` are `Std_StreamOpen` with a connection that answers and
without one; between `Ask` and `Answer` the login dialog is open and the actions of
`Events`, the timers and lost connections, go on, as in `RatLogin`'s event loop.
`StreamClose` is `Std_StreamClose` for all its callers. `faults` is a history of
the steps after which the code no longer keeps one of the promises (section 5);
each property names the ones it excepts. `RatPwCache` has the functions of the
password cache as operators that `RatConnections` conjoins with its own steps. `ReadDisk`
reads any beginning of the file, nothing when it cannot be opened, and only once;
`WriteDisk` leaves any beginning of what it should write, or the old file when it cannot
be opened. `leftover` is a history of the latter: the file may hold what the list does not.

**RatFolder.** `box` is the mailbox on the server, `view` what c-client has
reported, `priv` and `order` are the arrays, `rows` what each window shows.
`UpdateFolder` is `RatUpdateFolder` with `Std_UpdateProc` for a mailbox, and
the windows that the trace on `folderChanged` draws again; it is part of an
update, a sort, the close with `expunge_on_close`, and the timer.
`Insert`/`Inserted` are the two halves of a message's copy command, which has a reference
of its own: it takes the folder and inserts (`Std_InsertProc` and the update of
`RatFolderInsert`), and it closes. Between the two only server and timer do something. The
message is appended or not, and the update may find that the contact is lost: then the
folder is freed under the command (`lost`, a history), and what its close does is
undefined. `LostContact` is the same for the updates of windows and timer. `FaultKinds` are
other things that may go wrong, one in a behaviour. Folders opened only to append are in
`RatConnections`.

**RatThread.** The links `next`, `prev`, `child`, `parent` are functions, the loops of
the two passes are the steps `LinkRef` and `LinkSubject`, `IsChild`,
`Adoptions` (the loop over the earlier messages) and `Linearize` are recursive functions
bounded by the number of messages. The initial states are all folders of `N` messages.

**RatDbFolder.** `disk` is what the files of the database say and `mem` what the
process has read; `Write` is an operation of the process, which reads all of the log.
The entries keep their numbers, since nothing is compacted: that they keep them in
a process whatever happens is `IndexStability` of `RatDbase`. `Refreshed` is
`Db_UpdateProc` with what `RatUpdateFolder` makes of its result: fewer messages than
before look like an error, so the order stays and the window is cleared. A command has two numbers,
as `RatDbMessageCreate` makes it: its place in the list (`no`) and its entry in the
database (`entry`). `Kept` is the loop behind the expunge, which moves the commands and,
unlike that of `Std_UpdateProc`, leaves the first number as it was. `Other` is another process; a row whose place in
the order is behind the list may lead to any entry (`Numbers`).

The order of work was database, disconnected folders, sending, connection cache,
connections with passwords, folder, threads, database folders.

## 3. Runs

Passing runs:

| run | question | bounds | distinct states |
|---|---|---|---|
| `RatDbaseShared` | Do memory, counts and message files agree with the log for two agents? `MemoryMatchesDisk`, `CountsAgree`, `FilesBacked` | 5 writing operations, compaction at 2 records, one passing of the rlock time, failing I/O | 3.6 million |
| `RatDbaseAny` | Are indices and the lock safe, and does a repair make the files whole, with unlocked searches, blank statuses and a crash anywhere? `LockExclusion`, `IndexStability`, `Repaired` | 2 agents, 4 writing operations or verifications, compaction at 2 records, 1 crash or broken compaction, failing I/O | 726 000 |
| `RatDbaseStore` | Do the files implement `MessageStore`, and do these operations always release the lock? `ImplementsStore`, `LockReleased` (fair) | 5 writing operations, compaction at 2 records, failing I/O | 260 000 |
| `DisShared` | Is the copy right while others work on the master and things fail? `MapSound`, `NoDuplicates`, `SyncMirrors`, `Accounted`, `StateAdvances`, `DeletionsNoted`, `FlagsNoted` | 2 messages, 5 operations (no insertion), 3 foreign actions, 1 lost connection, full disk or crash | 1.6 million |
| `DisOwn` | Do insertions, online and offline, reach the master once, and does every operation end? `SyncMirrors`, `Returns` (fair) | 2 messages, 6 operations, 1 foreign action, 1 lost connection or full disk | 1.0 million |
| `Out` | Is the promise of `Outbox` kept over edits, deaths and restarts? `OneAtATime`, `CopiesMatch`, `DeletedNotSent`, `Answered` (fair), `KeepsPromise` | 3 messages, 1 death, 1 restart | 1.0 million |
| `SmtpCache` | Does the cache leak, duplicate or keep expired connections? `OnePerHost`, `NoneLeaks`, `ExpiredClosed` | 3 hosts, 4 messages, clock to 5 | 115 000 |
| `Connections` | Are streams shared, cached and closed in time, and passwords kept as meant? `StreamsLive`, `OneOwner`, `NoOrphans`, `OwnersOpen`, `Passwords` | an IMAP and a POP server, 3 opens, 1 lost connection, 1 restart | 2.3 million |
| `Folder` | Do windows, arrays and stream agree? `Aligned`, `FlagsMeant`, `HandlesLive`, `NewMailShown` (fair) | 2 windows, 3 messages, 1 fault, contact lost in any update | 414 000 |
| `Thread` | Is every thread whole? `BothWays`, `RepliesLinked`, `OnePerSubject`, `AllReached` | all folders of 4 messages with 2 subjects | 2.3 million |
| `DbFolder` | Do the parts of a database folder belong together, and does it follow the database? `RowsRight`, `Follows` (fair) | 2 folders, 2 entries, 1 operation of another process or change of keywords, failing searches | 105 000 |

Why the bounds are enough. Two agents and two messages let one agent's compaction,
deletion or repair fall between any two operations of the other. A third agent adds
the search without the lock beside a locked operation of another while the database
is compacted; `RatDbaseAny` with three agents and three operations at a
threshold of 1, and with two agents and five operations at a threshold of 2 (7.0
million states), passes as well but takes longer, and the theorems about the lock and
the indices are for any number of agents. A threshold of 1, 2 or 4 records
instead of 20 makes compactions happen; a small log holds each kind of record before
and after one.
In a disconnected folder two messages are enough for an index or a uid to be off by
one, and three foreign actions for an arrival, a flag and an expunge. Three
messages in "outgoing" are one being sent, the next, and one that comes
meanwhile. In the cache two connections may expire together and a third between
them. Three opens are a stream, the folder that shares or recycles it and one that
comes in between; a POP server is the case that is not cached. Two windows are the
one that acts and the one that only looks; three messages are a marked one
with neighbours on both sides. Four messages are enough for a circle of
references, an answer older than its original and a subject outside, which is also
where `RepliesBelow` breaks. They are not enough for all that is to be said:
`EveryMessageOnce` holds for four and breaks in the second pass when there are six
(section 5), so no run claims it; what the theorems of section 4 say holds for any number.
Two searches are two folders that find an entry, both or
neither, and one that expunges below the other; `RowsRight` also holds for one folder
with three entries and two operations of others (148 000 states). Every property has a mutant: a changed definition,
such as a dropped check, under which the same run finds the property violated.

`CHECK_DEADLOCK FALSE` is set because the users may stop giving commands and
the bounds end the histories.

What the bounds and the properties leave out on purpose:
- `ImplementsStore` holds until an agent goes on with the log after a compaction that
  dropped entries it still has in memory (finding 1 below). `RatDbaseStore` is therefore
  about `RestartingSpec`: the users start such an agent again (`Restarts`: it may
  read a message and exit). Without that, under `FairSpec`, TLC refutes
  `ImplementsStore` with the constants of the run: the agent's next records hit
  other messages.
- `Repaired` is about a repair that runs while nobody else has the database open, and
  after one death: after two, the counts may be wrong in a way that adds up (section 5).
- `EmptyStatus` is FALSE in `RatDbaseShared` and `RatDbaseStore`, as when the messages
  carry other flags; section 5 says what happens when they do not.
- Where the code breaks a promise after a fault, the fault is in the run and the
  property says that it excepts it: `losses`, `fulls` and `crashes` in
  `RatDisFolder`, `faults` in `RatConnections` and `RatFolder`, `deaths` and
  `edited` in `RatSender`. Section 5 says what happens then. `DisShared` has no
  insertion beside foreign arrivals.
- `Connections` assumes that `cache_conn_timeout` is not 0 (with 0 nothing is
  cached) and sets `PwTimeout` to TRUE (with FALSE nothing is forgotten).
- `LockReleased` is about the operations of `RatDbaseStore`: insertions, marks, expunges
  and expires. Reading a message and the verification are not in this run, since their
  failing ways keep the lock (section 5).
- `Passwords` excepts a file that was left behind (`leftover`) from what it says of the
  file: one that could not be opened or read to its end, until it is written again.
- `RowsRight` excepts folders that have lost messages to another folder or process
  (`displaced`), and so does the part of `Follows` about windows; its part about the
  list excepts nothing. Of a command `RowsRight` says that its entry is right, which the
  headers, the text and the keywords go by, and not the number that subject, sender, date
  and flags go by.
- `HandlesLive` excepts the reference of a copy command whose own update has lost the
  contact (`lost`); the windows it excepts never.
- `IInv` of `RatDbase` and `RatSmtpCache` and their `TypeOK` are proved (section 4) and
  not checked by a run of their own.
- In `Folder` at most one thing goes wrong in a behaviour. After an update has gone
  unnoticed by a window, `FlagsMeant` promises nothing.

Violation run:

1. `RatDbaseStaleIndex` (`ConsistentWithMaster`): a compaction writes the entries
   that are not deleted but keeps the deleted ones in memory, so every index behind
   a deleted entry differs between memory and disk; what the agent then logs hits
   another message for the next agent.

Fairness. `RatDbase`: weak fairness of `Continue(a)`; an operation that has begun
runs on, since the code waits for nothing once it has the lock. `RatDisFolder`: weak
fairness of the program's own steps, each of which is the end of a call of c-client
that returns (or times out). `RatSender`: weak fairness of the handlers and of the
sender, whose talk with a server ends by itself or by the timeouts of TCP; strong
fairness of the file events, because Tcl queues them behind the other events and
an industrious user only delays them. `RatFolder`: weak fairness of the timer, which
`RatFolderUpdateTime` starts again in every way it can end (1948), and of the
second half of a copy. `RatDbFolder`: weak fairness of the same timer. No fairness for users, servers, deaths and faults.

## 4. Proofs

Each theorem holds for every value of the constants that the module's
`ConstantsAssumption` allows; nothing else is assumed.

**RatDbaseLogProofs**, first the theorems about `RatDbase`: for every set of agents and
messages, every threshold and all bounds (`None` is no agent, `NoMsg` no message, `NoKeywords` and `LostMessage` are values of the
keywords, the bounds are naturals):
- `Invariance`: `Spec => []IInv`.
- `TypeCorrect`: `Spec => []TypeOK`.
- `MutualExclusion`: `Spec => []LockExclusion`.
- `IndicesStable`: `Spec => IndexStability`.

`LockExclusion` is not inductive: `Unlock()` removes the lock file whoever made it,
so a second agent in the critical section would be let in by the first one's exit.
The strengthening `IInv` says that the agent in the critical section is the one the
lock file names (`CriticalHoldsLock`), what the memory of an agent is worth at each
place (`SessionOK`: it has been read before an insertion or `Sync()` starts; it has
no more stale entries than entries), and `TypeOK`. All of it covers verifications, repairs,
crashes and removed locks: `RemoveLock` takes only the lock of an agent that is dead,
and a dead agent is outside the critical section. `SessionOK` is needed for the
types: the number a compaction writes to `index.info` is a difference, which
is a natural number only because the stale entries are among the entries. The proof
has a lemma per action and conjunct group, lemmas about the entries a log record
leaves (`AfterRecordType`, `LogTypes`), about the entries a repair writes
(`FreshEntries`) and about cardinalities of sets of indices, and
combines them in one step per disjunct of `Next`. `IndicesStable` follows action by
action: only `Read()` shortens or replaces the entries of an agent, and only while
`isRead` is false, which is `SessionOK` again.

**RatDbaseLogProofs**, about the log: for every set of agents and messages, every
threshold and number of operations, with failing I/O (`Counting`, `Backing` and `Matching` are about
the properties of `RatDbaseShared`, `Promise` is about that of `RatDbaseStore`):
- `LogInvariance`: `Spec /\ Orderly => []LInv`.
- `Counting`, `Backing`, `Matching`: `Spec /\ Orderly => []CountsAgree`,
  `[]FilesBacked`, `[]MemoryMatchesDisk`.
- `Promise`: `Spec /\ Orderly /\ [][Restarts]_vars => ImplementsStore`.

`Orderly` leaves out what each of these is refuted by (section 5): deaths in the
middle of an operation (`MaxCrashes = 0`), enough time for an rlock to look abandoned
(`MaxTime < RlockTimeout`), searches, which compact without the lock, verifications,
and statuses without text. Failing insertions and compactions, exits, and any
order of operations are in. `LInv` has a part for the whole and a part for each
agent. Whoever is not idle has the lock (`Session`), and as long as nobody else is
in the middle of something the files are what its place in the program says
(`DiskInv`: the count, the additions in the log and the length of the index add up,
or are off by exactly what is half written; every message has one entry and a file).
An agent that has the database open is as far in the log as its counters say
(`Replayed`), knows no message twice or without a file (`Remembers`), and, until a
compaction of its own drops entries, holds the replay of what it has read
(`Meant`). `Meant` alone is not inductive: a compaction keeps it only because nobody
else has the database open, and an insertion only because the new entry's number is the
count and the additions. `Replay` is a recursive function, and so is the count of the
additions (`Adds`); what they return for every log is shown by induction over the
length (`ReplaysNext`, `AddsNext`).

`Promise` is the step simulation: `InitialStore`, and for each action that it keeps
the store, marks, adds or drops (`StoreStep`). While an agent compacts, the store is what that
agent holds (`Contents`), so the files may be in between; that the next agent will
read the same afterwards is `Written`. A mark becomes one step of the
log and several of `MessageStore`'s messages are dropped at once, so the lists are
compared as sets of messages (`Alike`, `Remarked`, `Without`).

**RatSenderProofs**: for every set of messages, every choice of user actions and all
bounds:
- `OneJobAtATime`: `Spec => []OneAtATime`.
- `CopiesOfWhatWasSent`: `Spec => []CopiesMatch`.
- `TypeCorrect`: `Spec => []TypeOK`.
- `MarkedNotSent`: `Spec => DeletedNotSent`.
- `PromiseKept`: `~NewestFirst => (Spec => KeepsPromise)`.

The first two follow from `IInv == Flow /\ Copies` (`Invariance`). `Flow` says where the one
job is: in the pipe to the sender, with the sender, or in the pipe back, never in
two places, with `is_sending` set and the name the main process holds; that
needs the places of the handler and which pipes exist as well. `Copies` counts:
what was saved and what is on the way to be saved is covered by what was
delivered. `TInv` adds the types, that the folder holds each message once and only
messages that were queued (`Known`), and which process there is (`Manned`).

`PromiseKept` is the refinement of `Outbox`. With the newest first it is false: the
verdict then removes the message that was queued meanwhile (section 5). Otherwise
`InOrder` holds until the user edits the folder. What is in the works is the first
message (`Foremost`), so the flag the answer sets hits it; behind the first one
nothing has had a verdict (`Untried`); what was queued waits or has one (`Settled`);
and the verdicts beyond the first are no more than the deaths and
restarts (`Fated`). The last one is not inductive for the verdicts alone, since an orphan
that will still deliver its message, and a message that will be sent again, are
excesses to come: `Fate` counts what a message has had, what is on the way with
orphans and whether it waits, and the excess of the fates only grows with an interruption.
The excess of a function is counted as the set of the pairs of a message and a number
(`Beyond`, as `Excess` does in `Outbox`), so that one more verdict is one pair more at most.
TLC checked `InOrder` with two messages, two deaths and two restarts.

**RatSmtpCacheProofs**: for every set of hosts and cache times:
- `Invariance`: `Spec => []IInv`.
- `TypeCorrect`, `OneConnectionPerHost`, `NoConnectionLeaks`, `ExpiredAreClosed`:
  `TypeOK`, `OnePerHost`, `NoneLeaks`, `ExpiredClosed` always hold.

The inductive invariant (`Invariance`) adds what the sender holds at each place
(`Holds`: a stream only while it sends, and then none in the list to the same host)
and what the loop has passed (`Pruned`: nothing before its place had expired when
it began); the count of open connections is the length of the list and the stream
in hand. `SequenceLemmas` says what removing an element and adding one do to a list.

**RatConnectionsProofs**: for all servers and any number of folders, lost
connections and restarts:
- `OneReader`: `Spec => []OneOwner`.
- `StreamsInUseLive`: `Spec => []StreamsLive`.

Neither is inductive: that a stream may be freed or given to a reader is decided by
the counter of its record. The inductive invariant (`Invariance`) says that the
records are to different streams, that a record counts at least the folders that have
its stream (`Covered`; a stream without a record has one folder at most), that
`closing` is a counter of 0 and a timer runs only then, and that no stream of a record
or of an open folder is freed (`Alive`, until a connection breaks in `mail_open`).
The counter may be higher than the number of folders, since the code forgets
references ("lost" in section 5), so the invariant is an inequality between a
counter and a cardinality. `StreamClosed` says for all callers of `Std_StreamClose` that
who gives back a reference that was covered leaves a sound state, `Opens` and `Refuses`
the same for the callers of `Std_StreamOpen`; `GoOfflineStep` shows that what leaves the
list has no folder left.

- `PasswordsKept`: `Spec => []Passwords`.

A timer may erase an entry at any time, and `ReadDisk` puts what the file holds into the
list in the other direction, so the places of an entry in list and file say nothing. The
invariant says, once the file has been read, that a mailbox is in each of them once, that
an entry is in the file only if it is to be stored and that only the others have a
timer (`Remembered`, as long as no file was left behind: then the file says nothing of the
list); before, that the list is empty (`Unread`); and what holds while the
login dialog is open (`Asked`). What `WriteDisk` selects has to be known
for every list, which is the induction of `SelectedSelects` in `SequenceLemmas`.

Of the streams and the pointers, for the same constants:
- `NoStreamForgotten`: `Spec => []NoOrphans`.
- `PointersToOpenFolders`: `Spec => []OwnersOpen`.

`NoOrphans` needs the other half of the counting: a record counts no more than the
folders that have its stream (`Owed`), or a stream whose last folder has left would
keep a counter that no close brings to 0. Together with `Covered` the counter is exact until a reference is forgotten, and a
counter of 0 has a timer (`Timed`). While somebody takes or leaves a stream, one
reference has no folder (`Settling`); `CloseSettles`, `OpenSettles` and `RefuseSettles`
say that each way out of `Std_StreamOpen` and `Std_StreamClose` ends that.
`OwnersOpen` holds because a connection has one use at a time (`Solid`): so the folder
that closes a stream is the one its record points to, and `Cached` clears the pointers.
The assumption that no folder appends on a connection in use ("shared" in section 5)
is needed for exactly that, and the commands that open and close a stream in one
step, which count twice for a moment, need no pointer (`Taking`). Both theorems keep
the exceptions of the properties (`Forgets`, `Strays`): section 5 shows that each of
them is met. What both proofs need of the going off line is one lemma (`OfflineList`).

**RatDisFolderProofs**: for any number of messages, operations, faults and other
clients' steps:
- `TypesHold`: `Spec => []TypeInv`, where `TypeInv` also says which places of the program
  go with which state of the session (`Control`) and that the local uids ascend, with
  the unparsed ones at the end (`UidsRight`). The proofs go by this one; the run checks
  the coarser `TypeOK`.
- `MapsAreSound`: `"insert" \notin Ops`, then `Spec => []MapSound`.
- `FlagsAreNoted` and `DeletionsAreNoted`: `Spec => FlagsNoted`, `Spec => DeletionsNoted`, for
  every set of operations.
- `StateNeverGoesBack` and `NothingTwice`: `"insert" \notin Ops`, then
  `Spec => StateAdvances` and `Spec => []NoDuplicates`.
- `FetchedIsKept`: `"insert" \notin Ops`, then `Spec => []Accounted`, crashes included.

`MapSound` is about one map in memory, but what a line says must have been right
when it was written, in the file, in its buffer, and in the file that is to
replace it. `SoundInv` says of each of them that a line that counts (the latest for its
local uid) names a message of the master and, if the local mailbox holds the uid, that
message; and that the uid the program believes to have given last is the one the
mailbox gives next (`localLast`). The uids that a parse gives to what is new are
counted, so `Numbering` is about cardinalities. The exceptions are not a matter of the
proof: a full disk leaves `localLast` one ahead for good, and an upload looks for its
message at one uid, so that an arrival in between is taken for it (section 5).

`FlagsNoted` and `DeletionsNoted` have the connection as their hypothesis: `Noticed` says
that without a loss a folder believes to be on line only while its stream lives.
Deletions are noted by a check that runs before the expunge and takes the message
out of the map, and between the two the mailbox may be parsed, flagged and added to:
`Known` and `Noted` say what the marks and the map have to do with each other at each of
these places, `Uids` that no message has the uid 0 that stands for "not mapped".
`OnlyExpunges` shows that no other step takes a message away.

`StateAdvances` and `NoDuplicates` are one argument (`SteadyInv`). Every local message is
mapped, in memory while the folder is open and in the file while it is closed
(`Mapped`), so the loops that upload find nothing to upload (`NothingUploaded`); what
each place is about to write to the state, or to download, is beyond the state
(`Advanced`); and each local message is what a uid up to the state stands for
(`Copies`), so what lies beyond is not there yet. While nothing has failed these three
hold together and none of them alone: `Mapped` needs that the file was written whole,
`Copies` that a download begins where the state ends. TLC checked `Steady` with the
constants of the run `DisShared`.

`Accounted` has to survive the death of the program, so its invariant `Kept` follows each
message of the master that the program takes for fetched (`Fetched`: by the state file, by
`lastUid`, or because the stream has gone past it) and says that its deletion is noted or
that it is tied to a local message twice (`Safe`): by the map, which an operation
uses, and by the last line for that uid in the file with what stdio buffers, which is all
that a death leaves. `Written` says that the line is there before the message, and
that the buffer holds lines of new messages only; `Seen` that the stream's last uid is
never beyond what the stream has looked at, so that a download skips nothing; `Noting`
that the changes are forgotten when the master has carried out what they tell; `Clean`
that an update that expunges has not just fetched a message that its own expunge would
remove unnoted. The proof has one lemma per way in which a step can untie a message: the
end of the program, opening, expunging, noting a deletion, flushing, writing the
mappings anew, the three steps of a download, an upload. TLC checked `Kept` with the
constants of `DisShared` and two crashes. A lost connection breaks `Seen` (a failing search
leaves messages behind) and a full disk `Written`.

**RatFolderProofs**, first the theorems about `RatFolder`: for every finite set of windows, every set of faults and any
number of messages:
- `NoDanglingHandle`: `Spec => []HandlesLive`.
- `Soundness`: `Spec => []Sound`.
- `ArraysAligned`: `Spec => []Aligned`.
- `MarksMeant`: `Spec => []FlagsMeant`.

`HandlesLive` counts windows, so the proof is about cardinalities: a redraw never
adds a window to those that show the folder, a window that opens adds one and one
reference, one that closes takes one of each, and the last reference or a lost contact clears them
all. The copy command has a reference beside the windows until its own update loses the
contact; then it has the only handle, to a folder that is gone (`lost => copying /\
refs = 0`, and `CopyLive` in section 5). The inductive invariant (`Invariance`) adds this and
the types of `refs` and `rows`.

`Sound` says what holds as long as nothing has failed at the server: no message is in
the mailbox twice, the arrays begin with what the stream begins with and the stream with
what the mailbox begins with, the marks of stream and server are the same, the order
presents each message, and the references are exactly the windows and the copy. And as long as
no window has missed an update, the rows are those of the list command and the marks
are the user's. `Aligned` alone is not inductive: that an update ends with arrays as long
as the stream depends on what `Std_UpdateProc` keeps being a beginning of what the expunge
leaves (`KeptLeads`, by induction in `SelectedLeads`), which takes the marks of both
sides. `Updated` is the lemma for an update, whoever calls it. TLC checked `Sound` with the
constants of the run `Folder`. Both theorems keep the exceptions of their properties: after a
fault at the server an update may fail and leave arrays that are too short, and a
window that was not drawn again sends the numbers of other messages (section 5, `Fresh`).

Then the theorems about `RatThread`: for every number of messages and subjects, and every
choice of ids, references and subjects:
- `ListsBothWays`: `ThreadSpec => []BothWays`.
- `ReferencesLoseNothing`: `ThreadSpec => []AllReached`.
- `FirstAboveAll`: `ThreadSpec => []AllBelowFirst`.
- `OneThreadPerSubject`: `ThreadSpec => []OnePerSubject`.

A message is unlinked and linked again by writing its neighbours, so `BothWays` needs
that the message has the neighbours the code takes for granted (its conjunct `HasPrevious`: line 1046
writes the next of the one before without asking), and that needs that `IsChild` comes
to the first on top from everywhere (`AllBelowFirst`). The invariant of both passes,
`Trees`, says that the lists are linked both ways, that a first child knows its parent, and that
who goes up as `IsChild` does comes to an end (`Acyclic`), which is the first on top.
The lemma `Moved` is the reason: a message that goes to a place below j closes no circle if a
set that holds j and not the message is closed above j, and what `IsChild` has passed from j is
such a set (`PassedUp`, by counting: a way of more than `N` steps would pass a message twice).

The first pass keeps more (`ByReference`). There is a function `o` that gives each list the
message it hangs on (`Owned`), and the parent that a message names is that one or in
the same list; the list is found there (`Hung`), and going up by lists and owners comes
to an end too. That is the way back of `RatFolderSortLinearize`, so a set that is closed
under next and child leaves nothing out (`AllReached`); with `BothWays`, each message is come to
once. The second pass keeps `Trees`, but not the owners: there the parents that `IsChild` goes by
are no longer those of the lists, and section 5 says what becomes of it. Line 1016 goes to the end
of a list of children; that it comes to one is `LastOfList`.

`OnePerSubject` holds all the same, hidden messages or not. Its invariant, `SubjectInv`,
follows a set of messages that is on top (`OnTop`): it holds the first one and all
neighbours, none of them knows a parent, and the next one has the later date (the last conjunct
of `Tops` says so in the first pass). The message a step moves is the only one to leave it
(`SubjectOnTop`): what the step writes elsewhere, the parent it resets (1071) included, belongs to
messages outside the set, and none is put behind a member, since the head of its list knows no
parent (`HeadWithin`). And of two members with one subject the later one is moved, since `IsChild`
goes from the earlier one only by earlier members (`PassedOnTop`) and does not come to it. TLC checked
`SubjectInv` with the constants of the run `Thread` and with `SixSpec`.

**RatDbFolderProofs**: for every set of folders, every choice of those sorted
backwards, all faults and bounds:
- `Invariance`: `Spec => []IInv`.
- `RowsStayRight`: `Spec => []RowsRight`.

`RowsRight` speaks of the entry of a command; its other number has no part in the proof
(section 5, `AnswersRight`). `IInv` is `RowsRight` with the types and, for every folder, displaced or not, as many
commands as messages (`Even`). `RefreshedRight` is the step that matters: `Db_UpdateProc`
grows the commands and decides whether to sort by the length of the list after the expunge,
`RatUpdateFolder` compares the result with the length before it, and the order it may leave
in place is still that of the messages before. The lemma says that the parts belong
together all the same whenever what the expunge has left is a beginning of what is
found, and that a window nobody has drawn again shows what it should because then
nothing has changed. What other processes do to the files needs nothing but types: it
reaches a folder through a search only.

Induction. The provers cannot instantiate the induction theorems of the library
with a predicate, but they can with a set: `NatSetInduction` (`SequenceLemmas`) says that
a set of naturals with 0 and with the successor of each of its members is all of them, and
an induction collects the numbers for which its claim holds. What a recursive
function computes is proved that way, once the function is shown to exist
(`SelectionFunction`, `ReplayFunction`, and `Recursion` for the loops of `RatThread`).

What stays with TLC: all liveness (`LockReleased`, `Answered`, `Returns`, `NewMailShown`,
`Follows`); `Repaired`, which is about a verification after a death; of `RatDisFolder` the
property `SyncMirrors`, whose synchronisation compares two mailboxes in the
order of their uids; and of `RatThread` the property `RepliesLinked`, about what
`Linearize` writes, a recursive function of two arguments.

## 5. Further disagreements between the code and its comments

Each of these was found while modelling. The property is defined in the module under
the heading "What the code does not do" (or in the list above), and TLC refutes it
with the constants given; all bounds not named are zero. They have no run of their
own. Where a property of section 3 excepts a fault, it is refuted once the exception
is taken out.

Message database (`RatDbaseLog`, two agents and two messages unless said):
- `LockReleased` with `Ops` insert and getmessage, `Faults`: `RatDbGetMessage`
  returns without `Unlock()` when the file cannot be read (1496). The same with insert and
  check: `RatDbCheck` returns without `Unlock()` when `index.info` cannot be opened or the
  index cannot be read (2444, 2514).
- `ChangesReachIndex` with one agent, insert and setinfo: a `k` record does not set
  `needRewrite`, so a compaction may remove the log with the keywords (564).
- `RlockStaysFresh` with insert and `MaxTime = 4`: `Update()` returns at once when
  the database is open and is not armed again (785).
- `OnlyOwnerWrites` with three agents, insert and search: `RatDbSearch` calls
  `Sync()` without the lock, which may compact (1300).
- `ExpungesOnlyMarked` with setstatus and expunge: the marks in memory are used
  before `Sync()` (1770).
- `FilesBacked` with `MaxCrashes = 1`: the files of deleted messages are removed before
  the new index is in its place (708), and when it does not get there the next agent
  takes them for live until it has read the log.
- `CountsAgree` with `MaxCrashes = 1`: the entry of an insertion that was cut short
  stays in the index without a record (1057).
- `MemoryMatchesDisk` with insert and setstatus, `EmptyStatus = TRUE`: a status without
  text makes `fscanf` take the next record for the status (526, 1089).
- `MendsAlone` with three agents, insert and check, `MaxCrashes = 1`: `IsRlocked(NULL)`
  passes over every rlock file (826), so the repair runs although others have the
  database open ("We should also check that nobody else has a read lock", 2427).
- `MemoryMatchesDisk` with the same constants, which holds without check: after the
  repair the log positions and indices of those others belong to files that are
  gone (2752).
- `MarksSurvive` with insert, setstatus, expire and check, `MaxCrashes = 1`: a repair
  applies the statuses of the log by number among the entries that have a file, and so
  to another message when an entry before it has none (2609).
- `Repaired` with three agents, insert and check, `MaxCrashes = 2`: after a death between
  `index.info` and the removal of the log (744), and one in an insertion between the
  message file and the log (1036), the counts agree by chance and the verification
  finds nothing to do; the next agent reads one entry twice and misses the last one.
- Read beside the model: a repair drops the log with the keywords in it and brings
  back what was deleted and not compacted, since the file is still there; a process
  that goes on without the restart keeps its `changeSize` and `stale` (2772);
  `RatDbExpire` writes the deletion although the copy to the backup failed (1993),
  removes a message for the incoming folder before it inserts it there (2126), packs the
  backup into a file that begins anew when it is of the same day (2052), and then removes
  what another process has put there meanwhile (2087).

Disconnected folders (`RatDisFolder`, two messages, four operations, at most one
fault):
- `MapSound` and `NoDuplicates`, with update, `Faults = {"full"}`, `MaxOther = 2`: the
  local uid is counted up before the message is written (1510), and the state goes
  back behind what was fetched (1572).
- `StateAdvances` and `NoDuplicates`, with insert and `MaxOther = 1` or 2: the upload
  looks for its message at one uid (2042), and writes the state 0 when it finds
  nothing (619).
- `Accounted`, with netsync, `MaxOther = 1`, `Faults = {"lost"}`: a search that fails
  counts as "nothing new" and the state runs ahead (1366).
- `DeletionsNoted` and `FlagsNoted`, with flag and sync, `MaxOps = 5`, `MaxOther = 1`,
  `Faults = {"lost"}`: with a connection that is known to be down, deletions are not
  noted (543) and flags go to the dead stream (672).
- `MsgNoCurrent` with flag, netsync, `MaxOther = 2`: the uid map is a copy made
  before the loop (1277).
- `Survives` with insert and `Faults = {"lost"}`: the stream is gone after `mail_ping`
  (623).
- `UpdateFetches` with update and `MaxOther = 3`: counts stand for contents (512).
- `Resumes` with netsync, `MaxOther = 1`, `Faults = {"crash"}` or `{"full"}`: the file `state`
  is truncated and written again without a look at errors (1365, 2152); when it is left
  empty, every later synchronisation ends with "Failed to read statefile" (1050) and
  nothing creates the file anew (376).

Sending (`RatSender`):
- `NothingLost` with `NewestFirst = TRUE` and no user actions: when the answer comes,
  the sender removes message 0, whichever that is by then ("Remove message from
  outfolder", 274); with the newest first a message queued meanwhile is removed unsent
  and the other one is sent again.
- `NothingLost` and `Survives` with flag and expunge: the same removal of message 0,
  after the user has expunged the one that was being sent (275).
- `OnlineOnly` with line and netsync: a nudge and the end of a message do not look at
  the option (`folder.tcl:2402`).
- `Answered` with netsync and `MaxDeaths = 1`: after "Sender died!" the next message is
  written to the dead sender and `is_sending` stays set (240).
- `Survives` and `Responsive` with netsync and `MaxDeaths = 1`: a failed write leaves
  the file handler behind (422, 483).
- `SentOnce` with quit and `MaxStarts = 1`: `PrepareQuit` waits for a variable that is
  never set (`folder.tcl:1499`).

Connection cache (`RatSmtpCache`):
- `PruneEnds` with two hosts and one cache time: the loop does not advance past an
  expiry that is not earlier than all before it (571).
- `ExpiryNoticed` with one host: the alarm is swallowed by `SafeRead`, which starts the
  read again (`ratAppInit.c:2666`).

Connections (`RatConnections`, the constants of its run):
- `Recorded`: a stream that replaces a dead connection found in the list gets no
  record of its own, since the record is made only when no connection was found
  (`stream && !connPtr`, `ratStdFolder.c:231`); the folder that has it does not hear of new mail or of errors.
- `OwnersOpen` without "shared": a folder opened to append takes a connection in use
  without its handlers, and when the folder they belong to closes first the
  connection points to freed memory (307).
- `NoOrphans` without "lost": an update that finds the stream dead closes the folder
  with its stream forgotten (712), so the connection is never given back.
- `StreamsLive` without "broken": a recycled stream that loses its connection in
  `mail_open` is freed there, and its record stays.
- `NoOrphans` without "unwritten": `ReadDisk` leaves the token of a timer unwritten, and
  the purge deletes the timer of that name, whose ever it is.
- `PurgedForGood`: a purge that cannot open the file (178, 187) leaves the stored passwords
  in it, drops the list and tells nobody, although it is to "Purge that password
  cache, both in memory and on disk" (`doc/interface:573`); the next process reads them again.
- Read beside the model: `logIgnore` is counted up when a login is cancelled and
  never down again (1867; `doc/changes:2478`), so later messages of the
  library are not shown.
- In line with the docs: connections to POP servers are not cached
  (`doc/changes:3704`), and no connection or password is cached when the login failed
  (`doc/changes:3114`).

Folders (`RatFolder`, two windows, three messages):
- `Fresh`: an update that finds as many new messages as it expunges, or another sort
  order, does not draw the other windows again: their rows are no longer "an index
  into the list of messages" (`doc/interface:87`), and a mark goes to another
  message (`doc/changes:1899` has the general form, "Folder list could get out of
  sync").
- `Counted` with `FaultKinds = {"removed"}`: an update that fails clears the window and
  does not close the folder, which is then never freed.
- `CopyLive`: `RatFolderInsert` updates the folder after the insertion (`ratFolder.c:2047`),
  and when the update finds the stream dead it closes the folder by force
  (`ratStdFolder.c:712`). `RatMessageCmd` then closes what is freed (`ratMessage.c:438`). The
  insertion into an empty folder closes once by itself, too (`ratStdFolder.c:785`).
- `FlagsMeant` with `{"overread"}`, exception removed: `Std_SetFlagProc` compares the
  last number with what is behind the list (850), and the flags of a run at the end
  are not sent.
- Read beside the model: the loop of the timer takes the next folder before the update
  that may free it (1937).

Threads (`RatThread`):
- `RepliesBelow`: when a message becomes the first child by its subject, the parent of
  the child that was first is reset (1071), so that one can be taken for a message on
  top and moved, against the comment at 1031 ("Here we try to link the top nodes in all
  trees by subject"). The tree by references is torn.
- `EveryMessageOnce` with `SixSpec` and six messages: the same reset hides messages. The
  messages are numbered by date; 1 answers 5 (whose clock was ahead), 5 answers 0, 3 and 4
  answer 1; 1 and 2 have one subject, the others another. After the first pass 0 is
  above 5, 5 above 1, and 1 above 3 and 4; 4 names its neighbour 3 as its parent. Then 2
  joins 1 by its subject and becomes its first child, so that 3 has no parent, is taken for a
  message on top and goes below 0, where it resets the parent of 5. From 4, `IsChild`
  now goes by 3 to 0 and does not see 5, which has the subject of 4, although it is there to
  "See if one message has the other as one of its ancestors" (1312): 5 is put below 4, its
  own descendant, and 1, 2, 4 and 5 are on no list that `RatFolderSortLinearize`
  follows. What it does not write in `p` keeps the order of dates, so other messages are shown
  twice. The release notes have "The threaded folder sort could sometimes hide
  messages" as fixed (`doc/changes:2043`).

Database folders (`RatDbFolder`, two searches, two entries unless said):
- `OrderPresents` with no faults: `Db_UpdateProc` answers with a negative number when
  it finds fewer messages (323), where the interface says "It return -1 on errors,
  otherwise the number of new messages is returned" (`ratFolder.h:123`); the list is
  shorter, the order is not made anew, then or at the next update, and leads behind the
  list, although it is "The order in which these messages should be presented to the
  user" (`ratFolder.h:221`).
- `MovesKeep` with one search and `FaultKinds = {"insert"}`: `Db_InsertProc` drops the
  result of the insertion (379), where "in case of error it should be TCL_ERROR"
  (`ratFolder.h:132`), so `VFolderInsertDo` deletes the original of a message that was
  not stored (`vfolder.tcl:705`).
- `Survives` with `MaxOther = 1`: a mark on an entry that another process has expunged
  follows the null pointer of `RatDbGetEntry` (414).
- `CommandsRight` with `MaxOther = 1`: a list that finds as many other messages keeps
  the commands of the old ones (318).
- `AnswersRight` with no faults: the folder's own expunge moves the commands and does not
  renumber them (278), so that a command that is kept answers subject, sender, date and
  flags of another message, or of none (`ratDbMessage.c:381`), and the headers and the text of
  its own. `Std_UpdateProc` does renumber (`ratStdFolder.c:690`).
- Read beside the model: `newStatus` has room for four flags and a message may carry
  six (408).

## 6. Plan

Done: `RatDbase` with its verification, `RatDbaseLog`, `MessageStore`,
`RatDbaseLogProofs`, `RatDisFolder`, `RatDisFolderProofs`,
`RatSender`, `Outbox`, `RatSenderProofs`, `RatSmtpCache`, `RatSmtpCacheProofs`,
`RatPwCache`, `RatConnections`, `RatConnectionsProofs`, `RatFolder`, `RatFolderProofs`, `RatThread`, `RatDbFolder`,
`RatDbFolderProofs`.

To model, in this order:
1. In `RatDbase`: the moves inside `RatDbExpire` (the daily backup), malformed entries in the verification (2556).
2. In `RatDisFolder`: a change of uidvalidity (1135).
3. The other orders of `RatFolderSort`: dates that are far apart (1225) and data that is
   left unset (873).
4. `RatSequence` (`ratSequence.c`): the text of a sequence against the set.

To prove: `SyncMirrors` for `RatDisFolder`; `RepliesLinked` for `RatThread`.
