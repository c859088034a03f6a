--------------------------- MODULE RatConnections ---------------------------
(***************************************************************************)
(* The connections to mail servers (lib/ratStdFolder.c): Std_StreamOpen    *)
(* and Std_StreamClose count who uses a stream, keep what is not in use    *)
(* for a while and take it into use again; the login dialog, in which the  *)
(* timers run; the error flags and handlers of the folders, to which the   *)
(* connections point; lost connections; going off line.                    *)
(*                                                                         *)
(* Abstractions: a specification is its server; a folder is opened to be   *)
(* read ("std"), as the master of a disconnected folder ("dis") or to      *)
(* append to it ("append"), and "manage" stands for the commands that open *)
(* a stream and close it again.  A disconnected folder that goes on line   *)
(* again is a new folder.  A recycled stream that loses its connection in  *)
(* mail_open and gets a new one is taken for one that did not lose it.     *)
(***************************************************************************)
EXTENDS RatPwCache, FiniteSets

CONSTANTS
  Imap,       \* the servers that speak IMAP
  MaxOpens,   \* bound: folders and streams opened
  MaxDrops,   \* bound: connections that break
  MaxRestarts \* bound: ends of the program

ASSUME ConstantsAssumption ==
  Imap \subseteq Specs /\ {MaxOpens, MaxDrops, MaxRestarts} \subseteq Nat

VARIABLES
  streams,   \* the MAILSTREAMs: half-open, not freed, with a connection
  conns,     \* connListPtr
  folders,   \* the folders that were opened: kind, stream (0: NIL), error
  dialog,    \* the open that waits for the user, or NoDialog
  offline,   \* RatStdCheckNet has called SetOnlineStatus
  faults,    \* history: what makes some promises void
  drops, restarts   \* bounds

connVars == <<streams, conns, folders>>
vars == <<cache, file, initialized, leftover, streams, conns, folders, dialog,
          offline, faults, drops, restarts>>

Kinds == {"std", "dis", "append", "manage"}
\* What is freed.
NoStream == [half |-> FALSE, live |-> FALSE, up |-> FALSE]
NoFolder == [kind |-> "std", stream |-> 0, error |-> FALSE, open |-> FALSE]

NoDialog == [kind |-> "none"]
Nobody == 0

Init ==
  /\ PwInit
  /\ streams = <<>> /\ conns = <<>> /\ folders = <<>>
  /\ dialog = NoDialog /\ offline = FALSE
  /\ faults = {} /\ drops = 0 /\ restarts = 0

Idle == dialog = NoDialog /\ ~offline

HalfOpen(kind) == kind \in {"append", "manage"}

-----------------------------------------------------------------------------
(* Connections.                                                            *)

\* The folder to whose handlers and error flag a new use points: the next one.
Owner(kind) == IF kind = "manage" THEN Nobody ELSE Len(folders) + 1

\* *errorFlagPtr: what it says when the folder is freed is anybody's guess.
ErrorFlag(owner) ==
  IF owner = Nobody \/ owner > Len(folders) THEN {FALSE}
  ELSE IF folders[owner].open THEN {folders[owner].error} ELSE BOOLEAN

\* mail_ping, of a freed stream too
Ping(s) == IF streams[s].live THEN {streams[s].up} ELSE BOOLEAN

\* A connection somebody uses is shared with whoever opens a mailbox there.
Usable_InUse(c, h, half) ==
  c.host = h /\ (~streams[c.stream].half \/ half)

\* the test in the loop of Std_StreamOpen
Usable(c, h, half) ==
  /\ c.closing \/ half
  /\ c.host = h
  /\ ~streams[c.stream].half \/ half

Found(h, half) == {i \in DOMAIN conns : Usable(conns[i], h, half)}

\* The timer goes on.
Taken_Timed(c, kind) ==
  [c EXCEPT !.refs = @ + 1, !.closing = FALSE,
            !.owner = IF c.closing THEN Owner(kind) ELSE @]

Taken(c, kind) ==
  [c EXCEPT !.refs = @ + 1, !.timer = FALSE, !.closing = FALSE,
            !.owner = IF c.closing THEN Owner(kind) ELSE @]

\* The handlers and the flag are not forgotten.
Cached_Pointers(c) ==
  [c EXCEPT !.refs = 0, !.closing = TRUE, !.timer = TRUE]

Cached(c) ==
  [c EXCEPT !.refs = 0, !.closing = TRUE, !.timer = TRUE, !.owner = Nobody]

\* Nothing is closed that the list does not know.
MailClose_Nothing(ss, s) == ss

\* mail_close
MailClose(ss, s) == [ss EXCEPT ![s] = NoStream]

\* Std_StreamClose, when the list is cs and the streams are ss
StreamClose(cs, ss, s) ==
  LET users == {i \in DOMAIN cs : cs[i].stream = s} IN
  \/ users = {} /\ conns' = cs /\ streams' = MailClose(ss, s)
  \/ \E i \in users :
       \/ /\ cs[i].refs > 1
          /\ conns' = [cs EXCEPT ![i].refs = @ - 1] /\ streams' = ss
       \/ /\ cs[i].refs = 1
          /\ cs[i].host \in Imap /\ FALSE \in ErrorFlag(cs[i].owner)
          /\ conns' = [cs EXCEPT ![i] = Cached(@)] /\ streams' = ss
       \/ /\ cs[i].refs = 1
          /\ cs[i].host \notin Imap \/ TRUE \in ErrorFlag(cs[i].owner)
          /\ conns' = RemoveAt(cs, i) /\ streams' = MailClose(ss, s)

\* CloseConnection
CloseConnection(i) ==
  /\ conns' = RemoveAt(conns, i)
  /\ streams' = MailClose(streams, conns[i].stream)

-----------------------------------------------------------------------------
(* Std_StreamOpen and its callers.                                         *)

Folder(kind, s) == [kind |-> kind, stream |-> s, error |-> FALSE, open |-> TRUE]

\* The stream s is open: a folder, after those of fs, has it; or a command is
\* done with it.
Opened(kind, cs, ss, fs, s) ==
  IF kind = "manage" THEN StreamClose(cs, ss, s) /\ folders' = fs
  ELSE /\ conns' = cs /\ streams' = ss
       /\ folders' = Append(fs, Folder(kind, s))

\* mail_open leaves a stream half-open when the server refuses the mailbox.
Refused(cs, ss, fs, s) == StreamClose(cs, ss, s) /\ folders' = fs

Reuse(kind, h) ==
  /\ Idle /\ Len(folders) < MaxOpens
  /\ \E i \in Found(h, HalfOpen(kind)) :
     LET s     == conns[i].stream
         taken == [conns EXCEPT ![i] = Taken(@, kind)]
     IN
     /\ \A j \in Found(h, HalfOpen(kind)) : i <= j
     /\ TRUE \in Ping(s)
     /\ \/ /\ HalfOpen(kind) /\ Opened(kind, taken, streams, folders, s)
           /\ faults' = IF kind = "append" /\ ~conns[i].closing
                        THEN faults \cup {"shared"} ELSE faults
           /\ UNCHANGED drops
        \/ /\ ~HalfOpen(kind)
           /\ \/ Opened(kind, taken, [streams EXCEPT ![s].half = FALSE], folders, s)
              \/ Refused(taken, [streams EXCEPT ![s].half = TRUE], folders, s)
           /\ UNCHANGED <<faults, drops>>
        \/ /\ ~HalfOpen(kind) /\ drops < MaxDrops
           /\ conns' = taken
           /\ streams' = MailClose(streams, s)
           /\ folders' = Append(folders, NoFolder)
           /\ faults' = faults \cup {"broken"} /\ drops' = drops + 1
  /\ UNCHANGED <<cache, file, initialized, leftover, dialog, offline, restarts>>

\* The server has let us in: a new stream, and a record of it unless a record
\* of a dead connection was found.
Connected(kind, h, known, fs) ==
  LET s      == Len(streams) + 1
      record == [stream |-> s, host |-> h, refs |-> 1, closing |-> FALSE,
                 timer |-> FALSE, owner |-> Owner(kind)]
      cs     == IF known THEN conns ELSE <<record>> \o conns
      ss(half) == Append(streams, [half |-> half, live |-> TRUE, up |-> TRUE])
  IN
  \/ Opened(kind, cs, ss(HalfOpen(kind)), fs, s)
  \/ ~HalfOpen(kind) /\ Refused(cs, ss(TRUE), fs, s)

\* The ping of a dead connection tells its owner.
Notified(owner) ==
  IF owner \in DOMAIN folders /\ folders[owner].open
  THEN [folders EXCEPT ![owner].error = TRUE] ELSE folders

\* No connection answers: either there is none, or the first that fits is dead.
NoConnection(kind, h) ==
  /\ Idle /\ Len(folders) < MaxOpens /\ Len(streams) < MaxOpens
  /\ \A i \in Found(h, HalfOpen(kind)) :
       i = Min(Found(h, HalfOpen(kind))) => FALSE \in Ping(conns[i].stream)

Pinged(kind, h) ==
  LET found == Found(h, HalfOpen(kind)) IN
  IF found = {} THEN folders ELSE Notified(conns[Min(found)].owner)

\* mm_login has the password, and the server accepts it.
Connect(kind, h) ==
  /\ NoConnection(kind, h)
  /\ GetCachedPassword(h)
  /\ Connected(kind, h, Found(h, HalfOpen(kind)) # {}, Pinged(kind, h))
  /\ UNCHANGED <<dialog, offline, faults, drops, restarts>>

\* The server does not answer, or it refuses the password.
Fail(kind, h) ==
  /\ NoConnection(kind, h)
  /\ GetCachedPassword(h) \/ UNCHANGED pwVars
  /\ folders' = Pinged(kind, h)
  /\ UNCHANGED <<conns, streams, dialog, offline, faults, drops, restarts>>

\* mm_login asks the user.
Ask(kind, h) ==
  /\ NoConnection(kind, h)
  /\ NoCachedPassword(h)
  /\ dialog' = [kind |-> kind, host |-> h, known |-> Found(h, HalfOpen(kind)) # {}]
  /\ folders' = Pinged(kind, h)
  /\ UNCHANGED <<conns, streams, offline, faults, drops, restarts>>

\* The user answers and the server accepts; a password is kept with a record.
Answer(store) ==
  /\ dialog # NoDialog /\ ~offline
  /\ Connected(dialog.kind, dialog.host, dialog.known, folders)
  /\ IF dialog.known THEN UNCHANGED pwVars ELSE RatCachePassword(dialog.host, store)
  /\ dialog' = NoDialog
  /\ UNCHANGED <<offline, faults, drops, restarts>>

\* The server refuses three times, or the user cancels.
GiveUp ==
  /\ dialog # NoDialog /\ ~offline
  /\ dialog' = NoDialog
  /\ UNCHANGED <<cache, file, initialized, leftover, streams, conns, folders, offline,
                 faults, drops, restarts>>

-----------------------------------------------------------------------------
(* Closing.                                                                *)

CloseFolder(f) ==
  /\ Idle /\ folders[f].open
  /\ IF folders[f].stream = 0 THEN UNCHANGED <<conns, streams>>
     ELSE StreamClose(conns, streams, folders[f].stream)
  /\ folders' = [folders EXCEPT ![f] = NoFolder]
  /\ UNCHANGED <<cache, file, initialized, leftover, dialog, offline, faults,
                 drops, restarts>>

CloseTimer(i) ==
  /\ ~offline /\ conns[i].timer
  /\ CloseConnection(i)
  /\ UNCHANGED <<cache, file, initialized, leftover, folders, dialog, offline,
                 faults, drops, restarts>>

EraseTimer(i) ==
  /\ ~offline /\ ErasePasswd(i)
  /\ UNCHANGED <<streams, conns, folders, dialog, offline, faults,
                 drops, restarts>>

\* The listings of a set of numbers in increasing order (there is one).
Ascending(S) ==
  {at \in [1 .. Cardinality(S) -> S] :
     /\ \A k, l \in 1 .. Cardinality(S) : k < l => at[k] < at[l]
     /\ \A i \in S : \E k \in 1 .. Cardinality(S) : at[k] = i}

\* Going off line: the masters are closed, then all that is cached.
GoOffline ==
  LET masters == {folders[f].stream : f \in {g \in DOMAIN folders :
                    folders[g].open /\ folders[g].kind = "dis"}}
      Less(c) == IF c.stream \in masters THEN [c EXCEPT !.refs = @ - 1] ELSE c
      used    == {i \in DOMAIN conns : ~conns[i].closing /\ Less(conns[i]).refs > 0}
      kept    == {conns[i].stream : i \in used}
      ended   == (masters \cup {conns[i].stream : i \in DOMAIN conns}) \ kept
  IN
  /\ dialog = NoDialog \/ offline
  /\ \E at \in Ascending(used) :
       conns' = [k \in 1 .. Cardinality(used) |-> Less(conns[at[k]])]
  /\ streams' = [s \in DOMAIN streams |->
                   IF s \in ended THEN NoStream ELSE streams[s]]
  /\ folders' = [f \in DOMAIN folders |->
                   IF folders[f].open /\ folders[f].kind = "dis"
                   THEN [folders[f] EXCEPT !.stream = 0] ELSE folders[f]]
  /\ offline' = FALSE
  /\ UNCHANGED <<cache, file, initialized, leftover, dialog, faults, drops, restarts>>

\* The menu of the window: no password is left, and the tokens that ReadDisk
\* never wrote may be those of other timers.
Purge ==
  /\ Idle
  /\ PasswdCachePurge
  /\ \/ UNCHANGED <<conns, faults>>
     \/ \E i \in DOMAIN conns, e \in UNION {ToSet(c) : c \in ReadDisk} :
          /\ e.token = "unwritten"
          /\ conns' = [conns EXCEPT ![i].timer = FALSE]
          /\ faults' = faults \cup {"unwritten"}
  /\ UNCHANGED <<streams, folders, dialog, offline, drops, restarts>>

-----------------------------------------------------------------------------
(* Lost connections.                                                       *)

Drop(s) ==
  /\ drops < MaxDrops
  /\ streams[s].live /\ streams[s].up
  /\ streams' = [streams EXCEPT ![s].up = FALSE]
  /\ drops' = drops + 1
  /\ UNCHANGED <<cache, file, initialized, leftover, conns, folders, dialog,
                 offline, faults, restarts>>

Dead(f) ==
  /\ folders[f].open /\ folders[f].stream # 0
  /\ FALSE \in Ping(folders[f].stream)

\* mm_notify, in any call on the stream
Bye(f) ==
  /\ Idle /\ Dead(f)
  /\ \E i \in DOMAIN conns :
       /\ conns[i].stream = folders[f].stream
       /\ folders' = Notified(conns[i].owner) /\ folders' # folders
  /\ UNCHANGED <<cache, file, initialized, leftover, streams, conns, dialog,
                 offline, faults, drops, restarts>>

\* Std_UpdateProc, from the timer too: the folder is closed without its stream.
Lost(f) ==
  /\ ~offline /\ Dead(f) /\ folders[f].kind = "std"
  /\ folders' = [folders EXCEPT ![f] = NoFolder]
  /\ faults' = faults \cup {"lost"}
  /\ UNCHANGED <<cache, file, initialized, leftover, streams, conns, dialog,
                 offline, drops, restarts>>

\* RatStdCheckNet: no connection is without an error
NoNet(cs) == \A i \in DOMAIN cs : TRUE \in ErrorFlag(cs[i].owner)
Net(cs)   == \E i \in DOMAIN cs : FALSE \in ErrorFlag(cs[i].owner)

\* A disconnected folder finds its error flag set and closes the master.
MasterLost(f) ==
  /\ ~offline /\ folders[f].open /\ folders[f].kind = "dis" /\ folders[f].error
  /\ folders[f].stream # 0
  /\ StreamClose(conns, streams, folders[f].stream)
  /\ folders' = [folders EXCEPT ![f].stream = 0]
  /\ \/ offline' = TRUE /\ NoNet(conns')
     \/ offline' = FALSE /\ Net(conns')
  /\ UNCHANGED <<cache, file, initialized, leftover, dialog, faults, drops, restarts>>

\* The program ends and starts again.
Restart ==
  /\ restarts < MaxRestarts
  /\ PwRestart
  /\ conns' = <<>>
  /\ streams' = [s \in DOMAIN streams |-> NoStream]
  /\ folders' = [f \in DOMAIN folders |-> NoFolder]
  /\ dialog' = NoDialog /\ offline' = FALSE
  /\ restarts' = restarts + 1
  /\ UNCHANGED <<faults, drops>>

-----------------------------------------------------------------------------
User ==
  \/ \E kind \in Kinds, h \in Specs :
       \/ Reuse(kind, h) \/ Connect(kind, h) \/ Fail(kind, h) \/ Ask(kind, h)
  \/ \E store \in BOOLEAN : Answer(store)
  \/ \E f \in DOMAIN folders : CloseFolder(f)
  \/ GiveUp \/ GoOffline \/ Purge \/ Restart

Events ==
  \/ \E i \in DOMAIN conns : CloseTimer(i)
  \/ \E i \in DOMAIN cache : EraseTimer(i)
  \/ \E s \in DOMAIN streams : Drop(s)
  \/ \E f \in DOMAIN folders : Bye(f) \/ Lost(f) \/ MasterLost(f)

Next == User \/ Events

Spec == Init /\ [][Next]_vars

-----------------------------------------------------------------------------
InUse(f) == folders[f].open /\ folders[f].stream # 0

\* No folder that is open works on a stream that is closed: the timer of a
\* cached connection, the end of another folder, going off line and a refused
\* mailbox leave the streams in use alone.
StreamsLive ==
  "broken" \notin faults =>
    \A f \in DOMAIN folders : InUse(f) => streams[folders[f].stream].live

\* Two folders that are read never work on one stream, which has one mailbox.
OneOwner ==
  \A f, g \in DOMAIN folders :
    /\ InUse(f) /\ InUse(g) /\ folders[f].stream = folders[g].stream
    /\ {folders[f].kind, folders[g].kind} \subseteq {"std", "dis"}
    => f = g

\* No stream is forgotten: it has a folder, or a timer that will close it.
NoOrphans ==
  faults \cap {"lost", "broken", "unwritten"} = {} =>
    \A s \in DOMAIN streams : streams[s].live =>
      \/ \E f \in DOMAIN folders : InUse(f) /\ folders[f].stream = s
      \/ \E i \in DOMAIN conns : conns[i].stream = s /\ conns[i].timer

\* What a connection points to is there: the handlers and the error flag of a
\* folder that is open and has this stream.
OwnersOpen ==
  faults \cap {"lost", "broken", "shared"} = {} =>
    \A i \in DOMAIN conns : conns[i].owner # Nobody =>
      /\ conns[i].owner \in DOMAIN folders /\ InUse(conns[i].owner)
      /\ folders[conns[i].owner].stream = conns[i].stream

\* One password for a mailbox, in memory and on the disk; what the user did
\* not ask to store is not on the disk and is forgotten after a while; the file
\* holds what is remembered to be stored.
Passwords == OnePerSpec /\ Temporary /\ FileKnown

TypeOK ==
  /\ cache \in Seq([spec : Specs, onDisk : BOOLEAN, token : Tokens])
  /\ file \in Seq(Specs) /\ {initialized, leftover} \subseteq BOOLEAN
  /\ streams \in Seq([half : BOOLEAN, live : BOOLEAN, up : BOOLEAN])
  /\ \A f \in DOMAIN folders : folders[f].stream \in 0 .. Len(streams)
  /\ \A i \in DOMAIN conns :
       /\ conns[i].stream \in DOMAIN streams /\ conns[i].host \in Specs
       /\ conns[i].refs \in Nat /\ conns[i].closing = (conns[i].refs = 0)

-----------------------------------------------------------------------------
(* What the code does not do.                                              *)

\* A folder that is open hears of new mail: its stream is on the list.
Recorded ==
  \A f \in DOMAIN folders : InUse(f) =>
    \E i \in DOMAIN conns : conns[i].stream = folders[f].stream

=============================================================================
