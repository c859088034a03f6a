----------------------------- MODULE RatPwCache -----------------------------
(***************************************************************************)
(* The passwords TkRat remembers (lib/ratPwCache.c): a list in memory,     *)
(* newest first, the file of those the user asked to store, and the timers *)
(* that erase the others.                                                  *)
(*                                                                         *)
(* Abstractions: an entry is the specification of its mailbox in canonical *)
(* form (Canonify drops "/debug" and the name of the folder); a server     *)
(* accepts or refuses what it is sent, so the password itself is left out. *)
(* The option pwcache_file is set.  A line that was not written to its end *)
(* is not read (feof), so that the file is a sequence of whole lines.      *)
(***************************************************************************)
EXTENDS Integers, Sequences, SequencesExt, FiniteSetsExt, Selection

CONSTANTS
  Specs,      \* the mailboxes' specifications, in canonical form
  PwTimeout   \* the option cache_passwd_timeout is not 0

ASSUME PwAssumption == PwTimeout \in BOOLEAN

VARIABLES
  cache,        \* cache: what is remembered, newest first
  file,         \* the lines of the file, or none
  initialized,  \* the file has been read
  leftover      \* history: the file holds what the list does not, since it
                \* could not be read or, by a purge, not be written

pwVars == <<cache, file, initialized, leftover>>

\* A token of an entry: of a timer that runs, of none, or never written.
Tokens == {"set", "none", "unwritten"}

PwInit == cache = <<>> /\ file = <<>> /\ initialized = FALSE /\ leftover = FALSE

-----------------------------------------------------------------------------
(* What ReadDisk makes the list: each line is put in front of it.  It ends *)
(* where the file cannot be read, or begins nowhere if fopen fails, and    *)
(* never tries again.                                                      *)
FromLine(spec) == [spec |-> spec, onDisk |-> TRUE, token |-> "unwritten"]

ReadDisk ==
  IF initialized THEN {cache}
  ELSE {Reverse([i \in DOMAIN lines |-> FromLine(lines[i])]) : lines \in Prefixes(file)}

Missed(read) == ~initialized /\ Len(read) < Len(file)

\* Everything goes to the disk.
Stored_All(c) == [i \in DOMAIN c |-> c[i].spec]

\* the lines WriteDisk writes
Stored(c) ==
  LET kept == Selected(c, {i \in DOMAIN c : c[i].onDisk})
  IN  [i \in DOMAIN kept |-> kept[i].spec]

\* WriteDisk: the old file is wiped and unlinked before the new one is opened,
\* which a full disk ends early; a file that cannot be opened stays as it is
\* (apart: it then holds what the list does not).
WriteDisk(c, apart) ==
  \/ file' \in Prefixes(Stored(c)) /\ leftover' = FALSE
  \/ UNCHANGED file /\ leftover' = apart

TouchEntry(e) ==
  IF e.onDisk THEN e ELSE [e EXCEPT !.token = IF PwTimeout THEN "set" ELSE "none"]

Touched(c, i) == [c EXCEPT ![i] = TouchEntry(@)]

Entries(c, spec) == {i \in DOMAIN c : c[i].spec = spec}

-----------------------------------------------------------------------------
\* RatGetCachedPassword finds one, and its timer starts again.
GetCachedPassword(spec) ==
  /\ \E c \in ReadDisk :
       /\ Entries(c, spec) # {}
       /\ cache' = Touched(c, Min(Entries(c, spec)))
       /\ leftover' = (leftover \/ Missed(c))
  /\ initialized' = TRUE
  /\ UNCHANGED file

\* RatGetCachedPassword finds none.
NoCachedPassword(spec) ==
  /\ \E c \in ReadDisk :
       /\ Entries(c, spec) = {}
       /\ cache' = c
       /\ leftover' = (leftover \/ Missed(c))
  /\ initialized' = TRUE
  /\ UNCHANGED file

RatCachePassword(spec, store) ==
  /\ initialized' = TRUE
  /\ \E read \in ReadDisk :
       LET new   == [spec |-> spec, onDisk |-> store, token |-> "none"]
           c     == <<new>> \o read
           apart == leftover \/ Missed(read) IN
       IF store THEN cache' = c /\ WriteDisk(c, apart)
       ELSE cache' = Touched(c, 1) /\ leftover' = apart /\ UNCHANGED file

ErasePasswd(i) ==
  /\ i \in DOMAIN cache /\ cache[i].token = "set"
  /\ cache' = RemoveAt(cache, i)
  /\ UNCHANGED <<file, initialized, leftover>>

\* RatPasswdCachePurge, which the menu calls with disk_also
PasswdCachePurge ==
  /\ cache' = <<>> /\ initialized' = TRUE
  /\ WriteDisk(<<>>, file # <<>>)

\* A new process.
PwRestart ==
  /\ cache' = <<>> /\ initialized' = FALSE /\ leftover' = FALSE
  /\ UNCHANGED file

-----------------------------------------------------------------------------
\* One password for a mailbox: an older one would never be found again, but it
\* would come back from the disk, where ReadDisk turns the order around.
OnePerSpec ==
  /\ \A i, j \in DOMAIN cache : cache[i].spec = cache[j].spec => i = j
  /\ \A i, j \in DOMAIN file : file[i] = file[j] => i = j

\* What the user did not ask to store is forgotten after a while, and no older
\* line of the file speaks for it, unless the file was left behind.
Temporary ==
  \A i \in DOMAIN cache : ~cache[i].onDisk =>
    /\ PwTimeout => cache[i].token = "set"
    /\ ~leftover => cache[i].spec \notin ToSet(file)

\* The file holds nothing but passwords that are in memory to be stored (a
\* failure to write it again may lose them), unless it was left behind: from the
\* first time that it is written after that, or with the next process, it does.
FileKnown == initialized /\ ~leftover => ToSet(file) \subseteq ToSet(Stored(cache))

-----------------------------------------------------------------------------
(* What the code does not do.                                              *)

\* What is purged is gone: not if the file cannot be opened then, and it comes
\* back when the program is started again.
PurgedForGood == initialized => ToSet(file) \subseteq ToSet(Stored(cache))

=============================================================================
