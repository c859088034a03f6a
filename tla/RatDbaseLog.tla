---------------------------- MODULE RatDbaseLog ----------------------------
(***************************************************************************)
(* What the files of the message database mean, what the agents' memories  *)
(* must therefore hold, and the promise of MessageStore.                   *)
(***************************************************************************)
EXTENDS RatDbase, SequencesExt

\* One record of the log applied to a list of entries, when the index is idx:
\* the reference for Sync(), which works through the counters of an agent.
Applied(idx, view, r) ==
  CASE r.op = "a" /\ r.at \in 1..Len(idx) -> Append(view, idx[r.at])
    [] r.op = "d" /\ r.at \in 1..Len(view) -> [view EXCEPT ![r.at].gone = TRUE]
    [] r.op = "s" /\ r.at \in 1..Len(view) -> [view EXCEPT ![r.at].del = r.del]
    [] r.op = "k" -> [i \in 1..Len(view) |->
                        IF i \in r.at THEN [view[i] EXCEPT !.kw = r.kw]
                                      ELSE view[i]]
    [] OTHER -> view

\* The first k records of a log on the first n entries of the index idx.
Replay(idx, n, log, k) ==
  LET upTo[j \in 0..k] == IF j = 0 THEN SubSeq(idx, 1, n)
                          ELSE Applied(idx, upTo[j - 1], log[j])
  IN  upTo[k]

\* What an agent that has read the first k records should hold.
View(k) == Replay(index, info, changes, k)

\* What the next agent to open the database gets to see.
FreshView == View(Len(changes))

Messages(view) == {view[i].msg : i \in LiveAt(view)}
MarkedIn(view) == {view[i].msg : i \in {j \in LiveAt(view) : view[j].del}}
Unkeyed(view)  == [i \in 1..Len(view) |-> [view[i] EXCEPT !.kw = NoKeywords]]

Compacting(a) == pc[a] \in {"c_files", "c_index", "c_info", "c_unlink"}

\* No compaction and no insertion is half done.
Settled == \A a \in Agents : ~Compacting(a) /\ pc[a] \notin {"i_file", "i_log"}

Quiet(a) == isRead[a] /\ Idle(a)

-----------------------------------------------------------------------------

\* Sync() "makes sure that the database in memory is consistent with the
\* master on disk" (ratDbase.c:457): an agent that has never dropped deleted
\* entries from the index holds exactly the index with the records it has
\* read so far, index for index, however the other agents' insertions,
\* deletions, compactions and exits fall between its own operations.
MemoryMatchesDisk ==
  Settled => \A a \in Agents : Quiet(a) /\ stale[a] = 0 =>
                Unkeyed(mem[a]) = Unkeyed(View(changeSize[a]))

\* The count in index.info and the 'a' records of the log account for every
\* entry of the index: a failed insertion leaves no entry behind, and no
\* compaction counts the deleted entries the agent keeps in memory.  Were it
\* off by one, the next agent would miss the newest message or fail to open.
CountsAgree == Settled => info + Cardinality(Records("a")) = Len(index)

\* An agent that has the database open can read the file of every message it
\* takes for live: no other agent's compaction removes it meanwhile.
FilesBacked ==
  \A a \in Agents : isRead[a] => Messages(mem[a]) \subseteq files

\* The contents of the database while an agent compacts are that agent's.
Contents ==
  IF \E a \in Agents : Compacting(a)
    THEN mem[CHOOSE a \in Agents : Compacting(a)]
    ELSE FreshView

Store == INSTANCE MessageStore
           WITH accepted <- inserted, dropped <- condemned,
                store <- Messages(Contents), marked <- MarkedIn(Contents)

\* An agent that still holds entries it has dropped from the index no longer
\* reads or writes the log: its indices are off (ConsistentWithMaster).  It may
\* read a message, and exit.
Restarts ==
  \A a \in Agents : Idle(a) /\ stale[a] > 0 => pc'[a] \in {"idle", "unlock", "dead"}

\* The users start the program again once it has done so.
RestartingSpec == /\ Init /\ [][Next /\ Restarts]_vars
                  /\ \A a \in Agents : WF_vars(Continue(a))

\* A verification that mends comes to its end.
Fixed(a) == \/ pc[a] = "v_index" /\ pc'[a] = "unlock" /\ work[a].fix
            \/ pc[a] = "v_unlink" /\ pc'[a] \in {"unlock", "restart"}

\* The next agent to open the database finds every entry of the index, and
\* exactly the messages that have a file.
Whole ==
  /\ info + Cardinality(Records("a")) = Len(index)
  /\ {FreshView[i].msg : i \in DOMAIN FreshView} = files

\* Whatever insertion, compaction or earlier verification died half way, one
\* that mends, run while nobody else has the database open, leaves every message
\* that has a file in the index and no entry without one: a message that only
\* the index has lost is found "when you check the database"
\* (doc/changes:3333-3335).
Repaired == [][\A a \in Agents : Fixed(a) /\ work[a].alone => Whole']_vars

\* What is on disk implements MessageStore: whatever opens, exits, failed
\* insertions and compactions fall between, what the next agent will read is
\* what was inserted and not deleted, with the marks last set.
ImplementsStore == Store!Spec

\* "The lock obtained must be released with a call to the Unlock() procedure"
\* (ratDbase.c:375-376): an agent that inserts, marks, expunges or expires, and
\* does not die, lets the lock go again, where a step fails included.  It is not
\* so of RatDbGetMessage (1496) and RatDbCheck (2444, 2514), which leave the lock
\* behind when a file cannot be read: the run has neither of them.
LockReleased ==
  \A a \in Agents : (lock = a) ~> (lock # a \/ pc[a] = "dead")

-----------------------------------------------------------------------------
(* What the comments say and the code does not do.                         *)

\* "Make sure that the database in memory is consistent with the master on
\* disk" (ratDbase.c:457-458): an agent that has read the whole log sees the
\* messages the next agent to open the database will see.
ConsistentWithMaster ==
  Settled => \A a \in Agents : Quiet(a) /\ changeSize[a] = Len(changes) =>
                Messages(mem[a]) = Messages(FreshView)

\* "If the number of changes is at least 20 and we are the only agent which
\* have the database open we write the changes into the main index"
\* (ratDbase.c:649-651): the keywords in memory survive the compaction.
ChangesReachIndex ==
  \A a \in Agents : Quiet(a) /\ changes = <<>> /\ stale[a] = 0 =>
                      mem[a] = SubSeq(index, 1, info)

\* "This file should be touched at least once every hour" (ratDbase.c:55-56):
\* the rlock of an agent that has the database open never gets old.
RlockStaysFresh == \A a \in Agents : isRead[a] => age[a] < RlockTimeout

\* "While a lock like this is active nobody but the owner of the lock may do
\* anything to the database" (ratDbase.c:373-375).
OnlyOwnerWrites ==
  [][\A a \in Agents : pc'[a] # pc[a] /\ lock \notin {None, a}
                         => UNCHANGED disk]_vars

\* "Deletes all entries marked for deletion (status contains D)"
\* (ratDbase.c:1737): what an expunge deletes is marked, by what is on disk.
ExpungesOnlyMarked ==
  [][\A m \in condemned' \ condemned : m \in MarkedIn(FreshView)]_vars

\* "We should also check that nobody else has a read lock as well"
\* (ratDbase.c:2427): the index is written anew only while nobody else has the
\* database open.
MendsAlone ==
  [][\A a \in Agents : pc[a] = "v_index" /\ pc'[a] = "v_write"
                         => \A b \in Agents \ {a} : ~isRead[b]]_vars

\* A verification marks no message that was not marked.
MarksSurvive ==
  [][\A a \in Agents : Fixed(a) /\ work[a].alone =>
       (MarkedIn(FreshView))' \subseteq MarkedIn(FreshView)]_vars
=============================================================================
