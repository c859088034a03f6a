----------------------------- MODULE RatSender ------------------------------
(***************************************************************************)
(* The sending of messages by TkRat (lib/ratSender.c).  A message to send  *)
(* is inserted into the folder "outgoing".  The main process takes one     *)
(* message at a time from there, writes it into a pipe, and a child, the   *)
(* sender, talks to the mail server and answers through a second pipe.     *)
(* The answer comes as a file event to RatSenderHandler(), which removes   *)
(* the message from the folder and goes on with the next one.              *)
(*                                                                         *)
(* Each action of the main process is the part of a handler that runs      *)
(* without a look at the pipes; the sender runs in between, and can die.   *)
(* The user edits the folder in a window of his own, goes on and off line, *)
(* and quits and starts the program; the folder survives, as does a sender *)
(* in the middle of a message.                                             *)
(*                                                                         *)
(* Abstractions: a job is its message; a pipe takes it as a whole; the     *)
(* dialogs of a failed message, which grab the display, are over when the  *)
(* handler goes on; log events are left out.                               *)
(***************************************************************************)
EXTENDS Naturals, Sequences, FiniteSets, SequencesExt, FiniteSetsExt, Selection

CONSTANTS
  Msgs,            \* the messages
  SaveTo,          \* those of which a copy is to be saved when they are sent
  NewestFirst,     \* the option folder_sort: "reverseFolder" instead of "folder"
  ExpungeOnClose,  \* the option expunge_on_close
  UserActs,        \* what the user does besides queueing messages
  MaxDeaths,       \* bound: senders that die
  MaxStarts,       \* bound: times the program is started again
  None             \* no message

ASSUME ConstantsAssumption ==
  /\ SaveTo \subseteq Msgs /\ None \notin Msgs
  /\ NewestFirst \in BOOLEAN /\ ExpungeOnClose \in BOOLEAN
  /\ UserActs \subseteq {"flag", "expunge", "line", "netsync", "quit"}
  /\ MaxDeaths \in Nat /\ MaxStarts \in Nat

VARIABLES
  box,        \* the folder "outgoing", in folder order
  online,     \* option(online)
  pc,         \* the main process: "loop" waits for events, "down" does not run
  isSending,  \* is_sending
  created,    \* sender_created
  handler,    \* there is a file handler on from_sender
  stale,      \* there is one on a from_sender that is gone
  fh,         \* to_sender_fh is not NULL
  name,       \* the message in the works
  saveTo,     \* save_to_cmd: the message to save
  toSender, fromSender,   \* the pipes
  sender,     \* the sender process
  job,        \* the message it works on
  orphans,    \* the messages on which senders of earlier runs work
  queued,     \* history: the messages the user queued
  cancelled,  \* history: those of them the user deleted
  edited,     \* history: the user has marked a message in the folder
  delivered,  \* history: how often a server accepted a message
  returned,   \* history: the messages handed back to the user
  saved,      \* history: how often a copy was saved
  died,       \* history: the program followed a null pointer
  deaths, starts   \* bounds

folder  == <<box, queued, cancelled, edited>>
main    == <<isSending, created, handler, stale, fh, name, saveTo>>
pipes   == <<toSender, fromSender>>
process == <<sender, job, deaths>>
outcome == <<delivered, returned, saved>>
others  == <<online, orphans, died, starts>>
vars == <<folder, pc, main, pipes, process, outcome, others>>

Alive == {"idle", "working", "accepted", "refused"}

Init ==
  /\ box = <<>> /\ queued = {} /\ cancelled = {} /\ edited = FALSE
  /\ online \in BOOLEAN
  /\ pc = "loop"
  /\ isSending = FALSE /\ created = FALSE /\ handler = FALSE /\ stale = FALSE
  /\ fh = FALSE /\ name = None /\ saveTo = None
  /\ toSender = <<>> /\ fromSender = <<>>
  /\ sender = "none" /\ job = None /\ deaths = 0 /\ orphans = <<>>
  /\ delivered = [m \in Msgs |-> 0] /\ returned = {} /\ saved = [m \in Msgs |-> 0]
  /\ died = FALSE /\ starts = 0

-----------------------------------------------------------------------------
(* The folder.  The window of the user and the sender share it.            *)

InBox == {box[i].msg : i \in DOMAIN box}

\* An update that does not expunge.
Synced_Update(b) == b

\* RatUpdateFolder(RAT_SYNC): the messages that are marked go.
Synced(b) == Selected(b, {i \in DOMAIN b : ~b[i].deleted})

\* presentationOrder[0]
First(b) == IF NewestFirst THEN Len(b) ELSE 1

\* The last message instead.
FlagFirst_Last(b) == [b EXCEPT ![Len(b)].deleted = TRUE]

\* RatFolderCmdSetFlag(infoPtr, 0, RAT_DELETED): the first message presented
FlagFirst(b) == [b EXCEPT ![First(b)].deleted = TRUE]

-----------------------------------------------------------------------------
(* The user.                                                               *)

\* DoSend: insert the message, close the folder, nudge if online
Queue(m) ==
  /\ pc = "loop" /\ m \notin queued
  /\ queued' = queued \cup {m}
  /\ LET b == Append(box, [msg |-> m, deleted |-> FALSE]) IN
       box' = IF ExpungeOnClose THEN Synced(b) ELSE b
  /\ pc' = IF online THEN "nudge" ELSE "loop"
  /\ UNCHANGED <<cancelled, edited, main, pipes, process, outcome, others>>

\* the user marks a message in the window of the folder, or unmarks it
UserFlag(i) ==
  /\ pc = "loop" /\ "flag" \in UserActs
  /\ box' = [box EXCEPT ![i].deleted = ~@]
  /\ cancelled' = IF box[i].deleted THEN cancelled \ {box[i].msg}
                  ELSE cancelled \cup {box[i].msg}
  /\ edited' = TRUE
  /\ UNCHANGED <<queued, pc, main, pipes, process, outcome, others>>

UserExpunge ==
  /\ pc = "loop" /\ "expunge" \in UserActs
  /\ box' = Synced(box)
  /\ UNCHANGED <<queued, cancelled, edited, pc, main, pipes, process, outcome, others>>

\* RatLibSetOnlineMode
SetOnlineMode ==
  /\ pc = "loop" /\ "line" \in UserActs
  /\ online' = ~online
  /\ pc' = IF ~online THEN "nudge" ELSE "loop"
  /\ UNCHANGED <<folder, main, pipes, process, outcome, orphans, died, starts>>

NetworkSync ==
  /\ pc = "loop" /\ "netsync" \in UserActs
  /\ pc' = "nudge"
  /\ UNCHANGED <<folder, main, pipes, process, outcome, others>>

\* the main process is gone: an idle sender sees the end of its pipe and exits,
\* a busy one first ends the message it has got
Exit ==
  /\ pc' = "down"
  /\ isSending' = FALSE /\ created' = FALSE /\ handler' = FALSE /\ stale' = FALSE
  /\ fh' = FALSE /\ name' = None /\ saveTo' = None
  /\ toSender' = <<>> /\ fromSender' = <<>>
  /\ sender' = "none" /\ job' = None
  /\ orphans' = orphans \o toSender \o (IF sender = "working" THEN <<job>> ELSE <<>>)
  /\ UNCHANGED <<online, delivered, starts, deaths>>

\* PrepareQuit: ratSenderSending, for which it would wait, is never set
Quit ==
  /\ pc = "loop" /\ "quit" \in UserActs /\ starts < MaxStarts
  /\ Exit
  /\ UNCHANGED <<folder, returned, saved, died>>

Start ==
  /\ pc = "down" /\ starts < MaxStarts
  /\ starts' = starts + 1
  /\ pc' = IF online THEN "nudge" ELSE "loop"
  /\ UNCHANGED <<folder, main, pipes, process, outcome, online, orphans, died>>

-----------------------------------------------------------------------------
(* The main process.                                                       *)

\* RatNudgeSender: a new sender unless there is one
Nudge ==
  /\ pc = "nudge"
  /\ pc' = "send"
  /\ \/ created /\ UNCHANGED <<main, pipes, process>>
     \/ /\ ~created
        /\ created' = TRUE /\ fh' = TRUE /\ handler' = TRUE
        /\ stale' = (stale \/ handler)
        /\ toSender' = <<>> /\ fromSender' = <<>>
        /\ sender' = "idle" /\ job' = None
        /\ UNCHANGED <<isSending, name, saveTo, deaths>>
  /\ UNCHANGED <<folder, outcome, others>>

Readable == fromSender # <<>> \/ sender = "dead"

\* RatSenderHandler is called for an event, or waits for one in SafeRead
Reading ==
  \/ pc = "loop" /\ (handler \/ stale) /\ Readable
  \/ pc = "blocked" /\ Readable

\* the pipe of an old sender stays at its end: its handler is called although
\* from_sender, which by now is another pipe, holds nothing
Block ==
  /\ pc = "loop" /\ stale /\ ~Readable
  /\ pc' = "blocked"
  /\ UNCHANGED <<folder, main, pipes, process, outcome, others>>

\* the save command works while the message is there
SaveCopy ==
  saved' = IF saveTo \in InBox THEN [saved EXCEPT ![saveTo] = @ + 1] ELSE saved

\* ComposeContinue works while the message is there
GiveBack == returned' = IF name \in InBox THEN returned \cup {name} ELSE returned

\* The answer does not end the sending.
Done_Forgotten == UNCHANGED isSending

\* The answer ends the sending.
Done == isSending' = FALSE

\* EVENT_SEND_OK and EVENT_SEND_FAIL; there is no message to flag in an empty
\* folder, and none is looked for
Answer ==
  /\ Reading /\ fromSender # <<>>
  /\ \/ Head(fromSender) = "ok" /\ SaveCopy /\ UNCHANGED returned
     \/ Head(fromSender) = "fail" /\ GiveBack /\ UNCHANGED saved
  /\ \/ /\ box # <<>>
        /\ box' = FlagFirst(box)
        /\ Done
        /\ fromSender' = Tail(fromSender)
        /\ pc' = "send"
        /\ UNCHANGED <<created, handler, stale, fh, name, saveTo, toSender,
                       process, others, delivered>>
     \/ /\ box = <<>>
        /\ died' = TRUE
        /\ Exit
        /\ UNCHANGED box
  /\ UNCHANGED <<queued, cancelled, edited>>

\* "Sender died!"
SenderDied ==
  /\ Reading /\ fromSender = <<>>
  /\ handler' = FALSE /\ created' = FALSE /\ isSending' = FALSE
  /\ pc' = "send"
  /\ UNCHANGED <<folder, stale, fh, name, saveTo, pipes, process, outcome, others>>

\* A second message is started during the first.
Busy_Never == FALSE

\* "Are we already sending?"
Busy == isSending

\* Every message is saved.
SaveCommand_Any(m) == m

\* X-TkRat-Internal-Save-To: the command of the message before is forgotten
SaveCommand(m) == IF m \in SaveTo THEN m ELSE None

\* the rest of RatSenderHandler: take the first message of the folder
Send ==
  /\ pc = "send"
  /\ \/ Busy /\ pc' = "loop" /\ UNCHANGED <<box, main>>
     \/ /\ ~Busy
        /\ box' = Synced(box)
        /\ \/ box' = <<>> /\ pc' = "loop" /\ UNCHANGED main
           \/ /\ box' # <<>>
              /\ isSending' = TRUE
              /\ name' = box'[First(box')].msg
              /\ saveTo' = SaveCommand(name')
              /\ pc' = "write"
              /\ UNCHANGED <<created, handler, stale, fh>>
  /\ UNCHANGED <<queued, cancelled, edited, pipes, process, outcome, others>>

\* write the job; a long one fails when there is no sender, a short one stays in
\* the buffer and the failure of fflush is not noticed
Write ==
  /\ pc = "write" /\ fh
  /\ pc' = "loop"
  /\ \/ /\ sender \in Alive
        /\ toSender' = Append(toSender, name)
        /\ UNCHANGED main
     \/ /\ sender \notin Alive
        /\ UNCHANGED <<main, toSender>>
     \/ /\ sender \notin Alive
        /\ fh' = FALSE /\ created' = FALSE
        /\ UNCHANGED <<isSending, handler, stale, name, saveTo, toSender>>
  /\ UNCHANGED <<folder, fromSender, process, outcome, others>>

WriteNull ==
  /\ pc = "write" /\ ~fh
  /\ died' = TRUE
  /\ Exit
  /\ UNCHANGED <<folder, returned, saved>>

-----------------------------------------------------------------------------
(* The sender.                                                             *)

ReadJob ==
  /\ sender = "idle" /\ toSender # <<>>
  /\ sender' = "working" /\ job' = Head(toSender) /\ toSender' = Tail(toSender)
  /\ UNCHANGED <<folder, pc, main, fromSender, deaths, outcome, others>>

\* RatSendSMTP, RatSendProg
Deliver ==
  /\ sender = "working"
  /\ \/ sender' = "accepted" /\ delivered' = [delivered EXCEPT ![job] = @ + 1]
     \/ sender' = "refused" /\ UNCHANGED delivered
  /\ UNCHANGED <<folder, pc, main, pipes, job, deaths, returned, saved, others>>

Report ==
  /\ sender \in {"accepted", "refused"}
  /\ fromSender' = Append(fromSender, IF sender = "accepted" THEN "ok" ELSE "fail")
  /\ sender' = "idle" /\ job' = None
  /\ UNCHANGED <<folder, pc, main, toSender, deaths, outcome, others>>

Die ==
  /\ sender \in Alive /\ deaths < MaxDeaths
  /\ sender' = "dead" /\ job' = None /\ toSender' = <<>> /\ deaths' = deaths + 1
  /\ UNCHANGED <<folder, pc, main, fromSender, outcome, others>>

\* a sender whose main process is gone ends its message, cannot report and exits
Orphan ==
  /\ \E i \in DOMAIN orphans :
       /\ orphans' = RemoveAt(orphans, i)
       /\ \/ delivered' = [delivered EXCEPT ![orphans[i]] = @ + 1]
          \/ UNCHANGED delivered
  /\ UNCHANGED <<folder, pc, main, pipes, process, returned, saved, online, died, starts>>

-----------------------------------------------------------------------------
User ==
  \/ \E m \in Msgs : Queue(m)
  \/ \E i \in DOMAIN box : UserFlag(i)
  \/ UserExpunge \/ SetOnlineMode \/ NetworkSync \/ Quit \/ Start

Handler == Nudge \/ Send \/ Write \/ WriteNull

Events == Block \/ Answer \/ SenderDied

Sender == ReadJob \/ Deliver \/ Report

Next == User \/ Handler \/ Events \/ Sender \/ Orphan \/ Die

Spec == Init /\ [][Next]_vars

\* A handler runs to its end; the event loop of Tcl queues what the pipe holds
\* behind the events that are there, so that an industrious user cannot keep it
\* waiting for ever; and a sender that lives goes on: the talk with a server ends
\* by itself or with the timeouts of TCP.
FairSpec == Spec /\ WF_vars(Handler) /\ SF_vars(Events) /\ WF_vars(Sender)

-----------------------------------------------------------------------------
Jobs == Msgs \cup {None}

TypeOK ==
  /\ box \in Seq([msg : Msgs, deleted : BOOLEAN])
  /\ queued \subseteq Msgs /\ cancelled \subseteq Msgs /\ returned \subseteq Msgs
  /\ online \in BOOLEAN /\ isSending \in BOOLEAN /\ created \in BOOLEAN
  /\ handler \in BOOLEAN /\ stale \in BOOLEAN /\ fh \in BOOLEAN /\ died \in BOOLEAN
  /\ pc \in {"loop", "nudge", "send", "write", "blocked", "down"}
  /\ name \in Jobs /\ saveTo \in Jobs /\ job \in Jobs
  /\ toSender \in Seq(Msgs) /\ fromSender \in Seq({"ok", "fail"})
  /\ sender \in Alive \cup {"none", "dead"}
  /\ orphans \in Seq(Msgs)
  /\ delivered \in [Msgs -> Nat] /\ saved \in [Msgs -> Nat]
  /\ deaths \in 0..MaxDeaths /\ starts \in 0..MaxStarts

\* The jobs and answers between the main process and its sender.
Outstanding ==
  Len(toSender) + Len(fromSender) +
    (IF sender \in {"working", "accepted", "refused"} THEN 1 ELSE 0)

\* One job at a time is under way, the main process knows of it, and it is the
\* message whose name and save command it holds.
OneAtATime ==
  /\ Outstanding <= 1
  /\ Outstanding = 1 => isSending
  /\ sender = "working" => job = name
  /\ toSender # <<>> => toSender = <<name>>

\* A copy is saved of what was sent, as often as it was sent and no more.
CopiesMatch ==
  \A m \in Msgs : /\ saved[m] <= delivered[m]
                  /\ m \notin SaveTo => saved[m] = 0

\* No message that is marked for deletion is sent: the handler updates the folder
\* before it looks for the next message, whatever the user marked meanwhile.
DeletedNotSent ==
  [][(pc = "send" /\ pc' = "write") =>
       \A i \in DOMAIN box : box[i].msg = name' => ~box[i].deleted]_vars

\* Once the sending has begun every message in the folder has its turn, as long as
\* the user lets the folder alone and nothing dies.
Answered ==
  \A m \in Msgs : (isSending /\ m \in InBox) ~>
    (delivered[m] > 0 \/ m \in returned \/ cancelled # {} \/ deaths > 0 \/ pc = "down")

Flagged == {box[i].msg : i \in {j \in DOMAIN box : box[j].deleted}}

\* The folder is the waiting room of the abstract specification, and what ends a
\* sender or the main process is an interruption.
Promise == INSTANCE Outbox WITH
  waiting <- InBox \ Flagged,
  accepted <- delivered,
  refused <- returned,
  interruptions <- deaths + starts,
  edited <- edited

\* Sending keeps its promise when the user lets the folder alone: nothing leaves it
\* before it is accepted or handed back, and nothing is sent twice but for an
\* interruption.
KeepsPromise == Promise!Spec

-----------------------------------------------------------------------------
(* What the code does not do.                                              *)

\* Every message the user queued waits in the folder unless a server has accepted
\* it, it went back to the user or the user deleted it.
NothingLost ==
  \A m \in queued : \/ m \in InBox \/ m \in returned \/ m \in cancelled
                    \/ delivered[m] > 0

\* PrepareQuit waits for the end of the sending: no message is sent twice.
SentOnce == \A m \in Msgs : delivered[m] <= 1

\* Messages are sent while we are online.
OnlineOnly == [][(~isSending /\ isSending') => online]_vars

\* The program does not follow a null pointer.
Survives == ~died

\* The program does not hang in the handler.
Responsive == pc = "blocked" ~> pc # "blocked"

=============================================================================
