--------------------------- MODULE RatSenderProofs ---------------------------
(***************************************************************************)
(* Theorems about the sending of messages, for any messages, any habits of *)
(* the user and any number of deaths and starts.                           *)
(***************************************************************************)
EXTENDS RatSender, SequenceLemmas, FiniteSetTheorems, TLAPS

-----------------------------------------------------------------------------
(* The inductive invariant.  A job is at one place at a time: it is about  *)
(* to be written, in the pipe, with the sender, or answered; and all that  *)
(* while isSending is set.                                                 *)

AtWork == sender \in {"working", "accepted", "refused"}

Flow ==
  /\ sender \in Alive \cup {"none", "dead"}
  /\ toSender = <<>> \/ toSender = <<name>>
  /\ fromSender \in {<<>>, <<"ok">>, <<"fail">>}
  /\ AtWork => job = name /\ toSender = <<>> /\ fromSender = <<>> /\ isSending
  /\ toSender # <<>> => fromSender = <<>> /\ isSending /\ sender \in Alive
  /\ fromSender # <<>> => isSending
  /\ pc = "write" => isSending /\ ~AtWork /\ toSender = <<>> /\ fromSender = <<>>

\* A server has accepted the message, and its copy has not been saved yet.
Accepted == sender = "accepted" \/ fromSender = <<"ok">>

Copies ==
  /\ delivered \in [Msgs -> Nat] /\ saved \in [Msgs -> Nat]
  /\ saveTo # None => saveTo = name /\ saveTo \in SaveTo
  /\ \A m \in Msgs : saved[m] <= delivered[m]
  /\ Accepted /\ saveTo # None => saved[saveTo] < delivered[saveTo]
  /\ \A m \in Msgs \ SaveTo : saved[m] = 0

IInv == Flow /\ Copies

-----------------------------------------------------------------------------
(* The steps.                                                              *)

LEMMA Initial == Init => IInv
<1> SUFFICES ASSUME Init PROVE IInv
  OBVIOUS
<1>1. Flow
  BY DEF Init, Flow, AtWork
<1>2. delivered \in [Msgs -> Nat] /\ saved \in [Msgs -> Nat]
  BY DEF Init
<1>3. Copies
  BY <1>2 DEF Init, Copies, Accepted
<1> QED
  BY <1>1, <1>3 DEF IInv

\* What leaves the pipes, the sender and the outcome alone changes nothing.
LEMMA Quiet ==
  ASSUME IInv, pc' # "write",
         UNCHANGED <<isSending, name, saveTo, toSender, fromSender, sender, job,
                     delivered, saved>>
  PROVE  IInv'
<1>1. Flow'
  BY DEF IInv, Flow, AtWork
<1>2. Copies'
  BY DEF IInv, Copies, Accepted
<1> QED
  BY <1>1, <1>2 DEF IInv

LEMMA QueueStep == ASSUME IInv, NEW m \in Msgs, Queue(m) PROVE IInv'
<1>1. pc' # "write"
  BY DEF Queue
<1> QED
  BY <1>1, Quiet DEF Queue, main, pipes, process, outcome

LEMMA UserFlagStep == ASSUME IInv, NEW i, UserFlag(i) PROVE IInv'
  BY Quiet DEF UserFlag, main, pipes, process, outcome

LEMMA UserExpungeStep == ASSUME IInv, UserExpunge PROVE IInv'
  BY Quiet DEF UserExpunge, main, pipes, process, outcome

LEMMA LineStep == ASSUME IInv, SetOnlineMode \/ NetworkSync PROVE IInv'
<1>1. pc' # "write"
  BY DEF SetOnlineMode, NetworkSync
<1> QED
  BY <1>1, Quiet DEF SetOnlineMode, NetworkSync, main, pipes, process, outcome

\* The end of the main process forgets all that was under way.
LEMMA Exits ==
  ASSUME IInv, Exit, saved' \in [Msgs -> Nat],
         \A m \in Msgs : saved'[m] <= delivered[m],
         \A m \in Msgs \ SaveTo : saved'[m] = 0
  PROVE  IInv'
<1>1. Flow'
  BY DEF Exit, IInv, Flow, AtWork
<1>2. ~Accepted'
  BY DEF Exit, Accepted
<1>3. Copies'
  BY <1>2 DEF Exit, IInv, Copies
<1> QED
  BY <1>1, <1>3 DEF IInv

LEMMA QuitStep == ASSUME IInv, Quit \/ WriteNull PROVE IInv'
<1>1. Exit /\ saved' = saved
  BY DEF Quit, WriteNull
<1> QED
  BY <1>1, Exits DEF IInv, Copies

LEMMA StartStep == ASSUME IInv, Start PROVE IInv'
<1>1. pc' # "write"
  BY DEF Start
<1> QED
  BY <1>1, Quiet DEF Start, main, pipes, process, outcome

LEMMA NudgeStep == ASSUME IInv, Nudge PROVE IInv'
<1>1. CASE created /\ UNCHANGED <<main, pipes, process>>
  <2>1. pc' # "write"
    BY DEF Nudge
  <2> QED
    BY <1>1, <2>1, Quiet DEF Nudge, main, pipes, process, outcome
<1>2. CASE /\ toSender' = <<>> /\ fromSender' = <<>>
           /\ sender' = "idle" /\ job' = None
           /\ UNCHANGED <<isSending, name, saveTo, deaths>>
  <2>1. pc' # "write"
    BY DEF Nudge
  <2>2. Flow'
    BY <1>2, <2>1 DEF IInv, Flow, AtWork, Alive
  <2>3. ~Accepted' /\ UNCHANGED <<delivered, saved>>
    BY <1>2 DEF Accepted, Nudge, outcome
  <2>4. Copies'
    BY <1>2, <2>3 DEF IInv, Copies
  <2> QED
    BY <2>2, <2>4 DEF IInv
<1> QED
  BY <1>1, <1>2 DEF Nudge

LEMMA BlockStep == ASSUME IInv, Block PROVE IInv'
<1>1. pc' # "write"
  BY DEF Block
<1> QED
  BY <1>1, Quiet DEF Block, main, pipes, process, outcome

\* A copy is saved of a message that was accepted once more than it was saved.
LEMMA SavesOne ==
  ASSUME Copies, Accepted, SaveCopy
  PROVE  /\ saved' \in [Msgs -> Nat]
         /\ \A m \in Msgs : saved'[m] <= delivered[m]
         /\ \A m \in Msgs \ SaveTo : saved'[m] = 0
<1>1. CASE UNCHANGED saved
  BY <1>1 DEF Copies
<1>2. CASE saved' = [saved EXCEPT ![saveTo] = @ + 1]
  <2>1. CASE saveTo = None
    <3>1. saved' = saved
      BY <1>2, <2>1, ConstantsAssumption DEF Copies
    <3> QED
      BY <3>1 DEF Copies
  <2>2. CASE saveTo # None
    <3>1. saveTo \in SaveTo /\ saveTo \in Msgs /\ saved[saveTo] < delivered[saveTo]
      BY <2>2, ConstantsAssumption DEF Copies
    <3>2. saved[saveTo] \in Nat /\ delivered[saveTo] \in Nat
      BY <3>1 DEF Copies
    <3>3. saved' \in [Msgs -> Nat]
      BY <1>2, <3>1, <3>2 DEF Copies
    <3>4. \A m \in Msgs : m # saveTo => saved'[m] = saved[m]
      BY <1>2, <3>1 DEF Copies
    <3>5. saved'[saveTo] = saved[saveTo] + 1
      BY <1>2, <3>1 DEF Copies
    <3> QED
      BY <3>1, <3>2, <3>3, <3>4, <3>5 DEF Copies
  <2> QED
    BY <2>1, <2>2
<1> QED
  BY <1>1, <1>2 DEF SaveCopy

LEMMA AnswerStep == ASSUME IInv, Answer PROVE IInv'
<1>1. /\ saved' \in [Msgs -> Nat]
      /\ \A m \in Msgs : saved'[m] <= delivered[m]
      /\ \A m \in Msgs \ SaveTo : saved'[m] = 0
  <2>1. CASE Head(fromSender) = "ok" /\ SaveCopy
    <3>1. fromSender = <<"ok">>
      BY <2>1 DEF Answer, IInv, Flow
    <3> QED
      BY <2>1, <3>1, SavesOne DEF IInv, Accepted
  <2>2. CASE UNCHANGED saved
    BY <2>2 DEF IInv, Copies
  <2> QED
    BY <2>1, <2>2 DEF Answer
<1>2. CASE Exit
  BY <1>1, <1>2, Exits
<1>3. CASE /\ Done /\ fromSender' = Tail(fromSender) /\ pc' = "send"
           /\ UNCHANGED <<created, handler, stale, fh, name, saveTo, toSender,
                          process, others, delivered>>
  <2>1. fromSender' = <<>> /\ toSender = <<>> /\ ~AtWork
    BY <1>3 DEF Answer, IInv, Flow
  <2>2. Flow'
    BY <1>3, <2>1 DEF IInv, Flow, AtWork, process
  <2>3. ~Accepted'
    BY <1>3, <2>1 DEF Accepted, AtWork, process
  <2>4. Copies'
    BY <1>1, <1>3, <2>3 DEF IInv, Copies
  <2> QED
    BY <2>2, <2>4 DEF IInv
<1> QED
  BY <1>2, <1>3 DEF Answer

LEMMA SenderDiedStep == ASSUME IInv, SenderDied PROVE IInv'
<1>1. sender = "dead" /\ fromSender = <<>> /\ pc' = "send"
  BY DEF SenderDied, Reading, Readable
<1>2. UNCHANGED <<name, saveTo, toSender, fromSender, sender, job, delivered, saved>>
  BY DEF SenderDied, pipes, process, outcome
<1>3. Flow'
  BY <1>1, <1>2 DEF IInv, Flow, AtWork, Alive
<1>4. Copies'
  BY <1>2 DEF IInv, Copies, Accepted
<1> QED
  BY <1>3, <1>4 DEF IInv

LEMMA SendStep == ASSUME IInv, Send PROVE IInv'
<1>1. UNCHANGED <<toSender, fromSender, sender, job, delivered, saved>>
  BY DEF Send, pipes, process, outcome
<1>2. CASE pc' = "loop" /\ UNCHANGED main
  <2>1. pc' # "write"
    BY <1>2
  <2> QED
    BY <1>1, <1>2, <2>1, Quiet DEF main
<1>3. CASE /\ ~Busy /\ isSending' = TRUE /\ saveTo' = SaveCommand(name')
           /\ pc' = "write"
  <2>1. ~AtWork /\ toSender = <<>> /\ fromSender = <<>>
    BY <1>3 DEF Busy, IInv, Flow
  <2>2. Flow'
    BY <1>1, <1>3, <2>1 DEF IInv, Flow, AtWork
  <2>3. ~Accepted'
    BY <1>1, <2>1 DEF Accepted, AtWork
  <2>4. saveTo' # None => saveTo' = name' /\ saveTo' \in SaveTo
    BY <1>3 DEF SaveCommand
  <2>5. Copies'
    BY <1>1, <2>3, <2>4 DEF IInv, Copies
  <2> QED
    BY <2>2, <2>5 DEF IInv
<1> QED
  BY <1>2, <1>3 DEF Send

LEMMA WriteStep == ASSUME IInv, Write PROVE IInv'
<1>1. /\ pc = "write" /\ pc' = "loop" /\ isSending /\ ~AtWork
      /\ toSender = <<>> /\ fromSender = <<>>
      /\ UNCHANGED <<fromSender, sender, job, delivered, saved>>
  BY DEF Write, IInv, Flow, process, outcome
<1>2. CASE sender \in Alive /\ toSender' = Append(toSender, name) /\ UNCHANGED main
  <2>1. toSender' = <<name>>
    BY <1>1, <1>2
  <2>2. Flow'
    BY <1>1, <1>2, <2>1 DEF IInv, Flow, AtWork, main
  <2>3. Copies'
    BY <1>1, <1>2 DEF IInv, Copies, Accepted, main
  <2> QED
    BY <2>2, <2>3 DEF IInv
<1>3. CASE UNCHANGED <<isSending, name, saveTo, toSender>>
  <2>1. pc' # "write"
    BY <1>1
  <2> QED
    BY <1>1, <1>3, <2>1, Quiet
<1> QED
  BY <1>2, <1>3 DEF Write, main

LEMMA ReadJobStep == ASSUME IInv, ReadJob PROVE IInv'
<1>0. toSender = <<name>>
  BY DEF ReadJob, IInv, Flow
<1>1. toSender = <<name>> /\ toSender' = <<>> /\ job' = name /\ sender' = "working"
  <2>1. Head(<<name>>) = name /\ Tail(<<name>>) = <<>>
    OBVIOUS
  <2> QED
    BY <1>0, <2>1 DEF ReadJob
<1>2. fromSender = <<>> /\ isSending /\ pc # "write"
  BY <1>1 DEF IInv, Flow
<1>3. UNCHANGED <<pc, isSending, name, saveTo, fromSender, delivered, saved>>
  BY DEF ReadJob, main, outcome
<1>4. Flow'
  BY <1>1, <1>2, <1>3 DEF IInv, Flow, AtWork, Alive
<1>5. ~Accepted'
  BY <1>1, <1>2, <1>3 DEF Accepted
<1>6. Copies'
  BY <1>3, <1>5 DEF IInv, Copies
<1> QED
  BY <1>4, <1>6 DEF IInv

LEMMA DeliverStep == ASSUME IInv, Deliver PROVE IInv'
<1>1. /\ sender = "working" /\ sender' \in {"accepted", "refused"}
      /\ UNCHANGED <<pc, isSending, name, saveTo, toSender, fromSender, job, saved>>
  BY DEF Deliver, main, pipes
<1>2. job = name /\ fromSender = <<>>
  BY <1>1 DEF IInv, Flow, AtWork
<1>3. Flow'
  BY <1>1 DEF IInv, Flow, AtWork, Alive
<1>4. CASE sender' = "accepted" /\ delivered' = [delivered EXCEPT ![job] = @ + 1]
  <2>0. delivered \in [Msgs -> Nat]
    BY DEF IInv, Copies
  <2>1. delivered' \in [Msgs -> Nat]
    <3>1. CASE job \in Msgs
      BY <1>4, <2>0, <3>1
    <3>2. CASE job \notin Msgs
      BY <1>4, <2>0, <3>2
    <3> QED
      BY <3>1, <3>2
  <2>2. \A m \in Msgs : delivered[m] <= delivered'[m]
    BY <1>4 DEF IInv, Copies
  <2>3. \A m \in Msgs : saved[m] <= delivered'[m]
    BY <2>1, <2>2 DEF IInv, Copies
  <2>4. saveTo # None => saved[saveTo] < delivered'[saveTo]
    <3> SUFFICES ASSUME saveTo # None PROVE saved[saveTo] < delivered'[saveTo]
      OBVIOUS
    <3>1. saveTo = job /\ saveTo \in Msgs
      BY <1>2, ConstantsAssumption DEF IInv, Copies
    <3>2. /\ delivered'[saveTo] = delivered[saveTo] + 1
          /\ saved[saveTo] <= delivered[saveTo]
          /\ saved[saveTo] \in Nat /\ delivered[saveTo] \in Nat
      BY <1>4, <3>1 DEF IInv, Copies
    <3> QED
      BY <3>2
  <2>5. Copies'
    BY <1>1, <2>1, <2>3, <2>4 DEF IInv, Copies
  <2> QED
    BY <1>3, <2>5 DEF IInv
<1>5. CASE sender' = "refused" /\ UNCHANGED delivered
  <2>1. ~Accepted'
    BY <1>1, <1>2, <1>5 DEF Accepted
  <2>2. Copies'
    BY <1>1, <1>5, <2>1 DEF IInv, Copies
  <2> QED
    BY <1>3, <2>2 DEF IInv
<1> QED
  BY <1>4, <1>5 DEF Deliver

LEMMA ReportStep == ASSUME IInv, Report PROVE IInv'
<1>1. /\ AtWork /\ fromSender = <<>> /\ toSender = <<>> /\ isSending /\ pc # "write"
      /\ sender' = "idle"
      /\ UNCHANGED <<pc, isSending, name, saveTo, toSender, delivered, saved>>
  BY DEF Report, IInv, Flow, AtWork, main, outcome
<1>2. fromSender' = IF sender = "accepted" THEN <<"ok">> ELSE <<"fail">>
  BY <1>1 DEF Report
<1>3. Flow'
  BY <1>1, <1>2 DEF IInv, Flow, AtWork, Alive
<1>4. Accepted' => Accepted
  BY <1>1, <1>2 DEF Accepted
<1>5. Copies'
  BY <1>1, <1>4 DEF IInv, Copies
<1> QED
  BY <1>3, <1>5 DEF IInv

LEMMA DieStep == ASSUME IInv, Die PROVE IInv'
<1>1. /\ sender' = "dead" /\ toSender' = <<>>
      /\ UNCHANGED <<pc, isSending, name, saveTo, fromSender, delivered, saved>>
  BY DEF Die, main, outcome
<1>2. Flow'
  BY <1>1 DEF IInv, Flow, AtWork, Alive
<1>3. Accepted' => Accepted
  BY <1>1 DEF Accepted
<1>4. Copies'
  BY <1>1, <1>3 DEF IInv, Copies
<1> QED
  BY <1>2, <1>4 DEF IInv

LEMMA OrphanStep == ASSUME IInv, Orphan PROVE IInv'
<1>1. UNCHANGED <<pc, isSending, name, saveTo, toSender, fromSender, sender, job, saved>>
  BY DEF Orphan, main, pipes, process
<1>2. /\ delivered' \in [Msgs -> Nat]
      /\ \A m \in Msgs : delivered[m] <= delivered'[m]
  <2>1. PICK i : \/ delivered' = [delivered EXCEPT ![orphans[i]] = @ + 1]
                 \/ UNCHANGED delivered
    BY DEF Orphan
  <2> QED
    BY <2>1 DEF IInv, Copies
<1>3. Flow'
  BY <1>1 DEF IInv, Flow, AtWork
<1>4. \A m \in Msgs : saved'[m] <= delivered'[m]
  BY <1>1, <1>2 DEF IInv, Copies
<1>5. Accepted' /\ saveTo' # None => saved'[saveTo'] < delivered'[saveTo']
  <2> SUFFICES ASSUME Accepted, saveTo # None
               PROVE  saved[saveTo] < delivered'[saveTo]
    BY <1>1 DEF Accepted
  <2>1. saveTo \in Msgs /\ saved[saveTo] < delivered[saveTo]
    BY ConstantsAssumption DEF IInv, Copies
  <2>2. /\ saved[saveTo] \in Nat /\ delivered[saveTo] \in Nat
        /\ delivered'[saveTo] \in Nat
    BY <1>2, <2>1 DEF IInv, Copies
  <2> QED
    BY <1>2, <2>1, <2>2
<1>6. Copies'
  BY <1>1, <1>2, <1>4, <1>5 DEF IInv, Copies
<1> QED
  BY <1>3, <1>6 DEF IInv

LEMMA Step == IInv /\ [Next]_vars => IInv'
<1> SUFFICES ASSUME IInv, [Next]_vars PROVE IInv'
  OBVIOUS
<1>1. CASE User
  BY <1>1, QueueStep, UserFlagStep, UserExpungeStep, LineStep, QuitStep, StartStep
     DEF User
<1>2. CASE Handler
  BY <1>2, NudgeStep, SendStep, WriteStep, QuitStep DEF Handler
<1>3. CASE Events
  BY <1>3, BlockStep, AnswerStep, SenderDiedStep DEF Events
<1>4. CASE Sender
  BY <1>4, ReadJobStep, DeliverStep, ReportStep DEF Sender
<1>5. CASE Orphan
  BY <1>5, OrphanStep
<1>6. CASE Die
  BY <1>6, DieStep
<1>7. CASE UNCHANGED vars
  <2>1. UNCHANGED <<pc, isSending, name, saveTo, toSender, fromSender, sender, job,
                    delivered, saved>>
    BY <1>7 DEF vars, main, pipes, process, outcome
  <2> QED
    BY <2>1 DEF IInv, Flow, AtWork, Copies, Accepted
<1> QED
  BY <1>1, <1>2, <1>3, <1>4, <1>5, <1>6, <1>7 DEF Next

-----------------------------------------------------------------------------
(* The theorems.                                                           *)

\* The invariant holds whatever the user does and whatever dies.
THEOREM Invariance == Spec => []IInv
<1>1. Init => IInv
  BY Initial
<1>2. IInv /\ [Next]_vars => IInv'
  BY Step
<1> QED
  BY <1>1, <1>2, PTL DEF Spec

\* There is never a second job under way, and the one there is belongs to the
\* name and the save command that RatSenderHandler() keeps for its answer.
THEOREM OneJobAtATime == Spec => []OneAtATime
<1>1. IInv => OneAtATime
  <2> SUFFICES ASSUME IInv PROVE OneAtATime
    OBVIOUS
  <2>1. /\ Len(<<>>) = 0 /\ Len(<<name>>) = 1 /\ Len(<<"ok">>) = 1
        /\ Len(<<"fail">>) = 1
    OBVIOUS
  <2>2. Outstanding <= 1 /\ (Outstanding = 1 => isSending)
    <3>1. CASE AtWork
      BY <2>1, <3>1 DEF IInv, Flow, AtWork, Outstanding
    <3>2. CASE ~AtWork /\ toSender = <<name>> /\ fromSender = <<>>
      BY <2>1, <3>2 DEF IInv, Flow, AtWork, Outstanding
    <3>3. CASE ~AtWork /\ toSender = <<>> /\ fromSender = <<>>
      BY <2>1, <3>3 DEF AtWork, Outstanding
    <3>4. CASE ~AtWork /\ toSender = <<>> /\ fromSender \in {<<"ok">>, <<"fail">>}
      <4>1. Len(fromSender) = 1 /\ isSending
        BY <2>1, <3>4 DEF IInv, Flow
      <4> QED
        BY <2>1, <3>4, <4>1 DEF AtWork, Outstanding
    <3> QED
      BY <3>1, <3>2, <3>3, <3>4 DEF IInv, Flow
  <2>3. sender = "working" => job = name
    BY DEF IInv, Flow, AtWork
  <2>4. toSender # <<>> => toSender = <<name>>
    BY DEF IInv, Flow
  <2> QED
    BY <2>2, <2>3, <2>4 DEF OneAtATime
<1> QED
  BY <1>1, Invariance, PTL

\* Copies are saved of messages that were sent, of those that ask for it, and
\* no more often than they were sent.
THEOREM CopiesOfWhatWasSent == Spec => []CopiesMatch
<1>1. IInv => CopiesMatch
  BY DEF IInv, Copies, CopiesMatch
<1> QED
  BY <1>1, Invariance, PTL

-----------------------------------------------------------------------------
(* The types, and the folder.                                              *)

Job == [msg : Msgs, deleted : BOOLEAN]

\* The folder holds no message twice.
Apart(b) == \A i, j \in 1..Len(b) : b[i].msg = b[j].msg => i = j

\* The messages in b that are not marked.
Waits(b) == {b[i].msg : i \in {j \in 1..Len(b) : ~b[j].deleted}}

\* Only messages that were queued are in the folder or have ever been there.
Known ==
  /\ Apart(box) /\ \A i \in 1..Len(box) : box[i].msg \in queued
  /\ name \in queued \cup {None}
  /\ \A i \in 1..Len(orphans) : orphans[i] \in queued
  /\ returned \subseteq queued
  /\ \A m \in Msgs : delivered[m] > 0 => m \in queued

\* Something is under way.
Busily == AtWork \/ toSender # <<>> \/ fromSender # <<>> \/ pc = "write"

\* There is no sender that the main process has given up, nothing is under way
\* without one, and what is is a message.
Manned ==
  /\ ~created => sender \notin Alive /\ toSender = <<>> /\ fromSender = <<>>
  /\ pc = "down" => ~Busily /\ ~created
  /\ Busily => name # None
  /\ edited => Msgs # {}

TInv == IInv /\ TypeOK /\ Known /\ Manned

-----------------------------------------------------------------------------
(* The folder, before and after.                                           *)

\* c is what is left of b.
Cleaned(c, b) ==
  /\ c \in Seq(Job) /\ Apart(c) /\ Waits(c) = Waits(b)
  /\ \A i \in 1..Len(c) : ~c[i].deleted /\ \E k \in 1..Len(b) : c[i] = b[k]
  /\ \A i, j \in 1..Len(c) : i < j =>
       \E k, l \in 1..Len(b) : k < l /\ c[i] = b[k] /\ c[j] = b[l]
  /\ b # <<>> /\ ~b[1].deleted => c # <<>> /\ c[1] = b[1]

LEMMA SyncedBox ==
  ASSUME NEW b \in Seq(Job), Apart(b)
  PROVE  Cleaned(Synced(b), b)
<1> DEFINE c == Synced(b)
           I == {i \in DOMAIN b : ~b[i].deleted}
<1>1. c = Selected(b, I) /\ Len(b) \in Nat
  <2>1. c = Selected(b, I)
    BY DEF Synced
  <2> QED
    BY <2>1
<1>0. \A i : i \in I <=> i \in 1..Len(b) /\ ~b[i].deleted
  OBVIOUS
<1>2. c \in Seq(Job) /\ Selects(c, b, I, Len(b))
  <2> HIDE DEF I
  <2> QED
    BY <1>1, SelectedSelects
<1> HIDE DEF c, I
<1>3. PICK g \in [1..Len(c) -> I \cap (1..Len(b))] :
        /\ \A i \in 1..Len(c) : c[i] = b[g[i]]
        /\ \A i, j \in 1..Len(c) : i < j => g[i] < g[j]
        /\ \A k \in I \cap (1..Len(b)) : \E i \in 1..Len(c) : g[i] = k
  BY <1>2 DEF Selects
<1>4. /\ Len(c) \in Nat
      /\ \A i \in 1..Len(c) : g[i] \in I /\ g[i] \in 1..Len(b) /\ g[i] \in Nat
  BY <1>0, <1>1, <1>2, <1>3
<1>5. \A i, j \in 1..Len(c) : g[i] = g[j] => i = j
  <2> SUFFICES ASSUME NEW i \in 1..Len(c), NEW j \in 1..Len(c), g[i] = g[j], i # j
               PROVE  FALSE
    OBVIOUS
  <2>1. i < j \/ j < i
    BY <1>4
  <2>2. g[i] < g[j] \/ g[j] < g[i]
    BY <1>3, <2>1
  <2> QED
    BY <1>4, <2>2
<1>6. Apart(c)
  BY <1>3, <1>4, <1>5 DEF Apart
<1>7. \A i \in 1..Len(c) : ~c[i].deleted /\ \E k \in 1..Len(b) : c[i] = b[k]
  BY <1>0, <1>3, <1>4
<1>8. \A i, j \in 1..Len(c) : i < j =>
        \E k, l \in 1..Len(b) : k < l /\ c[i] = b[k] /\ c[j] = b[l]
  BY <1>3, <1>4
<1>9. Waits(c) = Waits(b)
  <2>1. ASSUME NEW i \in 1..Len(c) PROVE \E k \in I : c[i].msg = b[k].msg
    BY <1>3, <1>4
  <2>2. ASSUME NEW k \in I PROVE \E i \in 1..Len(c) : c[i].msg = b[k].msg
    <3>1. k \in I \cap (1..Len(b))
      BY <1>0
    <3>2. PICK i \in 1..Len(c) : g[i] = k
      BY <1>3, <3>1
    <3> QED
      BY <1>3, <3>2
  <2>3. \A x : x \in Waits(b) <=> \E k \in I : x = b[k].msg
    BY <1>0 DEF Waits
  <2>4. \A x : x \in Waits(c) <=> \E i \in 1..Len(c) : x = c[i].msg
    BY <1>7 DEF Waits
  <2>5. ASSUME NEW x \in Waits(c) PROVE x \in Waits(b)
    <3>1. PICK i \in 1..Len(c) : x = c[i].msg
      BY <2>4
    <3>2. PICK k \in I : c[i].msg = b[k].msg
      BY <2>1
    <3> QED
      BY <2>3, <3>1, <3>2
  <2>6. ASSUME NEW x \in Waits(b) PROVE x \in Waits(c)
    <3>1. PICK k \in I : x = b[k].msg
      BY <2>3
    <3>2. PICK i \in 1..Len(c) : c[i].msg = b[k].msg
      BY <2>2
    <3> QED
      BY <2>4, <3>1, <3>2
  <2> QED
    BY <2>5, <2>6
<1>10. ASSUME b # <<>>, ~b[1].deleted PROVE c # <<>> /\ c[1] = b[1]
  <2>1. 1 \in I /\ 1 \in 1..Len(b)
    BY <1>0, <1>1, <1>10
  <2>2. PICK i \in 1..Len(c) : g[i] = 1
    BY <1>3, <2>1
  <2>3. i = 1
    <3> SUFFICES ASSUME i # 1 PROVE FALSE
      OBVIOUS
    <3>1. 1 \in 1..Len(c) /\ 1 < i
      BY <1>4
    <3>2. g[1] < g[i]
      BY <1>3, <3>1
    <3> QED
      BY <1>4, <2>2, <3>1, <3>2
  <2> QED
    BY <1>3, <1>4, <2>2, <2>3
<1> QED
  BY <1>2, <1>6, <1>7, <1>8, <1>9, <1>10 DEF c, Cleaned

\* A message has been put behind the others.
Joins(c, b, m) ==
  /\ c \in Seq(Job) /\ Apart(c) /\ Waits(c) = Waits(b) \cup {m}
  /\ \A i \in 1..Len(c) : c[i] = [msg |-> m, deleted |-> FALSE]
                          \/ \E k \in 1..Len(b) : c[i] = b[k]
  /\ \A i, j \in 1..Len(c) : i < j =>
       \E k \in 1..Len(b) : /\ c[i] = b[k]
                            /\ c[j] = [msg |-> m, deleted |-> FALSE]
                               \/ \E l \in 1..Len(b) : k < l /\ c[j] = b[l]
  /\ b # <<>> /\ ~b[1].deleted => c # <<>> /\ c[1] = b[1]

LEMMA AppendBox ==
  ASSUME NEW b \in Seq(Job), Apart(b), NEW m \in Msgs,
         \A i \in 1..Len(b) : b[i].msg # m
  PROVE  Joins(Append(b, [msg |-> m, deleted |-> FALSE]), b, m)
<1> DEFINE e == [msg |-> m, deleted |-> FALSE]
           c == Append(b, e)
           n == Len(b)
<1>1. e \in Job /\ e.msg = m /\ ~e.deleted
  BY DEF Job
<1> HIDE DEF e
<1>2. /\ n \in Nat /\ c \in Seq(Job) /\ Len(c) = n + 1 /\ c[n + 1] = e
      /\ \A i \in 1..n : c[i] = b[i]
  BY <1>1
<1>3. \A i \in 1..Len(c) : i \in 1..n \/ i = n + 1
  BY <1>2
<1> HIDE DEF c
<1>4. Apart(c)
  <2> SUFFICES ASSUME NEW i \in 1..Len(c), NEW j \in 1..Len(c), c[i].msg = c[j].msg
               PROVE  i = j
    BY DEF Apart
  <2> QED
    BY <1>1, <1>2, <1>3 DEF Apart
<1>5. Waits(c) = Waits(b) \cup {m}
  <2>1. ASSUME NEW i \in 1..Len(c), ~c[i].deleted PROVE c[i].msg \in Waits(b) \cup {m}
    BY <1>1, <1>2, <1>3, <2>1 DEF Waits
  <2>2. ASSUME NEW i \in 1..n, ~b[i].deleted PROVE b[i].msg \in Waits(c)
    <3>1. i \in 1..Len(c) /\ c[i] = b[i]
      BY <1>2
    <3> QED
      BY <2>2, <3>1 DEF Waits
  <2>3. m \in Waits(c)
    <3>1. n + 1 \in 1..Len(c) /\ c[n + 1] = e
      BY <1>2
    <3> QED
      BY <1>1, <3>1 DEF Waits
  <2> QED
    BY <2>1, <2>2, <2>3 DEF Waits
<1>6. \A i \in 1..Len(c) : c[i] = e \/ \E k \in 1..n : c[i] = b[k]
  BY <1>2, <1>3
<1>7. ASSUME NEW i \in 1..Len(c), NEW j \in 1..Len(c), i < j
      PROVE  \E k \in 1..n : /\ c[i] = b[k]
                             /\ c[j] = e \/ \E l \in 1..n : k < l /\ c[j] = b[l]
  <2>1. i \in 1..n
    BY <1>2, <1>7
  <2> QED
    BY <1>2, <1>3, <1>7, <2>1
<1>8. ASSUME b # <<>>, ~b[1].deleted PROVE c # <<>> /\ c[1] = b[1]
  <2>1. 1 \in 1..n
    BY <1>8, <1>2
  <2> QED
    BY <1>2, <2>1
<1> QED
  BY <1>2, <1>4, <1>5, <1>6, <1>7, <1>8 DEF c, e, Joins

\* And what is marked is gone.
LEMMA SyncedJoins ==
  ASSUME NEW b, NEW m \in Msgs, NEW c, Joins(c, b, m)
  PROVE  Joins(Synced(c), b, m)
<1> DEFINE d == Synced(c)
           e == [msg |-> m, deleted |-> FALSE]
<1>1. c \in Seq(Job) /\ Apart(c)
  BY DEF Joins
<1>2. Cleaned(d, c)
  BY <1>1, SyncedBox
<1> HIDE DEF d
<1>3. d \in Seq(Job) /\ Apart(d) /\ Waits(d) = Waits(b) \cup {m}
  BY <1>2 DEF Cleaned, Joins
<1>4. \A i \in 1..Len(d) : d[i] = e \/ \E k \in 1..Len(b) : d[i] = b[k]
  <2> SUFFICES ASSUME NEW i \in 1..Len(d) PROVE d[i] = e \/ \E k \in 1..Len(b) : d[i] = b[k]
    OBVIOUS
  <2>1. PICK k \in 1..Len(c) : d[i] = c[k]
    BY <1>2 DEF Cleaned
  <2> QED
    BY <2>1 DEF Joins
<1>5. ASSUME NEW i \in 1..Len(d), NEW j \in 1..Len(d), i < j
      PROVE  \E k \in 1..Len(b) : /\ d[i] = b[k]
                                  /\ d[j] = e \/ \E l \in 1..Len(b) : k < l /\ d[j] = b[l]
  <2>1. PICK k \in 1..Len(c), l \in 1..Len(c) : k < l /\ d[i] = c[k] /\ d[j] = c[l]
    BY <1>2, <1>5 DEF Cleaned
  <2>2. \E p \in 1..Len(b) :
          /\ c[k] = b[p]
          /\ c[l] = e \/ \E q \in 1..Len(b) : p < q /\ c[l] = b[q]
    BY <2>1 DEF Joins
  <2> QED
    BY <2>1, <2>2
<1>6. b # <<>> /\ ~b[1].deleted => d # <<>> /\ d[1] = b[1]
  BY <1>2 DEF Cleaned, Joins
<1> QED
  BY <1>3, <1>4, <1>5, <1>6 DEF d, Joins

\* The message at i has been marked, or unmarked.
Marks(c, b, i, del) ==
  /\ c \in Seq(Job) /\ Apart(c) /\ Len(c) = Len(b)
  /\ \A j \in 1..Len(b) : c[j].msg = b[j].msg
  /\ \A j \in 1..Len(b) : j # i => c[j] = b[j]
  /\ c[i].deleted = del

LEMMA FlagBox ==
  ASSUME NEW b \in Seq(Job), Apart(b), NEW i \in 1..Len(b), NEW del \in BOOLEAN
  PROVE  Marks([b EXCEPT ![i].deleted = del], b, i, del)
<1> DEFINE c == [b EXCEPT ![i].deleted = del]
<1>1. \A j \in 1..Len(b) : b[j] \in Job
  OBVIOUS
<1>2. /\ Len(c) = Len(b) /\ DOMAIN c = 1..Len(b)
      /\ \A j \in 1..Len(b) : c[j] = IF j = i THEN [b[i] EXCEPT !.deleted = del] ELSE b[j]
  OBVIOUS
<1>3. /\ [b[i] EXCEPT !.deleted = del] \in Job
      /\ [b[i] EXCEPT !.deleted = del].msg = b[i].msg
      /\ [b[i] EXCEPT !.deleted = del].deleted = del
  BY <1>1 DEF Job
<1>4. \A j \in 1..Len(b) : c[j] \in Job
  BY <1>1, <1>2, <1>3
<1>5. c \in Seq(Job)
  BY <1>2, <1>4
<1>6. \A j \in 1..Len(b) : c[j].msg = b[j].msg
  BY <1>2, <1>3
<1>7. Apart(c)
  BY <1>2, <1>6 DEF Apart
<1>8. c[i].deleted = del /\ \A j \in 1..Len(b) : j # i => c[j] = b[j]
  BY <1>2, <1>3
<1> HIDE DEF c
<1>9. Marks(c, b, i, del)
  BY <1>2, <1>5, <1>6, <1>7, <1>8 DEF Marks
<1> QED
  BY <1>9 DEF c

-----------------------------------------------------------------------------
(* Types, and who is known.                                                *)

LEMMA InitTInv == Init => TInv
<1> SUFFICES ASSUME Init PROVE TInv
  OBVIOUS
<1>1. IInv
  BY Initial
<1>2. TypeOK
  <2>1. /\ box \in Seq([msg : Msgs, deleted : BOOLEAN])
        /\ toSender \in Seq(Msgs) /\ fromSender \in Seq({"ok", "fail"})
        /\ orphans \in Seq(Msgs)
    BY DEF Init
  <2>2. delivered \in [Msgs -> Nat] /\ saved \in [Msgs -> Nat]
    BY DEF Init
  <2>3. deaths \in 0..MaxDeaths /\ starts \in 0..MaxStarts
    BY ConstantsAssumption DEF Init
  <2>4. sender \in Alive \cup {"none", "dead"}
    BY DEF Init
  <2>5. name \in Jobs /\ saveTo \in Jobs /\ job \in Jobs
    BY DEF Init, Jobs
  <2> QED
    BY <2>1, <2>2, <2>3, <2>4, <2>5 DEF Init, TypeOK
<1>3. Known
  BY DEF Init, Known, Apart
<1>4. Manned
  BY DEF Init, Manned, Busily, AtWork, Alive
<1> QED
  BY <1>1, <1>2, <1>3, <1>4 DEF TInv

\* A part of the state that a step leaves alone.
LEMMA SameFolder ==
  ASSUME Known, UNCHANGED <<box, queued, name, orphans, delivered, returned>>
  PROVE  Known'
BY DEF Known, Apart

LEMMA SameWork ==
  ASSUME Manned, UNCHANGED <<created, sender, toSender, fromSender, name, edited>>,
         pc' \notin {"write", "down"}
  PROVE  Manned'
BY DEF Manned, Busily, AtWork, Alive

\* A message joins the folder, or leaves it, and nothing is sent.
LEMMA QueueT == ASSUME TInv, NEW m \in Msgs, Queue(m) PROVE TypeOK' /\ Known' /\ Manned'
<1> DEFINE b == Append(box, [msg |-> m, deleted |-> FALSE])
<1>1. TypeOK /\ Known /\ Manned /\ box \in Seq(Job) /\ Apart(box)
  BY DEF TInv, TypeOK, Known, Job
<1>2. \A i \in 1..Len(box) : box[i].msg # m
  BY <1>1 DEF Queue, Known
<1>3. Joins(b, box, m)
  BY <1>1, <1>2, AppendBox
<1>4. Joins(Synced(b), box, m)
  BY <1>3, SyncedJoins
<1>5. Joins(box', box, m)
  BY <1>3, <1>4 DEF Queue
<1> HIDE DEF b
<1>6. TypeOK'
  BY <1>1, <1>5 DEF Queue, TypeOK, Joins, Job, main, pipes, process, outcome, others
<1>7. Known'
  <2>1. Apart(box') /\ \A i \in 1..Len(box') : box'[i].msg \in queued'
    <3>1. queued' = queued \cup {m}
      BY DEF Queue
    <3>2. \A i \in 1..Len(box') : \/ box'[i] = [msg |-> m, deleted |-> FALSE]
                                  \/ \E k \in 1..Len(box) : box'[i] = box[k]
      BY <1>5 DEF Joins
    <3> QED
      BY <1>1, <1>5, <3>1, <3>2 DEF Known, Joins
  <2> QED
    BY <1>1, <2>1 DEF Known, Queue, main, outcome, others
<1>8. Manned'
  BY <1>1, SameWork DEF Queue, main, pipes, process
<1> QED
  BY <1>6, <1>7, <1>8

LEMMA UserFlagT ==
  ASSUME TInv, NEW i \in DOMAIN box, UserFlag(i)
  PROVE  TypeOK' /\ Known' /\ Manned'
<1>1. TypeOK /\ Known /\ Manned /\ box \in Seq(Job) /\ Apart(box)
  BY DEF TInv, TypeOK, Known, Job
<1>2. i \in 1..Len(box) /\ box[i] \in Job /\ box[i].deleted \in BOOLEAN /\ box[i].msg \in Msgs
  <2>1. i \in 1..Len(box) /\ box[i] \in Job
    BY <1>1
  <2> QED
    BY <2>1 DEF Job
<1> DEFINE del == ~box[i].deleted
<1>3. box' = [box EXCEPT ![i].deleted = del] /\ del \in BOOLEAN
  BY <1>2 DEF UserFlag
<1> HIDE DEF del
<1>4. /\ box' \in Seq(Job) /\ Apart(box') /\ Len(box') = Len(box)
      /\ \A j \in 1..Len(box) : box'[j].msg = box[j].msg
  <2>1. Marks([box EXCEPT ![i].deleted = del], box, i, del)
    BY <1>1, <1>2, <1>3, FlagBox
  <2> QED
    BY <1>3, <2>1 DEF Marks
<1>5. cancelled' \subseteq Msgs
  BY <1>1, <1>2 DEF UserFlag, TypeOK
<1>6. TypeOK'
  BY <1>1, <1>4, <1>5 DEF UserFlag, TypeOK, Job, main, pipes, process, outcome, others
<1>7. Known'
  BY <1>1, <1>4 DEF Known, UserFlag, main, outcome, others
<1>8. Manned'
  BY <1>1, <1>2 DEF Manned, Busily, AtWork, Alive, UserFlag, main, pipes, process
<1> QED
  BY <1>6, <1>7, <1>8

\* The folder is updated.
LEMMA SyncedT ==
  ASSUME TInv
  PROVE  /\ Synced(box) \in Seq(Job) /\ Apart(Synced(box))
         /\ \A i \in 1..Len(Synced(box)) : /\ ~Synced(box)[i].deleted
                                           /\ Synced(box)[i].msg \in queued
                                           /\ Synced(box)[i].msg \in Msgs
<1>1. box \in Seq(Job) /\ Apart(box) /\ \A i \in 1..Len(box) : box[i].msg \in queued
  BY DEF TInv, TypeOK, Known, Job
<1>2. Cleaned(Synced(box), box)
  BY <1>1, SyncedBox
<1> DEFINE c == Synced(box)
<1> HIDE DEF c
<1>3. Cleaned(c, box)
  BY <1>2 DEF c
<1>4. \A i \in 1..Len(c) : ~c[i].deleted /\ c[i].msg \in queued
  BY <1>1, <1>3 DEF Cleaned
<1>5. \A i \in 1..Len(c) : c[i].msg \in Msgs
  <2>1. \A i \in 1..Len(c) : c[i] \in Job
    BY <1>3 DEF Cleaned
  <2> QED
    BY <2>1 DEF Job
<1>6. c \in Seq(Job) /\ Apart(c)
  BY <1>3 DEF Cleaned
<1> QED
  BY <1>4, <1>5, <1>6 DEF c

LEMMA UserExpungeT == ASSUME TInv, UserExpunge PROVE TypeOK' /\ Known' /\ Manned'
<1>1. TypeOK /\ Known /\ Manned
  BY DEF TInv
<1>2. /\ box' \in Seq(Job) /\ Apart(box')
      /\ \A i \in 1..Len(box') : box'[i].msg \in queued
  BY SyncedT DEF UserExpunge
<1>3. TypeOK'
  BY <1>1, <1>2 DEF UserExpunge, TypeOK, Job, main, pipes, process, outcome, others
<1>4. Known'
  BY <1>1, <1>2 DEF Known, UserExpunge, main, outcome, others
<1>5. Manned'
  BY <1>1 DEF Manned, Busily, AtWork, Alive, UserExpunge, main, pipes, process
<1> QED
  BY <1>3, <1>4, <1>5

\* The steps that leave the folder and the outcome alone.
LEMMA LineT ==
  ASSUME TInv, SetOnlineMode \/ NetworkSync \/ Start \/ Block
  PROVE  TypeOK' /\ Known' /\ Manned'
<1>1. TypeOK /\ Known /\ Manned
  BY DEF TInv
<1>2. /\ UNCHANGED <<folder, main, pipes, process, outcome, orphans, died>>
      /\ pc' \in {"loop", "nudge", "blocked"} /\ online' \in BOOLEAN
      /\ starts' \in 0..MaxStarts
  <2>1. starts \in Nat /\ starts <= MaxStarts /\ MaxStarts \in Nat /\ online \in BOOLEAN
    BY <1>1, ConstantsAssumption DEF TypeOK
  <2>2. CASE Start
    <3>1. starts' = starts + 1 /\ starts < MaxStarts
      BY <2>2 DEF Start
    <3>2. starts' \in 0..MaxStarts
      BY <2>1, <3>1
    <3> QED
      BY <2>1, <2>2, <3>2 DEF Start
  <2>3. CASE SetOnlineMode
    BY <2>1, <2>3 DEF SetOnlineMode
  <2>4. CASE NetworkSync \/ Block
    BY <2>1, <2>4 DEF NetworkSync, Block, others
  <2> QED
    BY <2>2, <2>3, <2>4
<1>3. TypeOK'
  BY <1>1, <1>2 DEF TypeOK, folder, main, pipes, process, outcome
<1>4. Known'
  BY <1>1, <1>2, SameFolder DEF folder, main, outcome
<1>5. Manned'
  BY <1>1, <1>2, SameWork DEF folder, main, pipes, process
<1> QED
  BY <1>3, <1>4, <1>5

\* The end of the main process: what was under way goes on without it.
LEMMA ExitT ==
  ASSUME TInv, Exit, UNCHANGED <<folder>>, returned' \subseteq queued,
         saved' \in [Msgs -> Nat], died' \in BOOLEAN
  PROVE  TypeOK' /\ Known' /\ Manned'
<1>1. TypeOK /\ Known /\ Manned /\ Flow
  BY DEF TInv, IInv
<1> DEFINE w == IF sender = "working" THEN <<job>> ELSE <<>>
           u == toSender \o w
<1>2. UNCHANGED <<box, queued, cancelled, edited, online, delivered, starts, deaths>>
  BY DEF Exit, folder
<1>3. sender = "working" => job = name /\ name \in Msgs
  BY <1>1 DEF Flow, Manned, Busily, AtWork, Alive, TypeOK, Jobs
<1>4. toSender # <<>> => toSender = <<name>>
  BY <1>1 DEF Flow
<1>5. Busily => name \in queued
  BY <1>1 DEF Manned, Known
<1>6. w \in Seq(Msgs) /\ \A i \in 1..Len(w) : w[i] \in queued
  <2>1. CASE sender = "working"
    BY <1>3, <1>5, <2>1 DEF Busily, AtWork
  <2>2. CASE sender # "working"
    BY <2>2
  <2> QED
    BY <2>1, <2>2
<1> HIDE DEF w
<1>7. toSender \in Seq(Msgs) /\ \A i \in 1..Len(toSender) : toSender[i] \in queued
  <2>1. CASE toSender = <<>>
    BY <2>1
  <2>2. CASE toSender # <<>>
    <3>1. toSender = <<name>> /\ name \in queued
      BY <1>4, <1>5, <2>2 DEF Busily
    <3>2. name \in Msgs
      BY <1>1, <3>1 DEF TypeOK
    <3> QED
      BY <3>1, <3>2
  <2> QED
    BY <2>1, <2>2
<1>8. orphans' = (orphans \o toSender) \o w
  BY DEF Exit, w
<1>9. orphans \in Seq(Msgs) /\ \A i \in 1..Len(orphans) : orphans[i] \in queued
  BY <1>1 DEF TypeOK, Known
<1>10. \A s, t \in Seq(Msgs) :
         (\A i \in 1..Len(s) : s[i] \in queued) /\ (\A i \in 1..Len(t) : t[i] \in queued)
           => s \o t \in Seq(Msgs) /\ \A i \in 1..Len(s \o t) : (s \o t)[i] \in queued
  OBVIOUS
<1>11. orphans \o toSender \in Seq(Msgs)
       /\ \A i \in 1..Len(orphans \o toSender) : (orphans \o toSender)[i] \in queued
  BY <1>7, <1>9, <1>10
<1>12. orphans' \in Seq(Msgs) /\ \A i \in 1..Len(orphans') : orphans'[i] \in queued
  <2> DEFINE s == orphans \o toSender
  <2>1. orphans' = s \o w /\ s \in Seq(Msgs) /\ \A i \in 1..Len(s) : s[i] \in queued
    BY <1>8, <1>11
  <2> HIDE DEF s
  <2> QED
    BY <1>6, <1>10, <2>1
<1>13. TypeOK'
  <2>1. <<>> \in Seq(Msgs) /\ <<>> \in Seq({"ok", "fail"})
    OBVIOUS
  <2>2. returned' \subseteq Msgs
    BY <1>1 DEF TypeOK
  <2> QED
    BY <1>1, <1>2, <1>12, <2>1, <2>2 DEF Exit, TypeOK, Jobs
<1>14. Known'
  BY <1>1, <1>2, <1>12 DEF Exit, Known, Apart
<1>15. Manned'
  BY <1>1, <1>2 DEF Exit, Manned, Busily, AtWork, Alive
<1> QED
  BY <1>13, <1>14, <1>15

LEMMA QuitT == ASSUME TInv, Quit \/ WriteNull PROVE TypeOK' /\ Known' /\ Manned'
<1>1. Exit /\ UNCHANGED <<folder, returned, saved>> /\ died' \in BOOLEAN
  BY DEF Quit, WriteNull, TInv, TypeOK
<1>2. returned \subseteq queued /\ saved \in [Msgs -> Nat]
  BY DEF TInv, TypeOK, Known
<1> QED
  BY <1>1, <1>2, ExitT

LEMMA NudgeT == ASSUME TInv, Nudge PROVE TypeOK' /\ Known' /\ Manned'
<1>1. TypeOK /\ Known /\ Manned
  BY DEF TInv
<1>2. /\ UNCHANGED <<folder, outcome, others, name, isSending, saveTo, deaths>>
      /\ pc' = "send"
  BY DEF Nudge, main, process
<1>3. Known'
  BY <1>1, <1>2, SameFolder DEF folder, outcome, others
<1>4. CASE created /\ UNCHANGED <<main, pipes, process>>
  <2>1. TypeOK'
    BY <1>1, <1>2, <1>4 DEF TypeOK, folder, main, pipes, process, outcome, others
  <2>2. Manned'
    BY <1>1, <1>2, <1>4, SameWork DEF folder, main, pipes, process
  <2> QED
    BY <1>3, <2>1, <2>2
<1>5. CASE /\ ~created
           /\ created' = TRUE /\ fh' = TRUE /\ handler' = TRUE
           /\ stale' = (stale \/ handler)
           /\ toSender' = <<>> /\ fromSender' = <<>>
           /\ sender' = "idle" /\ job' = None
  <2>1. <<>> \in Seq(Msgs) /\ <<>> \in Seq({"ok", "fail"}) /\ "idle" \in Alive
    BY DEF Alive
  <2>2. stale' \in BOOLEAN
    BY <1>5
  <2>3. TypeOK'
    BY <1>1, <1>2, <1>5, <2>1, <2>2 DEF TypeOK, Jobs, folder, outcome, others
  <2>4. Manned'
    BY <1>1, <1>2, <1>5 DEF Manned, Busily, AtWork, Alive, folder
  <2> QED
    BY <1>3, <2>3, <2>4
<1> QED
  BY <1>4, <1>5 DEF Nudge

LEMMA SenderDiedT == ASSUME TInv, SenderDied PROVE TypeOK' /\ Known' /\ Manned'
<1>1. TypeOK /\ Known /\ Manned /\ Flow
  BY DEF TInv, IInv
<1>2. /\ sender = "dead" /\ fromSender = <<>> /\ pc' = "send" /\ ~created'
      /\ UNCHANGED <<folder, stale, fh, name, saveTo, pipes, process, outcome, others>>
  BY DEF SenderDied, Reading, Readable
<1>3. toSender = <<>>
  BY <1>1, <1>2 DEF Flow, Alive
<1>4. TypeOK'
  BY <1>1, <1>2 DEF SenderDied, TypeOK, folder, pipes, process, outcome, others
<1>5. Known'
  BY <1>1, <1>2, SameFolder DEF folder, outcome, others
<1>6. Manned'
  BY <1>1, <1>2, <1>3 DEF Manned, Busily, AtWork, Alive, folder, pipes, process
<1> QED
  BY <1>4, <1>5, <1>6

LEMMA AnswerT == ASSUME TInv, Answer PROVE TypeOK' /\ Known' /\ Manned'
<1>1. TypeOK /\ Known /\ Manned /\ Flow /\ Copies
  BY DEF TInv, IInv
<1>2. /\ UNCHANGED <<queued, cancelled, edited>> /\ fromSender # <<>>
      /\ toSender = <<>> /\ ~AtWork
  BY <1>1 DEF Answer, Flow
<1>3. saved' \in [Msgs -> Nat]
  <2>1. CASE Head(fromSender) = "ok" /\ SaveCopy
    <3>1. fromSender = <<"ok">>
      BY <2>1 DEF Answer, TInv, IInv, Flow
    <3> QED
      BY <2>1, <3>1, SavesOne DEF TInv, IInv, Accepted
  <2>2. CASE UNCHANGED saved
    BY <2>2 DEF TInv, TypeOK
  <2> QED
    BY <2>1, <2>2 DEF Answer
<1>4. returned' \subseteq queued
  <2>1. InBox \subseteq queued
    <3>1. DOMAIN box = 1..Len(box)
      BY <1>1 DEF TypeOK
    <3> QED
      BY <1>1, <3>1 DEF InBox, Known
  <2>2. returned \subseteq queued
    BY <1>1 DEF Known
  <2> QED
    BY <2>1, <2>2 DEF Answer, GiveBack
<1>5. CASE box = <<>> /\ died' = TRUE /\ Exit /\ UNCHANGED box
  BY <1>2, <1>3, <1>4, <1>5, ExitT DEF folder
<1>6. CASE /\ box # <<>> /\ box' = FlagFirst(box) /\ Done
           /\ fromSender' = Tail(fromSender) /\ pc' = "send"
           /\ UNCHANGED <<created, handler, stale, fh, name, saveTo, toSender,
                          process, others, delivered>>
  <2>1. box \in Seq(Job) /\ Apart(box) /\ Len(box) \in Nat /\ Len(box) # 0
    BY <1>1, <1>6 DEF TypeOK, Known, Job
  <2>2. First(box) \in 1..Len(box)
    BY <2>1 DEF First
  <2> DEFINE i == First(box)
  <2>3. box' = [box EXCEPT ![i].deleted = TRUE] /\ i \in 1..Len(box) /\ TRUE \in BOOLEAN
    BY <1>6, <2>2 DEF FlagFirst
  <2> HIDE DEF i
  <2>4. Marks(box', box, i, TRUE)
    BY <2>1, <2>3, FlagBox
  <2>5. /\ box' \in Seq(Job) /\ Apart(box') /\ Len(box') = Len(box)
        /\ \A j \in 1..Len(box) : box'[j].msg = box[j].msg
    BY <2>4 DEF Marks
  <2>6. fromSender' \in Seq({"ok", "fail"}) /\ fromSender' = <<>>
    <3>1. Tail(<<"ok">>) = <<>> /\ Tail(<<"fail">>) = <<>> /\ <<>> \in Seq({"ok", "fail"})
      OBVIOUS
    <3>2. fromSender = <<"ok">> \/ fromSender = <<"fail">>
      BY <1>1, <1>2 DEF Flow
    <3> QED
      BY <1>6, <3>1, <3>2
  <2>7. returned' \subseteq Msgs
    BY <1>1, <1>4 DEF TypeOK
  <2>8. TypeOK'
    BY <1>1, <1>2, <1>3, <1>6, <2>5, <2>6, <2>7 DEF TypeOK, Job, Done, process, others
  <2>9. Known'
    BY <1>1, <1>2, <1>4, <1>6, <2>5 DEF Known, others
  <2>10. Manned'
    BY <1>1, <1>2, <1>6, <2>6 DEF Manned, Busily, AtWork, Alive, process
  <2> QED
    BY <2>8, <2>9, <2>10
<1> QED
  BY <1>5, <1>6 DEF Answer

LEMMA SendT == ASSUME TInv, Send PROVE TypeOK' /\ Known' /\ Manned'
<1>1. TypeOK /\ Known /\ Manned /\ Flow
  BY DEF TInv, IInv
<1>2. UNCHANGED <<queued, cancelled, edited, pipes, process, outcome, others>> /\ pc = "send"
  BY DEF Send
<1>3. CASE Busy /\ pc' = "loop" /\ UNCHANGED <<box, main>>
  <2>1. TypeOK'
    BY <1>1, <1>2, <1>3 DEF TypeOK, main, pipes, process, outcome, others
  <2>2. Known'
    BY <1>1, <1>2, <1>3, SameFolder DEF main, outcome, others
  <2>3. Manned'
    BY <1>1, <1>2, <1>3, SameWork DEF main, pipes, process
  <2> QED
    BY <2>1, <2>2, <2>3
<1>4. ASSUME ~Busy, box' = Synced(box) PROVE TypeOK' /\ Known' /\ Manned'
  <2>1. /\ box' \in Seq(Job) /\ Apart(box')
        /\ \A i \in 1..Len(box') : box'[i].msg \in queued /\ box'[i].msg \in Msgs
    BY <1>4, SyncedT
  <2>2. CASE pc' = "loop" /\ UNCHANGED main
    <3>1. TypeOK'
      BY <1>1, <1>2, <2>1, <2>2 DEF TypeOK, Job, main, pipes, process, outcome, others
    <3>2. Known'
      BY <1>1, <1>2, <2>1, <2>2 DEF Known, main, outcome, others
    <3>3. Manned'
      BY <1>1, <1>2, <2>2, SameWork DEF main, pipes, process
    <3> QED
      BY <3>1, <3>2, <3>3
  <2>3. CASE /\ box' # <<>> /\ isSending' = TRUE
             /\ name' = box'[First(box')].msg
             /\ saveTo' = SaveCommand(name')
             /\ pc' = "write"
             /\ UNCHANGED <<created, handler, stale, fh>>
    <3>1. Len(box') \in Nat /\ Len(box') # 0
      BY <2>1, <2>3
    <3>2. First(box') \in 1..Len(box')
      BY <3>1 DEF First
    <3>3. name' \in queued /\ name' \in Msgs /\ name' # None
      BY <2>1, <2>3, <3>2, ConstantsAssumption
    <3>4. saveTo' \in Jobs /\ name' \in Jobs
      BY <2>3, <3>3 DEF SaveCommand, Jobs
    <3>5. TypeOK'
      BY <1>1, <1>2, <2>1, <2>3, <3>4 DEF TypeOK, Job, pipes, process, outcome, others
    <3>6. Known'
      BY <1>1, <1>2, <2>1, <3>3 DEF Known, outcome, others
    <3>7. Manned'
      BY <1>1, <1>2, <2>3, <3>3 DEF Manned, Busily, AtWork, Alive, pipes, process
    <3> QED
      BY <3>5, <3>6, <3>7
  <2> QED
    BY <1>4, <2>2, <2>3 DEF Send
<1> QED
  BY <1>3, <1>4 DEF Send

\* One message more, or none.
LEMMA OneMore ==
  ASSUME NEW d \in [Msgs -> Nat], NEW m \in Msgs,
         NEW e, e = [d EXCEPT ![m] = @ + 1] \/ e = d
  PROVE  e \in [Msgs -> Nat] /\ \A x \in Msgs : x # m => e[x] = d[x]
<1>1. CASE e = [d EXCEPT ![m] = @ + 1]
  <2>1. d[m] + 1 \in Nat
    OBVIOUS
  <2> QED
    BY <1>1, <2>1
<1>2. CASE e = d
  BY <1>2
<1> QED
  BY <1>1, <1>2

\* The message goes to the sender, and the answer comes back.
LEMMA WriteT == ASSUME TInv, Write PROVE TypeOK' /\ Known' /\ Manned'
<1>1. TypeOK /\ Known /\ Manned
  BY DEF TInv
<1>2. /\ UNCHANGED <<folder, fromSender, process, outcome, others, name, isSending, saveTo>>
      /\ pc = "write" /\ pc' = "loop" /\ created' \in BOOLEAN /\ fh' \in BOOLEAN
      /\ UNCHANGED <<handler, stale>>
  BY <1>1 DEF Write, main, TypeOK
<1>3. name # None /\ name \in Msgs
  BY <1>1, <1>2 DEF Manned, Busily, TypeOK, Jobs
<1>4. Known'
  BY <1>1, <1>2, SameFolder DEF folder, outcome, others
<1>5. CASE sender \in Alive /\ toSender' = Append(toSender, name) /\ UNCHANGED main
  <2>1. toSender' \in Seq(Msgs)
    BY <1>1, <1>3, <1>5 DEF TypeOK
  <2>2. TypeOK'
    BY <1>1, <1>2, <2>1 DEF TypeOK, folder, process, outcome, others
  <2>3. Manned'
    BY <1>1, <1>2, <1>3, <1>5 DEF Manned, Busily, AtWork, Alive, folder, main, process
  <2> QED
    BY <1>4, <2>2, <2>3
<1>6. CASE sender \notin Alive /\ toSender' = toSender
  <2>1. TypeOK'
    BY <1>1, <1>2, <1>6 DEF TypeOK, folder, process, outcome, others
  <2>2. ~AtWork /\ toSender = <<>> /\ fromSender = <<>>
    BY <1>2 DEF TInv, IInv, Flow
  <2>3. Manned'
    BY <1>1, <1>2, <1>6, <2>2 DEF Manned, Busily, AtWork, Alive, folder, process
  <2> QED
    BY <1>4, <2>1, <2>3
<1> QED
  BY <1>5, <1>6 DEF Write

LEMMA ReadJobT == ASSUME TInv, ReadJob PROVE TypeOK' /\ Known' /\ Manned'
<1>1. TypeOK /\ Known /\ Manned /\ Flow
  BY DEF TInv, IInv
<1>2. toSender = <<name>> /\ name \in Msgs
  BY <1>1 DEF ReadJob, Flow, Manned, Busily, TypeOK, Jobs
<1>3. Head(<<name>>) = name /\ Tail(<<name>>) = <<>> /\ <<>> \in Seq(Msgs)
  OBVIOUS
<1>4. job' = name /\ toSender' = <<>> /\ sender' = "working"
  BY <1>2, <1>3 DEF ReadJob
<1>5. UNCHANGED <<folder, pc, main, fromSender, deaths, outcome, others>>
  BY DEF ReadJob
<1>6. TypeOK'
  BY <1>1, <1>2, <1>3, <1>4, <1>5 DEF TypeOK, Jobs, Alive, folder, main, outcome, others
<1>7. Known'
  BY <1>1, <1>5, SameFolder DEF folder, main, outcome, others
<1>8. Manned'
  BY <1>1, <1>2, <1>4, <1>5 DEF Manned, Busily, AtWork, Alive, folder, main
<1> QED
  BY <1>6, <1>7, <1>8

LEMMA DeliverT == ASSUME TInv, Deliver PROVE TypeOK' /\ Known' /\ Manned'
<1>1. TypeOK /\ Known /\ Manned /\ Flow
  BY DEF TInv, IInv
<1>2. /\ job = name /\ name \in Msgs /\ name \in queued /\ AtWork /\ AtWork'
      /\ sender \in Alive /\ sender' \in Alive
  BY <1>1 DEF Deliver, Flow, Manned, Busily, AtWork, Alive, TypeOK, Jobs, Known, Alive
<1>3. UNCHANGED <<folder, pc, main, pipes, job, deaths, returned, saved, others>>
  BY DEF Deliver
<1>4. delivered' = [delivered EXCEPT ![name] = @ + 1] \/ delivered' = delivered
  BY <1>2 DEF Deliver
<1>5. /\ delivered' \in [Msgs -> Nat]
      /\ \A m \in Msgs : m # name => delivered'[m] = delivered[m]
  <2>1. delivered \in [Msgs -> Nat]
    BY <1>1 DEF TypeOK
  <2> QED
    BY <1>2, <1>4, <2>1, OneMore
<1>6. TypeOK'
  BY <1>1, <1>2, <1>3, <1>5 DEF TypeOK, folder, main, pipes, others
<1>7. Known'
  BY <1>1, <1>2, <1>3, <1>5 DEF Known, Apart, folder, main, others
<1>8. Manned'
  BY <1>1, <1>2, <1>3 DEF Manned, Busily, folder, main, pipes
<1> QED
  BY <1>6, <1>7, <1>8

LEMMA ReportT == ASSUME TInv, Report PROVE TypeOK' /\ Known' /\ Manned'
<1>1. TypeOK /\ Known /\ Manned /\ Flow
  BY DEF TInv, IInv
<1>2. /\ AtWork /\ fromSender = <<>> /\ sender' = "idle" /\ job' = None
      /\ UNCHANGED <<folder, pc, main, toSender, deaths, outcome, others>>
  BY <1>1 DEF Report, Flow, AtWork
<1>3. fromSender' \in Seq({"ok", "fail"})
  <2>1. fromSender' = <<"ok">> \/ fromSender' = <<"fail">>
    BY <1>2 DEF Report
  <2> QED
    BY <2>1
<1>4. TypeOK'
  BY <1>1, <1>2, <1>3 DEF TypeOK, Jobs, Alive, folder, main, outcome, others
<1>5. Known'
  BY <1>1, <1>2, SameFolder DEF folder, main, outcome, others
<1>6. Manned'
  BY <1>1, <1>2 DEF Manned, Busily, AtWork, Alive, folder, main
<1> QED
  BY <1>4, <1>5, <1>6

LEMMA DieT == ASSUME TInv, Die PROVE TypeOK' /\ Known' /\ Manned'
<1>1. TypeOK /\ Known /\ Manned /\ Flow
  BY DEF TInv, IInv
<1>2. /\ sender' = "dead" /\ job' = None /\ toSender' = <<>> /\ deaths' = deaths + 1
      /\ UNCHANGED <<folder, pc, main, fromSender, outcome, others>>
      /\ deaths < MaxDeaths
  BY DEF Die
<1>3. deaths' \in 0..MaxDeaths /\ <<>> \in Seq(Msgs)
  BY <1>1, <1>2, ConstantsAssumption DEF TypeOK
<1>4. TypeOK'
  BY <1>1, <1>2, <1>3 DEF TypeOK, Jobs, folder, main, outcome, others
<1>5. Known'
  BY <1>1, <1>2, SameFolder DEF folder, main, outcome, others
<1>6. Manned'
  BY <1>1, <1>2 DEF Manned, Busily, AtWork, Alive, folder, main
<1> QED
  BY <1>4, <1>5, <1>6

LEMMA OrphanT == ASSUME TInv, Orphan PROVE TypeOK' /\ Known' /\ Manned'
<1>1. TypeOK /\ Known /\ Manned
  BY DEF TInv
<1>2. /\ orphans \in Seq(Msgs) /\ DOMAIN orphans = 1..Len(orphans) /\ Len(orphans) \in Nat
      /\ \A i \in 1..Len(orphans) : orphans[i] \in queued /\ orphans[i] \in Msgs
  BY <1>1 DEF TypeOK, Known
<1>3. PICK i \in 1..Len(orphans) :
        /\ orphans' = RemoveAt(orphans, i)
        /\ delivered' = [delivered EXCEPT ![orphans[i]] = @ + 1] \/ delivered' = delivered
  BY <1>2 DEF Orphan
<1>4. /\ RemoveAt(orphans, i) \in Seq(Msgs) /\ Len(RemoveAt(orphans, i)) = Len(orphans) - 1
      /\ \A j \in 1..(Len(orphans) - 1) :
           RemoveAt(orphans, i)[j] = IF j < i THEN orphans[j] ELSE orphans[j + 1]
  BY <1>2, Removed
<1>5. orphans' \in Seq(Msgs) /\ \A j \in 1..Len(orphans') : orphans'[j] \in queued
  <2>1. ASSUME NEW j \in 1..(Len(orphans) - 1) PROVE RemoveAt(orphans, i)[j] \in queued
    BY <1>2, <1>4
  <2> QED
    BY <1>3, <1>4, <2>1
<1>6. UNCHANGED <<folder, pc, main, pipes, process, returned, saved, online, died, starts>>
  BY DEF Orphan
<1>7. /\ delivered' \in [Msgs -> Nat]
      /\ \A m \in Msgs : m # orphans[i] => delivered'[m] = delivered[m]
  <2>1. delivered \in [Msgs -> Nat] /\ orphans[i] \in Msgs
    BY <1>1, <1>2 DEF TypeOK
  <2> QED
    BY <1>3, <2>1, OneMore
<1>8. TypeOK'
  <2>1. UNCHANGED <<box, queued, cancelled, returned, online, isSending, created, handler,
                    stale, fh, died, pc, name, saveTo, job, toSender, fromSender, sender,
                    saved, deaths, starts>>
    BY <1>6 DEF folder, main, pipes, process
  <2>2. orphans' \in Seq(Msgs) /\ delivered' \in [Msgs -> Nat]
    BY <1>5, <1>7
  <2> QED
    BY <1>1, <2>1, <2>2 DEF TypeOK
<1>9. Known'
  BY <1>1, <1>2, <1>5, <1>6, <1>7 DEF Known, Apart, folder, main
<1>10. Manned'
  BY <1>1, <1>6 DEF Manned, Busily, AtWork, Alive, folder, main, pipes, process
<1> QED
  BY <1>8, <1>9, <1>10

LEMMA StepT == TInv /\ [Next]_vars => TInv'
<1> SUFFICES ASSUME TInv, [Next]_vars PROVE TInv'
  OBVIOUS
<1>1. IInv'
  BY Step DEF TInv
<1>2. TypeOK' /\ Known' /\ Manned'
  <2>1. CASE User
    BY <2>1, QueueT, UserFlagT, UserExpungeT, LineT, QuitT DEF User
  <2>2. CASE Handler
    BY <2>2, NudgeT, SendT, WriteT, QuitT DEF Handler
  <2>3. CASE Events
    BY <2>3, LineT, AnswerT, SenderDiedT DEF Events
  <2>4. CASE Sender
    BY <2>4, ReadJobT, DeliverT, ReportT DEF Sender
  <2>5. CASE Orphan
    BY <2>5, OrphanT
  <2>6. CASE Die
    BY <2>6, DieT
  <2>7. CASE UNCHANGED vars
    BY <2>7 DEF TInv, TypeOK, Known, Apart, Manned, Busily, AtWork, Alive, vars, folder, main,
                pipes, process, outcome, others
  <2> QED
    BY <2>1, <2>2, <2>3, <2>4, <2>5, <2>6, <2>7 DEF Next
<1> QED
  BY <1>1, <1>2 DEF TInv

-----------------------------------------------------------------------------
\* Every variable has its type, and what is under way is a message that was queued.
THEOREM TypeCorrect == Spec => []TypeOK
<1>1. Init => TInv
  BY InitTInv
<1>2. TInv /\ [Next]_vars => TInv'
  BY StepT
<1>3. TInv => TypeOK
  BY DEF TInv
<1> QED
  BY <1>1, <1>2, <1>3, PTL DEF Spec

\* RatSenderHandler() never starts with a message that is marked: it updates the
\* folder before it looks for one, and the folder holds no message twice.
THEOREM MarkedNotSent == Spec => DeletedNotSent
<1>1. TInv /\ [Next]_vars =>
        ((pc = "send" /\ pc' = "write") =>
           \A i \in DOMAIN box : box[i].msg = name' => ~box[i].deleted)
  <2> SUFFICES ASSUME TInv, [Next]_vars, pc = "send", pc' = "write",
                      NEW i \in DOMAIN box, box[i].msg = name'
               PROVE  ~box[i].deleted
    OBVIOUS
  <2>1. Send
    BY DEF Next, User, Queue, UserFlag, UserExpunge, SetOnlineMode, NetworkSync, Quit,
           Start, Exit, Handler, Nudge, Write, WriteNull, Events, Block, Answer, SenderDied,
           Reading, Sender, ReadJob, Deliver, Report, Orphan, Die, vars, main, process
  <2>2. box' # <<>> /\ box' = Synced(box) /\ name' = box'[First(box')].msg
    BY <2>1 DEF Send
  <2>3. box \in Seq(Job) /\ Apart(box) /\ i \in 1..Len(box)
    BY DEF TInv, TypeOK, Known, Job
  <2>4. Cleaned(box', box)
    <3>1. Cleaned(Synced(box), box)
      BY <2>3, SyncedBox
    <3> QED
      BY <2>2, <3>1
  <2>5. First(box') \in 1..Len(box')
    BY <2>2, <2>4 DEF Cleaned, First
  <2>6. PICK k \in 1..Len(box) : box'[First(box')] = box[k] /\ ~box'[First(box')].deleted
    BY <2>4, <2>5 DEF Cleaned
  <2>7. k = i
    BY <2>2, <2>3, <2>6 DEF Apart
  <2> QED
    BY <2>6, <2>7
<1>2. Spec => []TInv
  BY InitTInv, StepT, PTL DEF Spec
<1> QED
  BY <1>1, <1>2, PTL DEF Spec, DeletedNotSent

-----------------------------------------------------------------------------
(* What becomes of a message.                                              *)

\* How often its verdict has come, and may yet come from a sender of an
\* earlier run.
Count(s, m) == Cardinality({i \in 1..Len(s) : s[i] = m})
Heard(m) == delivered[m] + (IF m \in returned THEN 1 ELSE 0)
OnWay(m) == Count(orphans, m)

\* It will be sent, or is being sent, and its verdict has not come.
Pending(m) == pc # "down" /\ m \in Waits(box) /\ ~(Accepted /\ name = m)

Fate(m) == Heard(m) + OnWay(m) + (IF Pending(m) THEN 1 ELSE 0)

\* Pairs that stand for the number v[m], but for the first, of every m.
Beyond(v) == UNION {{m} \X (2 .. v[m]) : m \in Msgs}

\* There are at most n of them.
Bounded(v, n) == IsFiniteSet(Beyond(v)) /\ Cardinality(Beyond(v)) <= n

\* What is under way is first in the folder, ...
Foremost ==
  /\ Busily => box # <<>> /\ box[1].msg = name /\ ~box[1].deleted
  /\ Accepted => delivered[name] > 0

\* ... and the messages behind it have not had their turn.
Untried ==
  \A i, j \in 1..Len(box) : i < j /\ ~box[i].deleted /\ ~box[j].deleted =>
    Heard(box[j].msg) = 0 /\ OnWay(box[j].msg) = 0

\* Every message that was queued waits or has its verdict, ...
Settled ==
  /\ \A m \in queued : m \in Waits(box) \/ Heard(m) > 0
  /\ Waits(box) \cap returned = {}

\* ... and the messages have no more verdicts to expect than one each and one
\* for every interruption.
Fated == Bounded([m \in Msgs |-> Fate(m)], deaths + starts)

\* What holds while the user lets the folder alone.
InOrder == Foremost /\ Untried /\ Settled /\ Fated

SInv == TInv /\ (edited \/ InOrder)

-----------------------------------------------------------------------------
(* Counting.                                                               *)

LEMMA CountNat ==
  ASSUME NEW s \in Seq(Msgs), NEW m
  PROVE  /\ Count(s, m) \in Nat
         /\ Count(s, m) = 0 => \A i \in 1..Len(s) : s[i] # m
<1> DEFINE S == {i \in 1..Len(s) : s[i] = m}
<1>1. Len(s) \in Nat /\ IsFiniteSet(1..Len(s)) /\ S \in SUBSET (1..Len(s))
  BY FS_Interval
<1>2. IsFiniteSet(S)
  BY <1>1, FS_Subset
<1>3. Cardinality(S) \in Nat /\ (Cardinality(S) = 0 => S = {})
  BY <1>2, FS_CardinalityType, FS_EmptySet
<1> QED
  BY <1>3 DEF Count

LEMMA CountAppend ==
  ASSUME NEW s \in Seq(Msgs), NEW x \in Msgs, NEW m
  PROVE  Count(Append(s, x), m) = Count(s, m) + (IF x = m THEN 1 ELSE 0)
<1> DEFINE t == Append(s, x)
           S == {i \in 1..Len(s) : s[i] = m}
           T == {i \in 1..Len(t) : t[i] = m}
           n == Len(s)
<1>1. /\ n \in Nat /\ Len(t) = n + 1 /\ t[n + 1] = x
      /\ \A i \in 1..n : t[i] = s[i]
  OBVIOUS
<1>2. IsFiniteSet(1..n) /\ S \in SUBSET (1..n)
  BY <1>1, FS_Interval
<1>3. IsFiniteSet(S)
  BY <1>2, FS_Subset
<1>4. n + 1 \notin S
  BY <1>1, <1>2
<1>5. CASE x = m
  <2>1. T = S \cup {n + 1}
    <3>1. \A i \in 1..Len(t) : i \in 1..n \/ i = n + 1
      BY <1>1
    <3>2. \A i \in 1..n : i \in 1..Len(t)
      BY <1>1
    <3>3. n + 1 \in 1..Len(t)
      BY <1>1
    <3> HIDE DEF t, n
    <3>4. \A i : i \in S <=> i \in 1..n /\ s[i] = m
      BY DEF n
    <3> QED
      BY <1>1, <1>5, <3>1, <3>2, <3>3, <3>4
  <2> HIDE DEF S, T
  <2>2. Cardinality(T) = Cardinality(S) + 1
    BY <1>3, <1>4, <2>1, FS_AddElement
  <2> QED
    BY <1>5, <2>2 DEF S, T, Count
<1>6. CASE x # m
  <2>1. T = S
    BY <1>1, <1>6
  <2>2. Cardinality(S) \in Nat
    BY <1>3, FS_CardinalityType
  <2> HIDE DEF S, T
  <2>3. Cardinality(T) = Cardinality(S) + (IF x = m THEN 1 ELSE 0)
    BY <1>6, <2>1, <2>2
  <2> QED
    BY <2>3 DEF Count, S, T
<1> QED
  BY <1>5, <1>6

LEMMA CountRemoved ==
  ASSUME NEW s \in Seq(Msgs), NEW i \in 1..Len(s), NEW m
  PROVE  Count(RemoveAt(s, i), m) <= Count(s, m) - (IF s[i] = m THEN 1 ELSE 0)
<1> DEFINE r == RemoveAt(s, i)
           S == {k \in 1..Len(s) : s[k] = m}
           R == {k \in 1..Len(r) : r[k] = m}
           f == [k \in R |-> IF k < i THEN k ELSE k + 1]
<1>1. /\ r \in Seq(Msgs) /\ Len(r) = Len(s) - 1 /\ Len(s) \in Nat
      /\ \A k \in 1..(Len(s) - 1) : r[k] = IF k < i THEN s[k] ELSE s[k + 1]
  BY Removed
<1> HIDE DEF r
<1>2. \A k \in R : k \in 1..(Len(s) - 1) /\ r[k] = m
  BY <1>1
<1>3. ASSUME NEW k \in R PROVE f[k] \in S \ {i}
  <2>1. k \in 1..(Len(s) - 1) /\ i \in 1..Len(s)
    BY <1>2
  <2>2. CASE k < i
    <3>1. s[k] = m /\ k \in 1..Len(s) /\ k # i
      BY <1>1, <1>2, <2>1, <2>2
    <3> QED
      BY <2>2, <3>1
  <2>3. CASE ~(k < i)
    <3>1. s[k + 1] = m /\ k + 1 \in 1..Len(s) /\ k + 1 # i
      BY <1>1, <1>2, <2>1, <2>3
    <3> QED
      BY <2>3, <3>1
  <2> QED
    BY <2>2, <2>3
<1>4. \A k, l \in R : f[k] = f[l] => k = l
  <2> SUFFICES ASSUME NEW k \in R, NEW l \in R, f[k] = f[l] PROVE k = l
    OBVIOUS
  <2>1. k \in Nat /\ l \in Nat /\ i \in Nat
    BY <1>1, <1>2
  <2>2. f[k] = (IF k < i THEN k ELSE k + 1) /\ f[l] = (IF l < i THEN l ELSE l + 1)
    OBVIOUS
  <2> QED
    BY <2>1, <2>2
<1>5. IsFiniteSet(S)
  <2>1. IsFiniteSet(1..Len(s)) /\ S \in SUBSET (1..Len(s))
    BY <1>1, FS_Interval
  <2> QED
    BY <2>1, FS_Subset
<1>6. /\ IsFiniteSet(S \ {i})
      /\ Cardinality(S \ {i}) =
           IF i \in S THEN Cardinality(S) - 1 ELSE Cardinality(S)
  BY <1>5, FS_RemoveElement
<1>7. f \in Injection(R, S \ {i})
  <2> HIDE DEF R, S
  <2>1. f \in [R -> S \ {i}]
    BY <1>3
  <2> HIDE DEF f
  <2> QED
    BY <1>4, <2>1 DEF Injection, IsInjective
<1> HIDE DEF R, f
<1>8. Cardinality(R) <= Cardinality(S \ {i})
  <2> HIDE DEF S
  <2> QED
    BY <1>6, <1>7, FS_Injection
<1>9. i \in S <=> s[i] = m
  OBVIOUS
<1>10. Cardinality(S) \in Nat
  BY <1>5, FS_CardinalityType
<1> HIDE DEF S
<1>11. Cardinality(R) <= Cardinality(S) - (IF s[i] = m THEN 1 ELSE 0)
  BY <1>6, <1>8, <1>9, <1>10
<1> QED
  BY <1>11 DEF Count, R, S, r

-----------------------------------------------------------------------------
(* Bounds.                                                                 *)

LEMMA BeyondIn ==
  ASSUME NEW v, NEW m \in Msgs, NEW k
  PROVE  <<m, k>> \in Beyond(v) <=> k \in 2 .. v[m]
BY DEF Beyond

LEMMA BeyondPairs ==
  ASSUME NEW v, NEW p \in Beyond(v)
  PROVE  \E m \in Msgs : \E k \in 2 .. v[m] : p = <<m, k>>
BY DEF Beyond

\* First verdicts do not count.
LEMMA BoundedLower ==
  ASSUME NEW v \in [Msgs -> Nat], NEW w \in [Msgs -> Nat], NEW n, Bounded(v, n),
         \A m \in Msgs : w[m] <= v[m] \/ w[m] <= 1, n \in Nat
  PROVE  Bounded(w, n)
<1>1. ASSUME NEW p \in Beyond(w) PROVE p \in Beyond(v)
  <2>1. PICK m \in Msgs : \E k \in 2 .. w[m] : p = <<m, k>>
    BY BeyondPairs
  <2>0. PICK k \in 2 .. w[m] : p = <<m, k>>
    BY <2>1
  <2>2. w[m] \in Nat /\ v[m] \in Nat /\ (w[m] <= v[m] \/ w[m] <= 1)
    OBVIOUS
  <2>3. k \in 2 .. v[m]
    BY <2>2
  <2> QED
    BY <2>0, <2>3, BeyondIn
<1>2. Beyond(w) \in SUBSET Beyond(v)
  BY <1>1
<1>3. IsFiniteSet(Beyond(v)) /\ Cardinality(Beyond(v)) <= n
  BY DEF Bounded
<1>4. IsFiniteSet(Beyond(w)) /\ Cardinality(Beyond(w)) <= Cardinality(Beyond(v))
  BY <1>2, <1>3, FS_Subset
<1>5. Cardinality(Beyond(w)) \in Nat /\ Cardinality(Beyond(v)) \in Nat
  BY <1>3, <1>4, FS_CardinalityType
<1> QED
  BY <1>3, <1>4, <1>5 DEF Bounded

\* One more verdict for one message.
LEMMA BoundedMore ==
  ASSUME NEW v \in [Msgs -> Nat], NEW w \in [Msgs -> Nat], NEW n \in Nat, Bounded(v, n),
         NEW x \in Msgs, w[x] <= v[x] + 1,
         \A m \in Msgs : m # x => w[m] <= v[m] \/ w[m] <= 1
  PROVE  Bounded(w, n + 1)
<1> DEFINE e == <<x, v[x] + 1>>
<1>1. ASSUME NEW p \in Beyond(w) PROVE p \in Beyond(v) \cup {e}
  <2>1. PICK m \in Msgs : \E k \in 2 .. w[m] : p = <<m, k>>
    BY BeyondPairs
  <2>0. PICK k \in 2 .. w[m] : p = <<m, k>>
    BY <2>1
  <2>2. w[m] \in Nat /\ v[m] \in Nat
    OBVIOUS
  <2>3. CASE m # x
    <3>1. k \in 2 .. v[m]
      BY <2>2, <2>3
    <3> QED
      BY <2>0, <3>1, BeyondIn
  <2>4. CASE m = x
    <3>1. k \in 2 .. v[m] \/ k = v[m] + 1
      BY <2>2, <2>4
    <3> QED
      BY <2>0, <2>4, <3>1, BeyondIn
  <2> QED
    BY <2>3, <2>4
<1> HIDE DEF e
<1>2. Beyond(w) \in SUBSET (Beyond(v) \cup {e})
  BY <1>1
<1>3. IsFiniteSet(Beyond(v)) /\ Cardinality(Beyond(v)) <= n
  BY DEF Bounded
<1>4. /\ IsFiniteSet(Beyond(v) \cup {e})
      /\ Cardinality(Beyond(v) \cup {e}) =
           IF e \in Beyond(v) THEN Cardinality(Beyond(v)) ELSE Cardinality(Beyond(v)) + 1
  BY <1>3, FS_AddElement
<1>5. IsFiniteSet(Beyond(w)) /\ Cardinality(Beyond(w)) <= Cardinality(Beyond(v) \cup {e})
  <2> DEFINE Z == Beyond(v) \cup {e}
  <2>1. IsFiniteSet(Z) /\ Beyond(w) \in SUBSET Z
    BY <1>2, <1>4
  <2> HIDE DEF Z
  <2>2. IsFiniteSet(Beyond(w)) /\ Cardinality(Beyond(w)) <= Cardinality(Z)
    BY <2>1, FS_Subset
  <2> QED
    BY <2>2 DEF Z
<1>6. Cardinality(Beyond(w)) \in Nat /\ Cardinality(Beyond(v)) \in Nat
  BY <1>3, <1>5, FS_CardinalityType
<1> QED
  BY <1>3, <1>4, <1>5, <1>6 DEF Bounded

\* A verdict that is expected has not been counted.
LEMMA BoundedStrict ==
  ASSUME NEW v \in [Msgs -> Nat], NEW w \in [Msgs -> Nat], NEW n \in Nat, Bounded(w, n),
         \A m \in Msgs : v[m] <= w[m],
         NEW x \in Msgs, 0 < v[x], v[x] < w[x]
  PROVE  Cardinality(Beyond(v)) < n
<1> DEFINE e == <<x, v[x] + 1>>
<1>1. ASSUME NEW p \in Beyond(v) PROVE p \in Beyond(w)
  <2>1. PICK m \in Msgs : \E k \in 2 .. v[m] : p = <<m, k>>
    BY BeyondPairs
  <2>0. PICK k \in 2 .. v[m] : p = <<m, k>>
    BY <2>1
  <2>2. w[m] \in Nat /\ v[m] \in Nat /\ v[m] <= w[m]
    OBVIOUS
  <2>3. k \in 2 .. w[m]
    BY <2>2
  <2> QED
    BY <2>0, <2>3, BeyondIn
<1>2. e \in Beyond(w) /\ e \notin Beyond(v)
  <2>1. v[x] \in Nat /\ w[x] \in Nat
    OBVIOUS
  <2>2. v[x] + 1 \in 2 .. w[x] /\ v[x] + 1 \notin 2 .. v[x]
    BY <2>1
  <2> QED
    BY <2>2, BeyondIn
<1> HIDE DEF e
<1>3. IsFiniteSet(Beyond(w)) /\ Cardinality(Beyond(w)) <= n
  BY DEF Bounded
<1>4. Beyond(v) \in SUBSET Beyond(w) /\ Beyond(v) # Beyond(w)
  BY <1>1, <1>2
<1>5. /\ IsFiniteSet(Beyond(v)) /\ Cardinality(Beyond(v)) <= Cardinality(Beyond(w))
      /\ Cardinality(Beyond(w)) # Cardinality(Beyond(v))
  BY <1>3, <1>4, FS_Subset
<1>6. Cardinality(Beyond(w)) \in Nat /\ Cardinality(Beyond(v)) \in Nat
  BY <1>3, <1>5, FS_CardinalityType
<1> QED
  BY <1>3, <1>5, <1>6

-----------------------------------------------------------------------------
(* What is expected of every message is a number, and stays bounded.       *)

Numbers ==
  /\ deaths \in Nat /\ starts \in Nat
  /\ \A m \in Msgs : /\ delivered[m] \in Nat /\ Heard(m) \in Nat
                     /\ OnWay(m) \in Nat /\ Fate(m) \in Nat

LEMMA Counted == TInv => Numbers
<1> SUFFICES ASSUME TInv PROVE Numbers
  OBVIOUS
<1>1. TypeOK
  BY DEF TInv
<1>2. deaths \in Nat /\ starts \in Nat
  BY <1>1 DEF TypeOK
<1>3. ASSUME NEW m \in Msgs
      PROVE  /\ delivered[m] \in Nat /\ Heard(m) \in Nat
             /\ OnWay(m) \in Nat /\ Fate(m) \in Nat
  <2>1. delivered[m] \in Nat
    BY <1>1 DEF TypeOK
  <2>2. Heard(m) \in Nat
    BY <2>1 DEF Heard
  <2>3. OnWay(m) \in Nat
    <3>1. orphans \in Seq(Msgs)
      BY <1>1 DEF TypeOK
    <3> QED
      BY <3>1, CountNat DEF OnWay
  <2>4. Fate(m) \in Nat
    BY <2>2, <2>3 DEF Fate
  <2> QED
    BY <2>1, <2>2, <2>3, <2>4
<1> QED
  BY <1>2, <1>3 DEF Numbers

LEMMA CountedNext == TInv' => Numbers'
  BY Counted, PTL

\* Nobody has more to expect, but for a first verdict.
LEMMA FatedLower ==
  ASSUME TInv, TInv', Fated, deaths' + starts' = deaths + starts,
         \A m \in Msgs : Fate(m)' <= Fate(m) \/ Fate(m)' <= 1
  PROVE  Fated'
<1> DEFINE v == [m \in Msgs |-> Fate(m)]
           w == [m \in Msgs |-> Fate(m)']
           n == deaths + starts
<1>1. Numbers /\ Numbers'
  BY Counted, CountedNext
<1>2. v \in [Msgs -> Nat] /\ w \in [Msgs -> Nat] /\ n \in Nat
  BY <1>1 DEF Numbers
<1>3. \A m \in Msgs : w[m] <= v[m] \/ w[m] <= 1
  OBVIOUS
<1>4. Bounded(v, n)
  BY DEF Fated
<1> HIDE DEF v, w, n
<1>5. Bounded(w, n)
  BY <1>2, <1>3, <1>4, BoundedLower
<1> QED
  BY <1>5 DEF w, n, Fated

\* An interruption makes room for one more verdict.
LEMMA FatedMore ==
  ASSUME TInv, TInv', Fated, deaths' + starts' = (deaths + starts) + 1,
         NEW x \in Msgs, Fate(x)' <= Fate(x) + 1,
         \A m \in Msgs : m # x => Fate(m)' <= Fate(m) \/ Fate(m)' <= 1
  PROVE  Fated'
<1> DEFINE v == [m \in Msgs |-> Fate(m)]
           w == [m \in Msgs |-> Fate(m)']
           n == deaths + starts
<1>1. Numbers /\ Numbers'
  BY Counted, CountedNext
<1>2. v \in [Msgs -> Nat] /\ w \in [Msgs -> Nat] /\ n \in Nat
  BY <1>1 DEF Numbers
<1>3. /\ w[x] <= v[x] + 1
      /\ \A m \in Msgs : m # x => w[m] <= v[m] \/ w[m] <= 1
  OBVIOUS
<1>4. Bounded(v, n)
  BY DEF Fated
<1> HIDE DEF v, w, n
<1>5. Bounded(w, n + 1)
  BY <1>2, <1>3, <1>4, BoundedMore
<1> QED
  BY <1>5 DEF w, n, Fated

\* More room than is needed.
LEMMA FatedMoreRoom ==
  ASSUME TInv, TInv', Fated, deaths' + starts' = (deaths + starts) + 1,
         \A m \in Msgs : Fate(m)' <= Fate(m) \/ Fate(m)' <= 1
  PROVE  Fated'
<1> DEFINE v == [m \in Msgs |-> Fate(m)]
           w == [m \in Msgs |-> Fate(m)']
           n == deaths + starts
<1>1. Numbers /\ Numbers'
  BY Counted, CountedNext
<1>2. v \in [Msgs -> Nat] /\ w \in [Msgs -> Nat] /\ n \in Nat /\ n + 1 \in Nat
  BY <1>1 DEF Numbers
<1>3. \A m \in Msgs : w[m] <= v[m] \/ w[m] <= 1
  OBVIOUS
<1>4. /\ IsFiniteSet(Beyond(v)) /\ Cardinality(Beyond(v)) <= n
      /\ Cardinality(Beyond(v)) \in Nat
  BY FS_CardinalityType DEF Fated, Bounded
<1> HIDE DEF v, w, n
<1>5. Bounded(v, n + 1)
  BY <1>2, <1>4 DEF Bounded
<1>6. Bounded(w, n + 1)
  BY <1>2, <1>3, <1>5, BoundedLower
<1> QED
  BY <1>6 DEF w, n, Fated

\* A message has no more to expect if it has not got more than it was to get.
LEMMA FateLess ==
  ASSUME TInv, TInv', NEW m \in Msgs, Heard(m)' + OnWay(m)' <= Heard(m) + OnWay(m),
         Pending(m)' => Pending(m)
  PROVE  Fate(m)' <= Fate(m)
<1>1. /\ Heard(m) \in Nat /\ OnWay(m) \in Nat /\ Fate(m) \in Nat
      /\ Heard(m)' \in Nat /\ OnWay(m)' \in Nat /\ Fate(m)' \in Nat
  BY Counted, CountedNext DEF Numbers
<1> QED
  BY <1>1 DEF Fate

LEMMA InitInOrder == Init => InOrder
<1> SUFFICES ASSUME Init PROVE InOrder
  OBVIOUS
<1>1. Foremost
  BY DEF Init, Foremost, Busily, AtWork, Accepted
<1>2. Untried
  BY DEF Init, Untried
<1>3. Settled
  BY DEF Init, Settled
<1>4. Fated
  <2> DEFINE v == [m \in Msgs |-> Fate(m)]
  <2>1. Numbers
    BY InitTInv, Counted
  <2>2. \A m \in Msgs : v[m] = 0
    <3> SUFFICES ASSUME NEW m \in Msgs PROVE Fate(m) = 0
      OBVIOUS
    <3>1. Heard(m) = 0
      BY DEF Init, Heard
    <3>2. OnWay(m) = 0
      <4>1. {i \in 1..Len(orphans) : orphans[i] = m} = {}
        BY DEF Init
      <4> QED
        BY <4>1, FS_EmptySet DEF OnWay, Count
    <3>3. ~Pending(m)
      BY DEF Init, Pending, Waits
    <3> QED
      BY <3>1, <3>2, <3>3 DEF Fate
  <2>3. Beyond(v) = {}
    <3> HIDE DEF v
    <3> SUFFICES ASSUME NEW p \in Beyond(v) PROVE FALSE
      OBVIOUS
    <3>1. PICK m \in Msgs : \E k \in 2 .. v[m] : p = <<m, k>>
      BY BeyondPairs
    <3> QED
      BY <2>2, <3>1
  <2> HIDE DEF v
  <2>4. Bounded(v, deaths + starts)
    BY <2>3, FS_EmptySet DEF Init, Bounded
  <2> QED
    BY <2>4 DEF v, Fated
<1> QED
  BY <1>1, <1>2, <1>3, <1>4 DEF InOrder

\* A step that leaves the folder, the outcome and the interruptions alone, and
\* starts nothing.
LEMMA Calm ==
  ASSUME TInv, TInv', InOrder, pc # "down",
         UNCHANGED <<box, queued, delivered, returned, orphans, deaths, starts, name>>,
         Busily' => Busily, Accepted' = Accepted
  PROVE  InOrder'
<1>1. Foremost'
  BY DEF InOrder, Foremost
<1>2. Untried'
  BY DEF InOrder, Untried, Heard, OnWay
<1>3. Settled'
  BY DEF InOrder, Settled, Heard
<1>4. Fated'
  <2>1. ASSUME NEW m \in Msgs PROVE Fate(m)' <= Fate(m)
    <3>1. Heard(m)' = Heard(m) /\ OnWay(m)' = OnWay(m)
      BY DEF Heard, OnWay
    <3>2. Pending(m)' => Pending(m)
      BY DEF Pending
    <3>3. Heard(m) \in Nat /\ OnWay(m) \in Nat
      BY Counted DEF Numbers
    <3> QED
      BY <3>1, <3>2, <3>3, FateLess
  <2>2. Fated /\ deaths' + starts' = deaths + starts
    BY DEF InOrder
  <2> QED
    BY <2>1, <2>2, FatedLower
<1> QED
  BY <1>1, <1>2, <1>3, <1>4 DEF InOrder

-----------------------------------------------------------------------------
(* The steps, while the user lets the folder alone.                        *)

LEMMA NothingAccepted == ASSUME TInv, ~Busily PROVE ~Accepted
BY DEF Busily, AtWork, Accepted

LEMMA UntriedNext ==
  ASSUME ASSUME NEW i \in 1..Len(box'), NEW j \in 1..Len(box'), i < j,
                ~box'[i].deleted, ~box'[j].deleted, NEW x, x = box'[j].msg
         PROVE  Heard(x)' = 0 /\ OnWay(x)' = 0
  PROVE  Untried'
BY DEF Untried, Heard, OnWay

\* The order of the folder says as much of what is left of it.
LEMMA CleanedOrder ==
  ASSUME TInv, InOrder, Cleaned(box', box),
         UNCHANGED <<queued, delivered, returned, orphans>>
  PROVE  Untried' /\ Settled'
<1>1. Untried'
  <2> SUFFICES ASSUME NEW i \in 1..Len(box'), NEW j \in 1..Len(box'), i < j,
                      ~box'[i].deleted, ~box'[j].deleted, NEW x, x = box'[j].msg
               PROVE  Heard(x)' = 0 /\ OnWay(x)' = 0
    BY UntriedNext
  <2>1. PICK k \in 1..Len(box) :
          \E l \in 1..Len(box) : k < l /\ box'[i] = box[k] /\ box'[j] = box[l]
    BY DEF Cleaned
  <2>2. PICK l \in 1..Len(box) : k < l /\ box'[i] = box[k] /\ box'[j] = box[l]
    BY <2>1
  <2>3. Heard(box[l].msg) = 0 /\ OnWay(box[l].msg) = 0
    BY <2>2 DEF InOrder, Untried
  <2> QED
    BY <2>2, <2>3 DEF Heard, OnWay
<1>2. Settled'
  BY DEF InOrder, Settled, Cleaned, Heard
<1> QED
  BY <1>1, <1>2

\* The messages that wait stay the same, and so does what becomes of them.
LEMMA SameFates ==
  ASSUME TInv, TInv', Fated, Waits(box') = Waits(box), pc # "down",
         UNCHANGED <<delivered, returned, orphans, deaths, starts>>,
         ~Accepted \/ (Accepted' /\ name' = name)
  PROVE  Fated'
<1>1. ASSUME NEW m \in Msgs PROVE Fate(m)' <= Fate(m)
  <2>1. Heard(m)' = Heard(m) /\ OnWay(m)' = OnWay(m)
    BY DEF Heard, OnWay
  <2>2. Pending(m)' => Pending(m)
    BY DEF Pending
  <2>3. Heard(m) \in Nat /\ OnWay(m) \in Nat
    BY Counted DEF Numbers
  <2> QED
    BY <2>1, <2>2, <2>3, FateLess
<1> QED
  BY <1>1, FatedLower

LEMMA SyncedBoxNow == ASSUME TInv PROVE Cleaned(Synced(box), box)
<1>1. box \in Seq(Job) /\ Apart(box)
  BY DEF TInv, TypeOK, Known, Job
<1> QED
  BY <1>1, SyncedBox

LEMMA UserExpungeS == ASSUME TInv, TInv', InOrder, UserExpunge PROVE InOrder'
<1>1. Cleaned(box', box)
  BY SyncedBoxNow DEF UserExpunge
<1>2. UNCHANGED <<queued, pc, sender, toSender, fromSender, name, delivered, returned,
                  orphans, deaths, starts>>
  BY DEF UserExpunge, main, pipes, process, outcome, others
<1>3. Accepted' = Accepted /\ Busily' = Busily
  BY <1>2 DEF Accepted, Busily, AtWork
<1>4. Foremost'
  BY <1>1, <1>2, <1>3 DEF InOrder, Foremost, Cleaned
<1>5. Untried' /\ Settled'
  BY <1>1, <1>2, CleanedOrder
<1>6. Fated'
  <2>1. pc # "down" /\ Waits(box') = Waits(box)
    BY <1>1 DEF UserExpunge, Cleaned
  <2> QED
    BY <1>2, <1>3, <2>1, SameFates DEF InOrder
<1> QED
  BY <1>4, <1>5, <1>6 DEF InOrder

\* A free main process has nothing under way.
LEMMA SendS == ASSUME TInv, TInv', InOrder, ~NewestFirst, Send PROVE InOrder'
<1>1. /\ UNCHANGED <<queued, sender, toSender, fromSender, delivered, returned, orphans,
                     deaths, starts>>
      /\ pc = "send"
  BY DEF Send, pipes, process, outcome, others
<1>2. Accepted' = Accepted
  BY <1>1 DEF Accepted
<1>3. CASE Busy /\ pc' = "loop" /\ UNCHANGED <<box, main>>
  <2>1. Busily' => Busily
    BY <1>1, <1>3 DEF Busily, AtWork
  <2> QED
    BY <1>1, <1>2, <1>3, <2>1, Calm DEF main
<1>4. CASE ~Busy /\ box' = Synced(box)
  <2>1. Cleaned(box', box)
    BY <1>4, SyncedBoxNow
  <2>2. ~Busily /\ ~Accepted
    <3>1. ~Busily
      BY <1>1, <1>4 DEF Busy, TInv, IInv, Flow, Busily
    <3> QED
      BY <3>1, NothingAccepted
  <2>3. Untried' /\ Settled'
    BY <1>1, <2>1, CleanedOrder
  <2>4. Fated'
    <3>1. Waits(box') = Waits(box) /\ pc # "down" /\ Fated
      BY <1>1, <2>1 DEF Cleaned, InOrder
    <3> QED
      BY <1>1, <2>2, <3>1, SameFates
  <2>5. Foremost'
    <3>1. CASE pc' = "loop"
      BY <1>1, <1>2, <2>2, <3>1 DEF Foremost, Busily, AtWork
    <3>2. CASE box' # <<>> /\ name' = box'[First(box')].msg
      <4>1. First(box') = 1 /\ 1 \in 1..Len(box')
        BY <2>1, <3>2 DEF First, Cleaned
      <4>2. ~box'[1].deleted
        BY <2>1, <4>1 DEF Cleaned
      <4> QED
        BY <1>2, <2>2, <3>2, <4>1, <4>2 DEF Foremost
    <3> QED
      BY <1>4, <3>1, <3>2 DEF Send
  <2> QED
    BY <2>3, <2>4, <2>5 DEF InOrder
<1> QED
  BY <1>3, <1>4 DEF Send

LEMMA QueueS == ASSUME TInv, TInv', InOrder, NEW m \in Msgs, Queue(m) PROVE InOrder'
<1> DEFINE b == Append(box, [msg |-> m, deleted |-> FALSE])
<1>1. /\ box \in Seq(Job) /\ Apart(box) /\ m \notin queued
      /\ \A i \in 1..Len(box) : box[i].msg # m
  BY DEF TInv, TypeOK, Known, Job, Queue
<1>2. Joins(b, box, m)
  BY <1>1, AppendBox
<1>3. Joins(Synced(b), box, m)
  BY <1>2, SyncedJoins
<1>4. Joins(box', box, m)
  BY <1>2, <1>3 DEF Queue
<1> HIDE DEF b
<1>5. /\ UNCHANGED <<sender, toSender, fromSender, name, delivered, returned,
                     orphans, deaths, starts>>
      /\ queued' = queued \cup {m} /\ pc = "loop" /\ pc' \in {"loop", "nudge"}
  BY DEF Queue, main, pipes, process, outcome, others
<1>6. Accepted' = Accepted /\ (Busily' => Busily)
  BY <1>5 DEF Accepted, Busily, AtWork
<1>7. Foremost'
  BY <1>4, <1>5, <1>6 DEF InOrder, Foremost, Joins
<1>8. Heard(m) = 0 /\ OnWay(m) = 0
  <2>1. delivered[m] = 0 /\ m \notin returned
    BY <1>1, Counted DEF TInv, Known, Numbers
  <2>2. {i \in 1..Len(orphans) : orphans[i] = m} = {}
    BY <1>1 DEF TInv, Known
  <2>3. Heard(m) = 0
    BY <2>1 DEF Heard
  <2>4. OnWay(m) = 0
    BY <2>2, FS_EmptySet DEF OnWay, Count
  <2> QED
    BY <2>3, <2>4
<1>9. Untried'
  <2> SUFFICES ASSUME NEW i \in 1..Len(box'), NEW j \in 1..Len(box'), i < j,
                      ~box'[i].deleted, ~box'[j].deleted, NEW x, x = box'[j].msg
               PROVE  Heard(x)' = 0 /\ OnWay(x)' = 0
    BY UntriedNext
  <2>1. PICK k \in 1..Len(box) :
          /\ box'[i] = box[k]
          /\ \/ box'[j] = [msg |-> m, deleted |-> FALSE]
             \/ \E l \in 1..Len(box) : k < l /\ box'[j] = box[l]
    BY <1>4 DEF Joins
  <2>2. CASE box'[j] = [msg |-> m, deleted |-> FALSE]
    <3>1. box'[j].msg = m
      BY <2>2
    <3> QED
      BY <1>5, <1>8, <3>1 DEF Heard, OnWay
  <2>3. ASSUME NEW l \in 1..Len(box), k < l, box'[j] = box[l]
        PROVE  Heard(x)' = 0 /\ OnWay(x)' = 0
    <3>1. Heard(box[l].msg) = 0 /\ OnWay(box[l].msg) = 0
      BY <2>1, <2>3 DEF InOrder, Untried
    <3> QED
      BY <1>5, <2>3, <3>1 DEF Heard, OnWay
  <2> QED
    BY <2>1, <2>2, <2>3
<1>10. Settled'
  <2>1. Waits(box') = Waits(box) \cup {m}
    BY <1>4 DEF Joins
  <2>2. m \notin returned
    BY <1>1 DEF TInv, Known
  <2> QED
    BY <1>5, <2>1, <2>2 DEF InOrder, Settled, Heard
<1>11. Fated'
  <2>1. ASSUME NEW x \in Msgs PROVE Fate(x)' <= Fate(x) \/ Fate(x)' <= 1
    <3>1. Heard(x)' = Heard(x) /\ OnWay(x)' = OnWay(x)
      BY <1>5 DEF Heard, OnWay
    <3>2. Heard(x) \in Nat /\ OnWay(x) \in Nat
      BY Counted DEF Numbers
    <3>3. CASE x = m
      BY <1>8, <3>1, <3>3 DEF Fate
    <3>4. CASE x # m
      <4>1. x \in Waits(box') => x \in Waits(box)
        BY <1>4, <3>4 DEF Joins
      <4>2. Pending(x)' => Pending(x)
        BY <1>5, <1>6, <4>1 DEF Pending
      <4> QED
        BY <3>1, <3>2, <4>2, FateLess
    <3> QED
      BY <3>3, <3>4
  <2>2. Fated /\ deaths' + starts' = deaths + starts
    BY <1>5 DEF InOrder
  <2> QED
    BY <2>1, <2>2, FatedLower
<1> QED
  BY <1>7, <1>9, <1>10, <1>11 DEF InOrder

\* The steps that leave what waits and what was said alone.
LEMMA CalmS ==
  ASSUME TInv, TInv', InOrder,
         \/ SetOnlineMode \/ NetworkSync \/ Block \/ Nudge
         \/ SenderDied \/ Write \/ ReadJob \/ Report
  PROVE  InOrder'
<1>1. UNCHANGED <<box, queued, delivered, returned, orphans, deaths, starts, name>>
  BY DEF SetOnlineMode, NetworkSync, Block, Nudge, SenderDied, Write, ReadJob, Report,
         folder, main, process, outcome, others
<1>2. pc # "down" /\ (Busily' => Busily) /\ Accepted' = Accepted
  <2>1. CASE SetOnlineMode \/ NetworkSync \/ Block \/ SenderDied
    BY <2>1 DEF SetOnlineMode, NetworkSync, Block, SenderDied, Reading, Busily, AtWork,
                Accepted, pipes, process
  <2>2. CASE Nudge
    <3>1. CASE UNCHANGED <<pipes, process>>
      BY <2>2, <3>1 DEF Nudge, Busily, AtWork, Accepted, pipes, process
    <3>2. CASE ~created /\ toSender' = <<>> /\ fromSender' = <<>> /\ sender' = "idle"
      <4>1. ~AtWork /\ fromSender = <<>>
        BY <3>2 DEF TInv, Manned, AtWork, Alive
      <4> QED
        BY <2>2, <3>2, <4>1 DEF Nudge, Busily, AtWork, Accepted
    <3> QED
      BY <2>2, <3>1, <3>2 DEF Nudge
  <2>3. CASE Write
    BY <2>3 DEF Write, Busily, AtWork, Accepted, process
  <2>4. CASE ReadJob
    <3>1. toSender # <<>> /\ fromSender = <<>> /\ fromSender' = <<>>
          /\ sender = "idle" /\ sender' = "working"
      BY <2>4 DEF ReadJob, TInv, IInv, Flow
    <3> QED
      BY <2>4, <3>1 DEF ReadJob, Busily, Accepted, TInv, Manned
  <2>5. CASE Report
    <3>1. AtWork /\ fromSender = <<>> /\ sender' = "idle" /\ pc # "down"
      BY <2>5 DEF Report, TInv, IInv, Flow, AtWork, Manned, Busily
    <3>2. fromSender' = IF sender = "accepted" THEN <<"ok">> ELSE <<"fail">>
      BY <2>5, <3>1 DEF Report
    <3>3. <<"ok">> # <<"fail">> /\ <<>> # <<"ok">>
      OBVIOUS
    <3> QED
      BY <3>1, <3>2, <3>3 DEF Accepted, Busily
  <2> QED
    BY <2>1, <2>2, <2>3, <2>4, <2>5
<1> QED
  BY <1>1, <1>2, Calm

LEMMA InMsgs == ASSUME TInv PROVE \A i \in 1..Len(box) : box[i].msg \in Msgs
<1>1. box \in Seq(Job)
  BY DEF TInv, TypeOK, Job
<1>2. \A i \in 1..Len(box) : box[i] \in Job
  BY <1>1
<1> QED
  BY <1>2 DEF Job

\* What is under way is not behind another message.
LEMMA NotBehind ==
  ASSUME TInv, InOrder, Busily, NEW i \in 1..Len(box), NEW j \in 1..Len(box), i < j
  PROVE  box[j].msg # name
<1>1. box[1].msg = name /\ Apart(box) /\ 1 \in 1..Len(box) /\ j # 1
  BY DEF InOrder, Foremost, TInv, TypeOK, Known
<1> QED
  BY <1>1 DEF Apart

\* The message that is under way is among those that wait.
LEMMA NameWaits ==
  ASSUME TInv, InOrder, Busily
  PROVE  name \in Waits(box) /\ name \in Msgs /\ name \in queued /\ pc # "down"
<1>1. box[1].msg = name /\ ~box[1].deleted /\ 1 \in 1..Len(box)
  BY DEF InOrder, Foremost, TInv, TypeOK
<1>2. name \in Waits(box)
  BY <1>1 DEF Waits
<1> QED
  BY <1>2 DEF TInv, TypeOK, Jobs, Known, Manned

\* The end of the main process: its job goes on in a sender of its own.
LEMMA ExitOrphans ==
  ASSUME TInv, Exit
  PROVE  \/ orphans' = orphans
         \/ /\ toSender # <<>> \/ sender = "working"
            /\ orphans' = Append(orphans, name)
<1>1. /\ orphans \in Seq(Msgs)
      /\ toSender = <<>> \/ toSender = <<name>>
      /\ sender = "working" => job = name /\ toSender = <<>>
      /\ orphans' = (orphans \o toSender) \o (IF sender = "working" THEN <<job>> ELSE <<>>)
  BY DEF TInv, TypeOK, IInv, Flow, AtWork, Exit
<1>2. orphans \o <<>> = orphans /\ orphans \o <<name>> = Append(orphans, name)
  BY <1>1
<1>3. CASE sender = "working"
  BY <1>1, <1>2, <1>3
<1>4. CASE sender # "working" /\ toSender = <<>>
  BY <1>1, <1>2, <1>4
<1>5. CASE sender # "working" /\ toSender = <<name>>
  <2>1. name \in Msgs
    BY <1>5 DEF TInv, Manned, Busily, TypeOK, Jobs
  <2>2. Append(orphans, name) \in Seq(Msgs)
    BY <1>1, <2>1
  <2>3. Append(orphans, name) \o <<>> = Append(orphans, name)
    BY <2>2
  <2> QED
    BY <1>1, <1>2, <1>5, <2>3
<1> QED
  BY <1>1, <1>3, <1>4, <1>5

LEMMA ExitS ==
  ASSUME TInv, TInv', InOrder, Exit, UNCHANGED <<folder, returned>>
  PROVE  InOrder'
<1>1. /\ UNCHANGED <<box, queued, delivered, returned, deaths, starts>>
      /\ pc' = "down" /\ sender' = "none" /\ toSender' = <<>> /\ fromSender' = <<>>
  BY DEF Exit, folder
<1>2. ~Busily' /\ ~Accepted'
  BY <1>1 DEF Busily, AtWork, Accepted
<1>3. Foremost'
  BY <1>2 DEF Foremost
<1>4. Settled'
  BY <1>1 DEF InOrder, Settled, Heard
<1>5. \/ orphans' = orphans
      \/ Busily /\ ~Accepted /\ orphans' = Append(orphans, name)
  <2>1. toSender # <<>> \/ sender = "working" => Busily /\ ~Accepted
    BY DEF Busily, AtWork, Accepted, TInv, IInv, Flow
  <2> QED
    BY <2>1, ExitOrphans
<1>6. ASSUME NEW m \in Msgs
      PROVE  OnWay(m)' = OnWay(m) \/ (m = name /\ OnWay(m)' = OnWay(m) + 1 /\ Pending(m))
  <2>1. CASE orphans' = orphans
    BY <2>1 DEF OnWay
  <2>2. CASE Busily /\ ~Accepted /\ orphans' = Append(orphans, name)
    <3>1. orphans \in Seq(Msgs) /\ name \in Msgs /\ name \in Waits(box) /\ pc # "down"
      BY <2>2, NameWaits DEF TInv, TypeOK
    <3>2. Count(Append(orphans, name), m) = Count(orphans, m) + (IF name = m THEN 1 ELSE 0)
      BY <3>1, CountAppend
    <3>3. OnWay(m) \in Nat /\ OnWay(m)' = OnWay(m) + (IF name = m THEN 1 ELSE 0)
      BY <2>2, <3>2, Counted DEF OnWay, Numbers
    <3>4. name = m => Pending(m)
      BY <2>2, <3>1 DEF Pending
    <3> QED
      BY <3>3, <3>4
  <2> QED
    BY <1>5, <2>1, <2>2
<1>7. Untried'
  <2> SUFFICES ASSUME NEW i \in 1..Len(box'), NEW j \in 1..Len(box'), i < j,
                      ~box'[i].deleted, ~box'[j].deleted, NEW x, x = box'[j].msg
               PROVE  Heard(x)' = 0 /\ OnWay(x)' = 0
    BY UntriedNext
  <2>1. i \in 1..Len(box) /\ j \in 1..Len(box) /\ x = box[j].msg
    BY <1>1
  <2>2. Heard(box[j].msg) = 0 /\ OnWay(box[j].msg) = 0
    BY <1>1, <2>1 DEF InOrder, Untried
  <2>3. x \in Msgs
    BY <2>1, InMsgs
  <2>4. x = name => ~Busily
    BY <2>1, NotBehind
  <2>5. OnWay(x)' = 0
    <3>1. CASE orphans' = orphans
      BY <2>1, <2>2, <3>1 DEF OnWay
    <3>2. CASE Busily
      BY <1>6, <2>1, <2>2, <2>3, <2>4, <3>2
    <3> QED
      BY <1>5, <3>1, <3>2
  <2> QED
    BY <1>1, <2>1, <2>2, <2>5 DEF Heard
<1>8. Fated'
  <2>1. ASSUME NEW m \in Msgs PROVE Fate(m)' <= Fate(m)
    <3>1. Heard(m)' = Heard(m) /\ ~Pending(m)'
      BY <1>1 DEF Heard, Pending
    <3>2. Heard(m) \in Nat /\ OnWay(m) \in Nat /\ OnWay(m)' \in Nat
      BY Counted, CountedNext DEF Numbers
    <3>3. CASE OnWay(m)' = OnWay(m)
      BY <3>1, <3>2, <3>3, FateLess
    <3>4. CASE OnWay(m)' = OnWay(m) + 1 /\ Pending(m)
      BY <3>1, <3>2, <3>4 DEF Fate
    <3> QED
      BY <1>6, <3>3, <3>4
  <2>2. Fated /\ deaths' + starts' = deaths + starts
    BY <1>1 DEF InOrder
  <2> QED
    BY <2>1, <2>2, FatedLower
<1> QED
  BY <1>3, <1>4, <1>7, <1>8 DEF InOrder

\* The program is started again: only the first message may have been sent before.
LEMMA StartS == ASSUME TInv, TInv', InOrder, Start PROVE InOrder'
<1>1. /\ UNCHANGED <<box, queued, delivered, returned, orphans, deaths, name,
                     sender, toSender, fromSender>>
      /\ starts' = starts + 1 /\ pc = "down" /\ pc' \in {"loop", "nudge"}
  BY DEF Start, folder, main, pipes, process, outcome
<1>2. ~Busily' /\ ~Accepted'
  <2>1. ~Busily
    BY <1>1 DEF TInv, Manned
  <2> QED
    BY <1>1, <2>1 DEF Busily, AtWork, Accepted
<1>3. Foremost'
  BY <1>2 DEF Foremost
<1>4. Untried'
  BY <1>1 DEF InOrder, Untried, Heard, OnWay
<1>5. Settled'
  BY <1>1 DEF InOrder, Settled, Heard
<1> DEFINE Tried(m) == m \in Waits(box) /\ Heard(m) + OnWay(m) > 0
<1>6. ASSUME NEW m \in Msgs
      PROVE  /\ Fate(m)' <= Fate(m) + 1
             /\ ~Tried(m) => Fate(m)' <= Fate(m) \/ Fate(m)' <= 1
  <2>1. Heard(m)' = Heard(m) /\ OnWay(m)' = OnWay(m) /\ ~Pending(m)
    BY <1>1 DEF Heard, OnWay, Pending
  <2>2. Heard(m) \in Nat /\ OnWay(m) \in Nat
    BY Counted DEF Numbers
  <2>3. Pending(m)' => m \in Waits(box)
    BY <1>1 DEF Pending
  <2> QED
    BY <2>1, <2>2, <2>3 DEF Fate
<1>7. \A x, y \in Msgs : Tried(x) /\ Tried(y) => x = y
  <2> SUFFICES ASSUME NEW x \in Msgs, NEW y \in Msgs, Tried(x), Tried(y), x # y
               PROVE  FALSE
    OBVIOUS
  <2>1. PICK i \in 1..Len(box) : ~box[i].deleted /\ x = box[i].msg
    BY DEF Waits
  <2>2. PICK j \in 1..Len(box) : ~box[j].deleted /\ y = box[j].msg
    BY DEF Waits
  <2>3. i < j \/ j < i
    <3>1. i \in Int /\ j \in Int /\ i # j
      BY <2>1, <2>2
    <3> QED
      BY <3>1
  <2>4. CASE i < j
    <3>1. Heard(y) = 0 /\ OnWay(y) = 0
      BY <2>1, <2>2, <2>4 DEF InOrder, Untried
    <3> QED
      BY <3>1
  <2>5. CASE j < i
    <3>1. Heard(x) = 0 /\ OnWay(x) = 0
      BY <2>1, <2>2, <2>5 DEF InOrder, Untried
    <3> QED
      BY <3>1
  <2> QED
    BY <2>3, <2>4, <2>5
<1> HIDE DEF Tried
<1>8. Fated'
  <2>1. Fated /\ deaths \in Nat /\ starts \in Nat
    BY Counted DEF InOrder, Numbers
  <2>2. deaths' + starts' = (deaths + starts) + 1
    BY <1>1, <2>1
  <2>3. CASE \E x \in Msgs : Tried(x)
    <3>1. PICK x \in Msgs : Tried(x)
      BY <2>3
    <3>2. \A m \in Msgs : m # x => Fate(m)' <= Fate(m) \/ Fate(m)' <= 1
      BY <1>6, <1>7, <3>1
    <3> QED
      BY <1>6, <2>1, <2>2, <3>2, FatedMore
  <2>4. CASE ~\E x \in Msgs : Tried(x)
    <3>1. \A m \in Msgs : Fate(m)' <= Fate(m) \/ Fate(m)' <= 1
      BY <1>6, <2>4
    <3> QED
      BY <2>1, <2>2, <3>1, FatedMoreRoom
  <2> QED
    BY <2>3, <2>4
<1> QED
  BY <1>3, <1>4, <1>5, <1>8 DEF InOrder

\* A sender that dies may take the news of an accepted message with it.
LEMMA DieS == ASSUME TInv, TInv', InOrder, Die PROVE InOrder'
<1>1. /\ UNCHANGED <<box, queued, delivered, returned, orphans, starts, name, pc,
                     fromSender>>
      /\ deaths' = deaths + 1 /\ sender' = "dead" /\ toSender' = <<>>
  BY DEF Die, folder, main, outcome, others
<1>2. (Busily' => Busily) /\ (Accepted' => Accepted)
  BY <1>1 DEF Busily, AtWork, Accepted
<1>3. Foremost'
  BY <1>1, <1>2 DEF InOrder, Foremost
<1>4. Untried'
  BY <1>1 DEF InOrder, Untried, Heard, OnWay
<1>5. Settled'
  BY <1>1 DEF InOrder, Settled, Heard
<1>6. ASSUME NEW m \in Msgs
      PROVE  Fate(m)' <= Fate(m) + 1 /\ (m # name \/ ~Accepted => Fate(m)' <= Fate(m))
  <2>1. Heard(m)' = Heard(m) /\ OnWay(m)' = OnWay(m)
    BY <1>1 DEF Heard, OnWay
  <2>2. Heard(m) \in Nat /\ OnWay(m) \in Nat
    BY Counted DEF Numbers
  <2>3. m # name \/ ~Accepted => (Pending(m)' => Pending(m))
    BY <1>1, <1>2 DEF Pending
  <2> QED
    BY <2>1, <2>2, <2>3 DEF Fate
<1>7. Fated'
  <2>1. Fated /\ deaths \in Nat /\ starts \in Nat
    BY Counted DEF InOrder, Numbers
  <2>2. deaths' + starts' = (deaths + starts) + 1
    BY <1>1, <2>1
  <2>3. CASE Accepted
    <3>1. name \in Msgs
      BY <2>3, NothingAccepted, NameWaits
    <3> QED
      BY <1>6, <2>1, <2>2, <3>1, FatedMore
  <2>4. CASE ~Accepted
    <3>1. \A m \in Msgs : Fate(m)' <= Fate(m)
      BY <1>6, <2>4
    <3> QED
      BY <2>1, <2>2, <3>1, FatedMoreRoom
  <2> QED
    BY <2>3, <2>4
<1> QED
  BY <1>3, <1>4, <1>5, <1>7 DEF InOrder

\* The verdict of a server that the main process has not heard of yet.
LEMMA DeliverS == ASSUME TInv, TInv', InOrder, Deliver PROVE InOrder'
<1>1. /\ UNCHANGED <<box, queued, pc, name, toSender, fromSender, deaths, starts,
                     returned, orphans>>
      /\ sender = "working" /\ sender' \in {"accepted", "refused"}
  BY DEF Deliver, folder, main, pipes, others
<1>2. /\ Busily /\ job = name /\ ~Accepted
      /\ name \in Waits(box) /\ name \in Msgs /\ pc # "down"
  <2>1. Busily /\ job = name /\ ~Accepted
    BY <1>1 DEF Busily, AtWork, Accepted, TInv, IInv, Flow
  <2> QED
    BY <2>1, NameWaits
<1>3. CASE sender' = "refused" /\ UNCHANGED delivered
  <2>1. Accepted' = Accepted /\ (Busily' => Busily)
    BY <1>1, <1>2, <1>3 DEF Accepted
  <2> QED
    BY <1>1, <1>2, <1>3, <2>1, Calm
<1>4. CASE sender' = "accepted" /\ delivered' = [delivered EXCEPT ![job] = @ + 1]
  <2>1. /\ delivered \in [Msgs -> Nat] /\ delivered'[name] = delivered[name] + 1
        /\ \A m \in Msgs : m # name => delivered'[m] = delivered[m]
    BY <1>2, <1>4 DEF TInv, TypeOK
  <2>2. /\ \A m \in Msgs : m = name => Heard(m)' = Heard(m) + 1
        /\ \A m \in Msgs : m # name => Heard(m)' = Heard(m)
        /\ \A m \in Msgs : OnWay(m)' = OnWay(m)
    BY <1>1, <1>2, <2>1 DEF Heard, OnWay
  <2>3. Foremost'
    BY <1>1, <1>2, <2>1 DEF InOrder, Foremost
  <2>4. Untried'
    <3> SUFFICES ASSUME NEW i \in 1..Len(box'), NEW j \in 1..Len(box'), i < j,
                        ~box'[i].deleted, ~box'[j].deleted, NEW x, x = box'[j].msg
                 PROVE  Heard(x)' = 0 /\ OnWay(x)' = 0
      BY UntriedNext
    <3>1. i \in 1..Len(box) /\ j \in 1..Len(box) /\ x = box[j].msg
      BY <1>1
    <3>2. Heard(x) = 0 /\ OnWay(x) = 0
      BY <1>1, <3>1 DEF InOrder, Untried
    <3>3. x \in Msgs /\ x # name
      BY <1>2, <3>1, InMsgs, NotBehind
    <3> QED
      BY <2>2, <3>2, <3>3
  <2>5. Settled'
    <3>1. ASSUME NEW m \in queued, m \notin Waits(box) PROVE Heard(m)' > 0
      <4>1. m \in Msgs /\ m # name /\ Heard(m) > 0
        BY <1>2, <3>1 DEF InOrder, Settled, TInv, TypeOK
      <4> QED
        BY <2>2, <4>1
    <3> QED
      BY <1>1, <3>1 DEF InOrder, Settled
  <2>6. Fated'
    <3>1. ASSUME NEW m \in Msgs PROVE Fate(m)' <= Fate(m)
      <4>1. Heard(m) \in Nat /\ OnWay(m) \in Nat
        BY Counted DEF Numbers
      <4>2. CASE m = name
        <5>1. Pending(m) /\ ~Pending(m)'
          BY <1>1, <1>2, <1>4, <4>2 DEF Pending, Accepted
        <5> QED
          BY <2>2, <4>1, <4>2, <5>1 DEF Fate
      <4>3. CASE m # name
        <5>1. Pending(m)' => Pending(m)
          BY <1>1, <4>3 DEF Pending
        <5> QED
          BY <2>2, <4>1, <4>3, <5>1, FateLess
      <4> QED
        BY <4>2, <4>3
    <3>2. Fated /\ deaths' + starts' = deaths + starts
      BY <1>1 DEF InOrder
    <3> QED
      BY <3>1, <3>2, FatedLower
  <2> QED
    BY <2>3, <2>4, <2>5, <2>6 DEF InOrder
<1> QED
  BY <1>3, <1>4 DEF Deliver

\* A verdict for a job of an earlier run.
LEMMA OrphanFacts ==
  ASSUME TInv, Orphan
  PROVE  \E o \in Msgs :
           /\ o \in queued /\ OnWay(o) > 0 /\ OnWay(o)' <= OnWay(o) - 1
           /\ \A m \in Msgs : OnWay(m)' <= OnWay(m)
           /\ delivered' = [delivered EXCEPT ![o] = @ + 1] \/ delivered' = delivered
<1>1. orphans \in Seq(Msgs) /\ DOMAIN orphans = 1..Len(orphans)
  BY DEF TInv, TypeOK
<1>2. PICK i \in 1..Len(orphans) :
        /\ orphans' = RemoveAt(orphans, i)
        /\ delivered' = [delivered EXCEPT ![orphans[i]] = @ + 1] \/ delivered' = delivered
  BY <1>1 DEF Orphan
<1>0. PICK o : o = orphans[i]
  OBVIOUS
<1>3. o \in Msgs /\ o \in queued
  BY <1>1, <1>0 DEF TInv, Known
<1>4. ASSUME NEW m \in Msgs
      PROVE  OnWay(m)' <= OnWay(m) - (IF o = m THEN 1 ELSE 0) /\ OnWay(m) \in Nat
  BY <1>1, <1>2, <1>0, CountRemoved, Counted DEF OnWay, Numbers
<1>5. OnWay(o) > 0
  <2>1. OnWay(o) \in Nat /\ (OnWay(o) = 0 => o # o)
    BY <1>1, <1>0, CountNat DEF OnWay
  <2> QED
    BY <2>1
<1>6. \A m \in Msgs : OnWay(m)' <= OnWay(m)
  <2> SUFFICES ASSUME NEW m \in Msgs PROVE OnWay(m)' <= OnWay(m)
    OBVIOUS
  <2>1. OnWay(m)' \in Int
    <3>1. orphans' \in Seq(Msgs)
      BY <1>1, <1>2, Removed
    <3> QED
      BY <3>1, CountNat DEF OnWay
  <2> QED
    BY <1>4, <2>1
<1>7. OnWay(o)' <= OnWay(o) - 1
  BY <1>3, <1>4
<1>8. delivered' = [delivered EXCEPT ![o] = @ + 1] \/ delivered' = delivered
  BY <1>2, <1>0
<1> QED
  BY <1>3, <1>5, <1>6, <1>7, <1>8

LEMMA OrphanS == ASSUME TInv, TInv', InOrder, Orphan PROVE InOrder'
<1>1. UNCHANGED <<box, queued, pc, name, toSender, fromSender, sender, deaths, starts,
                  returned>>
  BY DEF Orphan, folder, main, pipes, process
<1>2. PICK o \in Msgs :
        /\ o \in queued /\ OnWay(o) > 0 /\ OnWay(o)' <= OnWay(o) - 1
        /\ \A m \in Msgs : OnWay(m)' <= OnWay(m)
        /\ delivered' = [delivered EXCEPT ![o] = @ + 1] \/ delivered' = delivered
  BY OrphanFacts
<1>3. Accepted' = Accepted /\ Busily' = Busily
  BY <1>1 DEF Accepted, Busily, AtWork
<1>4. ASSUME NEW m \in Msgs
      PROVE  /\ Heard(m) \in Nat /\ OnWay(m) \in Nat /\ OnWay(m)' \in Nat
             /\ delivered[m] \in Nat /\ delivered'[m] \in Nat /\ Heard(m)' \in Nat
  BY Counted, CountedNext DEF Numbers
<1>5. ASSUME NEW m \in Msgs
      PROVE  /\ delivered'[m] = delivered[m] \/ (m = o /\ delivered'[m] = delivered[m] + 1)
             /\ Heard(m)' = Heard(m) \/ (m = o /\ Heard(m)' = Heard(m) + 1)
  <2>1. delivered \in [Msgs -> Nat]
    BY DEF TInv, TypeOK
  <2>2. delivered'[m] = delivered[m] \/ (m = o /\ delivered'[m] = delivered[m] + 1)
    BY <1>2, <2>1
  <2> QED
    BY <1>1, <1>4, <2>2 DEF Heard
<1>6. Foremost'
  <2>1. Accepted => Busily
    BY NothingAccepted
  <2>2. Accepted => name \in Msgs /\ delivered[name] > 0
    BY <2>1, NameWaits DEF InOrder, Foremost
  <2>3. Accepted => delivered'[name] > 0
    BY <1>4, <1>5, <2>2
  <2> QED
    BY <1>1, <1>3, <2>3 DEF InOrder, Foremost
<1>7. Untried'
  <2> SUFFICES ASSUME NEW i \in 1..Len(box'), NEW j \in 1..Len(box'), i < j,
                      ~box'[i].deleted, ~box'[j].deleted, NEW x, x = box'[j].msg
               PROVE  Heard(x)' = 0 /\ OnWay(x)' = 0
    BY UntriedNext
  <2>1. i \in 1..Len(box) /\ j \in 1..Len(box) /\ x = box[j].msg
    BY <1>1
  <2>2. Heard(x) = 0 /\ OnWay(x) = 0
    BY <1>1, <2>1 DEF InOrder, Untried
  <2>3. x \in Msgs
    BY <2>1, InMsgs
  <2>4. x # o
    BY <1>2, <2>2
  <2> QED
    BY <1>2, <1>4, <1>5, <2>2, <2>3, <2>4
<1>8. Settled'
  <2>1. ASSUME NEW m \in queued, m \notin Waits(box) PROVE Heard(m)' > 0
    <3>1. m \in Msgs /\ Heard(m) > 0
      BY <2>1 DEF InOrder, Settled, TInv, TypeOK
    <3> QED
      BY <1>4, <1>5, <3>1
  <2> QED
    BY <1>1, <2>1 DEF InOrder, Settled
<1>9. Fated'
  <2>1. ASSUME NEW m \in Msgs PROVE Fate(m)' <= Fate(m)
    <3>1. Pending(m)' => Pending(m)
      BY <1>1, <1>3 DEF Pending
    <3>2. Heard(m)' + OnWay(m)' <= Heard(m) + OnWay(m)
      BY <1>2, <1>4, <1>5
    <3> QED
      BY <3>1, <3>2, FateLess
  <2>2. Fated /\ deaths' + starts' = deaths + starts
    BY <1>1 DEF InOrder
  <2> QED
    BY <2>1, <2>2, FatedLower
<1> QED
  BY <1>6, <1>7, <1>8, <1>9 DEF InOrder

\* The answer is for the first message, which leaves the waiting room with it.
LEMMA AnswerFacts ==
  ASSUME TInv, InOrder, ~NewestFirst, Answer
  PROVE  /\ Busily /\ ~AtWork /\ toSender = <<>> /\ Marks(box', box, 1, TRUE)
         /\ fromSender' = <<>> /\ pc' = "send"
         /\ UNCHANGED <<queued, name, toSender, sender, delivered, orphans, deaths,
                        starts, edited>>
         /\ \/ Accepted /\ returned' = returned
            \/ ~Accepted /\ returned' = returned \cup {name}
<1>1. /\ Busily /\ ~AtWork /\ toSender = <<>>
      /\ fromSender = <<"ok">> \/ fromSender = <<"fail">>
  BY DEF Answer, TInv, IInv, Flow, Busily
<1>2. box # <<>> /\ box[1].msg = name /\ box \in Seq(Job) /\ Apart(box)
  BY <1>1 DEF InOrder, Foremost, TInv, TypeOK, Known, Job
<1>3. 1 \in 1..Len(box) /\ 1 \in DOMAIN box
  BY <1>2
<1>4. /\ box' = [box EXCEPT ![1].deleted = TRUE] /\ fromSender' = Tail(fromSender)
      /\ pc' = "send"
      /\ UNCHANGED <<queued, name, toSender, sender, delivered, orphans, deaths,
                     starts, edited>>
  BY <1>2 DEF Answer, FlagFirst, First, process, others
<1>5. Marks(box', box, 1, TRUE)
  <2>1. Marks([box EXCEPT ![1].deleted = TRUE], box, 1, TRUE)
    BY <1>2, <1>3, FlagBox
  <2> QED
    BY <1>4, <2>1
<1>6. Tail(<<"ok">>) = <<>> /\ Tail(<<"fail">>) = <<>> /\ Head(<<"ok">>) = "ok"
      /\ Head(<<"fail">>) = "fail" /\ <<"ok">> # <<"fail">>
  OBVIOUS
<1>7. fromSender' = <<>>
  BY <1>1, <1>4, <1>6
<1>8. \/ Accepted /\ returned' = returned
      \/ ~Accepted /\ returned' = returned \cup {name}
  <2>1. CASE fromSender = <<"ok">>
    BY <1>6, <2>1 DEF Answer, Accepted
  <2>2. CASE fromSender = <<"fail">>
    <3>1. name \in InBox
      BY <1>2, <1>3 DEF InBox
    <3> QED
      BY <1>1, <1>6, <2>2, <3>1 DEF Answer, Accepted, GiveBack, AtWork
  <2> QED
    BY <1>1, <2>1, <2>2
<1> QED
  BY <1>1, <1>4, <1>5, <1>7, <1>8

\* What is left to wait.
LEMMA MarkedWaits ==
  ASSUME NEW b \in Seq(Job), NEW c, Apart(b), b # <<>>, Marks(c, b, 1, TRUE)
  PROVE  Waits(c) = Waits(b) \ {b[1].msg}
<1>1. /\ Len(b) \in Nat /\ 1 \in 1..Len(b) /\ Len(c) = Len(b) /\ c[1].deleted
      /\ \A j \in 1..Len(b) : j # 1 => c[j] = b[j]
      /\ \A i, j \in 1..Len(b) : b[i].msg = b[j].msg => i = j
  BY DEF Marks, Apart
<1>2. ASSUME NEW x \in Waits(c) PROVE x \in Waits(b) /\ x # b[1].msg
  <2>1. PICK i \in 1..Len(b) : ~c[i].deleted /\ x = c[i].msg
    BY <1>1 DEF Waits
  <2>2. i # 1 /\ c[i] = b[i]
    BY <1>1, <2>1
  <2> QED
    BY <1>1, <2>1, <2>2 DEF Waits
<1>3. ASSUME NEW x \in Waits(b), x # b[1].msg PROVE x \in Waits(c)
  <2>1. PICK i \in 1..Len(b) : ~b[i].deleted /\ x = b[i].msg
    BY DEF Waits
  <2>2. i # 1 /\ c[i] = b[i]
    BY <1>1, <1>3, <2>1
  <2> QED
    BY <1>1, <2>1, <2>2 DEF Waits
<1> QED
  BY <1>2, <1>3

LEMMA AnswerWaits ==
  ASSUME TInv, InOrder, ~NewestFirst, Answer
  PROVE  Waits(box') = Waits(box) \ {name}
<1>1. Busily /\ Marks(box', box, 1, TRUE)
  BY AnswerFacts
<1>2. box # <<>> /\ box[1].msg = name /\ box \in Seq(Job) /\ Apart(box)
  BY <1>1 DEF InOrder, Foremost, TInv, TypeOK, Known, Job
<1> QED
  BY <1>1, <1>2, MarkedWaits

LEMMA AnswerS == ASSUME TInv, TInv', InOrder, ~NewestFirst, Answer PROVE InOrder'
<1>1. /\ Busily /\ ~AtWork /\ toSender = <<>> /\ Marks(box', box, 1, TRUE)
      /\ fromSender' = <<>> /\ pc' = "send"
      /\ UNCHANGED <<queued, name, toSender, sender, delivered, orphans, deaths, starts>>
      /\ \/ Accepted /\ returned' = returned
         \/ ~Accepted /\ returned' = returned \cup {name}
  BY AnswerFacts
<1>2. ~Busily' /\ ~Accepted'
  BY <1>1 DEF Busily, Accepted, AtWork
<1>3. name \in Waits(box) /\ name \in Msgs /\ pc # "down"
  BY <1>1, NameWaits
<1>4. Waits(box') = Waits(box) \ {name}
  BY AnswerWaits
<1>5. ASSUME NEW m \in Msgs
      PROVE  /\ OnWay(m)' = OnWay(m)
             /\ \/ Heard(m)' = Heard(m)
                \/ m = name /\ ~Accepted /\ Heard(m)' = Heard(m) + 1
             /\ Heard(m) \in Nat /\ OnWay(m) \in Nat /\ Heard(m)' \in Nat
  <2>1. OnWay(m)' = OnWay(m)
    BY <1>1 DEF OnWay
  <2>2. /\ Heard(m) \in Nat /\ OnWay(m) \in Nat /\ Heard(m)' \in Nat
        /\ delivered[m] \in Nat /\ delivered'[m] = delivered[m]
    BY <1>1, Counted, CountedNext DEF Numbers
  <2>3. CASE returned' = returned \/ m \in returned \/ m # name
    <3>1. m \in returned' <=> m \in returned
      BY <1>1, <2>3
    <3>2. Heard(m)' = Heard(m)
      BY <2>2, <3>1 DEF Heard
    <3> QED
      BY <2>1, <2>2, <3>2
  <2>4. CASE ~Accepted /\ m = name /\ m \notin returned /\ m \in returned'
    <3>1. Heard(m)' = Heard(m) + 1
      BY <2>2, <2>4 DEF Heard
    <3> QED
      BY <2>1, <2>2, <2>4, <3>1
  <2> QED
    BY <1>1, <2>3, <2>4
<1>6. Foremost'
  BY <1>2 DEF Foremost
<1>7. Untried'
  <2> SUFFICES ASSUME NEW i \in 1..Len(box'), NEW j \in 1..Len(box'), i < j,
                      ~box'[i].deleted, ~box'[j].deleted, NEW x, x = box'[j].msg
               PROVE  Heard(x)' = 0 /\ OnWay(x)' = 0
    BY UntriedNext
  <2>1. /\ i \in 1..Len(box) /\ j \in 1..Len(box) /\ i # 1 /\ j # 1
        /\ box'[i] = box[i] /\ box'[j] = box[j] /\ x = box[j].msg
    BY <1>1 DEF Marks
  <2>2. Heard(x) = 0 /\ OnWay(x) = 0
    BY <2>1 DEF InOrder, Untried
  <2>3. x \in Msgs /\ x # name
    BY <1>1, <2>1, InMsgs, NotBehind
  <2> QED
    BY <1>5, <2>2, <2>3
<1>8. Settled'
  <2>1. ASSUME NEW m \in queued, m \notin Waits(box') PROVE Heard(m)' > 0
    <3>1. m \in Msgs
      BY DEF TInv, TypeOK
    <3>2. CASE m = name
      <4>1. CASE Accepted
        <5>1. delivered[m] > 0 /\ delivered[m] \in Nat
          BY <3>1, <3>2, <4>1, Counted DEF InOrder, Foremost, Numbers
        <5>2. Heard(m) > 0
          BY <5>1 DEF Heard
        <5> QED
          BY <1>5, <3>1, <5>2
      <4>2. CASE ~Accepted
        <5>1. m \in returned' /\ delivered'[m] \in Nat
          BY <1>1, <3>1, <3>2, <4>2, CountedNext DEF Numbers
        <5> QED
          BY <5>1 DEF Heard
      <4> QED
        BY <4>1, <4>2
    <3>3. CASE m # name
      <4>1. Heard(m) > 0
        BY <1>4, <2>1, <3>3 DEF InOrder, Settled
      <4> QED
        BY <1>5, <3>1, <4>1
    <3> QED
      BY <3>2, <3>3
  <2>2. Waits(box') \cap returned' = {}
    BY <1>1, <1>4 DEF InOrder, Settled
  <2> QED
    BY <1>1, <2>1, <2>2 DEF Settled
<1>9. Fated'
  <2>1. ASSUME NEW m \in Msgs PROVE Fate(m)' <= Fate(m)
    <3>1. CASE m = name
      <4>1. ~Pending(m)'
        BY <1>1, <1>4, <3>1 DEF Pending
      <4>2. ~Accepted => Pending(m)
        BY <1>3, <3>1 DEF Pending
      <4> QED
        BY <1>5, <4>1, <4>2 DEF Fate
    <3>2. CASE m # name
      <4>1. Pending(m)' => Pending(m)
        BY <1>3, <1>4, <3>2 DEF Pending
      <4> QED
        BY <1>5, <3>2, <4>1, FateLess
    <3> QED
      BY <3>1, <3>2
  <2>2. Fated /\ deaths' + starts' = deaths + starts
    BY <1>1 DEF InOrder
  <2> QED
    BY <2>1, <2>2, FatedLower
<1> QED
  BY <1>6, <1>7, <1>8, <1>9 DEF InOrder

\* What the user has marked himself is not forgotten.
LEMMA EditedStays == [Next]_vars => (edited => edited')
<1> SUFFICES ASSUME [Next]_vars, edited PROVE edited'
  OBVIOUS
<1>1. CASE User
  BY <1>1 DEF User, Queue, UserFlag, UserExpunge, SetOnlineMode, NetworkSync, Quit, Start, folder
<1>2. CASE Handler
  BY <1>2 DEF Handler, Nudge, Send, Write, WriteNull, folder
<1>3. CASE Events
  BY <1>3 DEF Events, Block, Answer, SenderDied, folder
<1>4. CASE Sender
  BY <1>4 DEF Sender, ReadJob, Deliver, Report, folder
<1>5. CASE Orphan \/ Die \/ UNCHANGED vars
  BY <1>5 DEF Orphan, Die, vars, folder
<1> QED
  BY <1>1, <1>2, <1>3, <1>4, <1>5 DEF Next

LEMMA StepS == ~NewestFirst => (SInv /\ [Next]_vars => SInv')
<1> SUFFICES ASSUME ~NewestFirst, SInv, [Next]_vars PROVE SInv'
  OBVIOUS
<1>1. TInv /\ TInv'
  BY StepT DEF SInv
<1> SUFFICES ASSUME ~edited' PROVE InOrder'
  BY <1>1 DEF SInv
<1>2. InOrder /\ ~edited
  BY EditedStays DEF SInv
<1>3. CASE User
  <2>1. ASSUME NEW m \in Msgs, Queue(m) PROVE InOrder'
    BY <1>1, <1>2, <2>1, QueueS
  <2>2. ASSUME NEW i \in DOMAIN box, UserFlag(i) PROVE InOrder'
    BY <2>2 DEF UserFlag
  <2>3. CASE UserExpunge
    BY <1>1, <1>2, <2>3, UserExpungeS
  <2>4. CASE SetOnlineMode \/ NetworkSync
    BY <1>1, <1>2, <2>4, CalmS
  <2>5. CASE Quit
    BY <1>1, <1>2, <2>5, ExitS DEF Quit
  <2>6. CASE Start
    BY <1>1, <1>2, <2>6, StartS
  <2> QED
    BY <1>3, <2>1, <2>2, <2>3, <2>4, <2>5, <2>6 DEF User
<1>4. CASE Handler
  <2>1. CASE Nudge \/ Write
    BY <1>1, <1>2, <2>1, CalmS
  <2>2. CASE Send
    BY <1>1, <1>2, <2>2, SendS
  <2>3. CASE WriteNull
    BY <1>1, <1>2, <2>3, ExitS DEF WriteNull
  <2> QED
    BY <1>4, <2>1, <2>2, <2>3 DEF Handler
<1>5. CASE Events
  <2>1. CASE Block \/ SenderDied
    BY <1>1, <1>2, <2>1, CalmS
  <2>2. CASE Answer
    BY <1>1, <1>2, <2>2, AnswerS
  <2> QED
    BY <1>5, <2>1, <2>2 DEF Events
<1>6. CASE Sender
  <2>1. CASE ReadJob \/ Report
    BY <1>1, <1>2, <2>1, CalmS
  <2>2. CASE Deliver
    BY <1>1, <1>2, <2>2, DeliverS
  <2> QED
    BY <1>6, <2>1, <2>2 DEF Sender
<1>7. CASE Orphan
  BY <1>1, <1>2, <1>7, OrphanS
<1>8. CASE Die
  BY <1>1, <1>2, <1>8, DieS
<1>9. CASE UNCHANGED vars
  <2>1. UNCHANGED <<box, queued, delivered, returned, orphans, deaths, starts, name, pc,
                    sender, toSender, fromSender>>
    BY <1>9 DEF vars, folder, main, pipes, process, outcome, others
  <2> QED
    BY <1>2, <2>1 DEF InOrder, Foremost, Untried, Settled, Fated, Fate, Heard, OnWay, Pending,
                      Busily, AtWork, Accepted
<1> QED
  BY <1>3, <1>4, <1>5, <1>6, <1>7, <1>8, <1>9 DEF Next

-----------------------------------------------------------------------------
(* The abstract specification.                                             *)

\* What waits there is what is not marked here.
LEMMA Waiting == TInv => InBox \ Flagged = Waits(box)
<1> SUFFICES ASSUME TInv PROVE InBox \ Flagged = Waits(box)
  OBVIOUS
<1>1. DOMAIN box = 1..Len(box) /\ Apart(box)
  BY DEF TInv, TypeOK, Known
<1>2. ASSUME NEW x \in InBox \ Flagged PROVE x \in Waits(box)
  BY <1>1 DEF InBox, Flagged, Waits
<1>3. ASSUME NEW x \in Waits(box) PROVE x \in InBox \ Flagged
  <2>1. PICK i \in 1..Len(box) : ~box[i].deleted /\ x = box[i].msg
    BY DEF Waits
  <2>2. x \notin Flagged
    BY <1>1, <2>1 DEF Flagged, Apart
  <2> QED
    BY <1>1, <2>1, <2>2 DEF InBox
<1> QED
  BY <1>2, <1>3

LEMMA WaitingNext == TInv' => (InBox \ Flagged)' = Waits(box)'
<1> DEFINE W == InBox \ Flagged = Waits(box)
<1>1. TInv => W
  BY Waiting
<1> HIDE DEF W
<1>2. TInv' => W'
  BY <1>1, PTL
<1> QED
  BY <1>2 DEF W

\* A verdict that was to be expected is allowed.
LEMMA AllowedNow ==
  ASSUME TInv, InOrder, NEW x \in Msgs, x \in queued, Heard(x) < Fate(x)
  PROVE  Promise!Allowed(x)
<1>1. InBox \ Flagged = Waits(box)
  BY Waiting
<1>2. \A m \in Msgs : Promise!Verdicts(m) = Heard(m)
  BY DEF Promise!Verdicts, Heard
<1>3. CASE Heard(x) = 0
  <2>1. x \in Waits(box)
    BY <1>3 DEF InOrder, Settled
  <2> QED
    BY <1>1, <1>2, <1>3, <2>1 DEF Promise!Allowed
<1>4. CASE Heard(x) > 0
  <2> DEFINE v == [m \in Msgs |-> Heard(m)]
             w == [m \in Msgs |-> Fate(m)]
             n == deaths + starts
  <2>1. v \in [Msgs -> Nat] /\ w \in [Msgs -> Nat] /\ n \in Nat
    BY Counted DEF Numbers
  <2>2. Bounded(w, n)
    BY DEF InOrder, Fated
  <2>3. \A m \in Msgs : v[m] <= w[m]
    <3> SUFFICES ASSUME NEW m \in Msgs PROVE Heard(m) <= Fate(m)
      OBVIOUS
    <3>1. Heard(m) \in Nat /\ OnWay(m) \in Nat
      BY Counted DEF Numbers
    <3> QED
      BY <3>1 DEF Fate
  <2>4. 0 < v[x] /\ v[x] < w[x]
    BY <1>4
  <2>5. UNION {{m} \X (2 .. Promise!Verdicts(m)) : m \in Msgs} = Beyond(v)
    <3>1. \A m \in Msgs : Promise!Verdicts(m) = v[m]
      BY <1>2
    <3> HIDE DEF v
    <3>2. \A p : p \in Beyond(v) <=> \E m \in Msgs : p \in {m} \X (2 .. v[m])
      BY DEF Beyond
    <3> QED
      BY <3>1, <3>2
  <2> HIDE DEF v, w, n
  <2>6. Cardinality(Beyond(v)) < n
    BY <2>1, <2>2, <2>3, <2>4, BoundedStrict
  <2>7. Promise!Excess < deaths + starts
    BY <2>5, <2>6 DEF Promise!Excess, n, Promise!Cardinality, Cardinality
  <2> QED
    BY <1>2, <1>4, <2>7 DEF Promise!Allowed
<1>5. Heard(x) \in Nat
  BY Counted DEF Numbers
<1> QED
  BY <1>3, <1>4, <1>5

\* The message under way is to have one more verdict.
LEMMA UnderWay ==
  ASSUME TInv, InOrder, Busily, ~Accepted
  PROVE  Promise!Allowed(name) /\ name \in InBox \ Flagged /\ name \in Msgs
<1>1. name \in Waits(box) /\ name \in Msgs /\ name \in queued /\ pc # "down"
  BY NameWaits
<1>2. PICK x \in Msgs : x = name
  BY <1>1
<1>3. Pending(x)
  BY <1>1, <1>2 DEF Pending
<1>4. Heard(x) < Fate(x)
  <2>1. Heard(x) \in Nat /\ OnWay(x) \in Nat
    BY Counted DEF Numbers
  <2> QED
    BY <1>3, <2>1 DEF Fate
<1>5. Promise!Allowed(x)
  BY <1>1, <1>2, <1>4, AllowedNow
<1>6. Promise!Allowed(name)
  BY <1>2, <1>5 DEF Promise!Allowed, Promise!Verdicts
<1> QED
  BY <1>1, <1>6, Waiting

\* What the user's hands may bring about.
LEMMA Edits == ASSUME TInv, TInv', [Next]_vars, edited' PROVE Promise!Edit
<1>1. PICK z : z \in Msgs
  BY DEF TInv, Manned
<1>2. \E m \in Msgs : delivered' \in {delivered, [delivered EXCEPT ![m] = @ + 1]}
  <2>1. CASE UNCHANGED delivered
    BY <1>1, <2>1
  <2>2. CASE Deliver
    <3>1. job = name /\ name \in Msgs
      BY <2>2 DEF Deliver, TInv, IInv, Flow, AtWork, Manned, Busily, TypeOK, Jobs
    <3>2. delivered' \in {delivered, [delivered EXCEPT ![name] = @ + 1]}
      BY <2>2, <3>1 DEF Deliver
    <3> QED
      BY <3>1, <3>2
  <2>3. CASE Orphan
    <3>1. PICK o \in Msgs :
            delivered' = [delivered EXCEPT ![o] = @ + 1] \/ delivered' = delivered
      BY <2>3, OrphanFacts
    <3> QED
      BY <3>1
  <2>4. UNCHANGED delivered \/ Deliver \/ Orphan
    <3>1. CASE User
      BY <3>1 DEF User, Queue, UserFlag, UserExpunge, SetOnlineMode, NetworkSync, Quit,
                  Start, Exit, outcome
    <3>2. CASE Handler
      BY <3>2 DEF Handler, Nudge, Send, Write, WriteNull, Exit, outcome
    <3>3. CASE Events
      BY <3>3 DEF Events, Block, Answer, SenderDied, Exit, outcome
    <3>4. CASE Sender
      BY <3>4 DEF Sender, ReadJob, Report, outcome
    <3>5. CASE Orphan \/ Die \/ UNCHANGED vars
      BY <3>5 DEF Die, vars, outcome
    <3> QED
      BY <3>1, <3>2, <3>3, <3>4, <3>5 DEF Next
  <2> QED
    BY <2>1, <2>2, <2>3, <2>4
<1>3. returned \subseteq returned'
  BY DEF Next, User, Queue, UserFlag, UserExpunge, SetOnlineMode, NetworkSync, Quit,
         Start, Exit, Handler, Nudge, Send, Write, WriteNull, Events, Block, Answer, GiveBack,
         SenderDied, Sender, ReadJob, Deliver, Report, Orphan, Die, vars, outcome
<1>4. deaths' + starts' \in {deaths + starts, (deaths + starts) + 1}
  <2>1. deaths \in Nat /\ starts \in Nat
    BY Counted DEF Numbers
  <2>2. \/ UNCHANGED <<deaths, starts>>
        \/ deaths' = deaths + 1 /\ starts' = starts
        \/ deaths' = deaths /\ starts' = starts + 1
    BY DEF Next, User, Queue, UserFlag, UserExpunge, SetOnlineMode, NetworkSync, Quit,
           Start, Exit, Handler, Nudge, Send, Write, WriteNull, Events, Block, Answer,
           SenderDied, Sender, ReadJob, Deliver, Report, Orphan, Die, vars, process, others
  <2> QED
    BY <2>1, <2>2
<1>5. returned' \in SUBSET Msgs /\ (InBox \ Flagged)' \in SUBSET Msgs
  <2>1. Waits(box)' \subseteq Msgs
    <3>1. \A i \in 1..Len(box)' : box'[i].msg \in Msgs
      <4>1. TInv' => (\A i \in 1..Len(box) : box[i].msg \in Msgs)'
        BY InMsgs, PTL
      <4> QED
        BY <4>1
    <3> QED
      BY <3>1 DEF Waits
  <2>2. returned' \subseteq Msgs
    BY DEF TInv, TypeOK
  <2> QED
    BY <2>1, <2>2, WaitingNext
<1> QED
  BY <1>2, <1>3, <1>4, <1>5 DEF Promise!Edit

\* A step that leaves alone what the abstract specification sees.
LEMMA Unseen ==
  ASSUME TInv, TInv', Waits(box') = Waits(box),
         UNCHANGED <<delivered, returned, deaths, starts, edited>>
  PROVE  UNCHANGED Promise!vars
BY Waiting, WaitingNext DEF Promise!vars

LEMMA StepPromise ==
  ~NewestFirst =>
    (SInv /\ [Next]_vars => [Promise!Next /\ (edited => edited')]_(Promise!vars))
<1> SUFFICES ASSUME ~NewestFirst, SInv, [Next]_vars
             PROVE  [Promise!Next /\ (edited => edited')]_(Promise!vars)
  OBVIOUS
<1>1. TInv /\ TInv' /\ (edited => edited')
  BY StepT, EditedStays DEF SInv
<1>2. CASE edited'
  <2>1. Promise!Edit
    BY <1>1, <1>2, Edits
  <2> QED
    BY <1>1, <2>1 DEF Promise!Next
<1>3. CASE ~edited'
  <2> SUFFICES [Promise!Next]_(Promise!vars)
    BY <1>1
  <2>1. InOrder /\ ~edited
    BY <1>1, <1>3 DEF SInv
  <2> DEFINE W == InBox \ Flagged
  <2>2. W = Waits(box) /\ W' = Waits(box)'
    BY <1>1, Waiting, WaitingNext
  <2>3. ASSUME NEW m \in Msgs, Queue(m) PROVE Promise!Queue(m)
    <3> DEFINE b == Append(box, [msg |-> m, deleted |-> FALSE])
    <3>1. /\ box \in Seq(Job) /\ Apart(box) /\ m \notin queued
          /\ \A i \in 1..Len(box) : box[i].msg # m
      BY <1>1, <2>3 DEF TInv, TypeOK, Known, Job, Queue
    <3>2. Joins(b, box, m)
      BY <3>1, AppendBox
    <3>3. Joins(Synced(b), box, m)
      BY <3>2, SyncedJoins
    <3>4. Joins(box', box, m)
      BY <2>3, <3>2, <3>3 DEF Queue
    <3>5. W' = W \cup {m}
      BY <2>2, <3>4 DEF Joins
    <3>6. m \notin W
      BY <2>2, <3>1 DEF Waits
    <3>7. Promise!Verdicts(m) = 0
      <4>1. delivered[m] = 0 /\ m \notin returned
        BY <1>1, <3>1, Counted DEF TInv, Known, Numbers
      <4> QED
        BY <4>1 DEF Promise!Verdicts
    <3> QED
      BY <2>3, <3>5, <3>6, <3>7 DEF Promise!Queue, Queue, outcome, process, others
  <2>4. CASE UserExpunge \/ Send
    <3>1. Waits(box') = Waits(box)
      <4>1. Cleaned(Synced(box), box) /\ (box' = Synced(box) \/ box' = box)
        BY <1>1, <2>4, SyncedBoxNow DEF UserExpunge, Send
      <4> QED
        BY <4>1 DEF Cleaned
    <3>2. UNCHANGED <<delivered, returned, deaths, starts, edited>>
      BY <2>4 DEF UserExpunge, Send, outcome, process, others
    <3> QED
      BY <1>1, <3>1, <3>2, Unseen
  <2>5. CASE SetOnlineMode \/ NetworkSync \/ Block \/ Nudge \/ SenderDied \/ Write
             \/ ReadJob \/ Report
    <3>1. UNCHANGED <<box, delivered, returned, deaths, starts, edited>>
      BY <2>5 DEF SetOnlineMode, NetworkSync, Block, Nudge, SenderDied, Write, ReadJob,
                  Report, folder, process, outcome, others
    <3> QED
      BY <1>1, <3>1, Unseen
  <2>6. CASE Quit \/ WriteNull
    <3>1. UNCHANGED <<box, delivered, returned, deaths, starts, edited>>
      BY <2>6 DEF Quit, WriteNull, Exit, folder
    <3> QED
      BY <1>1, <3>1, Unseen
  <2>7. CASE Start \/ Die
    <3>1. UNCHANGED <<box, delivered, returned, edited>>
      BY <2>7 DEF Start, Die, folder, outcome
    <3>2. deaths' + starts' = (deaths + starts) + 1
      <4>1. deaths \in Nat /\ starts \in Nat
        BY <1>1, Counted DEF Numbers
      <4> QED
        BY <2>7, <4>1 DEF Start, Die, process, others
    <3>3. W' = W
      BY <2>2, <3>1
    <3> QED
      BY <3>1, <3>2, <3>3 DEF Promise!Interrupt, Promise!Next
  <2>8. CASE Deliver
    <3>1. Busily /\ ~Accepted /\ job = name
      BY <1>1, <2>8 DEF Deliver, Busily, AtWork, Accepted, TInv, IInv, Flow
    <3>2. Promise!Allowed(name) /\ name \in Msgs
      BY <1>1, <2>1, <3>1, UnderWay
    <3>3. UNCHANGED <<box, returned, deaths, starts, edited>>
      BY <2>8 DEF Deliver, folder, others
    <3>4. W' = W
      BY <2>2, <3>3
    <3>5. CASE delivered' = [delivered EXCEPT ![job] = @ + 1]
      <4>1. Promise!Accept(name)
        BY <3>1, <3>2, <3>3, <3>4, <3>5 DEF Promise!Accept
      <4> QED
        BY <3>2, <4>1 DEF Promise!Next
    <3>6. CASE UNCHANGED delivered
      BY <1>1, <3>3, <3>6, Unseen
    <3> QED
      BY <2>8, <3>5, <3>6 DEF Deliver
  <2>9. CASE Orphan
    <3>1. PICK o \in Msgs :
            /\ o \in queued /\ OnWay(o) > 0
            /\ delivered' = [delivered EXCEPT ![o] = @ + 1] \/ delivered' = delivered
      BY <1>1, <2>9, OrphanFacts
    <3>2. Heard(o) < Fate(o)
      <4>1. Heard(o) \in Nat /\ OnWay(o) \in Nat
        BY <1>1, Counted DEF Numbers
      <4> QED
        BY <3>1, <4>1 DEF Fate
    <3>3. Promise!Allowed(o)
      BY <1>1, <2>1, <3>1, <3>2, AllowedNow
    <3>4. UNCHANGED <<box, returned, deaths, starts, edited>>
      BY <2>9 DEF Orphan, folder, process
    <3>5. W' = W
      BY <2>2, <3>4
    <3>6. CASE delivered' = [delivered EXCEPT ![o] = @ + 1]
      <4>1. Promise!Accept(o)
        BY <3>3, <3>4, <3>5, <3>6 DEF Promise!Accept
      <4> QED
        BY <4>1 DEF Promise!Next
    <3>7. CASE UNCHANGED delivered
      BY <1>1, <3>4, <3>7, Unseen
    <3> QED
      BY <3>1, <3>6, <3>7
  <2>10. CASE Answer
    <3>1. /\ Busily
          /\ UNCHANGED <<delivered, deaths, starts, edited>>
          /\ \/ Accepted /\ returned' = returned
             \/ ~Accepted /\ returned' = returned \cup {name}
      BY <1>1, <2>1, <2>10, AnswerFacts
    <3>2. W' = W \ {name} /\ name \in W /\ name \in Msgs
      BY <1>1, <2>1, <2>2, <2>10, <3>1, AnswerWaits, NameWaits
    <3>3. CASE Accepted /\ returned' = returned
      <4>1. delivered[name] > 0
        BY <2>1, <3>3 DEF InOrder, Foremost
      <4>2. Promise!Settle(name)
        BY <3>1, <3>2, <3>3, <4>1 DEF Promise!Settle
      <4> QED
        BY <3>2, <4>2 DEF Promise!Next
    <3>4. CASE ~Accepted /\ returned' = returned \cup {name}
      <4>1. Promise!Allowed(name)
        BY <1>1, <2>1, <3>1, <3>4, UnderWay
      <4>2. Promise!Refuse(name)
        BY <3>1, <3>2, <3>4, <4>1 DEF Promise!Refuse
      <4> QED
        BY <3>2, <4>2 DEF Promise!Next
    <3> QED
      BY <3>1, <3>3, <3>4
  <2>11. CASE UNCHANGED vars
    <3>1. UNCHANGED <<box, delivered, returned, deaths, starts, edited>>
      BY <2>11 DEF vars, folder, process, outcome, others
    <3> QED
      BY <1>1, <3>1, Unseen
  <2>12. ASSUME NEW i \in DOMAIN box, UserFlag(i) PROVE FALSE
    BY <1>3, <2>12 DEF UserFlag
  <2> HIDE DEF W
  <2>13. CASE User
    <3>1. ASSUME NEW m \in Msgs, Queue(m) PROVE Promise!Next
      BY <2>3, <3>1 DEF Promise!Next
    <3> QED
      BY <2>4, <2>5, <2>6, <2>7, <2>12, <2>13, <3>1 DEF User
  <2>14. CASE Handler \/ Events \/ Sender
    BY <2>4, <2>5, <2>6, <2>8, <2>10, <2>14 DEF Handler, Events, Sender
  <2> QED
    BY <2>7, <2>9, <2>11, <2>13, <2>14 DEF Next
<1> QED
  BY <1>2, <1>3

LEMMA InitPromise == Init => SInv /\ Promise!Init
<1> SUFFICES ASSUME Init PROVE SInv /\ Promise!Init
  OBVIOUS
<1>1. SInv
  BY InitTInv, InitInOrder DEF SInv
<1>2. InBox \ Flagged = {}
  <2>1. Waits(box) = {}
    BY DEF Init, Waits
  <2> QED
    BY <2>1, InitTInv, Waiting
<1>3. deaths + starts = 0
  BY DEF Init
<1> QED
  BY <1>1, <1>2, <1>3 DEF Init, Promise!Init

\* Sending keeps the promise of Outbox as long as the user lets the folder alone
\* and does not have it presented with the newest first: whatever dies or is
\* started again, no message leaves the folder before RatSenderHandler() has its
\* verdict, and none gets more verdicts than one and one for each interruption.
THEOREM PromiseKept == ~NewestFirst => (Spec => KeepsPromise)
<1> SUFFICES ASSUME ~NewestFirst PROVE Spec => KeepsPromise
  OBVIOUS
<1>1. Init => SInv /\ Promise!Init
  BY InitPromise
<1>2. SInv /\ [Next]_vars => SInv' /\ [Promise!Next /\ (edited => edited')]_(Promise!vars)
  BY StepS, StepPromise
<1> QED
  BY <1>1, <1>2, PTL DEF Spec, KeepsPromise, Promise!Spec

=============================================================================
