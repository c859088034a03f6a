------------------------------ MODULE RatThread ------------------------------
(***************************************************************************)
(* Sorting a folder by threads: SORT_THREADED in RatFolderSort()           *)
(* (lib/ratFolder.c).  The messages, in the order of their dates, are      *)
(* linked into trees: by their references first, and by their subjects     *)
(* where the references leave a message on top.  The trees are linked      *)
(* lists: a message knows the next and the previous one of its list and    *)
(* its first child, and some of the messages of a list know the parent.    *)
(* Then the trees are written down, each list in the order of its dates.   *)
(*                                                                         *)
(* Abstractions: a message is its place p[i] in the order of dates, and    *)
(* the dates differ; message ids and subjects are small numbers, and an    *)
(* empty one is NoId; one step links one message.                          *)
(***************************************************************************)
EXTENDS Integers, Sequences, FiniteSets, SequencesExt

CONSTANTS
  N,          \* the number of messages in the folder
  Subjects    \* bound: the subjects there are

ASSUME SizeAssumption == N \in Nat \ {0} /\ Subjects \in Nat \ {0}

VARIABLES
  mail,   \* the message ids, references and canonical subjects
  links,  \* prev, next, child and parent of each message, first and last on top
  pc,     \* "ref", "subject", "done"
  turn    \* the message to link next

threadVars == <<mail, links, pc, turn>>

Nil  == -1
NoId == -1
Msgs == 0..(N-1)
Link == Msgs \cup {Nil}

\* An id names the first message that has it; a message may have no id, and two
\* may have the same.
Ids == {f \in [Msgs -> Link] : \A n \in Msgs : f[n] \in {n, NoId} \/ (f[n] < n /\ f[f[n]] = f[n])}

\* What comes with the mail: a reference may name any message, or none that is here.
Mails == [msgid : Ids, ref : [Msgs -> Link],
          subject : {f \in [Msgs -> 1..Subjects] : f[0] = 1}]

-----------------------------------------------------------------------------
(* Lists                                                                   *)

\* dataPtr[m].field = v, where m may be outside of dataPtr
Set(l, field, m, v) == IF m = Nil THEN l ELSE [l EXCEPT ![field][m] = v]

\* One step of IsChild(): to the parent, else to the previous one in the list.
Up(l, m) == IF l.parent[m] # Nil THEN l.parent[m] ELSE l.prev[m]

\* The messages IsChild() passes on its way from m.
Passed(l, m) ==
  LET at[k \in 0..N] == IF k = 0 THEN m
                        ELSE IF at[k-1] = Nil THEN Nil ELSE Up(l, at[k-1])
  IN {at[k] : k \in 0..N} \ {Nil}

\* IsChild(): child has parent as one of its ancestors, or behind one.
IsChild(l, child, parent) == parent \in Passed(l, child)

\* The list that starts with m, the elements in its order.
ListFrom(l, m) ==
  LET from[k \in 0..N] ==
        [n \in Link |-> IF n = Nil \/ k = 0 THEN <<>> ELSE <<n>> \o from[k-1][l.next[n]]]
  IN from[N][m]

\* The first message of the list m is in.
HeadOf(l, m) ==
  LET at[k \in 0..N] == IF k = 0 THEN m
                        ELSE IF l.prev[at[k-1]] = Nil THEN at[k-1] ELSE l.prev[at[k-1]]
  IN at[N]

\* Message m leaves its list.
Unlink(l, m) == Set(Set(l, "next", l.prev[m], l.next[m]), "prev", l.next[m], l.prev[m])

-----------------------------------------------------------------------------
(* The first pass: references                                              *)

\* The message is put last into the list of the top.
AppendTop(l, n) ==
  [prev   |-> [l.prev EXCEPT ![n] = l.last],
   next   |-> [l.next EXCEPT ![l.last] = n],
   child  |-> l.child, parent |-> l.parent,
   first  |-> l.first, last |-> n]

\* An earlier message j is an answer to n and has no parent: n adopts it.
Adopt(l, n, j) ==
  IF l.parent[j] = Nil /\ mail.ref[j] = mail.msgid[n]
  THEN LET u == Unlink(l, j)
           c == u.child[n]
           v == Set(Set(u, "prev", c, j), "next", j, c) IN
       [v EXCEPT !.first = IF l.first = j THEN l.next[j] ELSE @,
                 !.child[n] = j, !.prev[j] = Nil, !.parent[j] = n]
  ELSE l

Adoptions(l, n) ==
  LET adopted[k \in 0..n] == IF k = 0 THEN l ELSE Adopt(adopted[k-1], n, n - k)
  IN IF mail.msgid[n] = NoId THEN l ELSE adopted[n]

\* Message n is an answer to j: it becomes the last of j's children.  The first
\* child knows its parent, the later ones take the child before for it.
Reply(l, n, j) ==
  LET first == IF l.first = n THEN IF l.next[n] = Nil THEN j ELSE l.next[n] ELSE l.first
      last  == IF l.last = n THEN IF l.prev[n] = Nil THEN j ELSE l.prev[n] ELSE l.last
      u     == Unlink(l, n)
      k     == IF u.child[j] = Nil THEN Nil ELSE Last(ListFrom(u, u.child[j]))
      v     == IF k = Nil
               THEN [u EXCEPT !.child[j] = n, !.prev[n] = Nil, !.parent[n] = j]
               ELSE [u EXCEPT !.prev[n] = k, !.next[k] = n, !.parent[n] = k] IN
  [v EXCEPT !.next[n] = Nil, !.first = first, !.last = last]

\* Originals() that looks only at the messages on top.
Originals_Top(l, n) ==
  {j \in 0..(n-1) : /\ l.parent[n] = Nil /\ mail.ref[n] # NoId
                    /\ mail.msgid[j] = mail.ref[n] /\ l.parent[j] = Nil /\ ~IsChild(l, j, n)}

\* Originals() that does not ask what is below n.
Originals_Circle(l, n) ==
  {j \in 0..(n-1) : l.parent[n] = Nil /\ mail.ref[n] # NoId /\ mail.msgid[j] = mail.ref[n]}

\* The messages n may be an answer to.
Originals(l, n) ==
  {j \in 0..(n-1) : /\ l.parent[n] = Nil /\ mail.ref[n] # NoId
                    /\ mail.msgid[j] = mail.ref[n] /\ ~IsChild(l, j, n)}

FirstOf(S) == CHOOSE j \in S : \A k \in S : j <= k
LastOf(S)  == CHOOSE j \in S : \A k \in S : k <= j

LinkRef ==
  /\ pc = "ref" /\ turn < N
  /\ LET a == Adoptions(AppendTop(links, turn), turn)
         o == Originals(a, turn) IN
     links' = IF o = {} THEN a ELSE Reply(a, turn, FirstOf(o))
  /\ turn' = turn + 1
  /\ UNCHANGED <<mail, pc>>

-----------------------------------------------------------------------------
(* The second pass: subjects                                               *)

\* BySubject() that does not tell the next one of its new neighbour.
BySubject_NoPrev(l, n, j) ==
  LET u == Unlink(l, n)
      p == u.parent[HeadOf(u, j)] IN
  IF p # Nil /\ mail.subject[p] = mail.subject[n]
  THEN [u EXCEPT !.prev[n] = j, !.next[n] = u.next[j], !.next[j] = n]
  ELSE LET v == Set(Set(u, "prev", u.child[j], n), "parent", u.child[j], Nil) IN
       [v EXCEPT !.parent[n] = j, !.prev[n] = Nil, !.next[n] = u.child[j], !.child[j] = n]

\* Message n is later in the same thread as j: it goes right after j when j's
\* parent has the same subject, and becomes j's first child when not.
BySubject(l, n, j) ==
  LET u == Unlink(l, n)
      p == u.parent[HeadOf(u, j)] IN
  IF p # Nil /\ mail.subject[p] = mail.subject[n]
  THEN LET v == Set(u, "prev", u.next[j], n) IN
       [v EXCEPT !.prev[n] = j, !.next[n] = u.next[j], !.next[j] = n]
  ELSE LET v == Set(Set(u, "prev", u.child[j], n), "parent", u.child[j], Nil) IN
       [v EXCEPT !.parent[n] = j, !.prev[n] = Nil, !.next[n] = u.child[j], !.child[j] = n]

\* SameSubject() that asks IsChild() the other way round.
SameSubject_Child(l, n) ==
  {j \in 0..(n-1) : /\ l.parent[n] = Nil
                    /\ mail.subject[j] = mail.subject[n] /\ ~IsChild(l, n, j)}

\* The messages of the same subject that come before n, which is on top.
SameSubject(l, n) ==
  {j \in 0..(n-1) : /\ l.parent[n] = Nil
                    /\ mail.subject[j] = mail.subject[n] /\ ~IsChild(l, j, n)}

StartSubjects ==
  /\ pc = "ref" /\ turn = N
  /\ pc' = "subject" /\ turn' = 1
  /\ UNCHANGED <<mail, links>>

LinkSubject ==
  /\ pc = "subject" /\ turn < N
  /\ LET s == SameSubject(links, turn) IN
     links' = IF s = {} THEN links ELSE BySubject(links, turn, LastOf(s))
  /\ turn' = turn + 1
  /\ UNCHANGED <<mail, pc>>

Done ==
  /\ pc = "subject" /\ turn = N
  /\ pc' = "done"
  /\ UNCHANGED <<mail, links, turn>>

-----------------------------------------------------------------------------
(* RatFolderSortLinearize()                                                *)

\* The list that starts with first, sorted by date, with all that is below.
Linearize(l, first) ==
  LET lin[k \in 0..N, m \in Link] ==
        IF m = Nil \/ k = 0 THEN <<>>
        ELSE LET sorted == SetToSortSeq(ToSet(ListFrom(l, m)), <) IN
             FlattenSeq([x \in DOMAIN sorted |->
                           <<sorted[x]>> \o lin[k-1, l.child[sorted[x]]]])
  IN lin[N, first]

Order == Linearize(links, links.first)

-----------------------------------------------------------------------------

ThreadInit ==
  /\ mail \in Mails
  /\ LET none == [m \in Msgs |-> Nil] IN
     links = [prev |-> none, next |-> none, child |-> none, parent |-> none,
              first |-> 0, last |-> 0]
  /\ pc = "ref" /\ turn = 1

ThreadNext == LinkRef \/ StartSubjects \/ LinkSubject \/ Done

ThreadSpec == ThreadInit /\ [][ThreadNext]_threadVars

-----------------------------------------------------------------------------
(* Properties                                                              *)

\* The messages the first pass has come to.
Placed == IF pc = "ref" THEN 0..(turn-1) ELSE Msgs

\* A message that the second pass takes out of its list has one before it, whose
\* next is set without asking (1046).
HasPrevious ==
  (pc = "subject" /\ turn < N /\ SameSubject(links, turn) # {}) => links.prev[turn] # Nil

\* The lists are linked both ways and belong to one message, so that what leaves a list
\* leaves it whole and RatFolderSortLinearize() comes to a message in one way only; and
\* nothing is written before the array.
BothWays ==
  /\ \A m \in Placed :
       /\ links.next[m] # Nil => links.prev[links.next[m]] = m
       /\ links.prev[m] # Nil => links.next[links.prev[m]] = m
       /\ links.child[m] # Nil => /\ links.prev[links.child[m]] = Nil
                                  /\ \A k \in Placed : links.child[k] = links.child[m] => k = m
  /\ HasPrevious

\* Whatever answers whatever, with references that go in circles too, what
\* RatFolderSortLinearize() does, from the first on top to the next ones and to the
\* children, leads to every message that the first pass has linked.
AllReached ==
  pc = "ref" =>
    \A S \in SUBSET Placed :
      (links.first \in S /\ \A m \in S : {links.next[m], links.child[m]} \subseteq S \cup {Nil})
        => S = Placed

\* IsChild() comes from every message to the first one on top, and ends there.
AllBelowFirst == \A m \in Placed : links.first \in Passed(links, m)

\* The messages below m: in its list of children, or below one of those.
Below(m) == IF links.child[m] = Nil THEN {} ELSE ToSet(Linearize(links, links.child[m]))

\* Message n is an answer to m, by its reference.
Answers(n, m) == n # m /\ mail.ref[n] # NoId /\ mail.msgid[m] = mail.ref[n]

UniqueIds == \A n, m \in Msgs : mail.msgid[n] = mail.msgid[m] => (n = m \/ mail.msgid[n] = NoId)

\* The first pass puts an answer below what it answers, whichever of the two has
\* the earlier date, unless the references go in circles or ids are not unique.
RepliesLinked ==
  (pc = "subject" /\ turn = 1 /\ UniqueIds) =>
    \A n, m \in Msgs : Answers(n, m) => n \in Below(m) \/ m \in Below(n)

\* No two messages on top have the same subject.
OnePerSubject ==
  pc = "done" =>
  \A n, m \in ToSet(ListFrom(links, links.first)) : mail.subject[n] = mail.subject[m] => n = m

-----------------------------------------------------------------------------
(* What the code does not do (see README.md)                               *)

\* The trees linked by references stay whole when their tops are linked by subject.
RepliesBelow ==
  pc = "done" =>
    \A n, m \in Msgs : Answers(n, m) => n \in Below(m) \/ m \in Below(n)

\* Each message is in the trees once: RatFolderSortLinearize() fills p.  So it is in
\* folders of up to four messages.
EveryMessageOnce == Len(Order) = Cardinality(Placed) /\ ToSet(Order) = Placed

\* Folders of six messages in which it is not, out of those that are too many for TLC.
\* Each message has an id of its own; 1 may answer the last one, which has a later
\* date, 3 and 4 may answer 1, and the last one 0.
SixMails ==
  LET MayAnswer == <<{}, {5}, {}, {1}, {1}, {0}>> IN
  {m \in [msgid : {[n \in Msgs |-> n]}, ref : [Msgs -> {NoId, 0, 1, 5}],
          subject : {f \in [Msgs -> 1..Subjects] : f[0] = 1}] :
     \A n \in Msgs : m.ref[n] \in MayAnswer[n + 1] \cup {NoId}}

SixSpec == mail \in SixMails /\ ThreadInit /\ [][ThreadNext]_threadVars
=============================================================================
