---------------------------- MODULE RatSmtpCache ----------------------------
(***************************************************************************)
(* The connections to mail servers that the sender of TkRat keeps for the  *)
(* next message (conn_cache in lib/ratSender.c).  Before the sender waits  *)
(* for a job it closes what has expired; a job takes the connection to its *)
(* host out of the cache or opens one, and puts it back at the head of the *)
(* list when it is done.                                                   *)
(*                                                                         *)
(* Abstractions: a job is its first host and its cache time; a host        *)
(* answers each command with success or failure; the clock stops at        *)
(* MaxTime.                                                                *)
(***************************************************************************)
EXTENDS Integers, Sequences, SequencesExt

CONSTANTS
  Hosts,      \* the first hosts of the roles
  CacheTimes, \* the cache times of the jobs: -1 for none, 0 for ever
  Year,       \* the time that stands for "for ever"
  MaxTime,    \* bound: seconds
  MaxJobs,    \* bound: messages
  None        \* no host

ASSUME ConstantsAssumption ==
  /\ CacheTimes \subseteq Nat \cup {-1} /\ None \notin Hosts
  /\ Year \in Nat \ {0} /\ MaxTime \in Nat /\ MaxJobs \in Nat

VARIABLES
  cache,   \* conn_cache: hosts and times of expiry
  clock,   \* time(NULL)
  now,     \* the time the loop over the cache has read
  a,       \* the first expiry that loop has seen
  cp,      \* its place in the list
  pc,      \* where the sender is
  host,    \* the host of the job
  cacheTime,  \* and its cache time
  stream,  \* the job holds a connection
  open,    \* history: the open connections
  jobs     \* bound

vars == <<cache, clock, now, a, cp, pc, host, cacheTime, stream, open, jobs>>

Init ==
  /\ cache = <<>> /\ clock = 0 /\ now = 0 /\ a = 0 /\ cp = 1
  /\ pc = "prune" /\ host = None /\ cacheTime = -1 /\ stream = FALSE
  /\ open = 0 /\ jobs = 0

Tick ==
  /\ clock < MaxTime
  /\ clock' = clock + 1
  /\ UNCHANGED <<cache, now, a, cp, pc, host, cacheTime, stream, open, jobs>>

-----------------------------------------------------------------------------
(* The loop over the cache.                                                *)

\* One second late.
Expired_Strict(c) == c.expires < now

Expired(c) == c.expires <= now

CloseExpired ==
  /\ pc = "prune" /\ cp \in DOMAIN cache /\ Expired(cache[cp])
  /\ cache' = RemoveAt(cache, cp)
  /\ open' = open - 1
  /\ UNCHANGED <<clock, now, a, cp, pc, host, cacheTime, stream, jobs>>

\* The loop goes to the next connection only if this one expires first so far.
KeepFirst ==
  /\ pc = "prune" /\ cp \in DOMAIN cache /\ ~Expired(cache[cp])
  /\ a = 0 \/ a > cache[cp].expires
  /\ a' = cache[cp].expires
  /\ cp' = cp + 1
  /\ UNCHANGED <<cache, clock, now, pc, host, cacheTime, stream, open, jobs>>

\* The end of the list: wait for a job.  The alarm that is set for the first
\* expiry interrupts the read, which SafeRead starts again.
Wait ==
  /\ pc = "prune" /\ cp \notin DOMAIN cache
  /\ pc' = "read"
  /\ UNCHANGED <<cache, clock, now, a, cp, host, cacheTime, stream, open, jobs>>

\* The beginning of the next round.
Round ==
  /\ pc' = "prune" /\ now' = clock /\ a' = 0 /\ cp' = 1
  /\ host' = None /\ cacheTime' = -1 /\ stream' = FALSE

-----------------------------------------------------------------------------
(* RatSendSMTP.                                                            *)

ReadJob(h, t) ==
  /\ pc = "read" /\ jobs < MaxJobs
  /\ jobs' = jobs + 1 /\ host' = h /\ cacheTime' = t
  /\ pc' = "get"
  /\ UNCHANGED <<cache, clock, now, a, cp, stream, open>>

\* The connection to the host is not found.
Cached_Never == {i \in DOMAIN cache : cache[i].host = None}

Cached == {i \in DOMAIN cache : cache[i].host = host}

\* A connection that fails is forgotten but not closed.
Reuse_NotClosed ==
  /\ pc = "get" /\ Cached # {}
  /\ LET i == CHOOSE i \in Cached : \A j \in Cached : i <= j IN
       cache' = RemoveAt(cache, i)
  /\ stream' \in BOOLEAN
  /\ pc' = "open"
  /\ UNCHANGED <<clock, now, a, cp, host, cacheTime, open, jobs>>

\* the cached connection to the host: RSET tells whether it still works
Reuse ==
  /\ pc = "get" /\ Cached # {}
  /\ LET i == CHOOSE i \in Cached : \A j \in Cached : i <= j IN
       cache' = RemoveAt(cache, i)
  /\ \/ stream' = TRUE /\ UNCHANGED open
     \/ stream' = FALSE /\ open' = open - 1
  /\ pc' = "open"
  /\ UNCHANGED <<clock, now, a, cp, host, cacheTime, jobs>>

Miss ==
  /\ pc = "get" /\ Cached = {}
  /\ pc' = "open"
  /\ UNCHANGED <<cache, clock, now, a, cp, host, cacheTime, stream, open, jobs>>

\* smtp_open, unless there is a connection
Open ==
  /\ pc = "open"
  /\ \/ stream /\ pc' = "mail" /\ UNCHANGED <<stream, open, now, a, cp, host, cacheTime>>
     \/ /\ ~stream /\ stream' = TRUE /\ open' = open + 1 /\ pc' = "mail"
        /\ UNCHANGED <<now, a, cp, host, cacheTime>>
     \/ ~stream /\ Round /\ UNCHANGED open
  /\ UNCHANGED <<cache, clock, jobs>>

Expiry == clock + (IF cacheTime = 0 THEN Year ELSE cacheTime)

\* the connection is cached unless the host refused the message
Mail ==
  /\ pc = "mail"
  /\ \/ /\ cacheTime >= 0
        /\ cache' = <<[host |-> host, expires |-> Expiry]>> \o cache
        /\ UNCHANGED open
     \/ open' = open - 1 /\ UNCHANGED cache
  /\ Round
  /\ UNCHANGED <<clock, jobs>>

-----------------------------------------------------------------------------
Loop == CloseExpired \/ KeepFirst \/ Wait

Send == Reuse \/ Miss \/ Open \/ Mail

Next ==
  \/ Tick \/ Loop \/ Send
  \/ \E h \in Hosts, t \in CacheTimes : ReadJob(h, t)

Spec == Init /\ [][Next]_vars

\* Time passes; the sender is a process of its own that runs when it can.
FairSpec == Spec /\ WF_vars(Tick) /\ WF_vars(Loop) /\ WF_vars(Send)

-----------------------------------------------------------------------------
TypeOK ==
  /\ cache \in Seq([host : Hosts, expires : Nat])
  /\ {clock, now, a, cp, open, jobs} \subseteq Nat
  /\ pc \in {"prune", "read", "get", "open", "mail"}
  /\ host \in Hosts \cup {None} /\ cacheTime \in CacheTimes \cup {-1}
  /\ stream \in BOOLEAN

\* There is one connection to a host, in the cache or at work.
OnePerHost ==
  /\ \A i, j \in DOMAIN cache : cache[i].host = cache[j].host => i = j
  /\ stream => \A i \in DOMAIN cache : cache[i].host # host

\* A connection is in the cache, or a job holds it, or it is closed.
NoneLeaks == open = Len(cache) + (IF stream THEN 1 ELSE 0)

\* When the sender waits for a job, what had expired before is closed.
ExpiredClosed == pc = "read" => \A i \in DOMAIN cache : cache[i].expires > now

-----------------------------------------------------------------------------
(* What the code does not do.                                              *)

\* The loop over the cache comes to its end.
PruneEnds == pc = "prune" ~> pc = "read"

\* A connection does not outlive its time for ever.
ExpiryNoticed ==
  (cache # <<>> /\ clock >= Last(cache).expires) ~>
     (cache = <<>> \/ Last(cache).expires > clock)

=============================================================================
