------------------------- MODULE RatSmtpCacheProofs -------------------------
(***************************************************************************)
(* Theorems about the cache of SMTP connections, for any hosts, any cache  *)
(* times and any bounds.                                                   *)
(***************************************************************************)
EXTENDS RatSmtpCache, SequenceLemmas, TLAPS

Conn == [host : Hosts, expires : Nat]

-----------------------------------------------------------------------------
(* The inductive invariant.                                                *)

Types ==
  /\ cache \in Seq(Conn)
  /\ clock \in Nat /\ now \in Nat /\ a \in Nat /\ cp \in Nat /\ open \in Nat
  /\ jobs \in Nat
  /\ pc \in {"prune", "read", "get", "open", "mail"}
  /\ host \in Hosts \cup {None}
  /\ cacheTime \in CacheTimes \cup {-1}
  /\ stream \in BOOLEAN

\* What the sender holds at each place: a job when it is about to send, and a
\* connection only then; the cache has none to the host of the job.
Holds ==
  /\ pc \in {"get", "open", "mail"} => host \in Hosts
  /\ pc \in {"prune", "read", "get"} => ~stream
  /\ pc = "mail" => stream
  /\ pc \in {"open", "mail"} => \A i \in 1 .. Len(cache) : cache[i].host # host

Distinct ==
  \A i, j \in 1 .. Len(cache) : cache[i].host = cache[j].host => i = j

\* The loop has passed nothing that had expired when it began.
Pruned ==
  /\ cp >= 1
  /\ pc = "prune" => cp <= Len(cache) + 1
  /\ pc = "prune" => \A i \in 1 .. Len(cache) : i < cp => cache[i].expires > now
  /\ pc = "read" => \A i \in 1 .. Len(cache) : cache[i].expires > now

Count == open = Len(cache) + (IF stream THEN 1 ELSE 0)

IInv == Types /\ Holds /\ Distinct /\ Pruned /\ Count

-----------------------------------------------------------------------------
(* The list of connections.                                                *)

\* A cache without one of its connections: all but that are where they were, or
\* one place before.
LEMMA CacheRemoved ==
  ASSUME Types, Distinct, NEW i \in 1 .. Len(cache), cache' = RemoveAt(cache, i)
  PROVE  /\ cache' \in Seq(Conn) /\ Len(cache') = Len(cache) - 1
         /\ Distinct'
         /\ \A j \in 1 .. Len(cache') :
              cache'[j] = IF j < i THEN cache[j] ELSE cache[j + 1]
<1>1. cache \in Seq(Conn)
  BY DEF Types
<1>2. /\ cache' \in Seq(Conn) /\ Len(cache') = Len(cache) - 1
      /\ \A j \in 1 .. Len(cache') :
           cache'[j] = IF j < i THEN cache[j] ELSE cache[j + 1]
  BY <1>1, Removed
<1>3. Distinct'
  <2> SUFFICES ASSUME NEW j \in 1 .. Len(cache'), NEW k \in 1 .. Len(cache'),
                      cache'[j].host = cache'[k].host
               PROVE  j = k
    BY DEF Distinct
  <2> DEFINE at(n) == IF n < i THEN n ELSE n + 1
  <2>1. at(j) \in 1 .. Len(cache) /\ at(k) \in 1 .. Len(cache)
    BY <1>1, <1>2
  <2>2. cache[at(j)].host = cache[at(k)].host
    BY <1>2
  <2>3. at(j) = at(k)
    BY <2>1, <2>2 DEF Distinct
  <2> QED
    BY <2>3
<1> QED
  BY <1>2, <1>3

-----------------------------------------------------------------------------
(* The steps.                                                              *)

LEMMA Initial == Init => IInv
<1> SUFFICES ASSUME Init PROVE IInv
  OBVIOUS
<1>1. cache \in Seq(Conn) /\ Len(cache) = 0
  BY DEF Init
<1>2. Types
  BY <1>1 DEF Init, Types
<1>3. Holds /\ Distinct /\ Pruned /\ Count
  BY <1>1 DEF Init, Holds, Distinct, Pruned, Count
<1> QED
  BY <1>2, <1>3 DEF IInv

LEMMA CloseExpiredStep == IInv /\ CloseExpired => IInv'
<1> SUFFICES ASSUME IInv, CloseExpired PROVE IInv'
  OBVIOUS
<1> USE DEF IInv
<1>1. /\ cache \in Seq(Conn) /\ cp \in 1 .. Len(cache) /\ pc = "prune"
      /\ ~stream /\ open = Len(cache) /\ Len(cache) \in Nat
  BY DEF CloseExpired, Types, Holds, Count
<1>2. /\ cache' \in Seq(Conn) /\ Len(cache') = Len(cache) - 1
      /\ Distinct'
      /\ \A j \in 1 .. Len(cache') :
           cache'[j] = IF j < cp THEN cache[j] ELSE cache[j + 1]
  BY <1>1, CacheRemoved DEF CloseExpired
<1>3. Types'
  BY <1>1, <1>2 DEF CloseExpired, Types
<1>4. Holds'
  BY <1>1 DEF CloseExpired, Holds
<1>5. Pruned'
  BY <1>1, <1>2 DEF CloseExpired, Pruned
<1>6. Count'
  BY <1>1, <1>2 DEF CloseExpired, Count
<1> QED
  BY <1>2, <1>3, <1>4, <1>5, <1>6

LEMMA KeepFirstStep == IInv /\ KeepFirst => IInv'
<1> SUFFICES ASSUME IInv, KeepFirst PROVE IInv'
  OBVIOUS
<1> USE DEF IInv
<1>1. cache \in Seq(Conn) /\ cp \in 1 .. Len(cache) /\ cp \in Nat /\ pc = "prune"
  BY DEF KeepFirst, Types
<1>2. cache[cp] \in Conn
  BY <1>1
<1>3. cache[cp].expires \in Nat /\ cache[cp].expires > now /\ now \in Nat
  BY <1>1, <1>2 DEF KeepFirst, Expired, Types, Conn
<1>4. Types'
  BY <1>1, <1>3 DEF KeepFirst, Types
<1>5. Holds' /\ Distinct' /\ Count'
  BY DEF KeepFirst, Holds, Distinct, Count
<1>6. Pruned'
  BY <1>1, <1>3 DEF KeepFirst, Pruned
<1> QED
  BY <1>4, <1>5, <1>6

LEMMA WaitStep == IInv /\ Wait => IInv'
<1> SUFFICES ASSUME IInv, Wait PROVE IInv'
  OBVIOUS
<1> USE DEF IInv
<1>1. cache \in Seq(Conn) /\ cp \in Nat /\ cp \notin 1 .. Len(cache) /\ pc = "prune"
  BY DEF Wait, Types
<1>2. Types' /\ Distinct' /\ Count'
  BY DEF Wait, Types, Distinct, Count
<1>3. Holds'
  BY <1>1 DEF Wait, Holds
<1>4. Pruned'
  BY <1>1 DEF Wait, Pruned
<1> QED
  BY <1>2, <1>3, <1>4

LEMMA TickStep == IInv /\ Tick => IInv'
  BY DEF Tick, IInv, Types, Holds, Distinct, Pruned, Count

LEMMA ReadJobStep ==
  ASSUME NEW h \in Hosts, NEW t \in CacheTimes
  PROVE  IInv /\ ReadJob(h, t) => IInv'
  BY DEF ReadJob, IInv, Types, Holds, Distinct, Pruned, Count

LEMMA ReuseStep == IInv /\ Reuse => IInv'
<1> SUFFICES ASSUME IInv, Reuse PROVE IInv'
  OBVIOUS
<1> USE DEF IInv
<1> DEFINE i == CHOOSE i \in Cached : \A j \in Cached : i <= j
<1>1. /\ cache \in Seq(Conn) /\ Len(cache) \in Nat /\ pc = "get" /\ host \in Hosts
      /\ ~stream /\ open = Len(cache)
  BY DEF Reuse, Types, Holds, Count
<1>2. Cached \in SUBSET (1 .. Len(cache)) /\ Cached # {}
  BY <1>1 DEF Cached, Reuse
<1>3. i \in Cached
  <2>1. \A j, k \in Cached : j = k
    BY <1>1 DEF Cached, Distinct
  <2>2. PICK k \in Cached : TRUE
    BY <1>2
  <2>3. \A j \in Cached : k <= j
    BY <1>1, <1>2, <2>1, <2>2
  <2> QED
    BY <2>2, <2>3
<1>4. i \in 1 .. Len(cache) /\ cache[i].host = host
  BY <1>1, <1>3 DEF Cached
<1>5. /\ cache' \in Seq(Conn) /\ Len(cache') = Len(cache) - 1
      /\ Distinct'
      /\ \A j \in 1 .. Len(cache') :
           cache'[j] = IF j < i THEN cache[j] ELSE cache[j + 1]
  BY <1>4, CacheRemoved DEF Reuse
<1> HIDE DEF i
<1>6. Types'
  <2>0. \/ stream' = TRUE /\ UNCHANGED open
        \/ stream' = FALSE /\ open' = open - 1
    BY Zenon DEF Reuse
  <2>3. open - 1 \in Nat /\ open \in Nat
    BY <1>1, <1>4
  <2>1. open' \in Nat /\ stream' \in BOOLEAN
    BY <2>0, <2>3
  <2> QED
    BY <1>5, <2>1 DEF Reuse, Types
<1>7. Holds'
  <2>1. ASSUME NEW j \in 1 .. Len(cache') PROVE cache'[j].host # host
    <3>1. PICK k \in 1 .. Len(cache) : k # i /\ cache'[j] = cache[k]
      BY <1>1, <1>4, <1>5
    <3> QED
      BY <1>4, <3>1 DEF Distinct
  <2> QED
    BY <1>1, <2>1 DEF Reuse, Holds
<1>8. Pruned'
  BY <1>1 DEF Reuse, Pruned
<1>9. Count'
  BY <1>1, <1>5 DEF Reuse, Count
<1> QED
  BY <1>5, <1>6, <1>7, <1>8, <1>9

LEMMA MissStep == IInv /\ Miss => IInv'
<1> SUFFICES ASSUME IInv, Miss PROVE IInv'
  OBVIOUS
<1> USE DEF IInv
<1>1. \A i \in 1 .. Len(cache) : cache[i].host # host
  BY DEF Miss, Cached, Types
<1> QED
  BY <1>1 DEF Miss, Types, Holds, Distinct, Pruned, Count

LEMMA OpenStep == IInv /\ Open => IInv'
<1> SUFFICES ASSUME IInv, Open PROVE IInv'
  OBVIOUS
<1> USE DEF IInv
<1>1. cache \in Seq(Conn) /\ Len(cache) \in Nat /\ pc = "open" /\ UNCHANGED cache
  BY DEF Open, Types
<1>2. Types'
  <2>1. CASE stream /\ pc' = "mail"
            /\ UNCHANGED <<stream, open, now, a, cp, host, cacheTime>>
    BY <1>1, <2>1 DEF Open, Types
  <2>2. CASE /\ ~stream /\ stream' = TRUE /\ open' = open + 1 /\ pc' = "mail"
             /\ UNCHANGED <<now, a, cp, host, cacheTime>>
    BY <1>1, <2>2 DEF Open, Types
  <2>3. CASE ~stream /\ Round /\ UNCHANGED open
    BY <1>1, <2>3 DEF Open, Round, Types
  <2> QED
    BY <2>1, <2>2, <2>3 DEF Open
<1>3. Holds'
  BY <1>1 DEF Open, Round, Holds
<1>4. Distinct'
  BY <1>1 DEF Distinct
<1>5. Pruned'
  BY <1>1 DEF Open, Round, Pruned
<1>6. Count'
  BY <1>1 DEF Open, Round, Count, Types
<1> QED
  BY <1>2, <1>3, <1>4, <1>5, <1>6

LEMMA MailStep == IInv /\ Mail => IInv'
<1> SUFFICES ASSUME IInv, Mail PROVE IInv'
  OBVIOUS
<1> USE DEF IInv
<1>1. /\ cache \in Seq(Conn) /\ Len(cache) \in Nat /\ pc = "mail" /\ stream
      /\ host \in Hosts /\ open = Len(cache) + 1
      /\ \A i \in 1 .. Len(cache) : cache[i].host # host
  BY DEF Mail, Types, Holds, Count
<1>2. CASE /\ cacheTime >= 0
           /\ cache' = <<[host |-> host, expires |-> Expiry]>> \o cache
           /\ UNCHANGED open
  <2>1. Expiry \in Nat
    BY <1>2, ConstantsAssumption DEF Expiry, Types
  <2>2. [host |-> host, expires |-> Expiry] \in Conn
    BY <1>1, <2>1 DEF Conn
  <2>3. /\ cache' \in Seq(Conn) /\ Len(cache') = Len(cache) + 1
        /\ cache'[1].host = host
        /\ \A j \in 1 .. Len(cache) : cache'[j + 1] = cache[j]
    BY <1>1, <1>2, <2>2, Headed
  <2>4. Types'
    BY <1>1, <1>2, <2>3 DEF Mail, Round, Types
  <2>5. Distinct'
    <3>1. ASSUME NEW j \in 2 .. Len(cache') PROVE cache'[j] = cache[j - 1]
      BY <1>1, <2>3
    <3>2. ASSUME NEW j \in 2 .. Len(cache') PROVE cache'[j].host # host
      BY <1>1, <2>3, <3>1
    <3> SUFFICES ASSUME NEW j \in 1 .. Len(cache'), NEW k \in 1 .. Len(cache'),
                        cache'[j].host = cache'[k].host
                 PROVE  j = k
      BY DEF Distinct
    <3>3. CASE j = 1 \/ k = 1
      BY <1>1, <2>3, <3>2, <3>3
    <3>4. CASE j # 1 /\ k # 1
      <4>1. j - 1 \in 1 .. Len(cache) /\ k - 1 \in 1 .. Len(cache)
        BY <1>1, <2>3, <3>4
      <4>2. cache[j - 1].host = cache[k - 1].host
        BY <1>1, <2>3, <3>1, <3>4
      <4>3. j - 1 = k - 1
        BY <4>1, <4>2 DEF Distinct
      <4> QED
        BY <1>1, <2>3, <4>3
    <3> QED
      BY <3>3, <3>4
  <2>6. Pruned' /\ Holds' /\ Count'
    BY <1>1, <1>2, <2>3 DEF Mail, Round, Pruned, Holds, Count
  <2> QED
    BY <2>4, <2>5, <2>6
<1>3. CASE open' = open - 1 /\ UNCHANGED cache
  <2>0. open' \in Nat
    BY <1>1, <1>3
  <2>1. Types'
    BY <1>1, <1>3, <2>0 DEF Mail, Round, Types
  <2>2. Distinct'
    BY <1>3 DEF Distinct
  <2>3. Holds' /\ Pruned' /\ Count'
    BY <1>1, <1>3 DEF Mail, Round, Holds, Pruned, Count
  <2> QED
    BY <2>1, <2>2, <2>3
<1> QED
  BY <1>2, <1>3 DEF Mail

LEMMA Step == IInv /\ [Next]_vars => IInv'
<1> SUFFICES ASSUME IInv, [Next]_vars PROVE IInv'
  OBVIOUS
<1>1. CASE Tick
  BY <1>1, TickStep
<1>2. CASE Loop
  BY <1>2, CloseExpiredStep, KeepFirstStep, WaitStep DEF Loop
<1>3. CASE Send
  BY <1>3, ReuseStep, MissStep, OpenStep, MailStep DEF Send
<1>4. CASE \E h \in Hosts, t \in CacheTimes : ReadJob(h, t)
  BY <1>4, ReadJobStep
<1>5. CASE UNCHANGED vars
  BY <1>5 DEF vars, IInv, Types, Holds, Distinct, Pruned, Count
<1> QED
  BY <1>1, <1>2, <1>3, <1>4, <1>5 DEF Next

-----------------------------------------------------------------------------
(* The theorems.                                                           *)

\* The invariant holds in every state the sender can be in.
THEOREM Invariance == Spec => []IInv
<1>1. Init => IInv
  BY Initial
<1>2. IInv /\ [Next]_vars => IInv'
  BY Step
<1> QED
  BY <1>1, <1>2, PTL DEF Spec

\* The sender's variables have their types.
THEOREM TypeCorrect == Spec => []TypeOK
<1>1. IInv => TypeOK
  BY DEF IInv, Types, TypeOK, Conn
<1> QED
  BY <1>1, Invariance, PTL

\* Of two connections to one host one is always closed: the connection a job
\* works with was taken from the cache, or there was none.
THEOREM OneConnectionPerHost == Spec => []OnePerHost
<1>1. IInv => OnePerHost
  BY DEF IInv, Types, Holds, Distinct, OnePerHost
<1> QED
  BY <1>1, Invariance, PTL

\* No connection is forgotten, whatever fails and in which order.
THEOREM NoConnectionLeaks == Spec => []NoneLeaks
<1>1. IInv => NoneLeaks
  BY DEF IInv, Count, NoneLeaks
<1> QED
  BY <1>1, Invariance, PTL

\* When the sender waits for the next job no connection is open that had expired
\* when it last looked.
THEOREM ExpiredAreClosed == Spec => []ExpiredClosed
<1>1. IInv => ExpiredClosed
  BY DEF IInv, Types, Pruned, ExpiredClosed
<1> QED
  BY <1>1, Invariance, PTL

=============================================================================
