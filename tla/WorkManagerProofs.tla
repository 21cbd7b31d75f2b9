-------------------------- MODULE WorkManagerProofs --------------------------
(***************************************************************************)
(* Safety of the query scheduler for every number of peers, workers,       *)
(* batches and queries.  WorkInv is the inductive invariant; what Result   *)
(* does in its many cases is summed up once, in ResultDoes.                *)
(***************************************************************************)
EXTENDS WorkManager, FiniteSetTheorems, WellFoundedInduction, TLAPS

Live(w) == at[w] \in {"waiting", "working", "reporting"}
Busy(w) == at[w] \in {"working", "reporting"}
OfBatch(b) == {q \in Query : BatchOf(q) = b}
Left(b) == {q \in OfBatch(b) : q \notin done}

\* A batch under way has retries left for each of its queries.
TriesInv == \A q \in Query :
  /\ BatchOf(q) \in open /\ BatchOf(q) \notin Unlimited => tries[q] < NumRetries
  /\ BatchOf(q) \notin asked => tries[q] = 0

\* Nothing is known of a batch before its caller asks.
AskedInv ==
  /\ open \subseteq asked
  /\ \A b \in Batch : b \notin asked => errChan[b] = <<>>
  /\ \A q \in Query : BatchOf(q) \notin asked => q \notin done /\ q \notin work
  /\ \A w \in Worker : Busy(w) => BatchOf(job[w]) \in asked

\* batchProgress.rem counts the queries without an answer.
CountInv == \A b \in open : rem[b] = Cardinality(Left(b))

\* A query is in one place.
PlaceInv ==
  /\ \A w \in Worker : Busy(w) => job[w] \in Query /\ job[w] \notin done /\ job[w] \notin work
  /\ \A v, w \in Worker : Busy(v) /\ Busy(w) /\ job[v] = job[w] => v = w
  /\ \A q \in work : q \notin done

CurrentInv == \A q \in Query : BatchOf(q) \in open => (q \in current <=> q \notin done)

\* A query of a batch under way is in some place.
CoverInv == pc \in {"top", "offer"} /\ ~quit =>
  \A q \in Query : BatchOf(q) \in open =>
    q \in done \/ q \in work \/ \E w \in Worker : Busy(w) /\ job[w] = q

\* A job is offered only while there is one, and to workers that are known.
OfferInv ==
  /\ pc = "offer" /\ offers # <<>> => work # {}
  /\ \A i \in 1..Len(offers) : workers[offers[i]] # 0
  /\ \A i, j \in 1..Len(offers) : offers[i] = offers[j] => i = j

AddrInv == \A w \in Worker : at[w] # "unborn" => addr[w] \in Peer

\* An address that waits for its old worker keeps that worker's slot.
SlotInv == ~Reconnect =>
  /\ pc # "panic"
  /\ \A w \in Worker : Live(w) => workers[addr[w]] = w
  /\ \A w \in Worker : Busy(w) => active[w] = job[w]

WorkInv ==
  /\ WorkTypeOK /\ TriesInv /\ AskedInv /\ OneAnswer /\ OkMeansAnswered /\ CountInv
  /\ PlaceInv /\ CurrentInv /\ CoverInv /\ OfferInv /\ AddrInv /\ SlotInv

-----------------------------------------------------------------------------
(* Numbering of the queries                                                  *)

\* Size-times a number is Size-times another: the product decides the order.
LEMMA TimesSize ==
  ASSUME NEW a \in Nat, NEW b \in Nat
  PROVE  /\ a * Size \in Nat
         /\ a < b => a * Size + Size <= b * Size
         /\ a <= b => a * Size <= b * Size
BY WorkAssumption, SMT

LEMMA DivBounds ==
  ASSUME NEW n \in Nat
  PROVE  /\ n \div Size \in Nat
         /\ (n \div Size) * Size <= n
         /\ n < (n \div Size) * Size + Size
BY WorkAssumption, SMT

LEMMA DivUnique ==
  ASSUME NEW n \in Nat, NEW k \in Nat, k * Size <= n, n < k * Size + Size
  PROVE  n \div Size = k
BY WorkAssumption, SMT

\* Every query belongs to a batch.
LEMMA BatchOfQuery ==
  ASSUME NEW q \in Query
  PROVE  BatchOf(q) \in Batch
<1> DEFINE k == (q - 1) \div Size
<1>1. Batches * Size \in Nat /\ Batches \in Nat
  BY TimesSize, WorkAssumption
<1>2. q - 1 \in Nat /\ q - 1 < Batches * Size
  BY <1>1 DEF Query
<1>3. k \in Nat /\ k * Size <= q - 1
  BY <1>2, DivBounds
<1>4. k * Size < Batches * Size
  BY <1>1, <1>2, <1>3, TimesSize
<1>5. k < Batches
  <2>1. ~(Batches <= k)
    BY <1>1, <1>3, <1>4, TimesSize
  <2> QED
    BY <2>1, <1>1, <1>3
<1> QED
  BY <1>1, <1>3, <1>5 DEF BatchOf, Batch

\* The queries of a batch are Size consecutive numbers.
LEMMA BatchInterval ==
  ASSUME NEW b \in Batch
  PROVE  /\ OfBatch(b) = ((b - 1) * Size + 1)..((b - 1) * Size + Size)
         /\ IsFiniteSet(OfBatch(b))
         /\ Cardinality(OfBatch(b)) = Size
<1> DEFINE k == b - 1
           m == k * Size
<1>1. k \in Nat /\ k < Batches /\ Batches \in Nat /\ Size \in Nat \ {0} /\ b = k + 1
  BY WorkAssumption DEF Batch
<1>2. m \in Nat /\ m + Size <= Batches * Size /\ Batches * Size \in Nat
  BY <1>1, TimesSize
<1>3. ASSUME NEW q \in Query, BatchOf(q) = b
      PROVE  q \in (m + 1)..(m + Size)
  <2>1. q - 1 \in Nat /\ q \in Nat
    BY <1>2 DEF Query
  <2>2. (q - 1) \div Size = k
    BY <1>1, <1>3, <2>1, DivBounds DEF BatchOf
  <2>3. m <= q - 1 /\ q - 1 < m + Size
    BY <2>1, <2>2, DivBounds
  <2> QED
    BY <2>1, <2>3, <1>1, <1>2
<1>4. ASSUME NEW q \in (m + 1)..(m + Size)
      PROVE  q \in Query /\ BatchOf(q) = b
  <2>1. q \in Nat /\ q - 1 \in Nat /\ m <= q - 1 /\ q - 1 < m + Size /\ q \in Query
    BY <1>1, <1>2 DEF Query
  <2>2. (q - 1) \div Size = k
    BY <1>1, <2>1, DivUnique
  <2> QED
    BY <1>1, <2>1, <2>2 DEF BatchOf
<1>5. OfBatch(b) = (m + 1)..(m + Size)
  BY <1>3, <1>4 DEF OfBatch
<1>6. IsFiniteSet((m + 1)..(m + Size)) /\ Cardinality((m + 1)..(m + Size)) = Size
  <2>1. m + 1 \in Int /\ m + Size \in Int /\ ~(m + 1 > m + Size) /\ (m + Size) - (m + 1) + 1 = Size
    BY <1>1, <1>2
  <2> QED
    BY <2>1, FS_Interval
<1> QED
  BY <1>5, <1>6

\* The queries without an answer, when one more is answered.
LEMMA LeftFacts ==
  ASSUME NEW b \in Batch
  PROVE  /\ IsFiniteSet(Left(b)) /\ Cardinality(Left(b)) \in Nat
         /\ Cardinality(Left(b)) <= Size
         /\ \A q \in Left(b) : /\ Cardinality(Left(b)) >= 1
                               /\ Cardinality(Left(b) \ {q}) = Cardinality(Left(b)) - 1
         /\ Cardinality(Left(b)) = 1 => \A q, r \in Left(b) : q = r
<1>1. IsFiniteSet(OfBatch(b)) /\ Cardinality(OfBatch(b)) = Size
  BY BatchInterval
<1>2. Left(b) \in SUBSET OfBatch(b)
  BY DEF Left
<1>3. IsFiniteSet(Left(b)) /\ Cardinality(Left(b)) <= Size
  BY <1>1, <1>2, FS_Subset
<1>4. Cardinality(Left(b)) \in Nat
  BY <1>3, FS_CardinalityType
<1>5. ASSUME NEW q \in Left(b)
      PROVE  Cardinality(Left(b) \ {q}) = Cardinality(Left(b)) - 1 /\ Cardinality(Left(b)) >= 1
  <2>1. Cardinality(Left(b)) # 0
    BY <1>3, FS_EmptySet
  <2>2. Cardinality(Left(b) \ {q}) = Cardinality(Left(b)) - 1
    BY <1>3, FS_RemoveElement
  <2> QED
    BY <2>1, <2>2, <1>4
<1>6. Cardinality(Left(b)) = 1 => \A q, r \in Left(b) : q = r
  <2>1. Cardinality(Left(b)) = 1 => \E x : Left(b) = {x}
    BY <1>3, FS_Singleton
  <2> QED
    BY <2>1
<1> QED
  BY <1>3, <1>4, <1>5, <1>6

-----------------------------------------------------------------------------
(* The dispatcher's helpers                                                  *)

\* The heap gives out a query that is in it.
LEMMA PeekQueued ==
  ASSUME work \subseteq Query, work # {}
  PROVE  Peek \in work
<1> DEFINE R == OpToRel(<, Nat)
<1>1. work \in SUBSET Nat
  <2>1. Batches * Size \in Nat
    BY TimesSize, WorkAssumption
  <2> QED
    BY <2>1 DEF Query
<1>2. PICK x \in work : \A y \in work : <<y, x>> \notin R
  BY <1>1, NatLessThanWellFounded, WFMin, Zenon
<1>3. \A y \in work : x <= y
  <2>1. \A y \in work : y \in Nat /\ x \in Nat /\ ~(y < x)
    BY <1>1, <1>2 DEF OpToRel
  <2> QED
    BY <2>1
<1> QED
  BY <1>3 DEF Peek

\* Order only rearranges the peers it is given.
LEMMA OrderKeeps ==
  ASSUME NEW S, S \subseteq Peer, NEW s \in Ordered(S)
  PROVE  /\ s \in Seq(Peer)
         /\ \A i \in 1..Len(s) : s[i] \in S
         /\ \A i, j \in 1..Len(s) : s[i] = s[j] => i = j
<1> DEFINE n == Cardinality(S)
<1>1. n \in Nat
  BY WorkAssumption, FS_Subset, FS_CardinalityType
<1>2. s \in [1..n -> S] /\ \A i, j \in 1..n : i # j => s[i] # s[j]
  BY DEF Ordered, SetToSeqs
<1>3. s \in Seq(Peer) /\ Len(s) = n
  BY <1>1, <1>2
<1> QED
  BY <1>2, <1>3

-----------------------------------------------------------------------------
(* The invariant holds at first and every step keeps it                      *)

LEMMA InitWork ==
  ASSUME Init
  PROVE  WorkInv
<1>1. WorkTypeOK
  <2>1. 0 \in 0..NumRetries /\ 0 \in 0..Size /\ <<>> \in Seq(Reply) /\ "ok" \in Reply
        /\ <<>> \in Seq(Peer) /\ FALSE \in BOOLEAN
    BY WorkAssumption DEF Reply
  <2> QED
    BY <2>1 DEF Init, WorkTypeOK
<1>2. TriesInv /\ AskedInv /\ OneAnswer /\ OkMeansAnswered /\ CountInv
  BY WorkAssumption DEF Init, TriesInv, AskedInv, OneAnswer, OkMeansAnswered, CountInv, Busy
<1>3. PlaceInv /\ CurrentInv /\ CoverInv /\ OfferInv /\ AddrInv /\ SlotInv
  BY DEF Init, PlaceInv, CurrentInv, CoverInv, OfferInv, AddrInv, SlotInv, Busy, Live
<1> QED
  BY <1>1, <1>2, <1>3 DEF WorkInv

\* The parts of the invariant that look at queries and batches alone.
JobVars == <<work, tries, current, open, rem, asked, errChan, done>>

\* Top: the workers to be offered a job are known ones, each named once.
LEMMA TopKeeps ==
  ASSUME WorkInv, Top
  PROVE  WorkInv'
<1>0. WorkTypeOK /\ TriesInv /\ AskedInv /\ OneAnswer /\ OkMeansAnswered /\ CountInv
      /\ PlaceInv /\ CurrentInv /\ CoverInv /\ OfferInv /\ AddrInv /\ SlotInv
  BY DEF WorkInv
<1>u. /\ pc = "top" /\ pc' = "offer" /\ UNCHANGED <<quit, workers>>
      /\ UNCHANGED JobVars /\ UNCHANGED <<late, cancelled, stopped>>
      /\ UNCHANGED <<active, rank>> /\ UNCHANGED <<addr, up, at, job, err>>
  BY DEF Top, batchVars, queueVars, rosterVars, workerVars, JobVars
<1>1. /\ offers' \in Seq(Peer)
      /\ \A i \in 1..Len(offers') : workers[offers'[i]] # 0
      /\ \A i, j \in 1..Len(offers') : offers'[i] = offers'[j] => i = j
      /\ work = {} => offers' = <<>>
  <2>1. CASE work = {}
    <3>1. offers' = <<>>
      BY <2>1 DEF Top
    <3> QED
      BY <3>1
  <2>2. CASE work # {}
    <3>1. offers' \in Ordered(Free) /\ Free \subseteq Peer
      BY <2>2 DEF Top, Free
    <3>2. /\ offers' \in Seq(Peer)
          /\ \A i \in 1..Len(offers') : offers'[i] \in Free
          /\ \A i, j \in 1..Len(offers') : offers'[i] = offers'[j] => i = j
      BY <3>1, OrderKeeps
    <3> QED
      BY <3>2, <2>2 DEF Free
  <2> QED
    BY <2>1, <2>2
<1>2. WorkTypeOK'
  BY <1>0, <1>u, <1>1 DEF WorkTypeOK, JobVars
<1>3. TriesInv' /\ AskedInv' /\ OneAnswer' /\ OkMeansAnswered' /\ CountInv'
  BY <1>0, <1>u DEF TriesInv, AskedInv, OneAnswer, OkMeansAnswered, CountInv, Busy, Left, JobVars
<1>4. PlaceInv' /\ CurrentInv' /\ CoverInv' /\ AddrInv' /\ SlotInv'
  BY <1>0, <1>u DEF PlaceInv, CurrentInv, CoverInv, AddrInv, SlotInv, Busy, Live, JobVars
<1>5. OfferInv'
  BY <1>u, <1>1 DEF OfferInv, JobVars
<1> QED
  BY <1>2, <1>3, <1>4, <1>5 DEF WorkInv

\* HandOver: the job moves from the queue to the worker, and its slot says so.
LEMMA HandOverKeeps ==
  ASSUME WorkInv, HandOver
  PROVE  WorkInv'
<1> DEFINE w == workers[Head(offers)]
<1>0. WorkTypeOK /\ TriesInv /\ AskedInv /\ OneAnswer /\ OkMeansAnswered /\ CountInv
      /\ PlaceInv /\ CurrentInv /\ CoverInv /\ OfferInv /\ AddrInv /\ SlotInv
  BY DEF WorkInv
<1>1. /\ pc = "offer" /\ offers # <<>> /\ at[w] = "waiting"
      /\ at' = [at EXCEPT ![w] = "working"] /\ job' = [job EXCEPT ![w] = Peek]
      /\ active' = [active EXCEPT ![w] = Peek]
      /\ work' = work \ {Peek} /\ pc' = "top" /\ offers' = <<>>
      /\ UNCHANGED <<open, rem, late, cancelled, stopped, asked, errChan>>
      /\ UNCHANGED <<tries, current, workers, rank, addr, up, err, quit, done>>
  BY DEF HandOver, batchVars
<1>2. w \in Worker /\ Head(offers) \in Peer
  BY <1>0, <1>1 DEF WorkTypeOK, OfferInv
<1>3. Peek \in work /\ Peek \in Query
  BY <1>0, <1>1, PeekQueued DEF WorkTypeOK, OfferInv
<1>4. WorkTypeOK'
  BY <1>0, <1>1, <1>2, <1>3 DEF WorkTypeOK
<1>5. \A v \in Worker : /\ v # w => at'[v] = at[v] /\ job'[v] = job[v] /\ active'[v] = active[v]
                        /\ v = w => at'[v] = "working" /\ job'[v] = Peek /\ active'[v] = Peek
  BY <1>0, <1>1, <1>2 DEF WorkTypeOK
<1>6. TriesInv' /\ OneAnswer' /\ OkMeansAnswered' /\ CountInv' /\ CurrentInv'
  BY <1>0, <1>1 DEF TriesInv, OneAnswer, OkMeansAnswered, CountInv, Left, CurrentInv
<1>7. AskedInv'
  BY <1>0, <1>1, <1>3, <1>5 DEF AskedInv, Busy
<1>8. PlaceInv'
  BY <1>0, <1>1, <1>2, <1>3, <1>5 DEF PlaceInv, Busy
<1>9. CoverInv'
  BY <1>0, <1>1, <1>2, <1>3, <1>5 DEF CoverInv, Busy
<1>10. OfferInv' /\ AddrInv'
  BY <1>0, <1>1, <1>2, <1>5 DEF OfferInv, AddrInv
<1>11. SlotInv'
  BY <1>0, <1>1, <1>2, <1>5 DEF SlotInv, Busy, Live
<1> QED
  BY <1>4, <1>6, <1>7, <1>8, <1>9, <1>10, <1>11 DEF WorkInv

\* Forget: only a worker that has exited loses its slot.
LEMMA ForgetKeeps ==
  ASSUME WorkInv, Forget
  PROVE  WorkInv'
<1> DEFINE p == Head(offers)
<1>0. WorkTypeOK /\ TriesInv /\ AskedInv /\ OneAnswer /\ OkMeansAnswered /\ CountInv
      /\ PlaceInv /\ CurrentInv /\ CoverInv /\ OfferInv /\ AddrInv /\ SlotInv
  BY DEF WorkInv
<1>1. /\ pc = "offer" /\ offers # <<>> /\ at[workers[p]] = "exited"
      /\ workers' = [workers EXCEPT ![p] = 0] /\ offers' = Tail(offers)
      /\ UNCHANGED JobVars /\ UNCHANGED <<late, cancelled, stopped>>
      /\ UNCHANGED <<active, rank, pc, quit>> /\ UNCHANGED <<addr, up, at, job, err>>
  BY DEF Forget, batchVars, queueVars, workerVars, JobVars
<1>2. /\ p \in Peer /\ p = offers[1] /\ offers \in Seq(Peer) /\ Len(offers) \in Nat \ {0}
      /\ workers[p] \in Worker
  BY <1>0, <1>1 DEF WorkTypeOK, OfferInv
<1>3. /\ Tail(offers) \in Seq(Peer) /\ Len(Tail(offers)) = Len(offers) - 1
      /\ \A i \in 1..Len(Tail(offers)) :
           Tail(offers)[i] = offers[i + 1] /\ i + 1 \in 1..Len(offers) /\ i + 1 # 1
  BY <1>1, <1>2
<1>4. WorkTypeOK'
  BY <1>0, <1>1, <1>2, <1>3 DEF WorkTypeOK, JobVars
<1>5. TriesInv' /\ AskedInv' /\ OneAnswer' /\ OkMeansAnswered' /\ CountInv'
  BY <1>0, <1>1 DEF TriesInv, AskedInv, OneAnswer, OkMeansAnswered, CountInv, Busy, Left, JobVars
<1>6. PlaceInv' /\ CurrentInv' /\ CoverInv' /\ AddrInv'
  BY <1>0, <1>1 DEF PlaceInv, CurrentInv, CoverInv, AddrInv, Busy, JobVars
<1>7. OfferInv'
  <2>1. work' # {}
    BY <1>0, <1>1 DEF OfferInv, JobVars
  <2>2. ASSUME NEW i \in 1..Len(Tail(offers))
        PROVE  workers'[Tail(offers)[i]] # 0
    <3>1. offers[i + 1] # p /\ offers[i + 1] \in Peer /\ workers[offers[i + 1]] # 0
      BY <1>0, <1>2, <1>3 DEF OfferInv
    <3> QED
      BY <3>1, <1>0, <1>1, <1>3 DEF WorkTypeOK
  <2>3. ASSUME NEW i \in 1..Len(Tail(offers)), NEW j \in 1..Len(Tail(offers)),
               Tail(offers)[i] = Tail(offers)[j]
        PROVE  i = j
    <3>1. i + 1 = j + 1
      BY <2>3, <1>0, <1>3 DEF OfferInv
    <3> QED
      BY <3>1, <1>2, <1>3
  <2> QED
    BY <2>1, <2>2, <2>3, <1>1 DEF OfferInv
<1>8. SlotInv'
  BY <1>0, <1>1, <1>2 DEF SlotInv, Busy, Live, AddrInv, WorkTypeOK
<1> QED
  BY <1>4, <1>5, <1>6, <1>7, <1>8 DEF WorkInv

\* Connect: the new worker's address has no live worker unless addresses may
\* reconnect early.
LEMMA ConnectKeeps ==
  ASSUME WorkInv, NEW p \in Peer, Connect(p)
  PROVE  WorkInv'
<1>0. WorkTypeOK /\ TriesInv /\ AskedInv /\ OneAnswer /\ OkMeansAnswered /\ CountInv
      /\ PlaceInv /\ CurrentInv /\ CoverInv /\ OfferInv /\ AddrInv /\ SlotInv
  BY DEF WorkInv
<1>1. PICK w \in Worker :
       /\ at[w] = "unborn" /\ \A v \in Worker : v < w => at[v] # "unborn"
       /\ workers' = [workers EXCEPT ![p] = w]
       /\ addr' = [addr EXCEPT ![w] = p] /\ up' = up \cup {w}
       /\ at' = [at EXCEPT ![w] = "waiting"]
  BY DEF Connect
<1>2. /\ pc = "offer" /\ pc' = "top" /\ offers = <<>> /\ offers' = <<>>
      /\ rank' = [rank EXCEPT ![p] = IF @ = None THEN DefaultScore ELSE @]
      /\ \A v \in Worker : addr[v] = p => (~Reconnect => at[v] = "exited")
      /\ UNCHANGED JobVars /\ UNCHANGED <<late, cancelled, stopped>>
      /\ UNCHANGED <<active, job, err, quit>>
  BY DEF Connect, Selecting, batchVars, queueVars, JobVars
<1>3. DefaultScore \in 0..WorstScore
  BY WorkAssumption DEF DefaultScore
<1>4. WorkTypeOK'
  BY <1>0, <1>1, <1>2, <1>3 DEF WorkTypeOK, JobVars
<1>5. \A v \in Worker : /\ v # w => at'[v] = at[v] /\ addr'[v] = addr[v]
                        /\ v = w => at'[v] = "waiting" /\ addr'[v] = p
  BY <1>0, <1>1 DEF WorkTypeOK
<1>6. TriesInv' /\ AskedInv' /\ OneAnswer' /\ OkMeansAnswered' /\ CountInv'
  BY <1>0, <1>1, <1>2, <1>5 DEF TriesInv, AskedInv, OneAnswer, OkMeansAnswered, CountInv, Busy, Left, JobVars
<1>7. PlaceInv' /\ CurrentInv'
  BY <1>0, <1>1, <1>2, <1>5 DEF PlaceInv, CurrentInv, Busy, JobVars
<1>8. CoverInv'
  BY <1>0, <1>1, <1>2, <1>5 DEF CoverInv, Busy, JobVars
<1>9. OfferInv' /\ AddrInv'
  BY <1>0, <1>1, <1>2, <1>5 DEF OfferInv, AddrInv
<1>10. SlotInv'
  BY <1>0, <1>1, <1>2, <1>5 DEF SlotInv, Busy, Live, AddrInv, WorkTypeOK
<1> QED
  BY <1>4, <1>6, <1>7, <1>8, <1>9, <1>10 DEF WorkInv

\* NewBatch: a new batch has all its queries to be answered and none elsewhere.
LEMMA NewBatchKeeps ==
  ASSUME WorkInv, NEW b \in Batch, NewBatch(b)
  PROVE  WorkInv'
<1>0. WorkTypeOK /\ TriesInv /\ AskedInv /\ OneAnswer /\ OkMeansAnswered /\ CountInv
      /\ PlaceInv /\ CurrentInv /\ CoverInv /\ OfferInv /\ AddrInv /\ SlotInv
  BY DEF WorkInv
<1>1. /\ b \notin asked /\ asked' = asked \cup {b}
      /\ UNCHANGED <<late, cancelled, stopped, tries, workers, active, rank>>
      /\ UNCHANGED <<addr, up, at, job, err>> /\ UNCHANGED <<offers, quit, done>>
      /\ errChan[b] = <<>> /\ b \notin open /\ WorkAssumption
  BY <1>0, WorkAssumption DEF NewBatch, rosterVars, workerVars, AskedInv
<1>2. CASE quit /\ errChan' = [errChan EXCEPT ![b] = Append(@, "shutdown")]
           /\ UNCHANGED <<work, current, open, rem, pc>>
  <2>1. errChan' \in [Batch -> Seq(Reply)] /\ errChan'[b] = <<"shutdown">>
        /\ \A c \in Batch : c # b => errChan'[c] = errChan[c]
    BY <1>0, <1>1, <1>2 DEF WorkTypeOK, Reply
  <2>2. WorkTypeOK'
    BY <1>0, <1>1, <1>2, <2>1 DEF WorkTypeOK
  <2>3. TriesInv' /\ AskedInv' /\ OneAnswer' /\ OkMeansAnswered' /\ CountInv'
    <3>1. TriesInv'
      BY <1>0, <1>1, <1>2, <2>1 DEF TriesInv
    <3>2. AskedInv'
      BY <1>0, <1>1, <1>2, <2>1 DEF AskedInv, Busy
    <3>3. OneAnswer' /\ OkMeansAnswered'
      <4>1. <<"shutdown">> # <<"ok">> /\ Len(<<"shutdown">>) = 1
        OBVIOUS
      <4> QED
        BY <4>1, <1>0, <1>1, <1>2, <2>1 DEF OneAnswer, OkMeansAnswered
    <3>4. CountInv'
      BY <1>0, <1>1, <1>2 DEF CountInv, Left
    <3> QED
      BY <3>1, <3>2, <3>3, <3>4
  <2>4. PlaceInv' /\ CurrentInv' /\ CoverInv' /\ OfferInv' /\ AddrInv' /\ SlotInv'
    BY <1>0, <1>1, <1>2 DEF PlaceInv, CurrentInv, CoverInv, OfferInv, AddrInv, SlotInv, Busy, Live
  <2> QED
    BY <2>2, <2>3, <2>4 DEF WorkInv
<1>3. CASE /\ Selecting /\ work' = work \cup OfBatch(b) /\ current' = current \cup OfBatch(b)
           /\ open' = open \cup {b} /\ rem' = [rem EXCEPT ![b] = Size] /\ pc' = "top"
           /\ UNCHANGED errChan
  <2>1. OfBatch(b) \subseteq Query /\ \A q \in Query : q \in OfBatch(b) <=> BatchOf(q) = b
    BY DEF OfBatch
  <2>2. pc = "offer" /\ offers = <<>>
    BY <1>3 DEF Selecting
  <2>3. WorkTypeOK'
    BY <1>0, <1>1, <1>3, <2>1 DEF WorkTypeOK
  <2>4. TriesInv' /\ AskedInv' /\ OneAnswer' /\ OkMeansAnswered'
    <3>1. TriesInv'
      BY <1>0, <1>1, <1>3 DEF TriesInv
    <3>2. AskedInv'
      BY <1>0, <1>1, <1>3, <2>1 DEF AskedInv, Busy
    <3>3. OneAnswer' /\ OkMeansAnswered'
      BY <1>0, <1>1, <1>3 DEF OneAnswer, OkMeansAnswered
    <3> QED
      BY <3>1, <3>2, <3>3
  <2>5. CountInv'
    <3>1. Left(b)' = OfBatch(b)
      BY <1>0, <1>1 DEF Left, AskedInv, OfBatch
    <3>2. rem'[b] = Cardinality(Left(b)')
      BY <1>0, <1>3, <3>1, BatchInterval DEF WorkTypeOK
    <3>3. \A c \in open : rem'[c] = rem[c] /\ Left(c)' = Left(c)
      BY <1>0, <1>1, <1>3 DEF WorkTypeOK, Left
    <3> QED
      BY <1>0, <1>3, <3>2, <3>3 DEF CountInv
  <2>6. PlaceInv'
    BY <1>0, <1>1, <1>3, <2>1 DEF PlaceInv, Busy, AskedInv
  <2>7. CurrentInv'
    BY <1>0, <1>1, <1>3, <2>1 DEF CurrentInv, AskedInv
  <2>8. CoverInv'
    BY <1>0, <1>1, <1>3, <2>1, <2>2 DEF CoverInv, Busy
  <2>9. OfferInv' /\ AddrInv' /\ SlotInv'
    BY <1>0, <1>1, <1>3, <2>2 DEF OfferInv, AddrInv, SlotInv, Busy, Live
  <2> QED
    BY <2>3, <2>4, <2>5, <2>6, <2>7, <2>8, <2>9 DEF WorkInv
<1> QED
  BY <1>2, <1>3 DEF NewBatch, OfBatch

\* Shutdown: each batch under way gets its one answer.
LEMMA ShutdownKeeps ==
  ASSUME WorkInv, Shutdown
  PROVE  WorkInv'
<1>0. WorkTypeOK /\ TriesInv /\ AskedInv /\ OneAnswer /\ OkMeansAnswered /\ CountInv
      /\ PlaceInv /\ CurrentInv /\ CoverInv /\ OfferInv /\ AddrInv /\ SlotInv
  BY DEF WorkInv
<1>1. /\ pc' = "returned" /\ open' = {}
      /\ UNCHANGED <<rem, late, cancelled, stopped, asked, work, tries, current>>
      /\ UNCHANGED <<workers, active, rank, addr, up, at, job, err>>
      /\ UNCHANGED <<offers, quit, done>>
  BY DEF Shutdown, queueVars, rosterVars, workerVars
<1>2. \A b \in Batch : /\ b \in open => errChan'[b] = <<"shutdown">>
                       /\ b \notin open => errChan'[b] = errChan[b]
  <2>1. Append(<<>>, "shutdown") = <<"shutdown">>
    OBVIOUS
  <2>2. \A b \in open : errChan[b] = <<>> /\ b \in Batch
    BY <1>0 DEF OneAnswer, WorkTypeOK
  <2>3. \A b \in Batch : errChan'[b] = IF b \in open THEN Append(errChan[b], "shutdown")
                                       ELSE errChan[b]
    BY DEF Shutdown
  <2> QED
    BY <2>1, <2>2, <2>3
<1>3. errChan' \in [Batch -> Seq(Reply)]
  BY <1>0 DEF Shutdown, WorkTypeOK, Reply
<1>4. WorkTypeOK'
  BY <1>0, <1>1, <1>3 DEF WorkTypeOK
<1>5. TriesInv' /\ AskedInv' /\ CountInv'
  BY <1>0, <1>1, <1>2 DEF TriesInv, AskedInv, CountInv, Busy
<1>6. OneAnswer' /\ OkMeansAnswered'
  <2>1. <<"shutdown">> # <<"ok">> /\ Len(<<"shutdown">>) = 1
    OBVIOUS
  <2>2. ASSUME NEW b \in Batch
        PROVE  Len(errChan'[b]) <= 1
    <3>1. CASE b \in open
      <4>1. errChan'[b] = <<"shutdown">>
        BY <1>2, <3>1
      <4> QED
        BY <2>1, <4>1
    <3>2. CASE b \notin open
      BY <1>0, <1>2, <3>2 DEF OneAnswer
    <3> QED
      BY <3>1, <3>2
  <2>3. \A b \in Batch : errChan'[b] = <<"ok">> => errChan[b] = <<"ok">>
    BY <2>1, <1>2
  <2> QED
    BY <2>2, <2>3, <1>0, <1>1 DEF OneAnswer, OkMeansAnswered
<1>7. PlaceInv' /\ CurrentInv' /\ CoverInv' /\ OfferInv' /\ AddrInv' /\ SlotInv'
  BY <1>0, <1>1 DEF PlaceInv, CurrentInv, CoverInv, OfferInv, AddrInv, SlotInv, Busy, Live
<1> QED
  BY <1>4, <1>5, <1>6, <1>7 DEF WorkInv

\* Run: a worker keeps the job it has until it reports or, on quit, exits.
LEMMA RunKeeps ==
  ASSUME WorkInv, NEW w \in Worker, Run(w)
  PROVE  WorkInv'
<1>0. WorkTypeOK /\ TriesInv /\ AskedInv /\ OneAnswer /\ OkMeansAnswered /\ CountInv
      /\ PlaceInv /\ CurrentInv /\ CoverInv /\ OfferInv /\ AddrInv /\ SlotInv
  BY DEF WorkInv
<1>1. /\ UNCHANGED JobVars /\ UNCHANGED <<late, cancelled, stopped>>
      /\ UNCHANGED <<workers, active, rank>> /\ UNCHANGED <<offers, pc, quit>>
      /\ UNCHANGED <<addr, up, job>>
  BY DEF Run, Work, Exit, Report, batchVars, queueVars, rosterVars, JobVars
<1>2. \/ /\ at[w] = "working" /\ at' = [at EXCEPT ![w] = "reporting"]
         /\ \E e \in Reply : err' = [err EXCEPT ![w] = e]
      \/ /\ at[w] = "waiting" \/ (Live(w) /\ quit)
         /\ at' = [at EXCEPT ![w] = "exited"] /\ err' = err
  BY DEF Run, Work, Exit, Report, Live, Reply
<1>3. WorkTypeOK'
  BY <1>0, <1>1, <1>2 DEF WorkTypeOK, JobVars
<1>4. /\ \A v \in Worker : v # w => at'[v] = at[v]
      /\ Live(w) /\ at'[w] \in {"reporting", "exited"}
      /\ at'[w] = "reporting" => Busy(w)
      /\ Busy(w) /\ ~quit => at'[w] = "reporting"
  BY <1>0, <1>2 DEF WorkTypeOK, Busy, Live
<1>5. \A v \in Worker : /\ Busy(v)' => Busy(v)
                        /\ Live(v)' => Live(v)
                        /\ Busy(v) /\ ~quit => Busy(v)'
                        /\ at'[v] # "unborn" => at[v] # "unborn"
  BY <1>4 DEF Busy, Live
<1>6. TriesInv' /\ AskedInv' /\ OneAnswer' /\ OkMeansAnswered' /\ CountInv'
  BY <1>0, <1>1, <1>5 DEF TriesInv, AskedInv, OneAnswer, OkMeansAnswered, CountInv, Left, JobVars
<1>7. PlaceInv' /\ CurrentInv'
  BY <1>0, <1>1, <1>5 DEF PlaceInv, CurrentInv, JobVars
<1>8. CoverInv'
  BY <1>0, <1>1, <1>5 DEF CoverInv, JobVars
<1>9. OfferInv' /\ AddrInv' /\ SlotInv'
  BY <1>0, <1>1, <1>5 DEF OfferInv, AddrInv, SlotInv, JobVars
<1> QED
  BY <1>3, <1>6, <1>7, <1>8, <1>9 DEF WorkInv

\* Disconnect, Timer, Cancel and Stop touch nothing the other parts look at.
LEMMA OutsideKeeps ==
  ASSUME WorkInv,
         \/ \E w \in Worker : Disconnect(w)
         \/ \E b \in Batch : Timer(b) \/ Cancel(b)
         \/ Stop \/ UNCHANGED vars
  PROVE  WorkInv'
<1>0. WorkTypeOK /\ TriesInv /\ AskedInv /\ OneAnswer /\ OkMeansAnswered /\ CountInv
      /\ PlaceInv /\ CurrentInv /\ CoverInv /\ OfferInv /\ AddrInv /\ SlotInv
  BY DEF WorkInv
<1>1. /\ UNCHANGED JobVars /\ UNCHANGED <<workers, active, rank>>
      /\ UNCHANGED <<offers, pc, addr, at, job, err>>
      /\ UNCHANGED stopped /\ (quit' = quit \/ quit' = TRUE)
  BY DEF Disconnect, Timer, Cancel, Stop, vars, batchVars, queueVars, rosterVars, workerVars, JobVars
<1>2. up' \subseteq Worker /\ late' \subseteq Batch /\ cancelled' \subseteq Batch
  BY <1>0 DEF Disconnect, Timer, Cancel, Stop, vars, batchVars, workerVars, WorkTypeOK
<1>3. quit' \in BOOLEAN
  BY <1>0, <1>1 DEF WorkTypeOK
<1>4. WorkTypeOK'
  BY <1>0, <1>1, <1>2, <1>3 DEF WorkTypeOK, JobVars
<1>5. TriesInv' /\ AskedInv' /\ OneAnswer' /\ OkMeansAnswered' /\ CountInv'
  BY <1>0, <1>1 DEF TriesInv, AskedInv, OneAnswer, OkMeansAnswered, CountInv, Busy, Left, JobVars
<1>6. PlaceInv' /\ CurrentInv' /\ OfferInv' /\ AddrInv' /\ SlotInv'
  BY <1>0, <1>1 DEF PlaceInv, CurrentInv, OfferInv, AddrInv, SlotInv, Busy, Live, JobVars
<1>7. CoverInv'
  <2>1. ~quit' => ~quit
    BY <1>1
  <2> QED
    BY <2>1, <1>0, <1>1 DEF CoverInv, Busy, JobVars
<1> QED
  BY <1>4, <1>5, <1>6, <1>7 DEF WorkInv

-----------------------------------------------------------------------------
(* Results                                                                   *)

\* What a result with error e for query q does to the queries and the batches.
ResultFacts(q, e) ==
  LET b == BatchOf(q) IN
  /\ \A c \in Batch : c # b =>
       errChan'[c] = errChan[c] /\ (c \in open' <=> c \in open) /\ rem'[c] = rem[c]
  /\ \A r \in Query : r # q =>
       /\ tries'[r] = tries[r]
       /\ r \in work' <=> r \in work
       /\ r \in current' <=> r \in current
  /\ q \in work' => e # "ok"
  /\ b \in open' =>
       /\ b \in open /\ errChan'[b] = errChan[b]
       /\ b \notin Unlimited => tries'[q] < NumRetries
       /\ e = "ok" => q \notin current' /\ rem'[b] = rem[b] - 1
       /\ e # "ok" => q \in current' /\ q \in work' /\ rem'[b] = rem[b]
  /\ b \notin open' =>
       \/ b \notin open /\ errChan'[b] = errChan[b]
       \/ \E r \in Reply : /\ b \in open /\ errChan'[b] = <<r>>
                           /\ r = "ok" => e = "ok" /\ rem[b] = 1

\* The variables a result changes keep their types.
ResultTypes ==
  /\ work' \subseteq Query /\ current' \subseteq Query /\ tries' \in [Query -> 0..NumRetries]
  /\ open' \subseteq Batch /\ rem' \in [Batch -> 0..Size] /\ stopped' \subseteq Batch
  /\ errChan' \in [Batch -> Seq(Reply)]
  /\ rank' \in [Peer -> (0..WorstScore) \cup {None}]

\* A batch that ends is told so; the others are left alone.
LEMMA FinishDoes ==
  ASSUME WorkTypeOK, OneAnswer, NEW b \in open, NEW r \in Reply, Finish(b, r)
  PROVE  /\ errChan' \in [Batch -> Seq(Reply)] /\ errChan'[b] = <<r>>
         /\ open' \subseteq Batch /\ b \notin open' /\ b \in Batch
         /\ \A c \in Batch : c # b => errChan'[c] = errChan[c] /\ (c \in open' <=> c \in open)
<1>1. errChan[b] = <<>> /\ b \in Batch /\ errChan \in [Batch -> Seq(Reply)] /\ open \subseteq Batch
  BY DEF WorkTypeOK, OneAnswer
<1>2. Append(<<>>, r) = <<r>> /\ <<r>> \in Seq(Reply)
  OBVIOUS
<1>3. errChan' = [errChan EXCEPT ![b] = <<r>>] /\ open' = open \ {b}
  BY <1>1, <1>2 DEF Finish
<1> QED
  BY <1>1, <1>2, <1>3

\* After a result its batch goes on, or ends with a timeout.
LEMMA ExpireDoes ==
  ASSUME WorkTypeOK, OneAnswer, NEW b \in open, Expire(b)
  PROVE  /\ errChan' \in [Batch -> Seq(Reply)] /\ open' \subseteq Batch
         /\ stopped' \subseteq Batch
         /\ \A c \in Batch : c # b => errChan'[c] = errChan[c] /\ (c \in open' <=> c \in open)
         /\ b \in open' => errChan'[b] = errChan[b]
         /\ b \notin open' => errChan'[b] = <<"timeout">>
<1>1. CASE b \in late /\ Finish(b, "timeout") /\ stopped' = stopped \cup {b}
  <2>1. "timeout" \in Reply
    BY DEF Reply
  <2>2. /\ errChan' \in [Batch -> Seq(Reply)] /\ errChan'[b] = <<"timeout">>
        /\ open' \subseteq Batch /\ b \notin open' /\ b \in Batch
        /\ \A c \in Batch : c # b => errChan'[c] = errChan[c] /\ (c \in open' <=> c \in open)
    BY <1>1, <2>1, FinishDoes
  <2> QED
    BY <1>1, <2>2 DEF WorkTypeOK
<1>2. CASE UNCHANGED <<errChan, open, stopped>>
  BY <1>2 DEF WorkTypeOK
<1> QED
  BY <1>1, <1>2 DEF Expire

\* The ranking stays within its range.
LEMMA RankKept ==
  ASSUME WorkTypeOK, NEW p \in Peer
  PROVE  /\ Punished(p) \in (0..WorstScore) \cup {None}
         /\ Rewarded(p) \in (0..WorstScore) \cup {None}
         /\ Reset(p) \in (0..WorstScore) \cup {None}
<1>1. rank[p] \in (0..WorstScore) \cup {None} /\ WorstScore \in Nat
  BY WorkAssumption DEF WorkTypeOK
<1>2. DefaultScore \in 0..WorstScore
  BY WorkAssumption DEF DefaultScore
<1>3. Punished(p) \in (0..WorstScore) \cup {None}
  BY <1>1 DEF Punished
<1>4. Rewarded(p) \in (0..WorstScore) \cup {None}
  BY <1>1 DEF Rewarded
<1> QED
  BY <1>1, <1>2, <1>3, <1>4 DEF Reset

LEMMA AnsweredDoes ==
  ASSUME WorkInv, NEW q \in Query, q \notin done, q \notin work, BatchOf(q) \in open,
         NEW p \in Peer, Answered(q, p)
  PROVE  ResultTypes /\ ResultFacts(q, "ok")
<1> DEFINE b == BatchOf(q)
<1>0. WorkTypeOK /\ TriesInv /\ OneAnswer /\ CountInv
  BY DEF WorkInv
<1>1. /\ rank' = [rank EXCEPT ![p] = Rewarded(p)]
      /\ rem' = [rem EXCEPT ![b] = @ - 1]
      /\ current' = current \ {q} /\ UNCHANGED <<work, tries>>
  BY DEF Answered
<1>2. b \in Batch /\ rem[b] = Cardinality(Left(b)) /\ q \in Left(b)
  BY <1>0, BatchOfQuery DEF CountInv, Left, OfBatch
<1>3. rem[b] \in 0..Size /\ rem[b] >= 1
  BY <1>0, <1>2, LeftFacts DEF WorkTypeOK
<1>4. rem' \in [Batch -> 0..Size] /\ rem'[b] = rem[b] - 1 /\ \A c \in Batch : c # b => rem'[c] = rem[c]
  BY <1>0, <1>1, <1>2, <1>3, WorkAssumption DEF WorkTypeOK
<1>5. rank' \in [Peer -> (0..WorstScore) \cup {None}]
  BY <1>0, <1>1, RankKept DEF WorkTypeOK
<1>6. tries'[q] < NumRetries \/ b \in Unlimited
  BY <1>0, <1>1 DEF TriesInv
<1>7. CASE rem[b] = 1 /\ Finish(b, "ok") /\ UNCHANGED stopped
  <2>1. "ok" \in Reply
    BY DEF Reply
  <2>2. /\ errChan' \in [Batch -> Seq(Reply)] /\ errChan'[b] = <<"ok">>
        /\ open' \subseteq Batch /\ b \notin open'
        /\ \A c \in Batch : c # b => errChan'[c] = errChan[c] /\ (c \in open' <=> c \in open)
    BY <1>0, <1>7, <2>1, FinishDoes
  <2>3. ResultTypes
    BY <1>0, <1>1, <1>4, <1>5, <1>7, <2>2 DEF ResultTypes, WorkTypeOK
  <2>4. ResultFacts(q, "ok")
    BY <1>1, <1>4, <1>7, <2>1, <2>2 DEF ResultFacts
  <2> QED
    BY <2>3, <2>4
<1>8. CASE rem[b] # 1 /\ Expire(b)
  <2>1. "timeout" \in Reply /\ "timeout" # "ok"
    BY DEF Reply
  <2>2. /\ errChan' \in [Batch -> Seq(Reply)] /\ open' \subseteq Batch /\ stopped' \subseteq Batch
        /\ \A c \in Batch : c # b => errChan'[c] = errChan[c] /\ (c \in open' <=> c \in open)
        /\ b \in open' => errChan'[b] = errChan[b]
        /\ b \notin open' => errChan'[b] = <<"timeout">>
    BY <1>0, <1>8, ExpireDoes
  <2>3. ResultTypes
    BY <1>0, <1>1, <1>4, <1>5, <2>2 DEF ResultTypes, WorkTypeOK
  <2>4. ResultFacts(q, "ok")
    BY <1>1, <1>4, <1>6, <2>1, <2>2 DEF ResultFacts
  <2> QED
    BY <2>3, <2>4
<1> QED
  BY <1>7, <1>8 DEF Answered

LEMMA FailedDoes ==
  ASSUME WorkInv, NEW q \in Query, q \notin done, q \notin work, BatchOf(q) \in open,
         NEW p \in Peer, NEW e \in Reply, e # "ok", Failed(q, p, e)
  PROVE  ResultTypes /\ ResultFacts(q, e)
<1> DEFINE b == BatchOf(q)
<1>0. WorkTypeOK /\ TriesInv /\ OneAnswer /\ CurrentInv
  BY DEF WorkInv
<1>1. /\ rank' = [rank EXCEPT ![p] = IF e = "disconnected" THEN Reset(p) ELSE Punished(p)]
      /\ tries' = [tries EXCEPT ![q] = IF b \in Unlimited THEN @ ELSE @ + 1]
      /\ UNCHANGED rem
  BY DEF Failed
<1>2. b \in Batch /\ q \in current
  BY <1>0, BatchOfQuery DEF CurrentInv
<1>3. tries[q] \in 0..NumRetries /\ NumRetries \in Nat /\ (b \in Unlimited \/ tries[q] < NumRetries)
  BY <1>0, WorkAssumption DEF WorkTypeOK, TriesInv
<1>4. /\ tries' \in [Query -> 0..NumRetries]
      /\ tries'[q] = IF b \in Unlimited THEN tries[q] ELSE tries[q] + 1
      /\ \A r \in Query : r # q => tries'[r] = tries[r]
  BY <1>0, <1>1, <1>3 DEF WorkTypeOK
<1>5. rank' \in [Peer -> (0..WorstScore) \cup {None}]
  <2>1. (IF e = "disconnected" THEN Reset(p) ELSE Punished(p)) \in (0..WorstScore) \cup {None}
    BY <1>0, RankKept
  <2> QED
    BY <1>0, <1>1, <2>1 DEF WorkTypeOK
<1>7. CASE /\ Finish(b, e) /\ current' = current \ {q} /\ UNCHANGED <<work, stopped>>
  <2>2. /\ errChan' \in [Batch -> Seq(Reply)] /\ errChan'[b] = <<e>>
        /\ open' \subseteq Batch /\ b \notin open'
        /\ \A c \in Batch : c # b => errChan'[c] = errChan[c] /\ (c \in open' <=> c \in open)
    BY <1>0, <1>7, FinishDoes
  <2>3. ResultTypes
    BY <1>0, <1>1, <1>4, <1>5, <1>7, <2>2 DEF ResultTypes, WorkTypeOK
  <2>4. ResultFacts(q, e)
    BY <1>1, <1>4, <1>7, <2>2 DEF ResultFacts
  <2> QED
    BY <2>3, <2>4
<1>8. CASE /\ b \in Unlimited \/ tries[q] + 1 < NumRetries
           /\ work' = work \cup {q} /\ UNCHANGED current /\ Expire(b)
  <2>1. "timeout" \in Reply /\ "timeout" # "ok"
    BY DEF Reply
  <2>2. /\ errChan' \in [Batch -> Seq(Reply)] /\ open' \subseteq Batch /\ stopped' \subseteq Batch
        /\ \A c \in Batch : c # b => errChan'[c] = errChan[c] /\ (c \in open' <=> c \in open)
        /\ b \in open' => errChan'[b] = errChan[b]
        /\ b \notin open' => errChan'[b] = <<"timeout">>
    BY <1>0, <1>8, ExpireDoes
  <2>3. ResultTypes
    BY <1>0, <1>1, <1>4, <1>5, <1>8, <2>2 DEF ResultTypes, WorkTypeOK
  <2>4. b \notin Unlimited => tries'[q] < NumRetries
    BY <1>3, <1>4, <1>8
  <2>5. ResultFacts(q, e)
    BY <1>1, <1>2, <1>4, <1>8, <2>1, <2>2, <2>4 DEF ResultFacts
  <2> QED
    BY <2>3, <2>5
<1> QED
  BY <1>7, <1>8 DEF Failed

\* Every case of Result that does not dereference nil, in one statement.
LEMMA ResultDoes ==
  ASSUME WorkInv, NEW w \in Worker, Result(w), workers[addr[w]] # 0
  PROVE  /\ ResultTypes /\ ResultFacts(job[w], err[w])
         /\ pc' = "top" /\ active' = [active EXCEPT ![workers[addr[w]]] = 0]
         /\ done' = IF err[w] = "ok" THEN done \cup {job[w]} ELSE done
         /\ UNCHANGED <<late, cancelled, asked, workers>>
<1> DEFINE q == job[w]
           p == addr[w]
           e == err[w]
<1>0. WorkTypeOK /\ TriesInv /\ OneAnswer /\ CurrentInv /\ PlaceInv /\ AddrInv
  BY DEF WorkInv
<1>1. at[w] = "reporting" /\ q \in Query /\ q \notin done /\ q \notin work /\ p \in Peer /\ e \in Reply
  BY <1>0 DEF Result, PlaceInv, AddrInv, Busy, WorkTypeOK
<1>2. /\ pc' = "top" /\ active' = [active EXCEPT ![workers[p]] = 0]
      /\ done' = IF e = "ok" THEN done \cup {q} ELSE done
      /\ UNCHANGED <<late, cancelled, asked, workers>>
      /\ \/ Discard(q)
         \/ /\ BatchOf(q) \in open
            /\ CASE e = "cancelled" -> CancelBatch(q)
                 [] e = "ok"        -> Answered(q, p)
                 [] OTHER           -> Failed(q, p, e)
  BY DEF Result
<1>3. CASE Discard(q)
  <2>1. ResultTypes
    BY <1>0, <1>3 DEF ResultTypes, Discard, WorkTypeOK
  <2>2. ResultFacts(q, e)
    BY <1>1, <1>3 DEF ResultFacts, Discard
  <2> QED
    BY <1>2, <2>1, <2>2
<1>4. CASE BatchOf(q) \in open /\ e = "cancelled" /\ CancelBatch(q)
  <2>1. /\ errChan' \in [Batch -> Seq(Reply)] /\ errChan'[BatchOf(q)] = <<"cancelled">>
        /\ open' \subseteq Batch /\ BatchOf(q) \notin open'
        /\ \A c \in Batch : c # BatchOf(q) => errChan'[c] = errChan[c] /\ (c \in open' <=> c \in open)
    BY <1>0, <1>1, <1>4, FinishDoes DEF CancelBatch
  <2>2. current' = current \ {q} /\ UNCHANGED <<stopped, rem, work, tries, rank>>
    BY <1>4 DEF CancelBatch
  <2>3. ResultTypes
    BY <1>0, <2>1, <2>2 DEF ResultTypes, WorkTypeOK
  <2>4. ResultFacts(q, e)
    BY <1>1, <1>4, <2>1, <2>2 DEF ResultFacts
  <2> QED
    BY <1>2, <2>3, <2>4
<1>5. CASE BatchOf(q) \in open /\ e = "ok" /\ Answered(q, p)
  BY <1>1, <1>2, <1>5, AnsweredDoes
<1>6. CASE BatchOf(q) \in open /\ e # "ok" /\ Failed(q, p, e)
  BY <1>1, <1>2, <1>6, FailedDoes
<1> QED
  BY <1>2, <1>3, <1>4, <1>5, <1>6

\* Result: the query is answered, queued again or given up with its batch.
LEMMA ResultKeeps ==
  ASSUME WorkInv, NEW w \in Worker, Result(w)
  PROVE  WorkInv'
<1> DEFINE q == job[w]
           b == BatchOf(q)
           e == err[w]
<1>0. WorkTypeOK /\ TriesInv /\ AskedInv /\ OneAnswer /\ OkMeansAnswered /\ CountInv
      /\ PlaceInv /\ CurrentInv /\ CoverInv /\ OfferInv /\ AddrInv /\ SlotInv
  BY DEF WorkInv
<1>1. /\ pc = "offer" /\ offers = <<>> /\ at[w] = "reporting"
      /\ at' = [at EXCEPT ![w] = IF e = "disconnected" THEN "exited" ELSE "waiting"]
      /\ job' = [job EXCEPT ![w] = 0]
      /\ UNCHANGED <<addr, up, err, offers, quit>>
  BY DEF Result, Selecting
<1>2. /\ q \in Query /\ q \notin done /\ q \notin work /\ addr[w] \in Peer /\ e \in Reply
      /\ b \in asked /\ b \in Batch /\ Busy(w) /\ Live(w)
  BY <1>0, <1>1, BatchOfQuery DEF PlaceInv, AddrInv, AskedInv, Busy, Live, WorkTypeOK
<1>3. /\ \A v \in Worker : v # w => at'[v] = at[v] /\ job'[v] = job[v]
      /\ at'[w] \in {"exited", "waiting"} /\ job'[w] = 0
  BY <1>0, <1>1 DEF WorkTypeOK
<1>4. \A v \in Worker : /\ Busy(v)' <=> v # w /\ Busy(v)
                        /\ Live(v)' => Live(v)
                        /\ at'[v] # "unborn" => at[v] # "unborn"
  BY <1>1, <1>3 DEF Busy, Live
<1>5. /\ at' \in [Worker -> {"unborn", "waiting", "working", "reporting", "exited"}]
      /\ job' \in [Worker -> Query \cup {0}]
  BY <1>0, <1>1 DEF WorkTypeOK
<1>6. OfferInv' /\ AddrInv'
  BY <1>0, <1>1, <1>4 DEF OfferInv, AddrInv
<1>7. \A v \in Worker : Busy(v) /\ v # w => job[v] # q
  BY <1>0, <1>2 DEF PlaceInv
<1>8. CASE workers[addr[w]] = 0
  <2>1. /\ pc' = "panic" /\ UNCHANGED JobVars /\ UNCHANGED <<late, cancelled, stopped>>
        /\ UNCHANGED <<workers, active, rank>>
    BY <1>8 DEF Result, batchVars, queueVars, rosterVars, JobVars
  <2>2. Reconnect
    BY <1>0, <1>2, <1>8, WorkAssumption DEF SlotInv, Worker
  <2>3. WorkTypeOK'
    BY <1>0, <1>1, <1>5, <2>1 DEF WorkTypeOK, JobVars
  <2>4. TriesInv' /\ AskedInv' /\ OneAnswer' /\ OkMeansAnswered' /\ CountInv' /\ CurrentInv'
    BY <1>0, <1>3, <1>4, <2>1
    DEF TriesInv, AskedInv, OneAnswer, OkMeansAnswered, CountInv, Left, CurrentInv, JobVars
  <2>5. PlaceInv' /\ CoverInv' /\ SlotInv'
    BY <1>0, <1>3, <1>4, <2>1, <2>2 DEF PlaceInv, CoverInv, SlotInv, JobVars
  <2> QED
    BY <1>6, <2>3, <2>4, <2>5 DEF WorkInv
<1>9. CASE workers[addr[w]] # 0
  <2>1. /\ ResultTypes /\ ResultFacts(q, e)
        /\ pc' = "top" /\ active' = [active EXCEPT ![workers[addr[w]]] = 0]
        /\ done' = IF e = "ok" THEN done \cup {q} ELSE done
        /\ UNCHANGED <<late, cancelled, asked, workers>>
    BY <1>9, ResultDoes
  <2>2. workers[addr[w]] \in Worker
    BY <1>0, <1>2, <1>9 DEF WorkTypeOK
  <2>3. WorkTypeOK'
    <3>1. active' \in [Worker -> Query \cup {0}] /\ done' \subseteq Query
      BY <1>0, <1>2, <2>1 DEF WorkTypeOK
    <3> QED
      BY <1>0, <1>1, <1>5, <2>1, <3>1 DEF WorkTypeOK, ResultTypes
  <2>4. TriesInv'
    <3>1. ASSUME NEW r \in Query
          PROVE  /\ BatchOf(r) \in open' /\ BatchOf(r) \notin Unlimited => tries'[r] < NumRetries
                 /\ BatchOf(r) \notin asked' => tries'[r] = 0
      <4>1. CASE r = q
        BY <1>2, <2>1, <4>1 DEF ResultFacts
      <4>2. CASE r # q
        <5>1. tries'[r] = tries[r] /\ BatchOf(r) \in Batch
          BY <2>1, <4>2, BatchOfQuery DEF ResultFacts
        <5>2. BatchOf(r) \in open' => BatchOf(r) \in open
          BY <2>1, <5>1 DEF ResultFacts
        <5> QED
          BY <1>0, <2>1, <5>1, <5>2 DEF TriesInv
      <4> QED
        BY <4>1, <4>2
    <3> QED
      BY <3>1 DEF TriesInv
  <2>5. /\ \A c \in Batch : c \in open' => c \in open /\ errChan'[c] = errChan[c]
        /\ open' \subseteq Batch
    BY <2>1 DEF ResultFacts, ResultTypes
  <2>6. AskedInv'
    <3>1. open' \subseteq asked'
      BY <1>0, <2>1, <2>5 DEF AskedInv
    <3>2. \A c \in Batch : c \notin asked' => errChan'[c] = <<>>
      BY <1>0, <1>2, <2>1 DEF AskedInv, ResultFacts
    <3>3. \A r \in Query : BatchOf(r) \notin asked' => r \notin done' /\ r \notin work'
      BY <1>0, <1>2, <2>1 DEF AskedInv, ResultFacts
    <3>4. \A v \in Worker : Busy(v)' => BatchOf(job'[v]) \in asked'
      BY <1>0, <1>3, <1>4, <2>1 DEF AskedInv
    <3> QED
      BY <3>1, <3>2, <3>3, <3>4 DEF AskedInv
  <2>7. OneAnswer'
    <3>1. ASSUME NEW c \in Batch
          PROVE  Len(errChan'[c]) <= 1 /\ (c \in open' => errChan'[c] = <<>>)
      <4>1. CASE errChan'[c] = errChan[c]
        BY <1>0, <2>5, <4>1 DEF OneAnswer
      <4>2. CASE errChan'[c] # errChan[c]
        <5>1. PICK r \in Reply : errChan'[c] = <<r>> /\ c \notin open'
          BY <2>1, <2>5, <4>2 DEF ResultFacts
        <5>2. Len(<<r>>) = 1
          OBVIOUS
        <5> QED
          BY <5>1, <5>2
      <4> QED
        BY <4>1, <4>2
    <3> QED
      BY <3>1 DEF OneAnswer
  <2>8. OkMeansAnswered'
    <3>1. SUFFICES ASSUME NEW c \in Batch, errChan'[c] = <<"ok">>,
                          NEW r \in Query, BatchOf(r) = c
                   PROVE  r \in done'
      BY DEF OkMeansAnswered
    <3>2. CASE errChan[c] = <<"ok">>
      BY <1>0, <2>1, <3>1, <3>2 DEF OkMeansAnswered
    <3>3. CASE errChan[c] # <<"ok">>
      <4>1. c = b /\ b \in open /\ e = "ok" /\ rem[b] = 1
        <5>1. c = b
          BY <2>1, <3>1, <3>3 DEF ResultFacts
        <5>2. b \notin open'
          BY <2>5, <3>1, <3>3, <5>1
        <5>3. PICK x \in Reply : b \in open /\ errChan'[b] = <<x>> /\ (x = "ok" => e = "ok" /\ rem[b] = 1)
          BY <2>1, <3>1, <3>3, <5>1, <5>2 DEF ResultFacts
        <5>4. <<x>> = <<"ok">> => x = "ok"
          OBVIOUS
        <5> QED
          BY <3>1, <5>1, <5>3, <5>4
      <4>2. q \in Left(b) /\ Cardinality(Left(b)) = 1
        BY <1>0, <1>2, <4>1 DEF CountInv, Left, OfBatch
      <4>3. \A x, y \in Left(b) : x = y
        BY <1>2, <4>2, LeftFacts
      <4> QED
        BY <2>1, <3>1, <4>1, <4>2, <4>3 DEF Left, OfBatch
    <3> QED
      BY <3>2, <3>3
  <2>9. CountInv'
    <3>1. SUFFICES ASSUME NEW c \in open'
                   PROVE  rem'[c] = Cardinality(Left(c)')
      BY DEF CountInv
    <3>2. c \in Batch /\ c \in open /\ rem[c] = Cardinality(Left(c))
      BY <1>0, <2>5 DEF CountInv
    <3>3. CASE c = b /\ e = "ok"
      <4>1. q \in Left(c) /\ Left(c)' = Left(c) \ {q}
        BY <1>2, <2>1, <3>3 DEF Left, OfBatch
      <4>2. rem'[c] = rem[c] - 1
        BY <2>1, <3>1, <3>3 DEF ResultFacts
      <4> QED
        BY <3>2, <3>3, <4>1, <4>2, LeftFacts
    <3>4. CASE c # b \/ e # "ok"
      <4>1. Left(c)' = Left(c)
        BY <2>1, <3>4 DEF Left, OfBatch
      <4>2. rem'[c] = rem[c]
        BY <2>1, <3>1, <3>2, <3>4 DEF ResultFacts
      <4> QED
        BY <3>2, <4>1, <4>2
    <3> QED
      BY <3>3, <3>4
  <2>10. PlaceInv'
    <3>1. \A v \in Worker : Busy(v)' => job'[v] \in Query /\ job'[v] \notin done' /\ job'[v] \notin work'
      BY <1>0, <1>3, <1>4, <1>7, <2>1 DEF PlaceInv, ResultFacts
    <3>2. \A v, x \in Worker : Busy(v)' /\ Busy(x)' /\ job'[v] = job'[x] => v = x
      BY <1>0, <1>3, <1>4 DEF PlaceInv
    <3>3. \A r \in work' : r \notin done'
      BY <1>0, <1>2, <2>1 DEF PlaceInv, ResultFacts, ResultTypes
    <3> QED
      BY <3>1, <3>2, <3>3 DEF PlaceInv
  <2>11. CurrentInv'
    <3>1. SUFFICES ASSUME NEW r \in Query, BatchOf(r) \in open'
                   PROVE  r \in current' <=> r \notin done'
      BY DEF CurrentInv
    <3>2. BatchOf(r) \in open
      BY <2>5, <3>1
    <3>3. CASE r = q
      BY <1>2, <2>1, <3>1, <3>3 DEF ResultFacts
    <3>4. CASE r # q
      BY <1>0, <2>1, <3>2, <3>4 DEF CurrentInv, ResultFacts
    <3> QED
      BY <3>3, <3>4
  <2>12. CoverInv'
    <3>1. SUFFICES ASSUME ~quit, NEW r \in Query, BatchOf(r) \in open'
                   PROVE  r \in done' \/ r \in work' \/ \E v \in Worker : Busy(v)' /\ job'[v] = r
      BY <1>1 DEF CoverInv
    <3>2. r \in done \/ r \in work \/ \E v \in Worker : Busy(v) /\ job[v] = r
      BY <1>0, <1>1, <2>5, <3>1 DEF CoverInv
    <3>3. CASE r = q
      BY <2>1, <3>1, <3>3 DEF ResultFacts
    <3>4. CASE r # q
      BY <1>3, <1>4, <2>1, <3>2, <3>4 DEF ResultFacts
    <3> QED
      BY <3>3, <3>4
  <2>13. SlotInv'
    <3>1. SUFFICES ASSUME ~Reconnect
                   PROVE  /\ \A v \in Worker : Live(v)' => workers'[addr'[v]] = v
                          /\ \A v \in Worker : Busy(v)' => active'[v] = job'[v]
      BY <2>1 DEF SlotInv
    <3>2. workers[addr[w]] = w
      BY <1>0, <1>2, <3>1 DEF SlotInv
    <3>3. \A v \in Worker : v # w => active'[v] = active[v]
      BY <1>0, <2>1, <3>2 DEF WorkTypeOK
    <3> QED
      BY <1>0, <1>1, <1>3, <1>4, <2>1, <3>1, <3>3 DEF SlotInv
  <2> QED
    BY <1>6, <2>3, <2>4, <2>6, <2>7, <2>8, <2>9, <2>10, <2>11, <2>12, <2>13 DEF WorkInv
<1> QED
  BY <1>8, <1>9

LEMMA StepKeeps ==
  ASSUME WorkInv, [Next]_vars
  PROVE  WorkInv'
<1>1. CASE Dispatcher
  BY <1>1, TopKeeps, HandOverKeeps, ForgetKeeps, ShutdownKeeps, ResultKeeps DEF Dispatcher
<1>2. CASE \E p \in Peer : Connect(p)
  BY <1>2, ConnectKeeps
<1>3. CASE \E b \in Batch : NewBatch(b) \/ Timer(b) \/ Cancel(b)
  BY <1>3, NewBatchKeeps, OutsideKeeps
<1>4. CASE \E w \in Worker : Run(w) \/ Disconnect(w)
  BY <1>4, RunKeeps, OutsideKeeps
<1>5. CASE Stop \/ UNCHANGED vars
  BY <1>5, OutsideKeeps
<1> QED
  BY <1>1, <1>2, <1>3, <1>4, <1>5 DEF Next

LEMMA WorkInvariant == Spec => []WorkInv
<1>1. Init => WorkInv
  BY InitWork
<1>2. WorkInv /\ [Next]_vars => WorkInv'
  BY StepKeeps
<1> QED
  BY <1>1, <1>2, PTL DEF Spec

-----------------------------------------------------------------------------
(* What callers and the dispatcher may rely on                               *)

\* A caller of Query reads at most one answer from errChan, whose buffer holds
\* one: the dispatcher never blocks on sending it.
THEOREM OneAnswerSafe == Spec => []OneAnswer
<1>1. WorkInv => OneAnswer
  BY DEF WorkInv
<1> QED
  BY <1>1, WorkInvariant, PTL

\* batchProgress.rem reaches zero, and the caller gets a nil error, only when
\* peers have answered every query of the batch, however often they were retried.
THEOREM OkMeansAnsweredSafe == Spec => []OkMeansAnswered
<1>1. WorkInv => OkMeansAnswered
  BY DEF WorkInv
<1> QED
  BY <1>1, WorkInvariant, PTL

\* The dispatcher neither loses nor duplicates a query of a batch under way.
THEOREM NoQueryLostSafe == Spec => []NoQueryLost
<1>1. WorkInv => NoQueryLost
  <2>1. SUFFICES ASSUME WorkInv, pc \in {"top", "offer"}, ~quit, NEW q \in Query, BatchOf(q) \in open
                 PROVE  /\ q \in done \cup work \cup Held
                        /\ q \in work => q \notin done \cup Held
                        /\ q \in current <=> q \notin done
    BY DEF NoQueryLost
  <2>2. \A r : r \in Held <=> \E w \in Worker : Busy(w) /\ job[w] = r
    BY DEF Held, Busy
  <2>3. PlaceInv /\ CurrentInv /\ CoverInv
    BY <2>1 DEF WorkInv
  <2>4. q \in done \/ q \in work \/ \E w \in Worker : Busy(w) /\ job[w] = q
    BY <2>1, <2>3 DEF CoverInv
  <2>5. q \in work => q \notin done /\ ~\E w \in Worker : Busy(w) /\ job[w] = q
    BY <2>3 DEF PlaceInv
  <2>6. q \in current <=> q \notin done
    BY <2>1, <2>3 DEF CurrentInv
  <2> QED
    BY <2>2, <2>4, <2>5, <2>6
<1> QED
  BY <1>1, WorkInvariant, PTL

\* As long as no address connects again before its old worker is gone, the slot
\* of a busy worker holds that worker's job ...
THEOREM SlotsAgreeSafe == Spec => [](~Reconnect => SlotsAgree)
<1>1. WorkInv => (~Reconnect => SlotsAgree)
  <2>1. SUFFICES ASSUME WorkInv, ~Reconnect, NEW p \in Peer, workers[p] # 0, Busy(workers[p])
                 PROVE  active[workers[p]] = job[workers[p]]
    BY DEF SlotsAgree, WorkInv, Busy
  <2>2. WorkTypeOK /\ SlotInv
    BY <2>1 DEF WorkInv
  <2>3. workers[p] \in Worker
    BY <2>1, <2>2 DEF WorkTypeOK
  <2> QED
    BY <2>1, <2>2, <2>3 DEF SlotInv
<1> QED
  BY <1>1, WorkInvariant, PTL

\* ... and the dispatcher finds a slot for every result it receives: workers[...]
\* is not nil when Result dereferences it.
THEOREM NoNilSlot == Spec => [](~Reconnect => pc # "panic")
<1>1. WorkInv => (~Reconnect => pc # "panic")
  BY DEF WorkInv, SlotInv
<1> QED
  BY <1>1, WorkInvariant, PTL
=============================================================================
