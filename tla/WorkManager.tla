----------------------------- MODULE WorkManager -----------------------------
(***************************************************************************)
(* The light client's query scheduler (spv/query: workmanager.go,          *)
(* worker.go, workqueue.go, peer_rank.go): one dispatcher goroutine hands  *)
(* queries to one worker goroutine per peer over unbuffered channels, and  *)
(* takes their results back.  Batches may be cancelled, time out and be    *)
(* retried; peers come and go; the manager may quit.                       *)
(*                                                                         *)
(* Queries are numbered in the order they are scheduled: batch b holds the *)
(* Size queries from (b - 1) * Size + 1 on.                                *)
(***************************************************************************)
EXTENDS Naturals, FiniteSets, Sequences, SequencesExt

CONSTANTS
  Peer,        \* peer addresses
  Stable,      \* peers that never disconnect
  Batches,     \* number of batches callers ask for
  Size,        \* queries of a batch
  Unlimited,   \* batches with the option NoRetryMax
  NumRetries,  \* the option NumRetries
  WorstScore,  \* the score range is 0..WorstScore, 0 the best
  None,
  Reconnect,   \* may an address connect again before its old worker is gone?
  Workers      \* bound: workers ever started

ASSUME WorkAssumption ==
  /\ IsFiniteSet(Peer) /\ Stable \subseteq Peer /\ None \notin Peer
  /\ Batches \in Nat /\ Size \in Nat \ {0} /\ Unlimited \subseteq 1..Batches
  /\ NumRetries \in Nat \ {0} /\ WorstScore \in Nat \ {0}
  /\ Reconnect \in BOOLEAN /\ Workers \in Nat

Batch  == 1..Batches
Query  == 1..(Batches * Size)
Worker == 1..Workers
BatchOf(q) == ((q - 1) \div Size) + 1
DefaultScore == WorstScore \div 2
Reply == {"ok", "cancelled", "timeout", "disconnected", "shutdown"}

VARIABLES
  work,      \* workQueue: the queries to hand out, a heap by index
  tries,     \* queryJob.tries
  current,   \* currentQueries, by query
  open,      \* currentBatches, by batch
  rem,       \* batchProgress.rem
  late,      \* batches whose timeout channel is ready
  cancelled, \* batches whose caller closed cancelChan
  stopped,   \* batches whose internal cancelChan is closed
  asked,     \* batches whose caller has entered Query
  errChan,   \* what has been sent to each caller
  workers,   \* the dispatcher's worker for each address
  active,    \* activeWorker.activeJob
  rank,      \* peerRanking.rank
  offers,    \* freeWorkers still to be offered the next job
  pc,        \* where the dispatcher is
  quit,
  addr,      \* the peer of each worker
  up,        \* workers whose peer is connected
  at,        \* where each worker is
  job,       \* the job it has
  err,       \* jobErr
  done       \* history: queries that a peer has answered

batchVars  == <<open, rem, late, cancelled, stopped, asked, errChan>>
queueVars  == <<work, tries, current>>
rosterVars == <<workers, active, rank>>
workerVars == <<addr, up, at, job, err>>
vars == <<batchVars, queueVars, rosterVars, workerVars, offers, pc, quit, done>>

Init ==
  /\ work = {} /\ tries = [q \in Query |-> 0] /\ current = {}
  /\ open = {} /\ rem = [b \in Batch |-> 0]
  /\ late = {} /\ cancelled = {} /\ stopped = {} /\ asked = {}
  /\ errChan = [b \in Batch |-> <<>>]
  /\ workers = [p \in Peer |-> 0]
  /\ active = [w \in Worker |-> 0]
  /\ rank = [p \in Peer |-> None]
  /\ offers = <<>> /\ pc = "top" /\ quit = FALSE
  /\ addr = [w \in Worker |-> None] /\ up = {}
  /\ at = [w \in Worker |-> "unborn"]
  /\ job = [w \in Worker |-> 0] /\ err = [w \in Worker |-> "ok"]
  /\ done = {}

-----------------------------------------------------------------------------
(* Peer ranking                                                              *)

Score(p) == IF rank[p] = None THEN DefaultScore ELSE rank[p]
Punished(p) == IF rank[p] \in {None, WorstScore} THEN rank[p] ELSE rank[p] + 1
Rewarded(p) == IF rank[p] \in {None, 0} THEN rank[p] ELSE rank[p] - 1
Reset(p) == IF rank[p] = None THEN None ELSE DefaultScore

\* The orders Order may leave peers in: sort.Slice is not stable and the
\* slice comes from a map.
Ordered(peers) ==
  {s \in SetToSeqs(peers) :
     \A i, j \in DOMAIN s : i < j => Score(s[i]) <= Score(s[j])}

-----------------------------------------------------------------------------
(* The dispatcher                                                            *)

Peek == CHOOSE q \in work : \A r \in work : q <= r
Free == {p \in Peer : workers[p] # 0 /\ active[workers[p]] = 0}

\* The top of the loop: with work at hand the free workers are ranked.
Top ==
  /\ pc = "top"
  /\ pc' = "offer"
  /\ offers' \in IF work = {} THEN {<<>>} ELSE Ordered(Free)
  /\ UNCHANGED <<batchVars, queueVars, rosterVars, workerVars, quit, done>>

\* A mutant of HandOver: the worker's slot is not taken.
HandOverFree ==
  LET w == workers[Head(offers)] IN
  /\ pc = "offer" /\ offers # <<>>
  /\ at[w] = "waiting"
  /\ at' = [at EXCEPT ![w] = "working"] /\ job' = [job EXCEPT ![w] = Peek]
  /\ work' = work \ {Peek}
  /\ pc' = "top" /\ offers' = <<>>
  /\ UNCHANGED <<batchVars, tries, current, workers, active, rank, addr, up, err, quit, done>>

\* The worker that is offered the next job takes it ...
HandOver ==
  LET w == workers[Head(offers)] IN
  /\ pc = "offer" /\ offers # <<>>
  /\ at[w] = "waiting"
  /\ at' = [at EXCEPT ![w] = "working"] /\ job' = [job EXCEPT ![w] = Peek]
  /\ active' = [active EXCEPT ![w] = Peek]
  /\ work' = work \ {Peek}
  /\ pc' = "top" /\ offers' = <<>>
  /\ UNCHANGED <<batchVars, tries, current, workers, rank, addr, up, err, quit, done>>

\* ... or has exited and is forgotten.
Forget ==
  /\ pc = "offer" /\ offers # <<>>
  /\ at[workers[Head(offers)]] = "exited"
  /\ workers' = [workers EXCEPT ![Head(offers)] = 0]
  /\ offers' = Tail(offers)
  /\ UNCHANGED <<batchVars, queueVars, active, rank, workerVars, pc, quit, done>>

Selecting == pc = "offer" /\ offers = <<>>

\* A peer connected: a worker is started for it.  (The bound Workers keeps one
\* worker for each stable peer that has not connected yet.)
Connect(p) ==
  /\ Selecting
  /\ \A w \in Worker : addr[w] = p =>
       w \notin up /\ (~Reconnect => at[w] = "exited")
  /\ LET awaited == {s \in Stable : \A w \in Worker : addr[w] # s} \ {p}
     IN  Cardinality({w \in Worker : at[w] = "unborn"}) > Cardinality(awaited)
  /\ \E w \in Worker :
       /\ at[w] = "unborn" /\ \A v \in Worker : v < w => at[v] # "unborn"
       /\ workers' = [workers EXCEPT ![p] = w]
       /\ addr' = [addr EXCEPT ![w] = p] /\ up' = up \cup {w}
       /\ at' = [at EXCEPT ![w] = "waiting"]
  /\ rank' = [rank EXCEPT ![p] = IF @ = None THEN DefaultScore ELSE @]
  /\ pc' = "top"
  /\ UNCHANGED <<batchVars, queueVars, active, job, err, offers, quit, done>>

\* The batch is answered and forgotten.
Finish(b, reply) ==
  /\ errChan' = [errChan EXCEPT ![b] = Append(@, reply)]
  /\ open' = open \ {b}

\* A mutant of Expire: the batch stays among the current ones.
ExpireOpen(b) ==
  \/ /\ b \in late
     /\ errChan' = [errChan EXCEPT ![b] = Append(@, "timeout")]
     /\ stopped' = stopped \cup {b} /\ UNCHANGED open
  \/ b \notin late /\ UNCHANGED <<errChan, open, stopped>>

\* After a result the total timeout of its batch is looked at.
Expire(b) ==
  \/ /\ b \in late
     /\ Finish(b, "timeout")
     /\ stopped' = stopped \cup {b}
  \/ b \notin late /\ UNCHANGED <<errChan, open, stopped>>

\* A result for a batch that is gone.
Discard(q) ==
  /\ BatchOf(q) \notin open
  /\ current' = current \ {q}
  /\ UNCHANGED <<open, errChan, stopped, rem, work, tries, rank>>

\* The caller cancelled: the whole batch ends.
CancelBatch(q) ==
  /\ Finish(BatchOf(q), "cancelled")
  /\ current' = current \ {q}
  /\ UNCHANGED <<stopped, rem, work, tries, rank>>

\* A mutant of Failed: a query that is out of retries is dropped silently.
FailedQuiet(q, p, e) ==
  LET b == BatchOf(q) IN
  /\ rank' = [rank EXCEPT ![p] = IF e = "disconnected" THEN Reset(p) ELSE Punished(p)]
  /\ tries' = [tries EXCEPT ![q] = IF b \in Unlimited THEN @ ELSE @ + 1]
  /\ \/ /\ b \notin Unlimited /\ tries[q] + 1 >= NumRetries
        /\ current' = current \ {q}
        /\ UNCHANGED <<work, stopped, open, errChan>>
     \/ /\ b \in Unlimited \/ tries[q] + 1 < NumRetries
        /\ work' = work \cup {q} /\ UNCHANGED current
        /\ Expire(b)
  /\ UNCHANGED rem

\* A query failed at peer p: it is tried again, or its batch is out of
\* retries and ends.
Failed(q, p, e) ==
  LET b == BatchOf(q) IN
  /\ rank' = [rank EXCEPT ![p] = IF e = "disconnected" THEN Reset(p) ELSE Punished(p)]
  /\ tries' = [tries EXCEPT ![q] = IF b \in Unlimited THEN @ ELSE @ + 1]
  /\ \/ /\ b \notin Unlimited /\ tries[q] + 1 >= NumRetries
        /\ Finish(b, e)
        /\ current' = current \ {q}
        /\ UNCHANGED <<work, stopped>>
     \/ /\ b \in Unlimited \/ tries[q] + 1 < NumRetries
        /\ work' = work \cup {q} /\ UNCHANGED current
        /\ Expire(b)
  /\ UNCHANGED rem

\* A mutant of Answered: the last query is not waited for.
AnsweredEarly(q, p) ==
  LET b == BatchOf(q) IN
  /\ rank' = [rank EXCEPT ![p] = Rewarded(p)]
  /\ rem' = [rem EXCEPT ![b] = @ - 1]
  /\ current' = current \ {q}
  /\ \/ rem[b] <= 2 /\ Finish(b, "ok") /\ UNCHANGED stopped
     \/ rem[b] > 2 /\ Expire(b)
  /\ UNCHANGED <<work, tries>>

\* A mutant of Answered: the count is compared before it is decremented.
AnsweredLate(q, p) ==
  LET b == BatchOf(q) IN
  /\ rank' = [rank EXCEPT ![p] = Rewarded(p)]
  /\ rem' = [rem EXCEPT ![b] = @ - 1]
  /\ current' = current \ {q}
  /\ \/ rem[b] = 0 /\ Finish(b, "ok") /\ UNCHANGED stopped
     \/ rem[b] # 0 /\ Expire(b)
  /\ UNCHANGED <<work, tries>>

\* A query was answered; the last one of its batch ends the batch.
Answered(q, p) ==
  LET b == BatchOf(q) IN
  /\ rank' = [rank EXCEPT ![p] = Rewarded(p)]
  /\ rem' = [rem EXCEPT ![b] = @ - 1]
  /\ current' = current \ {q}
  /\ \/ rem[b] = 1 /\ Finish(b, "ok") /\ UNCHANGED stopped
     \/ rem[b] # 1 /\ Expire(b)
  /\ UNCHANGED <<work, tries>>

\* The worker's result is received and its address has a free slot again.
\* Nothing checks that the slot belongs to this worker; when the address has
\* no worker any more the code dereferences nil.
Result(w) ==
  LET q == job[w]
      p == addr[w]
      e == err[w]
  IN
  /\ Selecting /\ at[w] = "reporting"
  /\ at' = [at EXCEPT ![w] = IF e = "disconnected" THEN "exited" ELSE "waiting"]
  /\ job' = [job EXCEPT ![w] = 0]
  /\ \/ /\ workers[p] = 0
        /\ pc' = "panic"
        /\ UNCHANGED <<batchVars, queueVars, rosterVars, done>>
     \/ /\ workers[p] # 0
        /\ pc' = "top"
        /\ active' = [active EXCEPT ![workers[p]] = 0]
        /\ done' = IF e = "ok" THEN done \cup {q} ELSE done
        /\ \/ Discard(q)
           \/ /\ BatchOf(q) \in open
              /\ CASE e = "cancelled" -> CancelBatch(q)
                   [] e = "ok"        -> Answered(q, p)
                   [] OTHER           -> Failed(q, p, e)
        /\ UNCHANGED <<late, cancelled, asked, workers>>
  /\ UNCHANGED <<addr, up, err, offers, quit>>

\* Query: the dispatcher takes the next batch, or the manager is quitting.
NewBatch(b) ==
  /\ b \notin asked /\ \A c \in 1..(b - 1) : c \in asked
  /\ asked' = asked \cup {b}
  /\ \/ /\ Selecting
        /\ LET Q == {q \in Query : BatchOf(q) = b}
           IN  work' = work \cup Q /\ current' = current \cup Q
        /\ open' = open \cup {b}
        /\ rem' = [rem EXCEPT ![b] = Size]
        /\ pc' = "top"
        /\ UNCHANGED errChan
     \/ /\ quit
        /\ errChan' = [errChan EXCEPT ![b] = Append(@, "shutdown")]
        /\ UNCHANGED <<work, current, open, rem, pc>>
  /\ UNCHANGED <<late, cancelled, stopped, tries, rosterVars, workerVars, offers, quit, done>>

\* The dispatcher leaves its loop and answers every batch it still has.
Shutdown ==
  /\ quit /\ pc = "offer"
  /\ pc' = "returned"
  /\ errChan' = [b \in Batch |-> IF b \in open THEN Append(errChan[b], "shutdown")
                                 ELSE errChan[b]]
  /\ open' = {}
  /\ UNCHANGED <<rem, late, cancelled, stopped, asked, queueVars, rosterVars,
                 workerVars, offers, quit, done>>

-----------------------------------------------------------------------------
(* The workers                                                               *)

Report(w, e) ==
  /\ at' = [at EXCEPT ![w] = "reporting"] /\ err' = [err EXCEPT ![w] = e]
  /\ UNCHANGED <<addr, up, job>>

\* The inner loop of Run ends with one of four results.
Work(w) ==
  /\ at[w] = "working"
  /\ \/ w \in up /\ Report(w, "ok")
     \/ Report(w, "timeout")
     \/ w \notin up /\ Report(w, "disconnected")
     \/ BatchOf(job[w]) \in cancelled \cup stopped /\ Report(w, "cancelled")

\* A worker exits when its peer disconnects while it has no job, or on quit.
Exit(w) ==
  /\ \/ at[w] = "waiting" /\ w \notin up
     \/ at[w] \in {"waiting", "working", "reporting"} /\ quit
  /\ at' = [at EXCEPT ![w] = "exited"]
  /\ UNCHANGED <<addr, up, job, err>>

Run(w) ==
  /\ Work(w) \/ Exit(w)
  /\ UNCHANGED <<batchVars, queueVars, rosterVars, offers, pc, quit, done>>

-----------------------------------------------------------------------------
(* Peers, timers and callers                                                 *)

Disconnect(w) ==
  /\ w \in up /\ addr[w] \notin Stable
  /\ up' = up \ {w}
  /\ UNCHANGED <<batchVars, queueVars, rosterVars, addr, at, job, err, offers, pc, quit, done>>

Timer(b) ==
  /\ b \in open \ late
  /\ late' = late \cup {b}
  /\ UNCHANGED <<open, rem, cancelled, stopped, asked, errChan, queueVars,
                 rosterVars, workerVars, offers, pc, quit, done>>

Cancel(b) ==
  /\ b \in asked \ cancelled
  /\ cancelled' = cancelled \cup {b}
  /\ UNCHANGED <<open, rem, late, stopped, asked, errChan, queueVars,
                 rosterVars, workerVars, offers, pc, quit, done>>

Stop ==
  /\ ~quit /\ quit' = TRUE
  /\ UNCHANGED <<batchVars, queueVars, rosterVars, workerVars, offers, pc, done>>

-----------------------------------------------------------------------------

Dispatcher ==
  \/ Top \/ HandOver \/ Forget \/ Shutdown
  \/ \E w \in Worker : Result(w)

Next ==
  \/ Dispatcher
  \/ \E p \in Peer : Connect(p)
  \/ \E b \in Batch : NewBatch(b) \/ Timer(b) \/ Cancel(b)
  \/ \E w \in Worker : Run(w) \/ Disconnect(w)
  \/ Stop

\* Goroutines that can run do, and a stable peer connects sooner or later.
Fairness ==
  /\ WF_vars(Dispatcher)
  /\ \A w \in Worker : WF_vars(Run(w))
  /\ \A p \in Stable : SF_vars(Connect(p))

Spec == Init /\ [][Next]_vars /\ Fairness

-----------------------------------------------------------------------------
(* Properties                                                                *)

WorkTypeOK ==
  /\ work \subseteq Query /\ current \subseteq Query /\ done \subseteq Query
  /\ tries \in [Query -> 0..NumRetries]
  /\ open \subseteq Batch /\ rem \in [Batch -> 0..Size]
  /\ late \subseteq Batch /\ cancelled \subseteq Batch /\ stopped \subseteq Batch
  /\ asked \subseteq Batch /\ errChan \in [Batch -> Seq(Reply)]
  /\ workers \in [Peer -> Worker \cup {0}] /\ active \in [Worker -> Query \cup {0}]
  /\ rank \in [Peer -> (0..WorstScore) \cup {None}]
  /\ offers \in Seq(Peer) /\ pc \in {"top", "offer", "returned", "panic"}
  /\ quit \in BOOLEAN
  /\ addr \in [Worker -> Peer \cup {None}] /\ up \subseteq Worker
  /\ at \in [Worker -> {"unborn", "waiting", "working", "reporting", "exited"}]
  /\ job \in [Worker -> Query \cup {0}] /\ err \in [Worker -> Reply]

Held == {job[w] : w \in {v \in Worker : at[v] \in {"working", "reporting"}}}

\* A caller gets at most one answer: errChan has room for one only, and a
\* second send would block the dispatcher for good.
OneAnswer == \A b \in Batch :
  /\ Len(errChan[b]) <= 1
  /\ b \in open => errChan[b] = <<>>

\* A nil error means that peers answered every query of the batch.
OkMeansAnswered == \A b \in Batch :
  errChan[b] = <<"ok">> => \A q \in Query : BatchOf(q) = b => q \in done

\* Every query of a batch that is under way has been answered, or waits in the
\* queue, or is with a worker: retries lose none and duplicate none.
NoQueryLost ==
  pc \in {"top", "offer"} /\ ~quit => \A q \in Query : BatchOf(q) \in open =>
    /\ q \in done \cup work \cup Held
    /\ q \in work => q \notin done \cup Held
    /\ q \in current <=> q \notin done

\* The dispatcher knows which workers are busy: otherwise it offers a job to a
\* worker that is itself waiting for the dispatcher to take its result.
SlotsAgree ==
  /\ WorkTypeOK
  /\ pc # "returned" => \A p \in Peer :
       workers[p] # 0 /\ at[workers[p]] \in {"working", "reporting"} /\ ~quit =>
         active[workers[p]] = job[workers[p]]

\* With a peer that stays, every batch is answered in the end.
BatchAnswered == \A b \in Batch : b \in open ~> errChan[b] # <<>>

\* NewJob: "If the worker reads a queryJob from this channel, it is guaranteed
\* that a response will eventually be deliverd on the results channel".
ResultDelivered ==
  \A w \in Worker : at[w] = "working" ~> at[w] \in {"waiting", "exited"} \/ quit

\* Timeout: "the total time a query is allowed to be tried before it is failed".
TimeoutHonoured == \A b \in Batch : b \in open /\ b \in late ~> errChan[b] # <<>>

\* numRetries: "the number of times that a query should be retried before
\* failing": one more attempt than retries.
RetriedBeforeFailing == \A b \in Batch :
  b \notin late /\ errChan[b] \in {<<"timeout">>, <<"disconnected">>} =>
    \E q \in Query : BatchOf(q) = b /\ tries[q] > NumRetries

\* "When deleting the particular batch number we need to make sure to cancel all
\* queued and ongoing queryJobs": a worker at a job of a deleted batch finds one
\* of the job's cancel channels closed.
NoWastedWork == \A w \in Worker :
  at[w] = "working" /\ ~quit => BatchOf(job[w]) \in open \cup cancelled \cup stopped
=============================================================================
