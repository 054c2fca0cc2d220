----------------------------- MODULE FetchPool -----------------------------
(***************************************************************************)
(* The worker pool in which Sync fetches the missing chunks                *)
(* (internal/lab/agent.go): a sender, an unbuffered channel of jobs, and   *)
(* workers that fetch with retries.  The first error cancels a context     *)
(* derived from Sync's own; the sender, every backoff and every request    *)
(* watch it.  Agent has this pool as its FetchChunk and FetchDone.         *)
(***************************************************************************)
EXTENDS Naturals

CONSTANTS
    N,            \* number of missing chunks, numbered in manifest order
    Workers,      \* AgentOptions.Workers goroutines
    Limits,       \* AgentOptions.MaxAttempts a run may have; 0 is unlimited
    None

Chunks == 1..N

ASSUME PoolAssumption ==
    /\ N \in Nat
    /\ Workers # {}
    /\ Limits \subseteq Nat
    /\ None \notin Nat /\ None \notin {"permanent", "exhausted", "canceled"}

VARIABLES
    limit,        \* MaxAttempts
    next,         \* the chunk the sender offers next
    jobsClosed,   \* close(jobs) was called
    pc,           \* where each worker is
    job,          \* the chunk it works on
    attempt,      \* the attempt of its retry loop
    err,          \* the error its retry returned
    firstErr,     \* set once, by errOnce
    canceled,     \* Sync's context was cancelled
    fetchCanceled,\* the pool called cancel()
    committed,    \* chunks written to the cache
    result        \* what the fetch returned: "running", "ok", "error"

sender == <<next, jobsClosed>>
worker == <<pc, job, attempt, err>>
ctx    == <<canceled, fetchCanceled>>
vars   == <<limit, sender, worker, ctx, firstErr, committed, result>>

Errors == {"permanent", "exhausted", "canceled"}

Steps == {"range", "try", "request", "write", "sleep", "report", "gone"}

TypeOK ==
    /\ limit \in Limits
    /\ next \in 1..(N + 1)
    /\ jobsClosed \in BOOLEAN
    /\ pc \in [Workers -> Steps]
    /\ job \in [Workers -> Chunks \union {None}]
    /\ attempt \in [Workers -> Nat]
    /\ err \in [Workers -> Errors \union {None}]
    /\ firstErr \in Errors \union {None}
    /\ canceled \in BOOLEAN /\ fetchCanceled \in BOOLEAN
    /\ committed \in SUBSET Chunks
    /\ result \in {"running", "ok", "error"}

Init ==
    /\ limit \in Limits
    /\ next = 1 /\ jobsClosed = FALSE
    /\ pc = [w \in Workers |-> "range"]
    /\ job = [w \in Workers |-> None]
    /\ attempt = [w \in Workers |-> 0]
    /\ err = [w \in Workers |-> None]
    /\ firstErr = None
    /\ canceled = FALSE /\ fetchCanceled = FALSE
    /\ committed = {}
    /\ result = "running"

(* fetchCtx.Done: the derived context ends with its parent.                *)
Done == canceled \/ fetchCanceled

Goto(w, step) == pc' = [pc EXCEPT ![w] = step]

-----------------------------------------------------------------------------
(* jobs <- c: the channel is unbuffered, so a worker takes it at once.     *)
Send(w) ==
    /\ ~jobsClosed
    /\ next <= N
    /\ pc[w] = "range"
    /\ next' = next + 1
    /\ job' = [job EXCEPT ![w] = next]
    /\ attempt' = [attempt EXCEPT ![w] = 0]
    /\ Goto(w, "try")
    /\ UNCHANGED <<limit, jobsClosed, err, ctx, firstErr, committed, result>>

(* The send loop has sent everything, or its select took fetchCtx.Done.    *)
CloseJobs ==
    /\ ~jobsClosed
    /\ next > N \/ Done
    /\ jobsClosed' = TRUE
    /\ UNCHANGED <<limit, next, worker, ctx, firstErr, committed, result>>

WaitReturnsSent == \* variant: only a worker's error is looked at
    /\ result = "running"
    /\ jobsClosed
    /\ \A w \in Workers : pc[w] = "gone"
    /\ result' = IF firstErr # None THEN "error" ELSE "ok"
    /\ UNCHANGED <<limit, sender, worker, ctx, firstErr, committed>>

(* wg.Wait returns; firstErr, then Sync's own context, decide.             *)
WaitReturns ==
    /\ result = "running"
    /\ jobsClosed
    /\ \A w \in Workers : pc[w] = "gone"
    /\ result' = IF firstErr # None \/ canceled THEN "error" ELSE "ok"
    /\ UNCHANGED <<limit, sender, worker, ctx, firstErr, committed>>

-----------------------------------------------------------------------------
(* A worker's retry returns an error.                                      *)
Fails(w, e) ==
    /\ err' = [err EXCEPT ![w] = e]
    /\ Goto(w, "report")

TryUnwatched(w) == \* variant: no look at the context before an attempt
    /\ pc[w] = "try"
    /\ attempt' = [attempt EXCEPT ![w] = IF limit > 0 THEN @ + 1 ELSE 0]
    /\ Goto(w, "request")
    /\ UNCHANGED <<limit, sender, job, err, ctx, firstErr, committed, result>>

(* The top of the retry loop: ctx.Err, then the next attempt.  Only the    *)
(* comparison with a positive limit reads the count.                       *)
Try(w) ==
    /\ pc[w] = "try"
    /\ \/ /\ Done
          /\ Fails(w, "canceled")
          /\ UNCHANGED attempt
       \/ /\ ~Done
          /\ attempt' = [attempt EXCEPT ![w] = IF limit > 0 THEN @ + 1 ELSE 0]
          /\ Goto(w, "request")
          /\ UNCHANGED err
    /\ UNCHANGED <<limit, sender, job, ctx, firstErr, committed, result>>

(* request and Decode succeeded: the bytes are the chunk.                  *)
Receive(w) ==
    /\ pc[w] = "request"
    /\ Goto(w, "write")
    /\ UNCHANGED <<limit, sender, job, attempt, err, ctx, firstErr, committed, result>>

(* A status other than 429 and 5xx, or a body beyond the signed size.      *)
Refuse(w) ==
    /\ pc[w] = "request"
    /\ Fails(w, "permanent")
    /\ UNCHANGED <<limit, sender, job, attempt, ctx, firstErr, committed, result>>

Exhausted(w) == limit > 0 /\ attempt[w] >= limit

(* 429, 5xx, a transport error, bytes that Decode rejects, or the request  *)
(* ended by its context: back off, or give up after the last attempt.      *)
Lose(w) ==
    /\ pc[w] = "request"
    /\ \/ /\ Exhausted(w)
          /\ \E e \in {"exhausted"} \union (IF Done THEN {"canceled"} ELSE {}) : Fails(w, e)
       \/ /\ ~Exhausted(w)
          /\ Goto(w, "sleep")
          /\ UNCHANGED err
    /\ UNCHANGED <<limit, sender, job, attempt, ctx, firstErr, committed, result>>

(* sleepContext: the timer or the context, either when both are ready.     *)
Wake(w) ==
    /\ pc[w] = "sleep"
    /\ \/ Goto(w, "try") /\ UNCHANGED err
       \/ Done /\ Fails(w, "canceled")
    /\ UNCHANGED <<limit, sender, job, attempt, ctx, firstErr, committed, result>>

(* AtomicWrite of the chunk, whatever the context says by now.  A disk     *)
(* failure is permanent.                                                   *)
Write(w) ==
    /\ pc[w] = "write"
    /\ \/ /\ committed' = committed \union {job[w]}
          /\ job' = [job EXCEPT ![w] = None]
          /\ Goto(w, "range")
          /\ UNCHANGED err
       \/ /\ Fails(w, "permanent")
          /\ UNCHANGED <<job, committed>>
    /\ UNCHANGED <<limit, sender, attempt, ctx, firstErr, result>>

CancelFirst(w) == \* variant: cancel() is called before errOnce.Do
    /\ pc[w] = "report"
    /\ \/ /\ ~fetchCanceled
          /\ fetchCanceled' = TRUE
          /\ UNCHANGED <<pc, firstErr>>
       \/ /\ fetchCanceled
          /\ firstErr' = IF firstErr = None THEN err[w] ELSE firstErr
          /\ Goto(w, "gone")
          /\ UNCHANGED fetchCanceled
    /\ UNCHANGED <<limit, sender, job, attempt, err, canceled, committed, result>>

(* errOnce.Do: the first error is kept and cancels the others.  The worker *)
(* leaves; the job it held stays undone.                                   *)
Report(w) ==
    /\ pc[w] = "report"
    /\ firstErr' = IF firstErr = None THEN err[w] ELSE firstErr
    /\ fetchCanceled' = TRUE
    /\ Goto(w, "gone")
    /\ UNCHANGED <<limit, sender, job, attempt, err, canceled, committed, result>>

(* The range over jobs ends.                                               *)
Leave(w) ==
    /\ pc[w] = "range"
    /\ jobsClosed
    /\ Goto(w, "gone")
    /\ UNCHANGED <<limit, sender, job, attempt, err, ctx, firstErr, committed, result>>

(* A signal or the deadline ends Sync's context.                           *)
Cancel ==
    /\ ~canceled
    /\ result = "running"
    /\ canceled' = TRUE
    /\ UNCHANGED <<limit, sender, worker, fetchCanceled, firstErr, committed, result>>

Returned == result # "running" /\ UNCHANGED vars

WorkerStep(w) ==
    \/ Try(w) \/ Receive(w) \/ Refuse(w) \/ Lose(w) \/ Wake(w) \/ Write(w)
    \/ Report(w) \/ Leave(w)

SenderStep == (\E w \in Workers : Send(w)) \/ CloseJobs \/ WaitReturns

Next == SenderStep \/ (\E w \in Workers : WorkerStep(w)) \/ Cancel \/ Returned

Spec == Init /\ [][Next]_vars

(* Every goroutine runs; a request ends, at the latest by its timeout; a   *)
(* backoff timer fires and a ready select is taken.                        *)
FairSpec ==
    /\ Spec
    /\ WF_vars(SenderStep)
    /\ \A w \in Workers : WF_vars(WorkerStep(w))

-----------------------------------------------------------------------------
Fetch == INSTANCE ChunkFetch

(* The pool is the fetch Sync relies on: whatever fails and whenever the   *)
(* context ends, no chunk is committed twice or after the return, and      *)
(* success means that every missing chunk is in the cache.                 *)
ImplementsFetch == Fetch!Spec

(* The error Sync reports is the one that stopped the pool: a worker that  *)
(* was only stopped by another's failure never hides that failure behind   *)
(* "context canceled" (firstErr is assigned before cancel, inside one      *)
(* Once).                                                                  *)
FirstErrorIsCause == firstErr = "canceled" => canceled

(* No failure strands the sender on the unbuffered channel or a worker in  *)
(* its backoff: once the context is done the call returns, and with a      *)
(* limit on attempts it always returns.                                    *)
PoolEnds ==
    /\ Done ~> result # "running"
    /\ limit > 0 ~> result # "running"

-----------------------------------------------------------------------------
Busy == {"try", "request", "write", "sleep"}

(* Every chunk handed out is committed, or in the hands of one worker, or  *)
(* was left by a worker that failed.                                       *)
JobsAccounted ==
    /\ \A w \in Workers :
          /\ pc[w] \in Busy => job[w] \in Chunks /\ job[w] < next
          /\ pc[w] = "report" => err[w] # None
          /\ job[w] # None => job[w] < next /\ job[w] \notin committed
          /\ pc[w] = "gone" /\ job[w] # None => firstErr # None
          /\ pc[w] = "range" => job[w] = None
    /\ \A v, w \in Workers : job[v] # None /\ job[v] = job[w] => v = w
    /\ \A c \in Chunks : c < next => c \in committed \/ \E w \in Workers : job[w] = c
    /\ \A c \in committed : c < next

(* A context that is done has a cause, and a sender that stopped early     *)
(* has a done context.                                                     *)
CausesKept ==
    /\ fetchCanceled <=> firstErr # None
    /\ \A w \in Workers : err[w] = "canceled" => Done
    /\ FirstErrorIsCause
    /\ jobsClosed /\ next <= N => Done
    /\ result # "running" => jobsClosed /\ \A w \in Workers : pc[w] = "gone"

(* The inductive invariant behind ImplementsFetch and FirstErrorIsCause.   *)
IInv == TypeOK /\ JobsAccounted /\ CausesKept
=============================================================================
