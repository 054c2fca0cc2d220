-------------------------- MODULE FetchPoolProofs --------------------------
(***************************************************************************)
(* Proofs about FetchPool for every number of chunks and workers and every *)
(* limit on attempts.                                                      *)
(***************************************************************************)
EXTENDS FetchPool, TLAPS

(* A pool starts with every worker waiting and nothing handed out.         *)
LEMMA PoolInit == Init => IInv
<1> SUFFICES ASSUME Init PROVE IInv
  OBVIOUS
<1>1. TypeOK
  <2>1. next \in 1..(N + 1)
    BY PoolAssumption DEF Init
  <2>2. pc \in [Workers -> Steps] /\ attempt \in [Workers -> Nat]
    BY DEF Init, Steps
  <2>3. job \in [Workers -> Chunks \union {None}] /\ err \in [Workers -> Errors \union {None}]
    BY DEF Init
  <2> QED BY <2>1, <2>2, <2>3 DEF Init, TypeOK
<1>2. JobsAccounted
  BY PoolAssumption DEF Init, JobsAccounted, Chunks, Busy
<1>3. CausesKept
  BY PoolAssumption DEF Init, CausesKept, FirstErrorIsCause, Done
<1> QED BY <1>1, <1>2, <1>3 DEF IInv

(* Every step keeps the types.                                             *)
LEMMA PoolTypes == IInv /\ [Next]_vars => TypeOK'
<1> SUFFICES ASSUME IInv, [Next]_vars PROVE TypeOK'
  OBVIOUS
<1> USE PoolAssumption DEF TypeOK, Chunks, Errors, Steps, Goto, ctx, sender, worker
<1>0. TypeOK
  BY DEF IInv
<1>1. ASSUME NEW w \in Workers, Send(w) PROVE TypeOK'
  BY <1>0, <1>1 DEF Send
<1>2. CASE CloseJobs
  BY <1>0, <1>2 DEF CloseJobs
<1>3. CASE WaitReturns
  BY <1>0, <1>3 DEF WaitReturns
<1>4. ASSUME NEW w \in Workers, Try(w) PROVE TypeOK'
  BY <1>0, <1>4 DEF Try, Fails
<1>5. ASSUME NEW w \in Workers, Receive(w) \/ Refuse(w) PROVE TypeOK'
  BY <1>0, <1>5 DEF Receive, Refuse, Fails
<1>6. ASSUME NEW w \in Workers, Lose(w) PROVE TypeOK'
  BY <1>0, <1>6 DEF Lose, Fails
<1>7. ASSUME NEW w \in Workers, Wake(w) PROVE TypeOK'
  BY <1>0, <1>7 DEF Wake, Fails
<1>8. ASSUME NEW w \in Workers, Write(w) PROVE TypeOK'
  <2>1. job[w] \in Chunks
    BY <1>8 DEF Write, IInv, JobsAccounted, Busy
  <2> QED BY <1>0, <1>8, <2>1 DEF Write, Fails
<1>9. ASSUME NEW w \in Workers, Report(w) \/ Leave(w) PROVE TypeOK'
  BY <1>0, <1>9 DEF Report, Leave
<1>10. CASE Cancel
  BY <1>0, <1>10 DEF Cancel
<1>11. CASE UNCHANGED vars
  BY <1>0, <1>11 DEF vars
<1> QED
  BY <1>1, <1>2, <1>3, <1>4, <1>5, <1>6, <1>7, <1>8, <1>9, <1>10, <1>11
     DEF Next, SenderStep, WorkerStep, Returned

(* A step that moves one worker between the states in which it holds its   *)
(* job keeps the account of the jobs.                                      *)
LEMMA HoldsJob ==
    ASSUME IInv, NEW w \in Workers, pc[w] \in Busy, NEW s \in Busy \union {"report"},
           pc' = [pc EXCEPT ![w] = s], job' = job, next' = next, committed' = committed,
           firstErr' = firstErr,
           \/ err' = err /\ s # "report"
           \/ \E e \in Errors : err' = [err EXCEPT ![w] = e]
    PROVE  JobsAccounted'
<1>1. TypeOK /\ JobsAccounted
  BY DEF IInv
<1>2. \A v \in Workers : v # w => pc'[v] = pc[v] /\ err'[v] = err[v]
  BY <1>1 DEF TypeOK
<1>3. pc'[w] = s /\ (s = "report" => err'[w] # None)
  BY <1>1, PoolAssumption DEF TypeOK, Errors
<1> QED BY <1>1, <1>2, <1>3 DEF JobsAccounted, Busy, Chunks

(* Every step keeps the account of the jobs.                               *)
LEMMA PoolJobs == IInv /\ [Next]_vars => JobsAccounted'
<1> SUFFICES ASSUME IInv, [Next]_vars PROVE JobsAccounted'
  OBVIOUS
<1>0. TypeOK /\ JobsAccounted
  BY DEF IInv
<1> USE PoolAssumption DEF ctx, sender, worker, Goto
<1>1. ASSUME NEW w \in Workers, Send(w) PROVE JobsAccounted'
  <2>1. /\ pc'[w] = "try" /\ job'[w] = next /\ next' = next + 1 /\ next \in Chunks
        /\ committed' = committed /\ firstErr' = firstErr /\ err' = err
    BY <1>0, <1>1 DEF Send, TypeOK, Chunks
  <2>2. \A v \in Workers : v # w => pc'[v] = pc[v] /\ job'[v] = job[v]
    BY <1>0, <1>1 DEF Send, TypeOK
  <2>3. job[w] = None
    BY <1>0, <1>1 DEF Send, JobsAccounted
  <2>4. \A v \in Workers : job[v] # None => job[v] < next /\ job[v] \in Chunks
    BY <1>0 DEF JobsAccounted, TypeOK
  <2>5. \A c \in Chunks : c < next' => c < next \/ c = next
    BY <1>0, <2>1 DEF TypeOK, Chunks
  <2>6. ASSUME NEW v \in Workers
        PROVE  /\ pc'[v] \in Busy => job'[v] \in Chunks /\ job'[v] < next'
               /\ pc'[v] = "report" => err'[v] # None
               /\ job'[v] # None => job'[v] < next' /\ job'[v] \notin committed'
               /\ pc'[v] = "gone" /\ job'[v] # None => firstErr' # None
               /\ pc'[v] = "range" => job'[v] = None
    BY <1>0, <2>1, <2>2, <2>4 DEF JobsAccounted, Chunks, TypeOK
  <2>7. \A u, v \in Workers : job'[u] # None /\ job'[u] = job'[v] => u = v
    BY <1>0, <2>1, <2>2, <2>4 DEF JobsAccounted, Chunks, TypeOK
  <2>8. ASSUME NEW c \in Chunks, c < next'
        PROVE  c \in committed' \/ \E v \in Workers : job'[v] = c
    BY <1>0, <2>1, <2>2, <2>3, <2>5, <2>8 DEF JobsAccounted, Chunks
  <2>9. \A c \in committed' : c < next'
    BY <1>0, <2>1 DEF JobsAccounted, TypeOK, Chunks
  <2> QED BY <2>6, <2>7, <2>8, <2>9 DEF JobsAccounted
<1>2. CASE CloseJobs \/ WaitReturns \/ Cancel \/ UNCHANGED vars
  BY <1>0, <1>2 DEF CloseJobs, WaitReturns, Cancel, vars, JobsAccounted, Busy
<1>3. ASSUME NEW w \in Workers, Try(w) \/ Receive(w) \/ Refuse(w) \/ Lose(w) \/ Wake(w)
      PROVE  JobsAccounted'
  <2>1. CASE Try(w)
    BY <2>1, HoldsJob DEF Try, Fails, Busy, Errors
  <2>2. CASE Receive(w)
    BY <2>2, HoldsJob DEF Receive, Busy
  <2>3. CASE Refuse(w)
    BY <2>3, HoldsJob DEF Refuse, Fails, Busy, Errors
  <2>4. CASE Lose(w)
    BY <2>4, HoldsJob DEF Lose, Fails, Busy, Errors
  <2>5. CASE Wake(w)
    BY <2>5, HoldsJob DEF Wake, Fails, Busy, Errors
  <2> QED BY <1>3, <2>1, <2>2, <2>3, <2>4, <2>5
<1>4. ASSUME NEW w \in Workers, Write(w) PROVE JobsAccounted'
  <2>1. CASE job' = job
    <3>1. Fails(w, "permanent") \/ job[w] = None
      BY <1>0, <1>4, <2>1 DEF Write, TypeOK
    <3>2. Fails(w, "permanent") /\ committed' = committed
      BY <1>0, <1>4, <2>1, <3>1 DEF Write, TypeOK, JobsAccounted, Busy, Chunks
    <3> QED BY <1>4, <2>1, <3>2, HoldsJob DEF Write, Fails, Busy, Errors
  <2>2. CASE job' # job
    <3>1. /\ pc[w] = "write" /\ pc'[w] = "range" /\ job'[w] = None
          /\ committed' = committed \union {job[w]} /\ err' = err
          /\ next' = next /\ firstErr' = firstErr
      BY <1>0, <1>4, <2>2 DEF Write, TypeOK
    <3>2. \A v \in Workers : v # w => pc'[v] = pc[v] /\ job'[v] = job[v]
      BY <1>0, <1>4 DEF Write, Fails, TypeOK
    <3>3. job[w] \in Chunks /\ job[w] < next /\ job[w] # None
      BY <1>0, <3>1 DEF JobsAccounted, Busy, Chunks
    <3>4. \A v \in Workers : v # w => job[v] # job[w]
      BY <1>0, <3>3 DEF JobsAccounted
    <3> QED BY <1>0, <3>1, <3>2, <3>3, <3>4 DEF JobsAccounted, Busy
  <2> QED BY <2>1, <2>2
<1>5. ASSUME NEW w \in Workers, Report(w) PROVE JobsAccounted'
  <2>1. pc'[w] = "gone" /\ firstErr' # None
    BY <1>0, <1>5 DEF Report, TypeOK, JobsAccounted
  <2>2. \A v \in Workers : v # w => pc'[v] = pc[v]
    BY <1>0, <1>5 DEF Report, TypeOK
  <2> QED BY <1>0, <1>5, <2>1, <2>2 DEF Report, JobsAccounted, Busy
<1>6. ASSUME NEW w \in Workers, Leave(w) PROVE JobsAccounted'
  <2>1. pc'[w] = "gone" /\ job'[w] = None
    BY <1>0, <1>6 DEF Leave, TypeOK, JobsAccounted
  <2>2. \A v \in Workers : v # w => pc'[v] = pc[v]
    BY <1>0, <1>6 DEF Leave, TypeOK
  <2> QED BY <1>0, <1>6, <2>1, <2>2 DEF Leave, JobsAccounted, Busy
<1> QED
  BY <1>1, <1>2, <1>3, <1>4, <1>5, <1>6
     DEF Next, SenderStep, WorkerStep, Returned

(* Every step keeps the causes: a done context has one.                    *)
LEMMA PoolCauses == IInv /\ [Next]_vars => CausesKept'
<1> SUFFICES ASSUME IInv, [Next]_vars PROVE CausesKept'
  OBVIOUS
<1>0. TypeOK /\ CausesKept /\ JobsAccounted
  BY DEF IInv
<1> USE PoolAssumption DEF ctx, sender, worker, Goto, CausesKept, FirstErrorIsCause, Done
<1>1. ASSUME NEW w \in Workers, Send(w) PROVE CausesKept'
  BY <1>0, <1>1 DEF Send, TypeOK
<1>2. CASE CloseJobs
  BY <1>0, <1>2 DEF CloseJobs, TypeOK
<1>3. CASE WaitReturns
  BY <1>0, <1>3 DEF WaitReturns
<1>4. ASSUME NEW w \in Workers, Try(w) PROVE CausesKept'
  BY <1>0, <1>4 DEF Try, Fails, TypeOK
<1>5. ASSUME NEW w \in Workers, Receive(w) \/ Refuse(w) PROVE CausesKept'
  BY <1>0, <1>5 DEF Receive, Refuse, Fails, TypeOK
<1>6. ASSUME NEW w \in Workers, Lose(w) PROVE CausesKept'
  BY <1>0, <1>6 DEF Lose, Fails, TypeOK
<1>7. ASSUME NEW w \in Workers, Wake(w) PROVE CausesKept'
  BY <1>0, <1>7 DEF Wake, Fails, TypeOK
<1>8. ASSUME NEW w \in Workers, Write(w) PROVE CausesKept'
  BY <1>0, <1>8 DEF Write, Fails, TypeOK
<1>9. ASSUME NEW w \in Workers, Report(w) PROVE CausesKept'
  <2>1. err[w] # None /\ err[w] \in Errors
    BY <1>0, <1>9 DEF Report, JobsAccounted, TypeOK
  <2>2. firstErr = None => ~fetchCanceled
    BY <1>0
  <2>3. err[w] = "canceled" /\ firstErr = None => canceled
    BY <1>0, <2>2
  <2>4. firstErr' # None /\ (firstErr' = "canceled" => canceled')
    BY <1>0, <1>9, <2>1, <2>3 DEF Report
  <2> QED BY <1>0, <1>9, <2>4 DEF Report, TypeOK
<1>10. ASSUME NEW w \in Workers, Leave(w) PROVE CausesKept'
  BY <1>0, <1>10 DEF Leave, TypeOK
<1>11. CASE Cancel
  BY <1>0, <1>11 DEF Cancel
<1>12. CASE UNCHANGED vars
  BY <1>0, <1>12 DEF vars
<1> QED
  BY <1>1, <1>2, <1>3, <1>4, <1>5, <1>6, <1>7, <1>8, <1>9, <1>10, <1>11, <1>12
     DEF Next, SenderStep, WorkerStep, Returned

(* The inductive invariant holds in every reachable state.                 *)
THEOREM PoolInvariant == Spec => []IInv
<1>1. IInv /\ [Next]_vars => IInv'
  BY PoolTypes, PoolJobs, PoolCauses DEF IInv
<1> QED BY PoolInit, <1>1, PTL DEF Spec

(* The error the fetch reports is never the pool's own cancellation.       *)
THEOREM PoolReportsCause == Spec => []FirstErrorIsCause
<1>1. IInv => FirstErrorIsCause
  BY DEF IInv, CausesKept
<1> QED BY PoolInvariant, <1>1, PTL

(* The initial state of the pool is one of the abstract fetch.             *)
LEMMA FetchStarts == Init => Fetch!Init
BY DEF Init, Fetch!Init

(* Every step of the pool is a step of the abstract fetch or changes       *)
(* neither the cache nor the result.                                       *)
LEMMA FetchSteps == IInv /\ [Next]_vars => [Fetch!Next]_(Fetch!vars)
<1> SUFFICES ASSUME IInv, [Next]_vars PROVE [Fetch!Next]_(Fetch!vars)
  OBVIOUS
<1>0. TypeOK /\ JobsAccounted /\ CausesKept
  BY DEF IInv
<1> USE DEF Fetch!vars
<1>1. CASE WaitReturns
  <2>1. CASE firstErr # None \/ canceled
    BY <1>1, <2>1 DEF WaitReturns, Fetch!Next, Fetch!Fail
  <2>2. CASE firstErr = None /\ ~canceled
    <3>1. next > N
      BY <1>0, <1>1, <2>2, PoolAssumption DEF WaitReturns, CausesKept, Done, TypeOK
    <3>2. \A w \in Workers : job[w] = None
      BY <1>0, <1>1, <2>2 DEF WaitReturns, JobsAccounted
    <3>3. ASSUME NEW c \in Chunks PROVE c \in committed
      <4>1. c < next /\ c # None
        BY <1>0, <3>1, PoolAssumption DEF TypeOK, Chunks
      <4> QED BY <1>0, <3>2, <4>1 DEF JobsAccounted
    <3>4. committed = Chunks
      BY <1>0, <3>3 DEF TypeOK
    <3> QED BY <1>1, <2>2, <3>4 DEF WaitReturns, Fetch!Next, Fetch!Succeed
  <2> QED BY <2>1, <2>2
<1>2. ASSUME NEW w \in Workers, Write(w) PROVE [Fetch!Next]_(Fetch!vars)
  <2>1. result = "running"
    BY <1>0, <1>2 DEF Write, CausesKept, TypeOK
  <2>2. job[w] \in Chunks /\ job[w] \notin committed
    BY <1>0, <1>2, PoolAssumption DEF Write, JobsAccounted, Busy, Chunks
  <2>3. CASE committed' = committed
    BY <1>2, <2>3 DEF Write
  <2>4. CASE committed' = committed \union {job[w]}
    <3>1. Fetch!Commit(job[w])
      BY <1>2, <2>1, <2>2, <2>4 DEF Write, Fetch!Commit
    <3> QED BY <2>2, <3>1 DEF Fetch!Next
  <2> QED BY <1>2, <2>3, <2>4 DEF Write
<1>3. CASE CloseJobs \/ Cancel \/ UNCHANGED vars
  BY <1>3 DEF CloseJobs, Cancel, vars
<1>4. ASSUME NEW w \in Workers, Send(w) \/ Try(w) \/ Receive(w) \/ Refuse(w)
      PROVE  [Fetch!Next]_(Fetch!vars)
  BY <1>4 DEF Send, Try, Receive, Refuse
<1>5. ASSUME NEW w \in Workers, Lose(w) \/ Wake(w) \/ Report(w) \/ Leave(w)
      PROVE  [Fetch!Next]_(Fetch!vars)
  BY <1>5 DEF Lose, Wake, Report, Leave
<1> QED
  BY <1>1, <1>2, <1>3, <1>4, <1>5 DEF Next, SenderStep, WorkerStep, Returned

(* The pool implements the fetch that Sync relies on.                      *)
THEOREM PoolImplementsFetch == Spec => ImplementsFetch
<1> QED BY PoolInvariant, FetchStarts, FetchSteps, PTL
        DEF Spec, ImplementsFetch, Fetch!Spec
=============================================================================
