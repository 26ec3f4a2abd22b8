----------------------------- MODULE FetchBatched -----------------------------
(***************************************************************************)
(* fetchBatched (op-node/l1/batching.go): a list of RPC requests is split  *)
(* into batches, which worker goroutines send and whose failed elements    *)
(* are sent again, and the semaphore and the wait group of limitClient     *)
(* (op-node/l1/request_sema.go), through which the workers call.  A        *)
(* request is its position in the caller's list.                           *)
(***************************************************************************)
EXTENDS Naturals, SequencesExt, FiniteSetsExt

CONSTANTS
  MaxRetry, MaxPerBatch, MaxParallel,  \* the parameters of fetchBatched
  Failure,                             \* a reply that sets the Error of its element
  None                                 \* no reply yet

ASSUME FetchBatchedAssumption ==
  /\ MaxRetry \in Nat
  /\ {MaxPerBatch, MaxParallel} \subseteq Nat \ {0}

VARIABLES
  main,           \* the local variables of fetchBatched
  status,         \* whether it is running, or how it returned
  batchRequests,  \* channel: the batches for the workers
  completed,      \* channel: their results
  worker,         \* the workers: where they are, and with which batch and result
  answer,         \* per request, what its Result points to
  Error,          \* the requests of the caller's list whose Error is set
  client          \* limitClient: "open", or how far Close is: "closing", "waited", "noSema", "closed"

fetchVars == <<main, status, batchRequests, completed, worker, answer, Error>>

expectedBatches(n) == (n + MaxPerBatch - 1) \div MaxPerBatch
maxParallel == Min({MaxParallel, expectedBatches(main.n)})

maxCount == expectedBatches(main.n) * MaxRetry

(* Mutant: room for one result. *)
completedCapOne == 1

completedCap == maxParallel

NoBatch == [elems |-> <<>>, own |-> FALSE]
NoResult == [failed |-> <<>>, err |-> FALSE, success |-> 0]
AtRest == [pc |-> "idle", batch |-> NoBatch, result |-> NoResult]

NoFetch == [n |-> 0, requests |-> <<>>, own |-> FALSE, round |-> 0, count |-> 0, awaited |-> 0]

FetchInit ==
  /\ main = NoFetch /\ status = "none"
  /\ batchRequests = <<>> /\ completed = <<>>
  /\ worker = <<>> /\ answer = <<>> /\ Error = {}
  /\ client = "open"

(* A call with n requests: the workers it starts, and the first round of batches, which the  *)
(* channel has room for.  own: the requests are still slices of the caller's list, so that    *)
(* the Error of an element is seen by the caller.                                             *)
StartFetch(n) ==
  LET parallel == Min({MaxParallel, expectedBatches(n)})
      upTo(b) == Min({b * MaxPerBatch, n})
      from(b) == upTo(b - 1) + 1
      span(i, j) == [k \in 1 .. j - i + 1 |-> i + k - 1]
  IN  /\ main' = [n |-> n, requests |-> span(upTo(parallel) + 1, n), own |-> TRUE,
                  round |-> 0, count |-> parallel, awaited |-> n]
      /\ status' = "running"
      /\ batchRequests' = [b \in 1 .. parallel |-> [elems |-> span(from(b), upTo(b)), own |-> TRUE]]
      /\ completed' = <<>>
      /\ worker' = [w \in 1 .. parallel |-> AtRest]
      /\ answer' = [i \in 1 .. n |-> None] /\ Error' = {}
      /\ UNCHANGED client

-----------------------------------------------------------------------------
(* parallelRequests: one batch of the current round; blocks when the queue is full. *)
Sending == status = "running" /\ main.round > 0

parallelRequests ==
  /\ Sending /\ Len(batchRequests) < maxParallel
  /\ LET k == Min({MaxPerBatch, Len(main.requests)})
         left == SubSeq(main.requests, k + 1, Len(main.requests))
     IN  /\ batchRequests' =
              Append(batchRequests, [elems |-> SubSeq(main.requests, 1, k), own |-> main.own])
         /\ main' = [main EXCEPT !.requests = left, !.count = @ + 1,
                                 !.round = IF left = <<>> THEN 0 ELSE @ - 1]
  /\ UNCHANGED <<status, completed, worker, answer, Error, client>>

(* The loop: return, or wait for the ticker, a result or the end of the context. *)
Return(how) ==
  status' = how /\ UNCHANGED <<main, batchRequests, completed, worker, answer, Error, client>>

ReturnDone ==
  /\ status = "running" /\ ~ Sending
  /\ \/ main.awaited <= 0 /\ Return("ok")
     \/ main.awaited > 0 /\ main.count > maxCount /\ Return("too many retries")

Selecting == status = "running" /\ ~ Sending /\ main.awaited > 0 /\ main.count <= maxCount

RetryTick ==
  /\ Selecting /\ main.requests # <<>>
  /\ main' = [main EXCEPT !.round = maxParallel]
  /\ UNCHANGED <<status, batchRequests, completed, worker, answer, Error, client>>

ReceiveResult ==
  /\ Selecting /\ completed # <<>>
  /\ completed' = Tail(completed)
  /\ LET r == Head(completed)
     IN  /\ status' = IF r.err THEN "batch failed" ELSE "running"
         /\ main' = IF r.err THEN main
                    ELSE [main EXCEPT !.requests = @ \o r.failed, !.awaited = @ - r.success,
                                      !.own = @ /\ r.failed = <<>>]
  /\ UNCHANGED <<batchRequests, worker, answer, Error, client>>

ContextDone == Selecting /\ Return("canceled")

-----------------------------------------------------------------------------
At(pc) == {w \in DOMAIN worker : worker[w].pc = pc}

(* The workers.  A closed channel still hands out the batches that are in it.  The call goes *)
(* through limitClient.BatchCallContext, which joins the wait group and then panics if the    *)
(* semaphore was closed (also when it joined before that; only then has nobody waited for it); *)
(* a full semaphore would only delay it, and does not with a            *)
(* MaxConcurrentRequests of at least the number of workers.  Idle workers are alike: the      *)
(* first of them takes the batch.                                                             *)
TakeBatch(w) ==
  /\ w \in At("idle") /\ w = Min(At("idle")) /\ batchRequests # <<>>
  /\ worker' = [worker EXCEPT ![w].batch = Head(batchRequests),
                              ![w].pc = IF client \in {"noSema", "closed"} THEN "panicked" ELSE "calling"]
  /\ batchRequests' = Tail(batchRequests)
  /\ UNCHANGED <<main, status, completed, answer, Error, client>>

(* A worker ends when the channel is closed and empty. *)
Ended(w) == worker[w].pc = "idle" /\ batchRequests = <<>> /\ status # "running"

(* A worker is stuck when nobody reads the full channel of results any more. *)
Stuck(w) == worker[w].pc = "writing" /\ status # "running" /\ Len(completed) = completedCap

(* The worker's result goes into the channel at once if there is room. *)
Complete(w, result) ==
  IF Len(completed) < completedCap
  THEN completed' = Append(completed, result) /\ worker' = [worker EXCEPT ![w] = AtRest]
  ELSE worker' = [worker EXCEPT ![w].pc = "writing", ![w].result = result] /\ UNCHANGED completed

(* Mutant: elements that failed count as done. *)
ResultOfAll(elems, failed) == [failed |-> failed, err |-> FALSE, success |-> Len(elems)]

Result(elems, failed) == [failed |-> failed, err |-> FALSE, success |-> Len(elems) - Len(failed)]

(* batchRequest: the call returns and gives up its place.  The Error of an element is set in  *)
(* the array that the batch is a slice of; the reset on line 41 only changes a copy.          *)
batchRequest(w, reply) ==
  LET batch == worker[w].batch
      bad == {e \in ToSet(batch.elems) : reply[e] = Failure}
  IN  /\ worker[w].pc = "calling" /\ status = "running"
      /\ Complete(w, Result(batch.elems, SelectSeq(batch.elems, LAMBDA e : e \in bad)))
      /\ answer' = [e \in DOMAIN answer |->
           IF e \in ToSet(batch.elems) \ bad THEN reply[e] ELSE answer[e]]
      /\ Error' = IF batch.own THEN Error \cup bad ELSE Error
      /\ UNCHANGED <<main, status, batchRequests, client>>

(* The call fails as a whole, as it does once the context is cancelled. *)
BatchFails(w) ==
  /\ worker[w].pc = "calling"
  /\ Complete(w, [NoResult EXCEPT !.err = TRUE])
  /\ UNCHANGED <<main, status, batchRequests, answer, Error, client>>

WriteResult(w) ==
  /\ worker[w].pc = "writing" /\ Len(completed) < completedCap
  /\ completed' = Append(completed, worker[w].result)
  /\ worker' = [worker EXCEPT ![w] = AtRest]
  /\ UNCHANGED <<main, status, batchRequests, answer, Error, client>>

-----------------------------------------------------------------------------
(* limitClient.Close: wait for the calls in progress, close the semaphore, close the client.  *)
(* A worker may begin another call between two of these; the closed client makes it fail.     *)
Close == client = "open" /\ client' = "closing" /\ UNCHANGED fetchVars

Waited == client = "closing" /\ At("calling") = {} /\ client' = "waited" /\ UNCHANGED fetchVars

CloseSema == client = "waited" /\ client' = "noSema" /\ UNCHANGED fetchVars

CloseClient == client = "noSema" /\ client' = "closed" /\ UNCHANGED fetchVars

Closing == Waited \/ CloseSema \/ CloseClient
Workers == \E w \in DOMAIN worker : TakeBatch(w) \/ WriteResult(w)
Fetching == parallelRequests \/ ReturnDone \/ RetryTick \/ ReceiveResult \/ Closing
=============================================================================
