-------------------------- MODULE L1SourceProperties --------------------------
(***************************************************************************)
(* What the driver relies on when it reads L1 through l1.Source, with the  *)
(* reference definitions of the deposits and batches of a real L1 block.   *)
(* A block's body says which deposits its transactions made through the    *)
(* portal and which batches they posted.                                   *)
(***************************************************************************)
EXTENDS L1Source

(* The deposits of a block, from the calls to the portal that made them. *)
DepositsMade(h) ==
  LET body == world[h].body
      at(i, j) == [i |-> i, j |-> j, index |-> EventsBefore(h, i) + j - 1]
      made == SetToSortSeq({at(i, j) : <<i, j>> \in {<<i, j>> \in (1 .. 3) \X (1 .. 3) :
                  /\ i \in DOMAIN body /\ j \in DOMAIN body[i].events
                  /\ body[i].events[j].made # Nil}},
                LAMBDA a, b : a.index < b.index)
      expected(d, index) ==
        [source |-> <<0, h, index>>, from |-> d.from, to |-> IF d.creation THEN Nil ELSE d.to,
         mint |-> IF d.mint = 0 THEN Nil ELSE d.mint, value |-> d.value, gas |-> d.gas,
         data |-> d.data]
  IN  [k \in DOMAIN made |->
        <<"deposit", expected(body[made[k].i].events[made[k].j].made, made[k].index)>>]

(* The batches that the batch submitter posted in a block. *)
BatchesPosted(h) ==
  FlattenSeq([i \in DOMAIN world[h].body |-> world[h].body[i].posted])

Got(name) == out.op = name /\ out.ok

-----------------------------------------------------------------------------
(* Type invariant, with the room in the channels and the caches. *)
TypeOK ==
  /\ main.round \in 0 .. MaxParallel /\ main.count \in Nat /\ main.awaited \in 0 .. main.n
  /\ status \in {"none", "running", "ok", "too many retries", "batch failed", "canceled"}
  /\ Len(batchRequests) <= MaxParallel /\ Len(completed) <= MaxParallel
  /\ \A w \in DOMAIN worker :
       worker[w].pc \in {"idle", "calling", "writing", "panicked"}
  /\ Error \subseteq DOMAIN answer
  /\ client \in {"open", "closing", "waited", "noSema", "closed"}
  /\ Len(headersCache) <= CacheSize /\ Len(transactionsCache) <= CacheSize

(* A fetch that returned without error left nothing behind: every request has its answer,    *)
(* no batch or result is in a channel, and no worker has one (the accounting of awaited,     *)
(* failed and success in fetchBatched).                                                      *)
CompleteOnSuccess ==
  status = "ok" =>
    /\ \A i \in DOMAIN answer : answer[i] # None
    /\ batchRequests = <<>> /\ completed = <<>>
    /\ \A w \in DOMAIN worker : worker[w].pc = "idle"

(* fetchBatched gives up only after at least MaxRetry failures, however they are spread over  *)
(* its batches (the count that ends its loop).  A block that the server does not have, which  *)
(* FetchAllTransactions asks for, is a failure every time.                                    *)
GivesUpLate ==
  (status = "too many retries" /\ op.name \in {"Fetch", "Range"}) => used.faults >= MaxRetry

(* The accounting of work that is shared by goroutines: the counters of fetchBatched, in      *)
(* success and in failure, and the capacities of its channels (in TypeOK).                    *)
WorkersAccounted == TypeOK /\ CompleteOnSuccess /\ GivesUpLate

(* Whatever the server answers, a cached header and a cached list of transactions are those  *)
(* of the block that has the hash they are cached under (headerCall, blockCall,              *)
(* FetchAllTransactions and L1Range verify before they add).                                 *)
CachesTruthful ==
  /\ \A h \in Keys(headersCache) : Cached(headersCache, h) = Info(Sent(h))
  /\ \A h \in Keys(transactionsCache) : Cached(transactionsCache, h) = Txs(h)

(* What Fetch returns gives exactly the deposits of a real L1 block, in order, with the      *)
(* source hashes of their own log indices: "Of real L1 blocks no deposits can be             *)
(* missed/faked" (SourceConfig.TrustRPC).  The block is the one asked for if the server      *)
(* did not answer with another.                                                              *)
DepositsExact ==
  Got("Fetch") =>
    /\ DeriveDeposits(out.receipts) = DepositsMade(out.info.hash)
    /\ used.lies = 0 => out.info.hash = out.q.hash

(* The lists that FetchAllTransactions returns give exactly the batches posted in the window *)
(* in the order of its blocks, however it was put together from cache and batch, and with a  *)
(* server that answers with other blocks, those of real blocks.                              *)
BatchesExact ==
  Got("Txs") =>
    /\ \A k \in DOMAIN out.window : \E h \in Hashes : out.lists[k] = Txs(h)
    /\ used.lies = 0 =>
         BatchesFromEVMTransactions(out.lists)
           = FlattenSeq([k \in DOMAIN out.window |-> BatchesPosted(out.window[k])])

(* The blocks that L1Range returns are a chain of real blocks that begins after the block it *)
(* was asked to begin after, even if L1 changes between the batches; it is shorter than      *)
(* asked for only if L1 has no more blocks.                                                  *)
RangeIsChain ==
  Got("Range") =>
    /\ \A i \in DOMAIN out.range :
         world[out.range[i]].parent = IF i = 1 THEN out.begin ELSE out.range[i - 1]
    /\ (used.lies = 0 /\ used.reorgs = 0 /\ out.begin \in Canonical) =>
         Len(out.range) = Min({out.max, world[tip].number - world[out.begin].number})

(* What a call of the source returns is what real L1 blocks contain, however it was put       *)
(* together: by Fetch, FetchAllTransactions and L1Range.                                      *)
AnswersExact == DepositsExact /\ BatchesExact /\ RangeIsChain

(* The L2 blocks of an epoch that starts at a fetched L1 block.                              *)
UserTxs == <<MarshalTx("user", "a"), MarshalTx("user", "b")>>
EpochBlock(seqNumber, batchTxs) ==
  [number |-> 5 + seqNumber, hash |-> <<"L2", seqNumber>>, time |-> 20 + seqNumber,
   txs |-> PayloadTxs(seqNumber, out.info, out.receipts, batchTxs)]

(* No two deposits of an epoch, L1 info deposits included, have the same source hash         *)
(* (UserDepositSource, L1InfoDepositSource).                                                 *)
SourcesUnique ==
  Got("Fetch") =>
    LET deposits == SelectSeq(EpochBlock(0, <<>>).txs \o EpochBlock(1, <<>>).txs, IsDepositTx)
    IN  \A i, j \in DOMAIN deposits : deposits[i][2].source = deposits[j][2].source => i = j

(* What op-node reads back out of an L2 block is what it was built from: the L1 origin and   *)
(* the sequence number (PayloadToBlockRef), and for a block with transactions of its own,    *)
(* the batch with just these (BlockToBatch).                                                 *)
BlockReadBack ==
  Got("Fetch") =>
    \A n \in 0 .. 1, txs \in {<<>>, UserTxs} :
      LET block == EpochBlock(n, txs)
          ref == BlockRef(block, [number |-> 0, hash |-> "L2 genesis", l1 |-> "L1 genesis"])
          batch == BlockToBatch(block)
      IN  /\ ref.origin = [hash |-> out.info.hash, number |-> out.info.number]
          /\ ref.seqNumber = n
          /\ batch # Malformed
          /\ txs # <<>> =>
               batch = [epoch |-> out.info.number, time |-> block.time, txs |-> txs]

(* The L2 blocks of an epoch stay apart and can be read back, for every L1 block that Fetch   *)
(* gives (l1_block_info.go, payload_attributes.go and l2/util.go).                            *)
EpochReadBack == SourcesUnique /\ BlockReadBack

(* The calls of fetchBatched that its channels have room for: the workers hold one batch      *)
(* each, and each channel as many again.                                                      *)
HasRoom == expectedBatches(main.n) <= 3 * maxParallel

(* Every call of the source returns, whatever fails (fetchBatched returns, and its caller     *)
(* with it), if its batches have room; and so does Close.  The workers of a call end, also    *)
(* when it returned early, if it has no more batches than workers (the capacity of completed, *)
(* batching.go:60).  Beyond these bounds see NoWorkerStuck.                                   *)
CallsReturn ==
  /\ [](op # NoOp /\ HasRoom => <>(op = NoOp))
  /\ [](client = "closing" => <>(client = "closed"))
  /\ []((status # "running" /\ expectedBatches(main.n) <= MaxParallel) =>
          <>(\A w \in DOMAIN worker : Ended(w) \/ worker[w].pc = "panicked"))

(* The comment at batching.go:59 on the channel of results: "capacity is sufficient for no    *)
(* go-routine to get stuck on writing".                                                       *)
NoWorkerStuck ==
  \A w \in 1 .. MaxParallel : [](w \in At("writing") => <>(w \notin At("writing")))
=============================================================================
