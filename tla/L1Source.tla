------------------------------- MODULE L1Source -------------------------------
(***************************************************************************)
(* l1.Source (op-node/l1/source.go, types.go, receipts.go): the L1 data    *)
(* the driver reads, requested from an RPC server that may fail, may not   *)
(* have the data, may follow a reorg between two requests, and, unless it  *)
(* is trusted, may answer with data that is not that of the block asked    *)
(* for.                                                                    *)
(*                                                                         *)
(* world holds the real L1 blocks.  A block, or a header, as the server    *)
(* sends it is [claims, header, txs]: the hash it states, the block whose  *)
(* header it really is, and the list of transactions that comes with it.   *)
(* The roots in a header are equal to those of other data only if the data *)
(* are the same.  receiptsCache is written and never read, and left out.   *)
(***************************************************************************)
EXTENDS FetchBatched, L1Inputs

CONSTANTS
  Null,        \* the JSON null: the server does not have the data
  Worlds,      \* the sets of L1 blocks to consider
  Tips,        \* the blocks that L1 may have as its head
  Wanted,      \* the blocks that are asked for by hash
  Ranges,      \* where L1Range is asked to begin, and for how many blocks
  Windows,     \* the windows that FetchAllTransactions is called with
  CacheSize,   \* of headersCache and transactionsCache
  FirstTip,    \* the one it has at first
  MaxEvents    \* the number of calls, faults, lies and reorgs

(* SourceConfig.Check, and a cache: with size 0, which it accepts, there is none to write to. *)
Check == CacheSize \in Nat /\ MaxRetry \in 0 .. 20 /\ MaxParallel >= 1 /\ MaxPerBatch >= 1

ASSUME SourceAssumption == Check /\ CacheSize > 0

VARIABLES
  world, trustRPC, tip,
  headersCache, transactionsCache,
  op,    \* the call in progress, with its requests
  out,   \* the result of the last call
  used   \* how often each bounded event happened

sourceVars == <<world, trustRPC, tip, headersCache, transactionsCache, op, out, used>>
vars == <<sourceVars, fetchVars, client>>

Use(n) == used' = [e \in DOMAIN used |-> used[e] + (IF e \in DOMAIN n THEN n[e] ELSE 0)]
Left == MaxEvents - used.calls - used.faults - used.lies - used.reorgs
Use1(event) == Use([e \in {event} |-> 1])

-----------------------------------------------------------------------------
(* L1: blocks are lists of executed transactions with the events they emitted. *)
Hashes == DOMAIN world
Txs(h) == [i \in DOMAIN world[h].body |-> world[h].body[i].tx]

EventsBefore(h, i) ==
  Len(FlattenSeq([k \in 1 .. i - 1 |-> world[h].body[k].events]))

Receipt(h, i) ==
  LET done == world[h].body[i]
  IN  [txIndex |-> i, block |-> h, number |-> world[h].number, success |-> done.success,
       logs |-> [j \in DOMAIN done.events |->
                  [index |-> EventsBefore(h, i) + j - 1, txIndex |-> i, block |-> h,
                   number |-> world[h].number, tx |-> done.tx, removed |-> FALSE,
                   address |-> done.events[j].address, topics |-> done.events[j].topics,
                   data |-> done.events[j].data]]]

Receipts(h) == [i \in DOMAIN world[h].body |-> Receipt(h, i)]

Canonical == {h \in Hashes : h = tip \/ world[tip].parent = h
                              \/ (world[tip].parent \in Hashes /\ world[world[tip].parent].parent = h)}
AtNumber(n) == {h \in Canonical : world[h].number = n}

-----------------------------------------------------------------------------
(* What the server may answer: the data, nothing, or something else. *)
Sent(h) == [claims |-> h, header |-> h, txs |-> Txs(h)]

HonestReply(q) ==
  CASE q.kind = "number" -> IF AtNumber(q.number) = {} THEN {Null} ELSE {Sent(h) : h \in AtNumber(q.number)}
    [] q.kind = "hash" -> {Sent(q.hash)} \cup (IF q.hash \in Canonical THEN {} ELSE {Null})
    [] q.kind = "receipt" ->
         LET found == {Receipt(h, i) : <<h, i>> \in {<<h, i>> \in Canonical \X (1 .. 3) :
                         i \in DOMAIN world[h].body /\ world[h].body[i].tx = q.tx}}
         IN  IF found = {} THEN {Null} ELSE found

LyingReply(q) ==
  IF q.kind = "receipt"
  THEN {Null} \cup UNION {
         {[r EXCEPT !.logs = <<>>],
          [r EXCEPT !.txIndex = @ + 1],
          [r EXCEPT !.logs = [j \in DOMAIN @ |-> [@[j] EXCEPT !.index = @ + 1]]],
          [r EXCEPT !.logs = [j \in DOMAIN @ |-> [@[j] EXCEPT !.block = "other"]]],
          [r EXCEPT !.logs = [j \in DOMAIN @ |-> [@[j] EXCEPT !.removed = TRUE]]]}
         : r \in HonestReply(q) \ {Null}}
  ELSE LET h == IF q.kind = "hash" THEN q.hash ELSE tip
       IN  {Sent(o) : o \in Wanted \ {h}}
           \cup {[Sent(h) EXCEPT !.header = o] : o \in Wanted \ {h}}
           \cup {[Sent(h) EXCEPT !.txs = Txs(o)] : o \in Wanted \ {h}}

(* The answers that the bounds still allow, each with the event it uses up. *)
Replies(q, left) ==
  (HonestReply(q) \X {"none"})
  \cup (IF trustRPC \/ left = 0 THEN {} ELSE LyingReply(q) \X {"lies"})
  \cup (IF left = 0 THEN {} ELSE {<<Failure, "faults">>})

-----------------------------------------------------------------------------
(* rpcHeader.Info and rpcBlock.Info: the hash, and the list of transactions, are checked *)
(* against the header unless the server is trusted.                                       *)
HeaderOK(sent) == trustRPC \/ sent.claims = sent.header

(* Mutant: the list of transactions is not checked. *)
BlockOKHeaderOnly(sent) == HeaderOK(sent)

BlockOK(sent) == HeaderOK(sent) /\ (trustRPC \/ sent.txs = Txs(sent.header))

Info(sent) ==
  [hash |-> sent.claims, parent |-> world[sent.header].parent, number |-> world[sent.header].number,
   time |-> world[sent.header].time, baseFee |-> 7, receiptsOf |-> sent.header]

(* An LRU cache: a sequence of keys and values, the least recently used first. *)
Keys(cache) == {cache[i].key : i \in DOMAIN cache}
Cached(cache, k) == (CHOOSE e \in ToSet(cache) : e.key = k).value
Add(cache, k, v) ==
  LET c == Append(SelectSeq(cache, LAMBDA e : e.key # k), [key |-> k, value |-> v])
  IN  IF Len(c) > CacheSize THEN Tail(c) ELSE c
Touch(cache, k) == Add(cache, k, Cached(cache, k))

-----------------------------------------------------------------------------
NoOp == [name |-> "none", requests |-> <<>>]
NoOut == [op |-> "none", ok |-> FALSE]

Init ==
  /\ FetchInit
  /\ world \in Worlds /\ trustRPC \in BOOLEAN /\ tip = FirstTip
  /\ headersCache = <<>> /\ transactionsCache = <<>>
  /\ op = NoOp /\ out = NoOut
  /\ used = [e \in {"calls", "faults", "lies", "reorgs"} |-> 0]

(* The driver makes one call at a time.  The workers of a call that returned early end on   *)
(* their own and only hold up later ones, so a call starts when those before it have ended,  *)
(* or are stuck for good.                                                                     *)
Ready ==
  /\ op = NoOp /\ client = "open" /\ Left > 0
  /\ \A w \in DOMAIN worker : Ended(w) \/ Stuck(w)

Quiet == UNCHANGED <<world, trustRPC, tip>>
NoBatchCall == op' = NoOp /\ UNCHANGED <<fetchVars, client>>
Fails(name) == out' = [op |-> name, ok |-> FALSE]
UnusedCaches == UNCHANGED <<headersCache, transactionsCache>>

(* headerCall and blockCall: one request; a good answer is cached under the hash it states. *)
headerCall(name, q) ==
  \E <<sent, event>> \in Replies(q, Left - 1) :
    /\ Use([e \in {"calls", event} |-> 1])
    /\ UNCHANGED transactionsCache
    /\ IF sent \in {Failure, Null} \/ ~ HeaderOK(sent)
       THEN Fails(name) /\ UNCHANGED headersCache
       ELSE /\ out' = [op |-> name, ok |-> TRUE, q |-> q, info |-> Info(sent)]
            /\ headersCache' = Add(headersCache, sent.claims, Info(sent))

AddBlock(sent) ==
  /\ headersCache' = Add(headersCache, sent.claims, Info(sent))
  /\ transactionsCache' = Add(transactionsCache, sent.claims, sent.txs)

BadBlock(sent) == sent \in {Failure, Null} \/ ~ BlockOK(sent)

blockCall(name, q) ==
  \E <<sent, event>> \in Replies(q, Left - 1) :
    /\ Use([e \in {"calls", event} |-> 1])
    /\ IF BadBlock(sent)
       THEN Fails(name) /\ UnusedCaches
       ELSE /\ out' = [op |-> name, ok |-> TRUE, q |-> q, info |-> Info(sent), txs |-> sent.txs]
            /\ AddBlock(sent)

ByHash(h) == [kind |-> "hash", hash |-> h, number |-> 0, tx |-> Nil]
ByNumber(n) == [kind |-> "number", hash |-> Nil, number |-> n, tx |-> Nil]
ReceiptOf(tx) == [kind |-> "receipt", hash |-> Nil, number |-> 0, tx |-> tx]

InfoByHash(h) ==
  /\ Ready /\ Quiet /\ NoBatchCall
  /\ \/ /\ h \in Keys(headersCache)
        /\ out' = [op |-> "Info", ok |-> TRUE, q |-> ByHash(h), info |-> Cached(headersCache, h)]
        /\ headersCache' = Touch(headersCache, h)
        /\ Use1("calls") /\ UNCHANGED transactionsCache
     \/ h \notin Keys(headersCache) /\ headerCall("Info", ByHash(h))

(* InfoByNumber, and InfoHead with the number of the head: never from the cache. *)
InfoByNumber(n) == Ready /\ Quiet /\ NoBatchCall /\ headerCall("Info", ByNumber(n))

InfoAndTxsByHash(h) ==
  /\ Ready /\ Quiet /\ NoBatchCall
  /\ \/ /\ h \in Keys(headersCache) \cap Keys(transactionsCache)
        /\ out' = [op |-> "InfoAndTxs", ok |-> TRUE, q |-> ByHash(h),
                   info |-> Cached(headersCache, h), txs |-> Cached(transactionsCache, h)]
        /\ headersCache' = Touch(headersCache, h)
        /\ transactionsCache' = Touch(transactionsCache, h)
        /\ Use1("calls")
     \/ /\ h \notin Keys(headersCache) \cap Keys(transactionsCache)
        /\ blockCall("InfoAndTxs", ByHash(h))

-----------------------------------------------------------------------------
(* Fetch: the block, never from the cache, and then the receipts of its transactions. *)
Fetch(h) ==
  /\ Ready /\ Quiet
  /\ \E <<sent, event>> \in Replies(ByHash(h), Left - 1) :
       /\ Use([e \in {"calls", event} |-> 1])
       /\ IF BadBlock(sent) THEN Fails("Fetch") /\ UnusedCaches /\ NoBatchCall
          ELSE /\ AddBlock(sent)
               /\ IF sent.txs = <<>>
                  THEN /\ out' = [op |-> "Fetch", ok |-> Receipts(sent.header) = <<>>, q |-> ByHash(h),
                                  info |-> Info(sent), txs |-> <<>>, receipts |-> <<>>]
                       /\ NoBatchCall
                  ELSE /\ op' = [name |-> "Fetch", q |-> ByHash(h), info |-> Info(sent), txs |-> sent.txs,
                                 requests |-> [i \in DOMAIN sent.txs |-> ReceiptOf(sent.txs[i])]]
                       /\ StartFetch(Len(sent.txs))
                       /\ out' = NoOut

(* The fields of receipts that their root covers. *)
Content(receipts) ==
  [i \in DOMAIN receipts |-> <<receipts[i].success,
    [j \in DOMAIN receipts[i].logs |->
      <<receipts[i].logs[j].address, receipts[i].logs[j].topics, receipts[i].logs[j].data>>]>>]

(* fetchReceipts: every field that the root does not cover, and the root. *)
ReceiptsOK(info, txs, receipts) ==
  /\ \A i \in DOMAIN receipts :
       /\ receipts[i] # Null
       /\ receipts[i].txIndex = i
       /\ receipts[i].number = info.number /\ receipts[i].block = info.hash
       /\ \A j \in DOMAIN receipts[i].logs :
            LET log == receipts[i].logs[j]
            IN  /\ log.index = Len(FlattenSeq([k \in 1 .. i - 1 |-> receipts[k].logs])) + j - 1
                /\ log.txIndex = i /\ log.tx = txs[i] /\ ~ log.removed
                /\ log.block = info.hash /\ log.number = info.number
  /\ Content(receipts) = Content(Receipts(info.receiptsOf))

(* The batch call returned, and the caller is about to; its list of requests is garbage. *)
Returned(name) ==
  /\ op.name = name /\ status # "running"
  /\ op' = NoOp /\ answer' = <<>> /\ Error' = {}
  /\ UNCHANGED <<main, status, batchRequests, completed, worker, client>>

FetchDone ==
  /\ Returned("Fetch") /\ Quiet /\ UnusedCaches /\ UNCHANGED used
  /\ IF status = "ok" /\ ReceiptsOK(op.info, op.txs, answer)
     THEN out' = [op |-> "Fetch", ok |-> TRUE, q |-> op.q, info |-> op.info, txs |-> op.txs,
                  receipts |-> answer]
     ELSE Fails("Fetch")

-----------------------------------------------------------------------------
(* FetchAllTransactions: the lists that are cached, and a batch for the others. *)
Missing(window) ==
  SelectSeq([i \in DOMAIN window |-> i], LAMBDA i : window[i] \notin Keys(transactionsCache))

FetchAllTransactions(window) ==
  /\ Ready /\ Quiet /\ Use1("calls") /\ UNCHANGED headersCache
  /\ transactionsCache' =
       FoldLeft(Touch, transactionsCache,
                SelectSeq(window, LAMBDA h : h \in Keys(transactionsCache)))
  /\ LET lists == [i \in DOMAIN window |-> IF window[i] \in Keys(transactionsCache)
                                            THEN Cached(transactionsCache, window[i]) ELSE <<>>]
     IN  IF Missing(window) = <<>>
         THEN /\ out' = [op |-> "Txs", ok |-> TRUE, window |-> window, lists |-> lists]
              /\ NoBatchCall
         ELSE /\ op' = [name |-> "Txs", window |-> window, lists |-> lists,
                        indices |-> Missing(window),
                        requests |-> [i \in DOMAIN Missing(window) |-> ByHash(window[Missing(window)[i]])]]
              /\ StartFetch(Len(Missing(window)))
              /\ out' = NoOut

(* The answers in front of the first bad one are cached, those with an Error skipped. *)
GoodPrefix(bad) == {i \in DOMAIN answer : \A j \in 1 .. i : j \notin bad} \ Error

(* Some answers are added to a cache, each with the value it has in values. *)
AddAll(cache, values) ==
  FoldLeft(LAMBDA c, i : IF i \in DOMAIN values THEN Add(c, answer[i].claims, values[i]) ELSE c,
           cache, [i \in DOMAIN answer |-> i])

(* The header infos of some answers, as Info extracts them. *)
Infos(which) == [i \in which |-> Info(answer[i])]

(* The position in the window that a request is for. *)
Placed(i) == op.indices[i]

FetchAllTransactionsDone ==
  /\ Returned("Txs") /\ Quiet /\ UNCHANGED used
  /\ IF status # "ok" THEN Fails("Txs") /\ UnusedCaches
     ELSE LET bad == {i \in DOMAIN answer \ Error : ~ BlockOK(answer[i])}
              good == GoodPrefix(bad)
          IN  /\ headersCache' = AddAll(headersCache, Infos(good))
              /\ transactionsCache' = AddAll(transactionsCache, [i \in good |-> answer[i].txs])
              /\ IF bad # {} \/ Error # {} THEN Fails("Txs")
                 ELSE out' = [op |-> "Txs", ok |-> TRUE, window |-> op.window,
                        lists |-> [k \in DOMAIN op.window |->
                           IF \E i \in DOMAIN answer : Placed(i) = k
                           THEN answer[CHOOSE i \in DOMAIN answer : Placed(i) = k].txs
                           ELSE op.lists[k]]]

-----------------------------------------------------------------------------
(* L1Range: the headers of the numbers after begin, as far as they form a chain. *)
L1Range(begin, max) ==
  /\ Ready /\ Quiet /\ Use1("calls") /\ UnusedCaches
  /\ op' = [name |-> "Range", begin |-> begin, max |-> max,
            requests |-> [i \in 1 .. max |-> ByNumber(world[begin].number + i)]]
  /\ StartFetch(max)
  /\ out' = NoOut

(* Mutant: the first header is not compared with begin. *)
LinkedWithin(i) ==
  i = 1 \/ Info(answer[i]).parent = Info(answer[i - 1]).hash

Linked(i) ==
  Info(answer[i]).parent = IF i = 1 THEN op.begin ELSE Info(answer[i - 1]).hash

L1RangeDone ==
  /\ Returned("Range") /\ Quiet /\ UNCHANGED <<used, transactionsCache>>
  /\ IF status # "ok" THEN Fails("Range") /\ UNCHANGED headersCache
     ELSE LET n == Len(answer)
              isNull(i) == i = n + 1 \/ (i \notin Error /\ answer[i] = Null)
              bad(i) == i \in Error \/ ~ HeaderOK(answer[i])
              cut == Min({i \in 1 .. n + 1 : isNull(i) \/ bad(i)})
              first == Min({i \in 1 .. cut - 1 : ~ Linked(i)} \cup {cut})
              seen == {i \in 1 .. n : i < cut /\ i <= first}
          IN  /\ headersCache' = AddAll(headersCache, Infos(seen))
              /\ IF first < cut \/ ~ isNull(cut) THEN Fails("Range")
                 ELSE out' = [op |-> "Range", ok |-> TRUE, begin |-> op.begin, max |-> op.max,
                              range |-> [i \in 1 .. first - 1 |-> answer[i].claims]]

-----------------------------------------------------------------------------
(* The server answers a batch; L1 changes its head; the node shuts the source down. *)
ServerReplies(w) ==
  /\ worker[w].pc = "calling" /\ status = "running"
  /\ UNCHANGED <<world, trustRPC, tip, headersCache, transactionsCache, op, out>>
  /\ LET elems == ToSet(worker[w].batch.elems)
         replies == [e \in elems |-> Replies(op.requests[e], Left)]
     IN  \E reply \in [elems -> UNION Range(replies)] :
           LET spent(event) == Cardinality({e \in elems : reply[e][2] = event})
           IN  /\ \A e \in elems : reply[e] \in replies[e]
               /\ spent("lies") + spent("faults") <= Left
               /\ Use([event \in {"lies", "faults"} |-> spent(event)])
               /\ batchRequest(w, [e \in elems |->
                     IF op.requests[e].kind = "hash" /\ reply[e][1] = Null THEN Failure
                     ELSE reply[e][1]])

CallFails ==
  /\ UNCHANGED <<world, trustRPC, tip, headersCache, transactionsCache, op, out>>
  /\ \/ /\ Left > 0 /\ Use1("faults")
        /\ ContextDone \/ (status = "running" /\ \E w \in DOMAIN worker : BatchFails(w))
     \/ /\ status # "running" /\ UNCHANGED used
        /\ \E w \in DOMAIN worker : BatchFails(w)

Reorg ==
  /\ Left > 0 /\ Use1("reorgs")
  /\ tip' \in Tips \ {tip}
  /\ UNCHANGED <<world, trustRPC, headersCache, transactionsCache, op, out, fetchVars, client>>

(* The node closes the source when the driver has stopped. *)
SourceClose == op = NoOp /\ Left = 0 /\ Close /\ UNCHANGED sourceVars

Goroutines == (Workers \/ Fetching) /\ UNCHANGED sourceVars
Serve == \E w \in DOMAIN worker : ServerReplies(w)
Done == FetchDone \/ FetchAllTransactionsDone \/ L1RangeDone

Begin ==
  \/ \E h \in Wanted : InfoByHash(h) \/ InfoAndTxsByHash(h) \/ Fetch(h)
  \/ \E n \in {world[h].number : h \in Hashes} : InfoByNumber(n)
  \/ \E window \in Windows : FetchAllTransactions(window)
  \/ \E range \in Ranges : L1Range(range[1], range[2])

Next == Begin \/ Goroutines \/ Serve \/ CallFails \/ Done \/ Reorg \/ SourceClose

Fairness == WF_vars(Goroutines) /\ WF_vars(Serve \/ CallFails) /\ WF_vars(Done)
Spec == Init /\ [][Next]_vars /\ Fairness
=============================================================================
