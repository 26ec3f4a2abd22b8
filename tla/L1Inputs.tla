------------------------------- MODULE L1Inputs -------------------------------
(***************************************************************************)
(* What op-node reads out of L1 data, and how it reads it back out of the  *)
(* L2 chain: the deposits in receipts, the batches in transactions, the L1 *)
(* info deposit that starts every L2 block (op-node/rollup/derive), and    *)
(* the block reference and the batch of an L2 block (op-node/l2).          *)
(*                                                                         *)
(* A 32-byte word is a natural number, encoded data is the sequence of its *)
(* fields, and a hash is the tuple of what is hashed, so that it is as     *)
(* collision free as keccak256 is assumed to be.                           *)
(***************************************************************************)
EXTENDS Naturals, SequencesExt

CONSTANTS
  MaxU64,      \* the largest uint64, scaled down; words may be larger
  Nil,         \* a nil pointer
  Malformed,   \* the result of a decoder that fails
  Garbage      \* bytes that are not RLP

DepositEvent == "TransactionDeposited"
DataOffset == 160   \* the five fixed words in front of the deposit's data

-----------------------------------------------------------------------------
(* The source hashes of user deposits (domain 0) and of L1 info deposits (domain 1). *)
UserDepositSource(hash, logIndex) == <<0, hash, logIndex>>

L1InfoDepositSource(hash, seqNumber) == <<1, hash, seqNumber>>

(* OptimismPortal.depositTransaction: a creation must have no target; the event it emits. *)
depositTransaction(d) ==
  [address |-> "portal", topics |-> <<DepositEvent, d.from, d.to>>,
   data |-> <<d.mint, d.value, d.gas, IF d.creation THEN 1 ELSE 0, DataOffset, Len(d.data)>>
            \o d.data]

(* Mutant: the index is the one within the receipt. *)
UnmarshalLogEventLocalIndex(ev) ==
  LET fixed == ev.data
      isCreation == fixed[4] % 256 # 0
  IN  [source |-> UserDepositSource(ev.block, 0),
       from |-> ev.topics[2], to |-> IF isCreation THEN Nil ELSE ev.topics[3],
       mint |-> IF fixed[1] = 0 THEN Nil ELSE fixed[1], value |-> fixed[2],
       gas |-> fixed[3], data |-> SubSeq(fixed, 7, 6 + fixed[6])]

UnmarshalLogEvent(ev) ==
  LET fixed == ev.data
      isCreation == fixed[4] % 256 # 0
  IN  IF \/ Len(ev.topics) # 3 \/ ev.topics[1] # DepositEvent
         \/ Len(fixed) < 6
         \/ fixed[3] > MaxU64
         \/ fixed[5] # DataOffset
         \/ fixed[6] > MaxU64 \/ fixed[6] > Len(fixed) - 6
      THEN Malformed
      ELSE [source |-> UserDepositSource(ev.block, ev.index),
            from |-> ev.topics[2], to |-> IF isCreation THEN Nil ELSE ev.topics[3],
            mint |-> IF fixed[1] = 0 THEN Nil ELSE fixed[1], value |-> fixed[2],
            gas |-> fixed[3], data |-> SubSeq(fixed, 7, 6 + fixed[6])]

IsDepositLog(log) ==
  log.address = "portal" /\ Len(log.topics) > 0 /\ log.topics[1] = DepositEvent

UserDeposits(receipts) ==
  FlattenSeq([i \in DOMAIN receipts |->
    IF ~ receipts[i].success THEN <<>>
    ELSE LET logs == SelectSeq(receipts[i].logs, IsDepositLog)
         IN  SelectSeq([j \in DOMAIN logs |-> UnmarshalLogEvent(logs[j])],
                       LAMBDA d : d # Malformed)])

(* Transaction.MarshalBinary of the execution engine: the type byte and the fields. *)
MarshalTx(type, fields) == <<type, fields>>

DeriveDeposits(receipts) ==
  LET deposits == UserDeposits(receipts)
  IN  [i \in DOMAIN deposits |-> MarshalTx("deposit", deposits[i])]

-----------------------------------------------------------------------------
(* L1BlockInfo: the call data of setL1BlockValues. *)
MarshalInfo(info, seqNumber) ==
  <<"setL1BlockValues", info.number, info.time, info.baseFee, info.hash, seqNumber>>

UnmarshalInfo(data) ==
  IF Len(data) # 6 \/ data[2] > MaxU64 \/ data[3] > MaxU64 \/ data[6] > MaxU64 THEN Malformed
  ELSE [number |-> data[2], time |-> data[3], baseFee |-> data[4],
        hash |-> data[5], seqNumber |-> data[6]]

L1InfoDeposit(seqNumber, info) ==
  [source |-> L1InfoDepositSource(info.hash, seqNumber),
   from |-> "depositor", to |-> "L1Block", mint |-> Nil, value |-> 0, gas |-> 99999999,
   data |-> MarshalInfo(info, seqNumber)]

L1InfoDepositBytes(seqNumber, info) == MarshalTx("deposit", L1InfoDeposit(seqNumber, info))

-----------------------------------------------------------------------------
(* Bundles of batches: a type, and a list of typed batches. *)
encodeTyped(batch) == <<0, batch>>

decodeTyped(item) ==
  IF item = <<>> \/ item[1] # 0 \/ item[2] = Garbage THEN Malformed ELSE item[2]

EncodeBatches(batches) == <<0, [i \in DOMAIN batches |-> encodeTyped(batches[i])]>>

DecodeBatches(data) ==
  IF \/ data = <<>> \/ data[1] # 0 \/ data[2] = Garbage
     \/ \E i \in DOMAIN data[2] : decodeTyped(data[2][i]) = Malformed
  THEN Malformed
  ELSE [i \in DOMAIN data[2] |-> decodeTyped(data[2][i])]

IsBatchTx(tx) ==
  /\ tx.to = "inbox" /\ tx.sender = "batcher"
  /\ DecodeBatches(tx.data) # Malformed

BatchesFromEVMTransactions(txLists) ==
  LET txs == SelectSeq(FlattenSeq(txLists), IsBatchTx)
  IN  FlattenSeq([i \in DOMAIN txs |-> DecodeBatches(txs[i].data)])

-----------------------------------------------------------------------------
(* The transactions of the block with this sequence number in an epoch: the L1 info deposit, *)
(* in the first block the user deposits, and those of the batch.                              *)
PayloadTxs(seqNumber, info, receipts, batchTxs) ==
  <<L1InfoDepositBytes(seqNumber, info)>>
    \o (IF seqNumber = 0 THEN DeriveDeposits(receipts) ELSE <<>>)
    \o batchTxs

IsDepositTx(tx) == tx[1] = "deposit"

(* blockToBlockRef and PayloadToBlockRef: the L1 origin and the sequence number of an L2     *)
(* block, from the genesis configuration or from its first transaction.                      *)
BlockRef(block, genesis) ==
  IF block.number = genesis.number
  THEN IF block.hash # genesis.hash THEN Malformed
       ELSE [hash |-> block.hash, origin |-> genesis.l1, seqNumber |-> 0]
  ELSE IF block.txs = <<>> \/ ~ IsDepositTx(block.txs[1]) THEN Malformed
  ELSE LET info == UnmarshalInfo(block.txs[1][2].data)
       IN  IF info = Malformed THEN Malformed
           ELSE [hash |-> block.hash, origin |-> [hash |-> info.hash, number |-> info.number],
                 seqNumber |-> info.seqNumber]

(* BlockToBatch: nothing for a block with only the L1 info deposit. *)
BlockToBatch(block) ==
  IF block.txs = <<>> \/ ~ IsDepositTx(block.txs[1]) THEN Malformed
  ELSE IF Len(block.txs) = 1 THEN Nil
  ELSE LET info == UnmarshalInfo(block.txs[1][2].data)
       IN  IF info = Malformed THEN Malformed
           ELSE [epoch |-> info.number, time |-> block.time,
                 txs |-> SelectSeq(block.txs, LAMBDA tx : ~ IsDepositTx(tx))]
=============================================================================
