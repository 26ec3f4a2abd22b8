------------------------------ MODULE PayloadSSZ ------------------------------
(***************************************************************************)
(* Execution payloads and their SSZ encoding (op-node/l2/ssz.go, api.go).  *)
(* An encoding is a sequence of cells: a fixed field is one cell, a byte   *)
(* of the extra data or of a transaction is one cell, and an offset takes  *)
(* OffsetSize cells, so that the positions are those of the code, scaled.  *)
(* Of the fixed fields, only those that are told apart are kept.           *)
(***************************************************************************)
EXTENDS Naturals, SequencesExt, FiniteSetsExt

CONSTANTS
  MaxExtra,    \* the largest size of the extra data, 32 in the code
  Undecodable, \* the result of a decoder that fails
  Panics       \* and of one that slices its buffer out of bounds

OffsetSize == 2
Offset(n) == <<n, 0>>
FixedPart == 4 + 2 * OffsetSize

SizeSSZ(p) == FixedPart + Len(p.extra) + OffsetSize * Len(p.txs) + Len(FlattenSeq(p.txs))

marshalTransactions(txs) ==
  LET txOffset(i) == OffsetSize * Len(txs) + Len(FlattenSeq(SubSeq(txs, 1, i - 1)))
  IN  FlattenSeq([i \in DOMAIN txs |-> Offset(txOffset(i))]) \o FlattenSeq(txs)

MarshalSSZ(p) ==
  <<p.parent, p.number, p.time>> \o Offset(FixedPart)
    \o <<p.hash>> \o Offset(FixedPart + Len(p.extra))
    \o p.extra \o marshalTransactions(p.txs)

unmarshalTransactions(in) ==
  LET scope == Len(in)
      txCount == in[1] \div OffsetSize
      from(i) == in[OffsetSize * (i - 1) + 1]
      next(i) == IF i < txCount THEN from(i + 1) ELSE scope
  IN  IF scope = 0 THEN <<>>
      ELSE IF scope < OffsetSize \/ in[1] % OffsetSize # 0 \/ in[1] > scope THEN Undecodable
      ELSE IF \E i \in 1 .. txCount : next(i) < from(i) \/ next(i) > scope THEN Undecodable
      ELSE [i \in 1 .. txCount |-> SubSeq(in, from(i) + 1, next(i))]

UnmarshalSSZ(buf) ==
  LET extraOffset == buf[4]
      txsOffset == buf[7]
      txs == unmarshalTransactions(SubSeq(buf, txsOffset + 1, Len(buf)))
  IN  IF \/ Len(buf) < FixedPart
         \/ extraOffset # FixedPart
         \/ txsOffset > extraOffset + MaxExtra \/ txsOffset > Len(buf)
      THEN Undecodable
      ELSE IF txsOffset < extraOffset THEN Panics  \* extraDataSize underflows
      ELSE IF txs = Undecodable THEN Undecodable
      ELSE [parent |-> buf[1], number |-> buf[2], time |-> buf[3], hash |-> buf[6],
            extra |-> SubSeq(buf, extraOffset + 1, txsOffset), txs |-> txs]

(* CheckBlockHash: the hash of the header made from the payload; distinct for distinct ones. *)
BlockHash(p) == <<p.parent, p.number, p.time, p.extra, p.txs>>
CheckBlockHash(p) == p.hash = BlockHash(p)

(* BlockAsPayload: the payload of a block of the engine. *)
BlockAsPayload(parent, number, time, extra, txs) ==
  LET b == [parent |-> parent, number |-> number, time |-> time, extra |-> extra, txs |-> txs]
  IN  [parent |-> parent, number |-> number, time |-> time, extra |-> extra, txs |-> txs,
       hash |-> BlockHash(b)]
=============================================================================
