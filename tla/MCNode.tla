------------------------------- MODULE MCNode -------------------------------
(* Instance of Node for TLC. *)
EXTENDS NodeProperties, SequencesExt

CONSTANTS Found1, Foreign1, EngineA, EngineB

Record(id, entry) == [id |-> id, entry |-> entry, ip |-> TRUE]

OurDat == [chainID |-> 901, version |-> 0]

(* Nodes of our chain (with an entry that has more data), of another chain, of a later *)
(* version, and without an entry that can be read.                                     *)
MCRecords ==
  {Record(Found1, EncodeRLP(OurDat) \o <<7>>),
   Record(Foreign1, EncodeRLP([OurDat EXCEPT !.chainID = 902])),
   Record(Foreign1, EncodeRLP([OurDat EXCEPT !.version = 1])), Record(Foreign1, <<901>>)}
MCTable == SetToSeq(MCRecords)

Setup(engines, p2p, static, stored, h, c, e) ==
  [engines |-> engines, p2p |-> p2p, signer |-> p2p # "none", static |-> static, stored |-> stored,
   heads |-> h, calls |-> c, events |-> e]

MCSetups ==
  {Setup(<<EngineA, EngineB>>, "none", {}, {}, 2, 0, 0),
   Setup(<<EngineA>>, "disabled", {}, {}, 1, 0, 0),
   Setup(<<EngineA>>, "host", {Foreign1}, {Found1}, 1, 2, 1),
   Setup(<<>>, "discovery", {}, {}, 0, 0, 1),
   Setup(<<>>, "discovery", {}, {Foreign1}, 0, 0, 0)}
=============================================================================
