------------------------------- MODULE MCGossip -------------------------------
(***************************************************************************)
(* Four payloads of two heights, three of them competing for one height;   *)
(* their extra data and their transactions are empty, short and long.      *)
(* Three more of that height were signed elsewhere: by an earlier run of   *)
(* the sequencer and for another chain.                                    *)
(***************************************************************************)
EXTENDS GossipProperties

P(number, time, extra, txs) == BlockAsPayload("parent", number, time, extra, txs)
MCPayloads ==
  <<P(1, 0, <<>>, <<>>), P(2, 1, <<>>, <<<<>>, <<4>>>>), P(1, 1, <<7>>, <<<<1>>, <<2, 3>>>>),
    P(1, 1, <<>>, <<<<6, 6>>>>)>>

MCElsewhere ==
  <<[payload |-> P(1, 0, <<5>>, <<>>), chain |-> "L2"],
    [payload |-> P(1, 0, <<6>>, <<>>), chain |-> "L2"],
    [payload |-> P(1, 1, <<8>>, <<>>), chain |-> "another"]>>

(* What the key did not sign: a block signed by somebody else; the sequencer's with a changed  *)
(* transaction and the hash that goes with it, or with the old one; one that does not decode;  *)
(* one without compression; one that is too large; one that is too short to have a signature;  *)
(* and one with its offsets in the wrong order.                                                *)
Somebody == SignedMessage("somebody", "L2", P(1, 0, <<9>>, <<>>))
Sequencers == SignedMessage(Sequencer, "L2", MCPayloads[3])
Changed(p) == [Sequencers EXCEPT !.bytes = MarshalSSZ(p)]

MCStrays ==
  <<Somebody,
    Changed(P(1, 1, <<7>>, <<<<1>>, <<2, 4>>>>)),
    Changed([MCPayloads[3] EXCEPT !.txs = <<<<1>>, <<2, 4>>>>]),
    [Somebody EXCEPT !.bytes = <<>>],
    [Somebody EXCEPT !.snappy = FALSE],
    SignedMessage("somebody", "L2", P(1, 0, <<>>, <<[i \in 1 .. 20 |-> 0]>>)),
    Message(Short, <<>>),
    [Somebody EXCEPT !.bytes[7] = FixedPart - 1]>>

Plan(count, others) == [blocks |-> count, others |-> others]
MCPlans ==
  {Plan(4, {}), Plan(1, {5, 6, 7})} \cup {Plan(1, {m}) : m \in 8 .. 7 + Len(MCStrays)}
=============================================================================
