--------------------------- MODULE GossipProperties ---------------------------
(***************************************************************************)
(* What the gossip of unsafe blocks promises the sequencer that publishes  *)
(* them and the verifiers that follow it.                                  *)
(***************************************************************************)
EXTENDS Gossip

Published == network \cap DOMAIN Payloads

(* The messages on the topic with payloads that the sequencer's key signed, and their heights. *)
KeySigned == network \cap 1 .. Len(Payloads) + Len(Elsewhere)
OfHeight(ms, h) == {m \in ms : Decoded[m].number = h}
Heights(ms) == {Decoded[m].number : m \in {k \in ms : Decoded[k] \notin {Undecodable, Panics}}}

Reasons == {"bad compression", "too large", "undecodable", "too old", "too new", "bad hash",
            "throttled", "too many", "seen", "bad author", "subscription full"}

(* Type invariant.  blockHeightLRU never exceeds its size, has one entry per height, and the  *)
(* objects it and the validations refer to exist.                                             *)
TypeOK ==
  /\ clock \in [Nodes -> 0 .. MaxClock] /\ alive \in BOOLEAN /\ built \in 0 .. blocks
  /\ topic \in {"none", "open", "closed"} /\ signer \in {"none", "open", "closed"}
  /\ \A n \in Nodes :
       /\ Len(lru[n]) <= LRUSize
       /\ IsInjective([i \in DOMAIN lru[n] |-> lru[n][i].height])
       /\ \A i \in DOMAIN lru[n] : lru[n][i].obj \in DOMAIN heap[n]
       /\ Len(queue[n]) <= SubBuffer
  /\ \A s \in Slots : job[s] = Idle \/ job[s].obj \in DOMAIN heap[Verifier]
  /\ \A v \in verdict : v.why \in Reasons

(* The validator and the codec: whatever else is on the topic, foreign, tampered with or       *)
(* malformed, the verifier's engine drivers receive only payloads that the sequencer's key     *)
(* signed, field for field and transaction for transaction as they were signed.  For which     *)
(* chain they were signed does not count: signer.go:30-32 overwrite the chain ID, which        *)
(* rollup-node-p2p.md:267 has in the signed message.  A block that the sequencer published     *)
(* comes back to it through its own subscription, and is not processed as a new one            *)
(* (OnUnsafeL2Payload, "ignore if it's from ourselves").                                       *)
OnlySequencerBlocks ==
  /\ \A m \in engine[Verifier] :
       \/ \E i \in 1 .. built : Decoded[m] = Payloads[i]
       \/ \E i \in DOMAIN Elsewhere : Decoded[m] = Elsewhere[i].payload
  /\ engine[Sequencer] = {}

(* The blocks of a height that a node has marked as seen, in all the objects there were for it. *)
Marked(n, h) ==
  FoldLeft(LAMBDA sum, hashes : sum + Len(SelectSeq(hashes, LAMBDA hash : hash[2] = h)), 0, heap[n])

(* The heights that a node's validator may have looked up. *)
Met(n) == Heights(IF n = Verifier THEN received ELSE 1 .. built)

(* seenBlocks: validations that run at the same time check the number of blocks of a height   *)
(* before any of them is marked, and may each have an object of their own for it.  The first  *)
(* of these objects is filled while the other validations hold theirs back, the next one by   *)
(* one validation more, and so on: that is how far the limit of a height can be exceeded, as  *)
(* long as the LRU evicts no height.  Blocks that the key did not sign are not counted.       *)
(* A sequencer's own validations come one after the other.                                    *)
SeenBounded ==
  /\ TypeOK
  /\ \A n \in Nodes : Cardinality(Met(n)) <= LRUSize =>
       LET parallel == IF n = Verifier THEN Cardinality(Slots) ELSE 1
       IN  \A h \in Met(n) :
             Marked(n, h) <= parallel * MaxSeen + (parallel * (parallel + 1)) \div 2

(* publisher.PublishL2Payload goes through the node's own validator.  A payload that the      *)
(* sequencer built is refused there only if it has no p2p or no signer, is shutting down,     *)
(* is late or early, is too large, or is one too many of its height: never because its own    *)
(* encoding, hash or signature is not understood.                                             *)
RefusedWithReason ==
  \A r \in refused :
    LET p == Payloads[r.msg]
    IN  \/ r.why \in {"no p2p", "no signer", "closed"}
        \/ r.why = "too old" /\ r.at > p.time + TooOld
        \/ r.why = "too new" /\ p.time > r.at + TooNew
        \/ r.why = "too large" /\ 1 + SizeSSZ(p) > MaxGossipSize
        \/ r.why = "too many" /\ Cardinality(OfHeight(Published, p.number)) > MaxSeen

(* A rejected message costs the peer that forwarded it its standing.  A message that the      *)
(* sequencer published is rejected by a verifier only if it arrives late, or early by the     *)
(* verifier's clock, or after more blocks of its height than the limit, all signed by the     *)
(* sequencer's key, some elsewhere or some past an eviction from the sequencer's own LRU.     *)
(* Other than that, it is lost only if all validators are busy or the subscription is full.   *)
(* The sequencer's own validator, too, refuses with reason only.                              *)
PublishedAccepted ==
  /\ RefusedWithReason
  /\ \A v \in verdict :
       v.msg \in Published =>
         LET p == Payloads[v.msg]
         IN  \/ v.why = "too old" /\ v.at > p.time + TooOld
             \/ v.why = "too new" /\ p.time > v.at + TooNew
             \/ v.why \in {"throttled", "subscription full"}
             \/ /\ v.why = "too many"
                /\ Cardinality(OfHeight(KeySigned, p.number)) > MaxSeen + 1
                /\ \/ OfHeight(KeySigned \ Published, p.number) # {}
                   \/ Cardinality(Heights(Published)) > LRUSize

(* Every block that the sequencer published and that reached the verifier gets to its engine  *)
(* drivers, or was turned away with one of the reasons above, or another message ended the    *)
(* process (gossip.go:216 and ssz.go:176 do not check a length and an offset, for which line  *)
(* 218 of gossip.go has "[REJECT] if the block encoding is not valid").                       *)
PublishedArrives ==
  \A i \in DOMAIN Payloads :
    i \in received ~> i \in engine[Verifier] \/ (\E v \in verdict : v.msg = i) \/ ~ alive
=============================================================================
