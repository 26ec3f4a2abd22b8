-------------------------------- MODULE Gossip --------------------------------
(***************************************************************************)
(* Gossip of unsafe L2 blocks (op-node/p2p/gossip.go, signer.go, and the   *)
(* node's handlers in op-node/node/node.go): the sequencer signs and       *)
(* publishes the blocks it builds, and a verifier validates the messages   *)
(* that reach it, several at a time, and hands the blocks to its engine    *)
(* drivers.  A message that the validator does not survive ends the        *)
(* verifier's process.                                                     *)
(*                                                                         *)
(* The network delivers messages in any order, or not at all.  pubsub,     *)
(* which is external, validates a published message at its publisher       *)
(* first, drops a message whose id it has seen, one that arrives while all *)
(* validators are busy, and one that finds the subscription full.          *)
(***************************************************************************)
EXTENDS PayloadSSZ, Functions

CONSTANTS
  Payloads,       \* the payloads that the sequencer builds, in this order
  Elsewhere,      \* payloads that its key signed elsewhere, and for which chain
  Strays,         \* messages on the topic that the key did not sign
  Plans,          \* how many payloads are built, and which of the other messages are sent
  Slots,          \* the concurrent validations, 4 in the code
  MaxSeen,        \* blocks of a height after which others are rejected, 5 in the code
  LRUSize,        \* of blockHeightLRU, 100 in the code
  SubBuffer,      \* messages that wait for the subscriber
  TooOld, TooNew, \* limits on the age of a payload, 20 and 5 seconds in the code
  MaxGossipSize, MaxClock

Sequencer == "sequencer"
Verifier == "verifier"
Nodes == {Sequencer, Verifier}

VARIABLES
  clock,      \* per node
  alive,      \* whether the verifier's process is
  blocks,     \* how many payloads the sequencer is going to build
  built,      \* and how many it has built
  topic,      \* of the sequencer: "open", "closed", or "none" if p2p is disabled
  signer,     \* of the sequencer: "open", "closed", or "none"
  network,    \* the messages that were sent, by name
  received,   \* the messages whose ids the verifier has received
  lru, heap,  \* per node, blockHeightLRU and the seenBlocks objects it refers to
  job,        \* the validations in progress at the verifier
  queue,      \* per node, the subscription
  engine,     \* per node, the messages whose payloads its engine drivers were given
  refused,    \* the payloads that could not be published, and why
  verdict     \* the messages that did not pass the verifier, and why

vars == <<clock, alive, blocks, built, topic, signer, network, received, lru, heap, job, queue,
          engine, refused, verdict>>

-----------------------------------------------------------------------------
(* SigningHash: the payload's hash is copied to where the chain id was. *)
SigningHash(domain, chainID, bytes) == <<domain, bytes>>
Sign(key, chainID, bytes) == [by |-> key, over |-> SigningHash("BlocksV1", chainID, bytes)]

(* A message: whether it is snappy data, and the signature, if it is long enough for one, and *)
(* the payload in it.                                                                         *)
Short == [by |-> "none", over |-> <<>>]
Message(sig, bytes) == [snappy |-> TRUE, sig |-> sig, bytes |-> bytes]
SignedMessage(key, chainID, p) == Message(Sign(key, chainID, MarshalSSZ(p)), MarshalSSZ(p))
DecodedLen(msg) == 1 + Len(msg.bytes)

(* The messages, those of the payloads first; named by their index, and what is in them. *)
Wire ==
  [i \in DOMAIN Payloads |-> SignedMessage(Sequencer, "L2", Payloads[i])]
    \o [i \in DOMAIN Elsewhere |->
          SignedMessage(Sequencer, Elsewhere[i].chain, Elsewhere[i].payload)]
    \o Strays
Decoded == [m \in DOMAIN Wire |-> UnmarshalSSZ(Wire[m].bytes)]
Signed == [m \in DOMAIN Wire |-> Wire[m].sig.over = SigningHash("BlocksV1", "L2", Wire[m].bytes)]
HashOK ==
  [m \in DOMAIN Wire |-> Decoded[m] \notin {Undecodable, Panics} /\ CheckBlockHash(Decoded[m])]
MsgId(m) ==
  LET msg == Wire[m]
  IN  <<IF msg.snappy /\ DecodedLen(msg) <= MaxGossipSize THEN "valid" ELSE "invalid", msg>>

(* The checks of the validator that need no state but the clock. *)
Checked(n, m) ==
  LET payload == Decoded[m]
  IN  IF ~ Wire[m].snappy THEN "bad compression"
      ELSE IF DecodedLen(Wire[m]) > MaxGossipSize THEN "too large"
      ELSE IF Wire[m].sig = Short \/ payload = Panics THEN "panic"
      ELSE IF payload = Undecodable THEN "undecodable"
      ELSE IF payload.time + TooOld < clock[n] THEN "too old"
      ELSE IF payload.time > clock[n] + TooNew THEN "too new"
      ELSE IF ~ HashOK[m] THEN "bad hash"
      ELSE "ok"

(* Mutant: any valid signature will do. *)
AuthorOKAnyone(m) == Signed[m]

AuthorOK(m) == Signed[m] /\ Wire[m].sig.by = Sequencer

(* blockHeightLRU, the least recently used height first, and seenBlocks.hasSeen. *)
Object(cache, height) == {e.obj : e \in {c \in ToSet(cache) : c.height = height}}

Used(cache, height, obj) ==
  LET c == Append(SelectSeq(cache, LAMBDA e : e.height # height), [height |-> height, obj |-> obj])
  IN  IF Len(c) > LRUSize THEN Tail(c) ELSE c

(* Mutant: the number of blocks is not limited. *)
hasSeenUnlimited(hashes, h) == IF h \in ToSet(hashes) THEN "seen" ELSE "ok"

hasSeen(hashes, h) ==
  IF Len(hashes) > MaxSeen THEN "too many" ELSE IF h \in ToSet(hashes) THEN "seen" ELSE "ok"

-----------------------------------------------------------------------------
Idle == [stage |-> "idle"]

(* The time of a verdict, where it matters. *)
When(n, why) == IF why \in {"too old", "too new"} THEN clock[n] ELSE 0

Init ==
  /\ clock = [n \in Nodes |-> 0] /\ alive = TRUE /\ built = 0
  /\ topic \in {"none", "open"} /\ signer \in {"none", "open"}
  /\ \E plan \in Plans : blocks = plan.blocks /\ network = plan.others
  /\ received = {}
  /\ lru = [n \in Nodes |-> <<>>] /\ heap = [n \in Nodes |-> <<>>]
  /\ job = [s \in Slots |-> Idle]
  /\ queue = [n \in Nodes |-> <<>>] /\ engine = [n \in Nodes |-> {}]
  /\ refused = {} /\ verdict = {}

(* An accepted message goes to the subscription, if there is room. *)
Deliver(n, from, m) ==
  queue' = IF Len(queue[n]) = SubBuffer THEN queue
           ELSE [queue EXCEPT ![n] = Append(@, [from |-> from, msg |-> m])]

(* OpNode.PublishL2Payload and publisher.PublishL2Payload, called by the driver for the next  *)
(* block: nothing without p2p, an error without a signer; encode, sign, compress, and publish *)
(* through the node's own validator, which nothing else uses at that time.                    *)
PublishL2Payload ==
  /\ built < blocks /\ built' = built + 1
  /\ UNCHANGED <<clock, alive, blocks, topic, signer, received, job, engine, verdict>>
  /\ LET p == Payloads[built + 1]
         msg == built + 1
         found == Object(lru[Sequencer], p.number)
         objs == IF found = {} THEN Append(heap[Sequencer], <<>>) ELSE heap[Sequencer]
         obj == IF found = {} THEN Len(objs) ELSE CHOOSE o \in found : TRUE
         seen == hasSeen(objs[obj], p.hash)
         checked == Checked(Sequencer, msg)
         why == IF topic = "none" THEN "no p2p"
                ELSE IF signer # "open" THEN "no signer"
                ELSE IF topic = "closed" THEN "closed"
                ELSE IF checked # "ok" THEN checked
                ELSE IF seen # "ok" THEN seen
                ELSE IF ~ AuthorOK(msg) THEN "bad author"
                ELSE "ok"
         looked == topic = "open" /\ signer = "open" /\ checked = "ok"
     IN  /\ lru' = IF looked THEN [lru EXCEPT ![Sequencer] = Used(@, p.number, obj)] ELSE lru
         /\ heap' = IF looked
                    THEN [heap EXCEPT ![Sequencer] =
                           IF why = "ok" THEN [objs EXCEPT ![obj] = Append(@, p.hash)] ELSE objs]
                    ELSE heap
         /\ IF why = "ok"
            THEN /\ network' = network \cup {msg}
                 /\ Deliver(Sequencer, Sequencer, msg)
                 /\ UNCHANGED refused
            ELSE /\ refused' = refused \cup
                      {[msg |-> msg, why |-> why, at |-> When(Sequencer, why)]}
                 /\ UNCHANGED <<network, queue>>

-----------------------------------------------------------------------------
(* The validator at the verifier.  A message arrives: the checks without state, and the      *)
(* lookup of its height; without one, a new object, which is added in a step of its own.     *)
Judged(msg, why) ==
  verdict' = verdict \cup {[msg |-> msg, why |-> why, at |-> When(Verifier, why)]}

Arrive(msg) ==
  /\ alive /\ msg \in network /\ msg \notin received
  /\ received' = received \cup {m \in DOMAIN Wire : MsgId(m) = MsgId(msg)}
  /\ UNCHANGED <<clock, blocks, built, topic, signer, network, queue, engine, refused>>
  /\ LET free == {s \in Slots : job[s] = Idle}
         s == CHOOSE s \in free : TRUE
         p == Decoded[msg]
         found == Object(lru[Verifier], p.number)
         checked == Checked(Verifier, msg)
     IN  IF free = {} THEN Judged(msg, "throttled") /\ UNCHANGED <<alive, lru, heap, job>>
         ELSE IF checked = "panic" THEN alive' = FALSE /\ UNCHANGED <<verdict, lru, heap, job>>
         ELSE IF checked # "ok" THEN Judged(msg, checked) /\ UNCHANGED <<alive, lru, heap, job>>
         ELSE /\ UNCHANGED <<alive, verdict>>
              /\ IF found = {}
                 THEN /\ heap' = [heap EXCEPT ![Verifier] = Append(@, <<>>)]
                      /\ job' = [job EXCEPT ![s] = [stage |-> "add", msg |-> msg,
                                                    obj |-> Len(heap[Verifier]) + 1]]
                      /\ UNCHANGED lru
                 ELSE LET obj == CHOOSE o \in found : TRUE
                      IN  /\ lru' = [lru EXCEPT ![Verifier] = Used(@, p.number, obj)]
                          /\ job' = [job EXCEPT ![s] = [stage |-> "check", msg |-> msg,
                                                        obj |-> obj]]
                          /\ UNCHANGED heap

AddHeight(s) ==
  /\ job[s].stage = "add"
  /\ lru' = [lru EXCEPT ![Verifier] = Used(@, Decoded[job[s].msg].number, job[s].obj)]
  /\ job' = [job EXCEPT ![s].stage = "check"]
  /\ UNCHANGED <<clock, alive, blocks, built, topic, signer, network, received, heap, queue, engine,
                 refused, verdict>>

(* Mutant: a block is marked before its signature is checked. *)
CheckSeenMarksFirst(s) ==
  /\ job[s].stage = "check"
  /\ LET msg == job[s].msg
         seen == hasSeen(heap[Verifier][job[s].obj], Decoded[msg].hash)
         why == IF seen # "ok" THEN seen ELSE IF AuthorOK(msg) THEN "ok" ELSE "bad author"
     IN  /\ IF why = "ok" THEN job' = [job EXCEPT ![s].stage = "mark"] /\ UNCHANGED verdict
            ELSE job' = [job EXCEPT ![s] = Idle] /\ Judged(msg, why)
         /\ heap' = IF why = "bad author"
                    THEN [heap EXCEPT ![Verifier][job[s].obj] = Append(@, Decoded[msg].hash)]
                    ELSE heap
  /\ UNCHANGED <<clock, alive, blocks, built, topic, signer, network, received, lru, queue, engine,
                 refused>>

(* hasSeen under the object's lock, and the signature. *)
CheckSeen(s) ==
  /\ job[s].stage = "check"
  /\ LET msg == job[s].msg
         seen == hasSeen(heap[Verifier][job[s].obj], Decoded[msg].hash)
         why == IF seen # "ok" THEN seen ELSE IF AuthorOK(msg) THEN "ok" ELSE "bad author"
     IN  IF why = "ok" THEN job' = [job EXCEPT ![s].stage = "mark"] /\ UNCHANGED verdict
         ELSE job' = [job EXCEPT ![s] = Idle] /\ Judged(msg, why)
  /\ UNCHANGED <<clock, alive, blocks, built, topic, signer, network, received, lru, heap, queue,
                 engine, refused>>

(* markSeen, and the message is accepted. *)
MarkSeen(s) ==
  /\ job[s].stage = "mark"
  /\ LET msg == job[s].msg
     IN  /\ heap' = [heap EXCEPT ![Verifier][job[s].obj] = Append(@, Decoded[msg].hash)]
         /\ Deliver(Verifier, "peer", msg)
         /\ IF Len(queue[Verifier]) = SubBuffer THEN Judged(msg, "subscription full")
            ELSE UNCHANGED verdict
  /\ job' = [job EXCEPT ![s] = Idle]
  /\ UNCHANGED <<clock, alive, blocks, built, topic, signer, network, received, lru, engine,
                 refused>>

(* Mutant: the condition is inverted. *)
FromSelfInverted(from, n) == from # n

FromSelf(from, n) == from = n

(* MakeSubscriber, BlocksHandler and OpNode.OnUnsafeL2Payload: to the drivers, if from others. *)
OnUnsafeL2Payload(n) ==
  /\ queue[n] # <<>>
  /\ queue' = [queue EXCEPT ![n] = Tail(@)]
  /\ engine' = IF FromSelf(Head(queue[n]).from, n) THEN engine
               ELSE [engine EXCEPT ![n] = @ \cup {Head(queue[n]).msg}]
  /\ UNCHANGED <<clock, alive, blocks, built, topic, signer, network, received, lru, heap, job,
                 refused, verdict>>

-----------------------------------------------------------------------------
(* Time passes, on clocks that differ; the sequencer shuts down, its topic first and its     *)
(* signer next.                                                                              *)
Tick(n) ==
  /\ clock[n] < MaxClock /\ clock' = [clock EXCEPT ![n] = @ + 1]
  /\ UNCHANGED <<alive, blocks, built, topic, signer, network, received, lru, heap, job, queue,
                 engine, refused, verdict>>

Shutdown ==
  /\ \/ topic = "open" /\ topic' = "closed" /\ UNCHANGED signer
     \/ topic # "open" /\ signer = "open" /\ signer' = "closed" /\ UNCHANGED topic
  /\ UNCHANGED <<clock, alive, blocks, built, network, received, lru, heap, job, queue,
                 engine, refused, verdict>>

Validate == alive /\ \E s \in Slots : AddHeight(s) \/ CheckSeen(s) \/ MarkSeen(s)
Receive == \E msg \in network : Arrive(msg)
Subscriber(n) == (n = Verifier => alive) /\ OnUnsafeL2Payload(n)

Next ==
  \/ PublishL2Payload \/ Shutdown
  \/ Receive \/ Validate \/ \E n \in Nodes : Subscriber(n) \/ Tick(n)

(* The verifier's goroutines go on; whether a message arrives is up to the network. *)
Fairness == WF_vars(Validate) /\ WF_vars(Subscriber(Verifier))

Spec == Init /\ [][Next]_vars /\ Fairness
=============================================================================
