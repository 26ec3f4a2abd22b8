------------------------------- MODULE Proposer -------------------------------
(***************************************************************************)
(* The output proposer: the event loop of proposer.Service with the driver *)
(* of op-proposer/drivers/l2output, call by call, against L1 with the      *)
(* contract L2OutputOracle and a rollup node that follows L1.  L1 may      *)
(* re-org between any two calls, calls may fail, the owner may delete the  *)
(* latest output, and the proposer may be restarted.                       *)
(***************************************************************************)
EXTENDS OutputOracle, FiniteSets

CONSTANTS
  MaxL1,    \* bound: height of L1 without the blocks that hold transactions
  Allowed   \* bound: how often each mishap may happen, alternatives of counts

Mishaps == {"reorgs", "faults", "deletes", "restarts"}

ASSUME ProposerAssumption == MaxL1 \in Nat /\ Allowed \subseteq [Mishaps -> Nat]

VARIABLES
  l1,     \* the L1 chain: per block its fork, its transaction and the contract's state after it
  l2,     \* the forks of the L1 blocks from which the rollup node derived its L2 chain
  pool,   \* transactions that L1 nodes know
  pc,     \* where the event loop is
  loc,    \* its local variables
  tx,     \* the transaction it sends
  used    \* how often each mishap happened

vars == <<l1, l2, pool, pc, loc, tx, used>>

NoTx == [kind |-> "none"]
(* The L2 block before the first L1 block of the model. *)
GenesisOutput == [number |-> HISTORICAL_TOTAL_BLOCKS, basis |-> <<>>]
NoLocals == [start |-> 0, end |-> 0, nonce |-> 0, root |-> GenesisOutput]

(* A chain of L1 block hashes: the fork and the height of a block identify it. *)
Chain == [h \in DOMAIN l1 |-> l1[h].fork]

Oracle == IF l1 = <<>> THEN Deployed(GenesisOutput, 0) ELSE Last(l1).oracle

OneMore(m) == [used EXCEPT ![m] = @ + 1]
Happens(m) == used' = OneMore(m) /\ OneMore(m) \in Allowed

-----------------------------------------------------------------------------
(* L1. *)
Execute(t) ==
  CASE t.kind = "append" -> appendL2Output(Oracle, t, Chain)
    [] t.kind = "delete" -> deleteL2Output(Oracle, t)
    [] OTHER -> Oracle

Mine(t) == l1' = Append(l1, [fork |-> used["reorgs"], tx |-> t, oracle |-> Execute(t)])

L1Extend == Len(l1) < MaxL1 /\ Mine(NoTx) /\ UNCHANGED <<pool, used>>

(* The nonce of the owner's account: how many of its transactions L1 holds. *)
NonceAt == Cardinality({h \in DOMAIN l1 : l1[h].tx # NoTx})

(* L1 takes a transaction with the account's next nonce, which voids the others with it. *)
L1Include ==
  \E t \in pool :
    /\ t.nonce = NonceAt /\ Mine(t)
    /\ pool' = {o \in pool : o.nonce > t.nonce}
    /\ UNCHANGED used

L1Reorg ==
  /\ Happens("reorgs")
  /\ \E n \in 0 .. Len(l1) - 1 :
       /\ l1' = SubSeq(l1, 1, n)
       /\ pool' \in {pool, pool \cup ({l1[h].tx : h \in n + 1 .. Len(l1)} \ {NoTx})}

(* The owner deletes the latest output, though not the genesis output, from the same account: *)
(* with the next nonce, or with the one after a transaction that is pending.                  *)
Delete ==
  /\ Happens("deletes")
  /\ Oracle.latest > STARTING_BLOCK_TIMESTAMP
  /\ \E n \in NonceAt .. NonceAt + 1 :
       pool' = pool \cup {[kind |-> "delete", nonce |-> n,
                          proposal |-> Oracle.outputs[Oracle.latest]]}
  /\ UNCHANGED l1

L1 == (L1Extend \/ L1Include \/ L1Reorg \/ Delete) /\ UNCHANGED <<l2, pc, loc, tx>>

(* The rollup node follows L1.  Its block of the given number has a time and an L1 origin of *)
(* that time; OutputAtBlock takes the block from the node's chain, safe or not.              *)
L2Follows == l2 # Chain /\ l2' = Chain /\ UNCHANGED <<l1, pool, pc, loc, tx, used>>

L2Timestamp(number) ==
  STARTING_BLOCK_TIMESTAMP + (number - HISTORICAL_TOTAL_BLOCKS) * L2_BLOCK_TIME
HasL2Block(number) == L2Timestamp(number) <= Time(l2)

(* Mutant: the output of the head, not of the block asked for. *)
OutputAtHead(number) == [number |-> computeL2BlockNumber(Time(l2)), basis |-> l2]

OutputAtBlock(number) ==
  [number |-> number, basis |-> SubSeq(l2, 1, L2Timestamp(number))]

-----------------------------------------------------------------------------
(* The loop starts over, with nothing kept. *)
Again == pc' = "poll" /\ loc' = NoLocals /\ tx' = NoTx

(* GetBlockRange *)
ReadLatest ==
  /\ pc = "poll" /\ pc' = "next"
  /\ loc' = [NoLocals EXCEPT !.start = computeL2BlockNumber(Oracle.latest) + 1]
  /\ UNCHANGED <<pool, tx, used>>

ReadNext ==
  /\ pc = "next" /\ pc' = "elapsed"
  /\ loc' = [loc EXCEPT !.end = nextTimestamp(Oracle)]
  /\ UNCHANGED <<pool, tx, used>>

(* Mutant: waits beyond the timestamp. *)
DueLate == Time(l1) > loc.end

Due == Time(l1) >= loc.end

IntervalElapsed ==
  LET end == computeL2BlockNumber(loc.end) + 1
  IN  /\ pc = "elapsed"
      /\ \/ (~ Due \/ loc.start = end) /\ Again
         \/ /\ Due /\ loc.start # end
            /\ pc' = "nonce" /\ loc' = [loc EXCEPT !.end = end] /\ UNCHANGED tx
      /\ UNCHANGED <<pool, used>>

ReadNonce ==
  /\ pc = "nonce" /\ pc' = "root"
  /\ loc' = [loc EXCEPT !.nonce = NonceAt]
  /\ UNCHANGED <<pool, tx, used>>

(* CraftTx *)
Checkpoint == loc.end - 1

FetchOutput ==
  /\ pc = "root"
  /\ \/ ~ HasL2Block(Checkpoint) /\ Again
     \/ /\ HasL2Block(Checkpoint) /\ pc' = "sanity"
        /\ loc' = [loc EXCEPT !.root = OutputAtBlock(Checkpoint)] /\ UNCHANGED tx
  /\ UNCHANGED <<pool, used>>

CheckpointExpected(timestamp) == computeL2BlockNumber(timestamp) = Checkpoint

SanityCheck ==
  LET timestamp == nextTimestamp(Oracle)
  IN  /\ pc = "sanity"
      /\ \/ ~ CheckpointExpected(timestamp) /\ Again
         \/ /\ CheckpointExpected(timestamp) /\ pc' = "header"
            /\ tx' = [kind |-> "append", nonce |-> loc.nonce, root |-> loc.root,
                      timestamp |-> timestamp, l1Block |-> <<>>]
            /\ UNCHANGED loc
      /\ UNCHANGED <<pool, used>>

FetchHeader ==
  /\ pc = "header" /\ pc' = "estimate"
  /\ tx' = [tx EXCEPT !.l1Block = Chain]
  /\ UNCHANGED <<pool, loc, used>>

(* The checkpoint block has the timestamp, and the estimate of the gas does not revert. *)
Craftable ==
  /\ HasL2Block(Checkpoint) /\ L2Timestamp(Checkpoint) = tx.timestamp
  /\ ~ AppendReverts(Oracle, tx, Chain)

EstimateGas ==
  /\ pc = "estimate"
  /\ \/ ~ Craftable /\ Again
     \/ Craftable /\ pc' = "send" /\ loc' = NoLocals /\ UNCHANGED tx
  /\ UNCHANGED <<pool, used>>

(* TxManager.Send: UpdateGasPrice estimates the gas again before every publication, and does *)
(* not publish when that fails; a nonce that is used up ends Send with an error.             *)
Mined == \E h \in DOMAIN l1 : l1[h].tx = tx

Publish ==
  /\ pc = "send" /\ ~ Mined /\ ~ AppendReverts(Oracle, tx, Chain)
  /\ \/ tx.nonce < NonceAt /\ Again /\ UNCHANGED pool
     \/ tx.nonce >= NonceAt /\ tx \notin pool /\ pool' = pool \cup {tx} /\ UNCHANGED <<pc, loc, tx>>
  /\ UNCHANGED used

Sent == pc = "send" /\ Mined /\ Again /\ UNCHANGED <<pool, used>>

CallFails == pc \notin {"down", "poll", "send"} /\ Happens("faults") /\ Again /\ UNCHANGED pool

(* The proposer is stopped or crashes. *)
Stop ==
  /\ pc # "down" /\ Happens("restarts")
  /\ pc' = "down" /\ loc' = NoLocals /\ tx' = NoTx /\ UNCHANGED pool

(* It is started: with the key and the address of its configuration, after dialling L1, L2  *)
(* and the rollup node and asking L1 for its chain ID.  When one of these fails the process *)
(* ends.                                                                                    *)
NewL2OutputSubmitter ==
  /\ pc = "down"
  /\ \/ Again /\ UNCHANGED used
     \/ Happens("faults") /\ UNCHANGED <<pc, loc, tx>>
  /\ UNCHANGED pool

Main == NewL2OutputSubmitter \/ Stop

Loop ==
  \/ ReadLatest \/ ReadNext \/ IntervalElapsed \/ ReadNonce
  \/ FetchOutput \/ SanityCheck \/ FetchHeader \/ EstimateGas \/ Publish \/ Sent

Init ==
  /\ l1 = <<>> /\ l2 = <<>> /\ pool = {}
  /\ pc = "down" /\ loc = NoLocals /\ tx = NoTx
  /\ used = [m \in Mishaps |-> 0]

Next == L1 \/ L2Follows \/ ((Loop \/ CallFails \/ Main) /\ UNCHANGED <<l1, l2>>)

Spec == Init /\ [][Next]_vars

(* The loop goes on, L1 includes what is sent, and the rollup node follows L1. *)
Fairness ==
  /\ WF_vars(Loop /\ UNCHANGED <<l1, l2>>) /\ WF_vars(L1Include /\ L1) /\ WF_vars(L2Follows)

FairSpec == Spec /\ Fairness

-----------------------------------------------------------------------------
Outputs ==
  {o \in [number : Nat, basis : Seq(Nat)] :
     o = GenesisOutput \/ Len(o.basis) = L2Timestamp(o.number)}
Txs ==
  [kind : {"append"}, nonce : Nat, root : Outputs, timestamp : Nat, l1Block : Seq(Nat)]
    \cup [kind : {"delete"}, nonce : Nat, proposal : [root : Outputs, at : Nat]]

(* Type invariant of the variables above. *)
TypeOK ==
  /\ \A h \in DOMAIN l1 :
       /\ l1[h].fork \in Nat /\ l1[h].tx \in Txs \cup {NoTx} /\ l1[h].oracle.latest \in Nat
       /\ \A t \in DOMAIN l1[h].oracle.outputs :
            l1[h].oracle.outputs[t] \in [root : Outputs, at : Nat]
  /\ l2 \in Seq(Nat) /\ pool \subseteq Txs
  /\ pc \in {"down", "poll", "next", "elapsed", "nonce", "root", "sanity", "header", "estimate", "send"}
  /\ loc \in [start : Nat, end : Nat, nonce : Nat, root : Outputs]
  /\ tx \in Txs \cup {NoTx}
  /\ used \in [Mishaps -> Nat]

(***************************************************************************)
(* The contract holds one output per submission interval, without a gap,   *)
(* from the first block it records to its latest timestamp, whatever is    *)
(* appended, deleted and re-orged.                                         *)
(***************************************************************************)
OutputsOnSchedule ==
  DOMAIN Oracle.outputs =
    {t \in STARTING_BLOCK_TIMESTAMP .. Oracle.latest :
       (t - STARTING_BLOCK_TIMESTAMP) % SUBMISSION_INTERVAL = 0}

(***************************************************************************)
(* The output recorded under a timestamp is that of the L2 block with that *)
(* timestamp, although the block's number was worked out from an earlier   *)
(* state of the contract than the timestamp (and the root is of the state  *)
(* after that block, by the type of outputs).                              *)
(***************************************************************************)
OutputOfItsBlock ==
  /\ TypeOK
  /\ \A t \in DOMAIN Oracle.outputs :
       L2Timestamp(Oracle.outputs[t].root.number) = t

(***************************************************************************)
(* An output that was based on the L1 chain of the header it was crafted   *)
(* with is recorded on that chain only: an L1 reorg after the header was   *)
(* fetched makes appendL2Output revert.                                    *)
(***************************************************************************)
OutputKeepsItsL1 ==
  \A h \in DOMAIN l1 :
    LET t == l1[h].tx
    IN  (/\ t.kind = "append" /\ l1[h].oracle.latest = t.timestamp
         /\ l1[h].oracle.outputs[t.timestamp].at = h
         /\ IsPrefix(t.root.basis, t.l1Block))
          => IsPrefix(t.root.basis, Chain)

(* No mishap of these kinds has happened so far. *)
Never(ms) == \A m \in ms : used[m] = 0

(***************************************************************************)
(* Without reorgs and deletions, a proposer that gets started and is not   *)
(* stopped records every output that is due in the end, whatever calls     *)
(* fail.                                                                   *)
(***************************************************************************)
OutputsKeepUp ==
  [](Never({"reorgs", "deletes", "restarts"})) /\ <>(pc # "down")
    => <>[](Time(l1) < nextTimestamp(Oracle))
=============================================================================
