----------------------------- MODULE OutputOracle -----------------------------
(***************************************************************************)
(* The contract L2OutputOracle: its state, its views and its two           *)
(* transactions, as functions of the state, the transaction and the L1     *)
(* chain below the block that executes it.  A reverted transaction leaves  *)
(* the state as it was.                                                    *)
(***************************************************************************)
EXTENDS Naturals, SequencesExt

CONSTANTS
  SUBMISSION_INTERVAL, L2_BLOCK_TIME, HISTORICAL_TOTAL_BLOCKS, STARTING_BLOCK_TIMESTAMP

(* The constructor's requirement. *)
ASSUME OutputOracleAssumption ==
  /\ SUBMISSION_INTERVAL \in Nat \ {0} /\ L2_BLOCK_TIME \in Nat \ {0}
  /\ SUBMISSION_INTERVAL % L2_BLOCK_TIME = 0
  /\ HISTORICAL_TOTAL_BLOCKS \in Nat /\ STARTING_BLOCK_TIMESTAMP \in Nat

(* l2Outputs and latestBlockTimestamp, as deployed at the given time. *)
Deployed(genesisL2Output, time) ==
  [latest |-> STARTING_BLOCK_TIMESTAMP,
   outputs |-> [t \in {STARTING_BLOCK_TIMESTAMP} |-> [root |-> genesisL2Output, at |-> time]]]

nextTimestamp(oracle) == oracle.latest + SUBMISSION_INTERVAL

computeL2BlockNumber(timestamp) ==
  HISTORICAL_TOTAL_BLOCKS + (timestamp - STARTING_BLOCK_TIMESTAMP) \div L2_BLOCK_TIME

(* The time of an L1 block; a chain is the sequence of its blocks. *)
Time(chain) == Len(chain)

(* Mutant: the blockhash is not compared. *)
AppendRevertsAnyHash(oracle, tx, chain) ==
  tx.timestamp > Time(chain) \/ tx.timestamp # nextTimestamp(oracle)

AppendReverts(oracle, tx, chain) ==
  \/ tx.timestamp > Time(chain)  \* the executing block is one later
  \/ tx.timestamp # nextTimestamp(oracle)
  \/ ~ IsPrefix(tx.l1Block, chain)

appendL2Output(oracle, tx, chain) ==
  IF AppendReverts(oracle, tx, chain) THEN oracle
  ELSE [latest |-> tx.timestamp,
        outputs |-> [t \in DOMAIN oracle.outputs \cup {tx.timestamp} |->
                      IF t = tx.timestamp THEN [root |-> tx.root, at |-> Time(chain) + 1]
                      ELSE oracle.outputs[t]]]

(* Mutant: the latest timestamp stays. *)
deleteL2OutputOnly(oracle, tx) ==
  IF oracle.latest \notin DOMAIN oracle.outputs \/ tx.proposal # oracle.outputs[oracle.latest]
  THEN oracle
  ELSE [oracle EXCEPT !.outputs = [t \in DOMAIN oracle.outputs \ {oracle.latest} |-> oracle.outputs[t]]]

deleteL2Output(oracle, tx) ==
  IF tx.proposal # oracle.outputs[oracle.latest] THEN oracle
  ELSE [latest |-> oracle.latest - SUBMISSION_INTERVAL,
        outputs |-> [t \in DOMAIN oracle.outputs \ {oracle.latest} |-> oracle.outputs[t]]]
=============================================================================
