------------------------------ MODULE SyncStart ------------------------------
(***************************************************************************)
(* FindL2Heads (op-node/rollup/sync/start.go) query by query, while the L1 *)
(* chain may move between any two queries.                                 *)
(***************************************************************************)
EXTENDS SyncHeads

CONSTANTS
  Payload,  \* what an L1 block may carry
  Inputs,   \* triples <<start, l1, foreign>> the search may begin with
  L1Chains, \* the chains L1 may switch to
  MaxMoves  \* bound: how often L1 changes during the search

L1Block == Seq(Payload)
L2Block == Seq([origin : L1Block])

ASSUME SyncStartAssumption ==
  Inputs \subseteq L2Block \X L1Block \X BOOLEAN /\ L1Chains \subseteq L1Block /\ MaxMoves \in Nat

VARIABLES
  start,      \* the L2 block the search starts from
  l1,         \* the head of the canonical L1 chain
  foreign,    \* whether L1 is a chain the L2 chain was never built on
  moves,      \* how often l1 has changed
  pc,         \* "epoch", "number", "parent" (loop 1), "depth" (loop 2), "done"
  n,          \* number of the current L2 block; it is Ancestor(start, n)
  prevOrigin, \* origin of the previous iteration, as a set with at most one member
  candidate,  \* highestPlausibleCanonicalOrigin, likewise
  depth,      \* loop 2: epochs seen
  result      \* [err, unsafe, safe], meaningful when pc = "done"

vars == <<start, l1, foreign, moves, pc, n, prevOrigin, candidate, depth, result>>
loopVars == <<n, prevOrigin, candidate, depth>>

Block == Ancestor(start, n)

(* No hash of a foreign chain is one the L2 chain refers to. *)
Canonical == ~ foreign /\ IsCanonical(L1Origin(Block), l1)

NoResult == [err |-> "nil", unsafe |-> Genesis, safe |-> Genesis]

Init ==
  /\ \E input \in Inputs : start = input[1] /\ l1 = input[2] /\ foreign = input[3]
  /\ moves = 0
  /\ pc = "epoch" /\ n = Number(start)
  /\ prevOrigin = {} /\ candidate = {}
  /\ depth = 1
  /\ result = NoResult

L1Moves ==
  /\ pc # "done" /\ moves < MaxMoves
  /\ \E chain \in L1Chains \ {l1} : l1' = chain
  /\ moves' = moves + 1
  /\ UNCHANGED <<start, foreign, pc, loopVars, result>>

Fail(err) == pc' = "done" /\ result' = [NoResult EXCEPT !.err = err]

(* Mutant: goes round the loop again without moving to the parent. *)
SameEpochAgain ==
  /\ pc = "epoch" /\ prevOrigin = {L1Origin(Block)}
  /\ pc' = "epoch"
  /\ UNCHANGED <<loopVars, result>>

(* Loop 1, the origin is the one already looked at. *)
SameEpoch ==
  /\ pc = "epoch" /\ prevOrigin = {L1Origin(Block)}
  /\ pc' = "parent"
  /\ UNCHANGED <<loopVars, result>>

(* isAheadOrCanonical, first query: the origin is beyond the L1 head. *)
OriginAhead ==
  /\ pc = "epoch" /\ prevOrigin # {L1Origin(Block)}
  /\ Number(L1Origin(Block)) > Len(l1)
  /\ prevOrigin' = {L1Origin(Block)}
  /\ candidate' = IF candidate = {} THEN {n} ELSE candidate
  /\ pc' = "parent"
  /\ UNCHANGED <<n, depth, result>>

OriginNotAhead ==
  /\ pc = "epoch" /\ prevOrigin # {L1Origin(Block)}
  /\ Number(L1Origin(Block)) <= Len(l1)
  /\ prevOrigin' = {L1Origin(Block)}
  /\ pc' = "number"
  /\ UNCHANGED <<n, candidate, depth, result>>

(* Mutant: leaves loop 1 without setting the candidate. *)
QueryNumberNoCandidate ==
  /\ pc = "number"
  /\ HasL1Block(l1, Number(L1Origin(Block)))
  /\ pc' = IF Canonical THEN "depth" ELSE "parent"
  /\ UNCHANGED <<loopVars, result>>

(* isAheadOrCanonical, second query: the L1 block at that number. *)
QueryNumber ==
  /\ pc = "number"
  /\ \/ /\ ~ HasL1Block(l1, Number(L1Origin(Block)))
        /\ Fail("NotFound")
        /\ UNCHANGED candidate
     \/ /\ HasL1Block(l1, Number(L1Origin(Block))) /\ Canonical
        /\ candidate' = IF candidate = {} THEN {n} ELSE candidate
        /\ pc' = "depth"
        /\ UNCHANGED result
     \/ /\ HasL1Block(l1, Number(L1Origin(Block))) /\ ~ Canonical
        /\ candidate' = {}
        /\ pc' = "parent"
        /\ UNCHANGED result
  /\ UNCHANGED <<n, prevOrigin, depth>>

(* Number(start) - n is reorgDepth. *)
WalkBack ==
  /\ pc = "parent"
  /\ \/ n = 0 /\ Fail("WrongChainErr") /\ UNCHANGED n
     \/ /\ n > 0 /\ Number(start) - (n - 1) >= MaxReorgDepth
        /\ Fail("TooDeepReorgErr") /\ n' = n - 1
     \/ /\ n > 0 /\ Number(start) - (n - 1) < MaxReorgDepth
        /\ n' = n - 1 /\ pc' = "epoch" /\ UNCHANGED result
  /\ UNCHANGED <<prevOrigin, candidate, depth>>

(* Mutant: counts blocks instead of epochs. *)
NewDepthPerBlock == IF n = Number(start) THEN depth ELSE depth + 1

(* Loop 2. *)
NewDepth == IF prevOrigin = {L1Origin(Block)} THEN depth ELSE depth + 1

Found(safe) ==
  /\ pc' = "done"
  /\ result' = [err |-> "nil", unsafe |-> Ancestor(start, Max(candidate)), safe |-> safe]

CountEpoch ==
  /\ pc = "depth"
  /\ depth' = NewDepth
  /\ prevOrigin' = {L1Origin(Block)}
  /\ \/ NewDepth = SeqWindowSize /\ Found(Block) /\ UNCHANGED n
     \/ NewDepth # SeqWindowSize /\ n = 0 /\ Found(Genesis) /\ UNCHANGED n
     \/ NewDepth # SeqWindowSize /\ n > 0 /\ n' = n - 1 /\ UNCHANGED <<pc, result>>
  /\ UNCHANGED candidate

(* A query of either chain fails, and its error is returned. *)
SourceFails ==
  /\ \/ pc \in {"number", "parent", "depth"}
     \/ pc = "epoch" /\ prevOrigin # {L1Origin(Block)}
  /\ Fail("query")
  /\ UNCHANGED <<start, l1, foreign, moves, loopVars>>

Search ==
  /\ \/ SameEpoch \/ OriginAhead \/ OriginNotAhead \/ QueryNumber \/ WalkBack \/ CountEpoch
  /\ UNCHANGED <<start, l1, foreign, moves>>

Next == L1Moves \/ SourceFails \/ Search

Spec == Init /\ [][Next]_vars /\ WF_vars(Search)

-----------------------------------------------------------------------------
(***************************************************************************)
(* When L1 does not move and no query fails, FindL2Heads returns what the  *)
(* declarative definitions of SyncHeads say, and fails exactly when they   *)
(* say.                                                                    *)
(***************************************************************************)
AgreesWithSyncHeads ==
  pc = "done" /\ moves = 0 /\ ~ foreign /\ result.err # "query" =>
    result = IF ReorgTooDeep(start, l1)
             THEN [NoResult EXCEPT !.err = "TooDeepReorgErr"]
             ELSE [err |-> "nil", unsafe |-> UnsafeHead(start, l1),
                   safe |-> SafeHead(start, l1)]

(***************************************************************************)
(* Whatever L1 does meanwhile, a successful search returns ancestors of    *)
(* start in the right order, and the comment on the candidate variable     *)
(* ("Guaranteed to be set after exiting from Loop 1") holds.  A search     *)
(* whose L1 endpoint serves another chain is never successful.             *)
(***************************************************************************)
HeadsOrdered ==
  /\ pc = "depth" => candidate # {}
  /\ pc = "done" /\ result.err = "nil" =>
       /\ IsAncestor(result.safe, result.unsafe) /\ IsAncestor(result.unsafe, start)
       /\ ~ foreign

(* The search always ends, even when L1 keeps moving for a while. *)
SearchEnds == <>(pc = "done")
=============================================================================
