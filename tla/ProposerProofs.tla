---------------------------- MODULE ProposerProofs ----------------------------
(***************************************************************************)
(* What the output proposer and L2OutputOracle record is on schedule, of   *)
(* its block and on its L1 chain, for all values of the constants: any     *)
(* submission interval and block time, any number of reorgs, failed calls, *)
(* deletions and restarts.                                                 *)
(***************************************************************************)
EXTENDS Proposer, FiniteSetTheorems, SequenceTheorems, TLAPS

IsSeq(s) == Len(s) \in Nat /\ s = [i \in 1 .. Len(s) |-> s[i]]

(* The contract's state after L1 block h.  Only the genesis output was not recorded by a block, *)
(* so that a deletion, which names an output that a block recorded, never takes it.             *)
OnSchedule(oracle) ==
  /\ oracle.latest \in Nat /\ oracle.latest >= STARTING_BLOCK_TIMESTAMP
  /\ (oracle.latest - STARTING_BLOCK_TIMESTAMP) % SUBMISSION_INTERVAL = 0
  /\ DOMAIN oracle.outputs =
       {t \in STARTING_BLOCK_TIMESTAMP .. oracle.latest :
          (t - STARTING_BLOCK_TIMESTAMP) % SUBMISSION_INTERVAL = 0}
Recorded(oracle, h) ==
  \A t \in DOMAIN oracle.outputs :
    LET o == oracle.outputs[t]
    IN  /\ o \in [root : Outputs, at : Nat] /\ L2Timestamp(o.root.number) = t
        /\ o.at <= h /\ (o.at = 0 <=> t = STARTING_BLOCK_TIMESTAMP)

(* A transaction that was published. *)
Crafted(t) ==
  /\ t.kind = "append" => L2Timestamp(t.root.number) = t.timestamp
  /\ t.kind = "delete" => t.proposal.at > 0

(* The output that block h of a chain recorded names an L1 block below h of the same chain. *)
NamesAncestor(chain, h) ==
  LET t == chain[h].tx
  IN  (/\ t.kind = "append" /\ chain[h].oracle.latest = t.timestamp
       /\ chain[h].oracle.outputs[t.timestamp].at = h)
        => /\ Len(t.l1Block) < h
           /\ \A i \in 1 .. Len(t.l1Block) : t.l1Block[i] = chain[i].fork

BlockOK(block, h) ==
  /\ block.fork \in Nat /\ block.tx \in Txs \cup {NoTx}
  /\ OnSchedule(block.oracle) /\ Recorded(block.oracle, h) /\ Crafted(block.tx)
ChainOK(chain) ==
  IsSeq(chain) /\ \A h \in DOMAIN chain : BlockOK(chain[h], h) /\ NamesAncestor(chain, h)

(* What the loop knows between its calls. *)
LoopInv ==
  /\ pc = "elapsed" => loc.end >= STARTING_BLOCK_TIMESTAMP
  /\ pc \in {"nonce", "root", "sanity", "header", "estimate"} => loc.end > HISTORICAL_TOTAL_BLOCKS
  /\ pc \in {"sanity", "header", "estimate"} => loc.root.number = loc.end - 1
  /\ pc \in {"header", "estimate"} => tx.kind = "append" /\ tx.root = loc.root
  /\ pc = "send" => tx.kind = "append" /\ Crafted(tx)

L1Inv == ChainOK(l1) /\ \A t \in pool : Crafted(t)

(***************************************************************************)
(* The inductive invariant.  The properties speak of the latest state of   *)
(* the contract only; after a reorg an earlier one is the latest, so the   *)
(* invariant speaks of the state after every block, and of every           *)
(* transaction that may still get into one.                                *)
(***************************************************************************)
IInv == TypeOK /\ L1Inv /\ LoopInv

-----------------------------------------------------------------------------
(* Arithmetic. *)

(* A multiple other than 0 is not below its factor. *)
LEMMA Multiple ==
  ASSUME NEW k \in Int, NEW m \in Nat \ {0}
  PROVE  /\ k >= 1 => m * k >= m
         /\ k <= -1 => m * k <= -m
         /\ m * k \in Int
<1>1. k >= 1 => m * (k - 1) >= 0
  OBVIOUS
<1>2. k <= -1 => m * (-1 - k) >= 0
  OBVIOUS
<1>3. m * (k - 1) = m * k - m /\ m * (-1 - k) = -m - m * k
  OBVIOUS
<1> QED  BY <1>1, <1>2, <1>3

(* Division with remainder. *)
LEMMA Remainder ==
  ASSUME NEW x \in Int, NEW m \in Nat \ {0}
  PROVE  /\ x \div m \in Int /\ x % m \in 0 .. m - 1
         /\ x = m * (x \div m) + (x % m)
OBVIOUS

(* Multiples leave no remainder, *)
LEMMA NoRemainder ==
  ASSUME NEW x \in Int, NEW k \in Int, NEW m \in Nat \ {0}, x = m * k
  PROVE  x % m = 0
<1> DEFINE q == x \div m
           r == x % m
<1>1. q \in Int /\ r \in 0 .. m - 1 /\ x = m * q + r
  BY Remainder, Zenon
<1> HIDE DEF q, r
<1>2. m * (k - q) = r
  <2>1. m * (k - q) = m * k - m * q
    BY <1>1
  <2> QED  BY <1>1, <2>1, Multiple
<1>3. k - q \in Int
  BY <1>1
<1>4. ~ (k - q >= 1) /\ ~ (k - q <= -1)
  BY <1>1, <1>2, <1>3, Multiple
<1>5. k = q
  BY <1>1, <1>4
<1>6. m * q \in Int
  BY <1>1, Multiple
<1>7. r = 0
  BY <1>1, <1>5, <1>6
<1> QED  BY <1>7 DEF r

(* and there is none between two that follow each other. *)
LEMMA Multiples ==
  ASSUME NEW x \in Int, NEW y \in Int, NEW m \in Nat \ {0}, x % m = 0, y % m = 0
  PROVE  /\ (x + m) % m = 0 /\ (x - m) % m = 0
         /\ x < y => x + m <= y
<1>1. PICK a \in Int : x = m * a
  <2>1. x \div m \in Int /\ x = m * (x \div m) + 0
    BY Remainder
  <2>2. m * (x \div m) \in Int
    BY <2>1, Multiple
  <2> QED  BY <2>1, <2>2
<1>2. PICK b \in Int : y = m * b
  <2>1. y \div m \in Int /\ y = m * (y \div m) + 0
    BY Remainder
  <2>2. m * (y \div m) \in Int
    BY <2>1, Multiple
  <2> QED  BY <2>1, <2>2
<1>3. x + m = m * (a + 1) /\ x - m = m * (a - 1) /\ y - x = m * (b - a)
  BY <1>1, <1>2
<1>4. (x + m) % m = 0 /\ (x - m) % m = 0
  BY <1>1, <1>3, NoRemainder
<1>5. x < y => x + m <= y
  <2>1. b - a >= 1 => m * (b - a) >= m
    BY Multiple
  <2>2. b - a <= -1 => m * (b - a) <= -m
    BY Multiple
  <2>3. b = a => y = x
    BY <1>1, <1>2
  <2> QED  BY <1>3, <2>1, <2>2, <2>3
<1> QED  BY <1>4, <1>5

-----------------------------------------------------------------------------
(* The contract. *)
USE OutputOracleAssumption, ProposerAssumption

(* The fields of transactions. *)
LEMMA TxFields ==
  ASSUME NEW t
  PROVE  /\ t \in Txs => t.kind \in {"append", "delete"} /\ t.nonce \in Nat /\ t # NoTx
         /\ t \in Txs /\ t.kind = "append" =>
              t.root \in Outputs /\ t.timestamp \in Nat /\ t.l1Block \in Seq(Nat)
         /\ t \in Txs /\ t.kind = "delete" => t.proposal \in [root : Outputs, at : Nat]
         /\ NoTx.kind = "none"
<1>1. NoTx.kind = "none"
  BY DEF NoTx
<1>2. ASSUME t \in [kind : {"append"}, nonce : Nat, root : Outputs, timestamp : Nat, l1Block : Seq(Nat)]
      PROVE  /\ t.kind = "append" /\ t.nonce \in Nat /\ t.root \in Outputs /\ t.timestamp \in Nat
             /\ t.l1Block \in Seq(Nat)
  BY <1>2
<1>3. ASSUME t \in [kind : {"delete"}, nonce : Nat, proposal : [root : Outputs, at : Nat]]
      PROVE  t.kind = "delete" /\ t.nonce \in Nat /\ t.proposal \in [root : Outputs, at : Nat]
  BY <1>3
<1>4. t \in Txs => t.kind \in {"append", "delete"} /\ t.nonce \in Nat
  BY <1>2, <1>3 DEF Txs
<1>5. t \in Txs => t # NoTx
  BY <1>1, <1>4
<1> QED  BY <1>1, <1>2, <1>3, <1>4, <1>5 DEF Txs

(* The constructor leaves one output, of the genesis block. *)
LEMMA DeployedKeeps ==
  /\ OnSchedule(Deployed(GenesisOutput, 0)) /\ Recorded(Deployed(GenesisOutput, 0), 0)
  /\ GenesisOutput \in Outputs
<1> DEFINE o == [root |-> GenesisOutput, at |-> 0]
<1>1. GenesisOutput \in [number : Nat, basis : Seq(Nat)] /\ GenesisOutput.number = HISTORICAL_TOTAL_BLOCKS
  <2>1. <<>> \in Seq(Nat)
    BY EmptySeq
  <2> QED  BY <2>1 DEF GenesisOutput, OutputOracleAssumption
<1>2. GenesisOutput \in Outputs
  BY <1>1 DEF Outputs
<1>3. o \in [root : Outputs, at : Nat] /\ o.root = GenesisOutput /\ o.at = 0
  BY <1>2
<1>4. L2Timestamp(HISTORICAL_TOTAL_BLOCKS) = STARTING_BLOCK_TIMESTAMP
  BY DEF L2Timestamp, OutputOracleAssumption
<1>5. 0 % SUBMISSION_INTERVAL = 0
  BY NoRemainder DEF OutputOracleAssumption
<1>6. /\ Deployed(GenesisOutput, 0).latest = STARTING_BLOCK_TIMESTAMP
      /\ DOMAIN Deployed(GenesisOutput, 0).outputs = {STARTING_BLOCK_TIMESTAMP}
      /\ Deployed(GenesisOutput, 0).outputs[STARTING_BLOCK_TIMESTAMP] = o
  BY DEF Deployed
<1> HIDE DEF o
<1>7. OnSchedule(Deployed(GenesisOutput, 0))
  <2>1. STARTING_BLOCK_TIMESTAMP \in Nat /\ STARTING_BLOCK_TIMESTAMP - STARTING_BLOCK_TIMESTAMP = 0
    BY DEF OutputOracleAssumption
  <2>2. STARTING_BLOCK_TIMESTAMP .. STARTING_BLOCK_TIMESTAMP = {STARTING_BLOCK_TIMESTAMP}
    BY <2>1
  <2> QED  BY <1>5, <1>6, <2>1, <2>2 DEF OnSchedule
<1> QED  BY <1>1, <1>2, <1>3, <1>4, <1>6, <1>7 DEF Recorded

(* appendL2Output adds the next one, *)
LEMMA AppendKeeps ==
  ASSUME NEW oracle, NEW h \in Nat, OnSchedule(oracle), Recorded(oracle, h),
         NEW t \in Txs, t.kind = "append", Crafted(t), NEW chain, Time(chain) = h
  PROVE  /\ OnSchedule(appendL2Output(oracle, t, chain))
         /\ Recorded(appendL2Output(oracle, t, chain), h + 1)
<1> DEFINE new == [root |-> t.root, at |-> h + 1]
           after == appendL2Output(oracle, t, chain)
           S == STARTING_BLOCK_TIMESTAMP
           I == SUBMISSION_INTERVAL
<1>1. t.root \in Outputs /\ t.timestamp \in Nat /\ L2Timestamp(t.root.number) = t.timestamp
  BY TxFields DEF Crafted
<1>2. S \in Nat /\ I \in Nat \ {0}
  BY DEF OutputOracleAssumption
<1>3. /\ oracle.latest \in Nat /\ oracle.latest >= S /\ (oracle.latest - S) % I = 0
      /\ DOMAIN oracle.outputs = {x \in S .. oracle.latest : (x - S) % I = 0}
  BY DEF OnSchedule
<1>4. CASE AppendReverts(oracle, t, chain)
  BY <1>4 DEF appendL2Output, Recorded
<1>5. CASE ~ AppendReverts(oracle, t, chain)
  <2>1. t.timestamp = oracle.latest + I
    BY <1>5 DEF AppendReverts, nextTimestamp
  <2>2. /\ after.latest = t.timestamp
        /\ DOMAIN after.outputs = DOMAIN oracle.outputs \cup {t.timestamp}
        /\ after.outputs[t.timestamp] = new
        /\ \A x \in DOMAIN oracle.outputs : x # t.timestamp => after.outputs[x] = oracle.outputs[x]
    BY <1>5 DEF appendL2Output
  <2> HIDE DEF after
  <2>3. (t.timestamp - S) % I = 0
    <3>1. t.timestamp - S = (oracle.latest - S) + I /\ oracle.latest - S \in Int
      BY <1>2, <1>3, <2>1
    <3> QED  BY <1>2, <1>3, <3>1, Multiples
  <2>4. ASSUME NEW x \in S .. t.timestamp, (x - S) % I = 0, x # t.timestamp
        PROVE  x <= oracle.latest
    <3>1. x - S \in Int /\ t.timestamp - S \in Int /\ x - S < t.timestamp - S
      BY <1>1, <1>2, <2>4
    <3>2. x - S + I <= t.timestamp - S
      BY <1>2, <2>3, <2>4, <3>1, Multiples, Zenon
    <3> QED  BY <1>1, <1>2, <1>3, <2>1, <3>2
  <2>5. DOMAIN after.outputs = {x \in S .. t.timestamp : (x - S) % I = 0}
    BY <1>1, <1>2, <1>3, <2>1, <2>2, <2>3, <2>4
  <2>6. OnSchedule(after)
    BY <1>1, <1>2, <1>3, <2>1, <2>2, <2>3, <2>5 DEF OnSchedule
  <2>7. new \in [root : Outputs, at : Nat] /\ new.root = t.root /\ new.at = h + 1
    BY <1>1
  <2> HIDE DEF new
  <2>8. t.timestamp # S
    BY <1>1, <1>2, <1>3, <2>1
  <2>9. ASSUME NEW x \in DOMAIN after.outputs
        PROVE  LET o == after.outputs[x]
               IN  /\ o \in [root : Outputs, at : Nat] /\ L2Timestamp(o.root.number) = x
                   /\ o.at <= h + 1 /\ (o.at = 0 <=> x = S)
    <3>1. CASE x = t.timestamp
      BY <1>1, <2>2, <2>7, <2>8, <3>1
    <3>2. CASE x # t.timestamp
      <4>1. x \in DOMAIN oracle.outputs /\ after.outputs[x] = oracle.outputs[x]
        BY <2>2, <3>2
      <4>2. /\ oracle.outputs[x] \in [root : Outputs, at : Nat]
            /\ L2Timestamp(oracle.outputs[x].root.number) = x
            /\ oracle.outputs[x].at <= h /\ (oracle.outputs[x].at = 0 <=> x = S)
        BY <4>1 DEF Recorded
      <4>3. oracle.outputs[x].at \in Nat
        BY <4>2
      <4> QED  BY <4>1, <4>2, <4>3
    <3> QED  BY <3>1, <3>2
  <2>10. Recorded(after, h + 1)
    BY <2>9 DEF Recorded
  <2> QED  BY <2>6, <2>10 DEF after
<1> QED  BY <1>4, <1>5

(* and deleteL2Output takes the latest one, though never the genesis output. *)
LEMMA DeleteKeeps ==
  ASSUME NEW oracle, NEW h \in Nat, OnSchedule(oracle), Recorded(oracle, h),
         NEW t \in Txs, t.kind = "delete", Crafted(t)
  PROVE  OnSchedule(deleteL2Output(oracle, t)) /\ Recorded(deleteL2Output(oracle, t), h + 1)
<1> DEFINE after == deleteL2Output(oracle, t)
           S == STARTING_BLOCK_TIMESTAMP
           I == SUBMISSION_INTERVAL
<1>1. S \in Nat /\ I \in Nat \ {0}
  BY DEF OutputOracleAssumption
<1>2. /\ oracle.latest \in Nat /\ oracle.latest >= S /\ (oracle.latest - S) % I = 0
      /\ DOMAIN oracle.outputs = {x \in S .. oracle.latest : (x - S) % I = 0}
  BY DEF OnSchedule
<1>3. oracle.latest \in Nat /\ oracle.latest >= S
  BY <1>2
<1>4. CASE t.proposal # oracle.outputs[oracle.latest]
  BY <1>4 DEF deleteL2Output, Recorded
<1>5. CASE t.proposal = oracle.outputs[oracle.latest]
  <2>1. /\ after.latest = oracle.latest - I
        /\ DOMAIN after.outputs = DOMAIN oracle.outputs \ {oracle.latest}
        /\ \A x \in DOMAIN oracle.outputs \ {oracle.latest} : after.outputs[x] = oracle.outputs[x]
    BY <1>5 DEF deleteL2Output
  <2> HIDE DEF after
  <2>2. oracle.latest \in DOMAIN oracle.outputs
    BY <1>1, <1>2
  <2>3. oracle.latest # S
    BY <1>5, <2>2 DEF Recorded, Crafted
  <2>4. oracle.latest - S \in Int /\ 0 \in Int /\ 0 < oracle.latest - S /\ 0 % I = 0
    <3>1. 0 % I = 0
      BY <1>1, NoRemainder
    <3> QED  BY <1>1, <1>3, <2>3, <3>1
  <2>5. /\ 0 + I <= oracle.latest - S /\ (oracle.latest - S - I) % I = 0
    BY <1>1, <1>2, <2>4, Multiples
  <2>6. /\ oracle.latest - I \in Nat /\ oracle.latest - I >= S
        /\ (oracle.latest - I) - S = oracle.latest - S - I
    <3>1. 0 + I <= oracle.latest - S
      BY <2>5
    <3> QED  BY <1>1, <1>3, <3>1
  <2>7. ASSUME NEW x \in S .. oracle.latest, (x - S) % I = 0, x # oracle.latest
        PROVE  x <= oracle.latest - I
    <3>1. x - S \in Int /\ oracle.latest - S \in Int /\ x - S < oracle.latest - S
      BY <1>1, <1>3, <2>7
    <3>2. x - S + I <= oracle.latest - S
      BY <1>1, <1>2, <2>7, <3>1, Multiples
    <3> QED  BY <1>1, <1>3, <3>2
  <2>8. DOMAIN after.outputs = {x \in S .. oracle.latest - I : (x - S) % I = 0}
    BY <1>1, <1>2, <2>1, <2>6, <2>7
  <2>9. OnSchedule(after)
    BY <2>1, <2>5, <2>6, <2>8 DEF OnSchedule
  <2>10. Recorded(after, h + 1)
    <3>1. ASSUME NEW x \in DOMAIN after.outputs
          PROVE  LET o == after.outputs[x]
                 IN  /\ o \in [root : Outputs, at : Nat] /\ L2Timestamp(o.root.number) = x
                     /\ o.at <= h + 1 /\ (o.at = 0 <=> x = S)
      <4>1. x \in DOMAIN oracle.outputs /\ after.outputs[x] = oracle.outputs[x]
        BY <2>1
      <4>2. /\ oracle.outputs[x] \in [root : Outputs, at : Nat]
            /\ L2Timestamp(oracle.outputs[x].root.number) = x
            /\ oracle.outputs[x].at <= h /\ (oracle.outputs[x].at = 0 <=> x = S)
        BY <4>1 DEF Recorded
      <4>3. oracle.outputs[x].at \in Nat
        BY <4>2
      <4> QED  BY <4>1, <4>2, <4>3
    <3> QED  BY <3>1 DEF Recorded
  <2> QED  BY <2>9, <2>10 DEF after
<1> QED  BY <1>4, <1>5

-----------------------------------------------------------------------------
(* Sequences. *)

(* A sequence, one element more, and a prefix of it. *)
LEMMA SeqFacts ==
  ASSUME NEW s, IsSeq(s)
  PROVE  /\ DOMAIN s = 1 .. Len(s) /\ Len(s) \in Nat /\ (s = <<>> <=> Len(s) = 0)
         /\ \A e : /\ IsSeq(Append(s, e)) /\ Len(Append(s, e)) = Len(s) + 1
                   /\ DOMAIN Append(s, e) = 1 .. Len(s) + 1
                   /\ Append(s, e)[Len(s) + 1] = e
                   /\ \A i \in 1 .. Len(s) : Append(s, e)[i] = s[i]
         /\ \A n \in 0 .. Len(s) :
              /\ IsSeq(SubSeq(s, 1, n)) /\ Len(SubSeq(s, 1, n)) = n
              /\ DOMAIN SubSeq(s, 1, n) = 1 .. n
              /\ \A i \in 1 .. n : SubSeq(s, 1, n)[i] = s[i]
<1> DEFINE E == {s[i] : i \in 1 .. Len(s)}
<1>1. Len(s) \in Nat /\ DOMAIN s = 1 .. Len(s) /\ s \in [1 .. Len(s) -> E]
  BY DEF IsSeq
<1>2. s \in Seq(E)
  BY <1>1, SeqDef, SMTT(30)
<1>3. ASSUME NEW T, NEW u \in Seq(T)
      PROVE  IsSeq(u) /\ DOMAIN u = 1 .. Len(u) /\ (u = <<>> <=> Len(u) = 0)
  <2>1. Len(u) \in Nat /\ DOMAIN u = 1 .. Len(u) /\ u \in [1 .. Len(u) -> T]
    BY LenProperties
  <2>2. u = [i \in 1 .. Len(u) |-> u[i]]
    BY <2>1
  <2> QED  BY <2>1, <2>2, EmptySeq DEF IsSeq
<1>4. ASSUME NEW e
      PROVE  /\ IsSeq(Append(s, e)) /\ Len(Append(s, e)) = Len(s) + 1
             /\ DOMAIN Append(s, e) = 1 .. Len(s) + 1
             /\ Append(s, e)[Len(s) + 1] = e
             /\ \A i \in 1 .. Len(s) : Append(s, e)[i] = s[i]
  <2> DEFINE T == E \cup {e}
  <2>1. s \in [1 .. Len(s) -> T]
    BY <1>1
  <2>2. s \in Seq(T) /\ e \in T
    BY <1>1, <2>1, SeqDef
  <2> HIDE DEF T
  <2>3. /\ Append(s, e) \in Seq(T) /\ Len(Append(s, e)) = Len(s) + 1
        /\ Append(s, e)[Len(s) + 1] = e /\ \A i \in 1 .. Len(s) : Append(s, e)[i] = s[i]
    BY <2>2, AppendProperties
  <2>4. IsSeq(Append(s, e)) /\ DOMAIN Append(s, e) = 1 .. Len(Append(s, e))
    BY <1>3, <2>3, Zenon
  <2> QED  BY <2>3, <2>4
<1>5. ASSUME NEW n \in 0 .. Len(s)
      PROVE  /\ IsSeq(SubSeq(s, 1, n)) /\ Len(SubSeq(s, 1, n)) = n
             /\ DOMAIN SubSeq(s, 1, n) = 1 .. n
             /\ \A i \in 1 .. n : SubSeq(s, 1, n)[i] = s[i]
  <2>1. n \in Int /\ n >= 0 /\ \A i \in 1 .. n : s[i] \in E
    BY <1>1
  <2> HIDE DEF E
  <2>2. /\ SubSeq(s, 1, n) \in Seq(E) /\ Len(SubSeq(s, 1, n)) = (IF 1 <= n THEN n - 1 + 1 ELSE 0)
        /\ \A i \in 1 .. n - 1 + 1 : SubSeq(s, 1, n)[i] = s[1 + i - 1]
    BY <2>1, SubSeqProperties
  <2>3. Len(SubSeq(s, 1, n)) = n
    BY <2>1, <2>2
  <2>4. IsSeq(SubSeq(s, 1, n)) /\ DOMAIN SubSeq(s, 1, n) = 1 .. Len(SubSeq(s, 1, n))
    BY <1>3, <2>2, Zenon
  <2>5. ASSUME NEW i \in 1 .. n  PROVE SubSeq(s, 1, n)[i] = s[i]
    <3>1. i \in 1 .. n - 1 + 1 /\ 1 + i - 1 = i
      BY <2>1
    <3> QED  BY <2>2, <3>1
  <2> QED  BY <2>3, <2>4, <2>5
<1> QED  BY <1>1, <1>2, <1>3, <1>4, <1>5

(* What a prefix is, position by position. *)
LEMMA PrefixFacts ==
  ASSUME NEW s, NEW t, IsSeq(s), IsSeq(t)
  PROVE  IsPrefix(s, t) <=> Len(s) <= Len(t) /\ \A i \in 1 .. Len(s) : s[i] = t[i]
<1>1. Len(s) \in Nat /\ Len(t) \in Nat
  BY DEF IsSeq
<1>2. CASE Len(s) <= Len(t)
  <2> DEFINE a == SubSeq(s, 1, Len(s))
             b == SubSeq(t, 1, Len(s))
  <2>1. Len(s) \in 0 .. Len(s) /\ Len(s) \in 0 .. Len(t)
    BY <1>1, <1>2
  <2>2. /\ IsSeq(a) /\ Len(a) = Len(s) /\ \A i \in 1 .. Len(s) : a[i] = s[i]
        /\ IsSeq(b) /\ Len(b) = Len(s) /\ \A i \in 1 .. Len(s) : b[i] = t[i]
    BY <2>1, SeqFacts
  <2> HIDE DEF a, b
  <2>3. a = b <=> \A i \in 1 .. Len(s) : a[i] = b[i]
    BY <2>2 DEF IsSeq
  <2> QED  BY <1>2, <2>2, <2>3 DEF IsPrefix, a, b
<1>3. CASE ~ (Len(s) <= Len(t))
  BY <1>3 DEF IsPrefix
<1> QED  BY <1>2, <1>3

(* What a sequence has in common with its prefix. *)
Agree(s, t) == Len(s) <= Len(t) /\ \A i \in 1 .. Len(s) : s[i] = t[i]

(* A prefix agrees with the sequence. *)
LEMMA PrefixAgrees ==
  ASSUME NEW s, NEW t, IsSeq(s), IsSeq(t), IsPrefix(s, t)
  PROVE  Agree(s, t)
BY PrefixFacts DEF Agree

-----------------------------------------------------------------------------
(* L1. *)

(* L1 stays well formed when a block is mined on it. *)
LEMMA ChainGrows ==
  ASSUME NEW chain, ChainOK(chain), NEW block, BlockOK(block, Len(chain) + 1),
         NamesAncestor(Append(chain, block), Len(chain) + 1)
  PROVE  ChainOK(Append(chain, block))
<1> DEFINE more == Append(chain, block)
<1>1. IsSeq(chain)
  BY DEF ChainOK
<1>2. /\ IsSeq(more) /\ DOMAIN chain = 1 .. Len(chain) /\ Len(chain) \in Nat
      /\ DOMAIN more = 1 .. Len(chain) + 1 /\ more[Len(chain) + 1] = block
      /\ \A i \in 1 .. Len(chain) : more[i] = chain[i]
  BY <1>1, SeqFacts
<1> HIDE DEF more
<1>3. ASSUME NEW h \in 1 .. Len(chain)  PROVE BlockOK(more[h], h) /\ NamesAncestor(more, h)
  <2>1. BlockOK(chain[h], h) /\ NamesAncestor(chain, h) /\ more[h] = chain[h]
    BY <1>2 DEF ChainOK
  <2>2. NamesAncestor(more, h)
    <3> DEFINE t == chain[h].tx
    <3> SUFFICES ASSUME t.kind = "append", chain[h].oracle.latest = t.timestamp,
                        chain[h].oracle.outputs[t.timestamp].at = h
                 PROVE  /\ Len(t.l1Block) < h
                        /\ \A i \in 1 .. Len(t.l1Block) : t.l1Block[i] = more[i].fork
      BY <2>1, Zenon DEF NamesAncestor
    <3>1. Len(t.l1Block) < h /\ \A i \in 1 .. Len(t.l1Block) : t.l1Block[i] = chain[i].fork
      BY <2>1, Zenon DEF NamesAncestor
    <3>2. Len(t.l1Block) \in Nat
      <4>1. t \in Txs
        BY <2>1, TxFields DEF BlockOK
      <4> QED  BY <4>1, TxFields, LenProperties
    <3>3. \A i \in 1 .. Len(t.l1Block) : i \in 1 .. Len(chain)
      BY <1>2, <3>1, <3>2
    <3> QED  BY <1>2, <3>1, <3>3
  <2> QED  BY <2>1, <2>2
<1>4. \A h \in 1 .. Len(chain) + 1 : h \in 1 .. Len(chain) \/ h = Len(chain) + 1
  BY <1>2
<1> QED  BY <1>2, <1>3, <1>4 DEF ChainOK, more

(* And when a reorg drops its last blocks. *)
LEMMA ChainShrinks ==
  ASSUME NEW chain, ChainOK(chain), NEW n \in 0 .. Len(chain)
  PROVE  ChainOK(SubSeq(chain, 1, n))
<1> DEFINE less == SubSeq(chain, 1, n)
<1>1. IsSeq(chain)
  BY DEF ChainOK
<1>2. /\ IsSeq(less) /\ DOMAIN chain = 1 .. Len(chain) /\ Len(chain) \in Nat
      /\ DOMAIN less = 1 .. n /\ \A i \in 1 .. n : less[i] = chain[i]
  BY <1>1, SeqFacts
<1> HIDE DEF less
<1>3. ASSUME NEW h \in 1 .. n  PROVE BlockOK(less[h], h) /\ NamesAncestor(less, h)
  <2>1. BlockOK(chain[h], h) /\ NamesAncestor(chain, h) /\ less[h] = chain[h]
    <3>1. h \in DOMAIN chain
      BY <1>2
    <3> QED  BY <1>2, <3>1 DEF ChainOK
  <2>2. NamesAncestor(less, h)
    <3> DEFINE t == chain[h].tx
    <3> SUFFICES ASSUME t.kind = "append", chain[h].oracle.latest = t.timestamp,
                        chain[h].oracle.outputs[t.timestamp].at = h
                 PROVE  /\ Len(t.l1Block) < h
                        /\ \A i \in 1 .. Len(t.l1Block) : t.l1Block[i] = less[i].fork
      BY <2>1 DEF NamesAncestor
    <3>1. Len(t.l1Block) < h /\ \A i \in 1 .. Len(t.l1Block) : t.l1Block[i] = chain[i].fork
      BY <2>1 DEF NamesAncestor
    <3>2. Len(t.l1Block) \in Nat
      <4>1. t \in Txs
        BY <2>1, TxFields DEF BlockOK
      <4> QED  BY <4>1, TxFields, LenProperties
    <3>3. \A i \in 1 .. Len(t.l1Block) : i \in 1 .. n
      BY <3>1, <3>2
    <3> QED  BY <1>2, <3>1, <3>3
  <2> QED  BY <2>1, <2>2
<1> QED  BY <1>2, <1>3 DEF ChainOK, less

(* The hashes of the L1 chain, and the contract at its head. *)
LEMMA HeadFacts ==
  ASSUME ChainOK(l1)
  PROVE  /\ Chain \in Seq(Nat) /\ IsSeq(Chain) /\ Len(Chain) = Len(l1) /\ Len(l1) \in Nat
         /\ DOMAIN l1 = 1 .. Len(l1) /\ \A i \in 1 .. Len(l1) : Chain[i] = l1[i].fork
         /\ OnSchedule(Oracle) /\ Recorded(Oracle, Len(l1))
<1>1. IsSeq(l1) /\ DOMAIN l1 = 1 .. Len(l1) /\ Len(l1) \in Nat /\ (l1 = <<>> <=> Len(l1) = 0)
  <2>1. IsSeq(l1)
    BY DEF ChainOK
  <2> QED  BY <2>1, SeqFacts
<1>2. /\ Chain \in [1 .. Len(l1) -> Nat] /\ \A i \in 1 .. Len(l1) : Chain[i] = l1[i].fork
  BY <1>1 DEF Chain, ChainOK, BlockOK
<1>3. Chain \in Seq(Nat)
  BY <1>1, <1>2, SeqDef
<1>4. Len(Chain) = Len(l1)
  <2>1. DOMAIN Chain = 1 .. Len(Chain) /\ Len(Chain) \in Nat
    BY <1>3, LenProperties
  <2>2. DOMAIN Chain = 1 .. Len(l1)
    BY <1>2
  <2>3. ASSUME NEW a \in Nat, NEW b \in Nat, 1 .. a = 1 .. b, a < b  PROVE FALSE
    <3>1. b \in 1 .. b /\ b \notin 1 .. a
      BY <2>3
    <3> QED  BY <2>3, <3>1
  <2>4. ~ (Len(Chain) < Len(l1)) /\ ~ (Len(l1) < Len(Chain))
    BY <1>1, <2>1, <2>2, <2>3
  <2>5. Len(Chain) \in Nat /\ Len(l1) \in Nat
    BY <1>1, <2>1
  <2> QED  BY <2>4, <2>5
<1>5. IsSeq(Chain)
  BY <1>1, <1>2, <1>4 DEF IsSeq
<1>6. OnSchedule(Oracle) /\ Recorded(Oracle, Len(l1))
  <2>1. CASE l1 = <<>>
    <3>1. Len(l1) = 0 /\ Oracle = Deployed(GenesisOutput, 0)
      BY <1>1, <2>1 DEF Oracle
    <3> QED  BY <3>1, DeployedKeeps
  <2>2. CASE l1 # <<>>
    <3>1. Len(l1) \in DOMAIN l1 /\ Oracle = l1[Len(l1)].oracle
      BY <1>1, <2>2 DEF Oracle, Last
    <3> QED  BY <3>1 DEF ChainOK, BlockOK
  <2> QED  BY <2>1, <2>2
<1> QED  BY <1>1, <1>2, <1>3, <1>4, <1>5, <1>6

(* A transaction is mined. *)
LEMMA MineKeeps ==
  ASSUME ChainOK(l1), used \in [Mishaps -> Nat], NEW t \in Txs \cup {NoTx}, Crafted(t), Mine(t)
  PROVE  ChainOK(l1')
<1> DEFINE block == [fork |-> used["reorgs"], tx |-> t, oracle |-> Execute(t)]
           new == Len(l1) + 1
<1>1. /\ Len(Chain) = Len(l1) /\ Len(l1) \in Nat /\ OnSchedule(Oracle) /\ Recorded(Oracle, Len(l1))
      /\ IsSeq(Chain) /\ \A i \in 1 .. Len(l1) : Chain[i] = l1[i].fork
  BY HeadFacts
<1>2. l1' = Append(l1, block) /\ block.tx = t /\ block.oracle = Execute(t)
  BY DEF Mine
<1>3. block.fork \in Nat
  BY DEF Mishaps
<1> HIDE DEF block
<1>4. PICK oracle : oracle = Oracle
  OBVIOUS
<1>5. PICK chain : chain = Chain
  OBVIOUS
<1>6. Time(chain) = Len(l1)
  BY <1>1, <1>5 DEF Time
<1>7. CASE t.kind = "append"
  <2>1. t \in Txs /\ Execute(t) = appendL2Output(oracle, t, chain)
    BY <1>4, <1>5, <1>7, TxFields DEF Execute
  <2>2. OnSchedule(Execute(t)) /\ Recorded(Execute(t), new)
    BY <1>1, <1>4, <1>6, <1>7, <2>1, AppendKeeps
  <2>3. BlockOK(block, new)
    BY <1>2, <1>3, <2>2 DEF BlockOK
  <2>4. IsSeq(l1) /\ DOMAIN l1 = 1 .. Len(l1)
    BY SeqFacts DEF ChainOK
  <2>5. l1'[new] = block /\ \A i \in 1 .. Len(l1) : l1'[i] = l1[i]
    BY <1>2, <2>4, SeqFacts
  <2>6. NamesAncestor(l1', new)
    <3> SUFFICES ASSUME Execute(t).latest = t.timestamp, Execute(t).outputs[t.timestamp].at = new
                 PROVE  /\ Len(t.l1Block) < new
                        /\ \A i \in 1 .. Len(t.l1Block) : t.l1Block[i] = l1'[i].fork
      BY <1>2, <2>5 DEF NamesAncestor
    <3>1. ~ AppendReverts(oracle, t, chain)
      <4> SUFFICES ASSUME AppendReverts(oracle, t, chain)  PROVE FALSE
        OBVIOUS
      <4>1. Execute(t) = oracle
        BY <2>1 DEF appendL2Output
      <4>2. t.timestamp \in DOMAIN oracle.outputs
        <5>1. /\ oracle.latest \in Nat /\ oracle.latest >= STARTING_BLOCK_TIMESTAMP
              /\ (oracle.latest - STARTING_BLOCK_TIMESTAMP) % SUBMISSION_INTERVAL = 0
              /\ DOMAIN oracle.outputs =
                   {x \in STARTING_BLOCK_TIMESTAMP .. oracle.latest :
                      (x - STARTING_BLOCK_TIMESTAMP) % SUBMISSION_INTERVAL = 0}
          BY <1>1, <1>4 DEF OnSchedule
        <5>2. oracle.latest \in STARTING_BLOCK_TIMESTAMP .. oracle.latest
          BY <5>1 DEF OutputOracleAssumption
        <5> QED  BY <4>1, <5>1, <5>2
      <4>3. oracle.outputs[t.timestamp].at <= Len(l1) /\ oracle.outputs[t.timestamp].at \in Nat
        BY <1>1, <1>4, <4>2, Zenon DEF Recorded
      <4> QED  BY <1>1, <4>1, <4>3
    <3>2. IsPrefix(t.l1Block, chain)
      BY <3>1 DEF AppendReverts
    <3>3. t.l1Block \in Seq(Nat)
      BY <1>7, <2>1, TxFields
    <3>4. Len(t.l1Block) \in Nat /\ IsSeq(t.l1Block)
      <4>1. /\ Len(t.l1Block) \in Nat /\ t.l1Block \in [1 .. Len(t.l1Block) -> Nat]
        BY <3>3, LenProperties
      <4>2. t.l1Block = [i \in 1 .. Len(t.l1Block) |-> t.l1Block[i]]
        BY <4>1
      <4> QED  BY <4>1, <4>2 DEF IsSeq
    <3>5. /\ Len(t.l1Block) <= Len(l1) /\ \A i \in 1 .. Len(t.l1Block) : t.l1Block[i] = chain[i]
      BY <1>1, <1>5, <3>2, <3>4, PrefixFacts
    <3>6. \A i \in 1 .. Len(t.l1Block) : i \in 1 .. Len(l1)
      BY <1>1, <3>4, <3>5
    <3> QED  BY <1>1, <1>5, <2>5, <3>4, <3>5, <3>6
  <2> QED  BY <1>2, <2>3, <2>6, ChainGrows
<1>8. CASE t.kind # "append"
  <2>1. OnSchedule(Execute(t)) /\ Recorded(Execute(t), new)
    <3>1. CASE t.kind = "delete"
      <4>1. t \in Txs /\ Execute(t) = deleteL2Output(oracle, t)
        BY <1>4, <3>1, TxFields DEF Execute
      <4> QED  BY <1>1, <1>4, <3>1, <4>1, DeleteKeeps
    <3>2. CASE t.kind # "delete"
      <4>1. Execute(t) = oracle
        BY <1>4, <1>8, <3>2 DEF Execute
      <4>2. Recorded(oracle, Len(l1)) => Recorded(oracle, new)
        BY <1>1 DEF Recorded
      <4> QED  BY <1>1, <1>4, <4>1, <4>2
    <3> QED  BY <3>1, <3>2
  <2>2. BlockOK(block, new)
    BY <1>2, <1>3, <2>1 DEF BlockOK
  <2>3. l1'[new] = block
    <3>1. IsSeq(l1)
      BY DEF ChainOK
    <3> QED  BY <1>2, <3>1, SeqFacts
  <2>4. NamesAncestor(l1', new)
    BY <1>2, <1>8, <2>3 DEF NamesAncestor
  <2> QED  BY <1>2, <2>2, <2>4, ChainGrows
<1> QED  BY <1>7, <1>8

(* The nonce of the owner's account. *)
LEMMA NonceType ==
  ASSUME ChainOK(l1)
  PROVE  NonceAt \in Nat
<1>1. IsFiniteSet(1 .. Len(l1)) /\ DOMAIN l1 = 1 .. Len(l1)
  <2>1. Len(l1) \in Nat /\ DOMAIN l1 = 1 .. Len(l1)
    BY HeadFacts
  <2> QED  BY <2>1, FS_Interval
<1>2. IsFiniteSet({h \in DOMAIN l1 : l1[h].tx # NoTx})
  BY <1>1, FS_Subset
<1> QED  BY <1>2, FS_CardinalityType DEF NonceAt

-----------------------------------------------------------------------------
(* The parts of the invariant that the steps change one by one. *)
PoolOK == pool \subseteq Txs /\ \A t \in pool : Crafted(t)
UsedOK == used \in [Mishaps -> Nat]
LoopOK ==
  /\ pc \in {"down", "poll", "next", "elapsed", "nonce", "root", "sanity", "header", "estimate", "send"}
  /\ loc \in [start : Nat, end : Nat, nonce : Nat, root : Outputs]
  /\ tx \in Txs \cup {NoTx}
  /\ LoopInv

(* The invariant is these parts, with the two chains, *)
LEMMA Parts ==
  ASSUME IInv
  PROVE  ChainOK(l1) /\ l2 \in Seq(Nat) /\ PoolOK /\ UsedOK /\ LoopOK
BY DEF IInv, TypeOK, L1Inv, PoolOK, UsedOK, LoopOK

(* before a step and after it. *)
LEMMA PartsAfter ==
  ASSUME ChainOK(l1)', (l2 \in Seq(Nat))', PoolOK', UsedOK', LoopOK'
  PROVE  IInv'
<1>1. ASSUME NEW h \in DOMAIN l1'
      PROVE  /\ l1'[h].fork \in Nat /\ l1'[h].tx \in Txs \cup {NoTx} /\ l1'[h].oracle.latest \in Nat
             /\ \A t \in DOMAIN l1'[h].oracle.outputs :
                  l1'[h].oracle.outputs[t] \in [root : Outputs, at : Nat]
  <2>1. BlockOK(l1'[h], h)
    BY DEF ChainOK
  <2> QED  BY <2>1 DEF BlockOK, OnSchedule, Recorded
<1> QED  BY <1>1 DEF IInv, TypeOK, L1Inv, PoolOK, UsedOK, LoopOK

(* A mishap is counted. *)
LEMMA UsedKeeps ==
  ASSUME UsedOK, NEW m \in Mishaps, Happens(m)
  PROVE  UsedOK'
BY DEF UsedOK, Happens, OneMore

(* The steps of L1. *)
LEMMA L1Keeps ==
  ASSUME ChainOK(l1), PoolOK, UsedOK, L1Extend \/ L1Include \/ L1Reorg \/ Delete
  PROVE  ChainOK(l1)' /\ PoolOK' /\ UsedOK'
<1>1. CASE L1Extend
  <2>1. NoTx \in Txs \cup {NoTx} /\ Crafted(NoTx) /\ Mine(NoTx)
    BY <1>1, TxFields DEF Crafted, L1Extend
  <2>2. ChainOK(l1')
    BY <2>1, MineKeeps DEF UsedOK
  <2> QED  BY <1>1, <2>2 DEF L1Extend, PoolOK, UsedOK
<1>2. CASE L1Include
  <2>1. PICK t \in pool : Mine(t) /\ pool' \subseteq pool /\ used' = used
    BY <1>2 DEF L1Include
  <2>2. t \in Txs \cup {NoTx} /\ Crafted(t)
    BY DEF PoolOK
  <2>3. ChainOK(l1')
    BY <2>1, <2>2, MineKeeps DEF UsedOK
  <2> QED  BY <2>1, <2>3 DEF PoolOK, UsedOK
<1>3. CASE L1Reorg
  <2>1. PICK n \in 0 .. Len(l1) - 1 :
          /\ l1' = SubSeq(l1, 1, n)
          /\ pool' \in {pool, pool \cup ({l1[h].tx : h \in n + 1 .. Len(l1)} \ {NoTx})}
    BY <1>3, Zenon DEF L1Reorg
  <2>2. Len(l1) \in Nat /\ DOMAIN l1 = 1 .. Len(l1)
    BY HeadFacts
  <2>3. ChainOK(l1')
    <3>1. n \in 0 .. Len(l1)
      BY <2>2
    <3> QED  BY <2>1, <3>1, ChainShrinks
  <2>4. ASSUME NEW h \in n + 1 .. Len(l1)  PROVE l1[h].tx \in Txs \cup {NoTx} /\ Crafted(l1[h].tx)
    <3>1. h \in DOMAIN l1
      BY <2>2
    <3> QED  BY <3>1 DEF ChainOK, BlockOK
  <2>5. ASSUME NEW t \in pool'  PROVE t \in Txs /\ Crafted(t)
    <3>1. t \in pool \/ \E h \in n + 1 .. Len(l1) : t = l1[h].tx /\ t # NoTx
      BY <2>1
    <3> QED  BY <2>4, <3>1 DEF PoolOK
  <2>6. UsedOK'
    BY <1>3, UsedKeeps DEF L1Reorg, Mishaps
  <2> QED  BY <2>3, <2>5, <2>6 DEF PoolOK
<1>4. CASE Delete
  <2>1. PICK n \in NonceAt .. NonceAt + 1 :
          pool' = pool \cup {[kind |-> "delete", nonce |-> n,
                              proposal |-> Oracle.outputs[Oracle.latest]]}
    BY <1>4 DEF Delete
  <2>2. PICK o : o = Oracle.outputs[Oracle.latest]
    OBVIOUS
  <2>3. PICK t : t = [kind |-> "delete", nonce |-> n, proposal |-> o]
    BY Zenon
  <2>4. o \in [root : Outputs, at : Nat] /\ o.at > 0
    <3>1. OnSchedule(Oracle) /\ Recorded(Oracle, Len(l1)) /\ Oracle.latest > STARTING_BLOCK_TIMESTAMP
      BY <1>4, HeadFacts DEF Delete
    <3>2. PICK oracle : oracle = Oracle
      OBVIOUS
    <3>3. /\ oracle.latest \in Nat /\ oracle.latest \in STARTING_BLOCK_TIMESTAMP .. oracle.latest
          /\ oracle.latest # STARTING_BLOCK_TIMESTAMP
          /\ (oracle.latest - STARTING_BLOCK_TIMESTAMP) % SUBMISSION_INTERVAL = 0
      BY <3>1, <3>2 DEF OnSchedule, OutputOracleAssumption
    <3>4. oracle.latest \in DOMAIN oracle.outputs
      BY <3>1, <3>2, <3>3 DEF OnSchedule
    <3>5. o \in [root : Outputs, at : Nat] /\ o.at # 0
      BY <2>2, <3>1, <3>2, <3>3, <3>4 DEF Recorded
    <3>6. o.at \in Nat
      BY <3>5
    <3> QED  BY <3>5, <3>6
  <2>5. n \in Nat
    BY NonceType
  <2>6. t \in Txs /\ t.kind = "delete" /\ t.proposal = o
    BY <2>3, <2>4, <2>5 DEF Txs
  <2>7. Crafted(t)
    BY <2>4, <2>6 DEF Crafted
  <2>8. UsedOK' /\ l1' = l1
    BY <1>4, UsedKeeps DEF Delete, Mishaps
  <2>9. pool' = pool \cup {t}
    BY <2>1, <2>2, <2>3
  <2> QED  BY <2>6, <2>7, <2>8, <2>9 DEF PoolOK
<1> QED  BY <1>1, <1>2, <1>3, <1>4

-----------------------------------------------------------------------------
(* The loop. *)

(* The fields of the loop's locals. *)
LEMMA LocFields ==
  /\ NoLocals \in [start : Nat, end : Nat, nonce : Nat, root : Outputs]
  /\ \A c \in [start : Nat, end : Nat, nonce : Nat, root : Outputs] :
       c.start \in Nat /\ c.end \in Nat /\ c.nonce \in Nat /\ c.root \in Outputs
<1>1. NoLocals \in [start : Nat, end : Nat, nonce : Nat, root : Outputs]
  BY DeployedKeeps DEF NoLocals
<1> QED  BY <1>1

(* A loop that starts over, or is not running, has nothing to keep. *)
LEMMA AgainKeeps ==
  ASSUME pc' \in {"poll", "down"}, loc' = NoLocals, tx' = NoTx
  PROVE  LoopOK'
BY LocFields DEF LoopOK, LoopInv

(* The number of the L2 block at a timestamp. *)
LEMMA NumberType ==
  ASSUME NEW t \in Nat, t >= STARTING_BLOCK_TIMESTAMP
  PROVE  computeL2BlockNumber(t) \in Nat /\ computeL2BlockNumber(t) >= HISTORICAL_TOTAL_BLOCKS
<1>1. /\ STARTING_BLOCK_TIMESTAMP \in Nat /\ L2_BLOCK_TIME \in Nat \ {0} /\ HISTORICAL_TOTAL_BLOCKS \in Nat
  BY DEF OutputOracleAssumption
<1>2. PICK x : x = t - STARTING_BLOCK_TIMESTAMP /\ x \in Nat
  BY <1>1
<1> DEFINE q == x \div L2_BLOCK_TIME
           r == x % L2_BLOCK_TIME
<1>3. q \in Int /\ r \in 0 .. L2_BLOCK_TIME - 1 /\ x = L2_BLOCK_TIME * q + r
  <2>1. x \in Int
    BY <1>2
  <2> QED  BY <1>1, <2>1, Remainder, Zenon
<1>4. computeL2BlockNumber(t) = HISTORICAL_TOTAL_BLOCKS + q
  BY <1>2 DEF computeL2BlockNumber
<1> HIDE DEF q, r
<1>5. ~ (q <= -1)
  <2>1. q <= -1 => L2_BLOCK_TIME * q <= -L2_BLOCK_TIME
    BY <1>1, <1>3, Multiple
  <2>2. L2_BLOCK_TIME * q \in Int
    BY <1>1, <1>3, Multiple
  <2> QED  BY <1>1, <1>2, <1>3, <2>1, <2>2
<1>6. q \in Nat
  BY <1>3, <1>5
<1> QED  BY <1>1, <1>4, <1>6

(* The timestamp of an L2 block. *)
LEMMA TimestampType ==
  ASSUME NEW number \in Nat, number >= HISTORICAL_TOTAL_BLOCKS
  PROVE  L2Timestamp(number) \in Nat
<1>1. /\ STARTING_BLOCK_TIMESTAMP \in Nat /\ L2_BLOCK_TIME \in Nat /\ HISTORICAL_TOTAL_BLOCKS \in Nat
  BY DEF OutputOracleAssumption
<1>2. number - HISTORICAL_TOTAL_BLOCKS \in Nat
  BY <1>1
<1>3. (number - HISTORICAL_TOTAL_BLOCKS) * L2_BLOCK_TIME \in Nat
  BY <1>1, <1>2
<1> QED  BY <1>1, <1>3 DEF L2Timestamp

(* The reads of the block range. *)
LEMMA RangeKeeps ==
  ASSUME ChainOK(l1), LoopOK, ReadLatest \/ ReadNext \/ IntervalElapsed \/ ReadNonce
  PROVE  LoopOK'
<1> DEFINE Locals == [start : Nat, end : Nat, nonce : Nat, root : Outputs]
<1>1. loc \in Locals /\ tx \in Txs \cup {NoTx} /\ LoopInv
  BY DEF LoopOK
<1>2. PICK latest : latest = Oracle.latest
  OBVIOUS
<1>3. latest \in Nat /\ latest >= STARTING_BLOCK_TIMESTAMP
  <2>1. OnSchedule(Oracle)
    BY HeadFacts, Zenon
  <2> QED  BY <1>2, <2>1 DEF OnSchedule
<1>4. loc.start \in Nat /\ loc.end \in Nat /\ loc.nonce \in Nat
  BY <1>1, LocFields
<1>5. CASE ReadLatest
  <2>1. computeL2BlockNumber(latest) + 1 \in Nat
    BY <1>3, NumberType
  <2>2. pc' = "next" /\ tx' = tx /\ loc' = [NoLocals EXCEPT !.start = computeL2BlockNumber(latest) + 1]
    BY <1>2, <1>5 DEF ReadLatest
  <2>3. loc' \in Locals
    BY <2>1, <2>2, LocFields
  <2> QED  BY <1>1, <2>2, <2>3 DEF LoopOK, LoopInv
<1>6. CASE ReadNext
  <2>1. latest + SUBMISSION_INTERVAL \in Nat /\ latest + SUBMISSION_INTERVAL >= STARTING_BLOCK_TIMESTAMP
    BY <1>3 DEF OutputOracleAssumption
  <2>2. pc' = "elapsed" /\ tx' = tx /\ loc' = [loc EXCEPT !.end = latest + SUBMISSION_INTERVAL]
    BY <1>2, <1>6 DEF ReadNext, nextTimestamp
  <2>3. loc' \in Locals /\ loc'.end = latest + SUBMISSION_INTERVAL
    BY <1>1, <2>1, <2>2
  <2> QED  BY <1>1, <2>1, <2>2, <2>3 DEF LoopOK, LoopInv
<1>7. CASE IntervalElapsed
  <2>1. CASE Again
    BY <2>1, AgainKeeps DEF Again
  <2>2. CASE ~ Again
    <3> DEFINE end == computeL2BlockNumber(loc.end) + 1
    <3>1. pc = "elapsed" /\ pc' = "nonce" /\ tx' = tx /\ loc' = [loc EXCEPT !.end = end]
      BY <1>7, <2>2 DEF IntervalElapsed
    <3>2. loc.end >= STARTING_BLOCK_TIMESTAMP
      BY <1>1, <3>1 DEF LoopInv
    <3>3. end \in Nat /\ end > HISTORICAL_TOTAL_BLOCKS
      <4>1. HISTORICAL_TOTAL_BLOCKS \in Nat
        BY DEF OutputOracleAssumption
      <4> QED  BY <1>4, <3>2, <4>1, NumberType
    <3> HIDE DEF end
    <3>4. loc' \in Locals /\ loc'.end = end
      BY <1>1, <3>1, <3>3
    <3> QED  BY <1>1, <3>1, <3>3, <3>4 DEF LoopOK, LoopInv
  <2> QED  BY <2>1, <2>2
<1>8. CASE ReadNonce
  <2>1. pc = "nonce" /\ pc' = "root" /\ tx' = tx /\ loc' = [loc EXCEPT !.nonce = NonceAt]
    BY <1>8 DEF ReadNonce
  <2>2. loc' \in Locals /\ loc'.end = loc.end
    BY <1>1, <2>1, NonceType
  <2> QED  BY <1>1, <2>1, <2>2 DEF LoopOK, LoopInv
<1> QED  BY <1>5, <1>6, <1>7, <1>8

(* The output of an L2 block that the rollup node has. *)
LEMMA OutputType ==
  ASSUME l2 \in Seq(Nat), NEW number \in Nat, number >= HISTORICAL_TOTAL_BLOCKS, HasL2Block(number)
  PROVE  OutputAtBlock(number) \in Outputs /\ OutputAtBlock(number).number = number
<1>1. PICK n : n = L2Timestamp(number)
  OBVIOUS
<1>2. n \in Nat /\ n <= Len(l2) /\ Len(l2) \in Nat
  BY <1>1, TimestampType, LenProperties DEF HasL2Block, Time
<1>3. SubSeq(l2, 1, n) \in Seq(Nat) /\ Len(SubSeq(l2, 1, n)) = n
  <2>1. l2 = [i \in 1 .. Len(l2) |-> l2[i]] /\ \A i \in 1 .. Len(l2) : l2[i] \in Nat
    BY LenProperties
  <2>2. IsSeq(l2)
    BY <1>2, <2>1 DEF IsSeq
  <2>3. n \in 0 .. Len(l2)
    BY <1>2
  <2>4. /\ IsSeq(SubSeq(l2, 1, n)) /\ Len(SubSeq(l2, 1, n)) = n
        /\ \A i \in 1 .. n : SubSeq(l2, 1, n)[i] = l2[i]
    BY <2>2, <2>3, SeqFacts
  <2>5. PICK s : s = SubSeq(l2, 1, n)
    BY Zenon
  <2>6. s = [i \in 1 .. n |-> s[i]] /\ \A i \in 1 .. n : s[i] \in Nat
    <3>1. \A i \in 1 .. n : i \in 1 .. Len(l2)
      BY <1>2
    <3> QED  BY <2>1, <2>4, <2>5, <3>1, Zenon DEF IsSeq
  <2>7. s \in [1 .. n -> Nat]
    BY <2>6
  <2>8. s \in Seq(Nat)
    BY <1>2, <2>7, SeqDef
  <2> QED  BY <2>4, <2>5, <2>8
<1>4. PICK s : s = SubSeq(l2, 1, n)
  BY Zenon
<1>5. OutputAtBlock(number) = [number |-> number, basis |-> s]
  BY <1>1, <1>4 DEF OutputAtBlock
<1> QED  BY <1>1, <1>3, <1>4, <1>5 DEF Outputs

(* CraftTx. *)
LEMMA CraftKeeps ==
  ASSUME ChainOK(l1), l2 \in Seq(Nat), LoopOK,
         FetchOutput \/ SanityCheck \/ FetchHeader \/ EstimateGas
  PROVE  LoopOK'
<1> DEFINE Locals == [start : Nat, end : Nat, nonce : Nat, root : Outputs]
<1>1. loc \in Locals /\ tx \in Txs \cup {NoTx} /\ LoopInv
  BY DEF LoopOK
<1>2. loc.start \in Nat /\ loc.end \in Nat /\ loc.nonce \in Nat /\ loc.root \in Outputs
  BY <1>1, LocFields
<1>3. CASE Again
  BY <1>3, AgainKeeps DEF Again
<1>4. CASE FetchOutput /\ ~ Again
  <2>1. /\ pc = "root" /\ pc' = "sanity" /\ tx' = tx /\ HasL2Block(Checkpoint)
        /\ loc' = [loc EXCEPT !.root = OutputAtBlock(Checkpoint)]
    BY <1>4 DEF FetchOutput
  <2>2. loc.end > HISTORICAL_TOTAL_BLOCKS
    BY <1>1, <2>1 DEF LoopInv
  <2>3. Checkpoint \in Nat /\ Checkpoint >= HISTORICAL_TOTAL_BLOCKS
    BY <1>2, <2>2 DEF Checkpoint, OutputOracleAssumption
  <2>4. OutputAtBlock(Checkpoint) \in Outputs /\ OutputAtBlock(Checkpoint).number = Checkpoint
    BY <2>1, <2>3, OutputType
  <2>5. PICK o : o = OutputAtBlock(Checkpoint)
    OBVIOUS
  <2>6. loc' \in Locals /\ loc'.end = loc.end /\ loc'.root = o
    BY <1>1, <2>1, <2>4, <2>5
  <2>7. loc'.root.number = loc'.end - 1
    BY <2>4, <2>5, <2>6 DEF Checkpoint
  <2> QED  BY <1>1, <2>1, <2>2, <2>6, <2>7 DEF LoopOK, LoopInv
<1>5. CASE SanityCheck /\ ~ Again
  <2> DEFINE timestamp == nextTimestamp(Oracle)
  <2>1. /\ pc = "sanity" /\ pc' = "header" /\ loc' = loc
        /\ tx' = [kind |-> "append", nonce |-> loc.nonce, root |-> loc.root,
                  timestamp |-> timestamp, l1Block |-> <<>>]
    BY <1>5 DEF SanityCheck
  <2>2. timestamp \in Nat
    <3>1. OnSchedule(Oracle)
      BY HeadFacts
    <3> QED  BY <3>1 DEF OnSchedule, nextTimestamp, OutputOracleAssumption
  <2> HIDE DEF timestamp
  <2>3. <<>> \in Seq(Nat)
    BY EmptySeq
  <2>4. tx' \in Txs /\ tx'.kind = "append" /\ tx'.root = loc.root
    BY <1>2, <2>1, <2>2, <2>3 DEF Txs
  <2> QED  BY <1>1, <2>1, <2>4 DEF LoopOK, LoopInv
<1>6. CASE FetchHeader
  <2>1. pc = "header" /\ pc' = "estimate" /\ loc' = loc /\ tx' = [tx EXCEPT !.l1Block = Chain]
    BY <1>6 DEF FetchHeader
  <2>2. tx.kind = "append" /\ tx.root = loc.root
    BY <1>1, <2>1 DEF LoopInv
  <2>3. tx \in [kind : {"append"}, nonce : Nat, root : Outputs, timestamp : Nat, l1Block : Seq(Nat)]
    <3>1. tx \in Txs
      BY <1>1, <2>2, TxFields
    <3>2. tx \notin [kind : {"delete"}, nonce : Nat, proposal : [root : Outputs, at : Nat]]
      BY <2>2
    <3> QED  BY <3>1, <3>2 DEF Txs
  <2>4. Chain \in Seq(Nat)
    BY HeadFacts
  <2>5. PICK chain : chain = Chain
    OBVIOUS
  <2>6. /\ tx' \in [kind : {"append"}, nonce : Nat, root : Outputs, timestamp : Nat, l1Block : Seq(Nat)]
        /\ tx'.kind = "append" /\ tx'.root = tx.root
    BY <2>1, <2>3, <2>4, <2>5, Zenon
  <2>7. tx' \in Txs
    BY <2>6 DEF Txs
  <2> QED  BY <1>1, <2>1, <2>2, <2>6, <2>7 DEF LoopOK, LoopInv
<1>7. CASE EstimateGas /\ ~ Again
  <2>1. /\ pc = "estimate" /\ pc' = "send" /\ loc' = NoLocals /\ tx' = tx
        /\ L2Timestamp(Checkpoint) = tx.timestamp
    BY <1>7 DEF EstimateGas, Craftable
  <2>2. tx.kind = "append" /\ tx.root = loc.root /\ loc.root.number = Checkpoint
    BY <1>1, <2>1 DEF LoopInv, Checkpoint
  <2>3. Crafted(tx)
    BY <2>1, <2>2 DEF Crafted
  <2> QED  BY <1>1, <2>1, <2>2, <2>3, LocFields DEF LoopOK, LoopInv
<1> QED  BY <1>3, <1>4, <1>5, <1>6, <1>7

(* Sending, failing, stopping and starting. *)
LEMMA SendKeeps ==
  ASSUME PoolOK, UsedOK, LoopOK, Publish \/ Sent \/ CallFails \/ Main
  PROVE  PoolOK' /\ UsedOK' /\ LoopOK'
<1>1. CASE Publish
  <2>1. pc = "send" /\ used' = used
    BY <1>1 DEF Publish
  <2>2. CASE Again /\ UNCHANGED pool
    BY <2>1, <2>2, AgainKeeps DEF Again, PoolOK, UsedOK
  <2>3. CASE pool' = pool \cup {tx} /\ UNCHANGED <<pc, loc, tx>>
    <3>1. tx \in Txs /\ Crafted(tx)
      <4>1. tx \in Txs \cup {NoTx} /\ tx.kind = "append" /\ Crafted(tx)
        BY <2>1 DEF LoopOK, LoopInv
      <4> QED  BY <4>1, TxFields
    <3>2. PoolOK'
      BY <2>3, <3>1 DEF PoolOK
    <3> QED  BY <2>1, <2>3, <3>2 DEF UsedOK, LoopOK, LoopInv
  <2> QED  BY <1>1, <2>2, <2>3 DEF Publish
<1>2. CASE Sent
  BY <1>2, AgainKeeps DEF Sent, Again, PoolOK, UsedOK
<1>3. CASE CallFails
  <2>1. UsedOK'
    BY <1>3, UsedKeeps DEF CallFails, Mishaps
  <2> QED  BY <1>3, <2>1, AgainKeeps DEF CallFails, Again, PoolOK
<1>4. CASE Stop
  <2>1. UsedOK'
    BY <1>4, UsedKeeps DEF Stop, Mishaps
  <2> QED  BY <1>4, <2>1, AgainKeeps DEF Stop, PoolOK
<1>5. CASE NewL2OutputSubmitter
  <2>1. pool' = pool /\ pc = "down"
    BY <1>5 DEF NewL2OutputSubmitter
  <2>2. CASE Again /\ UNCHANGED used
    BY <2>1, <2>2, AgainKeeps DEF Again, PoolOK, UsedOK
  <2>3. CASE Happens("faults") /\ UNCHANGED <<pc, loc, tx>>
    <3>1. UsedOK'
      BY <2>3, UsedKeeps DEF Mishaps
    <3> QED  BY <2>1, <2>3, <3>1 DEF PoolOK, LoopOK, LoopInv
  <2> QED  BY <1>5, <2>2, <2>3 DEF NewL2OutputSubmitter
<1> QED  BY <1>1, <1>2, <1>3, <1>4, <1>5 DEF Main

-----------------------------------------------------------------------------
(* Initially, *)
LEMMA InitInv ==
  ASSUME Init
  PROVE  IInv
<1>1. l1 = <<>> /\ l2 = <<>> /\ pool = {} /\ pc = "down" /\ loc = NoLocals /\ tx = NoTx
  BY DEF Init
<1>2. ChainOK(l1)
  <2>1. <<>> \in Seq(Nat) /\ Len(<<>>) = 0 /\ DOMAIN <<>> = {}
    BY EmptySeq
  <2>2. <<>> = [i \in 1 .. 0 |-> <<>>[i]]
    BY <2>1, SeqDef
  <2>3. IsSeq(<<>>)
    BY <2>1, <2>2 DEF IsSeq
  <2> QED  BY <1>1, <2>1, <2>3 DEF ChainOK
<1>3. l2 \in Seq(Nat) /\ DOMAIN l1 = {}
  BY <1>1, EmptySeq
<1>4. used \in [Mishaps -> Nat]
  BY DEF Init
<1> QED  BY <1>1, <1>2, <1>3, <1>4, LocFields DEF IInv, TypeOK, L1Inv, LoopInv

(* and after every step. *)
LEMMA NextInv ==
  ASSUME IInv, [Next]_vars
  PROVE  IInv'
<1>1. ChainOK(l1) /\ l2 \in Seq(Nat) /\ PoolOK /\ UsedOK /\ LoopOK
  BY Parts
<1>2. CASE L1
  <2>1. ChainOK(l1)' /\ PoolOK' /\ UsedOK'
    BY <1>1, <1>2, L1Keeps DEF L1
  <2>2. (l2 \in Seq(Nat))' /\ LoopOK'
    BY <1>1, <1>2 DEF L1, LoopOK, LoopInv
  <2> QED  BY <2>1, <2>2, PartsAfter
<1>3. CASE L2Follows
  <2>1. (l2 \in Seq(Nat))'
    BY <1>1, <1>3, HeadFacts DEF L2Follows
  <2>2. ChainOK(l1)' /\ PoolOK' /\ UsedOK' /\ LoopOK'
    BY <1>1, <1>3 DEF L2Follows, PoolOK, UsedOK, LoopOK, LoopInv
  <2> QED  BY <2>1, <2>2, PartsAfter
<1>4. CASE (Loop \/ CallFails \/ Main) /\ UNCHANGED <<l1, l2>>
  <2>1. ChainOK(l1)' /\ (l2 \in Seq(Nat))'
    BY <1>1, <1>4
  <2>2. PoolOK' /\ UsedOK' /\ LoopOK'
    <3>1. CASE Publish \/ Sent \/ CallFails \/ Main
      BY <1>1, <3>1, SendKeeps
    <3>2. CASE ReadLatest \/ ReadNext \/ IntervalElapsed \/ ReadNonce
      <4>1. pool' = pool /\ used' = used
        BY <3>2 DEF ReadLatest, ReadNext, IntervalElapsed, ReadNonce
      <4> QED  BY <1>1, <3>2, <4>1, RangeKeeps DEF PoolOK, UsedOK
    <3>3. CASE FetchOutput \/ SanityCheck \/ FetchHeader \/ EstimateGas
      <4>1. pool' = pool /\ used' = used
        BY <3>3 DEF FetchOutput, SanityCheck, FetchHeader, EstimateGas
      <4> QED  BY <1>1, <3>3, <4>1, CraftKeeps DEF PoolOK, UsedOK
    <3> QED  BY <1>4, <3>1, <3>2, <3>3 DEF Loop
  <2> QED  BY <2>1, <2>2, PartsAfter
<1>5. CASE UNCHANGED vars
  <2>1. ChainOK(l1)' /\ (l2 \in Seq(Nat))' /\ PoolOK' /\ UsedOK' /\ LoopOK'
    BY <1>1, <1>5 DEF vars, PoolOK, UsedOK, LoopOK, LoopInv
  <2> QED  BY <2>1, PartsAfter
<1> QED  BY <1>2, <1>3, <1>4, <1>5 DEF Next

(***************************************************************************)
(* The invariant of the proposer and the contract: every L1 block leaves   *)
(* the contract's outputs on schedule, each of its block, whatever is      *)
(* re-orged, deleted, retried and restarted.                               *)
(***************************************************************************)
THEOREM ProposerInvariant == Spec => []IInv
<1>1. Init => IInv
  BY InitInv
<1>2. IInv /\ [Next]_vars => IInv'
  BY NextInv
<1> QED  BY <1>1, <1>2, PTL DEF Spec

(* The contract holds one output per submission interval, without a gap. *)
THEOREM ProposerOutputsOnSchedule == Spec => []OutputsOnSchedule
<1>1. ASSUME IInv  PROVE OutputsOnSchedule
  <2>1. OnSchedule(Oracle)
    BY <1>1, Parts, HeadFacts
  <2> QED  BY <2>1 DEF OnSchedule, OutputsOnSchedule
<1> QED  BY <1>1, ProposerInvariant, PTL

(* The output recorded under a timestamp is that of the L2 block with it. *)
THEOREM ProposerOutputOfItsBlock == Spec => []OutputOfItsBlock
<1>1. ASSUME IInv  PROVE OutputOfItsBlock
  <2>1. Recorded(Oracle, Len(l1))
    BY <1>1, Parts, HeadFacts
  <2> QED  BY <1>1, <2>1 DEF IInv, Recorded, OutputOfItsBlock
<1> QED  BY <1>1, ProposerInvariant, PTL

(* An output based on the L1 chain of its header is recorded on that chain only. *)
THEOREM ProposerOutputKeepsItsL1 == Spec => []OutputKeepsItsL1
<1>1. ASSUME IInv  PROVE OutputKeepsItsL1
  <2>1. ChainOK(l1)
    BY <1>1, Parts
  <2> SUFFICES ASSUME NEW h \in DOMAIN l1, l1[h].tx.kind = "append",
                      l1[h].oracle.latest = l1[h].tx.timestamp,
                      l1[h].oracle.outputs[l1[h].tx.timestamp].at = h,
                      IsPrefix(l1[h].tx.root.basis, l1[h].tx.l1Block)
               PROVE  IsPrefix(l1[h].tx.root.basis, Chain)
    BY Zenon DEF OutputKeepsItsL1
  <2>2. PICK t : t = l1[h].tx
    OBVIOUS
  <2>3. /\ Len(t.l1Block) < h /\ \A i \in 1 .. Len(t.l1Block) : t.l1Block[i] = l1[i].fork
    BY <2>1, <2>2, Zenon DEF ChainOK, NamesAncestor
  <2>4. t \in Txs
    BY <2>1, <2>2, TxFields, Zenon DEF ChainOK, BlockOK
  <2>5. t.root \in Outputs /\ t.l1Block \in Seq(Nat)
    BY <2>2, <2>4, TxFields, Zenon
  <2>6. ASSUME NEW s \in Seq(Nat)  PROVE IsSeq(s) /\ Len(s) \in Nat
    <3>1. Len(s) \in Nat /\ s \in [1 .. Len(s) -> Nat]
      BY LenProperties
    <3>2. s = [i \in 1 .. Len(s) |-> s[i]]
      BY <3>1
    <3> QED  BY <3>1, <3>2 DEF IsSeq
  <2>7. t.root.basis \in Seq(Nat)
    BY <2>5 DEF Outputs
  <2>8. IsSeq(t.root.basis) /\ Len(t.root.basis) \in Nat /\ IsSeq(t.l1Block) /\ Len(t.l1Block) \in Nat
    BY <2>5, <2>6, <2>7
  <2>9. PICK b, k : b = t.root.basis /\ k = t.l1Block
    OBVIOUS
  <2>10. /\ IsSeq(b) /\ IsSeq(k) /\ Len(b) \in Nat /\ Len(k) \in Nat /\ IsPrefix(b, k)
         /\ Len(k) < h /\ \A i \in 1 .. Len(k) : k[i] = l1[i].fork
    BY <2>2, <2>3, <2>8, <2>9, Zenon
  <2>11. Len(b) <= Len(k) /\ \A i \in 1 .. Len(b) : b[i] = k[i]
    <3>1. Agree(b, k)
      BY <2>10, PrefixAgrees, Zenon
    <3> QED  BY <3>1, Zenon DEF Agree
  <2>12. /\ Len(Chain) = Len(l1) /\ Len(l1) \in Nat /\ IsSeq(Chain) /\ DOMAIN l1 = 1 .. Len(l1)
         /\ \A i \in 1 .. Len(l1) : Chain[i] = l1[i].fork
    BY <2>1, HeadFacts, Zenon
  <2>13. Len(b) <= Len(Chain) /\ \A i \in 1 .. Len(b) : i \in 1 .. Len(k) /\ i \in 1 .. Len(l1)
    <3>1. PICK m \in Nat, n \in Nat, l \in Nat : m = Len(b) /\ n = Len(k) /\ l = Len(l1)
      BY <2>10, <2>12, Zenon
    <3>2. m <= n /\ n < h /\ h \in 1 .. l
      BY <2>10, <2>11, <2>12, <3>1, Zenon
    <3>3. m <= l /\ \A i \in 1 .. m : i \in 1 .. n /\ i \in 1 .. l
      BY <3>2
    <3> QED  BY <2>12, <3>1, <3>3, Zenon
  <2>14. \A i \in 1 .. Len(b) : b[i] = Chain[i]
    BY <2>10, <2>11, <2>12, <2>13, Zenon
  <2>15. IsPrefix(b, Chain)
    BY <2>10, <2>12, <2>13, <2>14, PrefixFacts, Zenon
  <2> QED  BY <2>2, <2>9, <2>15, Zenon
<1> QED  BY <1>1, ProposerInvariant, PTL
=============================================================================
