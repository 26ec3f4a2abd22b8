------------------------------ MODULE MCL1Source ------------------------------
(***************************************************************************)
(* Four L1 blocks for TLC: G, its children A and B, and A2 on A.  The body *)
(* of A is one of several, and shares a transaction with B.                *)
(***************************************************************************)
EXTENDS L1SourceProperties

Deposit(from, to, mint, gas, creation, data) ==
  [from |-> from, to |-> to, mint |-> mint, value |-> mint, gas |-> gas,
   creation |-> creation, data |-> data]
Made(d) ==
  LET log == depositTransaction(d)
  IN  [address |-> log.address, topics |-> log.topics, data |-> log.data, made |-> d]
Other(address, topics) == [address |-> address, topics |-> topics, data |-> <<>>, made |-> Nil]

D1 == Made(Deposit("u", "v", 0, 5, FALSE, <<9, 8>>))
D2 == Made(Deposit("u", "zero", 3, 255, TRUE, <<>>))
O1 == [D1 EXCEPT !.address = "elsewhere", !.made = Nil]
O2 == Other("portal", <<"WithdrawalFinalized">>)

Tx(id, to, sender, data) == [id |-> id, to |-> to, sender |-> sender, data |-> data]
Batch(n) == [epoch |-> n, time |-> n, txs |-> <<n>>]

(* Executed transactions. *)
Runs(tx, events) == [tx |-> tx, success |-> TRUE, events |-> events, posted |-> <<>>]
Plain == Runs(Tx("plain", "w", "u", <<>>), <<>>)
Failed == [Plain EXCEPT !.tx.id = "failed", !.success = FALSE]
Dep2 == Runs(Tx("dep2", "portal", "u", <<>>), <<O1, D2, O2>>)
Dep3 == Runs(Tx("dep3", "portal", "u", <<>>), <<D2, D1>>)
Post ==
  [Runs(Tx("post", "inbox", "batcher", EncodeBatches(<<Batch(1), Batch(2)>>)), <<>>)
     EXCEPT !.posted = <<Batch(1), Batch(2)>>]
PostFew == [Runs(Tx("few", "inbox", "batcher", EncodeBatches(<<Batch(3)>>)), <<>>) EXCEPT !.posted = <<Batch(3)>>]
PostOther == Runs(Tx("notbatcher", "inbox", "u", EncodeBatches(<<Batch(4)>>)), <<>>)
PostV2 == Runs(Tx("v2", "inbox", "batcher", <<1, <<>>>>), <<>>)
PostBad == Runs(Tx("bad", "inbox", "batcher", <<0, <<encodeTyped(Batch(6)), <<1, Batch(7)>>>>>>), <<>>)

Block(parent, number, body) ==
  [parent |-> parent, number |-> number, time |-> 10 + number, body |-> body]

(* The bodies of A and A2. *)
Bodies == {<<<<Dep3, Dep2, Plain>>, <<PostBad, PostFew>>>>,
           <<<<Post, Failed>>, <<PostOther, PostV2>>>>}

MCWorlds ==
  {[h \in {"G", "A", "A2", "B"} |->
     CASE h = "G" -> Block("none", 0, <<>>)
       [] h = "A" -> Block("G", 1, body[1])
       [] h = "A2" -> Block("A", 2, body[2])
       [] h = "B" -> Block("G", 1, <<body[1][2]>>)] : body \in Bodies}
MCWanted == {"G", "A", "B"}
MCRanges == {<<"G", 3>>, <<"A", 1>>}
MCTips == {"A2", "B"}
MCWindows == {<<"A", "A2">>, <<"G", "A">>, <<"B">>}

(* A range of four batches for one worker, from a server that never fails. *)
LongRange == {<<"G", 4>>}
=============================================================================
