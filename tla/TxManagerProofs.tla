--------------------------- MODULE TxManagerProofs ---------------------------
(***************************************************************************)
(* Safety of SimpleTxManager.Send for all values of the constants: any     *)
(* number of confirmations, publications, gas prices, rivals, failed calls *)
(* and reorgs.                                                             *)
(***************************************************************************)
EXTENDS TxManager, SequenceTheorems, TLAPS

(* A transaction has one place on L1, since it takes the nonce. *)
NonceUsedOnce ==
  \A g, h \in DOMAIN chain : chain[g] # NoTx /\ chain[h] # NoTx => g = h

(* A goroutine that has published holds a version of the transaction. *)
HoldsVersion ==
  \A i \in Sends :
    pubs[i].at \in {"send", "receipt", "tip", "tick", "report"} => pubs[i].tx \in Versions

(* What waitMined found out stays true when L1 does not re-org. *)
ReceiptsTrue ==
  reorgs = 0 =>
    /\ \A i \in Sends :
         /\ At(i, "tip") => IsMined(pubs[i].tx) /\ pubs[i].height = MinedAt(pubs[i].tx)
         /\ At(i, "report") => Confirmed(pubs[i].tx)
    /\ receiptChan # NoTx => Confirmed(receiptChan)
    /\ result # NoTx => Confirmed(result)

(* "Nonce too low" is counted for no other reason. *)
CountTrue == reorgs = 0 /\ nonceTooLowCount > 0 => NonceUsed

(***************************************************************************)
(* The inductive invariant.  That a returned receipt is confirmed depends  *)
(* on every place where a goroutine keeps what it learned of L1: between   *)
(* the two queries of waitMined, before the send on the channel, and in    *)
(* the channel.  That Send gives up for a used nonce only depends on what  *)
(* SendState has counted.                                                  *)
(***************************************************************************)
IInv ==
  /\ TypeOK /\ NonceUsedOnce /\ HoldsVersion /\ ReceiptsTrue
  /\ CountTrue /\ GivesUpOnlyUsedNonce

USE TxManagerAssumption

Carried == {NoTx} \cup Rivals \cup Versions

-----------------------------------------------------------------------------
(* A transaction on L1 is found at its only place. *)
LEMMA MinedAtUnique ==
  ASSUME NonceUsedOnce, NEW tx, tx # NoTx, NEW h \in DOMAIN chain, chain[h] = tx
  PROVE  IsMined(tx) /\ MinedAt(tx) = h
BY DEF IsMined, MinedAt, NonceUsedOnce

(***************************************************************************)
(* L1 keeps what it holds when a block is added, so a transaction that is  *)
(* mined stays where it is, and one that is confirmed stays so.            *)
(***************************************************************************)
LEMMA GrowthKeeps ==
  ASSUME chain \in Seq(Carried), NonceUsedOnce, NonceUsedOnce', NEW x \in Carried,
         chain' = Append(chain, x), NEW tx, tx # NoTx, IsMined(tx)
  PROVE  /\ IsMined(tx)' /\ MinedAt(tx)' = MinedAt(tx)
         /\ Confirmed(tx) => Confirmed(tx)'
<1>1. PICK h \in DOMAIN chain : chain[h] = tx
  BY DEF IsMined
<1>2. MinedAt(tx) = h
  BY <1>1, MinedAtUnique
<1>3. /\ DOMAIN chain = 1 .. Len(chain) /\ DOMAIN chain' = 1 .. Len(chain) + 1
      /\ Len(chain) \in Nat /\ Len(chain') = Len(chain) + 1
      /\ chain'[h] = tx
  BY <1>1, AppendProperties, LenProperties
<1>4. h \in DOMAIN chain'
  BY <1>3
<1>5. IsMined(tx)' /\ MinedAt(tx)' = h
  BY <1>3, <1>4 DEF IsMined, MinedAt, NonceUsedOnce
<1>6. Confirmed(tx) => Confirmed(tx)'
  BY <1>2, <1>3, <1>5 DEF Confirmed
<1> QED  BY <1>2, <1>5, <1>6

(* A step of L1 adds a block, or counts as a reorg. *)
LEMMA L1Grows ==
  ASSUME TypeOK, NonceUsedOnce, L1
  PROVE  /\ chain' \in Seq(Carried) /\ pool' \subseteq Versions /\ reorgs' \in Nat
         /\ reorgs' + faults <= MaxMishaps
         /\ NonceUsedOnce'
         /\ reorgs' = 0 => reorgs = 0 /\ \E x \in Carried : chain' = Append(chain, x)
<1>1. chain \in Seq(Carried) /\ reorgs \in Nat /\ faults \in Nat /\ pool \subseteq Versions
  BY DEF TypeOK, Carried
<1>2. ASSUME NEW x \in Carried, chain' = Append(chain, x), x = NoTx \/ ~ NonceUsed
      PROVE  chain' \in Seq(Carried) /\ NonceUsedOnce'
  <2>1. chain' \in Seq(Carried)
    BY <1>1, <1>2, AppendProperties
  <2>2. /\ DOMAIN chain = 1 .. Len(chain) /\ DOMAIN chain' = 1 .. Len(chain) + 1
        /\ Len(chain) \in Nat
        /\ \A h \in 1 .. Len(chain) : chain'[h] = chain[h]
        /\ chain'[Len(chain) + 1] = x
    BY <1>1, <1>2, AppendProperties, LenProperties
  <2>3. NonceUsedOnce'
    BY <1>2, <2>2 DEF NonceUsedOnce, NonceUsed
  <2> QED  BY <2>1, <2>3
<1>3. CASE Include
  <2>1. PICK tx \in pool \cup Rivals : chain' = Append(chain, tx)
    BY <1>3 DEF Include
  <2>2. tx \in Carried
    BY <1>1 DEF Carried
  <2> QED  BY <1>1, <1>2, <1>3, <2>1, <2>2 DEF Include, TypeOK
<1>4. CASE Extend
  <2>1. NoTx \in Carried
    BY DEF Carried
  <2> QED  BY <1>1, <1>2, <1>4, <2>1 DEF Extend, TypeOK
<1>5. CASE Reorg
  <2>1. PICK n \in 0 .. Len(chain) - 1 :
          /\ chain' = [h \in DOMAIN chain |-> IF h <= n THEN chain[h] ELSE NoTx]
          /\ pool' \in {pool, pool \cup ({chain[h] : h \in n + 1 .. Len(chain)} \cap Versions)}
    BY <1>5 DEF Reorg
  <2>2. DOMAIN chain = 1 .. Len(chain) /\ Len(chain) \in Nat
        /\ \A h \in DOMAIN chain : chain[h] \in Carried
    BY <1>1, LenProperties, ElementOfSeq
  <2>3. chain' \in Seq(Carried)
    BY <2>1, <2>2, IsASeq DEF Carried
  <2>4. NonceUsedOnce'
    BY <2>1 DEF NonceUsedOnce
  <2>5. pool' \subseteq Versions
    BY <1>1, <2>1
  <2> QED  BY <1>1, <1>5, <2>3, <2>4, <2>5 DEF Reorg
<1> QED  BY <1>3, <1>4, <1>5 DEF L1

(* So what goroutines know of L1 stays true, and a used nonce stays used. *)
LEMMA L1Inv ==
  ASSUME IInv, L1
  PROVE  IInv'
<1>1. /\ TypeOK /\ NonceUsedOnce /\ HoldsVersion /\ ReceiptsTrue /\ CountTrue
      /\ GivesUpOnlyUsedNonce
      /\ chain \in Seq(Carried)
  BY DEF IInv, TypeOK, Carried
<1>2. UNCHANGED <<faults, pubs, minedTxs, nonceTooLowCount, canceled, shutdown, receiptChan,
                  main, result>>
  BY DEF L1, sendState, loopVars
<1>3. /\ chain' \in Seq(Carried) /\ pool' \subseteq Versions /\ reorgs' \in Nat
      /\ reorgs' + faults <= MaxMishaps /\ NonceUsedOnce'
      /\ reorgs' = 0 => reorgs = 0 /\ \E x \in Carried : chain' = Append(chain, x)
  BY <1>1, L1Grows
<1>4. TypeOK' /\ HoldsVersion'
  BY <1>1, <1>2, <1>3, Zenon DEF TypeOK, Carried, HoldsVersion
<1>5. CASE reorgs' # 0
  BY <1>3, <1>4, <1>5 DEF IInv, ReceiptsTrue, CountTrue, GivesUpOnlyUsedNonce
<1>6. CASE reorgs' = 0
  <2>1. PICK x \in Carried : chain' = Append(chain, x)
    BY <1>3, <1>6
  <2>2. reorgs = 0
    BY <1>3, <1>6
  <2>3. ASSUME NEW tx, tx # NoTx, IsMined(tx)
        PROVE  /\ IsMined(tx)' /\ MinedAt(tx)' = MinedAt(tx)
               /\ Confirmed(tx) => Confirmed(tx)'
    BY <1>1, <1>3, <2>1, <2>3, GrowthKeeps
  <2>4. NonceUsed => NonceUsed'
    BY <2>3 DEF NonceUsed, IsMined
  <2>5. ReceiptsTrue'
    <3>1. ASSUME NEW i \in Sends, At(i, "tip")'
          PROVE  IsMined(pubs[i].tx)' /\ (pubs[i].height = MinedAt(pubs[i].tx))'
      <4>1. pubs[i].tx # NoTx /\ IsMined(pubs[i].tx) /\ pubs[i].height = MinedAt(pubs[i].tx)
        BY <1>1, <1>2, <2>2, <3>1 DEF HoldsVersion, ReceiptsTrue, At
      <4>2. PICK tx : tx = pubs[i].tx
        OBVIOUS
      <4>3. tx # NoTx /\ IsMined(tx) /\ pubs[i].height = MinedAt(tx)
        BY <4>1, <4>2
      <4>4. IsMined(tx)' /\ pubs'[i].height = MinedAt(tx)'
        BY <1>2, <2>3, <4>3
      <4>5. tx = pubs'[i].tx
        BY <1>2, <4>2
      <4> QED  BY <4>4, <4>5 DEF IsMined, MinedAt
    <3>2. ASSUME NEW i \in Sends, At(i, "report")'
          PROVE  Confirmed(pubs[i].tx)'
      <4>1. pubs[i].tx # NoTx /\ Confirmed(pubs[i].tx)
        BY <1>1, <1>2, <2>2, <3>2 DEF HoldsVersion, ReceiptsTrue, At
      <4> QED  BY <1>2, <2>3, <4>1, Zenon DEF Confirmed, IsMined, MinedAt
    <3>3. receiptChan' # NoTx => Confirmed(receiptChan)'
      BY <1>1, <1>2, <2>2, <2>3, Zenon DEF ReceiptsTrue, Confirmed, IsMined, MinedAt
    <3>4. result' # NoTx => Confirmed(result)'
      BY <1>1, <1>2, <2>2, <2>3, Zenon DEF ReceiptsTrue, Confirmed, IsMined, MinedAt
    <3> QED  BY <3>1, <3>2, <3>3, <3>4 DEF ReceiptsTrue
  <2>6. CountTrue' /\ GivesUpOnlyUsedNonce'
    BY <1>1, <1>2, <2>2, <2>4 DEF CountTrue, GivesUpOnlyUsedNonce
  <2> QED  BY <1>3, <1>4, <2>5, <2>6 DEF IInv
<1> QED  BY <1>5, <1>6

-----------------------------------------------------------------------------
(***************************************************************************)
(* What a step of publication i may change, apart from its goroutine: it   *)
(* reads L1 and does not change it.                                        *)
(***************************************************************************)
LEMMA PublicationFrame ==
  ASSUME IInv, NEW i \in Sends,
         NEW new \in [at : {"idle", "price", "send", "abort?", "receipt", "tip", "tick", "report"},
                      tx : Versions \cup {NoTx}, height : Nat],
         pubs' = [pubs EXCEPT ![i] = new],
         new.at \in {"send", "receipt", "tip", "tick", "report"} => new.tx \in Versions,
         reorgs = 0 /\ new.at = "tip" => IsMined(new.tx) /\ new.height = MinedAt(new.tx),
         reorgs = 0 /\ new.at = "report" => Confirmed(new.tx),
         UNCHANGED <<chain, reorgs, shutdown, main, result>>,
         pool' \subseteq Versions, faults' \in Nat, reorgs + faults' <= MaxMishaps,
         minedTxs' \subseteq Versions,
         nonceTooLowCount' \in 0 .. SafeAbortNonceTooLowCount, CountTrue',
         canceled' \in BOOLEAN, GivesUpOnlyUsedNonce',
         receiptChan' \in Versions \cup {NoTx},
         reorgs = 0 /\ receiptChan' # NoTx => Confirmed(receiptChan')
  PROVE  IInv'
<1>1. TypeOK'
  BY Zenon DEF IInv, TypeOK
<1>2. pubs'[i] = new /\ \A j \in Sends : j # i => pubs'[j] = pubs[j]
  BY DEF IInv, TypeOK
<1>3. NonceUsedOnce'
  BY DEF IInv, NonceUsedOnce
<1>4. HoldsVersion'
  BY <1>2 DEF IInv, HoldsVersion
<1>5. ReceiptsTrue'
  <2> SUFFICES ASSUME reorgs = 0
               PROVE  /\ \A j \in Sends :
                           /\ pubs'[j].at = "tip" =>
                                IsMined(pubs'[j].tx) /\ pubs'[j].height = MinedAt(pubs'[j].tx)
                           /\ pubs'[j].at = "report" => Confirmed(pubs'[j].tx)
                      /\ receiptChan' # NoTx => Confirmed(receiptChan')
                      /\ result # NoTx => Confirmed(result)
    BY DEF ReceiptsTrue, At, IsMined, MinedAt, Confirmed
  <2>1. ASSUME NEW j \in Sends
        PROVE  /\ pubs'[j].at = "tip" =>
                    IsMined(pubs'[j].tx) /\ pubs'[j].height = MinedAt(pubs'[j].tx)
               /\ pubs'[j].at = "report" => Confirmed(pubs'[j].tx)
    BY <1>2 DEF IInv, ReceiptsTrue, At
  <2> QED  BY <2>1 DEF IInv, ReceiptsTrue
<1> QED  BY <1>1, <1>3, <1>4, <1>5 DEF IInv

(* Every step of a publication keeps the invariant. *)
LEMMA PublicationInv ==
  ASSUME IInv, NEW i \in Sends, Publication(i)
  PROVE  IInv'
<1> DEFINE Pub == [at : {"idle", "price", "send", "abort?", "receipt", "tip", "tick", "report"},
                   tx : Versions \cup {NoTx}, height : Nat]
           old == pubs[i]
<1>1. /\ TypeOK /\ HoldsVersion /\ NonceUsedOnce /\ CountTrue /\ GivesUpOnlyUsedNonce
      /\ UNCHANGED <<chain, reorgs, shutdown, main, result>>
  BY DEF IInv, Publication, loopVars
<1>2. /\ old \in Pub /\ reorgs \in Nat /\ faults \in Nat /\ reorgs + faults <= MaxMishaps
      /\ pool \subseteq Versions /\ minedTxs \subseteq Versions
      /\ nonceTooLowCount \in 0 .. SafeAbortNonceTooLowCount
      /\ canceled \in BOOLEAN /\ receiptChan \in Versions \cup {NoTx}
      /\ chain \in Seq(Carried)
      /\ pubs = [j \in Sends |-> pubs[j]]
  BY <1>1 DEF TypeOK, Carried
<1>3. NonceUsed' <=> NonceUsed
  BY <1>1 DEF NonceUsed
<1>4. ASSUME UNCHANGED <<nonceTooLowCount, canceled>>
      PROVE  CountTrue' /\ GivesUpOnlyUsedNonce'
  BY <1>1, <1>3, <1>4 DEF CountTrue, GivesUpOnlyUsedNonce
<1>5. ASSUME Fault
      PROVE  faults' \in Nat /\ reorgs + faults' <= MaxMishaps
  BY <1>2, <1>5 DEF Fault
<1>6. reorgs = 0 /\ receiptChan # NoTx => Confirmed(receiptChan)
  BY DEF IInv, ReceiptsTrue
<1>7. /\ Idle \in Pub /\ Idle.at = "idle"
      /\ \A label \in {"price", "send", "abort?", "receipt", "tip", "tick", "report"} :
           [old EXCEPT !.at = label] \in Pub /\ [old EXCEPT !.at = label].at = label
  BY <1>2, Zenon DEF Idle
<1>8. CASE UpdateGasPrice(i)
  <2>1. UNCHANGED <<pool, minedTxs, nonceTooLowCount, canceled, receiptChan>>
    BY <1>8, Zenon DEF UpdateGasPrice, sendState
  <2>2. faults' \in Nat /\ reorgs + faults' <= MaxMishaps
    BY <1>2, <1>5, <1>8, Zenon DEF UpdateGasPrice
  <2>3. PICK new \in Pub : /\ pubs' = [pubs EXCEPT ![i] = new]
                           /\ \/ new.at = "idle"
                              \/ new.at = "send" /\ new.tx \in Versions
    <3>1. CASE Exit(i)
      BY <1>7, <3>1, Zenon DEF Exit
    <3>2. CASE \E tx \in Versions : pubs' = [pubs EXCEPT ![i] = [@ EXCEPT !.at = "send", !.tx = tx]]
      <4>1. PICK tx \in Versions : pubs' = [pubs EXCEPT ![i] = [@ EXCEPT !.at = "send", !.tx = tx]]
        BY <3>2, Zenon
      <4>2. [old EXCEPT !.at = "send", !.tx = tx] \in Pub
        BY <1>2, Zenon
      <4>3. /\ [old EXCEPT !.at = "send", !.tx = tx].at = "send"
            /\ [old EXCEPT !.at = "send", !.tx = tx].tx = tx
        BY <1>2
      <4> QED  BY <4>1, <4>2, <4>3, Zenon
    <3> QED  BY <1>8, <3>1, <3>2, Zenon DEF UpdateGasPrice
  <2> QED  BY <1>1, <1>2, <1>4, <1>6, <2>1, <2>2, <2>3, PublicationFrame, Zenon
<1>9. CASE SendTx(i)
  <2>1. old.at = "send" /\ old.tx \in Versions /\ UNCHANGED <<minedTxs, canceled, receiptChan>>
    BY <1>1, <1>9 DEF SendTx, At, HoldsVersion
  <2>2. PICK new \in Pub : /\ pubs' = [pubs EXCEPT ![i] = new]
                           /\ \/ new.at \in {"idle", "abort?"}
                              \/ new.at = "receipt" /\ new.tx \in Versions
    <3>1. CASE Exit(i)
      BY <1>7, <3>1, Zenon DEF Exit
    <3>2. CASE Goto(i, "abort?")
      BY <1>2, <1>7, <3>2, Zenon DEF Goto
    <3>3. CASE Goto(i, "receipt")
      <4>1. [old EXCEPT !.at = "receipt"].tx = old.tx
        BY <1>2
      <4> QED  BY <1>2, <1>7, <2>1, <3>3, <4>1, Zenon DEF Goto
    <3> QED  BY <1>9, <3>1, <3>2, <3>3, Zenon DEF SendTx
  <2>3. pool' \subseteq Versions /\ faults' \in Nat /\ reorgs + faults' <= MaxMishaps
    BY <1>2, <1>5, <1>9, <2>1, Zenon DEF SendTx
  <2>4. /\ nonceTooLowCount' \in 0 .. SafeAbortNonceTooLowCount
        /\ nonceTooLowCount' # nonceTooLowCount => NonceUsed
    BY <1>2, <1>9 DEF SendTx, ProcessSendError
  <2>5. CountTrue' /\ GivesUpOnlyUsedNonce'
    BY <1>1, <1>3, <2>1, <2>4 DEF CountTrue, GivesUpOnlyUsedNonce
  <2> QED  BY <1>1, <1>2, <1>6, <2>1, <2>2, <2>3, <2>4, <2>5, PublicationFrame, Zenon
<1>10. CASE CheckAbort(i)
  <2>1. /\ UNCHANGED <<pool, faults, minedTxs, nonceTooLowCount, receiptChan>>
        /\ canceled' = (canceled \/ ShouldAbortImmediately)
        /\ pubs' = [pubs EXCEPT ![i] = Idle]
    BY <1>10 DEF CheckAbort, sendState, Exit
  <2>2. ShouldAbortImmediately => nonceTooLowCount > 0
    BY <1>2 DEF ShouldAbortImmediately
  <2>3. CountTrue' /\ GivesUpOnlyUsedNonce' /\ canceled' \in BOOLEAN
    BY <1>1, <1>2, <1>3, <2>1, <2>2 DEF CountTrue, GivesUpOnlyUsedNonce
  <2> QED  BY <1>1, <1>2, <1>6, <1>7, <2>1, <2>3, PublicationFrame, Zenon
<1>11. CASE QueryReceipt(i)
  <2>1. old.at = "receipt" /\ old.tx \in Versions /\ UNCHANGED <<pool, canceled, receiptChan>>
    BY <1>1, <1>11 DEF QueryReceipt, At, HoldsVersion
  <2>2. PICK new \in Pub : /\ pubs' = [pubs EXCEPT ![i] = new] /\ new.tx \in Versions
                           /\ \/ new.at = "tick"
                              \/ /\ new.at = "tip" /\ IsMined(new.tx)
                                 /\ new.height = MinedAt(new.tx)
    <3>1. CASE Goto(i, "tick")
      <4>1. [old EXCEPT !.at = "tick"].tx = old.tx
        BY <1>2
      <4> QED  BY <1>2, <1>7, <2>1, <3>1, <4>1, Zenon DEF Goto
    <3>2. CASE /\ IsMined(old.tx)
               /\ pubs' = [pubs EXCEPT ![i] = [@ EXCEPT !.at = "tip", !.height = MinedAt(old.tx)]]
      <4>1. PICK h : h = MinedAt(old.tx)
        OBVIOUS
      <4>2. h \in Nat
        <5>1. h \in DOMAIN chain
          BY <3>2, <4>1 DEF IsMined, MinedAt
        <5> QED  BY <1>2, <5>1, LenProperties
      <4>3. /\ [old EXCEPT !.at = "tip", !.height = h] \in Pub
            /\ [old EXCEPT !.at = "tip", !.height = h].tx = old.tx
            /\ [old EXCEPT !.at = "tip", !.height = h].at = "tip"
            /\ [old EXCEPT !.at = "tip", !.height = h].height = h
        BY <1>2, <4>2, Zenon
      <4> QED  BY <2>1, <3>2, <4>1, <4>3, Zenon
    <3> QED  BY <1>11, <3>1, <3>2 DEF QueryReceipt
  <2>3. faults' \in Nat /\ reorgs + faults' <= MaxMishaps
    BY <1>2, <1>5, <1>11 DEF QueryReceipt
  <2>4. /\ minedTxs' \subseteq Versions
        /\ nonceTooLowCount' \in {0, nonceTooLowCount}
    BY <1>2, <1>11, <2>1 DEF QueryReceipt, TxMined, TxNotMined, sendState
  <2>5. CountTrue' /\ GivesUpOnlyUsedNonce'
    BY <1>1, <1>3, <2>1, <2>4 DEF CountTrue, GivesUpOnlyUsedNonce
  <2>6. nonceTooLowCount' \in 0 .. SafeAbortNonceTooLowCount
    BY <1>2, <2>4
  <2>7. /\ new.at \in {"send", "receipt", "tip", "tick", "report"} => new.tx \in Versions
        /\ reorgs = 0 /\ new.at = "tip" => IsMined(new.tx) /\ new.height = MinedAt(new.tx)
        /\ reorgs = 0 /\ new.at = "report" => Confirmed(new.tx)
    BY <2>2
  <2> QED
    BY <1>1, <1>2, <1>6, <2>1, <2>2, <2>3, <2>4, <2>5, <2>6, <2>7, PublicationFrame, Zenon
<1>12. CASE QueryTip(i)
  <2>1. /\ old.at = "tip" /\ old.tx \in Versions
        /\ UNCHANGED <<pool, minedTxs, nonceTooLowCount, canceled, receiptChan>>
    BY <1>1, <1>12 DEF QueryTip, At, HoldsVersion, sendState
  <2>2. faults' \in Nat /\ reorgs + faults' <= MaxMishaps
    BY <1>2, <1>5, <1>12 DEF QueryTip
  <2>3. reorgs = 0 /\ EnoughConfirmations(old.height) => Confirmed(old.tx)
    <3>1. reorgs = 0 => IsMined(old.tx) /\ old.height = MinedAt(old.tx)
      BY <2>1 DEF IInv, ReceiptsTrue, At
    <3>2. Len(chain) \in Nat /\ old.height \in Nat
      BY <1>2, LenProperties
    <3> QED  BY <3>1, <3>2 DEF EnoughConfirmations, Confirmed
  <2>4. PICK new \in Pub : /\ pubs' = [pubs EXCEPT ![i] = new] /\ new.tx = old.tx
                           /\ \/ new.at = "tick"
                              \/ new.at = "report" /\ EnoughConfirmations(old.height)
    <3>1. \A label \in {"tick", "report"} :
            /\ [old EXCEPT !.at = label, !.height = 0] \in Pub
            /\ [old EXCEPT !.at = label, !.height = 0].tx = old.tx
            /\ [old EXCEPT !.at = label, !.height = 0].at = label
      BY <1>2, Zenon
    <3>2. \/ pubs' = [pubs EXCEPT ![i] = [@ EXCEPT !.at = "tick", !.height = 0]]
          \/ /\ pubs' = [pubs EXCEPT ![i] = [@ EXCEPT !.at = "report", !.height = 0]]
             /\ EnoughConfirmations(old.height)
      BY <1>12, Zenon DEF QueryTip
    <3> QED  BY <3>1, <3>2, Zenon
  <2> QED  BY <1>1, <1>2, <1>4, <1>6, <2>1, <2>2, <2>3, <2>4, PublicationFrame, Zenon
<1>13. CASE AwaitTick(i) \/ AwaitCancel(i)
  <2>1. /\ old.at = "tick" /\ old.tx \in Versions
        /\ UNCHANGED <<pool, faults, minedTxs, nonceTooLowCount, canceled, receiptChan>>
    BY <1>1, <1>13 DEF AwaitTick, AwaitCancel, At, HoldsVersion, sendState
  <2>2. PICK new \in Pub : /\ pubs' = [pubs EXCEPT ![i] = new]
                           /\ \/ new.at = "idle"
                              \/ new.at = "receipt" /\ new.tx \in Versions
    <3>1. CASE Exit(i)
      BY <1>7, <3>1, Zenon DEF Exit
    <3>2. CASE Goto(i, "receipt")
      <4>1. [old EXCEPT !.at = "receipt"].tx = old.tx
        BY <1>2
      <4> QED  BY <1>2, <1>7, <2>1, <3>2, <4>1, Zenon DEF Goto
    <3> QED  BY <1>13, <3>1, <3>2 DEF AwaitTick, AwaitCancel
  <2> QED  BY <1>1, <1>2, <1>4, <1>6, <2>1, <2>2, PublicationFrame
<1>14. CASE Report(i)
  <2>1. /\ old.at = "report" /\ old.tx \in Versions /\ pubs' = [pubs EXCEPT ![i] = Idle]
        /\ receiptChan' = IF receiptChan = NoTx THEN old.tx ELSE receiptChan
        /\ UNCHANGED <<pool, faults, minedTxs, nonceTooLowCount, canceled>>
    BY <1>1, <1>14 DEF Report, At, Exit, HoldsVersion, sendState
  <2>2. reorgs = 0 => Confirmed(old.tx)
    BY <2>1 DEF IInv, ReceiptsTrue, At
  <2>3. reorgs = 0 /\ receiptChan' # NoTx => Confirmed(receiptChan')
    BY <1>6, <2>1, <2>2
  <2> QED  BY <1>1, <1>2, <1>4, <1>7, <2>1, <2>3, PublicationFrame, Zenon
<1> QED  BY <1>8, <1>9, <1>10, <1>11, <1>12, <1>13, <1>14 DEF Publication

-----------------------------------------------------------------------------
(* The event loop, a new publication and a shutdown leave L1 alone. *)
LEMMA LoopInv ==
  ASSUME IInv, Resubmit \/ EventLoop \/ Shutdown
  PROVE  IInv'
<1>1. /\ TypeOK /\ NonceUsedOnce /\ HoldsVersion /\ ReceiptsTrue /\ CountTrue
      /\ GivesUpOnlyUsedNonce
      /\ UNCHANGED <<chain, pool, reorgs, faults, minedTxs, nonceTooLowCount>>
  BY DEF IInv, Resubmit, EventLoop, Shutdown, l1Vars, sendState
<1>2. NonceUsedOnce' /\ CountTrue' /\ (NonceUsed' <=> NonceUsed)
  BY <1>1 DEF NonceUsedOnce, CountTrue, NonceUsed
<1>3. CASE Resubmit
  <2>1. UNCHANGED <<canceled, shutdown, receiptChan, main, result>>
    BY <1>3 DEF Resubmit, loopVars
  <2>2. PICK i \in Sends : At(i, "idle") /\ Goto(i, "price")
    BY <1>3 DEF Resubmit
  <2>3. pubs[i] \in [at : {"idle", "price", "send", "abort?", "receipt", "tip", "tick", "report"},
                     tx : Versions \cup {NoTx}, height : Nat]
    BY <1>1 DEF TypeOK
  <2>4. /\ pubs' = [pubs EXCEPT ![i] = [pubs[i] EXCEPT !.at = "price"]]
        /\ [pubs[i] EXCEPT !.at = "price"]
             \in [at : {"idle", "price", "send", "abort?", "receipt", "tip", "tick", "report"},
                  tx : Versions \cup {NoTx}, height : Nat]
        /\ [pubs[i] EXCEPT !.at = "price"].at = "price"
    BY <1>1, <2>2, <2>3, Zenon DEF Goto, TypeOK
  <2>5. GivesUpOnlyUsedNonce'
    BY <1>1, <1>2, <2>1 DEF GivesUpOnlyUsedNonce
  <2>6. /\ pool' \subseteq Versions /\ faults' \in Nat /\ reorgs + faults' <= MaxMishaps
        /\ minedTxs' \subseteq Versions
        /\ nonceTooLowCount' \in 0 .. SafeAbortNonceTooLowCount
        /\ canceled' \in BOOLEAN /\ receiptChan' \in Versions \cup {NoTx}
        /\ reorgs = 0 /\ receiptChan' # NoTx => Confirmed(receiptChan')
    BY <1>1, <2>1 DEF TypeOK, ReceiptsTrue
  <2> QED  BY <1>1, <1>2, <2>1, <2>4, <2>5, <2>6, PublicationFrame, Zenon
<1>4. CASE EventLoop \/ Shutdown
  <2>1. UNCHANGED pubs
    BY <1>4 DEF EventLoop, Shutdown
  <2>2. TypeOK'
    BY <1>1, <1>4, <2>1, Zenon
    DEF TypeOK, EventLoop, ReturnCanceled, ReturnReceipt, Wait, Shutdown, loopVars
  <2>3. HoldsVersion'
    BY <1>1, <2>1 DEF HoldsVersion
  <2>4. GivesUpOnlyUsedNonce'
    BY <1>1, <1>2, <1>4
    DEF GivesUpOnlyUsedNonce, EventLoop, ReturnCanceled, ReturnReceipt, Wait, Shutdown, loopVars
  <2>5. /\ receiptChan' \in {receiptChan, NoTx}
        /\ result' \in {result, receiptChan, NoTx}
    BY <1>4 DEF EventLoop, ReturnCanceled, ReturnReceipt, Wait, Shutdown, loopVars
  <2>6. ReceiptsTrue'
    BY <1>1, <2>1, <2>5, Zenon DEF ReceiptsTrue, At, Confirmed, IsMined, MinedAt
  <2> QED  BY <1>2, <2>2, <2>3, <2>4, <2>6 DEF IInv
<1> QED  BY <1>3, <1>4

(* The invariant holds when Send is called. *)
LEMMA InitInv == Init => IInv
<1> SUFFICES ASSUME Init PROVE IInv
  OBVIOUS
<1>1. Idle \in [at : {"idle"}, tx : {NoTx}, height : {0}]
  BY DEF Idle
<1>2. \A i \in Sends : pubs[i] \in [at : {"idle", "price"}, tx : {NoTx}, height : {0}]
  BY <1>1 DEF Init, Idle
<1>3. TypeOK
  <2>1. pubs \in [Sends -> [at : {"idle", "price", "send", "abort?", "receipt", "tip", "tick",
                                 "report"},
                           tx : Versions \cup {NoTx}, height : Nat]]
    <3>1. pubs = [i \in Sends |-> pubs[i]]
      BY DEF Init
    <3>2. [at : {"idle", "price"}, tx : {NoTx}, height : {0}]
            \subseteq [at : {"idle", "price", "send", "abort?", "receipt", "tip", "tick",
                             "report"},
                       tx : Versions \cup {NoTx}, height : Nat]
      OBVIOUS
    <3> QED  BY <1>2, <3>1, <3>2
  <2>2. chain \in Seq({NoTx} \cup Rivals \cup Versions)
    BY EmptySeq DEF Init
  <2>3. pool \subseteq Versions /\ minedTxs \subseteq Versions
    BY DEF Init
  <2>4. /\ reorgs \in Nat /\ faults \in Nat /\ reorgs + faults <= MaxMishaps
        /\ nonceTooLowCount \in 0 .. SafeAbortNonceTooLowCount
    BY DEF Init
  <2>5. /\ canceled \in BOOLEAN /\ shutdown \in BOOLEAN
        /\ receiptChan \in Versions \cup {NoTx} /\ result \in Versions \cup {NoTx}
        /\ main \in {"loop", "return", "done"}
    BY Zenon DEF Init
  <2> QED  BY <2>1, <2>2, <2>3, <2>4, <2>5 DEF TypeOK
<1>4. HoldsVersion /\ ReceiptsTrue
  BY <1>2 DEF Init, HoldsVersion, ReceiptsTrue, At
<1>5. NonceUsedOnce /\ CountTrue /\ GivesUpOnlyUsedNonce
  BY DEF Init, NonceUsedOnce, CountTrue, GivesUpOnlyUsedNonce
<1> QED  BY <1>3, <1>4, <1>5 DEF IInv

(***************************************************************************)
(* The inductive invariant holds in every state of Send.                   *)
(***************************************************************************)
THEOREM TxManagerInvariant == Spec => []IInv
<1>1. IInv /\ [Next]_vars => IInv'
  <2> SUFFICES ASSUME IInv, [Next]_vars PROVE IInv'
    OBVIOUS
  <2>1. CASE L1
    BY <2>1, L1Inv
  <2>2. CASE \E i \in Sends : Publication(i)
    BY <2>2, PublicationInv
  <2>3. CASE Resubmit \/ EventLoop \/ Shutdown
    BY <2>3, LoopInv
  <2>4. CASE UNCHANGED vars
    BY <2>4
    DEF vars, l1Vars, sendState, loopVars, IInv, TypeOK, NonceUsedOnce, HoldsVersion, ReceiptsTrue,
        CountTrue, GivesUpOnlyUsedNonce, At, IsMined, MinedAt, Confirmed, NonceUsed
  <2> QED  BY <2>1, <2>2, <2>3, <2>4 DEF Next
<1> QED  BY <1>1, InitInv, PTL DEF Spec

(***************************************************************************)
(* A receipt that Send returns belongs to a transaction that has all its   *)
(* confirmations, unless L1 re-orged: whichever publication reports first, *)
(* however many report, and whatever the other versions and rivals do.     *)
(***************************************************************************)
THEOREM TxManagerReceiptConfirmed == Spec => []ReceiptConfirmed
<1>1. IInv => ReceiptConfirmed
  BY DEF IInv, ReceiptsTrue, ReceiptConfirmed
<1> QED  BY <1>1, TxManagerInvariant, PTL

(***************************************************************************)
(* Send cancels its own publications only when the nonce is taken, as long *)
(* as L1 does not re-org: no number of other errors makes it give up.      *)
(***************************************************************************)
THEOREM TxManagerGivesUpOnlyUsedNonce == Spec => []GivesUpOnlyUsedNonce
<1>1. IInv => GivesUpOnlyUsedNonce
  BY DEF IInv
<1> QED  BY <1>1, TxManagerInvariant, PTL
=============================================================================
