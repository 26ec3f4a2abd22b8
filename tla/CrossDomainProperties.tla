------------------------ MODULE CrossDomainProperties ------------------------
(* What the contracts between the two domains promise. *)
EXTENDS CrossDomain

(* The messages sent to domain d that its messenger has not relayed with success. *)
Open(d) == {n \in DOMAIN sent[Other(d)] : n \notin successful[d]}

(* Those of which the messenger knows. *)
FailedMessages(d) == received[d] \ successful[d]

Worth(d, ns) == Cardinality({n \in ns : Value(sent[Other(d)][n]) = 1})

Messages == [kind : {"finalizeBridgeETH", "finalizeBridgeERC20"},
             local : {"", Token, Pair, Unpaired}, remote : {"", Token, Pair}]

(* Type invariant: a messenger only knows nonces of messages that arrived. *)
TypeOK ==
  /\ sent \in [Domains -> Seq(Messages)]
  /\ successful[L2] \cup received[L2] \subseteq 1 .. derived /\ derived <= Len(sent[L1])
  /\ successful[L1] \cup received[L1] \subseteq finalized /\ finalized \subseteq DOMAIN sent[L2]
  /\ paused \subseteq Domains
  /\ \A i \in DOMAIN outputs : outputs[i].withdrawals \in 1 .. Len(sent[L2])
  /\ eth \in [Holders -> Nat] /\ tokens \in [Domains -> Nat]
  /\ deposits \in [{Pair, Unpaired} -> Nat]

(* The transfers of the L1 token under a remote token that have not arrived in a domain. *)
OnTheWay(d, t) ==
  {n \in Open(d) : t \in {sent[Other(d)][n].local, sent[Other(d)][n].remote}}

(***************************************************************************)
(* The tokens that the L1 bridge holds for a remote token are the tokens   *)
(* that exist on L2 and the transfers on their way, in either direction    *)
(* and returned ones included: no transfer is completed twice, and none    *)
(* is forgotten.                                                           *)
(***************************************************************************)
EscrowBacksSupply ==
  \A t \in {Pair, Unpaired} :
    deposits[t] = (IF t = Pair THEN tokens[L2] ELSE 0)
                    + Cardinality(OnTheWay(L1, t)) + Cardinality(OnTheWay(L2, t))

(***************************************************************************)
(* The portal holds the ETH that exists on L2, that deposits still have to *)
(* mint there, and that withdrawals still have to pay, with what stays     *)
(* behind when the L1 messenger reverts.                                   *)
(***************************************************************************)
PortalBacksL2 ==
  eth[Portal] =
    eth[User(L2)] + eth[Messenger(L2)] + eth[Alias]
      + Worth(L2, derived + 1 .. Len(sent[L1]))
      + Worth(L1, Open(L1) \ received[L1])

(***************************************************************************)
(* A messenger holds exactly the value of the messages that failed, so     *)
(* that each of them can be paid when it is replayed; and it only knows    *)
(* messages that arrived (TypeOK).                                         *)
(***************************************************************************)
FailedMessagesFunded ==
  /\ TypeOK
  /\ \A d \in Domains : eth[Messenger(d)] = Worth(d, FailedMessages(d))

(***************************************************************************)
(* A message is relayed in the end, since a call that fails is replayed    *)
(* until it succeeds.  The exceptions are relays that revert, because the  *)
(* messenger is paused or the gas runs out.  (A transfer that names the    *)
(* wrong token goes back and forth until it meets the bound on messages.)  *)
(***************************************************************************)
EveryMessageRelayed ==
  \A d \in Domains : \A n \in 1 .. MaxSent :
    (n \in Open(d)) ~> (\/ n \notin Open(d)
                        \/ d \in paused \/ used["reverts"] > 0
                        \/ \E o \in Domains : Len(sent[o]) = MaxSent)
=============================================================================
