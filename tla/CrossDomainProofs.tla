-------------------------- MODULE CrossDomainProofs ---------------------------
(***************************************************************************)
(* The accounts of the contracts between the two domains balance, for all  *)
(* values of the constants: any number of transfers, failed calls,         *)
(* reverted relays, deleted outputs and pauses, in any order.              *)
(***************************************************************************)
EXTENDS CrossDomainProperties, FiniteSetTheorems, TLAPS

(* What is used of sequences: their elements and lengths, and what Append does. *)
LEMMA SeqElement ==
  ASSUME NEW S, NEW q \in Seq(S), NEW i \in 1 .. Len(q)
  PROVE  q[i] \in S
OBVIOUS

(* A sequence is a function on an interval that begins with 1, *)
LEMMA SeqFunctions == \A S : Seq(S) = UNION {[1 .. n -> S] : n \in Nat}
OBVIOUS

(* which ends with its length, *)
LEMMA SeqLen ==
  ASSUME NEW S, NEW q \in Seq(S)
  PROVE  Len(q) \in Nat /\ DOMAIN q = 1 .. Len(q) /\ q \in [1 .. Len(q) -> S]
OBVIOUS

(* and only the empty sequence has length 0. *)
LEMMA SeqEmpty ==
  ASSUME NEW S
  PROVE  <<>> \in Seq(S) /\ \A q \in Seq(S) : (q = <<>>) <=> (Len(q) = 0)
OBVIOUS

(* Append adds one element at the end. *)
LEMMA SeqAppend ==
  ASSUME NEW S, NEW q \in Seq(S), NEW e \in S
  PROVE  /\ Append(q, e) \in Seq(S) /\ Len(Append(q, e)) = Len(q) + 1
         /\ \A i \in 1 .. Len(q) : Append(q, e)[i] = q[i]
         /\ Append(q, e)[Len(q) + 1] = e
OBVIOUS

USE CrossDomainAssumption

(* The messages that the bridges send. *)
Msgs == {ETH, ERC20(Pair, Token), ERC20(Unpaired, Token), ERC20(Token, Pair)}

(* What a counter that a transaction moves by one depends on: the messages sent to a domain, *)
(* and which of them.                                                                         *)
Carries(msg, t) == IF t \in {msg.local, msg.remote} THEN 1 ELSE 0
OpenOf(msgs, done) == {n \in DOMAIN msgs : n \notin done}
CarriedOf(msgs, done, t) ==
  Cardinality({n \in OpenOf(msgs, done) : t \in {msgs[n].local, msgs[n].remote}})
WorthOf(msgs, ns) == Cardinality({n \in ns : Value(msgs[n]) = 1})

OutputRecords == [withdrawals : Nat, age : Nat]

(* The types, and that messages are of the bridges' kinds. *)
Types ==
  /\ TypeOK
  /\ sent \in [Domains -> Seq(Msgs)]
  /\ successful \in [Domains -> SUBSET Nat] /\ received \in [Domains -> SUBSET Nat]
  /\ derived \in Nat /\ outputs \in Seq(OutputRecords)

(***************************************************************************)
(* The inductive invariant.  None of the balances is inductive alone: that *)
(* a payer's account does not go below zero, which is part of TypeOK,      *)
(* needs the balance of the portal or of the messenger that pays, and the  *)
(* balances need TypeOK, since a message that was never sent must not be   *)
(* marked as relayed.                                                      *)
(***************************************************************************)
IInv == Types /\ EscrowBacksSupply /\ PortalBacksL2 /\ FailedMessagesFunded

-----------------------------------------------------------------------------
(* Counting. *)

(* The kinds of messages, and what each is worth and carries. *)
LEMMA MsgKinds ==
  /\ ETH \in Msgs /\ Value(ETH) = 1
  /\ \A msg \in Msgs : Value(msg) \in {0, 1}
  /\ \A msg \in Msgs : msg.kind = "finalizeBridgeETH" => msg = ETH
  /\ \A msg \in Msgs : msg.kind = "finalizeBridgeERC20" => Value(msg) = 0
  /\ \A t \in {Pair, Unpaired} : Carries(ETH, t) = 0
  /\ \A msg \in Msgs : \A t : Carries(msg, t) \in {0, 1}
<1>1. \A msg \in Msgs : Value(msg) \in {0, 1} /\ \A t : Carries(msg, t) \in {0, 1}
  BY DEF Value, Carries
<1>2. ETH \in Msgs /\ Value(ETH) = 1 /\ \A t \in {Pair, Unpaired} : Carries(ETH, t) = 0
  BY DEF Msgs, ETH, Value, Carries, Pair, Unpaired
<1>3. ASSUME NEW msg \in Msgs
      PROVE  /\ msg.kind = "finalizeBridgeETH" => msg = ETH
             /\ msg.kind = "finalizeBridgeERC20" => Value(msg) = 0
  <2>1. msg = ETH \/ msg.kind = "finalizeBridgeERC20"
    BY DEF Msgs, ERC20
  <2> QED  BY <2>1 DEF Value
<1> QED  BY <1>1, <1>2, <1>3

(* A message that was not sent before adds to what is on the way. *)
LEMMA CarriedSend ==
  ASSUME NEW msgs \in Seq(Msgs), NEW msg \in Msgs, NEW done \in SUBSET (1 .. Len(msgs)), NEW t
  PROVE  CarriedOf(Append(msgs, msg), done, t) = CarriedOf(msgs, done, t) + Carries(msg, t)
<1> DEFINE A == {n \in OpenOf(msgs, done) : t \in {msgs[n].local, msgs[n].remote}}
           more == Append(msgs, msg)
           B == {n \in OpenOf(more, done) : t \in {more[n].local, more[n].remote}}
           new == Len(msgs) + 1
<1>1. /\ Len(msgs) \in Nat /\ DOMAIN msgs = 1 .. Len(msgs) /\ DOMAIN more = 1 .. new
      /\ more[new] = msg /\ \A n \in 1 .. Len(msgs) : more[n] = msgs[n]
  BY SeqLen, SeqAppend
<1>2. IsFiniteSet(A) /\ Cardinality(A) \in Nat /\ new \notin A
  <2>1. A \in SUBSET (1 .. Len(msgs)) /\ IsFiniteSet(1 .. Len(msgs))
    BY <1>1, FS_Interval DEF OpenOf
  <2> QED  BY <1>1, <2>1, FS_Subset, FS_CardinalityType
<1>3. CarriedOf(msgs, done, t) = Cardinality(A) /\ CarriedOf(more, done, t) = Cardinality(B)
  BY DEF CarriedOf
<1> HIDE DEF A, B
<1>4. CASE t \in {msg.local, msg.remote}
  <2>1. B = A \cup {new}
    BY <1>1, <1>4 DEF A, B, OpenOf
  <2>2. Cardinality(A \cup {new}) = Cardinality(A) + 1
    BY <1>2, FS_AddElement, Zenon
  <2> QED  BY <1>2, <1>3, <1>4, <2>1, <2>2 DEF Carries
<1>5. CASE t \notin {msg.local, msg.remote}
  <2>1. B = A
    BY <1>1, <1>5 DEF A, B, OpenOf
  <2> QED  BY <1>2, <1>3, <1>5, <2>1 DEF Carries
<1> QED  BY <1>4, <1>5

(* A message that is relayed takes from it. *)
LEMMA CarriedDone ==
  ASSUME NEW msgs \in Seq(Msgs), NEW done, NEW n \in DOMAIN msgs, n \notin done, NEW t
  PROVE  /\ CarriedOf(msgs, done, t) \in Nat
         /\ CarriedOf(msgs, done \cup {n}, t) \in Nat
         /\ CarriedOf(msgs, done, t) = CarriedOf(msgs, done \cup {n}, t) + Carries(msgs[n], t)
<1> DEFINE A == {m \in OpenOf(msgs, done \cup {n}) : t \in {msgs[m].local, msgs[m].remote}}
           B == {m \in OpenOf(msgs, done) : t \in {msgs[m].local, msgs[m].remote}}
<1>1. Len(msgs) \in Nat /\ DOMAIN msgs = 1 .. Len(msgs)
  BY SeqLen
<1>2. IsFiniteSet(A) /\ Cardinality(A) \in Nat /\ n \notin A
  <2>1. A \in SUBSET (1 .. Len(msgs)) /\ IsFiniteSet(1 .. Len(msgs))
    BY <1>1, FS_Interval DEF OpenOf
  <2> QED  BY <2>1, FS_Subset, FS_CardinalityType DEF OpenOf
<1>3. /\ CarriedOf(msgs, done, t) = Cardinality(B)
      /\ CarriedOf(msgs, done \cup {n}, t) = Cardinality(A)
  BY DEF CarriedOf
<1> HIDE DEF A, B
<1>4. CASE t \in {msgs[n].local, msgs[n].remote}
  <2>1. B = A \cup {n}
    BY <1>4 DEF A, B, OpenOf
  <2>2. Cardinality(A \cup {n}) = Cardinality(A) + 1
    BY <1>2, FS_AddElement, Zenon
  <2> QED  BY <1>2, <1>3, <1>4, <2>1, <2>2 DEF Carries
<1>5. CASE t \notin {msgs[n].local, msgs[n].remote}
  <2>1. B = A
    BY <1>5 DEF A, B, OpenOf
  <2> QED  BY <1>2, <1>3, <1>5, <2>1 DEF Carries
<1> QED  BY <1>4, <1>5

(* Worth is a number, and one more message adds its value. *)
LEMMA WorthAdd ==
  ASSUME NEW msgs \in Seq(Msgs), NEW ns \in SUBSET (DOMAIN msgs), NEW n \in DOMAIN msgs, n \notin ns
  PROVE  /\ WorthOf(msgs, ns) \in Nat
         /\ WorthOf(msgs, ns \cup {n}) = WorthOf(msgs, ns) + Value(msgs[n])
<1> DEFINE A == {m \in ns : Value(msgs[m]) = 1}
           B == {m \in ns \cup {n} : Value(msgs[m]) = 1}
<1>1. /\ Len(msgs) \in Nat /\ DOMAIN msgs = 1 .. Len(msgs) /\ Value(msgs[n]) \in {0, 1}
  BY SeqLen, SeqElement, MsgKinds
<1>2. IsFiniteSet(A) /\ Cardinality(A) \in Nat /\ n \notin A
  <2>1. A \in SUBSET (1 .. Len(msgs)) /\ IsFiniteSet(1 .. Len(msgs))
    BY <1>1, FS_Interval
  <2> QED  BY <2>1, FS_Subset, FS_CardinalityType
<1>3. WorthOf(msgs, ns) = Cardinality(A) /\ WorthOf(msgs, ns \cup {n}) = Cardinality(B)
  BY DEF WorthOf
<1> HIDE DEF A, B
<1>4. CASE Value(msgs[n]) = 1
  <2>1. B = A \cup {n}
    BY <1>4 DEF A, B
  <2>2. Cardinality(A \cup {n}) = Cardinality(A) + 1
    BY <1>2, FS_AddElement, Zenon
  <2> QED  BY <1>2, <1>3, <1>4, <2>1, <2>2
<1>5. CASE Value(msgs[n]) = 0
  <2>1. B = A
    BY <1>5 DEF A, B
  <2> QED  BY <1>2, <1>3, <1>5, <2>1
<1> QED  BY <1>1, <1>4, <1>5

(* Worth is a number, 0 for no messages. *)
LEMMA WorthType ==
  ASSUME NEW msgs \in Seq(Msgs), NEW ns \in SUBSET (DOMAIN msgs)
  PROVE  WorthOf(msgs, ns) \in Nat /\ WorthOf(msgs, {}) = 0
<1> DEFINE A == {m \in ns : Value(msgs[m]) = 1}
<1>1. A \in SUBSET (1 .. Len(msgs)) /\ IsFiniteSet(1 .. Len(msgs))
  <2>1. DOMAIN msgs = 1 .. Len(msgs) /\ Len(msgs) \in Nat
    BY SeqLen
  <2> QED  BY <2>1, FS_Interval
<1>2. Cardinality(A) \in Nat
  BY <1>1, FS_Subset, FS_CardinalityType
<1>3. {m \in {} : Value(msgs[m]) = 1} = {}
  OBVIOUS
<1> QED  BY <1>2, <1>3, FS_EmptySet DEF WorthOf

(* A message that is sent does not change the worth of the others. *)
LEMMA WorthSend ==
  ASSUME NEW msgs \in Seq(Msgs), NEW msg \in Msgs, NEW ns \in SUBSET (1 .. Len(msgs))
  PROVE  WorthOf(Append(msgs, msg), ns) = WorthOf(msgs, ns)
<1> DEFINE more == Append(msgs, msg)
<1>1. \A n \in 1 .. Len(msgs) : more[n] = msgs[n]
  BY SeqAppend
<1>2. {n \in ns : Value(more[n]) = 1} = {n \in ns : Value(msgs[n]) = 1}
  BY <1>1, Zenon
<1> QED  BY <1>2, Zenon DEF WorthOf

(* The transfers that name a token. *)
LEMMA TokenKinds ==
  /\ Pair # Unpaired
  /\ \A t \in {Pair, Unpaired} :
       /\ ERC20(t, Token) \in Msgs /\ ERC20(t, Token).kind = "finalizeBridgeERC20"
       /\ \A o \in {Pair, Unpaired} : Carries(ERC20(t, Token), o) = IF o = t THEN 1 ELSE 0
  /\ ERC20(Token, Pair) \in Msgs /\ ERC20(Token, Pair).kind = "finalizeBridgeERC20"
  /\ \A o \in {Pair, Unpaired} : Carries(ERC20(Token, Pair), o) = IF o = Pair THEN 1 ELSE 0
  /\ \A msg \in Msgs : msg.local = Pair /\ msg.remote = Token => msg = ERC20(Pair, Token)
  /\ \A msg \in Msgs : msg.local = Token => msg = ERC20(Token, Pair) /\ msg.remote = Pair
BY DEF Msgs, ETH, ERC20, Carries, Pair, Unpaired, Token

(* The domains. *)
LEMMA TwoDomains ==
  /\ Domains = {L1, L2} /\ L1 # L2 /\ Other(L1) = L2 /\ Other(L2) = L1
  /\ \A d \in Domains : Other(d) \in Domains /\ Other(Other(d)) = d /\ Other(d) # d
BY DEF Domains, L1, L2, Other

(* The numbers after a, with one more. *)
LEMMA OneMoreNumber ==
  ASSUME NEW a \in Nat, NEW b \in Nat, a <= b
  PROVE  /\ a + 1 .. b + 1 = (a + 1 .. b) \cup {b + 1}
         /\ a + 1 .. b \in SUBSET (1 .. b)
OBVIOUS

(* The accounts are different ones. *)
LEMMA Accounts ==
  /\ User(L1) # User(L2) /\ Messenger(L1) # Messenger(L2)
  /\ \A d, e \in Domains : User(d) # Messenger(e)
  /\ \A d \in Domains : {User(d), Messenger(d)} \cap {Portal, Passer, Alias} = {}
  /\ Portal # Passer /\ Portal # Alias /\ Passer # Alias
  /\ Holders = {User(L1), User(L2), Messenger(L1), Messenger(L2), Portal, Passer, Alias}
BY DEF Domains, L1, L2, User, Messenger, Portal, Passer, Alias, Holders

(* A move of ETH changes two accounts. *)
LEMMA Moved ==
  ASSUME NEW funds \in [Holders -> Nat], NEW from \in Holders, NEW to \in Holders,
         funds[from] > 0, from # to
  PROVE  /\ Move(funds, from, to) \in [Holders -> Nat]
         /\ Move(funds, from, to)[from] = funds[from] - 1
         /\ Move(funds, from, to)[to] = funds[to] + 1
         /\ \A h \in Holders \ {from, to} : Move(funds, from, to)[h] = funds[h]
BY DEF Move

-----------------------------------------------------------------------------
(* The balances in terms of the counters. *)
Escrow(t) == (IF t = Pair THEN tokens[L2] ELSE 0)
               + CarriedOf(sent[L2], successful[L1], t) + CarriedOf(sent[L1], successful[L2], t)
ToMint == WorthOf(sent[L1], derived + 1 .. Len(sent[L1]))
ToPay == WorthOf(sent[L2], OpenOf(sent[L2], successful[L1]) \ received[L1])
ToReplay(d) == WorthOf(sent[Other(d)], received[d] \ successful[d])

Balances ==
  /\ \A t \in {Pair, Unpaired} : deposits[t] = Escrow(t)
  /\ eth[Portal] = eth[User(L2)] + eth[Messenger(L2)] + eth[Alias] + ToMint + ToPay
  /\ \A d \in Domains : eth[Messenger(d)] = ToReplay(d)

(* They say the same. *)
LEMMA BalancesSame ==
  IInv <=> Types /\ Balances
<1>1. \A d \in Domains : Open(d) = OpenOf(sent[Other(d)], successful[d])
  BY DEF Open, OpenOf
<1>2. ASSUME NEW t \in {Pair, Unpaired}, NEW d \in Domains
      PROVE  Cardinality(OnTheWay(d, t)) = CarriedOf(sent[Other(d)], successful[d], t)
  BY <1>1, Zenon DEF OnTheWay, CarriedOf
<1>3. EscrowBacksSupply <=> \A t \in {Pair, Unpaired} : deposits[t] = Escrow(t)
  BY <1>2, TwoDomains DEF EscrowBacksSupply, Escrow
<1>4. Worth(L2, derived + 1 .. Len(sent[L1])) = ToMint
  BY TwoDomains DEF Worth, WorthOf, ToMint
<1>5. Worth(L1, Open(L1) \ received[L1]) = ToPay
  BY <1>1, TwoDomains DEF Worth, WorthOf, ToPay
<1>6. \A d \in Domains : Worth(d, FailedMessages(d)) = ToReplay(d)
  BY DEF Worth, WorthOf, ToReplay, FailedMessages
<1> QED
  BY <1>3, <1>4, <1>5, <1>6
  DEF IInv, Types, Balances, PortalBacksL2, FailedMessagesFunded

-----------------------------------------------------------------------------
(* How the counters move. *)

(* The parts of the types that the counters need. *)
LEMMA Numbers ==
  ASSUME Types, NEW d \in Domains
  PROVE  /\ sent[d] \in Seq(Msgs) /\ Len(sent[d]) \in Nat /\ DOMAIN sent[d] = 1 .. Len(sent[d])
         /\ successful[d] \in SUBSET (DOMAIN sent[Other(d)])
         /\ received[d] \in SUBSET (DOMAIN sent[Other(d)])
         /\ \A n \in DOMAIN sent[d] : sent[d][n] \in Msgs
<1>1. \A e \in Domains : sent[e] \in Seq(Msgs) /\ Len(sent[e]) \in Nat /\ DOMAIN sent[e] = 1 .. Len(sent[e])
  BY SeqLen DEF Types
<1>2. \A n \in DOMAIN sent[d] : sent[d][n] \in Msgs
  BY <1>1, SeqElement
<1>3. /\ successful[L2] \in SUBSET (DOMAIN sent[L1]) /\ received[L2] \in SUBSET (DOMAIN sent[L1])
      /\ successful[L1] \in SUBSET (DOMAIN sent[L2]) /\ received[L1] \in SUBSET (DOMAIN sent[L2])
  <2>1. 1 .. derived \in SUBSET (DOMAIN sent[L1])
    BY <1>1, TwoDomains DEF Types, TypeOK
  <2> QED  BY <2>1, Zenon DEF Types, TypeOK
<1> QED  BY <1>1, <1>2, <1>3, TwoDomains

(* A message that is sent: what is on the way, to be replayed, minted and paid. *)
LEMMA Send ==
  ASSUME Types, NEW d \in Domains, NEW msg \in Msgs, sendMessage(d, msg)
  PROVE  /\ sent' \in [Domains -> Seq(Msgs)] /\ sent' \in [Domains -> Seq(Messages)]
         /\ sent'[d] = Append(sent[d], msg) /\ Len(sent'[d]) = Len(sent[d]) + 1
         /\ DOMAIN sent'[d] = 1 .. Len(sent[d]) + 1
         /\ sent'[Other(d)] = sent[Other(d)]
         /\ \A t : CarriedOf(sent'[d], successful[Other(d)], t)
                     = CarriedOf(sent[d], successful[Other(d)], t) + Carries(msg, t)
         /\ WorthOf(sent'[d], received[Other(d)] \ successful[Other(d)])
              = WorthOf(sent[d], received[Other(d)] \ successful[Other(d)])
         /\ d = L1 => WorthOf(sent'[L1], derived + 1 .. Len(sent'[L1])) = ToMint + Value(msg)
         /\ d = L2 => WorthOf(sent'[L2], OpenOf(sent'[L2], successful[L1]) \ received[L1])
                        = ToPay + Value(msg)
<1> DEFINE new == Len(sent[d]) + 1
<1>1. /\ sent[d] \in Seq(Msgs) /\ Len(sent[d]) \in Nat /\ DOMAIN sent[d] = 1 .. Len(sent[d])
      /\ successful[Other(d)] \in SUBSET (1 .. Len(sent[d]))
      /\ received[Other(d)] \in SUBSET (1 .. Len(sent[d]))
  BY Numbers, TwoDomains, Zenon
<1>2. sent'[d] = Append(sent[d], msg) /\ sent'[Other(d)] = sent[Other(d)]
  BY TwoDomains DEF sendMessage, Types
<1>3. /\ Append(sent[d], msg) \in Seq(Msgs) /\ Len(Append(sent[d], msg)) = new
      /\ DOMAIN Append(sent[d], msg) = 1 .. new /\ Append(sent[d], msg)[new] = msg
  BY <1>1, SeqAppend, SeqLen
<1>4. sent' \in [Domains -> Seq(Msgs)]
  BY <1>3 DEF sendMessage, Types
<1>5. sent' \in [Domains -> Seq(Messages)]
  <2>1. ETH \in Messages
    BY DEF Messages, ETH
  <2>2. ERC20(Pair, Token) \in Messages /\ ERC20(Unpaired, Token) \in Messages
    BY DEF Messages, ERC20
  <2>3. ERC20(Token, Pair) \in Messages
    BY DEF Messages, ERC20
  <2>4. sent[d] \in Seq(Messages) /\ msg \in Messages
    BY <2>1, <2>2, <2>3 DEF Types, TypeOK, Msgs
  <2>5. Append(sent[d], msg) \in Seq(Messages)
    BY <2>4, SeqAppend
  <2> QED  BY <2>5 DEF sendMessage, Types, TypeOK
<1>6. \A t : CarriedOf(sent'[d], successful[Other(d)], t)
               = CarriedOf(sent[d], successful[Other(d)], t) + Carries(msg, t)
  BY <1>1, <1>2, CarriedSend
<1>7. WorthOf(sent'[d], received[Other(d)] \ successful[Other(d)])
        = WorthOf(sent[d], received[Other(d)] \ successful[Other(d)])
  BY <1>1, <1>2, WorthSend
<1>8. ASSUME NEW ns \in SUBSET (1 .. Len(sent[d]))
      PROVE  WorthOf(sent'[d], ns \cup {new}) = WorthOf(sent[d], ns) + Value(msg)
  <2>1. ns \in SUBSET (DOMAIN Append(sent[d], msg)) /\ new \in DOMAIN Append(sent[d], msg)
    BY <1>1, <1>3
  <2>2. new \notin ns
    BY <1>1
  <2>3. WorthOf(Append(sent[d], msg), ns \cup {new}) = WorthOf(Append(sent[d], msg), ns) + Value(msg)
    BY <1>3, <2>1, <2>2, WorthAdd, Zenon
  <2> QED  BY <1>1, <1>2, <2>3, WorthSend
<1>9. ASSUME d = L1
      PROVE  WorthOf(sent'[L1], derived + 1 .. Len(sent'[L1])) = ToMint + Value(msg)
  <2>1. derived \in Nat /\ derived <= Len(sent[d])
    BY <1>9 DEF Types, TypeOK
  <2>2. /\ derived + 1 .. new = (derived + 1 .. Len(sent[d])) \cup {new}
        /\ derived + 1 .. Len(sent[d]) \in SUBSET (1 .. Len(sent[d]))
    BY <1>1, <2>1, OneMoreNumber, Zenon
  <2>3. Len(sent'[L1]) = new
    BY <1>2, <1>3, <1>9
  <2>4. ToMint = WorthOf(sent[d], derived + 1 .. Len(sent[d]))
    BY <1>9 DEF ToMint
  <2>5. WorthOf(sent'[d], (derived + 1 .. Len(sent[d])) \cup {new}) = ToMint + Value(msg)
    BY <1>8, <2>2, <2>4, Zenon
  <2> QED  BY <1>9, <2>2, <2>3, <2>5, Zenon
<1>10. ASSUME d = L2
       PROVE  WorthOf(sent'[L2], OpenOf(sent'[L2], successful[L1]) \ received[L1]) = ToPay + Value(msg)
  <2>1. /\ OpenOf(sent'[L2], successful[L1]) \ received[L1]
             = (OpenOf(sent[L2], successful[L1]) \ received[L1]) \cup {new}
        /\ OpenOf(sent[L2], successful[L1]) \ received[L1] \in SUBSET (1 .. Len(sent[d]))
    BY <1>1, <1>2, <1>3, <1>10, TwoDomains, SMTT(30) DEF OpenOf
  <2> QED  BY <1>8, <1>10, <2>1 DEF ToPay
<1> QED  BY <1>2, <1>3, <1>4, <1>5, <1>6, <1>7, <1>9, <1>10

(* A message that is relayed: the same, when the call succeeds and when it fails. *)
LEMMA Relay ==
  ASSUME Types, NEW d \in Domains, NEW n \in DOMAIN sent[Other(d)], n \notin successful[d]
  PROVE  LET o == Other(d)
             v == Value(sent[o][n])
             done == successful[d] \cup {n}
             known == received[d] \cup {n}
             old == IF n \in received[d] THEN v ELSE 0
             new == IF n \in received[d] THEN 0 ELSE v
         IN  /\ v \in {0, 1}
             /\ \A t : /\ CarriedOf(sent[o], done, t) \in Nat
                       /\ CarriedOf(sent[o], successful[d], t)
                            = CarriedOf(sent[o], done, t) + Carries(sent[o][n], t)
             /\ WorthOf(sent[o], received[d] \ done) \in Nat
             /\ ToReplay(d) = WorthOf(sent[o], received[d] \ done) + old
             /\ WorthOf(sent[o], known \ successful[d]) = ToReplay(d) + new
             /\ d = L1 => /\ WorthOf(sent[o], OpenOf(sent[o], done) \ received[d]) \in Nat
                          /\ ToPay = WorthOf(sent[o], OpenOf(sent[o], done) \ received[d]) + new
                          /\ ToPay = WorthOf(sent[o], OpenOf(sent[o], successful[d]) \ known) + new
             /\ d = L2 /\ n = derived + 1 =>
                  /\ WorthOf(sent[o], n + 1 .. Len(sent[o])) \in Nat
                  /\ ToMint = WorthOf(sent[o], n + 1 .. Len(sent[o])) + v
<1> DEFINE o == Other(d)
           v == Value(sent[o][n])
           done == successful[d] \cup {n}
           known == received[d] \cup {n}
<1>1. /\ sent[o] \in Seq(Msgs) /\ Len(sent[o]) \in Nat /\ DOMAIN sent[o] = 1 .. Len(sent[o])
      /\ successful[d] \in SUBSET (DOMAIN sent[o]) /\ received[d] \in SUBSET (DOMAIN sent[o])
      /\ v \in {0, 1}
  BY Numbers, TwoDomains, MsgKinds, SMTT(30)
<1>2. ASSUME NEW t
      PROVE  /\ CarriedOf(sent[o], done, t) \in Nat
             /\ CarriedOf(sent[o], successful[d], t)
                  = CarriedOf(sent[o], done, t) + Carries(sent[o][n], t)
  <2>1. sent[o] \in Seq(Msgs) /\ n \in DOMAIN sent[o] /\ n \notin successful[d]
    BY <1>1, Zenon
  <2> HIDE DEF o
  <2> QED  BY <2>1, CarriedDone, ZenonT(30)
<1>3. ASSUME NEW ns \in SUBSET (DOMAIN sent[o]), n \notin ns
      PROVE  WorthOf(sent[o], ns) \in Nat /\ WorthOf(sent[o], ns \cup {n}) = WorthOf(sent[o], ns) + v
  BY <1>1, <1>3, WorthAdd, Zenon
<1>4. ToReplay(d) = WorthOf(sent[o], received[d] \ successful[d])
  BY DEF ToReplay
<1>5. d = L1 => ToPay = WorthOf(sent[o], OpenOf(sent[o], successful[d]) \ received[d])
  BY TwoDomains DEF ToPay
<1>6. /\ WorthOf(sent[o], received[d] \ done) \in Nat
      /\ ToReplay(d) = WorthOf(sent[o], received[d] \ done) + IF n \in received[d] THEN v ELSE 0
  <2>1. received[d] \ done \in SUBSET (DOMAIN sent[o]) /\ n \notin received[d] \ done
    BY <1>1
  <2>2. CASE n \in received[d]
    <3>1. received[d] \ successful[d] = (received[d] \ done) \cup {n}
      BY <2>2
    <3> QED  BY <1>3, <1>4, <2>1, <2>2, <3>1
  <2>3. CASE n \notin received[d]
    <3>1. received[d] \ successful[d] = received[d] \ done
      BY <2>3
    <3>2. WorthOf(sent[o], received[d] \ done) \in Nat
      BY <1>3, <2>1, Zenon
    <3>3. ToReplay(d) = WorthOf(sent[o], received[d] \ done) + 0
      BY <1>4, <3>1, <3>2, SMTT(30)
    <3> QED  BY <2>3, <3>2, <3>3
  <2> QED  BY <2>2, <2>3
<1>7. WorthOf(sent[o], known \ successful[d]) = ToReplay(d) + IF n \in received[d] THEN 0 ELSE v
  <2>1. received[d] \ successful[d] \in SUBSET (DOMAIN sent[o])
    BY <1>1
  <2>2. CASE n \in received[d]
    <3>1. known \ successful[d] = received[d] \ successful[d]
      BY <2>2
    <3>2. WorthOf(sent[o], received[d] \ successful[d]) \in Nat
      BY <1>1, <2>1, WorthType
    <3>3. WorthOf(sent[o], known \ successful[d]) = ToReplay(d) + 0
      BY <1>4, <3>1, <3>2
    <3> QED  BY <2>2, <3>3
  <2>3. CASE n \notin received[d]
    <3>1. known \ successful[d] = (received[d] \ successful[d]) \cup {n}
      BY <2>3
    <3> QED  BY <1>3, <1>4, <2>1, <2>3, <3>1
  <2> QED  BY <2>2, <2>3
<1>8. ASSUME d = L1
      PROVE  /\ WorthOf(sent[o], OpenOf(sent[o], done) \ received[d]) \in Nat
             /\ ToPay = WorthOf(sent[o], OpenOf(sent[o], done) \ received[d])
                          + IF n \in received[d] THEN 0 ELSE v
             /\ ToPay = WorthOf(sent[o], OpenOf(sent[o], successful[d]) \ known)
                          + IF n \in received[d] THEN 0 ELSE v
  <2> DEFINE ns == OpenOf(sent[o], done) \ received[d]
  <2>1. /\ ns \in SUBSET (DOMAIN sent[o]) /\ n \notin ns
        /\ OpenOf(sent[o], successful[d]) \ known = ns
        /\ n \in received[d] => OpenOf(sent[o], successful[d]) \ received[d] = ns
        /\ n \notin received[d] => OpenOf(sent[o], successful[d]) \ received[d] = ns \cup {n}
    BY DEF OpenOf
  <2> HIDE DEF ns
  <2>2. WorthOf(sent[o], ns) \in Nat /\ WorthOf(sent[o], ns \cup {n}) = WorthOf(sent[o], ns) + v
    BY <1>3, <2>1
  <2>3. ToPay = WorthOf(sent[o], ns) + IF n \in received[d] THEN 0 ELSE v
    <3>1. CASE n \in received[d]
      <4>1. ToPay = WorthOf(sent[o], ns)
        BY <1>5, <1>8, <2>1, <3>1, Zenon
      <4>2. ToPay = WorthOf(sent[o], ns) + 0
        BY <2>2, <4>1
      <4> QED  BY <3>1, <4>2
    <3>2. CASE n \notin received[d]
      <4>1. ToPay = WorthOf(sent[o], ns) + v
        BY <1>5, <1>8, <2>1, <2>2, <3>2
      <4> QED  BY <3>2, <4>1
    <3> QED  BY <3>1, <3>2
  <2> QED  BY <2>1, <2>2, <2>3, Zenon DEF ns
<1>9. ASSUME d = L2, n = derived + 1
      PROVE  /\ WorthOf(sent[o], n + 1 .. Len(sent[o])) \in Nat
             /\ ToMint = WorthOf(sent[o], n + 1 .. Len(sent[o])) + v
  <2>1. /\ n + 1 .. Len(sent[o]) \in SUBSET (DOMAIN sent[o]) /\ n \notin n + 1 .. Len(sent[o])
        /\ derived + 1 .. Len(sent[o]) = (n + 1 .. Len(sent[o])) \cup {n}
    BY <1>1, <1>9, SMTT(30) DEF Types
  <2>2. ToMint = WorthOf(sent[o], derived + 1 .. Len(sent[o]))
    BY <1>9, TwoDomains DEF ToMint
  <2> QED  BY <1>3, <2>1, <2>2, Zenon
<1> QED  BY <1>1, <1>2, <1>6, <1>7, <1>8, <1>9, Zenon

-----------------------------------------------------------------------------
(* The counters are numbers. *)
LEMMA CountersType ==
  ASSUME Types
  PROVE  /\ ToMint \in Nat /\ ToPay \in Nat /\ \A d \in Domains : ToReplay(d) \in Nat
         /\ \A d \in Domains : \A t : CarriedOf(sent[Other(d)], successful[d], t) \in Nat
<1>1. /\ sent[L1] \in Seq(Msgs) /\ Len(sent[L1]) \in Nat /\ DOMAIN sent[L1] = 1 .. Len(sent[L1])
      /\ sent[L2] \in Seq(Msgs)
  BY Numbers, TwoDomains
<1>2. ToMint \in Nat
  <2>1. derived + 1 .. Len(sent[L1]) \in SUBSET (DOMAIN sent[L1])
    BY <1>1 DEF Types
  <2> QED  BY <1>1, <2>1, WorthType, Zenon DEF ToMint
<1>3. ToPay \in Nat
  <2>1. OpenOf(sent[L2], successful[L1]) \ received[L1] \in SUBSET (DOMAIN sent[L2])
    BY DEF OpenOf
  <2> QED  BY <1>1, <2>1, WorthType DEF ToPay
<1>4. ASSUME NEW d \in Domains  PROVE ToReplay(d) \in Nat
  <2>1. sent[Other(d)] \in Seq(Msgs) /\ received[d] \ successful[d] \in SUBSET (DOMAIN sent[Other(d)])
    BY Numbers, TwoDomains
  <2> QED  BY <2>1, WorthType DEF ToReplay
<1>5. ASSUME NEW d \in Domains, NEW t  PROVE CarriedOf(sent[Other(d)], successful[d], t) \in Nat
  <2> DEFINE msgs == sent[Other(d)]
             A == {n \in OpenOf(msgs, successful[d]) : t \in {msgs[n].local, msgs[n].remote}}
  <2>1. Len(msgs) \in Nat /\ DOMAIN msgs = 1 .. Len(msgs)
    BY Numbers, TwoDomains
  <2>2. A \in SUBSET (1 .. Len(msgs))
    BY <2>1 DEF OpenOf
  <2>3. CarriedOf(msgs, successful[d], t) = Cardinality(A)
    BY DEF CarriedOf
  <2>4. \A k \in Nat : IsFiniteSet(1 .. k)
    BY FS_Interval
  <2>5. IsFiniteSet(1 .. Len(msgs))
    BY <2>1, <2>4
  <2> HIDE DEF A
  <2> QED  BY <2>2, <2>3, <2>5, FS_Subset, FS_CardinalityType, Zenon
<1> QED  BY <1>2, <1>3, <1>4, <1>5


(* The types of the rest. *)
LEMMA RestType ==
  ASSUME Types
  PROVE  /\ Len(sent[L1]) \in Nat /\ Len(sent[L2]) \in Nat
         /\ derived \in Nat /\ derived <= Len(sent[L1])
         /\ successful \in [Domains -> SUBSET Nat] /\ received \in [Domains -> SUBSET Nat]
         /\ successful[L2] \cup received[L2] \subseteq 1 .. derived
         /\ successful[L1] \cup received[L1] \subseteq finalized
         /\ finalized \subseteq 1 .. Len(sent[L2])
         /\ \A i \in DOMAIN outputs : outputs[i].withdrawals \in 1 .. Len(sent[L2])
         /\ outputs \in Seq(OutputRecords) /\ paused \subseteq Domains
         /\ eth \in [Holders -> Nat] /\ tokens \in [Domains -> Nat]
         /\ deposits \in [{Pair, Unpaired} -> Nat]
<1>1. Len(sent[L1]) \in Nat /\ Len(sent[L2]) \in Nat /\ DOMAIN sent[L2] = 1 .. Len(sent[L2])
  BY Numbers, TwoDomains
<1> QED  BY <1>1, Zenon DEF Types, TypeOK

(* A step that sends messages, and one that marks at most the messages ns in domain d. *)
Sends ==
  /\ sent' \in [Domains -> Seq(Msgs)] /\ sent' \in [Domains -> Seq(Messages)]
  /\ \A d \in Domains : Len(sent'[d]) \in Nat /\ Len(sent[d]) <= Len(sent'[d])
Marks(d, ns) ==
  /\ derived' \in Nat /\ derived <= derived' /\ derived' <= Len(sent[L1])
  /\ finalized \subseteq finalized' /\ finalized' \subseteq 1 .. Len(sent[L2])
  /\ successful' \in [Domains -> SUBSET Nat] /\ received' \in [Domains -> SUBSET Nat]
  /\ d = L1 => ns \subseteq finalized'
  /\ d = L2 => ns \subseteq 1 .. derived'
  /\ successful'[d] \cup received'[d] \subseteq successful[d] \cup received[d] \cup ns
  /\ successful'[Other(d)] = successful[Other(d)] /\ received'[Other(d)] = received[Other(d)]

(* The types after such steps. *)
LEMMA TypesKept ==
  ASSUME Types, Sends, NEW d \in Domains, NEW ns, Marks(d, ns), UNCHANGED <<paused, outputs>>,
         eth' \in [Holders -> Nat], tokens' \in [Domains -> Nat],
         deposits' \in [{Pair, Unpaired} -> Nat]
  PROVE  Types'
<1>1. derived' \in Nat /\ derived <= derived' /\ derived' <= Len(sent'[L1])
  <2>1. Len(sent[L1]) \in Nat /\ Len(sent'[L1]) \in Nat /\ Len(sent[L1]) <= Len(sent'[L1])
    BY RestType, TwoDomains, Zenon DEF Sends
  <2>2. derived' \in Nat /\ derived <= derived' /\ derived' <= Len(sent[L1])
    BY DEF Marks
  <2> QED  BY <2>1, <2>2, SMTT(30)
<1>2. successful'[L2] \cup received'[L2] \subseteq 1 .. derived'
  <2>1. successful[L2] \cup received[L2] \subseteq 1 .. derived'
    <3>1. derived \in Nat /\ successful[L2] \cup received[L2] \subseteq 1 .. derived
      BY RestType, Zenon
    <3> QED  BY <1>1, <3>1, SMTT(30)
  <2> QED  BY <2>1, TwoDomains, Zenon DEF Marks
<1>3. successful'[L1] \cup received'[L1] \subseteq finalized'
  <2>1. successful[L1] \cup received[L1] \subseteq finalized'
    BY RestType, Zenon DEF Marks
  <2> QED  BY <2>1, TwoDomains, Zenon DEF Marks
<1>4. finalized' \subseteq DOMAIN sent'[L2]
  <2>1. DOMAIN sent'[L2] = 1 .. Len(sent'[L2])
    BY TwoDomains, SeqLen DEF Sends
  <2>2. Len(sent[L2]) <= Len(sent'[L2]) /\ Len(sent[L2]) \in Nat /\ Len(sent'[L2]) \in Nat
    BY TwoDomains, RestType, Zenon DEF Sends
  <2> QED  BY <2>1, <2>2, SMTT(30) DEF Marks
<1>5. \A i \in DOMAIN outputs' : outputs'[i].withdrawals \in 1 .. Len(sent'[L2])
  <2>1. Len(sent[L2]) <= Len(sent'[L2]) /\ Len(sent[L2]) \in Nat /\ Len(sent'[L2]) \in Nat
    BY TwoDomains, RestType, Zenon DEF Sends
  <2>2. \A i \in DOMAIN outputs : outputs[i].withdrawals \in 1 .. Len(sent[L2])
    BY RestType
  <2> QED  BY <2>1, <2>2, SMTT(30)
<1>6. outputs' \in Seq(OutputRecords) /\ paused' \subseteq Domains
  BY RestType
<1> QED  BY <1>1, <1>2, <1>3, <1>4, <1>5, <1>6, Zenon DEF Types, TypeOK, Sends, Marks

(* A step that sends nothing, *)
LEMMA NoSend ==
  ASSUME Types, UNCHANGED sent  PROVE Sends
BY RestType, TwoDomains DEF Sends, Types, TypeOK

(* one that sends a message, *)
LEMMA OneSend ==
  ASSUME Types, NEW d \in Domains, NEW msg \in Msgs, sendMessage(d, msg)  PROVE Sends
<1>1. /\ sent' \in [Domains -> Seq(Msgs)] /\ sent' \in [Domains -> Seq(Messages)]
      /\ Len(sent'[d]) = Len(sent[d]) + 1 /\ sent'[Other(d)] = sent[Other(d)]
  BY Send, Zenon
<1>2. Len(sent[L1]) \in Nat /\ Len(sent[L2]) \in Nat
  BY RestType
<1>3. \A e \in Domains : Len(sent'[e]) \in Nat /\ Len(sent[e]) <= Len(sent'[e])
  BY <1>1, <1>2, TwoDomains, SMTT(30)
<1> QED  BY <1>1, <1>3 DEF Sends

(* and one that marks no message as relayed, deposited or finalized. *)
LEMMA NoMark ==
  ASSUME Types, UNCHANGED <<derived, finalized, successful, received>>
  PROVE  Marks(L1, {})
<1>1. /\ derived \in Nat /\ derived <= Len(sent[L1]) /\ finalized \subseteq 1 .. Len(sent[L2])
      /\ successful \in [Domains -> SUBSET Nat] /\ received \in [Domains -> SUBSET Nat]
  BY RestType
<1> QED  BY <1>1, TwoDomains DEF Marks

(* A message about a token adds no ETH. *)
LEMMA SendToken ==
  ASSUME Types, NEW d \in Domains, NEW msg \in Msgs, msg.kind = "finalizeBridgeERC20",
         sendMessage(d, msg)
  PROVE  /\ \A t : CarriedOf(sent'[d], successful[Other(d)], t)
                     = CarriedOf(sent[d], successful[Other(d)], t) + Carries(msg, t)
         /\ sent'[Other(d)] = sent[Other(d)]
         /\ WorthOf(sent'[d], received[Other(d)] \ successful[Other(d)])
              = WorthOf(sent[d], received[Other(d)] \ successful[Other(d)])
         /\ d = L1 => WorthOf(sent'[L1], derived + 1 .. Len(sent'[L1])) = ToMint
         /\ d = L2 => WorthOf(sent'[L2], OpenOf(sent'[L2], successful[L1]) \ received[L1]) = ToPay
<1>1. Value(msg) = 0
  BY MsgKinds
<1>2. d = L1 => WorthOf(sent'[L1], derived + 1 .. Len(sent'[L1])) = ToMint + Value(msg)
  BY Send, Zenon
<1>3. d = L2 => WorthOf(sent'[L2], OpenOf(sent'[L2], successful[L1]) \ received[L1])
                  = ToPay + Value(msg)
  BY Send, Zenon
<1>4. ToMint + 0 = ToMint /\ ToPay + 0 = ToPay
  BY CountersType
<1>5. d = L1 => WorthOf(sent'[L1], derived + 1 .. Len(sent'[L1])) = ToMint
  BY <1>1, <1>2, <1>4, Zenon
<1>6. d = L2 => WorthOf(sent'[L2], OpenOf(sent'[L2], successful[L1]) \ received[L1]) = ToPay
  BY <1>1, <1>3, <1>4, Zenon
<1> QED  BY <1>5, <1>6, Send, Zenon

(* A message that is relayed, as far as tokens go. *)
LEMMA RelayEscrow ==
  ASSUME Types, Balances, NEW d \in Domains, NEW n \in DOMAIN sent[Other(d)],
         NEW funds, NEW payer, relayMessage(d, n, funds, payer)
  PROVE  /\ \A t \in {Pair, Unpaired} : deposits'[t] = Escrow(t)'
         /\ tokens' \in [Domains -> Nat] /\ deposits' \in [{Pair, Unpaired} -> Nat]
<1> DEFINE o == Other(d)
           msg == sent[o][n]
           done == successful[d] \cup {n}
<1>1. n \notin successful[d] /\ msg \in Msgs
  BY Numbers, TwoDomains, Zenon DEF relayMessage, Relayable
<1>2. /\ tokens \in [Domains -> Nat] /\ deposits \in [{Pair, Unpaired} -> Nat]
      /\ successful \in [Domains -> SUBSET Nat]
  BY RestType
<1>3. \A e \in Domains : \A t : CarriedOf(sent[Other(e)], successful[e], t) \in Nat
  BY CountersType
<1>4. \A t : /\ CarriedOf(sent[o], done, t) \in Nat
             /\ CarriedOf(sent[o], successful[d], t) = CarriedOf(sent[o], done, t) + Carries(msg, t)
  BY <1>1, Relay, Zenon
<1>5. \A t \in {Pair, Unpaired} :
        /\ deposits[t] = (IF t = Pair THEN tokens[L2] ELSE 0)
                           + CarriedOf(sent[o], successful[d], t) + CarriedOf(sent[d], successful[o], t)
        /\ /\ tokens'[L2] \in Nat /\ CarriedOf(sent'[o], successful'[d], t) \in Nat
           /\ CarriedOf(sent'[d], successful'[o], t) \in Nat
           => Escrow(t)' = (IF t = Pair THEN tokens'[L2] ELSE 0)
                             + CarriedOf(sent'[o], successful'[d], t)
                             + CarriedOf(sent'[d], successful'[o], t)
  <2>1. CASE d = L1
    BY <2>1, TwoDomains, Zenon DEF Balances, Escrow
  <2>2. CASE d = L2
    BY <1>2, <1>3, <2>2, TwoDomains, SMTT(20) DEF Balances, Escrow
  <2> QED  BY <2>1, <2>2, TwoDomains, Zenon
<1>6. /\ \A t \in {Pair, Unpaired} : Carries(msg, t) \in {0, 1}
      /\ \A t : CarriedOf(sent[d], successful[o], t) \in Nat /\ CarriedOf(sent[o], successful[d], t) \in Nat
      /\ tokens[L2] \in Nat
  BY <1>1, <1>2, <1>3, MsgKinds, TwoDomains
<1>11. ASSUME NEW t \in {Pair, Unpaired}
       PROVE  \E x \in Nat, c \in Nat, r \in Nat, k \in {0, 1} :
                /\ x = (IF t = Pair THEN tokens[L2] ELSE 0) /\ c = CarriedOf(sent[o], done, t)
                /\ r = CarriedOf(sent[d], successful[o], t) /\ k = Carries(msg, t)
                /\ deposits[t] = x + (c + k) + r
  <2>1. (IF t = Pair THEN tokens[L2] ELSE 0) \in Nat
    BY <1>6
  <2>2. deposits[t] = (IF t = Pair THEN tokens[L2] ELSE 0) + (CarriedOf(sent[o], done, t) + Carries(msg, t))
                        + CarriedOf(sent[d], successful[o], t)
    BY <1>4, <1>5, Zenon
  <2>3. /\ CarriedOf(sent[o], done, t) \in Nat /\ CarriedOf(sent[d], successful[o], t) \in Nat
        /\ Carries(msg, t) \in {0, 1}
    BY <1>4, <1>6, Zenon
  <2> USE <2>1, <2>3
  <2> WITNESS (IF t = Pair THEN tokens[L2] ELSE 0) \in Nat, CarriedOf(sent[o], done, t) \in Nat,
              CarriedOf(sent[d], successful[o], t) \in Nat, Carries(msg, t) \in {0, 1}
  <2> QED  BY <2>2, Zenon
<1> HIDE DEF o, msg, done
<1>7. CASE finalizeBridgeETH(d, msg, funds, payer) /\ Succeeded(d, n)
  <2>1. /\ UNCHANGED <<tokens, deposits, sent>>
        /\ successful'[d] = done /\ successful'[o] = successful[o]
    BY <1>2, <1>7, TwoDomains, Zenon DEF finalizeBridgeETH, Succeeded, bridge, done, o
  <2>2. msg = ETH
    BY <1>1, <1>7, MsgKinds DEF finalizeBridgeETH
  <2>3. \A t \in {Pair, Unpaired} : Carries(msg, t) = 0
    BY <2>2, MsgKinds
  <2>4. ASSUME NEW t \in {Pair, Unpaired}  PROVE deposits'[t] = Escrow(t)'
    <3>1. PICK x \in Nat, c \in Nat, r \in Nat, k \in {0, 1} :
            /\ x = (IF t = Pair THEN tokens[L2] ELSE 0) /\ c = CarriedOf(sent[o], done, t)
            /\ r = CarriedOf(sent[d], successful[o], t) /\ k = Carries(msg, t)
            /\ deposits[t] = x + (c + k) + r
      BY <1>11, Zenon
    <3>2. Escrow(t)' = x + c + r
      BY <1>5, <1>6, <2>1, <3>1, Zenon
    <3>3. x + (c + 0) + r = x + c + r
      OBVIOUS
    <3> QED  BY <2>1, <2>3, <3>1, <3>2, <3>3, Zenon
  <2> QED  BY <1>2, <2>1, <2>4, Zenon
<1>8. CASE finalizeBridgeERC20(d, msg) /\ Succeeded(d, n)
  <2>1. /\ sent' = sent /\ successful'[d] = done /\ successful'[o] = successful[o]
    BY <1>2, <1>8, TwoDomains DEF finalizeBridgeERC20, Succeeded, done, o
  <2>2. CASE d = L2
    <3>1. msg = ERC20(Pair, Token)
      BY <1>1, <1>8, <2>2, TwoDomains, TokenKinds, Zenon DEF finalizeBridgeERC20, Completes
    <3>2. \A t \in {Pair, Unpaired} : Carries(msg, t) = IF t = Pair THEN 1 ELSE 0
      BY <3>1, TokenKinds, Zenon
    <3>3. /\ deposits' = deposits /\ tokens' \in [Domains -> Nat] /\ tokens'[L2] = tokens[L2] + 1
      BY <1>2, <1>8, <2>2, TwoDomains, SMTT(30) DEF finalizeBridgeERC20, completeOutboundTransfer
    <3>4. ASSUME NEW t \in {Pair, Unpaired}  PROVE deposits'[t] = Escrow(t)'
      <4>1. PICK x \in Nat, c \in Nat, r \in Nat, k \in {0, 1} :
              /\ x = (IF t = Pair THEN tokens[L2] ELSE 0) /\ c = CarriedOf(sent[o], done, t)
              /\ r = CarriedOf(sent[d], successful[o], t) /\ k = Carries(msg, t)
              /\ deposits[t] = x + (c + k) + r
        BY <1>11, Zenon
      <4>2. tokens'[L2] \in Nat /\ x + k = IF t = Pair THEN tokens'[L2] ELSE 0
        BY <1>6, <3>2, <3>3, <4>1
      <4>3. Escrow(t)' = (x + k) + c + r
        BY <1>5, <2>1, <4>1, <4>2, Zenon
      <4>4. x + (c + k) + r = (x + k) + c + r
        OBVIOUS
      <4> QED  BY <3>3, <4>1, <4>3, <4>4, Zenon
    <3> QED  BY <1>2, <3>3, <3>4, Zenon
  <2>3. CASE d = L1
    <3>1. msg = ERC20(Token, Pair) /\ msg.remote = Pair /\ deposits[Pair] > 0
      BY <1>1, <1>8, <2>3, TwoDomains, TokenKinds, Zenon DEF finalizeBridgeERC20, Completes
    <3>2. \A t \in {Pair, Unpaired} : Carries(msg, t) = IF t = Pair THEN 1 ELSE 0
      BY <3>1, TokenKinds, Zenon
    <3>3. /\ deposits' = [deposits EXCEPT ![Pair] = @ - 1]
          /\ tokens' \in [Domains -> Nat] /\ tokens'[L2] = tokens[L2]
      BY <1>2, <1>8, <2>3, <3>1, TwoDomains, SMTT(20)
      DEF finalizeBridgeERC20, completeOutboundTransfer
    <3>4. /\ deposits' \in [{Pair, Unpaired} -> Nat]
          /\ \A t \in {Pair, Unpaired} : deposits'[t] = deposits[t] - IF t = Pair THEN 1 ELSE 0
      BY <1>2, <3>1, <3>3, TokenKinds
    <3>5. ASSUME NEW t \in {Pair, Unpaired}  PROVE deposits'[t] = Escrow(t)'
      <4>1. PICK x \in Nat, c \in Nat, r \in Nat, k \in {0, 1} :
              /\ x = (IF t = Pair THEN tokens[L2] ELSE 0) /\ c = CarriedOf(sent[o], done, t)
              /\ r = CarriedOf(sent[d], successful[o], t) /\ k = Carries(msg, t)
              /\ deposits[t] = x + (c + k) + r
        BY <1>11, Zenon
      <4>2. deposits'[t] = x + (c + k) + r - k
        BY <3>2, <3>4, <4>1
      <4>3. Escrow(t)' = x + c + r
        BY <1>5, <1>6, <2>1, <3>3, <4>1, Zenon
      <4>4. x + (c + k) + r - k = x + c + r
        OBVIOUS
      <4> QED  BY <4>2, <4>3, <4>4, Zenon
    <3> QED  BY <3>3, <3>4, <3>5, Zenon
  <2> QED  BY <2>2, <2>3, TwoDomains
<1>9. CASE returnERC20(d, msg) /\ Succeeded(d, n)
  <2>1. /\ UNCHANGED <<tokens, deposits>> /\ sendMessage(d, msg) /\ msg.kind = "finalizeBridgeERC20"
        /\ successful'[d] = done /\ successful'[o] = successful[o]
    BY <1>2, <1>9, TwoDomains, Zenon DEF returnERC20, Succeeded, bridge, done, o
  <2>2. /\ sent'[o] = sent[o]
        /\ \A t : CarriedOf(sent'[d], successful[o], t) = CarriedOf(sent[d], successful[o], t) + Carries(msg, t)
    BY <1>1, <2>1, SendToken, Zenon DEF o
  <2>3. ASSUME NEW t \in {Pair, Unpaired}  PROVE deposits'[t] = Escrow(t)'
    <3>1. PICK x \in Nat, c \in Nat, r \in Nat, k \in {0, 1} :
            /\ x = (IF t = Pair THEN tokens[L2] ELSE 0) /\ c = CarriedOf(sent[o], done, t)
            /\ r = CarriedOf(sent[d], successful[o], t) /\ k = Carries(msg, t)
            /\ deposits[t] = x + (c + k) + r
      BY <1>11, Zenon
    <3>2. r + k \in Nat /\ x + (c + k) + r = x + c + (r + k)
      OBVIOUS
    <3>3. /\ CarriedOf(sent'[o], successful'[d], t) = c /\ CarriedOf(sent'[d], successful'[o], t) = r + k
          /\ tokens' = tokens /\ deposits' = deposits
      BY <2>1, <2>2, <3>1, Zenon
    <3>4. Escrow(t)' = x + c + (r + k)
      BY <1>5, <1>6, <3>1, <3>2, <3>3, Zenon
    <3> QED  BY <3>1, <3>2, <3>3, <3>4, Zenon
  <2> QED  BY <1>2, <2>1, <2>3, Zenon
<1>10. CASE Failed(d, n) /\ UNCHANGED <<bridge, sent>>
  BY <1>2, <1>5, <1>6, <1>10 DEF Failed, bridge
<1> QED  BY <1>7, <1>8, <1>9, <1>10, Zenon DEF relayMessage, msg, o

(* A relayed message is marked in its domain, and moves its value. *)
LEMMA RelayOutcome ==
  ASSUME Types, NEW d \in Domains, NEW n \in DOMAIN sent[Other(d)],
         NEW funds, NEW payer, relayMessage(d, n, funds, payer),
         Value(sent[Other(d)][n]) = 0 => funds = eth
  PROVE  LET o == Other(d)
             v == Value(sent[o][n])
         IN  /\ n \notin successful[d] /\ Sends
             /\ \/ UNCHANGED sent
                \/ sendMessage(d, sent[o][n]) /\ sent[o][n].kind = "finalizeBridgeERC20"
             /\ \/ /\ successful' = [successful EXCEPT ![d] = @ \cup {n}] /\ received' = received
                   /\ eth' = IF v = 1 THEN Move(funds, payer, User(d)) ELSE eth
                \/ /\ received' = [received EXCEPT ![d] = @ \cup {n}] /\ successful' = successful
                   /\ eth' = IF v = 1 THEN Move(funds, payer, Messenger(d)) ELSE eth
<1> DEFINE o == Other(d)
           msg == sent[o][n]
           v == Value(msg)
<1>1. n \notin successful[d] /\ msg \in Msgs /\ v \in {0, 1}
  BY Numbers, TwoDomains, MsgKinds, Zenon DEF relayMessage, Relayable
<1> HIDE DEF o, msg
<1>2. CASE finalizeBridgeETH(d, msg, funds, payer) /\ Succeeded(d, n)
  <2>1. msg = ETH /\ v = 1
    BY <1>1, <1>2, MsgKinds, Zenon DEF finalizeBridgeETH
  <2>2. UNCHANGED sent /\ Sends /\ eth' = Move(funds, payer, User(d))
    BY <1>2, NoSend DEF finalizeBridgeETH
  <2> QED  BY <1>1, <1>2, <2>1, <2>2, Zenon DEF Succeeded, msg, o
<1>3. CASE finalizeBridgeERC20(d, msg) /\ Succeeded(d, n)
  <2>1. v = 0
    BY <1>1, <1>3, MsgKinds, Zenon DEF finalizeBridgeERC20
  <2>2. UNCHANGED sent /\ Sends /\ eth' = eth
    BY <1>3, NoSend, Zenon DEF finalizeBridgeERC20
  <2> QED  BY <1>1, <1>3, <2>1, <2>2 DEF Succeeded, msg, o
<1>4. CASE returnERC20(d, msg) /\ Succeeded(d, n)
  <2>1. v = 0
    BY <1>1, <1>4, MsgKinds, Zenon DEF returnERC20
  <2>2. sendMessage(d, msg) /\ msg.kind = "finalizeBridgeERC20" /\ eth' = eth
    BY <1>4, Zenon DEF returnERC20
  <2>3. Sends
    BY <1>1, <2>2, OneSend
  <2> QED  BY <1>1, <1>4, <2>1, <2>2, <2>3, SMTT(30) DEF Succeeded, msg, o
<1>5. CASE /\ Failed(d, n) /\ UNCHANGED <<bridge, sent>>
           /\ eth' = IF Value(msg) = 1 THEN Move(funds, payer, Messenger(d)) ELSE funds
  <2>1. UNCHANGED sent /\ Sends
    BY <1>5, NoSend
  <2>2. eth' = IF v = 1 THEN Move(funds, payer, Messenger(d)) ELSE eth
    BY <1>1, <1>5 DEF msg, o
  <2> QED  BY <1>1, <1>5, <2>1, <2>2, Zenon DEF Failed, msg, o
<1> QED  BY <1>2, <1>3, <1>4, <1>5, Zenon DEF relayMessage, msg, o

(* What remains to be replayed, paid and minted then. *)
LEMMA RelayCounters ==
  ASSUME Types, NEW d \in Domains, NEW n \in DOMAIN sent[Other(d)], n \notin successful[d],
         \/ UNCHANGED sent
         \/ sendMessage(d, sent[Other(d)][n]) /\ sent[Other(d)][n].kind = "finalizeBridgeERC20",
         NEW good \in BOOLEAN,
         good => successful' = [successful EXCEPT ![d] = @ \cup {n}] /\ received' = received,
         ~ good => received' = [received EXCEPT ![d] = @ \cup {n}] /\ successful' = successful
  PROVE  LET v == Value(sent[Other(d)][n])
             old == IF n \in received[d] THEN v ELSE 0
             new == IF n \in received[d] THEN 0 ELSE v
         IN  /\ v \in {0, 1}
             /\ ToReplay(Other(d))' = ToReplay(Other(d))
             /\ good => ToReplay(d)' \in Nat /\ ToReplay(d) = ToReplay(d)' + old
             /\ ~ good => ToReplay(d)' = ToReplay(d) + new
             /\ d = L1 => ToPay' \in Nat /\ ToPay = ToPay' + new
             /\ d = L2 => ToPay' = ToPay
             /\ derived' = derived => ToMint' = ToMint
             /\ d = L2 /\ n = derived + 1 /\ derived' = n =>
                  ToMint' \in Nat /\ ToMint = ToMint' + v
<1> DEFINE o == Other(d)
           msg == sent[o][n]
           v == Value(msg)
           old == IF n \in received[d] THEN v ELSE 0
           new == IF n \in received[d] THEN 0 ELSE v
           done == successful[d] \cup {n}
           known == received[d] \cup {n}
<1>1. msg \in Msgs /\ v \in {0, 1}
  BY Numbers, TwoDomains, MsgKinds, Zenon
<1>2. successful \in [Domains -> SUBSET Nat] /\ received \in [Domains -> SUBSET Nat]
  BY RestType, Zenon
<1>3. /\ good => successful'[d] = done /\ received'[d] = received[d]
      /\ ~ good => successful'[d] = successful[d] /\ received'[d] = known
      /\ successful'[o] = successful[o] /\ received'[o] = received[o]
  BY <1>2, TwoDomains
<1>4. /\ sent'[o] = sent[o]
      /\ WorthOf(sent'[d], received[o] \ successful[o]) = WorthOf(sent[d], received[o] \ successful[o])
      /\ d = L1 => WorthOf(sent'[L1], derived + 1 .. Len(sent'[L1])) = ToMint
      /\ d = L2 => WorthOf(sent'[L2], OpenOf(sent'[L2], successful[L1]) \ received[L1]) = ToPay
  <2>1. CASE UNCHANGED sent
    BY <2>1 DEF ToMint, ToPay
  <2>2. CASE sendMessage(d, sent[Other(d)][n]) /\ sent[Other(d)][n].kind = "finalizeBridgeERC20"
    BY <1>1, <2>2, SendToken, Zenon
  <2> QED  BY <2>1, <2>2, Zenon
<1>5. /\ WorthOf(sent[o], received[d] \ done) \in Nat
      /\ ToReplay(d) = WorthOf(sent[o], received[d] \ done) + old
      /\ WorthOf(sent[o], known \ successful[d]) = ToReplay(d) + new
  BY Relay, Zenon
<1>6. ToReplay(o)' = ToReplay(o)
  BY <1>3, <1>4, TwoDomains, Zenon DEF ToReplay
<1>7. ToReplay(d)' = WorthOf(sent[o], received'[d] \ successful'[d])
  BY <1>4 DEF ToReplay
<1>8. good => ToReplay(d)' \in Nat /\ ToReplay(d) = ToReplay(d)' + old
  BY <1>3, <1>5, <1>7
<1>9. ~ good => ToReplay(d)' = ToReplay(d) + new
  BY <1>3, <1>5, <1>7, Zenon
<1>10. ASSUME d = L1  PROVE ToPay' \in Nat /\ ToPay = ToPay' + new
  <2>1. /\ WorthOf(sent[o], OpenOf(sent[o], done) \ received[d]) \in Nat
        /\ ToPay = WorthOf(sent[o], OpenOf(sent[o], done) \ received[d]) + new
    BY <1>10, Relay, ZenonT(60)
  <2>2. OpenOf(sent[o], successful[d]) \ known = OpenOf(sent[o], done) \ received[d]
    BY DEF OpenOf
  <2>3. ToPay' = WorthOf(sent[o], OpenOf(sent[o], successful'[d]) \ received'[d])
    BY <1>4, <1>10, TwoDomains, Zenon DEF ToPay
  <2>4. OpenOf(sent[o], successful'[d]) \ received'[d] = OpenOf(sent[o], done) \ received[d]
    BY <1>3, <2>2, Zenon
  <2>5. ToPay' = WorthOf(sent[o], OpenOf(sent[o], done) \ received[d])
    BY <2>3, <2>4, Zenon
  <2> QED  BY <2>1, <2>5
<1>11. d = L2 => ToPay' = ToPay
  BY <1>3, <1>4, TwoDomains, Zenon DEF ToPay
<1>12. derived' = derived => ToMint' = ToMint
  BY <1>4, TwoDomains, Zenon DEF ToMint
<1>13. ASSUME d = L2, n = derived + 1, derived' = n
       PROVE  ToMint' \in Nat /\ ToMint = ToMint' + v
  <2>1. ToMint' = WorthOf(sent[o], n + 1 .. Len(sent[o]))
    BY <1>4, <1>13, TwoDomains, Zenon DEF ToMint
  <2>2. /\ WorthOf(sent[o], n + 1 .. Len(sent[o])) \in Nat
        /\ ToMint = WorthOf(sent[o], n + 1 .. Len(sent[o])) + v
    BY <1>13, Relay, Zenon
  <2> QED  BY <2>1, <2>2
<1> HIDE DEF msg
<1> QED  BY <1>1, <1>6, <1>8, <1>9, <1>10, <1>11, <1>12, <1>13, Zenon DEF msg

-----------------------------------------------------------------------------
(* The balances are numbers, and moving ETH from an account to itself does nothing. *)
LEMMA EthNumbers ==
  ASSUME Types
  PROVE  /\ eth[Portal] \in Nat /\ eth[Alias] \in Nat
         /\ \A d \in Domains : eth[User(d)] \in Nat /\ eth[Messenger(d)] \in Nat
         /\ \A h \in Holders : Move(eth, h, h) = eth
<1>1. eth \in [Holders -> Nat]
  BY RestType
<1>2. ASSUME NEW h \in Holders  PROVE Move(eth, h, h) = eth
  <2> DEFINE once == [eth EXCEPT ![h] = @ - 1]
  <2>1. Move(eth, h, h) = [once EXCEPT ![h] = @ + 1]
    BY DEF Move
  <2>2. once[h] + 1 = eth[h] /\ DOMAIN once = Holders
        /\ \A k \in Holders : k # h => once[k] = eth[k]
    BY <1>1
  <2> HIDE DEF once
  <2>3. [once EXCEPT ![h] = @ + 1] = [k \in Holders |-> IF k = h THEN once[h] + 1 ELSE once[k]]
    BY <2>2, Zenon
  <2>4. eth = [k \in Holders |-> eth[k]]
    BY <1>1
  <2> QED  BY <2>1, <2>2, <2>3, <2>4
<1> QED  BY <1>1, <1>2, Accounts, TwoDomains

(* The balances before a step, *)
LEMMA Accounted ==
  ASSUME Types, Balances
  PROVE  /\ eth[Portal] \in Nat /\ eth[Alias] \in Nat /\ eth[User(L2)] \in Nat
         /\ eth[Messenger(L1)] \in Nat /\ eth[Messenger(L2)] \in Nat
         /\ ToMint \in Nat /\ ToPay \in Nat
         /\ eth[Portal] = eth[User(L2)] + eth[Messenger(L2)] + eth[Alias] + ToMint + ToPay
         /\ eth[Messenger(L1)] = ToReplay(L1) /\ eth[Messenger(L2)] = ToReplay(L2)
<1>1. L1 \in Domains /\ L2 \in Domains
  BY TwoDomains
<1>2. ToMint \in Nat /\ ToPay \in Nat
  BY CountersType, Zenon
<1>3. /\ eth[Portal] \in Nat /\ eth[Alias] \in Nat /\ eth[User(L2)] \in Nat
      /\ eth[Messenger(L1)] \in Nat /\ eth[Messenger(L2)] \in Nat
  BY <1>1, EthNumbers, Zenon
<1>4. /\ eth[Portal] = eth[User(L2)] + eth[Messenger(L2)] + eth[Alias] + ToMint + ToPay
      /\ eth[Messenger(L1)] = ToReplay(L1) /\ eth[Messenger(L2)] = ToReplay(L2)
  BY <1>1, Zenon DEF Balances
<1> QED  BY <1>2, <1>3, <1>4, Zenon

(* and after it. *)
LEMMA Rebalanced ==
  ASSUME \A t \in {Pair, Unpaired} : deposits'[t] = Escrow(t)',
         eth'[Portal] = eth'[User(L2)] + eth'[Messenger(L2)] + eth'[Alias] + ToMint' + ToPay',
         eth'[Messenger(L1)] = ToReplay(L1)', eth'[Messenger(L2)] = ToReplay(L2)'
  PROVE  Balances'
<1>1. ASSUME NEW d \in Domains  PROVE eth'[Messenger(d)] = ToReplay(d)'
  <2>1. d = L1 \/ d = L2
    BY TwoDomains
  <2> QED  BY <2>1, Zenon DEF ToReplay
<1> QED  BY <1>1, Zenon DEF Balances

(* The balances are kept by sending ETH, *)
LEMMA BridgeETHKeeps ==
  ASSUME Types, Balances, NEW d \in Domains, bridgeETH(d)
  PROVE  Types' /\ Balances'
<1>1. ETH \in Msgs /\ Value(ETH) = 1 /\ \A t \in {Pair, Unpaired} : Carries(ETH, t) = 0
  BY MsgKinds
<1>2. /\ sendMessage(d, ETH) /\ eth[User(d)] > 0 /\ eth' = Move(eth, User(d), Gate(d))
      /\ UNCHANGED <<successful, received, paused, derived, outputs, finalized, tokens, deposits>>
  BY DEF bridgeETH, bridge
<1>3. eth \in [Holders -> Nat]
  BY RestType
<1>4. User(d) \in Holders /\ Gate(d) \in Holders /\ User(d) # Gate(d)
  BY Accounts, TwoDomains, Zenon DEF Gate
<1>5. /\ eth' \in [Holders -> Nat]
      /\ eth'[User(d)] = eth[User(d)] - 1 /\ eth'[Gate(d)] = eth[Gate(d)] + 1
      /\ \A h \in Holders \ {User(d), Gate(d)} : eth'[h] = eth[h]
  BY <1>2, <1>3, <1>4, Moved
<1>6. Types'
  BY <1>1, <1>2, <1>5, OneSend, NoMark, TypesKept, RestType, TwoDomains, Zenon
<1>7. /\ \A t \in {Pair, Unpaired} :
           CarriedOf(sent'[d], successful[Other(d)], t) = CarriedOf(sent[d], successful[Other(d)], t) + 0
      /\ sent'[Other(d)] = sent[Other(d)]
      /\ WorthOf(sent'[d], received[Other(d)] \ successful[Other(d)])
           = WorthOf(sent[d], received[Other(d)] \ successful[Other(d)])
      /\ d = L1 => WorthOf(sent'[L1], derived + 1 .. Len(sent'[L1])) = ToMint + 1
      /\ d = L2 => WorthOf(sent'[L2], OpenOf(sent'[L2], successful[L1]) \ received[L1]) = ToPay + 1
  <2>1. \A t : CarriedOf(sent'[d], successful[Other(d)], t)
                 = CarriedOf(sent[d], successful[Other(d)], t) + Carries(ETH, t)
    BY <1>1, <1>2, Send, Zenon
  <2>2. d = L1 => WorthOf(sent'[L1], derived + 1 .. Len(sent'[L1])) = ToMint + Value(ETH)
    BY <1>1, <1>2, Send, Zenon
  <2>3. d = L2 => WorthOf(sent'[L2], OpenOf(sent'[L2], successful[L1]) \ received[L1])
                    = ToPay + Value(ETH)
    BY <1>1, <1>2, Send, Zenon
  <2>4. /\ sent'[Other(d)] = sent[Other(d)]
        /\ WorthOf(sent'[d], received[Other(d)] \ successful[Other(d)])
             = WorthOf(sent[d], received[Other(d)] \ successful[Other(d)])
    BY <1>1, <1>2, Send, Zenon
  <2> QED  BY <1>1, <2>1, <2>2, <2>3, <2>4, Zenon
<1>8. /\ ToMint \in Nat /\ ToPay \in Nat
      /\ \A e \in Domains : \A t : CarriedOf(sent[Other(e)], successful[e], t) \in Nat
  BY CountersType
<1>9. \A t \in {Pair, Unpaired} : Escrow(t)' = Escrow(t)
  <2>1. SUFFICES ASSUME NEW t \in {Pair, Unpaired}  PROVE Escrow(t)' = Escrow(t)
    OBVIOUS
  <2>2. /\ CarriedOf(sent[L1], successful[L2], t) \in Nat /\ CarriedOf(sent[L2], successful[L1], t) \in Nat
    BY <1>8, TwoDomains, Zenon
  <2>3. CarriedOf(sent'[d], successful[Other(d)], t) = CarriedOf(sent[d], successful[Other(d)], t)
    BY <1>7, <1>8, TwoDomains, SMTT(30)
  <2>4. /\ CarriedOf(sent'[L1], successful[L2], t) = CarriedOf(sent[L1], successful[L2], t)
        /\ CarriedOf(sent'[L2], successful[L1], t) = CarriedOf(sent[L2], successful[L1], t)
    BY <1>7, <2>3, TwoDomains, Zenon
  <2> QED  BY <1>2, <2>4, Zenon DEF Escrow
<1>10. \A e \in Domains : ToReplay(e)' = ToReplay(e)
  BY <1>2, <1>7, TwoDomains, ZenonT(30) DEF ToReplay
<1>11. /\ eth[Portal] \in Nat /\ eth[Alias] \in Nat /\ eth[User(L2)] \in Nat
       /\ eth[Messenger(L1)] \in Nat /\ eth[Messenger(L2)] \in Nat
       /\ ToMint \in Nat /\ ToPay \in Nat
       /\ eth[Portal] = eth[User(L2)] + eth[Messenger(L2)] + eth[Alias] + ToMint + ToPay
       /\ eth[Messenger(L1)] = ToReplay(L1) /\ eth[Messenger(L2)] = ToReplay(L2)
  BY Accounted, Zenon
<1>12. \A t \in {Pair, Unpaired} : deposits'[t] = Escrow(t)'
  BY <1>2, <1>9, Zenon DEF Balances
<1>13. CASE d = L1
  <2>1. ToMint' = ToMint + 1 /\ ToPay' = ToPay
    BY <1>2, <1>7, <1>13, TwoDomains, Zenon DEF ToMint, ToPay
  <2>2. /\ eth'[Portal] = eth[Portal] + 1 /\ eth'[User(L2)] = eth[User(L2)]
        /\ eth'[Alias] = eth[Alias] /\ eth'[Messenger(L1)] = eth[Messenger(L1)]
        /\ eth'[Messenger(L2)] = eth[Messenger(L2)]
    BY <1>5, <1>13, Accounts, TwoDomains, Zenon DEF Gate
  <2>3. eth'[Portal] = eth'[User(L2)] + eth'[Messenger(L2)] + eth'[Alias] + ToMint' + ToPay'
    BY <1>11, <2>1, <2>2, SMTT(30)
  <2>4. eth'[Messenger(L1)] = ToReplay(L1)' /\ eth'[Messenger(L2)] = ToReplay(L2)'
    BY <1>10, <1>11, <2>2, TwoDomains, Zenon
  <2> QED  BY <1>6, <1>12, <2>3, <2>4, Rebalanced, Zenon
<1>14. CASE d = L2
  <2>1. ToMint' = ToMint /\ ToPay' = ToPay + 1
    BY <1>2, <1>7, <1>14, TwoDomains, Zenon DEF ToMint, ToPay
  <2>2. /\ eth'[Portal] = eth[Portal] /\ eth'[User(L2)] = eth[User(L2)] - 1
        /\ eth'[Alias] = eth[Alias] /\ eth'[Messenger(L1)] = eth[Messenger(L1)]
        /\ eth'[Messenger(L2)] = eth[Messenger(L2)]
    BY <1>5, <1>14, Accounts, TwoDomains, Zenon DEF Gate
  <2>3. eth'[Portal] = eth'[User(L2)] + eth'[Messenger(L2)] + eth'[Alias] + ToMint' + ToPay'
    BY <1>11, <2>1, <2>2
  <2>4. eth'[Messenger(L1)] = ToReplay(L1)' /\ eth'[Messenger(L2)] = ToReplay(L2)'
    BY <1>10, <1>11, <2>2, TwoDomains, Zenon
  <2> QED  BY <1>6, <1>12, <2>3, <2>4, Rebalanced, Zenon
<1> QED  BY <1>13, <1>14, TwoDomains

(* by sending tokens, *)
LEMMA BridgeERC20Keeps ==
  ASSUME Types, Balances, NEW d \in Domains, bridgeERC20(d)
  PROVE  Types' /\ Balances'
<1>1. /\ tokens[d] > 0 /\ tokens' = [tokens EXCEPT ![d] = @ - 1]
      /\ UNCHANGED <<successful, received, paused, derived, outputs, finalized, eth>>
  BY Zenon DEF bridgeERC20
<1>2. /\ tokens \in [Domains -> Nat] /\ deposits \in [{Pair, Unpaired} -> Nat]
      /\ eth \in [Holders -> Nat]
  BY RestType
<1>3. tokens' \in [Domains -> Nat] /\ tokens'[d] = tokens[d] - 1 /\ tokens'[Other(d)] = tokens[Other(d)]
  BY <1>1, <1>2, TwoDomains
<1>4. /\ ToMint \in Nat /\ ToPay \in Nat
      /\ \A e \in Domains : \A t : CarriedOf(sent[Other(e)], successful[e], t) \in Nat
  BY CountersType
<1>5. ASSUME NEW msg \in Msgs, msg.kind = "finalizeBridgeERC20", sendMessage(d, msg)
      PROVE  /\ ToMint' = ToMint /\ ToPay' = ToPay /\ \A e \in Domains : ToReplay(e)' = ToReplay(e)
             /\ Sends /\ Marks(L1, {})
  <2>1. /\ sent'[Other(d)] = sent[Other(d)]
        /\ WorthOf(sent'[d], received[Other(d)] \ successful[Other(d)])
             = WorthOf(sent[d], received[Other(d)] \ successful[Other(d)])
        /\ d = L1 => WorthOf(sent'[L1], derived + 1 .. Len(sent'[L1])) = ToMint
        /\ d = L2 => WorthOf(sent'[L2], OpenOf(sent'[L2], successful[L1]) \ received[L1]) = ToPay
    BY <1>5, SendToken, Zenon
  <2>2. ToMint' = ToMint
    BY <1>1, <2>1, TwoDomains, Zenon DEF ToMint
  <2>3. ToPay' = ToPay
    BY <1>1, <2>1, TwoDomains, Zenon DEF ToPay
  <2>4. \A e \in Domains : ToReplay(e)' = ToReplay(e)
    BY <1>1, <2>1, TwoDomains, Zenon DEF ToReplay
  <2> QED  BY <1>1, <1>5, <2>2, <2>3, <2>4, OneSend, NoMark
<1>6. CASE /\ d = L1
           /\ \E remote \in {Pair, Unpaired} :
                deposits' = [deposits EXCEPT ![remote] = @ + 1] /\ sendMessage(d, ERC20(remote, Token))
  <2>1. PICK remote \in {Pair, Unpaired} :
          deposits' = [deposits EXCEPT ![remote] = @ + 1] /\ sendMessage(d, ERC20(remote, Token))
    BY <1>6, Zenon
  <2>2. ERC20(remote, Token) \in Msgs /\ ERC20(remote, Token).kind = "finalizeBridgeERC20"
    BY TokenKinds
  <2>3. \A t \in {Pair, Unpaired} : Carries(ERC20(remote, Token), t) = IF t = remote THEN 1 ELSE 0
    BY TokenKinds
  <2>4. \A t : CarriedOf(sent'[L1], successful[L2], t)
                 = CarriedOf(sent[L1], successful[L2], t) + Carries(ERC20(remote, Token), t)
    BY <1>6, <2>1, <2>2, SendToken, TwoDomains, ZenonT(30)
  <2>5. sent'[L2] = sent[L2] /\ tokens'[L2] = tokens[L2]
    BY <1>3, <1>6, <2>1, <2>2, SendToken, TwoDomains, Zenon
  <2>6. /\ deposits' \in [{Pair, Unpaired} -> Nat]
        /\ \A t \in {Pair, Unpaired} : deposits'[t] = deposits[t] + IF t = remote THEN 1 ELSE 0
    BY <1>2, <2>1
  <2>7. \A t \in {Pair, Unpaired} : Escrow(t)' = Escrow(t) + IF t = remote THEN 1 ELSE 0
    <3>1. SUFFICES ASSUME NEW t \in {Pair, Unpaired}
                   PROVE  Escrow(t)' = Escrow(t) + IF t = remote THEN 1 ELSE 0
      OBVIOUS
    <3>2. /\ CarriedOf(sent[L1], successful[L2], t) \in Nat /\ CarriedOf(sent[L2], successful[L1], t) \in Nat
          /\ tokens[L2] \in Nat
      BY <1>2, <1>4, TwoDomains, Zenon
    <3>3. /\ CarriedOf(sent'[L1], successful'[L2], t)
               = CarriedOf(sent[L1], successful[L2], t) + IF t = remote THEN 1 ELSE 0
          /\ CarriedOf(sent'[L2], successful'[L1], t) = CarriedOf(sent[L2], successful[L1], t)
      BY <1>1, <2>3, <2>4, <2>5, Zenon
    <3>4. PICK x \in Nat, c \in Nat, r \in Nat, k \in {0, 1} :
            /\ x = (IF t = Pair THEN tokens[L2] ELSE 0) /\ k = (IF t = remote THEN 1 ELSE 0)
            /\ c = CarriedOf(sent[L1], successful[L2], t) /\ r = CarriedOf(sent[L2], successful[L1], t)
      BY <3>2
    <3>5. Escrow(t) = x + r + c /\ Escrow(t)' = x + r + (c + k)
      BY <2>5, <3>3, <3>4, Zenon DEF Escrow
    <3>6. x + r + (c + k) = x + r + c + k
      OBVIOUS
    <3> QED  BY <3>4, <3>5, <3>6, Zenon
  <2>8. Types'
    BY <1>1, <1>2, <1>3, <1>5, <2>1, <2>2, <2>6, TypesKept, TwoDomains, Zenon
  <2> QED  BY <1>1, <1>5, <2>1, <2>2, <2>6, <2>7, <2>8, Zenon DEF Balances
<1>7. CASE d = L2 /\ sendMessage(d, ERC20(Token, Pair)) /\ UNCHANGED deposits
  <2>1. ERC20(Token, Pair) \in Msgs /\ ERC20(Token, Pair).kind = "finalizeBridgeERC20"
    BY TokenKinds
  <2>2. \A t \in {Pair, Unpaired} : Carries(ERC20(Token, Pair), t) = IF t = Pair THEN 1 ELSE 0
    BY TokenKinds
  <2>3. \A t : CarriedOf(sent'[L2], successful[L1], t)
                 = CarriedOf(sent[L2], successful[L1], t) + Carries(ERC20(Token, Pair), t)
    <3>1. L2 \in Domains /\ Other(L2) = L1 /\ sendMessage(L2, ERC20(Token, Pair))
      BY <1>7, TwoDomains, Zenon
    <3>2. \A t : CarriedOf(sent'[L2], successful[Other(L2)], t)
                   = CarriedOf(sent[L2], successful[Other(L2)], t) + Carries(ERC20(Token, Pair), t)
      BY <2>1, <3>1, SendToken, ZenonT(30)
    <3> QED  BY <3>1, <3>2, Zenon
  <2>4. sent'[L1] = sent[L1] /\ tokens'[L2] = tokens[L2] - 1
    BY <1>3, <1>7, <2>1, SendToken, TwoDomains, Zenon
  <2>5. \A t \in {Pair, Unpaired} : Escrow(t)' = Escrow(t)
    <3>1. SUFFICES ASSUME NEW t \in {Pair, Unpaired}  PROVE Escrow(t)' = Escrow(t)
      OBVIOUS
    <3>2. /\ CarriedOf(sent[L1], successful[L2], t) \in Nat /\ CarriedOf(sent[L2], successful[L1], t) \in Nat
          /\ tokens[L2] \in Nat
      BY <1>2, <1>4, TwoDomains, Zenon
    <3>3. /\ CarriedOf(sent'[L2], successful'[L1], t)
               = CarriedOf(sent[L2], successful[L1], t) + IF t = Pair THEN 1 ELSE 0
          /\ CarriedOf(sent'[L1], successful'[L2], t) = CarriedOf(sent[L1], successful[L2], t)
      BY <1>1, <2>2, <2>3, <2>4, Zenon
    <3>4. PICK x \in Int, c \in Nat, r \in Nat, k \in {0, 1} :
            /\ x = (IF t = Pair THEN tokens'[L2] ELSE 0) /\ k = (IF t = Pair THEN 1 ELSE 0)
            /\ c = CarriedOf(sent[L1], successful[L2], t) /\ r = CarriedOf(sent[L2], successful[L1], t)
      BY <2>4, <3>2
    <3>5. x + k = IF t = Pair THEN tokens[L2] ELSE 0
      BY <2>4, <3>2, <3>4
    <3>6. Escrow(t) = (x + k) + r + c /\ Escrow(t)' = x + (r + k) + c
      BY <3>3, <3>4, <3>5, Zenon DEF Escrow
    <3>7. (x + k) + r + c = x + (r + k) + c
      OBVIOUS
    <3> QED  BY <3>6, <3>7, Zenon
  <2>6. Types'
    BY <1>1, <1>2, <1>3, <1>5, <1>7, <2>1, TypesKept, TwoDomains, Zenon
  <2> QED  BY <1>1, <1>5, <1>7, <2>1, <2>5, <2>6, Zenon DEF Balances
<1> QED  BY <1>6, <1>7, Zenon DEF bridgeERC20

(* The outcome and the counters together. *)
LEMMA RelayStep ==
  ASSUME Types, Balances, NEW d \in Domains, NEW n \in DOMAIN sent[Other(d)],
         NEW funds, NEW payer, relayMessage(d, n, funds, payer),
         Value(sent[Other(d)][n]) = 0 => funds = eth
  PROVE  LET v == Value(sent[Other(d)][n])
             old == IF n \in received[d] THEN v ELSE 0
             new == IF n \in received[d] THEN 0 ELSE v
         IN  /\ v \in {0, 1} /\ Sends
             /\ \A t \in {Pair, Unpaired} : deposits'[t] = Escrow(t)'
             /\ tokens' \in [Domains -> Nat] /\ deposits' \in [{Pair, Unpaired} -> Nat]
             /\ successful' \in [Domains -> SUBSET Nat] /\ received' \in [Domains -> SUBSET Nat]
             /\ successful'[d] \cup received'[d] \subseteq successful[d] \cup received[d] \cup {n}
             /\ successful'[Other(d)] = successful[Other(d)] /\ received'[Other(d)] = received[Other(d)]
             /\ ToReplay(Other(d))' = ToReplay(Other(d))
             /\ \/ /\ eth' = IF v = 1 THEN Move(funds, payer, User(d)) ELSE eth
                   /\ ToReplay(d)' \in Nat /\ ToReplay(d) = ToReplay(d)' + old
                \/ /\ eth' = IF v = 1 THEN Move(funds, payer, Messenger(d)) ELSE eth
                   /\ ToReplay(d)' = ToReplay(d) + new
             /\ d = L1 => ToPay' \in Nat /\ ToPay = ToPay' + new
             /\ d = L2 => ToPay' = ToPay
             /\ derived' = derived => ToMint' = ToMint
             /\ d = L2 /\ n = derived + 1 /\ derived' = n =>
                  ToMint' \in Nat /\ ToMint = ToMint' + v
<1> DEFINE o == Other(d)
           v == Value(sent[o][n])
           old == IF n \in received[d] THEN v ELSE 0
           new == IF n \in received[d] THEN 0 ELSE v
<1>1. n \notin successful[d] /\ Sends
      /\ \/ UNCHANGED sent
         \/ sendMessage(d, sent[Other(d)][n]) /\ sent[Other(d)][n].kind = "finalizeBridgeERC20"
  BY RelayOutcome, Zenon
<1>2. PICK good \in BOOLEAN :
        /\ good => /\ successful' = [successful EXCEPT ![d] = @ \cup {n}] /\ received' = received
                   /\ eth' = IF v = 1 THEN Move(funds, payer, User(d)) ELSE eth
        /\ ~ good => /\ received' = [received EXCEPT ![d] = @ \cup {n}] /\ successful' = successful
                     /\ eth' = IF v = 1 THEN Move(funds, payer, Messenger(d)) ELSE eth
  <2>1. \/ /\ successful' = [successful EXCEPT ![d] = @ \cup {n}] /\ received' = received
           /\ eth' = IF v = 1 THEN Move(funds, payer, User(d)) ELSE eth
        \/ /\ received' = [received EXCEPT ![d] = @ \cup {n}] /\ successful' = successful
           /\ eth' = IF v = 1 THEN Move(funds, payer, Messenger(d)) ELSE eth
    BY RelayOutcome, ZenonT(30)
  <2> HIDE DEF v
  <2>2. CASE /\ successful' = [successful EXCEPT ![d] = @ \cup {n}] /\ received' = received
             /\ eth' = IF v = 1 THEN Move(funds, payer, User(d)) ELSE eth
    <3> WITNESS TRUE \in BOOLEAN
    <3> QED  BY <2>2, Zenon
  <2>3. CASE /\ received' = [received EXCEPT ![d] = @ \cup {n}] /\ successful' = successful
             /\ eth' = IF v = 1 THEN Move(funds, payer, Messenger(d)) ELSE eth
    <3> WITNESS FALSE \in BOOLEAN
    <3> QED  BY <2>3, Zenon
  <2> QED  BY <2>1, <2>2, <2>3, Zenon
<1>3. /\ v \in {0, 1}
      /\ ToReplay(Other(d))' = ToReplay(Other(d))
      /\ good => ToReplay(d)' \in Nat /\ ToReplay(d) = ToReplay(d)' + old
      /\ ~ good => ToReplay(d)' = ToReplay(d) + new
      /\ d = L1 => ToPay' \in Nat /\ ToPay = ToPay' + new
      /\ d = L2 => ToPay' = ToPay
      /\ derived' = derived => ToMint' = ToMint
      /\ d = L2 /\ n = derived + 1 /\ derived' = n => ToMint' \in Nat /\ ToMint = ToMint' + v
  BY <1>1, <1>2, RelayCounters, Zenon
<1>4. /\ \A t \in {Pair, Unpaired} : deposits'[t] = Escrow(t)'
      /\ tokens' \in [Domains -> Nat] /\ deposits' \in [{Pair, Unpaired} -> Nat]
  BY RelayEscrow, Zenon
<1>5. /\ successful' \in [Domains -> SUBSET Nat] /\ received' \in [Domains -> SUBSET Nat]
      /\ successful'[d] \cup received'[d] \subseteq successful[d] \cup received[d] \cup {n}
      /\ successful'[Other(d)] = successful[Other(d)] /\ received'[Other(d)] = received[Other(d)]
  <2>1. successful \in [Domains -> SUBSET Nat] /\ received \in [Domains -> SUBSET Nat] /\ n \in Nat
    <3>1. DOMAIN sent[Other(d)] = 1 .. Len(sent[Other(d)])
      BY Numbers, TwoDomains, Zenon
    <3> QED  BY <3>1, RestType, SMTT(60)
  <2>2. \/ successful' = [successful EXCEPT ![d] = @ \cup {n}] /\ received' = received
        \/ received' = [received EXCEPT ![d] = @ \cup {n}] /\ successful' = successful
    BY <1>2, Zenon
  <2>3. d \in Domains /\ Other(d) \in Domains /\ Other(d) # d
    BY TwoDomains, Zenon
  <2> QED  BY <2>1, <2>2, <2>3, SMTT(20)
<1>6. \/ /\ eth' = IF v = 1 THEN Move(funds, payer, User(d)) ELSE eth
         /\ ToReplay(d)' \in Nat /\ ToReplay(d) = ToReplay(d)' + old
      \/ /\ eth' = IF v = 1 THEN Move(funds, payer, Messenger(d)) ELSE eth
         /\ ToReplay(d)' = ToReplay(d) + new
  BY <1>2, <1>3, Zenon
<1> HIDE DEF v
<1> QED  BY <1>1, <1>3, <1>4, <1>5, <1>6, Zenon DEF v

(* by the next deposit, *)
LEMMA DepositKeeps ==
  ASSUME Types, Balances, Deposit
  PROVE  Types' /\ Balances'
<1> DEFINE n == derived + 1
           v == Value(sent[L1][n])
           minted == [eth EXCEPT ![Alias] = @ + v]
<1>1. /\ n \in DOMAIN sent[L1] /\ derived' = n /\ n \in Nat /\ n <= Len(sent[L1])
      /\ UNCHANGED <<paused, outputs, finalized>>
      /\ \/ relayMessage(L2, n, minted, Alias)
         \/ RelayReverts(L2, n) /\ eth' = minted
  <2>1. derived \in Nat /\ Len(sent[L1]) \in Nat
    BY RestType
  <2>2. DOMAIN sent[L1] = 1 .. Len(sent[L1])
    BY Numbers, TwoDomains
  <2>3. /\ n <= Len(sent[L1]) /\ derived' = n
        /\ UNCHANGED <<paused, outputs, finalized>>
        /\ \/ relayMessage(L2, n, minted, Alias)
           \/ RelayReverts(L2, n) /\ eth' = minted
    BY Zenon DEF Deposit
  <2>4. n \in Nat /\ n <= Len(sent[L1]) /\ n \in DOMAIN sent[L1]
    <3>1. n <= Len(sent[L1])
      BY <2>3, Zenon
    <3> QED  BY <2>1, <2>2, <3>1
  <2> QED  BY <2>3, <2>4, Zenon
<1>2. n \notin successful[L2] /\ n \notin received[L2]
  <2>1. derived \in Nat /\ successful[L2] \cup received[L2] \subseteq 1 .. derived
    BY RestType
  <2> QED  BY <2>1
<1>3. v \in {0, 1}
  BY <1>1, Numbers, TwoDomains, MsgKinds, Zenon
<1> HIDE DEF v
<1>4. eth \in [Holders -> Nat] /\ Alias \in Holders
  BY RestType, Accounts
<1>5. /\ minted \in [Holders -> Nat] /\ minted[Alias] = eth[Alias] + v /\ (v = 0 => minted = eth)
      /\ \A h \in Holders \ {Alias} : minted[h] = eth[h]
  BY <1>3, <1>4
<1>6. ToMint \in Nat /\ ToPay \in Nat /\ ToReplay(L1) \in Nat /\ ToReplay(L2) \in Nat
  BY CountersType, TwoDomains
<1>7. /\ finalized \subseteq 1 .. Len(sent[L2]) /\ derived \in Nat /\ Len(sent[L1]) \in Nat
      /\ successful \in [Domains -> SUBSET Nat] /\ received \in [Domains -> SUBSET Nat]
      /\ tokens \in [Domains -> Nat] /\ deposits \in [{Pair, Unpaired} -> Nat]
  BY RestType, Zenon
<1> HIDE DEF minted
<1>8. /\ eth[Portal] \in Nat /\ eth[Alias] \in Nat /\ eth[User(L2)] \in Nat
       /\ eth[Messenger(L1)] \in Nat /\ eth[Messenger(L2)] \in Nat
       /\ ToMint \in Nat /\ ToPay \in Nat
       /\ eth[Portal] = eth[User(L2)] + eth[Messenger(L2)] + eth[Alias] + ToMint + ToPay
       /\ eth[Messenger(L1)] = ToReplay(L1) /\ eth[Messenger(L2)] = ToReplay(L2)
  BY Accounted, Zenon
<1>9. CASE relayMessage(L2, n, minted, Alias)
  <2>1. Value(sent[Other(L2)][n]) = 0 => minted = eth
    BY <1>5, TwoDomains DEF v
  <2>2. /\ Sends /\ \A t \in {Pair, Unpaired} : deposits'[t] = Escrow(t)'
        /\ tokens' \in [Domains -> Nat] /\ deposits' \in [{Pair, Unpaired} -> Nat]
        /\ successful' \in [Domains -> SUBSET Nat] /\ received' \in [Domains -> SUBSET Nat]
        /\ successful'[L2] \cup received'[L2] \subseteq successful[L2] \cup received[L2] \cup {n}
        /\ successful'[L1] = successful[L1] /\ received'[L1] = received[L1]
    BY <1>1, <1>9, <2>1, RelayStep, TwoDomains, Zenon
  <2>3. /\ ToReplay(L1)' = ToReplay(L1) /\ ToPay' = ToPay
        /\ ToMint' \in Nat /\ ToMint = ToMint' + v
        /\ \/ /\ eth' = IF v = 1 THEN Move(minted, Alias, User(L2)) ELSE eth
              /\ ToReplay(L2)' \in Nat
              /\ ToReplay(L2) = ToReplay(L2)' + IF n \in received[L2] THEN v ELSE 0
           \/ /\ eth' = IF v = 1 THEN Move(minted, Alias, Messenger(L2)) ELSE eth
              /\ ToReplay(L2)' = ToReplay(L2) + IF n \in received[L2] THEN 0 ELSE v
    <3>1. L2 \in Domains /\ n \in DOMAIN sent[Other(L2)] /\ v = Value(sent[Other(L2)][n])
      BY <1>1, TwoDomains, Zenon DEF v
    <3>2. ToReplay(Other(L2))' = ToReplay(Other(L2)) /\ ToPay' = ToPay
      BY <1>9, <2>1, <3>1, RelayStep, Zenon
    <3>3. ToMint' \in Nat /\ ToMint = ToMint' + v
      BY <1>1, <1>9, <2>1, <3>1, RelayStep, Zenon
    <3>4. \/ /\ eth' = IF v = 1 THEN Move(minted, Alias, User(L2)) ELSE eth
             /\ ToReplay(L2)' \in Nat
             /\ ToReplay(L2) = ToReplay(L2)' + IF n \in received[L2] THEN v ELSE 0
          \/ /\ eth' = IF v = 1 THEN Move(minted, Alias, Messenger(L2)) ELSE eth
             /\ ToReplay(L2)' = ToReplay(L2) + IF n \in received[L2] THEN 0 ELSE v
      <4> DEFINE w == Value(sent[Other(L2)][n])
      <4>1. \/ /\ eth' = IF w = 1 THEN Move(minted, Alias, User(L2)) ELSE eth
               /\ ToReplay(L2)' \in Nat
               /\ ToReplay(L2) = ToReplay(L2)' + IF n \in received[L2] THEN w ELSE 0
            \/ /\ eth' = IF w = 1 THEN Move(minted, Alias, Messenger(L2)) ELSE eth
               /\ ToReplay(L2)' = ToReplay(L2) + IF n \in received[L2] THEN 0 ELSE w
        BY <1>9, <2>1, <3>1, RelayStep, Zenon
      <4>2. v = w
        BY <3>1, Zenon
      <4> HIDE DEF w
      <4> QED  BY <4>1, <4>2, Zenon
    <3>5. ToReplay(L1)' = ToReplay(L1)
      <4>1. Other(L2) = L1
        BY TwoDomains
      <4> QED  BY <3>2, <4>1, Zenon DEF ToReplay
    <3> QED  BY <3>2, <3>3, <3>4, <3>5, Zenon
  <2>4. ASSUME NEW to \in {User(L2), Messenger(L2)},
               eth' = IF v = 1 THEN Move(minted, Alias, to) ELSE eth
        PROVE  /\ eth' \in [Holders -> Nat] /\ eth'[to] = eth[to] + v
               /\ \A h \in Holders \ {to} : eth'[h] = eth[h]
    <3>1. to \in Holders /\ to # Alias
      BY Accounts, TwoDomains, Zenon
    <3>2. CASE v = 1
      BY <1>4, <1>5, <2>4, <3>1, <3>2, Moved, SMTT(30)
    <3>3. CASE v = 0
      BY <1>4, <2>4, <3>1, <3>3
    <3> QED  BY <1>3, <3>2, <3>3
  <2>5. eth' \in [Holders -> Nat]
    BY <2>3, <2>4
  <2>6. Marks(L2, {n})
    BY <1>1, <1>7, <2>2, TwoDomains, SMTT(20) DEF Marks
  <2>7. Types'
    BY <1>1, <2>2, <2>5, <2>6, TypesKept, TwoDomains, Zenon
  <2>8. CASE /\ eth' = IF v = 1 THEN Move(minted, Alias, User(L2)) ELSE eth
             /\ ToReplay(L2)' \in Nat
             /\ ToReplay(L2) = ToReplay(L2)' + IF n \in received[L2] THEN v ELSE 0
    <3>1. ToReplay(L2)' = ToReplay(L2)
      BY <1>2, <2>8
    <3>2. /\ eth'[User(L2)] = eth[User(L2)] + v /\ eth'[Portal] = eth[Portal]
          /\ eth'[Alias] = eth[Alias] /\ eth'[Messenger(L1)] = eth[Messenger(L1)]
          /\ eth'[Messenger(L2)] = eth[Messenger(L2)]
      BY <2>4, <2>8, Accounts, TwoDomains, Zenon
    <3>3. ToMint' \in Nat /\ ToMint = ToMint' + v /\ ToPay' = ToPay /\ ToReplay(L1)' = ToReplay(L1)
      BY <2>3, Zenon
    <3>4. eth'[Portal] = eth'[User(L2)] + eth'[Messenger(L2)] + eth'[Alias] + ToMint' + ToPay'
      BY <1>3, <1>8, <3>2, <3>3, SMTT(30)
    <3>5. eth'[Messenger(L1)] = ToReplay(L1)' /\ eth'[Messenger(L2)] = ToReplay(L2)'
      BY <1>8, <3>1, <3>2, <3>3, Zenon
    <3> QED  BY <2>2, <2>7, <3>4, <3>5, Rebalanced, Zenon
  <2>9. CASE /\ eth' = IF v = 1 THEN Move(minted, Alias, Messenger(L2)) ELSE eth
             /\ ToReplay(L2)' = ToReplay(L2) + IF n \in received[L2] THEN 0 ELSE v
    <3>1. ToReplay(L2)' = ToReplay(L2) + v
      BY <1>2, <2>9, Zenon
    <3>2. /\ eth'[User(L2)] = eth[User(L2)] /\ eth'[Portal] = eth[Portal]
          /\ eth'[Alias] = eth[Alias] /\ eth'[Messenger(L1)] = eth[Messenger(L1)]
          /\ eth'[Messenger(L2)] = eth[Messenger(L2)] + v
      BY <2>4, <2>9, Accounts, TwoDomains, Zenon
    <3>3. ToMint' \in Nat /\ ToMint = ToMint' + v /\ ToPay' = ToPay /\ ToReplay(L1)' = ToReplay(L1)
      BY <2>3, Zenon
    <3>4. eth'[Portal] = eth'[User(L2)] + eth'[Messenger(L2)] + eth'[Alias] + ToMint' + ToPay'
      BY <1>3, <1>8, <3>2, <3>3, SMTT(30)
    <3>5. eth'[Messenger(L1)] = ToReplay(L1)' /\ eth'[Messenger(L2)] = ToReplay(L2)'
      BY <1>8, <3>1, <3>2, <3>3, Zenon
    <3> QED  BY <2>2, <2>7, <3>4, <3>5, Rebalanced, Zenon
  <2> QED  BY <2>3, <2>8, <2>9, Zenon
<1>10. CASE RelayReverts(L2, n) /\ eth' = minted
  <2>1. UNCHANGED <<sent, successful, received, tokens, deposits>>
    BY <1>10 DEF RelayReverts, messenger, bridge
  <2>2. \A t : Escrow(t)' = Escrow(t)
    BY <2>1 DEF Escrow
  <2>3. ToPay' = ToPay /\ \A d : ToReplay(d)' = ToReplay(d)
    BY <2>1 DEF ToPay, ToReplay
  <2>4. ToMint' \in Nat /\ ToMint = ToMint' + v
    <3>1. ToMint' = WorthOf(sent[L1], n + 1 .. Len(sent[L1]))
      BY <1>1, <2>1, Zenon DEF ToMint
    <3>2. L2 \in Domains /\ Other(L2) = L1 /\ n \in DOMAIN sent[Other(L2)] /\ n \notin successful[L2]
      BY <1>1, <1>2, TwoDomains, Zenon
    <3>3. /\ WorthOf(sent[Other(L2)], n + 1 .. Len(sent[Other(L2)])) \in Nat
          /\ ToMint = WorthOf(sent[Other(L2)], n + 1 .. Len(sent[Other(L2)]))
                        + Value(sent[Other(L2)][n])
      BY <3>2, Relay, Zenon
    <3> QED  BY <3>1, <3>2, <3>3 DEF v
  <2>5. /\ eth'[Alias] = eth[Alias] + v /\ eth'[Portal] = eth[Portal]
        /\ eth'[User(L2)] = eth[User(L2)] /\ eth'[Messenger(L1)] = eth[Messenger(L1)]
        /\ eth'[Messenger(L2)] = eth[Messenger(L2)]
    BY <1>5, <1>10, Accounts, TwoDomains, Zenon
  <2>6. Marks(L2, {})
    <3>1. derived' \in Nat /\ derived <= derived' /\ derived' <= Len(sent[L1])
      BY <1>1, <1>7
    <3>2. finalized \subseteq finalized' /\ finalized' \subseteq 1 .. Len(sent[L2])
      BY <1>1, <1>7, Zenon
    <3> QED  BY <1>7, <2>1, <3>1, <3>2, TwoDomains, Zenon DEF Marks
  <2>7. Types'
    BY <1>1, <1>5, <1>7, <1>10, <2>1, <2>6, NoSend, TypesKept, TwoDomains, Zenon
  <2>8. eth'[Portal] = eth'[User(L2)] + eth'[Messenger(L2)] + eth'[Alias] + ToMint' + ToPay'
    <3>1. ToPay' = ToPay
      BY <2>3, Zenon
    <3> QED  BY <1>3, <1>8, <2>4, <2>5, <3>1, SMTT(30)
  <2>9. eth'[Messenger(L1)] = ToReplay(L1)' /\ eth'[Messenger(L2)] = ToReplay(L2)'
    BY <1>8, <2>3, <2>5, Zenon
  <2>10. \A t \in {Pair, Unpaired} : deposits'[t] = Escrow(t)'
    BY <2>1, <2>2, Zenon DEF Balances
  <2> QED  BY <2>7, <2>8, <2>9, <2>10, Rebalanced, Zenon
<1> QED  BY <1>1, <1>9, <1>10, Zenon

(* by a withdrawal that is finalized, *)
LEMMA FinalizeKeeps ==
  ASSUME Types, Balances, finalizeWithdrawalTransaction
  PROVE  Types' /\ Balances'
<1>1. PICK n :
        /\ n \in 1 .. Len(sent[L2]) /\ n \notin finalized /\ Finalize(n)
        /\ relayMessage(L1, n, eth, Portal) \/ (RelayReverts(L1, n) /\ UNCHANGED eth)
        /\ UNCHANGED <<paused, derived, outputs>>
  BY Zenon DEF finalizeWithdrawalTransaction
<1> DEFINE v == Value(sent[L2][n])
<1>2. n \in DOMAIN sent[L2] /\ v \in {0, 1}
  BY <1>1, Numbers, TwoDomains, MsgKinds, Zenon
<1> HIDE DEF v
<1>3. /\ finalized \subseteq 1 .. Len(sent[L2]) /\ derived \in Nat /\ derived <= Len(sent[L1])
      /\ successful \in [Domains -> SUBSET Nat] /\ received \in [Domains -> SUBSET Nat]
      /\ tokens \in [Domains -> Nat] /\ deposits \in [{Pair, Unpaired} -> Nat]
      /\ eth \in [Holders -> Nat] /\ successful[L1] \cup received[L1] \subseteq finalized
  BY RestType, Zenon
<1>4. n \notin successful[L1] /\ n \notin received[L1]
  BY <1>1, <1>3
<1>5. ToMint \in Nat /\ ToPay \in Nat /\ ToReplay(L1) \in Nat /\ ToReplay(L2) \in Nat
  BY CountersType, TwoDomains
<1>6. finalized' = finalized \cup {n}
  BY <1>1 DEF Finalize
<1>7. /\ eth[Portal] \in Nat /\ eth[Alias] \in Nat /\ eth[User(L2)] \in Nat
      /\ eth[Messenger(L1)] \in Nat /\ eth[Messenger(L2)] \in Nat /\ eth \in [Holders -> Nat]
  BY <1>3, EthNumbers, TwoDomains, Zenon
<1>8. CASE relayMessage(L1, n, eth, Portal)
  <2>1. /\ L1 \in Domains /\ n \in DOMAIN sent[Other(L1)] /\ v = Value(sent[Other(L1)][n])
    BY <1>2, TwoDomains DEF v
  <2>2. /\ Sends /\ \A t \in {Pair, Unpaired} : deposits'[t] = Escrow(t)'
        /\ tokens' \in [Domains -> Nat] /\ deposits' \in [{Pair, Unpaired} -> Nat]
        /\ successful' \in [Domains -> SUBSET Nat] /\ received' \in [Domains -> SUBSET Nat]
        /\ successful'[L1] \cup received'[L1] \subseteq successful[L1] \cup received[L1] \cup {n}
        /\ successful'[L2] = successful[L2] /\ received'[L2] = received[L2]
    BY <1>8, <2>1, RelayStep, TwoDomains, Zenon
  <2>3. ToReplay(L2)' = ToReplay(L2) /\ ToMint' = ToMint
    <3>1. ToReplay(Other(L1))' = ToReplay(Other(L1)) /\ ToMint' = ToMint
      BY <1>1, <1>8, <2>1, RelayStep, Zenon
    <3>2. Other(L1) = L2
      BY TwoDomains
    <3> QED  BY <3>1, <3>2, Zenon DEF ToReplay
  <2>4. ToPay' \in Nat /\ ToPay = ToPay' + v
    <3>1. ToPay' \in Nat /\ ToPay = ToPay' + IF n \in received[L1] THEN 0 ELSE v
      BY <1>8, <2>1, RelayStep, Zenon
    <3> QED  BY <1>4, <3>1
  <2>5. \/ /\ eth' = IF v = 1 THEN Move(eth, Portal, User(L1)) ELSE eth
           /\ ToReplay(L1)' = ToReplay(L1)
        \/ /\ eth' = IF v = 1 THEN Move(eth, Portal, Messenger(L1)) ELSE eth
           /\ ToReplay(L1)' = ToReplay(L1) + v
    <3>1. \/ /\ eth' = IF v = 1 THEN Move(eth, Portal, User(L1)) ELSE eth
             /\ ToReplay(L1)' \in Nat
             /\ ToReplay(L1) = ToReplay(L1)' + IF n \in received[L1] THEN v ELSE 0
          \/ /\ eth' = IF v = 1 THEN Move(eth, Portal, Messenger(L1)) ELSE eth
             /\ ToReplay(L1)' = ToReplay(L1) + IF n \in received[L1] THEN 0 ELSE v
      <4> DEFINE w == Value(sent[Other(L1)][n])
      <4>1. \/ /\ eth' = IF w = 1 THEN Move(eth, Portal, User(L1)) ELSE eth
               /\ ToReplay(L1)' \in Nat
               /\ ToReplay(L1) = ToReplay(L1)' + IF n \in received[L1] THEN w ELSE 0
            \/ /\ eth' = IF w = 1 THEN Move(eth, Portal, Messenger(L1)) ELSE eth
               /\ ToReplay(L1)' = ToReplay(L1) + IF n \in received[L1] THEN 0 ELSE w
        BY <1>8, <2>1, RelayStep, Zenon
      <4>2. v = w
        BY <2>1, Zenon
      <4> HIDE DEF w
      <4> QED  BY <4>1, <4>2, Zenon
    <3>2. CASE /\ eth' = IF v = 1 THEN Move(eth, Portal, User(L1)) ELSE eth
               /\ ToReplay(L1)' \in Nat /\ ToReplay(L1) = ToReplay(L1)' + 0
      BY <3>2, SMTT(30)
    <3>3. CASE /\ eth' = IF v = 1 THEN Move(eth, Portal, Messenger(L1)) ELSE eth
               /\ ToReplay(L1)' = ToReplay(L1) + v
      BY <3>3, Zenon
    <3> QED  BY <1>4, <3>1, <3>2, <3>3, Zenon
  <2>6. v = 1 => eth[Portal] > 0
    <3>1. eth[Portal] = eth[User(L2)] + eth[Messenger(L2)] + eth[Alias] + ToMint + ToPay
      BY DEF Balances
    <3>2. v = 1 => ToPay > 0
      BY <2>4
    <3> QED  BY <1>5, <1>7, <3>1, <3>2
  <2>7. ASSUME NEW to \in {User(L1), Messenger(L1)},
               eth' = IF v = 1 THEN Move(eth, Portal, to) ELSE eth
        PROVE  /\ eth' \in [Holders -> Nat]
               /\ eth'[to] = eth[to] + v /\ eth'[Portal] = eth[Portal] - v
               /\ \A h \in Holders \ {Portal, to} : eth'[h] = eth[h]
    <3>1. to \in Holders /\ Portal \in Holders /\ to # Portal
      BY Accounts, TwoDomains, Zenon
    <3>2. CASE v = 1
      BY <1>7, <2>6, <2>7, <3>1, <3>2, Moved
    <3>3. CASE v = 0
      BY <1>7, <2>7, <3>1, <3>3
    <3> QED  BY <1>2, <3>2, <3>3, Zenon
  <2>8. eth' \in [Holders -> Nat]
    BY <2>5, <2>7
  <2>9. Marks(L1, {n})
    <3>1. /\ derived' \in Nat /\ derived <= derived' /\ derived' <= Len(sent[L1])
          /\ finalized \subseteq finalized' /\ finalized' \subseteq 1 .. Len(sent[L2])
          /\ {n} \subseteq finalized'
      <4>1. derived' \in Nat /\ derived <= derived' /\ derived' <= Len(sent[L1])
        BY <1>1, <1>3
      <4> QED  BY <1>1, <1>3, <1>6, <4>1, Zenon
    <3> QED  BY <2>2, <3>1, TwoDomains, Zenon DEF Marks
  <2>10. Types'
    BY <1>1, <2>2, <2>8, <2>9, TypesKept, TwoDomains, Zenon
  <2>11. CASE /\ eth' = IF v = 1 THEN Move(eth, Portal, User(L1)) ELSE eth
              /\ ToReplay(L1)' = ToReplay(L1)
    <3>1. /\ eth'[User(L2)] = eth[User(L2)] /\ eth'[Portal] = eth[Portal] - v
          /\ eth'[Alias] = eth[Alias] /\ eth'[Messenger(L1)] = eth[Messenger(L1)]
          /\ eth'[Messenger(L2)] = eth[Messenger(L2)]
      BY <2>7, <2>11, Accounts, TwoDomains, Zenon
    <3>2. eth'[Portal] = eth'[User(L2)] + eth'[Messenger(L2)] + eth'[Alias] + ToMint' + ToPay'
      BY <1>2, <1>5, <1>7, <2>3, <2>4, <3>1, SMTT(30) DEF Balances
    <3>3. \A d \in Domains : eth'[Messenger(d)] = ToReplay(d)'
      BY <2>3, <2>11, <3>1, TwoDomains, Zenon DEF Balances
    <3> QED  BY <2>2, <2>10, <3>2, <3>3, Zenon DEF Balances
  <2>12. CASE /\ eth' = IF v = 1 THEN Move(eth, Portal, Messenger(L1)) ELSE eth
              /\ ToReplay(L1)' = ToReplay(L1) + v
    <3>1. /\ eth'[User(L2)] = eth[User(L2)] /\ eth'[Portal] = eth[Portal] - v
          /\ eth'[Alias] = eth[Alias] /\ eth'[Messenger(L1)] = eth[Messenger(L1)] + v
          /\ eth'[Messenger(L2)] = eth[Messenger(L2)]
      BY <2>7, <2>12, Accounts, TwoDomains, Zenon
    <3>2. eth'[Portal] = eth'[User(L2)] + eth'[Messenger(L2)] + eth'[Alias] + ToMint' + ToPay'
      BY <1>2, <1>5, <1>7, <2>3, <2>4, <3>1, SMTT(30) DEF Balances
    <3>3. \A d \in Domains : eth'[Messenger(d)] = ToReplay(d)'
      BY <2>3, <2>12, <3>1, TwoDomains, Zenon DEF Balances
    <3> QED  BY <2>2, <2>10, <3>2, <3>3, Zenon DEF Balances
  <2> QED  BY <2>5, <2>11, <2>12, Zenon
<1>9. CASE RelayReverts(L1, n) /\ UNCHANGED eth
  <2>1. UNCHANGED <<sent, successful, received, tokens, deposits, eth, derived>>
    BY <1>1, <1>9, Zenon DEF RelayReverts, messenger, bridge
  <2>2. (\A t : Escrow(t)' = Escrow(t)) /\ ToMint' = ToMint /\ ToPay' = ToPay
        /\ \A d : ToReplay(d)' = ToReplay(d)
    BY <2>1, Zenon DEF Escrow, ToMint, ToPay, ToReplay
  <2>3. Marks(L1, {})
    <3>1. derived' \in Nat /\ derived <= derived' /\ derived' <= Len(sent[L1])
      BY <1>3, <2>1
    <3>2. finalized \subseteq finalized' /\ finalized' \subseteq 1 .. Len(sent[L2])
      BY <1>1, <1>3, <1>6, Zenon
    <3> QED  BY <1>3, <2>1, <3>1, <3>2, TwoDomains, Zenon DEF Marks
  <2>4. Types'
    BY <1>1, <1>3, <2>1, <2>3, NoSend, TypesKept, TwoDomains, Zenon
  <2> QED  BY <2>1, <2>2, <2>4, Zenon DEF Balances
<1> QED  BY <1>1, <1>8, <1>9, Zenon

(* by a message that is replayed, *)
LEMMA ReplayKeeps ==
  ASSUME Types, Balances, NEW d \in Domains, Replay(d)
  PROVE  Types' /\ Balances'
<1>1. PICK n \in received[d] : relayMessage(d, n, eth, Messenger(d))
  BY Zenon DEF Replay
<1>2. UNCHANGED <<paused, derived, outputs, finalized>>
  BY Zenon DEF Replay
<1> DEFINE v == Value(sent[Other(d)][n])
<1>3. n \in DOMAIN sent[Other(d)] /\ v \in {0, 1}
  BY <1>1, Numbers, TwoDomains, MsgKinds, Zenon
<1> HIDE DEF v
<1>4. /\ finalized \subseteq 1 .. Len(sent[L2]) /\ derived \in Nat /\ derived <= Len(sent[L1])
      /\ eth \in [Holders -> Nat]
      /\ received[L1] \subseteq finalized /\ received[L2] \subseteq 1 .. derived
  BY RestType, Zenon
<1>5. ToMint \in Nat /\ ToPay \in Nat /\ ToReplay(L1) \in Nat /\ ToReplay(L2) \in Nat
  BY CountersType, TwoDomains, Zenon
<1>6. /\ Sends /\ \A t \in {Pair, Unpaired} : deposits'[t] = Escrow(t)'
      /\ tokens' \in [Domains -> Nat] /\ deposits' \in [{Pair, Unpaired} -> Nat]
      /\ successful' \in [Domains -> SUBSET Nat] /\ received' \in [Domains -> SUBSET Nat]
      /\ successful'[d] \cup received'[d] \subseteq successful[d] \cup received[d] \cup {n}
      /\ successful'[Other(d)] = successful[Other(d)] /\ received'[Other(d)] = received[Other(d)]
      /\ ToReplay(Other(d))' = ToReplay(Other(d)) /\ ToMint' = ToMint
  BY <1>1, <1>2, <1>3, RelayStep, Zenon
<1>7. ToPay' = ToPay
  <2>1. CASE d = L1
    <3>1. ToPay' \in Nat /\ ToPay = ToPay' + IF n \in received[d] THEN 0 ELSE v
      BY <1>1, <1>3, <2>1, RelayStep, Zenon DEF v
    <3> QED  BY <1>1, <3>1
  <2>2. CASE d = L2
    BY <1>1, <1>3, <2>2, RelayStep, Zenon
  <2> QED  BY <2>1, <2>2, TwoDomains
<1>8. \/ /\ eth' = IF v = 1 THEN Move(eth, Messenger(d), User(d)) ELSE eth
         /\ ToReplay(d)' \in Nat /\ ToReplay(d) = ToReplay(d)' + v
      \/ /\ eth' = IF v = 1 THEN Move(eth, Messenger(d), Messenger(d)) ELSE eth
         /\ ToReplay(d)' = ToReplay(d)
  <2>1. \/ /\ eth' = IF v = 1 THEN Move(eth, Messenger(d), User(d)) ELSE eth
           /\ ToReplay(d)' \in Nat
           /\ ToReplay(d) = ToReplay(d)' + IF n \in received[d] THEN v ELSE 0
        \/ /\ eth' = IF v = 1 THEN Move(eth, Messenger(d), Messenger(d)) ELSE eth
           /\ ToReplay(d)' = ToReplay(d) + IF n \in received[d] THEN 0 ELSE v
    BY <1>1, <1>3, RelayStep, Zenon DEF v
  <2>2. ToReplay(d) \in Nat
    BY <1>5, TwoDomains, Zenon
  <2> QED  BY <1>1, <2>1, <2>2, SMTT(60)
<1>9. Marks(d, {n})
  <2>1. /\ derived' \in Nat /\ derived <= derived' /\ derived' <= Len(sent[L1])
        /\ finalized \subseteq finalized' /\ finalized' \subseteq 1 .. Len(sent[L2])
    BY <1>2, <1>4
  <2>2. (d = L1 => {n} \subseteq finalized') /\ (d = L2 => {n} \subseteq 1 .. derived')
    BY <1>1, <1>2, <1>4
  <2> QED  BY <1>6, <2>1, <2>2, Zenon DEF Marks
<1>10. eth' \in [Holders -> Nat] => Types'
  BY <1>2, <1>6, <1>9, TypesKept, Zenon
<1>11. eth[Messenger(d)] = ToReplay(d) /\ eth[Messenger(Other(d))] = ToReplay(Other(d))
  BY TwoDomains, Zenon DEF Balances
<1>12. /\ eth[Portal] \in Nat /\ eth[Alias] \in Nat /\ eth[User(L2)] \in Nat
       /\ eth[Messenger(L1)] \in Nat /\ eth[Messenger(L2)] \in Nat /\ eth \in [Holders -> Nat]
  BY <1>4, EthNumbers, TwoDomains, Zenon
<1>13. CASE /\ eth' = IF v = 1 THEN Move(eth, Messenger(d), User(d)) ELSE eth
            /\ ToReplay(d)' \in Nat /\ ToReplay(d) = ToReplay(d)' + v
  <2>1. Messenger(d) \in Holders /\ User(d) \in Holders /\ Messenger(d) # User(d)
    BY Accounts, TwoDomains, Zenon
  <2>2. /\ eth' \in [Holders -> Nat]
        /\ eth'[User(d)] = eth[User(d)] + v /\ eth'[Messenger(d)] = eth[Messenger(d)] - v
        /\ \A h \in Holders \ {Messenger(d), User(d)} : eth'[h] = eth[h]
    <3>1. CASE v = 1
      <4>1. eth[Messenger(d)] > 0
        BY <1>11, <1>13, <3>1
      <4> QED  BY <1>13, <1>12, <2>1, <3>1, <4>1, Moved, SMTT(30)
    <3>2. CASE v = 0
      BY <1>13, <1>12, <2>1, <3>2
    <3> QED  BY <1>3, <3>1, <3>2, Zenon
  <2>3. eth'[Messenger(d)] = ToReplay(d)'
    BY <1>3, <1>11, <1>13, <2>2
  <2>4. eth'[Messenger(Other(d))] = ToReplay(Other(d))'
    BY <1>6, <1>11, <2>2, Accounts, TwoDomains, Zenon
  <2>5. \A e \in Domains : eth'[Messenger(e)] = ToReplay(e)'
    BY <2>3, <2>4, TwoDomains, Zenon DEF ToReplay
  <2>6. /\ eth'[Portal] = eth[Portal] /\ eth'[Alias] = eth[Alias]
        /\ eth'[User(L2)] + eth'[Messenger(L2)] = eth[User(L2)] + eth[Messenger(L2)]
    <3>1. CASE d = L2
      <4>1. eth'[Portal] = eth[Portal] /\ eth'[Alias] = eth[Alias]
        BY <2>2, <3>1, Accounts, TwoDomains, Zenon
      <4>2. eth'[User(L2)] = eth[User(L2)] + v /\ eth'[Messenger(L2)] = eth[Messenger(L2)] - v
        BY <2>2, <3>1, Zenon
      <4> QED  BY <1>3, <1>12, <4>1, <4>2
    <3>2. CASE d = L1
      BY <2>2, <3>2, Accounts, TwoDomains, Zenon
    <3> QED  BY <3>1, <3>2, TwoDomains, Zenon
  <2> QED  BY <1>5, <1>6, <1>7, <1>10, <1>12, <2>2, <2>5, <2>6, Zenon DEF Balances
<1>14. CASE /\ eth' = IF v = 1 THEN Move(eth, Messenger(d), Messenger(d)) ELSE eth
            /\ ToReplay(d)' = ToReplay(d)
  <2>1. eth' = eth
    <3>1. Messenger(d) \in Holders
      BY Accounts, TwoDomains
    <3>2. Move(eth, Messenger(d), Messenger(d)) = eth
      BY <3>1, EthNumbers
    <3> QED  BY <1>14, <3>2, Zenon
  <2>2. \A e \in Domains : ToReplay(e)' = ToReplay(e)
    BY <1>6, <1>14, TwoDomains, Zenon DEF ToReplay
  <2> QED  BY <1>4, <1>6, <1>7, <1>10, <2>1, <2>2, Zenon DEF Balances
<1> QED  BY <1>8, <1>13, <1>14, Zenon

(* Steps that only change the outputs, the pauses or the burnt ETH. *)
Quiet ==
  /\ UNCHANGED <<messenger, derived, finalized, bridge>>
  /\ outputs' \in Seq(OutputRecords)
  /\ \A i \in DOMAIN outputs' : outputs'[i].withdrawals \in 1 .. Len(sent[L2])
  /\ paused' \subseteq Domains /\ eth' \in [Holders -> Nat]
  /\ \A h \in Holders \ {Passer} : eth'[h] = eth[h]

(* They keep the types and the balances, too. *)
LEMMA QuietKeeps ==
  ASSUME Types, Balances, Quiet
  PROVE  Types' /\ Balances'
<1>1. UNCHANGED <<sent, successful, received, tokens, deposits, derived>>
  BY DEF Quiet, messenger, bridge
<1>2. (\A t : Escrow(t)' = Escrow(t)) /\ ToMint' = ToMint /\ ToPay' = ToPay
      /\ \A d : ToReplay(d)' = ToReplay(d)
  BY <1>1, Zenon DEF Escrow, ToMint, ToPay, ToReplay
<1>3. Types'
  BY <1>1, Zenon DEF Quiet, Types, TypeOK
<1>4. /\ eth'[Portal] = eth[Portal] /\ eth'[Alias] = eth[Alias] /\ eth'[User(L2)] = eth[User(L2)]
      /\ \A d \in Domains : eth'[Messenger(d)] = eth[Messenger(d)]
  BY Accounts, TwoDomains, Zenon DEF Quiet
<1>5. eth'[Portal] = eth'[User(L2)] + eth'[Messenger(L2)] + eth'[Alias] + ToMint' + ToPay'
  BY <1>2, <1>4, TwoDomains, Zenon DEF Balances
<1>6. \A t \in {Pair, Unpaired} : deposits'[t] = Escrow(t)'
  BY <1>1, <1>2 DEF Balances
<1>7. \A d \in Domains : eth'[Messenger(d)] = ToReplay(d)'
  BY <1>2, <1>4 DEF Balances
<1> QED  BY <1>3, <1>5, <1>6, <1>7 DEF Balances

(* A proposed output, *)
LEMMA ProposeKeeps ==
  ASSUME Types, Balances, Propose
  PROVE  Types' /\ Balances'
<1> DEFINE new == [withdrawals |-> Len(sent[L2]), age |-> 0]
<1>1. /\ outputs \in Seq(OutputRecords) /\ Len(sent[L2]) \in Nat
      /\ \A i \in DOMAIN outputs : outputs[i].withdrawals \in 1 .. Len(sent[L2])
      /\ eth \in [Holders -> Nat] /\ paused \subseteq Domains
  BY RestType
<1>2. outputs' = Append(outputs, new) /\ UNCHANGED <<messenger, paused, derived, finalized, eth, bridge>>
  BY DEF Propose
<1>3. Len(sent[L2]) > 0
  <2>1. CASE outputs = <<>>
    BY <2>1 DEF Propose
  <2>2. CASE outputs # <<>>
    <3>1. Len(outputs) \in DOMAIN outputs
      BY <1>1, <2>2, SeqLen, SeqEmpty
    <3> QED  BY <1>1, <3>1
  <2> QED  BY <2>1, <2>2
<1>4. new \in OutputRecords /\ new.withdrawals \in 1 .. Len(sent[L2])
  BY <1>1, <1>3 DEF OutputRecords
<1> HIDE DEF new
<1>5. /\ Append(outputs, new) \in Seq(OutputRecords) /\ Len(outputs) \in Nat
      /\ DOMAIN outputs = 1 .. Len(outputs) /\ DOMAIN Append(outputs, new) = 1 .. Len(outputs) + 1
      /\ Append(outputs, new)[Len(outputs) + 1] = new
      /\ \A i \in 1 .. Len(outputs) : Append(outputs, new)[i] = outputs[i]
  BY <1>1, <1>4, SeqAppend, SeqLen
<1>6. \A i \in DOMAIN outputs' : outputs'[i].withdrawals \in 1 .. Len(sent[L2])
  <2>1. ASSUME NEW i \in 1 .. Len(outputs) + 1
        PROVE  Append(outputs, new)[i].withdrawals \in 1 .. Len(sent[L2])
    <3>1. i \in 1 .. Len(outputs) \/ i = Len(outputs) + 1
      BY <1>5
    <3> QED  BY <1>1, <1>4, <1>5, <3>1, Zenon
  <2> QED  BY <1>2, <1>5, <2>1
<1> QED  BY <1>1, <1>2, <1>5, <1>6, QuietKeeps DEF Quiet

(* outputs that get older, *)
LEMMA TickKeeps ==
  ASSUME Types, Balances, Tick
  PROVE  Types' /\ Balances'
<1>1. /\ outputs \in Seq(OutputRecords)
      /\ \A i \in DOMAIN outputs : outputs[i].withdrawals \in 1 .. Len(sent[L2])
      /\ eth \in [Holders -> Nat] /\ paused \subseteq Domains
  BY RestType
<1>2. /\ outputs' = [i \in DOMAIN outputs |->
                      [outputs[i] EXCEPT !.age = Min({@ + 1, FINALIZATION_PERIOD + 1})]]
      /\ UNCHANGED <<messenger, paused, derived, finalized, eth, bridge>>
  BY DEF Tick
<1>3. ASSUME NEW a \in Nat, NEW b \in Nat  PROVE Min({a, b}) \in Nat
  <2>1. \E x \in {a, b} : \A y \in {a, b} : x <= y
    OBVIOUS
  <2> QED  BY <2>1 DEF Min
<1>4. ASSUME NEW i \in DOMAIN outputs
      PROVE  /\ outputs'[i] \in OutputRecords
             /\ outputs'[i].withdrawals = outputs[i].withdrawals
  <2>1. outputs[i] \in OutputRecords
    BY <1>1, SeqElement, SeqLen
  <2>2. Min({outputs[i].age + 1, FINALIZATION_PERIOD + 1}) \in Nat
    BY <1>3, <2>1 DEF CrossDomainAssumption, OutputRecords
  <2> QED  BY <1>2, <2>1, <2>2 DEF OutputRecords
<1>5. outputs' \in Seq(OutputRecords) /\ DOMAIN outputs' = DOMAIN outputs
  <2>1. DOMAIN outputs = 1 .. Len(outputs) /\ Len(outputs) \in Nat
    BY <1>1, SeqLen
  <2>2. outputs' \in [1 .. Len(outputs) -> OutputRecords]
    BY <1>2, <1>4, <2>1, Zenon
  <2>3. outputs' \in Seq(OutputRecords)
    BY <2>1, <2>2, SeqFunctions
  <2> QED  BY <2>1, <2>2, <2>3
<1>6. \A i \in DOMAIN outputs' : outputs'[i].withdrawals \in 1 .. Len(sent[L2])
  BY <1>1, <1>4, <1>5
<1> QED  BY <1>1, <1>2, <1>5, <1>6, QuietKeeps, Zenon DEF Quiet

(* and outputs that the owner deletes move no funds. *)
LEMMA DeleteKeeps ==
  ASSUME Types, Balances, deleteL2Output
  PROVE  Types' /\ Balances'
<1>1. /\ outputs \in Seq(OutputRecords)
      /\ \A i \in DOMAIN outputs : outputs[i].withdrawals \in 1 .. Len(sent[L2])
      /\ eth \in [Holders -> Nat] /\ paused \subseteq Domains
  BY RestType
<1>2. /\ outputs # <<>> /\ outputs' = SubSeq(outputs, 1, Len(outputs) - 1)
      /\ UNCHANGED <<messenger, paused, derived, finalized, eth, bridge>>
  BY DEF deleteL2Output
<1>3. /\ DOMAIN outputs = 1 .. Len(outputs) /\ Len(outputs) \in Nat /\ Len(outputs) > 0
  BY <1>1, <1>2, SeqLen, SeqEmpty
<1>4. /\ outputs' \in Seq(OutputRecords)
      /\ \A i \in DOMAIN outputs' : i \in DOMAIN outputs /\ outputs'[i] = outputs[i]
  <2>1. PICK k : k = Len(outputs) - 1
    OBVIOUS
  <2>2. k \in Nat /\ k < Len(outputs) /\ outputs' = SubSeq(outputs, 1, k)
    BY <1>2, <1>3, <2>1
  <2>3. /\ SubSeq(outputs, 1, k) \in Seq(OutputRecords)
        /\ DOMAIN SubSeq(outputs, 1, k) = 1 .. k
        /\ \A i \in 1 .. k : SubSeq(outputs, 1, k)[i] = outputs[i]
    BY <1>1, <1>3, <2>2
  <2> QED  BY <1>3, <2>2, <2>3
<1>5. \A i \in DOMAIN outputs' : outputs'[i].withdrawals \in 1 .. Len(sent[L2])
  BY <1>1, <1>4
<1> QED  BY <1>1, <1>2, <1>4, <1>5, QuietKeeps DEF Quiet

-----------------------------------------------------------------------------
(* The balances hold in the beginning, when nothing has been sent, *)
LEMMA InitBalances ==
  ASSUME Init
  PROVE  Types /\ Balances
<1>1. /\ \A d \in Domains : sent[d] = <<>> /\ successful[d] = {} /\ received[d] = {}
      /\ tokens[L2] = 0 /\ \A t \in {Pair, Unpaired} : deposits[t] = 0
      /\ derived = 0
  BY TwoDomains DEF Init
<1>2. eth \in [Holders -> Nat] /\ \A h \in Holders : h # User(L1) => eth[h] = 0
  BY DEF Init, CrossDomainAssumption
<1>3. Types
  <2>1. <<>> \in Seq(Msgs) /\ <<>> \in Seq(Messages) /\ Len(<<>>) = 0 /\ DOMAIN <<>> = {}
        /\ <<>> \in Seq(OutputRecords)
    BY SeqEmpty
  <2>2. sent \in [Domains -> Seq(Msgs)] /\ sent \in [Domains -> Seq(Messages)]
    BY <2>1 DEF Init
  <2>3. /\ successful \in [Domains -> SUBSET Nat] /\ received \in [Domains -> SUBSET Nat]
        /\ tokens \in [Domains -> Nat] /\ deposits \in [{Pair, Unpaired} -> Nat]
    BY TwoDomains, Zenon DEF Init, CrossDomainAssumption
  <2>4. derived <= Len(sent[L1])
    BY <1>1, <2>1, TwoDomains
  <2>5. /\ successful[L2] \cup received[L2] \subseteq 1 .. derived
        /\ successful[L1] \cup received[L1] \subseteq finalized
    BY <1>1, TwoDomains
  <2>6. /\ outputs = <<>> /\ finalized = {} /\ paused = {} /\ derived \in Nat
    BY DEF Init
  <2>7. /\ finalized \subseteq DOMAIN sent[L2] /\ paused \subseteq Domains
        /\ outputs \in Seq(OutputRecords)
        /\ \A i \in DOMAIN outputs : outputs[i].withdrawals \in 1 .. Len(sent[L2])
    BY <2>1, <2>6
  <2>8. TypeOK
    BY <1>2, <2>2, <2>3, <2>4, <2>5, <2>7, Zenon DEF TypeOK
  <2> QED  BY <2>2, <2>3, <2>6, <2>7, <2>8, Zenon DEF Types
<1>4. \A t : CarriedOf(<<>>, {}, t) = 0
  <2>1. \A t : {n \in OpenOf(<<>>, {}) : t \in {<<>>[n].local, <<>>[n].remote}} = {}
    BY DEF OpenOf
  <2> QED  BY <2>1, FS_EmptySet, Zenon DEF CarriedOf
<1>5. /\ ToMint = 0 /\ ToPay = 0 /\ \A d \in Domains : ToReplay(d) = 0
  <2>1. <<>> \in Seq(Msgs) /\ Len(<<>>) = 0 /\ WorthOf(<<>>, {}) = 0
    BY SeqEmpty, WorthType, Zenon
  <2>2. ToMint = 0
    <3>1. derived + 1 .. Len(sent[L1]) = {}
      BY <1>1, <2>1, TwoDomains
    <3> QED  BY <1>1, <2>1, <3>1, TwoDomains, Zenon DEF ToMint
  <2>3. ToPay = 0
    <3>1. OpenOf(sent[L2], successful[L1]) \ received[L1] = {}
      BY <1>1, TwoDomains DEF OpenOf
    <3> QED  BY <1>1, <2>1, <3>1, TwoDomains, Zenon DEF ToPay
  <2>4. ASSUME NEW d \in Domains  PROVE ToReplay(d) = 0
    <3>1. received[d] \ successful[d] = {} /\ sent[Other(d)] = <<>>
      BY <1>1, TwoDomains
    <3> QED  BY <2>1, <3>1, Zenon DEF ToReplay
  <2> QED  BY <2>2, <2>3, <2>4
<1>6. \A t \in {Pair, Unpaired} : deposits[t] = Escrow(t)
  <2>1. /\ sent[L1] = <<>> /\ sent[L2] = <<>> /\ successful[L1] = {} /\ successful[L2] = {}
    BY <1>1, TwoDomains
  <2>2. \A t : Escrow(t) = (IF t = Pair THEN tokens[L2] ELSE 0) + 0 + 0
    BY <1>4, <2>1, Zenon DEF Escrow
  <2> QED  BY <1>1, <2>2
<1>7. /\ eth[Portal] = 0 /\ eth[Alias] = 0 /\ eth[User(L2)] = 0
      /\ \A d \in Domains : eth[Messenger(d)] = 0
  BY <1>2, Accounts, TwoDomains, Zenon
<1>8. eth[User(L2)] + eth[Messenger(L2)] + eth[Alias] + ToMint + ToPay = 0
  BY <1>5, <1>7, TwoDomains
<1> QED  BY <1>3, <1>5, <1>6, <1>7, <1>8 DEF Balances

(* and every step keeps them. *)
LEMMA NextBalances ==
  ASSUME Types, Balances, [Next]_vars
  PROVE  Types' /\ Balances'
<1>1. /\ outputs \in Seq(OutputRecords)
      /\ \A i \in DOMAIN outputs : outputs[i].withdrawals \in 1 .. Len(sent[L2])
      /\ eth \in [Holders -> Nat] /\ paused \subseteq Domains
  BY RestType
<1>2. ASSUME NEW d \in Domains, bridgeETH(d)  PROVE Types' /\ Balances'
  BY <1>2, BridgeETHKeeps
<1>3. ASSUME NEW d \in Domains, bridgeERC20(d)  PROVE Types' /\ Balances'
  BY <1>3, BridgeERC20Keeps
<1>4. ASSUME NEW d \in Domains, Replay(d)  PROVE Types' /\ Balances'
  BY <1>4, ReplayKeeps
<1>5. ASSUME NEW d \in Domains, pause(d)  PROVE Types' /\ Balances'
  <2>1. paused' \subseteq Domains /\ UNCHANGED <<messenger, derived, outputs, finalized, eth, bridge>>
    BY <1>1, <1>5 DEF pause
  <2> QED  BY <1>1, <2>1, QuietKeeps DEF Quiet
<1>6. CASE Deposit
  BY <1>6, DepositKeeps
<1>7. CASE Propose
  BY <1>7, ProposeKeeps
<1>8. CASE Tick
  BY <1>8, TickKeeps
<1>9. CASE deleteL2Output
  BY <1>9, DeleteKeeps
<1>10. CASE finalizeWithdrawalTransaction
  BY <1>10, FinalizeKeeps
<1>11. CASE burn
  <2>1. /\ eth' \in [Holders -> Nat] /\ \A h \in Holders \ {Passer} : eth'[h] = eth[h]
        /\ UNCHANGED <<messenger, paused, derived, outputs, finalized, bridge>>
    BY <1>1, <1>11, Zenon DEF burn
  <2> QED  BY <1>1, <2>1, QuietKeeps, Zenon DEF Quiet
<1>12. CASE UNCHANGED vars
  BY <1>1, <1>12, QuietKeeps DEF Quiet, vars, messenger, bridge
<1> QED  BY <1>2, <1>3, <1>4, <1>5, <1>6, <1>7, <1>8, <1>9, <1>10, <1>11, <1>12 DEF Next

(* The invariant: the types, and the three balances, hold in every state. *)
THEOREM CrossDomainInvariant == Spec => []IInv
<1>1. Init => Types /\ Balances
  BY InitBalances
<1>2. (Types /\ Balances) /\ [Next]_vars => (Types /\ Balances)'
  BY NextBalances
<1>3. Types /\ Balances => IInv
  BY BalancesSame
<1> QED  BY <1>1, <1>2, <1>3, PTL DEF Spec

(* However transfers fail, are returned, replayed or cut off by a revert, the tokens that the *)
(* L1 bridge holds are the supply on L2 and the transfers on their way.                        *)
THEOREM CrossDomainEscrowBacksSupply == Spec => []EscrowBacksSupply
<1>1. IInv => EscrowBacksSupply
  BY DEF IInv
<1> QED  BY <1>1, CrossDomainInvariant, PTL

(* The portal always holds the ETH of L2, and what it has yet to mint and to pay. *)
THEOREM CrossDomainPortalBacksL2 == Spec => []PortalBacksL2
<1>1. IInv => PortalBacksL2
  BY DEF IInv
<1> QED  BY <1>1, CrossDomainInvariant, PTL

(* A messenger can always pay every message that failed, and only knows ones that arrived. *)
THEOREM CrossDomainFailedMessagesFunded == Spec => []FailedMessagesFunded
<1>1. IInv => FailedMessagesFunded
  BY DEF IInv
<1> QED  BY <1>1, CrossDomainInvariant, PTL
=============================================================================
