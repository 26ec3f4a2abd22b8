----------------------------- MODULE CrossDomain -----------------------------
(***************************************************************************)
(* Messages between L1 and L2: OptimismPortal and L2ToL1MessagePasser,     *)
(* with the two CrossDomainMessengers on top of them and the two           *)
(* StandardBridges on top of those.  Every action is a transaction, which  *)
(* happens as a whole or reverts.  All amounts are 1.                      *)
(***************************************************************************)
EXTENDS Naturals, Sequences, FiniteSets, FiniteSetsExt

CONSTANTS
  FINALIZATION_PERIOD,
  Balance,    \* bound: the ETH and the tokens that the user has on L1
  MaxSends,   \* bound: how many transfers the user starts
  MaxSent,    \* bound: how many messages a messenger sends, returned ones included
  MaxFails,   \* bound: how many calls of a target fail
  MaxReverts, \* bound: how many relays revert for want of gas
  MaxDeletes, \* bound: how many outputs are deleted
  MayPause    \* the domains whose messenger may be paused

L1 == 1
L2 == 2
Domains == {L1, L2}
Other(d) == 3 - d

ASSUME CrossDomainAssumption ==
  /\ {FINALIZATION_PERIOD, Balance, MaxSends, MaxSent, MaxFails, MaxReverts, MaxDeletes} \subseteq Nat
  /\ MayPause \subseteq Domains

VARIABLES
  sent,       \* per domain, the messages its messenger sent; the nonce is the position
  successful, \* successfulMessages of the messenger of each domain
  received,   \* receivedMessages of the messenger of each domain
  paused,     \* the domains whose messenger is paused
  derived,    \* how many deposits the L2 chain has executed
  outputs,    \* the proposed outputs: the withdrawals each one proves, and its age
  finalized,  \* finalizedWithdrawals of the portal
  eth,        \* who holds ETH
  tokens,     \* the user's tokens on each domain
  deposits,   \* deposits of the L1 bridge for its token, by the remote token
  used        \* how many transfers, failures, reverts and deletions there were

vars == <<sent, successful, received, paused, derived, outputs, finalized, eth, tokens, deposits, used>>

messenger == <<sent, successful, received>>
bridge == <<tokens, deposits>>

-----------------------------------------------------------------------------
(* The token of the L1 bridge, its mintable pair on L2, and a mintable token of another pair. *)
Token == "token"
Pair == "pair"
Unpaired == "unpaired"

ETH == [kind |-> "finalizeBridgeETH", local |-> "", remote |-> ""]
ERC20(local, remote) == [kind |-> "finalizeBridgeERC20", local |-> local, remote |-> remote]
Value(msg) == IF msg.kind = "finalizeBridgeETH" THEN 1 ELSE 0

Move(funds, from, to) == [[funds EXCEPT ![from] = @ - 1] EXCEPT ![to] = @ + 1]
User(d) == <<"user", d>>
Messenger(d) == <<"messenger", d>>
Portal == <<"portal", L1>>
Passer == <<"passer", L2>>
Alias == <<"alias", L2>>
(* Where ETH goes that leaves a domain. *)
Gate(d) == IF d = L1 THEN Portal ELSE Passer
Holders ==
  {User(d) : d \in Domains} \cup {Messenger(d) : d \in Domains} \cup {Portal, Passer, Alias}

Count(what, n) == used' = [used EXCEPT ![what] = @ + 1] /\ used[what] < n

-----------------------------------------------------------------------------
(* sendMessage, called by a bridge. *)
sendMessage(d, msg) == Len(sent[d]) < MaxSent /\ sent' = [sent EXCEPT ![d] = Append(@, msg)]

bridgeETH(d) ==
  /\ Count("sends", MaxSends)
  /\ eth[User(d)] > 0
  /\ sendMessage(d, ETH) /\ eth' = Move(eth, User(d), Gate(d))
  /\ UNCHANGED <<successful, received, paused, derived, outputs, finalized, bridge>>

(* The L1 bridge takes the token whatever its remote token is said to be; the L2 bridge burns *)
(* a mintable token, of which the user only holds the one that has the right pair.            *)
bridgeERC20(d) ==
  /\ Count("sends", MaxSends)
  /\ tokens[d] > 0 /\ tokens' = [tokens EXCEPT ![d] = @ - 1]
  /\ \/ d = L1 /\ \E remote \in {Pair, Unpaired} :
          /\ deposits' = [deposits EXCEPT ![remote] = @ + 1]
          /\ sendMessage(d, ERC20(remote, Token))
     \/ d = L2 /\ sendMessage(d, ERC20(Token, Pair)) /\ UNCHANGED deposits
  /\ UNCHANGED <<successful, received, paused, derived, outputs, finalized, eth>>

(* completeOutboundTransfer: the guard, and what it does. *)
Completes(d, msg) ==
  \/ d = L2 /\ msg.local = Pair /\ msg.remote = Token
  \/ d = L1 /\ msg.local = Token /\ deposits[msg.remote] > 0

completeOutboundTransfer(d, msg) ==
  /\ tokens' = [tokens EXCEPT ![d] = @ + 1]
  /\ deposits' = IF d = L1 THEN [deposits EXCEPT ![msg.remote] = @ - 1] ELSE deposits

-----------------------------------------------------------------------------
(* The calls that the messenger of domain d makes with a message, by how they end. *)

(* finalizeBridgeETH pays the user. *)
finalizeBridgeETH(d, msg, funds, payer) ==
  /\ msg.kind = "finalizeBridgeETH"
  /\ eth' = Move(funds, payer, User(d)) /\ UNCHANGED <<bridge, sent, used>>

(* finalizeBridgeERC20 completes the transfer. *)
finalizeBridgeERC20(d, msg) ==
  /\ msg.kind = "finalizeBridgeERC20" /\ Completes(d, msg)
  /\ completeOutboundTransfer(d, msg) /\ UNCHANGED <<eth, sent, used>>

(* finalizeBridgeERC20 catches a failure and sends a message back, which names the tokens in *)
(* the same order: the other bridge finds this domain's token as its local one.               *)
returnERC20(d, msg) ==
  /\ msg.kind = "finalizeBridgeERC20"
  /\ \/ ~ Completes(d, msg) /\ UNCHANGED used
     \/ Completes(d, msg) /\ Count("fails", MaxFails)
  /\ sendMessage(d, msg)
  /\ UNCHANGED <<eth, bridge>>

(* Mutant: a message may be relayed again. *)
RelayableAgain(d, n) == d \notin paused

(* relayMessage does not revert. *)
Relayable(d, n) == d \notin paused /\ n \notin successful[d]

(* Mutant: a replay that succeeds is not noted. *)
SucceededOnce(d, n) ==
  /\ successful' = IF n \in received[d] THEN successful
                   ELSE [successful EXCEPT ![d] = @ \cup {n}]
  /\ UNCHANGED received

Succeeded(d, n) == successful' = [successful EXCEPT ![d] = @ \cup {n}] /\ UNCHANGED received

(* Mutant: only the event is emitted. *)
FailedUnnoted(d, n) == UNCHANGED <<successful, received>>

Failed(d, n) == received' = [received EXCEPT ![d] = @ \cup {n}] /\ UNCHANGED successful

(* relayMessage of message n in domain d; the payer calls it with the message's value. *)
relayMessage(d, n, funds, payer) ==
  LET msg == sent[Other(d)][n]
  IN  /\ Relayable(d, n)
      /\ \/ /\ \/ finalizeBridgeETH(d, msg, funds, payer)
               \/ finalizeBridgeERC20(d, msg) \/ returnERC20(d, msg)
            /\ Succeeded(d, n)
         \/ /\ Count("fails", MaxFails) /\ Failed(d, n)
            /\ eth' = IF Value(msg) = 1 THEN Move(funds, payer, Messenger(d)) ELSE funds
            /\ UNCHANGED <<bridge, sent>>

(* relayMessage reverts: on one of its conditions, or with too little gas. *)
RelayReverts(d, n) ==
  /\ \/ ~ Relayable(d, n) /\ UNCHANGED used
     \/ Relayable(d, n) /\ Count("reverts", MaxReverts)
  /\ UNCHANGED <<messenger, bridge>>

-----------------------------------------------------------------------------
(* The L2 chain executes the next deposit: it mints the value for the alias of the L1        *)
(* messenger, which calls relayMessage.  When that reverts the alias keeps the value.        *)
Deposit ==
  LET n == derived + 1
      minted == [eth EXCEPT ![Alias] = @ + Value(sent[L1][n])]
  IN  /\ n <= Len(sent[L1]) /\ derived' = n
      /\ \/ relayMessage(L2, n, minted, Alias)
         \/ RelayReverts(L2, n) /\ eth' = minted
      /\ UNCHANGED <<paused, outputs, finalized>>

(* The oracle: an output with new withdrawals is proposed, outputs grow older, and the owner *)
(* deletes the latest one.                                                                    *)
Propose ==
  /\ Len(sent[L2]) > IF outputs = <<>> THEN 0 ELSE outputs[Len(outputs)].withdrawals
  /\ outputs' = Append(outputs, [withdrawals |-> Len(sent[L2]), age |-> 0])
  /\ UNCHANGED <<messenger, paused, derived, finalized, eth, bridge, used>>

Tick ==
  /\ \E i \in DOMAIN outputs : outputs[i].age <= FINALIZATION_PERIOD
  /\ outputs' = [i \in DOMAIN outputs |->
                   [outputs[i] EXCEPT !.age = Min({@ + 1, FINALIZATION_PERIOD + 1})]]
  /\ UNCHANGED <<messenger, paused, derived, finalized, eth, bridge, used>>

deleteL2Output ==
  /\ Count("deletes", MaxDeletes)
  /\ outputs # <<>> /\ outputs' = SubSeq(outputs, 1, Len(outputs) - 1)
  /\ UNCHANGED <<messenger, paused, derived, finalized, eth, bridge>>

(* Mutant: the withdrawal is not marked. *)
FinalizeUnmarked(n) == UNCHANGED finalized

Finalize(n) == finalized' = finalized \cup {n}

(* Finalizing a withdrawal calls relayMessage; when that reverts the portal keeps the value *)
(* and the withdrawal is finalized all the same.                                             *)
finalizeWithdrawalTransaction ==
  \E n \in 1 .. Len(sent[L2]) :
    /\ \E i \in DOMAIN outputs :
         outputs[i].age > FINALIZATION_PERIOD /\ n <= outputs[i].withdrawals
    /\ n \notin finalized /\ Finalize(n)
    /\ \/ relayMessage(L1, n, eth, Portal)
       \/ RelayReverts(L1, n) /\ UNCHANGED eth
    /\ UNCHANGED <<paused, derived, outputs>>

(* Anyone may replay a message that failed; the messenger pays its value. *)
Replay(d) ==
  /\ \E n \in received[d] : relayMessage(d, n, eth, Messenger(d))
  /\ UNCHANGED <<paused, derived, outputs, finalized>>

(* There is no way to unpause. *)
pause(d) ==
  /\ d \in MayPause \ paused /\ paused' = paused \cup {d}
  /\ UNCHANGED <<messenger, derived, outputs, finalized, eth, bridge, used>>

burn ==
  /\ eth[Passer] > 0 /\ eth' = [eth EXCEPT ![Passer] = 0]
  /\ UNCHANGED <<messenger, paused, derived, outputs, finalized, bridge, used>>

Init ==
  /\ sent = [d \in Domains |-> <<>>]
  /\ successful = [d \in Domains |-> {}] /\ received = [d \in Domains |-> {}]
  /\ paused = {} /\ derived = 0 /\ outputs = <<>> /\ finalized = {}
  /\ eth = [h \in Holders |-> IF h = User(L1) THEN Balance ELSE 0]
  /\ tokens = [d \in Domains |-> IF d = L1 THEN Balance ELSE 0]
  /\ deposits = [t \in {Pair, Unpaired} |-> 0]
  /\ used = [w \in {"sends", "fails", "reverts", "deletes"} |-> 0]

Next ==
  \/ \E d \in Domains : bridgeETH(d) \/ bridgeERC20(d) \/ Replay(d) \/ pause(d)
  \/ Deposit \/ Propose \/ Tick \/ deleteL2Output \/ finalizeWithdrawalTransaction \/ burn

Spec == Init /\ [][Next]_vars

(* L2 executes deposits, outputs are proposed and grow old, and someone finalizes every *)
(* withdrawal and replays every failed message.                                          *)
Fairness ==
  /\ WF_vars(Deposit) /\ WF_vars(Propose) /\ WF_vars(Tick)
  /\ WF_vars(finalizeWithdrawalTransaction) /\ \A d \in Domains : WF_vars(Replay(d))

FairSpec == Spec /\ Fairness
=============================================================================
