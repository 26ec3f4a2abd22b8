--------------------------- MODULE NodeProperties ---------------------------
(* What the life cycle of a rollup node and its peer discovery promise. *)
EXTENDS Node

Places ==
  {"initL1", "initL2", "initP2PSigner", "initP2P", "staticPeers", "p2pDiscovery", "initRPCServer",
   "listen", "start", "running", "exited", "stopServer", "closeP2P", "closeSigner", "unsubscribe",
   "closeEngines", "closeSources", "closed"}
Feeder == [at : {"off", "delay", "tick", "feed", "send", "returned"}, recs : Seq(Records)]

(* Type invariant of Node and Discovery, with the room in the channels. *)
TypeOK ==
  /\ resourcesCtx \in {"live", "done"} /\ {udp, hostUp, panicked} \subseteq BOOLEAN
  /\ main \in {"off", "select", "dial", "returned"} /\ todo \in Seq(Peers)
  /\ walker \in Feeder /\ kickoff \in Feeder
  /\ nodesCh \in Seq(Records) /\ Len(nodesCh) <= DiscoveredNodesBuffer
  /\ attempts \in Seq(Peers) /\ Len(attempts) <= ConnectionBufferSize
  /\ worker \in [ConnectionWorkers -> Peers \cup {Self, Idle, Gone}]
  /\ known \subseteq Peers \cup {Self} /\ connected \subseteq Peers
  /\ tags \in [Peers -> SUBSET {"static", "api-protected"}]
  /\ setup \in Setups /\ at \in Places /\ tries \in 0 .. MaxAttempts - 1
  /\ fields \subseteq {"l1", "signer", "p2p", "server"}
  /\ held \subseteq {"l1", "signer", "server", "rpcL2", "strayHost", "strayConn"}
  /\ attached \in Seq(Engines) /\ clients \subseteq Engines
  /\ loop \in [Engines -> {"off", "idle", "busy", "returned"}]
  /\ heads \in {"off", "resubscribe", "subscribed", "calling", "returned"}
  /\ notify \in [Engines -> 0 .. setup.heads] /\ queue \in [Engines -> 0 .. HeadsBuffer]
  /\ dialing \subseteq setup.static /\ request \in Peers \cup {NoPeer}

(***************************************************************************)
(* The server is exposed only while what it serves from is there: init     *)
(* opens it last and Close stops it first, with the requests in flight, so *)
(* no request ever meets a closed host, L1 source or engine.               *)
(***************************************************************************)
ServedBackendsOpen ==
  ("server" \in held \/ request # NoPeer) =>
    /\ "l1" \in held /\ clients = Range(setup.engines)
    /\ setup.p2p \in {"host", "discovery"} => hostUp /\ "p2p" \in fields

(***************************************************************************)
(* A driver loop never outlives the L1 source and the L2 client it works   *)
(* with, although both are closed while other goroutines still run.        *)
(***************************************************************************)
LoopsHaveSources ==
  \A e \in Engines : loop[e] \in {"idle", "busy"} => "l1" \in held /\ e \in clients

(***************************************************************************)
(* All that was opened is closed, except for what OpNode never had a       *)
(* reference to: the L2 client of the RPC server, a host that had          *)
(* malformed static peers, and the socket discv5 did not take over.        *)
(***************************************************************************)
Released ==
  /\ held \subseteq {"rpcL2", "strayHost", "strayConn"} /\ clients = {}
  /\ "strayHost" \in held \/ (~ hostUp /\ connected = {})
  /\ ~ udp /\ Cancelled
  /\ heads \in {"off", "returned"} /\ \A e \in Engines : loop[e] \in {"off", "returned"}

(***************************************************************************)
(* What is in use is open, by the order of the steps of init and of Close, *)
(* and nothing is left when Close has ended, whichever step of init had    *)
(* failed (and the state keeps its types, the limit on attempts included). *)
(***************************************************************************)
InUseIsOpen == TypeOK /\ ServedBackendsOpen /\ LoopsHaveSources /\ (at = "closed" => Released)

(***************************************************************************)
(* The main goroutine panics at the start when p2p is disabled in the      *)
(* flags, and in the Close after a server that could not listen; the       *)
(* feeders of discovery panic when they send to the channel that the loop  *)
(* has closed, which it does only after the context was cancelled.  None   *)
(* of the goroutines modelled here panics while the node is up.  (The      *)
(* validator of gossiped blocks can: module Gossip.)                       *)
(***************************************************************************)
PanicPlaces ==
  panicked => \/ setup.p2p = "disabled" /\ at = "initP2P"
              \/ at = "stopServer" /\ "server" \in fields \ held
              \/ Cancelled /\ main = "returned"

(* The peers whose records announce our chain, in our version. *)
Ours ==
  {r.id : r \in {q \in Records :
                   Len(q.entry) > 1 /\ q.entry[1] = L2ChainID /\ q.entry[2] = 0}}

(***************************************************************************)
(* Discovery adds only nodes of our chain and version to those it knows:   *)
(* an address that is new in the peerstore is of one of those, or of a     *)
(* peer that is connected at that moment, or is configured, or was stored  *)
(* by an earlier run.  (Of these, discovery dials foreign ones too.)  And  *)
(* although its own addresses are in the peerstore, the node never         *)
(* schedules a dial to itself.                                             *)
(***************************************************************************)
KnownWithReason ==
  [][/\ known' \ known \subseteq
          Ours \cup connected' \cup setup.static \cup setup.stored \cup {Self}
     /\ Self \notin Range(todo') \cup Range(attempts') \cup Range(worker')]_vars

(***************************************************************************)
(* Whatever the API protects and unprotects, once Host has returned with   *)
(* all of them protected no static peer is trimmed: its connection ends    *)
(* because it leaves, is disconnected, or we close.  (The host listens     *)
(* before that: a static peer that connects at once may be trimmed until   *)
(* host.go:154 is reached for it.)                                         *)
(***************************************************************************)
StaticNotTrimmed ==
  [][at # "staticPeers" /\ "strayHost" \notin held =>
       \A p \in (setup.static \cap connected) \ connected' :
         events' # events \/ calls' # calls \/ at' # at]_vars

AllReturned ==
  /\ main \in {"off", "returned"} /\ walker.at \in {"off", "returned"}
  /\ kickoff.at \in {"off", "returned"} /\ \A w \in ConnectionWorkers : worker[w] = Gone
  /\ dialing = {} /\ \A e \in Engines : notify[e] = 0

(***************************************************************************)
(* Once it has begun, after an interrupt or for a New that failed in any   *)
(* step but one, Close ends with all resources released, and with it every *)
(* goroutine of the node: none of the waits in Close is for ever, provided *)
(* that the calls of the drivers return, and the workers of discovery all  *)
(* see the closed channel, unless a feeder panics on the other one.  The   *)
(* step is that of a server that cannot listen: Stop panics on it and      *)
(* nothing is closed, although node.go:84 is to "ensure we always close    *)
(* the node resources if we fail to initialize the node".                  *)
(***************************************************************************)
CloseEnds ==
  (at = "stopServer" /\ "server" \notin fields \ held) ~>
    (\/ panicked /\ Cancelled /\ main = "returned"
     \/ at = "closed" /\ Released /\ AllReturned)

=============================================================================
