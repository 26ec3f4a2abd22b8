----------------------------- MODULE NodeProofs -----------------------------
(***************************************************************************)
(* The order of the steps of New, Start and Close keeps what is in use     *)
(* open, for all values of the constants: any engines, peers, records,     *)
(* buffers and workers, whatever fails at any step, and however the        *)
(* goroutines of the node interleave.                                      *)
(***************************************************************************)
EXTENDS NodeProperties, TLAPS

(***************************************************************************)
(* The goroutines of discovery.  Only records that pass the filter are     *)
(* under way, only peers are dialled, and the loop has returned, which     *)
(* closes its channels, only after the context was cancelled.              *)
(***************************************************************************)
Discovers ==
  /\ resourcesCtx \in {"live", "done"} /\ udp \in BOOLEAN
  /\ main \in {"off", "select", "dial", "returned"} /\ (Returned => Cancelled)
  /\ todo \in Seq(Peers) /\ (main = "dial" => todo # <<>>)
  /\ walker \in Feeder /\ walker.recs \in Seq(Passing) /\ (walker.at = "send" => walker.recs # <<>>)
  /\ kickoff \in Feeder
  /\ nodesCh \in Seq(Passing) /\ Len(nodesCh) <= DiscoveredNodesBuffer
  /\ attempts \in Seq(Peers) /\ Len(attempts) <= ConnectionBufferSize
  /\ worker \in [ConnectionWorkers -> Peers \cup {Idle, Gone}]

(***************************************************************************)
(* The peers.  The static ones are protected once Host has gone through    *)
(* all of them, and as long as the host is there or anyone is connected.   *)
(***************************************************************************)
Guarded ==
  at = "staticPeers" \/ "strayHost" \in held \/ \A p \in setup.static : "static" \in tags[p]

Protects ==
  /\ hostUp \in BOOLEAN /\ known \subseteq Peers \cup {Self} /\ connected \subseteq Peers
  /\ tags \in [Peers -> SUBSET {"static", "api-protected"}]
  /\ hostUp \/ connected # {} => Guarded
  /\ setup \in Setups /\ dialing \subseteq setup.static /\ request \in Peers \cup {NoPeer}
  /\ events \in Nat /\ calls \in Nat

(* Where the RPC server is set up and used, where init has a host that OpNode does not have   *)
(* yet, and where it has attached all engines.                                                *)
Serving == {"initRPCServer", "listen", "start", "running", "exited"}
Hosting == {"staticPeers", "p2pDiscovery"}
Initialised == {"initP2PSigner", "initP2P"} \cup Hosting \cup Serving

(* The backends of the RPC server. *)
L2Open == attached = setup.engines /\ clients = Attached
HasHost == setup.p2p \in {"host", "discovery"}

(***************************************************************************)
(* The main goroutine: what is open where it is.  The server outlives the  *)
(* calls of Start, up to the first step of Close, and nothing that it      *)
(* serves from is closed before it.                                        *)
(***************************************************************************)
Opens ==
  /\ at \in Places /\ tries \in 0 .. MaxAttempts - 1
  /\ fields \subseteq {"l1", "signer", "p2p", "server"}
  /\ held \subseteq {"l1", "signer", "server", "rpcL2", "strayHost", "strayConn"}
  /\ attached \in Seq(Engines) /\ clients \subseteq Engines
  /\ at \in {"initL1", "initL2"} => /\ clients = Attached /\ Len(attached) <= Len(setup.engines)
                                    /\ \A i \in DOMAIN attached : attached[i] = setup.engines[i]
  /\ at \in {"initL2"} \cup Initialised => "l1" \in held
  /\ at \in Initialised => L2Open
  /\ at \in Hosting => hostUp /\ HasHost
  /\ at \in Serving => (HasHost => hostUp /\ "p2p" \in fields)
  /\ at = "listen" => "server" \in fields
  /\ "server" \in held => /\ "server" \in fields /\ at \in {"start", "running", "exited", "stopServer"}
                          /\ "l1" \in held /\ L2Open /\ (HasHost => hostUp /\ "p2p" \in fields)
  /\ request # NoPeer => "server" \in held

(* The drivers' loops, which are open from Start until Close has waited for them. *)
Looping == {"start", "running", "exited", "stopServer", "closeP2P", "closeSigner", "unsubscribe",
            "closeEngines"}

Loops ==
  /\ loop \in [Engines -> {"off", "idle", "busy", "returned"}]
  /\ \A e \in Engines : loop[e] \in Open =>
       e \in Attached /\ "l1" \in held /\ e \in clients /\ at \in Looping

(* The heads: every goroutine that notifies an engine has a head of its own. *)
Notifies ==
  /\ heads \in {"off", "resubscribe", "subscribed", "calling", "returned"}
  /\ l1Head \in 0 .. setup.heads /\ queue \in [Engines -> 0 .. HeadsBuffer]
  /\ notify \in [Engines -> Nat]
  /\ \A e \in Engines : notify[e] <= l1Head /\ (heads = "calling" => notify[e] < l1Head)

(* Before p2p is complete, and Close, step by step. *)
WithoutP2P == {"initL1", "initL2", "initP2PSigner", "initP2P"} \cup Hosting
Unsubscribed == {"closeEngines", "closeSources", "closed"}
Unsigned == {"unsubscribe"} \cup Unsubscribed
Disconnected == {"closeSigner"} \cup Unsigned

(***************************************************************************)
(* What each step of Close leaves behind.  The host is not a field of      *)
(* OpNode until p2p is complete, and New closes it when it is not, unless  *)
(* the static peers were malformed.                                        *)
(***************************************************************************)
HostGone == "strayHost" \in held \/ (~ hostUp /\ connected = {})

Closes ==
  /\ at \in WithoutP2P => "p2p" \notin fields
  /\ "p2p" \notin fields => ~ udp /\ (at \notin Hosting => HostGone)
  /\ at \in Disconnected => "server" \notin held /\ ~ udp /\ HostGone
  /\ at \in Unsigned => "signer" \notin held /\ Cancelled
  /\ at \in Unsubscribed => heads \in {"off", "returned"}
  /\ at = "closed" => "l1" \notin held /\ clients = {}

(***************************************************************************)
(* The inductive invariant.  That what is in use is open follows from      *)
(* where the main goroutine is; and that it panics only outside, from the  *)
(* order in which discovery and the context end.                           *)
(***************************************************************************)
IInv ==
  /\ panicked \in BOOLEAN /\ PanicPlaces
  /\ Discovers /\ Protects /\ Opens /\ Loops /\ Notifies /\ Closes

USE DiscoveryAssumption, NodeAssumption

-----------------------------------------------------------------------------
(* What is used of sequences: *)
LEMMA SeqTypes ==
  ASSUME NEW S, NEW q \in Seq(S)
  PROVE  /\ Len(q) \in Nat /\ DOMAIN q = 1 .. Len(q) /\ (q = <<>>) <=> (Len(q) = 0)
         /\ \A i \in 1 .. Len(q) : q[i] \in S
OBVIOUS

(* their elements, *)
LEMMA SeqRange ==
  ASSUME NEW S, NEW q \in Seq(S)
  PROVE  Range(q) \subseteq S
BY SeqTypes DEF Range

(* and what is taken from a queue. *)
LEMMA SeqTake ==
  ASSUME NEW S, NEW q \in Seq(S), q # <<>>
  PROVE  Head(q) \in S /\ Tail(q) \in Seq(S) /\ Len(Tail(q)) = Len(q) - 1
OBVIOUS

(* Less than a number is less than what that is less than. *)
LEMMA LessThanLess ==
  \A i \in Nat, j \in Nat, k \in Nat : i <= j => (j <= k => i <= k) /\ (j < k => i < k)
OBVIOUS

(* A record that passes the filter is a record. *)
LEMMA PassingRecords == \A q \in Seq(Passing) : q \in Seq(Records)
<1>1. Passing \subseteq Records
  BY DEF Passing
<1> HIDE DEF Passing
<1> QED  BY <1>1

(* The peers to dial, in any order: a nonempty sequence of other peers. *)
LEMMA ShuffledType ==
  ASSUME NEW S, S \subseteq Peers, S # {}, NEW q \in Shuffled(S)
  PROVE  q \in Seq(Peers) /\ q # <<>>
<1>1. Cardinality(S) \in Nat
  OBVIOUS
<1>2. q \in [1 .. Cardinality(S) -> S] /\ \A p \in S : \E i \in 1 .. Cardinality(S) : q[i] = p
  BY DEF Shuffled, Bijection, Injection, Surjection
<1> QED  BY <1>1, <1>2

-----------------------------------------------------------------------------
(***************************************************************************)
(* Which steps touch what.  Discovery is touched by its own goroutines and *)
(* by the step of init that starts it, besides the closing of discv5 and   *)
(* of the context;                                                         *)
(***************************************************************************)
LEMMA DiscoveryFrame ==
  ASSUME Next
  PROVE  \/ (Feeders \/ DiscoveryLoop \/ \E w \in ConnectionWorkers : ConnectWorker(w))
            /\ UNCHANGED nodeVars
         \/ p2pDiscovery
         \/ /\ udp' \in {udp, FALSE} /\ resourcesCtx' \in {resourcesCtx, "done"}
            /\ UNCHANGED <<main, todo, walker, kickoff, nodesCh, attempts, worker>>
<1> USE DEF discoveryVars, p2pVars, queueVars, peerVars
<1>1. CASE MainSteps
  <2>1. CASE initL1  BY <2>1 DEF initL1
  <2>2. CASE initL2  BY <2>2 DEF initL2
  <2>3. CASE initP2PSigner  BY <2>3 DEF initP2PSigner
  <2>4. CASE initP2P  BY <2>4 DEF initP2P
  <2>8. CASE staticPeers  BY <2>8 DEF staticPeers
  <2>5. CASE Serve  BY <2>5 DEF Serve
  <2>6. CASE Start  BY <2>6 DEF Start
  <2>7. CASE Close
    <3>1. UNCHANGED <<main, todo, walker, kickoff, nodesCh, attempts, worker>>
      BY <2>7 DEF Close
    <3>2. udp' \in {udp, FALSE} /\ resourcesCtx' \in {resourcesCtx, "done"}
      BY <2>7, Zenon
         DEF Close, stopServer, closeP2P, closeSigner, unsubscribe, closeEngines, closeSources
    <3> QED  BY <3>1, <3>2, Zenon
  <2> QED  BY <1>1, <2>1, <2>2, <2>3, <2>4, <2>5, <2>6, <2>7, <2>8, Zenon DEF MainSteps
<1>2. CASE Interrupt  BY <1>2 DEF Interrupt
<1>3. CASE WatchHeadChanges  BY <1>3 DEF WatchHeadChanges
<1>4. CASE API  BY <1>4 DEF API
<1>5. CASE \E e \in Engines : Notify(e) \/ DriverLoop(e)  BY <1>5, Zenon DEF Notify, DriverLoop
<1>6. CASE \E p \in Peers : DialStatic(p)  BY <1>6 DEF DialStatic
<1>7. CASE Discover /\ UNCHANGED nodeVars
  BY <1>7, Zenon DEF Discover, TrimPeers
<1>8. CASE PeersChange  BY <1>8 DEF PeersChange
<1> QED  BY <1>1, <1>2, <1>3, <1>4, <1>5, <1>6, <1>7, <1>8, Zenon DEF Next

(* The feeders send only records that pass the filter. *)
LEMMA SendKeeps ==
  ASSUME Discovers, NEW r \in Passing, SendNode(r, TRUE, TRUE)
  PROVE  /\ nodesCh' \in Seq(Passing) /\ Len(nodesCh') <= DiscoveredNodesBuffer
         /\ panicked' = panicked \/ (panicked' = TRUE /\ Cancelled /\ Returned)
<1>1. /\ nodesCh \in Seq(Passing) /\ Len(nodesCh) <= DiscoveredNodesBuffer
      /\ Returned => Cancelled
  BY DEF Discovers
<1> HIDE DEF Passing
<1>2. CASE /\ Len(nodesCh) < DiscoveredNodesBuffer /\ nodesCh' = Append(nodesCh, r)
           /\ UNCHANGED panicked
  BY <1>1, <1>2
<1>3. CASE UNCHANGED <<nodesCh, panicked>>
  BY <1>1, <1>3
<1>4. CASE Returned /\ panicked' = TRUE /\ UNCHANGED nodesCh
  BY <1>1, <1>4
<1> QED  BY <1>2, <1>3, <1>4, Zenon DEF SendNode

(* The walk of the DHT, *)
LEMMA WalkKeeps ==
  ASSUME Discovers, WalkNext \/ WalkSend
  PROVE  /\ walker' \in Feeder /\ walker'.recs \in Seq(Passing)
         /\ walker'.at = "send" => walker'.recs # <<>>
         /\ nodesCh' \in Seq(Passing) /\ Len(nodesCh') <= DiscoveredNodesBuffer
         /\ panicked' = panicked \/ (panicked' = TRUE /\ Cancelled /\ Returned)
<1>1. /\ walker \in Feeder /\ walker.recs \in Seq(Passing)
      /\ walker.at = "send" => walker.recs # <<>>
      /\ nodesCh \in Seq(Passing) /\ Len(nodesCh) <= DiscoveredNodesBuffer
  BY DEF Discovers
<1>2. CASE \E r \in Passing : walker' = [at |-> "send", recs |-> <<r>>] /\ UNCHANGED <<nodesCh, panicked>>
  <2>1. PICK r \in Passing :
          walker' = [at |-> "send", recs |-> <<r>>] /\ UNCHANGED <<nodesCh, panicked>>
    BY <1>2
  <2>2. <<r>> \in Seq(Passing) /\ <<r>> # <<>>
    OBVIOUS
  <2>3. <<r>> \in Seq(Records)
    BY <2>2, PassingRecords, Zenon
  <2> QED  BY <1>1, <2>1, <2>2, <2>3 DEF Feeder
<1>3. CASE walker' \in {[at |-> "tick", recs |-> <<>>], [at |-> "returned", recs |-> <<>>]}
  <2>1. /\ walker' \in Feeder /\ walker'.recs \in Seq(Passing)
        /\ walker'.at = "send" => walker'.recs # <<>>
    <3>1. <<>> \in Seq(Passing) /\ <<>> \in Seq(Records)
      OBVIOUS
    <3>2. CASE walker' = [at |-> "tick", recs |-> <<>>]
      BY <3>1, <3>2 DEF Feeder
    <3>3. CASE walker' = [at |-> "returned", recs |-> <<>>]
      BY <3>1, <3>3 DEF Feeder
    <3> QED  BY <1>3, <3>2, <3>3
  <2>2. CASE UNCHANGED <<nodesCh, panicked>>
    BY <1>1, <2>1, <2>2
  <2>3. CASE walker.at = "send" /\ SendNode(Head(walker.recs), TRUE, TRUE)
    <3>1. Head(walker.recs) \in Passing
      BY <1>1, <2>3, SeqTake
    <3> QED  BY <2>1, <2>3, <3>1, SendKeeps, Zenon
  <2>4. WalkSend => walker.at = "send" /\ SendNode(Head(walker.recs), TRUE, TRUE)
    BY Zenon DEF WalkSend, SendNode
  <2> QED  BY <2>2, <2>3, <2>4, Zenon DEF WalkNext
<1>4. WalkSend => walker' \in {[at |-> "tick", recs |-> <<>>], [at |-> "returned", recs |-> <<>>]}
  BY DEF WalkSend, SendNode
<1> QED  BY <1>2, <1>3, <1>4, Zenon DEF WalkNext

(* and the first feed. *)
LEMMA KickoffKeeps ==
  ASSUME Discovers, KickoffStart \/ KickoffSend
  PROVE  /\ kickoff' \in Feeder
         /\ nodesCh' \in Seq(Passing) /\ Len(nodesCh') <= DiscoveredNodesBuffer
         /\ panicked' = panicked \/ (panicked' = TRUE /\ Cancelled /\ Returned)
<1>1. /\ kickoff \in Feeder /\ nodesCh \in Seq(Passing) /\ Len(nodesCh) <= DiscoveredNodesBuffer
  BY DEF Discovers
<1>2. [at |-> "returned", recs |-> <<>>] \in Feeder
  BY DEF Feeder
<1>3. CASE KickoffStart
  BY <1>1, <1>3 DEF KickoffStart, Feeder
<1>4. CASE KickoffSend
  <2>1. CASE kickoff' = [at |-> "returned", recs |-> <<>>] /\ UNCHANGED <<nodesCh, panicked>>
    BY <1>1, <1>2, <2>1
  <2>2. ASSUME NEW i \in DOMAIN kickoff.recs, kickoff.recs[i] \in Passing,
               SendNode(kickoff.recs[i], TRUE, TRUE),
               \/ kickoff' = [kickoff EXCEPT !.recs = SubSeq(@, i + 1, Len(@))]
               \/ kickoff' = [at |-> "returned", recs |-> <<>>]
        PROVE  /\ kickoff' \in Feeder
               /\ nodesCh' \in Seq(Passing) /\ Len(nodesCh') <= DiscoveredNodesBuffer
               /\ panicked' = panicked \/ (panicked' = TRUE /\ Cancelled /\ Returned)
    <3>1. kickoff.recs \in Seq(Records)
      BY <1>1 DEF Feeder
    <3>2. DOMAIN kickoff.recs = 1 .. Len(kickoff.recs) /\ Len(kickoff.recs) \in Nat
      BY <3>1, SeqTypes
    <3>3. SubSeq(kickoff.recs, i + 1, Len(kickoff.recs)) \in Seq(Records)
      BY <3>1, <3>2
    <3>4. kickoff' \in Feeder
      BY <1>1, <1>2, <2>2, <3>3, Zenon DEF Feeder
    <3> QED  BY <2>2, <3>4, SendKeeps, Zenon
  <2> QED  BY <1>4, <2>1, <2>2, Zenon DEF KickoffSend, SendNode
<1> QED  BY <1>3, <1>4, Zenon

(* The goroutines that feed records to the loop. *)
LEMMA FeedersKeep ==
  ASSUME Discovers, Feeders
  PROVE  Discovers' /\ (panicked' = panicked \/ (panicked' = TRUE /\ Cancelled' /\ Returned'))
<1>1. UNCHANGED <<resourcesCtx, udp, main, todo, attempts, worker>>
  BY DEF Feeders
<1>2. \/ (WalkNext \/ WalkSend) /\ UNCHANGED kickoff
      \/ (KickoffStart \/ KickoffSend) /\ UNCHANGED walker
  BY Zenon DEF Feeders
<1>3. /\ walker' \in Feeder /\ walker'.recs \in Seq(Passing)
      /\ walker'.at = "send" => walker'.recs # <<>>
      /\ kickoff' \in Feeder
      /\ nodesCh' \in Seq(Passing) /\ Len(nodesCh') <= DiscoveredNodesBuffer
      /\ panicked' = panicked \/ (panicked' = TRUE /\ Cancelled /\ Returned)
  <2>1. CASE (WalkNext \/ WalkSend) /\ UNCHANGED kickoff
    BY <2>1, WalkKeeps, Zenon DEF Discovers
  <2>2. CASE (KickoffStart \/ KickoffSend) /\ UNCHANGED walker
    BY <2>2, KickoffKeeps, Zenon DEF Discovers
  <2> QED  BY <1>2, <2>1, <2>2, Zenon
<1> QED  BY <1>1, <1>3 DEF Discovers, Returned, Cancelled

(* The workers, *)
LEMMA WorkersKeep ==
  ASSUME Discovers, NEW w \in ConnectionWorkers, ConnectWorker(w)
  PROVE  Discovers'
<1>1. UNCHANGED <<resourcesCtx, udp, main, todo, walker, kickoff, nodesCh>>
  BY DEF ConnectWorker
<1>2. /\ attempts \in Seq(Peers) /\ Len(attempts) <= ConnectionBufferSize
      /\ worker \in [ConnectionWorkers -> Peers \cup {Idle, Gone}]
  BY DEF Discovers
<1>3. /\ attempts' \in Seq(Peers) /\ Len(attempts') <= ConnectionBufferSize
      /\ worker' \in [ConnectionWorkers -> Peers \cup {Idle, Gone}]
  <2>1. CASE TakeAttempt(w)
    <3>1. Head(attempts) \in Peers /\ Tail(attempts) \in Seq(Peers)
          /\ Len(Tail(attempts)) <= ConnectionBufferSize
      BY <1>2, <2>1, SeqTake, SeqTypes DEF TakeAttempt
    <3> QED  BY <1>2, <2>1, <3>1 DEF TakeAttempt
  <2>2. CASE Connect(w) \/ WorkerReturns(w)
    BY <1>2, <2>2 DEF Connect, WorkerReturns
  <2> QED  BY <2>1, <2>2 DEF ConnectWorker
<1> QED  BY <1>1, <1>3 DEF Discovers, Returned, Cancelled

(* and the loop. *)
LEMMA LoopKeeps ==
  ASSUME Discovers, Protects, DiscoveryLoop
  PROVE  Discovers'
<1>1. UNCHANGED <<resourcesCtx, udp, walker, kickoff, worker>>
  BY DEF DiscoveryLoop
<1>2. /\ main \in {"off", "select", "dial", "returned"} /\ (Returned => Cancelled)
      /\ todo \in Seq(Peers) /\ (main = "dial" => todo # <<>>)
      /\ nodesCh \in Seq(Passing) /\ Len(nodesCh) <= DiscoveredNodesBuffer
      /\ attempts \in Seq(Peers) /\ Len(attempts) <= ConnectionBufferSize
  BY DEF Discovers
<1> HIDE DEF Passing
<1>3. /\ main' \in {"off", "select", "dial", "returned"} /\ (Returned' => Cancelled)
      /\ todo' \in Seq(Peers) /\ (main' = "dial" => todo' # <<>>)
      /\ nodesCh' \in Seq(Passing) /\ Len(nodesCh') <= DiscoveredNodesBuffer
      /\ attempts' \in Seq(Peers) /\ Len(attempts') <= ConnectionBufferSize
  <2>1. CASE Found
    <3>1. Tail(nodesCh) \in Seq(Passing) /\ Len(Tail(nodesCh)) <= DiscoveredNodesBuffer
      BY <1>2, <2>1, SeqTake, SeqTypes DEF Found
    <3> QED  BY <1>2, <2>1, <3>1 DEF Found, Returned
  <2>2. CASE ConnectTick
    <3>1. Candidates \subseteq Peers
      BY DEF Candidates, Protects
    <3>2. todo' \in Seq(Peers) /\ todo' # <<>>
      BY <2>2, <3>1, ShuffledType DEF ConnectTick
    <3> QED  BY <1>2, <2>2, <3>2 DEF ConnectTick, queueVars, Returned
  <2>3. CASE Schedule
    <3>1. CASE /\ Len(attempts) < ConnectionBufferSize
               /\ attempts' = Append(attempts, Head(todo)) /\ todo' = Tail(todo)
               /\ main' = IF todo' = <<>> THEN "select" ELSE main
      <4>1. Head(todo) \in Peers /\ Tail(todo) \in Seq(Peers)
        BY <1>2, <2>3, SeqTake DEF Schedule
      <4> QED  BY <1>2, <2>3, <3>1, <4>1 DEF Schedule, Returned
    <3>2. CASE main' = "select" /\ todo' = <<>> /\ UNCHANGED attempts
      BY <1>2, <2>3, <3>2 DEF Schedule, Returned
    <3> QED  BY <2>3, <3>1, <3>2 DEF Schedule
  <2>4. CASE Return
    BY <1>2, <2>4 DEF Return, queueVars, Returned
  <2> QED  BY <2>1, <2>2, <2>3, <2>4 DEF DiscoveryLoop
<1> QED  BY <1>1, <1>3 DEF Discovers, Returned, Cancelled

(* So every step keeps discovery as it should be. *)
LEMMA DiscoversStep ==
  ASSUME IInv, Next
  PROVE  Discovers'
<1>1. Discovers /\ Protects
  BY DEF IInv
<1>2. CASE Feeders \/ DiscoveryLoop \/ \E w \in ConnectionWorkers : ConnectWorker(w)
  BY <1>1, <1>2, FeedersKeep, LoopKeeps, WorkersKeep, Zenon
<1>3. CASE /\ udp' \in {udp, FALSE} /\ resourcesCtx' \in {resourcesCtx, "done"}
           /\ UNCHANGED <<main, todo, walker, kickoff, nodesCh, attempts, worker>>
  BY <1>1, <1>3, Zenon DEF Discovers, Returned, Cancelled
<1>4. CASE p2pDiscovery
  <2>1. resourcesCtx' = resourcesCtx
    BY <1>4 DEF p2pDiscovery
  <2>2. CASE UNCHANGED <<udp, main, todo, walker, kickoff, queueVars, worker>>
    BY <1>1, <2>1, <2>2 DEF Discovers, Returned, Cancelled, queueVars
  <2>3. CASE udp' \in BOOLEAN /\ StartDiscovery
    <3>1. <<>> \in Seq(Passing) /\ <<>> \in Seq(Records)
      OBVIOUS
    <3> HIDE DEF Passing
    <3>2. /\ walker' \in Feeder /\ walker'.recs \in Seq(Passing) /\ walker'.at # "send"
          /\ kickoff' \in Feeder /\ worker' \in [ConnectionWorkers -> Peers \cup {Idle, Gone}]
          /\ main' = "select" /\ UNCHANGED <<todo, nodesCh, attempts>>
      BY <2>3, <3>1 DEF StartDiscovery, Feeder, queueVars
    <3> QED  BY <1>1, <2>1, <2>3, <3>2 DEF Discovers, Returned, Cancelled
  <2>4. CASE udp' \in BOOLEAN /\ UNCHANGED <<main, todo, walker, kickoff, queueVars, worker>>
    BY <1>1, <2>1, <2>4 DEF Discovers, Returned, Cancelled, queueVars
  <2> QED  BY <1>4, <2>2, <2>3, <2>4, Zenon DEF p2pDiscovery
<1> QED  BY <1>2, <1>3, <1>4, DiscoveryFrame, Zenon

-----------------------------------------------------------------------------
(* The peers are touched when the host is set up and closed, and by those that dial and call. *)
LEMMA PeersFrame ==
  ASSUME Next
  PROVE  \/ (initP2P \/ staticPeers) /\ UNCHANGED <<setup, apiVars>>
         \/ (DiscoveryLoop \/ TrimPeers \/ \E w \in ConnectionWorkers : ConnectWorker(w))
            /\ UNCHANGED nodeVars
         \/ PeersChange /\ UNCHANGED nodeVars
         \/ API
         \/ \E p \in Peers : DialStatic(p)
         \/ /\ UNCHANGED <<known, tags, events, setup, dialing, request, calls>>
            /\ at' = at \/ at # "staticPeers"
            /\ "strayHost" \in held => "strayHost" \in held'
            /\ \/ UNCHANGED <<hostUp, connected>>
               \/ hostUp' = FALSE /\ connected' = {} /\ at' # at
<1> USE DEF discoveryVars, p2pVars, queueVars, peerVars, nodeVars, apiVars, mainVars, Keep
<1>1. CASE MainSteps
  <2>0. UNCHANGED <<setup, request, calls>>
    BY <1>1 DEF MainSteps
  <2>1. CASE initL1  BY <2>0, <2>1, Zenon DEF initL1, Opened
  <2>2. CASE initL2  BY <2>0, <2>2, Zenon DEF initL2
  <2>3. CASE initP2PSigner  BY <2>0, <2>3, Zenon DEF initP2PSigner, Opened
  <2>4. CASE initP2P \/ staticPeers  BY <1>1, <2>4, Zenon DEF MainSteps
  <2>5. CASE p2pDiscovery  BY <2>0, <2>5, Zenon DEF p2pDiscovery, Fail, Goto
  <2>6. CASE Serve  BY <2>0, <2>6, Zenon DEF Serve, initRPCServer, listen
  <2>7. CASE Start  BY <2>0, <2>7, Zenon DEF Start
  <2>8. CASE Close
    <3>1. UNCHANGED <<known, tags, events, dialing>>
      BY <2>8 DEF Close
    <3>2. \/ UNCHANGED <<hostUp, connected>>
          \/ hostUp' = FALSE /\ connected' = {} /\ at' # at
      BY <2>8, Zenon
         DEF Close, stopServer, closeP2P, closeSigner, unsubscribe, closeEngines, closeSources,
                  Goto
    <3>3. at # "staticPeers" /\ ("strayHost" \in held => "strayHost" \in held')
      BY <2>8, Zenon
         DEF Close, stopServer, closeP2P, closeSigner, unsubscribe, closeEngines, closeSources
    <3> QED  BY <2>0, <3>1, <3>2, <3>3, Zenon
  <2> QED  BY <1>1, <2>1, <2>2, <2>3, <2>4, <2>5, <2>6, <2>7, <2>8, Zenon DEF MainSteps
<1>2. CASE Interrupt /\ UNCHANGED <<setup, apiVars>>  BY <1>2, Zenon DEF Interrupt
<1>3. CASE WatchHeadChanges  BY <1>3, Zenon DEF WatchHeadChanges
<1>4. CASE API  BY <1>4
<1>5. CASE \E e \in Engines : Notify(e) \/ DriverLoop(e)  BY <1>5, Zenon DEF Notify, DriverLoop
<1>6. CASE \E p \in Peers : DialStatic(p)  BY <1>6, Zenon
<1>7. CASE Discover /\ UNCHANGED nodeVars
  <2>1. CASE Feeders  BY <1>7, <2>1, Zenon DEF Feeders
  <2> QED  BY <1>7, <2>1, Zenon DEF Discover
<1>8. CASE PeersChange /\ UNCHANGED nodeVars  BY <1>8
<1> QED  BY <1>1, <1>2, <1>3, <1>4, <1>5, <1>6, <1>7, <1>8, Zenon DEF Next

(* The host is set up, *)
LEMMA HostKeeps ==
  ASSUME Protects, initP2P, UNCHANGED <<setup, apiVars>>
  PROVE  /\ Protects' /\ UNCHANGED <<connected, events, calls>>
         /\ known' \subseteq known \cup setup.stored \cup {Self}
<1>1. /\ known \subseteq Peers \cup {Self} /\ connected \subseteq Peers /\ hostUp \in BOOLEAN
      /\ tags \in [Peers -> SUBSET {"static", "api-protected"}]
      /\ hostUp \/ connected # {} => Guarded
      /\ setup \in Setups /\ dialing \subseteq setup.static /\ request \in Peers \cup {NoPeer}
      /\ events \in Nat /\ calls \in Nat
  BY Zenon DEF Protects
<1>2. UNCHANGED <<connected, events, setup, request, calls, dialing, tags, held>> /\ at = "initP2P"
  BY Zenon DEF initP2P, apiVars
<1>3. setup.stored \subseteq Peers
  BY <1>1
<1>4. CASE UNCHANGED <<hostUp, known>>
  <2>1. Guarded => Guarded'
    BY <1>2, Zenon DEF Guarded
  <2> QED  BY <1>1, <1>2, <1>4, <2>1, Zenon DEF Protects
<1>5. CASE hostUp' = TRUE /\ known' = setup.stored \cup {Self} /\ at' = "staticPeers"
  <2>1. Guarded'
    BY <1>5, Zenon DEF Guarded
  <2> QED  BY <1>1, <1>2, <1>3, <1>5, <2>1, Zenon DEF Protects
<1> QED  BY <1>4, <1>5, Zenon DEF initP2P, Host, Goto

(* its static peers are protected, *)
LEMMA StaticKeeps ==
  ASSUME Protects, staticPeers, UNCHANGED <<setup, apiVars>>
  PROVE  /\ Protects' /\ UNCHANGED <<connected, events, calls>>
         /\ known' \subseteq known \cup setup.static
<1>1. /\ known \subseteq Peers \cup {Self} /\ connected \subseteq Peers /\ hostUp \in BOOLEAN
      /\ tags \in [Peers -> SUBSET {"static", "api-protected"}]
      /\ setup \in Setups /\ dialing \subseteq setup.static /\ request \in Peers \cup {NoPeer}
      /\ events \in Nat /\ calls \in Nat
  BY Zenon DEF Protects
<1>2. UNCHANGED <<hostUp, connected, events, setup, request, calls>> /\ at = "staticPeers"
  BY Zenon DEF staticPeers, apiVars, p2pVars
<1>3. setup.static \subseteq Peers
  BY <1>1
<1>4. CASE setup.static \subseteq Protected /\ UNCHANGED <<held, known, tags, dialing>>
  <2>1. Guarded'
    BY <1>2, <1>4, Zenon DEF Guarded, Protected
  <2> QED  BY <1>1, <1>2, <1>4, <2>1, Zenon DEF Protects
<1>5. ASSUME NEW p \in setup.static, known' = known \cup {p}, dialing' = dialing \cup {p},
             tags' = [tags EXCEPT ![p] = @ \cup {"static"}], at' = at
      PROVE  Protects' /\ known' \subseteq known \cup setup.static
  <2>1. Guarded'
    BY <1>2, <1>5, Zenon DEF Guarded
  <2>2. tags' \in [Peers -> SUBSET {"static", "api-protected"}]
    BY <1>1, <1>3, <1>5
  <2>3. known' \subseteq Peers \cup {Self} /\ known' \subseteq known \cup setup.static
    BY <1>1, <1>3, <1>5, Zenon
  <2>4. dialing' \subseteq setup'.static
    BY <1>1, <1>2, <1>5, Zenon
  <2> QED  BY <1>1, <1>2, <2>1, <2>2, <2>3, <2>4, Zenon DEF Protects
<1>6. CASE held' = held \cup {"strayHost"} /\ UNCHANGED <<known, tags, dialing>>
  <2>1. Guarded'
    BY <1>6, Zenon DEF Guarded
  <2> QED  BY <1>1, <1>2, <1>6, <2>1, Zenon DEF Protects
<1> QED  BY <1>2, <1>4, <1>5, <1>6, Zenon DEF staticPeers

(* peers call, are called, and leave, *)
LEMMA APIKeeps ==
  ASSUME Protects, API
  PROVE  /\ Protects' /\ UNCHANGED <<setup, events>> /\ known' \subseteq known \cup connected'
         /\ connected \subseteq connected' \/ calls' # calls
<1>1. /\ known \subseteq Peers \cup {Self} /\ connected \subseteq Peers /\ hostUp \in BOOLEAN
      /\ tags \in [Peers -> SUBSET {"static", "api-protected"}]
      /\ hostUp \/ connected # {} => Guarded
      /\ setup \in Setups /\ dialing \subseteq setup.static /\ request \in Peers \cup {NoPeer}
      /\ events \in Nat /\ calls \in Nat /\ setup.static \subseteq Peers
  BY DEF Protects
<1>2. UNCHANGED <<hostUp, events, setup, dialing, at, held>>
  BY DEF API, p2pVars, mainVars
<1>3. CASE ConnectPeerReturns
  BY <1>1, <1>2, <1>3, Zenon DEF ConnectPeerReturns, Protects, Guarded
<1>4. ASSUME NEW p \in Peers, ConnectPeer(p) \/ DisconnectPeer(p)
      PROVE  /\ Protects' /\ known' = known /\ (connected' = connected \/ calls' # calls)
  <2>1. /\ UNCHANGED <<known, tags>> /\ calls' = calls + 1 /\ connected' \subseteq connected
        /\ request' \in Peers \cup {NoPeer}
    BY <1>1, <1>4 DEF ConnectPeer, DisconnectPeer, Called
  <2>2. Guarded => Guarded'
    BY <1>2, <2>1, Zenon DEF Guarded
  <2>3. calls' \in Nat /\ calls' # calls
    BY <1>1, <2>1
  <2> QED  BY <1>1, <1>2, <2>1, <2>2, <2>3, Zenon DEF Protects
<1>5. ASSUME NEW p \in Peers, ProtectPeer(p) \/ UnprotectPeer(p)
      PROVE  /\ Protects' /\ known' = known /\ connected' = connected
  <2>1. /\ tags' \in [Peers -> SUBSET {"static", "api-protected"}]
        /\ \A q \in Peers : "static" \in tags[q] => "static" \in tags'[q]
    <3>1. CASE tags' = [tags EXCEPT ![p] = @ \cup {"api-protected"}]
      BY <1>1, <3>1
    <3>2. CASE tags' = [tags EXCEPT ![p] = @ \ {"api-protected"}]
      BY <1>1, <3>2
    <3> QED  BY <1>5, <3>1, <3>2, Zenon DEF ProtectPeer, UnprotectPeer
  <2>2. UNCHANGED <<known, connected, request>> /\ calls' = calls + 1
    BY <1>5 DEF ProtectPeer, UnprotectPeer, Called
  <2>3. Guarded => Guarded'
    BY <1>1, <1>2, <2>1, Zenon DEF Guarded
  <2>4. calls' \in Nat
    BY <1>1, <2>2
  <2> QED  BY <1>1, <1>2, <2>1, <2>2, <2>3, <2>4, Zenon DEF Protects
<1>6. CASE ConnectPeerReturns
  <2>1. connected \subseteq connected' /\ known' \subseteq known \cup connected'
    BY <1>6 DEF ConnectPeerReturns
  <2> QED  BY <1>2, <1>3, <1>6, <2>1
<1>7. CASE \E p \in Peers : ConnectPeer(p) \/ DisconnectPeer(p) \/ ProtectPeer(p) \/ UnprotectPeer(p)
  BY <1>2, <1>4, <1>5, <1>7
<1> QED  BY <1>6, <1>7, Zenon DEF API

(* addresses expire and the connection manager trims, *)
LEMMA NetworkKeeps ==
  ASSUME Protects, TrimPeers \/ PeersChange, UNCHANGED nodeVars
  PROVE  /\ Protects' /\ known' \subseteq known \cup connected'
         /\ \/ events' # events \/ at = "staticPeers" \/ "strayHost" \in held
            \/ \A p \in (setup.static \cap connected) : p \in connected'
<1>1. /\ known \subseteq Peers \cup {Self} /\ connected \subseteq Peers /\ hostUp \in BOOLEAN
      /\ tags \in [Peers -> SUBSET {"static", "api-protected"}]
      /\ hostUp \/ connected # {} => Guarded
      /\ setup \in Setups /\ dialing \subseteq setup.static /\ request \in Peers \cup {NoPeer}
      /\ events \in Nat /\ calls \in Nat /\ setup.static \subseteq Peers
  BY DEF Protects
<1>2. UNCHANGED <<hostUp, setup, dialing, request, calls, tags, at, held>>
  BY Zenon DEF TrimPeers, PeersChange, nodeVars, apiVars, mainVars
<1>0. Guarded' = Guarded
  BY <1>2, Zenon DEF Guarded
<1>3. CASE TrimPeers
  <2>1. PICK p \in Peers : Trim(p)
    BY <1>3, Zenon DEF TrimPeers
  <2>2. /\ p \in connected /\ tags[p] = {} /\ connected' = connected \ {p}
        /\ UNCHANGED <<known, events>>
    BY <1>3, <2>1 DEF Trim, TrimPeers
  <2>3. p \notin setup.static \/ at = "staticPeers" \/ "strayHost" \in held
    BY <1>1, <2>2, Zenon DEF Guarded
  <2> QED  BY <1>0, <1>1, <1>2, <2>2, <2>3, Zenon DEF Protects
<1>4. CASE PeersChange
  <2>1. PICK p \in Peers : Inbound(p) \/ Leave(p) \/ Expire(p)
    BY <1>4, Zenon DEF PeersChange
  <2>2. hostUp /\ events' = events + 1
    BY <1>4, Zenon DEF PeersChange
  <2>3. /\ known' \subseteq known \cup {p} /\ connected' \subseteq connected \cup {p}
        /\ known' \subseteq known \cup connected'
    BY <2>1 DEF Inbound, Leave, Expire
  <2>4. known' \subseteq Peers \cup {Self} /\ connected' \subseteq Peers
    BY <1>1, <2>3
  <2>5. events' \in Nat /\ events' # events
    BY <1>1, <2>2
  <2> QED  BY <1>0, <1>1, <1>2, <2>2, <2>3, <2>4, <2>5, Zenon DEF Protects
<1> QED  BY <1>3, <1>4

(* and discovery and the dials in the background add to them. *)
LEMMA DialsKeep ==
  ASSUME Protects, Discovers,
         \/ (DiscoveryLoop \/ \E w \in ConnectionWorkers : ConnectWorker(w)) /\ UNCHANGED nodeVars
         \/ \E p \in Peers : DialStatic(p)
  PROVE  Protects' /\ connected \subseteq connected' /\ UNCHANGED setup
<1>1. /\ known \subseteq Peers \cup {Self} /\ connected \subseteq Peers /\ hostUp \in BOOLEAN
      /\ tags \in [Peers -> SUBSET {"static", "api-protected"}]
      /\ hostUp \/ connected # {} => Guarded
      /\ setup \in Setups /\ dialing \subseteq setup.static /\ request \in Peers \cup {NoPeer}
      /\ events \in Nat /\ calls \in Nat /\ setup.static \subseteq Peers
  BY Zenon DEF Protects
<1>2. UNCHANGED <<hostUp, setup, tags, request, calls, events, at, held>>
  BY Zenon DEF DiscoveryLoop, ConnectWorker, DialStatic, nodeVars, apiVars, p2pVars, mainVars
<1>0. Guarded' = Guarded
  BY <1>2, Zenon DEF Guarded
<1>3. CASE DiscoveryLoop /\ UNCHANGED nodeVars
  <2>1. UNCHANGED <<connected, dialing>>
    BY <1>3, Zenon DEF DiscoveryLoop, nodeVars
  <2>2. known' \subseteq Peers \cup {Self}
    <3>1. CASE Found
      <4>1. Head(nodesCh) \in Passing
        BY <3>1, SeqTake, Zenon DEF Found, Discovers
      <4>2. Head(nodesCh).id \in Peers \cup {Self}
        BY <4>1, Zenon DEF Passing
      <4> QED  BY <1>1, <3>1, <4>2, Zenon DEF Found
    <3>2. CASE ConnectTick \/ Schedule \/ Return
      BY <1>1, <3>2, Zenon DEF ConnectTick, Schedule, Return
    <3> QED  BY <1>3, <3>1, <3>2, Zenon DEF DiscoveryLoop
  <2> QED  BY <1>0, <1>1, <1>2, <2>1, <2>2, Zenon DEF Protects
<1>4. ASSUME NEW w \in ConnectionWorkers, ConnectWorker(w), UNCHANGED nodeVars
      PROVE  Protects' /\ connected \subseteq connected'
  <2>1. UNCHANGED <<known, dialing>>
    BY <1>4, Zenon DEF ConnectWorker, nodeVars
  <2>2. CASE connected' = connected \cup {worker[w]} /\ worker[w] \notin {Idle, Gone} /\ hostUp
    <3>1. worker[w] \in Peers
      BY <2>2, Zenon DEF Discovers
    <3> QED  BY <1>0, <1>1, <1>2, <2>1, <2>2, <3>1, Zenon DEF Protects
  <2>3. CASE UNCHANGED connected
    BY <1>0, <1>1, <1>2, <2>1, <2>3, Zenon DEF Protects
  <2> QED  BY <1>4, <2>2, <2>3, Zenon DEF ConnectWorker, TakeAttempt, Connect, WorkerReturns
<1>5. ASSUME NEW p \in Peers, DialStatic(p)
      PROVE  Protects' /\ connected \subseteq connected'
  <2>1. dialing' \subseteq setup.static /\ UNCHANGED known
    BY <1>1, <1>5, Zenon DEF DialStatic
  <2>2. connected' = connected \/ (hostUp /\ connected' = connected \cup {p})
    BY <1>5 DEF DialStatic
  <2> QED  BY <1>0, <1>1, <1>2, <2>1, <2>2, Zenon DEF Protects
<1> QED  BY <1>2, <1>3, <1>4, <1>5, Zenon

(* So every step keeps the peers as they should be. *)
LEMMA ProtectsStep ==
  ASSUME IInv, Next
  PROVE  Protects' /\ setup' = setup
<1>1. Protects /\ Discovers
  BY DEF IInv
<1>2. CASE (initP2P \/ staticPeers) /\ UNCHANGED <<setup, apiVars>>
  BY <1>1, <1>2, HostKeeps, StaticKeeps
<1>3. CASE (TrimPeers \/ PeersChange) /\ UNCHANGED nodeVars
  BY <1>1, <1>3, NetworkKeeps, Zenon DEF nodeVars
<1>4. CASE \/ (DiscoveryLoop \/ \E w \in ConnectionWorkers : ConnectWorker(w)) /\ UNCHANGED nodeVars
           \/ \E p \in Peers : DialStatic(p)
  BY <1>1, <1>4, DialsKeep, Zenon
<1>5. CASE API
  BY <1>1, <1>5, APIKeeps
<1>6. CASE /\ UNCHANGED <<known, tags, events, setup, dialing, request, calls>>
           /\ at' = at \/ at # "staticPeers"
           /\ "strayHost" \in held => "strayHost" \in held'
           /\ UNCHANGED <<hostUp, connected>> \/ (hostUp' = FALSE /\ connected' = {})
  <2>1. CASE UNCHANGED <<hostUp, connected>>
    <3>1. Guarded => Guarded'
      BY <1>6, Zenon DEF Guarded
    <3> QED  BY <1>1, <1>6, <2>1, <3>1, Zenon DEF Protects
  <2>2. CASE hostUp' = FALSE /\ connected' = {}
    BY <1>1, <1>6, <2>2, Zenon DEF Protects
  <2> QED  BY <1>6, <2>1, <2>2, Zenon
<1> QED  BY <1>2, <1>3, <1>4, <1>5, <1>6, PeersFrame, Zenon

-----------------------------------------------------------------------------
(* The main goroutine alone opens and closes. *)
LEMMA MainFrame ==
  ASSUME Next
  PROVE  \/ MainSteps
         \/ Interrupt /\ UNCHANGED <<setup, apiVars>>
         \/ API
         \/ UNCHANGED <<mainVars, hostUp, setup, request>>
<1> USE DEF discoveryVars, p2pVars, nodeVars, apiVars
<1>1. CASE WatchHeadChanges  BY <1>1, Zenon DEF WatchHeadChanges
<1>2. CASE \E e \in Engines : Notify(e) \/ DriverLoop(e)  BY <1>2, Zenon DEF Notify, DriverLoop
<1>3. CASE \E p \in Peers : DialStatic(p)  BY <1>3, Zenon DEF DialStatic
<1>4. CASE (Discover \/ PeersChange) /\ UNCHANGED nodeVars
  <2>1. UNCHANGED hostUp
    BY <1>4, Zenon DEF Discover, PeersChange, TrimPeers, Feeders, DiscoveryLoop, ConnectWorker
  <2> QED  BY <1>4, <2>1
<1> QED  BY <1>1, <1>2, <1>3, <1>4, Zenon DEF Next

(* What has to be open after a step of New or Start; *)
LEMMA OpensAt ==
  ASSUME at' \in Initialised, tries' \in 0 .. MaxAttempts - 1,
         fields' \subseteq {"l1", "signer", "p2p", "server"},
         held' \subseteq {"l1", "signer", "server", "rpcL2", "strayHost", "strayConn"},
         attached' \in Seq(Engines), clients' \subseteq Engines, "l1" \in held', L2Open',
         at' \in Hosting => hostUp' /\ HasHost',
         at' \in Serving => (HasHost' => hostUp' /\ "p2p" \in fields'),
         at' = "listen" => "server" \in fields',
         "server" \in held' => "server" \in fields' /\ at' \in {"start", "running", "exited"},
         request' # NoPeer => "server" \in held'
  PROVE  Opens'
<1>1. at' \in Places /\ at' \notin {"initL1", "initL2"}
  BY DEF Initialised, Serving, Hosting, Places
<1>2. at' \in {"start", "running", "exited"} => at' \in Serving /\ at' \in {"start", "running", "exited", "stopServer"}
  BY Zenon DEF Serving
<1> QED  BY <1>1, <1>2, Zenon DEF Opens

(* with the engines attached so far; *)
LEMMA OpensAtInitL2 ==
  ASSUME at' = "initL2", tries' = 0, fields' \subseteq {"l1", "signer", "p2p", "server"},
         held' \subseteq {"l1", "signer", "server", "rpcL2", "strayHost", "strayConn"},
         attached' \in Seq(Engines), clients' \subseteq Engines, clients' = Attached',
         Len(attached') <= Len(setup'.engines),
         \A i \in DOMAIN attached' : attached'[i] = setup'.engines[i],
         "l1" \in held', "server" \notin held', request' = NoPeer
  PROVE  Opens'
<1>1. at' \in Places /\ at' \notin Initialised /\ at' \notin Serving /\ at' \notin Hosting /\ at' # "listen"
  BY DEF Initialised, Serving, Hosting, Places
<1>2. tries' \in 0 .. MaxAttempts - 1
  OBVIOUS
<1> QED  BY <1>1, <1>2, Zenon DEF Opens

(* when a step of init fails, nothing is served; *)
LEMMA FailKeeps ==
  ASSUME Opens, UNCHANGED <<setup, request>>, "server" \notin held, "server" \notin held', Fail,
         held' \subseteq {"l1", "signer", "server", "rpcL2", "strayHost", "strayConn"},
         UNCHANGED <<fields, attached, clients>>
  PROVE  Opens'
<1>1. MaxAttempts \in Nat \ {0}
  OBVIOUS
<1> QED  BY <1>1, SMTT(30) DEF Opens, Fail, Goto, Places, Serving, Initialised, Hosting

(* it is tried again, or fails; *)
LEMMA RetryKeeps ==
  ASSUME Opens, UNCHANGED <<setup, request>>, "server" \notin held, Retry,
         UNCHANGED <<fields, held, attached, clients, hostUp>>
  PROVE  Opens'
<1>1. CASE tries + 1 < MaxAttempts /\ tries' = tries + 1 /\ UNCHANGED at
  <2>1. tries' \in 0 .. MaxAttempts - 1
    BY <1>1, SMTT(30) DEF Opens
  <2> QED  BY <1>1, <2>1, Zenon DEF Opens, L2Open, HasHost, Attached
<1>2. CASE Fail
  <2>1. held' \subseteq {"l1", "signer", "server", "rpcL2", "strayHost", "strayConn"}
    BY DEF Opens
  <2> QED  BY <1>2, <2>1, FailKeeps
<1> QED  BY <1>1, <1>2 DEF Retry

(* and a driver's engine is attached. *)
LEMMA AttachKeeps ==
  ASSUME Opens, setup \in Setups, UNCHANGED <<setup, request>>, initL2
  PROVE  Opens'
<1>1. /\ setup.engines \in Seq(Engines) /\ attached \in Seq(Engines) /\ clients \subseteq Engines
      /\ MaxAttempts \in Nat \ {0}
  BY DEF Opens
<1>2. UNCHANGED <<fields, held, hostUp>> /\ at = "initL2" /\ "server" \notin held /\ "l1" \in held
  BY Zenon DEF initL2, Keep, p2pVars, Opens
<1>3. /\ clients = Range(attached) /\ Len(attached) <= Len(setup.engines)
      /\ \A i \in DOMAIN attached : attached[i] = setup.engines[i]
  BY <1>2 DEF Opens, Attached
<1>4. CASE Len(attached) < Len(setup.engines) /\ AttachEngine
  <2> DEFINE e == setup.engines[Len(attached) + 1]
  <2>1. CASE attached' = Append(attached, e) /\ clients' = clients \cup {e} /\ Goto("initL2")
    <3>1. e \in Engines /\ Len(attached) + 1 <= Len(setup.engines)
      BY <1>1, <1>4, SeqTypes
    <3>2. /\ attached' \in Seq(Engines) /\ Len(attached') = Len(attached) + 1
          /\ DOMAIN attached' = 1 .. Len(attached) + 1 /\ DOMAIN attached = 1 .. Len(attached)
          /\ attached'[Len(attached) + 1] = e
          /\ \A i \in 1 .. Len(attached) : attached'[i] = attached[i]
      BY <1>1, <2>1, <3>1, SMTT(30)
    <3>3. Range(attached') = Range(attached) \cup {e}
      <4>1. \A i \in 1 .. Len(attached) + 1 : i \in 1 .. Len(attached) \/ i = Len(attached) + 1
        BY <1>1, SeqTypes
      <4>2. Len(attached) + 1 \in 1 .. Len(attached) + 1 /\ 1 .. Len(attached) \subseteq 1 .. Len(attached) + 1
        BY <1>1, SeqTypes
      <4> HIDE DEF e
      <4> QED  BY <3>2, <4>1, <4>2, Zenon DEF Range
    <3>4. \A i \in DOMAIN attached' : attached'[i] = setup.engines[i]
      BY <1>1, <1>3, <3>2
    <3> HIDE DEF e
    <3>5. at' = "initL2" /\ tries' = 0 /\ clients' \subseteq Engines
      BY <1>1, <2>1, <3>1 DEF Goto
    <3>6. clients' = Attached'
      BY <1>3, <2>1, <3>3, Zenon DEF Attached
    <3>7. Len(attached') <= Len(setup'.engines) /\ \A i \in DOMAIN attached' : attached'[i] = setup'.engines[i]
      BY <3>1, <3>2, <3>4, Zenon
    <3>8. /\ fields' \subseteq {"l1", "signer", "p2p", "server"} /\ request' = NoPeer
          /\ held' \subseteq {"l1", "signer", "server", "rpcL2", "strayHost", "strayConn"}
          /\ "l1" \in held' /\ "server" \notin held'
      BY <1>2, Zenon DEF Opens
    <3> QED  BY <3>2, <3>5, <3>6, <3>7, <3>8, OpensAtInitL2, Zenon
  <2>2. CASE Retry /\ UNCHANGED <<attached, clients>>
    BY <1>2, <2>2, RetryKeeps
  <2> QED  BY <1>4, <2>1, <2>2 DEF AttachEngine
<1>5. CASE Len(attached) = Len(setup.engines) /\ Goto("initP2PSigner") /\ UNCHANGED <<attached, clients>>
  <2>1. attached = setup.engines
    <3>1. \A i \in 1 .. Len(attached) : attached[i] = setup.engines[i]
      BY <1>1, <1>3, SeqTypes, SMTT(30)
    <3> QED  BY <1>1, <1>5, <3>1
  <2>2. L2Open'
    BY <1>3, <1>5, <2>1, Zenon DEF L2Open, Attached
  <2>3. /\ at' = "initP2PSigner" /\ at' \in Initialised /\ at' \notin Serving /\ at' # "listen" /\ at' \notin Hosting
        /\ tries' \in 0 .. MaxAttempts - 1
    BY <1>1, <1>5 DEF Goto, Initialised, Serving, Hosting
  <2>4. /\ fields' \subseteq {"l1", "signer", "p2p", "server"}
        /\ held' \subseteq {"l1", "signer", "server", "rpcL2", "strayHost", "strayConn"}
        /\ "l1" \in held' /\ "server" \notin held' /\ request' = NoPeer
        /\ attached' \in Seq(Engines) /\ clients' \subseteq Engines
    BY <1>1, <1>2, <1>5, Zenon DEF Opens
  <2> QED  BY <2>2, <2>3, <2>4, OpensAt, Zenon
<1> QED  BY <1>4, <1>5 DEF initL2

(* New and Start: what comes next is opened, *)
LEMMA InitKeeps ==
  ASSUME Opens, setup \in Setups, UNCHANGED <<setup, request>>,
         \/ initL1 \/ initL2 \/ initP2PSigner \/ initP2P \/ staticPeers \/ p2pDiscovery
         \/ Serve \/ Start
  PROVE  Opens'
<1>1. /\ attached \in Seq(Engines) /\ clients \subseteq Engines /\ MaxAttempts \in Nat \ {0}
      /\ tries \in 0 .. MaxAttempts - 1
      /\ fields \subseteq {"l1", "signer", "p2p", "server"}
      /\ held \subseteq {"l1", "signer", "server", "rpcL2", "strayHost", "strayConn"}
      /\ at \in {"initL2"} \cup Initialised => "l1" \in held
      /\ at \in Initialised => L2Open
      /\ at \in Hosting => hostUp /\ HasHost
      /\ at \in Serving => (HasHost => hostUp /\ "p2p" \in fields)
  BY DEF Opens
<1>2. at \notin {"start", "running", "exited", "stopServer"} => "server" \notin held /\ request = NoPeer
  BY DEF Opens
<1>0. HasHost' = HasHost /\ request' = request
  BY Zenon DEF HasHost
<1>3. CASE initL1
  <2>1. at = "initL1" /\ "server" \notin held /\ UNCHANGED <<attached, clients, hostUp>>
    BY <1>2, <1>3, Zenon DEF initL1, p2pVars
  <2>2. CASE Retry /\ Keep
    BY <2>1, <2>2, RetryKeeps, Zenon DEF Keep
  <2>3. CASE Goto("initL2") /\ Opened("l1")
    <3>1. /\ at' = "initL2" /\ tries' = 0 /\ held' = held \cup {"l1"} /\ fields' = fields \cup {"l1"}
      BY <2>3 DEF Goto, Opened
    <3>2. /\ fields' \subseteq {"l1", "signer", "p2p", "server"}
          /\ held' \subseteq {"l1", "signer", "server", "rpcL2", "strayHost", "strayConn"}
      BY <1>1, <3>1
    <3>3. /\ clients' = Attached' /\ Len(attached') <= Len(setup'.engines)
          /\ \A i \in DOMAIN attached' : attached'[i] = setup'.engines[i]
      BY <2>1, Zenon DEF Opens, Attached
    <3>4. "l1" \in held' /\ "server" \notin held' /\ request' = NoPeer
      BY <1>0, <1>2, <2>1, <3>1
    <3> QED  BY <1>1, <2>1, <3>1, <3>2, <3>3, <3>4, OpensAtInitL2, Zenon
  <2> QED  BY <1>3, <2>2, <2>3, Zenon DEF initL1
<1>4. CASE initP2PSigner
  <2>0. at = "initP2PSigner" /\ "server" \notin held /\ UNCHANGED <<attached, clients, hostUp>>
    BY <1>2, <1>4, Zenon DEF initP2PSigner, p2pVars
  <2>1. CASE /\ at' = "initP2P" /\ tries' = 0
             /\ held' \in {held, held \cup {"signer"}} /\ fields' \in {fields, fields \cup {"signer"}}
    <3>2. /\ fields' \subseteq {"l1", "signer", "p2p", "server"}
          /\ held' \subseteq {"l1", "signer", "server", "rpcL2", "strayHost", "strayConn"}
          /\ "l1" \in held' /\ "server" \notin held' /\ L2Open'
      BY <1>1, <2>0, <2>1, Zenon DEF Initialised, L2Open, Attached
    <3>3. /\ at' \in Initialised /\ at' \notin Serving /\ at' # "listen" /\ at' \notin Hosting
          /\ tries' \in 0 .. MaxAttempts - 1
      BY <1>1, <2>1, SMTT(30) DEF Initialised, Serving, Hosting
    <3>4. attached' \in Seq(Engines) /\ clients' \subseteq Engines /\ request = NoPeer
      BY <1>1, <1>2, <2>0, Zenon
    <3> QED  BY <1>0, <3>2, <3>3, <3>4, OpensAt, Zenon
  <2>2. CASE Fail /\ Keep
    BY <1>1, <2>0, <2>2, FailKeeps, Zenon DEF Keep
  <2> QED  BY <1>4, <2>1, <2>2, Zenon DEF initP2PSigner, Goto, Opened, Keep
<1>5. CASE initP2P
  <2>1. /\ at = "initP2P" /\ "server" \notin held /\ UNCHANGED <<fields, held, attached, clients>>
        /\ "l1" \in held /\ L2Open'
    BY <1>1, <1>2, <1>5, Zenon DEF initP2P, Initialised, L2Open, Attached
  <2>0. /\ request = NoPeer /\ attached' \in Seq(Engines) /\ clients' \subseteq Engines
        /\ fields' \subseteq {"l1", "signer", "p2p", "server"}
    BY <1>1, <1>2, <2>1, Zenon
  <2>2. CASE Fail
    BY <1>1, <2>1, <2>2, FailKeeps, Zenon
  <2>3. CASE UNCHANGED <<at, tries>>
    <3>1. /\ at' \in Initialised /\ at' \notin Serving /\ at' # "listen" /\ at' \notin Hosting
      BY <2>1, <2>3 DEF Initialised, Serving, Hosting
    <3> QED  BY <1>0, <1>1, <2>0, <2>1, <2>3, <3>1, OpensAt, Zenon
  <2>4. CASE Goto("staticPeers") /\ hostUp' = TRUE /\ HasHost
    <3>1. /\ at' = "staticPeers" /\ at' \in Initialised /\ at' \notin Serving /\ at' # "listen"
          /\ tries' \in 0 .. MaxAttempts - 1
      BY <1>1, <2>4, SMTT(30) DEF Goto, Initialised, Serving, Hosting
    <3> QED  BY <1>0, <1>1, <2>0, <2>1, <2>4, <3>1, OpensAt, Zenon
  <2>5. CASE Goto("initRPCServer") /\ ~ HasHost
    <3>1. at' = "initRPCServer" /\ at' \in Initialised /\ at' # "listen" /\ at' \notin Hosting /\ tries' \in 0 .. MaxAttempts - 1
      BY <1>1, <2>5, SMTT(30) DEF Goto, Initialised, Serving, Hosting
    <3> QED  BY <1>0, <1>1, <2>0, <2>1, <2>5, <3>1, OpensAt, Zenon
  <2> QED  BY <1>5, <2>2, <2>3, <2>4, <2>5, Zenon DEF initP2P, Host, HasHost
<1>9. CASE staticPeers
  <2>1. /\ at = "staticPeers" /\ "server" \notin held /\ UNCHANGED <<fields, attached, clients, hostUp>>
        /\ "l1" \in held /\ hostUp /\ HasHost /\ L2Open'
    BY <1>1, <1>2, <1>9, Zenon DEF staticPeers, Initialised, Hosting, p2pVars, L2Open, Attached
  <2>2. CASE Fail /\ held' = held \cup {"strayHost"}
    <3>1. held' \subseteq {"l1", "signer", "server", "rpcL2", "strayHost", "strayConn"} /\ "server" \notin held'
      BY <1>1, <2>1, <2>2, Zenon
    <3> QED  BY <2>1, <2>2, <3>1, FailKeeps, Zenon
  <2>3. CASE UNCHANGED held /\ ((at' = at /\ tries' = tries) \/ Goto("p2pDiscovery"))
    <3>1. /\ at' \in Hosting /\ at' \in Initialised /\ at' \notin Serving /\ at' # "listen"
          /\ tries' \in 0 .. MaxAttempts - 1
      BY <1>1, <2>1, <2>3, SMTT(30) DEF Goto, Initialised, Serving, Hosting
    <3>2. /\ request = NoPeer /\ attached' \in Seq(Engines) /\ clients' \subseteq Engines
          /\ fields' \subseteq {"l1", "signer", "p2p", "server"}
      BY <1>1, <1>2, <2>1, Zenon
    <3> QED  BY <1>0, <1>1, <2>1, <2>3, <3>1, <3>2, OpensAt, Zenon
  <2> QED  BY <1>9, <2>2, <2>3, Zenon DEF staticPeers
<1>6. CASE p2pDiscovery
  <2>1. /\ at = "p2pDiscovery" /\ "server" \notin held /\ UNCHANGED <<attached, clients>>
        /\ "l1" \in held /\ hostUp /\ L2Open'
    BY <1>1, <1>2, <1>6, Zenon DEF p2pDiscovery, Initialised, Hosting, L2Open, Attached
  <2>2. CASE /\ Fail /\ UNCHANGED fields
             /\ held' \in {held} \cup (IF setup.p2p = "discovery" THEN {held \cup {"strayConn"}} ELSE {})
    <3>1. held' \subseteq {"l1", "signer", "server", "rpcL2", "strayHost", "strayConn"} /\ "server" \notin held'
      BY <1>1, <2>1, <2>2, SMTT(30)
    <3> QED  BY <2>1, <2>2, <3>1, FailKeeps, Zenon
  <2>3. CASE Goto("initRPCServer") /\ fields' = fields \cup {"p2p"} /\ UNCHANGED <<held, hostUp>>
    <3>1. at' = "initRPCServer" /\ at' \in Initialised /\ at' # "listen" /\ at' \notin Hosting /\ tries' \in 0 .. MaxAttempts - 1
      BY <1>1, <2>3, SMTT(30) DEF Goto, Initialised, Serving, Hosting
    <3>2. /\ request = NoPeer /\ attached' \in Seq(Engines) /\ clients' \subseteq Engines
          /\ fields' \subseteq {"l1", "signer", "p2p", "server"} /\ "p2p" \in fields' /\ held' = held /\ hostUp'
      BY <1>1, <1>2, <2>1, <2>3, Zenon
    <3> QED  BY <1>0, <1>1, <2>1, <3>1, <3>2, OpensAt, Zenon
  <2> QED  BY <1>6, <2>2, <2>3, Zenon DEF p2pDiscovery
<1>7. CASE Serve
  <2>1. /\ at \in {"initRPCServer", "listen"} /\ "server" \notin held
        /\ UNCHANGED <<attached, clients, hostUp>> /\ "l1" \in held /\ L2Open'
        /\ HasHost => hostUp /\ "p2p" \in fields
    BY <1>1, <1>2, <1>7, Zenon
       DEF Serve, initRPCServer, listen, Initialised, Serving, Hosting, p2pVars, L2Open, Attached
  <2>2. CASE initRPCServer
    <3>1. CASE Retry /\ Keep
      BY <2>1, <3>1, RetryKeeps DEF Keep
    <3>2. CASE Goto("listen") /\ held' = held \cup {"rpcL2"} /\ fields' = fields \cup {"server"}
      <4>1. /\ fields' \subseteq {"l1", "signer", "p2p", "server"} /\ "server" \notin held'
            /\ held' \subseteq {"l1", "signer", "server", "rpcL2", "strayHost", "strayConn"}
            /\ "l1" \in held' /\ (HasHost => hostUp /\ "p2p" \in fields')
        BY <1>1, <2>1, <3>2, Zenon
      <4>2. at' = "listen" /\ at' \in Initialised /\ at' \notin Hosting /\ tries' \in 0 .. MaxAttempts - 1
        BY <1>1, <3>2 DEF Goto, Initialised, Serving, Hosting
      <4>3. /\ request = NoPeer /\ attached' \in Seq(Engines) /\ clients' \subseteq Engines /\ hostUp' = hostUp
            /\ "server" \in fields'
        BY <1>1, <1>2, <2>1, <3>2
      <4>4. HasHost' => hostUp' /\ "p2p" \in fields'
        BY <1>0, <4>1, <4>3
      <4> QED  BY <1>0, <2>1, <4>1, <4>2, <4>3, <4>4, OpensAt, Zenon
    <3> QED  BY <2>2, <3>1, <3>2 DEF initRPCServer
  <2>3. CASE listen
    <3>1. CASE Fail /\ Keep
      BY <1>1, <2>1, <3>1, FailKeeps, Zenon DEF Keep
    <3>2. CASE Goto("start") /\ held' = held \cup {"server"} /\ UNCHANGED fields
      <4>1. /\ "server" \in fields /\ "l1" \in held'
            /\ held' \subseteq {"l1", "signer", "server", "rpcL2", "strayHost", "strayConn"}
        BY <1>1, <2>1, <2>3, <3>2, Zenon DEF listen, Opens
      <4>2. /\ at' \in {"start", "running", "exited"} /\ at' \in Initialised /\ at' \notin Hosting /\ at' # "listen"
            /\ tries' \in 0 .. MaxAttempts - 1
        BY <1>1, <3>2, SMTT(30) DEF Goto, Initialised, Serving, Hosting
      <4>3. /\ request = NoPeer /\ attached' \in Seq(Engines) /\ clients' \subseteq Engines /\ hostUp' = hostUp
            /\ fields' = fields
        BY <1>1, <1>2, <2>1, <3>2, Zenon
      <4>4. HasHost' => hostUp' /\ "p2p" \in fields'
        BY <1>0, <2>1, <4>3, SMTT(30)
      <4>5. "server" \in held' /\ "server" \in fields' /\ fields' \subseteq {"l1", "signer", "p2p", "server"}
        BY <1>1, <3>2, <4>1, <4>3, Zenon
      <4> QED  BY <2>1, <4>1, <4>2, <4>3, <4>4, <4>5, OpensAt, Zenon
    <3> QED  BY <2>3, <3>1, <3>2 DEF listen
  <2> QED  BY <1>7, <2>2, <2>3, Zenon DEF Serve
<1>8. CASE Start
  <2>1. UNCHANGED <<fields, held, attached, clients, hostUp>> /\ at = "start" /\ L2Open'
    BY <1>1, <1>8, Zenon DEF Start, Keep, p2pVars, L2Open, Attached, Initialised, Serving, Hosting
  <2>2. at' \in {"start", "running", "exited"} /\ tries' \in 0 .. MaxAttempts - 1
    <3>1. at' \in {"start", "running", "exited"} /\ tries' \in {0, tries}
      BY <1>8, <2>1, Zenon DEF Start, Goto
    <3> QED  BY <1>1, <3>1
  <2>3. at \in Serving /\ at' \in Initialised /\ at' \notin Hosting /\ at' # "listen"
    BY <2>1, <2>2 DEF Initialised, Serving, Hosting
  <2>4. "l1" \in held' /\ ("server" \in held => "server" \in fields) /\ (request # NoPeer => "server" \in held)
    BY <2>1, <2>3, Zenon DEF Opens, Initialised
  <2> QED  BY <1>0, <1>1, <2>1, <2>2, <2>3, <2>4, OpensAt, Zenon
<1> QED  BY AttachKeeps, <1>3, <1>4, <1>5, <1>6, <1>7, <1>8, <1>9, Zenon

(* The steps of Close. *)
Shutting == {"stopServer", "closeP2P", "closeSigner", "unsubscribe", "closeEngines", "closeSources",
             "closed"}

(* and the interrupt and Close. *)
LEMMA CloseKeeps ==
  ASSUME Opens, UNCHANGED <<setup, request>>, Interrupt \/ Close
  PROVE  Opens'
<1>1. /\ tries \in 0 .. MaxAttempts - 1 /\ 0 \in 0 .. MaxAttempts - 1
      /\ "server" \in held => at \in {"start", "running", "exited", "stopServer"} /\ "server" \in fields
      /\ request # NoPeer => "server" \in held
  BY SMTT(30) DEF Opens
<1>2. /\ Shutting \subseteq Places /\ Shutting \cap ({"initL1", "initL2"} \cup Initialised \cup Serving) = {}
      /\ Hosting \cup {"listen"} \subseteq Initialised
  BY DEF Shutting, Places, Initialised, Serving, Hosting
<1>3. ASSUME at' \in Shutting, tries' \in {0, tries}, UNCHANGED <<fields, attached>>,
             held' \subseteq held, clients' \subseteq clients, "server" \notin held', request = NoPeer
      PROVE  Opens'
  <2>1. /\ at' \in Places /\ at' \notin {"initL1", "initL2"} /\ at' \notin Initialised /\ at' \notin Serving
        /\ at' \notin Hosting /\ at' # "listen" /\ at' \notin {"initL2"} \cup Initialised
    BY <1>2, <1>3, Zenon
  <2>2. tries' \in 0 .. MaxAttempts - 1
    BY <1>1, <1>3, Zenon
  <2> QED  BY <1>3, <2>1, <2>2, Zenon DEF Opens
<1>4. CASE Interrupt
  <2>1. /\ at = "running" /\ at' = "stopServer" /\ tries' = 0
        /\ UNCHANGED <<fields, held, attached, clients, hostUp>>
    BY <1>4, Zenon DEF Interrupt, Goto, p2pVars
  <2>2. /\ at' \in Places /\ at' \notin {"initL1", "initL2"} /\ at' \notin Initialised /\ at' \notin Serving
        /\ at' \notin Hosting /\ at' # "listen" /\ at' \notin {"initL2"} \cup Initialised
    BY <1>2, <2>1, Zenon DEF Shutting
  <2> QED  BY <1>1, <2>1, <2>2, Zenon DEF Opens, L2Open, HasHost, Attached
<1>5. CASE Close
  <2>1. UNCHANGED <<fields, attached>>
    BY <1>5, Zenon DEF Close
  <2>2. CASE stopServer
    <3>1. CASE UNCHANGED <<at, tries, held, clients, hostUp>>
      BY <2>1, <3>1, Zenon DEF Opens, L2Open, HasHost, Attached
    <3>2. CASE Goto("closeP2P") /\ "server" \notin fields /\ UNCHANGED <<held, clients>>
      BY <1>1, <1>3, <2>1, <3>2 DEF Goto, Shutting
    <3>3. CASE Goto("closeP2P") /\ request = NoPeer /\ held' = held \ {"server"} /\ UNCHANGED clients
      BY <1>3, <2>1, <3>3 DEF Goto, Shutting
    <3> QED  BY <2>2, <3>1, <3>2, <3>3, Zenon DEF stopServer, Skip
  <2>3. CASE closeP2P \/ closeSigner \/ unsubscribe \/ closeEngines \/ closeSources
    <3>1. at \in Shutting \ {"stopServer"}
      BY <2>3, Zenon DEF closeP2P, closeSigner, unsubscribe, closeEngines, closeSources, Shutting
    <3>2. "server" \notin held /\ request = NoPeer
      BY <1>1, <3>1 DEF Shutting
    <3>3. at' \in Shutting /\ tries' \in {0, tries} /\ held' \subseteq held /\ clients' \subseteq clients
      BY <2>3, <3>1, Zenon
         DEF closeP2P, closeSigner, unsubscribe, closeEngines, closeSources, Goto, Shutting
    <3> QED  BY <1>3, <2>1, <3>2, <3>3, Zenon
  <2> QED  BY <1>5, <2>2, <2>3, Zenon DEF Close
<1> QED  BY <1>4, <1>5, Zenon

(* A request is served only while the server is open. *)
LEMMA OpensStep ==
  ASSUME IInv, Next
  PROVE  Opens'
<1>1. Opens /\ Protects
  BY DEF IInv
<1>2. CASE MainSteps
  <2>1. UNCHANGED <<setup, request>> /\ setup \in Setups
    BY <1>1, <1>2 DEF MainSteps, apiVars, Protects
  <2> QED  BY <1>1, <1>2, <2>1, InitKeeps, CloseKeeps, Zenon DEF MainSteps
<1>3. CASE Interrupt /\ UNCHANGED <<setup, apiVars>>
  <2>1. UNCHANGED <<setup, request>>
    BY <1>3 DEF apiVars
  <2> QED  BY <1>1, <1>3, <2>1, CloseKeeps, Zenon
<1>4. CASE API
  <2>1. UNCHANGED <<mainVars, hostUp, setup>>
    BY <1>4, Zenon DEF API, p2pVars
  <2>2. request' # NoPeer => "server" \in held
    BY <1>1, <1>4, Zenon
       DEF API, ConnectPeerReturns, ConnectPeer, DisconnectPeer, ProtectPeer, UnprotectPeer,
                      Accepts, Opens
  <2> QED  BY <1>1, <2>1, <2>2, Zenon DEF Opens, mainVars, L2Open, HasHost, Attached
<1>5. CASE UNCHANGED <<mainVars, hostUp, setup, request>>
  BY <1>1, <1>5, Zenon DEF Opens, mainVars, L2Open, HasHost, Attached
<1> QED  BY <1>2, <1>3, <1>4, <1>5, MainFrame, Zenon

-----------------------------------------------------------------------------
(* The loops of the drivers are touched by Start, by Close, and by the drivers. *)
LEMMA LoopsFrame ==
  ASSUME Next
  PROVE  \/ at \notin Looping /\ UNCHANGED loop
         \/ Start \/ Close
         \/ \E e \in Engines : DriverLoop(e)
         \/ UNCHANGED <<loop, held, attached, clients>> /\ (at' = at \/ at' \in Looping)
<1> USE DEF nodeVars, mainVars
<1>1. CASE MainSteps
  <2>1. CASE initL1  BY <2>1, Zenon DEF initL1, Looping
  <2>2. CASE initL2  BY <2>2, Zenon DEF initL2, Looping
  <2>3. CASE initP2PSigner  BY <2>3, Zenon DEF initP2PSigner, Looping
  <2>4. CASE initP2P  BY <2>4, Zenon DEF initP2P, Looping
  <2>7. CASE staticPeers  BY <2>7, Zenon DEF staticPeers, Looping
  <2>5. CASE p2pDiscovery  BY <2>5, Zenon DEF p2pDiscovery, Looping
  <2>6. CASE Serve  BY <2>6, Zenon DEF Serve, initRPCServer, listen, Looping
  <2> QED  BY <1>1, <2>1, <2>2, <2>3, <2>4, <2>5, <2>6, <2>7, Zenon DEF MainSteps
<1>2. CASE Interrupt  BY <1>2, Zenon DEF Interrupt, Goto, Looping
<1>3. CASE WatchHeadChanges  BY <1>3, Zenon DEF WatchHeadChanges
<1>4. CASE API  BY <1>4, Zenon DEF API
<1>5. CASE \E e \in Engines : Notify(e)  BY <1>5, Zenon DEF Notify
<1>6. CASE \E p \in Peers : DialStatic(p)  BY <1>6, Zenon DEF DialStatic
<1>7. CASE UNCHANGED nodeVars  BY <1>7, Zenon
<1> QED  BY <1>1, <1>2, <1>3, <1>4, <1>5, <1>6, <1>7, Zenon DEF Next

(* A loop that is open has its sources: Start opens it when they are there, and Close waits *)
(* for it before it closes them.                                                            *)
LEMMA LoopsStep ==
  ASSUME IInv, Next
  PROVE  Loops'
<1>1. /\ loop \in [Engines -> {"off", "idle", "busy", "returned"}]
      /\ \A e \in Engines : loop[e] \in Open =>
           e \in Attached /\ "l1" \in held /\ e \in clients /\ at \in Looping
  BY Zenon DEF IInv, Loops
<1>2. CASE at \notin Looping /\ UNCHANGED loop
  BY <1>1, <1>2, Zenon DEF Loops
<1>3. CASE UNCHANGED <<loop, held, attached, clients>> /\ (at' = at \/ at' \in Looping)
  BY <1>1, <1>3, Zenon DEF Loops, Attached
<1>4. CASE Start
  <2>1. /\ at = "start" /\ "l1" \in held /\ clients = Attached /\ attached \in Seq(Engines)
        /\ UNCHANGED <<held, attached, clients>>
    BY <1>4, Zenon DEF Start, Keep, IInv, Opens, Initialised, Serving, Hosting, L2Open
  <2>2. at' \in Looping
    BY <1>4, <2>1, Zenon DEF Start, Goto, Looping
  <2>3. CASE UNCHANGED loop
    BY <1>1, <2>1, <2>2, <2>3, Zenon DEF Loops, Attached
  <2>4. ASSUME NEW e \in First({"off"}), loop' = [loop EXCEPT ![e] = "idle"]
        PROVE  Loops'
    <3>1. e \in Attached /\ e \in Engines
      <4>1. PICK i \in DOMAIN attached : e = attached[i]
        BY <2>4, Zenon DEF First
      <4>2. e \in Attached
        BY <4>1, Zenon DEF Attached, Range
      <4>3. Attached \subseteq Engines
        BY <2>1, SeqRange, Zenon DEF Attached
      <4> QED  BY <4>2, <4>3, Zenon
    <3> QED  BY <1>1, <2>1, <2>2, <2>4, <3>1, Zenon DEF Loops, Attached
  <2> QED  BY <1>4, <2>3, <2>4, Zenon DEF Start
<1>5. ASSUME NEW e \in Engines, DriverLoop(e)
      PROVE  Loops'
  <2>1. UNCHANGED <<at, held, attached, clients>>
    BY <1>5, Zenon DEF DriverLoop, mainVars
  <2>2. loop[e] \in Open /\ (loop' = [loop EXCEPT ![e] = "busy"] \/ loop' = [loop EXCEPT ![e] = "idle"])
    BY <1>5, Zenon DEF DriverLoop, Handle, Handled, Open
  <2> QED  BY <1>1, <2>1, <2>2, Zenon DEF Loops, Attached
<1>6. CASE Close
  <2>1. UNCHANGED attached
    BY <1>6, Zenon DEF Close
  <2>2. CASE closeEngines
    <3>1. UNCHANGED <<held, clients>> /\ at = "closeEngines"
      BY <2>2, Zenon DEF closeEngines
    <3>2. CASE (\A e \in Attached : loop[e] \notin Open) /\ UNCHANGED loop
      BY <1>1, <3>2 DEF Loops
    <3>3. CASE /\ \E e \in First(Open) : loop[e] = "idle" /\ loop' = [loop EXCEPT ![e] = "returned"]
               /\ UNCHANGED at
      <4>1. PICK e \in First(Open) : loop' = [loop EXCEPT ![e] = "returned"]
        BY <3>3, Zenon
      <4>2. loop' \in [Engines -> {"off", "idle", "busy", "returned"}]
            /\ \A f \in Engines : loop'[f] \in Open => loop[f] \in Open
        BY <1>1, <4>1, Zenon DEF Open
      <4> QED  BY <1>1, <2>1, <3>1, <3>3, <4>2, Zenon DEF Loops, Attached
    <3> QED  BY <2>2, <3>2, <3>3, Zenon DEF closeEngines
  <2>3. CASE closeSources
    <3>1. at \notin Looping /\ UNCHANGED loop
      BY <2>3, Zenon DEF closeSources, Looping
    <3> QED  BY <1>2, <3>1
  <2>4. CASE stopServer \/ closeP2P \/ closeSigner \/ unsubscribe
    <3>1. /\ UNCHANGED <<loop, clients>> /\ ("l1" \in held => "l1" \in held')
          /\ at' = at \/ at' \in Looping
      BY <2>4, Zenon DEF stopServer, closeP2P, closeSigner, unsubscribe, Skip, Goto, Looping
    <3> QED  BY <1>1, <2>1, <3>1, Zenon DEF Loops, Attached
  <2> QED  BY <1>6, <2>2, <2>3, <2>4, Zenon DEF Close
<1> QED  BY <1>2, <1>3, <1>4, <1>5, <1>6, LoopsFrame, Zenon

-----------------------------------------------------------------------------
(* The heads are touched by the subscription and the drivers, besides its beginning and end. *)
LEMMA HeadsFrame ==
  ASSUME Next
  PROVE  \/ WatchHeadChanges
         \/ \E e \in Engines : Notify(e) \/ DriverLoop(e)
         \/ heads' \in {heads, "resubscribe", "returned"} /\ UNCHANGED <<l1Head, notify, queue>>
<1> USE DEF nodeVars, headVars
<1>1. CASE MainSteps
  <2>1. CASE initL1  BY <2>1, Zenon DEF initL1
  <2>2. CASE initL2  BY <2>2, Zenon DEF initL2
  <2>3. CASE initP2PSigner  BY <2>3, Zenon DEF initP2PSigner
  <2>4. CASE initP2P  BY <2>4, Zenon DEF initP2P
  <2>9. CASE staticPeers  BY <2>9, Zenon DEF staticPeers
  <2>5. CASE p2pDiscovery  BY <2>5, Zenon DEF p2pDiscovery
  <2>6. CASE Serve  BY <2>6, Zenon DEF Serve
  <2>7. CASE Start  BY <2>7, Zenon DEF Start
  <2>8. CASE Close
    <3>1. heads' \in {heads, "returned"}
      BY <2>8, Zenon
         DEF Close, stopServer, closeP2P, closeSigner, unsubscribe, closeEngines, closeSources
    <3> QED  BY <2>8, <3>1, Zenon DEF Close
  <2> QED  BY <1>1, <2>1, <2>2, <2>3, <2>4, <2>5, <2>6, <2>7, <2>8, <2>9, Zenon DEF MainSteps
<1>2. CASE Interrupt  BY <1>2, Zenon DEF Interrupt
<1>3. CASE API  BY <1>3, Zenon DEF API
<1>4. CASE \E p \in Peers : DialStatic(p)  BY <1>4, Zenon DEF DialStatic
<1>5. CASE UNCHANGED nodeVars  BY <1>5, Zenon
<1> QED  BY <1>1, <1>2, <1>3, <1>4, <1>5, Zenon DEF Next

(* No engine is notified more often than there were heads. *)
LEMMA NotifiesStep ==
  ASSUME IInv, Next
  PROVE  Notifies'
<1>1. /\ heads \in {"off", "resubscribe", "subscribed", "calling", "returned"}
      /\ l1Head \in 0 .. setup.heads /\ queue \in [Engines -> 0 .. HeadsBuffer]
      /\ notify \in [Engines -> Nat]
      /\ \A e \in Engines : notify[e] <= l1Head /\ (heads = "calling" => notify[e] < l1Head)
  BY Zenon DEF IInv, Notifies
<1>2. setup' = setup /\ setup.heads \in Nat /\ l1Head \in Nat /\ HeadsBuffer \in Nat \ {0}
  <2>1. setup' = setup /\ setup \in Setups
    BY ProtectsStep, Zenon DEF IInv, Protects
  <2> QED  BY <1>1, <2>1, SMTT(60)
<1>3. CASE heads' \in {heads, "resubscribe", "returned"} /\ UNCHANGED <<l1Head, notify, queue>>
  BY <1>1, <1>2, <1>3, Zenon DEF Notifies
<1>4. CASE WatchHeadChanges
  <2>1. UNCHANGED queue
    BY <1>4 DEF WatchHeadChanges
  <2>2. CASE Subscribe
    BY <1>1, <1>2, <2>1, <2>2 DEF Subscribe, Notifies
  <2>3. CASE SubscriptionFails \/ ReceiveHead
    <3>1. /\ l1Head < setup.heads /\ l1Head' = l1Head + 1 /\ UNCHANGED notify
          /\ heads' \in {"resubscribe", "calling"}
      BY <2>3 DEF SubscriptionFails, ReceiveHead
    <3>2. \A e \in Engines : notify'[e] < l1Head'
      BY <1>1, <1>2, <3>1, SMTT(30)
    <3>3. l1Head' \in 0 .. setup.heads /\ \A e \in Engines : notify'[e] <= l1Head'
      BY <1>1, <1>2, <3>1
    <3> QED  BY <1>1, <1>2, <2>1, <3>1, <3>2, <3>3, Zenon DEF Notifies
  <2>4. CASE OnNewL1Head
    <3>1. /\ heads = "calling" /\ heads' = "subscribed" /\ UNCHANGED l1Head
          /\ notify' = [e \in Engines |-> IF e \in Attached THEN notify[e] + 1 ELSE notify[e]]
      BY <2>4, Zenon DEF OnNewL1Head
    <3>2. \A e \in Engines : notify'[e] \in Nat /\ notify'[e] <= l1Head
      BY <1>1, <1>2, <3>1, SMTT(30)
    <3>3. notify' \in [Engines -> Nat]
      BY <1>1, <3>1, SMTT(30)
    <3> QED  BY <1>1, <1>2, <2>1, <3>1, <3>2, <3>3, Zenon DEF Notifies
  <2> QED  BY <1>4, <2>2, <2>3, <2>4 DEF WatchHeadChanges
<1>5. ASSUME NEW e \in Engines, Notify(e)
      PROVE  Notifies'
  <2>1. /\ UNCHANGED <<heads, l1Head>> /\ notify[e] > 0 /\ notify' = [notify EXCEPT ![e] = @ - 1]
        /\ \/ queue[e] < HeadsBuffer /\ queue' = [queue EXCEPT ![e] = @ + 1]
           \/ UNCHANGED queue
    BY <1>5, Zenon DEF Notify, OnL1Head
  <2>2. notify' \in [Engines -> Nat] /\ \A f \in Engines : notify'[f] <= notify[f]
    BY <1>1, <2>1, SMTT(30)
  <2>3. queue' \in [Engines -> 0 .. HeadsBuffer]
    <3>1. CASE queue[e] < HeadsBuffer /\ queue' = [queue EXCEPT ![e] = @ + 1]
      <4>1. queue[e] \in 0 .. HeadsBuffer
        BY <1>1, Zenon
      <4>2. queue[e] + 1 \in 0 .. HeadsBuffer
        BY <1>2, <3>1, <4>1
      <4> QED  BY <1>1, <3>1, <4>2, Zenon
    <3> QED  BY <1>1, <2>1, <3>1, Zenon
  <2>4. \A f \in Engines : notify'[f] <= l1Head /\ (heads = "calling" => notify'[f] < l1Head)
    <3>1. \A f \in Engines : notify'[f] \in Nat /\ notify[f] \in Nat
      BY <1>1, <2>2
    <3> QED  BY <1>1, <1>2, <2>2, <3>1, LessThanLess, Zenon
  <2> QED  BY <1>1, <1>2, <2>1, <2>2, <2>3, <2>4, Zenon DEF Notifies
<1>6. ASSUME NEW e \in Engines, DriverLoop(e)
      PROVE  Notifies'
  <2>1. UNCHANGED <<heads, l1Head, notify>>
    BY <1>6, Zenon DEF DriverLoop
  <2>2. queue' \in [Engines -> 0 .. HeadsBuffer]
    <3>1. CASE queue[e] > 0 /\ queue' = [queue EXCEPT ![e] = @ - 1]
      BY <1>1, <1>2, <3>1, SMTT(30)
    <3> QED  BY <1>1, <1>6, <3>1, Zenon DEF DriverLoop, Handle, Handled
  <2> QED  BY <1>1, <1>2, <2>1, <2>2, Zenon DEF Notifies
<1> QED  BY <1>3, <1>4, <1>5, <1>6, HeadsFrame, Zenon

-----------------------------------------------------------------------------
(* What Close has closed is touched by the main goroutine alone: without the host nobody *)
(* connects, and the subscription that has ended does not begin again.                   *)
LEMMA ClosesFrame ==
  ASSUME Next
  PROVE  \/ MainSteps \/ Interrupt
         \/ /\ UNCHANGED <<mainVars, udp, hostUp, resourcesCtx>>
            /\ heads' = heads \/ heads \notin {"off", "returned"}
            /\ connected' \subseteq connected \/ hostUp
<1> USE DEF discoveryVars, p2pVars, peerVars, nodeVars, headVars
<1>1. CASE WatchHeadChanges
  BY <1>1, Zenon DEF WatchHeadChanges, Subscribe, SubscriptionFails, ReceiveHead, OnNewL1Head
<1>2. CASE \E e \in Engines : Notify(e) \/ DriverLoop(e)
  BY <1>2, Zenon DEF Notify, DriverLoop
<1>3. CASE \E p \in Peers : DialStatic(p)
  BY <1>3, Zenon DEF DialStatic
<1>4. CASE API
  <2>1. UNCHANGED <<mainVars, udp, hostUp, resourcesCtx, heads>>
    BY <1>4, Zenon DEF API
  <2>2. connected' \subseteq connected \/ hostUp
    BY <1>4, Zenon
       DEF API, ConnectPeerReturns, ConnectPeer, DisconnectPeer, ProtectPeer, UnprotectPeer
  <2> QED  BY <2>1, <2>2, Zenon
<1>5. CASE (Discover \/ PeersChange) /\ UNCHANGED nodeVars
  <2>1. UNCHANGED <<mainVars, heads>>
    BY <1>5, Zenon
  <2>2. CASE Feeders \/ DiscoveryLoop
    BY <2>1, <2>2, Zenon DEF Feeders, DiscoveryLoop
  <2>3. CASE TrimPeers
    BY <2>1, <2>3, Zenon DEF TrimPeers, Trim
  <2>4. CASE PeersChange
    BY <2>1, <2>4, Zenon DEF PeersChange
  <2>5. CASE \E w \in ConnectionWorkers : ConnectWorker(w)
    BY <2>1, <2>5, Zenon DEF ConnectWorker, TakeAttempt, Connect, WorkerReturns
  <2> QED  BY <1>5, <2>2, <2>3, <2>4, <2>5, Zenon DEF Discover
<1> QED  BY <1>1, <1>2, <1>3, <1>4, <1>5, Zenon DEF Next

(* Every step of Close leaves closed what the steps before it have closed. *)
LEMMA ClosesStep ==
  ASSUME IInv, Next
  PROVE  Closes'
<1>1. /\ Closes /\ Opens /\ Protects
  BY DEF IInv
<1>2. CASE /\ UNCHANGED <<mainVars, udp, hostUp, resourcesCtx>>
           /\ heads' = heads \/ heads \notin {"off", "returned"}
           /\ connected' \subseteq connected \/ hostUp
  BY <1>1, <1>2, Zenon DEF Closes, HostGone, mainVars, Cancelled
<1>3. ASSUME at \notin Disconnected, at' \notin Disconnected, UNCHANGED <<udp, hostUp, connected>>,
             "p2p" \in fields' => "p2p" \in fields, fields \subseteq fields',
             at \notin Hosting, at' \notin Hosting, at' \in WithoutP2P => at \in WithoutP2P,
             "strayHost" \in held => "strayHost" \in held'
      PROVE  Closes'
  BY <1>1, <1>3, Zenon DEF Closes, HostGone, Disconnected, Unsigned, Unsubscribed
<1> USE DEF Disconnected, Unsigned, Unsubscribed, WithoutP2P, Hosting, Goto, Fail
<1>4. CASE initL1 \/ initL2 \/ initP2PSigner \/ Serve
  <2>1. UNCHANGED <<udp, hostUp, connected>>
    BY <1>4, Zenon DEF initL1, initL2, initP2PSigner, Serve, p2pVars, peerVars
  <2>2. fields \subseteq fields' /\ ("p2p" \in fields' => "p2p" \in fields)
    <3>1. fields' = fields \/ \E r \in {"l1", "signer", "server"} : fields' = fields \cup {r}
      <4>1. CASE initL1 \/ initL2  BY <4>1, Zenon DEF initL1, initL2, Opened, Keep
      <4>2. CASE initP2PSigner \/ Serve
        BY <4>2, Zenon DEF initP2PSigner, Serve, initRPCServer, listen, Opened, Keep
      <4> QED  BY <1>4, <4>1, <4>2, Zenon
    <3> QED  BY <3>1
  <2>0. "strayHost" \in held => "strayHost" \in held'
    BY <1>4, Zenon DEF initL1, initL2, initP2PSigner, Serve, initRPCServer, listen, Opened, Keep
  <2>3. CASE initL1  BY <1>3, <2>0, <2>1, <2>2, <2>3, Zenon DEF initL1, Retry
  <2>4. CASE initL2  BY <1>3, <2>0, <2>1, <2>2, <2>4, Zenon DEF initL2, AttachEngine, Retry
  <2>5. CASE initP2PSigner  BY <1>3, <2>0, <2>1, <2>2, <2>5, Zenon DEF initP2PSigner
  <2>6. CASE Serve  BY <1>3, <2>0, <2>1, <2>2, <2>6, Zenon DEF Serve, initRPCServer, listen, Retry
  <2> QED  BY <1>4, <2>3, <2>4, <2>5, <2>6
<1>5. CASE initP2P
  <2>1. at = "initP2P" /\ UNCHANGED <<udp, connected, fields, held>>
    BY <1>5, Zenon DEF initP2P
  <2>2. "p2p" \notin fields /\ ~ udp /\ HostGone
    BY <1>1, <2>1, Zenon DEF Closes
  <2>3. CASE UNCHANGED hostUp /\ at' \in {at, "stopServer", "initRPCServer"}
    BY <2>1, <2>2, <2>3, Zenon DEF Closes, HostGone
  <2>4. CASE at' = "staticPeers"
    BY <2>1, <2>2, <2>4, Zenon DEF Closes
  <2> QED  BY <1>5, <2>3, <2>4, Zenon DEF initP2P, Host
<1>9. CASE staticPeers
  <2>1. at = "staticPeers" /\ UNCHANGED <<udp, fields>>
    BY <1>9, Zenon DEF staticPeers, p2pVars
  <2>2. "p2p" \notin fields /\ ~ udp
    BY <1>1, <2>1, Zenon DEF Closes
  <2>3. CASE at' \in Hosting
    BY <2>1, <2>2, <2>3, Zenon DEF Closes
  <2>4. CASE at' = "stopServer" /\ held' = held \cup {"strayHost"}
    BY <2>1, <2>2, <2>4, Zenon DEF Closes, HostGone
  <2> QED  BY <1>9, <2>1, <2>3, <2>4, Zenon DEF staticPeers
<1>6. CASE p2pDiscovery
  <2>1. CASE at' = "initRPCServer" /\ fields' = fields \cup {"p2p"}
    BY <2>1, Zenon DEF Closes
  <2>2. CASE at' = "stopServer" /\ hostUp' = FALSE /\ connected' = {} /\ UNCHANGED <<fields, udp>>
    BY <1>1, <2>2, Zenon DEF Closes, HostGone
  <2> QED  BY <1>6, <2>1, <2>2, Zenon DEF p2pDiscovery
<1>7. CASE Start \/ Interrupt
  <2>1. /\ UNCHANGED <<udp, hostUp, connected, fields, held>> /\ at \in {"start", "running"}
        /\ at' \in {"start", "running", "exited", "stopServer"}
    BY <1>7, Zenon DEF Start, Interrupt, Keep, p2pVars, peerVars
  <2> QED  BY <1>3, <2>1, Zenon
<1>8. CASE Close
  <2>1. UNCHANGED fields
    BY <1>8, Zenon DEF Close
  <2>2. CASE stopServer
    <3>1. /\ UNCHANGED <<udp, hostUp, connected>> /\ at = "stopServer" /\ at' \in {"stopServer", "closeP2P"}
          /\ "strayHost" \in held => "strayHost" \in held'
      BY <2>2, Zenon DEF stopServer, Skip
    <3> QED  BY <1>3, <2>1, <3>1, Zenon
  <2>3. CASE closeP2P
    <3>1. at = "closeP2P" /\ at' = "closeSigner" /\ UNCHANGED held
      BY <2>3, Zenon DEF closeP2P
    <3>2. "server" \notin held
      BY <1>1, <3>1, Zenon DEF Opens
    <3>3. ~ udp' /\ HostGone'
      BY <1>1, <2>3, <3>1, Zenon DEF closeP2P, Closes, HostGone
    <3> QED  BY <3>1, <3>2, <3>3, Zenon DEF Closes
  <2>4. CASE closeSigner
    BY <1>1, <2>1, <2>4, Zenon DEF closeSigner, Closes, HostGone, Cancelled
  <2>5. CASE unsubscribe
    BY <1>1, <2>1, <2>5, Zenon DEF unsubscribe, Closes, HostGone, Cancelled
  <2>6. CASE closeEngines
    BY <1>1, <2>1, <2>6, Zenon DEF closeEngines, Closes, HostGone, Cancelled
  <2>7. CASE closeSources
    BY <1>1, <2>1, <2>7, Zenon DEF closeSources, Closes, HostGone, Cancelled
  <2> QED  BY <1>8, <2>2, <2>3, <2>4, <2>5, <2>6, <2>7, Zenon DEF Close
<1> QED  BY <1>2, <1>4, <1>5, <1>6, <1>7, <1>8, <1>9, ClosesFrame, Zenon DEF MainSteps

-----------------------------------------------------------------------------
(* A step panics only with p2p disabled, with a server that does not listen, or in a feeder *)
(* of discovery after the loop has returned.                                                *)
LEMMA PanicStep ==
  ASSUME IInv, Next
  PROVE  panicked' \in BOOLEAN /\ PanicPlaces'
<1>1. ~ panicked /\ Discovers /\ setup' = setup
  BY ProtectsStep, Zenon DEF Next, Alive, IInv
<1>2. CASE UNCHANGED panicked
  BY <1>1, <1>2, Zenon DEF PanicPlaces, IInv
<1>3. CASE Feeders
  <2>1. panicked' = panicked \/ (panicked' = TRUE /\ Cancelled' /\ Returned')
    BY <1>1, <1>3, FeedersKeep, Zenon
  <2> QED  BY <1>2, <2>1, Zenon DEF PanicPlaces, Returned
<1>4. CASE initP2P
  <2>1. CASE setup.p2p = "disabled" /\ panicked' = TRUE /\ UNCHANGED at /\ at = "initP2P"
    BY <1>1, <2>1, Zenon DEF PanicPlaces
  <2> QED  BY <1>2, <1>4, <2>1, Zenon DEF initP2P
<1>5. CASE Close
  <2>1. UNCHANGED fields
    BY <1>5, Zenon DEF Close
  <2>2. CASE /\ at = "stopServer" /\ "server" \in fields \ held /\ panicked' = TRUE
             /\ UNCHANGED <<at, tries, held>>
    BY <2>1, <2>2, Zenon DEF PanicPlaces
  <2> QED  BY <1>2, <1>5, <2>2, Zenon
              DEF Close, stopServer, closeP2P, closeSigner, unsubscribe, closeEngines,
                               closeSources
<1>6. UNCHANGED panicked \/ Feeders \/ initP2P \/ Close
  <2> USE DEF discoveryVars
  <2>1. CASE MainSteps
    <3>1. initL1 => UNCHANGED panicked  BY DEF initL1
    <3>2. initL2 => UNCHANGED panicked  BY DEF initL2
    <3>3. initP2PSigner => UNCHANGED panicked  BY Zenon DEF initP2PSigner
    <3>4. p2pDiscovery => UNCHANGED panicked  BY Zenon DEF p2pDiscovery
    <3>5. Serve => UNCHANGED panicked  BY DEF Serve
    <3>6. Start => UNCHANGED panicked  BY Zenon DEF Start
    <3>7. staticPeers => UNCHANGED panicked  BY Zenon DEF staticPeers
    <3> QED  BY <2>1, <3>1, <3>2, <3>3, <3>4, <3>5, <3>6, <3>7, Zenon DEF MainSteps
  <2>2. CASE Interrupt  BY <2>2, Zenon DEF Interrupt
  <2>3. CASE WatchHeadChanges  BY <2>3, Zenon DEF WatchHeadChanges
  <2>4. CASE API  BY <2>4, Zenon DEF API
  <2>5. CASE \E e \in Engines : Notify(e) \/ DriverLoop(e)  BY <2>5, Zenon DEF Notify, DriverLoop
  <2>6. CASE \E p \in Peers : DialStatic(p)  BY <2>6, Zenon DEF DialStatic
  <2>7. CASE Discover
    BY <2>7, Zenon DEF Discover, DiscoveryLoop, TrimPeers, ConnectWorker
  <2>8. CASE PeersChange  BY <2>8, Zenon DEF PeersChange
  <2> QED  BY <2>1, <2>2, <2>3, <2>4, <2>5, <2>6, <2>7, <2>8, Zenon DEF Next
<1> QED  BY <1>2, <1>3, <1>4, <1>5, <1>6, Zenon

(* The invariant holds in the beginning, *)
LEMMA InitIInv ==
  ASSUME Init
  PROVE  IInv
<1>1. /\ DiscoveryInit /\ setup \in Setups /\ setup.heads \in Nat /\ setup.engines \in Seq(Engines)
      /\ {MaxAttempts, HeadsBuffer, ConnectionBufferSize, DiscoveredNodesBuffer} \subseteq Nat \ {0}
  BY DEF Init
<1>2. <<>> \in Seq(Passing) /\ <<>> \in Seq(Records) /\ <<>> \in Seq(Peers) /\ <<>> \in Seq(Engines)
      /\ Len(<<>>) = 0 /\ DOMAIN <<>> = {}
  OBVIOUS
<1> HIDE DEF Passing
<1>3. Discovers
  <2>1. NotStarted \in Feeder /\ NotStarted.recs = <<>> /\ NotStarted.at # "send"
    BY <1>2, Zenon DEF NotStarted, Feeder
  <2>2. worker \in [ConnectionWorkers -> Peers \cup {Idle, Gone}]
    BY <1>1, Zenon DEF DiscoveryInit
  <2>3. /\ resourcesCtx = "live" /\ udp = FALSE /\ main = "off" /\ todo = <<>>
        /\ walker = NotStarted /\ kickoff = NotStarted /\ nodesCh = <<>> /\ attempts = <<>>
    BY <1>1, Zenon DEF DiscoveryInit
  <2> HIDE DEF NotStarted
  <2>4. /\ walker \in Feeder /\ walker.recs \in Seq(Passing) /\ walker.at # "send" /\ kickoff \in Feeder
    BY <1>2, <2>1, <2>3, Zenon
  <2>5. /\ nodesCh \in Seq(Passing) /\ Len(nodesCh) <= DiscoveredNodesBuffer
        /\ attempts \in Seq(Peers) /\ Len(attempts) <= ConnectionBufferSize
    BY <1>1, <1>2, <2>3
  <2> QED  BY <1>2, <2>2, <2>3, <2>4, <2>5, Zenon DEF Discovers, Returned
<1>4. Protects
  <2>1. /\ hostUp = FALSE /\ connected = {} /\ known = {} /\ tags = [p \in Peers |-> {}]
        /\ events = 0 /\ calls = 0 /\ dialing = {} /\ request = NoPeer
    BY <1>1, Zenon DEF DiscoveryInit, Init
  <2> QED  BY <1>1, <2>1, Zenon DEF Protects
<1>5. Opens
  <2>1. /\ at = "initL1" /\ tries = 0 /\ fields = {} /\ held = {} /\ attached = <<>> /\ clients = {}
        /\ request = NoPeer
    BY Zenon DEF Init
  <2>2. Attached = {} /\ 0 <= Len(setup.engines)
    BY <1>1, <1>2, <2>1, SeqTypes, SMTT(30) DEF Attached, Range
  <2> QED  BY <1>1, <1>2, <2>1, <2>2, SMTT(30) DEF Opens, Places, Serving, Initialised, Hosting
<1>6. Loops
  BY Zenon DEF Init, Loops, Open
<1>7. Notifies
  <2>1. /\ heads = "off" /\ l1Head = 0
        /\ notify = [e \in Engines |-> 0] /\ queue = [e \in Engines |-> 0]
    BY Zenon DEF Init
  <2> QED  BY <1>1, <2>1, SMTT(30) DEF Notifies
<1>8. panicked = FALSE
  BY <1>1, Zenon DEF DiscoveryInit
<1>9. Closes
  <2>1. /\ at = "initL1" /\ fields = {} /\ udp = FALSE /\ hostUp = FALSE /\ connected = {}
    BY <1>1, Zenon DEF Init, DiscoveryInit
  <2> QED  BY <2>1, Zenon DEF Closes, HostGone, WithoutP2P, Disconnected, Unsigned, Unsubscribed
<1> QED  BY <1>3, <1>4, <1>5, <1>6, <1>7, <1>8, <1>9, Zenon DEF IInv, PanicPlaces

(* and is kept by every step. *)
LEMMA NextIInv ==
  ASSUME IInv, [Next]_vars
  PROVE  IInv'
<1>1. CASE Next
  BY <1>1, PanicStep, DiscoversStep, ProtectsStep, OpensStep, LoopsStep, NotifiesStep, ClosesStep,
           Zenon DEF IInv
<1>2. CASE UNCHANGED vars
  <2> USE <1>2 DEF vars, discoveryVars, queueVars, peerVars, mainVars, headVars, apiVars
  <2>1. (panicked \in BOOLEAN /\ PanicPlaces)'
    BY Zenon DEF IInv, PanicPlaces, Cancelled
  <2>2. Discovers'
    BY Zenon DEF IInv, Discovers, Returned, Cancelled
  <2>3. Protects'
    BY Zenon DEF IInv, Protects, Guarded
  <2>4. Opens'
    BY Zenon DEF IInv, Opens, L2Open, HasHost, Attached
  <2>5. Loops'
    BY Zenon DEF IInv, Loops, Attached
  <2>6. Notifies'
    BY Zenon DEF IInv, Notifies
  <2>7. Closes'
    BY Zenon DEF IInv, Closes, HostGone, Cancelled
  <2> QED  BY <2>1, <2>2, <2>3, <2>4, <2>5, <2>6, <2>7, Zenon DEF IInv
<1> QED  BY <1>1, <1>2

(* It implies that what is in use is open. *)
LEMMA IInvOpen ==
  ASSUME IInv
  PROVE  InUseIsOpen
<1>1. TypeOK
  <2>1. walker \in Feeder /\ kickoff \in Feeder /\ nodesCh \in Seq(Records)
    BY PassingRecords, Zenon DEF IInv, Discovers
  <2>2. worker \in [ConnectionWorkers -> Peers \cup {Self, Idle, Gone}]
    BY Zenon DEF IInv, Discovers
  <2>3. notify \in [Engines -> 0 .. setup.heads]
    <3>1. setup.heads \in Nat
      BY Zenon DEF IInv, Protects
    <3>2. \A e \in Engines : notify[e] \in Nat /\ notify[e] <= l1Head /\ l1Head <= setup.heads /\ l1Head \in Nat
      BY <3>1, SMTT(30) DEF IInv, Notifies
    <3>3. \A e \in Engines : notify[e] \in 0 .. setup.heads
      BY <3>1, <3>2
    <3> QED  BY <3>3, Zenon DEF IInv, Notifies
  <2>4. {udp, hostUp, panicked} \subseteq BOOLEAN
    BY Zenon DEF IInv, Discovers, Protects
  <2>5. /\ resourcesCtx \in {"live", "done"} /\ main \in {"off", "select", "dial", "returned"}
        /\ todo \in Seq(Peers) /\ Len(nodesCh) <= DiscoveredNodesBuffer
        /\ attempts \in Seq(Peers) /\ Len(attempts) <= ConnectionBufferSize
    BY Zenon DEF IInv, Discovers
  <2>6. /\ known \subseteq Peers \cup {Self} /\ connected \subseteq Peers
        /\ tags \in [Peers -> SUBSET {"static", "api-protected"}]
        /\ setup \in Setups /\ dialing \subseteq setup.static /\ request \in Peers \cup {NoPeer}
    BY Zenon DEF IInv, Protects
  <2>7. /\ at \in Places /\ tries \in 0 .. MaxAttempts - 1
        /\ fields \subseteq {"l1", "signer", "p2p", "server"}
        /\ held \subseteq {"l1", "signer", "server", "rpcL2", "strayHost", "strayConn"}
        /\ attached \in Seq(Engines) /\ clients \subseteq Engines
    BY Zenon DEF IInv, Opens
  <2>8. /\ loop \in [Engines -> {"off", "idle", "busy", "returned"}]
        /\ heads \in {"off", "resubscribe", "subscribed", "calling", "returned"}
        /\ queue \in [Engines -> 0 .. HeadsBuffer]
    BY Zenon DEF IInv, Loops, Notifies
  <2> QED  BY <2>1, <2>2, <2>3, <2>4, <2>5, <2>6, <2>7, <2>8, Zenon DEF TypeOK
<1>2. ServedBackendsOpen
  BY Zenon DEF IInv, Opens, ServedBackendsOpen, L2Open, HasHost, Attached
<1>3. LoopsHaveSources
  BY DEF IInv, Loops, LoopsHaveSources, Open
<1>4. at = "closed" => Released
  <2>1. SUFFICES ASSUME at = "closed"  PROVE Released
    OBVIOUS
  <2>2. /\ "server" \notin held /\ ~ udp /\ HostGone /\ "signer" \notin held
        /\ Cancelled /\ heads \in {"off", "returned"} /\ "l1" \notin held /\ clients = {}
    BY <2>1 DEF IInv, Closes, Disconnected, Unsigned, Unsubscribed
  <2>3. held \subseteq {"rpcL2", "strayHost", "strayConn"}
    BY <2>2, Zenon DEF IInv, Opens
  <2>4. \A e \in Engines : loop[e] \in {"off", "returned"}
    BY <2>1, Zenon DEF IInv, Loops, Looping, Open
  <2> QED  BY <2>2, <2>3, <2>4, Zenon DEF Released, HostGone
<1> QED  BY <1>1, <1>2, <1>3, <1>4 DEF InUseIsOpen

(* The inductive invariant holds throughout. *)
THEOREM NodeInvariant == Spec => []IInv
<1>1. Init => IInv
  BY InitIInv
<1>2. IInv /\ [Next]_vars => IInv'
  BY NextIInv
<1> QED  BY <1>1, <1>2, PTL DEF Spec

(***************************************************************************)
(* What is in use is open: whatever fails in New or Start, whenever the    *)
(* interrupt comes, and whoever is in the middle of something, a request   *)
(* is served only while the L1 source, all engine clients and the host are *)
(* open, and a driver's loop runs only while its sources are.  And once    *)
(* Close has ended, all of them are closed, wherever it began.             *)
(***************************************************************************)
THEOREM UseOfOpen == Spec => []InUseIsOpen
<1>1. IInv => InUseIsOpen
  BY IInvOpen
<1> QED  BY <1>1, NodeInvariant, PTL

(***************************************************************************)
(* Where the goroutines of the node panic: the main one at the start when  *)
(* p2p is disabled, and in the Close after a server that could not listen; *)
(* a feeder of discovery, once the context is cancelled and the loop has   *)
(* returned; and nobody else.                                              *)
(***************************************************************************)
THEOREM PanicsThere == Spec => []PanicPlaces
<1>1. IInv => PanicPlaces
  BY Zenon DEF IInv
<1> QED  BY <1>1, NodeInvariant, PTL

(* A static peer is not trimmed, in one step. *)
LEMMA StaticStep ==
  ASSUME IInv, [Next]_vars, at # "staticPeers", "strayHost" \notin held
  PROVE  \A p \in (setup.static \cap connected) \ connected' :
           events' # events \/ calls' # calls \/ at' # at
<1>1. Protects /\ Discovers
  BY DEF IInv
<1>2. CASE connected \subseteq connected'
  BY <1>2, Zenon
<1>3. CASE Next
  <2>1. CASE (initP2P \/ staticPeers) /\ UNCHANGED <<setup, apiVars>>
    BY <1>1, <2>1, HostKeeps, StaticKeeps, Zenon
  <2>2. CASE (TrimPeers \/ PeersChange) /\ UNCHANGED nodeVars
    BY <1>1, <2>2, NetworkKeeps, Zenon
  <2>3. CASE \/ (DiscoveryLoop \/ \E w \in ConnectionWorkers : ConnectWorker(w)) /\ UNCHANGED nodeVars
             \/ \E p \in Peers : DialStatic(p)
    <3>1. connected \subseteq connected'
      BY <1>1, <2>3, DialsKeep, Zenon
    <3> QED  BY <3>1
  <2>4. CASE API
    BY <1>1, <2>4, APIKeeps, Zenon
  <2>5. CASE UNCHANGED <<hostUp, connected>> \/ at' # at
    BY <2>5, Zenon
  <2> QED  BY <1>3, <2>1, <2>2, <2>3, <2>4, <2>5, PeersFrame, Zenon
<1>4. CASE UNCHANGED vars
  BY <1>4, Zenon DEF vars, discoveryVars, peerVars
<1> QED  BY <1>3, <1>4

(***************************************************************************)
(* Once Host has protected them, the connection manager never trims a      *)
(* static peer, whatever the API protects and unprotects, and however many *)
(* peers connect.                                                          *)
(***************************************************************************)
THEOREM StaticPeersStay == Spec => StaticNotTrimmed
<1>1. IInv /\ [Next]_vars =>
        [at # "staticPeers" /\ "strayHost" \notin held =>
           \A p \in (setup.static \cap connected) \ connected' :
             events' # events \/ calls' # calls \/ at' # at]_vars
  BY StaticStep, Zenon
<1> QED  BY <1>1, NodeInvariant, PTL DEF Spec, StaticNotTrimmed

(* A record that passes the filter announces our chain and version. *)
LEMMA PassingOurs == \A r \in Passing : r.id \in Ours
<1>1. SUFFICES ASSUME NEW r \in Passing  PROVE r.id \in Ours
  OBVIOUS
<1>2. r \in Records /\ DecodeRLP(r.entry).ok /\ FilterEnodes(r)
  BY DEF Passing, FilterEnodes
<1>3. Len(r.entry) > 1 /\ r.entry[1] = L2ChainID /\ r.entry[2] = 0
  BY <1>2 DEF FilterEnodes, DecodeRLP, Failed
<1> QED  BY <1>2, <1>3, Zenon DEF Ours

(* What a step makes known, and whom it leaves to be dialled. *)
LEMMA DialsStep ==
  ASSUME IInv, [Next]_vars
  PROVE  /\ known' \ known \subseteq
              Ours \cup connected' \cup setup.static \cup setup.stored \cup {Self}
         /\ Self \notin Range(todo') \cup Range(attempts') \cup Range(worker')
<1>1. Protects /\ Discovers /\ Discovers'
  BY NextIInv, Zenon DEF IInv
<1>2. Self \notin Range(todo') \cup Range(attempts') \cup Range(worker')
  <2>1. Range(todo') \subseteq Peers /\ Range(attempts') \subseteq Peers
    BY <1>1, SeqRange, Zenon DEF Discovers
  <2>2. Range(worker') \subseteq Peers \cup {Idle, Gone}
    BY <1>1, Zenon DEF Discovers, Range
  <2> QED  BY <2>1, <2>2, Zenon
<1>3. CASE known' \subseteq known
  BY <1>2, <1>3, Zenon
<1>4. CASE Next
  <2>1. CASE (initP2P \/ staticPeers) /\ UNCHANGED <<setup, apiVars>>
    BY <1>1, <1>2, <2>1, HostKeeps, StaticKeeps, Zenon
  <2>2. CASE (TrimPeers \/ PeersChange) /\ UNCHANGED nodeVars
    BY <1>1, <1>2, <2>2, NetworkKeeps, Zenon
  <2>3. CASE DiscoveryLoop
    <3>1. CASE Found
      <4>1. Head(nodesCh) \in Passing
        BY <1>1, <3>1, SeqTake, Zenon DEF Found, Discovers
      <4>2. Head(nodesCh).id \in Ours
        BY <4>1, PassingOurs
      <4> QED  BY <1>2, <3>1, <4>2, Zenon DEF Found
    <3>2. CASE ConnectTick \/ Schedule \/ Return
      BY <1>3, <3>2, Zenon DEF ConnectTick, Schedule, Return
    <3> QED  BY <2>3, <3>1, <3>2, Zenon DEF DiscoveryLoop
  <2>4. CASE (\E w \in ConnectionWorkers : ConnectWorker(w)) \/ (\E p \in Peers : DialStatic(p))
    BY <1>3, <2>4, Zenon DEF ConnectWorker, DialStatic
  <2>5. CASE API
    BY <1>1, <1>2, <2>5, APIKeeps, Zenon
  <2>6. CASE UNCHANGED known
    BY <1>3, <2>6, Zenon
  <2> QED  BY <1>4, <2>1, <2>2, <2>3, <2>4, <2>5, <2>6, PeersFrame, Zenon
<1>5. CASE UNCHANGED vars
  BY <1>3, <1>5, Zenon DEF vars, discoveryVars, peerVars
<1> QED  BY <1>4, <1>5, Zenon

(***************************************************************************)
(* Discovery makes known only nodes of our chain and version, besides the  *)
(* peers that are connected, configured or stored, and the node never      *)
(* schedules or dials itself.                                              *)
(***************************************************************************)
THEOREM KnownFromRecords == Spec => KnownWithReason
<1>1. IInv /\ [Next]_vars =>
        [/\ known' \ known \subseteq
              Ours \cup connected' \cup setup.static \cup setup.stored \cup {Self}
         /\ Self \notin Range(todo') \cup Range(attempts') \cup Range(worker')]_vars
  BY DialsStep, Zenon
<1> QED  BY <1>1, NodeInvariant, PTL DEF Spec, KnownWithReason
=============================================================================
