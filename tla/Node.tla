-------------------------------- MODULE Node --------------------------------
(***************************************************************************)
(* The life of a rollup node process (op-node/node, cmd/main.go): New with *)
(* its init steps, Start, and Close after an interrupt or a failed init,   *)
(* next to the goroutines it owns: the L1 heads subscription with its      *)
(* fan-out, the engine drivers' loops, the RPC server with the p2p API,    *)
(* the dials of static peers, and peer discovery.                          *)
(***************************************************************************)
EXTENDS Discovery

CONSTANTS
  Setups,        \* configurations that pass Check: engines, p2p, signer, static peers and the
                 \* peers in the peerstore on disk, with the bounds heads, calls (of the p2p
                 \* API) and events (of peers)
  MaxAttempts,   \* how often an RPC client is dialled
  HeadsBuffer,   \* room in a driver's l1Heads
  NoPeer

Engines == UNION {Range(s.engines) : s \in Setups}

ASSUME NodeAssumption ==
  /\ \A s \in Setups : /\ s.p2p \in {"none", "disabled", "host", "discovery"}
                        /\ s.engines \in Seq(Engines) /\ s.heads \in Nat
                        /\ s.static \subseteq Peers /\ s.stored \subseteq Peers
  /\ {MaxAttempts, HeadsBuffer} \subseteq Nat \ {0}
  /\ NoPeer \notin Peers

VARIABLES
  setup,
  at, tries,      \* where RollupNodeMain is, and how often it has dialled in vain
  fields,         \* the fields of OpNode that are not nil
  held,           \* what is open: clients, subscription, signer, server
  attached,       \* l2Engines, and
  clients,        \* those whose client in l2Nodes is open
  loop,           \* the driver loops
  heads,          \* the goroutine of the heads subscription
  l1Head,         \* the number of L1 heads so far
  notify, queue,  \* per engine the goroutines that notify it, and its l1Heads
  dialing,        \* the static peers that are dialled in the background
  request, calls  \* the peer of a ConnectPeer request, and the calls of the API so far

p2pVars == <<udp, hostUp, main, todo, walker, kickoff, queueVars, worker, timeouts>>
mainVars == <<at, tries, fields, held, attached, clients>>
headVars == <<heads, l1Head, notify, queue>>
apiVars == <<request, calls>>
vars == <<discoveryVars, setup, mainVars, headVars, loop, dialing, apiVars>>

Attached == Range(attached)

(* Going on, and failing init, which closes the node. *)
Goto(next) == at' = next /\ tries' = 0
Fail == Goto("stopServer")

(* Another attempt, after a pause, if there were not too many. *)
Retry == IF tries + 1 < MaxAttempts THEN tries' = tries + 1 /\ UNCHANGED at ELSE Fail

Keep == UNCHANGED <<fields, held>>
Opened(r) == fields' = fields \cup {r} /\ held' = held \cup {r}

-----------------------------------------------------------------------------
(* init.  The subscription to L1 heads runs from here on. *)
initL1 ==
  /\ at = "initL1"
  /\ \/ Goto("initL2") /\ Opened("l1") /\ heads' = "resubscribe"
     \/ Retry /\ Keep /\ UNCHANGED heads
  /\ UNCHANGED <<attached, clients, l1Head, notify, queue, loop, dialing, p2pVars, peerVars,
                 resourcesCtx, panicked>>

(* initL2 attaches the configured engines, under l2Lock while it dials. *)
AttachEngine ==
  LET e == setup.engines[Len(attached) + 1]
  IN  \/ attached' = Append(attached, e) /\ clients' = clients \cup {e} /\ Goto("initL2")
      \/ Retry /\ UNCHANGED <<attached, clients>>

initL2 ==
  /\ at = "initL2"
  /\ \/ Len(attached) < Len(setup.engines) /\ AttachEngine
     \/ Len(attached) = Len(setup.engines) /\ Goto("initP2PSigner") /\ UNCHANGED <<attached, clients>>
  /\ Keep /\ UNCHANGED <<headVars, loop, dialing, p2pVars, peerVars, resourcesCtx, panicked>>

l2Locked == at = "initL2" /\ tries > 0

initP2PSigner ==
  /\ at = "initP2PSigner"
  /\ \/ ~ setup.signer /\ Goto("initP2P") /\ Keep
     \/ setup.signer /\ Goto("initP2P") /\ Opened("signer")
     \/ setup.signer /\ Fail /\ Keep
  /\ UNCHANGED <<attached, clients, headVars, loop, dialing, p2pVars, peerVars, resourcesCtx,
                 panicked>>

(* The host, which listens from here on, with the peerstore of earlier runs. *)
Host ==
  \/ Goto("staticPeers") /\ hostUp' = TRUE /\ known' = setup.stored \cup {Self}
  \/ Fail /\ UNCHANGED <<hostUp, known>>

(* Without p2p nothing is to be done.  When it is disabled NewNodeP2P returns a nil node, *)
(* which is used.                                                                          *)
initP2P ==
  /\ at = "initP2P"
  /\ \/ setup.p2p = "none" /\ Goto("initRPCServer")
        /\ UNCHANGED <<hostUp, known, panicked>>
     \/ setup.p2p = "disabled" /\ panicked' = TRUE /\ UNCHANGED <<at, tries, hostUp, known>>
     \/ setup.p2p \in {"host", "discovery"} /\ Host /\ UNCHANGED panicked
  /\ UNCHANGED <<fields, held, attached, clients, headVars, loop, dialing, udp, main, todo, walker,
                 kickoff, queueVars, worker, timeouts, tags, connected, events, resourcesCtx>>

(* The static peers, one after the other; a malformed address leaves a host that nobody closes. *)
Protected == {p \in Peers : "static" \in tags[p]}

staticPeers ==
  /\ at = "staticPeers"
  /\ \/ /\ setup.static \subseteq Protected /\ Goto("p2pDiscovery")
        /\ UNCHANGED <<held, known, tags, dialing>>
     \/ /\ \E p \in setup.static \ Protected :
             /\ known' = known \cup {p} /\ dialing' = dialing \cup {p}
             /\ tags' = [tags EXCEPT ![p] = @ \cup {"static"}]
        /\ UNCHANGED <<at, tries, held>>
     \/ /\ setup.static # {} /\ Fail /\ held' = held \cup {"strayHost"}
        /\ UNCHANGED <<known, tags, dialing>>
  /\ UNCHANGED <<fields, attached, clients, headVars, loop, p2pVars, connected, events, resourcesCtx,
                 panicked>>

(* Gossip and discv5, and the discovery process.  NewNodeP2P closes the host when one of  *)
(* them fails; a UDP socket that discv5 does not take stays open.                          *)
p2pDiscovery ==
  /\ at = "p2pDiscovery"
  /\ \/ /\ Goto("initRPCServer") /\ fields' = fields \cup {"p2p"}
        /\ udp' = (setup.p2p = "discovery")
        /\ IF udp' THEN StartDiscovery
           ELSE UNCHANGED <<main, todo, walker, kickoff, queueVars, worker, timeouts>>
        /\ UNCHANGED <<held, hostUp, connected>>
     \/ /\ Fail /\ hostUp' = FALSE /\ connected' = {}
        /\ held' \in {held} \cup (IF setup.p2p = "discovery" THEN {held \cup {"strayConn"}} ELSE {})
        /\ UNCHANGED <<fields, udp, main, todo, walker, kickoff, queueVars, worker, timeouts>>
  /\ UNCHANGED <<attached, clients, headVars, loop, dialing, known, tags, events, resourcesCtx,
                 panicked>>

(* The RPC server has an L2 client of its own, which OpNode does not keep. *)
initRPCServer ==
  /\ at = "initRPCServer"
  /\ \/ Goto("listen") /\ held' = held \cup {"rpcL2"} /\ fields' = fields \cup {"server"}
     \/ Retry /\ Keep

listen ==
  /\ at = "listen"
  /\ \/ Goto("start") /\ held' = held \cup {"server"} /\ UNCHANGED fields
     \/ Fail /\ Keep

Serve ==
  /\ initRPCServer \/ listen
  /\ UNCHANGED <<attached, clients, headVars, loop, dialing, p2pVars, peerVars, resourcesCtx,
                 panicked>>

(* The first engine whose loop is in one of the states, as a set. *)
First(states) ==
  {attached[i] : i \in {j \in DOMAIN attached :
                          /\ loop[attached[j]] \in states
                          /\ \A k \in 1 .. j - 1 : loop[attached[k]] \notin states}}

(* Start, one driver after the other; the process ends when one of them fails. *)
Start ==
  /\ at = "start"
  /\ \/ (\A e \in Attached : loop[e] # "off") /\ Goto("running") /\ UNCHANGED loop
     \/ /\ \E e \in First({"off"}) : loop' = [loop EXCEPT ![e] = "idle"]
        /\ UNCHANGED <<at, tries>>
     \/ First({"off"}) # {} /\ Goto("exited") /\ UNCHANGED loop
  /\ Keep /\ UNCHANGED <<attached, clients, headVars, dialing, p2pVars, peerVars, resourcesCtx,
                         panicked>>

(* An interrupt, and the deferred Close. *)
Interrupt ==
  /\ at = "running" /\ Goto("stopServer")
  /\ UNCHANGED <<fields, held, attached, clients, headVars, loop, dialing, p2pVars, peerVars,
                 resourcesCtx, panicked>>

-----------------------------------------------------------------------------
(* Close, in the order of the code; what is nil is skipped. *)
Skip(r, next) == r \notin fields /\ Goto(next)

(* Stop waits for the requests that are served, and panics on a server that never listened. *)
stopServer ==
  /\ at = "stopServer"
  /\ \/ Skip("server", "closeP2P") /\ UNCHANGED <<held, panicked>>
     \/ /\ "server" \in fields \cap held /\ request = NoPeer /\ Goto("closeP2P")
        /\ held' = held \ {"server"} /\ UNCHANGED panicked
     \/ /\ "server" \in fields \ held /\ panicked' = TRUE /\ UNCHANGED <<at, tries, held>>
  /\ UNCHANGED <<heads, clients, loop, udp, hostUp, connected, resourcesCtx>>

(* The p2p node, the signer and resourcesCtx. *)
closeP2P ==
  /\ at = "closeP2P" /\ Goto("closeSigner")
  /\ IF "p2p" \in fields THEN udp' = FALSE /\ hostUp' = FALSE /\ connected' = {}
     ELSE UNCHANGED <<udp, hostUp, connected>>
  /\ UNCHANGED <<heads, held, clients, loop, resourcesCtx, panicked>>

closeSigner ==
  /\ at = "closeSigner" /\ Goto("unsubscribe")
  /\ held' = held \ {"signer"} /\ resourcesCtx' = "done"
  /\ UNCHANGED <<heads, clients, loop, udp, hostUp, connected, panicked>>

(* Unsubscribe waits for the subscription's goroutine. *)
unsubscribe ==
  /\ at = "unsubscribe"
  /\ \/ heads \in {"off", "returned"} /\ Goto("closeEngines") /\ UNCHANGED heads
     \/ heads \in {"resubscribe", "subscribed"} /\ heads' = "returned" /\ UNCHANGED <<at, tries>>
  /\ UNCHANGED <<held, clients, loop, udp, hostUp, connected, resourcesCtx, panicked>>

(* A driver's Close waits for its loop, which returns when it is not in the middle of something. *)
Open == {"idle", "busy"}

(* Mutant: does not wait for the loops. *)
closeEnginesAsync ==
  /\ at = "closeEngines" /\ Goto("closeSources")
  /\ loop' = [e \in Engines |-> IF loop[e] = "idle" THEN "returned" ELSE loop[e]]
  /\ UNCHANGED <<heads, held, clients, udp, hostUp, connected, resourcesCtx, panicked>>

closeEngines ==
  /\ at = "closeEngines"
  /\ \/ (\A e \in Attached : loop[e] \notin Open) /\ Goto("closeSources") /\ UNCHANGED loop
     \/ /\ \E e \in First(Open) : loop[e] = "idle" /\ loop' = [loop EXCEPT ![e] = "returned"]
        /\ UNCHANGED <<at, tries>>
  /\ UNCHANGED <<heads, held, clients, udp, hostUp, connected, resourcesCtx, panicked>>

closeSources ==
  /\ at = "closeSources" /\ Goto("closed") /\ clients' = {} /\ held' = held \ {"l1"}
  /\ UNCHANGED <<heads, loop, udp, hostUp, connected, resourcesCtx, panicked>>

Close ==
  /\ \/ stopServer \/ closeP2P \/ closeSigner \/ unsubscribe \/ closeEngines
     \/ closeSources
  /\ UNCHANGED <<fields, attached, l1Head, notify, queue, dialing, main, todo, walker, kickoff,
                 queueVars, worker, timeouts, known, tags, events>>

MainSteps ==
  /\ initL1 \/ initL2 \/ initP2PSigner \/ initP2P \/ staticPeers \/ p2pDiscovery \/ Serve
     \/ Start \/ Close
  /\ UNCHANGED <<setup, apiVars>>

-----------------------------------------------------------------------------
(* WatchHeadChanges, and the subscription that is renewed when it fails. *)
Subscribe ==
  /\ heads = "resubscribe" /\ ~ Cancelled /\ heads' = "subscribed" /\ UNCHANGED <<l1Head, notify>>

(* It fails, and misses a head. *)
SubscriptionFails ==
  /\ heads = "subscribed" /\ l1Head < setup.heads
  /\ heads' = "resubscribe" /\ l1Head' = l1Head + 1 /\ UNCHANGED notify

ReceiveHead ==
  /\ heads = "subscribed" /\ l1Head < setup.heads
  /\ heads' = "calling" /\ l1Head' = l1Head + 1 /\ UNCHANGED notify

(* The fan-out takes l2Lock, and a goroutine per engine. *)
OnNewL1Head ==
  /\ heads = "calling" /\ ~ l2Locked /\ heads' = "subscribed"
  /\ notify' = [e \in Engines |-> IF e \in Attached THEN notify[e] + 1 ELSE notify[e]]
  /\ UNCHANGED l1Head

WatchHeadChanges ==
  /\ Subscribe \/ SubscriptionFails \/ ReceiveHead \/ OnNewL1Head
  /\ UNCHANGED <<discoveryVars, setup, mainVars, queue, loop, dialing, apiVars>>

(* Mutant: waits for room however long it takes. *)
OnL1HeadBlocking(e) ==
  /\ notify[e] > 0 /\ notify' = [notify EXCEPT ![e] = @ - 1]
  /\ queue[e] < HeadsBuffer /\ queue' = [queue EXCEPT ![e] = @ + 1]

(* The driver takes the head, or the context of the call ends: after 10 seconds without *)
(* room, or with the node.                                                              *)
OnL1Head(e) ==
  /\ notify[e] > 0 /\ notify' = [notify EXCEPT ![e] = @ - 1]
  /\ \/ queue[e] < HeadsBuffer /\ queue' = [queue EXCEPT ![e] = @ + 1]
     \/ (queue[e] = HeadsBuffer \/ Cancelled) /\ UNCHANGED queue

Notify(e) ==
  OnL1Head(e) /\ UNCHANGED <<discoveryVars, setup, mainVars, heads, l1Head, loop, dialing, apiVars>>

(* A driver's loop handles a head, with calls to L1 and the engine that are limited in time. *)
Handle(e) ==
  /\ loop[e] = "idle" /\ queue[e] > 0
  /\ loop' = [loop EXCEPT ![e] = "busy"] /\ queue' = [queue EXCEPT ![e] = @ - 1]

Handled(e) == loop[e] = "busy" /\ loop' = [loop EXCEPT ![e] = "idle"] /\ UNCHANGED queue

DriverLoop(e) ==
  /\ Handle(e) \/ Handled(e)
  /\ UNCHANGED <<discoveryVars, setup, mainVars, heads, l1Head, notify, dialing, apiVars>>

(* The one dial of a static peer in the background. *)
DialStatic(p) ==
  /\ p \in dialing /\ dialing' = dialing \ {p}
  /\ connected' \in {connected} \cup (IF hostUp THEN {connected \cup {p}} ELSE {})
  /\ UNCHANGED <<resourcesCtx, p2pVars, known, tags, events, panicked, setup, mainVars, headVars,
                 loop, apiVars>>

-----------------------------------------------------------------------------
(* The p2p API, when the server listens and p2p is enabled. *)
Accepts == "server" \in held /\ at # "stopServer" /\ "p2p" \in fields /\ request = NoPeer
Called == calls < setup.calls /\ calls' = calls + 1

ConnectPeer(p) ==
  /\ Accepts /\ Called /\ request' = p /\ UNCHANGED <<known, tags, connected>>

ConnectPeerReturns ==
  /\ request # NoPeer /\ request' = NoPeer /\ UNCHANGED <<calls, tags>>
  /\ \/ hostUp /\ connected' = connected \cup {request} /\ known' = known \cup {request}
     \/ UNCHANGED <<connected, known>>

DisconnectPeer(p) ==
  /\ Accepts /\ Called /\ p \in connected
  /\ connected' = connected \ {p} /\ UNCHANGED <<known, tags, request>>

ProtectPeer(p) ==
  /\ Accepts /\ Called /\ tags' = [tags EXCEPT ![p] = @ \cup {"api-protected"}]
  /\ UNCHANGED <<known, connected, request>>

(* Mutant: whatever protects the peer. *)
UnprotectPeerFully(p) ==
  /\ Accepts /\ Called /\ tags' = [tags EXCEPT ![p] = {}]
  /\ UNCHANGED <<known, connected, request>>

UnprotectPeer(p) ==
  /\ Accepts /\ Called /\ tags' = [tags EXCEPT ![p] = @ \ {"api-protected"}]
  /\ UNCHANGED <<known, connected, request>>

API ==
  /\ \/ ConnectPeerReturns
     \/ \E p \in Peers : ConnectPeer(p) \/ DisconnectPeer(p) \/ ProtectPeer(p) \/ UnprotectPeer(p)
  /\ UNCHANGED <<resourcesCtx, p2pVars, events, panicked, setup, mainVars, headVars, loop, dialing>>

-----------------------------------------------------------------------------
nodeVars == <<setup, mainVars, headVars, loop, dialing, apiVars>>

Init ==
  /\ DiscoveryInit /\ setup \in Setups
  /\ at = "initL1" /\ tries = 0 /\ fields = {} /\ held = {}
  /\ attached = <<>> /\ clients = {} /\ loop = [e \in Engines |-> "off"]
  /\ heads = "off" /\ l1Head = 0
  /\ notify = [e \in Engines |-> 0] /\ queue = [e \in Engines |-> 0]
  /\ dialing = {} /\ request = NoPeer /\ calls = 0

Alive == ~ panicked /\ at # "exited"

Next ==
  /\ Alive
  /\ \/ MainSteps \/ (Interrupt /\ UNCHANGED <<setup, apiVars>>)
     \/ WatchHeadChanges \/ API
     \/ \E e \in Engines : Notify(e) \/ DriverLoop(e)
     \/ \E p \in Peers : DialStatic(p)
     \/ (Discover \/ (events < setup.events /\ PeersChange)) /\ UNCHANGED nodeVars

Spec == Init /\ [][Next]_vars

(***************************************************************************)
(* Every goroutine goes on: dials and requests are limited in time, the    *)
(* calls of the drivers to L1 and to their engines are taken to return (a  *)
(* fetch of very many batches need not: L1SourceProperties), and a select  *)
(* picks at random among what is ready, so that it does not pass over the  *)
(* peering tick or the end of the context for ever.  Interrupts, and what  *)
(* the network does, are left to chance.                                   *)
(***************************************************************************)
Fairness ==
  /\ WF_vars(Alive /\ MainSteps)
  /\ WF_vars(Alive /\ heads = "calling" /\ WatchHeadChanges)
  /\ WF_vars(Alive /\ ConnectPeerReturns /\ API)
  /\ \A e \in Engines : WF_vars(Alive /\ Notify(e)) /\ WF_vars(Alive /\ DriverLoop(e))
  /\ \A p \in Peers : WF_vars(Alive /\ DialStatic(p))
  /\ \A w \in ConnectionWorkers : WF_vars(Alive /\ ConnectWorker(w) /\ UNCHANGED nodeVars)
  /\ WF_vars(Alive /\ Feeders /\ UNCHANGED <<kickoff, nodeVars>>)
  /\ WF_vars(Alive /\ Feeders /\ UNCHANGED <<walker, nodeVars>>)
  /\ WF_vars(Alive /\ Schedule /\ DiscoveryLoop /\ UNCHANGED nodeVars)
  /\ SF_vars(Alive /\ ConnectTick /\ DiscoveryLoop /\ UNCHANGED nodeVars)
  /\ SF_vars(Alive /\ Return /\ DiscoveryLoop /\ UNCHANGED nodeVars)

FairSpec == Spec /\ Fairness
=============================================================================
