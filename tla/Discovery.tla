------------------------------ MODULE Discovery ------------------------------
(***************************************************************************)
(* Peer discovery of the rollup node (op-node/p2p/discovery.go): the main  *)
(* loop of DiscoveryProcess, the goroutine that walks the DHT, the one     *)
(* that feeds the table in at the start, the workers that dial, and the    *)
(* two channels between them, all under the node's resourcesCtx.  discv5   *)
(* and libp2p are external: records turn up, dials succeed or fail, peers  *)
(* leave, addresses expire and the connection manager trims.               *)
(***************************************************************************)
EXTENDS Integers, Sequences, FiniteSetsExt

CONSTANTS
  Self, Peers,     \* the host's own ID, and those of other hosts
  Records,         \* node records of the DHT: id, "optimism" entry, if they have an IP
  Table,           \* the records of the table discv5 has at the start, in order
  L2ChainID,
  ConnectGoal, ConnectionWorkers, ConnectionBufferSize, DiscoveredNodesBuffer,
  PeersHi,         \* the connection manager trims above so many connections
  MaxTimeouts,     \* bound: how often collectiveDialTimeout passes
  Idle, Gone       \* a worker without a peer, and one that has returned

ASSUME DiscoveryAssumption ==
  /\ Self \notin Peers /\ \A S \in SUBSET Peers : Cardinality(S) \in Nat  \* there are finitely many
  /\ {Idle, Gone} \cap (Peers \cup {Self}) = {}
  /\ {ConnectionBufferSize, DiscoveredNodesBuffer} \subseteq Nat \ {0}
  /\ \A r \in Records : r.id \in Peers \cup {Self}
  /\ Table \in Seq(Records)

VARIABLES
  resourcesCtx,   \* "live" or "done"
  udp, hostUp,    \* discv5 and the libp2p host are open
  main, todo,     \* the loop of DiscoveryProcess, and the peers it is to schedule
  walker,         \* bufferNodes, and
  kickoff,        \* the first feed: state and records to send
  nodesCh,        \* randomNodesCh
  attempts,       \* connAttempts
  worker,         \* per worker the peer it dials
  known,          \* peers with addresses in the peerstore
  tags,           \* per peer the tags that protect it in the connection manager
  connected,
  panicked,
  events, timeouts

queueVars == <<nodesCh, attempts>>
peerVars == <<known, tags, connected, events>>
discoveryVars ==
  <<resourcesCtx, udp, hostUp, main, todo, walker, kickoff, queueVars, worker, peerVars, panicked, timeouts>>

-----------------------------------------------------------------------------
(* The "optimism" entry of a record, as the numbers its varints stand for.  It has two of     *)
(* them, or more in later versions; a record without the entry, or with a malformed one, has  *)
(* fewer that can be read.                                                                    *)
EncodeRLP(dat) == <<dat.chainID, dat.version>>

Failed == [ok |-> FALSE]

DecodeRLP(entry) ==
  IF Len(entry) < 2 THEN Failed
  ELSE [ok |-> TRUE, chainID |-> entry[1], version |-> entry[2]]

(* Mutant: any record with the entry. *)
FilterEnodesTagged(r) == DecodeRLP(r.entry).ok

FilterEnodes(r) ==
  LET dat == DecodeRLP(r.entry)
  IN  dat.ok /\ dat.chainID = L2ChainID /\ dat.version = 0

Passing == {r \in Records : FilterEnodes(r)}

-----------------------------------------------------------------------------
Cancelled == resourcesCtx = "done"
Returned == main = "returned"

(* A goroutine that sends a record to randomNodesCh or returns; once the loop has returned *)
(* the channel is closed, and a send that the select picks panics.                         *)
SendNode(r, sent, gone) ==
  \/ ~ Returned /\ Len(nodesCh) < DiscoveredNodesBuffer
     /\ nodesCh' = Append(nodesCh, r) /\ sent /\ UNCHANGED panicked
  \/ Cancelled /\ gone /\ UNCHANGED <<nodesCh, panicked>>
  \/ Returned /\ panicked' = TRUE /\ gone /\ UNCHANGED nodesCh

(* bufferNodes: a tick, and the iterator's next record that passes the filter. *)
WalkNext ==
  /\ walker.at = "tick"
  /\ \/ \E r \in Passing : udp /\ walker' = [at |-> "send", recs |-> <<r>>]
     \/ (~ udp \/ Cancelled) /\ walker' = [at |-> "returned", recs |-> <<>>]
  /\ UNCHANGED <<nodesCh, panicked>>

WalkSend ==
  /\ walker.at = "send"
  /\ SendNode(Head(walker.recs), walker' = [at |-> "tick", recs |-> <<>>],
              walker' = [at |-> "returned", recs |-> <<>>])

(* The first feed, after a delay: the records of the table that pass the filter. *)
KickoffStart ==
  /\ kickoff.at = "delay"
  /\ kickoff' = [at |-> "feed", recs |-> Table]
  /\ UNCHANGED <<nodesCh, panicked>>

KickoffSend ==
  LET recs == kickoff.recs
      Skipped(n) == \A i \in 1 .. n : recs[i] \notin Passing
  IN  /\ kickoff.at = "feed"
      /\ \/ /\ Skipped(Len(recs)) /\ kickoff' = [at |-> "returned", recs |-> <<>>]
            /\ UNCHANGED <<nodesCh, panicked>>
         \/ \E i \in DOMAIN recs :
              /\ Skipped(i - 1) /\ recs[i] \in Passing
              /\ SendNode(recs[i], kickoff' = [kickoff EXCEPT !.recs = SubSeq(@, i + 1, Len(@))],
                          kickoff' = [at |-> "returned", recs |-> <<>>])

Feeders ==
  /\ \/ (WalkNext \/ WalkSend) /\ UNCHANGED kickoff
     \/ (KickoffStart \/ KickoffSend) /\ UNCHANGED walker
  /\ UNCHANGED <<resourcesCtx, udp, hostUp, main, todo, attempts, worker, peerVars, timeouts>>

-----------------------------------------------------------------------------
(* connectWorker: dials until connAttempts is closed and drained.  Connect has 10 seconds, and *)
(* needs an address.                                                                           *)
TakeAttempt(w) ==
  /\ worker[w] = Idle /\ attempts # <<>>
  /\ worker' = [worker EXCEPT ![w] = Head(attempts)] /\ attempts' = Tail(attempts)
  /\ UNCHANGED connected

Connect(w) ==
  /\ worker[w] \notin {Idle, Gone}
  /\ worker' = [worker EXCEPT ![w] = Idle]
  /\ \/ worker[w] \in known \ {Self} /\ hostUp /\ ~ Cancelled
        /\ connected' = connected \cup {worker[w]}
     \/ UNCHANGED connected
  /\ UNCHANGED attempts

WorkerReturns(w) ==
  /\ worker[w] = Idle /\ attempts = <<>> /\ Returned
  /\ worker' = [worker EXCEPT ![w] = Gone] /\ UNCHANGED <<attempts, connected>>

ConnectWorker(w) ==
  /\ TakeAttempt(w) \/ Connect(w) \/ WorkerReturns(w)
  /\ UNCHANGED <<resourcesCtx, udp, hostUp, main, todo, walker, kickoff, nodesCh, known, tags, events,
                 panicked, timeouts>>

-----------------------------------------------------------------------------
(* The loop of DiscoveryProcess: a record was found, whose addresses are kept if it has any. *)
HasAddrInfo(r) == r.ip

Found ==
  /\ main = "select" /\ nodesCh # <<>> /\ nodesCh' = Tail(nodesCh)
  /\ known' = IF HasAddrInfo(Head(nodesCh)) THEN known \cup {Head(nodesCh).id} ELSE known
  /\ UNCHANGED <<main, todo, attempts, timeouts>>

(* Whom to dial: not ourselves, nor those we are connected to.  (No host ever answers         *)
(* CannotConnect, which would exclude others.)                                                *)
Candidates == known \ (connected \cup {Self})

Shuffled(S) == Bijection(1 .. Cardinality(S), S)


WantsPeers == Cardinality(connected) < ConnectGoal

(* Mutant: gives up for good when there is no randomness to shuffle with. *)
ConnectTickGivesUp ==
  /\ main = "select"
  /\ \/ WantsPeers /\ Candidates # {} /\ main' = "dial" /\ todo' \in Shuffled(Candidates)
     \/ WantsPeers /\ main' = "returned" /\ UNCHANGED todo
  /\ UNCHANGED <<queueVars, known, timeouts>>

(* The peering tick, with the peers shuffled (without randomness the tick does nothing). *)
ConnectTick ==
  /\ main = "select" /\ WantsPeers /\ Candidates # {}
  /\ main' = "dial" /\ todo' \in Shuffled(Candidates)
  /\ UNCHANGED <<queueVars, known, timeouts>>

(* peerLoop: the next peer is scheduled, or, once collectiveDialTimeout has passed since the *)
(* loop began or the node closes, none.                                                      *)
Schedule ==
  /\ main = "dial"
  /\ \/ /\ Len(attempts) < ConnectionBufferSize
        /\ attempts' = Append(attempts, Head(todo)) /\ todo' = Tail(todo)
        /\ main' = IF todo' = <<>> THEN "select" ELSE main
        /\ UNCHANGED timeouts
     \/ /\ Cancelled \/ timeouts < MaxTimeouts
        /\ timeouts' = IF Cancelled THEN timeouts ELSE timeouts + 1
        /\ main' = "select" /\ todo' = <<>> /\ UNCHANGED attempts
  /\ UNCHANGED <<nodesCh, known>>

(* The deferred calls close both channels. *)
Return ==
  /\ main = "select" /\ Cancelled /\ main' = "returned"
  /\ UNCHANGED <<todo, queueVars, known, timeouts>>

DiscoveryLoop ==
  /\ Found \/ ConnectTick \/ Schedule \/ Return
  /\ UNCHANGED <<resourcesCtx, udp, hostUp, walker, kickoff, worker, tags, connected, events, panicked>>

-----------------------------------------------------------------------------
(* Peers connect, which makes their address known, and leave; addresses expire; the         *)
(* connection manager spares protected peers.                                               *)
Inbound(p) == connected' = connected \cup {p} /\ known' = known \cup {p}
Leave(p) == p \in connected /\ connected' = connected \ {p} /\ UNCHANGED known
Expire(p) == p \in known \ connected /\ known' = known \ {p} /\ UNCHANGED connected

Trim(p) ==
  /\ Cardinality(connected) > PeersHi /\ p \in connected /\ tags[p] = {}
  /\ connected' = connected \ {p} /\ UNCHANGED known

PeersChange ==
  /\ hostUp
  /\ \E p \in Peers : Inbound(p) \/ Leave(p) \/ Expire(p)
  /\ events' = events + 1
  /\ UNCHANGED <<resourcesCtx, udp, hostUp, main, todo, walker, kickoff, queueVars, worker, tags,
                 panicked, timeouts>>

TrimPeers ==
  /\ \E p \in Peers : Trim(p)
  /\ UNCHANGED <<resourcesCtx, udp, hostUp, main, todo, walker, kickoff, queueVars, worker, tags,
                 events, panicked, timeouts>>

Discover == Feeders \/ DiscoveryLoop \/ TrimPeers \/ \E w \in ConnectionWorkers : ConnectWorker(w)

(* Before the process is started, and with it. *)
NotStarted == [at |-> "off", recs |-> <<>>]

DiscoveryInit ==
  /\ resourcesCtx = "live" /\ udp = FALSE /\ hostUp = FALSE
  /\ main = "off" /\ todo = <<>> /\ walker = NotStarted /\ kickoff = NotStarted
  /\ nodesCh = <<>> /\ attempts = <<>> /\ worker = [w \in ConnectionWorkers |-> Gone]
  /\ known = {} /\ tags = [p \in Peers |-> {}] /\ connected = {}
  /\ panicked = FALSE /\ events = 0 /\ timeouts = 0

StartDiscovery ==
  /\ main' = "select" /\ walker' = [at |-> "tick", recs |-> <<>>]
  /\ kickoff' = [at |-> "delay", recs |-> <<>>]
  /\ worker' = [w \in ConnectionWorkers |-> Idle]
  /\ UNCHANGED <<todo, queueVars, timeouts>>
=============================================================================
