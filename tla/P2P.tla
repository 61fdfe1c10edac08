--------------------------------- MODULE P2P ---------------------------------
(***************************************************************************)
(* The P2P layer (consensus/p2p.go) under its two users, the daemon        *)
(* (p2p_daemon.go) and the devnet node (node.go): listening, dialling, the *)
(* peer table, one reader goroutine for each connection, one goroutine for *)
(* each write of a broadcast, the heartbeat and the seed-down alert.       *)
(*                                                                         *)
(* An address is the node that listens there. A connection has an "out"    *)
(* end at the node that dialled and an "in" end at the node that accepted; *)
(* wire[e] is what has been written at end e and not been read at the      *)
(* other end. Time is left out: a ticker may tick at any moment.           *)
(***************************************************************************)
EXTENDS Integers, Sequences, FiniteSets

CONSTANTS
    Node,      \* the nodes
    Dials,     \* Dials[n][m]: how often the peer list of n names the address of m
    Seeds,     \* Seeds[n]: the addresses in WAYCHAIN_SEEDS; the daemon sets none
    Drains,    \* the nodes whose main loop reads Incoming: node.go's, not the daemon's
    QueueCap,  \* the capacity of Incoming (256)
    MaxConns,  \* bound: connections of a run
    MaxGossip, \* bound: how many transactions and blocks each node broadcasts
    MaxFaults  \* bound: failed dials, broken connections and stopped nodes

Side == {"out", "in"}
End == (1..MaxConns) \X Side
Other(e) == <<e[1], IF e[2] = "out" THEN "in" ELSE "out">>

(* The keys of the peer table: "peer@addr" at the node that dialled,       *)
(* "inbound@remote" at the node that accepted, where the remote port is    *)
(* new for each connection.                                                *)
PeerID == ({"peer"} \X Node) \cup ({"inbound"} \X (1..MaxConns))

(* The handshake is left out: all it does at the other end is to set Height, *)
(* which nothing reads, to 0.                                                *)
Message == [type: {"gossip", "alarm"}, seq: Nat]

ASSUME P2PAssumption ==
    /\ Dials \in [Node -> [Node -> Nat]]
    /\ Seeds \in [Node -> SUBSET Node]
    /\ Drains \subseteq Node
    /\ QueueCap \in Nat \ {0} /\ MaxConns \in Nat /\ MaxGossip \in [Node -> Nat] /\ MaxFaults \in Nat

VARIABLES
    status,   \* whether a node listens
    left,     \* the dials still to be made
    conns,    \* who dialled whom, in the order of the connections
    open,     \* the ends that have not been closed
    phase,    \* where the goroutine that owns an end is
    peers,    \* n.Peers: the end registered under each peer id
    wire,     \* what is under way from an end
    pending,  \* the goroutines of Broadcast that have not written yet
    seq,      \* n.seq
    incoming, \* n.Incoming
    alarm,    \* seedDownSignaled ("raised" or "sent") and whether it was broadcast
    faults    \* how many faults have happened

vars == <<status, left, conns, open, phase, peers, wire, pending, seq, incoming,
          alarm, faults>>

NoPeers == [i \in {} |-> <<1, "out">>]

(* The node at an end, and the key under which it registers the end. *)
Owner(e) == IF e[2] = "out" THEN conns[e[1]].from ELSE conns[e[1]].to
PeerKey(e) == IF e[2] = "out" THEN <<"peer", conns[e[1]].to>> ELSE <<"inbound", e[1]>>

Ends == (1..Len(conns)) \X Side

(* NewP2PNode and Start: every node listens, its loops run. A node that *)
(* comes up later is one to which dials fail until then.               *)
Init ==
    /\ status = [n \in Node |-> "up"]
    /\ left = Dials
    /\ conns = << >> /\ open = {} /\ phase = [e \in End |-> "none"]
    /\ peers = [n \in Node |-> NoPeers]
    /\ wire = [e \in End |-> << >>] /\ pending = {}
    /\ seq = [n \in Node |-> 0] /\ incoming = [n \in Node |-> << >>]
    /\ alarm = [n \in Node |-> "quiet"] /\ faults = 0

-----------------------------------------------------------------------------
(* Connections. *)

(* Connect, up to peerLock: the dial succeeds. *)
Connect(n, m) ==
    /\ left[n][m] > 0 /\ status[m] = "up" /\ Len(conns) < MaxConns
    /\ left' = [left EXCEPT ![n][m] = @ - 1]
    /\ conns' = Append(conns, [from |-> n, to |-> m])
    /\ LET c == Len(conns) + 1
       IN /\ open' = open \cup {<<c, "out">>, <<c, "in">>}
          /\ phase' = [phase EXCEPT ![<<c, "out">>] = "held", ![<<c, "in">>] = "queued"]
    /\ UNCHANGED <<status, peers, wire, pending, seq, incoming, alarm, faults>>

(* Connect: the dial fails and is not tried again. *)
ConnectFails(n, m) ==
    /\ left[n][m] > 0 /\ faults < MaxFaults
    /\ faults' = faults + 1
    /\ left' = [left EXCEPT ![n][m] = @ - 1]
    /\ UNCHANGED <<status, conns, open, phase, peers, wire, pending, seq, incoming, alarm>>

(* acceptLoop: Accept returns. *)
Accept(e) ==
    /\ phase[e] = "queued" /\ e \in open /\ status[Owner(e)] = "up"
    /\ phase' = [phase EXCEPT ![e] = "held"]
    /\ UNCHANGED <<status, left, conns, open, peers, wire, pending, seq, incoming, alarm, faults>>

(* The table with an end registered, in the place of what had its key. *)
Registered(n, e) ==
    [i \in DOMAIN peers[n] \cup {PeerKey(e)} |-> IF i = PeerKey(e) THEN e ELSE peers[n][i]]

(* Connect and acceptLoop: the peer is registered and its reader started. *)
Register(e) ==
    /\ phase[e] = "held"
    /\ peers' = [peers EXCEPT ![Owner(e)] = Registered(Owner(e), e)]
    /\ phase' = [phase EXCEPT ![e] = "reading"]
    /\ UNCHANGED <<status, left, conns, open, wire, pending, seq, incoming, alarm, faults>>

(* The table without some keys. *)
Without(n, ids) == [i \in DOMAIN peers[n] \ ids |-> peers[n][i]]

(* Stop: the listener and the registered connections are closed and the  *)
(* table is emptied; the kernel resets what was never accepted.          *)
Stop(n) ==
    /\ status[n] = "up" /\ faults < MaxFaults
    /\ faults' = faults + 1
    /\ status' = [status EXCEPT ![n] = "stopped"]
    /\ open' = open \ ({peers[n][i] : i \in DOMAIN peers[n]}
                        \cup {e \in Ends : Owner(e) = n /\ phase[e] = "queued"})
    /\ peers' = [peers EXCEPT ![n] = NoPeers]
    /\ UNCHANGED <<left, conns, phase, wire, pending, seq, incoming, alarm>>

(* The network breaks a connection: both ends see an error. *)
Break(c) ==
    /\ faults < MaxFaults /\ c \in 1..Len(conns)
    /\ faults' = faults + 1
    /\ open' = open \ {<<c, "out">>, <<c, "in">>}
    /\ UNCHANGED <<status, left, conns, phase, peers, wire, pending, seq, incoming, alarm>>

-----------------------------------------------------------------------------
(* Messages. *)

(* Broadcast: one goroutine for each registered peer. *)
Broadcast(n, msg) == {[end |-> peers[n][i], msg |-> msg] : i \in DOMAIN peers[n]}

(* BroadcastBlock and BroadcastTransaction. The number and the goroutines  *)
(* are one step: goroutines write in any order in any case.                *)
Gossip(n) ==
    /\ status[n] = "up" /\ seq[n] < MaxGossip[n]
    /\ seq' = [seq EXCEPT ![n] = @ + 1]
    /\ pending' = pending \cup Broadcast(n, [type |-> "gossip", seq |-> seq[n] + 1])
    /\ UNCHANGED <<status, left, conns, open, phase, peers, wire, incoming, alarm, faults>>

(* A goroutine of Broadcast: Encode, whose error is ignored. *)
Write(g) ==
    /\ g \in pending
    /\ pending' = pending \ {g}
    /\ wire' = IF g.end \in open THEN [wire EXCEPT ![g.end] = Append(@, g.msg)] ELSE wire
    /\ UNCHANGED <<status, left, conns, open, phase, peers, seq, incoming, alarm, faults>>

(* readLoop: Decode returns the next message. *)
Take(e) ==
    /\ phase[e] = "reading" /\ e \in open /\ wire[Other(e)] # << >>
    /\ wire' = [wire EXCEPT ![Other(e)] = Tail(@)]

(* Mutant: the reader waits for room in Incoming. *)
EnqueueOrWait(n, msg) ==
    /\ Len(incoming[n]) < QueueCap
    /\ incoming' = [incoming EXCEPT ![n] = Append(@, msg)]

(* The select of readLoop: a full queue drops the message. *)
Enqueue(n, msg) ==
    incoming' = IF Len(incoming[n]) < QueueCap
                THEN [incoming EXCEPT ![n] = Append(@, msg)] ELSE incoming

(* readLoop: a transaction, block or vote is queued. *)
Read(e) ==
    /\ Take(e) /\ Head(wire[Other(e)]).type = "gossip"
    /\ Enqueue(Owner(e), Head(wire[Other(e)]))
    /\ UNCHANGED <<status, left, conns, open, phase, peers, pending, seq, alarm, faults>>

(* Mutant: the flag is not looked at before the alert is relayed. *)
RelayAlways(n) == TRUE

(* readLoop, under seedLock: only the first alert is relayed. *)
NotSignaled(n) == alarm[n] = "quiet"

(* readLoop: a seed-down alert. The goroutine that sets the flag goes on *)
(* to Broadcast without the lock.                                        *)
ReadAlarm(e) ==
    /\ Take(e) /\ Head(wire[Other(e)]).type = "alarm"
    /\ IF NotSignaled(Owner(e))
       THEN /\ alarm' = [alarm EXCEPT ![Owner(e)] = "raised"]
            /\ phase' = [phase EXCEPT ![e] = "relaying"]
       ELSE UNCHANGED <<alarm, phase>>
    /\ UNCHANGED <<status, left, conns, open, peers, pending, seq, incoming, faults>>

(* Both users of the flag broadcast the alert with the next number. *)
SendAlarm(n) ==
    /\ alarm' = [alarm EXCEPT ![n] = "sent"]
    /\ seq' = [seq EXCEPT ![n] = @ + 1]
    /\ pending' = pending \cup Broadcast(n, [type |-> "alarm", seq |-> seq[n] + 1])

RelayAlarm(e) ==
    /\ phase[e] = "relaying"
    /\ SendAlarm(Owner(e))
    /\ phase' = [phase EXCEPT ![e] = "reading"]
    /\ UNCHANGED <<status, left, conns, open, peers, wire, incoming, faults>>

(* Mutant: only an end that this node has closed is broken. *)
BrokenHere(e) == e \notin open

(* Decode fails on an end that is closed here, or closed at the other *)
(* side, whatever is still under way.                                 *)
Broken(e) == e \notin open \/ Other(e) \notin open

(* readLoop: Decode fails; the deferred function closes the end. *)
ReadError(e) ==
    /\ phase[e] = "reading" /\ Broken(e)
    /\ open' = open \ {e}
    /\ phase' = [phase EXCEPT ![e] = "ending"]
    /\ UNCHANGED <<status, left, conns, peers, wire, pending, seq, incoming, alarm, faults>>

(* Mutant: only the peers this node dialled are deleted. *)
ForgetDialled(e) == IF e[2] = "out" THEN {PeerKey(e)} ELSE {}

(* What the deferred function deletes: whatever has the peer's id. *)
Forgotten(e) == {PeerKey(e)}

(* readLoop: the deferred delete. *)
Forget(e) ==
    /\ phase[e] = "ending"
    /\ peers' = [peers EXCEPT ![Owner(e)] = Without(Owner(e), Forgotten(e))]
    /\ phase' = [phase EXCEPT ![e] = "done"]
    /\ UNCHANGED <<status, left, conns, open, wire, pending, seq, incoming, alarm, faults>>

(* node.go: the loop that prints what arrives. *)
Drain(n) ==
    /\ n \in Drains /\ incoming[n] # << >>
    /\ incoming' = [incoming EXCEPT ![n] = Tail(@)]
    /\ UNCHANGED <<status, left, conns, open, phase, peers, wire, pending, seq, alarm, faults>>

-----------------------------------------------------------------------------
(* The heartbeat. *)

(* The peers whose write fails: the ends closed here, and perhaps ends *)
(* that were reset from the other side.                                *)
Failing(n, sure) ==
    {i \in DOMAIN peers[n] : \/ peers[n][i] \notin open
                             \/ ~sure /\ Other(peers[n][i]) \notin open}

(* The table is looked up by the bare address; its keys are "peer@addr" *)
(* and "inbound@addr".                                                  *)
SeedKey(s) == <<"", s>>

(* No seed is found in the table. *)
AllDown(n) == \A s \in Seeds[n] : SeedKey(s) \notin DOMAIN peers[n]

(* heartbeatLoop, a tick: dead peers are dropped and the seeds looked up.  *)
(* The two critical sections are one step: dropping dead peers and setting *)
(* the flag do not depend on each other. A loop that has set the flag      *)
(* broadcasts before it waits for the next tick.                           *)
HeartbeatBusy(n) ==
    alarm[n] = "raised" /\ \A e \in Ends : Owner(e) = n => phase[e] # "relaying"

Heartbeat(n) ==
    /\ status[n] = "up" /\ ~HeartbeatBusy(n)
    /\ \E dead \in SUBSET Failing(n, FALSE) :
          /\ Failing(n, TRUE) \subseteq dead
          /\ peers' = [peers EXCEPT ![n] = Without(n, dead)]
          /\ open' = open \ {peers[n][i] : i \in dead}
    /\ alarm' = IF Seeds[n] # {} /\ NotSignaled(n) /\ AllDown(n)
                THEN [alarm EXCEPT ![n] = "raised"] ELSE alarm
    /\ UNCHANGED <<status, left, conns, phase, wire, pending, seq, incoming, faults>>

HeartbeatAlarm(n) ==
    /\ HeartbeatBusy(n)
    /\ SendAlarm(n)
    /\ UNCHANGED <<status, left, conns, open, phase, peers, wire, incoming, faults>>

-----------------------------------------------------------------------------
Reader(e) ==
    \/ Accept(e) \/ Register(e) \/ Read(e) \/ ReadAlarm(e) \/ RelayAlarm(e)
    \/ ReadError(e) \/ Forget(e)

Beat(n) == Heartbeat(n) \/ HeartbeatAlarm(n)

Next ==
    \/ \E n \in Node : \/ Stop(n) \/ Gossip(n) \/ Drain(n) \/ Beat(n)
                       \/ \E m \in Node : Connect(n, m) \/ ConnectFails(n, m)
    \/ \E e \in Ends : Reader(e)
    \/ \E g \in pending : Write(g)
    \/ \E c \in 1..Len(conns) : Break(c)

Spec == Init /\ [][Next]_vars

(* The goroutines of connections and broadcasts are scheduled. *)
FairSpec ==
    /\ Spec
    /\ \A e \in End : WF_vars(e \in Ends /\ Reader(e))
    /\ WF_vars(\E g \in pending : Write(g))

-----------------------------------------------------------------------------
(* Properties. *)

Entry == {e \in Ends : \E n \in Node : \E i \in DOMAIN peers[n] : peers[n][i] = e}

TypeOK ==
    /\ status \in [Node -> {"up", "stopped"}]
    /\ left \in [Node -> [Node -> Nat]]
    /\ conns \in Seq([from: Node, to: Node]) /\ Len(conns) <= MaxConns
    /\ open \subseteq Ends
    /\ phase \in [End -> {"none", "queued", "held", "reading", "relaying", "ending", "done"}]
    /\ DOMAIN peers = Node
    /\ \A n \in Node : DOMAIN peers[n] \subseteq PeerID /\ peers[n] \in [DOMAIN peers[n] -> Ends]
    /\ wire \in [End -> Seq(Message)]
    /\ pending \subseteq [end: Ends, msg: Message]
    /\ seq \in [Node -> Nat]
    /\ incoming \in [Node -> Seq(Message)]
    /\ alarm \in [Node -> {"quiet", "raised", "sent"}]
    /\ faults \in 0..MaxFaults

(* Every entry of the peer table belongs to a goroutine that will delete   *)
(* it: registering over an entry with the same id, stopping, the heartbeat *)
(* and the deferred delete by id leave no entry behind whose reader is     *)
(* gone (p2p.go, Connect, acceptLoop, readLoop).                           *)
PeersServed ==
    \A n \in Node : \A i \in DOMAIN peers[n] :
        LET e == peers[n][i]
        IN /\ Owner(e) = n /\ PeerKey(e) = i
           /\ phase[e] \in {"reading", "relaying", "ending"}

Watchers == {n \in Node : Seeds[n] # {}}
Link == {p \in Node \X Node : Dials[p[1]][p[2]] > 0 \/ Dials[p[2]][p[1]] > 0}

SA == INSTANCE SeedAlarm WITH
          Node <- Node, Watchers <- Watchers, Link <- Link, alarm <- alarm

(* The alert as sent over connections, by readers and heartbeats that race *)
(* for seedDownSignaled, implements SeedAlarm: it is sent once by a node,  *)
(* and taken over only from a neighbour that has sent it.                  *)
ImplementsSeedAlarm == SA!Spec

(* An alert that Broadcast has started to send on a connection is heard at *)
(* its other end, or the connection is lost: a reader never waits for      *)
(* Incoming, which nothing drains in the daemon.                           *)
AlarmHeard ==
    \A c \in 1..MaxConns :
        (\E g \in pending : g.end[1] = c /\ g.msg.type = "alarm")
        ~> (\/ Broken(<<c, "out">>)
            \/ \A side \in Side : alarm[Owner(<<c, side>>)] # "quiet")

(* A connection that is lost, at either end, leaves the peer table: again *)
(* and again no entry is a lost connection (readLoop, heartbeatLoop).      *)
LossNoticed == []<>(\A e \in Entry : {e, Other(e)} \subseteq open)

-----------------------------------------------------------------------------
(* What the comments say and the code does not do. *)

(* "Broadcast sends a message to all connected peers": a node that reads   *)
(* from a connection that is up at both ends has the peer in its table.    *)
ConnectedListed ==
    \A e \in Ends : phase[e] = "reading" /\ ~Broken(e) /\ status[Owner(e)] = "up" =>
        \E f \in Entry : Owner(f) = Owner(e) /\ Owner(Other(f)) = Owner(Other(e))

(* "If ALL configured seed/founder nodes are unreachable": a heartbeat that *)
(* raises the alert has no working connection to a seed.                    *)
AlarmJustified ==
    [][\A n \in Node : alarm[n] = "quiet" /\ alarm'[n] = "raised" /\ phase' = phase =>
          \A e \in Entry : Owner(e) = n /\ Owner(Other(e)) \in Seeds[n] => Broken(e)]_vars
=============================================================================
