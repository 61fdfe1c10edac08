------------------------------ MODULE P2PProofs ------------------------------
(***************************************************************************)
(* Proofs about P2P, in three layers: the types; the peer table, which     *)
(* needs the types; and the seed-down alert, which needs both, because     *)
(* Broadcast sends on the ends that the table lists.                       *)
(***************************************************************************)
EXTENDS P2P, SequenceTheorems, TLAPS

(* The type invariant in parts. *)
PlainType ==
    /\ status \in [Node -> {"up", "stopped"}]
    /\ left \in [Node -> [Node -> Nat]]
    /\ seq \in [Node -> Nat]
    /\ alarm \in [Node -> {"quiet", "raised", "sent"}]
    /\ faults \in 0..MaxFaults
ConnType == conns \in Seq([from: Node, to: Node]) /\ Len(conns) <= MaxConns
EndType ==
    /\ open \subseteq Ends
    /\ phase \in [End -> {"none", "queued", "held", "reading", "relaying", "ending", "done"}]
TableType ==
    /\ DOMAIN peers = Node
    /\ \A n \in Node : DOMAIN peers[n] \subseteq PeerID /\ peers[n] \in [DOMAIN peers[n] -> Ends]
MessageType ==
    /\ wire \in [End -> Seq(Message)]
    /\ pending \subseteq [end: Ends, msg: Message]
    /\ incoming \in [Node -> Seq(Message)]

Types == PlainType /\ ConnType /\ EndType /\ TableType /\ MessageType

(* An end of a connection has an owner, a key and another end. *)
LEMMA EndFacts ==
  ASSUME ConnType, NEW e \in Ends
  PROVE  /\ e \in End /\ e[1] \in 1..Len(conns) /\ e[2] \in Side /\ e = <<e[1], e[2]>>
         /\ conns[e[1]] \in [from: Node, to: Node]
         /\ Owner(e) \in Node /\ PeerKey(e) \in PeerID
         /\ Other(e) \in Ends /\ Other(e) \in End /\ Other(e) # e
<1>1. e[1] \in 1..Len(conns) /\ e[2] \in Side /\ e = <<e[1], e[2]>>
  BY DEF Ends
<1>2. conns[e[1]] \in [from: Node, to: Node]
  BY <1>1, ElementOfSeq DEF ConnType
<1>3. e[1] \in 1..MaxConns /\ e \in End
  BY <1>1, P2PAssumption DEF ConnType, End, Ends
<1>4. Owner(e) \in Node
  BY <1>2 DEF Owner
<1>5. PeerKey(e) \in PeerID
  BY <1>2, <1>3 DEF PeerKey, PeerID
<1>6. Other(e) \in Ends /\ Other(e) \in End /\ Other(e) # e
  BY <1>1, <1>3 DEF Other, Ends, End, Side
<1> QED BY <1>1, <1>2, <1>3, <1>4, <1>5, <1>6

(* While no connection is made, ends keep their owners and keys. *)
LEMMA SameConns ==
  ASSUME conns' = conns
  PROVE  /\ Ends' = Ends /\ (ConnType => ConnType')
         /\ \A e : Owner(e)' = Owner(e) /\ PeerKey(e)' = PeerKey(e)
  BY DEF Ends, ConnType, Owner, PeerKey

(* A new connection adds two ends; the others are as before. *)
LEMMA NewConn ==
  ASSUME ConnType, NEW n \in Node, NEW m \in Node, Len(conns) < MaxConns,
         conns' = Append(conns, [from |-> n, to |-> m])
  PROVE  /\ ConnType' /\ Len(conns') = Len(conns) + 1 /\ Len(conns) \in Nat
         /\ conns'[Len(conns) + 1] = [from |-> n, to |-> m]
         /\ \A k \in 1..Len(conns) : conns'[k] = conns[k]
         /\ Ends \subseteq Ends' /\ Ends' \subseteq End
         /\ Ends' = Ends \cup {<<Len(conns) + 1, "out">>, <<Len(conns) + 1, "in">>}
         /\ <<Len(conns) + 1, "out">> \notin Ends /\ <<Len(conns) + 1, "in">> \notin Ends
         /\ \A e \in Ends : Owner(e)' = Owner(e) /\ PeerKey(e)' = PeerKey(e)
<1>1. /\ Len(conns') = Len(conns) + 1 /\ Len(conns) \in Nat /\ Len(conns') <= MaxConns
      /\ conns' \in Seq([from: Node, to: Node])
      /\ conns'[Len(conns) + 1] = [from |-> n, to |-> m]
      /\ \A k \in 1..Len(conns) : conns'[k] = conns[k]
  BY P2PAssumption DEF ConnType
<1>2. 1..Len(conns') = (1..Len(conns)) \cup {Len(conns) + 1} /\ 1..Len(conns') \subseteq 1..MaxConns
  BY <1>1, P2PAssumption
<1>3. Ends' = Ends \cup {<<Len(conns) + 1, "out">>, <<Len(conns) + 1, "in">>} /\ Ends' \subseteq End
  BY <1>2 DEF Ends, End, Side
<1>4. <<Len(conns) + 1, "out">> \notin Ends /\ <<Len(conns) + 1, "in">> \notin Ends
  BY <1>1 DEF Ends
<1>5. \A e \in Ends : Owner(e)' = Owner(e) /\ PeerKey(e)' = PeerKey(e)
  BY <1>1 DEF Ends, Owner, PeerKey
<1> QED BY <1>1, <1>3, <1>4, <1>5 DEF ConnType

-----------------------------------------------------------------------------
(* The types. *)

(* A node's table is replaced by another one. *)
LEMMA TableReplaced ==
  ASSUME TableType, conns' = conns, NEW n \in Node, NEW t,
         DOMAIN t \subseteq PeerID, t \in [DOMAIN t -> Ends],
         peers' = [peers EXCEPT ![n] = t]
  PROVE  TableType'
<1>1. Ends' = Ends
  BY SameConns
<1>2. DOMAIN peers' = Node /\ \A m \in Node : peers'[m] = IF m = n THEN t ELSE peers[m]
  BY DEF TableType
<1> QED BY <1>1, <1>2 DEF TableType

(* A table lists ends. *)
LEMMA TableEnds ==
  ASSUME TableType, NEW n \in Node, NEW i \in DOMAIN peers[n]
  PROVE  peers[n][i] \in Ends
  BY DEF TableType

(* Without is a part of the table. *)
LEMMA WithoutTable ==
  ASSUME TableType, NEW n \in Node, NEW ids, NEW t, t = Without(n, ids)
  PROVE  DOMAIN t \subseteq PeerID /\ t \in [DOMAIN t -> Ends]
<1>1. DOMAIN peers[n] \subseteq PeerID /\ peers[n] \in [DOMAIN peers[n] -> Ends]
  BY DEF TableType
<1> QED BY <1>1 DEF Without

(* Registered has one entry more, or one replaced. *)
LEMMA RegisteredTable ==
  ASSUME ConnType, TableType, NEW n \in Node, NEW e \in Ends, NEW t, t = Registered(n, e)
  PROVE  DOMAIN t \subseteq PeerID /\ t \in [DOMAIN t -> Ends]
<1>1. DOMAIN peers[n] \subseteq PeerID /\ peers[n] \in [DOMAIN peers[n] -> Ends]
  BY DEF TableType
<1>2. PeerKey(e) \in PeerID
  BY EndFacts
<1> QED BY <1>1, <1>2 DEF Registered

(* What Broadcast starts is addressed to ends. *)
LEMMA BroadcastType ==
  ASSUME ConnType, TableType, NEW n \in Node, NEW msg \in Message
  PROVE  Broadcast(n, msg) \subseteq [end: Ends, msg: Message]
  BY TableEnds DEF Broadcast

LEMMA InitTypes == Init => Types
<1> SUFFICES ASSUME Init PROVE Types
  OBVIOUS
<1>1. PlainType
  BY P2PAssumption DEF Init, PlainType
<1>2. ConnType /\ Ends = {}
  BY P2PAssumption DEF Init, ConnType, Ends
<1>3. EndType
  BY DEF Init, EndType
<1>4. TableType
  BY DEF Init, TableType, NoPeers
<1>5. MessageType
  BY DEF Init, MessageType
<1> QED BY <1>1, <1>2, <1>3, <1>4, <1>5 DEF Types

(* Parts that a step leaves alone keep their types. *)
LEMMA SameParts ==
  ASSUME Types, conns' = conns
  PROVE  /\ ConnType'
         /\ UNCHANGED <<status, left, seq, alarm, faults>> => PlainType'
         /\ UNCHANGED <<open, phase>> => EndType'
         /\ UNCHANGED peers => TableType'
         /\ UNCHANGED <<wire, pending, incoming>> => MessageType'
<1>1. Ends' = Ends /\ ConnType'
  BY SameConns DEF Types
<1>2. UNCHANGED <<status, left, seq, alarm, faults>> => PlainType'
  BY DEF Types, PlainType
<1>3. UNCHANGED <<open, phase>> => EndType'
  BY <1>1 DEF Types, EndType
<1>4. UNCHANGED peers => TableType'
  BY <1>1 DEF Types, TableType
<1>5. UNCHANGED <<wire, pending, incoming>> => MessageType'
  BY <1>1 DEF Types, MessageType
<1> QED BY <1>1, <1>2, <1>3, <1>4, <1>5

(* A dial is taken off the list. *)
LEMMA OneDialLess ==
  ASSUME left \in [Node -> [Node -> Nat]], NEW n \in Node, NEW m \in Node, left[n][m] > 0,
         left' = [left EXCEPT ![n][m] = @ - 1]
  PROVE  /\ left' \in [Node -> [Node -> Nat]]
         /\ \A p \in Node, q \in Node : left'[p][q] <= left[p][q]
<1> DEFINE row == [left[n] EXCEPT ![m] = left[n][m] - 1]
<1>1. left[n] \in [Node -> Nat] /\ left[n][m] \in Nat /\ left[n][m] - 1 \in Nat
  OBVIOUS
<1>2. row \in [Node -> Nat] /\ \A q \in Node : row[q] <= left[n][q]
  BY <1>1
<1>3. left' = [left EXCEPT ![n] = row]
  OBVIOUS
<1> HIDE DEF row
<1>4. left' \in [Node -> [Node -> Nat]]
  BY <1>2, <1>3
<1>5. ASSUME NEW p \in Node, NEW q \in Node PROVE left'[p][q] <= left[p][q]
  <2>1. left[p] \in [Node -> Nat] /\ left[p][q] \in Nat
    OBVIOUS
  <2>2. left'[p] = IF p = n THEN row ELSE left[p]
    BY <1>3
  <2> QED BY <1>2, <2>1, <2>2
<1> QED BY <1>4, <1>5

(* Connections are made, fail, break and are closed. *)
LEMMA ConnectionTypes ==
  ASSUME Types
  PROVE  /\ \A n \in Node, m \in Node : Connect(n, m) \/ ConnectFails(n, m) => Types'
         /\ \A n \in Node : Stop(n) => Types'
         /\ \A c \in 1..Len(conns) : Break(c) => Types'
<1> USE DEF Types
<1>1. ASSUME NEW n \in Node, NEW m \in Node, Connect(n, m) PROVE Types'
  <2>1. /\ ConnType' /\ Ends \subseteq Ends' /\ Ends' \subseteq End
        /\ Ends' = Ends \cup {<<Len(conns) + 1, "out">>, <<Len(conns) + 1, "in">>}
    BY <1>1, NewConn DEF Connect
  <2>2. PlainType'
    <3>1. left' \in [Node -> [Node -> Nat]]
      BY <1>1, OneDialLess DEF PlainType, Connect
    <3> QED BY <1>1, <3>1 DEF PlainType, Connect
  <2>3. EndType'
    BY <1>1, <2>1 DEF EndType, Connect
  <2>4. TableType'
    BY <1>1, <2>1 DEF TableType, Connect
  <2>5. MessageType'
    BY <1>1, <2>1 DEF MessageType, Connect
  <2> QED BY <2>1, <2>2, <2>3, <2>4, <2>5
<1>2. ASSUME NEW n \in Node, NEW m \in Node, ConnectFails(n, m) PROVE Types'
  <2>1. PlainType'
    <3>1. left' \in [Node -> [Node -> Nat]]
      BY <1>2, OneDialLess DEF PlainType, ConnectFails
    <3> QED BY <1>2, <3>1, P2PAssumption DEF PlainType, ConnectFails
  <2> QED BY <1>2, <2>1, SameParts DEF ConnectFails
<1>3. ASSUME NEW n \in Node, Stop(n) PROVE Types'
  <2>1. PlainType'
    BY <1>3, P2PAssumption DEF PlainType, Stop
  <2>2. EndType'
    BY <1>3, SameConns DEF EndType, Stop
  <2>3. TableType'
    <3>1. DOMAIN NoPeers = {} /\ NoPeers \in [DOMAIN NoPeers -> Ends]
      BY DEF NoPeers
    <3> QED BY <1>3, <3>1, TableReplaced DEF Stop
  <2> QED BY <1>3, <2>1, <2>2, <2>3, SameParts DEF Stop
<1>4. ASSUME NEW c \in 1..Len(conns), Break(c) PROVE Types'
  <2>1. PlainType'
    BY <1>4, P2PAssumption DEF PlainType, Break
  <2>2. EndType'
    BY <1>4, SameConns DEF EndType, Break
  <2> QED BY <1>4, <2>1, <2>2, SameParts DEF Break
<1> QED BY <1>1, <1>2, <1>3, <1>4

(* Readers: the goroutine that owns an end. *)
LEMMA ReaderTypes ==
  ASSUME Types, NEW e \in Ends, Reader(e)
  PROVE  Types'
<1> USE DEF Types
<1>0. e \in End /\ Owner(e) \in Node /\ PeerKey(e) \in PeerID /\ Other(e) \in End
  BY EndFacts
<1>1. ASSUME Take(e) PROVE wire' \in [End -> Seq(Message)] /\ Head(wire[Other(e)]) \in Message
  <2>1. wire[Other(e)] \in Seq(Message) /\ wire[Other(e)] # << >>
    BY <1>0, <1>1 DEF Take, MessageType
  <2>2. Tail(wire[Other(e)]) \in Seq(Message) /\ Head(wire[Other(e)]) \in Message
    BY <2>1
  <2> QED BY <1>0, <1>1, <2>2 DEF Take, MessageType
<1>2. CASE Accept(e)
  <2>1. EndType'
    BY <1>0, <1>2, SameConns DEF EndType, Accept
  <2> QED BY <1>2, <2>1, SameParts DEF Accept
<1>3. CASE Register(e)
  <2>1. EndType'
    BY <1>0, <1>3, SameConns DEF EndType, Register
  <2>2. TableType'
    <3>1. PICK t : t = Registered(Owner(e), e)
      OBVIOUS
    <3>2. DOMAIN t \subseteq PeerID /\ t \in [DOMAIN t -> Ends]
      BY <1>0, <3>1, RegisteredTable
    <3> QED BY <1>0, <1>3, <3>1, <3>2, TableReplaced DEF Register
  <2> QED BY <1>3, <2>1, <2>2, SameParts DEF Register
<1>4. CASE Read(e)
  <2>1. Append(incoming[Owner(e)], Head(wire[Other(e)])) \in Seq(Message)
    BY <1>0, <1>1, <1>4 DEF Read, MessageType
  <2>2. incoming' \in [Node -> Seq(Message)]
    BY <1>0, <1>4, <2>1 DEF Read, Enqueue, MessageType
  <2>3. MessageType'
    BY <1>1, <1>4, <2>2, SameConns DEF Read, MessageType
  <2> QED BY <1>4, <2>3, SameParts DEF Read
<1>5. CASE ReadAlarm(e)
  <2>1. EndType'
    BY <1>0, <1>5, SameConns DEF EndType, ReadAlarm
  <2>2. PlainType'
    BY <1>0, <1>5 DEF PlainType, ReadAlarm
  <2>3. MessageType'
    BY <1>1, <1>5, SameConns DEF ReadAlarm, MessageType
  <2> QED BY <1>5, <2>1, <2>2, <2>3, SameParts DEF ReadAlarm
<1>6. CASE RelayAlarm(e)
  <2>1. EndType'
    BY <1>0, <1>6, SameConns DEF EndType, RelayAlarm
  <2>2. PlainType'
    BY <1>0, <1>6 DEF PlainType, RelayAlarm, SendAlarm
  <2>3. [type |-> "alarm", seq |-> seq[Owner(e)] + 1] \in Message
    BY <1>0 DEF PlainType, Message
  <2>4. MessageType'
    BY <1>0, <1>6, <2>3, BroadcastType, SameConns DEF RelayAlarm, SendAlarm, MessageType
  <2> QED BY <1>6, <2>1, <2>2, <2>4, SameParts DEF RelayAlarm
<1>7. CASE ReadError(e)
  <2>1. EndType'
    BY <1>0, <1>7, SameConns DEF EndType, ReadError
  <2> QED BY <1>7, <2>1, SameParts DEF ReadError
<1>8. CASE Forget(e)
  <2>1. EndType'
    BY <1>0, <1>8, SameConns DEF EndType, Forget
  <2>2. TableType'
    <3>1. PICK t : t = Without(Owner(e), Forgotten(e))
      OBVIOUS
    <3>2. DOMAIN t \subseteq PeerID /\ t \in [DOMAIN t -> Ends]
      BY <1>0, <3>1, WithoutTable
    <3> QED BY <1>0, <1>8, <3>1, <3>2, TableReplaced DEF Forget
  <2> QED BY <1>8, <2>1, <2>2, SameParts DEF Forget
<1> QED BY <1>2, <1>3, <1>4, <1>5, <1>6, <1>7, <1>8 DEF Reader

(* Broadcasts, writes, the queue and the heartbeat. *)
LEMMA NodeTypes ==
  ASSUME Types
  PROVE  /\ \A n \in Node : Gossip(n) \/ Drain(n) \/ Heartbeat(n) \/ HeartbeatAlarm(n) => Types'
         /\ \A g \in pending : Write(g) => Types'
<1> USE DEF Types
<1>1. ASSUME NEW n \in Node, Gossip(n) PROVE Types'
  <2>1. [type |-> "gossip", seq |-> seq[n] + 1] \in Message
    BY DEF PlainType, Message
  <2>2. MessageType'
    BY <1>1, <2>1, BroadcastType, SameConns DEF Gossip, MessageType
  <2>3. PlainType'
    BY <1>1 DEF PlainType, Gossip
  <2> QED BY <1>1, <2>2, <2>3, SameParts DEF Gossip
<1>2. ASSUME NEW n \in Node, Drain(n) PROVE Types'
  <2>1. Tail(incoming[n]) \in Seq(Message)
    BY <1>2 DEF Drain, MessageType
  <2>2. MessageType'
    BY <1>2, <2>1, SameConns DEF Drain, MessageType
  <2> QED BY <1>2, <2>2, SameParts DEF Drain
<1>3. ASSUME NEW n \in Node, Heartbeat(n) PROVE Types'
  <2>1. PICK dead \in SUBSET Failing(n, FALSE) :
          /\ peers' = [peers EXCEPT ![n] = Without(n, dead)]
          /\ open' = open \ {peers[n][i] : i \in dead}
    BY <1>3 DEF Heartbeat
  <2>2. TableType'
    <3>1. PICK t : t = Without(n, dead)
      OBVIOUS
    <3>2. DOMAIN t \subseteq PeerID /\ t \in [DOMAIN t -> Ends]
      BY <3>1, WithoutTable
    <3> QED BY <1>3, <2>1, <3>1, <3>2, TableReplaced DEF Heartbeat
  <2>3. EndType'
    BY <1>3, <2>1, SameConns DEF Heartbeat, EndType
  <2>4. PlainType'
    BY <1>3 DEF Heartbeat, PlainType
  <2> QED BY <1>3, <2>2, <2>3, <2>4, SameParts DEF Heartbeat
<1>4. ASSUME NEW n \in Node, HeartbeatAlarm(n) PROVE Types'
  <2>1. [type |-> "alarm", seq |-> seq[n] + 1] \in Message
    BY DEF PlainType, Message
  <2>2. MessageType'
    BY <1>4, <2>1, BroadcastType, SameConns DEF HeartbeatAlarm, SendAlarm, MessageType
  <2>3. PlainType'
    BY <1>4 DEF PlainType, HeartbeatAlarm, SendAlarm
  <2> QED BY <1>4, <2>2, <2>3, SameParts DEF HeartbeatAlarm
<1>5. ASSUME NEW g \in pending, Write(g) PROVE Types'
  <2>1. g.end \in End /\ g.msg \in Message
    BY EndFacts DEF MessageType
  <2>2. wire' \in [End -> Seq(Message)]
    <3>1. Append(wire[g.end], g.msg) \in Seq(Message)
      BY <2>1 DEF MessageType
    <3> QED BY <1>5, <2>1, <3>1 DEF Write, MessageType
  <2>3. MessageType'
    BY <1>5, <2>2, SameConns DEF Write, MessageType
  <2> QED BY <1>5, <2>3, SameParts DEF Write
<1> QED BY <1>1, <1>2, <1>3, <1>4, <1>5

LEMMA TypesKept == Types /\ [Next]_vars => Types'
<1> SUFFICES ASSUME Types, [Next]_vars PROVE Types'
  OBVIOUS
<1>1. CASE UNCHANGED vars
  BY <1>1, SameParts DEF vars, Types
<1>2. CASE Next
  BY <1>2, ConnectionTypes, ReaderTypes, NodeTypes DEF Next, Beat
<1> QED BY <1>1, <1>2

-----------------------------------------------------------------------------
(* The peer table. *)

(* What PeersServed says of an end in the table of a node. *)
Serves(n, i, e) ==
    Owner(e) = n /\ PeerKey(e) = i /\ phase[e] \in {"reading", "relaying", "ending"}

(* A step after which every entry was there before, and whose reader is    *)
(* still there, keeps the table served.                                    *)
LEMMA EntriesKept ==
  ASSUME Types, PeersServed,
         \A e \in Ends : Owner(e)' = Owner(e) /\ PeerKey(e)' = PeerKey(e),
         \A n \in Node : \A i \in DOMAIN peers'[n] :
            /\ i \in DOMAIN peers[n] /\ peers'[n][i] = peers[n][i]
            /\ phase'[peers[n][i]] \in {"reading", "relaying", "ending"}
  PROVE  PeersServed'
<1> SUFFICES ASSUME NEW n \in Node, NEW i \in DOMAIN peers'[n], NEW e, e = peers'[n][i]
             PROVE  Serves(n, i, e)'
  BY DEF PeersServed, Serves, Owner, PeerKey
<1>1. e \in Ends /\ Serves(n, i, e)
  BY TableEnds DEF Types, PeersServed, Serves
<1> QED BY <1>1 DEF Serves

LEMMA ServedKept == Types /\ PeersServed /\ [Next]_vars => PeersServed'
<1> SUFFICES ASSUME Types, PeersServed, [Next]_vars PROVE PeersServed'
  OBVIOUS
<1>0. \A n \in Node : \A i \in DOMAIN peers[n] : peers[n][i] \in Ends /\ Serves(n, i, peers[n][i])
  BY TableEnds DEF Types, PeersServed, Serves
<1>1. ASSUME UNCHANGED <<conns, peers>>,
             \A e \in Ends : phase[e] \in {"reading", "relaying", "ending"}
                               => phase'[e] \in {"reading", "relaying", "ending"}
      PROVE  PeersServed'
  BY <1>0, <1>1, SameConns, EntriesKept DEF Serves
<1>2. ASSUME NEW n \in Node, NEW m \in Node, Connect(n, m) PROVE PeersServed'
  <2>1. /\ \A e \in Ends : Owner(e)' = Owner(e) /\ PeerKey(e)' = PeerKey(e)
        /\ <<Len(conns) + 1, "out">> \notin Ends /\ <<Len(conns) + 1, "in">> \notin Ends
        /\ Ends \subseteq End
    BY <1>2, NewConn DEF Connect, Types
  <2>2. \A e \in Ends : phase'[e] = phase[e]
    BY <1>2, <2>1 DEF Connect, Types, EndType
  <2> QED BY <1>0, <1>2, <2>1, <2>2, EntriesKept DEF Connect, Serves
<1>3. ASSUME NEW n \in Node, Stop(n) PROVE PeersServed'
  <2>1. \A m \in Node : \A i \in DOMAIN peers'[m] : i \in DOMAIN peers[m] /\ peers'[m][i] = peers[m][i]
    <3>1. \A m \in Node : peers'[m] = IF m = n THEN NoPeers ELSE peers[m]
      BY <1>3 DEF Stop, Types, TableType
    <3>2. DOMAIN NoPeers = {}
      BY DEF NoPeers
    <3> QED BY <3>1, <3>2
  <2> QED BY <1>0, <1>3, <2>1, SameConns, EntriesKept DEF Stop, Serves
<1>4. ASSUME NEW n \in Node, Heartbeat(n) PROVE PeersServed'
  <2>1. PICK dead \in SUBSET Failing(n, FALSE) : peers' = [peers EXCEPT ![n] = Without(n, dead)]
    BY <1>4 DEF Heartbeat
  <2>2. \A m \in Node : \A i \in DOMAIN peers'[m] : i \in DOMAIN peers[m] /\ peers'[m][i] = peers[m][i]
    <3>1. \A m \in Node : peers'[m] = IF m = n THEN Without(n, dead) ELSE peers[m]
      BY <2>1 DEF Types, TableType
    <3>2. PICK t : t = Without(n, dead)
      OBVIOUS
    <3>3. DOMAIN t = DOMAIN peers[n] \ dead /\ \A i \in DOMAIN t : t[i] = peers[n][i]
      BY <3>2 DEF Without
    <3> QED BY <3>1, <3>2, <3>3
  <2> QED BY <1>0, <1>4, <2>2, SameConns, EntriesKept DEF Heartbeat, Serves
<1>5. ASSUME NEW e \in Ends, Register(e) PROVE PeersServed'
  <2>1. e \in End /\ Owner(e) \in Node /\ conns' = conns
    BY <1>5, EndFacts DEF Register, Types
  <2>2. phase' = [phase EXCEPT ![e] = "reading"] /\ EndType
    BY <1>5 DEF Register, Types
  <2> SUFFICES ASSUME NEW n \in Node, NEW i \in DOMAIN peers'[n], NEW f, f = peers'[n][i]
               PROVE  Serves(n, i, f)'
    BY DEF PeersServed, Serves, Owner, PeerKey
  <2>3. CASE n = Owner(e) /\ i = PeerKey(e)
    <3>1. f = e
      <4>1. peers'[n] = Registered(n, e)
        BY <1>5, <2>1, <2>3 DEF Register, Types, TableType
      <4>2. \A j \in DOMAIN peers'[n] : peers'[n][j] = IF j = PeerKey(e) THEN e ELSE peers[n][j]
        BY <4>1 DEF Registered
      <4> QED BY <2>3, <4>2
    <3> QED BY <2>1, <2>2, <2>3, <3>1, SameConns DEF Serves, EndType
  <2>4. CASE ~(n = Owner(e) /\ i = PeerKey(e))
    <3>1. i \in DOMAIN peers[n] /\ f = peers[n][i]
      <4>1. peers'[n] = IF n = Owner(e) THEN Registered(n, e) ELSE peers[n]
        BY <1>5, <2>1 DEF Register, Types, TableType
      <4>2. CASE n = Owner(e)
        <5>1. PICK t : t = Registered(n, e)
          OBVIOUS
        <5>2. /\ DOMAIN t = DOMAIN peers[n] \cup {PeerKey(e)}
              /\ \A j \in DOMAIN t : t[j] = IF j = PeerKey(e) THEN e ELSE peers[n][j]
          BY <5>1 DEF Registered
        <5> QED BY <2>4, <4>1, <4>2, <5>1, <5>2
      <4> QED BY <4>1, <4>2
    <3>2. f \in End /\ Serves(n, i, f)
      BY <1>0, <3>1, EndFacts DEF Types
    <3>3. phase'[f] = phase[f]
      BY <1>5, <2>1, <2>2, <3>2 DEF Register, Serves, EndType
    <3> QED BY <2>1, <3>1, <3>2, <3>3, SameConns DEF Serves
  <2> QED BY <2>3, <2>4
<1>6. ASSUME NEW e \in Ends, Forget(e) PROVE PeersServed'
  <2>1. e \in End /\ Owner(e) \in Node /\ conns' = conns
    BY <1>6, EndFacts DEF Forget, Types
  <2>2. ASSUME NEW n \in Node, NEW i \in DOMAIN peers'[n]
        PROVE  /\ i \in DOMAIN peers[n] /\ peers'[n][i] = peers[n][i]
               /\ n = Owner(e) => i # PeerKey(e)
    <3>1. CASE n = Owner(e)
      <4>1. peers'[n] = Without(n, {PeerKey(e)})
        BY <1>6, <2>1, <3>1 DEF Forget, Forgotten, Types, TableType
      <4>2. PICK t : t = Without(n, {PeerKey(e)})
        OBVIOUS
      <4>3. DOMAIN t = DOMAIN peers[n] \ {PeerKey(e)} /\ \A j \in DOMAIN t : t[j] = peers[n][j]
        BY <4>2 DEF Without
      <4> QED BY <4>1, <4>2, <4>3
    <3>2. CASE n # Owner(e)
      BY <1>6, <2>1, <3>2 DEF Forget, Types, TableType
    <3> QED BY <3>1, <3>2
  <2>3. ASSUME NEW n \in Node, NEW i \in DOMAIN peers'[n]
        PROVE  phase'[peers[n][i]] \in {"reading", "relaying", "ending"}
    <3>1. Serves(n, i, peers[n][i]) /\ peers[n][i] \in End
      BY <1>0, <2>2, EndFacts DEF Types
    <3>2. peers[n][i] # e
      BY <2>2, <3>1 DEF Serves
    <3> QED BY <1>6, <2>1, <3>1, <3>2 DEF Forget, Serves, Types, EndType
  <2> QED BY <2>1, <2>2, <2>3, SameConns, EntriesKept
<1>7. ASSUME NEW e \in Ends,
             Accept(e) \/ Read(e) \/ ReadAlarm(e) \/ RelayAlarm(e) \/ ReadError(e)
      PROVE  PeersServed'
  <2>1. UNCHANGED <<conns, peers>>
    BY <1>7 DEF Accept, Read, ReadAlarm, RelayAlarm, ReadError
  <2>2. \/ phase' = phase
        \/ \E p \in {"reading", "relaying", "ending"} : phase' = [phase EXCEPT ![e] = p]
        \/ phase[e] = "queued" /\ phase' = [phase EXCEPT ![e] = "held"]
    <3>1. CASE Accept(e)
      BY <3>1 DEF Accept
    <3>2. CASE Read(e)
      BY <3>2 DEF Read
    <3>3. CASE ReadAlarm(e)
      BY <3>3 DEF ReadAlarm
    <3>4. CASE RelayAlarm(e)
      BY <3>4 DEF RelayAlarm
    <3>5. CASE ReadError(e)
      BY <3>5 DEF ReadError
    <3> QED BY <1>7, <3>1, <3>2, <3>3, <3>4, <3>5
  <2>3. \A f \in Ends : f \in End
    BY EndFacts DEF Types
  <2> QED BY <1>1, <2>1, <2>2, <2>3 DEF Types, EndType
<1>8. CASE UNCHANGED vars
  BY <1>1, <1>8 DEF vars
<1>9. CASE Next
  <2>1. ASSUME NEW n \in Node, NEW m \in Node, ConnectFails(n, m) PROVE PeersServed'
    BY <1>1, <2>1 DEF ConnectFails
  <2>2. ASSUME NEW n \in Node, Gossip(n) \/ Drain(n) \/ HeartbeatAlarm(n) PROVE PeersServed'
    BY <1>1, <2>2 DEF Gossip, Drain, HeartbeatAlarm
  <2>3. ASSUME NEW g \in pending, Write(g) PROVE PeersServed'
    BY <1>1, <2>3 DEF Write
  <2>4. ASSUME NEW c \in 1..Len(conns), Break(c) PROVE PeersServed'
    BY <1>1, <2>4 DEF Break
  <2> QED BY <1>2, <1>3, <1>4, <1>5, <1>6, <1>7, <1>9, <2>1, <2>2, <2>3, <2>4 DEF Next, Beat, Reader
<1> QED BY <1>8, <1>9

-----------------------------------------------------------------------------
(* The alert. *)

(* Connections follow the peer lists: what is left to dial is part of the  *)
(* list, and every connection was dialled.                                 *)
DialsInv ==
    /\ \A n \in Node, m \in Node : left[n][m] <= Dials[n][m]
    /\ \A k \in 1..Len(conns) : Dials[conns[k].from][conns[k].to] > 0

(* An alert under way, in a goroutine of Broadcast or on a wire, was sent. *)
SentInv ==
    /\ \A g \in pending : g.msg.type = "alarm" => alarm[Owner(g.end)] = "sent"
    /\ \A e \in Ends : \A k \in 1..Len(wire[e]) :
          wire[e][k].type = "alarm" => alarm[Owner(e)] = "sent"
    /\ \A e \in End \ Ends : wire[e] = << >>

(* A reader that relays the alert has set its node's flag, alone. *)
RelayInv ==
    /\ \A e \in Ends : phase[e] = "relaying" => alarm[Owner(e)] = "raised"
    /\ \A e \in Ends, f \in Ends :
          phase[e] = "relaying" /\ phase[f] = "relaying" /\ Owner(e) = Owner(f) => e = f

(* Dials and conns change together in Connect only. *)
LEMMA DialsKept == Types /\ DialsInv /\ [Next]_vars => DialsInv'
<1> SUFFICES ASSUME Types, DialsInv, [Next]_vars PROVE DialsInv'
  OBVIOUS
<1>1. ASSUME UNCHANGED <<left, conns>> PROVE DialsInv'
  BY <1>1 DEF DialsInv
<1>2. ASSUME NEW n \in Node, NEW m \in Node, left[n][m] > 0, left' = [left EXCEPT ![n][m] = @ - 1]
      PROVE  /\ Dials[n][m] > 0
             /\ \A p \in Node, q \in Node : left'[p][q] <= Dials[p][q]
  <2>1. /\ left' \in [Node -> [Node -> Nat]] /\ left \in [Node -> [Node -> Nat]]
        /\ \A p \in Node, q \in Node : left'[p][q] <= left[p][q]
    BY <1>2, OneDialLess DEF Types, PlainType
  <2>2. \A p \in Node, q \in Node :
           left[p][q] \in Nat /\ left'[p][q] \in Nat /\ Dials[p][q] \in Nat /\ left[p][q] <= Dials[p][q]
    BY <2>1, P2PAssumption DEF DialsInv
  <2> QED BY <1>2, <2>1, <2>2
<1>3. ASSUME NEW n \in Node, NEW m \in Node, Connect(n, m) PROVE DialsInv'
  <2>1. /\ Len(conns') = Len(conns) + 1 /\ Len(conns) \in Nat
        /\ conns'[Len(conns) + 1] = [from |-> n, to |-> m]
        /\ \A k \in 1..Len(conns) : conns'[k] = conns[k]
    BY <1>3, NewConn DEF Connect, Types
  <2>2. Dials[n][m] > 0 /\ \A p \in Node, q \in Node : left'[p][q] <= Dials[p][q]
    BY <1>2, <1>3 DEF Connect
  <2>3. ASSUME NEW k \in 1..Len(conns') PROVE Dials[conns'[k].from][conns'[k].to] > 0
    <3>1. CASE k = Len(conns) + 1
      BY <2>1, <2>2, <3>1
    <3>2. CASE k # Len(conns) + 1
      <4>1. k \in 1..Len(conns)
        BY <2>1, <3>2
      <4> QED BY <2>1, <4>1 DEF DialsInv
    <3> QED BY <3>1, <3>2
  <2> QED BY <2>2, <2>3 DEF DialsInv
<1>4. ASSUME NEW n \in Node, NEW m \in Node, ConnectFails(n, m) PROVE DialsInv'
  BY <1>2, <1>4 DEF ConnectFails, DialsInv
<1>5. CASE UNCHANGED vars
  BY <1>1, <1>5 DEF vars
<1>6. CASE Next
  <2>1. ASSUME NEW n \in Node, Stop(n) \/ Gossip(n) \/ Drain(n) \/ Heartbeat(n) \/ HeartbeatAlarm(n)
        PROVE  DialsInv'
    BY <1>1, <2>1 DEF Stop, Gossip, Drain, Heartbeat, HeartbeatAlarm
  <2>2. ASSUME NEW e \in Ends, Reader(e) PROVE DialsInv'
    BY <1>1, <2>2
    DEF Reader, Accept, Register, Read, ReadAlarm, RelayAlarm, ReadError, Forget
  <2>3. ASSUME NEW g \in pending, Write(g) PROVE DialsInv'
    BY <1>1, <2>3 DEF Write
  <2>4. ASSUME NEW c \in 1..Len(conns), Break(c) PROVE DialsInv'
    BY <1>1, <2>4 DEF Break
  <2> QED BY <1>3, <1>4, <1>6, <2>1, <2>2, <2>3, <2>4 DEF Next, Beat
<1> QED BY <1>5, <1>6

(* The steps that do not touch the alert. *)
Silent ==
    /\ alarm' = alarm
    /\ \/ \E n \in Node : Stop(n) \/ Gossip(n) \/ Drain(n)
       \/ \E n \in Node, m \in Node : Connect(n, m) \/ ConnectFails(n, m)
       \/ \E e \in Ends : Accept(e) \/ Register(e) \/ Read(e) \/ ReadError(e) \/ Forget(e)
       \/ \E g \in pending : Write(g)
       \/ \E c \in 1..Len(conns) : Break(c)
       \/ UNCHANGED vars

LEMMA NextCases ==
  ASSUME [Next]_vars
  PROVE  \/ Silent
         \/ \E e \in Ends : ReadAlarm(e) \/ RelayAlarm(e)
         \/ \E n \in Node : Heartbeat(n) \/ HeartbeatAlarm(n)
<1>1. CASE UNCHANGED vars
  BY <1>1 DEF Silent, vars
<1>2. ASSUME NEW n \in Node, NEW m \in Node, Connect(n, m) \/ ConnectFails(n, m) PROVE Silent
  BY <1>2 DEF Silent, Connect, ConnectFails
<1>3. ASSUME NEW n \in Node, Stop(n) \/ Gossip(n) \/ Drain(n) PROVE Silent
  BY <1>3 DEF Silent, Stop, Gossip, Drain
<1>4. ASSUME NEW e \in Ends, Accept(e) \/ Register(e) \/ Read(e) \/ ReadError(e) \/ Forget(e)
      PROVE  Silent
  BY <1>4 DEF Silent, Accept, Register, Read, ReadError, Forget
<1>5. ASSUME NEW g \in pending, Write(g) PROVE Silent
  BY <1>5 DEF Silent, Write
<1>6. ASSUME NEW c \in 1..Len(conns), Break(c) PROVE Silent
  BY <1>6 DEF Silent, Break
<1> QED BY <1>1, <1>2, <1>3, <1>4, <1>5, <1>6 DEF Next, Beat, Reader

(* The readers' turns: no two of them relay for one node. *)
LEMMA RelayKept == Types /\ RelayInv /\ [Next]_vars => RelayInv'
<1> SUFFICES ASSUME Types, RelayInv, [Next]_vars PROVE RelayInv'
  OBVIOUS
<1>0. Ends \subseteq End /\ \A e \in Ends : Owner(e) \in Node
  BY EndFacts DEF Types
<1>1. ASSUME conns' = conns,
             \A e \in Ends : phase'[e] = "relaying" =>
                phase[e] = "relaying" /\ alarm'[Owner(e)] = alarm[Owner(e)]
      PROVE  RelayInv'
  <2>1. Ends' = Ends /\ \A e : Owner(e)' = Owner(e)
    BY <1>1, SameConns
  <2> QED BY <1>1, <2>1 DEF RelayInv
<1>2. ASSUME NEW n \in Node, NEW m \in Node, Connect(n, m) PROVE RelayInv'
  <2>1. /\ Ends' = Ends \cup {<<Len(conns) + 1, "out">>, <<Len(conns) + 1, "in">>}
        /\ Ends' \subseteq End
        /\ <<Len(conns) + 1, "out">> \notin Ends /\ <<Len(conns) + 1, "in">> \notin Ends
        /\ \A e \in Ends : Owner(e)' = Owner(e)
    BY <1>2, NewConn DEF Connect, Types
  <2>2. \A e \in Ends' : phase'[e] = "relaying" => e \in Ends /\ phase[e] = "relaying"
    BY <1>2, <2>1 DEF Connect, Types, EndType
  <2>3. alarm' = alarm
    BY <1>2 DEF Connect
  <2> QED BY <2>1, <2>2, <2>3 DEF RelayInv
<1>3. CASE Silent /\ \A n \in Node, m \in Node : ~Connect(n, m)
  <2>1. conns' = conns /\ alarm' = alarm
    BY <1>3 DEF Silent, Stop, Gossip, Drain, ConnectFails, Accept, Register, Read, ReadError,
                Forget, Write, Break, vars
  <2>2. \/ phase' = phase
        \/ \E e \in Ends, p \in {"held", "reading", "ending", "done"} : phase' = [phase EXCEPT ![e] = p]
    BY <1>3 DEF Silent, Stop, Gossip, Drain, ConnectFails, Accept, Register, Read, ReadError,
                Forget, Write, Break, vars
  <2>3. \A e \in Ends : phase'[e] = "relaying" => phase[e] = "relaying"
    BY <1>0, <2>2 DEF Types, EndType
  <2> QED BY <1>1, <2>1, <2>3
<1>4. ASSUME NEW e \in Ends, ReadAlarm(e) PROVE RelayInv'
  <2>1. conns' = conns /\ Ends' = Ends /\ \A f : Owner(f)' = Owner(f)
    BY <1>4, SameConns DEF ReadAlarm
  <2>2. CASE alarm[Owner(e)] # "quiet"
    BY <1>1, <1>4, <2>1, <2>2 DEF ReadAlarm, NotSignaled
  <2>3. CASE alarm[Owner(e)] = "quiet"
    <3>1. /\ alarm' = [alarm EXCEPT ![Owner(e)] = "raised"]
          /\ phase' = [phase EXCEPT ![e] = "relaying"]
      BY <1>4, <2>3 DEF ReadAlarm, NotSignaled
    <3>2. \A f \in Ends : f # e /\ phase'[f] = "relaying" =>
             /\ phase[f] = "relaying" /\ Owner(f) # Owner(e)
             /\ alarm'[Owner(f)] = alarm[Owner(f)]
      BY <1>0, <2>3, <3>1 DEF RelayInv, Types, EndType, PlainType
    <3>3. alarm'[Owner(e)] = "raised"
      BY <1>0, <3>1 DEF Types, PlainType
    <3> QED BY <2>1, <3>2, <3>3 DEF RelayInv
  <2> QED BY <2>2, <2>3
<1>5. ASSUME NEW e \in Ends, RelayAlarm(e) PROVE RelayInv'
  <2>1. \A f \in Ends : phase'[f] = "relaying" => f # e /\ phase[f] = "relaying"
    BY <1>0, <1>5 DEF RelayAlarm, Types, EndType
  <2>2. \A f \in Ends : phase'[f] = "relaying" => alarm'[Owner(f)] = alarm[Owner(f)]
    BY <1>0, <1>5, <2>1 DEF RelayAlarm, SendAlarm, RelayInv, Types, PlainType
  <2> QED BY <1>1, <1>5, <2>1, <2>2 DEF RelayAlarm
<1>6. ASSUME NEW n \in Node, Heartbeat(n) PROVE RelayInv'
  <2>1. \A f \in Ends : phase[f] = "relaying" => alarm'[Owner(f)] = alarm[Owner(f)]
    BY <1>0, <1>6 DEF Heartbeat, NotSignaled, RelayInv, Types, PlainType
  <2> QED BY <1>1, <1>6, <2>1 DEF Heartbeat
<1>7. ASSUME NEW n \in Node, HeartbeatAlarm(n) PROVE RelayInv'
  <2>1. \A f \in Ends : phase[f] = "relaying" => alarm'[Owner(f)] = alarm[Owner(f)]
    BY <1>0, <1>7 DEF HeartbeatAlarm, HeartbeatBusy, SendAlarm, RelayInv, Types, PlainType
  <2> QED BY <1>1, <1>7, <2>1 DEF HeartbeatAlarm
<1> QED BY <1>2, <1>3, <1>4, <1>5, <1>6, <1>7, NextCases

(* What has been sent stays sent. *)
LEMMA SentStays ==
  ASSUME Types, [Next]_vars, NEW n \in Node, alarm[n] = "sent"
  PROVE  alarm'[n] = "sent"
<1>1. ASSUME NEW e \in Ends, ReadAlarm(e) \/ RelayAlarm(e) PROVE alarm'[n] = "sent"
  <2>1. Owner(e) \in Node
    BY EndFacts DEF Types
  <2> QED BY <1>1, <2>1 DEF ReadAlarm, NotSignaled, RelayAlarm, SendAlarm, Types, PlainType
<1>2. ASSUME NEW m \in Node, Heartbeat(m) \/ HeartbeatAlarm(m) PROVE alarm'[n] = "sent"
  BY <1>2 DEF Heartbeat, NotSignaled, HeartbeatAlarm, SendAlarm, Types, PlainType
<1> QED BY <1>1, <1>2, NextCases DEF Silent

(* An alert is on a wire only after its sender has broadcast it. *)
LEMMA SentKept == Types /\ PeersServed /\ SentInv /\ [Next]_vars => SentInv'
<1> SUFFICES ASSUME Types, PeersServed, SentInv, [Next]_vars PROVE SentInv'
  OBVIOUS
<1>0. Ends \subseteq End /\ \A e \in Ends : Owner(e) \in Node
  BY EndFacts DEF Types
<1>1. \A e \in Ends : alarm[Owner(e)] = "sent" => alarm'[Owner(e)] = "sent"
  BY <1>0, SentStays
<1>2. \A g \in pending : g.end \in Ends /\ g.msg \in Message
  BY DEF Types, MessageType
<1>3. ASSUME conns' = conns, wire' = wire,
             \A g \in pending' : g \in pending \/
                (g.msg.type = "alarm" => g.end \in Ends /\ alarm'[Owner(g.end)] = "sent")
      PROVE  SentInv'
  <2>1. Ends' = Ends /\ End' = End /\ \A e : Owner(e)' = Owner(e)
    BY <1>3, SameConns DEF End
  <2>2. ASSUME NEW g \in pending', g.msg.type = "alarm", NEW e, e = g.end
        PROVE  alarm'[Owner(e)'] = "sent"
    BY <1>1, <1>2, <1>3, <2>1, <2>2 DEF SentInv
  <2>3. \A g \in pending' : g.msg.type = "alarm" => alarm'[Owner(g.end)'] = "sent"
    BY <2>2
  <2> QED BY <1>1, <1>3, <2>1, <2>3 DEF SentInv
<1>4. ASSUME NEW n \in Node, NEW m \in Node, Connect(n, m) PROVE SentInv'
  <2>1. /\ Ends \subseteq Ends' /\ Ends' \subseteq End
        /\ \A e \in Ends : Owner(e)' = Owner(e)
    BY <1>4, NewConn DEF Connect, Types
  <2>2. alarm' = alarm /\ wire' = wire /\ pending' = pending
    BY <1>4 DEF Connect
  <2>3. \A g \in pending : g.msg.type = "alarm" => alarm[Owner(g.end)'] = "sent"
    BY <1>2, <2>1 DEF SentInv
  <2>4. ASSUME NEW e \in Ends', NEW k \in 1..Len(wire[e]), wire[e][k].type = "alarm"
        PROVE  alarm[Owner(e)'] = "sent"
    <3>1. e \in Ends
      BY <2>1, <2>4 DEF SentInv
    <3> QED BY <2>1, <2>4, <3>1 DEF SentInv
  <2>5. \A e \in End \ Ends' : wire[e] = << >>
    BY <2>1 DEF SentInv
  <2> QED BY <2>2, <2>3, <2>4, <2>5 DEF SentInv
<1>5. ASSUME NEW g \in pending, Write(g) PROVE SentInv'
  <2>1. Ends' = Ends /\ \A e : Owner(e)' = Owner(e)
    BY <1>5, SameConns DEF Write
  <2>2. alarm' = alarm /\ pending' \subseteq pending
    BY <1>5 DEF Write
  <2>3. g.end \in Ends /\ wire[g.end] \in Seq(Message) /\ g.msg \in Message
    BY <1>0, <1>2 DEF Types, MessageType
  <2>4. ASSUME NEW e \in End, NEW k \in 1..Len(wire'[e]), wire'[e][k].type = "alarm"
        PROVE  e \in Ends /\ alarm[Owner(e)] = "sent"
    <3>1. wire'[e] = wire[e] \/ (e = g.end /\ wire'[e] = Append(wire[e], g.msg))
      BY <1>5, <2>3 DEF Write, Types, MessageType
    <3>2. CASE wire'[e] = wire[e]
      BY <2>4, <3>2 DEF SentInv
    <3>3. CASE e = g.end /\ wire'[e] = Append(wire[e], g.msg)
      <4>1. (k \in 1..Len(wire[e]) /\ wire'[e][k] = wire[e][k]) \/ wire'[e][k] = g.msg
        BY <2>3, <2>4, <3>3
      <4> QED BY <2>3, <2>4, <3>3, <4>1 DEF SentInv
    <3> QED BY <3>1, <3>2, <3>3
  <2>5. ASSUME NEW e \in End \ Ends PROVE wire'[e] = << >>
    BY <1>5, <2>3, <2>5 DEF Write, SentInv, Types, MessageType
  <2>6. \A h \in pending' : h.msg.type = "alarm" => alarm[Owner(h.end)'] = "sent"
    BY <2>1, <2>2 DEF SentInv
  <2> QED BY <1>0, <2>1, <2>2, <2>4, <2>5, <2>6 DEF SentInv
<1>6. ASSUME NEW e \in Ends, Take(e), conns' = conns, pending' = pending PROVE SentInv'
  <2>1. Ends' = Ends /\ \A f : Owner(f)' = Owner(f)
    BY <1>6, SameConns
  <2>2. \A f \in End : wire[f] \in Seq(Message)
    BY DEF Types, MessageType
  <2>3. ASSUME NEW f \in End, NEW k \in 1..Len(wire'[f]), wire'[f][k].type = "alarm"
        PROVE  f \in Ends /\ alarm[Owner(f)] = "sent"
    <3>1. wire'[f] = wire[f] \/ (wire[f] # << >> /\ wire'[f] = Tail(wire[f]))
      <4>1. wire' = [wire EXCEPT ![Other(e)] = Tail(wire[Other(e)])] /\ wire[Other(e)] # << >>
        BY <1>6 DEF Take
      <4>2. CASE f = Other(e)
        BY <4>1, <4>2 DEF Types, MessageType
      <4>3. CASE f # Other(e)
        BY <4>1, <4>3 DEF Types, MessageType
      <4> QED BY <4>2, <4>3
    <3>2. \E j \in 1..Len(wire[f]) : wire[f][j].type = "alarm"
      <4>1. CASE wire'[f] = wire[f]
        BY <2>3, <4>1
      <4>2. CASE wire[f] # << >> /\ wire'[f] = Tail(wire[f])
        <5>1. k + 1 \in 1..Len(wire[f]) /\ wire'[f][k] = wire[f][k + 1]
          BY <2>2, <2>3, <4>2
        <5> QED BY <2>3, <5>1
      <4> QED BY <3>1, <4>1, <4>2
    <3>3. wire[f] # << >>
      BY <2>2, <3>2
    <3> QED BY <3>2, <3>3 DEF SentInv
  <2>4. ASSUME NEW f \in End \ Ends PROVE wire'[f] = << >>
    <3>1. Other(e) \in Ends
      BY EndFacts DEF Types
    <3> QED BY <1>6, <2>4, <3>1 DEF Take, SentInv, Types, MessageType
  <2>5. \A g \in pending' : g.msg.type = "alarm" => alarm'[Owner(g.end)'] = "sent"
    BY <1>1, <1>2, <1>6, <2>1 DEF SentInv
  <2>6. ASSUME NEW f \in Ends', NEW k \in 1..Len(wire'[f]), wire'[f][k].type = "alarm"
        PROVE  alarm'[Owner(f)'] = "sent"
    BY <1>0, <1>1, <2>1, <2>3, <2>6
  <2> QED BY <2>1, <2>4, <2>5, <2>6 DEF SentInv
<1>7. ASSUME NEW n \in Node, SendAlarm(n), conns' = conns, wire' = wire PROVE SentInv'
  <2>1. alarm'[n] = "sent"
    BY <1>7 DEF SendAlarm, Types, PlainType
  <2>2. ASSUME NEW g \in pending', g \notin pending
        PROVE  g.end \in Ends /\ alarm'[Owner(g.end)] = "sent"
    <3>1. PICK i \in DOMAIN peers[n] : g.end = peers[n][i]
      BY <1>7, <2>2 DEF SendAlarm, Broadcast
    <3>2. g.end \in Ends /\ Owner(g.end) = n
      BY <3>1, TableEnds DEF Types, PeersServed
    <3> QED BY <2>1, <3>2
  <2> QED BY <1>3, <1>7, <2>2
<1>8. ASSUME NEW n \in Node, Gossip(n) PROVE SentInv'
  <2>1. ASSUME NEW g \in pending', g \notin pending PROVE g.msg.type # "alarm"
    BY <1>8, <2>1 DEF Gossip, Broadcast
  <2> QED BY <1>3, <1>8, <2>1 DEF Gossip
<1>9. CASE UNCHANGED <<conns, wire, pending>>
  BY <1>3, <1>9
<1>10. CASE Silent
  <2>1. ASSUME NEW e \in Ends, Accept(e) \/ Register(e) \/ ReadError(e) \/ Forget(e)
        PROVE  UNCHANGED <<conns, wire, pending>>
    BY <2>1 DEF Accept, Register, ReadError, Forget
  <2>2. ASSUME NEW e \in Ends, Read(e) PROVE SentInv'
    BY <1>6, <2>2 DEF Read
  <2>3. ASSUME NEW n \in Node, Stop(n) \/ Drain(n) PROVE UNCHANGED <<conns, wire, pending>>
    BY <2>3 DEF Stop, Drain
  <2>4. ASSUME NEW n \in Node, NEW m \in Node, ConnectFails(n, m)
        PROVE  UNCHANGED <<conns, wire, pending>>
    BY <2>4 DEF ConnectFails
  <2>5. ASSUME NEW c \in 1..Len(conns), Break(c) PROVE UNCHANGED <<conns, wire, pending>>
    BY <2>5 DEF Break
  <2>6. UNCHANGED vars => UNCHANGED <<conns, wire, pending>>
    BY DEF vars
  <2> QED BY <1>4, <1>5, <1>8, <1>9, <1>10, <2>1, <2>2, <2>3, <2>4, <2>5, <2>6 DEF Silent
<1>11. ASSUME NEW e \in Ends, ReadAlarm(e) PROVE SentInv'
  BY <1>6, <1>11 DEF ReadAlarm
<1>12. ASSUME NEW e \in Ends, RelayAlarm(e) PROVE SentInv'
  BY <1>0, <1>7, <1>12 DEF RelayAlarm
<1>13. ASSUME NEW n \in Node, Heartbeat(n) PROVE SentInv'
  BY <1>9, <1>13 DEF Heartbeat
<1>14. ASSUME NEW n \in Node, HeartbeatAlarm(n) PROVE SentInv'
  BY <1>7, <1>14 DEF HeartbeatAlarm
<1> QED BY <1>10, <1>11, <1>12, <1>13, <1>14, NextCases

-----------------------------------------------------------------------------
(* Results. *)

(* The inductive invariant. *)
Inv == Types /\ PeersServed /\ DialsInv /\ RelayInv /\ SentInv

(* It holds in every reachable state. *)
THEOREM InvCorrect == Spec => []Inv
<1>1. Init => Inv
  <2> SUFFICES ASSUME Init PROVE Inv
    OBVIOUS
  <2>1. Types
    BY InitTypes
  <2>2. PeersServed
    BY DEF Init, NoPeers, PeersServed
  <2>3. Ends = {} /\ conns = << >>
    BY DEF Init, Ends
  <2>4. DialsInv
    <3>1. \A n \in Node, m \in Node : Dials[n][m] \in Nat
      BY P2PAssumption
    <3> QED BY <2>3, <3>1 DEF Init, DialsInv
  <2>5. RelayInv /\ SentInv
    BY <2>3 DEF Init, RelayInv, SentInv
  <2> QED BY <2>1, <2>2, <2>4, <2>5 DEF Inv
<1>2. Inv /\ [Next]_vars => Inv'
  BY TypesKept, ServedKept, DialsKept, RelayKept, SentKept DEF Inv
<1> QED BY <1>1, <1>2, PTL DEF Spec

(* Tables, connections, messages and flags keep their types (p2p.go). *)
THEOREM P2PTypeCorrect == Spec => []TypeOK
<1>1. Inv => TypeOK
  BY DEF Inv, Types, PlainType, ConnType, EndType, TableType, MessageType, TypeOK
<1> QED BY <1>1, InvCorrect, PTL

(* Every entry of a peer table has the goroutine that will delete it, for  *)
(* any peer lists and any order of dials, breaks, stops and heartbeats.    *)
THEOREM TablesServed == Spec => []PeersServed
<1>1. Inv => PeersServed
  BY DEF Inv
<1> QED BY <1>1, InvCorrect, PTL

(* The two ends of a connection are neighbours. *)
LEMMA Neighbours ==
  ASSUME Types, DialsInv, NEW e \in Ends
  PROVE  Owner(Other(e)) \in Node /\ <<Owner(Other(e)), Owner(e)>> \in Link
<1>1. /\ e[1] \in 1..Len(conns) /\ e[2] \in Side /\ conns[e[1]] \in [from: Node, to: Node]
      /\ Owner(e) \in Node
  BY EndFacts DEF Types
<1>2. /\ Owner(e) = IF e[2] = "out" THEN conns[e[1]].from ELSE conns[e[1]].to
      /\ Owner(Other(e)) = IF e[2] = "out" THEN conns[e[1]].to ELSE conns[e[1]].from
  BY <1>1 DEF Owner, Other, Side
<1>3. Dials[conns[e[1]].from][conns[e[1]].to] > 0
  BY <1>1 DEF DialsInv
<1> QED BY <1>1, <1>2, <1>3 DEF Link

(* The alert over connections implements SeedAlarm: a node takes the alert *)
(* over only from a neighbour that has sent it and sends it once, however  *)
(* its readers and its heartbeat race for seedDownSignaled.                *)
THEOREM AlarmRefines == Spec => ImplementsSeedAlarm
<1>1. Init => SA!Init
  BY DEF Init, SA!Init
<1>2. Inv /\ [Next]_vars => [SA!Next]_alarm
  <2> SUFFICES ASSUME Inv, [Next]_vars, alarm' # alarm PROVE SA!Next
    OBVIOUS
  <2>0. Types /\ DialsInv /\ RelayInv /\ SentInv
    BY DEF Inv
  <2>1. ASSUME NEW e \in Ends, ReadAlarm(e) PROVE SA!Next
    <3>1. Owner(e) \in Node /\ Other(e) \in Ends /\ Other(e) \in End
      BY <2>0, EndFacts DEF Types
    <3>2. Owner(Other(e)) \in Node /\ <<Owner(Other(e)), Owner(e)>> \in Link
      BY <2>0, Neighbours
    <3>3. wire[Other(e)] \in Seq(Message) /\ wire[Other(e)] # << >> /\ wire[Other(e)][1].type = "alarm"
      BY <2>0, <2>1, <3>1 DEF ReadAlarm, Take, Types, MessageType
    <3>4. alarm[Owner(Other(e))] = "sent"
      BY <2>0, <3>1, <3>3 DEF SentInv
    <3>5. alarm[Owner(e)] = "quiet" /\ alarm' = [alarm EXCEPT ![Owner(e)] = "raised"]
      BY <2>1 DEF ReadAlarm, NotSignaled
    <3>6. SA!Hear(Owner(e), Owner(Other(e)))
      BY <3>2, <3>4, <3>5 DEF SA!Hear
    <3> QED BY <3>1, <3>2, <3>6 DEF SA!Next
  <2>2. ASSUME NEW n \in Node, alarm[n] = "raised", SendAlarm(n) PROVE SA!Next
    BY <2>2 DEF SendAlarm, SA!Send, SA!Next
  <2>3. ASSUME NEW e \in Ends, RelayAlarm(e) PROVE SA!Next
    <3>1. Owner(e) \in Node /\ alarm[Owner(e)] = "raised"
      BY <2>0, <2>3, EndFacts DEF RelayAlarm, RelayInv, Types
    <3> QED BY <2>2, <2>3, <3>1 DEF RelayAlarm
  <2>4. ASSUME NEW n \in Node, Heartbeat(n) PROVE SA!Next
    <3>1. /\ alarm[n] = "quiet" /\ Seeds[n] # {}
          /\ alarm' = [alarm EXCEPT ![n] = "raised"]
      BY <2>4 DEF Heartbeat, NotSignaled
    <3> QED BY <3>1 DEF Watchers, SA!Raise, SA!Next
  <2>5. ASSUME NEW n \in Node, HeartbeatAlarm(n) PROVE SA!Next
    BY <2>2, <2>5 DEF HeartbeatAlarm, HeartbeatBusy
  <2> QED BY <2>1, <2>3, <2>4, <2>5, NextCases DEF Silent
<1> QED BY <1>1, <1>2, InvCorrect, PTL DEF Spec, ImplementsSeedAlarm, SA!Spec
=============================================================================
