------------------------- MODULE SubscriptionsProofs -------------------------
(***************************************************************************)
(* Proofs about Subscriptions. The registry's three invariants depend on   *)
(* each other: CleanupConn deletes what connSubs names, so that NoLeak and *)
(* DoneClosedOnce need MapsAgree, and MapsAgree needs the types (an id     *)
(* keeps its connection when later subscriptions are made).                *)
(***************************************************************************)
EXTENDS Subscriptions, SequenceTheorems, TLAPS

(* What every operation of the registry keeps: the types of its variables. *)
RegistryType ==
    /\ nextID \in 0..MaxSubs /\ sub \in Seq([conn: Conn, type: Type]) /\ Len(sub) = nextID
    /\ subs \subseteq 1..nextID /\ connSubs \in [Conn -> SUBSET (1..nextID)]
    /\ closed \in [Id -> Nat]

(* The invariant of the registry, without the handlers. *)
RegistryInv == RegistryType /\ MapsAgree /\ DoneClosedOnce

(* An id below the next one is an Id and has a connection. *)
LEMMA SubOfId ==
  ASSUME RegistryType, NEW s \in 1..nextID
  PROVE  s \in Id /\ sub[s].conn \in Conn
<1>1. s \in Id
  BY SubscriptionsAssumption DEF RegistryType, Id
<1>2. s \in 1..Len(sub) /\ sub \in Seq([conn: Conn, type: Type])
  BY DEF RegistryType
<1>3. sub[s] \in [conn: Conn, type: Type]
  BY <1>2, ElementOfSeq
<1> QED BY <1>1, <1>3

(* Subscribe adds an id to both maps and leaves the older ones alone. *)
LEMMA SubscribeKeeps ==
  ASSUME RegistryInv, NEW c \in Conn, NEW t \in Type, Subscribe(c, t)
  PROVE  /\ RegistryInv' /\ subs' = subs \cup {nextID + 1} /\ sub'[nextID + 1].conn = c
         /\ \A s \in subs : sub'[s] = sub[s]
<1> USE SubscriptionsAssumption
<1>1. nextID + 1 \in Id /\ nextID + 1 \in 1..nextID' /\ 1..nextID \subseteq 1..nextID'
  BY DEF RegistryInv, RegistryType, Subscribe, Id
<1>2. /\ sub' \in Seq([conn: Conn, type: Type]) /\ Len(sub') = nextID'
      /\ sub'[nextID + 1] = [conn |-> c, type |-> t] /\ \A s \in 1..nextID : sub'[s] = sub[s]
  BY DEF RegistryInv, RegistryType, Subscribe
<1>3. RegistryType'
  <2>1. connSubs' \in [Conn -> SUBSET (1..nextID')]
    BY <1>1 DEF RegistryInv, RegistryType, Subscribe, WithId
  <2> QED BY <1>1, <1>2, <2>1 DEF RegistryInv, RegistryType, Subscribe
<1>4. MapsAgree'
  <2> SUFFICES ASSUME NEW d \in Conn
               PROVE  connSubs'[d] = {s \in subs' : sub'[s].conn = d}
    BY DEF MapsAgree
  <2>1. connSubs[d] = {s \in subs : sub[s].conn = d}
    BY DEF RegistryInv, MapsAgree
  <2>2. connSubs'[d] = IF d = c THEN connSubs[d] \cup {nextID + 1} ELSE connSubs[d]
    BY DEF RegistryInv, RegistryType, Subscribe, WithId
  <2>3. sub'[nextID + 1].conn = c /\ \A s \in subs : sub'[s] = sub[s]
    BY <1>2 DEF RegistryInv, RegistryType
  <2> QED BY <2>1, <2>2, <2>3 DEF Subscribe
<1>5. DoneClosedOnce'
  BY <1>1 DEF RegistryInv, RegistryType, DoneClosedOnce, Subscribe, Id
<1> QED BY <1>2, <1>3, <1>4, <1>5 DEF RegistryInv, RegistryType, Subscribe

(* Unsubscribe takes an id out of both maps and closes its channel. *)
LEMMA UnsubscribeKeeps ==
  ASSUME RegistryInv, NEW s \in Id, Unsubscribe(s)
  PROVE  RegistryInv' /\ subs' \subseteq subs /\ sub' = sub
<1>1. s \in 1..nextID /\ sub[s].conn \in Conn
  BY SubOfId DEF RegistryInv, RegistryType, Unsubscribe
<1>2. RegistryType'
  BY <1>1 DEF RegistryInv, RegistryType, Unsubscribe, Deleted
<1>3. MapsAgree'
  <2> SUFFICES ASSUME NEW d \in Conn
               PROVE  connSubs'[d] = {x \in subs' : sub'[x].conn = d}
    BY DEF MapsAgree
  <2>1. connSubs[d] = {x \in subs : sub[x].conn = d}
    BY DEF RegistryInv, MapsAgree
  <2>2. connSubs'[d] = IF d = sub[s].conn THEN connSubs[d] \ {s} ELSE connSubs[d]
    BY <1>1 DEF RegistryInv, RegistryType, Unsubscribe
  <2> QED BY <2>1, <2>2 DEF Unsubscribe, Deleted
<1>4. DoneClosedOnce'
  <2> SUFFICES ASSUME NEW x \in Id
               PROVE  closed'[x] = IF x <= nextID' /\ x \notin subs' THEN 1 ELSE 0
    BY DEF DoneClosedOnce
  <2>1. closed[x] = IF x <= nextID /\ x \notin subs THEN 1 ELSE 0
    BY DEF RegistryInv, DoneClosedOnce
  <2>2. closed'[x] = IF x = s THEN closed[x] + 1 ELSE closed[x]
    BY DEF RegistryInv, RegistryType, Unsubscribe
  <2> QED BY <1>1, <2>1, <2>2 DEF Unsubscribe, Deleted
<1> QED BY <1>2, <1>3, <1>4 DEF RegistryInv, Unsubscribe, Deleted

(* CleanupConn takes every subscription of a connection, and no other, out *)
(* of both maps and closes their channels.                                 *)
LEMMA CleanupKeeps ==
  ASSUME RegistryInv, NEW c \in Conn, CleanupConn(c)
  PROVE  /\ RegistryInv' /\ sub' = sub /\ nextID' = nextID
         /\ subs' = {s \in subs : sub[s].conn # c}
<1>1. connSubs[c] = {s \in subs : sub[s].conn = c} /\ subs \subseteq Id
  BY SubscriptionsAssumption DEF RegistryInv, MapsAgree, RegistryType, Id
<1>2. subs' = {s \in subs : sub[s].conn # c} /\ sub' = sub /\ nextID' = nextID
  BY <1>1 DEF CleanupConn
<1>3. RegistryType'
  <2>1. connSubs' \in [Conn -> SUBSET (1..nextID)]
    BY DEF RegistryInv, RegistryType, CleanupConn
  <2>2. closed' \in [Id -> Nat]
    <3>1. \A s \in Id : closed[s] \in Nat /\ closed[s] + 1 \in Nat
      BY DEF RegistryInv, RegistryType
    <3> QED BY <3>1 DEF CleanupConn
  <2> QED BY <1>2, <2>1, <2>2 DEF RegistryInv, RegistryType
<1>4. MapsAgree'
  <2> SUFFICES ASSUME NEW d \in Conn
               PROVE  connSubs'[d] = {x \in subs' : sub'[x].conn = d}
    BY DEF MapsAgree
  <2>1. connSubs[d] = {x \in subs : sub[x].conn = d}
    BY DEF RegistryInv, MapsAgree
  <2>2. connSubs'[d] = IF d = c THEN {} ELSE connSubs[d]
    BY DEF RegistryInv, RegistryType, CleanupConn
  <2> QED BY <1>2, <2>1, <2>2
<1>5. DoneClosedOnce'
  <2> SUFFICES ASSUME NEW x \in Id
               PROVE  closed'[x] = IF x <= nextID' /\ x \notin subs' THEN 1 ELSE 0
    BY DEF DoneClosedOnce
  <2>1. closed[x] = IF x <= nextID /\ x \notin subs THEN 1 ELSE 0
    BY DEF RegistryInv, DoneClosedOnce
  <2>2. closed'[x] = IF x \in connSubs[c] \cap subs THEN closed[x] + 1 ELSE closed[x]
    BY DEF CleanupConn
  <2>3. x \in subs => x <= nextID
    BY DEF RegistryInv, RegistryType
  <2> QED BY <1>1, <1>2, <2>1, <2>2, <2>3
<1> QED BY <1>2, <1>3, <1>4, <1>5 DEF RegistryInv

-----------------------------------------------------------------------------
(* The handlers, clients and the loop. *)

(* The types of what the registry does not hold. *)
RestType ==
    /\ link \in [Conn -> {"none", "open", "broken"}] /\ stalled \subseteq Conn
    /\ stalls \in 0..MaxStalls
    /\ handler \in [Conn -> {"none", "read", "reply", "gone"}]
    /\ loop \in {"idle", "notify"} /\ height \in 0..MaxHeight
    /\ batch \subseteq 1..nextID /\ writing \in 0..nextID
    /\ received \in [Id -> Seq(0..MaxHeight)]

(* The inductive invariant. *)
Inv == RegistryInv /\ RestType /\ NoLeak

LEMMA InitInv == Init => Inv
<1> SUFFICES ASSUME Init PROVE Inv
  OBVIOUS
<1>1. RegistryInv
  BY SubscriptionsAssumption
  DEF Init, RegistryInv, RegistryType, MapsAgree, DoneClosedOnce, Id
<1>2. RestType
  BY SubscriptionsAssumption DEF Init, RestType
<1>3. NoLeak
  BY DEF Init, NoLeak
<1> QED BY <1>1, <1>2, <1>3 DEF Inv

(* A step that leaves the registry alone keeps its invariant. *)
LEMMA RegistryUnchanged ==
  ASSUME RegistryInv, UNCHANGED registry
  PROVE  RegistryInv'
  BY DEF RegistryInv, RegistryType, MapsAgree, DoneClosedOnce, registry

LEMMA HandlerKeeps ==
  ASSUME Inv, NEW c \in Conn, Handler(c)
  PROVE  Inv'
<1>1. ASSUME NEW t \in Type, HandleSubscribe(c, t) PROVE Inv'
  <2>1. /\ RegistryInv' /\ subs' = subs \cup {nextID + 1} /\ sub'[nextID + 1].conn = c
        /\ \A s \in subs : sub'[s] = sub[s]
    BY <1>1, SubscribeKeeps DEF Inv, HandleSubscribe
  <2>2. nextID' = nextID + 1 /\ nextID \in Nat
    BY <1>1, SubscriptionsAssumption DEF Inv, RegistryInv, RegistryType, HandleSubscribe, Subscribe
  <2>3. RestType'
    <3>1. batch' \subseteq 1..nextID' /\ writing' \in 0..nextID'
      BY <1>1, <2>2 DEF Inv, RestType, HandleSubscribe, blocks
    <3> QED BY <1>1, <3>1 DEF Inv, RestType, HandleSubscribe, client, blocks
  <2>4. NoLeak'
    BY <1>1, <2>1 DEF Inv, NoLeak, RestType, HandleSubscribe
  <2> QED BY <2>1, <2>3, <2>4 DEF Inv
<1>2. ASSUME NEW s \in Id, HandleUnsubscribe(c, s) PROVE Inv'
  <2>1. RegistryInv' /\ subs' \subseteq subs /\ sub' = sub
    BY <1>2, UnsubscribeKeeps DEF Inv, HandleUnsubscribe
  <2>2. RestType'
    BY <1>2 DEF Inv, RestType, HandleUnsubscribe, Unsubscribe, client, blocks
  <2>3. NoLeak'
    BY <1>2, <2>1 DEF Inv, NoLeak, RestType, HandleUnsubscribe
  <2> QED BY <2>1, <2>2, <2>3 DEF Inv
<1>3. ASSUME HandleOther(c) \/ Reply(c) PROVE Inv'
  <2>1. RegistryInv'
    BY <1>3, RegistryUnchanged DEF Inv, HandleOther, Reply
  <2>2. RestType' /\ NoLeak'
    BY <1>3 DEF Inv, RestType, NoLeak, HandleOther, Reply, registry, client, blocks
  <2> QED BY <2>1, <2>2 DEF Inv
<1>4. ASSUME ReadFails(c) PROVE Inv'
  <2>1. /\ RegistryInv' /\ sub' = sub /\ nextID' = nextID
        /\ subs' = {s \in subs : sub[s].conn # c}
    BY <1>4, CleanupKeeps DEF Inv, ReadFails, DeferredCleanup
  <2>2. RestType'
    BY <1>4, <2>1 DEF Inv, RestType, ReadFails, client, blocks
  <2>3. NoLeak'
    BY <1>4, <2>1 DEF Inv, NoLeak, RestType, ReadFails
  <2> QED BY <2>1, <2>2, <2>3 DEF Inv
<1> QED BY <1>1, <1>2, <1>3, <1>4 DEF Handler

LEMMA ClientKeeps ==
  ASSUME Inv, NEW c \in Conn, Client(c)
  PROVE  Inv'
<1>1. UNCHANGED registry /\ UNCHANGED blocks
  BY DEF Client, Accept, Disconnect, Stall, Resume
<1>2. RegistryInv'
  BY <1>1, RegistryUnchanged DEF Inv
<1>3. /\ link' \in [Conn -> {"none", "open", "broken"}] /\ stalled' \subseteq Conn
      /\ stalls' \in 0..MaxStalls
      /\ handler' \in [Conn -> {"none", "read", "reply", "gone"}]
  <2> USE SubscriptionsAssumption DEF Inv, RestType
  <2>1. CASE Accept(c)
    BY <2>1 DEF Accept
  <2>2. CASE Disconnect(c)
    BY <2>2 DEF Disconnect
  <2>3. CASE Stall(c)
    BY <2>3 DEF Stall
  <2>4. CASE Resume(c)
    BY <2>4 DEF Resume
  <2> QED BY <2>1, <2>2, <2>3, <2>4 DEF Client
<1>4. \A d \in Conn : handler'[d] = "gone" => handler[d] = "gone"
  BY DEF Client, Accept, Disconnect, Stall, Resume, Inv, RestType
<1> QED BY <1>1, <1>2, <1>3, <1>4 DEF Inv, RestType, NoLeak, registry, blocks

LEMMA LoopKeeps ==
  ASSUME Inv, Loop
  PROVE  Inv'
<1>1. handler' = handler /\ UNCHANGED client
  BY DEF Loop, ProduceBlock, Notified, NotifyFails, Persist, SkipDone, StartWrite
<1>2. ASSUME UNCHANGED registry,
             \/ ProduceBlock \/ Notified \/ Persist
             \/ \E s \in batch : SkipDone(s) \/ StartWrite(s)
      PROVE  Inv'
  <2>1. RegistryInv'
    BY <1>2, RegistryUnchanged DEF Inv
  <2>2. NoLeak'
    BY <1>1, <1>2 DEF Inv, NoLeak, registry
  <2>3. loop' \in {"idle", "notify"} /\ height' \in 0..MaxHeight
    BY <1>2, SubscriptionsAssumption
    DEF ProduceBlock, Notified, Persist, SkipDone, StartWrite, Inv, RestType
  <2>4. batch' \subseteq 1..nextID /\ writing' \in 0..nextID
    <3>0. /\ nextID \in Nat /\ subs \subseteq 1..nextID
          /\ batch \subseteq 1..nextID /\ writing \in 0..nextID
      BY SubscriptionsAssumption DEF Inv, RestType, RegistryInv, RegistryType
    <3>1. CASE ProduceBlock
      BY <3>0, <3>1 DEF ProduceBlock
    <3>2. CASE Notified \/ Persist
      <4>1. batch' = batch /\ (writing' = 0 \/ writing' = writing)
        BY <3>2 DEF Notified, Persist
      <4> QED BY <3>0, <4>1
    <3>3. ASSUME NEW s \in batch, SkipDone(s) \/ StartWrite(s)
          PROVE  batch' \subseteq 1..nextID /\ writing' \in 0..nextID
      <4>1. batch' = batch \ {s} /\ (writing' = s \/ writing' = writing)
        BY <3>3 DEF SkipDone, StartWrite, AfterDone
      <4> QED BY <3>0, <4>1
    <3> QED BY <1>2, <3>1, <3>2, <3>3
  <2>5. received' \in [Id -> Seq(0..MaxHeight)]
    <3>1. CASE Notified
      <4>1. writing \in Id
        BY <3>1, SubscriptionsAssumption DEF Notified, Inv, RestType, RegistryInv, RegistryType, Id
      <4>2. Append(received[writing], height) \in Seq(0..MaxHeight)
        BY <4>1 DEF Inv, RestType
      <4> QED BY <3>1, <4>1, <4>2 DEF Notified, Inv, RestType
    <3>2. CASE ~Notified
      BY <1>2, <3>2 DEF ProduceBlock, Persist, SkipDone, StartWrite, Inv, RestType
    <3> QED BY <3>1, <3>2
  <2> QED BY <1>1, <1>2, <2>1, <2>2, <2>3, <2>4, <2>5 DEF Inv, RestType, registry, client
<1>3. ASSUME NotifyFails PROVE Inv'
  <2>1. writing \in 1..nextID /\ sub[writing].conn \in Conn
    BY <1>3, SubOfId DEF NotifyFails, Inv, RestType, RegistryInv, RegistryType
  <2>2. /\ RegistryInv' /\ sub' = sub /\ nextID' = nextID
        /\ subs' = {s \in subs : sub[s].conn # sub[writing].conn}
    BY <1>3, <2>1, CleanupKeeps DEF NotifyFails, Inv
  <2>3. RestType'
    BY <1>3, <2>2 DEF NotifyFails, Inv, RestType, RegistryInv, RegistryType, client
  <2>4. NoLeak'
    BY <1>3, <2>2 DEF NotifyFails, Inv, NoLeak
  <2> QED BY <2>2, <2>3, <2>4 DEF Inv
<1>4. CASE NotifyFails
  BY <1>3, <1>4
<1>5. CASE ~NotifyFails
  <2>1. UNCHANGED registry
    BY <1>5 DEF Loop, ProduceBlock, Notified, Persist, SkipDone, StartWrite
  <2> QED BY <1>2, <1>5, <2>1 DEF Loop
<1> QED BY <1>4, <1>5

(* The inductive invariant holds in every reachable state. *)
THEOREM InvCorrect == Spec => []Inv
<1>1. Inv /\ [Next]_vars => Inv'
  <2> SUFFICES ASSUME Inv, [Next]_vars PROVE Inv'
    OBVIOUS
  <2>1. CASE UNCHANGED vars
    BY <2>1 DEF vars, Inv, RegistryInv, RegistryType, RestType, MapsAgree, DoneClosedOnce, NoLeak
  <2>2. CASE Next
    BY <2>2, HandlerKeeps, ClientKeeps, LoopKeeps DEF Next
  <2> QED BY <2>1, <2>2
<1> QED BY <1>1, InitInv, PTL DEF Spec

-----------------------------------------------------------------------------
(* Results. *)

(* The registry, the handlers and the loop keep their types (rpc_ws.go). *)
THEOREM SubscriptionsTypeCorrect == Spec => []TypeOK
<1>1. Inv => TypeOK
  BY DEF Inv, RegistryInv, RegistryType, RestType, TypeOK
<1> QED BY <1>1, InvCorrect, PTL

(* sm.subs and sm.connSubs always name the same subscriptions: Subscribe,  *)
(* Unsubscribe and CleanupConn keep them in step.                          *)
THEOREM MapsCorrect == Spec => []MapsAgree
<1>1. Inv => MapsAgree
  BY DEF Inv, RegistryInv
<1> QED BY <1>1, InvCorrect, PTL

(* No done channel is closed twice, by whichever of Unsubscribe, a failed  *)
(* notification and the handler's deferred cleanup comes first.            *)
THEOREM ClosedOnce == Spec => []DoneClosedOnce
<1>1. Inv => DoneClosedOnce
  BY DEF Inv, RegistryInv
<1> QED BY <1>1, InvCorrect, PTL

(* A connection whose handler has returned has no subscription (handleWS). *)
THEOREM NothingLeaks == Spec => []NoLeak
<1>1. Inv => NoLeak
  BY DEF Inv
<1> QED BY <1>1, InvCorrect, PTL
-----------------------------------------------------------------------------
(* The heads each subscription is sent. *)

(* The subscriptions the broadcast of the current block has still to serve. *)
Pending == batch \cup {writing}

LastHead(s) == received[s][Len(received[s])]

(* The loop is idle only between broadcasts, and serves each newHeads *)
(* subscription of its copy once.                                     *)
LoopInv ==
    /\ loop = "idle" => batch = {} /\ writing = 0
    /\ writing \notin batch
    /\ \A s \in batch : sub[s].type = "newHeads"
    /\ writing # 0 => sub[writing].type = "newHeads"

(* A subscription that has been sent a head is behind by the current block *)
(* while it is to be served and up to date afterwards; only one that has   *)
(* left the registry, and so is in no later copy, may stay behind.         *)
UpToDate ==
    \A s \in Id : received[s] # << >> =>
        /\ s <= nextID /\ sub[s].type = "newHeads"
        /\ s \in Pending => LastHead(s) = height - 1
        /\ s \in subs \ Pending => LastHead(s) = height

HeadsInv == LoopInv /\ UpToDate /\ HeadsConsecutive

(* Handlers and clients leave the loop alone; what they register is new. *)
LEMMA RegistryGrows ==
  ASSUME Inv, NEW c \in Conn, Handler(c) \/ Client(c)
  PROVE  /\ UNCHANGED blocks /\ nextID <= nextID'
         /\ \A s \in 1..nextID : sub'[s] = sub[s]
         /\ subs' \subseteq subs \cup {nextID + 1}
<1>1. nextID \in Nat /\ sub \in Seq([conn: Conn, type: Type]) /\ Len(sub) = nextID
  BY DEF Inv, RegistryInv, RegistryType
<1>2. ASSUME NEW t \in Type, HandleSubscribe(c, t)
      PROVE  /\ UNCHANGED blocks /\ nextID <= nextID'
             /\ \A s \in 1..nextID : sub'[s] = sub[s]
             /\ subs' \subseteq subs \cup {nextID + 1}
  BY <1>1, <1>2 DEF HandleSubscribe, Subscribe
<1>3. ASSUME NEW s \in Id, HandleUnsubscribe(c, s)
      PROVE  UNCHANGED blocks /\ nextID' = nextID /\ sub' = sub /\ subs' \subseteq subs
  BY <1>3 DEF HandleUnsubscribe, Unsubscribe, Deleted
<1>4. ASSUME ReadFails(c)
      PROVE  UNCHANGED blocks /\ nextID' = nextID /\ sub' = sub /\ subs' \subseteq subs
  BY <1>4 DEF ReadFails, DeferredCleanup, CleanupConn
<1>5. ASSUME Reply(c) \/ HandleOther(c) \/ Client(c)
      PROVE  UNCHANGED blocks /\ nextID' = nextID /\ sub' = sub /\ subs' = subs
  BY <1>5 DEF Reply, HandleOther, Client, Accept, Disconnect, Stall, Resume, registry
<1> QED BY <1>1, <1>2, <1>3, <1>4, <1>5 DEF Handler

LEMMA HeadsOutsideLoop ==
  ASSUME Inv, HeadsInv, NEW c \in Conn, Handler(c) \/ Client(c)
  PROVE  HeadsInv'
<1>1. /\ loop' = loop /\ height' = height /\ batch' = batch /\ writing' = writing
      /\ received' = received /\ nextID <= nextID'
      /\ \A s \in 1..nextID : sub'[s] = sub[s]
      /\ subs' \subseteq subs \cup {nextID + 1}
  BY RegistryGrows DEF blocks
<1>2. /\ nextID \in Nat /\ nextID' \in Nat
      /\ batch \subseteq 1..nextID /\ writing \in 0..nextID /\ height \in Nat
  <2>1. Inv'
    BY HandlerKeeps, ClientKeeps
  <2> QED BY <2>1 DEF Inv, RegistryInv, RegistryType, RestType
<1>3. LoopInv'
  <2>1. \A s \in batch : sub'[s].type = "newHeads"
    BY <1>1, <1>2 DEF HeadsInv, LoopInv
  <2>2. writing # 0 => sub'[writing].type = "newHeads"
    BY <1>1, <1>2 DEF HeadsInv, LoopInv
  <2> QED BY <1>1, <2>1, <2>2 DEF HeadsInv, LoopInv
<1>4. UpToDate'
  <2> SUFFICES ASSUME NEW s \in Id, received[s] # << >>
               PROVE  /\ s <= nextID' /\ sub'[s].type = "newHeads"
                      /\ s \in Pending => LastHead(s) = height - 1
                      /\ s \in subs' \ Pending => LastHead(s) = height
    BY <1>1 DEF UpToDate, Pending, LastHead
  <2>1. /\ s <= nextID /\ sub[s].type = "newHeads"
        /\ s \in Pending => LastHead(s) = height - 1
        /\ s \in subs \ Pending => LastHead(s) = height
    BY DEF HeadsInv, UpToDate
  <2>2. s \in 1..nextID
    BY <1>2, <2>1 DEF Id
  <2> QED BY <1>1, <1>2, <2>1, <2>2
<1>5. HeadsConsecutive'
  BY <1>1 DEF HeadsInv, HeadsConsecutive
<1> QED BY <1>3, <1>4, <1>5 DEF HeadsInv

(* A head that follows the last one keeps a sequence of heads consecutive. *)
LEMMA NextHead ==
  ASSUME NEW q \in Seq(Int), NEW h \in Int,
         \A i \in 1..(Len(q) - 1) : q[i + 1] = q[i] + 1,
         q # << >> => q[Len(q)] = h - 1
  PROVE  /\ \A i \in 1..(Len(Append(q, h)) - 1) : Append(q, h)[i + 1] = Append(q, h)[i] + 1
         /\ Append(q, h) # << >> /\ Append(q, h)[Len(Append(q, h))] = h
<1>1. Len(Append(q, h)) = Len(q) + 1 /\ Append(q, h)[Len(q) + 1] = h
      /\ \A i \in 1..Len(q) : Append(q, h)[i] = q[i]
  BY AppendProperties
<1>2. ASSUME NEW i \in 1..Len(q) PROVE Append(q, h)[i + 1] = Append(q, h)[i] + 1
  <2>1. CASE i = Len(q)
    <3>1. q # << >> /\ q[i] = h - 1
      BY <2>1
    <3> QED BY <1>1, <2>1, <3>1
  <2>2. CASE i # Len(q)
    <3>1. i \in 1..(Len(q) - 1) /\ i + 1 \in 1..Len(q)
      BY <2>2
    <3> QED BY <1>1, <3>1
  <2> QED BY <2>1, <2>2
<1>3. Append(q, h) # << >>
  BY <1>1
<1> QED BY <1>1, <1>2, <1>3

LEMMA HeadsInLoop ==
  ASSUME Inv, HeadsInv, Loop
  PROVE  HeadsInv'
<1>0. /\ nextID \in Nat /\ subs \subseteq 1..nextID /\ height \in Nat
      /\ batch \subseteq 1..nextID /\ writing \in 0..nextID
      /\ received \in [Id -> Seq(0..MaxHeight)] /\ MaxHeight \in Nat
  BY SubscriptionsAssumption DEF Inv, RegistryInv, RegistryType, RestType
<1>1. CASE ProduceBlock
  <2>1. /\ batch = {} /\ writing = 0 /\ writing' = 0 /\ height' = height + 1
        /\ batch' = {s \in subs : sub[s].type = "newHeads"} /\ loop' = "notify"
        /\ received' = received /\ nextID' = nextID /\ sub' = sub /\ subs' = subs
    BY <1>1 DEF ProduceBlock, HeadsInv, LoopInv, registry
  <2>2. LoopInv'
    BY <1>0, <2>1 DEF LoopInv
  <2>3. UpToDate'
    <3> SUFFICES ASSUME NEW s \in Id, received[s] # << >>
                 PROVE  /\ s <= nextID /\ sub[s].type = "newHeads"
                        /\ s \in batch' \cup {0} => LastHead(s) = height' - 1
                        /\ s \in subs \ (batch' \cup {0}) => LastHead(s) = height'
      BY <2>1 DEF UpToDate, Pending, LastHead
    <3>1. s <= nextID /\ sub[s].type = "newHeads" /\ s # 0
      BY DEF HeadsInv, UpToDate, Id
    <3>2. s \in subs => LastHead(s) = height
      BY <2>1, <3>1 DEF HeadsInv, UpToDate, Pending
    <3> QED BY <1>0, <2>1, <3>1, <3>2
  <2>4. HeadsConsecutive'
    BY <2>1 DEF HeadsInv, HeadsConsecutive
  <2> QED BY <2>2, <2>3, <2>4 DEF HeadsInv
<1>2. CASE Notified
  <2>1. /\ writing # 0 /\ writing' = 0 /\ loop' = loop /\ height' = height /\ batch' = batch
        /\ received' = [received EXCEPT ![writing] = Append(received[writing], height)]
        /\ nextID' = nextID /\ sub' = sub /\ subs' = subs
    BY <1>2 DEF Notified, registry
  <2>2. writing \in Id /\ writing \notin batch
    BY <1>0, <2>1, SubscriptionsAssumption DEF Inv, RegistryInv, RegistryType, Id, HeadsInv, LoopInv
  <2>3. LoopInv'
    BY <1>0, <2>1 DEF HeadsInv, LoopInv
  <2>4. /\ received'[writing] = Append(received[writing], height)
        /\ \A s \in Id \ {writing} : received'[s] = received[s]
    BY <1>0, <2>1, <2>2
  <2>5. received[writing] \in Seq(Int) /\ height \in Int
    BY <1>0, <2>2
  <2>6. received[writing] # << >> => received[writing][Len(received[writing])] = height - 1
    BY <2>2 DEF HeadsInv, UpToDate, Pending, LastHead
  <2>7. \A i \in 1..(Len(received[writing]) - 1) : received[writing][i + 1] = received[writing][i] + 1
    BY <2>2 DEF HeadsInv, HeadsConsecutive
  <2>8. /\ received'[writing] # << >> /\ received'[writing][Len(received'[writing])] = height
        /\ \A i \in 1..(Len(received'[writing]) - 1) :
             received'[writing][i + 1] = received'[writing][i] + 1
    <3>1. PICK q \in Seq(Int) : q = received[writing]
      BY <2>5
    <3>2. /\ \A i \in 1..(Len(q) - 1) : q[i + 1] = q[i] + 1
          /\ q # << >> => q[Len(q)] = height - 1
      BY <2>6, <2>7, <3>1
    <3>3. /\ \A i \in 1..(Len(Append(q, height)) - 1) :
               Append(q, height)[i + 1] = Append(q, height)[i] + 1
          /\ Append(q, height) # << >> /\ Append(q, height)[Len(Append(q, height))] = height
      BY <2>5, <3>2, NextHead
    <3>4. received'[writing] = Append(q, height)
      BY <2>4, <3>1
    <3> QED BY <3>3, <3>4
  <2>9. HeadsConsecutive'
    BY <2>4, <2>8, ZenonT(60) DEF HeadsInv, HeadsConsecutive
  <2>10. UpToDate'
    <3> SUFFICES ASSUME NEW s \in Id, received'[s] # << >>
                 PROVE  /\ s <= nextID /\ sub[s].type = "newHeads"
                        /\ s \in batch \cup {0} => received'[s][Len(received'[s])] = height - 1
                        /\ s \in subs \ (batch \cup {0}) => received'[s][Len(received'[s])] = height
      BY <2>1 DEF UpToDate, Pending, LastHead
    <3>1. s # 0
      BY DEF Id
    <3>2. CASE s = writing
      BY <1>0, <2>1, <2>2, <2>8, <3>1, <3>2 DEF HeadsInv, LoopInv
    <3>3. CASE s # writing
      <4>1. received'[s] = received[s]
        BY <2>4, <3>3
      <4>2. /\ s <= nextID /\ sub[s].type = "newHeads"
            /\ s \in Pending => LastHead(s) = height - 1
            /\ s \in subs \ Pending => LastHead(s) = height
        BY <4>1 DEF HeadsInv, UpToDate
      <4> QED BY <3>1, <3>3, <4>1, <4>2 DEF Pending, LastHead
    <3> QED BY <3>2, <3>3
  <2> QED BY <2>3, <2>9, <2>10 DEF HeadsInv
<1>3. CASE NotifyFails
  <2>1. writing \in 1..nextID /\ writing # 0 /\ sub[writing].conn \in Conn
    BY <1>0, <1>3, SubOfId DEF NotifyFails, Inv, RegistryInv
  <2>2. sub' = sub /\ nextID' = nextID /\ subs' = {s \in subs : sub[s].conn # sub[writing].conn}
    BY <1>3, <2>1, CleanupKeeps DEF NotifyFails, Inv
  <2>3. /\ writing' = 0 /\ loop' = loop /\ height' = height /\ batch' = batch
        /\ received' = received /\ writing \notin subs' /\ subs' \subseteq subs
    BY <1>3, <2>2 DEF NotifyFails
  <2>4. LoopInv'
    BY <1>0, <2>2, <2>3 DEF HeadsInv, LoopInv
  <2>5. UpToDate'
    <3> SUFFICES ASSUME NEW s \in Id, received[s] # << >>
                 PROVE  /\ s <= nextID /\ sub[s].type = "newHeads"
                        /\ s \in batch \cup {0} => LastHead(s) = height - 1
                        /\ s \in subs' \ (batch \cup {0}) => LastHead(s) = height
      BY <2>2, <2>3 DEF UpToDate, Pending, LastHead
    <3>1. s # 0
      BY DEF Id
    <3> QED BY <2>3, <3>1 DEF HeadsInv, UpToDate, Pending
  <2>6. HeadsConsecutive'
    BY <2>3 DEF HeadsInv, HeadsConsecutive
  <2> QED BY <2>4, <2>5, <2>6 DEF HeadsInv
<1>4. CASE Persist
  <2>1. UNCHANGED <<height, batch, writing, received, nextID, sub, subs>> /\ batch = {} /\ writing = 0
    BY <1>4 DEF Persist, registry
  <2> QED BY <2>1 DEF HeadsInv, LoopInv, UpToDate, HeadsConsecutive, Pending, LastHead
<1>5. ASSUME NEW d \in batch, SkipDone(d) PROVE HeadsInv'
  <2>1. /\ batch' = batch \ {d} /\ writing = 0 /\ writing' = 0 /\ loop' = loop /\ loop = "notify"
        /\ height' = height /\ received' = received /\ nextID' = nextID /\ sub' = sub /\ subs' = subs
    BY <1>5 DEF SkipDone, AfterDone, registry
  <2>2. d \notin subs
    BY <1>0, <1>5, SubOfId DEF SkipDone, Inv, RegistryInv, DoneClosedOnce
  <2>3. LoopInv'
    BY <1>0, <2>1 DEF HeadsInv, LoopInv
  <2>4. UpToDate'
    BY <2>1, <2>2 DEF HeadsInv, UpToDate, Pending, LastHead
  <2>5. HeadsConsecutive'
    BY <2>1 DEF HeadsInv, HeadsConsecutive
  <2> QED BY <2>3, <2>4, <2>5 DEF HeadsInv
<1>6. ASSUME NEW d \in batch, StartWrite(d) PROVE HeadsInv'
  <2>1. /\ batch' = batch \ {d} /\ writing = 0 /\ writing' = d /\ loop' = loop /\ loop = "notify"
        /\ height' = height /\ received' = received /\ nextID' = nextID /\ sub' = sub /\ subs' = subs
    BY <1>6 DEF StartWrite, registry
  <2>2. LoopInv'
    BY <1>0, <2>1 DEF HeadsInv, LoopInv
  <2>3. UpToDate'
    <3>1. \A s \in Id : s \in Pending' <=> s \in Pending
      BY <2>1 DEF Pending, Id
    <3> QED BY <2>1, <3>1 DEF HeadsInv, UpToDate, LastHead
  <2>4. HeadsConsecutive'
    BY <2>1 DEF HeadsInv, HeadsConsecutive
  <2> QED BY <2>2, <2>3, <2>4 DEF HeadsInv
<1> QED BY <1>1, <1>2, <1>3, <1>4, <1>5, <1>6 DEF Loop

(* A newHeads subscription is sent consecutive blocks, whatever subscribes,*)
(* leaves, stalls or breaks while BroadcastNewHead works through its copy. *)
THEOREM HeadsAreConsecutive == Spec => []HeadsConsecutive
<1>1. Init => HeadsInv
  BY SubscriptionsAssumption
  DEF Init, HeadsInv, LoopInv, UpToDate, HeadsConsecutive, Pending, LastHead
<1>2. Inv /\ HeadsInv /\ [Next]_vars => HeadsInv'
  <2> SUFFICES ASSUME Inv, HeadsInv, [Next]_vars PROVE HeadsInv'
    OBVIOUS
  <2>1. CASE UNCHANGED vars
    BY <2>1 DEF vars, HeadsInv, LoopInv, UpToDate, HeadsConsecutive, Pending, LastHead
  <2>2. CASE Next
    BY <2>2, HeadsOutsideLoop, HeadsInLoop DEF Next
  <2> QED BY <2>1, <2>2
<1>3. HeadsInv => HeadsConsecutive
  BY DEF HeadsInv
<1> QED BY <1>1, <1>2, <1>3, InvCorrect, PTL DEF Spec
=============================================================================
