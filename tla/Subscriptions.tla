---------------------------- MODULE Subscriptions ----------------------------
(***************************************************************************)
(* The websocket subscriptions of the RPC server (consensus/rpc_ws.go and  *)
(* handleWS of rpc.go): one handler goroutine for each connection, the     *)
(* registry both sides share under sm.mu, and the block loop, whose        *)
(* ProduceBlock calls BroadcastNewHead through OnNewBlock before the block *)
(* is persisted.                                                           *)
(*                                                                         *)
(* Writes to a connection use a context without a deadline: they wait for  *)
(* as long as the client does not read.                                    *)
(***************************************************************************)
EXTENDS Integers, Sequences, FiniteSets

CONSTANTS
    Conn,      \* the connections
    MaxSubs,   \* bound: subscriptions of a run
    MaxHeight, \* bound: blocks of a run
    MaxStalls  \* bound: how often a client stops reading

Id == 1..MaxSubs
Type == {"newHeads", "other"}

ASSUME SubscriptionsAssumption ==
    /\ IsFiniteSet(Conn) /\ MaxSubs \in Nat /\ MaxHeight \in Nat /\ MaxStalls \in Nat

VARIABLES
    link,     \* a connection: "none", "open" or "broken"
    stalled,  \* the clients that do not read at the moment
    stalls,   \* how often a client has stopped reading
    handler,  \* where the handler of a connection is
    nextID,   \* sm.nextID
    sub,      \* the connection and the type of each subscription made
    subs,     \* sm.subs
    connSubs, \* sm.connSubs; a connection without subscriptions has no entry
    closed,   \* how often the done channel of a subscription was closed
    loop,     \* where the block loop is
    height,   \* the block the loop has produced
    batch,    \* BroadcastNewHead's copy of the subscriptions, still to notify
    writing,  \* the subscription whose notification is being written, 0 for none
    received  \* the heads each subscription was sent

vars == <<link, stalled, stalls, handler, nextID, sub, subs, connSubs, closed, loop,
          height, batch, writing, received>>

registry == <<nextID, sub, subs, connSubs, closed>>
client == <<link, stalled, stalls>>
blocks == <<loop, height, batch, writing, received>>

Init ==
    /\ link = [c \in Conn |-> "none"] /\ stalled = {} /\ stalls = 0
    /\ handler = [c \in Conn |-> "none"]
    /\ nextID = 0 /\ sub = << >> /\ subs = {} /\ connSubs = [c \in Conn |-> {}]
    /\ closed = [s \in Id |-> 0]
    /\ loop = "idle" /\ height = 0 /\ batch = {} /\ writing = 0
    /\ received = [s \in Id |-> << >>]

-----------------------------------------------------------------------------
(* Clients. *)

(* handleWS: the upgrade succeeds. *)
Accept(c) ==
    /\ handler[c] = "none"
    /\ handler' = [handler EXCEPT ![c] = "read"]
    /\ link' = [link EXCEPT ![c] = "open"]
    /\ UNCHANGED <<stalled, stalls, registry, blocks>>

(* The client goes away, *)
Disconnect(c) ==
    /\ link[c] = "open"
    /\ link' = [link EXCEPT ![c] = "broken"]
    /\ UNCHANGED <<stalled, stalls, handler, registry, blocks>>

(* stops reading, *)
Stall(c) ==
    /\ link[c] = "open" /\ c \notin stalled /\ stalls < MaxStalls
    /\ stalled' = stalled \cup {c} /\ stalls' = stalls + 1
    /\ UNCHANGED <<link, handler, registry, blocks>>

(* or reads again. *)
Resume(c) ==
    /\ c \in stalled
    /\ stalled' = stalled \ {c}
    /\ UNCHANGED <<link, stalls, handler, registry, blocks>>

(* Mutant: a write to a connection that is gone never returns. *)
ReturnsIfOpen(c) == link[c] = "open" /\ c \notin stalled

(* A write returns: on a broken connection with an error, on an open one *)
(* once the client reads.                                                *)
WriteReturns(c) == link[c] = "broken" \/ c \notin stalled

-----------------------------------------------------------------------------
(* The registry, each operation one critical section. The id that Subscribe *)
(* takes before it locks is its own whenever it registers.                  *)

(* Subscribe: the connection's set, with the new id. *)
WithId(c) == [connSubs EXCEPT ![c] = @ \cup {nextID + 1}]

(* Subscribe. *)
Subscribe(c, t) ==
    /\ nextID < MaxSubs
    /\ nextID' = nextID + 1
    /\ sub' = Append(sub, [conn |-> c, type |-> t])
    /\ subs' = subs \cup {nextID + 1}
    /\ connSubs' = WithId(c)
    /\ UNCHANGED closed

(* Mutant: the entry stays in sm.subs. *)
KeepEntries(ids) == subs

(* sm.subs after some entries are deleted. *)
Deleted(ids) == subs \ ids

(* Unsubscribe: whoever asks, for any id that is registered. *)
Unsubscribe(s) ==
    /\ s \in subs
    /\ connSubs' = [connSubs EXCEPT ![sub[s].conn] = @ \ {s}]
    /\ closed' = [closed EXCEPT ![s] = @ + 1]
    /\ subs' = Deleted({s})
    /\ UNCHANGED <<nextID, sub>>

(* CleanupConn. *)
CleanupConn(c) ==
    /\ closed' = [s \in Id |-> IF s \in connSubs[c] \cap subs THEN closed[s] + 1 ELSE closed[s]]
    /\ subs' = subs \ connSubs[c]
    /\ connSubs' = [connSubs EXCEPT ![c] = {}]
    /\ UNCHANGED <<nextID, sub>>

-----------------------------------------------------------------------------
(* handleWS. *)

(* A request is read, perhaps one that had arrived before the connection *)
(* was lost, and handled; its answer is written next.                    *)
HandleSubscribe(c, t) ==
    /\ handler[c] = "read"
    /\ Subscribe(c, t)
    /\ handler' = [handler EXCEPT ![c] = "reply"]
    /\ UNCHANGED <<client, blocks>>

HandleUnsubscribe(c, s) ==
    /\ handler[c] = "read"
    /\ Unsubscribe(s)
    /\ handler' = [handler EXCEPT ![c] = "reply"]
    /\ UNCHANGED <<client, blocks>>

(* Other methods, bad parameters and ids that are not registered. *)
HandleOther(c) ==
    /\ handler[c] = "read"
    /\ handler' = [handler EXCEPT ![c] = "reply"]
    /\ UNCHANGED <<client, registry, blocks>>

(* writeWSResult ignores the error. *)
Reply(c) ==
    /\ handler[c] = "reply" /\ WriteReturns(c)
    /\ handler' = [handler EXCEPT ![c] = "read"]
    /\ UNCHANGED <<client, registry, blocks>>

(* Mutant: only an explicit close by the client is followed by a cleanup. *)
NoCleanup(c) == UNCHANGED registry

(* The deferred cleanup of handleWS. *)
DeferredCleanup(c) == CleanupConn(c)

(* Read fails: the deferred functions clean up and close the connection. *)
ReadFails(c) ==
    /\ handler[c] = "read" /\ link[c] = "broken"
    /\ DeferredCleanup(c)
    /\ handler' = [handler EXCEPT ![c] = "gone"]
    /\ UNCHANGED <<client, blocks>>

-----------------------------------------------------------------------------
(* The block loop. *)

(* ProduceBlock, up to OnNewBlock, and BroadcastNewHead's copy of the *)
(* newHeads subscriptions.                                            *)
ProduceBlock ==
    /\ loop = "idle" /\ height < MaxHeight
    /\ height' = height + 1
    /\ batch' = {s \in subs : sub[s].type = "newHeads"}
    /\ loop' = "notify"
    /\ UNCHANGED <<client, handler, registry, writing, received>>

(* Mutant: the broadcast ends at the first subscription that is done. *)
StopAtDone(s) == {}

(* The subscriptions left when one is found done. *)
AfterDone(s) == batch \ {s}

(* The select on sub.done. *)
SkipDone(s) ==
    /\ loop = "notify" /\ writing = 0 /\ s \in batch /\ closed[s] > 0
    /\ batch' = AfterDone(s)
    /\ UNCHANGED <<client, handler, registry, loop, height, writing, received>>

(* The default case: the write begins, and the registry may change. *)
StartWrite(s) ==
    /\ loop = "notify" /\ writing = 0 /\ s \in batch /\ closed[s] = 0
    /\ batch' = batch \ {s} /\ writing' = s
    /\ UNCHANGED <<client, handler, registry, loop, height, received>>

(* sendNotification: the write succeeds, *)
Notified ==
    /\ writing # 0 /\ link[sub[writing].conn] = "open" /\ WriteReturns(sub[writing].conn)
    /\ received' = [received EXCEPT ![writing] = Append(@, height)]
    /\ writing' = 0
    /\ UNCHANGED <<client, handler, registry, loop, height, batch>>

(* or fails, and the loop cleans up the connection. *)
NotifyFails ==
    /\ writing # 0 /\ link[sub[writing].conn] = "broken" /\ WriteReturns(sub[writing].conn)
    /\ CleanupConn(sub[writing].conn)
    /\ writing' = 0
    /\ UNCHANGED <<client, handler, loop, height, batch, received>>

(* OnNewBlock returns: only now the block is persisted and sent to peers. *)
Persist ==
    /\ loop = "notify" /\ writing = 0 /\ batch = {}
    /\ loop' = "idle"
    /\ UNCHANGED <<client, handler, registry, height, batch, writing, received>>

-----------------------------------------------------------------------------
Handler(c) ==
    \/ Reply(c) \/ ReadFails(c) \/ HandleOther(c)
    \/ \E t \in Type : HandleSubscribe(c, t)
    \/ \E s \in Id : HandleUnsubscribe(c, s)

Client(c) == Accept(c) \/ Disconnect(c) \/ Stall(c) \/ Resume(c)

Loop ==
    \/ ProduceBlock \/ Notified \/ NotifyFails \/ Persist
    \/ \E s \in batch : SkipDone(s) \/ StartWrite(s)

Next == Loop \/ \E c \in Conn : Handler(c) \/ Client(c)

Spec == Init /\ [][Next]_vars

(* The goroutines are scheduled; clients do as they like. *)
FairSpec == Spec /\ WF_vars(Loop) /\ \A c \in Conn : WF_vars(Reply(c) \/ ReadFails(c))

-----------------------------------------------------------------------------
(* Properties. *)

TypeOK ==
    /\ link \in [Conn -> {"none", "open", "broken"}] /\ stalled \subseteq Conn
    /\ stalls \in 0..MaxStalls
    /\ handler \in [Conn -> {"none", "read", "reply", "gone"}]
    /\ nextID \in 0..MaxSubs /\ sub \in Seq([conn: Conn, type: Type]) /\ Len(sub) = nextID
    /\ subs \subseteq 1..nextID /\ connSubs \in [Conn -> SUBSET (1..nextID)]
    /\ closed \in [Id -> Nat]
    /\ loop \in {"idle", "notify"} /\ height \in 0..MaxHeight
    /\ batch \subseteq 1..nextID /\ writing \in 0..nextID
    /\ received \in [Id -> Seq(0..MaxHeight)]

(* The two maps of the manager agree, whichever of a handler, another     *)
(* client's eth_unsubscribe and a failed notification removed an entry:   *)
(* CleanupConn finds every subscription of its connection and no other    *)
(* (rpc_ws.go, Subscribe, Unsubscribe, CleanupConn).                      *)
MapsAgree == \A c \in Conn : connSubs[c] = {s \in subs : sub[s].conn = c}

(* The done channel of a subscription is closed exactly when the           *)
(* subscription leaves the registry, and never twice: closing it again     *)
(* would panic and end the node.                                           *)
DoneClosedOnce ==
    \A s \in Id : closed[s] = IF s <= nextID /\ s \notin subs THEN 1 ELSE 0

(* A connection whose handler has returned has no subscription left, even  *)
(* if a failed notification had cleaned it up before its last Subscribe.   *)
NoLeak == \A c \in Conn : handler[c] = "gone" => \A s \in subs : sub[s].conn # c

(* A newHeads subscription is sent consecutive blocks: while it lives it   *)
(* misses none and gets none twice (BroadcastNewHead).                     *)
HeadsConsecutive ==
    \A s \in Id : \A i \in 1..(Len(received[s]) - 1) : received[s][i + 1] = received[s][i] + 1

(* Block production, which waits in OnNewBlock for the clients, goes on    *)
(* unless a client has stopped reading: no write to a lost connection and  *)
(* no cleanup holds it up.                                                 *)
LoopWaitsForClientsOnly == (loop = "notify") ~> (loop = "idle" \/ stalled # {})
=============================================================================
