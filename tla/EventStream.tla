---------------------------- MODULE EventStream ----------------------------
(***************************************************************************)
(* The event stream of the telemetry engine (broadcaster.go): any goroutine*)
(* broadcasts, holding the read lock while it offers the event to one      *)
(* client channel after another; a viewer's handler subscribes and         *)
(* unsubscribes under the write lock, and closes its channel there.        *)
(***************************************************************************)
EXTENDS Integers, Sequences

CONSTANTS
    Viewers,   \* connections to the stream; one that comes back is another one
    Writers,   \* goroutines that broadcast: collector, BMP, syslog, acknowledgements
    Buffer,    \* events a channel holds: 16
    MaxEvents  \* bound: broadcasts of a behaviour

ASSUME StreamAssumption == Buffer \in Nat \ {0} /\ MaxEvents \in Nat

VARIABLES
    viewerStage,    \* of each viewer's handler
    clients,  \* registered viewers
    queueOf,     \* queueOf[v]: events waiting for viewer v
    closedChannels, \* viewers whose channel is closed
    casting,  \* broadcasts under way, each holding the read lock: [by, event, todo]
    broadcasts     \* events broadcast so far

streamVars == <<viewerStage, clients, queueOf, closedChannels, casting, broadcasts>>

ViewerStages == {"absent", "subscribing", "open", "closing", "over"}

WantsLock(v) == viewerStage[v] \in {"subscribing", "closing"}

\* Mutant: the clients are changed under the read lock.
LockShared == TRUE

\* The write lock is free.
LockFree == casting = {}

\* A goroutine waiting for the write lock keeps new readers out.
ReadersMayEnter == \A v \in Viewers : ~WantsLock(v)

Casts(w) == {c \in casting : c.by = w}

StreamInit ==
    /\ viewerStage = [v \in Viewers |-> "absent"] /\ clients = {}
    /\ queueOf = [v \in Viewers |-> <<>>] /\ closedChannels = {} /\ casting = {} /\ broadcasts = 0

\* ServeHTTP calls Subscribe.
Connect(v) ==
    /\ viewerStage[v] = "absent" /\ viewerStage' = [viewerStage EXCEPT ![v] = "subscribing"]
    /\ UNCHANGED <<clients, queueOf, closedChannels, casting, broadcasts>>

Subscribe(v) ==
    /\ viewerStage[v] = "subscribing" /\ LockFree
    /\ viewerStage' = [viewerStage EXCEPT ![v] = "open"] /\ clients' = clients \cup {v}
    /\ UNCHANGED <<queueOf, closedChannels, casting, broadcasts>>

\* One turn of ServeHTTP's loop: an event is written to the viewer.
WriteEvent(v) ==
    /\ viewerStage[v] = "open" /\ queueOf[v] # <<>>
    /\ queueOf' = [queueOf EXCEPT ![v] = Tail(@)]
    /\ UNCHANGED <<viewerStage, clients, closedChannels, casting, broadcasts>>

\* The viewer has gone: the loop ends, and the deferred Unsubscribe waits for the lock.
Leave(v) ==
    /\ viewerStage[v] = "open" /\ viewerStage' = [viewerStage EXCEPT ![v] = "closing"]
    /\ UNCHANGED <<clients, queueOf, closedChannels, casting, broadcasts>>

Unsubscribe(v) ==
    /\ viewerStage[v] = "closing" /\ LockFree
    /\ viewerStage' = [viewerStage EXCEPT ![v] = "over"]
    /\ clients' = clients \ {v} /\ closedChannels' = closedChannels \cup {v}
    /\ queueOf' = [queueOf EXCEPT ![v] = <<>>]
    /\ UNCHANGED <<casting, broadcasts>>

\* Broadcast takes the read lock; the loop visits the clients in any order.
Broadcast(w) ==
    /\ Casts(w) = {} /\ ReadersMayEnter /\ broadcasts < MaxEvents
    /\ broadcasts' = broadcasts + 1
    /\ casting' = casting \cup {[by |-> w, event |-> broadcasts', todo |-> clients]}
    /\ UNCHANGED <<viewerStage, clients, queueOf, closedChannels>>

\* Mutant: the send waits for room in the channel.
HasRoomOrDrops(v) == Len(queueOf[v]) < Buffer

\* The select has a default: the turn is over whether there was room or not.
TurnPasses(v) == TRUE

Offer(c, v) ==
    /\ v \in c.todo /\ TurnPasses(v)
    /\ queueOf' = [queueOf EXCEPT ![v] = IF Len(@) < Buffer THEN Append(@, c.event) ELSE @]
    /\ casting' = (casting \ {c}) \cup {[c EXCEPT !.todo = @ \ {v}]}
    /\ UNCHANGED <<viewerStage, clients, closedChannels, broadcasts>>

\* The loop has ended and the read lock is released.
EndCast(c) ==
    /\ c.todo = {} /\ casting' = casting \ {c}
    /\ UNCHANGED <<viewerStage, clients, queueOf, closedChannels, broadcasts>>

CastStep(w) == \E c \in Casts(w) : EndCast(c) \/ \E v \in Viewers : Offer(c, v)

StreamNext ==
    \/ \E v \in Viewers : \/ Connect(v) \/ Subscribe(v) \/ WriteEvent(v)
                          \/ Leave(v) \/ Unsubscribe(v)
    \/ \E w \in Writers : Broadcast(w) \/ CastStep(w)

\* Goroutines that can run do; a viewer may stop reading or stay for ever.
StreamFairness ==
    /\ \A w \in Writers : WF_streamVars(CastStep(w))
    /\ \A v \in Viewers : WF_streamVars(Subscribe(v)) /\ WF_streamVars(Unsubscribe(v))

StreamSpec == StreamInit /\ [][StreamNext]_streamVars /\ StreamFairness

-----------------------------------------------------------------------------
Cast == [by : Writers, event : Nat, todo : SUBSET Viewers]

StreamTypeOK ==
    /\ viewerStage \in [Viewers -> ViewerStages] /\ clients \subseteq Viewers /\ closedChannels \subseteq Viewers
    /\ queueOf \in [Viewers -> Seq(Nat)] /\ casting \subseteq Cast /\ broadcasts \in Nat

(***************************************************************************)
(* No goroutine ever sends on a channel that was closed, which would end   *)
(* the process: whoever a broadcast under way has still to visit has a     *)
(* channel that is open (Broadcast against Unsubscribe).                   *)
(***************************************************************************)
NoSendOnClosedChannel == \A c \in casting : c.todo \cap closedChannels = {}

(***************************************************************************)
(* A viewer that reads slowly, or not at all, holds nobody up: every       *)
(* broadcast ends, and every viewer that comes or goes gets the lock       *)
(* (Broadcast drops what a full channel cannot take).                      *)
(***************************************************************************)
NobodyWaitsForSlowViewers ==
    /\ \A w \in Writers : []<>(Casts(w) = {})
    /\ \A v \in Viewers : []<>~WantsLock(v)
=============================================================================
