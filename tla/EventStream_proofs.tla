------------------------- MODULE EventStream_proofs -------------------------
(***************************************************************************)
(* The event stream, for any number of viewers and of goroutines that      *)
(* broadcast and for channels of any size: no send reaches a closed        *)
(* channel, and an event reaches every viewer subscribed when it is        *)
(* broadcast once, or not at all when the viewer's channel is full.        *)
(***************************************************************************)
EXTENDS EventStream, SequenceTheorems, TLAPS

(* A channel is registered exactly while its handler holds it, and is       *)
(* closed only after that.                                                  *)
ClientsHoldTheirChannel ==
  /\ clients = {v \in Viewers : viewerStage[v] \in {"open", "closing"}}
  /\ closedChannels = {v \in Viewers : viewerStage[v] = "over"}

(* The channels a broadcast has still to visit are registered: they can     *)
(* not be taken away while it holds the read lock.                          *)
TodoIsRegistered == \A c \in casting : c.todo \subseteq clients

StreamInv == StreamTypeOK /\ ClientsHoldTheirChannel /\ TodoIsRegistered

-----------------------------------------------------------------------------
(* Nothing is registered, queued or broadcast in the beginning.             *)
LEMMA StreamStarts == StreamInit => StreamInv
BY StreamAssumption DEF StreamInit, StreamInv, StreamTypeOK, ViewerStages, ClientsHoldTheirChannel,
   TodoIsRegistered

(* The viewers' handlers keep the invariant: the set of clients changes     *)
(* only while no broadcast is under way.                                    *)
LEMMA ViewersKeepInv ==
  ASSUME StreamInv, NEW v \in Viewers,
         Connect(v) \/ Subscribe(v) \/ WriteEvent(v) \/ Leave(v) \/ Unsubscribe(v)
  PROVE  StreamInv'
<1> USE DEF StreamInv, StreamTypeOK, ViewerStages, ClientsHoldTheirChannel, TodoIsRegistered
<1>1. CASE Connect(v)
  BY <1>1 DEF Connect
<1>2. CASE Subscribe(v)
  BY <1>2 DEF Subscribe, LockFree
<1>3. CASE WriteEvent(v)
  <2>1. queueOf' \in [Viewers -> Seq(Nat)]
    <3>1. queueOf[v] \in Seq(Nat) /\ queueOf[v] # <<>>
      BY <1>3 DEF WriteEvent
    <3>2. Tail(queueOf[v]) \in Seq(Nat)
      BY <3>1
    <3> QED
      BY <1>3, <3>2 DEF WriteEvent
  <2> QED
    BY <1>3, <2>1 DEF WriteEvent
<1>4. CASE Leave(v)
  BY <1>4 DEF Leave
<1>5. CASE Unsubscribe(v)
  BY <1>5 DEF Unsubscribe, LockFree
<1> QED
  BY <1>1, <1>2, <1>3, <1>4, <1>5

(* So do the broadcasts: one that begins is to visit the clients there are, *)
(* one under way has ever fewer to visit.                                   *)
LEMMA WritersKeepInv ==
  ASSUME StreamInv, NEW w \in Writers, Broadcast(w) \/ CastStep(w)
  PROVE  StreamInv'
<1> USE DEF StreamInv, StreamTypeOK, ClientsHoldTheirChannel, TodoIsRegistered
<1>1. CASE Broadcast(w)
  <2> DEFINE new == [by |-> w, event |-> broadcasts', todo |-> clients]
  <2>1. casting' = casting \cup {new} /\ broadcasts' = broadcasts + 1
    BY <1>1 DEF Broadcast
  <2>2. new \in Cast /\ new.todo = clients
    BY <2>1 DEF Cast
  <2> HIDE DEF new
  <2>3. casting' \subseteq Cast /\ \A c \in casting' : c.todo \subseteq clients
    BY <2>1, <2>2
  <2> QED
    BY <1>1, <2>1, <2>3 DEF Broadcast
<1>2. CASE CastStep(w)
  <2>1. PICK c \in casting : EndCast(c) \/ \E v \in Viewers : Offer(c, v)
    BY <1>2 DEF CastStep, Casts
  <2>2. CASE EndCast(c)
    BY <2>2 DEF EndCast
  <2>3. CASE \E v \in Viewers : Offer(c, v)
    <3>1. PICK v \in Viewers : Offer(c, v)
      BY <2>3
    <3> DEFINE rest == [c EXCEPT !.todo = @ \ {v}]
    <3>2. c \in Cast
      BY <2>1
    <3>3. rest \in Cast /\ rest.todo \subseteq c.todo
      BY <3>2 DEF Cast
    <3>4. casting' = (casting \ {c}) \cup {rest}
      BY <3>1 DEF Offer
    <3> HIDE DEF rest
    <3>5. casting' \subseteq Cast /\ \A d \in casting' : d.todo \subseteq clients
      BY <2>1, <3>3, <3>4
    <3>6. queueOf' \in [Viewers -> Seq(Nat)]
      <4>1. c.event \in Nat /\ queueOf[v] \in Seq(Nat)
        BY <3>2 DEF Cast
      <4>2. Append(queueOf[v], c.event) \in Seq(Nat)
        BY <4>1
      <4> QED
        BY <3>1, <4>2 DEF Offer
    <3> QED
      BY <3>1, <3>5, <3>6 DEF Offer
  <2> QED
    BY <2>1, <2>2, <2>3
<1> QED
  BY <1>1, <1>2

(* The invariant holds in every reachable state.                            *)
LEMMA StreamInvariant == StreamSpec => []StreamInv
<1>1. StreamInv /\ [StreamNext]_streamVars => StreamInv'
  <2> SUFFICES ASSUME StreamInv, [StreamNext]_streamVars PROVE StreamInv'
    OBVIOUS
  <2>1. CASE StreamNext
    BY <2>1, ViewersKeepInv, WritersKeepInv DEF StreamNext
  <2>2. CASE UNCHANGED streamVars
    BY <2>2 DEF streamVars, StreamInv, StreamTypeOK, ClientsHoldTheirChannel, TodoIsRegistered
  <2> QED
    BY <2>1, <2>2
<1> QED
  BY StreamStarts, <1>1, PTL DEF StreamSpec

-----------------------------------------------------------------------------
(* Handlers, channels and broadcasts keep their types in every reachable    *)
(* state.                                                                   *)
THEOREM StreamTypeCorrect == StreamSpec => []StreamTypeOK
<1>1. StreamInv => StreamTypeOK
  BY DEF StreamInv
<1> QED
  BY StreamInvariant, <1>1, PTL

(* Whatever viewers come and go while events are broadcast, a broadcast     *)
(* never visits a channel that Unsubscribe has closed.                      *)
THEOREM ClosedChannelsAreLeftAlone == StreamSpec => []NoSendOnClosedChannel
<1>1. StreamInv => NoSendOnClosedChannel
  BY DEF StreamInv, ClientsHoldTheirChannel, TodoIsRegistered, NoSendOnClosedChannel
<1> QED
  BY StreamInvariant, <1>1, PTL

-----------------------------------------------------------------------------
(* Delivery *)

(* A broadcast has still to visit the viewer with the event.                *)
Awaits(v, e) == \E c \in casting : c.event = e /\ v \in c.todo

(* The event is in the viewer's channel.                                    *)
Waits(v, e) == \E i \in 1..Len(queueOf[v]) : queueOf[v][i] = e

(* Every broadcast under way has an event of its own.                       *)
CastsAreDistinct == \A c, d \in casting : c.event = d.event => c = d

(* A channel holds events that were broadcast, each once and none that is   *)
(* still to be offered, and no more than it has room for.                   *)
QueuesHoldEachOnce ==
  \A v \in Viewers :
    /\ Len(queueOf[v]) <= Buffer
    /\ \A i, j \in 1..Len(queueOf[v]) : queueOf[v][i] = queueOf[v][j] => i = j
    /\ \A i \in 1..Len(queueOf[v]) : ~Awaits(v, queueOf[v][i])

EventsAreNumbered ==
  /\ \A c \in casting : c.event <= broadcasts
  /\ \A v \in Viewers : \A i \in 1..Len(queueOf[v]) : queueOf[v][i] <= broadcasts

DeliveryInv == StreamInv /\ CastsAreDistinct /\ EventsAreNumbered /\ QueuesHoldEachOnce

(* An event comes to a viewer's channel only by its broadcast, and is not   *)
(* offered again then; only a new event is offered to anybody else; and     *)
(* only a full channel misses the event that is offered to it.              *)
Delivers ==
  \A v \in Viewers, e \in Nat :
    /\ Waits(v, e)' => Waits(v, e) \/ (Awaits(v, e) /\ ~Awaits(v, e)')
    /\ Awaits(v, e)' => Awaits(v, e) \/ (e > broadcasts /\ v \in clients)
    /\ Awaits(v, e) => Awaits(v, e)' \/ Waits(v, e)' \/ Len(queueOf[v]) = Buffer

EventsComeOnce == [][Delivers]_streamVars

(* A channel without its first event holds the others, one place further.   *)
LEMMA TailOfQueue ==
  ASSUME NEW q \in Seq(Nat), q # <<>>
  PROVE  Len(Tail(q)) = Len(q) - 1 /\ \A i \in 1..(Len(q) - 1) : Tail(q)[i] = q[i + 1]
BY HeadTailProperties

(* Steps that broadcast nothing and take from a channel its first event,    *)
(* all or none, keep the events apart.                                      *)
LEMMA NothingNew ==
  ASSUME DeliveryInv, StreamInv', casting' \subseteq casting, broadcasts' = broadcasts,
         \A c \in casting \ casting' : c.todo = {},
         \A v \in Viewers : \/ queueOf'[v] \in {queueOf[v], <<>>}
                            \/ queueOf[v] # <<>> /\ queueOf'[v] = Tail(queueOf[v])
  PROVE  DeliveryInv' /\ Delivers
<1> USE DEF DeliveryInv
<1>1. CastsAreDistinct'
  BY DEF CastsAreDistinct
<1>2. ASSUME NEW v \in Viewers
      PROVE  /\ Len(queueOf'[v]) <= Len(queueOf[v])
             /\ \A i \in 1..Len(queueOf'[v]) :
                  \E k \in {0, 1} :
                    i + k \in 1..Len(queueOf[v]) /\ queueOf'[v][i] = queueOf[v][i + k]
             /\ \A i, j \in 1..Len(queueOf'[v]) : queueOf'[v][i] = queueOf'[v][j] => i = j
  <2>1. /\ queueOf[v] \in Seq(Nat) /\ Len(queueOf[v]) \in Nat
        /\ \A i, j \in 1..Len(queueOf[v]) : queueOf[v][i] = queueOf[v][j] => i = j
    BY DEF StreamInv, StreamTypeOK, QueuesHoldEachOnce
  <2>2. CASE queueOf'[v] = queueOf[v]
    BY <2>1, <2>2
  <2>3. CASE queueOf'[v] = <<>>
    BY <2>1, <2>3
  <2>4. CASE queueOf[v] # <<>> /\ queueOf'[v] = Tail(queueOf[v])
    <3> DEFINE n == Len(queueOf[v])
    <3>1. Len(queueOf'[v]) = n - 1 /\ \A i \in 1..(n - 1) : queueOf'[v][i] = queueOf[v][i + 1]
      BY <2>1, <2>4, TailOfQueue
    <3> HIDE DEF n
    <3>2. n \in Nat /\ \A i, j \in 1..n : queueOf[v][i] = queueOf[v][j] => i = j
      BY <2>1 DEF n
    <3>3. n - 1 <= n /\ \A i \in 1..(n - 1) : i + 1 \in 1..n
      BY <3>2
    <3>4. ASSUME NEW i \in 1..(n - 1), NEW j \in 1..(n - 1), queueOf'[v][i] = queueOf'[v][j]
          PROVE  i = j
      <4>1. i + 1 = j + 1
        BY <3>1, <3>2, <3>3, <3>4
      <4> QED
        BY <3>2, <4>1
    <3> QED
      BY <3>1, <3>3, <3>4 DEF n
  <2> QED
    BY <2>2, <2>3, <2>4
<1>3. \A v \in Viewers : \A e : Awaits(v, e)' => Awaits(v, e)
  BY DEF Awaits
<1>4. \A v \in Viewers : \A e : Waits(v, e)' => Waits(v, e)
  BY <1>2 DEF Waits
<1>5. \A v \in Viewers : \A e : Awaits(v, e) => Awaits(v, e)'
  BY DEF Awaits
<1>6. EventsAreNumbered'
  <2>1. \A c \in casting' : c.event <= broadcasts'
    BY DEF EventsAreNumbered
  <2>2. ASSUME NEW v \in Viewers, NEW i \in 1..Len(queueOf'[v])
        PROVE  queueOf'[v][i] <= broadcasts'
    <3>1. PICK k \in {0, 1} : i + k \in 1..Len(queueOf[v]) /\ queueOf'[v][i] = queueOf[v][i + k]
      BY <1>2, <2>2
    <3> QED
      BY <3>1 DEF EventsAreNumbered
  <2> QED
    BY <2>1, <2>2 DEF EventsAreNumbered
<1>7. QueuesHoldEachOnce'
  <2>1. \A v \in Viewers : Len(queueOf'[v]) <= Buffer
    <3> SUFFICES ASSUME NEW v \in Viewers PROVE Len(queueOf'[v]) <= Buffer
      OBVIOUS
    <3>1. /\ queueOf[v] \in Seq(Nat) /\ queueOf'[v] \in Seq(Nat) /\ Len(queueOf[v]) <= Buffer
      BY DEF StreamInv, StreamTypeOK, QueuesHoldEachOnce
    <3> QED
      BY <1>2, <3>1, StreamAssumption
  <2>2. ASSUME NEW v \in Viewers, NEW i \in 1..Len(queueOf'[v]) PROVE ~Awaits(v, queueOf[v][i])'
    <3>1. PICK k \in {0, 1} : i + k \in 1..Len(queueOf[v]) /\ queueOf'[v][i] = queueOf[v][i + k]
      BY <1>2, <2>2
    <3>2. ~Awaits(v, queueOf[v][i + k])
      BY <3>1 DEF QueuesHoldEachOnce
    <3> QED
      BY <3>1, <3>2 DEF Awaits
  <2> QED
    BY <1>2, <2>1, <2>2 DEF QueuesHoldEachOnce
<1> QED
  BY <1>1, <1>3, <1>4, <1>5, <1>6, <1>7 DEF Delivers

(* A new broadcast has an event nobody has been offered.                    *)
LEMMA BroadcastIsNew ==
  ASSUME DeliveryInv, StreamInv', NEW w \in Writers, Broadcast(w)
  PROVE  DeliveryInv' /\ Delivers
<1> DEFINE new == [by |-> w, event |-> broadcasts + 1, todo |-> clients]
<1>1. /\ casting' = casting \cup {new} /\ broadcasts' = broadcasts + 1
      /\ queueOf' = queueOf /\ clients' = clients
  BY DEF Broadcast
<1>2. new.event = broadcasts + 1 /\ new.todo = clients
  OBVIOUS
<1> HIDE DEF new
<1>3. /\ broadcasts \in Nat /\ \A c \in casting : c.event \in Nat /\ c.event <= broadcasts
      /\ \A v \in Viewers : \A i \in 1..Len(queueOf[v]) :
           queueOf[v][i] \in Nat /\ queueOf[v][i] <= broadcasts
  BY DEF DeliveryInv, StreamInv, StreamTypeOK, EventsAreNumbered, Cast
<1>4. CastsAreDistinct'
  <2>1. \A c \in casting : c.event # new.event
    BY <1>2, <1>3
  <2>2. \A c, d \in casting : c.event = d.event => c = d
    BY DEF DeliveryInv, CastsAreDistinct
  <2> QED
    BY <1>1, <2>1, <2>2 DEF CastsAreDistinct
<1>5. EventsAreNumbered'
  BY <1>1, <1>2, <1>3 DEF EventsAreNumbered
<1>6. ASSUME NEW v \in Viewers, NEW e, Awaits(v, e)'
      PROVE  Awaits(v, e) \/ (e = broadcasts + 1 /\ v \in clients)
  BY <1>1, <1>2, <1>6 DEF Awaits
<1>7. QueuesHoldEachOnce'
  <2>1. ASSUME NEW v \in Viewers, NEW i \in 1..Len(queueOf[v]) PROVE ~Awaits(v, queueOf[v][i])'
    <3>1. ~Awaits(v, queueOf[v][i]) /\ queueOf[v][i] # broadcasts + 1
      BY <1>3 DEF DeliveryInv, QueuesHoldEachOnce
    <3>2. ~(\E c \in casting' : c.event = queueOf[v][i] /\ v \in c.todo)
      BY <1>1, <1>2, <3>1 DEF Awaits
    <3> QED
      BY <1>1, <3>2 DEF Awaits
  <2> QED
    BY <1>1, <2>1 DEF DeliveryInv, QueuesHoldEachOnce
<1>8. Delivers
  <2>1. \A v \in Viewers, e \in Nat : Waits(v, e)' => Waits(v, e)
    BY <1>1 DEF Waits
  <2>2. \A v \in Viewers, e \in Nat : Awaits(v, e) => Awaits(v, e)'
    BY <1>1 DEF Awaits
  <2> QED
    BY <1>3, <1>6, <2>1, <2>2 DEF Delivers
<1> QED
  BY <1>4, <1>5, <1>7, <1>8 DEF DeliveryInv

(* A turn of a broadcast adds its event to a channel with room, or drops it,*)
(* and does not come back to the viewer.                                    *)
LEMMA OfferIsMadeOnce ==
  ASSUME DeliveryInv, StreamInv', NEW c \in casting, NEW u \in Viewers, Offer(c, u)
  PROVE  DeliveryInv' /\ Delivers
<1> DEFINE rest == [c EXCEPT !.todo = @ \ {u}]
           q == queueOf[u]
<1>1. /\ u \in c.todo /\ casting' = (casting \ {c}) \cup {rest} /\ broadcasts' = broadcasts
      /\ queueOf' = [queueOf EXCEPT ![u] = IF Len(q) < Buffer THEN Append(q, c.event) ELSE q]
  BY DEF Offer
<1>2. /\ c \in Cast /\ broadcasts \in Nat /\ queueOf \in [Viewers -> Seq(Nat)]
      /\ CastsAreDistinct /\ EventsAreNumbered /\ QueuesHoldEachOnce
  BY DEF DeliveryInv, StreamInv, StreamTypeOK
<1>3. rest.event = c.event /\ rest.todo = c.todo \ {u} /\ c.event \in Nat
  BY <1>2 DEF Cast
<1> HIDE DEF rest
<1>4. CastsAreDistinct'
  BY <1>1, <1>2, <1>3 DEF CastsAreDistinct
<1>5. ASSUME NEW v \in Viewers, NEW e, Awaits(v, e)' PROVE Awaits(v, e) /\ (v = u => e # c.event)
  BY <1>1, <1>2, <1>3, <1>5 DEF Awaits, CastsAreDistinct
<1>6. Awaits(u, c.event)
  BY <1>1 DEF Awaits
<1>7. \A v \in Viewers \ {u} : queueOf'[v] = queueOf[v]
  BY <1>1, <1>2
<1>8. ASSUME NEW v \in Viewers, NEW e, Awaits(v, e)
      PROVE  Awaits(v, e)' \/ (v = u /\ e = c.event)
  BY <1>1, <1>2, <1>3, <1>8 DEF Awaits
<1>9. Len(q) <= Buffer /\ Len(q) \in Nat
  BY <1>2 DEF QueuesHoldEachOnce
<1>10. CASE Len(q) >= Buffer
  <2>1. queueOf'[u] = queueOf[u]
    BY <1>1, <1>2, <1>10, StreamAssumption
  <2>2. \A v \in Viewers : queueOf'[v] = queueOf[v]
    BY <1>7, <2>1
  <2>3. EventsAreNumbered'
    BY <1>1, <1>2, <1>3, <2>2 DEF EventsAreNumbered
  <2>4. QueuesHoldEachOnce'
    <3>1. ASSUME NEW v \in Viewers, NEW i \in 1..Len(queueOf[v]) PROVE ~Awaits(v, queueOf[v][i])'
      <4>1. ~Awaits(v, queueOf[v][i])
        BY <1>2 DEF QueuesHoldEachOnce
      <4>2. ~(\E d \in casting' : d.event = queueOf[v][i] /\ v \in d.todo)
        BY <1>1, <1>3, <4>1 DEF Awaits
      <4> QED
        BY <2>2, <4>2 DEF Awaits
    <3> QED
      BY <1>2, <2>2, <3>1 DEF QueuesHoldEachOnce
  <2>5. \A v \in Viewers, e \in Nat : Waits(v, e)' => Waits(v, e)
    BY <2>2 DEF Waits
  <2>6. Len(queueOf[u]) = Buffer
    BY <1>10, <1>9, StreamAssumption
  <2>7. Delivers
    BY <1>5, <1>8, <2>5, <2>6 DEF Delivers
  <2> QED
    BY <1>4, <2>3, <2>4, <2>7 DEF DeliveryInv
<1>11. CASE Len(q) < Buffer
  <2> DEFINE n == Len(q)
  <2>1. /\ n \in Nat /\ Len(queueOf'[u]) = n + 1 /\ queueOf'[u][n + 1] = c.event
        /\ \A i \in 1..n : queueOf'[u][i] = q[i]
    <3>1. queueOf'[u] = Append(q, c.event)
      BY <1>1, <1>2, <1>11
    <3> QED
      BY <1>2, <1>3, <3>1
  <2> HIDE DEF n
  <2>2. \A i \in 1..n : q[i] # c.event /\ q[i] <= broadcasts /\ ~Awaits(u, q[i])
    BY <1>2, <1>6 DEF QueuesHoldEachOnce, EventsAreNumbered, n
  <2>3. EventsAreNumbered'
    <3>1. \A d \in casting' : d.event <= broadcasts'
      BY <1>1, <1>2, <1>3 DEF EventsAreNumbered
    <3>2. \A i \in 1..(n + 1) : queueOf'[u][i] <= broadcasts
      BY <1>2, <2>1, <2>2 DEF EventsAreNumbered
    <3>3. \A v \in Viewers : \A i \in 1..Len(queueOf'[v]) : queueOf'[v][i] <= broadcasts'
      BY <1>1, <1>2, <1>7, <2>1, <3>2 DEF EventsAreNumbered
    <3> QED
      BY <3>1, <3>3 DEF EventsAreNumbered
  <2>4. \A v \in Viewers : Len(queueOf'[v]) <= Buffer
    <3>1. n + 1 <= Buffer
      BY <1>11, <2>1, StreamAssumption DEF n
    <3> QED
      BY <1>2, <1>7, <2>1, <3>1 DEF QueuesHoldEachOnce
  <2>5. ASSUME NEW i \in 1..(n + 1), NEW j \in 1..(n + 1), queueOf'[u][i] = queueOf'[u][j]
        PROVE  i = j
    <3>1. \A k, m \in 1..n : q[k] = q[m] => k = m
      BY <1>2 DEF QueuesHoldEachOnce, n
    <3>2. i \in 1..n \/ i = n + 1
      BY <2>1
    <3>3. j \in 1..n \/ j = n + 1
      BY <2>1
    <3> QED
      BY <2>1, <2>2, <2>5, <3>1, <3>2, <3>3
  <2>6. ASSUME NEW v \in Viewers, NEW i \in 1..Len(queueOf'[v])
        PROVE  ~(\E d \in casting' : d.event = queueOf'[v][i] /\ v \in d.todo)
    <3>1. CASE v # u
      <4>1. ~Awaits(v, queueOf[v][i]) /\ queueOf'[v][i] = queueOf[v][i]
        BY <1>2, <1>7, <2>6, <3>1 DEF QueuesHoldEachOnce
      <4> QED
        BY <1>1, <1>3, <4>1 DEF Awaits
    <3>2. CASE v = u /\ i \in 1..n
      <4>1. ~Awaits(u, q[i]) /\ queueOf'[u][i] = q[i]
        BY <2>1, <2>2, <3>2
      <4> QED
        BY <1>1, <1>3, <3>2, <4>1 DEF Awaits
    <3>3. CASE v = u /\ i = n + 1
      BY <1>1, <1>2, <1>3, <2>1, <3>3 DEF CastsAreDistinct
    <3> QED
      BY <2>1, <2>6, <3>1, <3>2, <3>3
  <2>7. QueuesHoldEachOnce'
    <3>1. ASSUME NEW v \in Viewers, NEW i \in 1..Len(queueOf'[v]), NEW j \in 1..Len(queueOf'[v]),
                 queueOf'[v][i] = queueOf'[v][j]
          PROVE  i = j
      BY <1>2, <1>7, <2>1, <2>5, <3>1 DEF QueuesHoldEachOnce
    <3>2. \A v \in Viewers : \A i \in 1..Len(queueOf'[v]) : ~Awaits(v, queueOf[v][i])'
      BY <2>6 DEF Awaits
    <3> QED
      BY <2>4, <3>1, <3>2 DEF QueuesHoldEachOnce
  <2>8. ASSUME NEW v \in Viewers, NEW e \in Nat, Waits(v, e)'
        PROVE  Waits(v, e) \/ (Awaits(v, e) /\ ~Awaits(v, e)')
    <3>1. PICK i \in 1..Len(queueOf'[v]) : queueOf'[v][i] = e
      BY <2>8 DEF Waits
    <3>2. CASE v = u /\ i = n + 1
      BY <1>5, <1>6, <2>1, <3>1, <3>2
    <3>3. CASE v = u /\ i \in 1..n
      BY <2>1, <3>1, <3>3 DEF Waits, n
    <3>4. CASE v # u
      BY <1>7, <3>1, <3>4 DEF Waits
    <3> QED
      BY <2>1, <3>1, <3>2, <3>3, <3>4
  <2>9. ASSUME NEW v \in Viewers, NEW e \in Nat, Awaits(v, e) PROVE Awaits(v, e)' \/ Waits(v, e)'
    <3>1. n + 1 \in 1..Len(queueOf'[u]) /\ queueOf'[u][n + 1] = c.event
      BY <2>1
    <3> QED
      BY <1>8, <2>9, <3>1 DEF Waits
  <2> QED
    BY <1>4, <1>5, <2>3, <2>7, <2>8, <2>9 DEF DeliveryInv, Delivers
<1> QED
  <2>1. Len(q) \in Nat
    BY <1>2
  <2> QED
    BY <1>10, <1>11, <2>1, StreamAssumption

(* Every step keeps the events apart.                                       *)
LEMMA DeliverySteps ==
  ASSUME DeliveryInv, StreamInv', [StreamNext]_streamVars
  PROVE  DeliveryInv' /\ Delivers
<1>1. ASSUME NEW w \in Writers, Broadcast(w) PROVE DeliveryInv' /\ Delivers
  BY <1>1, BroadcastIsNew
<1>2. ASSUME NEW w \in Writers, CastStep(w) PROVE DeliveryInv' /\ Delivers
  <2>1. PICK c \in casting : EndCast(c) \/ \E v \in Viewers : Offer(c, v)
    BY <1>2 DEF CastStep, Casts
  <2>2. CASE EndCast(c)
    BY <2>2, NothingNew DEF EndCast
  <2> QED
    BY <2>1, <2>2, OfferIsMadeOnce
<1>3. ASSUME NEW u \in Viewers,
             Connect(u) \/ Subscribe(u) \/ WriteEvent(u) \/ Leave(u) \/ Unsubscribe(u)
      PROVE  DeliveryInv' /\ Delivers
  <2>1. /\ queueOf \in [Viewers -> Seq(Nat)] /\ casting' = casting /\ broadcasts' = broadcasts
    BY <1>3 DEF DeliveryInv, StreamInv, StreamTypeOK, Connect, Subscribe, WriteEvent, Leave,
       Unsubscribe
  <2>2. \A v \in Viewers : \/ queueOf'[v] \in {queueOf[v], <<>>}
                           \/ queueOf[v] # <<>> /\ queueOf'[v] = Tail(queueOf[v])
    BY <1>3, <2>1 DEF Connect, Subscribe, WriteEvent, Leave, Unsubscribe
  <2> QED
    BY <2>1, <2>2, NothingNew
<1>4. ASSUME UNCHANGED streamVars PROVE DeliveryInv' /\ Delivers
  BY <1>4, NothingNew DEF streamVars
<1> QED
  BY <1>1, <1>2, <1>3, <1>4 DEF StreamNext

(* The channels are empty in the beginning.                                 *)
LEMMA DeliveryStarts == StreamInit => DeliveryInv
BY StreamStarts, StreamAssumption
   DEF StreamInit, DeliveryInv, CastsAreDistinct, EventsAreNumbered, QueuesHoldEachOnce, Awaits

(* Whatever the goroutines, viewers and the sizes of channels, a viewer is  *)
(* told an event once at most, only one that was broadcast while it was     *)
(* subscribed, and every such event for which its channel has room:         *)
(* Broadcast offers its event one time to each client that is registered    *)
(* when it takes the lock, and the loop of another goroutine neither        *)
(* repeats the offer nor replaces it.                                       *)
THEOREM ViewersAreToldOnce == StreamSpec => EventsComeOnce
<1>1. StreamInv /\ DeliveryInv /\ [StreamNext]_streamVars /\ StreamInv' => DeliveryInv'
  BY DeliverySteps
<1>2. StreamInv' /\ DeliveryInv /\ [StreamNext]_streamVars
        => [Delivers]_streamVars
  BY DeliverySteps
<1> QED
  BY StreamInvariant, DeliveryStarts, <1>1, <1>2, PTL DEF StreamSpec, EventsComeOnce

(* A channel never holds an event twice, one that is still to be offered,   *)
(* or more than it has room for, however the offers of goroutines that      *)
(* broadcast at once mix in it.                                             *)
THEOREM ChannelsHoldEachEventOnce == StreamSpec => []QueuesHoldEachOnce
<1>1. StreamInv /\ DeliveryInv /\ [StreamNext]_streamVars /\ StreamInv' => DeliveryInv'
  BY DeliverySteps
<1>2. DeliveryInv => QueuesHoldEachOnce
  BY DEF DeliveryInv
<1> QED
  BY StreamInvariant, DeliveryStarts, <1>1, <1>2, PTL DEF StreamSpec
=============================================================================
