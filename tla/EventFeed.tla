------------------------------ MODULE EventFeed ------------------------------
(* server.py from the name _flush_episode() gives an event to the buffer, the  *)
(* SSE clients and the edge publisher.  _emit_event(), shadow_promote() and    *)
(* the SSE generators share the event loop and give it up only at an await;    *)
(* capture threads name events and clear_events() runs on a pool thread, so    *)
(* both may come between any two steps of the loop.                            *)
EXTENDS Common, Integers, Sequences, FiniteSets, Functions

CONSTANTS Source,      \* capture threads
          Shadow,      \* shadow records an operator may promote
          Client,      \* SSE clients
          MaxEvents,   \* MAX_RECENT_EVENTS
          Replay,      \* SSE_REPLAY_COUNT
          QueueMax,    \* maxsize of a client's queue
          State,       \* a perception_state message
          MaxMade      \* bound: events in one behaviour

ASSUME FeedAssumption == /\ MaxEvents \in Nat \ {0}
                         /\ Replay \in Nat \ {0}
                         /\ QueueMax \in Nat \ {0}
                         /\ MaxMade \in Nat
                         /\ IsFiniteSet(Source)

VARIABLES counter,     \* state.event_counter
          counted,     \* threads between adding to it and reading it
          pending,     \* events whose _emit_event() waits for the models
          buffer,      \* state.recent_events
          loop,        \* where the loop stands in _emit_event()
          hand,        \* the event it holds there
          conn,        \* how far a client's request is
          inbox,       \* its queue in state.subscribers
          replay,      \* what is left of its replay
          made,        \* history: events made so far
          clashed,     \* history: ids given out while the same one was under way
          appended,    \* history: the events, in the order they were appended
          broken,      \* history: events whose _emit_event() raised
          cloud,       \* history: events handed to the edge publisher
          got,         \* history: what a client received on this connection
          dropped,     \* history: what its full queue did not take
          seam         \* history: what was appended before its replay began

clientVars == <<conn, inbox, replay, got, dropped, seam>>
emitVars == <<pending, loop, hand, appended, broken, cloud>>
nameVars == <<counter, counted, made, clashed>>
vars == <<nameVars, emitVars, buffer, clientVars>>

(* no tells apart the events that were given the same id.                      *)
Event == [id : Nat \cup Shadow, no : 1 .. MaxMade]

ASSUME NamesAssumption == /\ Shadow \cap Nat = {}
                          /\ {None, State} \cap Event = {}

TypeOK ==
  /\ counter \in Nat
  /\ counted \subseteq Source
  /\ pending \subseteq Event
  /\ buffer \in Seq(Event)
  /\ loop \in {"idle", "check", "pop", "publish"}
  /\ Len(buffer) <= IF loop \in {"check", "pop"} THEN MaxEvents + 1 ELSE MaxEvents
  /\ hand \in Event \cup {None} /\ (hand = None <=> loop = "idle")
  /\ conn \in [Client -> {"away", "subscribed", "streaming"}]
  /\ inbox \in [Client -> Seq(Event \cup {State})]
  /\ \A c \in Client : Len(inbox[c]) <= QueueMax
  /\ replay \in [Client -> Seq(Event)]
  /\ made \in Nat /\ made + Cardinality(counted) <= MaxMade

Init ==
  /\ counter = 0 /\ counted = {}
  /\ pending = {} /\ buffer = <<>>
  /\ loop = "idle" /\ hand = None
  /\ conn = [c \in Client |-> "away"]
  /\ inbox = [c \in Client |-> <<>>]
  /\ replay = [c \in Client |-> <<>>]
  /\ made = 0 /\ clashed = {}
  /\ appended = <<>> /\ broken = {} /\ cloud = <<>>
  /\ got = [c \in Client |-> <<>>]
  /\ dropped = [c \in Client |-> {}]
  /\ seam = [c \in Client |-> {}]
-----------------------------------------------------------------------------
Room == made + Cardinality(counted) < MaxMade

Make(id) == /\ made' = made + 1
            /\ pending' = pending \cup {[id |-> id, no |-> made + 1]}

(* _flush_episode(): state.event_counter += 1, and then its value makes the    *)
(* name; the episodes are those that start in the same millisecond.            *)
CountEvent(t) ==
  /\ t \notin counted
  /\ Room
  /\ counter' = counter + 1
  /\ counted' = counted \cup {t}
  /\ UNCHANGED <<made, clashed, emitVars, buffer, clientVars>>

NameEvent(t) ==
  /\ t \in counted
  /\ counted' = counted \ {t}
  /\ Make(counter)
  /\ clashed' = clashed \cup (IF counted = {t} THEN {} ELSE {counter})
  /\ UNCHANGED <<counter, loop, hand, appended, broken, cloud, buffer, clientVars>>

Promoted(s) == \E i \in DOMAIN buffer : buffer[i].id = s

(* Mistake: nothing is looked up before a promotion.                           *)
PromoteAnyway(s) ==
  /\ loop = "idle"
  /\ Room
  /\ Make(s)
  /\ clashed' = clashed \cup {e.id : e \in {e \in pending : e.id = s}}
  /\ UNCHANGED <<counter, counted, loop, hand, appended, broken, cloud, buffer, clientVars>>

(* shadow_promote(): refused when the event is in the buffer.                  *)
Promote(s) ==
  /\ loop = "idle"
  /\ ~Promoted(s)
  /\ Room
  /\ Make(s)
  /\ clashed' = clashed \cup {e.id : e \in {e \in pending : e.id = s}}
  /\ UNCHANGED <<counter, counted, loop, hand, appended, broken, cloud, buffer, clientVars>>
-----------------------------------------------------------------------------
(* _emit_event() *)

(* Narration and enrichment are there, in whatever order the models answered.  *)
AppendEvent(e) ==
  /\ loop = "idle"
  /\ e \in pending
  /\ pending' = pending \ {e}
  /\ buffer' = Append(buffer, e)
  /\ appended' = Append(appended, e)
  /\ loop' = "check"
  /\ hand' = e
  /\ seam' = [c \in Client |-> IF conn[c] = "subscribed" THEN seam[c] \cup {e} ELSE seam[c]]
  /\ UNCHANGED <<nameVars, broken, cloud, conn, inbox, replay, got, dropped>>

(* Mistake: the buffer is trimmed only when a second event is too many.        *)
CheckLengthLate ==
  /\ loop = "check"
  /\ loop' = IF Len(buffer) > MaxEvents + 1 THEN "pop" ELSE "publish"
  /\ UNCHANGED <<nameVars, pending, hand, appended, broken, cloud, buffer, clientVars>>

CheckLength ==
  /\ loop = "check"
  /\ loop' = IF Len(buffer) > MaxEvents THEN "pop" ELSE "publish"
  /\ UNCHANGED <<nameVars, pending, hand, appended, broken, cloud, buffer, clientVars>>

(* Mistake: the newest is popped.                                              *)
PopNewest ==
  /\ loop = "pop"
  /\ buffer # <<>>
  /\ buffer' = SubSeq(buffer, 1, Len(buffer) - 1)
  /\ loop' = "publish"
  /\ UNCHANGED <<nameVars, pending, hand, appended, broken, cloud, clientVars>>

PopOldest ==
  /\ loop = "pop"
  /\ buffer # <<>>
  /\ buffer' = Tail(buffer)
  /\ loop' = "publish"
  /\ UNCHANGED <<nameVars, pending, hand, appended, broken, cloud, clientVars>>

(* The buffer was cleared since its length was read: pop(0) raises, and the    *)
(* event reaches neither the clients nor the edge publisher.                   *)
PopFails ==
  /\ loop = "pop"
  /\ buffer = <<>>
  /\ broken' = broken \cup {hand}
  /\ loop' = "idle"
  /\ hand' = None
  /\ UNCHANGED <<nameVars, pending, appended, cloud, buffer, clientVars>>

(* Mistake: a client subscribes after its replay.                              *)
FinishedReplay == {c \in Client : conn[c] = "streaming" /\ replay[c] = <<>>}

Subscribers == {c \in Client : conn[c] # "away"}

Full(c) == Len(inbox[c]) = QueueMax

Fanned(message) ==
  [c \in Client |-> IF c \in Subscribers /\ ~Full(c) THEN Append(inbox[c], message)
                                                     ELSE inbox[c]]

(* From the fan-out to the edge publisher's queue nothing waits: the lock in   *)
(* enqueue() is free whenever the loop is.                                     *)
Publish ==
  /\ loop = "publish"
  /\ inbox' = Fanned(hand)
  /\ dropped' = [c \in Client |-> IF c \in Subscribers /\ Full(c)
                                    THEN dropped[c] \cup {hand} ELSE dropped[c]]
  /\ cloud' = Append(cloud, hand)
  /\ loop' = "idle"
  /\ hand' = None
  /\ UNCHANGED <<nameVars, pending, appended, broken, buffer, conn, replay, got, seam>>

(* _broadcast_perception(): takes room in the same queues.                     *)
BroadcastPerception ==
  /\ loop = "idle"
  /\ inbox' = Fanned(State)
  /\ UNCHANGED <<nameVars, emitVars, buffer, conn, replay, got, dropped, seam>>

ClearEvents ==
  /\ buffer' = <<>>
  /\ UNCHANGED <<nameVars, emitVars, clientVars>>
-----------------------------------------------------------------------------
(* stream_events() *)

Subscribe(c) ==
  /\ loop = "idle"
  /\ conn[c] = "away"
  /\ conn' = [conn EXCEPT ![c] = "subscribed"]
  /\ UNCHANGED <<nameVars, emitVars, buffer, inbox, replay, got, dropped, seam>>

Newest(n) == SubSeq(buffer, IF Len(buffer) < n THEN 1 ELSE Len(buffer) - n + 1, Len(buffer))

StartReplay(c) ==
  /\ loop = "idle"
  /\ conn[c] = "subscribed"
  /\ conn' = [conn EXCEPT ![c] = "streaming"]
  /\ replay' = [replay EXCEPT ![c] = Newest(Replay)]
  /\ UNCHANGED <<nameVars, emitVars, buffer, inbox, got, dropped, seam>>

(* Mistake: the queue comes before the replay.                                 *)
SendQueueFirst(c) ==
  /\ loop = "idle"
  /\ conn[c] = "streaming"
  /\ \/ /\ inbox[c] # <<>>
        /\ inbox' = [inbox EXCEPT ![c] = Tail(@)]
        /\ got' = [got EXCEPT ![c] = IF Head(inbox[c]) = State THEN @
                                     ELSE Append(@, Head(inbox[c]))]
        /\ UNCHANGED replay
     \/ /\ inbox[c] = <<>>
        /\ replay[c] # <<>>
        /\ replay' = [replay EXCEPT ![c] = Tail(@)]
        /\ got' = [got EXCEPT ![c] = Append(@, Head(replay[c]))]
        /\ UNCHANGED inbox
  /\ UNCHANGED <<nameVars, emitVars, buffer, conn, dropped, seam>>

(* The replay first, then the queue.                                           *)
Send(c) ==
  /\ loop = "idle"
  /\ conn[c] = "streaming"
  /\ \/ /\ replay[c] # <<>>
        /\ replay' = [replay EXCEPT ![c] = Tail(@)]
        /\ got' = [got EXCEPT ![c] = Append(@, Head(replay[c]))]
        /\ UNCHANGED inbox
     \/ /\ replay[c] = <<>>
        /\ inbox[c] # <<>>
        /\ inbox' = [inbox EXCEPT ![c] = Tail(@)]
        /\ got' = [got EXCEPT ![c] = IF Head(inbox[c]) = State THEN @
                                     ELSE Append(@, Head(inbox[c]))]
        /\ UNCHANGED replay
  /\ UNCHANGED <<nameVars, emitVars, buffer, conn, dropped, seam>>

(* The generator's finally; the next connection starts with a new queue.       *)
Disconnect(c) ==
  /\ loop = "idle"
  /\ conn[c] = "streaming"
  /\ conn' = [conn EXCEPT ![c] = "away"]
  /\ inbox' = [inbox EXCEPT ![c] = <<>>]
  /\ replay' = [replay EXCEPT ![c] = <<>>]
  /\ got' = [got EXCEPT ![c] = <<>>]
  /\ dropped' = [dropped EXCEPT ![c] = {}]
  /\ seam' = [seam EXCEPT ![c] = {}]
  /\ UNCHANGED <<nameVars, emitVars, buffer>>

Next ==
  \/ \E t \in Source : CountEvent(t) \/ NameEvent(t)
  \/ \E s \in Shadow : Promote(s)
  \/ \E e \in pending : AppendEvent(e)
  \/ CheckLength \/ PopOldest \/ PopFails \/ Publish
  \/ BroadcastPerception \/ ClearEvents
  \/ \E c \in Client : Subscribe(c) \/ StartReplay(c) \/ Send(c) \/ Disconnect(c)

Spec == Init /\ [][Next]_vars
-----------------------------------------------------------------------------
Place(e) == CHOOSE i \in DOMAIN appended : appended[i] = e

(* Two events in the buffer have one id only if they were given it while both  *)
(* were under way: a promotion is not repeated by a later click, and a number  *)
(* not read twice by threads that take turns.                                  *)
IdsUnique ==
  \A i, j \in DOMAIN buffer :
    i # j /\ buffer[i].id = buffer[j].id => buffer[i].id \in clashed

(* Between two events of the loop, what operators see is the end of what was   *)
(* handed to the edge publisher, in the same order, whenever the buffer is     *)
(* cleared.                                                                    *)
BufferEndsCloud ==
  loop = "idle" =>
    /\ Len(buffer) <= Len(cloud)
    /\ buffer = SubSeq(cloud, Len(cloud) - Len(buffer) + 1, Len(cloud))

(* From the first event a client is sent on, it is sent every one that was     *)
(* appended after it, replay and queue together, but for those its full queue  *)
(* did not take and those whose emission a clear broke.                        *)
NoHole ==
  \A c \in Client :
    LET sent == Range(got[c]) \cup Range(replay[c])
        due == sent \cup Range(inbox[c]) \cup dropped[c] \cup broken \cup {hand}
    IN \A e \in sent : \A j \in Place(e) + 1 .. Len(appended) : appended[j] \in due

(* A client is sent events in the order of the buffer and each once, except    *)
(* those appended between its subscription and its replay.                     *)
SentInOrder ==
  \A c \in Client : \A i, j \in DOMAIN got[c] :
    LET early == got[c][i]
        late == got[c][j]
    IN i < j /\ {early, late} \cap seam[c] = {} => Place(early) < Place(late)
-----------------------------------------------------------------------------
(* What comments say and the code does not do.                                 *)

(* "Idempotency: a second click must not double-emit".                         *)
PromotedOnce ==
  \A i, j \in DOMAIN appended :
    i # j /\ appended[i].id \in Shadow => appended[i].id # appended[j].id

(* An event id is "globally unique per process".                               *)
NamesUnique ==
  \A i, j \in DOMAIN appended :
    i # j /\ appended[i].id \in Nat => appended[i].id # appended[j].id

(* "So this is a soft wipe: the next emitted event still appears".             *)
WipeIsSoft == broken = {}
=============================================================================
