-------------------------- MODULE EventFeed_proofs --------------------------
(* Theorems about EventFeed: its types, that the buffer is the end of what was *)
(* handed to the edge publisher, when two events can share an id, and that a   *)
(* client is sent events in order and without a hole.                          *)
EXTENDS EventFeed, SequenceLemmas, FiniteSetTheorems, TLAPS

(* What a step of the emission, of the clients or of the capture threads adds  *)
(* to the ids and to the queues.                                               *)
LEMMA EventFacts ==
  /\ \A e \in Event : e.id \in Nat \cup Shadow /\ e.no \in 1 .. MaxMade
  /\ \A id \in Nat \cup Shadow, n \in 1 .. MaxMade :
       /\ [id |-> id, no |-> n] \in Event
       /\ [id |-> id, no |-> n].id = id
       /\ [id |-> id, no |-> n].no = n
  /\ None \notin Event /\ State \notin Event
  /\ \A s \in Shadow : s \notin Nat
  BY NamesAssumption DEF Event

(* A queue takes a message only while it has room.                             *)
LEMMA FannedFits ==
  ASSUME TypeOK, NEW x \in Event \cup {State}
  PROVE  /\ Fanned(x) \in [Client -> Seq(Event \cup {State})]
         /\ \A c \in Client : Len(Fanned(x)[c]) <= QueueMax
<1>1. ASSUME NEW c \in Client, ~Full(c)
      PROVE  /\ Append(inbox[c], x) \in Seq(Event \cup {State})
             /\ Len(Append(inbox[c], x)) <= QueueMax
  <2>1. inbox[c] \in Seq(Event \cup {State}) /\ Len(inbox[c]) <= QueueMax /\ Len(inbox[c]) # QueueMax
    BY <1>1 DEF TypeOK, Full
  <2>2. Len(inbox[c]) \in Nat /\ QueueMax \in Nat
    BY <2>1, FeedAssumption
  <2> HIDE DEF Event
  <2> QED
    BY <2>1, <2>2
<1> QED
  BY <1>1 DEF TypeOK, Fanned

(* Counting the threads that have added to the counter.                        *)
LEMMA CountedFinite ==
  ASSUME TypeOK
  PROVE  /\ IsFiniteSet(counted)
         /\ Cardinality(counted) \in Nat
         /\ \A t \in counted : Cardinality(counted \ {t}) = Cardinality(counted) - 1
         /\ \A t \in Source \ counted : Cardinality(counted \cup {t}) = Cardinality(counted) + 1
<1>1. IsFiniteSet(counted)
  BY FeedAssumption, FS_Subset DEF TypeOK
<1> QED
  BY <1>1, FS_CardinalityType, FS_RemoveElement, FS_AddElement

(* An event made while there is room for it is an event.                       *)
LEMMA MakeTypes ==
  ASSUME TypeOK, NEW id \in Nat \cup Shadow, made + 1 <= MaxMade, Make(id)
  PROVE  /\ made' = made + 1 /\ made' \in Nat
         /\ [id |-> id, no |-> made + 1] \in Event
         /\ pending' = pending \cup {[id |-> id, no |-> made + 1]}
         /\ pending' \subseteq Event
  BY FeedAssumption DEF TypeOK, Make, Event
-----------------------------------------------------------------------------
(* Types *)

(* The step that names or promotes an event keeps the types.                   *)
LEMMA MakingKeepsTypes ==
  ASSUME TypeOK,
         \/ \E t \in Source : CountEvent(t) \/ NameEvent(t)
         \/ \E s \in Shadow : Promote(s)
  PROVE  TypeOK'
<1>1. ASSUME NEW t \in Source, CountEvent(t)
      PROVE  TypeOK'
  <2>1. counter' \in Nat /\ counted' \subseteq Source
    BY <1>1 DEF CountEvent, TypeOK
  <2>2. made' \in Nat /\ made' + Cardinality(counted') <= MaxMade
    BY <1>1, CountedFinite, FeedAssumption DEF CountEvent, Room, TypeOK
  <2> QED
    BY <1>1, <2>1, <2>2 DEF CountEvent, TypeOK, emitVars, clientVars
<1>2. ASSUME NEW t \in Source, NameEvent(t)
      PROVE  TypeOK'
  <2>1. /\ Cardinality(counted) \in Nat
        /\ Cardinality(counted') = Cardinality(counted) - 1
        /\ Cardinality(counted') \in Nat
    BY <1>2, CountedFinite, FS_CardinalityType, FS_Subset DEF NameEvent
  <2>2. made + 1 <= MaxMade /\ counter \in Nat \cup Shadow /\ Make(counter)
    BY <1>2, <2>1, FeedAssumption DEF NameEvent, TypeOK
  <2>3. /\ made' = made + 1 /\ made' \in Nat
        /\ pending' \subseteq Event
    BY <2>2, MakeTypes
  <2>4. made' + Cardinality(counted') <= MaxMade
    BY <2>1, <2>3, FeedAssumption DEF TypeOK
  <2> QED
    BY <1>2, <2>3, <2>4 DEF NameEvent, TypeOK, clientVars
<1>3. ASSUME NEW s \in Shadow, Promote(s)
      PROVE  TypeOK'
  <2>1. Cardinality(counted) \in Nat
    BY CountedFinite
  <2>2. made + 1 <= MaxMade /\ s \in Nat \cup Shadow /\ Make(s)
    BY <1>3, <2>1, FeedAssumption DEF Promote, Room, TypeOK
  <2>3. /\ made' = made + 1 /\ made' \in Nat
        /\ pending' \subseteq Event
    BY <2>2, MakeTypes
  <2>4. made' + Cardinality(counted') <= MaxMade
    BY <1>3, <2>1, <2>3, FeedAssumption DEF Promote, Room, TypeOK
  <2> QED
    BY <1>3, <2>3, <2>4 DEF Promote, TypeOK, clientVars
<1> QED
  BY <1>1, <1>2, <1>3

(* The steps of _emit_event() and of clear_events() keep the types.            *)
LEMMA EmittingKeepsTypes ==
  ASSUME TypeOK,
         \/ \E e \in pending : AppendEvent(e)
         \/ CheckLength \/ PopOldest \/ PopFails \/ Publish \/ ClearEvents
  PROVE  TypeOK'
<1>1. ASSUME NEW e \in pending, AppendEvent(e)
      PROVE  TypeOK'
  <2>1. e \in Event /\ e # None /\ buffer \in Seq(Event) /\ Len(buffer) <= MaxEvents
    BY <1>1, EventFacts DEF AppendEvent, TypeOK
  <2>2. Append(buffer, e) \in Seq(Event) /\ Len(Append(buffer, e)) = Len(buffer) + 1
    <3> HIDE DEF Event
    <3> QED BY <2>1
  <2>3. buffer' \in Seq(Event) /\ Len(buffer') <= MaxEvents + 1
    BY <1>1, <2>1, <2>2, FeedAssumption DEF AppendEvent
  <2> QED
    BY <1>1, <2>1, <2>3 DEF AppendEvent, TypeOK, nameVars
<1>2. CASE CheckLength
  <2>1. loop' = "publish" => Len(buffer) <= MaxEvents
    BY <1>2, FeedAssumption DEF CheckLength, TypeOK
  <2> QED
    BY <1>2, <2>1 DEF CheckLength, TypeOK, nameVars, clientVars
<1>3. CASE PopOldest
  <2>1. buffer' \in Seq(Event) /\ Len(buffer') = Len(buffer) - 1
    <3>1. buffer \in Seq(Event) /\ buffer # <<>> /\ buffer' = Tail(buffer)
      BY <1>3 DEF PopOldest, TypeOK
    <3> HIDE DEF Event
    <3> QED BY <3>1
  <2>2. Len(buffer) \in Nat /\ Len(buffer) <= MaxEvents + 1 /\ loop' = "publish"
    BY <1>3 DEF PopOldest, TypeOK
  <2>3. Len(buffer') <= MaxEvents
    BY <2>1, <2>2, FeedAssumption
  <2> QED
    BY <1>3, <2>1, <2>2, <2>3 DEF PopOldest, TypeOK, nameVars, clientVars
<1>4. CASE PopFails
  <2>1. Len(buffer) = 0
    BY <1>4 DEF PopFails
  <2> QED
    BY <1>4, <2>1, FeedAssumption DEF PopFails, TypeOK, nameVars, clientVars
<1>5. CASE Publish
  <2>1. hand \in Event \cup {State}
    BY <1>5 DEF Publish, TypeOK
  <2>2. /\ inbox' \in [Client -> Seq(Event \cup {State})]
        /\ \A c \in Client : Len(inbox'[c]) <= QueueMax
    BY <1>5, <2>1, FannedFits DEF Publish
  <2> QED
    BY <1>5, <2>2 DEF Publish, TypeOK, nameVars
<1>6. CASE ClearEvents
  <2>1. buffer' \in Seq(Event) /\ Len(buffer') = 0
    BY <1>6 DEF ClearEvents
  <2> QED
    BY <1>6, <2>1, FeedAssumption DEF ClearEvents, TypeOK, nameVars, emitVars, clientVars
<1> QED
  BY <1>1, <1>2, <1>3, <1>4, <1>5, <1>6

(* The steps of the SSE generators keep the types.                             *)
LEMMA StreamingKeepsTypes ==
  ASSUME TypeOK,
         \/ BroadcastPerception
         \/ \E c \in Client : Subscribe(c) \/ StartReplay(c) \/ Send(c) \/ Disconnect(c)
  PROVE  TypeOK'
<1>1. CASE BroadcastPerception
  <2>1. /\ inbox' \in [Client -> Seq(Event \cup {State})]
        /\ \A c \in Client : Len(inbox'[c]) <= QueueMax
    BY <1>1, FannedFits DEF BroadcastPerception
  <2> QED
    BY <1>1, <2>1 DEF BroadcastPerception, TypeOK, nameVars, emitVars
<1>2. ASSUME NEW c \in Client, Subscribe(c)
      PROVE  TypeOK'
  BY <1>2 DEF Subscribe, TypeOK, nameVars, emitVars
<1>3. ASSUME NEW c \in Client, StartReplay(c)
      PROVE  TypeOK'
  <2>1. Newest(Replay) \in Seq(Event)
    <3>1. buffer \in Seq(Event) /\ Replay \in Nat \ {0}
      BY FeedAssumption DEF TypeOK
    <3> HIDE DEF Event
    <3> QED BY <3>1 DEF Newest
  <2> QED
    BY <1>3, <2>1 DEF StartReplay, TypeOK, nameVars, emitVars
<1>4. ASSUME NEW c \in Client, Send(c)
      PROVE  TypeOK'
  <2>1. /\ inbox[c] \in Seq(Event \cup {State}) /\ Len(inbox[c]) <= QueueMax
        /\ replay[c] \in Seq(Event)
    BY DEF TypeOK
  <2>2. replay[c] # <<>> => Tail(replay[c]) \in Seq(Event)
    <3> HIDE DEF Event
    <3> QED BY <2>1
  <2>3. inbox[c] # <<>> => /\ Tail(inbox[c]) \in Seq(Event \cup {State})
                          /\ Len(Tail(inbox[c])) <= QueueMax
    <3>1. inbox[c] # <<>> => /\ Tail(inbox[c]) \in Seq(Event \cup {State})
                            /\ Len(Tail(inbox[c])) = Len(inbox[c]) - 1
                            /\ Len(inbox[c]) \in Nat
      <4> HIDE DEF Event
      <4> QED BY <2>1
    <3> QED
      BY <2>1, <3>1, FeedAssumption
  <2>4. /\ replay' \in [Client -> Seq(Event)]
        /\ inbox' \in [Client -> Seq(Event \cup {State})]
        /\ \A d \in Client : Len(inbox'[d]) <= QueueMax
    BY <1>4, <2>2, <2>3 DEF Send, TypeOK
  <2> QED
    BY <1>4, <2>4 DEF Send, TypeOK, nameVars, emitVars
<1>5. ASSUME NEW c \in Client, Disconnect(c)
      PROVE  TypeOK'
  <2>1. <<>> \in Seq(Event) /\ <<>> \in Seq(Event \cup {State}) /\ Len(<<>>) <= QueueMax
    BY FeedAssumption
  <2> QED
    BY <1>5, <2>1 DEF Disconnect, TypeOK, nameVars, emitVars
<1> QED
  BY <1>1, <1>2, <1>3, <1>4, <1>5

(* The feed starts with no event and no client.                                *)
LEMMA InitTypes == Init => TypeOK
<1>1. Cardinality({}) = 0 /\ <<>> \in Seq(Event) /\ <<>> \in Seq(Event \cup {State}) /\ Len(<<>>) = 0
  BY FS_EmptySet
<1> QED
  BY <1>1, FeedAssumption DEF Init, TypeOK

(* Every step of the feed keeps the types.                                     *)
LEMMA StepTypes == TypeOK /\ [Next]_vars => TypeOK'
<1> SUFFICES ASSUME TypeOK, [Next]_vars
             PROVE  TypeOK'
  OBVIOUS
<1>1. CASE Next
  BY <1>1, MakingKeepsTypes, EmittingKeepsTypes, StreamingKeepsTypes DEF Next
<1>2. CASE UNCHANGED vars
  BY <1>2 DEF TypeOK, vars, nameVars, emitVars, clientVars
<1> QED
  BY <1>1, <1>2

(* The state keeps its types: the buffer holds MAX_RECENT_EVENTS and one more  *)
(* only within _emit_event(), a client's queue never more than its size.       *)
THEOREM TypeCorrect == Spec => []TypeOK
  BY InitTypes, StepTypes, PTL DEF Spec
-----------------------------------------------------------------------------
(* The buffer is the end of what was handed to the edge publisher. *)

(* What was handed over, with the event the loop still holds.                  *)
Handed == IF hand = None THEN cloud ELSE Append(cloud, hand)

Ends(s, t) == /\ Len(s) <= Len(t)
              /\ \A i \in 1 .. Len(s) : s[i] = t[Len(t) - Len(s) + i]

FeedInv == TypeOK /\ cloud \in Seq(Event) /\ Ends(buffer, Handed)

(* A sequence that ends another is what that one has at its end.               *)
LEMMA EndsIsSubSeq ==
  ASSUME NEW S, NEW s \in Seq(S), NEW t \in Seq(S), Ends(s, t)
  PROVE  /\ Len(s) <= Len(t)
         /\ s = SubSeq(t, Len(t) - Len(s) + 1, Len(t))
<1> DEFINE u == SubSeq(t, Len(t) - Len(s) + 1, Len(t))
<1>1. Len(s) \in Nat /\ Len(t) \in Nat /\ Len(s) <= Len(t)
  BY DEF Ends
<1>2. u \in Seq(S) /\ Len(u) = Len(s)
  BY <1>1
<1>3. \A i \in 1 .. Len(s) : u[i] = t[Len(t) - Len(s) + i]
  BY <1>1
<1> HIDE DEF u
<1>4. \A i \in 1 .. Len(s) : s[i] = u[i]
  BY <1>3 DEF Ends
<1>5. s = u
  BY <1>2, <1>4
<1> QED
  BY <1>1, <1>5 DEF u

(* It still does when both take the same element, and without its first one.   *)
LEMMA EndsKept ==
  ASSUME NEW S, NEW s \in Seq(S), NEW t \in Seq(S), Ends(s, t)
  PROVE  /\ \A x \in S : Ends(Append(s, x), Append(t, x))
         /\ s # <<>> => Ends(Tail(s), t)
<1>1. Len(s) \in Nat /\ Len(t) \in Nat /\ Len(s) <= Len(t)
  BY DEF Ends
<1>2. ASSUME NEW x \in S
      PROVE  Ends(Append(s, x), Append(t, x))
  <2>1. /\ Len(Append(s, x)) = Len(s) + 1
        /\ Len(Append(t, x)) = Len(t) + 1
        /\ Append(s, x)[Len(s) + 1] = x
        /\ Append(t, x)[Len(t) + 1] = x
        /\ \A i \in 1 .. Len(s) : Append(s, x)[i] = s[i]
        /\ \A i \in 1 .. Len(t) : Append(t, x)[i] = t[i]
    OBVIOUS
  <2>2. ASSUME NEW i \in 1 .. Len(s) + 1
        PROVE  Append(s, x)[i] = Append(t, x)[Len(t) - Len(s) + i]
    <3>1. CASE i = Len(s) + 1
      BY <3>1, <2>1, <1>1
    <3>2. CASE i # Len(s) + 1
      <4>1. i \in 1 .. Len(s) /\ Len(t) - Len(s) + i \in 1 .. Len(t)
        BY <3>2, <1>1
      <4> QED
        BY <4>1, <2>1 DEF Ends
    <3> QED
      BY <3>1, <3>2
  <2>3. (Len(t) + 1) - (Len(s) + 1) = Len(t) - Len(s) /\ Len(s) + 1 <= Len(t) + 1
    BY <1>1
  <2> QED
    BY <2>1, <2>2, <2>3 DEF Ends
<1>3. ASSUME s # <<>>
      PROVE  Ends(Tail(s), t)
  <2> DEFINE u == Tail(s)
  <2>1. /\ Len(u) = Len(s) - 1
        /\ \A i \in 1 .. Len(s) - 1 : u[i] = s[i + 1]
    BY <1>3
  <2> HIDE DEF u
  <2>2. ASSUME NEW i \in 1 .. Len(s) - 1
        PROVE  u[i] = t[Len(t) - (Len(s) - 1) + i]
    <3>1. i + 1 \in 1 .. Len(s) /\ Len(t) - Len(s) + (i + 1) = Len(t) - (Len(s) - 1) + i
      BY <1>1
    <3>2. s[i + 1] = t[Len(t) - Len(s) + (i + 1)]
      BY <3>1 DEF Ends
    <3> QED
      BY <2>1, <3>1, <3>2
  <2>3. Ends(u, t)
    BY <2>1, <2>2, <1>1 DEF Ends
  <2> QED
    BY <2>3 DEF u
<1> QED
  BY <1>2, <1>3

(* At the start nothing is buffered and nothing handed over.                   *)
LEMMA InitFeed == Init => FeedInv
<1>1. Init => cloud \in Seq(Event) /\ Ends(buffer, Handed)
  BY DEF Init, Handed, Ends
<1> QED
  BY <1>1, InitTypes DEF FeedInv

(* Every step of _emit_event() and a clear keep the buffer the end of it.      *)
LEMMA StepFeed == FeedInv /\ [Next]_vars => FeedInv'
<1> SUFFICES ASSUME FeedInv, [Next]_vars
             PROVE  cloud' \in Seq(Event) /\ Ends(buffer, Handed)'
  BY StepTypes DEF FeedInv
<1>1. /\ buffer \in Seq(Event) /\ cloud \in Seq(Event)
      /\ hand \in Event \cup {None} /\ (hand = None <=> loop = "idle")
      /\ Handed \in Seq(Event)
      /\ Ends(buffer, Handed)
  <2>1. /\ buffer \in Seq(Event) /\ cloud \in Seq(Event)
        /\ hand \in Event \cup {None} /\ (hand = None <=> loop = "idle")
        /\ Ends(buffer, Handed)
    BY DEF FeedInv, TypeOK
  <2> HIDE DEF Event
  <2> QED
    BY <2>1 DEF Handed
<1>2. ASSUME NEW e \in pending, AppendEvent(e)
      PROVE  cloud' \in Seq(Event) /\ Ends(buffer, Handed)'
  <2>1. e \in Event /\ e # None
    BY EventFacts DEF FeedInv, TypeOK
  <2>2. hand = None /\ hand' = e /\ cloud' = cloud /\ buffer' = Append(buffer, e)
    BY <1>1, <1>2 DEF AppendEvent
  <2>3. Handed = cloud /\ Handed' = Append(cloud, e)
    BY <2>1, <2>2 DEF Handed
  <2>4. Ends(Append(buffer, e), Append(cloud, e))
    BY <1>1, <2>1, <2>3, EndsKept
  <2> QED
    BY <1>1, <2>2, <2>3, <2>4 DEF Ends
<1>3. CASE CheckLength
  BY <1>1, <1>3 DEF CheckLength, Handed, Ends
<1>4. CASE PopOldest
  <2>1. buffer # <<>> /\ buffer' = Tail(buffer) /\ cloud' = cloud /\ Handed' = Handed
    BY <1>4 DEF PopOldest, Handed
  <2>2. Ends(Tail(buffer), Handed)
    BY <1>1, <2>1, EndsKept
  <2> QED
    BY <1>1, <2>1, <2>2 DEF Ends
<1>5. ASSUME PopFails \/ ClearEvents
      PROVE  cloud' \in Seq(Event) /\ Ends(buffer, Handed)'
  <2>1. buffer' = <<>> /\ cloud' = cloud /\ hand' \in {hand, None}
    BY <1>5 DEF PopFails, ClearEvents, emitVars
  <2>2. Handed' \in Seq(Event)
    <3> HIDE DEF Event
    <3> QED BY <1>1, <2>1 DEF Handed
  <2> QED
    BY <1>1, <2>1, <2>2 DEF Ends
<1>6. CASE Publish
  <2>1. hand \in Event /\ hand # None /\ hand' = None /\ buffer' = buffer /\ cloud' = Append(cloud, hand)
    BY <1>1, <1>6, EventFacts DEF Publish
  <2>2. Handed' = Handed
    BY <2>1 DEF Handed
  <2>3. Append(cloud, hand) \in Seq(Event)
    <3> HIDE DEF Event
    <3> QED BY <1>1, <2>1
  <2> QED
    BY <1>1, <2>1, <2>2, <2>3 DEF Ends
<1>7. ASSUME UNCHANGED <<cloud, hand, buffer>>
      PROVE  cloud' \in Seq(Event) /\ Ends(buffer, Handed)'
  BY <1>1, <1>7 DEF Handed, Ends
<1>8. ASSUME \/ \E t \in Source : CountEvent(t) \/ NameEvent(t)
             \/ \E s \in Shadow : Promote(s)
             \/ BroadcastPerception
             \/ \E c \in Client : Subscribe(c) \/ StartReplay(c) \/ Send(c) \/ Disconnect(c)
             \/ UNCHANGED vars
      PROVE  UNCHANGED <<cloud, hand, buffer>>
  BY <1>8 DEF CountEvent, NameEvent, Promote, BroadcastPerception, Subscribe, StartReplay, Send,
              Disconnect, vars, emitVars
<1> QED
  BY <1>2, <1>3, <1>4, <1>5, <1>6, <1>7, <1>8 DEF Next

(* Between two events of the loop the buffer operators see is the end of what  *)
(* was handed to the edge publisher, in the same order, whenever a clear on    *)
(* its pool thread comes.                                                      *)
THEOREM BufferFollowed == Spec => []BufferEndsCloud
<1>1. FeedInv => BufferEndsCloud
  <2> SUFFICES ASSUME FeedInv, loop = "idle"
               PROVE  /\ Len(buffer) <= Len(cloud)
                      /\ buffer = SubSeq(cloud, Len(cloud) - Len(buffer) + 1, Len(cloud))
    BY DEF BufferEndsCloud
  <2>1. /\ buffer \in Seq(Event) /\ cloud \in Seq(Event)
        /\ Handed = cloud /\ Ends(buffer, cloud)
    BY DEF FeedInv, TypeOK, Handed
  <2> HIDE DEF Event
  <2> QED
    BY <2>1, EndsIsSubSeq
<1> QED
  BY <1>1, InitFeed, StepFeed, PTL DEF Spec
-----------------------------------------------------------------------------
(* When two events of the buffer have one id. *)

Live == pending \cup Range(buffer)

(* Every event is in the buffer once, and no longer waits once it is there.    *)
BufferedOnce == /\ \A i, j \in DOMAIN buffer : i # j => buffer[i] # buffer[j]
                /\ pending \cap Range(buffer) = {}

MadeSoFar == \A e \in Live : e.no <= made /\ (e.id \in Nat => e.id <= counter)

(* Events under way or in the buffer share an id only if it clashed; while a   *)
(* thread is about to read the counter, the next event shares it too.          *)
SharedClashed ==
  /\ \A e, f \in Live : e # f /\ e.id = f.id => e.id \in clashed
  /\ counted # {} => \A e \in Live : e.id = counter => counter \in clashed

IdInv == TypeOK /\ BufferedOnce /\ MadeSoFar /\ SharedClashed

(* An event made now is none of the live ones, and joins them.                 *)
LEMMA MakeJoins ==
  ASSUME IdInv, NEW id \in Nat \cup Shadow, Make(id), buffer' = buffer
  PROVE  LET new == [id |-> id, no |-> made + 1]
         IN /\ new.id = id /\ new.no = made + 1 /\ new \notin Live
            /\ Live' = Live \cup {new}
            /\ BufferedOnce'
<1> DEFINE new == [id |-> id, no |-> made + 1]
<1>1. new.id = id /\ new.no = made + 1
  OBVIOUS
<1>2. made \in Nat /\ \A e \in Live : e \in Event /\ e.no <= made
  BY RangeOfSeq DEF IdInv, TypeOK, MadeSoFar, Live
<1>3. new \notin Live
  <2>1. ~ (made + 1 <= made)
    BY <1>2
  <2> QED
    BY <1>1, <1>2, <2>1
<1>4. pending' = pending \cup {new}
  BY DEF Make
<1> HIDE DEF new
<1>5. Live' = Live \cup {new}
  BY <1>4 DEF Live
<1>6. BufferedOnce'
  BY <1>3, <1>4 DEF IdInv, BufferedOnce, Live
<1> QED
  BY <1>1, <1>3, <1>5, <1>6 DEF new

(* Steps that make no event only take some away.                               *)
LEMMA FewerLive ==
  ASSUME IdInv, Live' \subseteq Live, UNCHANGED <<made, counter, counted, clashed>>
  PROVE  MadeSoFar' /\ SharedClashed'
<1>1. MadeSoFar'
  BY DEF IdInv, MadeSoFar
<1>2. SharedClashed'
  BY DEF IdInv, SharedClashed
<1> QED
  BY <1>1, <1>2

(* Counting: no event has the new number yet.                                  *)
LEMMA CountingKeepsIds ==
  ASSUME IdInv, NEW t \in Source, CountEvent(t)
  PROVE  BufferedOnce' /\ MadeSoFar' /\ SharedClashed'
<1>1. /\ counter \in Nat /\ counter' = counter + 1
      /\ UNCHANGED <<made, clashed, pending, buffer>>
      /\ Live' = Live
  BY DEF CountEvent, emitVars, IdInv, TypeOK, Live
<1>2. \A e \in Live : e.id \in Nat => e.id <= counter /\ e.id # counter' /\ e.id <= counter'
  BY <1>1 DEF IdInv, MadeSoFar
<1>3. BufferedOnce'
  BY <1>1 DEF IdInv, BufferedOnce
<1>4. MadeSoFar'
  BY <1>1, <1>2 DEF IdInv, MadeSoFar
<1>5. SharedClashed'
  BY <1>1, <1>2 DEF IdInv, SharedClashed
<1> QED
  BY <1>3, <1>4, <1>5

(* Naming: a number that is read a second time was counted twice meanwhile.    *)
LEMMA NamingKeepsIds ==
  ASSUME IdInv, NEW t \in Source, NameEvent(t)
  PROVE  BufferedOnce' /\ MadeSoFar' /\ SharedClashed'
<1> DEFINE new == [id |-> counter, no |-> made + 1]
<1>1. /\ t \in counted /\ counter \in Nat /\ made \in Nat
      /\ counter' = counter /\ made' = made + 1 /\ buffer' = buffer
      /\ counted' = counted \ {t}
      /\ clashed' = clashed \cup (IF counted = {t} THEN {} ELSE {counter})
  BY DEF NameEvent, Make, IdInv, TypeOK
<1>2. /\ new.id = counter /\ new.no = made + 1
      /\ Live' = Live \cup {new}
      /\ BufferedOnce'
  BY <1>1, MakeJoins DEF NameEvent
<1> HIDE DEF new
<1>3. \A e \in Live : e \in Event /\ e.no <= made /\ (e.id \in Nat => e.id <= counter)
  BY RangeOfSeq DEF IdInv, TypeOK, MadeSoFar, Live
<1>4. MadeSoFar'
  <2>1. \A e \in Live : e.no <= made + 1
    BY <1>1, <1>3, EventFacts, FeedAssumption
  <2> QED
    BY <1>1, <1>2, <1>3, <2>1 DEF MadeSoFar
<1>5. \A e \in Live : e.id = counter => counter \in clashed
  BY <1>1 DEF IdInv, SharedClashed
<1>6. \A e, f \in Live : e # f /\ e.id = f.id => e.id \in clashed
  BY DEF IdInv, SharedClashed
<1>7. counted' # {} => counter \in clashed'
  BY <1>1
<1>8. SharedClashed'
  BY <1>1, <1>2, <1>5, <1>6, <1>7 DEF SharedClashed
<1> QED
  BY <1>2, <1>4, <1>8

(* Promoting: the record is not in the buffer, so another event with its id    *)
(* is still under way.                                                         *)
LEMMA PromotingKeepsIds ==
  ASSUME IdInv, NEW s \in Shadow, Promote(s)
  PROVE  BufferedOnce' /\ MadeSoFar' /\ SharedClashed'
<1> DEFINE new == [id |-> s, no |-> made + 1]
<1>1. /\ s \notin Nat /\ counter \in Nat /\ made \in Nat
      /\ counter' = counter /\ counted' = counted /\ made' = made + 1 /\ buffer' = buffer
      /\ clashed' = clashed \cup {e.id : e \in {e \in pending : e.id = s}}
  BY EventFacts DEF Promote, Make, IdInv, TypeOK
<1>2. /\ new.id = s /\ new.no = made + 1
      /\ Live' = Live \cup {new}
      /\ BufferedOnce'
  BY <1>1, MakeJoins DEF Promote
<1> HIDE DEF new
<1>3. \A e \in Live : e \in Event /\ e.no <= made /\ (e.id \in Nat => e.id <= counter)
  BY RangeOfSeq DEF IdInv, TypeOK, MadeSoFar, Live
<1>4. MadeSoFar'
  <2>1. \A e \in Live : e.no <= made + 1
    BY <1>1, <1>3, EventFacts, FeedAssumption
  <2> QED
    BY <1>1, <1>2, <1>3, <2>1 DEF MadeSoFar
<1>5. \A e \in Live : e.id = s => s \in clashed'
  <2> SUFFICES ASSUME NEW e \in Live, e.id = s
               PROVE  s \in clashed'
    OBVIOUS
  <2>1. Range(buffer) = {buffer[i] : i \in 1 .. Len(buffer)} /\ DOMAIN buffer = 1 .. Len(buffer)
    BY RangeOfSeq DEF IdInv, TypeOK
  <2>2. e \in pending
    BY <2>1 DEF Promote, Promoted, Live
  <2> QED
    BY <1>1, <2>2
<1>6. \A e, f \in Live : e # f /\ e.id = f.id => e.id \in clashed
  BY DEF IdInv, SharedClashed
<1>7. counted # {} => \A e \in Live : e.id = counter => counter \in clashed
  BY DEF IdInv, SharedClashed
<1>8. SharedClashed'
  BY <1>1, <1>2, <1>5, <1>6, <1>7 DEF SharedClashed
<1> QED
  BY <1>2, <1>4, <1>8

(* Appending moves an event from those under way to the buffer.                *)
LEMMA AppendingKeepsIds ==
  ASSUME IdInv, NEW e \in pending, AppendEvent(e)
  PROVE  BufferedOnce' /\ MadeSoFar' /\ SharedClashed'
<1>1. /\ buffer \in Seq(Event) /\ e \in Event
      /\ buffer' = Append(buffer, e) /\ pending' = pending \ {e}
      /\ UNCHANGED <<made, counter, counted, clashed>>
  BY DEF IdInv, TypeOK, AppendEvent, nameVars
<1> HIDE DEF Event
<1>2. Range(buffer') = Range(buffer) \cup {e} /\ buffer' \in Seq(Event)
  BY <1>1, RangeOfAppend
<1>3. Live' = Live
  BY <1>1, <1>2 DEF Live
<1>4. /\ DOMAIN buffer' = DOMAIN buffer \cup {Len(buffer) + 1}
      /\ Len(buffer) + 1 \notin DOMAIN buffer
      /\ \A i \in DOMAIN buffer : buffer'[i] = buffer[i]
      /\ buffer'[Len(buffer) + 1] = e
  BY <1>1
<1>5. \A i \in DOMAIN buffer : buffer[i] # e
  BY <1>1, RangeOfSeq DEF IdInv, BufferedOnce
<1>6. BufferedOnce'
  BY <1>1, <1>2, <1>4, <1>5 DEF IdInv, BufferedOnce
<1> QED
  BY <1>1, <1>3, <1>6, FewerLive

(* Popping and clearing take events out of the buffer.                         *)
LEMMA TrimmingKeepsIds ==
  ASSUME IdInv, PopOldest \/ PopFails \/ ClearEvents
  PROVE  BufferedOnce' /\ MadeSoFar' /\ SharedClashed'
<1>1. UNCHANGED <<pending, made, counter, counted, clashed>>
  BY DEF PopOldest, PopFails, ClearEvents, nameVars, emitVars
<1>2. buffer \in Seq(Event)
  BY DEF IdInv, TypeOK
<1>3. \/ buffer' = <<>>
      \/ buffer # <<>> /\ buffer' = Tail(buffer)
  BY DEF PopOldest, PopFails, ClearEvents
<1> HIDE DEF Event
<1>4. CASE buffer' = <<>>
  <2>1. DOMAIN buffer' = {} /\ Range(buffer') = {}
    BY <1>4 DEF Range
  <2> QED
    BY <1>1, <2>1, FewerLive DEF BufferedOnce, Live
<1>5. CASE buffer # <<>> /\ buffer' = Tail(buffer)
  <2>1. /\ buffer' \in Seq(Event)
        /\ DOMAIN buffer' = 1 .. Len(buffer')
        /\ \A i \in DOMAIN buffer' : i + 1 \in DOMAIN buffer /\ buffer'[i] = buffer[i + 1]
    BY <1>2, <1>5
  <2>2. Range(buffer') \subseteq Range(buffer)
    BY <1>2, <2>1, RangeOfSeq
  <2>3. BufferedOnce'
    <3>1. \A i, j \in DOMAIN buffer' : i # j => i + 1 # j + 1
      BY <2>1
    <3> QED
      BY <1>1, <2>1, <2>2, <3>1 DEF IdInv, BufferedOnce
  <2> QED
    BY <1>1, <2>2, <2>3, FewerLive DEF Live
<1> QED
  BY <1>3, <1>4, <1>5

(* At the start no id was given out.                                           *)
LEMMA InitIds == Init => IdInv
<1>1. Init => BufferedOnce /\ MadeSoFar /\ SharedClashed
  BY DEF Init, BufferedOnce, MadeSoFar, SharedClashed, Live, Range
<1> QED
  BY <1>1, InitTypes DEF IdInv

(* Every step keeps the ids of live events apart unless they clashed.          *)
LEMMA StepIds == IdInv /\ [Next]_vars => IdInv'
<1> SUFFICES ASSUME IdInv, [Next]_vars
             PROVE  BufferedOnce' /\ MadeSoFar' /\ SharedClashed'
  BY StepTypes DEF IdInv
<1>1. ASSUME UNCHANGED <<pending, buffer, nameVars>>
      PROVE  BufferedOnce' /\ MadeSoFar' /\ SharedClashed'
  <2>1. BufferedOnce' /\ Live' = Live
    BY <1>1 DEF IdInv, BufferedOnce, Live
  <2> QED
    BY <1>1, <2>1, FewerLive DEF nameVars
<1>2. ASSUME \/ CheckLength \/ Publish \/ BroadcastPerception
             \/ \E c \in Client : Subscribe(c) \/ StartReplay(c) \/ Send(c) \/ Disconnect(c)
             \/ UNCHANGED vars
      PROVE  UNCHANGED <<pending, buffer, nameVars>>
  BY <1>2 DEF CheckLength, Publish, BroadcastPerception, Subscribe, StartReplay, Send, Disconnect,
              vars, emitVars
<1> QED
  BY <1>1, <1>2, CountingKeepsIds, NamingKeepsIds, PromotingKeepsIds, AppendingKeepsIds,
     TrimmingKeepsIds DEF Next

(* Two events of the buffer share an id only if it was given out while one     *)
(* with it was under way: threads that count in turn and clicks that come      *)
(* after the event was appended never repeat one.                              *)
THEOREM IdsRepeatOnlyInFlight == Spec => []IdsUnique
<1>1. IdInv => IdsUnique
  BY RangeOfSeq DEF IdInv, TypeOK, BufferedOnce, SharedClashed, Live, IdsUnique
<1> QED
  BY <1>1, InitIds, StepIds, PTL DEF Spec
-----------------------------------------------------------------------------
(* The order in which events were appended, and what of it the buffer has. *)

Positions == [e \in Range(appended) |-> Place(e)]

(* An event is appended once, and no longer waits once it is.                  *)
AppendedOnce == /\ appended \in Seq(Event)
                /\ \A i, j \in DOMAIN appended : i # j => appended[i] # appended[j]
                /\ pending \cap Range(appended) = {}
                /\ \A e \in pending \cup Range(appended) : e.no <= made

(* The loop holds the event it appended last.                                  *)
HandIsLast == hand # None => appended # <<>> /\ hand = appended[Len(appended)]

(* The buffer follows the order, and what was appended after one of its events *)
(* is in it too unless a clear broke its emission.                             *)
BufferInOrder ==
  /\ Range(buffer) \subseteq Range(appended)
  /\ \A i, j \in DOMAIN buffer : i < j => Positions[buffer[i]] < Positions[buffer[j]]
  /\ \A e \in Range(buffer) : \A j \in Positions[e] + 1 .. Len(appended) :
       appended[j] \in Range(buffer) \cup broken \cup {hand}

LogInv == FeedInv /\ AppendedOnce /\ HandIsLast /\ BufferInOrder

(* Where an appended event stands.                                             *)
LEMMA PlaceFacts ==
  ASSUME AppendedOnce
  PROVE  /\ DOMAIN appended = 1 .. Len(appended) /\ Len(appended) \in Nat
         /\ \A e \in Range(appended) : /\ Positions[e] \in 1 .. Len(appended)
                                       /\ appended[Positions[e]] = e
         /\ \A i \in 1 .. Len(appended) : /\ appended[i] \in Range(appended)
                                          /\ Positions[appended[i]] = i
<1>1. Positions = [e \in Range(appended) |-> CHOOSE i \in DOMAIN appended : appended[i] = e]
  BY DEF Positions, Place
<1> HIDE DEF Event
<1> QED
  BY <1>1, PlacesOf DEF AppendedOnce

(* A new event stands after all others, and moves none of them.                *)
LEMMA PlaceGrows ==
  ASSUME AppendedOnce, NEW e \in pending, e \in Event, AppendEvent(e)
  PROVE  /\ AppendedOnce'
         /\ e \notin Range(appended)
         /\ Range(appended)' = Range(appended) \cup {e}
         /\ Len(appended') = Len(appended) + 1
         /\ \A i \in 1 .. Len(appended) : appended'[i] = appended[i]
         /\ appended'[Len(appended) + 1] = e
         /\ Positions'[e] = Len(appended) + 1
         /\ \A f \in Range(appended) : Positions'[f] = Positions[f]
<1>1. /\ e \notin Range(appended) /\ appended \in Seq(Event)
      /\ appended' = Append(appended, e) /\ pending' = pending \ {e} /\ made' = made
  BY DEF AppendEvent, AppendedOnce, nameVars
<1> HIDE DEF Event
<1>2. Range(appended)' = Range(appended) \cup {e} /\ appended' \in Seq(Event)
  BY <1>1, RangeOfAppend
<1>3. /\ DOMAIN appended' = 1 .. Len(appended) + 1
      /\ DOMAIN appended = 1 .. Len(appended)
      /\ Len(appended) \in Nat
      /\ Len(appended') = Len(appended) + 1
      /\ \A i \in 1 .. Len(appended) : appended'[i] = appended[i]
      /\ appended'[Len(appended) + 1] = e
  BY <1>1
<1>4. \A i \in DOMAIN appended : appended[i] # e
  BY <1>1 DEF Range
<1>5. AppendedOnce'
  <2>1. ASSUME NEW i \in DOMAIN appended', NEW j \in DOMAIN appended', i # j
        PROVE  appended'[i] # appended'[j]
    BY <1>3, <1>4, <2>1 DEF AppendedOnce
  <2> QED
    BY <1>1, <1>2, <2>1 DEF AppendedOnce
<1>6. /\ \A f \in Range(appended') : /\ Positions'[f] \in 1 .. Len(appended')
                                     /\ appended'[Positions'[f]] = f
      /\ \A i \in 1 .. Len(appended') : Positions'[appended'[i]] = i
  <2>1. Positions' = [f \in Range(appended') |-> CHOOSE i \in DOMAIN appended' : appended'[i] = f]
    BY DEF Positions, Place
  <2> QED
    BY <1>5, <2>1, PlacesOf DEF AppendedOnce
<1>7. Positions'[e] = Len(appended) + 1
  BY <1>3, <1>6
<1>8. \A f \in Range(appended) : Positions'[f] = Positions[f]
  BY <1>3, <1>6, PlaceFacts
<1> QED
  BY <1>1, <1>2, <1>3, <1>5, <1>7, <1>8

(* Naming and promoting make an event that no other is.                        *)
LEMMA MadeOnce ==
  ASSUME TypeOK, AppendedOnce,
         \/ \E t \in Source : NameEvent(t)
         \/ \E s \in Shadow : Promote(s)
  PROVE  AppendedOnce'
<1>1. PICK id \in Nat \cup Shadow : Make(id) /\ appended' = appended
  BY DEF NameEvent, Promote, TypeOK
<1> DEFINE new == [id |-> id, no |-> made + 1]
<1>2. new.no = made + 1 /\ pending' = pending \cup {new} /\ made' = made + 1
  BY <1>1 DEF Make
<1> HIDE DEF new
<1>3. \A e \in pending \cup Range(appended) : e \in Event /\ e.no <= made
  BY RangeOfSeq DEF TypeOK, AppendedOnce
<1>4. made \in Nat /\ \A e \in Event : e.no \in 1 .. MaxMade
  BY EventFacts DEF TypeOK
<1>5. \A e \in pending \cup Range(appended) : e.no <= made + 1 /\ e # new
  BY <1>2, <1>3, <1>4, FeedAssumption
<1> HIDE DEF Event
<1> QED
  BY <1>1, <1>2, <1>5 DEF AppendedOnce

(* The last of the buffer is the event in hand: a clear takes all or nothing.  *)
LEMMA HandEndsBuffer ==
  ASSUME FeedInv, hand # None, buffer # <<>>
  PROVE  buffer[Len(buffer)] = hand /\ hand \in Range(buffer)
<1>1. hand \in Event /\ buffer \in Seq(Event) /\ cloud \in Seq(Event)
      /\ Ends(buffer, Append(cloud, hand))
  BY DEF FeedInv, TypeOK, Handed
<1> HIDE DEF Event
<1>2. Len(buffer) \in 1 .. Len(buffer) /\ DOMAIN buffer = 1 .. Len(buffer)
  BY <1>1
<1>3. /\ Len(Append(cloud, hand)) = Len(cloud) + 1
      /\ Append(cloud, hand)[Len(cloud) + 1] = hand
      /\ Len(cloud) \in Nat
  BY <1>1
<1>4. buffer[Len(buffer)] = hand
  BY <1>1, <1>2, <1>3 DEF Ends
<1> QED
  BY <1>2, <1>4 DEF Range

(* At the start nothing was appended.                                          *)
LEMMA InitLog == Init => LogInv
<1>1. ASSUME Init
      PROVE  AppendedOnce /\ HandIsLast /\ BufferInOrder
  BY <1>1 DEF Init, AppendedOnce, HandIsLast, BufferInOrder, Range
<1> QED
  BY <1>1, InitFeed DEF LogInv

(* Appending puts an event last, in the order and in the buffer.               *)
LEMMA AppendingKeepsOrder ==
  ASSUME LogInv, NEW e \in pending, AppendEvent(e)
  PROVE  AppendedOnce' /\ HandIsLast' /\ BufferInOrder'
<1>1. /\ e \in Event /\ e # None /\ hand = None /\ hand' = e
      /\ buffer \in Seq(Event) /\ buffer' = Append(buffer, e) /\ broken' = broken
      /\ pending \subseteq Event /\ None \notin Event
  BY EventFacts DEF LogInv, FeedInv, TypeOK, AppendEvent
<1>2. /\ AppendedOnce /\ AppendedOnce'
      /\ e \notin Range(appended)
      /\ Range(appended)' = Range(appended) \cup {e}
      /\ Len(appended') = Len(appended) + 1
      /\ \A i \in 1 .. Len(appended) : appended'[i] = appended[i]
      /\ appended'[Len(appended) + 1] = e
      /\ Positions'[e] = Len(appended) + 1
      /\ \A f \in Range(appended) : Positions'[f] = Positions[f]
  BY <1>1, PlaceGrows DEF LogInv
<1> HIDE DEF Event
<1>3. /\ Len(appended) \in Nat /\ Len(buffer) \in Nat
      /\ \A f \in Range(appended) : Positions[f] \in 1 .. Len(appended)
  BY <1>1, <1>2, PlaceFacts
<1>4. HandIsLast'
  BY <1>1, <1>2, <1>3 DEF HandIsLast
<1>5. /\ Range(buffer') = Range(buffer) \cup {e}
      /\ DOMAIN buffer = 1 .. Len(buffer)
      /\ DOMAIN buffer' = 1 .. Len(buffer) + 1
      /\ \A i \in 1 .. Len(buffer) : buffer'[i] = buffer[i] /\ buffer[i] \in Range(buffer)
      /\ buffer'[Len(buffer) + 1] = e
  BY <1>1, RangeOfAppend, RangeOfSeq
<1>6. Range(buffer) \subseteq Range(appended)
  BY DEF LogInv, BufferInOrder
<1>7. ASSUME NEW i \in DOMAIN buffer', NEW j \in DOMAIN buffer', i < j
      PROVE  Positions'[buffer'[i]] < Positions'[buffer'[j]]
  <2>1. i \in 1 .. Len(buffer) /\ buffer'[i] \in Range(appended)
    BY <1>3, <1>5, <1>6, <1>7
  <2>2. CASE j \in 1 .. Len(buffer)
    <3>1. Positions[buffer[i]] < Positions[buffer[j]]
      BY <1>5, <1>7, <2>1, <2>2 DEF LogInv, BufferInOrder
    <3> QED
      BY <3>1, <2>1, <2>2, <1>2, <1>5, <1>6
  <2>3. CASE j = Len(buffer) + 1
    BY <2>1, <2>3, <1>2, <1>3, <1>5
  <2> QED
    BY <2>2, <2>3, <1>3, <1>5
<1>8. ASSUME NEW f \in Range(buffer'), NEW j \in Positions'[f] + 1 .. Len(appended')
      PROVE  appended'[j] \in Range(buffer') \cup broken' \cup {hand'}
  <2>1. CASE j = Len(appended) + 1
    BY <2>1, <1>1, <1>2
  <2>2. CASE j # Len(appended) + 1
    <3>1. f # e
      BY <2>2, <1>2, <1>3, <1>8
    <3>2. f \in Range(buffer) /\ f \in Range(appended) /\ Positions'[f] = Positions[f]
      BY <3>1, <1>2, <1>5, <1>6
    <3>3. j \in Positions[f] + 1 .. Len(appended) /\ j \in 1 .. Len(appended)
      BY <3>2, <2>2, <1>2, <1>3, <1>8
    <3>4. appended[j] \in Range(buffer) \cup broken \cup {hand}
      BY <3>2, <3>3 DEF LogInv, BufferInOrder
    <3>5. appended[j] # None
      BY <3>3, <1>1, <1>2 DEF AppendedOnce
    <3> QED
      BY <3>3, <3>4, <3>5, <1>1, <1>2, <1>5
  <2> QED
    BY <2>1, <2>2
<1>9. BufferInOrder'
  BY <1>2, <1>5, <1>6, <1>7, <1>8 DEF BufferInOrder
<1> QED
  BY <1>2, <1>4, <1>9

(* A pop takes the earliest event of the buffer, and a clear all of them.      *)
LEMMA TrimmingKeepsOrder ==
  ASSUME LogInv, PopOldest \/ PopFails \/ ClearEvents
  PROVE  AppendedOnce' /\ HandIsLast' /\ BufferInOrder'
<1>1. /\ UNCHANGED <<pending, appended, made>>
      /\ Positions' = Positions
      /\ AppendedOnce' /\ HandIsLast'
  <2>1. UNCHANGED <<pending, appended, made>> /\ hand' \in {hand, None}
    BY DEF PopOldest, PopFails, ClearEvents, nameVars, emitVars
  <2> QED
    BY <2>1 DEF Positions, Place, LogInv, AppendedOnce, HandIsLast
<1>2. CASE PopFails \/ ClearEvents
  <2>1. buffer' = <<>>
    BY <1>2 DEF PopFails, ClearEvents
  <2> QED
    BY <1>1, <2>1 DEF BufferInOrder, Range
<1>3. CASE PopOldest
  <2>1. /\ buffer \in Seq(Event) /\ buffer # <<>> /\ buffer' = Tail(buffer)
        /\ UNCHANGED <<hand, broken>>
        /\ AppendedOnce
    BY <1>3 DEF PopOldest, LogInv, FeedInv, TypeOK
  <2> HIDE DEF Event
  <2>2. /\ Len(buffer) \in Nat /\ 1 \in DOMAIN buffer
        /\ DOMAIN buffer = 1 .. Len(buffer) /\ DOMAIN buffer' = 1 .. Len(buffer) - 1
        /\ \A i \in DOMAIN buffer' : i + 1 \in DOMAIN buffer /\ buffer'[i] = buffer[i + 1]
        /\ \A i \in DOMAIN buffer : i # 1 => i - 1 \in DOMAIN buffer' /\ buffer'[i - 1] = buffer[i]
    BY <2>1
  <2>3. /\ Range(buffer') \subseteq Range(buffer)
        /\ \A i \in DOMAIN buffer : i # 1 => buffer[i] \in Range(buffer')
    BY <2>2 DEF Range
  <2>4. \A i, j \in DOMAIN buffer' : i < j => Positions[buffer'[i]] < Positions[buffer'[j]]
    <3>1. \A i, j \in DOMAIN buffer' : i < j => i + 1 < j + 1
      BY <2>2
    <3> QED
      BY <2>2, <3>1 DEF LogInv, BufferInOrder
  <2>5. ASSUME NEW e \in Range(buffer'), NEW j \in Positions[e] + 1 .. Len(appended)
        PROVE  appended[j] \in Range(buffer') \cup broken \cup {hand}
    <3>1. PICK i \in DOMAIN buffer' : e = buffer'[i]
      BY <2>5 DEF Range
    <3>2. i + 1 \in DOMAIN buffer /\ 1 < i + 1 /\ e = buffer[i + 1]
      BY <2>2, <3>1
    <3>3. Positions[buffer[1]] < Positions[e]
      BY <2>2, <3>2 DEF LogInv, BufferInOrder
    <3>4. e \in Range(appended) /\ buffer[1] \in Range(appended)
      BY <2>2, <2>3, <2>5 DEF LogInv, BufferInOrder, Range
    <3>5. /\ j \in 1 .. Len(appended) /\ Positions[buffer[1]] < j
          /\ Positions[appended[j]] = j
      BY <2>1, <3>3, <3>4, PlaceFacts
    <3>6. appended[j] # buffer[1]
      BY <2>1, <3>4, <3>5, PlaceFacts
    <3>7. appended[j] \in Range(buffer) \cup broken \cup {hand}
      BY <2>3, <2>5 DEF LogInv, BufferInOrder
    <3>8. appended[j] \in Range(buffer) => appended[j] \in Range(buffer')
      BY <2>3, <3>6 DEF Range
    <3> QED
      BY <3>7, <3>8
  <2> QED
    BY <1>1, <2>1, <2>3, <2>4, <2>5 DEF LogInv, BufferInOrder
<1> QED
  BY <1>2, <1>3

(* Every step keeps the order, and the buffer a part of it without holes.      *)
LEMMA StepLog == LogInv /\ [Next]_vars => LogInv'
<1> SUFFICES ASSUME LogInv, [Next]_vars
             PROVE  AppendedOnce' /\ HandIsLast' /\ BufferInOrder'
  BY StepFeed DEF LogInv
<1>1. ASSUME \/ \E t \in Source : NameEvent(t)
             \/ \E s \in Shadow : Promote(s)
      PROVE  AppendedOnce' /\ HandIsLast' /\ BufferInOrder'
  <2>1. AppendedOnce'
    BY <1>1, MadeOnce DEF LogInv, FeedInv
  <2>2. UNCHANGED <<appended, hand, buffer, broken>>
    BY <1>1 DEF NameEvent, Promote
  <2>3. Positions' = Positions
    BY <2>2 DEF Positions, Place
  <2> QED
    BY <2>1, <2>2, <2>3 DEF LogInv, HandIsLast, BufferInOrder
<1>2. CASE Publish
  <2>1. /\ UNCHANGED <<pending, appended, made, buffer, broken>> /\ Positions' = Positions
        /\ hand # None /\ hand' = None
    BY <1>2 DEF Publish, nameVars, LogInv, FeedInv, TypeOK, Positions, Place
  <2>2. \A e \in Range(buffer) : hand \in Range(buffer)
    BY <2>1, HandEndsBuffer DEF LogInv, Range
  <2> QED
    BY <2>1, <2>2 DEF LogInv, AppendedOnce, HandIsLast, BufferInOrder
<1>3. ASSUME UNCHANGED <<pending, appended, made, hand, buffer, broken>>
      PROVE  AppendedOnce' /\ HandIsLast' /\ BufferInOrder'
  <2>1. Positions' = Positions
    BY <1>3 DEF Positions, Place
  <2> QED
    BY <1>3, <2>1 DEF LogInv, AppendedOnce, HandIsLast, BufferInOrder
<1>4. ASSUME \/ \E t \in Source : CountEvent(t)
             \/ CheckLength \/ BroadcastPerception
             \/ \E c \in Client : Subscribe(c) \/ StartReplay(c) \/ Send(c) \/ Disconnect(c)
             \/ UNCHANGED vars
      PROVE  UNCHANGED <<pending, appended, made, hand, buffer, broken>>
  BY <1>4 DEF CountEvent, CheckLength, BroadcastPerception, Subscribe, StartReplay, Send,
              Disconnect, vars, nameVars, emitVars
<1> QED
  BY <1>1, <1>2, <1>3, <1>4, AppendingKeepsOrder, TrimmingKeepsOrder DEF Next
-----------------------------------------------------------------------------
(* What is sent to a client. *)

(* What was sent to it or waits to be, without the perception messages.        *)
Held(c) == (Range(got[c]) \cup Range(replay[c]) \cup Range(inbox[c])) \ {State}

(* The places of the events that were not appended between its subscription    *)
(* and its replay.                                                             *)
Ranks(c) == [e \in Range(appended) \ seam[c] |-> Positions[e]]

Rising(s, r) == \A i, j \in DOMAIN s :
                  i < j /\ s[i] \in DOMAIN r /\ s[j] \in DOMAIN r => r[s[i]] < r[s[j]]

Precede(s, t, r) == \A i \in DOMAIN s, j \in DOMAIN t :
                      s[i] \in DOMAIN r /\ t[j] \in DOMAIN r => r[s[i]] < r[t[j]]

ClientTypes == /\ got \in [Client -> Seq(Event)]
               /\ dropped \in [Client -> SUBSET Event]
               /\ seam \in [Client -> SUBSET Event]

(* Nothing is sent before the replay begins, and until then the queue takes    *)
(* only what was appended since the subscription.                              *)
Phases(c) ==
  /\ conn[c] = "away" => inbox[c] = <<>>
  /\ conn[c] # "streaming" => got[c] = <<>> /\ replay[c] = <<>>
  /\ conn[c] = "subscribed" => /\ Range(inbox[c]) \subseteq seam[c] \cup {State}
                               /\ hand \in seam[c] \cup {None}

Complete(c) ==
  /\ Held(c) \subseteq Range(appended) \ {hand}
  /\ \A e \in Held(c) : \A j \in Positions[e] + 1 .. Len(appended) :
       appended[j] \in Held(c) \cup dropped[c] \cup broken \cup {hand}

(* What was sent, then the replay, then the queue: each in order, and in order *)
(* one after the other.                                                        *)
InOrder(c) ==
  /\ Rising(got[c], Ranks(c))
  /\ Rising(replay[c], Ranks(c))
  /\ Rising(inbox[c], Ranks(c))
  /\ Precede(got[c], replay[c], Ranks(c))
  /\ Precede(got[c], inbox[c], Ranks(c))
  /\ Precede(replay[c], inbox[c], Ranks(c))

Fed(c) == Phases(c) /\ Complete(c) /\ InOrder(c)

SendInv == LogInv /\ ClientTypes /\ \A c \in Client : Fed(c)

(* A tail and an appended element larger than all before it keep a sequence    *)
(* rising.                                                                     *)
LEMMA RisingKept ==
  ASSUME NEW S, NEW s \in Seq(S), NEW r, Rising(s, r)
  PROVE  /\ s # <<>> => Rising(Tail(s), r)
         /\ \A x \in S :
              (\A i \in DOMAIN s : s[i] \in DOMAIN r /\ x \in DOMAIN r => r[s[i]] < r[x])
              => Rising(Append(s, x), r)
<1>1. ASSUME s # <<>>
      PROVE  Rising(Tail(s), r)
  <2> DEFINE u == Tail(s)
  <2>1. \A i \in DOMAIN u : i \in Nat /\ i + 1 \in DOMAIN s /\ u[i] = s[i + 1]
    BY <1>1
  <2> HIDE DEF u
  <2>2. \A i, j \in DOMAIN u : i < j => i + 1 < j + 1
    BY <2>1
  <2>3. Rising(u, r)
    BY <2>1, <2>2 DEF Rising
  <2> QED
    BY <2>3 DEF u
<1>2. ASSUME NEW x \in S,
             \A i \in DOMAIN s : s[i] \in DOMAIN r /\ x \in DOMAIN r => r[s[i]] < r[x]
      PROVE  Rising(Append(s, x), r)
  <2> DEFINE u == Append(s, x)
  <2>1. /\ DOMAIN s = 1 .. Len(s) /\ DOMAIN u = 1 .. Len(s) + 1 /\ Len(s) \in Nat
        /\ \A i \in DOMAIN s : u[i] = s[i]
        /\ u[Len(s) + 1] = x
    OBVIOUS
  <2> HIDE DEF u
  <2>2. ASSUME NEW i \in DOMAIN u, NEW j \in DOMAIN u, i < j, u[i] \in DOMAIN r, u[j] \in DOMAIN r
        PROVE  r[u[i]] < r[u[j]]
    <3>1. i \in DOMAIN s
      BY <2>1, <2>2
    <3>2. CASE j \in DOMAIN s
      BY <2>1, <2>2, <3>1, <3>2 DEF Rising
    <3>3. CASE j = Len(s) + 1
      BY <2>1, <2>2, <3>1, <3>3, <1>2
    <3> QED
      BY <2>1, <3>2, <3>3
  <2>3. Rising(u, r)
    BY <2>2 DEF Rising
  <2> QED
    BY <2>3 DEF u
<1> QED
  BY <1>1, <1>2

(* What precedes or follows may lose its first element, and take one that all  *)
(* of the other precedes or follows.                                           *)
LEMMA PrecedeKept ==
  ASSUME NEW S, NEW s \in Seq(S), NEW T, NEW t \in Seq(T), NEW r, Precede(s, t, r)
  PROVE  /\ s # <<>> => Precede(Tail(s), t, r)
         /\ t # <<>> => Precede(s, Tail(t), r)
         /\ \A x \in T :
              (\A i \in DOMAIN s : s[i] \in DOMAIN r /\ x \in DOMAIN r => r[s[i]] < r[x])
              => Precede(s, Append(t, x), r)
         /\ \A x \in S :
              (\A j \in DOMAIN t : t[j] \in DOMAIN r /\ x \in DOMAIN r => r[x] < r[t[j]])
              => Precede(Append(s, x), t, r)
<1>1. ASSUME s # <<>>
      PROVE  Precede(Tail(s), t, r)
  <2> DEFINE u == Tail(s)
  <2>1. \A i \in DOMAIN u : i + 1 \in DOMAIN s /\ u[i] = s[i + 1]
    BY <1>1
  <2> HIDE DEF u
  <2>2. Precede(u, t, r)
    BY <2>1 DEF Precede
  <2> QED
    BY <2>2 DEF u
<1>2. ASSUME t # <<>>
      PROVE  Precede(s, Tail(t), r)
  <2> DEFINE u == Tail(t)
  <2>1. \A i \in DOMAIN u : i + 1 \in DOMAIN t /\ u[i] = t[i + 1]
    BY <1>2
  <2> HIDE DEF u
  <2>2. Precede(s, u, r)
    BY <2>1 DEF Precede
  <2> QED
    BY <2>2 DEF u
<1>3. ASSUME NEW x \in T,
             \A i \in DOMAIN s : s[i] \in DOMAIN r /\ x \in DOMAIN r => r[s[i]] < r[x]
      PROVE  Precede(s, Append(t, x), r)
  <2> DEFINE u == Append(t, x)
  <2>1. \A i \in DOMAIN u : (i \in DOMAIN t /\ u[i] = t[i]) \/ u[i] = x
    OBVIOUS
  <2> HIDE DEF u
  <2>2. Precede(s, u, r)
    BY <2>1, <1>3 DEF Precede
  <2> QED
    BY <2>2 DEF u
<1>4. ASSUME NEW x \in S,
             \A j \in DOMAIN t : t[j] \in DOMAIN r /\ x \in DOMAIN r => r[x] < r[t[j]]
      PROVE  Precede(Append(s, x), t, r)
  <2> DEFINE u == Append(s, x)
  <2>1. \A i \in DOMAIN u : (i \in DOMAIN s /\ u[i] = s[i]) \/ u[i] = x
    OBVIOUS
  <2> HIDE DEF u
  <2>2. Precede(u, t, r)
    BY <2>1, <1>4 DEF Precede
  <2> QED
    BY <2>2 DEF u
<1> QED
  BY <1>1, <1>2, <1>3, <1>4

(* The types of what a client has, and the places of what it was sent.         *)
LEMMA ClientFacts ==
  ASSUME SendInv, NEW c \in Client
  PROVE  /\ got[c] \in Seq(Event) /\ replay[c] \in Seq(Event)
         /\ inbox[c] \in Seq(Event \cup {State})
         /\ State \notin Event /\ None \notin Event
         /\ Range(appended) \subseteq Event
         /\ DOMAIN Ranks(c) = Range(appended) \ seam[c]
         /\ \A e \in DOMAIN Ranks(c) : Ranks(c)[e] = Positions[e]
         /\ Range(got[c]) \subseteq Held(c) /\ Range(replay[c]) \subseteq Held(c)
         /\ Range(inbox[c]) \subseteq Held(c) \cup {State}
         /\ Fed(c) /\ AppendedOnce
<1>1. /\ got[c] \in Seq(Event) /\ replay[c] \in Seq(Event)
      /\ inbox[c] \in Seq(Event \cup {State})
      /\ Fed(c) /\ AppendedOnce /\ appended \in Seq(Event)
      /\ State \notin Event /\ None \notin Event
  BY EventFacts DEF SendInv, LogInv, FeedInv, TypeOK, ClientTypes, AppendedOnce
<1> HIDE DEF Event
<1>2. Range(got[c]) \subseteq Event /\ Range(replay[c]) \subseteq Event /\ Range(appended) \subseteq Event
  BY <1>1, RangeOfSeq
<1> QED
  BY <1>1, <1>2 DEF Ranks, Held

(* A step that leaves what a client has, the order and the hand alone.         *)
LEMMA LeftAlone ==
  ASSUME SendInv, NEW c \in Client, UNCHANGED <<appended, hand, broken>>,
         conn'[c] = conn[c], inbox'[c] = inbox[c], replay'[c] = replay[c], got'[c] = got[c],
         dropped'[c] = dropped[c], seam'[c] = seam[c]
  PROVE  Fed(c)'
<1>1. Held(c)' = Held(c) /\ Positions' = Positions /\ Ranks(c)' = Ranks(c)
  BY DEF Held, Positions, Place, Ranks
<1>2. Fed(c)
  BY DEF SendInv
<1> QED
  BY <1>1, <1>2 DEF Fed, Phases, Complete, InOrder

(* The event in hand stands after all a client was sent.                       *)
LEMMA BeforeHand ==
  ASSUME SendInv, NEW c \in Client, hand # None, NEW f \in Held(c), f \in DOMAIN Ranks(c),
         hand \in DOMAIN Ranks(c)
  PROVE  Ranks(c)[f] < Ranks(c)[hand]
<1>1. AppendedOnce /\ hand = appended[Len(appended)] /\ appended # <<>>
  BY DEF SendInv, LogInv, HandIsLast
<1>2. f \in Range(appended) /\ f # hand
  BY DEF SendInv, Fed, Complete
<1>3. Len(appended) \in 1 .. Len(appended)
  <2>1. appended \in Seq(Event)
    BY DEF SendInv, LogInv, AppendedOnce
  <2> HIDE DEF Event
  <2> QED
    BY <1>1, <2>1
<1>4. Positions[hand] = Len(appended) /\ Positions[f] \in 1 .. Len(appended) /\ Positions[f] # Len(appended)
  BY <1>1, <1>2, <1>3, PlaceFacts
<1>5. Ranks(c)[f] = Positions[f] /\ Ranks(c)[hand] = Positions[hand]
  BY ClientFacts
<1> QED
  BY <1>3, <1>4, <1>5

(* A queue that takes the event in hand, or a perception message.              *)
LEMMA QueueTakes ==
  ASSUME SendInv, NEW c \in Client, NEW x \in {hand, State}, x = State \/ hand # None,
         inbox'[c] = Append(inbox[c], x),
         UNCHANGED <<appended>>, replay'[c] = replay[c], got'[c] = got[c], seam'[c] = seam[c]
  PROVE  /\ InOrder(c)'
         /\ Held(c)' = Held(c) \cup ({x} \ {State})
         /\ Range(inbox'[c]) = Range(inbox[c]) \cup {x}
<1>1. /\ got[c] \in Seq(Event) /\ replay[c] \in Seq(Event)
      /\ inbox[c] \in Seq(Event \cup {State}) /\ x \in Event \cup {State}
      /\ State \notin DOMAIN Ranks(c)
  <2>1. hand \in Event \cup {None}
    BY DEF SendInv, LogInv, FeedInv, TypeOK
  <2> QED
    BY <2>1, ClientFacts
<1>2. /\ Range(got[c]) \subseteq Held(c) /\ Range(replay[c]) \subseteq Held(c)
      /\ Range(inbox[c]) \subseteq Held(c) \cup {State}
      /\ InOrder(c)
  BY ClientFacts DEF Fed
<1>3. \A f \in Held(c) \cup {State} : f \in DOMAIN Ranks(c) /\ x \in DOMAIN Ranks(c)
                                      => Ranks(c)[f] < Ranks(c)[x]
  BY <1>1, BeforeHand
<1> HIDE DEF Event
<1>4. /\ \A i \in DOMAIN got[c] : got[c][i] \in Held(c)
      /\ \A i \in DOMAIN replay[c] : replay[c][i] \in Held(c)
      /\ \A i \in DOMAIN inbox[c] : inbox[c][i] \in Held(c) \cup {State}
  BY <1>2 DEF Range
<1>5. Rising(Append(inbox[c], x), Ranks(c))
  BY <1>1, <1>2, <1>3, <1>4, RisingKept DEF InOrder
<1>6. Precede(got[c], Append(inbox[c], x), Ranks(c))
  BY <1>1, <1>2, <1>3, <1>4, PrecedeKept DEF InOrder
<1>7. Precede(replay[c], Append(inbox[c], x), Ranks(c))
  BY <1>1, <1>2, <1>3, <1>4, PrecedeKept DEF InOrder
<1>8. Ranks(c)' = Ranks(c)
  BY DEF Ranks, Positions, Place
<1>9. InOrder(c)'
  BY <1>2, <1>5, <1>6, <1>7, <1>8 DEF InOrder
<1>10. Range(inbox'[c]) = Range(inbox[c]) \cup {x}
  BY <1>1, RangeOfAppend
<1> QED
  BY <1>9, <1>10 DEF Held

(* Publishing: each queue takes the event or drops it.                         *)
LEMMA PublishFeeds ==
  ASSUME SendInv, NEW c \in Client, Publish
  PROVE  Fed(c)'
<1>1. /\ hand # None /\ hand \in Event /\ hand' = None
      /\ UNCHANGED <<appended, broken, conn, replay, got, seam>>
      /\ Positions' = Positions /\ Ranks(c)' = Ranks(c)
      /\ Range(appended)' = Range(appended)
  BY DEF Publish, SendInv, LogInv, FeedInv, TypeOK, Positions, Place, Ranks
<1>2. Fed(c) /\ AppendedOnce /\ Range(appended) \subseteq Event /\ None \notin Event
      /\ State \notin Event
  BY ClientFacts
<1>3. hand \in Range(appended)
  <2>1. appended # <<>> /\ hand = appended[Len(appended)] /\ appended \in Seq(Event)
    BY <1>1 DEF SendInv, LogInv, HandIsLast, AppendedOnce
  <2> HIDE DEF Event
  <2>2. Len(appended) \in DOMAIN appended
    BY <2>1
  <2> QED
    BY <2>1, <2>2 DEF Range
<1>4. CASE conn[c] = "away"
  <2>1. inbox'[c] = inbox[c] /\ dropped'[c] = dropped[c]
    BY <1>4 DEF Publish, Fanned, Subscribers
  <2>2. Held(c) = {} /\ Held(c)' = {}
    BY <1>1, <1>2, <1>4, <2>1 DEF Fed, Phases, Held, Range
  <2>3. Phases(c)' /\ InOrder(c)'
    BY <1>1, <1>2, <1>4, <2>1 DEF Fed, Phases, InOrder
  <2> QED
    BY <2>2, <2>3 DEF Fed, Complete
<1>5. CASE conn[c] # "away" /\ Full(c)
  <2>1. inbox'[c] = inbox[c] /\ dropped'[c] = dropped[c] \cup {hand}
    BY <1>5 DEF Publish, Fanned, Subscribers
  <2>2. Held(c)' = Held(c)
    BY <1>1, <2>1 DEF Held
  <2>3. Phases(c)' /\ InOrder(c)'
    BY <1>1, <1>2, <2>1 DEF Fed, Phases, InOrder
  <2>4. Complete(c)'
    BY <1>1, <1>2, <2>1, <2>2 DEF Fed, Complete
  <2> QED
    BY <2>3, <2>4 DEF Fed
<1>6. CASE conn[c] # "away" /\ ~Full(c)
  <2>1. inbox'[c] = Append(inbox[c], hand) /\ dropped'[c] = dropped[c]
    BY <1>6 DEF Publish, Fanned, Subscribers
  <2>2. /\ InOrder(c)' /\ Held(c)' = Held(c) \cup {hand}
        /\ Range(inbox'[c]) = Range(inbox[c]) \cup {hand}
    BY <1>1, <1>2, <2>1, QueueTakes
  <2>3. Phases(c)'
    BY <1>1, <1>2, <1>6, <2>2 DEF Fed, Phases
  <2>4. \A j \in Positions[hand] + 1 .. Len(appended) : FALSE
    <3>1. appended # <<>> /\ hand = appended[Len(appended)] /\ AppendedOnce
      BY <1>1 DEF SendInv, LogInv, HandIsLast
    <3>2. Len(appended) \in 1 .. Len(appended)
      BY <1>3, <3>1, PlaceFacts
    <3>3. Positions[hand] = Len(appended)
      BY <3>1, <3>2, PlaceFacts
    <3> QED
      BY <3>2, <3>3
  <2>5. Complete(c)'
    <3>1. Held(c)' \subseteq Range(appended)' \ {hand'}
      BY <1>1, <1>2, <1>3, <2>2 DEF Fed, Complete
    <3>2. ASSUME NEW e \in Held(c)', NEW j \in Positions[e] + 1 .. Len(appended)
          PROVE  appended[j] \in Held(c)' \cup dropped'[c] \cup broken' \cup {hand'}
      BY <1>1, <1>2, <2>1, <2>2, <2>4, <3>2 DEF Fed, Complete
    <3> QED
      BY <1>1, <3>1, <3>2 DEF Complete
  <2> QED
    BY <2>2, <2>3, <2>5 DEF Fed
<1> QED
  BY <1>4, <1>5, <1>6

(* A perception message takes room and no place.                               *)
LEMMA BroadcastFeeds ==
  ASSUME SendInv, NEW c \in Client, BroadcastPerception
  PROVE  Fed(c)'
<1>1. /\ hand' = hand
      /\ UNCHANGED <<appended, broken, conn, replay, got, dropped, seam>>
      /\ Positions' = Positions
  BY DEF BroadcastPerception, emitVars, Positions, Place
<1>2. CASE inbox'[c] = inbox[c]
  BY <1>1, <1>2, LeftAlone
<1>3. CASE conn[c] # "away" /\ inbox'[c] = Append(inbox[c], State)
  <2>1. /\ InOrder(c)' /\ Held(c)' = Held(c)
        /\ Range(inbox'[c]) = Range(inbox[c]) \cup {State}
    BY <1>1, <1>3, QueueTakes
  <2>2. Fed(c)
    BY DEF SendInv
  <2>3. Phases(c)' /\ Complete(c)'
    BY <1>1, <1>3, <2>1, <2>2 DEF Fed, Phases, Complete
  <2> QED
    BY <2>1, <2>3 DEF Fed
<1> QED
  BY <1>2, <1>3 DEF BroadcastPerception, Fanned, Subscribers

(* Appending: the event in hand is the one more that is due.                   *)
LEMMA AppendFeeds ==
  ASSUME SendInv, NEW c \in Client, NEW e \in pending, AppendEvent(e)
  PROVE  Fed(c)'
<1>1. /\ e \in Event /\ hand = None /\ hand' = e
      /\ UNCHANGED <<broken, conn, inbox, replay, got, dropped>>
      /\ seam'[c] = IF conn[c] = "subscribed" THEN seam[c] \cup {e} ELSE seam[c]
      /\ Held(c)' = Held(c)
  BY DEF AppendEvent, SendInv, LogInv, FeedInv, TypeOK, ClientTypes, Held
<1>2. Fed(c) /\ AppendedOnce /\ Range(appended) \subseteq Event /\ None \notin Event
      /\ State \notin Event
  BY ClientFacts
<1>3. /\ e \notin Range(appended)
      /\ Range(appended)' = Range(appended) \cup {e}
      /\ Len(appended') = Len(appended) + 1
      /\ \A i \in 1 .. Len(appended) : appended'[i] = appended[i]
      /\ appended'[Len(appended) + 1] = e
      /\ Positions'[e] = Len(appended) + 1
      /\ \A f \in Range(appended) : Positions'[f] = Positions[f]
  BY <1>1, <1>2, PlaceGrows
<1>4. /\ Len(appended) \in Nat
      /\ \A f \in Range(appended) : Positions[f] \in 1 .. Len(appended)
      /\ \A i \in 1 .. Len(appended) : appended[i] \in Range(appended)
  BY <1>2, PlaceFacts
<1>5. Phases(c)'
  BY <1>1, <1>2 DEF Fed, Phases
<1>6. Complete(c)'
  <2>1. Held(c) \subseteq Range(appended)
    BY <1>2 DEF Fed, Complete
  <2>2. ASSUME NEW f \in Held(c), NEW j \in Positions'[f] + 1 .. Len(appended')
        PROVE  appended'[j] \in Held(c)' \cup dropped'[c] \cup broken' \cup {hand'}
    <3>1. CASE j = Len(appended) + 1
      BY <3>1, <1>1, <1>3
    <3>2. CASE j # Len(appended) + 1
      <4>1. j \in Positions[f] + 1 .. Len(appended) /\ j \in 1 .. Len(appended)
        BY <3>2, <2>1, <2>2, <1>3, <1>4
      <4>2. appended[j] \in Held(c) \cup dropped[c] \cup broken \cup {hand}
        BY <4>1, <1>2 DEF Fed, Complete
      <4>3. appended[j] # None
        BY <4>1, <1>2, <1>4
      <4> QED
        BY <4>1, <4>2, <4>3, <1>1, <1>3
    <3> QED
      BY <3>1, <3>2
  <2>3. Held(c)' \subseteq Range(appended)' \ {hand'}
    BY <1>1, <1>3, <2>1
  <2> QED
    BY <1>1, <2>2, <2>3 DEF Complete
<1>7. InOrder(c)'
  <2>1. \A f \in Held(c) \cup {State} :
          f \in DOMAIN Ranks(c)' => f \in DOMAIN Ranks(c) /\ Ranks(c)'[f] = Ranks(c)[f]
    <3>1. DOMAIN Ranks(c)' = Range(appended)' \ seam'[c] /\ DOMAIN Ranks(c) = Range(appended) \ seam[c]
      BY DEF Ranks
    <3>2. \A f \in DOMAIN Ranks(c)' : Ranks(c)'[f] = Positions'[f]
      BY DEF Ranks
    <3>3. \A f \in DOMAIN Ranks(c) : Ranks(c)[f] = Positions[f]
      BY DEF Ranks
    <3>4. Held(c) \subseteq Range(appended)
      BY <1>2 DEF Fed, Complete
    <3>5. \A f \in Held(c) \cup {State} : f \in DOMAIN Ranks(c)' => f \in DOMAIN Ranks(c) /\ f \in Range(appended)
      BY <3>1, <3>4, <1>1, <1>2, <1>3
    <3> QED
      BY <3>2, <3>3, <3>5, <1>3
  <2>2. /\ \A i \in DOMAIN got[c] : got[c][i] \in Held(c)
        /\ \A i \in DOMAIN replay[c] : replay[c][i] \in Held(c)
        /\ \A i \in DOMAIN inbox[c] : inbox[c][i] \in Held(c) \cup {State}
    BY ClientFacts DEF Range
  <2> HIDE DEF Event
  <2>3. Rising(got[c], Ranks(c)') /\ Rising(replay[c], Ranks(c)') /\ Rising(inbox[c], Ranks(c)')
    BY <1>2, <2>1, <2>2 DEF Fed, InOrder, Rising
  <2>4. Precede(got[c], replay[c], Ranks(c)')
    BY <1>2, <2>1, <2>2 DEF Fed, InOrder, Precede
  <2>5. Precede(got[c], inbox[c], Ranks(c)') /\ Precede(replay[c], inbox[c], Ranks(c)')
    BY <1>2, <2>1, <2>2 DEF Fed, InOrder, Precede
  <2> QED
    BY <1>1, <2>3, <2>4, <2>5 DEF InOrder
<1> QED
  BY <1>5, <1>6, <1>7 DEF Fed

(* A clear that breaks an emission: the event in hand is due to nobody.        *)
LEMMA BreakFeeds ==
  ASSUME SendInv, NEW c \in Client, PopFails
  PROVE  Fed(c)'
<1>1. /\ hand' = None /\ broken' = broken \cup {hand}
      /\ UNCHANGED <<appended, conn, inbox, replay, got, dropped, seam>>
      /\ Held(c)' = Held(c) /\ Positions' = Positions /\ Ranks(c)' = Ranks(c)
  BY DEF PopFails, clientVars, Held, Positions, Place, Ranks
<1>2. Fed(c) /\ Range(appended) \subseteq Event /\ None \notin Event
  BY ClientFacts
<1>3. Phases(c)' /\ InOrder(c)'
  BY <1>1, <1>2 DEF Fed, Phases, InOrder
<1>4. Complete(c)'
  BY <1>1, <1>2 DEF Fed, Complete
<1> QED
  BY <1>3, <1>4 DEF Fed

(* The replay is the end of the buffer: what was appended after one of its     *)
(* events is in it too, and what the queue has is of the seam.                 *)
LEMMA ReplayFeeds ==
  ASSUME SendInv, NEW c \in Client, StartReplay(c)
  PROVE  Fed(c)'
<1> DEFINE n == Len(buffer)
           k == IF n < Replay THEN 1 ELSE n - Replay + 1
           u == SubSeq(buffer, k, n)
<1>1. /\ hand = None /\ hand' = None
      /\ conn[c] = "subscribed" /\ conn'[c] = "streaming"
      /\ replay'[c] = u
      /\ UNCHANGED <<appended, broken, inbox, got, dropped, seam>>
      /\ Positions' = Positions /\ Ranks(c)' = Ranks(c)
  <2>1. /\ hand = None /\ replay \in [Client -> Seq(Event)] /\ conn \in [Client -> {"away", "subscribed", "streaming"}]
    BY DEF StartReplay, SendInv, LogInv, FeedInv, TypeOK
  <2>2. UNCHANGED <<hand, appended, broken, inbox, got, dropped, seam>>
    BY DEF StartReplay, emitVars
  <2>3. conn[c] = "subscribed" /\ conn'[c] = "streaming" /\ replay'[c] = u
    BY <2>1 DEF StartReplay, Newest
  <2>4. Positions' = Positions /\ Ranks(c)' = Ranks(c)
    BY <2>2 DEF Positions, Place, Ranks
  <2> QED
    BY <2>1, <2>2, <2>3, <2>4
<1>2. /\ Fed(c) /\ AppendedOnce /\ Range(appended) \subseteq Event /\ None \notin Event
      /\ State \notin Event
      /\ DOMAIN Ranks(c) = Range(appended) \ seam[c]
      /\ \A e \in DOMAIN Ranks(c) : Ranks(c)[e] = Positions[e]
      /\ Range(inbox[c]) \subseteq Held(c) \cup {State}
  BY ClientFacts
<1>3. /\ n \in Nat /\ DOMAIN buffer = 1 .. n /\ k \in Nat \ {0}
      /\ DOMAIN u \subseteq Nat \ {0}
      /\ \A i \in DOMAIN u : k + i - 1 \in 1 .. n /\ u[i] = buffer[k + i - 1]
      /\ \A i \in k .. n : i - k + 1 \in DOMAIN u /\ u[i - k + 1] = buffer[i]
  <2>1. buffer \in Seq(Event) /\ Replay \in Nat \ {0}
    BY FeedAssumption DEF SendInv, LogInv, FeedInv, TypeOK
  <2> HIDE DEF Event
  <2>2. n \in Nat /\ DOMAIN buffer = 1 .. n /\ k \in Nat \ {0}
    BY <2>1
  <2> HIDE DEF n, k
  <2>3. DOMAIN u = 1 .. (IF k <= n THEN n - k + 1 ELSE 0)
        /\ \A i \in DOMAIN u : u[i] = buffer[k + i - 1]
    BY <2>1, <2>2
  <2>4. ASSUME NEW i \in DOMAIN u
        PROVE  i \in Nat \ {0} /\ k + i - 1 \in 1 .. n /\ u[i] = buffer[k + i - 1]
    <3>1. u[i] = buffer[k + i - 1]
      BY <2>3
    <3>2. i \in 1 .. (IF k <= n THEN n - k + 1 ELSE 0)
      BY <2>3
    <3> HIDE DEF u
    <3>3. i \in Nat \ {0} /\ k + i - 1 \in 1 .. n
      BY <2>2, <3>2
    <3> QED
      BY <3>1, <3>3
  <2>5. ASSUME NEW i \in k .. n
        PROVE  i - k + 1 \in DOMAIN u /\ u[i - k + 1] = buffer[i]
    <3>1. /\ i - k + 1 \in 1 .. (IF k <= n THEN n - k + 1 ELSE 0)
          /\ k + (i - k + 1) - 1 = i
      BY <2>2
    <3> HIDE DEF u
    <3> QED
      BY <2>3, <3>1
  <2> QED
    BY <2>2, <2>4, <2>5
<1> HIDE DEF n, k, u
<1>4. Range(u) \subseteq Range(buffer) /\ Range(buffer) \subseteq Range(appended)
  <2>1. Range(u) \subseteq Range(buffer)
    BY <1>3 DEF Range
  <2> QED
    BY <2>1 DEF SendInv, LogInv, BufferInOrder
<1>5. got[c] = <<>> /\ replay[c] = <<>>
      /\ Range(inbox[c]) \subseteq seam[c] \cup {State}
  BY <1>1, <1>2 DEF Fed, Phases
<1>6. Held(c)' = Held(c) \cup Range(u)
  <2>1. Range(got[c]) = {} /\ Range(replay[c]) = {}
    BY <1>5 DEF Range
  <2>2. State \notin Range(u)
    BY <1>2, <1>4
  <2> QED
    BY <1>1, <2>1, <2>2 DEF Held
<1>7. Rising(u, Ranks(c))
  <2>1. ASSUME NEW i \in DOMAIN u, NEW j \in DOMAIN u, i < j
        PROVE  Positions[u[i]] < Positions[u[j]]
    <3>1. k + i - 1 \in DOMAIN buffer /\ k + j - 1 \in DOMAIN buffer /\ k + i - 1 < k + j - 1
      BY <1>3, <2>1
    <3> QED
      BY <1>3, <3>1 DEF SendInv, LogInv, BufferInOrder
  <2> QED
    BY <1>2, <2>1 DEF Rising
<1>8. InOrder(c)'
  <2>1. \A j \in DOMAIN inbox[c] : inbox[c][j] \notin DOMAIN Ranks(c)
    BY <1>2, <1>5 DEF Range
  <2>2. Precede(u, inbox[c], Ranks(c))
    BY <2>1 DEF Precede
  <2>3. Precede(got[c], u, Ranks(c))
    BY <1>5 DEF Precede
  <2> QED
    BY <1>1, <1>2, <1>7, <2>2, <2>3 DEF Fed, InOrder
<1>9. Complete(c)'
  <2>1. ASSUME NEW e \in Range(u), NEW j \in Positions[e] + 1 .. Len(appended)
        PROVE  appended[j] \in Range(u) \cup broken
    <3>1. appended[j] \in Range(buffer) \cup broken \cup {hand}
      BY <1>4, <2>1 DEF SendInv, LogInv, BufferInOrder
    <3>2. Positions[e] \in 1 .. Len(appended) /\ Len(appended) \in Nat
      BY <1>2, <1>4, <2>1, PlaceFacts
    <3>3. /\ j \in 1 .. Len(appended) /\ Positions[e] < j
          /\ appended[j] \in Range(appended) /\ Positions[appended[j]] = j
      BY <1>2, <2>1, <3>2, PlaceFacts
    <3>4. appended[j] # None
      BY <1>2, <3>3
    <3>5. ASSUME appended[j] \in Range(buffer)
          PROVE  appended[j] \in Range(u)
      <4>1. PICK m \in DOMAIN buffer : appended[j] = buffer[m]
        BY <3>5 DEF Range
      <4>2. PICK i \in DOMAIN u : e = u[i]
        BY <2>1 DEF Range
      <4>3. k + i - 1 \in DOMAIN buffer /\ e = buffer[k + i - 1] /\ k + i - 1 \in 1 .. n /\ i \in Nat
        BY <1>3, <4>2
      <4>4. ~ (m < k + i - 1)
        <5>1. m < k + i - 1 => Positions[buffer[m]] < Positions[buffer[k + i - 1]]
          BY <4>1, <4>3 DEF SendInv, LogInv, BufferInOrder
        <5> QED
          BY <5>1, <4>1, <4>3, <3>2, <3>3
      <4>5. m \in k .. n
        <5>1. i \in Nat \ {0}
          BY <1>3, <4>2
        <5> QED
          BY <1>3, <4>1, <4>3, <4>4, <5>1
      <4>6. m - k + 1 \in DOMAIN u /\ u[m - k + 1] = buffer[m]
        BY <1>3, <4>5
      <4> QED
        BY <4>1, <4>6 DEF Range
    <3> QED
      BY <1>1, <3>1, <3>4, <3>5
  <2>2. ASSUME NEW e \in Held(c)', NEW j \in Positions[e] + 1 .. Len(appended)
        PROVE  appended[j] \in Held(c)' \cup dropped[c] \cup broken \cup {hand}
    BY <1>2, <1>6, <2>1, <2>2 DEF Fed, Complete
  <2>3. Held(c)' \subseteq Range(appended) \ {hand}
    BY <1>1, <1>2, <1>4, <1>6 DEF Fed, Complete
  <2>4. Range(appended)' = Range(appended)
    BY <1>1
  <2> QED
    BY <1>1, <2>2, <2>3, <2>4 DEF Complete
<1>10. Phases(c)'
  BY <1>1, <1>5 DEF Phases
<1> QED
  BY <1>8, <1>9, <1>10 DEF Fed

(* Sending moves the first of the replay, or then of the queue, to the client. *)
LEMMA SendFeeds ==
  ASSUME SendInv, NEW c \in Client, Send(c)
  PROVE  Fed(c)' /\ got'[c] \in Seq(Event)
<1>1. /\ conn[c] = "streaming"
      /\ UNCHANGED <<appended, hand, broken, conn, dropped, seam>>
      /\ Positions' = Positions /\ Ranks(c)' = Ranks(c)
  BY DEF Send, emitVars, Positions, Place, Ranks
<1>2. /\ Fed(c) /\ State \notin Event /\ Range(appended) \subseteq Event
      /\ got[c] \in Seq(Event) /\ replay[c] \in Seq(Event) /\ inbox[c] \in Seq(Event \cup {State})
      /\ DOMAIN Ranks(c) = Range(appended) \ seam[c]
      /\ got \in [Client -> Seq(Event)]
  BY ClientFacts DEF SendInv, ClientTypes
<1>3. ASSUME Held(c)' = Held(c), InOrder(c)'
      PROVE  Fed(c)'
  BY <1>1, <1>2, <1>3 DEF Fed, Phases, Complete
<1> DEFINE r == Ranks(c)
<1>4. /\ Rising(got[c], r) /\ Rising(replay[c], r) /\ Rising(inbox[c], r)
      /\ Precede(got[c], replay[c], r) /\ Precede(got[c], inbox[c], r)
      /\ Precede(replay[c], inbox[c], r)
  BY <1>2 DEF Fed, InOrder
<1>5. ASSUME NEW S, NEW s \in Seq(S), s # <<>>
      PROVE  /\ Head(s) = s[1] /\ 1 \in DOMAIN s /\ Head(s) \in S
             /\ Tail(s) \in Seq(S)
             /\ Range(s) = {Head(s)} \cup Range(Tail(s))
             /\ \A j \in DOMAIN Tail(s) : /\ j \in Nat /\ j + 1 \in DOMAIN s /\ 1 < j + 1
                                         /\ Tail(s)[j] = s[j + 1]
  <2>1. DOMAIN s = 1 .. Len(s) /\ DOMAIN Tail(s) = 1 .. Len(Tail(s)) /\ 1 \in DOMAIN s
    BY <1>5
  <2> QED
    BY <1>5, <2>1, RangeOfTail
<1> HIDE DEF r
<1>6. CASE replay[c] # <<>> /\ replay'[c] = Tail(replay[c])
           /\ got'[c] = Append(got[c], Head(replay[c])) /\ inbox'[c] = inbox[c]
  <2> DEFINE x == Head(replay[c])
  <2>1. /\ x = replay[c][1] /\ 1 \in DOMAIN replay[c] /\ x \in Event
        /\ Tail(replay[c]) \in Seq(Event)
        /\ Range(replay[c]) = {x} \cup Range(Tail(replay[c]))
        /\ \A j \in DOMAIN Tail(replay[c]) : /\ j \in Nat /\ j + 1 \in DOMAIN replay[c] /\ 1 < j + 1
                                             /\ Tail(replay[c])[j] = replay[c][j + 1]
    BY <1>2, <1>5, <1>6
  <2> HIDE DEF x, Event
  <2>2. Append(got[c], x) \in Seq(Event) /\ Range(Append(got[c], x)) = Range(got[c]) \cup {x}
    BY <1>2, <2>1, RangeOfAppend
  <2>3. Held(c)' = Held(c)
    BY <1>6, <2>1, <2>2 DEF Held, x
  <2>4. Rising(Append(got[c], x), r) /\ Rising(Tail(replay[c]), r)
    <3>1. \A i \in DOMAIN got[c] : got[c][i] \in DOMAIN r /\ x \in DOMAIN r => r[got[c][i]] < r[x]
      BY <1>4, <2>1 DEF Precede
    <3> QED
      BY <1>2, <1>4, <1>6, <2>1, <3>1, RisingKept
  <2>5. Precede(Append(got[c], x), Tail(replay[c]), r)
    <3>1. Precede(got[c], Tail(replay[c]), r)
      BY <1>2, <1>4, <1>6, PrecedeKept
    <3>2. \A j \in DOMAIN Tail(replay[c]) :
            Tail(replay[c])[j] \in DOMAIN r /\ x \in DOMAIN r => r[x] < r[Tail(replay[c])[j]]
      BY <1>4, <2>1 DEF Rising
    <3> QED
      BY <1>2, <2>1, <3>1, <3>2, PrecedeKept
  <2>6. Precede(Append(got[c], x), inbox[c], r) /\ Precede(Tail(replay[c]), inbox[c], r)
    <3>1. \A j \in DOMAIN inbox[c] : inbox[c][j] \in DOMAIN r /\ x \in DOMAIN r => r[x] < r[inbox[c][j]]
      BY <1>4, <2>1 DEF Precede
    <3> QED
      BY <1>2, <1>4, <1>6, <2>1, <3>1, PrecedeKept
  <2>7. InOrder(c)'
    BY <1>1, <1>4, <1>6, <2>4, <2>5, <2>6 DEF InOrder, r, x
  <2> QED
    BY <1>3, <1>6, <2>2, <2>3, <2>7 DEF x
<1>7. CASE replay[c] = <<>> /\ inbox[c] # <<>> /\ inbox'[c] = Tail(inbox[c])
           /\ got'[c] = (IF Head(inbox[c]) = State THEN got[c] ELSE Append(got[c], Head(inbox[c])))
           /\ replay'[c] = replay[c]
  <2> DEFINE x == Head(inbox[c])
  <2>1. /\ x = inbox[c][1] /\ 1 \in DOMAIN inbox[c] /\ x \in Event \cup {State}
        /\ Tail(inbox[c]) \in Seq(Event \cup {State})
        /\ Range(inbox[c]) = {x} \cup Range(Tail(inbox[c]))
        /\ \A j \in DOMAIN Tail(inbox[c]) : /\ j \in Nat /\ j + 1 \in DOMAIN inbox[c] /\ 1 < j + 1
                                            /\ Tail(inbox[c])[j] = inbox[c][j + 1]
    BY <1>2, <1>5, <1>7
  <2> HIDE DEF x, Event
  <2>2. /\ Rising(Tail(inbox[c]), r)
        /\ Precede(got[c], Tail(inbox[c]), r) /\ Precede(replay[c], Tail(inbox[c]), r)
    BY <1>2, <1>4, <1>7, RisingKept, PrecedeKept
  <2>3. CASE x = State
    <3>1. got'[c] = got[c] /\ Held(c)' = Held(c)
      BY <1>7, <2>1, <2>3 DEF Held, x
    <3>2. InOrder(c)'
      BY <1>1, <1>4, <1>7, <2>2, <3>1 DEF InOrder, r
    <3> QED
      BY <1>2, <1>3, <3>1, <3>2
  <2>4. CASE x # State
    <3>1. Append(got[c], x) \in Seq(Event) /\ Range(Append(got[c], x)) = Range(got[c]) \cup {x}
      BY <1>2, <2>1, <2>4, RangeOfAppend
    <3>2. got'[c] = Append(got[c], x)
      BY <1>7, <2>4 DEF x
    <3>3. Held(c)' = Held(c)
      BY <1>7, <2>1, <3>1, <3>2 DEF Held
    <3>4. Rising(Append(got[c], x), r)
      <4>1. \A i \in DOMAIN got[c] : got[c][i] \in DOMAIN r /\ x \in DOMAIN r => r[got[c][i]] < r[x]
        BY <1>4, <2>1 DEF Precede
      <4> QED
        BY <1>2, <1>4, <2>1, <2>4, <4>1, RisingKept
    <3>5. Precede(Append(got[c], x), replay[c], r)
      BY <1>7 DEF Precede
    <3>6. Precede(Append(got[c], x), Tail(inbox[c]), r)
      <4>1. \A j \in DOMAIN Tail(inbox[c]) :
              Tail(inbox[c])[j] \in DOMAIN r /\ x \in DOMAIN r => r[x] < r[Tail(inbox[c])[j]]
        BY <1>4, <2>1 DEF Rising
      <4> QED
        BY <1>2, <2>1, <2>2, <2>4, <4>1, PrecedeKept
    <3>7. InOrder(c)'
      BY <1>1, <1>4, <1>7, <2>2, <3>2, <3>4, <3>5, <3>6 DEF InOrder, r
    <3> QED
      BY <1>3, <3>1, <3>2, <3>3, <3>7
  <2> QED
    BY <2>3, <2>4
<1>8. /\ got \in [Client -> Seq(Event)] /\ replay \in [Client -> Seq(Event)]
      /\ inbox \in [Client -> Seq(Event \cup {State})]
  BY DEF SendInv, LogInv, FeedInv, TypeOK, ClientTypes
<1> QED
  BY <1>6, <1>7, <1>8 DEF Send

(* A connection begins with nothing sent and an empty queue, and leaves none.  *)
LEMMA ConnectingFeeds ==
  ASSUME SendInv, NEW c \in Client, Subscribe(c) \/ Disconnect(c)
  PROVE  Fed(c)'
<1>1. /\ UNCHANGED <<appended, hand, broken>> /\ hand = None
      /\ conn'[c] # "streaming"
      /\ inbox'[c] = <<>> /\ replay'[c] = <<>> /\ got'[c] = <<>>
  BY DEF SendInv, LogInv, FeedInv, TypeOK, ClientTypes, Fed, Phases, Subscribe, Disconnect, emitVars
<1>2. Range(<<>>) = {}
  BY DEF Range
<1>3. Held(c)' = {}
  BY <1>1, <1>2 DEF Held
<1>4. Complete(c)'
  BY <1>3 DEF Complete
<1>5. Phases(c)'
  BY <1>1, <1>2 DEF Phases
<1>6. InOrder(c)'
  BY <1>1 DEF InOrder, Rising, Precede
<1> QED
  BY <1>4, <1>5, <1>6 DEF Fed

(* At the start nobody is connected.                                           *)
LEMMA InitSend == Init => SendInv
<1>1. ASSUME Init
      PROVE  ClientTypes /\ \A c \in Client : Fed(c)
  BY <1>1 DEF Init, ClientTypes, Fed, Phases, Complete, InOrder, Rising, Precede, Held, Range
<1> QED
  BY <1>1, InitLog DEF SendInv

(* What was sent, dropped or appended early are events.                        *)
LEMMA StepClientTypes == SendInv /\ [Next]_vars => ClientTypes'
<1> SUFFICES ASSUME SendInv, [Next]_vars
             PROVE  ClientTypes'
  OBVIOUS
<1>1. ClientTypes /\ pending \subseteq Event
  BY DEF SendInv, LogInv, FeedInv, TypeOK
<1>2. ASSUME NEW e \in pending, AppendEvent(e)
      PROVE  ClientTypes'
  BY <1>1, <1>2 DEF AppendEvent, ClientTypes
<1>3. CASE Publish
  <2>1. hand \in Event
    BY <1>3 DEF Publish, SendInv, LogInv, FeedInv, TypeOK
  <2> QED
    BY <1>1, <1>3, <2>1 DEF Publish, ClientTypes
<1>4. ASSUME NEW c \in Client, Send(c)
      PROVE  ClientTypes'
  <2>1. got'[c] \in Seq(Event) /\ UNCHANGED <<dropped, seam>>
    BY <1>4, SendFeeds DEF Send
  <2>2. \E s : got' = [got EXCEPT ![c] = s]
    BY <1>4 DEF Send
  <2> QED
    BY <1>1, <2>1, <2>2 DEF ClientTypes
<1>5. ASSUME NEW c \in Client, Disconnect(c)
      PROVE  ClientTypes'
  BY <1>1, <1>5 DEF Disconnect, ClientTypes
<1>6. ASSUME UNCHANGED <<got, dropped, seam>>
      PROVE  ClientTypes'
  BY <1>1, <1>6 DEF ClientTypes
<1>7. ASSUME \/ \E t \in Source : CountEvent(t) \/ NameEvent(t)
             \/ \E s \in Shadow : Promote(s)
             \/ CheckLength \/ PopOldest \/ PopFails \/ BroadcastPerception \/ ClearEvents
             \/ \E c \in Client : Subscribe(c) \/ StartReplay(c)
             \/ UNCHANGED vars
      PROVE  UNCHANGED <<got, dropped, seam>>
  BY <1>7 DEF CountEvent, NameEvent, Promote, CheckLength, PopOldest, PopFails, BroadcastPerception,
              ClearEvents, Subscribe, StartReplay, vars, clientVars
<1> QED
  BY <1>2, <1>3, <1>4, <1>5, <1>6, <1>7 DEF Next

(* Every step keeps what each client is sent complete and in order.            *)
LEMMA StepSend == SendInv /\ [Next]_vars => SendInv'
<1> SUFFICES ASSUME SendInv, [Next]_vars, NEW c \in Client
             PROVE  Fed(c)'
  BY StepLog, StepClientTypes DEF SendInv
<1>1. ASSUME \/ \E t \in Source : CountEvent(t) \/ NameEvent(t)
             \/ \E s \in Shadow : Promote(s)
             \/ CheckLength \/ PopOldest \/ ClearEvents
             \/ UNCHANGED vars
      PROVE  Fed(c)'
  <2>1. UNCHANGED <<appended, hand, broken, clientVars>>
    BY <1>1 DEF CountEvent, NameEvent, Promote, CheckLength, PopOldest, ClearEvents, vars, emitVars
  <2> QED
    BY <2>1, LeftAlone DEF clientVars
<1>2. ASSUME NEW d \in Client, d # c,
             Subscribe(d) \/ StartReplay(d) \/ Send(d) \/ Disconnect(d)
      PROVE  Fed(c)'
  <2>1. UNCHANGED <<appended, hand, broken>>
    BY <1>2 DEF Subscribe, StartReplay, Send, Disconnect, emitVars
  <2>2. /\ conn'[c] = conn[c] /\ inbox'[c] = inbox[c] /\ replay'[c] = replay[c]
        /\ got'[c] = got[c] /\ dropped'[c] = dropped[c] /\ seam'[c] = seam[c]
    BY <1>2 DEF Subscribe, StartReplay, Send, Disconnect, SendInv, ClientTypes, LogInv, FeedInv, TypeOK
  <2> QED
    BY <2>1, <2>2, LeftAlone
<1> QED
  BY <1>1, <1>2, AppendFeeds, PublishFeeds, BreakFeeds, BroadcastFeeds, ReplayFeeds, SendFeeds,
     ConnectingFeeds DEF Next

(* From the first event a client is sent on, it is sent every one appended     *)
(* after it, but for those its full queue did not take and those whose         *)
(* emission a clear broke: the seam of replay and queue loses nothing.         *)
THEOREM NothingMissed == Spec => []NoHole
<1>1. SendInv => NoHole
  <2> SUFFICES ASSUME SendInv, NEW c \in Client,
                      NEW e \in Range(got[c]) \cup Range(replay[c]),
                      NEW j \in Place(e) + 1 .. Len(appended)
               PROVE  appended[j] \in Range(got[c]) \cup Range(replay[c]) \cup Range(inbox[c])
                                      \cup dropped[c] \cup broken \cup {hand}
    BY DEF NoHole
  <2>1. e \in Held(c) /\ Fed(c)
    BY ClientFacts
  <2>2. Positions[e] = Place(e)
    BY <2>1 DEF Fed, Complete, Positions
  <2> QED
    BY <2>1, <2>2 DEF Fed, Complete, Held
<1> QED
  BY <1>1, InitSend, StepSend, PTL DEF Spec

(* A client is sent events in the order they were appended and each once,      *)
(* except those appended between its subscription and its replay.              *)
THEOREM SentOnceInOrder == Spec => []SentInOrder
<1>1. SendInv => SentInOrder
  <2> SUFFICES ASSUME SendInv, NEW c \in Client, NEW i \in DOMAIN got[c], NEW j \in DOMAIN got[c],
                      i < j, {got[c][i], got[c][j]} \cap seam[c] = {}
               PROVE  Place(got[c][i]) < Place(got[c][j])
    BY DEF SentInOrder
  <2>1. /\ got[c][i] \in Range(appended) /\ got[c][j] \in Range(appended)
        /\ Rising(got[c], Ranks(c))
    BY ClientFacts DEF Fed, Complete, InOrder, Range
  <2>2. got[c][i] \in DOMAIN Ranks(c) /\ got[c][j] \in DOMAIN Ranks(c)
    BY <2>1 DEF Ranks
  <2>3. Ranks(c)[got[c][i]] < Ranks(c)[got[c][j]]
    BY <2>1, <2>2 DEF Rising
  <2>4. /\ Ranks(c)[got[c][i]] = Place(got[c][i])
        /\ Ranks(c)[got[c][j]] = Place(got[c][j])
    BY <2>1, <2>2 DEF Ranks, Positions
  <2> QED
    BY <2>3, <2>4
<1> QED
  BY <1>1, InitSend, StepSend, PTL DEF Spec
=============================================================================
