------------------------- MODULE StreamSlots_proofs --------------------------
(* Theorems about StreamSlots, however requests interleave: the types, and who *)
(* feeds a slot that no two of them have met on.                               *)
EXTENDS StreamSlots, TLAPS

(* The operations that loop over the slots.                                    *)
Sweeps == {"restart_all", "reload"}

AtSlot(w) == pc[w] \notin {"idle", "next"}

(* A worker past the loop of a sweep works on a slot.                          *)
TypeInv == TypeOK /\ \A w \in Worker : AtSlot(w) => slot[w] \in Slot

(* Nothing is captured through slot.reader.                                    *)
Quiet(s) == current[s] # None /\ Live(current[s]) => paused[current[s]]

(* Of the slots that no two requests have met on, those there are.             *)
Kept == registered \cup contended

(* What an operation works on is registered, as nobody else has dropped it.    *)
LoopInv(w) ==
  /\ AtSlot(w) => slot[w] \in Kept
  /\ todo[w] \subseteq Kept
  /\ todo[w] # {} => op[w] \in Sweeps
  /\ pc[w] = "idle" => op[w] = "none"
  /\ pc[w] \in {"check", "resume", "drop"} => op[w] \notin Sweeps

(* A reader that an operation has in hand is one that it told to stop, or one  *)
(* that it alone knows of yet.                                                 *)
HandInv(w) ==
  /\ hand[w] # None => pc[w] \in {"join", "clear", "publish"}
  /\ pc[w] \in {"join", "publish"} => hand[w] \in Reader
  /\ pc[w] \in {"join", "clear"} /\ hand[w] # None /\ Alive(hand[w]) => stopping[hand[w]]
  /\ pc[w] = "publish" =>
       /\ \A s \in Slot : current[s] # hand[w]
       /\ \A v \in Worker \ {w} : hand[v] # hand[w]
       /\ Alive(hand[w]) => owner[hand[w]] = slot[w]

(* What an operation has seen to still holds when it comes to rely on it.      *)
SeenInv(w) ==
  AtSlot(w) /\ slot[w] \notin contended =>
    /\ pc[w] \in {"join", "clear"} => hand[w] = current[slot[w]]
    /\ pc[w] = "drop" => current[slot[w]] = None
    /\ pc[w] \in {"resume", "spawn", "publish"} => Quiet(slot[w])

(* Two operations that publish a reader do so for two slots.                   *)
PublishInv(v, w) ==
  pc[v] = "publish" /\ pc[w] = "publish" /\ slot[v] = slot[w] =>
    slot[w] \in contended

(* A slot's reader feeds that slot; a source that is not there has none.       *)
SlotInv(s) ==
  /\ current[s] # None /\ Alive(current[s]) => owner[current[s]] = s
  /\ s \notin Kept => current[s] = None

(* A capture thread runs the callback of a slot.                               *)
OwnerInv(r) == Alive(r) => owner[r] \in Slot

FeedInv ==
  /\ TypeInv
  /\ \A w \in Worker : LoopInv(w) /\ HandInv(w) /\ SeenInv(w)
  /\ \A w \in Worker : \A v \in Worker \ {w} : PublishInv(v, w)
  /\ \A s \in Slot : SlotInv(s)
  /\ \A r \in Reader : OwnerInv(r)
  /\ LostReadersArePaused
-----------------------------------------------------------------------------
(* Types, with any number of requests at once.                                 *)

(* At the start there is no reader and no request.                             *)
LEMMA InitTyped == Init => TypeInv
BY DEF Init, TypeInv, TypeOK, AtSlot, Step, Operation

(* The threads keep the types,                                                 *)
LEMMA ThreadTyped ==
  ASSUME TypeInv, NEW r \in Reader, ThreadStep(r)
  PROVE  TypeInv'
BY DEF TypeInv, TypeOK, AtSlot, ThreadStep, OpenStream, BeginFrame, EndFrame, GiveUp,
       ExitLoop, EndThread, workerVars

(* and so do requests as they come,                                            *)
LEMMA RequestTyped ==
  ASSUME TypeInv, NEW w \in Worker, Request(w)
  PROVE  TypeInv'
<1>1. CASE \E s \in Slot : StartSource(w, s)
  BY <1>1 DEF TypeInv, TypeOK, AtSlot, StartSource, BeginOn, Goto, readerVars, Step, Operation
<1>2. CASE \E s \in Slot : RemoveSource(w, s)
  BY <1>2 DEF TypeInv, TypeOK, AtSlot, RemoveSource, BeginOn, Goto, readerVars, Step, Operation
<1>3. CASE \E s \in Slot : AddSource(w, s)
  BY <1>3 DEF TypeInv, TypeOK, AtSlot, AddSource, Register, BeginOn, Goto, readerVars, Step, Operation
<1>4. CASE Sweep(w)
  BY <1>4 DEF TypeInv, TypeOK, AtSlot, Sweep, Goto, readerVars, Step, Operation
<1> QED
  BY <1>1, <1>2, <1>3, <1>4 DEF Request

(* and as they go on,                                                          *)
LEMMA WorkerTyped ==
  ASSUME TypeInv, NEW w \in Worker, WorkerStep(w)
  PROVE  TypeInv'
<1> USE DEF TypeInv, TypeOK, AtSlot, Goto, Finish, readerVars, Step, Operation
<1>1. CASE CheckRunning(w)
  BY <1>1 DEF CheckRunning
<1>2. CASE Resume(w)
  BY <1>2 DEF Resume, CanResume, Contend
<1>3. CASE ResumeNot(w)
  BY <1>3 DEF ResumeNot, CanResume
<1>4. CASE \E s \in Slot : Visit(w, s)
  BY <1>4 DEF Visit
<1>5. CASE SweepDone(w)
  BY <1>5 DEF SweepDone
<1>6. CASE SignalStop(w)
  <2> DEFINE r == current[slot[w]]
  <2>1. AtSlot(w) /\ slot[w] \in Slot /\ r \in Reader \cup {None}
    BY <1>6 DEF SignalStop
  <2>2. CASE r = None
    BY <1>6, <2>1, <2>2 DEF SignalStop
  <2>3. CASE r # None
    <3>1. /\ stopping' = [stopping EXCEPT ![r] = Alive(r)] /\ Alive(r) \in BOOLEAN
          /\ paused' = [paused EXCEPT ![r] = FALSE]
          /\ hand' = [hand EXCEPT ![w] = r]
          /\ pc' = [pc EXCEPT ![w] = "join"]
          /\ UNCHANGED <<registered, current, contended, thread, owner, op, todo, slot>>
      BY <1>6, <2>3 DEF SignalStop, Alive
    <3> HIDE DEF r
    <3> QED
      BY <2>1, <2>3, <3>1
  <2> QED
    BY <2>2, <2>3
<1>7. CASE Join(w)
  BY <1>7 DEF Join
<1>8. CASE JoinTimeout(w)
  BY <1>8 DEF JoinTimeout
<1>9. CASE ClearReader(w)
  BY <1>9 DEF ClearReader, Contend
<1>10. CASE DropSlot(w)
  BY <1>10 DEF DropSlot
<1>11. CASE Spawn(w)
  BY <1>11 DEF Spawn, Free, Contend
<1>12. CASE Publish(w)
  BY <1>12 DEF Publish, Contend
<1> QED
  BY <1>1, <1>2, <1>3, <1>4, <1>5, <1>6, <1>7, <1>8, <1>9, <1>10, <1>11, <1>12 DEF WorkerStep

(* and every step.                                                             *)
LEMMA StepTyped ==
  ASSUME TypeInv, [Next]_vars
  PROVE  TypeInv'
<1>1. CASE \E r \in Reader : ThreadStep(r)
  BY <1>1, ThreadTyped
<1>2. CASE \E w \in Worker : Request(w) \/ WorkerStep(w)
  BY <1>2, RequestTyped, WorkerTyped
<1>3. CASE \E s \in Slot : PauseSource(s)
  BY <1>3 DEF TypeInv, TypeOK, AtSlot, PauseSource, workerVars
<1>4. CASE \E s \in Slot : AddUnstarted(s)
  BY <1>4 DEF TypeInv, TypeOK, AtSlot, AddUnstarted, Register, readerVars, workerVars
<1>5. CASE Reboot
  BY <1>5 DEF TypeInv, TypeOK, AtSlot, Reboot, Step, Operation
<1>6. CASE UNCHANGED vars
  BY <1>6 DEF TypeInv, TypeOK, AtSlot, vars, readerVars, workerVars
<1> QED
  BY <1>1, <1>2, <1>3, <1>4, <1>5, <1>6 DEF Next

(* The variables keep their types, with any number of requests under way.     *)
THEOREM TypeCorrect == Spec => []TypeOK
<1>1. TypeInv /\ [Next]_vars => TypeInv'
  BY StepTyped
<1>2. TypeInv => TypeOK
  BY DEF TypeInv
<1> QED
  BY <1>1, <1>2, InitTyped, PTL DEF Spec
-----------------------------------------------------------------------------
(* Who feeds a slot, with any number of requests at once.                      *)

(* At the start there is no reader and no request.                             *)
LEMMA InitFeed == Init => FeedInv
BY InitTyped DEF Init, FeedInv, LoopInv, Kept, Sweeps, HandInv, SeenInv, PublishInv, SlotInv,
   OwnerInv, AtSlot, Alive, LostReadersArePaused, Live

(* A step that hands nothing out and touches neither a reader nor slot.reader. *)
LEMMA Untouched ==
  ASSUME FeedInv, UNCHANGED <<registered, current, contended, readerVars, hand>>
  PROVE  /\ \A t \in Slot : SlotInv(t)'
         /\ \A q \in Reader : OwnerInv(q)'
         /\ LostReadersArePaused'
BY DEF FeedInv, readerVars, Kept, SlotInv, OwnerInv, LostReadersArePaused, Live, Owned, Alive

(* Capture threads keep what the requests rely on,                             *)
LEMMA ThreadFeed ==
  ASSUME FeedInv, NEW r \in Reader, ThreadStep(r)
  PROVE  FeedInv'
<1>0. TypeInv'
  BY ThreadTyped DEF FeedInv
<1> USE SlotsAssumption DEF FeedInv, TypeInv, TypeOK, workerVars
<1>1. CASE OpenStream(r) \/ BeginFrame(r) \/ EndFrame(r)
  <2>1. \A v \in Worker : LoopInv(v)'
    BY <1>1 DEF OpenStream, BeginFrame, EndFrame, LoopInv, Kept, AtSlot, Sweeps
  <2>2. \A v \in Worker : HandInv(v)'
    BY <1>1 DEF OpenStream, BeginFrame, EndFrame, HandInv, Alive
  <2>3. \A v \in Worker : SeenInv(v)'
    BY <1>1 DEF OpenStream, BeginFrame, EndFrame, SeenInv, AtSlot, Quiet, Live,
       Alive
  <2>4. \A v \in Worker : \A x \in Worker \ {v} : PublishInv(x, v)'
    BY <1>1 DEF OpenStream, BeginFrame, EndFrame, PublishInv
  <2>5. \A t \in Slot : SlotInv(t)'
    BY <1>1 DEF OpenStream, BeginFrame, EndFrame, SlotInv, Kept, Alive
  <2>6. \A q \in Reader : OwnerInv(q)'
    BY <1>1 DEF OpenStream, BeginFrame, EndFrame, OwnerInv, Alive
  <2>7. LostReadersArePaused'
    BY <1>1 DEF OpenStream, BeginFrame, EndFrame, LostReadersArePaused, Live,
       Owned, Alive
  <2> QED
    BY <1>0, <2>1, <2>2, <2>3, <2>4, <2>5, <2>6, <2>7
<1>2. CASE GiveUp(r) \/ ExitLoop(r)
  <2>1. \A v \in Worker : LoopInv(v)'
    BY <1>2 DEF GiveUp, ExitLoop, EndThread, LoopInv, Kept, AtSlot, Sweeps
  <2>2. \A v \in Worker : HandInv(v)'
    BY <1>2 DEF GiveUp, ExitLoop, EndThread, HandInv, Alive
  <2>3. \A v \in Worker : SeenInv(v)'
    BY <1>2 DEF GiveUp, ExitLoop, EndThread, SeenInv, AtSlot, Quiet, Live,
       Alive
  <2>4. \A v \in Worker : \A x \in Worker \ {v} : PublishInv(x, v)'
    BY <1>2 DEF GiveUp, ExitLoop, EndThread, PublishInv
  <2>5. \A t \in Slot : SlotInv(t)'
    BY <1>2 DEF GiveUp, ExitLoop, EndThread, SlotInv, Kept, Alive
  <2>6. \A q \in Reader : OwnerInv(q)'
    BY <1>2 DEF GiveUp, ExitLoop, EndThread, OwnerInv, Alive
  <2>7. LostReadersArePaused'
    BY <1>2 DEF GiveUp, ExitLoop, EndThread, LostReadersArePaused, Live, Owned,
       Alive
  <2> QED
    BY <1>0, <2>1, <2>2, <2>3, <2>4, <2>5, <2>6, <2>7
<1> QED
  BY <1>1, <1>2 DEF ThreadStep

(* so does a request that comes, whatever others are under way,                *)
LEMMA RequestFeed ==
  ASSUME FeedInv, NEW w \in Worker, Request(w)
  PROVE  FeedInv'
<1>0. TypeInv'
  BY RequestTyped DEF FeedInv
<1> USE SlotsAssumption DEF FeedInv, TypeInv, TypeOK, Goto, readerVars
<1>1. CASE \E s \in Slot : StartSource(w, s) \/ RemoveSource(w, s)
  <2>1. \A v \in Worker : LoopInv(v)'
    BY <1>1 DEF StartSource, RemoveSource, BeginOn, LoopInv, Kept, AtSlot,
       Sweeps
  <2>2. \A v \in Worker : HandInv(v)'
    BY <1>1 DEF StartSource, RemoveSource, BeginOn, HandInv, Alive
  <2>3. \A v \in Worker : SeenInv(v)'
    BY <1>1 DEF StartSource, RemoveSource, BeginOn, SeenInv, AtSlot, Quiet,
       Live, Alive
  <2>4. \A v \in Worker : \A x \in Worker \ {v} : PublishInv(x, v)'
    BY <1>1 DEF StartSource, RemoveSource, BeginOn, PublishInv
  <2>5. UNCHANGED <<registered, current, contended, readerVars, hand>>
    BY <1>1 DEF StartSource, RemoveSource, BeginOn
  <2> QED
    BY <1>0, <2>1, <2>2, <2>3, <2>4, <2>5, Untouched
<1>2. CASE \E s \in Slot : AddSource(w, s)
  <2>1. \A v \in Worker : LoopInv(v)'
    BY <1>2 DEF AddSource, Register, BeginOn, LoopInv, Kept, AtSlot, Sweeps
  <2>2. \A v \in Worker : HandInv(v)'
    BY <1>2 DEF AddSource, Register, BeginOn, HandInv, Alive
  <2>3. \A v \in Worker : SeenInv(v)'
    BY <1>2 DEF AddSource, Register, BeginOn, SeenInv, AtSlot, Quiet, Live,
       Alive
  <2>4. \A v \in Worker : \A x \in Worker \ {v} : PublishInv(x, v)'
    BY <1>2 DEF AddSource, Register, BeginOn, PublishInv
  <2>5. \A t \in Slot : SlotInv(t)'
    BY <1>2 DEF AddSource, Register, BeginOn, SlotInv, Kept, Alive, HandInv
  <2>6. \A q \in Reader : OwnerInv(q)'
    BY <1>2 DEF AddSource, Register, BeginOn, OwnerInv, Alive
  <2>7. LostReadersArePaused'
    BY <1>2 DEF AddSource, Register, BeginOn, LostReadersArePaused, Live,
       Owned, Alive, HandInv
  <2> QED
    BY <1>0, <2>1, <2>2, <2>3, <2>4, <2>5, <2>6, <2>7
<1>3. CASE Sweep(w)
  <2>1. \A v \in Worker : LoopInv(v)'
    BY <1>3 DEF Sweep, LoopInv, Kept, AtSlot, Sweeps
  <2>2. \A v \in Worker : HandInv(v)'
    BY <1>3 DEF Sweep, HandInv, Alive
  <2>3. \A v \in Worker : SeenInv(v)'
    BY <1>3 DEF Sweep, SeenInv, AtSlot, Quiet, Live, Alive
  <2>4. \A v \in Worker : \A x \in Worker \ {v} : PublishInv(x, v)'
    BY <1>3 DEF Sweep, PublishInv
  <2>5. UNCHANGED <<registered, current, contended, readerVars, hand>>
    BY <1>3 DEF Sweep
  <2> QED
    BY <1>0, <2>1, <2>2, <2>3, <2>4, <2>5, Untouched
<1> QED
  BY <1>1, <1>2, <1>3 DEF Request

(* and one that goes on.                                                       *)
LEMMA WorkerFeed ==
  ASSUME FeedInv, NEW w \in Worker, WorkerStep(w)
  PROVE  FeedInv'
<1>0. TypeInv'
  BY WorkerTyped DEF FeedInv
<1> USE SlotsAssumption DEF FeedInv, TypeInv, TypeOK, Goto, readerVars
<1>1. CASE CheckRunning(w)
  <2>1. \A v \in Worker : LoopInv(v)'
    BY <1>1 DEF CheckRunning, Finish, LoopInv, Kept, AtSlot, Sweeps
  <2>2. \A v \in Worker : HandInv(v)'
    BY <1>1 DEF CheckRunning, Finish, HandInv, Alive
  <2>3. \A v \in Worker : SeenInv(v)'
    BY <1>1 DEF CheckRunning, Finish, SeenInv, AtSlot, Quiet, Live, Alive,
       IsRunning
  <2>4. \A v \in Worker : \A x \in Worker \ {v} : PublishInv(x, v)'
    BY <1>1 DEF CheckRunning, Finish, PublishInv
  <2>5. UNCHANGED <<registered, current, contended, readerVars, hand>>
    BY <1>1 DEF CheckRunning, Finish
  <2> QED
    BY <1>0, <2>1, <2>2, <2>3, <2>4, <2>5, Untouched
<1>2. CASE Resume(w)
  <2>1. \A v \in Worker : LoopInv(v)'
    BY <1>2 DEF Resume, Finish, Contend, Committed, LoopInv, Kept, AtSlot,
       Sweeps
  <2>2. \A v \in Worker : HandInv(v)'
    BY <1>2 DEF Resume, Finish, Contend, Committed, HandInv, Alive
  <2>3. \A v \in Worker : SeenInv(v)'
    BY <1>2 DEF Resume, Finish, Contend, Committed, SeenInv, AtSlot, Quiet,
       Live, Alive, SlotInv
  <2>4. \A v \in Worker : \A x \in Worker \ {v} : PublishInv(x, v)'
    BY <1>2 DEF Resume, Finish, Contend, Committed, PublishInv
  <2>5. \A t \in Slot : SlotInv(t)'
    BY <1>2 DEF Resume, Finish, Contend, Committed, SlotInv, Kept, Alive
  <2>6. \A q \in Reader : OwnerInv(q)'
    BY <1>2 DEF Resume, Finish, Contend, Committed, OwnerInv, Alive
  <2>7. LostReadersArePaused'
    BY <1>2 DEF Resume, Finish, Contend, Committed, LostReadersArePaused, Live,
       Owned, Alive, SlotInv, AtSlot
  <2> QED
    BY <1>0, <2>1, <2>2, <2>3, <2>4, <2>5, <2>6, <2>7
<1>3. CASE ResumeNot(w)
  <2>1. \A v \in Worker : LoopInv(v)'
    BY <1>3 DEF ResumeNot, LoopInv, Kept, AtSlot, Sweeps
  <2>2. \A v \in Worker : HandInv(v)'
    BY <1>3 DEF ResumeNot, HandInv, Alive
  <2>3. \A v \in Worker : SeenInv(v)'
    BY <1>3 DEF ResumeNot, SeenInv, AtSlot, Quiet, Live, Alive
  <2>4. \A v \in Worker : \A x \in Worker \ {v} : PublishInv(x, v)'
    BY <1>3 DEF ResumeNot, PublishInv
  <2>5. UNCHANGED <<registered, current, contended, readerVars, hand>>
    BY <1>3 DEF ResumeNot
  <2> QED
    BY <1>0, <2>1, <2>2, <2>3, <2>4, <2>5, Untouched
<1>4. CASE \E s \in Slot : Visit(w, s)
  <2>1. \A v \in Worker : LoopInv(v)'
    BY <1>4 DEF Visit, LoopInv, Kept, AtSlot, Sweeps
  <2>2. \A v \in Worker : HandInv(v)'
    BY <1>4 DEF Visit, HandInv, Alive
  <2>3. \A v \in Worker : SeenInv(v)'
    BY <1>4 DEF Visit, SeenInv, AtSlot, Quiet, Live, Alive, IsRunning
  <2>4. \A v \in Worker : \A x \in Worker \ {v} : PublishInv(x, v)'
    BY <1>4 DEF Visit, PublishInv
  <2>5. UNCHANGED <<registered, current, contended, readerVars, hand>>
    BY <1>4 DEF Visit
  <2> QED
    BY <1>0, <2>1, <2>2, <2>3, <2>4, <2>5, Untouched
<1>5. CASE SweepDone(w)
  <2>1. \A v \in Worker : LoopInv(v)'
    BY <1>5 DEF SweepDone, Finish, LoopInv, Kept, AtSlot, Sweeps
  <2>2. \A v \in Worker : HandInv(v)'
    BY <1>5 DEF SweepDone, Finish, HandInv, Alive
  <2>3. \A v \in Worker : SeenInv(v)'
    BY <1>5 DEF SweepDone, Finish, SeenInv, AtSlot, Quiet, Live, Alive
  <2>4. \A v \in Worker : \A x \in Worker \ {v} : PublishInv(x, v)'
    BY <1>5 DEF SweepDone, Finish, PublishInv
  <2>5. UNCHANGED <<registered, current, contended, readerVars, hand>>
    BY <1>5 DEF SweepDone, Finish
  <2> QED
    BY <1>0, <2>1, <2>2, <2>3, <2>4, <2>5, Untouched
<1>6. CASE SignalStop(w)
  <2>1. \A v \in Worker : LoopInv(v)'
    BY <1>6 DEF SignalStop, LoopInv, Kept, AtSlot, Sweeps
  <2>2. \A v \in Worker : HandInv(v)'
    <3> DEFINE r == current[slot[w]]
    <3>1. CASE r = None
      BY <1>6, <3>1 DEF SignalStop, HandInv, Alive
    <3>2. CASE r # None
      <4>1. /\ r \in Reader /\ w \in Worker
            /\ UNCHANGED <<current, thread, owner, slot>>
            /\ pc' = [pc EXCEPT ![w] = "join"]
            /\ hand' = [hand EXCEPT ![w] = r]
            /\ stopping' = [stopping EXCEPT ![r] = Alive(r)]
        BY <1>6, <3>2 DEF SignalStop, AtSlot
      <4>2. \A v \in Worker \ {w} : pc[v] = "publish" => hand[v] # r
        BY <1>6 DEF SignalStop, HandInv, AtSlot
      <4> HIDE DEF r
      <4>3. HandInv(w)'
        BY <3>2, <4>1 DEF HandInv, Alive
      <4>4. ASSUME NEW v \in Worker, v # w  PROVE HandInv(v)'
        BY <3>2, <4>1, <4>2, <4>4 DEF HandInv, Alive
      <4> QED
        BY <4>3, <4>4
    <3> QED
      BY <3>1, <3>2
  <2>3. \A v \in Worker : SeenInv(v)'
    <3> DEFINE r == current[slot[w]]
    <3>1. CASE r = None
      BY <1>6, <3>1 DEF SignalStop, HandInv, SeenInv, AtSlot, Quiet, Live, Alive
    <3>2. CASE r # None
      <4>1. /\ r \in Reader /\ w \in Worker
            /\ UNCHANGED <<current, contended, thread, slot>>
            /\ pc' = [pc EXCEPT ![w] = "join"]
            /\ hand' = [hand EXCEPT ![w] = r]
            /\ stopping' = [stopping EXCEPT ![r] = Alive(r)]
            /\ paused' = [paused EXCEPT ![r] = FALSE]
        BY <1>6, <3>2 DEF SignalStop, AtSlot
      <4>2. SeenInv(w)'
        BY <4>1 DEF SeenInv
      <4> HIDE DEF r
      <4>3. ASSUME NEW v \in Worker, v # w  PROVE SeenInv(v)'
        BY <4>1, <4>3 DEF SeenInv, AtSlot, Quiet, Live, Alive
      <4> QED
        BY <4>2, <4>3
    <3> QED
      BY <3>1, <3>2
  <2>4. \A v \in Worker : \A x \in Worker \ {v} : PublishInv(x, v)'
    BY <1>6 DEF SignalStop, PublishInv
  <2>5. \A t \in Slot : SlotInv(t)'
    BY <1>6 DEF SignalStop, SlotInv, Kept, Alive
  <2>6. \A q \in Reader : OwnerInv(q)'
    BY <1>6 DEF SignalStop, OwnerInv, Alive
  <2>7. LostReadersArePaused'
    BY <1>6 DEF SignalStop, LostReadersArePaused, Live, Owned, Alive, HandInv
  <2> QED
    BY <1>0, <2>1, <2>2, <2>3, <2>4, <2>5, <2>6, <2>7
<1>7. CASE Join(w)
  <2>1. \A v \in Worker : LoopInv(v)'
    BY <1>7 DEF Join, LoopInv, Kept, AtSlot, Sweeps
  <2>2. \A v \in Worker : HandInv(v)'
    BY <1>7 DEF Join, HandInv, Alive
  <2>3. \A v \in Worker : SeenInv(v)'
    BY <1>7 DEF Join, SeenInv, AtSlot, Quiet, Live, Alive
  <2>4. \A v \in Worker : \A x \in Worker \ {v} : PublishInv(x, v)'
    BY <1>7 DEF Join, PublishInv
  <2>5. UNCHANGED <<registered, current, contended, readerVars, hand>>
    BY <1>7 DEF Join
  <2> QED
    BY <1>0, <2>1, <2>2, <2>3, <2>4, <2>5, Untouched
<1>8. CASE JoinTimeout(w)
  <2>1. \A v \in Worker : LoopInv(v)'
    BY <1>8 DEF JoinTimeout, LoopInv, Kept, AtSlot, Sweeps
  <2>2. \A v \in Worker : HandInv(v)'
    BY <1>8 DEF JoinTimeout, HandInv, Alive
  <2>3. \A v \in Worker : SeenInv(v)'
    BY <1>8 DEF JoinTimeout, SeenInv, AtSlot, Quiet, Live, Alive
  <2>4. \A v \in Worker : \A x \in Worker \ {v} : PublishInv(x, v)'
    BY <1>8 DEF JoinTimeout, PublishInv
  <2>5. UNCHANGED <<registered, current, contended, readerVars, hand>>
    BY <1>8 DEF JoinTimeout
  <2> QED
    BY <1>0, <2>1, <2>2, <2>3, <2>4, <2>5, Untouched
<1>9. CASE ClearReader(w)
  <2>1. \A v \in Worker : LoopInv(v)'
    BY <1>9 DEF ClearReader, Contend, Committed, LoopInv, Kept, AtSlot, Sweeps
  <2>2. \A v \in Worker : HandInv(v)'
    BY <1>9 DEF ClearReader, Contend, Committed, HandInv, Alive
  <2>3. \A v \in Worker : SeenInv(v)'
    BY <1>9 DEF ClearReader, Contend, Committed, SeenInv, AtSlot, Quiet, Live,
       Alive
  <2>4. \A v \in Worker : \A x \in Worker \ {v} : PublishInv(x, v)'
    BY <1>9 DEF ClearReader, Contend, Committed, PublishInv
  <2>5. \A t \in Slot : SlotInv(t)'
    BY <1>9 DEF ClearReader, Contend, Committed, SlotInv, Kept, Alive
  <2>6. \A q \in Reader : OwnerInv(q)'
    BY <1>9 DEF ClearReader, Contend, Committed, OwnerInv, Alive
  <2>7. LostReadersArePaused'
    BY <1>9 DEF ClearReader, Contend, Committed, LostReadersArePaused, Live,
       Owned, Alive, HandInv, SeenInv, AtSlot
  <2> QED
    BY <1>0, <2>1, <2>2, <2>3, <2>4, <2>5, <2>6, <2>7
<1>10. CASE DropSlot(w)
  <2>1. \A v \in Worker : LoopInv(v)'
    BY <1>10 DEF DropSlot, Finish, LoopInv, Kept, AtSlot, Sweeps
  <2>2. \A v \in Worker : HandInv(v)'
    BY <1>10 DEF DropSlot, Finish, HandInv, Alive
  <2>3. \A v \in Worker : SeenInv(v)'
    BY <1>10 DEF DropSlot, Finish, SeenInv, AtSlot, Quiet, Live, Alive
  <2>4. \A v \in Worker : \A x \in Worker \ {v} : PublishInv(x, v)'
    BY <1>10 DEF DropSlot, Finish, PublishInv
  <2>5. \A t \in Slot : SlotInv(t)'
    BY <1>10 DEF DropSlot, Finish, SlotInv, Kept, Alive, SeenInv, AtSlot
  <2>6. \A q \in Reader : OwnerInv(q)'
    BY <1>10 DEF DropSlot, Finish, OwnerInv, Alive
  <2>7. LostReadersArePaused'
    BY <1>10 DEF DropSlot, Finish, LostReadersArePaused, Live, Owned, Alive,
       HandInv
  <2> QED
    BY <1>0, <2>1, <2>2, <2>3, <2>4, <2>5, <2>6, <2>7
<1>11. CASE Spawn(w)
  <2>1. \A v \in Worker : LoopInv(v)'
    BY <1>11 DEF Spawn, Free, Contend, Committed, LoopInv, Kept, AtSlot, Sweeps
  <2>2. \A v \in Worker : HandInv(v)'
    BY <1>11 DEF Spawn, Free, Contend, Committed, HandInv, Alive
  <2>3. \A v \in Worker : SeenInv(v)'
    BY <1>11 DEF Spawn, Free, Contend, Committed, SeenInv, AtSlot, Quiet, Live,
       Alive
  <2>4. \A v \in Worker : \A x \in Worker \ {v} : PublishInv(x, v)'
    BY <1>11 DEF Spawn, Free, Contend, Committed, PublishInv
  <2>5. \A t \in Slot : SlotInv(t)'
    BY <1>11 DEF Spawn, Free, Contend, Committed, SlotInv, Kept, Alive
  <2>6. \A q \in Reader : OwnerInv(q)'
    BY <1>11 DEF Spawn, Free, Contend, Committed, OwnerInv, Alive, AtSlot
  <2>7. LostReadersArePaused'
    BY <1>11 DEF Spawn, Free, Contend, Committed, LostReadersArePaused, Live,
       Owned, Alive, HandInv
  <2> QED
    BY <1>0, <2>1, <2>2, <2>3, <2>4, <2>5, <2>6, <2>7
<1>12. CASE Publish(w)
  <2>1. \A v \in Worker : LoopInv(v)'
    BY <1>12 DEF Publish, Contend, Committed, LoopInv, Kept, AtSlot, Sweeps
  <2>2. \A v \in Worker : HandInv(v)'
    BY <1>12 DEF Publish, Contend, Committed, HandInv, Alive
  <2>3. \A v \in Worker : SeenInv(v)'
    BY <1>12 DEF Publish, Contend, Committed, SeenInv, AtSlot, Quiet, Live,
       Alive, HandInv
  <2>4. \A v \in Worker : \A x \in Worker \ {v} : PublishInv(x, v)'
    BY <1>12 DEF Publish, Contend, Committed, PublishInv
  <2>5. \A t \in Slot : SlotInv(t)'
    BY <1>12 DEF Publish, Contend, Committed, SlotInv, Kept, Alive, HandInv,
       LoopInv, AtSlot
  <2>6. \A q \in Reader : OwnerInv(q)'
    BY <1>12 DEF Publish, Contend, Committed, OwnerInv, Alive
  <2>7. LostReadersArePaused'
    BY <1>12 DEF Publish, Contend, Committed, LostReadersArePaused, Live,
       Owned, Alive, HandInv, SeenInv, AtSlot, Quiet
  <2> QED
    BY <1>0, <2>1, <2>2, <2>3, <2>4, <2>5, <2>6, <2>7
<1> QED
  BY <1>1, <1>2, <1>3, <1>4, <1>5, <1>6, <1>7, <1>8, <1>9, <1>10, <1>11, <1>12
     DEF WorkerStep

(* Every step keeps what the requests rely on.                                 *)
LEMMA StepFeed ==
  ASSUME FeedInv, [Next]_vars
  PROVE  FeedInv'
<1>0. TypeInv'
  BY StepTyped DEF FeedInv
<1> USE SlotsAssumption DEF FeedInv, TypeInv, TypeOK
<1>1. CASE \E r \in Reader : ThreadStep(r)
  BY <1>1, ThreadFeed
<1>2. CASE \E w \in Worker : Request(w) \/ WorkerStep(w)
  BY <1>2, RequestFeed, WorkerFeed
<1>3. CASE \E s \in Slot : PauseSource(s)
  <2>1. \A v \in Worker : LoopInv(v)'
    BY <1>3 DEF PauseSource, workerVars, LoopInv, Kept, AtSlot, Sweeps
  <2>2. \A v \in Worker : HandInv(v)'
    BY <1>3 DEF PauseSource, workerVars, HandInv, Alive
  <2>3. \A v \in Worker : SeenInv(v)'
    BY <1>3 DEF PauseSource, workerVars, SeenInv, AtSlot, Quiet, Live, Alive
  <2>4. \A v \in Worker : \A x \in Worker \ {v} : PublishInv(x, v)'
    BY <1>3 DEF PauseSource, workerVars, PublishInv
  <2>5. \A t \in Slot : SlotInv(t)'
    BY <1>3 DEF PauseSource, workerVars, SlotInv, Kept, Alive
  <2>6. \A q \in Reader : OwnerInv(q)'
    BY <1>3 DEF PauseSource, workerVars, OwnerInv, Alive
  <2>7. LostReadersArePaused'
    BY <1>3 DEF PauseSource, workerVars, LostReadersArePaused, Live, Owned,
       Alive
  <2> QED
    BY <1>0, <2>1, <2>2, <2>3, <2>4, <2>5, <2>6, <2>7
<1>4. CASE \E s \in Slot : AddUnstarted(s)
  <2>1. \A v \in Worker : LoopInv(v)'
    BY <1>4 DEF AddUnstarted, Register, readerVars, workerVars, LoopInv, Kept,
       AtSlot, Sweeps
  <2>2. \A v \in Worker : HandInv(v)'
    BY <1>4 DEF AddUnstarted, Register, readerVars, workerVars, HandInv, Alive
  <2>3. \A v \in Worker : SeenInv(v)'
    BY <1>4 DEF AddUnstarted, Register, readerVars, workerVars, SeenInv,
       AtSlot, Quiet, Live, Alive
  <2>4. \A v \in Worker : \A x \in Worker \ {v} : PublishInv(x, v)'
    BY <1>4 DEF AddUnstarted, Register, readerVars, workerVars, PublishInv
  <2>5. \A t \in Slot : SlotInv(t)'
    BY <1>4 DEF AddUnstarted, Register, readerVars, workerVars, SlotInv, Kept,
       Alive
  <2>6. \A q \in Reader : OwnerInv(q)'
    BY <1>4 DEF AddUnstarted, Register, readerVars, workerVars, OwnerInv, Alive
  <2>7. LostReadersArePaused'
    BY <1>4 DEF AddUnstarted, Register, readerVars, workerVars,
       LostReadersArePaused, Live, Owned, Alive, HandInv
  <2> QED
    BY <1>0, <2>1, <2>2, <2>3, <2>4, <2>5, <2>6, <2>7
<1>5. CASE Reboot
  <2>1. \A v \in Worker : LoopInv(v)'
    BY <1>5 DEF Reboot, LoopInv, Kept, AtSlot, Sweeps
  <2>2. \A v \in Worker : HandInv(v)'
    BY <1>5 DEF Reboot, HandInv, Alive
  <2>3. \A v \in Worker : SeenInv(v)'
    BY <1>5 DEF Reboot, SeenInv, AtSlot, Quiet, Live, Alive
  <2>4. \A v \in Worker : \A x \in Worker \ {v} : PublishInv(x, v)'
    BY <1>5 DEF Reboot, PublishInv
  <2>5. \A t \in Slot : SlotInv(t)'
    BY <1>5 DEF Reboot, SlotInv, Kept, Alive
  <2>6. \A q \in Reader : OwnerInv(q)'
    BY <1>5 DEF Reboot, OwnerInv, Alive
  <2>7. LostReadersArePaused'
    BY <1>5 DEF Reboot, LostReadersArePaused, Live, Owned, Alive
  <2> QED
    BY <1>0, <2>1, <2>2, <2>3, <2>4, <2>5, <2>6, <2>7
<1>6. CASE UNCHANGED vars
  <2>1. \A v \in Worker : LoopInv(v)'
    BY <1>6 DEF vars, readerVars, workerVars, LoopInv, Kept, AtSlot, Sweeps
  <2>2. \A v \in Worker : HandInv(v)'
    BY <1>6 DEF vars, readerVars, workerVars, HandInv, Alive
  <2>3. \A v \in Worker : SeenInv(v)'
    BY <1>6 DEF vars, readerVars, workerVars, SeenInv, AtSlot, Quiet, Live,
       Alive
  <2>4. \A v \in Worker : \A x \in Worker \ {v} : PublishInv(x, v)'
    BY <1>6 DEF vars, readerVars, workerVars, PublishInv
  <2>5. UNCHANGED <<registered, current, contended, readerVars, hand>>
    BY <1>6 DEF vars, readerVars, workerVars
  <2> QED
    BY <1>0, <2>1, <2>2, <2>3, <2>4, <2>5, Untouched
<1> QED
  BY <1>1, <1>2, <1>3, <1>4, <1>5, <1>6 DEF Next

(* The inductive invariant of the requests.                                    *)
LEMMA Fed == Spec => []FeedInv
<1>1. FeedInv /\ [Next]_vars => FeedInv'
  BY StepFeed
<1> QED
  BY <1>1, InitFeed, PTL DEF Spec

(* However many slots, readers and requests there are: two unpaused readers    *)
(* feed one slot only where a request changed it while another went by what it *)
(* had read of it.  (Of two readers that feed it, each is in the slot or in    *)
(* the hand of a worker about to put it there; the one in the slot is quiet    *)
(* while another is in hand, and of two in hand the second start was told of   *)
(* by Contend.)                                                                *)
THEOREM OneFeederPerSlot == Spec => []OneFeeder
<1>1. FeedInv => OneFeeder
  <2>1. SUFFICES ASSUME FeedInv, NEW a \in Reader, NEW b \in Reader, a # b,
                        Live(a), Live(b), owner[a] = owner[b],
                        owner[a] \notin contended, ~paused[a], ~paused[b]
                 PROVE  FALSE
    BY DEF OneFeeder
  <2>2. owner[a] \in Slot /\ Owned(a) /\ Owned(b)
    BY <2>1 DEF FeedInv, OwnerInv, LostReadersArePaused, Live
  <2>3. \A q \in {a, b} : \A w \in Worker : hand[w] = q =>
           pc[w] = "publish" /\ slot[w] = owner[a]
    BY <2>1, SlotsAssumption DEF FeedInv, HandInv, Live
  <2>4. \A w \in Worker : pc[w] = "publish" /\ slot[w] = owner[a] =>
           Quiet(owner[a])
    BY <2>1 DEF FeedInv, SeenInv, AtSlot
  <2>5. \A v, w \in Worker : hand[v] = a /\ hand[w] = b => FALSE
    BY <2>1, <2>3 DEF FeedInv, PublishInv
  <2> QED
    BY <2>1, <2>2, <2>3, <2>4, <2>5, SlotsAssumption DEF Owned, Quiet
<1> QED
  BY <1>1, Fed, PTL

(* However many requests there are, a capture thread is out of reach of stop   *)
(* and pause only if it is paused or two requests met on its slot: otherwise   *)
(* overwriting slot.reader leaves nothing behind that captures.                *)
THEOREM LostReadersRest == Spec => []LostReadersArePaused
<1>1. FeedInv => LostReadersArePaused
  BY DEF FeedInv
<1> QED
  BY <1>1, Fed, PTL

(* However many requests there are, a source that was removed captures nothing *)
(* unless another request was on its way to it.                                *)
THEOREM RemovedIsQuiet == Spec => []RemovedSourceIsQuiet
<1>1. FeedInv => RemovedSourceIsQuiet
  <2>1. SUFFICES ASSUME FeedInv, NEW r \in Reader, Live(r), owner[r] \notin Kept,
                        ~paused[r]
                 PROVE  FALSE
    BY DEF RemovedSourceIsQuiet, Kept
  <2>2. owner[r] \in Slot /\ Owned(r) /\ current[owner[r]] = None
    BY <2>1 DEF FeedInv, OwnerInv, SlotInv, LostReadersArePaused, Live, Kept
  <2>3. \A w \in Worker : hand[w] = r => pc[w] = "publish" /\ slot[w] = owner[r]
    BY <2>1, SlotsAssumption DEF FeedInv, HandInv, Live
  <2>4. \A w \in Worker : pc[w] = "publish" => slot[w] \in Kept
    BY <2>1 DEF FeedInv, LoopInv, AtSlot
  <2> QED
    BY <2>1, <2>2, <2>3, <2>4, SlotsAssumption DEF Owned
<1> QED
  BY <1>1, Fed, PTL
==============================================================================
