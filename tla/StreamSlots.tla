----------------------------- MODULE StreamSlots -----------------------------
(* The life of the capture threads: StreamReader (core/stream.py), the slots   *)
(* that hold one each, and the code of server.py that starts, pauses, resumes, *)
(* restarts and removes them.  The handlers are plain functions, which FastAPI *)
(* runs on a thread pool, and a settings change restarts slots on threads of   *)
(* its own; no lock orders them.  One step here is one access to slot.reader   *)
(* or to state.slots.                                                          *)
EXTENDS Integers, FiniteSets

CONSTANTS Slot,     \* StreamSlot objects
          Reader,   \* bound: StreamReader objects in use at once
          Worker,   \* threads that run a handler or a restart loop
          None

ASSUME SlotsAssumption == /\ None \notin Reader \cup Slot
                          /\ IsFiniteSet(Reader)
                          /\ IsFiniteSet(Slot)
                          /\ IsFiniteSet(Worker)

VARIABLES registered,  \* the slots in state.slots
          current,     \* slot.reader
          thread,      \* where a reader's capture thread is
          stopping,    \* reader._stop
          paused,      \* reader._paused
          owner,       \* the slot whose callback a reader runs
          pc,          \* the next step of a worker
          op,          \* the operation it carries out
          todo,        \* the slots its loop has still to visit
          slot,        \* the slot it works on
          hand,        \* the reader in its local variable
          contended    \* history: the slots two requests have worked on at once

readerVars == <<thread, stopping, paused, owner>>
workerVars == <<pc, op, todo, slot, hand>>
vars == <<registered, current, contended, readerVars, workerVars>>

Operation == {"none", "start", "add", "remove", "restart_all", "reload"}
Step == {"idle", "next", "check", "resume", "stop", "join", "clear",
         "spawn", "publish", "drop"}

TypeOK ==
  /\ registered \subseteq Slot
  /\ current \in [Slot -> Reader \cup {None}]
  /\ thread \in [Reader -> {"opening", "looping", "frame", "dead"}]
  /\ stopping \in [Reader -> BOOLEAN]
  /\ paused \in [Reader -> BOOLEAN]
  /\ owner \in [Reader -> Slot \cup {None}]
  /\ pc \in [Worker -> Step]
  /\ op \in [Worker -> Operation]
  /\ todo \in [Worker -> SUBSET Slot]
  /\ slot \in [Worker -> Slot \cup {None}]
  /\ hand \in [Worker -> Reader \cup {None}]
  /\ contended \subseteq Slot

(* The configured sources have a slot each; the other slots are added later.   *)
Init ==
  /\ registered \in SUBSET Slot
  /\ current = [s \in Slot |-> None]
  /\ thread = [r \in Reader |-> "dead"]
  /\ stopping = [r \in Reader |-> FALSE]
  /\ paused = [r \in Reader |-> FALSE]
  /\ owner = [r \in Reader |-> None]
  /\ pc = [w \in Worker |-> "idle"]
  /\ op = [w \in Worker |-> "none"]
  /\ todo = [w \in Worker |-> {}]
  /\ slot = [w \in Worker |-> None]
  /\ hand = [w \in Worker |-> None]
  /\ contended = {}

Alive(r) == thread[r] # "dead"

(* A reader object nothing refers to any more stands for a new one.            *)
Free == {r \in Reader : /\ ~Alive(r)
                        /\ \A s \in Slot : current[s] # r
                        /\ \A w \in Worker : hand[w] # r}

IsRunning(s) == LET r == current[s]
                IN r # None /\ Alive(r) /\ ~paused[r]
-----------------------------------------------------------------------------
(* The capture thread: _loop() *)

OpenStream(r) ==
  /\ thread[r] = "opening"
  /\ thread' = [thread EXCEPT ![r] = "looping"]
  /\ UNCHANGED <<registered, current, contended, stopping, paused, owner, workerVars>>

(* Past both gates: one read and, every step-th frame, one call of on_frame.   *)
BeginFrame(r) ==
  /\ thread[r] = "looping"
  /\ ~stopping[r]
  /\ ~paused[r]
  /\ thread' = [thread EXCEPT ![r] = "frame"]
  /\ UNCHANGED <<registered, current, contended, stopping, paused, owner, workerVars>>

EndFrame(r) ==
  /\ thread[r] = "frame"
  /\ thread' = [thread EXCEPT ![r] = "looping"]
  /\ UNCHANGED <<registered, current, contended, stopping, paused, owner, workerVars>>

(* Nothing looks at the stop event or the callback of a thread that has ended: *)
(* the model clears them.  The pause gate may still be looked at.              *)
EndThread(r) ==
  /\ thread' = [thread EXCEPT ![r] = "dead"]
  /\ stopping' = [stopping EXCEPT ![r] = FALSE]
  /\ owner' = [owner EXCEPT ![r] = None]
  /\ UNCHANGED <<registered, current, contended, paused, workerVars>>

(* The source does not open, or 50 reads in a row have failed.                 *)
GiveUp(r) ==
  /\ thread[r] \in {"opening", "frame"}
  /\ EndThread(r)

(* Mistake: the pause gate is looked at before the stop event.                 *)
ExitLoopUnlessPaused(r) ==
  /\ thread[r] = "looping"
  /\ stopping[r]
  /\ ~paused[r]
  /\ EndThread(r)

ExitLoop(r) ==
  /\ thread[r] = "looping"
  /\ stopping[r]
  /\ EndThread(r)

ThreadStep(r) == OpenStream(r) \/ BeginFrame(r) \/ EndFrame(r) \/ GiveUp(r) \/ ExitLoop(r)
-----------------------------------------------------------------------------
(* Requests and settings changes *)

Goto(w, label) == pc' = [pc EXCEPT ![w] = label]

(* A worker that goes by what it has read of its slot.                         *)
Committed(w) == pc[w] \notin {"idle", "next", "check", "stop"}

(* History: w changes its slot although another worker goes by what it read.   *)
Contend(w) ==
  contended' = IF \E v \in Worker \ {w} : Committed(v) /\ slot[v] = slot[w]
                 THEN contended \cup {slot[w]}
                 ELSE contended

(* An operation that makes readers begins only while one is left for every     *)
(* slot of every such operation under way: the bound Reader blocks none of     *)
(* them half-way.                                                              *)
Room == LET makers == {w \in Worker : op[w] \notin {"none", "remove"}}
        IN Cardinality(Free) >= (Cardinality(makers) + 1) * Cardinality(Slot)

BeginOn(w, o, s, label) ==
  /\ pc[w] = "idle"
  /\ op' = [op EXCEPT ![w] = o]
  /\ slot' = [slot EXCEPT ![w] = s]
  /\ Goto(w, label)
  /\ UNCHANGED <<readerVars, todo, hand>>

(* POST /sources/{id}/start                                                    *)
StartSource(w, s) == /\ Room
                     /\ s \in registered
                     /\ BeginOn(w, "start", s, "check")
                     /\ UNCHANGED <<registered, current, contended>>

(* Mistake: the slot is dropped, its reader is not stopped.                    *)
RemoveWithoutStop(w, s) == /\ s \in registered
                           /\ BeginOn(w, "remove", s, "drop")
                           /\ UNCHANGED <<registered, current, contended>>

(* DELETE /sources/{id}                                                        *)
RemoveSource(w, s) == /\ s \in registered
                      /\ BeginOn(w, "remove", s, "stop")
                      /\ UNCHANGED <<registered, current, contended>>

(* POST /sources: a slot object that nothing of an earlier life refers to; its *)
(* reader is started unless the request says autostart = false.                *)
Register(s) ==
  /\ s \notin registered
  /\ \A r \in Reader : owner[r] = s => ~Alive(r)
  /\ \A v \in Worker : slot[v] # s /\ s \notin todo[v]
  /\ registered' = registered \cup {s}
  /\ current' = [current EXCEPT ![s] = None]
  /\ contended' = contended \ {s}

AddSource(w, s) == Room /\ Register(s) /\ BeginOn(w, "add", s, "spawn")

AddUnstarted(s) == Register(s) /\ UNCHANGED <<readerVars, workerVars>>

(* POST /sources/restart_all, and the thread a TARGET_FPS change or an         *)
(* FPS_ADAPTIVE toggle spawns; both copy the list of slots first.              *)
Sweep(w) ==
  /\ Room
  /\ pc[w] = "idle"
  /\ \E o \in {"restart_all", "reload"} : op' = [op EXCEPT ![w] = o]
  /\ todo' = [todo EXCEPT ![w] = registered]
  /\ Goto(w, "next")
  /\ UNCHANGED <<registered, current, contended, readerVars, slot, hand>>

(* POST /sources/{id}/pause                                                    *)
PauseSource(s) ==
  /\ s \in registered
  /\ current[s] # None
  /\ Alive(current[s])
  /\ paused' = [paused EXCEPT ![current[s]] = TRUE]
  /\ UNCHANGED <<registered, current, contended, thread, stopping, owner, workerVars>>
-----------------------------------------------------------------------------
(* The steps of an operation *)

Finish(w) == /\ Goto(w, "idle")
             /\ op' = [op EXCEPT ![w] = "none"]
             /\ slot' = [slot EXCEPT ![w] = None]
             /\ UNCHANGED <<todo, hand>>

(* live_source_start: a running slot needs nothing.                            *)
CheckRunning(w) ==
  /\ pc[w] = "check"
  /\ IF IsRunning(slot[w])
       THEN Finish(w)
       ELSE Goto(w, "resume") /\ UNCHANGED <<op, todo, slot, hand>>
  /\ UNCHANGED <<registered, current, contended, readerVars>>

(* _resume_slot: only the pause gate is looked at, not the thread.             *)
CanResume(w) == LET r == current[slot[w]] IN r # None /\ paused[r]

Resume(w) ==
  /\ pc[w] = "resume"
  /\ CanResume(w)
  /\ paused' = [paused EXCEPT ![current[slot[w]]] = FALSE]
  /\ Contend(w)
  /\ Finish(w)
  /\ UNCHANGED <<registered, current, thread, stopping, owner>>

ResumeNot(w) ==
  /\ pc[w] = "resume"
  /\ ~CanResume(w)
  /\ Goto(w, "spawn")
  /\ UNCHANGED <<registered, current, contended, readerVars, op, todo, slot, hand>>

(* Mistake: a sweep starts a reader without stopping the one that runs.        *)
VisitWithoutStop(w, s) ==
  /\ pc[w] = "next"
  /\ s \in todo[w]
  /\ todo' = [todo EXCEPT ![w] = @ \ {s}]
  /\ IF op[w] = "reload" /\ current[s] = None
       THEN UNCHANGED <<pc, slot>>
       ELSE slot' = [slot EXCEPT ![w] = s] /\ Goto(w, "spawn")
  /\ UNCHANGED <<registered, current, contended, readerVars, op, hand>>

(* The loop over the copied list: restart_all stops a slot only if it runs, a  *)
(* settings change skips a slot without a reader.                              *)
Visit(w, s) ==
  /\ pc[w] = "next"
  /\ s \in todo[w]
  /\ todo' = [todo EXCEPT ![w] = @ \ {s}]
  /\ IF op[w] = "reload" /\ current[s] = None
       THEN UNCHANGED <<pc, slot>>
       ELSE /\ slot' = [slot EXCEPT ![w] = s]
            /\ Goto(w, IF op[w] = "reload" \/ IsRunning(s) THEN "stop" ELSE "spawn")
  /\ UNCHANGED <<registered, current, contended, readerVars, op, hand>>

SweepDone(w) ==
  /\ pc[w] = "next"
  /\ todo[w] = {}
  /\ Finish(w)
  /\ UNCHANGED <<registered, current, contended, readerVars>>

(* Mistake: the pause gate is opened, the stop event is not set.               *)
SignalNoStop(w) ==
  /\ pc[w] = "stop"
  /\ LET r == current[slot[w]]
     IN IF r = None
          THEN Goto(w, "clear") /\ UNCHANGED <<paused, hand>>
          ELSE /\ paused' = [paused EXCEPT ![r] = FALSE]
               /\ hand' = [hand EXCEPT ![w] = r]
               /\ Goto(w, "join")
  /\ UNCHANGED <<registered, current, contended, stopping, thread, owner, op, todo, slot>>

(* _stop_slot: StreamReader.stop() sets the event and opens the pause gate ... *)
SignalStop(w) ==
  /\ pc[w] = "stop"
  /\ LET r == current[slot[w]]
     IN IF r = None
          THEN Goto(w, "clear") /\ UNCHANGED <<stopping, paused, hand>>
          ELSE /\ stopping' = [stopping EXCEPT ![r] = Alive(r)]
               /\ paused' = [paused EXCEPT ![r] = FALSE]
               /\ hand' = [hand EXCEPT ![w] = r]
               /\ Goto(w, "join")
  /\ UNCHANGED <<registered, current, contended, thread, owner, op, todo, slot>>

(* ... then joins the thread, for five seconds at most.                        *)
Join(w) ==
  /\ pc[w] = "join"
  /\ ~Alive(hand[w])
  /\ Goto(w, "clear")
  /\ UNCHANGED <<registered, current, contended, readerVars, op, todo, slot, hand>>

(* Mistake: join() without a timeout.                                          *)
JoinForever(w) ==
  /\ pc[w] = "join"
  /\ FALSE
  /\ UNCHANGED vars

JoinTimeout(w) ==
  /\ pc[w] = "join"
  /\ Alive(hand[w])
  /\ Goto(w, "clear")
  /\ UNCHANGED <<registered, current, contended, readerVars, op, todo, slot, hand>>

ClearReader(w) ==
  /\ pc[w] = "clear"
  /\ current' = [current EXCEPT ![slot[w]] = None]
  /\ hand' = [hand EXCEPT ![w] = None]
  /\ Goto(w, IF op[w] = "remove" THEN "drop" ELSE "spawn")
  /\ Contend(w)
  /\ UNCHANGED <<registered, readerVars, op, todo, slot>>

(* Another worker may still hold the slot, or have it in its copy of the list. *)
DropSlot(w) ==
  /\ pc[w] = "drop"
  /\ registered' = registered \ {slot[w]}
  /\ contended' = IF \E v \in Worker \ {w} : slot[v] = slot[w] \/ slot[w] \in todo[v]
                    THEN contended \cup {slot[w]}
                    ELSE contended
  /\ Finish(w)
  /\ UNCHANGED <<current, readerVars>>

(* Mistake: _start_slot hands out the slot in place of its reader.             *)
SpawnSwapped(w) ==
  /\ pc[w] = "spawn"
  /\ \E r \in Free :
       /\ thread' = [thread EXCEPT ![r] = "opening"]
       /\ stopping' = [stopping EXCEPT ![r] = FALSE]
       /\ paused' = [paused EXCEPT ![r] = FALSE]
       /\ owner' = [owner EXCEPT ![r] = slot[w]]
  /\ hand' = [hand EXCEPT ![w] = slot[w]]
  /\ Goto(w, "publish")
  /\ Contend(w)
  /\ UNCHANGED <<registered, current, op, todo, slot>>

(* _start_slot: the thread runs before slot.reader names its reader.           *)
Spawn(w) ==
  /\ pc[w] = "spawn"
  /\ \E r \in Free :
       /\ thread' = [thread EXCEPT ![r] = "opening"]
       /\ stopping' = [stopping EXCEPT ![r] = FALSE]
       /\ paused' = [paused EXCEPT ![r] = FALSE]
       /\ owner' = [owner EXCEPT ![r] = slot[w]]
       /\ hand' = [hand EXCEPT ![w] = r]
  /\ Goto(w, "publish")
  /\ Contend(w)
  /\ UNCHANGED <<registered, current, op, todo, slot>>

Publish(w) ==
  /\ pc[w] = "publish"
  /\ current' = [current EXCEPT ![slot[w]] = hand[w]]
  /\ hand' = [hand EXCEPT ![w] = None]
  /\ slot' = [slot EXCEPT ![w] = None]
  /\ IF op[w] \in {"restart_all", "reload"}
       THEN Goto(w, "next") /\ UNCHANGED op
       ELSE Goto(w, "idle") /\ op' = [op EXCEPT ![w] = "none"]
  /\ Contend(w)
  /\ UNCHANGED <<registered, readerVars, todo>>

(* The process ends: the capture threads are daemons.  It is started again.    *)
Reboot ==
  /\ registered' \in SUBSET Slot
  /\ current' = [s \in Slot |-> None]
  /\ thread' = [r \in Reader |-> "dead"]
  /\ stopping' = [r \in Reader |-> FALSE]
  /\ paused' = [r \in Reader |-> FALSE]
  /\ owner' = [r \in Reader |-> None]
  /\ pc' = [w \in Worker |-> "idle"]
  /\ op' = [w \in Worker |-> "none"]
  /\ todo' = [w \in Worker |-> {}]
  /\ slot' = [w \in Worker |-> None]
  /\ hand' = [w \in Worker |-> None]
  /\ contended' = {}
-----------------------------------------------------------------------------
Request(w) == \/ \E s \in Slot : \/ StartSource(w, s)
                                 \/ RemoveSource(w, s)
                                 \/ AddSource(w, s)
              \/ Sweep(w)

WorkerStep(w) == \/ CheckRunning(w) \/ Resume(w) \/ ResumeNot(w)
                 \/ \E s \in Slot : Visit(w, s)
                 \/ SweepDone(w)
                 \/ SignalStop(w) \/ Join(w) \/ JoinTimeout(w) \/ ClearReader(w)
                 \/ DropSlot(w) \/ Spawn(w) \/ Publish(w)

Next == \/ \E r \in Reader : ThreadStep(r)
        \/ \E w \in Worker : Request(w) \/ WorkerStep(w)
        \/ \E s \in Slot : PauseSource(s) \/ AddUnstarted(s)
        \/ Reboot

Spec == Init /\ [][Next]_vars

(* The pool's threads run; of the capture threads nothing is assumed.          *)
WorkerFairness == \A w \in Worker : WF_vars(WorkerStep(w))

LiveSpec == Spec /\ WorkerFairness

(* A read and an on_frame call end, and the loop reaches its gates again.      *)
ThreadFairness == \A r \in Reader : WF_vars(ThreadStep(r))
-----------------------------------------------------------------------------
(* A reader that would go on capturing.                                        *)
Live(r) == Alive(r) /\ ~stopping[r]

Owned(r) == \/ current[owner[r]] = r
            \/ \E w \in Worker : hand[w] = r

(* However requests interleave, no two readers feed the perception state of    *)
(* one slot, unless some request changed that very slot while another went by  *)
(* what it had read of it.  A reader whose stop outlasted the five seconds may *)
(* finish the frame it is in.                                                  *)
OneFeeder ==
  \A a, b \in Reader :
    a # b /\ Live(a) /\ Live(b) /\ owner[a] = owner[b] /\ owner[a] \notin contended
      => paused[a] \/ paused[b]

(* However requests interleave, a capture thread that no slot and no handler   *)
(* can reach any more is paused for good and feeds nobody, unless two requests *)
(* met on its slot.                                                            *)
LostReadersArePaused ==
  \A r \in Reader : Live(r) /\ ~Owned(r) /\ owner[r] \notin contended => paused[r]

(* However requests interleave, a removed source captures nothing, its readers *)
(* are stopping or paused: unless two requests met on it, or a sweep still had *)
(* it to visit when it was dropped.                                            *)
RemovedSourceIsQuiet ==
  \A r \in Reader :
    Live(r) /\ owner[r] \notin registered \cup contended => paused[r]

(* However requests interleave, a reader told to stop does stop, as long as    *)
(* reads end; pausing it or another request in between does not keep it alive. *)
StoppedReadersExit ==
  ThreadFairness => \A r \in Reader : stopping[r] ~> ~Alive(r)

(* However requests interleave and even if a capture thread hangs for good in  *)
(* a read, every request ends.                                                 *)
RequestsEnd == \A w \in Worker : pc[w] # "idle" ~> pc[w] = "idle"
-----------------------------------------------------------------------------
(* What the comments say and the code does not do.                             *)

(* "owns a single StreamReader instance per active stream".                    *)
SingleReader ==
  \A a, b \in Reader :
    a # b /\ Live(a) /\ Live(b) => owner[a] # owner[b]

(* "For each slot: stop the running reader (if any) and start a fresh one": a  *)
(* sweep leaves no live reader behind that nothing can stop.                   *)
NoLostReader == \A r \in Reader : Live(r) => Owned(r)

(* "If the slot's reader is alive but paused": a start request resumes a       *)
(* reader only when its thread lives.                                          *)
ResumesLiveReader ==
  [][\A w \in Worker : Resume(w) => Alive(current[slot[w]])]_vars

(* "After 50 consecutive failures we give up and exit; the watchdog will       *)
(* notice and restart the stream."                                             *)
GaveUp(s) == /\ s \in registered
             /\ current[s] # None
             /\ ~Alive(current[s])

RestartedAfterGivingUp ==
  ThreadFairness => \A s \in Slot : GaveUp(s) ~> ~GaveUp(s)
=============================================================================
