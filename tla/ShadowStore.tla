---------------------------- MODULE ShadowStore ----------------------------
(* core/shadow_store.py: the records file behind false-negative findings and   *)
(* the picture of each.  Only the validator saves, on the event loop.  A line  *)
(* is the set of the ids it yields when it is read: one, or none once it is    *)
(* spoilt.                                                                     *)
EXTENDS Integers, Sequences, SequencesExt, FiniteSetsExt

CONSTANT Cap        \* SHADOW_STORE_MAX_RECORDS

ASSUME ShadowAssumption == Cap \in Nat \ {0}

VARIABLES records,  \* shadow_records.jsonl: its lines, does the last end in a newline
          pictures, \* ids of the thumbnails on disk
          excused   \* history: ids a disk fault or the retention sweep touched

shadowVars == <<records, pictures, excused>>

ShadowInit == records = [lines |-> <<>>, ended |-> TRUE] /\ pictures = {} /\ excused = {}

Ids(lines) == UNION ToSet(lines)

Listed == Ids(records.lines)

(* load() *)
Load(id) == id \in Listed

(* What a write leaves in a file: all of the lines, or, where it is cut short, *)
(* some of them and of the next one nothing, a part, or all but its newline.   *)
Written(lines) ==
  {[lines |-> lines, ended |-> TRUE]} \cup
  UNION {{[lines |-> SubSeq(lines, 1, k), ended |-> TRUE],
          [lines |-> Append(SubSeq(lines, 1, k), {}), ended |-> FALSE],
          [lines |-> SubSeq(lines, 1, k + 1), ended |-> FALSE]} :
           k \in 0 .. Len(lines) - 1}

(* What is appended to a line without a newline spoils that line and itself.   *)
Attach(file, new) ==
  IF file.ended \/ new.lines = <<>>
    THEN [lines |-> file.lines \o new.lines, ended |-> file.ended /\ new.ended]
    ELSE [lines |-> [file.lines EXCEPT ![Len(file.lines)] = {}] \o Tail(new.lines),
          ended |-> new.ended]

Surplus(lines) == Len(lines) - Cap

Cut(lines) == Max({1, Surplus(lines) + Cap \div 4})

(* Mistake: the oldest lines go, and the pictures of as many newest.           *)
RotatedWrongEnd(lines) ==
  [drop |-> SubSeq(lines, Len(lines) - Cut(lines) + 1, Len(lines)),
   keep |-> SubSeq(lines, Cut(lines) + 1, Len(lines))]

(* Which lines go and which stay.                                              *)
Rotated(lines) ==
  [drop |-> SubSeq(lines, 1, Cut(lines)), keep |-> SubSeq(lines, Cut(lines) + 1, Len(lines))]

(* _maybe_rotate_locked(): unlinks may fail one by one, then the rewrite, which *)
(* leaves the file as it was or, once it is truncated, what was written again. *)
Rotate(file, seen, faults) ==
  LET r == Rotated(file.lines)
      gone == Ids(r.drop)
  IN /\ Surplus(file.lines) > 0
     /\ \E stuck \in SUBSET gone :
          /\ pictures' = seen \ (gone \ stuck)
          /\ \/ records' = file /\ excused' = excused \cup faults \cup gone
             \/ \E new \in Written(r.keep) :
                  /\ records' = new
                  /\ excused' = excused \cup faults \cup stuck
                                  \cup (Ids(r.keep) \ Ids(new.lines))

(* save(): nothing, as the picture could not be made; or, whether the picture  *)
(* got to the disk or not, an append.  It rotates if all was written and the   *)
(* file can be read again.                                                     *)
Save(id) ==
  \/ UNCHANGED shadowVars
  \/ \E pictured \in SUBSET {id}, new \in Written(<<{id}>>) :
       LET file == Attach(records, new)
           seen == pictures \cup pictured
           faults == ({id} \ pictured) \cup ((Listed \cup {id}) \ Ids(file.lines))
       IN \/ records' = file /\ pictures' = seen /\ excused' = excused \cup faults
          \/ new = [lines |-> <<{id}>>, ended |-> TRUE] /\ Rotate(file, seen, faults)

(* The retention sweep goes by the age of the file.                            *)
SweepPicture(id) ==
  /\ id \in pictures
  /\ pictures' = pictures \ {id}
  /\ excused' = excused \cup {id}
  /\ UNCHANGED records
-----------------------------------------------------------------------------
(* A picture is kept exactly as long as its record, through every rotation,    *)
(* except for those the disk failed by itself (a picture or a line that was    *)
(* not written, a line that was cut or spoilt, an unlink or a rewrite that was *)
(* refused) and those that retention took first.                               *)
PicturesMatchRecords ==
  \A id \in (pictures \cup Listed) \ excused : id \in pictures /\ Load(id)
=============================================================================
