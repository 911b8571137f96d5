------------------------------ MODULE CloudLink ------------------------------
(* The HTTPS exchange between the edge publisher and the cloud receiver, as    *)
(* both ends use it: httpx on the edge, Starlette in the cloud.  A POST is a   *)
(* request on the wire; its answer reaches the edge only while the edge still  *)
(* waits for it.  A request whose sender gave up may still arrive.             *)
EXTENDS Integers, FiniteSets

CONSTANT Event        \* the safety events, each with an event_id of its own

VARIABLES wire,       \* requests on their way to the cloud
          reply       \* the answer waiting to be read by the edge

linkVars == <<wire, reply>>

(* "ok": 2xx, "redirect": 3xx, "retry": 5xx, 408 and 429, "refused": any      *)
(* other 4xx, "none": no answer yet.                                           *)
Answer == {"none", "ok", "redirect", "retry", "refused"}

Request == [batch : SUBSET Event, waiting : BOOLEAN]

LinkTypeOK == /\ wire \subseteq Request
              /\ reply \in Answer

LinkInit == /\ wire = {}
            /\ reply = "none"

Post(batch) == /\ wire' = wire \cup {[batch |-> batch, waiting |-> TRUE]}
               /\ UNCHANGED reply

(* The edge stops waiting: its 15 s timeout, a broken connection, a crash.     *)
HangUp == /\ wire' = {[r EXCEPT !.waiting = FALSE] : r \in wire}
          /\ reply' = "none"

ReadReply == /\ reply' = "none"
             /\ UNCHANGED wire

(* The far end answers request r.                                              *)
AnswerWith(r, a) == /\ wire' = wire \ {r}
                    /\ reply' = IF r.waiting THEN a ELSE reply

(* The request is lost on the way.                                             *)
LoseRequest(r) == /\ r \in wire
                  /\ wire' = wire \ {r}
                  /\ UNCHANGED reply

(* A proxy or an overloaded cloud process answers 5xx, 408 or 429.             *)
AnswerRetry(r) == /\ r \in wire
                  /\ r.waiting
                  /\ AnswerWith(r, "retry")

(* A captive portal or a proxy in front of the cloud answers with a redirect,  *)
(* which httpx does not follow by default.                                     *)
AnswerRedirect(r) == /\ r \in wire
                     /\ r.waiting
                     /\ AnswerWith(r, "redirect")

LinkNext == \E r \in wire : LoseRequest(r) \/ AnswerRetry(r) \/ AnswerRedirect(r)
=============================================================================
