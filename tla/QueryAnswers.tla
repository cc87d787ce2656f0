--------------------------- MODULE QueryAnswers ---------------------------
(***************************************************************************)
(* What the query service promises its callers, without saying how: a      *)
(* request for a query is answered with a version of the source that       *)
(* exists and that is not older than any result the service had cached for *)
(* the query before the request began; results cached for a query never    *)
(* go back in time; and any request may fail.  QueryCache implements it.   *)
(***************************************************************************)
EXTENDS Naturals

CONSTANTS
  Callers,  \* requests
  Keys      \* distinct queries

VARIABLES
  source,   \* version of the source tables
  newest,   \* newest version cached so far for each query
  request   \* what each request asked and got

vars == <<source, newest, request>>

Idle == [state |-> "idle", floor |-> 0, got |-> 0]
Pending(floor) == [state |-> "waiting", floor |-> floor, got |-> 0]
Failed == [state |-> "failed", floor |-> 0, got |-> 0]
Answered(floor, v) == [state |-> "answered", floor |-> floor, got |-> v]

Init ==
  /\ source = 0
  /\ newest = [k \in Keys |-> 0]
  /\ request = [c \in Callers |-> Idle]

(* Other programs change the source tables.                                *)
WriteSource ==
  /\ source' = source + 1
  /\ UNCHANGED <<newest, request>>

(* The service keeps a result for later callers.                           *)
Keep(k, v) ==
  /\ newest[k] <= v /\ v <= source
  /\ newest' = [newest EXCEPT ![k] = v]
  /\ UNCHANGED <<source, request>>

Ask(c, k) ==
  /\ request[c].state # "waiting"
  /\ request' = [request EXCEPT ![c] = Pending(newest[k])]
  /\ UNCHANGED <<source, newest>>

AnswerAtOnce(c, k, v) ==
  /\ request[c].state # "waiting"
  /\ newest[k] <= v /\ v <= source
  /\ request' = [request EXCEPT ![c] = Answered(newest[k], v)]
  /\ UNCHANGED <<source, newest>>

RefuseAtOnce(c) ==
  /\ request[c].state # "waiting"
  /\ request' = [request EXCEPT ![c] = Failed]
  /\ UNCHANGED <<source, newest>>

Answer(c, v) ==
  /\ request[c].state = "waiting"
  /\ request[c].floor <= v /\ v <= source
  /\ request' = [request EXCEPT ![c] = Answered(request[c].floor, v)]
  /\ UNCHANGED <<source, newest>>

Fail(c) ==
  /\ request[c].state = "waiting"
  /\ request' = [request EXCEPT ![c] = Failed]
  /\ UNCHANGED <<source, newest>>

Next ==
  \/ WriteSource
  \/ \E k \in Keys, v \in 0..source : Keep(k, v)
  \/ \E c \in Callers, k \in Keys :
       \/ Ask(c, k)
       \/ \E v \in 0..source : AnswerAtOnce(c, k, v)
  \/ \E c \in Callers :
       \/ RefuseAtOnce(c)
       \/ Fail(c)
       \/ \E v \in 0..source : Answer(c, v)

Spec == Init /\ [][Next]_vars
============================================================================
