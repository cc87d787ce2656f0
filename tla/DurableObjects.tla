--------------------------- MODULE DurableObjects ---------------------------
(***************************************************************************)
(* What a store of validated objects promises, without files or locks: a   *)
(* request that changes the contents does so at one instant and entirely,  *)
(* between being made and being acknowledged; one that is refused changes  *)
(* nothing; a crash may leave a client in doubt about its own request but  *)
(* loses nothing that was acknowledged; and the contents are always valid. *)
(* AnalyticsStore implements it.                                           *)
(***************************************************************************)
CONSTANTS
  Clients,
  Valid(_)  \* which contents are valid

VARIABLES
  contents,  \* the objects
  client     \* how far the request of each client is

vars == <<contents, client>>

Resting == {"idle", "ok", "refused", "unknown"}

Init ==
  /\ Valid(contents)
  /\ client = [e \in Clients |-> "idle"]

Submit(e) ==
  /\ client[e] \in Resting
  /\ client' = [client EXCEPT ![e] = "pending"]
  /\ UNCHANGED contents

Refuse(e) ==
  /\ client[e] \in Resting \cup {"pending"}
  /\ client' = [client EXCEPT ![e] = "refused"]
  /\ UNCHANGED contents

Commit(e) ==
  /\ client[e] = "pending"
  /\ Valid(contents')
  /\ client' = [client EXCEPT ![e] = "applied"]

Acknowledge(e) ==
  /\ client[e] = "applied"
  /\ client' = [client EXCEPT ![e] = "ok"]
  /\ UNCHANGED contents

LoseTouch(e) ==
  /\ client[e] \in {"pending", "applied"}
  /\ client' = [client EXCEPT ![e] = "unknown"]
  /\ UNCHANGED contents

Next ==
  \E e \in Clients :
    Submit(e) \/ Refuse(e) \/ Commit(e) \/ Acknowledge(e) \/ LoseTouch(e)

Spec == Init /\ [][Next]_vars
============================================================================
