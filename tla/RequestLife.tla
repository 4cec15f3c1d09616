----------------------------- MODULE RequestLife ------------------------------
(***************************************************************************)
(* What the scheduler promises about each request, without batches, loads  *)
(* or streams: a request arrives once, is queued and in service by turns   *)
(* (service can send it back to the queue), and leaves once, finished or   *)
(* returned to its caller.  A request that has left never comes back, and  *)
(* none is lost on the way.                                                *)
(***************************************************************************)
CONSTANT Requests

VARIABLE phase      \* where each request is

Phases == {"new", "queued", "serving", "finished", "returned"}

Move(S, from, to) ==
    /\ \A r \in S : phase[r] \in from
    /\ phase' = [r \in Requests |-> IF r \in S THEN to ELSE phase[r]]

Init == phase = [r \in Requests |-> "new"]

Arrive(S)  == Move(S, {"new"}, "queued")
Serve(S)   == Move(S, {"queued"}, "serving")
Return(S)  == Move(S, {"queued"}, "returned")

\* One step of the scheduler may finish some of the requests in service, send
\* others back to the queue and return others.
Settle(done, back, out) ==
    /\ \A r \in done \cup back \cup out : phase[r] = "serving"
    /\ phase' = [r \in Requests |->
         CASE r \in done -> "finished" [] r \in back -> "queued"
           [] r \in out -> "returned" [] OTHER -> phase[r]]

Next ==
    \E S \in SUBSET Requests :
        \/ Arrive(S) \/ Serve(S) \/ Return(S)
        \/ \E done, back \in SUBSET S : Settle(done, back \ done, S \ (done \cup back))

Spec == Init /\ [][Next]_phase

Left(r) == phase[r] \in {"finished", "returned"}

\* Every request that has arrived leaves.
EveryRequestLeaves == \A r \in Requests : phase[r] = "queued" ~> Left(r)
===============================================================================
