---------------------------- MODULE BackendSession ----------------------------
(***************************************************************************)
(* What a Couchbase::Backend object promises the Ruby threads that use it, *)
(* with no worker thread, promise or cluster object in sight (spec 4.4 and *)
(* 5): methods of one object run one at a time; a request is accepted only *)
(* while the session is open and is answered exactly once; a method on a   *)
(* closed session is refused at once; close never overlaps a request, and *)
(* once the object is gone nothing runs on it.                             *)
(***************************************************************************)
CONSTANTS Threads

VARIABLES
    session,    \* "open" until a close or the GC's free, then "closed"
    inside,     \* each thread: "idle", in a "request", or "closing"
    outcome,    \* what each thread's last method returned
    gone        \* the object has been freed

avars == <<session, inside, outcome, gone>>

Init ==
    /\ session = "open"
    /\ inside = [t \in Threads |-> "idle"]
    /\ outcome = [t \in Threads |-> "none"]
    /\ gone = FALSE

(* A thread may start a method when no method of the object is running.   *)
Enter(t) == ~gone /\ \A u \in Threads : inside[u] = "idle"

(* A method returns at once: "closed" on a closed session, or an argument *)
(* error before anything is sent.                                          *)
Refuse(t) ==
    /\ Enter(t)
    /\ \/ session = "closed" /\ outcome' = [outcome EXCEPT ![t] = "closed"]
       \/ session = "open" /\ outcome' = [outcome EXCEPT ![t] = "invalid"]
    /\ UNCHANGED <<session, inside, gone>>

(* A request is accepted by the open session.                              *)
Submit(t) ==
    /\ Enter(t)
    /\ session = "open"
    /\ inside' = [inside EXCEPT ![t] = "request"]
    /\ UNCHANGED <<session, outcome, gone>>

(* The request is answered: a result or an error.                          *)
Complete(t) ==
    /\ inside[t] = "request"
    /\ inside' = [inside EXCEPT ![t] = "idle"]
    /\ outcome' \in {[outcome EXCEPT ![t] = r] : r \in {"ok", "error"}}
    /\ UNCHANGED <<session, gone>>

(* close (by the caller, with its result, or by the GC): an open session   *)
(* is closed and the thread waits for background work to stop; a closed   *)
(* one is left as it is.                                                   *)
Shut(t) ==
    \/ session = "open" /\ session' = "closed"
       /\ inside' = [inside EXCEPT ![t] = "closing"]
    \/ session = "closed" /\ UNCHANGED <<session, inside>>

Close(t) ==
    /\ Enter(t)
    /\ Shut(t)
    /\ outcome' = [outcome EXCEPT ![t] = "ok"]
    /\ UNCHANGED gone

Free(t) ==
    /\ Enter(t)
    /\ Shut(t)
    /\ gone' = TRUE
    /\ UNCHANGED outcome

(* Background work has stopped; close returns.                             *)
CloseDone(t) ==
    /\ inside[t] = "closing"
    /\ inside' = [inside EXCEPT ![t] = "idle"]
    /\ UNCHANGED <<session, outcome, gone>>

Next ==
    \E t \in Threads :
        \/ Refuse(t) \/ Submit(t) \/ Complete(t)
        \/ Close(t) \/ Free(t) \/ CloseDone(t)

(* Every method that started returns.                                      *)
Fairness ==
    \A t \in Threads : WF_avars(Complete(t)) /\ WF_avars(CloseDone(t))

SafeSpec == Init /\ [][Next]_avars

Spec == SafeSpec /\ Fairness

=============================================================================
