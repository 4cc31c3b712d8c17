---------------------------- MODULE BackendProofs ----------------------------
(***************************************************************************)
(* Proofs about Backend for every set of Ruby threads: the type invariant, *)
(* that a close (explicit or by the GC) never destroys the cluster under a *)
(* request in flight, and that the object implements the safety part of    *)
(* the abstract session.                                                   *)
(***************************************************************************)
EXTENDS Backend, TLAPS

USE ThreadsAssumption

(* The per-method actions are all the one dispatch step.                   *)
LEMMA MethodsAreDispatch ==
    ASSUME NEW t \in Threads,
           Open(t) \/ OpenBucket(t) \/ Get(t) \/ Upsert(t) \/ Remove(t)
           \/ LookupIn(t) \/ MutateIn(t) \/ Query(t)
    PROVE  \E m \in Methods : Dispatch(t, m)
BY DEF Open, OpenBucket, Get, Upsert, Remove, LookupIn, MutateIn, Query,
       Methods

(* Every step keeps the variables in their types.                          *)
LEMMA TypeStep == TypeOK /\ [Next]_vars => TypeOK'
<1> SUFFICES ASSUME TypeOK, [Next]_vars PROVE TypeOK'
  OBVIOUS
<1>1. ASSUME NEW t \in Threads, NEW m \in Methods, Dispatch(t, m)
      PROVE  TypeOK'
  BY <1>1 DEF Dispatch, CanEnter, TypeOK, Methods, Outcomes
<1>2. ASSUME NEW t \in Threads, BarrierSetValue(t) PROVE TypeOK'
  BY <1>2 DEF BarrierSetValue, TypeOK, Methods, Outcomes
<1>3. ASSUME NEW t \in Threads, FutureGet(t) PROVE TypeOK'
  BY <1>3 DEF FutureGet, TypeOK, Methods, Outcomes
<1>4. ASSUME NEW t \in Threads, Close(t) PROVE TypeOK'
  BY <1>4 DEF Close, BackendCloseBegin, CanEnter, TypeOK, Methods, Outcomes
<1>5. ASSUME NEW t \in Threads, Free(t) PROVE TypeOK'
  BY <1>5 DEF Free, BackendCloseBegin, CanEnter, TypeOK, Methods, Outcomes
<1>6. ASSUME NEW t \in Threads, JoinWorker(t) PROVE TypeOK'
  BY <1>6 DEF JoinWorker, TypeOK, Methods, Outcomes
<1>7. CASE HandlerReturn
  BY <1>7 DEF HandlerReturn, TypeOK, Methods, Outcomes
<1>8. CASE SessionRead
  BY <1>8 DEF SessionRead, TypeOK, Methods, Outcomes
<1>9. CASE WorkerExit
  BY <1>9 DEF WorkerExit, TypeOK, Methods, Outcomes
<1>10. CASE UNCHANGED vars
  BY <1>10 DEF vars, TypeOK, Methods, Outcomes
<1>11. QED
  BY <1>1, <1>2, <1>3, <1>4, <1>5, <1>6, <1>7, <1>8, <1>9, <1>10,
     MethodsAreDispatch DEF Next

(* The initial state is well typed.                                        *)
LEMMA TypeInit == Init => TypeOK
BY DEF Init, TypeOK, Methods, Outcomes

(* Type correctness of every reachable state.                              *)
THEOREM TypeCorrect == Spec => []TypeOK
BY TypeInit, TypeStep, PTL DEF Spec

-----------------------------------------------------------------------------
(* IInv holds initially and is preserved by every step.                    *)
LEMMA IInvInit == Init => IInv
<1> SUFFICES ASSUME Init PROVE IInv
  OBVIOUS
<1>1. TypeOK
  BY TypeInit
<1>2. GVLExclusion
  BY DEF Init, GVLExclusion
<1>3. WaitersHaveCluster /\ PendingAreWaiting /\ ClusterKeepsWorker
  BY DEF Init, WaitersHaveCluster, PendingAreWaiting, ClusterKeepsWorker
<1>4. QED
  BY <1>1, <1>2, <1>3 DEF IInv

LEMMA IInvStep == IInv /\ [Next]_vars => IInv'
<1> SUFFICES ASSUME IInv, [Next]_vars PROVE IInv'
  OBVIOUS
<1>0. TypeOK'
  BY TypeStep DEF IInv
<1> USE <1>0
<1> USE DEF IInv, TypeOK, Methods, Outcomes, GVLExclusion, WaitersHaveCluster, PendingAreWaiting,
            ClusterKeepsWorker
<1>1. ASSUME NEW t \in Threads, NEW m \in Methods, Dispatch(t, m)
      PROVE  IInv'
  (* CanEnter: no thread waits or joins, since the GVL is free.           *)
  <2>1. \A u \in Threads : pc[u] \notin {"waiting", "joining"}
    BY <1>1 DEF Dispatch, CanEnter
  <2>2. CASE ~cluster /\ outcome' = [outcome EXCEPT ![t] = "closed"]
             /\ UNCHANGED <<pending, promise, pc, gvl, call>>
    BY <1>1, <2>2 DEF Dispatch, CanEnter
  <2>3. CASE cluster /\ outcome' = [outcome EXCEPT ![t] = "invalid"]
             /\ UNCHANGED <<pending, promise, pc, gvl, call>>
    BY <1>1, <2>3 DEF Dispatch, CanEnter
  <2>4. CASE /\ cluster
             /\ pending' = pending \cup {t}
             /\ promise' = [promise EXCEPT ![t] = "empty"]
             /\ pc' = [pc EXCEPT ![t] = "waiting"]
             /\ gvl' = t
             /\ call' = [call EXCEPT ![t] = m]
             /\ UNCHANGED outcome
    BY <1>1, <2>1, <2>4 DEF Dispatch, CanEnter
  <2>5. QED
    BY <1>1, <2>2, <2>3, <2>4 DEF Dispatch
<1>2. ASSUME NEW t \in Threads, BarrierSetValue(t) PROVE IInv'
  BY <1>2 DEF BarrierSetValue
<1>3. ASSUME NEW t \in Threads, FutureGet(t) PROVE IInv'
  <2>1. t \notin pending
    BY <1>3 DEF FutureGet
  <2>2. gvl = t
    BY <1>3 DEF FutureGet
  <2>3. QED
    BY <1>3, <2>1, <2>2 DEF FutureGet
<1>4. ASSUME NEW t \in Threads, CanEnter(t), BackendCloseBegin(t),
             UNCHANGED <<worker, inHandler, pending, promise, call>>
      PROVE  IInv'
  <2>1. \A u \in Threads : pc[u] \notin {"waiting", "joining"}
    BY <1>4 DEF CanEnter
  <2>2. pending = {}
    BY <2>1
  <2>3. QED
    BY <1>4, <2>1, <2>2 DEF BackendCloseBegin, CanEnter
<1>5. ASSUME NEW t \in Threads, Close(t) PROVE IInv'
  BY <1>5, <1>4 DEF Close
<1>6. ASSUME NEW t \in Threads, Free(t) PROVE IInv'
  BY <1>6, <1>4 DEF Free
<1>7. ASSUME NEW t \in Threads, JoinWorker(t) PROVE IInv'
  <2>1. gvl = t /\ ~cluster
    BY <1>7 DEF JoinWorker
  <2>2. QED
    BY <1>7, <2>1 DEF JoinWorker
<1>8. CASE HandlerReturn
  BY <1>8 DEF HandlerReturn
<1>9. CASE SessionRead
  BY <1>9 DEF SessionRead
<1>10. CASE WorkerExit
  BY <1>10 DEF WorkerExit
<1>11. CASE UNCHANGED vars
  BY <1>11 DEF vars
<1>12. QED
  BY <1>1, <1>2, <1>3, <1>5, <1>6, <1>7, <1>8, <1>9, <1>10, <1>11,
     MethodsAreDispatch DEF Next

THEOREM IInvHolds == Spec => []IInv
BY IInvInit, IInvStep, PTL DEF Spec

-----------------------------------------------------------------------------
(* A close never overlaps a request in flight: whenever the cluster has    *)
(* been destroyed no thread waits in f.get() and no request is pending.    *)
THEOREM NoTeardownWhileWaitingHolds == Spec => []NoTeardownWhileWaiting
<1>1. IInv => NoTeardownWhileWaiting
  BY DEF IInv, TypeOK, WaitersHaveCluster, PendingAreWaiting,
         NoTeardownWhileWaiting
<1>2. QED
  BY <1>1, IInvHolds, PTL

-----------------------------------------------------------------------------
(* Refinement.  A thread that may enter a method of the detailed object    *)
(* may enter one of the abstract session: no thread holds the GVL, so by   *)
(* GVLExclusion none is waiting or joining.                                *)
LEMMA EnterMapped ==
    ASSUME IInv, NEW t \in Threads, CanEnter(t)
    PROVE  Session!Enter(t)
<1>1. \A u \in Threads : pc[u] \notin {"waiting", "joining"}
  BY DEF CanEnter, IInv, GVLExclusion
<1>2. \A u \in Threads : InsideBar[u] = "idle"
  BY <1>1 DEF InsideBar
<1>3. QED
  BY <1>2 DEF Session!Enter, CanEnter

(* Steps of the worker and of the cluster's handlers change nothing the    *)
(* abstraction sees.                                                       *)
LEMMA HiddenStutter ==
    ASSUME UNCHANGED <<cluster, pc, outcome, freed>>
    PROVE  UNCHANGED Session!avars
BY DEF Session!avars, SessionBar, InsideBar

(* Every step of the backend is a step of the abstract session or leaves  *)
(* it unchanged.                                                           *)
LEMMA SessionStep == IInv /\ [Next]_vars => [Session!Next]_Session!avars
<1> SUFFICES ASSUME IInv, [Next]_vars PROVE [Session!Next]_Session!avars
  OBVIOUS
<1> USE DEF IInv, TypeOK
<1>1. ASSUME NEW t \in Threads, NEW m \in Methods, Dispatch(t, m)
      PROVE  [Session!Next]_Session!avars
  <2>1. Session!Enter(t)
    BY <1>1, EnterMapped DEF Dispatch
  <2>2. CASE ~cluster /\ outcome' = [outcome EXCEPT ![t] = "closed"]
             /\ UNCHANGED <<pending, promise, pc, gvl, call>>
    <3>1. Session!Refuse(t)
      BY <1>1, <2>1, <2>2 DEF Dispatch, Session!Refuse, SessionBar, InsideBar
    <3>2. QED
      BY <3>1 DEF Session!Next
  <2>3. CASE cluster /\ outcome' = [outcome EXCEPT ![t] = "invalid"]
             /\ UNCHANGED <<pending, promise, pc, gvl, call>>
    <3>1. Session!Refuse(t)
      BY <1>1, <2>1, <2>3 DEF Dispatch, Session!Refuse, SessionBar, InsideBar
    <3>2. QED
      BY <3>1 DEF Session!Next
  <2>4. CASE /\ cluster
             /\ pending' = pending \cup {t}
             /\ promise' = [promise EXCEPT ![t] = "empty"]
             /\ pc' = [pc EXCEPT ![t] = "waiting"]
             /\ gvl' = t
             /\ call' = [call EXCEPT ![t] = m]
             /\ UNCHANGED outcome
    <3>1. Session!Submit(t)
      BY <1>1, <2>1, <2>4 DEF Dispatch, Session!Submit, SessionBar, InsideBar
    <3>2. QED
      BY <3>1 DEF Session!Next
  <2>5. QED
    BY <1>1, <2>2, <2>3, <2>4 DEF Dispatch
<1>2. ASSUME NEW t \in Threads, BarrierSetValue(t)
      PROVE  [Session!Next]_Session!avars
  BY <1>2, HiddenStutter DEF BarrierSetValue
<1>3. ASSUME NEW t \in Threads, FutureGet(t)
      PROVE  [Session!Next]_Session!avars
  <2>1. Session!Complete(t)
    BY <1>3 DEF FutureGet, Session!Complete, SessionBar, InsideBar
  <2>2. QED
    BY <2>1 DEF Session!Next
<1>4. ASSUME NEW t \in Threads, Close(t)
      PROVE  [Session!Next]_Session!avars
  <2>1. Session!Enter(t)
    BY <1>4, EnterMapped DEF Close
  <2>2. Session!Shut(t)
    <3>1. CASE cluster
      <4>1. pc' = [pc EXCEPT ![t] = "joining"] /\ ~cluster'
        BY <1>4, <3>1 DEF Close, BackendCloseBegin
      <4>2. InsideBar' = [InsideBar EXCEPT ![t] = "closing"]
        BY <4>1 DEF InsideBar
      <4>3. QED
        BY <3>1, <4>1, <4>2 DEF Session!Shut, SessionBar
    <3>2. CASE ~cluster
      <4>1. UNCHANGED <<cluster, pc>>
        BY <1>4, <3>2 DEF Close, BackendCloseBegin
      <4>2. QED
        BY <3>2, <4>1 DEF Session!Shut, SessionBar, InsideBar
    <3>3. QED
      BY <3>1, <3>2
  <2>3. Session!Close(t)
    BY <1>4, <2>1, <2>2 DEF Close, Session!Close
  <2>4. QED
    BY <2>3 DEF Session!Next
<1>5. ASSUME NEW t \in Threads, Free(t)
      PROVE  [Session!Next]_Session!avars
  <2>1. Session!Enter(t)
    BY <1>5, EnterMapped DEF Free
  <2>2. Session!Free(t)
    BY <1>5, <2>1 DEF Free, BackendCloseBegin, Session!Free, Session!Shut,
                      SessionBar, InsideBar
  <2>3. QED
    BY <2>2 DEF Session!Next
<1>6. ASSUME NEW t \in Threads, JoinWorker(t)
      PROVE  [Session!Next]_Session!avars
  <2>1. ~cluster
    BY <1>6 DEF JoinWorker, WaitersHaveCluster
  <2>2. Session!CloseDone(t)
    BY <1>6, <2>1 DEF JoinWorker, Session!CloseDone, SessionBar, InsideBar
  <2>3. QED
    BY <2>2 DEF Session!Next
<1>7. CASE HandlerReturn \/ SessionRead \/ WorkerExit
  BY <1>7, HiddenStutter DEF HandlerReturn, SessionRead, WorkerExit
<1>8. CASE UNCHANGED vars
  BY <1>8, HiddenStutter DEF vars
<1>9. QED
  BY <1>1, <1>2, <1>3, <1>4, <1>5, <1>6, <1>7, <1>8, MethodsAreDispatch
  DEF Next

(* The backend implements the safety part of the abstract session: every  *)
(* behaviour of the object and its worker thread, seen through the mapping,*)
(* is a behaviour of BackendSession.                                       *)
THEOREM RefinesSession == Spec => Session!SafeSpec
<1>1. Init => Session!Init
  BY DEF Init, Session!Init, SessionBar, InsideBar
<1>2. QED
  BY <1>1, IInvHolds, IInvStep, SessionStep, PTL DEF Spec, Session!SafeSpec

=============================================================================
