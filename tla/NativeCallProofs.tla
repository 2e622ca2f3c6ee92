--------------------------- MODULE NativeCallProofs ---------------------------
(***************************************************************************)
(* Proofs about NativeCall: for any number of goroutines, threads and      *)
(* calls, and however callbacks nest, a failed call is shown its own error.*)
(***************************************************************************)
EXTENDS NativeCall, TLAPS

\* No call has been made and no goroutine is wired at first.
LEMMA InitIInv == Init => IInv
BY NoneAssumption
   DEF Init, IInv, TypeOK, SchedInv, PinInv, NestInv, Active, ErrorInv, ErrorsAreOwn,
       ErrorsAreReported, Wired

\* A call between LockOSThread and UnlockOSThread runs on its goroutine's home.
LEMMA AtHome ==
  ASSUME IInv, NEW a \in Call, pc[a] \in Wired
  PROVE  /\ by[a] \in Goroutine /\ home[by[a]] \in Thread
         /\ Here(a) # None => Here(a) = home[by[a]]
<1>1. by[a] \in Goroutine
  BY DEF IInv, TypeOK, Wired
<1>2. a \in pins[by[a]]
  BY <1>1 DEF IInv, PinInv
<1>3. home[by[a]] # None
  BY <1>1, <1>2 DEF IInv, PinInv
<1> QED BY <1>1, <1>3 DEF IInv, TypeOK, SchedInv, Here

\* Two calls inside libvirt that are not waiting for a callback are on
\* different threads.
LEMMA Apart ==
  ASSUME IInv, NEW a \in Call, NEW b \in Call, a # b,
         pc[a] \in Wired \ {"callback"}, pc[b] \in Wired \ {"callback"}
  PROVE  home[by[a]] # home[by[b]]
<1>1. by[a] # by[b]
  BY DEF IInv, NestInv, Active, Wired
<1>2. /\ by[a] \in Goroutine /\ by[b] \in Goroutine
      /\ home[by[a]] \in Thread /\ home[by[b]] \in Thread
  BY AtHome
<1> QED BY <1>1, <1>2, NoneAssumption DEF IInv, SchedInv

\* A call inside a callback returns into the event loop that runs it.
LEMMA ParentWaits ==
  ASSUME IInv, NEW a \in Call, Active(a), ReturnFrom(a)
  PROVE  /\ \A b \in Call : b # a => pc'[b] = pc[b] \/ (/\ b = parent[a] /\ pc[b] = "callback"
                                                        /\ pc'[b] = "call" /\ b \in Looping)
         /\ pc'[a] = "done" /\ pc' \in [Call -> {"new", "entry", "lock", "done"} \cup Wired]
<1>1. \A b \in Call : b = parent[a] => b # a /\ pc[b] = "callback" /\ b \in Looping
  BY NoneAssumption DEF IInv, NestInv
<1> QED BY <1>1 DEF ReturnFrom, IInv, TypeOK, Wired

\* Every step keeps the types.
LEMMA TypeStep == IInv /\ [Next]_vars => TypeOK'
<1> SUFFICES ASSUME IInv, [Next]_vars PROVE TypeOK'
  OBVIOUS
<1> USE NoneAssumption DEF IInv, TypeOK, Goto, sched, Here, Wired
<1>1. ASSUME NEW g \in Goroutine, NEW t \in Thread, Schedule(g, t) PROVE TypeOK'
  BY <1>1 DEF Schedule
<1>2. ASSUME NEW g \in Goroutine, Preempt(g) PROVE TypeOK'
  BY <1>2 DEF Preempt
<1>3. ASSUME NEW a \in Call, NEW g \in Goroutine, Begin(a, g) PROVE TypeOK'
  BY <1>3 DEF Begin
<1>4. ASSUME NEW a \in Call, NEW p \in Call, CallBack(a, p) PROVE TypeOK'
  BY <1>4 DEF CallBack, At
<1>5. ASSUME NEW a \in Call, Refuse(a) PROVE TypeOK'
  <2>1. Active(a) /\ ReturnFrom(a)
    BY <1>5 DEF Refuse, At, Active
  <2> QED BY <1>5, <2>1, ParentWaits DEF Refuse, At
<1>6. ASSUME NEW a \in Call, Require(a) PROVE TypeOK'
  BY <1>6 DEF Require, At
<1>7. ASSUME NEW a \in Call, LockOSThread(a) PROVE TypeOK'
  BY <1>7 DEF LockOSThread, At
<1>8. ASSUME NEW a \in Call, Reset(a) PROVE TypeOK'
  BY <1>8 DEF Reset, At
<1>9. ASSUME NEW a \in Call, Succeeds(a) PROVE TypeOK'
  BY <1>9 DEF Succeeds, At
<1>10. ASSUME NEW a \in Call, FailsWithError(a) PROVE TypeOK'
  BY <1>10 DEF FailsWithError, At
<1>11. ASSUME NEW a \in Call, FailsSilently(a) PROVE TypeOK'
  BY <1>11 DEF FailsSilently, At
<1>12. ASSUME NEW a \in Call, LastError(a) PROVE TypeOK'
  BY <1>12 DEF LastError, At
<1>13. ASSUME NEW a \in Call, UnlockOSThread(a) PROVE TypeOK'
  <2>1. Active(a) /\ ReturnFrom(a)
    BY <1>13 DEF UnlockOSThread, At, Active
  <2> QED BY <1>13, <2>1, ParentWaits DEF UnlockOSThread, At
<1>14. CASE UNCHANGED vars
  BY <1>14 DEF vars
<1> QED BY <1>1, <1>2, <1>3, <1>4, <1>5, <1>6, <1>7,
          <1>8, <1>9, <1>10, <1>11, <1>12, <1>13, <1>14
       DEF Next, Step

\* The scheduler keeps the goroutines on threads of their own.
LEMMA SchedStep == IInv /\ [Next]_vars => SchedInv'
<1> SUFFICES ASSUME IInv, [Next]_vars PROVE SchedInv'
  OBVIOUS
<1> USE NoneAssumption DEF IInv, TypeOK, Goto, sched, Here, Wired, SchedInv, PinInv
<1>1. ASSUME NEW g \in Goroutine, NEW t \in Thread, Schedule(g, t) PROVE SchedInv'
  BY <1>1 DEF Schedule
<1>2. ASSUME NEW g \in Goroutine, Preempt(g) PROVE SchedInv'
  BY <1>2 DEF Preempt
<1>3. ASSUME NEW a \in Call, NEW g \in Goroutine, Begin(a, g) PROVE SchedInv'
  BY <1>3 DEF Begin
<1>4. ASSUME NEW a \in Call, NEW p \in Call, CallBack(a, p) PROVE SchedInv'
  BY <1>4 DEF CallBack, At
<1>5. ASSUME NEW a \in Call, Refuse(a) PROVE SchedInv'
  BY <1>5 DEF Refuse, At, ReturnFrom
<1>6. ASSUME NEW a \in Call, Require(a) PROVE SchedInv'
  BY <1>6 DEF Require, At
<1>7. ASSUME NEW a \in Call, LockOSThread(a) PROVE SchedInv'
  BY <1>7 DEF LockOSThread, At
<1>8. ASSUME NEW a \in Call, Reset(a) PROVE SchedInv'
  BY <1>8 DEF Reset, At
<1>9. ASSUME NEW a \in Call, Succeeds(a) PROVE SchedInv'
  BY <1>9 DEF Succeeds, At
<1>10. ASSUME NEW a \in Call, FailsWithError(a) PROVE SchedInv'
  BY <1>10 DEF FailsWithError, At
<1>11. ASSUME NEW a \in Call, FailsSilently(a) PROVE SchedInv'
  BY <1>11 DEF FailsSilently, At
<1>12. ASSUME NEW a \in Call, LastError(a) PROVE SchedInv'
  BY <1>12 DEF LastError, At
<1>13. ASSUME NEW a \in Call, UnlockOSThread(a) PROVE SchedInv'
  BY <1>13 DEF UnlockOSThread, At, ReturnFrom
<1>14. CASE UNCHANGED vars
  BY <1>14 DEF vars
<1> QED BY <1>1, <1>2, <1>3, <1>4, <1>5, <1>6, <1>7,
          <1>8, <1>9, <1>10, <1>11, <1>12, <1>13, <1>14
       DEF Next, Step

\* LockOSThread and UnlockOSThread are balanced on every path.
LEMMA PinStep == IInv /\ [Next]_vars => PinInv'
<1> SUFFICES ASSUME IInv, [Next]_vars PROVE PinInv'
  OBVIOUS
<1> USE NoneAssumption DEF IInv, TypeOK, Goto, sched, Here, Wired, PinInv, NestInv, Active
<1>1. ASSUME NEW g \in Goroutine, NEW t \in Thread, Schedule(g, t) PROVE PinInv'
  BY <1>1 DEF Schedule
<1>2. ASSUME NEW g \in Goroutine, Preempt(g) PROVE PinInv'
  BY <1>2 DEF Preempt
<1>3. ASSUME NEW a \in Call, NEW g \in Goroutine, Begin(a, g) PROVE PinInv'
  BY <1>3 DEF Begin
<1>4. ASSUME NEW a \in Call, NEW p \in Call, CallBack(a, p) PROVE PinInv'
  BY <1>4 DEF CallBack, At
<1>5. ASSUME NEW a \in Call, Refuse(a) PROVE PinInv'
  BY <1>5 DEF Refuse, At, ReturnFrom
<1>6. ASSUME NEW a \in Call, Require(a) PROVE PinInv'
  BY <1>6 DEF Require, At
<1>7. ASSUME NEW a \in Call, LockOSThread(a) PROVE PinInv'
  BY <1>7 DEF LockOSThread, At
<1>8. ASSUME NEW a \in Call, Reset(a) PROVE PinInv'
  BY <1>8 DEF Reset, At
<1>9. ASSUME NEW a \in Call, Succeeds(a) PROVE PinInv'
  BY <1>9 DEF Succeeds, At
<1>10. ASSUME NEW a \in Call, FailsWithError(a) PROVE PinInv'
  BY <1>10 DEF FailsWithError, At
<1>11. ASSUME NEW a \in Call, FailsSilently(a) PROVE PinInv'
  BY <1>11 DEF FailsSilently, At
<1>12. ASSUME NEW a \in Call, LastError(a) PROVE PinInv'
  BY <1>12 DEF LastError, At
<1>13. ASSUME NEW a \in Call, UnlockOSThread(a) PROVE PinInv'
  BY <1>13 DEF UnlockOSThread, At, ReturnFrom
<1>14. CASE UNCHANGED vars
  BY <1>14 DEF vars
<1> QED BY <1>1, <1>2, <1>3, <1>4, <1>5, <1>6, <1>7,
          <1>8, <1>9, <1>10, <1>11, <1>12, <1>13, <1>14
       DEF Next, Step

\* A call inside a callback returns before the call around it.
LEMMA NestStep == IInv /\ [Next]_vars => NestInv'
<1> SUFFICES ASSUME IInv, [Next]_vars PROVE NestInv'
  OBVIOUS
<1> USE NoneAssumption DEF IInv, TypeOK, Goto, sched, Here, Wired, NestInv, Active
<1>1. ASSUME NEW g \in Goroutine, NEW t \in Thread, Schedule(g, t) PROVE NestInv'
  BY <1>1 DEF Schedule
<1>2. ASSUME NEW g \in Goroutine, Preempt(g) PROVE NestInv'
  BY <1>2 DEF Preempt
<1>3. ASSUME NEW a \in Call, NEW g \in Goroutine, Begin(a, g) PROVE NestInv'
  <2>1. /\ pc[a] = "new" /\ parent[a] = None
        /\ pc' = [pc EXCEPT ![a] = "entry"] /\ by' = [by EXCEPT ![a] = g] /\ parent' = parent
        /\ \A b \in Call : Active(b) => by[b] # g
    BY <1>3 DEF Begin
  <2>2. \A b \in Call : Active(b) /\ parent[b] # None => parent[b] # a
    BY <2>1
  <2> QED BY <2>1, <2>2
<1>4. ASSUME NEW a \in Call, NEW p \in Call, CallBack(a, p) PROVE NestInv'
  BY <1>4 DEF CallBack, At
<1>5. ASSUME NEW a \in Call, Refuse(a) PROVE NestInv'
  BY <1>5 DEF Refuse, At, ReturnFrom
<1>6. ASSUME NEW a \in Call, Require(a) PROVE NestInv'
  BY <1>6 DEF Require, At
<1>7. ASSUME NEW a \in Call, LockOSThread(a) PROVE NestInv'
  BY <1>7 DEF LockOSThread, At
<1>8. ASSUME NEW a \in Call, Reset(a) PROVE NestInv'
  <2>1. pc[a] = "reset" /\ pc' = [pc EXCEPT ![a] = "call"] /\ UNCHANGED <<by, parent>>
    BY <1>8 DEF Reset, At
  <2> QED BY <2>1
<1>9. ASSUME NEW a \in Call, Succeeds(a) PROVE NestInv'
  BY <1>9 DEF Succeeds, At
<1>10. ASSUME NEW a \in Call, FailsWithError(a) PROVE NestInv'
  BY <1>10 DEF FailsWithError, At
<1>11. ASSUME NEW a \in Call, FailsSilently(a) PROVE NestInv'
  BY <1>11 DEF FailsSilently, At
<1>12. ASSUME NEW a \in Call, LastError(a) PROVE NestInv'
  <2>1. pc[a] = "read" /\ pc' = [pc EXCEPT ![a] = "unlock"] /\ UNCHANGED <<by, parent>>
    BY <1>12 DEF LastError, At
  <2> QED BY <2>1
<1>13. ASSUME NEW a \in Call, UnlockOSThread(a) PROVE NestInv'
  BY <1>13 DEF UnlockOSThread, At, ReturnFrom
<1>14. CASE UNCHANGED vars
  BY <1>14 DEF vars
<1> QED BY <1>1, <1>2, <1>3, <1>4, <1>5, <1>6, <1>7,
          <1>8, <1>9, <1>10, <1>11, <1>12, <1>13, <1>14
       DEF Next, Step

\* Between the reset and lastError nobody else writes the thread's error.
LEMMA ErrorStep == IInv /\ [Next]_vars => ErrorInv'
<1> SUFFICES ASSUME IInv, [Next]_vars PROVE ErrorInv'
  OBVIOUS
<1> USE NoneAssumption DEF IInv, TypeOK, Goto, sched, Here, Wired, ErrorInv
<1>1. ASSUME NEW g \in Goroutine, NEW t \in Thread, Schedule(g, t) PROVE ErrorInv'
  BY <1>1 DEF Schedule
<1>2. ASSUME NEW g \in Goroutine, Preempt(g) PROVE ErrorInv'
  BY <1>2 DEF Preempt
<1>3. ASSUME NEW a \in Call, NEW g \in Goroutine, Begin(a, g) PROVE ErrorInv'
  BY <1>3 DEF Begin
<1>4. ASSUME NEW a \in Call, NEW p \in Call, CallBack(a, p) PROVE ErrorInv'
  BY <1>4 DEF CallBack, At
<1>5. ASSUME NEW a \in Call, Refuse(a) PROVE ErrorInv'
  <2>1. Active(a) /\ ReturnFrom(a)
    BY <1>5 DEF Refuse, At, Active
  <2>2. \A b \in Call : pc'[b] \in {"call", "read"} =>
          pc'[b] = pc[b] \/ (pc'[b] = "call" /\ b \in Looping)
    BY <2>1, ParentWaits
  <2>3. \A b \in raised : pc'[b] = pc[b] \/ pc'[b] = "done"
    BY <2>1, ParentWaits
  <2> QED BY <1>5, <2>2, <2>3 DEF Refuse
<1>6. ASSUME NEW a \in Call, Require(a) PROVE ErrorInv'
  BY <1>6 DEF Require, At
<1>7. ASSUME NEW a \in Call, LockOSThread(a) PROVE ErrorInv'
  <2>1. \A b \in Call : pc'[b] \in {"call", "read"} => pc'[b] = pc[b] /\ by[b] # by[a]
    BY <1>7 DEF LockOSThread, At, NestInv, Active
  <2> QED BY <1>7, <2>1 DEF LockOSThread, At
<1>8. ASSUME NEW a \in Call, Reset(a) PROVE ErrorInv'
  <2>1. /\ pc[a] \in Wired \ {"callback"} /\ Here(a) # None
    BY <1>8 DEF Reset, At
  <2>2. /\ by[a] \in Goroutine /\ Here(a) = home[by[a]] /\ Here(a) \in Thread
    BY <2>1, AtHome
  <2>3. \A b \in Call : b # a /\ pc[b] \in {"call", "read"} => home[by[b]] # Here(a)
    BY <2>1, <2>2, Apart
  <2> QED BY <1>8, <2>2, <2>3 DEF Reset, At
<1>9. ASSUME NEW a \in Call, Succeeds(a) PROVE ErrorInv'
  <2>1. /\ pc[a] \in Wired \ {"callback"} /\ Here(a) # None
    BY <1>9 DEF Succeeds, At
  <2>2. /\ by[a] \in Goroutine /\ Here(a) = home[by[a]] /\ Here(a) \in Thread
    BY <2>1, AtHome
  <2>3. \A b \in Call : b # a /\ pc[b] \in {"call", "read"} => home[by[b]] # Here(a)
    BY <2>1, <2>2, Apart
  <2> QED BY <1>9, <2>2, <2>3 DEF Succeeds, At
<1>10. ASSUME NEW a \in Call, FailsWithError(a) PROVE ErrorInv'
  <2>1. /\ pc[a] \in Wired \ {"callback"} /\ Here(a) # None
    BY <1>10 DEF FailsWithError, At
  <2>2. /\ by[a] \in Goroutine /\ Here(a) = home[by[a]] /\ Here(a) \in Thread
    BY <2>1, AtHome
  <2>3. \A b \in Call : b # a /\ pc[b] \in {"call", "read"} => home[by[b]] # Here(a)
    BY <2>1, <2>2, Apart
  <2> QED BY <1>10, <2>2, <2>3 DEF FailsWithError, At
<1>11. ASSUME NEW a \in Call, FailsSilently(a) PROVE ErrorInv'
  BY <1>11 DEF FailsSilently, At
<1>12. ASSUME NEW a \in Call, LastError(a) PROVE ErrorInv'
  BY <1>12 DEF LastError, At
<1>13. ASSUME NEW a \in Call, UnlockOSThread(a) PROVE ErrorInv'
  <2>1. Active(a) /\ ReturnFrom(a) /\ pc[a] = "unlock"
    BY <1>13 DEF UnlockOSThread, At, Active
  <2>2. \A b \in Call : pc'[b] \in {"call", "read"} =>
          \/ pc'[b] = "call" /\ b \in Looping
          \/ pc'[b] = pc[b] /\ by[b] # by[a]
    BY <2>1, ParentWaits DEF NestInv, Active
  <2>3. \A b \in raised : pc'[b] = pc[b] \/ pc'[b] = "done"
    BY <2>1, ParentWaits
  <2>4. \A b \in Call : by[b] # by[a] /\ by[b] \in Goroutine => home'[by[b]] = home[by[b]]
    BY <1>13 DEF UnlockOSThread
  <2>5. \A b \in Call : pc'[b] \in {"call", "read"} => by[b] \in Goroutine
    BY <2>1, ParentWaits
  <2>6. UNCHANGED <<error, by, raised>>
    BY <1>13 DEF UnlockOSThread
  <2> QED BY <2>2, <2>3, <2>4, <2>5, <2>6
<1>14. CASE UNCHANGED vars
  BY <1>14 DEF vars
<1> QED BY <1>1, <1>2, <1>3, <1>4, <1>5, <1>6, <1>7,
          <1>8, <1>9, <1>10, <1>11, <1>12, <1>13, <1>14
       DEF Next, Step

\* lastError reads what the call itself recorded, or nothing.
LEMMA OwnStep == IInv /\ [Next]_vars => (ErrorsAreOwn /\ ErrorsAreReported)'
<1> SUFFICES ASSUME IInv, [Next]_vars PROVE (ErrorsAreOwn /\ ErrorsAreReported)'
  OBVIOUS
<1> USE NoneAssumption DEF IInv, TypeOK, Goto, sched, Here, Wired, ErrorsAreOwn, ErrorsAreReported, ErrorInv
<1>1. ASSUME NEW g \in Goroutine, NEW t \in Thread, Schedule(g, t) PROVE (ErrorsAreOwn /\ ErrorsAreReported)'
  BY <1>1 DEF Schedule
<1>2. ASSUME NEW g \in Goroutine, Preempt(g) PROVE (ErrorsAreOwn /\ ErrorsAreReported)'
  BY <1>2 DEF Preempt
<1>3. ASSUME NEW a \in Call, NEW g \in Goroutine, Begin(a, g) PROVE (ErrorsAreOwn /\ ErrorsAreReported)'
  BY <1>3 DEF Begin
<1>4. ASSUME NEW a \in Call, NEW p \in Call, CallBack(a, p) PROVE (ErrorsAreOwn /\ ErrorsAreReported)'
  BY <1>4 DEF CallBack, At
<1>5. ASSUME NEW a \in Call, Refuse(a) PROVE (ErrorsAreOwn /\ ErrorsAreReported)'
  <2>1. Active(a) /\ ReturnFrom(a) /\ pc[a] = "entry" /\ UNCHANGED <<got, raised>>
    BY <1>5 DEF Refuse, At, Active
  <2>2. \A b \in raised : b # a /\ pc'[b] = pc[b]
    BY <2>1, ParentWaits
  <2> QED BY <2>1, <2>2
<1>6. ASSUME NEW a \in Call, Require(a) PROVE (ErrorsAreOwn /\ ErrorsAreReported)'
  BY <1>6 DEF Require, At
<1>7. ASSUME NEW a \in Call, LockOSThread(a) PROVE (ErrorsAreOwn /\ ErrorsAreReported)'
  BY <1>7 DEF LockOSThread, At
<1>8. ASSUME NEW a \in Call, Reset(a) PROVE (ErrorsAreOwn /\ ErrorsAreReported)'
  BY <1>8 DEF Reset, At
<1>9. ASSUME NEW a \in Call, Succeeds(a) PROVE (ErrorsAreOwn /\ ErrorsAreReported)'
  BY <1>9 DEF Succeeds, At
<1>10. ASSUME NEW a \in Call, FailsWithError(a) PROVE (ErrorsAreOwn /\ ErrorsAreReported)'
  BY <1>10 DEF FailsWithError, At
<1>11. ASSUME NEW a \in Call, FailsSilently(a) PROVE (ErrorsAreOwn /\ ErrorsAreReported)'
  BY <1>11 DEF FailsSilently, At
<1>12. ASSUME NEW a \in Call, LastError(a) PROVE (ErrorsAreOwn /\ ErrorsAreReported)'
  <2>1. pc[a] = "read" /\ Here(a) # None /\ Here(a) = home[by[a]]
    BY <1>12, AtHome DEF LastError, At
  <2>2. "virResetLastError" \in Exports => error[Here(a)] \in {a, None}
    BY <2>1
  <2>3. a \in raised => error[Here(a)] = a
    BY <2>1
  <2> QED BY <1>12, <2>1, <2>2, <2>3 DEF LastError, At
<1>13. ASSUME NEW a \in Call, UnlockOSThread(a) PROVE (ErrorsAreOwn /\ ErrorsAreReported)'
  <2>1. Active(a) /\ ReturnFrom(a) /\ pc[a] = "unlock" /\ UNCHANGED <<got, raised>>
    BY <1>13 DEF UnlockOSThread, At, Active
  <2>2. \A b \in raised : pc'[b] = pc[b] \/ b = a
    BY <2>1, ParentWaits
  <2> QED BY <2>1, <2>2
<1>14. CASE UNCHANGED vars
  BY <1>14 DEF vars
<1> QED BY <1>1, <1>2, <1>3, <1>4, <1>5, <1>6, <1>7,
          <1>8, <1>9, <1>10, <1>11, <1>12, <1>13, <1>14
       DEF Next, Step

\* The inductive invariant holds in every reachable state.
THEOREM Invariance == Spec => []IInv
<1>1. IInv /\ [Next]_vars => IInv'
  BY TypeStep, SchedStep, PinStep, NestStep, ErrorStep, OwnStep DEF IInv
<1> QED BY InitIInv, <1>1, PTL DEF Spec

\* No caller is shown an error another call left on the thread.
THEOREM NoForeignErrors == Spec => []ErrorsAreOwn
BY Invariance, PTL DEF IInv

\* Every error libvirt records for a failed call reaches that call's caller.
THEOREM NoLostErrors == Spec => []ErrorsAreReported
BY Invariance, PTL DEF IInv

\* No goroutine stays wired to its thread after its last call returned, and
\* none is unwired before.
THEOREM BalancedThreads == Spec => []ThreadsAreLetGo
<1>1. IInv => ThreadsAreLetGo
  BY DEF IInv, PinInv, ThreadsAreLetGo
<1> QED BY Invariance, <1>1, PTL
===============================================================================
