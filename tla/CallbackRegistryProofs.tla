------------------------ MODULE CallbackRegistryProofs ------------------------
(***************************************************************************)
(* Proofs about CallbackRegistry, for any number of registrations,         *)
(* connections and addresses: tokens are freed exactly once, events reach  *)
(* the callback they are for, which reads nothing libvirt has taken back,  *)
(* and a closed handle has nothing registered.                             *)
(***************************************************************************)
EXTENDS CallbackRegistry, TLAPS

\* Nothing is allocated, registered or closed at first.
LEMMA InitIInv == Init => IInv
BY EventAssumption, NoneAssumption
   DEF Init, IInv, TypeOK, TokensBalanced, RecordsInv, DispatchInv, LentInv,
       CloseInv, EventsReachTheirOwner, CallbacksReadTheirEvent, ClosedMeansGone, Owns, Recorded, Idle, Making

\* Every step keeps the types, and a registration that goes on has a token.
LEMMA TypeStep == IInv /\ [Next]_vars => TypeOK'
<1> SUFFICES ASSUME IInv, [Next]_vars PROVE TypeOK'
  OBVIOUS
<1> USE NoneAssumption DEF IInv, TypeOK, Goto, Making, delivery
<1>1. ASSUME NEW r \in Reg, Register(r) PROVE TypeOK'
  <2>1. CASE Allocate(r)
    BY <2>1 DEF Allocate
  <2>2. CASE AllocateFails(r)
    BY <2>2 DEF AllocateFails
  <2>3. CASE Store(r)
    BY <2>3 DEF Store
  <2>4. CASE Registered(r)
    BY <2>4 DEF Registered
  <2>5. CASE Refused(r)
    BY <2>5 DEF Refused
  <2>6. CASE DiscardRecord(r)
    BY <2>6 DEF DiscardRecord
  <2>7. CASE DiscardToken(r)
    BY <2>7 DEF DiscardToken
  <2> QED BY <1>1, <2>1, <2>2, <2>3, <2>4, <2>5, <2>6, <2>7 DEF Register
<1>2. ASSUME NEW r \in Reg, Deliver(r) PROVE TypeOK'
  <2>1. CASE LoopPicks(r)
    BY <2>1 DEF LoopPicks
  <2>2. CASE Thunk(r)
    <3>1. records[token[r]] = r /\ r # None /\ lent \in Occurrence
      BY <2>2 DEF Thunk, DispatchInv, LentInv, RecordsInv, Recorded
    <3>2. /\ dispatch' = [dispatch EXCEPT !.ran = TRUE, !.got = r]
          /\ running' = running \cup {Callback(r)}
      BY <2>2, <3>1 DEF Thunk
    <3>3. Callback(r) \in [reg : Reg, of : Occurrence, copy : Occurrence \cup {None}]
      BY <3>1 DEF Callback
    <3> QED BY <2>2, <3>2, <3>3 DEF Thunk
  <2>3. CASE LoopDone(r)
    BY <2>3 DEF LoopDone, Idle
  <2> QED BY <1>2, <2>1, <2>2, <2>3 DEF Deliver
<1>3. ASSUME NEW r \in Reg, Drop(r) PROVE TypeOK'
  BY <1>3 DEF Drop, ConnectGone, FreeRecord, FreeToken
<1>4. ASSUME NEW r \in Reg, Close(r) PROVE TypeOK'
  BY <1>4 DEF Close, CloseLooks, Deregister, CloseLocks, CloseRemoves, CloseFails
<1>5. ASSUME NEW c \in Conn, ConnectClose(c) PROVE TypeOK'
  BY <1>5 DEF ConnectClose
<1>6. CASE UNCHANGED vars
  BY <1>6 DEF vars
<1>7. ASSUME NEW k \in running, CallbackEnds(k) PROVE TypeOK'
  BY <1>7 DEF CallbackEnds
<1> QED BY <1>1, <1>2, <1>3, <1>4, <1>5, <1>6, <1>7 DEF Next

\* A record is stored as long as libvirt may call with its token.
LEMMA RecordsStep == IInv /\ [Next]_vars => RecordsInv'
<1> SUFFICES ASSUME IInv, [Next]_vars PROVE RecordsInv'
  OBVIOUS
<1> USE NoneAssumption DEF IInv, TypeOK, Goto, Making, delivery, RecordsInv, Recorded, TokensBalanced, Owns
<1>1. ASSUME NEW r \in Reg, Allocate(r) PROVE RecordsInv'
  BY <1>1 DEF Allocate
<1>2. ASSUME NEW r \in Reg, AllocateFails(r) PROVE RecordsInv'
  BY <1>2 DEF AllocateFails
<1>3. ASSUME NEW r \in Reg, Store(r) PROVE RecordsInv'
  BY <1>3 DEF Store
<1>4. ASSUME NEW r \in Reg, Registered(r) PROVE RecordsInv'
  BY <1>4 DEF Registered
<1>5. ASSUME NEW r \in Reg, Refused(r) PROVE RecordsInv'
  BY <1>5 DEF Refused
<1>6. ASSUME NEW r \in Reg, DiscardRecord(r) PROVE RecordsInv'
  BY <1>6 DEF DiscardRecord
<1>7. ASSUME NEW r \in Reg, DiscardToken(r) PROVE RecordsInv'
  BY <1>7 DEF DiscardToken
<1>8. ASSUME NEW r \in Reg, LoopPicks(r) PROVE RecordsInv'
  BY <1>8 DEF LoopPicks
<1>9. ASSUME NEW r \in Reg, Thunk(r) PROVE RecordsInv'
  BY <1>9 DEF Thunk
<1>10. ASSUME NEW r \in Reg, LoopDone(r) PROVE RecordsInv'
  BY <1>10 DEF LoopDone
<1>11. ASSUME NEW r \in Reg, ConnectGone(r) PROVE RecordsInv'
  BY <1>11 DEF ConnectGone
<1>12. ASSUME NEW r \in Reg, FreeRecord(r) PROVE RecordsInv'
  BY <1>12 DEF FreeRecord
<1>13. ASSUME NEW r \in Reg, FreeToken(r) PROVE RecordsInv'
  BY <1>13 DEF FreeToken
<1>14. ASSUME NEW r \in Reg, CloseLooks(r) PROVE RecordsInv'
  BY <1>14 DEF CloseLooks
<1>15. ASSUME NEW r \in Reg, Deregister(r) PROVE RecordsInv'
  BY <1>15 DEF Deregister
<1>16. ASSUME NEW r \in Reg, CloseLocks(r) PROVE RecordsInv'
  BY <1>16 DEF CloseLocks
<1>17. ASSUME NEW r \in Reg, CloseRemoves(r) PROVE RecordsInv'
  <2>0. PICK q \in Removed(r) : native' = [native EXCEPT ![q] = "dropped"]
    BY <1>17, Zenon DEF CloseRemoves
  <2>1. /\ q \in Reg /\ native[q] = "active"
        /\ q = r \/ (EventOf[r] = "close" /\ EventOf[q] = "close" /\ ConnOf[q] = ConnOf[r])
    BY <2>0, Zenon DEF Removed
  <2> QED BY <1>17, <2>0, <2>1 DEF CloseRemoves
<1>18. ASSUME NEW r \in Reg, CloseFails(r) PROVE RecordsInv'
  BY <1>18 DEF CloseFails
<1>19. ASSUME NEW c \in Conn, ConnectClose(c) PROVE RecordsInv'
  BY <1>19 DEF ConnectClose
<1>20. CASE UNCHANGED vars
  BY <1>20 DEF vars
<1>21. ASSUME NEW k \in running, CallbackEnds(k) PROVE RecordsInv'
  BY <1>21 DEF CallbackEnds
<1> QED BY <1>1, <1>2, <1>3, <1>4, <1>5, <1>6, <1>7, <1>8, <1>9, <1>10,
          <1>11, <1>12, <1>13, <1>14, <1>15, <1>16, <1>17, <1>18, <1>19, <1>20,
          <1>21
       DEF Next, Register, Deliver, Drop, Close

\* A step that frees a token is a step of its one owner, which owns it no more.
LEMMA TokensStep == IInv /\ [Next]_vars => TokensBalanced'
<1> SUFFICES ASSUME IInv, [Next]_vars PROVE TokensBalanced'
  OBVIOUS
<1> USE NoneAssumption DEF IInv, TypeOK, Goto, Making, delivery, RecordsInv, Recorded, TokensBalanced, Owns
<1>1. ASSUME NEW r \in Reg, Allocate(r) PROVE TokensBalanced'
  BY <1>1 DEF Allocate
<1>2. ASSUME NEW r \in Reg, AllocateFails(r) PROVE TokensBalanced'
  BY <1>2 DEF AllocateFails
<1>3. ASSUME NEW r \in Reg, Store(r) PROVE TokensBalanced'
  BY <1>3 DEF Store
<1>4. ASSUME NEW r \in Reg, Registered(r) PROVE TokensBalanced'
  BY <1>4 DEF Registered
<1>5. ASSUME NEW r \in Reg, Refused(r) PROVE TokensBalanced'
  BY <1>5 DEF Refused
<1>6. ASSUME NEW r \in Reg, DiscardRecord(r) PROVE TokensBalanced'
  BY <1>6 DEF DiscardRecord
<1>7. ASSUME NEW r \in Reg, DiscardToken(r) PROVE TokensBalanced'
  BY <1>7 DEF DiscardToken
<1>8. ASSUME NEW r \in Reg, LoopPicks(r) PROVE TokensBalanced'
  BY <1>8 DEF LoopPicks
<1>9. ASSUME NEW r \in Reg, Thunk(r) PROVE TokensBalanced'
  BY <1>9 DEF Thunk
<1>10. ASSUME NEW r \in Reg, LoopDone(r) PROVE TokensBalanced'
  BY <1>10 DEF LoopDone
<1>11. ASSUME NEW r \in Reg, ConnectGone(r) PROVE TokensBalanced'
  BY <1>11 DEF ConnectGone
<1>12. ASSUME NEW r \in Reg, FreeRecord(r) PROVE TokensBalanced'
  BY <1>12 DEF FreeRecord
<1>13. ASSUME NEW r \in Reg, FreeToken(r) PROVE TokensBalanced'
  BY <1>13 DEF FreeToken
<1>14. ASSUME NEW r \in Reg, CloseLooks(r) PROVE TokensBalanced'
  BY <1>14 DEF CloseLooks
<1>15. ASSUME NEW r \in Reg, Deregister(r) PROVE TokensBalanced'
  BY <1>15 DEF Deregister
<1>16. ASSUME NEW r \in Reg, CloseLocks(r) PROVE TokensBalanced'
  BY <1>16 DEF CloseLocks
<1>17. ASSUME NEW r \in Reg, CloseRemoves(r) PROVE TokensBalanced'
  <2>0. PICK q \in Removed(r) : native' = [native EXCEPT ![q] = "dropped"]
    BY <1>17, Zenon DEF CloseRemoves
  <2>1. /\ q \in Reg /\ native[q] = "active"
        /\ q = r \/ (EventOf[r] = "close" /\ EventOf[q] = "close" /\ ConnOf[q] = ConnOf[r])
    BY <2>0, Zenon DEF Removed
  <2> QED BY <1>17, <2>0, <2>1 DEF CloseRemoves
<1>18. ASSUME NEW r \in Reg, CloseFails(r) PROVE TokensBalanced'
  BY <1>18 DEF CloseFails
<1>19. ASSUME NEW c \in Conn, ConnectClose(c) PROVE TokensBalanced'
  BY <1>19 DEF ConnectClose
<1>20. CASE UNCHANGED vars
  BY <1>20 DEF vars
<1>21. ASSUME NEW k \in running, CallbackEnds(k) PROVE TokensBalanced'
  BY <1>21 DEF CallbackEnds
<1> QED BY <1>1, <1>2, <1>3, <1>4, <1>5, <1>6, <1>7, <1>8, <1>9, <1>10,
          <1>11, <1>12, <1>13, <1>14, <1>15, <1>16, <1>17, <1>18, <1>19, <1>20,
          <1>21
       DEF Next, Register, Deliver, Drop, Close

\* What the loop delivers to keeps its record until the loop is done with it.
LEMMA DispatchStep == IInv /\ [Next]_vars => (DispatchInv /\ EventsReachTheirOwner)'
<1> SUFFICES ASSUME IInv, [Next]_vars PROVE (DispatchInv /\ EventsReachTheirOwner)'
  OBVIOUS
<1> USE NoneAssumption DEF IInv, TypeOK, Goto, Making, delivery, DispatchInv, EventsReachTheirOwner, Idle
<1>1. ASSUME NEW r \in Reg, Allocate(r) PROVE (DispatchInv /\ EventsReachTheirOwner)'
  BY <1>1 DEF Allocate
<1>2. ASSUME NEW r \in Reg, AllocateFails(r) PROVE (DispatchInv /\ EventsReachTheirOwner)'
  BY <1>2 DEF AllocateFails
<1>3. ASSUME NEW r \in Reg, Store(r) PROVE (DispatchInv /\ EventsReachTheirOwner)'
  BY <1>3 DEF Store
<1>4. ASSUME NEW r \in Reg, Registered(r) PROVE (DispatchInv /\ EventsReachTheirOwner)'
  BY <1>4 DEF Registered
<1>5. ASSUME NEW r \in Reg, Refused(r) PROVE (DispatchInv /\ EventsReachTheirOwner)'
  BY <1>5 DEF Refused
<1>6. ASSUME NEW r \in Reg, DiscardRecord(r) PROVE (DispatchInv /\ EventsReachTheirOwner)'
  BY <1>6 DEF DiscardRecord
<1>7. ASSUME NEW r \in Reg, DiscardToken(r) PROVE (DispatchInv /\ EventsReachTheirOwner)'
  BY <1>7 DEF DiscardToken
<1>8. ASSUME NEW r \in Reg, LoopPicks(r) PROVE (DispatchInv /\ EventsReachTheirOwner)'
  BY <1>8 DEF LoopPicks
<1>9. ASSUME NEW r \in Reg, Thunk(r) PROVE (DispatchInv /\ EventsReachTheirOwner)'
  <2>1. records[token[r]] = r
    BY <1>9 DEF Thunk, RecordsInv, Recorded
  <2> QED BY <1>9, <2>1 DEF Thunk
<1>10. ASSUME NEW r \in Reg, LoopDone(r) PROVE (DispatchInv /\ EventsReachTheirOwner)'
  BY <1>10 DEF LoopDone
<1>11. ASSUME NEW r \in Reg, ConnectGone(r) PROVE (DispatchInv /\ EventsReachTheirOwner)'
  BY <1>11 DEF ConnectGone
<1>12. ASSUME NEW r \in Reg, FreeRecord(r) PROVE (DispatchInv /\ EventsReachTheirOwner)'
  BY <1>12 DEF FreeRecord
<1>13. ASSUME NEW r \in Reg, FreeToken(r) PROVE (DispatchInv /\ EventsReachTheirOwner)'
  BY <1>13 DEF FreeToken
<1>14. ASSUME NEW r \in Reg, CloseLooks(r) PROVE (DispatchInv /\ EventsReachTheirOwner)'
  BY <1>14 DEF CloseLooks
<1>15. ASSUME NEW r \in Reg, Deregister(r) PROVE (DispatchInv /\ EventsReachTheirOwner)'
  BY <1>15 DEF Deregister
<1>16. ASSUME NEW r \in Reg, CloseLocks(r) PROVE (DispatchInv /\ EventsReachTheirOwner)'
  BY <1>16 DEF CloseLocks
<1>17. ASSUME NEW r \in Reg, CloseRemoves(r) PROVE (DispatchInv /\ EventsReachTheirOwner)'
  BY <1>17 DEF CloseRemoves
<1>18. ASSUME NEW r \in Reg, CloseFails(r) PROVE (DispatchInv /\ EventsReachTheirOwner)'
  BY <1>18 DEF CloseFails
<1>19. ASSUME NEW c \in Conn, ConnectClose(c) PROVE (DispatchInv /\ EventsReachTheirOwner)'
  BY <1>19 DEF ConnectClose
<1>20. CASE UNCHANGED vars
  BY <1>20 DEF vars
<1>21. ASSUME NEW k \in running, CallbackEnds(k) PROVE (DispatchInv /\ EventsReachTheirOwner)'
  BY <1>21 DEF CallbackEnds
<1> QED BY <1>1, <1>2, <1>3, <1>4, <1>5, <1>6, <1>7, <1>8, <1>9, <1>10,
          <1>11, <1>12, <1>13, <1>14, <1>15, <1>16, <1>17, <1>18, <1>19, <1>20,
          <1>21
       DEF Next, Register, Deliver, Drop, Close

\* A callback that borrows ends before its thunk, and the others have copies.
LEMMA LentStep == IInv /\ [Next]_vars => (LentInv /\ CallbacksReadTheirEvent)'
<1> SUFFICES ASSUME IInv, [Next]_vars PROVE (LentInv /\ CallbacksReadTheirEvent)'
  OBVIOUS
<1> USE NoneAssumption DEF IInv, TypeOK, LentInv, CallbacksReadTheirEvent, Borrows, Reads
<1>1. CASE UNCHANGED delivery
  BY <1>1 DEF delivery
<1>2. ASSUME NEW r \in Reg, LoopPicks(r) PROVE (LentInv /\ CallbacksReadTheirEvent)'
  <2>1. lent' # None /\ dispatch'.reg = r /\ running' = running
    BY <1>2 DEF LoopPicks
  <2>2. \A k \in running : ~Borrows(k.reg)
    BY <1>2 DEF LoopPicks, Idle
  <2> QED BY <2>1, <2>2
<1>3. ASSUME NEW r \in Reg, Thunk(r) PROVE (LentInv /\ CallbacksReadTheirEvent)'
  <2>1. records[token[r]] = r
    BY <1>3 DEF Thunk, DispatchInv, RecordsInv, Recorded
  <2>2. /\ running' = running \cup {Callback(r)} /\ lent' = lent
        /\ dispatch'.ran /\ dispatch'.reg = dispatch.reg
    BY <1>3, <2>1 DEF Thunk
  <2>3. Callback(r).of = lent /\ (~Borrows(r) => Callback(r).copy = lent) /\ Callback(r).reg = r
    BY DEF Callback
  <2> QED BY <2>2, <2>3
<1>4. ASSUME NEW r \in Reg, LoopDone(r) PROVE (LentInv /\ CallbacksReadTheirEvent)'
  BY <1>4 DEF LoopDone, Idle, Synchronous
<1>5. ASSUME NEW k \in running, CallbackEnds(k) PROVE (LentInv /\ CallbacksReadTheirEvent)'
  BY <1>5 DEF CallbackEnds
<1>6. \/ UNCHANGED delivery
      \/ \E r \in Reg : LoopPicks(r) \/ Thunk(r) \/ LoopDone(r)
      \/ \E k \in running : CallbackEnds(k)
  BY DEF Next, vars, Register, Allocate, AllocateFails, Store, Registered, Refused,
         DiscardRecord, DiscardToken, Deliver, Drop, ConnectGone, FreeRecord, FreeToken,
         Close, CloseLooks, Deregister, CloseLocks, CloseRemoves, CloseFails, ConnectClose
<1> QED BY <1>1, <1>2, <1>3, <1>4, <1>5, <1>6

\* A Close that succeeds leaves its registration removed.
LEMMA CloseStep == IInv /\ [Next]_vars => (CloseInv /\ ClosedMeansGone)'
<1> SUFFICES ASSUME IInv, [Next]_vars PROVE (CloseInv /\ ClosedMeansGone)'
  OBVIOUS
<1> USE NoneAssumption, EventAssumption DEF IInv, TypeOK, Goto, Making, delivery, RecordsInv, CloseInv, ClosedMeansGone
<1>1. ASSUME NEW r \in Reg, Allocate(r) PROVE (CloseInv /\ ClosedMeansGone)'
  BY <1>1 DEF Allocate
<1>2. ASSUME NEW r \in Reg, AllocateFails(r) PROVE (CloseInv /\ ClosedMeansGone)'
  BY <1>2 DEF AllocateFails
<1>3. ASSUME NEW r \in Reg, Store(r) PROVE (CloseInv /\ ClosedMeansGone)'
  BY <1>3 DEF Store
<1>4. ASSUME NEW r \in Reg, Registered(r) PROVE (CloseInv /\ ClosedMeansGone)'
  BY <1>4 DEF Registered, Taken
<1>5. ASSUME NEW r \in Reg, Refused(r) PROVE (CloseInv /\ ClosedMeansGone)'
  BY <1>5 DEF Refused
<1>6. ASSUME NEW r \in Reg, DiscardRecord(r) PROVE (CloseInv /\ ClosedMeansGone)'
  BY <1>6 DEF DiscardRecord
<1>7. ASSUME NEW r \in Reg, DiscardToken(r) PROVE (CloseInv /\ ClosedMeansGone)'
  BY <1>7 DEF DiscardToken
<1>8. ASSUME NEW r \in Reg, LoopPicks(r) PROVE (CloseInv /\ ClosedMeansGone)'
  BY <1>8 DEF LoopPicks
<1>9. ASSUME NEW r \in Reg, Thunk(r) PROVE (CloseInv /\ ClosedMeansGone)'
  BY <1>9 DEF Thunk
<1>10. ASSUME NEW r \in Reg, LoopDone(r) PROVE (CloseInv /\ ClosedMeansGone)'
  BY <1>10 DEF LoopDone
<1>11. ASSUME NEW r \in Reg, ConnectGone(r) PROVE (CloseInv /\ ClosedMeansGone)'
  BY <1>11 DEF ConnectGone
<1>12. ASSUME NEW r \in Reg, FreeRecord(r) PROVE (CloseInv /\ ClosedMeansGone)'
  BY <1>12 DEF FreeRecord
<1>13. ASSUME NEW r \in Reg, FreeToken(r) PROVE (CloseInv /\ ClosedMeansGone)'
  BY <1>13 DEF FreeToken
<1>14. ASSUME NEW r \in Reg, CloseLooks(r) PROVE (CloseInv /\ ClosedMeansGone)'
  BY <1>14 DEF CloseLooks, Recorded
<1>15. ASSUME NEW r \in Reg, Deregister(r) PROVE (CloseInv /\ ClosedMeansGone)'
  BY <1>15 DEF Deregister
<1>16. ASSUME NEW r \in Reg, CloseLocks(r) PROVE (CloseInv /\ ClosedMeansGone)'
  BY <1>16 DEF CloseLocks
<1>17. ASSUME NEW r \in Reg, CloseRemoves(r) PROVE (CloseInv /\ ClosedMeansGone)'
  <2>0. PICK q \in Removed(r) : native' = [native EXCEPT ![q] = "dropped"]
    BY <1>17, Zenon DEF CloseRemoves
  <2>1. /\ q \in Reg /\ native[q] = "active"
        /\ q = r \/ (EventOf[r] = "close" /\ EventOf[q] = "close" /\ ConnOf[q] = ConnOf[r])
    BY <2>0, Zenon DEF Removed
  <2>2. native'[r] = "dropped" \/ native[r] # "active"
    BY <2>0, <2>1 DEF CloseInv
  <2> QED BY <1>17, <2>0, <2>1, <2>2 DEF CloseRemoves
<1>18. ASSUME NEW r \in Reg, CloseFails(r) PROVE (CloseInv /\ ClosedMeansGone)'
  BY <1>18 DEF CloseFails
<1>19. ASSUME NEW c \in Conn, ConnectClose(c) PROVE (CloseInv /\ ClosedMeansGone)'
  BY <1>19 DEF ConnectClose
<1>20. CASE UNCHANGED vars
  BY <1>20 DEF vars
<1>21. ASSUME NEW k \in running, CallbackEnds(k) PROVE (CloseInv /\ ClosedMeansGone)'
  BY <1>21 DEF CallbackEnds
<1> QED BY <1>1, <1>2, <1>3, <1>4, <1>5, <1>6, <1>7, <1>8, <1>9, <1>10,
          <1>11, <1>12, <1>13, <1>14, <1>15, <1>16, <1>17, <1>18, <1>19, <1>20,
          <1>21
       DEF Next, Register, Deliver, Drop, Close

\* The inductive invariant holds in every reachable state.
THEOREM Invariance == Spec => []IInv
<1>1. IInv /\ [Next]_vars => IInv'
  BY TypeStep, RecordsStep, TokensStep, DispatchStep, LentStep, CloseStep DEF IInv
<1> QED BY InitIInv, <1>1, PTL DEF Spec

\* Every callback token is freed exactly once, by the one registration that
\* owns it, whatever registrations, failures, events and closes overlap.
THEOREM TokensAreBalanced == Spec => []TokensBalanced
BY Invariance, PTL DEF IInv

\* No event is lost or delivered to another registration's callback.
THEOREM EventsAreDelivered == Spec => []EventsReachTheirOwner
BY Invariance, PTL DEF IInv

\* A callback, however late it runs, reads of the event it was called for, and
\* nothing of the memory libvirt has taken back.
THEOREM CallbacksAreSafe == Spec => []CallbacksReadTheirEvent
BY Invariance, PTL DEF IInv

\* A handle that reports success has nothing registered in libvirt.
THEOREM ClosedHandlesAreGone == Spec => []ClosedMeansGone
BY Invariance, PTL DEF IInv

\* Every variable keeps its type.
THEOREM TypeCorrect == Spec => []TypeOK
BY Invariance, PTL DEF IInv

===============================================================================
