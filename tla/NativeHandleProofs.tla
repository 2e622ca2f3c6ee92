-------------------------- MODULE NativeHandleProofs --------------------------
(* Proofs about NativeHandle: its inductive invariant and what follows. *)
EXTENDS NativeHandle, FiniteSetTheorems, TLAPS

WellShaped(s) ==
  /\ s.name \in Names
  /\ s.makes \in Kinds \cup {"none"}
  /\ s.outer = "none" => s.inner = "none"
  /\ s.name = "free" => s.outer # "none" /\ s.inner = "none"

\* What the proofs need to know of the API's table of methods: a method that
\* locks an inner wrapper locks an outer one, and Free locks just one.
LEMMA ShapeFacts == \A s \in Shapes : WellShaped(s)
<1> USE DEF WellShaped, Names, Kinds, Use, Free, Gives, Looks, Shape
<1>1. \A s \in ConnectShapes \cup DomainShapes : WellShaped(s)
  BY DEF ConnectShapes, DomainShapes
<1>2. \A s \in TypedParamShapes \cup DomainStatsShapes \cup DomainJobShapes : WellShaped(s)
  BY DEF TypedParamShapes, DomainStatsShapes, DomainJobShapes
<1>3. \A s \in InterfaceShapes \cup NetworkShapes \cup NetworkPortShapes : WellShaped(s)
  BY DEF InterfaceShapes, NetworkShapes, NetworkPortShapes
<1>4. \A s \in NodeDeviceShapes \cup NWFilterShapes \cup SecretShapes : WellShaped(s)
  BY DEF NodeDeviceShapes, NWFilterShapes, SecretShapes
<1>5. \A s \in SnapshotShapes \cup CheckpointShapes : WellShaped(s)
  BY DEF SnapshotShapes, CheckpointShapes
<1>6. \A s \in PoolShapes \cup VolumeShapes : WellShaped(s)
  BY DEF PoolShapes, VolumeShapes
<1>7. \A s \in StreamShapes \cup TransferShapes \cup CallbackShapes : WellShaped(s)
  BY DEF StreamShapes, TransferShapes, CallbackShapes
<1> HIDE DEF WellShaped
<1> QED BY <1>1, <1>2, <1>3, <1>4, <1>5, <1>6, <1>7 DEF Shapes

\* Nothing is locked, held or owned before the first call.
LEMMA InitIInv == Init => IInv
<1> SUFFICES ASSUME Init PROVE IInv
  OBVIOUS
<1> USE DEF Init, RWInit, NoOp
<1>1. TypeOK
  BY NullAssumption DEF TypeOK, RWTypeOK, Ops, Names, Kinds, Pcs
<1>2. PlaceInv
  BY DEF PlaceInv, On
<1>3. LockInv
  BY NullAssumption DEF LockInv
<1>4. PointerInv
  BY DEF PointerInv, On
<1>5. RefsBalanced
  <2>1. \A o \in Object : Owners(o) = {}
    BY DEF Owners
  <2> QED BY <2>1, FS_EmptySet DEF RefsBalanced
<1> QED BY <1>1, <1>2, <1>3, <1>4, <1>5 DEF IInv

\* The owners of an object are finitely many, so they can be counted.
LEMMA OwnersFinite ==
  ASSUME IInv, NEW o \in Object
  PROVE  Owners(o) \subseteq Handle /\ IsFiniteSet(Owners(o)) /\ Cardinality(Owners(o)) \in Nat
<1>1. Owners(o) \subseteq Handle
  BY DEF Owners, IInv, TypeOK
<1> QED BY <1>1, FS_Subset, FS_CardinalityType, HandleAssumption

\* The write lock of Free and Close keeps every other call off the wrapper.
LEMMA IInvReleaseRunsAlone == IInv => ReleaseRunsAlone
<1> SUFFICES ASSUME IInv, NEW f \in Goroutine, NEW g \in Goroutine,
                    f # g, op[f].name = "free",
                    pc[f] \in {"native", "freed"}, pc[g] \in {"native", "freed"},
                    op[f].outer \in On(op[g])
             PROVE  FALSE
  BY DEF ReleaseRunsAlone
<1> DEFINE h == op[f].outer
<1>1. h \in Handle /\ h \in held[f] /\ h \in held[g]
  BY HandleAssumption DEF IInv, PlaceInv, On
<1>2. rw[h].writer = f /\ rw[h].readers = {}
  BY <1>1 DEF IInv, LockInv
<1> QED BY <1>1, <1>2 DEF IInv, LockInv

\* While a call is in libvirt nobody has released a wrapper it runs on.
LEMMA Undisturbed ==
  ASSUME IInv, NEW g \in Goroutine, pc[g] = "native", NEW h \in On(op[g])
  PROVE  ~BeingForgotten(h)
BY IInvReleaseRunsAlone DEF BeingForgotten, ReleaseRunsAlone, IInv, PlaceInv

\* A pointer in libvirt has an owner, so its reference count is positive.
LEMMA IInvNoUseAfterFree == IInv => NoUseAfterFree
<1> SUFFICES ASSUME IInv, NEW g \in Goroutine, pc[g] = "native"
             PROVE  /\ args[g] = {ptr[h] : h \in On(op[g])}
                    /\ \A o \in args[g] : o \in Object /\ refs[o] > 0
  BY DEF NoUseAfterFree
<1>1. args[g] = {ptr[h] : h \in On(op[g])}
  BY DEF IInv, PointerInv
<1>2. ASSUME NEW o \in args[g] PROVE o \in Object /\ refs[o] > 0
  <2>1. o \in Object
    BY DEF IInv, TypeOK
  <2>2. PICK h \in On(op[g]) : ptr[h] = o
    BY <1>1
  <2>3. h \in Owners(o)
    BY <2>2, Undisturbed DEF Owners, IInv, PointerInv
  <2>4. Cardinality(Owners(o)) # 0
    BY <2>1, <2>3, OwnersFinite, FS_EmptySet
  <2> QED BY <2>1, <2>4, OwnersFinite DEF IInv, RefsBalanced
<1> QED BY <1>1, <1>2

\* The wrapper a method locks next is one of its own, not locked yet.
LEMMA TargetFacts ==
  ASSUME IInv, NEW g \in Goroutine, pc[g] \in {"lock", "parked", "drain"}
  PROVE  Target(g) \in Handle /\ Target(g) \in On(op[g]) /\ Target(g) \notin held[g]
<1>1. held[g] \subseteq On(op[g]) /\ held[g] # On(op[g]) /\ held[g] \subseteq Handle
  BY DEF IInv, PlaceInv, TypeOK
<1>2. op[g].outer \in Handle \cup {NoHandle} /\ op[g].inner \in Handle \cup {NoHandle}
  BY DEF IInv, TypeOK, Ops
<1>3. op[g].outer # NoHandle
  BY <1>1 DEF IInv, PlaceInv, On
<1> QED BY <1>1, <1>2, <1>3 DEF Target, On

\* Every operation of a mutex keeps its type.
LEMMA RWTypes ==
  ASSUME RWTypeOK, NEW g \in Goroutine, NEW h \in Handle,
         \/ AdmitReader(g, h) \/ ParkReader(g, h) \/ ReleaseReader(g, h)
         \/ AnnounceWriter(g, h) \/ ReleaseWriter(g, h)
  PROVE  RWTypeOK'
<1> USE DEF RWTypeOK
<1>1. CASE AdmitReader(g, h)
  BY <1>1 DEF AdmitReader
<1>2. CASE ParkReader(g, h)
  BY <1>2 DEF ParkReader
<1>3. CASE ReleaseReader(g, h)
  BY <1>3 DEF ReleaseReader
<1>4. CASE AnnounceWriter(g, h)
  BY <1>4 DEF AnnounceWriter
<1>5. CASE ReleaseWriter(g, h)
  BY <1>5 DEF ReleaseWriter
<1> QED BY <1>1, <1>2, <1>3, <1>4, <1>5

\* Every step keeps the types; a release never takes a counter below zero.
LEMMA TypeStep == IInv /\ [Next]_vars => TypeOK'
<1> SUFFICES ASSUME IInv, [Next]_vars PROVE TypeOK'
  OBVIOUS
<1> USE DEF IInv, TypeOK, RWTypeOK, Goto
<1>1. ASSUME NEW g \in Goroutine, Invoke(g) PROVE TypeOK'
  <2>0. PICK s \in Program : \E a \in Owned(s.outer), b \in Owned(s.inner) :
          /\ op' = [op EXCEPT ![g] = [name |-> s.name, outer |-> a, inner |-> b, makes |-> s.makes]]
          /\ Goto(g, IF s.outer = "none" THEN "check" ELSE "lock")
    BY <1>1 DEF Invoke
  <2>1. PICK a \in Owned(s.outer), b \in Owned(s.inner) :
          /\ op' = [op EXCEPT ![g] = [name |-> s.name, outer |-> a, inner |-> b, makes |-> s.makes]]
          /\ Goto(g, IF s.outer = "none" THEN "check" ELSE "lock")
    BY <2>0
  <2>2. a \in Handle \cup {NoHandle} /\ b \in Handle \cup {NoHandle}
    BY <2>1 DEF Owned
  <2>3. [name |-> s.name, outer |-> a, inner |-> b, makes |-> s.makes] \in Ops
    BY <2>2, ShapeFacts, ProgramAssumption DEF Ops, WellShaped
  <2> QED BY <1>1, <2>1, <2>3 DEF Invoke, Pcs
<1>2. ASSUME NEW g \in Goroutine, RLock(g) PROVE TypeOK'
  <2>1. Target(g) \in Handle
    BY <1>2, TargetFacts DEF RLock
  <2>2. RWTypeOK' /\ held' \in [Goroutine -> SUBSET Handle]
    BY <1>2, <2>1, RWTypes DEF RLock, AfterLock
  <2>3. pc' \in [Goroutine -> Pcs]
    BY <1>2 DEF RLock, AfterLock, Pcs
  <2> QED BY <1>2, <2>2, <2>3 DEF RLock
<1>3. ASSUME NEW g \in Goroutine, RLockBlocked(g) PROVE TypeOK'
  <2>1. RWTypeOK'
    BY <1>3, TargetFacts, RWTypes DEF RLockBlocked
  <2> QED BY <1>3, <2>1 DEF RLockBlocked, Pcs
<1>4. ASSUME NEW g \in Goroutine, RLockResumed(g) PROVE TypeOK'
  BY <1>4, TargetFacts DEF RLockResumed, AfterLock, Pcs
<1>5. ASSUME NEW g \in Goroutine, LockAnnounced(g) PROVE TypeOK'
  <2>1. RWTypeOK'
    BY <1>5, TargetFacts, RWTypes DEF LockAnnounced
  <2> QED BY <1>5, <2>1 DEF LockAnnounced, Pcs
<1>6. ASSUME NEW g \in Goroutine, Locked(g) PROVE TypeOK'
  BY <1>6, TargetFacts DEF Locked, AfterLock, Pcs
<1>7. ASSUME NEW g \in Goroutine, Refuse(g) PROVE TypeOK'
  BY <1>7 DEF Refuse, Pcs
<1>8. ASSUME NEW g \in Goroutine, CheckedOuter(g) PROVE TypeOK'
  BY <1>8 DEF CheckedOuter, Pcs
<1>9. ASSUME NEW g \in Goroutine, CallNative(g) PROVE TypeOK'
  <2>1. \A h \in held[g] : ptr[h] \in Object
    BY <1>9 DEF CallNative, Closed
  <2> QED BY <1>9, <2>1 DEF CallNative, Pcs
<1>10. ASSUME NEW g \in Goroutine, NativeFails(g) PROVE TypeOK'
  BY <1>10 DEF NativeFails, Leave, Pcs
<1>11. ASSUME NEW g \in Goroutine, NativeUses(g) PROVE TypeOK'
  BY <1>11 DEF NativeUses, Leave, Pcs
<1>12. ASSUME NEW g \in Goroutine, NativeGives(g) PROVE TypeOK'
  <2>1. PICK new \in SUBSET Unused :
          \E at \in [new -> Object] :
            /\ Offered(g, new, at)
            /\ ptr' = [h \in Handle |-> IF h \in new THEN at[h] ELSE ptr[h]]
            /\ refs' = [o \in Object |-> IF \E h \in new : at[h] = o THEN refs[o] + 1 ELSE refs[o]]
            /\ fresh' = [fresh EXCEPT ![g] = new]
    BY <1>12 DEF NativeGives
  <2>2. ptr' \in [Handle -> Object \cup {Null}] /\ refs' \in [Object -> Nat] /\ new \in SUBSET Handle
    BY <2>1 DEF Unused
  <2> QED BY <1>12, <2>1, <2>2 DEF NativeGives, Leave, Pcs
<1>13. ASSUME NEW g \in Goroutine, NativeReleases(g) PROVE TypeOK'
  <2>1. \A o \in args[g] : refs[o] > 0
    BY <1>13, IInvNoUseAfterFree DEF NativeReleases, NoUseAfterFree
  <2>2. refs' \in [Object -> Nat]
    BY <1>13, <2>1 DEF NativeReleases
  <2> QED BY <1>13, <2>2 DEF NativeReleases, Pcs
<1>14. ASSUME NEW g \in Goroutine, ForgetPointer(g) PROVE TypeOK'
  BY <1>14 DEF ForgetPointer, Pcs
<1>15. ASSUME NEW g \in Goroutine, Unlock(g) PROVE TypeOK'
  <2>1. PICK h \in held[g] : held' = [held EXCEPT ![g] = @ \ {h}]
               /\ (ReleaseWriter(g, h) \/ ReleaseReader(g, h))
    BY <1>15 DEF Unlock
  <2>2. h \in Handle /\ held' \in [Goroutine -> SUBSET Handle]
    BY <2>1
  <2>3. RWTypeOK'
    BY <2>1, <2>2, RWTypes
  <2> QED BY <1>15, <2>2, <2>3 DEF Unlock
<1>16. ASSUME NEW g \in Goroutine, Return(g) PROVE TypeOK'
  <2>1. NoOp \in Ops
    BY DEF NoOp, Ops, Names
  <2> QED BY <1>16, <2>1 DEF Return, Pcs
<1>17. CASE UNCHANGED vars
  BY <1>17 DEF vars
<1> QED
  BY <1>1, <1>2, <1>3, <1>4, <1>5, <1>6, <1>7, <1>8, <1>9, <1>10, <1>11, <1>12, <1>13, <1>14,
     <1>15, <1>16, <1>17 DEF Next, Step

\* Every step keeps each goroutine's place consistent with what it holds.
LEMMA PlaceStep == IInv /\ [Next]_vars => PlaceInv'
<1> SUFFICES ASSUME IInv, [Next]_vars PROVE PlaceInv'
  OBVIOUS
<1> USE DEF IInv, TypeOK, Goto
<1>1. ASSUME NEW g \in Goroutine, Invoke(g) PROVE PlaceInv'
  <2>1. PICK s \in Program : \E a \in Owned(s.outer), b \in Owned(s.inner) :
          /\ op' = [op EXCEPT ![g] = [name |-> s.name, outer |-> a, inner |-> b, makes |-> s.makes]]
          /\ Goto(g, IF s.outer = "none" THEN "check" ELSE "lock")
    BY <1>1 DEF Invoke
  <2>2. PICK a \in Owned(s.outer), b \in Owned(s.inner) :
          /\ op' = [op EXCEPT ![g] = [name |-> s.name, outer |-> a, inner |-> b, makes |-> s.makes]]
          /\ Goto(g, IF s.outer = "none" THEN "check" ELSE "lock")
    BY <2>1
  <2>3. /\ s.outer = "none" => a = NoHandle /\ b = NoHandle
        /\ s.outer # "none" => a \in Handle
        /\ s.name = "free" => s.outer # "none" /\ b = NoHandle
    BY <2>2, ShapeFacts, ProgramAssumption DEF Owned, WellShaped
  <2>4. held[g] = {} /\ held' = held
    BY <1>1 DEF Invoke, PlaceInv
  <2> QED BY <2>2, <2>3, <2>4, HandleAssumption DEF PlaceInv, On
<1>2. ASSUME NEW g \in Goroutine, RLock(g) PROVE PlaceInv'
  BY <1>2, TargetFacts DEF RLock, AfterLock, Target, PlaceInv, On
<1>3. ASSUME NEW g \in Goroutine, RLockBlocked(g) PROVE PlaceInv'
  BY <1>3 DEF RLockBlocked, PlaceInv, On
<1>4. ASSUME NEW g \in Goroutine, RLockResumed(g) PROVE PlaceInv'
  BY <1>4, TargetFacts DEF RLockResumed, AfterLock, Target, PlaceInv, On
<1>5. ASSUME NEW g \in Goroutine, LockAnnounced(g) PROVE PlaceInv'
  BY <1>5 DEF LockAnnounced, PlaceInv, On
<1>6. ASSUME NEW g \in Goroutine, Locked(g) PROVE PlaceInv'
  BY <1>6, TargetFacts DEF Locked, AfterLock, Target, PlaceInv, On
<1>7. ASSUME NEW g \in Goroutine, Refuse(g) PROVE PlaceInv'
  BY <1>7 DEF Refuse, PlaceInv, On
<1>8. ASSUME NEW g \in Goroutine, CheckedOuter(g) PROVE PlaceInv'
  BY <1>8 DEF CheckedOuter, PlaceInv, On
<1>9. ASSUME NEW g \in Goroutine, CallNative(g) PROVE PlaceInv'
  BY <1>9 DEF CallNative, PlaceInv, On
<1>10. ASSUME NEW g \in Goroutine, NativeFails(g) PROVE PlaceInv'
  BY <1>10 DEF NativeFails, Leave, PlaceInv, On
<1>11. ASSUME NEW g \in Goroutine, NativeUses(g) PROVE PlaceInv'
  BY <1>11 DEF NativeUses, Leave, PlaceInv, On
<1>12. ASSUME NEW g \in Goroutine, NativeGives(g) PROVE PlaceInv'
  BY <1>12 DEF NativeGives, Leave, PlaceInv, On
<1>13. ASSUME NEW g \in Goroutine, NativeReleases(g) PROVE PlaceInv'
  BY <1>13 DEF NativeReleases, PlaceInv, On
<1>14. ASSUME NEW g \in Goroutine, ForgetPointer(g) PROVE PlaceInv'
  BY <1>14 DEF ForgetPointer, PlaceInv, On
<1>15. ASSUME NEW g \in Goroutine, Unlock(g) PROVE PlaceInv'
  BY <1>15 DEF Unlock, PlaceInv, On
<1>16. ASSUME NEW g \in Goroutine, Return(g) PROVE PlaceInv'
  BY <1>16 DEF Return, NoOp, PlaceInv, On
<1>17. CASE UNCHANGED vars
  BY <1>17 DEF vars, PlaceInv, On
<1> QED
  BY <1>1, <1>2, <1>3, <1>4, <1>5, <1>6, <1>7, <1>8, <1>9, <1>10, <1>11, <1>12, <1>13, <1>14,
     <1>15, <1>16, <1>17 DEF Next, Step

\* Every step keeps the mutexes and the goroutines in agreement.
LEMMA LockStep == IInv /\ [Next]_vars => LockInv'
<1> SUFFICES ASSUME IInv, [Next]_vars PROVE LockInv'
  OBVIOUS
<1> USE NullAssumption DEF IInv, TypeOK, RWTypeOK, Goto
<1>1. ASSUME NEW g \in Goroutine, Invoke(g) PROVE LockInv'
  BY <1>1 DEF Invoke, Target, PlaceInv, LockInv, On
<1>2. ASSUME NEW g \in Goroutine, RLock(g) PROVE LockInv'
  BY <1>2, TargetFacts DEF RLock, AdmitReader, AfterLock, Target, PlaceInv, LockInv, On
<1>3. ASSUME NEW g \in Goroutine, RLockBlocked(g) PROVE LockInv'
  BY <1>3, TargetFacts DEF RLockBlocked, ParkReader, Target, PlaceInv, LockInv, On
<1>4. ASSUME NEW g \in Goroutine, RLockResumed(g) PROVE LockInv'
  BY <1>4, TargetFacts DEF RLockResumed, ReaderAdmitted, AfterLock, Target, PlaceInv, LockInv, On
<1>5. ASSUME NEW g \in Goroutine, LockAnnounced(g) PROVE LockInv'
  BY <1>5, TargetFacts DEF LockAnnounced, AnnounceWriter, Target, PlaceInv, LockInv, On
<1>6. ASSUME NEW g \in Goroutine, Locked(g) PROVE LockInv'
  BY <1>6, TargetFacts DEF Locked, WriterAdmitted, AfterLock, Target, PlaceInv, LockInv, On
<1>7. ASSUME NEW g \in Goroutine, Refuse(g) PROVE LockInv'
  BY <1>7 DEF Refuse, Target, PlaceInv, LockInv, On
<1>8. ASSUME NEW g \in Goroutine, CheckedOuter(g) PROVE LockInv'
  BY <1>8 DEF CheckedOuter, Target, PlaceInv, LockInv, On
<1>9. ASSUME NEW g \in Goroutine, CallNative(g) PROVE LockInv'
  BY <1>9 DEF CallNative, Target, PlaceInv, LockInv, On
<1>10. ASSUME NEW g \in Goroutine, NativeFails(g) PROVE LockInv'
  BY <1>10 DEF NativeFails, Leave, Target, PlaceInv, LockInv, On
<1>11. ASSUME NEW g \in Goroutine, NativeUses(g) PROVE LockInv'
  BY <1>11 DEF NativeUses, Leave, Target, PlaceInv, LockInv, On
<1>12. ASSUME NEW g \in Goroutine, NativeGives(g) PROVE LockInv'
  BY <1>12 DEF NativeGives, Leave, Target, PlaceInv, LockInv, On
<1>13. ASSUME NEW g \in Goroutine, NativeReleases(g) PROVE LockInv'
  BY <1>13 DEF NativeReleases, Target, PlaceInv, LockInv, On
<1>14. ASSUME NEW g \in Goroutine, ForgetPointer(g) PROVE LockInv'
  BY <1>14 DEF ForgetPointer, Target, PlaceInv, LockInv, On
<1>15. ASSUME NEW g \in Goroutine, Unlock(g) PROVE LockInv'
  BY <1>15 DEF Unlock, ReleaseReader, ReleaseWriter, Target, PlaceInv, LockInv, On
<1>16. ASSUME NEW g \in Goroutine, Return(g) PROVE LockInv'
  BY <1>16 DEF Return, NoOp, Target, PlaceInv, LockInv, On
<1>17. CASE UNCHANGED vars
  BY <1>17 DEF vars, LockInv, Target
<1> QED
  BY <1>1, <1>2, <1>3, <1>4, <1>5, <1>6, <1>7, <1>8, <1>9, <1>10, <1>11, <1>12, <1>13, <1>14,
     <1>15, <1>16, <1>17 DEF Next, Step

\* No step takes a pointer from under a call that is in libvirt with it.
LEMMA PointerStep == IInv /\ [Next]_vars => PointerInv'
<1> SUFFICES ASSUME IInv, [Next]_vars PROVE PointerInv'
  OBVIOUS
<1> USE NullAssumption DEF IInv, TypeOK, Goto
<1>1. ASSUME NEW g \in Goroutine, Invoke(g) PROVE PointerInv'
  <2>1. PICK s \in Program : \E a \in Owned(s.outer), b \in Owned(s.inner) :
          op' = [op EXCEPT ![g] = [name |-> s.name, outer |-> a, inner |-> b, makes |-> s.makes]]
    BY <1>1 DEF Invoke
  <2>2. On(op'[g]) \subseteq made
    BY <2>1 DEF On, Owned
  <2>3. pc'[g] \in {"check", "lock"} /\ \A f \in Goroutine \ {g} : pc'[f] = pc[f] /\ op'[f] = op[f]
    BY <1>1 DEF Invoke
  <2> QED BY <1>1, <2>2, <2>3 DEF Invoke, PointerInv, Unused
<1>2. ASSUME NEW g \in Goroutine, RLock(g) PROVE PointerInv'
  BY <1>2 DEF RLock, AfterLock, PlaceInv, PointerInv, Unused, On
<1>3. ASSUME NEW g \in Goroutine, RLockBlocked(g) PROVE PointerInv'
  BY <1>3 DEF RLockBlocked, PlaceInv, PointerInv, Unused, On
<1>4. ASSUME NEW g \in Goroutine, RLockResumed(g) PROVE PointerInv'
  BY <1>4 DEF RLockResumed, AfterLock, PlaceInv, PointerInv, Unused, On
<1>5. ASSUME NEW g \in Goroutine, LockAnnounced(g) PROVE PointerInv'
  BY <1>5 DEF LockAnnounced, PlaceInv, PointerInv, Unused, On
<1>6. ASSUME NEW g \in Goroutine, Locked(g) PROVE PointerInv'
  BY <1>6 DEF Locked, AfterLock, PlaceInv, PointerInv, Unused, On
<1>7. ASSUME NEW g \in Goroutine, Refuse(g) PROVE PointerInv'
  BY <1>7 DEF Refuse, PlaceInv, PointerInv, Unused, On
<1>8. ASSUME NEW g \in Goroutine, CheckedOuter(g) PROVE PointerInv'
  BY <1>8 DEF CheckedOuter, PlaceInv, PointerInv, Unused, On
<1>9. ASSUME NEW g \in Goroutine, CallNative(g) PROVE PointerInv'
  <2>1. args'[g] = {ptr[h] : h \in On(op[g])} /\ \A h \in On(op[g]) : ptr[h] # Null
    BY <1>9 DEF CallNative, Closed
  <2> QED BY <1>9, <2>1 DEF CallNative, PointerInv, Unused
<1>10. ASSUME NEW g \in Goroutine, NativeFails(g) PROVE PointerInv'
  BY <1>10 DEF NativeFails, Leave, PlaceInv, PointerInv, Unused, On
<1>11. ASSUME NEW g \in Goroutine, NativeUses(g) PROVE PointerInv'
  BY <1>11 DEF NativeUses, Leave, PlaceInv, PointerInv, Unused, On
<1>12. ASSUME NEW g \in Goroutine, NativeGives(g) PROVE PointerInv'
  <2>1. PICK new \in SUBSET Unused :
          \E at \in [new -> Object] :
            /\ Offered(g, new, at)
            /\ ptr' = [h \in Handle |-> IF h \in new THEN at[h] ELSE ptr[h]]
            /\ fresh' = [fresh EXCEPT ![g] = new]
    BY <1>12 DEF NativeGives
  <2>2. /\ \A h \in Handle \ new : ptr'[h] = ptr[h]
        /\ \A h \in new : ptr'[h] # Null
        /\ fresh[g] = {} /\ new \subseteq Handle
        /\ new \cap made = {} /\ \A f \in Goroutine : new \cap fresh[f] = {}
    BY <1>12, <2>1 DEF NativeGives, Unused, PointerInv
  <2>3. /\ pc'[g] = "unlock" /\ op' = op /\ made' = made
        /\ \A f \in Goroutine \ {g} : pc'[f] = pc[f] /\ args'[f] = args[f] /\ fresh'[f] = fresh[f]
        /\ fresh'[g] = new
    BY <1>12, <2>1 DEF NativeGives, Leave
  <2>4. \A h \in Handle : ptr'[h] # Null => h \notin Unused'
    BY <2>1, <2>2, <2>3 DEF PointerInv, Unused
  <2>5. \A f \in Goroutine : \A h \in On(op[f]) : ptr'[h] = ptr[h]
    BY <2>2 DEF PointerInv
  <2> QED BY <2>1, <2>2, <2>3, <2>4, <2>5 DEF PointerInv
<1>13. ASSUME NEW g \in Goroutine, NativeReleases(g) PROVE PointerInv'
  BY <1>13 DEF NativeReleases, PlaceInv, PointerInv, Unused, On
<1>14. ASSUME NEW g \in Goroutine, ForgetPointer(g) PROVE PointerInv'
  <2>1. op[g].name = "free" /\ pc'[g] = "unlock" /\ \A f \in Goroutine \ {g} : pc'[f] = pc[f]
    BY <1>14 DEF ForgetPointer, PlaceInv
  <2>2. \A f \in Goroutine \ {g} :
          pc[f] \in {"native", "freed"} => \A h \in On(op[f]) : ptr'[h] = ptr[h]
    BY <1>14, <2>1, IInvReleaseRunsAlone DEF ForgetPointer, ReleaseRunsAlone
  <2>3. \A f \in Goroutine : \A h \in fresh[f] : ptr'[h] = ptr[h]
    <3>1. op[g].outer \in made
      BY <1>14, <2>1, HandleAssumption DEF PlaceInv, PointerInv, On
    <3>2. \A f \in Goroutine : fresh[f] \subseteq Handle \ made
      BY DEF PointerInv
    <3> QED BY <1>14, <3>1, <3>2 DEF ForgetPointer
  <2>4. \A h \in Handle : ptr'[h] # Null => ptr[h] # Null
    BY <1>14 DEF ForgetPointer
  <2> QED BY <1>14, <2>1, <2>2, <2>3, <2>4 DEF ForgetPointer, PointerInv, Unused
<1>15. ASSUME NEW g \in Goroutine, Unlock(g) PROVE PointerInv'
  BY <1>15 DEF Unlock, PlaceInv, PointerInv, Unused, On
<1>16. ASSUME NEW g \in Goroutine, Return(g) PROVE PointerInv'
  BY <1>16 DEF Return, NoOp, PlaceInv, PointerInv, Unused, On
<1>17. CASE UNCHANGED vars
  BY <1>17 DEF vars, PointerInv, Unused
<1> QED
  BY <1>1, <1>2, <1>3, <1>4, <1>5, <1>6, <1>7, <1>8, <1>9, <1>10, <1>11, <1>12, <1>13, <1>14,
     <1>15, <1>16, <1>17 DEF Next, Step

\* Every step that changes a native counter changes the owners alike: a new
\* wrapper is a new owner, a release removes one, the rest leave both alone.
LEMMA RefsStep == IInv /\ [Next]_vars => RefsBalanced'
<1> SUFFICES ASSUME IInv, [Next]_vars, NEW o \in Object
             PROVE  refs'[o] = Cardinality(Owners(o)')
  BY DEF RefsBalanced
<1> USE NullAssumption DEF IInv, TypeOK, Goto
<1>0. refs[o] = Cardinality(Owners(o))
  BY DEF RefsBalanced
\* Most steps neither touch a reference nor begin or end a forgetting.
<1>1. ASSUME NEW g \in Goroutine, Invoke(g) PROVE Owners(o)' = Owners(o) /\ refs' = refs
  BY <1>1 DEF Invoke, Owners, BeingForgotten
<1>2. ASSUME NEW g \in Goroutine,
             RLock(g) \/ RLockBlocked(g) \/ RLockResumed(g) \/ LockAnnounced(g) \/ Locked(g)
      PROVE  Owners(o)' = Owners(o) /\ refs' = refs
  BY <1>2 DEF RLock, RLockBlocked, RLockResumed, LockAnnounced, Locked, AfterLock, Owners, BeingForgotten
<1>3. ASSUME NEW g \in Goroutine, Refuse(g) \/ CheckedOuter(g) \/ CallNative(g)
      PROVE  Owners(o)' = Owners(o) /\ refs' = refs
  BY <1>3 DEF Refuse, CheckedOuter, CallNative, Owners, BeingForgotten
<1>4. ASSUME NEW g \in Goroutine, NativeFails(g) \/ NativeUses(g) \/ Unlock(g)
      PROVE  Owners(o)' = Owners(o) /\ refs' = refs
  BY <1>4 DEF NativeFails, NativeUses, Unlock, Leave, Owners, BeingForgotten
<1>5. ASSUME NEW g \in Goroutine, Return(g) PROVE Owners(o)' = Owners(o) /\ refs' = refs
  <2>1. made' \cup UNION {fresh'[f] : f \in Goroutine} = made \cup UNION {fresh[f] : f \in Goroutine}
    BY <1>5 DEF Return
  <2>2. \A h : BeingForgotten(h)' <=> BeingForgotten(h)
    BY <1>5 DEF Return, BeingForgotten
  <2> QED BY <1>5, <2>1, <2>2 DEF Return, Owners
<1>6. ASSUME NEW g \in Goroutine, NativeGives(g) PROVE refs'[o] = Cardinality(Owners(o)')
  <2>1. PICK new \in SUBSET Unused : \E at \in [new -> Object] :
            /\ Offered(g, new, at)
            /\ ptr' = [h \in Handle |-> IF h \in new THEN at[h] ELSE ptr[h]]
            /\ refs' = [q \in Object |-> IF \E h \in new : at[h] = q THEN refs[q] + 1 ELSE refs[q]]
            /\ fresh' = [fresh EXCEPT ![g] = new]
    BY <1>6 DEF NativeGives
  <2>2. PICK at \in [new -> Object] :
            /\ Offered(g, new, at)
            /\ ptr' = [h \in Handle |-> IF h \in new THEN at[h] ELSE ptr[h]]
            /\ refs' = [q \in Object |-> IF \E h \in new : at[h] = q THEN refs[q] + 1 ELSE refs[q]]
            /\ fresh' = [fresh EXCEPT ![g] = new]
    BY <2>1
  <2>3. \A h : BeingForgotten(h)' <=> BeingForgotten(h)
    BY <1>6 DEF NativeGives, Leave, BeingForgotten
  <2>4. /\ new \subseteq Handle /\ new \cap made = {}
        /\ \A f \in Goroutine : new \cap fresh[f] = {}
    BY DEF Unused
  <2>5. made' = made /\ fresh[g] = {}
    BY <1>6 DEF NativeGives, PointerInv
  <2>6. made' \cup UNION {fresh'[f] : f \in Goroutine}
          = new \cup made \cup UNION {fresh[f] : f \in Goroutine}
    BY <2>2, <2>5
  <2>7. \A h \in new : ~BeingForgotten(h)
    BY <2>4, HandleAssumption DEF BeingForgotten, PlaceInv, PointerInv, On
  <2>8. Owners(o)' = Owners(o) \cup {h \in new : at[h] = o}
    BY <2>2, <2>3, <2>4, <2>6, <2>7 DEF Owners
  <2>9. CASE \E h \in new : at[h] = o
    <3>1. PICK k \in new : at[k] = o
      BY <2>9
    <3>2. {h \in new : at[h] = o} = {k}
      BY <2>2, <3>1 DEF Offered
    <3>3. k \notin Owners(o)
      BY <2>4 DEF Owners
    <3>4. Cardinality(Owners(o) \cup {k}) = Cardinality(Owners(o)) + 1
      BY <3>3, OwnersFinite, FS_AddElement
    <3> QED BY <1>0, <2>2, <2>8, <2>9, <3>2, <3>4
  <2>10. CASE ~\E h \in new : at[h] = o
    BY <1>0, <2>2, <2>8, <2>10
  <2> QED BY <2>9, <2>10
<1>7. ASSUME NEW g \in Goroutine, NativeReleases(g) PROVE refs'[o] = Cardinality(Owners(o)')
  <2> DEFINE k == op[g].outer
  <2>1. k \in Handle /\ k \in made /\ On(op[g]) = {k} /\ args[g] = {ptr[k]}
    BY <1>7, HandleAssumption DEF NativeReleases, PlaceInv, PointerInv, On
  <2>2. ~BeingForgotten(k)
    BY <1>7, <2>1, Undisturbed DEF NativeReleases
  <2>3. \A h : BeingForgotten(h)' <=> BeingForgotten(h) \/ h = k
    BY <1>7 DEF NativeReleases, BeingForgotten
  <2>4. Owners(o)' = Owners(o) \ {k}
    BY <1>7, <2>3 DEF NativeReleases, Owners
  <2>5. CASE ptr[k] = o
    <3>1. k \in Owners(o)
      BY <2>1, <2>2, <2>5 DEF Owners
    <3>2. Cardinality(Owners(o) \ {k}) = Cardinality(Owners(o)) - 1
      <4>1. IsFiniteSet(Owners(o))
        BY OwnersFinite
      <4>2. \A S, x : IsFiniteSet(S) /\ x \in S => Cardinality(S \ {x}) = Cardinality(S) - 1
        BY FS_RemoveElement
      <4> QED BY <3>1, <4>1, <4>2
    <3> QED BY <1>0, <1>7, <2>1, <2>4, <2>5, <3>2 DEF NativeReleases
  <2>6. CASE ptr[k] # o
    <3>1. Owners(o)' = Owners(o)
      BY <2>4, <2>6 DEF Owners
    <3> QED BY <1>0, <1>7, <2>1, <2>6, <3>1 DEF NativeReleases
  <2> QED BY <2>5, <2>6
<1>8. ASSUME NEW g \in Goroutine, ForgetPointer(g) PROVE Owners(o)' = Owners(o) /\ refs' = refs
  <2> DEFINE k == op[g].outer
  <2>1. k \in Handle /\ BeingForgotten(k) /\ ptr'[k] = Null /\ \A h \in Handle \ {k} : ptr'[h] = ptr[h]
    BY <1>8 DEF ForgetPointer, BeingForgotten, PlaceInv
  <2>2. \A h : h # k => (BeingForgotten(h)' <=> BeingForgotten(h))
    BY <1>8 DEF ForgetPointer, BeingForgotten
  <2> QED BY <1>8, <2>1, <2>2 DEF ForgetPointer, Owners
<1>9. CASE UNCHANGED vars
  BY <1>0, <1>9 DEF vars, Owners, BeingForgotten
<1> QED
  BY <1>0, <1>1, <1>2, <1>3, <1>4, <1>5, <1>6, <1>7, <1>8, <1>9 DEF Next, Step

\* The inductive invariant holds in every reachable state.
THEOREM Invariance == Spec => []IInv
<1>1. IInv /\ [Next]_vars => IInv'
  BY TypeStep, PlaceStep, LockStep, PointerStep, RefsStep DEF IInv
<1> QED BY <1>1, InitIInv, PTL DEF Spec

\* Every variable keeps its type; in particular no reference count of libvirt
\* is ever decremented below zero (resource.go, objectFree).
THEOREM TypeCorrect == Spec => []TypeOK
BY Invariance, PTL DEF IInv

\* For any number of goroutines, wrappers and objects, every native reference
\* belongs to exactly one wrapper: no leak, no double release.
THEOREM ReferencesBalanced == Spec => []RefsBalanced
BY Invariance, PTL DEF IInv

\* No native call works on a pointer that was released meanwhile.
THEOREM NeverUsedAfterFree == Spec => []NoUseAfterFree
BY Invariance, IInvNoUseAfterFree, PTL

\* A release is the only native call on its wrapper while it runs.
THEOREM ReleasesRunAlone == Spec => []ReleaseRunsAlone
BY Invariance, IInvReleaseRunsAlone, PTL

\* A wrapper's pointer changes in two ways only: it is set when the wrapper is
\* made, and forgotten after its release.  A failed Free keeps it.
LEMMA PointerChange ==
  ASSUME IInv, [Next]_vars, NEW h \in Handle, ptr'[h] # ptr[h]
  PROVE  \/ h \notin made /\ ptr[h] = Null
         \/ h \in made /\ ptr'[h] = Null /\ BeingForgotten(h)
<1> USE DEF IInv, TypeOK
<1>1. ASSUME NEW g \in Goroutine, NativeGives(g) PROVE h \notin made /\ ptr[h] = Null
  <2>1. PICK new \in SUBSET Unused : \E at \in [new -> Object] :
          /\ Offered(g, new, at)
          /\ ptr' = [k \in Handle |-> IF k \in new THEN at[k] ELSE ptr[k]]
    BY <1>1 DEF NativeGives
  <2>2. h \in Unused
    BY <2>1
  <2> QED BY <2>2 DEF Unused, PointerInv
<1>2. ASSUME NEW g \in Goroutine, ForgetPointer(g)
      PROVE  h \in made /\ ptr'[h] = Null /\ BeingForgotten(h)
  <2>1. h = op[g].outer
    BY <1>2 DEF ForgetPointer
  <2>2. h \in On(op[g])
    BY <2>1, HandleAssumption DEF On
  <2> QED BY <1>2, <2>1, <2>2 DEF ForgetPointer, BeingForgotten, PointerInv
<1>3. \E g \in Goroutine : NativeGives(g) \/ ForgetPointer(g)
  BY DEF Next, Step, vars, Invoke, RLock, RLockBlocked, RLockResumed, LockAnnounced, Locked,
         Refuse, CheckedOuter, CallNative, NativeFails, NativeUses, NativeReleases, Unlock, Return
<1> QED BY <1>1, <1>2, <1>3

\* The action property: Free and Close forget a pointer only after libvirt
\* released its reference.
THEOREM PointersLostOnlyByRelease == Spec => PointerLostOnlyByRelease
<1>1. IInv /\ [Next]_vars =>
        [\A h \in Handle : ptr'[h] # ptr[h] =>
           \/ h \notin made /\ ptr[h] = Null
           \/ h \in made /\ ptr'[h] = Null /\ BeingForgotten(h)]_vars
  BY PointerChange
<1> QED BY <1>1, Invariance, PTL DEF Spec, PointerLostOnlyByRelease

-------------------------------------------------------------------------------
(* Nobody waits for ever on a lock: the nested read locks of the two-wrapper  *)
(* methods are taken in one order, so a chain of goroutines that wait for     *)
(* each other ends at one that can move.                                      *)

Ordered(s) == s.inner # "none" => LockRank(s.outer) < LockRank(s.inner)

\* The API's table of methods nests locks in the order of LockRank only.
LEMMA ShapeOrder == \A s \in Shapes : Ordered(s)
<1> USE DEF Ordered, LockRank, Names, Kinds, Use, Free, Gives, Looks, Shape
<1>1. \A s \in ConnectShapes \cup DomainShapes : Ordered(s)
  BY DEF ConnectShapes, DomainShapes
<1>2. \A s \in TypedParamShapes \cup DomainStatsShapes \cup DomainJobShapes : Ordered(s)
  BY DEF TypedParamShapes, DomainStatsShapes, DomainJobShapes
<1>3. \A s \in InterfaceShapes \cup NetworkShapes \cup NetworkPortShapes : Ordered(s)
  BY DEF InterfaceShapes, NetworkShapes, NetworkPortShapes
<1>4. \A s \in NodeDeviceShapes \cup NWFilterShapes \cup SecretShapes : Ordered(s)
  BY DEF NodeDeviceShapes, NWFilterShapes, SecretShapes
<1>5. \A s \in SnapshotShapes \cup CheckpointShapes : Ordered(s)
  BY DEF SnapshotShapes, CheckpointShapes
<1>6. \A s \in PoolShapes \cup VolumeShapes : Ordered(s)
  BY DEF PoolShapes, VolumeShapes
<1>7. \A s \in StreamShapes \cup TransferShapes \cup CallbackShapes : Ordered(s)
  BY DEF StreamShapes, TransferShapes, CallbackShapes
<1> HIDE DEF Ordered
<1> QED BY <1>1, <1>2, <1>3, <1>4, <1>5, <1>6, <1>7 DEF Shapes

\* A method keeps its wrappers until it returns, so it keeps their order.
LEMMA OrderStep == IInv /\ OrderInv /\ [Next]_vars => OrderInv'
<1> SUFFICES ASSUME IInv, OrderInv, [Next]_vars PROVE OrderInv'
  OBVIOUS
<1> USE DEF IInv, TypeOK
<1>1. ASSUME NEW g \in Goroutine, Invoke(g) PROVE OrderInv'
  <2>1. PICK s \in Program : \E a \in Owned(s.outer), b \in Owned(s.inner) :
          op' = [op EXCEPT ![g] = [name |-> s.name, outer |-> a, inner |-> b, makes |-> s.makes]]
    BY <1>1 DEF Invoke
  <2>2. PICK a \in Owned(s.outer), b \in Owned(s.inner) :
          op' = [op EXCEPT ![g] = [name |-> s.name, outer |-> a, inner |-> b, makes |-> s.makes]]
    BY <2>1
  <2>3. WellShaped(s) /\ Ordered(s)
    BY ShapeFacts, ShapeOrder, ProgramAssumption
  <2>4. b # NoHandle => s.inner # "none" /\ KindOf[b] = s.inner /\ KindOf[a] = s.outer
    BY <2>3 DEF Owned, WellShaped
  <2> QED BY <2>2, <2>3, <2>4 DEF OrderInv, Ordered
<1>2. ASSUME NEW g \in Goroutine, Return(g) PROVE OrderInv'
  BY <1>2 DEF Return, NoOp, OrderInv
<1>3. CASE op' = op
  BY <1>3 DEF OrderInv
<1> QED
  BY <1>1, <1>2, <1>3 DEF Next, Step, vars, RLock, RLockBlocked, RLockResumed, LockAnnounced, Locked,
     Refuse, CheckedOuter, CallNative, NativeFails, NativeUses, NativeGives, NativeReleases,
     ForgetPointer, Unlock

\* Every step leaves the goroutines that wait where the mutex put them: an
\* Unlock admits the parked readers, and no reader leaves before it is in.
LEMMA WaitStep == IInv /\ WaitInv /\ [Next]_vars => WaitInv'
<1> SUFFICES ASSUME IInv, WaitInv, [Next]_vars PROVE WaitInv'
  OBVIOUS
<1> USE NullAssumption DEF IInv, TypeOK, RWTypeOK, Goto
<1>1. ASSUME NEW g \in Goroutine, Invoke(g) PROVE WaitInv'
  BY <1>1 DEF Invoke, Target, PlaceInv, LockInv, WaitInv
<1>2. ASSUME NEW g \in Goroutine, RLock(g) PROVE WaitInv'
  BY <1>2, TargetFacts DEF RLock, AdmitReader, AfterLock, Target, PlaceInv, LockInv, WaitInv
<1>3. ASSUME NEW g \in Goroutine, RLockBlocked(g) PROVE WaitInv'
  BY <1>3, TargetFacts DEF RLockBlocked, ParkReader, Target, PlaceInv, LockInv, WaitInv
<1>4. ASSUME NEW g \in Goroutine, RLockResumed(g) PROVE WaitInv'
  BY <1>4, TargetFacts DEF RLockResumed, AfterLock, Target, PlaceInv, LockInv, WaitInv
<1>5. ASSUME NEW g \in Goroutine, LockAnnounced(g) PROVE WaitInv'
  BY <1>5, TargetFacts DEF LockAnnounced, AnnounceWriter, Target, PlaceInv, LockInv, WaitInv
<1>6. ASSUME NEW g \in Goroutine, Locked(g) PROVE WaitInv'
  BY <1>6, TargetFacts DEF Locked, AfterLock, Target, PlaceInv, LockInv, WaitInv
<1>7. ASSUME NEW g \in Goroutine, Refuse(g) PROVE WaitInv'
  BY <1>7 DEF Refuse, Target, PlaceInv, LockInv, WaitInv
<1>8. ASSUME NEW g \in Goroutine, CheckedOuter(g) PROVE WaitInv'
  BY <1>8 DEF CheckedOuter, Target, PlaceInv, LockInv, WaitInv
<1>9. ASSUME NEW g \in Goroutine, CallNative(g) PROVE WaitInv'
  BY <1>9 DEF CallNative, Target, PlaceInv, LockInv, WaitInv
<1>10. ASSUME NEW g \in Goroutine, NativeFails(g) PROVE WaitInv'
  BY <1>10 DEF NativeFails, Leave, Target, PlaceInv, LockInv, WaitInv
<1>11. ASSUME NEW g \in Goroutine, NativeUses(g) PROVE WaitInv'
  BY <1>11 DEF NativeUses, Leave, Target, PlaceInv, LockInv, WaitInv
<1>12. ASSUME NEW g \in Goroutine, NativeGives(g) PROVE WaitInv'
  BY <1>12 DEF NativeGives, Leave, Target, PlaceInv, LockInv, WaitInv
<1>13. ASSUME NEW g \in Goroutine, NativeReleases(g) PROVE WaitInv'
  BY <1>13 DEF NativeReleases, Target, PlaceInv, LockInv, WaitInv
<1>14. ASSUME NEW g \in Goroutine, ForgetPointer(g) PROVE WaitInv'
  BY <1>14 DEF ForgetPointer, Target, PlaceInv, LockInv, WaitInv
<1>15. ASSUME NEW g \in Goroutine, Unlock(g) PROVE WaitInv'
  <2>1. PICK k \in held[g] :
          /\ held' = [held EXCEPT ![g] = @ \ {k}]
          /\ IF op[g].name = "free" THEN ReleaseWriter(g, k) ELSE ReleaseReader(g, k)
    BY <1>15 DEF Unlock
  <2>2. k \in Handle /\ pc[g] = "unlock" /\ pc' = pc /\ op' = op
    BY <1>15 DEF Unlock
  <2>3. \A f \in Goroutine : pc[f] \in {"parked", "drain"} => f # g /\ Target(f)' = Target(f)
    BY <2>1, <2>2 DEF Target
  <2>4. CASE op[g].name = "free"
    <3>1. rw[k].writer = g /\ rw[k].readers = {}
      BY <2>2, <2>4 DEF LockInv
    <3>2. rw' = [rw EXCEPT ![k] = [readers |-> rw[k].parked, parked |-> {}, writer |-> Nobody]]
      BY <2>1, <2>4 DEF ReleaseWriter
    <3> QED BY <2>2, <2>3, <3>1, <3>2 DEF WaitInv
  <2>5. CASE op[g].name # "free"
    <3>1. rw' = [rw EXCEPT ![k].readers = @ \ {g}]
      BY <2>1, <2>5 DEF ReleaseReader
    <3>2. \A h \in Handle :
            /\ rw'[h].writer = rw[h].writer /\ rw'[h].parked = rw[h].parked
            /\ \A f \in Goroutine \ {g} : f \in rw[h].readers => f \in rw'[h].readers
      BY <2>2, <3>1
    <3> QED BY <2>2, <2>3, <3>2, TargetFacts DEF WaitInv
  <2> QED BY <2>4, <2>5
<1>16. ASSUME NEW g \in Goroutine, Return(g) PROVE WaitInv'
  BY <1>16 DEF Return, Target, PlaceInv, LockInv, WaitInv
<1>17. CASE UNCHANGED vars
  BY <1>17 DEF vars, WaitInv, Target
<1> QED
  BY <1>1, <1>2, <1>3, <1>4, <1>5, <1>6, <1>7, <1>8, <1>9, <1>10, <1>11, <1>12, <1>13, <1>14,
     <1>15, <1>16, <1>17 DEF Next, Step

\* Waiting and locking order together with the inductive invariant.
LInv == IInv /\ WaitInv /\ OrderInv

AllBlocked == \A g \in Goroutine : pc[g] = "idle" \/ Blocked(g)

\* A wrapper somebody waits for, when nobody can move, is locked for reading:
\* the writer they wait for waits for that reader.
LEMMA WaitedForReader ==
  ASSUME LInv, AllBlocked, NEW g \in Goroutine, Blocked(g)
  PROVE  \E r \in Goroutine : op[r].name # "free" /\ Target(g) \in held[r]
<1> USE DEF LInv, IInv
<1> DEFINE h == Target(g)
<1>1. h \in Handle
  BY TargetFacts DEF Blocked
<1>2. rw[h].writer # Nobody
  BY <1>1, NullAssumption DEF Blocked, ReaderAdmitted, WaitInv
<1>3. PICK w \in Goroutine : rw[h].writer = w
  BY <1>1, <1>2 DEF TypeOK, RWTypeOK
<1>4. op[w].name = "free" /\ op[w].outer = h /\ (pc[w] = "drain" \/ h \in held[w])
  BY <1>1, <1>3 DEF LockInv
<1>5. h \notin held[w]
  <2> SUFFICES ASSUME h \in held[w] PROVE FALSE
    OBVIOUS
  <2>1. held[w] = On(op[w]) /\ pc[w] # "idle"
    BY <1>4 DEF PlaceInv, On
  <2> QED BY <2>1 DEF AllBlocked, Blocked, PlaceInv
<1>6. pc[w] = "drain" /\ Target(w) = h
  BY <1>4, <1>5 DEF Target
<1>7. PICK r \in Goroutine : r \in rw[h].readers
  BY <1>1, <1>3, <1>6 DEF AllBlocked, Blocked, WriterAdmitted, TypeOK, RWTypeOK
<1>8. op[r].name # "free" /\ (h \in held[r] \/ (pc[r] = "parked" /\ h = Target(r)))
  BY <1>1, <1>7 DEF LockInv
<1>9. h \in held[r]
  BY <1>7, <1>8 DEF AllBlocked, Blocked, ReaderAdmitted
<1> QED BY <1>8, <1>9

\* A reader that cannot move holds its outer wrapper and waits for its inner
\* one, which comes later in the locking order.
LEMMA BlockedReader ==
  ASSUME LInv, AllBlocked, NEW r \in Goroutine, op[r].name # "free",
         NEW h \in Handle, h \in held[r]
  PROVE  /\ Blocked(r) /\ Target(r) \in Handle
         /\ LockRank(KindOf[h]) < LockRank(KindOf[Target(r)])
<1> USE DEF LInv, IInv
<1>1. pc[r] = "parked" /\ Blocked(r)
  BY DEF AllBlocked, Blocked, PlaceInv
<1>2. Target(r) \in Handle /\ Target(r) \in On(op[r]) /\ Target(r) \notin held[r]
  BY <1>1, TargetFacts
<1>3. op[r].outer \in held[r] /\ h \in On(op[r])
  BY DEF PlaceInv
<1>4. Target(r) = op[r].inner /\ h = op[r].outer
  BY <1>2, <1>3 DEF Target, On
<1> QED BY <1>1, <1>2, <1>4, HandleAssumption DEF OrderInv

\* So a chain of waiting goroutines would climb the locking order for ever,
\* and the order has three ranks.
LEMMA LInvNoStuckCalls == LInv => NoStuckCalls
<1> SUFFICES ASSUME LInv, AllBlocked, NEW g \in Goroutine, Blocked(g) PROVE FALSE
  BY DEF NoStuckCalls, AllBlocked
<1>1. ASSUME NEW f \in Goroutine, Blocked(f)
      PROVE  \E r \in Goroutine :
               /\ Blocked(r) /\ Target(f) \in Handle /\ Target(r) \in Handle
               /\ LockRank(KindOf[Target(f)]) < LockRank(KindOf[Target(r)])
  <2>1. Target(f) \in Handle
    BY <1>1, TargetFacts DEF Blocked, LInv
  <2>2. PICK r \in Goroutine : op[r].name # "free" /\ Target(f) \in held[r]
    BY <1>1, WaitedForReader
  <2> QED BY <2>1, <2>2, BlockedReader
<1>2. PICK f1 \in Goroutine : /\ Blocked(f1) /\ Target(f1) \in Handle
                              /\ LockRank(KindOf[Target(g)]) < LockRank(KindOf[Target(f1)])
  BY <1>1
<1>3. PICK f2 \in Goroutine : /\ Blocked(f2) /\ Target(f2) \in Handle
                              /\ LockRank(KindOf[Target(f1)]) < LockRank(KindOf[Target(f2)])
  BY <1>1, <1>2
<1>4. PICK f3 \in Goroutine : LockRank(KindOf[Target(f2)]) < LockRank(KindOf[Target(f3)])
  BY <1>1, <1>3
<1> QED BY <1>2, <1>3, <1>4 DEF LockRank

\* Whatever methods the goroutines call on whatever wrappers, and however many
\* they are: as long as one of them waits for a lock, one of them can move,
\* although callback registrations and stream transfers nest their read locks
\* under wrappers that Free and Close may be asking for.
THEOREM NothingIsStuck == Spec => []NoStuckCalls
<1>1. Init => WaitInv /\ OrderInv
  BY DEF Init, RWInit, NoOp, WaitInv, OrderInv
<1>2. LInv /\ [Next]_vars => LInv'
  BY TypeStep, PlaceStep, LockStep, PointerStep, RefsStep, WaitStep, OrderStep DEF LInv, IInv
<1>3. LInv => NoStuckCalls
  BY LInvNoStuckCalls
<1> QED BY <1>1, <1>2, <1>3, InitIInv, PTL DEF Spec, LInv

-------------------------------------------------------------------------------
(* NativeHandle implements ReferenceContract *)

\* The wrappers start as the contract does: none made, none in use.
LEMMA ContractInit == Init => Contract!Init
BY DEF Init, NoOp, Contract!Init, StatusOf, UsersOf

\* A step that leaves the wrappers' pointers, the set of wrappers and the
\* goroutines in libvirt alone is invisible to the contract.
LEMMA Invisible ==
  ASSUME \A h \in Handle : StatusOf(h)' = StatusOf(h) /\ UsersOf(h)' = UsersOf(h)
  PROVE  UNCHANGED Contract!vars
BY DEF Contract!vars

\* Every step of the wrappers is a step of the contract or invisible to it.
LEMMA ContractStep == IInv /\ [Next]_vars => [Contract!Next]_Contract!vars
<1> SUFFICES ASSUME IInv, [Next]_vars PROVE Contract!Next \/ UNCHANGED Contract!vars
  OBVIOUS
<1> USE DEF IInv, TypeOK, Goto
<1>1. ASSUME NEW g \in Goroutine,
             \/ Invoke(g) \/ RLock(g) \/ RLockBlocked(g) \/ RLockResumed(g) \/ LockAnnounced(g)
             \/ Locked(g) \/ Refuse(g) \/ CheckedOuter(g) \/ Unlock(g)
      PROVE  UNCHANGED Contract!vars
  <2>1. \A h \in Handle : StatusOf(h)' = StatusOf(h)
    BY <1>1 DEF Invoke, RLock, RLockBlocked, RLockResumed, LockAnnounced, Locked, Refuse,
                CheckedOuter, Unlock, AfterLock, StatusOf, BeingForgotten
  <2>2. \A h \in Handle : UsersOf(h)' = UsersOf(h)
    BY <1>1 DEF Invoke, RLock, RLockBlocked, RLockResumed, LockAnnounced, Locked, Refuse,
                CheckedOuter, Unlock, AfterLock, UsersOf
  <2> QED BY <2>1, <2>2, Invisible
<1>2. ASSUME NEW g \in Goroutine, CallNative(g) PROVE Contract!Next \/ UNCHANGED Contract!vars
  <2>1. \A h \in Handle : StatusOf(h)' = StatusOf(h)
    BY <1>2 DEF CallNative, StatusOf, BeingForgotten
  <2>2. CASE op[g].name = "free"
    <3>1. \A h \in Handle : UsersOf(h)' = UsersOf(h)
      BY <1>2, <2>2 DEF CallNative, UsersOf
    <3> QED BY <2>1, <3>1, Invisible
  <2>3. CASE op[g].name # "free"
    <3>1. \A h \in Handle : UsersOf(h)' = IF h \in On(op[g]) THEN UsersOf(h) \cup {g} ELSE UsersOf(h)
      BY <1>2, <2>3 DEF CallNative, UsersOf
    <3>2. \A h \in Handle : g \notin UsersOf(h)
      BY <1>2 DEF CallNative, UsersOf
    <3>3. \A h \in On(op[g]) : ~BeingForgotten(h)
      <4> SUFFICES ASSUME NEW h \in On(op[g]), NEW f \in Goroutine, pc[f] = "freed", op[f].outer = h
                   PROVE  FALSE
        BY DEF BeingForgotten
      <4>1. h \in Handle /\ h \in held[f] /\ h \in held[g] /\ op[f].name = "free"
        BY <1>2, HandleAssumption DEF CallNative, PlaceInv, On
      <4> QED BY <2>3, <4>1 DEF LockInv
    <3>4. \A h \in On(op[g]) : StatusOf(h) = "open" /\ h \in Handle
      BY <1>2, <3>3 DEF CallNative, Closed, StatusOf, PointerInv
    <3>5. Contract!Enter(g, On(op[g]))
      BY <2>1, <3>1, <3>2, <3>4 DEF Contract!Enter
    <3>6. On(op[g]) \in SUBSET Handle
      BY <3>4
    <3> QED BY <3>5, <3>6 DEF Contract!Next
  <2> QED BY <2>2, <2>3
<1>3. ASSUME NEW g \in Goroutine, NativeFails(g) \/ NativeUses(g) \/ NativeGives(g)
      PROVE  Contract!Next
  <2>1. \A h \in made : ptr'[h] = ptr[h]
    BY <1>3 DEF NativeFails, NativeUses, NativeGives, Unused
  <2>2. \A h \in Handle : StatusOf(h)' = StatusOf(h)
    BY <1>3, <2>1 DEF NativeFails, NativeUses, NativeGives, Leave, StatusOf, BeingForgotten
  <2>3. \A h \in Handle : UsersOf(h)' = UsersOf(h) \ {g}
    BY <1>3 DEF NativeFails, NativeUses, NativeGives, Leave, UsersOf
  <2>4. Contract!Leave(g)
    BY <2>2, <2>3 DEF Contract!Leave
  <2> QED BY <2>4 DEF Contract!Next
<1>4. ASSUME NEW g \in Goroutine, NativeReleases(g) PROVE Contract!Next
  <2> DEFINE k == op[g].outer
  <2>1. k \in Handle /\ k \in made /\ On(op[g]) = {k} /\ ptr[k] # Null
    BY <1>4, HandleAssumption DEF NativeReleases, PlaceInv, PointerInv, On
  <2>2. UsersOf(k) = {}
    BY <1>4, <2>1, IInvReleaseRunsAlone DEF NativeReleases, ReleaseRunsAlone, UsersOf
  <2>3. ~BeingForgotten(k)
    BY <1>4, <2>1, Undisturbed DEF NativeReleases
  <2>4. \A h \in Handle : UsersOf(h)' = UsersOf(h)
    BY <1>4 DEF NativeReleases, UsersOf
  <2>5. \A h : BeingForgotten(h)' <=> BeingForgotten(h) \/ h = k
    BY <1>4 DEF NativeReleases, BeingForgotten
  <2>6. \A h \in Handle : StatusOf(h)' = IF h = k THEN "closed" ELSE StatusOf(h)
    BY <1>4, <2>1, <2>5 DEF NativeReleases, StatusOf
  <2>7. StatusOf(k) = "open"
    BY <2>1, <2>3 DEF StatusOf
  <2>8. Contract!Release(k)
    BY <2>1, <2>2, <2>4, <2>6, <2>7 DEF Contract!Release
  <2> QED BY <2>1, <2>8 DEF Contract!Next
<1>5. ASSUME NEW g \in Goroutine, ForgetPointer(g) PROVE UNCHANGED Contract!vars
  <2> DEFINE k == op[g].outer
  <2>1. BeingForgotten(k) /\ k \in Handle
    BY <1>5 DEF ForgetPointer, BeingForgotten, PlaceInv
  <2>2. \A h : h # k => (BeingForgotten(h)' <=> BeingForgotten(h))
    BY <1>5 DEF ForgetPointer, BeingForgotten
  <2>3. \A h \in Handle : StatusOf(h)' = StatusOf(h)
    BY <1>5, <2>1, <2>2 DEF ForgetPointer, StatusOf
  <2>4. \A h \in Handle : UsersOf(h)' = UsersOf(h)
    BY <1>5 DEF ForgetPointer, UsersOf
  <2> QED BY <2>3, <2>4, Invisible
<1>6. ASSUME NEW g \in Goroutine, Return(g) PROVE Contract!Next
  <2>1. \A h \in fresh[g] : h \in Handle /\ h \notin made /\ ptr[h] # Null /\ ~BeingForgotten(h)
    BY HandleAssumption DEF PointerInv, BeingForgotten, PlaceInv, On
  <2>2. \A h : BeingForgotten(h)' <=> BeingForgotten(h)
    BY <1>6 DEF Return, BeingForgotten
  <2>3. \A h \in Handle : StatusOf(h)' = IF h \in fresh[g] THEN "open" ELSE StatusOf(h)
    BY <1>6, <2>1, <2>2 DEF Return, StatusOf
  <2>4. \A h \in Handle : UsersOf(h)' = UsersOf(h)
    BY <1>6 DEF Return, UsersOf
  <2>5. \A h \in fresh[g] : StatusOf(h) = "none"
    BY <2>1 DEF StatusOf
  <2>6. Contract!Make(fresh[g])
    BY <2>1, <2>3, <2>4, <2>5 DEF Contract!Make
  <2> QED BY <2>6 DEF Contract!Next
<1>7. CASE UNCHANGED vars
  BY <1>7 DEF vars, Contract!vars, StatusOf, UsersOf, BeingForgotten
<1> QED
  BY <1>1, <1>2, <1>3, <1>4, <1>5, <1>6, <1>7 DEF Next, Step

\* Every behaviour of the wrappers is one the ownership contract allows: a
\* wrapper is released once, from open, and never under a running call.
THEOREM Implementation == Spec => ImplementsContract
BY ContractInit, ContractStep, Invariance, PTL DEF Spec, ImplementsContract, Contract!Spec
===============================================================================
