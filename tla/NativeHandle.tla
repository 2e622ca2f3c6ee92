----------------------------- MODULE NativeHandle -----------------------------
(***************************************************************************)
(* The wrappers of the high-level API (Connect, Domain, and every type     *)
(* built on nativeObject) and the native references they own.              *)
(*                                                                         *)
(* A wrapper holds one counted reference to a native object and a          *)
(* sync.RWMutex.  A method locks its wrapper for reading, checks that the  *)
(* pointer is there, calls libvirt with it and unlocks; Free and Close do  *)
(* the same with the write lock and forget the pointer after a successful  *)
(* release.  Goroutines call methods in any order, at the same time, on    *)
(* the same wrappers.                                                      *)
(***************************************************************************)
EXTENDS Naturals, FiniteSets, HandleShapes

CONSTANTS Goroutine,  \* the goroutines of the program
          Handle,     \* the wrappers the program may come to own
          KindOf,     \* KindOf[h]: the Go type of wrapper h
          Object,     \* the addresses libvirt may give to native objects
          Program,    \* the shapes of the methods the goroutines call
          Missing,    \* names whose symbols the loaded library does not export
          MaxList,    \* bound: the longest list libvirt returns
          Nobody, NoHandle, Null

ASSUME HandleAssumption == IsFiniteSet(Handle) /\ NoHandle \notin Handle
ASSUME KindAssumption == KindOf \in [Handle -> Kinds]
ASSUME ProgramAssumption == Program \subseteq Shapes /\ Missing \subseteq Names
ASSUME NullAssumption == Null \notin Object /\ Nobody \notin Goroutine
ASSUME ListAssumption == MaxList \in Nat

VARIABLES
  rw,     \* the wrappers' mutexes
  pc,     \* pc[g]: where goroutine g is in its method
  op,     \* op[g]: the method it runs and the wrappers it runs it on
  held,   \* held[g]: the wrappers it has locked
  args,   \* args[g]: the pointers its native call was given
  fresh,  \* fresh[g]: wrappers for the references its native call returned
  made,   \* the wrappers returned to the program so far
  ptr,    \* ptr[h]: the ptr field of wrapper h
  refs    \* refs[o]: libvirt's reference count of object o (0: no object there)

vars == <<rw, pc, op, held, args, fresh, made, ptr, refs>>

INSTANCE RWMutex WITH Mutex <- Handle

Pcs == {"idle", "lock", "parked", "drain", "check", "native", "freed", "unlock"}

Ops == [name : Names, outer : Handle \cup {NoHandle}, inner : Handle \cup {NoHandle},
        makes : Kinds \cup {"none"}]

NoOp == [name |-> "use", outer |-> NoHandle, inner |-> NoHandle, makes |-> "none"]

TypeOK ==
  /\ RWTypeOK
  /\ pc \in [Goroutine -> Pcs]
  /\ op \in [Goroutine -> Ops]
  /\ held \in [Goroutine -> SUBSET Handle]
  /\ args \in [Goroutine -> SUBSET Object]
  /\ fresh \in [Goroutine -> SUBSET Handle]
  /\ made \in SUBSET Handle
  /\ ptr \in [Handle -> Object \cup {Null}]
  /\ refs \in [Object -> Nat]

Init ==
  /\ RWInit
  /\ pc = [g \in Goroutine |-> "idle"]
  /\ op = [g \in Goroutine |-> NoOp]
  /\ held = [g \in Goroutine |-> {}]
  /\ args = [g \in Goroutine |-> {}]
  /\ fresh = [g \in Goroutine |-> {}]
  /\ made = {}
  /\ ptr = [h \in Handle |-> Null]
  /\ refs = [o \in Object |-> 0]

-------------------------------------------------------------------------------
(* Locking: the entry of every method *)

\* The wrappers a method runs on.
On(o) == {o.outer, o.inner} \ {NoHandle}

\* The wrapper it locks next: the outer one first.
Target(g) == IF op[g].outer \notin held[g] THEN op[g].outer ELSE op[g].inner

Goto(g, label) == pc' = [pc EXCEPT ![g] = label]

Owned(k) == IF k = "none" THEN {NoHandle} ELSE {h \in made : KindOf[h] = k}

\* The program calls a method on wrappers it owns, closed ones included.
Invoke(g) ==
  /\ pc[g] = "idle"
  /\ \E s \in Program : \E a \in Owned(s.outer), b \in Owned(s.inner) :
       /\ op' = [op EXCEPT ![g] = [name |-> s.name, outer |-> a, inner |-> b, makes |-> s.makes]]
       /\ Goto(g, IF s.outer = "none" THEN "check" ELSE "lock")
  /\ UNCHANGED <<rw, held, args, fresh, made, ptr, refs>>

\* Where a method goes once it has locked h: "register" methods check each
\* pointer before the next lock, the others check all of them at the end.
AfterLock(g, h) ==
  /\ held' = [held EXCEPT ![g] = @ \cup {h}]
  /\ Goto(g, IF op[g].name = "register" \/ held[g] \cup {h} = On(op[g]) THEN "check" ELSE "lock")

RLock(g) ==
  /\ pc[g] = "lock" /\ op[g].name # "free"
  /\ AdmitReader(g, Target(g))
  /\ AfterLock(g, Target(g))
  /\ UNCHANGED <<op, args, fresh, made, ptr, refs>>

RLockBlocked(g) ==
  /\ pc[g] = "lock" /\ op[g].name # "free"
  /\ ParkReader(g, Target(g))
  /\ Goto(g, "parked")
  /\ UNCHANGED <<op, held, args, fresh, made, ptr, refs>>

RLockResumed(g) ==
  /\ pc[g] = "parked"
  /\ ReaderAdmitted(g, Target(g))
  /\ AfterLock(g, Target(g))
  /\ UNCHANGED <<rw, op, args, fresh, made, ptr, refs>>

LockAnnounced(g) ==
  /\ pc[g] = "lock" /\ op[g].name = "free"
  /\ AnnounceWriter(g, Target(g))
  /\ Goto(g, "drain")
  /\ UNCHANGED <<op, held, args, fresh, made, ptr, refs>>

Locked(g) ==
  /\ pc[g] = "drain"
  /\ WriterAdmitted(g, Target(g))
  /\ AfterLock(g, Target(g))
  /\ UNCHANGED <<rw, op, args, fresh, made, ptr, refs>>

-------------------------------------------------------------------------------
(* The checks before the native call *)

\* Mutant: a two-wrapper method checks the outer pointer only.
Closed_OuterOnly(g) == op[g].outer \in held[g] /\ ptr[op[g].outer] = Null

Closed(g) == \E h \in held[g] : ptr[h] = Null

\* ErrClosed, or the symbol is missing: the call is not made.
Refuse(g) ==
  /\ pc[g] = "check"
  /\ \/ Closed(g)
     \/ held[g] = On(op[g]) /\ op[g].name \in Missing
  /\ Goto(g, "unlock")
  /\ UNCHANGED <<rw, op, held, args, fresh, made, ptr, refs>>

\* A "register" method has checked its outer wrapper and locks the inner one.
CheckedOuter(g) ==
  /\ pc[g] = "check" /\ ~Closed(g) /\ held[g] # On(op[g])
  /\ Goto(g, "lock")
  /\ UNCHANGED <<rw, op, held, args, fresh, made, ptr, refs>>

\* Mutant: the pointer is copied under the lock and used after it.
CallNative_Unlocked(g) ==
  /\ pc[g] = "check" /\ ~Closed(g) /\ held[g] = On(op[g]) /\ op[g].name \notin Missing
  /\ args' = [args EXCEPT ![g] = {ptr[h] : h \in held[g]}]
  /\ Goto(g, "native")
  /\ IF op[g].name = "free" THEN UNCHANGED <<rw, held>>
     ELSE /\ rw' = [h \in Handle |-> [rw[h] EXCEPT !.readers = @ \ {g}]]
          /\ held' = [held EXCEPT ![g] = {}]
  /\ UNCHANGED <<op, fresh, made, ptr, refs>>

\* nativeCall runs the closure, which reads the pointers under the locks.
CallNative(g) ==
  /\ pc[g] = "check" /\ ~Closed(g) /\ held[g] = On(op[g]) /\ op[g].name \notin Missing
  /\ args' = [args EXCEPT ![g] = {ptr[h] : h \in held[g]}]
  /\ Goto(g, "native")
  /\ UNCHANGED <<rw, op, held, fresh, made, ptr, refs>>

-------------------------------------------------------------------------------
(* The native call, and what libvirt does to the references *)

Leave(g) ==
  /\ args' = [args EXCEPT ![g] = {}]
  /\ Goto(g, "unlock")

\* Mutant: Free forgets the pointer whatever libvirt answered.
NativeFails_Forgets(g) ==
  /\ pc[g] = "native"
  /\ Leave(g)
  /\ ptr' = IF op[g].name = "free" THEN [ptr EXCEPT ![op[g].outer] = Null] ELSE ptr
  /\ UNCHANGED <<rw, op, held, fresh, made, refs>>

\* A failed call changes no reference; a failed release keeps the reference.
NativeFails(g) ==
  /\ pc[g] = "native"
  /\ Leave(g)
  /\ UNCHANGED <<rw, op, held, fresh, made, ptr, refs>>

NativeUses(g) ==
  /\ pc[g] = "native" /\ op[g].name \in {"use", "register"}
  /\ Leave(g)
  /\ UNCHANGED <<rw, op, held, fresh, made, ptr, refs>>

Unused == Handle \ (made \cup UNION {fresh[g] : g \in Goroutine})

\* The references libvirt may return to g's method for the new wrappers: as
\* many as the method asks for, each to an object of its own; an address in
\* use keeps its type until the object is gone.
Offered(g, new, at) ==
  /\ IF op[g].name = "list" THEN Cardinality(new) <= MaxList ELSE Cardinality(new) = 1
  /\ \A h, k \in new : at[h] = at[k] => h = k
  /\ op[g].name = "ref" => \A h \in new : at[h] \in args[g]
  /\ \A h \in new : \A k \in Handle :
       refs[at[h]] > 0 /\ ptr[k] = at[h] => KindOf[k] = KindOf[h]

\* libvirt returns one counted reference per new wrapper: to an object that
\* exists already or to a new one, whose address may have been used before.
NativeGives(g) ==
  /\ pc[g] = "native" /\ op[g].name \in {"open", "lookup", "list", "ref"}
  /\ \E new \in SUBSET {h \in Unused : KindOf[h] = op[g].makes} : \E at \in [new -> Object] :
       /\ Offered(g, new, at)
       /\ ptr' = [h \in Handle |-> IF h \in new THEN at[h] ELSE ptr[h]]
       /\ refs' = [o \in Object |-> IF \E h \in new : at[h] = o THEN refs[o] + 1 ELSE refs[o]]
       /\ fresh' = [fresh EXCEPT ![g] = new]
  /\ Leave(g)
  /\ UNCHANGED <<rw, op, held, made>>

NativeReleases(g) ==
  /\ pc[g] = "native" /\ op[g].name = "free"
  /\ refs' = [o \in Object |-> IF o \in args[g] THEN refs[o] - 1 ELSE refs[o]]
  /\ args' = [args EXCEPT ![g] = {}]
  /\ Goto(g, "freed")
  /\ UNCHANGED <<rw, op, held, fresh, made, ptr>>

\* err == nil: the wrapper forgets its pointer, still under the write lock.
ForgetPointer(g) ==
  /\ pc[g] = "freed"
  /\ ptr' = [ptr EXCEPT ![op[g].outer] = Null]
  /\ Goto(g, "unlock")
  /\ UNCHANGED <<rw, op, held, args, fresh, made, refs>>

-------------------------------------------------------------------------------
(* The way out: the deferred unlocks, last lock first, then the return *)

\* Mutant: the inner wrapper's deferred unlock is missing.
Unlock_OuterOnly(g) ==
  /\ pc[g] = "unlock" /\ held[g] # {}
  /\ held' = [held EXCEPT ![g] = {}]
  /\ IF op[g].name = "free" THEN ReleaseWriter(g, op[g].outer) ELSE ReleaseReader(g, op[g].outer)
  /\ UNCHANGED <<pc, op, args, fresh, made, ptr, refs>>

Unlock(g) ==
  /\ pc[g] = "unlock"
  /\ \E h \in held[g] :
       /\ op[g].inner \in held[g] => h = op[g].inner
       /\ held' = [held EXCEPT ![g] = @ \ {h}]
       /\ IF op[g].name = "free" THEN ReleaseWriter(g, h) ELSE ReleaseReader(g, h)
  /\ UNCHANGED <<pc, op, args, fresh, made, ptr, refs>>

\* Mutant: an error path drops the references it was given.
Return_Drops(g) ==
  /\ pc[g] = "unlock" /\ held[g] = {}
  /\ fresh' = [fresh EXCEPT ![g] = {}]
  /\ op' = [op EXCEPT ![g] = NoOp]
  /\ Goto(g, "idle")
  /\ UNCHANGED <<rw, held, args, made, ptr, refs>>

\* The new wrappers reach the caller.
Return(g) ==
  /\ pc[g] = "unlock" /\ held[g] = {}
  /\ made' = made \cup fresh[g]
  /\ fresh' = [fresh EXCEPT ![g] = {}]
  /\ op' = [op EXCEPT ![g] = NoOp]
  /\ Goto(g, "idle")
  /\ UNCHANGED <<rw, held, args, ptr, refs>>

Step(g) ==
  \/ RLock(g) \/ RLockBlocked(g) \/ RLockResumed(g) \/ LockAnnounced(g) \/ Locked(g)
  \/ Refuse(g) \/ CheckedOuter(g) \/ CallNative(g)
  \/ NativeFails(g) \/ NativeUses(g) \/ NativeGives(g) \/ NativeReleases(g) \/ ForgetPointer(g)
  \/ Unlock(g) \/ Return(g)

Next == \E g \in Goroutine : Invoke(g) \/ Step(g)

Spec == Init /\ [][Next]_vars

(***************************************************************************)
(* A goroutine inside a method keeps running and libvirt answers every     *)
(* call (weak fairness); Go hands a contended mutex to the writer that has *)
(* waited longest (starvation mode), so a writer that keeps finding the    *)
(* lock taken gets it (strong fairness).  The program need not call        *)
(* anything.                                                               *)
(***************************************************************************)
Fairness == \A g \in Goroutine : WF_vars(Step(g)) /\ SF_vars(LockAnnounced(g))

FairSpec == Spec /\ Fairness

-------------------------------------------------------------------------------
(* Properties *)

\* The release of g's wrapper has happened and its pointer is still there.
BeingForgotten(h) == \E g \in Goroutine : pc[g] = "freed" /\ op[g].outer = h

\* The wrappers, returned or about to be, that own a reference to o.
Owners(o) ==
  {h \in made \cup UNION {fresh[g] : g \in Goroutine} : ptr[h] = o /\ ~BeingForgotten(h)}

\* Every native reference has exactly one wrapper that will release it: none
\* leaks, none is released twice (resource.go: every wrapper and objectFree).
RefsBalanced == \A o \in Object : refs[o] = Cardinality(Owners(o))

\* No native call works on a pointer whose wrapper has lost its reference
\* meanwhile: Free and Close wait for the calls that are out (objectCall's
\* RLock around nativeCall against objectFree's Lock).
NoUseAfterFree ==
  \A g \in Goroutine : pc[g] = "native" =>
    /\ args[g] = {ptr[h] : h \in On(op[g])}
    /\ \A o \in args[g] : o \in Object /\ refs[o] > 0

\* While a release is in libvirt, no other call is in libvirt on that wrapper.
ReleaseRunsAlone ==
  \A f, g \in Goroutine :
    /\ f # g /\ op[f].name = "free"
    /\ pc[f] \in {"native", "freed"} /\ pc[g] \in {"native", "freed"}
    => op[f].outer \notin On(op[g])

\* A goroutine that waits for a lock.
Blocked(g) ==
  \/ pc[g] = "parked" /\ ~ReaderAdmitted(g, Target(g))
  \/ pc[g] = "drain" /\ ~WriterAdmitted(g, Target(g))
  \/ pc[g] = "lock" /\ op[g].name = "free" /\ rw[Target(g)].writer # Nobody

\* Two-wrapper methods take nested read locks, which a pending Free between
\* them could turn into a deadlock: somebody can always move.
NoStuckCalls ==
  (\E g \in Goroutine : Blocked(g)) => \E g \in Goroutine : pc[g] # "idle" /\ ~Blocked(g)

\* Once closed, a wrapper stays closed; a wrapper loses its pointer only after
\* libvirt released the reference, never on a failed release.
PointerLostOnlyByRelease ==
  [][\A h \in Handle : ptr'[h] # ptr[h] =>
       \/ h \notin made /\ ptr[h] = Null
       \/ h \in made /\ ptr'[h] = Null /\ BeingForgotten(h)]_vars

\* Every method returns: no reader is starved by Free, no Free by readers.
CallsReturn == \A g \in Goroutine : pc[g] # "idle" ~> pc[g] = "idle"

StatusOf(h) ==
  IF h \notin made THEN "none"
  ELSE IF ptr[h] = Null \/ BeingForgotten(h) THEN "closed" ELSE "open"

UsersOf(h) == {g \in Goroutine : pc[g] = "native" /\ op[g].name # "free" /\ h \in On(op[g])}

\* The wrappers implement the ownership contract: a wrapper is released once,
\* only from open and only while no native call is at work on it.
Contract == INSTANCE ReferenceContract WITH
  status <- [h \in Handle |-> StatusOf(h)],
  users  <- [h \in Handle |-> UsersOf(h)]

ImplementsContract == Contract!Spec

-------------------------------------------------------------------------------
(* The inductive invariant *)

\* Where a goroutine may be, and what it has locked there.
PlaceInv ==
  \A g \in Goroutine :
    /\ held[g] \subseteq On(op[g])
    /\ held[g] # {} => op[g].outer \in held[g]
    /\ op[g].outer = NoHandle => op[g].inner = NoHandle
    /\ op[g].name = "free" => op[g].outer \in Handle /\ op[g].inner = NoHandle
    /\ pc[g] = "idle" => held[g] = {}
    /\ pc[g] \in {"lock", "parked", "drain"} => held[g] # On(op[g])
    /\ pc[g] = "parked" => op[g].name # "free"
    /\ pc[g] \in {"drain", "freed"} => op[g].name = "free"
    /\ pc[g] \in {"native", "freed"} => held[g] = On(op[g])

\* The mutexes and the goroutines agree on who is in: free holds a wrapper
\* alone, the other methods hold it together with other readers.
LockInv ==
  \A g \in Goroutine, h \in Handle :
    /\ h \in held[g] => IF op[g].name = "free" THEN rw[h].writer = g /\ rw[h].readers = {}
                                               ELSE g \in rw[h].readers
    /\ g \in rw[h].readers =>
         /\ op[g].name # "free"
         /\ h \in held[g] \/ (pc[g] = "parked" /\ h = Target(g))
    /\ g \in rw[h].parked => pc[g] = "parked" /\ h = Target(g) /\ g \notin rw[h].readers
    /\ rw[h].writer = g =>
         /\ op[g].name = "free" /\ op[g].outer = h
         /\ pc[g] = "drain" \/ h \in held[g]

\* A pointer belongs to a wrapper the program has or is about to get, and the
\* calls in libvirt work on pointers their wrappers still hold.
PointerInv ==
  /\ \A h \in Handle : ptr[h] # Null => h \notin Unused
  /\ \A g \in Goroutine :
       /\ On(op[g]) \subseteq made
       /\ fresh[g] \cap made = {}
       /\ \A f \in Goroutine : f # g => fresh[f] \cap fresh[g] = {}
       /\ \A h \in fresh[g] : ptr[h] # Null
       /\ fresh[g] # {} => pc[g] = "unlock"
       /\ pc[g] \in {"native", "freed"} => \A h \in On(op[g]) : ptr[h] # Null
       /\ pc[g] = "native" => args[g] = {ptr[h] : h \in On(op[g])}

IInv == TypeOK /\ PlaceInv /\ LockInv /\ PointerInv /\ RefsBalanced

\* The goroutines that wait are where the mutex left them: a parked reader is
\* on its mutex's list or has been admitted, a draining writer is the pending
\* one, and readers park behind a writer only.
WaitInv ==
  /\ \A g \in Goroutine :
       /\ pc[g] = "parked" => g \in rw[Target(g)].readers \cup rw[Target(g)].parked
       /\ pc[g] = "drain" => rw[Target(g)].writer = g
  /\ \A h \in Handle : rw[h].parked # {} => rw[h].writer # Nobody

\* The order in which the API's two-wrapper methods lock: connections and pools
\* before volumes, volumes before everything else.
LockRank(k) == IF k \in {"Connect", "StoragePool"} THEN 0 ELSE IF k = "StorageVol" THEN 1 ELSE 2

\* Every method under way locks its two wrappers in that order.
OrderInv ==
  \A g \in Goroutine :
    op[g].inner # NoHandle => LockRank(KindOf[op[g].outer]) < LockRank(KindOf[op[g].inner])
===============================================================================
