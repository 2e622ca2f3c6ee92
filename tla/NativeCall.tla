------------------------------ MODULE NativeCall ------------------------------
(***************************************************************************)
(* nativeCall and lastError of native.go: how a failed libvirt call gets   *)
(* its error.                                                              *)
(*                                                                         *)
(* libvirt keeps the last error of each OS thread.  The Go scheduler moves *)
(* goroutines between threads at any time, so nativeCall wires its         *)
(* goroutine to its thread, clears the thread's error, makes the call and  *)
(* reads the error back before it lets the thread go.  A call that runs    *)
(* the event loop may call a Go callback on its own thread, and the        *)
(* callback may make calls of its own.                                     *)
(***************************************************************************)
EXTENDS Naturals, FiniteSets

CONSTANTS Goroutine, Thread,
          Call,     \* the calls made, each once
          Looping,  \* those of them that run callbacks (virEventRunDefaultImpl)
          Exports,  \* which of virResetLastError and virGetLastError exist
          None

ErrorSymbols == {"virResetLastError", "virGetLastError"}

ASSUME CallAssumption == Looping \subseteq Call /\ Exports \subseteq ErrorSymbols
ASSUME NoneAssumption == None \notin Call /\ None \notin Thread /\ None \notin Goroutine

VARIABLES
  thread,  \* thread[g]: the thread goroutine g runs on, if it runs
  pins,    \* pins[g]: the calls whose LockOSThread is in force
  home,    \* home[g]: the thread it is wired to meanwhile
  error,   \* error[t]: the call that recorded thread t's last error
  pc,      \* pc[a]: where call a is
  by,      \* by[a]: the goroutine that makes it
  parent,  \* parent[a]: the call whose callback makes it
  raised,  \* the calls that failed and recorded an error
  got      \* got[a]: the call whose error a's caller is shown

sched == <<thread, pins, home>>
vars == <<thread, pins, home, error, pc, by, parent, raised, got>>

Wired == {"reset", "call", "callback", "read", "unlock"}

TypeOK ==
  /\ thread \in [Goroutine -> Thread \cup {None}]
  /\ pins \in [Goroutine -> SUBSET Call]
  /\ home \in [Goroutine -> Thread \cup {None}]
  /\ error \in [Thread -> Call \cup {None}]
  /\ pc \in [Call -> {"new", "entry", "lock", "done"} \cup Wired]
  /\ by \in [Call -> Goroutine \cup {None}]
  /\ parent \in [Call -> Call \cup {None}]
  /\ raised \in SUBSET Call
  /\ got \in [Call -> Call \cup {None}]
  /\ \A a \in Call : pc[a] # "new" => by[a] \in Goroutine

Init ==
  /\ thread = [g \in Goroutine |-> None]
  /\ pins = [g \in Goroutine |-> {}]
  /\ home = [g \in Goroutine |-> None]
  /\ error = [t \in Thread |-> None]
  /\ pc = [a \in Call |-> "new"]
  /\ by = [a \in Call |-> None]
  /\ parent = [a \in Call |-> None]
  /\ raised = {}
  /\ got = [a \in Call |-> None]

-------------------------------------------------------------------------------
(* The Go scheduler: a wired goroutine runs on its thread and nothing else does *)

Schedule(g, t) ==
  /\ thread[g] = None
  /\ \A f \in Goroutine \ {g} : thread[f] # t /\ home[f] # t
  /\ home[g] \in {None, t}
  /\ thread' = [thread EXCEPT ![g] = t]
  /\ UNCHANGED <<pins, home, error, pc, by, parent, raised, got>>

Preempt(g) ==
  /\ thread[g] # None
  /\ thread' = [thread EXCEPT ![g] = None]
  /\ UNCHANGED <<pins, home, error, pc, by, parent, raised, got>>

-------------------------------------------------------------------------------
(* One call *)

Goto(a, label) == pc' = [pc EXCEPT ![a] = label]

Here(a) == thread[by[a]]

At(a, label) == pc[a] = label /\ Here(a) # None

Begin(a, g) ==
  /\ pc[a] = "new" /\ thread[g] # None
  /\ \A b \in Call : by[b] = g => pc[b] = "done"
  /\ by' = [by EXCEPT ![a] = g]
  /\ Goto(a, "entry")
  /\ UNCHANGED <<sched, error, parent, raised, got>>

\* The event loop runs a callback, which makes a call on the same goroutine.
CallBack(a, p) ==
  /\ pc[a] = "new" /\ p \in Looping /\ At(p, "call")
  /\ by' = [by EXCEPT ![a] = by[p]]
  /\ parent' = [parent EXCEPT ![a] = p]
  /\ pc' = [pc EXCEPT ![a] = "entry", ![p] = "callback"]
  /\ UNCHANGED <<sched, error, raised, got>>

\* A call returns to its caller, or to the event loop its callback ran in.
ReturnFrom(a) ==
  pc' = [b \in Call |-> IF b = a THEN "done" ELSE IF b = parent[a] THEN "call" ELSE pc[b]]

\* The symbol is missing: nothing native is touched.
Refuse(a) ==
  /\ At(a, "entry")
  /\ ReturnFrom(a)
  /\ UNCHANGED <<sched, error, by, parent, raised, got>>

Require(a) ==
  /\ At(a, "entry")
  /\ Goto(a, "lock")
  /\ UNCHANGED <<sched, error, by, parent, raised, got>>

\* Mutant: the goroutine is not wired to its thread.
LockOSThread_Not(a) ==
  /\ At(a, "lock")
  /\ Goto(a, "reset")
  /\ UNCHANGED <<sched, error, by, parent, raised, got>>

LockOSThread(a) ==
  /\ At(a, "lock")
  /\ pins' = [pins EXCEPT ![by[a]] = @ \cup {a}]
  /\ home' = [home EXCEPT ![by[a]] = Here(a)]
  /\ Goto(a, "reset")
  /\ UNCHANGED <<thread, error, by, parent, raised, got>>

\* Mutant: the error of an earlier call stays.
Reset_Not(a) ==
  /\ At(a, "reset")
  /\ Goto(a, "call")
  /\ UNCHANGED <<sched, error, by, parent, raised, got>>

Reset(a) ==
  /\ At(a, "reset")
  /\ error' = IF "virResetLastError" \in Exports THEN [error EXCEPT ![Here(a)] = None] ELSE error
  /\ Goto(a, "call")
  /\ UNCHANGED <<sched, by, parent, raised, got>>

\* libvirt may record an error on the way to a success.
Succeeds(a) ==
  /\ At(a, "call")
  /\ \E e \in {a, error[Here(a)]} : error' = [error EXCEPT ![Here(a)] = e]
  /\ Goto(a, "unlock")
  /\ UNCHANGED <<sched, by, parent, raised, got>>

FailsWithError(a) ==
  /\ At(a, "call")
  /\ error' = [error EXCEPT ![Here(a)] = a]
  /\ raised' = raised \cup {a}
  /\ Goto(a, "read")
  /\ UNCHANGED <<sched, by, parent, got>>

\* The closure judges the answer a failure (a nil array with a count, no
\* token): libvirt has recorded nothing.
FailsSilently(a) ==
  /\ At(a, "call") /\ a \notin Looping
  /\ Goto(a, "read")
  /\ UNCHANGED <<sched, error, by, parent, raised, got>>

LastError(a) ==
  /\ At(a, "read")
  /\ got' = IF "virGetLastError" \in Exports THEN [got EXCEPT ![a] = error[Here(a)]] ELSE got
  /\ Goto(a, "unlock")
  /\ UNCHANGED <<sched, error, by, parent, raised>>

\* Mutant: the inner call lets go of the outer call's thread.
UnlockOSThread_All(a) ==
  /\ At(a, "unlock")
  /\ pins' = [pins EXCEPT ![by[a]] = {}]
  /\ home' = [home EXCEPT ![by[a]] = None]
  /\ ReturnFrom(a)
  /\ UNCHANGED <<thread, error, by, parent, raised, got>>

\* Deferred: the last UnlockOSThread lets the goroutine move again.
UnlockOSThread(a) ==
  /\ At(a, "unlock")
  /\ pins' = [pins EXCEPT ![by[a]] = @ \ {a}]
  /\ home' = IF pins'[by[a]] = {} THEN [home EXCEPT ![by[a]] = None] ELSE home
  /\ ReturnFrom(a)
  /\ UNCHANGED <<thread, error, by, parent, raised, got>>

Step(a) ==
  \/ Refuse(a) \/ Require(a) \/ LockOSThread(a) \/ Reset(a)
  \/ Succeeds(a) \/ FailsWithError(a) \/ FailsSilently(a)
  \/ LastError(a) \/ UnlockOSThread(a)

Next ==
  \/ \E g \in Goroutine, t \in Thread : Schedule(g, t)
  \/ \E g \in Goroutine : Preempt(g)
  \/ \E a \in Call, g \in Goroutine : Begin(a, g)
  \/ \E a, p \in Call : CallBack(a, p)
  \/ \E a \in Call : Step(a)

Spec == Init /\ [][Next]_vars

-------------------------------------------------------------------------------
(* Properties *)

\* The error a caller is shown is its own call's, never one an earlier call,
\* a callback or another goroutine left on the thread (the reset in
\* nativeCall).
ErrorsAreOwn ==
  "virResetLastError" \in Exports => \A a \in Call : got[a] \in {a, None}

\* An error that libvirt recorded for a failed call reaches its caller
\* ("keeps the failed API call and virGetLastError on the same OS thread").
ErrorsAreReported ==
  "virGetLastError" \in Exports =>
    \A a \in raised : pc[a] \in {"unlock", "done"} => got[a] = a

\* A goroutine is wired to a thread exactly while one of its calls is under
\* way: no return leaves a thread wired, and the return of a callback's call
\* does not unwire the call around it.
ThreadsAreLetGo ==
  \A g \in Goroutine :
    (home[g] # None) <=> (\E a \in Call : by[a] = g /\ pc[a] \in Wired)

-------------------------------------------------------------------------------
(* The inductive invariant *)

Active(a) == pc[a] \notin {"new", "done"}

\* No two goroutines share a thread, and a wired one is on its own or waits.
SchedInv ==
  \A f, g \in Goroutine :
    /\ thread[g] # None /\ home[g] # None => thread[g] = home[g]
    /\ f # g /\ thread[f] # None => thread[f] \notin {thread[g], home[g]}
    /\ f # g /\ home[f] # None => home[f] # home[g]

\* A goroutine is pinned by its calls between LockOSThread and UnlockOSThread.
PinInv ==
  \A g \in Goroutine :
    /\ pins[g] = {a \in Call : by[a] = g /\ pc[a] \in Wired}
    /\ home[g] = None <=> pins[g] = {}

\* The calls of a goroutine are nested: all but the innermost wait for a
\* callback to return.
NestInv ==
  /\ \A a \in Call :
       /\ pc[a] = "new" => parent[a] = None /\ by[a] = None
       /\ pc[a] = "callback" => a \in Looping
       /\ Active(a) /\ parent[a] # None =>
            parent[a] # a /\ pc[parent[a]] = "callback" /\ by[parent[a]] = by[a]
  /\ \A a, b \in Call : a # b /\ Active(a) /\ Active(b) =>
       /\ by[a] = by[b] => pc[a] = "callback" \/ pc[b] = "callback"
       /\ parent[a] # None => parent[a] # parent[b]

\* What the thread of a call remembers at each point of the call.
ErrorInv ==
  /\ \A a \in Call : pc[a] = "read" /\ a \in raised => error[home[by[a]]] = a
  /\ "virResetLastError" \in Exports =>
       \A a \in Call : \/ pc[a] = "call" /\ a \notin Looping
                       \/ pc[a] = "read" /\ a \notin raised
                       => error[home[by[a]]] = None
  /\ \A a \in raised : pc[a] \in {"read", "unlock", "done"}

IInv ==
  /\ TypeOK /\ SchedInv /\ PinInv /\ NestInv /\ ErrorInv
  /\ ErrorsAreOwn /\ ErrorsAreReported
===============================================================================
