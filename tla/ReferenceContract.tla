-------------------------- MODULE ReferenceContract --------------------------
(***************************************************************************)
(* What the ownership rules of the high-level API promise, with no locks,  *)
(* pointers or native counters: a wrapper is open from the moment it is    *)
(* returned until its one successful Free or Close, native code works on   *)
(* a wrapper only while it is open, and a wrapper is closed only when no   *)
(* native call is working on it.                                           *)
(***************************************************************************)
CONSTANTS Goroutine, Handle

VARIABLES status,  \* status[h]: the life of wrapper h
          users    \* users[h]: goroutines with a native call at work on h

vars == <<status, users>>

Init ==
  /\ status = [h \in Handle |-> "none"]
  /\ users = [h \in Handle |-> {}]

\* A call hands new wrappers to its caller.
Make(new) ==
  /\ \A h \in new : status[h] = "none"
  /\ status' = [h \in Handle |-> IF h \in new THEN "open" ELSE status[h]]
  /\ UNCHANGED users

\* A native call starts on the open wrappers it was given.
Enter(g, on) ==
  /\ \A h \in on : status[h] = "open"
  /\ \A h \in Handle : g \notin users[h]
  /\ users' = [h \in Handle |-> IF h \in on THEN users[h] \cup {g} ELSE users[h]]
  /\ UNCHANGED status

\* The native call returns.
Leave(g) ==
  /\ users' = [h \in Handle |-> users[h] \ {g}]
  /\ UNCHANGED status

\* The wrapper's reference is released: only from open, only when idle.
Release(h) ==
  /\ status[h] = "open"
  /\ users[h] = {}
  /\ status' = [status EXCEPT ![h] = "closed"]
  /\ UNCHANGED users

Next ==
  \/ \E new \in SUBSET Handle : Make(new)
  \/ \E g \in Goroutine : (\E on \in SUBSET Handle : Enter(g, on)) \/ Leave(g)
  \/ \E h \in Handle : Release(h)

Spec == Init /\ [][Next]_vars
==============================================================================
