-------------------------------- MODULE Session --------------------------------
(***************************************************************************)
(* A program that uses this package, the way the commands under examples/  *)
(* are written: it opens a connection, gets handles from the connection or *)
(* from other handles, uses them, and leaves; a deferred function, pushed  *)
(* when a handle is got, releases it, and its error joins that of the      *)
(* function.  A command is a script of steps; ExampleScripts has those of  *)
(* the repository.                                                         *)
(*                                                                         *)
(* Every step may fail.  A call on a handle that is not live fails, and so *)
(* does one that libvirt does not allow on a read-only connection.         *)
(***************************************************************************)
EXTENDS Naturals, Sequences

CONSTANTS Command,    \* the commands a user may give
          Handle,     \* the names of their handles
          MaxList,    \* bound: the handles a list returns
          Refused,    \* the calls libvirt refuses on a read-only connection
          connection, None

Acquires(s) == s.do \in {"open", "get", "list"}

ASSUME SessionAssumption ==
  /\ connection \in Handle /\ None \notin Handle /\ MaxList \in Nat
  /\ \A c \in Command :
       /\ c.readOnly \in BOOLEAN /\ c.fatal \in BOOLEAN
       /\ Len(c.script) \in Nat
       /\ \A i \in 1 .. Len(c.script) :
            /\ c.script[i].do = "open" => c.script[i].h = connection
            /\ c.script[i].do \in {"get", "list"} =>
                 c.script[i].h \in Handle /\ c.script[i].from \in Handle

\* A script gets each of its handles once.
ASSUME OnceAssumption ==
  \A c \in Command : \A i, j \in 1 .. Len(c.script) :
    Acquires(c.script[i]) /\ Acquires(c.script[j]) /\ c.script[i].h = c.script[j].h => i = j

VARIABLES
  command,   \* the command given
  step,      \* the step of its script it is at
  element,   \* within a loop over a list, the elements passed
  deferred,  \* the releases it owes: the handle and how many, last first
  live,      \* the references it holds: handle -> how many
  kept,      \* those of them whose release libvirt refused
  parent,    \* the handle each handle was got from
  pc,        \* "run", "unwind" or "done"
  err,       \* whether it reports an error
  failed     \* whether anything failed

vars == <<command, step, element, deferred, live, kept, parent, pc, err, failed>>

Init ==
  /\ command \in Command /\ step = 1 /\ element = 0
  /\ deferred = << >>
  /\ live = [h \in Handle |-> 0] /\ kept = live /\ parent = [h \in Handle |-> None]
  /\ pc = "run" /\ err = FALSE /\ failed = FALSE

Now == command.script[step]
Doing(what) ==
  /\ pc = "run" /\ step <= Len(command.script) /\ Now.do = what
  /\ UNCHANGED command

Permitted(calls) == command.readOnly => calls \cap Refused = {}
Callable(h, calls) == live[h] > 0 /\ Permitted(calls)

Advance == step' = step + 1 /\ UNCHANGED <<pc, err, failed>>
\* return err, or log.Fatal, which runs no deferred function.
Fail ==
  /\ pc' = IF command.fatal THEN "done" ELSE "unwind"
  /\ err' = TRUE /\ failed' = TRUE /\ UNCHANGED step

Untouched == UNCHANGED <<deferred, live, kept, parent>>

\* defer func() { err = errors.Join(err, handle.Free()) }()
Defer(h, n) == deferred' = <<[h |-> h, n |-> n]>> \o deferred

Gain(h, from, n) ==
  /\ live' = [live EXCEPT ![h] = n] /\ parent' = [parent EXCEPT ![h] = from]
  /\ Defer(h, n) /\ UNCHANGED kept

\* An option, a file or a call without a handle, which may be refused.
Check ==
  /\ Doing("check") /\ UNCHANGED element /\ Untouched
  /\ Advance \/ Fail

\* The default of a switch.
Reject == Doing("reject") /\ UNCHANGED element /\ Untouched /\ Fail

Open ==
  /\ Doing("open") /\ UNCHANGED element
  /\ \/ Gain(connection, None, 1) /\ Advance
     \/ Fail /\ Untouched

Get ==
  /\ Doing("get") /\ UNCHANGED element
  /\ \/ Callable(Now.from, Now.calls) /\ Gain(Now.h, Now.from, 1) /\ Advance
     \/ Fail /\ Untouched

List ==
  /\ Doing("list") /\ UNCHANGED element
  /\ \/ \E n \in 0 .. MaxList :
          Callable(Now.from, Now.calls) /\ Gain(Now.h, Now.from, n) /\ Advance
     \/ Fail /\ Untouched

\* Calls on one handle, each of which may fail.
Use ==
  /\ Doing("use") /\ UNCHANGED element /\ Untouched
  /\ \/ Callable(Now.h, Now.calls) /\ Advance
     \/ Fail

\* The same for the elements of a list in turn.
Each ==
  /\ Doing("each") /\ Untouched
  /\ \/ element = live[Now.h] /\ element' = 0 /\ Advance
     \/ /\ element < live[Now.h] /\ Callable(Now.h, Now.calls)
        /\ element' = element + 1 /\ UNCHANGED <<step, pc, err, failed>>
     \/ element < live[Now.h] /\ element' = 0 /\ Fail

--------------------------------------------------------------------------------
(* Leaving.                                                                 *)

\* One release of the last deferred function: the reference is gone, or libvirt
\* refuses and the wrapper keeps its pointer.
Owed == Head(deferred)
Paid == deferred' = [deferred EXCEPT ![1].n = @ - 1]
Granted == live' = [live EXCEPT ![Owed.h] = @ - 1] /\ UNCHANGED kept
Denied == kept' = [kept EXCEPT ![Owed.h] = @ + 1] /\ UNCHANGED live

\* Mutant: the error of the release replaces that of the function.
Replace(e) == err' = e
\* errors.Join; a main that defers the release itself only logs the error.
Join(e) == IF e /\ ~ command.fatal THEN err' = TRUE ELSE UNCHANGED err

\* Mutant: the loop of the deferred function ends at the first error.
ReleaseUntilError ==
  /\ UNCHANGED parent
  /\ \/ Paid /\ Granted /\ Join(FALSE) /\ UNCHANGED failed
     \/ deferred' = Tail(deferred) /\ Denied /\ Join(TRUE) /\ failed' = TRUE

ReleaseOne ==
  /\ Paid /\ UNCHANGED parent
  /\ \/ Granted /\ Join(FALSE) /\ UNCHANGED failed
     \/ Denied /\ Join(TRUE) /\ failed' = TRUE

\* A function returns before the script ends: its deferred function runs, and
\* an error of it is returned.
Leave ==
  /\ Doing("leave") /\ deferred # << >> /\ Owed.h = Now.h /\ UNCHANGED element
  /\ \/ Owed.n > 0 /\ ReleaseOne /\ UNCHANGED <<step, pc>>
     \/ /\ Owed.n = 0 /\ deferred' = Tail(deferred) /\ UNCHANGED <<live, kept, parent, err, failed>>
        /\ \/ ~ err /\ step' = step + 1 /\ UNCHANGED pc
           \/ err /\ pc' = "unwind" /\ UNCHANGED step

\* The elements of a list are released one by one as they are used, without
\* a deferred function: the loop of examples/list-domains.
Drain ==
  /\ Doing("drain") /\ deferred # << >> /\ Owed.h = Now.h /\ UNCHANGED <<element, parent>>
  /\ IF Owed.n = 0
     THEN deferred' = Tail(deferred) /\ Advance /\ UNCHANGED <<live, kept>>
     ELSE Paid /\ (Granted \/ Denied) /\ (UNCHANGED <<step, pc, err, failed>> \/ Fail)

Return ==
  /\ pc = "run" /\ step > Len(command.script) /\ pc' = "unwind"
  /\ UNCHANGED <<command, step, element, err, failed>> /\ Untouched

\* Mutant: what was got first is released first.
UnwindInOrder ==
  /\ pc = "unwind" /\ UNCHANGED <<command, step, element, err, failed, kept, parent>>
  /\ \/ /\ deferred # << >> /\ UNCHANGED pc
        /\ live' = [live EXCEPT ![deferred[Len(deferred)].h] = 0]
        /\ deferred' = SubSeq(deferred, 1, Len(deferred) - 1)
     \/ deferred = << >> /\ pc' = "done" /\ UNCHANGED <<live, deferred>>
Unwind ==
  /\ pc = "unwind" /\ UNCHANGED <<command, step, element>>
  /\ \/ deferred # << >> /\ Owed.n > 0 /\ ReleaseOne /\ UNCHANGED pc
     \/ /\ deferred # << >> /\ Owed.n = 0 /\ deferred' = Tail(deferred)
        /\ UNCHANGED <<live, kept, parent, pc, err, failed>>
     \/ /\ deferred = << >> /\ pc' = "done" /\ UNCHANGED <<err, failed>> /\ Untouched

Next ==
  \/ Check \/ Reject \/ Open \/ Get \/ List \/ Use \/ Each
  \/ Leave \/ Drain \/ Return \/ Unwind

Spec == Init /\ [][Next]_vars

--------------------------------------------------------------------------------
\* "Every successful connection open is paired with Close, and every returned
\* resource handle is paired with Free" (examples/README.md:33): whichever
\* step failed, when the command ends nothing is held but what libvirt refused
\* to release; in particular one refusal does not stop the other releases.  A
\* command that log.Fatal ends is excepted: it runs no deferred function
\* (list-domains/main.go:23).
EverythingIsReleased == pc = "done" /\ ~ (command.fatal /\ err) => live = kept

\* No handle outlives the handle it was got from: volumes go before their
\* pool, and everything before the connection is closed.
NoneOutlivesItsParent ==
  \A h \in Handle : live[h] > kept[h] => parent[h] = None \/ live[parent[h]] > 0

\* Nothing that failed is lost: the error of a deferred release, in the middle
\* of a list too, is reported by a command that succeeded otherwise, and the
\* success of a release does not cover the error that came before.  Only the
\* command without a run function logs the errors of its releases instead.
FailuresAreReported == pc = "done" /\ failed /\ ~ command.fatal => err

\* A command opens the connection its calls need: what it asks of a read-only
\* connection is what libvirt grants there.
CallsArePermitted ==
  pc = "run" /\ step <= Len(command.script) => Permitted(Now.calls)
================================================================================
