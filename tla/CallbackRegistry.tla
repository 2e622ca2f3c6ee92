--------------------------- MODULE CallbackRegistry ---------------------------
(***************************************************************************)
(* The callback registry of events.go.                                     *)
(*                                                                         *)
(* libvirt hands a callback one opaque pointer.  The binding gives it a    *)
(* token, a byte from malloc, and keeps the Go callback in a sync.Map      *)
(* under the token's address.  libvirt calls a thunk with the token when   *)
(* an event arrives, and a free callback when it has dropped the           *)
(* registration; the program closes the handle it was given.  All of them  *)
(* run on threads of their own, and malloc gives freed addresses out again.*)
(*                                                                         *)
(* What an event is about lies in memory libvirt lends the thunk: "only    *)
(* valid for the duration of execution of the callback" (the API document, *)
(* libvirt-api.xml:7834, of a node device; 6627 of a job's statistics).    *)
(***************************************************************************)
EXTENDS Naturals, FiniteSets

CONSTANTS Reg,       \* the registrations the program makes
          Conn,      \* the connections
          Token,     \* the addresses malloc gives out
          EventOf,   \* EventOf[r]: the event registration r is for
          ConnOf,    \* ConnOf[r]: the connection it is made on
          Occurrence,\* bound: the events that may be under way at a time
          None

Events == {"close", "domain", "device"}

ASSUME EventAssumption == EventOf \in [Reg -> Events] /\ ConnOf \in [Reg -> Conn]
ASSUME NoneAssumption == None \notin Reg \cup Token \cup Occurrence

VARIABLES
  heap,      \* the tokens that are allocated
  records,   \* callbackRecords: whose callback is stored under a token
  pc,        \* pc[r]: how far the call that makes registration r is
  token,     \* token[r]: its opaque pointer
  native,    \* native[r]: what libvirt knows of it
  closer,    \* closer[r]: how far a Close of r's handle is (it holds the handle's mu)
  closed,    \* closed[r]: the handle's closed flag
  open,      \* the connections whose wrapper still has its pointer
  dispatch,  \* what the event loop is delivering
  lent,      \* what the memory libvirt lends tells of: None when it lends none
  running    \* the Go callbacks that were started and have not ended

delivery == <<dispatch, lent, running>>
vars == <<heap, records, pc, token, native, closer, closed, open, delivery>>

Idle == [reg |-> None, got |-> None, ran |-> FALSE]

Making == {"allocated", "stored", "refused", "discarded"}

TypeOK ==
  /\ heap \in SUBSET Token
  /\ records \in [Token -> Reg \cup {None}]
  /\ pc \in [Reg -> {"new", "made", "failed"} \cup Making]
  /\ token \in [Reg -> Token \cup {None}]
  /\ \A r \in Reg : pc[r] \in {"new", "failed"} \/ token[r] \in Token
  /\ native \in [Reg -> {"none", "active", "dropped", "freeing", "gone"}]
  /\ closer \in [Reg -> {"no", "lock", "native"}]
  /\ closed \in [Reg -> BOOLEAN]
  /\ open \in SUBSET Conn
  /\ dispatch \in [reg : Reg \cup {None}, got : Reg \cup {None}, ran : BOOLEAN]
  /\ lent \in Occurrence \cup {None}
  /\ running \subseteq [reg : Reg, of : Occurrence, copy : Occurrence \cup {None}]

Init ==
  /\ heap = {}
  /\ records = [t \in Token |-> None]
  /\ pc = [r \in Reg |-> "new"]
  /\ token = [r \in Reg |-> None]
  /\ native = [r \in Reg |-> "none"]
  /\ closer = [r \in Reg |-> "no"]
  /\ closed = [r \in Reg |-> FALSE]
  /\ open = Conn
  /\ dispatch = Idle /\ lent = None /\ running = {}

-------------------------------------------------------------------------------
(* Registering: the connection is locked for reading from start to end *)

Goto(r, label) == pc' = [pc EXCEPT ![r] = label]

Allocate(r) ==
  /\ pc[r] = "new" /\ ConnOf[r] \in open
  /\ \E t \in Token \ heap :
       /\ heap' = heap \cup {t}
       /\ token' = [token EXCEPT ![r] = t]
  /\ Goto(r, "allocated")
  /\ UNCHANGED <<records, native, closer, closed, open, delivery>>

AllocateFails(r) ==
  /\ pc[r] = "new" /\ ConnOf[r] \in open
  /\ Goto(r, "failed")
  /\ UNCHANGED <<heap, records, token, native, closer, closed, open, delivery>>

Store(r) ==
  /\ pc[r] = "allocated"
  /\ records' = [records EXCEPT ![token[r]] = r]
  /\ Goto(r, "stored")
  /\ UNCHANGED <<heap, token, native, closer, closed, open, delivery>>

\* A connection has room for one close callback.
Taken(r) == EventOf[r] = "close" /\
  \E q \in Reg : EventOf[q] = "close" /\ ConnOf[q] = ConnOf[r] /\ native[q] = "active"

\* Mutant: libvirt is told before the record is stored.
Registered_Early(r) ==
  /\ pc[r] \in {"allocated", "stored"} /\ ~Taken(r)
  /\ native' = [native EXCEPT ![r] = "active"]
  /\ Goto(r, "made")
  /\ UNCHANGED <<heap, records, token, closer, closed, open, delivery>>

\* libvirt takes the registration: from now on it delivers events.
Registered(r) ==
  /\ pc[r] = "stored" /\ ~Taken(r)
  /\ native' = [native EXCEPT ![r] = "active"]
  /\ Goto(r, "made")
  /\ UNCHANGED <<heap, records, token, closer, closed, open, delivery>>

\* libvirt refuses it (a duplicate, no event loop, no such symbol).
Refused(r) ==
  /\ pc[r] = "stored"
  /\ Goto(r, "refused")
  /\ UNCHANGED <<heap, records, token, native, closer, closed, open, delivery>>

\* discardCallbackRecord, in its two steps.
DiscardRecord(r) ==
  /\ pc[r] = "refused"
  /\ records' = [records EXCEPT ![token[r]] = None]
  /\ Goto(r, "discarded")
  /\ UNCHANGED <<heap, token, native, closer, closed, open, delivery>>

\* Mutant: the refused registration's token is not freed.
DiscardToken_Kept(r) ==
  /\ pc[r] = "discarded"
  /\ Goto(r, "failed")
  /\ UNCHANGED <<heap, records, token, native, closer, closed, open, delivery>>

DiscardToken(r) ==
  /\ pc[r] = "discarded"
  /\ heap' = heap \ {token[r]}
  /\ Goto(r, "failed")
  /\ UNCHANGED <<records, token, native, closer, closed, open, delivery>>

-------------------------------------------------------------------------------
(* Delivery: libvirt's event loop calls the event's thunk *)

LoopPicks(r) ==
  /\ dispatch = Idle /\ native[r] = "active"
  /\ dispatch' = [reg |-> r, got |-> None, ran |-> FALSE]
  /\ lent' \in Occurrence \ {k.of : k \in running}
  /\ UNCHANGED <<heap, records, pc, token, native, closer, closed, open, running>>

\* A node-device callback is given wrappers around the pointers libvirt lends;
\* the other thunks copy what they pass on: a reason, a name, statistics.
Borrows(r) == EventOf[r] = "device"
Callback(r) == [reg |-> r, of |-> lent, copy |-> IF Borrows(r) THEN None ELSE lent]
Reads(k) == IF Borrows(k.reg) THEN lent ELSE k.copy

\* The thunk starts the callback stored under the token, if it is for its event.
Thunk(r) ==
  /\ dispatch.reg = r /\ ~dispatch.ran
  /\ LET found == records[token[r]]
         got == IF found # None /\ EventOf[found] = EventOf[r] THEN found ELSE None
     IN /\ dispatch' = [dispatch EXCEPT !.ran = TRUE, !.got = got]
        /\ running' = running \cup (IF got = None THEN {} ELSE {Callback(got)})
  /\ UNCHANGED <<heap, records, pc, token, native, closer, closed, open, lent>>

\* A callback ends, or panics and is recovered, whenever it likes.
CallbackEnds(k) ==
  /\ running' = running \ {k}
  /\ UNCHANGED <<heap, records, pc, token, native, closer, closed, open, dispatch, lent>>

\* Mutant: node-device callbacks, too, get a goroutine of their own.
Synchronous_Never(r) == FALSE

\* The thunk waits for a node-device callback; it does not for the others,
\* which run in goroutines of their own.
Synchronous(r) == EventOf[r] = "device"

\* The thunk returns, and libvirt takes back what it has lent.  It drops a
\* close callback once it has told it.
LoopDone(r) ==
  /\ dispatch.reg = r /\ dispatch.ran
  /\ \A k \in running : ~Synchronous(k.reg)
  /\ dispatch' = Idle /\ lent' = None
  /\ native' = IF EventOf[r] = "close" /\ native[r] = "active"
               THEN [native EXCEPT ![r] = "dropped"] ELSE native
  /\ UNCHANGED <<heap, records, pc, token, closer, closed, open, running>>

-------------------------------------------------------------------------------
(* Dropping a registration: the free callback, in its two steps; libvirt *)
(* does not free a registration it is delivering to.                     *)

FreeRecord(r) ==
  /\ native[r] = "dropped" /\ dispatch.reg # r
  /\ records' = [records EXCEPT ![token[r]] = None]
  /\ native' = [native EXCEPT ![r] = IF records[token[r]] = None THEN "gone" ELSE "freeing"]
  /\ UNCHANGED <<heap, pc, token, closer, closed, open, delivery>>

FreeToken(r) ==
  /\ native[r] = "freeing"
  /\ heap' = heap \ {token[r]}
  /\ native' = [native EXCEPT ![r] = "gone"]
  /\ UNCHANGED <<records, pc, token, closer, closed, open, delivery>>

-------------------------------------------------------------------------------
(* Closing the handle *)

\* CloseCallback.Close and DomainEventCallback.Close look for a record.
CloseLooks(r) ==
  /\ pc[r] = "made" /\ closer[r] = "no" /\ ~closed[r] /\ EventOf[r] # "device"
  /\ IF records[token[r]] = None
     THEN closed' = [closed EXCEPT ![r] = TRUE] /\ UNCHANGED closer
     ELSE closer' = [closer EXCEPT ![r] = "lock"] /\ UNCHANGED closed
  /\ UNCHANGED <<heap, records, pc, token, native, open, delivery>>

\* NodeDeviceEventDeregister is given the callback ID and keeps no handle.
Deregister(r) ==
  /\ pc[r] = "made" /\ closer[r] = "no" /\ EventOf[r] = "device"
  /\ closer' = [closer EXCEPT ![r] = "lock"]
  /\ UNCHANGED <<heap, records, pc, token, native, closed, open, delivery>>

\* connectCall locks the connection, which may have been closed meanwhile.
CloseLocks(r) ==
  /\ closer[r] = "lock"
  /\ closer' = [closer EXCEPT ![r] = IF ConnOf[r] \in open THEN "native" ELSE "no"]
  /\ UNCHANGED <<heap, records, pc, token, native, closed, open, delivery>>

\* What libvirt removes: a close callback by its thunk, which all of them
\* share; the others by their callback ID.
Removed(r) ==
  {q \in Reg : /\ native[q] = "active"
               /\ \/ q = r
                  \/ EventOf[r] = "close" /\ EventOf[q] = "close" /\ ConnOf[q] = ConnOf[r]}

CloseRemoves(r) ==
  /\ closer[r] = "native"
  /\ \E q \in Removed(r) : native' = [native EXCEPT ![q] = "dropped"]
  /\ closer' = [closer EXCEPT ![r] = "no"]
  /\ closed' = [closed EXCEPT ![r] = EventOf[r] # "device"]
  /\ UNCHANGED <<heap, records, pc, token, open, delivery>>

\* Mutant: the handle counts as closed whatever libvirt answered.
CloseFails_Closes(r) ==
  /\ closer[r] = "native"
  /\ closer' = [closer EXCEPT ![r] = "no"]
  /\ closed' = [closed EXCEPT ![r] = TRUE]
  /\ UNCHANGED <<heap, records, pc, token, native, open, delivery>>

\* libvirt refuses: nothing to remove, or another error.
CloseFails(r) ==
  /\ closer[r] = "native"
  /\ closer' = [closer EXCEPT ![r] = "no"]
  /\ UNCHANGED <<heap, records, pc, token, native, closed, open, delivery>>

-------------------------------------------------------------------------------
(* The connection *)

\* Connect.Close waits for the calls that hold the connection.
ConnectClose(c) ==
  /\ c \in open
  /\ \A r \in Reg : ConnOf[r] = c => pc[r] \notin Making /\ closer[r] # "native"
  /\ open' = open \ {c}
  /\ UNCHANGED <<heap, records, pc, token, native, closer, closed, delivery>>

\* libvirt drops the registrations of a connection nobody refers to any more.
ConnectGone(r) ==
  /\ ConnOf[r] \notin open /\ native[r] = "active"
  /\ native' = [native EXCEPT ![r] = "dropped"]
  /\ UNCHANGED <<heap, records, pc, token, closer, closed, open, delivery>>

Register(r) ==
  \/ Allocate(r) \/ AllocateFails(r) \/ Store(r) \/ Registered(r) \/ Refused(r)
  \/ DiscardRecord(r) \/ DiscardToken(r)
Deliver(r) == LoopPicks(r) \/ Thunk(r) \/ LoopDone(r)
Drop(r) == ConnectGone(r) \/ FreeRecord(r) \/ FreeToken(r)
Close(r) == CloseLooks(r) \/ Deregister(r) \/ CloseLocks(r) \/ CloseRemoves(r) \/ CloseFails(r)

Next ==
  \/ \E r \in Reg : Register(r) \/ Deliver(r) \/ Drop(r) \/ Close(r)
  \/ \E k \in running : CallbackEnds(k)
  \/ \E c \in Conn : ConnectClose(c)

Spec == Init /\ [][Next]_vars

-------------------------------------------------------------------------------
(* Properties *)

\* r has a token that somebody will have to free.
Owns(r) == pc[r] \in Making \/ native[r] \in {"active", "dropped", "freeing"}

\* Every allocated token has exactly one registration that will free it, once:
\* none leaks, and none is freed under a registration that still uses it
\* (allocateCallbackRecord, discardCallbackRecord, the free callback).
TokensBalanced ==
  /\ \A r \in Reg : Owns(r) => token[r] \in heap
  /\ \A t \in heap : \E r \in Reg : Owns(r) /\ token[r] = t
  /\ \A q, r \in Reg : Owns(q) /\ Owns(r) /\ token[q] = token[r] => q = r

\* An event libvirt delivers to a registration runs the callback registered
\* with it: it is never lost and never runs another's, though addresses are
\* reused and the map is changed by other threads (the thunks of events.go).
EventsReachTheirOwner == dispatch.ran => dispatch.got = dispatch.reg

\* A callback that is still running, after its thunk has returned and other
\* events were delivered perhaps, and its registration was closed, reads of the
\* event it was called for: a copy, or memory that libvirt has not taken back.
\* DomainJobCompletedEvent "owns a Go copy ... borrowed C storage is never
\* exposed" (events.go:18), and a node-device callback, which is given borrowed
\* wrappers, ends before its thunk does (events.go:127).
CallbacksReadTheirEvent == \A k \in running : Reads(k) = k.of

\* A handle that says it is closed has no registration left in libvirt: Close
\* reports success only when the callback can no longer be called anew.
ClosedMeansGone == \A r \in Reg : closed[r] => native[r] \in {"dropped", "freeing", "gone"}

\* CloseCallback.Close "unregisters the connection-close callback"
\* (events.go:229): a Close that succeeds ends no registration but its own.
CloseSparesOthers ==
  [][\A q, r \in Reg : q # r /\ ~closed[r] /\ closed'[r] => native'[q] = native[q]]_vars

-------------------------------------------------------------------------------
(* The inductive invariant *)

\* r's callback can be found under its token.
Recorded(r) == pc[r] \in {"stored", "refused"} \/ native[r] \in {"active", "dropped"}

RecordsInv ==
  /\ \A r \in Reg : Recorded(r) => records[token[r]] = r
  /\ \A r \in Reg : pc[r] = "made" <=> native[r] # "none"

\* What the event loop delivers to is not freed under it.
DispatchInv ==
  /\ dispatch.reg # None => native[dispatch.reg] \in {"active", "dropped"}
  /\ dispatch.reg = None => ~dispatch.ran

\* libvirt lends memory exactly while it delivers, and a callback that borrows
\* it runs inside its thunk.
LentInv ==
  /\ dispatch.reg = None <=> lent = None
  /\ \A k \in running : Borrows(k.reg) => dispatch.ran

\* Only registrations that were made are closed, and a connection has one
\* close callback at a time.
CloseInv ==
  /\ \A r \in Reg : closer[r] # "no" \/ closed[r] => pc[r] = "made"
  /\ \A q, r \in Reg :
       /\ EventOf[q] = "close" /\ EventOf[r] = "close" /\ ConnOf[q] = ConnOf[r]
       /\ native[q] = "active" /\ native[r] = "active"
       => q = r

IInv ==
  /\ TypeOK /\ TokensBalanced /\ RecordsInv /\ DispatchInv /\ LentInv /\ CloseInv
  /\ EventsReachTheirOwner /\ CallbacksReadTheirEvent /\ ClosedMeansGone
===============================================================================
