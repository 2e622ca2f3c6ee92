------------------------------- MODULE RWMutex -------------------------------
(***************************************************************************)
(* Go's sync.RWMutex, the lock every wrapper of the binding carries        *)
(* (nativeObject.mu, Connect.mu, Domain.mu).  It is not code of this       *)
(* repository: it is modelled by the three behaviours the wrappers depend  *)
(* on.                                                                     *)
(*   - A reader is admitted at once unless a writer is pending or holds    *)
(*     the lock; otherwise it parks.                                       *)
(*   - A writer first announces itself, which stops later readers, and     *)
(*     then waits for the readers already in to leave.                     *)
(*   - A writer's Unlock admits every parked reader before the next writer *)
(*     can announce itself.                                                *)
(* The second behaviour makes a nested or repeated RLock hazardous.        *)
(***************************************************************************)
CONSTANTS Goroutine,  \* the goroutines that use the wrappers
          Mutex,      \* the mutexes, one per wrapper
          Nobody      \* "no goroutine"

VARIABLE rw  \* rw[m]: readers in, readers parked, the writer (pending or in)

RWTypeOK ==
  rw \in [Mutex -> [readers : SUBSET Goroutine,
                    parked  : SUBSET Goroutine,
                    writer  : Goroutine \cup {Nobody}]]

RWInit ==
  rw = [m \in Mutex |-> [readers |-> {}, parked |-> {}, writer |-> Nobody]]

\* RLock when no writer is pending: the reader is in.
AdmitReader(g, m) ==
  /\ rw[m].writer = Nobody
  /\ rw' = [rw EXCEPT ![m].readers = @ \cup {g}]

\* RLock behind a pending or active writer: the reader parks.
ParkReader(g, m) ==
  /\ rw[m].writer # Nobody
  /\ rw' = [rw EXCEPT ![m].parked = @ \cup {g}]

\* A parked reader is in once an Unlock has moved it.
ReaderAdmitted(g, m) == g \in rw[m].readers

ReleaseReader(g, m) == rw' = [rw EXCEPT ![m].readers = @ \ {g}]

\* Lock, first half: no other writer, and readers that come later park.
AnnounceWriter(g, m) ==
  /\ rw[m].writer = Nobody
  /\ rw' = [rw EXCEPT ![m].writer = g]

\* Lock, second half: the readers that were in have left.
WriterAdmitted(g, m) == rw[m].writer = g /\ rw[m].readers = {}

ReleaseWriter(g, m) ==
  rw' = [rw EXCEPT ![m] = [readers |-> rw[m].parked, parked |-> {}, writer |-> Nobody]]
==============================================================================
