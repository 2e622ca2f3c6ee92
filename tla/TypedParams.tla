------------------------------ MODULE TypedParams ------------------------------
(***************************************************************************)
(* Who owns the native memory of typed parameters, from typed_params.go,   *)
(* Domain.GetJobStats of domain_job.go and Domain.GetStats of              *)
(* domain_stats.go.                                                        *)
(*                                                                         *)
(* A program makes one call after another.  Setting parameters encodes     *)
(* them into an array of C, with one more block for each string; getting   *)
(* them asks for their number, allocates an array, has libvirt fill it and *)
(* decodes it; job and bulk statistics come in an array libvirt allocates. *)
(* Each malloc, each helper of libvirt and each call may fail, the domain  *)
(* may gain or lose parameters between two calls, and a library may lack   *)
(* some or all of the helpers.  The data is a kind per parameter: a string *)
(* is what owns a block, "unknown" a type this package cannot decode.      *)
(***************************************************************************)
EXTENDS Integers, Sequences

CONSTANT MaxParams    \* bound: the longest list of parameters

ASSUME MaxParamsAssumption == MaxParams \in Nat \ {0}

VARIABLES
  helpers,  \* the entry points of libvirt 1.0.2 the library has
  domain,   \* the parameters the domain has: the hypervisor changes them
  op,       \* the call under way
  pc,       \* where it is
  params,   \* the parameters the program sets, or libvirt wrote last
  next,     \* the parameters encoded so far
  array,    \* the block of the array: "none", "live" or "freed"
  alloc,    \* the elements it has room for (allocatedCount)
  count,    \* the count the code keeps, and libvirt writes
  slot,     \* what each element says it is
  strs,     \* the elements whose string block is allocated
  faults,   \* what went wrong with memory
  seen,     \* what the other side read of the array
  result    \* what the call returned: "none", "ok" or "error"

memory == <<array, alloc, count, slot, strs, faults>>
vars == <<helpers, domain, op, pc, params, next, memory, seen, result>>

Kinds == {"number", "string", "unknown"}
Encodable == {"number", "string"}
Lists(K) == UNION {[1 .. n -> K] : n \in 0 .. MaxParams}
Elements == 1 .. MaxParams
\* Three stand for the eight helpers encodeTypedParameters looks for.
Helpers == {"virTypedParamsFree", "virTypedParamsAddInt", "virTypedParamsAddString"}
\* What an element says it is: "null" a string that has no block yet.
Blank == [i \in Elements |-> "zero"]

\* A partially backported library has some of the helpers.
Init ==
  /\ helpers \in SUBSET Helpers
  /\ domain \in Lists(Kinds)
  /\ op = "set" /\ pc = "done"
  /\ params = << >> /\ next = 0
  /\ array = "none" /\ alloc = 0 /\ count = 0 /\ slot = Blank /\ strs = {}
  /\ faults = {} /\ seen = << >> /\ result = "none"

--------------------------------------------------------------------------------
(* Freeing.  A loop over n elements frees the string of each that says it   *)
(* has one; it must find the array live, room for n, and each string live.  *)

StringsOf(n) == {i \in Elements : i <= n /\ slot[i] = "string"}

Readable(n) == array = "live" /\ n <= alloc /\ StringsOf(n) \subseteq strs

ReadFaults(n) == IF n <= 0 \/ Readable(n) THEN {} ELSE {"read"}

FreeStringsOf(n) ==
  /\ strs' = strs \ StringsOf(n)
  /\ faults' = faults \cup (IF Readable(n) THEN {} ELSE {"free"})
  /\ array' = "freed"
  /\ UNCHANGED <<alloc, count, slot>>

\* freeTypedParameters: virTypedParamsFree, or the strings and then the
\* array; the strings by virTypedParamsClear, or by the loop of this package.
\* All three release the same blocks.
freeTypedParameters(n) ==
  IF array = "none" THEN UNCHANGED memory ELSE FreeStringsOf(n)

--------------------------------------------------------------------------------
(* Setting: encodeTypedParameters and setDomainTypedParameters.             *)

Begin(o, start) ==
  /\ pc = "done"
  /\ op' = o /\ pc' = start /\ next' = 0 /\ seen' = << >> /\ result' = "none"
  /\ array' = "none" /\ alloc' = 0 /\ count' = 0 /\ slot' = Blank /\ strs' = {}
  /\ UNCHANGED <<helpers, domain, faults>>

Return(r) == pc' = "done" /\ result' = r
\* A deferred free: the outcome is settled first.
FreeAndReturn(r) == pc' = "free" /\ result' = r

\* Every parameter passed normalizeTypedParameter.
BeginSet == \E ps \in Lists(Encodable) : Begin("set", "encode") /\ params' = ps

Encoding == op = "set" /\ pc = "encode" /\ UNCHANGED <<helpers, domain, op, params, seen>>
Native == helpers = Helpers
AddOf(kind) == IF kind = "string" THEN "virTypedParamsAddString" ELSE "virTypedParamsAddInt"

\* Without the helpers the array is allocated first, zeroed, for all of them.
CallocForSet ==
  /\ Encoding /\ ~ Native /\ params # << >> /\ array = "none"
  /\ \/ /\ array' = "live" /\ alloc' = Len(params) /\ count' = Len(params)
        /\ UNCHANGED <<pc, result>>
     \/ UNCHANGED <<array, alloc, count>> /\ Return("error")
  /\ UNCHANGED <<next, slot, strs, faults>>

\* virTypedParamsAdd* through nativeCall, which refuses a symbol the library
\* lacks: the array grows by one element, or the call fails, with the array
\* perhaps grown but its count as it was.
AddNative ==
  /\ Encoding /\ Native /\ next < Len(params) /\ UNCHANGED faults
  /\ LET i == next + 1
         required == AddOf(params[i]) \in helpers IN
     \/ /\ required /\ array' = "live" /\ alloc' = i /\ count' = i /\ next' = i
        /\ slot' = [slot EXCEPT ![i] = params[i]]
        /\ strs' = IF params[i] = "string" THEN strs \cup {i} ELSE strs
        /\ UNCHANGED <<pc, result>>
     \/ /\ \/ required /\ array' = "live" /\ alloc' = i
           \/ UNCHANGED <<array, alloc>>
        /\ FreeAndReturn("error")
        /\ UNCHANGED <<next, count, slot, strs>>

\* The package's own marshaller writes an element, and the malloc of a string
\* may fail after the element says it is one: its pointer is still null.
LeaveOnFailure == Return("error")
MarshalFailed == FreeAndReturn("error")

MarshalOne ==
  /\ Encoding /\ ~ Native /\ array = "live" /\ next < Len(params)
  /\ LET i == next + 1 IN
     \/ /\ next' = i /\ slot' = [slot EXCEPT ![i] = params[i]]
        /\ strs' = IF params[i] = "string" THEN strs \cup {i} ELSE strs
        /\ UNCHANGED <<pc, result>>
     \/ /\ params[i] = "string" /\ MarshalFailed
        /\ slot' = [slot EXCEPT ![i] = "null"]
        /\ UNCHANGED <<next, strs>>
  /\ UNCHANGED <<array, alloc, count, faults>>


EncodedEarly ==
  /\ Encoding /\ (Native \/ params = << >> \/ array = "live")
  /\ pc' = "call" /\ UNCHANGED <<next, memory, result>>

Encoded ==
  /\ Encoding /\ next = Len(params) /\ (Native \/ params = << >> \/ array = "live")
  /\ pc' = "call" /\ UNCHANGED <<next, memory, result>>

\* virDomainSet*: libvirt reads the array; cleanup is deferred.
CallSet ==
  /\ pc = "call"
  /\ seen' = [i \in 1 .. count |-> slot[i]]
  /\ faults' = faults \cup ReadFaults(count)
  /\ \E r \in {"ok", "error"} : FreeAndReturn(r)
  /\ UNCHANGED <<helpers, domain, op, params, next, array, alloc, count, slot, strs>>

--------------------------------------------------------------------------------
(* Getting: getDomainTypedParameters and GetSchedulerParameters.            *)

\* The parameters libvirt has are the domain's, whatever they are by now.
DomainChanges ==
  /\ pc # "done" /\ op # "set"
  /\ domain' \in Lists(Kinds)
  /\ UNCHANGED <<helpers, op, pc, params, next, memory, seen, result>>

Asking(o, at) == op = o /\ pc = at /\ UNCHANGED <<helpers, domain, op, next>>

BeginGet ==
  \E o \in {"get", "sched"} : Begin(o, "query") /\ params' = << >>

\* The first call, with no array, only counts.
Query(o, counts) ==
  /\ Asking(o, "query")
  /\ \/ Return("error") /\ UNCHANGED count
     \/ \E n \in counts :
          /\ count' = n
          /\ CASE n = 0 -> Return("ok")
               [] n < 0 -> Return("error")
               [] OTHER -> pc' = "calloc" /\ UNCHANGED result
  /\ UNCHANGED <<params, array, alloc, slot, strs, faults, seen>>

QueryCount == Query("get", {Len(domain), -1})
\* virDomainGetSchedulerType counts too; the name it returns is freed at once.
QueryScheduler == Query("sched", {Len(domain), -1})

Calloc ==
  /\ pc = "calloc" /\ op \in {"get", "sched"}
  /\ \/ array' = "live" /\ alloc' = count /\ pc' = "fetch" /\ UNCHANGED result
     \/ UNCHANGED <<array, alloc>> /\ Return("error")
  /\ UNCHANGED <<helpers, domain, op, params, next, count, slot, strs, faults, seen>>

\* What libvirt writes: the parameters ps, from the first element on.
Write(ps) ==
  /\ params' = ps
  /\ slot' = [i \in Elements |-> IF i <= Len(ps) THEN ps[i] ELSE slot[i]]
  /\ strs' = strs \cup {i \in 1 .. Len(ps) : ps[i] = "string"}

\* The second call fills the room there is and writes a count of its own.
Fetch ==
  /\ pc = "fetch" /\ op \in {"get", "sched"}
  /\ \/ LET k == IF Len(domain) <= alloc THEN Len(domain) ELSE alloc IN
        /\ Write(SubSeq(domain, 1, k))
        /\ count' \in {Len(domain), -1} /\ pc' = "decode" /\ UNCHANGED result
     \/ /\ FreeAndReturn("error") /\ UNCHANGED <<params, slot, strs>>
        /\ count' \in {count, Len(domain)}
  /\ UNCHANGED <<helpers, domain, op, next, array, alloc, faults, seen>>

\* decodeTypedParameters over n elements: a type it does not know fails.
decodeTypedParameters(n) ==
  /\ faults' = faults \cup ReadFaults(n)
  /\ IF n < 0 \/ \E i \in 1 .. n : slot[i] \notin Encodable
     THEN FreeAndReturn("error") /\ UNCHANGED seen
     ELSE FreeAndReturn("ok") /\ seen' = [i \in 1 .. n |-> slot[i]]
  /\ UNCHANGED <<array, alloc, count, slot, strs>>

\* The count changed, so ask again.
DecodeOrAskAgain ==
  /\ pc = "decode" /\ op \in {"get", "sched"}
  /\ IF count < 0 \/ count > alloc
     THEN /\ pc' = "query" /\ params' = << >> /\ array' = "none" /\ alloc' = 0
          /\ slot' = Blank /\ strs' = {} /\ UNCHANGED <<count, faults, seen, result>>
     ELSE decodeTypedParameters(count) /\ UNCHANGED params
  /\ UNCHANGED <<helpers, domain, op, next>>

Decode ==
  /\ pc = "decode" /\ op \in {"get", "sched"}
  /\ IF count < 0 \/ count > alloc
     THEN FreeAndReturn("error") /\ UNCHANGED <<memory, seen>>
     ELSE decodeTypedParameters(count)
  /\ UNCHANGED <<helpers, domain, op, params, next>>

--------------------------------------------------------------------------------
(* Statistics: libvirt allocates, and the code frees.                       *)

BeginJob == Begin("job", "fetch") /\ params' = << >>

\* virDomainGetJobStats; a count without memory is refused.
FetchJob ==
  /\ op = "job" /\ pc = "fetch" /\ UNCHANGED <<helpers, domain, op, next, faults, seen>>
  /\ \/ Return("error") /\ UNCHANGED <<params, array, alloc, count, slot, strs>>
     \/ /\ domain # << >> /\ count' = Len(domain) /\ Return("error")
        /\ UNCHANGED <<params, array, alloc, slot, strs>>
     \/ /\ array' \in {"live"} \cup (IF domain = << >> THEN {"none"} ELSE {})
        /\ Write(domain) /\ alloc' = Len(domain) /\ count' = Len(domain)
        /\ pc' = "decode" /\ UNCHANGED result

DecodeJob ==
  /\ op = "job" /\ pc = "decode" /\ UNCHANGED <<helpers, domain, op, params, next>>
  /\ decodeTypedParameters(count)

BeginStats == Begin("stats", "fetch") /\ params' = << >>

\* virDomainListGetStats: the list is freed on every path once there is one.
FetchStats ==
  /\ op = "stats" /\ pc = "fetch" /\ UNCHANGED <<helpers, domain, op, next, faults, seen>>
  /\ \/ Return("error") /\ UNCHANGED <<params, array, alloc, count, slot, strs>>
     \/ /\ array' \in {"none", "live"} /\ count' = 0 /\ FreeAndReturn("error")
        /\ UNCHANGED <<params, alloc, slot, strs>>
     \/ /\ array' = "live" /\ Write(domain) /\ alloc' = Len(domain) /\ count' = Len(domain)
        /\ pc' = "decode" /\ UNCHANGED result

DecodeStats ==
  /\ op = "stats" /\ pc = "decode" /\ UNCHANGED <<helpers, domain, op, params, next>>
  /\ decodeTypedParameters(count)

--------------------------------------------------------------------------------
(* The end of every call: what it holds is freed.                           *)

\* Getting frees what it allocated, the other calls what the count says.
LatestCount == count
FreeCount == IF op \in {"get", "sched"} THEN alloc ELSE count

Free ==
  /\ pc = "free" /\ pc' = "done"
  /\ freeTypedParameters(FreeCount)
  /\ UNCHANGED <<helpers, domain, op, params, next, seen, result>>

Step ==
  \/ CallocForSet \/ AddNative \/ MarshalOne \/ Encoded \/ CallSet
  \/ QueryCount \/ QueryScheduler \/ Calloc \/ Fetch \/ Decode
  \/ FetchJob \/ DecodeJob \/ FetchStats \/ DecodeStats \/ Free

Next == BeginSet \/ BeginGet \/ BeginJob \/ BeginStats \/ DomainChanges \/ Step

Spec == Init /\ [][Next]_vars
\* A call does its next step: its goroutine runs, and libvirt answers.
FairSpec == Spec /\ WF_vars(Step)

--------------------------------------------------------------------------------
\* Nobody reads or frees an element outside the array, an array or a string
\* already freed, or the string of an element that libvirt's count invents:
\* the array freed by getDomainTypedParameters has the size it was allocated
\* with (typed_params.go:324), the count libvirt wrote is checked first (332).
MemoryIsSafe == faults = {}

\* When a call has returned, on whichever of its paths, it has freed the array
\* and every string in it, those encoded before a failure included
\* (typed_params.go:104, 147, 177; domain_job.go:206; domain_stats.go:126).
NothingLeaks == pc = "done" => array # "live" /\ strs = {}

\* A call that succeeds has carried the whole list across: libvirt read what
\* the program set, the program got what libvirt wrote, in order, whatever
\* the domain became between counting and fetching (typed_params.go:305-336).
ListsArriveWhole == pc = "done" /\ result = "ok" => seen = params

\* A call ends however often the domain's parameters change under it.
CallsEnd == pc # "done" ~> pc = "done"
================================================================================
