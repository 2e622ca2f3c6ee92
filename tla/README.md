# A TLA+ model of libvirt-go

libvirt-go binds the libvirt C API to Go without cgo: symbols are resolved with
dlsym at run time and called through function values. What can go wrong in it
is less in the calls themselves than around them: who owns a native reference
or a block of C memory, who may still be using a pointer, which thread an error
was recorded on, which callback a token stands for, which function pointers
exist, and whether a value survives the way into C and back. This project models
those parts, the generator of the raw binding and the example programs, checks
them with TLC on small instances and proves most of their invariants with TLAPS
for every size.

## The system

| Part | Files | State it keeps | Operations | Correct when |
| --- | --- | --- | --- | --- |
| Handles | `connect.go`, `domain.go`, `resource.go` | a wrapper: `RWMutex`, native pointer | methods under the read lock, `Free`/`Close` under the write lock | no call uses a released pointer, each reference has one owner, every call returns |
| Resource families | `network.go`, `interface.go`, `nodedev.go`, `nwfilter.go`, `secret.go`, `snapshot.go`, `storage.go`, `stream.go` | `nativeObject` wrappers | lookups, lists, plain calls, two-wrapper calls, `Free`, `AddReference` | the same |
| Native calls | `native.go` | none in Go; libvirt's last error per OS thread | `nativeCall`, `lastError` | an error shown is the call's own, threads are let go |
| Loader | `loader_unix.go`, `native.go`, `raw.go` | `apiOnce`, the function table, `missing` | `getNativeAPI`, `bindLibvirtSymbols`, `requireSymbol`, `HasSymbol` | no nil or closed pointer is called, all see one outcome |
| Callback registry | `events.go` | `callbackRecords`, tokens from malloc, the handles' `closed` | register, the thunks, the free callback, the handles' `Close` | tokens freed once, events reach their callback, `Close` ends its own registration only |
| Typed parameters | `typed_params.go` | native arrays during a call | encode, decode, get, set, free | blocks freed once and never read past their end, values arrive uncut |
| Statistics | `domain_job.go`, `domain_stats.go` | none | decoding of typed parameters | what libvirt sent, for the right device; sentinels unset |
| Streams' data | `stream.go`, `examples/volume-transfer` | the transfer | `Read`, `Write`, `Finish`, `Abort` | success means that every byte moved |
| Version, flags, errors | `version.go`, `flags.go`, `errors.go` | none | packing, constants, error values | a version survives the packing |
| Generator | `internal/generator`, `cmd` | the binding it wrote | merges the API documents, selects functions, maps types, emits `libvirt_api.gen.go` | the binding follows its sources only, an error leaves it alone |
| Examples | `examples/` | handles on a stack of deferred releases | ten commands | every handle released, parents last, failures reported |

Every high-level method goes the same way: it asks the loader for the API (or
has it in its wrapper), locks its wrapper, checks the pointer, and gives
`nativeCall` a closure. `nativeCall` asks `requireSymbol`, wires the goroutine
to its thread, clears the thread's error, runs the closure, reads the error of
a failure and lets the thread go. Methods with typed parameters build or read a
C array around that call. The registry's registrations and closings are such
methods; its thunks are called the other way round, by libvirt, on the thread
that runs the event loop. The examples are the package's users in this
repository; the generator writes the raw binding all of it calls through.

What is hard: goroutines share wrappers and close them while others are in
libvirt; two-wrapper calls nest locks beside pending writers; the scheduler
moves goroutines between threads; callbacks, the free callback and `Close` meet
in one map whose keys are recycled addresses; several goroutines load the
library at once, and any step of the loading may fail; the hypervisor changes a
list between the call that counts it and the one that fetches it; an encoding
fails half-way; a release fails while a function already returns an error; the
generator's output lies among its inputs. `PROJECT.json` lists these hazards
with their lines and the properties that cover them.

## The modules

| Module | Models | Extends or uses |
| --- | --- | --- |
| `HandleShapes` | which wrappers each method locks, in which order, and what it returns | |
| `RWMutex` | Go's `sync.RWMutex`: a pending writer turns new readers away | |
| `ReferenceContract` | abstract: a wrapper is open, then closed once, never while a call is on it | |
| `NativeHandle` | the lock-check-call-unlock protocol of all wrappers | `HandleShapes`, `RWMutex`, refines `ReferenceContract` |
| `NativeCall` | `nativeCall` and `lastError` over threads, goroutines and nested callbacks | |
| `CallbackRegistry` | `events.go`: registrations, dispatch, freeing, closing | |
| `SymbolLoader` | `getNativeAPI`, the loading sequence, the table of missing symbols, `EventRegisterDefaultImpl` | |
| `TypedParams` | who owns the native memory of typed parameters, on every path of every call with them | |
| `ParamCodec` | what becomes of one parameter's value and name, and of a version, in C and back | |
| `JobStats`, `DomainStats` | the decoding of job and of bulk statistics, parameter by parameter | |
| `StreamTransfer` | one run of `volume-transfer` over a stream | |
| `Session`, `ExampleScripts` | a program that acquires, uses and releases handles; the scripts of the nine other commands | |
| `ApiGenerator` | a run of the generator, stage by stage, with edits between runs | |
| `AbiTypes` | the generator's mapping of C types and structures to Go | |
| `Conversions` | `ParamCodec`, `JobStats`, `DomainStats` and `AbiTypes` together, one of them at work per behaviour | those four |
| `Examples` | `Session` and `StreamTransfer` together: a behaviour is one run of one command | `ExampleScripts`, `StreamTransfer` |
| `...Proofs` | theorems about `NativeHandle`, `NativeCall`, `CallbackRegistry`, `SymbolLoader`, `TypedParams`, `Conversions`, `Examples`, `ApiGenerator` | the module they are named for |
| `MC...` | the instances TLC checks | the module they are named for |

### NativeHandle

A wrapper `h` has `ptr[h]`, the field of the code, and a mutex `rw[h]`. A
goroutine runs one method at a time; `op[g]` is its shape with the wrappers it
was called on, closed ones included. The actions are the steps of
`connectCall`, `domainCall`, `objectCall` and `objectFree`:

    Invoke, RLock | RLockBlocked, RLockResumed | LockAnnounced, Locked,
    Refuse | CallNative, NativeFails | NativeUses | NativeGives |
    NativeReleases, ForgetPointer, Unlock, Return

`refs[o]` is libvirt's own reference count. libvirt may answer a lookup with an
object that is already there or with a new one at a recycled address. The
event registrations check the outer pointer before they lock the inner wrapper
(`CheckedOuter`); all other two-wrapper methods check both at the end. A failed
release keeps pointer and reference, as in the code.

`HandleShapes` reduces each file of methods to the set of its shapes. It is the
place to look when a method is added: a new shape there is a new behaviour.

### NativeCall

`thread[g]` is where the scheduler put a goroutine, `pins[g]` and `home[g]` its
`LockOSThread` calls and the thread they wire it to, `error[t]` the call that
left thread `t`'s last error. A call is refused, or it locks, resets, calls,
reads and unlocks; a call that runs the event loop may be interrupted by a
callback whose own calls nest in it on the same thread (only node-device
callbacks run there; the others get a goroutine of their own). `FailsSilently`
is the closure that reports failure without libvirt having recorded anything,
for instance when there is no token. Succeeding calls may leave an error behind.

### CallbackRegistry

`heap` holds the tokens malloc has given out, `records` is `callbackRecords`.
Registering allocates, stores, and asks libvirt, in this order; a refusal discards
record and token. `native[r]` is libvirt's view of a registration: active,
dropped, being freed, gone. `LoopPicks`, `Thunk` and `LoopDone` are the delivery
of one event: libvirt lends memory that tells of it (`lent`), the thunk finds the
record and starts the Go callback, and the memory is taken back when the thunk
returns. `running` holds the callbacks that have not ended, each with the event it
was called for and the copy it was given: most thunks copy and return at once, the
node-device one passes wrappers around the lent pointers and waits (`Borrows`,
`Synchronous`). The free callback takes its record and frees its token in two
steps. `CloseLooks`, `CloseLocks` and `CloseRemoves` are the three steps of a
handle's `Close`; between them anything may happen.

Assumed of libvirt, from its API description under `api/` and its behaviour:
it calls the free callback after a registration was removed and not while it
delivers to it; a connection has one close callback, which is dropped after it
has been told; close callbacks are removed by function pointer, domain and
node-device callbacks by their ID; what is left may go once the connection is
closed. Where libvirt holds its lock over several of these steps, the model
leaves them apart and allows more orders than there are.

### SymbolLoader

The environment chooses, per library, which symbols it exports, and per step
whether it succeeds. The loader walks through the candidates: dlopen, the
allocators, the first pass of `bindLibvirtSymbols`, `virInitialize`, the
extensions, the second pass. `Abandon` is the dlclose of a candidate that fails.
Each turn of a pass is one action; the order of the table does not matter and is
left open. Goroutines wait in `apiOnce.Do`, then call symbols or are refused.

`EventRegisterDefaultImpl` has a gate of its own around that one: `registrar` is
the goroutine inside `defaultEventOnce.Do`, which asks for the API, calls or is
refused; `loop` is the outcome it leaves, for good, to those who wait and those
who come later.

### TypedParams

One call after another sets parameters, gets them (`getDomainTypedParameters`,
`GetSchedulerParameters`), gets a job's statistics or bulk statistics. `array` is
the C array with room for `alloc` elements, `count` the count the code keeps and
libvirt overwrites, `slot[i]` what element `i` says it holds, `strs` the string
blocks that are allocated. `helpers` is the subset of libvirt 1.0.2's helpers the
library has: with all of them the array is built by `virTypedParamsAdd*`,
otherwise by the package's own marshaller; a library with some of them takes that
second path too. Each addition goes through `nativeCall`, which refuses a helper
that is missing and so ends the encoding with an error. `domain` is what the
hypervisor holds and `DomainChanges` lets it grow, shrink or change between any
two steps. A read or a free outside what is live is recorded in `faults`; `seen`
is what the other side read, to be compared with `params`.

### ParamCodec, JobStats, DomainStats

`ParamCodec` takes one parameter through `normalizeTypedParameter`, the field
name's check, the encoding to a C union and the decoding: integers keep their
widths (`Half32`, `Half64` stand for 2^31 and 2^63), a Go `int` or `uint` is
wider than the element it may stand for, and a field has `FieldLength` bytes.
`DecodeVersion` and `Number` are `version.go`. `JobStats` and `DomainStats` take a
list of decoded parameters, known and unknown, rightly and wrongly typed, and
build the result: the fields with their set flags; the plain counters, and the
device lists that grow in order of appearance and are sorted by index.

### StreamTransfer, Session, ExampleScripts

`Session` is a program that gets handles from a connection or from other
handles, pushes a deferred release for each, uses them and leaves; every step and
every release may fail, errors join. A command is a record: whether its
connection is read-only, whether it ends with `log.Fatal`, and a script of steps
(`open`, `get`, `list`, `use`, `each`, `leave`, `drain`, `check`, `reject`).
`ExampleScripts` derives the script of each command from its option, as the
`switch` of its `run` function does, with the calls each step makes.
`StreamTransfer` has the tenth command step by step: the connection, the volume
and the stream, the copy loop with short reads and writes and would-block
answers left to libvirt, `Finish`, and the deferred abort and close. An error of
the stream is one of libvirt's, which marks the transfer as aborted, or one that
leaves it under way (nothing to read for now, a call the package refuses); a
failed file or a short write leaves it under way, too. An `Abort` is taken to
end the transfer even when it reports an error.

### ApiGenerator, AbiTypes

`ApiGenerator` runs through `resolveAPIPath`, `loadAPIDocument` for each
library, `selectNativeSymbols` (all, or those the package's Go files mention)
and `renderGenerated`; the written file lies among the Go files. Documents and
files change between runs; a write may break off. Names are numbers in the order
of `sort.Strings`; an enum group keeps that order, where the code takes the
order of values. `AbiTypes` maps a function's
arguments or a structure's fields one by one and compares, on machines with
words of 32 and 64 bits, the size, offset and class of each with C's.

## The runs

| Run | Instance | Checks |
| --- | --- | --- |
| `shared_handles` | 2 goroutines, 3 addresses; a connection, a pool, 2 volumes, 2 streams; lists, clones, transfers, shared streams | `RefsBalanced`, `NoUseAfterFree`, `PointerLostOnlyByRelease`, and that `NativeHandle` implements `ReferenceContract` |
| `nested_locks` | 4 goroutines, a connection, a domain, registrations | `NoStuckCalls` |
| `calls_return` | 3 goroutines, a connection and a domain, the list symbol missing, under fairness | `CallsReturn` |
| `events` | 2 close, a domain and a node-device callback on a connection, 2 addresses, 2 events under way | `TokensBalanced`, `EventsReachTheirOwner`, `ClosedMeansGone`, `CallbacksReadTheirEvent` |
| `close_spares_others` | 2 close callbacks, a domain callback | `CloseSparesOthers`, violated: see below |
| `own_errors` | 2 goroutines, 2 threads, 3 calls, one of them an event-loop iteration | `ErrorsAreOwn`, `ErrorsAreReported`, `ThreadsAreLetGo` |
| `loading` | 2 goroutines, 2 candidates, 2 extensions, 4 symbols, under fairness | `CallsAreBound`, `MissingIsExact`, `OneOutcome`, `FailuresAreClosed`, `ExtensionsComeLast`, `LoadingEnds` |
| `typed_parameters` | lists of up to 2 parameters, every subset of 3 helpers, under fairness | `MemoryIsSafe`, `NothingLeaks`, `ListsArriveWhole`, `CallsEnd` |
| `conversions` | every parameter over 2- and 3-bit integers; lists of 2 job parameters, of 3 bulk statistics; functions of 1 argument, structures of 3 fields, words of 4 and 8 bytes | `ValuesArrive`, `NamesEnd`, `InfoIsTrue`, `SentinelsStayUnset`, `DevicesKeepTheirCounters`, `TypesAgree` |
| `examples` | every action of nine commands but `secrets get`, lists of up to 2; transfers of 3 bytes through a buffer of 2, under fairness | `EverythingIsReleased`, `FailuresAreReported`, `NoneOutlivesItsParent`, `CallsArePermitted`, `TransfersAreWhole`, `TransfersEndBeforeFree`, `CommandsEnd` |
| `secret_value` | the `get` action of the secrets command | `CallsArePermitted`, violated: see below |
| `generator` | 3 runs, 2 directories, 12 sets of documents and 5 of Go files, right and wrong | `OutputFollowsItsSources`, `ErrorsChangeNothing`, `RepeatIsQuiet` |

Each property of a passing run has a mutant in `PROJECT.json`: an operator next
to the one it replaces, wrong in the way a plausible edit of the code would be
(a dropped lock, a missing reset, a record stored late, a release loop that stops
at its first error), which the run catches.

### Bounds, and why they are enough

The concurrent hazards are between two actors: two goroutines on one wrapper, an
event and a `Close`, a loader and one that waits. Two goroutines cover them; the
lock cycle that `NoStuckCalls` excludes needs two readers, each in its outer
lock, and two writers between them, hence four. Two wrappers of the same kind
let a reference be shared, fewer objects than wrappers an address be recycled.
Fewer addresses than registrations force the registry to recycle tokens. Two
events are one whose callback still runs and one that is being delivered; the
registrations are one of each kind, and a second close callback, for these
share a thunk. Three
calls are a loop, its callback's call and a call of another goroutine. Four
symbols are one the loader needs, the event loop's, which a release may lack,
and one of each extension. `MaxList` bounds the lists libvirt returns; wrappers are never
used twice, so `Handle` bounds the life of an instance.

A failure half-way through a list needs one element before it and one that
fails: `MaxParams`, `JobLength` and `MaxList` of two. Three bulk statistics are
two devices, one of them out of order, and a second counter for one of them;
device 0 and 2 without 1 make an index different from a position. Two bits have
a smallest, a largest and a sign; three bits have values that two do not. A
buffer of two and a file of three need a second, short round; the lengths
reach below, up to and beyond the file. Structures of three fields have padding
inside and at the end. Three generator runs are a first one, a repetition and
one after an edit.

Goroutines, threads, addresses and objects that no property tells apart are
symmetric, except in the runs with liveness. The theorems have none of these
bounds. The runs with `CHECK_DEADLOCK FALSE` are of programs that end: all
registrations made and closed, one conversion done, one command run, the
generator's runs used up.

### Fairness

`CallsReturn` assumes that a goroutine inside a method keeps being scheduled,
that libvirt answers every call (weak fairness of `Step`), and that a `Lock`
which again and again finds the mutex free of writers gets it (strong fairness
of `LockAnnounced`): Go's mutex queues its waiters and goes to the longest
waiting one in starvation mode. Nothing forces a program to call anything. The
run leaves out `Connect.Close`, keeping `Domain.Free`, to stay small.

`LoadingEnds` assumes that the goroutine inside `apiOnce.Do` is scheduled, that
dlopen and `virInitialize` return, and that a goroutine which `Do` has let go
continues, as does the one inside `defaultEventOnce`. `CallsEnd` assumes that the
goroutine of a call runs and libvirt answers, but nothing of the hypervisor:
however often the list changes, the call ends. `CommandsEnd` assumes that a
command which can go on does.

### What the violations show

`CloseCallback` is documented as owning its registration (`events.go:194`) and
its `Close` as idempotent (`events.go:229`). In `close_spares_others`:

1. r1 is registered; its handle's `Close` finds the record (line 239).
2. libvirt delivers the close event and drops r1; a connection has room again.
3. Another goroutine registers r2.
4. r1's `Close` calls `virConnectUnregisterCloseCallback` with the one thunk all
   close callbacks share (line 244). libvirt removes r2; r1's `Close` reports
   success, and r2's owner is never told of the loss.

The same follows without the race when r2 is given the address of r1's freed
token: line 239 then finds r2's record. The other callbacks have no such
problem, because libvirt removes them by their ID.

`secret_value`: `examples/secrets` opens a read-only connection for every action
that is not in its list of writing ones (line 46), `get` included, and then
calls `virSecretGetValue` (line 141), which libvirt refuses there: the API
document gives it the check `read-secure`. The command documented as reading a
secret's value cannot.

Four more deviations were met and are left out of the properties' statements
by name. `examples/list-domains` ends with `log.Fatal`, which runs no deferred
function: its connection is not closed after an error (`EverythingIsReleased`
excepts `fatal` commands that failed). `volume-transfer` with a length finishes a
download when it has the bytes it was asked for, which may be before libvirt's
end of file; `TransfersAreWhole` is therefore about the bytes asked for. Its
download asks for `data-read` (`libvirt-api.xml:15764`) on a read-only connection
(`main.go:62`), much as `secrets get` asks for `read-secure`. `CallsArePermitted`
is about the nine scripts; in `StreamTransfer` it is left to libvirt whether the
download starts (`Start`), so that the copy is modelled for either answer.
And it aborts its stream whenever the copy failed (`main.go:93`), but after "-1 upon
error [...] the stream will be marked as aborted, and the caller should now
release the stream with virStreamFree" (the API document of `virStreamRecv`, line
16135, and of `virStreamSend`, 16278). It does not tell such an error from
others, one of its file for instance, after which the abort is due; so `Release`
also aborts a transfer that is aborted already, and an error of that call is
joined to the first. The samples of the same document make the second call, too
(16113, 16267), so it contradicts itself, and no property takes a side:
`TransfersEndBeforeFree` says that the abort is never missing, and never follows a
`Finish` that succeeded.

## The theorems

Each proof module shows that an inductive invariant holds in every reachable
state and derives the properties from it. Types and the checked invariants
are seldom inductive alone; what is added says why they hold.

- **NativeHandle.** `PlaceInv` says what a goroutine has locked at each label,
  `LockInv` that the mutexes agree: a `Free` is alone in its wrapper, others are
  readers. `PointerInv` says that the pointer a call was given is still the
  wrapper's. `RefsBalanced` goes through once each step's effect on `Owners` is
  known (a gift adds one owner, a release removes one; lemmas on cardinality).
  From it: `NoUseAfterFree`, `ReleaseRunsAlone`, the action property
  `PointerLostOnlyByRelease`, and the refinement `ImplementsContract`.
  `NoStuckCalls` says that the goroutines never all wait for each other's
  locks. `WaitInv` puts those who wait where the mutex left them, so that a
  goroutine which waits does so for a reader in the end (a `Free` holds one lock
  only and waits for readers). `OrderInv` says that two-wrapper methods lock
  in the order of `LockRank`: connections and pools, then volumes, then the
  rest. A reader that holds one lock and waits for another therefore waits
  higher up; a chain of such goroutines climbs, and there are three ranks.
- **NativeCall.** `SchedInv` (no two goroutines on one thread), `PinInv`
  (wired exactly while a call is in progress), `NestInv` (the calls of a goroutine form
  a stack), `ErrorInv` (what the thread's error is at each label). From it:
  `ErrorsAreOwn`, `ErrorsAreReported`, `ThreadsAreLetGo`.
- **CallbackRegistry.** `RecordsInv` (a live registration's record is under its
  token), `DispatchInv` (what is delivered to is not freed), `LentInv` (memory is
  lent just while an event is delivered, and a callback that borrows it runs
  inside its thunk), `CloseInv` (one close callback per connection). From it:
  `TokensBalanced`, `EventsReachTheirOwner`, `CallbacksReadTheirEvent`,
  `ClosedMeansGone`.
- **SymbolLoader.** `LibraryInv` (which libraries are open at each stage),
  `BindInv` (what the turns of the two passes have recorded so far),
  `OutcomeInv`, `LoopInv` (one registration of the event loop, under way or
  over). From it: `CallsAreBound`, `MissingIsExact`, `OneOutcome`,
  `FailuresAreClosed`, `ExtensionsComeLast`.
- **TypedParams.** `Blocks` says at each label which strings and whether the
  array are allocated, `Encodes` how far an encoding is and that the elements
  before it are the parameters, `Fetches` what libvirt wrote and that the counts
  stay within the room there is, `Answers` what has been passed on. From them, and
  `faults = {}`: `MemoryIsSafe`, `NothingLeaks`, `ListsArriveWhole`, for every
  `MaxParams`.
- **Conversions.** `CodecInv` says what the C element holds once a parameter was
  accepted: the name with its NUL, and the value of the normalised type, which
  fits it. From it: `ValuesArrive` for all widths (and that every documented
  combination of Go and C type is accepted), `NamesEnd` for every field length.
  `JobInv` says that a field is set exactly when one of the parameters taken so
  far carries it, to the value of the last that does. From it: `InfoIsTrue`.
  `StatsInv` says the same of the plain counters and of those of each entry
  (`Tells`); that the entries' indices are those seen, each once; and, until they
  are sorted, that `positions` finds the entry of its index (`PlacedInv`). Sorting
  is by counting: with distinct indices there is one entry with `n - 1` below it,
  so the sorted list has the same entries, in order. From it:
  `SentinelsStayUnset`, `DevicesKeepTheirCounters`. `AbiInv` says that what is
  mapped so far is what the generator makes of each type, one by one; that a
  structure's offsets agree follows because each of its fields does in size,
  alignment and class. From it: `TypesAgree`. All of it is for lists, records
  and structures of any length. `VersionRoundTrip` is about `version.go` alone:
  packing what `DecodeVersion` unpacks gives the number back, where its major
  part fits in 32 bits, and unpacking what `Number` packs the version, where its
  minor part and its release are below a thousand (a larger one, which the types
  allow, comes back as another version).
- **Examples.** For any set of scripts whose handles are acquired once. `Control`
  types the control state, `Balance` says that the references held of a handle
  are those owed by the deferred releases and those libvirt refused to release,
  `Nested` that a handle's parent is owed further down the stack, `Ahead` that
  what the script has still to acquire is not held yet, `Ending` what has been
  paid and reported when the function is over. From it: `EverythingIsReleased`,
  `NoneOutlivesItsParent`, `FailuresAreReported`. `CallsArePermitted` is proved
  by going through the scripts that the repository has: of each action that
  opens a read-only connection, every call is one such a connection may make,
  `secrets get` excepted. `TransferInv` accounts for the bytes of a transfer (what has been
  read is in the sink or in the buffer, in order) and ties the local `active` to
  libvirt's transfer: while it is set, the transfer is under way or aborted by
  libvirt itself, and the stream is there; while it is not, none is under way.
  From it: `TransfersAreWhole`, `TransfersEndBeforeFree`, for every size, buffer
  and length.
- **ApiGenerator.** `RunInv` says that a run has read the first documents of the
  directory it resolved, none of which repeats a function or an enum, that the
  combined document holds exactly what those do, each name once, and that the
  symbols it renders are the functions wanted, in order. `SettledInv` says that
  as long as nothing is edited, a run with the options of the last success would
  again resolve, read, select and render, and render what is in the output. It is
  needed for `RepeatIsQuiet`, which looks at a later run. The heart of both is
  that the output is a function of the documents and of a set of names
  (`Binding`): a list without repetitions is sorted into an order that depends
  on its names only (`NthOfRange`, by counting who is below), so neither the
  order in which Go walks a map nor the output among the Go files shows; and a
  name that is in one document only has one library. From it:
  `OutputFollowsItsSources`, `RepeatIsQuiet`; `ErrorsChangeNothing` needs no
  invariant. All for documents, Go files and directories of any number and size,
  and any number of runs.

They assume only what the ASSUMEs of the modules state: that the special values
(`Null`, `None`, ...) are not ordinary ones, that the set of wrappers is finite,
that the parameters have their types, that candidate paths are distinct and
not empty, that a script gets each of its handles once, from a handle, that
a buffer is not empty, and that a statistics parameter's number fits the 64 bits
it was decoded from, a state's the 32 bits libvirt gives it; of the generator,
that it has a main library, that documents are lists of names (or missing, or
broken), and that the package's Go files are finitely many and mention finitely
many functions.

Only model-checked: the liveness properties `CallsReturn`, `LoadingEnds`,
`CallsEnd` and `CommandsEnd`, whose proofs need fairness and ENABLED. Every other
property of a passing run is a theorem.

## Not modelled

- Names, XML, info records, flags and other data that methods carry; the fields
  copied out of a `virError`.
- What a program's callbacks do, in particular with the borrowed wrappers a
  node-device callback is given: one that keeps or frees them is not modelled.
  Callbacks run and end in any order; `events.go` promises none.
- In the generator: the text of the template, the spelling of Go names and the
  grammar of macro values. The generated raw methods: each is `requireSymbol` and
  one call, `Call` of `SymbolLoader`.
- `flags.go` (constants), `loader_unsupported.go` (returns one error), and the
  integration tests, whose expectations are those of the package's modules.

## Plan

1. An abstract specification of the callback registry (a registration is made,
   delivered to, and ended once by whoever comes first) and the refinement.
2. `NativeHandle` and `CallbackRegistry` composed: what a callback may do with
   the borrowed wrappers it is given.
