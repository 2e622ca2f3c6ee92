----------------------------- MODULE SymbolLoader -----------------------------
(***************************************************************************)
(* How the process loads libvirt: getNativeAPI of native.go and the        *)
(* loading sequence of loader_unix.go.                                     *)
(*                                                                         *)
(* The first goroutine that needs libvirt tries the candidate paths in     *)
(* turn: it opens one, binds the symbols the main library exports,         *)
(* initializes it, opens the extension libraries and binds theirs.  Every  *)
(* other goroutine waits for the outcome, and every call asks the table of *)
(* missing symbols before it touches a function pointer.                   *)
(*                                                                         *)
(* EventRegisterDefaultImpl of events.go is a second such gate: the first  *)
(* goroutine that enters it asks for the API and installs libvirt's event  *)
(* loop, and every caller is told what became of that.                     *)
(***************************************************************************)
EXTENDS Naturals, Sequences

CONSTANTS Goroutine,
          Candidate,      \* the paths of the main library, in the order they are tried
          Extension,      \* admin, lxc, qemu
          Symbol,         \* the symbols of the generated table
          LibraryOf,      \* LibraryOf[s]: the extension that has s, or Main
          virInitialize,
          virEventRegisterDefaultImpl,
          Main, None

Paths == {Candidate[i] : i \in 1 .. Len(Candidate)}
Library == Paths \cup Extension

ASSUME CandidateAssumption ==
  /\ Candidate \in Seq(Paths) /\ Candidate # << >>
  /\ \A i, j \in 1 .. Len(Candidate) : Candidate[i] = Candidate[j] => i = j
  /\ Paths \cap Extension = {} /\ None \notin Library /\ Main \notin Extension
ASSUME SymbolAssumption ==
  /\ LibraryOf \in [Symbol -> Extension \cup {Main}]
  /\ virInitialize \in Symbol /\ LibraryOf[virInitialize] = Main
  /\ virEventRegisterDefaultImpl \in Symbol
  /\ None \notin Symbol /\ None \notin Goroutine

VARIABLES
  exports,  \* exports[l]: the symbols library l has on this machine
  opened,   \* the libraries that are open
  ready,    \* the library whose virInitialize has succeeded
  index,    \* the candidate being tried
  at,       \* how far loadNativeAPIFrom is with it
  todo,     \* what the loop it is in has still to visit
  bound,    \* bound[s]: the library the pointer for s leads into
  missing,  \* api.missing
  outcome,  \* what apiOnce has stored
  pc,       \* pc[g]: where goroutine g is
  got,      \* got[g]: what getNativeAPI answered it
  calling,  \* calling[g]: the symbol it is calling
  loop,     \* defaultEventErr, once defaultEventOnce is done
  registrar,\* the goroutine inside defaultEventOnce.Do's function
  told      \* told[g]: what EventRegisterDefaultImpl answered it

api == <<opened, ready, index, at, todo, bound, missing, outcome>>
events == <<loop, registrar, told>>
callers == <<pc, got, calling, events>>
vars == <<exports, api, callers>>

Stages == {"new", "open", "allocators", "bind", "init", "extend", "rebind", "done"}

TypeOK ==
  /\ exports \in [Library -> SUBSET Symbol]
  /\ opened \in SUBSET Library
  /\ ready \in Library \cup {None}
  /\ index \in 1 .. Len(Candidate) + 1
  /\ at \in Stages
  /\ todo \in SUBSET (Symbol \cup Extension)
  /\ bound \in [Symbol -> Library \cup {None}]
  /\ missing \in SUBSET Symbol
  /\ outcome \in {"nil", "api", "error"}
  /\ pc \in [Goroutine -> {"idle", "once", "have", "call", "loop"}]
  /\ got \in [Goroutine -> {"nil", "api", "error"}]
  /\ calling \in [Goroutine -> Symbol \cup {None}]
  /\ loop \in {"nil", "ok", "error"} /\ registrar \in Goroutine \cup {None}
  /\ told \in [Goroutine -> {"nil", "ok", "error"}]

Unbound == [s \in Symbol |-> None]

\* Each library that is installed may be of a release without some symbols.
Init ==
  /\ exports \in [Library -> SUBSET Symbol]
  /\ \A l \in Library : \A s \in exports[l] :
       LibraryOf[s] = IF l \in Extension THEN l ELSE Main
  /\ opened = {} /\ ready = None
  /\ index = 1 /\ at = "new" /\ todo = {}
  /\ bound = Unbound /\ missing = {}
  /\ outcome = "nil"
  /\ pc = [g \in Goroutine |-> "idle"]
  /\ got = [g \in Goroutine |-> "nil"]
  /\ calling = [g \in Goroutine |-> None]
  /\ loop = "nil" /\ registrar = None /\ told = [g \in Goroutine |-> "nil"]

-------------------------------------------------------------------------------
(* loadNativeAPI: one candidate after another *)

Path == Candidate[index]

\* Mutant: a candidate that fails is tried again.
NextCandidate_Same ==
  /\ index' = index
  /\ IF index = Len(Candidate)
     THEN at' = "done" /\ outcome' = "error"
     ELSE at' = "open" /\ UNCHANGED outcome

NextCandidate ==
  /\ index' = index + 1
  /\ IF index = Len(Candidate)
     THEN at' = "done" /\ outcome' = "error"
     ELSE at' = "open" /\ UNCHANGED outcome

Dlopen ==
  /\ at = "open"
  /\ opened' = opened \cup {Path}
  /\ at' = "allocators"
  /\ bound' = Unbound /\ missing' = {}
  /\ UNCHANGED <<exports, ready, index, todo, outcome, callers>>

DlopenFails ==
  /\ at = "open"
  /\ NextCandidate
  /\ UNCHANGED <<exports, opened, ready, todo, bound, missing, callers>>

\* Mutant: the library stays open.
Abandon_Open ==
  /\ NextCandidate
  /\ UNCHANGED <<exports, opened, ready, todo, bound, missing, callers>>

\* Dlclose, and on to the next candidate.
Abandon ==
  /\ opened' = opened \ {Path}
  /\ NextCandidate
  /\ UNCHANGED <<exports, ready, todo, bound, missing, callers>>

\* malloc, calloc and free are looked up in the process.
Allocators ==
  /\ at = "allocators"
  /\ at' = "bind" /\ todo' = Symbol
  /\ UNCHANGED <<exports, opened, ready, index, bound, missing, outcome, callers>>

AllocatorsFail == at = "allocators" /\ Abandon

\* One turn of bindLibvirtSymbols: s is bound in library l, if it is there.
Binding(s, l, found) ==
  /\ todo' = todo \ {s}
  /\ bound' = IF found THEN [bound EXCEPT ![s] = l] ELSE bound
  /\ missing' = IF found THEN missing \ {s} ELSE missing \cup {s}
  /\ UNCHANGED <<exports, opened, ready, index, at, outcome, callers>>

Bind(s) ==
  /\ at = "bind" /\ s \in todo
  /\ Binding(s, Path, LibraryOf[s] = Main /\ s \in exports[Path])

\* Mutant: the extensions are opened before the library is initialized.
Bound_Extends ==
  /\ at = "bind" /\ todo = {}
  /\ at' = "extend" /\ todo' = Extension
  /\ UNCHANGED <<exports, opened, ready, index, bound, missing, outcome, callers>>

Bound ==
  /\ at = "bind" /\ todo = {}
  /\ at' = "init"
  /\ UNCHANGED <<exports, opened, ready, index, todo, bound, missing, outcome, callers>>

Initialize ==
  /\ at = "init" /\ virInitialize \notin missing
  /\ ready' = Path
  /\ at' = "extend" /\ todo' = Extension
  /\ UNCHANGED <<exports, opened, index, bound, missing, outcome, callers>>

\* virInitialize is missing or answers an error.
InitializeFails == at = "init" /\ Abandon

LoadExtension(l) ==
  /\ at = "extend" /\ l \in todo
  /\ \E found \in BOOLEAN : opened' = IF found THEN opened \cup {l} ELSE opened
  /\ todo' = todo \ {l}
  /\ UNCHANGED <<exports, ready, index, at, bound, missing, outcome, callers>>

ExtensionsLoaded ==
  /\ at = "extend" /\ todo = {}
  /\ at' = "rebind" /\ todo' = Symbol
  /\ UNCHANGED <<exports, opened, ready, index, bound, missing, outcome, callers>>

\* Mutant: the second pass takes every main symbol for bound.
Rebind_MainNil(s) ==
  /\ at = "rebind" /\ s \in todo
  /\ IF LibraryOf[s] = Main THEN Binding(s, bound[s], TRUE)
     ELSE Binding(s, LibraryOf[s], LibraryOf[s] \in opened /\ s \in exports[LibraryOf[s]])

\* Mutant: a symbol bound by the second pass stays marked as missing.
Rebind_Keeps(s) ==
  /\ at = "rebind" /\ s \in todo
  /\ todo' = todo \ {s}
  /\ bound' = IF LibraryOf[s] \in opened /\ s \in exports[LibraryOf[s]]
              THEN [bound EXCEPT ![s] = LibraryOf[s]] ELSE bound
  /\ UNCHANGED <<exports, opened, ready, index, at, missing, outcome, callers>>

\* The second pass leaves the main library's symbols as they are.
Rebind(s) ==
  /\ at = "rebind" /\ s \in todo
  /\ IF LibraryOf[s] = Main THEN Binding(s, bound[s], s \notin missing)
     ELSE Binding(s, LibraryOf[s], LibraryOf[s] \in opened /\ s \in exports[LibraryOf[s]])

Loaded ==
  /\ at = "rebind" /\ todo = {}
  /\ at' = "done" /\ outcome' = "api"
  /\ UNCHANGED <<exports, opened, ready, index, todo, bound, missing, callers>>

-------------------------------------------------------------------------------
(* The goroutines that use the API *)

\* getNativeAPI: the first goroutine to enter apiOnce.Do runs the loader.
Ask(g) ==
  /\ pc[g] = "idle"
  /\ pc' = [pc EXCEPT ![g] = "once"]
  /\ at' = IF at = "new" THEN "open" ELSE at
  /\ UNCHANGED <<exports, opened, ready, index, todo, bound, missing, outcome, got, calling, events>>

\* Mutant: Do does not wait for the goroutine that loads.
Answer_AtOnce(g) ==
  /\ pc[g] = "once"
  /\ pc' = [pc EXCEPT ![g] = "have"]
  /\ got' = [got EXCEPT ![g] = outcome]
  /\ UNCHANGED <<exports, api, calling, events>>

\* Do returns when the first call of it has.
Answer(g) ==
  /\ pc[g] = "once" /\ at = "done"
  /\ pc' = [pc EXCEPT ![g] = "have"]
  /\ got' = [got EXCEPT ![g] = outcome]
  /\ UNCHANGED <<exports, api, calling, events>>

\* There is no libvirt, or requireSymbol finds the symbol missing.
Refuse(g) ==
  /\ pc[g] = "have" /\ registrar # g
  /\ got[g] = "error" \/ missing # {}
  /\ pc' = [pc EXCEPT ![g] = "idle"]
  /\ UNCHANGED <<exports, api, got, calling, events>>

\* requireSymbol lets the call through: the function pointer is used.
Call(g, s) ==
  /\ pc[g] = "have" /\ got[g] # "error" /\ s \notin missing
  /\ registrar = g => s = virEventRegisterDefaultImpl
  /\ pc' = [pc EXCEPT ![g] = "call"]
  /\ calling' = [calling EXCEPT ![g] = s]
  /\ UNCHANGED <<exports, api, got, events>>

Return(g) ==
  /\ pc[g] = "call" /\ registrar # g
  /\ pc' = [pc EXCEPT ![g] = "idle"]
  /\ calling' = [calling EXCEPT ![g] = None]
  /\ UNCHANGED <<exports, api, got, events>>

-------------------------------------------------------------------------------
(* EventRegisterDefaultImpl *)

\* The first goroutine to enter defaultEventOnce.Do asks for the API, in
\* getNativeAPI's own gate; the others wait for it.
AskLoop(g) ==
  /\ pc[g] = "idle"
  /\ IF loop = "nil" /\ registrar = None
     THEN /\ registrar' = g /\ pc' = [pc EXCEPT ![g] = "once"]
          /\ at' = IF at = "new" THEN "open" ELSE at
     ELSE pc' = [pc EXCEPT ![g] = "loop"] /\ UNCHANGED <<at, registrar>>
  /\ UNCHANGED <<exports, opened, ready, index, todo, bound, missing, outcome,
                 got, calling, loop, told>>

\* What Do's function leaves is never changed.
LoopSettles(g, result) ==
  /\ registrar = g /\ registrar' = None
  /\ loop' = result
  /\ pc' = [pc EXCEPT ![g] = "loop"]
  /\ UNCHANGED <<exports, api, got, told>>

\* There is no libvirt, or it has no event loop of its own.
LoopRefused(g) ==
  /\ pc[g] = "have" /\ LoopSettles(g, "error") /\ UNCHANGED calling
  /\ got[g] = "error" \/ virEventRegisterDefaultImpl \in missing

LoopReturns(g) ==
  /\ pc[g] = "call" /\ \E result \in {"ok", "error"} : LoopSettles(g, result)
  /\ calling' = [calling EXCEPT ![g] = None]

\* Do returns, and defaultEventErr is read.
LoopAnswers(g) ==
  /\ pc[g] = "loop" /\ loop # "nil"
  /\ pc' = [pc EXCEPT ![g] = "idle"]
  /\ told' = [told EXCEPT ![g] = loop]
  /\ UNCHANGED <<exports, api, got, calling, loop, registrar>>

Load ==
  \/ Dlopen \/ DlopenFails \/ Allocators \/ AllocatorsFail
  \/ Bound \/ Initialize \/ InitializeFails
  \/ ExtensionsLoaded \/ Loaded
  \/ \E s \in Symbol : Bind(s) \/ Rebind(s)
  \/ \E l \in Extension : LoadExtension(l)

Register(g) == LoopRefused(g) \/ LoopReturns(g) \/ LoopAnswers(g)

Use(g) == Ask(g) \/ Answer(g) \/ Refuse(g) \/ Return(g) \/ \E s \in Symbol : Call(g, s)

Next == Load \/ \E g \in Goroutine : Use(g) \/ AskLoop(g) \/ Register(g)

Spec == Init /\ [][Next]_vars

\* The loader's goroutine is scheduled, and so is one that Do lets go and the
\* one inside defaultEventOnce.
FairSpec ==
  /\ Spec /\ WF_vars(Load)
  /\ \A g \in Goroutine :
       /\ WF_vars(Answer(g)) /\ WF_vars(Register(g))
       /\ WF_vars(registrar = g /\ Call(g, virEventRegisterDefaultImpl))

-------------------------------------------------------------------------------
(* Properties *)

\* The library that has symbol s, once everything is loaded.
Home(s) == IF LibraryOf[s] = Main THEN ready ELSE LibraryOf[s]

\* A call that passes requireSymbol uses a pointer into an open library that
\* exports the symbol, whatever is installed: no nil pointer, none into a
\* candidate that was closed again ("before touching a missing function pointer").
CallsAreBound ==
  \A g \in Goroutine : pc[g] = "call" =>
    /\ bound[calling[g]] = Home(calling[g])
    /\ Home(calling[g]) \in opened /\ calling[g] \in exports[Home(calling[g])]

\* HasSymbol is exact: after the two passes of bindLibvirtSymbols a symbol is
\* missing just when its library is not open or does not export it.
MissingIsExact ==
  outcome = "api" =>
    \A s \in Symbol : s \in missing <=> ~(Home(s) \in opened /\ s \in exports[Home(s)])

\* getNativeAPI gives everybody the one final outcome, however many goroutines
\* ask while the first still loads (apiOnce); and EventRegisterDefaultImpl, too,
\* "the result of the process-wide first registration" (events.go:165), which
\* is no success unless the library is loaded and has the loop.
OneOutcome ==
  /\ \A g \in Goroutine : pc[g] \in {"have", "call"} => outcome # "nil" /\ got[g] = outcome
  /\ \A g \in Goroutine : told[g] # "nil" => told[g] = loop
  /\ loop = "ok" => outcome = "api" /\ virEventRegisterDefaultImpl \notin missing

\* A candidate that fails half-way is closed again: the libraries left open
\* are the initialized one and its extensions, or none (loadNativeAPIFrom).
FailuresAreClosed ==
  at = "done" => opened \cap Paths = IF outcome = "api" THEN {ready} ELSE {}

\* An extension is opened only beside an initialized main library ("Older
\* libvirt releases can corrupt allocator state if extensions load first").
ExtensionsComeLast == opened \cap Extension # {} => ready \in opened

\* Every goroutine that asks for the API or for the event loop gets an answer:
\* the one gate inside the other never closes for good.
LoadingEnds ==
  \A g \in Goroutine :
    (pc[g] = "once" ~> pc[g] = "have") /\ (pc[g] = "loop" ~> pc[g] = "idle")

-------------------------------------------------------------------------------
(* The inductive invariant *)

\* A candidate is open; its virInitialize has succeeded.
Trying == at \in {"allocators", "bind", "init", "extend", "rebind"} \/ outcome = "api"
Initialized == at \in {"extend", "rebind"} \/ outcome = "api"

LibraryInv ==
  /\ at # "done" \/ outcome = "api" => index \in 1 .. Len(Candidate)
  /\ opened \cap Paths = IF Trying THEN {Path} ELSE {}
  /\ ready = IF Initialized THEN Path ELSE None
  /\ ~Initialized => opened \cap Extension = {}

\* s is marked as missing just when it is, and is bound otherwise.
MainExact(s) ==
  /\ s \notin missing <=> s \in exports[Path]
  /\ s \notin missing => bound[s] = Path

ExtensionExact(s) ==
  /\ s \notin missing <=> LibraryOf[s] \in opened /\ s \in exports[LibraryOf[s]]
  /\ s \notin missing => bound[s] = LibraryOf[s]

\* What the loops have done so far.
BindInv ==
  \A s \in Symbol :
    IF LibraryOf[s] = Main
    THEN (at = "bind" /\ s \notin todo) \/ at = "init" \/ Initialized => MainExact(s)
    ELSE (at = "rebind" /\ s \notin todo) \/ outcome = "api" => ExtensionExact(s)

OutcomeInv ==
  /\ outcome # "nil" <=> at = "done"
  /\ at = "new" => \A g \in Goroutine : pc[g] = "idle"
  /\ \A g \in Goroutine : pc[g] = "call" =>
       outcome = "api" /\ calling[g] \in Symbol \ missing

\* The one registration is under way, or it is over.
LoopInv ==
  /\ registrar # None =>
       /\ loop = "nil" /\ pc[registrar] \in {"once", "have", "call"}
       /\ pc[registrar] = "call" => calling[registrar] = virEventRegisterDefaultImpl
  /\ loop # "nil" => outcome # "nil"

IInv == TypeOK /\ LibraryInv /\ BindInv /\ OutcomeInv /\ LoopInv /\ OneOutcome
===============================================================================
