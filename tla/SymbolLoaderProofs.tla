-------------------------- MODULE SymbolLoaderProofs --------------------------
(***************************************************************************)
(* Proofs about SymbolLoader: whatever is installed, and however many      *)
(* goroutines ask, the table of missing symbols tells the truth.           *)
(***************************************************************************)
EXTENDS SymbolLoader, SequenceTheorems, TLAPS

\* The candidate being tried is one of the paths, and no path is an extension.
LEMMA PathIsAPath ==
  /\ Len(Candidate) \in Nat \ {0}
  /\ \A i \in 1 .. Len(Candidate) :
       /\ Candidate[i] \in Paths /\ Candidate[i] \in Library
       /\ Candidate[i] \notin Extension /\ Candidate[i] # None
BY CandidateAssumption, EmptySeq DEF Paths, Library

\* While the loader is at work the index is that of a candidate.
LEMMA TryingAPath ==
  IInv /\ at # "done" =>
    /\ index \in 1 .. Len(Candidate) /\ index \in Nat /\ index + 1 \in 1 .. Len(Candidate) + 1
    /\ index # Len(Candidate) => index + 1 \in 1 .. Len(Candidate)
    /\ Path \in Paths /\ Path \in Library /\ Path \notin Extension /\ Path # None
BY PathIsAPath DEF IInv, LibraryInv, Path

\* A machine's libraries, none of them open, satisfy the invariant.
LEMMA InitIInv == Init => IInv
BY PathIsAPath, SymbolAssumption, CandidateAssumption
   DEF Init, IInv, TypeOK, Stages, Unbound, LibraryInv, Trying, Initialized, BindInv,
       OutcomeInv, LoopInv, OneOutcome

\* Every step keeps the types.
LEMMA TypeStep == IInv /\ [Next]_vars => TypeOK'
<1> SUFFICES ASSUME IInv, [Next]_vars PROVE TypeOK'
  OBVIOUS
<1> USE PathIsAPath, TryingAPath, SymbolAssumption DEF IInv, TypeOK, Stages, api, callers, events,
        Path, Unbound, Library
<1>1. CASE Dlopen
  BY <1>1 DEF Dlopen
<1>2. CASE DlopenFails
  BY <1>2 DEF DlopenFails, NextCandidate
<1>3. CASE Allocators
  BY <1>3 DEF Allocators
<1>4. CASE AllocatorsFail
  BY <1>4 DEF AllocatorsFail, Abandon, NextCandidate
<1>5. ASSUME NEW s \in Symbol, Bind(s) PROVE TypeOK'
  BY <1>5 DEF Bind, Binding
<1>6. CASE Bound
  BY <1>6 DEF Bound
<1>7. CASE Initialize
  BY <1>7 DEF Initialize
<1>8. CASE InitializeFails
  BY <1>8 DEF InitializeFails, Abandon, NextCandidate
<1>9. ASSUME NEW l \in Extension, LoadExtension(l) PROVE TypeOK'
  BY <1>9 DEF LoadExtension
<1>10. CASE ExtensionsLoaded
  BY <1>10 DEF ExtensionsLoaded
<1>11. ASSUME NEW s \in Symbol, Rebind(s) PROVE TypeOK'
  BY <1>11 DEF Rebind, Binding
<1>12. CASE Loaded
  BY <1>12 DEF Loaded
<1>13. ASSUME NEW g \in Goroutine, Ask(g) PROVE TypeOK'
  BY <1>13 DEF Ask
<1>14. ASSUME NEW g \in Goroutine, Answer(g) PROVE TypeOK'
  BY <1>14 DEF Answer
<1>15. ASSUME NEW g \in Goroutine, Refuse(g) PROVE TypeOK'
  BY <1>15 DEF Refuse
<1>16. ASSUME NEW g \in Goroutine, NEW s \in Symbol, Call(g, s) PROVE TypeOK'
  BY <1>16 DEF Call
<1>17. ASSUME NEW g \in Goroutine, Return(g) PROVE TypeOK'
  BY <1>17 DEF Return
<1>18. ASSUME NEW g \in Goroutine, AskLoop(g) PROVE TypeOK'
  BY <1>18 DEF AskLoop
<1>19. ASSUME NEW g \in Goroutine, LoopRefused(g) PROVE TypeOK'
  BY <1>19 DEF LoopRefused, LoopSettles
<1>20. ASSUME NEW g \in Goroutine, LoopReturns(g) PROVE TypeOK'
  BY <1>20 DEF LoopReturns, LoopSettles
<1>21. ASSUME NEW g \in Goroutine, LoopAnswers(g) PROVE TypeOK'
  BY <1>21 DEF LoopAnswers
<1>22. CASE UNCHANGED vars
  BY <1>22 DEF vars
<1> QED BY <1>1, <1>2, <1>3, <1>4, <1>5, <1>6, <1>7, <1>8, <1>9,
           <1>10, <1>11, <1>12, <1>13, <1>14, <1>15, <1>16, <1>17, <1>18, <1>19,
           <1>20, <1>21, <1>22 DEF Next, Load, Use, Register

\* A candidate is opened alone, and closed again unless it is the one.
LEMMA LibraryStep == IInv /\ [Next]_vars => LibraryInv'
<1> SUFFICES ASSUME IInv, [Next]_vars PROVE LibraryInv'
  OBVIOUS
<1> USE PathIsAPath, CandidateAssumption DEF IInv, TypeOK, LibraryInv, OutcomeInv, Trying,
        Initialized, api, callers, events, Path
<1>1. CASE Dlopen
  BY <1>1 DEF Dlopen
<1>2. CASE DlopenFails
  BY <1>2 DEF DlopenFails, NextCandidate
<1>3. CASE Allocators
  BY <1>3 DEF Allocators
<1>4. CASE AllocatorsFail
  BY <1>4 DEF AllocatorsFail, Abandon, NextCandidate
<1>5. ASSUME NEW s \in Symbol, Bind(s) PROVE LibraryInv'
  BY <1>5 DEF Bind, Binding
<1>6. CASE Bound
  BY <1>6 DEF Bound
<1>7. CASE Initialize
  BY <1>7 DEF Initialize
<1>8. CASE InitializeFails
  BY <1>8 DEF InitializeFails, Abandon, NextCandidate
<1>9. ASSUME NEW l \in Extension, LoadExtension(l) PROVE LibraryInv'
  BY <1>9 DEF LoadExtension
<1>10. CASE ExtensionsLoaded
  BY <1>10 DEF ExtensionsLoaded
<1>11. ASSUME NEW s \in Symbol, Rebind(s) PROVE LibraryInv'
  BY <1>11 DEF Rebind, Binding
<1>12. CASE Loaded
  BY <1>12 DEF Loaded
<1>13. ASSUME NEW g \in Goroutine, Ask(g) PROVE LibraryInv'
  BY <1>13 DEF Ask
<1>14. ASSUME NEW g \in Goroutine, Answer(g) PROVE LibraryInv'
  BY <1>14 DEF Answer
<1>15. ASSUME NEW g \in Goroutine, Refuse(g) PROVE LibraryInv'
  BY <1>15 DEF Refuse
<1>16. ASSUME NEW g \in Goroutine, NEW s \in Symbol, Call(g, s) PROVE LibraryInv'
  BY <1>16 DEF Call
<1>17. ASSUME NEW g \in Goroutine, Return(g) PROVE LibraryInv'
  BY <1>17 DEF Return
<1>18. ASSUME NEW g \in Goroutine, AskLoop(g) PROVE LibraryInv'
  BY <1>18 DEF AskLoop
<1>19. ASSUME NEW g \in Goroutine, LoopRefused(g) PROVE LibraryInv'
  BY <1>19 DEF LoopRefused, LoopSettles
<1>20. ASSUME NEW g \in Goroutine, LoopReturns(g) PROVE LibraryInv'
  BY <1>20 DEF LoopReturns, LoopSettles
<1>21. ASSUME NEW g \in Goroutine, LoopAnswers(g) PROVE LibraryInv'
  BY <1>21 DEF LoopAnswers
<1>22. CASE UNCHANGED vars
  BY <1>22 DEF vars
<1> QED BY <1>1, <1>2, <1>3, <1>4, <1>5, <1>6, <1>7, <1>8, <1>9,
           <1>10, <1>11, <1>12, <1>13, <1>14, <1>15, <1>16, <1>17, <1>18, <1>19,
           <1>20, <1>21, <1>22 DEF Next, Load, Use, Register

\* Each turn of the two loops records what its library exports.
LEMMA BindStep == IInv /\ [Next]_vars => BindInv'
<1> SUFFICES ASSUME IInv, [Next]_vars PROVE BindInv'
  OBVIOUS
<1> USE PathIsAPath, SymbolAssumption DEF IInv, TypeOK, LibraryInv, OutcomeInv, BindInv,
        MainExact, ExtensionExact, Trying, Initialized, api, callers, events, Path
<1>1. CASE Dlopen
  BY <1>1 DEF Dlopen
<1>2. CASE DlopenFails
  BY <1>2 DEF DlopenFails, NextCandidate
<1>3. CASE Allocators
  BY <1>3 DEF Allocators
<1>4. CASE AllocatorsFail
  BY <1>4 DEF AllocatorsFail, Abandon, NextCandidate
<1>5. ASSUME NEW s \in Symbol, Bind(s) PROVE BindInv'
  BY <1>5 DEF Bind, Binding
<1>6. CASE Bound
  BY <1>6 DEF Bound
<1>7. CASE Initialize
  BY <1>7 DEF Initialize
<1>8. CASE InitializeFails
  BY <1>8 DEF InitializeFails, Abandon, NextCandidate
<1>9. ASSUME NEW l \in Extension, LoadExtension(l) PROVE BindInv'
  BY <1>9 DEF LoadExtension
<1>10. CASE ExtensionsLoaded
  BY <1>10 DEF ExtensionsLoaded
<1>11. ASSUME NEW s \in Symbol, Rebind(s) PROVE BindInv'
  BY <1>11 DEF Rebind, Binding
<1>12. CASE Loaded
  BY <1>12 DEF Loaded
<1>13. ASSUME NEW g \in Goroutine, Ask(g) PROVE BindInv'
  BY <1>13 DEF Ask
<1>14. ASSUME NEW g \in Goroutine, Answer(g) PROVE BindInv'
  BY <1>14 DEF Answer
<1>15. ASSUME NEW g \in Goroutine, Refuse(g) PROVE BindInv'
  BY <1>15 DEF Refuse
<1>16. ASSUME NEW g \in Goroutine, NEW s \in Symbol, Call(g, s) PROVE BindInv'
  BY <1>16 DEF Call
<1>17. ASSUME NEW g \in Goroutine, Return(g) PROVE BindInv'
  BY <1>17 DEF Return
<1>18. ASSUME NEW g \in Goroutine, AskLoop(g) PROVE BindInv'
  BY <1>18 DEF AskLoop
<1>19. ASSUME NEW g \in Goroutine, LoopRefused(g) PROVE BindInv'
  BY <1>19 DEF LoopRefused, LoopSettles
<1>20. ASSUME NEW g \in Goroutine, LoopReturns(g) PROVE BindInv'
  BY <1>20 DEF LoopReturns, LoopSettles
<1>21. ASSUME NEW g \in Goroutine, LoopAnswers(g) PROVE BindInv'
  BY <1>21 DEF LoopAnswers
<1>22. CASE UNCHANGED vars
  BY <1>22 DEF vars
<1> QED BY <1>1, <1>2, <1>3, <1>4, <1>5, <1>6, <1>7, <1>8, <1>9,
           <1>10, <1>11, <1>12, <1>13, <1>14, <1>15, <1>16, <1>17, <1>18, <1>19,
           <1>20, <1>21, <1>22 DEF Next, Load, Use, Register

\* The outcome is stored once, and only then does anybody see it.
LEMMA OutcomeStep == IInv /\ [Next]_vars => (OutcomeInv /\ OneOutcome)'
<1> SUFFICES ASSUME IInv, [Next]_vars PROVE (OutcomeInv /\ OneOutcome)'
  OBVIOUS
<1> USE SymbolAssumption DEF IInv, TypeOK, OutcomeInv, LoopInv, OneOutcome, api, callers, events
<1>1. CASE Dlopen
  BY <1>1 DEF Dlopen
<1>2. CASE DlopenFails
  BY <1>2 DEF DlopenFails, NextCandidate
<1>3. CASE Allocators
  BY <1>3 DEF Allocators
<1>4. CASE AllocatorsFail
  BY <1>4 DEF AllocatorsFail, Abandon, NextCandidate
<1>5. ASSUME NEW s \in Symbol, Bind(s) PROVE (OutcomeInv /\ OneOutcome)'
  BY <1>5 DEF Bind, Binding
<1>6. CASE Bound
  BY <1>6 DEF Bound
<1>7. CASE Initialize
  BY <1>7 DEF Initialize
<1>8. CASE InitializeFails
  BY <1>8 DEF InitializeFails, Abandon, NextCandidate
<1>9. ASSUME NEW l \in Extension, LoadExtension(l) PROVE (OutcomeInv /\ OneOutcome)'
  BY <1>9 DEF LoadExtension
<1>10. CASE ExtensionsLoaded
  BY <1>10 DEF ExtensionsLoaded
<1>11. ASSUME NEW s \in Symbol, Rebind(s) PROVE (OutcomeInv /\ OneOutcome)'
  BY <1>11 DEF Rebind, Binding
<1>12. CASE Loaded
  BY <1>12 DEF Loaded
<1>13. ASSUME NEW g \in Goroutine, Ask(g) PROVE (OutcomeInv /\ OneOutcome)'
  BY <1>13 DEF Ask
<1>14. ASSUME NEW g \in Goroutine, Answer(g) PROVE (OutcomeInv /\ OneOutcome)'
  BY <1>14 DEF Answer
<1>15. ASSUME NEW g \in Goroutine, Refuse(g) PROVE (OutcomeInv /\ OneOutcome)'
  BY <1>15 DEF Refuse
<1>16. ASSUME NEW g \in Goroutine, NEW s \in Symbol, Call(g, s) PROVE (OutcomeInv /\ OneOutcome)'
  BY <1>16 DEF Call
<1>17. ASSUME NEW g \in Goroutine, Return(g) PROVE (OutcomeInv /\ OneOutcome)'
  BY <1>17 DEF Return
<1>18. ASSUME NEW g \in Goroutine, AskLoop(g) PROVE (OutcomeInv /\ OneOutcome)'
  BY <1>18 DEF AskLoop
<1>19. ASSUME NEW g \in Goroutine, LoopRefused(g) PROVE (OutcomeInv /\ OneOutcome)'
  BY <1>19 DEF LoopRefused, LoopSettles
<1>20. ASSUME NEW g \in Goroutine, LoopReturns(g) PROVE (OutcomeInv /\ OneOutcome)'
  BY <1>20 DEF LoopReturns, LoopSettles
<1>21. ASSUME NEW g \in Goroutine, LoopAnswers(g) PROVE (OutcomeInv /\ OneOutcome)'
  BY <1>21 DEF LoopAnswers
<1>22. CASE UNCHANGED vars
  BY <1>22 DEF vars
<1> QED BY <1>1, <1>2, <1>3, <1>4, <1>5, <1>6, <1>7, <1>8, <1>9,
           <1>10, <1>11, <1>12, <1>13, <1>14, <1>15, <1>16, <1>17, <1>18, <1>19,
           <1>20, <1>21, <1>22 DEF Next, Load, Use, Register

\* One goroutine at a time is inside defaultEventOnce, until it is over.
LEMMA LoopStep == IInv /\ [Next]_vars => LoopInv'
<1> SUFFICES ASSUME IInv, [Next]_vars PROVE LoopInv'
  OBVIOUS
<1> USE SymbolAssumption DEF IInv, TypeOK, OutcomeInv, LoopInv, api, callers, events
<1>1. CASE Dlopen
  BY <1>1 DEF Dlopen
<1>2. CASE DlopenFails
  BY <1>2 DEF DlopenFails, NextCandidate
<1>3. CASE Allocators
  BY <1>3 DEF Allocators
<1>4. CASE AllocatorsFail
  BY <1>4 DEF AllocatorsFail, Abandon, NextCandidate
<1>5. ASSUME NEW s \in Symbol, Bind(s) PROVE LoopInv'
  BY <1>5 DEF Bind, Binding
<1>6. CASE Bound
  BY <1>6 DEF Bound
<1>7. CASE Initialize
  BY <1>7 DEF Initialize
<1>8. CASE InitializeFails
  BY <1>8 DEF InitializeFails, Abandon, NextCandidate
<1>9. ASSUME NEW l \in Extension, LoadExtension(l) PROVE LoopInv'
  BY <1>9 DEF LoadExtension
<1>10. CASE ExtensionsLoaded
  BY <1>10 DEF ExtensionsLoaded
<1>11. ASSUME NEW s \in Symbol, Rebind(s) PROVE LoopInv'
  BY <1>11 DEF Rebind, Binding
<1>12. CASE Loaded
  BY <1>12 DEF Loaded
<1>13. ASSUME NEW g \in Goroutine, Ask(g) PROVE LoopInv'
  BY <1>13 DEF Ask
<1>14. ASSUME NEW g \in Goroutine, Answer(g) PROVE LoopInv'
  BY <1>14 DEF Answer
<1>15. ASSUME NEW g \in Goroutine, Refuse(g) PROVE LoopInv'
  BY <1>15 DEF Refuse
<1>16. ASSUME NEW g \in Goroutine, NEW s \in Symbol, Call(g, s) PROVE LoopInv'
  BY <1>16 DEF Call
<1>17. ASSUME NEW g \in Goroutine, Return(g) PROVE LoopInv'
  BY <1>17 DEF Return
<1>18. ASSUME NEW g \in Goroutine, AskLoop(g) PROVE LoopInv'
  BY <1>18 DEF AskLoop
<1>19. ASSUME NEW g \in Goroutine, LoopRefused(g) PROVE LoopInv'
  BY <1>19 DEF LoopRefused, LoopSettles, OneOutcome
<1>20. ASSUME NEW g \in Goroutine, LoopReturns(g) PROVE LoopInv'
  BY <1>20 DEF LoopReturns, LoopSettles
<1>21. ASSUME NEW g \in Goroutine, LoopAnswers(g) PROVE LoopInv'
  BY <1>21 DEF LoopAnswers
<1>22. CASE UNCHANGED vars
  BY <1>22 DEF vars
<1> QED BY <1>1, <1>2, <1>3, <1>4, <1>5, <1>6, <1>7, <1>8, <1>9,
           <1>10, <1>11, <1>12, <1>13, <1>14, <1>15, <1>16, <1>17, <1>18, <1>19,
           <1>20, <1>21, <1>22 DEF Next, Load, Use, Register

\* The inductive invariant holds in every reachable state.
THEOREM Invariance == Spec => []IInv
<1>1. IInv /\ [Next]_vars => IInv'
  BY TypeStep, LibraryStep, BindStep, OutcomeStep, LoopStep DEF IInv
<1> QED BY InitIInv, <1>1, PTL DEF Spec

\* A call that passes requireSymbol has a pointer into an open library that
\* exports the symbol: none is nil and none leads into a library that
\* loadNativeAPIFrom has closed again.
THEOREM NoUnboundCalls == Spec => []CallsAreBound
<1>1. IInv => CallsAreBound
  BY PathIsAPath, SymbolAssumption
     DEF IInv, TypeOK, OutcomeInv, BindInv, MainExact, ExtensionExact, LibraryInv, Trying,
         Initialized, CallsAreBound, Home
<1> QED BY Invariance, <1>1, PTL

\* HasSymbol answers what the open libraries export.
THEOREM ExactSymbols == Spec => []MissingIsExact
<1>1. IInv => MissingIsExact
  BY PathIsAPath, SymbolAssumption
     DEF IInv, TypeOK, OutcomeInv, BindInv, MainExact, ExtensionExact, LibraryInv, Trying,
         Initialized, MissingIsExact, Home
<1> QED BY Invariance, <1>1, PTL

\* getNativeAPI and EventRegisterDefaultImpl have one outcome each for all.
THEOREM SameOutcome == Spec => []OneOutcome
BY Invariance, PTL DEF IInv

\* Candidates that fail are closed again.
THEOREM ClosedFailures == Spec => []FailuresAreClosed
<1>1. IInv => FailuresAreClosed
  BY DEF IInv, TypeOK, OutcomeInv, LibraryInv, Trying, Initialized, FailuresAreClosed
<1> QED BY Invariance, <1>1, PTL

\* No extension is open before the main library is initialized.
THEOREM LateExtensions == Spec => []ExtensionsComeLast
<1>1. IInv => ExtensionsComeLast
  BY DEF IInv, TypeOK, OutcomeInv, LibraryInv, Trying, Initialized, ExtensionsComeLast
<1> QED BY Invariance, <1>1, PTL
===============================================================================
