------------------------------ MODULE ApiGenerator ------------------------------
(***************************************************************************)
(* cmd/libvirt-api-gen: it finds libvirt-api.xml, reads it and the         *)
(* documents of the three extension libraries beside it, selects functions *)
(* (all of them, or those the package's own Go files mention), and writes  *)
(* the binding, which lies in the same package directory as those files.   *)
(*                                                                         *)
(* Names are numbers, in the order sort.Strings gives them.  Documents and *)
(* Go files change between two runs, and a write may break off.            *)
(***************************************************************************)
EXTENDS Naturals, Sequences, FiniteSets, SequencesExt

CONSTANTS Directory,    \* directories that may hold the four documents
          Candidates,   \* those resolveAPIPath looks in, in that order
          Libraries,    \* main and the extensions, in the order they are read
          DocumentSets, \* what may be in a directory: library -> document
          Packages,     \* what may be in the package's Go files
          Unsupported,  \* functions with a type the generator cannot map
          Invalid,      \* enums with a value it does not accept
          Private,      \* macros with parameters or a leading underscore
          AliasOf,      \* enum -> the friendly type it belongs to, or None
          MaxRuns,      \* bound: runs of the generator
          Broken,       \* a file that does not parse
          None

Configs == [requested : Directory \cup {"auto"}, mode : {"all", "used", "other"}]

AliasTypes == {AliasOf[e] : e \in DOMAIN AliasOf} \ {None}

apiMacro == [name : Nat, value : Nat \cup {Broken}]
apiDocument ==
  [functions : Seq(Nat), enums : Seq(Nat),
   macros : Seq(apiMacro)]

ASSUME GeneratorAssumption ==
  /\ Candidates \in Seq(Directory) /\ Libraries \in Seq(Range(Libraries)) /\ Libraries # << >>
  /\ DocumentSets \subseteq [Range(Libraries) -> apiDocument \cup {None, Broken}]
  /\ \A p \in Packages :
       /\ IsFiniteSet(p)
       /\ \A f \in p : f.calls = Broken \/ (f.calls \subseteq Nat /\ IsFiniteSet(f.calls))
  /\ None \notin Configs

VARIABLES
  docs,     \* directory -> its documents, None when it has none
  env,      \* LIBVIRT_API_XML: a directory or None
  package,  \* the Go files: [test, calls], calls Broken when one does not parse
  output,   \* the generated file: None, Broken or what renderGenerated made
  config,   \* the options of the run
  pc,       \* the stage of run()
  path,     \* the directory resolveAPIPath answered
  library,  \* the index of the document to read next
  combined, \* what the documents read so far hold
  symbols,  \* what selectNativeSymbols answered
  outcome,  \* how the last run ended
  settled,  \* the config of the last success, None once anything changed
  runs

files == <<docs, env, package>>
work == <<path, library, combined, symbols>>
vars == <<files, output, config, pc, work, outcome, settled, runs>>

Empty == [functions |-> << >>, enums |-> << >>, macros |-> << >>]

Init ==
  /\ docs \in [Directory -> DocumentSets \cup {None}]
  /\ env \in Directory \cup {None} /\ package \in Packages
  /\ output \in {None, Broken}
  /\ config = [requested |-> "auto", mode |-> "all"] /\ pc = "idle"
  /\ path = None /\ library = 1 /\ combined = Empty /\ symbols = << >>
  /\ outcome = "none" /\ settled = None /\ runs = 0

--------------------------------------------------------------------------------
(* Between two runs.                                                        *)

\* Before the first success an edit is a choice of Init.
Edit ==
  /\ pc = "idle" /\ settled' = None /\ settled # None
  /\ \/ \E d \in Directory, s \in DocumentSets : docs' = [docs EXCEPT ![d] = s] /\ UNCHANGED package
     \/ package' \in Packages /\ UNCHANGED docs
  /\ UNCHANGED <<env, output, config, pc, work, outcome, runs>>

Run ==
  /\ pc = "idle" /\ runs < MaxRuns /\ runs' = runs + 1
  /\ config' \in Configs /\ pc' = "resolve" /\ outcome' = "none"
  /\ path' = None /\ library' = 1 /\ combined' = Empty /\ symbols' = << >>
  /\ UNCHANGED <<files, output, settled>>

Error == pc' = "idle" /\ outcome' = "error"

--------------------------------------------------------------------------------
(* The run.                                                                 *)

Present(d) == docs[d] # None /\ docs[d][Libraries[1]] # None
existingPath(d) == IF Present(d) THEN d ELSE None

resolveAPIPath(requested) ==
  LET found == SelectInSeq(Candidates, Present)
  IN IF requested # "auto" THEN existingPath(requested)
     ELSE IF env # None THEN existingPath(env)
     ELSE IF found = 0 THEN None ELSE Candidates[found]

Resolve ==
  /\ pc = "resolve" /\ path' = resolveAPIPath(config.requested)
  /\ IF path' = None THEN Error ELSE pc' = "load" /\ UNCHANGED outcome
  /\ UNCHANGED <<files, output, config, library, combined, symbols, settled, runs>>

\* A function or an enum may be in one document only, and there once.
TwiceIn(names, earlier) ==
  \/ \E i, j \in DOMAIN names : i # j /\ names[i] = names[j]
  \/ Range(names) \cap earlier # {}
Functions == {f.name : f \in Range(combined.functions)}
Acceptable(d) ==
  /\ d # None /\ d # Broken /\ d.functions # << >>
  /\ ~ TwiceIn(d.functions, Functions) /\ ~ TwiceIn(d.enums, Range(combined.enums))

loadAPIDocument ==
  /\ pc = "load" /\ library <= Len(Libraries)
  /\ LET l == Libraries[library]
         d == docs[path][l]
     IN IF Acceptable(d)
        THEN /\ combined' =
                  [functions |-> combined.functions
                     \o [i \in DOMAIN d.functions |-> [name |-> d.functions[i], library |-> l]],
                   enums |-> combined.enums \o d.enums,
                   macros |-> combined.macros \o d.macros]
             /\ library' = library + 1 /\ UNCHANGED <<pc, outcome>>
        ELSE Error /\ UNCHANGED <<combined, library>>
  /\ UNCHANGED <<files, output, config, path, symbols, settled, runs>>

\* sort.Strings: the n-th name has fewer than n below it, and n up to itself.
Lower(f, x) == {i \in DOMAIN f : f[i] < x}
NotHigher(f, x) == {i \in DOMAIN f : f[i] <= x}
Nth(f, n) ==
  CHOOSE x \in Range(f) : Cardinality(Lower(f, x)) < n /\ n <= Cardinality(NotHigher(f, x))
Ascending(s) == [n \in DOMAIN s |-> Nth(s, n)]

\* The Go files whose selectors count: no tests, and not the output itself.
Mentioned(inputs) ==
  IF \E f \in inputs : ~ f.test /\ f.calls = Broken THEN Broken
  ELSE UNION {f.calls : f \in {g \in inputs : ~ g.test}}
\* The output as a Go file: each method of RawAPI mentions its function.
OutputFile ==
  IF output = None THEN {}
  ELSE {[test |-> FALSE,
         calls |-> IF output = Broken THEN Broken ELSE {f.name : f \in Range(output.functions)}]}
\* Mutant: the generated file is read like the others.
discoverEverything == Mentioned(package \cup OutputFile)
discoverNativeSymbols == Mentioned(package)

\* Mutant: the symbols come as the map gives them.
AsTheMapGives(s) == s
Ordered(s) == Ascending(s)

selectNativeSymbols ==
  /\ pc = "load" /\ library > Len(Libraries)
  /\ \/ config.mode = "all"
        /\ symbols' = Ascending([i \in DOMAIN combined.functions |-> combined.functions[i].name])
        /\ pc' = "render" /\ UNCHANGED outcome
     \/ /\ config.mode = "used" /\ discoverNativeSymbols \notin {Broken, {}}
        /\ \E s \in SetToSeqs(discoverNativeSymbols) : symbols' = Ordered(s)
        /\ pc' = "render" /\ UNCHANGED outcome
     \/ /\ config.mode = "used" /\ discoverNativeSymbols \in {Broken, {}}
        /\ Error /\ UNCHANGED symbols
     \/ config.mode = "other" /\ Error /\ UNCHANGED symbols
  /\ UNCHANGED <<files, output, config, path, library, combined, settled, runs>>

\* functions[function.Name] = function: the last one of a name.
FunctionNamed(n) ==
  LET i == SelectLastInSeq(combined.functions, LAMBDA f : f.name = n) IN combined.functions[i]

\* Object-like macros; the same one twice counts once.
Macros == {m \in Range(combined.macros) : m.name \notin Private}
Conflicting(macros) == \E m, n \in macros : m.name = n.name /\ m.value # n.value
InNameOrder(macros) ==
  [n \in 1 .. Cardinality(macros) |->
     CHOOSE m \in macros : m.name = Nth([k \in macros |-> k.name], n)]
constantMacros == InNameOrder(Macros)

\* The code orders a group by value, which the model leaves out.
OfType(names, type) == SelectSeq(names, LAMBDA e : AliasOf[e] = type)
Group(type) == OfType(Ascending(combined.enums), type)

Renderable ==
  /\ Range(symbols) \subseteq Functions /\ Range(symbols) \cap Unsupported = {}
  /\ \A m \in Macros : m.value # Broken
  /\ ~ Conflicting(Macros)
  /\ Range(combined.enums) \cap Invalid = {}
  /\ \A t \in AliasTypes : Group(t) # << >>

\* The hash stands for the documents it is taken of.
renderGenerated ==
  [hash |-> docs[path],
   functions |-> [i \in DOMAIN symbols |-> FunctionNamed(symbols[i])],
   enums |-> Ascending(combined.enums),
   macros |-> constantMacros,
   aliases |-> [t \in AliasTypes |-> Group(t)]]

\* Mutant: the file is opened for writing before everything is known to be right.
RenderIntoOutput ==
  /\ pc = "render"
  /\ IF Renderable
     THEN /\ output' = renderGenerated /\ pc' = "idle" /\ settled' = config
          /\ outcome' = IF output = renderGenerated THEN "up to date" ELSE "written"
     ELSE Error /\ output' = Broken /\ UNCHANGED settled
  /\ UNCHANGED <<files, config, work, runs>>

\* os.ReadFile, bytes.Equal, os.WriteFile: the write truncates the file and may
\* fail on the way.
Render ==
  /\ pc = "render"
  /\ \/ ~ Renderable /\ Error /\ UNCHANGED <<output, settled>>
     \/ /\ Renderable /\ output = renderGenerated
        /\ pc' = "idle" /\ outcome' = "up to date" /\ settled' = config /\ UNCHANGED output
     \/ /\ Renderable /\ output # renderGenerated /\ output' = renderGenerated
        /\ pc' = "idle" /\ outcome' = "written" /\ settled' = config
     \/ /\ Renderable /\ output # renderGenerated /\ output' = Broken
        /\ pc' = "idle" /\ outcome' = "write failed" /\ settled' = None
  /\ UNCHANGED <<files, config, work, runs>>

Next ==
  \/ Edit \/ Run \/ Resolve \/ loadAPIDocument \/ selectNativeSymbols \/ Render

Spec == Init /\ [][Next]_vars

--------------------------------------------------------------------------------
(* What it promises.                                                        *)

Wanted(c, d) ==
  IF c.mode = "used" THEN UNION {f.calls : f \in {g \in package : ~ g.test}}
  ELSE UNION {Range(d[l].functions) : l \in DOMAIN d}
\* The documents a config means: the path asked for, or else the one the
\* environment names, or else the first there is.
Meant(c) ==
  IF c.requested # "auto" THEN c.requested
  ELSE IF env # None THEN env
  ELSE CHOOSE d \in Directory :
         \E i \in DOMAIN Candidates :
           Candidates[i] = d /\ Present(d) /\ \A j \in 1 .. i - 1 : ~ Present(Candidates[j])

\* Nothing is declared twice, or the package would not compile.
EachNameOnce ==
  /\ \A i, j \in DOMAIN output.functions : i # j => output.functions[i].name # output.functions[j].name
  /\ \A i, j \in DOMAIN output.enums : i # j => output.enums[i] # output.enums[j]
  /\ \A i, j \in DOMAIN output.macros : i # j => output.macros[i].name # output.macros[j].name

\* The binding is made of the documents and of the package's own files, and of
\* nothing else: not of the binding an earlier run left there, which lies among
\* those files, nor of what a broken write left of it.  Every function is
\* bound in the library whose document has it, and every name once.
OutputFollowsItsSources ==
  settled # None =>
    LET d == docs[Meant(settled)] IN
    /\ Range(output.functions) =
         {f \in [name : Wanted(settled, d), library : DOMAIN d] : f.name \in Range(d[f.library].functions)}
    /\ {f.name : f \in Range(output.functions)} = Wanted(settled, d)
    /\ Range(output.enums) = UNION {Range(d[l].enums) : l \in DOMAIN d}
    /\ Range(output.macros) =
         {m \in UNION {Range(d[l].macros) : l \in DOMAIN d} : m.name \notin Private}
    /\ output.hash = d
    /\ EachNameOnce

\* A run that reports an error before it writes leaves the binding as it was.
ErrorsChangeNothing == [][outcome' = "error" => output' = output]_vars

\* Running it again, nothing having changed, finds the file up to date: the
\* order in which a Go map is walked does not show.
RepeatIsQuiet ==
  [][pc # "idle" /\ pc' = "idle" /\ config = settled => outcome' = "up to date"]_vars
================================================================================
