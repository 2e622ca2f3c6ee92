---------------------------- MODULE MCApiGenerator ----------------------------
(* Documents of a main library and one extension, right and wrong ones.      *)
EXTENDS ApiGenerator

Document(functions, enums, macros) == [functions |-> functions, enums |-> enums, macros |-> macros]
Macro(name, value) == [name |-> name, value |-> value]
Pair(main, qemu) == ("main" :> main) @@ ("qemu" :> qemu)

MCLibraries == <<"main", "qemu">>
MCDirectory == {"package", "system"}
MCCandidates == <<"package", "system">>
MCAliasOf == (1 :> "state") @@ (2 :> None) @@ (3 :> None) @@ (7 :> None)

Good == Document(<<2, 1>>, <<2, 1>>, <<Macro(2, 1), Macro(1, 1), Macro(9, 1)>>)
MCDocumentSets ==
  {Pair(Good, Document(<<3>>, <<3>>, <<Macro(1, 1), Macro(9, 2)>>)),
   Pair(Document(<<1>>, <<1>>, << >>), Document(<<3, 2>>, << >>, << >>)),
   Pair(Good, Document(<<1, 3>>, << >>, << >>)),             \* a function twice
   Pair(Good, Document(<<3>>, <<2>>, << >>)),                \* an enum twice
   Pair(Good, Document(<<3>>, << >>, <<Macro(1, 2)>>)),      \* a macro with two values
   Pair(Document(<<2, 1>>, <<2>>, << >>), Document(<<3>>, << >>, << >>)), \* no alias
   Pair(Good, Document(<<4>>, << >>, << >>)),                \* a type it cannot map
   Pair(Good, Document(<<3>>, <<7>>, << >>)),                \* an enum it does not accept
   Pair(Good, Document(<<3>>, << >>, <<Macro(3, Broken)>>)), \* a macro that is no constant
   Pair(Good, None), Pair(Broken, Good), Pair(None, Good)}

File(test, calls) == [test |-> test, calls |-> calls]
MCPackages ==
  {{File(FALSE, {1, 2}), File(TRUE, {3})}, {File(FALSE, {3})}, {File(FALSE, {5})},
   {File(FALSE, {1}), File(FALSE, Broken)}, {File(TRUE, {1})}}
===============================================================================
