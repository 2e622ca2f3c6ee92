-------------------------------- MODULE AbiTypes --------------------------------
(***************************************************************************)
(* The types of the generated binding (internal/generator): a C function   *)
(* becomes a Go function pointer that is called with the C convention, and *)
(* a C structure a Go structure over the same memory, so every type must   *)
(* take the place its C type takes.  A C type is its base, qualifiers left *)
(* out, and how many stars follow; an array of characters has its length   *)
(* there, and a union the bases of its members.                            *)
(***************************************************************************)
EXTENDS Integers, Sequences, FiniteSetsExt

CONSTANTS Words,       \* the sizes of a pointer, in bytes: 4 and 8
          MaxArgs,     \* bound: arguments of a function
          MaxFields    \* bound: fields of a structure

VARIABLES
  word,    \* the size of a pointer here
  kind,    \* "function" or "struct"
  parts,   \* the C types of its arguments and its return, or of its fields
  mapped,  \* the Go types so far
  pc       \* "map", "done" or "error"

vars == <<word, kind, parts, mapped, pc>>

Scalars ==
  {"char", "unsigned_char", "int", "unsigned_int", "long", "unsigned_long", "long_long",
   "unsigned_long_long", "size_t", "double"}
CTypes ==
  [base : Scalars \cup {"void", "Ptr", "Callback", "enum"}, stars : 0 .. 2, members : {{}}]
MemberSets == {{"int", "char", "double"}, {"int", "unsigned_long_long", "double"}, {"int", "size_t"}}
FieldTypes ==
  [base : {"char", "int", "long", "unsigned_long_long", "double", "Ptr", "enum"}, stars : {0},
   members : {{}}]
    \cup [base : {"char"}, stars : {1}, members : {{}}]
    \cup [base : {"array"}, stars : {3, 5}, members : {{}}]
    \cup [base : {"union"}, stars : {0}, members : MemberSets]

Init ==
  /\ word \in Words /\ mapped = << >> /\ pc = "map"
  /\ \/ kind = "function" /\ parts \in UNION {[1 .. n + 1 -> CTypes] : n \in 0 .. MaxArgs}
     \/ kind = "struct" /\ parts \in UNION {[1 .. n -> FieldTypes] : n \in 0 .. MaxFields}

Unsupported == "unsupported"

\* Mutant: a long has 64 bits everywhere.
Int64Long(base) == IF base = "long" THEN "int64" ELSE "uintptr"
\* The Go type of a number, and of what a pointer to it points at.
LongOf(base) == IF base = "long" THEN "int" ELSE "uintptr"
NumberType(base) ==
  CASE base = "int" -> "int32"
    [] base = "unsigned_int" -> "uint32"
    [] base \in {"long", "unsigned_long", "size_t"} -> LongOf(base)
    [] base = "long_long" -> "int64"
    [] base = "unsigned_long_long" -> "uint64"
    [] base = "double" -> "float64"
    [] base = "char" -> "int8"
    [] base = "unsigned_char" -> "uint8"
    [] OTHER -> Unsupported

Plain(name) == [name |-> name, to |-> "none"]
PointerTo(name) == [name |-> "pointer", to |-> name]

goABIType(t, result) ==
  CASE t.base = "Callback" ->
         IF t.stars = 0 THEN Plain("uintptr") ELSE PointerTo("uintptr")
    [] t.base = "Ptr" ->
         IF t.stars = 0 \/ result THEN Plain("unsafe.Pointer") ELSE PointerTo("unsafe.Pointer")
    [] t.base \notin {"Callback", "Ptr"} /\ t.stars > 1 ->
         IF result THEN Plain("unsafe.Pointer") ELSE PointerTo("unsafe.Pointer")
    [] t.base \in {"char", "unsigned_char"} /\ t.stars = 1 ->
         IF result THEN Plain("unsafe.Pointer") ELSE PointerTo("byte")
    [] t.base = "void" /\ t.stars = 1 -> Plain("unsafe.Pointer")
    [] t.base \in Scalars \ {"char", "unsigned_char"} /\ t.stars = 1 -> PointerTo(NumberType(t.base))
    [] t.base \in Scalars /\ t.stars = 0 -> Plain(NumberType(t.base))
    [] t.base = "void" /\ t.stars = 0 /\ result -> Plain("none")
    [] OTHER -> Plain(Unsupported)

Scalar64 == {"unsigned_long_long"}
UnionMembers == Scalar64 \cup {"int", "unsigned_int", "long_long", "double", "char"}

UnionHolds(t) == t.members \subseteq UnionMembers /\ t.members \cap Scalar64 # {}

layoutField(t) ==
  CASE t.base = "union" -> Plain(IF UnionHolds(t) THEN "uint64" ELSE Unsupported)
    [] t.base = "array" -> [name |-> "bytes", to |-> t.stars]
    [] t.base = "enum" -> Plain("int32")
    [] OTHER -> goABIType(t, TRUE)

Mapped(t) ==
  IF kind = "struct" THEN layoutField(t) ELSE goABIType(t, Len(mapped) = Len(parts) - 1)

goFunctionSignature ==
  /\ pc = "map" /\ kind = "function" /\ Len(mapped) < Len(parts)
  /\ LET go == Mapped(parts[Len(mapped) + 1]) IN
     IF go.name = Unsupported THEN pc' = "error" /\ UNCHANGED mapped
     ELSE mapped' = Append(mapped, go) /\ UNCHANGED pc
  /\ UNCHANGED <<word, kind, parts>>

nativeLayouts ==
  /\ pc = "map" /\ kind = "struct" /\ Len(mapped) < Len(parts)
  /\ LET go == Mapped(parts[Len(mapped) + 1]) IN
     IF go.name = Unsupported THEN pc' = "error" /\ UNCHANGED mapped
     ELSE mapped' = Append(mapped, go) /\ UNCHANGED pc
  /\ UNCHANGED <<word, kind, parts>>

\* A structure without a public field is refused.
Finish ==
  /\ pc = "map" /\ Len(mapped) = Len(parts)
  /\ pc' = IF parts = << >> THEN "error" ELSE "done"
  /\ UNCHANGED <<word, kind, parts, mapped>>

Next == goFunctionSignature \/ nativeLayouts \/ Finish

Spec == Init /\ [][Next]_vars

--------------------------------------------------------------------------------
(* The places C and Go give these types.                                    *)

CScalarWidth(base) ==
  CASE base \in {"char", "unsigned_char"} -> 1
    [] base \in {"int", "unsigned_int", "enum"} -> 4
    [] base \in {"long", "unsigned_long", "size_t", "Ptr", "Callback"} -> word
    [] base \in {"long_long", "unsigned_long_long", "double"} -> 8
    [] base = "void" -> 0
CWidth(t) ==
  CASE t.base = "array" -> t.stars
    [] t.base = "union" -> Max({CScalarWidth(b) : b \in t.members})
    [] OTHER -> IF t.stars > 0 THEN word ELSE CScalarWidth(t.base)

GoScalarWidth(name) ==
  CASE name \in {"int8", "uint8", "byte"} -> 1
    [] name \in {"int32", "uint32"} -> 4
    [] name \in {"int", "uintptr", "unsafe.Pointer", "pointer"} -> word
    [] name \in {"int64", "uint64", "float64"} -> 8
    [] name = "none" -> 0
GoWidth(g) == IF g.name = "bytes" THEN g.to ELSE GoScalarWidth(g.name)

Least(a, b) == IF a < b THEN a ELSE b
CAlign(t) == IF t.base = "array" THEN 1 ELSE Least(CWidth(t), word)
GoAlign(g) == IF g.name = "bytes" THEN 1 ELSE Least(GoWidth(g), word)

RoundUp(n, align) == ((n + align - 1) \div align) * align
\* Where a structure's fields start, given their widths and alignments, and
\* its size as the last.
Offsets(widths, aligns) ==
  LET n == Len(widths)
      end[i \in 0 .. n] == IF i = 0 THEN 0 ELSE RoundUp(end[i - 1], aligns[i]) + widths[i]
  IN [i \in 1 .. n + 1 |->
        IF i <= n THEN RoundUp(end[i - 1], aligns[i])
        ELSE RoundUp(end[n], Max({aligns[j] : j \in 1 .. n}))]

FloatC(t) == t.base = "double" /\ t.stars = 0
SignedC(t) == t.stars = 0 /\ t.base \in {"int", "long", "long_long"}

\* Each argument and the result travel in the registers, and in the part of
\* them, that C uses, with their sign, on machines of 32 and of 64 bits; and
\* what libvirt writes through a pointer has the size of what is there in Go.
CallsAgree ==
  pc = "done" /\ kind = "function" =>
    \A i \in DOMAIN parts :
      LET t == parts[i]  g == mapped[i] IN
      /\ GoWidth(g) = CWidth(t)
      /\ FloatC(t) <=> g.name = "float64"
      /\ SignedC(t) => g.name \in {"int32", "int64", "int"}
      /\ g.name = "pointer" => GoScalarWidth(g.to) = CWidth([t EXCEPT !.stars = @ - 1])

\* A structure libvirt fills is read where libvirt wrote: every field starts at
\* the same place, and the elements of an array of them do too.
LayoutsAgree ==
  pc = "done" /\ kind = "struct" =>
    Offsets([i \in DOMAIN parts |-> GoWidth(mapped[i])], [i \in DOMAIN parts |-> GoAlign(mapped[i])])
      = Offsets([i \in DOMAIN parts |-> CWidth(parts[i])], [i \in DOMAIN parts |-> CAlign(parts[i])])
================================================================================
