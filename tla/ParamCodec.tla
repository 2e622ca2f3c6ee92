------------------------------- MODULE ParamCodec -------------------------------
(***************************************************************************)
(* What becomes of one parameter on its way from a Go program to libvirt   *)
(* and back: normalizeTypedParameter, the marshaller and                   *)
(* decodeTypedParameter of typed_params.go.  The widths are parameters: an *)
(* int32 runs from -Half32 to Half32 - 1, a uint32 to 2 * Half32 - 1, and  *)
(* likewise for 64 bits, which are also those of int and uint.  A field    *)
(* is its length and the place of the first NUL in it; a text is 0 when it *)
(* has no NUL and 1 when it has one.  Version numbers (version.go) are the *)
(* other codec here.                                                       *)
(***************************************************************************)
EXTENDS Integers

CONSTANTS Half32, Half64,
          FieldLength    \* VIR_TYPED_PARAM_FIELD_LENGTH: 80

ASSUME WidthAssumption ==
  Half32 \in Nat \ {0} /\ Half64 \in Nat /\ Half32 <= Half64
ASSUME FieldAssumption == FieldLength \in Nat \ {0}

VARIABLES
  input,   \* the parameter of the program
  stage,   \* how far it is
  wire,    \* the element of the array libvirt sees
  output   \* the parameter a program gets back

vars == <<input, stage, wire, output>>

Signed(half) == -half .. half - 1
Unsigned(half) == 0 .. 2 * half - 1

\* The values of each dynamic type a program can put in TypedParameter.Value.
GoValues ==
  [int     |-> Signed(Half64),   int32  |-> Signed(Half32),
   uint    |-> Unsigned(Half64), uint32 |-> Unsigned(Half32),
   int64   |-> Signed(Half64),   uint64 |-> Unsigned(Half64),
   float64 |-> {0, 1}, bool |-> {0, 1}, string |-> {0, 1}, other |-> {0}]

\* The dynamic types each TypedParameterType takes, and the one it keeps.
Takes ==
  [INT |-> {"int", "int32"}, UINT |-> {"uint", "uint32"}, LLONG |-> {"int64"},
   ULLONG |-> {"uint64"}, DOUBLE |-> {"float64"}, BOOLEAN |-> {"bool"},
   STRING |-> {"string"}]
Keeps ==
  [INT |-> "int32", UINT |-> "uint32", LLONG |-> "int64", ULLONG |-> "uint64",
   DOUBLE |-> "float64", BOOLEAN |-> "bool", STRING |-> "string"]

Types == DOMAIN Takes
Values == UNION {[go : {g}, v : GoValues[g]] : g \in DOMAIN GoValues}
Fields == {f \in [len : 0 .. FieldLength + 1, nul : 0 .. FieldLength + 1] : f.nul <= f.len}
Parameters == [field : Fields, type : Types \cup {"none", "bad"}, value : Values]

Init ==
  /\ input \in Parameters
  /\ stage = "given" /\ wire = << >> /\ output = << >>

\* A type left zero is that of the value, when there is one for it.
Resolved(p) ==
  IF p.type = "none" /\ \E t \in Types : p.value.go \in Takes[t]
  THEN CHOOSE t \in Types : p.value.go \in Takes[t]
  ELSE p.type

FieldUpTo(f) == f.len > 0 /\ f.len <= FieldLength /\ f.nul = 0
FieldIsValid(f) == f.len > 0 /\ f.len < FieldLength /\ f.nul = 0

FitsWord(t, v) == t \in {"INT", "UINT"} => v \in -Half32 .. 2 * Half32 - 1
Fits(t, v) ==
  CASE t = "INT" -> v \in Signed(Half32)
    [] t = "UINT" -> v \in Unsigned(Half32)
    [] t = "STRING" -> v = 0
    [] OTHER -> TRUE

Accepts(p) ==
  /\ FieldIsValid(p.field)
  /\ Resolved(p) \in Types
  /\ p.value.go \in Takes[Resolved(p)]
  /\ Fits(Resolved(p), p.value.v)

normalizeTypedParameter ==
  /\ stage = "given"
  /\ \/ /\ Accepts(input) /\ stage' = "normal"
        /\ output' = [field |-> input.field, type |-> Resolved(input),
                      value |-> [go |-> Keeps[Resolved(input)], v |-> input.value.v]]
     \/ ~ Accepts(input) /\ stage' = "refused" /\ UNCHANGED output
  /\ UNCHANGED <<input, wire>>

\* The union holds the bits of the value in the width of its type.
HalfOf(t) == IF t \in {"INT", "UINT"} THEN Half32 ELSE Half64
Bits(t, v) == IF v < 0 THEN v + 2 * HalfOf(t) ELSE v
Read(t, bits) == IF t \in {"INT", "LLONG"} /\ bits >= HalfOf(t) THEN bits - 2 * HalfOf(t) ELSE bits

\* The name is copied into the zeroed array as far as there is room; a string
\* goes up to its first NUL, which is where its reader stops.
encodeTypedParameters ==
  /\ stage = "normal" /\ stage' = "encoded"
  /\ LET p == output IN
     wire' = [len  |-> IF p.field.len <= FieldLength THEN p.field.len ELSE FieldLength,
              nul  |-> p.field.nul, type |-> p.type,
              bits |-> IF p.type = "STRING" THEN 0 ELSE Bits(p.type, p.value.v)]
  /\ UNCHANGED <<input, output>>

decodeTypedParameter ==
  /\ stage = "encoded" /\ stage' = "decoded"
  /\ output' = [field |-> [len |-> IF wire.nul > 0 THEN wire.nul - 1 ELSE wire.len, nul |-> 0],
                type  |-> wire.type,
                value |-> [go |-> Keeps[wire.type], v |-> Read(wire.type, wire.bits)]]
  /\ UNCHANGED <<input, wire>>

Next == normalizeTypedParameter \/ encodeTypedParameters \/ decodeTypedParameter

Spec == Init /\ [][Next]_vars

--------------------------------------------------------------------------------
\* Value "is one of int32, uint32, int64, uint64, float64, bool, or string"
\* (typed_params.go:28): one of these, alone or with its type, under a name
\* that is not too long, neither name nor text with a NUL.
Documented(p) ==
  /\ p.field.len \in 1 .. FieldLength - 1 /\ p.field.nul = 0
  /\ \E t \in Types : Keeps[t] = p.value.go /\ p.type \in {t, "none"}
  /\ p.value.go = "string" => p.value.v = 0

\* A number that is accepted reaches libvirt as it is, whatever its width in
\* Go, its sign and the type it is sent as, and comes back with it; so do the
\* name and a text.  Nothing is cut to fit (typed_params.go:213-240, 35-78),
\* and no documented value is refused for fear of it.
ValuesArrive ==
  /\ stage = "decoded" =>
       /\ output.field = input.field
       /\ output.type = Resolved(input)
       /\ output.value.v = input.value.v
  /\ stage = "refused" => ~ Documented(input)

\* The name libvirt sees ends with a NUL inside the array, and is the name the
\* program gave: C reads on past an array that is full (typed_params.go:191).
NamesEnd == stage = "encoded" => wire.len < FieldLength /\ wire.nul = 0

--------------------------------------------------------------------------------
(* Version numbers: DecodeVersion and Version.Number.                       *)

Thousand == 1000
Million == Thousand * Thousand

DecodeVersion(raw) ==
  [Major   |-> (raw \div Million) % (2 * Half32),
   Minor   |-> (raw % Million) \div Thousand,
   Release |-> raw % Thousand]

Number(v) == v.Major * Million + v.Minor * Thousand + v.Release
================================================================================
