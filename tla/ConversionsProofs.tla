--------------------------- MODULE ConversionsProofs ---------------------------
(***************************************************************************)
(* What the conversions promise: a parameter arrives as it was given, the  *)
(* statistics of a job and of a domain are what libvirt sent, and the      *)
(* generated types take the places of their C types.  It holds for all     *)
(* widths of the integers, for lists of any length, for any counters and   *)
(* any parameters libvirt may send, and for structures of any size.        *)
(***************************************************************************)
EXTENDS Conversions, FiniteSetTheorems, SequenceTheorems, TLAPS

--------------------------------------------------------------------------------
(* A parameter on its way to libvirt and back.                              *)

\* The parameter that normalizeTypedParameter makes of an accepted one, and
\* the element that encodeTypedParameters makes of that.
Normal(p) ==
  [field |-> p.field, type |-> Resolved(p),
   value |-> [go |-> Keeps[Resolved(p)], v |-> p.value.v]]
Element(p) ==
  [len  |-> IF p.field.len <= FieldLength THEN p.field.len ELSE FieldLength,
   nul  |-> p.field.nul, type |-> p.type,
   bits |-> IF p.type = "STRING" THEN 0 ELSE Bits(p.type, p.value.v)]

\* Each stage has what the one before made of the input.
CodecInv ==
  /\ input \in Parameters
  /\ stage \in {"given", "refused", "normal", "encoded", "decoded"}
  /\ stage \in {"normal", "encoded", "decoded"} => Accepts(input)
  /\ stage = "refused" => ~ Accepts(input)
  /\ stage = "normal" => output = Normal(input)
  /\ stage = "encoded" => wire = Element(Normal(input))
  /\ stage = "decoded" =>
       /\ output.field = input.field
       /\ output.type = Resolved(input)
       /\ output.value.v = input.value.v

\* Every value belongs to the numbers of its dynamic type.
LEMMA ValueOfType ==
  ASSUME NEW p \in Parameters
  PROVE  p.value.go \in DOMAIN GoValues /\ p.value.v \in GoValues[p.value.go]
<1>1. PICK g \in DOMAIN GoValues : p.value \in [go : {g}, v : GoValues[g]]
  BY DEF Parameters, Values
<1>2. p.value.go = g /\ p.value.v \in GoValues[g]
  BY <1>1
<1> QED
  BY <1>2

\* What an accepted value of type t can be, as a number.
LEMMA AcceptedRange ==
  ASSUME NEW p \in Parameters, Accepts(p)
  PROVE  LET t == Resolved(p)  v == p.value.v IN
         /\ t \in Types /\ v \in Int
         /\ t = "INT" => v \in Signed(Half32)
         /\ t = "UINT" => v \in Unsigned(Half32)
         /\ t = "LLONG" => v \in Signed(Half64)
         /\ t = "ULLONG" => v \in Unsigned(Half64)
         /\ t \in {"DOUBLE", "BOOLEAN"} => v \in {0, 1}
         /\ t = "STRING" => v = 0
<1> DEFINE t == Resolved(p)
           v == p.value.v
           g == p.value.go
<1>1. t \in Types /\ g \in Takes[t] /\ Fits(t, v)
  BY DEF Accepts
<1>2. g \in DOMAIN GoValues /\ v \in GoValues[g]
  BY ValueOfType
<1>3. Half32 \in Nat /\ Half64 \in Nat
  BY WidthAssumption
<1>4. v \in Int
  BY <1>2, <1>3 DEF GoValues, Signed, Unsigned
<1>5. t = "INT" => v \in Signed(Half32)
  BY <1>1 DEF Fits
<1>6. t = "UINT" => v \in Unsigned(Half32)
  BY <1>1 DEF Fits
<1>7. t = "LLONG" => v \in Signed(Half64)
  BY <1>1, <1>2 DEF Takes, GoValues
<1>8. t = "ULLONG" => v \in Unsigned(Half64)
  BY <1>1, <1>2 DEF Takes, GoValues
<1>9. t \in {"DOUBLE", "BOOLEAN"} => v \in {0, 1}
  BY <1>1, <1>2 DEF Takes, GoValues
<1>10. t = "STRING" => v = 0
  BY <1>1 DEF Fits
<1> QED
  BY <1>1, <1>4, <1>5, <1>6, <1>7, <1>8, <1>9, <1>10

\* Reading the bits of a number back gives the number: two's complement in the
\* width of the type.
LEMMA BitsRoundTrip ==
  ASSUME NEW p \in Parameters, Accepts(p)
  PROVE  LET t == Resolved(p)  v == p.value.v IN
         Read(t, IF t = "STRING" THEN 0 ELSE Bits(t, v)) = v
<1> DEFINE t == Resolved(p)
           v == p.value.v
<1>1. Half32 \in Nat \ {0} /\ Half64 \in Nat /\ Half32 <= Half64
  BY WidthAssumption
<1>2. t \in {"INT", "UINT", "LLONG", "ULLONG", "DOUBLE", "BOOLEAN", "STRING"}
  BY AcceptedRange DEF Types, Takes
<1>3. CASE t = "INT"
  <2>1. v \in -Half32 .. Half32 - 1
    BY <1>3, AcceptedRange DEF Signed
  <2> QED
    BY <1>1, <1>3, <2>1 DEF Read, Bits, HalfOf
<1>4. CASE t = "LLONG"
  <2>1. v \in -Half64 .. Half64 - 1
    BY <1>4, AcceptedRange DEF Signed
  <2> QED
    BY <1>1, <1>4, <2>1 DEF Read, Bits, HalfOf
<1>5. CASE t \in {"UINT", "ULLONG"}
  <2>1. v >= 0 /\ v \in Int
    BY <1>1, <1>5, AcceptedRange DEF Unsigned
  <2> QED
    BY <1>5, <2>1 DEF Read, Bits
<1>6. CASE t \in {"DOUBLE", "BOOLEAN"}
  <2>1. v \in {0, 1}
    BY <1>6, AcceptedRange
  <2> QED
    BY <1>6, <2>1 DEF Read, Bits
<1>7. CASE t = "STRING"
  <2>1. v = 0
    BY <1>7, AcceptedRange
  <2> QED
    BY <1>7, <2>1 DEF Read
<1> QED
  BY <1>2, <1>3, <1>4, <1>5, <1>6, <1>7

\* The name of an accepted parameter fits with its NUL, and has no other.
LEMMA AcceptedField ==
  ASSUME NEW p \in Parameters, Accepts(p)
  PROVE  /\ p.field \in [len : 0 .. FieldLength + 1, nul : 0 .. FieldLength + 1]
         /\ p.field.len \in Nat /\ p.field.len < FieldLength /\ p.field.nul = 0
<1>1. p.field \in [len : 0 .. FieldLength + 1, nul : 0 .. FieldLength + 1]
  BY DEF Parameters, Fields
<1> QED
  BY <1>1, FieldAssumption DEF Accepts, FieldIsValid

\* A documented value of a type is resolved to it.
LEMMA DocumentedType ==
  ASSUME NEW p \in Parameters, NEW t \in Types, Keeps[t] = p.value.go, p.type \in {t, "none"}
  PROVE  Resolved(p) = t /\ p.value.go \in Takes[t]
<1>1. t \in {"INT", "UINT", "LLONG", "ULLONG", "DOUBLE", "BOOLEAN", "STRING"}
  BY DEF Types, Takes
<1>2. p.value.go \in Takes[t]
  BY <1>1 DEF Keeps, Takes
<1>3. ASSUME NEW u \in Types, p.value.go \in Takes[u] PROVE u = t
  BY <1>1, <1>3 DEF Types, Keeps, Takes
<1>4. (CHOOSE u \in Types : p.value.go \in Takes[u]) = t
  BY <1>2, <1>3
<1>5. t # "none"
  BY <1>1
<1> QED
  BY <1>2, <1>4, <1>5 DEF Resolved

\* A documented parameter is accepted.
LEMMA DocumentedAccepted ==
  ASSUME NEW p \in Parameters, Documented(p)
  PROVE  Accepts(p)
<1>1. PICK t \in Types : Keeps[t] = p.value.go /\ p.type \in {t, "none"}
  BY DEF Documented
<1>2. Resolved(p) = t /\ p.value.go \in Takes[t]
  BY <1>1, DocumentedType
<1>3. p.value.v \in GoValues[p.value.go]
  BY ValueOfType
<1>4. t \in {"INT", "UINT", "LLONG", "ULLONG", "DOUBLE", "BOOLEAN", "STRING"}
  BY DEF Types, Takes
<1>5. Fits(t, p.value.v)
  BY <1>1, <1>3, <1>4 DEF Fits, Keeps, GoValues, Documented
<1>6. FieldIsValid(p.field)
  BY FieldAssumption DEF Documented, FieldIsValid
<1> QED
  BY <1>2, <1>5, <1>6 DEF Accepts

\* The invariant holds at first.
LEMMA CodecInit == Init => CodecInv
  BY DEF Init, CodecInv

\* And every step keeps it.
LEMMA CodecStep == CodecInv /\ [Next]_vars => CodecInv'
<1> SUFFICES ASSUME CodecInv, [Next]_vars
             PROVE  CodecInv'
  OBVIOUS
<1>1. CASE normalizeTypedParameter
  <2>1. CASE Accepts(input) /\ stage' = "normal" /\ output' = Normal(input)
    BY <1>1, <2>1 DEF CodecInv, normalizeTypedParameter, Accepts, Normal, Resolved
  <2>2. CASE ~ Accepts(input) /\ stage' = "refused"
    BY <1>1, <2>2 DEF CodecInv, normalizeTypedParameter, Accepts, Resolved
  <2> QED
    BY <1>1, <2>1, <2>2 DEF normalizeTypedParameter, Normal
<1>2. CASE encodeTypedParameters
  <2>1. wire' = Element(output)
    BY <1>2 DEF encodeTypedParameters, Element
  <2>2. output = Normal(input) /\ Accepts(input)
    BY <1>2 DEF encodeTypedParameters, CodecInv
  <2> QED
    BY <1>2, <2>1, <2>2 DEF CodecInv, encodeTypedParameters, Element, Normal, Accepts, Resolved
<1>3. CASE decodeTypedParameter
  <2>1. wire = Element(Normal(input)) /\ Accepts(input) /\ input \in Parameters
    BY <1>3 DEF decodeTypedParameter, CodecInv
  <2>2. Read(Resolved(input), IF Resolved(input) = "STRING" THEN 0
                              ELSE Bits(Resolved(input), input.value.v)) = input.value.v
    BY <2>1, BitsRoundTrip
  <2>3. /\ wire.type = Resolved(input) /\ wire.nul = 0 /\ wire.len = input.field.len
        /\ wire.bits = IF Resolved(input) = "STRING" THEN 0
                       ELSE Bits(Resolved(input), input.value.v)
    BY <2>1, AcceptedField, FieldAssumption DEF Element, Normal
  <2>4. input.field = [len |-> input.field.len, nul |-> 0]
    BY <2>1, AcceptedField
  <2>5. /\ output'.field = input.field /\ output'.type = Resolved(input)
        /\ output'.value.v = input.value.v
    BY <1>3, <2>2, <2>3, <2>4 DEF decodeTypedParameter
  <2> QED
    BY <1>3, <2>1, <2>5 DEF CodecInv, decodeTypedParameter, Accepts, Resolved
<1>4. CASE UNCHANGED vars
  BY <1>4 DEF CodecInv, vars, Accepts, Resolved, Normal, Element
<1> QED
  BY <1>1, <1>2, <1>3, <1>4 DEF Next

\* An accepted parameter comes back as it was given, whatever the widths: no
\* number is cut, no name and no text shortened; and no documented one is
\* refused (typed_params.go:35-266).
THEOREM ParametersArrive == Spec => []ValuesArrive
<1>1. CodecInv => ValuesArrive
  BY DocumentedAccepted DEF CodecInv, ValuesArrive
<1> QED
  BY <1>1, CodecInit, CodecStep, PTL DEF Spec

\* The name libvirt reads ends inside its array, however long the array is
\* (typed_params.go:191).
THEOREM NamesEndInside == Spec => []NamesEnd
<1>1. CodecInv => NamesEnd
  <2> SUFFICES ASSUME CodecInv, stage = "encoded"
               PROVE  wire.len < FieldLength /\ wire.nul = 0
    BY DEF NamesEnd
  <2>1. wire = Element(Normal(input)) /\ Accepts(input) /\ input \in Parameters
    BY DEF CodecInv
  <2> QED
    BY <2>1, AcceptedField, FieldAssumption DEF Element, Normal
<1> QED
  BY <1>1, CodecInit, CodecStep, PTL DEF Spec

\* Division, for any divisor.
LEMMA Division ==
  ASSUME NEW n \in Nat, NEW d \in Nat \ {0}
  PROVE  n \div d \in Nat /\ n % d \in 0 .. d - 1 /\ n = d * (n \div d) + (n % d)
  BY SMT

\* Taking thousands off does not change the last three digits.
LEMMA LastDigits ==
  ASSUME NEW q \in Nat, NEW r \in Nat
  PROVE  (Million * q + r) % Thousand = r % Thousand
  BY SMT DEF Million, Thousand

\* DecodeVersion gives the version whose Number it was given, where the major
\* part fits in 32 bits, and the version back from its Number, where the minor
\* part and the release are below a thousand (version.go:13-24): a larger one
\* spills into the part before it.
THEOREM VersionRoundTrip ==
  /\ \A raw \in Nat : raw \div Million < 2 * Half32 => Number(DecodeVersion(raw)) = raw
  /\ \A major \in 0 .. 2 * Half32 - 1, minor, release \in 0 .. Thousand - 1 :
       LET v == [Major |-> major, Minor |-> minor, Release |-> release]
       IN DecodeVersion(Number(v)) = v
<1>1. ASSUME NEW raw \in Nat, raw \div Million < 2 * Half32
      PROVE  Number(DecodeVersion(raw)) = raw
  <2> DEFINE q == raw \div Million
             r == raw % Million
  <2>1. Thousand \in Nat \ {0} /\ Million \in Nat \ {0}
    BY SMT DEF Million, Thousand
  <2>2. q \in Nat /\ r \in Nat /\ raw = Million * q + r
    BY <2>1, Division
  <2>3. q % (2 * Half32) = q
    BY <1>1, <2>2, WidthAssumption
  <2>4. raw % Thousand = r % Thousand
    BY <2>2, LastDigits
  <2>5. /\ r = Thousand * (r \div Thousand) + (r % Thousand)
        /\ r \div Thousand \in Nat /\ r % Thousand \in Nat
    BY <2>1, <2>2, Division
  <2>6. Number(DecodeVersion(raw)) = q * Million + (r \div Thousand) * Thousand + (raw % Thousand)
    BY <2>3 DEF Number, DecodeVersion
  <2>7. \A a, b \in Int : a * b = b * a
    OBVIOUS
  <2> HIDE DEF q, r
  <2>8. q * Million + (r \div Thousand) * Thousand + (raw % Thousand) = Million * q + r
    BY <2>1, <2>2, <2>4, <2>5, <2>7
  <2> QED
    BY <2>2, <2>6, <2>8
<1>2. ASSUME NEW major \in 0 .. 2 * Half32 - 1,
             NEW minor \in 0 .. Thousand - 1, NEW release \in 0 .. Thousand - 1
      PROVE  LET v == [Major |-> major, Minor |-> minor, Release |-> release]
             IN DecodeVersion(Number(v)) = v
  <2> DEFINE n == major * Million + minor * Thousand + release
  <2>1. Thousand \in Nat /\ Million \in Nat /\ major \in Nat
    BY WidthAssumption, SMT DEF Million, Thousand
  <2>2. n \in Nat /\ n = major * Million + minor * Thousand + release
    BY <2>1
  <2> HIDE DEF n
  <2>3. n \div Million = major /\ (n % Million) \div Thousand = minor /\ n % Thousand = release
    <3>1. n \div Million = major /\ n % Million = minor * Thousand + release
      BY <2>1, <2>2, SMT DEF Million, Thousand
    <3>2. (minor * Thousand + release) \div Thousand = minor
      BY SMT DEF Thousand
    <3>3. n % Thousand = release
      BY <2>1, <2>2, SMT DEF Million, Thousand
    <3> QED
      BY <3>1, <3>2, <3>3
  <2>4. major % (2 * Half32) = major
    BY WidthAssumption
  <2>5. DecodeVersion(n) = [Major |-> major, Minor |-> minor, Release |-> release]
    BY <2>3, <2>4 DEF DecodeVersion
  <2>6. Number([Major |-> major, Minor |-> minor, Release |-> release]) = n
    BY DEF Number, n
  <2> QED
    BY <2>5, <2>6
<1> QED
  BY <1>1, <1>2

--------------------------------------------------------------------------------
(* The statistics of a job.                                                 *)

\* Parameter i is the last of the first n that carries a field.
IsLast(n, i, f) ==
  /\ i \in 1 .. n /\ Job!Carries(i, f)
  /\ \A j \in i + 1 .. n : ~ Job!Carries(j, f)

\* Each field that is set has the value of the last parameter that carries it,
\* and none of those taken is refused.
JobInv ==
  /\ jobParameters \in Seq(Job!Parameter)
  /\ jobNext \in 0 .. Len(jobParameters)
  /\ status \in {"decoding", "ok", "error"}
  /\ DOMAIN info = {jobParameters[i].field : i \in 1 .. jobNext} \cap Job!Known
  /\ \A f \in DOMAIN info :
       \E i \in 1 .. jobNext : IsLast(jobNext, i, f) /\ info[f] = jobParameters[i].v
  /\ \A i \in 1 .. jobNext : ~ Job!Rejects(jobParameters[i])
  /\ status = "ok" => jobNext = Len(jobParameters)
  /\ status = "error" => \E i \in 1 .. Len(jobParameters) : Job!Rejects(jobParameters[i])

\* What a field is refused for is what libvirt documents.
LEMMA MistypedIsRejected ==
  ASSUME NEW p \in Job!Parameter
  PROVE  Job!Rejects(p) <=> Job!MistypedField(p)
<1>1. DOMAIN Job!Typed = {"throttle", "operation", "success", "error"}
  BY DEF Job!Typed
<1>2. Counters \cap {"throttle", "operation", "success", "error", "other"} = {}
  BY <1>1, CountersAssumption
<1>3. p.field \in Counters \cup {"throttle", "operation", "success", "error", "other"}
  BY <1>1 DEF Job!Parameter, Job!Known
<1> QED
  BY <1>1, <1>2, <1>3
     DEF Job!Rejects, Job!MistypedField, Job!Known, Job!GoTypeOf, Job!Typed

\* The last one is one.
LEMMA LastIsOne ==
  ASSUME NEW n \in Nat, NEW i, NEW f, IsLast(n, i, f)
  PROVE  Job!LastOf(n, f) = i
<1>1. i \in 1 .. n /\ Job!Carries(i, f) /\ \A j \in i + 1 .. n : ~ Job!Carries(j, f)
  BY DEF IsLast
<1>2. ASSUME NEW k \in 1 .. n, Job!Carries(k, f), \A j \in k + 1 .. n : ~ Job!Carries(j, f)
      PROVE  k = i
  BY <1>1, <1>2
<1> QED
  BY <1>1, <1>2 DEF Job!LastOf

\* The invariant says what the program is promised.
LEMMA JobPromise == JobInv => InfoIsTrue
<1> SUFFICES ASSUME JobInv PROVE Job!InfoIsTrue
  BY DEF InfoIsTrue
<1>1. \A i \in 1 .. Len(jobParameters) : jobParameters[i] \in Job!Parameter
  BY DEF JobInv
<1>2. DOMAIN jobParameters = 1 .. Len(jobParameters) /\ jobNext \in Nat
  BY DEF JobInv
<1>3. ASSUME NEW f \in DOMAIN info PROVE info[f] = jobParameters[Job!LastOf(jobNext, f)].v
  BY <1>2, LastIsOne DEF JobInv
<1>4. status = "ok" => ~ \E i \in DOMAIN jobParameters : Job!MistypedField(jobParameters[i])
  BY <1>1, <1>2, MistypedIsRejected DEF JobInv
<1>5. status = "error" => \E i \in DOMAIN jobParameters : Job!MistypedField(jobParameters[i])
  BY <1>1, <1>2, MistypedIsRejected DEF JobInv
<1> QED
  BY <1>3, <1>4, <1>5 DEF JobInv, Job!InfoIsTrue

\* It holds at first, and when there is nothing to decode.
LEMMA JobStart == Job!Init \/ JobReturned => JobInv
<1>1. CASE Job!Init
  <2>1. PICK n \in 0 .. JobLength : jobParameters \in [1 .. n -> Job!Parameter]
    BY <1>1 DEF Job!Init
  <2>2. n \in Nat
    BY <2>1
  <2>3. jobParameters \in Seq(Job!Parameter) /\ Len(jobParameters) \in Nat
    BY <2>1, <2>2, SeqDef
  <2> QED
    BY <1>1, <2>3 DEF Job!Init, JobInv
<1>2. CASE JobReturned
  BY <1>2 DEF JobReturned, JobInv
<1> QED
  BY <1>1, <1>2

\* The last of n + 1 is parameter n + 1 if that carries the field, and
\* otherwise the last of n.
LEMMA LastOfMore ==
  ASSUME NEW n \in Nat, NEW f, NEW i
  PROVE  /\ Job!Carries(n + 1, f) => IsLast(n + 1, n + 1, f)
         /\ ~ Job!Carries(n + 1, f) /\ IsLast(n, i, f) => IsLast(n + 1, i, f)
  BY DEF IsLast

\* Every step keeps it.
LEMMA JobStep == JobInv /\ [Job!Next]_jobVars => JobInv'
<1> SUFFICES ASSUME JobInv, [Job!Next]_jobVars PROVE JobInv'
  OBVIOUS
<1> USE DEF JobInv
<1>1. CASE Job!domainJobInfoFromParameters
  BY <1>1 DEF Job!domainJobInfoFromParameters, IsLast, Job!Carries
<1>2. CASE Job!decodeDomainJobParameter /\ Job!Rejects(jobParameters[jobNext + 1])
  BY <1>2 DEF Job!decodeDomainJobParameter, IsLast, Job!Carries
<1>3. CASE Job!decodeDomainJobParameter /\ ~ Job!Rejects(jobParameters[jobNext + 1])
  <2> DEFINE p == jobParameters[jobNext + 1]
             n == jobNext
  <2>1. /\ n \in Nat /\ n < Len(jobParameters) /\ jobNext' = n + 1 /\ status = "decoding"
        /\ UNCHANGED <<jobParameters, status>>
        /\ info' = IF p.field \in Job!Known THEN Job!Record(p.field, p.v) ELSE info
    BY <1>3 DEF Job!decodeDomainJobParameter
  <2>2. 1 .. n + 1 = (1 .. n) \cup {n + 1}
    BY <2>1
  <2>3. (DOMAIN info)' = {jobParameters[i].field : i \in 1 .. n + 1} \cap Job!Known
    BY <2>1, <2>2 DEF Job!Record
  <2>4. ASSUME NEW f \in DOMAIN info'
        PROVE  \E i \in 1 .. n + 1 : IsLast(n + 1, i, f) /\ info'[f] = jobParameters[i].v
    <3>1. CASE f = p.field
      <4>1. IsLast(n + 1, n + 1, f)
        BY <2>1, <3>1, LastOfMore DEF Job!Carries
      <4>2. f \in Job!Known
        BY <2>3
      <4>3. info'[f] = p.v
        BY <2>1, <3>1, <4>2 DEF Job!Record
      <4> QED
        BY <2>1, <4>1, <4>3
    <3>2. CASE f # p.field
      <4>1. f \in DOMAIN info /\ info'[f] = info[f]
        BY <2>1, <3>2 DEF Job!Record
      <4>2. PICK i \in 1 .. n : IsLast(n, i, f) /\ info[f] = jobParameters[i].v
        BY <4>1
      <4>3. IsLast(n + 1, i, f)
        BY <2>1, <3>2, <4>2, LastOfMore DEF Job!Carries
      <4> QED
        BY <2>1, <4>1, <4>2, <4>3
    <3> QED
      BY <3>1, <3>2
  <2>5. \A f \in DOMAIN info' :
          \E i \in 1 .. jobNext' : IsLast(jobNext, i, f)' /\ info'[f] = jobParameters'[i].v
    BY <2>1, <2>4 DEF IsLast, Job!Carries
  <2>6. \A i \in 1 .. n + 1 : ~ Job!Rejects(jobParameters[i])
    BY <1>3, <2>2
  <2> QED
    BY <2>1, <2>3, <2>5, <2>6
<1>4. CASE UNCHANGED jobVars
  BY <1>4 DEF jobVars, IsLast, Job!Carries
<1> QED
  BY <1>1, <1>2, <1>3, <1>4 DEF Job!Next

\* A job's statistics are what libvirt sent last, whatever the counters are
\* called and however long the list is (domain_job.go:225-333).
THEOREM JobInfoIsTrue == ConversionsSpec => []InfoIsTrue
<1>1. ConversionsInit => JobInv
  BY JobStart DEF ConversionsInit
<1>2. JobInv /\ [ConversionsNext]_<<vars, jobVars, statsVars, abiVars>> => JobInv'
  BY JobStep DEF ConversionsNext
<1> QED
  BY <1>1, <1>2, JobPromise, PTL DEF ConversionsSpec

--------------------------------------------------------------------------------
(* The types of the generated binding.                                      *)

\* What the generator makes of the i-th of the types.
GoOf(i) ==
  IF kind = "struct" THEN Abi!layoutField(parts[i]) ELSE Abi!goABIType(parts[i], i = Len(parts))

\* All it could make of any of them.
AllGoTypes ==
  {Abi!goABIType(t, TRUE) : t \in Abi!CTypes} \cup {Abi!goABIType(t, FALSE) : t \in Abi!CTypes}
    \cup {Abi!layoutField(t) : t \in Abi!FieldTypes}

\* What is mapped so far is what the generator makes of each type, and all of
\* it is supported.
AbiInv ==
  /\ \/ kind = "function" /\ parts \in Seq(Abi!CTypes)
     \/ kind = "struct" /\ parts \in Seq(Abi!FieldTypes)
  /\ mapped \in Seq(AllGoTypes) /\ Len(mapped) <= Len(parts)
  /\ \A i \in 1 .. Len(mapped) : mapped[i] = GoOf(i) /\ mapped[i].name # Abi!Unsupported
  /\ pc = "done" => Len(mapped) = Len(parts)

\* The Go type of a number has the width of the number, and its kind.
LEMMA NumberTypeAgrees ==
  ASSUME NEW b \in Abi!Scalars
  PROVE  /\ Abi!GoScalarWidth(Abi!NumberType(b)) = Abi!CScalarWidth(b)
         /\ Abi!NumberType(b) \notin {"bytes", "pointer"}
         /\ b = "double" <=> Abi!NumberType(b) = "float64"
         /\ b \in {"int", "long", "long_long"} => Abi!NumberType(b) \in {"int32", "int64", "int"}
<1> USE DEF Abi!NumberType, Abi!LongOf, Abi!GoScalarWidth, Abi!CScalarWidth, Abi!Scalars
<1>1. CASE b \in {"char", "unsigned_char"}
  BY <1>1
<1>2. CASE b \in {"int", "unsigned_int"}
  BY <1>2
<1>3. CASE b \in {"long", "unsigned_long", "size_t"}
  BY <1>3
<1>4. CASE b \in {"long_long", "unsigned_long_long", "double"}
  BY <1>4
<1> QED
  BY <1>1, <1>2, <1>3, <1>4

\* The Go type depends on whether it is that of the result.
LEMMA EitherType ==
  ASSUME NEW t, NEW result \in BOOLEAN
  PROVE  Abi!goABIType(t, result) \in {Abi!goABIType(t, TRUE), Abi!goABIType(t, FALSE)}
<1>1. CASE result = TRUE
  BY <1>1, Zenon
<1>2. CASE result = FALSE
  BY <1>2, Zenon
<1> QED
  BY <1>1, <1>2, Zenon

\* The Go type of a supported argument or result is as wide as its C type,
\* travels in the same kind of register with its sign, and points at what C
\* points at.
LEMMA CallTypeAgrees ==
  ASSUME NEW t \in Abi!CTypes, NEW g, g.name # Abi!Unsupported,
         g \in {Abi!goABIType(t, TRUE), Abi!goABIType(t, FALSE)}
  PROVE  /\ Abi!GoWidth(g) = Abi!CWidth(t)
         /\ Abi!FloatC(t) <=> g.name = "float64"
         /\ Abi!SignedC(t) => g.name \in {"int32", "int64", "int"}
         /\ g.name = "pointer" =>
              Abi!GoScalarWidth(g.to) = Abi!CWidth([t EXCEPT !.stars = @ - 1])
         /\ g.name # "bytes"
<1> DEFINE b == t.base
           s == t.stars
           u == [t EXCEPT !.stars = @ - 1]
<1>1. b \in Abi!Scalars \cup {"void", "Ptr", "Callback", "enum"} /\ s \in 0 .. 2
  BY DEF Abi!CTypes
<1>2. u.base = b /\ u.stars = s - 1
  BY DEF Abi!CTypes
<1>3. b \notin {"array", "union"}
  BY <1>1 DEF Abi!Scalars
<1>4. Abi!CWidth(t) = (IF s > 0 THEN word ELSE Abi!CScalarWidth(b))
  BY <1>3 DEF Abi!CWidth
<1>5. Abi!CWidth(u) = (IF s > 1 THEN word ELSE Abi!CScalarWidth(b))
  BY <1>1, <1>2, <1>3 DEF Abi!CWidth
<1>6. /\ Abi!GoScalarWidth("uintptr") = word /\ Abi!GoScalarWidth("unsafe.Pointer") = word
      /\ Abi!GoScalarWidth("pointer") = word /\ Abi!GoScalarWidth("byte") = 1
      /\ Abi!GoScalarWidth("none") = 0
  BY DEF Abi!GoScalarWidth
<1>7. /\ Abi!CScalarWidth("Ptr") = word /\ Abi!CScalarWidth("Callback") = word
      /\ Abi!CScalarWidth("void") = 0
      /\ b \in {"char", "unsigned_char"} => Abi!CScalarWidth(b) = 1
  BY DEF Abi!CScalarWidth
<1> USE DEF Abi!GoWidth, Abi!FloatC, Abi!SignedC
<1>8. CASE b = "Callback"
  <2>1. g = IF s = 0 THEN [name |-> "uintptr", to |-> "none"] ELSE [name |-> "pointer", to |-> "uintptr"]
    BY <1>1, <1>8 DEF Abi!goABIType, Abi!Plain, Abi!PointerTo, Abi!Scalars
  <2>2. CASE s = 0
    BY <1>1, <1>4, <1>6, <1>7, <1>8, <2>1, <2>2
  <2>3. CASE s # 0
    BY <1>1, <1>4, <1>5, <1>6, <1>7, <1>8, <2>1, <2>3
  <2> QED
    BY <2>2, <2>3
<1>9. CASE b = "Ptr"
  <2>1. \/ g = [name |-> "unsafe.Pointer", to |-> "none"]
        \/ s # 0 /\ g = [name |-> "pointer", to |-> "unsafe.Pointer"]
    BY <1>1, <1>9 DEF Abi!goABIType, Abi!Plain, Abi!PointerTo, Abi!Scalars
  <2>2. CASE g = [name |-> "unsafe.Pointer", to |-> "none"]
    BY <1>1, <1>4, <1>6, <1>7, <1>9, <2>2
  <2>3. CASE s # 0 /\ g = [name |-> "pointer", to |-> "unsafe.Pointer"]
    BY <1>1, <1>4, <1>5, <1>6, <1>7, <1>9, <2>3
  <2> QED
    BY <2>1, <2>2, <2>3
<1>10. CASE b \notin {"Callback", "Ptr"} /\ s > 1
  <2>1. \/ g = [name |-> "unsafe.Pointer", to |-> "none"]
        \/ g = [name |-> "pointer", to |-> "unsafe.Pointer"]
    BY <1>1, <1>10 DEF Abi!goABIType, Abi!Plain, Abi!PointerTo, Abi!Scalars
  <2>2. CASE g = [name |-> "unsafe.Pointer", to |-> "none"]
    BY <1>1, <1>4, <1>6, <1>10, <2>2
  <2>3. CASE g = [name |-> "pointer", to |-> "unsafe.Pointer"]
    BY <1>1, <1>4, <1>5, <1>6, <1>10, <2>3
  <2> QED
    BY <2>1, <2>2, <2>3
<1>11. CASE b \in {"char", "unsigned_char"} /\ s = 1
  <2>1. \/ g = [name |-> "unsafe.Pointer", to |-> "none"]
        \/ g = [name |-> "pointer", to |-> "byte"]
    BY <1>1, <1>11 DEF Abi!goABIType, Abi!Plain, Abi!PointerTo, Abi!Scalars
  <2>2. CASE g = [name |-> "unsafe.Pointer", to |-> "none"]
    BY <1>1, <1>4, <1>6, <1>11, <2>2
  <2>3. CASE g = [name |-> "pointer", to |-> "byte"]
    BY <1>1, <1>4, <1>5, <1>6, <1>7, <1>11, <2>3
  <2> QED
    BY <2>1, <2>2, <2>3
<1>12. CASE b = "void" /\ s <= 1
  <2>1. g = IF s = 1 THEN [name |-> "unsafe.Pointer", to |-> "none"] ELSE [name |-> "none", to |-> "none"]
    BY <1>1, <1>12 DEF Abi!goABIType, Abi!Plain, Abi!PointerTo, Abi!Unsupported, Abi!Scalars
  <2> QED
    BY <1>1, <1>4, <1>6, <1>7, <1>12, <2>1
<1>13. CASE b \in Abi!Scalars \ {"char", "unsigned_char"} /\ s = 1
  <2>1. b \notin {"Callback", "Ptr", "void", "char", "unsigned_char"}
    BY <1>1, <1>13 DEF Abi!Scalars
  <2>2. g = [name |-> "pointer", to |-> Abi!NumberType(b)]
    BY <1>1, <1>13, <2>1 DEF Abi!goABIType, Abi!Plain, Abi!PointerTo, Abi!Scalars
  <2> QED
    BY <1>1, <1>4, <1>5, <1>6, <1>13, <2>2, NumberTypeAgrees
<1>14. CASE b \in Abi!Scalars /\ s = 0
  <2>1. b \notin {"Callback", "Ptr", "void"}
    BY <1>1, <1>14 DEF Abi!Scalars
  <2>2. g = [name |-> Abi!NumberType(b), to |-> "none"]
    BY <1>1, <1>14, <2>1 DEF Abi!goABIType, Abi!Plain, Abi!PointerTo, Abi!Scalars
  <2> QED
    BY <1>1, <1>4, <1>14, <2>2, NumberTypeAgrees
<1>15. CASE b = "enum" /\ s <= 1
  BY <1>1, <1>15 DEF Abi!goABIType, Abi!Plain, Abi!PointerTo, Abi!Unsupported, Abi!Scalars
<1> QED
  BY <1>1, <1>8, <1>9, <1>10, <1>11, <1>12, <1>13, <1>14, <1>15

\* A union that is supported is eight bytes wide.
LEMMA UnionWidth ==
  ASSUME NEW t \in Abi!FieldTypes, t.base = "union", Abi!UnionHolds(t)
  PROVE  Abi!CWidth(t) = 8
<1> DEFINE W == {Abi!CScalarWidth(b) : b \in t.members}
<1>1. t.members = {"int", "unsigned_long_long", "double"}
  BY DEF Abi!FieldTypes, Abi!MemberSets, Abi!UnionHolds, Abi!UnionMembers, Abi!Scalar64
<1>2. W = {4, 8}
  BY <1>1 DEF Abi!CScalarWidth
<1>3. Abi!Max(W) = 8
  BY <1>2 DEF Abi!Max
<1> QED
  BY <1>3 DEF Abi!CWidth

\* The Go type of a supported field has the width and the alignment of its C
\* type.
LEMMA FieldTypeAgrees ==
  ASSUME NEW t \in Abi!FieldTypes, NEW g, g = Abi!layoutField(t), g.name # Abi!Unsupported
  PROVE  Abi!GoWidth(g) = Abi!CWidth(t) /\ Abi!GoAlign(g) = Abi!CAlign(t)
<1>1. CASE t.base = "union"
  <2>1. Abi!UnionHolds(t) /\ g.name = "uint64"
    BY <1>1 DEF Abi!layoutField, Abi!Plain
  <2>2. Abi!GoWidth(g) = 8
    BY <2>1 DEF Abi!GoWidth, Abi!GoScalarWidth
  <2> QED
    BY <1>1, <2>1, <2>2, UnionWidth DEF Abi!GoAlign, Abi!CAlign
<1>2. CASE t.base = "array"
  BY <1>2 DEF Abi!layoutField, Abi!GoWidth, Abi!CWidth, Abi!GoAlign, Abi!CAlign
<1>3. CASE t.base \notin {"union", "array"}
  <2>1. /\ t.base \in {"char", "int", "long", "unsigned_long_long", "double", "Ptr", "enum"}
        /\ t.stars \in 0 .. 1 /\ t = [base |-> t.base, stars |-> t.stars, members |-> {}]
    BY <1>3 DEF Abi!FieldTypes, Abi!MemberSets
  <2>2. Abi!GoWidth(g) = Abi!CWidth(t) /\ g.name # "bytes"
    <3>1. CASE t.base = "enum"
      <4>1. g = [name |-> "int32", to |-> "none"] /\ t.stars = 0
        BY <3>1 DEF Abi!layoutField, Abi!Plain, Abi!FieldTypes
      <4> QED
        BY <3>1, <4>1 DEF Abi!GoWidth, Abi!GoScalarWidth, Abi!CWidth, Abi!CScalarWidth
    <3>2. CASE t.base # "enum"
      <4>1. t \in Abi!CTypes
        BY <2>1, <3>2 DEF Abi!CTypes, Abi!Scalars
      <4>2. g = Abi!goABIType(t, TRUE)
        BY <1>3, <3>2 DEF Abi!layoutField
      <4> QED
        BY <4>1, <4>2, CallTypeAgrees
    <3> QED
      BY <3>1, <3>2
  <2> QED
    BY <1>3, <2>2 DEF Abi!GoAlign, Abi!CAlign
<1> QED
  BY <1>1, <1>2, <1>3

\* The invariant says what the types promise.
LEMMA AbiPromise == AbiInv => TypesAgree
<1> SUFFICES ASSUME AbiInv, pc = "done" PROVE TypesAgree
  BY DEF TypesAgree, Abi!CallsAgree, Abi!LayoutsAgree
<1>1. Len(mapped) = Len(parts) /\ DOMAIN parts = 1 .. Len(parts)
  BY DEF AbiInv
<1>2. \A i \in DOMAIN parts : mapped[i] = GoOf(i) /\ mapped[i].name # Abi!Unsupported
  BY <1>1 DEF AbiInv
<1>3. CASE kind = "function"
  <2>1. \A i \in DOMAIN parts : parts[i] \in Abi!CTypes
    BY <1>1, <1>3 DEF AbiInv
  <2>2. ASSUME NEW i \in DOMAIN parts
        PROVE  LET t == parts[i]  g == mapped[i] IN
               /\ Abi!GoWidth(g) = Abi!CWidth(t)
               /\ Abi!FloatC(t) <=> g.name = "float64"
               /\ Abi!SignedC(t) => g.name \in {"int32", "int64", "int"}
               /\ g.name = "pointer" =>
                    Abi!GoScalarWidth(g.to) = Abi!CWidth([t EXCEPT !.stars = @ - 1])
    <3>1. mapped[i] = Abi!goABIType(parts[i], i = Len(parts))
      BY <1>2, <1>3 DEF GoOf
    <3>2. mapped[i] \in {Abi!goABIType(parts[i], TRUE), Abi!goABIType(parts[i], FALSE)}
      BY <3>1, EitherType, Zenon
    <3> QED
      BY <1>2, <2>1, <3>2, CallTypeAgrees
  <2> QED
    BY <1>3, <2>2 DEF TypesAgree, Abi!CallsAgree, Abi!LayoutsAgree
<1>4. CASE kind = "struct"
  <2>1. \A i \in DOMAIN parts : parts[i] \in Abi!FieldTypes
    BY <1>1, <1>4 DEF AbiInv
  <2>2. \A i \in DOMAIN parts : /\ Abi!GoWidth(mapped[i]) = Abi!CWidth(parts[i])
                                /\ Abi!GoAlign(mapped[i]) = Abi!CAlign(parts[i])
    BY <1>2, <1>4, <2>1, FieldTypeAgrees DEF GoOf
  <2>3. [i \in DOMAIN parts |-> Abi!GoWidth(mapped[i])] = [i \in DOMAIN parts |-> Abi!CWidth(parts[i])]
    BY <2>2
  <2>4. [i \in DOMAIN parts |-> Abi!GoAlign(mapped[i])] = [i \in DOMAIN parts |-> Abi!CAlign(parts[i])]
    BY <2>2
  <2> QED
    BY <1>4, <2>3, <2>4 DEF TypesAgree, Abi!CallsAgree, Abi!LayoutsAgree
<1> QED
  BY <1>3, <1>4 DEF AbiInv

\* It holds at first, and when there is nothing to map.
LEMMA AbiStart == Abi!Init \/ AbiReturned => AbiInv
<1>1. CASE Abi!Init /\ kind = "function"
  <2>1. PICK n \in 0 .. MaxArgs : parts \in [1 .. n + 1 -> Abi!CTypes]
    BY <1>1 DEF Abi!Init
  <2>2. n + 1 \in Nat
    BY <2>1
  <2>3. parts \in Seq(Abi!CTypes)
    BY <2>1, <2>2, SeqDef
  <2> QED
    BY <1>1, <2>3 DEF Abi!Init, AbiInv
<1>2. CASE Abi!Init /\ kind = "struct"
  <2>1. PICK n \in 0 .. MaxFields : parts \in [1 .. n -> Abi!FieldTypes]
    BY <1>2 DEF Abi!Init
  <2>2. n \in Nat
    BY <2>1
  <2>3. parts \in Seq(Abi!FieldTypes)
    BY <2>1, <2>2, SeqDef
  <2> QED
    BY <1>2, <2>3 DEF Abi!Init, AbiInv
<1>3. CASE AbiReturned
  BY <1>3 DEF AbiReturned, AbiInv
<1> QED
  BY <1>1, <1>2, <1>3 DEF Abi!Init

\* One more type, supported.
LEMMA OneMoreType ==
  ASSUME AbiInv, Len(mapped) < Len(parts), UNCHANGED <<kind, parts, pc>>, pc = "map",
         Abi!Mapped(parts[Len(mapped) + 1]).name # Abi!Unsupported,
         mapped' = Append(mapped, Abi!Mapped(parts[Len(mapped) + 1]))
  PROVE  AbiInv'
<1> DEFINE n == Len(mapped)
           g == Abi!Mapped(parts[n + 1])
<1>1. n \in Nat /\ Len(parts) \in Nat /\ n + 1 \in 1 .. Len(parts)
  BY DEF AbiInv
<1>2. (n = Len(parts) - 1) = (n + 1 = Len(parts))
  BY <1>1
<1>3. g = GoOf(n + 1)
  BY <1>2 DEF Abi!Mapped, GoOf
<1>4. g \in AllGoTypes
  <2>1. CASE kind = "struct"
    <3>1. parts[n + 1] \in Abi!FieldTypes
      BY <1>1, <2>1 DEF AbiInv
    <3> QED
      BY <1>3, <2>1, <3>1 DEF GoOf, AllGoTypes
  <2>2. CASE kind = "function"
    <3>1. parts[n + 1] \in Abi!CTypes
      BY <1>1, <2>2 DEF AbiInv
    <3>2. g = Abi!goABIType(parts[n + 1], n + 1 = Len(parts))
      BY <1>3, <2>2 DEF GoOf
    <3>3. g \in {Abi!goABIType(parts[n + 1], TRUE), Abi!goABIType(parts[n + 1], FALSE)}
      BY <3>2, EitherType, Zenon
    <3> QED
      BY <3>1, <3>3 DEF AllGoTypes
  <2> QED
    BY <2>1, <2>2 DEF AbiInv
<1>5. /\ mapped' \in Seq(AllGoTypes) /\ Len(mapped') = n + 1 /\ mapped'[n + 1] = g
      /\ \A i \in 1 .. n : mapped'[i] = mapped[i]
  BY <1>1, <1>4 DEF AbiInv
<1>6. \A i : GoOf(i)' = GoOf(i)
  BY DEF GoOf
<1>7. \A i \in 1 .. n + 1 : mapped'[i] = GoOf(i)' /\ mapped'[i].name # Abi!Unsupported
  BY <1>1, <1>3, <1>5, <1>6 DEF AbiInv
<1> QED
  BY <1>1, <1>5, <1>7 DEF AbiInv

\* Every step keeps it.
LEMMA AbiStep == AbiInv /\ [Abi!Next]_abiVars => AbiInv'
<1> SUFFICES ASSUME AbiInv, [Abi!Next]_abiVars PROVE AbiInv'
  OBVIOUS
<1> DEFINE g == Abi!Mapped(parts[Len(mapped) + 1])
<1>1. ASSUME Abi!goFunctionSignature \/ Abi!nativeLayouts PROVE AbiInv'
  <2>1. pc = "map" /\ Len(mapped) < Len(parts) /\ UNCHANGED <<kind, parts>>
    BY <1>1 DEF Abi!goFunctionSignature, Abi!nativeLayouts
  <2>2. CASE g.name = Abi!Unsupported
    <3>1. pc' = "error" /\ UNCHANGED mapped
      BY <1>1, <2>2 DEF Abi!goFunctionSignature, Abi!nativeLayouts
    <3> QED
      BY <2>1, <3>1 DEF AbiInv, GoOf
  <2>3. CASE g.name # Abi!Unsupported
    <3>1. mapped' = Append(mapped, g) /\ UNCHANGED pc
      BY <1>1, <2>3 DEF Abi!goFunctionSignature, Abi!nativeLayouts
    <3> QED
      BY <2>1, <2>3, <3>1, OneMoreType
  <2> QED
    BY <2>2, <2>3
<1>2. CASE Abi!Finish
  BY <1>2 DEF Abi!Finish, AbiInv, GoOf
<1>3. CASE UNCHANGED abiVars
  BY <1>3 DEF abiVars, AbiInv, GoOf
<1> QED
  BY <1>1, <1>2, <1>3 DEF Abi!Next

\* Each generated type takes the place of its C type: in every call, for
\* pointers of any size, and in every structure, however many fields it has
\* (internal/generator/generator.go:511-760).
THEOREM GeneratedTypesAgree == ConversionsSpec => []TypesAgree
<1>1. ConversionsInit => AbiInv
  BY AbiStart DEF ConversionsInit
<1>2. AbiInv /\ [ConversionsNext]_<<vars, jobVars, statsVars, abiVars>> => AbiInv'
  BY AbiStep DEF ConversionsNext
<1> QED
  BY <1>1, <1>2, AbiPromise, PTL DEF ConversionsSpec

--------------------------------------------------------------------------------
(* The statistics of a domain.                                              *)

\* The indices of group g that the first n parameters name.
Indexes(n, g) ==
  {statsParameters[i].index :
     i \in {j \in 1 .. n : statsParameters[j].group = g /\ Stats!HasIndex(statsParameters[j])}}

StatsKeys == {p.key : p \in StatsParameter}
DeviceEntry == [index : Nat, name : Int, counter : UNION {[D -> Int] : D \in SUBSET StatsKeys}]

\* The entries for group g each tell what was sent for their index, and no
\* two have the same.  Until they are sorted, positions finds the entry of an
\* index; from then on they are in order.
DeviceInv(n, g, es) ==
  /\ es \in Seq(DeviceEntry)
  /\ {es[m].index : m \in 1 .. Len(es)} = Indexes(n, g)
  /\ \A l, m \in 1 .. Len(es) : es[l].index = es[m].index => l = m
  /\ \A m \in 1 .. Len(es) : Stats!Tells(n, es[m].counter, g, es[m].index)
PlacedInv(n, g, es, at) ==
  /\ DOMAIN at = Indexes(n, g)
  /\ \A i \in Indexes(n, g) : at[i] \in 1 .. Len(es) /\ es[at[i]].index = i

StatsInv ==
  /\ statsParameters \in Seq(StatsParameter) /\ statsNext \in 0 .. Len(statsParameters)
  /\ done \in BOOLEAN
  /\ done => statsNext = Len(statsParameters)
  /\ DOMAIN counters = Stats!Plain
  /\ \A g \in Stats!Plain : Stats!Tells(statsNext, counters[g], g, Stats!Missing)
  /\ DOMAIN devices = Stats!Devices /\ DOMAIN positions = Stats!Devices
  /\ \A g \in Stats!Devices :
       /\ DeviceInv(statsNext, g, devices[g])
       /\ ~ done => PlacedInv(statsNext, g, devices[g], positions[g])
       /\ done => \A l, m \in 1 .. Len(devices[g]) :
                    l < m => devices[g][l].index < devices[g][m].index

\* A number that is available is kept as it is: no conversion on its way cuts
\* it.
LEMMA NumberKept ==
  ASSUME NEW p \in StatsParameter, Stats!Available(p)
  PROVE  Stats!NumberOf(p) = p.v /\ p.v \in Int
<1> DEFINE M == 4 * StatsHalf32 * StatsHalf32
<1>1. /\ StatsHalf32 \in Nat \ {0} /\ p.v \in Int /\ p.v >= 0
      /\ p.v < IF p.group = "state" THEN StatsHalf32 ELSE M
  BY StatsAssumption DEF Stats!Available
<1>2. M \in Nat /\ StatsHalf32 <= M
  BY <1>1
<1>3. p.v < M
  BY <1>1, <1>2
<1>4. Stats!Number64(p) = p.v % M
  BY DEF Stats!Number64
<1> HIDE DEF M
<1>5. Stats!Number64(p) = p.v
  BY <1>1, <1>2, <1>3, <1>4
<1>6. CASE p.group = "state"
  <2>1. p.v + StatsHalf32 \in 0 .. 2 * StatsHalf32 - 1
    BY <1>1, <1>6
  <2>2. Stats!Cut32(p.v) = p.v
    BY <1>1, <2>1 DEF Stats!Cut32
  <2> QED
    BY <1>1, <1>5, <1>6, <2>2 DEF Stats!NumberOf
<1> QED
  BY <1>1, <1>5, <1>6 DEF Stats!NumberOf

\* One more parameter settles the counter it is about, and no other.
LEMMA SettlesMore ==
  ASSUME NEW n \in Nat, NEW g, NEW x, NEW k, NEW i \in 1 .. n + 1
  PROVE  /\ Stats!Speaks(n + 1, g, x, k) => (Stats!Settles(n + 1, i, g, x, k) <=> i = n + 1)
         /\ ~ Stats!Speaks(n + 1, g, x, k) =>
              (Stats!Settles(n + 1, i, g, x, k) <=> i \in 1 .. n /\ Stats!Settles(n, i, g, x, k))
BY DEF Stats!Settles

\* Counters that stay as they are stay true while nothing is said of them.
LEMMA TellsKept ==
  ASSUME NEW n \in Nat, NEW f, NEW g, NEW x, Stats!Tells(n, f, g, x),
         \A k \in Stats!Keys : ~ Stats!Speaks(n + 1, g, x, k)
  PROVE  Stats!Tells(n + 1, f, g, x)
<1> SUFFICES ASSUME NEW k \in Stats!Keys
             PROVE  /\ k \in DOMAIN f <=>
                         \E i \in 1 .. n + 1 : Stats!Settles(n + 1, i, g, x, k)
                                              /\ Stats!HasNumber(statsParameters[i])
                    /\ \A i \in 1 .. n + 1 :
                         Stats!Settles(n + 1, i, g, x, k) /\ k \in DOMAIN f => f[k] = statsParameters[i].v
  BY DEF Stats!Tells
<1>1. \A i \in 1 .. n + 1 :
        Stats!Settles(n + 1, i, g, x, k) <=> i \in 1 .. n /\ Stats!Settles(n, i, g, x, k)
  BY SettlesMore
<1>2. /\ k \in DOMAIN f <=>
           \E i \in 1 .. n : Stats!Settles(n, i, g, x, k) /\ Stats!HasNumber(statsParameters[i])
      /\ \A i \in 1 .. n :
           Stats!Settles(n, i, g, x, k) /\ k \in DOMAIN f => f[k] = statsParameters[i].v
  BY DEF Stats!Tells
<1>3. 1 .. n \subseteq 1 .. n + 1
  OBVIOUS
<1> QED
  BY <1>1, <1>2, <1>3

\* A parameter that is put where it belongs tells what it says.
LEMMA TellsPut ==
  ASSUME NEW n \in Nat, NEW f, NEW g, NEW x, Stats!Tells(n, f, g, x),
         NEW p \in StatsParameter, p = statsParameters[n + 1],
         p.group = g, g \in Stats!Devices => p.index = x, g = "state" => Stats!HasNumber(p)
  PROVE  Stats!Tells(n + 1, Stats!Put(f, p), g, x)
<1> DEFINE f2 == Stats!Put(f, p)
<1> SUFFICES ASSUME NEW k \in Stats!Keys
             PROVE  /\ k \in DOMAIN f2 <=>
                         \E i \in 1 .. n + 1 : Stats!Settles(n + 1, i, g, x, k)
                                              /\ Stats!HasNumber(statsParameters[i])
                    /\ \A i \in 1 .. n + 1 :
                         Stats!Settles(n + 1, i, g, x, k) /\ k \in DOMAIN f2 => f2[k] = statsParameters[i].v
  BY DEF Stats!Tells
<1>1. Stats!Available(p) <=> Stats!HasNumber(p)
  BY DEF Stats!Available, Stats!HasNumber
<1>2. CASE k = p.key
  <2>1. Stats!Speaks(n + 1, g, x, k)
    BY <1>2 DEF Stats!Speaks
  <2>2. \A i \in 1 .. n + 1 : Stats!Settles(n + 1, i, g, x, k) <=> i = n + 1
    BY <2>1, SettlesMore
  <2>3. k \in DOMAIN f2 <=> Stats!HasNumber(p)
    BY <1>1, <1>2 DEF Stats!Put
  <2>4. k \in DOMAIN f2 => f2[k] = p.v
    BY <1>1, <1>2, <2>3, NumberKept DEF Stats!Put
  <2> QED
    BY <2>2, <2>3, <2>4
<1>3. CASE k # p.key
  <2>1. ~ Stats!Speaks(n + 1, g, x, k)
    BY <1>3 DEF Stats!Speaks
  <2>2. \A i \in 1 .. n + 1 :
          Stats!Settles(n + 1, i, g, x, k) <=> i \in 1 .. n /\ Stats!Settles(n, i, g, x, k)
    BY <2>1, SettlesMore
  <2>3. (k \in DOMAIN f2 <=> k \in DOMAIN f) /\ (k \in DOMAIN f2 => f2[k] = f[k])
    BY <1>3 DEF Stats!Put
  <2>4. /\ k \in DOMAIN f <=>
             \E i \in 1 .. n : Stats!Settles(n, i, g, x, k) /\ Stats!HasNumber(statsParameters[i])
        /\ \A i \in 1 .. n :
             Stats!Settles(n, i, g, x, k) /\ k \in DOMAIN f => f[k] = statsParameters[i].v
    BY DEF Stats!Tells
  <2>5. 1 .. n \subseteq 1 .. n + 1
    OBVIOUS
  <2> QED
    BY <2>2, <2>3, <2>4, <2>5
<1> QED
  BY <1>2, <1>3

\* No counters are true of a device nothing was said of.
LEMMA NothingTold ==
  ASSUME NEW n \in Nat, NEW g \in Stats!Devices, NEW x, Stats!HasIndex([index |-> x]),
         x \notin Indexes(n, g)
  PROVE  Stats!Tells(n, << >>, g, x)
<1>1. ASSUME NEW i \in 1 .. n, NEW k PROVE ~ Stats!Speaks(i, g, x, k)
  BY DEF Stats!Speaks, Indexes, Stats!HasIndex
<1>2. \A k : k \notin DOMAIN << >>
  OBVIOUS
<1> QED
  BY <1>1, <1>2 DEF Stats!Tells, Stats!Settles

\* One more parameter adds its own index, where it has one.
LEMMA IndexesMore ==
  ASSUME NEW n \in Nat, NEW g, NEW p, p = statsParameters[n + 1]
  PROVE  Indexes(n + 1, g) =
           Indexes(n, g) \cup (IF p.group = g /\ Stats!HasIndex(p) THEN {p.index} ELSE {})
<1>1. 1 .. n + 1 = (1 .. n) \cup {n + 1}
  OBVIOUS
<1> QED
  BY <1>1 DEF Indexes

\* The statistics count as the library does.
LEMMA SameCount == \A S : Stats!Cardinality(S) = Cardinality(S)
BY Zenon DEF Stats!Cardinality, Cardinality, Stats!IsFiniteSet, IsFiniteSet

\* The indices of a list of entries are numbers.
LEMMA EntryIndex ==
  ASSUME NEW es \in Seq(DeviceEntry)
  PROVE  /\ Len(es) \in Nat
         /\ \A m \in 1 .. Len(es) : es[m] \in DeviceEntry /\ es[m].index \in Int
<1>1. Len(es) \in Nat /\ \A m \in 1 .. Len(es) : es[m] \in DeviceEntry
  OBVIOUS
<1>2. \A e \in DeviceEntry : e.index \in Nat
  BY DEF DeviceEntry
<1> QED
  BY <1>1, <1>2

\* How many entries there are below x grows with x, and strictly past an index of the list.
LEMMA BelowGrows ==
  ASSUME NEW es \in Seq(DeviceEntry), NEW x \in Int, NEW y \in Int
  PROVE  /\ Cardinality(Stats!Below(es, x)) \in Nat
         /\ x <= y => Cardinality(Stats!Below(es, x)) <= Cardinality(Stats!Below(es, y))
         /\ \A a \in 1 .. Len(es) :
              es[a].index = x /\ x < y => Cardinality(Stats!Below(es, x)) < Cardinality(Stats!Below(es, y))
<1>1. Len(es) \in Nat /\ \A j \in 1 .. Len(es) : es[j].index \in Int
  BY EntryIndex
<1>2. IsFiniteSet(1 .. Len(es))
  BY <1>1, FS_Interval
<1>3. ASSUME NEW z \in Int PROVE IsFiniteSet(Stats!Below(es, z)) /\ Cardinality(Stats!Below(es, z)) \in Nat
  <2>1. Stats!Below(es, z) \in SUBSET (1 .. Len(es))
    BY DEF Stats!Below
  <2> QED
    BY <1>2, <2>1, FS_Subset, FS_CardinalityType
<1>4. x <= y => Stats!Below(es, x) \in SUBSET Stats!Below(es, y)
  BY <1>1 DEF Stats!Below
<1>5. x <= y => Cardinality(Stats!Below(es, x)) <= Cardinality(Stats!Below(es, y))
  BY <1>3, <1>4, FS_Subset
<1>6. ASSUME NEW a \in 1 .. Len(es), es[a].index = x, x < y
      PROVE  Cardinality(Stats!Below(es, x)) < Cardinality(Stats!Below(es, y))
  <2>1. a \in Stats!Below(es, y) /\ a \notin Stats!Below(es, x)
    BY <1>6 DEF Stats!Below
  <2>2. /\ Stats!Below(es, x) \in SUBSET Stats!Below(es, y) /\ IsFiniteSet(Stats!Below(es, y))
        /\ Stats!Below(es, x) # Stats!Below(es, y)
    <3>1. x <= y
      BY <1>6
    <3> QED
      BY <1>3, <1>4, <2>1, <3>1
  <2>3. Cardinality(Stats!Below(es, x)) # Cardinality(Stats!Below(es, y))
    BY <2>2, FS_Subset
  <2> QED
    BY <1>3, <1>5, <1>6, <2>3
<1> QED
  BY <1>3, <1>5, <1>6

\* With no index twice there is an entry at each place.
LEMMA EveryPlace ==
  ASSUME NEW es \in Seq(DeviceEntry),
         \A l, m \in 1 .. Len(es) : es[l].index = es[m].index => l = m
  PROVE  /\ \A m \in 1 .. Len(es) : Cardinality(Stats!Below(es, es[m].index)) \in 0 .. Len(es) - 1
         /\ \A n \in 1 .. Len(es) :
              \E m \in 1 .. Len(es) : Cardinality(Stats!Below(es, es[m].index)) = n - 1
<1> DEFINE N == Len(es)
           place == [m \in 1 .. N |-> Cardinality(Stats!Below(es, es[m].index)) + 1]
<1>1. N \in Nat /\ \A m \in 1 .. N : es[m].index \in Int
  BY EntryIndex
<1>2. IsFiniteSet(1 .. N) /\ Cardinality(1 .. N) = N
  BY <1>1, FS_Interval
<1>3. ASSUME NEW m \in 1 .. N PROVE Cardinality(Stats!Below(es, es[m].index)) \in 0 .. N - 1
  <2>1. Stats!Below(es, es[m].index) \in SUBSET ((1 .. N) \ {m})
    BY <1>1 DEF Stats!Below
  <2>2. IsFiniteSet((1 .. N) \ {m}) /\ Cardinality((1 .. N) \ {m}) = N - 1
    BY <1>2, FS_RemoveElement
  <2>3. Cardinality(Stats!Below(es, es[m].index)) <= N - 1
    BY <2>1, <2>2, FS_Subset
  <2> QED
    BY <1>1, <2>3, BelowGrows
<1>4. ASSUME NEW l \in 1 .. N, NEW m \in 1 .. N, place[l] = place[m] PROVE l = m
  <2> DEFINE x == es[l].index
             y == es[m].index
  <2>1. x \in Int /\ y \in Int
    BY <1>1
  <2>2. Cardinality(Stats!Below(es, x)) = Cardinality(Stats!Below(es, y))
    BY <1>1, <1>3, <1>4
  <2>3. ~ (x < y) /\ ~ (y < x)
    <3>1. x < y => Cardinality(Stats!Below(es, x)) < Cardinality(Stats!Below(es, y))
      BY <2>1, BelowGrows
    <3>2. y < x => Cardinality(Stats!Below(es, y)) < Cardinality(Stats!Below(es, x))
      BY <2>1, BelowGrows
    <3> QED
      BY <1>3, <2>2, <3>1, <3>2
  <2> QED
    BY <2>1, <2>3
<1>5. place \in [1 .. N -> 1 .. N]
  BY <1>1, <1>3
<1>6. place \in Injection(1 .. N, 1 .. N)
  BY <1>4, <1>5 DEF Injection, IsInjective
<1>7. place \in Surjection(1 .. N, 1 .. N)
  BY <1>2, <1>6, FS_Injection
<1>8. ASSUME NEW n \in 1 .. N PROVE \E m \in 1 .. N : Cardinality(Stats!Below(es, es[m].index)) = n - 1
  <2>1. PICK m \in 1 .. N : place[m] = n
    BY <1>7 DEF Surjection
  <2> QED
    BY <1>1, <1>3, <2>1
<1> QED
  BY <1>3, <1>8

\* Sorting keeps the entries, each once, and puts them in order.
LEMMA SortedEntries ==
  ASSUME NEW es \in Seq(DeviceEntry),
         \A l, m \in 1 .. Len(es) : es[l].index = es[m].index => l = m
  PROVE  LET s == Stats!Sorted(es) IN
         /\ s \in Seq(DeviceEntry) /\ Len(s) = Len(es)
         /\ \A n \in 1 .. Len(es) : \E m \in 1 .. Len(es) : s[n] = es[m]
         /\ \A m \in 1 .. Len(es) : \E n \in 1 .. Len(es) : s[n] = es[m]
         /\ \A l, m \in 1 .. Len(es) : l < m => s[l].index < s[m].index
<1> DEFINE N == Len(es)
           E == {es[i] : i \in 1 .. N}
           s == Stats!Sorted(es)
<1>1. N \in Nat /\ \A m \in 1 .. N : es[m] \in DeviceEntry /\ es[m].index \in Int
  BY EntryIndex
<1>2. s = [n \in 1 .. N |-> Stats!EntryAt(es, n)]
  BY DEF Stats!Sorted
<1>3. ASSUME NEW n \in 1 .. N PROVE s[n] \in E /\ Cardinality(Stats!Below(es, s[n].index)) = n - 1
  <2>1. \E e \in E : Cardinality(Stats!Below(es, e.index)) = n - 1
    BY EveryPlace
  <2>2. Stats!EntryAt(es, n) \in E /\ Cardinality(Stats!Below(es, Stats!EntryAt(es, n).index)) = n - 1
    BY <2>1, SameCount DEF Stats!EntryAt
  <2> QED
    BY <1>2, <2>2
<1>4. \A n \in 1 .. N : s[n] \in DeviceEntry /\ s[n].index \in Int
  BY <1>1, <1>3
<1>5. s \in [1 .. N -> DeviceEntry]
  BY <1>2, <1>4
<1>6. s \in Seq(DeviceEntry) /\ Len(s) = N
  BY <1>1, <1>5, SeqDef
<1>7. ASSUME NEW l \in 1 .. N, NEW m \in 1 .. N, l < m PROVE s[l].index < s[m].index
  <2>1. Cardinality(Stats!Below(es, s[l].index)) = l - 1 /\ Cardinality(Stats!Below(es, s[m].index)) = m - 1
    BY <1>3
  <2>2. s[m].index <= s[l].index =>
          Cardinality(Stats!Below(es, s[m].index)) <= Cardinality(Stats!Below(es, s[l].index))
    BY <1>4, BelowGrows
  <2> QED
    BY <1>1, <1>4, <1>7, <2>1, <2>2
<1>8. ASSUME NEW m \in 1 .. N PROVE \E n \in 1 .. N : s[n] = es[m]
  <2> DEFINE n == Cardinality(Stats!Below(es, es[m].index)) + 1
  <2>1. n \in 1 .. N /\ n - 1 = Cardinality(Stats!Below(es, es[m].index))
    <3>1. Cardinality(Stats!Below(es, es[m].index)) \in 0 .. N - 1
      BY EveryPlace
    <3> QED
      BY <1>1, <3>1
  <2>2. PICK l \in 1 .. N : s[n] = es[l]
    BY <1>3, <2>1
  <2>3. Cardinality(Stats!Below(es, es[l].index)) = Cardinality(Stats!Below(es, es[m].index))
    BY <1>3, <2>1, <2>2
  <2>4. es[l].index = es[m].index
    <3>1. /\ es[l].index < es[m].index =>
               Cardinality(Stats!Below(es, es[l].index)) < Cardinality(Stats!Below(es, es[m].index))
          /\ Cardinality(Stats!Below(es, es[l].index)) \in Nat
      BY <1>1, BelowGrows
    <3>2. es[m].index < es[l].index =>
            Cardinality(Stats!Below(es, es[m].index)) < Cardinality(Stats!Below(es, es[l].index))
      BY <1>1, BelowGrows
    <3> QED
      BY <1>1, <2>3, <3>1, <3>2
  <2> QED
    BY <2>1, <2>2, <2>4
<1> QED
  BY <1>3, <1>6, <1>7, <1>8

\* An entry that takes one more parameter keeps its index, and tells it when it
\* is about that index.
LEMMA EntryUpdated ==
  ASSUME NEW n \in Nat, NEW g \in Stats!Devices, NEW e \in DeviceEntry,
         Stats!Tells(n, e.counter, g, e.index),
         NEW p \in StatsParameter, p = statsParameters[n + 1], p.group = g, p.index = e.index
  PROVE  LET u == Stats!Updated(e, p) IN
         u \in DeviceEntry /\ u.index = e.index /\ Stats!Tells(n + 1, u.counter, g, u.index)
<1> DEFINE u == Stats!Updated(e, p)
           Maps == UNION {[D -> Int] : D \in SUBSET StatsKeys}
<1>1. /\ e = [index |-> e.index, name |-> e.name, counter |-> e.counter]
      /\ e.index \in Nat /\ e.name \in Int /\ e.counter \in Maps
  BY DEF DeviceEntry
<1>2. p.v \in Int /\ p.key \in StatsKeys
  BY StatsAssumption DEF StatsKeys
<1>3. g # "state"
  BY DEF Stats!Devices
<1>4. CASE p.key = "name"
  <2>1. /\ u = [index |-> e.index, name |-> u.name, counter |-> e.counter]
        /\ u.name \in Int
    BY <1>1, <1>2, <1>4 DEF Stats!Updated
  <2>2. u \in DeviceEntry
    BY <1>1, <2>1 DEF DeviceEntry
  <2>3. \A k \in Stats!Keys : ~ Stats!Speaks(n + 1, g, e.index, k)
    BY <1>4 DEF Stats!Speaks, Stats!Keys
  <2> QED
    BY <2>1, <2>2, <2>3, TellsKept
<1>5. CASE p.key # "name" /\ Stats!Modelled(p)
  <2> DEFINE f == Stats!Put(e.counter, p)
  <2>1. u = [index |-> e.index, name |-> e.name, counter |-> f]
    BY <1>1, <1>5 DEF Stats!Updated
  <2>2. f \in Maps
    <3>1. PICK D \in SUBSET StatsKeys : e.counter \in [D -> Int]
      BY <1>1
    <3>2. CASE Stats!Available(p)
      <4>1. f \in [D \cup {p.key} -> Int] /\ D \cup {p.key} \in SUBSET StatsKeys
        BY <1>2, <3>1, <3>2, NumberKept DEF Stats!Put
      <4> QED
        BY <4>1
    <3>3. CASE ~ Stats!Available(p)
      <4>1. f \in [D \ {p.key} -> Int] /\ D \ {p.key} \in SUBSET StatsKeys
        BY <3>1, <3>3 DEF Stats!Put
      <4> QED
        BY <4>1
    <3> QED
      BY <3>2, <3>3
  <2>3. u \in DeviceEntry
    BY <1>1, <2>1, <2>2 DEF DeviceEntry
  <2>4. Stats!Tells(n + 1, f, g, e.index)
    BY <1>3, TellsPut
  <2> QED
    BY <2>1, <2>3, <2>4
<1>6. CASE p.key # "name" /\ ~ Stats!Modelled(p)
  <2>1. u = e
    BY <1>6 DEF Stats!Updated
  <2>2. \A k \in Stats!Keys : ~ Stats!Speaks(n + 1, g, e.index, k)
    BY <1>6 DEF Stats!Speaks, Stats!Keys, Stats!Modelled
  <2> QED
    BY <2>1, <2>2, TellsKept
<1> QED
  BY <1>4, <1>5, <1>6

\* A parameter that is not for a device of group g changes nothing there.
LEMMA DeviceUntouched ==
  ASSUME NEW n \in Nat, NEW g \in Stats!Devices, NEW es, NEW at, DeviceInv(n, g, es),
         NEW p \in StatsParameter, p = statsParameters[n + 1], ~ (p.group = g /\ Stats!HasIndex(p))
  PROVE  /\ DeviceInv(n + 1, g, es)
         /\ PlacedInv(n, g, es, at) => PlacedInv(n + 1, g, es, at)
<1>1. Indexes(n + 1, g) = Indexes(n, g)
  BY IndexesMore
<1>2. \A m \in 1 .. Len(es) : es[m] \in DeviceEntry
  BY EntryIndex DEF DeviceInv
<1>3. \A e \in DeviceEntry : e.index \in Nat
  BY DEF DeviceEntry
<1>4. ASSUME NEW m \in 1 .. Len(es) PROVE Stats!Tells(n + 1, es[m].counter, g, es[m].index)
  <2>1. \A k \in Stats!Keys : ~ Stats!Speaks(n + 1, g, es[m].index, k)
    BY <1>2, <1>3 DEF Stats!Speaks, Stats!HasIndex
  <2>2. Stats!Tells(n, es[m].counter, g, es[m].index)
    BY DEF DeviceInv
  <2> QED
    BY <2>1, <2>2, TellsKept
<1> QED
  BY <1>1, <1>4 DEF DeviceInv, PlacedInv

\* Where a device is found among the entries es with the places at, what its
\* entry is there, and what the entries and the places are when it has one more
\* parameter.
PlaceOf(es, at, x) == IF x \in DOMAIN at THEN at[x] ELSE Len(es) + 1
EntryOf(es, at, x) ==
  IF PlaceOf(es, at, x) <= Len(es) THEN es[PlaceOf(es, at, x)]
  ELSE [index |-> x, name |-> 0, counter |-> << >>]
EntriesWith(es, at, p) ==
  LET q == PlaceOf(es, at, p.index)
      u == Stats!Updated(EntryOf(es, at, p.index), p)
  IN IF q <= Len(es) THEN [es EXCEPT ![q] = u] ELSE Append(es, u)
PlacesWith(es, at, p) ==
  [i \in DOMAIN at \cup {p.index} |-> IF i = p.index THEN PlaceOf(es, at, i) ELSE at[i]]

\* A parameter for a device goes to the entry of its index, which is made when
\* there is none.
LEMMA DeviceTouched ==
  ASSUME NEW n \in Nat, NEW g \in Stats!Devices, NEW es, NEW at,
         DeviceInv(n, g, es), PlacedInv(n, g, es, at),
         NEW p \in StatsParameter, p = statsParameters[n + 1], p.group = g, Stats!HasIndex(p)
  PROVE  /\ DeviceInv(n + 1, g, EntriesWith(es, at, p))
         /\ PlacedInv(n + 1, g, EntriesWith(es, at, p), PlacesWith(es, at, p))
<1> DEFINE q == PlaceOf(es, at, p.index)
           e == EntryOf(es, at, p.index)
           es2 == EntriesWith(es, at, p)
           at2 == PlacesWith(es, at, p)
<1>a. q = IF p.index \in DOMAIN at THEN at[p.index] ELSE Len(es) + 1
  BY DEF PlaceOf
<1>b. e = IF q <= Len(es) THEN es[q] ELSE [index |-> p.index, name |-> 0, counter |-> << >>]
  BY DEF EntryOf
<1>c. es2 = IF q <= Len(es) THEN [es EXCEPT ![q] = Stats!Updated(e, p)]
            ELSE Append(es, Stats!Updated(e, p))
  BY DEF EntriesWith
<1>d. at2 = [i \in DOMAIN at \cup {p.index} |-> IF i = p.index THEN q ELSE at[i]]
  BY DEF PlacesWith
<1> HIDE DEF q, e, es2, at2
<1> DEFINE x == p.index
           u == Stats!Updated(e, p)
           N == Len(es)
<1>1. /\ es \in Seq(DeviceEntry) /\ N \in Nat /\ x \in Nat
      /\ \A m \in 1 .. N : es[m] \in DeviceEntry /\ es[m].index \in Int
  BY EntryIndex, StatsAssumption DEF DeviceInv, Stats!HasIndex
<1>2. DOMAIN at = Indexes(n, g) /\ Indexes(n + 1, g) = Indexes(n, g) \cup {x}
  BY IndexesMore DEF PlacedInv
<1>3. q \in 1 .. N <=> x \in Indexes(n, g)
  BY <1>a, <1>1, <1>2 DEF PlacedInv
<1>4. e \in DeviceEntry /\ e.index = x /\ Stats!Tells(n, e.counter, g, x)
  <2>1. CASE x \in Indexes(n, g)
    <3>1. q \in 1 .. N /\ e = es[q] /\ es[q].index = x
      BY <1>a, <1>b, <1>1, <1>2, <2>1 DEF PlacedInv
    <3> QED
      BY <1>1, <3>1 DEF DeviceInv
  <2>2. CASE x \notin Indexes(n, g)
    <3>1. e = [index |-> x, name |-> 0, counter |-> << >>]
      BY <1>a, <1>b, <1>1, <1>2, <2>2
    <3>2. << >> \in [{} -> Int] /\ {} \in SUBSET StatsKeys
      OBVIOUS
    <3>3. e \in DeviceEntry
      <4>1. << >> \in UNION {[D -> Int] : D \in SUBSET StatsKeys}
        BY <3>2
      <4>2. \A c \in UNION {[D -> Int] : D \in SUBSET StatsKeys} :
              [index |-> x, name |-> 0, counter |-> c] \in DeviceEntry
        BY <1>1 DEF DeviceEntry
      <4> QED
        BY <3>1, <4>1, <4>2, Zenon
    <3>4. Stats!Tells(n, << >>, g, x)
      BY <1>1, <2>2, NothingTold DEF Stats!HasIndex
    <3> QED
      BY <3>1, <3>3, <3>4
  <2> QED
    BY <2>1, <2>2
<1>5. u \in DeviceEntry /\ u.index = x /\ Stats!Tells(n + 1, u.counter, g, x)
  BY <1>4, EntryUpdated
<1>6. \A l, m \in 1 .. N : es[l].index = es[m].index => l = m
  BY DEF DeviceInv
<1>7. {es[m].index : m \in 1 .. N} = Indexes(n, g)
  BY DEF DeviceInv
<1>8. ASSUME NEW m \in 1 .. N, es[m].index # x
      PROVE  Stats!Tells(n + 1, es[m].counter, g, es[m].index)
  <2>1. \A k \in Stats!Keys : ~ Stats!Speaks(n + 1, g, es[m].index, k)
    BY <1>8 DEF Stats!Speaks
  <2>2. Stats!Tells(n, es[m].counter, g, es[m].index)
    BY DEF DeviceInv
  <2> QED
    BY <2>1, <2>2, TellsKept
<1> HIDE DEF u
<1>9. CASE x \in Indexes(n, g)
  <2>1. q \in 1 .. N /\ q = at[x] /\ es[q].index = x /\ es2 = [es EXCEPT ![q] = u]
    BY <1>a, <1>c, <1>1, <1>2, <1>9 DEF PlacedInv, u
  <2>2. es2 \in Seq(DeviceEntry) /\ Len(es2) = N
    BY <1>1, <1>5, <2>1
  <2>3. es2[q] = u /\ \A m \in 1 .. N : m # q => es2[m] = es[m]
    BY <1>1, <2>1
  <2>4. \A m \in 1 .. N : es2[m].index = es[m].index
    BY <1>5, <2>1, <2>3
  <2>5. {es2[m].index : m \in 1 .. N} = Indexes(n + 1, g)
    BY <1>2, <1>7, <1>9, <2>4
  <2>6. ASSUME NEW m \in 1 .. N PROVE Stats!Tells(n + 1, es2[m].counter, g, es2[m].index)
    <3>1. CASE m = q
      BY <1>5, <2>3, <3>1
    <3>2. CASE m # q
      <4>1. es[m].index # x
        BY <1>6, <2>1, <3>2
      <4> QED
        BY <1>8, <2>3, <3>2, <4>1
    <3> QED
      BY <3>1, <3>2
  <2>7. DeviceInv(n + 1, g, es2)
    <3>1. \A l, m \in 1 .. N : es2[l].index = es2[m].index => l = m
      BY <1>6, <2>4
    <3> QED
      BY <2>2, <2>5, <2>6, <3>1 DEF DeviceInv
  <2>8. at2 = [i \in Indexes(n, g) |-> IF i = x THEN q ELSE at[i]]
    BY <1>d, <1>2, <1>9
  <2>9. PlacedInv(n + 1, g, es2, at2)
    <3>1. DOMAIN at2 = Indexes(n + 1, g)
      BY <1>2, <1>9, <2>8
    <3>2. ASSUME NEW i \in Indexes(n, g) PROVE at2[i] \in 1 .. N /\ es2[at2[i]].index = i
      <4>1. at2[i] = at[i]
        BY <2>1, <2>8
      <4>2. at[i] \in 1 .. N /\ es[at[i]].index = i
        BY DEF PlacedInv
      <4> QED
        BY <2>4, <4>1, <4>2
    <3> QED
      BY <1>2, <1>9, <2>2, <3>1, <3>2 DEF PlacedInv
  <2> QED
    BY <2>7, <2>9 DEF es2, at2
<1>10. CASE x \notin Indexes(n, g)
  <2>1. q = N + 1 /\ es2 = Append(es, u)
    BY <1>a, <1>c, <1>1, <1>2, <1>10 DEF u
  <2>2. es2 \in Seq(DeviceEntry) /\ Len(es2) = N + 1
    BY <1>1, <1>5, <2>1
  <2>3. es2[N + 1] = u /\ \A m \in 1 .. N : es2[m] = es[m]
    BY <1>1, <1>5, <2>1
  <2>4. 1 .. N + 1 = (1 .. N) \cup {N + 1}
    BY <1>1
  <2>5. \A m \in 1 .. N : es[m].index \in Indexes(n, g) /\ es[m].index # x
    BY <1>7, <1>10
  <2>6. {es2[m].index : m \in 1 .. N + 1} = Indexes(n + 1, g)
    <3>1. {es2[m].index : m \in 1 .. N + 1} = {es2[m].index : m \in 1 .. N} \cup {es2[N + 1].index}
      BY <2>4
    <3>2. {es2[m].index : m \in 1 .. N} = {es[m].index : m \in 1 .. N}
      BY <2>3
    <3> QED
      BY <1>2, <1>5, <1>7, <2>3, <3>1, <3>2
  <2>7. \A l, m \in 1 .. N + 1 : es2[l].index = es2[m].index => l = m
    BY <1>5, <1>6, <2>3, <2>4, <2>5
  <2>8. \A m \in 1 .. N + 1 : Stats!Tells(n + 1, es2[m].counter, g, es2[m].index)
    BY <1>5, <1>8, <2>3, <2>4, <2>5
  <2>9. DeviceInv(n + 1, g, es2)
    BY <2>2, <2>6, <2>7, <2>8 DEF DeviceInv
  <2>10. at2 = [i \in Indexes(n, g) \cup {x} |-> IF i = x THEN N + 1 ELSE at[i]]
    BY <1>d, <1>2, <2>1
  <2>11. ASSUME NEW i \in Indexes(n, g) \cup {x}
         PROVE  at2[i] \in 1 .. N + 1 /\ es2[at2[i]].index = i
    <3>1. CASE i = x
      BY <1>1, <1>5, <2>3, <2>10, <3>1
    <3>2. CASE i # x
      <4>1. at2[i] = at[i] /\ at[i] \in 1 .. N /\ es[at[i]].index = i
        BY <2>10, <2>11, <3>2 DEF PlacedInv
      <4> QED
        BY <1>1, <2>3, <4>1
    <3> QED
      BY <3>1, <3>2
  <2>12. PlacedInv(n + 1, g, es2, at2)
    BY <1>2, <2>2, <2>10, <2>11 DEF PlacedInv
  <2> QED
    BY <2>9, <2>12 DEF es2, at2
<1> QED
  BY <1>9, <1>10

\* It holds at first, and when there is nothing to decode.
LEMMA StatsStart == Stats!Init \/ StatsReturned => StatsInv
<1> SUFFICES ASSUME Stats!Init \/ StatsReturned PROVE StatsInv
  OBVIOUS
<1>1. statsParameters \in Seq(StatsParameter) /\ statsNext = 0
  <2>1. CASE Stats!Init
    <3>1. PICK n \in 0 .. StatsLength : statsParameters \in [1 .. n -> StatsParameter]
      BY <2>1 DEF Stats!Init
    <3>2. n \in Nat
      BY <3>1
    <3> QED
      BY <2>1, <3>1, <3>2, SeqDef DEF Stats!Init
  <2>2. CASE StatsReturned
    BY <2>2 DEF StatsReturned
  <2> QED
    BY <2>1, <2>2
<1>2. statsNext \in 0 .. Len(statsParameters)
  BY <1>1
<1>3. done \in BOOLEAN /\ (done => statsNext = Len(statsParameters))
  BY <1>1 DEF Stats!Init, StatsReturned
<1>4. /\ counters = [g \in Stats!Plain |-> << >>]
      /\ devices = [g \in Stats!Devices |-> << >>] /\ positions = [g \in Stats!Devices |-> << >>]
  BY DEF Stats!Init, StatsReturned
<1>5. \A g, x : Stats!Tells(0, << >>, g, x)
  <2>1. \A k : k \notin DOMAIN << >>
    OBVIOUS
  <2> QED
    BY <2>1 DEF Stats!Tells
<1>6. \A g : Indexes(0, g) = {}
  BY DEF Indexes
<1>7. \A g : DeviceInv(0, g, << >>) /\ PlacedInv(0, g, << >>, << >>)
  <2>1. << >> \in Seq(DeviceEntry) /\ Len(<< >>) = 0 /\ DOMAIN << >> = {} /\ 1 .. 0 = {}
    OBVIOUS
  <2> QED
    BY <1>6, <2>1 DEF DeviceInv, PlacedInv
<1>8. \A g \in Stats!Plain : Stats!Tells(statsNext, counters[g], g, Stats!Missing)
  BY <1>1, <1>4, <1>5
<1>9. ASSUME NEW g \in Stats!Devices
      PROVE  /\ DeviceInv(statsNext, g, devices[g])
             /\ ~ done => PlacedInv(statsNext, g, devices[g], positions[g])
             /\ done => \A l, m \in 1 .. Len(devices[g]) :
                          l < m => devices[g][l].index < devices[g][m].index
  <2>1. devices[g] = << >> /\ positions[g] = << >> /\ Len(devices[g]) = 0
    BY <1>4
  <2> QED
    BY <1>1, <1>7, <2>1
<1> QED
  BY <1>1, <1>2, <1>3, <1>4, <1>8, <1>9 DEF StatsInv

\* The invariant of the next state, while the parameters stay.
LEMMA StatsPrime ==
  ASSUME StatsInv, statsParameters' = statsParameters, statsNext' \in 0 .. Len(statsParameters),
         done' \in BOOLEAN, done' => statsNext' = Len(statsParameters),
         DOMAIN counters' = Stats!Plain, DOMAIN devices' = Stats!Devices,
         DOMAIN positions' = Stats!Devices,
         \A g \in Stats!Plain : Stats!Tells(statsNext', counters'[g], g, Stats!Missing),
         \A g \in Stats!Devices :
           /\ DeviceInv(statsNext', g, devices'[g])
           /\ ~ done' => PlacedInv(statsNext', g, devices'[g], positions'[g])
           /\ done' => \A l, m \in 1 .. Len(devices'[g]) :
                        l < m => devices'[g][l].index < devices'[g][m].index
  PROVE  StatsInv'
<1>1. \A n, f, g, x : Stats!Tells(n, f, g, x)' = Stats!Tells(n, f, g, x)
  BY DEF Stats!Tells, Stats!Settles, Stats!Speaks
<1>2. \A n, g : Indexes(n, g)' = Indexes(n, g)
  BY DEF Indexes
<1> QED
  BY <1>1, <1>2 DEF StatsInv, DeviceInv, PlacedInv

\* One more parameter keeps it, whatever the parameter is.
LEMMA StatsDecode == StatsInv /\ Stats!decodeDomainStats => StatsInv'
<1> SUFFICES ASSUME StatsInv, Stats!decodeDomainStats PROVE StatsInv'
  OBVIOUS
<1> DEFINE n == statsNext
           p == statsParameters[n + 1]
<1>1. /\ statsParameters \in Seq(StatsParameter) /\ n \in Nat /\ n < Len(statsParameters)
      /\ statsNext' = n + 1 /\ UNCHANGED <<statsParameters, done>>
      /\ Stats!DecodePlain(p) \/ Stats!DecodeDevice(p) \/ Stats!DecodeOther(p)
  BY DEF StatsInv, Stats!decodeDomainStats
<1>2. p \in StatsParameter /\ n + 1 \in 0 .. Len(statsParameters)
  BY <1>1
<1>3. ~ done /\ done \in BOOLEAN
  BY <1>1 DEF StatsInv
<1>4. /\ DOMAIN counters = Stats!Plain /\ DOMAIN devices = Stats!Devices
      /\ DOMAIN positions = Stats!Devices
  BY DEF StatsInv
<1>5. \A g \in Stats!Plain : Stats!Tells(n, counters[g], g, Stats!Missing)
  BY DEF StatsInv
<1>6. \A g \in Stats!Devices :
        DeviceInv(n, g, devices[g]) /\ PlacedInv(n, g, devices[g], positions[g])
  BY <1>3 DEF StatsInv
<1>7. \A g \in Stats!Plain : g \notin Stats!Devices /\ g # "other"
  BY DEF Stats!Plain, Stats!Devices
<1>8. \A g \in Stats!Devices : g # "other"
  BY DEF Stats!Devices
<1>9. DOMAIN counters' = Stats!Plain /\ DOMAIN devices' = Stats!Devices /\ DOMAIN positions' = Stats!Devices
  BY <1>1, <1>4 DEF Stats!DecodePlain, Stats!DecodeDevice, Stats!DecodeOther
<1>10. ASSUME NEW g \in Stats!Plain PROVE Stats!Tells(n + 1, counters'[g], g, Stats!Missing)
  <2>1. CASE counters'[g] = counters[g] /\ (\A k \in Stats!Keys : ~ Stats!Speaks(n + 1, g, Stats!Missing, k))
    BY <1>1, <1>5, <2>1, TellsKept
  <2>2. CASE p.group # g
    <3>1. counters'[g] = counters[g]
      BY <1>1, <1>4, <2>2 DEF Stats!DecodePlain, Stats!DecodeDevice, Stats!DecodeOther
    <3> QED
      BY <2>1, <2>2, <3>1 DEF Stats!Speaks
  <2>3. CASE p.group = g
    <3>1. Stats!DecodePlain(p)
      BY <1>1, <1>7, <2>3 DEF Stats!DecodeDevice, Stats!DecodeOther
    <3>2. CASE g = "state" /\ ~ Stats!Available(p)
      <4>1. counters'[g] = counters[g]
        BY <2>3, <3>1, <3>2 DEF Stats!DecodePlain
      <4> QED
        BY <2>1, <3>2, <4>1 DEF Stats!Speaks, Stats!Available, Stats!HasNumber
    <3>3. CASE ~ (g = "state" /\ ~ Stats!Available(p)) /\ Stats!Modelled(p)
      <4>1. counters'[g] = Stats!Put(counters[g], p)
        BY <1>4, <2>3, <3>1, <3>3 DEF Stats!DecodePlain
      <4>2. g = "state" => Stats!HasNumber(p)
        BY <3>3 DEF Stats!Available, Stats!HasNumber
      <4> QED
        BY <1>1, <1>2, <1>5, <1>7, <2>3, <4>1, <4>2, TellsPut
    <3>4. CASE ~ (g = "state" /\ ~ Stats!Available(p)) /\ ~ Stats!Modelled(p)
      <4>1. counters'[g] = counters[g]
        BY <2>3, <3>1, <3>4 DEF Stats!DecodePlain
      <4> QED
        BY <2>1, <3>4, <4>1 DEF Stats!Speaks, Stats!Keys, Stats!Modelled
    <3> QED
      BY <3>2, <3>3, <3>4
  <2> QED
    BY <2>2, <2>3
<1>11. ASSUME NEW g \in Stats!Devices
       PROVE  DeviceInv(n + 1, g, devices'[g]) /\ PlacedInv(n + 1, g, devices'[g], positions'[g])
  <2>1. CASE p.group = g /\ Stats!HasIndex(p)
    <3>1. Stats!DecodeDevice(p)
      BY <1>1, <1>7, <1>8, <2>1 DEF Stats!DecodePlain, Stats!DecodeOther
    <3>2. /\ Stats!PositionOf(g, p.index) = PlaceOf(devices[g], positions[g], p.index)
          /\ Stats!Entry(g, p.index) = EntryOf(devices[g], positions[g], p.index)
      BY DEF Stats!PositionOf, Stats!Entry, PlaceOf, EntryOf
    <3>3. devices'[g] = EntriesWith(devices[g], positions[g], p)
      BY <1>4, <2>1, <3>1, <3>2 DEF Stats!DecodeDevice, EntriesWith
    <3>4. positions'[g] = PlacesWith(devices[g], positions[g], p)
      BY <1>4, <2>1, <3>1, <3>2 DEF Stats!DecodeDevice, PlacesWith
    <3>5. DeviceInv(n, g, devices[g]) /\ PlacedInv(n, g, devices[g], positions[g])
      BY <1>6
    <3> QED
      BY <1>1, <1>2, <2>1, <3>3, <3>4, <3>5, DeviceTouched
  <2>2. CASE ~ (p.group = g /\ Stats!HasIndex(p))
    <3>1. devices'[g] = devices[g] /\ positions'[g] = positions[g]
      BY <1>1, <1>4, <2>2 DEF Stats!DecodePlain, Stats!DecodeDevice, Stats!DecodeOther
    <3> QED
      BY <1>1, <1>2, <1>6, <2>2, <3>1, DeviceUntouched
  <2> QED
    BY <2>1, <2>2
<1> QED
  BY <1>1, <1>2, <1>3, <1>9, <1>10, <1>11, StatsPrime

\* The entries of a device group, sorted, tell the same.
LEMMA DeviceSorted ==
  ASSUME NEW n, NEW g, NEW es, DeviceInv(n, g, es)
  PROVE  LET s == Stats!Sorted(es) IN
         DeviceInv(n, g, s) /\ \A l, m \in 1 .. Len(s) : l < m => s[l].index < s[m].index
<1> DEFINE s == Stats!Sorted(es)
           N == Len(es)
<1>1. es \in Seq(DeviceEntry) /\ \A l, m \in 1 .. N : es[l].index = es[m].index => l = m
  BY DEF DeviceInv
<1>2. /\ s \in Seq(DeviceEntry) /\ Len(s) = N
      /\ \A k \in 1 .. N : \E m \in 1 .. N : s[k] = es[m]
      /\ \A m \in 1 .. N : \E k \in 1 .. N : s[k] = es[m]
      /\ \A l, m \in 1 .. N : l < m => s[l].index < s[m].index
  BY <1>1, SortedEntries
<1> HIDE DEF s
<1>3. {s[m].index : m \in 1 .. Len(s)} = Indexes(n, g)
  <2>1. {s[m].index : m \in 1 .. N} = {es[m].index : m \in 1 .. N}
    <3>1. ASSUME NEW k \in 1 .. N PROVE s[k].index \in {es[m].index : m \in 1 .. N}
      <4>1. PICK m \in 1 .. N : s[k] = es[m]
        BY <1>2
      <4> QED
        BY <4>1
    <3>2. ASSUME NEW m \in 1 .. N PROVE es[m].index \in {s[k].index : k \in 1 .. N}
      <4>1. PICK k \in 1 .. N : s[k] = es[m]
        BY <1>2
      <4> QED
        BY <4>1
    <3> QED
      BY <3>1, <3>2
  <2> QED
    BY <1>2, <2>1 DEF DeviceInv
<1>4. \A l, m \in 1 .. Len(s) : s[l].index = s[m].index => l = m
  <2>1. N \in Nat /\ \A m \in 1 .. N : s[m].index \in Int
    BY <1>1, <1>2, EntryIndex
  <2>2. ASSUME NEW l \in 1 .. N, NEW m \in 1 .. N, s[l].index = s[m].index PROVE l = m
    <3>1. l < m => s[l].index < s[m].index
      BY <1>2
    <3>2. m < l => s[m].index < s[l].index
      BY <1>2
    <3> QED
      BY <2>1, <2>2, <3>1, <3>2
  <2> QED
    BY <1>2, <2>2
<1>5. \A m \in 1 .. Len(s) : Stats!Tells(n, s[m].counter, g, s[m].index)
  BY <1>2 DEF DeviceInv
<1> QED
  BY <1>2, <1>3, <1>4, <1>5 DEF DeviceInv, s

\* Sorting keeps it.
LEMMA StatsSort == StatsInv /\ Stats!Sort => StatsInv'
<1> SUFFICES ASSUME StatsInv, Stats!Sort PROVE StatsInv'
  OBVIOUS
<1>1. /\ statsParameters \in Seq(StatsParameter) /\ statsNext \in 0 .. Len(statsParameters)
      /\ statsNext = Len(statsParameters) /\ ~ done /\ done' = TRUE
      /\ devices' = [g \in Stats!Devices |-> Stats!Sorted(devices[g])]
      /\ UNCHANGED <<statsParameters, statsNext, counters, positions>>
  BY DEF StatsInv, Stats!Sort
<1>2. ASSUME NEW g \in Stats!Devices
      PROVE  /\ DeviceInv(statsNext, g, devices'[g])
             /\ \A l, m \in 1 .. Len(devices'[g]) :
                  l < m => devices'[g][l].index < devices'[g][m].index
  <2>1. DeviceInv(statsNext, g, devices[g])
    BY DEF StatsInv
  <2>2. devices'[g] = Stats!Sorted(devices[g])
    BY <1>1
  <2> QED
    BY <2>1, <2>2, DeviceSorted
<1>3. /\ DOMAIN counters' = Stats!Plain /\ DOMAIN devices' = Stats!Devices
      /\ DOMAIN positions' = Stats!Devices
      /\ \A g \in Stats!Plain : Stats!Tells(statsNext', counters'[g], g, Stats!Missing)
  BY <1>1 DEF StatsInv
<1> QED
  BY <1>1, <1>2, <1>3, StatsPrime

\* So does every step.
LEMMA StatsStep == StatsInv /\ [Stats!Next]_statsVars => StatsInv'
<1>1. ASSUME StatsInv, UNCHANGED statsVars PROVE StatsInv'
  <2>1. /\ statsParameters' = statsParameters /\ statsNext' = statsNext /\ done' = done
        /\ counters' = counters /\ devices' = devices /\ positions' = positions
    BY <1>1 DEF statsVars
  <2>2. /\ statsNext' \in 0 .. Len(statsParameters) /\ done' \in BOOLEAN
        /\ done' => statsNext' = Len(statsParameters)
        /\ DOMAIN counters' = Stats!Plain /\ DOMAIN devices' = Stats!Devices
        /\ DOMAIN positions' = Stats!Devices
        /\ \A g \in Stats!Plain : Stats!Tells(statsNext', counters'[g], g, Stats!Missing)
    BY <1>1, <2>1 DEF StatsInv
  <2>3. \A g \in Stats!Devices :
          /\ DeviceInv(statsNext', g, devices'[g])
          /\ ~ done' => PlacedInv(statsNext', g, devices'[g], positions'[g])
          /\ done' => \A l, m \in 1 .. Len(devices'[g]) :
                       l < m => devices'[g][l].index < devices'[g][m].index
    BY <1>1, <2>1 DEF StatsInv
  <2> QED
    BY <1>1, <2>1, <2>2, <2>3, StatsPrime
<1> QED
  BY <1>1, StatsDecode, StatsSort DEF Stats!Next

\* The invariant says what the program is promised of each counter and of each
\* device.
LEMMA StatsPromise == StatsInv => SentinelsStayUnset /\ DevicesKeepTheirCounters
<1> SUFFICES ASSUME StatsInv
             PROVE  Stats!SentinelsStayUnset /\ Stats!DevicesKeepTheirCounters
  BY DEF SentinelsStayUnset, DevicesKeepTheirCounters
<1>1. Stats!SentinelsStayUnset
  BY DEF StatsInv, Stats!SentinelsStayUnset
<1>2. ASSUME NEW g \in Stats!Devices
      PROVE  /\ \A m \in 1 .. Len(devices[g]) :
                  Stats!Tells(statsNext, devices[g][m].counter, g, devices[g][m].index)
             /\ {devices[g][m].index : m \in 1 .. Len(devices[g])} =
                  {p.index : p \in {q \in Stats!Sent : q.group = g /\ q.index >= 0}}
             /\ done => \A l, m \in 1 .. Len(devices[g]) :
                          l < m => devices[g][l].index < devices[g][m].index
  <2>1. Indexes(statsNext, g) = {p.index : p \in {q \in Stats!Sent : q.group = g /\ q.index >= 0}}
    BY DEF Indexes, Stats!Sent, Stats!HasIndex
  <2> QED
    BY <2>1 DEF StatsInv, DeviceInv
<1> QED
  BY <1>1, <1>2 DEF Stats!DevicesKeepTheirCounters

\* The invariant holds throughout, whatever parameters libvirt may send.
LEMMA StatsAlways == ConversionsSpec => []StatsInv
<1>1. ConversionsInit => StatsInv
  BY StatsStart DEF ConversionsInit
<1>2. StatsInv /\ [ConversionsNext]_<<vars, jobVars, statsVars, abiVars>> => StatsInv'
  BY StatsStep DEF ConversionsNext
<1> QED
  BY <1>1, <1>2, PTL DEF ConversionsSpec

\* A sentinel is never turned into a number, and each counter is what libvirt
\* sent for it last (domain_stats.go:110), for any set of parameters and any
\* length of the record.
THEOREM CountersAreTrue == ConversionsSpec => []SentinelsStayUnset
  BY StatsAlways, StatsPromise, PTL

\* Every disk and interface has an entry of its own with its own counters, and
\* the entries come back in order of index, however many and however sparse
\* they are (domain_stats.go:222-289).
THEOREM DevicesAreTrue == ConversionsSpec => []DevicesKeepTheirCounters
  BY StatsAlways, StatsPromise, PTL
================================================================================
