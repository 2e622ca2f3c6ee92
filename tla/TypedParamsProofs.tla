--------------------------- MODULE TypedParamsProofs ---------------------------
(***************************************************************************)
(* Proofs about TypedParams, for lists of any length: whatever fails and   *)
(* however the domain changes, native memory is read and freed inside its  *)
(* bounds, all of it is freed, and a call that succeeds has carried the    *)
(* whole list across.                                                      *)
(***************************************************************************)
EXTENDS TypedParams, TLAPS

Getting == {"get", "sched"}
Given == {"job", "stats"}

Types ==
  /\ helpers \subseteq Helpers
  /\ domain \in Lists(Kinds) /\ params \in Lists(Kinds)
  /\ op \in {"set"} \cup Getting \cup Given
  /\ pc \in {"done", "free"}
       \cup (IF op = "set" THEN {"encode", "call"} ELSE {"fetch", "decode"})
       \cup (IF op \in Getting THEN {"query", "calloc"} ELSE {})
  /\ next \in 0 .. MaxParams /\ alloc \in 0 .. MaxParams /\ count \in Int
  /\ array \in {"none", "live", "freed"}
  /\ slot \in [Elements -> Kinds \cup {"zero", "null"}]

\* The strings that are allocated are those of the array's elements; none is
\* left when the array is gone, and the array is gone after the call only.
Blocks ==
  /\ strs = IF array = "live" THEN StringsOf(alloc) ELSE {}
  /\ array = "none" => alloc = 0
  /\ pc = "done" => array # "live"
  /\ pc # "done" => array # "freed"

\* The elements hold the first n parameters.
Holds(n) == n <= Len(params) /\ \A i \in 1 .. n : slot[i] = params[i]

\* What is freed at the end is inside the array, with all its strings.
Counted == 0 <= FreeCount /\ FreeCount <= alloc /\ StringsOf(FreeCount) = StringsOf(alloc)

\* The array as it is filled by libvirt's helpers, which keep the count with
\* it, and by the package, which allocates all of it at first.
Encodes ==
  op = "set" =>
    /\ pc \in {"encode", "call"} =>
         /\ params \in Lists(Encodable) /\ Holds(next)
         /\ \A i \in Elements : i > next => slot[i] = "zero"
         /\ count = alloc
         /\ IF Native THEN alloc = next /\ (next > 0 => array = "live")
            ELSE alloc = (IF array = "live" THEN Len(params) ELSE next)
    /\ pc = "call" => next = Len(params) /\ count = next
    /\ pc = "encode" => count <= Len(params)

\* A list libvirt is asked for: the room is allocated, and what is decoded is
\* what libvirt wrote, if its count is to be believed.
Fetches ==
  op # "set" =>
    /\ pc \in {"query", "calloc", "fetch"} => slot = Blank /\ params = << >> /\ seen = << >>
    /\ pc \in {"query", "calloc"} => array = "none"
    /\ pc = "calloc" => count \in 1 .. MaxParams
    /\ pc \in {"fetch", "decode", "free"} /\ op \in Getting => array = "live"
    /\ pc = "fetch" /\ op \in Given => array = "none" /\ count = 0
    /\ pc = "decode" /\ op \in Given => count = alloc
    /\ pc = "decode" /\ 0 <= count /\ count <= alloc => count = Len(params) /\ Holds(count)

Answers ==
  /\ pc = "free" => Counted
  /\ pc \in {"free", "done"} /\ result = "ok" => seen = params

IInv == Types /\ Blocks /\ Encodes /\ Fetches /\ Answers /\ faults = {}

--------------------------------------------------------------------------------
\* A list of at most MaxParams elements is a sequence of them.
LEMMA ListIsSeq ==
  ASSUME NEW K, NEW s \in Lists(K)
  PROVE  /\ s \in Seq(K) /\ Len(s) \in 0 .. MaxParams
         /\ \A i \in 1 .. Len(s) : s[i] \in K
         /\ s = [i \in 1 .. Len(s) |-> s[i]]
<1>1. PICK n \in 0 .. MaxParams : s \in [1 .. n -> K]
  BY DEF Lists
<1>2. n \in Nat /\ s \in Seq(K) /\ Len(s) = n
  BY <1>1, MaxParamsAssumption
<1> QED BY <1>1, <1>2

\* A sequence of at most MaxParams elements is such a list.
LEMMA SeqIsList ==
  ASSUME NEW K, NEW s \in Seq(K), Len(s) <= MaxParams
  PROVE  s \in Lists(K)
<1>1. s \in [1 .. Len(s) -> K] /\ Len(s) \in 0 .. MaxParams
  BY MaxParamsAssumption
<1> QED BY <1>1 DEF Lists

\* The first elements of a list.
LEMMA Prefix ==
  ASSUME NEW K, NEW s \in Lists(K), NEW k \in 0 .. Len(s)
  PROVE  /\ SubSeq(s, 1, k) \in Lists(K) /\ Len(SubSeq(s, 1, k)) = k
         /\ \A i \in 1 .. k : SubSeq(s, 1, k)[i] = s[i]
<1>1. s \in Seq(K) /\ Len(s) \in 0 .. MaxParams
  BY ListIsSeq
<1>2. /\ SubSeq(s, 1, k) \in Seq(K) /\ Len(SubSeq(s, 1, k)) = k
      /\ \A i \in 1 .. k : SubSeq(s, 1, k)[i] = s[i]
  BY <1>1
<1>3. Len(SubSeq(s, 1, k)) <= MaxParams
  BY <1>1, <1>2, MaxParamsAssumption
<1>4. SubSeq(s, 1, k) \in Lists(K)
  BY <1>2, <1>3, SeqIsList
<1> QED BY <1>2, <1>4

\* What libvirt or the code reads of the first n elements, when they hold all
\* the parameters, is the parameters.
LEMMA ReadsAll ==
  ASSUME params \in Lists(Kinds), NEW n, n = Len(params), Holds(n)
  PROVE  [i \in 1 .. n |-> slot[i]] = params
BY ListIsSeq DEF Holds

\* The empty list is one.
LEMMA EmptyList ==
  ASSUME NEW K
  PROVE  << >> \in Lists(K)
<1>1. << >> \in Seq(K) /\ Len(<< >>) = 0
  OBVIOUS
<1>2. Len(<< >>) <= MaxParams
  BY <1>1, MaxParamsAssumption
<1> QED BY <1>1, <1>2, SeqIsList

\* What may be encoded may be decoded.
LEMMA EncodableLists == Lists(Encodable) \subseteq Lists(Kinds)
<1>1. \A n \in 0 .. MaxParams : [1 .. n -> Encodable] \subseteq [1 .. n -> Kinds]
  BY DEF Encodable, Kinds
<1> QED BY <1>1 DEF Lists

--------------------------------------------------------------------------------
(* Each step keeps the invariant.                                           *)

\* A call begins with no array.
LEMMA BeginSetStep == IInv /\ BeginSet => IInv'
<1> SUFFICES ASSUME IInv, BeginSet PROVE IInv'
  OBVIOUS
<1> USE MaxParamsAssumption, EmptyList, EncodableLists
    DEF IInv, BeginSet, Holds, Counted, Getting, Given, StringsOf, Begin, Native, Helpers,
        Kinds, Encodable, Elements, Blank, FreeCount
<1>1. Types'
  BY DEF Types, Blocks, Encodes, Fetches
<1>2. Blocks'
  BY DEF Types, Blocks, Encodes, Fetches
<1>3. Encodes' /\ Fetches'
  BY DEF Types, Blocks, Encodes, Fetches
<1>4. Answers' /\ faults' = {}
  BY DEF Types, Blocks, Encodes, Fetches, Answers
<1> QED BY <1>1, <1>2, <1>3, <1>4

\* Counting begins without room.
LEMMA BeginGetStep == IInv /\ BeginGet => IInv'
<1> SUFFICES ASSUME IInv, BeginGet PROVE IInv'
  OBVIOUS
<1> USE MaxParamsAssumption, EmptyList
    DEF IInv, BeginGet, Holds, Counted, Getting, Given, StringsOf, Begin, Native, Helpers,
        Kinds, Encodable, Elements, Blank, FreeCount
<1>1. Types'
  BY DEF Types, Blocks, Encodes, Fetches
<1>2. Blocks'
  BY DEF Types, Blocks, Encodes, Fetches
<1>3. Encodes' /\ Fetches'
  BY DEF Types, Blocks, Encodes, Fetches
<1>4. Answers' /\ faults' = {}
  BY DEF Types, Blocks, Encodes, Fetches, Answers
<1> QED BY <1>1, <1>2, <1>3, <1>4

\* A job's statistics come in an array that is not there yet.
LEMMA BeginJobStep == IInv /\ BeginJob => IInv'
<1> SUFFICES ASSUME IInv, BeginJob PROVE IInv'
  OBVIOUS
<1> USE MaxParamsAssumption, EmptyList
    DEF IInv, BeginJob, Holds, Counted, Getting, Given, StringsOf, Begin, Native, Helpers,
        Kinds, Encodable, Elements, Blank, FreeCount
<1>1. Types'
  BY DEF Types, Blocks, Encodes, Fetches
<1>2. Blocks'
  BY DEF Types, Blocks, Encodes, Fetches
<1>3. Encodes' /\ Fetches'
  BY DEF Types, Blocks, Encodes, Fetches
<1>4. Answers' /\ faults' = {}
  BY DEF Types, Blocks, Encodes, Fetches, Answers
<1> QED BY <1>1, <1>2, <1>3, <1>4

\* Nor is that of bulk statistics.
LEMMA BeginStatsStep == IInv /\ BeginStats => IInv'
<1> SUFFICES ASSUME IInv, BeginStats PROVE IInv'
  OBVIOUS
<1> USE MaxParamsAssumption, EmptyList
    DEF IInv, BeginStats, Holds, Counted, Getting, Given, StringsOf, Begin, Native, Helpers,
        Kinds, Encodable, Elements, Blank, FreeCount
<1>1. Types'
  BY DEF Types, Blocks, Encodes, Fetches
<1>2. Blocks'
  BY DEF Types, Blocks, Encodes, Fetches
<1>3. Encodes' /\ Fetches'
  BY DEF Types, Blocks, Encodes, Fetches
<1>4. Answers' /\ faults' = {}
  BY DEF Types, Blocks, Encodes, Fetches, Answers
<1> QED BY <1>1, <1>2, <1>3, <1>4

\* The domain is not what is encoded or decoded.
LEMMA DomainChangesStep == IInv /\ DomainChanges => IInv'
BY MaxParamsAssumption, ListIsSeq
   DEF IInv, DomainChanges, Types, Blocks, Encodes, Fetches, Answers, Holds, Counted, Getting,
       Given, StringsOf, Native, Helpers, Kinds, Encodable, Elements, Blank, memory, FreeCount

\* All elements are zero when the array is allocated for all parameters.
LEMMA CallocForSetStep == IInv /\ CallocForSet => IInv'
<1> SUFFICES ASSUME IInv, CallocForSet PROVE IInv'
  OBVIOUS
<1> USE MaxParamsAssumption, ListIsSeq
    DEF IInv, CallocForSet, Holds, Counted, Getting, Given, StringsOf, Return, Encoding, Native,
        Helpers, Kinds, Encodable, Elements, Blank, FreeCount
<1>1. Types'
  BY DEF Types, Blocks, Encodes, Fetches
<1>2. Blocks'
  <2>1. strs' = {} /\ slot' = Blank
    BY DEF Types, Blocks, Encodes
  <2>2. StringsOf(alloc)' = {}
    BY <2>1
  <2> QED BY <2>1, <2>2 DEF Types, Blocks, Encodes
<1>3. Encodes' /\ Fetches'
  BY DEF Types, Blocks, Encodes, Fetches
<1>4. Answers' /\ faults' = {}
  BY DEF Types, Blocks, Encodes, Fetches, Answers
<1> QED BY <1>1, <1>2, <1>3, <1>4

\* One element more, or the array as it was and perhaps room for one more.
LEMMA AddNativeStep == IInv /\ AddNative => IInv'
<1> SUFFICES ASSUME IInv, AddNative PROVE IInv'
  OBVIOUS
<1> DEFINE i == next + 1
<1>1. /\ i \in Elements /\ params[i] \in Encodable /\ i <= Len(params)
      /\ alloc = next /\ count = next /\ slot[i] = "zero" /\ array # "freed"
  BY MaxParamsAssumption, ListIsSeq DEF IInv, Types, Blocks, Encodes, AddNative, Encoding, Elements
<1>2. faults' = {}
  BY DEF IInv, AddNative
<1>3. CASE /\ array' = "live" /\ alloc' = i /\ count' = i /\ next' = i
           /\ slot' = [slot EXCEPT ![i] = params[i]]
           /\ strs' = IF params[i] = "string" THEN strs \cup {i} ELSE strs
           /\ UNCHANGED <<pc, result>>
  <2> USE <1>1, <1>3, MaxParamsAssumption DEF IInv, AddNative, Encoding, Encodable
  <2>1. Types'
    BY DEF Types, Kinds, Elements
  <2>2. Blocks'
    BY DEF Types, Blocks, StringsOf, Elements
  <2>3. Encodes'
    BY DEF Types, Encodes, Holds, Native, Elements
  <2> QED BY <1>2, <2>1, <2>2, <2>3 DEF Fetches, Answers
<1>4. CASE /\ \/ array' = "live" /\ alloc' = i
              \/ UNCHANGED <<array, alloc>>
           /\ FreeAndReturn("error")
           /\ UNCHANGED <<next, count, slot, strs>>
  <2> USE <1>1, <1>4, MaxParamsAssumption DEF IInv, AddNative, Encoding, FreeAndReturn
  <2>1. Types'
    BY DEF Types, Elements
  <2>2. alloc' \in {next, i} /\ strs = StringsOf(next) /\ StringsOf(next) = StringsOf(i)
    BY DEF Types, Blocks, StringsOf, Elements
  <2>3. Blocks'
    <3>1. StringsOf(alloc)' = StringsOf(alloc')
      BY DEF StringsOf
    <3>2. strs' = StringsOf(alloc)'
      BY <2>2, <3>1
    <3> QED BY <2>2, <3>2 DEF Types, Blocks, StringsOf, Elements
  <2>4. Answers'
    BY <2>2 DEF Types, Encodes, Answers, Counted, FreeCount, StringsOf
  <2> QED BY <1>2, <2>1, <2>3, <2>4 DEF Encodes, Fetches
<1> QED BY <1>3, <1>4 DEF AddNative

\* One element more, or one that says it is a string and has none.
LEMMA MarshalOneStep == IInv /\ MarshalOne => IInv'
<1> SUFFICES ASSUME IInv, MarshalOne PROVE IInv'
  OBVIOUS
<1> DEFINE i == next + 1
<1>1. /\ i \in Elements /\ params[i] \in Encodable /\ i <= Len(params)
      /\ alloc = Len(params) /\ count = alloc /\ slot[i] = "zero" /\ faults' = {}
      /\ strs = StringsOf(alloc)
  BY MaxParamsAssumption, ListIsSeq
     DEF IInv, Types, Blocks, Encodes, MarshalOne, Encoding, Elements
<1>2. CASE /\ next' = i /\ slot' = [slot EXCEPT ![i] = params[i]]
           /\ strs' = IF params[i] = "string" THEN strs \cup {i} ELSE strs
           /\ UNCHANGED <<pc, result>>
  <2> USE <1>1, <1>2, MaxParamsAssumption DEF IInv, MarshalOne, Encoding, Encodable
  <2>1. Types'
    BY DEF Types, Kinds, Elements
  <2>2. Blocks'
    BY DEF Types, Blocks, StringsOf, Elements
  <2>3. Encodes'
    BY DEF Types, Encodes, Holds, Native, Elements
  <2> QED BY <2>1, <2>2, <2>3 DEF Fetches, Answers
<1>3. CASE /\ params[i] = "string" /\ MarshalFailed
           /\ slot' = [slot EXCEPT ![i] = "null"]
           /\ UNCHANGED <<next, strs>>
  <2> USE <1>1, <1>3, MaxParamsAssumption
      DEF IInv, MarshalOne, MarshalFailed, Encoding, FreeAndReturn
  <2>1. Types'
    BY DEF Types, Elements
  <2>2. Blocks'
    BY DEF Types, Blocks, StringsOf, Elements
  <2>3. Answers'
    BY DEF Types, Encodes, Answers, Counted, FreeCount, StringsOf
  <2> QED BY <2>1, <2>2, <2>3 DEF Encodes, Fetches
<1> QED BY <1>2, <1>3 DEF MarshalOne

\* All parameters are encoded, and none more.
LEMMA EncodedStep == IInv /\ Encoded => IInv'
BY MaxParamsAssumption, ListIsSeq
   DEF IInv, Encoded, Types, Blocks, Encodes, Fetches, Answers, Holds, Counted, Getting, Given,
       StringsOf, Encoding, Native, Helpers, Kinds, Encodable, Elements, Blank, memory,
       FreeCount

\* libvirt reads all elements, which hold the parameters.
LEMMA CallSetStep == IInv /\ CallSet => IInv'
BY MaxParamsAssumption, ListIsSeq, ReadsAll
   DEF IInv, CallSet, Types, Blocks, Encodes, Fetches, Answers, Holds, Counted, Getting, Given,
       StringsOf, Readable, ReadFaults, FreeAndReturn, Native, Helpers, Kinds, Encodable,
       Elements, Blank, FreeCount

\* The count is only believed within the room there is.
LEMMA QueryCountStep == IInv /\ QueryCount => IInv'
BY MaxParamsAssumption, ListIsSeq
   DEF IInv, QueryCount, Types, Blocks, Encodes, Fetches, Answers, Holds, Counted, Getting,
       Given, StringsOf, Return, Native, Helpers, Kinds, Encodable, Elements, Blank, Asking,
       Query, FreeCount

\* Likewise with the name of the scheduler.
LEMMA QuerySchedulerStep == IInv /\ QueryScheduler => IInv'
BY MaxParamsAssumption, ListIsSeq
   DEF IInv, QueryScheduler, Types, Blocks, Encodes, Fetches, Answers, Holds, Counted, Getting,
       Given, StringsOf, Return, Native, Helpers, Kinds, Encodable, Elements, Blank, Asking,
       Query, FreeCount

\* The room is for as many as were counted.
LEMMA CallocStep == IInv /\ Calloc => IInv'
<1> SUFFICES ASSUME IInv, Calloc PROVE IInv'
  OBVIOUS
<1> USE MaxParamsAssumption, ListIsSeq
    DEF IInv, Calloc, Holds, Counted, Getting, Given, StringsOf, Return, Native, Helpers, Kinds,
        Encodable, Elements, Blank, FreeCount
<1>1. Types'
  BY DEF Types, Blocks, Encodes, Fetches
<1>2. Blocks'
  <2>1. strs' = {} /\ slot' = Blank
    BY DEF Types, Blocks, Fetches
  <2>2. StringsOf(alloc)' = {}
    BY <2>1
  <2> QED BY <2>1, <2>2 DEF Types, Blocks, Fetches
<1>3. Encodes' /\ Fetches'
  BY DEF Types, Blocks, Encodes, Fetches
<1>4. Answers' /\ faults' = {}
  BY DEF Types, Blocks, Encodes, Fetches, Answers
<1> QED BY <1>1, <1>2, <1>3, <1>4

\* libvirt fills the room there is with the first parameters the domain has.
LEMMA FetchStep == IInv /\ Fetch => IInv'
<1> SUFFICES ASSUME IInv, Fetch PROVE IInv'
  OBVIOUS
<1>1. /\ op \in Getting /\ array = "live" /\ slot = Blank /\ params = << >> /\ strs = {}
      /\ alloc \in 0 .. MaxParams /\ domain \in Lists(Kinds) /\ Len(domain) \in 0 .. MaxParams
  BY MaxParamsAssumption, ListIsSeq
     DEF IInv, Types, Blocks, Fetches, Fetch, Getting, Blank, StringsOf, Elements
<1> DEFINE k == IF Len(domain) <= alloc THEN Len(domain) ELSE alloc
           ps == SubSeq(domain, 1, k)
<1>2. CASE /\ Write(ps)
           /\ count' \in {Len(domain), -1} /\ pc' = "decode" /\ UNCHANGED result
  <2>1. /\ k \in 0 .. Len(domain) /\ k <= alloc /\ k <= MaxParams
        /\ ps \in Lists(Kinds) /\ Len(ps) = k /\ \A j \in 1 .. k : ps[j] \in Kinds
    BY <1>1, Prefix, ListIsSeq
  <2> HIDE DEF k, ps
  <2> USE <1>1, <1>2, <2>1, MaxParamsAssumption DEF IInv, Fetch, Write
  <2>2. slot' = [j \in Elements |-> IF j <= k THEN ps[j] ELSE "zero"]
    BY DEF Blank
  <2>3. Types'
    BY <2>2 DEF Types, Getting, Elements, Kinds
  <2>4. Blocks'
    BY <2>2 DEF Blocks, StringsOf, Elements
  <2>5. count' >= 0 /\ count' <= alloc' => count' = k
    BY DEF k
  <2>6. Fetches'
    BY <2>2, <2>5 DEF Fetches, Holds, Getting, Given, Elements
  <2> QED BY <2>3, <2>4, <2>6 DEF Encodes, Answers, Getting
<1>3. CASE /\ FreeAndReturn("error") /\ UNCHANGED <<params, slot, strs>>
           /\ count' \in {count, Len(domain)}
  BY <1>1, <1>3, MaxParamsAssumption
     DEF IInv, Types, Blocks, Encodes, Fetches, Answers, Counted, FreeCount, FreeAndReturn, Fetch,
         StringsOf, Getting, Given
<1> QED BY <1>2, <1>3 DEF Fetch

\* Elements that libvirt filled are decoded.
LEMMA Decoded ==
  ASSUME IInv, op # "set", pc = "decode", op \in Getting => 0 <= count /\ count <= alloc,
         decodeTypedParameters(count), UNCHANGED <<helpers, domain, op, params, next>>
  PROVE  IInv'
<1>1. count = Len(params) /\ Holds(count) /\ 0 <= count /\ count <= alloc
  BY MaxParamsAssumption DEF IInv, Types, Fetches, Getting, Given
<1>2. /\ params \in Lists(Kinds) /\ [j \in 1 .. count |-> slot[j]] = params
  BY <1>1, ReadsAll DEF IInv, Types
<1>3. faults' = {}
  BY <1>1 DEF IInv, Types, Blocks, decodeTypedParameters, ReadFaults, Readable, StringsOf, Elements
<1>4. pc' = "free" /\ (result' = "ok" => seen' = params')
  BY <1>2 DEF decodeTypedParameters, FreeAndReturn
<1> QED BY <1>1, <1>3, <1>4
        DEF IInv, Types, Blocks, Encodes, Fetches, Answers, Counted, FreeCount,
            decodeTypedParameters, StringsOf, Getting, Given

\* A count the array has no room for is refused, others are decoded.
LEMMA DecodeStep == IInv /\ Decode => IInv'
<1> SUFFICES ASSUME IInv, Decode PROVE IInv'
  OBVIOUS
<1>1. CASE count < 0 \/ count > alloc
  BY <1>1, MaxParamsAssumption
     DEF IInv, Types, Blocks, Encodes, Fetches, Answers, Counted, FreeCount, FreeAndReturn, Decode,
         memory, StringsOf, Getting, Given
<1>2. CASE ~ (count < 0 \/ count > alloc)
  BY <1>2, Decoded DEF IInv, Types, Decode, Getting
<1> QED BY <1>1, <1>2

\* Statistics come in an array of their own length.
LEMMA FetchJobStep == IInv /\ FetchJob => IInv'
<1> SUFFICES ASSUME IInv, FetchJob PROVE IInv'
  OBVIOUS
<1>1. /\ slot = Blank /\ params = << >> /\ seen = << >> /\ strs = {}
      /\ array = "none" /\ alloc = 0 /\ count = 0
      /\ domain \in Lists(Kinds) /\ Len(domain) \in 0 .. MaxParams
      /\ \A j \in 1 .. Len(domain) : domain[j] \in Kinds
  BY MaxParamsAssumption, ListIsSeq
     DEF IInv, Types, Blocks, Fetches, FetchJob, Getting, Given
<1>2. CASE /\ array' \in {"live"} \cup (IF domain = << >> THEN {"none"} ELSE {})
           /\ Write(domain) /\ alloc' = Len(domain) /\ count' = Len(domain)
           /\ pc' = "decode" /\ UNCHANGED result
  <2> USE <1>1, <1>2, MaxParamsAssumption DEF IInv, FetchJob, Write
  <2>1. slot' = [j \in Elements |-> IF j <= Len(domain) THEN domain[j] ELSE "zero"]
    BY DEF Blank
  <2>2. array' = "none" => Len(domain) = 0
    OBVIOUS
  <2>3. Types'
    BY <2>1 DEF Types, Getting, Elements, Kinds
  <2>4. Blocks'
    <3>1. strs' = {j \in Elements : j <= Len(domain) /\ slot'[j] = "string"}
      BY <2>1 DEF Elements
    <3>2. strs' = StringsOf(alloc)' /\ (Len(domain) = 0 => strs' = {})
      BY <3>1 DEF StringsOf, Elements
    <3> QED BY <2>2, <3>2 DEF Blocks
  <2>5. Fetches'
    BY <2>1 DEF Fetches, Holds, Getting, Given, Elements
  <2> QED BY <2>3, <2>4, <2>5 DEF Encodes, Answers
<1>3. CASE /\ Return("error")
           /\ UNCHANGED <<params, array, alloc, slot, strs>>
           /\ count' \in {count, Len(domain)}
  BY <1>1, <1>3, MaxParamsAssumption
     DEF IInv, Types, Blocks, Encodes, Fetches, Answers, FetchJob, Return, StringsOf, Getting, Given
<1> QED BY <1>2, <1>3 DEF FetchJob

\* Bulk statistics, or none: the list is there to be freed.
LEMMA FetchStatsStep == IInv /\ FetchStats => IInv'
BY MaxParamsAssumption, ListIsSeq
   DEF IInv, FetchStats, Types, Blocks, Encodes, Fetches, Answers, Holds, Counted, Getting,
       Given, StringsOf, Return, FreeAndReturn, Native, Helpers, Kinds, Encodable, Elements,
       Blank, Write, FreeCount

\* A job's statistics are decoded as long as the array is.
LEMMA DecodeJobStep == IInv /\ DecodeJob => IInv'
BY Decoded DEF DecodeJob, Getting

\* And so are bulk statistics.
LEMMA DecodeStatsStep == IInv /\ DecodeStats => IInv'
BY Decoded DEF DecodeStats, Getting

\* What is freed is all there is.
LEMMA FreeStep == IInv /\ Free => IInv'
BY MaxParamsAssumption, ListIsSeq
   DEF IInv, Free, Types, Blocks, Encodes, Fetches, Answers, Holds, Counted, Getting, Given,
       StringsOf, Readable, FreeStringsOf, freeTypedParameters, Native, Helpers, Kinds,
       Encodable, Elements, Blank, memory, FreeCount

--------------------------------------------------------------------------------
\* Nothing is allocated at first.
LEMMA InitIInv == Init => IInv
<1> SUFFICES ASSUME Init PROVE IInv
  OBVIOUS
<1>1. params \in Lists(Kinds)
  BY EmptyList DEF Init
<1> QED BY <1>1, MaxParamsAssumption
        DEF Init, IInv, Types, Blocks, Encodes, Fetches, Answers, Kinds, Elements, Blank

\* The inductive invariant holds in every reachable state.
THEOREM Invariance == Spec => []IInv
<1>1. IInv /\ [Next]_vars => IInv'
  <2> SUFFICES ASSUME IInv, [Next]_vars PROVE IInv'
    OBVIOUS
  <2>1. CASE Step
    BY <2>1, CallocForSetStep, AddNativeStep, MarshalOneStep, EncodedStep, CallSetStep,
       QueryCountStep, QuerySchedulerStep, CallocStep, FetchStep, DecodeStep, FetchJobStep,
       DecodeJobStep, FetchStatsStep, DecodeStatsStep, FreeStep DEF Step
  <2>2. CASE BeginSet \/ BeginGet \/ BeginJob \/ BeginStats \/ DomainChanges
    BY <2>2, BeginSetStep, BeginGetStep, BeginJobStep, BeginStatsStep, DomainChangesStep
  <2>3. CASE UNCHANGED vars
    BY <2>3 DEF vars, memory, IInv, Types, Blocks, Encodes, Fetches, Answers, Holds, Counted,
                FreeCount, StringsOf, Native
  <2> QED BY <2>1, <2>2, <2>3 DEF Next
<1> QED BY InitIInv, <1>1, PTL DEF Spec

\* Native memory is read and freed inside its bounds and while it lives, for
\* lists of any length, whatever libvirt's count says (typed_params.go:305-336).
THEOREM MemorySafe == Spec => []MemoryIsSafe
<1>1. IInv => MemoryIsSafe
  BY DEF IInv, MemoryIsSafe
<1> QED BY Invariance, <1>1, PTL

\* A call that has returned has freed the array and all its strings, whichever
\* step failed (freeTypedParameters and its deferred calls).
THEOREM EverythingIsFreed == Spec => []NothingLeaks
<1>1. IInv => NothingLeaks
  BY DEF IInv, Blocks, NothingLeaks
<1> QED BY Invariance, <1>1, PTL

\* A call that succeeds has carried the whole list across (getDomainTypedParameters,
\* setDomainTypedParameters and the statistics).
THEOREM WholeLists == Spec => []ListsArriveWhole
<1>1. IInv => ListsArriveWhole
  BY DEF IInv, Answers, ListsArriveWhole
<1> QED BY Invariance, <1>1, PTL
================================================================================
