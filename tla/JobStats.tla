-------------------------------- MODULE JobStats --------------------------------
(***************************************************************************)
(* domainJobInfoFromParameters of domain_job.go: the typed parameters of a *)
(* job, polled or delivered by an event, become a DomainJobInfo one after  *)
(* the other.  info maps the fields whose Set flag is true to their value; *)
(* the value of a parameter is its Go type and a number that tells values  *)
(* apart.                                                                  *)
(***************************************************************************)
EXTENDS Naturals, Sequences

CONSTANTS Counters,     \* the fields that are uint64: 31 in the code
          Datum,        \* the numbers a value may be
          MaxParams     \* bound: the longest list

VARIABLES
  parameters,  \* what libvirt sent, decoded
  next,        \* the parameters taken so far
  info,        \* the DomainJobInfo
  status       \* "decoding", "ok" or "error"

vars == <<parameters, next, info, status>>

GoTypes == {"uint64", "int32", "bool", "string"}
Typed == [throttle |-> "int32", operation |-> "int32", success |-> "bool", error |-> "string"]
\* A field this release does not know is kept in Parameters only.
Known == Counters \cup DOMAIN Typed
Parameter == [field : Known \cup {"other"}, go : GoTypes, v : Datum]

Init ==
  /\ parameters \in UNION {[1 .. n -> Parameter] : n \in 0 .. MaxParams}
  /\ next = 0 /\ info = << >> /\ status = "decoding"

\* The Go type a known field must have.
GoTypeOf(field) == IF field \in Counters THEN "uint64" ELSE Typed[field]

\* The flag and the value of a field are set together, and not on an error.
KeepFirst(field, v) == [f \in DOMAIN info \cup {field} |-> IF f \in DOMAIN info THEN info[f] ELSE v]
Record(field, v) == [f \in DOMAIN info \cup {field} |-> IF f = field THEN v ELSE info[f]]

Rejects(p) == p.field \in Known /\ p.go # GoTypeOf(p.field)

decodeDomainJobParameter ==
  /\ status = "decoding" /\ next < Len(parameters)
  /\ LET p == parameters[next + 1] IN
     \/ /\ Rejects(p) /\ status' = "error" /\ UNCHANGED <<next, info>>
     \/ /\ ~ Rejects(p) /\ next' = next + 1 /\ UNCHANGED status
        /\ info' = IF p.field \in Known THEN Record(p.field, p.v) ELSE info
  /\ UNCHANGED parameters

domainJobInfoFromParameters ==
  /\ status = "decoding" /\ next = Len(parameters)
  /\ status' = "ok" /\ UNCHANGED <<parameters, next, info>>

Next == decodeDomainJobParameter \/ domainJobInfoFromParameters

Spec == Init /\ [][Next]_vars

--------------------------------------------------------------------------------
Carries(i, field) == parameters[i].field = field
\* The last parameter of the list up to n that carries a field.
LastOf(n, field) == CHOOSE i \in 1 .. n :
  Carries(i, field) /\ \A j \in i + 1 .. n : ~ Carries(j, field)

MistypedField(p) ==
  \/ p.field \in Counters /\ p.go # "uint64"
  \/ p.field \in {"throttle", "operation"} /\ p.go # "int32"
  \/ p.field = "success" /\ p.go # "bool"
  \/ p.field = "error" /\ p.go # "string"

\* What the program gets says of each field that it is set when libvirt sent
\* it, and then has what libvirt sent last: no counter of the 31 is reported
\* as zero, or as another's, because of where it came.  The answer is an error
\* exactly when a known field has another type than libvirt documents: a list
\* with fields this release does not know is still decoded
\* (domain_job.go:225-333).
InfoIsTrue ==
  /\ status # "error" =>
       /\ DOMAIN info = {parameters[i].field : i \in 1 .. next} \cap Known
       /\ \A f \in DOMAIN info : info[f] = parameters[LastOf(next, f)].v
  /\ status = "ok" => ~ \E i \in DOMAIN parameters : MistypedField(parameters[i])
  /\ status = "error" => \E i \in DOMAIN parameters : MistypedField(parameters[i])
================================================================================
