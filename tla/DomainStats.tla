------------------------------ MODULE DomainStats ------------------------------
(***************************************************************************)
(* decodeDomainStats of domain_stats.go: the bulk statistics of a domain,  *)
(* a list of parameters named state.*, cpu.*, vcpu.*, balloon.*,           *)
(* block.<index>.* and net.<index>.*, become a DomainStats.                *)
(*                                                                         *)
(* A parameter is its group, its index (a number, or Bad when the text is  *)
(* not one, or Missing when the name has no second dot), its key and its   *)
(* value.  A counter is set when its key is in the function that holds the *)
(* group's counters.                                                       *)
(***************************************************************************)
EXTENDS Integers, Sequences, FiniteSets

CONSTANTS Parameter,    \* the parameters libvirt may send: [group, index, key, go, v]
          MaxParams,    \* bound: the longest list
          Half32        \* 2^31: a state is kept in 32 bits

Bad == -2
Missing == -3

Plain == {"state", "cpu", "vcpu", "balloon"}
Devices == {"block", "net"}

VARIABLES
  parameters,  \* the record of libvirt
  next,        \* the parameters taken so far
  counters,    \* counters[g]: key -> number, for the plain groups
  created,     \* the plain groups whose structure exists
  devices,     \* devices[g]: the entries made so far, in order
  positions,   \* positions[g]: index -> place in devices[g]
  done         \* whether decodeDomainStats has returned

vars == <<parameters, next, counters, created, devices, positions, done>>

Init ==
  /\ parameters \in UNION {[1 .. n -> Parameter] : n \in 0 .. MaxParams}
  /\ next = 0 /\ done = FALSE
  /\ counters = [g \in Plain |-> << >>] /\ created = {"vcpu"}
  /\ devices = [g \in Devices |-> << >>] /\ positions = [g \in Devices |-> << >>]

--------------------------------------------------------------------------------
\* An integer that is not a negative sentinel.
Integral == {"int32", "uint32", "int64", "uint64"}
AnyNumber(p) == p.go \in Integral
Available(p) == p.go \in Integral /\ p.v >= 0

\* A conversion to uint64 makes a sentinel huge: it must not be reached.
Number64(p) == p.v % (4 * Half32 * Half32)
\* DomainState and the reason are int32.
Cut32(v) == ((v + Half32) % (2 * Half32)) - Half32
NumberOf(p) == IF p.group = "state" THEN Cut32(Number64(p)) ELSE Number64(p)

\* *present, *destination = available, number
Put(f, p) ==
  IF Available(p)
  THEN [k \in DOMAIN f \cup {p.key} |-> IF k = p.key THEN NumberOf(p) ELSE f[k]]
  ELSE [k \in DOMAIN f \ {p.key} |-> f[k]]

\* A state that is not available is skipped; the other groups get their
\* structure whatever they bring.  A key the type has no field for is ignored.
Modelled(p) == p.key # "other"

DecodePlain(p) ==
  /\ p.group \in Plain /\ UNCHANGED <<devices, positions>>
  /\ IF p.group = "state" /\ ~ Available(p)
     THEN UNCHANGED <<counters, created>>
     ELSE /\ created' = created \cup {p.group}
          /\ counters' = IF Modelled(p)
                         THEN [counters EXCEPT ![p.group] = Put(@, p)]
                         ELSE counters

\* The entry of an index is made when the index is first seen.
HasIndex(p) == p.index >= 0
PositionByIndex(g, i) == IF i < Len(devices[g]) THEN i + 1 ELSE Len(devices[g]) + 1
PositionOf(g, i) ==
  IF i \in DOMAIN positions[g] THEN positions[g][i] ELSE Len(devices[g]) + 1

Entry(g, i) ==
  LET at == PositionOf(g, i) IN
  IF at <= Len(devices[g]) THEN devices[g][at] ELSE [index |-> i, name |-> 0, counter |-> << >>]

\* A name is kept only as a string, a counter only under the keys of the type.
Updated(e, p) ==
  IF p.key = "name"
  THEN [e EXCEPT !.name = IF p.go = "string" THEN p.v ELSE @]
  ELSE IF Modelled(p) THEN [e EXCEPT !.counter = Put(@, p)] ELSE e

DecodeDevice(p) ==
  /\ p.group \in Devices /\ UNCHANGED <<counters, created>>
  /\ IF ~ HasIndex(p)
     THEN UNCHANGED <<devices, positions>>
     ELSE LET at == PositionOf(p.group, p.index)
              e == Updated(Entry(p.group, p.index), p)
          IN /\ devices' = [devices EXCEPT ![p.group] =
                  IF at <= Len(@) THEN [@ EXCEPT ![at] = e] ELSE Append(@, e)]
             /\ positions' = [positions EXCEPT ![p.group] =
                  [i \in DOMAIN @ \cup {p.index} |-> IF i = p.index THEN at ELSE @[i]]]

DecodeOther(p) == p.group = "other" /\ UNCHANGED <<counters, created, devices, positions>>

decodeDomainStats ==
  /\ next < Len(parameters) /\ next' = next + 1
  /\ LET p == parameters[next'] IN DecodePlain(p) \/ DecodeDevice(p) \/ DecodeOther(p)
  /\ UNCHANGED <<parameters, done>>

\* slices.SortFunc by index: the n-th entry has n - 1 with a lower index.
Below(es, x) == {j \in 1 .. Len(es) : es[j].index < x}
EntryAt(es, n) ==
  CHOOSE e \in {es[i] : i \in 1 .. Len(es)} : Cardinality(Below(es, e.index)) = n - 1
Sorted(es) == [n \in 1 .. Len(es) |-> EntryAt(es, n)]

Sort ==
  /\ next = Len(parameters) /\ ~ done /\ done' = TRUE
  /\ devices' = [g \in Devices |-> Sorted(devices[g])]
  /\ UNCHANGED <<parameters, next, counters, created, positions>>

Next == decodeDomainStats \/ Sort

Spec == Init /\ [][Next]_vars

--------------------------------------------------------------------------------
Sent == {parameters[i] : i \in 1 .. next}

\* The keys that name a counter, and the parameters that have a number for it.
Keys == {p.key : p \in Parameter} \ {"name", "other"}
HasNumber(p) == p.go \in Integral /\ p.v >= 0

\* Parameter j is about counter k of group g, and of index x there: for a
\* state, which skips sentinels, only when it has a number.
Speaks(j, g, x, k) ==
  /\ parameters[j].group = g /\ parameters[j].key = k
  /\ g \in Devices => parameters[j].index = x
  /\ g = "state" => HasNumber(parameters[j])

\* Of the first n parameters, the one that settles what is known of a counter:
\* the last one about it.
Settles(n, i, g, x, k) ==
  i \in 1 .. n /\ Speaks(i, g, x, k) /\ \A j \in i + 1 .. n : ~ Speaks(j, g, x, k)

\* The counters f are what the first n parameters last said for group g and
\* index x.
Tells(n, f, g, x) ==
  \A k \in Keys :
    /\ k \in DOMAIN f <=> \E i \in 1 .. n : Settles(n, i, g, x, k) /\ HasNumber(parameters[i])
    /\ \A i \in 1 .. n : Settles(n, i, g, x, k) /\ k \in DOMAIN f => f[k] = parameters[i].v

\* "Negative sentinel values remain unset" (domain_stats.go:110): each counter
\* is set to the number libvirt sent last, or not at all; none is a sentinel
\* turned into a huge number, none is zero in place of unavailable.
SentinelsStayUnset == \A g \in Plain : Tells(next, counters[g], g, Missing)

\* The entry for a disk or an interface has the counters of its own index,
\* and of no other, in whichever order the parameters came and however sparse
\* the indices are: sorting and growing the list move no counter to another
\* device (domain_stats.go:222-289).  "Device slices are sorted by native index
\* without allocating entries for gaps" (domain_stats.go:15): what is returned
\* has one entry for each index libvirt named, and no other, in order.
DevicesKeepTheirCounters ==
  \A g \in Devices :
    /\ \A n \in 1 .. Len(devices[g]) : Tells(next, devices[g][n].counter, g, devices[g][n].index)
    /\ {devices[g][n].index : n \in 1 .. Len(devices[g])} =
         {p.index : p \in {q \in Sent : q.group = g /\ q.index >= 0}}
    /\ done => \A m, n \in 1 .. Len(devices[g]) :
                 m < n => devices[g][m].index < devices[g][n].index
================================================================================
