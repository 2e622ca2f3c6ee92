---------------------------- MODULE MCConversions ----------------------------
(***************************************************************************)
(* The conversions, with the statistics of a domain that has disks 0 and 2 *)
(* and an interface 1: sentinels, an unknown key, a name, and indices that *)
(* are not numbers.                                                        *)
(***************************************************************************)
EXTENDS Conversions

\* Missing and Bad of DomainStats.
NoIndex == -3
NoNumber == -2
ASSUME SpecialIndices == NoIndex = Stats!Missing /\ NoNumber = Stats!Bad

P(g, i, k, go, v) == [group |-> g, index |-> i, key |-> k, go |-> go, v |-> v]

MCParameter ==
  { P("state", NoIndex, "state", "int32", 1),
    P("state", NoIndex, "state", "int32", -1),
    P("cpu", NoIndex, "time", "uint64", 2),
    P("cpu", NoIndex, "time", "int64", -1),
    P("cpu", NoIndex, "other", "uint64", 1),
    P("vcpu", NoIndex, "current", "uint32", 3),
    P("balloon", NoIndex, "rss", "string", 1),
    P("block", 2, "rd.bytes", "uint64", 1),
    P("block", 0, "rd.bytes", "uint64", 2),
    P("block", 2, "rd.bytes", "int64", -1),
    P("block", 0, "name", "string", 3),
    P("block", NoIndex, "other", "uint32", 2),
    P("block", NoNumber, "rd.bytes", "uint64", 4),
    P("net", 1, "rx.bytes", "uint64", 5),
    P("net", 0, "other", "uint64", 5),
    P("other", NoIndex, "other", "uint64", 6) }
================================================================================
