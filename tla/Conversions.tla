----------------------------- MODULE Conversions -----------------------------
(***************************************************************************)
(* The conversions that share no state with anything else: a parameter on  *)
(* its way to libvirt and back (ParamCodec), the statistics of a job       *)
(* (JobStats) and of a domain (DomainStats), and the types of the          *)
(* generated binding (AbiTypes).  In a behaviour one of them is at work    *)
(* and the others have returned.                                           *)
(***************************************************************************)
EXTENDS ParamCodec, Sequences, FiniteSets

CONSTANTS Counters, Datum, JobLength,                \* JobStats
          StatsParameter, StatsHalf32, StatsLength,  \* DomainStats
          Words, MaxArgs, MaxFields                  \* AbiTypes

VARIABLES jobParameters, jobNext, info, status,
          statsParameters, statsNext, counters, created, devices, positions, done,
          word, kind, parts, mapped, pc

jobVars == <<jobParameters, jobNext, info, status>>
statsVars == <<statsParameters, statsNext, counters, created, devices, positions, done>>
abiVars == <<word, kind, parts, mapped, pc>>

--------------------------------------------------------------------------------
Job == INSTANCE JobStats WITH parameters <- jobParameters, next <- jobNext,
                              MaxParams <- JobLength
Stats == INSTANCE DomainStats WITH parameters <- statsParameters, next <- statsNext,
                                   Parameter <- StatsParameter, MaxParams <- StatsLength,
                                   Half32 <- StatsHalf32
Abi == INSTANCE AbiTypes

ASSUME CountersAssumption == Counters \cap (DOMAIN Job!Typed \cup {"other"}) = {}
\* A number fits in 64 bits, and libvirt sends a state as an int.
ASSUME StatsAssumption ==
  /\ StatsHalf32 \in Nat \ {0}
  /\ \A p \in StatsParameter :
       /\ p.group \in Stats!Plain \cup Stats!Devices \cup {"other"} /\ p.index \in Int /\ p.v \in Int
       /\ p.go \in Stats!Integral =>
            p.v < IF p.group = "state" THEN StatsHalf32 ELSE 4 * StatsHalf32 * StatsHalf32

--------------------------------------------------------------------------------
(* What each is when it has returned: a parameter refused, an empty list    *)
(* read, a structure without a field refused.                               *)
CodecReturned ==
  /\ input = (CHOOSE p \in Parameters : ~ Accepts(p))
  /\ stage = "refused" /\ wire = << >> /\ output = << >>
JobReturned == jobParameters = << >> /\ jobNext = 0 /\ info = << >> /\ status = "ok"
StatsReturned ==
  /\ statsParameters = << >> /\ statsNext = 0 /\ done = TRUE
  /\ counters = [g \in Stats!Plain |-> << >>] /\ created = {"vcpu"}
  /\ devices = [g \in Stats!Devices |-> << >>] /\ positions = devices
AbiReturned ==
  /\ word = CHOOSE w \in Words : TRUE
  /\ kind = "struct" /\ parts = << >> /\ mapped = << >> /\ pc = "error"

ConversionsInit ==
  \/ Init /\ JobReturned /\ StatsReturned /\ AbiReturned
  \/ CodecReturned /\ Job!Init /\ StatsReturned /\ AbiReturned
  \/ CodecReturned /\ JobReturned /\ Stats!Init /\ AbiReturned
  \/ CodecReturned /\ JobReturned /\ StatsReturned /\ Abi!Init

ConversionsNext ==
  \/ Next /\ UNCHANGED <<jobVars, statsVars, abiVars>>
  \/ Job!Next /\ UNCHANGED <<vars, statsVars, abiVars>>
  \/ Stats!Next /\ UNCHANGED <<vars, jobVars, abiVars>>
  \/ Abi!Next /\ UNCHANGED <<vars, jobVars, statsVars>>

ConversionsSpec == ConversionsInit /\ [][ConversionsNext]_<<vars, jobVars, statsVars, abiVars>>

--------------------------------------------------------------------------------
\* A job's statistics are what libvirt sent last (domain_job.go:225-333): see
\* JobStats.
InfoIsTrue == Job!InfoIsTrue

\* Sentinels leave their counter unset (domain_stats.go:110): see DomainStats.
SentinelsStayUnset == Stats!SentinelsStayUnset

\* A disk or an interface has its own counters, in order of index
\* (domain_stats.go:222-289): see DomainStats.
DevicesKeepTheirCounters == Stats!DevicesKeepTheirCounters

\* Each generated type takes the place of its C type, in calls and in
\* structures (internal/generator/generator.go:511-760): see AbiTypes.
TypesAgree == Abi!CallsAgree /\ Abi!LayoutsAgree
================================================================================
