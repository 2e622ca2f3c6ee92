CONSTANTS
  Half32 = 2
  Half64 = 4
  FieldLength = 2
  Counters = {"timeElapsed", "memTotal"}
  Datum = {0, 1}
  JobLength = 2
  StatsParameter <- MCParameter
  StatsHalf32 = 8
  StatsLength = 3
  Words = {4, 8}
  MaxArgs = 1
  MaxFields = 3
SPECIFICATION ConversionsSpec
INVARIANTS ValuesArrive NamesEnd InfoIsTrue SentinelsStayUnset DevicesKeepTheirCounters TypesAgree
CHECK_DEADLOCK FALSE
