----------------------------- MODULE ExampleScripts -----------------------------
(***************************************************************************)
(* The commands under examples/ as scripts of Session, one definition per  *)
(* function.  A step names the calls it makes on its handle; any of them   *)
(* may fail, so their order is left out.  "check" stands for what fails    *)
(* without a handle: options, files, conversions.                          *)
(***************************************************************************)
EXTENDS Session

Step(do, h, from, calls) == [do |-> do, h |-> h, from |-> from, calls |-> calls]

check == <<Step("check", None, None, {})>>
reject == <<Step("reject", None, None, {})>>
open == <<Step("open", connection, None, {})>>
get(h, from, call) == <<Step("get", h, from, {call})>>
list(h, from, call) == <<Step("list", h, from, {call})>>
use(h, calls) == <<Step("use", h, None, calls)>>
each(h, calls) == <<Step("each", h, None, calls)>>
leave(h) == <<Step("leave", h, None, {})>>
drain(h, calls) == <<Step("drain", h, None, calls)>>

\* run of every example: its checks, the connection, the action.
RunOf(readOnly, action) ==
  [readOnly |-> readOnly, fatal |-> FALSE, script |-> check \o open \o action]

\* What libvirt refuses on a read-only connection.
RefusedCalls ==
  {"pool.DefineXML", "pool.CreateXML", "pool.Create", "pool.Destroy", "pool.SetAutostart",
   "pool.Refresh", "pool.Undefine", "volume.CreateXML", "volume.Resize", "volume.Wipe",
   "volume.Delete", "network.DefineXML", "network.CreateXML", "network.Create",
   "network.Destroy", "network.SetAutostart", "network.Undefine", "port.CreateXML",
   "port.Delete", "snapshot.CreateXML", "snapshot.Revert", "snapshot.Delete",
   "checkpoint.CreateXML", "checkpoint.Delete", "domain.DefineXML", "domain.Create",
   "domain.Shutdown", "domain.Destroy", "domain.Undefine", "secret.DefineXML",
   "secret.SetValue", "secret.GetValue", "secret.Undefine", "filter.DefineXML",
   "filter.Undefine", "domain.SetMemoryParameters", "domain.SetNumaParameters",
   "domain.SetSchedulerParameters", "domain.SetBlockIOParameters"}

--------------------------------------------------------------------------------
(* examples/storage-lifecycle                                               *)

\* Mutant: refreshing changes nothing, it seems.
isReadOnlyWithRefresh(action) ==
  action \in {"list-pools", "inspect-pool", "list-volumes", "inspect-volume", "refresh-pool"}
isReadOnlyAction(action) ==
  action \in {"list-pools", "inspect-pool", "list-volumes", "inspect-volume"}

printPool(xml) ==
  {"pool.GetName", "pool.GetUUIDString", "pool.IsActive", "pool.IsPersistent",
   "pool.GetAutostart"} \cup (IF xml THEN {"pool.GetXMLDesc"} ELSE {})
printVolume == {"volume.GetName", "volume.GetKey", "volume.GetPath", "volume.GetXMLDesc"}
readXML == check

listPools == list("pool", connection, "pool.ListAll") \o each("pool", printPool(FALSE))

createPool(action) ==
  readXML
    \o get("pool", connection,
           IF action = "define-pool" THEN "pool.DefineXML" ELSE "pool.CreateXML")
    \o use("pool", printPool(FALSE))

listVolumes == list("volume", "pool", "volume.ListAll") \o each("volume", printVolume)
useVolume(calls) == use("volume", calls) \o leave("volume")

actOnPool(action) ==
  check \o get("pool", connection, "pool.LookupByName") \o
    CASE action = "inspect-pool" -> use("pool", printPool(TRUE))
      [] action = "start-pool" -> use("pool", {"pool.Create"})
      [] action = "stop-pool" -> use("pool", {"pool.Destroy"})
      [] action = "autostart-pool" -> use("pool", {"pool.SetAutostart"})
      [] action = "refresh-pool" -> use("pool", {"pool.Refresh"})
      [] action = "undefine-pool" -> use("pool", {"pool.Undefine"})
      [] action = "list-volumes" -> listVolumes
      [] action = "create-volume" ->
           readXML \o get("volume", "pool", "volume.CreateXML") \o useVolume(printVolume)

\* The pool is released when the volume is not found there; its error is
\* dropped, that of the lookup is returned.
lookupVolume(by) ==
  CASE by = "key" -> get("volume", connection, "volume.LookupByKey")
    [] by = "path" -> get("volume", connection, "volume.LookupByPath")
    [] by = "name" -> check \o get("pool", connection, "pool.LookupByName")
                            \o get("volume", "pool", "volume.LookupByName")

actOnVolume(action, by) ==
  lookupVolume(by) \o
    CASE action = "inspect-volume" -> use("volume", printVolume)
      [] action = "resize-volume" -> check \o use("volume", {"volume.Resize"})
      [] action = "wipe-volume" -> use("volume", {"volume.Wipe"})
      [] action = "delete-volume" -> use("volume", {"volume.Delete"})

runStorage(action, by) ==
  RunOf(isReadOnlyAction(action),
    CASE action = "list-pools" -> listPools
      [] action \in {"define-pool", "create-pool"} -> createPool(action)
      [] action \in {"inspect-pool", "start-pool", "stop-pool", "autostart-pool",
                     "refresh-pool", "undefine-pool", "list-volumes", "create-volume"} ->
           actOnPool(action)
      [] action \in {"inspect-volume", "resize-volume", "wipe-volume", "delete-volume"} ->
           actOnVolume(action, by)
      [] OTHER -> reject)

--------------------------------------------------------------------------------
(* examples/network-lifecycle                                               *)

isReadOnlyNetwork(action) == action \in {"list", "inspect", "list-ports", "inspect-port"}

printNetwork(xml) ==
  {"network.GetName", "network.GetUUIDString", "network.IsActive", "network.IsPersistent",
   "network.GetAutostart"} \cup (IF xml THEN {"network.GetXMLDesc"} ELSE {})
printPort == {"port.GetUUIDString", "port.GetXMLDesc"}
networkXML == check

listNetworks ==
  list("network", connection, "network.ListAll") \o each("network", printNetwork(FALSE))

createNetwork(action) ==
  networkXML
    \o get("network", connection,
           IF action = "define" THEN "network.DefineXML" ELSE "network.CreateXML")
    \o use("network", printNetwork(FALSE))

listPorts == list("port", "network", "port.ListAll") \o each("port", {"port.GetUUIDString"})
usePort(calls) == use("port", calls) \o leave("port")

actOnNetwork(action) ==
  get("network", connection, "network.LookupByName") \o
    CASE action = "inspect" -> use("network", printNetwork(TRUE))
      [] action = "start" -> use("network", {"network.Create"})
      [] action = "stop" -> use("network", {"network.Destroy"})
      [] action = "autostart" -> use("network", {"network.SetAutostart"})
      [] action = "undefine" -> use("network", {"network.Undefine"})
      [] action = "list-ports" -> listPorts
      [] action = "create-port" ->
           networkXML \o get("port", "network", "port.CreateXML") \o usePort(printPort)
      [] action \in {"inspect-port", "delete-port"} ->
           check \o get("port", "network", "port.LookupByUUIDString")
             \o usePort(IF action = "inspect-port" THEN printPort ELSE {"port.Delete"})

runNetwork(action) ==
  RunOf(isReadOnlyNetwork(action),
    CASE action = "list" -> listNetworks
      [] action \in {"define", "create"} -> createNetwork(action)
      [] action \in {"inspect", "start", "stop", "autostart", "undefine", "list-ports",
                     "create-port", "inspect-port", "delete-port"} ->
           check \o actOnNetwork(action)
      [] OTHER -> reject)

--------------------------------------------------------------------------------
(* examples/domain-snapshots                                                *)

printSnapshot == {"snapshot.GetName", "snapshot.GetXMLDesc"}
printCheckpoint == {"checkpoint.GetName", "checkpoint.GetXMLDesc"}
snapshotXML == check

listSnapshots == list("snapshot", "domain", "snapshot.ListAll") \o each("snapshot", {"snapshot.GetName"})
listCheckpoints ==
  list("checkpoint", "domain", "checkpoint.ListAll") \o each("checkpoint", {"checkpoint.GetName"})
listCheckpointChildren ==
  list("child", "checkpoint", "checkpoint.ListAllChildren")
    \o each("child", {"checkpoint.GetName"}) \o leave("child")

useSnapshot(calls) == use("snapshot", calls) \o leave("snapshot")
useCheckpoint(body) == body \o leave("checkpoint")

runSnapshotAction(action) ==
  CASE action = "list" -> listSnapshots
    [] action = "create" ->
         snapshotXML \o get("snapshot", "domain", "snapshot.CreateXML") \o useSnapshot(printSnapshot)
    [] action = "current" ->
         get("snapshot", "domain", "snapshot.Current") \o useSnapshot(printSnapshot)
    [] action \in {"inspect", "revert", "delete"} ->
         check \o get("snapshot", "domain", "snapshot.LookupByName")
           \o useSnapshot(CASE action = "inspect" -> printSnapshot
                            [] action = "revert" -> {"snapshot.Revert"}
                            [] action = "delete" -> {"snapshot.Delete"})
    [] OTHER -> reject

runCheckpointAction(action) ==
  CASE action = "list" -> listCheckpoints
    [] action = "create" ->
         snapshotXML \o get("checkpoint", "domain", "checkpoint.CreateXML")
           \o useCheckpoint(use("checkpoint", printCheckpoint))
    [] action \in {"inspect", "children", "delete"} ->
         check \o get("checkpoint", "domain", "checkpoint.LookupByName")
           \o useCheckpoint(CASE action = "inspect" -> use("checkpoint", printCheckpoint)
                              [] action = "children" -> listCheckpointChildren
                              [] action = "delete" -> use("checkpoint", {"checkpoint.Delete"}))
    [] OTHER -> reject

runSnapshots(kind, action) ==
  RunOf(action \in {"list", "inspect", "current", "children"},
    get("domain", connection, "domain.LookupByName") \o
      CASE kind = "snapshot" -> runSnapshotAction(action)
        [] kind = "checkpoint" -> runCheckpointAction(action)
        [] OTHER -> reject)

--------------------------------------------------------------------------------
(* examples/domain-lifecycle                                                *)

printDomain(xml) ==
  {"domain.GetName", "domain.GetUUIDString", "domain.GetState", "domain.IsActive"}
    \cup (IF xml THEN {"domain.GetXMLDesc"} ELSE {})

listDomains == list("domain", connection, "domain.ListAll") \o each("domain", printDomain(FALSE))
defineDomain == check \o get("domain", connection, "domain.DefineXML") \o use("domain", printDomain(FALSE))

actOnDomain(action) ==
  get("domain", connection, "domain.LookupByName") \o
    use("domain", CASE action = "inspect" -> printDomain(TRUE)
                    [] action = "start" -> {"domain.Create"}
                    [] action = "shutdown" -> {"domain.Shutdown"}
                    [] action = "destroy" -> {"domain.Destroy"}
                    [] action = "undefine" -> {"domain.Undefine"})

runDomain(action) ==
  RunOf(action \in {"list", "inspect"},
    CASE action = "list" -> listDomains
      [] action = "define" -> defineDomain
      [] action \in {"inspect", "start", "shutdown", "destroy", "undefine"} ->
           check \o actOnDomain(action)
      [] OTHER -> reject)

--------------------------------------------------------------------------------
(* examples/secrets                                                         *)

readFile == check
writeSecretFile == check

listSecrets == list("secret", connection, "secret.ListAll") \o each("secret", {"secret.GetUUIDString"})
defineSecret ==
  readFile \o get("secret", connection, "secret.DefineXML") \o use("secret", {"secret.GetUUIDString"})

actOnSecret(action) ==
  get("secret", connection, "secret.LookupByUUIDString") \o
    CASE action = "inspect" -> use("secret", {"secret.GetXMLDesc"})
      [] action = "set" -> readFile \o use("secret", {"secret.SetValue"})
      [] action = "get" -> check \o use("secret", {"secret.GetValue"}) \o writeSecretFile
      [] action = "undefine" -> use("secret", {"secret.Undefine"})

runSecrets(action) ==
  RunOf(action \in {"list", "inspect", "get"},
    CASE action = "list" -> listSecrets
      [] action = "define" -> defineSecret
      [] action \in {"inspect", "set", "get", "undefine"} -> check \o actOnSecret(action)
      [] OTHER -> reject)

--------------------------------------------------------------------------------
(* examples/inventory, network-filters, typed-parameters, list-domains      *)

printDomains ==
  list("domain", connection, "domain.ListAll")
    \o each("domain", {"domain.GetName", "domain.GetUUIDString", "domain.GetState", "domain.IsActive"})
    \o leave("domain")
printNetworks ==
  list("network", connection, "network.ListAll")
    \o each("network", {"network.GetName", "network.GetUUIDString", "network.IsActive",
                        "network.IsPersistent"})
    \o leave("network")
printStoragePools ==
  list("pool", connection, "pool.ListAll")
    \o each("pool", {"pool.GetName", "pool.GetUUIDString", "pool.IsActive", "pool.IsPersistent"})
    \o leave("pool")

runInventory ==
  RunOf(TRUE, use(connection, {"connection.GetURI", "connection.GetVersion",
                               "connection.GetLibVersion", "connection.IsAlive"})
                \o printDomains \o printNetworks \o printStoragePools)

listFilters ==
  list("filter", connection, "filter.ListAll") \o each("filter", {"filter.GetName", "filter.GetUUIDString"})
defineFilter == check \o get("filter", connection, "filter.DefineXML") \o use("filter", {"filter.GetName"})
actOnFilter(action) ==
  get("filter", connection, "filter.LookupByName")
    \o use("filter", IF action = "undefine" THEN {"filter.Undefine"} ELSE {"filter.GetXMLDesc"})

runFilters(action) ==
  RunOf(action \in {"list", "inspect"},
    CASE action = "list" -> listFilters
      [] action = "define" -> defineFilter
      [] action \in {"inspect", "undefine"} -> check \o actOnFilter(action)
      [] OTHER -> reject)

parameterMethods(group) ==
  CASE group = "memory" -> [get |-> "domain.GetMemoryParameters", set |-> "domain.SetMemoryParameters"]
    [] group = "numa" -> [get |-> "domain.GetNumaParameters", set |-> "domain.SetNumaParameters"]
    [] group = "scheduler" ->
         [get |-> "domain.GetSchedulerParameters", set |-> "domain.SetSchedulerParameters"]
    [] group = "blockio" ->
         [get |-> "domain.GetBlockIOParameters", set |-> "domain.SetBlockIOParameters"]
parseParameter == check

runParameters(action, group) ==
  RunOf(action = "get",
    get("domain", connection, "domain.LookupByName") \o
      IF group = "other" THEN reject
      ELSE (IF action = "set" THEN parseParameter \o use("domain", {parameterMethods(group).set})
                              ELSE << >>)
             \o use("domain", {parameterMethods(group).get}))

mainListDomains ==
  [readOnly |-> TRUE, fatal |-> TRUE,
   script |-> open \o list("domain", connection, "domain.ListAll") \o drain("domain", {"domain.GetName"})]
================================================================================
