------------------------------- MODULE MCExamples -------------------------------
(* The commands under examples/ for TLC, with every action their options       *)
(* document and one they do not.                                               *)
EXTENDS Examples

MCHandle ==
  {connection, "pool", "volume", "network", "port", "domain", "snapshot", "checkpoint",
   "child", "secret", "filter"}

StorageActions ==
  {"list-pools", "define-pool", "create-pool", "inspect-pool", "start-pool", "stop-pool",
   "autostart-pool", "refresh-pool", "undefine-pool", "list-volumes", "create-volume",
   "inspect-volume", "resize-volume", "wipe-volume", "delete-volume", "other"}
NetworkActions ==
  {"list", "inspect", "define", "create", "start", "stop", "autostart", "undefine",
   "list-ports", "create-port", "inspect-port", "delete-port", "other"}

MCCommand ==
  {runStorage(a, by) : a \in StorageActions, by \in {"key", "path", "name"}}
    \cup {runNetwork(a) : a \in NetworkActions}
    \cup {runSnapshots(k, a) : k \in {"snapshot", "checkpoint", "other"},
            a \in {"list", "create", "current", "inspect", "revert", "children", "delete"}}
    \cup {runDomain(a) : a \in {"list", "inspect", "define", "start", "shutdown", "destroy",
                                "undefine", "other"}}
    \cup {runSecrets(a) : a \in {"list", "inspect", "define", "set", "undefine", "other"}}
    \cup {runFilters(a) : a \in {"list", "inspect", "define", "undefine", "other"}}
    \cup {runParameters(a, g) : a \in {"get", "set"},
            g \in {"memory", "numa", "scheduler", "blockio", "other"}}
    \cup {runInventory, mainListDomains}

\* The command that does otherwise than the documents say.
MCSecretsGet == {runSecrets("get")}
================================================================================
