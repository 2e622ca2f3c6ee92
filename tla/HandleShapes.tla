----------------------------- MODULE HandleShapes -----------------------------
(***************************************************************************)
(* The ownership shape of every method of the high-level API: which        *)
(* wrapper(s) it locks, in which order, and which references libvirt hands *)
(* to it.  Two methods of one shape differ only in the data they carry, so *)
(* a file of methods is the set of its shapes.                             *)
(*                                                                         *)
(*   name   "open"     no wrapper is locked, one reference is returned     *)
(*          "use"      no reference changes hands                          *)
(*          "lookup"   one reference is returned                           *)
(*          "list"     any number of references is returned                *)
(*          "ref"      one more reference to the same native object        *)
(*          "register" as "use", the outer wrapper checked before the      *)
(*                     inner one is locked                                 *)
(*          "free"     the reference of the outer wrapper is released      *)
(*   outer, inner      the kinds of the wrappers locked, in locking order  *)
(*   makes             the kind of the new wrappers                        *)
(***************************************************************************)
Names == {"open", "use", "lookup", "list", "ref", "register", "free"}

Kinds == {"Connect", "Domain", "DomainSnapshot", "DomainCheckpoint", "Interface",
          "Network", "NetworkPort", "NWFilter", "NodeDevice", "Secret",
          "StoragePool", "StorageVol", "Stream"}

Shape(n, o, i, m) == [name |-> n, outer |-> o, inner |-> i, makes |-> m]

Use(k)  == Shape("use", k, "none", "none")
Free(k) == Shape("free", k, "none", "none")
Gives(owner, k) == {Shape("lookup", owner, "none", k), Shape("list", owner, "none", k)}
Looks(owner, k) == {Shape("lookup", owner, "none", k)}

ConnectShapes == {Shape("open", "none", "none", "Connect"), Use("Connect"), Free("Connect")}
                   \cup Gives("Connect", "Domain")
DomainShapes == {Use("Domain"), Free("Domain")}
TypedParamShapes == {Use("Domain")}
DomainStatsShapes == {Use("Domain")}
DomainJobShapes == {Use("Domain")}
InterfaceShapes == {Use("Interface"), Free("Interface")} \cup Gives("Connect", "Interface")
NetworkShapes == {Use("Network"), Free("Network")}
                   \cup Gives("Connect", "Network") \cup Gives("Network", "NetworkPort")
NetworkPortShapes == {Use("NetworkPort"), Free("NetworkPort")}
NodeDeviceShapes == {Use("NodeDevice"), Free("NodeDevice")} \cup Gives("Connect", "NodeDevice")
NWFilterShapes == {Use("NWFilter"), Free("NWFilter")} \cup Gives("Connect", "NWFilter")
SecretShapes == {Use("Secret"), Free("Secret")} \cup Gives("Connect", "Secret")
SnapshotShapes == {Use("DomainSnapshot"), Free("DomainSnapshot")} \cup Gives("Domain", "DomainSnapshot")
CheckpointShapes == {Use("DomainCheckpoint"), Free("DomainCheckpoint")}
                      \cup Gives("Domain", "DomainCheckpoint")
                      \cup {Shape("list", "DomainCheckpoint", "none", "DomainCheckpoint")}
PoolShapes == {Use("StoragePool"), Free("StoragePool"),
               Shape("lookup", "StoragePool", "StorageVol", "StorageVol")}
                \cup Gives("Connect", "StoragePool") \cup Gives("StoragePool", "StorageVol")
VolumeShapes == {Use("StorageVol"), Free("StorageVol")} \cup Looks("Connect", "StorageVol")
StreamShapes == {Use("Stream"), Free("Stream"), Shape("ref", "Stream", "none", "Stream")}
                  \cup Looks("Connect", "Stream")
TransferShapes == {Shape("use", "StorageVol", "Stream", "none")}
\* Mutant: one registration locks the domain first.
CallbackShapes_Reversed == {Shape("register", "Connect", "Domain", "none"),
                            Shape("register", "Domain", "Connect", "none")}

CallbackShapes == {Use("Connect"),
                   Shape("register", "Connect", "Domain", "none"),
                   Shape("register", "Connect", "NodeDevice", "none")}

Shapes == ConnectShapes \cup DomainShapes \cup TypedParamShapes \cup DomainStatsShapes
            \cup DomainJobShapes \cup InterfaceShapes \cup NetworkShapes \cup NetworkPortShapes
            \cup NodeDeviceShapes \cup NWFilterShapes \cup SecretShapes \cup SnapshotShapes
            \cup CheckpointShapes \cup PoolShapes \cup VolumeShapes \cup StreamShapes
            \cup TransferShapes \cup CallbackShapes
===============================================================================
