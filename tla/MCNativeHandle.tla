---------------------------- MODULE MCNativeHandle ----------------------------
(* Instances of NativeHandle for TLC. *)
EXTENDS NativeHandle, TLC

CONSTANTS g1, g2, g3, g4,          \* goroutines
          c1, d1, p1, v1, v2, s1, s2, \* wrappers: connection, domain, pool, volumes, streams
          o1, o2, o3, o4           \* addresses of native objects

\* The methods of the API with these names on wrappers of these kinds.
Slice(names, kinds) ==
  {s \in Shapes : s.name \in names /\ {s.outer, s.inner, s.makes} \subseteq kinds \cup {"none"}}

\* A pool that lists, creates and clones two volumes, a transfer stream, and a
\* second owner of that stream from AddReference.
StorageKind == (c1 :> "Connect") @@ (p1 :> "StoragePool") @@ (v1 :> "StorageVol")
                 @@ (v2 :> "StorageVol") @@ (s1 :> "Stream") @@ (s2 :> "Stream")
StorageProgram ==
  Slice({"open", "lookup", "ref", "free"}, {"Connect", "StoragePool", "Stream"})
    \cup Slice({"lookup", "list", "free"}, {"StoragePool", "StorageVol"})
    \cup TransferShapes

\* A callback registration nests a domain's lock in its connection's.
RegisterKind == (c1 :> "Connect") @@ (d1 :> "Domain")
RegisterProgram == Slice({"open", "list", "free", "register"}, {"Connect", "Domain"})
LiveProgram == Slice({"open", "lookup", "list", "free", "register"}, {"Connect", "Domain"})
                 \ {Free("Connect")}

Interchangeable == Permutations(Goroutine) \cup Permutations(Object)
===============================================================================
