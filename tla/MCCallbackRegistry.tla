-------------------------- MODULE MCCallbackRegistry --------------------------
(* Instances of CallbackRegistry for TLC. *)
EXTENDS CallbackRegistry, TLC

CONSTANTS r1, r2, r3, r4,  \* registrations
          c1,              \* the connection
          t1, t2,          \* addresses
          e1, e2           \* events

\* Two registrations of the connection's one close callback, a domain callback
\* and a node-device callback.
MixedEvents == (r1 :> "close") @@ (r2 :> "close") @@ (r3 :> "domain") @@ (r4 :> "device")
OneConnection == [r \in Reg |-> c1]

\* Two registrations of the close callback and another.
CloseEvents == [r \in Reg |-> IF r = r3 THEN "domain" ELSE "close"]

\* Addresses and events, and registrations for the same event, are alike.
Alike == Permutations(Token) \cup Permutations(Occurrence) \cup Permutations({r1, r2})
Addresses == Permutations(Token)
===============================================================================
