----------------------------- MODULE MCNativeCall -----------------------------
(* Instances of NativeCall for TLC. *)
EXTENDS NativeCall, TLC

CONSTANTS g1, g2,       \* goroutines
          t1, t2,       \* threads
          a1, a2, a3    \* calls: a1 runs the event loop

Alike == Permutations(Goroutine) \cup Permutations(Thread) \cup Permutations(Call \ Looping)
===============================================================================
