----------------------------- MODULE ExamplesProofs -----------------------------
(***************************************************************************)
(* What a command owes at any moment is what it holds: the deferred        *)
(* releases account for every reference but those libvirt refused to take  *)
(* back.  The theorems about Session are about every set of scripts, those *)
(* of ExampleScripts among them.  A transfer accounts for its bytes in the *)
(* same way, and what it reports is what libvirt confirmed.                *)
(***************************************************************************)
EXTENDS Examples, SequenceTheorems, TLAPS

Debt == [h : Handle, n : Nat]

Control ==
  /\ command \in Command /\ step \in Nat \ {0} /\ element \in Nat
  /\ pc \in {"run", "unwind", "done"}
  /\ err \in BOOLEAN /\ failed \in BOOLEAN

\* Each handle is owed once, with the references that are still to go; of a
\* handle nothing is owed for, nothing is left but what libvirt refused.
Balance ==
  /\ \A i, j \in 1 .. Len(deferred) : deferred[i].h = deferred[j].h => i = j
  /\ \A i \in 1 .. Len(deferred) : live[deferred[i].h] = kept[deferred[i].h] + deferred[i].n
  /\ \A h \in Handle : (\A i \in 1 .. Len(deferred) : deferred[i].h # h) => live[h] = kept[h]

\* What a handle was got from is owed later than it.
Nested ==
  \A i \in 1 .. Len(deferred) :
    LET p == parent[deferred[i].h] IN
    \/ p = None
    \/ kept[p] > 0
    \/ \E j \in 1 .. Len(deferred) : i < j /\ deferred[j].h = p /\ deferred[j].n > 0

\* The releases it owes, what it holds and where that came from.
Books ==
  /\ deferred \in Seq(Debt)
  /\ live \in [Handle -> Nat] /\ kept \in [Handle -> Nat]
  /\ parent \in [Handle -> Handle \cup {None}]
  /\ Balance /\ Nested

\* Of a handle nothing is held and nothing is owed.
Clean(g) ==
  /\ live[g] = 0 /\ kept[g] = 0
  /\ \A j \in 1 .. Len(deferred) : deferred[j].h # g

\* The handles of the steps ahead are not there yet.
Ahead ==
  pc = "run" =>
    \A i \in 1 .. Len(command.script) :
      step <= i /\ Acquires(command.script[i]) => Clean(command.script[i].h)

\* A command that log.Fatal does not cut short ends when all releases are done,
\* and one with a run function has an error when something failed.
Ending ==
  /\ pc = "done" /\ ~ (command.fatal /\ err) => deferred = << >>
  /\ ~ command.fatal => (failed => err)

SessionInv == Control /\ Books /\ Ahead /\ Ending

--------------------------------------------------------------------------------
(* The three things that happen to the sequence of deferred functions.      *)

LEMMA Pushed ==
  ASSUME NEW s \in Seq(Debt), NEW e \in Debt
  PROVE  /\ <<e>> \o s \in Seq(Debt)
         /\ Len(<<e>> \o s) = Len(s) + 1
         /\ (<<e>> \o s)[1] = e
         /\ \A i \in 1 .. Len(s) : (<<e>> \o s)[i + 1] = s[i]
<1>1. <<e>> \in Seq(Debt) /\ Len(<<e>>) = 1 /\ <<e>>[1] = e
  OBVIOUS
<1>2. Len(s) \in Nat
  OBVIOUS
<1> QED
  BY <1>1, <1>2, ConcatProperties

LEMMA Popped ==
  ASSUME NEW s \in Seq(Debt), s # << >>
  PROVE  /\ Tail(s) \in Seq(Debt) /\ Len(Tail(s)) = Len(s) - 1 /\ Len(s) \in Nat \ {0}
         /\ \A i \in 1 .. Len(s) - 1 : Tail(s)[i] = s[i + 1]
  BY HeadTailProperties

Lower(s) == [s EXCEPT ![1].n = @ - 1]

LEMMA Lowered ==
  ASSUME NEW s \in Seq(Debt), s # << >>, s[1].n > 0, NEW t, t = Lower(s)
  PROVE  /\ t \in Seq(Debt) /\ Len(t) = Len(s) /\ Len(s) \in Nat \ {0}
         /\ t[1].h = s[1].h /\ t[1].n = s[1].n - 1 /\ t[1].n \in Nat
         /\ \A i \in 2 .. Len(s) : t[i] = s[i]
         /\ \A i \in 1 .. Len(s) : t[i].h = s[i].h
<1>1. Len(s) \in Nat \ {0} /\ s \in [1 .. Len(s) -> Debt]
  BY EmptySeq, LenProperties
<1>2. s[1] \in Debt /\ [s[1] EXCEPT !.n = @ - 1] \in Debt
  BY <1>1 DEF Debt
<1>3. t = [s EXCEPT ![1] = [s[1] EXCEPT !.n = @ - 1]]
  BY <1>1 DEF Lower
<1>4. t \in [1 .. Len(s) -> Debt]
  BY <1>1, <1>2, <1>3
<1>5. t \in Seq(Debt) /\ Len(t) = Len(s)
  BY <1>1, <1>4, SeqDef, LenProperties
<1> QED
  BY <1>1, <1>2, <1>3, <1>5 DEF Debt

--------------------------------------------------------------------------------
(* The books are kept by each of them.                                      *)

\* A handle that is got, from one that is there, is owed first.
LEMMA GainKeepsBooks ==
  ASSUME Books, NEW h \in Handle, NEW from \in Handle \cup {None}, NEW n \in Nat,
         Clean(h), from = None \/ live[from] > 0, Gain(h, from, n)
  PROVE  /\ Books'
         /\ \A g \in Handle : g # h /\ Clean(g) => Clean(g)'
<1> DEFINE e == [h |-> h, n |-> n]
<1>1. e \in Debt /\ deferred \in Seq(Debt) /\ Len(deferred) \in Nat
  BY LenProperties DEF Books, Debt
<1>2. deferred' = <<e>> \o deferred
  BY DEF Gain, Defer
<1>3. /\ deferred' \in Seq(Debt) /\ Len(deferred') = Len(deferred) + 1
      /\ deferred'[1] = e /\ \A i \in 1 .. Len(deferred) : deferred'[i + 1] = deferred[i]
  BY <1>1, <1>2, Pushed
<1>4. /\ live' \in [Handle -> Nat] /\ kept' \in [Handle -> Nat] /\ kept' = kept
      /\ parent' \in [Handle -> Handle \cup {None}]
      /\ live'[h] = n /\ parent'[h] = from
      /\ \A g \in Handle : g # h => live'[g] = live[g] /\ parent'[g] = parent[g]
  BY DEF Gain, Books
<1>5. \A i \in 2 .. Len(deferred') : i - 1 \in 1 .. Len(deferred) /\ deferred'[i] = deferred[i - 1]
  BY <1>1, <1>3
<1>6. \A i \in 1 .. Len(deferred) : deferred[i] \in Debt /\ deferred[i].h \in Handle
                                    /\ deferred[i].n \in Nat /\ deferred[i].h # h
  <2> TAKE i \in 1 .. Len(deferred)
  <2>1. deferred[i] \in Debt
    BY <1>1, ElementOfSeq
  <2> QED
    BY <2>1 DEF Debt, Clean
<1> HIDE DEF e
<1>7. e.h = h /\ e.n = n
  BY DEF e
<1>8. Balance'
  <2>1. ASSUME NEW i \in 1 .. Len(deferred'), NEW j \in 1 .. Len(deferred'),
               deferred'[i].h = deferred'[j].h
        PROVE  i = j
    <3>1. CASE i = 1 /\ j = 1
      BY <3>1
    <3>2. CASE i # 1 /\ j = 1
      <4>1. i - 1 \in 1 .. Len(deferred) /\ deferred'[i] = deferred[i - 1]
        BY <1>1, <1>3, <1>5, <3>2
      <4> QED
        BY <1>3, <1>6, <1>7, <2>1, <3>2, <4>1
    <3>3. CASE i = 1 /\ j # 1
      <4>1. j - 1 \in 1 .. Len(deferred) /\ deferred'[j] = deferred[j - 1]
        BY <1>1, <1>3, <1>5, <3>3
      <4> QED
        BY <1>3, <1>6, <1>7, <2>1, <3>3, <4>1
    <3>4. CASE i # 1 /\ j # 1
      <4>1. i - 1 \in 1 .. Len(deferred) /\ j - 1 \in 1 .. Len(deferred)
            /\ deferred[i - 1].h = deferred[j - 1].h
        BY <1>1, <1>3, <1>5, <2>1, <3>4
      <4>2. i - 1 = j - 1
        BY <4>1 DEF Books, Balance
      <4> QED
        BY <1>1, <1>3, <4>2
    <3> QED
      BY <3>1, <3>2, <3>3, <3>4
  <2>2. ASSUME NEW i \in 1 .. Len(deferred')
        PROVE  live'[deferred'[i].h] = kept'[deferred'[i].h] + deferred'[i].n
    <3>1. CASE i = 1
      BY <1>3, <1>4, <1>7, <3>1 DEF Clean
    <3>2. CASE i # 1
      <4>1. i - 1 \in 1 .. Len(deferred) /\ deferred'[i] = deferred[i - 1]
        BY <1>1, <1>3, <1>5, <3>2
      <4> DEFINE d == deferred[i - 1]
      <4>2. d.h \in Handle /\ d.h # h /\ live[d.h] = kept[d.h] + d.n
        BY <1>6, <4>1 DEF Books, Balance
      <4>3. live'[d.h] = live[d.h] /\ kept'[d.h] = kept[d.h]
        BY <1>4, <4>2
      <4> QED
        BY <4>1, <4>2, <4>3
    <3> QED
      BY <3>1, <3>2
  <2>3. ASSUME NEW g \in Handle, \A i \in 1 .. Len(deferred') : deferred'[i].h # g
        PROVE  live'[g] = kept'[g]
    <3>1. g # h
      BY <1>1, <1>3, <1>7, <2>3
    <3>2. \A i \in 1 .. Len(deferred) : deferred[i].h # g
      <4> TAKE i \in 1 .. Len(deferred)
      <4>1. i + 1 \in 1 .. Len(deferred') /\ deferred'[i + 1] = deferred[i]
        BY <1>1, <1>3
      <4> QED
        BY <2>3, <4>1
    <3> QED
      BY <1>4, <3>1, <3>2 DEF Books, Balance
  <2> QED
    BY <2>1, <2>2, <2>3 DEF Balance
<1>9. Nested'
  <2> SUFFICES ASSUME NEW i \in 1 .. Len(deferred')
               PROVE  \/ parent'[deferred'[i].h] = None
                      \/ kept'[parent'[deferred'[i].h]] > 0
                      \/ \E j \in 1 .. Len(deferred') :
                           /\ i < j /\ deferred'[j].h = parent'[deferred'[i].h]
                           /\ deferred'[j].n > 0
    BY DEF Nested
  <2>1. CASE i = 1
    <3>1. parent'[deferred'[i].h] = from
      BY <1>3, <1>4, <1>7, <2>1
    <3>2. CASE from = None
      BY <3>1, <3>2
    <3>3. CASE from # None /\ \E k \in 1 .. Len(deferred) : deferred[k].h = from
      <4>1. PICK k \in 1 .. Len(deferred) : deferred[k].h = from
        BY <3>3
      <4>2. live[from] = kept[from] + deferred[k].n /\ live[from] > 0
        BY <3>3, <4>1 DEF Books, Balance
      <4>3. kept[from] > 0 \/ deferred[k].n > 0
        BY <1>4, <1>6, <3>3, <4>2
      <4>4. k + 1 \in 1 .. Len(deferred') /\ deferred'[k + 1] = deferred[k] /\ i < k + 1
        BY <1>1, <1>3, <2>1
      <4> QED
        BY <1>4, <3>1, <4>1, <4>3, <4>4
    <3>4. CASE from # None /\ \A k \in 1 .. Len(deferred) : deferred[k].h # from
      <4>1. live[from] = kept[from] /\ live[from] > 0
        BY <3>4 DEF Books, Balance
      <4> QED
        BY <1>4, <3>1, <4>1
    <3> QED
      BY <3>2, <3>3, <3>4
  <2>2. CASE i # 1
    <3>1. i - 1 \in 1 .. Len(deferred) /\ deferred'[i] = deferred[i - 1]
      BY <1>1, <1>3, <1>5, <2>2
    <3>2. parent'[deferred'[i].h] = parent[deferred[i - 1].h]
      BY <1>4, <1>6, <3>1
    <3>3. CASE \E k \in 1 .. Len(deferred) :
                 /\ i - 1 < k /\ deferred[k].h = parent[deferred[i - 1].h]
                 /\ deferred[k].n > 0
      <4>1. PICK k \in 1 .. Len(deferred) :
                 /\ i - 1 < k /\ deferred[k].h = parent[deferred[i - 1].h]
                 /\ deferred[k].n > 0
        BY <3>3
      <4>2. k + 1 \in 1 .. Len(deferred') /\ deferred'[k + 1] = deferred[k] /\ i < k + 1
        BY <1>1, <1>3, <4>1
      <4> QED
        BY <3>2, <4>1, <4>2
    <3>4. CASE parent[deferred[i - 1].h] = None \/ kept[parent[deferred[i - 1].h]] > 0
      BY <1>4, <3>2, <3>4
    <3> QED
      BY <3>1, <3>3, <3>4 DEF Books, Nested
  <2> QED
    BY <2>1, <2>2
<1>10. ASSUME NEW g \in Handle, g # h, Clean(g)
       PROVE  Clean(g)'
  <2>1. \A j \in 1 .. Len(deferred') : deferred'[j].h # g
    <3> TAKE j \in 1 .. Len(deferred')
    <3>1. CASE j = 1
      BY <1>3, <1>7, <1>10, <3>1
    <3>2. CASE j # 1
      BY <1>1, <1>3, <1>5, <1>10, <3>2 DEF Clean
    <3> QED
      BY <3>1, <3>2
  <2> QED
    BY <1>4, <1>10, <2>1 DEF Clean
<1> QED
  BY <1>3, <1>4, <1>8, <1>9, <1>10 DEF Books

\* One release: the debt and the reference go together, or libvirt refuses and
\* the reference is entered as kept.
LEMMA PayKeepsBooks ==
  ASSUME Books, deferred # << >>, Owed.n > 0, Paid, Granted \/ Denied, UNCHANGED parent
  PROVE  /\ Books'
         /\ \A g \in Handle : Clean(g) => Clean(g)'
<1> DEFINE h == deferred[1].h
<1>1. /\ deferred \in Seq(Debt) /\ Len(deferred) \in Nat \ {0} /\ Owed = deferred[1]
      /\ live \in [Handle -> Nat] /\ kept \in [Handle -> Nat]
  BY EmptySeq DEF Books, Owed
<1>2. /\ deferred' \in Seq(Debt) /\ Len(deferred') = Len(deferred)
      /\ deferred'[1].h = h /\ deferred'[1].n = deferred[1].n - 1 /\ deferred'[1].n \in Nat
      /\ \A i \in 2 .. Len(deferred) : deferred'[i] = deferred[i]
      /\ \A i \in 1 .. Len(deferred) : deferred'[i].h = deferred[i].h
  <2>1. deferred' = Lower(deferred) /\ deferred[1].n > 0
    BY <1>1 DEF Paid, Lower
  <2> HIDE DEF h
  <2>2. /\ deferred' \in Seq(Debt) /\ Len(deferred') = Len(deferred)
        /\ deferred'[1].h = deferred[1].h /\ deferred'[1].n = deferred[1].n - 1
        /\ deferred'[1].n \in Nat
        /\ \A i \in 2 .. Len(deferred) : deferred'[i] = deferred[i]
        /\ \A i \in 1 .. Len(deferred) : deferred'[i].h = deferred[i].h
    BY <1>1, <2>1, Lowered
  <2> QED
    BY <2>2 DEF h
<1>3. \A i \in 1 .. Len(deferred) : deferred[i].h \in Handle /\ deferred[i].n \in Nat
  <2> TAKE i \in 1 .. Len(deferred)
  <2>1. deferred[i] \in Debt
    BY <1>1, ElementOfSeq
  <2> QED
    BY <2>1 DEF Debt
<1>4. h \in Handle /\ 1 \in 1 .. Len(deferred)
  BY <1>1, <1>3
<1>5. live[h] = kept[h] + deferred[1].n
  BY <1>4 DEF Books, Balance
<1>6. /\ live' \in [Handle -> Nat] /\ kept' \in [Handle -> Nat]
      /\ live'[h] = kept'[h] + deferred'[1].n
      /\ kept'[h] >= kept[h]
      /\ \A g \in Handle : g # h => live'[g] = live[g] /\ kept'[g] = kept[g]
  <2>1. kept[h] \in Nat /\ live[h] \in Nat /\ deferred[1].n \in Nat /\ deferred[1].n > 0
    BY <1>1, <1>3, <1>4
  <2>2. CASE Granted
    <3>1. live' = [live EXCEPT ![h] = live[h] - 1] /\ kept' = kept
      BY <1>1, <2>2 DEF Granted
    <3>2. live[h] - 1 \in Nat /\ live[h] - 1 = kept[h] + deferred'[1].n
      BY <1>2, <1>5, <2>1
    <3> HIDE DEF h
    <3>3. live' \in [Handle -> Nat] /\ live'[h] = live[h] - 1
      BY <1>1, <1>4, <3>1, <3>2
    <3> QED
      BY <1>1, <1>4, <2>1, <3>1, <3>2, <3>3
  <2>3. CASE Denied
    <3>1. kept' = [kept EXCEPT ![h] = kept[h] + 1] /\ live' = live
      BY <1>1, <2>3 DEF Denied
    <3> HIDE DEF h
    <3>2. kept' \in [Handle -> Nat] /\ kept'[h] = kept[h] + 1
      BY <1>1, <1>4, <2>1, <3>1
    <3>3. \A g \in Handle : g # h => live'[g] = live[g] /\ kept'[g] = kept[g]
      BY <1>1, <1>4, <3>1
    <3>4. live'[h] = live[h] /\ live' \in [Handle -> Nat]
      BY <1>1, <3>1
    <3>5. live'[h] = kept'[h] + deferred'[1].n
      <4> DEFINE n == deferred[1].n
                 m == deferred'[1].n
      <4>1. m = n - 1 /\ n \in Nat /\ live[h] = kept[h] + n /\ kept[h] \in Nat
        BY <1>2, <1>5, <2>1
      <4> HIDE DEF n, m
      <4>2. live'[h] = kept'[h] + m
        BY <3>2, <3>4, <4>1
      <4> QED BY <4>2 DEF m
    <3>6. kept'[h] >= kept[h]
      BY <2>1, <3>2
    <3> QED
      BY <3>2, <3>3, <3>4, <3>5, <3>6
  <2> QED
    BY <2>2, <2>3
<1> HIDE DEF h
<1>7. \A i \in 2 .. Len(deferred) : deferred[i].h # h
  <2> TAKE i \in 2 .. Len(deferred)
  <2>1. i \in 1 .. Len(deferred) /\ i # 1
    BY <1>1
  <2> QED
    BY <1>4, <2>1 DEF h, Books, Balance
<1>8. Balance'
  <2>1. ASSUME NEW i \in 1 .. Len(deferred')
        PROVE  live'[deferred'[i].h] = kept'[deferred'[i].h] + deferred'[i].n
    <3>1. CASE i = 1
      BY <1>2, <1>6, <3>1
    <3>2. CASE i # 1
      <4>1. i \in 2 .. Len(deferred) /\ deferred'[i] = deferred[i] /\ deferred[i].h # h
        BY <1>1, <1>2, <1>7, <3>2
      <4> QED
        BY <1>2, <1>3, <1>6, <4>1 DEF Books, Balance
    <3> QED
      BY <3>1, <3>2
  <2>2. ASSUME NEW g \in Handle, \A i \in 1 .. Len(deferred') : deferred'[i].h # g
        PROVE  live'[g] = kept'[g]
    <3>1. g # h /\ \A i \in 1 .. Len(deferred) : deferred[i].h # g
      BY <1>2, <1>4, <2>2
    <3> QED
      BY <1>6, <3>1 DEF Books, Balance
  <2>3. \A i, j \in 1 .. Len(deferred') : deferred'[i].h = deferred'[j].h => i = j
    BY <1>2 DEF Books, Balance
  <2> QED
    BY <2>1, <2>2, <2>3 DEF Balance
<1>9. Nested'
  <2> SUFFICES ASSUME NEW i \in 1 .. Len(deferred')
               PROVE  \/ parent'[deferred'[i].h] = None
                      \/ kept'[parent'[deferred'[i].h]] > 0
                      \/ \E j \in 1 .. Len(deferred') :
                           /\ i < j /\ deferred'[j].h = parent'[deferred'[i].h]
                           /\ deferred'[j].n > 0
    BY DEF Nested
  <2> DEFINE p == parent[deferred[i].h]
  <2>1. i \in 1 .. Len(deferred) /\ parent'[deferred'[i].h] = p /\ p \in Handle \cup {None}
    BY <1>2, <1>3 DEF Books
  <2>2. CASE p = None
    BY <2>1, <2>2
  <2>3. CASE p # None /\ kept[p] > 0
    <3>1. p \in Handle /\ kept[p] \in Nat /\ kept'[p] \in Nat
      BY <1>1, <1>6, <2>1, <2>3
    <3>2. kept'[p] > 0
      <4>1. CASE p = h
        <5>1. kept'[h] >= kept[h] /\ kept[h] > 0 /\ kept[h] \in Nat /\ kept'[h] \in Nat
          BY <1>6, <2>3, <3>1, <4>1
        <5> QED
          BY <4>1, <5>1
      <4>2. CASE p # h
        BY <1>6, <2>3, <3>1, <4>2
      <4> QED
        BY <4>1, <4>2
    <3> QED
      BY <2>1, <3>2
  <2>4. CASE \E j \in 1 .. Len(deferred) : i < j /\ deferred[j].h = p /\ deferred[j].n > 0
    <3>1. PICK j \in 1 .. Len(deferred) : i < j /\ deferred[j].h = p /\ deferred[j].n > 0
      BY <2>4
    <3>2. j \in 2 .. Len(deferred) /\ deferred'[j] = deferred[j]
      BY <1>1, <1>2, <2>1, <3>1
    <3> QED
      BY <1>2, <2>1, <3>1, <3>2
  <2> QED
    BY <2>1, <2>2, <2>3, <2>4 DEF Books, Nested
<1>10. ASSUME NEW g \in Handle, Clean(g)
       PROVE  Clean(g)'
  <2>1. g # h
    BY <1>4, <1>10 DEF Clean, h
  <2> QED
    BY <1>2, <1>6, <1>10, <2>1 DEF Clean
<1> QED
  BY <1>2, <1>6, <1>8, <1>9, <1>10 DEF Books

\* A deferred function that has nothing left to release is over.
LEMMA PopKeepsBooks ==
  ASSUME Books, deferred # << >>, Owed.n = 0, deferred' = Tail(deferred),
         UNCHANGED <<live, kept, parent>>
  PROVE  /\ Books'
         /\ \A g \in Handle : Clean(g) => Clean(g)'
<1>1. /\ deferred \in Seq(Debt) /\ Len(deferred) \in Nat \ {0} /\ Owed = deferred[1]
      /\ live \in [Handle -> Nat] /\ kept \in [Handle -> Nat]
  BY EmptySeq DEF Books, Owed
<1>2. /\ deferred' \in Seq(Debt) /\ Len(deferred') = Len(deferred) - 1
      /\ \A i \in 1 .. Len(deferred') : i + 1 \in 1 .. Len(deferred) /\ deferred'[i] = deferred[i + 1]
  BY <1>1, Popped
<1>3. Balance'
  <2>1. ASSUME NEW i \in 1 .. Len(deferred'), NEW j \in 1 .. Len(deferred'),
               deferred'[i].h = deferred'[j].h
        PROVE  i = j
    <3>1. i + 1 = j + 1
      BY <1>2, <2>1 DEF Books, Balance
    <3> QED
      BY <1>1, <1>2, <3>1
  <2>2. \A i \in 1 .. Len(deferred') : live'[deferred'[i].h] = kept'[deferred'[i].h] + deferred'[i].n
    BY <1>2 DEF Books, Balance
  <2>3. ASSUME NEW g \in Handle, \A i \in 1 .. Len(deferred') : deferred'[i].h # g
        PROVE  live'[g] = kept'[g]
    <3>1. CASE g = deferred[1].h
      <4>1. live[g] = kept[g] + 0
        BY <1>1, <3>1 DEF Books, Balance
      <4> QED
        BY <1>1, <4>1
    <3>2. CASE g # deferred[1].h
      <4>1. \A i \in 1 .. Len(deferred) : deferred[i].h # g
        <5> TAKE i \in 1 .. Len(deferred)
        <5>1. CASE i = 1
          BY <3>2, <5>1
        <5>2. CASE i # 1
          <6>1. i - 1 \in 1 .. Len(deferred') /\ deferred'[i - 1] = deferred[(i - 1) + 1] /\ (i - 1) + 1 = i
            BY <1>1, <1>2, <5>2
          <6> QED
            BY <2>3, <6>1
        <5> QED
          BY <5>1, <5>2
      <4> QED
        BY <4>1 DEF Books, Balance
    <3> QED
      BY <3>1, <3>2
  <2> QED
    BY <2>1, <2>2, <2>3 DEF Balance
<1>4. Nested'
  <2> SUFFICES ASSUME NEW i \in 1 .. Len(deferred')
               PROVE  \/ parent'[deferred'[i].h] = None
                      \/ kept'[parent'[deferred'[i].h]] > 0
                      \/ \E j \in 1 .. Len(deferred') :
                           /\ i < j /\ deferred'[j].h = parent'[deferred'[i].h]
                           /\ deferred'[j].n > 0
    BY DEF Nested
  <2> DEFINE p == parent[deferred[i + 1].h]
  <2>1. i + 1 \in 1 .. Len(deferred) /\ parent'[deferred'[i].h] = p
    BY <1>2
  <2>2. CASE p = None \/ kept[p] > 0
    BY <2>1, <2>2
  <2>3. CASE \E j \in 1 .. Len(deferred) : i + 1 < j /\ deferred[j].h = p /\ deferred[j].n > 0
    <3>1. PICK j \in 1 .. Len(deferred) : i + 1 < j /\ deferred[j].h = p /\ deferred[j].n > 0
      BY <2>3
    <3>2. /\ j - 1 \in 1 .. Len(deferred') /\ i < j - 1 /\ (j - 1) + 1 = j
          /\ deferred'[j - 1] = deferred[(j - 1) + 1]
      BY <1>1, <1>2, <3>1
    <3> QED
      BY <2>1, <3>1, <3>2
  <2> QED
    BY <2>1, <2>2, <2>3 DEF Books, Nested
<1>5. ASSUME NEW g \in Handle, Clean(g)
      PROVE  Clean(g)'
  BY <1>2, <1>5 DEF Clean
<1> QED
  BY <1>1, <1>2, <1>3, <1>4, <1>5 DEF Books

--------------------------------------------------------------------------------
(* The steps of a command.                                                  *)

LEMMA Scripts ==
  ASSUME NEW c \in Command
  PROVE  /\ Len(c.script) \in Nat /\ c.fatal \in BOOLEAN
         /\ \A i \in 1 .. Len(c.script) : Acquires(c.script[i]) =>
              /\ c.script[i].h \in Handle
              /\ c.script[i].do # "open" => c.script[i].from \in Handle
  BY SessionAssumption DEF Acquires

LEMMA Here ==
  ASSUME Control, NEW what, Doing(what)
  PROVE  /\ command' = command /\ command \in Command
         /\ step \in 1 .. Len(command.script) /\ Len(command.script) \in Nat
         /\ pc = "run" /\ Now.do = what
  BY Scripts DEF Control, Doing

\* The steps ahead find their handles clean as long as nothing but the handle of
\* the step they follow has changed.
LEMMA Onward ==
  ASSUME SessionInv, Books', command' = command, step' \in {step, step + 1},
         element' \in Nat, pc' \in {pc, "unwind", "done"},
         err' \in BOOLEAN, failed' \in BOOLEAN, Ending',
         \A g \in Handle : Clean(g) => Clean(g)'
  PROVE  SessionInv'
<1>1. Control'
  BY DEF SessionInv, Control
<1>2. Ahead'
  <2> SUFFICES ASSUME pc' = "run", NEW i \in 1 .. Len(command.script), step' <= i,
                      Acquires(command.script[i])
               PROVE  Clean(command.script[i].h)'
    BY DEF Ahead, Acquires
  <2>1. step \in Nat /\ command \in Command /\ pc = "run"
    BY DEF SessionInv, Control
  <2>2. Len(command.script) \in Nat /\ command.script[i].h \in Handle
    BY <2>1, Scripts
  <2>3. step <= i
    BY <2>1, <2>2
  <2>4. Clean(command.script[i].h)
    BY <2>1, <2>3 DEF SessionInv, Ahead
  <2> QED
    BY <2>2, <2>4 DEF Clean
<1> QED
  BY <1>1, <1>2 DEF SessionInv

LEMMA Still ==
  ASSUME Books, Untouched
  PROVE  Books' /\ \A g \in Handle : Clean(g) => Clean(g)'
  BY DEF Books, Balance, Nested, Clean, Untouched

\* A step that gets nothing and releases nothing.
LEMMA QuietStep ==
  ASSUME SessionInv, NEW what, Doing(what), Untouched, element' \in Nat,
         Advance \/ Fail \/ UNCHANGED <<step, pc, err, failed>>
  PROVE  SessionInv'
<1>1. command' = command /\ command \in Command /\ pc = "run" /\ command.fatal \in BOOLEAN
  BY Here, Scripts DEF SessionInv, Control
<1>2. Books' /\ \A g \in Handle : Clean(g) => Clean(g)'
  BY Still DEF SessionInv
<1>3. /\ step' \in {step, step + 1} /\ pc' \in {pc, "unwind", "done"}
      /\ err' \in BOOLEAN /\ failed' \in BOOLEAN
  BY DEF SessionInv, Control, Advance, Fail
<1>4. Ending'
  BY <1>1 DEF SessionInv, Ending, Advance, Fail
<1> QED
  BY <1>1, <1>2, <1>3, <1>4, Onward

\* A step that gets a handle: no step ahead gets the same one.
LEMMA GainStep ==
  ASSUME SessionInv, NEW what, Doing(what), Acquires(Now), element' = element, Advance,
         NEW from \in Handle \cup {None}, from = None \/ live[from] > 0,
         NEW n \in Nat, Gain(Now.h, from, n)
  PROVE  SessionInv'
<1>1. /\ command' = command /\ command \in Command /\ pc = "run"
      /\ step \in 1 .. Len(command.script) /\ Len(command.script) \in Nat
  BY Here DEF SessionInv
<1>2. Now.h \in Handle
  BY <1>1, Scripts DEF Now
<1>3. Clean(Now.h)
  BY <1>1 DEF SessionInv, Ahead, Now
<1>4. Books' /\ \A g \in Handle : g # Now.h /\ Clean(g) => Clean(g)'
  BY <1>2, <1>3, GainKeepsBooks DEF SessionInv
<1>5. Control'
  BY <1>1 DEF SessionInv, Control, Advance
<1>6. Ahead'
  <2> SUFFICES ASSUME NEW i \in 1 .. Len(command.script), step + 1 <= i,
                      Acquires(command.script[i])
               PROVE  Clean(command.script[i].h)'
    BY <1>1 DEF Ahead, Acquires, Advance
  <2>1. command.script[i].h \in Handle /\ step <= i /\ step # i
    BY <1>1, Scripts
  <2>2. command.script[i].h # Now.h
    BY <1>1, <2>1, OnceAssumption DEF Now
  <2>3. Clean(command.script[i].h)
    BY <1>1, <2>1 DEF SessionInv, Ahead
  <2> QED
    BY <1>1, <1>4, <2>1, <2>2, <2>3 DEF Clean
<1>7. Ending'
  BY <1>1 DEF SessionInv, Ending, Advance
<1> QED
  BY <1>4, <1>5, <1>6, <1>7 DEF SessionInv

\* A step that releases, or that ends a function which owes nothing any more.
LEMMA PayStep ==
  ASSUME SessionInv, deferred # << >>, command' = command, element' = element,
         step' \in {step, step + 1}, pc' \in {pc, "unwind", "done"},
         err' \in BOOLEAN, failed' \in BOOLEAN, Ending', UNCHANGED parent,
         \/ Owed.n > 0 /\ Paid /\ (Granted \/ Denied)
         \/ Owed.n = 0 /\ deferred' = Tail(deferred) /\ UNCHANGED <<live, kept>>
  PROVE  SessionInv'
<1>1. Books' /\ \A g \in Handle : Clean(g) => Clean(g)'
  BY PayKeepsBooks, PopKeepsBooks DEF SessionInv
<1>2. element' \in Nat
  BY DEF SessionInv, Control
<1> QED
  BY <1>1, <1>2, Onward

LEMMA SessionInit == Init => SessionInv
<1> SUFFICES ASSUME Init
             PROVE  SessionInv
  OBVIOUS
<1>1. Control
  <2>1. err \in BOOLEAN /\ failed \in BOOLEAN
    BY Zenon DEF Init
  <2>2. step \in Nat \ {0} /\ element \in Nat
    BY DEF Init
  <2> QED
    BY <2>1, <2>2, Zenon DEF Init, Control
<1>2. deferred = << >> /\ deferred \in Seq(Debt) /\ 1 .. Len(deferred) = {}
  BY DEF Init
<1>3. /\ live = [h \in Handle |-> 0] /\ kept = [h \in Handle |-> 0]
      /\ parent = [h \in Handle |-> None]
  BY DEF Init
<1>4. Books
  BY <1>2, <1>3 DEF Books, Balance, Nested
<1>5. Ahead
  BY <1>1, <1>2, <1>3, Scripts DEF Ahead, Clean, Control
<1>6. Ending
  BY DEF Init, Ending
<1> QED
  BY <1>1, <1>4, <1>5, <1>6 DEF SessionInv

\* One release, with its error: what is reported.
LEMMA Reported ==
  ASSUME SessionInv, ReleaseOne
  PROVE  /\ err' \in BOOLEAN /\ failed' \in BOOLEAN /\ UNCHANGED parent
         /\ Paid /\ (Granted \/ Denied)
         /\ ~ command.fatal => (failed' => err')
<1>1. command.fatal \in BOOLEAN /\ err \in BOOLEAN /\ failed \in BOOLEAN
  BY Scripts DEF SessionInv, Control
<1>2. ~ command.fatal => (failed => err)
  BY DEF SessionInv, Ending
<1>3. UNCHANGED parent /\ Paid /\ (Granted \/ Denied)
  BY Zenon DEF ReleaseOne
<1>4. CASE Join(FALSE) /\ UNCHANGED failed
  <2>1. UNCHANGED err
    BY <1>4, Zenon DEF Join
  <2> QED
    BY <1>1, <1>2, <1>3, <1>4, <2>1
<1>5. CASE Join(TRUE) /\ failed' = TRUE
  <2>1. err' \in BOOLEAN /\ (~ command.fatal => err')
    <3>1. CASE command.fatal
      BY <1>1, <1>5, <3>1, Zenon DEF Join
    <3>2. CASE ~ command.fatal
      BY <1>5, <3>2, Zenon DEF Join
    <3> QED
      BY <3>1, <3>2
  <2> QED
    BY <1>1, <1>2, <1>3, <1>5, <2>1
<1> QED
  BY <1>3, <1>4, <1>5, Zenon DEF ReleaseOne

LEMMA LeaveStep == ASSUME SessionInv, Leave PROVE SessionInv'
<1>1. /\ command' = command /\ pc = "run" /\ deferred # << >> /\ element' = element
      /\ step \in Nat
  BY Here DEF Leave, SessionInv, Control
<1>2. CASE Owed.n > 0 /\ ReleaseOne /\ UNCHANGED <<step, pc>>
  <2>1. Ending'
    BY <1>1, <1>2, Reported DEF Ending
  <2> QED
    BY <1>1, <1>2, <2>1, Reported, PayStep
<1>3. CASE /\ Owed.n = 0 /\ deferred' = Tail(deferred)
           /\ UNCHANGED <<live, kept, parent, err, failed>>
           /\ \/ ~ err /\ step' = step + 1 /\ UNCHANGED pc
              \/ err /\ pc' = "unwind" /\ UNCHANGED step
  <2>1. Ending' /\ err' \in BOOLEAN /\ failed' \in BOOLEAN
    BY <1>1, <1>3 DEF SessionInv, Control, Ending
  <2> QED
    BY <1>1, <1>3, <2>1, PayStep
<1> QED
  BY <1>2, <1>3 DEF Leave

LEMMA DrainStep == ASSUME SessionInv, Drain PROVE SessionInv'
<1>1. /\ command' = command /\ pc = "run" /\ deferred # << >> /\ element' = element
      /\ step \in Nat /\ UNCHANGED parent
  BY Here DEF Drain, SessionInv, Control
<1>2. deferred \in Seq(Debt) /\ Owed \in Debt
  BY <1>1, HeadTailProperties DEF SessionInv, Books, Owed
<1>3. Owed.n = 0 \/ Owed.n > 0
  BY <1>2 DEF Debt
<1>4. /\ Advance \/ Fail \/ UNCHANGED <<step, pc, err, failed>>
      /\ \/ Owed.n > 0 /\ Paid /\ (Granted \/ Denied)
         \/ Owed.n = 0 /\ deferred' = Tail(deferred) /\ UNCHANGED <<live, kept>>
  BY <1>3 DEF Drain
<1>5. /\ step' \in {step, step + 1} /\ pc' \in {pc, "unwind", "done"}
      /\ err' \in BOOLEAN /\ failed' \in BOOLEAN
  BY <1>4 DEF SessionInv, Control, Advance, Fail
<1>6. Ending'
  BY <1>1, <1>4, Scripts DEF SessionInv, Control, Ending, Advance, Fail
<1> QED
  BY <1>1, <1>4, <1>5, <1>6, PayStep

LEMMA UnwindStep == ASSUME SessionInv, Unwind PROVE SessionInv'
<1>1. command' = command /\ pc = "unwind" /\ element' = element /\ step' = step
  BY DEF Unwind
<1>2. CASE deferred # << >> /\ Owed.n > 0 /\ ReleaseOne /\ UNCHANGED pc
  <2>1. Ending'
    BY <1>1, <1>2, Reported DEF Ending
  <2> QED
    BY <1>1, <1>2, <2>1, Reported, PayStep
<1>3. CASE /\ deferred # << >> /\ Owed.n = 0 /\ deferred' = Tail(deferred)
           /\ UNCHANGED <<live, kept, parent, pc, err, failed>>
  <2>1. Ending' /\ err' \in BOOLEAN /\ failed' \in BOOLEAN
    BY <1>1, <1>3 DEF SessionInv, Control, Ending
  <2> QED
    BY <1>1, <1>3, <2>1, PayStep
<1>4. CASE deferred = << >> /\ pc' = "done" /\ UNCHANGED <<err, failed>> /\ Untouched
  <2>1. Books' /\ \A g \in Handle : Clean(g) => Clean(g)'
    BY <1>4, Still DEF SessionInv
  <2>2. Ending' /\ err' \in BOOLEAN /\ failed' \in BOOLEAN /\ element' \in Nat
    BY <1>1, <1>4 DEF SessionInv, Control, Ending, Untouched
  <2> QED
    BY <1>1, <1>4, <2>1, <2>2, Onward
<1> QED
  BY <1>1, <1>2, <1>3, <1>4 DEF Unwind

LEMMA ReturnStep == ASSUME SessionInv, Return PROVE SessionInv'
<1>1. Books' /\ \A g \in Handle : Clean(g) => Clean(g)'
  BY Still DEF Return, SessionInv
<1>2. Ending' /\ element' \in Nat /\ err' \in BOOLEAN /\ failed' \in BOOLEAN
  BY DEF Return, SessionInv, Control, Ending
<1> QED
  BY <1>1, <1>2, Onward DEF Return

LEMMA GetSteps == ASSUME SessionInv, Open \/ Get \/ List PROVE SessionInv'
<1>1. ASSUME NEW what, Doing(what), element' = element, Fail, Untouched
      PROVE  SessionInv'
  BY <1>1, QuietStep DEF SessionInv, Control
<1>2. CASE Open
  <2>1. Doing("open") /\ Acquires(Now) /\ element' = element
    BY <1>2, Here DEF Open, Acquires, SessionInv
  <2>2. Now.h = connection
    BY <2>1, Here, SessionAssumption DEF SessionInv, Now
  <2>3. CASE Gain(connection, None, 1) /\ Advance
    BY <2>1, <2>2, <2>3, GainStep
  <2> QED
    BY <1>1, <1>2, <2>1, <2>3 DEF Open
<1>3. CASE Get
  <2>1. Doing("get") /\ Acquires(Now) /\ element' = element
    BY <1>3, Here DEF Get, Acquires, SessionInv
  <2>2. Now.from \in Handle
    BY <2>1, Here, SessionAssumption DEF SessionInv, Now
  <2>3. CASE Callable(Now.from, Now.calls) /\ Gain(Now.h, Now.from, 1) /\ Advance
    BY <2>1, <2>2, <2>3, GainStep DEF Callable
  <2> QED
    BY <1>1, <1>3, <2>1, <2>3 DEF Get
<1>4. CASE List
  <2>1. Doing("list") /\ Acquires(Now) /\ element' = element
    BY <1>4, Here DEF List, Acquires, SessionInv
  <2>2. Now.from \in Handle
    BY <2>1, Here, SessionAssumption DEF SessionInv, Now
  <2>3. ASSUME NEW n \in 0 .. MaxList, Callable(Now.from, Now.calls),
               Gain(Now.h, Now.from, n), Advance
        PROVE  SessionInv'
    BY <2>1, <2>2, <2>3, GainStep, SessionAssumption DEF Callable
  <2> QED
    BY <1>1, <1>4, <2>1, <2>3 DEF List
<1> QED
  BY <1>2, <1>3, <1>4

LEMMA SessionStep == SessionInv /\ [Next]_vars => SessionInv'
<1> SUFFICES ASSUME SessionInv, [Next]_vars
             PROVE  SessionInv'
  OBVIOUS
<1>1. CASE Check
  BY <1>1, QuietStep DEF Check, SessionInv, Control
<1>2. CASE Reject
  BY <1>2, QuietStep DEF Reject, SessionInv, Control
<1>3. CASE Open \/ Get \/ List
  BY <1>3, GetSteps
<1>4. CASE Use
  BY <1>4, QuietStep DEF Use, SessionInv, Control
<1>5. CASE Each
  <2>1. element' \in Nat
    BY <1>5 DEF Each, SessionInv, Control
  <2> QED
    BY <1>5, <2>1, QuietStep DEF Each
<1>6. CASE Leave
  BY <1>6, LeaveStep
<1>7. CASE Drain
  BY <1>7, DrainStep
<1>8. CASE Return
  BY <1>8, ReturnStep
<1>9. CASE Unwind
  BY <1>9, UnwindStep
<1>10. CASE UNCHANGED vars
  BY <1>10 DEF vars, SessionInv, Control, Books, Balance, Nested, Ahead, Ending, Clean
<1> QED
  BY <1>1, <1>2, <1>3, <1>4, <1>5, <1>6, <1>7, <1>8, <1>9, <1>10 DEF Next

--------------------------------------------------------------------------------
THEOREM SessionSafe == Spec => []SessionInv
<1> QED
  BY SessionInit, SessionStep, PTL DEF Spec

\* examples/README.md:33: whatever failed, a command that log.Fatal does not cut
\* short ends with nothing but what libvirt refused to release.
THEOREM NothingIsLeftOpen == Spec => []EverythingIsReleased
<1>1. SessionInv => EverythingIsReleased
  <2> SUFFICES ASSUME SessionInv, pc = "done", ~ (command.fatal /\ err)
               PROVE  live = kept
    BY DEF EverythingIsReleased
  <2>1. deferred = << >> /\ 1 .. Len(deferred) = {}
    BY DEF SessionInv, Ending
  <2>2. \A h \in Handle : live[h] = kept[h]
    BY <2>1 DEF SessionInv, Books, Balance
  <2> QED
    BY <2>2 DEF SessionInv, Books
<1> QED
  BY <1>1, SessionSafe, PTL

\* The order of the deferred functions is that of the handles: none is closed
\* before those that were got from it (volumes, then pool, then connection).
THEOREM ParentsOutlive == Spec => []NoneOutlivesItsParent
<1>1. SessionInv => NoneOutlivesItsParent
  <2> SUFFICES ASSUME SessionInv, NEW h \in Handle, live[h] > kept[h], parent[h] # None
               PROVE  live[parent[h]] > 0
    BY DEF NoneOutlivesItsParent
  <2> DEFINE p == parent[h]
  <2>1. p \in Handle /\ live[p] \in Nat /\ kept[p] \in Nat /\ live[h] \in Nat /\ kept[h] \in Nat
    BY DEF SessionInv, Books
  <2>2. live[h] # kept[h]
    BY <2>1
  <2>3. PICK i \in 1 .. Len(deferred) : deferred[i].h = h
    BY <2>2 DEF SessionInv, Books, Balance
  <2>4. \A j \in 1 .. Len(deferred) : deferred[j].n \in Nat
    <3> TAKE j \in 1 .. Len(deferred)
    <3>1. deferred[j] \in Debt
      BY ElementOfSeq DEF SessionInv, Books
    <3> QED
      BY <3>1 DEF Debt
  <2>5. CASE kept[p] > 0
    <3>1. \A j \in 1 .. Len(deferred) : deferred[j].h = p => live[p] = kept[p] + deferred[j].n
      BY DEF SessionInv, Books, Balance
    <3>2. (\A j \in 1 .. Len(deferred) : deferred[j].h # p) => live[p] = kept[p]
      BY <2>1 DEF SessionInv, Books, Balance
    <3> QED
      BY <2>1, <2>4, <2>5, <3>1, <3>2
  <2>6. CASE \E j \in 1 .. Len(deferred) : deferred[j].h = p /\ deferred[j].n > 0
    <3>1. PICK j \in 1 .. Len(deferred) : deferred[j].h = p /\ deferred[j].n > 0
      BY <2>6
    <3>2. live[p] = kept[p] + deferred[j].n
      BY <3>1 DEF SessionInv, Books, Balance
    <3> QED
      BY <2>1, <2>4, <3>1, <3>2
  <2> QED
    BY <2>3, <2>5, <2>6 DEF SessionInv, Books, Nested
<1> QED
  BY <1>1, SessionSafe, PTL

\* errors.Join: a command that defers its releases returns an error when any of
\* its steps or releases failed.
THEOREM FailuresReachTheCaller == Spec => []FailuresAreReported
<1>1. SessionInv => FailuresAreReported
  BY DEF SessionInv, Ending, FailuresAreReported
<1> QED
  BY <1>1, SessionSafe, PTL

--------------------------------------------------------------------------------
(* volume-transfer: the bytes are accounted for, and the transfer has one end. *)

\* The first handles of run: one more, or one less.
LEMMA HeldFacts ==
  ASSUME Transfer!HeldInv
  PROVE  /\ Len(held) \in 0 .. 4
         /\ Len(held) = 0 <=> held = << >>
         /\ held # << >> => (held[Len(held)] = "stream" <=> Len(held) = 4)
         /\ Len(held) < 4 => \E n \in 0 .. 4 :
              n = Len(held) + 1 /\ Append(held, Transfer!Handles[n]) = SubSeq(Transfer!Handles, 1, n)
         /\ held # << >> => \E n \in 0 .. 4 :
              n + 1 = Len(held) /\ SubSeq(held, 1, Len(held) - 1) = SubSeq(Transfer!Handles, 1, n)
<1>1. PICK n \in 0 .. 4 : held = SubSeq(Transfer!Handles, 1, n)
  BY DEF Transfer!HeldInv, Transfer!Handles
<1>2. n \in {0, 1, 2, 3, 4}
  BY <1>1
<1> USE DEF Transfer!Handles
<1>3. CASE n = 0
  BY <1>1, <1>3
<1>4. CASE n = 1
  BY <1>1, <1>4
<1>5. CASE n = 2
  BY <1>1, <1>5
<1>6. CASE n = 3
  BY <1>1, <1>6
<1>7. CASE n = 4
  BY <1>1, <1>7
<1> QED
  BY <1>2, <1>3, <1>4, <1>5, <1>6, <1>7

LEMMA TransferStart == Transfer!Init => Transfer!TransferInv
<1> SUFFICES ASSUME Transfer!Init
             PROVE  Transfer!TransferInv
  OBVIOUS
<1>1. held = SubSeq(Transfer!Handles, 1, 0) /\ Len(held) = 0 /\ Len(Transfer!Handles) = 4
  BY DEF Transfer!Init, Transfer!Handles
<1>2. sink \in Seq(Nat) /\ Len(sink) = 0
  BY DEF Transfer!Init
<1>3. Transfer!TypeInv
  BY <1>2, TransferAssumption DEF Transfer!Init, Transfer!TypeInv
<1>4. Transfer!HeldInv
  BY <1>1 DEF Transfer!Init, Transfer!HeldInv
<1>5. Transfer!CopyInv
  BY <1>2, TransferAssumption DEF Transfer!Init, Transfer!CopyInv, Transfer!NoGaps
<1>6. Transfer!EndInv
  BY DEF Transfer!Init, Transfer!EndInv
<1> QED
  BY <1>3, <1>4, <1>5, <1>6 DEF Transfer!TransferInv

\* The bytes the sink gets are the next ones: what was read and is not yet
\* written is what the buffer holds.
LEMMA SinkGrows ==
  ASSUME Transfer!TypeInv, Transfer!NoGaps, Len(sink) + chunk = taken, NEW n \in 0 .. chunk,
         sink' = sink \o Transfer!Written(n)
  PROVE  sink' \in Seq(Nat) /\ Len(sink') = Len(sink) + n /\ Transfer!NoGaps'
<1> DEFINE new == Transfer!Written(n)
<1>1. sink \in Seq(Nat) /\ Len(sink) \in Nat /\ taken \in Nat /\ chunk \in Nat
  BY LenProperties DEF Transfer!TypeInv
<1>2. new = [i \in 1 .. n |-> Len(sink) + i] /\ new \in [1 .. n -> Nat]
  BY <1>1 DEF Transfer!Written
<1>3. new \in Seq(Nat) /\ Len(new) = n
  BY <1>2, SeqDef, LenProperties
<1> HIDE DEF new
<1>4. /\ sink' \in Seq(Nat) /\ Len(sink') = Len(sink) + n
      /\ \A i \in 1 .. Len(sink) + n :
           sink'[i] = IF i <= Len(sink) THEN sink[i] ELSE new[i - Len(sink)]
  BY <1>1, <1>3, ConcatProperties DEF new
<1>5. ASSUME NEW i \in 1 .. Len(sink')
      PROVE  sink'[i] = i
  <2>1. CASE i <= Len(sink)
    BY <1>1, <1>4, <2>1 DEF Transfer!NoGaps
  <2>2. CASE i > Len(sink)
    <3>1. i - Len(sink) \in 1 .. n
      BY <1>1, <1>4, <2>2
    <3>2. new[i - Len(sink)] = Len(sink) + (i - Len(sink))
      BY <1>2, <3>1
    <3>3. sink'[i] = new[i - Len(sink)]
      BY <1>1, <1>4, <2>2
    <3> QED
      BY <1>1, <1>4, <3>2, <3>3
  <2> QED
    BY <1>1, <1>4, <2>1, <2>2
<1> QED
  BY <1>4, <1>5 DEF Transfer!NoGaps

\* The handles of run as each step leaves them.
LEMMA HeldStep ==
  ASSUME Transfer!TransferInv, Transfer!Next
  PROVE  Transfer!HeldInv'
<1> USE DEF Transfer!TransferInv, Transfer!TypeInv, Transfer!At, Transfer!Fail
<1>1. Len(Transfer!Handles) = 4 /\ \A n \in 0 .. 4 : Len(SubSeq(Transfer!Handles, 1, n)) = n
  BY DEF Transfer!Handles
<1>2. CASE Transfer!Acquire
  <2>1. CASE held' = held
    BY <1>1, <1>2, <2>1 DEF Transfer!Acquire, Transfer!HeldInv
  <2>2. CASE held' # held
    <3>1. /\ held' = Append(held, Transfer!Handles[Len(held) + 1])
          /\ at' = IF Len(held') = Len(Transfer!Handles) THEN "start" ELSE "acquire"
          /\ at = "acquire"
      BY <1>2, <2>2 DEF Transfer!Acquire
    <3>2. PICK n \in 0 .. 4 : n = Len(held) + 1 /\ held' = SubSeq(Transfer!Handles, 1, n)
      BY <1>1, <3>1, HeldFacts DEF Transfer!HeldInv
    <3>3. Len(held') = n /\ n # 0
      BY <1>1, <3>2, HeldFacts
    <3>4. at' = (IF n = 4 THEN "start" ELSE "acquire") /\ Len(held') <= 4 /\ (n # 4 => Len(held') < 4)
      BY <1>1, <3>1, <3>2, <3>3
    <3> QED
      BY <1>1, <3>2, <3>3, <3>4 DEF Transfer!HeldInv
  <2> QED
    BY <2>1, <2>2
<1>3. CASE Transfer!Start
  BY <1>3 DEF Transfer!Start, Transfer!HeldInv
<1>4. CASE Transfer!OpenFile
  BY <1>4 DEF Transfer!OpenFile, Transfer!HeldInv
<1>5. CASE Transfer!CopyRead
  BY <1>5 DEF Transfer!CopyRead, Transfer!CopyEnds, Transfer!CopyFails, Transfer!CloseFile, Transfer!HeldInv
<1>6. CASE Transfer!CopyWrite
  BY <1>6 DEF Transfer!CopyWrite, Transfer!AfterWrite, Transfer!CopyFails, Transfer!CloseFile, Transfer!HeldInv
<1>7. CASE Transfer!Finish
  BY <1>7 DEF Transfer!Finish, Transfer!HeldInv
<1>8. CASE Transfer!Release
  <2>1. PICK n \in 0 .. 4 : held' = SubSeq(Transfer!Handles, 1, n)
    BY <1>8, HeldFacts DEF Transfer!Release
  <2>2. at' = "unwind"
    BY <1>8 DEF Transfer!Release
  <2> QED
    BY <1>1, <2>1, <2>2 DEF Transfer!HeldInv
<1>9. CASE Transfer!Return
  BY <1>9 DEF Transfer!Return, Transfer!HeldInv
<1> QED
  BY <1>2, <1>3, <1>4, <1>5, <1>6, <1>7, <1>8, <1>9 DEF Transfer!Next

\* An error of the stream brings no bytes.
LEMMA ErrorFacts ==
  ASSUME NEW a \in Transfer!StreamErrors
  PROVE  a.n = 0 /\ a.err = TRUE /\ a.end = FALSE /\ a.transfer \in {transfer, "aborted"}
<1>1. PICK t \in {transfer, "aborted"} :
        a = [n |-> 0, err |-> TRUE, end |-> FALSE, transfer |-> t]
  BY DEF Transfer!StreamErrors
<1> QED
  BY <1>1

\* What the loop reads next stays within the source and within the length; only
\* an error ends the transfer.
LEMMA ReadFacts ==
  ASSUME Transfer!TransferInv, at = "read", Transfer!Room # 0,
         NEW a \in IF direction = "upload" THEN Transfer!FileRead ELSE Transfer!StreamRead
  PROVE  /\ a.n \in Nat /\ taken + a.n <= Size /\ (length # 0 => taken + a.n <= length)
         /\ a.err \in BOOLEAN /\ a.end \in BOOLEAN /\ ~ (a.err /\ a.end)
         /\ a.err \/ a.end => a.n = 0
         /\ a.end => taken = Size
         /\ a.transfer \in {"started", "aborted"} /\ (~ a.err => a.transfer = "started")
<1>1. taken \in Nat /\ length \in Nat /\ taken <= Size /\ (length # 0 => taken <= length)
  BY DEF Transfer!TransferInv, Transfer!TypeInv, Transfer!CopyInv
<1>2. \A k \in Transfer!AtMost(Transfer!Room) :
        k \in Nat /\ taken + k <= Size /\ (length # 0 => taken + k <= length)
  BY <1>1, TransferAssumption DEF Transfer!AtMost, Transfer!Room
<1>3. transfer = "started"
  BY DEF Transfer!TransferInv, Transfer!EndInv
<1>4. \/ \E k \in Transfer!AtMost(Transfer!Room) : a = Transfer!Answer(k, FALSE, FALSE)
      \/ a = Transfer!Answer(0, TRUE, FALSE) \/ a \in Transfer!StreamErrors
      \/ a = Transfer!Answer(0, FALSE, TRUE) /\ taken = Size
  BY DEF Transfer!FileRead, Transfer!StreamRead
<1>5. CASE a \in Transfer!StreamErrors
  <2>1. a.n = 0 /\ a.err = TRUE /\ a.end = FALSE /\ a.transfer \in {transfer, "aborted"}
    BY <1>5, ErrorFacts
  <2>2. a.err \in BOOLEAN /\ a.end \in BOOLEAN /\ ~ (a.err /\ a.end)
    BY <2>1
  <2>3. a.transfer \in {"started", "aborted"}
    BY <1>3, <2>1
  <2> QED
    BY <1>1, <2>1, <2>2, <2>3
<1>6. CASE \E k \in Transfer!AtMost(Transfer!Room) : a = Transfer!Answer(k, FALSE, FALSE)
  BY <1>2, <1>3, <1>6 DEF Transfer!Answer
<1>7. CASE a = Transfer!Answer(0, TRUE, FALSE)
  BY <1>1, <1>3, <1>7 DEF Transfer!Answer
<1>8. CASE a = Transfer!Answer(0, FALSE, TRUE) /\ taken = Size
  BY <1>1, <1>3, <1>8 DEF Transfer!Answer
<1> QED
  BY <1>4, <1>5, <1>6, <1>7, <1>8

\* What a write answers.
LEMMA WriteFacts ==
  ASSUME Transfer!TransferInv, at = "write",
         NEW a \in IF direction = "upload" THEN Transfer!StreamWrite(chunk)
                                           ELSE Transfer!FileWrite(chunk)
  PROVE  /\ a.n \in 0 .. chunk
         /\ a.transfer \in {"started", "aborted"} /\ (~ a.err => a.transfer = "started")
<1>1. chunk \in Nat /\ transfer = "started"
  BY DEF Transfer!TransferInv, Transfer!TypeInv, Transfer!EndInv
<1>2. \/ \E k \in 0 .. chunk : a = Transfer!Answer(k, FALSE, FALSE)
      \/ \E k \in 0 .. chunk : a = Transfer!Answer(k, TRUE, FALSE)
      \/ a \in Transfer!StreamErrors
  <2>1. CASE direction = "upload"
    <3>1. \/ \E k \in 1 .. chunk : a = Transfer!Answer(k, FALSE, FALSE)
          \/ a \in Transfer!StreamErrors
      BY <2>1, Zenon DEF Transfer!StreamWrite
    <3> QED
      BY <1>1, <3>1 DEF Transfer!Answer
  <2>2. CASE direction # "upload"
    <3>1. \/ a = Transfer!Answer(chunk, FALSE, FALSE)
          \/ \E k \in 0 .. chunk - 1 : a = Transfer!Answer(k, TRUE, FALSE)
      BY <2>2 DEF Transfer!FileWrite
    <3> QED
      BY <1>1, <3>1 DEF Transfer!Answer
  <2> QED
    BY <2>1, <2>2
<1>3. CASE a \in Transfer!StreamErrors
  <2>1. a.n = 0 /\ a.err = TRUE /\ a.transfer \in {transfer, "aborted"}
    BY <1>3, ErrorFacts
  <2> QED
    BY <1>1, <2>1
<1>4. CASE \E k \in 0 .. chunk : a = Transfer!Answer(k, FALSE, FALSE)
  BY <1>1, <1>4 DEF Transfer!Answer
<1>5. CASE \E k \in 0 .. chunk : a = Transfer!Answer(k, TRUE, FALSE)
  BY <1>1, <1>5 DEF Transfer!Answer
<1> QED
  BY <1>2, <1>3, <1>4, <1>5

\* A transfer that was started is under way until it is finished, or aborted by
\* an error of the stream or before its stream is released.
LEMMA EndStep ==
  ASSUME Transfer!TransferInv, Transfer!Next
  PROVE  Transfer!EndInv'
<1> USE DEF Transfer!TransferInv, Transfer!TypeInv, Transfer!At, Transfer!Fail, Transfer!EndInv
<1>1. Len(Transfer!Handles) = 4
  BY DEF Transfer!Handles
<1>2. CASE Transfer!Acquire
  BY <1>2 DEF Transfer!Acquire
<1>3. CASE Transfer!Start
  BY <1>3 DEF Transfer!Start, Transfer!HeldInv
<1>4. CASE Transfer!OpenFile
  BY <1>4 DEF Transfer!OpenFile
<1>5. CASE Transfer!CopyRead
  <2>1. /\ at = "read" /\ active /\ transfer = "started" /\ Len(held) = 4
        /\ held' = held /\ active' = active
    BY <1>1, <1>5 DEF Transfer!CopyRead
  <2>2. CASE Transfer!Room = 0
    BY <1>1, <1>5, <2>1, <2>2 DEF Transfer!CopyRead, Transfer!CopyEnds, Transfer!CloseFile
  <2>3. CASE Transfer!Room # 0
    <3>1. PICK a \in (IF direction = "upload" THEN Transfer!FileRead ELSE Transfer!StreamRead) :
            /\ transfer' = a.transfer
            /\ CASE a.err -> Transfer!CopyFails
                 [] a.end -> Transfer!CopyEnds
                 [] OTHER -> at' = "write"
      BY <1>5, <2>3 DEF Transfer!CopyRead
    <3>2. /\ a.err \in BOOLEAN /\ a.end \in BOOLEAN /\ ~ (a.err /\ a.end)
          /\ a.transfer \in {"started", "aborted"} /\ (~ a.err => a.transfer = "started")
      BY <2>1, <2>3, ReadFacts
    <3> QED
      BY <1>1, <2>1, <3>1, <3>2 DEF Transfer!CopyEnds, Transfer!CopyFails, Transfer!CloseFile
  <2> QED
    BY <2>2, <2>3
<1>6. CASE Transfer!CopyWrite
  <2>1. /\ at = "write" /\ active /\ transfer = "started" /\ Len(held) = 4
        /\ held' = held /\ active' = active
    BY <1>1, <1>6 DEF Transfer!CopyWrite
  <2>2. PICK a \in (IF direction = "upload" THEN Transfer!StreamWrite(chunk)
                                            ELSE Transfer!FileWrite(chunk)) :
          transfer' = a.transfer /\ Transfer!AfterWrite(a)
    BY <1>6 DEF Transfer!CopyWrite
  <2>3. a.transfer \in {"started", "aborted"} /\ (~ a.err => a.transfer = "started")
    BY <2>1, <2>2, WriteFacts
  <2> QED
    BY <1>1, <2>1, <2>2, <2>3 DEF Transfer!AfterWrite, Transfer!CopyFails, Transfer!CloseFile
<1>7. CASE Transfer!Finish
  BY <1>1, <1>7 DEF Transfer!Finish, Transfer!Confirm
<1>8. CASE Transfer!Release
  <2>1. at = "unwind" /\ at' = "unwind" /\ held # << >>
    BY <1>8 DEF Transfer!Release
  <2>2. CASE held[Len(held)] = "stream"
    BY <1>8, <2>1, <2>2 DEF Transfer!Release, Transfer!Abort
  <2>3. CASE held[Len(held)] # "stream"
    <3>1. Len(held) # 4
      BY <2>1, <2>3, HeldFacts
    <3>2. ~ active /\ UNCHANGED <<transfer, active>>
      BY <1>1, <1>8, <2>3, <3>1 DEF Transfer!Release
    <3> QED
      BY <2>1, <3>2
  <2> QED
    BY <2>2, <2>3
<1>9. CASE Transfer!Return
  BY <1>9, <1>1 DEF Transfer!Return
<1> QED
  BY <1>2, <1>3, <1>4, <1>5, <1>6, <1>7, <1>8, <1>9 DEF Transfer!Next

\* The bytes as each step leaves them.
LEMMA CopyStep ==
  ASSUME Transfer!TransferInv, Transfer!Next
  PROVE  Transfer!TypeInv' /\ Transfer!CopyInv'
<1> USE DEF Transfer!TransferInv, Transfer!At, Transfer!Fail, Transfer!Whole
<1>1. Len(sink) \in Nat /\ taken \in Nat /\ length \in Nat /\ chunk \in Nat /\ sink \in Seq(Nat)
      /\ direction \in Transfer!Direction /\ active \in BOOLEAN
  BY LenProperties DEF Transfer!TypeInv
\* Four steps come before the bytes, and one after them.
<1>2. ASSUME Transfer!Acquire \/ Transfer!Start \/ Transfer!OpenFile
      PROVE  Transfer!TypeInv' /\ Transfer!CopyInv'
  <2>1. /\ at \in {"acquire", "start", "open"}
        /\ \/ at' \in {"acquire", "start", "open", "read"} /\ error' = error
           \/ at' = "unwind" /\ error' = TRUE
        /\ UNCHANGED <<direction, length, taken, chunk, sink>>
    BY <1>2 DEF Transfer!Acquire, Transfer!Start, Transfer!OpenFile, Transfer!copying
  <2>2. /\ access' \in {"none", "readonly", "full"} /\ active' \in BOOLEAN /\ file' \in BOOLEAN
        /\ transfer' \in {"none", "started", "finished", "aborted"}
    BY <1>2 DEF Transfer!Acquire, Transfer!Start, Transfer!OpenFile, Transfer!copying,
                Transfer!TypeInv, Transfer!AccessFor
  <2>3. Transfer!TypeInv'
    BY <2>1, <2>2 DEF Transfer!TypeInv
  <2>4. Transfer!CopyInv'
    BY <1>1, <2>1 DEF Transfer!CopyInv, Transfer!NoGaps
  <2> QED
    BY <2>3, <2>4
\* The ways out of the copy.
<1>3. ASSUME NEW done \in BOOLEAN, Transfer!CloseFile(~ done), done => Transfer!Whole',
             UNCHANGED <<direction, length, access, active>>, transfer' \in {"started", "aborted"},
             at \in {"read", "write"},
             taken' \in Nat, chunk' \in Nat, sink' \in Seq(Nat), Transfer!NoGaps',
             taken' <= Size, length # 0 => taken' <= length
      PROVE  Transfer!TypeInv' /\ Transfer!CopyInv'
  <2>1. /\ file' = FALSE
        /\ \/ done /\ at' = "finish" /\ error' = error
           \/ at' = "unwind" /\ error' = TRUE
    BY <1>3 DEF Transfer!CloseFile
  <2>2. Transfer!TypeInv'
    BY <1>3, <2>1 DEF Transfer!TypeInv
  <2>3. Transfer!CopyInv'
    BY <1>3, <2>1 DEF Transfer!CopyInv
  <2> QED
    BY <2>2, <2>3
<1>4. CASE Transfer!CopyRead
  <2>1. /\ at = "read" /\ chunk = 0 /\ Len(sink) = taken /\ sink' = sink /\ ~ error
        /\ taken <= Size /\ (length # 0 => taken <= length) /\ Transfer!NoGaps
        /\ transfer = "started" /\ UNCHANGED <<direction, length, access, active>>
    BY <1>1, <1>4 DEF Transfer!CopyRead, Transfer!CopyInv, Transfer!EndInv
  <2>2. Transfer!NoGaps'
    BY <2>1 DEF Transfer!NoGaps
  <2>3. ASSUME Transfer!CopyEnds, taken' = taken, chunk' = 0, transfer' = "started",
               length = 0 => taken = Size
        PROVE  Transfer!TypeInv' /\ Transfer!CopyInv'
    <3> DEFINE done == ~ (length # 0 /\ Len(sink) < length)
    <3>1. Transfer!CloseFile(~ done)
      BY <2>3 DEF Transfer!CopyEnds
    <3>2. done => Transfer!Whole'
      BY <1>1, <2>1, <2>3
    <3> QED
      BY <1>1, <1>3, <2>1, <2>2, <2>3, <3>1, <3>2
  <2>4. CASE Transfer!Room = 0
    <3>1. length # 0
      BY <2>4, TransferAssumption DEF Transfer!Room
    <3> QED
      BY <1>4, <2>1, <2>3, <2>4, <3>1 DEF Transfer!CopyRead
  <2>5. CASE Transfer!Room # 0
    <3>1. PICK a \in (IF direction = "upload" THEN Transfer!FileRead ELSE Transfer!StreamRead) :
            /\ taken' = taken + a.n /\ chunk' = a.n /\ transfer' = a.transfer
            /\ CASE a.err -> Transfer!CopyFails
                 [] a.end -> Transfer!CopyEnds
                 [] OTHER -> at' = "write" /\ UNCHANGED <<error, file>>
      BY <1>4, <2>5 DEF Transfer!CopyRead
    <3>2. /\ a.n \in Nat /\ taken + a.n <= Size /\ (length # 0 => taken + a.n <= length)
          /\ a.err \in BOOLEAN /\ a.end \in BOOLEAN /\ ~ (a.err /\ a.end)
          /\ a.err \/ a.end => a.n = 0
          /\ a.end => taken = Size
          /\ transfer' \in {"started", "aborted"} /\ (~ a.err => transfer' = "started")
      BY <3>1, <2>1, <2>5, ReadFacts
    <3>3. CASE Transfer!CopyFails
      <4>1. Transfer!CloseFile(~ FALSE)
        BY <3>3 DEF Transfer!CopyFails
      <4>2. /\ taken' \in Nat /\ chunk' \in Nat /\ sink' \in Seq(Nat)
            /\ taken' <= Size /\ (length # 0 => taken' <= length)
        BY <1>1, <2>1, <3>1, <3>2
      <4> QED
        BY <1>3, <2>1, <2>2, <3>2, <4>1, <4>2
    <3>4. CASE ~ a.err /\ a.end /\ Transfer!CopyEnds
      BY <1>1, <2>3, <3>1, <3>2, <3>4
    <3>5. CASE at' = "write" /\ UNCHANGED <<error, file>>
      <4>1. Transfer!TypeInv'
        BY <1>1, <2>1, <3>1, <3>2, <3>5 DEF Transfer!TypeInv
      <4>2. Transfer!CopyInv'
        BY <1>1, <2>1, <2>2, <3>1, <3>2, <3>5 DEF Transfer!CopyInv
      <4> QED
        BY <4>1, <4>2
    <3>6. \/ Transfer!CopyFails
          \/ ~ a.err /\ a.end /\ Transfer!CopyEnds
          \/ at' = "write" /\ UNCHANGED <<error, file>>
      BY <3>1, <3>2
    <3> QED
      BY <3>3, <3>4, <3>5, <3>6
  <2> QED
    BY <2>4, <2>5
<1>5. CASE Transfer!CopyWrite
  <2>1. /\ at = "write" /\ Len(sink) + chunk = taken /\ ~ error /\ taken' = taken
        /\ taken <= Size /\ (length # 0 => taken <= length) /\ Transfer!NoGaps
        /\ transfer = "started" /\ UNCHANGED <<direction, length, access, active>>
    BY <1>1, <1>5 DEF Transfer!CopyWrite, Transfer!CopyInv, Transfer!EndInv
  <2>2. PICK a \in (IF direction = "upload" THEN Transfer!StreamWrite(chunk)
                                            ELSE Transfer!FileWrite(chunk)) :
          /\ sink' = sink \o Transfer!Written(a.n) /\ chunk' = 0 /\ transfer' = a.transfer
          /\ Transfer!AfterWrite(a)
    BY <1>5 DEF Transfer!CopyWrite
  <2>3. a.n \in 0 .. chunk /\ transfer' \in {"started", "aborted"}
    BY <2>1, <2>2, WriteFacts
  <2>4. sink' \in Seq(Nat) /\ Len(sink') = Len(sink) + a.n /\ Transfer!NoGaps'
    BY <2>1, <2>2, <2>3, SinkGrows
  <2>5. CASE Transfer!CopyFails
    BY <1>1, <1>3, <2>1, <2>2, <2>3, <2>4, <2>5 DEF Transfer!CopyFails
  <2>6. CASE a.n = chunk /\ at' = "read" /\ UNCHANGED <<error, file>>
    <3>1. Transfer!TypeInv'
      BY <1>1, <2>1, <2>2, <2>3, <2>4, <2>6 DEF Transfer!TypeInv
    <3>2. Transfer!CopyInv'
      BY <1>1, <2>1, <2>2, <2>4, <2>6 DEF Transfer!CopyInv
    <3> QED
      BY <3>1, <3>2
  <2> QED
    BY <2>2, <2>5, <2>6 DEF Transfer!AfterWrite
\* The steps that leave the bytes where they are.
<1>6. ASSUME Transfer!Finish \/ Transfer!Release \/ Transfer!Return
      PROVE  Transfer!TypeInv' /\ Transfer!CopyInv'
  <2>1. /\ at \in {"finish", "unwind"} /\ at' \in {"unwind", "done"}
        /\ UNCHANGED <<direction, length, access, file, taken, chunk, sink>>
        /\ error' \in BOOLEAN /\ active' \in BOOLEAN
        /\ transfer' \in {"none", "started", "finished", "aborted"}
    BY <1>6 DEF Transfer!Finish, Transfer!Release, Transfer!Return, Transfer!copying,
                Transfer!Confirm, Transfer!Abort, Transfer!TypeInv
  <2>2. ~ error' => ~ error /\ transfer' = "finished"
    BY <1>6 DEF Transfer!Finish, Transfer!Release, Transfer!Return, Transfer!Confirm, Transfer!Abort,
                Transfer!TypeInv, Transfer!CopyInv, Transfer!EndInv
  <2>3. Transfer!TypeInv'
    BY <2>1 DEF Transfer!TypeInv
  <2>4. Transfer!CopyInv'
    BY <1>1, <2>1, <2>2 DEF Transfer!CopyInv, Transfer!NoGaps
  <2> QED
    BY <2>3, <2>4
<1> QED
  BY <1>2, <1>4, <1>5, <1>6 DEF Transfer!Next

LEMMA TransferStep == Transfer!TransferInv /\ Transfer!Next => Transfer!TransferInv'
BY HeldStep, EndStep, CopyStep DEF Transfer!TransferInv

\* Either the scripts or the transfer run; the other program stands still.
LEMMA TransferOrNothing == ExamplesSpec => [](NoTransfer \/ Transfer!TransferInv)
<1>1. ExamplesInit => NoTransfer \/ Transfer!TransferInv
  BY TransferStart DEF ExamplesInit
<1>2. ASSUME NoTransfer \/ Transfer!TransferInv, [ExamplesNext]_<<vars, transferVars>>
      PROVE  (NoTransfer \/ Transfer!TransferInv)'
  <2>1. CASE UNCHANGED transferVars
    <3>1. CASE NoTransfer
      BY <2>1, <3>1 DEF NoTransfer, transferVars
    <3>2. CASE Transfer!TransferInv
      BY <2>1, <3>2 DEF transferVars, Transfer!TransferInv, Transfer!TypeInv, Transfer!HeldInv,
         Transfer!CopyInv, Transfer!EndInv, Transfer!NoGaps, Transfer!Whole
    <3> QED
      BY <1>2, <3>1, <3>2
  <2>2. CASE Transfer!Next
    <3>1. ~ NoTransfer
      BY <2>2 DEF NoTransfer, Transfer!Next, Transfer!Acquire, Transfer!Start, Transfer!OpenFile,
         Transfer!CopyRead, Transfer!CopyWrite, Transfer!Finish, Transfer!Release, Transfer!Return,
         Transfer!At
    <3> QED
      BY <1>2, <2>2, <3>1, TransferStep
  <2> QED
    BY <1>2, <2>1, <2>2 DEF ExamplesNext
<1> QED
  BY <1>1, <1>2, PTL DEF ExamplesSpec

\* stream.go:97 and io.Copy, volume-transfer/main.go:107-121: for every size of
\* the source, every buffer and every length, the sink never has a gap, and a
\* transfer that reports success has moved every byte and was confirmed.
THEOREM TransfersMoveEveryByte == ExamplesSpec => []TransfersAreWhole
<1>1. NoTransfer => TransfersAreWhole
  BY DEF NoTransfer, TransfersAreWhole, Transfer!NoGaps, Transfer!SuccessMeansAll
<1>2. Transfer!TransferInv => TransfersAreWhole
  BY DEF TransfersAreWhole, Transfer!TransferInv, Transfer!CopyInv, Transfer!Whole,
         Transfer!SuccessMeansAll
<1> QED
  BY <1>1, <1>2, TransferOrNothing, PTL

\* volume-transfer/main.go:92-121: no transfer is under way when its stream is
\* released, although a stream may have aborted it, and none is aborted that has
\* finished.
THEOREM StreamsAreFreedAtRest == ExamplesSpec => []TransfersEndBeforeFree
<1>1. NoTransfer => TransfersEndBeforeFree
  BY DEF NoTransfer, TransfersEndBeforeFree, Transfer!EndedBeforeFree
<1>2. Transfer!TransferInv => TransfersEndBeforeFree
  BY DEF TransfersEndBeforeFree, Transfer!EndedBeforeFree, Transfer!TransferInv, Transfer!EndInv
<1> QED
  BY <1>1, <1>2, TransferOrNothing, PTL

--------------------------------------------------------------------------------
(* The connection a command opens is enough for the calls it makes.          *)

\* The commands of the repository, each with any action a user may give.  The
\* value of a secret is excepted (MCSecretsGet).
Commands ==
  {runStorage(a, by) : a \in STRING, by \in {"key", "path", "name"}}
    \cup {runNetwork(a) : a \in STRING}
    \cup {runSnapshots(k, a) : k \in STRING, a \in STRING}
    \cup {runDomain(a) : a \in STRING}
    \cup {runSecrets(a) : a \in STRING \ {"get"}}
    \cup {runFilters(a) : a \in STRING}
    \cup {runParameters(a, g) : a \in STRING,
            g \in {"memory", "numa", "scheduler", "blockio", "other"}}
    \cup {runInventory, mainListDomains}

\* The calls the read-only actions make.
StorageCall ==
  {"pool.ListAll", "pool.LookupByName", "volume.ListAll", "volume.LookupByKey",
   "volume.LookupByPath", "volume.LookupByName"}
NetworkCall ==
  {"network.ListAll", "network.LookupByName", "port.ListAll", "port.LookupByUUIDString"}
DomainCall ==
  {"domain.ListAll", "domain.LookupByName", "snapshot.ListAll", "snapshot.Current",
   "snapshot.LookupByName", "checkpoint.ListAll", "checkpoint.LookupByName",
   "checkpoint.ListAllChildren"}
OtherCall ==
  {"secret.ListAll", "secret.LookupByUUIDString", "secret.GetUUIDString", "secret.GetXMLDesc",
   "filter.ListAll", "filter.LookupByName", "filter.GetName", "filter.GetUUIDString",
   "filter.GetXMLDesc", "connection.GetURI", "connection.GetVersion", "connection.GetLibVersion",
   "connection.IsAlive"}
ParameterCall ==
  {"domain.GetMemoryParameters", "domain.GetNumaParameters", "domain.GetSchedulerParameters",
   "domain.GetBlockIOParameters"}
ReadCall ==
  printPool(TRUE) \cup printVolume \cup StorageCall
    \cup printNetwork(TRUE) \cup printPort \cup NetworkCall
    \cup printSnapshot \cup printCheckpoint \cup printDomain(TRUE) \cup DomainCall
    \cup OtherCall \cup ParameterCall

Verb == {"check", "reject", "open", "get", "list", "use", "each", "leave", "drain"}
Name == {connection, None, "pool", "volume", "network", "port", "domain", "snapshot", "checkpoint",
         "child", "secret", "filter"}
ReadStep == [do : Verb, h : Name, from : Name, calls : SUBSET ReadCall]
ReadScript == Seq(ReadStep)

LEMMA NotRefused == ReadCall \cap RefusedCalls = {}
<1> USE DEF RefusedCalls
<1>1. (printPool(TRUE) \cup printVolume \cup StorageCall) \cap RefusedCalls = {}
  BY DEF printPool, printVolume, StorageCall
<1>2. (printNetwork(TRUE) \cup printPort \cup NetworkCall) \cap RefusedCalls = {}
  BY DEF printNetwork, printPort, NetworkCall
<1>3. (printSnapshot \cup printCheckpoint) \cap RefusedCalls = {}
  BY DEF printSnapshot, printCheckpoint
<1>4. (printDomain(TRUE) \cup DomainCall) \cap RefusedCalls = {}
  BY DEF printDomain, DomainCall
<1>5. OtherCall \cap RefusedCalls = {}
  BY DEF OtherCall
<1>6. ParameterCall \cap RefusedCalls = {}
  BY DEF ParameterCall
<1> HIDE DEF RefusedCalls
<1> QED
  BY <1>1, <1>2, <1>3, <1>4, <1>5, <1>6 DEF ReadCall

\* A script of one step.
LEMMA OneStep ==
  /\ check \in ReadScript /\ reject \in ReadScript /\ open \in ReadScript
  /\ \A h \in Name : leave(h) \in ReadScript
  /\ \A h, from \in Name : \A call \in ReadCall :
       get(h, from, call) \in ReadScript /\ list(h, from, call) \in ReadScript
  /\ \A h \in Name : \A calls \in SUBSET ReadCall :
       use(h, calls) \in ReadScript /\ each(h, calls) \in ReadScript /\ drain(h, calls) \in ReadScript
<1>1. \A do \in Verb : \A h, from \in Name : \A calls \in SUBSET ReadCall :
        <<Step(do, h, from, calls)>> \in ReadScript
  BY DEF Step, ReadStep, ReadScript
<1>2. connection \in Name /\ None \in Name
  BY DEF Name
<1>3. {"check", "reject", "open", "get", "list", "use", "each", "leave", "drain"} \subseteq Verb
  BY DEF Verb
<1> QED
  BY <1>1, <1>2, <1>3 DEF check, reject, open, leave, get, list, use, each, drain

\* A script after a script is a script.
LEMMA Joined ==
  ASSUME NEW s \in ReadScript, NEW t \in ReadScript
  PROVE  s \o t \in ReadScript
BY DEF ReadScript

LEMMA Printed ==
  /\ printPool(FALSE) \subseteq ReadCall /\ printNetwork(FALSE) \subseteq ReadCall
  /\ printDomain(FALSE) \subseteq ReadCall
<1>1. /\ printPool(FALSE) \subseteq printPool(TRUE)
      /\ printNetwork(FALSE) \subseteq printNetwork(TRUE)
      /\ printDomain(FALSE) \subseteq printDomain(TRUE)
  BY DEF printPool, printNetwork, printDomain
<1> QED
  BY <1>1 DEF ReadCall

\* What every command begins with.
LEMMA Begun ==
  ASSUME NEW action \in ReadScript
  PROVE  check \o open \o action \in ReadScript
BY OneStep, Joined

LEMMA StorageReads ==
  ASSUME NEW a \in STRING, NEW by \in {"key", "path", "name"}, isReadOnlyAction(a)
  PROVE  runStorage(a, by).script \in ReadScript
<1> USE OneStep, Joined DEF Name
<1>1. CASE a = "list-pools"
  <2>1. /\ list("pool", connection, "pool.ListAll") \in ReadScript
        /\ each("pool", printPool(FALSE)) \in ReadScript
    BY Printed DEF ReadCall, StorageCall
  <2>2. runStorage(a, by).script = check \o open \o listPools
    BY <1>1 DEF runStorage, RunOf
  <2>3. listPools \in ReadScript
    BY <2>1 DEF listPools
  <2> QED
    BY <2>2, <2>3, Begun
<1>2. get("pool", connection, "pool.LookupByName") \in ReadScript
  BY DEF ReadCall, StorageCall
<1>3. CASE a = "inspect-pool"
  <2>1. use("pool", printPool(TRUE)) \in ReadScript
    BY DEF ReadCall
  <2>2. actOnPool(a) = check \o get("pool", connection, "pool.LookupByName") \o use("pool", printPool(TRUE))
    BY <1>3 DEF actOnPool
  <2>3. runStorage(a, by).script = check \o open \o actOnPool(a)
    BY <1>3 DEF runStorage, RunOf
  <2>4. check \o get("pool", connection, "pool.LookupByName") \in ReadScript
    BY <1>2
  <2>5. actOnPool(a) \in ReadScript
    BY <2>1, <2>2, <2>4
  <2> QED
    BY <2>3, <2>5, Begun
<1>4. CASE a = "list-volumes"
  <2>1. list("volume", "pool", "volume.ListAll") \in ReadScript /\ each("volume", printVolume) \in ReadScript
    BY DEF ReadCall, StorageCall
  <2>2. actOnPool(a) = check \o get("pool", connection, "pool.LookupByName") \o listVolumes
    BY <1>4 DEF actOnPool
  <2>3. runStorage(a, by).script = check \o open \o actOnPool(a)
    BY <1>4 DEF runStorage, RunOf
  <2>4. actOnPool(a) \in ReadScript
    BY <1>2, <2>1, <2>2 DEF listVolumes
  <2> QED
    BY <2>3, <2>4, Begun
<1>5. CASE a = "inspect-volume"
  <2>1. /\ get("volume", connection, "volume.LookupByKey") \in ReadScript
        /\ get("volume", connection, "volume.LookupByPath") \in ReadScript
        /\ get("volume", "pool", "volume.LookupByName") \in ReadScript
        /\ use("volume", printVolume) \in ReadScript
    BY DEF ReadCall, StorageCall
  <2>2. lookupVolume(by) \in ReadScript
    BY <1>2, <2>1 DEF lookupVolume
  <2>3. actOnVolume(a, by) = lookupVolume(by) \o use("volume", printVolume)
    BY <1>5 DEF actOnVolume
  <2>4. runStorage(a, by).script = check \o open \o actOnVolume(a, by)
    BY <1>5 DEF runStorage, RunOf
  <2>5. actOnVolume(a, by) \in ReadScript
    BY <2>1, <2>2, <2>3
  <2> QED
    BY <2>4, <2>5, Begun
<1> QED
  BY <1>1, <1>3, <1>4, <1>5 DEF isReadOnlyAction

LEMMA NetworkReads ==
  ASSUME NEW a \in STRING, isReadOnlyNetwork(a)
  PROVE  runNetwork(a).script \in ReadScript
<1> USE OneStep, Joined DEF Name
<1>1. CASE a = "list"
  <2>1. /\ list("network", connection, "network.ListAll") \in ReadScript
        /\ each("network", printNetwork(FALSE)) \in ReadScript
    BY Printed DEF ReadCall, NetworkCall
  <2>2. runNetwork(a).script = check \o open \o listNetworks
    BY <1>1 DEF runNetwork, RunOf
  <2>3. listNetworks \in ReadScript
    BY <2>1 DEF listNetworks
  <2> QED
    BY <2>2, <2>3, Begun
<1>2. get("network", connection, "network.LookupByName") \in ReadScript
  BY DEF ReadCall, NetworkCall
<1>3. ASSUME NEW action \in ReadScript,
             actOnNetwork(a) = get("network", connection, "network.LookupByName") \o action,
             a \in {"inspect", "list-ports", "inspect-port"}
      PROVE  runNetwork(a).script \in ReadScript
  <2>1. runNetwork(a).script = check \o open \o (check \o actOnNetwork(a))
    BY <1>3 DEF runNetwork, RunOf
  <2>2. check \o actOnNetwork(a) \in ReadScript
    BY <1>2, <1>3
  <2> QED
    BY <2>1, <2>2, Begun
<1>4. CASE a = "inspect"
  <2>1. use("network", printNetwork(TRUE)) \in ReadScript
    BY DEF ReadCall
  <2> QED
    BY <1>3, <1>4, <2>1 DEF actOnNetwork
<1>5. CASE a = "list-ports"
  <2>1. /\ list("port", "network", "port.ListAll") \in ReadScript
        /\ each("port", {"port.GetUUIDString"}) \in ReadScript
    BY DEF ReadCall, NetworkCall, printPort
  <2>2. listPorts \in ReadScript
    BY <2>1 DEF listPorts
  <2> QED
    BY <1>3, <1>5, <2>2 DEF actOnNetwork
<1>6. CASE a = "inspect-port"
  <2>1. /\ get("port", "network", "port.LookupByUUIDString") \in ReadScript
        /\ use("port", printPort) \in ReadScript /\ leave("port") \in ReadScript
    BY DEF ReadCall, NetworkCall
  <2>2. check \o get("port", "network", "port.LookupByUUIDString") \o usePort(printPort) \in ReadScript
    BY <2>1 DEF usePort
  <2> QED
    BY <1>3, <1>6, <2>2 DEF actOnNetwork
<1> QED
  BY <1>1, <1>4, <1>5, <1>6 DEF isReadOnlyNetwork

LEMMA SnapshotReads ==
  ASSUME NEW k \in STRING, NEW a \in {"list", "inspect", "current", "children"}
  PROVE  runSnapshots(k, a).script \in ReadScript
<1> USE OneStep, Joined DEF Name
<1>1. /\ leave("snapshot") \in ReadScript /\ leave("checkpoint") \in ReadScript
      /\ leave("child") \in ReadScript
  OBVIOUS
<1>2. runSnapshotAction(a) \in ReadScript
  <2>1. /\ list("snapshot", "domain", "snapshot.ListAll") \in ReadScript
        /\ each("snapshot", {"snapshot.GetName"}) \in ReadScript
        /\ get("snapshot", "domain", "snapshot.Current") \in ReadScript
        /\ get("snapshot", "domain", "snapshot.LookupByName") \in ReadScript
        /\ use("snapshot", printSnapshot) \in ReadScript
    BY DEF ReadCall, DomainCall, printSnapshot
  <2>2. useSnapshot(printSnapshot) \in ReadScript
    BY <1>1, <2>1 DEF useSnapshot
  <2>3. CASE a = "list"
    BY <2>1, <2>3 DEF runSnapshotAction, listSnapshots
  <2>4. CASE a = "current"
    BY <2>1, <2>2, <2>4 DEF runSnapshotAction
  <2>5. CASE a = "inspect"
    <3>1. runSnapshotAction(a) =
            check \o get("snapshot", "domain", "snapshot.LookupByName") \o useSnapshot(printSnapshot)
      BY <2>5 DEF runSnapshotAction
    <3> QED
      BY <2>1, <2>2, <3>1
  <2>6. CASE a = "children"
    BY <2>6 DEF runSnapshotAction
  <2> QED
    BY <2>3, <2>4, <2>5, <2>6
<1>3. runCheckpointAction(a) \in ReadScript
  <2>1. /\ list("checkpoint", "domain", "checkpoint.ListAll") \in ReadScript
        /\ each("checkpoint", {"checkpoint.GetName"}) \in ReadScript
        /\ get("checkpoint", "domain", "checkpoint.LookupByName") \in ReadScript
        /\ use("checkpoint", printCheckpoint) \in ReadScript
        /\ list("child", "checkpoint", "checkpoint.ListAllChildren") \in ReadScript
        /\ each("child", {"checkpoint.GetName"}) \in ReadScript
    BY DEF ReadCall, DomainCall, printCheckpoint
  <2>2. listCheckpointChildren \in ReadScript
    BY <1>1, <2>1 DEF listCheckpointChildren
  <2>3. CASE a = "list"
    BY <2>1, <2>3 DEF runCheckpointAction, listCheckpoints
  <2>4. ASSUME NEW body \in ReadScript
        PROVE  check \o get("checkpoint", "domain", "checkpoint.LookupByName")
                 \o useCheckpoint(body) \in ReadScript
    BY <1>1, <2>1, <2>4 DEF useCheckpoint
  <2>5. CASE a = "inspect"
    <3>1. runCheckpointAction(a) =
            check \o get("checkpoint", "domain", "checkpoint.LookupByName")
              \o useCheckpoint(use("checkpoint", printCheckpoint))
      BY <2>5 DEF runCheckpointAction
    <3> QED
      BY <2>1, <2>4, <3>1
  <2>6. CASE a = "children"
    <3>1. runCheckpointAction(a) =
            check \o get("checkpoint", "domain", "checkpoint.LookupByName")
              \o useCheckpoint(listCheckpointChildren)
      BY <2>6 DEF runCheckpointAction
    <3> QED
      BY <2>2, <2>4, <3>1
  <2>7. CASE a = "current"
    BY <2>7 DEF runCheckpointAction
  <2> QED
    BY <2>3, <2>5, <2>6, <2>7
<1>4. get("domain", connection, "domain.LookupByName") \in ReadScript
  BY DEF ReadCall, DomainCall
<1>5. \E action \in ReadScript :
        runSnapshots(k, a).script =
          check \o open \o (get("domain", connection, "domain.LookupByName") \o action)
  BY <1>2, <1>3 DEF runSnapshots, RunOf
<1> QED
  BY <1>4, <1>5, Begun

LEMMA DomainReads ==
  ASSUME NEW a \in {"list", "inspect"}
  PROVE  runDomain(a).script \in ReadScript
<1> USE OneStep, Joined DEF Name
<1>1. CASE a = "list"
  <2>1. /\ list("domain", connection, "domain.ListAll") \in ReadScript
        /\ each("domain", printDomain(FALSE)) \in ReadScript
    BY Printed DEF ReadCall, DomainCall
  <2>2. listDomains \in ReadScript
    BY <2>1 DEF listDomains
  <2>3. runDomain(a).script = check \o open \o listDomains
    BY <1>1 DEF runDomain, RunOf
  <2> QED
    BY <2>2, <2>3, Begun
<1>2. CASE a = "inspect"
  <2>1. /\ get("domain", connection, "domain.LookupByName") \in ReadScript
        /\ use("domain", printDomain(TRUE)) \in ReadScript
    BY DEF ReadCall, DomainCall
  <2>2. actOnDomain(a) \in ReadScript
    BY <1>2, <2>1 DEF actOnDomain
  <2>3. runDomain(a).script = check \o open \o (check \o actOnDomain(a))
    BY <1>2 DEF runDomain, RunOf
  <2>4. check \o actOnDomain(a) \in ReadScript
    BY <2>2
  <2> QED
    BY <2>3, <2>4, Begun
<1> QED
  BY <1>1, <1>2

LEMMA SecretReads ==
  ASSUME NEW a \in {"list", "inspect"}
  PROVE  runSecrets(a).script \in ReadScript
<1> USE OneStep, Joined DEF Name
<1>1. /\ list("secret", connection, "secret.ListAll") \in ReadScript
      /\ each("secret", {"secret.GetUUIDString"}) \in ReadScript
      /\ get("secret", connection, "secret.LookupByUUIDString") \in ReadScript
      /\ use("secret", {"secret.GetXMLDesc"}) \in ReadScript
  BY DEF ReadCall, OtherCall
<1>2. CASE a = "list"
  <2>1. listSecrets \in ReadScript
    BY <1>1 DEF listSecrets
  <2>2. runSecrets(a).script = check \o open \o listSecrets
    BY <1>2 DEF runSecrets, RunOf
  <2> QED
    BY <2>1, <2>2, Begun
<1>3. CASE a = "inspect"
  <2>1. actOnSecret(a) \in ReadScript
    BY <1>1, <1>3 DEF actOnSecret
  <2>2. runSecrets(a).script = check \o open \o (check \o actOnSecret(a))
    BY <1>3 DEF runSecrets, RunOf
  <2>3. check \o actOnSecret(a) \in ReadScript
    BY <2>1
  <2> QED
    BY <2>2, <2>3, Begun
<1> QED
  BY <1>2, <1>3

LEMMA FilterReads ==
  ASSUME NEW a \in {"list", "inspect"}
  PROVE  runFilters(a).script \in ReadScript
<1> USE OneStep, Joined DEF Name
<1>1. /\ list("filter", connection, "filter.ListAll") \in ReadScript
      /\ each("filter", {"filter.GetName", "filter.GetUUIDString"}) \in ReadScript
      /\ get("filter", connection, "filter.LookupByName") \in ReadScript
      /\ use("filter", {"filter.GetXMLDesc"}) \in ReadScript
  BY DEF ReadCall, OtherCall
<1>2. CASE a = "list"
  <2>1. listFilters \in ReadScript
    BY <1>1 DEF listFilters
  <2>2. runFilters(a).script = check \o open \o listFilters
    BY <1>2 DEF runFilters, RunOf
  <2> QED
    BY <2>1, <2>2, Begun
<1>3. CASE a = "inspect"
  <2>1. actOnFilter(a) \in ReadScript
    BY <1>1, <1>3 DEF actOnFilter
  <2>2. runFilters(a).script = check \o open \o (check \o actOnFilter(a))
    BY <1>3 DEF runFilters, RunOf
  <2>3. check \o actOnFilter(a) \in ReadScript
    BY <2>1
  <2> QED
    BY <2>2, <2>3, Begun
<1> QED
  BY <1>2, <1>3

LEMMA ParameterReads ==
  ASSUME NEW g \in {"memory", "numa", "scheduler", "blockio", "other"}
  PROVE  runParameters("get", g).script \in ReadScript
<1> USE OneStep, Joined DEF Name
<1> DEFINE lookup == get("domain", connection, "domain.LookupByName")
<1>1. lookup \in ReadScript
  BY DEF ReadCall, DomainCall
<1>2. CASE g = "other"
  <2>1. runParameters("get", g).script = check \o open \o (lookup \o reject)
    BY <1>2 DEF runParameters, RunOf
  <2>2. lookup \o reject \in ReadScript
    BY <1>1
  <2> QED
    BY <2>1, <2>2, Begun
<1>3. CASE g # "other"
  <2> DEFINE print == use("domain", {parameterMethods(g).get})
  <2>1. parameterMethods(g).get \in ReadCall
    BY <1>3 DEF parameterMethods, ReadCall, ParameterCall
  <2>2. print \in ReadScript
    BY <2>1
  <2>3. runParameters("get", g).script = check \o open \o (lookup \o (<< >> \o print))
    BY <1>3 DEF runParameters, RunOf
  <2>4. << >> \in ReadScript
    BY DEF ReadScript
  <2> HIDE DEF print, lookup
  <2>5. lookup \o (<< >> \o print) \in ReadScript
    BY <1>1, <2>2, <2>4
  <2> QED
    BY <2>3, <2>5, Begun
<1> QED
  BY <1>2, <1>3

LEMMA InventoryReads == runInventory.script \in ReadScript
<1> USE OneStep, Joined DEF Name
<1> DEFINE info == use(connection, {"connection.GetURI", "connection.GetVersion",
                                    "connection.GetLibVersion", "connection.IsAlive"})
<1>1. info \in ReadScript
  BY DEF ReadCall, OtherCall
<1>2. printDomains \in ReadScript
  <2>1. /\ list("domain", connection, "domain.ListAll") \in ReadScript
        /\ each("domain", {"domain.GetName", "domain.GetUUIDString", "domain.GetState",
                           "domain.IsActive"}) \in ReadScript
        /\ leave("domain") \in ReadScript
    BY DEF ReadCall, DomainCall, printDomain
  <2> QED
    BY <2>1 DEF printDomains
<1>3. printNetworks \in ReadScript
  <2>1. /\ list("network", connection, "network.ListAll") \in ReadScript
        /\ each("network", {"network.GetName", "network.GetUUIDString", "network.IsActive",
                            "network.IsPersistent"}) \in ReadScript
        /\ leave("network") \in ReadScript
    BY DEF ReadCall, NetworkCall, printNetwork
  <2> QED
    BY <2>1 DEF printNetworks
<1>4. printStoragePools \in ReadScript
  <2>1. /\ list("pool", connection, "pool.ListAll") \in ReadScript
        /\ each("pool", {"pool.GetName", "pool.GetUUIDString", "pool.IsActive",
                         "pool.IsPersistent"}) \in ReadScript
        /\ leave("pool") \in ReadScript
    BY DEF ReadCall, StorageCall, printPool
  <2> QED
    BY <2>1 DEF printStoragePools
<1>5. runInventory.script = check \o open \o (info \o printDomains \o printNetworks \o printStoragePools)
  BY DEF runInventory, RunOf
<1> HIDE DEF info
<1>6. info \o printDomains \in ReadScript
  BY <1>1, <1>2
<1>7. info \o printDomains \o printNetworks \in ReadScript
  BY <1>3, <1>6
<1>8. info \o printDomains \o printNetworks \o printStoragePools \in ReadScript
  BY <1>4, <1>7
<1> QED
  BY <1>5, <1>8, Begun

LEMMA MainReads == mainListDomains.script \in ReadScript
<1> USE OneStep, Joined DEF Name
<1>1. /\ list("domain", connection, "domain.ListAll") \in ReadScript
      /\ drain("domain", {"domain.GetName"}) \in ReadScript
  BY DEF ReadCall, DomainCall, printDomain
<1>2. open \o list("domain", connection, "domain.ListAll") \in ReadScript
  BY <1>1
<1> QED
  BY <1>1, <1>2 DEF mainListDomains

\* Every command that opens a read-only connection asks nothing else of it.
LEMMA CommandReads == \A c \in Commands : c.readOnly => c.script \in ReadScript
<1> SUFFICES ASSUME NEW c \in Commands, c.readOnly
             PROVE  c.script \in ReadScript
  OBVIOUS
<1>1. \A readOnly, action : RunOf(readOnly, action).readOnly = readOnly
  BY DEF RunOf
<1>2. CASE \E a \in STRING, by \in {"key", "path", "name"} : c = runStorage(a, by)
  <2>1. PICK a \in STRING, by \in {"key", "path", "name"} : c = runStorage(a, by)
    BY <1>2
  <2>2. isReadOnlyAction(a)
    BY <1>1, <2>1 DEF runStorage
  <2> QED
    BY <2>1, <2>2, StorageReads
<1>3. CASE \E a \in STRING : c = runNetwork(a)
  <2>1. PICK a \in STRING : c = runNetwork(a)
    BY <1>3
  <2>2. isReadOnlyNetwork(a)
    BY <1>1, <2>1 DEF runNetwork
  <2> QED
    BY <2>1, <2>2, NetworkReads
<1>4. CASE \E k \in STRING, a \in STRING : c = runSnapshots(k, a)
  <2>1. PICK k \in STRING, a \in STRING : c = runSnapshots(k, a)
    BY <1>4
  <2>2. a \in {"list", "inspect", "current", "children"}
    <3>1. runSnapshots(k, a).readOnly = (a \in {"list", "inspect", "current", "children"})
      BY DEF runSnapshots, RunOf
    <3> QED
      BY <2>1, <3>1
  <2> QED
    BY <2>1, <2>2, SnapshotReads
<1>5. CASE \E a \in STRING : c = runDomain(a)
  <2>1. PICK a \in STRING : c = runDomain(a)
    BY <1>5
  <2>2. a \in {"list", "inspect"}
    <3>1. runDomain(a).readOnly = (a \in {"list", "inspect"})
      BY DEF runDomain, RunOf
    <3> QED
      BY <2>1, <3>1
  <2> QED
    BY <2>1, <2>2, DomainReads
<1>6. CASE \E a \in STRING \ {"get"} : c = runSecrets(a)
  <2>1. PICK a \in STRING \ {"get"} : c = runSecrets(a)
    BY <1>6
  <2>2. a \in {"list", "inspect"}
    <3>1. runSecrets(a).readOnly = (a \in {"list", "inspect", "get"})
      BY DEF runSecrets, RunOf
    <3> QED
      BY <2>1, <3>1
  <2> QED
    BY <2>1, <2>2, SecretReads
<1>7. CASE \E a \in STRING : c = runFilters(a)
  <2>1. PICK a \in STRING : c = runFilters(a)
    BY <1>7
  <2>2. a \in {"list", "inspect"}
    <3>1. runFilters(a).readOnly = (a \in {"list", "inspect"})
      BY DEF runFilters, RunOf
    <3> QED
      BY <2>1, <3>1
  <2> QED
    BY <2>1, <2>2, FilterReads
<1>8. CASE \E a \in STRING, g \in {"memory", "numa", "scheduler", "blockio", "other"} : c = runParameters(a, g)
  <2>1. PICK a \in STRING, g \in {"memory", "numa", "scheduler", "blockio", "other"} : c = runParameters(a, g)
    BY <1>8
  <2>2. a = "get"
    BY <1>1, <2>1 DEF runParameters
  <2> QED
    BY <2>1, <2>2, ParameterReads
<1>9. CASE c \in {runInventory, mainListDomains}
  BY <1>9, InventoryReads, MainReads
<1> QED
  BY <1>2, <1>3, <1>4, <1>5, <1>6, <1>7, <1>8, <1>9 DEF Commands

\* examples/README.md:33: a command that opens a read-only connection makes no
\* call libvirt refuses there, whatever action its user gives it.
THEOREM ReadOnlyIsEnough ==
  Command \subseteq Commands /\ Refused = RefusedCalls /\ Spec => []CallsArePermitted
<1> DEFINE Documented == Command \subseteq Commands /\ Refused = RefusedCalls
<1>1. SessionInv /\ Documented => CallsArePermitted
  <2> SUFFICES ASSUME SessionInv, Documented, pc = "run", step <= Len(command.script), command.readOnly
               PROVE  Now.calls \cap Refused = {}
    BY DEF CallsArePermitted, Permitted
  <2>1. command \in Commands /\ step \in Nat \ {0}
    BY DEF SessionInv, Control
  <2>2. command.script \in ReadScript
    BY <2>1, CommandReads
  <2>3. step \in 1 .. Len(command.script)
    BY <2>1, <2>2, LenProperties DEF ReadScript
  <2>4. Now \in ReadStep
    BY <2>2, <2>3, ElementOfSeq DEF ReadScript, Now
  <2>5. Now.calls \in SUBSET ReadCall
    BY <2>4 DEF ReadStep
  <2> QED
    BY <2>5, NotRefused
<1>2. SessionInv /\ Documented /\ [Next]_vars => (SessionInv /\ Documented)'
  BY SessionStep
<1>3. Init => SessionInv
  BY SessionInit
<1> HIDE DEF Documented
<1>4. Documented /\ Spec => []CallsArePermitted
  BY <1>1, <1>2, <1>3, PTL DEF Spec
<1> QED
  BY <1>4 DEF Documented

================================================================================
