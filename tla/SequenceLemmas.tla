--------------------------- MODULE SequenceLemmas ---------------------------
(***************************************************************************)
(* What the proofs need to know of data.  Channels: sequences that are     *)
(* read at their head and written at their end, seen as the sets of what   *)
(* they hold, without copies.  Finite sets that grow by one element.  And  *)
(* induction on the natural numbers, stated with sets for want of          *)
(* operators as parameters: it is drawn from the well-foundedness of the   *)
(* inclusion of finite sets.                                               *)
(***************************************************************************)
EXTENDS Naturals, Sequences, Functions, FiniteSetTheorems, TLAPS

\* Sending to a channel adds the message to what the channel holds.
LEMMA RangeAppend ==
  ASSUME NEW S, NEW s \in Seq(S), NEW x \in S
  PROVE  /\ Append(s, x) \in Seq(S)
         /\ Range(Append(s, x)) = Range(s) \cup {x}
<1>1. /\ DOMAIN s = 1 .. Len(s)
      /\ DOMAIN Append(s, x) = 1 .. (Len(s) + 1)
      /\ \A i \in 1 .. Len(s) : Append(s, x)[i] = s[i]
      /\ Append(s, x)[Len(s) + 1] = x
      /\ Len(s) \in Nat
  OBVIOUS
<1>2. QED
  BY <1>1 DEF Range

\* Receiving takes the head, and leaves the rest.
LEMMA RangeTail ==
  ASSUME NEW S, NEW s \in Seq(S), s # << >>
  PROVE  /\ Tail(s) \in Seq(S)
         /\ Head(s) \in S
         /\ Range(s) = {Head(s)} \cup Range(Tail(s))
<1>1. /\ Tail(s) \in Seq(S)
      /\ Len(s) \in Nat \ {0}
      /\ DOMAIN s = 1 .. Len(s)
      /\ Head(s) = s[1]
      /\ DOMAIN Tail(s) = 1 .. (Len(s) - 1)
      /\ \A i \in 1 .. (Len(s) - 1) : Tail(s)[i] = s[i + 1]
  OBVIOUS
<1>2. ASSUME NEW x \in Range(s)
      PROVE  x \in {Head(s)} \cup Range(Tail(s))
  <2>1. PICK i \in 1 .. Len(s) : x = s[i]
    BY <1>1 DEF Range
  <2>2. CASE i = 1
    BY <1>1, <2>1, <2>2
  <2>3. CASE i # 1
    <3>1. i - 1 \in DOMAIN Tail(s) /\ Tail(s)[i - 1] = x
      BY <1>1, <2>1, <2>3
    <3>2. QED
      BY <3>1 DEF Range
  <2>4. QED
    BY <2>2, <2>3
<1>3. Range(s) \subseteq {Head(s)} \cup Range(Tail(s))
  BY <1>2
<1>4. {Head(s)} \cup Range(Tail(s)) \subseteq Range(s)
  BY <1>1 DEF Range
<1>5. QED
  BY <1>1, <1>3, <1>4

\* A log grows at its end.
LEMMA AppendIs ==
  ASSUME NEW S, NEW s \in Seq(S), NEW x \in S
  PROVE  /\ Append(s, x) \in Seq(S)
         /\ Len(s) \in Nat /\ Len(Append(s, x)) = Len(s) + 1
         /\ DOMAIN s = 1 .. Len(s)
         /\ DOMAIN Append(s, x) = 1 .. (Len(s) + 1)
         /\ \A i \in DOMAIN s : Append(s, x)[i] = s[i]
         /\ Append(s, x)[Len(s) + 1] = x
OBVIOUS

\* A channel of messages of one kind is a channel of messages of a wider kind.
LEMMA SeqWiden ==
  ASSUME NEW S, NEW T, S \subseteq T, NEW s \in Seq(S)
  PROVE  s \in Seq(T)
OBVIOUS

\* Nothing is in the empty sequence.
LEMMA RangeEmpty == Range(<< >>) = {}
BY DEF Range

\* Sending what a channel does not hold keeps it without copies.
LEMMA InjectiveAppend ==
  ASSUME NEW S, NEW s \in Seq(S), NEW x \in S, IsInjective(s), x \notin Range(s)
  PROVE  IsInjective(Append(s, x))
<1>1. /\ DOMAIN s = 1 .. Len(s)
      /\ DOMAIN Append(s, x) = 1 .. (Len(s) + 1)
      /\ \A i \in 1 .. Len(s) : Append(s, x)[i] = s[i]
      /\ Append(s, x)[Len(s) + 1] = x
      /\ Len(s) \in Nat
  OBVIOUS
<1>2. \A i \in 1 .. Len(s) : s[i] # x
  BY <1>1 DEF Range
<1>3. QED
  BY <1>1, <1>2 DEF IsInjective

\* What is received is no longer in the channel.
LEMMA InjectiveTail ==
  ASSUME NEW S, NEW s \in Seq(S), s # << >>, IsInjective(s)
  PROVE  /\ IsInjective(Tail(s))
         /\ Range(Tail(s)) = Range(s) \ {Head(s)}
<1>1. /\ Len(s) \in Nat \ {0}
      /\ DOMAIN s = 1 .. Len(s)
      /\ Head(s) = s[1]
      /\ DOMAIN Tail(s) = 1 .. (Len(s) - 1)
      /\ \A i \in 1 .. (Len(s) - 1) : Tail(s)[i] = s[i + 1]
  OBVIOUS
<1>2. IsInjective(Tail(s))
  BY <1>1 DEF IsInjective
<1>3. ASSUME NEW i \in DOMAIN Tail(s)
      PROVE  Tail(s)[i] # Head(s)
  BY <1>1 DEF IsInjective
<1>4. Head(s) \notin Range(Tail(s))
  BY <1>3 DEF Range
<1>5. QED
  BY <1>2, <1>4, RangeTail

\* One element more in a finite set.
LEMMA OneMore ==
  ASSUME NEW S, NEW x, IsFiniteSet(S)
  PROVE  /\ IsFiniteSet(S \cup {x})
         /\ Cardinality(S) \in Nat
         /\ Cardinality(S \cup {x}) \in Nat
         /\ Cardinality(S \cup {x}) <= Cardinality(S) + 1
<1>1. IsFiniteSet(S \cup {x}) /\ Cardinality(S) \in Nat
  BY FS_AddElement, FS_CardinalityType
<1>2. Cardinality(S \cup {x}) = IF x \in S THEN Cardinality(S) ELSE Cardinality(S) + 1
  BY FS_AddElement
<1>3. QED
  BY <1>1, <1>2

-----------------------------------------------------------------------------
(* Induction.                                                              *)

\* A set of natural numbers that is not empty has a least element: that for
\* which 0 .. n - 1 is minimal for inclusion.
LEMMA LeastOf ==
  ASSUME NEW T, T \subseteq Nat, T # {}
  PROVE  \E x \in T : \A y \in T : x <= y
<1> DEFINE Below == {0 .. n - 1 : n \in T}
<1>1. Below \subseteq FiniteSubsetsOf(Nat) /\ Below # {}
  <2>1. ASSUME NEW n \in T
        PROVE  0 .. n - 1 \in SUBSET Nat /\ IsFiniteSet(0 .. n - 1)
    BY FS_Interval
  <2>2. QED
    BY <2>1 DEF FiniteSubsetsOf
<1>2. PICK s \in Below : \A t \in Below : ~ (<<t, s>> \in StrictSubsetOrdering(Nat))
  <2> HIDE DEF Below
  <2>1. QED
    BY <1>1, FS_StrictSubsetOrderingWellFounded, WFMin, Zenon
<1>3. PICK x \in T : s = 0 .. x - 1
  OBVIOUS
<1>4. ASSUME NEW y \in T, y < x
      PROVE  FALSE
  <2>1. 0 .. y - 1 \subseteq s /\ 0 .. y - 1 # s
    BY <1>3, <1>4
  <2>2. <<0 .. y - 1, s>> \in StrictSubsetOrdering(Nat)
    BY <1>3, <2>1 DEF StrictSubsetOrdering
  <2>3. QED
    BY <1>2, <2>2
<1>5. QED
  BY <1>4

\* Induction: a set that holds 0, and the successor of each number that it holds,
\* holds every natural number.
LEMMA FromZero ==
  ASSUME NEW S, 0 \in S, \A n \in Nat : n \in S => n + 1 \in S
  PROVE  \A n \in Nat : n \in S
<1>1. SUFFICES ASSUME Nat \ S # {} PROVE FALSE
  OBVIOUS
<1>2. PICK x \in Nat \ S : \A y \in Nat \ S : x <= y
  BY <1>1, LeastOf
<1>3. x # 0 /\ x - 1 \in Nat
  BY <1>2
<1>4. x - 1 \in S
  BY <1>2, <1>3
<1>5. QED
  BY <1>2, <1>3, <1>4

\* How a recursive function makes its value at n \in 1 .. m of that at n - 1.
StepsOver(S, m) == [S \X (1 .. m) -> S]

\* The values, up to m, of a recursive function with values in S.
Recursion(f, S, m, c, step) ==
  /\ f \in [0 .. m -> S]
  /\ f[0] = c
  /\ \A n \in 1 .. m : f[n] = step[<<f[n - 1], n>>]

\* They exist.
LEMMA StepByStep ==
  ASSUME NEW m \in Nat, NEW S, NEW c \in S, NEW step \in StepsOver(S, m)
  PROVE  \E f : Recursion(f, S, m, c, step)
<1> DEFINE Good == {k \in Nat : k <= m => \E f : Recursion(f, S, k, c, step)}
<1>1. 0 \in Good
  <2>1. Recursion([n \in 0 .. 0 |-> c], S, 0, c, step)
    BY DEF Recursion
  <2>2. QED
    BY <2>1
<1>2. ASSUME NEW k \in Nat, k \in Good, k + 1 <= m
      PROVE  \E f : Recursion(f, S, k + 1, c, step)
  <2>1. PICK g : Recursion(g, S, k, c, step)
    BY <1>2
  <2> DEFINE f == [n \in 0 .. k + 1 |-> IF n = k + 1 THEN step[<<g[k], k + 1>>] ELSE g[n]]
  <2>2. g \in [0 .. k -> S] /\ g[0] = c
    BY <2>1 DEF Recursion
  <2>3. f \in [0 .. k + 1 -> S]
    BY <1>2, <2>2 DEF StepsOver
  <2>4. ASSUME NEW n \in 1 .. k + 1
        PROVE  f[n] = step[<<f[n - 1], n>>]
    <3>1. CASE n = k + 1
      <4>1. f[n] = step[<<g[k], k + 1>>] /\ f[n - 1] = g[k] /\ n - 1 = k
        BY <3>1
      <4>2. QED
        BY <3>1, <4>1
    <3>2. CASE n # k + 1
      <4>1. n \in 1 .. k /\ f[n] = g[n] /\ f[n - 1] = g[n - 1]
        BY <3>2
      <4>2. QED
        BY <2>1, <4>1 DEF Recursion
    <3>3. QED
      BY <3>1, <3>2
  <2>5. f[0] = c
    BY <2>2
  <2> HIDE DEF f
  <2>6. QED
    BY <2>3, <2>4, <2>5 DEF Recursion
<1>3. \A k \in Nat : k \in Good => k + 1 \in Good
  <2>1. ASSUME NEW k \in Nat, k \in Good
        PROVE  k + 1 \in Good
    <3>1. k + 1 <= m => \E f : Recursion(f, S, k + 1, c, step)
      BY <1>2, <2>1
    <3>2. QED
      BY <3>1
  <2> HIDE DEF Good
  <2>2. QED
    BY <2>1
<1>4. m \in Good
  <2> HIDE DEF Good
  <2>1. QED
    BY <1>1, <1>3, FromZero
<1>5. QED
  BY <1>4

\* The partial sums of some natural numbers.
LEMMA PartialSums ==
  ASSUME NEW m \in Nat, NEW c \in [1 .. m -> Nat]
  PROVE  \E f \in [0 .. m -> Nat] : f[0] = 0 /\ \A n \in 1 .. m : f[n] = f[n - 1] + c[n]
<1> DEFINE add == [p \in Nat \X (1 .. m) |-> p[1] + c[p[2]]]
<1>1. add \in StepsOver(Nat, m)
  BY DEF StepsOver
<1> HIDE DEF add
<1>2. PICK f : Recursion(f, Nat, m, 0, add)
  BY <1>1, StepByStep
<1>3. f \in [0 .. m -> Nat] /\ f[0] = 0
  BY <1>2 DEF Recursion
<1>4. ASSUME NEW n \in 1 .. m
      PROVE  f[n] = f[n - 1] + c[n]
  <2>1. f[n - 1] \in Nat
    BY <1>3
  <2>2. add[<<f[n - 1], n>>] = f[n - 1] + c[n]
    BY <2>1 DEF add
  <2>3. QED
    BY <1>2, <2>2 DEF Recursion
<1>5. QED
  BY <1>3, <1>4
=============================================================================
