-------------------------- MODULE PhaseRun_proofs --------------------------
(***************************************************************************)
(* Proofs about the batches of a phase and about PhaseRun, for phases of   *)
(* any number of steps under any limit: first what BuildPhaseBatches and   *)
(* the validator make of a phase, then the invariant of its run. MainInv   *)
(* says where the caller of the batches is, StageInv where the goroutines  *)
(* of each batch can be then, ErrorInv why the batch can have an error;    *)
(* SlotInv and LateInv count goroutines.                                   *)
(***************************************************************************)
EXTENDS PhaseRun, SequenceTheorems, FiniteSetTheorems, TLAPS

\* A set of naturals that is not empty has a least element: the initial segments
\* of its elements are finite sets, whose strict inclusion is well founded. Stated
\* without an operator parameter, this does the work of induction below.
LEMMA LeastExists ==
  ASSUME NEW S \in SUBSET Nat, S # {}
  PROVE  \E m \in S : \A n \in S : m <= n
<1> DEFINE Upto == {0..n : n \in S}
<1>1. Upto \subseteq FiniteSubsetsOf(Nat)
  <2>1. SUFFICES ASSUME NEW n \in S PROVE 0..n \in FiniteSubsetsOf(Nat)
    OBVIOUS
  <2>2. n \in Int /\ 0 \in Int
    OBVIOUS
  <2>3. IsFiniteSet(0..n)
    BY <2>2, FS_Interval
  <2> QED BY <2>3 DEF FiniteSubsetsOf
<1>2. PICK U \in Upto : \A V \in Upto : <<V, U>> \notin StrictSubsetOrdering(Nat)
  <2>1. Upto # {}
    OBVIOUS
  <2> HIDE DEF Upto
  <2> QED BY <1>1, <2>1, WFMin, FS_StrictSubsetOrderingWellFounded
<1>3. PICK m \in S : U = 0..m
  OBVIOUS
<1>4. \A n \in S : m <= n
  <2>1. SUFFICES ASSUME NEW n \in S, n < m PROVE FALSE
    OBVIOUS
  <2>2. 0..n \in Upto
    OBVIOUS
  <2>3. 0..n \subseteq 0..m /\ 0..n # 0..m
    BY <2>1
  <2>4. <<0..n, U>> \in StrictSubsetOrdering(Nat)
    BY <1>3, <2>3 DEF StrictSubsetOrdering
  <2> QED BY <1>2, <2>2, <2>4
<1> QED BY <1>4

-----------------------------------------------------------------------------
(* The steps of the batches: ph is a phase, bs its batches                 *)

\* The recursive function that models the loop is defined for every phase.
LEMMA BuiltDefined ==
  ASSUME NEW ph, Len(ph.steps) \in Nat
  PROVE  Built(ph) = [n \in 0..Len(ph.steps) |->
                           IF n = 0 THEN <<>> ELSE AddStep(ph, Built(ph)[n - 1], n)]
<1> DEFINE Loop(f, n) == [m \in 0..n |-> IF m = 0 THEN <<>> ELSE AddStep(ph, f[m - 1], m)]
           Bad == {n \in Nat : ~ \E f : f = Loop(f, n)}
<1>1. Bad = {}
  <2>1. SUFFICES ASSUME Bad # {} PROVE FALSE
    OBVIOUS
  <2>2. PICK n \in Bad : \A m \in Bad : n <= m
    BY <2>1, LeastExists
  <2>3. n # 0
    <3> DEFINE f == [m \in 0..0 |-> <<>>]
    <3>1. f = Loop(f, 0)
      OBVIOUS
    <3> QED BY <3>1
  <2>4. n - 1 \in Nat /\ n - 1 \notin Bad
    <3>1. n \in Nat /\ n - 1 \in Nat /\ n - 1 < n
      BY <2>3
    <3> HIDE DEF Bad
    <3> QED BY <2>2, <3>1
  <2>5. PICK f : f = Loop(f, n - 1)
    BY <2>4
  <2> DEFINE g == [m \in 0..n |-> IF m = n THEN AddStep(ph, f[n - 1], n) ELSE f[m]]
  <2>6. g = Loop(g, n)
    <3>1. ASSUME NEW m \in 0..n
          PROVE  g[m] = IF m = 0 THEN <<>> ELSE AddStep(ph, g[m - 1], m)
      <4>1. CASE m = n
        BY <2>3, <2>4, <4>1
      <4>2. CASE m # n
        <5>1. m \in 0..(n - 1) /\ (m # 0 => m - 1 \in 0..(n - 1))
          BY <2>4, <4>2
        <5>2. f[m] = IF m = 0 THEN <<>> ELSE AddStep(ph, f[m - 1], m)
          BY <2>5, <5>1
        <5>3. g[m] = f[m] /\ (m # 0 => g[m - 1] = f[m - 1])
          BY <5>1, <4>2
        <5> QED BY <5>2, <5>3
      <4> QED BY <4>1, <4>2
    <3> QED BY <3>1
  <2> QED BY <2>2, <2>6
<1>2. \E f : f = Loop(f, Len(ph.steps))
  BY <1>1
<1>3. Built(ph) = CHOOSE f : f = Loop(f, Len(ph.steps))
  BY DEF Built
<1> QED BY <1>2, <1>3

\* Growing the range of the indices does not change the batches.
LEMMA Wider ==
  ASSUME NEW n \in Nat, NEW bs \in Seq([group : STRING, steps : Seq(1..n)])
  PROVE  bs \in Seq([group : STRING, steps : Seq(1..(n + 1))])
<1>1. Seq(1..n) \subseteq Seq(1..(n + 1))
  <2>1. 1..n \subseteq 1..(n + 1)
    OBVIOUS
  <2> QED BY <2>1, SeqMonotonic
<1>2. [group : STRING, steps : Seq(1..n)] \subseteq [group : STRING, steps : Seq(1..(n + 1))]
  BY <1>1
<1> QED BY <1>2, SeqMonotonic

\* What InOrder says of the indices of a batch.
LEMMA BatchIndices ==
  ASSUME NEW n \in Nat, NEW bs, InOrder(bs, n)
  PROVE  /\ DOMAIN bs = 1..Len(bs) /\ Len(bs) \in Nat
         /\ \A b \in DOMAIN bs :
              /\ bs[b].steps \in Seq(1..n)
              /\ DOMAIN bs[b].steps = 1..Len(bs[b].steps)
              /\ Len(bs[b].steps) \in Nat
              /\ \A j \in DOMAIN bs[b].steps : bs[b].steps[j] \in 1..n
              /\ StepsOf(bs[b]) \subseteq 1..n
<1> DEFINE Batch == [group : STRING, steps : Seq(1..n)]
<1>1. bs \in Seq(Batch)
  BY DEF InOrder
<1>2. DOMAIN bs = 1..Len(bs) /\ Len(bs) \in Nat
  BY <1>1, LenProperties
<1>3. ASSUME NEW b \in DOMAIN bs
      PROVE  /\ bs[b].steps \in Seq(1..n)
             /\ DOMAIN bs[b].steps = 1..Len(bs[b].steps)
             /\ Len(bs[b].steps) \in Nat
             /\ \A j \in DOMAIN bs[b].steps : bs[b].steps[j] \in 1..n
             /\ StepsOf(bs[b]) \subseteq 1..n
  <2>1. bs[b] \in Batch
    <3> HIDE DEF Batch
    <3> QED BY <1>1, <1>2, ElementOfSeq
  <2>2. bs[b].steps \in Seq(1..n)
    BY <2>1
  <2>3. /\ DOMAIN bs[b].steps = 1..Len(bs[b].steps)
        /\ Len(bs[b].steps) \in Nat
        /\ bs[b].steps \in [1..Len(bs[b].steps) -> 1..n]
    BY <2>2, LenProperties
  <2>4. \A j \in DOMAIN bs[b].steps : bs[b].steps[j] \in 1..n
    BY <2>3
  <2> QED BY <2>2, <2>3, <2>4 DEF StepsOf
<1> QED BY <1>2, <1>3

\* The next step, in a batch of its own, keeps the batches in order.
LEMMA NewBatchInOrder ==
  ASSUME NEW n \in Nat, NEW bs, InOrder(bs, n), NEW group \in STRING
  PROVE  InOrder(Append(bs, [group |-> group, steps |-> <<n + 1>>]), n + 1)
<1> DEFINE new == [group |-> group, steps |-> <<n + 1>>]
           longer == Append(bs, new)
           Batch == [group : STRING, steps : Seq(1..(n + 1))]
<1>1. bs \in Seq(Batch) /\ new \in Batch
  <2>1. <<n + 1>> \in Seq(1..(n + 1))
    BY n + 1 \in 1..(n + 1)
  <2>2. bs \in Seq([group : STRING, steps : Seq(1..n)])
    BY DEF InOrder
  <2> QED BY <2>1, <2>2, Wider
<1>2. /\ longer \in Seq(Batch)
      /\ DOMAIN longer = 1..(Len(bs) + 1)
      /\ \A b \in 1..Len(bs) : longer[b] = bs[b]
      /\ longer[Len(bs) + 1] = new
      /\ DOMAIN bs = 1..Len(bs) /\ Len(bs) \in Nat
  BY <1>1, AppendProperties, LenProperties
<1>3. \A b \in DOMAIN longer : b \in DOMAIN bs \/ b = Len(bs) + 1
  BY <1>2
<1>4. new.steps # <<>> /\ DOMAIN new.steps = {1} /\ StepsOf(new) = {n + 1}
  BY DEF StepsOf
<1>5. \A b \in DOMAIN bs : \A i \in StepsOf(bs[b]) : i \in 1..n
  BY BatchIndices
<1> HIDE DEF longer, new
<1>6. \A b \in DOMAIN longer : longer[b].steps # <<>>
  BY <1>2, <1>3, <1>4 DEF InOrder
<1>7. \A b \in DOMAIN longer : \A i, j \in DOMAIN longer[b].steps :
        i < j => longer[b].steps[i] < longer[b].steps[j]
  <2>1. SUFFICES ASSUME NEW b \in DOMAIN longer, NEW i \in DOMAIN longer[b].steps,
                        NEW j \in DOMAIN longer[b].steps, i < j
                 PROVE  longer[b].steps[i] < longer[b].steps[j]
    OBVIOUS
  <2>2. CASE b \in DOMAIN bs
    BY <1>2, <2>1, <2>2 DEF InOrder
  <2>3. CASE b = Len(bs) + 1
    <3>1. i = 1 /\ j = 1
      BY <1>2, <1>4, <2>3
    <3> QED BY <2>1, <3>1
  <2> QED BY <1>3, <2>2, <2>3
<1>8. ASSUME NEW b \in DOMAIN longer, NEW c \in DOMAIN longer, b < c,
             NEW i \in StepsOf(longer[b]), NEW j \in StepsOf(longer[c])
      PROVE  i < j
  <2>1. b \in DOMAIN bs /\ longer[b] = bs[b]
    BY <1>2, <1>8
  <2>2. CASE c \in DOMAIN bs
    BY <1>2, <1>8, <2>1, <2>2 DEF InOrder
  <2>3. CASE c = Len(bs) + 1
    BY <1>2, <1>4, <1>5, <1>8, <2>1, <2>3
  <2> QED BY <1>3, <2>2, <2>3
<1>9. ASSUME NEW i \in 1..(n + 1)
      PROVE  \E b \in DOMAIN longer : i \in StepsOf(longer[b])
  <2>1. CASE i = n + 1
    <3>1. Len(bs) + 1 \in DOMAIN longer
      BY <1>2
    <3> QED BY <1>2, <1>4, <2>1, <3>1
  <2>2. CASE i \in 1..n
    <3>1. PICK b \in DOMAIN bs : i \in StepsOf(bs[b])
      BY <2>2 DEF InOrder
    <3>2. b \in DOMAIN longer /\ longer[b] = bs[b]
      BY <1>2
    <3> QED BY <3>1, <3>2
  <2> QED BY <2>1, <2>2
<1>10. InOrder(longer, n + 1)
  BY <1>2, <1>6, <1>7, <1>8, <1>9 DEF InOrder
<1> QED BY <1>10 DEF longer, new

\* The next step, added to the last batch, keeps the batches in order.
LEMMA LastBatchInOrder ==
  ASSUME NEW n \in Nat, NEW bs, InOrder(bs, n), bs # <<>>
  PROVE  InOrder([bs EXCEPT ![Len(bs)].steps = Append(@, n + 1)], n + 1)
<1> DEFINE last == Len(bs)
           steps == bs[last].steps
           more == Append(steps, n + 1)
           longer == [bs EXCEPT ![last].steps = Append(@, n + 1)]
           Batch == [group : STRING, steps : Seq(1..(n + 1))]
<1>1. bs \in Seq(Batch)
  BY Wider DEF InOrder
<1>2. last \in Nat \ {0} /\ DOMAIN bs = 1..last /\ last \in DOMAIN bs
  BY <1>1, EmptySeq, LenProperties
<1>3. \A b \in DOMAIN bs : bs[b] \in Batch
  <2> HIDE DEF Batch
  <2> QED BY <1>1, <1>2, ElementOfSeq
<1>4. /\ DOMAIN steps = 1..Len(steps) /\ Len(steps) \in Nat
      /\ \A j \in 1..Len(steps) : steps[j] \in 1..n
  BY <1>2, BatchIndices
<1>5. /\ more \in Seq(1..(n + 1)) /\ more # <<>>
      /\ DOMAIN more = 1..(Len(steps) + 1)
      /\ \A j \in 1..Len(steps) : more[j] = steps[j]
      /\ more[Len(steps) + 1] = n + 1
  <2>1. steps \in Seq(1..(n + 1)) /\ n + 1 \in 1..(n + 1)
    BY <1>2, <1>3
  <2> HIDE DEF steps
  <2> QED BY <2>1, AppendProperties, LenProperties
<1>6. /\ longer[last] = [bs[last] EXCEPT !.steps = more]
      /\ \A b \in DOMAIN bs : b # last => longer[b] = bs[b]
      /\ DOMAIN longer = DOMAIN bs
      /\ longer = [bs EXCEPT ![last] = [bs[last] EXCEPT !.steps = more]]
  BY <1>2
<1>7. longer[last].steps = more /\ longer[last] \in Batch
  <2>1. bs[last] \in Batch
    BY <1>2, <1>3
  <2>2. ASSUME NEW old \in Batch, NEW seq \in Seq(1..(n + 1))
        PROVE  [old EXCEPT !.steps = seq] \in Batch /\ [old EXCEPT !.steps = seq].steps = seq
    OBVIOUS
  <2>3. more \in Seq(1..(n + 1))
    BY <1>5
  <2>4. /\ [bs[last] EXCEPT !.steps = more] \in Batch
        /\ [bs[last] EXCEPT !.steps = more].steps = more
    <3> HIDE DEF more, last, Batch
    <3> QED BY <2>1, <2>2, <2>3
  <2> QED BY <1>6, <2>4
<1>8. longer \in Seq(Batch)
  <2> DEFINE changed == [bs[last] EXCEPT !.steps = more]
  <2>1. changed \in Batch /\ last \in 1..Len(bs)
    BY <1>2, <1>6, <1>7
  <2> HIDE DEF Batch, changed, longer, more
  <2>2. [bs EXCEPT ![last] = changed] \in Seq(Batch)
    BY <1>1, <2>1, ExceptSeq
  <2> QED BY <1>6, <2>2 DEF changed
<1>9. \A b \in DOMAIN bs : StepsOf(bs[b]) \subseteq 1..n
  BY BatchIndices
<1>10. StepsOf(longer[last]) = StepsOf(bs[last]) \cup {n + 1}
  <2>1. DOMAIN longer[last].steps = 1..(Len(steps) + 1)
    BY <1>5, <1>7
  <2>2. \A j \in 1..(Len(steps) + 1) : j \in 1..Len(steps) \/ j = Len(steps) + 1
    BY <1>4
  <2>3. \A j \in 1..Len(steps) : longer[last].steps[j] = bs[last].steps[j]
    BY <1>5, <1>7
  <2>4. longer[last].steps[Len(steps) + 1] = n + 1
    BY <1>5, <1>7
  <2>5. DOMAIN bs[last].steps = 1..Len(steps)
    BY <1>4
  <2>6. 1..Len(steps) \subseteq 1..(Len(steps) + 1) /\ Len(steps) + 1 \in 1..(Len(steps) + 1)
    BY <1>4
  <2> HIDE DEF longer, more, last, steps
  <2> QED BY <2>1, <2>2, <2>3, <2>4, <2>5, <2>6 DEF StepsOf
<1> HIDE DEF longer, more, last
<1>11. \A b \in DOMAIN longer : longer[b].steps # <<>>
  BY <1>5, <1>6, <1>7 DEF InOrder
<1>12. \A b \in DOMAIN longer : \A i, j \in DOMAIN longer[b].steps :
         i < j => longer[b].steps[i] < longer[b].steps[j]
  <2>1. SUFFICES ASSUME NEW b \in DOMAIN longer, NEW i \in DOMAIN longer[b].steps,
                        NEW j \in DOMAIN longer[b].steps, i < j
                 PROVE  longer[b].steps[i] < longer[b].steps[j]
    OBVIOUS
  <2>2. CASE b # last
    BY <1>6, <2>1, <2>2 DEF InOrder
  <2>3. CASE b = last
    <3>1. i \in DOMAIN more /\ j \in DOMAIN more
      BY <1>7, <2>3
    <3>2. i \in 1..Len(steps) /\ (j \in 1..Len(steps) \/ j = Len(steps) + 1)
      <4> HIDE DEF steps
      <4>1. i \in 1..(Len(steps) + 1) /\ j \in 1..(Len(steps) + 1) /\ i < j
        BY <1>5, <2>1, <3>1
      <4> QED BY <1>4, <4>1
    <3>3. i \in DOMAIN steps /\ more[i] = steps[i] /\ more[i] \in 1..n
      BY <1>4, <1>5, <3>2
    <3>4. CASE j \in 1..Len(steps)
      <4>1. j \in DOMAIN steps /\ more[j] = steps[j]
        BY <1>4, <1>5, <3>4
      <4>2. steps[i] < steps[j]
        BY <1>2, <2>1, <3>3, <4>1 DEF InOrder
      <4> QED BY <1>7, <2>3, <3>3, <4>1, <4>2
    <3>5. CASE j = Len(steps) + 1
      BY <1>5, <1>7, <2>3, <3>3, <3>5
    <3> QED BY <3>2, <3>4, <3>5
  <2> QED BY <2>2, <2>3
<1>13. ASSUME NEW b \in DOMAIN longer, NEW c \in DOMAIN longer, b < c,
              NEW i \in StepsOf(longer[b]), NEW j \in StepsOf(longer[c])
       PROVE  i < j
  <2>1. b # last /\ b \in DOMAIN bs /\ longer[b] = bs[b] /\ c \in DOMAIN bs
    BY <1>2, <1>6, <1>13
  <2>2. CASE j \in StepsOf(bs[c])
    BY <1>13, <2>1, <2>2 DEF InOrder
  <2>3. CASE j = n + 1
    BY <1>9, <1>13, <2>1, <2>3
  <2> QED BY <1>6, <1>10, <1>13, <2>1, <2>2, <2>3
<1>14. ASSUME NEW i \in 1..(n + 1)
       PROVE  \E b \in DOMAIN longer : i \in StepsOf(longer[b])
  <2>1. CASE i = n + 1
    BY <1>2, <1>6, <1>10, <2>1
  <2>2. CASE i \in 1..n
    <3>1. PICK b \in DOMAIN bs : i \in StepsOf(bs[b])
      BY <2>2 DEF InOrder
    <3>2. i \in StepsOf(longer[b])
      BY <1>6, <1>10, <3>1
    <3> QED BY <1>6, <3>2
  <2> QED BY <2>1, <2>2
<1>15. InOrder(longer, n + 1)
  BY <1>8, <1>11, <1>12, <1>13, <1>14 DEF InOrder
<1> QED BY <1>15 DEF longer, last

\* The fields of a phase that the loops look at.
LEMMA PhaseFields ==
  ASSUME NEW keys, NEW ph \in PhaseType(keys)
  PROVE  /\ Len(ph.steps) \in Nat
         /\ DOMAIN ph.steps = 1..Len(ph.steps)
         /\ \A i \in 1..Len(ph.steps) : ph.steps[i].group \in STRING
         /\ ph.maxParallelism \in Int
<1> DEFINE Step == [group : STRING, retry : Int, when : STRING, reads : SUBSET keys,
                    register : SUBSET keys, target : STRING]
<1>1. ph.steps \in Seq(Step) /\ ph.maxParallelism \in Int
  BY DEF PhaseType
<1>2. /\ Len(ph.steps) \in Nat
      /\ DOMAIN ph.steps = 1..Len(ph.steps)
      /\ \A i \in 1..Len(ph.steps) : ph.steps[i] \in Step
  <2> HIDE DEF Step
  <2> QED BY <1>1, LenProperties, ElementOfSeq
<1> QED BY <1>1, <1>2

\* Whatever number of steps has been read, their batches are in order.
LEMMA BuiltInOrder ==
  ASSUME NEW keys, NEW ph \in PhaseType(keys), NEW count \in 0..Len(ph.steps)
  PROVE  InOrder(Built(ph)[count], count)
<1> DEFINE len == Len(ph.steps)
           Bad == {n \in 0..len : ~ InOrder(Built(ph)[n], n)}
<1>1. len \in Nat /\ \A i \in 1..len : ph.steps[i].group \in STRING
  BY PhaseFields
<1>2. Bad = {}
  <2>1. SUFFICES ASSUME Bad # {} PROVE FALSE
    OBVIOUS
  <2>2. PICK n \in Bad : \A m \in Bad : n <= m
    <3>1. Bad \in SUBSET Nat
      BY <1>1
    <3> HIDE DEF Bad
    <3> QED BY <2>1, <3>1, LeastExists
  <2>3. \A m \in 0..len :
          Built(ph)[m] = IF m = 0 THEN <<>> ELSE AddStep(ph, Built(ph)[m - 1], m)
    BY <1>1, BuiltDefined
  <2>4. CASE n = 0
    <3>1. Built(ph)[0] = <<>>
      BY <1>1, <2>3
    <3>2. InOrder(<<>>, 0)
      BY EmptySeq DEF InOrder
    <3> QED BY <2>2, <2>4, <3>1, <3>2
  <2>5. CASE n # 0
    <3> DEFINE before == Built(ph)[n - 1]
    <3>1. n - 1 \in 0..len /\ n \in 1..len /\ n - 1 \notin Bad
      BY <1>1, <2>2, <2>5
    <3>2. InOrder(before, n - 1)
      BY <3>1
    <3>3. Built(ph)[n] = AddStep(ph, before, n)
      BY <2>3, <2>5
    <3>5. (n - 1) + 1 = n
      BY <3>1
    <3>4. InOrder(AddStep(ph, before, n), (n - 1) + 1)
      <4> HIDE DEF before
      <4>1. CASE JoinsLastBatch(before, ph.steps[n])
        <5>1. AddStep(ph, before, n)
                = [before EXCEPT ![Len(before)].steps = Append(@, (n - 1) + 1)]
          <6>1. AddStep(ph, before, n) = [before EXCEPT ![Len(before)].steps = Append(@, n)]
            BY <4>1 DEF AddStep
          <6> QED BY <3>5, <6>1
        <5>2. before # <<>>
          BY <4>1 DEF JoinsLastBatch
        <5>3. n - 1 \in Nat
          BY <1>1, <3>1
        <5>4. InOrder([before EXCEPT ![Len(before)].steps = Append(@, (n - 1) + 1)], (n - 1) + 1)
          BY <3>2, <5>2, <5>3, LastBatchInOrder
        <5> QED BY <5>1, <5>4
      <4>2. CASE ~JoinsLastBatch(before, ph.steps[n])
        <5>1. AddStep(ph, before, n)
                = Append(before, [group |-> ph.steps[n].group, steps |-> <<(n - 1) + 1>>])
          BY <3>5, <4>2 DEF AddStep
        <5>2. n - 1 \in Nat /\ ph.steps[n].group \in STRING
          BY <1>1, <3>1
        <5>3. InOrder(Append(before, [group |-> ph.steps[n].group, steps |-> <<(n - 1) + 1>>]),
                      (n - 1) + 1)
          BY <3>2, <5>2, NewBatchInOrder
        <5> QED BY <5>1, <5>3
      <4> QED BY <4>1, <4>2
    <3> QED BY <2>2, <3>3, <3>4, <3>5
  <2> QED BY <2>4, <2>5
<1> QED BY <1>1, <1>2

\* BuildPhaseBatches neither loses, repeats nor reorders a step: laid end to
\* end, the batches are the steps of the phase.
THEOREM BatchesInOrder ==
  ASSUME NEW keys, NEW ph \in PhaseType(keys)
  PROVE  InOrder(BuildPhaseBatches(ph), Len(ph.steps))
<1>1. Len(ph.steps) \in 0..Len(ph.steps)
  BY PhaseFields
<1> QED BY <1>1, BuiltInOrder DEF BuildPhaseBatches

-----------------------------------------------------------------------------
(* The groups of the bs                                               *)

\* A batch has one group, its steps', and more than one step only when that is
\* not blank; the batch after it has another one, or both have none.
Grouped(ph, bs) ==
  \A b \in DOMAIN bs :
    /\ \A j \in DOMAIN bs[b].steps :
         ph.steps[bs[b].steps[j]].group = bs[b].group
    /\ bs[b].group = NoGroup => Len(bs[b].steps) = 1
    /\ b + 1 \in DOMAIN bs /\ bs[b].group # NoGroup =>
         bs[b + 1].group # bs[b].group

\* Whether it extends the last batch or begins one, a step keeps them grouped.
LEMMA AddStepGroups ==
  ASSUME NEW ph, NEW n \in Nat, NEW bs, InOrder(bs, n),
         Grouped(ph, bs), ph.steps[n + 1].group \in STRING
  PROVE  Grouped(ph, AddStep(ph, bs, n + 1))
<1> DEFINE after == AddStep(ph, bs, n + 1)
           last == Len(bs)
           group == ph.steps[n + 1].group
<1>1. /\ DOMAIN bs = 1..last /\ last \in Nat
      /\ \A b \in DOMAIN bs : /\ bs[b].steps \in Seq(1..n)
                                   /\ DOMAIN bs[b].steps = 1..Len(bs[b].steps)
                                   /\ Len(bs[b].steps) \in Nat
                                   /\ bs[b].steps # <<>>
  BY BatchIndices DEF InOrder
<1>2. bs \in Seq([group : STRING, steps : Seq(1..n)])
  BY DEF InOrder
<1>3. \A b \in DOMAIN bs : bs[b] \in [group : STRING, steps : Seq(1..n)]
  BY <1>2, <1>1, ElementOfSeq
<1>4. CASE JoinsLastBatch(bs, ph.steps[n + 1])
  <2>1. /\ group # NoGroup /\ last \in DOMAIN bs /\ bs[last].group = group
    BY <1>1, <1>2, <1>4, EmptySeq DEF JoinsLastBatch
  <2>2. after = [bs EXCEPT ![last].steps = Append(@, n + 1)]
    BY <1>4 DEF AddStep
  <2>3. /\ DOMAIN after = DOMAIN bs
        /\ \A b \in DOMAIN bs : after[b].group = bs[b].group
        /\ \A b \in DOMAIN bs : b # last => after[b] = bs[b]
        /\ after[last].steps = Append(bs[last].steps, n + 1)
    BY <1>3, <2>1, <2>2
  <2>4. \A j \in DOMAIN after[last].steps :
           \/ j \in DOMAIN bs[last].steps /\ after[last].steps[j] = bs[last].steps[j]
           \/ after[last].steps[j] = n + 1
    <3>1. bs[last].steps \in Seq(Nat) /\ n + 1 \in Nat
      <4>1. Seq(1..n) \subseteq Seq(Nat)
        BY SeqMonotonic, 1..n \subseteq Nat
      <4> QED BY <1>1, <2>1, <4>1
    <3> DEFINE t == bs[last].steps
    <3>2. /\ DOMAIN Append(t, n + 1) = 1..(Len(t) + 1) /\ DOMAIN t = 1..Len(t) /\ Len(t) \in Nat
          /\ \A j \in 1..Len(t) : Append(t, n + 1)[j] = t[j]
          /\ Append(t, n + 1)[Len(t) + 1] = n + 1
      BY <3>1, AppendProperties, LenProperties
    <3> HIDE DEF t
    <3>3. after[last].steps = Append(t, n + 1)
      BY <2>3 DEF t
    <3>4. \A j \in 1..(Len(t) + 1) : j \in 1..Len(t) \/ j = Len(t) + 1
      BY <3>2
    <3> QED BY <3>2, <3>3, <3>4 DEF t
  <2> HIDE DEF after, last, group
  <2>5. ASSUME NEW b \in DOMAIN after
        PROVE  /\ \A j \in DOMAIN after[b].steps :
                    ph.steps[after[b].steps[j]].group = after[b].group
               /\ after[b].group = NoGroup => Len(after[b].steps) = 1
               /\ b + 1 \in DOMAIN after /\ after[b].group # NoGroup =>
                    after[b + 1].group # after[b].group
    <3>1. CASE b = last
      <4>1. \A j \in DOMAIN bs[last].steps : ph.steps[bs[last].steps[j]].group = group
        BY <2>1 DEF Grouped
      <4>2. \A j \in DOMAIN after[last].steps : ph.steps[after[last].steps[j]].group = group
        BY <2>4, <4>1 DEF group
      <4>3. after[last].group = group /\ last + 1 \notin DOMAIN after
        BY <1>1, <2>1, <2>3
      <4> QED BY <2>1, <3>1, <4>2, <4>3
    <3>2. CASE b # last
      BY <2>3, <2>5, <3>2 DEF Grouped
    <3> QED BY <3>1, <3>2
  <2> QED BY <2>5 DEF Grouped, after
<1>5. CASE ~JoinsLastBatch(bs, ph.steps[n + 1])
  <2> DEFINE new == [group |-> group, steps |-> <<n + 1>>]
  <2>1. after = Append(bs, new)
    BY <1>5 DEF AddStep
  <2>2. /\ DOMAIN after = 1..(last + 1)
        /\ \A b \in DOMAIN bs : after[b] = bs[b]
        /\ after[last + 1] = new
    BY <1>1, <1>2, <2>1, AppendProperties
  <2>3. /\ DOMAIN new.steps = {1} /\ new.steps[1] = n + 1 /\ Len(new.steps) = 1
        /\ new.group = group
    OBVIOUS
  <2>4. last \in DOMAIN bs => group = NoGroup \/ bs[last].group # group
    BY <1>1, <1>2, <1>5, EmptySeq DEF JoinsLastBatch
  <2> HIDE DEF after, last, new
  <2>5. ASSUME NEW b \in DOMAIN after
        PROVE  /\ \A j \in DOMAIN after[b].steps :
                    ph.steps[after[b].steps[j]].group = after[b].group
               /\ after[b].group = NoGroup => Len(after[b].steps) = 1
               /\ b + 1 \in DOMAIN after /\ after[b].group # NoGroup =>
                    after[b + 1].group # after[b].group
    <3>1. CASE b = last + 1
      BY <1>1, <2>2, <2>3, <3>1
    <3>2. CASE b \in 1..last
      <4>1. b + 1 \in 1..last \/ b = last
        BY <1>1, <3>2
      <4>2. b \in DOMAIN bs /\ after[b] = bs[b]
        BY <1>1, <2>2, <3>2
      <4>3. CASE b + 1 \in 1..last
        <5>1. b + 1 \in DOMAIN bs /\ after[b + 1] = bs[b + 1]
          BY <1>1, <2>2, <4>3
        <5> QED BY <4>2, <5>1 DEF Grouped
      <4>4. CASE b = last
        <5>1. after[b + 1].group = group /\ (bs[b].group = group => group = NoGroup)
          BY <2>2, <2>3, <2>4, <4>2, <4>4
        <5> QED BY <4>2, <5>1 DEF Grouped
      <4> QED BY <4>1, <4>3, <4>4
    <3> QED BY <1>1, <2>2, <2>5, <3>1, <3>2
  <2> QED BY <2>5 DEF Grouped, after
<1> QED BY <1>4, <1>5

\* The batches of a phase are grouped.
LEMMA BatchesGrouped ==
  ASSUME NEW keys, NEW ph \in PhaseType(keys)
  PROVE  Grouped(ph, BuildPhaseBatches(ph))
<1> DEFINE len == Len(ph.steps)
           Bad == {n \in 0..len : ~ Grouped(ph, Built(ph)[n])}
<1>1. len \in Nat /\ \A i \in 1..len : ph.steps[i].group \in STRING
  BY PhaseFields
<1>2. Bad = {}
  <2>1. SUFFICES ASSUME Bad # {} PROVE FALSE
    OBVIOUS
  <2>2. PICK n \in Bad : \A m \in Bad : n <= m
    <3>1. Bad \in SUBSET Nat
      BY <1>1
    <3> HIDE DEF Bad
    <3> QED BY <2>1, <3>1, LeastExists
  <2>3. \A m \in 0..len :
          Built(ph)[m] = IF m = 0 THEN <<>> ELSE AddStep(ph, Built(ph)[m - 1], m)
    BY <1>1, BuiltDefined
  <2>4. n # 0
    <3>1. 0 \in 0..len
      BY <1>1
    <3>2. Built(ph)[0] = <<>>
      BY <2>3, <3>1
    <3>3. Grouped(ph, <<>>)
      BY DEF Grouped
    <3> QED BY <2>2, <3>2, <3>3
  <2> DEFINE m == n - 1
  <2>5. m \in Nat /\ m \in 0..len /\ m \notin Bad /\ m + 1 = n /\ n \in 1..len
    BY <1>1, <2>2, <2>4
  <2>6. Grouped(ph, Built(ph)[m]) /\ InOrder(Built(ph)[m], m)
    BY <2>5, BuiltInOrder
  <2>7. Built(ph)[n] = AddStep(ph, Built(ph)[m], m + 1)
    BY <2>3, <2>4, <2>5
  <2> HIDE DEF m
  <2>8. Grouped(ph, AddStep(ph, Built(ph)[m], m + 1))
    BY <1>1, <2>5, <2>6, AddStepGroups
  <2> QED BY <2>2, <2>7, <2>8
<1> QED BY <1>1, <1>2 DEF BuildPhaseBatches

\* The steps between two steps of a batch are in it too, so a batch with more
\* than one step is a run of steps of its group.
LEMMA BatchesHaveNoGaps ==
  ASSUME NEW n \in Nat, NEW bs, InOrder(bs, n), NEW b \in DOMAIN bs,
         NEW i \in StepsOf(bs[b]), NEW j \in StepsOf(bs[b]), NEW k \in i..j
  PROVE  k \in StepsOf(bs[b])
<1>1. i \in 1..n /\ j \in 1..n /\ k \in 1..n
  BY BatchIndices
<1>2. PICK c \in DOMAIN bs : k \in StepsOf(bs[c])
  BY <1>1 DEF InOrder
<1>3. b \in Nat /\ c \in Nat
  BY BatchIndices
<1>4. CASE c < b
  BY <1>1, <1>2, <1>4 DEF InOrder
<1>5. CASE b < c
  BY <1>1, <1>2, <1>5 DEF InOrder
<1> QED BY <1>2, <1>3, <1>4, <1>5

\* Steps that belong together are in one batch.
LEMMA TogetherInOneBatch ==
  ASSUME NEW ph, NEW n \in Nat, NEW bs, DOMAIN ph.steps = 1..n,
         InOrder(bs, n), Grouped(ph, bs),
         NEW i \in 1..n, NEW j \in 1..n, i < j, BelongTogether(ph, i, j)
  PROVE  InOneBatch(bs, i, j)
<1>1. PICK b \in DOMAIN bs : i \in StepsOf(bs[b])
  BY DEF InOrder
<1>2. PICK c \in DOMAIN bs : j \in StepsOf(bs[c])
  BY DEF InOrder
<1>3. /\ DOMAIN bs = 1..Len(bs) /\ Len(bs) \in Nat /\ b \in Nat /\ c \in Nat
      /\ \A d \in DOMAIN bs : /\ StepsOf(bs[d]) \subseteq 1..n
                                   /\ DOMAIN bs[d].steps = 1..Len(bs[d].steps)
                                   /\ Len(bs[d].steps) \in Nat
  BY BatchIndices
<1>4. \A d \in DOMAIN bs, k \in 1..n :
        k \in StepsOf(bs[d]) => ph.steps[k].group = bs[d].group
  BY DEF Grouped, StepsOf
<1>5. \A k \in i..j : ph.steps[k].group = ph.steps[i].group
                        /\ ph.steps[i].group # NoGroup
  <2>1. SUFFICES ASSUME NEW k \in i..j
                 PROVE  /\ ph.steps[i].group = ph.steps[k].group
                        /\ ph.steps[i].group # NoGroup
    OBVIOUS
  <2>2. {i, k} \subseteq i..j /\ k \in 1..n
    OBVIOUS
  <2> QED BY <2>2 DEF BelongTogether
<1>6. ~(c < b)
  BY <1>1, <1>2 DEF InOrder
<1>7. ASSUME b < c PROVE FALSE
  <2>1. b + 1 \in DOMAIN bs /\ b + 1 <= c
    BY <1>3, <1>7
  <2>2. PICK k \in i..j : k \in StepsOf(bs[b + 1])
    <3>1. CASE b + 1 = c
      BY <1>2, <3>1
    <3>2. CASE b + 1 < c
      <4>1. PICK k \in StepsOf(bs[b + 1]) : k \in 1..n
        <5>1. bs[b + 1].steps # <<>> /\ bs[b + 1].steps \in Seq(1..n)
          BY <2>1, BatchIndices DEF InOrder
        <5>2. 1 \in DOMAIN bs[b + 1].steps
          BY <1>3, <2>1, <5>1, EmptySeq
        <5>3. bs[b + 1].steps[1] \in StepsOf(bs[b + 1])
          BY <5>2 DEF StepsOf
        <5> QED BY <1>3, <2>1, <5>3
      <4>2. \A d, e \in DOMAIN bs :
              d < e => \A l \in StepsOf(bs[d]), m \in StepsOf(bs[e]) : l < m
        BY DEF InOrder
      <4>3. b < b + 1
        BY <1>3
      <4>4. i < k
        BY <1>1, <2>1, <4>1, <4>2, <4>3
      <4>5. k < j
        BY <1>2, <2>1, <3>2, <4>1, <4>2
      <4> QED BY <4>1, <4>4, <4>5
    <3> QED BY <1>3, <2>1, <3>1, <3>2
  <2>3. bs[b + 1].group = bs[b].group /\ bs[b].group # NoGroup
    BY <1>1, <1>4, <1>5, <2>1, <2>2
  <2> QED BY <1>1, <2>1, <2>3 DEF Grouped
<1>8. b = c
  BY <1>3, <1>6, <1>7
<1> QED BY <1>1, <1>2, <1>8 DEF InOneBatch

LEMMA OneBatchIsTogether ==
  ASSUME NEW ph, NEW n \in Nat, NEW bs, DOMAIN ph.steps = 1..n,
         InOrder(bs, n), Grouped(ph, bs),
         NEW i \in 1..n, NEW j \in 1..n, i < j, InOneBatch(bs, i, j)
  PROVE  BelongTogether(ph, i, j)
<1>1. PICK b \in DOMAIN bs : i \in StepsOf(bs[b]) /\ j \in StepsOf(bs[b])
  BY DEF InOneBatch
<1>2. \A k \in i..j : ph.steps[k].group = bs[b].group
  <2>1. SUFFICES ASSUME NEW k \in i..j PROVE ph.steps[k].group = bs[b].group
    OBVIOUS
  <2>2. k \in StepsOf(bs[b])
    BY <1>1, BatchesHaveNoGaps
  <2> QED BY <2>2 DEF Grouped, StepsOf
<1>3. bs[b].group # NoGroup
  <2>1. SUFFICES ASSUME bs[b].group = NoGroup PROVE i = j
    OBVIOUS
  <2>2. DOMAIN bs[b].steps = 1..1
    BY <2>1, BatchIndices DEF Grouped
  <2> QED BY <1>1, <2>2 DEF StepsOf
<1>4. \A k, m \in DOMAIN ph.steps :
        {k, m} \subseteq i..j \/ {k, m} \subseteq j..i
          => ph.steps[k].group = ph.steps[m].group /\ ph.steps[k].group # NoGroup
  <2>1. j..i = {}
    OBVIOUS
  <2> QED BY <1>2, <1>3, <2>1
<1> QED BY <1>4 DEF BelongTogether

\* For every phase: BuildPhaseBatches splits the steps into the maximal runs of
\* consecutive steps of one group, in order and with nothing lost or repeated.
THEOREM BatchesAreMaximal ==
  ASSUME NEW keys, NEW ph \in PhaseType(keys)
  PROVE  MaximalRuns(ph)
<1> DEFINE n == Len(ph.steps)
           bs == BuildPhaseBatches(ph)
<1>1. n \in Nat /\ DOMAIN ph.steps = 1..n
  BY PhaseFields
<1>2. InOrder(bs, n) /\ Grouped(ph, bs)
  BY BatchesInOrder, BatchesGrouped
<1> HIDE DEF n, bs
<1>3. \A i, j \in 1..n : i < j => (InOneBatch(bs, i, j) <=> BelongTogether(ph, i, j))
  BY <1>1, <1>2, TogetherInOneBatch, OneBatchIsTogether
<1>4. \A i, j \in 1..n : /\ InOneBatch(bs, i, j) <=> InOneBatch(bs, j, i)
                         /\ BelongTogether(ph, i, j) <=> BelongTogether(ph, j, i)
  BY DEF InOneBatch, BelongTogether
<1>5. \A i \in 1..n : InOneBatch(bs, i, i) /\ BelongTogether(ph, i, i)
  BY <1>2 DEF InOrder, InOneBatch, BelongTogether
<1>6. \A i, j \in 1..n : i < j \/ j < i \/ i = j
  BY <1>1
<1>7. \A i, j \in 1..n : InOneBatch(bs, i, j) <=> BelongTogether(ph, i, j)
  BY <1>3, <1>4, <1>5, <1>6
<1> QED BY <1>1, <1>2, <1>7 DEF MaximalRuns, n, bs

\* For every phase and limit: the limit the events of a batch report is the one
\* its executor enforces.
THEOREM LimitsDoAgree ==
  ASSUME NEW keys, NEW ph \in PhaseType(keys)
  PROVE  LimitsAgree(ph)
<1> DEFINE bs == BuildPhaseBatches(ph)
<1>1. SUFFICES ASSUME NEW b \in DOMAIN bs
               PROVE  EventLimit(ph, bs[b]) = ExecuteLimit(ph, bs[b])
  BY DEF LimitsAgree
<1>2. InOrder(bs, Len(ph.steps)) /\ Grouped(ph, bs)
  BY BatchesInOrder, BatchesGrouped
<1>3. Len(ph.steps) \in Nat /\ ph.maxParallelism \in Int
  BY PhaseFields
<1> HIDE DEF bs
<1>4. bs[b].steps \in Seq(1..Len(ph.steps)) /\ bs[b].steps # <<>>
  BY <1>2, <1>3, BatchIndices DEF InOrder
<1>5. Len(bs[b].steps) \in Nat /\ Len(bs[b].steps) # 0
  BY <1>4, LenProperties, EmptySeq
<1>6. bs[b].group = NoGroup => Len(bs[b].steps) = 1
  BY <1>2 DEF Grouped
<1>7. CASE Parallel(bs[b])
  BY <1>7 DEF EventLimit, ExecuteLimit
<1>8. CASE ~Parallel(bs[b])
  <2>1. Len(bs[b].steps) = 1
    <3>1. bs[b].group = NoGroup \/ ~(Len(bs[b].steps) > 1)
      BY <1>8 DEF Parallel
    <3> DEFINE size == Len(bs[b].steps)
    <3>2. size \in Nat /\ size # 0 /\ (size = 1 \/ ~(size > 1))
      BY <1>5, <1>6, <3>1
    <3> HIDE DEF size
    <3>3. size = 1
      BY <3>2
    <3> QED BY <3>3 DEF size
  <2>2. EventLimit(ph, bs[b]) = 1
    BY <1>3, <2>1 DEF EventLimit, ClampLimit
  <2>3. ExecuteLimit(ph, bs[b]) = 1
    BY <1>8, <2>1 DEF ExecuteLimit, ClampLimit
  <2> QED BY <2>2, <2>3
<1> QED BY <1>7, <1>8

-----------------------------------------------------------------------------
(* The validator's scan for groups that come back                          *)

NothingRead == [closed |-> {}, current |-> NoGroup, ok |-> TRUE]

\* What the scan makes of step n.
Read(ph, last, n) ==
  LET group  == ph.steps[n].group
      closed == CloseGroup(last, group)
  IN  [closed  |-> closed,
       current |-> group,
       ok      |-> last.ok /\ ~(group \in closed /\ last.current # group)]

\* Among the first n steps one of the group is followed by one of another.
Left(ph, group, n) ==
  /\ group # NoGroup
  /\ \E i \in 1..n : /\ i + 1 <= n
                     /\ ph.steps[i].group = group
                     /\ ph.steps[i + 1].group # group

\* Step n comes back to a group that was left.
ComesBack(ph, n) ==
  /\ n > 1
  /\ Left(ph, ph.steps[n].group, n)
  /\ ph.steps[n - 1].group # ph.steps[n].group

\* What the scan knows after n steps.
Knows(ph, scan, n) ==
  /\ scan.current = IF n = 0 THEN NoGroup ELSE ph.steps[n].group
  /\ \A group \in STRING : group \in scan.closed <=> Left(ph, group, n)
  /\ scan.ok \in BOOLEAN
  /\ scan.ok <=> \A k \in 1..n : ~ComesBack(ph, k)

\* The recursive function that models this loop is defined for every phase.
LEMMA ScannedDefined ==
  ASSUME NEW ph, Len(ph.steps) \in Nat
  PROVE  Scanned(ph) = [n \in 0..Len(ph.steps) |->
                             IF n = 0 THEN NothingRead ELSE Read(ph, Scanned(ph)[n - 1], n)]
<1> DEFINE Loop(f, n) == [m \in 0..n |-> IF m = 0 THEN NothingRead ELSE Read(ph, f[m - 1], m)]
           Bad == {n \in Nat : ~ \E f : f = Loop(f, n)}
<1>1. Bad = {}
  <2>1. SUFFICES ASSUME Bad # {} PROVE FALSE
    OBVIOUS
  <2>2. PICK n \in Bad : \A m \in Bad : n <= m
    BY <2>1, LeastExists
  <2>3. n # 0
    <3> DEFINE f == [m \in 0..0 |-> NothingRead]
    <3>1. f = Loop(f, 0)
      OBVIOUS
    <3> QED BY <3>1
  <2>4. n - 1 \in Nat /\ n - 1 \notin Bad
    <3>1. n \in Nat /\ n - 1 \in Nat /\ n - 1 < n
      BY <2>3
    <3> HIDE DEF Bad
    <3> QED BY <2>2, <3>1
  <2>5. PICK f : f = Loop(f, n - 1)
    BY <2>4
  <2> DEFINE g == [m \in 0..n |-> IF m = n THEN Read(ph, f[n - 1], n) ELSE f[m]]
  <2>6. g = Loop(g, n)
    <3>1. ASSUME NEW m \in 0..n
          PROVE  g[m] = IF m = 0 THEN NothingRead ELSE Read(ph, g[m - 1], m)
      <4>1. CASE m = n
        BY <2>3, <2>4, <4>1
      <4>2. CASE m # n
        <5>1. m \in 0..(n - 1) /\ (m # 0 => m - 1 \in 0..(n - 1))
          BY <2>4, <4>2
        <5>2. f[m] = IF m = 0 THEN NothingRead ELSE Read(ph, f[m - 1], m)
          BY <2>5, <5>1
        <5>3. g[m] = f[m] /\ (m # 0 => g[m - 1] = f[m - 1])
          BY <5>1, <4>2
        <5> QED BY <5>2, <5>3
      <4> QED BY <4>1, <4>2
    <3> QED BY <3>1
  <2> QED BY <2>2, <2>6
<1>2. \E f : f = Loop(f, Len(ph.steps))
  BY <1>1
<1>3. Scanned(ph) = CHOOSE f : f = Loop(f, Len(ph.steps))
  BY DEF Scanned, Read, NothingRead
<1> QED BY <1>2, <1>3

LEMMA ReadStep ==
  ASSUME NEW ph, NEW n \in Nat, NEW scan, Knows(ph, scan, n),
         \A i \in 1..(n + 1) : ph.steps[i].group \in STRING
  PROVE  Knows(ph, Read(ph, scan, n + 1), n + 1)
<1> DEFINE group == ph.steps[n + 1].group
           after == Read(ph, scan, n + 1)
<1>1. /\ after.closed = CloseGroup(scan, group) /\ after.current = group
      /\ after.ok = (scan.ok /\ ~(group \in after.closed /\ scan.current # group))
  BY DEF Read
<1>2. \A g \in STRING : g \in after.closed <=> Left(ph, g, n + 1)
  <2>1. SUFFICES ASSUME NEW g \in STRING
                 PROVE  g \in after.closed <=> Left(ph, g, n + 1)
    OBVIOUS
  <2>2. g \in after.closed <=>
          g \in scan.closed \/ (scan.current # NoGroup /\ scan.current # group /\ g = scan.current)
    BY <1>1 DEF CloseGroup
  <2>3. Left(ph, g, n + 1) <=>
          \/ Left(ph, g, n)
          \/ g # NoGroup /\ n > 0 /\ ph.steps[n].group = g /\ group # g
    BY DEF Left
  <2> QED BY <2>2, <2>3 DEF Knows
<1>3. (group \in after.closed /\ scan.current # group) <=> ComesBack(ph, n + 1)
  <2>1. group \in after.closed <=> Left(ph, group, n + 1)
    <3>1. group \in STRING
      OBVIOUS
    <3> HIDE DEF group, after
    <3> QED BY <1>2, <3>1
  <2>2. n = 0 => ~Left(ph, group, n + 1)
    BY DEF Left
  <2>3. n > 0 => scan.current = ph.steps[n].group
    BY DEF Knows
  <2>4. ComesBack(ph, n + 1) <=> n > 0 /\ Left(ph, group, n + 1) /\ ph.steps[n].group # group
    BY DEF ComesBack
  <2> QED BY <2>1, <2>2, <2>3, <2>4
<1>4. after.ok \in BOOLEAN /\ (after.ok <=> scan.ok /\ ~ComesBack(ph, n + 1))
  BY <1>1, <1>3 DEF Knows
<1>5. (\A k \in 1..(n + 1) : ~ComesBack(ph, k)) <=>
        (\A k \in 1..n : ~ComesBack(ph, k)) /\ ~ComesBack(ph, n + 1)
  OBVIOUS
<1> HIDE DEF after
<1>6. after.ok <=> \A k \in 1..(n + 1) : ~ComesBack(ph, k)
  BY <1>4, <1>5 DEF Knows
<1>7. after.current = IF n + 1 = 0 THEN NoGroup ELSE ph.steps[n + 1].group
  BY <1>1
<1> QED BY <1>2, <1>4, <1>6, <1>7 DEF Knows, after

\* The validator's scan accepts a phase exactly when no step comes back to a
\* group that was left.
LEMMA ScanFindsReturns ==
  ASSUME NEW keys, NEW ph \in PhaseType(keys)
  PROVE  GroupsAreContiguous(ph) <=> \A k \in 1..Len(ph.steps) : ~ComesBack(ph, k)
<1> DEFINE len == Len(ph.steps)
           Bad == {n \in 0..len : ~ Knows(ph, Scanned(ph)[n], n)}
<1>1. len \in Nat /\ \A i \in 1..len : ph.steps[i].group \in STRING
  BY PhaseFields
<1>2. Bad = {}
  <2>1. SUFFICES ASSUME Bad # {} PROVE FALSE
    OBVIOUS
  <2>2. PICK n \in Bad : \A m \in Bad : n <= m
    <3>1. Bad \in SUBSET Nat
      BY <1>1
    <3> HIDE DEF Bad
    <3> QED BY <2>1, <3>1, LeastExists
  <2>3. \A m \in 0..len :
          Scanned(ph)[m] = IF m = 0 THEN NothingRead ELSE Read(ph, Scanned(ph)[m - 1], m)
    BY <1>1, ScannedDefined
  <2>4. n # 0
    <3>1. Scanned(ph)[0] = NothingRead
      BY <1>1, <2>3
    <3>2. Knows(ph, NothingRead, 0)
      BY DEF Knows, NothingRead, Left
    <3> QED BY <2>2, <3>1, <3>2
  <2> DEFINE m == n - 1
  <2>5. m \in Nat /\ m \in 0..len /\ m \notin Bad /\ m + 1 = n /\ n \in 1..len
    BY <1>1, <2>2, <2>4
  <2>6. Knows(ph, Scanned(ph)[m], m)
    BY <2>5
  <2>7. Scanned(ph)[n] = Read(ph, Scanned(ph)[m], m + 1)
    BY <2>3, <2>4, <2>5
  <2>8. \A i \in 1..(m + 1) : ph.steps[i].group \in STRING
    BY <1>1, <2>5
  <2> HIDE DEF m
  <2>9. Knows(ph, Read(ph, Scanned(ph)[m], m + 1), m + 1)
    BY <2>5, <2>6, <2>8, ReadStep
  <2> QED BY <2>2, <2>5, <2>7, <2>9
<1>3. Knows(ph, Scanned(ph)[len], len)
  BY <1>1, <1>2
<1> QED BY <1>3 DEF Knows, GroupsAreContiguous

\* No step comes back to a group that was left exactly when the steps of a group
\* are one run.
LEMMA ReturnsSplitGroups ==
  ASSUME NEW ph, NEW n \in Nat, DOMAIN ph.steps = 1..n
  PROVE  (\A k \in 1..n : ~ComesBack(ph, k)) <=>
           \A i, j \in 1..n :
             i < j /\ ph.steps[i].group = ph.steps[j].group /\ ph.steps[i].group # NoGroup
               => BelongTogether(ph, i, j)
<1> DEFINE G(i) == ph.steps[i].group
<1>1. ASSUME NEW i \in 1..n, NEW j \in 1..n, i < j, G(i) = G(j), G(i) # NoGroup,
             ~BelongTogether(ph, i, j)
      PROVE  \E k \in 1..n : ComesBack(ph, k)
  <2> HIDE DEF G
  <2>1. PICK m \in i..j : G(m) # G(i)
    <3>1. SUFFICES ASSUME \A k \in i..j : G(k) = G(i) PROVE BelongTogether(ph, i, j)
      BY <1>1
    <3>2. j..i = {}
      BY <1>1
    <3> QED BY <1>1, <3>1, <3>2 DEF BelongTogether, G
  <2>2. PICK p \in i..j : G(p) # G(i) /\ \A q \in i..j : G(q) # G(i) => p <= q
    <3> DEFINE Others == {q \in i..j : G(q) # G(i)}
    <3>1. Others \in SUBSET Nat /\ Others # {}
      BY <2>1
    <3> HIDE DEF Others
    <3>2. \E q \in Others : \A r \in Others : q <= r
      BY <3>1, LeastExists
    <3> QED BY <3>2 DEF Others
  <2>3. p - 1 \in i..j /\ G(p - 1) = G(i) /\ p - 1 \in Nat
    <3>1. p # i
      BY <2>2
    <3>2. p - 1 \in i..j /\ ~(p <= p - 1)
      BY <3>1
    <3> QED BY <2>2, <3>2
  <2>4. PICK q \in p..j : G(q) = G(i) /\ \A r \in p..j : G(r) = G(i) => q <= r
    <3> DEFINE Same == {r \in p..j : G(r) = G(i)}
    <3>1. Same \in SUBSET Nat /\ Same # {}
      <4>1. j \in p..j /\ p..j \subseteq Nat
        OBVIOUS
      <4> QED BY <1>1, <4>1
    <3> HIDE DEF Same
    <3>2. \E r \in Same : \A t \in Same : r <= t
      BY <3>1, LeastExists
    <3> QED BY <3>2 DEF Same
  <2>5. q \in 1..n /\ q > 1 /\ G(q - 1) # G(q)
    <3>1. q # p
      BY <2>2, <2>4
    <3>2. q - 1 \in p..j /\ ~(q <= q - 1)
      BY <3>1
    <3> QED BY <2>4, <3>2
  <2>6. Left(ph, G(q), q)
    <3>1. p - 1 \in 1..q /\ (p - 1) + 1 = p /\ p <= q
      BY <2>3
    <3>2. G(p - 1) = G(q) /\ G(p) # G(q) /\ G(q) # NoGroup
      BY <1>1, <2>2, <2>3, <2>4
    <3> QED BY <3>1, <3>2 DEF Left, G
  <2> QED BY <2>5, <2>6 DEF ComesBack, G
<1>2. ASSUME NEW k \in 1..n, ComesBack(ph, k)
      PROVE  \E i, j \in 1..n : i < j /\ G(i) = G(j) /\ G(i) # NoGroup /\ ~BelongTogether(ph, i, j)
  <2> HIDE DEF G
  <2>1. PICK i \in 1..k : i + 1 <= k /\ G(i) = G(k) /\ G(i + 1) # G(k) /\ G(k) # NoGroup
    BY <1>2 DEF ComesBack, Left, G
  <2>2. i \in 1..n /\ i < k /\ i + 1 \in 1..n /\ {i, i + 1} \subseteq i..k
    BY <2>1
  <2>3. ~BelongTogether(ph, i, k)
    BY <2>1, <2>2 DEF BelongTogether, G
  <2> QED BY <2>1, <2>2, <2>3
<1> QED BY <1>1, <1>2

\* For every phase: the validator's scan accepts the grouping exactly when a
\* group names one batch, so that "phase:group" identifies it.
THEOREM ContiguityIsOneBatchPerGroup ==
  ASSUME NEW keys, NEW ph \in PhaseType(keys)
  PROVE  GroupNamesOneBatch(ph)
<1> DEFINE n == Len(ph.steps)
           bs == BuildPhaseBatches(ph)
           OneRun == \A i, j \in 1..n :
             i < j /\ ph.steps[i].group = ph.steps[j].group /\ ph.steps[i].group # NoGroup
               => BelongTogether(ph, i, j)
           OneBatch == \A b, c \in DOMAIN bs :
             bs[b].group = bs[c].group /\ bs[b].group # NoGroup => b = c
<1>1. n \in Nat /\ DOMAIN ph.steps = 1..n
  BY PhaseFields
<1>2. InOrder(bs, n) /\ Grouped(ph, bs)
  BY BatchesInOrder, BatchesGrouped
<1>3. GroupsAreContiguous(ph) <=> OneRun
  BY <1>1, ScanFindsReturns, ReturnsSplitGroups
<1> HIDE DEF n, bs
<1>4. /\ \A b \in DOMAIN bs : StepsOf(bs[b]) \subseteq 1..n /\ StepsOf(bs[b]) # {}
      /\ DOMAIN bs \subseteq Nat
      /\ \A b, c \in DOMAIN bs :
           b < c => \A i \in StepsOf(bs[b]), j \in StepsOf(bs[c]) : i < j
      /\ \A i \in 1..n : \E b \in DOMAIN bs : i \in StepsOf(bs[b])
  <2>1. \A b \in DOMAIN bs : bs[b].steps[1] \in StepsOf(bs[b])
    <3>1. SUFFICES ASSUME NEW b \in DOMAIN bs PROVE 1 \in DOMAIN bs[b].steps
      BY DEF StepsOf
    <3>2. bs[b].steps \in Seq(1..n) /\ bs[b].steps # <<>>
      BY <1>1, <1>2, BatchIndices DEF InOrder
    <3> QED BY <3>2, EmptySeq, LenProperties
  <2>2. /\ \A b \in DOMAIN bs : StepsOf(bs[b]) \subseteq 1..n
        /\ DOMAIN bs \subseteq Nat
    BY <1>1, <1>2, BatchIndices
  <2>3. /\ \A b, c \in DOMAIN bs :
             b < c => \A i \in StepsOf(bs[b]), j \in StepsOf(bs[c]) : i < j
        /\ \A i \in 1..n : \E b \in DOMAIN bs : i \in StepsOf(bs[b])
    BY <1>2 DEF InOrder
  <2> QED BY <2>1, <2>2, <2>3
<1>5. \A b \in DOMAIN bs : \A i \in StepsOf(bs[b]) :
        ph.steps[i].group = bs[b].group
  BY <1>2 DEF Grouped, StepsOf
<1>6. ASSUME OneRun PROVE OneBatch
  <2>1. SUFFICES ASSUME NEW b \in DOMAIN bs, NEW c \in DOMAIN bs, b < c,
                        bs[b].group = bs[c].group, bs[b].group # NoGroup
                 PROVE  FALSE
    BY <1>4
  <2>2. PICK i \in StepsOf(bs[b]), j \in StepsOf(bs[c]) : i < j
    BY <1>4, <2>1
  <2>3. i \in 1..n /\ j \in 1..n
    BY <1>4
  <2>4. BelongTogether(ph, i, j)
    BY <1>5, <1>6, <2>1, <2>2, <2>3
  <2>5. InOneBatch(bs, i, j)
    BY <1>1, <1>2, <2>2, <2>3, <2>4, TogetherInOneBatch
  <2>6. PICK d \in DOMAIN bs : i \in StepsOf(bs[d]) /\ j \in StepsOf(bs[d])
    BY <2>5 DEF InOneBatch
  <2>7. b = d /\ c = d
    BY <1>4, <2>3, <2>6
  <2> QED BY <1>4, <2>1, <2>7
<1>7. ASSUME OneBatch PROVE OneRun
  <2>1. SUFFICES ASSUME NEW i \in 1..n, NEW j \in 1..n, i < j,
                        ph.steps[i].group = ph.steps[j].group,
                        ph.steps[i].group # NoGroup
                 PROVE  BelongTogether(ph, i, j)
    OBVIOUS
  <2>2. PICK b \in DOMAIN bs : i \in StepsOf(bs[b])
    BY <1>4
  <2>3. PICK c \in DOMAIN bs : j \in StepsOf(bs[c])
    BY <1>4
  <2>4. b = c
    BY <1>5, <1>7, <2>1, <2>2, <2>3
  <2>5. InOneBatch(bs, i, j)
    BY <2>2, <2>3, <2>4 DEF InOneBatch
  <2> QED BY <1>1, <1>2, <2>1, <2>5, OneBatchIsTogether
<1> QED BY <1>3, <1>6, <1>7 DEF GroupNamesOneBatch, bs

-----------------------------------------------------------------------------
(* The run of a phase                                                      *)

Running == main = "running"

\* The steps of the current batch that have been launched.
Launched == {TheBatch.steps[j] : j \in 1..launched}

Starting == {i \in Steps : stage[i] = "starting"}

MainInv ==
  /\ batches = BuildPhaseBatches(phase)
  /\ batch \in 1..(Len(batches) + 1)
  /\ Running => batch <= Len(batches) /\ launched <= Len(TheBatch.steps)

StageInv ==
  /\ ~Running => Active = {}
  /\ \A b \in DOMAIN batches :
       /\ b < batch => \A i \in StepsOf(batches[b]) : stage[i] \in {"ok", "skipped"}
       /\ b > batch => \A i \in StepsOf(batches[b]) : stage[i] = "waiting"
  /\ main = "next" /\ batch <= Len(batches) =>
       \A i \in StepsOf(TheBatch) : stage[i] = "waiting"
  /\ Running =>
       \A i \in StepsOf(TheBatch) : stage[i] = "waiting" <=> i \notin Launched

ErrorInv ==
  /\ \A i \in Steps : stage[i] \in {"failed", "returning"} => cause[i] \in Causes
  /\ \A i \in Steps : stage[i] \in {"failed", "returning"} /\ cause[i] = "cancelled" => Cancelled
  /\ groupErr.cause # "cancelled"
  /\ Running => \A i \in StepsOf(TheBatch) : stage[i] = "error" => groupErr # NoError
  /\ Running /\ groupErr # NoError =>
       groupErr.step \in StepsOf(TheBatch) /\ stage[groupErr.step] = "error"

SlotInv == Running => Cardinality(Active) <= Limit

LateInv ==
  Running =>
    IF Cancelled
    THEN lateStarts + Cardinality(Starting) < Limit
    ELSE lateStarts = 0

IInv == TypeOK /\ MainInv /\ StageInv /\ ErrorInv /\ SlotInv /\ LateInv /\ NamedStepFailed

-----------------------------------------------------------------------------
(* The batches of the phase and their limits                               *)

\* What the other proofs use of the constants: a phase of the run is well
\* typed, and its batches are in order.
LEMMA BatchFacts ==
  ASSUME TypeOK, MainInv
  PROVE  /\ phase \in PhaseType(Keys)
         /\ Len(phase.steps) \in Nat
         /\ InOrder(batches, Len(phase.steps))
         /\ DOMAIN batches = 1..Len(batches) /\ Len(batches) \in Nat
         /\ \A b \in DOMAIN batches :
              /\ StepsOf(batches[b]) \subseteq Steps
              /\ DOMAIN batches[b].steps = 1..Len(batches[b].steps)
              /\ Len(batches[b].steps) \in Nat \ {0}
              /\ batches[b].group \in STRING
<1>1. phase \in PhaseType(Keys)
  BY PhasesAccepted DEF TypeOK
<1>2. Len(phase.steps) \in Nat
  <2>1. phase.steps \in Seq([group : STRING, retry : Int, when : STRING, reads : SUBSET Keys,
                             register : SUBSET Keys, target : STRING])
    BY <1>1 DEF PhaseType
  <2> QED BY <2>1, LenProperties
<1>3. InOrder(batches, Len(phase.steps))
  BY <1>1, BatchesInOrder DEF MainInv
<1>4. /\ DOMAIN batches = 1..Len(batches) /\ Len(batches) \in Nat
      /\ \A b \in DOMAIN batches :
           /\ StepsOf(batches[b]) \subseteq Steps
           /\ DOMAIN batches[b].steps = 1..Len(batches[b].steps)
           /\ Len(batches[b].steps) \in Nat
           /\ batches[b].steps \in Seq(1..Len(phase.steps))
  BY <1>2, <1>3, BatchIndices DEF Steps
<1>5. \A b \in DOMAIN batches : Len(batches[b].steps) # 0
  <2>1. SUFFICES ASSUME NEW b \in DOMAIN batches PROVE Len(batches[b].steps) # 0
    OBVIOUS
  <2>2. batches[b].steps \in Seq(1..Len(phase.steps)) /\ batches[b].steps # <<>>
    BY <1>3, <1>4 DEF InOrder
  <2> QED BY <2>2, EmptySeq
<1>6. \A b \in DOMAIN batches : batches[b].group \in STRING
  <2> DEFINE Batch == [group : STRING, steps : Seq(1..Len(phase.steps))]
  <2>1. batches \in Seq(Batch)
    BY <1>3 DEF InOrder
  <2>2. \A b \in DOMAIN batches : batches[b] \in Batch
    <3> HIDE DEF Batch
    <3> QED BY <1>4, <2>1, ElementOfSeq
  <2> QED BY <2>2
<1> QED BY <1>1, <1>2, <1>3, <1>4, <1>5, <1>6

\* The limit of a batch is a positive number: SetLimit never blocks forever.
LEMMA LimitPositive ==
  ASSUME TypeOK, MainInv, Running \/ (main = "next" /\ batch <= Len(batches))
  PROVE  Limit \in Nat \ {0}
<1>1. batch \in DOMAIN batches
  BY BatchFacts DEF MainInv
<1>2. Len(TheBatch.steps) \in Nat \ {0} /\ phase.maxParallelism \in Int
  BY <1>1, BatchFacts DEF TheBatch, PhaseType
<1> QED BY <1>2 DEF Limit, ExecuteLimit, ClampLimit

\* Two indices of one batch, or of two, are two steps.
LEMMA StepsDiffer ==
  ASSUME TypeOK, MainInv
  PROVE  /\ \A b \in DOMAIN batches : \A i, j \in DOMAIN batches[b].steps :
              batches[b].steps[i] = batches[b].steps[j] => i = j
         /\ \A b, c \in DOMAIN batches :
              b # c => StepsOf(batches[b]) \cap StepsOf(batches[c]) = {}
<1>1. \A b \in DOMAIN batches : StepsOf(batches[b]) \subseteq 1..Len(phase.steps)
  BY BatchFacts DEF Steps
<1>2. ASSUME NEW b \in DOMAIN batches, NEW i \in DOMAIN batches[b].steps,
             NEW j \in DOMAIN batches[b].steps, batches[b].steps[i] = batches[b].steps[j]
      PROVE  i = j
  <2>1. i \in Nat /\ j \in Nat
    BY BatchFacts
  <2>3. batches[b].steps[i] \in Nat
    BY <1>1, BatchFacts DEF StepsOf
  <2>2. /\ i < j => batches[b].steps[i] < batches[b].steps[j]
        /\ j < i => batches[b].steps[j] < batches[b].steps[i]
    BY BatchFacts DEF InOrder
  <2> QED BY <1>2, <2>1, <2>2, <2>3
<1>3. ASSUME NEW b \in DOMAIN batches, NEW c \in DOMAIN batches, b # c,
             NEW i \in StepsOf(batches[b]), i \in StepsOf(batches[c])
      PROVE  FALSE
  <2>1. i \in Nat /\ b \in Nat /\ c \in Nat
    BY <1>1, BatchFacts
  <2>2. (b < c => i < i) /\ (c < b => i < i)
    BY <1>3, BatchFacts DEF InOrder
  <2> QED BY <1>3, <2>1, <2>2
<1> QED BY <1>2, <1>3

\* The goroutines are finite in number.
LEMMA ActiveFinite ==
  ASSUME TypeOK, MainInv
  PROVE  /\ IsFiniteSet(Active) /\ Cardinality(Active) \in Nat
         /\ IsFiniteSet(Starting) /\ Cardinality(Starting) \in Nat
         /\ Starting \subseteq Active
<1>1. IsFiniteSet(Steps)
  BY BatchFacts, FS_Interval DEF Steps
<1>2. Active \subseteq Steps /\ Starting \subseteq Active
  BY DEF Active, Starting
<1> QED BY <1>1, <1>2, FS_Subset, FS_CardinalityType

\* A goroutine belongs to the current batch, and only while it is running.
LEMMA ActiveInBatch ==
  ASSUME TypeOK, MainInv, StageInv, NEW i \in Active
  PROVE  Running /\ batch \in DOMAIN batches /\ i \in StepsOf(TheBatch)
<1>1. Running
  BY DEF StageInv
<1>2. batch \in DOMAIN batches
  BY <1>1, BatchFacts DEF MainInv
<1>3. i \in Steps /\ stage[i] \notin {"waiting", "ok", "skipped"}
  BY DEF Active
<1>4. PICK b \in DOMAIN batches : i \in StepsOf(batches[b])
  BY <1>3, BatchFacts DEF InOrder, Steps
<1>5. ~(b < batch) /\ ~(b > batch)
  BY <1>3, <1>4 DEF StageInv
<1>6. b = batch
  BY <1>2, <1>5, BatchFacts
<1> QED BY <1>1, <1>2, <1>4, <1>6 DEF TheBatch

\* What a goroutine's step leaves alone: all but its own stage.
LEMMA StepRunFrame ==
  ASSUME TypeOK, NEW i \in Steps, StepRun(i)
  PROVE  /\ UNCHANGED <<phase, batches, mainVars>>
         /\ i \in Active
         /\ \E s \in Stages \ {"waiting"} : stage' = [stage EXCEPT ![i] = s]
<1> USE DEF mainVars, Active, Stages, Return
<1>1. CASE EvaluateWhen(i)
  BY <1>1 DEF EvaluateWhen
<1>2. CASE CheckContext(i)
  BY <1>2 DEF CheckContext
<1>3. CASE StartAttempt(i)
  BY <1>3 DEF StartAttempt
<1>4. CASE Succeed(i)
  BY <1>4 DEF Succeed
<1>5. CASE FailAttempt(i)
  BY <1>5 DEF FailAttempt
<1>6. CASE AfterFailure(i)
  BY <1>6 DEF AfterFailure
<1>7. CASE ReportError(i)
  BY <1>7 DEF ReportError
<1> QED BY <1>1, <1>2, <1>3, <1>4, <1>5, <1>6, <1>7 DEF StepRun

\* The step a failed batch is blamed on: when its goroutines have all
\* returned and one of them with an error, it is one that did.
LEMMA BlamedStep ==
  ASSUME TypeOK, MainInv, StageInv, ErrorInv, AllReturned
  PROVE  /\ FailedInstallBatchStep \in Steps \cup {0}
         /\ groupErr # NoError =>
              FailedInstallBatchStep \in Steps /\ stage[FailedInstallBatchStep] = "error"
<1> DEFINE noResult ==
      {j \in DOMAIN TheBatch.steps : stage[TheBatch.steps[j]] \notin {"ok", "skipped"}}
<1>1. Running /\ batch \in DOMAIN batches /\ Active = {}
  BY BatchFacts DEF MainInv, AllReturned, Running
<1>2. StepsOf(TheBatch) \subseteq Steps /\ DOMAIN TheBatch.steps = 1..Len(TheBatch.steps)
  BY <1>1, BatchFacts DEF TheBatch
<1>3. noResult \subseteq Nat
  BY <1>2
<1>4. \A j \in noResult : TheBatch.steps[j] \in Steps /\ stage[TheBatch.steps[j]] = "error"
  <2>1. SUFFICES ASSUME NEW j \in noResult
        PROVE  TheBatch.steps[j] \in Steps /\ stage[TheBatch.steps[j]] = "error"
    OBVIOUS
  <2>2. TheBatch.steps[j] \in StepsOf(TheBatch) /\ TheBatch.steps[j] \in Steps
    BY <1>2 DEF StepsOf
  <2>3. TheBatch.steps[j] \in Launched
    BY <1>2 DEF Launched, AllReturned
  <2>4. stage[TheBatch.steps[j]] # "waiting"
    BY <1>1, <2>2, <2>3 DEF StageInv
  <2>5. stage[TheBatch.steps[j]] \in Stages
    BY <2>2 DEF TypeOK
  <2> QED BY <1>1, <2>2, <2>4, <2>5 DEF Stages, Active
<1>5. groupErr # NoError => noResult # {}
  <2>1. SUFFICES ASSUME groupErr # NoError PROVE noResult # {}
    OBVIOUS
  <2>2. groupErr.step \in StepsOf(TheBatch) /\ stage[groupErr.step] = "error"
    BY <1>1, <2>1 DEF ErrorInv
  <2> QED BY <2>2 DEF StepsOf
<1>6. noResult # {} => (CHOOSE j \in noResult : \A m \in noResult : j <= m) \in noResult
  <2> HIDE DEF noResult
  <2>1. noResult # {} => \E j \in noResult : \A m \in noResult : j <= m
    BY <1>3, LeastExists
  <2> QED BY <2>1
<1>7. FailedInstallBatchStep =
        IF noResult = {} THEN 0
        ELSE TheBatch.steps[CHOOSE j \in noResult : \A m \in noResult : j <= m]
  BY DEF FailedInstallBatchStep
<1> HIDE DEF noResult
<1> QED BY <1>4, <1>5, <1>6, <1>7

-----------------------------------------------------------------------------
(* The type invariant and where the caller is                              *)

LEMMA InitInv == Init => IInv
<1> SUFFICES ASSUME Init PROVE IInv
  OBVIOUS
<1>1. TypeOK
  BY DEF Init, TypeOK, Stages, Absent
<1>2. MainInv
  <2>1. phase \in PhaseType(Keys)
    BY PhasesAccepted DEF Init
  <2>2. batches \in Seq([group : STRING, steps : Seq(1..Len(phase.steps))])
    BY <2>1, BatchesInOrder DEF Init, InOrder
  <2>3. Len(batches) \in Nat
    BY <2>2, LenProperties
  <2> QED BY <2>3 DEF Init, MainInv, Running
<1>3. Active = {} /\ Starting = {}
  BY DEF Init, Active, Starting
<1>4. StageInv
  BY <1>1, <1>2, <1>3, BatchFacts DEF Init, StageInv, Running, TheBatch
<1>5. ErrorInv
  BY DEF Init, ErrorInv, Running, NoError
<1>6. SlotInv /\ LateInv /\ NamedStepFailed
  BY DEF Init, SlotInv, LateInv, NamedStepFailed, Running
<1> QED BY <1>1, <1>2, <1>4, <1>5, <1>6 DEF IInv

\* What the batch's exports make of the runtime variables is well typed.
LEMMA WriteType ==
  ASSUME vars \in [Keys -> Values \cup {Absent}], NEW written, Write(written)
  PROVE  vars' \in [Keys -> Values \cup {Absent}]
BY DEF Write

LEMMA TypeStep ==
  ASSUME IInv, [Next]_phaseVars
  PROVE  TypeOK'
<1> USE DEF IInv
<1>1. CASE Main
  <2>1. CASE StartBatch
    BY <2>1 DEF StartBatch, TypeOK, Steps
  <2>2. CASE FinishPhase
    BY <2>2 DEF FinishPhase, TypeOK, Steps, mainVars, execVars
  <2>3. CASE Launch
    <3>1. stage' \in [Steps -> Stages]
      BY <2>3 DEF Launch, TypeOK, Stages
    <3> QED BY <2>3, <3>1 DEF Launch, TypeOK, Steps
  <2>4. CASE BatchFailed
    <3>1. failedStep' \in Steps \cup {0}
      BY <2>4, BlamedStep DEF BatchFailed
    <3> QED BY <2>4, <3>1 DEF BatchFailed, TypeOK, Steps, execVars
  <2>5. CASE BatchSucceeded
    <3>1. vars' \in [Keys -> Values \cup {Absent}]
      BY <2>5, WriteType DEF BatchSucceeded, TypeOK
    <3> QED BY <2>5, <3>1 DEF BatchSucceeded, TypeOK, Steps, execVars
  <2>6. CASE RegisterFailed
    <3>1. PICK j \in DOMAIN TheBatch.steps :
            /\ \E part \in SUBSET phase.steps[TheBatch.steps[j]].register :
                 Write(Registered(j - 1) \cup part)
            /\ failedStep' = TheBatch.steps[j]
      BY <2>6 DEF RegisterFailed
    <3>2. vars' \in [Keys -> Values \cup {Absent}]
      BY <3>1, WriteType DEF TypeOK
    <3>3. batch \in DOMAIN batches
      BY <2>6, BatchFacts DEF MainInv, RegisterFailed, AllReturned, Running
    <3>4. TheBatch.steps[j] \in StepsOf(TheBatch)
      BY DEF StepsOf
    <3>5. failedStep' \in Steps
      BY <3>1, <3>3, <3>4, BatchFacts DEF TheBatch
    <3> QED BY <2>6, <3>2, <3>5 DEF RegisterFailed, TypeOK, Steps, execVars
  <2> QED BY <1>1, <2>1, <2>2, <2>3, <2>4, <2>5, <2>6 DEF Main
<1>2. CASE \E i \in Steps : StepRun(i)
  <2>1. PICK i \in Steps : StepRun(i)
    BY <1>2
  <2>2. /\ UNCHANGED <<phase, batches, mainVars>>
        /\ \E s \in Stages \ {"waiting"} : stage' = [stage EXCEPT ![i] = s]
    BY <2>1, StepRunFrame
  <2>3. stage' \in [Steps -> Stages]
    BY <2>2 DEF TypeOK
  <2>4. attempt' \in [Steps -> Nat] /\ lateStarts' \in Nat
    BY <2>1 DEF StepRun, EvaluateWhen, CheckContext, StartAttempt, Succeed, FailAttempt,
                AfterFailure, ReportError, TypeOK
  <2>5. cause' \in [Steps -> Causes \cup {"none"}]
    BY <2>1 DEF StepRun, EvaluateWhen, CheckContext, StartAttempt, Succeed, FailAttempt,
                AfterFailure, ReportError, Return, TypeOK, Causes
  <2>6. groupErr' \in [step : Steps, cause : Causes] \cup {NoError}
    <3>1. CASE ReportError(i)
      <4>1. cause[i] \in Causes
        BY <3>1 DEF ReportError, ErrorInv
      <4> QED BY <3>1, <4>1 DEF ReportError, FirstError, TypeOK
    <3>2. CASE groupErr' = groupErr
      BY <3>2 DEF TypeOK
    <3> QED BY <2>1, <3>1, <3>2 DEF StepRun, EvaluateWhen, CheckContext, StartAttempt, Succeed,
                                   FailAttempt, AfterFailure
  <2> QED BY <2>2, <2>3, <2>4, <2>5, <2>6 DEF TypeOK, Steps, mainVars
<1>3. CASE UNCHANGED phaseVars
  BY <1>3 DEF phaseVars, mainVars, execVars, TypeOK, Steps
<1> QED BY <1>1, <1>2, <1>3 DEF Next, Done

LEMMA MainStep ==
  ASSUME IInv, [Next]_phaseVars
  PROVE  MainInv'
<1> USE DEF IInv, Running
<1>1. Len(batches) \in Nat /\ DOMAIN batches = 1..Len(batches)
  BY BatchFacts
<1>2. CASE StartBatch
  <2>1. batch \in DOMAIN batches
    BY <1>1, <1>2 DEF StartBatch, MainInv
  <2>2. Len(TheBatch.steps) \in Nat
    BY <2>1, BatchFacts DEF TheBatch
  <2> QED BY <1>1, <1>2, <2>2 DEF StartBatch, MainInv, TheBatch
<1>3. CASE FinishPhase
  BY <1>3 DEF FinishPhase, MainInv, mainVars
<1>4. CASE Launch
  <2>1. batch \in DOMAIN batches
    BY <1>1, <1>4 DEF Launch, MainInv
  <2>2. Len(TheBatch.steps) \in Nat /\ launched \in Nat
    BY <2>1, BatchFacts DEF TheBatch, TypeOK
  <2> QED BY <1>4, <2>2 DEF Launch, MainInv, TheBatch
<1>5. CASE BatchFailed \/ RegisterFailed
  BY <1>5 DEF BatchFailed, RegisterFailed, MainInv
<1>6. CASE BatchSucceeded
  BY <1>1, <1>6 DEF BatchSucceeded, AllReturned, MainInv
<1>7. CASE \E i \in Steps : StepRun(i)
  <2>1. UNCHANGED <<phase, batches, mainVars>>
    BY <1>7, StepRunFrame
  <2> QED BY <2>1 DEF MainInv, mainVars, TheBatch
<1>8. CASE UNCHANGED phaseVars
  BY <1>8 DEF phaseVars, mainVars, MainInv, TheBatch
<1> QED BY <1>2, <1>3, <1>4, <1>5, <1>6, <1>7, <1>8 DEF Next, Main, Done

-----------------------------------------------------------------------------
(* Where the goroutines are                                                *)

LEMMA StageStep ==
  ASSUME IInv, [Next]_phaseVars
  PROVE  StageInv'
<1> USE DEF IInv, Running
<1>0. /\ Len(batches) \in Nat /\ DOMAIN batches = 1..Len(batches)
      /\ \A b \in DOMAIN batches : StepsOf(batches[b]) \subseteq Steps
      /\ batch \in 1..(Len(batches) + 1)
  BY BatchFacts DEF MainInv
<1>1. CASE StartBatch
  <2>1. Active = {} /\ Active' = {}
    BY <1>1 DEF StartBatch, StageInv, Active, Steps
  <2>2. Launched' = {}
    BY <1>1 DEF StartBatch, Launched
  <2> QED BY <1>0, <1>1, <2>1, <2>2 DEF StartBatch, StageInv, TheBatch
<1>2. CASE FinishPhase
  BY <1>0, <1>2 DEF FinishPhase, StageInv, mainVars, execVars, Active, Steps
<1>3. CASE Launch
  <2> DEFINE x == TheBatch.steps[launched + 1]
  <2>1. batch \in DOMAIN batches
    BY <1>0, <1>3 DEF Launch, MainInv
  <2>2. DOMAIN TheBatch.steps = 1..Len(TheBatch.steps) /\ Len(TheBatch.steps) \in Nat
        /\ launched \in Nat
    BY <2>1, BatchFacts DEF TheBatch, TypeOK
  <2>3. x \in StepsOf(TheBatch)
    BY <1>3, <2>2 DEF Launch, StepsOf
  <2>4. \A b \in DOMAIN batches : b # batch => x \notin StepsOf(batches[b])
    BY <2>1, <2>3, StepsDiffer DEF TheBatch
  <2>5. \A i \in Steps : stage'[i] = IF i = x THEN "when" ELSE stage[i]
    BY <1>3 DEF Launch, TypeOK
  <2>6. Launched' = Launched \cup {x}
    <3>1. Launched' = {TheBatch.steps[j] : j \in 1..(launched + 1)}
      BY <1>3 DEF Launch, Launched, TheBatch
    <3>2. 1..(launched + 1) = (1..launched) \cup {launched + 1}
      BY <2>2
    <3> QED BY <3>1, <3>2 DEF Launched
  <2>7. UNCHANGED <<batches, batch, main, phase>> /\ TheBatch' = TheBatch
    BY <1>3 DEF Launch, TheBatch
  <2>8. ASSUME NEW b \in DOMAIN batches, b # batch, NEW i \in StepsOf(batches[b])
        PROVE  stage'[i] = stage[i]
    BY <1>0, <2>4, <2>5, <2>8
  <2>9. \A i \in StepsOf(TheBatch) : stage'[i] = "waiting" <=> i \notin Launched'
    <3>1. \A i \in StepsOf(TheBatch) : i \in Steps
      BY <1>0, <2>1 DEF TheBatch
    <3> HIDE DEF x
    <3> QED BY <1>3, <2>5, <2>6, <3>1 DEF Launch, StageInv
  <2> HIDE DEF x
  <2> QED BY <1>0, <1>3, <2>1, <2>7, <2>8, <2>9 DEF Launch, StageInv
<1>4. CASE BatchFailed \/ RegisterFailed
  <2>1. Active' = {} /\ UNCHANGED <<batches, batch, stage>> /\ main' = "failed"
    BY <1>4 DEF BatchFailed, RegisterFailed, AllReturned, execVars, Active, Steps
  <2> QED BY <2>1 DEF StageInv
<1>5. CASE BatchSucceeded
  <2>1. batch \in DOMAIN batches
    BY <1>0, <1>5 DEF BatchSucceeded, AllReturned, MainInv
  <2>2. Active = {} /\ Active' = {} /\ UNCHANGED <<batches, stage>>
        /\ batch' = batch + 1 /\ main' = "next"
    BY <1>5 DEF BatchSucceeded, AllReturned, execVars, Active, Steps
  <2>3. \A i \in StepsOf(TheBatch) : i \in Launched
    <3>1. DOMAIN TheBatch.steps = 1..Len(TheBatch.steps)
      BY <2>1, BatchFacts DEF TheBatch
    <3> QED BY <1>5, <3>1 DEF BatchSucceeded, AllReturned, StepsOf, Launched
  <2>4. \A i \in StepsOf(TheBatch) : stage[i] \in {"ok", "skipped"}
    <3>1. SUFFICES ASSUME NEW i \in StepsOf(TheBatch) PROVE stage[i] \in {"ok", "skipped"}
      OBVIOUS
    <3>2. i \in Steps
      BY <1>0, <2>1 DEF TheBatch
    <3>3. stage[i] # "waiting"
      BY <1>5, <2>3 DEF StageInv, BatchSucceeded, AllReturned
    <3>4. stage[i] # "error"
      BY <1>5 DEF ErrorInv, BatchSucceeded, AllReturned
    <3>5. stage[i] \in Stages
      BY <3>2 DEF TypeOK
    <3> QED BY <2>2, <3>2, <3>3, <3>4, <3>5 DEF Stages, Active
  <2>5. \A b \in DOMAIN batches : b < batch' => b < batch \/ b = batch
    BY <1>0, <2>2
  <2>6. \A b \in DOMAIN batches : b > batch' \/ b = batch' => b > batch
    BY <1>0, <2>2
  <2>7. batch' <= Len(batches) => batch' \in DOMAIN batches
    BY <1>0, <2>2
  <2> QED BY <2>2, <2>4, <2>5, <2>6, <2>7 DEF StageInv, TheBatch
<1>6. CASE \E i \in Steps : StepRun(i)
  <2>1. PICK i \in Steps : StepRun(i)
    BY <1>6
  <2>2. /\ UNCHANGED <<phase, batches, mainVars>>
        /\ i \in Active
        /\ \E s \in Stages \ {"waiting"} : stage' = [stage EXCEPT ![i] = s]
    BY <2>1, StepRunFrame
  <2>3. Running /\ batch \in DOMAIN batches /\ i \in StepsOf(TheBatch)
    BY <2>2, ActiveInBatch
  <2>4. \A b \in DOMAIN batches : b # batch => i \notin StepsOf(batches[b])
    BY <2>3, StepsDiffer DEF TheBatch
  <2>5. \A j \in Steps : (j # i => stage'[j] = stage[j]) /\ (j = i => stage'[j] # "waiting")
    BY <2>2 DEF TypeOK
  <2>6. stage[i] # "waiting"
    BY <2>2 DEF Active
  <2>7. Launched' = Launched /\ TheBatch' = TheBatch /\ UNCHANGED <<batches, batch, main>>
    BY <2>2 DEF mainVars, Launched, TheBatch
  <2>8. ASSUME NEW b \in DOMAIN batches, b # batch, NEW j \in StepsOf(batches[b])
        PROVE  stage'[j] = stage[j]
    BY <1>0, <2>4, <2>5, <2>8
  <2>9. \A j \in StepsOf(TheBatch) : stage'[j] = "waiting" <=> j \notin Launched
    <3>1. \A j \in StepsOf(TheBatch) : j \in Steps
      BY <1>0, <2>3 DEF TheBatch
    <3> QED BY <2>3, <2>5, <2>6, <3>1 DEF StageInv
  <2> QED BY <1>0, <2>3, <2>7, <2>8, <2>9 DEF StageInv
<1>7. CASE UNCHANGED phaseVars
  BY <1>7 DEF phaseVars, mainVars, execVars, StageInv, Active, Steps, Launched, TheBatch
<1> QED BY <1>1, <1>2, <1>3, <1>4, <1>5, <1>6, <1>7 DEF Next, Main, Done

-----------------------------------------------------------------------------
(* Why the batch has an error                                              *)

LEMMA ErrorStep ==
  ASSUME IInv, [Next]_phaseVars
  PROVE  ErrorInv'
<1> USE DEF IInv, Running
<1>1. CASE StartBatch
  <2>1. Active = {} /\ \A i \in Steps : stage[i] \notin {"failed", "returning"}
    BY <1>1 DEF StartBatch, StageInv, Active
  <2>2. \A i \in StepsOf(TheBatch) : stage[i] = "waiting"
    BY <1>1 DEF StartBatch, StageInv
  <2>3. /\ UNCHANGED <<phase, batches, batch, stage>>
        /\ TheBatch' = TheBatch /\ Steps' = Steps /\ groupErr' = NoError
    BY <1>1 DEF StartBatch, TheBatch, Steps
  <2> QED BY <2>1, <2>2, <2>3 DEF ErrorInv, NoError
<1>2. CASE Launch
  <2> DEFINE x == TheBatch.steps[launched + 1]
  <2>1. \A i \in Steps : stage'[i] = IF i = x THEN "when" ELSE stage[i]
    BY <1>2 DEF Launch, TypeOK
  <2>2. /\ UNCHANGED <<cause, groupErr, main>>
        /\ TheBatch' = TheBatch /\ Steps' = Steps /\ (Cancelled' <=> Cancelled)
    BY <1>2 DEF Launch, TheBatch, Steps, Cancelled
  <2>3. batch \in DOMAIN batches /\ StepsOf(TheBatch) \subseteq Steps
    BY <1>2, BatchFacts DEF Launch, MainInv, TheBatch
  <2>4. x \in StepsOf(TheBatch) /\ x \notin Launched /\ stage[x] = "waiting"
    <3>1. /\ DOMAIN TheBatch.steps = 1..Len(TheBatch.steps) /\ Len(TheBatch.steps) \in Nat
          /\ launched \in Nat
      BY <2>3, BatchFacts DEF TheBatch, TypeOK
    <3>2. x \in StepsOf(TheBatch)
      BY <1>2, <3>1 DEF Launch, StepsOf
    <3>3. \A j \in 1..launched : TheBatch.steps[j] # x
      BY <1>2, <2>3, <3>1, StepsDiffer DEF Launch, TheBatch
    <3>4. x \notin Launched
      BY <3>3 DEF Launched
    <3> HIDE DEF x
    <3> QED BY <1>2, <3>2, <3>4 DEF Launch, StageInv
  <2> HIDE DEF x
  <2> QED BY <1>2, <2>1, <2>2, <2>3, <2>4 DEF Launch, ErrorInv
<1>3. CASE FinishPhase \/ BatchFailed \/ BatchSucceeded \/ RegisterFailed
  <2>1. /\ UNCHANGED <<phase, stage, cause, groupErr>> /\ main' # "running"
        /\ Steps' = Steps
    BY <1>3 DEF FinishPhase, BatchFailed, BatchSucceeded, RegisterFailed, execVars, Steps
  <2> QED BY <2>1 DEF ErrorInv, Cancelled
<1>4. CASE \E i \in Steps : StepRun(i)
  <2>1. PICK i \in Steps : StepRun(i)
    BY <1>4
  <2>2. /\ UNCHANGED <<phase, batches, main, batch>>
        /\ i \in Active
        /\ TheBatch' = TheBatch /\ Steps' = Steps
    BY <2>1, StepRunFrame DEF mainVars, TheBatch, Steps
  <2>3. Running /\ batch \in DOMAIN batches /\ i \in StepsOf(TheBatch)
    BY <2>2, ActiveInBatch
  <2>4. StepsOf(TheBatch) \subseteq Steps /\ 0 \notin Steps
    BY <2>3, BatchFacts DEF TheBatch, Steps
  <2>5. stage[i] # "error"
    BY <2>2 DEF Active
  <2>6. CASE ReportError(i)
    <3>1. /\ stage[i] = "returning" /\ cause[i] \in Causes
          /\ cause[i] = "cancelled" => Cancelled
          /\ \A j \in Steps : stage'[j] = IF j = i THEN "error" ELSE stage[j]
          /\ UNCHANGED cause
      BY <2>6 DEF ReportError, ErrorInv, TypeOK
    <3>2. groupErr' = IF groupErr = NoError THEN [step |-> i, cause |-> cause[i]] ELSE groupErr
      BY <2>6 DEF ReportError, FirstError
    <3>3. groupErr' # NoError
      BY <2>4, <3>2 DEF NoError
    <3>4. groupErr'.cause # "cancelled"
      BY <3>1, <3>2 DEF ErrorInv, Cancelled
    <3>5. groupErr'.step \in StepsOf(TheBatch) /\ stage'[groupErr'.step] = "error"
      <4>1. CASE groupErr = NoError
        BY <2>3, <3>1, <3>2, <4>1
      <4>2. CASE groupErr # NoError
        BY <2>3, <2>4, <3>1, <3>2, <4>2 DEF ErrorInv
      <4> QED BY <4>1, <4>2
    <3> QED BY <2>2, <3>1, <3>3, <3>4, <3>5 DEF ErrorInv, Cancelled
  <2>7. CASE ~ReportError(i)
    <3>1. /\ UNCHANGED groupErr
          /\ \A j \in Steps : j # i => stage'[j] = stage[j] /\ cause'[j] = cause[j]
          /\ stage'[i] # "error"
      BY <2>1, <2>7 DEF StepRun, EvaluateWhen, CheckContext, StartAttempt, Succeed, FailAttempt,
                AfterFailure, Return, TypeOK
    <3>2. stage'[i] \in {"failed", "returning"} =>
            cause'[i] \in Causes /\ (cause'[i] = "cancelled" => Cancelled)
      <4>1. CASE EvaluateWhen(i) \/ StartAttempt(i)
        BY <4>1 DEF EvaluateWhen, StartAttempt, Return, TypeOK, Causes
      <4>2. CASE CheckContext(i)
        BY <4>2 DEF CheckContext, Return, TypeOK, Causes, MayStart
      <4>3. CASE Succeed(i)
        BY <4>3 DEF Succeed, TypeOK
      <4>4. CASE FailAttempt(i)
        BY <4>4 DEF FailAttempt, TypeOK, Causes
      <4>5. CASE AfterFailure(i)
        BY <4>5 DEF AfterFailure, TypeOK, ErrorInv
      <4> QED BY <2>1, <2>7, <4>1, <4>2, <4>3, <4>4, <4>5 DEF StepRun
    <3>3. Cancelled' <=> Cancelled
      BY <2>2, <3>1 DEF Cancelled
    <3> QED BY <2>2, <2>3, <2>4, <2>5, <3>1, <3>2, <3>3 DEF ErrorInv
  <2> QED BY <2>6, <2>7
<1>5. CASE UNCHANGED phaseVars
  <2>1. /\ UNCHANGED <<phase, batches, main, batch, stage, cause, groupErr>>
        /\ TheBatch' = TheBatch /\ Steps' = Steps
    BY <1>5 DEF phaseVars, mainVars, execVars, TheBatch, Steps
  <2> QED BY <2>1 DEF ErrorInv, Cancelled
<1> QED BY <1>1, <1>2, <1>3, <1>4, <1>5 DEF Next, Main, Done

\* The step a failed batch names did fail, and stays so.
LEMMA NamedStep ==
  ASSUME IInv, [Next]_phaseVars
  PROVE  NamedStepFailed'
<1> USE DEF IInv
<1>1. CASE BatchFailed
  <2>1. FailedInstallBatchStep \in Steps /\ stage[FailedInstallBatchStep] = "error"
    BY <1>1, BlamedStep DEF BatchFailed
  <2> QED BY <1>1, <2>1 DEF BatchFailed, NamedStepFailed, execVars, Steps
<1>2. CASE RegisterFailed
  BY <1>2 DEF RegisterFailed, NamedStepFailed, execVars
<1>3. CASE StartBatch \/ FinishPhase \/ Launch \/ BatchSucceeded
  BY <1>3 DEF StartBatch, FinishPhase, Launch, BatchSucceeded, AllReturned, NamedStepFailed
<1>4. CASE \E i \in Steps : StepRun(i)
  <2>1. main' = "running"
    BY <1>4, StepRunFrame, ActiveInBatch DEF mainVars, Running
  <2> QED BY <2>1 DEF NamedStepFailed
<1>5. CASE UNCHANGED phaseVars
  BY <1>5 DEF phaseVars, mainVars, execVars, NamedStepFailed, Steps
<1> QED BY <1>1, <1>2, <1>3, <1>4, <1>5 DEF Next, Main, Done

-----------------------------------------------------------------------------
(* How many goroutines there are                                           *)

\* Neither kind of goroutine becomes more numerous but by a launch or by a
\* context check, and a goroutine that reports its error was not starting.
LEMMA CountActive ==
  ASSUME TypeOK, MainInv, NEW i \in Steps, StepRun(i)
  PROVE  /\ Cardinality(Active') \in Nat /\ Cardinality(Active') <= Cardinality(Active)
         /\ Active' \subseteq Active
<1>1. /\ UNCHANGED phase /\ i \in Active
      /\ \E s \in Stages \ {"waiting"} : stage' = [stage EXCEPT ![i] = s]
  BY StepRunFrame
<1>2. Active' \subseteq Active
  BY <1>1 DEF Active, Steps, TypeOK
<1> QED BY <1>2, ActiveFinite, FS_Subset, FS_CardinalityType

LEMMA SlotStep ==
  ASSUME IInv, [Next]_phaseVars
  PROVE  SlotInv'
<1> USE DEF IInv, Running
<1>0. Cardinality(Active) \in Nat /\ IsFiniteSet(Active)
  BY ActiveFinite
<1>1. CASE StartBatch
  <2>1. Active' = {}
    BY <1>1 DEF StartBatch, StageInv, Active, Steps
  <2>2. Limit \in Nat
    BY <1>1, LimitPositive DEF StartBatch
  <2>3. Limit' \in Nat
    BY <1>1, <2>2 DEF StartBatch, Limit, TheBatch
  <2> QED BY <2>1, <2>3, FS_EmptySet DEF SlotInv
<1>2. CASE Launch
  <2> DEFINE x == TheBatch.steps[launched + 1]
  <2>1. Active' \subseteq Active \cup {x}
    BY <1>2 DEF Launch, Active, Steps, TypeOK
  <2>2. /\ IsFiniteSet(Active \cup {x})
        /\ Cardinality(Active \cup {x}) \in Nat
        /\ Cardinality(Active \cup {x}) <= Cardinality(Active) + 1
    <3> HIDE DEF x
    <3>1. /\ IsFiniteSet(Active \cup {x})
          /\ Cardinality(Active \cup {x})
               = IF x \in Active THEN Cardinality(Active) ELSE Cardinality(Active) + 1
      BY <1>0, FS_AddElement
    <3>2. Cardinality(Active \cup {x}) \in Nat
      BY <3>1, FS_CardinalityType
    <3> QED BY <1>0, <3>1, <3>2
  <2>3. Cardinality(Active') \in Nat /\ Cardinality(Active') <= Cardinality(Active) + 1
    BY <1>0, <2>1, <2>2, FS_Subset, FS_CardinalityType
  <2>4. Limit' = Limit
    BY <1>2 DEF Launch, Limit, TheBatch
  <2>5. Limit \in Nat
    BY <1>2, LimitPositive DEF Launch
  <2> QED BY <1>0, <1>2, <2>3, <2>4, <2>5 DEF Launch, SlotFree, SlotInv
<1>3. CASE FinishPhase \/ BatchFailed \/ BatchSucceeded \/ RegisterFailed
  BY <1>3 DEF FinishPhase, BatchFailed, BatchSucceeded, RegisterFailed, SlotInv
<1>4. CASE \E i \in Steps : StepRun(i)
  <2>1. PICK i \in Steps : StepRun(i)
    BY <1>4
  <2>2. UNCHANGED <<main, phase, batches, batch>> /\ Limit' = Limit
    BY <2>1, StepRunFrame DEF mainVars, Limit, TheBatch
  <2>3. Cardinality(Active') \in Nat /\ Cardinality(Active') <= Cardinality(Active)
    BY <2>1, CountActive
  <2>4. Running => Limit \in Nat
    BY LimitPositive
  <2> QED BY <1>0, <2>2, <2>3, <2>4 DEF SlotInv
<1>5. CASE UNCHANGED phaseVars
  BY <1>5 DEF phaseVars, mainVars, execVars, SlotInv, Limit, TheBatch, Active, Steps
<1> QED BY <1>1, <1>2, <1>3, <1>4, <1>5 DEF Next, Main, Done

LEMMA LateStep ==
  ASSUME IInv, [Next]_phaseVars
  PROVE  LateInv'
<1> USE DEF IInv, Running
<1>0. /\ Cardinality(Active) \in Nat /\ IsFiniteSet(Active)
      /\ Cardinality(Starting) \in Nat /\ IsFiniteSet(Starting)
      /\ Starting \subseteq Active /\ lateStarts \in Nat
      /\ Running => Limit \in Nat \ {0}
  BY ActiveFinite, LimitPositive DEF TypeOK
<1>1. CASE StartBatch
  <2>1. lateStarts' = 0 /\ ~Cancelled'
    BY <1>1 DEF StartBatch, Cancelled
  <2> QED BY <2>1 DEF LateInv
<1>2. CASE Launch
  <2>1. Starting' = Starting
    <3>1. launched + 1 \in DOMAIN TheBatch.steps /\ batch \in DOMAIN batches
      BY <1>2, BatchFacts DEF Launch, MainInv, TheBatch, TypeOK
    <3>2. TheBatch.steps[launched + 1] \notin Launched
      <4>1. \A j \in 1..launched : j \in DOMAIN TheBatch.steps /\ j # launched + 1
        BY <1>2, <3>1, BatchFacts DEF Launch, MainInv, TheBatch, TypeOK
      <4> QED BY <3>1, <4>1, StepsDiffer DEF Launched, TheBatch
    <3>3. TheBatch.steps[launched + 1] \in StepsOf(TheBatch)
      BY <3>1 DEF StepsOf
    <3>4. stage[TheBatch.steps[launched + 1]] = "waiting"
      BY <1>2, <3>2, <3>3 DEF Launch, StageInv
    <3> QED BY <1>2, <3>4 DEF Launch, Starting, Steps, TypeOK
  <2> QED BY <1>2, <2>1 DEF Launch, LateInv, Limit, TheBatch, Cancelled
<1>3. CASE FinishPhase \/ BatchFailed \/ BatchSucceeded \/ RegisterFailed
  BY <1>3 DEF FinishPhase, BatchFailed, BatchSucceeded, RegisterFailed, LateInv
<1>4. CASE \E i \in Steps : StepRun(i)
  <2>1. PICK i \in Steps : StepRun(i)
    BY <1>4
  <2>2. UNCHANGED <<main, phase, batches, batch>> /\ Limit' = Limit /\ Steps' = Steps
    BY <2>1, StepRunFrame DEF mainVars, Limit, TheBatch, Steps
  <2>3. Running /\ i \in Active
    BY <2>1, StepRunFrame, ActiveInBatch
  <2>4. CASE EvaluateWhen(i) \/ Succeed(i) \/ FailAttempt(i) \/ AfterFailure(i)
    <3>1. UNCHANGED <<lateStarts, groupErr>> /\ Starting' = Starting
      BY <2>2, <2>4 DEF EvaluateWhen, Succeed, FailAttempt, AfterFailure, Return, Starting, TypeOK
    <3> QED BY <2>2, <3>1 DEF LateInv, Cancelled
  <2>5. CASE CheckContext(i)
    <3>1. UNCHANGED <<lateStarts, groupErr>> /\ (Cancelled' <=> Cancelled)
      BY <2>2, <2>5 DEF CheckContext, Cancelled
    <3>2. CASE Cancelled
      <4>1. Starting' = Starting
        BY <2>2, <2>5, <3>2 DEF CheckContext, MayStart, Return, Starting, TypeOK
      <4> QED BY <2>2, <3>1, <4>1 DEF LateInv
    <3>3. CASE ~Cancelled
      BY <2>2, <2>3, <3>1, <3>3 DEF LateInv
    <3> QED BY <3>2, <3>3
  <2>6. CASE StartAttempt(i)
    <3>1. /\ UNCHANGED groupErr /\ (Cancelled' <=> Cancelled)
          /\ i \in Starting /\ Starting' = Starting \ {i}
          /\ lateStarts' = IF Cancelled THEN lateStarts + 1 ELSE lateStarts
      BY <2>2, <2>6 DEF StartAttempt, Cancelled, Return, Starting, TypeOK
    <3>2. Cardinality(Starting') = Cardinality(Starting) - 1
      BY <1>0, <3>1, FS_RemoveElement
    <3> QED BY <1>0, <2>2, <2>3, <3>1, <3>2 DEF LateInv
  <2>7. CASE ReportError(i)
    <3>1. UNCHANGED lateStarts /\ Starting' = Starting /\ i \notin Starting
      BY <2>2, <2>7 DEF ReportError, Starting, TypeOK
    <3>2. CASE Cancelled
      <4>1. Cancelled'
        BY <2>1, <2>2, <2>7, <3>2, 0 \notin Steps DEF ReportError, FirstError, Cancelled, NoError, Steps
      <4> QED BY <2>2, <2>3, <3>1, <3>2, <4>1 DEF LateInv
    <3>3. CASE ~Cancelled
      <4>1. Starting \subseteq Active \ {i}
        BY <1>0, <3>1
      <4>2. Cardinality(Active \ {i}) = Cardinality(Active) - 1 /\ IsFiniteSet(Active \ {i})
        BY <1>0, <2>3, FS_RemoveElement
      <4>3. Cardinality(Starting) <= Cardinality(Active) - 1
        BY <4>1, <4>2, FS_Subset
      <4>4. lateStarts = 0
        BY <2>3, <3>3 DEF LateInv, Cancelled
      <4>5. Cardinality(Starting') < Limit /\ lateStarts' = 0
        BY <1>0, <2>2, <2>3, <3>1, <4>3, <4>4 DEF SlotInv
      <4> QED BY <1>0, <2>2, <3>1, <4>5 DEF LateInv
    <3> QED BY <3>2, <3>3
  <2> QED BY <2>1, <2>4, <2>5, <2>6, <2>7 DEF StepRun
<1>5. CASE UNCHANGED phaseVars
  BY <1>5 DEF phaseVars, mainVars, execVars, LateInv, Limit, TheBatch, Cancelled, Starting, Steps
<1> QED BY <1>1, <1>2, <1>3, <1>4, <1>5 DEF Next, Main, Done

-----------------------------------------------------------------------------
(* The theorems                                                            *)

\* The named invariants are inductive together.
THEOREM Inductive == Spec => []IInv
<1>1. IInv /\ [Next]_phaseVars => IInv'
  BY TypeStep, MainStep, StageStep, ErrorStep, SlotStep, LateStep, NamedStep DEF IInv
<1> QED BY <1>1, InitInv, PTL DEF Spec

\* Every variable keeps its type, for any set of accepted phases.
THEOREM TypeCorrect == Spec => []TypeOK
<1>1. IInv => TypeOK
  BY DEF IInv
<1> QED BY <1>1, Inductive, PTL

\* No more goroutines of a batch hold a slot than its limit allows
\* (batchrun.Execute), whatever the phase.
THEOREM ParallelismBounded == Spec => []ParallelismBound
<1>1. IInv => ParallelismBound
  BY DEF IInv, SlotInv, ParallelismBound, Running
<1> QED BY <1>1, Inductive, PTL

\* The error of a failed batch is never the cancellation it caused itself.
THEOREM RootCauseIsReported == Spec => []RootCauseReported
<1>1. IInv => RootCauseReported
  BY DEF IInv, ErrorInv, RootCauseReported
<1> QED BY <1>1, Inductive, PTL

\* The step a batch_failed event names ended with an error
\* (failedInstallBatchStep).
THEOREM NamedStepDidFail == Spec => []NamedStepFailed
<1>1. IInv => NamedStepFailed
  BY DEF IInv
<1> QED BY <1>1, Inductive, PTL

\* No step of a later batch begins before the earlier batches are over.
THEOREM BatchesAreBarriers == Spec => []BatchBarrier
<1>1. IInv => BatchBarrier
  <2>1. SUFFICES ASSUME IInv, NEW b \in DOMAIN batches, NEW c \in DOMAIN batches, b < c,
                        NEW i \in StepsOf(batches[c]), stage[i] # "waiting",
                        NEW j \in StepsOf(batches[b])
                 PROVE  stage[j] \in {"ok", "skipped"}
    BY DEF BatchBarrier
  <2>2. ~(c > batch)
    BY <2>1 DEF IInv, StageInv
  <2>3. b < batch
    BY <2>1, <2>2, BatchFacts DEF IInv, MainInv
  <2> QED BY <2>1, <2>3 DEF IInv, StageInv
<1> QED BY <1>1, Inductive, PTL

\* After its cancellation a batch starts at most one attempt for each slot,
\* and none in the slot of the step that failed.
THEOREM LateStartsAreFew == Spec => []FewLateStarts
<1>1. IInv => FewLateStarts
  <2>1. SUFFICES ASSUME IInv, main = "running"
                 PROVE  lateStarts < Limit
    BY DEF FewLateStarts
  <2>2. Limit \in Nat \ {0} /\ Cardinality(Starting) \in Nat /\ lateStarts \in Nat
    BY <2>1, LimitPositive, ActiveFinite DEF IInv, TypeOK, Running
  <2> QED BY <2>1, <2>2 DEF IInv, LateInv, Running
<1> QED BY <1>1, Inductive, PTL

-----------------------------------------------------------------------------
(* The phase implements the contract of atomic batches                     *)

\* What the goroutines of the current batch have found out: they look at the
\* runtime variables as they are, and how far a step got says what its
\* condition was and that its template could be rendered.
DataInv ==
  Running =>
    /\ snapshot = vars
    /\ \A i \in StepsOf(TheBatch) :
         /\ stage[i] \in {"checking", "starting", "executing", "failed", "ok"} =>
              GuardValue(i) = "yes"
         /\ stage[i] \in {"executing", "failed", "ok"} =>
              \A k \in phase.steps[i].reads : snapshot[k] # Absent
         /\ stage[i] = "skipped" => GuardValue(i) = "no"

LEMMA DataInit == Init => DataInv
BY DEF Init, DataInv, Running

LEMMA DataStep ==
  ASSUME IInv, DataInv, [Next]_phaseVars
  PROVE  DataInv'
<1> USE DEF IInv, Running
<1>1. CASE StartBatch
  <2>1. \A i \in StepsOf(TheBatch) : stage[i] = "waiting"
    BY <1>1 DEF StartBatch, StageInv
  <2>2. /\ snapshot' = vars' /\ stage' = stage /\ TheBatch' = TheBatch
    BY <1>1 DEF StartBatch, TheBatch
  <2> QED BY <2>1, <2>2 DEF DataInv
<1>2. CASE Launch
  <2> DEFINE x == TheBatch.steps[launched + 1]
  <2>1. \A i \in Steps : stage'[i] = IF i = x THEN "when" ELSE stage[i]
    BY <1>2 DEF Launch, TypeOK
  <2>2. /\ UNCHANGED <<snapshot, vars, phase, main>> /\ TheBatch' = TheBatch /\ Running
    BY <1>2 DEF Launch, TheBatch
  <2>3. StepsOf(TheBatch) \subseteq Steps
    BY <2>2, BatchFacts DEF MainInv, TheBatch
  <2>4. \A i : GuardValue(i)' = GuardValue(i)
    BY <2>2 DEF GuardValue
  <2> HIDE DEF x
  <2> QED BY <2>1, <2>2, <2>3, <2>4 DEF DataInv
<1>3. CASE FinishPhase \/ BatchFailed \/ BatchSucceeded \/ RegisterFailed
  BY <1>3 DEF FinishPhase, BatchFailed, BatchSucceeded, RegisterFailed, DataInv
<1>4. CASE \E i \in Steps : StepRun(i)
  <2>1. PICK i \in Steps : StepRun(i)
    BY <1>4
  <2>2. /\ UNCHANGED <<phase, main, snapshot, vars>> /\ TheBatch' = TheBatch /\ i \in Active
    BY <2>1, StepRunFrame DEF mainVars, TheBatch
  <2>3. Running /\ i \in StepsOf(TheBatch) /\ StepsOf(TheBatch) \subseteq Steps
    BY <2>2, ActiveInBatch, BatchFacts DEF TheBatch
  <2>4. \A j : GuardValue(j)' = GuardValue(j)
    BY <2>2 DEF GuardValue
  <2>5. \A j \in Steps : j # i => stage'[j] = stage[j]
    <3>1. PICK s : stage' = [stage EXCEPT ![i] = s]
      BY <2>1, StepRunFrame
    <3> QED BY <3>1 DEF TypeOK
  <2>6. /\ stage'[i] \in {"checking", "starting", "executing", "failed", "ok"} =>
             GuardValue(i) = "yes"
        /\ stage'[i] \in {"executing", "failed", "ok"} =>
             \A k \in phase.steps[i].reads : snapshot[k] # Absent
        /\ stage'[i] = "skipped" => GuardValue(i) = "no"
    <3>1. CASE EvaluateWhen(i)
      BY <3>1 DEF EvaluateWhen, Return, TypeOK
    <3>2. CASE CheckContext(i)
      BY <2>3, <3>2 DEF CheckContext, Return, TypeOK, DataInv
    <3>3. CASE StartAttempt(i)
      BY <2>3, <3>3 DEF StartAttempt, Return, TypeOK, DataInv
    <3>4. CASE Succeed(i)
      BY <2>3, <3>4 DEF Succeed, TypeOK, DataInv
    <3>5. CASE FailAttempt(i)
      BY <2>3, <3>5 DEF FailAttempt, TypeOK, DataInv
    <3>6. CASE AfterFailure(i)
      BY <2>3, <3>6 DEF AfterFailure, TypeOK, DataInv
    <3>7. CASE ReportError(i)
      BY <3>7 DEF ReportError, TypeOK
    <3> QED BY <2>1, <3>1, <3>2, <3>3, <3>4, <3>5, <3>6, <3>7 DEF StepRun
  <2> QED BY <2>2, <2>3, <2>4, <2>5, <2>6 DEF DataInv
<1>5. CASE UNCHANGED phaseVars
  <2>1. /\ UNCHANGED <<phase, main, snapshot, vars, stage>> /\ TheBatch' = TheBatch
    BY <1>5 DEF phaseVars, mainVars, execVars, TheBatch
  <2> QED BY <2>1 DEF DataInv, GuardValue
<1> QED BY <1>1, <1>2, <1>3, <1>4, <1>5 DEF Next, Main, Done

\* When the goroutines of a batch have returned and none with an error, each
\* step has succeeded or been skipped.
LEMMA AllRanOrSkipped ==
  ASSUME IInv, AllReturned, groupErr = NoError
  PROVE  \A i \in StepsOf(TheBatch) : stage[i] \in {"ok", "skipped"}
<1>1. /\ Running /\ batch \in DOMAIN batches /\ Active = {}
      /\ launched = Len(TheBatch.steps)
  BY BatchFacts DEF IInv, MainInv, AllReturned, Running
<1>2. StepsOf(TheBatch) \subseteq Steps /\ DOMAIN TheBatch.steps = 1..Len(TheBatch.steps)
  BY <1>1, BatchFacts DEF TheBatch, IInv
<1>3. SUFFICES ASSUME NEW i \in StepsOf(TheBatch) PROVE stage[i] \in {"ok", "skipped"}
  OBVIOUS
<1>4. i \in Launched
  BY <1>1, <1>2 DEF StepsOf, Launched
<1>5. stage[i] # "waiting" /\ stage[i] # "error"
  BY <1>1, <1>4 DEF IInv, StageInv, ErrorInv
<1>6. stage[i] \in Stages
  BY <1>2 DEF IInv, TypeOK
<1> QED BY <1>1, <1>2, <1>5, <1>6 DEF Stages, Active

LEMMA ContractInit == Init => Contract!Init
BY DEF Init, Contract!Init, Contract!Absent, Absent,
       BuildPhaseBatches, Contract!BuildPhaseBatches, Built, Contract!Built,
       AddStep, Contract!AddStep, JoinsLastBatch, Contract!JoinsLastBatch,
       NoGroup, Contract!NoGroup

LEMMA WritesAgree ==
  ASSUME NEW written, Write(written)
  PROVE  Contract!Write(written)
BY DEF Write, Contract!Write, Values

LEMMA NothingWritten ==
  ASSUME vars \in [Keys -> Values \cup {Absent}], vars' = vars
  PROVE  Contract!Write({})
<1> DEFINE none == [k \in {} |-> "yes"]
<1>1. none \in [{} -> {"yes", "no"}]
  OBVIOUS
<1>2. vars = [k \in Keys |-> vars[k]]
  OBVIOUS
<1>3. [k \in Keys |-> IF k \in {} THEN none[k] ELSE vars[k]] = [k \in Keys |-> vars[k]]
  OBVIOUS
<1>4. vars' = [k \in Keys |-> IF k \in {} THEN none[k] ELSE vars[k]]
  BY <1>2, <1>3
<1> QED BY <1>1, <1>4 DEF Contract!Write

LEMMA ContractStep ==
  ASSUME IInv, DataInv, [Next]_phaseVars
  PROVE  [Contract!Next]_(Contract!contractVars)
<1> USE DEF IInv, Running
<1>1. CASE StartBatch \/ Launch \/ (\E i \in Steps : StepRun(i)) \/ UNCHANGED phaseVars
  <2>1. /\ UNCHANGED <<phase, batches, batch, vars>>
        /\ (main \in {"next", "running"} /\ main' = "running") \/ main' = main
    BY <1>1, StepRunFrame, ActiveInBatch
       DEF StartBatch, Launch, phaseVars, mainVars
  <2> QED BY <2>1 DEF Contract!contractVars
<1>2. CASE FinishPhase
  BY <1>2 DEF FinishPhase, mainVars, Contract!Next, Contract!Finish
<1>3. CASE BatchSucceeded
  <2> DEFINE ran == {i \in StepsOf(TheBatch) : stage[i] = "ok"}
  <2>1. batch \in DOMAIN batches /\ batch <= Len(batches)
    BY <1>3, BatchFacts DEF BatchSucceeded, AllReturned, MainInv
  <2>2. StepsOf(TheBatch) \subseteq Steps /\ DOMAIN TheBatch.steps = 1..Len(TheBatch.steps)
    BY <2>1, BatchFacts DEF TheBatch
  <2>3. Contract!Members = StepsOf(TheBatch)
    BY DEF Contract!Members, Contract!TheBatch, Contract!StepsOf, StepsOf, TheBatch
  <2>4. snapshot = vars /\ \A i \in StepsOf(TheBatch) : stage[i] \in {"ok", "skipped"}
    BY <1>3, AllRanOrSkipped DEF BatchSucceeded, AllReturned, DataInv
  <2>5. \A i \in Steps : Contract!GuardValue(phase.steps[i]) = GuardValue(i)
    BY <2>4 DEF Contract!GuardValue, GuardValue, Contract!Always, Always
  <2>6. \A i \in ran : Contract!Runnable(phase.steps[i])
    BY <1>3, <2>2, <2>4, <2>5
       DEF BatchSucceeded, AllReturned, DataInv, Contract!Runnable, Contract!Available,
           Contract!Absent, Absent
  <2>7. \A i \in Contract!Members \ ran : Contract!Skippable(phase.steps[i])
    BY <1>3, <2>2, <2>3, <2>4, <2>5
       DEF BatchSucceeded, AllReturned, DataInv, Contract!Skippable
  <2>8. Contract!Exports(ran) = Registered(Len(TheBatch.steps))
    <3>1. {phase.steps[i].register : i \in ran}
            = {phase.steps[TheBatch.steps[j]].register :
                 j \in {m \in 1..Len(TheBatch.steps) : stage[TheBatch.steps[m]] = "ok"}}
      BY <2>2 DEF StepsOf
    <3> QED BY <3>1 DEF Contract!Exports, Registered
  <2>9. Contract!Write(Contract!Exports(ran))
    <3>1. Write(Registered(Len(TheBatch.steps)))
      BY <1>3 DEF BatchSucceeded
    <3>2. Contract!Write(Registered(Len(TheBatch.steps)))
      BY <3>1, WritesAgree
    <3> HIDE DEF ran
    <3> QED BY <2>8, <3>2
  <2>10. ran \in SUBSET Contract!Members
    BY <2>3
  <2>11. Contract!Commit
    <3> HIDE DEF ran
    <3> QED BY <1>3, <2>1, <2>6, <2>7, <2>9, <2>10
            DEF BatchSucceeded, AllReturned, Contract!Commit
  <2> QED BY <2>11 DEF Contract!Next
<1>4. CASE BatchFailed
  <2>1. Contract!Write({})
    BY <1>4, NothingWritten DEF BatchFailed, TypeOK
  <2> QED BY <1>4, <2>1 DEF BatchFailed, AllReturned, MainInv, Contract!Next, Contract!Abort
<1>5. CASE RegisterFailed
  <2>1. PICK j \in DOMAIN TheBatch.steps :
          \E part \in SUBSET phase.steps[TheBatch.steps[j]].register :
             Write(Registered(j - 1) \cup part)
    BY <1>5 DEF RegisterFailed
  <2>2. PICK part \in SUBSET phase.steps[TheBatch.steps[j]].register :
          Write(Registered(j - 1) \cup part)
    BY <2>1
  <2>3. batch \in DOMAIN batches /\ batch <= Len(batches)
    BY <1>5, BatchFacts DEF RegisterFailed, AllReturned, MainInv
  <2>4. DOMAIN TheBatch.steps = 1..Len(TheBatch.steps) /\ Len(TheBatch.steps) \in Nat
    BY <2>3, BatchFacts DEF TheBatch
  <2>5. Contract!Members = StepsOf(TheBatch)
    BY DEF Contract!Members, Contract!TheBatch, Contract!StepsOf, StepsOf, TheBatch
  <2>6. Registered(j - 1) \cup part \subseteq Contract!Exports(Contract!Members)
    <3>1. \A m \in 1..(j - 1) : TheBatch.steps[m] \in Contract!Members
      BY <2>4, <2>5 DEF StepsOf
    <3>2. TheBatch.steps[j] \in Contract!Members
      BY <2>5 DEF StepsOf
    <3> QED BY <3>1, <3>2 DEF Registered, Contract!Exports
  <2>7. Contract!Write(Registered(j - 1) \cup part)
    BY <2>2, WritesAgree
  <2> QED BY <1>5, <2>3, <2>6, <2>7
          DEF RegisterFailed, AllReturned, Contract!Next, Contract!Abort
<1> QED BY <1>1, <1>2, <1>3, <1>4, <1>5 DEF Next, Main, Done

\* Whatever the goroutines of a batch do, to install.Run its batches take effect
\* one after another, each in one step; one that fails leaves a part of its own
\* exports and no others (ApplyRun relies on it).
THEOREM BatchesAreAtomic == Spec => ImplementsAtomicPhase
<1>1. Init => IInv /\ DataInv /\ Contract!Init
  BY InitInv, DataInit, ContractInit
<1>2. IInv /\ DataInv /\ [Next]_phaseVars => IInv' /\ DataInv'
  BY TypeStep, MainStep, StageStep, ErrorStep, SlotStep, LateStep, NamedStep, DataStep DEF IInv
<1>3. IInv /\ DataInv /\ [Next]_phaseVars => [Contract!Next]_(Contract!contractVars)
  BY ContractStep
<1> QED BY <1>1, <1>2, <1>3, PTL DEF Spec, ImplementsAtomicPhase, Contract!Spec

\* The phase of a run is one the validator accepts, so what holds of the batches
\* of any phase holds of those that are run.
LEMMA PhaseOfRun == Spec => [](phase \in PhaseType(Keys))
<1>1. TypeOK => phase \in PhaseType(Keys)
  BY PhasesAccepted DEF TypeOK
<1> QED BY <1>1, TypeCorrect, PTL

\* A run executes the maximal runs of consecutive steps of one group, each step
\* in exactly one of them (BuildPhaseBatches).
THEOREM BatchesRunAreMaximal == Spec => []BatchesAreMaximalRuns
<1>1. phase \in PhaseType(Keys) => BatchesAreMaximalRuns
  BY BatchesAreMaximal DEF BatchesAreMaximalRuns
<1> QED BY <1>1, PhaseOfRun, PTL

\* The limit in the events of a batch is the one its goroutines are held to
\* (NewEventContext and Execute).
THEOREM ReportedLimitsAreEnforced == Spec => []ReportedLimitIsEnforced
<1>1. phase \in PhaseType(Keys) => ReportedLimitIsEnforced
  BY LimitsDoAgree DEF ReportedLimitIsEnforced
<1> QED BY <1>1, PhaseOfRun, PTL

\* The validator's scan lets a phase pass exactly when a group names one of its
\* batches (validatePhaseParallelSemantics and BuildPhaseBatches).
THEOREM GroupsNameOneBatch == Spec => []ContiguityMeansOneBatchPerGroup
<1>1. phase \in PhaseType(Keys) => ContiguityMeansOneBatchPerGroup
  BY ContiguityIsOneBatchPerGroup DEF ContiguityMeansOneBatchPerGroup
<1> QED BY <1>1, PhaseOfRun, PTL
=============================================================================
