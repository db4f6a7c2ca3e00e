--------------------------- MODULE AuditLog_proofs ---------------------------
(***************************************************************************)
(* Proofs about the audit log, for any number of generations, any size and *)
(* any number of records and faults: that what is kept are the last        *)
(* records in order, whatever fails or is killed in a rotation, and what a *)
(* fault can cost.                                                         *)
(***************************************************************************)
EXTENDS AuditLog, SequenceTheorems, FiniteSetTheorems, NaturalsInduction,
        WellFoundedInduction, TLAPS

Files == [0..MaxFiles -> Seq(Record)]

\* In a rotation the log itself has its records until it is renamed last, and
\* each rename finds the next name free.
RotationInv ==
  /\ pc \in {"remove", "shift", "open", "write"} => next <= MaxRecords
  /\ pc \in {"remove", "shift"} => Len(files[0]) > MaxSize
  /\ pc = "shift" => files[i + 1] = <<>>

IInv == TypeOK /\ RotationInv

LEMMA Bounds ==
  /\ MaxFiles \in Nat /\ MaxFiles >= 1 /\ MaxSize \in Nat /\ MaxSize >= 1
  /\ MaxRecords \in Nat /\ MaxFaults \in Nat
  /\ 0 \in 0..MaxFiles /\ MaxFiles \in 0..MaxFiles
BY AuditAssumption DEF AuditAssumption

\* A record put into the log.
LEMMA PutFiles ==
  ASSUME IInv, next <= MaxRecords, NEW ended \in BOOLEAN, Put(ended)
  PROVE  /\ [id |-> next, ended |-> ended] \in Record
         /\ files' = [files EXCEPT ![0] = Append(files[0], [id |-> next, ended |-> ended])]
         /\ files' \in Files /\ next' = next + 1 /\ next' \in 1..MaxRecords + 1
<1> USE Bounds
<1> DEFINE r == [id |-> next, ended |-> ended]
<1>1. files \in Files /\ next \in 1..MaxRecords + 1
  BY DEF IInv, TypeOK, Files
<1>2. r \in Record
  BY <1>1 DEF Record
<1>3. files' = [files EXCEPT ![0] = Append(files[0], r)] /\ next' = next + 1
  BY <1>1 DEF Put, Files
<1> HIDE DEF r
<1>4. Append(files[0], r) \in Seq(Record)
  BY <1>1, <1>2, AppendProperties DEF Files
<1>5. files' \in Files
  BY <1>1, <1>3, <1>4 DEF Files
<1>6. next' \in 1..MaxRecords + 1
  BY <1>1, <1>3
<1> QED BY <1>2, <1>3, <1>5, <1>6 DEF r

LEMMA InitInv == Init => IInv
<1> USE Bounds
<1> SUFFICES ASSUME Init PROVE IInv
  OBVIOUS
<1>1. <<>> \in Seq(Record)
  BY EmptySeq
<1>2. files \in Files
  BY <1>1 DEF Init, Files
<1>3. /\ handle = "closed" /\ pc = "down" /\ i \in 0..MaxFiles - 1
      /\ next \in 1..MaxRecords + 1 /\ faults \in 0..MaxFaults
  BY DEF Init
<1>4. RotationInv
  BY <1>3 DEF RotationInv
<1> QED BY <1>2, <1>3, <1>4 DEF IInv, TypeOK, Files

LEMMA StepInv ==
  ASSUME IInv, [Next]_vars
  PROVE  IInv'
<1> USE Bounds
<1>0. /\ files \in Files /\ handle \in {"open", "closed"}
      /\ pc \in {"down", "idle", "remove", "shift", "open", "write"}
      /\ i \in 0..MaxFiles - 1 /\ next \in 1..MaxRecords + 1 /\ faults \in 0..MaxFaults
  BY DEF IInv, TypeOK, Files
<1>1. CASE UNCHANGED vars
  BY <1>1 DEF IInv, TypeOK, RotationInv, vars
<1>2. CASE Start \/ Stop
  BY <1>0, <1>2 DEF Start, Stop, IInv, TypeOK, RotationInv, Files
<1>3. CASE BeginWrite
  <2>1. UNCHANGED <<files, i, next>> /\ next <= MaxRecords /\ handle' \in {"open", "closed"}
    BY <1>0, <1>3 DEF BeginWrite
  <2>2. faults' \in 0..MaxFaults
    BY <1>0, <1>3 DEF BeginWrite, Fault
  <2>3. pc' = "write" \/ (pc' = "remove" /\ Len(files[0]) > MaxSize)
    BY <1>3 DEF BeginWrite, ShouldRotate
  <2> QED BY <1>0, <2>1, <2>2, <2>3 DEF IInv, TypeOK, RotationInv, Files
<1>4. CASE RemoveOldest
  <2>1. /\ files' = [files EXCEPT ![MaxFiles] = <<>>] /\ pc = "remove" /\ pc' = "shift"
        /\ i' = MaxFiles - 1 /\ UNCHANGED <<handle, next, faults>>
    BY <1>4 DEF RemoveOldest
  <2>2. <<>> \in Seq(Record)
    BY EmptySeq
  <2>3. files' \in Files /\ files'[0] = files[0] /\ files'[MaxFiles] = <<>>
    BY <1>0, <2>1, <2>2 DEF Files
  <2>4. i' \in 0..MaxFiles - 1 /\ i' + 1 = MaxFiles
    BY <2>1
  <2>5. RotationInv'
    BY <2>1, <2>3, <2>4 DEF IInv, RotationInv
  <2> QED BY <1>0, <2>1, <2>3, <2>4, <2>5 DEF IInv, TypeOK, Files
<1>5. CASE Shift
  <2>1. /\ pc = "shift" /\ UNCHANGED <<handle, next, faults>>
        /\ files' = IF files[i] = <<>> THEN files
                    ELSE [files EXCEPT ![i + 1] = files[i], ![i] = <<>>]
        /\ IF i = 0 THEN pc' = "open" /\ UNCHANGED i ELSE i' = i - 1 /\ UNCHANGED pc
    BY <1>5 DEF Shift
  <2>2. <<>> \in Seq(Record) /\ i \in 0..MaxFiles /\ i + 1 \in 0..MaxFiles /\ i + 1 # i
    BY <1>0, EmptySeq
  <2>3. files' \in Files
    BY <1>0, <2>1, <2>2 DEF Files
  <2>4. files'[i] = <<>> /\ (i # 0 => files'[0] = files[0])
    BY <1>0, <2>1, <2>2 DEF Files
  <2>5. CASE i = 0
    BY <1>0, <2>1, <2>3, <2>5 DEF IInv, TypeOK, RotationInv, Files
  <2>6. CASE i # 0
    <3>1. i' \in 0..MaxFiles - 1 /\ i' + 1 = i /\ pc' = "shift"
      BY <1>0, <2>1, <2>6
    <3>2. RotationInv'
      BY <2>1, <2>4, <2>6, <3>1 DEF IInv, RotationInv
    <3> QED BY <1>0, <2>1, <2>3, <3>1, <3>2 DEF IInv, TypeOK, Files
  <2> QED BY <2>5, <2>6
<1>6. CASE RotationFails \/ Reopen
  <2>1. UNCHANGED <<files, i, next>> /\ handle' \in {"open", "closed"} /\ pc' \in {"open", "write"}
    BY <1>0, <1>6 DEF RotationFails, Reopen
  <2>2. faults' \in 0..MaxFaults
    BY <1>0, <1>6 DEF RotationFails, Reopen, Fault
  <2>3. pc \in {"remove", "shift", "open"}
    BY <1>6 DEF RotationFails, Reopen
  <2> QED BY <1>0, <2>1, <2>2, <2>3 DEF IInv, TypeOK, RotationInv, Files
<1>7. CASE WriteRecord \/ WriteRefused \/ Kill
  <2>1. UNCHANGED i /\ handle' \in {"open", "closed"} /\ pc' \in {"idle", "down"}
    BY <1>0, <1>7 DEF WriteRecord, WriteRefused, Kill
  <2>2. faults' \in 0..MaxFaults
    <3>1. faults' = faults \/ (faults < MaxFaults /\ faults' = faults + 1)
      BY <1>7 DEF WriteRecord, WriteRefused, Kill, Fault
    <3> QED BY <1>0, <3>1
  <2>3. \/ UNCHANGED <<files, next>>
        \/ pc = "write" /\ \E ended \in BOOLEAN : Put(ended)
    BY <1>7 DEF WriteRecord, WriteRefused, Kill
  <2>4. files' \in Files /\ next' \in 1..MaxRecords + 1
    <3>1. CASE UNCHANGED <<files, next>>
      BY <1>0, <3>1
    <3>2. CASE pc = "write" /\ \E ended \in BOOLEAN : Put(ended)
      <4>1. next <= MaxRecords
        BY <3>2 DEF IInv, RotationInv
      <4> QED BY <3>2, <4>1, PutFiles
    <3> QED BY <2>3, <3>1, <3>2
  <2>5. RotationInv'
    BY <2>1 DEF RotationInv
  <2> QED BY <1>0, <2>1, <2>2, <2>4, <2>5 DEF IInv, TypeOK, Files
<1> QED BY <1>1, <1>2, <1>3, <1>4, <1>5, <1>6, <1>7 DEF Next

\* The server's files, its handle and where a write is have their types, and a
\* rotation stays within the generations, whatever fails (http_audit.go).
THEOREM TypeCorrect == Spec => []TypeOK
<1>1. IInv /\ [Next]_vars => IInv'
  BY StepInv
<1>2. IInv => TypeOK
  BY DEF IInv
<1> QED BY InitInv, <1>1, <1>2, PTL DEF Spec

-----------------------------------------------------------------------------
(* The records that are kept, generation by generation                     *)

\* A set of naturals that is not empty has a least element.
LEMMA LeastExists ==
  ASSUME NEW S \in SUBSET Nat, S # {}
  PROVE  \E m \in S : \A n \in S : m <= n
<1> DEFINE Less == {pair \in Nat \X Nat : pair[1] < pair[2]}
<1>1. IsWellFoundedOn(Less, Nat)
  BY NatLessThanWellFounded DEF OpToRel
<1>2. PICK m \in S : \A n \in S : <<n, m>> \notin Less
  <2> HIDE DEF Less
  <2> QED BY <1>1, WFMin
<1>3. \A n \in S : ~(n < m)
  BY <1>2
<1> QED BY <1>3

\* What holds of a generation, and of each one below it if of the one above that,
\* holds of all of them.
LEMMA Downward ==
  ASSUME NEW g \in 0..MaxFiles, NEW Bad \in SUBSET (0..g), g \notin Bad,
         \A n \in 0..g - 1 : n \in Bad => n + 1 \in Bad
  PROVE  Bad = {}
<1> SUFFICES ASSUME Bad # {} PROVE FALSE
  OBVIOUS
<1> DEFINE Above == {g - n : n \in Bad}
<1>0. g \in Nat /\ \A n \in 0..g : n \in Nat /\ g - n \in Nat
  BY Bounds
<1>1. Above \in SUBSET Nat /\ Above # {}
  BY <1>0
<1>2. PICK m \in Above : \A n \in Above : m <= n
  <2> HIDE DEF Above
  <2> QED BY <1>1, LeastExists
<1>3. PICK n \in Bad : m = g - n
  BY <1>2
<1>4. n \in 0..g - 1 /\ n \in Nat
  BY <1>0
<1>5. n + 1 \in Bad
  BY <1>4
<1>6. g - (n + 1) \in Above
  BY <1>5
<1>7. m <= g - (n + 1)
  <2> HIDE DEF Above
  <2> QED BY <1>2, <1>6
<1> QED BY <1>0, <1>3, <1>4, <1>7

\* The loop of FlattenSeq.
Flat(s) ==
  LET flatten[k \in 1..Len(s)] == IF k = 1 THEN s[k] ELSE flatten[k - 1] \o s[k]
  IN  flatten

LEMMA FlatDefined ==
  ASSUME NEW s, Len(s) \in Nat
  PROVE  Flat(s) = [k \in 1..Len(s) |-> IF k = 1 THEN s[k] ELSE Flat(s)[k - 1] \o s[k]]
<1> DEFINE Loop(f, n) == [k \in 1..n |-> IF k = 1 THEN s[k] ELSE f[k - 1] \o s[k]]
           Bad == {n \in Nat : ~ \E f : f = Loop(f, n)}
<1>1. Bad = {}
  <2>1. SUFFICES ASSUME Bad # {} PROVE FALSE
    OBVIOUS
  <2>2. PICK n \in Bad : \A m \in Bad : n <= m
    BY <2>1, LeastExists
  <2>3. n # 0
    <3> DEFINE f == [k \in 1..0 |-> <<>>]
    <3>1. f = Loop(f, 0)
      OBVIOUS
    <3> QED BY <3>1
  <2>4. n - 1 \in Nat /\ n - 1 \notin Bad
    <3>1. n \in Nat /\ n - 1 \in Nat /\ n - 1 < n
      BY <2>3
    <3> HIDE DEF Bad
    <3> QED BY <2>2, <3>1
  <2>5. PICK f : f = Loop(f, n - 1)
    BY <2>4
  <2> DEFINE g == [k \in 1..n |-> IF k = n THEN (IF k = 1 THEN s[k] ELSE f[k - 1] \o s[k]) ELSE f[k]]
  <2>6. g = Loop(g, n)
    <3>1. ASSUME NEW k \in 1..n
          PROVE  g[k] = IF k = 1 THEN s[k] ELSE g[k - 1] \o s[k]
      <4>0. k # 1 => k - 1 \in 1..(n - 1) /\ k - 1 \in 1..n /\ k - 1 # n
        BY <2>4
      <4>1. k # 1 => g[k - 1] = f[k - 1]
        BY <4>0
      <4>2. CASE k = n
        BY <4>1, <4>2
      <4>3. CASE k # n
        <5>1. k \in 1..(n - 1)
          BY <2>4, <4>3
        <5>2. f[k] = IF k = 1 THEN s[k] ELSE f[k - 1] \o s[k]
          BY <2>5, <5>1
        <5> QED BY <4>1, <4>3, <5>2
      <4> QED BY <4>2, <4>3
    <3> QED BY <3>1
  <2> QED BY <2>2, <2>6
<1>2. \E f : f = Loop(f, Len(s))
  BY <1>1
<1>3. Flat(s) = CHOOSE f : f = Loop(f, Len(s))
  BY DEF Flat
<1> QED BY <1>2, <1>3

\* The records of the generations from the oldest down to g.
OldestFirst(f) == [k \in 1..MaxFiles + 1 |-> f[MaxFiles + 1 - k]]

Down(f, g) == Flat(OldestFirst(f))[MaxFiles + 1 - g]

LEMMA DownFacts ==
  ASSUME NEW f \in Files
  PROVE  /\ Down(f, MaxFiles) = f[MaxFiles]
         /\ \A g \in 0..MaxFiles - 1 : Down(f, g) = Down(f, g + 1) \o f[g]
         /\ \A g \in 0..MaxFiles : Down(f, g) \in Seq(Record)
<1> USE Bounds
<1> DEFINE s == OldestFirst(f)
<1>1. Len(s) = MaxFiles + 1 /\ \A k \in 1..MaxFiles + 1 : s[k] = f[MaxFiles + 1 - k]
  BY DEF OldestFirst
<1>2. \A k \in 1..MaxFiles + 1 :
        Flat(s)[k] = IF k = 1 THEN s[k] ELSE Flat(s)[k - 1] \o s[k]
  <2> HIDE DEF s
  <2>1. Flat(s) = [k \in 1..MaxFiles + 1 |-> IF k = 1 THEN s[k] ELSE Flat(s)[k - 1] \o s[k]]
    <3>1. Len(s) \in Nat
      BY <1>1
    <3>2. Flat(s) = [k \in 1..Len(s) |-> IF k = 1 THEN s[k] ELSE Flat(s)[k - 1] \o s[k]]
      BY <3>1, FlatDefined
    <3> QED BY <1>1, <3>2
  <2> QED BY <2>1
<1> HIDE DEF s
<1>3. Down(f, MaxFiles) = f[MaxFiles]
  <2>1. Flat(s)[1] = s[1] /\ s[1] = f[MaxFiles]
    BY <1>1, <1>2
  <2>2. MaxFiles + 1 - MaxFiles = 1
    OBVIOUS
  <2> QED BY <2>1, <2>2 DEF Down, s
<1>4. ASSUME NEW g \in 0..MaxFiles - 1
      PROVE  Down(f, g) = Down(f, g + 1) \o f[g]
  <2> DEFINE k == MaxFiles + 1 - g
  <2>1. k \in 1..MaxFiles + 1 /\ k # 1 /\ k - 1 = MaxFiles + 1 - (g + 1) /\ MaxFiles + 1 - k = g
    OBVIOUS
  <2>2. Flat(s)[k] = Flat(s)[k - 1] \o s[k] /\ s[k] = f[MaxFiles + 1 - k]
    BY <1>1, <1>2, <2>1
  <2>3. Down(f, g) = Flat(s)[k] /\ Down(f, g + 1) = Flat(s)[MaxFiles + 1 - (g + 1)]
    BY DEF Down, s
  <2> HIDE DEF k
  <2> QED BY <2>1, <2>2, <2>3
<1>5. \A g \in 0..MaxFiles : Down(f, g) \in Seq(Record)
  <2> DEFINE Bad == {g \in 0..MaxFiles : Down(f, g) \notin Seq(Record)}
  <2>1. MaxFiles \notin Bad
    BY <1>3 DEF Files
  <2>2. ASSUME NEW g \in 0..MaxFiles - 1, g \in Bad PROVE g + 1 \in Bad
    <3>1. g + 1 \in 0..MaxFiles /\ f[g] \in Seq(Record)
      BY DEF Files
    <3>2. Down(f, g) = Down(f, g + 1) \o f[g]
      BY <1>4
    <3>3. Down(f, g) \notin Seq(Record)
      BY <2>2
    <3>4. Down(f, g + 1) \in Seq(Record) => Down(f, g) \in Seq(Record)
      BY <3>1, <3>2, ConcatProperties
    <3> QED BY <3>1, <3>3, <3>4
  <2>3. Bad \in SUBSET (0..MaxFiles)
    OBVIOUS
  <2>4. Bad = {}
    <3> HIDE DEF Bad
    <3> QED BY <2>1, <2>2, <2>3, Downward
  <2> QED BY <2>4
<1> QED BY <1>3, <1>4, <1>5

\* What an operator reads is the records down to the log itself.
LEMMA KeptIsDown == Kept = Down(files, 0)
<1> USE Bounds
<1>1. Len(OldestFirst(files)) = MaxFiles + 1 /\ MaxFiles + 1 # 0
  BY DEF OldestFirst
<1>2. Kept = FlattenSeq(OldestFirst(files))
  BY DEF Kept, OldestFirst
<1>3. FlattenSeq(OldestFirst(files)) = Flat(OldestFirst(files))[MaxFiles + 1]
  BY <1>1 DEF FlattenSeq, Flat
<1> QED BY <1>2, <1>3 DEF Down

\* Generations that are the same down to g make the same records down to g; and
\* if the records down to g and all generations below are the same, so is all.
LEMMA SameAbove ==
  ASSUME NEW f \in Files, NEW h \in Files, NEW g \in 0..MaxFiles,
         \A n \in g..MaxFiles : h[n] = f[n]
  PROVE  Down(h, g) = Down(f, g)
<1> USE Bounds
<1> DEFINE Bad == {n \in 0..MaxFiles : n >= g /\ Down(h, n) # Down(f, n)}
<1>1. MaxFiles \notin Bad
  <2>1. Down(f, MaxFiles) = f[MaxFiles] /\ Down(h, MaxFiles) = h[MaxFiles]
    BY DownFacts
  <2>2. MaxFiles \in g..MaxFiles
    OBVIOUS
  <2> QED BY <2>1, <2>2
<1>2. ASSUME NEW n \in 0..MaxFiles - 1, n \in Bad PROVE n + 1 \in Bad
  <2>1. n >= g /\ n + 1 \in 0..MaxFiles /\ n + 1 >= g /\ n \in g..MaxFiles
    BY <1>2
  <2>2. Down(h, n) = Down(h, n + 1) \o h[n] /\ Down(f, n) = Down(f, n + 1) \o f[n]
    BY DownFacts
  <2> QED BY <1>2, <2>1, <2>2
<1>3. Bad \in SUBSET (0..MaxFiles)
  OBVIOUS
<1>4. Bad = {}
  <2> HIDE DEF Bad
  <2> QED BY <1>1, <1>2, <1>3, Downward
<1> QED BY <1>4

LEMMA SameBelow ==
  ASSUME NEW f \in Files, NEW h \in Files, NEW g \in 0..MaxFiles,
         Down(h, g) = Down(f, g), \A n \in 0..g - 1 : h[n] = f[n]
  PROVE  Down(h, 0) = Down(f, 0)
<1> USE Bounds
<1> DEFINE Bad == {n \in 0..g : Down(h, n) # Down(f, n)}
<1>1. g \notin Bad
  OBVIOUS
<1>2. ASSUME NEW n \in 0..g - 1, n \in Bad PROVE n + 1 \in Bad
  <2>1. n \in 0..MaxFiles - 1 /\ n + 1 \in 0..g
    OBVIOUS
  <2>2. Down(h, n) = Down(h, n + 1) \o h[n] /\ Down(f, n) = Down(f, n + 1) \o f[n]
    BY <2>1, DownFacts
  <2> QED BY <1>2, <2>1, <2>2
<1>3. Bad \in SUBSET (0..g)
  OBVIOUS
<1>4. Bad = {}
  <2> HIDE DEF Bad
  <2> QED BY <1>1, <1>2, <1>3, Downward
<1> QED BY <1>4
-----------------------------------------------------------------------------
(* Every step of the log of files is one of the retained log               *)

\* What is read before a generation, from the older ones.
Older(f, g) == IF g = MaxFiles THEN <<>> ELSE Down(f, g + 1)

LEMMA OlderFacts ==
  ASSUME NEW f \in Files, NEW g \in 0..MaxFiles
  PROVE  Older(f, g) \in Seq(Record) /\ Down(f, g) = Older(f, g) \o f[g]
<1> USE Bounds
<1>1. CASE g = MaxFiles
  <2>1. f[g] \in Seq(Record) /\ Down(f, g) = f[g] /\ Older(f, g) = <<>>
    BY <1>1, DownFacts DEF Files, Older
  <2> QED BY <2>1, ConcatEmptySeq, EmptySeq
<1>2. CASE g # MaxFiles
  <2>1. g \in 0..MaxFiles - 1 /\ g + 1 \in 0..MaxFiles /\ Older(f, g) = Down(f, g + 1)
    BY <1>2 DEF Older
  <2> QED BY <2>1, DownFacts
<1> QED BY <1>1, <1>2

LEMMA Associative == \A s, t, u \in Seq(Record) : (s \o t) \o u = s \o (t \o u)
BY ConcatAssociative

\* A record put into the log itself is read last.
LEMMA PutIsLast ==
  ASSUME NEW f \in Files, NEW r \in Record
  PROVE  Down([f EXCEPT ![0] = Append(f[0], r)], 0) = Append(Down(f, 0), r)
<1> USE Bounds
<1> DEFINE h == [f EXCEPT ![0] = Append(f[0], r)]
<1>1. f[0] \in Seq(Record) /\ Append(f[0], r) \in Seq(Record) /\ <<r>> \in Seq(Record)
  BY AppendProperties DEF Files
<1>2. /\ h \in Files /\ h[0] = Append(f[0], r)
      /\ \A n \in 1..MaxFiles : h[n] = f[n]
  BY <1>1 DEF Files
<1> HIDE DEF h
<1>3. 1 \in 0..MaxFiles /\ 0 \in 0..MaxFiles - 1
  OBVIOUS
<1>4. Down(h, 1) = Down(f, 1)
  BY <1>2, <1>3, SameAbove
<1>5. /\ Down(h, 0) = Down(h, 1) \o h[0]
      /\ Down(f, 0) = Down(f, 1) \o f[0]
      /\ Down(f, 1) \in Seq(Record) /\ Down(f, 0) \in Seq(Record)
  <2>1. 0 + 1 = 1
    OBVIOUS
  <2>2. Down(h, 0) = Down(h, 0 + 1) \o h[0] /\ Down(f, 0) = Down(f, 0 + 1) \o f[0]
    BY <1>2, <1>3, DownFacts
  <2>3. Down(f, 1) \in Seq(Record) /\ Down(f, 0) \in Seq(Record)
    BY <1>3, DownFacts
  <2> QED BY <2>1, <2>2, <2>3
<1>6. Append(f[0], r) = f[0] \o <<r>> /\ Append(Down(f, 0), r) = Down(f, 0) \o <<r>>
  BY <1>1, <1>5, AppendIsConcat
<1>7. Down(f, 1) \o (f[0] \o <<r>>) = (Down(f, 1) \o f[0]) \o <<r>>
  BY <1>1, <1>5, Associative
<1> QED BY <1>2, <1>4, <1>5, <1>6, <1>7 DEF h

\* A generation renamed to the next name, which is free, is read in its old place.
LEMMA RenameKeeps ==
  ASSUME NEW f \in Files, NEW k \in 0..MaxFiles - 1, f[k + 1] = <<>>
  PROVE  Down([f EXCEPT ![k + 1] = f[k], ![k] = <<>>], 0) = Down(f, 0)
<1> USE Bounds
<1> DEFINE h == [f EXCEPT ![k + 1] = f[k], ![k] = <<>>]
<1>1. k \in 0..MaxFiles /\ k + 1 \in 0..MaxFiles /\ k + 1 # k /\ <<>> \in Seq(Record)
  BY EmptySeq
<1>2. /\ h \in Files /\ h[k] = <<>> /\ h[k + 1] = f[k]
      /\ \A n \in 0..MaxFiles : n # k /\ n # k + 1 => h[n] = f[n]
  BY <1>1 DEF Files
<1> HIDE DEF h
<1> DEFINE P == Older(f, k + 1)
<1>3. Older(h, k + 1) = P
  <2>1. CASE k + 1 = MaxFiles
    BY <2>1 DEF Older
  <2>2. CASE k + 1 # MaxFiles
    <3>1. k + 2 \in 0..MaxFiles /\ \A n \in k + 2..MaxFiles : h[n] = f[n]
      BY <1>2, <2>2
    <3>2. Down(h, k + 2) = Down(f, k + 2)
      BY <1>2, <3>1, SameAbove
    <3>3. (k + 1) + 1 = k + 2
      OBVIOUS
    <3> QED BY <2>2, <3>2, <3>3 DEF Older
  <2> QED BY <2>1, <2>2
<1>4. P \in Seq(Record) /\ f[k] \in Seq(Record) /\ P \o f[k] \in Seq(Record)
  BY <1>1, OlderFacts, ConcatProperties DEF Files
<1>5. Down(h, k + 1) = P \o f[k] /\ Down(f, k + 1) = P \o <<>>
  BY <1>1, <1>2, <1>3, OlderFacts
<1>6. /\ Down(h, k) = Down(h, k + 1) \o h[k]
      /\ Down(f, k) = Down(f, k + 1) \o f[k]
  BY <1>2, DownFacts
<1>7. P \o <<>> = P /\ (P \o f[k]) \o <<>> = P \o f[k]
  BY <1>4, ConcatEmptySeq
<1>8. Down(h, k) = Down(f, k)
  BY <1>2, <1>5, <1>6, <1>7
<1>9. \A n \in 0..k - 1 : h[n] = f[n]
  BY <1>2
<1> QED BY <1>1, <1>2, <1>8, <1>9, SameBelow DEF h

\* The oldest generation is what is read first.
LEMMA OldestIsFirst ==
  ASSUME NEW f \in Files
  PROVE  /\ Down([f EXCEPT ![MaxFiles] = <<>>], 0) \in Seq(Record)
         /\ Down(f, 0) = f[MaxFiles] \o Down([f EXCEPT ![MaxFiles] = <<>>], 0)
<1> USE Bounds
<1> DEFINE h == [f EXCEPT ![MaxFiles] = <<>>]
           Bad == {n \in 0..MaxFiles : Down(f, n) # f[MaxFiles] \o Down(h, n)}
<1>1. /\ h \in Files /\ h[MaxFiles] = <<>> /\ f[MaxFiles] \in Seq(Record)
      /\ \A n \in 0..MaxFiles - 1 : h[n] = f[n]
  BY EmptySeq DEF Files
<1> HIDE DEF h
<1>2. MaxFiles \notin Bad
  <2>1. Down(h, MaxFiles) = <<>> /\ Down(f, MaxFiles) = f[MaxFiles]
    BY <1>1, DownFacts
  <2> QED BY <1>1, <2>1, ConcatEmptySeq
<1>3. ASSUME NEW n \in 0..MaxFiles - 1, n \in Bad PROVE n + 1 \in Bad
  <2>1. n + 1 \in 0..MaxFiles /\ n \in 0..MaxFiles
    OBVIOUS
  <2>2. /\ Down(h, n) = Down(h, n + 1) \o f[n]
        /\ Down(f, n) = Down(f, n + 1) \o f[n]
        /\ Down(h, n + 1) \in Seq(Record) /\ f[n] \in Seq(Record)
    BY <1>1, <2>1, DownFacts DEF Files
  <2>3. (f[MaxFiles] \o Down(h, n + 1)) \o f[n] = f[MaxFiles] \o (Down(h, n + 1) \o f[n])
    BY <1>1, <2>2, Associative
  <2>4. SUFFICES ASSUME n + 1 \notin Bad PROVE FALSE
    OBVIOUS
  <2>5. Down(f, n + 1) = f[MaxFiles] \o Down(h, n + 1)
    BY <2>1, <2>4
  <2>6. Down(f, n) = f[MaxFiles] \o Down(h, n)
    BY <2>2, <2>3, <2>5
  <2> QED BY <1>3, <2>6
<1>4. Bad \in SUBSET (0..MaxFiles)
  OBVIOUS
<1>5. Bad = {}
  <2> HIDE DEF Bad
  <2> QED BY <1>2, <1>3, <1>4, Downward
<1>6. Down(h, 0) \in Seq(Record)
  BY <1>1, DownFacts
<1> QED BY <1>5, <1>6 DEF h

LEMMA InitRefines == Init => RL!Init
<1> USE Bounds
<1> SUFFICES ASSUME Init PROVE RL!Init
  OBVIOUS
<1> DEFINE Bad == {n \in 0..MaxFiles : Down(files, n) # <<>>}
<1>1. files \in Files /\ \A n \in 0..MaxFiles : files[n] = <<>>
  BY EmptySeq DEF Init, Files
<1>2. MaxFiles \notin Bad
  BY <1>1, DownFacts
<1>3. ASSUME NEW n \in 0..MaxFiles - 1, n \in Bad PROVE n + 1 \in Bad
  <2>1. n + 1 \in 0..MaxFiles /\ n \in 0..MaxFiles
    OBVIOUS
  <2>2. Down(files, n) = Down(files, n + 1) \o <<>> /\ Down(files, n + 1) \in Seq(Record)
    BY <1>1, <2>1, DownFacts
  <2> QED BY <1>3, <2>1, <2>2, ConcatEmptySeq
<1>4. Bad \in SUBSET (0..MaxFiles)
  OBVIOUS
<1>5. Bad = {}
  <2> HIDE DEF Bad
  <2> QED BY <1>2, <1>3, <1>4, Downward
<1>6. Kept = <<>>
  BY <1>5, KeptIsDown
<1> QED BY <1>6 DEF Init, RL!Init

LEMMA StepRefines ==
  ASSUME IInv, [Next]_vars
  PROVE  [RL!Next]_RL!logVars
<1> USE Bounds
<1>0. /\ files \in Files /\ i \in 0..MaxFiles - 1 /\ next \in Nat
  BY DEF IInv, TypeOK, Files
<1>1. Kept = Down(files, 0) /\ Kept' = Down(files', 0)
  <2>1. (Kept = Down(files, 0))'
    BY KeptIsDown, PTL
  <2> QED BY <2>1, KeptIsDown
<1>2. ASSUME UNCHANGED <<files, next>>
      PROVE  UNCHANGED RL!logVars
  BY <1>1, <1>2 DEF RL!logVars
<1>3. ASSUME next <= MaxRecords, NEW ended \in BOOLEAN, Put(ended)
      PROVE  RL!Accept
  <2> DEFINE r == [id |-> next, ended |-> ended]
  <2>1. /\ r \in Record /\ files' = [files EXCEPT ![0] = Append(files[0], r)]
        /\ next' = next + 1
    BY <1>3, PutFiles
  <2> HIDE DEF r
  <2>2. Kept' = Append(Kept, r)
    BY <1>0, <1>1, <2>1, PutIsLast
  <2>3. next' - 1 = (next - 1) + 1 /\ next = next' - 1
    BY <1>0, <2>1
  <2>4. r = [id |-> next' - 1, ended |-> ended]
    BY <2>3 DEF r
  <2> QED BY <2>2, <2>3, <2>4 DEF RL!Accept
<1>4. CASE RemoveOldest
  <2> DEFINE h == [files EXCEPT ![MaxFiles] = <<>>]
             gone == files[MaxFiles]
             rest == Down(h, 0)
  <2>1. files' = h /\ next' = next
    BY <1>4 DEF RemoveOldest
  <2>2. Kept' = rest /\ Kept = gone \o rest /\ rest \in Seq(Record) /\ gone \in Seq(Record)
    BY <1>0, <1>1, <2>1, OldestIsFirst DEF Files
  <2> HIDE DEF h, gone, rest
  <2>3. CASE gone = <<>>
    <3>1. Kept' = Kept
      BY <2>2, <2>3, ConcatEmptySeq
    <3> QED BY <2>1, <3>1 DEF RL!logVars
  <2>4. CASE gone # <<>>
    <3>1. /\ Len(gone) \in Nat \ {0} /\ Len(rest) \in Nat
          /\ Len(Kept) = Len(gone) + Len(rest)
      BY <2>2, <2>4, EmptySeq, ConcatProperties, LenProperties
    <3>2. SubSeq(Kept, Len(gone) + 1, Len(Kept)) = rest
      <4>1. CASE rest = <<>>
        <5>1. Len(rest) = 0
          BY <4>1, EmptySeq
        <5>2. Len(Kept) < Len(gone) + 1 /\ Len(gone) + 1 \in Int /\ Len(Kept) \in Int
          BY <3>1, <5>1
        <5> QED BY <4>1, <5>2, SubSeqEmpty
      <4>2. CASE rest # <<>>
        <5>1. Len(rest) >= 1
          BY <2>2, <4>2, EmptySeq, <3>1
        <5>2. /\ Len(gone) + 1 \in Len(gone) + 1..Len(gone) + Len(rest)
              /\ Len(gone) + Len(rest) \in Len(gone) + 1..Len(gone) + Len(rest)
          BY <3>1, <5>1
        <5>3. SubSeq(gone \o rest, Len(gone) + 1, Len(gone) + Len(rest))
                = SubSeq(rest, (Len(gone) + 1) - Len(gone), (Len(gone) + Len(rest)) - Len(gone))
          BY <2>2, <5>2, SubSeqOfConcat2
        <5>4. (Len(gone) + 1) - Len(gone) = 1 /\ (Len(gone) + Len(rest)) - Len(gone) = Len(rest)
          BY <3>1
        <5>5. SubSeq(rest, 1, Len(rest)) = rest
          BY <2>2, SubSeqFull
        <5> QED BY <2>2, <3>1, <5>3, <5>4, <5>5
      <4> QED BY <4>1, <4>2
    <3>3. Len(gone) \in 1..Len(Kept)
      BY <3>1
    <3>4. RL!Forget
      BY <2>1, <2>2, <3>2, <3>3 DEF RL!Forget
    <3> QED BY <3>4 DEF RL!Next
  <2> QED BY <2>3, <2>4
<1>5. CASE Shift
  <2>1. pc = "shift" /\ next' = next
    BY <1>5 DEF Shift
  <2>2. files[i + 1] = <<>>
    BY <2>1 DEF IInv, RotationInv
  <2>3. CASE files[i] = <<>>
    BY <1>2, <1>5, <2>1, <2>3 DEF Shift
  <2>4. CASE files[i] # <<>>
    <3>1. files' = [files EXCEPT ![i + 1] = files[i], ![i] = <<>>]
      BY <1>5, <2>4 DEF Shift
    <3>2. Kept' = Kept
      BY <1>0, <1>1, <2>2, <3>1, RenameKeeps
    <3> QED BY <2>1, <3>2 DEF RL!logVars
  <2> QED BY <2>3, <2>4
<1>6. CASE WriteRecord \/ Kill
  <2>1. \/ UNCHANGED <<files, next>>
        \/ pc = "write" /\ \E ended \in BOOLEAN : Put(ended)
    BY <1>6 DEF WriteRecord, Kill
  <2>2. pc = "write" => next <= MaxRecords
    BY DEF IInv, RotationInv
  <2> QED BY <1>2, <1>3, <2>1, <2>2 DEF RL!Next
<1>7. CASE UNCHANGED vars \/ Start \/ Stop \/ BeginWrite \/ RotationFails \/ Reopen \/ WriteRefused
  <2>1. UNCHANGED <<files, next>>
    BY <1>7 DEF vars, Start, Stop, BeginWrite, RotationFails, Reopen, WriteRefused
  <2> QED BY <1>2, <2>1
<1> QED BY <1>4, <1>5, <1>6, <1>7 DEF Next

\* Whatever call of a rotation fails and wherever the server is killed, what an
\* operator reads through the generations are the last records accepted, in the
\* order they were accepted (http_audit.go, rotateLocked).
THEOREM KeepsTheLastRecords == Spec => ImplementsRetainedLog
<1>1. IInv /\ [Next]_vars => IInv'
  BY StepInv
<1>2. IInv /\ [Next]_vars => [RL!Next]_RL!logVars
  BY StepRefines
<1> QED BY InitInv, InitRefines, <1>1, <1>2, PTL DEF Spec, ImplementsRetainedLog, RL!Spec
-----------------------------------------------------------------------------
(* What a fault costs                                                      *)

\* Generations without records among the t that follow the log itself.
Empty(f, t) == {g \in 1..t : f[g] = <<>>}

\* A generation is full or empty. Below one that is not empty there are no more
\* empty ones than faults, nor among all of them when records have gone; but for
\* the one that a rotation on its way carries down.
GenerationsInv ==
  /\ \A g \in 1..MaxFiles : files[g] # <<>> => Len(files[g]) > MaxSize
  /\ \A t \in 1..MaxFiles : files[t] # <<>> =>
       Cardinality(Empty(files, t - 1))
         <= faults + (IF pc = "shift" /\ i + 1 < t THEN 1 ELSE 0)
  /\ Len(Kept) < next - 1 =>
       Cardinality(Empty(files, MaxFiles)) <= faults + (IF pc = "shift" THEN 1 ELSE 0)

LEMMA EmptyFacts ==
  ASSUME NEW f \in Files, NEW t \in 0..MaxFiles
  PROVE  /\ IsFiniteSet(Empty(f, t)) /\ Cardinality(Empty(f, t)) \in Nat
         /\ Cardinality(Empty(f, t)) <= t
         /\ Empty(f, t) \in SUBSET (1..t)
<1> USE Bounds
<1>1. IsFiniteSet(1..t) /\ Cardinality(1..t) = t
  <2>1. 1 \in Int /\ t \in Int /\ (1 > t => t = 0) /\ t - 1 + 1 = t
    OBVIOUS
  <2> QED BY <2>1, FS_Interval
<1>2. Empty(f, t) \in SUBSET (1..t)
  BY DEF Empty
<1> QED BY <1>1, <1>2, FS_Subset, FS_CardinalityType

LEMMA SameEmpty ==
  ASSUME NEW f, NEW h, NEW t \in Nat, \A n \in 1..t : h[n] = f[n]
  PROVE  Empty(h, t) = Empty(f, t)
BY DEF Empty

\* One more generation.
LEMMA EmptyNext ==
  ASSUME NEW f \in Files, NEW t \in 1..MaxFiles
  PROVE  Cardinality(Empty(f, t))
           = Cardinality(Empty(f, t - 1)) + (IF f[t] = <<>> THEN 1 ELSE 0)
<1> USE Bounds
<1>0. t - 1 \in 0..MaxFiles /\ t \in Nat /\ t \notin 1..t - 1
  OBVIOUS
<1>1. IsFiniteSet(Empty(f, t - 1)) /\ t \notin Empty(f, t - 1)
  BY <1>0, EmptyFacts
<1>2. Cardinality(Empty(f, t - 1)) \in Nat
  BY <1>1, FS_CardinalityType
<1>3. CASE f[t] = <<>>
  <2>1. Empty(f, t) = Empty(f, t - 1) \cup {t}
    BY <1>0, <1>3 DEF Empty
  <2> QED BY <1>1, <1>3, <2>1, FS_AddElement
<1>4. CASE f[t] # <<>>
  <2>1. Empty(f, t) = Empty(f, t - 1)
    BY <1>0, <1>4 DEF Empty
  <2> QED BY <1>2, <1>4, <2>1
<1> QED BY <1>3, <1>4

\* A rename moves an empty generation down, or fills one when the log itself is
\* renamed.
LEMMA RenameEmpty ==
  ASSUME NEW f \in Files, NEW k \in 0..MaxFiles - 1, NEW t \in k + 1..MaxFiles,
         f[k] # <<>>, f[k + 1] = <<>>
  PROVE  Cardinality(Empty([f EXCEPT ![k + 1] = f[k], ![k] = <<>>], t))
           = Cardinality(Empty(f, t)) - (IF k = 0 THEN 1 ELSE 0)
<1> USE Bounds
<1> DEFINE h == [f EXCEPT ![k + 1] = f[k], ![k] = <<>>]
           both == Empty(f, t) \ {k + 1}
<1>1. k \in 0..MaxFiles /\ k + 1 \in 1..t /\ k + 1 # k /\ t \in 0..MaxFiles
  OBVIOUS
<1>2. /\ h[k] = <<>> /\ h[k + 1] # <<>>
      /\ \A n \in 1..t : n # k /\ n # k + 1 => h[n] = f[n]
  BY <1>1 DEF Files
<1> HIDE DEF h
<1>3. IsFiniteSet(Empty(f, t)) /\ Cardinality(Empty(f, t)) \in Nat /\ k + 1 \in Empty(f, t)
  BY <1>1, EmptyFacts DEF Empty
<1>4. /\ IsFiniteSet(both) /\ Cardinality(both) = Cardinality(Empty(f, t)) - 1
      /\ k \notin both
  BY <1>3, FS_RemoveElement DEF Empty
<1>5. CASE k = 0
  <2>1. Empty(h, t) = both
    BY <1>1, <1>2, <1>5 DEF Empty
  <2> QED BY <1>4, <1>5, <2>1 DEF h
<1>6. CASE k # 0
  <2>1. k \in 1..t
    BY <1>1, <1>6
  <2>2. Empty(h, t) = both \cup {k}
    BY <1>1, <1>2, <2>1 DEF Empty
  <2>3. Cardinality(both \cup {k}) = Cardinality(both) + 1
    <3> HIDE DEF both
    <3> QED BY <1>4, FS_AddElement
  <2>4. Cardinality(Empty(h, t)) = Cardinality(Empty(f, t))
    <3> HIDE DEF both
    <3> QED BY <1>3, <1>4, <2>2, <2>3
  <2>5. Cardinality(Empty(h, t)) = Cardinality(Empty(f, t)) - (IF k = 0 THEN 1 ELSE 0)
    BY <1>3, <1>6, <2>4
  <2> QED BY <2>5 DEF h
<1> QED BY <1>5, <1>6

LEMMA InitGenerations == Init => GenerationsInv
<1> USE Bounds
<1> SUFFICES ASSUME Init PROVE GenerationsInv
  OBVIOUS
<1>1. \A g \in 1..MaxFiles : files[g] = <<>>
  BY DEF Init
<1>2. Kept = <<>> /\ Len(<<>>) = 0 /\ next - 1 = 0
  BY InitRefines, EmptySeq DEF RL!Init, Init
<1> QED BY <1>1, <1>2 DEF GenerationsInv

LEMMA StepGenerations ==
  ASSUME IInv, GenerationsInv, [Next]_vars
  PROVE  GenerationsInv'
<1> USE Bounds
<1>0. /\ files \in Files /\ i \in 0..MaxFiles - 1 /\ next \in Nat /\ faults \in Nat
  BY DEF IInv, TypeOK, Files
<1>1. /\ Kept = Down(files, 0) /\ Kept' = Down(files', 0)
      /\ Kept \in Seq(Record) /\ Len(Kept) \in Nat
  <2>1. (Kept = Down(files, 0))'
    BY KeptIsDown, PTL
  <2>2. Kept = Down(files, 0)
    BY KeptIsDown
  <2>3. Kept \in Seq(Record)
    BY <1>0, <2>2, DownFacts
  <2> QED BY <2>1, <2>2, <2>3, LenProperties
<1>2. \A t \in 0..MaxFiles : Cardinality(Empty(files, t)) \in Nat
  BY <1>0, EmptyFacts
<1>3. ASSUME UNCHANGED <<files, next>>, faults' \in Nat, faults' >= faults,
             pc = "shift" => (pc' = "shift" /\ i' = i) \/ faults' >= faults + 1
      PROVE  GenerationsInv'
  <2>1. Kept' = Kept
    BY <1>1, <1>3
  <2>2. \A g \in 1..MaxFiles : files'[g] # <<>> => Len(files'[g]) > MaxSize
    BY <1>3 DEF GenerationsInv
  <2>3. ASSUME NEW t \in 1..MaxFiles, files'[t] # <<>>
        PROVE  Cardinality(Empty(files', t - 1))
                 <= faults' + (IF pc' = "shift" /\ i' + 1 < t THEN 1 ELSE 0)
    <3>1. Cardinality(Empty(files, t - 1))
            <= faults + (IF pc = "shift" /\ i + 1 < t THEN 1 ELSE 0)
      BY <1>3, <2>3 DEF GenerationsInv
    <3>2. t - 1 \in 0..MaxFiles /\ Empty(files', t - 1) = Empty(files, t - 1)
      BY <1>3
    <3>3. Cardinality(Empty(files, t - 1)) \in Nat
      BY <1>2, <3>2
    <3> QED BY <1>0, <1>3, <3>1, <3>2, <3>3
  <2>4. ASSUME Len(Kept') < next' - 1
        PROVE  Cardinality(Empty(files', MaxFiles))
                 <= faults' + (IF pc' = "shift" THEN 1 ELSE 0)
    <3>1. Cardinality(Empty(files, MaxFiles)) <= faults + (IF pc = "shift" THEN 1 ELSE 0)
      BY <1>3, <2>1, <2>4 DEF GenerationsInv
    <3>2. Empty(files', MaxFiles) = Empty(files, MaxFiles)
      BY <1>3
    <3>3. Cardinality(Empty(files, MaxFiles)) \in Nat
      BY <1>2
    <3> QED BY <1>0, <1>3, <3>1, <3>2, <3>3
  <2> QED BY <2>2, <2>3, <2>4 DEF GenerationsInv
<1>4. ASSUME NEW ended \in BOOLEAN, Put(ended), pc = "write", pc' \in {"idle", "down"},
             faults' \in Nat, faults' >= faults
      PROVE  GenerationsInv'
  <2> DEFINE r == [id |-> next, ended |-> ended]
  <2>1. /\ r \in Record /\ files' = [files EXCEPT ![0] = Append(files[0], r)]
        /\ next' = next + 1
    <3>1. next <= MaxRecords
      BY <1>4 DEF IInv, RotationInv
    <3> QED BY <1>4, <3>1, PutFiles
  <2> HIDE DEF r
  <2>2. \A n \in 1..MaxFiles : files'[n] = files[n]
    BY <1>0, <2>1 DEF Files
  <2>3. Len(Kept') = Len(Kept) + 1
    <3>1. Kept' = Append(Kept, r)
      BY <1>0, <1>1, <2>1, PutIsLast
    <3> QED BY <1>1, <2>1, <3>1, AppendProperties
  <2>4. \A t \in 0..MaxFiles : Empty(files', t) = Empty(files, t)
    <3>1. \A t \in 0..MaxFiles : t \in Nat /\ \A n \in 1..t : n \in 1..MaxFiles
      OBVIOUS
    <3> QED BY <2>2, <3>1, SameEmpty
  <2>5. ASSUME NEW t \in 1..MaxFiles, files'[t] # <<>>
        PROVE  Cardinality(Empty(files', t - 1))
                 <= faults' + (IF pc' = "shift" /\ i' + 1 < t THEN 1 ELSE 0)
    <3>1. Cardinality(Empty(files, t - 1)) <= faults + 0
      BY <1>4, <2>2, <2>5 DEF GenerationsInv
    <3>2. t - 1 \in 0..MaxFiles
      OBVIOUS
    <3>3. Cardinality(Empty(files, t - 1)) \in Nat /\ Empty(files', t - 1) = Empty(files, t - 1)
      BY <1>2, <2>4, <3>2
    <3> QED BY <1>0, <1>4, <3>1, <3>3
  <2>6. ASSUME Len(Kept') < next' - 1
        PROVE  Cardinality(Empty(files', MaxFiles))
                 <= faults' + (IF pc' = "shift" THEN 1 ELSE 0)
    <3>1. Len(Kept) < next - 1
      BY <1>0, <1>1, <2>1, <2>3, <2>6
    <3>2. Cardinality(Empty(files, MaxFiles)) <= faults + 0
      BY <1>4, <3>1 DEF GenerationsInv
    <3>3. /\ Cardinality(Empty(files, MaxFiles)) \in Nat
          /\ Empty(files', MaxFiles) = Empty(files, MaxFiles)
      BY <1>2, <2>4
    <3> QED BY <1>0, <1>4, <3>2, <3>3
  <2>7. \A g \in 1..MaxFiles : files'[g] # <<>> => Len(files'[g]) > MaxSize
    BY <2>2 DEF GenerationsInv
  <2> QED BY <2>5, <2>6, <2>7 DEF GenerationsInv
<1>5. CASE RemoveOldest
  <2>1. /\ files' = [files EXCEPT ![MaxFiles] = <<>>] /\ pc = "remove" /\ pc' = "shift"
        /\ i' = MaxFiles - 1 /\ next' = next /\ faults' = faults
    BY <1>5 DEF RemoveOldest
  <2>2. /\ files' \in Files /\ files'[MaxFiles] = <<>>
        /\ \A n \in 0..MaxFiles - 1 : files'[n] = files[n]
    BY <1>0, <2>1, EmptySeq DEF Files
  <2>3. \A t \in 0..MaxFiles - 1 : Empty(files', t) = Empty(files, t)
    <3>1. \A t \in 0..MaxFiles - 1 : t \in Nat /\ \A n \in 1..t : n \in 0..MaxFiles - 1
      OBVIOUS
    <3> QED BY <2>2, <3>1, SameEmpty
  <2>4. \A g \in 1..MaxFiles : files'[g] # <<>> => Len(files'[g]) > MaxSize
    <3>1. \A g \in 1..MaxFiles : g # MaxFiles => g \in 0..MaxFiles - 1
      OBVIOUS
    <3> QED BY <2>2, <3>1 DEF GenerationsInv
  <2>5. ASSUME NEW t \in 1..MaxFiles, files'[t] # <<>>
        PROVE  Cardinality(Empty(files', t - 1))
                 <= faults' + (IF pc' = "shift" /\ i' + 1 < t THEN 1 ELSE 0)
    <3>1. t # MaxFiles /\ t \in 0..MaxFiles - 1 /\ t - 1 \in 0..MaxFiles - 1
      BY <2>2, <2>5
    <3>2. Cardinality(Empty(files, t - 1)) <= faults + 0
      BY <2>1, <2>2, <2>5, <3>1 DEF GenerationsInv
    <3>3. Cardinality(Empty(files, t - 1)) \in Nat /\ Empty(files', t - 1) = Empty(files, t - 1)
      BY <1>2, <2>3, <3>1
    <3> QED BY <1>0, <2>1, <3>2, <3>3
  <2>6. ASSUME Len(Kept') < next' - 1
        PROVE  Cardinality(Empty(files', MaxFiles)) <= faults + 1
    <3>1. /\ Cardinality(Empty(files', MaxFiles)) = Cardinality(Empty(files', MaxFiles - 1)) + 1
          /\ Cardinality(Empty(files, MaxFiles))
               = Cardinality(Empty(files, MaxFiles - 1)) + (IF files[MaxFiles] = <<>> THEN 1 ELSE 0)
          /\ Empty(files', MaxFiles - 1) = Empty(files, MaxFiles - 1)
      <4>1. MaxFiles \in 1..MaxFiles /\ MaxFiles - 1 \in 0..MaxFiles - 1
        OBVIOUS
      <4>2. Cardinality(Empty(files', MaxFiles))
              = Cardinality(Empty(files', MaxFiles - 1)) + (IF files'[MaxFiles] = <<>> THEN 1 ELSE 0)
        BY <2>2, <4>1, EmptyNext
      <4> QED BY <1>0, <2>2, <2>3, <4>1, <4>2, EmptyNext
    <3>2. Cardinality(Empty(files, MaxFiles - 1)) \in Nat /\ Cardinality(Empty(files, MaxFiles)) \in Nat
      BY <1>2
    <3>3. CASE files[MaxFiles] = <<>>
      <4>1. files' = files
        BY <1>0, <2>1, <3>3 DEF Files
      <4>2. Kept' = Kept
        BY <1>1, <4>1
      <4>3. Cardinality(Empty(files, MaxFiles)) <= faults + 0
        BY <2>1, <2>6, <4>2 DEF GenerationsInv
      <4> QED BY <1>0, <3>2, <4>1, <4>3
    <3>4. CASE files[MaxFiles] # <<>>
      <4>1. Cardinality(Empty(files, MaxFiles - 1)) <= faults + 0
        BY <2>1, <3>4 DEF GenerationsInv
      <4> QED BY <1>0, <3>1, <3>2, <4>1
    <3> QED BY <3>3, <3>4
  <2> QED BY <2>1, <2>4, <2>5, <2>6 DEF GenerationsInv
<1>6. CASE Shift
  <2>1. /\ pc = "shift" /\ next' = next /\ faults' = faults
        /\ IF i = 0 THEN pc' = "open" /\ i' = i ELSE i' = i - 1 /\ pc' = "shift"
    BY <1>6 DEF Shift
  <2>2. files[i + 1] = <<>> /\ Len(files[0]) > MaxSize
    BY <2>1 DEF IInv, RotationInv
  <2>3. files[0] # <<>> /\ files[0] \in Seq(Record)
    BY <1>0, <2>2, EmptySeq DEF Files
  <2>4. CASE files[i] = <<>>
    <3>1. files' = files /\ i # 0
      BY <1>6, <2>3, <2>4 DEF Shift
    <3>2. pc' = "shift" /\ i' = i - 1 /\ Kept' = Kept
      BY <1>1, <2>1, <3>1
    <3>3. ASSUME NEW t \in 1..MaxFiles, files'[t] # <<>>
          PROVE  Cardinality(Empty(files', t - 1))
                   <= faults' + (IF pc' = "shift" /\ i' + 1 < t THEN 1 ELSE 0)
      <4>1. Cardinality(Empty(files, t - 1))
              <= faults + (IF pc = "shift" /\ i + 1 < t THEN 1 ELSE 0)
        BY <3>1, <3>3 DEF GenerationsInv
      <4>2. t - 1 \in 0..MaxFiles
        OBVIOUS
      <4>3. Cardinality(Empty(files, t - 1)) \in Nat /\ Empty(files', t - 1) = Empty(files, t - 1)
        BY <1>2, <3>1, <4>2
      <4> QED BY <1>0, <2>1, <3>2, <4>1, <4>3
    <3>4. Empty(files', MaxFiles) = Empty(files, MaxFiles)
      BY <3>1
    <3> QED BY <2>1, <3>1, <3>2, <3>3, <3>4 DEF GenerationsInv
  <2>5. CASE files[i] # <<>>
    <3> DEFINE h == [files EXCEPT ![i + 1] = files[i], ![i] = <<>>]
    <3>1. files' = h
      BY <1>6, <2>5 DEF Shift
    <3>2. i \in 0..MaxFiles /\ i + 1 \in 0..MaxFiles /\ i + 1 # i
      BY <1>0
    <3>3. /\ files'[i] = <<>> /\ files'[i + 1] = files[i]
          /\ \A n \in 0..MaxFiles : n # i /\ n # i + 1 => files'[n] = files[n]
      BY <1>0, <3>1, <3>2 DEF Files
    <3>4. Kept' = Kept
      BY <1>0, <1>1, <2>2, <3>1, RenameKeeps
    <3>5. \A t \in i + 1..MaxFiles :
            Cardinality(Empty(files', t)) = Cardinality(Empty(files, t)) - (IF i = 0 THEN 1 ELSE 0)
      BY <1>0, <2>2, <2>5, <3>1, RenameEmpty
    <3>6. \A g \in 1..MaxFiles : files'[g] # <<>> => Len(files'[g]) > MaxSize
      <4>1. Len(files[i]) > MaxSize
        <5>1. i # 0 => i \in 1..MaxFiles
          BY <1>0
        <5> QED BY <2>2, <2>5, <5>1 DEF GenerationsInv
      <4>2. ASSUME NEW g \in 1..MaxFiles, files'[g] # <<>> PROVE Len(files'[g]) > MaxSize
        <5>1. g \in 0..MaxFiles
          OBVIOUS
        <5> QED BY <3>3, <4>1, <4>2, <5>1 DEF GenerationsInv
      <4> QED BY <4>2
    <3>7. ASSUME NEW t \in 1..MaxFiles, files'[t] # <<>>
          PROVE  Cardinality(Empty(files', t - 1))
                   <= faults' + (IF pc' = "shift" /\ i' + 1 < t THEN 1 ELSE 0)
      <4>1. t # i /\ t - 1 \in 0..MaxFiles /\ t \in 0..MaxFiles
        BY <3>3, <3>7
      <4>2. Cardinality(Empty(files, t - 1)) \in Nat
        BY <1>2, <4>1
      <4>3. CASE t < i
        <5>1. files[t] # <<>>
          BY <1>0, <3>3, <3>7, <4>1, <4>3
        <5>2. \A n \in 1..t - 1 : files'[n] = files[n]
          BY <1>0, <3>3, <4>3
        <5>3. Empty(files', t - 1) = Empty(files, t - 1)
          BY <4>1, <5>2, SameEmpty
        <5>4. Cardinality(Empty(files, t - 1))
                <= faults + (IF pc = "shift" /\ i + 1 < t THEN 1 ELSE 0)
          BY <5>1 DEF GenerationsInv
        <5>5. ~(i + 1 < t)
          BY <1>0, <4>3
        <5> QED BY <1>0, <2>1, <4>2, <5>3, <5>4, <5>5
      <4>4. CASE t = i + 1
        <5>1. CASE i = 0
          <6>1. t - 1 = 0
            BY <4>4, <5>1
          <6>2. /\ Cardinality(Empty(files, 0)) <= 0 /\ Cardinality(Empty(files, 0)) \in Nat
                /\ Empty(files', 0) = Empty(files, 0)
            <7>1. \A n \in 1..0 : files'[n] = files[n]
              OBVIOUS
            <7> QED BY <1>0, <7>1, EmptyFacts, SameEmpty
          <6> QED BY <1>0, <2>1, <6>1, <6>2
        <5>2. CASE i # 0
          <6>1. i \in 1..MaxFiles /\ t - 1 = i /\ i - 1 \in 0..MaxFiles
            BY <1>0, <4>4, <5>2
          <6>2. Cardinality(Empty(files, i - 1)) <= faults /\ Cardinality(Empty(files, i - 1)) \in Nat
            <7>1. Cardinality(Empty(files, i - 1))
                    <= faults + (IF pc = "shift" /\ i + 1 < i THEN 1 ELSE 0)
              BY <2>5, <6>1 DEF GenerationsInv
            <7>2. Cardinality(Empty(files, i - 1)) \in Nat /\ ~(i + 1 < i)
              BY <1>0, <1>2, <6>1
            <7> QED BY <1>0, <7>1, <7>2
          <6>3. Cardinality(Empty(files', i)) = Cardinality(Empty(files', i - 1)) + 1
            <7>1. files' \in Files
              BY <1>0, <3>1, <3>2, EmptySeq DEF Files
            <7>2. Cardinality(Empty(files', i))
                    = Cardinality(Empty(files', i - 1)) + (IF files'[i] = <<>> THEN 1 ELSE 0)
              BY <6>1, <7>1, EmptyNext
            <7> QED BY <3>3, <7>2
          <6>4. Empty(files', i - 1) = Empty(files, i - 1)
            <7>1. \A n \in 1..i - 1 : files'[n] = files[n]
              BY <1>0, <3>3
            <7> QED BY <6>1, <7>1, SameEmpty
          <6>5. pc' = "shift" /\ i' + 1 < t /\ faults' = faults
            BY <1>0, <2>1, <4>4, <5>2
          <6> QED BY <1>0, <6>1, <6>2, <6>3, <6>4, <6>5
        <5> QED BY <5>1, <5>2
      <4>5. CASE t > i + 1
        <5>1. files[t] # <<>>
          BY <1>0, <3>3, <3>7, <4>1, <4>5
        <5>2. Cardinality(Empty(files, t - 1)) <= faults + 1
          <6>1. Cardinality(Empty(files, t - 1))
                  <= faults + (IF pc = "shift" /\ i + 1 < t THEN 1 ELSE 0)
            BY <5>1 DEF GenerationsInv
          <6> QED BY <1>0, <4>2, <6>1
        <5>3. t - 1 \in i + 1..MaxFiles
          BY <1>0, <4>5
        <5>4. Cardinality(Empty(files', t - 1))
                = Cardinality(Empty(files, t - 1)) - (IF i = 0 THEN 1 ELSE 0)
          BY <3>5, <5>3
        <5>5. i # 0 => pc' = "shift" /\ i' + 1 < t
          BY <1>0, <2>1, <4>5
        <5> QED BY <1>0, <2>1, <4>2, <5>2, <5>4, <5>5
      <4> QED BY <1>0, <4>1, <4>3, <4>4, <4>5
    <3>8. ASSUME Len(Kept') < next' - 1
          PROVE  Cardinality(Empty(files', MaxFiles))
                   <= faults' + (IF pc' = "shift" THEN 1 ELSE 0)
      <4>1. Cardinality(Empty(files, MaxFiles)) <= faults + 1
        BY <2>1, <3>4, <3>8 DEF GenerationsInv
      <4>2. Cardinality(Empty(files, MaxFiles)) \in Nat /\ MaxFiles \in i + 1..MaxFiles
        BY <1>0, <1>2
      <4>3. Cardinality(Empty(files', MaxFiles))
              = Cardinality(Empty(files, MaxFiles)) - (IF i = 0 THEN 1 ELSE 0)
        BY <3>5, <4>2
      <4> QED BY <1>0, <2>1, <4>1, <4>2, <4>3
    <3> QED BY <3>6, <3>7, <3>8 DEF GenerationsInv
  <2> QED BY <2>4, <2>5
<1>7. CASE WriteRecord \/ Kill
  <2>1. /\ \/ UNCHANGED <<files, next>>
           \/ pc = "write" /\ \E ended \in BOOLEAN : Put(ended)
        /\ pc' \in {"idle", "down"}
    BY <1>7 DEF WriteRecord, Kill
  <2>2. faults' \in Nat /\ faults' >= faults /\ (pc = "shift" => faults' >= faults + 1)
    <3>1. (faults' = faults /\ pc = "write") \/ faults' = faults + 1
      BY <1>7 DEF WriteRecord, Kill, Fault
    <3> QED BY <1>0, <3>1
  <2> QED BY <1>3, <1>4, <2>1, <2>2
<1>8. CASE UNCHANGED vars \/ Start \/ Stop \/ BeginWrite \/ RotationFails \/ Reopen \/ WriteRefused
  <2>1. UNCHANGED <<files, next>>
    BY <1>8 DEF vars, Start, Stop, BeginWrite, RotationFails, Reopen, WriteRefused
  <2>2. /\ faults' \in Nat /\ faults' >= faults
        /\ pc = "shift" => (pc' = "shift" /\ i' = i) \/ faults' >= faults + 1
    BY <1>0, <1>8 DEF vars, Start, Stop, BeginWrite, RotationFails, Reopen, WriteRefused, Fault
  <2> QED BY <1>3, <2>1, <2>2
<1> QED BY <1>5, <1>6, <1>7, <1>8 DEF Next
\* The lines that were cut short.
Cut(f) ==
  {line \in (0..MaxFiles) \X (1..MaxRecords) :
     line[2] <= Len(f[line[1]]) /\ ~f[line[1]][line[2]].ended}

CutInv == IsFiniteSet(Cut(files)) /\ Cardinality(Cut(files)) <= faults

\* A function maps a finite set to one that is no larger.
LEMMA ImageCardinality ==
  ASSUME NEW S, IsFiniteSet(S), NEW f
  PROVE  /\ IsFiniteSet({f[x] : x \in S})
         /\ Cardinality({f[x] : x \in S}) <= Cardinality(S)
<1> DEFINE T == {f[x] : x \in S}
           g == [x \in S |-> f[x]]
<1>1. g \in Surjection(S, T)
  BY DEF Surjection
<1> QED BY <1>1, FS_Surjection

LEMMA Lines ==
  \A line \in (0..MaxFiles) \X (1..MaxRecords) :
    line[1] \in 0..MaxFiles /\ line[2] \in 1..MaxRecords /\ line = <<line[1], line[2]>>
OBVIOUS

\* A record put into the log is at most one more line cut short, and none if it
\* ended its line.
LEMMA PutCut ==
  ASSUME NEW f \in Files, NEW r \in Record
  PROVE  Cut([f EXCEPT ![0] = Append(f[0], r)])
           \subseteq Cut(f) \cup (IF r.ended THEN {} ELSE {<<0, Len(f[0]) + 1>>})
<1> USE Bounds
<1> DEFINE h == [f EXCEPT ![0] = Append(f[0], r)]
<1>1. /\ f[0] \in Seq(Record) /\ Len(f[0]) \in Nat
      /\ Len(Append(f[0], r)) = Len(f[0]) + 1
      /\ \A k \in 1..Len(f[0]) : Append(f[0], r)[k] = f[0][k]
      /\ Append(f[0], r)[Len(f[0]) + 1] = r
  <2>1. f[0] \in Seq(Record)
    BY DEF Files
  <2> QED BY <2>1, AppendProperties, LenProperties
<1>2. h[0] = Append(f[0], r) /\ \A g \in 0..MaxFiles : g # 0 => h[g] = f[g]
  BY DEF Files
<1> HIDE DEF h
<1>3. ASSUME NEW line \in Cut(h)
      PROVE  line \in Cut(f) \cup (IF r.ended THEN {} ELSE {<<0, Len(f[0]) + 1>>})
  <2>1. /\ line \in (0..MaxFiles) \X (1..MaxRecords)
        /\ line[2] <= Len(h[line[1]]) /\ ~h[line[1]][line[2]].ended
    BY DEF Cut
  <2>2. line[1] \in 0..MaxFiles /\ line[2] \in 1..MaxRecords /\ line = <<line[1], line[2]>>
    BY <2>1, Lines
  <2>3. CASE line[1] # 0
    BY <1>2, <2>1, <2>2, <2>3 DEF Cut
  <2>4. CASE line[1] = 0 /\ line[2] = Len(f[0]) + 1
    <3>1. ~r.ended
      BY <1>1, <1>2, <2>1, <2>4
    <3> QED BY <2>2, <2>4, <3>1
  <2>5. CASE line[1] = 0 /\ line[2] # Len(f[0]) + 1
    <3>1. line[2] \in 1..Len(f[0])
      BY <1>1, <1>2, <2>1, <2>2, <2>5
    <3>2. ~f[0][line[2]].ended
      BY <1>1, <1>2, <2>1, <2>5, <3>1
    <3>3. line[2] <= Len(f[0])
      BY <1>1, <3>1
    <3> QED BY <2>1, <2>5, <3>2, <3>3 DEF Cut
  <2> QED BY <2>3, <2>4, <2>5
<1> QED BY <1>3 DEF h

\* A rename takes the lines cut short with it.
LEMMA RenameCut ==
  ASSUME NEW f \in Files, NEW k \in 0..MaxFiles - 1, IsFiniteSet(Cut(f))
  PROVE  LET h == [f EXCEPT ![k + 1] = f[k], ![k] = <<>>]
         IN  IsFiniteSet(Cut(h)) /\ Cardinality(Cut(h)) <= Cardinality(Cut(f))
<1> USE Bounds
<1> DEFINE h == [f EXCEPT ![k + 1] = f[k], ![k] = <<>>]
           moved == [line \in (0..MaxFiles) \X (1..MaxRecords) |->
                       IF line[1] = k THEN <<k + 1, line[2]>> ELSE line]
           image == {moved[line] : line \in Cut(f)}
<1>1. k \in 0..MaxFiles /\ k + 1 \in 0..MaxFiles /\ k + 1 # k
  OBVIOUS
<1>2. /\ h[k] = <<>> /\ h[k + 1] = f[k]
      /\ \A n \in 0..MaxFiles : n # k /\ n # k + 1 => h[n] = f[n]
  BY <1>1 DEF Files
<1> HIDE DEF h
<1>3. ASSUME NEW line \in Cut(h)
      PROVE  line \in image
  <2>1. /\ line \in (0..MaxFiles) \X (1..MaxRecords)
        /\ line[2] <= Len(h[line[1]]) /\ ~h[line[1]][line[2]].ended
    BY DEF Cut
  <2>2. line[1] \in 0..MaxFiles /\ line[2] \in 1..MaxRecords /\ line = <<line[1], line[2]>>
    BY <2>1, Lines
  <2>3. line[1] # k
    <3>1. Len(<<>>) = 0
      BY EmptySeq
    <3> QED BY <1>2, <2>1, <2>2, <3>1
  <2>4. CASE line[1] = k + 1
    <3> DEFINE was == <<k, line[2]>>
    <3>1. was \in (0..MaxFiles) \X (1..MaxRecords) /\ was[1] = k /\ was[2] = line[2]
      BY <1>1, <2>2
    <3>2. was \in Cut(f)
      BY <1>2, <2>1, <2>4, <3>1 DEF Cut
    <3>3. moved[was] = line
      BY <2>2, <2>4, <3>1
    <3> QED BY <3>2, <3>3
  <2>5. CASE line[1] # k + 1
    <3>1. line \in Cut(f)
      BY <1>2, <2>1, <2>2, <2>3, <2>5 DEF Cut
    <3>2. moved[line] = line
      BY <2>1, <2>3
    <3> QED BY <3>1, <3>2
  <2> QED BY <2>4, <2>5
<1>4. IsFiniteSet(image) /\ Cardinality(image) <= Cardinality(Cut(f))
  <2> HIDE DEF moved
  <2> QED BY ImageCardinality
<1>5. Cut(h) \subseteq image
  BY <1>3
<1>6. IsFiniteSet(Cut(h)) /\ Cardinality(Cut(h)) <= Cardinality(image)
  <2> HIDE DEF image
  <2> QED BY <1>4, <1>5, FS_Subset
<1>7. /\ Cardinality(Cut(h)) \in Nat /\ Cardinality(image) \in Nat
      /\ Cardinality(Cut(f)) \in Nat
  BY <1>4, <1>6, FS_CardinalityType
<1>8. Cardinality(Cut(h)) <= Cardinality(Cut(f))
  <2> HIDE DEF image
  <2> QED BY <1>4, <1>6, <1>7
<1> QED BY <1>6, <1>8 DEF h

LEMMA InitCut == Init => CutInv
<1> USE Bounds
<1> SUFFICES ASSUME Init PROVE CutInv
  OBVIOUS
<1>1. Cut(files) = {}
  <2>1. \A line \in (0..MaxFiles) \X (1..MaxRecords) : ~(line[2] <= Len(files[line[1]]))
    <3>1. \A g \in 0..MaxFiles : Len(files[g]) = 0
      BY EmptySeq DEF Init
    <3> QED BY <3>1, Lines
  <2> QED BY <2>1 DEF Cut
<1>2. faults = 0
  BY DEF Init
<1> QED BY <1>1, <1>2, FS_EmptySet DEF CutInv

LEMMA StepCut ==
  ASSUME IInv, CutInv, [Next]_vars
  PROVE  CutInv'
<1> USE Bounds
<1>0. /\ files \in Files /\ i \in 0..MaxFiles - 1 /\ next \in Nat /\ faults \in Nat
  BY DEF IInv, TypeOK, Files
<1>1. /\ IsFiniteSet(Cut(files)) /\ Cardinality(Cut(files)) \in Nat
      /\ Cardinality(Cut(files)) <= faults
  BY FS_CardinalityType DEF CutInv
<1>2. ASSUME faults' \in Nat, faults' >= faults,
             Cut(files') \subseteq Cut(files)
      PROVE  CutInv'
  <2>1. /\ IsFiniteSet(Cut(files')) /\ Cardinality(Cut(files')) <= Cardinality(Cut(files))
        /\ Cardinality(Cut(files')) \in Nat
    BY <1>1, <1>2, FS_Subset, FS_CardinalityType
  <2>2. Cardinality(Cut(files')) <= faults'
    BY <1>0, <1>1, <1>2, <2>1
  <2> QED BY <2>1, <2>2 DEF CutInv
<1>3. ASSUME NEW ended \in BOOLEAN, Put(ended), pc = "write",
             faults' = faults \/ faults' = faults + 1, ~ended => faults' = faults + 1
      PROVE  CutInv'
  <2> DEFINE r == [id |-> next, ended |-> ended]
             new == <<0, Len(files[0]) + 1>>
  <2>1. /\ r \in Record /\ r.ended = ended
        /\ files' = [files EXCEPT ![0] = Append(files[0], r)]
    <3>1. next <= MaxRecords
      BY <1>3 DEF IInv, RotationInv
    <3> QED BY <1>3, <3>1, PutFiles
  <2> HIDE DEF r
  <2>2. Cut(files') \subseteq Cut(files) \cup (IF ended THEN {} ELSE {new})
    BY <1>0, <2>1, PutCut
  <2> HIDE DEF new
  <2>3. CASE ended
    <3>1. faults' \in Nat /\ faults' >= faults
      BY <1>0, <1>3
    <3> QED BY <1>2, <2>2, <2>3, <3>1
  <2>4. CASE ~ended
    <3> DEFINE more == Cut(files) \cup {new}
    <3>1. /\ IsFiniteSet(more)
          /\ Cardinality(more)
               = IF new \in Cut(files) THEN Cardinality(Cut(files)) ELSE Cardinality(Cut(files)) + 1
      BY <1>1, FS_AddElement
    <3>2. Cut(files') \subseteq more
      BY <2>2, <2>4
    <3> HIDE DEF more
    <3>3. /\ IsFiniteSet(Cut(files')) /\ Cardinality(Cut(files')) <= Cardinality(more)
          /\ Cardinality(Cut(files')) \in Nat
      BY <3>1, <3>2, FS_Subset, FS_CardinalityType
    <3>4. Cardinality(more) \in Nat /\ Cardinality(more) <= Cardinality(Cut(files)) + 1
      BY <1>1, <3>1
    <3>5. Cardinality(Cut(files')) <= faults'
      BY <1>0, <1>1, <1>3, <2>4, <3>3, <3>4
    <3> QED BY <3>3, <3>5 DEF CutInv
  <2> QED BY <2>3, <2>4
<1>4. CASE RemoveOldest
  <2>1. files' = [files EXCEPT ![MaxFiles] = <<>>] /\ faults' = faults
    BY <1>4 DEF RemoveOldest
  <2>2. files'[MaxFiles] = <<>> /\ \A g \in 0..MaxFiles : g # MaxFiles => files'[g] = files[g]
    BY <1>0, <2>1 DEF Files
  <2>3. ASSUME NEW line \in Cut(files') PROVE line \in Cut(files)
    <3>1. /\ line \in (0..MaxFiles) \X (1..MaxRecords)
          /\ line[2] <= Len(files'[line[1]]) /\ ~files'[line[1]][line[2]].ended
      BY DEF Cut
    <3>2. line[1] \in 0..MaxFiles /\ line[2] \in 1..MaxRecords
      BY <3>1, Lines
    <3>3. line[1] # MaxFiles
      <4>1. Len(<<>>) = 0
        BY EmptySeq
      <4> QED BY <2>2, <3>1, <3>2, <4>1
    <3> QED BY <2>2, <3>1, <3>2, <3>3 DEF Cut
  <2>4. faults' \in Nat /\ faults' >= faults
    BY <1>0, <2>1
  <2> QED BY <1>2, <2>3, <2>4
<1>5. CASE Shift
  <2>1. faults' = faults
    BY <1>5 DEF Shift
  <2>2. CASE files[i] = <<>>
    <3>1. files' = files
      BY <1>5, <2>2 DEF Shift
    <3> QED BY <2>1, <3>1 DEF CutInv
  <2>3. CASE files[i] # <<>>
    <3>1. files' = [files EXCEPT ![i + 1] = files[i], ![i] = <<>>]
      BY <1>5, <2>3 DEF Shift
    <3>2. IsFiniteSet(Cut(files')) /\ Cardinality(Cut(files')) <= Cardinality(Cut(files))
      BY <1>0, <1>1, <3>1, RenameCut
    <3>3. Cardinality(Cut(files')) \in Nat
      BY <3>2, FS_CardinalityType
    <3>4. Cardinality(Cut(files')) <= faults'
      BY <1>0, <1>1, <2>1, <3>2, <3>3
    <3> QED BY <3>2, <3>4 DEF CutInv
  <2> QED BY <2>2, <2>3
<1>6. CASE WriteRecord \/ Kill
  <2>1. faults' = faults \/ faults' = faults + 1
    BY <1>6 DEF WriteRecord, Kill, Fault
  <2>2. \/ UNCHANGED files
        \/ pc = "write" /\ \E ended \in BOOLEAN : Put(ended) /\ (~ended => faults' = faults + 1)
    BY <1>6 DEF WriteRecord, Kill, Fault
  <2>3. CASE UNCHANGED files
    <3>1. faults' \in Nat /\ faults' >= faults
      BY <1>0, <2>1
    <3>2. Cut(files') \subseteq Cut(files)
      BY <2>3
    <3> QED BY <1>2, <3>1, <3>2
  <2> QED BY <1>3, <2>1, <2>2, <2>3
<1>7. CASE UNCHANGED vars \/ Start \/ Stop \/ BeginWrite \/ RotationFails \/ Reopen \/ WriteRefused
  <2>1. faults' = faults \/ faults' = faults + 1
    BY <1>7 DEF vars, Start, Stop, BeginWrite, RotationFails, Reopen, WriteRefused, Fault
  <2>2. files' = files
    BY <1>7 DEF vars, Start, Stop, BeginWrite, RotationFails, Reopen, WriteRefused
  <2>3. faults' \in Nat /\ faults' >= faults
    BY <1>0, <2>1
  <2>4. Cut(files') \subseteq Cut(files)
    BY <2>2
  <2> QED BY <1>2, <2>3, <2>4
<1> QED BY <1>4, <1>5, <1>6, <1>7 DEF Next

\* A line that cannot be read was cut short, or follows one that was.
LEMMA UnreadableBound ==
  ASSUME IInv, CutInv
  PROVE  Cardinality(Unreadable) <= 2 * faults
<1> USE Bounds
<1> DEFINE after == [line \in (0..MaxFiles) \X (1..MaxRecords) |-> <<line[1], line[2] + 1>>]
           image == {after[line] : line \in Cut(files)}
<1>0. files \in Files /\ faults \in Nat
  BY DEF IInv, TypeOK, Files
<1>1. /\ IsFiniteSet(Cut(files)) /\ Cardinality(Cut(files)) \in Nat
      /\ Cardinality(Cut(files)) <= faults
  BY FS_CardinalityType DEF CutInv
<1>2. /\ IsFiniteSet(image) /\ Cardinality(image) <= Cardinality(Cut(files))
      /\ Cardinality(image) \in Nat
  <2>1. IsFiniteSet(image) /\ Cardinality(image) <= Cardinality(Cut(files))
    <3> HIDE DEF after
    <3> QED BY <1>1, ImageCardinality
  <2> QED BY <2>1, FS_CardinalityType
<1>3. ASSUME NEW line \in Unreadable PROVE line \in Cut(files) \cup image
  <2>1. /\ line \in (0..MaxFiles) \X (1..MaxRecords)
        /\ line[2] <= Len(files[line[1]])
        /\ ~files[line[1]][line[2]].ended \/ (line[2] > 1 /\ ~files[line[1]][line[2] - 1].ended)
    BY DEF Unreadable
  <2>2. line[1] \in 0..MaxFiles /\ line[2] \in 1..MaxRecords /\ line = <<line[1], line[2]>>
    BY <2>1, Lines
  <2>3. CASE ~files[line[1]][line[2]].ended
    BY <2>1, <2>3 DEF Cut
  <2>4. CASE line[2] > 1 /\ ~files[line[1]][line[2] - 1].ended
    <3> DEFINE before == <<line[1], line[2] - 1>>
    <3>1. Len(files[line[1]]) \in Nat
      <4>1. files[line[1]] \in Seq(Record)
        BY <1>0, <2>2 DEF Files
      <4> QED BY <4>1, LenProperties
    <3>2. /\ before \in (0..MaxFiles) \X (1..MaxRecords)
          /\ before[1] = line[1] /\ before[2] = line[2] - 1
      BY <2>2, <2>4
    <3>3. before[2] <= Len(files[line[1]]) /\ before[2] + 1 = line[2]
      BY <2>1, <2>2, <3>1, <3>2
    <3>4. before \in Cut(files)
      BY <2>4, <3>2, <3>3 DEF Cut
    <3>5. after[before] = line
      BY <2>2, <3>2, <3>3
    <3> QED BY <3>4, <3>5
  <2> QED BY <2>1, <2>3, <2>4
<1> HIDE DEF image
<1>4. /\ IsFiniteSet(Cut(files) \cup image)
      /\ Cardinality(Cut(files) \cup image)
           = Cardinality(Cut(files)) + Cardinality(image) - Cardinality(Cut(files) \cap image)
  BY <1>1, <1>2, FS_Union
<1>5. Cardinality(Cut(files) \cap image) \in Nat /\ Cardinality(Cut(files) \cup image) \in Nat
  <2>1. IsFiniteSet(Cut(files) \cap image)
    BY <1>1, FS_Intersection
  <2> QED BY <1>4, <2>1, FS_CardinalityType
<1>6. /\ Cardinality(Unreadable) \in Nat
      /\ Cardinality(Unreadable) <= Cardinality(Cut(files) \cup image)
  <2>1. Unreadable \subseteq Cut(files) \cup image
    BY <1>3
  <2> QED BY <1>4, <2>1, FS_Subset, FS_CardinalityType
<1> QED BY <1>0, <1>1, <1>2, <1>4, <1>5, <1>6

\* The generations that are not full are the empty ones.
LEMMA FullBound ==
  ASSUME IInv, GenerationsInv, Len(Kept) < next - 1
  PROVE  Cardinality({g \in 1..MaxFiles : Len(files[g]) > MaxSize})
           + faults + (IF pc = "shift" THEN 1 ELSE 0) >= MaxFiles
<1> USE Bounds
<1> DEFINE full == {g \in 1..MaxFiles : Len(files[g]) > MaxSize}
<1>0. files \in Files /\ faults \in Nat
  BY DEF IInv, TypeOK, Files
<1>1. full = (1..MaxFiles) \ Empty(files, MaxFiles)
  <2>1. Len(<<>>) = 0
    BY EmptySeq
  <2> QED BY <2>1 DEF GenerationsInv, Empty
<1>2. IsFiniteSet(1..MaxFiles) /\ Cardinality(1..MaxFiles) = MaxFiles
  <2>1. 1 \in Int /\ MaxFiles \in Int /\ ~(1 > MaxFiles) /\ MaxFiles - 1 + 1 = MaxFiles
    OBVIOUS
  <2> QED BY <2>1, FS_Interval
<1>3. /\ Empty(files, MaxFiles) \in SUBSET (1..MaxFiles)
      /\ Cardinality(Empty(files, MaxFiles)) \in Nat
  BY <1>0, EmptyFacts
<1>4. Cardinality(full) = MaxFiles - Cardinality((1..MaxFiles) \cap Empty(files, MaxFiles))
  BY <1>1, <1>2, FS_Difference
<1>5. (1..MaxFiles) \cap Empty(files, MaxFiles) = Empty(files, MaxFiles)
  BY <1>3
<1>6. Cardinality(Empty(files, MaxFiles)) <= faults + (IF pc = "shift" THEN 1 ELSE 0)
  BY DEF GenerationsInv
<1> HIDE DEF full
<1>7. Cardinality(full) = MaxFiles - Cardinality(Empty(files, MaxFiles))
  BY <1>4, <1>5
<1>8. Cardinality(full) + faults + (IF pc = "shift" THEN 1 ELSE 0) >= MaxFiles
  BY <1>0, <1>3, <1>6, <1>7
<1> QED BY <1>8 DEF full

\* Failing calls and kills in a rotation cost an operator few of the records that
\* were accepted (of those refused nothing is said): they go only when there are
\* as many full generations as were asked for, less one for each fault, and a fault
\* makes two lines unreadable at most (http_audit.go).
THEOREM FaultsDoCostLittle == Spec => []FaultsCostLittle
<1>1. Init => IInv /\ GenerationsInv /\ CutInv
  BY InitInv, InitGenerations, InitCut
<1>2. IInv /\ GenerationsInv /\ CutInv /\ [Next]_vars => (IInv /\ GenerationsInv /\ CutInv)'
  BY StepInv, StepGenerations, StepCut
<1>3. IInv /\ GenerationsInv /\ CutInv => FaultsCostLittle
  BY FullBound, UnreadableBound DEF FaultsCostLittle
<1> QED BY <1>1, <1>2, <1>3, PTL DEF Spec
=============================================================================
