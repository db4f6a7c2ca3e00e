-------------------------- MODULE StateFiles_proofs --------------------------
(***************************************************************************)
(* Proofs about StateFiles, for any list of older places and any number of *)
(* saves. Type correctness holds for any number of processes, because none *)
(* ever touches an older copy but to remove it (CopiesInv). That the state *)
(* file always parses holds for one process at a time: it follows the      *)
(* temporary file from its creation to its rename (SaveInv).               *)
(***************************************************************************)
EXTENDS StateFiles, FiniteSetTheorems, WellFoundedInduction, TLAPS

\* No two names are one file; an older copy holds what an older release wrote,
\* and nobody has it open for writing.
CopiesInv ==
  /\ \A m, n \in Names : dir[m] = dir[n] /\ dir[m] # Missing => m = n
  /\ \A i \in DOMAIN Fallbacks :
       dir[Fallbacks[i]] # Missing =>
         /\ content[dir[Fallbacks[i]]] \in Versions
         /\ \A p \in Procs : proc[p].fd # dir[Fallbacks[i]]
  /\ \A p \in Procs :
       /\ proc[p].pc \in {"recheck", "readSource"} => proc[p].at <= Len(Fallbacks)
       /\ proc[p].pc = "write" <=> proc[p].fd # Missing

\* What the temporary file is while it is written and when it is renamed.
SaveInv ==
  \A p \in Procs :
    /\ proc[p].pc \in {"open", "write"} => proc[p].data \in Versions
    /\ proc[p].pc = "write" => proc[p].fd = dir["tmp"] /\ content[proc[p].fd] = Empty
    /\ proc[p].pc = "rename" => dir["tmp"] # Missing /\ content[dir["tmp"]] \in Versions

OneProcess == \A p, q \in Procs : p = q

-----------------------------------------------------------------------------
(* Names and inodes                                                        *)

LEMMA ImageCardinality ==
  ASSUME NEW S, IsFiniteSet(S), NEW f
  PROVE  /\ IsFiniteSet({f[x] : x \in S})
         /\ Cardinality({f[x] : x \in S}) <= Cardinality(S)
<1> DEFINE T == {f[x] : x \in S}
           g == [x \in S |-> f[x]]
<1>1. g \in Surjection(S, T)
  BY DEF Surjection
<1> QED BY <1>1, FS_Surjection

\* The names are different ones, and there is one for each older copy.
LEMMA NameFacts ==
  /\ Len(Fallbacks) \in Nat /\ DOMAIN Fallbacks = 1..Len(Fallbacks)
  /\ \A i \in DOMAIN Fallbacks :
       Fallbacks[i] \in Names /\ Fallbacks[i] # "target" /\ Fallbacks[i] # "tmp"
  /\ "target" \in Names /\ "tmp" \in Names
  /\ IsFiniteSet(Names) /\ Cardinality(Names) \in Nat /\ Len(Fallbacks) <= Cardinality(Names)
  /\ Cardinality(Procs) \in Nat
<1>1. /\ Len(Fallbacks) \in Nat /\ DOMAIN Fallbacks = 1..Len(Fallbacks)
  BY FilesAssumption DEF FilesAssumption
<1>2. /\ \A i \in DOMAIN Fallbacks :
           Fallbacks[i] \in Names /\ Fallbacks[i] # "target" /\ Fallbacks[i] # "tmp"
      /\ "target" \in Names /\ "tmp" \in Names
  BY FilesAssumption DEF FilesAssumption, Names
<1>3. IsFiniteSet(DOMAIN Fallbacks) /\ Cardinality(DOMAIN Fallbacks) = Len(Fallbacks)
  <2>1. 1 \in Int /\ Len(Fallbacks) \in Int
    BY <1>1
  <2>2. /\ IsFiniteSet(1..Len(Fallbacks))
        /\ Cardinality(1..Len(Fallbacks)) =
             IF 1 > Len(Fallbacks) THEN 0 ELSE Len(Fallbacks) - 1 + 1
    BY <2>1, FS_Interval
  <2> QED BY <1>1, <2>2
<1>4. IsFiniteSet({Fallbacks[i] : i \in DOMAIN Fallbacks})
  BY <1>3, ImageCardinality
<1>5. IsFiniteSet({"target", "tmp"})
  <2>1. {"target", "tmp"} = {"target"} \cup {"tmp"}
    OBVIOUS
  <2>2. IsFiniteSet({"target"}) /\ IsFiniteSet({"tmp"})
    BY FS_Singleton
  <2> QED BY <2>1, <2>2, FS_Union
<1>6. IsFiniteSet(Names)
  BY <1>4, <1>5, FS_Union DEF Names
<1>7. Cardinality(Names) \in Nat /\ Cardinality(Procs) \in Nat
  BY <1>6, FilesAssumption, FS_CardinalityType DEF FilesAssumption
<1>8. Fallbacks \in Injection(DOMAIN Fallbacks, Names)
  <2>1. Fallbacks \in [DOMAIN Fallbacks -> Names]
    BY <1>1, <1>2, FilesAssumption DEF FilesAssumption
  <2>2. \A i, j \in DOMAIN Fallbacks : Fallbacks[i] = Fallbacks[j] => i = j
    BY FilesAssumption DEF FilesAssumption
  <2> QED BY <2>1, <2>2 DEF Injection, IsInjective
<1>9. Cardinality(DOMAIN Fallbacks) <= Cardinality(Names)
  BY <1>6, <1>8, FS_Injection
<1> QED BY <1>1, <1>2, <1>3, <1>6, <1>7, <1>9

\* There is an inode for a new temporary file.
LEMMA UnusedInode ==
  ASSUME TypeOK, dir["tmp"] = Missing
  PROVE  (CHOOSE i \in Unused : TRUE) \in Unused
<1> DEFINE named == {dir[n] : n \in Names \ {"tmp"}}
           fds == [p \in Procs |-> proc[p].fd]
           open == {fds[p] : p \in Procs}
<1>1. /\ IsFiniteSet(Names \ {"tmp"})
      /\ Cardinality(Names \ {"tmp"}) = Cardinality(Names) - 1
  BY NameFacts, FS_RemoveElement
<1>2. IsFiniteSet(named) /\ Cardinality(named) <= Cardinality(Names) - 1
  BY <1>1, ImageCardinality
<1>3. IsFiniteSet(open) /\ Cardinality(open) <= Cardinality(Procs)
  BY FilesAssumption, ImageCardinality DEF FilesAssumption
<1>4. /\ Cardinality(named) \in Nat /\ Cardinality(open) \in Nat
      /\ Cardinality(named \cap open) \in Nat
  <2>1. IsFiniteSet(named \cap open)
    BY <1>2, FS_Intersection
  <2> QED BY <1>2, <1>3, <2>1, FS_CardinalityType
<1>5. /\ IsFiniteSet(named \cup open)
      /\ Cardinality(named \cup open) <= Cardinality(Names) - 1 + Cardinality(Procs)
  <2>1. /\ IsFiniteSet(named \cup open)
        /\ Cardinality(named \cup open)
             = Cardinality(named) + Cardinality(open) - Cardinality(named \cap open)
    BY <1>2, <1>3, FS_Union
  <2> HIDE DEF named, open
  <2> QED BY <1>2, <1>3, <1>4, <2>1, NameFacts
<1>6. Cardinality(Inodes) = Cardinality(Names) + Cardinality(Procs)
  BY NameFacts, FS_Interval DEF Inodes
<1>7. ~(Inodes \subseteq named \cup open)
  <2> SUFFICES ASSUME Inodes \subseteq named \cup open PROVE FALSE
    OBVIOUS
  <2>1. Cardinality(Inodes) <= Cardinality(named \cup open)
    BY <1>5, FS_Subset
  <2>2. Cardinality(named \cup open) \in Nat
    BY <1>5, FS_CardinalityType
  <2> HIDE DEF named, open
  <2> QED BY <1>5, <1>6, <2>1, <2>2, NameFacts
<1>8. PICK i \in Inodes : i \notin named \cup open
  BY <1>7
<1>9. i # Missing
  BY NameFacts DEF Inodes, Missing
<1>10. i \in Unused
  BY <1>8, <1>9 DEF Unused
<1> QED BY <1>10

-----------------------------------------------------------------------------
(* Type correctness and the older copies                                   *)

\* The type of a process, named so that it need not be expanded.
ProcType ==
  [cmd : Commands \cup {"none"}, pc : Pcs, at : 1..(Len(Fallbacks) + 2),
   fd : Inodes \cup {Missing}, data : Versions \cup {Empty},
   then : {"idle", "read", "running"}, load : 1..2]

IInv == TypeOK /\ CopiesInv

LEMMA IdleType == Idle \in ProcType
<1>1. 1 \in 1..(Len(Fallbacks) + 2) /\ 1 \in 1..2
  BY NameFacts
<1> QED BY <1>1 DEF Idle, ProcType, Pcs

\* The fields the actions change together may be given any values of their
\* types.
LEMMA FieldTypes ==
  ASSUME NEW p \in Procs, proc \in [Procs -> ProcType]
  PROVE  \A pc \in Pcs :
           /\ [proc EXCEPT ![p].pc = pc] \in [Procs -> ProcType]
           /\ \A fd \in Inodes \cup {Missing} :
                [proc EXCEPT ![p].pc = pc, ![p].fd = fd] \in [Procs -> ProcType]
           /\ \A data \in Versions \cup {Empty} :
                /\ [proc EXCEPT ![p].pc = pc, ![p].data = data] \in [Procs -> ProcType]
                /\ \A then \in {"idle", "read", "running"} :
                     [proc EXCEPT ![p].pc = pc, ![p].data = data, ![p].then = then]
                       \in [Procs -> ProcType]
<1>1. proc[p] \in ProcType
  OBVIOUS
<1>2. \A r \in ProcType : [proc EXCEPT ![p] = r] \in [Procs -> ProcType]
  OBVIOUS
<1> SUFFICES ASSUME NEW pc \in Pcs
             PROVE  /\ [proc EXCEPT ![p].pc = pc] \in [Procs -> ProcType]
                    /\ \A fd \in Inodes \cup {Missing} :
                         [proc EXCEPT ![p].pc = pc, ![p].fd = fd] \in [Procs -> ProcType]
                    /\ \A data \in Versions \cup {Empty} :
                         /\ [proc EXCEPT ![p].pc = pc, ![p].data = data] \in [Procs -> ProcType]
                         /\ \A then \in {"idle", "read", "running"} :
                              [proc EXCEPT ![p].pc = pc, ![p].data = data, ![p].then = then]
                                \in [Procs -> ProcType]
  OBVIOUS
<1>3. [proc EXCEPT ![p].pc = pc] \in [Procs -> ProcType]
  <2>1. [proc[p] EXCEPT !.pc = pc] \in ProcType
    BY <1>1 DEF ProcType
  <2> QED BY <1>1, <1>2, <2>1
<1>4. ASSUME NEW fd \in Inodes \cup {Missing}
      PROVE  [proc EXCEPT ![p].pc = pc, ![p].fd = fd] \in [Procs -> ProcType]
  <2>1. [proc[p] EXCEPT !.pc = pc, !.fd = fd] \in ProcType
    BY <1>1 DEF ProcType
  <2>2. [proc EXCEPT ![p].pc = pc, ![p].fd = fd]
          = [proc EXCEPT ![p] = [proc[p] EXCEPT !.pc = pc, !.fd = fd]]
    BY <1>1
  <2> QED BY <1>2, <2>1, <2>2
<1>5. ASSUME NEW data \in Versions \cup {Empty}
      PROVE  [proc EXCEPT ![p].pc = pc, ![p].data = data] \in [Procs -> ProcType]
  <2>1. [proc[p] EXCEPT !.pc = pc, !.data = data] \in ProcType
    BY <1>1 DEF ProcType
  <2>2. [proc EXCEPT ![p].pc = pc, ![p].data = data]
          = [proc EXCEPT ![p] = [proc[p] EXCEPT !.pc = pc, !.data = data]]
    BY <1>1
  <2> QED BY <1>2, <2>1, <2>2
<1>6. ASSUME NEW data \in Versions \cup {Empty}, NEW then \in {"idle", "read", "running"}
      PROVE  [proc EXCEPT ![p].pc = pc, ![p].data = data, ![p].then = then]
               \in [Procs -> ProcType]
  <2>1. [proc[p] EXCEPT !.pc = pc, !.data = data, !.then = then] \in ProcType
    BY <1>1 DEF ProcType
  <2>2. [proc EXCEPT ![p].pc = pc, ![p].data = data, ![p].then = then]
          = [proc EXCEPT ![p] = [proc[p] EXCEPT !.pc = pc, !.data = data, !.then = then]]
    BY <1>1
  <2> QED BY <1>2, <2>1, <2>2
<1> QED BY <1>3, <1>4, <1>5, <1>6

LEMMA InitInv == Init => IInv
<1> SUFFICES ASSUME Init PROVE IInv
  OBVIOUS
<1> USE NameFacts
<1>1. PICK left \in SUBSET DOMAIN Fallbacks :
        dir = [n \in Names |->
                 IF \E i \in left : Fallbacks[i] = n
                 THEN CHOOSE i \in left : Fallbacks[i] = n ELSE Missing]
  BY DEF Init
<1>2. \A n \in Names : dir[n] # Missing =>
        dir[n] \in DOMAIN Fallbacks /\ Fallbacks[dir[n]] = n
  BY <1>1
<1>3. DOMAIN Fallbacks \subseteq Inodes
  BY DEF Inodes
<1>4. content = [i \in Inodes |->
                   IF i <= Len(Fallbacks) THEN Len(Fallbacks) + 1 - i ELSE Empty]
  BY DEF Init
<1>5. \A i \in DOMAIN Fallbacks : content[i] \in Versions
  BY <1>3, <1>4, FilesAssumption DEF Versions, FilesAssumption
<1>6. dir \in [Names -> Inodes \cup {Missing}]
  BY <1>1, <1>2, <1>3
<1>7. content \in [Inodes -> Versions \cup {Empty, Torn}]
  <2>1. \A i \in Inodes : i <= Len(Fallbacks) => i \in DOMAIN Fallbacks
    BY DEF Inodes
  <2>2. \A i \in Inodes : content[i] \in Versions \cup {Empty, Torn}
    BY <1>4, <1>5, <2>1
  <2> QED BY <1>4, <2>2
<1>8. proc = [p \in Procs |-> Idle]
  BY DEF Init
<1>9. TypeOK
  <2>1. proc \in [Procs -> ProcType]
    BY <1>8, IdleType
  <2>2. saves \in 0..MaxSaves /\ loaded \in Versions \cup {Empty} /\ cleared \in BOOLEAN
    <3>1. saves = 0 /\ loaded = Empty /\ cleared = FALSE
      BY DEF Init
    <3>2. 0 \in 0..MaxSaves
      BY FilesAssumption DEF FilesAssumption
    <3>3. loaded \in Versions \cup {Empty}
      BY <3>1
    <3> QED BY <3>1, <3>2, <3>3
  <2> QED BY <1>6, <1>7, <2>1, <2>2 DEF TypeOK, ProcType
<1>10. CopiesInv
  BY <1>2, <1>5, <1>6, <1>8 DEF CopiesInv, Idle, Missing, Inodes
<1> QED BY <1>9, <1>10 DEF IInv

LEMMA GotoType ==
  ASSUME proc \in [Procs -> ProcType], NEW p \in Procs, NEW pc \in Pcs, Goto(p, pc)
  PROVE  proc' \in [Procs -> ProcType]
BY FieldTypes DEF Goto

LEMMA ExitType ==
  ASSUME TypeOK, NEW p \in Procs, Exit(p)
  PROVE  proc' \in [Procs -> ProcType]
BY IdleType DEF TypeOK, Exit, ProcType

LEMMA TypeStep ==
  ASSUME IInv, [Next]_fileVars
  PROVE  TypeOK'
<1> USE NameFacts DEF IInv
<1>0. proc \in [Procs -> ProcType]
  BY DEF TypeOK, ProcType
<1>q. ASSUME proc' \in [Procs -> ProcType], dir' \in [Names -> Inodes \cup {Missing}],
             content' \in [Inodes -> Versions \cup {Empty, Torn}],
             saves' \in 0..MaxSaves, loaded' \in Versions \cup {Empty}, cleared' \in BOOLEAN
      PROVE  TypeOK'
  BY <1>q DEF TypeOK, ProcType
<1>1. CASE UNCHANGED fileVars
  BY <1>1 DEF TypeOK, fileVars
<1>2. ASSUME NEW p \in Procs, Begin(p)
      PROVE  TypeOK'
  <2>1. proc' \in [Procs -> ProcType]
    <3>1. PICK cmd \in Commands :
            proc' = [proc EXCEPT ![p] =
                       [Idle EXCEPT !.cmd = cmd,
                          !.pc = CASE cmd \in {"apply", "plan"}  -> "statTarget"
                                   [] cmd \in {"fresh", "clear"} -> "remove"
                                   [] cmd = "show"               -> "read"]]
      BY <1>2 DEF Begin
    <3> DEFINE first == CASE cmd \in {"apply", "plan"}  -> "statTarget"
                          [] cmd \in {"fresh", "clear"} -> "remove"
                          [] cmd = "show"               -> "read"
    <3>2. first \in Pcs
      BY DEF Commands, Pcs
    <3> HIDE DEF first
    <3>3. [Idle EXCEPT !.cmd = cmd, !.pc = first] \in ProcType
      BY <3>2, IdleType DEF ProcType
    <3>4. proc' = [proc EXCEPT ![p] = [Idle EXCEPT !.cmd = cmd, !.pc = first]]
      BY <3>1 DEF first
    <3> QED BY <1>0, <3>3, <3>4
  <2> QED BY <1>2, <1>q, <2>1 DEF Begin, TypeOK
<1>3. ASSUME NEW p \in Procs, StatTarget(p)
      PROVE  TypeOK'
  <2>1. proc' \in [Procs -> ProcType]
    BY <1>0, <1>3 DEF StatTarget, Goto, ProcType, Pcs
  <2> QED BY <1>3, <1>q, <2>1 DEF StatTarget, TypeOK
<1>4. ASSUME NEW p \in Procs, StatFallback(p)
      PROVE  TypeOK'
  <2>1. proc' \in [Procs -> ProcType]
    BY <1>0, <1>4 DEF StatFallback, Goto, ProcType, Pcs
  <2> QED BY <1>4, <1>q, <2>1 DEF StatFallback, TypeOK
<1>5. ASSUME NEW p \in Procs, Recheck(p)
      PROVE  TypeOK'
  <2>1. proc' \in [Procs -> ProcType]
    BY <1>0, <1>5 DEF Recheck, Goto, ProcType, Pcs
  <2> QED BY <1>5, <1>q, <2>1 DEF Recheck, TypeOK
<1>6. ASSUME NEW p \in Procs, ReadSource(p)
      PROVE  TypeOK'
  <2> DEFINE source == dir[Fallbacks[proc[p].at]]
  <2>1. proc[p].at \in DOMAIN Fallbacks
    BY <1>0, <1>6 DEF ReadSource, CopiesInv, ProcType
  <2>2. source # Missing => content[source] \in Versions
    BY <2>1 DEF CopiesInv
  <2>3. proc' \in [Procs -> ProcType]
    <3>1. CASE Exit(p)
      BY <3>1, ExitType
    <3>2. CASE source # Missing /\ proc' = [proc EXCEPT ![p].pc = "open", ![p].data = content[source],
                                                      ![p].then = "read"]
      <4>1. content[source] \in Versions \cup {Empty} /\ "open" \in Pcs
        BY <2>2, <3>2 DEF Pcs
      <4> HIDE DEF source
      <4>2. [proc EXCEPT ![p].pc = "open", ![p].data = content[source], ![p].then = "read"]
              \in [Procs -> ProcType]
        BY <1>0, <4>1, FieldTypes
      <4> QED BY <3>2, <4>2
    <3> QED BY <1>6, <3>1, <3>2 DEF ReadSource
  <2> QED BY <1>6, <1>q, <2>3 DEF ReadSource, TypeOK
<1>7. ASSUME NEW p \in Procs, Read(p)
      PROVE  TypeOK'
  <2> DEFINE found == IF dir["target"] = Missing THEN Empty ELSE content[dir["target"]]
  <2>1. proc' \in [Procs -> ProcType]
    <3>1. CASE Exit(p)
      BY <3>1, ExitType
    <3>2. CASE Goto(p, "running")
      BY <1>0, <3>2, GotoType DEF Pcs
    <3>3. CASE ~LoadedAll(p) /\ proc' = [proc EXCEPT ![p].pc = "statTarget", ![p].load = @ + 1]
      <4>1. proc[p].load \in 1..2 /\ proc[p].load # 2
        BY <1>0, <3>3 DEF LoadedAll, ProcType
      <4>2. proc[p].load + 1 \in 1..2
        BY <4>1
      <4> QED BY <1>0, <3>3, <4>2 DEF ProcType, Pcs
    <3> QED BY <1>7, <3>1, <3>2, <3>3 DEF Read
  <2>2. loaded' \in Versions \cup {Empty}
    BY <1>7 DEF Read, TypeOK
  <2> QED BY <1>7, <1>q, <2>1, <2>2 DEF Read, TypeOK
<1>8. ASSUME NEW p \in Procs, BeginSave(p)
      PROVE  TypeOK'
  <2>1. saves' \in 0..MaxSaves /\ Len(Fallbacks) + saves + 1 \in Versions
    BY <1>8, FilesAssumption DEF BeginSave, TypeOK, Versions, FilesAssumption
  <2>2. proc' \in [Procs -> ProcType]
    <3> DEFINE next == Len(Fallbacks) + saves + 1
    <3>1. next \in Versions \cup {Empty} /\ "open" \in Pcs
      BY <2>1 DEF Pcs
    <3>2. proc' = [proc EXCEPT ![p].pc = "open", ![p].data = next, ![p].then = "running"]
      BY <1>8 DEF BeginSave
    <3> HIDE DEF next
    <3>3. [proc EXCEPT ![p].pc = "open", ![p].data = next, ![p].then = "running"]
            \in [Procs -> ProcType]
      BY <1>0, <3>1, FieldTypes
    <3> QED BY <3>2, <3>3
  <2> QED BY <1>8, <1>q, <2>1, <2>2 DEF BeginSave, TypeOK
<1>9. ASSUME NEW p \in Procs, EndRun(p)
      PROVE  TypeOK'
  BY <1>9, <1>q, ExitType DEF EndRun, TypeOK
<1>10. ASSUME NEW p \in Procs, Open(p)
       PROVE  TypeOK'
  <2> DEFINE inode == IF dir["tmp"] = Missing THEN CHOOSE i \in Unused : TRUE ELSE dir["tmp"]
  <2>1. inode \in Inodes
    <3>1. CASE dir["tmp"] = Missing
      BY <3>1, UnusedInode DEF Unused
    <3>2. CASE dir["tmp"] # Missing
      BY <3>2 DEF TypeOK
    <3> QED BY <3>1, <3>2
  <2> HIDE DEF inode
  <2>2. /\ dir' = [dir EXCEPT !["tmp"] = inode]
        /\ content' = [content EXCEPT ![inode] = Empty]
        /\ proc' = [proc EXCEPT ![p].pc = "write", ![p].fd = inode]
    BY <1>10 DEF Open, TempFile, inode
  <2>3. proc' \in [Procs -> ProcType]
    BY <1>0, <2>1, <2>2, FieldTypes DEF Pcs
  <2>4. dir' \in [Names -> Inodes \cup {Missing}]
    BY <2>1, <2>2 DEF TypeOK
  <2>5. content' \in [Inodes -> Versions \cup {Empty, Torn}]
    BY <2>1, <2>2 DEF TypeOK
  <2>6. saves' \in 0..MaxSaves /\ loaded' \in Versions \cup {Empty} /\ cleared' \in BOOLEAN
    BY <1>10 DEF Open, TypeOK
  <2> QED BY <1>q, <2>3, <2>4, <2>5, <2>6
<1>11. ASSUME NEW p \in Procs, Write(p)
       PROVE  TypeOK'
  <2>1. proc[p].data \in Versions \cup {Empty}
    BY <1>0 DEF ProcType
  <2>2. content' \in [Inodes -> Versions \cup {Empty, Torn}]
    BY <1>11, <2>1 DEF Write, TypeOK
  <2>3. proc' \in [Procs -> ProcType]
    BY <1>0, <1>11, FieldTypes DEF Write, Pcs
  <2> QED BY <1>11, <1>q, <2>2, <2>3 DEF Write, TypeOK
<1>12. ASSUME NEW p \in Procs, WritePartly(p)
       PROVE  TypeOK'
  BY <1>12, <1>q, ExitType DEF WritePartly, TypeOK
<1>13. ASSUME NEW p \in Procs, Rename(p)
       PROVE  TypeOK'
  <2>1. proc' \in [Procs -> ProcType]
    <3>1. CASE Exit(p)
      BY <3>1, ExitType
    <3>2. CASE proc' = [proc EXCEPT ![p].pc = proc[p].then, ![p].data = Empty]
      <4>1. proc[p].then \in Pcs
        BY <1>0 DEF ProcType, Pcs
      <4> QED BY <1>0, <3>2, <4>1, FieldTypes
    <3> QED BY <1>13, <3>1, <3>2 DEF Rename
  <2> QED BY <1>13, <1>q, <2>1 DEF Rename, TempFile, TypeOK
<1>14. ASSUME NEW p \in Procs, Remove(p)
       PROVE  TypeOK'
  <2>1. Len(ClearPaths) = Len(Fallbacks) + 1
    BY FilesAssumption DEF ClearPaths, FilesAssumption
  <2>2. proc[p].at + 1 \in 1..(Len(Fallbacks) + 2)
    BY <1>0, <1>14, <2>1 DEF Remove, ProcType
  <2>3. proc' \in [Procs -> ProcType]
    BY <1>0, <1>14, <2>2 DEF Remove, ProcType
  <2> QED BY <1>14, <1>q, <2>3 DEF Remove, TypeOK
<1>15. ASSUME NEW p \in Procs, RemovedAll(p)
       PROVE  TypeOK'
  <2>1. proc' \in [Procs -> ProcType]
    BY <1>0, <1>15, GotoType, ExitType DEF RemovedAll, Pcs
  <2> QED BY <1>15, <1>q, <2>1 DEF RemovedAll, TypeOK
<1>16. ASSUME NEW p \in Procs, Kill(p)
       PROVE  TypeOK'
  BY <1>16, <1>q, ExitType DEF Kill, TypeOK
<1> QED BY <1>1, <1>2, <1>3, <1>4, <1>5, <1>6, <1>7, <1>8, <1>9, <1>10, <1>11, <1>12,
           <1>13, <1>14, <1>15, <1>16 DEF Next, Resolve, Save

\* An older copy is only ever removed, and a temporary file is never one.
LEMMA CopiesStep ==
  ASSUME IInv, [Next]_fileVars
  PROVE  CopiesInv'
<1> USE NameFacts DEF IInv
<1>0. /\ proc \in [Procs -> ProcType]
      /\ dir \in [Names -> Inodes \cup {Missing}]
      /\ content \in [Inodes -> Versions \cup {Empty, Torn}]
      /\ Missing \notin Inodes
  BY DEF TypeOK, ProcType, Inodes, Missing
<1>1. CASE UNCHANGED fileVars
  BY <1>1 DEF CopiesInv, fileVars
\* What an action that leaves the files alone may do to its process.
<1> DEFINE Quiet(o) ==
             /\ proc'[o].fd \in {proc[o].fd, Missing}
             /\ proc'[o].pc = "write" <=> proc'[o].fd # Missing
             /\ proc'[o].pc \in {"recheck", "readSource"} => proc'[o].at <= Len(Fallbacks)
<1>2. ASSUME UNCHANGED <<dir, content>>, \A o \in Procs : Quiet(o)
      PROVE  CopiesInv'
  BY <1>0, <1>2 DEF CopiesInv
<1>3. \A o \in Procs : UNCHANGED proc[o] => Quiet(o)
  BY DEF CopiesInv
<1>4. ASSUME NEW p \in Procs, Exit(p)
      PROVE  \A o \in Procs : Quiet(o)
  BY <1>0, <1>3, <1>4 DEF Exit, Idle
<1>5. ASSUME NEW p \in Procs, NEW pc, Goto(p, pc), proc[p].pc # "write", pc # "write",
             pc \in {"recheck", "readSource"} => proc[p].at <= Len(Fallbacks)
      PROVE  \A o \in Procs : Quiet(o)
  <2>1. proc'[p].fd = proc[p].fd /\ proc'[p].pc = pc /\ proc'[p].at = proc[p].at
    BY <1>0, <1>5 DEF Goto, ProcType
  <2>2. Quiet(p)
    BY <1>5, <2>1 DEF CopiesInv
  <2>3. \A o \in Procs \ {p} : UNCHANGED proc[o]
    BY <1>0, <1>5 DEF Goto
  <2> QED BY <1>3, <2>2, <2>3
<1>6. ASSUME NEW p \in Procs, Begin(p)
      PROVE  CopiesInv'
  <2>1. PICK cmd \in Commands :
          proc' = [proc EXCEPT ![p] =
                     [Idle EXCEPT !.cmd = cmd,
                        !.pc = CASE cmd \in {"apply", "plan"}  -> "statTarget"
                                 [] cmd \in {"fresh", "clear"} -> "remove"
                                 [] cmd = "show"               -> "read"]]
    BY <1>6 DEF Begin
  <2>2. /\ proc'[p].fd = Missing
        /\ proc'[p].pc \in {"statTarget", "remove", "read"}
    BY <1>0, <2>1 DEF Idle, Commands
  <2>3. \A o \in Procs : Quiet(o)
    BY <1>0, <1>3, <2>1, <2>2
  <2> QED BY <1>2, <1>6, <2>3 DEF Begin
<1>7. ASSUME NEW p \in Procs, StatTarget(p)
      PROVE  CopiesInv'
  <2>1. CASE Goto(p, "read")
    BY <1>2, <1>5, <1>7, <2>1 DEF StatTarget
  <2>2. CASE proc' = [proc EXCEPT ![p].pc = "statFallback", ![p].at = 1]
    <3>1. \A o \in Procs : Quiet(o)
      BY <1>0, <1>3, <1>7, <2>2 DEF StatTarget, CopiesInv, ProcType
    <3> QED BY <1>2, <1>7, <3>1 DEF StatTarget
  <2> QED BY <1>7, <2>1, <2>2 DEF StatTarget
<1>8. ASSUME NEW p \in Procs, StatFallback(p)
      PROVE  CopiesInv'
  <2>1. CASE Goto(p, "read")
    BY <1>2, <1>5, <1>8, <2>1 DEF StatFallback
  <2>2. CASE proc[p].at <= Len(Fallbacks) /\ Goto(p, "recheck")
    BY <1>2, <1>5, <1>8, <2>2 DEF StatFallback
  <2>3. CASE proc' = [proc EXCEPT ![p].at = @ + 1]
    <3>1. \A o \in Procs : Quiet(o)
      BY <1>0, <1>3, <1>8, <2>3 DEF StatFallback, CopiesInv, ProcType
    <3> QED BY <1>2, <1>8, <3>1 DEF StatFallback
  <2> QED BY <1>8, <2>1, <2>2, <2>3 DEF StatFallback
<1>9. ASSUME NEW p \in Procs, Recheck(p)
      PROVE  CopiesInv'
  <2>1. proc[p].at <= Len(Fallbacks) /\ proc[p].pc # "write"
    BY <1>9 DEF Recheck, CopiesInv
  <2> QED BY <1>2, <1>5, <1>9, <2>1 DEF Recheck
<1>10. ASSUME NEW p \in Procs, ReadSource(p)
       PROVE  CopiesInv'
  <2> DEFINE source == dir[Fallbacks[proc[p].at]]
  <2>1. CASE Exit(p)
    BY <1>2, <1>4, <1>10, <2>1 DEF ReadSource
  <2>2. CASE proc' = [proc EXCEPT ![p].pc = "open", ![p].data = content[source],
                                  ![p].then = "read"]
    <3>1. proc'[p].fd = proc[p].fd /\ proc'[p].pc = "open" /\ proc[p].pc = "readSource"
      BY <1>0, <1>10, <2>2 DEF ReadSource, ProcType
    <3>2. \A o \in Procs \ {p} : UNCHANGED proc[o]
      BY <1>0, <2>2
    <3>3. \A o \in Procs : Quiet(o)
      BY <1>3, <3>1, <3>2 DEF CopiesInv
    <3> QED BY <1>2, <1>10, <3>3 DEF ReadSource
  <2> QED BY <1>10, <2>1, <2>2 DEF ReadSource
<1>11. ASSUME NEW p \in Procs, Read(p)
       PROVE  CopiesInv'
  <2>1. CASE Exit(p)
    BY <1>2, <1>4, <1>11, <2>1 DEF Read
  <2>2. CASE Goto(p, "running")
    BY <1>2, <1>5, <1>11, <2>2 DEF Read
  <2>3. CASE proc' = [proc EXCEPT ![p].pc = "statTarget", ![p].load = @ + 1]
    <3>1. proc'[p].fd = proc[p].fd /\ proc'[p].pc = "statTarget" /\ proc[p].pc = "read"
      BY <1>0, <1>11, <2>3 DEF Read, ProcType
    <3>2. \A o \in Procs \ {p} : UNCHANGED proc[o]
      BY <1>0, <2>3
    <3>3. \A o \in Procs : Quiet(o)
      BY <1>3, <3>1, <3>2 DEF CopiesInv
    <3> QED BY <1>2, <1>11, <3>3 DEF Read
  <2> QED BY <1>11, <2>1, <2>2, <2>3 DEF Read
<1>12. ASSUME NEW p \in Procs, BeginSave(p)
       PROVE  CopiesInv'
  <2>1. proc'[p].fd = proc[p].fd /\ proc'[p].pc = "open" /\ proc[p].pc = "running"
    BY <1>0, <1>12 DEF BeginSave, ProcType
  <2>2. \A o \in Procs \ {p} : UNCHANGED proc[o]
    BY <1>0, <1>12 DEF BeginSave
  <2>3. \A o \in Procs : Quiet(o)
    BY <1>3, <2>1, <2>2 DEF CopiesInv
  <2> QED BY <1>2, <1>12, <2>3 DEF BeginSave
<1>13. ASSUME NEW p \in Procs, EndRun(p) \/ Kill(p)
       PROVE  CopiesInv'
  BY <1>2, <1>4, <1>13 DEF EndRun, Kill
<1>14. ASSUME NEW p \in Procs, RemovedAll(p)
       PROVE  CopiesInv'
  <2>1. CASE Exit(p)
    BY <1>2, <1>4, <1>14, <2>1 DEF RemovedAll
  <2>2. CASE Goto(p, "running")
    BY <1>2, <1>5, <1>14, <2>2 DEF RemovedAll
  <2> QED BY <1>14, <2>1, <2>2 DEF RemovedAll
<1>15. ASSUME NEW p \in Procs, Open(p)
       PROVE  CopiesInv'
  <2> DEFINE inode == IF dir["tmp"] = Missing THEN CHOOSE i \in Unused : TRUE ELSE dir["tmp"]
  <2>1. /\ inode \in Inodes
        /\ \A n \in Names \ {"tmp"} : dir[n] # inode
    <3>1. CASE dir["tmp"] = Missing
      BY <3>1, UnusedInode DEF Unused
    <3>2. CASE dir["tmp"] # Missing
      BY <1>0, <3>2 DEF CopiesInv
    <3> QED BY <3>1, <3>2
  <2>2. /\ dir' = [dir EXCEPT !["tmp"] = inode]
        /\ content' = [content EXCEPT ![inode] = Empty]
        /\ proc' = [proc EXCEPT ![p].pc = "write", ![p].fd = inode]
    BY <1>15 DEF Open, TempFile
  <2> HIDE DEF inode
  <2>3. /\ dir'["tmp"] = inode
        /\ \A n \in Names \ {"tmp"} : dir'[n] = dir[n]
    BY <1>0, <2>2
  <2>4. \A m, n \in Names : dir'[m] = dir'[n] /\ dir'[m] # Missing => m = n
    BY <2>1, <2>3 DEF CopiesInv
  <2>5. /\ proc'[p].fd = inode /\ proc'[p].pc = "write"
        /\ \A o \in Procs \ {p} : proc'[o] = proc[o]
    BY <1>0, <2>2 DEF ProcType
  <2>6. ASSUME NEW i \in DOMAIN Fallbacks, dir'[Fallbacks[i]] # Missing
        PROVE  /\ content'[dir'[Fallbacks[i]]] \in Versions
               /\ \A o \in Procs : proc'[o].fd # dir'[Fallbacks[i]]
    <3>1. dir'[Fallbacks[i]] = dir[Fallbacks[i]] /\ dir[Fallbacks[i]] # inode
      BY <2>1, <2>3
    <3>2. content'[dir[Fallbacks[i]]] = content[dir[Fallbacks[i]]]
      BY <1>0, <2>2, <2>6, <3>1
    <3> QED BY <2>5, <2>6, <3>1, <3>2 DEF CopiesInv
  <2>7. \A o \in Procs :
          /\ proc'[o].pc \in {"recheck", "readSource"} => proc'[o].at <= Len(Fallbacks)
          /\ proc'[o].pc = "write" <=> proc'[o].fd # Missing
    BY <1>0, <2>1, <2>5 DEF CopiesInv
  <2> QED BY <2>4, <2>6, <2>7 DEF CopiesInv
<1>16. ASSUME NEW p \in Procs, Write(p) \/ WritePartly(p)
       PROVE  CopiesInv'
  <2>1. proc[p].pc = "write" /\ dir' = dir
    BY <1>16 DEF Write, WritePartly
  <2>2. PICK result : content' = [content EXCEPT ![proc[p].fd] = result]
    BY <1>16 DEF Write, WritePartly
  <2>3. \A o \in Procs : Quiet(o)
    <3>1. CASE Exit(p)
      BY <1>4, <3>1
    <3>2. CASE proc' = [proc EXCEPT ![p].pc = "rename", ![p].fd = Missing]
      <4>1. /\ proc'[p].fd = Missing /\ proc'[p].pc = "rename"
            /\ \A o \in Procs \ {p} : UNCHANGED proc[o]
        BY <1>0, <3>2 DEF ProcType
      <4> QED BY <1>3, <4>1
    <3> QED BY <1>16, <3>1, <3>2 DEF Write, WritePartly
  <2>4. ASSUME NEW i \in DOMAIN Fallbacks, dir[Fallbacks[i]] # Missing
        PROVE  content'[dir[Fallbacks[i]]] = content[dir[Fallbacks[i]]]
    <3>1. proc[p].fd # dir[Fallbacks[i]] /\ dir[Fallbacks[i]] \in Inodes
      BY <1>0, <2>4 DEF CopiesInv
    <3> QED BY <1>0, <2>2, <3>1
  <2> QED BY <1>0, <2>1, <2>3, <2>4 DEF CopiesInv
<1>17. ASSUME NEW p \in Procs, Rename(p)
       PROVE  CopiesInv'
  <2>1. CASE Exit(p) /\ UNCHANGED <<dir, content>>
    BY <1>2, <1>4, <2>1
  <2>2. CASE /\ dir' = [dir EXCEPT !["tmp"] = Missing, !["target"] = dir["tmp"]]
             /\ proc' = [proc EXCEPT ![p].pc = proc[p].then, ![p].data = Empty]
             /\ content' = content
    <3>1. /\ dir'["tmp"] = Missing /\ dir'["target"] = dir["tmp"]
          /\ \A n \in Names \ {"tmp", "target"} : dir'[n] = dir[n]
      BY <1>0, <2>2
    <3>2. \A m, n \in Names : dir'[m] = dir'[n] /\ dir'[m] # Missing => m = n
      BY <3>1 DEF CopiesInv
    <3>3. /\ proc'[p].fd = proc[p].fd /\ proc'[p].pc \in {"idle", "read", "running"}
          /\ \A o \in Procs \ {p} : UNCHANGED proc[o]
      BY <1>0, <2>2 DEF ProcType
    <3>4. proc[p].pc = "rename"
      BY <1>17 DEF Rename
    <3>5. \A o \in Procs : Quiet(o)
      BY <1>3, <3>3, <3>4 DEF CopiesInv
    <3>6. \A i \in DOMAIN Fallbacks : dir'[Fallbacks[i]] = dir[Fallbacks[i]]
      BY <3>1
    <3>7. \A i \in DOMAIN Fallbacks : dir'[Fallbacks[i]] # Missing =>
            /\ content'[dir'[Fallbacks[i]]] \in Versions
            /\ \A o \in Procs : proc'[o].fd # dir'[Fallbacks[i]]
      <4> SUFFICES ASSUME NEW i \in DOMAIN Fallbacks, dir'[Fallbacks[i]] # Missing
                   PROVE  /\ content'[dir'[Fallbacks[i]]] \in Versions
                          /\ \A o \in Procs : proc'[o].fd # dir'[Fallbacks[i]]
        OBVIOUS
      <4>1. dir'[Fallbacks[i]] = dir[Fallbacks[i]]
        BY <3>6
      <4>2. /\ content[dir[Fallbacks[i]]] \in Versions
            /\ \A o \in Procs : proc[o].fd # dir[Fallbacks[i]]
        BY <4>1 DEF CopiesInv
      <4>3. \A o \in Procs : proc'[o].fd = proc[o].fd
        BY <3>3
      <4> QED BY <2>2, <4>1, <4>2, <4>3
    <3> QED BY <3>2, <3>5, <3>7 DEF CopiesInv
  <2> QED BY <1>17, <2>1, <2>2 DEF Rename, TempFile
<1>18. ASSUME NEW p \in Procs, Remove(p)
       PROVE  CopiesInv'
  <2>1. \E n \in Names : dir' = [dir EXCEPT ![n] = Missing]
    <3>1. \A i \in 1..(Len(Fallbacks) + 1) : ClearPaths[i] \in Names
      BY FilesAssumption DEF ClearPaths, FilesAssumption
    <3>2. proc[p].at \in 1..(Len(Fallbacks) + 1)
      BY <1>0, <1>18, FilesAssumption DEF Remove, ClearPaths, ProcType, FilesAssumption
    <3> QED BY <1>18, <3>1, <3>2 DEF Remove
  <2>2. \A m \in Names : dir'[m] \in {dir[m], Missing}
    BY <1>0, <2>1
  <2>3. \A o \in Procs : Quiet(o)
    <3>1. /\ proc'[p].fd = proc[p].fd /\ proc'[p].pc = "remove" /\ proc[p].pc = "remove"
          /\ \A o \in Procs \ {p} : UNCHANGED proc[o]
      BY <1>0, <1>18 DEF Remove, ProcType
    <3> QED BY <1>3, <3>1 DEF CopiesInv
  <2>4. content' = content
    BY <1>18 DEF Remove
  <2>5. \A m, n \in Names : dir'[m] = dir'[n] /\ dir'[m] # Missing => m = n
    BY <2>2 DEF CopiesInv
  <2>6. \A i \in DOMAIN Fallbacks : dir'[Fallbacks[i]] # Missing =>
          /\ content'[dir'[Fallbacks[i]]] \in Versions
          /\ \A o \in Procs : proc'[o].fd # dir'[Fallbacks[i]]
    BY <2>2, <2>3, <2>4 DEF CopiesInv
  <2> QED BY <2>3, <2>5, <2>6 DEF CopiesInv
<1> QED BY <1>1, <1>6, <1>7, <1>8, <1>9, <1>10, <1>11, <1>12, <1>13, <1>14, <1>15, <1>16,
           <1>17, <1>18 DEF Next, Resolve, Save

\* Files, processes and versions have their types whatever commands run at
\* once and wherever they are killed.
THEOREM TypeCorrect == Spec => []TypeOK
<1>1. IInv /\ [Next]_fileVars => IInv'
  BY TypeStep, CopiesStep DEF IInv
<1>2. IInv => TypeOK
  BY DEF IInv
<1> QED BY InitInv, <1>1, <1>2, PTL DEF Spec

-----------------------------------------------------------------------------
(* The state file parses                                                   *)

\* With one process, what is written is what is renamed.
LEMMA SaveStep ==
  ASSUME OneProcess, IInv, SaveInv, TargetWhole, [Next]_fileVars
  PROVE  SaveInv' /\ TargetWhole'
<1> USE NameFacts DEF IInv
<1>0. /\ proc \in [Procs -> ProcType]
      /\ dir \in [Names -> Inodes \cup {Missing}]
      /\ content \in [Inodes -> Versions \cup {Empty, Torn}]
      /\ Missing \notin Inodes
      /\ saves \in 0..MaxSaves
  BY DEF TypeOK, ProcType, Inodes, Missing
<1>1. CASE UNCHANGED fileVars
  BY <1>1 DEF SaveInv, TargetWhole, fileVars
<1> SUFFICES ASSUME NEW p \in Procs,
                    Begin(p) \/ Resolve(p) \/ Save(p) \/ EndRun(p) \/ Remove(p)
                      \/ RemovedAll(p) \/ Kill(p)
             PROVE  SaveInv' /\ TargetWhole'
  BY <1>1 DEF Next
<1>2. \A o \in Procs : o = p
  BY DEF OneProcess
\* A process that is not saving says nothing of the temporary file.
<1>3. ASSUME proc'[p].pc \notin {"open", "write", "rename"}
      PROVE  SaveInv'
  BY <1>2, <1>3 DEF SaveInv
<1>4. ASSUME UNCHANGED <<dir, content>>
      PROVE  TargetWhole'
  BY <1>4 DEF TargetWhole
<1>5. ASSUME Exit(p)
      PROVE  SaveInv'
  <2>1. proc'[p].pc = "idle"
    BY <1>0, <1>5 DEF Exit, Idle
  <2> QED BY <1>3, <2>1
<1>6. ASSUME NEW pc, Goto(p, pc), pc \notin {"open", "write", "rename"}
      PROVE  SaveInv'
  <2>1. proc'[p].pc = pc
    BY <1>0, <1>6 DEF Goto, ProcType
  <2> QED BY <1>3, <1>6, <2>1
<1>7. CASE Begin(p)
  <2>1. PICK cmd \in Commands :
          proc' = [proc EXCEPT ![p] =
                     [Idle EXCEPT !.cmd = cmd,
                        !.pc = CASE cmd \in {"apply", "plan"}  -> "statTarget"
                                 [] cmd \in {"fresh", "clear"} -> "remove"
                                 [] cmd = "show"               -> "read"]]
    BY <1>7 DEF Begin
  <2>2. proc'[p].pc \in {"statTarget", "remove", "read"}
    BY <1>0, <2>1 DEF Idle, Commands
  <2> QED BY <1>3, <1>4, <1>7, <2>2 DEF Begin
<1>8. CASE StatTarget(p)
  <2>1. proc'[p].pc \in {"read", "statFallback"}
    BY <1>0, <1>8 DEF StatTarget, Goto, ProcType
  <2> QED BY <1>3, <1>4, <1>8, <2>1 DEF StatTarget
<1>9. CASE StatFallback(p)
  <2>1. proc'[p].pc \in {"read", "statFallback", "recheck"}
    BY <1>0, <1>9 DEF StatFallback, Goto, ProcType
  <2> QED BY <1>3, <1>4, <1>9, <2>1 DEF StatFallback
<1>10. CASE Recheck(p)
  <2>1. SaveInv'
    BY <1>6, <1>10 DEF Recheck
  <2> QED BY <1>4, <1>10, <2>1 DEF Recheck
<1>11. CASE ReadSource(p)
  <2> DEFINE source == dir[Fallbacks[proc[p].at]]
  <2>1. TargetWhole'
    BY <1>4, <1>11 DEF ReadSource
  <2>2. CASE Exit(p)
    BY <1>5, <2>1, <2>2
  <2>3. CASE /\ source # Missing
             /\ proc' = [proc EXCEPT ![p].pc = "open", ![p].data = content[source],
                                     ![p].then = "read"]
    <3>1. proc[p].at \in DOMAIN Fallbacks
      BY <1>0, <1>11 DEF ReadSource, CopiesInv, ProcType
    <3>2. content[source] \in Versions
      BY <2>3, <3>1 DEF CopiesInv
    <3>3. proc'[p].pc = "open" /\ proc'[p].data = content[source]
      BY <1>0, <2>3 DEF ProcType
    <3> QED BY <1>2, <2>1, <3>2, <3>3 DEF SaveInv
  <2> QED BY <1>11, <2>2, <2>3 DEF ReadSource
<1>12. CASE Read(p)
  <2>1. proc'[p].pc \in {"idle", "running", "statTarget"}
    <3>1. CASE Exit(p)
      BY <1>0, <3>1 DEF Exit, Idle
    <3>2. CASE Goto(p, "running")
      BY <1>0, <3>2 DEF Goto, ProcType
    <3>3. CASE proc' = [proc EXCEPT ![p].pc = "statTarget", ![p].load = @ + 1]
      BY <1>0, <3>3 DEF ProcType
    <3> QED BY <1>12, <3>1, <3>2, <3>3 DEF Read
  <2> QED BY <1>3, <1>4, <1>12, <2>1 DEF Read
<1>13. CASE BeginSave(p)
  <2>1. /\ proc'[p].pc = "open"
        /\ proc'[p].data = Len(Fallbacks) + saves + 1
    BY <1>0, <1>13 DEF BeginSave, ProcType
  <2>2. Len(Fallbacks) + saves + 1 \in Versions
    BY <1>0, <1>13, FilesAssumption DEF BeginSave, Versions, FilesAssumption
  <2>3. SaveInv'
    BY <1>2, <2>1, <2>2 DEF SaveInv
  <2> QED BY <1>4, <1>13, <2>3 DEF BeginSave
<1>14. CASE EndRun(p) \/ Kill(p)
  BY <1>4, <1>5, <1>14 DEF EndRun, Kill
<1>15. CASE RemovedAll(p)
  BY <1>4, <1>5, <1>6, <1>15 DEF RemovedAll
<1>16. CASE Open(p)
  <2> DEFINE inode == IF dir["tmp"] = Missing THEN CHOOSE i \in Unused : TRUE ELSE dir["tmp"]
  <2>1. /\ inode \in Inodes
        /\ dir["target"] # inode
    <3>1. CASE dir["tmp"] = Missing
      BY <3>1, UnusedInode DEF Unused
    <3>2. CASE dir["tmp"] # Missing
      BY <1>0, <3>2 DEF CopiesInv
    <3> QED BY <3>1, <3>2
  <2>2. /\ dir' = [dir EXCEPT !["tmp"] = inode]
        /\ content' = [content EXCEPT ![inode] = Empty]
        /\ proc' = [proc EXCEPT ![p].pc = "write", ![p].fd = inode]
        /\ proc[p].pc = "open"
    BY <1>16 DEF Open, TempFile
  <2> HIDE DEF inode
  <2>3. /\ dir'["tmp"] = inode /\ dir'["target"] = dir["target"]
        /\ content'[inode] = Empty
        /\ content'[dir["target"]] = content[dir["target"]]
    BY <1>0, <2>1, <2>2
  <2>4. TargetWhole'
    BY <2>3 DEF TargetWhole
  <2>5. proc'[p].pc = "write" /\ proc'[p].fd = inode /\ proc'[p].data = proc[p].data
    BY <1>0, <2>2 DEF ProcType
  <2>6. proc[p].data \in Versions
    BY <2>2 DEF SaveInv
  <2> QED BY <1>2, <2>3, <2>4, <2>5, <2>6 DEF SaveInv
<1>17. CASE Write(p) \/ WritePartly(p)
  <2>1. /\ proc[p].fd = dir["tmp"] /\ content[proc[p].fd] = Empty
        /\ proc[p].data \in Versions /\ dir' = dir
        /\ dir["tmp"] \in Inodes
    BY <1>0, <1>17 DEF Write, WritePartly, SaveInv, CopiesInv
  <2>2. dir["target"] # dir["tmp"]
    BY <1>0, <2>1 DEF CopiesInv
  <2>3. PICK result : content' = [content EXCEPT ![dir["tmp"]] = result]
    BY <1>17, <2>1 DEF Write, WritePartly
  <2>4. TargetWhole'
    BY <1>0, <2>1, <2>2, <2>3 DEF TargetWhole
  <2>5. CASE Write(p)
    <3>1. content' = [content EXCEPT ![dir["tmp"]] = proc[p].data]
      BY <2>1, <2>5 DEF Write
    <3>2. content'[dir["tmp"]] \in Versions
      BY <1>0, <2>1, <3>1
    <3>3. proc'[p].pc = "rename"
      BY <1>0, <2>5 DEF Write, ProcType
    <3>4. dir["tmp"] # Missing
      BY <1>0, <2>1
    <3> QED BY <1>2, <2>1, <2>4, <3>2, <3>3, <3>4 DEF SaveInv
  <2>6. CASE WritePartly(p)
    BY <1>5, <2>4, <2>6 DEF WritePartly
  <2> QED BY <1>17, <2>5, <2>6
<1>18. CASE Rename(p)
  <2>1. CASE Exit(p) /\ UNCHANGED <<dir, content>>
    BY <1>4, <1>5, <2>1
  <2>2. CASE /\ dir' = [dir EXCEPT !["tmp"] = Missing, !["target"] = dir["tmp"]]
             /\ proc' = [proc EXCEPT ![p].pc = proc[p].then, ![p].data = Empty]
             /\ content' = content
    <3>1. proc'[p].pc \in {"idle", "read", "running"}
      BY <1>0, <2>2 DEF ProcType
    <3>2. content[dir["tmp"]] \in Versions
      BY <1>18 DEF Rename, SaveInv
    <3>3. dir'["target"] = dir["tmp"]
      BY <1>0, <2>2
    <3> QED BY <1>3, <2>2, <3>1, <3>2, <3>3 DEF TargetWhole
  <2> QED BY <1>18, <2>1, <2>2 DEF Rename, TempFile
<1>19. CASE Remove(p)
  <2>1. \E n \in Names : dir' = [dir EXCEPT ![n] = Missing]
    <3>1. \A i \in 1..(Len(Fallbacks) + 1) : ClearPaths[i] \in Names
      BY FilesAssumption DEF ClearPaths, FilesAssumption
    <3>2. proc[p].at \in 1..(Len(Fallbacks) + 1)
      BY <1>0, <1>19, FilesAssumption DEF Remove, ClearPaths, ProcType, FilesAssumption
    <3> QED BY <1>19, <3>1, <3>2 DEF Remove
  <2>2. dir'["target"] \in {dir["target"], Missing}
    BY <1>0, <2>1
  <2>3. TargetWhole'
    BY <1>19, <2>2 DEF Remove, TargetWhole
  <2>4. proc'[p].pc = "remove"
    BY <1>0, <1>19 DEF Remove, ProcType
  <2> QED BY <1>3, <2>3, <2>4
<1> QED BY <1>7, <1>8, <1>9, <1>10, <1>11, <1>12, <1>13, <1>14, <1>15, <1>16, <1>17, <1>18,
           <1>19 DEF Resolve, Save

\* When no two commands run at once, the state file parses however often a
\* command was killed, whatever older copies there were.
THEOREM TargetWholeAlone ==
  ASSUME OneProcess
  PROVE  Spec => []TargetWhole
<1>1. Init => IInv /\ SaveInv /\ TargetWhole
  <2> SUFFICES ASSUME Init PROVE SaveInv /\ TargetWhole
    BY InitInv
  <2>1. \A p \in Procs : proc[p].pc = "idle"
    BY DEF Init, Idle
  <2>2. dir["target"] = Missing
    BY NameFacts DEF Init
  <2> QED BY <2>1, <2>2 DEF SaveInv, TargetWhole
<1>2. IInv /\ SaveInv /\ TargetWhole /\ [Next]_fileVars => (IInv /\ SaveInv /\ TargetWhole)'
  <2>1. IInv /\ [Next]_fileVars => IInv'
    BY TypeStep, CopiesStep DEF IInv
  <2> QED BY OneProcess, SaveStep, <2>1
<1> QED BY <1>1, <1>2, PTL DEF Spec
-----------------------------------------------------------------------------
(* A register: the commands of one operator, one at a time                 *)

\* A set of naturals that is not empty has a least element: the initial segments
\* of its elements are finite sets, whose strict inclusion is well founded. Stated
\* without an operator parameter, this does the work of induction below.
LEMMA LeastExists ==
  ASSUME NEW S \in SUBSET Nat, S # {}
  PROVE  \E m \in S : \A n \in S : m <= n
<1> DEFINE Upto == {0..n : n \in S}
<1>1. Upto \subseteq FiniteSubsetsOf(Nat)
  <2>1. SUFFICES ASSUME NEW n \in S PROVE 0..n \in FiniteSubsetsOf(Nat)
    OBVIOUS
  <2>2. n \in Int /\ 0 \in Int
    OBVIOUS
  <2>3. IsFiniteSet(0..n)
    BY <2>2, FS_Interval
  <2> QED BY <2>3 DEF FiniteSubsetsOf
<1>2. PICK U \in Upto : \A V \in Upto : <<V, U>> \notin StrictSubsetOrdering(Nat)
  <2>1. Upto # {}
    OBVIOUS
  <2> HIDE DEF Upto
  <2> QED BY <1>1, <2>1, WFMin, FS_StrictSubsetOrderingWellFounded
<1>3. PICK m \in S : U = 0..m
  OBVIOUS
<1>4. \A n \in S : m <= n
  <2>1. SUFFICES ASSUME NEW n \in S, n < m PROVE FALSE
    OBVIOUS
  <2>2. 0..n \in Upto
    OBVIOUS
  <2>3. 0..n \subseteq 0..m /\ 0..n # 0..m
    BY <2>1
  <2>4. <<0..n, U>> \in StrictSubsetOrdering(Nat)
    BY <1>3, <2>3 DEF StrictSubsetOrdering
  <2> QED BY <1>2, <2>2, <2>4
<1> QED BY <1>4

\* The target is not there, and none of the older copies looked for before k.
NoneBefore(k) ==
  /\ dir["target"] = Missing
  /\ \A i \in DOMAIN Fallbacks : i < k => dir[Fallbacks[i]] = Missing

Writing(p)   == proc[p].pc \in {"open", "write", "rename"}
Migrating(p) == Writing(p) /\ proc[p].then = "read"
Saving(p)    == Writing(p) /\ proc[p].then = "running"

\* What the temporary file is to hold, or holds.
Pending(p) == IF proc[p].pc = "rename" THEN content[dir["tmp"]] ELSE proc[p].data

Begun == Len(Fallbacks) + saves

\* A command that looks for the state has found nothing that would come first;
\* what it migrates is the copy it has found; and it reads the state, or there
\* is none.
Finds(p) ==
  /\ proc[p].pc = "statFallback" => NoneBefore(proc[p].at)
  /\ proc[p].pc \in {"recheck", "readSource"} \/ Migrating(p) =>
       /\ proc[p].at \in DOMAIN Fallbacks
       /\ NoneBefore(proc[p].at) /\ dir[Fallbacks[proc[p].at]] # Missing
  /\ Migrating(p) => Pending(p) = content[dir[Fallbacks[proc[p].at]]]
  /\ proc[p].pc = "read" /\ proc[p].cmd # "show" =>
       dir["target"] # Missing \/ NoneBefore(Len(Fallbacks) + 1)
  /\ proc[p].pc = "remove" /\ proc[p].at > 1 => NoneBefore(proc[p].at - 1)

\* What is saved is newer than all there is.
Saves(p) ==
  /\ Writing(p) => Migrating(p) \/ Saving(p)
  /\ Saving(p) =>
       /\ Pending(p) = Begun
       /\ \A n \in Names \ {"tmp"} : dir[n] # Missing => content[dir[n]] < Begun

Bounded == \A n \in Names \ {"tmp"} : dir[n] # Missing => content[dir[n]] <= Begun

RegisterInv == Bounded /\ \A p \in Procs : Finds(p) /\ Saves(p)

\* The refinement mapping.
Older == {content[dir[Fallbacks[i]]] : i \in {j \in DOMAIN Fallbacks : dir[Fallbacks[j]] # Missing}}

Clearing == IF \E p \in Procs : proc[p].pc = "remove" THEN "running"
            ELSE IF cleared THEN "done" ELSE "no"

\* The state is the target's content, else that of the first older copy there is.
LEMMA StoredFacts ==
  ASSUME IInv
  PROVE  /\ dir["target"] # Missing => Stored = content[dir["target"]]
         /\ \A i \in DOMAIN Fallbacks :
              NoneBefore(i) /\ dir[Fallbacks[i]] # Missing => Stored = content[dir[Fallbacks[i]]]
         /\ NoneBefore(Len(Fallbacks) + 1) => Stored = Empty /\ Older = {}
         /\ dir["target"] = Missing =>
              /\ Stored \in Older \cup {Empty}
              /\ Stored = Empty => Older = {}
<1> USE NameFacts
<1> DEFINE n == Len(Fallbacks)
           there == {i \in DOMAIN Copies : Copies[i] # Missing}
           First(i) == i \in there /\ \A j \in there : i <= j
<1>1. /\ DOMAIN Copies = 1..(n + 1) /\ Copies[1] = dir["target"]
      /\ \A i \in 1..n : Copies[i + 1] = dir[Fallbacks[i]]
  BY DEF Copies
<1>2. \A i \in there : i = 1 \/ (i - 1 \in 1..n /\ Copies[i] = dir[Fallbacks[i - 1]])
  BY <1>1
<1>3. Stored = IF there = {} THEN Empty ELSE content[Copies[CHOOSE i \in there : \A j \in there : i <= j]]
  BY DEF Stored
<1>4. there \subseteq Nat
  BY <1>1
<1> HIDE DEF there, n
<1>5. ASSUME NEW i, First(i) PROVE Stored = content[Copies[i]]
  <2>1. \A k \in there : (\A j \in there : k <= j) => k = i
    BY <1>4, <1>5
  <2>2. (CHOOSE k \in there : \A j \in there : k <= j) = i
    BY <1>5, <2>1
  <2> QED BY <1>3, <1>5, <2>2
<1>6. dir["target"] # Missing => Stored = content[dir["target"]]
  <2> SUFFICES ASSUME dir["target"] # Missing PROVE Stored = content[dir["target"]]
    OBVIOUS
  <2>1. First(1)
    BY <1>1 DEF there, n
  <2> QED BY <1>1, <1>5, <2>1
<1>7. ASSUME NEW i \in DOMAIN Fallbacks, NoneBefore(i), dir[Fallbacks[i]] # Missing
      PROVE  Stored = content[dir[Fallbacks[i]]]
  <2>1. i \in 1..n
    BY DEF n
  <2>2. i + 1 \in there
    BY <1>1, <1>7, <2>1 DEF there, n
  <2>3. ASSUME NEW j \in there, j < i + 1 PROVE FALSE
    <3>1. j # 1
      BY <1>1, <1>7, <2>3 DEF NoneBefore, there
    <3>2. j - 1 \in 1..n /\ Copies[j] = dir[Fallbacks[j - 1]] /\ Copies[j] # Missing
      BY <1>2, <2>3, <3>1 DEF there
    <3>3. j - 1 < i /\ j - 1 \in DOMAIN Fallbacks
      BY <1>4, <2>1, <2>3, <3>2 DEF n
    <3> QED BY <1>7, <3>2, <3>3 DEF NoneBefore
  <2>4. First(i + 1)
    BY <1>4, <2>1, <2>2, <2>3
  <2> QED BY <1>1, <1>5, <2>1, <2>4
<1>8. ASSUME NoneBefore(n + 1) PROVE Stored = Empty /\ Older = {}
  <2>1. \A i \in DOMAIN Fallbacks : dir[Fallbacks[i]] = Missing
    BY <1>8 DEF NoneBefore, n
  <2>2. there = {}
    <3>1. ASSUME NEW i \in there PROVE FALSE
      BY <1>1, <1>2, <1>8, <2>1, <3>1 DEF there, n, NoneBefore
    <3> QED BY <3>1
  <2> QED BY <1>3, <2>1, <2>2 DEF Older
<1>9. ASSUME dir["target"] = Missing PROVE Stored \in Older \cup {Empty} /\ (Stored = Empty => Older = {})
  <2> DEFINE kept == {i \in DOMAIN Fallbacks : dir[Fallbacks[i]] # Missing}
  <2>1. CASE kept = {}
    <3>1. NoneBefore(n + 1)
      BY <1>9, <2>1 DEF NoneBefore
    <3> QED BY <1>8, <3>1
  <2>2. CASE kept # {}
    <3>1. kept \subseteq Nat
      OBVIOUS
    <3>2. PICK i \in kept : \A j \in kept : i <= j
      <4> HIDE DEF kept
      <4> QED BY <2>2, <3>1, LeastExists
    <3>3. NoneBefore(i)
      BY <1>9, <3>2 DEF NoneBefore
    <3>4. Stored = content[dir[Fallbacks[i]]]
      BY <1>7, <3>2, <3>3
    <3>5. content[dir[Fallbacks[i]]] \in Versions
      BY <3>2 DEF IInv, CopiesInv
    <3>6. Stored \in Older
      BY <3>2, <3>4 DEF Older
    <3> QED BY <3>4, <3>5, <3>6 DEF Versions, Empty
  <2> QED BY <2>1, <2>2
<1> QED BY <1>6, <1>7, <1>8, <1>9 DEF n
\* What a step leaves of the names and of what is stored under them.
SameFiles ==
  \A n \in Names \ {"tmp"} :
     dir'[n] = dir[n] /\ (dir[n] # Missing => content'[dir[n]] = content[dir[n]])

LEMMA SameStore ==
  ASSUME IInv, SameFiles
  PROVE  /\ \A k : NoneBefore(k)' <=> NoneBefore(k)
         /\ Stored' = Stored /\ Older' = Older
<1> USE NameFacts
<1>1. /\ dir'["target"] = dir["target"]
      /\ dir["target"] # Missing => content'[dir["target"]] = content[dir["target"]]
  BY DEF SameFiles
<1>2. \A i \in DOMAIN Fallbacks :
        /\ dir'[Fallbacks[i]] = dir[Fallbacks[i]]
        /\ dir[Fallbacks[i]] # Missing => content'[dir[Fallbacks[i]]] = content[dir[Fallbacks[i]]]
  BY DEF SameFiles
<1>3. \A k : NoneBefore(k)' <=> NoneBefore(k)
  BY <1>1, <1>2 DEF NoneBefore
<1>4. Older' = Older
  BY <1>2 DEF Older
<1>5. Copies' = Copies
  BY <1>1, <1>2 DEF Copies
<1>6. Stored' = Stored
  <2> DEFINE there == {i \in DOMAIN Copies : Copies[i] # Missing}
             first == CHOOSE i \in there : \A j \in there : i <= j
  <2>1. there' = there
    BY <1>5
  <2>2. \A i \in DOMAIN Copies : Copies[i] # Missing => content'[Copies[i]] = content[Copies[i]]
    BY <1>1, <1>2 DEF Copies
  <2>3. there # {} => first \in there
    <3>1. there \subseteq Nat
      BY DEF Copies
    <3> HIDE DEF there
    <3>2. there # {} => \E i \in there : \A j \in there : i <= j
      BY <3>1, LeastExists
    <3> QED BY <3>2
  <2>4. there # {} => content'[Copies[first]] = content[Copies[first]]
    <3> HIDE DEF first
    <3> QED BY <2>2, <2>3
  <2> QED BY <1>5, <2>4 DEF Stored
<1> QED BY <1>3, <1>4, <1>6

\* A step that keeps the files of the only process keeps what it knows of them,
\* unless it moves on.
LEMMA KeepsFinding ==
  ASSUME OneProcess, IInv, RegisterInv, SameFiles, saves' \in Nat, saves' >= saves,
         NEW p \in Procs, Finds(p)' /\ Saves(p)'
  PROVE  RegisterInv'
<1>1. \A q \in Procs : Finds(q)' /\ Saves(q)'
  BY DEF OneProcess
<1>2. \A n \in Names \ {"tmp"} : dir[n] # Missing => content[dir[n]] \in Int
  BY DEF IInv, TypeOK, Versions, Empty, Torn
<1>3. Begun \in Int /\ Begun' \in Int /\ Begun' >= Begun
  BY NameFacts, FilesAssumption DEF Begun, IInv, TypeOK, FilesAssumption
<1>4. Bounded'
  BY <1>2, <1>3 DEF RegisterInv, Bounded, SameFiles
<1> QED BY <1>1, <1>4 DEF RegisterInv

\* The fields of a process that a step does not set.
LEMMA GotoFields ==
  ASSUME proc \in [Procs -> ProcType], NEW p \in Procs, NEW pc, Goto(p, pc)
  PROVE  /\ proc'[p].pc = pc /\ proc'[p].at = proc[p].at /\ proc'[p].cmd = proc[p].cmd
         /\ proc'[p].data = proc[p].data /\ proc'[p].then = proc[p].then
BY DEF Goto, ProcType

\* Where nothing is looked for, written or removed there is nothing to know.
LEMMA NothingSought ==
  ASSUME NEW p \in Procs, proc'[p].pc \in {"idle", "statTarget", "running"}
  PROVE  Finds(p)' /\ Saves(p)'
BY DEF Finds, Saves, Writing, Migrating, Saving

LEMMA ExitFields ==
  ASSUME proc \in [Procs -> ProcType], NEW p \in Procs, Exit(p)
  PROVE  proc'[p].pc = "idle"
BY DEF Exit, Idle

LEMMA LookInv ==
  ASSUME OneProcess, IInv, RegisterInv, NEW p \in Procs,
         Begin(p) \/ Resolve(p) \/ EndRun(p)
  PROVE  RegisterInv'
<1> USE NameFacts
<1>0. proc \in [Procs -> ProcType] /\ proc[p] \in ProcType
  BY DEF IInv, TypeOK, ProcType
<1>1. UNCHANGED <<dir, content, saves>>
  BY DEF Begin, Resolve, StatTarget, StatFallback, Recheck, ReadSource, Read, EndRun
<1>2. SameFiles /\ \A k : NoneBefore(k)' <=> NoneBefore(k)
  BY <1>1 DEF SameFiles, NoneBefore
<1>3. Finds(p) /\ Saves(p)
  BY DEF RegisterInv
<1>s. saves \in Nat
  BY FilesAssumption DEF IInv, TypeOK, FilesAssumption
<1> SUFFICES Finds(p)' /\ Saves(p)'
  BY <1>1, <1>2, <1>s, KeepsFinding
<1>n. ASSUME proc'[p].pc \in {"idle", "statTarget", "running"} PROVE Finds(p)' /\ Saves(p)'
  BY <1>n, NothingSought
<1>4. CASE Begin(p)
  <2>1. PICK cmd \in Commands :
          proc' = [proc EXCEPT ![p] =
                     [Idle EXCEPT !.cmd = cmd,
                        !.pc = CASE cmd \in {"apply", "plan"}  -> "statTarget"
                                 [] cmd \in {"fresh", "clear"} -> "remove"
                                 [] cmd = "show"               -> "read"]]
    BY <1>4 DEF Begin
  <2>2. /\ proc'[p].at = 1 /\ proc'[p].cmd = cmd
        /\ \/ proc'[p].pc = "statTarget"
           \/ proc'[p].pc = "remove"
           \/ proc'[p].pc = "read" /\ cmd = "show"
    BY <1>0, <2>1 DEF Idle, Commands
  <2> QED BY <2>2 DEF Finds, Saves, Writing, Migrating, Saving
<1>5. CASE StatTarget(p)
  <2>1. CASE dir["target"] # Missing /\ Goto(p, "read")
    <3>1. proc'[p].pc = "read"
      BY <1>0, <2>1, GotoFields
    <3> QED BY <1>1, <2>1, <3>1 DEF Finds, Saves, Writing, Migrating, Saving
  <2>2. CASE dir["target"] = Missing /\ proc' = [proc EXCEPT ![p].pc = "statFallback", ![p].at = 1]
    <3>1. proc'[p].pc = "statFallback" /\ proc'[p].at = 1
      BY <1>0, <2>2 DEF ProcType
    <3>2. NoneBefore(1)
      BY <2>2 DEF NoneBefore
    <3>3. NoneBefore(1)'
      BY <1>2, <3>2
    <3> QED BY <3>1, <3>3 DEF Finds, Saves, Writing, Migrating, Saving
  <2> QED BY <1>5, <2>1, <2>2 DEF StatTarget
<1>6. CASE StatFallback(p)
  <2>0. PICK k : k = proc[p].at
    OBVIOUS
  <2>1. NoneBefore(k) /\ k \in Nat
    BY <1>0, <1>3, <1>6, <2>0 DEF StatFallback, Finds, ProcType
  <2>2. CASE k > Len(Fallbacks) /\ Goto(p, "read")
    <3>1. proc'[p].pc = "read"
      BY <1>0, <2>2, GotoFields
    <3>2. NoneBefore(Len(Fallbacks) + 1)
      BY <2>1, <2>2 DEF NoneBefore
    <3>3. NoneBefore(Len(Fallbacks) + 1)'
      BY <1>2, <3>2
    <3> QED BY <3>1, <3>3 DEF Finds, Saves, Writing, Migrating, Saving
  <2>3. CASE /\ k <= Len(Fallbacks) /\ dir[Fallbacks[k]] = Missing
             /\ proc' = [proc EXCEPT ![p].at = @ + 1]
    <3>1. proc'[p].pc = "statFallback" /\ proc'[p].at = k + 1
      BY <1>0, <1>6, <2>0, <2>3 DEF StatFallback, ProcType
    <3>2. NoneBefore(k + 1)
      <4>1. \A i \in DOMAIN Fallbacks : i < k + 1 => i < k \/ i = k
        BY <2>1
      <4> QED BY <2>1, <2>3, <4>1 DEF NoneBefore
    <3>3. NoneBefore(k + 1)'
      BY <1>2, <3>2
    <3> QED BY <3>1, <3>3 DEF Finds, Saves, Writing, Migrating, Saving
  <2>4. CASE /\ k <= Len(Fallbacks) /\ dir[Fallbacks[k]] # Missing
             /\ Goto(p, "recheck")
    <3>1. proc'[p].pc = "recheck" /\ proc'[p].at = k
      BY <1>0, <2>0, <2>4, GotoFields
    <3>2. k \in DOMAIN Fallbacks
      BY <1>0, <2>0, <2>4 DEF ProcType
    <3>3. NoneBefore(k)'
      BY <1>2, <2>1
    <3> QED BY <1>1, <2>4, <3>1, <3>2, <3>3 DEF Finds, Saves, Writing, Migrating, Saving
  <2> QED BY <1>6, <2>0, <2>2, <2>3, <2>4 DEF StatFallback
<1>7. CASE Recheck(p)
  <2>1. /\ proc[p].at \in DOMAIN Fallbacks
        /\ NoneBefore(proc[p].at) /\ dir[Fallbacks[proc[p].at]] # Missing
    BY <1>3, <1>7 DEF Recheck, Finds
  <2>2. Goto(p, "readSource")
    BY <1>7, <2>1 DEF Recheck, NoneBefore
  <2>3. proc'[p].pc = "readSource" /\ proc'[p].at = proc[p].at
    BY <1>0, <2>2, GotoFields
  <2>4. NoneBefore(proc[p].at)'
    BY <1>2, <2>1, <2>3
  <2> QED BY <1>1, <2>1, <2>3, <2>4 DEF Finds, Saves, Writing, Migrating, Saving
<1>8. CASE ReadSource(p)
  <2>0. PICK k : k = proc[p].at
    OBVIOUS
  <2> DEFINE source == dir[Fallbacks[k]]
  <2>1. k \in DOMAIN Fallbacks /\ NoneBefore(k) /\ source # Missing
    BY <1>3, <1>8, <2>0 DEF ReadSource, Finds
  <2>2. proc' = [proc EXCEPT ![p].pc = "open", ![p].data = content[source], ![p].then = "read"]
    BY <1>8, <2>0, <2>1 DEF ReadSource
  <2>3. /\ proc'[p].pc = "open" /\ proc'[p].at = k /\ proc'[p].then = "read"
        /\ proc'[p].data = content[source]
    <3> HIDE DEF source
    <3> QED BY <1>0, <2>0, <2>2 DEF ProcType
  <2>4. NoneBefore(k)'
    BY <1>2, <2>1
  <2>5. source' = source /\ content'[source] = content[source]
    BY <1>1, <2>3
  <2> QED BY <1>1, <2>1, <2>3, <2>4, <2>5 DEF Finds, Saves, Writing, Migrating, Saving, Pending
<1>9. CASE Read(p)
  <2>1. proc'[p].pc \in {"idle", "running", "statTarget"}
    <3>1. CASE Exit(p)
      BY <1>0, <3>1, ExitFields
    <3>2. CASE Goto(p, "running")
      BY <1>0, <3>2, GotoFields
    <3>3. CASE proc' = [proc EXCEPT ![p].pc = "statTarget", ![p].load = @ + 1]
      BY <1>0, <3>3 DEF ProcType
    <3> QED BY <1>9, <3>1, <3>2, <3>3 DEF Read
  <2> QED BY <1>n, <2>1
<1>10. CASE EndRun(p)
  BY <1>0, <1>n, <1>10, ExitFields DEF EndRun
<1> QED BY <1>4, <1>5, <1>6, <1>7, <1>8, <1>9, <1>10 DEF Resolve
\* While the temporary file is written, the others are left alone.
LEMMA WriteInv ==
  ASSUME OneProcess, IInv, SaveInv, RegisterInv, NEW p \in Procs,
         BeginSave(p) \/ Open(p) \/ Write(p) \/ WritePartly(p)
  PROVE  RegisterInv' /\ SameFiles
<1> USE NameFacts
<1>0. /\ proc \in [Procs -> ProcType] /\ proc[p] \in ProcType
      /\ dir \in [Names -> Inodes \cup {Missing}]
      /\ content \in [Inodes -> Versions \cup {Empty, Torn}]
      /\ saves \in Nat /\ Missing \notin Inodes
  BY FilesAssumption DEF IInv, TypeOK, ProcType, Inodes, Missing, FilesAssumption
<1>1. Finds(p) /\ Saves(p) /\ Bounded
  BY DEF RegisterInv
<1>2. PICK k : k = proc[p].at
  OBVIOUS
<1>3. CASE BeginSave(p)
  <2>1. UNCHANGED <<dir, content>> /\ saves' = saves + 1
    BY <1>3 DEF BeginSave
  <2>2. SameFiles
    BY <2>1 DEF SameFiles
  <2>3. /\ proc'[p].pc = "open" /\ proc'[p].then = "running"
        /\ proc'[p].data = Len(Fallbacks) + saves + 1
    BY <1>0, <1>3 DEF BeginSave, ProcType
  <2>4. Begun' = Begun + 1 /\ proc'[p].data = Begun' /\ Begun \in Int
    BY <1>0, <2>1, <2>3 DEF Begun
  <2>5. \A n \in Names \ {"tmp"} : dir'[n] # Missing => content'[dir'[n]] < Begun'
    <3>1. \A n \in Names \ {"tmp"} : dir[n] # Missing => content[dir[n]] \in Int
      BY <1>0 DEF Versions, Empty, Torn
    <3> QED BY <1>1, <2>1, <2>4, <3>1 DEF Bounded
  <2>6. Finds(p)' /\ Saves(p)'
    BY <2>3, <2>4, <2>5 DEF Finds, Saves, Writing, Migrating, Saving, Pending
  <2>7. saves' \in Nat /\ saves' >= saves
    BY <1>0, <2>1
  <2> QED BY <2>2, <2>6, <2>7, KeepsFinding
<1>4. CASE Open(p)
  <2> DEFINE inode == IF dir["tmp"] = Missing THEN CHOOSE i \in Unused : TRUE ELSE dir["tmp"]
  <2>1. inode \in Inodes /\ \A n \in Names \ {"tmp"} : dir[n] # inode
    <3>1. CASE dir["tmp"] = Missing
      BY <3>1, UnusedInode DEF Unused, IInv
    <3>2. CASE dir["tmp"] # Missing
      BY <1>0, <3>2 DEF IInv, CopiesInv
    <3> QED BY <3>1, <3>2
  <2>2. /\ dir' = [dir EXCEPT !["tmp"] = inode]
        /\ content' = [content EXCEPT ![inode] = Empty]
        /\ proc' = [proc EXCEPT ![p].pc = "write", ![p].fd = inode]
        /\ proc[p].pc = "open" /\ saves' = saves
    BY <1>4 DEF Open, TempFile
  <2> HIDE DEF inode
  <2>3. SameFiles
    BY <1>0, <2>1, <2>2 DEF SameFiles
  <2>4. /\ proc'[p].pc = "write" /\ proc'[p].at = k /\ proc'[p].then = proc[p].then
        /\ proc'[p].data = proc[p].data
    BY <1>0, <1>2, <2>2 DEF ProcType
  <2>5. NoneBefore(k)' <=> NoneBefore(k)
    BY <2>3, SameStore
  <2>6. Finds(p)'
    BY <1>1, <1>2, <2>2, <2>3, <2>4, <2>5
       DEF Finds, Writing, Migrating, Pending, SameFiles
  <2>7. Saves(p)'
    BY <1>1, <2>2, <2>3, <2>4
       DEF Saves, Writing, Migrating, Saving, Pending, SameFiles, Begun
  <2> QED BY <1>0, <2>2, <2>3, <2>6, <2>7, KeepsFinding
<1>5. CASE Write(p) \/ WritePartly(p)
  <2>1. /\ proc[p].pc = "write" /\ proc[p].fd = dir["tmp"] /\ content[proc[p].fd] = Empty
        /\ dir["tmp"] \in Inodes /\ UNCHANGED <<dir, saves>>
    BY <1>0, <1>5 DEF Write, WritePartly, SaveInv, IInv, CopiesInv
  <2>2. PICK result : content' = [content EXCEPT ![dir["tmp"]] = result]
    BY <1>5, <2>1 DEF Write, WritePartly
  <2>3. SameFiles
    <3>1. \A n \in Names \ {"tmp"} : dir[n] # Missing => dir[n] \in Inodes /\ dir[n] # dir["tmp"]
      BY <1>0 DEF IInv, CopiesInv
    <3> QED BY <1>0, <2>1, <2>2, <3>1 DEF SameFiles
  <2>4. CASE Write(p)
    <3>1. content'[dir'["tmp"]] = proc[p].data
      BY <1>0, <2>1, <2>4 DEF Write
    <3>2. /\ proc'[p].pc = "rename" /\ proc'[p].at = k /\ proc'[p].then = proc[p].then
      BY <1>0, <1>2, <2>4 DEF Write, ProcType
    <3>3. NoneBefore(k)' <=> NoneBefore(k)
      BY <2>3, SameStore
    <3>4. Finds(p)'
      BY <1>1, <1>2, <2>1, <2>3, <3>1, <3>2, <3>3
         DEF Finds, Writing, Migrating, Pending, SameFiles
    <3>5. Saves(p)'
      BY <1>1, <2>1, <2>3, <3>1, <3>2
         DEF Saves, Writing, Migrating, Saving, Pending, SameFiles, Begun
    <3> QED BY <1>0, <2>1, <2>3, <3>4, <3>5, KeepsFinding
  <2>5. CASE WritePartly(p)
    <3>1. proc'[p].pc = "idle"
      BY <1>0, <2>5, ExitFields DEF WritePartly
    <3> QED BY <1>0, <2>1, <2>3, <3>1, NothingSought, KeepsFinding
  <2> QED BY <1>5, <2>4, <2>5
<1> QED BY <1>3, <1>4, <1>5

LEMMA RenameInv ==
  ASSUME OneProcess, IInv, SaveInv, RegisterInv, NEW p \in Procs, Rename(p)
  PROVE  /\ RegisterInv'
         /\ dir["tmp"] # Missing /\ dir'["target"] = dir["tmp"] /\ UNCHANGED content
         /\ \A i \in DOMAIN Fallbacks : dir'[Fallbacks[i]] = dir[Fallbacks[i]]
         /\ proc'[p].pc = proc[p].then
<1> USE NameFacts
<1>0. /\ proc \in [Procs -> ProcType] /\ proc[p] \in ProcType
      /\ dir \in [Names -> Inodes \cup {Missing}]
  BY DEF IInv, TypeOK, ProcType
<1>1. Finds(p) /\ Saves(p) /\ Bounded
  BY DEF RegisterInv
<1>2. proc[p].pc = "rename" /\ dir["tmp"] # Missing
  BY DEF Rename, SaveInv
<1>3. /\ dir' = [dir EXCEPT !["tmp"] = Missing, !["target"] = dir["tmp"]]
      /\ proc' = [proc EXCEPT ![p].pc = proc[p].then, ![p].data = Empty]
      /\ UNCHANGED <<content, saves>>
  BY <1>2 DEF Rename, TempFile
<1>4. /\ dir'["target"] = dir["tmp"]
      /\ \A n \in Names \ {"tmp", "target"} : dir'[n] = dir[n]
  BY <1>0, <1>3
<1>5. proc'[p].pc = proc[p].then
  BY <1>0, <1>3 DEF ProcType
<1>6. content[dir["tmp"]] <= Begun
  <2>1. Begun \in Int
    BY FilesAssumption DEF Begun, IInv, TypeOK, FilesAssumption
  <2>2. CASE Saving(p)
    BY <1>1, <1>2, <2>1, <2>2 DEF Saves, Pending
  <2>3. CASE Migrating(p)
    <3>1. /\ proc[p].at \in DOMAIN Fallbacks /\ dir[Fallbacks[proc[p].at]] # Missing
          /\ content[dir["tmp"]] = content[dir[Fallbacks[proc[p].at]]]
      BY <1>1, <1>2, <2>3 DEF Finds, Pending
    <3> QED BY <1>1, <3>1 DEF Bounded
  <2> QED BY <1>1, <1>2, <2>2, <2>3 DEF Saves, Writing
<1>7. Bounded'
  BY <1>1, <1>3, <1>4, <1>6 DEF Bounded, Begun
<1>8. Finds(p)' /\ Saves(p)'
  <2>1. proc[p].then \in {"read", "running"}
    BY <1>1, <1>2 DEF Saves, Writing, Migrating, Saving
  <2> QED BY <1>2, <1>4, <1>5, <2>1 DEF Finds, Saves, Writing, Migrating, Saving
<1>9. \A q \in Procs : Finds(q)' /\ Saves(q)'
  BY <1>8 DEF OneProcess
<1>10. RegisterInv'
  BY <1>7, <1>9 DEF RegisterInv
<1> QED BY <1>2, <1>3, <1>4, <1>5, <1>10

LEMMA RemoveInv ==
  ASSUME OneProcess, IInv, RegisterInv, NEW p \in Procs, Remove(p)
  PROVE  /\ RegisterInv'
         /\ \A n \in Names : dir'[n] \in {dir[n], Missing}
         /\ dir'["target"] = Missing /\ UNCHANGED content /\ proc'[p].pc = "remove"
<1> USE NameFacts
<1>0. /\ proc \in [Procs -> ProcType] /\ proc[p] \in ProcType
      /\ dir \in [Names -> Inodes \cup {Missing}]
  BY DEF IInv, TypeOK, ProcType
<1>1. Finds(p) /\ Bounded
  BY DEF RegisterInv
<1>2. PICK k : k = proc[p].at
  OBVIOUS
<1>3. /\ proc[p].pc = "remove" /\ k <= Len(ClearPaths) /\ UNCHANGED <<content, saves>>
      /\ dir' = [dir EXCEPT ![ClearPaths[k]] = Missing]
      /\ proc' = [proc EXCEPT ![p].at = @ + 1]
  BY <1>2 DEF Remove
<1>4. /\ Len(ClearPaths) = Len(Fallbacks) + 1 /\ ClearPaths[1] = "target"
      /\ \A i \in DOMAIN Fallbacks : ClearPaths[i + 1] = Fallbacks[i]
  BY FilesAssumption DEF ClearPaths, FilesAssumption
<1>5. k \in 1..(Len(Fallbacks) + 1)
  BY <1>0, <1>2, <1>3, <1>4 DEF ProcType
<1>6. proc'[p].pc = "remove" /\ proc'[p].at = k + 1
  BY <1>0, <1>2, <1>3 DEF ProcType
<1>7. ClearPaths[k] \in Names /\ (k = 1 \/ (k - 1 \in DOMAIN Fallbacks /\ ClearPaths[k] = Fallbacks[k - 1]))
  <2>1. CASE k = 1
    BY <1>4, <2>1
  <2>2. CASE k # 1
    <3>1. k - 1 \in DOMAIN Fallbacks /\ k = (k - 1) + 1
      BY <1>5, <2>2
    <3> QED BY <1>4, <3>1
  <2> QED BY <2>1, <2>2
<1>8. /\ \A n \in Names : dir'[n] \in {dir[n], Missing}
      /\ dir'[ClearPaths[k]] = Missing
  BY <1>0, <1>3, <1>7
<1>9. NoneBefore(k)'
  <2>1. CASE k = 1
    BY <1>4, <1>8, <2>1 DEF NoneBefore
  <2>2. CASE k # 1
    <3>1. NoneBefore(k - 1)
      BY <1>1, <1>2, <1>3, <1>5, <2>2 DEF Finds
    <3>2. ASSUME NEW i \in DOMAIN Fallbacks, i < k PROVE dir'[Fallbacks[i]] = Missing
      <4>1. i < k - 1 \/ i = k - 1
        BY <1>5, <3>2
      <4> QED BY <1>7, <1>8, <2>2, <3>1, <4>1 DEF NoneBefore
    <3>3. dir'["target"] = Missing
      BY <1>8, <3>1 DEF NoneBefore
    <3> QED BY <3>2, <3>3 DEF NoneBefore
  <2> QED BY <2>1, <2>2
<1>10. Finds(p)' /\ Saves(p)'
  <2>1. k + 1 - 1 = k
    BY <1>5
  <2>2. proc'[p].at - 1 = k
    <3> HIDE DEF NoneBefore
    <3> QED BY <1>5, <1>6
  <2>3. NoneBefore(proc[p].at - 1)'
    BY <1>9, <2>2 DEF NoneBefore
  <2> QED BY <1>6, <2>3 DEF Finds, Saves, Writing, Migrating, Saving
<1>11. \A q \in Procs : Finds(q)' /\ Saves(q)'
  BY <1>10 DEF OneProcess
<1>12. Bounded'
  BY <1>1, <1>3, <1>8 DEF Bounded, Begun
<1>13. dir'["target"] = Missing
  BY <1>9 DEF NoneBefore
<1> QED BY <1>3, <1>6, <1>8, <1>11, <1>12, <1>13 DEF RegisterInv

LEMMA EndInv ==
  ASSUME OneProcess, IInv, RegisterInv, NEW p \in Procs, RemovedAll(p) \/ Kill(p)
  PROVE  RegisterInv' /\ UNCHANGED <<dir, content, saves, loaded>> /\ proc'[p].pc \in {"idle", "running"}
<1>1. UNCHANGED <<dir, content, saves, loaded>>
  BY DEF RemovedAll, Kill
<1>2. proc'[p].pc \in {"idle", "running"}
  BY ExitFields, GotoFields DEF RemovedAll, Kill, IInv, TypeOK, ProcType
<1>3. SameFiles
  BY <1>1 DEF SameFiles
<1>4. saves \in Nat
  BY FilesAssumption DEF IInv, TypeOK, FilesAssumption
<1> QED BY <1>1, <1>2, <1>3, <1>4, NothingSought, KeepsFinding

LEMMA RegisterStep ==
  ASSUME OneProcess, IInv, SaveInv, RegisterInv, [Next]_fileVars
  PROVE  RegisterInv'
<1>1. CASE UNCHANGED fileVars
  BY <1>1 DEF fileVars, RegisterInv, Bounded, Finds, Saves, NoneBefore, Writing, Migrating,
              Saving, Pending, Begun
<1>2. ASSUME NEW p \in Procs,
             Begin(p) \/ Resolve(p) \/ Save(p) \/ EndRun(p) \/ Remove(p) \/ RemovedAll(p) \/ Kill(p)
      PROVE  RegisterInv'
  BY <1>2, LookInv, WriteInv, RenameInv, RemoveInv, EndInv DEF Save
<1> QED BY <1>1, <1>2 DEF Next

LEMMA RegisterInit == Init => RegisterInv
<1> SUFFICES ASSUME Init PROVE RegisterInv
  OBVIOUS
<1> USE NameFacts
<1>1. PICK left \in SUBSET DOMAIN Fallbacks :
        dir = [n \in Names |->
                 IF \E i \in left : Fallbacks[i] = n
                 THEN CHOOSE i \in left : Fallbacks[i] = n ELSE Missing]
  BY DEF Init
<1>2. ASSUME NEW n \in Names, dir[n] # Missing PROVE content[dir[n]] <= Begun
  <2>1. dir[n] \in 1..Len(Fallbacks)
    BY <1>1, <1>2
  <2>2. dir[n] \in Inodes
    BY <2>1 DEF Inodes
  <2>3. content[dir[n]] = Len(Fallbacks) + 1 - dir[n]
    BY <2>1, <2>2 DEF Init
  <2>4. Begun = Len(Fallbacks)
    BY DEF Init, Begun
  <2> QED BY <2>1, <2>3, <2>4
<1>3. \A p \in Procs : proc[p].pc = "idle"
  BY DEF Init, Idle
<1>4. \A p \in Procs : Finds(p) /\ Saves(p)
  BY <1>3 DEF Finds, Saves, Writing, Migrating, Saving
<1> QED BY <1>2, <1>4 DEF RegisterInv, Bounded

\* What older releases left is the first state of the register.
LEMMA StoreInit == Init => Store!Init
<1> SUFFICES ASSUME Init PROVE Store!Init
  OBVIOUS
<1> USE NameFacts
<1>1. IInv
  BY InitInv
<1>2. dir["target"] = Missing
  BY DEF Init
<1>3. Stored \in Older \cup {Empty} /\ (Stored = Empty => Older = {})
  BY <1>1, <1>2, StoredFacts
<1>4. Older \subseteq Versions
  BY <1>1 DEF Older, IInv, CopiesInv
<1>5. Clearing = "no"
  BY DEF Clearing, Init, Idle
<1>6. loaded = Empty
  BY DEF Init
<1> QED BY <1>3, <1>4, <1>5, <1>6 DEF Store!Init, Older, Clearing

\* One process at a time: the state is being cleared when that one clears it.
LEMMA ClearingOf ==
  ASSUME OneProcess, NEW p \in Procs
  PROVE  /\ Clearing = IF proc[p].pc = "remove" THEN "running"
                       ELSE IF cleared THEN "done" ELSE "no"
         /\ Clearing' = IF proc'[p].pc = "remove" THEN "running"
                        ELSE IF cleared' THEN "done" ELSE "no"
BY DEF OneProcess, Clearing

\* The register's actions, and its stuttering, under the refinement mapping.
LEMMA StoreActions ==
  /\ UNCHANGED <<Stored, Older, loaded, Clearing>> => UNCHANGED Store!storeVars
  /\ Stored' \in Versions \ (Older \cup {Stored}) /\ Clearing' = "no" /\ UNCHANGED <<Older, loaded>>
       => Store!Save
  /\ loaded' = Stored /\ UNCHANGED <<Stored, Older, Clearing>> => Store!Load
  /\ Clearing' = "running" /\ UNCHANGED <<Stored, Older, loaded>> => Store!BeginClear
  /\ /\ Clearing = "running" /\ Older' \subseteq Older /\ Stored' \in Older' \cup {Empty}
     /\ Stored' = Empty => Older' = {}
     /\ UNCHANGED <<loaded, Clearing>>
     => Store!Drop
  /\ Clearing = "running" /\ Stored = Empty /\ Clearing' = "done" /\ UNCHANGED <<Stored, Older, loaded>>
       => Store!EndClear
  /\ Clearing = "running" /\ Clearing' = "no" /\ UNCHANGED <<Stored, Older, loaded>>
       => Store!AbandonClear
BY DEF Store!storeVars, Store!Save, Store!Load, Store!BeginClear, Store!Drop, Store!EndClear,
       Store!AbandonClear, Older, Clearing

\* A step that leaves the files, what was read and what was cleared is none of
\* the register's.
LEMMA Stutters ==
  ASSUME OneProcess, IInv, SameFiles, NEW p \in Procs,
         UNCHANGED <<loaded, cleared>>, proc[p].pc # "remove", proc'[p].pc # "remove"
  PROVE  UNCHANGED Store!storeVars
<1>1. Stored' = Stored /\ Older' = Older
  BY SameStore
<1>2. Clearing' = Clearing
  BY ClearingOf
<1> QED BY <1>1, <1>2, StoreActions

LEMMA LookRefines ==
  ASSUME OneProcess, IInv, RegisterInv, NEW p \in Procs,
         Begin(p) \/ Resolve(p) \/ EndRun(p)
  PROVE  [Store!Next]_(Store!storeVars)
<1> USE NameFacts
<1>0. proc \in [Procs -> ProcType] /\ proc[p] \in ProcType
  BY DEF IInv, TypeOK, ProcType
<1>1. UNCHANGED <<dir, content, cleared>>
  BY DEF Begin, Resolve, StatTarget, StatFallback, Recheck, ReadSource, Read, EndRun
<1>2. SameFiles
  BY <1>1 DEF SameFiles
<1>3. Stored' = Stored /\ Older' = Older
  BY <1>2, SameStore
<1>4. CASE Begin(p)
  <2>1. loaded' = loaded /\ proc[p].pc = "idle"
    BY <1>4 DEF Begin
  <2>2. CASE proc'[p].pc = "remove"
    <3>1. Clearing' = "running"
      BY <2>2, ClearingOf
    <3>2. Store!BeginClear
      BY <1>3, <2>1, <3>1, StoreActions
    <3> QED BY <3>2 DEF Store!Next
  <2>3. CASE proc'[p].pc # "remove"
    BY <1>1, <1>2, <2>1, <2>3, Stutters
  <2> QED BY <2>2, <2>3
<1>5. CASE StatTarget(p) \/ StatFallback(p) \/ Recheck(p) \/ ReadSource(p) \/ EndRun(p)
  <2>1. loaded' = loaded /\ proc[p].pc # "remove"
    BY <1>5 DEF StatTarget, StatFallback, Recheck, ReadSource, EndRun
  <2>2. proc'[p].pc # "remove"
    <3>1. CASE StatTarget(p)
      BY <1>0, <3>1 DEF StatTarget, Goto, ProcType
    <3>2. CASE StatFallback(p)
      BY <1>0, <3>2 DEF StatFallback, Goto, ProcType
    <3>3. CASE Recheck(p)
      BY <1>0, <3>3 DEF Recheck, Goto, ProcType
    <3>4. CASE ReadSource(p)
      <4>1. CASE Exit(p)
        BY <1>0, <4>1, ExitFields
      <4>2. CASE \E d : proc' = [proc EXCEPT ![p].pc = "open", ![p].data = d, ![p].then = "read"]
        BY <1>0, <4>2 DEF ProcType
      <4> QED BY <3>4, <4>1, <4>2 DEF ReadSource
    <3>5. CASE EndRun(p)
      BY <1>0, <3>5, ExitFields DEF EndRun
    <3> QED BY <1>5, <3>1, <3>2, <3>3, <3>4, <3>5
  <2> QED BY <1>1, <1>2, <2>1, <2>2, Stutters
<1>6. CASE Read(p)
  <2>1. proc[p].pc = "read"
    BY <1>6 DEF Read
  <2>2. proc'[p].pc # "remove"
    <3>1. CASE Exit(p)
      BY <1>0, <3>1, ExitFields
    <3>2. CASE Goto(p, "running")
      BY <1>0, <3>2, GotoFields
    <3>3. CASE proc' = [proc EXCEPT ![p].pc = "statTarget", ![p].load = @ + 1]
      BY <1>0, <3>3 DEF ProcType
    <3> QED BY <1>6, <3>1, <3>2, <3>3 DEF Read
  <2>3. CASE loaded' = loaded
    BY <1>1, <1>2, <2>1, <2>2, <2>3, Stutters
  <2>4. CASE loaded' # loaded
    <3>1. /\ proc[p].cmd # "show"
          /\ loaded' = IF dir["target"] = Missing THEN Empty ELSE content[dir["target"]]
      BY <1>6, <2>4 DEF Read
    <3>2. dir["target"] # Missing \/ NoneBefore(Len(Fallbacks) + 1)
      BY <2>1, <3>1 DEF RegisterInv, Finds
    <3>3. loaded' = Stored
      <4>1. CASE dir["target"] # Missing
        BY <3>1, <4>1, StoredFacts
      <4>2. CASE dir["target"] = Missing
        BY <3>1, <3>2, <4>2, StoredFacts
      <4> QED BY <4>1, <4>2
    <3>4. Clearing' = Clearing
      BY <1>1, <2>1, <2>2, ClearingOf
    <3>5. Store!Load
      BY <1>3, <3>3, <3>4, StoreActions
    <3> QED BY <3>5 DEF Store!Next
  <2> QED BY <2>3, <2>4
<1> QED BY <1>4, <1>5, <1>6 DEF Resolve

LEMMA WriteRefines ==
  ASSUME OneProcess, IInv, SaveInv, RegisterInv, NEW p \in Procs,
         BeginSave(p) \/ Open(p) \/ Write(p) \/ WritePartly(p)
  PROVE  [Store!Next]_(Store!storeVars)
<1>0. proc \in [Procs -> ProcType] /\ proc[p] \in ProcType
  BY DEF IInv, TypeOK, ProcType
<1>1. SameFiles
  BY WriteInv
<1>2. UNCHANGED <<loaded, cleared>> /\ proc[p].pc # "remove"
  BY DEF BeginSave, Open, Write, WritePartly
<1>3. proc'[p].pc # "remove"
  <2>1. CASE BeginSave(p)
    BY <1>0, <2>1 DEF BeginSave, ProcType
  <2>2. CASE Open(p)
    <3>1. CASE \E i : proc' = [proc EXCEPT ![p].pc = "write", ![p].fd = i]
      BY <1>0, <3>1 DEF ProcType
    <3> QED BY <2>2, <3>1 DEF Open
  <2>3. CASE Write(p)
    BY <1>0, <2>3 DEF Write, ProcType
  <2>4. CASE WritePartly(p)
    BY <1>0, <2>4, ExitFields DEF WritePartly
  <2> QED BY <2>1, <2>2, <2>3, <2>4
<1> QED BY <1>1, <1>2, <1>3, Stutters

\* The rename is the step that saves, or moves an older copy to the target.
LEMMA RenameRefines ==
  ASSUME OneProcess, IInv, IInv', SaveInv, RegisterInv, NEW p \in Procs, Rename(p)
  PROVE  [Store!Next]_(Store!storeVars)
<1> USE NameFacts
<1>1. /\ dir["tmp"] # Missing /\ dir'["target"] = dir["tmp"] /\ content' = content
      /\ \A i \in DOMAIN Fallbacks : dir'[Fallbacks[i]] = dir[Fallbacks[i]]
      /\ proc'[p].pc = proc[p].then
  BY RenameInv
<1>2. /\ proc[p].pc = "rename" /\ loaded' = loaded
      /\ cleared' = (cleared /\ proc[p].then = "read")
  BY <1>1 DEF Rename, TempFile
<1>3. Stored' = content[dir["tmp"]]
  <2>1. dir'["target"] # Missing
    BY <1>1
  <2>2. (dir["target"] # Missing => Stored = content[dir["target"]])'
    BY StoredFacts, PTL
  <2> QED BY <1>1, <2>1, <2>2
<1>4. Older' = Older
  BY <1>1 DEF Older
<1>5. Finds(p) /\ Saves(p)
  BY DEF RegisterInv
<1>6. CASE Migrating(p)
  <2>1. /\ proc[p].at \in DOMAIN Fallbacks /\ NoneBefore(proc[p].at)
        /\ dir[Fallbacks[proc[p].at]] # Missing
        /\ content[dir["tmp"]] = content[dir[Fallbacks[proc[p].at]]]
    BY <1>2, <1>5, <1>6 DEF Finds, Pending
  <2>2. Stored = content[dir[Fallbacks[proc[p].at]]]
    BY <2>1, StoredFacts
  <2>3. proc[p].then = "read" /\ Clearing' = Clearing
    BY <1>1, <1>2, <1>6, ClearingOf DEF Migrating
  <2> QED BY <1>2, <1>3, <1>4, <2>1, <2>2, <2>3, StoreActions
<1>7. CASE Saving(p)
  <2>1. /\ content[dir["tmp"]] = Begun
        /\ \A n \in Names \ {"tmp"} : dir[n] # Missing => content[dir[n]] < Begun
    BY <1>2, <1>5, <1>7 DEF Saves, Pending
  <2>2. Begun \in Versions
    BY <1>2, <2>1 DEF SaveInv
  <2>3. Begun \notin Older
    <3>1. ASSUME NEW i \in DOMAIN Fallbacks, dir[Fallbacks[i]] # Missing
          PROVE  content[dir[Fallbacks[i]]] # Begun
      <4>1. content[dir[Fallbacks[i]]] < Begun
        BY <2>1, <3>1
      <4> QED BY <2>2, <4>1 DEF Versions
    <3> QED BY <3>1 DEF Older
  <2>4. Begun # Stored
    <3>1. CASE dir["target"] = Missing
      <4>1. Stored \in Older \cup {Empty}
        BY <3>1, StoredFacts
      <4>2. Begun # Empty
        BY <2>2 DEF Versions, Empty
      <4> QED BY <2>3, <4>1, <4>2
    <3>2. CASE dir["target"] # Missing
      <4>1. Stored = content[dir["target"]] /\ content[dir["target"]] < Begun
        BY <2>1, <3>2, StoredFacts
      <4> QED BY <2>2, <4>1 DEF Versions
    <3> QED BY <3>1, <3>2
  <2>5. Clearing' = "no"
    BY <1>1, <1>2, <1>7, ClearingOf DEF Saving
  <2>6. Store!Save
    BY <1>2, <1>3, <1>4, <2>1, <2>2, <2>3, <2>4, <2>5, StoreActions
  <2> QED BY <2>6 DEF Store!Next
<1> QED BY <1>2, <1>5, <1>6, <1>7 DEF Saves, Writing

\* Files are removed one by one, the one that would be read next first.
LEMMA ClearRefines ==
  ASSUME OneProcess, IInv, IInv', RegisterInv, NEW p \in Procs,
         Remove(p) \/ RemovedAll(p) \/ Kill(p)
  PROVE  [Store!Next]_(Store!storeVars)
<1> USE NameFacts
<1>0. proc \in [Procs -> ProcType] /\ proc[p] \in ProcType
  BY DEF IInv, TypeOK, ProcType
<1>1. CASE Remove(p)
  <2>1. /\ \A n \in Names : dir'[n] \in {dir[n], Missing}
        /\ dir'["target"] = Missing /\ content' = content /\ proc'[p].pc = "remove"
    BY <1>1, RemoveInv
  <2>2. proc[p].pc = "remove" /\ UNCHANGED <<loaded, cleared>>
    BY <1>1 DEF Remove
  <2>3. Clearing = "running" /\ Clearing' = "running"
    BY <2>1, <2>2, ClearingOf
  <2>4. Older' \subseteq Older
    <3>1. \A i \in DOMAIN Fallbacks : dir'[Fallbacks[i]] \in {dir[Fallbacks[i]], Missing}
      BY <2>1
    <3> QED BY <2>1, <3>1 DEF Older
  <2>5. Stored' \in Older' \cup {Empty} /\ (Stored' = Empty => Older' = {})
    <3>1. (dir["target"] = Missing =>
             Stored \in Older \cup {Empty} /\ (Stored = Empty => Older = {}))'
      BY StoredFacts, PTL
    <3>2. Empty' = Empty
      BY DEF Empty
    <3> QED BY <2>1, <3>1, <3>2
  <2>6. Store!Drop
    BY <2>2, <2>3, <2>4, <2>5, StoreActions
  <2> QED BY <2>6 DEF Store!Next
<1>2. CASE RemovedAll(p) \/ Kill(p)
  <2>1. UNCHANGED <<dir, content, loaded>> /\ proc'[p].pc # "remove"
    BY <1>2, EndInv
  <2>2. SameFiles
    BY <2>1 DEF SameFiles
  <2>3. Stored' = Stored /\ Older' = Older
    BY <2>2, SameStore
  <2>4. CASE RemovedAll(p)
    <3>1. proc[p].pc = "remove" /\ proc[p].at > Len(ClearPaths) /\ cleared' = TRUE
      BY <2>4 DEF RemovedAll
    <3>2. Len(ClearPaths) = Len(Fallbacks) + 1 /\ proc[p].at \in Nat
      BY <1>0, FilesAssumption DEF ClearPaths, FilesAssumption, ProcType
    <3>3. NoneBefore(proc[p].at - 1)
      BY <3>1, <3>2 DEF RegisterInv, Finds
    <3>4. NoneBefore(Len(Fallbacks) + 1)
      BY <3>1, <3>2, <3>3 DEF NoneBefore
    <3>5. Stored = Empty
      BY <3>4, StoredFacts
    <3>6. Clearing = "running" /\ Clearing' = "done"
      BY <2>1, <3>1, ClearingOf
    <3>7. Store!EndClear
      BY <2>1, <2>3, <3>5, <3>6, StoreActions
    <3> QED BY <3>7 DEF Store!Next
  <2>5. CASE Kill(p) /\ proc[p].pc = "remove"
    <3>1. cleared' = FALSE
      BY <2>5 DEF Kill
    <3>2. Clearing = "running" /\ Clearing' = "no"
      BY <2>1, <2>5, <3>1, ClearingOf
    <3>3. Store!AbandonClear
      BY <2>1, <2>3, <3>2, StoreActions
    <3> QED BY <3>3 DEF Store!Next
  <2>6. CASE Kill(p) /\ proc[p].pc # "remove"
    <3>1. cleared' = cleared
      BY <2>6 DEF Kill, IInv, TypeOK
    <3> QED BY <2>1, <2>2, <2>6, <3>1, Stutters
  <2> QED BY <1>2, <2>4, <2>5, <2>6
<1> QED BY <1>1, <1>2

LEMMA StoreStep ==
  ASSUME OneProcess, IInv, IInv', SaveInv, RegisterInv, [Next]_fileVars
  PROVE  [Store!Next]_(Store!storeVars)
<1>1. CASE UNCHANGED fileVars
  <2>1. UNCHANGED <<Stored, Older, loaded, Clearing>>
    BY <1>1 DEF fileVars, Stored, Copies, Older, Clearing
  <2> QED BY <2>1, StoreActions
<1>2. ASSUME NEW p \in Procs,
             Begin(p) \/ Resolve(p) \/ Save(p) \/ EndRun(p) \/ Remove(p) \/ RemovedAll(p) \/ Kill(p)
      PROVE  [Store!Next]_(Store!storeVars)
  BY <1>2, LookRefines, WriteRefines, RenameRefines, ClearRefines DEF Save
<1> QED BY <1>1, <1>2 DEF Next

\* To an operator who runs one command at a time the files are a register: what a
\* command reads is what was saved last, wherever it lies, a migration and a kill
\* leave it as it was, and clearing it lets the older copies out, until none is left.
THEOREM StoreImplementedAlone ==
  ASSUME OneProcess
  PROVE  Spec => ImplementsStateStore
<1> DEFINE Inv == IInv /\ SaveInv /\ TargetWhole /\ RegisterInv
<1>1. Init => Inv
  <2> SUFFICES ASSUME Init PROVE SaveInv /\ TargetWhole
    BY InitInv, RegisterInit
  <2>1. \A p \in Procs : proc[p].pc = "idle"
    BY DEF Init, Idle
  <2>2. dir["target"] = Missing
    BY NameFacts DEF Init
  <2> QED BY <2>1, <2>2 DEF SaveInv, TargetWhole
<1>2. Inv /\ [Next]_fileVars => Inv'
  <2>1. IInv /\ [Next]_fileVars => IInv'
    BY TypeStep, CopiesStep DEF IInv
  <2> QED BY OneProcess, SaveStep, RegisterStep, <2>1
<1>3. Inv /\ Inv' /\ [Next]_fileVars => [Store!Next]_(Store!storeVars)
  BY OneProcess, StoreStep
<1> HIDE DEF Inv
<1> QED BY <1>1, <1>2, <1>3, StoreInit, PTL DEF Spec, ImplementsStateStore, Store!Spec
=============================================================================
