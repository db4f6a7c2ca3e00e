------------------------- MODULE BundleApply_proofs -------------------------
(***************************************************************************)
(* Proofs about BundleApply, for any set of archives. The manifest is the  *)
(* last section: CacheInv says that a directory with all of it has all of  *)
(* a complete bundle, or had it before a clean that was cut short,         *)
(* ImportInv that an import goes on from what it wrote, RunInv that a      *)
(* phase runs on what was loaded and verified.                             *)
(***************************************************************************)
EXTENDS BundleApply, TLAPS

CacheInv ==
  \A a \in Archives :
    cache[a]["manifest"] = "whole" => a = Complete /\ (a \notin marred => cache[a] = Whole)

ImportInv ==
  /\ pc \in {"idle", "look", "reset"} => at = 1
  /\ pc = "reset" => Dir["workflows"] = "missing"
  /\ pc = "import" =>
       /\ key \notin marred
       /\ \A j \in 1..4 : Dir[Sections[j]] = IF j < at THEN "whole" ELSE "missing"

RunInv ==
  /\ pc \in {"verify", "running"} => loaded = Dir["workflows"]
  /\ pc = "running" => VerifyOK

IInv == TypeOK /\ CacheInv /\ ImportInv /\ RunInv

-----------------------------------------------------------------------------
\* The sections, and where they are.
LEMMA SectionFacts ==
  /\ Len(Sections) = 4 /\ DOMAIN Sections = 1..4
  /\ Sections[1] = "deck" /\ Sections[2] = "workflows"
  /\ Sections[3] = "outputs" /\ Sections[4] = "manifest"
  /\ SectionNames = {"deck", "workflows", "outputs", "manifest"}
<1>1. /\ Len(Sections) = 4 /\ DOMAIN Sections = 1..4
      /\ Sections[1] = "deck" /\ Sections[2] = "workflows"
      /\ Sections[3] = "outputs" /\ Sections[4] = "manifest"
  BY DEF Sections
<1>2. SectionNames = {Sections[j] : j \in 1..4}
  BY <1>1 DEF SectionNames
<1>3. \A j \in 1..4 : j = 1 \/ j = 2 \/ j = 3 \/ j = 4
  OBVIOUS
<1> QED BY <1>1, <1>2, <1>3

\* Only the complete archive has all sections.
LEMMA CompleteIsLongest ==
  ASSUME NEW a \in Archives
  PROVE  /\ a.whole \in 0..4 /\ a.cut \in BOOLEAN
         /\ a.cut => a.whole < 4
         /\ a.whole = 4 => a = Complete
<1>1. a \in [whole : 0..4, cut : BOOLEAN] /\ (a.cut => a.whole < 4)
  BY ArchivesAssumption, SectionFacts
<1>2. a = [whole |-> a.whole, cut |-> a.cut]
  BY <1>1
<1>3. ASSUME a.whole = 4 PROVE a = Complete
  <2>1. a.cut = FALSE
    BY <1>1, <1>3
  <2>2. a = [whole |-> 4, cut |-> FALSE]
    BY <1>2, <1>3, <2>1
  <2> QED BY <2>2, SectionFacts DEF Complete
<1> QED BY <1>1, <1>3

LEMMA InitHolds == Init => IInv
<1> SUFFICES ASSUME Init PROVE IInv
  OBVIOUS
<1>1. (\A a \in Archives : cache[a] = Nothing) /\ marred = {}
  BY DEF Init
<1>2. Nothing \in [SectionNames -> States] /\ Nothing["manifest"] = "missing"
  BY SectionFacts DEF Nothing, States
<1>3. TypeOK
  BY <1>1, <1>2, CompleteIsLongest DEF Init, TypeOK, States
<1>4. CacheInv
  BY <1>1, <1>2 DEF CacheInv
<1>5. ImportInv /\ RunInv
  BY DEF Init, ImportInv, RunInv
<1> QED BY <1>3, <1>4, <1>5 DEF IInv

-----------------------------------------------------------------------------
(* The steps that write the extraction directory                           *)

LEMMA WriteDirectory ==
  ASSUME TypeOK, CacheInv, NEW a \in Archives, NEW d \in [SectionNames -> States],
         cache' = [cache EXCEPT ![a] = d],
         marred' \subseteq Archives, marred \ {a} \subseteq marred',
         marred' \subseteq marred \union {a},
         d["manifest"] = "whole" => a = Complete /\ (a \notin marred' => d = Whole)
  PROVE  /\ cache' \in [Archives -> [SectionNames -> States]]
         /\ CacheInv'
         /\ cache'[a] = d
<1>1. cache \in [Archives -> [SectionNames -> States]]
  BY DEF TypeOK
<1>2. cache' \in [Archives -> [SectionNames -> States]] /\ cache'[a] = d
  BY <1>1
<1>3. CacheInv'
  <2> SUFFICES ASSUME NEW b \in Archives, cache'[b]["manifest"] = "whole"
               PROVE  b = Complete /\ (b \notin marred' => cache'[b] = Whole)
    BY DEF CacheInv
  <2>1. CASE b = a
    BY <1>2, <2>1
  <2>2. CASE b # a
    BY <1>1, <2>2 DEF CacheInv
  <2> QED BY <2>1, <2>2
<1> QED BY <1>2, <1>3

\* What a step leaves that writes no directory and looks at the same one.
LEMMA SameDirectories ==
  ASSUME CacheInv, UNCHANGED <<cache, marred>>
  PROVE  CacheInv'
BY DEF CacheInv

\* A part of a directory has no section whole that was not.
LEMMA PartFacts ==
  ASSUME NEW d, NEW e \in PartsOf(d)
  PROVE  /\ e \in [SectionNames -> States]
         /\ e["manifest"] = "whole" => d["manifest"] = "whole"
<1>1. e \in [SectionNames -> States] /\ (e["manifest"] = d["manifest"] \/ e["manifest"] # "whole")
  BY SectionFacts DEF PartsOf
<1> QED BY <1>1

LEMMA ResetHolds == IInv /\ ResetDir => IInv'
<1> SUFFICES ASSUME IInv, ResetDir PROVE IInv'
  OBVIOUS
<1>1. Nothing \in [SectionNames -> States] /\ \A s \in SectionNames : Nothing[s] = "missing"
  BY DEF Nothing, States
<1>2. /\ cache' = [cache EXCEPT ![key] = Nothing] /\ pc = "reset" /\ pc' = "import"
      /\ archive' = archive /\ key' = key /\ at' = at /\ loaded' = loaded
      /\ marred' = marred \ {key}
  BY DEF ResetDir
<1>3. TypeOK /\ CacheInv /\ at = 1 /\ key \in Archives /\ marred \subseteq Archives
  BY <1>2 DEF IInv, ImportInv, TypeOK
<1>4. /\ cache' \in [Archives -> [SectionNames -> States]]
      /\ CacheInv'
      /\ cache'[key] = Nothing
  BY <1>1, <1>2, <1>3, SectionFacts, WriteDirectory
<1>5. TypeOK'
  BY <1>2, <1>3, <1>4 DEF TypeOK
<1>6. \A j \in 1..4 : Nothing[Sections[j]] = "missing" /\ ~(j < 1)
  BY <1>1, SectionFacts DEF SectionNames
<1>7. ImportInv' /\ RunInv'
  BY <1>2, <1>3, <1>4, <1>6 DEF ImportInv, RunInv, Dir
<1> QED BY <1>4, <1>5, <1>7 DEF IInv

LEMMA ImportSectionHolds == IInv /\ ImportSection => IInv'
<1> SUFFICES ASSUME IInv, ImportSection PROVE IInv'
  OBVIOUS
<1> DEFINE d == [cache[key] EXCEPT ![Sections[at]] = "whole"]
<1>1. /\ pc = "import" /\ pc' = "import" /\ at <= key.whole /\ at' = at + 1
      /\ archive' = archive /\ key' = key /\ loaded' = loaded /\ marred' = marred
      /\ cache' = [cache EXCEPT ![key] = d]
  BY DEF ImportSection
<1>2. /\ TypeOK /\ CacheInv /\ key \in Archives /\ cache[key] \in [SectionNames -> States]
      /\ marred \subseteq Archives
  BY DEF IInv, TypeOK
<1>3. at \in 1..4 /\ key.whole \in 0..4 /\ Sections[at] \in SectionNames
  BY <1>1, <1>2, CompleteIsLongest, SectionFacts DEF TypeOK, SectionNames
<1>4. \A j \in 1..4 : cache[key][Sections[j]] = IF j < at THEN "whole" ELSE "missing"
  BY <1>1 DEF IInv, ImportInv, Dir
<1>5. d \in [SectionNames -> States]
  BY <1>2, <1>3 DEF States
<1>6. \A j \in 1..4 : d[Sections[j]] = IF j < at + 1 THEN "whole" ELSE "missing"
  <2> SUFFICES ASSUME NEW j \in 1..4
               PROVE  d[Sections[j]] = IF j < at + 1 THEN "whole" ELSE "missing"
    OBVIOUS
  <2>1. Sections[j] \in SectionNames /\ (j # at => Sections[j] # Sections[at])
    BY <1>3, SectionFacts
  <2>2. CASE j = at
    BY <1>2, <1>3, <2>1, <2>2
  <2>3. CASE j # at
    BY <1>2, <1>3, <1>4, <2>1, <2>3
  <2> QED BY <2>2, <2>3
<1>7. d["manifest"] = "whole" => key = Complete /\ d = Whole
  <2> SUFFICES ASSUME d["manifest"] = "whole" PROVE key = Complete /\ d = Whole
    OBVIOUS
  <2>1. at = 4
    BY <1>3, <1>6, SectionFacts
  <2>2. key = Complete
    BY <1>1, <1>2, <1>3, <2>1, CompleteIsLongest
  <2>3. \A s \in SectionNames : d[s] = "whole"
    BY <1>6, <2>1, SectionFacts
  <2>4. d = Whole
    BY <1>5, <2>3 DEF Whole
  <2> QED BY <2>2, <2>4
<1> HIDE DEF d
<1>8. /\ cache' \in [Archives -> [SectionNames -> States]]
      /\ CacheInv'
      /\ cache'[key] = d
  BY <1>1, <1>2, <1>5, <1>7, WriteDirectory
<1>9. TypeOK'
  BY <1>1, <1>2, <1>3, <1>8 DEF TypeOK
<1>10. key \notin marred
  BY <1>1 DEF IInv, ImportInv
<1>11. ImportInv' /\ RunInv'
  BY <1>1, <1>6, <1>8, <1>10 DEF ImportInv, RunInv, Dir
<1> QED BY <1>8, <1>9, <1>11 DEF IInv

\* A directory whose manifest is whole only if it was in a directory a clean
\* left, written by a step that ends the apply.
LEMMA TornHolds ==
  ASSUME IInv, NEW d \in [SectionNames -> States],
         cache' = [cache EXCEPT ![key] = d], UNCHANGED <<key, archive, marred>>, Exit,
         d["manifest"] = "whole" => key = Complete /\ key \in marred
  PROVE  IInv'
<1>1. TypeOK /\ CacheInv /\ key \in Archives /\ marred \subseteq Archives
  BY DEF IInv, TypeOK
<1>2. /\ cache' \in [Archives -> [SectionNames -> States]]
      /\ CacheInv'
  BY <1>1, WriteDirectory
<1>3. TypeOK'
  BY <1>1, <1>2, CompleteIsLongest DEF TypeOK, Exit, States
<1>4. ImportInv' /\ RunInv'
  BY DEF ImportInv, RunInv, Exit
<1> QED BY <1>2, <1>3, <1>4 DEF IInv

\* While a directory is emptied or filled, its manifest comes last.
LEMMA TearSection ==
  ASSUME IInv, pc = "import", at \in 1..4
  PROVE  /\ [cache[key] EXCEPT ![Sections[at]] = "torn"] \in [SectionNames -> States]
         /\ [cache[key] EXCEPT ![Sections[at]] = "torn"]["manifest"] # "whole"
<1>1. cache[key] \in [SectionNames -> States] /\ Sections[at] \in SectionNames
  BY SectionFacts DEF IInv, TypeOK, SectionNames
<1>2. cache[key]["manifest"] = "missing"
  BY SectionFacts DEF IInv, ImportInv, Dir
<1> QED BY <1>1, <1>2, SectionFacts DEF States

-----------------------------------------------------------------------------
LEMMA ImportCutHolds == IInv /\ ImportCut => IInv'
<1> SUFFICES ASSUME IInv, ImportCut PROVE IInv'
  OBVIOUS
<1> DEFINE d == [cache[key] EXCEPT ![Sections[at]] = "torn"]
<1>1. /\ pc = "import" /\ at > key.whole /\ key.cut /\ TypeOK /\ CacheInv
      /\ key \in Archives /\ marred \subseteq Archives /\ archive \in Archives
      /\ key' = key /\ archive' = archive /\ marred' = marred
  BY DEF ImportCut, IInv, TypeOK
<1>2. at \in 1..4
  BY <1>1, CompleteIsLongest DEF TypeOK
<1>3. cache' = [cache EXCEPT ![key] = d]
  BY DEF ImportCut
<1>4. d \in [SectionNames -> States] /\ d["manifest"] # "whole"
  BY <1>1, <1>2, TearSection
<1> HIDE DEF d
<1>5. CASE Exit
  BY <1>1, <1>3, <1>4, <1>5, TornHolds
<1>6. CASE pc' = "load" /\ UNCHANGED <<at, loaded>>
  <2>1. cache' \in [Archives -> [SectionNames -> States]] /\ CacheInv'
    BY <1>1, <1>3, <1>4, WriteDirectory
  <2>2. TypeOK'
    BY <1>1, <1>6, <2>1 DEF TypeOK
  <2>3. ImportInv' /\ RunInv'
    BY <1>6 DEF ImportInv, RunInv
  <2> QED BY <2>1, <2>2, <2>3 DEF IInv
<1> QED BY <1>5, <1>6 DEF ImportCut

\* An apply that ends without having written anything.
LEMMA ExitHolds ==
  ASSUME IInv, UNCHANGED <<cache, key, marred>>, archive' \in Archives, Exit
  PROVE  IInv'
<1>1. TypeOK /\ CacheInv /\ key \in Archives
  BY DEF IInv, TypeOK
<1>2. TypeOK'
  BY <1>1, CompleteIsLongest DEF TypeOK, Exit, States
<1>3. ImportInv' /\ RunInv' /\ CacheInv'
  BY <1>1, SameDirectories DEF ImportInv, RunInv, Exit
<1> QED BY <1>2, <1>3 DEF IInv

\* A step of the apply that looks at the directory and goes on.
LEMMA GoOnHolds ==
  ASSUME IInv, UNCHANGED <<cache, key, archive, at, marred>>,
         \/ pc = "look" /\ pc' = "load" /\ loaded' = loaded
         \/ pc = "look" /\ pc' = "reset" /\ ~HasWorkflowDir /\ loaded' = loaded
         \/ pc = "import" /\ pc' = "load" /\ loaded' = loaded
         \/ pc = "load" /\ pc' = "verify" /\ loaded' = Dir["workflows"]
         \/ pc = "verify" /\ pc' = "running" /\ VerifyOK /\ loaded' = loaded
  PROVE  IInv'
<1>1. TypeOK /\ CacheInv /\ Dir \in [SectionNames -> States] /\ Dir' = Dir
  BY DEF IInv, TypeOK, Dir
<1>2. Dir["workflows"] \in States
  BY <1>1, SectionFacts
<1>3. TypeOK'
  BY <1>1, <1>2 DEF TypeOK
<1>4. CacheInv'
  BY <1>1, SameDirectories
<1>5. ImportInv'
  BY <1>1 DEF IInv, ImportInv, HasWorkflowDir
<1>6. RunInv'
  BY <1>1 DEF IInv, RunInv, VerifyOK
<1> QED BY <1>3, <1>4, <1>5, <1>6 DEF IInv

LEMMA KillHolds == IInv /\ Kill => IInv'
<1> SUFFICES ASSUME IInv, Kill PROVE IInv'
  OBVIOUS
<1>1. /\ Exit /\ key' = key /\ archive' = archive /\ marred' = marred
      /\ TypeOK /\ key \in Archives
  BY DEF Kill, IInv, TypeOK
<1>2. CASE UNCHANGED cache
  BY <1>1, <1>2, ExitHolds DEF TypeOK
<1>3. CASE /\ pc = "import" /\ at <= key.whole
           /\ cache' = [cache EXCEPT ![key][Sections[at]] = "torn"]
  <2>1. at \in 1..4
    BY <1>1, <1>3, CompleteIsLongest DEF TypeOK
  <2>2. cache' = [cache EXCEPT ![key] = [cache[key] EXCEPT ![Sections[at]] = "torn"]]
    BY <1>3
  <2> QED BY <1>1, <1>3, <2>1, <2>2, TearSection, TornHolds
<1>4. ASSUME pc = "reset", NEW left \in PartsOf(Dir),
             cache' = [cache EXCEPT ![key] = left]
      PROVE  IInv'
  <2>1. Dir["workflows"] = "missing"
    BY <1>4 DEF IInv, ImportInv
  <2>2. left \in [SectionNames -> States] /\ (left["manifest"] = "whole" => Dir["manifest"] = "whole")
    BY PartFacts
  <2>3. left["manifest"] = "whole" => key = Complete /\ key \in marred
    BY <1>1, <2>1, <2>2, SectionFacts DEF IInv, CacheInv, Dir, Whole
  <2> QED BY <1>1, <1>4, <2>2, <2>3, TornHolds
<1> QED BY <1>2, <1>3, <1>4 DEF Kill

LEMMA CleanCacheHolds == IInv /\ CleanCache => IInv'
<1> SUFFICES ASSUME IInv, CleanCache PROVE IInv'
  OBVIOUS
<1>1. /\ pc = "idle" /\ pc' = pc /\ cache' = [a \in Archives |-> Nothing] /\ at' = at
      /\ archive' = archive /\ key' = key /\ loaded' = loaded /\ marred' = {} /\ TypeOK
  BY DEF CleanCache, IInv
<1>2. Nothing \in [SectionNames -> States] /\ Nothing["manifest"] = "missing"
  BY SectionFacts DEF Nothing, States
<1>3. TypeOK' /\ CacheInv'
  BY <1>1, <1>2 DEF TypeOK, CacheInv
<1>4. ImportInv' /\ RunInv'
  BY <1>1 DEF IInv, ImportInv, RunInv
<1> QED BY <1>3, <1>4 DEF IInv

LEMMA CleanCutShortHolds == IInv /\ CleanCutShort => IInv'
<1> SUFFICES ASSUME IInv, CleanCutShort PROVE IInv'
  OBVIOUS
<1>1. PICK a \in Archives : \E left \in PartsOf(cache[a]) :
        cache' = [cache EXCEPT ![a] = left] /\ marred' = marred \union {a}
  BY DEF CleanCutShort
<1>2. PICK left \in PartsOf(cache[a]) :
        cache' = [cache EXCEPT ![a] = left] /\ marred' = marred \union {a}
  BY <1>1
<1>3. /\ pc = "idle" /\ pc' = pc /\ at' = at /\ archive' = archive /\ key' = key
      /\ loaded' = loaded /\ TypeOK /\ CacheInv /\ marred \subseteq Archives
  BY DEF CleanCutShort, IInv, TypeOK
<1>4. /\ left \in [SectionNames -> States]
      /\ left["manifest"] = "whole" => cache[a]["manifest"] = "whole"
  BY PartFacts
<1>5. left["manifest"] = "whole" => a = Complete /\ a \in marred'
  BY <1>2, <1>3, <1>4 DEF CacheInv
<1>6. marred' \subseteq Archives
  BY <1>2, <1>3
<1>7. cache' \in [Archives -> [SectionNames -> States]] /\ CacheInv'
  BY <1>2, <1>3, <1>4, <1>5, <1>6, WriteDirectory
<1>8. TypeOK'
  BY <1>3, <1>6, <1>7 DEF TypeOK
<1>9. ImportInv' /\ RunInv'
  BY <1>3 DEF IInv, ImportInv, RunInv
<1> QED BY <1>7, <1>8, <1>9 DEF IInv

\* What happens to the archive while no apply runs, and its start.
LEMMA IdleHolds ==
  ASSUME IInv, pc = "idle", UNCHANGED <<cache, at, loaded, marred>>,
         archive' \in Archives, key' \in Archives, pc' \in {"idle", "look"}
  PROVE  IInv'
<1>1. TypeOK /\ CacheInv /\ at = 1
  BY DEF IInv, ImportInv
<1>2. TypeOK' /\ CacheInv'
  BY <1>1, CompleteIsLongest, SameDirectories DEF TypeOK
<1>3. ImportInv' /\ RunInv'
  BY <1>1 DEF ImportInv, RunInv
<1> QED BY <1>2, <1>3 DEF IInv

LEMMA StepHolds == IInv /\ [Next]_vars => IInv'
<1> SUFFICES ASSUME IInv, [Next]_vars PROVE IInv'
  OBVIOUS
<1>1. archive \in Archives /\ key \in Archives /\ Complete \in Archives
  BY ArchivesAssumption DEF IInv, TypeOK
<1>2. CASE Deliver
  BY <1>1, <1>2, IdleHolds DEF Deliver
<1>3. CASE DeliverForGood
  BY <1>1, <1>3, IdleHolds DEF DeliverForGood
<1>4. CASE Begin
  BY <1>1, <1>4, IdleHolds DEF Begin
<1>5. CASE Look
  BY <1>5, GoOnHolds DEF Look
<1>6. CASE ResetDir
  BY <1>6, ResetHolds
<1>7. CASE ImportSection
  BY <1>7, ImportSectionHolds
<1>8. CASE ImportCut
  BY <1>8, ImportCutHolds
<1>9. CASE Imported
  BY <1>1, <1>9, GoOnHolds, ExitHolds DEF Imported
<1>10. CASE Load
  BY <1>1, <1>10, GoOnHolds, ExitHolds DEF Load
<1>11. CASE Verify
  BY <1>1, <1>11, GoOnHolds, ExitHolds DEF Verify
<1>12. CASE EndRun
  BY <1>1, <1>12, ExitHolds DEF EndRun
<1>13. CASE Kill
  BY <1>13, KillHolds
<1>14. CASE CleanCache
  BY <1>14, CleanCacheHolds
<1>15. CASE CleanCutShort
  BY <1>15, CleanCutShortHolds
<1>16. CASE UNCHANGED vars
  BY <1>16 DEF IInv, TypeOK, CacheInv, ImportInv, RunInv, Dir, VerifyOK, vars
<1> QED BY <1>2, <1>3, <1>4, <1>5, <1>6, <1>7, <1>8, <1>9, <1>10, <1>11, <1>12, <1>13,
           <1>14, <1>15, <1>16 DEF Next, ApplyNext

LEMMA Invariant == Spec => []IInv
<1> QED BY InitHolds, StepHolds, PTL DEF Spec

-----------------------------------------------------------------------------
\* Every state is one of the model's: an import stops where its archive does.
THEOREM TypeCorrect == Spec => []TypeOK
<1>1. IInv => TypeOK
  BY DEF IInv
<1> QED BY <1>1, Invariant, PTL

\* Whatever archives arrive and wherever applies are killed and cleans cut short,
\* phases run only on a complete archive whose outputs are all there; and on the
\* whole of it, workflows included, unless a clean left the directory in part.
THEOREM NeverRunsOnAPart == Spec => []RunsWholeBundle
<1>1. IInv => RunsWholeBundle
  <2> SUFFICES ASSUME IInv, pc = "running"
               PROVE  /\ key = Complete /\ Dir["outputs"] = "whole" /\ Dir["manifest"] = "whole"
                      /\ key \notin marred => Dir = Whole /\ loaded = "whole"
    BY DEF RunsWholeBundle
  <2>1. /\ key \in Archives /\ loaded = Dir["workflows"]
        /\ Dir["manifest"] = "whole" /\ Dir["outputs"] = "whole"
    BY DEF IInv, TypeOK, RunInv, VerifyOK
  <2>2. key = Complete /\ (key \notin marred => Dir = Whole)
    BY <2>1 DEF IInv, CacheInv, Dir
  <2>3. Whole["workflows"] = "whole"
    BY SectionFacts DEF Whole
  <2> QED BY <2>1, <2>2, <2>3
<1> QED BY <1>1, Invariant, PTL
=============================================================================
