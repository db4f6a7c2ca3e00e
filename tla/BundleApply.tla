----------------------------- MODULE BundleApply -----------------------------
(***************************************************************************)
(* The way of a bundle to the machine it is applied on. The archive is     *)
(* written in one go (internal/bundle/collect.go) and carried over, which  *)
(* may stop anywhere. apply extracts it into a cache directory named by    *)
(* the archive's hash, unless there is one already                         *)
(* (internal/applycli/request.go), loads the workflow from there, and then *)
(* verifies the directory against the manifest in it                       *)
(* (internal/bundle/verify.go) before it runs the first phase. The         *)
(* manifest lists the outputs; it does not list the workflows.             *)
(* The workflow is the bundle's own. One that comes from a server runs     *)
(* without any bundle, and nothing is verified, when the archive named     *)
(* beside it cannot be extracted (applycli/invocation.go:113-118): such    *)
(* applies are left out.                                                   *)
(***************************************************************************)
EXTENDS Naturals, Sequences, FiniteSets

CONSTANTS
  Archives,  \* the archives that may arrive, by where they end: [whole |-> the
             \* sections it has, cut |-> whether a part of the next one follows]
  MaxMarred  \* bound on the directories that cleans cut short leave in part

\* The sections of an archive in the order CollectArchive writes them. Each one
\* stands for the files under it.
Sections == <<"deck", "workflows", "outputs", "manifest">>

Complete == [whole |-> Len(Sections), cut |-> FALSE]

ASSUME ArchivesAssumption ==
  /\ Archives \subseteq [whole : 0..Len(Sections), cut : BOOLEAN]
  /\ Complete \in Archives
  /\ \A a \in Archives : a.cut => a.whole < Len(Sections)

ASSUME MaxMarredAssumption == MaxMarred \in Nat

SectionNames == {Sections[i] : i \in DOMAIN Sections}

\* What is extracted of a section: nothing, some files or a part of one, all.
States == {"missing", "torn", "whole"}

Nothing == [s \in SectionNames |-> "missing"]
Whole   == [s \in SectionNames |-> "whole"]

\* What a removal that stops half way may leave of a directory: os.RemoveAll
\* takes the files one by one.
PartsOf(d) ==
  {e \in [SectionNames -> States] :
     \A s \in SectionNames : e[s] = d[s] \/ (d[s] # "missing" /\ e[s] # "whole")}

VARIABLES
  archive,  \* the archive on the machine
  cache,    \* [archive -> its extraction directory]
  pc,       \* where the apply is
  key,      \* the hash it extracts under
  at,       \* the section it imports next
  loaded,   \* what it loaded its workflow from
  marred,   \* history: the archives whose directory is what a clean left that was
            \* cut short
  settled   \* history: the complete archive has arrived for good, and no apply or
            \* clean is cut short any more

vars == <<archive, cache, pc, key, at, loaded, marred, settled>>

Dir == cache[key]

Exit == pc' = "idle" /\ at' = 1 /\ loaded' = "missing"

-----------------------------------------------------------------------------
Init ==
  /\ archive \in Archives
  /\ cache = [a \in Archives |-> Nothing]
  /\ pc = "idle"
  /\ key = archive
  /\ at = 1
  /\ loaded = "missing"
  /\ marred = {}
  /\ settled = FALSE

\* The archive is carried over, once more perhaps. The build may have been
\* killed, or the transfer stopped; an archive that ends on an entry boundary
\* reads as one that is complete.
Deliver ==
  /\ pc = "idle" /\ ~settled
  /\ archive' \in Archives
  /\ UNCHANGED <<cache, pc, key, at, loaded, marred, settled>>

DeliverForGood ==
  /\ pc = "idle" /\ ~settled
  /\ archive' = Complete
  /\ settled' = TRUE
  /\ UNCHANGED <<cache, pc, key, at, loaded, marred>>

\* apply hashes the archive.
Begin ==
  /\ pc = "idle"
  /\ key' = archive
  /\ pc' = "look"
  /\ UNCHANGED <<archive, cache, at, loaded, marred, settled>>

HasWorkflowDir == Dir["workflows"] # "missing"

\* extractBundleArchive
Look ==
  /\ pc = "look"
  /\ pc' = IF HasWorkflowDir THEN "load" ELSE "reset"
  /\ UNCHANGED <<archive, cache, key, at, loaded, marred, settled>>

ResetDir ==
  /\ pc = "reset"
  /\ cache' = [cache EXCEPT ![key] = Nothing]
  /\ marred' = marred \ {key}
  /\ pc' = "import"
  /\ UNCHANGED <<archive, key, at, loaded, settled>>

\* Mutant: the end of the archive is noticed one section late.
ImportPastEnd ==
  /\ pc = "import"
  /\ at <= key.whole + 1
  /\ cache' = IF at \in DOMAIN Sections
              THEN [cache EXCEPT ![key][Sections[at]] = "whole"] ELSE cache
  /\ at' = at + 1
  /\ UNCHANGED <<archive, pc, key, loaded, marred, settled>>

\* ImportArchive writes the entries where they belong, one after the other.
ImportSection ==
  /\ pc = "import"
  /\ at <= key.whole
  /\ cache' = [cache EXCEPT ![key][Sections[at]] = "whole"]
  /\ at' = at + 1
  /\ UNCHANGED <<archive, pc, key, loaded, marred, settled>>

\* The archive ends inside a section: inside an entry, which is an error, or
\* between two, which reads as its end.
ImportCut ==
  /\ pc = "import"
  /\ at > key.whole /\ key.cut
  /\ UNCHANGED <<archive, key, marred, settled>>
  /\ cache' = [cache EXCEPT ![key][Sections[at]] = "torn"]
  /\ \/ Exit
     \/ HasWorkflowDir' /\ pc' = "load" /\ UNCHANGED <<at, loaded>>

Imported ==
  /\ pc = "import"
  /\ at > key.whole /\ ~key.cut
  /\ IF HasWorkflowDir THEN pc' = "load" /\ UNCHANGED <<at, loaded>> ELSE Exit
  /\ UNCHANGED <<archive, cache, key, marred, settled>>

\* The workflow is loaded before anything is verified. Of a part of one, a
\* file may be missing or not parse, or nobody may notice.
Load ==
  /\ pc = "load"
  /\ \/ Dir["workflows"] # "missing" /\ loaded' = Dir["workflows"] /\ pc' = "verify" /\ UNCHANGED at
     \/ Dir["workflows"] # "whole" /\ Exit
  /\ UNCHANGED <<archive, cache, key, marred, settled>>

\* Mutant: what the manifest lists is looked for and not compared.
VerifyPresent == Dir["manifest"] # "missing" /\ Dir["outputs"] # "missing"

\* VerifyManifest: the manifest parses, and all that it lists is there intact.
VerifyOK == Dir["manifest"] = "whole" /\ Dir["outputs"] = "whole"

Verify ==
  /\ pc = "verify"
  /\ IF VerifyOK THEN pc' = "running" /\ UNCHANGED <<at, loaded>> ELSE Exit
  /\ UNCHANGED <<archive, cache, key, marred, settled>>

\* The phases run.
EndRun ==
  /\ pc = "running"
  /\ Exit
  /\ UNCHANGED <<archive, cache, key, marred, settled>>

\* The apply is killed; a section being written is torn, a directory that is
\* being removed has lost some of its files.
Kill ==
  /\ pc # "idle" /\ ~settled
  /\ \/ UNCHANGED cache
     \/ /\ pc = "import" /\ at <= key.whole
        /\ cache' = [cache EXCEPT ![key][Sections[at]] = "torn"]
     \/ /\ pc = "reset"
        /\ \E left \in PartsOf(Dir) : cache' = [cache EXCEPT ![key] = left]
  /\ Exit
  /\ UNCHANGED <<archive, key, marred, settled>>

\* Mutant: a directory without a manifest is not taken for a cached bundle.
CleanListed ==
  /\ pc = "idle"
  /\ cache' = [a \in Archives |-> IF cache[a]["manifest"] = "missing" THEN cache[a] ELSE Nothing]
  /\ marred' = {}
  /\ UNCHANGED <<archive, pc, key, at, loaded, settled>>

\* deck cache clean, while no apply uses it.
CleanCache ==
  /\ pc = "idle"
  /\ cache' = [a \in Archives |-> Nothing]
  /\ marred' = {}
  /\ UNCHANGED <<archive, pc, key, at, loaded, settled>>

\* The clean is killed, or a removal fails and ends it. What it leaves of several
\* directories is this step for one after the other.
CleanCutShort ==
  /\ pc = "idle" /\ ~settled
  /\ \E a \in Archives : \E left \in PartsOf(cache[a]) :
       /\ a \in marred \/ Cardinality(marred) < MaxMarred
       /\ cache' = [cache EXCEPT ![a] = left]
       /\ marred' = marred \union {a}
  /\ UNCHANGED <<archive, pc, key, at, loaded, settled>>

ApplyNext ==
  \/ Look \/ ResetDir \/ ImportSection \/ ImportCut \/ Imported \/ Load \/ Verify
  \/ EndRun

Next == Deliver \/ DeliverForGood \/ Begin \/ ApplyNext \/ Kill \/ CleanCache \/ CleanCutShort

Spec == Init /\ [][Next]_vars

\* An apply that was started goes on until it ends, and the operator tries again
\* and again, now and then with the cache cleaned.
FairSpec == Spec /\ WF_vars(ApplyNext) /\ SF_vars(Begin) /\ SF_vars(CleanCache)

-----------------------------------------------------------------------------
(* Properties                                                              *)

TypeOK ==
  /\ archive \in Archives /\ key \in Archives
  /\ cache \in [Archives -> [SectionNames -> States]]
  /\ pc \in {"idle", "look", "reset", "import", "load", "verify", "running"}
  /\ at \in 1..key.whole + 1
  /\ loaded \in States
  /\ marred \subseteq Archives

\* No phase runs on a part of the archive that arrived, and none on outputs that
\* are not all there. The workflows, which no manifest lists, are whole as well,
\* wherever applies were killed, unless the directory is what a cache clean left
\* that was cut short and nothing has extracted since.
RunsWholeBundle ==
  pc = "running" =>
    /\ key = Complete /\ Dir["outputs"] = "whole" /\ Dir["manifest"] = "whole"
    /\ key \notin marred => Dir = Whole /\ loaded = "whole"

\* Once a complete archive is there and applies are left alone, cleaning the
\* cache gets the bundle applied, whatever happened before.
CleaningHelps == [](settled => <>(pc = "running"))
=============================================================================
