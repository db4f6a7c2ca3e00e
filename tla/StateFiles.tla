----------------------------- MODULE StateFiles -----------------------------
(***************************************************************************)
(* The files behind the saved state of one workflow: where a command reads *)
(* it from, how the copy an older release left elsewhere is migrated       *)
(* (internal/install/state_compat.go), how it is replaced by way of a      *)
(* temporary file (internal/install/state.go) and how it is cleared        *)
(* (internal/applycli/command.go, cmd/deck/cmd_state.go). A command is a   *)
(* process; it may be killed, or fail, between any two system calls.       *)
(*                                                                         *)
(* Names are bound to inodes, so that a file that is renamed while another *)
(* process has it open stays one file. What ApplyRun saves is a version, a *)
(* new one each time.                                                      *)
(***************************************************************************)
EXTENDS Integers, Sequences, FiniteSets

CONSTANTS
  Procs,      \* the processes that may run at once
  Fallbacks,  \* the names of older copies in the order they are looked for;
              \* none with --state-dir
  MaxSaves    \* bound on the number of saves

ASSUME FilesAssumption ==
  /\ IsFiniteSet(Procs)
  /\ Fallbacks \in Seq(STRING)
  /\ \A i, j \in DOMAIN Fallbacks : i # j => Fallbacks[i] # Fallbacks[j]
  /\ \A i \in DOMAIN Fallbacks : Fallbacks[i] \notin {"target", "tmp"}
  /\ MaxSaves \in Nat

Names == {"target", "tmp"} \cup {Fallbacks[i] : i \in DOMAIN Fallbacks}

Missing == 0
Inodes  == 1..(Cardinality(Names) + Cardinality(Procs))

\* A file holds a version, or what a writer that has not finished left there.
Empty == 0
Torn  == -1
Versions == 1..(Len(Fallbacks) + MaxSaves)

Commands == {"apply", "fresh", "plan", "clear", "show"}

VARIABLES
  dir,      \* [name -> the inode it is bound to, or Missing]
  content,  \* [inode -> what it holds]
  proc,     \* [process -> where its command is]
  saves,    \* how many saves have begun
  loaded,   \* history: the version apply or plan read last, Empty for none
  cleared   \* history: the state was cleared to the end, and not saved since

fileVars == <<dir, content, proc, saves, loaded, cleared>>

\* at indexes Fallbacks or the names to remove; fd and data are for the file
\* being written, then for what comes after it; load counts apply's two loads.
Idle == [cmd |-> "none", pc |-> "idle", at |-> 1, fd |-> Missing, data |-> Empty,
         then |-> "idle", load |-> 1]

Pcs == {"idle", "statTarget", "statFallback", "recheck", "readSource", "open", "write",
        "rename", "read", "running", "remove"}

Goto(p, pc) == proc' = [proc EXCEPT ![p].pc = pc]

Exit(p) == proc' = [proc EXCEPT ![p] = Idle]

-----------------------------------------------------------------------------
\* Older releases may have left any of the fallback copies; the earlier one in
\* the list is the later version.
Init ==
  /\ \E left \in SUBSET DOMAIN Fallbacks :
       dir = [n \in Names |->
                IF \E i \in left : Fallbacks[i] = n
                THEN CHOOSE i \in left : Fallbacks[i] = n ELSE Missing]
  /\ content = [i \in Inodes |-> IF i <= Len(Fallbacks) THEN Len(Fallbacks) + 1 - i ELSE Empty]
  /\ proc = [p \in Procs |-> Idle]
  /\ saves = 0
  /\ loaded = Empty
  /\ cleared = FALSE

\* apply and plan look for the state first; --fresh and state clear remove it;
\* state show reads the target and nothing else.
Begin(p) ==
  /\ proc[p].pc = "idle"
  /\ \E cmd \in Commands :
        proc' = [proc EXCEPT ![p] =
                   [Idle EXCEPT !.cmd = cmd,
                      !.pc = CASE cmd \in {"apply", "plan"}  -> "statTarget"
                               [] cmd \in {"fresh", "clear"} -> "remove"
                               [] cmd = "show"               -> "read"]]
  /\ UNCHANGED <<dir, content, saves, loaded, cleared>>

-----------------------------------------------------------------------------
(* resolveStateReadPath and resolveFallbackStateReadPath                   *)

StatTarget(p) ==
  /\ proc[p].pc = "statTarget"
  /\ \/ dir["target"] # Missing /\ Goto(p, "read")
     \/ dir["target"] = Missing /\ proc' = [proc EXCEPT ![p].pc = "statFallback", ![p].at = 1]
  /\ UNCHANGED <<dir, content, saves, loaded, cleared>>

StatFallback(p) ==
  /\ proc[p].pc = "statFallback"
  /\ \/ proc[p].at > Len(Fallbacks) /\ Goto(p, "read")
     \/ /\ proc[p].at <= Len(Fallbacks)
        /\ IF dir[Fallbacks[proc[p].at]] = Missing
           THEN proc' = [proc EXCEPT ![p].at = @ + 1]
           ELSE Goto(p, "recheck")
  /\ UNCHANGED <<dir, content, saves, loaded, cleared>>

\* migrateStateFile looks at the target once more.
Recheck(p) ==
  /\ proc[p].pc = "recheck"
  /\ \/ dir["target"] # Missing /\ Goto(p, "read")
     \/ dir["target"] = Missing /\ Goto(p, "readSource")
  /\ UNCHANGED <<dir, content, saves, loaded, cleared>>

\* The whole fallback copy is read; it may have gone since.
ReadSource(p) ==
  /\ proc[p].pc = "readSource"
  /\ LET source == dir[Fallbacks[proc[p].at]] IN
     \/ /\ source # Missing
        /\ proc' = [proc EXCEPT ![p].pc = "open", ![p].data = content[source],
                                ![p].then = "read"]
     \/ source = Missing /\ Exit(p)
  /\ UNCHANGED <<dir, content, saves, loaded, cleared>>

\* Mutant: apply loads once more.
LoadedThrice(p) == proc[p].cmd # "apply" \/ proc[p].load = 3

LoadedAll(p) == proc[p].cmd # "apply" \/ proc[p].load = 2

\* LoadState. apply loads twice: once to log what there is, once to run. A file
\* that cannot be parsed ends the command. state show is not counted among the
\* readers of the state: it looks at the target alone, whatever copies there are.
Read(p) ==
  /\ proc[p].pc = "read"
  /\ LET found == IF dir["target"] = Missing THEN Empty ELSE content[dir["target"]]
     IN  IF dir["target"] # Missing /\ found \in {Empty, Torn}
         THEN Exit(p) /\ UNCHANGED loaded
         ELSE /\ loaded' = IF proc[p].cmd = "show" THEN loaded ELSE found
              /\ IF ~LoadedAll(p)
                 THEN proc' = [proc EXCEPT ![p].pc = "statTarget", ![p].load = @ + 1]
                 ELSE IF proc[p].cmd = "apply" THEN Goto(p, "running") ELSE Exit(p)
  /\ UNCHANGED <<dir, content, saves, cleared>>

-----------------------------------------------------------------------------
(* SaveRawStateFile                                                        *)

\* A run saves after each phase and at its end.
BeginSave(p) ==
  /\ proc[p].pc = "running"
  /\ saves < MaxSaves
  /\ saves' = saves + 1
  /\ proc' = [proc EXCEPT ![p].pc = "open", ![p].data = Len(Fallbacks) + saves + 1,
                          ![p].then = "running"]
  /\ UNCHANGED <<dir, content, loaded, cleared>>

EndRun(p) ==
  /\ proc[p].pc = "running"
  /\ Exit(p)
  /\ UNCHANGED <<dir, content, saves, loaded, cleared>>

\* Mutant: the state is written in place.
InPlace == "target"

\* The file that is written before it takes the target's name.
TempFile == "tmp"

Unused == {i \in Inodes : (\A n \in Names : dir[n] # i) /\ (\A p \in Procs : proc[p].fd # i)}

\* The temporary file is created, or truncated if there is one.
Open(p) ==
  /\ proc[p].pc = "open"
  /\ LET inode == IF dir[TempFile] = Missing THEN CHOOSE i \in Unused : TRUE ELSE dir[TempFile]
     IN  /\ dir' = [dir EXCEPT ![TempFile] = inode]
         /\ content' = [content EXCEPT ![inode] = Empty]
         /\ proc' = [proc EXCEPT ![p].pc = "write", ![p].fd = inode]
  /\ UNCHANGED <<saves, loaded, cleared>>

\* The write starts at the beginning of the file. What another process wrote
\* there before, if it is longer, is not cut off.
Write(p) ==
  /\ proc[p].pc = "write"
  /\ \E result \in {proc[p].data} \cup (IF content[proc[p].fd] = Empty THEN {} ELSE {Torn}) :
        content' = [content EXCEPT ![proc[p].fd] = result]
  /\ proc' = [proc EXCEPT ![p].pc = "rename", ![p].fd = Missing]
  /\ UNCHANGED <<dir, saves, loaded, cleared>>

\* The command is killed, or the disk is full, in the middle of the write.
WritePartly(p) ==
  /\ proc[p].pc = "write"
  /\ content' = [content EXCEPT ![proc[p].fd] = Torn]
  /\ Exit(p)
  /\ UNCHANGED <<dir, saves, loaded, cleared>>

Rename(p) ==
  /\ proc[p].pc = "rename"
  /\ \/ /\ dir[TempFile] # Missing
        /\ dir' = [dir EXCEPT !["tmp"] = Missing, !["target"] = dir[TempFile]]
        /\ proc' = [proc EXCEPT ![p].pc = proc[p].then, ![p].data = Empty]
        /\ cleared' = (cleared /\ proc[p].then = "read")
     \/ /\ dir[TempFile] = Missing
        /\ Exit(p)
        /\ UNCHANGED <<dir, cleared>>
  /\ UNCHANGED <<content, saves, loaded>>

-----------------------------------------------------------------------------
(* clearSelectedApplyState, removeStateFiles                               *)

\* Mutant: the older copies are left.
TargetOnly == <<"target">>

ClearPaths == <<"target">> \o Fallbacks

Remove(p) ==
  /\ proc[p].pc = "remove"
  /\ proc[p].at <= Len(ClearPaths)
  /\ dir' = [dir EXCEPT ![ClearPaths[proc[p].at]] = Missing]
  /\ proc' = [proc EXCEPT ![p].at = @ + 1]
  /\ UNCHANGED <<content, saves, loaded, cleared>>

RemovedAll(p) ==
  /\ proc[p].pc = "remove"
  /\ proc[p].at > Len(ClearPaths)
  /\ cleared' = TRUE
  /\ IF proc[p].cmd = "fresh" THEN Goto(p, "running") ELSE Exit(p)
  /\ UNCHANGED <<dir, content, saves, loaded>>

\* The command is killed, or a system call fails and it gives up.
Kill(p) ==
  /\ proc[p].pc # "idle"
  /\ Exit(p)
  /\ cleared' = (cleared /\ proc[p].pc # "remove")
  /\ UNCHANGED <<dir, content, saves, loaded>>

Resolve(p) == StatTarget(p) \/ StatFallback(p) \/ Recheck(p) \/ ReadSource(p) \/ Read(p)

Save(p) == BeginSave(p) \/ Open(p) \/ Write(p) \/ WritePartly(p) \/ Rename(p)

Next ==
  \E p \in Procs :
    Begin(p) \/ Resolve(p) \/ Save(p) \/ EndRun(p) \/ Remove(p) \/ RemovedAll(p) \/ Kill(p)

Spec == Init /\ [][Next]_fileVars

-----------------------------------------------------------------------------
(* Properties                                                              *)

TypeOK ==
  /\ dir \in [Names -> Inodes \cup {Missing}]
  /\ content \in [Inodes -> Versions \cup {Empty, Torn}]
  /\ proc \in [Procs -> [cmd : Commands \cup {"none"}, pc : Pcs, at : 1..(Len(Fallbacks) + 2),
                         fd : Inodes \cup {Missing}, data : Versions \cup {Empty},
                         then : {"idle", "read", "running"}, load : 1..2]]
  /\ saves \in 0..MaxSaves
  /\ loaded \in Versions \cup {Empty}
  /\ cleared \in BOOLEAN

\* The state file always parses, whenever a command was killed or ran out of
\* disk: it is replaced by a file that was written to its end.
TargetWhole == dir["target"] # Missing => content[dir["target"]] \in Versions

\* The commands of an operator, one at a time, see a register.
Copies == [i \in 1..(Len(Fallbacks) + 1) |->
             IF i = 1 THEN dir["target"] ELSE dir[Fallbacks[i - 1]]]

Stored ==
  LET there == {i \in DOMAIN Copies : Copies[i] # Missing}
  IN  IF there = {} THEN Empty ELSE content[Copies[CHOOSE i \in there : \A j \in there : i <= j]]

Store == INSTANCE StateStore
  WITH None <- Empty, stored <- Stored,
       older <- {content[dir[Fallbacks[i]]] :
                   i \in {j \in DOMAIN Fallbacks : dir[Fallbacks[j]] # Missing}},
       clearing <- IF \E p \in Procs : proc[p].pc = "remove" THEN "running"
                   ELSE IF cleared THEN "done" ELSE "no"

ImplementsStateStore == Store!Spec
=============================================================================
