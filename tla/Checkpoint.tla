----------------------------- MODULE Checkpoint ------------------------------
(***************************************************************************)
(* Snapshots saved to one path: to_path of either forest, by threads of    *)
(* processes that may die and on a machine that may lose power, and        *)
(* from_path beside them.                                                  *)
(*                                                                         *)
(* The file system is the POSIX one the code counts on.  What a file holds *)
(* and what a directory says may be lost with the power until they are     *)
(* synced; a rename is atomic.  "kept" has for a name every file the disk  *)
(* may say it is.  A process may get the pid of another: of one that died, *)
(* or of one in another container that shares the directory.               *)
(***************************************************************************)
EXTENDS Naturals, Sequences, FiniteSetsExt, Functions

CONSTANTS
  Threads, Processes,
  ProcessOf,  \* the process of a thread
  Pid,        \* the pid of a process
  None,
  MaxSaves    \* bound: files created, and names a process has tried

CheckpointAssumption ==
  ProcessOf \in [Threads -> Processes] /\ MaxSaves \in Nat /\ None \notin Nat

VARIABLES
  seq,      \* SEQ of a process
  at,       \* where a thread is in write_atomic: its step, file and tmp name
  files,    \* of each file: what it holds, on disk and for programs
  dir,      \* the directory for programs
  kept,     \* the directory on disk
  reading,  \* the file from_path has open
  renamed,  \* history: files moved to the target, oldest first
  saved     \* history: place in renamed of the newest save that returned Ok

vars == <<seq, at, files, dir, kept, reading, renamed, saved>>

Target == <<"target">>
TmpPath(p, n) == <<"tmp", Pid[p], n>>
Names == {Target} \cup {TmpPath(p, n) : p \in Processes, n \in 0..MaxSaves-1}

Idle == [step |-> "idle", file |-> None, tmp |-> None]

Init ==
  /\ seq = [p \in Processes |-> 0]
  /\ at = [t \in Threads |-> Idle]
  /\ files = <<>>
  /\ dir = [n \in Names |-> None]
  /\ kept = [n \in Names |-> {None}]
  /\ reading = None /\ renamed = <<>> /\ saved = 0

------------------------------------------------------------------------------

Extent == {"empty", "part", "whole"}

Bind(name, file) ==
  /\ dir' = [dir EXCEPT ![name] = file]
  /\ kept' = [kept EXCEPT ![name] = @ \cup {file}]

Tmp(t) == TmpPath(ProcessOf[t], seq[ProcessOf[t]])

Taken(t) == seq' = [seq EXCEPT ![ProcessOf[t]] = @ + 1]

Opened(t) ==
  /\ files' = Append(files, [holds |-> "empty", disk |-> {"empty"}])
  /\ at' = [at EXCEPT ![t] = [step |-> "create", file |-> Len(files) + 1, tmp |-> Tmp(t)]]
  /\ Bind(Tmp(t), Len(files) + 1)

\* tmp_path and create_tmp: a name that is there is refused, and left there.
Create(t) ==
  /\ Len(files) < MaxSaves /\ seq[ProcessOf[t]] < MaxSaves /\ at[t] = Idle
  /\ Taken(t)
  /\ \/ dir[Tmp(t)] = None /\ Opened(t)
     \/ dir[Tmp(t)] # None /\ UNCHANGED <<at, files, dir, kept>>
  /\ UNCHANGED <<reading, renamed, saved>>

Then(t, from, to) == at[t].step = from /\ at' = [at EXCEPT ![t].step = to]

\* write_all, of which a part or all may reach the disk.
Write(t) ==
  /\ \/ Then(t, "create", "write") /\ files' = [files EXCEPT
          ![at[t].file] = [holds |-> "part", disk |-> @.disk \cup {"part"}]]
     \/ Then(t, "write", "written") /\ files' = [files EXCEPT
          ![at[t].file] = [holds |-> "whole", disk |-> Extent]]
  /\ UNCHANGED <<seq, dir, kept, reading, renamed, saved>>

SyncFile(t) ==
  /\ Then(t, "written", "synced")
  /\ files' = [files EXCEPT ![at[t].file].disk = {files[at[t].file].holds}]
  /\ UNCHANGED <<seq, dir, kept, reading, renamed, saved>>

Rename(t) ==
  /\ Then(t, "synced", "renamed")
  /\ LET moved == dir[at[t].tmp] IN
     /\ dir' = [dir EXCEPT ![Target] = moved, ![at[t].tmp] = None]
     /\ kept' = [kept EXCEPT ![Target] = @ \cup {moved}, ![at[t].tmp] = @ \cup {None}]
     /\ renamed' = Append(renamed, moved)
  /\ UNCHANGED <<seq, files, reading, saved>>

\* write_all, sync_all or rename fails: the tmp file is removed, if that works.
Fail(t) ==
  /\ at[t].step \in {"create", "write", "written", "synced"}
  /\ at' = [at EXCEPT ![t] = Idle]
  /\ Bind(at[t].tmp, None) \/ UNCHANGED <<dir, kept>>
  /\ UNCHANGED <<seq, files, reading, renamed, saved>>

PlaceOf(file) == CHOOSE i \in DOMAIN renamed : renamed[i] = file

\* Mutant: the directory is not synced.
SyncParentSkipped(t) ==
  /\ at[t].step = "renamed"
  /\ at' = [at EXCEPT ![t] = Idle]
  /\ saved' = Max({saved, PlaceOf(at[t].file)})
  /\ UNCHANGED <<seq, files, dir, kept, reading, renamed>>

\* sync_parent, after which the call returns Ok; if it fails it returns an
\* error and the new snapshot is there all the same.
SyncParent(t) ==
  /\ at[t].step = "renamed"
  /\ at' = [at EXCEPT ![t] = Idle]
  /\ \/ /\ kept' = [n \in Names |-> {dir[n]}]
        /\ saved' = Max({saved, PlaceOf(at[t].file)})
     \/ UNCHANGED <<kept, saved>>
  /\ UNCHANGED <<seq, files, dir, reading, renamed>>

\* from_path: what is open stays open when another file takes its name.
Open ==
  /\ reading = None /\ reading' = dir[Target]
  /\ UNCHANGED <<seq, at, files, dir, kept, renamed, saved>>

Close ==
  /\ reading # None /\ reading' = None
  /\ UNCHANGED <<seq, at, files, dir, kept, renamed, saved>>

\* A process dies and starts anew; the system stays up.
Crash(p) ==
  /\ seq' = [seq EXCEPT ![p] = 0]
  /\ at' = [t \in Threads |-> IF ProcessOf[t] = p THEN Idle ELSE at[t]]
  /\ UNCHANGED <<files, dir, kept, reading, renamed, saved>>

PowerLoss ==
  /\ seq' = [p \in Processes |-> 0]
  /\ at' = [t \in Threads |-> Idle] /\ reading' = None
  \* A file no name is left for is gone, and may as well be empty.
  /\ \E found \in [Names -> {None} \cup DOMAIN files] :
       /\ \A n \in Names : found[n] \in kept[n]
       /\ dir' = found /\ kept' = [n \in Names |-> {found[n]}]
       /\ \E left \in [DOMAIN files -> Extent] :
            /\ \A i \in DOMAIN files :
                 left[i] \in IF i \in Range(found) THEN files[i].disk ELSE {"empty"}
            /\ files' = [i \in DOMAIN files |-> [holds |-> left[i], disk |-> {left[i]}]]
  /\ UNCHANGED <<renamed, saved>>

Next ==
  \/ \E t \in Threads :
       Create(t) \/ Write(t) \/ SyncFile(t) \/ Rename(t) \/ Fail(t) \/ SyncParent(t)
  \/ Open \/ Close \/ PowerLoss
  \/ \E p \in Processes : Crash(p)

Spec == Init /\ [][Next]_vars

------------------------------------------------------------------------------
(* Properties.                                                              *)

\* Whenever the power goes, and whoever else saves, the path is a whole
\* snapshot for who reads it now or after, and never one older than the newest
\* save that returned Ok.
SaveIsAtomicAndLasts ==
  /\ \A file \in (kept[Target] \cup {reading}) \ {None} :
       files[file].holds = "whole" /\ files[file].disk = {"whole"}
  /\ saved > 0 =>
       /\ None \notin kept[Target]
       /\ \A file \in kept[Target] : \E i \in saved..Len(renamed) : renamed[i] = file

------------------------------------------------------------------------------
(* What makes it so: the inductive invariant.                               *)

Files == DOMAIN files
Unfinished == {"create", "write", "written", "synced"}

TypeOK ==
  /\ seq \in [Processes -> Nat]
  /\ at \in [Threads -> [step : Unfinished \cup {"idle", "renamed"},
                         file : Files \cup {None}, tmp : Names \cup {None}]]
  /\ files \in Seq([holds : Extent, disk : SUBSET Extent])
  /\ dir \in [Names -> Files \cup {None}]
  /\ kept \in [Names -> SUBSET (Files \cup {None})]
  /\ reading \in Files \cup {None}
  /\ renamed \in Seq(Files) /\ saved \in 0..Len(renamed)

Whole(file) == files[file] = [holds |-> "whole", disk |-> {"whole"}]

\* Until it is moved a file belongs to one thread, which finds it at the name
\* it gave it; once it is, only a loss of power makes the path another.
SaverInv(t) ==
  /\ at[t].step \in Unfinished =>
       /\ at[t].file \in Files /\ at[t].tmp \in Names \ {Target}
       /\ dir[at[t].tmp] = at[t].file
       /\ at[t].file \notin Range(renamed)
       /\ \A u \in Threads \ {t} : at[u].step \in Unfinished => at[u].file # at[t].file
  /\ at[t].step = "written" => files[at[t].file].holds = "whole"
  /\ at[t].step = "synced" => Whole(at[t].file)
  /\ at[t].step = "renamed" =>
       at[t].file \in Range(renamed) /\ dir[Target] = renamed[Len(renamed)]

\* What the path is, or may be after a loss of power, has been moved there, and
\* nobody writes to it any more.
PathInv ==
  /\ \A n \in Names : dir[n] \in kept[n]
  /\ \A file \in (kept[Target] \cup {reading}) \ {None} :
       file \in Range(renamed) /\ Whole(file)
  /\ \A i, j \in DOMAIN renamed : renamed[i] = renamed[j] => i = j
  /\ saved > 0 =>
       \A file \in kept[Target] : \E i \in saved..Len(renamed) : renamed[i] = file

SaveInv == TypeOK /\ PathInv /\ \A t \in Threads : SaverInv(t)
==============================================================================
