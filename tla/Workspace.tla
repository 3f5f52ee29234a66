------------------------------ MODULE Workspace ------------------------------
(***************************************************************************)
(* The files of a workspace (src/dribik/workspace.py) and the commands     *)
(* that change them (src/dribik/cli.py).  Every command is a process of    *)
(* its own; there is no lock.  A file is read whole and written whole:     *)
(* Path.write_text first truncates it, then writes, and a process may die  *)
(* in between.  A truncated file is empty, which neither JSON nor the YAML *)
(* models accept, so loading it raises; so does one that a second writer   *)
(* has written over with less text.                                        *)
(*                                                                         *)
(* A file's content is the set of its records: consent records, finding    *)
(* ids, graph nodes, scope rules.                                          *)
(***************************************************************************)
EXTENDS Naturals, Sequences

CONSTANTS
  Process,     \* commands run at the same time
  Record,
  MaxJobs      \* bound on the commands started

CreateOrder == <<"graph", "scope", "consent", "findings", "notes", "meta">>
CheckOrder == <<"meta", "graph", "scope", "consent", "findings", "notes">>
File == {"graph", "scope", "consent", "findings", "notes", "meta"}
Merged == {"graph", "consent", "findings"}     \* files loaded before they are saved

VARIABLES
  disk,        \* file -> [state, records]
  stage,       \* process -> where its command stands
  job,         \* process -> [kind, file, records, pos] of its command
  content,     \* process -> what it is about to write to its file
  report,      \* process -> files its doctor run found wrong
  started,     \* number of commands started
  saved,       \* file -> records whose command ended well
  overlap,     \* files on which two commands' load-and-save ever overlapped
  crashed,     \* files a process left truncated
  wrong        \* process -> files unreadable ever since its doctor run began

vars == <<disk, stage, job, content, report, started, saved, overlap, crashed, wrong>>

Readable(f) == disk[f].state = "whole"
Holding(p, f) == stage[p] \in {"opening", "writing"} /\ job[p].file = f
HeldByOther(p, f) == \E q \in Process \ {p} : Holding(q, f)

Whole(R) == [state |-> "whole", records |-> R]
Truncated == [state |-> "truncated", records |-> {}]
Absent == [state |-> "absent", records |-> {}]
Malformed == [state |-> "malformed", records |-> {}]
NoJob == [kind |-> "none", file |-> "meta", records |-> {}, pos |-> 1]

(* A directory of its own, or one that init has set up.                    *)
Init ==
  /\ \E content0 \in {Absent, Whole({})} : disk = [f \in File |-> content0]
  /\ stage = [p \in Process |-> "idle"] /\ job = [p \in Process |-> NoJob]
  /\ content = [p \in Process |-> {}] /\ report = [p \in Process |-> {}]
  /\ wrong = [p \in Process |-> {}]
  /\ started = 0 /\ saved = [f \in File |-> {}] /\ overlap = {} /\ crashed = {}

Goto(p, s) == stage' = [stage EXCEPT ![p] = s]

End(p) ==
  /\ Goto(p, "idle")
  /\ job' = [job EXCEPT ![p] = NoJob] /\ content' = [content EXCEPT ![p] = {}]

(* p has what it will write to f, and every other holder of f is now stale.*)
Take(p, f, R) ==
  /\ Goto(p, "opening")
  /\ content' = [content EXCEPT ![p] = R]
  /\ overlap' = IF HeldByOther(p, f) THEN overlap \union {f} ELSE overlap

Start(p, new) ==
  /\ stage[p] = "idle" /\ started < MaxJobs
  /\ started' = started + 1
  /\ job' = [job EXCEPT ![p] = new]

(* consent grant, graph import/add, findings import/score and every        *)
(* --save or --import-graph: load, add, save.  score adds nothing.         *)
StartUpdate(p, f, R) ==
  /\ f \in Merged
  /\ Start(p, [kind |-> "update", file |-> f, records |-> R, pos |-> 1])
  /\ Goto(p, "loading")
  /\ UNCHANGED <<disk, content, report, saved, overlap, crashed, wrong>>

(* scope load: the new rules are validated, then replace the file.         *)
StartReplace(p, R) ==
  /\ Start(p, [kind |-> "replace", file |-> "scope", records |-> R, pos |-> 1])
  /\ Take(p, "scope", R)
  /\ UNCHANGED <<disk, report, saved, crashed, wrong>>

StartInit(p) ==
  /\ Start(p, [kind |-> "init", file |-> CreateOrder[1], records |-> {}, pos |-> 1])
  /\ Goto(p, "checking")
  /\ UNCHANGED <<disk, content, report, saved, overlap, crashed, wrong>>

StartDoctor(p) ==
  /\ Start(p, [kind |-> "doctor", file |-> CheckOrder[1], records |-> {}, pos |-> 1])
  /\ Goto(p, "examining")
  /\ report' = [report EXCEPT ![p] = {}]
  /\ wrong' = [wrong EXCEPT ![p] = {f \in File : ~Readable(f)}]
  /\ UNCHANGED <<disk, content, saved, overlap, crashed>>

(* Slip: a command saves what it has without what was there.               *)
LoadNothing(p) ==
  /\ stage[p] = "loading" /\ Readable(job[p].file)
  /\ Take(p, job[p].file, job[p].records)
  /\ UNCHANGED <<disk, job, report, started, saved, crashed, wrong>>

Load(p) ==
  /\ stage[p] = "loading" /\ Readable(job[p].file)
  /\ Take(p, job[p].file, disk[job[p].file].records \union job[p].records)
  /\ UNCHANGED <<disk, job, report, started, saved, crashed, wrong>>

(* Slip: the file is opened for writing before its text is made.           *)
FailLate(p) ==
  /\ \/ stage[p] = "loading" /\ ~Readable(job[p].file)
     \/ stage[p] \in {"opening", "writing"} /\ job[p].kind = "update"
  /\ End(p)
  /\ UNCHANGED <<disk, report, started, saved, overlap, crashed, wrong>>

(* The file is missing or malformed, or the command's own input is (a bad  *)
(* bundle, a missing option): it ends before it has written anything.      *)
Fail(p) ==
  /\ \/ stage[p] = "loading" /\ ~Readable(job[p].file)
     \/ stage[p] = "opening" /\ job[p].kind = "update"
  /\ End(p)
  /\ UNCHANGED <<disk, report, started, saved, overlap, crashed, wrong>>

(* create: exists() decides, except for the metadata, always written anew. *)
Check(p) ==
  /\ stage[p] = "checking"
  /\ LET f == job[p].file IN
       \/ /\ disk[f].state = "absent" \/ f = "meta"
          /\ Take(p, f, {}) /\ job' = job
       \/ /\ disk[f].state # "absent" /\ f # "meta"
          /\ job' = [job EXCEPT ![p].pos = @ + 1, ![p].file = CreateOrder[job[p].pos + 1]]
          /\ UNCHANGED <<stage, content, overlap>>
  /\ UNCHANGED <<disk, report, started, saved, crashed, wrong>>

Truncate(p) ==
  /\ stage[p] = "opening"
  /\ disk' = [disk EXCEPT ![job[p].file] = Truncated]
  /\ Goto(p, "writing")
  /\ UNCHANGED <<job, content, report, started, saved, overlap, crashed, wrong>>

(* The rest of write_text, at the start of the file.  If another process   *)
(* has written since this one truncated it, a longer text of theirs leaves *)
(* its tail behind.  create goes on with its next file.                    *)
Write(p) ==
  /\ stage[p] = "writing"
  /\ LET f == job[p].file IN
       /\ \/ /\ disk' = [disk EXCEPT ![f] = Whole(content[p])]
             /\ wrong' = [q \in Process |-> wrong[q] \ {f}]
             /\ crashed' = crashed \ {f}
          \/ /\ disk[f].state # "truncated"
             /\ disk' = [disk EXCEPT ![f] = Malformed]
             /\ UNCHANGED <<wrong, crashed>>
       /\ saved' = [saved EXCEPT ![f] =
                      CASE job[p].kind = "update" -> @ \union job[p].records
                        [] job[p].kind = "replace" -> job[p].records
                        [] OTHER -> @]
       /\ IF job[p].kind = "init" /\ f # "meta"
          THEN /\ Goto(p, "checking")
               /\ job' = [job EXCEPT ![p].pos = @ + 1, ![p].file = CreateOrder[job[p].pos + 1]]
               /\ UNCHANGED content
          ELSE End(p)
  /\ UNCHANGED <<report, started, overlap>>

(* Slip: the files are only looked for.                                    *)
ExamineExistence(p) ==
  /\ stage[p] = "examining"
  /\ LET f == job[p].file
     IN  report' = IF disk[f].state # "absent" THEN report ELSE [report EXCEPT ![p] = @ \union {f}]
  /\ IF job[p].pos < Len(CheckOrder)
     THEN /\ job' = [job EXCEPT ![p].pos = @ + 1, ![p].file = CheckOrder[job[p].pos + 1]]
          /\ UNCHANGED stage
     ELSE Goto(p, "examined") /\ job' = job
  /\ UNCHANGED <<disk, content, started, saved, overlap, crashed, wrong>>

(* health_check: one record after the other, the notes only looked for.    *)
Examine(p) ==
  /\ stage[p] = "examining"
  /\ LET f == job[p].file
         good == IF f = "notes" THEN disk[f].state # "absent" ELSE Readable(f)
     IN  report' = IF good THEN report ELSE [report EXCEPT ![p] = @ \union {f}]
  /\ IF job[p].pos < Len(CheckOrder)
     THEN /\ job' = [job EXCEPT ![p].pos = @ + 1, ![p].file = CheckOrder[job[p].pos + 1]]
          /\ UNCHANGED stage
     ELSE Goto(p, "examined") /\ job' = job
  /\ UNCHANGED <<disk, content, started, saved, overlap, crashed, wrong>>

(* doctor prints what it found and ends.                                   *)
Report(p) ==
  /\ stage[p] = "examined"
  /\ End(p)
  /\ report' = [report EXCEPT ![p] = {}] /\ wrong' = [wrong EXCEPT ![p] = {}]
  /\ UNCHANGED <<disk, started, saved, overlap, crashed>>

(* The process dies.  A file it had truncated stays so.                    *)
Crash(p) ==
  /\ stage[p] # "idle"
  /\ End(p)
  /\ report' = [report EXCEPT ![p] = {}] /\ wrong' = [wrong EXCEPT ![p] = {}]
  /\ crashed' = IF stage[p] = "writing" THEN crashed \union {job[p].file} ELSE crashed
  /\ UNCHANGED <<disk, started, saved, overlap>>

Advance(p) == Load(p) \/ Fail(p) \/ Check(p) \/ Truncate(p) \/ Write(p) \/ Examine(p) \/ Report(p)

Next == \E p \in Process :
  \/ \E f \in Merged, R \in SUBSET Record : StartUpdate(p, f, R)
  \/ \E R \in SUBSET Record : StartReplace(p, R)
  \/ StartInit(p) \/ StartDoctor(p) \/ Advance(p) \/ Crash(p)

Spec == Init /\ [][Next]_vars
-----------------------------------------------------------------------------
BeingWritten(f) == \E p \in Process : stage[p] = "writing" /\ job[p].file = f

(* Every record whose command ended well is in its file, or in what a      *)
(* writer is about to put there, unless two commands overlapped on the     *)
(* file or one died while writing it: a scan that is saved is not lost by  *)
(* a later grant, import, score or init.                                   *)
SavedIsKept ==
  \A f \in File \ (overlap \union crashed) :
    /\ ~BeingWritten(f) => saved[f] \subseteq disk[f].records
    /\ \A p \in Process :
         Holding(p, f) /\ job[p].kind # "replace" => saved[f] \subseteq content[p]

(* Nothing but an overlap or a crash makes a file unreadable for good.     *)
UnreadableOnlyIfDisturbed ==
  \A f \in File \ (overlap \union crashed) :
    disk[f].state \in {"absent", "whole"} \/ BeingWritten(f)

(* doctor reports every file that could not be read at any time of its     *)
(* run, the notes apart, for which it only asks whether they exist.        *)
DoctorFindsLasting ==
  \A p \in Process :
    stage[p] = "examined" => wrong[p] \ {"notes"} \subseteq report[p]

=============================================================================
