---------------------------- MODULE WorkspaceProofs ----------------------------
(***************************************************************************)
(* Proofs about the files of a workspace: for any number of processes and  *)
(* commands, and any records, what is loaded, saved and examined (module   *)
(* Workspace); for any number of appends, cut short wherever and as often  *)
(* as may be, the audit file (module AuditFile); for scopes with any       *)
(* number of rules, saved and cut off anywhere, what is loaded of them     *)
(* (module ScopeFile).                                                     *)
(***************************************************************************)
EXTENDS Workspace, AuditFile, ScopeFile, FiniteSetTheorems, SequenceTheorems, WellFoundedInduction, TLAPS

Content == [state : {"absent", "truncated", "whole", "malformed"}, records : SUBSET Record]
Stage == {"idle", "loading", "checking", "opening", "writing", "examining", "examined"}
Kind == {"none", "update", "replace", "init", "doctor"}
Job == [kind : Kind, file : File, records : SUBSET Record, pos : 1..6]

(* What a command may be doing, and to which file, is settled by its kind. *)
JobOK(p) ==
  /\ job[p].kind = "update" =>
       stage[p] \in {"loading", "opening", "writing"} /\ job[p].file \in Merged
  /\ job[p].kind = "replace" => stage[p] \in {"opening", "writing"} /\ job[p].file = "scope"
  /\ job[p].kind = "init" =>
       /\ stage[p] \in {"checking", "opening", "writing"}
       /\ job[p].file = CreateOrder[job[p].pos]
  /\ job[p].kind = "doctor" =>
       /\ stage[p] \in {"examining", "examined"}
       /\ job[p].file = CheckOrder[job[p].pos]
       /\ stage[p] = "examined" => job[p].pos = 6
  /\ job[p].kind = "none" => stage[p] = "idle"

Types ==
  /\ disk \in [File -> Content]
  /\ stage \in [Process -> Stage]
  /\ job \in [Process -> Job]
  /\ content \in [Process -> SUBSET Record]
  /\ report \in [Process -> SUBSET File] /\ wrong \in [Process -> SUBSET File]
  /\ started \in Nat
  /\ saved \in [File -> SUBSET Record]
  /\ overlap \subseteq File /\ crashed \subseteq File
  /\ \A p \in Process : JobOK(p)

(* A file that is not there, or is cut off, holds nothing; create adds no  *)
(* record to the metadata.                                                 *)
EmptyUnlessWhole ==
  /\ \A f \in File : disk[f].state \in {"absent", "truncated"} => disk[f].records = {}
  /\ saved["meta"] = {}

(* A file on which no two commands overlapped has one holder at most.      *)
OneHolder ==
  \A f \in File \ overlap : \A p, q \in Process : Holding(p, f) /\ Holding(q, f) => p = q

(* Such a file is cut off while it is written.  After a crash it stays so, *)
(* and only a command that never looks at it still opens it.               *)
CutOff ==
  \A f \in File \ overlap :
    /\ BeingWritten(f) \/ f \in crashed => disk[f].state = "truncated"
    /\ disk[f].state = "truncated" => BeingWritten(f) \/ f \in crashed
    /\ disk[f].state # "malformed"
    /\ f \in crashed => \A p \in Process :
         Holding(p, f) => job[p].kind = "replace" \/ f = "meta"

(* What its holder is about to write has the records of its command.       *)
OwnRecords ==
  \A p \in Process : stage[p] \in {"opening", "writing"} =>
    /\ job[p].kind = "update" => job[p].records \subseteq content[p]
    /\ job[p].kind = "replace" => content[p] = job[p].records

(* The files a running doctor has passed, and what it has found there.     *)
Passed(p) == {CheckOrder[i] : i \in 1..(job[p].pos - 1)}
Found ==
  \A p \in Process :
    /\ \A f \in wrong[p] : ~Readable(f)
    /\ stage[p] = "examining" => (wrong[p] \intersect Passed(p)) \ {"notes"} \subseteq report[p]

FilesInv ==
  /\ Types /\ EmptyUnlessWhole /\ OneHolder /\ CutOff /\ OwnRecords
  /\ SavedIsKept /\ Found /\ DoctorFindsLasting
-----------------------------------------------------------------------------
(* The order in which create makes the files and doctor looks at them.     *)
LEMMA Orders ==
  /\ Len(CheckOrder) = 6
  /\ \A i \in 1..6 : CreateOrder[i] \in File /\ CheckOrder[i] \in File
  /\ \A i \in 1..6 : (CreateOrder[i] = "meta" <=> i = 6)
  /\ CheckOrder[1] = "meta" /\ CreateOrder[1] = "graph"
  /\ File = {CheckOrder[i] : i \in 1..6}
<1>1. 1..6 = {1, 2, 3, 4, 5, 6}
  OBVIOUS
<1>2. /\ CheckOrder[1] = "meta" /\ CheckOrder[2] = "graph" /\ CheckOrder[3] = "scope"
      /\ CheckOrder[4] = "consent" /\ CheckOrder[5] = "findings" /\ CheckOrder[6] = "notes"
  BY DEF CheckOrder
<1>3. /\ CreateOrder[1] = "graph" /\ CreateOrder[2] = "scope" /\ CreateOrder[3] = "consent"
      /\ CreateOrder[4] = "findings" /\ CreateOrder[5] = "notes" /\ CreateOrder[6] = "meta"
  BY DEF CreateOrder
<1>4. File = {CheckOrder[i] : i \in 1..6}
  BY <1>1, <1>2 DEF File
<1>5. Len(CheckOrder) = 6
  BY DEF CheckOrder
<1> HIDE DEF CheckOrder, CreateOrder
<1> QED BY <1>1, <1>2, <1>3, <1>4, <1>5 DEF File

(* A step that sets the command and the stage of one process.              *)
LEMMA OneProcess ==
  ASSUME Types, NEW p \in Process, NEW s \in Stage, NEW new \in Job,
         stage' = [stage EXCEPT ![p] = s], job' = [job EXCEPT ![p] = new]
  PROVE  /\ stage' \in [Process -> Stage] /\ stage'[p] = s
         /\ job' \in [Process -> Job] /\ job'[p] = new
         /\ \A q \in Process \ {p} : stage'[q] = stage[q] /\ job'[q] = job[q]
         /\ JobOK(p)' => \A q \in Process : JobOK(q)'
<1>1. /\ stage' \in [Process -> Stage] /\ stage'[p] = s
      /\ job' \in [Process -> Job] /\ job'[p] = new
      /\ \A q \in Process \ {p} : stage'[q] = stage[q] /\ job'[q] = job[q]
  BY DEF Types
<1>2. \A q \in Process \ {p} : JobOK(q)'
  BY <1>1 DEF JobOK, Types
<1> QED BY <1>1, <1>2

(* The five ways in which a step changes its process's command: begins it, *)
(* moves to another stage of it, moves to its next file, ends it.          *)
LEMMA Begun ==
  ASSUME Types, NEW p \in Process, NEW s \in Stage, NEW new \in Job,
         stage' = [stage EXCEPT ![p] = s], Start(p, new), new.kind # "none",
         new.kind = "update" => s = "loading" /\ new.file \in Merged,
         new.kind = "replace" => s = "opening" /\ new.file = "scope",
         new.kind = "init" => s = "checking" /\ new.pos = 1 /\ new.file = CreateOrder[1],
         new.kind = "doctor" => s = "examining" /\ new.pos = 1 /\ new.file = CheckOrder[1]
  PROVE  /\ stage' \in [Process -> Stage] /\ job' \in [Process -> Job] /\ started' \in Nat
         /\ \A q \in Process : JobOK(q)'
<1>1. job' = [job EXCEPT ![p] = new] /\ started' \in Nat
  BY DEF Start, Types
<1>2. /\ stage' \in [Process -> Stage] /\ stage'[p] = s
      /\ job' \in [Process -> Job] /\ job'[p] = new
      /\ JobOK(p)' => \A q \in Process : JobOK(q)'
  BY <1>1, OneProcess
<1>3. JobOK(p)'
  BY <1>2 DEF JobOK
<1> QED BY <1>1, <1>2, <1>3

(* A command that goes on to its next stage with the same job keeps the    *)
(* types.                                                                  *)
LEMMA Moved ==
  ASSUME Types, NEW p \in Process, NEW s \in Stage,
         stage' = [stage EXCEPT ![p] = s], job' = job,
         \/ stage[p] = "loading" /\ s = "opening"
         \/ stage[p] = "checking" /\ s = "opening"
         \/ stage[p] = "opening" /\ s = "writing"
         \/ stage[p] = "examining" /\ s = "examined" /\ job[p].pos = 6
  PROVE  stage' \in [Process -> Stage] /\ \A q \in Process : JobOK(q)'
<1>1. job' = [job EXCEPT ![p] = job[p]] /\ job[p] \in Job /\ job[p].kind \in Kind
  BY DEF Types, Job
<1>2. /\ stage' \in [Process -> Stage] /\ stage'[p] = s /\ job'[p] = job[p]
      /\ JobOK(p)' => \A q \in Process : JobOK(q)'
  BY <1>1, OneProcess
<1>3. JobOK(p)'
  BY <1>1, <1>2 DEF JobOK, Types, Kind
<1> QED BY <1>2, <1>3

(* A command that ends leaves its place empty and the others as they were. *)
LEMMA Ended ==
  ASSUME Types, NEW p \in Process, End(p)
  PROVE  /\ stage' \in [Process -> Stage] /\ job' \in [Process -> Job]
         /\ content' \in [Process -> SUBSET Record]
         /\ stage'[p] = "idle" /\ job'[p] = NoJob /\ content'[p] = {}
         /\ \A q \in Process \ {p} :
              stage'[q] = stage[q] /\ job'[q] = job[q] /\ content'[q] = content[q]
         /\ \A q \in Process : JobOK(q)'
<1>1. NoJob \in Job /\ NoJob.kind = "none" /\ "idle" \in Stage
  BY DEF NoJob, Job, Kind, File, Stage
<1>2. stage' = [stage EXCEPT ![p] = "idle"] /\ job' = [job EXCEPT ![p] = NoJob]
  BY DEF End, Goto
<1>3. /\ stage' \in [Process -> Stage] /\ stage'[p] = "idle"
      /\ job' \in [Process -> Job] /\ job'[p] = NoJob
      /\ \A q \in Process \ {p} : stage'[q] = stage[q] /\ job'[q] = job[q]
      /\ JobOK(p)' => \A q \in Process : JobOK(q)'
  BY <1>1, <1>2, OneProcess
<1>4. JobOK(p)'
  BY <1>1, <1>3 DEF JobOK
<1>5. /\ content' \in [Process -> SUBSET Record] /\ content'[p] = {}
      /\ \A q \in Process \ {p} : content'[q] = content[q]
  BY DEF End, Types
<1> QED BY <1>3, <1>4, <1>5

(* On to the next file of create, and of doctor.                           *)
LEMMA NextFile ==
  ASSUME Types, NEW p \in Process, NEW Order,
         \/ /\ job[p].kind = "init" /\ Order = CreateOrder /\ job[p].file # "meta"
            /\ stage' = [stage EXCEPT ![p] = "checking"]
         \/ /\ stage[p] = "examining" /\ Order = CheckOrder /\ job[p].pos < 6 /\ stage' = stage,
         job' = [job EXCEPT ![p].pos = @ + 1, ![p].file = Order[job[p].pos + 1]]
  PROVE  /\ stage' \in [Process -> Stage] /\ job' \in [Process -> Job]
         /\ job'[p].pos = job[p].pos + 1 /\ job'[p].kind = job[p].kind
         /\ job'[p].file = Order[job[p].pos + 1]
         /\ stage'[p] = IF job[p].kind = "init" THEN "checking" ELSE "examining"
         /\ \A q \in Process \ {p} : stage'[q] = stage[q] /\ job'[q] = job[q]
         /\ \A q \in Process : JobOK(q)'
<1>1. /\ job[p] \in Job /\ job[p].kind \in Kind /\ job[p].pos \in 1..6 /\ job[p].file \in File
      /\ job[p].records \in SUBSET Record
  BY DEF Types, Job
<1>2. JobOK(p)
  BY DEF Types
<1>3. job[p].kind \in {"init", "doctor"} /\ (stage[p] = "examining" => job[p].kind = "doctor")
  BY <1>1, <1>2 DEF JobOK, Kind
<1>4. job[p].pos + 1 \in 1..6
  BY <1>1, <1>2, Orders DEF JobOK
<1> DEFINE new == [job[p] EXCEPT !.pos = @ + 1, !.file = Order[job[p].pos + 1]]
<1>5. job' = [job EXCEPT ![p] = new]
  BY DEF Types
<1>6. /\ new \in Job /\ new.pos = job[p].pos + 1 /\ new.kind = job[p].kind
      /\ new.file = Order[job[p].pos + 1]
  BY <1>1, <1>4, Orders DEF Job
<1> HIDE DEF new
<1>7. stage' = [stage EXCEPT ![p] = IF job[p].kind = "init" THEN "checking" ELSE "examining"]
  BY <1>3 DEF Types
<1>8. (IF job[p].kind = "init" THEN "checking" ELSE "examining") \in Stage
  BY DEF Stage
<1>9. /\ stage' \in [Process -> Stage]
      /\ stage'[p] = IF job[p].kind = "init" THEN "checking" ELSE "examining"
      /\ job' \in [Process -> Job] /\ job'[p] = new
      /\ \A q \in Process \ {p} : stage'[q] = stage[q] /\ job'[q] = job[q]
      /\ JobOK(p)' => \A q \in Process : JobOK(q)'
  BY <1>5, <1>6, <1>7, <1>8, OneProcess
<1>10. JobOK(p)'
  BY <1>3, <1>6, <1>9 DEF JobOK
<1> QED BY <1>3, <1>6, <1>9, <1>10

(* Every step keeps the types.                                             *)
LEMMA TypesStep == ASSUME Types, Next PROVE Types'
<1>1. ASSUME NEW p \in Process, NEW f \in Merged, NEW R \in SUBSET Record, StartUpdate(p, f, R)
      PROVE  Types'
  <2> DEFINE new == [kind |-> "update", file |-> f, records |-> R, pos |-> 1]
  <2>1. new \in Job /\ new.kind = "update" /\ new.file \in Merged /\ "loading" \in Stage
    BY DEF Kind, File, Merged, Job, Stage
  <2>2. Start(p, new) /\ stage' = [stage EXCEPT ![p] = "loading"]
    BY <1>1 DEF StartUpdate, Goto
  <2> HIDE DEF new
  <2>3. /\ stage' \in [Process -> Stage] /\ job' \in [Process -> Job] /\ started' \in Nat
        /\ \A q \in Process : JobOK(q)'
    BY <2>1, <2>2, Begun
  <2> QED BY <1>1, <2>3 DEF StartUpdate, Types
<1>2. ASSUME NEW p \in Process, NEW R \in SUBSET Record, StartReplace(p, R) PROVE Types'
  <2> DEFINE new == [kind |-> "replace", file |-> "scope", records |-> R, pos |-> 1]
  <2>1. new \in Job /\ new.kind = "replace" /\ new.file = "scope" /\ "opening" \in Stage
    BY DEF Kind, File, Job, Stage
  <2>2. Start(p, new) /\ stage' = [stage EXCEPT ![p] = "opening"]
    BY <1>2 DEF StartReplace, Take, Goto
  <2> HIDE DEF new
  <2>3. /\ stage' \in [Process -> Stage] /\ job' \in [Process -> Job] /\ started' \in Nat
        /\ \A q \in Process : JobOK(q)'
    BY <2>1, <2>2, Begun
  <2>4. content' \in [Process -> SUBSET Record] /\ overlap' \subseteq File
    BY <1>2 DEF StartReplace, Take, Types, File
  <2> QED BY <1>2, <2>3, <2>4 DEF StartReplace, Types
<1>3. ASSUME NEW p \in Process, StartInit(p) PROVE Types'
  <2> DEFINE new == [kind |-> "init", file |-> CreateOrder[1], records |-> {}, pos |-> 1]
  <2>1. new \in Job /\ new.kind = "init" /\ new.file = CreateOrder[1] /\ new.pos = 1 /\ "checking" \in Stage
    BY Orders DEF Kind, Job, Stage
  <2>2. Start(p, new) /\ stage' = [stage EXCEPT ![p] = "checking"]
    BY <1>3 DEF StartInit, Goto
  <2> HIDE DEF new
  <2>3. /\ stage' \in [Process -> Stage] /\ job' \in [Process -> Job] /\ started' \in Nat
        /\ \A q \in Process : JobOK(q)'
    BY <2>1, <2>2, Begun
  <2> QED BY <1>3, <2>3 DEF StartInit, Types
<1>4. ASSUME NEW p \in Process, StartDoctor(p) PROVE Types'
  <2> DEFINE new == [kind |-> "doctor", file |-> CheckOrder[1], records |-> {}, pos |-> 1]
  <2>1. new \in Job /\ new.kind = "doctor" /\ new.file = CheckOrder[1] /\ new.pos = 1 /\ "examining" \in Stage
    BY Orders DEF Kind, Job, Stage
  <2>2. Start(p, new) /\ stage' = [stage EXCEPT ![p] = "examining"]
    BY <1>4 DEF StartDoctor, Goto
  <2> HIDE DEF new
  <2>3. /\ stage' \in [Process -> Stage] /\ job' \in [Process -> Job] /\ started' \in Nat
        /\ \A q \in Process : JobOK(q)'
    BY <2>1, <2>2, Begun
  <2>4. report' \in [Process -> SUBSET File] /\ wrong' \in [Process -> SUBSET File]
    BY <1>4 DEF StartDoctor, Types
  <2> QED BY <1>4, <2>3, <2>4 DEF StartDoctor, Types
<1>5. ASSUME NEW p \in Process, Load(p) PROVE Types'
  <2>1. /\ stage[p] = "loading" /\ stage' = [stage EXCEPT ![p] = "opening"] /\ job' = job
        /\ "opening" \in Stage
    BY <1>5 DEF Load, Take, Goto, Stage
  <2>2. stage' \in [Process -> Stage] /\ \A q \in Process : JobOK(q)'
    BY <2>1, Moved
  <2>3. content' \in [Process -> SUBSET Record] /\ overlap' \subseteq File
    BY <1>5 DEF Load, Take, Types, Job, Content
  <2> QED BY <1>5, <2>2, <2>3 DEF Load, Types
<1>6. ASSUME NEW p \in Process, Fail(p) PROVE Types'
  BY <1>6, Ended DEF Fail, Types
<1>7. ASSUME NEW p \in Process, Check(p) PROVE Types'
  <2> DEFINE f == job[p].file
  <2>1. CASE disk[f].state = "absent" \/ f = "meta"
    <3>1. /\ stage[p] = "checking" /\ stage' = [stage EXCEPT ![p] = "opening"] /\ job' = job
          /\ "opening" \in Stage
      BY <1>7, <2>1 DEF Check, Take, Goto, Stage
    <3>2. stage' \in [Process -> Stage] /\ \A q \in Process : JobOK(q)'
      BY <3>1, Moved
    <3>3. content' \in [Process -> SUBSET Record] /\ overlap' \subseteq File
      BY <1>7, <2>1 DEF Check, Take, Types, Job
    <3> QED BY <1>7, <3>1, <3>2, <3>3 DEF Check, Types
  <2>2. CASE ~(disk[f].state = "absent" \/ f = "meta")
    <3>1. /\ stage[p] = "checking" /\ UNCHANGED <<stage, content, overlap>> /\ job[p].file # "meta"
          /\ job' = [job EXCEPT ![p].pos = @ + 1, ![p].file = CreateOrder[job[p].pos + 1]]
      BY <1>7, <2>2 DEF Check
    <3>2. job[p].kind = "init" /\ stage' = [stage EXCEPT ![p] = "checking"]
      BY <3>1 DEF Types, JobOK, Job, Kind
    <3>3. /\ stage' \in [Process -> Stage] /\ job' \in [Process -> Job]
          /\ \A q \in Process : JobOK(q)'
      BY <3>1, <3>2, NextFile
    <3> QED BY <1>7, <3>1, <3>3 DEF Check, Types
  <2> QED BY <2>1, <2>2
<1>8. ASSUME NEW p \in Process, Truncate(p) PROVE Types'
  <2>1. /\ stage[p] = "opening" /\ stage' = [stage EXCEPT ![p] = "writing"] /\ job' = job
        /\ "writing" \in Stage
    BY <1>8 DEF Truncate, Goto, Stage
  <2>2. stage' \in [Process -> Stage] /\ \A q \in Process : JobOK(q)'
    BY <2>1, Moved
  <2>3. disk' \in [File -> Content]
    BY <1>8 DEF Truncate, Types, Truncated, Content
  <2> QED BY <1>8, <2>1, <2>2, <2>3 DEF Truncate, Types
<1>9. ASSUME NEW p \in Process, Write(p) PROVE Types'
  <2> DEFINE f == job[p].file
  <2>0. f \in File /\ job[p].records \in SUBSET Record /\ content[p] \in SUBSET Record
    BY DEF Types, Job
  <2>1. disk' \in [File -> Content] /\ wrong' \in [Process -> SUBSET File] /\ crashed' \subseteq File
    <3>1. Whole(content[p]) \in Content /\ Malformed \in Content
      BY <2>0 DEF Whole, Malformed, Content
    <3> QED BY <1>9, <3>1 DEF Write, Types
  <2>2. saved' \in [File -> SUBSET Record]
    <3>1. saved' = [saved EXCEPT ![f] = CASE job[p].kind = "update" -> @ \union job[p].records
                                          [] job[p].kind = "replace" -> job[p].records
                                          [] OTHER -> @]
      BY <1>9 DEF Write
    <3> QED BY <2>0, <3>1 DEF Types
  <2>3. /\ stage' \in [Process -> Stage] /\ job' \in [Process -> Job]
        /\ content' \in [Process -> SUBSET Record] /\ \A q \in Process : JobOK(q)'
    <3>1. CASE job[p].kind = "init" /\ f # "meta"
      <4>1. /\ stage' = [stage EXCEPT ![p] = "checking"] /\ content' = content
            /\ job' = [job EXCEPT ![p].pos = @ + 1, ![p].file = CreateOrder[job[p].pos + 1]]
        BY <1>9, <3>1 DEF Write, Goto
      <4> QED BY <3>1, <4>1, NextFile DEF Types
    <3>2. CASE ~(job[p].kind = "init" /\ f # "meta")
      <4>1. End(p)
        BY <1>9, <3>2 DEF Write
      <4> QED BY <4>1, Ended
    <3> QED BY <3>1, <3>2
  <2> QED BY <1>9, <2>1, <2>2, <2>3 DEF Write, Types
<1>10. ASSUME NEW p \in Process, Examine(p) PROVE Types'
  <2>0. job[p].kind = "doctor" /\ job[p].file \in File /\ job[p].pos \in 1..6 /\ stage[p] = "examining"
    BY <1>10 DEF Examine, Types, JobOK, Job, Kind
  <2>1. report' \in [Process -> SUBSET File]
    BY <1>10, <2>0 DEF Examine, Types
  <2>2. /\ stage' \in [Process -> Stage] /\ job' \in [Process -> Job] /\ \A q \in Process : JobOK(q)'
    <3>1. CASE job[p].pos < 6
      <4>1. /\ stage' = stage
            /\ job' = [job EXCEPT ![p].pos = @ + 1, ![p].file = CheckOrder[job[p].pos + 1]]
        BY <1>10, <3>1, Orders DEF Examine
      <4> QED BY <2>0, <3>1, <4>1, NextFile
    <3>2. CASE ~(job[p].pos < 6)
      <4>1. /\ stage' = [stage EXCEPT ![p] = "examined"] /\ job' = job /\ job[p].pos = 6
            /\ "examined" \in Stage
        BY <1>10, <2>0, <3>2, Orders DEF Examine, Goto, Stage
      <4> QED BY <2>0, <4>1, Moved DEF Types
    <3> QED BY <3>1, <3>2
  <2> QED BY <1>10, <2>1, <2>2 DEF Examine, Types
<1>11. ASSUME NEW p \in Process, Report(p) PROVE Types'
  <2>1. report' \in [Process -> SUBSET File] /\ wrong' \in [Process -> SUBSET File]
    BY <1>11 DEF Report, Types
  <2> QED BY <1>11, <2>1, Ended DEF Report, Types
<1>12. ASSUME NEW p \in Process, Crash(p) PROVE Types'
  <2>1. /\ report' \in [Process -> SUBSET File] /\ wrong' \in [Process -> SUBSET File]
        /\ crashed' \subseteq File
    BY <1>12 DEF Crash, Types, Job
  <2> QED BY <1>12, <2>1, Ended DEF Crash, Types
<1> QED BY <1>1, <1>2, <1>3, <1>4, <1>5, <1>6, <1>7, <1>8, <1>9, <1>10, <1>11, <1>12 DEF Next, Advance

(* What is kept of the files while nothing is written.                     *)
Kept == EmptyUnlessWhole /\ OneHolder /\ CutOff /\ OwnRecords /\ SavedIsKept

(* A step by which a process that was not writing holds no file leaves     *)
(* all of it as it was.                                                    *)
LEMMA LetGo ==
  ASSUME Types, Kept, NEW p \in Process, UNCHANGED <<disk, saved, overlap, crashed>>,
         stage[p] # "writing", stage'[p] \notin {"opening", "writing"},
         \A q \in Process \ {p} : stage'[q] = stage[q] /\ job'[q] = job[q] /\ content'[q] = content[q]
  PROVE  Kept'
<1>1. \A q \in Process, f \in File : Holding(q, f)' => q # p /\ Holding(q, f)
  BY DEF Holding
<1>2. \A f \in File : BeingWritten(f)' <=> BeingWritten(f)
  BY DEF BeingWritten
<1>3. EmptyUnlessWhole'
  BY DEF Kept, EmptyUnlessWhole
<1>4. OneHolder'
  BY <1>1 DEF Kept, OneHolder
<1>5. CutOff'
  BY <1>1, <1>2 DEF Kept, CutOff
<1>6. OwnRecords'
  BY DEF Kept, OwnRecords
<1>7. SavedIsKept'
  BY <1>1, <1>2 DEF Kept, SavedIsKept
<1> QED BY <1>3, <1>4, <1>5, <1>6, <1>7 DEF Kept

(* So does a step that has p take f, with at least what was saved there.   *)
LEMMA Taken ==
  ASSUME Types, Kept, NEW p \in Process, NEW f \in File, NEW R \in SUBSET Record,
         Take(p, f, R), UNCHANGED <<disk, saved, crashed>>,
         stage[p] \notin {"opening", "writing"},
         job'[p].file = f, \A q \in Process \ {p} : job'[q] = job[q],
         job'[p].kind = "update" => job'[p].records \subseteq R,
         job'[p].kind = "replace" => R = job'[p].records,
         f \notin crashed /\ ~BeingWritten(f) /\ f \notin overlap /\ job'[p].kind # "replace" => saved[f] \subseteq R,
         f \in crashed /\ f \notin overlap => job'[p].kind = "replace" \/ f = "meta"
  PROVE  Kept'
<1>1. /\ stage'[p] = "opening" /\ content'[p] = R
      /\ \A q \in Process \ {p} : stage'[q] = stage[q] /\ content'[q] = content[q]
      /\ overlap' = IF HeldByOther(p, f) THEN overlap \union {f} ELSE overlap
  BY DEF Take, Goto, Types
<1>2. \A g \in File : BeingWritten(g)' <=> BeingWritten(g)
  BY <1>1 DEF BeingWritten
<1>3. \A q \in Process, g \in File : Holding(q, g)' => (q # p /\ Holding(q, g)) \/ (q = p /\ g = f)
  BY <1>1 DEF Holding
<1>4. /\ \A g \in File \ overlap' : g \notin overlap
      /\ f \notin overlap' => \A q \in Process \ {p} : ~Holding(q, f)
  BY <1>1 DEF HeldByOther
<1>5. f \notin overlap' => ~BeingWritten(f)
  BY <1>4 DEF Holding, BeingWritten
<1>6. EmptyUnlessWhole'
  BY DEF Kept, EmptyUnlessWhole
<1>7. OneHolder'
  BY <1>3, <1>4 DEF Kept, OneHolder
<1>8. CutOff'
  BY <1>2, <1>3, <1>4 DEF Kept, CutOff
<1>9. OwnRecords'
  BY <1>1 DEF Kept, OwnRecords
<1>10. SavedIsKept'
  BY <1>1, <1>2, <1>3, <1>4, <1>5 DEF Kept, SavedIsKept
<1> QED BY <1>6, <1>7, <1>8, <1>9, <1>10 DEF Kept

(* To cut a file off that one holds alone.                                 *)
LEMMA TruncateKeeps == ASSUME Types, Kept, NEW p \in Process, Truncate(p) PROVE Kept'
<1> DEFINE f == job[p].file
<1>1. /\ stage[p] = "opening" /\ f \in File /\ disk'[f] = Truncated
      /\ \A g \in File \ {f} : disk'[g] = disk[g]
      /\ stage'[p] = "writing" /\ \A q \in Process \ {p} : stage'[q] = stage[q]
      /\ UNCHANGED <<job, content, saved, overlap, crashed>>
  BY DEF Truncate, Goto, Types, Job
<1>2. \A q \in Process, g \in File : Holding(q, g)' <=> Holding(q, g)
  BY <1>1 DEF Holding
<1>3. BeingWritten(f)' /\ \A g \in File \ {f} : BeingWritten(g)' <=> BeingWritten(g)
  BY <1>1 DEF BeingWritten
<1>4. EmptyUnlessWhole'
  BY <1>1 DEF Kept, EmptyUnlessWhole, Truncated
<1>5. OneHolder'
  BY <1>1, <1>2 DEF Kept, OneHolder
<1>6. CutOff'
  BY <1>1, <1>2, <1>3 DEF Kept, CutOff, Truncated
<1>7. OwnRecords'
  BY <1>1 DEF Kept, OwnRecords
<1>8. SavedIsKept'
  BY <1>1, <1>2, <1>3 DEF Kept, SavedIsKept
<1> QED BY <1>4, <1>5, <1>6, <1>7, <1>8 DEF Kept

(* A holder that dies leaves the file as it is, cut off or not.            *)
LEMMA CrashKeeps == ASSUME Types, Kept, NEW p \in Process, Crash(p) PROVE Kept'
<1> PICK f \in File : f = job[p].file
  BY DEF Types, Job
<1>1. /\ stage'[p] = "idle"
      /\ \A q \in Process \ {p} : stage'[q] = stage[q] /\ job'[q] = job[q] /\ content'[q] = content[q]
      /\ UNCHANGED <<disk, saved, overlap>>
  BY Ended DEF Crash
<1>2. CASE stage[p] # "writing"
  <2>1. crashed' = crashed
    BY <1>2 DEF Crash
  <2> QED BY <1>1, <1>2, <2>1, LetGo
<1>3. CASE stage[p] = "writing"
  <2>1. crashed' = crashed \union {f} /\ f \in File
    BY <1>3 DEF Crash, Types, Job
  <2>2. \A q \in Process, g \in File : Holding(q, g)' => q # p /\ Holding(q, g)
    BY <1>1 DEF Holding
  <2>3. Holding(p, f) /\ BeingWritten(f) /\ \A g \in File \ {f} : BeingWritten(g)' <=> BeingWritten(g)
    BY <1>1, <1>3 DEF Holding, BeingWritten
  <2>4. f \notin overlap => \A q \in Process : ~Holding(q, f)'
    BY <2>1, <2>2, <2>3 DEF Kept, OneHolder
  <2>5. EmptyUnlessWhole'
    BY <1>1 DEF Kept, EmptyUnlessWhole
  <2>6. OneHolder'
    BY <1>1, <2>2 DEF Kept, OneHolder
  <2>7. CutOff'
    BY <1>1, <2>1, <2>2, <2>3, <2>4 DEF Kept, CutOff
  <2>8. OwnRecords'
    BY <1>1 DEF Kept, OwnRecords
  <2>9. SavedIsKept'
    BY <1>1, <2>1, <2>2, <2>3 DEF Kept, SavedIsKept
  <2> QED BY <2>5, <2>6, <2>7, <2>8, <2>9 DEF Kept
<1> QED BY <1>2, <1>3

(* A holder that writes the file to its end puts down what was saved there *)
(* and what its command adds, for nobody else held it.                     *)
LEMMA WriteKeeps == ASSUME Types, Kept, NEW p \in Process, Write(p) PROVE Kept'
<1> PICK f \in File : f = job[p].file
  BY DEF Types, Job
<1>0. /\ stage[p] = "writing" /\ f \in File /\ JobOK(p) /\ job[p].kind \in Kind
      /\ content[p] \in SUBSET Record /\ job[p] \in Job
  BY DEF Write, Types, Job
<1>1. /\ stage'[p] \in {"idle", "checking"} /\ overlap' = overlap
      /\ \A q \in Process \ {p} : stage'[q] = stage[q] /\ job'[q] = job[q] /\ content'[q] = content[q]
  <2>1. CASE job[p].kind = "init" /\ f # "meta"
    <3>1. /\ stage' = [stage EXCEPT ![p] = "checking"] /\ content' = content /\ overlap' = overlap
          /\ job' = [job EXCEPT ![p].pos = @ + 1, ![p].file = CreateOrder[job[p].pos + 1]]
      BY <2>1 DEF Write, Goto
    <3> QED BY <2>1, <3>1, NextFile
  <2>2. CASE ~(job[p].kind = "init" /\ f # "meta")
    <3>1. End(p) /\ overlap' = overlap
      BY <2>2 DEF Write
    <3> QED BY <3>1, Ended
  <2> QED BY <2>1, <2>2
<1>2. \A q \in Process, g \in File : Holding(q, g)' => q # p /\ Holding(q, g)
  BY <1>1 DEF Holding
<1>3. Holding(p, f) /\ BeingWritten(f) /\ \A g \in File \ {f} : BeingWritten(g)' <=> BeingWritten(g)
  BY <1>0, <1>1 DEF Holding, BeingWritten
<1>4. f \notin overlap => \A q \in Process : ~Holding(q, f)'
  BY <1>0, <1>2, <1>3 DEF Kept, OneHolder
<1>5. f \notin overlap => ~BeingWritten(f)'
  BY <1>4 DEF Holding, BeingWritten
<1>6. /\ \A g \in File \ {f} : disk'[g] = disk[g] /\ saved'[g] = saved[g] /\ (g \in crashed' <=> g \in crashed)
      /\ \/ disk'[f] = Whole(content[p]) /\ f \notin crashed'
         \/ disk[f].state # "truncated" /\ disk'[f] = Malformed /\ f \in overlap
  <2>1. \A g \in File \ {f} : disk'[g] = disk[g] /\ (g \in crashed' <=> g \in crashed)
    BY <1>0 DEF Write, Types
  <2>2. \A g \in File \ {f} : saved'[g] = saved[g]
    BY <1>0 DEF Write, Types
  <2>3. \/ disk'[f] = Whole(content[p]) /\ f \notin crashed'
        \/ disk[f].state # "truncated" /\ disk'[f] = Malformed
    BY <1>0 DEF Write, Types
  <2>4. f \in overlap \/ disk[f].state = "truncated"
    BY <1>0, <1>3 DEF Kept, CutOff
  <2> QED BY <2>1, <2>2, <2>3, <2>4
<1>7. /\ job[p].kind = "update" => saved'[f] = saved[f] \union job[p].records
      /\ job[p].kind = "replace" => saved'[f] = job[p].records
      /\ job[p].kind \notin {"update", "replace"} => saved'[f] = saved[f]
      /\ job[p].kind \in {"update", "replace"} => f # "meta"
  BY <1>0 DEF Write, Types, JobOK, Merged
<1>8. f \notin overlap => saved'[f] \subseteq content[p]
  <2>1. job[p].kind = "replace" => saved'[f] \subseteq content[p]
    BY <1>0, <1>7 DEF Kept, OwnRecords
  <2>2. CASE f \notin crashed /\ f \notin overlap /\ job[p].kind # "replace"
    <3>1. saved[f] \subseteq content[p]
      BY <1>0, <1>3, <2>2 DEF Kept, SavedIsKept
    <3> QED BY <1>0, <1>7, <2>2, <3>1 DEF Kept, OwnRecords
  <2>3. CASE f \in crashed /\ f \notin overlap /\ job[p].kind # "replace"
    <3>1. f = "meta" /\ saved[f] = {}
      BY <1>0, <1>3, <2>3 DEF Kept, CutOff, EmptyUnlessWhole
    <3> QED BY <1>7, <2>3, <3>1
  <2> QED BY <2>1, <2>2, <2>3
<1>9. EmptyUnlessWhole'
  <2>1. \A g \in File : disk'[g].state \in {"absent", "truncated"} => disk'[g].records = {}
    BY <1>6 DEF Kept, EmptyUnlessWhole, Whole, Malformed
  <2>2. saved'["meta"] = {}
    BY <1>6, <1>7 DEF Kept, EmptyUnlessWhole, File
  <2> QED BY <2>1, <2>2 DEF EmptyUnlessWhole
<1>10. OneHolder'
  BY <1>1, <1>2 DEF Kept, OneHolder
<1>11. CutOff'
  BY <1>1, <1>2, <1>3, <1>4, <1>5, <1>6 DEF Kept, CutOff, Whole
<1>12. OwnRecords'
  BY <1>1 DEF Kept, OwnRecords
<1>13. SavedIsKept'
  <2> SUFFICES ASSUME NEW g \in File, g \notin overlap', g \notin crashed'
               PROVE  /\ ~BeingWritten(g)' => saved'[g] \subseteq disk'[g].records
                      /\ \A q \in Process :
                           Holding(q, g)' /\ job'[q].kind # "replace" => saved'[g] \subseteq content'[q]
    BY DEF SavedIsKept
  <2>1. CASE g = f
    BY <1>1, <1>4, <1>6, <1>8, <2>1 DEF Whole
  <2>2. CASE g # f
    BY <1>1, <1>2, <1>3, <1>6, <2>2 DEF Kept, SavedIsKept
  <2> QED BY <2>1, <2>2
<1> QED BY <1>9, <1>10, <1>11, <1>12, <1>13 DEF Kept

(* Every step keeps it.                                                    *)
LEMMA KeptStep == ASSUME Types, Kept, Next PROVE Kept'
<1>1. ASSUME NEW p \in Process, NEW f \in Merged, NEW R \in SUBSET Record, StartUpdate(p, f, R)
      PROVE  Kept'
  <2>1. /\ stage[p] = "idle" /\ stage'[p] = "loading" /\ UNCHANGED <<disk, saved, overlap, crashed, content>>
        /\ \A q \in Process \ {p} : stage'[q] = stage[q] /\ job'[q] = job[q]
    BY <1>1 DEF StartUpdate, Start, Goto, Types
  <2> QED BY <2>1, LetGo
<1>2. ASSUME NEW p \in Process, NEW R \in SUBSET Record, StartReplace(p, R) PROVE Kept'
  <2>1. /\ stage[p] = "idle" /\ Take(p, "scope", R) /\ UNCHANGED <<disk, saved, crashed>>
        /\ job'[p].file = "scope" /\ job'[p].kind = "replace" /\ job'[p].records = R
        /\ \A q \in Process \ {p} : job'[q] = job[q]
    BY <1>2 DEF StartReplace, Start, Types
  <2>2. "scope" \in File
    BY DEF File
  <2> QED BY <2>1, <2>2, Taken
<1>3. ASSUME NEW p \in Process, StartInit(p) PROVE Kept'
  <2>1. /\ stage[p] = "idle" /\ stage'[p] = "checking" /\ UNCHANGED <<disk, saved, overlap, crashed, content>>
        /\ \A q \in Process \ {p} : stage'[q] = stage[q] /\ job'[q] = job[q]
    BY <1>3 DEF StartInit, Start, Goto, Types
  <2> QED BY <2>1, LetGo
<1>4. ASSUME NEW p \in Process, StartDoctor(p) PROVE Kept'
  <2>1. /\ stage[p] = "idle" /\ stage'[p] = "examining" /\ UNCHANGED <<disk, saved, overlap, crashed, content>>
        /\ \A q \in Process \ {p} : stage'[q] = stage[q] /\ job'[q] = job[q]
    BY <1>4 DEF StartDoctor, Start, Goto, Types
  <2> QED BY <2>1, LetGo
<1>5. ASSUME NEW p \in Process, Load(p) PROVE Kept'
  <2> PICK f \in File : f = job[p].file
    BY DEF Types, Job
  <2> DEFINE R == disk[f].records \union job[p].records
  <2>1. /\ stage[p] = "loading" /\ disk[f].state = "whole" /\ Take(p, f, R)
        /\ UNCHANGED <<disk, saved, crashed, job>>
    BY <1>5 DEF Load, Readable
  <2>2. R \in SUBSET Record /\ job[p].kind = "update"
    BY <2>1 DEF Types, Job, Content, JobOK, Kind
  <2>3. f \notin overlap => f \notin crashed
    BY <2>1 DEF Kept, CutOff
  <2>4. f \notin crashed /\ ~BeingWritten(f) /\ f \notin overlap => saved[f] \subseteq disk[f].records
    BY DEF Kept, SavedIsKept
  <2> QED BY <2>1, <2>2, <2>3, <2>4, Taken
<1>6. ASSUME NEW p \in Process, Fail(p) PROVE Kept'
  <2>1. /\ stage[p] # "writing" /\ stage'[p] = "idle" /\ UNCHANGED <<disk, saved, overlap, crashed>>
        /\ \A q \in Process \ {p} : stage'[q] = stage[q] /\ job'[q] = job[q] /\ content'[q] = content[q]
    BY <1>6, Ended DEF Fail
  <2> QED BY <2>1, LetGo
<1>7. ASSUME NEW p \in Process, Check(p) PROVE Kept'
  <2> PICK f \in File : f = job[p].file
    BY DEF Types, Job
  <2>0. stage[p] = "checking" /\ UNCHANGED <<disk, saved, crashed>> /\ job[p].kind = "init"
    BY <1>7 DEF Check, Types, JobOK, Job, Kind
  <2>1. CASE disk[f].state = "absent" \/ f = "meta"
    <3>1. Take(p, f, {}) /\ job' = job
      BY <1>7, <2>1 DEF Check
    <3>2. f \notin overlap => (f \notin crashed \/ f = "meta")
      BY <2>1 DEF Kept, CutOff
    <3>3. f \notin crashed /\ ~BeingWritten(f) /\ f \notin overlap => saved[f] \subseteq {}
      BY <2>1 DEF Kept, SavedIsKept, EmptyUnlessWhole
    <3> QED BY <2>0, <3>1, <3>2, <3>3, Taken
  <2>2. CASE ~(disk[f].state = "absent" \/ f = "meta")
    <3>1. /\ UNCHANGED <<stage, content, overlap>>
          /\ job' = [job EXCEPT ![p].pos = @ + 1, ![p].file = CreateOrder[job[p].pos + 1]]
      BY <1>7, <2>2 DEF Check
    <3>2. \A q \in Process \ {p} : job'[q] = job[q]
      BY <3>1 DEF Types
    <3> QED BY <2>0, <3>1, <3>2, LetGo
  <2> QED BY <2>1, <2>2
<1>8. ASSUME NEW p \in Process, Examine(p) PROVE Kept'
  <2>1. /\ stage[p] = "examining" /\ stage'[p] \in {"examining", "examined"}
        /\ UNCHANGED <<disk, saved, overlap, crashed, content>>
        /\ \A q \in Process \ {p} : stage'[q] = stage[q] /\ job'[q] = job[q]
    BY <1>8 DEF Examine, Goto, Types
  <2> QED BY <2>1, LetGo
<1>9. ASSUME NEW p \in Process, Report(p) PROVE Kept'
  <2>1. /\ stage[p] # "writing" /\ stage'[p] = "idle" /\ UNCHANGED <<disk, saved, overlap, crashed>>
        /\ \A q \in Process \ {p} : stage'[q] = stage[q] /\ job'[q] = job[q] /\ content'[q] = content[q]
    BY <1>9, Ended DEF Report
  <2> QED BY <2>1, LetGo
<1> QED BY <1>1, <1>2, <1>3, <1>4, <1>5, <1>6, <1>7, <1>8, <1>9, TruncateKeeps, WriteKeeps, CrashKeeps
        DEF Next, Advance

(* What holds of a doctor's run.                                           *)
Watched == Found /\ DoctorFindsLasting

(* Of the runs of doctor that a step leaves alone it keeps all this, if no *)
(* file that they found unreadable becomes readable.                       *)
LEMMA Onlookers ==
  ASSUME Types, Watched, NEW p \in Process,
         \A q \in Process \ {p} :
           stage'[q] = stage[q] /\ job'[q] = job[q] /\ report'[q] = report[q] /\ wrong'[q] \subseteq wrong[q],
         \A q \in Process : \A f \in wrong'[q] : ~Readable(f)',
         stage'[p] = "examining" => (wrong'[p] \intersect Passed(p)') \ {"notes"} \subseteq report'[p],
         stage'[p] = "examined" => wrong'[p] \ {"notes"} \subseteq report'[p]
  PROVE  Watched'
<1>1. \A q \in Process \ {p} : Passed(q)' = Passed(q)
  BY DEF Passed
<1>2. Found'
  BY <1>1 DEF Watched, Found
<1>3. DoctorFindsLasting'
  BY DEF Watched, DoctorFindsLasting
<1> QED BY <1>2, <1>3 DEF Watched

(* Whatever step is taken, a run of doctor reports every file that has     *)
(* been unreadable since before it began, once it is past that file.       *)
LEMMA WatchedStep == ASSUME Types, Watched, Next PROVE Watched'
<1>1. ASSUME NEW p \in Process, UNCHANGED <<disk, report, wrong>>, 
             stage'[p] \notin {"examining", "examined"},
             \A q \in Process \ {p} : stage'[q] = stage[q] /\ job'[q] = job[q]
      PROVE  Watched'
  <2>1. \A q \in Process : \A f \in wrong'[q] : ~Readable(f)'
    BY <1>1 DEF Watched, Found, Readable
  <2> QED BY <1>1, <2>1, Onlookers
<1>2. ASSUME NEW p \in Process, NEW f \in Merged, NEW R \in SUBSET Record, StartUpdate(p, f, R)
      PROVE  Watched'
  BY <1>1, <1>2 DEF StartUpdate, Start, Goto, Types
<1>3. ASSUME NEW p \in Process, NEW R \in SUBSET Record, StartReplace(p, R) PROVE Watched'
  BY <1>1, <1>3 DEF StartReplace, Start, Take, Goto, Types
<1>4. ASSUME NEW p \in Process, StartInit(p) PROVE Watched'
  BY <1>1, <1>4 DEF StartInit, Start, Goto, Types
<1>5. ASSUME NEW p \in Process, StartDoctor(p) PROVE Watched'
  <2>1. /\ stage'[p] = "examining" /\ report' = [report EXCEPT ![p] = {}] /\ disk' = disk
        /\ job'[p].pos = 1 /\ wrong' = [wrong EXCEPT ![p] = {f \in File : ~Readable(f)}]
        /\ \A q \in Process \ {p} : stage'[q] = stage[q] /\ job'[q] = job[q]
    BY <1>5 DEF StartDoctor, Start, Goto, Types
  <2>2. Passed(p)' = {}
    BY <2>1 DEF Passed
  <2>3. \A q \in Process : \A f \in wrong'[q] : ~Readable(f)'
    BY <2>1 DEF Watched, Found, Readable, Types
  <2>4. \A q \in Process \ {p} : report'[q] = report[q] /\ wrong'[q] = wrong[q]
    BY <2>1 DEF Types
  <2> QED BY <2>1, <2>2, <2>3, <2>4, Onlookers
<1>6. ASSUME NEW p \in Process, Load(p) PROVE Watched'
  BY <1>1, <1>6 DEF Load, Take, Goto, Types
<1>7. ASSUME NEW p \in Process, Fail(p) PROVE Watched'
  BY <1>1, <1>7, Ended DEF Fail
<1>8. ASSUME NEW p \in Process, Check(p) PROVE Watched'
  <2>1. stage'[p] \in {"opening", "checking"} /\ UNCHANGED <<disk, report, wrong>>
    BY <1>8 DEF Check, Take, Goto, Types
  <2>2. \A q \in Process \ {p} : stage'[q] = stage[q] /\ job'[q] = job[q]
    BY <1>8 DEF Check, Take, Goto, Types
  <2> QED BY <1>1, <2>1, <2>2
<1>9. ASSUME NEW p \in Process, Truncate(p) PROVE Watched'
  <2>1. /\ stage'[p] = "writing" /\ \A q \in Process \ {p} : stage'[q] = stage[q]
        /\ UNCHANGED <<job, report, wrong>>
    BY <1>9 DEF Truncate, Goto, Types
  <2>2. \A q \in Process : \A f \in wrong'[q] : ~Readable(f)'
    BY <1>9, <2>1 DEF Truncate, Truncated, Watched, Found, Readable, Types
  <2> QED BY <2>1, <2>2, Onlookers
<1>10. ASSUME NEW p \in Process, Write(p) PROVE Watched'
  <2> PICK f \in File : f = job[p].file
    BY DEF Types, Job
  <2>1. report' = report /\ stage'[p] \in {"idle", "checking"}
        /\ \A q \in Process \ {p} : stage'[q] = stage[q] /\ job'[q] = job[q]
    <3>1. CASE job[p].kind = "init" /\ f # "meta"
      <4>1. /\ stage' = [stage EXCEPT ![p] = "checking"] /\ report' = report
            /\ job' = [job EXCEPT ![p].pos = @ + 1, ![p].file = CreateOrder[job[p].pos + 1]]
        BY <1>10, <3>1 DEF Write, Goto
      <4> QED BY <3>1, <4>1, NextFile
    <3>2. CASE ~(job[p].kind = "init" /\ f # "meta")
      <4>1. End(p) /\ report' = report
        BY <1>10, <3>2 DEF Write
      <4> QED BY <4>1, Ended
    <3> QED BY <3>1, <3>2
  <2>2. /\ \A g \in File \ {f} : disk'[g] = disk[g]
        /\ \/ \A q \in Process : wrong'[q] = wrong[q] \ {f}
           \/ disk'[f] = Malformed /\ wrong' = wrong
    BY <1>10 DEF Write, Types
  <2>3. \A q \in Process : \A g \in wrong'[q] : ~Readable(g)'
    BY <2>2 DEF Malformed, Watched, Found, Readable, Types
  <2>4. \A q \in Process : wrong'[q] \subseteq wrong[q]
    BY <2>2
  <2> QED BY <2>1, <2>3, <2>4, Onlookers
<1>11. ASSUME NEW p \in Process, Examine(p) PROVE Watched'
  <2> PICK f \in File : f = job[p].file
    BY DEF Types, Job
  <2>0. /\ stage[p] = "examining" /\ job[p].pos \in 1..6 /\ f = CheckOrder[job[p].pos]
        /\ UNCHANGED <<disk, wrong>>
    BY <1>11 DEF Examine, Types, JobOK, Job, Kind
  <2>1. /\ \A q \in Process \ {p} : stage'[q] = stage[q] /\ job'[q] = job[q] /\ report'[q] = report[q]
        /\ \A q \in Process : \A g \in wrong'[q] : ~Readable(g)'
    BY <1>11, <2>0 DEF Examine, Goto, Types, Watched, Found, Readable
  <2>2. (wrong[p] \intersect Passed(p)) \ {"notes"} \subseteq report[p]
    BY <2>0 DEF Watched, Found
  <2>3. report[p] \subseteq report'[p] /\ (f # "notes" /\ f \in wrong[p] => f \in report'[p])
    BY <1>11 DEF Examine, Types, Watched, Found
  <2>4. (wrong[p] \intersect (Passed(p) \union {f})) \ {"notes"} \subseteq report'[p]
    BY <2>2, <2>3
  <2>5. CASE job[p].pos < 6
    <3>1. stage'[p] = "examining" /\ job'[p].pos = job[p].pos + 1
      <4>1. /\ stage' = stage
            /\ job' = [job EXCEPT ![p].pos = @ + 1, ![p].file = CheckOrder[job[p].pos + 1]]
        BY <1>11, <2>5, Orders DEF Examine
      <4> QED BY <2>0, <2>5, <4>1, NextFile, <1>11 DEF Types, Examine, JobOK, Job, Kind
    <3>2. Passed(p)' = Passed(p) \union {f}
      BY <2>0, <3>1 DEF Passed
    <3> QED BY <2>0, <2>1, <2>4, <3>1, <3>2, Onlookers
  <2>6. CASE ~(job[p].pos < 6)
    <3>1. stage'[p] = "examined" /\ job[p].pos = 6
      BY <1>11, <2>0, <2>6, Orders DEF Examine, Goto, Types
    <3>2. File = Passed(p) \union {f}
      BY <2>0, <3>1, Orders DEF Passed
    <3>3. wrong[p] \subseteq File
      BY DEF Types
    <3> QED BY <2>0, <2>1, <2>4, <3>1, <3>2, <3>3, Onlookers
  <2> QED BY <2>5, <2>6
<1>12. ASSUME NEW p \in Process, Report(p) \/ Crash(p) PROVE Watched'
  <2>1. /\ stage'[p] = "idle" /\ disk' = disk
        /\ \A q \in Process \ {p} : stage'[q] = stage[q] /\ job'[q] = job[q]
        /\ report' = [report EXCEPT ![p] = {}] /\ wrong' = [wrong EXCEPT ![p] = {}]
    BY <1>12, Ended DEF Report, Crash
  <2>2. /\ \A q \in Process \ {p} : report'[q] = report[q] /\ wrong'[q] = wrong[q]
        /\ \A q \in Process : \A f \in wrong'[q] : ~Readable(f)'
    BY <2>1 DEF Types, Watched, Found, Readable
  <2> QED BY <2>1, <2>2, Onlookers
<1> QED BY <1>2, <1>3, <1>4, <1>5, <1>6, <1>7, <1>8, <1>9, <1>10, <1>11, <1>12 DEF Next, Advance

(* An absent or a fresh workspace.                                         *)
LEMMA FilesInit == Init => FilesInv
<1> SUFFICES ASSUME Init PROVE FilesInv
  OBVIOUS
<1>1. \A p \in Process : stage[p] = "idle" /\ job[p] = NoJob /\ wrong[p] = {}
  BY DEF Init
<1>2. \A f \in File : disk[f].state \in {"absent", "whole"} /\ disk[f].records = {} /\ saved[f] = {}
  BY DEF Init, Absent, Whole
<1>3. Types
  <2>1. disk \in [File -> Content]
    BY DEF Init, Absent, Whole, Content
  <2>2. NoJob \in Job /\ "idle" \in Stage
    BY DEF NoJob, Job, Kind, File, Stage
  <2>3. \A p \in Process : JobOK(p)
    <3>1. \A p \in Process : job[p].kind = "none" /\ stage[p] = "idle"
      <4>1. NoJob.kind = "none"
        BY DEF NoJob
      <4> QED BY <1>1, <4>1
    <3> QED BY <3>1 DEF JobOK
  <2> QED BY <2>1, <2>2, <2>3 DEF Init, Types
<1>4. \A f \in File : ~BeingWritten(f) /\ \A p \in Process : ~Holding(p, f)
  BY <1>1 DEF Holding, BeingWritten
<1>5. EmptyUnlessWhole
  BY <1>2 DEF EmptyUnlessWhole, File
<1>6. OneHolder /\ OwnRecords
  BY <1>1, <1>4 DEF OneHolder, OwnRecords
<1>7. CutOff
  <2>1. crashed = {} /\ \A f \in File : disk[f].state \notin {"truncated", "malformed"}
    BY <1>2 DEF Init
  <2> QED BY <1>4, <2>1 DEF CutOff
<1>8. SavedIsKept
  BY <1>2, <1>4 DEF SavedIsKept
<1>9. Found /\ DoctorFindsLasting
  BY <1>1 DEF Found, DoctorFindsLasting
<1> QED BY <1>3, <1>5, <1>6, <1>7, <1>8, <1>9 DEF FilesInv

(* Every step of a command, and every crash, keeps the invariant.          *)
LEMMA FilesStep == FilesInv /\ [Next]_vars => FilesInv'
<1> SUFFICES ASSUME FilesInv, [Next]_vars PROVE FilesInv'
  OBVIOUS
<1>1. Types /\ Kept /\ Watched
  BY DEF FilesInv, Kept, Watched
<1>2. CASE Next
  BY <1>1, <1>2, TypesStep, KeptStep, WatchedStep DEF FilesInv, Kept, Watched
<1>3. CASE UNCHANGED vars
  <2>1. Types' /\ EmptyUnlessWhole' /\ OwnRecords' /\ DoctorFindsLasting'
    BY <1>3 DEF FilesInv, vars, Types, JobOK, EmptyUnlessWhole, OwnRecords, DoctorFindsLasting
  <2>2. OneHolder' /\ CutOff' /\ SavedIsKept'
    BY <1>3 DEF FilesInv, vars, OneHolder, CutOff, SavedIsKept, Holding, BeingWritten
  <2>3. Found'
    BY <1>3 DEF FilesInv, vars, Found, Passed, Readable
  <2> QED BY <2>1, <2>2, <2>3 DEF FilesInv
<1> QED BY <1>2, <1>3

(* Commands, stages and contents keep their types; what a command may be   *)
(* doing, and to which file, is settled by its kind.                       *)
THEOREM FilesTypeCorrect == Spec => []Types
<1>1. FilesInv => Types
  BY DEF FilesInv
<1> QED BY <1>1, FilesInit, FilesStep, PTL DEF Spec

(* What a command saved is in its file, or about to be put there by the    *)
(* one process that writes it, unless two commands overlapped on that file *)
(* or one died while writing it (save_* of workspace.py, and the load and  *)
(* save of every updating command of cli.py).                              *)
THEOREM SavedKept == Spec => []SavedIsKept
<1>1. FilesInv => SavedIsKept
  BY DEF FilesInv
<1> QED BY <1>1, FilesInit, FilesStep, PTL DEF Spec

(* Only an overlap or a crash makes a file unreadable for good: otherwise  *)
(* it is missing, whole, or cut off by the write that is going on.         *)
THEOREM UnreadableCorrect == Spec => []UnreadableOnlyIfDisturbed
<1>1. FilesInv => UnreadableOnlyIfDisturbed
  BY DEF FilesInv, Types, Content, CutOff, UnreadableOnlyIfDisturbed
<1> QED BY <1>1, FilesInit, FilesStep, PTL DEF Spec

(* doctor, which looks at the files one after the other while others       *)
(* change them, reports every file unreadable throughout its run.          *)
THEOREM DoctorCorrect == Spec => []DoctorFindsLasting
<1>1. FilesInv => DoctorFindsLasting
  BY DEF FilesInv
<1> QED BY <1>1, FilesInit, FilesStep, PTL DEF Spec
-----------------------------------------------------------------------------
Line == {"spoilt", "garbled"} \union Entire \union Cut

(* The entries with their newline: nothing can spoil them any more.        *)
Firm == {i \in DOMAIN lines : lines[i] = "entry"}

(* An append that was interrupted pays for one lost entry, and one that is *)
(* split for itself; while the file ends in a cut line the last of these   *)
(* payments is still to be used.                                           *)
Paid == whole + (IF CutShort THEN 1 ELSE 0) <= Cardinality(Firm) + cuts + split

AuditInv == AuditTypeOK /\ Paid

(* The firm entries can be counted.                                        *)
LEMMA FirmFinite ==
  ASSUME lines \in Seq(Line)
  PROVE  IsFiniteSet(Firm) /\ Cardinality(Firm) \in Nat
<1>1. Firm \subseteq 1..Len(lines) /\ Len(lines) \in Nat
  BY DEF Firm
<1>2. IsFiniteSet(1..Len(lines))
  BY <1>1, FS_Interval
<1>3. IsFiniteSet(Firm)
  BY <1>1, <1>2, FS_Subset
<1> QED BY <1>3, FS_CardinalityType

(* What writing one more line does to the file, glued or not.              *)
LEMMA GluedLine ==
  ASSUME AuditTypeOK, CutShort, NEW line \in Entire \union Cut, lines' = Appended(line)
  PROVE  /\ lines' \in Seq(Line) /\ Len(lines') = Len(lines)
         /\ Firm' = Firm \/ (line = "entry" /\ Firm' = Firm \union {Len(lines)})
         /\ Len(lines) \notin Firm
         /\ \A i \in DOMAIN lines : i # Len(lines) => lines'[i] = lines[i]
         /\ line \in Entire => ~CutShort'
<1> DEFINE n == Len(lines)
<1>1. lines \in Seq(Line) /\ n \in Nat \ {0} /\ lines[n] \in Cut /\ DOMAIN lines = 1..n
  BY DEF CutShort, AuditTypeOK, Line
<1> DEFINE glued == Glued(lines[n], line)
<1>2. glued \in Line /\ (glued = "entry" => line = "entry") /\ (line \in Entire => glued \notin Cut)
  BY <1>1 DEF Glued, Line, Cut, Entire
<1>3. lines[n] # "entry" /\ n \notin Firm
  BY <1>1 DEF Cut, Firm
<1> HIDE DEF glued
<1>4. /\ lines' = [lines EXCEPT ![n] = glued] /\ DOMAIN lines' = DOMAIN lines
      /\ lines' \in Seq(Line) /\ Len(lines') = n /\ lines'[n] = glued
      /\ \A i \in DOMAIN lines : i # n => lines'[i] = lines[i]
  <2>1. lines' = [lines EXCEPT ![n] = glued]
    BY DEF Appended, glued
  <2> QED BY <1>1, <1>2, <2>1
<1>5. CASE glued = "entry"
  <2>1. Firm' = Firm \union {n}
    BY <1>1, <1>3, <1>4, <1>5 DEF Firm
  <2> QED BY <1>1, <1>2, <1>3, <1>4, <1>5, <2>1 DEF CutShort
<1>6. CASE glued # "entry"
  <2>1. Firm' = Firm
    BY <1>1, <1>3, <1>4, <1>6 DEF Firm
  <2> QED BY <1>1, <1>2, <1>3, <1>4, <2>1 DEF CutShort
<1> QED BY <1>5, <1>6

(* What it does when the last line is complete: a line of its own.         *)
LEMMA NewLine ==
  ASSUME AuditTypeOK, ~CutShort, NEW line \in Entire \union Cut, lines' = Appended(line)
  PROVE  /\ lines' \in Seq(Line) /\ Len(lines') = Len(lines) + 1
         /\ \A i \in 1..Len(lines) : lines'[i] = lines[i] /\ lines[i] \notin Cut
         /\ line \in Entire => ~CutShort'
         /\ line = "entry" => Firm' = Firm \union {Len(lines) + 1}
         /\ line # "entry" => Firm' = Firm
<1> DEFINE n == Len(lines)
<1>1. /\ lines' = Append(lines, line) /\ n \in Nat /\ lines \in Seq(Line) /\ line \in Line
      /\ DOMAIN lines = 1..n
  BY DEF Appended, AuditTypeOK, Line
<1>2. /\ lines' \in Seq(Line) /\ Len(lines') = n + 1 /\ lines'[n + 1] = line
      /\ DOMAIN lines' = 1..(n + 1) /\ \A i \in 1..n : lines'[i] = lines[i]
  BY <1>1
<1>3. \A i \in 1..n : lines[i] \notin Cut
  <2>1. \A i \in 1..(n - 1) : lines[i] \notin Cut
    BY DEF AuditTypeOK
  <2>2. n > 0 => lines[n] \notin Cut
    BY <1>1 DEF CutShort
  <2> QED BY <1>1, <2>1, <2>2
<1>4. line \in Entire => ~CutShort'
  BY <1>1, <1>2 DEF CutShort, Cut, Entire
<1>5. line = "entry" => Firm' = Firm \union {n + 1}
  BY <1>1, <1>2 DEF Firm
<1>6. line # "entry" => Firm' = Firm
  BY <1>1, <1>2 DEF Firm
<1> QED BY <1>2, <1>3, <1>4, <1>5, <1>6

(* Both cases together: the file grows, complete lines stay.               *)
LEMMA AppendedLine ==
  ASSUME AuditTypeOK, NEW line \in Entire \union Cut, lines' = Appended(line)
  PROVE  /\ lines' \in Seq(Line) /\ Len(lines) <= Len(lines')
         /\ \A i \in 1..(Len(lines') - 1) : lines'[i] \notin Cut
         /\ \A i \in DOMAIN lines : lines[i] \notin Cut => lines'[i] = lines[i]
<1>1. Len(lines) \in Nat /\ DOMAIN lines = 1..Len(lines)
  BY DEF AuditTypeOK
<1>2. CASE CutShort
  BY <1>1, <1>2, GluedLine DEF AuditTypeOK, CutShort
<1>3. CASE ~CutShort
  BY <1>1, <1>3, NewLine
<1> QED BY <1>2, <1>3

(* An empty file owes nothing.                                             *)
LEMMA AuditStart == AuditInit => AuditInv
<1> SUFFICES ASSUME AuditInit PROVE AuditInv
  OBVIOUS
<1>1. Firm = {} /\ ~CutShort
  BY DEF AuditInit, Firm, CutShort
<1> QED BY <1>1, FS_EmptySet, MaxWritesAssumption DEF AuditInit, AuditInv, AuditTypeOK, Paid

(* Appends, whole or interrupted, keep types and payments.                 *)
LEMMA AuditStep == AuditInv /\ [AuditNext]_auditVars => AuditInv'
<1> SUFFICES ASSUME AuditInv, [AuditNext]_auditVars PROVE AuditInv'
  OBVIOUS
<1> USE MaxWritesAssumption DEF AuditInv
<1>0. lines \in Seq(Line) /\ Cardinality(Firm) \in Nat /\ whole \in Nat /\ split \in Nat /\ cuts \in Nat
      /\ IsFiniteSet(Firm) /\ Len(lines) + 1 \notin Firm
  BY FirmFinite DEF AuditTypeOK, Line, Firm
<1>1. ASSUME NEW line \in Entire, AppendAudit(line) PROVE AuditInv'
  <2>1. /\ lines' = Appended(line) /\ whole' = whole + 1 /\ cuts' = cuts /\ whole + cuts < MaxWrites
        /\ split' = split + (IF line = "split" THEN 1 ELSE 0)
        /\ line \in Entire \union Cut
    BY <1>1 DEF AppendAudit
  <2>0. line = "entry" \/ line = "split"
    BY DEF Entire
  <2>2. AuditTypeOK'
    <3>1. lines' \in Seq(Line) /\ \A i \in 1..(Len(lines') - 1) : lines'[i] \notin Cut
      BY <2>1, AppendedLine
    <3> QED BY <1>0, <2>1, <3>1 DEF AuditTypeOK, Line
  <2>3. CASE CutShort
    <3>1. ~CutShort' /\ (Firm' = Firm \/ Firm' = Firm \union {Len(lines)}) /\ Len(lines) \notin Firm
      BY <2>1, <2>3, GluedLine
    <3>a. Cardinality(Firm \union {Len(lines)}) = Cardinality(Firm) + 1
      BY <1>0, <3>1, FS_AddElement
    <3>b. Cardinality(Firm') = Cardinality(Firm) \/ Cardinality(Firm') = Cardinality(Firm) + 1
      BY <3>1, <3>a
    <3>2. Cardinality(Firm') \in Nat /\ Cardinality(Firm') >= Cardinality(Firm)
      BY <1>0, <3>b
    <3> QED BY <1>0, <2>0, <2>1, <2>2, <2>3, <3>1, <3>2 DEF Paid
  <2>4. CASE ~CutShort /\ line = "entry"
    <3>1. Firm' = Firm \union {Len(lines) + 1} /\ ~CutShort'
      BY <2>1, <2>4, NewLine
    <3>2. Cardinality(Firm') = Cardinality(Firm) + 1
      BY <1>0, <3>1, FS_AddElement
    <3> QED BY <1>0, <2>1, <2>2, <2>4, <3>1, <3>2 DEF Paid
  <2>5. CASE ~CutShort /\ line = "split"
    <3>1. Firm' = Firm /\ ~CutShort'
      BY <2>1, <2>5, NewLine
    <3> QED BY <1>0, <2>1, <2>2, <2>5, <3>1 DEF Paid
  <2> QED BY <2>0, <2>3, <2>4, <2>5
<1>2. ASSUME NEW kind \in Cut, Interrupt(kind) PROVE AuditInv'
  <2>1. /\ lines' = Appended(kind) /\ whole' = whole /\ split' = split
        /\ cuts' = cuts + 1 /\ whole + cuts < MaxWrites
    BY <1>2 DEF Interrupt
  <2>0. kind \in Entire \union Cut /\ kind # "entry"
    BY DEF Cut
  <2>2. AuditTypeOK'
    <3>1. lines' \in Seq(Line) /\ \A i \in 1..(Len(lines') - 1) : lines'[i] \notin Cut
      BY <2>0, <2>1, AppendedLine
    <3> QED BY <1>0, <2>1, <3>1 DEF AuditTypeOK, Line
  <2>3. Firm' = Firm
    BY <2>0, <2>1, GluedLine, NewLine
  <2> QED BY <1>0, <2>1, <2>2, <2>3 DEF Paid
<1>3. CASE UNCHANGED auditVars
  BY <1>3 DEF auditVars, AuditTypeOK, Paid, Firm, CutShort
<1> QED BY <1>1, <1>2, <1>3 DEF AuditNext

(* The file keeps its types: only the last line ever lacks its newline.    *)
THEOREM AuditTypeCorrect == AuditSpec => []AuditTypeOK
<1>1. AuditInv => AuditTypeOK
  BY DEF AuditInv
<1> QED BY <1>1, AuditStart, AuditStep, PTL DEF AuditSpec

(* Every interrupted append costs at most one entry written after it, and  *)
(* an entry with a separator in it at most itself.                         *)
THEOREM LossCorrect == AuditSpec => []LossBounded
<1>1. AuditInv => LossBounded
  <2> SUFFICES ASSUME AuditInv PROVE whole <= Cardinality(Loaded) + cuts + split
    BY DEF LossBounded
  <2>1. lines \in Seq(Line) /\ Len(lines) \in Nat /\ DOMAIN lines = 1..Len(lines)
    BY DEF AuditInv, AuditTypeOK, Line
  <2>2. Firm \subseteq Loaded /\ IsFiniteSet(Loaded)
    <3>1. Firm \subseteq Loaded /\ Loaded \subseteq 1..Len(lines)
      BY <2>1 DEF Firm, Loaded
    <3>2. IsFiniteSet(1..Len(lines))
      BY <2>1, FS_Interval
    <3> QED BY <3>1, <3>2, FS_Subset
  <2>3. Cardinality(Firm) <= Cardinality(Loaded) /\ Cardinality(Loaded) \in Nat
    BY <2>2, FS_Subset, FS_CardinalityType
  <2> QED BY <2>1, <2>3, FirmFinite DEF AuditInv, AuditTypeOK, Paid
<1> QED BY <1>1, AuditStart, AuditStep, PTL DEF AuditSpec

(* No finished line is ever changed or removed.                            *)
THEOREM TrailAppendOnly == AuditSpec => AppendOnly
<1>1. ASSUME AuditInv, [AuditNext]_auditVars
      PROVE  [/\ Len(lines) <= Len(lines')
              /\ \A i \in DOMAIN lines : lines[i] \notin Cut => lines'[i] = lines[i]]_auditVars
  BY <1>1, AppendedLine DEF AuditInv, AuditNext, AppendAudit, Interrupt
<1> QED BY <1>1, AuditStart, AuditStep, PTL DEF AuditSpec, AppendOnly

-----------------------------------------------------------------------------
(* Induction over the natural numbers, stated with a set.                  *)
LEMMA Induct ==
  ASSUME NEW S, 0 \in S, \A n \in Nat : n \in S => n + 1 \in S
  PROVE  Nat \subseteq S
<1> DEFINE T == Nat \ S
           R == OpToRel(<, Nat)
<1> SUFFICES ASSUME T # {} PROVE FALSE
  OBVIOUS
<1>1. R = {ss \in Nat \X Nat : ss[1] < ss[2]}
  BY DEF OpToRel
<1>2. IsWellFoundedOn(R, Nat)
  BY NatLessThanWellFounded, Zenon
<1> HIDE DEF R
<1>3. PICK x \in T : \A y \in T : <<y, x>> \notin R
  <2> HIDE DEF T
  <2>1. T \subseteq Nat
    BY DEF T
  <2> QED BY <1>2, <2>1, WFMin
<1>4. x \in Nat \ {0} /\ x - 1 \in Nat /\ (x - 1) + 1 = x
  OBVIOUS
<1>5. x - 1 \notin T
  <2>1. x - 1 < x
    BY <1>4
  <2> QED BY <1>1, <1>3, <1>4, <2>1
<1> QED BY <1>4, <1>5


(* Parse is what its recursion says.                                       *)
LEMMA ParseEquation ==
  ASSUME NEW t, Len(t) \in Nat
  PROVE  \E parse : /\ parse[0] = Nothing
                    /\ \A n \in 1..Len(t) : parse[n] = Read(parse[n - 1], t[n])
                    /\ Parse(t) = parse[Len(t)]
<1> DEFINE N == Len(t)
           IsParse(parse, n) == parse = [i \in 0..n |-> IF i = 0 THEN Nothing ELSE Read(parse[i - 1], t[i])]
           Good == {n \in Nat : \E parse : IsParse(parse, n)}
<1>1. N \in Nat
  OBVIOUS
<1>2. 0 \in Good
  <2>1. IsParse([i \in 0..0 |-> Nothing], 0)
    OBVIOUS
  <2> QED BY <2>1
<1>3. ASSUME NEW n \in Nat, n \in Good PROVE n + 1 \in Good
  <2>1. PICK parse : IsParse(parse, n)
    BY <1>3
  <2> DEFINE more == [i \in 0..(n + 1) |-> IF i = n + 1 THEN Read(parse[n], t[n + 1]) ELSE parse[i]]
  <2>2. \A i \in 0..n : more[i] = parse[i]
    OBVIOUS
  <2>3. \A i \in 0..(n + 1) : more[i] = IF i = 0 THEN Nothing ELSE Read(more[i - 1], t[i])
    <3> SUFFICES ASSUME NEW i \in 0..(n + 1)
                 PROVE  more[i] = IF i = 0 THEN Nothing ELSE Read(more[i - 1], t[i])
      OBVIOUS
    <3>1. CASE i = n + 1
      <4>1. more[i] = Read(parse[n], t[n + 1]) /\ more[i - 1] = parse[n]
        BY <3>1
      <4> QED BY <3>1, <4>1
    <3>2. CASE i # n + 1
      <4>1. i \in 0..n /\ more[i] = parse[i]
        BY <3>2
      <4>2. parse[i] = IF i = 0 THEN Nothing ELSE Read(parse[i - 1], t[i])
        BY <2>1, <4>1
      <4>3. i # 0 => more[i - 1] = parse[i - 1]
        BY <3>2
      <4> QED BY <4>1, <4>2, <4>3
    <3> QED BY <3>1, <3>2
  <2>4. IsParse(more, n + 1)
    <3>1. more = [i \in 0..(n + 1) |-> more[i]]
      OBVIOUS
    <3> HIDE DEF more
    <3> QED BY <2>3, <3>1
  <2> HIDE DEF IsParse, more
  <2> QED BY <2>4
<1>4. N \in Good
  <2> HIDE DEF Good, IsParse
  <2> QED BY <1>1, <1>2, <1>3, Induct
<1> DEFINE IsWhole(parse) == IsParse(parse, N)
           all == CHOOSE parse : IsWhole(parse)
<1>5. IsWhole(all)
  <2>1. \E parse : IsWhole(parse)
    BY <1>4
  <2> HIDE DEF IsWhole
  <2> QED BY <2>1
<1>6. Parse(t) = all[N]
  BY DEF Parse
<1> HIDE DEF all
<1>7. all[0] = Nothing
  BY <1>1, <1>5
<1>8. \A n \in 1..N : all[n] = Read(all[n - 1], t[n])
  <2> SUFFICES ASSUME NEW n \in 1..N PROVE all[n] = Read(all[n - 1], t[n])
    OBVIOUS
  <2>1. n \in 0..N /\ n # 0
    BY <1>1
  <2> QED BY <1>5, <2>1
<1> QED BY <1>6, <1>7, <1>8


(* A text is read line by line: one more line is read after all before it. *)
LEMMA ParseAppend ==
  ASSUME NEW S, NEW t \in Seq(S), NEW line \in S
  PROVE  Parse(Append(t, line)) = Read(Parse(t), line)
<1> DEFINE n == Len(t)
           more == Append(t, line)
<1>1. n \in Nat /\ Len(more) = n + 1 /\ more[n + 1] = line /\ \A i \in 1..n : more[i] = t[i]
  BY AppendProperties
<1> HIDE DEF n, more
<1>2. PICK p : p[0] = Nothing /\ (\A i \in 1..n : p[i] = Read(p[i - 1], t[i])) /\ Parse(t) = p[n]
  BY <1>1, ParseEquation DEF n
<1>3. PICK q : /\ q[0] = Nothing /\ \A i \in 1..(n + 1) : q[i] = Read(q[i - 1], more[i])
               /\ Parse(more) = q[n + 1]
  <2>1. Len(more) \in Nat
    BY <1>1
  <2> QED BY <1>1, <2>1, ParseEquation
<1> DEFINE Good == {i \in Nat : i <= n => q[i] = p[i]}
<1>4. 0 \in Good
  BY <1>2, <1>3
<1>5. ASSUME NEW i \in Nat, i \in Good PROVE i + 1 \in Good
  <2> SUFFICES ASSUME i + 1 <= n PROVE q[i + 1] = p[i + 1]
    OBVIOUS
  <2>1. i + 1 \in 1..n /\ i + 1 \in 1..(n + 1) /\ (i + 1) - 1 = i /\ q[i] = p[i]
    BY <1>1, <1>5
  <2> QED BY <1>1, <1>2, <1>3, <2>1
<1>6. q[n] = p[n]
  <2>1. n \in Good
    <3> HIDE DEF Good
    <3> QED BY <1>1, <1>4, <1>5, Induct
  <2> QED BY <1>1, <2>1
<1>7. n + 1 \in 1..(n + 1) /\ (n + 1) - 1 = n
  BY <1>1
<1> QED BY <1>1, <1>2, <1>3, <1>6, <1>7 DEF more

(* Nothing is known of an empty text.                                      *)
LEMMA ParseEmpty == Parse(<<>>) = Nothing
<1>1. Len(<<>>) = 0
  OBVIOUS
<1> QED BY <1>1, ParseEquation

-----------------------------------------------------------------------------
(* What is known after some of the lines of a list.                        *)
ReadRule == RuleKind \X RuleValue \X {"value", "cut"}
Known ==
  [reads : BOOLEAN, key : Key \union {"none"}, item : {"none", "kind", "whole"},
   kind : RuleKind \union {"none"}, form : [Key -> {"missing", "list", "empty"}],
   rules : [Key -> Seq(ReadRule)]]

(* The sort of the heading of a list, and the key its items go to.         *)
Form(rules) == IF rules = <<>> THEN "empty" ELSE "list"
ItemKey(key, rules) == IF rules = <<>> THEN "none" ELSE key

(* After the heading and i whole rules of a list that was reached with b.  *)
WholeRules(p, b, key, rules, i) ==
  /\ p \in Known /\ p.reads
  /\ p.key = ItemKey(key, rules)
  /\ p.item = IF i = 0 THEN "none" ELSE "whole"
  /\ p.form = [b.form EXCEPT ![key] = Form(rules)]
  /\ p.rules = [b.rules EXCEPT ![key] = Saved(rules, i)]

(* After one more line, the kind of the next rule.                         *)
HalfRule(p, b, key, rules, i) ==
  /\ p \in Known /\ p.reads
  /\ p.key = key /\ p.item = "kind" /\ p.kind = rules[i + 1][1]
  /\ p.form = [b.form EXCEPT ![key] = Form(rules)]
  /\ p.rules = [b.rules EXCEPT ![key] = Saved(rules, i)]

(* Its value cut short is read as a rule all the same.                     *)
CutRead(p, b, key, rules, i) ==
  Read(p, <<"cut", rules[i + 1][2]>>).rules = [b.rules EXCEPT ![key] = SavedCut(rules, i + 1)]

(* A list of rules is a sequence.                                          *)
LEMMA ListIsSequence ==
  ASSUME NEW rules \in RuleList
  PROVE  rules \in Seq(Rule) /\ Len(rules) \in Nat
<1>1. PICK n \in 0..MaxRules : rules \in [1..n -> Rule]
  BY DEF RuleList
<1>2. n \in Nat
  BY RulesAssumption
<1>3. rules \in Seq(Rule)
  BY <1>1, <1>2, SeqDef
<1> QED BY <1>3, LenProperties

(* The rules of a prefix of the text are read rules.                       *)
LEMMA SavedTyped ==
  ASSUME NEW rules \in RuleList, NEW i \in 0..Len(rules)
  PROVE  /\ Saved(rules, i) \in Seq(ReadRule) /\ Len(Saved(rules, i)) = i
         /\ SavedCut(rules, i) \in Seq(ReadRule) /\ Len(SavedCut(rules, i)) = i
<1>1. rules \in Seq(Rule) /\ Len(rules) \in Nat /\ i \in Nat
  BY ListIsSequence
<1>2. \A j \in 1..i : rules[j] \in Rule
  BY <1>1, ElementOfSeq
<1>3. \A j \in 1..i : rules[j][1] \in RuleKind /\ rules[j][2] \in RuleValue
  BY <1>2 DEF Rule
<1>4. Saved(rules, i) \in [1..i -> ReadRule] /\ SavedCut(rules, i) \in [1..i -> ReadRule]
  BY <1>3 DEF Saved, SavedCut, ReadRule
<1>5. Saved(rules, i) \in Seq(ReadRule) /\ SavedCut(rules, i) \in Seq(ReadRule)
  BY <1>1, <1>4, SeqDef
<1> QED BY <1>1, <1>4, <1>5, LenProperties

(* One more rule, whole or with its value cut short.                       *)
LEMMA SavedGrows ==
  ASSUME NEW rules \in RuleList, NEW i \in 0..(Len(rules) - 1)
  PROVE  /\ Append(Saved(rules, i), <<rules[i + 1][1], rules[i + 1][2], "value">>) = Saved(rules, i + 1)
         /\ Append(Saved(rules, i), <<rules[i + 1][1], rules[i + 1][2], "cut">>) = SavedCut(rules, i + 1)
<1>1. rules \in Seq(Rule) /\ Len(rules) \in Nat /\ i \in 0..Len(rules) /\ i + 1 \in 0..Len(rules)
  BY ListIsSequence
<1> DEFINE s == Saved(rules, i)
           w == Saved(rules, i + 1)
           c == SavedCut(rules, i + 1)
           x == <<rules[i + 1][1], rules[i + 1][2], "value">>
           y == <<rules[i + 1][1], rules[i + 1][2], "cut">>
<1>2. /\ s \in Seq(ReadRule) /\ Len(s) = i
      /\ w \in Seq(ReadRule) /\ Len(w) = i + 1
      /\ c \in Seq(ReadRule) /\ Len(c) = i + 1
  BY <1>1, SavedTyped
<1>3. rules[i + 1] \in Rule
  BY <1>1, ElementOfSeq
<1>4. x \in ReadRule /\ y \in ReadRule
  BY <1>3 DEF Rule, ReadRule
<1>5. \A j \in 1..(i + 1) : /\ w[j] = IF j = i + 1 THEN x ELSE s[j]
                            /\ c[j] = IF j = i + 1 THEN y ELSE s[j]
  BY <1>1 DEF Saved, SavedCut
<1> HIDE DEF s, w, c, x, y
<1>6. Append(s, x) \in Seq(ReadRule) /\ Len(Append(s, x)) = i + 1
      /\ \A j \in 1..(i + 1) : Append(s, x)[j] = IF j = i + 1 THEN x ELSE s[j]
  BY <1>1, <1>2, <1>4, AppendProperties
<1>7. Append(s, y) \in Seq(ReadRule) /\ Len(Append(s, y)) = i + 1
      /\ \A j \in 1..(i + 1) : Append(s, y)[j] = IF j = i + 1 THEN y ELSE s[j]
  BY <1>1, <1>2, <1>4, AppendProperties
<1>8. Append(s, x) = w
  BY <1>2, <1>5, <1>6, SeqEqual
<1>9. Append(s, y) = c
  BY <1>2, <1>5, <1>7, SeqEqual
<1> QED BY <1>8, <1>9 DEF s, w, c, x, y

(* The lines of a list: the heading, then kind and value by turns.         *)
LEMMA LinesOfList ==
  ASSUME NEW rules \in RuleList, NEW key \in Key
  PROVE  /\ ListLines(key, rules)[1] = <<Form(rules), key>>
         /\ \A i \in 0..(Len(rules) - 1) :
              /\ ListLines(key, rules)[2 * i + 2] = <<"kind", rules[i + 1][1]>>
              /\ ListLines(key, rules)[2 * i + 3] = <<"value", rules[i + 1][2]>>
<1>1. Len(rules) \in Nat
  BY ListIsSequence
<1>2. ListLines(key, rules)[1] = <<Form(rules), key>>
  BY <1>1 DEF ListLines, Heading, Form
<1>3. ASSUME NEW i \in 0..(Len(rules) - 1)
      PROVE  /\ ListLines(key, rules)[2 * i + 2] = <<"kind", rules[i + 1][1]>>
             /\ ListLines(key, rules)[2 * i + 3] = <<"value", rules[i + 1][2]>>
  <2>1. /\ 2 * i + 2 \in 1..(2 * Len(rules) + 1) /\ 2 * i + 2 # 1
        /\ 2 * i + 3 \in 1..(2 * Len(rules) + 1) /\ 2 * i + 3 # 1
    BY <1>1
  <2>2. /\ ListLines(key, rules)[2 * i + 2] = RuleLine(rules, 2 * i + 1)
        /\ ListLines(key, rules)[2 * i + 3] = RuleLine(rules, 2 * i + 2)
    BY <2>1 DEF ListLines
  <2>3. /\ (2 * i + 1) % 2 = 1 /\ (2 * i + 2) % 2 = 0
        /\ ((2 * i + 1) + 1) \div 2 = i + 1 /\ (2 * i + 2) \div 2 = i + 1
    OBVIOUS
  <2> QED BY <2>2, <2>3 DEF RuleLine
<1> QED BY <1>2, <1>3

(* Known behind a heading: no rule yet, and items go to its list if it has *)
(* any.                                                                    *)
LEMMA HeadingRead ==
  ASSUME NEW rules \in RuleList, NEW key \in Key, NEW b \in Known, b.reads, b.item # "kind"
  PROVE  WholeRules(Read(b, <<Form(rules), key>>), b, key, rules, 0)
<1> DEFINE line == <<Form(rules), key>>
           p == Read(b, line)
<1>1. Saved(rules, 0) = <<>> /\ <<>> \in Seq(ReadRule)
  <2>1. Len(rules) \in Nat /\ 0 \in 0..Len(rules)
    BY ListIsSequence
  <2> QED BY <2>1, SavedTyped, EmptySeq
<1>2. line[1] \in {"list", "empty"} /\ line[2] = key /\ (line[1] = "list" <=> rules # <<>>)
  BY DEF Form
<1>3. Fits(b, line)
  BY <1>2 DEF Fits
<1>4. p = [b EXCEPT !.key = ItemKey(key, rules), !.item = "none",
                    !.form[key] = Form(rules), !.rules[key] = Saved(rules, 0)]
  BY <1>1, <1>2, <1>3 DEF Read, ItemKey, Form
<1>5. /\ ItemKey(key, rules) \in Key \union {"none"} /\ Form(rules) \in {"list", "empty"}
      /\ [b.form EXCEPT ![key] = Form(rules)] \in [Key -> {"missing", "list", "empty"}]
      /\ [b.rules EXCEPT ![key] = Saved(rules, 0)] \in [Key -> Seq(ReadRule)]
  BY <1>1 DEF ItemKey, Form, Known
<1> HIDE DEF p, line
<1>6. WholeRules(p, b, key, rules, 0)
  BY <1>4, <1>5 DEF WholeRules, Known
<1> QED BY <1>6 DEF p, line

(* Known behind the first line of a rule.                                  *)
LEMMA KindRead ==
  ASSUME NEW rules \in RuleList, NEW key \in Key, NEW b, NEW p,
         NEW i \in 0..(Len(rules) - 1), WholeRules(p, b, key, rules, i)
  PROVE  HalfRule(Read(p, <<"kind", rules[i + 1][1]>>), b, key, rules, i)
<1> DEFINE line == <<"kind", rules[i + 1][1]>>
<1>1. rules \in Seq(Rule) /\ Len(rules) \in Nat
  BY ListIsSequence
<1>2. rules # <<>> /\ rules[i + 1] \in Rule
  <2>1. Len(rules) # 0 /\ i + 1 \in 1..Len(rules)
    BY <1>1
  <2> QED BY <1>1, <2>1, EmptySeq, ElementOfSeq
<1>3. line[1] = "kind" /\ line[2] = rules[i + 1][1] /\ line[2] \in RuleKind
  BY <1>2 DEF Rule
<1>4. p \in Known /\ p.reads /\ p.key = key /\ p.item # "kind" /\ key # "none"
  BY <1>2 DEF WholeRules, ItemKey, Key
<1>5. Fits(p, line)
  BY <1>3, <1>4 DEF Fits
<1>6. Read(p, line) = [p EXCEPT !.item = "kind", !.kind = line[2]]
  BY <1>3, <1>5 DEF Read
<1> HIDE DEF line
<1>7. [p EXCEPT !.item = "kind", !.kind = line[2]] \in Known
  BY <1>3, <1>4 DEF Known
<1>8. HalfRule(Read(p, line), b, key, rules, i)
  BY <1>3, <1>4, <1>6, <1>7 DEF HalfRule, WholeRules, Known
<1> QED BY <1>8 DEF line

(* Known behind its second line, and behind a part of it.                  *)
LEMMA ValueRead ==
  ASSUME NEW rules \in RuleList, NEW key \in Key, NEW b \in Known, NEW p,
         NEW i \in 0..(Len(rules) - 1), HalfRule(p, b, key, rules, i)
  PROVE  /\ WholeRules(Read(p, <<"value", rules[i + 1][2]>>), b, key, rules, i + 1)
         /\ CutRead(p, b, key, rules, i)
<1>1. rules \in Seq(Rule) /\ Len(rules) \in Nat /\ i + 1 \in 1..Len(rules)
  BY ListIsSequence
<1>2. rules # <<>>
  BY <1>1, EmptySeq
<1>3. /\ p \in Known /\ p.reads /\ p.key = key /\ p.item = "kind" /\ p.kind = rules[i + 1][1]
      /\ p.form = [b.form EXCEPT ![key] = Form(rules)]
      /\ p.rules = [b.rules EXCEPT ![key] = Saved(rules, i)]
      /\ p.rules[key] = Saved(rules, i)
  BY DEF HalfRule, Known
<1>4. ASSUME NEW sort \in {"value", "cut"}, NEW next,
             Append(Saved(rules, i), <<rules[i + 1][1], rules[i + 1][2], sort>>) = next
      PROVE  Read(p, <<sort, rules[i + 1][2]>>)
               = [p EXCEPT !.item = "whole", !.rules = [b.rules EXCEPT ![key] = next]]
  <2> DEFINE line == <<sort, rules[i + 1][2]>>
  <2>1. line[1] = sort /\ line[2] = rules[i + 1][2]
    OBVIOUS
  <2> HIDE DEF line
  <2>2. Fits(p, line)
    BY <1>3, <2>1 DEF Fits
  <2>3. Read(p, line) = ReadValue(p, line)
    BY <2>1, <2>2 DEF Read
  <2>4. ReadValue(p, line) = [p EXCEPT !.item = "whole", !.rules[key] = next]
    BY <1>3, <1>4, <2>1 DEF ReadValue
  <2>5. [p EXCEPT !.item = "whole", !.rules[key] = next]
          = [p EXCEPT !.item = "whole", !.rules = [b.rules EXCEPT ![key] = next]]
    BY <1>3 DEF Known
  <2> QED BY <2>3, <2>4, <2>5 DEF line
<1>5. i \in 0..(Len(rules) - 1) /\ i + 1 \in 0..Len(rules) /\ i + 1 # 0
  BY <1>1
<1> DEFINE w == Saved(rules, i + 1)
           c == SavedCut(rules, i + 1)
<1>6. w \in Seq(ReadRule) /\ c \in Seq(ReadRule)
  BY <1>5, SavedTyped
<1>7. /\ Read(p, <<"value", rules[i + 1][2]>>)
           = [p EXCEPT !.item = "whole", !.rules = [b.rules EXCEPT ![key] = w]]
      /\ Read(p, <<"cut", rules[i + 1][2]>>)
           = [p EXCEPT !.item = "whole", !.rules = [b.rules EXCEPT ![key] = c]]
  BY <1>4, SavedGrows
<1> HIDE DEF w, c
<1>8. [p EXCEPT !.item = "whole", !.rules = [b.rules EXCEPT ![key] = w]] \in Known
  BY <1>3, <1>6 DEF Known
<1>9. WholeRules(Read(p, <<"value", rules[i + 1][2]>>), b, key, rules, i + 1)
  BY <1>2, <1>3, <1>5, <1>7, <1>8 DEF WholeRules, Known, ItemKey, w
<1>10. CutRead(p, b, key, rules, i)
  BY <1>3, <1>7 DEF Known, CutRead, c
<1> QED BY <1>9, <1>10

(* A list read from its heading on: whole rules and half ones by turns.    *)
LEMMA ListRead ==
  ASSUME NEW rules \in RuleList, NEW key \in Key, NEW b \in Known, b.reads, b.item # "kind",
         NEW f, f[0] = b,
         \A j \in 1..(2 * Len(rules) + 1) : f[j] = Read(f[j - 1], ListLines(key, rules)[j])
  PROVE  /\ \A i \in 0..Len(rules) : WholeRules(f[2 * i + 1], b, key, rules, i)
         /\ \A i \in 0..(Len(rules) - 1) : HalfRule(f[2 * i + 2], b, key, rules, i)
<1> DEFINE n == Len(rules)
           Good == {i \in Nat : i <= n => WholeRules(f[2 * i + 1], b, key, rules, i)}
<1>1. n \in Nat
  BY ListIsSequence
<1>2. WholeRules(f[1], b, key, rules, 0)
  <2>1. 1 \in 1..(2 * n + 1) /\ 1 - 1 = 0
    BY <1>1
  <2>2. f[1] = Read(b, <<Form(rules), key>>)
    BY <2>1, LinesOfList
  <2> QED BY <2>2, HeadingRead
<1>3. ASSUME NEW i \in 0..(n - 1), WholeRules(f[2 * i + 1], b, key, rules, i)
      PROVE  HalfRule(f[2 * i + 2], b, key, rules, i) /\ WholeRules(f[2 * i + 3], b, key, rules, i + 1)
  <2>1. /\ 2 * i + 2 \in 1..(2 * n + 1) /\ (2 * i + 2) - 1 = 2 * i + 1
        /\ 2 * i + 3 \in 1..(2 * n + 1) /\ (2 * i + 3) - 1 = 2 * i + 2
    BY <1>1
  <2>2. /\ f[2 * i + 2] = Read(f[2 * i + 1], <<"kind", rules[i + 1][1]>>)
        /\ f[2 * i + 3] = Read(f[2 * i + 2], <<"value", rules[i + 1][2]>>)
    BY <2>1, LinesOfList
  <2>3. HalfRule(f[2 * i + 2], b, key, rules, i)
    BY <1>3, <2>2, KindRead
  <2>4. WholeRules(Read(f[2 * i + 2], <<"value", rules[i + 1][2]>>), b, key, rules, i + 1)
    BY <2>3, ValueRead
  <2> QED BY <2>2, <2>3, <2>4
<1>4. 0 \in Good
  BY <1>2
<1>5. ASSUME NEW i \in Nat, i \in Good PROVE i + 1 \in Good
  <2> SUFFICES ASSUME i + 1 <= n PROVE WholeRules(f[2 * (i + 1) + 1], b, key, rules, i + 1)
    OBVIOUS
  <2>1. i \in 0..(n - 1) /\ 2 * (i + 1) + 1 = 2 * i + 3 /\ WholeRules(f[2 * i + 1], b, key, rules, i)
    BY <1>1, <1>5
  <2> QED BY <1>3, <2>1
<1>6. Nat \subseteq Good
  <2> HIDE DEF Good
  <2> QED BY <1>4, <1>5, Induct
<1>7. \A i \in 0..n : WholeRules(f[2 * i + 1], b, key, rules, i)
  BY <1>1, <1>6
<1>8. \A i \in 0..(n - 1) : HalfRule(f[2 * i + 2], b, key, rules, i)
  BY <1>1, <1>3, <1>7
<1> QED BY <1>7, <1>8

-----------------------------------------------------------------------------
(* The lines of a scope's text.                                            *)
TextLine ==
  {Broken, <<"scalar", "program">>} \union ({"list", "empty"} \X Key)
    \union ({"kind"} \X RuleKind) \union ({"value", "cut"} \X RuleValue)

(* The lines of a list are lines.                                          *)
LEMMA ListLinesTyped ==
  ASSUME NEW rules \in RuleList, NEW key \in Key
  PROVE  /\ ListLines(key, rules) \in Seq(TextLine)
         /\ Len(ListLines(key, rules)) = 2 * Len(rules) + 1
<1> DEFINE n == 2 * Len(rules) + 1
           l == ListLines(key, rules)
<1>1. rules \in Seq(Rule) /\ Len(rules) \in Nat /\ n \in Nat
  BY ListIsSequence
<1>2. ASSUME NEW j \in 1..n PROVE l[j] \in TextLine
  <2>1. CASE j = 1
    <3>1. l[1] = <<Form(rules), key>>
      BY LinesOfList
    <3>2. <<Form(rules), key>> \in {"list", "empty"} \X Key
      BY DEF Form
    <3> QED BY <2>1, <3>1, <3>2 DEF TextLine
  <2>2. CASE j # 1 /\ j % 2 = 0
    <3>1. PICK i \in 0..(Len(rules) - 1) : j = 2 * i + 2
      <4>1. j \div 2 - 1 \in 0..(Len(rules) - 1) /\ j = 2 * (j \div 2 - 1) + 2
        BY <1>1, <2>2
      <4> QED BY <4>1
    <3>2. rules[i + 1] \in Rule
      BY <1>1, ElementOfSeq
    <3> QED BY <3>1, <3>2, LinesOfList DEF TextLine, Rule
  <2>3. CASE j # 1 /\ j % 2 = 1
    <3>1. PICK i \in 0..(Len(rules) - 1) : j = 2 * i + 3
      <4>1. j \div 2 - 1 \in 0..(Len(rules) - 1) /\ j = 2 * (j \div 2 - 1) + 3
        BY <1>1, <2>3
      <4> QED BY <4>1
    <3>2. rules[i + 1] \in Rule
      BY <1>1, ElementOfSeq
    <3> QED BY <3>1, <3>2, LinesOfList DEF TextLine, Rule
  <2>4. j % 2 = 0 \/ j % 2 = 1
    BY <1>1
  <2> QED BY <2>1, <2>2, <2>3, <2>4
<1>3. l = [j \in 1..n |-> l[j]]
  BY DEF ListLines
<1> HIDE DEF l, n
<1>4. l \in [1..n -> TextLine]
  BY <1>2, <1>3
<1>5. l \in Seq(TextLine)
  BY <1>1, <1>4, SeqDef
<1>6. Len(l) = n
  BY <1>1, <1>4, <1>5, LenProperties
<1> QED BY <1>5, <1>6 DEF l, n

(* Where the lines of a text stand: the name, the list of allow rules, the *)
(* list of deny rules.                                                     *)
LEMMA LinesOfDump ==
  ASSUME NEW s \in ScopeValue
  PROVE  /\ Dump(s) \in Seq(TextLine)
         /\ Len(s.allow) \in Nat /\ Len(s.deny) \in Nat
         /\ Len(Dump(s)) = 2 * Len(s.allow) + 2 * Len(s.deny) + 3
         /\ Dump(s)[1] = <<"scalar", "program">>
         /\ \A j \in 1..(2 * Len(s.allow) + 1) : Dump(s)[j + 1] = ListLines("allow", s.allow)[j]
         /\ \A j \in 1..(2 * Len(s.deny) + 1) :
              Dump(s)[2 * Len(s.allow) + 2 + j] = ListLines("deny", s.deny)[j]
<1> DEFINE a == Len(s.allow)
           d == Len(s.deny)
           head == << <<"scalar", "program">> >>
           al == ListLines("allow", s.allow)
           dl == ListLines("deny", s.deny)
<1>1. s.allow \in RuleList /\ s.deny \in RuleList /\ "allow" \in Key /\ "deny" \in Key
  BY DEF ScopeValue, Key
<1>2. a \in Nat /\ d \in Nat
  BY <1>1, ListIsSequence
<1>3. al \in Seq(TextLine) /\ Len(al) = 2 * a + 1 /\ dl \in Seq(TextLine) /\ Len(dl) = 2 * d + 1
  BY <1>1, ListLinesTyped
<1>4. head \in Seq(TextLine) /\ Len(head) = 1 /\ head[1] = <<"scalar", "program">>
  BY DEF TextLine
<1>5. Dump(s) = (head \o al) \o dl
  BY DEF Dump
<1> HIDE DEF a, d, head, al, dl
<1> DEFINE front == head \o al
<1>6. /\ front \in Seq(TextLine) /\ Len(front) = 2 * a + 2 /\ front[1] = head[1]
      /\ \A j \in 1..(2 * a + 1) : front[j + 1] = al[j]
  <2>1. /\ head \o al \in Seq(TextLine) /\ Len(head \o al) = 1 + (2 * a + 1)
        /\ \A j \in 1..(1 + (2 * a + 1)) :
             (head \o al)[j] = IF j <= 1 THEN head[j] ELSE al[j - 1]
    <3> DEFINE n == 2 * a + 1
    <3>1. Len(head) = 1 /\ Len(al) = n /\ n \in Nat
      BY <1>2, <1>3, <1>4
    <3> HIDE DEF n
    <3>2. /\ head \o al \in Seq(TextLine) /\ Len(head \o al) = Len(head) + Len(al)
          /\ \A j \in 1..(Len(head) + Len(al)) :
               (head \o al)[j] = IF j <= Len(head) THEN head[j] ELSE al[j - Len(head)]
      BY <1>3, <1>4, ConcatProperties
    <3>3. /\ head \o al \in Seq(TextLine) /\ Len(head \o al) = 1 + n
          /\ \A j \in 1..(1 + n) : (head \o al)[j] = IF j <= 1 THEN head[j] ELSE al[j - 1]
      BY <3>1, <3>2
    <3> QED BY <3>3 DEF n
  <2> HIDE DEF front
  <2>2. /\ front \in Seq(TextLine) /\ Len(front) = 1 + (2 * a + 1)
        /\ \A j \in 1..(1 + (2 * a + 1)) : front[j] = IF j <= 1 THEN head[j] ELSE al[j - 1]
    BY <2>1 DEF front
  <2>3. front[1] = head[1]
    BY <1>2, <2>2
  <2>4. ASSUME NEW j \in 1..(2 * a + 1) PROVE front[j + 1] = al[j]
    <3>1. j + 1 \in 1..(1 + (2 * a + 1)) /\ ~(j + 1 <= 1) /\ (j + 1) - 1 = j
      BY <1>2
    <3> QED BY <2>2, <3>1
  <2> QED BY <1>2, <2>2, <2>3, <2>4
<1> HIDE DEF front
<1>7. /\ front \o dl \in Seq(TextLine) /\ Len(front \o dl) = 2 * a + 2 * d + 3
      /\ \A j \in 1..(2 * a + 2) : (front \o dl)[j] = front[j]
      /\ \A j \in 1..(2 * d + 1) : (front \o dl)[2 * a + 2 + j] = dl[j]
  <2> DEFINE m == 2 * a + 2
             n == 2 * d + 1
  <2>1. m \in Nat /\ n \in Nat /\ m + n = 2 * a + 2 * d + 3
    BY <1>2
  <2>2. Len(front) = m /\ Len(dl) = n
    BY <1>3, <1>6
  <2>3. /\ front \o dl \in Seq(TextLine) /\ Len(front \o dl) = m + n
        /\ \A j \in 1..(m + n) : (front \o dl)[j] = IF j <= m THEN front[j] ELSE dl[j - m]
    <3> HIDE DEF m, n
    <3> QED BY <1>3, <1>6, <2>2, ConcatProperties
  <2>4. \A j \in 1..m : (front \o dl)[j] = front[j]
    <3> HIDE DEF m, n
    <3> QED BY <2>1, <2>3
  <2>5. ASSUME NEW j \in 1..n PROVE (front \o dl)[m + j] = dl[j]
    <3> HIDE DEF m, n
    <3>1. m + j \in 1..(m + n) /\ ~(m + j <= m) /\ (m + j) - m = j
      BY <2>1
    <3> QED BY <2>3, <3>1
  <2> QED BY <2>1, <2>3, <2>4, <2>5
<1>8. \A j \in 1..(2 * a + 1) : (front \o dl)[j + 1] = al[j]
  BY <1>2, <1>6, <1>7
<1>9. Dump(s) = front \o dl
  BY <1>5 DEF front
<1>10. (front \o dl)[1] = <<"scalar", "program">>
  BY <1>2, <1>4, <1>6, <1>7
<1> QED BY <1>2, <1>7, <1>8, <1>9, <1>10 DEF a, d, al, dl

(* A line is read after the lines before it, whether it is a line of the   *)
(* text or a part of one.                                                  *)
LEMMA PrefixRead ==
  ASSUME NEW t \in Seq(TextLine)
  PROVE  /\ Parse(SubSeq(t, 1, 0)) = Nothing
         /\ \A k \in 0..Len(t) : \A c \in TextLine :
              Parse(SubSeq(t, 1, k) \o <<c>>) = Read(Parse(SubSeq(t, 1, k)), c)
         /\ \A k \in 1..Len(t) :
              Parse(SubSeq(t, 1, k)) = Read(Parse(SubSeq(t, 1, k - 1)), t[k])
<1>1. Len(t) \in Nat /\ \A i \in 1..Len(t) : t[i] \in TextLine
  BY ElementOfSeq, LenProperties
<1>2. SubSeq(t, 1, 0) = <<>>
  BY SubSeqEmpty
<1>3. ASSUME NEW k \in 0..Len(t)
      PROVE  SubSeq(t, 1, k) \in Seq(TextLine) /\ Len(SubSeq(t, 1, k)) = k
             /\ \A i \in 1..k : SubSeq(t, 1, k)[i] = t[i]
  <2>1. k \in Int /\ 1 \in Int /\ \A i \in 1..k : t[i] \in TextLine
    BY <1>1
  <2>2. /\ SubSeq(t, 1, k) \in Seq(TextLine)
        /\ Len(SubSeq(t, 1, k)) = IF 1 <= k THEN k - 1 + 1 ELSE 0
        /\ \A i \in 1..(k - 1 + 1) : SubSeq(t, 1, k)[i] = t[1 + i - 1]
    BY <2>1, SubSeqProperties
  <2>3. k - 1 + 1 = k /\ \A i \in 1..k : 1 + i - 1 = i
    BY <1>1
  <2> QED BY <1>1, <2>2, <2>3
<1>4. ASSUME NEW k \in 0..Len(t), NEW c \in TextLine
      PROVE  Parse(SubSeq(t, 1, k) \o <<c>>) = Read(Parse(SubSeq(t, 1, k)), c)
  <2> DEFINE p == SubSeq(t, 1, k)
  <2>1. p \in Seq(TextLine)
    BY <1>3
  <2> HIDE DEF p
  <2>2. p \o <<c>> = Append(p, c)
    BY <2>1, AppendIsConcat
  <2>3. Parse(Append(p, c)) = Read(Parse(p), c)
    BY <2>1, ParseAppend
  <2> QED BY <2>2, <2>3 DEF p
<1>5. ASSUME NEW k \in 1..Len(t)
      PROVE  Parse(SubSeq(t, 1, k)) = Read(Parse(SubSeq(t, 1, k - 1)), t[k])
  <2>1. k - 1 \in 0..Len(t) /\ t[k] \in TextLine
    BY <1>1
  <2>2. 1 \in 1..Len(t) /\ k \in 1..Len(t)
    BY <1>1
  <2>3. SubSeq(t, 1, k) = SubSeq(t, 1, k - 1) \o << t[k] >>
    BY <2>2, SubSeqRecursiveSecond
  <2> QED BY <1>4, <2>1, <2>3
<1> QED BY <1>2, <1>4, <1>5, ParseEmpty

(* What is known after the first k lines of what is saved.                 *)
After(s, k) == Parse(SubSeq(Dump(s), 1, k))

(* After the name nothing, then the allow rules, then the deny rules with  *)
(* all allow rules before them.                                            *)
LEMMA DumpRead ==
  ASSUME NEW s \in ScopeValue
  PROVE  /\ After(s, 0) = Nothing /\ After(s, 1) = Nothing
         /\ \A i \in 0..Len(s.allow) : WholeRules(After(s, 2 * i + 2), Nothing, "allow", s.allow, i)
         /\ \A i \in 0..(Len(s.allow) - 1) :
              HalfRule(After(s, 2 * i + 3), Nothing, "allow", s.allow, i)
         /\ \A i \in 0..Len(s.deny) :
              WholeRules(After(s, 2 * Len(s.allow) + 2 * i + 3), After(s, 2 * Len(s.allow) + 2),
                    "deny", s.deny, i)
         /\ \A i \in 0..(Len(s.deny) - 1) :
              HalfRule(After(s, 2 * Len(s.allow) + 2 * i + 4), After(s, 2 * Len(s.allow) + 2),
                   "deny", s.deny, i)
<1> DEFINE a == Len(s.allow)
           d == Len(s.deny)
<1>1. s.allow \in RuleList /\ s.deny \in RuleList /\ "allow" \in Key /\ "deny" \in Key
  BY DEF ScopeValue, Key
<1>2. a \in Nat /\ d \in Nat
  BY LinesOfDump
<1>3. After(s, 0) = Nothing
  BY LinesOfDump, PrefixRead DEF After
<1>4. \A k \in 1..(2 * a + 2 * d + 3) : After(s, k) = Read(After(s, k - 1), Dump(s)[k])
  BY LinesOfDump, PrefixRead DEF After
<1>5. /\ Dump(s)[1] = <<"scalar", "program">>
      /\ \A j \in 1..(2 * a + 1) : Dump(s)[j + 1] = ListLines("allow", s.allow)[j]
      /\ \A j \in 1..(2 * d + 1) : Dump(s)[2 * a + 2 + j] = ListLines("deny", s.deny)[j]
  BY LinesOfDump
<1> HIDE DEF a, d
<1>6. Nothing \in Known /\ Nothing.reads /\ Nothing.item # "kind"
  <2>1. <<>> \in Seq(ReadRule)
    BY EmptySeq
  <2>2. [k \in Key |-> <<>>] \in [Key -> Seq(ReadRule)]
    BY <2>1
  <2> QED BY <2>2 DEF Nothing, Known
<1>7. After(s, 1) = Nothing
  <2>1. After(s, 1) = Read(Nothing, <<"scalar", "program">>)
    <3>1. 1 \in 1..(2 * a + 2 * d + 3) /\ 1 - 1 = 0
      BY <1>2
    <3> QED BY <1>3, <1>4, <1>5, <3>1
  <2>2. Fits(Nothing, <<"scalar", "program">>)
    BY <1>6 DEF Fits
  <2>3. Read(Nothing, <<"scalar", "program">>) = [Nothing EXCEPT !.key = "none", !.item = "none"]
    BY <2>2 DEF Read
  <2> QED BY <2>1, <2>3 DEF Nothing
<1>8. /\ \A i \in 0..a : WholeRules(After(s, 2 * i + 2), Nothing, "allow", s.allow, i)
      /\ \A i \in 0..(a - 1) : HalfRule(After(s, 2 * i + 3), Nothing, "allow", s.allow, i)
  <2> DEFINE f == [j \in 0..(2 * a + 1) |-> After(s, j + 1)]
  <2>1. \A j \in 0..(2 * a + 1) : f[j] = After(s, j + 1)
    OBVIOUS
  <2> HIDE DEF f
  <2>2. f[0] = Nothing
    BY <1>2, <1>7, <2>1
  <2>3. ASSUME NEW j \in 1..(2 * a + 1)
        PROVE  f[j] = Read(f[j - 1], ListLines("allow", s.allow)[j])
    <3>1. /\ j + 1 \in 1..(2 * a + 2 * d + 3) /\ (j + 1) - 1 = j
          /\ j \in 0..(2 * a + 1) /\ j - 1 \in 0..(2 * a + 1) /\ (j - 1) + 1 = j
      BY <1>2
    <3>2. After(s, j + 1) = Read(After(s, j), Dump(s)[j + 1])
      BY <1>4, <3>1
    <3>3. Dump(s)[j + 1] = ListLines("allow", s.allow)[j]
      BY <1>5
    <3> QED BY <2>1, <3>1, <3>2, <3>3
  <2>4. /\ \A i \in 0..a : WholeRules(f[2 * i + 1], Nothing, "allow", s.allow, i)
        /\ \A i \in 0..(a - 1) : HalfRule(f[2 * i + 2], Nothing, "allow", s.allow, i)
    BY <1>1, <1>6, <2>2, <2>3, ListRead DEF a
  <2>5. \A i \in 0..a : f[2 * i + 1] = After(s, 2 * i + 2)
    BY <1>2, <2>1
  <2>6. \A i \in 0..(a - 1) : f[2 * i + 2] = After(s, 2 * i + 3)
    BY <1>2, <2>1
  <2> QED BY <2>4, <2>5, <2>6
<1> DEFINE b == After(s, 2 * a + 2)
<1>9. b \in Known /\ b.reads /\ b.item # "kind"
  <2>1. WholeRules(b, Nothing, "allow", s.allow, a)
    BY <1>2, <1>8
  <2> QED BY <2>1 DEF WholeRules
<1>10. /\ \A i \in 0..d : WholeRules(After(s, 2 * a + 2 * i + 3), b, "deny", s.deny, i)
      /\ \A i \in 0..(d - 1) : HalfRule(After(s, 2 * a + 2 * i + 4), b, "deny", s.deny, i)
  <2> DEFINE f == [j \in 0..(2 * d + 1) |-> After(s, 2 * a + 2 + j)]
  <2>1. \A j \in 0..(2 * d + 1) : f[j] = After(s, 2 * a + 2 + j)
    OBVIOUS
  <2> HIDE DEF f
  <2>2. f[0] = b
    <3>1. 0 \in 0..(2 * d + 1) /\ 2 * a + 2 + 0 = 2 * a + 2
      BY <1>2
    <3> QED BY <2>1, <3>1
  <2> HIDE DEF b
  <2>3. ASSUME NEW j \in 1..(2 * d + 1)
        PROVE  f[j] = Read(f[j - 1], ListLines("deny", s.deny)[j])
    <3>1. /\ 2 * a + 2 + j \in 1..(2 * a + 2 * d + 3)
          /\ (2 * a + 2 + j) - 1 = 2 * a + 2 + (j - 1)
          /\ j \in 0..(2 * d + 1) /\ j - 1 \in 0..(2 * d + 1)
      BY <1>2
    <3>2. After(s, 2 * a + 2 + j) = Read(After(s, 2 * a + 2 + (j - 1)), Dump(s)[2 * a + 2 + j])
      BY <1>4, <3>1
    <3>3. Dump(s)[2 * a + 2 + j] = ListLines("deny", s.deny)[j]
      BY <1>5
    <3> QED BY <2>1, <3>1, <3>2, <3>3
  <2>4. /\ \A i \in 0..d : WholeRules(f[2 * i + 1], b, "deny", s.deny, i)
        /\ \A i \in 0..(d - 1) : HalfRule(f[2 * i + 2], b, "deny", s.deny, i)
    BY <1>1, <1>9, <2>2, <2>3, ListRead DEF d
  <2>5. ASSUME NEW i \in 0..d PROVE f[2 * i + 1] = After(s, 2 * a + 2 * i + 3)
    <3>1. 2 * i + 1 \in 0..(2 * d + 1) /\ 2 * a + 2 + (2 * i + 1) = 2 * a + 2 * i + 3
      BY <1>2
    <3> QED BY <2>1, <3>1
  <2>6. ASSUME NEW i \in 0..(d - 1) PROVE f[2 * i + 2] = After(s, 2 * a + 2 * i + 4)
    <3>1. 2 * i + 2 \in 0..(2 * d + 1) /\ 2 * a + 2 + (2 * i + 2) = 2 * a + 2 * i + 4
      BY <1>2
    <3> QED BY <2>1, <3>1
  <2> QED BY <2>4, <2>5, <2>6
<1> QED BY <1>3, <1>7, <1>8, <1>10 DEF a, d

(* The rules of a text, as the property wants them.                        *)
InFirst(p, s) ==
  /\ p.rules["allow"] \in FirstOf(s.allow)
  /\ p.rules["deny"] \in FirstOf(s.deny)
  /\ p.rules["deny"] # <<>> => p.rules["allow"] = All(s.allow)

(* The first rules of a list, none of them, and a last one cut short.      *)
LEMMA FirstOfHas ==
  ASSUME NEW rules \in RuleList
  PROVE  /\ \A i \in 0..Len(rules) : Saved(rules, i) \in FirstOf(rules) /\ SavedCut(rules, i) \in FirstOf(rules)
         /\ Saved(rules, 0) = <<>> /\ <<>> \in FirstOf(rules)
<1>1. Len(rules) \in Nat /\ 0 \in 0..Len(rules)
  BY ListIsSequence
<1>2. \A i \in 0..Len(rules) : Saved(rules, i) \in FirstOf(rules) /\ SavedCut(rules, i) \in FirstOf(rules)
  BY DEF FirstOf
<1>3. Saved(rules, 0) = <<>>
  BY <1>1, SavedTyped, EmptySeq
<1> QED BY <1>1, <1>2, <1>3

(* While the allow rules are read there are no deny rules.                 *)
LEMMA AllowFirst ==
  ASSUME NEW s \in ScopeValue, NEW p, NEW i \in 0..Len(s.allow),
         \/ p.rules = Nothing.rules
         \/ p.rules = [Nothing.rules EXCEPT !["allow"] = Saved(s.allow, i)]
         \/ p.rules = [Nothing.rules EXCEPT !["allow"] = SavedCut(s.allow, i)]
  PROVE  InFirst(p, s)
<1>1. s.allow \in RuleList /\ s.deny \in RuleList
  BY DEF ScopeValue
<1>2. Nothing.rules = [k \in Key |-> <<>>] /\ "allow" \in Key /\ "deny" \in Key
  BY DEF Nothing, Key
<1>3. p.rules["deny"] = <<>> /\ p.rules["allow"] \in {<<>>, Saved(s.allow, i), SavedCut(s.allow, i)}
  BY <1>2
<1> QED BY <1>1, <1>3, FirstOfHas DEF InFirst

(* While the deny rules are read the allow rules are all there.            *)
LEMMA DenyFirst ==
  ASSUME NEW s \in ScopeValue, NEW p, NEW b, NEW i \in 0..Len(s.deny),
         WholeRules(b, Nothing, "allow", s.allow, Len(s.allow)),
         \/ p.rules = [b.rules EXCEPT !["deny"] = Saved(s.deny, i)]
         \/ p.rules = [b.rules EXCEPT !["deny"] = SavedCut(s.deny, i)]
  PROVE  InFirst(p, s)
<1>1. s.allow \in RuleList /\ s.deny \in RuleList
  BY DEF ScopeValue
<1>2. Nothing.rules = [k \in Key |-> <<>>] /\ "allow" \in Key /\ "deny" \in Key
  BY DEF Nothing, Key
<1>3. b.rules["allow"] = All(s.allow) /\ b.rules \in [Key -> Seq(ReadRule)]
  BY <1>2 DEF WholeRules, All, Known
<1>4. p.rules["allow"] = All(s.allow) /\ p.rules["deny"] \in {Saved(s.deny, i), SavedCut(s.deny, i)}
  BY <1>2, <1>3
<1>5. All(s.allow) \in FirstOf(s.allow)
  <2>1. Len(s.allow) \in Nat /\ Len(s.allow) \in 0..Len(s.allow)
    BY <1>1, ListIsSequence
  <2> QED BY <1>1, <2>1, FirstOfHas DEF All
<1> QED BY <1>1, <1>4, <1>5, FirstOfHas DEF InFirst

(* Where a text may end.                                                   *)
LEMMA Places ==
  ASSUME NEW a \in Nat, NEW d \in Nat, NEW k \in 0..(2 * a + 2 * d + 3)
  PROVE  \/ k = 0 \/ k = 1
         \/ \E i \in 0..a : k = 2 * i + 2
         \/ \E i \in 0..(a - 1) : k = 2 * i + 3
         \/ \E i \in 0..d : k = 2 * a + 2 * i + 3
         \/ \E i \in 0..(d - 1) : k = 2 * a + 2 * i + 4
<1>1. CASE k <= 1
  BY <1>1
<1>2. CASE k >= 2 /\ k <= 2 * a + 2
  <2> DEFINE i == (k - 2) \div 2
  <2>1. i \in Nat /\ (k = 2 * i + 2 \/ k = 2 * i + 3)
    BY <1>2
  <2> HIDE DEF i
  <2>2. (k = 2 * i + 2 => i \in 0..a) /\ (k = 2 * i + 3 => i \in 0..(a - 1))
    BY <1>2, <2>1
  <2> QED BY <2>1, <2>2
<1>3. CASE k >= 2 * a + 3
  <2> DEFINE i == (k - (2 * a + 3)) \div 2
  <2>1. i \in Nat /\ (k = 2 * a + 2 * i + 3 \/ k = 2 * a + 2 * i + 4)
    BY <1>3
  <2> HIDE DEF i
  <2>2. (k = 2 * a + 2 * i + 3 => i \in 0..d) /\ (k = 2 * a + 2 * i + 4 => i \in 0..(d - 1))
    BY <1>3, <2>1
  <2> QED BY <2>1, <2>2
<1> QED BY <1>1, <1>2, <1>3

(* Nothing that stands behind the first lines of a text changes more than  *)
(* the last value.                                                         *)
SafePlace(s, k) ==
  /\ After(s, k) \in Known /\ InFirst(After(s, k), s)
  /\ k < Len(Dump(s)) => \A c \in CutLine(Dump(s)[k + 1]) : InFirst(Read(After(s, k), c), s)

(* A line that nothing accepts leaves the rules as they are.               *)
LEMMA BrokenRead ==
  ASSUME NEW s, NEW p \in Known, InFirst(p, s)
  PROVE  InFirst(Read(p, Broken), s)
<1>1. ~Fits(p, Broken)
  BY DEF Fits, Broken
<1>2. Read(p, Broken) = [p EXCEPT !.reads = FALSE]
  BY <1>1 DEF Read
<1>3. Read(p, Broken).rules = p.rules
  BY <1>2 DEF Known
<1> QED BY <1>3 DEF InFirst

(* Where the next line is no value, it is whole or breaks the text.        *)
LEMMA OnlyBroken ==
  ASSUME NEW s \in ScopeValue, NEW k \in Nat,
         After(s, k) \in Known, InFirst(After(s, k), s),
         k < Len(Dump(s)) => Dump(s)[k + 1][1] \in {"list", "empty", "kind"}
  PROVE  SafePlace(s, k)
<1>1. InFirst(Read(After(s, k), Broken), s)
  BY BrokenRead
<1>2. k < Len(Dump(s)) => CutLine(Dump(s)[k + 1]) = {Broken}
  BY DEF CutLine
<1> QED BY <1>1, <1>2 DEF SafePlace

(* Where it is a value, a part of it may stand for the value.              *)
LEMMA BrokenOrShorter ==
  ASSUME NEW s \in ScopeValue, NEW k \in Nat, NEW value,
         After(s, k) \in Known, InFirst(After(s, k), s),
         Dump(s)[k + 1] = <<"value", value>>,
         InFirst(Read(After(s, k), <<"cut", value>>), s)
  PROVE  SafePlace(s, k)
<1>1. InFirst(Read(After(s, k), Broken), s)
  BY BrokenRead
<1>2. CutLine(Dump(s)[k + 1]) = {Broken, <<"cut", value>>}
  BY DEF CutLine
<1> QED BY <1>1, <1>2 DEF SafePlace

(* So it is wherever the writing of a text stands.                         *)
LEMMA EveryPlaceSafe ==
  ASSUME NEW s \in ScopeValue, NEW k \in 0..Len(Dump(s))
  PROVE  SafePlace(s, k)
<1> DEFINE a == Len(s.allow)
           d == Len(s.deny)
           n == Len(Dump(s))
<1>1. /\ s.allow \in RuleList /\ s.deny \in RuleList /\ "allow" \in Key /\ "deny" \in Key
      /\ a \in Nat /\ d \in Nat /\ n = 2 * a + 2 * d + 3 /\ k \in Nat
  <2>1. s.allow \in RuleList /\ s.deny \in RuleList /\ "allow" \in Key /\ "deny" \in Key
    BY DEF ScopeValue, Key
  <2>2. a \in Nat /\ d \in Nat /\ n = 2 * a + 2 * d + 3
    BY LinesOfDump
  <2> QED BY <2>1, <2>2
<1>2. /\ Dump(s)[1] = <<"scalar", "program">>
      /\ \A j \in 1..(2 * a + 1) : Dump(s)[j + 1] = ListLines("allow", s.allow)[j]
      /\ \A j \in 1..(2 * d + 1) : Dump(s)[2 * a + 2 + j] = ListLines("deny", s.deny)[j]
  BY LinesOfDump
<1>3. /\ ListLines("allow", s.allow)[1] = <<Form(s.allow), "allow">>
      /\ ListLines("deny", s.deny)[1] = <<Form(s.deny), "deny">>
      /\ \A i \in 0..(a - 1) :
           /\ ListLines("allow", s.allow)[2 * i + 2] = <<"kind", s.allow[i + 1][1]>>
           /\ ListLines("allow", s.allow)[2 * i + 3] = <<"value", s.allow[i + 1][2]>>
      /\ \A i \in 0..(d - 1) :
           /\ ListLines("deny", s.deny)[2 * i + 2] = <<"kind", s.deny[i + 1][1]>>
           /\ ListLines("deny", s.deny)[2 * i + 3] = <<"value", s.deny[i + 1][2]>>
  BY <1>1, LinesOfList
<1> DEFINE b == After(s, 2 * a + 2)
<1>4. /\ After(s, 0) = Nothing /\ After(s, 1) = Nothing
      /\ \A i \in 0..a : WholeRules(After(s, 2 * i + 2), Nothing, "allow", s.allow, i)
      /\ \A i \in 0..(a - 1) : HalfRule(After(s, 2 * i + 3), Nothing, "allow", s.allow, i)
      /\ \A i \in 0..d : WholeRules(After(s, 2 * a + 2 * i + 3), b, "deny", s.deny, i)
      /\ \A i \in 0..(d - 1) : HalfRule(After(s, 2 * a + 2 * i + 4), b, "deny", s.deny, i)
  BY DumpRead
<1>5. \A i \in 0..a : \A p : p.rules = [Nothing.rules EXCEPT !["allow"] = Saved(s.allow, i)] => InFirst(p, s)
  BY AllowFirst
<1>6. \A i \in 0..a : \A p : p.rules = [Nothing.rules EXCEPT !["allow"] = SavedCut(s.allow, i)] => InFirst(p, s)
  BY AllowFirst
<1>7. WholeRules(b, Nothing, "allow", s.allow, a)
  BY <1>1, <1>4
<1>8. \A i \in 0..d : \A p : p.rules = [b.rules EXCEPT !["deny"] = Saved(s.deny, i)] => InFirst(p, s)
  BY <1>7, DenyFirst
<1>9. \A i \in 0..d : \A p : p.rules = [b.rules EXCEPT !["deny"] = SavedCut(s.deny, i)] => InFirst(p, s)
  BY <1>7, DenyFirst
<1>10. Nothing \in Known /\ InFirst(Nothing, s)
  <2>1. <<>> \in Seq(ReadRule)
    BY EmptySeq
  <2>2. [j \in Key |-> <<>>] \in [Key -> Seq(ReadRule)]
    BY <2>1
  <2>3. 0 \in 0..a
    BY <1>1
  <2> QED BY <2>2, <2>3, AllowFirst DEF Nothing, Known
<1>11. b \in Known
  BY <1>7 DEF WholeRules
<1> USE <1>1
<1> HIDE DEF a, d, n, b
<1>12. CASE k = 0
  <2>1. 0 + 1 = 1 /\ 0 < n
    OBVIOUS
  <2>2. CutLine(Dump(s)[1]) = {Broken, Dump(s)[1]}
    BY <1>2 DEF CutLine
  <2>3. Read(Nothing, Dump(s)[1]) = Nothing
    <3>1. Dump(s) \in Seq(TextLine)
      BY LinesOfDump
    <3>2. 1 \in 1..Len(Dump(s)) /\ 1 - 1 = 0
      BY DEF n
    <3>3. After(s, 1) = Read(After(s, 1 - 1), Dump(s)[1])
      BY <3>1, <3>2, PrefixRead DEF After
    <3> QED BY <1>4, <3>2, <3>3
  <2> QED BY <1>4, <1>10, <1>12, <2>1, <2>2, <2>3, BrokenRead DEF SafePlace
<1>13. CASE k = 1
  <2>1. Dump(s)[k + 1] = <<Form(s.allow), "allow">>
    <3>1. 1 \in 1..(2 * a + 1)
      OBVIOUS
    <3> QED BY <1>2, <1>3, <1>13, <3>1
  <2>2. Dump(s)[k + 1][1] \in {"list", "empty", "kind"}
    BY <2>1 DEF Form
  <2>3. After(s, k) \in Known /\ InFirst(After(s, k), s)
    BY <1>4, <1>10, <1>13
  <2> QED BY <2>2, <2>3, OnlyBroken
<1>14. ASSUME NEW i \in 0..a, k = 2 * i + 2 PROVE SafePlace(s, k)
  <2>1. WholeRules(After(s, k), Nothing, "allow", s.allow, i)
    BY <1>4, <1>14
  <2>2. After(s, k) \in Known /\ InFirst(After(s, k), s)
    BY <1>5, <2>1 DEF WholeRules
  <2>3. Dump(s)[k + 1][1] \in {"list", "empty", "kind"}
    <3>1. CASE i < a
      <4>1. i \in 0..(a - 1) /\ 2 * i + 2 \in 1..(2 * a + 1)
        BY <3>1
      <4>2. Dump(s)[k + 1] = <<"kind", s.allow[i + 1][1]>>
        BY <1>2, <1>3, <1>14, <4>1
      <4> QED BY <4>2
    <3>2. CASE i = a
      <4>1. 1 \in 1..(2 * d + 1) /\ k + 1 = 2 * a + 2 + 1
        BY <1>14, <3>2
      <4>2. Dump(s)[k + 1] = <<Form(s.deny), "deny">>
        BY <1>2, <1>3, <4>1
      <4> QED BY <4>2 DEF Form
    <3> QED BY <3>1, <3>2
  <2> QED BY <2>2, <2>3, OnlyBroken
<1>15. ASSUME NEW i \in 0..(a - 1), k = 2 * i + 3 PROVE SafePlace(s, k)
  <2>1. HalfRule(After(s, k), Nothing, "allow", s.allow, i)
    BY <1>4, <1>15
  <2>2. i \in 0..a /\ i + 1 \in 0..a /\ 2 * i + 3 \in 1..(2 * a + 1)
    OBVIOUS
  <2>3. After(s, k) \in Known /\ InFirst(After(s, k), s)
    BY <1>5, <2>1, <2>2 DEF HalfRule
  <2>4. Dump(s)[k + 1] = <<"value", s.allow[i + 1][2]>>
    BY <1>2, <1>3, <1>15, <2>2
  <2>5. Read(After(s, k), <<"cut", s.allow[i + 1][2]>>).rules
          = [Nothing.rules EXCEPT !["allow"] = SavedCut(s.allow, i + 1)]
    <3> DEFINE p == After(s, k)
               l == s.allow
    <3>1. HalfRule(p, Nothing, "allow", l, i) /\ i \in 0..(Len(l) - 1) /\ l \in RuleList /\ "allow" \in Key
      BY <1>1, <2>1 DEF a
    <3> HIDE DEF p, l
    <3>2. CutRead(p, Nothing, "allow", l, i)
      BY <1>10, <3>1, ValueRead
    <3> QED BY <3>2 DEF CutRead, p, l
  <2>6. InFirst(Read(After(s, k), <<"cut", s.allow[i + 1][2]>>), s)
    BY <1>6, <2>2, <2>5
  <2> QED BY <2>3, <2>4, <2>6, BrokenOrShorter
<1>16. ASSUME NEW i \in 0..d, k = 2 * a + 2 * i + 3 PROVE SafePlace(s, k)
  <2>1. WholeRules(After(s, k), b, "deny", s.deny, i)
    BY <1>4, <1>16
  <2>2. After(s, k) \in Known /\ InFirst(After(s, k), s)
    BY <1>8, <2>1 DEF WholeRules
  <2>3. k < Len(Dump(s)) => Dump(s)[k + 1][1] \in {"list", "empty", "kind"}
    <3> SUFFICES ASSUME k < n PROVE Dump(s)[k + 1][1] \in {"list", "empty", "kind"}
      BY DEF n
    <3>1. i \in 0..(d - 1) /\ 2 * i + 2 \in 1..(2 * d + 1) /\ k + 1 = 2 * a + 2 + (2 * i + 2)
      BY <1>16
    <3>2. Dump(s)[k + 1] = <<"kind", s.deny[i + 1][1]>>
      BY <1>2, <1>3, <3>1
    <3> QED BY <3>2
  <2> QED BY <2>2, <2>3, OnlyBroken
<1>17. ASSUME NEW i \in 0..(d - 1), k = 2 * a + 2 * i + 4 PROVE SafePlace(s, k)
  <2>1. HalfRule(After(s, k), b, "deny", s.deny, i)
    BY <1>4, <1>17
  <2>2. /\ i \in 0..d /\ i + 1 \in 0..d /\ 2 * i + 3 \in 1..(2 * d + 1)
        /\ k + 1 = 2 * a + 2 + (2 * i + 3)
    BY <1>17
  <2>3. After(s, k) \in Known /\ InFirst(After(s, k), s)
    BY <1>8, <2>1, <2>2 DEF HalfRule
  <2>4. Dump(s)[k + 1] = <<"value", s.deny[i + 1][2]>>
    BY <1>2, <1>3, <2>2
  <2>5. Read(After(s, k), <<"cut", s.deny[i + 1][2]>>).rules
          = [b.rules EXCEPT !["deny"] = SavedCut(s.deny, i + 1)]
    <3> DEFINE p == After(s, k)
               l == s.deny
    <3>1. HalfRule(p, b, "deny", l, i) /\ i \in 0..(Len(l) - 1) /\ l \in RuleList /\ "deny" \in Key
      BY <1>1, <2>1 DEF d
    <3> HIDE DEF p, l
    <3>2. CutRead(p, b, "deny", l, i)
      BY <1>11, <3>1, ValueRead
    <3> QED BY <3>2 DEF CutRead, p, l
  <2>6. InFirst(Read(After(s, k), <<"cut", s.deny[i + 1][2]>>), s)
    BY <1>9, <2>2, <2>5
  <2> QED BY <2>3, <2>4, <2>6, BrokenOrShorter
<1>18. k \in 0..(2 * a + 2 * d + 3)
  BY DEF n
<1> QED BY <1>12, <1>13, <1>14, <1>15, <1>16, <1>17, <1>18, Places

(* A part of a line is a line.                                             *)
LEMMA CutTyped ==
  ASSUME NEW line \in TextLine
  PROVE  CutLine(line) \subseteq TextLine
<1>1. line[1] = "value" => line[2] \in RuleValue
  BY DEF TextLine, Broken
<1>2. Broken \in TextLine /\ \A v \in RuleValue : <<"cut", v>> \in TextLine
  BY DEF TextLine
<1> QED BY <1>1, <1>2 DEF CutLine

(* Whatever stands behind the first lines, the rules are first ones.       *)
LEMMA PartRead ==
  ASSUME NEW s \in ScopeValue, NEW k \in 0..Len(Dump(s)), NEW part \in Parts(Dump(s), k)
  PROVE  /\ SubSeq(Dump(s), 1, k) \in Seq(TextLine) /\ Len(SubSeq(Dump(s), 1, k)) = k
         /\ part \in Seq(TextLine) /\ Len(part) \in {0, 1} /\ (part # <<>> => Len(part) = 1)
         /\ InFirst(Parse(SubSeq(Dump(s), 1, k) \o part), s)
<1> DEFINE t == Dump(s)
           front == SubSeq(t, 1, k)
<1>1. t \in Seq(TextLine) /\ Len(t) \in Nat /\ \A i \in 1..Len(t) : t[i] \in TextLine
  BY LinesOfDump, ElementOfSeq, LenProperties
<1>2. front \in Seq(TextLine) /\ Len(front) = k
  <2>1. k \in Int /\ 1 \in Int /\ \A i \in 1..k : t[i] \in TextLine
    BY <1>1
  <2>2. SubSeq(t, 1, k) \in Seq(TextLine) /\ Len(SubSeq(t, 1, k)) = IF 1 <= k THEN k - 1 + 1 ELSE 0
    BY <2>1, SubSeqProperties
  <2>3. (IF 1 <= k THEN k - 1 + 1 ELSE 0) = k
    BY <1>1
  <2> QED BY <2>2, <2>3
<1>3. SafePlace(s, k)
  BY EveryPlaceSafe
<1>4. CASE part = <<>>
  <2>1. front \o part = front
    BY <1>2, <1>4, ConcatEmptySeq
  <2>2. InFirst(Parse(front), s)
    BY <1>3 DEF SafePlace, After
  <2>3. part \in Seq(TextLine) /\ Len(part) = 0
    BY <1>4, EmptySeq
  <2> QED BY <1>2, <1>4, <2>1, <2>2, <2>3
<1>5. CASE part # <<>>
  <2>1. PICK c \in CutLine(t[k + 1]) : k < Len(t) /\ part = <<c>>
    BY <1>5 DEF Parts
  <2>2. c \in TextLine
    <3>1. k + 1 \in 1..Len(t)
      BY <1>1, <2>1
    <3> QED BY <1>1, <2>1, <3>1, CutTyped
  <2>3. Parse(front \o <<c>>) = Read(Parse(front), c)
    BY <1>1, <2>2, PrefixRead
  <2>4. InFirst(Read(Parse(front), c), s)
    BY <1>3, <2>1 DEF SafePlace, After
  <2>5. part \in Seq(TextLine) /\ Len(part) = 1
    BY <2>1, <2>2
  <2> QED BY <1>2, <2>1, <2>3, <2>4, <2>5
<1> QED BY <1>4, <1>5

(* What is saved is what is loaded.                                        *)
LEMMA WholeRead ==
  ASSUME NEW s \in ScopeValue
  PROVE  /\ Loads(Dump(s))
         /\ RulesIn(Dump(s), "allow") = All(s.allow) /\ RulesIn(Dump(s), "deny") = All(s.deny)
<1> DEFINE a == Len(s.allow)
           d == Len(s.deny)
           p == Parse(Dump(s))
           b == After(s, 2 * a + 2)
<1>1. /\ s.allow \in RuleList /\ s.deny \in RuleList /\ "allow" \in Key /\ "deny" \in Key
      /\ a \in Nat /\ d \in Nat
  <2>1. s.allow \in RuleList /\ s.deny \in RuleList /\ "allow" \in Key /\ "deny" \in Key
    BY DEF ScopeValue, Key
  <2> QED BY <2>1, ListIsSequence
<1>2. Len(Dump(s)) = 2 * a + 2 * d + 3 /\ Dump(s) \in Seq(TextLine)
  BY LinesOfDump
<1>3. WholeRules(b, Nothing, "allow", s.allow, a)
  <2>1. a \in 0..a
    BY <1>1
  <2> QED BY <2>1, DumpRead
<1>4. WholeRules(p, b, "deny", s.deny, d)
  <2>1. SubSeq(Dump(s), 1, Len(Dump(s))) = Dump(s)
    BY <1>2, SubSeqFull
  <2>2. WholeRules(After(s, 2 * a + 2 * d + 3), b, "deny", s.deny, d)
    <3>1. d \in 0..d
      BY <1>1
    <3> QED BY <3>1, DumpRead
  <2> QED BY <1>2, <2>1, <2>2 DEF After
<1> HIDE DEF p, b
<1>5. /\ b.rules["allow"] = All(s.allow) /\ b.form["allow"] = Form(s.allow)
      /\ b.form \in [Key -> {"missing", "list", "empty"}] /\ b.rules \in [Key -> Seq(ReadRule)]
  <2>1. Nothing.rules = [k \in Key |-> <<>>] /\ Nothing.form = [k \in Key |-> "missing"]
    BY DEF Nothing
  <2> QED BY <1>1, <1>3, <2>1 DEF WholeRules, Known, All
<1>6. /\ p.rules["allow"] = All(s.allow) /\ p.form["allow"] = Form(s.allow)
      /\ p.rules["deny"] = All(s.deny) /\ p.form["deny"] = Form(s.deny)
      /\ p.reads /\ p.item # "kind"
  BY <1>1, <1>4, <1>5 DEF WholeRules, All
<1>7. Dump(s) # <<>>
  <2>1. Len(Dump(s)) # 0
    <3> HIDE DEF a, d
    <3> QED BY <1>1, <1>2
  <2> QED BY <2>1, EmptySeq
<1>8. ASSUME NEW rules \in RuleList, Form(rules) = "list" PROVE All(rules) # <<>>
  <2>1. rules \in Seq(Rule) /\ Len(rules) \in Nat /\ rules # <<>>
    BY <1>8, ListIsSequence DEF Form
  <2>2. Len(rules) # 0 /\ Len(rules) \in 0..Len(rules)
    BY <2>1, EmptySeq
  <2>3. Len(All(rules)) = Len(rules)
    BY <2>2, SavedTyped DEF All
  <2> QED BY <2>2, <2>3, EmptySeq
<1>9. \A k \in Key : p.form[k] = "list" => p.rules[k] # <<>>
  BY <1>1, <1>6, <1>8 DEF Key
<1> QED BY <1>6, <1>7, <1>9 DEF p, Loads, RulesIn

-----------------------------------------------------------------------------
(* The file holds the first lines of the latest save and maybe a part of   *)
(* the next line; all of them once that save has ended well.               *)
TextInv ==
  /\ scope \in ScopeValue /\ pos \in 0..Len(Dump(scope))
  /\ \E part \in Parts(Dump(scope), pos) : text = SubSeq(Dump(scope), 1, pos) \o part
  /\ complete => ~writing /\ text = Dump(scope)

(* A workspace is created with a scope that is written whole.              *)
LEMMA TextStarts == ScopeInit => TextInv
<1> SUFFICES ASSUME ScopeInit PROVE TextInv
  OBVIOUS
<1>1. NoRules \in ScopeValue
  <2>1. <<>> \in [1..0 -> Rule] /\ 0 \in 0..MaxRules
    BY RulesAssumption
  <2>2. <<>> \in RuleList
    BY <2>1 DEF RuleList
  <2> QED BY <2>2 DEF NoRules, ScopeValue
<1>2. scope = NoRules /\ text = Dump(scope) /\ pos = Len(Dump(scope)) /\ Len(Dump(scope)) \in Nat
  BY <1>1, LinesOfDump DEF ScopeInit
<1>3. Dump(scope) = SubSeq(Dump(scope), 1, Len(Dump(scope))) \o <<>>
  BY <1>1, <1>2, LinesOfDump, SubSeqFull, ConcatEmptySeq
<1>4. <<>> \in Parts(Dump(scope), pos)
  BY DEF Parts
<1> QED BY <1>1, <1>2, <1>3, <1>4 DEF TextInv, ScopeInit

(* save_scope truncates the file, so nothing of an older save is behind    *)
(* what it has written.                                                    *)
LEMMA TextKept == TextInv /\ [ScopeNext]_scopeVars => TextInv'
<1> SUFFICES ASSUME TextInv, [ScopeNext]_scopeVars PROVE TextInv'
  OBVIOUS
<1>1. scope \in ScopeValue /\ Len(Dump(scope)) \in Nat /\ pos \in 0..Len(Dump(scope))
  BY LinesOfDump DEF TextInv
<1>2. PICK old \in Parts(Dump(scope), pos) : text = SubSeq(Dump(scope), 1, pos) \o old
  BY DEF TextInv
<1>3. ASSUME NEW s \in ScopeValue, OpenScope(s) PROVE TextInv'
  <2>1. scope' = s /\ pos' = 0 /\ text' = <<>> /\ ~complete'
    BY <1>3 DEF OpenScope
  <2>2. <<>> \in Parts(Dump(s), 0) /\ Len(Dump(s)) \in Nat
    BY LinesOfDump DEF Parts
  <2>3. SubSeq(Dump(s), 1, 0) \o <<>> = <<>>
    <3>1. SubSeq(Dump(s), 1, 0) = <<>>
      BY SubSeqEmpty
    <3> QED BY <3>1
  <2> QED BY <2>1, <2>2, <2>3 DEF TextInv
<1>4. CASE WriteScope
  <2>1. PICK k \in pos..Len(Dump(scope)) : \E part \in Parts(Dump(scope), k) :
               /\ k > pos \/ part # <<>>
               /\ text' = SubSeq(Dump(scope), 1, k) \o part \o SubSeq(text, k + Len(part) + 1, Len(text))
               /\ pos' = k
    BY <1>4 DEF WriteScope
  <2>2. PICK part \in Parts(Dump(scope), k) :
               /\ k > pos \/ part # <<>>
               /\ text' = SubSeq(Dump(scope), 1, k) \o part \o SubSeq(text, k + Len(part) + 1, Len(text))
               /\ pos' = k
    BY <2>1
  <2>3. k \in 0..Len(Dump(scope))
    BY <1>1
  <2>4. Len(text) \in {pos, pos + 1}
    <3> DEFINE front == SubSeq(Dump(scope), 1, pos)
    <3>1. front \in Seq(TextLine) /\ Len(front) = pos /\ old \in Seq(TextLine) /\ Len(old) \in {0, 1}
      BY <1>1, <1>2, PartRead
    <3> HIDE DEF front
    <3>2. Len(front \o old) = Len(front) + Len(old)
      BY <3>1, ConcatProperties
    <3>3. text = front \o old
      BY <1>2 DEF front
    <3> QED BY <1>1, <3>1, <3>2, <3>3
  <2>5. /\ SubSeq(Dump(scope), 1, k) \in Seq(TextLine) /\ part \in Seq(TextLine)
        /\ Len(part) \in {0, 1} /\ (part # <<>> => Len(part) = 1)
    BY <1>1, <2>3, PartRead
  <2>6. SubSeq(text, k + Len(part) + 1, Len(text)) = <<>>
    <3>1. Len(text) < k + Len(part) + 1 /\ k + Len(part) + 1 \in Int /\ Len(text) \in Int
      BY <1>1, <2>2, <2>3, <2>4, <2>5
    <3> QED BY <3>1, SubSeqEmpty
  <2>7. text' = SubSeq(Dump(scope), 1, k) \o part
    <3> DEFINE front == SubSeq(Dump(scope), 1, k)
    <3>1. text' = (front \o part) \o <<>>
      BY <2>2, <2>6
    <3> HIDE DEF front
    <3>2. front \in Seq(TextLine)
      BY <2>5 DEF front
    <3>3. front \o part \in Seq(TextLine)
      BY <2>5, <3>2, ConcatProperties
    <3>4. (front \o part) \o <<>> = front \o part
      BY <3>3, ConcatEmptySeq
    <3> QED BY <3>1, <3>4 DEF front
  <2>8. UNCHANGED <<scope, writing, complete>> /\ writing
    BY <1>4 DEF WriteScope
  <2>9. ~complete
    BY <2>8 DEF TextInv
  <2> QED BY <1>1, <2>2, <2>3, <2>7, <2>8, <2>9 DEF TextInv
<1>5. CASE CloseScope
  <2>1. UNCHANGED <<text, scope, pos>> /\ ~writing' /\ pos = Len(Dump(scope))
    BY <1>5 DEF CloseScope
  <2>2. old = <<>>
    BY <1>1, <1>2, <2>1 DEF Parts
  <2>3. text = Dump(scope)
    BY <1>1, <1>2, <2>1, <2>2, LinesOfDump, SubSeqFull, ConcatEmptySeq
  <2> QED BY <2>1, <2>3 DEF TextInv
<1>6. CASE StopScope
  BY <1>6 DEF StopScope, TextInv
<1>7. CASE UNCHANGED scopeVars
  BY <1>7 DEF scopeVars, TextInv
<1> QED BY <1>3, <1>4, <1>5, <1>6, <1>7 DEF ScopeNext

(* What such a file is loaded as.                                          *)
LEMMA TextIsEnough == TextInv => LoadsFirstRules
<1> SUFFICES ASSUME TextInv PROVE LoadsFirstRules
  OBVIOUS
<1>1. scope \in ScopeValue /\ pos \in 0..Len(Dump(scope)) /\ (complete => text = Dump(scope))
  BY DEF TextInv
<1>2. PICK part \in Parts(Dump(scope), pos) : text = SubSeq(Dump(scope), 1, pos) \o part
  BY DEF TextInv
<1>3. InFirst(Parse(text), scope)
  BY <1>1, <1>2, PartRead
<1>4. complete => /\ Loads(text) /\ RulesIn(text, "allow") = All(scope.allow)
                  /\ RulesIn(text, "deny") = All(scope.deny)
  BY <1>1, WholeRead
<1> QED BY <1>3, <1>4 DEF LoadsFirstRules, InFirst, RulesIn

(* Whatever load_scope makes of scope.yaml, at any moment of any number of *)
(* saves and wherever they were cut off: the first rules of the latest     *)
(* save, and all of them once it ended well.                               *)
THEOREM ScopeCorrect == ScopeSpec => []LoadsFirstRules
<1>1. ScopeSpec => []TextInv
  BY TextStarts, TextKept, PTL DEF ScopeSpec
<1> QED BY <1>1, TextIsEnough, PTL
=============================================================================
