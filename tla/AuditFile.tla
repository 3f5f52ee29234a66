------------------------------- MODULE AuditFile -------------------------------
(***************************************************************************)
(* audit.jsonl (append_audit and load_audit of src/dribik/workspace.py).   *)
(* Appending writes one entry and its newline at the end of the file.  The *)
(* write may stop part way, on a full disk or when the process dies; the   *)
(* client swallows the exception and later entries are appended to what is *)
(* there.  Loading skips every line that is not one well-formed entry; it  *)
(* takes U+0085, U+2028 and U+2029 for ends of lines too (splitlines), and *)
(* the JSON of an entry leaves them as they stand in a URL or a body.      *)
(*                                                                         *)
(* A line, up to its newline, is what it holds: an entry; an entry split   *)
(* by one of those separators; the last line, cut in the entry, behind a   *)
(* separator in it (torn), just before the newline, or in the middle of a  *)
(* character; a spoilt line, where a cut one was carried on; a garbled     *)
(* one, where the cut character makes the whole file fail to decode.       *)
(***************************************************************************)
EXTENDS Naturals, Sequences, FiniteSets

CONSTANT MaxWrites     \* bound on the appends, whole or cut
ASSUME MaxWritesAssumption == MaxWrites \in Nat

VARIABLES
  lines,       \* the file
  whole,       \* appends that were written to the end
  split,       \* those among them with a separator in the entry
  cuts         \* appends that were not

auditVars == <<lines, whole, split, cuts>>

Entire == {"entry", "split"}
Cut == {"cut", "torn", "unended", "halved"}
CutShort == lines # <<>> /\ lines[Len(lines)] \in Cut

AuditInit == lines = <<>> /\ whole = 0 /\ split = 0 /\ cuts = 0

(* What a cut line becomes when line is written behind it; behind a        *)
(* separator line starts afresh for the loader.                            *)
Glued(old, line) ==
  CASE old = "halved" -> IF line \in Entire THEN "garbled" ELSE "halved"
    [] old = "torn" -> line
    [] old \in {"cut", "unended"} /\ line \in Entire -> "spoilt"
    [] old \in {"cut", "unended"} /\ line \in {"torn", "halved"} -> line
    [] OTHER -> "cut"

(* Slip: mode "w" for mode "a".                                            *)
AppendedAlone(line) == <<line>>

Appended(line) ==
  IF CutShort THEN [lines EXCEPT ![Len(lines)] = Glued(@, line)] ELSE Append(lines, line)

AppendAudit(line) ==
  /\ whole + cuts < MaxWrites
  /\ lines' = Appended(line) /\ whole' = whole + 1 /\ cuts' = cuts
  /\ split' = split + (IF line = "split" THEN 1 ELSE 0)

Interrupt(kind) ==
  /\ whole + cuts < MaxWrites
  /\ lines' = Appended(kind) /\ cuts' = cuts + 1 /\ UNCHANGED <<whole, split>>

AuditNext == (\E line \in Entire : AppendAudit(line)) \/ (\E kind \in Cut : Interrupt(kind))
AuditSpec == AuditInit /\ [][AuditNext]_auditVars

(* load_audit: whether read_text decodes, and the lines it finds an entry  *)
(* in; neither part of a split one is an entry.                            *)
Decodes == \A i \in DOMAIN lines : lines[i] \notin {"halved", "garbled"}
Loaded == {i \in DOMAIN lines : lines[i] \in {"entry", "unended"}}
-----------------------------------------------------------------------------
(* Types; only the last line may lack its newline.                         *)
AuditTypeOK ==
  /\ lines \in Seq({"spoilt", "garbled"} \union Entire \union Cut)
  /\ whole \in Nat /\ split \in Nat /\ cuts \in Nat /\ whole + cuts <= MaxWrites
  /\ \A i \in 1..(Len(lines) - 1) : lines[i] \notin Cut

(* An interrupted append costs at most one entry besides its own, the next *)
(* one, and an entry with a separator costs itself: of those written to    *)
(* the end no more are missing when the log is loaded than appends were    *)
(* interrupted or hold a separator, as long as the file decodes.           *)
LossBounded == Decodes => whole <= Cardinality(Loaded) + cuts + split

(* The trail is append-only: no line but an unfinished last one is ever    *)
(* changed, and none is removed.                                           *)
AppendOnly ==
  [][/\ Len(lines) <= Len(lines')
     /\ \A i \in DOMAIN lines : lines[i] \notin Cut => lines'[i] = lines[i]]_auditVars
=============================================================================
