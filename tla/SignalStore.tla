----------------------------- MODULE SignalStore -----------------------------
(***************************************************************************)
(* The declarative signal store: one file of fields per module, rewritten  *)
(* as a whole by every writer: it reads the rows, edits them and puts the  *)
(* file in the old one's place.  The writers are HTTP handlers of the      *)
(* dashboard and tools in processes of their own; none takes a lock.       *)
(***************************************************************************)
EXTENDS FieldSearch

CONSTANTS
  Writers,      \* threads that save fields
  MaxWrites     \* bound: saves of one behaviour

ASSUME SignalStoreAssumption == MaxWrites \in Nat

VARIABLES
  file,     \* the fields on disk; no two with the same key
  jobs,     \* what each writer is doing: step, edits left, rows it has read
  writes,   \* saves begun
  saved,    \* history: fields whose save returned, until superseded
  lapped    \* history: a file was replaced by rows read before another replacement

storeVars == <<file, jobs, writes, saved, lapped>>

Upsert(field) == [do |-> "upsert", field |-> field]
Removal(field) == [do |-> "remove", field |-> field]
NoJob == [at |-> "idle", edits |-> <<>>, rows |-> {}]

StoreInit ==
  /\ file = {}
  /\ jobs = [w \in Writers |-> NoJob]
  /\ writes = 0
  /\ saved = {}
  /\ lapped = FALSE

SameKeyNoName(f, g) ==  \* mutant: two fields at one place replace each other
  f.lid = g.lid /\ f.off = g.off

SameKey(f, g) == f.lid = g.lid /\ f.off = g.off /\ f.name = g.name

(* remove_field with a bit: the bit fields of that bit, under any name. *)
SameBit(f, g) == f.lid = g.lid /\ f.off = g.off /\ f.mask = g.mask

Drops(edit, row) ==
  IF edit.do = "upsert" THEN SameKey(row, edit.field) ELSE SameBit(row, edit.field)

AppendOnly(rows, edit) ==  \* mutant: the record with the same key stays
  IF edit.do = "upsert" THEN rows \union {edit.field}
  ELSE {row \in rows : ~Drops(edit, row)}

Applied(rows, edit) ==
  {row \in rows : ~Drops(edit, row)}
    \union (IF edit.do = "upsert" THEN {edit.field} ELSE {})

(* What a save may take away: its own key or bit.  Not the code's. *)
Concerned(edit) ==
  {f \in saved : /\ f.lid = edit.field.lid
                 /\ f.off = edit.field.off
                 /\ IF edit.do = "upsert" THEN f.name = edit.field.name
                    ELSE f.mask = edit.field.mask}

(***************************************************************************)
(* A writer's request: one upsert, or a removal and an upsert (a label).   *)
(***************************************************************************)
Save(w, edits) ==
  /\ jobs[w].at = "idle"
  /\ writes < MaxWrites
  /\ writes' = writes + 1
  /\ jobs' = [jobs EXCEPT ![w] = [at |-> "read", edits |-> edits, rows |-> {}]]
  /\ UNCHANGED <<file, saved, lapped>>

NextEdit(job) ==
  IF Len(job.edits) = 1 THEN NoJob
  ELSE [at |-> "read", edits |-> Tail(job.edits), rows |-> {}]

(* A removal that finds nothing to remove writes nothing. *)
ReadRows(w) ==
  LET edit == Head(jobs[w].edits)
      idle == edit.do = "remove" /\ ~\E row \in file : Drops(edit, row)
  IN /\ jobs[w].at = "read"
     /\ jobs' = [jobs EXCEPT ![w] = IF idle THEN NextEdit(@)
                                    ELSE [@ EXCEPT !.at = "replace", !.rows = file]]
     /\ UNCHANGED <<file, writes, saved, lapped>>

(***************************************************************************)
(* The rows go to a temporary file that takes the old one's place.         *)
(***************************************************************************)
Replace(w) ==
  LET edit == Head(jobs[w].edits)
  IN /\ jobs[w].at = "replace"
     /\ file' = Applied(jobs[w].rows, edit)
     /\ lapped' = (lapped \/ file # jobs[w].rows)
     /\ saved' = (saved \ Concerned(edit))
                  \union (IF edit.do = "upsert" THEN {edit.field} ELSE {})
     /\ jobs' = [jobs EXCEPT ![w] = NextEdit(@)]
     /\ UNCHANGED writes

(* The disk is full, or the tool is stopped: the file stays as it is. *)
Abandon(w) ==
  /\ jobs[w].at = "replace"
  /\ jobs' = [jobs EXCEPT ![w] = NoJob]
  /\ UNCHANGED <<file, writes, saved, lapped>>

StoreStep == \E w \in Writers : ReadRows(w) \/ Replace(w) \/ Abandon(w)

-----------------------------------------------------------------------------
(***************************************************************************)
(* A saved field stays until a later save has the same identifier, offset  *)
(* and name, or removes its bit, unless two rewrites overlapped: upsert is *)
(* a read-modify-write of the whole file and takes no lock.                *)
(***************************************************************************)
AcceptedFieldIsKept == lapped \/ saved \subseteq file

=============================================================================
