----------------------------- MODULE JsonLines -----------------------------
(***************************************************************************)
(* A JSON-lines file as its writers leave it and its reader takes it       *)
(* (audit.append_audit_record, audit_report.load_audit_records).  The file *)
(* is the sequence of what single operating-system writes appended to it.  *)
(* A text no longer than the write buffer reaches the file as one write    *)
(* when the file is closed; of a longer one the body goes first and the    *)
(* newline, written by a second call, at the close.                        *)
(***************************************************************************)
EXTENDS Naturals, Sequences

CONSTANT Records   \* what a line can hold

\* line: a record and its newline; body: a record alone; torn: a part of one.
Piece == [record: Records, part: {"line", "body", "newline", "torn"}]

Written(record, part) == [record |-> record, part |-> part]

EndsLine(piece) == piece.part \in {"line", "newline"}

\* No line ends between the i-th and the j-th write.
SameLine(file, i, j) ==
  \A k \in 1..Len(file) :
    (i <= k /\ k < j) \/ (j <= k /\ k < i) => ~EndsLine(file[k])

\* A line of newlines only is blank, and skipped.
Content(file) == {i \in 1..Len(file) : file[i].part # "newline"}

\* json.loads takes a line that is one whole record.
Readable(file, i) ==
  /\ file[i].part # "torn"
  /\ \A j \in Content(file) : j # i => ~SameLine(file, i, j)

\* Mutant: a reader that skips what it cannot parse.
RefusedNever(file) == FALSE

\* load_audit_records raises AuditReportError at the first line it cannot parse.
Refused(file) == \E i \in Content(file) : ~Readable(file, i)

Load(file) == {file[i].record : i \in {j \in Content(file) : Readable(file, j)}}
=============================================================================
