---------------------------- MODULE OperatorCli ----------------------------
(***************************************************************************)
(* The operator's command (cli.run_cli): configuration, packet, pipeline,  *)
(* audit record, result, exit code.  Runs in several terminals append to   *)
(* one audit log; a run can fail at every step, be interrupted, or find    *)
(* the disk full.  What the pipeline does inside is Pipeline's.            *)
(***************************************************************************)
EXTENDS Naturals, Sequences

CONSTANTS
  Runs,       \* invocations of the command
  Audited,    \* those with --audit-log
  Decisions,  \* the final decisions of the pipeline
  Null

ErrorCategory == {"config_error", "provider_error", "dependency_error", "input_error"}

Verdict == Decisions \cup ErrorCategory

\* An audit record: final_decision of a success, error_category of a failure.
AuditRecord == [run: Runs, verdict: Verdict]

ASSUME CliAssumption ==
  /\ Audited \subseteq Runs
  /\ Decisions \cap ErrorCategory = {}
  /\ Null \notin Verdict
  /\ Null \notin {"ok", "error", "audit_error", "traceback", "killed"}

INSTANCE JsonLines WITH Records <- AuditRecord

VARIABLES
  phase,    \* where each run is in run_cli
  verdict,  \* its result or error, Null until the try block is left
  log,      \* the audit log
  exit      \* how it ended, Null while it runs: "ok" is code 0, "error" and
            \* "audit_error" code 2, "traceback" an exception out of run_cli

vars == <<phase, verdict, log, exit>>

Phase == {"configure", "load", "evaluate", "append", "newline", "print", "exited"}

TypeOK ==
  /\ phase \in [Runs -> Phase]
  /\ verdict \in [Runs -> Verdict \cup {Null}]
  /\ log \in Seq(Piece)
  /\ exit \in [Runs -> {Null, "ok", "error", "audit_error", "traceback", "killed"}]

Record(r) == [run |-> r, verdict |-> verdict[r]]

Init ==
  /\ phase = [r \in Runs |-> "configure"]
  /\ verdict = [r \in Runs |-> Null]
  /\ log = <<>>
  /\ exit = [r \in Runs |-> Null]

GoTo(r, p) == phase' = [phase EXCEPT ![r] = p] /\ UNCHANGED exit

Exit(r, how) ==
  /\ phase' = [phase EXCEPT ![r] = "exited"]
  /\ exit' = [exit EXCEPT ![r] = how]

-----------------------------------------------------------------------------
(* The try block.                                                          *)

AfterTry(r) == IF r \in Audited THEN "append" ELSE "print"

Configure(r) ==
  /\ phase[r] = "configure"
  /\ GoTo(r, "load")
  /\ UNCHANGED <<verdict, log>>

LoadPacket(r) ==
  /\ phase[r] = "load"
  /\ GoTo(r, "evaluate")
  /\ UNCHANGED <<verdict, log>>

Evaluate(r) ==
  /\ phase[r] = "evaluate"
  /\ \E decision \in Decisions : verdict' = [verdict EXCEPT ![r] = decision]
  /\ GoTo(r, AfterTry(r))
  /\ UNCHANGED log

\* Mutant: anything else is classified too.
FailsWithUnexpected(p) ==
  IF p = "configure" THEN {"config_error"}
  ELSE IF p = "load" THEN {"input_error", "unexpected_error"}
  ELSE IF p = "evaluate" THEN {"dependency_error", "provider_error", "input_error"}
  ELSE {}

\* The categories each step can end in; ImportError comes from the client.
FailsWith(p) ==
  IF p = "configure" THEN {"config_error"}
  ELSE IF p = "load" THEN {"input_error"}
  ELSE IF p = "evaluate" THEN {"dependency_error", "provider_error", "input_error"}
  ELSE {}

Fail(r) ==
  /\ \E category \in FailsWith(phase[r]) : verdict' = [verdict EXCEPT ![r] = category]
  /\ GoTo(r, AfterTry(r))
  /\ UNCHANGED log

\* KeyError of a bundle, OSError of its file, TypeError of a provider's answer:
\* none is in the except clause.
Escape(r) ==
  /\ phase[r] \in {"load", "evaluate"}
  /\ Exit(r, "traceback")
  /\ UNCHANGED <<verdict, log>>

-----------------------------------------------------------------------------
(* append_audit_record.                                                    *)

Write(r, part) == log' = Append(log, Written(Record(r), part))

\* Mutant: the newline is forgotten.
AppendLineUnended(r) ==
  /\ phase[r] = "append"
  /\ Write(r, "body")
  /\ GoTo(r, "print")
  /\ UNCHANGED verdict

\* A record within the buffer.
AppendLine(r) ==
  /\ phase[r] = "append"
  /\ Write(r, "line")
  /\ GoTo(r, "print")
  /\ UNCHANGED verdict

\* A longer one, such as a failure with a long validation message.
AppendBody(r) ==
  /\ phase[r] = "append"
  /\ Write(r, "body")
  /\ GoTo(r, "newline")
  /\ UNCHANGED verdict

AppendNewline(r) ==
  /\ phase[r] = "newline"
  /\ Write(r, "newline")
  /\ GoTo(r, "print")
  /\ UNCHANGED verdict

\* Mutant: auditing is best effort.
AppendFailsSilently(r) ==
  /\ phase[r] \in {"append", "newline"}
  /\ GoTo(r, "print")
  /\ UNCHANGED <<verdict, log>>

\* OSError: the file does not open, or the disk is full part of the way.
AppendFails(r) ==
  /\ phase[r] \in {"append", "newline"}
  /\ \/ UNCHANGED log
     \/ /\ phase[r] = "append"
        /\ Write(r, "torn") \/ Write(r, "body")
  /\ Exit(r, "audit_error")
  /\ UNCHANGED verdict

-----------------------------------------------------------------------------
Show(r) ==
  /\ phase[r] = "print"
  /\ Exit(r, IF verdict[r] \in Decisions THEN "ok" ELSE "error")
  /\ UNCHANGED <<verdict, log>>

\* The reader of the pipe is gone.
ShowFails(r) ==
  /\ phase[r] = "print"
  /\ Exit(r, "traceback")
  /\ UNCHANGED <<verdict, log>>

\* Between the two writes the with-block still closes the file, which flushes
\* the body.
Interrupt(r) ==
  /\ phase[r] # "exited"
  /\ UNCHANGED log \/ (phase[r] = "append" /\ Write(r, "body"))
  /\ Exit(r, "killed")
  /\ UNCHANGED verdict

Next ==
  \E r \in Runs :
    \/ Configure(r) \/ LoadPacket(r) \/ Evaluate(r) \/ Fail(r) \/ Escape(r)
    \/ AppendLine(r) \/ AppendBody(r) \/ AppendNewline(r) \/ AppendFails(r)
    \/ Show(r) \/ ShowFails(r) \/ Interrupt(r)

Spec == Init /\ [][Next]_vars

-----------------------------------------------------------------------------
(* Properties.                                                             *)

\* The writes that hold a whole record of run r.
RecordsOf(file, r) ==
  {i \in 1..Len(file) : file[i].record.run = r /\ file[i].part \in {"line", "body"}}

\* Whatever a run tells its operator has been written before: a run that exited
\* with its result or its error has exactly one record, and it says the same.
ToldIsRecorded ==
  \A r \in Audited : exit[r] \in {"ok", "error"} =>
    \E i \in 1..Len(log) :
      /\ RecordsOf(log, r) = {i}
      /\ exit[r] = "ok" <=> log[i].record.verdict \in Decisions
      /\ log[i].record.verdict = verdict[r]

\* A run whose record was cut short, or was written in two pieces.
Disturbs(r) ==
  \/ exit[r] \in {"audit_error", "killed"}
  \/ phase[r] = "newline"
  \/ \E i \in 1..Len(log) : log[i].record.run = r /\ log[i].part = "newline"

\* A record is only lost to a run in its line that was cut short or wrote in
\* two pieces: runs that end normally with short records never harm each other.
LossHasACause ==
  \A i \in Content(log) : ~Readable(log, i) =>
    \E j \in Content(log) : SameLine(log, i, j) /\ Disturbs(log[j].record.run)

\* A report never takes back what an earlier one counted: it counts at least
\* the same records, or refuses; and a log once refused stays refused.
ReportsOnlyGrow ==
  [][~Refused(log') => ~Refused(log) /\ Load(log) \subseteq Load(log')]_vars
=============================================================================
