------------------------- MODULE OperatorCliProofs -------------------------
(***************************************************************************)
(* Proofs about OperatorCli: what a run tells its operator is in the log,  *)
(* what can damage a record there, and that reports only grow, for any     *)
(* number of runs in any interleaving.                                     *)
(***************************************************************************)
EXTENDS OperatorCli, TLAPS

\* A run writes nothing before its record, and knows its verdict by then.
NothingYet(r) ==
  phase[r] \in {"configure", "load", "evaluate", "append"} =>
    \A i \in 1..Len(log) : log[i].record.run # r

HasVerdict(r) == phase[r] \in {"append", "newline", "print"} => verdict[r] \in Verdict

\* Once past the append, a run has its one record.
HasRecord(r) ==
  (phase[r] = "newline" \/ (r \in Audited /\ (phase[r] = "print" \/ exit[r] \in {"ok", "error"})))
    => \E i \in 1..Len(log) : RecordsOf(log, r) = {i} /\ log[i].record.verdict = verdict[r]

ExitAgrees(r) ==
  /\ exit[r] # Null <=> phase[r] = "exited"
  /\ exit[r] = "ok" => verdict[r] \in Decisions
  /\ exit[r] = "error" => verdict[r] \in ErrorCategory

Ordered == \A r \in Runs : NothingYet(r) /\ HasVerdict(r) /\ HasRecord(r) /\ ExitAgrees(r)

\* What is not a whole line is of a run that was cut short or writes in two.
Fragment(file, i, q) == file[i].record.run = q /\ file[i].part \in {"body", "torn"}

Explained ==
  \A q \in Runs : (\E i \in 1..Len(log) : Fragment(log, i, q)) => Disturbs(q)

IInv == TypeOK /\ Ordered /\ Explained

-----------------------------------------------------------------------------
(* Appending to a file.                                                    *)

\* Appending keeps what was there and adds one write.
LEMMA AppendFacts ==
  ASSUME NEW S, NEW file \in Seq(S), NEW x \in S
  PROVE  /\ Append(file, x) \in Seq(S)
         /\ Len(Append(file, x)) = Len(file) + 1 /\ Len(file) \in Nat
         /\ \A i \in 1..Len(file) : Append(file, x)[i] = file[i]
         /\ Append(file, x)[Len(file) + 1] = x
OBVIOUS

\* An entry of a sequence is in the set the sequence is over.
LEMMA EntryType ==
  ASSUME NEW S, NEW s \in Seq(S), NEW i \in 1..Len(s)
  PROVE  s[i] \in S
OBVIOUS

\* Another run's write is no record of run q.
LEMMA OthersRecords ==
  ASSUME NEW file \in Seq(Piece), NEW x \in Piece, NEW q, x.record.run # q
  PROVE  RecordsOf(Append(file, x), q) = RecordsOf(file, q)
BY AppendFacts DEF RecordsOf

\* Neither is a newline.
LEMMA NewlineRecords ==
  ASSUME NEW file \in Seq(Piece), NEW x \in Piece, x.part = "newline", NEW q
  PROVE  RecordsOf(Append(file, x), q) = RecordsOf(file, q)
BY AppendFacts DEF RecordsOf

\* The first record of a run that has written nothing is its only one.
LEMMA FirstRecord ==
  ASSUME NEW file \in Seq(Piece), NEW x \in Piece, NEW q, x.record.run = q,
         x.part \in {"line", "body"},
         \A i \in 1..Len(file) : file[i].record.run # q
  PROVE  RecordsOf(Append(file, x), q) = {Len(file) + 1}
BY AppendFacts DEF RecordsOf

\* A longer file takes no line apart: who shared one still does.
LEMMA LinesStay ==
  ASSUME NEW file \in Seq(Piece), NEW x \in Piece,
         NEW i \in 1..Len(file), NEW j \in 1..Len(file)
  PROVE  SameLine(Append(file, x), i, j) <=> SameLine(file, i, j)
<1>1. /\ \A k \in 1..Len(file) : Append(file, x)[k] = file[k]
      /\ Len(Append(file, x)) = Len(file) + 1 /\ Len(file) \in Nat
  BY AppendFacts
<1>2. ASSUME SameLine(Append(file, x), i, j) PROVE SameLine(file, i, j)
  BY <1>1, <1>2 DEF SameLine, EndsLine
<1>3. ASSUME SameLine(file, i, j) PROVE SameLine(Append(file, x), i, j)
  BY <1>1, <1>3 DEF SameLine, EndsLine
<1> QED BY <1>2, <1>3

\* A report of the longer file counts all that a report of the shorter one had,
\* and there is no report of the longer file if there was none of the shorter.
LEMMA LoadGrows ==
  ASSUME NEW file \in Seq(Piece), NEW x \in Piece, ~Refused(Append(file, x))
  PROVE  ~Refused(file) /\ Load(file) \subseteq Load(Append(file, x))
<1> DEFINE longer == Append(file, x)
<1>1. /\ longer \in Seq(Piece)
      /\ Len(longer) = Len(file) + 1 /\ Len(file) \in Nat
      /\ \A k \in 1..Len(file) : longer[k] = file[k]
  BY AppendFacts
<1>2. \A i \in Content(longer) : Readable(longer, i)
  BY DEF Refused
<1>3. /\ Content(file) \subseteq Content(longer)
      /\ Content(file) \subseteq 1..Len(file)
  BY <1>1 DEF Content
<1>4. \A i, j \in 1..Len(file) : SameLine(longer, i, j) <=> SameLine(file, i, j)
  BY LinesStay
<1> HIDE DEF longer
<1>5. \A i \in Content(file) : Readable(file, i)
  BY <1>1, <1>2, <1>3, <1>4 DEF Readable
<1>6. Load(file) \subseteq Load(longer)
  BY <1>1, <1>2, <1>3 DEF Load
<1> QED BY <1>5, <1>6 DEF longer, Refused

-----------------------------------------------------------------------------
(* What a step of run r is: it leaves the other runs alone, and the log too,  *)
(* but for a write of its own.                                             *)

Step(r) ==
  \/ Configure(r) \/ LoadPacket(r) \/ Evaluate(r) \/ Fail(r) \/ Escape(r)
  \/ AppendLine(r) \/ AppendBody(r) \/ AppendNewline(r) \/ AppendFails(r)
  \/ Show(r) \/ ShowFails(r) \/ Interrupt(r)

LEMMA InitInv == Init => IInv
<1> USE CliAssumption
<1>1. Init => TypeOK
  BY DEF Init, TypeOK, Phase
<1>2. ASSUME Init, NEW r \in Runs
      PROVE  NothingYet(r) /\ HasVerdict(r) /\ HasRecord(r) /\ ExitAgrees(r)
  <2>1. phase[r] = "configure" /\ exit[r] = Null /\ Len(log) = 0
    BY <1>2 DEF Init
  <2>2. exit[r] \notin {"ok", "error"}
    BY <2>1
  <2> QED BY <2>1, <2>2 DEF NothingYet, HasVerdict, HasRecord, ExitAgrees
<1>3. Init => Explained
  BY DEF Init, Explained
<1> QED BY <1>1, <1>2, <1>3 DEF IInv, Ordered

\* The piece a run writes is well typed and its own.
LEMMA WriteType ==
  ASSUME IInv, NEW r \in Runs, phase[r] \in {"append", "newline"},
         NEW part \in {"line", "body", "newline", "torn"}
  PROVE  /\ Written(Record(r), part) \in Piece
         /\ Written(Record(r), part).record.run = r
         /\ Written(Record(r), part).record.verdict = verdict[r]
         /\ Written(Record(r), part).part = part
<1>1. verdict[r] \in Verdict
  BY DEF IInv, Ordered, HasVerdict
<1> QED BY <1>1 DEF Written, Record, Piece, AuditRecord

\* The log after a step of r: the log before, perhaps with one piece of r.
LEMMA StepLog ==
  ASSUME IInv, NEW r \in Runs, Step(r)
  PROVE  \/ log' = log
         \/ \E x \in Piece : x.record.run = r /\ log' = Append(log, x)
<1>1. CASE AppendLine(r)
  BY <1>1, WriteType DEF AppendLine, Write
<1>2. CASE AppendBody(r)
  BY <1>2, WriteType DEF AppendBody, Write
<1>3. CASE AppendNewline(r)
  BY <1>3, WriteType DEF AppendNewline, Write
<1>4. CASE AppendFails(r)
  BY <1>4, WriteType DEF AppendFails, Write
<1>5. CASE Interrupt(r)
  BY <1>5, WriteType DEF Interrupt, Write
<1> QED BY <1>1, <1>2, <1>3, <1>4, <1>5
        DEF Step, Configure, LoadPacket, Evaluate, Fail, Escape, Show, ShowFails

\* Well-typed phases, verdicts and exits, and what of them a step leaves alone.
LEMMA StepRuns ==
  ASSUME IInv, NEW r \in Runs, Step(r)
  PROVE  /\ phase' \in [Runs -> Phase]
         /\ verdict' \in [Runs -> Verdict \cup {Null}]
         /\ exit' \in [Runs -> {Null, "ok", "error", "audit_error", "traceback", "killed"}]
         /\ \A q \in Runs : q # r =>
              phase'[q] = phase[q] /\ verdict'[q] = verdict[q] /\ exit'[q] = exit[q]
<1> USE DEF IInv, TypeOK, GoTo, Exit
<1>1. CASE Configure(r) \/ LoadPacket(r)
  BY <1>1 DEF Configure, LoadPacket, Phase
<1>2. CASE Evaluate(r)
  BY <1>2 DEF Evaluate, AfterTry, Phase, Verdict
<1>3. CASE Fail(r)
  <2>1. PICK category \in FailsWith(phase[r]) : verdict' = [verdict EXCEPT ![r] = category]
    BY <1>3 DEF Fail
  <2>2. category \in Verdict
    BY <2>1 DEF FailsWith, Verdict, ErrorCategory
  <2> QED BY <1>3, <2>1, <2>2 DEF Fail, AfterTry, Phase
<1>4. CASE Escape(r) \/ Show(r) \/ ShowFails(r) \/ Interrupt(r) \/ AppendFails(r)
  BY <1>4 DEF Escape, Show, ShowFails, Interrupt, AppendFails, Phase
<1>5. CASE AppendLine(r) \/ AppendBody(r) \/ AppendNewline(r)
  BY <1>5 DEF AppendLine, AppendBody, AppendNewline, Phase
<1> QED BY <1>1, <1>2, <1>3, <1>4, <1>5 DEF Step

LEMMA TypeStep ==
  ASSUME IInv, NEW r \in Runs, Step(r)
  PROVE  TypeOK'
<1>1. log' \in Seq(Piece)
  BY StepLog, AppendFacts DEF IInv, TypeOK
<1> QED BY <1>1, StepRuns DEF TypeOK

-----------------------------------------------------------------------------
(* The other runs: what held of q before a step of r still holds.          *)

LEMMA OthersKeep ==
  ASSUME IInv, NEW r \in Runs, NEW q \in Runs, q # r, Step(r)
  PROVE  (NothingYet(q) /\ HasVerdict(q) /\ HasRecord(q) /\ ExitAgrees(q))'
<1>1. phase'[q] = phase[q] /\ verdict'[q] = verdict[q] /\ exit'[q] = exit[q]
  BY StepRuns
<1>2. NothingYet(q) /\ HasVerdict(q) /\ HasRecord(q) /\ ExitAgrees(q)
  BY DEF IInv, Ordered
<1>3. CASE log' = log
  BY <1>1, <1>2, <1>3 DEF NothingYet, HasVerdict, HasRecord, ExitAgrees, RecordsOf
<1>4. CASE \E x \in Piece : x.record.run = r /\ log' = Append(log, x)
  <2>1. PICK x \in Piece : x.record.run = r /\ log' = Append(log, x)
    BY <1>4
  <2>2. /\ Len(log') = Len(log) + 1 /\ Len(log) \in Nat
        /\ \A i \in 1..Len(log) : log'[i] = log[i]
        /\ log'[Len(log) + 1] = x
    BY <2>1, AppendFacts DEF IInv, TypeOK
  <2>3. RecordsOf(log', q) = RecordsOf(log, q)
    BY <2>1, OthersRecords DEF IInv, TypeOK
  <2>4. NothingYet(q)'
    <3> SUFFICES ASSUME phase[q] \in {"configure", "load", "evaluate", "append"},
                        NEW i \in 1..Len(log')
                 PROVE  log'[i].record.run # q
      BY <1>1 DEF NothingYet
    <3>1. CASE i \in 1..Len(log)
      BY <1>2, <2>2, <3>1 DEF NothingYet
    <3>2. CASE i = Len(log) + 1
      BY <2>1, <2>2, <3>2
    <3> QED BY <2>2, <3>1, <3>2
  <2>5. HasRecord(q)'
    <3> SUFFICES ASSUME HasRecord(q)!1
                 PROVE  \E i \in 1..Len(log') :
                          RecordsOf(log', q) = {i} /\ log'[i].record.verdict = verdict[q]
      BY <1>1 DEF HasRecord
    <3>1. PICK i \in 1..Len(log) :
            RecordsOf(log, q) = {i} /\ log[i].record.verdict = verdict[q]
      BY <1>2 DEF HasRecord
    <3> QED BY <2>2, <2>3, <3>1
  <2> QED BY <1>1, <1>2, <2>4, <2>5 DEF HasVerdict, ExitAgrees
<1> QED BY <1>3, <1>4, StepLog

-----------------------------------------------------------------------------
(* The run itself.                                                         *)

\* Before the append.
LEMMA OwnTry ==
  ASSUME IInv, NEW r \in Runs,
         Configure(r) \/ LoadPacket(r) \/ Evaluate(r) \/ Fail(r) \/ Escape(r)
  PROVE  (NothingYet(r) /\ HasVerdict(r) /\ HasRecord(r) /\ ExitAgrees(r))'
<1> USE CliAssumption
<1>1. /\ phase[r] \in {"configure", "load", "evaluate"}
      /\ log' = log /\ exit[r] = Null
      /\ \A i \in 1..Len(log) : log[i].record.run # r
  <2>1. phase[r] \in {"configure", "load", "evaluate"} /\ log' = log
    BY DEF Configure, LoadPacket, Evaluate, Fail, Escape, FailsWith
  <2> QED BY <2>1 DEF IInv, Ordered, NothingYet, ExitAgrees
<1>2. CASE Configure(r) \/ LoadPacket(r)
  <2>1. phase'[r] \in {"load", "evaluate"} /\ exit'[r] = Null
    BY <1>1, <1>2 DEF Configure, LoadPacket, GoTo, IInv, TypeOK
  <2> QED BY <1>1, <2>1 DEF NothingYet, HasVerdict, HasRecord, ExitAgrees
<1>3. CASE Evaluate(r) \/ Fail(r)
  <2>1. /\ phase'[r] = (IF r \in Audited THEN "append" ELSE "print")
        /\ exit'[r] = Null
    BY <1>1, <1>3 DEF Evaluate, Fail, GoTo, AfterTry, IInv, TypeOK
  <2>2. verdict'[r] \in Verdict
    BY <1>3 DEF Evaluate, Fail, FailsWith, Verdict, ErrorCategory, IInv, TypeOK
  <2> QED BY <1>1, <2>1, <2>2 DEF NothingYet, HasVerdict, HasRecord, ExitAgrees
<1>4. CASE Escape(r)
  <2>1. phase'[r] = "exited" /\ exit'[r] = "traceback"
    BY <1>4 DEF Escape, Exit, IInv, TypeOK
  <2> QED BY <1>1, <2>1 DEF NothingYet, HasVerdict, HasRecord, ExitAgrees
<1> QED BY <1>2, <1>3, <1>4

\* The append.
LEMMA OwnAppend ==
  ASSUME IInv, NEW r \in Runs,
         AppendLine(r) \/ AppendBody(r) \/ AppendNewline(r)
  PROVE  (NothingYet(r) /\ HasVerdict(r) /\ HasRecord(r) /\ ExitAgrees(r))'
<1> USE CliAssumption
<1>1. /\ phase[r] \in {"append", "newline"} /\ phase'[r] \in {"newline", "print"}
      /\ exit[r] = Null /\ exit'[r] = Null
      /\ verdict'[r] = verdict[r] /\ verdict[r] \in Verdict
  <2>1. /\ phase[r] \in {"append", "newline"} /\ phase'[r] \in {"newline", "print"}
        /\ exit' = exit /\ verdict' = verdict
    BY DEF AppendLine, AppendBody, AppendNewline, GoTo, IInv, TypeOK
  <2> QED BY <2>1 DEF IInv, Ordered, HasVerdict, ExitAgrees
<1>2. log \in Seq(Piece)
  BY DEF IInv, TypeOK
<1>3. CASE AppendLine(r) \/ AppendBody(r)
  <2>1. PICK part \in {"line", "body"} : log' = Append(log, Written(Record(r), part))
    BY <1>3 DEF AppendLine, AppendBody, Write
  <2>2. phase[r] = "append"
    BY <1>3 DEF AppendLine, AppendBody
  <2>3. /\ Written(Record(r), part) \in Piece
        /\ Written(Record(r), part).record.run = r
        /\ Written(Record(r), part).record.verdict = verdict[r]
        /\ Written(Record(r), part).part = part
    BY <1>1, WriteType
  <2>4. /\ Len(log') = Len(log) + 1 /\ Len(log) \in Nat
        /\ log'[Len(log) + 1] = Written(Record(r), part)
    BY <1>2, <2>1, <2>3, AppendFacts
  <2>5. \A i \in 1..Len(log) : log[i].record.run # r
    BY <2>2 DEF IInv, Ordered, NothingYet
  <2>6. RecordsOf(log', r) = {Len(log) + 1}
    BY <1>2, <2>1, <2>3, <2>5, FirstRecord
  <2>7. \E i \in 1..Len(log') :
          RecordsOf(log', r) = {i} /\ log'[i].record.verdict = verdict'[r]
    BY <1>1, <2>3, <2>4, <2>6
  <2> QED BY <1>1, <2>7 DEF NothingYet, HasVerdict, HasRecord, ExitAgrees
<1>4. CASE AppendNewline(r)
  <2> DEFINE x == Written(Record(r), "newline")
  <2>1. log' = Append(log, x) /\ phase[r] = "newline"
    BY <1>4 DEF AppendNewline, Write
  <2>2. x \in Piece /\ x.part = "newline"
    BY <1>1, WriteType
  <2>3. PICK i \in 1..Len(log) :
          RecordsOf(log, r) = {i} /\ log[i].record.verdict = verdict[r]
    BY <2>1 DEF IInv, Ordered, HasRecord
  <2> HIDE DEF x
  <2>4. RecordsOf(log', r) = {i}
    BY <1>2, <2>1, <2>2, <2>3, NewlineRecords
  <2>5. i \in 1..Len(log') /\ log'[i] = log[i]
    BY <1>2, <2>1, <2>2, AppendFacts
  <2> QED BY <1>1, <2>3, <2>4, <2>5 DEF NothingYet, HasVerdict, HasRecord, ExitAgrees
<1> QED BY <1>3, <1>4

\* The end.
LEMMA OwnExit ==
  ASSUME IInv, NEW r \in Runs,
         AppendFails(r) \/ Show(r) \/ ShowFails(r) \/ Interrupt(r)
  PROVE  (NothingYet(r) /\ HasVerdict(r) /\ HasRecord(r) /\ ExitAgrees(r))'
<1> USE CliAssumption
<1>1. phase'[r] = "exited" /\ verdict'[r] = verdict[r]
  BY DEF AppendFails, Show, ShowFails, Interrupt, Exit, IInv, TypeOK
<1>2. CASE AppendFails(r) \/ ShowFails(r) \/ Interrupt(r)
  <2>1. exit'[r] \in {"audit_error", "traceback", "killed"}
    BY <1>2 DEF AppendFails, ShowFails, Interrupt, Exit, IInv, TypeOK
  <2> QED BY <1>1, <2>1 DEF NothingYet, HasVerdict, HasRecord, ExitAgrees
<1>3. CASE Show(r)
  <2>1. /\ phase[r] = "print" /\ log' = log
        /\ exit'[r] = (IF verdict[r] \in Decisions THEN "ok" ELSE "error")
    BY <1>3 DEF Show, Exit, IInv, TypeOK
  <2>2. verdict[r] \in Verdict
    BY <2>1 DEF IInv, Ordered, HasVerdict
  <2>3. r \in Audited => \E i \in 1..Len(log) :
          RecordsOf(log, r) = {i} /\ log[i].record.verdict = verdict[r]
    BY <2>1 DEF IInv, Ordered, HasRecord
  <2>4. HasRecord(r)'
    BY <1>1, <2>1, <2>3 DEF HasRecord
  <2> QED BY <1>1, <2>1, <2>2, <2>4 DEF NothingYet, HasVerdict, ExitAgrees, Verdict
<1> QED BY <1>2, <1>3

LEMMA OrderedStep ==
  ASSUME IInv, NEW r \in Runs, Step(r)
  PROVE  Ordered'
BY OthersKeep, OwnTry, OwnAppend, OwnExit DEF Step, Ordered

-----------------------------------------------------------------------------
(* What is not a whole line stays explained.                               *)

\* A step of an exited run there is none.
LEMMA Running ==
  ASSUME IInv, NEW r \in Runs, Step(r)
  PROVE  phase[r] # "exited" /\ exit[r] = Null
<1>1. phase[r] # "exited"
  BY DEF Step, Configure, LoadPacket, Evaluate, Fail, FailsWith, Escape, AppendLine,
         AppendBody, AppendNewline, AppendFails, Show, ShowFails, Interrupt
<1> QED BY <1>1 DEF IInv, Ordered, ExitAgrees

\* What the log held, it holds.
LEMMA PiecesStay ==
  ASSUME IInv, NEW r \in Runs, Step(r), NEW i \in 1..Len(log)
  PROVE  i \in 1..Len(log') /\ log'[i] = log[i]
<1>1. log \in Seq(Piece)
  BY DEF IInv, TypeOK
<1> QED BY <1>1, StepLog, AppendFacts

\* A run that disturbs the log is never taken for one that does not.
LEMMA DisturbsStays ==
  ASSUME IInv, NEW r \in Runs, NEW q \in Runs, Step(r), Disturbs(q)
  PROVE  Disturbs(q)'
<1> USE CliAssumption
<1>1. CASE exit[q] \in {"audit_error", "killed"}
  <2>1. q # r
    BY <1>1, Running
  <2> QED BY <1>1, <2>1, StepRuns DEF Disturbs
<1>2. CASE \E i \in 1..Len(log) : log[i].record.run = q /\ log[i].part = "newline"
  BY <1>2, PiecesStay DEF Disturbs
<1>3. CASE phase[q] = "newline" /\ q # r
  BY <1>3, StepRuns DEF Disturbs
<1>4. CASE phase[q] = "newline" /\ q = r
  <2>1. AppendNewline(r) \/ AppendFails(r) \/ Interrupt(r)
    BY <1>4 DEF Step, Configure, LoadPacket, Evaluate, Fail, FailsWith, Escape, AppendLine,
                AppendBody, Show, ShowFails
  <2>2. CASE AppendNewline(r)
    <3> DEFINE x == Written(Record(r), "newline")
    <3>1. x \in Piece /\ x.record.run = r /\ x.part = "newline"
      BY <1>4, WriteType
    <3>2. log' = Append(log, x) /\ log \in Seq(Piece)
      BY <2>2 DEF AppendNewline, Write, IInv, TypeOK
    <3> HIDE DEF x
    <3>3. /\ Len(log) + 1 \in 1..Len(log')
          /\ log'[Len(log) + 1] = x
      BY <3>1, <3>2, AppendFacts
    <3> QED BY <1>4, <3>1, <3>3 DEF Disturbs
  <2>3. CASE AppendFails(r) \/ Interrupt(r)
    BY <1>4, <2>3 DEF AppendFails, Interrupt, Exit, Disturbs, IInv, TypeOK
  <2> QED BY <2>1, <2>2, <2>3
<1> QED BY <1>1, <1>2, <1>3, <1>4 DEF Disturbs

\* A piece that is no whole line is of a run that disturbs.
LEMMA NewPiece ==
  ASSUME IInv, NEW r \in Runs, Step(r), NEW x \in Piece, log' = Append(log, x),
         x.part \in {"body", "torn"}
  PROVE  x.record.run = r /\ Disturbs(r)'
<1>1. log \in Seq(Piece) /\ log'[Len(log) + 1] = x /\ log' # log
  BY AppendFacts DEF IInv, TypeOK
<1>2. AppendLine(r) \/ AppendBody(r) \/ AppendNewline(r) \/ AppendFails(r) \/ Interrupt(r)
  BY <1>1 DEF Step, Configure, LoadPacket, Evaluate, Fail, Escape, Show, ShowFails
<1>3. PICK part \in {"line", "body", "newline", "torn"} :
        /\ log' = Append(log, Written(Record(r), part))
        /\ phase[r] \in {"append", "newline"}
        /\ AppendLine(r) => part = "line"
        /\ AppendNewline(r) => part = "newline"
  <2>1. CASE AppendLine(r)
    BY <2>1 DEF AppendLine, AppendNewline, Write
  <2>2. CASE AppendBody(r)
    BY <2>2 DEF AppendBody, AppendLine, AppendNewline, Write, GoTo, IInv, TypeOK
  <2>3. CASE AppendNewline(r)
    BY <2>3 DEF AppendNewline, AppendLine, Write
  <2>4. CASE AppendFails(r)
    BY <1>1, <2>4 DEF AppendFails, AppendLine, AppendNewline, Write, GoTo, Exit, IInv, TypeOK
  <2>5. CASE Interrupt(r)
    BY <1>1, <2>5 DEF Interrupt, AppendLine, AppendNewline, Write, GoTo, Exit, IInv, TypeOK
  <2> QED BY <1>2, <2>1, <2>2, <2>3, <2>4, <2>5
<1>4. /\ Written(Record(r), part) \in Piece
      /\ Written(Record(r), part).record.run = r
      /\ Written(Record(r), part).part = part
  BY <1>3, WriteType
<1>5. x = Written(Record(r), part)
  BY <1>1, <1>3, <1>4, AppendFacts
<1>6. AppendBody(r) \/ AppendFails(r) \/ Interrupt(r)
  BY <1>2, <1>3, <1>4, <1>5
<1>7. Disturbs(r)'
  BY <1>6 DEF AppendBody, AppendFails, Interrupt, GoTo, Exit, Disturbs, IInv, TypeOK
<1> QED BY <1>4, <1>5, <1>7

LEMMA ExplainedStep ==
  ASSUME IInv, NEW r \in Runs, Step(r)
  PROVE  Explained'
<1> SUFFICES ASSUME NEW q \in Runs, NEW i \in 1..Len(log'), Fragment(log', i, q)
             PROVE  Disturbs(q)'
  BY DEF Explained
<1>1. log \in Seq(Piece)
  BY DEF IInv, TypeOK
<1>2. CASE i \in 1..Len(log)
  <2>1. log'[i] = log[i]
    BY <1>2, PiecesStay
  <2>2. Disturbs(q)
    BY <1>2, <2>1 DEF IInv, Explained, Fragment
  <2> QED BY <2>2, DisturbsStays
<1>3. CASE i \notin 1..Len(log)
  <2>1. log' # log
    BY <1>3
  <2>2. PICK x \in Piece : log' = Append(log, x)
    BY <2>1, StepLog
  <2>3. log'[i] = x
    <3>1. Len(log') = Len(log) + 1 /\ Len(log) \in Nat /\ log'[Len(log) + 1] = x
      BY <1>1, <2>2, AppendFacts
    <3> QED BY <1>3, <3>1
  <2>4. x.part \in {"body", "torn"} /\ x.record.run = q
    BY <2>3 DEF Fragment
  <2>5. x.record.run = r /\ Disturbs(r)'
    BY <2>2, <2>4, NewPiece
  <2>6. q = r
    BY <2>4, <2>5
  <2> QED BY <2>5, <2>6
<1> QED BY <1>2, <1>3

-----------------------------------------------------------------------------
(* The theorems.                                                           *)

LEMMA NextInv == IInv /\ [Next]_vars => IInv'
<1>1. ASSUME IInv, UNCHANGED vars PROVE IInv'
  BY <1>1 DEF IInv, TypeOK, Ordered, Explained, NothingYet, HasVerdict, HasRecord, ExitAgrees,
              RecordsOf, Disturbs, Fragment, vars
<1>2. ASSUME IInv, NEW r \in Runs, Step(r) PROVE IInv'
  BY <1>2, TypeStep, OrderedStep, ExplainedStep DEF IInv
<1>3. Next => \E r \in Runs : Step(r)
  BY DEF Next, Step
<1> QED BY <1>1, <1>2, <1>3

LEMMA Invariance == Spec => []IInv
BY InitInv, NextInv, PTL DEF Spec

\* Every reachable state of the runs and of their log is well typed.
THEOREM TypeCorrect == Spec => []TypeOK
<1>1. IInv => TypeOK
  BY DEF IInv
<1> QED BY <1>1, Invariance, PTL

\* A run that told its operator how it ended has one record that says the same.
THEOREM ToldRecorded == Spec => []ToldIsRecorded
<1>1. ASSUME IInv, NEW r \in Audited, exit[r] \in {"ok", "error"}
      PROVE  \E i \in 1..Len(log) :
               /\ RecordsOf(log, r) = {i}
               /\ exit[r] = "ok" <=> log[i].record.verdict \in Decisions
               /\ log[i].record.verdict = verdict[r]
  <2>1. r \in Runs
    BY CliAssumption
  <2>2. PICK i \in 1..Len(log) :
          RecordsOf(log, r) = {i} /\ log[i].record.verdict = verdict[r]
    BY <1>1, <2>1 DEF IInv, Ordered, HasRecord
  <2>3. exit[r] = "ok" <=> verdict[r] \in Decisions
    BY <1>1, <2>1, CliAssumption DEF IInv, Ordered, ExitAgrees
  <2> QED BY <2>2, <2>3
<1>2. IInv => ToldIsRecorded
  BY <1>1 DEF ToldIsRecorded
<1> QED BY <1>2, Invariance, PTL

\* A record is only lost to a run in its line that was cut short or wrote in
\* two pieces.
THEOREM LossExplained == Spec => []LossHasACause
<1>1. ASSUME IInv, NEW i \in Content(log), ~Readable(log, i)
      PROVE  \E j \in Content(log) : SameLine(log, i, j) /\ Disturbs(log[j].record.run)
  <2>1. log \in Seq(Piece) /\ Content(log) \subseteq 1..Len(log) /\ Len(log) \in Nat
    BY <1>1 DEF IInv, TypeOK, Content
  <2> DEFINE whose(j) == log[j].record.run
  <2>typed. ASSUME NEW j \in Content(log)
        PROVE  whose(j) \in Runs /\ log[j].part \in {"line", "body", "torn"}
    <3>1. log[j] \in Piece
      BY <2>1, EntryType
    <3> QED BY <2>1, <3>1 DEF Piece, AuditRecord, Content
  <2>2. ASSUME NEW j \in Content(log), log[j].part \in {"body", "torn"}
        PROVE  Disturbs(whose(j))
    <3>1. whose(j) \in Runs /\ Fragment(log, j, whose(j))
      BY <2>typed, <2>2 DEF Fragment
    <3> HIDE DEF whose
    <3> QED BY <1>1, <2>1, <3>1 DEF IInv, Explained
  <2>3. CASE log[i].part = "torn"
    <3>1. SameLine(log, i, i)
      BY <2>1 DEF SameLine
    <3> QED BY <2>2, <2>3, <3>1
  <2>4. CASE \E j \in Content(log) : j # i /\ SameLine(log, i, j)
    <3>1. PICK j \in Content(log) : j # i /\ SameLine(log, i, j)
      BY <2>4
    <3>2. CASE i < j
      <4>1. ~EndsLine(log[i])
        BY <2>1, <3>1, <3>2 DEF SameLine
      <4>2. log[i].part \in {"body", "torn"}
        BY <2>typed, <4>1 DEF EndsLine
      <4>3. SameLine(log, i, i)
        BY <2>1 DEF SameLine
      <4> QED BY <2>2, <4>2, <4>3
    <3>3. CASE j < i
      <4>1. ~EndsLine(log[j])
        BY <2>1, <3>1, <3>3 DEF SameLine
      <4>2. log[j].part \in {"body", "torn"}
        BY <2>typed, <3>1, <4>1 DEF EndsLine
      <4> QED BY <2>2, <3>1, <4>2
    <3> QED BY <2>1, <3>1, <3>2, <3>3
  <2> QED BY <1>1, <2>3, <2>4 DEF Readable
<1>2. IInv => LossHasACause
  BY <1>1 DEF LossHasACause
<1> QED BY <1>2, Invariance, PTL

\* Reports only grow, and a refused log stays refused.
THEOREM ReportsGrow == Spec => ReportsOnlyGrow
<1> DEFINE Grows == ~Refused(log') => ~Refused(log) /\ Load(log) \subseteq Load(log')
<1>1. ASSUME IInv, [Next]_vars PROVE [Grows]_vars
  <2>1. CASE UNCHANGED vars
    BY <2>1
  <2>2. CASE \E r \in Runs : Step(r)
    <3>1. log \in Seq(Piece)
      BY <1>1 DEF IInv, TypeOK
    <3>2. log' = log \/ \E x \in Piece : log' = Append(log, x)
      BY <1>1, <2>2, StepLog
    <3> QED BY <3>1, <3>2, LoadGrows
  <2>3. Next => \E r \in Runs : Step(r)
    BY DEF Next, Step
  <2> QED BY <1>1, <2>1, <2>2, <2>3
<1>2. Spec => [][Grows]_vars
  BY <1>1, Invariance, PTL DEF Spec
<1> QED BY <1>2 DEF ReportsOnlyGrow
=============================================================================
