----------------------------- MODULE RunHistory -----------------------------
(***************************************************************************)
(* The run history (logging_record.py) as the execution facade fills it    *)
(* (execution_facade.sweep_watchman_and_log, run_pipeline_and_log) and the *)
(* notebook shows it (view_models.py).  Callers in several processes       *)
(* append to one file; each call can raise while it evaluates, or find the *)
(* disk full while it logs, and be made again.  The reader takes what it   *)
(* can parse and says nothing of the rest.                                 *)
(***************************************************************************)
EXTENDS Naturals, Sequences, FiniteSets

CONSTANTS
  Callers,   \* processes that call the facade
  Contracts, \* the supported contracts, as numbers in their sorted order
  Bundles,   \* which of them a bundle holds
  Contexts,  \* the Watchman contexts packets lead to
  Decisions, \* final decisions of the pipeline
  MaxCalls,  \* bound on the calls
  Null

\* The part of a context the views tell apart.
States == {"calm", "eventful"}
Flags == {"flag"}
Context == [state : States, hard : SUBSET Flags, aware : SUBSET Flags,
            missing : SUBSET Flags]

Statuses == {"blocked", "caution", "ready"}
RunTypes == {"watchman_only", "full_pipeline"}

\* A RunHistoryRecord; the number of the call stands for its run_id.
RunHistoryRecord ==
  [caller : Callers, call : 1..MaxCalls, contract : Contracts, run_type : RunTypes,
   watchman_status : Statuses, final_decision : Decisions \cup {Null}]

ASSUME HistoryAssumption ==
  /\ Contracts \subseteq Nat /\ IsFiniteSet(Contracts) /\ Bundles \subseteq SUBSET Contracts
  /\ Contexts \subseteq Context
  /\ MaxCalls \in Nat /\ Null \notin Decisions

INSTANCE JsonLines WITH Records <- RunHistoryRecord

VARIABLES
  phase,    \* where each caller is
  calls,    \* how many calls were made
  call,     \* the number of its current or last call
  sweep,    \* the contexts its last sweep gave, a function on the contracts swept
  pending,  \* records it has still to append
  returned, \* records that calls have given back to their callers
  log       \* the run history

vars == <<phase, calls, call, sweep, pending, returned, log>>

-----------------------------------------------------------------------------
(* Records and views. *)

\* Mutant: missing inputs do not count.
StatusWithoutMissing(context) ==
  IF context.hard # {} THEN "blocked"
  ELSE IF context.aware # {} THEN "caution"
  ELSE "ready"

\* Mutant: the first flag is the status.
StatusOfFlags(context) ==
  IF context.hard # {} THEN "blocked"
  ELSE IF context.aware \cup context.missing # {} THEN "flag"
  ELSE "ready"

\* logging_record._watchman_status
WatchmanStatus(context) ==
  IF context.hard # {} THEN "blocked"
  ELSE IF context.aware \cup context.missing # {} THEN "caution"
  ELSE "ready"

\* view_models._readiness_card_status
CardStatus(context) ==
  IF context.hard # {} THEN "blocked"
  ELSE IF context.aware \cup context.missing # {} THEN "caution"
  ELSE "ready"

\* Mutant: the diff lists the state fields only.
StateChanges(previous, current) ==
  {f \in {"state"} : previous[f] # current[f]}

\* diff_watchman_contexts: the fields that changed.
Diff(previous, current) ==
  {f \in {"state", "hard", "aware", "missing"} : previous[f] # current[f]}

Record(p, contract, context, run_type, decision) ==
  [caller |-> p, call |-> calls + 1, contract |-> contract, run_type |-> run_type,
   watchman_status |-> WatchmanStatus(context), final_decision |-> decision]

\* sorted(sweep_results), the one element of this set.
Sorted(contracts) ==
  {order \in [1..Cardinality(contracts) -> contracts] :
     \A i, j \in 1..Cardinality(contracts) : i < j => order[i] < order[j]}

-----------------------------------------------------------------------------
(* sweep_watchman_and_log and run_pipeline_and_log. *)

\* A call numbered, of which the evaluation is done: it reads nothing another caller
\* can change, so it is one step.  Everything is evaluated before anything is logged.
Begin(p) ==
  /\ phase[p] = "idle" /\ calls < MaxCalls
  /\ calls' = calls + 1
  /\ call' = [call EXCEPT ![p] = calls + 1]
  /\ UNCHANGED <<returned, log>>

\* sweep_watchman over the supported contracts of a bundle.
Sweep(p) ==
  /\ Begin(p)
  /\ \E swept \in Bundles : \E result \in [swept -> Contexts], order \in Sorted(swept) :
       /\ sweep' = [sweep EXCEPT ![p] = result]
       /\ pending' = [pending EXCEPT ![p] =
            [i \in 1..Cardinality(swept) |->
               Record(p, order[i], result[order[i]], "watchman_only", Null)]]
  /\ phase' = [phase EXCEPT ![p] = "logging"]

\* The Watchman context of one packet, then the pipeline on it, whatever the context.
RunPipeline(p) ==
  /\ Begin(p)
  /\ \E contract \in Contracts, context \in Contexts, decision \in Decisions :
       pending' = [pending EXCEPT ![p] =
         <<Record(p, contract, context, "full_pipeline", decision)>>]
  /\ phase' = [phase EXCEPT ![p] = "logging"]
  /\ UNCHANGED sweep

\* A malformed packet or trigger, a provider failure: nothing of the call is kept.
Raise(p) == Begin(p) /\ UNCHANGED <<phase, sweep, pending>>

\* Mutant: the newline is forgotten.
AppendBody(p) ==
  /\ phase[p] = "logging" /\ pending[p] # <<>>
  /\ log' = Append(log, Written(Head(pending[p]), "body"))
  /\ pending' = [pending EXCEPT ![p] = Tail(@)]
  /\ UNCHANGED <<phase, calls, call, sweep, returned>>

\* append_log_record: the line and its newline are one write.
AppendLogRecord(p) ==
  /\ phase[p] = "logging" /\ pending[p] # <<>>
  /\ log' = Append(log, Written(Head(pending[p]), "line"))
  /\ pending' = [pending EXCEPT ![p] = Tail(@)]
  /\ UNCHANGED <<phase, calls, call, sweep, returned>>

\* The call returns the records it has logged.
Return(p) ==
  /\ phase[p] = "logging" /\ pending[p] = <<>>
  /\ phase' = [phase EXCEPT ![p] = "idle"]
  /\ returned' = returned \cup
       {log[i].record : i \in {j \in DOMAIN log : log[j].record.caller = p
                                                  /\ log[j].record.call = call[p]}}
  /\ UNCHANGED <<calls, call, sweep, pending, log>>

\* Mutant: the failure is swallowed, and the call goes on with its next record.
AppendFailsAndGoesOn(p) ==
  /\ phase[p] = "logging" /\ pending[p] # <<>>
  /\ \/ UNCHANGED log
     \/ \E part \in {"torn", "body"} : log' = Append(log, Written(Head(pending[p]), part))
  /\ pending' = [pending EXCEPT ![p] = Tail(@)]
  /\ UNCHANGED <<phase, calls, call, sweep, returned>>

\* The file does not open, or the disk is full part of the way, or the process is
\* killed: the call ends with the rest of its records unwritten.
AppendFails(p) ==
  /\ phase[p] = "logging" /\ pending[p] # <<>>
  /\ \/ UNCHANGED log
     \/ \E part \in {"torn", "body"} : log' = Append(log, Written(Head(pending[p]), part))
  /\ pending' = [pending EXCEPT ![p] = <<>>]
  /\ phase' = [phase EXCEPT ![p] = "idle"]
  /\ UNCHANGED <<calls, call, sweep, returned>>

-----------------------------------------------------------------------------
Nothing == [c \in {} |-> Null]

Init ==
  /\ phase = [p \in Callers |-> "idle"]
  /\ calls = 0
  /\ call = [p \in Callers |-> 0]
  /\ sweep = [p \in Callers |-> Nothing]
  /\ pending = [p \in Callers |-> <<>>]
  /\ returned = {}
  /\ log = <<>>

Next ==
  \E p \in Callers :
    \/ Sweep(p) \/ RunPipeline(p) \/ Raise(p)
    \/ AppendLogRecord(p) \/ Return(p) \/ AppendFails(p)

Spec == Init /\ [][Next]_vars

-----------------------------------------------------------------------------
(* What the history is worth. *)

\* Every variable has its type.
TypeOK ==
  /\ phase \in [Callers -> {"idle", "logging"}]
  /\ calls \in 0..MaxCalls
  /\ call \in [Callers -> 0..MaxCalls]
  /\ sweep \in [Callers -> UNION {[swept -> Contexts] : swept \in SUBSET Contracts}]
  /\ pending \in [Callers -> Seq(RunHistoryRecord)]
  /\ returned \subseteq RunHistoryRecord
  /\ log \in Seq(Piece)

\* Writes of a record cut short before they ended its line.
Cut(i) == log[i].part \in {"torn", "body"}

\* A record a call returned is shown by every later reading of the history, unless
\* the write just before it was cut short: the two then share a line, which the
\* reader drops without a word.
ReturnedIsShown ==
  \A record \in returned :
    \/ record \in Load(log)
    \/ \E i \in 2..Len(log) : log[i].record = record /\ Cut(i - 1)

\* Of two records of one call the one written earlier has the smaller contract; and each
\* contract is written once.
SweepsInOrder ==
  \A i, j \in DOMAIN log :
    /\ i < j
    /\ log[i].record.call = log[j].record.call
    => log[i].record.contract < log[j].record.contract

\* A record of a caller's sweep is in the log only behind whole lines for all the smaller
\* contracts of that sweep.  (Of the latest sweep; the log only grows, so what was so when
\* a record was written stays so.)
NothingSkipped ==
  \A p \in Callers, i \in DOMAIN log :
    LET record == log[i].record
    IN /\ record.caller = p /\ record.call = call[p]
       /\ record.run_type = "watchman_only"
       => \A c \in DOMAIN sweep[p] : c < record.contract =>
            \E j \in 1..(i - 1) :
              /\ log[j].part = "line" /\ log[j].record.call = record.call
              /\ log[j].record.contract = c

\* The status in the history is the status on the card of the same sweep, as long
\* as the caller has not swept again (the two modules each compute it).
CardsAgree ==
  \A p \in Callers, i \in DOMAIN log :
    LET record == log[i].record
    IN /\ record.caller = p /\ record.call = call[p]
       /\ record.run_type = "watchman_only"
       => /\ record.contract \in DOMAIN sweep[p]
          /\ record.watchman_status = CardStatus(sweep[p][record.contract])

\* What a call has logged of its sweep is always the first contracts of the sweep in
\* sorted order, each once and none left out, and only the last of them may be cut short:
\* after a failure halfway the later contracts are the ones missing.  Each is logged with
\* the status of its card.
LogTellsSweep == SweepsInOrder /\ NothingSkipped /\ CardsAgree

\* What was returned and can be read stays readable, whatever the others append and
\* however their writes end.
ReturnedStaysShown == [][returned \cap Load(log) \subseteq Load(log')]_vars

\* From one sweep to the next a contract's status does not change without its diff
\* naming a changed field.
NoSilentChange ==
  [][\A p \in Callers : \A c \in DOMAIN sweep[p] \cap DOMAIN sweep'[p] :
       CardStatus(sweep[p][c]) # CardStatus(sweep'[p][c])
         => Diff(sweep[p][c], sweep'[p][c]) # {}]_vars
=============================================================================
