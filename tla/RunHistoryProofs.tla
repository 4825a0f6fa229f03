-------------------------- MODULE RunHistoryProofs --------------------------
(***************************************************************************)
(* Proofs about RunHistory: what a call returned is shown and stays so,    *)
(* and the history tells of a sweep what its caller has seen, for any      *)
(* number of callers, contracts and calls.                                 *)
(***************************************************************************)
EXTENDS RunHistory, FiniteSetTheorems, TLAPS

\* Calls are numbered as they begin, and no two callers have the same one.
Numbered ==
  /\ \A p \in Callers : call[p] <= calls
  /\ \A p, q \in Callers : p # q /\ call[p] = call[q] => call[p] = 0
  /\ \A k \in 1..Len(log) : log[k].record.call <= calls

\* The record a call still has to append: its own, of a contract after all those it has
\* logged, with the status of its sweep.
Waiting(p, record) ==
  /\ record.caller = p /\ record.call = call[p]
  /\ \A k \in 1..Len(log) :
       log[k].record.call = call[p] => log[k].record.contract < record.contract
  /\ record.run_type = "watchman_only" =>
       /\ record.contract \in DOMAIN sweep[p]
       /\ record.watchman_status = CardStatus(sweep[p][record.contract])

Increasing(records) ==
  \A i, j \in 1..Len(records) : i < j => records[i].contract < records[j].contract

Queued(p) ==
  /\ \A i \in 1..Len(pending[p]) : Waiting(p, pending[p][i])
  /\ Increasing(pending[p])
  /\ phase[p] = "idle" => pending[p] = <<>>

\* A call that goes on has written whole lines only.
Clean(p) ==
  phase[p] = "logging" =>
    \A k \in 1..Len(log) :
      log[k].record.caller = p /\ log[k].record.call = call[p] => log[k].part = "line"

\* What was returned was written as a whole line.
Returned ==
  \A record \in returned :
    \E k \in 1..Len(log) : log[k].record = record /\ log[k].part = "line"

IInv ==
  /\ TypeOK /\ Numbered
  /\ \A p \in Callers : Queued(p) /\ Clean(p)
  /\ Returned /\ SweepsInOrder /\ CardsAgree

-----------------------------------------------------------------------------
(* Sequences.                                                              *)

\* Appending keeps what was there and adds one write.
LEMMA AppendFacts ==
  ASSUME NEW S, NEW file \in Seq(S), NEW x \in S
  PROVE  /\ Append(file, x) \in Seq(S)
         /\ Len(Append(file, x)) = Len(file) + 1 /\ Len(file) \in Nat
         /\ \A i \in 1..Len(file) : Append(file, x)[i] = file[i]
         /\ Append(file, x)[Len(file) + 1] = x
OBVIOUS

\* The head of a sequence is its first entry and the tail has the others.
LEMMA TailFacts ==
  ASSUME NEW S, NEW s \in Seq(S), s # <<>>
  PROVE  /\ Head(s) = s[1] /\ s[1] \in S /\ 1 \in 1..Len(s)
         /\ Tail(s) \in Seq(S) /\ Len(Tail(s)) = Len(s) - 1 /\ Len(s) \in Nat
         /\ \A i \in 1..Len(Tail(s)) : i + 1 \in 1..Len(s) /\ Tail(s)[i] = s[i + 1]
OBVIOUS

\* A record of a call is typed.
LEMMA RecordType ==
  ASSUME TypeOK, NEW p \in Callers, calls < MaxCalls, NEW contract \in Contracts,
         NEW context \in Contexts, NEW run_type \in RunTypes, NEW decision \in Decisions \cup {Null}
  PROVE  /\ Record(p, contract, context, run_type, decision) \in RunHistoryRecord
         /\ Record(p, contract, context, run_type, decision).caller = p
         /\ Record(p, contract, context, run_type, decision).call = calls + 1
         /\ Record(p, contract, context, run_type, decision).contract = contract
         /\ Record(p, contract, context, run_type, decision).run_type = run_type
         /\ Record(p, contract, context, run_type, decision).watchman_status = CardStatus(context)
<1>1. calls + 1 \in 1..MaxCalls
  BY HistoryAssumption DEF TypeOK
<1>2. WatchmanStatus(context) = CardStatus(context) /\ WatchmanStatus(context) \in Statuses
  BY DEF WatchmanStatus, CardStatus, Statuses
<1> QED BY <1>1, <1>2 DEF Record, RunHistoryRecord

\* The bundles are finite sets of contracts, and the sorted order is a sequence of them.
LEMMA SortedType ==
  ASSUME NEW swept \in Bundles, NEW order \in Sorted(swept)
  PROVE  /\ swept \subseteq Contracts /\ Cardinality(swept) \in Nat
         /\ \A i \in 1..Cardinality(swept) : order[i] \in swept
         /\ \A i, j \in 1..Cardinality(swept) : i < j => order[i] < order[j]
<1>1. swept \subseteq Contracts /\ IsFiniteSet(Contracts)
  BY HistoryAssumption
<1>2. IsFiniteSet(swept)
  BY <1>1, FS_Subset
<1>3. Cardinality(swept) \in Nat
  BY <1>2, FS_CardinalityType
<1> QED BY <1>1, <1>3 DEF Sorted

-----------------------------------------------------------------------------
LEMMA InitInv == Init => IInv
<1> SUFFICES ASSUME Init PROVE IInv
  OBVIOUS
<1> USE DEF Init
<1>1. TypeOK
  <2>1. sweep \in [Callers -> UNION {[swept -> Contexts] : swept \in SUBSET Contracts}]
    <3>1. Nothing \in [{} -> Contexts]
      BY DEF Nothing
    <3>2. {} \in SUBSET Contracts
      OBVIOUS
    <3> QED BY <3>1, <3>2
  <2> QED BY <2>1, HistoryAssumption DEF TypeOK
<1>2. Len(log) = 0 /\ \A p \in Callers : Len(pending[p]) = 0 /\ pending[p] = <<>>
  OBVIOUS
<1>3. Numbered
  BY <1>2 DEF Numbered
<1>4. \A p \in Callers : Queued(p) /\ Clean(p)
  BY <1>2 DEF Queued, Clean, Increasing
<1>5. Returned /\ SweepsInOrder /\ CardsAgree
  BY <1>2 DEF Returned, SweepsInOrder, CardsAgree
<1> QED BY <1>1, <1>3, <1>4, <1>5 DEF IInv

\* A call that begins has a number nobody has used; what it will log is numbered with it.
LEMMA BeginInv ==
  ASSUME IInv, NEW p \in Callers, Begin(p), TypeOK',
         \A q \in Callers \ {p} :
           pending'[q] = pending[q] /\ sweep'[q] = sweep[q] /\ phase'[q] = phase[q],
         Increasing(pending'[p]),
         phase'[p] = "idle" => pending'[p] = <<>>,
         \A i \in 1..Len(pending'[p]) :
           LET record == pending'[p][i]
           IN  /\ record.caller = p /\ record.call = calls + 1
               /\ record.run_type = "watchman_only" =>
                    /\ record.contract \in DOMAIN sweep'[p]
                    /\ record.watchman_status = CardStatus(sweep'[p][record.contract])
  PROVE  IInv'
<1>1. /\ calls' = calls + 1 /\ calls \in Nat
      /\ call' = [call EXCEPT ![p] = calls + 1] /\ call \in [Callers -> Nat]
      /\ log' = log /\ returned' = returned
  BY HistoryAssumption DEF Begin, IInv, TypeOK
<1>2. call'[p] = calls + 1 /\ \A q \in Callers \ {p} : call'[q] = call[q]
  BY <1>1
<1>3. \A k \in 1..Len(log) : log[k].record.call \in Nat /\ log[k].record.call <= calls
  <2>1. \A k \in 1..Len(log) : log[k] \in Piece
    BY DEF IInv, TypeOK
  <2>2. \A piece \in Piece : piece.record.call \in Nat
    BY HistoryAssumption DEF Piece, RunHistoryRecord
  <2> QED BY <2>1, <2>2 DEF IInv, Numbered
<1>4. Numbered'
  <2>1. \A q \in Callers : call[q] \in Nat /\ call[q] <= calls
    BY <1>1 DEF IInv, Numbered
  <2>2. \A q \in Callers : call'[q] <= calls'
    BY <1>1, <1>2, <2>1
  <2>3. \A q, r \in Callers : q # r /\ call'[q] = call'[r] => call'[q] = 0
    BY <1>1, <1>2, <2>1 DEF IInv, Numbered
  <2>4. \A k \in 1..Len(log') : log'[k].record.call <= calls'
    BY <1>1, <1>3
  <2> QED BY <2>2, <2>3, <2>4 DEF Numbered
<1>5. \A k \in 1..Len(log) : log[k].record.call # call'[p]
  BY <1>1, <1>2, <1>3
<1>6. Queued(p)' /\ Clean(p)'
  BY <1>1, <1>2, <1>5 DEF Queued, Clean, Waiting
<1>7. ASSUME NEW q \in Callers \ {p} PROVE Queued(q)' /\ Clean(q)'
  BY <1>1, <1>2, <1>7 DEF IInv, Queued, Clean, Waiting
<1>8. Returned' /\ SweepsInOrder'
  BY <1>1 DEF IInv, Returned, SweepsInOrder
<1>9. CardsAgree'
  <2>1. ASSUME NEW q \in Callers, NEW k \in DOMAIN log',
               log'[k].record.caller = q, log'[k].record.call = call'[q],
               log'[k].record.run_type = "watchman_only"
        PROVE  /\ log'[k].record.contract \in DOMAIN sweep'[q]
               /\ log'[k].record.watchman_status = CardStatus(sweep'[q][log'[k].record.contract])
    <3>1. k \in 1..Len(log) /\ k \in DOMAIN log
      BY <1>1 DEF IInv, TypeOK
    <3>2. q # p
      BY <1>1, <1>5, <2>1, <3>1
    <3> QED BY <1>1, <1>2, <2>1, <3>1, <3>2 DEF IInv, CardsAgree
  <2> QED BY <2>1 DEF CardsAgree
<1> QED BY <1>4, <1>6, <1>7, <1>8, <1>9 DEF IInv

\* A sweep queues a record for each of its contracts, in order.
LEMMA SweepInv == ASSUME IInv, NEW p \in Callers, Sweep(p) PROVE IInv'
<1>0. PICK swept \in Bundles : \E result \in [swept -> Contexts], order \in Sorted(swept) :
        /\ sweep' = [sweep EXCEPT ![p] = result]
        /\ pending' = [pending EXCEPT ![p] =
             [i \in 1..Cardinality(swept) |->
                Record(p, order[i], result[order[i]], "watchman_only", Null)]]
  BY DEF Sweep
<1>1. PICK result \in [swept -> Contexts], order \in Sorted(swept) :
        /\ sweep' = [sweep EXCEPT ![p] = result]
        /\ pending' = [pending EXCEPT ![p] =
             [i \in 1..Cardinality(swept) |->
                Record(p, order[i], result[order[i]], "watchman_only", Null)]]
  BY <1>0
<1> DEFINE records == [i \in 1..Cardinality(swept) |->
                         Record(p, order[i], result[order[i]], "watchman_only", Null)]
<1>2. TypeOK /\ Begin(p) /\ calls < MaxCalls /\ phase' = [phase EXCEPT ![p] = "logging"]
  BY DEF IInv, Sweep, Begin
<1>3. /\ swept \subseteq Contracts /\ Cardinality(swept) \in Nat
      /\ \A i \in 1..Cardinality(swept) : order[i] \in swept
      /\ \A i, j \in 1..Cardinality(swept) : i < j => order[i] < order[j]
  BY SortedType
<1>4. \A i \in 1..Cardinality(swept) :
        /\ records[i] \in RunHistoryRecord
        /\ records[i].caller = p /\ records[i].call = calls + 1
        /\ records[i].contract = order[i] /\ records[i].run_type = "watchman_only"
        /\ records[i].watchman_status = CardStatus(result[order[i]])
  BY <1>2, <1>3, RecordType DEF RunTypes
<1>5. records \in Seq(RunHistoryRecord) /\ Len(records) = Cardinality(swept)
  BY <1>3, <1>4
<1>6. /\ sweep'[p] = result /\ pending'[p] = records /\ phase'[p] = "logging"
      /\ \A q \in Callers \ {p} :
           pending'[q] = pending[q] /\ sweep'[q] = sweep[q] /\ phase'[q] = phase[q]
  BY <1>1, <1>2 DEF TypeOK
<1> HIDE DEF records
<1>7. TypeOK'
  <2>1. calls' \in 0..MaxCalls /\ call' \in [Callers -> 0..MaxCalls] /\ phase' \in [Callers -> {"idle", "logging"}]
    BY <1>2, HistoryAssumption DEF Begin, TypeOK
  <2>2. result \in UNION {[s -> Contexts] : s \in SUBSET Contracts}
    BY <1>3
  <2>3. sweep' \in [Callers -> UNION {[s -> Contexts] : s \in SUBSET Contracts}]
    BY <1>1, <1>2, <2>2 DEF TypeOK
  <2>4. pending' \in [Callers -> Seq(RunHistoryRecord)]
    BY <1>1, <1>2, <1>5 DEF TypeOK, records
  <2> QED BY <1>2, <2>1, <2>3, <2>4 DEF TypeOK, Begin
<1>8. Increasing(pending'[p])
  BY <1>3, <1>4, <1>5, <1>6 DEF Increasing
<1>9. \A i \in 1..Len(pending'[p]) :
        LET record == pending'[p][i]
        IN  /\ record.caller = p /\ record.call = calls + 1
            /\ record.run_type = "watchman_only" =>
                 /\ record.contract \in DOMAIN sweep'[p]
                 /\ record.watchman_status = CardStatus(sweep'[p][record.contract])
  BY <1>3, <1>4, <1>5, <1>6
<1> QED BY <1>2, <1>6, <1>7, <1>8, <1>9, BeginInv

LEMMA RunPipelineInv == ASSUME IInv, NEW p \in Callers, RunPipeline(p) PROVE IInv'
<1>1. PICK contract \in Contracts, context \in Contexts, decision \in Decisions :
        pending' = [pending EXCEPT ![p] =
          <<Record(p, contract, context, "full_pipeline", decision)>>]
  BY DEF RunPipeline
<1> DEFINE record == Record(p, contract, context, "full_pipeline", decision)
<1>2. /\ TypeOK /\ Begin(p) /\ calls < MaxCalls /\ sweep' = sweep
      /\ phase' = [phase EXCEPT ![p] = "logging"]
  BY DEF IInv, RunPipeline, Begin
<1>3. /\ record \in RunHistoryRecord /\ record.caller = p /\ record.call = calls + 1
      /\ record.run_type = "full_pipeline"
  BY <1>2, RecordType DEF RunTypes
<1> HIDE DEF record
<1>4. /\ pending'[p] = <<record>> /\ phase'[p] = "logging"
      /\ \A q \in Callers \ {p} :
           pending'[q] = pending[q] /\ sweep'[q] = sweep[q] /\ phase'[q] = phase[q]
  BY <1>1, <1>2 DEF TypeOK, record
<1>5. TypeOK'
  <2>1. calls' \in 0..MaxCalls /\ call' \in [Callers -> 0..MaxCalls] /\ phase' \in [Callers -> {"idle", "logging"}]
    BY <1>2, HistoryAssumption DEF Begin, TypeOK
  <2>2. <<record>> \in Seq(RunHistoryRecord)
    BY <1>3
  <2>3. pending' \in [Callers -> Seq(RunHistoryRecord)]
    BY <1>1, <1>2, <2>2 DEF TypeOK, record
  <2> QED BY <1>2, <2>1, <2>3 DEF TypeOK, Begin
<1>6. Len(pending'[p]) = 1 /\ \A i \in 1..Len(pending'[p]) : i = 1 /\ pending'[p][i] = record
  BY <1>4
<1>7. Increasing(pending'[p])
  BY <1>6 DEF Increasing
<1> QED BY <1>2, <1>3, <1>4, <1>5, <1>6, <1>7, BeginInv

LEMMA RaiseInv == ASSUME IInv, NEW p \in Callers, Raise(p) PROVE IInv'
<1>1. Begin(p) /\ pending' = pending /\ sweep' = sweep /\ phase' = phase /\ phase[p] = "idle"
  BY DEF Raise, Begin
<1>2. pending[p] = <<>>
  BY <1>1 DEF IInv, Queued
<1>3. TypeOK'
  BY <1>1, HistoryAssumption DEF Begin, IInv, TypeOK
<1>4. Len(pending'[p]) = 0
  BY <1>1, <1>2
<1> QED BY <1>1, <1>2, <1>3, <1>4, BeginInv DEF Increasing

-----------------------------------------------------------------------------
(* Writing.                                                                *)

\* What a caller writes of the first record it has to append leaves the history in order.
LEMMA WriteInv ==
  ASSUME IInv, NEW p \in Callers, phase[p] = "logging", pending[p] # <<>>,
         NEW part \in {"line", "body", "torn"},
         log' = Append(log, Written(Head(pending[p]), part)),
         UNCHANGED <<calls, call, sweep, returned>>
  PROVE  /\ log' \in Seq(Piece) /\ Len(log') = Len(log) + 1 /\ Len(log) \in Nat
         /\ \A k \in 1..Len(log) : log'[k] = log[k]
         /\ log'[Len(log')].record = Head(pending[p]) /\ log'[Len(log')].part = part
         /\ Head(pending[p]).caller = p /\ Head(pending[p]).call = call[p] /\ call[p] \in Nat \ {0}
         /\ Numbered' /\ Returned' /\ SweepsInOrder' /\ CardsAgree'
<1> DEFINE record == Head(pending[p])
<1>1. /\ pending[p] \in Seq(RunHistoryRecord) /\ log \in Seq(Piece)
      /\ call \in [Callers -> Nat] /\ calls \in Nat
  BY HistoryAssumption DEF IInv, TypeOK
<1>2. record = pending[p][1] /\ record \in RunHistoryRecord /\ 1 \in 1..Len(pending[p])
  BY <1>1, TailFacts
<1>3. Waiting(p, record)
  BY <1>2 DEF IInv, Queued
<1>4. record.call = call[p] /\ record.caller = p /\ record.call \in Nat \ {0}
  BY <1>2, <1>3 DEF Waiting, RunHistoryRecord
<1> HIDE DEF record
<1>5. /\ Written(record, part) \in Piece
      /\ Written(record, part).record = record /\ Written(record, part).part = part
  BY <1>2 DEF Written, Piece
<1>6. /\ log' \in Seq(Piece) /\ Len(log') = Len(log) + 1 /\ Len(log) \in Nat
      /\ \A k \in 1..Len(log) : log'[k] = log[k]
      /\ log'[Len(log) + 1] = Written(record, part)
  BY <1>1, <1>5, AppendFacts DEF record
<1>7. \A k \in 1..Len(log') : k \in 1..Len(log) \/ k = Len(log) + 1
  BY <1>6
<1>8. Numbered'
  <2>1. \A k \in 1..Len(log') : log'[k].record.call <= calls'
    BY <1>1, <1>4, <1>5, <1>6, <1>7 DEF IInv, Numbered
  <2> QED BY <2>1 DEF IInv, Numbered
<1>9. Returned'
  BY <1>6 DEF IInv, Returned
<1>10. SweepsInOrder'
  <2>1. ASSUME NEW i \in 1..Len(log'), NEW j \in 1..Len(log'), i < j,
               log'[i].record.call = log'[j].record.call
        PROVE  log'[i].record.contract < log'[j].record.contract
    <3>1. i \in 1..Len(log)
      <4> DEFINE n == Len(log)
      <4>1. n \in Nat /\ i \in 1..n + 1 /\ j \in 1..n + 1 /\ i < j
        BY <1>6, <2>1
      <4> HIDE DEF n
      <4>2. i \in 1..n
        BY <4>1
      <4> QED BY <4>2 DEF n
    <3>2. CASE j \in 1..Len(log)
      <4>1. log'[i] = log[i] /\ log'[j] = log[j] /\ i \in DOMAIN log /\ j \in DOMAIN log
        BY <1>1, <1>6, <3>1, <3>2
      <4> QED BY <2>1, <4>1 DEF IInv, SweepsInOrder
    <3>3. CASE j = Len(log) + 1
      BY <1>3, <1>4, <1>5, <1>6, <2>1, <3>1, <3>3 DEF Waiting
    <3> QED BY <1>7, <3>2, <3>3
  <2>2. DOMAIN log' = 1..Len(log')
    BY <1>6
  <2> QED BY <2>1, <2>2 DEF SweepsInOrder
<1>11. CardsAgree'
  <2>1. ASSUME NEW q \in Callers, NEW k \in 1..Len(log'),
               log'[k].record.caller = q, log'[k].record.call = call[q],
               log'[k].record.run_type = "watchman_only"
        PROVE  /\ log'[k].record.contract \in DOMAIN sweep[q]
               /\ log'[k].record.watchman_status = CardStatus(sweep[q][log'[k].record.contract])
    <3>1. CASE k \in 1..Len(log)
      BY <1>1, <1>6, <2>1, <3>1 DEF IInv, CardsAgree
    <3>2. CASE k = Len(log) + 1
      BY <1>3, <1>4, <1>5, <1>6, <2>1, <3>2 DEF Waiting
    <3> QED BY <1>7, <3>1, <3>2
  <2>2. DOMAIN log' = 1..Len(log')
    BY <1>6
  <2> QED BY <2>1, <2>2 DEF CardsAgree
<1> QED BY <1>4, <1>5, <1>6, <1>8, <1>9, <1>10, <1>11 DEF record

LEMMA AppendLogRecordInv == ASSUME IInv, NEW p \in Callers, AppendLogRecord(p) PROVE IInv'
<1>1. /\ phase[p] = "logging" /\ pending[p] # <<>> /\ phase' = phase
      /\ log' = Append(log, Written(Head(pending[p]), "line"))
      /\ pending' = [pending EXCEPT ![p] = Tail(pending[p])]
      /\ UNCHANGED <<calls, call, sweep, returned>>
  BY DEF AppendLogRecord
<1>2. /\ log' \in Seq(Piece) /\ Len(log') = Len(log) + 1 /\ Len(log) \in Nat
      /\ \A k \in 1..Len(log) : log'[k] = log[k]
      /\ log'[Len(log')].record = Head(pending[p]) /\ log'[Len(log')].part = "line"
      /\ Head(pending[p]).caller = p /\ Head(pending[p]).call = call[p] /\ call[p] \in Nat \ {0}
      /\ Numbered' /\ Returned' /\ SweepsInOrder' /\ CardsAgree'
  BY <1>1, WriteInv
<1>3. \A k \in 1..Len(log') : k \in 1..Len(log) \/ k = Len(log')
  BY <1>2
<1>4. pending \in [Callers -> Seq(RunHistoryRecord)] /\ call' = call /\ sweep' = sweep
  BY <1>1 DEF IInv, TypeOK
<1>5. /\ Head(pending[p]) = pending[p][1] /\ 1 \in 1..Len(pending[p])
      /\ Tail(pending[p]) \in Seq(RunHistoryRecord)
      /\ Len(Tail(pending[p])) = Len(pending[p]) - 1 /\ Len(pending[p]) \in Nat
      /\ \A i \in 1..Len(Tail(pending[p])) :
           i + 1 \in 1..Len(pending[p]) /\ Tail(pending[p])[i] = pending[p][i + 1]
  BY <1>1, <1>4, TailFacts
<1>6. /\ pending'[p] = Tail(pending[p])
      /\ \A q \in Callers \ {p} : pending'[q] = pending[q]
  BY <1>1, <1>4
<1>7. TypeOK'
  BY <1>1, <1>2, <1>4, <1>5 DEF IInv, TypeOK
<1>8. Queued(p)'
  <2>1. ASSUME NEW i \in 1..Len(pending'[p]) PROVE Waiting(p, pending[p][i])'
    <3>1. /\ i + 1 \in 1..Len(pending[p]) /\ pending'[p][i] = pending[p][i + 1] /\ i \in Nat \ {0}
      BY <1>5, <1>6, <2>1
    <3>2. Waiting(p, pending[p][i + 1])
      BY <3>1 DEF IInv, Queued
    <3>3. Head(pending[p]).contract < pending[p][i + 1].contract
      BY <1>5, <3>1 DEF IInv, Queued, Increasing
    <3>4. ASSUME NEW k \in 1..Len(log'), log'[k].record.call = call[p]
          PROVE  log'[k].record.contract < pending[p][i + 1].contract
      <4>1. CASE k \in 1..Len(log)
        BY <1>2, <3>2, <3>4, <4>1 DEF Waiting
      <4>2. CASE k = Len(log')
        BY <1>2, <3>3, <4>2
      <4> QED BY <1>3, <4>1, <4>2
    <3> QED BY <1>4, <3>1, <3>2, <3>4 DEF Waiting
  <2>2. ASSUME NEW i \in 1..Len(pending'[p]), NEW j \in 1..Len(pending'[p]), i < j
        PROVE  pending'[p][i].contract < pending'[p][j].contract
    <3>1. /\ i + 1 \in 1..Len(pending[p]) /\ pending'[p][i] = pending[p][i + 1]
          /\ j + 1 \in 1..Len(pending[p]) /\ pending'[p][j] = pending[p][j + 1]
      BY <1>5, <1>6
    <3>2. i + 1 < j + 1
      BY <1>5, <1>6, <2>2
    <3> QED BY <3>1, <3>2 DEF IInv, Queued, Increasing
  <2>3. Increasing(pending'[p])
    BY <2>2 DEF Increasing
  <2>4. phase'[p] # "idle"
    BY <1>1
  <2> QED BY <2>1, <2>3, <2>4 DEF Queued
<1>9. ASSUME NEW q \in Callers \ {p} PROVE Queued(q)'
  <2>1. ASSUME NEW i \in 1..Len(pending[q]) PROVE Waiting(q, pending[q][i])'
    <3>1. Waiting(q, pending[q][i])
      BY <1>9 DEF IInv, Queued
    <3>2. Head(pending[p]).call # call[q]
      BY <1>2, <1>9 DEF IInv, Numbered
    <3>3. \A k \in 1..Len(log') : log'[k].record.call = call[q] => k \in 1..Len(log)
      BY <1>2, <1>3, <3>2
    <3> QED BY <1>2, <1>4, <1>6, <1>9, <3>1, <3>3 DEF Waiting
  <2> QED BY <1>1, <1>6, <1>9, <2>1 DEF IInv, Queued
<1>10. ASSUME NEW q \in Callers PROVE Clean(q)'
  <2>1. ASSUME phase'[q] = "logging", NEW k \in 1..Len(log'),
               log'[k].record.caller = q, log'[k].record.call = call[q]
        PROVE  log'[k].part = "line"
    <3>1. CASE k \in 1..Len(log)
      BY <1>1, <1>2, <2>1, <3>1 DEF IInv, Clean
    <3>2. CASE k = Len(log')
      BY <1>2, <3>2
    <3> QED BY <1>3, <3>1, <3>2
  <2> QED BY <1>4, <2>1 DEF Clean
<1> QED BY <1>2, <1>7, <1>8, <1>9, <1>10 DEF IInv

LEMMA ReturnInv == ASSUME IInv, NEW p \in Callers, Return(p) PROVE IInv'
<1> DEFINE mine == {i \in DOMAIN log : log[i].record.caller = p /\ log[i].record.call = call[p]}
<1>1. /\ phase[p] = "logging" /\ pending[p] = <<>>
      /\ phase' = [phase EXCEPT ![p] = "idle"]
      /\ returned' = returned \cup {log[i].record : i \in mine}
      /\ UNCHANGED <<calls, call, sweep, pending, log>>
  BY DEF Return
<1>2. /\ mine \subseteq 1..Len(log)
      /\ \A i \in mine : log[i].part = "line" /\ log[i].record \in RunHistoryRecord
  <2>1. log \in Seq(Piece) /\ Clean(p)
    BY DEF IInv, TypeOK
  <2>2. mine \subseteq 1..Len(log)
    BY <2>1
  <2>3. \A i \in 1..Len(log) : log[i] \in Piece
    BY <2>1
  <2>4. \A piece \in Piece : piece.record \in RunHistoryRecord
    BY DEF Piece
  <2> QED BY <1>1, <2>1, <2>2, <2>3, <2>4 DEF Clean
<1>3. phase'[p] = "idle" /\ \A q \in Callers \ {p} : phase'[q] = phase[q]
  BY <1>1 DEF IInv, TypeOK
<1> HIDE DEF mine
<1>4. TypeOK'
  BY <1>1, <1>2 DEF IInv, TypeOK
<1>5. Numbered' /\ SweepsInOrder' /\ CardsAgree'
  BY <1>1 DEF IInv, Numbered, SweepsInOrder, CardsAgree
<1>6. Returned'
  BY <1>1, <1>2 DEF IInv, Returned
<1>7. ASSUME NEW q \in Callers PROVE Queued(q)' /\ Clean(q)'
  BY <1>1, <1>3, <1>7 DEF IInv, Queued, Clean, Waiting
<1> QED BY <1>4, <1>5, <1>6, <1>7 DEF IInv

LEMMA AppendFailsInv == ASSUME IInv, NEW p \in Callers, AppendFails(p) PROVE IInv'
<1>1. /\ phase[p] = "logging" /\ pending[p] # <<>>
      /\ phase' = [phase EXCEPT ![p] = "idle"]
      /\ pending' = [pending EXCEPT ![p] = <<>>]
      /\ UNCHANGED <<calls, call, sweep, returned>>
  BY DEF AppendFails
<1>2. /\ phase'[p] = "idle" /\ pending'[p] = <<>> /\ call' = call /\ sweep' = sweep
      /\ \A q \in Callers \ {p} : phase'[q] = phase[q] /\ pending'[q] = pending[q]
  BY <1>1 DEF IInv, TypeOK
<1>3. /\ phase' \in [Callers -> {"idle", "logging"}]
      /\ pending' \in [Callers -> Seq(RunHistoryRecord)]
  BY <1>1 DEF IInv, TypeOK
<1>4. Queued(p)' /\ Clean(p)'
  BY <1>2 DEF Queued, Clean, Increasing
<1>5. CASE UNCHANGED log
  <2>1. TypeOK' /\ Numbered' /\ Returned' /\ SweepsInOrder' /\ CardsAgree'
    BY <1>1, <1>3, <1>5 DEF IInv, TypeOK, Numbered, Returned, SweepsInOrder, CardsAgree
  <2>2. ASSUME NEW q \in Callers \ {p} PROVE Queued(q)' /\ Clean(q)'
    BY <1>2, <1>5, <2>2 DEF IInv, Queued, Clean, Waiting
  <2> QED BY <1>4, <2>1, <2>2 DEF IInv
<1>6. ASSUME NEW part \in {"torn", "body"}, log' = Append(log, Written(Head(pending[p]), part))
      PROVE  IInv'
  <2>1. /\ log' \in Seq(Piece) /\ Len(log') = Len(log) + 1 /\ Len(log) \in Nat
        /\ \A k \in 1..Len(log) : log'[k] = log[k]
        /\ log'[Len(log')].record = Head(pending[p])
        /\ Head(pending[p]).caller = p /\ Head(pending[p]).call = call[p] /\ call[p] \in Nat \ {0}
        /\ Numbered' /\ Returned' /\ SweepsInOrder' /\ CardsAgree'
    BY <1>1, <1>6, WriteInv
  <2>2. \A k \in 1..Len(log') : k \in 1..Len(log) \/ k = Len(log')
    BY <2>1
  <2>3. TypeOK'
    BY <1>1, <1>3, <2>1 DEF IInv, TypeOK
  <2>4. ASSUME NEW q \in Callers \ {p} PROVE Queued(q)' /\ Clean(q)'
    <3>1. ASSUME NEW i \in 1..Len(pending[q]) PROVE Waiting(q, pending[q][i])'
      <4>1. Waiting(q, pending[q][i])
        BY <2>4 DEF IInv, Queued
      <4>2. Head(pending[p]).call # call[q]
        BY <2>1, <2>4 DEF IInv, Numbered
      <4> QED BY <1>2, <2>1, <2>2, <4>1, <4>2 DEF Waiting
    <3>2. Queued(q)'
      BY <1>2, <2>4, <3>1 DEF IInv, Queued
    <3>3. Clean(q)'
      BY <1>2, <2>1, <2>2, <2>4 DEF IInv, Clean
    <3> QED BY <3>2, <3>3
  <2> QED BY <1>4, <2>1, <2>3, <2>4 DEF IInv
<1> QED BY <1>5, <1>6 DEF AppendFails

LEMMA StepInv == IInv /\ [Next]_vars => IInv'
<1> SUFFICES ASSUME IInv, [Next]_vars PROVE IInv'
  OBVIOUS
<1>1. CASE UNCHANGED vars
  BY <1>1 DEF vars, IInv, TypeOK, Numbered, Queued, Clean, Waiting, Returned, SweepsInOrder,
              CardsAgree, Cut
<1>2. CASE Next
  <2>1. PICK p \in Callers :
          \/ Sweep(p) \/ RunPipeline(p) \/ Raise(p)
          \/ AppendLogRecord(p) \/ Return(p) \/ AppendFails(p)
    BY <1>2 DEF Next
  <2> QED BY <2>1, SweepInv, RunPipelineInv, RaiseInv, AppendLogRecordInv, ReturnInv,
             AppendFailsInv
<1> QED BY <1>1, <1>2

LEMMA Inv == Spec => []IInv
<1> QED BY InitInv, StepInv, PTL DEF Spec

-----------------------------------------------------------------------------
(* The first contracts.                                                    *)

\* A call has written the whole line of a contract.
Told(p, c) ==
  \E k \in 1..Len(log) :
    log[k].part = "line" /\ log[k].record.call = call[p] /\ log[k].record.contract = c

\* Every smaller contract of the sweep waits before a record that waits, or is written.
Gapless(p) ==
  \A i \in 1..Len(pending[p]) :
    pending[p][i].run_type = "watchman_only" =>
      \A c \in DOMAIN sweep[p] : c < pending[p][i].contract =>
        (\E j \in 1..(i - 1) : pending[p][j].contract = c) \/ Told(p, c)

Firsts == (\A p \in Callers : Gapless(p)) /\ NothingSkipped

\* The sorted order of a bundle leaves no contract out.
LEMMA SortedIsWhole ==
  ASSUME NEW swept \in Bundles, NEW order \in Sorted(swept), NEW c \in swept
  PROVE  \E i \in 1..Cardinality(swept) : order[i] = c
<1> DEFINE n == Cardinality(swept)
<1>1. swept \subseteq Contracts /\ IsFiniteSet(swept) /\ n \in Nat
  BY HistoryAssumption, FS_Subset, FS_CardinalityType
<1>2. order \in [1..n -> swept] /\ \A i, j \in 1..n : i < j => order[i] < order[j]
  BY DEF Sorted
<1>3. swept \subseteq Nat
  BY <1>1, HistoryAssumption
<1> HIDE DEF n
<1>4. \A i, j \in 1..n : order[i] = order[j] => i = j
  <2>1. \A i \in 1..n : i \in Nat /\ order[i] \in Nat
    <3>1. \A i \in 1..n : order[i] \in swept
      BY <1>2
    <3>2. \A i \in 1..n : order[i] \in Nat
      BY <1>3, <3>1
    <3>3. \A i \in 1..n : i \in Nat
      BY <1>1
    <3> QED BY <3>2, <3>3
  <2>2. ASSUME NEW i \in 1..n, NEW j \in 1..n, order[i] = order[j] PROVE i = j
    <3>1. ~(i < j) /\ ~(j < i)
      BY <1>2, <2>1, <2>2
    <3> QED BY <2>1, <3>1
  <2> QED BY <2>2
<1>5. order \in Injection(1..n, swept)
  BY <1>2, <1>4 DEF Injection, IsInjective
<1>6. Cardinality(1..n) = n
  BY <1>1, FS_Interval
<1>7. order \in Surjection(1..n, swept)
  BY <1>1, <1>5, <1>6, FS_Injection DEF n
<1> QED BY <1>7 DEF Surjection, n

\* What is written stays written.
LEMMA ToldStays ==
  ASSUME NEW q, NEW c, Told(q, c), call'[q] = call[q], Len(log) \in Nat,
         Len(log') = Len(log) \/ Len(log') = Len(log) + 1,
         \A k \in 1..Len(log) : log'[k] = log[k]
  PROVE  Told(q, c)'
<1>1. PICK k \in 1..Len(log) :
        log[k].part = "line" /\ log[k].record.call = call[q] /\ log[k].record.contract = c
  BY DEF Told
<1>2. k \in 1..Len(log') /\ log'[k] = log[k]
  OBVIOUS
<1> QED BY <1>1, <1>2 DEF Told

\* A call that begins has nothing in the log and leaves the others as they are.
LEMMA BeginFirsts ==
  ASSUME IInv, Firsts, NEW p \in Callers, Begin(p), Gapless(p)',
         \A q \in Callers \ {p} : pending'[q] = pending[q] /\ sweep'[q] = sweep[q]
  PROVE  Firsts'
<1>1. /\ calls' = calls + 1 /\ calls \in Nat
      /\ call' = [call EXCEPT ![p] = calls + 1] /\ call \in [Callers -> Nat]
      /\ log' = log
  BY HistoryAssumption DEF Begin, IInv, TypeOK
<1>2. call'[p] = calls + 1 /\ \A q \in Callers \ {p} : call'[q] = call[q]
  BY <1>1
<1>3. \A k \in 1..Len(log) : log[k].record.call # call'[p]
  <2>1. \A k \in 1..Len(log) : log[k] \in Piece
    BY DEF IInv, TypeOK
  <2>2. \A piece \in Piece : piece.record.call \in Nat
    BY HistoryAssumption DEF Piece, RunHistoryRecord
  <2>3. \A k \in 1..Len(log) : log[k].record.call \in Nat /\ log[k].record.call <= calls
    BY <2>1, <2>2 DEF IInv, Numbered
  <2> QED BY <1>1, <1>2, <2>3
<1>4. ASSUME NEW q \in Callers \ {p} PROVE Gapless(q)'
  <2>1. Gapless(q)
    BY DEF Firsts
  <2>2. \A c : Told(q, c)' <=> Told(q, c)
    BY <1>1, <1>2 DEF Told
  <2> QED BY <1>2, <2>1, <2>2 DEF Gapless
<1>5. NothingSkipped'
  <2>1. ASSUME NEW q \in Callers, NEW i \in DOMAIN log',
               log'[i].record.caller = q, log'[i].record.call = call'[q],
               log'[i].record.run_type = "watchman_only",
               NEW c \in DOMAIN sweep'[q], c < log'[i].record.contract
        PROVE  \E j \in 1..(i - 1) :
                 /\ log'[j].part = "line" /\ log'[j].record.call = log'[i].record.call
                 /\ log'[j].record.contract = c
    <3>1. i \in 1..Len(log) /\ i \in DOMAIN log
      BY <1>1 DEF IInv, TypeOK
    <3>2. q # p
      BY <1>1, <1>3, <2>1, <3>1
    <3>3. q \in Callers /\ sweep'[q] = sweep[q] /\ call'[q] = call[q]
      BY <1>2, <3>2
    <3> QED BY <1>1, <2>1, <3>1, <3>3 DEF Firsts, NothingSkipped
  <2> QED BY <2>1 DEF NothingSkipped
<1> QED BY <1>4, <1>5 DEF Firsts

LEMMA SweepFirsts == ASSUME IInv, Firsts, NEW p \in Callers, Sweep(p) PROVE Firsts'
<1>0. PICK swept \in Bundles : \E result \in [swept -> Contexts], order \in Sorted(swept) :
        /\ sweep' = [sweep EXCEPT ![p] = result]
        /\ pending' = [pending EXCEPT ![p] =
             [i \in 1..Cardinality(swept) |->
                Record(p, order[i], result[order[i]], "watchman_only", Null)]]
  BY DEF Sweep
<1>1. PICK result \in [swept -> Contexts], order \in Sorted(swept) :
        /\ sweep' = [sweep EXCEPT ![p] = result]
        /\ pending' = [pending EXCEPT ![p] =
             [i \in 1..Cardinality(swept) |->
                Record(p, order[i], result[order[i]], "watchman_only", Null)]]
  BY <1>0
<1> DEFINE n == Cardinality(swept)
           records == [i \in 1..n |->
                         Record(p, order[i], result[order[i]], "watchman_only", Null)]
<1>2. Begin(p) /\ TypeOK
  BY DEF IInv, Sweep
<1>3. /\ n \in Nat /\ swept \subseteq Contracts
      /\ \A i \in 1..n : order[i] \in swept
      /\ \A i, j \in 1..n : i < j => order[i] < order[j]
  BY SortedType
<1>4. \A i \in 1..n : records[i].contract = order[i]
  BY DEF Record
<1>5. Len(records) = n
  BY <1>3
<1>6. /\ sweep'[p] = result /\ pending'[p] = records /\ DOMAIN result = swept
      /\ \A q \in Callers \ {p} : pending'[q] = pending[q] /\ sweep'[q] = sweep[q]
  BY <1>1, <1>2 DEF TypeOK
<1> HIDE DEF records, n
<1>7. ASSUME NEW i \in 1..n, NEW c \in swept, c < order[i]
      PROVE  \E j \in 1..(i - 1) : records[j].contract = c
  <2>1. PICK j \in 1..n : order[j] = c
    BY SortedIsWhole DEF n
  <2>2. swept \subseteq Nat
    BY <1>3, HistoryAssumption
  <2>3. i \in Nat /\ j \in Nat /\ order[i] \in Nat /\ order[j] \in Nat
    <3>1. order[i] \in swept /\ order[j] \in swept
      BY <1>3
    <3>2. order[i] \in Nat /\ order[j] \in Nat
      BY <2>2, <3>1
    <3>3. i \in Nat /\ j \in Nat
      BY <1>3
    <3> QED BY <3>2, <3>3
  <2>4. ~(i < j) /\ i # j
    BY <1>3, <1>7, <2>1, <2>3
  <2>5. j \in 1..(i - 1)
    BY <1>3, <2>3, <2>4
  <2> QED BY <1>4, <2>1, <2>5
<1>8. Gapless(p)'
  BY <1>4, <1>5, <1>6, <1>7 DEF Gapless
<1> QED BY <1>2, <1>6, <1>8, BeginFirsts

\* The record that is written is behind all the smaller contracts of its sweep.
LEMMA WriteFirsts ==
  ASSUME IInv, Firsts, NEW p \in Callers, phase[p] = "logging", pending[p] # <<>>,
         NEW part \in {"line", "body", "torn"},
         log' = Append(log, Written(Head(pending[p]), part)),
         UNCHANGED <<calls, call, sweep, returned>>
  PROVE  /\ NothingSkipped' /\ Len(log) \in Nat /\ Len(log') = Len(log) + 1
         /\ \A k \in 1..Len(log) : log'[k] = log[k]
         /\ log'[Len(log')].record = Head(pending[p]) /\ log'[Len(log')].part = part
         /\ Head(pending[p]).call = call[p]
<1> DEFINE record == Head(pending[p])
<1>1. /\ log \in Seq(Piece) /\ Len(log) \in Nat
      /\ Len(log') = Len(log) + 1 /\ log' \in Seq(Piece)
      /\ \A k \in 1..Len(log) : log'[k] = log[k]
      /\ log'[Len(log')].record = record /\ log'[Len(log')].part = part
      /\ record.caller = p /\ record.call = call[p]
  BY WriteInv DEF IInv, TypeOK
<1>2. record = pending[p][1] /\ 1 \in 1..Len(pending[p])
  BY TailFacts DEF IInv, TypeOK
<1> HIDE DEF record
<1>3. ASSUME NEW q \in Callers, NEW i \in 1..Len(log'),
             log'[i].record.caller = q, log'[i].record.call = call[q],
             log'[i].record.run_type = "watchman_only",
             NEW c \in DOMAIN sweep[q], c < log'[i].record.contract
      PROVE  \E j \in 1..(i - 1) :
               /\ log'[j].part = "line" /\ log'[j].record.call = log'[i].record.call
               /\ log'[j].record.contract = c
  <2>1. CASE i \in 1..Len(log)
    <3>1. i \in DOMAIN log /\ log'[i] = log[i] /\ \A j \in 1..(i - 1) : log'[j] = log[j]
      BY <1>1, <2>1
    <3> QED BY <1>3, <3>1 DEF Firsts, NothingSkipped
  <2>2. CASE i = Len(log) + 1
    <3>1. q = p /\ log'[i].record = record
      BY <1>1, <1>3, <2>2
    <3>2. (\E j \in 1..(1 - 1) : pending[p][j].contract = c) \/ Told(p, c)
      BY <1>2, <1>3, <3>1 DEF Firsts, Gapless
    <3>3. Told(p, c)
      BY <3>2
    <3>4. PICK k \in 1..Len(log) :
            log[k].part = "line" /\ log[k].record.call = call[p] /\ log[k].record.contract = c
      BY <3>3 DEF Told
    <3>5. k \in 1..(i - 1) /\ log'[k] = log[k]
      BY <1>1, <2>2
    <3> QED BY <1>1, <3>1, <3>4, <3>5
  <2> QED BY <1>1, <2>1, <2>2
<1>4. NothingSkipped'
  BY <1>1, <1>3 DEF NothingSkipped
<1> QED BY <1>1, <1>4 DEF record

LEMMA AppendLogRecordFirsts ==
  ASSUME IInv, Firsts, NEW p \in Callers, AppendLogRecord(p)
  PROVE  Firsts'
<1>1. /\ phase[p] = "logging" /\ pending[p] # <<>>
      /\ log' = Append(log, Written(Head(pending[p]), "line"))
      /\ pending' = [pending EXCEPT ![p] = Tail(pending[p])]
      /\ UNCHANGED <<calls, call, sweep, returned>>
  BY DEF AppendLogRecord
<1>2. /\ NothingSkipped' /\ Len(log) \in Nat /\ Len(log') = Len(log) + 1
      /\ \A k \in 1..Len(log) : log'[k] = log[k]
      /\ log'[Len(log')].record = Head(pending[p]) /\ log'[Len(log')].part = "line"
      /\ Head(pending[p]).call = call[p]
  BY <1>1, WriteFirsts
<1>3. /\ pending \in [Callers -> Seq(RunHistoryRecord)] /\ call' = call /\ sweep' = sweep
  BY <1>1 DEF IInv, TypeOK
<1>4. /\ Head(pending[p]) = pending[p][1] /\ 1 \in 1..Len(pending[p])
      /\ Len(Tail(pending[p])) = Len(pending[p]) - 1 /\ Len(pending[p]) \in Nat
      /\ \A i \in 1..Len(Tail(pending[p])) :
           i + 1 \in 1..Len(pending[p]) /\ Tail(pending[p])[i] = pending[p][i + 1]
  BY <1>1, <1>3, TailFacts
<1>5. pending'[p] = Tail(pending[p]) /\ \A q \in Callers \ {p} : pending'[q] = pending[q]
  BY <1>1, <1>3
<1>6. \A q \in Callers : \A c : Told(q, c) => Told(q, c)'
  BY <1>2, <1>3, ToldStays
<1>7. ASSUME NEW c, pending[p][1].contract = c PROVE Told(p, c)'
  <2>1. Len(log') \in 1..Len(log')
    BY <1>2
  <2>2. Head(pending[p]) = pending[p][1]
    BY <1>4
  <2>3. call'[p] = call[p]
    BY <1>3
  <2> DEFINE k == Len(log')
  <2>4. /\ log'[k].part = "line" /\ log'[k].record.call = call'[p]
        /\ log'[k].record.contract = c
    BY <1>2, <1>7, <2>2, <2>3
  <2> QED BY <2>1, <2>4 DEF Told
<1>8. Gapless(p)'
  <2>1. ASSUME NEW i \in 1..Len(pending'[p]), pending'[p][i].run_type = "watchman_only",
               NEW c \in DOMAIN sweep[p], c < pending'[p][i].contract
        PROVE  (\E j \in 1..(i - 1) : pending'[p][j].contract = c) \/ Told(p, c)'
    <3>1. i + 1 \in 1..Len(pending[p]) /\ pending'[p][i] = pending[p][i + 1] /\ i \in Nat
      BY <1>4, <1>5, <2>1
    <3>2. (\E j \in 1..(i + 1 - 1) : pending[p][j].contract = c) \/ Told(p, c)
      BY <2>1, <3>1 DEF Firsts, Gapless
    <3>3. CASE Told(p, c)
      BY <1>6, <3>3
    <3>4. ASSUME NEW j \in 1..i, pending[p][j].contract = c
          PROVE  (\E k \in 1..(i - 1) : pending'[p][k].contract = c) \/ Told(p, c)'
      <4>1. CASE j = 1
        BY <1>7, <3>4, <4>1
      <4>2. CASE j # 1
        <5>1. j - 1 \in 1..(i - 1) /\ (j - 1) + 1 = j /\ j - 1 \in 1..Len(pending'[p])
          BY <1>4, <1>5, <3>1, <4>2
        <5>2. pending'[p][j - 1] = pending[p][(j - 1) + 1]
          BY <1>4, <1>5, <5>1
        <5> QED BY <3>4, <5>1, <5>2
      <4> QED BY <4>1, <4>2
    <3>5. i + 1 - 1 = i
      BY <3>1
    <3> QED BY <3>2, <3>3, <3>4, <3>5
  <2> QED BY <1>3, <2>1 DEF Gapless
<1>9. ASSUME NEW q \in Callers \ {p} PROVE Gapless(q)'
  BY <1>3, <1>5, <1>6 DEF Firsts, Gapless
<1> QED BY <1>2, <1>8, <1>9 DEF Firsts

LEMMA AppendFailsFirsts ==
  ASSUME IInv, Firsts, NEW p \in Callers, AppendFails(p)
  PROVE  Firsts'
<1>1. /\ phase[p] = "logging" /\ pending[p] # <<>>
      /\ pending' = [pending EXCEPT ![p] = <<>>]
      /\ UNCHANGED <<calls, call, sweep, returned>>
  BY DEF AppendFails
<1>2. /\ pending'[p] = <<>> /\ call' = call /\ sweep' = sweep
      /\ \A q \in Callers \ {p} : pending'[q] = pending[q]
  BY <1>1 DEF IInv, TypeOK
<1>3. Len(pending'[p]) = 0
  BY <1>2
<1>4. Gapless(p)'
  BY <1>3 DEF Gapless
<1>5. CASE log' = log
  <2>1. NothingSkipped'
    BY <1>2, <1>5 DEF Firsts, NothingSkipped
  <2>2. \A q \in Callers : \A c : Told(q, c)' <=> Told(q, c)
    BY <1>2, <1>5 DEF Told
  <2>3. ASSUME NEW q \in Callers \ {p} PROVE Gapless(q)'
    BY <1>2, <2>2 DEF Firsts, Gapless
  <2> QED BY <1>4, <2>1, <2>3 DEF Firsts
<1>6. ASSUME NEW part \in {"torn", "body"}, log' = Append(log, Written(Head(pending[p]), part))
      PROVE  Firsts'
  <2>1. /\ NothingSkipped' /\ Len(log) \in Nat /\ Len(log') = Len(log) + 1
        /\ \A k \in 1..Len(log) : log'[k] = log[k]
    BY <1>1, <1>6, WriteFirsts
  <2>2. \A q \in Callers : \A c : Told(q, c) => Told(q, c)'
    BY <1>2, <2>1, ToldStays
  <2>3. ASSUME NEW q \in Callers \ {p} PROVE Gapless(q)'
    BY <1>2, <2>2 DEF Firsts, Gapless
  <2> QED BY <1>4, <2>1, <2>3 DEF Firsts
<1> QED BY <1>5, <1>6 DEF AppendFails

LEMMA FirstsKept == ASSUME IInv, Firsts, [Next]_vars PROVE Firsts'
<1>1. CASE UNCHANGED vars
  <2>1. UNCHANGED <<call, sweep, pending, log>>
    BY <1>1 DEF vars
  <2> QED BY <2>1 DEF Firsts, Gapless, Told, NothingSkipped
<1>2. CASE Next
  <2>1. PICK p \in Callers :
          \/ Sweep(p) \/ RunPipeline(p) \/ Raise(p)
          \/ AppendLogRecord(p) \/ Return(p) \/ AppendFails(p)
    BY <1>2 DEF Next
  <2>2. CASE Return(p)
    <3>1. UNCHANGED <<call, sweep, pending, log>>
      BY <2>2 DEF Return
    <3> QED BY <3>1 DEF Firsts, Gapless, Told, NothingSkipped
  <2>3. CASE RunPipeline(p)
    <3>0. PICK contract \in Contracts, context \in Contexts, decision \in Decisions :
            pending' = [pending EXCEPT ![p] =
              <<Record(p, contract, context, "full_pipeline", decision)>>]
      BY <2>3 DEF RunPipeline
    <3> DEFINE record == Record(p, contract, context, "full_pipeline", decision)
    <3>1. pending' = [pending EXCEPT ![p] = <<record>>] /\ record.run_type = "full_pipeline"
      BY <3>0 DEF Record
    <3> HIDE DEF record
    <3>2. /\ pending'[p] = <<record>> /\ sweep' = sweep /\ Begin(p)
          /\ \A q \in Callers \ {p} : pending'[q] = pending[q]
      BY <2>3, <3>1 DEF IInv, TypeOK, RunPipeline
    <3>3. \A i \in 1..Len(pending'[p]) : pending'[p][i] = record
      BY <3>2
    <3>4. Gapless(p)'
      BY <3>1, <3>3 DEF Gapless
    <3> QED BY <3>2, <3>4, BeginFirsts
  <2>4. CASE Raise(p)
    <3>1. Begin(p) /\ phase[p] = "idle" /\ pending' = pending /\ sweep' = sweep
      BY <2>4 DEF Raise, Begin
    <3>2. Len(pending'[p]) = 0
      BY <3>1 DEF IInv, Queued
    <3>3. Gapless(p)'
      BY <3>2 DEF Gapless
    <3> QED BY <3>1, <3>3, BeginFirsts
  <2> QED BY <2>1, <2>2, <2>3, <2>4, SweepFirsts, AppendLogRecordFirsts, AppendFailsFirsts
<1> QED BY <1>1, <1>2

-----------------------------------------------------------------------------
(* Theorems.                                                               *)

\* Every variable is well typed: callers, calls, sweeps and all that is written.
THEOREM TypeCorrect == Spec => []TypeOK
<1>1. IInv => TypeOK
  BY DEF IInv
<1> QED BY <1>1, Inv, PTL

\* A whole line that no cut write precedes is read.
LEMMA WholeLineRead ==
  ASSUME NEW file \in Seq(Piece), NEW i \in 1..Len(file), file[i].part = "line",
         i \in 2..Len(file) => file[i - 1].part \notin {"torn", "body"}
  PROVE  i \in Content(file) /\ Readable(file, i)
<1>1. i \in Content(file)
  BY DEF Content
<1>2. ASSUME NEW j \in Content(file), j # i PROVE ~SameLine(file, i, j)
  <2>1. j \in 1..Len(file) /\ i \in Nat /\ j \in Nat
    BY <1>2 DEF Content
  <2>2. CASE i < j
    <3>1. i \in i..j - 1
      BY <2>1, <2>2
    <3> QED BY <2>1, <2>2, <3>1 DEF SameLine, EndsLine
  <2>3. CASE j < i
    <3>1. i - 1 \in 1..Len(file) /\ i \in 2..Len(file) /\ j <= i - 1 /\ i - 1 < i
      BY <2>1, <2>3
    <3>2. file[i - 1].part \in {"line", "newline"}
      <4>1. file[i - 1] \in Piece
        BY <3>1
      <4>2. file[i - 1].part \in {"line", "body", "newline", "torn"}
        BY <4>1 DEF Piece
      <4> QED BY <3>1, <4>2
    <3> QED BY <3>1, <3>2 DEF SameLine, EndsLine
  <2> QED BY <1>2, <2>1, <2>2, <2>3
<1> QED BY <1>1, <1>2 DEF Readable

\* What execution_facade has returned is shown by logging_record.read_log_records, or the
\* write before it was cut short, for any number of callers in any interleaving.
THEOREM ReturnedShown == Spec => []ReturnedIsShown
<1>1. ASSUME IInv PROVE ReturnedIsShown
  <2>1. ASSUME NEW record \in returned, record \notin Load(log)
        PROVE  \E i \in 2..Len(log) : log[i].record = record /\ Cut(i - 1)
    <3>1. PICK k \in 1..Len(log) : log[k].record = record /\ log[k].part = "line"
      BY <1>1 DEF IInv, Returned
    <3>2. log \in Seq(Piece)
      BY <1>1 DEF IInv, TypeOK
    <3>3. k \in 2..Len(log) /\ log[k - 1].part \in {"torn", "body"}
      <4>1. SUFFICES ASSUME ~(k \in 2..Len(log) /\ log[k - 1].part \in {"torn", "body"})
                     PROVE  FALSE
        OBVIOUS
      <4>2. k \in Content(log) /\ Readable(log, k)
        BY <3>1, <3>2, <4>1, WholeLineRead
      <4> QED BY <2>1, <3>1, <4>2 DEF Load
    <3> QED BY <3>1, <3>3 DEF Cut
  <2> QED BY <2>1 DEF ReturnedIsShown
<1> QED BY <1>1, Inv, PTL

\* What the run history holds of a sweep is a prefix of its contracts in sorted order,
\* each once, every one but the last a whole line and each with the status of its card,
\* wherever the call failed and whatever others wrote in between
\* (execution_facade.sweep_watchman_and_log).
THEOREM LogTells == Spec => []LogTellsSweep
<1>1. Init => Firsts
  <2>1. ASSUME Init PROVE Firsts
    <3>1. DOMAIN log = {} /\ \A p \in Callers : Len(pending[p]) = 0
      BY <2>1 DEF Init
    <3> QED BY <3>1 DEF Firsts, Gapless, NothingSkipped
  <2> QED BY <2>1
<1>2. IInv /\ Firsts => LogTellsSweep
  BY DEF IInv, Firsts, LogTellsSweep
<1> QED BY <1>1, <1>2, InitInv, StepInv, FirstsKept, PTL DEF Spec

\* A whole line that is read is read whatever is appended after it.
LEMMA ReadAfterAppend ==
  ASSUME NEW file \in Seq(Piece), NEW piece \in Piece, NEW i \in Content(file),
         file[i].part = "line", Readable(file, i)
  PROVE  file[i].record \in Load(Append(file, piece))
<1> DEFINE longer == Append(file, piece)
<1>1. /\ Len(longer) = Len(file) + 1 /\ Len(file) \in Nat
      /\ \A k \in 1..Len(file) : longer[k] = file[k]
  BY AppendFacts
<1>2. i \in 1..Len(file) /\ i \in Nat
  BY DEF Content
<1> HIDE DEF longer
<1>3. i \in Content(longer) /\ longer[i] = file[i]
  BY <1>1, <1>2 DEF Content
<1>4. ASSUME NEW j \in Content(longer), j # i PROVE ~SameLine(longer, i, j)
  <2>1. j \in 1..Len(longer)
    BY DEF Content
  <2>2. CASE j \in 1..Len(file)
    <3>1. j \in Content(file)
      BY <1>1, <2>2 DEF Content
    <3>2. PICK k \in 1..Len(file) :
            ((i <= k /\ k < j) \/ (j <= k /\ k < i)) /\ EndsLine(file[k])
      BY <1>4, <3>1 DEF Readable, SameLine
    <3>3. k \in 1..Len(longer) /\ longer[k] = file[k]
      BY <1>1
    <3> QED BY <3>2, <3>3 DEF SameLine
  <2>3. CASE j = Len(file) + 1
    <3>1. i <= i /\ i < j /\ i \in 1..Len(longer) /\ EndsLine(longer[i])
      BY <1>1, <1>2, <1>3, <2>3 DEF EndsLine
    <3> QED BY <3>1 DEF SameLine
  <2> QED BY <1>1, <2>1, <2>2, <2>3
<1>5. Readable(longer, i)
  BY <1>3, <1>4 DEF Readable
<1> QED BY <1>3, <1>5 DEF Load, longer

\* Every write is of a record that waits, at the end of the history.
LEMMA OnlyAppended ==
  ASSUME IInv, Next
  PROVE  log' = log \/ \E piece \in Piece : log' = Append(log, piece)
<1>1. PICK p \in Callers :
        \/ Sweep(p) \/ RunPipeline(p) \/ Raise(p)
        \/ AppendLogRecord(p) \/ Return(p) \/ AppendFails(p)
  BY DEF Next
<1>2. ASSUME pending[p] # <<>>, NEW part \in {"line", "body", "torn"}
      PROVE  Written(Head(pending[p]), part) \in Piece
  <2>1. pending[p] \in Seq(RunHistoryRecord)
    BY DEF IInv, TypeOK
  <2>2. Head(pending[p]) \in RunHistoryRecord
    BY <1>2, <2>1, TailFacts
  <2> QED BY <2>2 DEF Written, Piece
<1>3. CASE AppendLogRecord(p)
  BY <1>2, <1>3 DEF AppendLogRecord
<1>4. CASE AppendFails(p)
  BY <1>2, <1>4 DEF AppendFails
<1>5. CASE Sweep(p) \/ RunPipeline(p) \/ Raise(p) \/ Return(p)
  BY <1>5 DEF Sweep, RunPipeline, Raise, Begin, Return
<1> QED BY <1>1, <1>3, <1>4, <1>5

\* Two writes of the history are never of the same record, so what was returned is read
\* where its call wrote it, and stays readable however the writes after it end
\* (logging_record.append_log_record, read_log_records).
THEOREM ReturnedStays == Spec => ReturnedStaysShown
<1>1. ASSUME IInv, [Next]_vars PROVE returned \cap Load(log) \subseteq Load(log')
  <2>1. SUFFICES ASSUME NEW record \in returned \cap Load(log), Next PROVE record \in Load(log')
    BY <1>1 DEF vars
  <2>2. PICK i \in Content(log) : log[i].record = record /\ Readable(log, i)
    BY <2>1 DEF Load
  <2>3. PICK k \in 1..Len(log) : log[k].record = record /\ log[k].part = "line"
    BY <1>1, <2>1 DEF IInv, Returned
  <2>4. i = k
    <3>1. log \in Seq(Piece) /\ i \in 1..Len(log)
      BY <1>1 DEF IInv, TypeOK, Content
    <3>2. i \in DOMAIN log /\ k \in DOMAIN log /\ i \in Nat /\ k \in Nat
      BY <3>1, <2>3
    <3>3. record.contract \in Nat
      <4>1. record \in RunHistoryRecord
        BY <1>1, <2>1 DEF IInv, TypeOK
      <4> QED BY <4>1, HistoryAssumption DEF RunHistoryRecord
    <3>4. ~(i < k) /\ ~(k < i)
      BY <1>1, <2>2, <2>3, <3>2, <3>3 DEF IInv, SweepsInOrder
    <3> QED BY <3>2, <3>4
  <2>5. log \in Seq(Piece)
    BY <1>1 DEF IInv, TypeOK
  <2>6. log' = log \/ \E piece \in Piece : log' = Append(log, piece)
    BY <1>1, <2>1, OnlyAppended
  <2>7. CASE log' = log
    BY <2>1, <2>7
  <2>8. ASSUME NEW piece \in Piece, log' = Append(log, piece) PROVE record \in Load(log')
    BY <2>2, <2>3, <2>4, <2>5, <2>8, ReadAfterAppend
  <2> QED BY <2>6, <2>7, <2>8
<1> QED BY <1>1, Inv, PTL DEF Spec, ReturnedStaysShown

\* Two contexts between which diff_watchman_contexts names no field get the same card
\* (view_models._readiness_card_status).
THEOREM DiffTells == Spec => NoSilentChange
<1>1. ASSUME NEW old, NEW new, Diff(old, new) = {}
      PROVE  CardStatus(old) = CardStatus(new)
  <2>1. old.hard = new.hard /\ old.aware = new.aware /\ old.missing = new.missing
    BY <1>1 DEF Diff
  <2> QED BY <2>1 DEF CardStatus
<1>2. [\A p \in Callers : \A c \in DOMAIN sweep[p] \cap DOMAIN sweep'[p] :
         CardStatus(sweep[p][c]) # CardStatus(sweep'[p][c])
           => Diff(sweep[p][c], sweep'[p][c]) # {}]_vars
  BY <1>1
<1> QED BY <1>2, PTL DEF Spec, NoSilentChange
=============================================================================
