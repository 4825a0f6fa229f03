--------------------------- MODULE ReadinessProofs ---------------------------
(***************************************************************************)
(* Proofs about the readiness output and about the two ways to run it.     *)
(***************************************************************************)
EXTENDS ReadinessDesk, TLAPS, FiniteSetTheorems

-----------------------------------------------------------------------------
(* The output. *)

LEMMA NotMalformed ==
  ASSUME NEW o \in ReadinessEngineOutput
  PROVE  o # Malformed
<1>1. DOMAIN o # {"malformed"}
  BY DEF ReadinessEngineOutput
<1>2. DOMAIN Malformed = {"malformed"}
  BY DEF Malformed
<1> QED
  BY <1>1, <1>2

\* The trigger's part of the validator is the trigger's part of the doctrine.
LEMMA TriggerPart ==
  ASSUME NEW o \in ReadinessEngineOutput, StatusBacked(o)
  PROVE  TriggerAccounted(o) <=>
           /\ (o.trigger_data = Null) = ("missing_trigger_context" \in o.insufficient_data_reasons)
           /\ o.trigger_data # Null =>
                /\ o.trigger_data.recheck_at_time = (o.trigger_data.family = "recheck_at_time")
                /\ o.trigger_data.price_level = (o.trigger_data.family = "price_level_touch")
<1> DEFINE data == o.trigger_data
<1>1. o.insufficient_data_reasons # {} <=> o.status = "INSUFFICIENT_DATA"
  BY DEF StatusBacked, ReadinessEngineOutput, ReadinessTopLevelStatus
<1>2. ASSUME data # Null
      PROVE FamilyShape(data) <=>
              /\ data.recheck_at_time = (data.family = "recheck_at_time")
              /\ data.price_level = (data.family = "price_level_touch")
  <2>1. data \in ReadinessTriggerData
    BY <1>2 DEF ReadinessEngineOutput
  <2>2. data.family \in {"recheck_at_time", "price_level_touch"}
    BY <2>1 DEF ReadinessTriggerData, ReadinessTriggerFamily
  <2>3. data.recheck_at_time \in BOOLEAN /\ data.price_level \in BOOLEAN
    BY <2>1 DEF ReadinessTriggerData
  <2>4. CASE data.family = "recheck_at_time"
    BY <2>3, <2>4 DEF FamilyShape
  <2>5. CASE data.family = "price_level_touch"
    BY <2>3, <2>5 DEF FamilyShape
  <2> QED
    BY <2>2, <2>4, <2>5
<1> QED
  BY <1>1, <1>2 DEF TriggerAccounted

\* The gate of a status.
Own(status) ==
  IF status = "WAIT_FOR_TRIGGER" THEN "trigger_gate"
  ELSE IF status = "LOCKED_OUT" THEN "lockout_gate"
  ELSE IF status = "INSUFFICIENT_DATA" THEN "data_sufficiency_gate"
  ELSE "none"

OwnState(status) ==
  IF status = "WAIT_FOR_TRIGGER" THEN "WAIT" ELSE IF status = "READY" THEN "PASS" ELSE "FAIL"

\* The doctrine of gates and reasons, for all four statuses at once.
Backed(o) ==
  /\ \A g \in ReadinessDoctrineGate :
       o.gates[g] = IF g = Own(o.status) THEN OwnState(o.status) ELSE "PASS"
  /\ o.wait_for_trigger_reason = (o.status = "WAIT_FOR_TRIGGER")
  /\ o.lockout_reason = (o.status = "LOCKED_OUT")
  /\ (o.insufficient_data_reasons # {}) = (o.status = "INSUFFICIENT_DATA")
  /\ o.missing_inputs = (o.status = "INSUFFICIENT_DATA")

\* The status's part of the validator is the gates' and the reasons' part.
LEMMA StatusPart ==
  ASSUME NEW o \in ReadinessEngineOutput
  PROVE  StatusBacked(o) <=> Backed(o)
<1>1. o.status \in {"READY", "WAIT_FOR_TRIGGER", "LOCKED_OUT", "INSUFFICIENT_DATA"}
  BY DEF ReadinessEngineOutput, ReadinessTopLevelStatus
<1>2. /\ o.wait_for_trigger_reason \in BOOLEAN /\ o.lockout_reason \in BOOLEAN
      /\ o.missing_inputs \in BOOLEAN
  BY DEF ReadinessEngineOutput
<1>3. CASE o.status = "READY"
  BY <1>2, <1>3 DEF StatusBacked, Backed, Own, OwnState, ReadinessDoctrineGate
<1>4. CASE o.status = "WAIT_FOR_TRIGGER"
  BY <1>2, <1>4 DEF StatusBacked, Backed, Own, OwnState, OthersPass, ReadinessDoctrineGate
<1>5. CASE o.status = "LOCKED_OUT"
  BY <1>2, <1>5 DEF StatusBacked, Backed, Own, OwnState, OthersPass, ReadinessDoctrineGate
<1>6. CASE o.status = "INSUFFICIENT_DATA"
  BY <1>2, <1>6 DEF StatusBacked, Backed, Own, OwnState, OthersPass, ReadinessDoctrineGate
<1> QED
  BY <1>1, <1>3, <1>4, <1>5, <1>6

\* Put together: the validators accept what the documentation describes.
LEMMA ValidatesDoctrine ==
  ASSUME NEW o \in ReadinessEngineOutput
  PROVE  Validates(o) <=> Doctrine(o)
<1> DEFINE TriggerRule ==
      /\ (o.trigger_data = Null) = ("missing_trigger_context" \in o.insufficient_data_reasons)
      /\ o.trigger_data # Null =>
           /\ o.trigger_data.recheck_at_time = (o.trigger_data.family = "recheck_at_time")
           /\ o.trigger_data.price_level = (o.trigger_data.family = "price_level_touch")
<1>1. Validates(o) <=> o.complete /\ StatusBacked(o) /\ TriggerAccounted(o)
  BY NotMalformed DEF Validates
<1>2. StatusBacked(o) => (TriggerAccounted(o) <=> TriggerRule)
  BY TriggerPart
<1>3. o.status \in {"READY", "WAIT_FOR_TRIGGER", "LOCKED_OUT", "INSUFFICIENT_DATA"}
  BY DEF ReadinessEngineOutput, ReadinessTopLevelStatus
<1>4. Doctrine(o) <=> o.complete /\ Backed(o) /\ TriggerRule
  <2>1. CASE o.status = "READY"
    BY <2>1 DEF Doctrine, Backed, Own, OwnState, ReadinessDoctrineGate
  <2>2. CASE o.status = "WAIT_FOR_TRIGGER"
    BY <2>2 DEF Doctrine, Backed, Own, OwnState
  <2>3. CASE o.status = "LOCKED_OUT"
    BY <2>3 DEF Doctrine, Backed, Own, OwnState
  <2>4. CASE o.status = "INSUFFICIENT_DATA"
    BY <2>4 DEF Doctrine, Backed, Own, OwnState
  <2> QED
    BY <1>3, <2>1, <2>2, <2>3, <2>4
<1> QED
  BY <1>1, <1>2, <1>4, StatusPart

\* The validators say no more and no less than the documentation, whatever the provider
\* sends (outputs.ReadinessEngineOutput, runtime.execute_prompt).
THEOREM OutputsKeepDoctrine == Spec => []DoctrineKept
<1>1. DoctrineKept
  <2> SUFFICES ASSUME NEW o \in Outputs
               PROVE  AnswerError(input, [shape |-> "payload", output |-> o]) = Null
                        <=> Doctrine(o) /\ o.contract = input.contract
    BY DEF DoctrineKept
  <2>1. o \in ReadinessEngineOutput
    BY DeskAssumption
  <2>2. Validates(o) <=> Doctrine(o)
    BY <2>1, ValidatesDoctrine
  <2>3. Null \notin {"SchemaValueError", "ContractValueError"}
    BY DeskAssumption DEF Exceptions
  <2> QED
    BY <2>2, <2>3 DEF AnswerError
<1> QED
  BY <1>1, PTL
-----------------------------------------------------------------------------
(* Who is at work, and on what. *)

\* The command has arguments and a file; past its checks, arguments that fit together.
\* A server that is reading or asking has a request and has not answered it.
Working ==
  /\ phase \in {"start", "sweep", "print", "exited"} => user = "command"
  /\ phase \in {"idle", "reading"} => user = "server"
  /\ user = "command" => args \in Args /\ file \in Files
  /\ phase \in {"sweep", "asking"} /\ user = "command" => ArgsValid(args)
  /\ phase \in {"reading", "asking"} /\ user = "server" => request \in Request /\ response = Null

\* A call that asks runs on a whole input, of the contract it was made for.
Asking ==
  phase = "asking" =>
    /\ input \in Input /\ input.fault = "none"
    /\ user = "command" => todo # <<>> /\ input.contract = Head(todo)
    /\ user = "server" => request \in Request /\ Requested # Null /\ input = Requested

IInv == TypeOK /\ Working /\ Asking /\ PassedIsSound

\* What PassedIsSound says of one result, and of one response.
SoundResult(r) ==
  r.failure = Null =>
    /\ r.output # Null /\ r.input # Null
    /\ Doctrine(r.output) /\ r.output.contract = r.contract
    /\ r.input.contract = r.contract /\ r.input.fault = "none"

SoundResponse ==
  (response # Null) => (response.status = "200" =>
    /\ response.output # Null
    /\ Doctrine(response.output)
    /\ response.output.contract \in
         {i.contract : i \in {request.packet, request.runtime_inputs} \ {Null}})

LEMMA SoundParts ==
  PassedIsSound <=> (\A i \in DOMAIN results : SoundResult(results[i])) /\ SoundResponse
BY DEF PassedIsSound, SoundResult, SoundResponse

-----------------------------------------------------------------------------
(* Sequences. *)

\* Appending keeps what was there, its type and what holds of every entry.
LEMMA AppendFacts ==
  ASSUME NEW S, NEW s \in Seq(S), NEW x \in S
  PROVE  /\ Append(s, x) \in Seq(S)
         /\ DOMAIN Append(s, x) = 1..(Len(s) + 1) /\ DOMAIN s = 1..Len(s) /\ Len(s) \in Nat
         /\ \A i \in 1..Len(s) : Append(s, x)[i] = s[i]
         /\ Append(s, x)[Len(s) + 1] = x
OBVIOUS

LEMMA TailType ==
  ASSUME NEW S, NEW s \in Seq(S), s # <<>>
  PROVE  Head(s) \in S /\ Tail(s) \in Seq(S)
OBVIOUS

\* The contracts of a run are a sequence of contracts: finitely many can be put in order.
LEMMA RunType ==
  ASSUME NEW a \in Args
  PROVE  ContractsForRun(a) \in Seq(Contracts)
<1>1. /\ Cardinality(Contracts) \in Nat
      /\ ExistsBijection(1..Cardinality(Contracts), Contracts)
  BY DeskAssumption, FS_CardinalityType
<1>2. PICK f \in [1..Cardinality(Contracts) -> Contracts] :
        \A i, j \in 1..Cardinality(Contracts) : f[i] = f[j] => i = j
  BY <1>1 DEF ExistsBijection, Bijection, Injection, IsInjective
<1>3. AllContracts \in [1..Cardinality(Contracts) -> Contracts]
  <2>1. \A i, j \in DOMAIN f : f[i] = f[j] => i = j
    BY <1>2
  <2> QED BY <1>2, <2>1 DEF AllContracts
<1>4. AllContracts \in Seq(Contracts)
  BY <1>1, <1>3
<1>5. a.target \in Contracts \cup {"all"} /\ "ZN" \in Contracts
  BY DeskAssumption DEF Args, Target
<1>6. CASE a.target # "all"
  <2>1. a.target \in Contracts
    BY <1>5, <1>6
  <2>2. <<a.target>> \in Seq(Contracts)
    BY <2>1
  <2> QED BY <1>6, <2>2 DEF ContractsForRun
<1>7. CASE a.target = "all"
  <2>1. <<"ZN">> \in Seq(Contracts)
    BY <1>5
  <2> QED BY <1>4, <1>7, <2>1 DEF ContractsForRun
<1> QED BY <1>6, <1>7
-----------------------------------------------------------------------------
(* The ways a call can end. *)

\* What an accepted answer is.
LEMMA AcceptedAnswer ==
  ASSUME NEW i \in Input, NEW a \in Answers, AnswerError(i, a) = Null
  PROVE  /\ a.output \in ReadinessEngineOutput /\ a.output # Null
         /\ Doctrine(a.output) /\ a.output.contract = i.contract
<1>1. a \in Answer /\ Null \notin Exceptions
  BY DeskAssumption
<1>2. a.shape \in {"untyped", "broken", "payload"} /\ a.output \in ReadinessEngineOutput \cup {Malformed}
  BY <1>1 DEF Answer
<1>3. Validates(a.output) /\ a.output.contract = i.contract
  BY <1>1 DEF AnswerError, Exceptions
<1>4. a.output \in ReadinessEngineOutput
  BY <1>2, <1>3 DEF Validates
<1>5. a.output # Null
  BY <1>4, DeskAssumption
<1> QED BY <1>3, <1>4, <1>5, ValidatesDoctrine

LEMMA FailureType ==
  ASSUME NEW exc \in Exceptions
  PROVE  ClassifyFailure(exc) \in FailureClasses /\ ClassifyFailure(exc) # Null
BY DeskAssumption DEF ClassifyFailure, FailureClasses

LEMMA AnswerErrorType ==
  ASSUME NEW i, NEW a
  PROVE  AnswerError(i, a) \in Exceptions \cup {Null}
BY DEF AnswerError, Exceptions

LEMMA RefusalType ==
  ASSUME NEW i, NEW t
  PROVE  Refusal(i, t) \in Exceptions \cup {Null}
BY DEF Refusal, Exceptions

LEMMA LoadErrorType ==
  ASSUME NEW a, NEW f, NEW c
  PROVE  LoadError(a, f, c) \in Exceptions \cup {Null}
<1> HIDE DEF Source
<1> QED BY DEF LoadError, Exceptions

LEMMA StatusType ==
  ASSUME NEW exc
  PROVE  StatusOf(exc) \in Status \ {"200"}
BY DEF StatusOf, Status

\* A result is recorded: types stay, and the results stay sound if the new one is.
LEMMA RecordedKeeps ==
  ASSUME IInv, NEW exc \in Exceptions \cup {Null}, NEW i \in Input \cup {Null},
         NEW n \in 0..TotalAttempts, NEW got \in Received,
         NEW o \in ReadinessEngineOutput \cup {Null},
         phase \in {"sweep", "asking"}, user = "command", todo # <<>>,
         exc = Null => /\ i # Null /\ o # Null /\ Doctrine(o)
                       /\ o.contract = Head(todo) /\ i.contract = Head(todo)
                       /\ i.fault = "none",
         Recorded(Head(todo), exc, i, n, got, o), UNCHANGED <<user, call>>
  PROVE  IInv'
<1> DEFINE class == IF exc = Null THEN Null ELSE ClassifyFailure(exc)
           entry == [contract |-> Head(todo), failure |-> class, asked |-> n,
                     received |-> got, input |-> i, output |-> o]
<1>1. Head(todo) \in Contracts /\ Tail(todo) \in Seq(Contracts)
  BY TailType DEF IInv, TypeOK
<1>2. class \in FailureClasses \cup {Null} /\ (class = Null <=> exc = Null)
  BY FailureType
<1>3. entry \in Result
  <2> HIDE DEF class
  <2> QED BY <1>1, <1>2 DEF Result
<1>4. results' = Append(results, entry) /\ todo' = Tail(todo) /\ phase' = "sweep"
  BY DEF Recorded
<1>5. SoundResult(entry)
  <2> HIDE DEF class
  <2> QED BY <1>2 DEF SoundResult
<1>6. UNCHANGED <<user, file, args, artifact, exit, request, response, input, trigger, asked>>
  BY DEF Recorded, server, call
<1> HIDE DEF entry
<1>7. results \in Seq(Result)
  BY DEF IInv, TypeOK
<1>8. /\ results' \in Seq(Result)
      /\ \A j \in DOMAIN results' : SoundResult(results'[j])
  <2>1. \A j \in DOMAIN results : SoundResult(results[j])
    BY SoundParts DEF IInv
  <2> QED BY <1>3, <1>4, <1>5, <1>7, <2>1, AppendFacts
<1>9. TypeOK'
  BY <1>1, <1>4, <1>6, <1>8 DEF IInv, TypeOK
<1>10. Working' /\ Asking'
  BY <1>4, <1>6 DEF IInv, Working, Asking
<1>11. PassedIsSound'
  <2>1. SoundResponse'
    BY <1>6, SoundParts DEF IInv, SoundResponse
  <2>2. (\A j \in DOMAIN results : SoundResult(results[j]))'
    BY <1>8 DEF SoundResult
  <2> QED BY <2>1, <2>2 DEF PassedIsSound, SoundResult, SoundResponse
<1> QED BY <1>9, <1>10, <1>11 DEF IInv

\* A response is given: it is sound if an output of the request's contract is its ground.
LEMMA RespondedKeeps ==
  ASSUME IInv, NEW status \in Status, NEW n \in 0..TotalAttempts, NEW got \in Received,
         NEW o \in ReadinessEngineOutput \cup {Null},
         user = "server",
         status = "200" => /\ o # Null /\ Doctrine(o) /\ Requested # Null
                           /\ o.contract = Requested.contract,
         Responded(status, n, got, o), UNCHANGED <<user, call>>
  PROVE  IInv'
<1>1. response' = [status |-> status, asked |-> n, received |-> got, output |-> o] /\ phase' = "idle"
  BY DEF Responded
<1>2. UNCHANGED <<user, file, args, todo, results, artifact, exit, request, input, trigger, asked>>
  BY DEF Responded, desk, call
<1>3. response' \in Response
  BY <1>1 DEF Response
<1>4. TypeOK'
  BY <1>1, <1>2, <1>3 DEF IInv, TypeOK
<1>5. Working' /\ Asking'
  BY <1>1, <1>2 DEF IInv, Working, Asking
<1>6. (\A j \in DOMAIN results : SoundResult(results[j]))'
  BY <1>2, SoundParts DEF IInv, SoundResult
<1>7. SoundResponse'
  <2>1. response'.status = status /\ response'.output = o
    BY <1>1
  <2>2. ASSUME status = "200"
        PROVE o.contract \in {i.contract : i \in {request.packet, request.runtime_inputs} \ {Null}}
    <3>1. Requested \in {request.packet, request.runtime_inputs} \ {Null}
      BY <2>2 DEF Requested
    <3> QED BY <2>2, <3>1
  <2> QED BY <1>2, <2>1, <2>2 DEF SoundResponse
<1>8. PassedIsSound'
  BY <1>6, <1>7 DEF PassedIsSound, SoundResult, SoundResponse
<1> QED BY <1>4, <1>5, <1>8 DEF IInv

\* A call that asked ends, in an exception or in an answer that was accepted.
LEMMA EndsKeeps ==
  ASSUME IInv, phase = "asking", NEW exc \in Exceptions \cup {Null},
         NEW got \in Received, NEW o \in ReadinessEngineOutput \cup {Null},
         exc = Null => o # Null /\ Doctrine(o) /\ o.contract = input.contract,
         Ends(exc, got, o), UNCHANGED <<user, call>>
  PROVE  IInv'
<1>1. asked + 1 \in 0..TotalAttempts
  BY DeskAssumption DEF IInv, TypeOK
<1>2. input \in Input /\ input.fault = "none" /\ user \in {"command", "server"}
  BY DEF IInv, Asking, TypeOK
<1>3. CASE user = "command"
  <2>1. todo # <<>> /\ input.contract = Head(todo)
    BY <1>3 DEF IInv, Asking
  <2>2. Recorded(Head(todo), exc, input, asked + 1, got, o)
    BY <1>3 DEF Ends
  <2>3. input # Null
    BY <1>2, DeskAssumption
  <2> QED BY <1>1, <1>2, <1>3, <2>1, <2>2, <2>3, RecordedKeeps
<1>4. CASE user = "server"
  <2> DEFINE status == IF exc = Null THEN "200" ELSE StatusOf(exc)
  <2>1. Responded(status, asked + 1, got, o)
    BY <1>4 DEF Ends
  <2>2. status \in Status /\ (status = "200" => exc = Null)
    BY StatusType DEF Status
  <2>3. Requested # Null /\ input = Requested
    BY <1>4 DEF IInv, Asking
  <2> HIDE DEF status
  <2> QED BY <1>1, <1>4, <2>1, <2>2, <2>3, RespondedKeeps
<1> QED BY <1>2, <1>3, <1>4
-----------------------------------------------------------------------------
(* The steps that begin a call. *)

LEMMA CallKeeps ==
  ASSUME IInv, NEW i \in Input, NEW t \in TriggerPayload, Call(i, t), UNCHANGED user,
         user = "command" => ArgsValid(args) /\ todo # <<>> /\ i.contract = Head(todo),
         user = "server" =>
           request \in Request /\ response = Null /\ Requested # Null /\ i = Requested
  PROVE  IInv'
<1>1. phase' = "asking" /\ input' = i /\ trigger' = t /\ asked' = 0
  BY DEF Call
<1>2. UNCHANGED <<user, file, args, todo, results, artifact, exit, request, response>>
  BY DEF Call, desk, server
<1>3. i.fault = "none"
  <2>1. i.fault \in {"none", "packet", "slots"}
    BY DEF Input
  <2>2. Refusal(i, t) = Null /\ Null \notin Exceptions
    BY DeskAssumption DEF Call
  <2> QED BY <2>1, <2>2 DEF Refusal, Exceptions
<1>4. TypeOK'
  BY <1>1, <1>2, DeskAssumption DEF IInv, TypeOK
<1>5. Requested' = Requested
  BY <1>2 DEF Requested
<1>6. Working' /\ Asking'
  BY <1>1, <1>2, <1>3, <1>5 DEF IInv, Working, Asking
<1>7. PassedIsSound'
  BY <1>2 DEF IInv, PassedIsSound
<1> QED BY <1>4, <1>6, <1>7 DEF IInv

\* What a file gives for a contract is an input, or nothing.
LEMMA SourceType ==
  ASSUME NEW a \in Args, NEW f \in Files, NEW c \in Contracts
  PROVE  Source(a, f, c) \in Input \cup {Null}
<1>1. /\ f.one \in Input \cup {Null}
      /\ \A d \in Contracts : f.parts[d] \in Input \cup {Null}
  <2>1. f \in File
    BY DeskAssumption
  <2> QED BY <2>1 DEF File
<1>2. a.packet_contract \in Contracts \cup {Null}
  BY DEF Args
<1>3. FixtureFile \in Input
  BY DeskAssumption DEF FixtureFile, Input
<1> QED BY <1>1, <1>2, <1>3 DEF Source

LEMMA LoadSteps ==
  ASSUME IInv, Load
  PROVE  IInv'
<1> DEFINE i == Source(args, file, Head(todo))
           t == TriggerOf(args)
<1>1. user = "command" /\ args \in Args /\ file \in Files /\ ArgsValid(args)
  BY DEF IInv, Working, Load
<1>2. todo # <<>> /\ LoadError(args, file, Head(todo)) = Null /\ Null \notin Exceptions
  BY DeskAssumption DEF Load
<1>3. Head(todo) \in Contracts
  BY <1>2, TailType DEF IInv, TypeOK
<1>4. i \in Input
  BY <1>1, <1>2, <1>3, SourceType DEF LoadError, Exceptions
<1>5. i.contract = Head(todo)
  BY <1>2 DEF LoadError, Exceptions
<1>6. t \in TriggerPayload
  <2>1. CASE args.mode = "fixture"
    BY <2>1 DEF TriggerOf, FixtureTrigger, TriggerPayload, ReadinessTriggerFamily
  <2>2. CASE args.mode # "fixture"
    <3>1. args.trigger \in Triggers \cup {Unreadable, Null}
      BY <1>1 DEF Args
    <3>2. args.trigger # Null
      BY <1>1, <2>2 DEF ArgsValid
    <3>3. args.trigger # Unreadable
      BY <1>2 DEF LoadError, Exceptions
    <3> QED BY <2>2, <3>1, <3>2, <3>3, DeskAssumption DEF TriggerOf
  <2> QED BY <2>1, <2>2
<1>7. Call(i, t) /\ UNCHANGED user
  BY DEF Load
<1> HIDE DEF i, t
<1> QED BY <1>1, <1>2, <1>4, <1>5, <1>6, <1>7, CallKeeps

LEMMA LoadFailsSteps ==
  ASSUME IInv, LoadFails
  PROVE  IInv'
<1> DEFINE error == LoadError(args, file, Head(todo))
           refusal == Refusal(Source(args, file, Head(todo)), TriggerOf(args))
<1>1. user = "command" /\ phase = "sweep" /\ todo # <<>> /\ UNCHANGED <<user, call>>
  BY DEF IInv, Working, LoadFails
<1>2. PICK exc \in {error, refusal} : exc # Null /\ Recorded(Head(todo), exc, Null, 0, "nothing", Null)
  BY DEF LoadFails
<1>3. exc \in Exceptions
  BY <1>2, LoadErrorType, RefusalType
<1>4. 0 \in 0..TotalAttempts /\ "nothing" \in Received
  BY DeskAssumption DEF Received
<1> QED BY <1>1, <1>2, <1>3, <1>4, RecordedKeeps

-----------------------------------------------------------------------------
(* The server's own steps. *)

\* The request's own checks: what passes them asks for something.
LEMMA RequestedType ==
  ASSUME NEW r \in Request, request = r, RequestError = Null
  PROVE  /\ Requested \in Input /\ Requested # Null
         /\ r.trigger \in TriggerPayload
<1>1. /\ r.packet \in Input \cup {Null} /\ r.runtime_inputs \in Input \cup {Null}
      /\ r.trigger \in Triggers \cup {Null}
  BY DEF Request
<1>2. (r.packet = Null) # (r.runtime_inputs = Null) /\ r.trigger # Null
  BY DeskAssumption DEF RequestError, Exceptions
<1>3. Requested \in Input
  BY <1>1, <1>2 DEF Requested
<1> QED BY <1>1, <1>2, <1>3, DeskAssumption

LEMMA ServeSteps ==
  ASSUME IInv, Serve
  PROVE  IInv'
<1>1. phase = "reading" /\ RequestError = Null /\ Call(Requested, request.trigger) /\ UNCHANGED user
  BY DEF Serve
<1>2. user = "server" /\ request \in Request /\ response = Null
  BY <1>1 DEF IInv, Working
<1>3. Requested \in Input /\ Requested # Null /\ request.trigger \in TriggerPayload
  BY <1>1, <1>2, RequestedType
<1> QED BY <1>1, <1>2, <1>3, CallKeeps

LEMMA RefuseSteps ==
  ASSUME IInv, Refuse \/ NotConfigured
  PROVE  IInv'
<1>1. phase = "reading" /\ UNCHANGED <<user, call>>
  BY DEF Refuse, NotConfigured
<1>2. PICK exc : Responded(StatusOf(exc), 0, "nothing", Null)
  BY DEF Refuse, NotConfigured
<1>3. StatusOf(exc) \in Status /\ StatusOf(exc) # "200"
  BY StatusType DEF Status
<1>4. user = "server" /\ 0 \in 0..TotalAttempts /\ "nothing" \in Received
  BY <1>1, DeskAssumption DEF IInv, Working, Received
<1> QED BY <1>1, <1>2, <1>3, <1>4, RespondedKeeps

\* A request of which the rest does not come is still a request.
LEMMA HungUpType ==
  ASSUME NEW r \in Request
  PROVE  [r EXCEPT !.body = "not_json"] \in Request
BY DEF Request

LEMMA AcceptSteps ==
  ASSUME IInv, Accept \/ HangUp
  PROVE  IInv'
<1>1. phase \in {"idle", "reading"} /\ user = "server"
  BY DEF IInv, Working, Accept, HangUp
<1>2. request' \in Request /\ response' = Null /\ phase' = "reading"
  BY HungUpType DEF IInv, Working, Accept, HangUp
<1>3. UNCHANGED <<user, file, args, todo, results, artifact, exit, input, trigger, asked>>
  BY DEF Accept, HangUp, desk, call
<1>4. TypeOK'
  BY <1>2, <1>3 DEF IInv, TypeOK
<1>5. Working' /\ Asking'
  BY <1>1, <1>2, <1>3 DEF IInv, Working, Asking
<1>6. PassedIsSound'
  BY <1>2, <1>3 DEF IInv, PassedIsSound
<1> QED BY <1>4, <1>5, <1>6 DEF IInv
-----------------------------------------------------------------------------
(* The invariant. *)

LEMMA InitInv == Init => IInv
<1> SUFFICES ASSUME Init PROVE IInv
  OBVIOUS
<1> USE DEF Init
<1>1. TypeOK
  <2>1. asked \in 0..(TotalAttempts - 1)
    BY DeskAssumption
  <2>2. artifact \in [state : {"older", "torn", "whole"}, results : Seq(Result)]
    OBVIOUS
  <2> QED BY <2>1, <2>2 DEF TypeOK
<1>2. Working /\ Asking
  BY DEF Working, Asking
<1>3. PassedIsSound
  BY DEF PassedIsSound
<1> QED BY <1>1, <1>2, <1>3 DEF IInv

LEMMA NextKeeps ==
  ASSUME IInv, [Next]_vars
  PROVE  IInv'
<1>1. CASE UNCHANGED vars
  <2>1. UNCHANGED <<user, phase, file, args, todo, results, artifact, exit, request, response,
                    input, trigger, asked>>
    BY <1>1 DEF vars, desk, server, call
  <2>2. Requested' = Requested
    BY <2>1 DEF Requested
  <2> QED BY <2>1, <2>2 DEF IInv, TypeOK, Working, Asking, PassedIsSound
<1>2. CASE Retry
  <2>1. /\ phase = "asking" /\ asked + 1 < TotalAttempts /\ asked' = asked + 1
        /\ UNCHANGED <<user, phase, file, args, todo, results, artifact, exit, request, response,
                       input, trigger>>
    BY <1>2 DEF Retry, desk, server
  <2>2. asked' \in 0..(TotalAttempts - 1)
    BY <2>1, DeskAssumption DEF IInv, TypeOK
  <2>3. Requested' = Requested
    BY <2>1 DEF Requested
  <2>4. TypeOK'
    BY <2>1, <2>2 DEF IInv, TypeOK
  <2> QED BY <2>1, <2>3, <2>4 DEF IInv, Working, Asking, PassedIsSound
<1>3. CASE ProviderFails
  <2>1. "GeminiAdapterError" \in Exceptions /\ "GeminiAdapterError" # Null /\ "nothing" \in Received
    BY DeskAssumption DEF Exceptions, Received
  <2> QED BY <1>3, <2>1, EndsKeeps DEF ProviderFails
<1>4. CASE Answered
  <2>1. PICK a \in Answers :
          LET exc == AnswerError(input, a)
          IN Ends(exc, a.shape, IF exc = Null THEN a.output ELSE Null)
    BY <1>4 DEF Answered
  <2> DEFINE exc == AnswerError(input, a)
             o == IF exc = Null THEN a.output ELSE Null
  <2>2. phase = "asking" /\ UNCHANGED <<user, call>> /\ Ends(exc, a.shape, o)
    BY <1>4, <2>1 DEF Answered
  <2>3. exc \in Exceptions \cup {Null}
    BY AnswerErrorType
  <2>4. input \in Input
    BY <2>2 DEF IInv, Asking
  <2>5. /\ o \in ReadinessEngineOutput \cup {Null}
        /\ exc = Null => o # Null /\ Doctrine(o) /\ o.contract = input.contract
    BY <2>4, AcceptedAnswer
  <2>6. a.shape \in Received
    BY DeskAssumption DEF Answer, Received
  <2> HIDE DEF exc, o
  <2> QED BY <2>2, <2>3, <2>5, <2>6, EndsKeeps
<1>5. CASE Load
  BY <1>5, LoadSteps
<1>6. CASE LoadFails
  BY <1>6, LoadFailsSteps
<1>7. CASE Refuse \/ NotConfigured
  BY <1>7, RefuseSteps
<1>8. CASE Serve
  BY <1>8, ServeSteps
<1>9. CASE Accept \/ HangUp
  BY <1>9, AcceptSteps
<1>10. CASE RefuseArgs \/ Configure
  <2>1. phase = "start" /\ user = "command" /\ args \in Args
    BY <1>10 DEF IInv, Working, RefuseArgs, Configure
  <2>2. UNCHANGED <<user, file, args, results, artifact, request, response, input, trigger, asked>>
    BY <1>10 DEF RefuseArgs, Configure, server, call
  <2>3. /\ phase' \in {"sweep", "exited"} /\ exit' \in {exit, 2}
        /\ todo' \in {todo, ContractsForRun(args)}
        /\ phase' = "sweep" => ArgsValid(args)
    BY <1>10 DEF RefuseArgs, Configure
  <2>4. todo' \in Seq(Contracts)
    BY <2>1, <2>3, RunType DEF IInv, TypeOK
  <2>5. TypeOK'
    BY <2>2, <2>3, <2>4 DEF IInv, TypeOK
  <2> QED BY <2>1, <2>2, <2>3, <2>5 DEF IInv, Working, Asking, PassedIsSound
<1>11. CASE WriteArtifact \/ PrintArtifact
  <2>1. phase \in {"sweep", "print"} /\ user = "command"
    BY <1>11 DEF IInv, Working, WriteArtifact, PrintArtifact
  <2>2. UNCHANGED <<user, file, args, todo, results, request, response, input, trigger, asked>>
    BY <1>11 DEF WriteArtifact, PrintArtifact, server, call
  <2>3. phase' \in {"print", "exited"} /\ exit' \in {exit, 0, 1, 2}
    BY <1>11 DEF WriteArtifact, PrintArtifact, ExitCode
  <2>4. artifact' \in [state : {"older", "torn", "whole"}, results : Seq(Result)]
    <3>1. results \in Seq(Result) /\ <<>> \in Seq(Result)
      BY DEF IInv, TypeOK
    <3> QED BY <1>11, <3>1 DEF IInv, TypeOK, WriteArtifact, PrintArtifact
  <2>5. TypeOK'
    BY <2>2, <2>3, <2>4 DEF IInv, TypeOK
  <2> QED BY <2>1, <2>2, <2>3, <2>5 DEF IInv, Working, Asking, PassedIsSound
<1>12. CASE Recompile
  <2>1. /\ user = "command" /\ phase \in {"sweep", "asking"} /\ file' \in Files
        /\ UNCHANGED <<user, phase, args, todo, results, artifact, exit, request, response,
                       input, trigger, asked>>
    BY <1>12 DEF Recompile, server, call
  <2>2. TypeOK'
    BY <2>1 DEF IInv, TypeOK
  <2> QED BY <2>1, <2>2 DEF IInv, Working, Asking, PassedIsSound
<1> QED BY <1>1, <1>2, <1>3, <1>4, <1>5, <1>6, <1>7, <1>8, <1>9, <1>10, <1>11, <1>12
        DEF Next, Program

\* Every variable of the two programs has its type, and no call asks more often than the
\* budget of the SDK allows (gemini_adapter.GeminiResponsesAdapter).
THEOREM TypeCorrect == Spec => []TypeOK
<1>1. IInv => TypeOK
  BY DEF IInv
<1> QED BY InitInv, NextKeeps, <1>1, PTL DEF Spec

\* Whatever the provider sends, and whatever becomes of the packet file between two
\* contracts, a contract passes and a request is answered 200 only on a readiness output
\* of that contract that keeps the documentation's rules, made from a packet of that
\* contract that validated (readiness_verify.run_cli, readiness_web.py).
THEOREM PassedSound == Spec => []PassedIsSound
<1>1. IInv => PassedIsSound
  BY DEF IInv
<1> QED BY InitInv, NextKeeps, <1>1, PTL DEF Spec

-----------------------------------------------------------------------------
(* What is recorded. *)

\* A result that is recorded is the last one, and the others are as they were.
LEMMA RecordedLast ==
  ASSUME TypeOK, NEW exc \in Exceptions \cup {Null}, NEW i \in Input \cup {Null},
         NEW n \in 0..TotalAttempts, NEW got \in Received,
         NEW o \in ReadinessEngineOutput \cup {Null},
         todo # <<>>, Recorded(Head(todo), exc, i, n, got, o)
  PROVE  /\ Len(results) \in Nat /\ Len(results') = Len(results) + 1
         /\ DOMAIN results = 1..Len(results) /\ DOMAIN results' = 1..(Len(results) + 1)
         /\ \A j \in 1..Len(results) : results'[j] = results[j]
         /\ results'[Len(results) + 1].contract = Head(todo)
         /\ results'[Len(results) + 1].asked = n
         /\ results'[Len(results) + 1].received = got
         /\ results'[Len(results) + 1].failure =
              IF exc = Null THEN Null ELSE ClassifyFailure(exc)
<1> DEFINE class == IF exc = Null THEN Null ELSE ClassifyFailure(exc)
           entry == [contract |-> Head(todo), failure |-> class, asked |-> n,
                     received |-> got, input |-> i, output |-> o]
<1>1. Head(todo) \in Contracts
  BY TailType DEF TypeOK
<1>2. class \in FailureClasses \cup {Null}
  BY FailureType
<1>3. entry \in Result
  <2> HIDE DEF class
  <2> QED BY <1>1, <1>2 DEF Result
<1>4. results' = Append(results, entry)
  BY DEF Recorded
<1>5. /\ entry.contract = Head(todo) /\ entry.asked = n /\ entry.received = got
      /\ entry.failure = class
  OBVIOUS
<1>6. results \in Seq(Result) /\ results' \in Seq(Result)
  <2> HIDE DEF entry
  <2>1. results \in Seq(Result)
    BY DEF TypeOK
  <2> QED BY <1>3, <1>4, <2>1, AppendFacts
<1> HIDE DEF entry
<1>7. /\ DOMAIN results' = 1..(Len(results) + 1) /\ DOMAIN results = 1..Len(results)
      /\ Len(results) \in Nat
      /\ \A j \in 1..Len(results) : results'[j] = results[j]
      /\ results'[Len(results) + 1] = entry
  BY <1>3, <1>4, <1>6, AppendFacts
<1>8. Len(results') = Len(results) + 1
  BY <1>6, <1>7
<1> QED BY <1>5, <1>7, <1>8

\* What an exception says of what came: the provider is blamed for nothing or for an
\* envelope that cannot be read, and a payload that came is refused for what it says.
Explains(exc, got) ==
  /\ exc = "GeminiAdapterError" <=> got \in {"nothing", "broken"}
  /\ got = "payload" => exc \in {Null, "SchemaValueError", "ContractValueError"}
  /\ exc = Null => got = "payload"
  /\ exc # "ReadinessVerificationError"

\* Every call that ends has asked, and ends in an exception that explains what came.
LEMMA EndsOfACall ==
  ASSUME IInv, ProviderFails \/ Answered
  PROVE  /\ phase = "asking" /\ UNCHANGED <<user, call>>
         /\ \E exc \in Exceptions \cup {Null}, got \in Received,
               o \in ReadinessEngineOutput \cup {Null} :
              Ends(exc, got, o) /\ Explains(exc, got)
<1>0. Null \notin Exceptions
  BY DeskAssumption
<1>1. CASE ProviderFails
  <2>1. "GeminiAdapterError" \in Exceptions /\ "nothing" \in Received
    BY DEF Exceptions, Received
  <2>2. Explains("GeminiAdapterError", "nothing")
    BY <1>0 DEF Explains, Exceptions
  <2>3. Ends("GeminiAdapterError", "nothing", Null)
    BY <1>1 DEF ProviderFails
  <2> QED BY <1>1, <2>1, <2>2, <2>3 DEF ProviderFails
<1>2. CASE Answered
  <2>1. PICK a \in Answers :
          LET exc == AnswerError(input, a)
          IN Ends(exc, a.shape, IF exc = Null THEN a.output ELSE Null)
    BY <1>2 DEF Answered
  <2> DEFINE exc == AnswerError(input, a)
             o == IF exc = Null THEN a.output ELSE Null
  <2>2. phase = "asking" /\ UNCHANGED <<user, call>> /\ Ends(exc, a.shape, o)
    BY <1>2, <2>1 DEF Answered
  <2>3. exc \in Exceptions \cup {Null}
    BY AnswerErrorType
  <2>4. o \in ReadinessEngineOutput \cup {Null}
    BY <2>2, AcceptedAnswer DEF IInv, Asking
  <2>5. a.shape \in {"untyped", "broken", "payload"}
    BY DeskAssumption DEF Answer
  <2>6. Explains(exc, a.shape)
    BY <1>0, <2>5 DEF Explains, AnswerError, Exceptions
  <2>7. a.shape \in Received
    BY <2>5 DEF Received
  <2> HIDE DEF exc, o
  <2> QED BY <2>2, <2>3, <2>4, <2>6, <2>7
<1> QED BY <1>1, <1>2

-----------------------------------------------------------------------------
(* Blame. *)

\* What BlameIsRight says of one result.
FairResult(r) ==
  /\ r.failure = "provider_error" <=> ProviderFailed(r)
  /\ r.received = "payload" =>
       r.failure \in {Null, "schema_validation_error", "contract_mismatch_error"}
  /\ r.failure = Null => r.received = "payload"
  /\ r.failure = "input_error" => r.asked = 0

LEMMA FairParts ==
  BlameIsRight <=> \A i \in DOMAIN results : FairResult(results[i])
BY DEF BlameIsRight, FairResult

\* The two classes that say who was asked are of one exception each, and the exceptions a
\* payload is refused with have the classes for it.
LEMMA ClassesOfBlame ==
  ASSUME NEW exc \in Exceptions
  PROVE  /\ ClassifyFailure(exc) = "provider_error" <=> exc = "GeminiAdapterError"
         /\ ClassifyFailure(exc) = "input_error" => exc = "ReadinessVerificationError"
         /\ exc \in {"SchemaValueError", "ContractValueError"} =>
              ClassifyFailure(exc) \in {"schema_validation_error", "contract_mismatch_error"}
         /\ ClassifyFailure(exc) # Null
BY FailureType DEF ClassifyFailure

\* Before it asks, a call ends in nothing of the provider's.
LEMMA NothingAsked ==
  ASSUME NEW a, NEW f, NEW c, NEW i, NEW u
  PROVE  /\ LoadError(a, f, c) # "GeminiAdapterError"
         /\ Refusal(i, u) # "GeminiAdapterError"
<1>1. Null # "GeminiAdapterError"
  BY DeskAssumption DEF Exceptions
<1> HIDE DEF Source
<1> QED BY <1>1 DEF LoadError, Refusal

LEMMA RecordedBlames ==
  ASSUME TypeOK, BlameIsRight, NEW exc \in Exceptions \cup {Null}, NEW i \in Input \cup {Null},
         NEW n \in 0..TotalAttempts, NEW got \in Received,
         NEW o \in ReadinessEngineOutput \cup {Null},
         todo # <<>>, Recorded(Head(todo), exc, i, n, got, o),
         n = 0 => exc \notin {Null, "GeminiAdapterError"} /\ got = "nothing",
         n # 0 => Explains(exc, got)
  PROVE  BlameIsRight'
<1> DEFINE class == IF exc = Null THEN Null ELSE ClassifyFailure(exc)
           last == results'[Len(results) + 1]
<1>1. n \in Nat /\ Null \notin FailureClasses /\ Null \notin Exceptions
  BY DeskAssumption
<1>2. /\ class = "provider_error" <=> exc = "GeminiAdapterError"
      /\ class = "input_error" => exc = "ReadinessVerificationError"
      /\ exc \in {Null, "SchemaValueError", "ContractValueError"} =>
           class \in {Null, "schema_validation_error", "contract_mismatch_error"}
      /\ class = Null <=> exc = Null
  BY <1>1, ClassesOfBlame DEF FailureClasses, Exceptions
<1> HIDE DEF class
<1>3. FairResult(last)
  <2>1. last.failure = class /\ last.asked = n /\ last.received = got
    BY RecordedLast DEF class
  <2> HIDE DEF last
  <2>2. CASE n = 0
    BY <1>1, <1>2, <2>1, <2>2 DEF FairResult, ProviderFailed
  <2>3. CASE n # 0
    <3>1. n > 0 /\ Explains(exc, got)
      BY <1>1, <2>3
    <3> QED BY <1>2, <2>1, <2>3, <3>1 DEF FairResult, ProviderFailed, Explains
  <2> QED BY <2>2, <2>3
<1>4. \A j \in 1..Len(results) : FairResult(results'[j])
  <2>1. \A j \in DOMAIN results : FairResult(results[j])
    BY FairParts
  <2>2. /\ DOMAIN results = 1..Len(results)
        /\ \A j \in 1..Len(results) : results'[j] = results[j]
    BY RecordedLast
  <2>3. ASSUME NEW j \in 1..Len(results) PROVE FairResult(results'[j])
    <3>1. results'[j] = results[j] /\ FairResult(results[j])
      BY <2>1, <2>2
    <3> QED BY <3>1
  <2> QED BY <2>3
<1>5. \A j \in DOMAIN results' : FairResult(results'[j])
  <2>1. DOMAIN results' = 1..(Len(results) + 1) /\ Len(results) \in Nat
    BY RecordedLast
  <2>2. \A j \in 1..(Len(results) + 1) : j \in 1..Len(results) \/ j = Len(results) + 1
    BY <2>1
  <2> QED BY <1>3, <1>4, <2>1, <2>2 DEF last
<1> QED BY <1>5 DEF BlameIsRight, FairResult

LEMMA BlameKept ==
  ASSUME IInv, BlameIsRight, [Next]_vars
  PROVE  BlameIsRight'
<1>0. TypeOK /\ asked \in 0..(TotalAttempts - 1) /\ TotalAttempts \in Nat
  BY DeskAssumption DEF IInv, TypeOK
<1>1. CASE ProviderFails \/ Answered
  <2>1. PICK exc \in Exceptions \cup {Null}, got \in Received,
             o \in ReadinessEngineOutput \cup {Null} :
          Ends(exc, got, o) /\ Explains(exc, got)
    BY <1>1, EndsOfACall
  <2>2. phase = "asking" /\ input \in Input /\ user \in {"command", "server"}
    BY <1>0, <1>1, EndsOfACall DEF IInv, Asking, TypeOK
  <2>3. asked + 1 \in 0..TotalAttempts /\ asked + 1 # 0
    BY <1>0
  <2>4. CASE user = "command"
    <3>1. todo # <<>> /\ Recorded(Head(todo), exc, input, asked + 1, got, o)
      BY <2>1, <2>2, <2>4 DEF Ends, IInv, Asking
    <3> QED BY <1>0, <2>1, <2>2, <2>3, <3>1, RecordedBlames
  <2>5. CASE user = "server"
    <3>1. results' = results
      BY <2>1, <2>5 DEF Ends, Responded, desk
    <3> QED BY <3>1 DEF BlameIsRight
  <2> QED BY <2>2, <2>4, <2>5
<1>2. CASE LoadFails
  <2> DEFINE error == LoadError(args, file, Head(todo))
             refusal == Refusal(Source(args, file, Head(todo)), TriggerOf(args))
  <2>1. PICK exc \in {error, refusal} : exc # Null /\ Recorded(Head(todo), exc, Null, 0, "nothing", Null)
    BY <1>2 DEF LoadFails
  <2>2. exc \in Exceptions /\ exc # "GeminiAdapterError"
    BY <2>1, LoadErrorType, RefusalType, NothingAsked
  <2>3. todo # <<>> /\ 0 \in 0..TotalAttempts /\ "nothing" \in Received
    BY <1>0, <1>2 DEF LoadFails, Received
  <2> QED BY <1>0, <2>1, <2>2, <2>3, RecordedBlames
<1>3. CASE \/ Retry \/ Load \/ Serve \/ Refuse \/ NotConfigured \/ RefuseArgs \/ Configure
           \/ WriteArtifact \/ PrintArtifact \/ Recompile \/ Accept \/ HangUp \/ UNCHANGED vars
  <2>1. results' = results
    BY <1>3 DEF Retry, Load, Serve, Refuse, NotConfigured, Responded, Call, RefuseArgs, Configure,
                WriteArtifact, PrintArtifact, Recompile, Accept, HangUp, vars, desk
  <2> QED BY <2>1 DEF BlameIsRight
<1> QED BY <1>1, <1>2, <1>3 DEF Next, Program

\* The command blames the provider exactly for the calls that reached it and got nothing,
\* or no envelope that can be read, whatever the provider answers to whichever contract;
\* what it blames on the input never reached it (readiness_verify._classify_failure).
THEOREM BlameFits == Spec => []BlameIsRight
<1>1. Init => BlameIsRight
  BY DEF Init, BlameIsRight
<1> QED BY <1>1, InitInv, NextKeeps, BlameKept, PTL DEF Spec

-----------------------------------------------------------------------------
(* The sweep and its exit code. *)

\* The results are those of the first contracts of the run, in order.
InOrder ==
  /\ Len(results) <= Len(ContractsForRun(args))
  /\ \A j \in 1..Len(results) : results[j].contract = ContractsForRun(args)[j]

\* The contracts still to come are the others.
Ahead ==
  /\ Len(todo) = Len(ContractsForRun(args)) - Len(results)
  /\ \A j \in 1..Len(todo) : todo[j] = ContractsForRun(args)[Len(results) + j]

Whole ==
  /\ artifact = [state |-> "whole", results |-> results]
  /\ Len(results) = Len(ContractsForRun(args))

Swept ==
  /\ phase = "start" => results = <<>>
  /\ phase \in {"sweep", "asking"} /\ user = "command" => InOrder /\ Ahead
  /\ phase = "print" => InOrder /\ Whole
  /\ exit \in {0, 1} =>
       /\ phase = "exited" /\ InOrder /\ Whole
       /\ (exit = 0 <=> \A i \in DOMAIN results : results[i].failure = Null)

\* The sequences of the sweep and their lengths.
LEMMA SweptTypes ==
  ASSUME TypeOK, user = "command", args \in Args
  PROVE  /\ results \in Seq(Result) /\ Len(results) \in Nat /\ DOMAIN results = 1..Len(results)
         /\ todo \in Seq(Contracts) /\ Len(todo) \in Nat
         /\ ContractsForRun(args) \in Seq(Contracts) /\ Len(ContractsForRun(args)) \in Nat
         /\ DOMAIN ContractsForRun(args) = 1..Len(ContractsForRun(args))
<1>1. /\ results \in Seq(Result) /\ todo \in Seq(Contracts)
      /\ ContractsForRun(args) \in Seq(Contracts)
  BY RunType DEF TypeOK
<1> QED BY <1>1

\* A result recorded for the head of what is to come keeps the order.
LEMMA RecordedInOrder ==
  ASSUME TypeOK, args \in Args, user = "command", InOrder, Ahead,
         NEW exc \in Exceptions \cup {Null}, NEW i \in Input \cup {Null},
         NEW n \in 0..TotalAttempts, NEW got \in Received,
         NEW o \in ReadinessEngineOutput \cup {Null},
         todo # <<>>, Recorded(Head(todo), exc, i, n, got, o)
  PROVE  InOrder' /\ Ahead'
<1> DEFINE plan == ContractsForRun(args)
<1>1. args' = args /\ todo' = Tail(todo)
  BY DEF Recorded
<1>2. plan' = plan
  BY <1>1 DEF ContractsForRun, AllContracts
<1>3. /\ Len(results) \in Nat /\ Len(todo) \in Nat /\ Len(plan) \in Nat
      /\ todo \in Seq(Contracts)
  BY SweptTypes
<1>4. /\ Len(todo) = Len(plan) - Len(results) /\ Len(results) <= Len(plan)
      /\ \A j \in 1..Len(todo) : todo[j] = plan[Len(results) + j]
      /\ \A j \in 1..Len(results) : results[j].contract = plan[j]
  BY DEF InOrder, Ahead
<1>5. /\ Len(todo) > 0 /\ Head(todo) = todo[1]
      /\ Len(Tail(todo)) = Len(todo) - 1
      /\ \A j \in 1..(Len(todo) - 1) : Tail(todo)[j] = todo[j + 1]
  BY <1>3
<1>6. /\ Len(results') = Len(results) + 1
      /\ results'[Len(results) + 1].contract = Head(todo)
      /\ \A j \in 1..Len(results) : results'[j] = results[j]
  BY RecordedLast
<1> HIDE DEF plan
<1>7. Len(results') <= Len(plan) /\ Len(todo') = Len(plan) - Len(results')
  BY <1>1, <1>3, <1>4, <1>5, <1>6
<1>8. \A j \in 1..Len(results') : results'[j].contract = plan[j]
  <2>1. ASSUME NEW j \in 1..(Len(results) + 1) PROVE results'[j].contract = plan[j]
    <3>1. CASE j \in 1..Len(results)
      BY <1>4, <1>6, <3>1
    <3>2. CASE j = Len(results) + 1
      BY <1>3, <1>4, <1>5, <1>6, <3>2
    <3> QED BY <1>3, <3>1, <3>2
  <2> QED BY <1>6, <2>1
<1>9. \A j \in 1..Len(todo') : todo'[j] = plan[Len(results') + j]
  <2>1. ASSUME NEW j \in 1..(Len(todo) - 1) PROVE Tail(todo)[j] = plan[Len(results) + 1 + j]
    <3>1. j + 1 \in 1..Len(todo) /\ Len(results) + (j + 1) = Len(results) + 1 + j
      BY <1>3
    <3>2. todo[j + 1] = plan[Len(results) + (j + 1)]
      BY <1>4, <3>1
    <3> QED BY <1>5, <3>1, <3>2
  <2> QED BY <1>1, <1>5, <1>6, <2>1
<1> QED BY <1>2, <1>7, <1>8, <1>9 DEF InOrder, Ahead, plan

\* Steps that leave the sweep alone keep what it has come to.
LEMMA SweepUntouched ==
  ASSUME Swept, UNCHANGED <<user, args, todo, results, artifact, exit>>,
         phase' # "start" \/ phase = "start",
         phase' \in {"sweep", "asking"} /\ user = "command" => phase \in {"sweep", "asking"},
         phase' = "print" => phase = "print",
         phase = "exited" => phase' = "exited"
  PROVE  Swept'
<1>1. ContractsForRun(args)' = ContractsForRun(args)
  BY DEF ContractsForRun, AllContracts
<1>2. /\ InOrder' = InOrder /\ Ahead' = Ahead /\ Whole' = Whole
  BY <1>1 DEF InOrder, Ahead, Whole
<1> QED BY <1>2 DEF Swept

LEMMA SweptKept ==
  ASSUME IInv, Swept, [Next]_vars
  PROVE  Swept'
<1>0. TypeOK /\ exit \in {Null, 0, 1, 2} /\ Null \notin {0, 1, 2}
  BY DeskAssumption DEF IInv, TypeOK
<1>1. CASE ProviderFails \/ Answered
  <2>1. PICK exc \in Exceptions \cup {Null}, got \in Received,
             o \in ReadinessEngineOutput \cup {Null} :
          Ends(exc, got, o)
    BY <1>1, EndsOfACall
  <2>2. phase = "asking" /\ input \in Input /\ user \in {"command", "server"} /\ user' = user
    BY <1>0, <1>1, EndsOfACall DEF IInv, Asking, TypeOK
  <2>3. asked + 1 \in 0..TotalAttempts
    BY <1>0, DeskAssumption DEF TypeOK
  <2>4. CASE user = "command"
    <3>1. /\ todo # <<>> /\ Recorded(Head(todo), exc, input, asked + 1, got, o) /\ args \in Args
      BY <2>1, <2>2, <2>4 DEF Ends, IInv, Asking, Working
    <3>2. InOrder /\ Ahead /\ exit \notin {0, 1}
      BY <2>2, <2>4 DEF Swept
    <3>3. InOrder' /\ Ahead'
      BY <1>0, <2>2, <2>3, <2>4, <3>1, <3>2, RecordedInOrder
    <3>4. phase' = "sweep" /\ exit' = exit
      BY <3>1 DEF Recorded
    <3> QED BY <3>2, <3>3, <3>4 DEF Swept
  <2>5. CASE user = "server"
    <3>1. phase' = "idle" /\ UNCHANGED <<args, todo, results, artifact, exit>>
      BY <2>1, <2>5 DEF Ends, Responded, desk
    <3> QED BY <2>2, <3>1, SweepUntouched
  <2> QED BY <2>2, <2>4, <2>5
<1>2. CASE LoadFails
  <2> DEFINE error == LoadError(args, file, Head(todo))
             refusal == Refusal(Source(args, file, Head(todo)), TriggerOf(args))
  <2>1. PICK exc \in {error, refusal} : exc # Null /\ Recorded(Head(todo), exc, Null, 0, "nothing", Null)
    BY <1>2 DEF LoadFails
  <2>2. exc \in Exceptions
    BY <2>1, LoadErrorType, RefusalType
  <2>3. /\ phase = "sweep" /\ todo # <<>> /\ user = "command" /\ args \in Args
        /\ 0 \in 0..TotalAttempts /\ user' = user /\ "nothing" \in Received
    BY <1>2, DeskAssumption DEF LoadFails, IInv, Working, Received
  <2>4. InOrder /\ Ahead /\ exit \notin {0, 1}
    BY <2>3 DEF Swept
  <2>5. InOrder' /\ Ahead'
    BY <1>0, <2>1, <2>2, <2>3, <2>4, RecordedInOrder
  <2>6. phase' = "sweep" /\ exit' = exit
    BY <2>1 DEF Recorded
  <2> QED BY <2>4, <2>5, <2>6 DEF Swept
<1>3. CASE Retry \/ Load \/ Recompile
  <2>1. /\ UNCHANGED <<user, args, todo, results, artifact, exit>>
        /\ phase \in {"sweep", "asking"} /\ phase' \in {phase, "asking"}
    BY <1>3 DEF Retry, Load, Call, Recompile, desk
  <2> QED BY <2>1, SweepUntouched
<1>4. CASE Serve \/ Refuse \/ NotConfigured \/ Accept \/ HangUp
  <2>1. phase \in {"reading", "idle"} /\ user = "server" /\ user' = user
    BY <1>4 DEF Serve, Refuse, NotConfigured, Accept, HangUp, IInv, Working
  <2>2. UNCHANGED <<args, todo, results, artifact, exit>>
    BY <1>4 DEF Serve, Call, Refuse, NotConfigured, Responded, Accept, HangUp, desk
  <2>3. phase' \in {"asking", "reading", "idle"}
    BY <1>4 DEF Serve, Call, Refuse, NotConfigured, Responded, Accept, HangUp, IInv, TypeOK
  <2> QED BY <2>1, <2>2, <2>3, SweepUntouched
<1>5. CASE UNCHANGED vars
  BY <1>5, SweepUntouched DEF vars, desk
<1>6. CASE RefuseArgs \/ Configure
  <2>1. /\ phase = "start" /\ results = <<>> /\ results' = results /\ args' = args
        /\ user = "command" /\ args \in Args
    BY <1>6 DEF RefuseArgs, Configure, Swept, IInv, Working
  <2>2. exit \notin {0, 1}
    BY <2>1 DEF Swept
  <2>3. CASE phase' = "exited" /\ exit' = 2
    BY <2>3 DEF Swept
  <2>4. CASE phase' = "sweep" /\ todo' = ContractsForRun(args) /\ exit' = exit
    <3>1. ContractsForRun(args)' = ContractsForRun(args)
      BY <2>1 DEF ContractsForRun, AllContracts
    <3>2. Len(ContractsForRun(args)) \in Nat /\ Len(results') = 0
      BY <1>0, <2>1, SweptTypes
    <3>3. InOrder' /\ Ahead'
      BY <2>4, <3>1, <3>2 DEF InOrder, Ahead
    <3> QED BY <2>2, <2>4, <3>3 DEF Swept
  <2> QED BY <1>6, <2>3, <2>4 DEF RefuseArgs, Configure
<1>7. CASE WriteArtifact
  <2>1. /\ phase = "sweep" /\ todo = <<>> /\ user = "command" /\ args \in Args
        /\ UNCHANGED <<args, results>>
    BY <1>7 DEF WriteArtifact, IInv, Working
  <2>2. InOrder /\ Ahead /\ exit \notin {0, 1}
    BY <2>1 DEF Swept
  <2>3. ContractsForRun(args)' = ContractsForRun(args)
    BY <2>1 DEF ContractsForRun, AllContracts
  <2>4. Len(results) = Len(ContractsForRun(args))
    <3>1. Len(results) \in Nat /\ Len(ContractsForRun(args)) \in Nat /\ Len(todo) = 0
      BY <1>0, <2>1, SweptTypes
    <3> QED BY <2>2, <3>1 DEF Ahead
  <2>5. InOrder'
    BY <2>1, <2>2, <2>3 DEF InOrder
  <2>6. CASE phase' = "print" /\ exit' = exit
             /\ artifact' = [state |-> "whole", results |-> results]
    BY <2>1, <2>2, <2>3, <2>4, <2>5, <2>6 DEF Swept, Whole
  <2>7. CASE phase' = "exited" /\ exit' = 2
    BY <2>7 DEF Swept
  <2> QED BY <1>7, <2>6, <2>7 DEF WriteArtifact
<1>8. CASE PrintArtifact
  <2>1. /\ phase = "print" /\ phase' = "exited" /\ exit' \in {ExitCode, 2}
        /\ UNCHANGED <<args, results, artifact>>
    BY <1>8 DEF PrintArtifact
  <2>2. InOrder /\ Whole
    BY <2>1 DEF Swept
  <2>3. ContractsForRun(args)' = ContractsForRun(args)
    BY <2>1 DEF ContractsForRun, AllContracts
  <2>4. InOrder' /\ Whole'
    BY <2>1, <2>2, <2>3 DEF InOrder, Whole
  <2>5. exit' \in {0, 1} => (exit' = 0 <=> \A i \in DOMAIN results : results[i].failure = Null)
    BY <2>1 DEF ExitCode
  <2> QED BY <2>1, <2>4, <2>5 DEF Swept
<1> QED BY <1>1, <1>2, <1>3, <1>4, <1>5, <1>6, <1>7, <1>8 DEF Next, Program

\* Exit codes 0 and 1 come with the artifact of this very run on the disk, with one
\* result for each contract in order, and tell whether all of them passed, however many
\* contracts there are and wherever a call failed (readiness_verify.run_cli).
THEOREM ExitIsTold == Spec => []ExitTellsArtifact
<1>1. Init => Swept
  BY DeskAssumption DEF Init, Swept
<1>2. ASSUME IInv, Swept PROVE ExitTellsArtifact
  <2> SUFFICES ASSUME exit \in {0, 1} PROVE ExitTellsArtifact
    BY DEF ExitTellsArtifact
  <2>1. /\ phase = "exited" /\ InOrder /\ Whole
        /\ (exit = 0 <=> \A i \in DOMAIN results : results[i].failure = Null)
    BY <1>2 DEF Swept
  <2>2. user = "command" /\ args \in Args /\ TypeOK
    BY <1>2, <2>1 DEF IInv, Working
  <2>3. artifact.state = "whole" /\ artifact.results = results
    BY <2>1 DEF Whole
  <2>4. [i \in DOMAIN results |-> results[i].contract] = ContractsForRun(args)
    <3>1. /\ DOMAIN results = 1..Len(results)
          /\ DOMAIN ContractsForRun(args) = 1..Len(ContractsForRun(args))
          /\ ContractsForRun(args) \in Seq(Contracts)
      BY <2>2, SweptTypes
    <3>2. DOMAIN results = DOMAIN ContractsForRun(args)
      BY <2>1, <3>1 DEF Whole
    <3>3. \A i \in DOMAIN results : results[i].contract = ContractsForRun(args)[i]
      BY <2>1, <3>1 DEF InOrder
    <3>4. ContractsForRun(args) = [i \in DOMAIN ContractsForRun(args) |-> ContractsForRun(args)[i]]
      BY <3>1
    <3> QED BY <3>2, <3>3, <3>4
  <2>5. (exit = 0) = (\A i \in DOMAIN artifact.results : artifact.results[i].failure = Null)
    BY <2>1, <2>3
  <2> QED BY <2>3, <2>4, <2>5 DEF ExitTellsArtifact
<1> QED BY <1>1, <1>2, InitInv, NextKeeps, SweptKept, PTL DEF Spec
=============================================================================
