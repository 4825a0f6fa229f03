---------------------------- MODULE ReadinessDesk ----------------------------
(***************************************************************************)
(* The two ways to run readiness: the verification command, which sweeps   *)
(* contracts and goes on after a failure (readiness_verify.run_cli), and   *)
(* the web server, which serves one request after another                  *)
(* (readiness_web.py).  Both call run_readiness, and end a call in their   *)
(* own way.  They share nothing but the code, so a behaviour has one of    *)
(* the two at work.                                                        *)
(***************************************************************************)
EXTENDS Readiness, Sequences

CONSTANTS
  Answers,       \* what the provider may answer
  Outputs,       \* the outputs the validators are compared with the documentation on
  Triggers,      \* the triggers that trigger files and requests may hold
  Files,         \* what the packet file may hold
  Unreadable,    \* a trigger file that does not hold an object
  TotalAttempts  \* times the SDK asks for one call

\* The file --packet-file or --runtime-input-file names: a packet, the slots of runtime
\* inputs, a bundle that holds some contracts, or nothing that can be used.
File ==
  [shape : {"packet", "slots", "bundle", "unusable"}, one : Input \cup {Null},
   parts : [Contracts -> Input \cup {Null}]]

ASSUME DeskAssumption ==
  /\ Answers \subseteq Answer /\ Outputs \subseteq ReadinessEngineOutput
  /\ Triggers \subseteq TriggerPayload /\ Files \subseteq File
  /\ \A f \in Files : f.shape \in {"packet", "slots"} => f.one # Null
  /\ TotalAttempts \in Nat \ {0}
  /\ "ZN" \in Contracts /\ IsFiniteSet(Contracts)
  /\ Null \notin Exceptions \cup FailureClasses \cup Contracts
  /\ Null \notin ReadinessEngineOutput \cup Input \cup TriggerPayload \cup {Unreadable}
  /\ Unreadable \notin TriggerPayload /\ "all" \notin Contracts
  /\ Null \notin {0, 1, 2}

Target == Contracts \cup {"all"}

\* The command's arguments.  "trigger": what the trigger file holds, Null when
\* --trigger-file is not given.
Args ==
  [mode : {"fixture", "packet", "slots"}, target : Target,
   packet_contract : Contracts \cup {Null}, trigger : Triggers \cup {Unreadable, Null}]

\* What came of asking, in the end: no answer, or one of those an answer can be.
Received == {"nothing", "untyped", "broken", "payload"}

\* A result of the sweep, with what it was made from, how often it asked and what it got.
Result ==
  [contract : Contracts, failure : FailureClasses \cup {Null}, asked : 0..TotalAttempts,
   received : Received, input : Input \cup {Null}, output : ReadinessEngineOutput \cup {Null}]

\* A request for the endpoint; "trigger" and the two inputs are Null when they are not
\* there, or not objects.  "stalled": its client sends less than it announced.
Request ==
  [body : {"json", "not_json", "stalled"}, trigger : Triggers \cup {Null},
   packet : Input \cup {Null}, runtime_inputs : Input \cup {Null}]

Status == {"200", "400", "500", "502"}

Response ==
  [status : Status, asked : 0..TotalAttempts, received : Received,
   output : ReadinessEngineOutput \cup {Null}]

VARIABLES
  user,     \* which of the two is at work
  phase,    \* where it is
  file,     \* the packet file, which others replace
  args,     \* the command's arguments
  todo,     \* contracts it has still to verify
  results,  \* results so far
  artifact, \* what the artifact file holds
  exit,     \* the exit code, Null while it runs
  request,  \* the request in service, or the last one
  response, \* its response, Null before there is one
  input,    \* what the call in progress runs on
  trigger,  \* and its trigger
  asked     \* how often it has asked

desk == <<file, args, todo, results, artifact, exit>>
server == <<request, response>>
call == <<input, trigger, asked>>
vars == <<user, phase, desk, server, call>>

-----------------------------------------------------------------------------
(* The arguments. *)

\* _validate_args
ArgsValid(a) ==
  /\ a.mode = "fixture" => a.trigger = Null
  /\ a.packet_contract # Null => a.mode = "packet"
  /\ a.mode # "fixture" => a.trigger # Null

\* _contracts_for_run does not raise; the file is read for the first time.
TargetValid(a, f) ==
  a.target = "all" =>
    \/ a.mode = "fixture"
    \/ a.mode = "packet" /\ a.packet_contract = Null /\ f.shape = "bundle"

\* SUPPORTED_PACKET_READINESS_CONTRACTS, in a fixed order.
AllContracts ==
  CHOOSE s \in [1..Cardinality(Contracts) -> Contracts] :
    \A i, j \in DOMAIN s : s[i] = s[j] => i = j

ContractsForRun(a) ==
  IF a.target # "all" THEN <<a.target>>
  ELSE IF a.mode = "fixture" THEN <<"ZN">>
  ELSE AllContracts

-----------------------------------------------------------------------------
(* One call, whoever makes it. *)

\* A result record of the sweep, which goes on with the next contract.
Recorded(c, exc, i, n, got, o) ==
  /\ results' = Append(results,
       [contract |-> c, failure |-> IF exc = Null THEN Null ELSE ClassifyFailure(exc),
        asked |-> n, received |-> got, input |-> i, output |-> o])
  /\ todo' = Tail(todo)
  /\ phase' = "sweep"
  /\ UNCHANGED <<file, args, artifact, exit, server>>

\* A response, and the server is free again.
Responded(status, n, got, o) ==
  /\ response' = [status |-> status, asked |-> n, received |-> got, output |-> o]
  /\ phase' = "idle"
  /\ UNCHANGED <<desk, request>>

\* A call that asked ends in an exception or, when there is none, in an output.
Ends(exc, got, o) ==
  IF user = "command" THEN Recorded(Head(todo), exc, input, asked + 1, got, o)
  ELSE Responded(IF exc = Null THEN "200" ELSE StatusOf(exc), asked + 1, got, o)

\* run_readiness is called and asks.
Call(i, t) ==
  /\ Refusal(i, t) = Null
  /\ phase' = "asking"
  /\ input' = i /\ trigger' = t /\ asked' = 0
  /\ UNCHANGED <<desk, server>>

\* Mutant: the budget is the number of retries.
RetryOnceMore ==
  /\ phase = "asking" /\ asked < TotalAttempts
  /\ asked' = asked + 1
  /\ UNCHANGED <<user, phase, desk, server, input, trigger>>

\* Mutant: the budget starts over.
RetryForever ==
  /\ phase = "asking"
  /\ asked' = (asked + 1) % TotalAttempts
  /\ UNCHANGED <<user, phase, desk, server, input, trigger>>

\* A timeout or a status worth a retry, and the SDK asks again.
Retry ==
  /\ phase = "asking" /\ asked + 1 < TotalAttempts
  /\ asked' = asked + 1
  /\ UNCHANGED <<user, phase, desk, server, input, trigger>>

\* The last attempt fails, or one that is not worth a retry.
ProviderFails ==
  /\ phase = "asking"
  /\ Ends("GeminiAdapterError", "nothing", Null)
  /\ UNCHANGED <<user, call>>

\* The provider answers: the answer is accepted or refused.
Answered ==
  /\ phase = "asking"
  /\ \E a \in Answers :
       LET exc == AnswerError(input, a)
       IN Ends(exc, a.shape, IF exc = Null THEN a.output ELSE Null)
  /\ UNCHANGED <<user, call>>

-----------------------------------------------------------------------------
(* The verification command. *)

\* The arguments are refused.
RefuseArgs ==
  /\ phase = "start" /\ ~(ArgsValid(args) /\ TargetValid(args, file))
  /\ exit' = 2 /\ phase' = "exited"
  /\ UNCHANGED <<user, file, args, todo, results, artifact, server, call>>

\* The configuration is read and the client made, or one of the two raises.
Configure ==
  /\ phase = "start" /\ ArgsValid(args) /\ TargetValid(args, file)
  /\ \/ /\ phase' = "sweep" /\ todo' = ContractsForRun(args)
        /\ UNCHANGED exit
     \/ /\ phase' = "exited" /\ exit' = 2
        /\ UNCHANGED todo
  /\ UNCHANGED <<user, file, args, results, artifact, server, call>>

\* The fixture there is.
FixtureFile == [contract |-> "ZN", fault |-> "none"]

\* The object a file gives for contract c: Null when it gives none.
Source(a, f, c) ==
  IF a.mode = "fixture" THEN (IF c = "ZN" THEN FixtureFile ELSE Null)
  ELSE IF a.mode = "slots" THEN (IF f.shape = "slots" THEN f.one ELSE Null)
  ELSE IF f.shape = "packet" THEN f.one
  ELSE IF f.shape = "bundle" /\ (a.target = "all" \/ a.packet_contract # Null)
  THEN f.parts[IF a.target = "all" THEN c ELSE a.packet_contract]
  ELSE Null

\* The exception _load_run_inputs ends in, Null when it gives the inputs of contract c.
LoadError(a, f, c) ==
  LET source == Source(a, f, c)
  IN IF source = Null THEN "ReadinessVerificationError"
     ELSE IF f.shape = "bundle" /\ source.fault = "slots" THEN "KeyError"
     ELSE IF a.mode = "packet" /\ source.fault # "none" THEN "ValidationError"
     ELSE IF source.contract # c THEN "ContractMismatchError"
     ELSE IF a.trigger = Unreadable THEN "ReadinessVerificationError"
     ELSE Null

FixtureTrigger ==
  [trigger_family |-> "recheck_at_time", recheck_at_time |-> "aware", price_level |-> "absent"]

TriggerOf(a) == IF a.mode = "fixture" THEN FixtureTrigger ELSE a.trigger

\* The next contract is loaded, from the file as it is now, and its call begins.
Load ==
  /\ phase = "sweep" /\ todo # <<>>
  /\ LoadError(args, file, Head(todo)) = Null
  /\ Call(Source(args, file, Head(todo)), TriggerOf(args))
  /\ UNCHANGED user

\* It is not loaded, or run_readiness refuses it: a failed result, and on.
LoadFails ==
  /\ phase = "sweep" /\ todo # <<>>
  /\ LET error == LoadError(args, file, Head(todo))
         refusal == Refusal(Source(args, file, Head(todo)), TriggerOf(args))
     IN \/ error # Null /\ Recorded(Head(todo), error, Null, 0, "nothing", Null)
        \/ error = Null /\ refusal # Null /\ Recorded(Head(todo), refusal, Null, 0, "nothing", Null)
  /\ UNCHANGED <<user, call>>

\* The artifact file is opened, which empties it, and written; it may not open, or the
\* disk may be full.
WriteArtifact ==
  /\ phase = "sweep" /\ todo = <<>>
  /\ \/ /\ phase' = "print" /\ UNCHANGED exit
        /\ artifact' = [state |-> "whole", results |-> results]
     \/ /\ phase' = "exited" /\ exit' = 2
        /\ artifact' \in {artifact, [state |-> "torn", results |-> <<>>]}
  /\ UNCHANGED <<user, file, args, todo, results, server, call>>

\* Mutant: a sweep that went through counts as passed.
ExitCodeDone == 0

ExitCode == IF \E i \in DOMAIN results : results[i].failure # Null THEN 1 ELSE 0

\* The artifact is printed and the command exits, or the pipe is gone.
PrintArtifact ==
  /\ phase = "print"
  /\ phase' = "exited" /\ exit' \in {ExitCode, 2}
  /\ UNCHANGED <<user, file, args, todo, results, artifact, server, call>>

\* The file is written anew meanwhile, or found half written.
Recompile ==
  /\ user = "command" /\ phase \in {"sweep", "asking"}
  /\ file' \in Files
  /\ UNCHANGED <<user, phase, args, todo, results, artifact, exit, server, call>>

-----------------------------------------------------------------------------
(* The web server. *)

\* The next request is accepted; the others wait until it is answered.
Accept ==
  /\ user = "server" /\ phase = "idle"
  /\ request' \in Request
  /\ response' = Null
  /\ phase' = "reading"
  /\ UNCHANGED <<user, desk, call>>

\* A client that stalled goes away: the read returns what came.
HangUp ==
  /\ phase = "reading" /\ request.body = "stalled"
  /\ request' = [request EXCEPT !.body = "not_json"]
  /\ UNCHANGED <<user, phase, desk, response, call>>

\* What the endpoint runs on.
Requested == IF request.packet # Null THEN request.packet ELSE request.runtime_inputs

\* The checks of the request, then the packet's.
RequestError ==
  IF request.body = "not_json" \/ request.trigger = Null
     \/ (request.packet = Null) = (request.runtime_inputs = Null)
  THEN "ValueError"
  ELSE IF request.packet # Null /\ request.packet.fault # "none" THEN "ValidationError"
  ELSE Null

\* The request is refused for its own faults.
Refuse ==
  /\ phase = "reading" /\ request.body # "stalled"
  /\ \/ RequestError # Null /\ Responded(StatusOf(RequestError), 0, "nothing", Null)
     \/ /\ RequestError = Null /\ Refusal(Requested, request.trigger) # Null
        /\ Responded(StatusOf(Refusal(Requested, request.trigger)), 0, "nothing", Null)
  /\ UNCHANGED <<user, call>>

\* The configuration or the client raises.
NotConfigured ==
  /\ phase = "reading" /\ request.body # "stalled" /\ RequestError = Null
  /\ \E exc \in {"ConfigError", "ImportError"} : Responded(StatusOf(exc), 0, "nothing", Null)
  /\ UNCHANGED <<user, call>>

\* run_readiness is called.
Serve ==
  /\ phase = "reading" /\ request.body # "stalled" /\ RequestError = Null
  /\ Call(Requested, request.trigger)
  /\ UNCHANGED user

-----------------------------------------------------------------------------
\* The server has no file and no arguments of its own.
Init ==
  /\ \/ /\ user = "command" /\ phase = "start"
        /\ file \in Files /\ args \in Args
     \/ /\ user = "server" /\ phase = "idle"
        /\ file = Null /\ args = Null
  /\ todo = <<>> /\ results = <<>>
  /\ artifact = [state |-> "older", results |-> <<>>]
  /\ exit = Null
  /\ request = Null /\ response = Null
  /\ input = Null /\ trigger = Null /\ asked = 0

Program ==
  \/ Retry \/ ProviderFails \/ Answered
  \/ RefuseArgs \/ Configure \/ Load \/ LoadFails \/ WriteArtifact \/ PrintArtifact
  \/ Refuse \/ NotConfigured \/ Serve

Next == Program \/ Recompile \/ Accept \/ HangUp

\* The process goes on, and a request to the provider ends, if only by its timeout.
\* Nobody makes a client send or go away, or send another request.
Spec == Init /\ [][Next]_vars /\ WF_vars(Program)

-----------------------------------------------------------------------------
(* Properties. *)

\* Every variable has its type; no call asks more often than the budget allows.
TypeOK ==
  /\ user \in {"command", "server"}
  /\ phase \in {"start", "sweep", "asking", "print", "exited", "idle", "reading"}
  /\ file \in Files \cup {Null} /\ args \in Args \cup {Null}
  /\ todo \in Seq(Contracts) /\ results \in Seq(Result)
  /\ artifact \in [state : {"older", "torn", "whole"}, results : Seq(Result)]
  /\ exit \in {Null, 0, 1, 2}
  /\ request \in Request \cup {Null} /\ response \in Response \cup {Null}
  /\ input \in Input \cup {Null} /\ trigger \in TriggerPayload \cup {Null}
  /\ asked \in 0..(TotalAttempts - 1)

\* What the documentation says of a readiness output (docs/readiness-engine-v1.md): one
\* gate may be other than PASS, which one and how the status says, and each status has
\* reasons of its own kind and no other's; a missing trigger is insufficient data.
Doctrine(o) ==
  LET only(gate, state) ==
        \A g \in ReadinessDoctrineGate : o.gates[g] = IF g = gate THEN state ELSE "PASS"
      context == "missing_trigger_context" \in o.insufficient_data_reasons
      insufficient == o.status = "INSUFFICIENT_DATA"
  IN /\ o.complete
     /\ o.status = "READY" => only("none", "PASS")
     /\ o.status = "WAIT_FOR_TRIGGER" => only("trigger_gate", "WAIT")
     /\ o.status = "LOCKED_OUT" => only("lockout_gate", "FAIL")
     /\ insufficient => only("data_sufficiency_gate", "FAIL")
     /\ o.wait_for_trigger_reason = (o.status = "WAIT_FOR_TRIGGER")
     /\ o.lockout_reason = (o.status = "LOCKED_OUT")
     /\ (o.insufficient_data_reasons # {}) = insufficient
     /\ o.missing_inputs = insufficient
     /\ (o.trigger_data = Null) = context
     /\ o.trigger_data # Null =>
          /\ o.trigger_data.recheck_at_time = (o.trigger_data.family = "recheck_at_time")
          /\ o.trigger_data.price_level = (o.trigger_data.family = "price_level_touch")

\* Of everything the provider may send in answer to a request, exactly what the
\* documentation lets a readiness output say, of the contract asked about, is accepted.
DoctrineKept ==
  user = "server" /\ phase = "asking" =>
    \A o \in Outputs :
      AnswerError(input, [shape |-> "payload", output |-> o]) = Null
        <=> Doctrine(o) /\ o.contract = input.contract

\* A contract passes, and a request is answered 200, only with an output that says what
\* the documentation lets it say, for the contract asked about, made from a packet of
\* that contract that validated, whatever the provider sent and became of the file.
PassedIsSound ==
  /\ \A i \in DOMAIN results :
       LET r == results[i]
       IN r.failure = Null =>
            /\ r.output # Null /\ r.input # Null
            /\ Doctrine(r.output) /\ r.output.contract = r.contract
            /\ r.input.contract = r.contract /\ r.input.fault = "none"
  /\ (response # Null) => (response.status = "200" =>
       /\ response.output # Null
       /\ Doctrine(response.output)
       /\ response.output.contract \in
            {i.contract : i \in {request.packet, request.runtime_inputs} \ {Null}})

\* Exit codes 0 and 1 are about the artifact that is on the disk: one result for each
\* contract asked for, in order, and 0 exactly when all of them passed.
ExitTellsArtifact ==
  exit \in {0, 1} =>
    /\ artifact.state = "whole"
    /\ [i \in DOMAIN artifact.results |-> artifact.results[i].contract] = ContractsForRun(args)
    /\ (exit = 0) = (\A i \in DOMAIN artifact.results : artifact.results[i].failure = Null)

\* The provider was asked, and in the end sent nothing, or no envelope that can be read.
ProviderFailed(r) == r.asked > 0 /\ r.received \in {"nothing", "broken"}

\* The command blames whoever failed.  It blames the provider exactly when it was asked
\* and failed; a payload that came is passed, or refused for what it says; and the input
\* is blamed only when the provider was not asked at all.
BlameIsRight ==
  \A i \in DOMAIN results :
    LET r == results[i]
    IN /\ r.failure = "provider_error" <=> ProviderFailed(r)
       /\ r.received = "payload" =>
            r.failure \in {Null, "schema_validation_error", "contract_mismatch_error"}
       /\ r.failure = Null => r.received = "payload"
       /\ r.failure = "input_error" => r.asked = 0

\* "Provider failures are surfaced with structured error classification"
\* (docs/deployment-integration-readiness.md), and the server has a clause for them: a
\* request whose provider failed is answered 502.
ProviderFailuresAre502 ==
  (response # Null) => (ProviderFailed(response) => response.status = "502")

\* A sweep ends with an exit code, and a request that was sent whole is answered.
Finishes ==
  /\ user = "command" ~> exit # Null
  /\ (phase = "reading" /\ request.body # "stalled") ~> phase = "idle"
=============================================================================
