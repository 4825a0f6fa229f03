------------------------ MODULE PacketCompilerProofs ------------------------
(***************************************************************************)
(* Proofs about the compile command, for any number of runs, any command   *)
(* lines and any paths: the types, what a failed run leaves behind, the    *)
(* order of the EIA's answers, that a packet lies beside its own           *)
(* provenance, and that the two tables of every compiler agree.            *)
(***************************************************************************)
EXTENDS PacketCompiler, TLAPS

USE OptionsAssumption, PathsAssumption, EarlierAssumption

-----------------------------------------------------------------------------
(* Types. *)

\* What any run loads is a sequence of inputs (run_cli's branches).
LEMMA LoadsType == ASSUME NEW o \in Options PROVE Loads(o) \in Seq(Inputs)
<1>0. o \in OptionType
  OBVIOUS
<1>1. Served(o) \in Seq(Inputs)
  <2>1. <<"service">> \in Seq(Inputs) /\ << >> \in Seq(Inputs)
    BY DEF Inputs
  <2>. QED
    BY <2>1, Zenon DEF Served
<1>2. /\ LoadsES \in Seq(Inputs)
      /\ LoadsNQ \in Seq(Inputs)
      /\ LoadsSixE \in Seq(Inputs)
      /\ LoadsMGC \in Seq(Inputs)
  BY DEF LoadsES, LoadsNQ, LoadsSixE, LoadsMGC, Inputs
<1>3. <<"historical", "overlay", "extension">> \in Seq(Inputs)
  BY DEF Inputs
<1>4. LoadsCL(o) \in Seq(Inputs) /\ LoadsZN(o) \in Seq(Inputs)
  BY <1>1, <1>3 DEF LoadsCL, LoadsZN
<1>5. o.contract \in {"ES", "CL", "NQ", "SixE", "ZN", "MGC"}
  BY <1>0 DEF OptionType, Contracts
<1>. QED
  BY <1>2, <1>4, <1>5 DEF Loads

\* The paths of a run are files.
LEMMA PathsType ==
  ASSUME args \in [Runs -> Options], NEW r \in Runs
  PROVE  PacketFile(r) \in Files /\ ProvenanceFile(r) \in Files
<1>1. args[r] \in OptionType
  OBVIOUS
<1>. QED
  BY <1>1 DEF OptionType, PacketFile, ProvenanceFile, ProvenancePath

\* Every compiler builds a packet of fields and inputs.
LEMMA PayloadType ==
  ASSUME NEW o \in Options
  PROVE  Payload(o) \subseteq Fields \X Inputs /\ WholeMarket(o) \subseteq Fields \X Inputs
<1>1. o.typed \subseteq AssistFields
  BY DEF OptionType
<1>2. OverlayFields(o) \subseteq Fields \X Inputs
  BY <1>1 DEF OverlayFields, Fields, Inputs
<1>3. Constants \X {"constant"} \subseteq Fields \X Inputs
  BY DEF Fields, Inputs
<1>4. Measured \X {"historical"} \subseteq Fields \X Inputs
  BY DEF Fields, Inputs
<1>5. {"cumulative_delta", "event_calendar_remainder"} \X {"historical"}
        \subseteq Fields \X Inputs
  BY DEF Fields, Inputs
<1>. QED
  BY <1>2, <1>3, <1>4, <1>5 DEF Payload, WholeMarket

LEMMA PacketType ==
  ASSUME NEW o \in Options
  PROVE  /\ PacketES(o) \subseteq Fields \X Inputs
         /\ PacketCL(o) \subseteq Fields \X Inputs
         /\ PacketNQ(o) \subseteq Fields \X Inputs
         /\ PacketSixE(o) \subseteq Fields \X Inputs
         /\ PacketZN(o) \subseteq Fields \X Inputs
         /\ PacketMGC(o) \subseteq Fields \X Inputs
<1>1. PacketES(o) \subseteq Fields \X Inputs
  BY PayloadType DEF PacketES, Fields, Inputs
<1>2. PacketCL(o) \subseteq Fields \X Inputs
  BY PayloadType DEF PacketCL, Replaced, Fields, Inputs
<1>3. PacketNQ(o) \subseteq Fields \X Inputs
  BY PayloadType DEF PacketNQ, Fields, Inputs
<1>4. PacketSixE(o) \subseteq Fields \X Inputs
  BY PayloadType DEF PacketSixE, Fields, Inputs
<1>5. PacketZN(o) \subseteq Fields \X Inputs
  BY PayloadType DEF PacketZN, Replaced, Fields, Inputs
<1>6. PacketMGC(o) \subseteq Fields \X Inputs
  BY PayloadType DEF PacketMGC, Fields, Inputs
<1>. QED
  BY <1>1, <1>2, <1>3, <1>4, <1>5, <1>6

\* ... and a record of fields and sources.
LEMMA WholeMarketProvenanceType ==
  ASSUME NEW o \in Options
  PROVE  /\ ConstantProvenance \subseteq Fields \X Sources
         /\ OverlayProvenance(o) \subseteq Fields \X Sources
         /\ WholeMarketProvenance(o) \subseteq Fields \X Sources
<1>1. ConstantProvenance \subseteq Fields \X Sources
  BY DEF ConstantProvenance, Fields, Sources
<1>2. OverlayProvenance(o) \subseteq Fields \X Sources
  BY DEF OverlayProvenance, Fields, Sources
<1>3. (Measured \cup {"cumulative_delta", "event_calendar_remainder"})
        \X {"historical_input"} \subseteq Fields \X Sources
  BY DEF Fields, Sources
<1>. QED
  BY <1>1, <1>2, <1>3 DEF WholeMarketProvenance

LEMMA ProvenanceType ==
  ASSUME NEW o \in Options
  PROVE  /\ ProvenanceES(o) \subseteq Fields \X Sources
         /\ ProvenanceCL(o) \subseteq Fields \X Sources
         /\ ProvenanceNQ(o) \subseteq Fields \X Sources
         /\ ProvenanceSixE(o) \subseteq Fields \X Sources
         /\ ProvenanceZN(o) \subseteq Fields \X Sources
         /\ ProvenanceMGC(o) \subseteq Fields \X Sources
<1>1. ProvenanceES(o) \subseteq Fields \X Sources
  BY WholeMarketProvenanceType DEF ProvenanceES, Measured, Fields, Sources
<1>2. ProvenanceCL(o) \subseteq Fields \X Sources
  BY WholeMarketProvenanceType DEF ProvenanceCL, Fields, Sources
<1>3. ProvenanceNQ(o) \subseteq Fields \X Sources
  BY WholeMarketProvenanceType DEF ProvenanceNQ, Fields, Sources
<1>4. ProvenanceSixE(o) \subseteq Fields \X Sources
  BY WholeMarketProvenanceType DEF ProvenanceSixE, Fields, Sources
<1>5. ProvenanceZN(o) \subseteq Fields \X Sources
  BY WholeMarketProvenanceType DEF ProvenanceZN, Fields, Sources
<1>6. ProvenanceMGC(o) \subseteq Fields \X Sources
  BY WholeMarketProvenanceType DEF ProvenanceMGC, Fields, Sources
<1>. QED
  BY <1>1, <1>2, <1>3, <1>4, <1>5, <1>6

\* The part of a step that concerns loading keeps the types.
LEMMA LoadType ==
  ASSUME TypeOK, NEW r \in Runs, NEW inputs, Load(r, inputs)
  PROVE  todo' \in [Runs -> Seq(Inputs)]
<1>1. todo[r] \in Seq(Inputs) /\ todo[r] # << >>
  BY DEF TypeOK, Load
<1>2. Tail(todo[r]) \in Seq(Inputs)
  BY <1>1
<1>. QED
  BY <1>2 DEF TypeOK, Load

\* So does compiling a well-typed packet.
LEMMA CompileType ==
  ASSUME TypeOK, NEW r \in Runs, NEW p \in SUBSET (Fields \X Inputs),
         NEW c \in SUBSET (Fields \X Sources), Compile(r, p, c)
  PROVE  TypeOK'
<1>1. packet' \in [Runs -> SUBSET (Fields \X Inputs)]
  BY DEF TypeOK, Compile
<1>2. provenance' \in [Runs -> SUBSET (Fields \X Sources)]
  BY DEF TypeOK, Compile
<1>3. pc' \in [Runs -> {"loading", "compiled"} \cup Writing \cup Stopped]
  BY DEF TypeOK, Compile
<1>. QED
  BY <1>1, <1>2, <1>3 DEF TypeOK, Compile

\* Writing leaves parts of this system's runs in a file, or what was there before.
LEMMA WriteType ==
  ASSUME TypeOK, NEW r \in Runs, NEW f \in Files,
         NEW part \in {"packet", "provenance"}, Write(r, f, part)
  PROVE  files' \in [Files -> SUBSET Parts]
<1>1. PICK rest \in {{}, files[f]} :
        files' = [files EXCEPT ![f] = rest \cup {<<r, part>>}]
  BY DEF Write
<1>2. rest \cup {<<r, part>>} \in SUBSET Parts
  BY <1>1 DEF TypeOK, Parts
<1>. QED
  BY <1>1, <1>2 DEF TypeOK

\* Every reachable state of the compile command is well typed.
THEOREM TypeCorrect == Spec => []TypeOK
<1>1. Init => TypeOK
  <2>. SUFFICES ASSUME Init PROVE TypeOK
    OBVIOUS
  <2>1. args \in [Runs -> Options]
    BY DEF Init
  <2>2. todo \in [Runs -> Seq(Inputs)]
    BY <2>1, LoadsType DEF Init
  <2>3. files \in [Files -> SUBSET Parts]
    BY DEF Init, Parts
  <2>4. /\ packet \in [Runs -> SUBSET (Fields \X Inputs)]
        /\ provenance \in [Runs -> SUBSET (Fields \X Sources)]
    BY DEF Init
  <2>. QED
    BY <2>1, <2>2, <2>3, <2>4 DEF Init, TypeOK
<1>2. TypeOK /\ [Next]_vars => TypeOK'
  <2>. SUFFICES ASSUME TypeOK, [Next]_vars PROVE TypeOK'
    OBVIOUS
  <2>1. CASE UNCHANGED vars
    BY <2>1 DEF vars, TypeOK
  <2>2. CASE Publish
    BY <2>2 DEF Publish, TypeOK
  <2>. SUFFICES ASSUME NEW r \in Runs,
                       \/ LoadHistorical(r) \/ LoadOverlay(r) \/ LoadUpstream(r)
                       \/ LoadComparison(r) \/ LoadExtension(r) \/ LoadYield(r)
                       \/ LoadEiaTiming(r) \/ Refuse(r)
                       \/ CompileES(r) \/ CompileCL(r) \/ CompileNQ(r)
                       \/ CompileSixE(r) \/ CompileZN(r) \/ CompileMGC(r)
                       \/ OpenPacket(r) \/ WritePacket(r) \/ FailToEncode(r)
                       \/ OpenProvenance(r) \/ WriteProvenance(r) \/ Cut(r)
                PROVE  TypeOK'
    BY <2>1, <2>2 DEF Next
  <2>3. PacketFile(r) \in Files /\ ProvenanceFile(r) \in Files
    BY PathsType DEF TypeOK
  <2>4. args[r] \in Options
    BY DEF TypeOK
  <2>5. CASE \/ LoadHistorical(r) \/ LoadOverlay(r) \/ LoadUpstream(r)
             \/ LoadComparison(r) \/ LoadExtension(r) \/ LoadYield(r)
    <3>1. PICK inputs : Load(r, inputs) /\ UNCHANGED eia
      BY <2>5 DEF LoadHistorical, LoadOverlay, LoadUpstream, LoadComparison,
                  LoadExtension, LoadYield
    <3>2. todo' \in [Runs -> Seq(Inputs)]
      BY <3>1, LoadType
    <3>. QED
      BY <3>1, <3>2 DEF Load, TypeOK
  <2>6. CASE LoadEiaTiming(r)
    <3>1. Load(r, {"service"})
      BY <2>6 DEF LoadEiaTiming
    <3>2. todo' \in [Runs -> Seq(Inputs)]
      BY <3>1, LoadType
    <3>3. eia' \in [Runs -> {"unasked", "scheduled", "released"}]
      BY <2>6 DEF LoadEiaTiming, EiaStatus, TypeOK
    <3>. QED
      BY <3>1, <3>2, <3>3 DEF Load, TypeOK
  <2>7. CASE Refuse(r) \/ FailToEncode(r) \/ Cut(r)
    <3>1. pc' \in [Runs -> {"loading", "compiled"} \cup Writing \cup Stopped]
      BY <2>7 DEF Refuse, FailToEncode, Cut, Stopped, TypeOK
    <3>. QED
      BY <2>7, <3>1 DEF Refuse, FailToEncode, Cut, TypeOK
  <2>8. CASE \/ CompileES(r) \/ CompileCL(r) \/ CompileNQ(r)
             \/ CompileSixE(r) \/ CompileZN(r) \/ CompileMGC(r)
    BY <2>4, <2>8, PacketType, ProvenanceType, CompileType
       DEF CompileES, CompileCL, CompileNQ, CompileSixE, CompileZN, CompileMGC
  <2>9. CASE OpenPacket(r) \/ OpenProvenance(r)
    <3>1. pc' \in [Runs -> {"loading", "compiled"} \cup Writing \cup Stopped]
      BY <2>9 DEF OpenPacket, OpenProvenance, Writing, TypeOK
    <3>2. files' \in [Files -> SUBSET Parts]
      BY <2>3, <2>9 DEF OpenPacket, OpenProvenance, TypeOK
    <3>3. crossed' \subseteq Files
      BY <2>3, <2>9 DEF OpenPacket, OpenProvenance, Meets, Paths, TypeOK
    <3>. QED
      BY <2>9, <3>1, <3>2, <3>3 DEF OpenPacket, OpenProvenance, TypeOK
  <2>10. CASE WritePacket(r) \/ WriteProvenance(r)
    <3>1. pc' \in [Runs -> {"loading", "compiled"} \cup Writing \cup Stopped]
      BY <2>10 DEF WritePacket, WriteProvenance, Writing, Stopped, TypeOK
    <3>2. files' \in [Files -> SUBSET Parts]
      BY <2>3, <2>10, WriteType DEF WritePacket, WriteProvenance
    <3>. QED
      BY <2>10, <3>1, <3>2 DEF WritePacket, WriteProvenance, TypeOK
  <2>. QED
    BY <2>5, <2>6, <2>7, <2>8, <2>9, <2>10
<1>. QED
  BY <1>1, <1>2, PTL DEF Spec

-----------------------------------------------------------------------------
(* What a failed run leaves behind. *)

\* Runs that have opened no file, and runs that have opened one and written none.
Fresh == {"loading", "compiled", "refused"}
Emptied == {"opened", "unwritten"}

\* Only r names f.
Own(r, f) == f \in Paths(r) /\ \A q \in Runs \ {r} : f \notin Paths(q)

\* The inductive invariant: it says of the runs that are still on their way what
\* FailedRunKeepsFiles says of those that failed.
Untouched ==
  \A r \in Runs :
    /\ pc[r] \in Fresh \cup Emptied =>
         \A f \in Files, part \in {"packet", "provenance"} : <<r, part>> \notin files[f]
    /\ \A f \in Files :
         /\ Own(r, f)
         /\ pc[r] \in Fresh \/ (pc[r] \in Emptied /\ f # PacketFile(r))
         => files[f] = {<<Earlier, "file">>}

\* A step that leaves the files alone, and opens none.
LEMMA QuietStep ==
  ASSUME TypeOK, Untouched, args' = args, files' = files,
         NEW r \in Runs, NEW new, pc' = [pc EXCEPT ![r] = new],
         new \in Fresh => pc[r] \in Fresh, new \in Emptied => pc[r] \in Emptied
  PROVE  Untouched'
<1>1. \A q \in Runs : /\ pc'[q] \in Fresh => pc[q] \in Fresh
                     /\ pc'[q] \in Emptied => pc[q] \in Emptied
  BY DEF TypeOK
<1>2. \A q \in Runs, f \in Files : Own(q, f)' <=> Own(q, f)
  BY DEF Own, Paths, PacketFile, ProvenanceFile
<1>3. \A q \in Runs : PacketFile(q)' = PacketFile(q)
  BY DEF PacketFile
<1>. QED
  BY <1>1, <1>2, <1>3 DEF Untouched

\* A step in which r changes one of its files, of which it leaves no part that was
\* not there but its own.
LEMMA FileStep ==
  ASSUME TypeOK, Untouched, args' = args,
         NEW r \in Runs, NEW new, pc' = [pc EXCEPT ![r] = new], new \notin Fresh,
         NEW f \in Paths(r) \cap Files, NEW content, files' = [files EXCEPT ![f] = content],
         NEW own \in {"packet", "provenance"}, content \subseteq files[f] \cup {<<r, own>>},
         new \in Emptied => /\ pc[r] \in Fresh /\ f = PacketFile(r) /\ content = {}
  PROVE  Untouched'
<1>1. \A q \in Runs, g \in Files : Own(q, g)' <=> Own(q, g)
  BY DEF Own, Paths, PacketFile, ProvenanceFile
<1>2. \A q \in Runs : PacketFile(q)' = PacketFile(q)
  BY DEF PacketFile
<1>3. ASSUME NEW q \in Runs, pc'[q] \in Fresh \cup Emptied,
             NEW g \in Files, NEW part \in {"packet", "provenance"}
      PROVE  <<q, part>> \notin files'[g]
  <2>1. CASE q = r
    BY <1>3, <2>1 DEF TypeOK, Untouched, Fresh, Emptied
  <2>2. CASE q # r
    BY <1>3, <2>2 DEF TypeOK, Untouched
  <2>. QED
    BY <2>1, <2>2
<1>4. ASSUME NEW q \in Runs, NEW g \in Files, Own(q, g),
             pc'[q] \in Fresh \/ (pc'[q] \in Emptied /\ g # PacketFile(q))
      PROVE  files'[g] = {<<Earlier, "file">>}
  <2>1. CASE q = r
    <3>1. new \in Emptied /\ g # PacketFile(r)
      BY <1>4, <2>1 DEF TypeOK
    <3>2. files'[g] = files[g] /\ pc[r] \in Fresh
      BY <3>1 DEF TypeOK
    <3>. QED
      BY <1>4, <2>1, <3>2 DEF Untouched
  <2>2. CASE q # r
    <3>1. g # f
      BY <1>4, <2>2 DEF Own
    <3>2. files'[g] = files[g] /\ pc'[q] = pc[q]
      BY <2>2, <3>1 DEF TypeOK
    <3>. QED
      BY <1>4, <3>2 DEF Untouched
  <2>. QED
    BY <2>1, <2>2
<1>. QED
  BY <1>1, <1>2, <1>3, <1>4 DEF Untouched

\* A run that refused its inputs, or could not encode its packet, has put nothing
\* into any file and kept what only it names, for any runs, options and paths.
THEOREM FailureKeepsFiles == Spec => []FailedRunKeepsFiles
<1>1. Init => Untouched
  <2>. SUFFICES ASSUME Init PROVE Untouched
    OBVIOUS
  <2>1. \A f \in Files : files[f] = {<<Earlier, "file">>}
    BY DEF Init
  <2>2. \A r \in Runs, part \in {"packet", "provenance"} : <<r, part>> # <<Earlier, "file">>
    OBVIOUS
  <2>. QED
    BY <2>1, <2>2 DEF Untouched
<1>2. TypeOK /\ Untouched /\ [Next]_vars => Untouched'
  <2>. SUFFICES ASSUME TypeOK, Untouched, [Next]_vars PROVE Untouched'
    OBVIOUS
  <2>1. CASE UNCHANGED vars
    BY <2>1 DEF vars, Untouched, Own, Paths, PacketFile, ProvenanceFile
  <2>2. CASE Publish
    BY <2>2 DEF Publish, Untouched, Own, Paths, PacketFile, ProvenanceFile
  <2>. SUFFICES ASSUME NEW r \in Runs,
                       \/ LoadHistorical(r) \/ LoadOverlay(r) \/ LoadUpstream(r)
                       \/ LoadComparison(r) \/ LoadExtension(r) \/ LoadYield(r)
                       \/ LoadEiaTiming(r) \/ Refuse(r)
                       \/ CompileES(r) \/ CompileCL(r) \/ CompileNQ(r)
                       \/ CompileSixE(r) \/ CompileZN(r) \/ CompileMGC(r)
                       \/ OpenPacket(r) \/ WritePacket(r) \/ FailToEncode(r)
                       \/ OpenProvenance(r) \/ WriteProvenance(r) \/ Cut(r)
                PROVE  Untouched'
    BY <2>1, <2>2 DEF Next
  <2>3. PacketFile(r) \in Paths(r) \cap Files /\ ProvenanceFile(r) \in Paths(r) \cap Files
    BY PathsType DEF TypeOK, Paths
  <2>4. CASE \/ LoadHistorical(r) \/ LoadOverlay(r) \/ LoadUpstream(r)
             \/ LoadComparison(r) \/ LoadExtension(r) \/ LoadYield(r)
             \/ LoadEiaTiming(r)
    <3>1. UNCHANGED <<args, pc, files>>
      BY <2>4 DEF LoadHistorical, LoadOverlay, LoadUpstream, LoadComparison,
                  LoadExtension, LoadYield, LoadEiaTiming, Load
    <3>. QED
      BY <3>1 DEF Untouched, Own, Paths, PacketFile, ProvenanceFile
  <2>5. CASE Refuse(r)
    BY <2>5, QuietStep DEF Refuse, Fresh, Emptied
  <2>6. CASE \/ CompileES(r) \/ CompileCL(r) \/ CompileNQ(r)
             \/ CompileSixE(r) \/ CompileZN(r) \/ CompileMGC(r)
    <3>1. /\ pc[r] = "loading" /\ pc' = [pc EXCEPT ![r] = "compiled"]
          /\ UNCHANGED <<args, files>>
      BY <2>6 DEF CompileES, CompileCL, CompileNQ, CompileSixE, CompileZN, CompileMGC,
                  Compile
    <3>. QED
      BY <3>1, QuietStep DEF Fresh, Emptied
  <2>7. CASE FailToEncode(r)
    BY <2>7, QuietStep DEF FailToEncode, Fresh, Emptied
  <2>8. CASE Cut(r)
    BY <2>8, QuietStep DEF Cut, Fresh, Emptied
  <2>9. CASE OpenPacket(r)
    <3>1. files' = [files EXCEPT ![PacketFile(r)] = {}]
      BY <2>9 DEF OpenPacket
    <3>2. /\ pc' = [pc EXCEPT ![r] = "opened"] /\ args' = args
          /\ "opened" \notin Fresh /\ pc[r] \in Fresh
      BY <2>9 DEF OpenPacket, Fresh, Emptied
    <3>. DEFINE content == {}
    <3>3. /\ "packet" \in {"packet", "provenance"}
          /\ content \subseteq files[PacketFile(r)] \cup {<<r, "packet">>}
      OBVIOUS
    <3>4. files' = [files EXCEPT ![PacketFile(r)] = content] /\ content = {}
      BY <3>1
    <3>. HIDE DEF content
    <3>. QED
      BY <2>3, <3>2, <3>3, <3>4, FileStep
  <2>10. CASE OpenProvenance(r)
    <3>1. files' = [files EXCEPT ![ProvenanceFile(r)] = {}]
      BY <2>10 DEF OpenProvenance
    <3>2. /\ pc' = [pc EXCEPT ![r] = "reopened"] /\ args' = args
          /\ "reopened" \notin Fresh /\ "reopened" \notin Emptied
      BY <2>10 DEF OpenProvenance, Fresh, Emptied
    <3>. DEFINE content == {}
    <3>3. /\ "provenance" \in {"packet", "provenance"}
          /\ content \subseteq files[ProvenanceFile(r)] \cup {<<r, "provenance">>}
      OBVIOUS
    <3>4. files' = [files EXCEPT ![ProvenanceFile(r)] = content] /\ content = {}
      BY <3>1
    <3>. HIDE DEF content
    <3>. QED
      BY <2>3, <3>2, <3>3, <3>4, FileStep
  <2>11. CASE WritePacket(r)
    <3>1. PICK rest \in {{}, files[PacketFile(r)]} :
            files' = [files EXCEPT ![PacketFile(r)] = rest \cup {<<r, "packet">>}]
      BY <2>11 DEF WritePacket, Write
    <3>2. /\ pc' = [pc EXCEPT ![r] = "packet"] /\ args' = args
          /\ "packet" \notin Fresh /\ "packet" \notin Emptied
      BY <2>11 DEF WritePacket, Fresh, Emptied
    <3>3. rest \cup {<<r, "packet">>} \subseteq files[PacketFile(r)] \cup {<<r, "packet">>}
      BY <3>1
    <3>. QED
      BY <2>3, <3>1, <3>2, <3>3, FileStep
  <2>12. CASE WriteProvenance(r)
    <3>1. PICK rest \in {{}, files[ProvenanceFile(r)]} :
            files' = [files EXCEPT ![ProvenanceFile(r)] = rest \cup {<<r, "provenance">>}]
      BY <2>12 DEF WriteProvenance, Write
    <3>2. /\ pc' = [pc EXCEPT ![r] = "done"] /\ args' = args
          /\ "done" \notin Fresh /\ "done" \notin Emptied
      BY <2>12 DEF WriteProvenance, Fresh, Emptied
    <3>3. rest \cup {<<r, "provenance">>} \subseteq files[ProvenanceFile(r)] \cup {<<r, "provenance">>}
      BY <3>1
    <3>. QED
      BY <2>3, <3>1, <3>2, <3>3, FileStep
  <2>. QED
    BY <2>4, <2>5, <2>6, <2>7, <2>8, <2>9, <2>10, <2>11, <2>12
<1>3. TypeOK /\ Untouched => FailedRunKeepsFiles
  <2>. SUFFICES ASSUME TypeOK, Untouched PROVE FailedRunKeepsFiles
    OBVIOUS
  <2>1. \A r \in Runs : Paths(r) \subseteq Files
    BY PathsType DEF TypeOK, Paths
  <2>. QED
    BY <2>1 DEF Untouched, FailedRunKeepsFiles, Fresh, Emptied, Own
<1>. QED
  BY <1>1, <1>2, <1>3, TypeCorrect, PTL DEF Spec

-----------------------------------------------------------------------------
(* The EIA's answers. *)

\* A run was told the figure is out only if it is.
Told == \A r \in Runs : eia[r] = "released" => published

\* An answer that the figure is out is never followed by one that it is scheduled.
THEOREM AnswersNeverGoBack == Spec => EiaNeverGoesBack
<1>. DEFINE Back == (\E q \in Runs : eia[q] = "released") =>
                      \A r \in Runs : eia'[r] = "scheduled" => eia[r] = "scheduled"
<1>1. Init => Told
  BY DEF Init, Told
<1>2. TypeOK /\ Told /\ [Next]_vars => Told' /\ (Back \/ UNCHANGED vars)
  <2>. SUFFICES ASSUME TypeOK, Told, [Next]_vars PROVE Told' /\ (Back \/ UNCHANGED vars)
    OBVIOUS
  <2>1. CASE UNCHANGED vars
    BY <2>1 DEF vars, Told
  <2>2. CASE \E r \in Runs : LoadEiaTiming(r)
    <3>1. PICK r \in Runs : LoadEiaTiming(r)
      BY <2>2
    <3>2. /\ published' = published
          /\ eia' = [eia EXCEPT ![r] = EiaStatus(args[r].early, published)]
      BY <3>1 DEF LoadEiaTiming, Load
    <3>3. /\ EiaStatus(args[r].early, published) = "released" => published
          /\ EiaStatus(args[r].early, published) = "scheduled" => ~published
      BY DEF EiaStatus
    <3>4. Told'
      BY <3>2, <3>3 DEF Told, TypeOK
    <3>5. Back
      BY <3>2, <3>3 DEF Told, TypeOK
    <3>. QED
      BY <3>4, <3>5
  <2>3. CASE Next /\ ~\E r \in Runs : LoadEiaTiming(r)
    <3>1. eia' = eia /\ (published => published')
      BY <2>3 DEF Next, Publish, LoadHistorical, LoadOverlay, LoadUpstream, LoadComparison,
                  LoadExtension, LoadYield, Load, Refuse, CompileES, CompileCL, CompileNQ,
                  CompileSixE, CompileZN, CompileMGC, Compile, OpenPacket, WritePacket,
                  FailToEncode, OpenProvenance, WriteProvenance, Cut
    <3>. QED
      BY <3>1 DEF Told
  <2>. QED
    BY <2>1, <2>2, <2>3
<1>. QED
  BY <1>1, <1>2, TypeCorrect, PTL DEF Spec, EiaNeverGoesBack

-----------------------------------------------------------------------------
(* A packet and its provenance. *)

\* Nothing PairMatches excuses has happened to r.
Undisturbed(r) ==
  Apart(r) /\ Paths(r) \cap crossed = {} /\ PacketFile(r) # ProvenanceFile(r)

\* No other run is writing to a path of r.
Alone(r) == \A q \in Runs \ {r} : pc[q] \in Writing => Paths(q) \cap Paths(r) = {}

\* The inductive invariant.  While an undisturbed run writes, it is alone with its
\* paths; once it is done, a run that opens the pair empties the packet first, so
\* that what is left of r's packet shows that nobody has come after it.
Kept(r) ==
  /\ pc[r] \in Writing => Alone(r)
  /\ pc[r] = "reopened" => files[ProvenanceFile(r)] = {}
  /\ pc[r] = "done" /\ <<r, "packet">> \in files[PacketFile(r)] =>
       Alone(r) /\ files[ProvenanceFile(r)] = {<<r, "provenance">>}

Paired == \A r \in Runs : Undisturbed(r) => Kept(r)

\* The paths of a run are fixed by its arguments.
LEMMA FixedPaths ==
  ASSUME args' = args
  PROVE  /\ \A r \in Runs : /\ PacketFile(r)' = PacketFile(r)
                            /\ ProvenanceFile(r)' = ProvenanceFile(r)
                            /\ Paths(r)' = Paths(r)
                            /\ Apart(r)' <=> Apart(r)
         /\ crossed \subseteq crossed' =>
              \A r \in Runs : Undisturbed(r)' => Undisturbed(r)
<1>1. \A r \in Runs : /\ PacketFile(r)' = PacketFile(r)
                      /\ ProvenanceFile(r)' = ProvenanceFile(r)
                      /\ Paths(r)' = Paths(r)
  BY DEF Paths, PacketFile, ProvenanceFile
<1>2. \A r \in Runs : Apart(r)' <=> Apart(r)
  BY <1>1 DEF Apart
<1>. QED
  BY <1>1, <1>2 DEF Undisturbed

\* A step of a run that ends its writing, or has not begun it.
LEMMA PairQuiet ==
  ASSUME TypeOK, Paired, args' = args, files' = files, crossed' = crossed,
         NEW r \in Runs, NEW new, pc' = [pc EXCEPT ![r] = new],
         new \notin Writing, new # "done"
  PROVE  Paired'
<1>1. ASSUME NEW q \in Runs, Undisturbed(q)' PROVE Kept(q)'
  <2>1. Kept(q)
    BY <1>1, FixedPaths DEF Paired
  <2>2. /\ pc'[q] \in Writing => pc[q] \in Writing
        /\ pc'[q] = "reopened" => pc[q] = "reopened"
        /\ pc'[q] = "done" => pc[q] = "done"
    BY DEF TypeOK, Writing
  <2>3. \A p \in Runs : pc'[p] \in Writing => pc[p] \in Writing
    BY DEF TypeOK
  <2>4. Alone(q) => Alone(q)'
    BY <2>3 DEF Alone, Paths, PacketFile, ProvenanceFile
  <2>. QED
    BY <2>1, <2>2, <2>4 DEF Kept, PacketFile, ProvenanceFile
<1>. QED
  BY <1>1 DEF Paired

\* A run that is writing, while it writes, harms nobody else's pair.
LEMMA PairOthers ==
  ASSUME TypeOK, Paired, args' = args, crossed' = crossed,
         NEW r \in Runs, pc[r] \in Writing, NEW new, pc' = [pc EXCEPT ![r] = new],
         NEW f \in Paths(r) \cap Files, NEW content, files' = [files EXCEPT ![f] = content],
         NEW part, content \subseteq files[f] \cup {<<r, part>>},
         NEW q \in Runs \ {r}, Undisturbed(q)
  PROVE  Kept(q)'
<1>1. pc'[q] = pc[q] /\ \A p \in Runs : pc'[p] \in Writing => pc[p] \in Writing
  BY DEF TypeOK
<1>2. Alone(q) => Alone(q)'
  BY <1>1 DEF Alone, Paths, PacketFile, ProvenanceFile
<1>3. PacketFile(q) \in Files /\ ProvenanceFile(q) \in Files
  BY PathsType DEF TypeOK
<1>4. Alone(q) => files'[PacketFile(q)] = files[PacketFile(q)]
                  /\ files'[ProvenanceFile(q)] = files[ProvenanceFile(q)]
  BY <1>3 DEF TypeOK, Alone, Paths
<1>5. <<q, "packet">> \in files'[PacketFile(q)] => <<q, "packet">> \in files[PacketFile(q)]
  BY <1>3 DEF TypeOK
<1>6. "reopened" \in Writing
  BY DEF Writing
<1>. QED
  BY <1>1, <1>2, <1>4, <1>5, <1>6 DEF Paired, Kept, PacketFile, ProvenanceFile

\* Opening the packet: those who share a path with r are emptied or have met r.
LEMMA PairOpen ==
  ASSUME TypeOK, Paired, NEW r \in Runs, OpenPacket(r)
  PROVE  Paired'
<1>1. /\ args' = args /\ pc' = [pc EXCEPT ![r] = "opened"]
      /\ files' = [files EXCEPT ![PacketFile(r)] = {}]
      /\ crossed' = crossed \cup Meets(r)
  BY DEF OpenPacket
<1>2. \A q \in Runs : Undisturbed(q)' => Undisturbed(q) /\ Paths(q) \cap Meets(r) = {}
  BY <1>1, FixedPaths DEF Undisturbed
<1>3. \A q \in Runs \ {r} : pc[q] \in Writing => Paths(r) \cap Paths(q) \subseteq Meets(r)
  BY DEF Meets
<1>4. \A q \in Runs \ {r} : pc'[q] = pc[q]
  BY <1>1 DEF TypeOK
<1>5. ASSUME NEW q \in Runs \ {r}, Undisturbed(q)'
      PROVE  Kept(q)'
  <2>1. Undisturbed(q) /\ Paths(q) \cap Meets(r) = {}
    BY <1>2, <1>5
  <2>2. PacketFile(q) \in Files /\ ProvenanceFile(q) \in Files /\ PacketFile(r) \in Files
    BY PathsType DEF TypeOK
  <2>3. CASE Paths(r) \cap Paths(q) = {}
    <3>1. /\ files'[PacketFile(q)] = files[PacketFile(q)]
          /\ files'[ProvenanceFile(q)] = files[ProvenanceFile(q)]
      BY <1>1, <2>2, <2>3 DEF TypeOK, Paths
    <3>2. Alone(q) => Alone(q)'
      BY <1>1, <1>4, <2>3 DEF Alone, Paths, PacketFile, ProvenanceFile
    <3>. QED
      BY <1>1, <1>4, <2>1, <3>1, <3>2 DEF Paired, Kept, PacketFile, ProvenanceFile
  <2>4. CASE Paths(r) \cap Paths(q) # {}
    <3>1. pc'[q] \notin Writing /\ pc'[q] # "reopened"
      BY <1>3, <1>4, <2>1, <2>4 DEF Writing
    <3>2. PacketFile(r) = PacketFile(q)
      BY <2>1, <2>4 DEF Undisturbed, Apart
    <3>3. files'[PacketFile(q)] = {}
      BY <1>1, <2>2, <3>2 DEF TypeOK
    <3>. QED
      BY <1>1, <3>1, <3>3 DEF Kept, PacketFile
  <2>. QED
    BY <2>3, <2>4
<1>6. ASSUME Undisturbed(r)' PROVE Kept(r)'
  <2>1. Paths(r) \cap Meets(r) = {}
    BY <1>2, <1>6
  <2>2. \A q \in Runs \ {r} : pc[q] \in Writing => Paths(q) \cap Paths(r) = {}
    BY <1>3, <2>1
  <2>3. Alone(r)'
    BY <1>1, <1>4, <2>2 DEF Alone, Paths, PacketFile, ProvenanceFile
  <2>4. pc'[r] = "opened"
    BY <1>1 DEF TypeOK
  <2>. QED
    BY <2>3, <2>4 DEF Kept
<1>. QED
  BY <1>5, <1>6 DEF Paired

\* The provenance is reopened, and written to an empty file, by a run alone with it.
LEMMA PairWrite ==
  ASSUME TypeOK, Paired, NEW r \in Runs,
         WritePacket(r) \/ OpenProvenance(r) \/ WriteProvenance(r)
  PROVE  Paired'
<1>1. /\ args' = args /\ crossed' = crossed /\ pc[r] \in Writing
  BY DEF WritePacket, OpenProvenance, WriteProvenance, Writing
<1>2. PacketFile(r) \in Paths(r) \cap Files /\ ProvenanceFile(r) \in Paths(r) \cap Files
  BY PathsType DEF TypeOK, Paths
<1>3. PICK new : pc' = [pc EXCEPT ![r] = new]
  BY DEF WritePacket, OpenProvenance, WriteProvenance
<1>4. PICK f \in Paths(r) \cap Files, part \in {"packet", "provenance"} :
        \E content : /\ files' = [files EXCEPT ![f] = content]
                     /\ content \subseteq files[f] \cup {<<r, part>>}
  <2>1. CASE WritePacket(r)
    <3>1. PICK rest \in {{}, files[PacketFile(r)]} :
            files' = [files EXCEPT ![PacketFile(r)] = rest \cup {<<r, "packet">>}]
      BY <2>1 DEF WritePacket, Write
    <3>2. rest \cup {<<r, "packet">>} \subseteq files[PacketFile(r)] \cup {<<r, "packet">>}
      BY <3>1
    <3>. QED
      BY <1>2, <3>1, <3>2, Zenon
  <2>2. CASE OpenProvenance(r)
    <3>1. files' = [files EXCEPT ![ProvenanceFile(r)] = {}]
      BY <2>2 DEF OpenProvenance
    <3>. DEFINE content == {}
    <3>2. /\ files' = [files EXCEPT ![ProvenanceFile(r)] = content]
          /\ content \subseteq files[ProvenanceFile(r)] \cup {<<r, "provenance">>}
      BY <3>1
    <3>. HIDE DEF content
    <3>. QED
      BY <1>2, <3>2, Zenon
  <2>3. CASE WriteProvenance(r)
    <3>1. PICK rest \in {{}, files[ProvenanceFile(r)]} :
            files' = [files EXCEPT ![ProvenanceFile(r)] = rest \cup {<<r, "provenance">>}]
      BY <2>3 DEF WriteProvenance, Write
    <3>2. rest \cup {<<r, "provenance">>} \subseteq files[ProvenanceFile(r)] \cup {<<r, "provenance">>}
      BY <3>1
    <3>. QED
      BY <1>2, <3>1, <3>2, Zenon
  <2>. QED
    BY <2>1, <2>2, <2>3
<1>5. PICK content : /\ files' = [files EXCEPT ![f] = content]
                     /\ content \subseteq files[f] \cup {<<r, part>>}
  BY <1>4
<1>6. ASSUME NEW q \in Runs \ {r}, Undisturbed(q)
      PROVE  Kept(q)'
  BY <1>1, <1>3, <1>5, <1>6, PairOthers
<1>7. ASSUME Undisturbed(r) PROVE Kept(r)'
  <2>1. Alone(r)
    BY <1>1, <1>7 DEF Paired, Kept
  <2>2. Alone(r)'
    BY <1>1, <1>3, <2>1 DEF Alone, Paths, PacketFile, ProvenanceFile, TypeOK
  <2>3. CASE WritePacket(r)
    <3>1. pc'[r] = "packet"
      BY <2>3 DEF WritePacket, TypeOK
    <3>. QED
      BY <1>1, <2>2, <3>1 DEF Kept, ProvenanceFile
  <2>4. CASE OpenProvenance(r)
    <3>1. pc'[r] = "reopened" /\ files'[ProvenanceFile(r)] = {}
      BY <1>2, <2>4 DEF OpenProvenance, TypeOK
    <3>. QED
      BY <1>1, <2>2, <3>1 DEF Kept, ProvenanceFile
  <2>5. CASE WriteProvenance(r)
    <3>1. pc[r] = "reopened" /\ pc'[r] = "done"
      BY <2>5 DEF WriteProvenance, TypeOK
    <3>2. files[ProvenanceFile(r)] = {}
      BY <1>7, <3>1 DEF Paired, Kept
    <3>3. PICK rest \in {{}, files[ProvenanceFile(r)]} :
            files' = [files EXCEPT ![ProvenanceFile(r)] = rest \cup {<<r, "provenance">>}]
      BY <2>5 DEF WriteProvenance, Write
    <3>4. files'[ProvenanceFile(r)] = {<<r, "provenance">>}
      BY <1>2, <3>2, <3>3 DEF TypeOK
    <3>. QED
      BY <1>1, <2>2, <3>1, <3>4 DEF Kept, ProvenanceFile
  <2>. QED
    BY <2>3, <2>4, <2>5
<1>. QED
  <2>1. \A q \in Runs : Undisturbed(q)' => Undisturbed(q)
    BY <1>1, FixedPaths
  <2>. QED
    BY <1>6, <1>7, <2>1 DEF Paired

\* A packet that lies whole in its file lies beside its own provenance, for any runs,
\* options and paths, unless runs met in its files or share one of its paths only.
THEOREM PairsMatch == Spec => []PairMatches
<1>1. Init => Paired
  <2>. SUFFICES ASSUME Init PROVE Paired
    OBVIOUS
  <2>1. \A r \in Runs : pc[r] = "loading"
    BY DEF Init
  <2>. QED
    BY <2>1 DEF Paired, Kept, Writing
<1>2. TypeOK /\ Paired /\ [Next]_vars => Paired'
  <2>. SUFFICES ASSUME TypeOK, Paired, [Next]_vars PROVE Paired'
    OBVIOUS
  <2>1. CASE UNCHANGED <<args, pc, files, crossed>>
    BY <2>1 DEF Paired, Kept, Undisturbed, Alone, Apart, Paths, PacketFile, ProvenanceFile
  <2>. SUFFICES ASSUME NEW r \in Runs,
                       \/ Refuse(r)
                       \/ CompileES(r) \/ CompileCL(r) \/ CompileNQ(r)
                       \/ CompileSixE(r) \/ CompileZN(r) \/ CompileMGC(r)
                       \/ OpenPacket(r) \/ WritePacket(r) \/ FailToEncode(r)
                       \/ OpenProvenance(r) \/ WriteProvenance(r) \/ Cut(r)
                PROVE  Paired'
    BY <2>1 DEF Next, vars, Publish, LoadHistorical, LoadOverlay, LoadUpstream,
                LoadComparison, LoadExtension, LoadYield, LoadEiaTiming, Load
  <2>2. CASE \/ CompileES(r) \/ CompileCL(r) \/ CompileNQ(r)
             \/ CompileSixE(r) \/ CompileZN(r) \/ CompileMGC(r)
    <3>1. pc' = [pc EXCEPT ![r] = "compiled"] /\ UNCHANGED <<args, files, crossed>>
      BY <2>2 DEF CompileES, CompileCL, CompileNQ, CompileSixE, CompileZN, CompileMGC,
                  Compile
    <3>. QED
      BY <3>1, PairQuiet DEF Writing
  <2>3. CASE Refuse(r)
    BY <2>3, PairQuiet DEF Refuse, Writing
  <2>4. CASE FailToEncode(r)
    BY <2>4, PairQuiet DEF FailToEncode, Writing
  <2>5. CASE Cut(r)
    BY <2>5, PairQuiet DEF Cut, Writing
  <2>. QED
    BY <2>2, <2>3, <2>4, <2>5, PairOpen, PairWrite
<1>3. Paired => PairMatches
  BY DEF Paired, Kept, PairMatches, Undisturbed
<1>. QED
  BY <1>1, <1>2, <1>3, TypeCorrect, PTL DEF Spec

-----------------------------------------------------------------------------
(* A packet and the record of where its fields come from. *)

\* The fields of a packet, or of a record.
Named(P) == {p[1] : p \in P}

\* What ProvenanceTrue says of one run.
Agree(P, C) ==
  /\ Named(P) = Named(C)
  /\ \A p \in P, c \in C : p[1] = c[1] => (p[2] \in Means[c[2]] <=> p[2] # "service")

\* A source names an input truly, unless the value came from a service.
Names(source, i) == i \in Means[source] <=> i # "service"

\* One table row: fields read from one input, recorded with one source.
LEMMA RowAgrees ==
  ASSUME NEW F, NEW i, NEW source, Names(source, i)
  PROVE  Agree(F \X {i}, F \X {source}) /\ Named(F \X {i}) = F
<1>1. ASSUME NEW e PROVE Named(F \X {e}) = F
  <2>1. \A f \in F : <<f, e>> \in F \X {e} /\ <<f, e>>[1] = f
    OBVIOUS
  <2>2. \A p \in F \X {e} : p[1] \in F
    OBVIOUS
  <2>. QED
    BY <2>1, <2>2 DEF Named
<1>2. \A p \in F \X {i} : p[2] = i
  OBVIOUS
<1>3. \A c \in F \X {source} : c[2] = source
  OBVIOUS
<1>. QED
  BY <1>1, <1>2, <1>3 DEF Agree, Names

\* Tables for different fields agree when they agree one by one.
LEMMA TablesAgree ==
  ASSUME NEW P, NEW C, Agree(P, C), NEW Q, NEW D, Agree(Q, D), Named(P) \cap Named(Q) = {}
  PROVE  Agree(P \cup Q, C \cup D) /\ Named(P \cup Q) = Named(P) \cup Named(Q)
<1>1. /\ Named(P \cup Q) = Named(P) \cup Named(Q)
      /\ Named(C \cup D) = Named(C) \cup Named(D)
  BY DEF Named
<1>2. Named(P) = Named(C) /\ Named(Q) = Named(D)
  BY DEF Agree
<1>3. ASSUME NEW p \in P \cup Q, NEW c \in C \cup D, p[1] = c[1]
      PROVE  p[2] \in Means[c[2]] <=> p[2] # "service"
  <2>1. /\ p \in P => p[1] \in Named(P)
        /\ p \in Q => p[1] \in Named(Q)
        /\ c \in C => c[1] \in Named(C)
        /\ c \in D => c[1] \in Named(D)
    BY DEF Named
  <2>2. (p \in P /\ c \in C) \/ (p \in Q /\ c \in D)
    BY <1>2, <1>3, <2>1
  <2>. QED
    BY <1>3, <2>2 DEF Agree
<1>4. Named(P \cup Q) = Named(C \cup D)
  BY <1>1, <1>2
<1>. QED
  BY <1>1, <1>3, <1>4 DEF Agree

\* What the sources of the tables stand for.
LEMMA SourceNames ==
  /\ Names("compiler_constant", "constant")
  /\ Names("historical_input", "historical") /\ Names("historical_bars", "historical")
  /\ Names("historical_profile", "historical") /\ Names("historical_lookback", "historical")
  /\ Names("derived_from_historical_input", "historical")
  /\ Names("upstream_extension", "extension") /\ Names("upstream_extension", "service")
  /\ Names("upstream_cumulative_delta", "cumulative_delta")
  /\ Names("upstream_calendar", "calendar") /\ Names("upstream_breadth", "breadth")
  /\ Names("upstream_index_cash_tone", "index_cash_tone")
  /\ Names("comparative_input", "historical") /\ Names("comparative_input", "relative_strength")
  /\ Names("manual_overlay", "overlay") /\ ~("overlay" \in Means["overlay_assist"])
  /\ Names("overlay_assist", "default") /\ ~("default" \in Means["manual_overlay"])
<1>1. /\ Means["compiler_constant"] = {"constant"}
      /\ Means["historical_input"] = {"historical"}
      /\ Means["historical_bars"] = {"historical"}
      /\ Means["historical_profile"] = {"historical"}
      /\ Means["historical_lookback"] = {"historical"}
      /\ Means["derived_from_historical_input"] = {"historical"}
  BY DEF Means
<1>2. /\ Means["upstream_extension"] = {"extension"}
      /\ Means["upstream_cumulative_delta"] = {"cumulative_delta"}
      /\ Means["upstream_calendar"] = {"calendar"}
      /\ Means["upstream_breadth"] = {"breadth"}
      /\ Means["upstream_index_cash_tone"] = {"index_cash_tone"}
      /\ Means["comparative_input"] = {"historical", "relative_strength"}
  BY DEF Means
<1>3. Means["manual_overlay"] = {"overlay"} /\ Means["overlay_assist"] = {"default"}
  BY DEF Means
<1>. QED
  BY <1>1, <1>2, <1>3 DEF Names

\* _overlay_provenance: a field is the operator's exactly when the operator gave it.
LEMMA OverlayAgrees ==
  ASSUME NEW o \in Options
  PROVE  /\ Agree(OverlayFields(o), OverlayProvenance(o))
         /\ Named(OverlayFields(o)) = AssistFields \cup {"challenge_state", "opening_type"}
<1>. DEFINE All == AssistFields \cup {"challenge_state", "opening_type"}
            Typed == {"challenge_state", "opening_type"} \cup o.typed
<1>1. o.typed \subseteq AssistFields
  BY DEF OptionType
<1>2. "challenge_state" \notin AssistFields /\ "opening_type" \notin AssistFields
  BY DEF AssistFields
<1>3. \A p \in OverlayFields(o) : /\ p[1] \in All
                                  /\ p[2] = "overlay" <=> p[1] \in Typed
                                  /\ p[2] = "default" <=> p[1] \notin Typed
  BY <1>1, <1>2 DEF OverlayFields
<1>4. \A c \in OverlayProvenance(o) : /\ c[1] \in All
                                      /\ c[2] = "manual_overlay" <=> c[1] \in Typed
                                      /\ c[2] = "overlay_assist" <=> c[1] \notin Typed
  BY <1>1, <1>2 DEF OverlayProvenance
<1>5. \A f \in All : \E p \in OverlayFields(o) : p[1] = f
  <2>. SUFFICES ASSUME NEW f \in All PROVE \E p \in OverlayFields(o) : p[1] = f
    OBVIOUS
  <2>1. f \in Typed => <<f, "overlay">> \in OverlayFields(o)
    BY DEF OverlayFields
  <2>2. f \notin Typed => <<f, "default">> \in OverlayFields(o)
    BY DEF OverlayFields
  <2>3. <<f, "overlay">>[1] = f /\ <<f, "default">>[1] = f
    OBVIOUS
  <2>. QED
    BY <2>1, <2>2, <2>3, Zenon
<1>6. \A f \in All : \E c \in OverlayProvenance(o) : c[1] = f
  <2>. SUFFICES ASSUME NEW f \in All PROVE \E c \in OverlayProvenance(o) : c[1] = f
    OBVIOUS
  <2>. DEFINE source == IF f \in o.typed \cup {"opening_type"} THEN "manual_overlay"
                        ELSE "overlay_assist"
  <2>1. f = "challenge_state" => <<f, "manual_overlay">> \in OverlayProvenance(o)
    BY DEF OverlayProvenance
  <2>2. f # "challenge_state" => <<f, source>> \in OverlayProvenance(o)
    BY DEF OverlayProvenance
  <2>3. <<f, "manual_overlay">>[1] = f /\ <<f, source>>[1] = f
    OBVIOUS
  <2>. HIDE DEF source
  <2>. QED
    BY <2>1, <2>2, <2>3, Zenon
<1>. HIDE DEF All, Typed
<1>7. Named(OverlayFields(o)) = All /\ Named(OverlayProvenance(o)) = All
  BY <1>3, <1>4, <1>5, <1>6 DEF Named
<1>8. ASSUME NEW p \in OverlayFields(o), NEW c \in OverlayProvenance(o), p[1] = c[1]
      PROVE  p[2] \in Means[c[2]] <=> p[2] # "service"
  <2>1. CASE p[1] \in Typed
    <3>1. p[2] = "overlay" /\ c[2] = "manual_overlay"
      BY <1>3, <1>4, <1>8, <2>1
    <3>. QED
      BY <3>1, SourceNames DEF Names
  <2>2. CASE p[1] \notin Typed
    <3>1. p[2] = "default" /\ c[2] = "overlay_assist"
      BY <1>3, <1>4, <1>8, <2>2
    <3>. QED
      BY <3>1, SourceNames DEF Names
  <2>. QED
    BY <2>1, <2>2
<1>. QED
  BY <1>7, <1>8 DEF Agree, All


\* The fields all six packets have, and those of the five that read the rest of the
\* market from one input.
PayloadNames == Constants \cup AssistFields \cup {"challenge_state", "opening_type"}
                  \cup Measured
MarketNames == PayloadNames \cup {"cumulative_delta", "event_calendar_remainder"}

\* The part of the tables that ES has in common with the others.
LEMMA CommonAgrees ==
  ASSUME NEW o \in Options
  PROVE  LET P == Constants \X {"constant"} \cup OverlayFields(o)
             C == ConstantProvenance \cup OverlayProvenance(o)
         IN  Agree(P, C) /\ Named(P) = Constants \cup AssistFields
                                         \cup {"challenge_state", "opening_type"}
<1>1. /\ Agree(Constants \X {"constant"}, ConstantProvenance)
      /\ Named(Constants \X {"constant"}) = Constants
  BY RowAgrees, SourceNames DEF ConstantProvenance
<1>2. /\ Agree(OverlayFields(o), OverlayProvenance(o))
      /\ Named(OverlayFields(o)) = AssistFields \cup {"challenge_state", "opening_type"}
  BY OverlayAgrees
<1>3. Constants \cap (AssistFields \cup {"challenge_state", "opening_type"}) = {}
  BY DEF Constants, AssistFields
<1>. DEFINE P == Constants \X {"constant"}
<1>4. Named(P) \cap Named(OverlayFields(o)) = {}
  BY <1>1, <1>2, <1>3
<1>. HIDE DEF P
<1>5. /\ Agree(P \cup OverlayFields(o), ConstantProvenance \cup OverlayProvenance(o))
      /\ Named(P \cup OverlayFields(o)) = Named(P) \cup Named(OverlayFields(o))
  <2>1. Agree(P, ConstantProvenance)
    BY <1>1 DEF P
  <2>. QED
    BY <1>2, <1>4, <2>1, TablesAgree
<1>. QED
  BY <1>1, <1>2, <1>5 DEF P

LEMMA MarketAgrees ==
  ASSUME NEW o \in Options
  PROVE  Agree(WholeMarket(o), WholeMarketProvenance(o)) /\ Named(WholeMarket(o)) = MarketNames
<1>. DEFINE P == Constants \X {"constant"} \cup OverlayFields(o)
            C == ConstantProvenance \cup OverlayProvenance(o)
            Rest == Measured \cup {"cumulative_delta", "event_calendar_remainder"}
<1>1. Agree(P, C) /\ Named(P) = Constants \cup AssistFields
                                  \cup {"challenge_state", "opening_type"}
  BY CommonAgrees
<1>2. /\ Agree(Rest \X {"historical"}, Rest \X {"historical_input"})
      /\ Named(Rest \X {"historical"}) = Rest
  BY RowAgrees, SourceNames
<1>3. (Constants \cup AssistFields \cup {"challenge_state", "opening_type"}) \cap Rest = {}
  BY DEF Constants, AssistFields, Measured, BarFields, ProfileFields, LookbackFields
<1>4. WholeMarket(o) = P \cup Rest \X {"historical"}
  BY DEF WholeMarket, Payload
<1>5. WholeMarketProvenance(o) = C \cup Rest \X {"historical_input"}
  BY DEF WholeMarketProvenance
<1>6. Constants \cup AssistFields \cup {"challenge_state", "opening_type"} \cup Rest = MarketNames
  BY DEF MarketNames, PayloadNames
<1>. HIDE DEF P, C, Rest
<1>7. Named(P) \cap Named(Rest \X {"historical"}) = {}
  BY <1>1, <1>2, <1>3
<1>8. /\ Agree(P \cup Rest \X {"historical"}, C \cup Rest \X {"historical_input"})
      /\ Named(P \cup Rest \X {"historical"}) = Named(P) \cup Named(Rest \X {"historical"})
  BY <1>1, <1>2, <1>7, TablesAgree
<1>. QED
  BY <1>1, <1>2, <1>4, <1>5, <1>6, <1>8

\* What MarketAgrees leaves to each compiler is its own fields.
LEMMA ExtensionAgrees ==
  ASSUME NEW o \in Options, NEW Q, NEW D, Agree(Q, D), Named(Q) \cap MarketNames = {}
  PROVE  Agree(WholeMarket(o) \cup Q, WholeMarketProvenance(o) \cup D)
<1>1. /\ Agree(WholeMarket(o), WholeMarketProvenance(o))
      /\ Named(WholeMarket(o)) \cap Named(Q) = {}
  BY MarketAgrees
<1>. QED
  BY <1>1, TablesAgree

\* The field a service may replace is recorded as the extension's either way.
LEMMA ReplacedAgrees ==
  ASSUME NEW o \in Options, NEW f
  PROVE  /\ Agree(Replaced(o, f), {f} \X {"upstream_extension"})
         /\ Named(Replaced(o, f)) = {f}
<1>. DEFINE i == IF o.service THEN "service" ELSE "extension"
<1>1. Names("upstream_extension", i)
  BY SourceNames
<1>2. Replaced(o, f) = {f} \X {i}
  BY DEF Replaced
<1>. HIDE DEF i
<1>3. Agree({f} \X {i}, {f} \X {"upstream_extension"}) /\ Named({f} \X {i}) = {f}
  BY <1>1, RowAgrees
<1>. QED
  BY <1>2, <1>3

\* A row of one field.
LEMMA FieldAgrees ==
  ASSUME NEW f, NEW i, NEW source, Names(source, i)
  PROVE  Agree({<<f, i>>}, {<<f, source>>}) /\ Named({<<f, i>>}) = {f}
<1>1. {<<f, i>>} = {f} \X {i} /\ {<<f, source>>} = {f} \X {source}
  OBVIOUS
<1>2. Agree({f} \X {i}, {f} \X {source}) /\ Named({f} \X {i}) = {f}
  BY RowAgrees
<1>. QED
  BY <1>1, <1>2

\* The two tables of each compiler.
LEMMA AgreeMGC == ASSUME NEW o \in Options PROVE Agree(PacketMGC(o), ProvenanceMGC(o))
<1>. DEFINE F == {"dxy_context", "yield_context", "swing_penetration_volume_summary",
                  "macro_fear_catalyst_summary"}
            Q == F \X {"extension"}
            D == F \X {"upstream_extension"}
<1>1. Agree(Q, D) /\ Named(Q) = F
  BY RowAgrees, SourceNames
<1>2. F \cap MarketNames = {}
  BY DEF MarketNames, PayloadNames, Constants, AssistFields, Measured, BarFields,
         ProfileFields, LookbackFields
<1>3. PacketMGC(o) = WholeMarket(o) \cup Q /\ ProvenanceMGC(o) = WholeMarketProvenance(o) \cup D
  BY DEF PacketMGC, ProvenanceMGC
<1>. HIDE DEF F, Q, D
<1>. QED
  BY <1>1, <1>2, <1>3, ExtensionAgrees

LEMMA AgreeSixE == ASSUME NEW o \in Options PROVE Agree(PacketSixE(o), ProvenanceSixE(o))
<1>. DEFINE F == {"asia_high_low", "london_high_low", "ny_high_low_so_far"}
            G == {"dxy_context", "europe_initiative_status"}
            P == F \X {"historical"}
            C == F \X {"derived_from_historical_input"}
            Q == G \X {"extension"}
            D == G \X {"upstream_extension"}
<1>1. Agree(P, C) /\ Named(P) = F
  BY RowAgrees, SourceNames
<1>2. Agree(Q, D) /\ Named(Q) = G
  BY RowAgrees, SourceNames
<1>3. F \cap G = {} /\ F \cap MarketNames = {} /\ G \cap MarketNames = {}
  BY DEF MarketNames, PayloadNames, Constants, AssistFields, Measured, BarFields,
         ProfileFields, LookbackFields
<1>4. /\ PacketSixE(o) = WholeMarket(o) \cup (P \cup Q)
      /\ ProvenanceSixE(o) = WholeMarketProvenance(o) \cup (C \cup D)
  BY DEF PacketSixE, ProvenanceSixE
<1>. HIDE DEF F, G, P, C, Q, D
<1>5. Agree(P \cup Q, C \cup D) /\ Named(P \cup Q) = F \cup G
  BY <1>1, <1>2, <1>3, TablesAgree
<1>. QED
  BY <1>3, <1>4, <1>5, ExtensionAgrees

LEMMA AgreeZN == ASSUME NEW o \in Options PROVE Agree(PacketZN(o), ProvenanceZN(o))
<1>. DEFINE f == "cash_10y_yield"
            G == {"treasury_auction_schedule", "macro_release_context", "absorption_summary"}
            P == Replaced(o, f)
            C == {f} \X {"upstream_extension"}
            Q == G \X {"extension"}
            D == G \X {"upstream_extension"}
<1>1. Agree(P, C) /\ Named(P) = {f}
  BY ReplacedAgrees
<1>2. Agree(Q, D) /\ Named(Q) = G
  BY RowAgrees, SourceNames
<1>3. {f} \cap G = {} /\ {f} \cap MarketNames = {} /\ G \cap MarketNames = {}
  BY DEF MarketNames, PayloadNames, Constants, AssistFields, Measured, BarFields,
         ProfileFields, LookbackFields
<1>4. /\ PacketZN(o) = WholeMarket(o) \cup (P \cup Q)
      /\ ProvenanceZN(o) = WholeMarketProvenance(o) \cup (C \cup D)
  BY DEF PacketZN, ProvenanceZN
<1>. HIDE DEF f, G, P, C, Q, D
<1>5. Agree(P \cup Q, C \cup D) /\ Named(P \cup Q) = {f} \cup G
  BY <1>1, <1>2, <1>3, TablesAgree
<1>. QED
  BY <1>3, <1>4, <1>5, ExtensionAgrees

LEMMA AgreeCL == ASSUME NEW o \in Options PROVE Agree(PacketCL(o), ProvenanceCL(o))
<1>. DEFINE f == "eia_timing"
            g == "realized_volatility_context"
            H == {"oil_specific_headlines", "liquidity_sweep_summary", "dom_liquidity_summary"}
            P == Replaced(o, f)
            C == {f} \X {"upstream_extension"}
            Q == H \X {"extension"}
            D == H \X {"upstream_extension"}
            R == {<<g, "historical">>}
            E == {<<g, "historical_input">>}
<1>1. Agree(P, C) /\ Named(P) = {f}
  BY ReplacedAgrees
<1>2. Agree(Q, D) /\ Named(Q) = H
  BY RowAgrees, SourceNames
<1>3. Agree(R, E) /\ Named(R) = {g}
  BY FieldAgrees, SourceNames
<1>4. /\ {f} \cap H = {} /\ ({f} \cup H) \cap {g} = {}
      /\ ({f} \cup H \cup {g}) \cap MarketNames = {}
  BY DEF MarketNames, PayloadNames, Constants, AssistFields, Measured, BarFields,
         ProfileFields, LookbackFields
<1>5. PacketCL(o) = WholeMarket(o) \cup (P \cup Q \cup R)
  BY DEF PacketCL
<1>6. ProvenanceCL(o) = WholeMarketProvenance(o) \cup (C \cup D \cup E)
  BY DEF ProvenanceCL
<1>. HIDE DEF f, g, H, P, C, Q, D, R, E
<1>7. Agree(P \cup Q, C \cup D) /\ Named(P \cup Q) = {f} \cup H
  BY <1>1, <1>2, <1>4, TablesAgree
<1>8. Agree(P \cup Q \cup R, C \cup D \cup E) /\ Named(P \cup Q \cup R) = {f} \cup H \cup {g}
  <2>1. Named(P \cup Q) \cap Named(R) = {}
    BY <1>3, <1>4, <1>7
  <2>2. /\ Agree(P \cup Q \cup R, C \cup D \cup E)
        /\ Named(P \cup Q \cup R) = Named(P \cup Q) \cup Named(R)
    BY <1>3, <1>7, <2>1, TablesAgree
  <2>. QED
    BY <1>3, <1>7, <2>2
<1>9. Named(P \cup Q \cup R) \cap MarketNames = {}
  BY <1>4, <1>8
<1>. QED
  BY <1>5, <1>6, <1>8, <1>9, ExtensionAgrees

\* NQ reads one field from two inputs, and records it with a source that names both.
LEMMA AgreeNQ == ASSUME NEW o \in Options PROVE Agree(PacketNQ(o), ProvenanceNQ(o))
<1>. DEFINE f == "relative_strength_vs_es"
            g == "megacap_leadership_table"
            P == {<<f, "historical">>, <<f, "relative_strength">>}
            C == {<<f, "comparative_input">>}
            Q == {<<g, "extension">>}
            D == {<<g, "upstream_extension">>}
<1>1. Agree(P, C) /\ Named(P) = {f}
  <2>1. Named(P) = {f} /\ Named(C) = {f}
    BY DEF Named
  <2>2. \A p \in P, c \in C : p[2] \in Means[c[2]] /\ p[2] # "service"
    <3>1. \A p \in P : p[2] = "historical" \/ p[2] = "relative_strength"
      OBVIOUS
    <3>2. \A c \in C : c[2] = "comparative_input"
      OBVIOUS
    <3>. QED
      BY <3>1, <3>2, SourceNames DEF Names
  <2>. QED
    BY <2>1, <2>2 DEF Agree
<1>2. Agree(Q, D) /\ Named(Q) = {g}
  BY FieldAgrees, SourceNames
<1>3. {f} \cap {g} = {} /\ ({f} \cup {g}) \cap MarketNames = {}
  BY DEF MarketNames, PayloadNames, Constants, AssistFields, Measured, BarFields,
         ProfileFields, LookbackFields
<1>4. PacketNQ(o) = WholeMarket(o) \cup (P \cup Q)
  BY DEF PacketNQ
<1>5. ProvenanceNQ(o) = WholeMarketProvenance(o) \cup (C \cup D)
  BY DEF ProvenanceNQ
<1>. HIDE DEF f, g, P, C, Q, D
<1>6. Agree(P \cup Q, C \cup D) /\ Named(P \cup Q) = {f} \cup {g}
  <2>1. Named(P) \cap Named(Q) = {}
    BY <1>1, <1>2, <1>3
  <2>2. /\ Agree(P \cup Q, C \cup D)
        /\ Named(P \cup Q) = Named(P) \cup Named(Q)
    BY <1>1, <1>2, <2>1, TablesAgree
  <2>. QED
    BY <1>1, <1>2, <2>2
<1>. QED
  BY <1>3, <1>4, <1>5, <1>6, ExtensionAgrees

LEMMA AgreeES == ASSUME NEW o \in Options PROVE Agree(PacketES(o), ProvenanceES(o))
<1>. DEFINE K == Constants \X {"constant"} \cup OverlayFields(o)
            L == ConstantProvenance \cup OverlayProvenance(o)
            Common == Constants \cup AssistFields \cup {"challenge_state", "opening_type"}
            B == BarFields \X {"historical"}      BB == BarFields \X {"historical_bars"}
            P == ProfileFields \X {"historical"}  PP == ProfileFields \X {"historical_profile"}
            M == LookbackFields \X {"historical"} MM == LookbackFields \X {"historical_lookback"}
            fields == {"cumulative_delta", "event_calendar_remainder", "breadth",
                       "index_cash_tone"}
            c == {<<"cumulative_delta", "cumulative_delta">>}
            e == {<<"event_calendar_remainder", "calendar">>}
            b == {<<"breadth", "breadth">>}
            t == {<<"index_cash_tone", "index_cash_tone">>}
            cc == {<<"cumulative_delta", "upstream_cumulative_delta">>}
            ee == {<<"event_calendar_remainder", "upstream_calendar">>}
            bb == {<<"breadth", "upstream_breadth">>}
            tt == {<<"index_cash_tone", "upstream_index_cash_tone">>}
<1>1. Agree(K, L) /\ Named(K) = Common
  BY CommonAgrees
<1>2. Agree(B, BB) /\ Named(B) = BarFields
  BY RowAgrees, SourceNames
<1>3. Agree(P, PP) /\ Named(P) = ProfileFields
  BY RowAgrees, SourceNames
<1>4. Agree(M, MM) /\ Named(M) = LookbackFields
  BY RowAgrees, SourceNames
<1>5. Agree(c, cc) /\ Named(c) = {"cumulative_delta"}
  BY FieldAgrees, SourceNames
<1>6. Agree(e, ee) /\ Named(e) = {"event_calendar_remainder"}
  BY FieldAgrees, SourceNames
<1>7. Agree(b, bb) /\ Named(b) = {"breadth"}
  BY FieldAgrees, SourceNames
<1>8. Agree(t, tt) /\ Named(t) = {"index_cash_tone"}
  BY FieldAgrees, SourceNames
<1>9. /\ Common \cap BarFields = {} /\ (Common \cup BarFields) \cap ProfileFields = {}
      /\ (Common \cup BarFields \cup ProfileFields) \cap LookbackFields = {}
  BY DEF Constants, AssistFields, BarFields, ProfileFields, LookbackFields
<1>10. (Common \cup BarFields \cup ProfileFields \cup LookbackFields) \cap fields = {}
  BY DEF Constants, AssistFields, BarFields, ProfileFields, LookbackFields
<1>11. PacketES(o) = (K \cup B \cup P \cup M) \cup (c \cup e \cup b \cup t)
  BY DEF PacketES, Payload, Measured
<1>12. ProvenanceES(o) = (L \cup BB \cup PP \cup MM) \cup (cc \cup ee \cup bb \cup tt)
  BY DEF ProvenanceES
<1>. HIDE DEF K, L, Common, B, BB, P, PP, M, MM, c, e, b, t, cc, ee, bb, tt
<1>13. Agree(K \cup B, L \cup BB) /\ Named(K \cup B) = Common \cup BarFields
  BY <1>1, <1>2, <1>9, TablesAgree
<1>14. /\ Agree(K \cup B \cup P, L \cup BB \cup PP)
       /\ Named(K \cup B \cup P) = Common \cup BarFields \cup ProfileFields
  BY <1>3, <1>9, <1>13, TablesAgree
<1>15. /\ Agree(K \cup B \cup P \cup M, L \cup BB \cup PP \cup MM)
       /\ Named(K \cup B \cup P \cup M) =
            Common \cup BarFields \cup ProfileFields \cup LookbackFields
  BY <1>4, <1>9, <1>14, TablesAgree
<1>16. /\ Agree(c \cup e, cc \cup ee)
       /\ Named(c \cup e) = {"cumulative_delta", "event_calendar_remainder"}
  <2>1. Named(c) \cap Named(e) = {}
    BY <1>5, <1>6
  <2>. QED
    BY <1>5, <1>6, <2>1, TablesAgree
<1>17. /\ Agree(c \cup e \cup b, cc \cup ee \cup bb)
       /\ Named(c \cup e \cup b) = {"cumulative_delta", "event_calendar_remainder", "breadth"}
  <2>1. Named(c \cup e) \cap Named(b) = {}
    BY <1>7, <1>16
  <2>2. /\ Agree(c \cup e \cup b, cc \cup ee \cup bb)
        /\ Named(c \cup e \cup b) = Named(c \cup e) \cup Named(b)
    BY <1>7, <1>16, <2>1, TablesAgree
  <2>. QED
    BY <1>7, <1>16, <2>2
<1>18. Agree(c \cup e \cup b \cup t, cc \cup ee \cup bb \cup tt) /\ Named(c \cup e \cup b \cup t) = fields
  <2>1. Named(c \cup e \cup b) \cap Named(t) = {}
    BY <1>8, <1>17
  <2>2. /\ Agree(c \cup e \cup b \cup t, cc \cup ee \cup bb \cup tt)
        /\ Named(c \cup e \cup b \cup t) = Named(c \cup e \cup b) \cup Named(t)
    BY <1>8, <1>17, <2>1, TablesAgree
  <2>. QED
    BY <1>8, <1>17, <2>2
<1>. HIDE DEF fields
<1>19. Named(K \cup B \cup P \cup M) \cap Named(c \cup e \cup b \cup t) = {}
  BY <1>10, <1>15, <1>18
<1>20. Agree((K \cup B \cup P \cup M) \cup (c \cup e \cup b \cup t),
              (L \cup BB \cup PP \cup MM) \cup (cc \cup ee \cup bb \cup tt))
  BY <1>15, <1>18, <1>19, TablesAgree
<1>. QED
  BY <1>11, <1>12, <1>20

\* The tables of what was compiled agree.
LEMMA CompileAgrees ==
  ASSUME TypeOK, ProvenanceTrue, NEW r \in Runs, NEW P, NEW C, Agree(P, C), Compile(r, P, C)
  PROVE  ProvenanceTrue'
<1>1. packet' = [packet EXCEPT ![r] = P] /\ provenance' = [provenance EXCEPT ![r] = C]
  BY DEF Compile
<1>2. ASSUME NEW q \in Runs PROVE Agree(packet'[q], provenance'[q])
  <2>1. CASE q = r
    BY <1>1, <2>1 DEF TypeOK
  <2>2. CASE q # r
    <3>1. packet'[q] = packet[q] /\ provenance'[q] = provenance[q]
      BY <1>1, <2>2 DEF TypeOK
    <3>. QED
      BY <3>1 DEF ProvenanceTrue, Agree, Named
  <2>. QED
    BY <2>1, <2>2
<1>. QED
  BY <1>2 DEF ProvenanceTrue, Agree, Named

\* Every field of every compiled packet is recorded, with the input it came from, for
\* all six compilers and all command lines; a service's value is the one exception.
THEOREM ProvenanceCorrect == Spec => []ProvenanceTrue
<1>1. Init => ProvenanceTrue
  BY DEF Init, ProvenanceTrue
<1>2. TypeOK /\ ProvenanceTrue /\ [Next]_vars => ProvenanceTrue'
  <2>. SUFFICES ASSUME TypeOK, ProvenanceTrue, [Next]_vars PROVE ProvenanceTrue'
    OBVIOUS
  <2>1. CASE UNCHANGED <<packet, provenance>>
    BY <2>1 DEF ProvenanceTrue
  <2>. SUFFICES ASSUME NEW r \in Runs,
                       \/ CompileES(r) \/ CompileCL(r) \/ CompileNQ(r)
                       \/ CompileSixE(r) \/ CompileZN(r) \/ CompileMGC(r)
                PROVE  ProvenanceTrue'
    BY <2>1 DEF Next, vars, Publish, LoadHistorical, LoadOverlay, LoadUpstream,
                LoadComparison, LoadExtension, LoadYield, LoadEiaTiming, Load, Refuse,
                OpenPacket, WritePacket, FailToEncode, OpenProvenance, WriteProvenance, Cut
  <2>2. args[r] \in Options
    BY DEF TypeOK
  <2>. QED
    BY <2>2, AgreeES, AgreeCL, AgreeNQ, AgreeSixE, AgreeZN, AgreeMGC, CompileAgrees
       DEF CompileES, CompileCL, CompileNQ, CompileSixE, CompileZN, CompileMGC
<1>. QED
  BY <1>1, <1>2, TypeCorrect, PTL DEF Spec
=============================================================================
