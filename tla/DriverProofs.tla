---------------------------- MODULE DriverProofs ----------------------------
(***************************************************************************)
(* For every number of signature packs and every command line: no FLIRT    *)
(* thread outlives the process, when packs are embedded the discovery gets *)
(* the trees of all the parsable ones in registry order, and the exit code *)
(* tells whether a report was written.                                     *)
(***************************************************************************)
EXTENDS Driver, TLAPS

\* The loader's decoders: none before the launch or after a first start that
\* failed, only the packs counted by `started` while they are being started,
\* none left running once the set is ready.
LoaderInv ==
    /\ started \in Nat /\ started >= 1
    /\ loader \in LoaderState
    /\ decoder \in [Pack -> DecoderState]
    /\ loader = "unlaunched" => started = 1
    /\ loader \in {"unlaunched", "failed"} => \A i \in Pack : decoder[i] = "unborn"
    /\ loader = "starting" =>
           \A i \in Pack : decoder[i] # "unborn" => 1 <= i /\ i < started
    /\ loader = "ready" => \A i \in Pack : decoder[i] = "exited"

\* The slots hold exactly the parsable packs whose decoder has ended, and the
\* future the trees of all of them.
SlotsInv ==
    /\ parsed = {i \in Parsable : decoder[i] = "exited"}
    /\ loader = "ready" /\ Packs > 0 => trees = InRegistryOrder(Parsable)

\* Where the main thread is decides what it knows of the loader.
PointInv ==
    /\ pc \in {"args", "run", "sample", "rulesdir", "async"} => loader = "unlaunched"
    /\ pc \in {"capabilities", "emit"} => loader = "ready"
    /\ pc = "exited" => loader \in {"unlaunched", "ready", "failed"}

Inv == LoaderInv /\ SlotsInv /\ PointInv

LEMMA InitInv == Init => Inv
<1> SUFFICES ASSUME PacksInit, pc = "args" PROVE Inv
  BY DEF Init
<1>1. \A i \in Pack : decoder[i] = "unborn"
  BY DEF PacksInit
<1>2. LoaderInv
  BY <1>1 DEF PacksInit, LoaderInv, LoaderState, DecoderState
<1>3. SlotsInv
  BY <1>1, PacksAssumption DEF PacksInit, SlotsInv
<1>4. PointInv
  BY DEF PacksInit, PointInv
<1> QED
  BY <1>2, <1>3, <1>4 DEF Inv

\* The steps of the background threads.
LEMMA BackgroundInv == ASSUME Inv, Background PROVE Inv'
<1> USE PacksAssumption DEF Inv, LoaderInv, SlotsInv, PointInv, LoaderState, DecoderState, Pack
<1>0. UNCHANGED pc
  BY DEF Background, driverVars
<1>2. CASE StartDecoder
  BY <1>0, <1>2 DEF StartDecoder
<1>3. CASE StartOwn
  BY <1>0, <1>3 DEF StartOwn
<1>4. CASE Adopt
  <2>1. parsed = Parsable
    BY <1>4 DEF Adopt
  <2>2. trees' = InRegistryOrder(Parsable)
    BY <1>4, <2>1 DEF Adopt
  <2> QED
    BY <1>0, <1>4, <2>2 DEF Adopt
<1>5. ASSUME NEW i \in Pack, ParseOne(i) PROVE Inv'
  BY <1>0, <1>5 DEF ParseOne
<1> QED
  BY <1>2, <1>3, <1>4, <1>5 DEF Background, LoaderStep, DecoderStep

\* A thread that cannot be started.
LEMMA FailureInv == ASSUME Inv, BackgroundFails PROVE Inv'
BY PacksAssumption
   DEF BackgroundFails, StartDecoderFails, Running, Inv, LoaderInv, SlotsInv, PointInv,
       LoaderState, DecoderState, Pack

\* The steps of the main thread; LaunchFlirt is the only one that touches the
\* loader.
LEMMA MainInv == ASSUME Inv, MainStep PROVE Inv'
<1> USE DEF Inv, LoaderInv, SlotsInv, PointInv, LoaderState, packVars
<1>1. CASE ParseStep
  BY <1>1 DEF ParseStep, ParseFlag, ParseOption, ParseSample, ParseError, ParseDone, Store
<1>2. CASE Loading
  BY <1>2 DEF Loading, Inform, StartRun, SampleMissing, SampleRejected, SampleUndetermined,
       SampleLoaded, RulesDirMissing, RulesDirUndetermined, RulesDirExists, Goto, Return, Throw
<1>3. CASE LaunchFlirt
  BY <1>3, PacksAssumption DEF LaunchFlirt, LaunchLoader, Pack, DecoderState
<1>4. CASE Analysing /\ ~ LaunchFlirt
  BY <1>4 DEF Analysing, LaunchFlirtFails, RulesFail, RulesLoaded, GateLimited, GateOpen,
       GetFlirt, FindCapabilities, FindCapabilitiesThrows, FindCapabilitiesTerminates,
       OutputUnopened, EmitReport, Goto, Return, Throw
<1>5. CASE Leave
  BY <1>5 DEF Leave, Goto, FutureReady
<1> QED
  BY <1>1, <1>2, <1>3, <1>4, <1>5 DEF MainStep, Analysing

LEMMA StepInv == Inv /\ [Next]_vars => Inv'
<1> SUFFICES ASSUME Inv, [Next]_vars PROVE Inv'
  OBVIOUS
<1>1. CASE MainStep
  BY <1>1, MainInv
<1>2. CASE Background
  BY <1>2, BackgroundInv
<1>3. CASE BackgroundFails
  BY <1>3, FailureInv
<1>4. CASE UNCHANGED vars
  BY <1>4 DEF vars, driverVars, packVars, Inv, LoaderInv, SlotsInv, PointInv
<1> QED
  BY <1>1, <1>2, <1>3, <1>4 DEF Next, Finished

\* The position of the main thread, the loader and its decoders agree in every
\* state of run and main.
THEOREM DriverInvariant == Spec => []Inv
BY InitInv, StepInv, PTL DEF Spec

\* Whatever the command line, the rules, the gate and the failures: once the
\* process has exited, neither the std::async thread nor a decoder is running.
THEOREM NoThreadOutlives == Spec => []NoThreadOutlivesRun
<1>1. Inv => NoThreadOutlivesRun
  BY DEF Inv, LoaderInv, PointInv, NoThreadOutlivesRun
<1> QED
  BY <1>1, DriverInvariant, PTL

\* With a non-empty registry, the set the backend is built from holds the tree
\* of every parsable pack in registry order, whatever the decoders' order.
THEOREM SignaturesComplete == ASSUME Packs > 0 PROVE Spec => []SignaturesWhole
<1>1. Inv => SignaturesWhole
  BY DEF Inv, SlotsInv, PointInv, SignaturesWhole
<1> QED
  BY <1>1, DriverInvariant, PTL

\* Nothing is written before run is left, and from then on the code it is left
\* with tells of it.
ReportInv ==
    /\ pc \notin {"leaving", "exited", "terminated"} => written = <<>>
    /\ pc \in {"leaving", "exited"} =>
           Len(written) = IF code \in {kExitOk, kExitFileLimitation} THEN 1 ELSE 0

LEMMA MainReport == ASSUME ReportInv, MainStep PROVE ReportInv'
<1> USE DEF ReportInv, kExitOk, kExitUsage, kExitFileLimitation, kExitMissingFile,
        kExitInvalidFileType, kExitInvalidRule, kExitUnexpectedFailure
<1>1. CASE ParseStep
  BY <1>1 DEF ParseStep, ParseFlag, ParseOption, ParseSample, ParseError, ParseDone, Store
<1>2. CASE Inform \/ GateLimited \/ EmitReport
  <2>1. written = <<>> /\ \E r : written' = Append(<<>>, r)
    BY <1>2 DEF Inform, GateLimited, EmitReport, Write
  <2>2. Len(written') = 1
    BY <2>1
  <2>3. pc' = "leaving" /\ code' \in {kExitOk, kExitFileLimitation}
    BY <1>2 DEF Inform, GateLimited, EmitReport
  <2> QED
    BY <2>2, <2>3
<1>3. CASE Loading /\ ~ Inform
  BY <1>3 DEF Loading, StartRun, SampleMissing, SampleRejected, SampleUndetermined,
       SampleLoaded, RulesDirMissing, RulesDirUndetermined, RulesDirExists, Goto, Return, Throw
<1>4. CASE Analysing /\ ~ GateLimited /\ ~ EmitReport
  BY <1>4 DEF Analysing, LaunchFlirt, LaunchFlirtFails, RulesFail, RulesLoaded, GateOpen,
       GetFlirt, FindCapabilities, FindCapabilitiesThrows, FindCapabilitiesTerminates,
       OutputUnopened, Goto, Return, Throw
<1>5. CASE Leave
  BY <1>5 DEF Leave, Goto
<1> QED
  BY <1>1, <1>2, <1>3, <1>4, <1>5 DEF MainStep, Loading, Analysing

LEMMA StepReport == ReportInv /\ [Next]_vars => ReportInv'
<1> SUFFICES ASSUME ReportInv, [Next]_vars PROVE ReportInv'
  OBVIOUS
<1>1. CASE MainStep
  BY <1>1, MainReport
<1>2. CASE Background
  BY <1>2 DEF Background, driverVars, ReportInv
<1>3. CASE BackgroundFails
  BY <1>3 DEF BackgroundFails, Running, ReportInv
<1>4. CASE UNCHANGED vars
  BY <1>4 DEF vars, driverVars, ReportInv
<1> QED
  BY <1>1, <1>2, <1>3, <1>4 DEF Next, Finished

\* Whatever the command line and whatever fails: a script can tell from the exit
\* code whether run has written a report, or the text asked for, exactly once.
THEOREM ExitCodeTellsReport == Spec => []ExitTellsReport
<1>1. Init => ReportInv
  BY DEF Init, ReportInv
<1>2. ReportInv => ExitTellsReport
  BY DEF ReportInv, ExitTellsReport
<1> QED
  BY <1>1, <1>2, StepReport, PTL DEF Spec
=============================================================================
