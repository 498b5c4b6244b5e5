------------------------------- MODULE Driver -------------------------------
(***************************************************************************)
(* The command line driver: main of tools/papa/papa_main.cpp, parse_args   *)
(* and run of src/main_driver.cpp, composed with the FLIRT loader that run *)
(* starts in the background (FlirtPacks).                                  *)
(*                                                                         *)
(* The file system and the analyses answer nondeterministically where the  *)
(* code asks them.  Callees whose Expected result is always a value        *)
(* (find_limitation_capabilities, find_file_capabilities,                  *)
(* PapaNativeBackend::build, find_static_capabilities) have no error       *)
(* branch here; find_static_capabilities may rethrow a worker's exception  *)
(* or terminate (RunIndexed).  Running out of memory is not modelled.      *)
(***************************************************************************)
EXTENDS FlirtPacks

CONSTANTS
    Paths,     \* arguments that do not start with '-'
    MaxArgs    \* bound on the length of the command line

ASSUME ArgsAssumption == MaxArgs \in Nat

NoPath == ""

Flags  == {"-h", "--version", "-q", "-j", "-v", "-vv", "-r", "-o"}
Tokens == Flags \cup Paths \cup {NoPath, "-unknown"}

kExitOk == 0
kExitUsage == 2
kExitFileLimitation == 10
kExitMissingFile == 11
kExitInvalidFileType == 12
kExitInvalidRule == 13
kExitUnexpectedFailure == 64

VARIABLES
    pc,        \* where the main thread is
    argv,      \* the arguments parse_args has still to read
    args,      \* the Args filled so far
    code,      \* the exit code once it is decided
    written    \* what was written to stdout or to the output file

driverVars == <<pc, argv, args, code, written>>
vars       == <<driverVars, packVars>>

\* The value of an option is any token at all, a flag or the empty string included.
NotSet == [set |-> FALSE, value |-> NoPath]

CommandLines == UNION {[1 .. n -> Tokens] : n \in 0 .. MaxArgs}

Init ==
    /\ PacksInit
    /\ pc = "args"
    /\ argv \in CommandLines
    /\ args = [sample |-> NoPath, rules |-> NotSet, output |-> NoPath,
               mode |-> "default", help |-> FALSE, version |-> FALSE]
    /\ code = kExitOk
    /\ written = <<>>

-----------------------------------------------------------------------------
(***************************************************************************)
(* parse_args                                                              *)
(***************************************************************************)
Arg == Head(argv)

Store(newArgs) ==
    /\ args' = newArgs
    /\ argv' = Tail(argv)
    /\ UNCHANGED <<pc, code, written, packVars>>

\* A flag without a value; the last output mode named wins, -q is not kept.
ParseFlag ==
    /\ pc = "args" /\ argv # <<>>
    /\ LET mode == CASE Arg = "-j" -> "json" [] Arg = "-v" -> "verbose"
                     [] Arg = "-vv" -> "vverbose" [] OTHER -> args.mode
       IN  /\ Arg \in Flags \ {"-r", "-o"}
           /\ Store([args EXCEPT !.mode = mode,
                                 !.help = @ \/ Arg = "-h",
                                 !.version = @ \/ Arg = "--version"])

\* -r and -o take the next argument whatever it is.
ParseOption ==
    /\ pc = "args" /\ Len(argv) > 1
    /\ Arg \in {"-r", "-o"}
    /\ args' = IF Arg = "-r"
               THEN [args EXCEPT !.rules = [set |-> TRUE, value |-> argv[2]]]
               ELSE [args EXCEPT !.output = argv[2]]
    /\ argv' = Tail(Tail(argv))
    /\ UNCHANGED <<pc, code, written, packVars>>

\* The first positional argument is the sample.
ParseSample ==
    /\ pc = "args" /\ argv # <<>>
    /\ Arg \in Paths
    /\ args.sample = NoPath
    /\ Store([args EXCEPT !.sample = Arg])

\* An option without its value, a second sample, an unknown or empty argument:
\* main prints the error and returns the parser's code without entering run().
ParseError ==
    /\ pc = "args" /\ argv # <<>>
    /\ \/ Arg \in {"-r", "-o"} /\ Len(argv) = 1
       \/ Arg \in Paths /\ args.sample # NoPath
       \/ Arg \in {NoPath, "-unknown"}
    /\ pc' = "exited"
    /\ code' = kExitUsage
    /\ UNCHANGED <<argv, args, written, packVars>>

ParseDone ==
    /\ pc = "args" /\ argv = <<>>
    /\ pc' = "run"
    /\ UNCHANGED <<argv, args, code, written, packVars>>

-----------------------------------------------------------------------------
(***************************************************************************)
(* run                                                                     *)
(***************************************************************************)
Frozen == UNCHANGED <<argv, args>>

Goto(point) ==
    /\ pc' = point
    /\ Frozen
    /\ UNCHANGED <<code, written, packVars>>

\* return c: the locals of run, the future among them, are destroyed next.
Return(c) ==
    /\ pc' = "leaving"
    /\ code' = c
    /\ Frozen
    /\ UNCHANGED <<written, packVars>>

\* An exception unwinds run(); main turns it into kExitUnexpectedFailure.
Throw ==
    /\ pc' = "leaving"
    /\ code' = kExitUnexpectedFailure
    /\ Frozen
    /\ UNCHANGED <<written, packVars>>

Write(what, to, as) == written' = Append(written, [what |-> what, to |-> to, as |-> as])

\* --version before --help, both before anything is opened.
Inform ==
    /\ pc = "run"
    /\ args.version \/ args.help
    /\ pc' = "leaving"
    /\ code' = kExitOk
    /\ Write(IF args.version THEN "version" ELSE "usage", "stdout", "default")
    /\ Frozen
    /\ UNCHANGED packVars

StartRun ==
    /\ pc = "run"
    /\ ~ args.version /\ ~ args.help
    /\ Goto("sample")

\* load_sample: no path; the path does not exist or cannot be read; too large
\* or not a PE file.  filesystem::exists without an error_code throws when the
\* status of the path cannot be determined.
SampleMissing ==
    /\ pc = "sample"
    /\ \/ args.sample = NoPath /\ Return(kExitUsage)
       \/ args.sample # NoPath /\ Return(kExitMissingFile)

SampleRejected ==
    /\ pc = "sample"
    /\ args.sample # NoPath
    /\ Return(kExitInvalidFileType)

SampleUndetermined ==
    /\ pc = "sample"
    /\ args.sample # NoPath
    /\ Throw

SampleLoaded ==
    /\ pc = "sample"
    /\ args.sample # NoPath
    /\ Goto("rulesdir")

\* The rules directory must exist; the empty path never does.
RulesDirMissing ==
    /\ pc = "rulesdir"
    /\ args.rules.set
    /\ Return(kExitInvalidRule)

RulesDirUndetermined ==
    /\ pc = "rulesdir"
    /\ args.rules.set /\ args.rules.value # NoPath
    /\ Throw

RulesDirExists ==
    /\ pc = "rulesdir"
    /\ args.rules.set => args.rules.value # NoPath
    /\ Goto("async")

\* std::async(std::launch::async, make_embedded), which throws when it cannot
\* start a thread.
LaunchFlirt ==
    /\ pc = "async"
    /\ LaunchLoader
    /\ pc' = "rules"
    /\ Frozen
    /\ UNCHANGED <<code, written>>

LaunchFlirtFails ==
    /\ pc = "async"
    /\ Throw

\* from_directory fails on a path it cannot enumerate, a file it cannot open
\* or a dependency cycle; the embedded rules load.
RulesFail ==
    /\ pc = "rules"
    /\ args.rules.set
    /\ Return(kExitInvalidRule)

RulesLoaded ==
    /\ pc = "rules"
    /\ Goto("gate")

Verbosity == IF args.mode = "json" THEN "json" ELSE "default"

\* run_limitation_gate finds a static limitation: the file-scope report goes to
\* stdout, as JSON or as default text, and the code passes are skipped.
GateLimited ==
    /\ pc = "gate"
    /\ pc' = "leaving"
    /\ code' = kExitFileLimitation
    /\ Write("report", "stdout", Verbosity)
    /\ Frozen
    /\ UNCHANGED packVars

GateOpen ==
    /\ pc = "gate"
    /\ Goto("get")

\* Mutant of GetFlirt: the wait polls for a value and never sees the error.
GetFlirtPolling ==
    /\ pc = "get"
    /\ \/ loader = "ready" /\ Goto("capabilities")
       \/ loader = "failed" /\ UNCHANGED vars

\* flirt_sigs.get() waits for make_embedded, then returns its set or rethrows;
\* the backend is built from the set.
GetFlirt ==
    /\ pc = "get"
    /\ \/ loader = "ready" /\ Goto("capabilities")
       \/ loader = "failed" /\ Throw

\* find_static_capabilities and the document.
FindCapabilities ==
    /\ pc = "capabilities"
    /\ Goto("emit")

\* It rethrows the first exception of its pool.
FindCapabilitiesThrows ==
    /\ pc = "capabilities"
    /\ Throw

\* Its pool is destroyed with joinable threads.
FindCapabilitiesTerminates ==
    /\ pc = "capabilities"
    /\ Goto("terminated")

\* Mutant of OutputUnopened: the failed stream is written to regardless.
OutputUnchecked ==
    /\ pc = "emit"
    /\ args.output # NoPath
    /\ Return(kExitOk)

\* emit_report: the output path cannot be opened.
OutputUnopened ==
    /\ pc = "emit"
    /\ args.output # NoPath
    /\ Return(kExitUnexpectedFailure)

\* emit_report: the report goes to the output path, or to stdout without one.
EmitReport ==
    /\ pc = "emit"
    /\ pc' = "leaving"
    /\ code' = kExitOk
    /\ Write("report", IF args.output = NoPath THEN "stdout" ELSE "file", args.mode)
    /\ Frozen
    /\ UNCHANGED packVars

\* Mutant of Leave: the future is abandoned instead of waited for.
LeaveDetached ==
    /\ pc = "leaving"
    /\ Goto("exited")

\* The end of run(), normal or by an exception that main catches.  A future
\* of std::async waits in its destructor.
Leave ==
    /\ pc = "leaving"
    /\ loader = "unlaunched" \/ FutureReady
    /\ Goto("exited")

-----------------------------------------------------------------------------
Running == pc \notin {"exited", "terminated"}

\* A step of the loader or of a decoder while the process is alive.
Background ==
    /\ pc # "terminated"
    /\ LoaderStep \/ DecoderStep
    /\ UNCHANGED driverVars

\* A failed thread start; std::terminate ends the whole process.
BackgroundFails ==
    /\ Running
    /\ StartDecoderFails
    /\ pc' = IF loader' = "terminated" THEN "terminated" ELSE pc
    /\ Frozen
    /\ UNCHANGED <<code, written>>

ParseStep == ParseFlag \/ ParseOption \/ ParseSample \/ ParseError \/ ParseDone

Loading ==
    \/ Inform \/ StartRun
    \/ SampleMissing \/ SampleRejected \/ SampleUndetermined \/ SampleLoaded
    \/ RulesDirMissing \/ RulesDirUndetermined \/ RulesDirExists

Analysing ==
    \/ LaunchFlirt \/ LaunchFlirtFails
    \/ RulesFail \/ RulesLoaded
    \/ GateLimited \/ GateOpen
    \/ GetFlirt
    \/ FindCapabilities \/ FindCapabilitiesThrows \/ FindCapabilitiesTerminates
    \/ OutputUnopened \/ EmitReport

MainStep == ParseStep \/ Loading \/ Analysing \/ Leave

\* The process is gone.
Finished == ~ Running /\ UNCHANGED vars

Next == MainStep \/ Background \/ BackgroundFails \/ Finished

Spec == Init /\ [][Next]_vars

\* The main thread and every background thread are scheduled eventually; no
\* thread is obliged to fail.
FairSpec == Spec /\ WF_vars(MainStep) /\ WF_vars(Background)

-----------------------------------------------------------------------------
(***************************************************************************)
(* Properties                                                              *)
(***************************************************************************)

\* No FLIRT thread runs once the process has exited: every path out of run(),
\* the early returns and the exceptions after std::async included, waits for
\* the future, and the loader waits for its decoders.  A thread left behind
\* would read the registry while the statics are destroyed.
NoThreadOutlivesRun ==
    pc = "exited" => /\ loader \notin {"starting", "decoding"}
                     /\ \A i \in Pack : decoder[i] # "decoding"

\* The discovery works from every parsable pack, in registry order, whatever
\* the order in which the decoders finished: the analyzers run in that order
\* on every function, so it decides which library name a function gets.
SignaturesWhole ==
    pc \in {"capabilities", "emit"} =>
        trees = InRegistryOrder(Parsable)

\* The exit code tells a script whether there is a report to read: the codes
\* kExitOk and kExitFileLimitation come with exactly one thing written, every
\* other code with nothing.
ExitTellsReport ==
    pc = "exited" =>
        Len(written) = IF code \in {kExitOk, kExitFileLimitation} THEN 1 ELSE 0

\* The program always ends, whichever of its threads fail.
Exits == <>(~ Running)
=============================================================================
