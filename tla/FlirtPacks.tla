----------------------------- MODULE FlirtPacks -----------------------------
(***************************************************************************)
(* FlirtSignatureSet::make_embedded, run by std::async while the driver    *)
(* loads the rules: one thread per embedded signature pack decodes it into *)
(* a slot of its own, the loader decodes pack 0 itself, joins the others   *)
(* and adopts the trees in registry order, skipping the packs that do not  *)
(* parse.                                                                  *)
(*                                                                         *)
(* parse_sig_buffer and the move into the slot are noexcept, so no decoder *)
(* ever stores an exception_ptr: the only exception make_embedded can let  *)
(* out is the one of its first std::thread constructor.                    *)
(***************************************************************************)
EXTENDS Naturals, Sequences

CONSTANTS
    Packs,     \* registry().size(): 3 on MSVC, 0 elsewhere
    Parsable   \* the packs parse_sig_buffer accepts

Pack == 0 .. Packs - 1

ASSUME PacksAssumption == Packs \in Nat /\ Parsable \subseteq Pack

VARIABLES
    loader,    \* the thread of the future
    started,   \* packs whose decoder was started, in registry order
    decoder,   \* decoder[i]: the thread that decodes pack i
    parsed,    \* the slots that hold a tree
    trees      \* what the future holds

packVars == <<loader, started, decoder, parsed, trees>>

LoaderState  == {"unlaunched", "starting", "decoding", "ready", "failed", "terminated"}
DecoderState == {"unborn", "decoding", "exited"}

PacksInit ==
    /\ loader = "unlaunched"
    /\ started = 1
    /\ decoder = [i \in Pack |-> "unborn"]
    /\ parsed = {}
    /\ trees = <<>>

\* std::async starts the thread that runs make_embedded, which returns the
\* empty set at once when nothing is embedded.
LaunchLoader ==
    /\ loader = "unlaunched"
    /\ loader' = IF Packs = 0 THEN "ready" ELSE "starting"
    /\ UNCHANGED <<started, decoder, parsed, trees>>

\* pool.emplace_back(parse_one, i) for the packs after the first.
StartDecoder ==
    /\ loader = "starting"
    /\ started < Packs
    /\ decoder' = [decoder EXCEPT ![started] = "decoding"]
    /\ started' = started + 1
    /\ UNCHANGED <<loader, parsed, trees>>

\* The std::thread constructor throws: into the future while the pool is
\* empty, std::terminate once it holds a joinable thread.
StartDecoderFails ==
    /\ loader = "starting"
    /\ started < Packs
    /\ loader' = IF started = 1 THEN "failed" ELSE "terminated"
    /\ UNCHANGED <<started, decoder, parsed, trees>>

\* parse_one(0) on the loader's own thread.
StartOwn ==
    /\ loader = "starting"
    /\ started = Packs
    /\ loader' = "decoding"
    /\ decoder' = [decoder EXCEPT ![0] = "decoding"]
    /\ UNCHANGED <<started, parsed, trees>>

\* parse_one(i): the tree goes to slot i, a pack that does not parse leaves
\* its slot empty.
ParseOne(i) ==
    /\ decoder[i] = "decoding"
    /\ decoder' = [decoder EXCEPT ![i] = "exited"]
    /\ parsed' = parsed \cup ({i} \cap Parsable)
    /\ UNCHANGED <<loader, started, trees>>

\* The trees of a set of packs in registry order.
InRegistryOrder(packs) ==
    SelectSeq([k \in 1 .. Packs |-> k - 1], LAMBDA i : i \in packs)

\* Mutant of Adopt: the loader waits for its own pack only.
AdoptBeforeJoin ==
    /\ loader = "decoding"
    /\ decoder[0] = "exited"
    /\ loader' = "ready"
    /\ trees' = InRegistryOrder(parsed)
    /\ UNCHANGED <<started, decoder, parsed>>

\* Join every decoder, then adopt the parsed slots in registry order.
Adopt ==
    /\ loader = "decoding"
    /\ \A i \in Pack : decoder[i] = "exited"
    /\ loader' = "ready"
    /\ trees' = InRegistryOrder(parsed)
    /\ UNCHANGED <<started, decoder, parsed>>

LoaderStep  == StartDecoder \/ StartOwn \/ Adopt
DecoderStep == \E i \in Pack : ParseOne(i)

\* The future's shared state is set: get() and the destructor return.
FutureReady == loader \in {"ready", "failed"}
=============================================================================
