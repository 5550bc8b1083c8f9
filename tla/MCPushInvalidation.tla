------------------------ MODULE MCPushInvalidation -------------------------
(***************************************************************************)
(* Instances of PushInvalidation.  Two requests at a time meet one change  *)
(* of another process, whose event may get lost; or changes follow each    *)
(* other faster than a channel of one event drains.                        *)
(***************************************************************************)
EXTENDS PushInvalidation, TLC

CONSTANTS a, b, f, g, t1, t2

MCNames == {a, b}
MCFiles == {f, g}
MCInodes == 1..MaxInode

OneFile == a :> f @@ b :> NoFile
TwoFiles == a :> f @@ b :> g

MCThreads == {t1, t2}

Setup(dir0, channel, busy, lookups, changes0, ops0, lossy) ==
    [dir |-> dir0, channel |-> channel, busy |-> busy, lookups |-> lookups,
     changes |-> changes0, ops |-> ops0, lossy |-> lossy]

RequestSetup == Setup(OneFile, 2, 2, 3, 1, 1, FALSE)
PipeSetup == Setup(TwoFiles, 1, 1, 2, 2, 0, FALSE)
LossyRequestSetup == Setup(OneFile, 1, 2, 2, 1, 0, TRUE)
LossyPipeSetup == Setup(OneFile, 1, 1, 1, 2, 0, TRUE)

MCSetups == {RequestSetup, PipeSetup, LossyRequestSetup, LossyPipeSetup}
ExchangeSetups == {Setup(TwoFiles, 2, 1, 2, 1, 1, FALSE)}
OverflowSetups == {Setup(OneFile, 1, 1, 2, 2, 0, FALSE)}

ThreadSymmetry == Permutations(MCThreads)

\* A behaviour in which something got lost is not followed any further.
NothingLost == ~dropped /\ missed = {}
============================================================================
