----------------------------- MODULE MCGameTick -----------------------------
(* A small instance of the plugin around its task queue for TLC: the two   *)
(* tick callbacks on two workers, and a budget smaller than a burst.       *)
EXTENDS GameTick, TLC

CONSTANTS w1, w2, frameBegin, mpUpdate

MCWorker    == {w1, w2}
MCCallbacks == {frameBegin, mpUpdate}
MCBudget    == {2}

=============================================================================
