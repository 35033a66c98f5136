----------------------- MODULE MCReconciliationWorker -----------------------
EXTENDS ReconciliationWorker, TLC

CONSTANTS w1, w2

MCWorkers == {w1, w2}
MCWanted == {1, 3, 4}
MCMaxPages == (w1 :> 1) @@ (w2 :> 2)
=============================================================================
