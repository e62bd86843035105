------------------------ MODULE MCThreadPoolExecutor ------------------------
(* Values for checking ThreadPoolExecutor on small pools. *)
EXTENDS ThreadPoolExecutor, TLC

CONSTANTS w1, w2, w3

ThreeWorkers == {w1, w2, w3}
TwoWorkers == {w1, w2}
WorkerSymmetry == Permutations(Workers)

OneCall == <<3>>
ShrinkingCalls == <<3, 2, 1>>
GrowingCalls == <<2, 3, 2, 2>>
TwoCalls == <<2, 2>>
PairCall == <<2>>

\* IntMax stands for every larger number: batches shorter than 2^31 fetches.
Saturating == IntMax
\* Two's complement, as std::atomic<int> does it.
Wrapping == -IntMax - 1
=============================================================================
