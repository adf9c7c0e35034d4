----------------------------- MODULE MCHandler -----------------------------
(* Handler with the limiter configurations that Build can produce, and the *)
(* one with both algorithms that the engine also accepts.                  *)
EXTENDS Handler

Kind(rule, bucket, dryRun, advise) ==
    [rule |-> rule, bucket |-> bucket, dryRun |-> dryRun, advise |-> advise]

ModelKinds ==
    { Kind(TRUE, FALSE, FALSE, FALSE),   \* enforced window
      Kind(FALSE, TRUE, FALSE, TRUE),    \* enforced bucket with Retry-After
      Kind(TRUE, TRUE, TRUE, TRUE),      \* dry run, both algorithms
      Kind(FALSE, FALSE, FALSE, FALSE) } \* no valid rule or bucket
=============================================================================
