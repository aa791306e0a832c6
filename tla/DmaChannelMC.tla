---------------------------- MODULE DmaChannelMC ----------------------------
(* Model values and call sets for checking DmaChannel. *)
EXTENDS DmaChannel, TLC

CONSTANTS t1, t2, t3, ch

C(types, counts, suspends) ==
  [chan : {ch}, type : types, total_requests : counts, suspend : suspends]

\* Single synchronous requests, batches of asynchronous ones, requests that are
\* continuous or wrap to it, and refused ones.
Calls_all ==
  C({"sync"}, {1}, Suspend) \cup C({"async"}, {1, 2}, {"ticks"})
    \cup C({"async"}, {0, 5}, {"NU_SUSPEND"}) \cup C({"mem"}, {1}, {"NU_SUSPEND"})
=============================================================================
