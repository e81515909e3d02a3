------------------------------ MODULE MCCache ------------------------------
EXTENDS CacheProperties

CONSTANTS a, b, c

Who(x, y, z) == (a :> x) @@ (b :> y) @@ (c :> z)

Plan(job, cached, readOnly, changes, faults) ==
  [job |-> job, cached |-> cached, readOnly |-> readOnly,
   changes |-> changes, faults |-> faults]

(***************************************************************************)
(* The plans of the run: two requests that refresh the same cache while    *)
(* files change; readers under the lock against both ways of removing; the *)
(* engine's threads with one temporary file; the library and the engine    *)
(* making the key at the same time; plain files from before there was      *)
(* encryption; a read-only volume.                                         *)
(***************************************************************************)
PlanSeq == <<
    Plan(Who("cached", "none", "none"), "sealed", FALSE, 3,
         {"trim", "recreate", "reread", "query", "journal"}),
    Plan(Who("cached", "get", "none"), "sealed", FALSE, 1, {"trim", "recreate", "reread"}),
    Plan(Who("cached", "update", "none"), "sealed", FALSE, 1,
         {"trim", "recreate", "reread", "query", "journal", "volume"}),
    Plan(Who("cached", "cached", "none"), "plain", FALSE, 1, {"query", "write", "crash"}),
    Plan(Who("update", "get", "none"), "none", FALSE, 1, {"volume", "write", "crash"}),
    Plan(Who("frame", "clear", "none"), "sealed", FALSE, 1,
         {"crash", "write", "key", "volume"}),
    Plan(Who("cached", "purge", "none"), "sealed", FALSE, 1, {"crash", "write", "key"}),
    Plan(Who("flow", "persist", "flow"), "none", TRUE, 0, {"crash", "write"}),
    Plan(Who("flow", "persist", "none"), "plain", FALSE, 1, {"query", "volume", "recreate"}),
    Plan(Who("flow", "cached", "none"), "sealed", TRUE, 0, {"key", "crash"}),
    Plan(Who("flow", "cached", "update"), "none", TRUE, 0, {"key", "write"}),
    Plan(Who("cached", "frame", "clear"), "sealed", TRUE, 0, {"key", "crash", "write"}) >>

MCPlans == ToSet(PlanSeq)

=============================================================================
