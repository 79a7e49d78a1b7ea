----------------------------- MODULE MCTraceLog ------------------------------
(* Small instances of TraceLog. *)
EXTENDS TraceLog

\* Writers whose name begins with the run: "w1" and "w2" share run "r1".
MCWriterRun == [w \in Writers |-> IF w = "other" THEN "r2" ELSE "r1"]
MCWatches   == [c \in Clients |-> "r1"]

===============================================================================
