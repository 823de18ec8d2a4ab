--------------------------- MODULE MCJobsPipeline ---------------------------
(***************************************************************************)
(* The pipeline with requests.  A request names one job and the jobs share *)
(* nothing but the hub and the stream: the run takes them in turn.         *)
(***************************************************************************)
EXTENDS JobsPipeline

OneJobAtATime == \A s \in Schedules, t \in Turns : "none" \in {engine[s], engine[t]}
=============================================================================
