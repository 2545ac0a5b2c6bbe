------------------------------- MODULE MCParts -------------------------------
(***************************************************************************)
(* The parts that share nothing but the process, explored one at a time:   *)
(* part says whose behaviour this is, and the others stay in their initial *)
(* states.                                                                 *)
(***************************************************************************)
EXTENDS AsyncLogger, ThreadPool, Pipeline

VARIABLE part

allvars == <<part, logvars, poolvars, pipevars>>

MCLine == {[id |-> 1, size |-> 1, level |-> 1], [id |-> 2, size |-> 2, level |-> 2],
           [id |-> 3, size |-> 1, level |-> 2], [id |-> 4, size |-> 1, level |-> FATAL]}

MCPayload == {<<>>, <<1>>, <<2, 1>>, <<1, 2, 2>>}

PartsInit ==
    /\ part \in {"logger", "pool", "buffer", "pipeline"}
    /\ LogInit /\ PoolInit /\ PipelineInit

PartsNext ==
    /\ UNCHANGED part
    /\ \/ part = "logger" /\ LogNext /\ UNCHANGED <<poolvars, pipevars>>
       \/ part = "pool" /\ PoolNext /\ UNCHANGED <<logvars, pipevars>>
       \/ /\ part = "buffer" /\ BufferNext
          /\ UNCHANGED <<logvars, poolvars, handlers, stream, frames, handled, crashed>>
       \/ part = "pipeline" /\ PipelineNext /\ UNCHANGED <<logvars, poolvars>>

PartsSpec == PartsInit /\ [][PartsNext]_allvars /\ LogFairness /\ PoolFairness
=============================================================================
