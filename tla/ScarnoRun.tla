----------------------------- MODULE ScarnoRun -----------------------------
(***************************************************************************)
(* RunPipeline and RemoteIndex together: when it is the Java analyser's    *)
(* turn and the run may fetch, the analyser first reads the indexes and    *)
(* asks them, and only then returns its result to the pipeline.  An        *)
(* exception that is no SafeHttpsError goes through the analyser and ends  *)
(* the run.                                                                *)
(***************************************************************************)
EXTENDS RunPipeline, RemoteIndex

svars == <<vars, rvars>>

\* The flags reach the analyser as they are: allow_remote_fetch and the others.
SInit ==
  /\ Init
  /\ RInit
  /\ set.fetch = in.argv.fetch
  /\ set.crossCheck = in.argv.crossCheck
  /\ (set.allowed # {}) = in.argv.privateHosts

JavasTurn == pc = "analyse" /\ left # <<>> /\ Head(left) = "java"
Fetching == JavasTurn /\ "fetch" \in Capabilities

RemoteStep == Fetching /\ RStep /\ UNCHANGED vars

PipelineStep ==
  /\ Fetching => step = "done" /\ result # "ValueError"
  /\ Step
  /\ UNCHANGED rvars

FetchRaises ==
  /\ Fetching
  /\ step = "done" /\ result = "ValueError"
  /\ configured' = ("java" :> Capabilities) @@ configured
  /\ pc' = "done"
  /\ exit' = 2
  /\ UNCHANGED <<in, types, left, merged, report, written, rvars>>

Returned == pc = "done" /\ UNCHANGED svars

SNext == RemoteStep \/ PipelineStep \/ FetchRaises \/ Returned

\* One thread, no locks, a timeout on every connection: the process runs on.
SSpec == SInit /\ [][SNext]_svars /\ WF_svars(SNext)

\* The run comes to its end, with an exit code, whatever the servers answer.
RunEnds == <>(pc = "done" /\ (Main => exit # 9))
=============================================================================
