------------------------------ MODULE TimedRun ------------------------------
(***************************************************************************)
(* The programs the launcher runs to their end under a time limit          *)
(* (dsh-adapter/src/lib.rs, mcp_prefetch.rs): git, `dsh plugin`, the tools *)
(* that fetch or build a server, dsh asked to compose a profile.  An       *)
(* operator is the set of ends a run can have.  What the child prints is   *)
(* only shown, and its output is read to the end whatever the end is.      *)
(***************************************************************************)
\* The child exits with code 0 or with another one, is stopped at the time limit, or
\* was never started.
Ends == {"zero", "nonzero", "timedOut", "spawnError"}

run_timed(found) == IF found THEN Ends ELSE {"spawnError"}

\* The same, for a program whose words are wanted.
run_capture(found) == run_timed(found)

\* Any exit code is an answer; a child that was started may have done its work, or a
\* part of it, however it ended.
Answered(end) == end \in {"zero", "nonzero"}
Done(end) == end = "zero"
Spawned(end) == end # "spawnError"

\* A download, which is good only with code 0.
run_tool(found) == {IF Done(end) THEN "ok" ELSE "err" : end \in run_timed(found)}
=============================================================================
