------------------------------ MODULE McpProbe ------------------------------
(***************************************************************************)
(* The transient health check of an MCP server (dsh-adapter/src/           *)
(* mcp_probe.rs): the server is started, its standard input holds the      *)
(* handshake, and its output is read until it is classified, it closes, or *)
(* a deadline passes.  Time is the order of the deadline against the       *)
(* server's lines.  `probe` is what the check knows:                       *)
(*    phase     idle, waiting for initialize, waiting for tools, stopped   *)
(*              (reading is over), done (the verdict is out)               *)
(*    alive     the child runs                                             *)
(*    init      what answered the initialize request so far                *)
(*    degraded  the server has called itself misconfigured                 *)
(*    tail      what the last six lines still show                         *)
(*    grace     the one cold-start extension was granted                   *)
(***************************************************************************)
VARIABLE probe

Hints == {"http", "asset"}
States == {"untested", "ok", "degraded", "error"}

Probe == [phase : {"idle", "init", "tools", "stopped", "done"}, alive : BOOLEAN,
          init : {"none", "ok", "rejected"}, degraded : BOOLEAN,
          tail : SUBSET Hints, grace : BOOLEAN, verdict : States]

NoProbe == [phase |-> "idle", alive |-> FALSE, init |-> "none", degraded |-> FALSE,
            tail |-> {}, grace |-> FALSE, verdict |-> "untested"]

ProbeTypeOK == probe \in Probe

Reading == probe.phase \in {"init", "tools"}

\* MUTANT: a verdict no reader of runtime.json knows.
VerdictTimeout(v) ==
    probe' = [probe EXCEPT !.phase = "done", !.alive = FALSE,
                !.verdict = IF v = "error" /\ probe.grace THEN "timeout" ELSE v]

Verdict(v) == probe' = [probe EXCEPT !.phase = "done", !.alive = FALSE, !.verdict = v]

\* A remote server is asked over HTTP; one answer settles it.
ProbeHttp == \E v \in {"ok", "degraded", "error"} : Verdict(v)

\* No command, no staged input or no process: an error at once.
ProbeStart(cmd) ==
    /\ probe.phase = "idle"
    /\ \/ Verdict("error")
       \/ /\ cmd
          /\ probe' = [probe EXCEPT !.phase = "init", !.alive = TRUE]

\* The first answer to initialize counts, and opens the short wait for tools.
ReadAnswer ==
    /\ probe.phase = "init"
    /\ \E a \in {"ok", "rejected"} :
          probe' = [probe EXCEPT !.phase = "tools", !.init = a]

\* Any other line, on either stream: it may be a self-report, may show a hint in
\* the tail and may push older hints out of it.
ReadLine ==
    /\ Reading
    /\ \E d \in BOOLEAN, h \in SUBSET Hints :
          probe' = [probe EXCEPT !.degraded = @ \/ d, !.tail = h]

\* A stdio entry that announces an HTTP listener is not waited for.
ReadListener ==
    /\ probe.phase = "init"
    /\ probe' = [probe EXCEPT !.phase = "stopped", !.tail = @ \cup {"http"}]

\* The child ends by itself; reading goes on to the end of its output.
ChildExits == probe.alive /\ Reading /\ probe' = [probe EXCEPT !.alive = FALSE]

\* The end of the output; an empty line takes the same arm of the match.
ReadEnd ==
    /\ Reading
    /\ probe' = [probe EXCEPT !.phase = "stopped"]

\* A live child that has shown no HTTP listener is given more time, once.
Deadline ==
    /\ Reading
    /\ probe' = IF probe.phase = "init" /\ probe.alive /\ ~probe.grace /\ "http" \notin probe.tail
                THEN [probe EXCEPT !.grace = TRUE]
                ELSE [probe EXCEPT !.phase = "stopped"]

\* The child is killed.  A server that spoke is at worst degraded, and so is
\* one that only misses an asset its package downloads for itself.
Conclude ==
    /\ probe.phase = "stopped"
    /\ Verdict(CASE probe.init = "rejected" -> "degraded"
                 [] probe.init = "ok" -> IF probe.degraded THEN "degraded" ELSE "ok"
                 [] probe.init = "none" -> IF "asset" \in probe.tail THEN "degraded" ELSE "error")

ProbeStep == ReadAnswer \/ ReadLine \/ ReadListener \/ ChildExits \/ ReadEnd
             \/ Deadline \/ Conclude
=============================================================================
