---------------------------- MODULE SafeProfile -----------------------------
(***************************************************************************)
(* The scratch profile that safe mode boots (dsh-adapter/src/safe_boot.rs) *)
(* and the two judgements a boot rests on: what dsh says of a profile it   *)
(* is asked to compose, and what its URL answers (web_check.rs).  Bundles  *)
(* are sets of packages; the order dsh loads them in is not modelled.      *)
(***************************************************************************)
EXTENDS TimedRun

CONSTANT FirstParty   \* packages of DSH's own scope

Minimal == {"base", "web"}   \* MINIMAL_BUNDLES, which every installation resolves

\* The next, narrower tier, if there is one.
Narrower(tier) == IF tier = "plugins" THEN {"minimal"} ELSE {}

plan_bundles(user, tier) ==
    LET kept == IF tier = "plugins" THEN user \cap FirstParty ELSE {}
    IN  [tier |-> tier, bundles |-> Minimal \cup kept, dropped |-> user \ kept]

\* dsh's exit code decides; its words are only shown.  A dsh that does not start or does
\* not answer in time has said nothing.
classify_dump(end) == IF Done(end) THEN "composed" ELSE "refused"
dump_profile_config == run_capture(TRUE)
prepare_safe_profile == {IF Answered(end) THEN classify_dump(end) ELSE "error" : end \in dump_profile_config}

\* A 401 counts as a refusal only with dsh's own sentence in it.
classify(status, marked) ==
    CASE status = 303 -> "authenticated"
      [] status = 200 -> "serving"
      [] status = 401 /\ marked -> "refused"
      [] OTHER -> "unreadable"

\* No client, no answer in time, or one that is classified.
check_root == {"unreadable"} \cup {classify(status, marked) : status \in {200, 303, 401, 500}, marked \in BOOLEAN}
=============================================================================
