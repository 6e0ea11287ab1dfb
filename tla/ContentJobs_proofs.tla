------------------------- MODULE ContentJobs_proofs -------------------------
(***************************************************************************)
(* The content commands, for any servers, skills, packages and catalogue   *)
(* and any number of commands and exits.  Each invariant speaks of the     *)
(* list of writes still to do: which writes a kind of command has          *)
(* (Course), which must come right after which (Follows), and for each     *)
(* property what the list must still hold while the property is not yet    *)
(* true.  A command is followed from its first list on by one lemma for    *)
(* each way a list changes: a write is done, it fails, it puts more writes *)
(* in front.                                                               *)
(***************************************************************************)
EXTENDS ContentJobs, SequenceTheorems, TLAPS

SkillOps == {"fetchSkill", "files", "rename", "prune", "recordSkill", "rmDir", "unrecordSkill"}
McpOps == {"fetch", "clone", "build", "record", "syncMcp", "probe", "unrecord", "rmMcpDir", "setMcp"}
PkgOps == {"dropRoot", "resolve", "add", "gate", "dshRemove", "pruneNm", "land", "rowOff", "rowOn", "dropSkin",
           "rmRows", "syncSkin", "setSkin", "update"}

\* A write is about an item of its own kind.
TypedOps == {o \in OpSet : /\ o.op \in SkillOps => o.of \in Skills
                           /\ o.op \in McpOps => o.of \in Servers
                           /\ o.op \in PkgOps => o.of \in Pkgs
                           /\ o.op = "rename" => o.at \in AllFiles
                           /\ o.op \in {"setMcp", "setSkin"} => o.at \in {"on", "off"}}

McpCourse == {"fetch", "clone", "build", "record", "syncMcp", "meta", "reconcile", "probe",
              "unrecord", "rmMcpDir", "unmeta", "fail"}
SkillCourse == {"fetchSkill", "files", "rename", "prune", "recordSkill", "meta", "reconcile", "fail"}
PluginCourse == {"dropRoot", "resolve", "add", "gate", "dshRemove", "pruneNm", "fail", "land", "rowOff",
                 "syncSkin", "meta", "reconcile"}

\* The writes a command of kind k on item x may ever have to do.
Course(k, x) ==
    {o \in TypedOps :
        /\ k = "health" => o.op \in {"probe", "fail"}
        /\ k \in {"mcp", "skill", "skillUpdate", "plugin"} => o.of = x
        /\ k = "mcp" => o.op \in McpCourse
        /\ k \in {"skill", "skillUpdate"} => o.op \in SkillCourse
        /\ k = "plugin" => o.op \in PluginCourse
        /\ o.op = "unrecord" => k \in {"mcp", "mcpRemove"} /\ o.of = x}

\* What must come after a write.
Then(t, i, o) == i < Len(t) /\ t[i + 1].op = o /\ t[i + 1].of = t[i].of

FollowedBy(t, i) ==
    /\ t[i].op \in {"fetchSkill", "files", "prune"} => Then(t, i, "recordSkill")
    /\ t[i].op = "rename" => Then(t, i, IF t[i].at = "SKILL.md" THEN "prune" ELSE "files")
    /\ t[i].op \in {"unrecord", "setMcp"} => i < Len(t) /\ t[i + 1].op = "syncMcp"
    /\ t[i].op = "record" =>
          /\ i < Len(t)
          /\ \/ t[i + 1].op = "syncMcp"
             \/ t[i + 1].op = "record" /\ i + 1 < Len(t) /\ t[i + 2].op = "syncMcp"
    /\ t[i].op = "land" => i < Len(t)
    /\ t[i].op = "dropSkin" => Then(t, i, "rmRows")
    /\ t[i].op = "rmRows" => Then(t, i, "syncSkin")

Follows(t) == \A i \in 1..Len(t) : FollowedBy(t, i)

LEMMA TailFollows ==
    ASSUME NEW S, NEW t \in Seq(S), t # <<>>, Follows(t)
    PROVE  Tail(t) \in Seq(S) /\ Follows(Tail(t))
<1>1. /\ Tail(t) \in Seq(S) /\ Len(Tail(t)) = Len(t) - 1 /\ Len(t) \in Nat
      /\ \A i \in 1..Len(Tail(t)) : Tail(t)[i] = t[i + 1]
  BY HeadTailProperties, LenProperties
<1>2. ASSUME NEW i \in 1..Len(Tail(t)) PROVE FollowedBy(Tail(t), i)
  <2>1. i \in Int /\ i + 1 \in 1..Len(t) /\ FollowedBy(t, i + 1) /\ Tail(t)[i] = t[i + 1]
    BY <1>1 DEF Follows
  <2>2. i + 1 < Len(t) => i < Len(Tail(t)) /\ Tail(t)[i + 1] = t[i + 2]
    BY <1>1, <2>1
  <2>3. i + 2 < Len(t) => i + 1 < Len(Tail(t)) /\ Tail(t)[i + 2] = t[i + 3]
    BY <1>1, <2>1
  <2> QED BY <1>1, <2>1, <2>2, <2>3 DEF FollowedBy, Then
<1> QED BY <1>1, <1>2 DEF Follows

LEMMA SuffixFollows ==
    ASSUME NEW S, NEW t \in Seq(S), Follows(t), NEW k \in 1..Len(t)
    PROVE  SubSeq(t, k + 1, Len(t)) \in Seq(S) /\ Follows(SubSeq(t, k + 1, Len(t)))
<1> DEFINE u == SubSeq(t, k + 1, Len(t))
<1>1. Len(t) \in Nat /\ k \in Int /\ \A i \in (k + 1)..Len(t) : t[i] \in S
  BY LenProperties, ElementOfSeq
<1>2. u \in Seq(S) /\ Len(u) = Len(t) - k /\ \A i \in 1..Len(u) : u[i] = t[k + i]
  <2>1. /\ u \in Seq(S) /\ Len(u) = IF k + 1 <= Len(t) THEN Len(t) - (k + 1) + 1 ELSE 0
        /\ \A i \in 1..(Len(t) - (k + 1) + 1) : u[i] = t[k + 1 + i - 1]
    BY <1>1, SubSeqProperties
  <2> HIDE DEF u
  <2> QED BY <1>1, <2>1
<1>3. ASSUME NEW i \in 1..Len(u) PROVE FollowedBy(u, i)
  <2> HIDE DEF u
  <2>1. i \in Int /\ k + i \in 1..Len(t) /\ FollowedBy(t, k + i) /\ u[i] = t[k + i]
    BY <1>1, <1>2 DEF Follows
  <2>2. k + i < Len(t) => i < Len(u) /\ u[i + 1] = t[k + i + 1]
    BY <1>1, <1>2, <2>1
  <2>3. k + i + 1 < Len(t) => i + 1 < Len(u) /\ u[i + 2] = t[k + i + 2]
    BY <1>1, <1>2, <2>1
  <2> QED BY <1>1, <2>1, <2>2, <2>3 DEF FollowedBy, Then
<1> QED BY <1>2, <1>3 DEF Follows

LEMMA ConcatFollows ==
    ASSUME NEW S, NEW s \in Seq(S), NEW t \in Seq(S), Follows(s), Follows(t)
    PROVE  s \o t \in Seq(S) /\ Follows(s \o t)
<1> DEFINE u == s \o t
<1>1. /\ u \in Seq(S) /\ Len(u) = Len(s) + Len(t) /\ Len(s) \in Nat /\ Len(t) \in Nat
      /\ \A i \in 1..(Len(s) + Len(t)) : u[i] = IF i <= Len(s) THEN s[i] ELSE t[i - Len(s)]
  BY ConcatProperties, LenProperties
<1> HIDE DEF u
<1>2. ASSUME NEW i \in 1..Len(u) PROVE FollowedBy(u, i)
  <2>1. CASE i <= Len(s)
    <3>1. FollowedBy(s, i) /\ u[i] = s[i] BY <1>1, <2>1 DEF Follows
    <3>2. i < Len(s) => i < Len(u) /\ u[i + 1] = s[i + 1] BY <1>1
    <3>3. i + 1 < Len(s) => i + 1 < Len(u) /\ u[i + 2] = s[i + 2] BY <1>1
    <3> QED BY <1>1, <3>1, <3>2, <3>3 DEF FollowedBy, Then
  <2>2. CASE i > Len(s)
    <3> DEFINE j == i - Len(s)
    <3>1. j \in 1..Len(t) /\ i = Len(s) + j /\ FollowedBy(t, j) /\ u[i] = t[j] BY <1>1, <2>2 DEF Follows
    <3>2. j < Len(t) => i < Len(u) /\ u[i + 1] = t[j + 1] BY <1>1, <3>1
    <3>3. j + 1 < Len(t) => i + 1 < Len(u) /\ u[i + 2] = t[j + 2] BY <1>1, <3>1
    <3> QED BY <1>1, <3>1, <3>2, <3>3 DEF FollowedBy, Then
  <2> QED BY <2>1, <2>2, <1>1
<1> QED BY <1>1, <1>2 DEF Follows, u

\* Writes nothing has to come after.
Silent == {"syncMcp", "meta", "unmeta", "reconcile", "next", "fail", "dropRoot", "resolve", "add", "gate",
           "clone", "build", "dshRemove", "pruneNm", "rowOff", "syncSkin"}

LEMMA AppendFollows ==
    ASSUME NEW S, NEW t \in Seq(S), Follows(t), NEW o \in S, o.op \in Silent
    PROVE  Append(t, o) \in Seq(S) /\ Append(t, o) # <<>> /\ Follows(Append(t, o))
<1> DEFINE u == Append(t, o)
<1>1. /\ u \in Seq(S) /\ u # <<>> /\ Len(u) = Len(t) + 1 /\ Len(t) \in Nat /\ u[Len(t) + 1] = o
      /\ \A i \in 1..Len(t) : u[i] = t[i]
  BY AppendProperties, LenProperties
<1> HIDE DEF u
<1>2. ASSUME NEW i \in 1..Len(u) PROVE FollowedBy(u, i)
  <2>1. CASE i <= Len(t)
    <3>1. FollowedBy(t, i) /\ u[i] = t[i] BY <1>1, <2>1 DEF Follows
    <3>2. i < Len(t) => i < Len(u) /\ u[i + 1] = t[i + 1] BY <1>1
    <3>3. i + 1 < Len(t) => i + 1 < Len(u) /\ u[i + 2] = t[i + 2] BY <1>1
    <3> QED BY <1>1, <3>1, <3>2, <3>3 DEF FollowedBy, Then
  <2>2. CASE i = Len(t) + 1
    BY <1>1, <2>2 DEF FollowedBy, Then, Silent
  <2> QED BY <2>1, <2>2, <1>1
<1> QED BY <1>1, <1>2 DEF Follows, u

LEMMA PushFollows ==
    ASSUME NEW S, NEW t \in Seq(S), Follows(t), NEW o \in S,
           \/ o.op \in Silent
           \/ o.op = "land" /\ t # <<>>
           \/ o.op \in {"files", "prune"} /\ t # <<>> /\ t[1].op = "recordSkill" /\ t[1].of = o.of
           \/ /\ o.op = "rename" /\ t # <<>>
              /\ t[1].of = o.of /\ t[1].op = IF o.at = "SKILL.md" THEN "prune" ELSE "files"
    PROVE  <<o>> \o t \in Seq(S) /\ <<o>> \o t # <<>> /\ Follows(<<o>> \o t)
<1> DEFINE u == <<o>> \o t
<1>1. <<o>> \in Seq(S) /\ Len(<<o>>) = 1 /\ <<o>>[1] = o OBVIOUS
<1>2. /\ u \in Seq(S) /\ Len(u) = 1 + Len(t) /\ Len(t) \in Nat /\ u[1] = o
      /\ \A i \in 2..(1 + Len(t)) : u[i] = t[i - 1]
  BY <1>1, ConcatProperties, LenProperties
<1>3. u # <<>> BY <1>2, EmptySeq
<1>4. t # <<>> => Len(t) > 0 /\ u[2] = t[1] BY <1>2, EmptySeq
<1> HIDE DEF u
<1>5. ASSUME NEW i \in 1..Len(u) PROVE FollowedBy(u, i)
  <2>1. CASE i = 1
    BY <1>2, <1>4, <2>1 DEF FollowedBy, Then, Silent
  <2>2. CASE i > 1
    <3> DEFINE j == i - 1
    <3>1. j \in 1..Len(t) /\ i = j + 1 /\ FollowedBy(t, j) /\ u[i] = t[j] BY <1>2, <2>2 DEF Follows
    <3>2. j < Len(t) => i < Len(u) /\ u[i + 1] = t[j + 1]
      <4> SUFFICES ASSUME j < Len(t) PROVE i < Len(u) /\ u[i + 1] = t[j + 1] OBVIOUS
      <4>1. i + 1 \in 2..(1 + Len(t)) /\ (i + 1) - 1 = j + 1 /\ i < Len(u) BY <1>2, <3>1
      <4>2. u[i + 1] = t[(i + 1) - 1] BY <1>2, <4>1
      <4> HIDE DEF j
      <4> QED BY <4>1, <4>2
    <3>3. j + 1 < Len(t) => i + 1 < Len(u) /\ u[i + 2] = t[j + 2] BY <1>2, <3>1
    <3> QED BY <1>2, <3>1, <3>2, <3>3 DEF FollowedBy, Then
  <2> QED BY <2>1, <2>2, <1>2
<1> QED BY <1>2, <1>3, <1>5 DEF Follows, u

LEMMA PairConcat ==
    ASSUME NEW S, NEW t \in Seq(S), NEW a \in S, NEW b \in S
    PROVE  <<a, b>> \o t = <<a>> \o (<<b>> \o t)
<1>1. /\ <<a, b>> \in Seq(S) /\ Len(<<a, b>>) = 2 /\ <<a, b>>[1] = a /\ <<a, b>>[2] = b
      /\ <<a>> \in Seq(S) /\ Len(<<a>>) = 1 /\ <<a>>[1] = a
      /\ <<b>> \in Seq(S) /\ Len(<<b>>) = 1 /\ <<b>>[1] = b
  OBVIOUS
<1> DEFINE u == <<b>> \o t
           v == <<a>> \o u
           w == <<a, b>> \o t
<1>2. /\ u \in Seq(S) /\ Len(u) = 1 + Len(t) /\ Len(t) \in Nat
      /\ \A i \in 1..(1 + Len(t)) : u[i] = IF i <= 1 THEN b ELSE t[i - 1]
  <2>1. /\ u \in Seq(S) /\ Len(u) = Len(<<b>>) + Len(t)
        /\ \A i \in 1..(Len(<<b>>) + Len(t)) : u[i] = IF i <= Len(<<b>>) THEN <<b>>[i] ELSE t[i - Len(<<b>>)]
    BY <1>1, ConcatProperties
  <2> QED BY <1>1, <2>1, LenProperties
<1> HIDE DEF u
<1>3. /\ v \in Seq(S) /\ Len(v) = 1 + Len(u)
      /\ \A i \in 1..(1 + Len(u)) : v[i] = IF i <= 1 THEN a ELSE u[i - 1]
  <2>1. /\ v \in Seq(S) /\ Len(v) = Len(<<a>>) + Len(u)
        /\ \A i \in 1..(Len(<<a>>) + Len(u)) : v[i] = IF i <= Len(<<a>>) THEN <<a>>[i] ELSE u[i - Len(<<a>>)]
    BY <1>1, <1>2, ConcatProperties
  <2> QED BY <1>1, <1>2, <2>1
<1>4. /\ w \in Seq(S) /\ Len(w) = 2 + Len(t)
      /\ \A i \in 1..(2 + Len(t)) : w[i] = IF i <= 2 THEN IF i = 1 THEN a ELSE b ELSE t[i - 2]
  <2>1. /\ w \in Seq(S) /\ Len(w) = Len(<<a, b>>) + Len(t)
        /\ \A i \in 1..(Len(<<a, b>>) + Len(t)) :
              w[i] = IF i <= Len(<<a, b>>) THEN <<a, b>>[i] ELSE t[i - Len(<<a, b>>)]
    BY <1>1, ConcatProperties
  <2> QED BY <1>1, <2>1
<1> HIDE DEF v, w
<1>5. Len(w) = Len(v) BY <1>2, <1>3, <1>4
<1>6. ASSUME NEW i \in 1..Len(w) PROVE w[i] = v[i]
  <2>1. w[i] = IF i <= 2 THEN IF i = 1 THEN a ELSE b ELSE t[i - 2] BY <1>2, <1>4, <1>6
  <2>2. v[i] = IF i <= 1 THEN a ELSE u[i - 1] BY <1>2, <1>3, <1>5, <1>6
  <2>3. i > 1 => u[i - 1] = IF i - 1 <= 1 THEN b ELSE t[i - 2] BY <1>2, <1>4, <1>6
  <2> QED BY <2>1, <2>2, <2>3, <1>6, <1>4, <1>2
<1>7. w = v BY <1>3, <1>4, <1>5, <1>6, SeqEqual
<1> QED BY <1>7 DEF u, v, w

-----------------------------------------------------------------------------
\* Types, and what the list of writes looks like.

JobOK ==
    /\ job.todo \in Seq(Course(job.kind, job.item)) /\ Follows(job.todo)
    /\ IF Idle THEN job = NoJob ELSE job.todo # <<>> /\ last = NoEnd

TypeInv == TypeOK /\ JobOK

LEMMA CourseTyped == \A k, x : Course(k, x) \subseteq TypedOps /\ TypedOps \subseteq OpSet
BY DEF Course, TypedOps

LEMMA EmptyTodo == \A k, x : <<>> \in Seq(Course(k, x)) /\ <<>> \in Seq(OpSet) /\ Follows(<<>>)
BY EmptySeq DEF Follows

\* The write at the head of a command, and where it may stand.
LEMMA HeadOp ==
    ASSUME TypeInv, ~Idle
    PROVE  /\ job \in Job /\ job.kind \in Starts /\ job.item \in Items \cup {"-"}
           /\ Len(job.todo) \in Nat \ {0} /\ Now = job.todo[1]
           /\ Now \in Course(job.kind, job.item) /\ Now \in TypedOps /\ Now \in OpSet
           /\ FollowedBy(job.todo, 1)
           /\ Tail(job.todo) \in Seq(Course(job.kind, job.item)) /\ Follows(Tail(job.todo))
           /\ Tail(job.todo) \in Seq(OpSet)
<1> DEFINE C == Course(job.kind, job.item)
<1>1. job \in Job /\ job.todo \in Seq(C) /\ Follows(job.todo) /\ job.todo # <<>>
  BY DEF TypeInv, TypeOK, JobOK
<1>2. Len(job.todo) \in Nat \ {0} /\ Now = job.todo[1] /\ Now \in C
  <2> HIDE DEF C
  <2> QED BY <1>1, EmptySeq, HeadTailProperties DEF Now
<1>3. C \subseteq TypedOps /\ TypedOps \subseteq OpSet BY CourseTyped
<1>4. Tail(job.todo) \in Seq(C) /\ Follows(Tail(job.todo))
  <2> HIDE DEF C
  <2> QED BY <1>1, TailFollows
<1>5. Tail(job.todo) \in Seq(OpSet)
  <2> HIDE DEF C
  <2> QED BY <1>3, <1>4, SeqMonotonic
<1>6. FollowedBy(job.todo, 1) BY <1>1, <1>2 DEF Follows
<1>7. job.kind \in Starts /\ job.item \in Items \cup {"-"} BY <1>1 DEF Job, Idle
<1> QED BY <1>1, <1>2, <1>3, <1>4, <1>5, <1>6, <1>7

LEMMA ContinueOK ==
    ASSUME NEW j \in Job, j.kind # "none", last = NoEnd, Continue(j),
           j.todo \in Seq(Course(j.kind, j.item)), Follows(j.todo)
    PROVE  job' \in Job /\ last' \in End /\ JobOK'
<1>1. CASE j.todo = <<>>
  <2>1. job' = NoJob /\ last' \in End
    BY <1>1 DEF Continue, Finish, End, Job
  <2>2. NoJob \in Job BY EmptyTodo DEF NoJob, Job
  <2> QED BY <2>1, <2>2, EmptyTodo DEF JobOK, Idle, NoJob
<1>2. CASE j.todo # <<>>
  <2>1. job' = j /\ last' = last BY <1>2 DEF Continue
  <2> QED BY <2>1, <1>2 DEF JobOK, Idle, NoEnd, End
<1> QED BY <1>1, <1>2

LEMMA AdvanceOK == TypeInv /\ ~Idle /\ Advance => job' \in Job /\ last' \in End /\ JobOK'
<1> SUFFICES ASSUME TypeInv, ~Idle, Advance PROVE job' \in Job /\ last' \in End /\ JobOK' OBVIOUS
<1> DEFINE j == [job EXCEPT !.todo = Tail(@)]
<1>1. j \in Job /\ j.kind = job.kind /\ j.item = job.item /\ j.todo = Tail(job.todo) BY HeadOp DEF Job
<1>2. j.kind # "none" /\ last = NoEnd /\ Continue(j) BY <1>1 DEF TypeInv, JobOK, Idle, Advance
<1> HIDE DEF j
<1> QED BY <1>1, <1>2, HeadOp, ContinueOK

LEMMA InsteadOK ==
    ASSUME TypeInv, ~Idle, NEW t \in Seq(Course(job.kind, job.item)), Follows(t), Instead(t)
    PROVE  job' \in Job /\ last' \in End /\ JobOK'
<1> DEFINE j == [job EXCEPT !.todo = t]
<1>1. t \in Seq(OpSet) BY CourseTyped, SeqMonotonic
<1>2. j \in Job /\ j.kind = job.kind /\ j.item = job.item /\ j.todo = t BY HeadOp, <1>1 DEF Job
<1>3. j.kind # "none" /\ last = NoEnd /\ Continue(j) BY <1>2 DEF TypeInv, JobOK, Idle, Instead
<1> HIDE DEF j
<1> QED BY <1>2, <1>3, ContinueOK

LEMMA FailOK ==
    ASSUME TypeInv, ~Idle, NEW r \in {"failed", "rolledBack"}, Fail(r)
    PROVE  job' \in Job /\ last' \in End /\ JobOK'
<1>1. CASE Finish(job, r)
  <2>1. job' = NoJob /\ last' \in End BY HeadOp, <1>1 DEF Finish, End, Job
  <2>2. NoJob \in Job BY EmptyTodo DEF NoJob, Job
  <2> QED BY <2>1, <2>2, EmptyTodo DEF JobOK, Idle, NoJob
<1>2. ASSUME NEW i \in DOMAIN job.todo,
             Continue([job EXCEPT !.todo = SubSeq(@, i + 1, Len(@)), !.failed = TRUE])
      PROVE  job' \in Job /\ last' \in End /\ JobOK'
  <2> DEFINE C == Course(job.kind, job.item)
             u == SubSeq(job.todo, i + 1, Len(job.todo))
             j == [job EXCEPT !.todo = SubSeq(@, i + 1, Len(@)), !.failed = TRUE]
  <2>1. job.todo \in Seq(C) /\ Follows(job.todo) BY DEF TypeInv, JobOK
  <2>2. i \in 1..Len(job.todo)
    <3> HIDE DEF C
    <3> QED BY <2>1, LenProperties
  <2>3. u \in Seq(C) /\ Follows(u)
    <3> HIDE DEF C
    <3> QED BY <2>1, <2>2, SuffixFollows
  <2>4. u \in Seq(OpSet)
    <3> HIDE DEF u
    <3> QED BY <2>3, CourseTyped, SeqMonotonic
  <2>5. j \in Job /\ j.kind = job.kind /\ j.item = job.item /\ j.todo = u
    <3>1. [job EXCEPT !.todo = u, !.failed = TRUE] \in Job
      <4> HIDE DEF u
      <4> QED BY HeadOp, <2>4 DEF Job
    <3> QED BY <3>1, HeadOp DEF Job
  <2>6. j.kind # "none" /\ last = NoEnd BY <2>5 DEF TypeInv, JobOK, Idle
  <2>7. Continue(j) BY <1>2
  <2> HIDE DEF j, u
  <2> QED BY <2>3, <2>5, <2>6, <2>7, ContinueOK
<1> QED BY <1>1, <1>2 DEF Fail

-----------------------------------------------------------------------------
\* The line editors of the patch.  Each keeps a readable file readable, and only the
\* compilers of a block touch that block.

LEMMA AppendBlockArray ==
    ASSUME NEW f \in Patch, IsArray(f), NEW g \in Patch, HasEntries(g)
    PROVE  AppendBlock(f, g) \in Patch /\ IsArray(AppendBlock(f, g))
BY DEF AppendBlock, IsArray, HasEntries, Patch

LEMMA RestoreArray ==
    ASSUME NEW f \in Patch, f.array => ~HasEntries(f)
    PROVE  RestorePlaceholder(f) \in Patch /\ IsArray(RestorePlaceholder(f))
BY DEF RestorePlaceholder, IsArray, HasEntries, Patch

LEMMA DisableRowsKeeps ==
    ASSUME NEW f \in Patch, NEW ids \in SUBSET Ids
    PROVE  /\ DisableRows(f, ids) \in Patch
           /\ IsArray(f) => IsArray(DisableRows(f, ids))
           /\ DisableRows(f, ids).mcp = f.mcp /\ DisableRows(f, ids).skin = f.skin
           /\ Disables(DisableRows(f, ids)) = Disables(f) \cup ids
<1> DEFINE new == {[id |-> i, off |-> TRUE] : i \in ids}
           g == [f EXCEPT !.rows = @ \cup new]
<1>0. \A i \in ids : [id |-> i, off |-> TRUE] \in new OBVIOUS
<1>1. new \in SUBSET Row
  <2>1. \A i \in ids : [id |-> i, off |-> TRUE] \in Row BY DEF Row
  <2> QED BY <2>1
<1>2. g \in Patch /\ g.rows = f.rows \cup new /\ g.mcp = f.mcp /\ g.skin = f.skin /\ g.user = f.user BY <1>1 DEF Patch
<1>3. CASE ids \subseteq Disables(f) BY <1>3 DEF DisableRows
<1>4. CASE ~(ids \subseteq Disables(f))
  <2>1. DisableRows(f, ids) = AppendBlock(f, g) BY <1>4 DEF DisableRows
  <2>2. new # {} BY <1>4
  <2> HIDE DEF g
  <2>3. HasEntries(g) BY <1>2, <2>2 DEF HasEntries
  <2>4. AppendBlock(f, g) \in Patch /\ AppendBlock(f, g).mcp = f.mcp /\ AppendBlock(f, g).skin = f.skin
        /\ AppendBlock(f, g).rows = f.rows \cup new
    BY <1>2 DEF AppendBlock, Patch, HasEntries
  <2>5. {r.id : r \in {x \in f.rows \cup new : x.off}} = {r.id : r \in {x \in f.rows : x.off}} \cup ids
    <3>1. \A r \in new : r.off /\ r.id \in ids OBVIOUS
    <3>2. \A i \in ids : \E r \in new : r.id = i /\ r.off
      <4>1. \A i \in ids : [id |-> i, off |-> TRUE].id = i /\ [id |-> i, off |-> TRUE].off OBVIOUS
      <4> HIDE DEF new
      <4> QED BY <1>0, <4>1
    <3> HIDE DEF new
    <3> QED BY <3>1, <3>2
  <2>6. Disables(DisableRows(f, ids)) = Disables(f) \cup ids
    <3> HIDE DEF new
    <3> QED BY <2>1, <2>4, <2>5 DEF Disables
  <2> QED BY <1>2, <2>1, <2>3, <2>4, <2>6, AppendBlockArray
<1> QED BY <1>3, <1>4

LEMMA EnableRowKeeps ==
    ASSUME NEW f \in Patch, NEW i \in Ids
    PROVE  /\ EnableRow(f, i) \in Patch
           /\ IsArray(f) => IsArray(EnableRow(f, i))
           /\ EnableRow(f, i).mcp = f.mcp /\ EnableRow(f, i).skin = f.skin
<1> DEFINE g == [f EXCEPT !.rows = @ \ {[id |-> i, off |-> TRUE]}]
           h == [f EXCEPT !.rows = @ \cup {[id |-> i, off |-> FALSE]}]
<1>1. [id |-> i, off |-> FALSE] \in Row BY DEF Row
<1>2. /\ g \in Patch /\ g.array = f.array /\ g.user = f.user /\ g.mcp = f.mcp /\ g.skin = f.skin
      /\ g.rows \subseteq f.rows
  BY DEF Patch
<1>3. /\ h \in Patch /\ h.mcp = f.mcp /\ h.skin = f.skin /\ h.rows # {}
  BY <1>1 DEF Patch
<1>4. CASE i \in Disables(f)
  <2>1. EnableRow(f, i) = RestorePlaceholder(g) BY <1>4 DEF EnableRow
  <2> HIDE DEF g
  <2>2. IsArray(f) => (g.array => ~HasEntries(g)) BY <1>2 DEF IsArray, HasEntries, Patch
  <2>3. RestorePlaceholder(g) \in Patch /\ RestorePlaceholder(g).mcp = g.mcp /\ RestorePlaceholder(g).skin = g.skin
    BY <1>2 DEF RestorePlaceholder, Patch
  <2> QED BY <1>2, <2>1, <2>2, <2>3, RestoreArray
<1>5. CASE i \notin Disables(f) /\ i \in Forced(f) BY <1>5 DEF EnableRow
<1>6. CASE i \notin Disables(f) /\ i \notin Forced(f)
  <2>1. EnableRow(f, i) = AppendBlock(f, h) BY <1>6 DEF EnableRow
  <2> HIDE DEF h
  <2>2. HasEntries(h) BY <1>3 DEF HasEntries
  <2>3. AppendBlock(f, h) \in Patch /\ AppendBlock(f, h).mcp = h.mcp /\ AppendBlock(f, h).skin = h.skin
    BY <1>3 DEF AppendBlock, Patch, HasEntries
  <2> QED BY <1>3, <2>1, <2>2, <2>3, AppendBlockArray
<1> QED BY <1>4, <1>5, <1>6

LEMMA RemoveRowsKeeps ==
    ASSUME NEW f \in Patch, NEW ids
    PROVE  /\ RemoveRowBlocks(f, ids) \in Patch
           /\ IsArray(f) => IsArray(RemoveRowBlocks(f, ids))
           /\ RemoveRowBlocks(f, ids).mcp = f.mcp /\ RemoveRowBlocks(f, ids).skin = f.skin
           /\ Disables(RemoveRowBlocks(f, ids)) = Disables(f) \ ids
<1> DEFINE g == [f EXCEPT !.rows = {r \in @ : r.id \notin ids}]
<1>1. /\ g \in Patch /\ g.array = f.array /\ g.user = f.user /\ g.mcp = f.mcp /\ g.skin = f.skin
      /\ g.rows = {r \in f.rows : r.id \notin ids}
  BY DEF Patch
<1>2. CASE \E r \in f.rows : r.id \in ids
  <2>1. RemoveRowBlocks(f, ids) = RestorePlaceholder(g) BY <1>2 DEF RemoveRowBlocks
  <2> HIDE DEF g
  <2>2. IsArray(f) => (g.array => ~HasEntries(g)) BY <1>1 DEF IsArray, HasEntries, Patch
  <2>3. RestorePlaceholder(g) \in Patch /\ RestorePlaceholder(g).mcp = g.mcp /\ RestorePlaceholder(g).skin = g.skin
        /\ RestorePlaceholder(g).rows = g.rows
    BY <1>1 DEF RestorePlaceholder, Patch
  <2>4. Disables(RestorePlaceholder(g)) = Disables(f) \ ids BY <1>1, <2>3 DEF Disables
  <2> QED BY <1>1, <2>1, <2>2, <2>3, <2>4, RestoreArray
<1>3. CASE ~(\E r \in f.rows : r.id \in ids)
  <2>1. Disables(f) \cap ids = {} BY <1>3 DEF Disables
  <2> QED BY <1>3, <2>1 DEF RemoveRowBlocks
<1> QED BY <1>2, <1>3

LEMMA SyncMcpKeeps ==
    ASSUME NEW f \in Patch, NEW on \in SUBSET Servers
    PROVE  /\ SyncMcpPatch(f, on) \in Patch
           /\ IsArray(f) => IsArray(SyncMcpPatch(f, on))
           /\ SyncMcpPatch(f, on).mcp = on /\ SyncMcpPatch(f, on).skin = f.skin
           /\ SyncMcpPatch(f, on).rows = f.rows
<1> DEFINE s == [f EXCEPT !.mcp = {}]
           g == [s EXCEPT !.mcp = on]
<1>1. /\ s \in Patch /\ s.array = f.array /\ s.user = f.user /\ s.rows = f.rows /\ s.mcp = {} /\ s.skin = f.skin
  BY DEF Patch
<1> HIDE DEF s
<1>2. /\ g \in Patch /\ g.array = f.array /\ g.user = f.user /\ g.rows = f.rows /\ g.mcp = on /\ g.skin = f.skin
  BY <1>1 DEF Patch
<1>3. SyncMcpPatch(f, on) = IF on = {} THEN RestorePlaceholder(s) ELSE AppendBlock(s, g)
  BY DEF SyncMcpPatch, s
<1> HIDE DEF g
<1>4. IsArray(f) => (s.array => ~HasEntries(s)) BY <1>1 DEF IsArray, HasEntries, Patch
<1>5. CASE on = {}
  <2>1. RestorePlaceholder(s) \in Patch /\ RestorePlaceholder(s).mcp = {} /\ RestorePlaceholder(s).skin = s.skin
        /\ RestorePlaceholder(s).rows = s.rows
    BY <1>1 DEF RestorePlaceholder, Patch
  <2> QED BY <1>1, <1>3, <1>4, <1>5, <2>1, RestoreArray
<1>6. CASE on # {}
  <2>1. AppendBlock(s, g) \in Patch /\ AppendBlock(s, g).mcp = on /\ AppendBlock(s, g).skin = g.skin
        /\ AppendBlock(s, g).rows = g.rows /\ AppendBlock(s, g).user = g.user
        /\ AppendBlock(s, g).array = (s.array /\ HasEntries(s))
    BY <1>1, <1>2 DEF AppendBlock, Patch, HasEntries
  <2>2. HasEntries(AppendBlock(s, g)) BY <1>6, <2>1 DEF HasEntries
  <2>3. IsArray(f) => IsArray(AppendBlock(s, g)) BY <1>4, <2>1, <2>2 DEF IsArray
  <2> QED BY <1>2, <1>3, <1>6, <2>1, <2>3
<1> QED BY <1>5, <1>6

LEMMA SyncSkinKeeps ==
    ASSUME NEW f \in Patch, NEW on \in SUBSET Pkgs
    PROVE  /\ SyncSkinPatch(f, on) \in Patch
           /\ IsArray(f) => IsArray(SyncSkinPatch(f, on))
           /\ SyncSkinPatch(f, on).mcp = f.mcp /\ SyncSkinPatch(f, on).skin = on
           /\ SyncSkinPatch(f, on).rows = f.rows
<1> DEFINE s == [f EXCEPT !.skin = {}]
           g == [s EXCEPT !.skin = on]
<1>1. /\ s \in Patch /\ s.array = f.array /\ s.user = f.user /\ s.rows = f.rows /\ s.skin = {} /\ s.mcp = f.mcp
  BY DEF Patch
<1> HIDE DEF s
<1>2. /\ g \in Patch /\ g.array = f.array /\ g.user = f.user /\ g.rows = f.rows /\ g.skin = on /\ g.mcp = f.mcp
  BY <1>1 DEF Patch
<1>3. SyncSkinPatch(f, on) = IF on = {} THEN RestorePlaceholder(s) ELSE AppendBlock(s, g)
  BY DEF SyncSkinPatch, s
<1> HIDE DEF g
<1>4. IsArray(f) => (s.array => ~HasEntries(s)) BY <1>1 DEF IsArray, HasEntries, Patch
<1>5. CASE on = {}
  <2>1. RestorePlaceholder(s) \in Patch /\ RestorePlaceholder(s).skin = {} /\ RestorePlaceholder(s).mcp = s.mcp
        /\ RestorePlaceholder(s).rows = s.rows
    BY <1>1 DEF RestorePlaceholder, Patch
  <2> QED BY <1>1, <1>3, <1>4, <1>5, <2>1, RestoreArray
<1>6. CASE on # {}
  <2>1. AppendBlock(s, g) \in Patch /\ AppendBlock(s, g).skin = on /\ AppendBlock(s, g).mcp = g.mcp
        /\ AppendBlock(s, g).rows = g.rows /\ AppendBlock(s, g).user = g.user
        /\ AppendBlock(s, g).array = (s.array /\ HasEntries(s))
    BY <1>1, <1>2 DEF AppendBlock, Patch, HasEntries
  <2>2. HasEntries(AppendBlock(s, g)) BY <1>6, <2>1 DEF HasEntries
  <2>3. IsArray(f) => IsArray(AppendBlock(s, g)) BY <1>4, <2>1, <2>2 DEF IsArray
  <2> QED BY <1>2, <1>3, <1>6, <2>1, <2>3
<1> QED BY <1>5, <1>6

-----------------------------------------------------------------------------
\* The commands begin with a well-formed list of writes.

\* The writes a skill's directory is changed by.  No command starts with one of them on
\* its list: they are put at its head once a fetch has gone through.
MiddleOps == {"files", "rename", "prune"}
Plain(t) == \A i \in DOMAIN t : t[i].op \notin MiddleOps
StartCourse(k, x) == {o \in Course(k, x) : o.op \notin MiddleOps}
Begun == TypeInv' /\ Plain(job'.todo)

LEMMA StartCourses ==
    ASSUME NEW k, NEW x, NEW t \in Seq(StartCourse(k, x)) PROVE t \in Seq(Course(k, x)) /\ Plain(t)
<1> DEFINE C == StartCourse(k, x)
           D == Course(k, x)
<1>0. t \in Seq(C) OBVIOUS
<1>1. C \subseteq D BY DEF StartCourse
<1>2. t \in Seq(D)
  <2> HIDE DEF C, D
  <2> QED BY <1>0, <1>1, SeqMonotonic
<1>3. \A i \in DOMAIN t : t[i] \in C
  <2> HIDE DEF C
  <2> QED BY <1>0, LenProperties, ElementOfSeq
<1> QED BY <1>2, <1>3 DEF Plain, StartCourse

LEMMA BeginOK ==
    ASSUME TypeInv, NEW k \in Starts, NEW x \in Items, NEW t \in Seq(StartCourse(k, x)), t # <<>>, Follows(t),
           NEW rows \in SUBSET Ids, Begin(k, x, t, rows)
    PROVE  Begun
<1>0. t \in Seq(Course(k, x)) /\ Plain(t) BY StartCourses
<1>1. t \in Seq(OpSet) BY <1>0, CourseTyped, SeqMonotonic
<1>2. Recorded \in SUBSET Items
  <2>1. deps \in SUBSET Pkgs BY DEF TypeInv, TypeOK
  <2> QED BY <2>1 DEF Recorded, Items
<1>3. job' = [NoJob EXCEPT !.kind = k, !.item = x, !.todo = t, !.rows = rows, !.had = Recorded] /\ last' = NoEnd
  BY DEF Begin
<1>4. job' \in Job /\ job'.kind = k /\ job'.item = x /\ job'.todo = t
  <2> DEFINE had == Recorded
  <2>1. job' = [kind |-> k, item |-> x, todo |-> t, cls |-> "-", ver |-> 0, rows |-> rows, bundle |-> {},
                files |-> {}, pre |-> FALSE, had |-> had, failed |-> FALSE]
    BY <1>3 DEF NoJob
  <2> HIDE DEF had
  <2> QED BY <1>1, <1>2, <2>1 DEF Job, had
<1>5. k # "none" BY DEF Starts
<1>6. JobOK' BY <1>0, <1>3, <1>4, <1>5 DEF JobOK, Idle
<1>7. last' \in End BY <1>3 DEF NoEnd, End
<1>8. jobs' \in Nat BY DEF Begin, TypeInv, TypeOK
<1>9. TypeInv'
  BY <1>4, <1>6, <1>7, <1>8
     DEF Begin, TypeInv, TypeOK, ProbeTypeOK, manifest, trees, history
<1> QED BY <1>0, <1>4, <1>9 DEF Begun

LEMMA EnqueueOK ==
    ASSUME TypeInv, NEW k \in Starts, NEW x \in Items, NEW t \in Seq(StartCourse(k, x)), t # <<>>, Follows(t),
           Enqueue(k, x, t)
    PROVE  Begun
BY BeginOK DEF Enqueue

LEMMA RowsTyped == ASSUME TypeInv, NEW p \in Pkgs PROVE InsertedRows(p) \in SUBSET Ids
<1>1. nm[p].ver \in 0..2
  BY DEF TypeInv, TypeOK
<1>2. \A v \in Versions : RowIds[p][v] \in SUBSET Ids
  BY ContentAssumption
<1>3. QED
  BY <1>1, <1>2 DEF InsertedRows, parse_inserted_ids, Versions

USE DEF Op, OpAt

LEMMA SkillCommandsOK ==
    ASSUME TypeInv, NEW s \in Skills, InstallSkill(s) \/ UpdateSkill(s) \/ UninstallSkill(s)
    PROVE  Begun
<1>0. s \in Items BY DEF Items
<1>1. CASE InstallSkill(s)
  <2> DEFINE t == <<Op("fetchSkill", s), Op("recordSkill", s), Op("meta", s), Op("reconcile", s)>>
  <2>1. \A o \in {"fetchSkill", "recordSkill", "meta", "reconcile"} : Op(o, s) \in StartCourse("skill", s)
    BY <1>0 DEF StartCourse, MiddleOps, Course, TypedOps, OpSet, Ops, SkillOps, McpOps, PkgOps, SkillCourse, Targets
  <2>2. t \in Seq(StartCourse("skill", s)) /\ t # <<>> BY <2>1
  <2>3. Follows(t) BY DEF Follows, FollowedBy, Then
  <2>4. Enqueue("skill", s, t) BY <1>1 DEF InstallSkill
  <2> HIDE DEF t
  <2> QED BY <1>0, <2>2, <2>3, <2>4, EnqueueOK DEF Starts
<1>2. CASE UpdateSkill(s)
  <2> DEFINE t == IF skills[s] = -1 THEN <<Op("fail", s)>>
                  ELSE <<Op("fetchSkill", s), Op("recordSkill", s), Op("reconcile", s)>>
  <2>1. \A o \in {"fail", "fetchSkill", "recordSkill", "reconcile"} : Op(o, s) \in StartCourse("skillUpdate", s)
    BY <1>0 DEF StartCourse, MiddleOps, Course, TypedOps, OpSet, Ops, SkillOps, McpOps, PkgOps, SkillCourse, Targets
  <2>2. t \in Seq(StartCourse("skillUpdate", s)) /\ t # <<>> BY <2>1
  <2>3. Follows(t) BY DEF Follows, FollowedBy, Then
  <2>4. Enqueue("skillUpdate", s, t) BY <1>2 DEF UpdateSkill
  <2> HIDE DEF t
  <2> QED BY <1>0, <2>2, <2>3, <2>4, EnqueueOK DEF Starts
<1>3. CASE UninstallSkill(s)
  <2> DEFINE t == <<Op("rmDir", s), Op("unrecordSkill", s), Op("reconcile", s)>>
  <2>1. \A o \in {"rmDir", "unrecordSkill", "reconcile"} : Op(o, s) \in StartCourse("skillRemove", s)
    BY <1>0 DEF StartCourse, MiddleOps, Course, TypedOps, OpSet, Ops, SkillOps, McpOps, PkgOps, Targets
  <2>2. t \in Seq(StartCourse("skillRemove", s)) /\ t # <<>> BY <2>1
  <2>3. Follows(t) BY DEF Follows, FollowedBy, Then
  <2>4. Enqueue("skillRemove", s, t) BY <1>3 DEF UninstallSkill
  <2> HIDE DEF t
  <2> QED BY <1>0, <2>2, <2>3, <2>4, EnqueueOK DEF Starts
<1> QED BY <1>1, <1>2, <1>3

LEMMA DiscardOK ==
    ASSUME NEW m \in Servers, NEW k \in {"mcp", "mcpRemove"}
    PROVE  /\ Discard(m) \in Seq(StartCourse(k, m)) /\ Discard(m) # <<>> /\ Follows(Discard(m))
           /\ Append(Discard(m), Op("fail", m)) \in Seq(StartCourse(k, m))
           /\ Follows(Append(Discard(m), Op("fail", m)))
<1>1. \A o \in {"unrecord", "syncMcp", "rmMcpDir", "unmeta", "reconcile", "fail"} : Op(o, m) \in StartCourse(k, m)
  BY DEF StartCourse, MiddleOps, Course, TypedOps, OpSet, Ops, SkillOps, McpOps, PkgOps, McpCourse, Targets, Items
<1>2. Discard(m) \in Seq(StartCourse(k, m)) BY <1>1 DEF Discard
<1>3. Discard(m) # <<>> BY DEF Discard
<1>4. Follows(Discard(m)) BY DEF Discard, Follows, FollowedBy, Then
<1>5. /\ Append(Discard(m), Op("fail", m)) \in Seq(StartCourse(k, m))
      /\ Follows(Append(Discard(m), Op("fail", m)))
  <2> HIDE DEF Op
  <2> QED BY <1>1, <1>2, <1>4, AppendFollows DEF Silent, Op
<1> QED BY <1>2, <1>3, <1>4, <1>5

LEMMA ServerCommandsOK ==
    ASSUME TypeInv, NEW m \in Servers,
           \/ InstallMcp(m) \/ UninstallMcp(m) \/ HealthCheck(m)
           \/ \E v \in {"on", "off"} : ToggleMcp(m, v)
           \/ \E n \in Servers : ImportMcp(m, n)
    PROVE  Begun
<1>0. m \in Items BY DEF Items
<1>1. CASE InstallMcp(m)
  <2> DEFINE t == <<Op("fetch", m), Op("record", m), Op("syncMcp", m), Op("meta", m), Op("reconcile", m),
                    Op("probe", m)>>
  <2>1. \A o \in {"fetch", "record", "syncMcp", "meta", "reconcile", "probe"} : Op(o, m) \in StartCourse("mcp", m)
    BY <1>0 DEF StartCourse, MiddleOps, Course, TypedOps, OpSet, Ops, SkillOps, McpOps, PkgOps, McpCourse, Targets
  <2>2. t \in Seq(StartCourse("mcp", m)) /\ t # <<>> BY <2>1
  <2>3. Follows(t) BY DEF Follows, FollowedBy, Then
  <2>4. Enqueue("mcp", m, t) BY <1>1 DEF InstallMcp
  <2> HIDE DEF t
  <2> QED BY <1>0, <2>2, <2>3, <2>4, EnqueueOK DEF Starts
<1>2. CASE UninstallMcp(m)
  BY <1>0, <1>2, DiscardOK, EnqueueOK DEF UninstallMcp, Starts
<1>3. CASE HealthCheck(m)
  <2> DEFINE t == IF mcp[m] = "absent" THEN <<Op("fail", m)>> ELSE <<Op("probe", m)>>
  <2>1. \A o \in {"fail", "probe"} : Op(o, m) \in StartCourse("health", m)
    BY <1>0 DEF StartCourse, MiddleOps, Course, TypedOps, OpSet, Ops, SkillOps, McpOps, PkgOps, Targets
  <2>2. t \in Seq(StartCourse("health", m)) /\ t # <<>> BY <2>1
  <2>3. Follows(t) BY DEF Follows, FollowedBy, Then
  <2>4. Begin("health", m, t, {}) BY <1>3 DEF HealthCheck
  <2> HIDE DEF t
  <2> QED BY <1>0, <2>2, <2>3, <2>4, BeginOK DEF Starts
<1>4. ASSUME NEW v \in {"on", "off"}, ToggleMcp(m, v) PROVE Begun
  <2> DEFINE k == IF v = "on" THEN "mcpOn" ELSE "mcpOff"
             t == IF mcp[m] = "absent" THEN <<Op("fail", m)>>
                  ELSE IF mcp[m] = v THEN <<Op("next", m)>>
                  ELSE <<OpAt("setMcp", m, v), Op("syncMcp", m), Op("reconcile", m)>>
  <2>1. /\ \A o \in {"fail", "next", "syncMcp", "reconcile"} : Op(o, m) \in StartCourse(k, m)
        /\ OpAt("setMcp", m, v) \in StartCourse(k, m)
    BY <1>0 DEF StartCourse, MiddleOps, Course, TypedOps, OpSet, Ops, SkillOps, McpOps, PkgOps, Targets
  <2>2. t \in Seq(StartCourse(k, m)) /\ t # <<>>
    <3> HIDE DEF k
    <3> QED BY <2>1
  <2>3. Follows(t) BY DEF Follows, FollowedBy, Then
  <2>4. Enqueue(k, m, t) BY <1>4 DEF ToggleMcp
  <2>5. k \in Starts BY DEF Starts
  <2> HIDE DEF t, k
  <2> QED BY <1>0, <2>2, <2>3, <2>4, <2>5, EnqueueOK
<1>5. ASSUME NEW n \in Servers, ImportMcp(m, n) PROVE Begun
  <2> DEFINE t == mcp_import_job(m, n)
  <2>1. /\ Op("record", m) \in StartCourse("import", m) /\ Op("record", n) \in StartCourse("import", m)
        /\ Op("syncMcp", n) \in StartCourse("import", m) /\ Op("reconcile", n) \in StartCourse("import", m)
    BY <1>0 DEF StartCourse, MiddleOps, Course, TypedOps, OpSet, Ops, SkillOps, McpOps, PkgOps, Targets, Items
  <2>2. t \in Seq(StartCourse("import", m)) /\ t # <<>> BY <2>1 DEF mcp_import_job
  <2>3. Follows(t) BY DEF Follows, FollowedBy, Then, mcp_import_job
  <2>4. Enqueue("import", m, t) BY <1>5 DEF ImportMcp
  <2> HIDE DEF t
  <2> QED BY <1>0, <2>2, <2>3, <2>4, EnqueueOK DEF Starts
<1> QED BY <1>1, <1>2, <1>3, <1>4, <1>5

LEMMA FetchedOK ==
    ASSUME NEW k \in {"plugin", "rawPlugin", "bundle"}, NEW x, NEW p \in Pkgs, NEW at \in {"dir", "name"},
           k = "plugin" => p = x
    PROVE  Fetched(p, at) \in Seq(StartCourse(k, x)) /\ Follows(Fetched(p, at))
<1>1. Op("resolve", p) \in StartCourse(k, x)
  BY DEF StartCourse, MiddleOps, Course, TypedOps, OpSet, Ops, SkillOps, McpOps, PkgOps, PluginCourse, Targets, Items
<1>2. <<Op("resolve", p)>> \in Seq(StartCourse(k, x)) BY <1>1
<1>3. Follows(<<Op("resolve", p)>>) BY DEF Follows, FollowedBy, Then
<1> QED BY <1>2, <1>3, EmptyTodo DEF Fetched

LEMMA AddOK ==
    ASSUME NEW k \in {"plugin", "rawPlugin", "bundle"}, NEW x, NEW p \in Pkgs, NEW at \in {"dir", "name"},
           k = "plugin" => p = x
    PROVE  Add(p, at) \in Seq(StartCourse(k, x)) /\ Follows(Add(p, at))
<1> DEFINE t == <<OpAt("add", p, at), Op("land", p), Op("meta", p)>>
<1>1. OpAt("add", p, at) \in StartCourse(k, x) /\ Op("land", p) \in StartCourse(k, x) /\ Op("meta", p) \in StartCourse(k, x)
  BY DEF StartCourse, MiddleOps, Course, TypedOps, OpSet, Ops, SkillOps, McpOps, PkgOps, PluginCourse, Targets, Items
<1>2. t \in Seq(StartCourse(k, x)) BY <1>1
<1>3. Follows(t) BY DEF Follows, FollowedBy, Then
<1>4. Fetched(p, at) \in Seq(StartCourse(k, x)) /\ Follows(Fetched(p, at)) BY FetchedOK
<1> HIDE DEF t
<1>5. Fetched(p, at) \o t \in Seq(StartCourse(k, x)) /\ Follows(Fetched(p, at) \o t)
  BY <1>2, <1>3, <1>4, ConcatFollows
<1> QED BY <1>5 DEF Add, t

LEMMA PackageCommandsOK ==
    ASSUME TypeInv, NEW p \in Pkgs,
           \/ \E at \in {"dir", "name"} : InstallPlugin(p, at) \/ InstallRaw(p, at)
           \/ UninstallPlugin(p) \/ UpdatePlugin(p)
           \/ \E v \in {"on", "off"} : TogglePlugin(p, v)
    PROVE  Begun
<1>0. p \in Items /\ InsertedRows(p) \in SUBSET Ids BY RowsTyped DEF Items
<1> USE DEF TypedOps, OpSet, Ops, SkillOps, McpOps, PkgOps, PluginCourse, Targets
<1>1. ASSUME NEW at \in {"dir", "name"}, InstallPlugin(p, at) PROVE Begun
  <2> DEFINE t == Append(Add(p, at), Op("reconcile", p))
             o == Op("reconcile", p)
  <2>1. Add(p, at) \in Seq(StartCourse("plugin", p)) /\ Follows(Add(p, at)) BY AddOK
  <2>2. o \in StartCourse("plugin", p) BY <1>0 DEF StartCourse, MiddleOps, Course
  <2>3. o.op \in Silent BY DEF Silent
  <2>4. Append(Add(p, at), o) \in Seq(StartCourse("plugin", p)) /\ Append(Add(p, at), o) # <<>>
        /\ Follows(Append(Add(p, at), o))
    <3> HIDE DEF o
    <3> QED BY <2>1, <2>2, <2>3, AppendFollows
  <2> DEFINE C == StartCourse("plugin", p)
             d == Op("dropRoot", p)
             root == IF p \in Themes /\ at = "dir" /\ Root[p] # {} THEN <<d>> ELSE <<>>
  <2>5. Enqueue("plugin", p, root \o t) BY <1>1 DEF InstallPlugin
  <2>6. d \in C /\ d.op \in Silent BY <1>0 DEF StartCourse, MiddleOps, Course, Silent
  <2>7. root \o t \in Seq(C) /\ root \o t # <<>> /\ Follows(root \o t)
    <3>1. t \in Seq(C) /\ t # <<>> /\ Follows(t) BY <2>4
    <3> HIDE DEF C, d, t
    <3>2. <<d>> \o t \in Seq(C) /\ <<d>> \o t # <<>> /\ Follows(<<d>> \o t) BY <2>6, <3>1, PushFollows
    <3>3. <<>> \o t = t BY <3>1, ConcatEmptySeq
    <3> QED BY <3>1, <3>2, <3>3
  <2> HIDE DEF root, t
  <2> QED BY <1>0, <2>5, <2>7, EnqueueOK DEF Starts
<1>2. ASSUME NEW at \in {"dir", "name"}, InstallRaw(p, at) PROVE Begun
  <2> DEFINE C == StartCourse("rawPlugin", p)
             a == OpAt("add", p, at)
             d == OpAt("land", p, "raw")
             f == Fetched(p, at)
             l == IF at = "dir" THEN <<d>> ELSE <<>>
             r == <<Op("reconcile", p)>>
             t == Append(f, a) \o l \o r
  <2>1. f \in Seq(C) /\ Follows(f) BY FetchedOK
  <2>2. a \in C /\ Op("reconcile", p) \in C /\ d \in C BY <1>0 DEF StartCourse, MiddleOps, Course
  <2>3. l \in Seq(C) /\ r \in Seq(C) /\ r # <<>>
    <3> HIDE DEF C
    <3> QED BY <2>2, EmptySeq
  <2>4. Follows(r) BY DEF Follows, FollowedBy, Then
  <2>5. a.op \in Silent /\ d.op = "land" BY DEF Silent
  <2>6. t \in Seq(C) /\ Follows(t) /\ t # <<>>
    <3> HIDE DEF C, a, d, f, r
    <3>1. Append(f, a) \in Seq(C) /\ Follows(Append(f, a)) BY <2>1, <2>2, <2>5, AppendFollows
    <3>2. l \o r \in Seq(C) /\ Follows(l \o r)
      <4>1. <<d>> \o r \in Seq(C) /\ Follows(<<d>> \o r) BY <2>2, <2>3, <2>4, <2>5, PushFollows
      <4>2. <<>> \o r = r BY <2>3, ConcatEmptySeq
      <4> QED BY <2>3, <2>4, <4>1, <4>2
    <3> HIDE DEF l
    <3>3. t = Append(f, a) \o (l \o r) BY <2>3, <3>1, ConcatAssociative
    <3>4. t \in Seq(C) /\ Follows(t) BY <3>1, <3>2, <3>3, ConcatFollows
    <3>5. Len(t) = Len(Append(f, a) \o l) + Len(r) /\ Len(r) > 0 /\ Len(Append(f, a) \o l) \in Nat
      BY <2>3, <3>1, ConcatProperties, EmptySeq, LenProperties
    <3>6. Len(t) > 0 BY <3>5
    <3> QED BY <3>4, <3>6, EmptySeq
  <2>7. Enqueue("rawPlugin", p, t) BY <1>2 DEF InstallRaw
  <2> HIDE DEF t
  <2> QED BY <1>0, <2>6, <2>7, EnqueueOK DEF Starts
<1>3. CASE UninstallPlugin(p)
  <2> DEFINE C == StartCourse("pluginRemove", p)
             t == <<OpAt("dshRemove", p, "must"), Op("dropSkin", p), Op("rmRows", p), Op("syncSkin", p),
                    Op("reconcile", p)>>
  <2>1. /\ OpAt("dshRemove", p, "must") \in C /\ Op("dropSkin", p) \in C /\ Op("rmRows", p) \in C
        /\ Op("syncSkin", p) \in C /\ Op("reconcile", p) \in C
    BY <1>0 DEF StartCourse, MiddleOps, Course
  <2>2. t \in Seq(C) /\ t # <<>>
    <3> HIDE DEF C
    <3> QED BY <2>1
  <2>3. Follows(t) BY DEF Follows, FollowedBy, Then
  <2>4. Begin("pluginRemove", p, t, InsertedRows(p)) BY <1>3 DEF UninstallPlugin
  <2> HIDE DEF t
  <2> QED BY <1>0, <2>2, <2>3, <2>4, BeginOK DEF Starts
<1>4. CASE UpdatePlugin(p)
  <2> DEFINE C == StartCourse("pluginUpdate", p)
             t == <<Op("update", p), Op("reconcile", p)>>
  <2>1. Op("update", p) \in C /\ Op("reconcile", p) \in C BY <1>0 DEF StartCourse, MiddleOps, Course
  <2>2. t \in Seq(C) /\ t # <<>>
    <3> HIDE DEF C
    <3> QED BY <2>1
  <2>3. Follows(t) BY DEF Follows, FollowedBy, Then
  <2>4. Enqueue("pluginUpdate", p, t) BY <1>4 DEF UpdatePlugin
  <2> HIDE DEF t
  <2> QED BY <1>0, <2>2, <2>3, <2>4, EnqueueOK DEF Starts
<1>5. ASSUME NEW v \in {"on", "off"}, TogglePlugin(p, v) PROVE Begun
  <2> DEFINE k == IF v = "on" THEN "pluginOn" ELSE "pluginOff"
             rowOp == IF v = "on" THEN "rowOn" ELSE "rowOff"
             C == StartCourse(k, p)
             rows == IF InsertedRows(p) = {} THEN Op("fail", p) ELSE Op(rowOp, p)
             o == Op("reconcile", p)
  <2>1. /\ Op("fail", p) \in C /\ rows \in C /\ OpAt("setSkin", p, v) \in C /\ Op("syncSkin", p) \in C
        /\ o \in C
    BY <1>0 DEF StartCourse, MiddleOps, Course
  <2>2. rows.op \notin {"fetchSkill", "files", "prune", "rename", "unrecord", "setMcp", "record", "land",
                        "dropSkin", "rmRows"}
    OBVIOUS
  <2>3. \A t \in {<<Op("fail", p)>>, <<rows>>, <<rows, OpAt("setSkin", p, v)>>,
                  <<OpAt("setSkin", p, v), Op("syncSkin", p)>>} : t \in Seq(C) /\ Follows(t)
    <3>1. /\ <<Op("fail", p)>> \in Seq(C) /\ <<rows>> \in Seq(C) /\ <<rows, OpAt("setSkin", p, v)>> \in Seq(C)
          /\ <<OpAt("setSkin", p, v), Op("syncSkin", p)>> \in Seq(C)
      <4> HIDE DEF C, rows
      <4> QED BY <2>1
    <3>2. /\ Follows(<<Op("fail", p)>>) /\ Follows(<<OpAt("setSkin", p, v), Op("syncSkin", p)>>)
      BY DEF Follows, FollowedBy, Then
    <3>3. Follows(<<rows>>) /\ Follows(<<rows, OpAt("setSkin", p, v)>>)
      <4> HIDE DEF rows
      <4> QED BY <2>2 DEF Follows, FollowedBy, Then
    <3> HIDE DEF C, rows
    <3> QED BY <3>1, <3>2, <3>3
  <2>4. \E t \in {<<Op("fail", p)>>, <<rows>>, <<rows, OpAt("setSkin", p, v)>>,
                  <<OpAt("setSkin", p, v), Op("syncSkin", p)>>} : Begin(k, p, Append(t, o), InsertedRows(p))
    BY <1>5, Zenon DEF TogglePlugin
  <2>5. PICK t \in {<<Op("fail", p)>>, <<rows>>, <<rows, OpAt("setSkin", p, v)>>,
                  <<OpAt("setSkin", p, v), Op("syncSkin", p)>>} : Begin(k, p, Append(t, o), InsertedRows(p))
    BY <2>4
  <2>6. o.op \in Silent BY DEF Silent
  <2>7. Append(t, o) \in Seq(C) /\ Append(t, o) # <<>> /\ Follows(Append(t, o))
    <3> HIDE DEF C, o, rows
    <3> QED BY <2>1, <2>3, <2>5, <2>6, AppendFollows
  <2>8. k \in Starts BY DEF Starts
  <2> HIDE DEF k, o
  <2> QED BY <1>0, <2>5, <2>7, <2>8, BeginOK
<1> QED BY <1>1, <1>2, <1>3, <1>4, <1>5

LEMMA BundleItemOK ==
    ASSUME NEW x \in Items, NEW z \in Items
    PROVE  /\ BundleItem(x) \in Seq(StartCourse("bundle", z)) /\ BundleItem(x) # <<>> /\ Follows(BundleItem(x))
<1> USE DEF TypedOps, OpSet, Ops, SkillOps, McpOps, PkgOps, Targets
<1> DEFINE C == StartCourse("bundle", z)
           o == Op("next", x)
<1> SUFFICES BundleItem(x) \in Seq(C) /\ BundleItem(x) # <<>> /\ Follows(BundleItem(x)) OBVIOUS
<1>1. o \in C /\ o.op \in Silent BY DEF StartCourse, MiddleOps, Course, Silent
<1>2. ASSUME NEW t, t \in Seq(C), Follows(t), BundleItem(x) = Append(t, o)
      PROVE  BundleItem(x) \in Seq(C) /\ BundleItem(x) # <<>> /\ Follows(BundleItem(x))
  <2> HIDE DEF C, o
  <2> QED BY <1>1, <1>2, AppendFollows
<1>3. CASE x \in Skills
  <2> DEFINE t == <<Op("fetchSkill", x), Op("recordSkill", x), Op("meta", x)>>
  <2>1. \A n \in {"fetchSkill", "recordSkill", "meta"} : Op(n, x) \in C BY <1>3 DEF StartCourse, MiddleOps, Course, Items
  <2>2. t \in Seq(C)
    <3> HIDE DEF C
    <3> QED BY <2>1
  <2>3. Follows(t) BY DEF Follows, FollowedBy, Then
  <2>4. BundleItem(x) = Append(t, o) BY <1>3, ContentAssumption DEF BundleItem
  <2> HIDE DEF t, C, o
  <2> QED BY <1>2, <2>2, <2>3, <2>4
<1>4. CASE x \in Servers
  <2> DEFINE t == <<Op("record", x), Op("syncMcp", x), Op("meta", x)>>
  <2>1. \A n \in {"record", "syncMcp", "meta"} : Op(n, x) \in C BY <1>4 DEF StartCourse, MiddleOps, Course, Items
  <2>2. t \in Seq(C)
    <3> HIDE DEF C
    <3> QED BY <2>1
  <2>3. Follows(t) BY DEF Follows, FollowedBy, Then
  <2>4. BundleItem(x) = Append(t, o) BY <1>4, ContentAssumption DEF BundleItem
  <2> HIDE DEF t, C, o
  <2> QED BY <1>2, <2>2, <2>3, <2>4
<1>5. CASE x \in Pkgs
  <2>1. Add(x, "name") \in Seq(C) /\ Follows(Add(x, "name")) BY <1>5, AddOK
  <2>2. BundleItem(x) = Append(Add(x, "name"), o) BY <1>5, ContentAssumption DEF BundleItem
  <2> HIDE DEF C, o
  <2> QED BY <1>2, <2>1, <2>2
<1> QED BY <1>3, <1>4, <1>5 DEF Items

LEMMA ImportBundleOK == ASSUME TypeInv, NEW x \in Items, NEW y \in Items, ImportBundle(x, y) PROVE Begun
<1> DEFINE C == StartCourse("bundle", x)
           o == Op("reconcile", x)
           t == Append(BundleItem(x) \o BundleItem(y), o)
<1>1. o \in C /\ o.op \in Silent
  BY DEF StartCourse, MiddleOps, Course, Silent, TypedOps, OpSet, Ops, SkillOps, McpOps, PkgOps, Targets
<1>2. /\ BundleItem(x) \in Seq(C) /\ Follows(BundleItem(x))
      /\ BundleItem(y) \in Seq(C) /\ Follows(BundleItem(y))
  BY BundleItemOK
<1>3. t \in Seq(C) /\ t # <<>> /\ Follows(t)
  <2> HIDE DEF C, o
  <2>1. BundleItem(x) \o BundleItem(y) \in Seq(C) /\ Follows(BundleItem(x) \o BundleItem(y))
    BY <1>2, ConcatFollows
  <2> QED BY <1>1, <2>1, AppendFollows
<1>4. Enqueue("bundle", x, t) BY DEF ImportBundle
<1> HIDE DEF t
<1> QED BY <1>3, <1>4, EnqueueOK DEF Starts

LEMMA StartOK == TypeInv /\ Start => TypeInv' /\ Plain(job'.todo)
<1>1. TypeInv /\ Start => Begun
  BY SkillCommandsOK, ServerCommandsOK, PackageCommandsOK, ImportBundleOK DEF Start
<1> QED BY <1>1 DEF Begun

-----------------------------------------------------------------------------
\* Every step of a command.

\* What HeadOp and the type invariant say at a step of a command.
Stepping ==
    /\ TypeOK /\ job \in Job /\ job.kind # "none" /\ last = NoEnd
    /\ Now \in TypedOps /\ Now \in OpSet /\ Now \in Course(job.kind, job.item)
    /\ Now = job.todo[1] /\ Len(job.todo) \in Nat \ {0} /\ job.todo # <<>>
    /\ FollowedBy(job.todo, 1)
    /\ job.todo \in Seq(Course(job.kind, job.item)) /\ Follows(job.todo)
    /\ Tail(job.todo) \in Seq(Course(job.kind, job.item)) /\ Follows(Tail(job.todo))

LEMMA SteppingOK == TypeInv /\ ~Idle => Stepping
BY HeadOp DEF TypeInv, JobOK, Idle, Stepping

LEMMA SecondOp ==
    ASSUME Stepping, Len(job.todo) > 1
    PROVE  /\ Tail(job.todo) # <<>> /\ Tail(job.todo)[1] = job.todo[2]
           /\ Tail(Tail(job.todo)) \in Seq(Course(job.kind, job.item)) /\ Follows(Tail(Tail(job.todo)))
<1> DEFINE C == Course(job.kind, job.item)
<1>1. job.todo \in Seq(C) /\ job.todo # <<>> /\ Tail(job.todo) \in Seq(C) /\ Follows(Tail(job.todo))
      /\ Len(job.todo) \in Nat
  BY DEF Stepping
<1> HIDE DEF C
<1>2. Len(Tail(job.todo)) = Len(job.todo) - 1 /\ \A i \in 1..Len(Tail(job.todo)) : Tail(job.todo)[i] = job.todo[i + 1]
  BY <1>1, HeadTailProperties
<1>3. Len(Tail(job.todo)) > 0 /\ Len(Tail(job.todo)) \in Nat BY <1>1, <1>2
<1>4. Tail(job.todo) # <<>> /\ Tail(job.todo)[1] = job.todo[2] BY <1>2, <1>3
<1> QED BY <1>1, <1>4, TailFollows DEF C

\* A command goes on with a longer list.
LEMMA PushOK ==
    ASSUME Stepping, NEW j \in Job, j.kind = job.kind, j.item = job.item,
           j.todo \in Seq(Course(job.kind, job.item)), j.todo # <<>>, Follows(j.todo), job' = j, last' = last
    PROVE  job' \in Job /\ last' \in End /\ JobOK'
BY DEF Stepping, JobOK, Idle, NoEnd, End

LEMMA FetchSkillOK == TypeInv /\ ~Idle /\ FetchSkill => TypeInv'
<1> SUFFICES ASSUME TypeInv, ~Idle, FetchSkill PROVE TypeInv' OBVIOUS
<1> DEFINE C == Course(job.kind, job.item)
<1>1. Stepping /\ TypeOK BY SteppingOK DEF TypeInv
<1>2. Now.op = "fetchSkill" /\ It \in Skills
  BY <1>1 DEF FetchSkill, At, It, Stepping, TypedOps, SkillOps
<1>3. Len(job.todo) > 1 /\ job.todo[2].op = "recordSkill" /\ job.todo[2].of = It
  BY <1>1, <1>2 DEF Stepping, FollowedBy, Then, It
<1>4. ASSUME Instead(Tail(Tail(job.todo))) PROVE job' \in Job /\ last' \in End /\ JobOK'
  BY <1>1, <1>3, <1>4, SecondOp, InsteadOK
<1>5. ASSUME NEW files \in Offers(It, upstream[It]), UNCHANGED last,
             job' = [job EXCEPT !.ver = upstream[It], !.bundle = files, !.files = files,
                                !.todo = <<Op("files", It)>> \o Tail(@)]
      PROVE  job' \in Job /\ last' \in End /\ JobOK'
  <2> DEFINE o == Op("files", It)
             u == <<o>> \o Tail(job.todo)
             j == [job EXCEPT !.ver = upstream[It], !.bundle = files, !.files = files, !.todo = u]
  <2>1. o \in C
    BY <1>1, <1>2 DEF Stepping, Course, TypedOps, OpSet, Ops, SkillOps, McpOps, PkgOps, SkillCourse, McpCourse,
                      PluginCourse, Targets, Items, It
  <2>2. Tail(job.todo) \in Seq(C) /\ Follows(Tail(job.todo)) /\ Tail(job.todo) # <<>>
        /\ Tail(job.todo)[1].op = "recordSkill" /\ Tail(job.todo)[1].of = It
    BY <1>1, <1>3, SecondOp DEF Stepping
  <2>3. o.op = "files" /\ o.of = It OBVIOUS
  <2>4. u \in Seq(C) /\ u # <<>> /\ Follows(u)
    <3> HIDE DEF C, o
    <3> QED BY <2>1, <2>2, <2>3, PushFollows
  <2>5. u \in Seq(OpSet)
    <3> HIDE DEF u
    <3> QED BY <2>4, CourseTyped, SeqMonotonic
  <2>6. upstream[It] \in Versions /\ files \in SUBSET Files
    <3>1. upstream \in [Skills -> Versions] BY <1>1 DEF TypeOK
    <3>2. upstream[It] \in Versions BY <1>2, <3>1
    <3> QED BY <3>2, ContentAssumption DEF Offers
  <2>7. j \in Job /\ j.kind = job.kind /\ j.item = job.item /\ j.todo = u
    <3> DEFINE v == upstream[It]
    <3>1. job \in Job /\ v \in 0..2 BY <1>1, <2>6 DEF Stepping, Versions
    <3> HIDE DEF u, v
    <3>2. [job EXCEPT !.ver = v, !.bundle = files, !.files = files, !.todo = u] \in Job
      BY <2>5, <2>6, <3>1 DEF Job
    <3>3. j = [job EXCEPT !.ver = v, !.bundle = files, !.files = files, !.todo = u] BY DEF v
    <3> QED BY <3>1, <3>2, <3>3 DEF Job
  <2>8. job' = j BY <1>5
  <2> HIDE DEF j, u
  <2> QED BY <1>1, <1>5, <2>4, <2>7, <2>8, PushOK
<1>6. job' \in Job /\ last' \in End /\ JobOK' /\ rewritten' \in SUBSET Skills
  <2>1. rewritten' \in SUBSET Skills BY <1>1, <1>2 DEF FetchSkill, TypeOK
  <2>2. CASE Fail("failed") BY <2>1, <2>2, FailOK
  <2>3. CASE ~Fail("failed") BY <1>4, <1>5, <2>1, <2>3 DEF FetchSkill
  <2> QED BY <2>2, <2>3
<1> QED BY <1>1, <1>6 DEF TypeInv, TypeOK, ProbeTypeOK, FetchSkill, manifest, trees, bounds

LEMMA ReplaceFileOK == TypeInv /\ ~Idle /\ ReplaceFile => TypeInv'
<1> SUFFICES ASSUME TypeInv, ~Idle, ReplaceFile PROVE TypeInv' OBVIOUS
<1> DEFINE C == Course(job.kind, job.item)
<1>1. Stepping /\ TypeOK BY SteppingOK DEF TypeInv
<1>2. Now.op = "files" /\ It \in Skills
  BY <1>1 DEF ReplaceFile, At, It, Stepping, TypedOps, SkillOps
<1>3. Len(job.todo) > 1 /\ job.todo[2].op = "recordSkill" /\ job.todo[2].of = It
  BY <1>1, <1>2 DEF Stepping, FollowedBy, Then, It
<1>4. PICK f \in NextFile :
          /\ disk' = [disk EXCEPT ![It][f] = 0]
          /\ job' = [job EXCEPT !.files = @ \ {f},
                        !.todo = IF f = "SKILL.md"
                                 THEN <<OpAt("rename", It, f), Op("prune", It)>> \o Tail(@)
                                 ELSE <<OpAt("rename", It, f)>> \o @]
  BY DEF ReplaceFile
<1>5. f \in AllFiles /\ job \in Job BY <1>1, <1>4 DEF NextFile, Stepping, Job, AllFiles
<1>6. disk' \in [Skills -> [AllFiles -> 0..2]]
  <2>1. disk \in [Skills -> [AllFiles -> 0..2]] BY <1>1 DEF TypeOK
  <2> QED BY <1>2, <1>4, <1>5, <2>1
<1>7. \A n \in {"rename", "prune", "files"}, a \in {"-", f} :
          (n = "rename" => a = f) => [op |-> n, of |-> It, at |-> a] \in C
  BY <1>1, <1>2, <1>5 DEF Stepping, Course, TypedOps, OpSet, Ops, SkillOps, McpOps, PkgOps, SkillCourse, McpCourse,
                    PluginCourse, Targets, Items, It
<1>8. Tail(job.todo) \in Seq(C) /\ Follows(Tail(job.todo)) /\ Tail(job.todo) # <<>>
      /\ Tail(job.todo)[1].op = "recordSkill" /\ Tail(job.todo)[1].of = It
  BY <1>1, <1>3, SecondOp DEF Stepping
<1> DEFINE r == OpAt("rename", It, f)
           p == Op("prune", It)
<1>9. r \in C /\ p \in C /\ r.op = "rename" /\ r.of = It /\ r.at = f /\ p.op = "prune" /\ p.of = It
  BY <1>7
<1>11. ASSUME f = "SKILL.md"
       PROVE  /\ <<r, p>> \o Tail(job.todo) \in Seq(C) /\ <<r, p>> \o Tail(job.todo) # <<>>
              /\ Follows(<<r, p>> \o Tail(job.todo))
  <2> DEFINE q == <<p>> \o Tail(job.todo)
  <2>1. q \in Seq(C) /\ q # <<>> /\ Follows(q) /\ q[1] = p
    <3> HIDE DEF C
    <3>1. q \in Seq(C) /\ q # <<>> /\ Follows(q)
      <4> HIDE DEF p
      <4> QED BY <1>8, <1>9, PushFollows
    <3> HIDE DEF p
    <3>2. <<p>> \in Seq(C) /\ Len(<<p>>) = 1 /\ <<p>>[1] = p BY <1>9
    <3> QED BY <1>8, <3>1, <3>2, ConcatProperties, LenProperties
  <2>2. q[1] = Op("prune", It) BY <2>1
  <2>3. <<r>> \o q \in Seq(C) /\ <<r>> \o q # <<>> /\ Follows(<<r>> \o q)
    <3> HIDE DEF C, q, r, p
    <3> QED BY <1>9, <1>11, <2>1, <2>2, PushFollows
  <2>4. <<r, p>> \o Tail(job.todo) = <<r>> \o q
    <3> HIDE DEF C, r, p
    <3> QED BY <1>8, <1>9, PairConcat
  <2> QED BY <2>3, <2>4
<1>12. ASSUME f # "SKILL.md"
       PROVE  <<r>> \o job.todo \in Seq(C) /\ <<r>> \o job.todo # <<>> /\ Follows(<<r>> \o job.todo)
  <2>1. job.todo \in Seq(C) /\ Follows(job.todo) /\ job.todo # <<>> /\ job.todo[1] = Now BY <1>1 DEF Stepping
  <2>2. job.todo[1].op = "files" /\ job.todo[1].of = It BY <1>2, <2>1 DEF It
  <2> HIDE DEF C, r
  <2> QED BY <1>9, <1>12, <2>1, <2>2, PushFollows
<1>13. job' \in Job /\ last' \in End /\ JobOK'
  <2> DEFINE u == IF f = "SKILL.md" THEN <<r, p>> \o Tail(job.todo) ELSE <<r>> \o job.todo
             j == [job EXCEPT !.files = @ \ {f}, !.todo = u]
  <2>1. u \in Seq(C) /\ u # <<>> /\ Follows(u)
    <3> HIDE DEF C, r, p
    <3> QED BY <1>11, <1>12
  <2>2. u \in Seq(OpSet)
    <3> HIDE DEF u
    <3> QED BY <2>1, CourseTyped, SeqMonotonic
  <2>3. j \in Job /\ j.kind = job.kind /\ j.item = job.item /\ j.todo = u
    <3> HIDE DEF u
    <3> QED BY <1>5, <2>2 DEF Job
  <2>4. job' = j /\ last' = last
    <3>1. job' = [job EXCEPT !.files = @ \ {f},
                        !.todo = IF f = "SKILL.md" THEN <<r, p>> \o Tail(job.todo) ELSE <<r>> \o job.todo]
      BY <1>4, <1>5 DEF Job
    <3> QED BY <3>1 DEF ReplaceFile
  <2> HIDE DEF j, u
  <2> QED BY <1>1, <2>1, <2>3, <2>4, PushOK
<1> QED BY <1>1, <1>6, <1>13 DEF TypeInv, TypeOK, ProbeTypeOK, ReplaceFile, manifest, history, bounds

\* The item of the write at the head is of the kind the write is about.
LEMMA HeadItem ==
    ASSUME TypeInv, ~Idle
    PROVE  /\ It \in Items
           /\ Now.op \in SkillOps => It \in Skills
           /\ Now.op \in McpOps => It \in Servers
           /\ Now.op \in PkgOps => It \in Pkgs
           /\ Now.op = "rename" => Now.at \in AllFiles
           /\ Now.op \in {"setMcp", "setSkin"} => Now.at \in {"on", "off"}
           /\ TypeOK
BY HeadOp DEF It, TypedOps, OpSet, TypeInv

LEMMA RestOfSkillStepOK ==
    ASSUME TypeInv, ~Idle, RenameFile \/ PruneStale \/ RemoveSkillDir \/ RecordSkill
    PROVE  TypeInv'
<1>1. TypeOK /\ job \in Job BY DEF TypeInv, TypeOK
<1>2. /\ disk \in [Skills -> [AllFiles -> 0..2]] /\ stray \in SUBSET Skills /\ rewritten \in SUBSET Skills
      /\ skills \in [Skills -> SkillRecord] /\ job.ver \in 0..2
  BY <1>1 DEF TypeOK, Job
<1>3. CASE RenameFile
  <2>1. It \in Skills /\ Now.at \in AllFiles BY <1>3, HeadItem DEF RenameFile, At, SkillOps
  <2>2. disk' \in [Skills -> [AllFiles -> 0..2]] BY <1>2, <1>3, <2>1 DEF RenameFile
  <2>3. job' \in Job /\ last' \in End /\ JobOK' BY <1>3, AdvanceOK DEF RenameFile
  <2> QED BY <1>1, <1>3, <2>2, <2>3 DEF TypeInv, TypeOK, ProbeTypeOK, RenameFile, manifest, history, bounds
<1>4. CASE PruneStale
  <2>1. It \in Skills BY <1>4, HeadItem DEF PruneStale, At, SkillOps
  <2>2. disk' \in [Skills -> [AllFiles -> 0..2]] BY <1>2, <1>4, <2>1 DEF PruneStale
  <2>3. stray' \in SUBSET Skills /\ rewritten' \in SUBSET Skills BY <1>2, <1>4 DEF PruneStale
  <2>4. job' \in Job /\ last' \in End /\ JobOK' BY <1>4, AdvanceOK DEF PruneStale
  <2> QED BY <1>1, <1>4, <2>2, <2>3, <2>4 DEF TypeInv, TypeOK, ProbeTypeOK, PruneStale, manifest, bounds
<1>5. CASE RemoveSkillDir
  <2>1. It \in Skills BY <1>5, HeadItem DEF RemoveSkillDir, At, SkillOps
  <2>2. disk' \in [Skills -> [AllFiles -> 0..2]] BY <1>2, <1>5, <2>1 DEF RemoveSkillDir
  <2>3. stray' \in SUBSET Skills /\ rewritten' \in SUBSET Skills BY <1>2, <1>5, <2>1 DEF RemoveSkillDir
  <2>4. job' \in Job /\ last' \in End /\ JobOK'
    <3>1. CASE UNCHANGED <<job, last>> BY <1>1, <3>1 DEF TypeInv, TypeOK, JobOK, Idle
    <3>2. CASE Advance BY <3>2, AdvanceOK
    <3>3. CASE Fail("failed") BY <3>3, FailOK
    <3> QED BY <1>5, <3>1, <3>2, <3>3 DEF RemoveSkillDir
  <2> QED BY <1>1, <1>5, <2>2, <2>3, <2>4 DEF TypeInv, TypeOK, ProbeTypeOK, RemoveSkillDir, manifest, bounds
<1>6. CASE RecordSkill
  <2>1. It \in Skills BY <1>6, HeadItem DEF RecordSkill, At, SkillOps
  <2>2. skills' \in [Skills -> SkillRecord] BY <1>2, <1>6, <2>1 DEF RecordSkill, SkillRecord, Versions
  <2>3. job' \in Job /\ last' \in End /\ JobOK' BY <1>6, AdvanceOK DEF RecordSkill
  <2> QED BY <1>1, <1>6, <2>2, <2>3 DEF TypeInv, TypeOK, ProbeTypeOK, RecordSkill, trees, history, bounds
<1> QED BY <1>3, <1>4, <1>5, <1>6

LEMMA SkillStepOK == TypeInv /\ ~Idle /\ SkillStep => TypeInv'
BY FetchSkillOK, ReplaceFileOK, RestOfSkillStepOK DEF SkillStep

LEMMA FetchMcpOK == TypeInv /\ ~Idle /\ FetchMcp => TypeInv'
<1> SUFFICES ASSUME TypeInv, ~Idle, FetchMcp PROVE TypeInv' OBVIOUS
<1> DEFINE C == Course(job.kind, job.item)
<1>1. Stepping /\ TypeOK BY SteppingOK DEF TypeInv
<1>2. Now.op = "fetch" /\ It \in Servers BY HeadItem DEF FetchMcp, At, McpOps
<1>3. Tail(job.todo) \in Seq(C) /\ Follows(Tail(job.todo)) BY <1>1 DEF Stepping
<1>4. Op("clone", It) \in C /\ Op("build", It) \in C
  BY <1>1, <1>2 DEF Stepping, Course, TypedOps, OpSet, Ops, SkillOps, McpOps, PkgOps, SkillCourse, McpCourse,
                    PluginCourse, Targets, Items, It
<1> DEFINE c == Op("clone", It)
           b == Op("build", It)
           u == <<c, b>> \o Tail(job.todo)
<1>5. u \in Seq(C) /\ Follows(u)
  <2>1. c.op \in Silent /\ b.op \in Silent BY DEF Silent
  <2> HIDE DEF C, c, b
  <2>2. <<b>> \o Tail(job.todo) \in Seq(C) /\ Follows(<<b>> \o Tail(job.todo)) BY <1>3, <1>4, <2>1, PushFollows DEF b
  <2>3. <<c>> \o (<<b>> \o Tail(job.todo)) \in Seq(C) /\ Follows(<<c>> \o (<<b>> \o Tail(job.todo)))
    BY <1>4, <2>1, <2>2, PushFollows DEF c
  <2> QED BY <1>3, <1>4, <2>3, PairConcat DEF c, b
<1>6. ASSUME NEW cls \in {"remote", "registry", "source"}, NEW t \in Seq(C), Follows(t),
             Continue([job EXCEPT !.cls = cls, !.todo = t])
      PROVE  job' \in Job /\ last' \in End /\ JobOK'
  <2> DEFINE j == [job EXCEPT !.cls = cls, !.todo = t]
  <2>1. t \in Seq(OpSet)
    <3> HIDE DEF C
    <3> QED BY <1>6, CourseTyped, SeqMonotonic DEF C
  <2>2. job \in Job /\ job.kind # "none" /\ last = NoEnd BY <1>1 DEF Stepping
  <2>3. j \in Job /\ j.kind = job.kind /\ j.item = job.item /\ j.todo = t BY <2>1, <2>2 DEF Job
  <2>4. Continue(j) BY <1>6
  <2> HIDE DEF j
  <2> QED BY <1>6, <2>2, <2>3, <2>4, ContinueOK
<1>7. job' \in Job /\ last' \in End /\ JobOK'
  <2>1. CASE Fail("failed") BY <2>1, FailOK
  <2>2. ASSUME NEW plan \in EffectivePlans(Catalog[It]), NEW t,
               t = Tail(job.todo) \/ t = u, Continue([job EXCEPT !.cls = ClassifyInstall(Catalog[It], plan), !.todo = t])
        PROVE  job' \in Job /\ last' \in End /\ JobOK'
    <3>1. ClassifyInstall(Catalog[It], plan) \in {"remote", "registry", "source"} BY DEF ClassifyInstall
    <3> HIDE DEF C, u
    <3> QED BY <1>3, <1>5, <1>6, <2>2, <3>1
  <2>3. CASE ~Fail("failed")
    <3>1. PICK plan \in EffectivePlans(Catalog[It]) :
             LET cls == ClassifyInstall(Catalog[It], plan)
                 next == [job EXCEPT !.cls = cls, !.todo = Tail(@)]
             IN  \/ Continue(next)
                 \/ Continue(IF Catalog[It].github THEN [next EXCEPT !.todo = <<c, b>> \o @] ELSE next)
      BY <2>3 DEF FetchMcp
    <3> DEFINE cls == ClassifyInstall(Catalog[It], plan)
    <3>2. [[job EXCEPT !.cls = cls, !.todo = Tail(@)] EXCEPT !.todo = <<c, b>> \o @]
             = [job EXCEPT !.cls = cls, !.todo = u]
      <4>1. job \in Job BY <1>1 DEF Stepping
      <4> HIDE DEF cls, c, b
      <4> QED BY <4>1 DEF Job
    <3>3. Continue([job EXCEPT !.cls = cls, !.todo = Tail(job.todo)])
          \/ Continue([job EXCEPT !.cls = cls, !.todo = u])
      <4> HIDE DEF u
      <4> QED BY <3>1, <3>2
    <3> HIDE DEF u
    <3> QED BY <2>2, <3>3
  <2> QED BY <2>1, <2>3
<1> QED BY <1>1, <1>7 DEF TypeInv, TypeOK, ProbeTypeOK, FetchMcp, manifest, trees, history, bounds

LEMMA QuarantineKeeps ==
    ASSUME TypeOK, NEW missed
    PROVE  /\ Quarantine(patch, missed) \in Patch
           /\ IsArray(patch) => IsArray(Quarantine(patch, missed))
           /\ Quarantine(patch, missed).mcp = patch.mcp /\ Quarantine(patch, missed).skin = patch.skin
           /\ Disables(Quarantine(patch, missed)) = Disables(patch) \cup (BreakingRows \ missed)
<1> DEFINE ids == BreakingRows \ missed
<1>1. patch \in Patch /\ deps \in SUBSET Pkgs /\ nm \in [Pkgs -> [ver : 0..2, built : BOOLEAN]] BY DEF TypeOK
<1>2. \A p \in Pkgs : InsertedRows(p) \in SUBSET Ids
  BY <1>1, ContentAssumption DEF InsertedRows, parse_inserted_ids, Versions
<1>3. Unloadable \subseteq Pkgs BY <1>1 DEF Unloadable
<1>4. ids \in SUBSET Ids BY <1>2, <1>3 DEF BreakingRows
<1>5. Quarantine(patch, missed) = DisableRows(patch, ids) BY DEF Quarantine
<1> HIDE DEF ids
<1> QED BY <1>1, <1>4, <1>5, DisableRowsKeeps DEF ids

LEMMA RestOfMcpStepOK ==
    ASSUME TypeInv, ~Idle, CloneMcp \/ BuildMcp \/ RecordMcp \/ CompileMcp \/ RemoveMcpDir
    PROVE  TypeInv'
<1>1. TypeOK /\ job \in Job BY DEF TypeInv, TypeOK
<1>2. /\ build \in [Servers -> {"none", "clone", "built"}] /\ mcp \in [Servers -> OnOff]
      /\ health \in [Servers -> States] /\ patch \in Patch
      /\ unsynced \in SUBSET Items /\ cut \in SUBSET Items
  BY <1>1 DEF TypeOK
<1>3. CASE CloneMcp
  <2>1. It \in Servers BY <1>3, HeadItem DEF CloneMcp, At, McpOps
  <2>2. build' \in [Servers -> {"none", "clone", "built"}] BY <1>2, <1>3, <2>1 DEF CloneMcp
  <2>3. job' \in Job /\ last' \in End /\ JobOK' BY <1>3, AdvanceOK, FailOK DEF CloneMcp
  <2> QED BY <1>1, <1>3, <2>2, <2>3 DEF TypeInv, TypeOK, ProbeTypeOK, CloneMcp, manifest, history, bounds
<1>4. CASE BuildMcp
  <2>1. It \in Servers BY <1>4, HeadItem DEF BuildMcp, At, McpOps
  <2>2. build' \in [Servers -> {"none", "clone", "built"}] BY <1>2, <1>4, <2>1 DEF BuildMcp
  <2>3. job' \in Job /\ last' \in End /\ JobOK' BY <1>4, AdvanceOK, FailOK DEF BuildMcp
  <2> QED BY <1>1, <1>4, <2>2, <2>3 DEF TypeInv, TypeOK, ProbeTypeOK, BuildMcp, manifest, history, bounds
<1>5. CASE RecordMcp
  <2>1. It \in Servers /\ (Now.op = "setMcp" => Now.at \in {"on", "off"})
    BY <1>5, HeadItem DEF RecordMcp, At, McpOps
  <2>2. mcp' \in [Servers -> OnOff] BY <1>2, <1>5, <2>1 DEF RecordMcp, OnOff, At
  <2>4. unsynced' \in SUBSET Items BY <1>2, <1>5, <2>1 DEF RecordMcp, Items
  <2>3. job' \in Job /\ last' \in End /\ JobOK'
    <3> DEFINE j == [job EXCEPT !.todo = Tail(@), !.pre = mcp[It] # "absent"]
    <3>1. Tail(job.todo) \in Seq(OpSet) /\ (mcp[It] # "absent") \in BOOLEAN BY HeadOp
    <3>2. j \in Job /\ j.kind = job.kind /\ j.item = job.item /\ j.todo = Tail(job.todo) BY <1>1, <3>1 DEF Job
    <3>3. j.kind # "none" /\ last = NoEnd /\ Continue(j) BY <1>5, <3>2 DEF TypeInv, JobOK, Idle, RecordMcp
    <3> HIDE DEF j
    <3> QED BY <3>2, <3>3, HeadOp, ContinueOK
  <2> QED BY <1>1, <1>5, <2>2, <2>3, <2>4 DEF TypeInv, TypeOK, ProbeTypeOK, RecordMcp, trees, bounds
<1>6. CASE CompileMcp
  <2>1. On(mcp) \in SUBSET Servers BY <1>2 DEF On
  <2>2. patch' \in Patch BY <1>2, <1>6, <2>1, SyncMcpKeeps DEF CompileMcp
  <2>3. unsynced' \in SUBSET Items /\ cut' \in SUBSET Items BY <1>2, <1>6 DEF CompileMcp
  <2>4. job' \in Job /\ last' \in End /\ JobOK' BY <1>6, AdvanceOK DEF CompileMcp
  <2> QED BY <1>1, <1>6, <2>2, <2>3, <2>4 DEF TypeInv, TypeOK, ProbeTypeOK, CompileMcp, manifest, trees, bounds
<1>7. CASE RemoveMcpDir
  <2>1. It \in Servers BY <1>7, HeadItem DEF RemoveMcpDir, At, McpOps
  <2>2. build' \in [Servers -> {"none", "clone", "built"}] BY <1>2, <1>7, <2>1 DEF RemoveMcpDir
  <2>3. health' \in [Servers -> States] BY <1>2, <1>7, <2>1 DEF RemoveMcpDir, States
  <2>4. job' \in Job /\ last' \in End /\ JobOK' BY <1>7, AdvanceOK DEF RemoveMcpDir
  <2> QED BY <1>1, <1>7, <2>2, <2>3, <2>4 DEF TypeInv, TypeOK, ProbeTypeOK, RemoveMcpDir, manifest, history, bounds
<1> QED BY <1>3, <1>4, <1>5, <1>6, <1>7

\* A health check of a server keeps the probe's type, whatever the server says.
LEMMA ProbeTyped ==
    ASSUME probe \in Probe, ProbeStep \/ ProbeHttp \/ \E cmd \in BOOLEAN : ProbeStart(cmd)
    PROVE  probe' \in Probe
<1>1. ASSUME NEW v \in States, Verdict(v) PROVE probe' \in Probe BY <1>1 DEF Verdict, Probe
<1>2. CASE ProbeHttp BY <1>1, <1>2 DEF ProbeHttp, States
<1>3. ASSUME NEW cmd \in BOOLEAN, ProbeStart(cmd) PROVE probe' \in Probe
  BY <1>1, <1>3 DEF ProbeStart, States, Probe
<1>4. CASE Conclude
  <2>1. probe.init \in {"none", "ok", "rejected"} BY DEF Probe
  <2>2. (CASE probe.init = "rejected" -> "degraded"
           [] probe.init = "ok" -> IF probe.degraded THEN "degraded" ELSE "ok"
           [] probe.init = "none" -> IF "asset" \in probe.tail THEN "degraded" ELSE "error") \in States
    BY <2>1 DEF States
  <2> QED BY <1>1, <1>4, <2>2 DEF Conclude
<1>5. CASE ReadAnswer \/ ReadLine \/ ReadListener \/ ChildExits \/ ReadEnd \/ Deadline
  <2>1. CASE ReadAnswer BY <2>1 DEF ReadAnswer, Probe
  <2>2. CASE ReadLine
    <3>1. PICK d \in BOOLEAN, h \in SUBSET Hints : probe' = [probe EXCEPT !.degraded = @ \/ d, !.tail = h]
      BY <2>2 DEF ReadLine
    <3>2. (probe.degraded \/ d) \in BOOLEAN OBVIOUS
    <3> QED BY <3>1, <3>2 DEF Probe
  <2>3. CASE ReadListener BY <2>3 DEF ReadListener, Probe, Hints
  <2>4. CASE ChildExits BY <2>4 DEF ChildExits, Probe
  <2>5. CASE ReadEnd BY <2>5 DEF ReadEnd, Probe
  <2>6. CASE Deadline BY <2>6 DEF Deadline, Probe
  <2> QED BY <1>5, <2>1, <2>2, <2>3, <2>4, <2>5, <2>6
<1> QED BY <1>2, <1>3, <1>4, <1>5 DEF ProbeStep

LEMMA ProbeMcpOK == TypeInv /\ ~Idle /\ (ProbeMcp \/ ProbeVerdict) => TypeInv'
<1> SUFFICES ASSUME TypeInv, ~Idle, ProbeMcp \/ ProbeVerdict PROVE TypeInv' OBVIOUS
<1>1. TypeOK /\ job \in Job /\ probe \in Probe /\ health \in [Servers -> States]
  BY DEF TypeInv, TypeOK, ProbeTypeOK
<1>2. CASE ProbeMcp
  <2>1. Launchable(It) \in BOOLEAN BY DEF Launchable
  <2>2. ProbeStep \/ ProbeHttp \/ \E cmd \in BOOLEAN : ProbeStart(cmd)
    <3> HIDE DEF Launchable
    <3>1. Launchable(It) \in BOOLEAN BY DEF Launchable
    <3> QED BY <1>2, <3>1 DEF ProbeMcp
  <2>3. probe' \in Probe BY <1>1, <2>2, ProbeTyped
  <2> QED BY <1>1, <1>2, <2>3 DEF TypeInv, TypeOK, ProbeTypeOK, JobOK, Idle, ProbeMcp, manifest, trees, history, bounds
<1>3. CASE ProbeVerdict
  <2>1. It \in Servers BY <1>3, HeadItem DEF ProbeVerdict, At, McpOps
  <2>2. health' \in [Servers -> States] BY <1>1, <1>3, <2>1 DEF ProbeVerdict, Probe
  <2>3. probe' \in Probe BY <1>3 DEF ProbeVerdict, NoProbe, Probe, States
  <2>4. job' \in Job /\ last' \in End /\ JobOK'
    <3>1. CASE Advance BY <3>1, AdvanceOK
    <3>2. CASE Fail("failed") BY <3>2, FailOK
    <3>3. CASE GenuineFailure /\ Instead(Append(Discard(It), Op("fail", It)))
      <4>1. job.kind = "mcp" BY <3>3 DEF GenuineFailure
      <4>2. It = job.item BY <4>1, HeadOp DEF Course, It
      <4>3. Append(Discard(It), Op("fail", It)) \in Seq(Course(job.kind, job.item))
            /\ Follows(Append(Discard(It), Op("fail", It)))
        BY <2>1, <4>1, <4>2, DiscardOK, StartCourses
      <4> QED BY <3>3, <4>3, InsteadOK
    <3> QED BY <1>3, <3>1, <3>2, <3>3 DEF ProbeVerdict
  <2> QED BY <1>1, <1>3, <2>2, <2>3, <2>4 DEF TypeInv, TypeOK, ProbeTypeOK, ProbeVerdict, manifest, trees, history, bounds
<1> QED BY <1>2, <1>3

LEMMA McpStepOK == TypeInv /\ ~Idle /\ McpStep => TypeInv'
BY FetchMcpOK, RestOfMcpStepOK, ProbeMcpOK DEF McpStep

NmType == [Pkgs -> [ver : 0..2, built : BOOLEAN]]

LEMMA LinkedTyped ==
    ASSUME TypeOK, NEW p \in Pkgs, NEW builds \in SUBSET BOOLEAN, NEW link \in BOOLEAN, Linked(p, builds, link)
    PROVE  nm' \in NmType /\ deps' \in SUBSET Pkgs /\ linked' \in SUBSET Pkgs
<1>1. nm \in NmType /\ deps \in SUBSET Pkgs /\ linked \in SUBSET Pkgs BY DEF TypeOK, NmType
<1>2. PICK content \in Content(builds) : nm' = [nm EXCEPT ![p] = content] BY DEF Linked
<1>3. content \in [ver : 0..2, built : BOOLEAN] BY <1>2 DEF Content, Versions
<1>4. nm' \in NmType BY <1>1, <1>2, <1>3 DEF NmType
<1> QED BY <1>1, <1>4 DEF Linked

LEMMA UnlinkedTyped ==
    ASSUME TypeOK, NEW p \in Pkgs, Unlinked(p) PROVE nm' \in NmType /\ linked' \in SUBSET Pkgs
BY DEF TypeOK, NmType, Unlinked, Absent

LEMMA ResolveOK == TypeInv /\ ~Idle /\ ResolveTarget => TypeInv'
<1> SUFFICES ASSUME TypeInv, ~Idle, ResolveTarget PROVE TypeInv' OBVIOUS
<1>1. TypeOK /\ It \in Pkgs BY HeadItem DEF ResolveTarget, At, PkgOps
<1>2. nm \in NmType /\ cache \in [Pkgs -> {"none", "whole", "broken"}] BY <1>1 DEF TypeOK, NmType
<1>3. nm' \in NmType
  <2>1. PICK content \in Content(BOOLEAN) \cup (IF Updatable(It) THEN {nm[It]} ELSE {Absent}) :
            nm' = IF It \in linked THEN [nm EXCEPT ![It] = content] ELSE nm
    BY DEF ResolveTarget
  <2>2. content \in [ver : 0..2, built : BOOLEAN]
    <3>1. nm[It] \in [ver : 0..2, built : BOOLEAN] BY <1>1, <1>2 DEF NmType
    <3>2. Content(BOOLEAN) \subseteq [ver : 0..2, built : BOOLEAN] BY DEF Content, Versions
    <3>3. Absent \in [ver : 0..2, built : BOOLEAN] BY DEF Absent
    <3> QED BY <2>1, <3>1, <3>2, <3>3
  <2> QED BY <1>1, <1>2, <2>1, <2>2 DEF NmType
<1>4. cache' \in [Pkgs -> {"none", "whole", "broken"}]
  <2>1. \E c \in {"none", "whole", "broken"} : cache' = [cache EXCEPT ![It] = c]
    BY <1>1, <1>2 DEF ResolveTarget
  <2> QED BY <1>1, <1>2, <2>1
<1>5. job' \in Job /\ last' \in End /\ JobOK'
  <2>1. Advance \/ Fail("failed") BY DEF ResolveTarget
  <2> QED BY <2>1, AdvanceOK, FailOK
<1> QED BY <1>1, <1>3, <1>4, <1>5
       DEF TypeInv, TypeOK, ProbeTypeOK, ResolveTarget, NmType, manifest, history, bounds

LEMMA AddPackageOK == TypeInv /\ ~Idle /\ AddPackage => TypeInv'
<1> SUFFICES ASSUME TypeInv, ~Idle, AddPackage PROVE TypeInv' OBVIOUS
<1> DEFINE C == Course(job.kind, job.item)
           dir == Now.at = "dir"
           builds == IF dir THEN BOOLEAN ELSE {TRUE}
           T == Tail(job.todo)
           g == Op("gate", It)
           r == Op("resolve", It)
           a == OpAt("add", It, "dir")
<1>1. Stepping /\ TypeOK BY SteppingOK DEF TypeInv
<1>2. Now.op = "add" /\ It \in Pkgs BY HeadItem DEF AddPackage, At, PkgOps
<1>3. T \in Seq(C) /\ Follows(T) BY <1>1 DEF Stepping
<1>4. g \in C /\ r \in C /\ a \in C /\ g.op \in Silent /\ r.op \in Silent /\ a.op \in Silent
  BY <1>1, <1>2 DEF Stepping, Course, TypedOps, OpSet, Ops, SkillOps, McpOps, PkgOps, SkillCourse, McpCourse,
                    PluginCourse, Targets, Items, It, Silent
<1>5. <<g>> \o T \in Seq(C) /\ Follows(<<g>> \o T)
  <2> HIDE DEF C, g, T
  <2> QED BY <1>3, <1>4, PushFollows
<1>6. <<>> \o T = T
  <2> HIDE DEF C, T
  <2> QED BY <1>3, ConcatEmptySeq
<1>7. Append(<<r>>, a) \o T \in Seq(C) /\ Follows(Append(<<r>>, a) \o T)
  <2> HIDE DEF C, r, a, T
  <2>1. <<r>> \in Seq(C) BY <1>4
  <2>2. Append(<<r>>, a) = <<r>> \o <<a>> BY <1>4, <2>1, AppendIsConcat
  <2>3. <<a>> \in Seq(C) BY <1>4
  <2>4. Append(<<r>>, a) \o T = <<r>> \o (<<a>> \o T) BY <1>3, <2>1, <2>2, <2>3, ConcatAssociative
  <2>5. <<a>> \o T \in Seq(C) /\ Follows(<<a>> \o T) BY <1>3, <1>4, PushFollows
  <2>6. <<r>> \o (<<a>> \o T) \in Seq(C) /\ Follows(<<r>> \o (<<a>> \o T)) BY <1>4, <2>5, PushFollows
  <2> QED BY <2>4, <2>6
<1>8. job' \in Job /\ last' \in End /\ JobOK'
  <2>1. \/ Instead(<<g>> \o T) \/ Instead(<<>> \o T) \/ Fail("failed") \/ Instead(Append(<<r>>, a) \o T)
    BY DEF AddPackage, Fetched
  <2>2. \A t : t \in {<<g>> \o T, <<>> \o T, Append(<<r>>, a) \o T} => t \in Seq(C) /\ Follows(t)
    <3> HIDE DEF C, g, r, a, T
    <3> QED BY <1>3, <1>5, <1>6, <1>7
  <2>3. CASE Fail("failed") BY <2>3, FailOK
  <2>4. ASSUME NEW t, t \in {<<g>> \o T, <<>> \o T, Append(<<r>>, a) \o T}, Instead(t)
        PROVE  job' \in Job /\ last' \in End /\ JobOK'
    <3>1. t \in Seq(C) /\ Follows(t) BY <2>2, <2>4
    <3> QED BY <2>4, <3>1, InsteadOK
  <2> HIDE DEF C, g, r, a, T
  <2> QED BY <2>1, <2>3, <2>4
<1>9. nm' \in NmType /\ deps' \in SUBSET Pkgs /\ linked' \in SUBSET Pkgs
  <2>1. nm \in NmType /\ deps \in SUBSET Pkgs /\ linked \in SUBSET Pkgs BY <1>1 DEF TypeOK, NmType
  <2>2. Linked(It, builds, dir) \/ UNCHANGED <<nm, deps, linked>> BY DEF AddPackage
  <2>3. builds \in SUBSET BOOLEAN /\ dir \in BOOLEAN OBVIOUS
  <2> HIDE DEF builds, dir
  <2> QED BY <1>1, <1>2, <2>1, <2>2, <2>3, LinkedTyped
<1> QED BY <1>1, <1>8, <1>9
       DEF TypeInv, TypeOK, ProbeTypeOK, AddPackage, NmType, manifest, history, bounds

LEMMA LoadGateOK == TypeInv /\ ~Idle /\ LoadGate => TypeInv'
<1> SUFFICES ASSUME TypeInv, ~Idle, LoadGate PROVE TypeInv' OBVIOUS
<1> DEFINE C == Course(job.kind, job.item)
           T == Tail(job.todo)
           d == OpAt("dshRemove", It, "try")
           n == Op("pruneNm", It)
           f == Op("fail", It)
<1>1. Stepping /\ TypeOK BY SteppingOK DEF TypeInv
<1>2. Now.op = "gate" /\ It \in Pkgs BY HeadItem DEF LoadGate, At, PkgOps
<1>3. T \in Seq(C) /\ Follows(T) BY <1>1 DEF Stepping
<1>4. d \in C /\ n \in C /\ f \in C
  BY <1>1, <1>2 DEF Stepping, Course, TypedOps, OpSet, Ops, SkillOps, McpOps, PkgOps, SkillCourse, McpCourse,
                    PluginCourse, Targets, Items, It, Silent
<1>5. <<d, n, f>> \in Seq(C)
  <2> HIDE DEF C, d, n, f
  <2> QED BY <1>4
<1>6. Follows(<<d, n, f>>) BY DEF Follows, FollowedBy, Then
<1>7. <<d, n, f>> \o T \in Seq(C) /\ Follows(<<d, n, f>> \o T)
  <2> HIDE DEF C, d, n, f, T
  <2> QED BY <1>3, <1>5, <1>6, ConcatFollows
<1>8. job' \in Job /\ last' \in End /\ JobOK'
  <2>1. Advance \/ Instead(<<d, n, f>> \o T) BY DEF LoadGate
  <2> HIDE DEF d, n, f, T
  <2> QED BY <1>7, <2>1, AdvanceOK, InsteadOK
<1> QED BY <1>1, <1>8
       DEF TypeInv, TypeOK, ProbeTypeOK, LoadGate, trees, manifest, history, bounds

LEMMA LandOK == TypeInv /\ ~Idle /\ LandDisabled => TypeInv'
<1> SUFFICES ASSUME TypeInv, ~Idle, LandDisabled PROVE TypeInv' OBVIOUS
<1> DEFINE C == Course(job.kind, job.item)
           T == Tail(job.todo)
           o == Op("rowOff", It)
           s == Op("syncSkin", It)
<1>1. Stepping /\ TypeOK BY SteppingOK DEF TypeInv
<1>2. Now.op = "land" /\ It \in Pkgs BY HeadItem DEF LandDisabled, At, PkgOps
<1>3. T \in Seq(C) /\ Follows(T) /\ job \in Job BY <1>1 DEF Stepping
<1>4. o \in C /\ s \in C /\ o.op \in Silent /\ s.op \in Silent
  BY <1>1, <1>2 DEF Stepping, Course, TypedOps, OpSet, Ops, SkillOps, McpOps, PkgOps, SkillCourse, McpCourse,
                    PluginCourse, Targets, Items, It, Silent
<1>5. InsertedRows(It) \in SUBSET Ids BY <1>2, RowsTyped
<1>6. \A t : t \in {<<o>> \o T, <<s>> \o T, <<>> \o T} => t \in Seq(C) /\ Follows(t)
  <2> HIDE DEF C, o, s, T
  <2>1. <<>> \o T = T BY <1>3, ConcatEmptySeq
  <2>2. <<o>> \o T \in Seq(C) /\ Follows(<<o>> \o T) BY <1>3, <1>4, PushFollows
  <2>3. <<s>> \o T \in Seq(C) /\ Follows(<<s>> \o T) BY <1>3, <1>4, PushFollows
  <2> QED BY <1>3, <2>1, <2>2, <2>3
<1>7. PICK t : t \in {<<o>> \o T, <<s>> \o T, <<>> \o T} /\ job' = [job EXCEPT !.rows = InsertedRows(It), !.todo = t]
  <2> DEFINE skin == It \in Themes /\ Now.at # "raw"
             pre == IF SkinHasBundle(It) THEN <<o>> ELSE IF skin THEN <<s>> ELSE <<>>
  <2>1. job' = [job EXCEPT !.rows = InsertedRows(It), !.todo = pre \o Tail(@)] BY DEF LandDisabled
  <2>2. job' = [job EXCEPT !.rows = InsertedRows(It), !.todo = pre \o T]
    <3> HIDE DEF pre
    <3> QED BY <1>3, <2>1 DEF Job
  <2>3. pre \in {<<o>>, <<s>>, <<>>} OBVIOUS
  <2> HIDE DEF pre, o, s, T
  <2> QED BY <2>2, <2>3
<1>8. job' \in Job /\ last' \in End /\ JobOK'
  <2>1. t \in Seq(C) /\ Follows(t) BY <1>6, <1>7
  <2>2. t \in Seq(OpSet)
    <3> HIDE DEF C
    <3> QED BY <2>1, CourseTyped, SeqMonotonic DEF C
  <2>3. job' \in Job /\ job'.kind = job.kind /\ job'.item = job.item /\ job'.todo = t
    <3> DEFINE R == InsertedRows(It)
    <3>1. job' = [job EXCEPT !.rows = R, !.todo = t] BY <1>7
    <3> HIDE DEF R
    <3> QED BY <1>3, <1>5, <2>2, <3>1 DEF Job, R
  <2>4. UNCHANGED last BY DEF LandDisabled
  <2>5. t # <<>>
    <3>1. Tail(job.todo) # <<>> BY <1>1, <1>2, SecondOp DEF Stepping, FollowedBy
    <3>2. Len(T) \in Nat \ {0}
      <4> HIDE DEF C
      <4> QED BY <1>3, <3>1, EmptySeq
    <3> HIDE DEF C, T, o, s
    <3>3. <<>> \o T = T /\ Len(<<o>> \o T) = 1 + Len(T) /\ Len(<<s>> \o T) = 1 + Len(T)
      BY <1>3, <1>4, ConcatEmptySeq, ConcatProperties
    <3> QED BY <1>7, <3>2, <3>3, EmptySeq
  <2> QED BY <1>1, <2>1, <2>3, <2>4, <2>5, PushOK
<1>9. skins' \in [Pkgs -> OnOff]
  <2>1. skins \in [Pkgs -> OnOff] BY <1>1 DEF TypeOK
  <2> QED BY <1>2, <2>1 DEF LandDisabled, OnOff
<1> QED BY <1>1, <1>8, <1>9 DEF TypeInv, TypeOK, ProbeTypeOK, LandDisabled, trees, history, bounds

LEMMA SetRowOK == TypeInv /\ ~Idle /\ SetRow => TypeInv'
<1> SUFFICES ASSUME TypeInv, ~Idle, SetRow PROVE TypeInv' OBVIOUS
<1>1. TypeOK /\ job \in Job /\ job.rows \in SUBSET Ids /\ patch \in Patch BY DEF TypeInv, TypeOK, Job
<1>2. patch' \in Patch
  <2>1. UNCHANGED patch \/ \E i \in job.rows : patch' = EnableRow(patch, i) \/ patch' = DisableRows(patch, {i})
    BY DEF SetRow
  <2>2. \A i \in job.rows : EnableRow(patch, i) \in Patch /\ DisableRows(patch, {i}) \in Patch
    BY <1>1, EnableRowKeeps, DisableRowsKeeps
  <2> QED BY <1>1, <2>1, <2>2
<1>3. job' \in Job /\ last' \in End /\ JobOK'
  <2>1. CASE Advance BY <2>1, AdvanceOK
  <2>2. ASSUME NEW i \in job.rows, job' = [job EXCEPT !.rows = @ \ {i}], UNCHANGED last
        PROVE  job' \in Job /\ last' \in End /\ JobOK'
    <3> DEFINE j == [job EXCEPT !.rows = @ \ {i}]
    <3>1. j \in Job /\ j.kind = job.kind /\ j.item = job.item /\ j.todo = job.todo BY <1>1 DEF Job
    <3>2. Stepping BY SteppingOK
    <3>3. job.todo \in Seq(Course(job.kind, job.item)) /\ job.todo # <<>> /\ Follows(job.todo)
      BY <3>2 DEF Stepping
    <3> HIDE DEF j
    <3> QED BY <2>2, <3>1, <3>2, <3>3, PushOK DEF j
  <2> QED BY <2>1, <2>2 DEF SetRow
<1> QED BY <1>1, <1>2, <1>3 DEF TypeInv, TypeOK, ProbeTypeOK, SetRow, manifest, trees, history, bounds

LEMMA RestOfPackageStepOK ==
    ASSUME TypeInv, ~Idle,
           \/ RemovePackage \/ RemoveRoot \/ PrunePackage \/ RemoveRows
           \/ RecordSkin \/ CompileSkins \/ UpdatePackage
    PROVE  TypeInv'
<1>1. TypeOK /\ job \in Job BY DEF TypeInv, TypeOK
<1>2. /\ nm \in NmType /\ deps \in SUBSET Pkgs /\ linked \in SUBSET Pkgs /\ skins \in [Pkgs -> OnOff]
      /\ unsynced \in SUBSET Items /\ cut \in SUBSET Items /\ patch \in Patch
  BY <1>1 DEF TypeOK, NmType
<1>3. CASE RemovePackage
  <2>1. It \in Pkgs BY <1>3, HeadItem DEF RemovePackage, At, PkgOps
  <2>2. nm' \in NmType /\ deps' \in SUBSET Pkgs /\ linked' \in SUBSET Pkgs
    BY <1>1, <1>2, <1>3, <2>1, UnlinkedTyped DEF RemovePackage
  <2>3. job' \in Job /\ last' \in End /\ JobOK' BY <1>3, AdvanceOK, FailOK DEF RemovePackage
  <2> QED BY <1>1, <1>3, <2>2, <2>3 DEF TypeInv, TypeOK, ProbeTypeOK, NmType, RemovePackage, manifest, history, bounds
<1>4. CASE PrunePackage
  <2>1. It \in Pkgs BY <1>4, HeadItem DEF PrunePackage, At, PkgOps
  <2>2. nm' \in NmType /\ linked' \in SUBSET Pkgs BY <1>1, <1>2, <1>4, <2>1, UnlinkedTyped DEF PrunePackage
  <2>3. job' \in Job /\ last' \in End /\ JobOK' BY <1>4, AdvanceOK DEF PrunePackage
  <2> QED BY <1>1, <1>4, <2>2, <2>3 DEF TypeInv, TypeOK, ProbeTypeOK, NmType, PrunePackage, manifest, history, bounds
<1>5. CASE RemoveRows
  <2>1. patch' \in Patch BY <1>2, <1>5, RemoveRowsKeeps DEF RemoveRows
  <2>2. job' \in Job /\ last' \in End /\ JobOK' BY <1>5, AdvanceOK DEF RemoveRows
  <2> QED BY <1>1, <1>5, <2>1, <2>2 DEF TypeInv, TypeOK, ProbeTypeOK, RemoveRows, manifest, trees, history, bounds
<1>6. CASE RecordSkin
  <2>1. It \in Pkgs /\ (Now.op = "setSkin" => Now.at \in {"on", "off"})
    BY <1>6, HeadItem DEF RecordSkin, At, PkgOps
  <2>2. skins' \in [Pkgs -> OnOff] /\ unsynced' \in SUBSET Items
    <3>1. CASE At("dropSkin")
      <4>1. PICK gone \in SUBSET Alike[It] :
               /\ skins' = [p \in Pkgs |-> IF p \in gone THEN "absent" ELSE skins[p]]
               /\ unsynced' = unsynced \cup gone
        BY <1>6, <3>1 DEF RecordSkin, At
      <4>2. gone \in SUBSET Pkgs BY <2>1, <4>1, ContentAssumption
      <4> QED BY <1>2, <4>1, <4>2 DEF OnOff, Items
    <3>2. CASE At("setSkin") BY <1>2, <1>6, <2>1, <3>2 DEF RecordSkin, OnOff, At, Items
    <3> QED BY <1>6, <3>1, <3>2 DEF RecordSkin
  <2>3. job' \in Job /\ last' \in End /\ JobOK' BY <1>6, AdvanceOK DEF RecordSkin
  <2> QED BY <1>1, <1>6, <2>2, <2>3 DEF TypeInv, TypeOK, ProbeTypeOK, RecordSkin, trees, bounds
<1>7. CASE CompileSkins
  <2>1. SkinRows \in SUBSET Pkgs BY <1>2 DEF SkinRows, On
  <2>2. patch' \in Patch BY <1>2, <1>7, <2>1, SyncSkinKeeps DEF CompileSkins
  <2>3. unsynced' \in SUBSET Items /\ cut' \in SUBSET Items BY <1>2, <1>7 DEF CompileSkins
  <2>4. job' \in Job /\ last' \in End /\ JobOK' BY <1>7, AdvanceOK DEF CompileSkins
  <2> QED BY <1>1, <1>7, <2>2, <2>3, <2>4 DEF TypeInv, TypeOK, ProbeTypeOK, CompileSkins, manifest, trees, bounds
<1>8. CASE UpdatePackage
  <2>1. It \in Pkgs /\ (It \in linked) \in BOOLEAN BY <1>8, HeadItem DEF UpdatePackage, At, PkgOps
  <2>2. Linked(It, BOOLEAN, It \in linked) \/ UNCHANGED <<nm, deps, linked>> BY <1>8 DEF UpdatePackage
  <2>3. nm' \in NmType /\ deps' \in SUBSET Pkgs /\ linked' \in SUBSET Pkgs
    BY <1>1, <1>2, <2>1, <2>2, LinkedTyped
  <2>4. job' \in Job /\ last' \in End /\ JobOK' BY <1>8, AdvanceOK, FailOK DEF UpdatePackage
  <2> QED BY <1>1, <1>8, <2>3, <2>4 DEF TypeInv, TypeOK, ProbeTypeOK, NmType, UpdatePackage, manifest, history, bounds
<1>9. CASE RemoveRoot
  <2>1. nm' \in NmType /\ deps' \in SUBSET Pkgs /\ linked' \in SUBSET Pkgs
    <3>1. nm' = nm \/ nm' = [p \in Pkgs |-> IF p \in Root[It] THEN Absent ELSE nm[p]]
      BY <1>9 DEF RemoveRoot
    <3>2. nm' \in NmType
      <4>1. Absent \in [ver : 0..2, built : BOOLEAN] BY DEF Absent
      <4>2. nm \in [Pkgs -> [ver : 0..2, built : BOOLEAN]] BY <1>2 DEF NmType
      <4> QED BY <3>1, <4>1, <4>2 DEF NmType
    <3>3. deps' \subseteq deps BY <1>9 DEF RemoveRoot
    <3>4. linked' \subseteq linked BY <1>9 DEF RemoveRoot
    <3> QED BY <1>2, <3>2, <3>3, <3>4
  <2>2. job' \in Job /\ last' \in End /\ JobOK' BY <1>9, AdvanceOK DEF RemoveRoot
  <2> QED BY <1>1, <1>9, <2>1, <2>2 DEF TypeInv, TypeOK, ProbeTypeOK, NmType, RemoveRoot, manifest, history, bounds
<1> QED BY <1>3, <1>4, <1>5, <1>6, <1>7, <1>8, <1>9

LEMMA PackageStepOK == TypeInv /\ ~Idle /\ PackageStep => TypeInv'
BY ResolveOK, AddPackageOK, LoadGateOK, LandOK, SetRowOK, RestOfPackageStepOK DEF PackageStep

LEMMA CommonStepOK == TypeInv /\ ~Idle /\ CommonStep => TypeInv'
<1> SUFFICES ASSUME TypeInv, ~Idle, CommonStep PROVE TypeInv' OBVIOUS
<1>1. TypeOK /\ job \in Job /\ patch \in Patch /\ meta \in SUBSET Items BY DEF TypeInv, TypeOK
<1>2. CASE SetMetadata
  <2>1. meta' \in SUBSET Items BY <1>1, <1>2, HeadItem DEF SetMetadata
  <2>2. job' \in Job /\ last' \in End /\ JobOK' BY <1>2, AdvanceOK DEF SetMetadata
  <2> QED BY <1>1, <1>2, <2>1, <2>2 DEF TypeInv, TypeOK, ProbeTypeOK, SetMetadata, manifest, trees, history, bounds
<1>3. CASE Reconcile
  <2>1. patch' \in Patch BY <1>1, <1>3, QuarantineKeeps DEF Reconcile
  <2>2. job' \in Job /\ last' \in End /\ JobOK' BY <1>3, AdvanceOK, FailOK DEF Reconcile
  <2> QED BY <1>1, <1>3, <2>1, <2>2 DEF TypeInv, TypeOK, ProbeTypeOK, Reconcile, manifest, trees, history, bounds
<1>4. CASE Conclusion
  <2>1. job' \in Job /\ last' \in End /\ JobOK'
    <3>1. Advance \/ \E r \in {"failed", "rolledBack"} : Fail(r) BY <1>4 DEF Conclusion
    <3> QED BY <3>1, AdvanceOK, FailOK
  <2> QED BY <1>1, <1>4, <2>1 DEF TypeInv, TypeOK, ProbeTypeOK, Conclusion, manifest, trees, history, bounds
<1>5. CASE StepFails
  <2>1. job' \in Job /\ last' \in End /\ JobOK' BY <1>5, FailOK DEF StepFails
  <2>2. unsynced' \in SUBSET Items /\ cut' \in SUBSET Items BY <1>1, <1>5 DEF StepFails, TypeOK
  <2>3. stray' \in SUBSET Skills
    <3>1. stray \in SUBSET Skills BY <1>1 DEF TypeOK
    <3>2. CASE Now.op \in {"rename", "files"}
      <4>1. It \in Skills BY <3>2, HeadItem DEF SkillOps
      <4> QED BY <1>5, <3>1, <3>2, <4>1 DEF StepFails
    <3>3. CASE Now.op \notin {"rename", "files"} BY <1>5, <3>1, <3>3 DEF StepFails
    <3> QED BY <3>2, <3>3
  <2> QED BY <1>1, <1>5, <2>1, <2>2, <2>3 DEF TypeInv, TypeOK, ProbeTypeOK, StepFails, manifest, bounds
<1> QED BY <1>2, <1>3, <1>4, <1>5 DEF CommonStep

LEMMA CrashOK == TypeInv /\ Crash => TypeInv'
<1> SUFFICES ASSUME TypeInv, Crash PROVE TypeInv' OBVIOUS
<1>0. ~Idle BY DEF Crash
<1>1. TypeOK /\ job \in Job BY DEF TypeInv, TypeOK
<1>2. /\ nm \in NmType /\ cache \in [Pkgs -> {"none", "whole", "broken"}] /\ stray \in SUBSET Skills
      /\ cut \in SUBSET Items /\ crashes \in Nat
  BY <1>1 DEF TypeOK, NmType
<1>3. unsynced' \in SUBSET Items /\ cut' \in SUBSET Items /\ spared' \in SUBSET Pkgs BY <1>1 DEF Crash, TypeOK
<1>4. stray' \in SUBSET Skills
  <2>1. CASE Now.op \in {"rename", "files"}
    <3>1. It \in Skills BY <1>0, <2>1, HeadItem DEF SkillOps
    <3> QED BY <1>2, <2>1, <3>1 DEF Crash
  <2>2. CASE Now.op \notin {"rename", "files"} BY <1>2, <2>2 DEF Crash
  <2> QED BY <2>1, <2>2
<1>5. nm' \in NmType /\ cache' \in [Pkgs -> {"none", "whole", "broken"}]
  <2>1. CASE Now.op = "resolve"
    <3>1. It \in Pkgs BY <1>0, <2>1, HeadItem DEF PkgOps
    <3>2. cache' \in {cache, [cache EXCEPT ![It] = "broken"]} /\ nm' \in {nm, [nm EXCEPT ![It] = Absent]}
      BY <2>1 DEF Crash
    <3>3. Absent \in [ver : 0..2, built : BOOLEAN] BY DEF Absent
    <3> QED BY <1>2, <3>1, <3>2, <3>3 DEF NmType
  <2>2. CASE Now.op # "resolve" BY <1>2, <2>2 DEF Crash
  <2> QED BY <2>1, <2>2
<1>6. NoJob \in Job /\ NoEnd \in End /\ NoProbe \in Probe
  BY EmptyTodo DEF NoJob, Job, NoEnd, End, NoProbe, Probe, States
<1>7. job' \in Job /\ last' \in End /\ JobOK'
  <2>1. job' = NoJob /\ last' = NoEnd BY DEF Crash
  <2>2. JobOK' BY <2>1, EmptyTodo DEF JobOK, Idle, NoJob
  <2> QED BY <1>6, <2>1, <2>2
<1>8. probe' \in Probe /\ crashes' \in Nat /\ running' \in BOOLEAN
  <2>1. probe' = NoProbe /\ crashes' = crashes + 1 /\ running' = FALSE BY DEF Crash
  <2>2. crashes' \in Nat BY <1>2, <2>1
  <2>3. running' \in BOOLEAN BY <2>1
  <2>4. probe' \in Probe BY <1>6, <2>1
  <2> QED BY <2>2, <2>3, <2>4
<1> QED BY <1>1, <1>3, <1>4, <1>5, <1>7, <1>8 DEF TypeInv, TypeOK, ProbeTypeOK, NmType, Crash, manifest

LEMMA OutsideOK ==
    ASSUME TypeInv,
           profile_diagnostics \/ Launch \/ Stop \/ (\E s \in Skills : AuthorPublishes(s)) \/ UNCHANGED vars
    PROVE  TypeInv'
<1>1. TypeOK /\ patch \in Patch /\ upstream \in [Skills -> Versions] BY DEF TypeInv, TypeOK
<1>2. JobOK' BY DEF TypeInv, JobOK, Idle, profile_diagnostics, Launch, Stop, AuthorPublishes, vars
<1>3. patch' \in Patch
  BY <1>1, QuarantineKeeps, RemoveRowsKeeps DEF profile_diagnostics, Launch, Stop, AuthorPublishes, vars
<1>4. upstream' \in [Skills -> Versions]
  BY <1>1 DEF profile_diagnostics, Launch, Stop, AuthorPublishes, vars, Versions
<1>5. running' \in BOOLEAN BY <1>1 DEF TypeOK, profile_diagnostics, Launch, Stop, AuthorPublishes, vars
<1>6. UNCHANGED <<manifest, trees, health, meta, job, last, unsynced, cut, rewritten, bounds, probe>>
  BY DEF profile_diagnostics, Launch, Stop, AuthorPublishes, vars, history
<1>7. spared' \in SUBSET Pkgs
  <2>1. deps \in SUBSET Pkgs /\ spared \in SUBSET Pkgs BY <1>1 DEF TypeOK
  <2> QED BY <2>1 DEF profile_diagnostics, Launch, Stop, AuthorPublishes, vars, history, Unloadable
<1> QED BY <1>1, <1>2, <1>3, <1>4, <1>5, <1>6, <1>7
       DEF TypeInv, TypeOK, ProbeTypeOK, manifest, trees, bounds

LEMMA NextOK == TypeInv /\ [Next]_vars => TypeInv'
<1>1. SkillStep \/ McpStep \/ PackageStep \/ CommonStep => ~Idle
  BY DEF SkillStep, McpStep, PackageStep, CommonStep, FetchSkill, ReplaceFile, RenameFile, PruneStale,
         RemoveSkillDir, RecordSkill, FetchMcp, CloneMcp, BuildMcp, RecordMcp, CompileMcp, RemoveMcpDir,
         ProbeMcp, ProbeVerdict, ResolveTarget, AddPackage, LoadGate, RemovePackage, RemoveRoot, PrunePackage,
         LandDisabled, SetRow, RemoveRows, RecordSkin, CompileSkins, UpdatePackage, SetMetadata, Reconcile,
         StepFails, Conclusion, At
<1> QED BY <1>1, StartOK, SkillStepOK, McpStepOK, PackageStepOK, CommonStepOK, CrashOK, OutsideOK DEF Next

LEMMA InitOK == Init => TypeInv
<1> SUFFICES ASSUME Init PROVE TypeInv OBVIOUS
<1>1. scope \in SUBSET Items BY ContentAssumption DEF Init
<1>2. PICK legacy \in SUBSET (Skills \cap scope) :
          /\ skills = [s \in Skills |-> IF s \in legacy THEN 0 ELSE -1]
          /\ disk = [s \in Skills |-> [f \in AllFiles |->
                        IF s \in legacy /\ f \in FilesOf[1] \cup {"SKILL.md"} THEN 1 ELSE 0]]
  BY DEF Init
<1>3. skills \in [Skills -> SkillRecord] BY <1>2 DEF SkillRecord
<1>4. disk \in [Skills -> [AllFiles -> 0..2]] BY <1>2
<1>5. patch \in Patch BY DEF Init, Patch
<1>6. NoJob \in Job /\ NoEnd \in End /\ NoProbe \in Probe
  BY EmptyTodo DEF NoJob, Job, NoEnd, End, NoProbe, Probe, States
<1>7. mcp \in [Servers -> OnOff] /\ skins \in [Pkgs -> OnOff] BY DEF Init, OnOff
<1>8. nm \in NmType /\ cache \in [Pkgs -> {"none", "whole", "broken"}] BY DEF Init, NmType, Absent
<1>9. /\ build \in [Servers -> {"none", "clone", "built"}] /\ health \in [Servers -> States]
      /\ upstream \in [Skills -> Versions]
  BY DEF Init, States, Versions
<1>10. JobOK BY EmptyTodo DEF Init, JobOK, Idle, NoJob
<1> QED BY <1>1, <1>3, <1>4, <1>5, <1>6, <1>7, <1>8, <1>9, <1>10
       DEF Init, TypeInv, TypeOK, ProbeTypeOK, NmType

\* Whatever the commands, their failures and the exits of the launcher, every file and
\* record holds a value its readers know, and the writes left to a command are about
\* items of their own kind (commands/content.rs, plugins.rs).
THEOREM TypesHold == Spec => []TypeOK
<1>1. Spec => []TypeInv BY InitOK, NextOK, PTL DEF Spec
<1>2. TypeInv => TypeOK BY DEF TypeInv
<1> QED BY <1>1, <1>2, PTL

-----------------------------------------------------------------------------
\* Which step changes what.

\* Steps no command takes: they leave the command alone.
Outside == profile_diagnostics \/ Launch \/ Stop \/ (\E s \in Skills : AuthorPublishes(s)) \/ UNCHANGED vars

LEMMA Frames ==
    ASSUME [Next]_vars
    PROVE  /\ \/ patch' = patch \/ CompileMcp \/ CompileSkins \/ SetRow \/ RemoveRows \/ Reconcile
              \/ profile_diagnostics \/ Launch
           /\ mcp' = mcp \/ RecordMcp
           /\ skins' = skins \/ LandDisabled \/ RecordSkin
           /\ skills' = skills \/ RecordSkill
           /\ \/ nm' = nm /\ deps' = deps
              \/ ResolveTarget \/ AddPackage \/ RemovePackage \/ RemoveRoot \/ PrunePackage \/ UpdatePackage
              \/ Crash
           /\ disk' = disk \/ ReplaceFile \/ RenameFile \/ PruneStale \/ RemoveSkillDir
           /\ stray' = stray \/ PruneStale \/ RemoveSkillDir \/ StepFails \/ Crash
           /\ rewritten' = rewritten \/ FetchSkill \/ PruneStale \/ RemoveSkillDir
           /\ cut' = cut \/ CompileMcp \/ CompileSkins \/ StepFails \/ Crash
           /\ \/ unsynced' = unsynced \/ RecordMcp \/ CompileMcp \/ RecordSkin \/ CompileSkins
              \/ StepFails \/ Crash
           /\ spared' = spared \/ Launch \/ Stop \/ Crash
           /\ meta' = meta \/ SetMetadata
           /\ running' = running \/ Launch \/ Stop \/ Crash
<1> USE DEF manifest, trees, history, bounds, vars
<1>1. CASE Start
  BY <1>1 DEF Start, InstallSkill, UpdateSkill, UninstallSkill, InstallMcp, UninstallMcp, HealthCheck, ToggleMcp,
              ImportMcp, InstallPlugin, InstallRaw, UninstallPlugin, UpdatePlugin, TogglePlugin, ImportBundle,
              Enqueue, Begin
<1>2. CASE SkillStep
  BY <1>2 DEF SkillStep, FetchSkill, ReplaceFile, RenameFile, PruneStale, RemoveSkillDir, RecordSkill
<1>3. CASE McpStep
  BY <1>3 DEF McpStep, FetchMcp, CloneMcp, BuildMcp, RecordMcp, CompileMcp, RemoveMcpDir, ProbeMcp, ProbeVerdict
<1>4. CASE PackageStep
  BY <1>4 DEF PackageStep, ResolveTarget, AddPackage, LoadGate, RemovePackage, RemoveRoot, PrunePackage,
              LandDisabled, SetRow, RemoveRows, RecordSkin, CompileSkins, UpdatePackage
<1>5. CASE CommonStep BY <1>5 DEF CommonStep, SetMetadata, Reconcile, StepFails, Conclusion
<1>6. CASE Crash BY <1>6 DEF Crash
<1>7. CASE Outside BY <1>7 DEF Outside, profile_diagnostics, Launch, Stop, AuthorPublishes
<1> QED BY <1>1, <1>2, <1>3, <1>4, <1>5, <1>6, <1>7 DEF Next, Outside

LEMMA OutsideFrame ==
    Outside => UNCHANGED <<job, last, mcp, skins, skills, trees, meta, health, unsynced, cut, rewritten, probe>>
BY DEF Outside, profile_diagnostics, Launch, Stop, AuthorPublishes, manifest, trees, history, bounds, vars

\* A command begins only when none is in progress, and while DSH runs only a health check does.
LEMMA StartBegins ==
    ASSUME Start
    PROVE  \E k \in Starts : \E x, t, rows : Begin(k, x, t, rows) /\ (running => k = "health")
<1>1. ASSUME NEW k \in Starts, NEW x, NEW t, Enqueue(k, x, t)
      PROVE  \E kk \in Starts : \E xx, tt, rows : Begin(kk, xx, tt, rows) /\ (running => kk = "health")
  BY <1>1, Zenon DEF Enqueue
<1>2. ASSUME NEW s \in Skills, InstallSkill(s) \/ UpdateSkill(s) \/ UninstallSkill(s)
      PROVE  \E k \in Starts : \E x, t : Enqueue(k, x, t)
  <2>1. {"skill", "skillUpdate", "skillRemove"} \subseteq Starts BY DEF Starts
  <2> QED BY <1>2, <2>1 DEF InstallSkill, UpdateSkill, UninstallSkill
<1>3. ASSUME NEW m \in Servers, InstallMcp(m) \/ UninstallMcp(m)
      PROVE  \E k \in Starts : \E x, t : Enqueue(k, x, t)
  <2>1. {"mcp", "mcpRemove"} \subseteq Starts BY DEF Starts
  <2> QED BY <1>3, <2>1 DEF InstallMcp, UninstallMcp
<1>4. ASSUME NEW m \in Servers, HealthCheck(m)
      PROVE  \E k \in Starts : \E x, t, rows : Begin(k, x, t, rows) /\ (running => k = "health")
  <2>1. "health" \in Starts BY DEF Starts
  <2> QED BY <1>4, <2>1, Zenon DEF HealthCheck
<1>5. ASSUME NEW m \in Servers, NEW v \in {"on", "off"}, ToggleMcp(m, v)
      PROVE  \E k \in Starts : \E x, t : Enqueue(k, x, t)
  <2>1. (IF v = "on" THEN "mcpOn" ELSE "mcpOff") \in Starts BY DEF Starts
  <2> QED BY <1>5, <2>1 DEF ToggleMcp
<1>6. ASSUME NEW m \in Servers, NEW n \in Servers, ImportMcp(m, n)
      PROVE  \E k \in Starts : \E x, t : Enqueue(k, x, t)
  <2>1. "import" \in Starts BY DEF Starts
  <2> QED BY <1>6, <2>1 DEF ImportMcp
<1>7. ASSUME NEW p \in Pkgs, NEW at \in {"dir", "name"},
             InstallPlugin(p, at) \/ InstallRaw(p, at) \/ UpdatePlugin(p)
      PROVE  \E k \in Starts : \E x, t : Enqueue(k, x, t)
  <2>1. {"plugin", "rawPlugin", "pluginUpdate"} \subseteq Starts BY DEF Starts
  <2> QED BY <1>7, <2>1, Zenon DEF InstallPlugin, InstallRaw, UpdatePlugin
<1>8. ASSUME NEW p \in Pkgs, UninstallPlugin(p) \/ \E v \in {"on", "off"} : TogglePlugin(p, v)
      PROVE  \E k \in Starts : \E x, t, rows : Begin(k, x, t, rows) /\ (running => k = "health")
  <2>1. {"pluginRemove", "pluginOn", "pluginOff"} \subseteq Starts BY DEF Starts
  <2>2. CASE UninstallPlugin(p) BY <2>1, <2>2, Zenon DEF UninstallPlugin
  <2>3. ASSUME NEW v \in {"on", "off"}, TogglePlugin(p, v)
        PROVE  \E k \in Starts : \E x, t, rows : Begin(k, x, t, rows) /\ (running => k = "health")
    <3>1. (IF v = "on" THEN "pluginOn" ELSE "pluginOff") \in Starts BY <2>1
    <3> QED BY <2>3, <3>1, Zenon DEF TogglePlugin
  <2> QED BY <1>8, <2>2, <2>3
<1>9. ASSUME NEW x \in Items, NEW y \in Items, ImportBundle(x, y)
      PROVE  \E k \in Starts : \E z, t : Enqueue(k, z, t)
  <2>1. "bundle" \in Starts BY DEF Starts
  <2> QED BY <1>9, <2>1 DEF ImportBundle
<1> QED BY <1>1, <1>2, <1>3, <1>4, <1>5, <1>6, <1>7, <1>8, <1>9 DEF Start

LEMMA StartFrame ==
    Start => /\ Idle /\ ~Idle' /\ last' = NoEnd /\ job'.had = Recorded /\ job'.pre = FALSE
             /\ running => job'.kind = "health"
             /\ UNCHANGED <<manifest, trees, patch, health, meta, upstream, running, history, probe>>
<1> SUFFICES ASSUME Start
             PROVE  /\ Idle /\ ~Idle' /\ last' = NoEnd /\ job'.had = Recorded /\ job'.pre = FALSE
                    /\ running => job'.kind = "health"
                    /\ UNCHANGED <<manifest, trees, patch, health, meta, upstream, running, history, probe>>
  OBVIOUS
<1>1. PICK k \in Starts : \E x, t, rows : Begin(k, x, t, rows) /\ (running => k = "health") BY StartBegins
<1>2. PICK x, t, rows : Begin(k, x, t, rows) /\ (running => k = "health") BY <1>1
<1>3. k # "none" BY DEF Starts
<1>4. job' = [NoJob EXCEPT !.kind = k, !.item = x, !.todo = t, !.rows = rows, !.had = Recorded] BY <1>2 DEF Begin
<1>5. job'.kind = k /\ job'.had = Recorded /\ job'.pre = FALSE
  <2> DEFINE h == Recorded
  <2>1. job' = [NoJob EXCEPT !.kind = k, !.item = x, !.todo = t, !.rows = rows, !.had = h] BY <1>4
  <2> HIDE DEF h
  <2> QED BY <2>1 DEF NoJob, h
<1> QED BY <1>2, <1>3, <1>5 DEF Begin, Idle

\* The write at the head tells the step a command takes.
LEMMA Dispatch ==
    ASSUME [Next]_vars, ~Idle
    PROVE  \/ Crash \/ Outside
           \/ Now.op = "fetchSkill" /\ FetchSkill
           \/ Now.op = "files" /\ ReplaceFile
           \/ Now.op = "rename" /\ RenameFile
           \/ Now.op = "prune" /\ PruneStale
           \/ Now.op = "rmDir" /\ RemoveSkillDir
           \/ Now.op \in {"recordSkill", "unrecordSkill"} /\ RecordSkill
           \/ Now.op = "fetch" /\ FetchMcp
           \/ Now.op = "clone" /\ CloneMcp
           \/ Now.op = "build" /\ BuildMcp
           \/ Now.op \in {"record", "unrecord", "setMcp"} /\ RecordMcp
           \/ Now.op = "syncMcp" /\ CompileMcp
           \/ Now.op = "rmMcpDir" /\ RemoveMcpDir
           \/ Now.op = "probe" /\ (ProbeMcp \/ ProbeVerdict)
           \/ Now.op = "resolve" /\ ResolveTarget
           \/ Now.op = "add" /\ AddPackage
           \/ Now.op = "gate" /\ LoadGate
           \/ Now.op = "dshRemove" /\ RemovePackage
           \/ Now.op = "dropRoot" /\ RemoveRoot
           \/ Now.op = "pruneNm" /\ PrunePackage
           \/ Now.op = "land" /\ LandDisabled
           \/ Now.op \in {"rowOff", "rowOn"} /\ SetRow
           \/ Now.op = "rmRows" /\ RemoveRows
           \/ Now.op \in {"dropSkin", "setSkin"} /\ RecordSkin
           \/ Now.op = "syncSkin" /\ CompileSkins
           \/ Now.op = "update" /\ UpdatePackage
           \/ Now.op \in {"meta", "unmeta"} /\ SetMetadata
           \/ Now.op = "reconcile" /\ Reconcile
           \/ Now.op \in Fallible /\ StepFails
           \/ Now.op \in {"next", "fail"} /\ Conclusion
<1> USE DEF At
<1>1. ~Start
  <2>1. Start => Idle BY StartFrame
  <2> QED BY <2>1
<1>2. CASE SkillStep
  <2>1. CASE FetchSkill \/ ReplaceFile \/ RenameFile BY <2>1 DEF FetchSkill, ReplaceFile, RenameFile
  <2>2. CASE PruneStale \/ RemoveSkillDir \/ RecordSkill BY <2>2 DEF PruneStale, RemoveSkillDir, RecordSkill
  <2> QED BY <1>2, <2>1, <2>2 DEF SkillStep
<1>3. CASE McpStep
  <2>1. CASE FetchMcp \/ CloneMcp \/ BuildMcp BY <2>1 DEF FetchMcp, CloneMcp, BuildMcp
  <2>2. CASE RecordMcp \/ CompileMcp \/ RemoveMcpDir BY <2>2 DEF RecordMcp, CompileMcp, RemoveMcpDir
  <2>3. CASE ProbeMcp \/ ProbeVerdict BY <2>3 DEF ProbeMcp, ProbeVerdict
  <2> QED BY <1>3, <2>1, <2>2, <2>3 DEF McpStep
<1>4. CASE PackageStep
  <2>1. CASE ResolveTarget \/ AddPackage \/ LoadGate
    BY <2>1 DEF ResolveTarget, AddPackage, LoadGate
  <2>2. CASE RemovePackage \/ RemoveRoot \/ PrunePackage
    BY <2>2 DEF RemovePackage, RemoveRoot, PrunePackage
  <2>3. CASE LandDisabled \/ SetRow \/ RemoveRows
    BY <2>3 DEF LandDisabled, SetRow, RemoveRows
  <2>4. CASE RecordSkin \/ CompileSkins \/ UpdatePackage
    BY <2>4 DEF RecordSkin, CompileSkins, UpdatePackage
  <2> QED BY <1>4, <2>1, <2>2, <2>3, <2>4 DEF PackageStep
<1>5. CASE CommonStep BY <1>5 DEF CommonStep, SetMetadata, Reconcile, StepFails, Conclusion
<1> QED BY <1>1, <1>2, <1>3, <1>4, <1>5 DEF Next, Outside

\* Without a command in progress only a new one, or a step outside, can come.
LEMMA IdleStep == [Next]_vars /\ Idle => Start \/ Outside
<1>1. ~(SkillStep \/ McpStep \/ PackageStep \/ CommonStep \/ Crash) \/ ~Idle
  BY DEF SkillStep, McpStep, PackageStep, CommonStep, FetchSkill, ReplaceFile, RenameFile, PruneStale,
         RemoveSkillDir, RecordSkill, FetchMcp, CloneMcp, BuildMcp, RecordMcp, CompileMcp, RemoveMcpDir,
         ProbeMcp, ProbeVerdict, ResolveTarget, AddPackage, LoadGate, RemovePackage, RemoveRoot, PrunePackage,
         LandDisabled, SetRow, RemoveRows, RecordSkin, CompileSkins, UpdatePackage, SetMetadata, Reconcile,
         StepFails, Conclusion, At, Crash
<1> QED BY <1>1 DEF Next, Outside

\* The list a command goes on with after a step.
LEMMA TailElements ==
    ASSUME TypeInv, ~Idle
    PROVE  /\ Len(job.todo) \in Nat \ {0} /\ DOMAIN job.todo = 1..Len(job.todo)
           /\ Len(Tail(job.todo)) = Len(job.todo) - 1 /\ DOMAIN Tail(job.todo) = 1..(Len(job.todo) - 1)
           /\ \A i \in 1..(Len(job.todo) - 1) : Tail(job.todo)[i] = job.todo[i + 1]
           /\ Tail(job.todo) = <<>> <=> Len(job.todo) = 1
<1> DEFINE C == Course(job.kind, job.item)
<1>1. job.todo \in Seq(C) /\ job.todo # <<>> /\ Len(job.todo) \in Nat \ {0} /\ Tail(job.todo) \in Seq(C)
  BY HeadOp DEF TypeInv, JobOK
<1> HIDE DEF C
<1>2. Len(Tail(job.todo)) = Len(job.todo) - 1 /\ \A i \in 1..Len(Tail(job.todo)) : Tail(job.todo)[i] = job.todo[i + 1]
  BY <1>1, HeadTailProperties
<1>3. DOMAIN job.todo = 1..Len(job.todo) /\ DOMAIN Tail(job.todo) = 1..Len(Tail(job.todo)) BY <1>1, LenProperties
<1>4. Tail(job.todo) = <<>> <=> Len(Tail(job.todo)) = 0 BY <1>1, EmptySeq
<1> QED BY <1>1, <1>2, <1>3, <1>4

-----------------------------------------------------------------------------
\* How a command ends, and what of it never changes.

Ended(r) ==
    /\ job' = NoJob
    /\ last' = [kind |-> job.kind, item |-> job.item, res |-> r, had |-> job.had]

Kept == job'.kind = job.kind /\ job'.item = job.item /\ job'.had = job.had /\ last' = last

LEMMA ContinueMoves ==
    ASSUME NEW j, Continue(j), j.kind = job.kind, j.item = job.item, j.had = job.had
    PROVE  \/ j.todo = <<>> /\ j.failed = FALSE /\ Ended("ok")
           \/ j.todo = <<>> /\ Ended("failed")
           \/ j.todo # <<>> /\ job' = j /\ Kept
BY DEF Continue, Finish, Ended, Kept

LEMMA AdvanceMoves ==
    ASSUME job \in Job, Advance
    PROVE  \/ Tail(job.todo) = <<>> /\ (Ended("ok") \/ Ended("failed"))
           \/ Tail(job.todo) # <<>> /\ job' = [job EXCEPT !.todo = Tail(@)] /\ Kept
<1> DEFINE T == Tail(job.todo)
           j == [job EXCEPT !.todo = T]
<1>1. j.kind = job.kind /\ j.item = job.item /\ j.had = job.had /\ j.todo = T
  <2> HIDE DEF T
  <2> QED BY DEF Job
<1>2. Continue(j) BY DEF Advance
<1> HIDE DEF j
<1> QED BY <1>1, <1>2, ContinueMoves DEF j

LEMMA InsteadMoves ==
    ASSUME job \in Job, NEW t, Instead(t)
    PROVE  \/ t = <<>> /\ (Ended("ok") \/ Ended("failed"))
           \/ t # <<>> /\ job' = [job EXCEPT !.todo = t] /\ Kept
<1> DEFINE j == [job EXCEPT !.todo = t]
<1>1. j.kind = job.kind /\ j.item = job.item /\ j.had = job.had /\ j.todo = t BY DEF Job
<1>2. Continue(j) BY DEF Instead
<1> HIDE DEF j
<1> QED BY <1>1, <1>2, ContinueMoves DEF j

LEMMA FailMoves ==
    ASSUME job \in Job, NEW r, Fail(r)
    PROVE  \/ ~Pending("next") /\ Ended(r)
           \/ Pending("next") /\ (Ended("failed") \/ Kept)
<1>1. CASE ~Pending("next")
  <2>1. \A i \in DOMAIN job.todo : ~NextItem(i) BY <1>1 DEF Pending, NextItem
  <2>2. Finish(job, r) BY <2>1 DEF Fail
  <2> QED BY <1>1, <2>2 DEF Finish, Ended
<1>2. CASE Pending("next")
  <2>1. PICK i \in DOMAIN job.todo :
           Continue([job EXCEPT !.todo = SubSeq(@, i + 1, Len(@)), !.failed = TRUE])
    BY <1>2 DEF Fail
  <2> DEFINE u == SubSeq(job.todo, i + 1, Len(job.todo))
             j == [job EXCEPT !.todo = u, !.failed = TRUE]
  <2>2. j.kind = job.kind /\ j.item = job.item /\ j.had = job.had /\ j.failed = TRUE
    <3> HIDE DEF u
    <3> QED BY DEF Job
  <2>3. Continue(j) BY <2>1
  <2> HIDE DEF j
  <2> QED BY <1>2, <2>2, <2>3, ContinueMoves
<1> QED BY <1>1, <1>2

\* A route either ends the install or sets the class and what is left to do.
LEMMA FetchMcpMoves ==
    ASSUME job \in Job, FetchMcp
    PROVE  \/ Fail("failed")
           \/ \E cls \in {"remote", "registry", "source"} :
                 \E t \in {Tail(job.todo), <<Op("clone", It), Op("build", It)>> \o Tail(job.todo)} :
                    Continue([job EXCEPT !.cls = cls, !.todo = t])
<1> DEFINE c == Op("clone", It)
           b == Op("build", It)
           T == Tail(job.todo)
           u == <<c, b>> \o T
<1>1. CASE ~Fail("failed")
  <2>1. PICK plan \in EffectivePlans(Catalog[It]) :
           LET cls == ClassifyInstall(Catalog[It], plan)
               next == [job EXCEPT !.cls = cls, !.todo = Tail(@)]
           IN  \/ Continue(next)
               \/ Continue(IF Catalog[It].github THEN [next EXCEPT !.todo = <<c, b>> \o @] ELSE next)
    BY <1>1 DEF FetchMcp
  <2> DEFINE cls == ClassifyInstall(Catalog[It], plan)
  <2>2. [[job EXCEPT !.cls = cls, !.todo = Tail(@)] EXCEPT !.todo = <<c, b>> \o @]
           = [job EXCEPT !.cls = cls, !.todo = u]
    <3> HIDE DEF cls, c, b
    <3> QED BY DEF Job
  <2>3. Continue([job EXCEPT !.cls = cls, !.todo = T]) \/ Continue([job EXCEPT !.cls = cls, !.todo = u])
    <3> HIDE DEF u
    <3> QED BY <2>1, <2>2
  <2>4. cls \in {"remote", "registry", "source"} BY DEF ClassifyInstall
  <2> HIDE DEF cls, u, T
  <2>5. \E k \in {"remote", "registry", "source"} : \E t \in {T, u} : Continue([job EXCEPT !.cls = k, !.todo = t])
    BY <2>3, <2>4
  <2> QED BY <2>5 DEF u, T
<1> QED BY <1>1

LEMMA ConcatNonEmpty ==
    ASSUME NEW S, NEW p \in Seq(S), p # <<>>, NEW t \in Seq(S)
    PROVE  p \o t # <<>>
<1>1. Len(p) \in Nat \ {0} /\ Len(t) \in Nat BY EmptySeq, LenProperties
<1>2. Len(p \o t) = Len(p) + Len(t) /\ p \o t \in Seq(S) BY ConcatProperties
<1> DEFINE u == p \o t
<1> HIDE DEF u
<1> QED BY <1>1, <1>2, EmptySeq DEF u

\* A command keeps what it is about until it ends; it succeeds with its last write, or
\* when a skill is up to date, and only a server that could not start rolls back.
Moves ==
    \/ Kept
    \/ Crash /\ job' = NoJob /\ last' = NoEnd
    \/ Ended("failed")
    \/ Ended("ok") /\ (Now.op = "fetchSkill" \/ Len(job.todo) = 1)
    \/ Ended("rolledBack") /\ Conclusion /\ Now.op = "fail" /\ job.kind = "mcp"

LEMMA AdvanceOrFail ==
    ASSUME TypeInv, ~Idle, Advance \/ Fail("failed")
    PROVE  Moves
<1>1. job \in Job BY HeadOp
<1> QED BY <1>1, AdvanceMoves, FailMoves, TailElements DEF Moves

LEMMA InsteadGoesOn ==
    ASSUME TypeInv, ~Idle, NEW t, t # <<>>, Instead(t)
    PROVE  Kept
<1>1. job \in Job BY HeadOp
<1> QED BY <1>1, InsteadMoves

LEMMA JobMoves ==
    ASSUME TypeInv, ~Idle, [Next]_vars
    PROVE  Moves
<1> DEFINE C == Course(job.kind, job.item)
           T == Tail(job.todo)
<1>1. job \in Job BY DEF TypeInv, TypeOK
<1>2. T \in Seq(C) /\ (T = <<>> <=> Len(job.todo) = 1) BY HeadOp, TailElements
<1>3. ASSUME NEW cls, NEW t, NEW pre, NEW f, NEW v, NEW b, NEW rows
      PROVE  /\ Continue([job EXCEPT !.cls = cls, !.todo = t]) /\ (t = <<>> => Len(job.todo) = 1) => Moves
             /\ Continue([job EXCEPT !.todo = t, !.pre = pre]) /\ (t = <<>> => Len(job.todo) = 1) => Moves
             /\ job' = [job EXCEPT !.files = f, !.todo = t] /\ UNCHANGED last => Kept
             /\ job' = [job EXCEPT !.ver = v, !.bundle = b, !.files = f, !.todo = t] /\ UNCHANGED last => Kept
             /\ job' = [job EXCEPT !.rows = rows, !.todo = t] /\ UNCHANGED last => Kept
             /\ job' = [job EXCEPT !.rows = rows] /\ UNCHANGED last => Kept
  <2>1. ASSUME Continue([job EXCEPT !.cls = cls, !.todo = t]), t = <<>> => Len(job.todo) = 1 PROVE Moves
    <3> DEFINE j == [job EXCEPT !.cls = cls, !.todo = t]
    <3>1. j.kind = job.kind /\ j.item = job.item /\ j.had = job.had /\ j.todo = t BY <1>1 DEF Job
    <3>2. Continue(j) BY <2>1
    <3> HIDE DEF j
    <3> QED BY <2>1, <3>1, <3>2, ContinueMoves DEF Moves
  <2>2. ASSUME Continue([job EXCEPT !.todo = t, !.pre = pre]), t = <<>> => Len(job.todo) = 1 PROVE Moves
    <3> DEFINE j == [job EXCEPT !.todo = t, !.pre = pre]
    <3>1. j.kind = job.kind /\ j.item = job.item /\ j.had = job.had /\ j.todo = t BY <1>1 DEF Job
    <3>2. Continue(j) BY <2>2
    <3> HIDE DEF j
    <3> QED BY <2>2, <3>1, <3>2, ContinueMoves DEF Moves
  <2> QED BY <1>1, <2>1, <2>2 DEF Kept, Job
<1>4. CASE Outside BY <1>4, OutsideFrame DEF Kept, Moves
<1>5. CASE Crash BY <1>5 DEF Crash, Moves
<1>6. CASE FetchSkill
  <2>1. Now.op = "fetchSkill" BY <1>6 DEF FetchSkill, At
  <2>2. (\E t : Instead(t)) => Moves BY <1>1, <2>1, InsteadMoves DEF Moves
  <2> QED BY <1>3, <1>6, <2>2, AdvanceOrFail DEF FetchSkill, Moves
<1>7. CASE ReplaceFile BY <1>3, <1>7 DEF ReplaceFile, Moves
<1>8. CASE RenameFile \/ PruneStale \/ RemoveSkillDir \/ RecordSkill
  <2>1. (UNCHANGED <<job, last>>) => Moves BY DEF Kept, Moves
  <2> QED BY <1>8, <2>1, AdvanceOrFail DEF RenameFile, PruneStale, RemoveSkillDir, RecordSkill
<1>9. CASE FetchMcp
  <2> DEFINE c == Op("clone", It)
             b == Op("build", It)
  <2>1. c \in OpSet /\ b \in OpSet
    <3>1. Now.op = "fetch" /\ It \in Items BY <1>9, HeadItem DEF FetchMcp, At
    <3> QED BY <3>1 DEF OpSet, Ops, Targets
  <2>2. <<c, b>> \in Seq(OpSet) /\ <<c, b>> # <<>>
    <3> HIDE DEF c, b
    <3> QED BY <2>1
  <2>3. T \in Seq(OpSet) BY HeadOp
  <2>4. <<c, b>> \o T # <<>>
    <3> HIDE DEF c, b, T
    <3> QED BY <2>2, <2>3, ConcatNonEmpty
  <2> HIDE DEF c, b, T
  <2> QED BY <1>1, <1>2, <1>3, <1>9, <2>4, FetchMcpMoves, AdvanceOrFail DEF c, b, T
<1>10. CASE RecordMcp
  <2>1. Continue([job EXCEPT !.todo = T, !.pre = mcp[It] # "absent"]) BY <1>10 DEF RecordMcp
  <2> HIDE DEF T
  <2> QED BY <1>2, <1>3, <2>1
<1>11. CASE CloneMcp \/ BuildMcp \/ CompileMcp \/ RemoveMcpDir
  BY <1>11, AdvanceOrFail DEF CloneMcp, BuildMcp, CompileMcp, RemoveMcpDir
<1>12. CASE ProbeMcp \/ ProbeVerdict
  <2>1. (UNCHANGED <<job, last>>) => Moves BY DEF Kept, Moves
  <2>2. Instead(Append(Discard(It), Op("fail", It))) => Moves
    <3>1. Append(Discard(It), Op("fail", It)) # <<>>
      <4> DEFINE o == Op("fail", It)
                 d == Discard(It)
      <4>1. It \in Items BY HeadItem
      <4>2. o \in OpSet /\ d \in Seq(OpSet)
        <5>1. \A n \in {"unrecord", "syncMcp", "rmMcpDir", "unmeta", "reconcile", "fail"} : Op(n, It) \in OpSet
          BY <4>1 DEF OpSet, Ops, Targets
        <5> QED BY <5>1 DEF Discard
      <4> HIDE DEF o, d
      <4> QED BY <4>2, AppendProperties DEF o, d
    <3> QED BY <3>1, InsteadGoesOn DEF Moves
  <2> QED BY <1>12, <2>1, <2>2, AdvanceOrFail DEF ProbeMcp, ProbeVerdict
<1>13. CASE ResolveTarget \/ RemovePackage \/ RemoveRoot \/ PrunePackage
  BY <1>13, AdvanceOrFail DEF ResolveTarget, RemovePackage, RemoveRoot, PrunePackage
<1>14. CASE AddPackage \/ LoadGate
  <2>1. ASSUME NEW t, Instead(t), t = <<>> => Len(job.todo) = 1 PROVE Moves
    BY <1>1, <2>1, InsteadMoves DEF Moves
  <2>2. It \in Items /\ T \in Seq(OpSet) BY HeadItem, HeadOp
  <2>3. \A n \in {"gate", "resolve", "add", "dshRemove", "pruneNm", "fail"}, a \in Targets : OpAt(n, It, a) \in OpSet
    BY <2>2 DEF OpSet, Ops
  <2>4. /\ <<Op("gate", It)>> \in Seq(OpSet) /\ <<Op("gate", It)>> # <<>>
        /\ Append(<<Op("resolve", It)>>, OpAt("add", It, "dir")) \in Seq(OpSet)
        /\ Append(<<Op("resolve", It)>>, OpAt("add", It, "dir")) # <<>>
        /\ <<OpAt("dshRemove", It, "try"), Op("pruneNm", It), Op("fail", It)>> \in Seq(OpSet)
        /\ <<OpAt("dshRemove", It, "try"), Op("pruneNm", It), Op("fail", It)>> # <<>>
    <3>1. /\ Op("gate", It) \in OpSet /\ Op("resolve", It) \in OpSet /\ OpAt("add", It, "dir") \in OpSet
          /\ OpAt("dshRemove", It, "try") \in OpSet /\ Op("pruneNm", It) \in OpSet /\ Op("fail", It) \in OpSet
      BY <2>3 DEF Targets
    <3> HIDE DEF Op, OpAt
    <3>2. <<Op("resolve", It)>> \in Seq(OpSet) BY <3>1
    <3>3. /\ Append(<<Op("resolve", It)>>, OpAt("add", It, "dir")) \in Seq(OpSet)
          /\ Append(<<Op("resolve", It)>>, OpAt("add", It, "dir")) # <<>>
      BY <3>1, <3>2, AppendProperties
    <3> QED BY <3>1, <3>3
  <2>5. <<>> \o T = T
    <3> HIDE DEF T
    <3> QED BY <2>2, ConcatEmptySeq
  <2>6. /\ <<Op("gate", It)>> \o T # <<>> /\ Append(<<Op("resolve", It)>>, OpAt("add", It, "dir")) \o T # <<>>
        /\ <<OpAt("dshRemove", It, "try"), Op("pruneNm", It), Op("fail", It)>> \o T # <<>>
    <3> HIDE DEF Op, OpAt, T
    <3> QED BY <2>2, <2>4, ConcatNonEmpty
  <2>7. CASE AddPackage
    <3>1. \/ Instead(<<Op("gate", It)>> \o T) \/ Instead(<<>> \o T) \/ Fail("failed")
          \/ Instead(Append(<<Op("resolve", It)>>, OpAt("add", It, "dir")) \o T)
      BY <2>7 DEF AddPackage, Fetched
    <3> HIDE DEF Op, OpAt, T
    <3> QED BY <1>2, <2>1, <2>5, <2>6, <3>1, AdvanceOrFail
  <2>8. CASE LoadGate
    <3>1. Advance \/ Instead(<<OpAt("dshRemove", It, "try"), Op("pruneNm", It), Op("fail", It)>> \o T)
      BY <2>8 DEF LoadGate
    <3> HIDE DEF Op, OpAt, T
    <3> QED BY <2>1, <2>6, <3>1, AdvanceOrFail
  <2> QED BY <1>14, <2>7, <2>8
<1>15. CASE LandDisabled BY <1>3, <1>15 DEF LandDisabled, Moves
<1>16. CASE SetRow BY <1>3, <1>16, AdvanceOrFail DEF SetRow, Moves
<1>17. CASE RemoveRows \/ RecordSkin \/ CompileSkins \/ UpdatePackage
  BY <1>17, AdvanceOrFail DEF RemoveRows, RecordSkin, CompileSkins, UpdatePackage
<1>18. CASE SetMetadata \/ Reconcile \/ StepFails BY <1>18, AdvanceOrFail DEF SetMetadata, Reconcile, StepFails
<1>19. CASE Conclusion
  <2>1. CASE Advance \/ Fail("failed") BY <2>1, AdvanceOrFail
  <2>2. CASE At("fail") /\ job.kind = "mcp" /\ Fail("rolledBack")
    BY <1>1, <1>19, <2>2, FailMoves DEF Moves, At
  <2> QED BY <1>19, <2>1, <2>2 DEF Conclusion
<1> QED BY <1>4, <1>5, <1>6, <1>7, <1>8, <1>9, <1>10, <1>11, <1>12, <1>13, <1>14, <1>15, <1>16, <1>17, <1>18,
           <1>19, Dispatch

-----------------------------------------------------------------------------
\* The patch stays readable.

LEMMA PatchStep == TypeInv /\ PatchIsArray /\ [Next]_vars => PatchIsArray'
<1> SUFFICES ASSUME TypeInv, PatchIsArray, [Next]_vars PROVE PatchIsArray' OBVIOUS
<1>1. TypeOK /\ patch \in Patch /\ mcp \in [Servers -> OnOff] /\ skins \in [Pkgs -> OnOff] /\ job \in Job
  BY DEF TypeInv, TypeOK
<1>2. IsArray(patch) BY DEF PatchIsArray
<1>3. On(mcp) \in SUBSET Servers /\ SkinRows \in SUBSET Pkgs BY <1>1 DEF On, SkinRows
<1>4. IsArray(patch')
  <2>1. CASE patch' = patch BY <1>2, <2>1
  <2>2. CASE CompileMcp BY <1>1, <1>2, <1>3, <2>2, SyncMcpKeeps DEF CompileMcp
  <2>3. CASE CompileSkins BY <1>1, <1>2, <1>3, <2>3, SyncSkinKeeps DEF CompileSkins
  <2>4. CASE SetRow
    <3>1. UNCHANGED patch \/ \E i \in job.rows : patch' = EnableRow(patch, i) \/ patch' = DisableRows(patch, {i})
      BY <2>4 DEF SetRow
    <3>2. \A i \in job.rows : IsArray(EnableRow(patch, i)) /\ IsArray(DisableRows(patch, {i}))
      BY <1>1, <1>2, EnableRowKeeps, DisableRowsKeeps DEF Job
    <3> QED BY <1>2, <3>1, <3>2
  <2>5. CASE RemoveRows BY <1>1, <1>2, <2>5, RemoveRowsKeeps DEF RemoveRows
  <2>6. CASE Reconcile BY <1>1, <1>2, <2>6, QuarantineKeeps DEF Reconcile
  <2>7. CASE profile_diagnostics BY <1>1, <1>2, <2>7, RemoveRowsKeeps DEF profile_diagnostics
  <2>8. CASE Launch BY <1>1, <1>2, <2>8, QuarantineKeeps DEF Launch
  <2> QED BY <2>1, <2>2, <2>3, <2>4, <2>5, <2>6, <2>7, <2>8, Frames
<1> QED BY <1>4 DEF PatchIsArray

\* DSH can read the patch after every write and every exit: none of the line editors
\* of dsh-adapter (append_block_to_text, restore_placeholder, sync_mcp_patch,
\* sync_skin_patch and the row editors) leaves `[]` beside an entry, or neither.
THEOREM PatchAlwaysReads == Spec => []PatchIsArray
<1>1. Init => PatchIsArray BY DEF Init, PatchIsArray, IsArray, HasEntries
<1>2. Spec => [](TypeInv /\ PatchIsArray) BY <1>1, InitOK, NextOK, PatchStep, PTL DEF Spec
<1> QED BY <1>2, PTL

-----------------------------------------------------------------------------
\* What a boot mounts.

BootInv ==
    running => /\ Idle \/ job.kind = "health"
               /\ \A p \in Unloadable \ spared : InsertedRows(p) \subseteq Disables(patch)

LEMMA SameRows ==
    ASSUME nm' = nm, deps' = deps
    PROVE  Unloadable' = Unloadable /\ (\A p : InsertedRows(p)' = InsertedRows(p)) /\ KnownRows' = KnownRows
BY DEF Unloadable, InsertedRows, parse_inserted_ids, SkinHasBundle, MountsClient, EntryExists, KnownRows

LEMMA BootStep == TypeInv /\ BootInv /\ [Next]_vars => BootInv'
<1> SUFFICES ASSUME TypeInv, BootInv, [Next]_vars, running' PROVE BootInv' BY DEF BootInv
<1>1. TypeOK /\ patch \in Patch /\ deps \in SUBSET Pkgs BY DEF TypeInv, TypeOK
<1>2. CASE Launch
  <2>1. PICK missed \in SUBSET LiveRows :
           patch' = Quarantine(patch, missed) /\ spared' = {p \in Unloadable : InsertedRows(p) \cap missed # {}}
    BY <1>2 DEF Launch
  <2>2. UNCHANGED <<nm, deps, job>> /\ Idle BY <1>2 DEF Launch, trees
  <2>3. Disables(patch') = Disables(patch) \cup (BreakingRows \ missed) BY <1>1, <2>1, QuarantineKeeps
  <2>4. \A p \in Unloadable \ spared' : InsertedRows(p) \subseteq BreakingRows \ missed BY <2>1 DEF BreakingRows
  <2>5. \A p \in Unloadable \ spared' : InsertedRows(p) \subseteq Disables(patch') BY <2>3, <2>4
  <2> QED BY <2>2, <2>5, SameRows DEF BootInv, Idle
<1>3. CASE ~Launch
  <2>1. running /\ spared' = spared
    <3>1. ~Stop /\ ~Crash BY DEF Stop, Crash
    <3> QED BY <1>3, <3>1, Frames
  <2>2. /\ Idle \/ job.kind = "health"
        /\ \A p \in Unloadable \ spared : InsertedRows(p) \subseteq Disables(patch)
    BY <2>1 DEF BootInv
  <2>3. CASE profile_diagnostics
    <3>1. UNCHANGED <<nm, deps, job>> /\ Idle /\ patch' = RemoveRowBlocks(patch, Orphans)
      BY <2>3 DEF profile_diagnostics, trees
    <3>2. Disables(patch') = Disables(patch) \ Orphans BY <1>1, <3>1, RemoveRowsKeeps
    <3>3. \A p \in Unloadable : InsertedRows(p) \subseteq KnownRows BY DEF Unloadable, KnownRows
    <3>4. \A p \in Unloadable \ spared : InsertedRows(p) \subseteq Disables(patch') BY <2>2, <3>2, <3>3 DEF Orphans
    <3> QED BY <2>1, <3>1, <3>4, SameRows DEF BootInv, Idle
  <2>4. CASE Start
    <3>1. UNCHANGED <<nm, deps, patch>> /\ job'.kind = "health" BY <2>1, <2>4, StartFrame DEF trees
    <3> QED BY <2>1, <2>2, <3>1, SameRows DEF BootInv
  <2>5. CASE Outside /\ ~profile_diagnostics
    <3>1. UNCHANGED <<nm, deps, patch, job>>
      BY <1>3, <2>5 DEF Outside, Stop, AuthorPublishes, vars, trees
    <3> QED BY <2>1, <2>2, <3>1, SameRows DEF BootInv, Idle
  <2>6. CASE ~Idle /\ ~Outside
    <3>1. Now.op \in {"probe", "fail"} BY <2>2, <2>6, HeadOp DEF Course
    <3>2. ~Crash BY DEF Crash
    <3>3. ProbeMcp \/ ProbeVerdict \/ Conclusion BY <2>6, <3>1, <3>2, Dispatch DEF Fallible
    <3>4. UNCHANGED <<nm, deps, patch>> BY <3>3 DEF ProbeMcp, ProbeVerdict, Conclusion, trees
    <3>5. job' = NoJob \/ job'.kind = job.kind BY <2>6, JobMoves DEF Moves, Kept, Ended
    <3>6. Idle' \/ job'.kind = job.kind BY <3>5 DEF Idle, NoJob
    <3> QED BY <2>1, <2>2, <2>6, <3>4, <3>6, SameRows DEF BootInv, Idle
  <2> QED BY <2>3, <2>4, <2>5, <2>6, IdleStep
<1> QED BY <1>2, <1>3

\* However an install was cut off, failed or updated, no boot imports a row of a client bundle
\* whose entry is missing, except those whose rows the launch that starts it could not
\* write: it has turned off the rows of the others, and nothing turns them on while DSH
\* runs (quarantine_unloadable_client_bundles, which skips what it cannot write).
THEOREM BootIsSafe == Spec => []BootMountsOnlyBuiltBundles
<1>1. Init => BootInv BY DEF Init, BootInv
<1>2. Spec => [](TypeInv /\ BootInv) BY <1>1, InitOK, NextOK, BootStep, PTL DEF Spec
<1>3. BootInv => BootMountsOnlyBuiltBundles BY DEF BootInv, BootMountsOnlyBuiltBundles, Mounted
<1> QED BY <1>2, <1>3, PTL

-----------------------------------------------------------------------------
\* The MCP rows are the records.

\* The next writes bring the rows back in line with the records.
SyncingMcp ==
    /\ job.todo # <<>>
    /\ \/ job.todo[1].op = "syncMcp"
       \/ job.todo[1].op = "record" /\ Len(job.todo) > 1 /\ job.todo[2].op = "syncMcp"

\* Rows and records differ only while a command that has touched a record is about to
\* compile the rows, or once such a command has ended before it did.
McpInv ==
    cut \cap Servers = {} => patch.mcp = On(mcp) \/ (SyncingMcp /\ unsynced \cap Servers # {})

\* Recording a server takes the write off the list and remembers whether it was there.
LEMMA RecordMoves ==
    ASSUME TypeInv, ~Idle, RecordMcp, ~Idle'
    PROVE  job'.todo = Tail(job.todo) /\ job'.pre = (mcp[It] # "absent") /\ Kept
<1> DEFINE T == Tail(job.todo)
           pre == mcp[It] # "absent"
           j == [job EXCEPT !.todo = T, !.pre = pre]
<1>1. job \in Job BY HeadOp
<1>2. j.kind = job.kind /\ j.item = job.item /\ j.had = job.had /\ j.todo = T /\ j.pre = pre
  <2> HIDE DEF T, pre
  <2> QED BY <1>1 DEF Job
<1>3. Continue(j) BY DEF RecordMcp
<1>4. job' # NoJob BY DEF Idle, NoJob
<1> HIDE DEF j
<1>5. job' = j /\ Kept BY <1>2, <1>3, <1>4, ContinueMoves DEF Ended
<1> QED BY <1>2, <1>5

LEMMA CutHolds == StepFails \/ Crash => cut' = cut \cup unsynced
BY DEF StepFails, Crash

\* Each compiler of the patch writes its own block, and no other editor touches one.
LEMMA BlockFrame ==
    ASSUME TypeInv, [Next]_vars
    PROVE  /\ CompileMcp \/ patch'.mcp = patch.mcp
           /\ CompileSkins \/ patch'.skin = patch.skin
<1>1. TypeOK /\ patch \in Patch /\ mcp \in [Servers -> OnOff] /\ skins \in [Pkgs -> OnOff] /\ job \in Job
  BY DEF TypeInv, TypeOK
<1>2. On(mcp) \in SUBSET Servers /\ SkinRows \in SUBSET Pkgs BY <1>1 DEF On, SkinRows
<1> DEFINE Same == patch'.mcp = patch.mcp /\ patch'.skin = patch.skin
<1>3. CASE CompileSkins
  <2>1. patch' = SyncSkinPatch(patch, SkinRows) \/ patch' = patch BY <1>3 DEF CompileSkins
  <2> QED BY <1>1, <1>2, <1>3, <2>1, SyncSkinKeeps
<1>4. CASE CompileMcp BY <1>1, <1>2, <1>4, SyncMcpKeeps DEF CompileMcp
<1>5. CASE SetRow
  <2>1. UNCHANGED patch \/ \E i \in job.rows : patch' = EnableRow(patch, i) \/ patch' = DisableRows(patch, {i})
    BY <1>5 DEF SetRow
  <2>2. ASSUME NEW i \in job.rows
        PROVE  /\ EnableRow(patch, i).mcp = patch.mcp /\ EnableRow(patch, i).skin = patch.skin
               /\ DisableRows(patch, {i}).mcp = patch.mcp /\ DisableRows(patch, {i}).skin = patch.skin
    BY <1>1, EnableRowKeeps, DisableRowsKeeps DEF Job
  <2>3. CASE UNCHANGED patch BY <2>3
  <2>4. ASSUME NEW i \in job.rows, patch' = EnableRow(patch, i) PROVE Same BY <2>2, <2>4
  <2>5. ASSUME NEW i \in job.rows, patch' = DisableRows(patch, {i}) PROVE Same BY <2>2, <2>5
  <2> QED BY <2>1, <2>3, <2>4, <2>5
<1>6. CASE RemoveRows BY <1>1, <1>6, RemoveRowsKeeps DEF RemoveRows
<1>7. CASE Reconcile BY <1>1, <1>7, QuarantineKeeps DEF Reconcile
<1>8. CASE profile_diagnostics BY <1>1, <1>8, RemoveRowsKeeps DEF profile_diagnostics
<1>9. CASE Launch BY <1>1, <1>9, QuarantineKeeps DEF Launch
<1> QED BY <1>3, <1>4, <1>5, <1>6, <1>7, <1>8, <1>9, Frames

LEMMA McpStepKeeps == TypeInv /\ McpInv /\ [Next]_vars => McpInv'
<1> SUFFICES ASSUME TypeInv, McpInv, [Next]_vars, cut' \cap Servers = {}
             PROVE  patch'.mcp = On(mcp') \/ (SyncingMcp' /\ unsynced' \cap Servers # {})
  BY DEF McpInv, On
<1>1. TypeOK /\ patch \in Patch /\ mcp \in [Servers -> OnOff] /\ skins \in [Pkgs -> OnOff] /\ job \in Job
  BY DEF TypeInv, TypeOK
<1>2. On(mcp) \in SUBSET Servers /\ SkinRows \in SUBSET Pkgs BY <1>1 DEF On, SkinRows
<1>3. CASE CompileMcp
  <2>1. patch' = SyncMcpPatch(patch, On(mcp)) /\ mcp' = mcp BY <1>3 DEF CompileMcp, manifest
  <2> QED BY <1>1, <1>2, <2>1, SyncMcpKeeps
<1>4. CASE RecordMcp
  <2>1. ~Idle /\ Now.op \in {"record", "unrecord", "setMcp"} BY <1>4 DEF RecordMcp, At
  <2>2. Now = job.todo[1] /\ FollowedBy(job.todo, 1) BY <2>1, HeadOp
  <2>3. /\ Len(job.todo) > 1
        /\ \/ job.todo[2].op = "syncMcp"
           \/ job.todo[2].op = "record" /\ 2 < Len(job.todo) /\ job.todo[3].op = "syncMcp"
    BY <2>1, <2>2 DEF FollowedBy
  <2>4. job'.todo = Tail(job.todo)
    <3> DEFINE j == [job EXCEPT !.todo = Tail(@), !.pre = mcp[It] # "absent"]
    <3>1. Tail(job.todo) # <<>> BY <2>1, <2>3, TailElements
    <3>2. j.kind = job.kind /\ j.item = job.item /\ j.had = job.had /\ j.todo = Tail(job.todo)
      <4> DEFINE T == Tail(job.todo)
                 pre == mcp[It] # "absent"
      <4>1. j = [job EXCEPT !.todo = T, !.pre = pre] OBVIOUS
      <4> HIDE DEF j, T, pre
      <4> QED BY <1>1, <4>1 DEF Job, T
    <3>3. Continue(j) BY <1>4 DEF RecordMcp
    <3> HIDE DEF j
    <3> QED BY <3>1, <3>2, <3>3, ContinueMoves
  <2>5. /\ Tail(job.todo) # <<>> /\ Tail(job.todo)[1] = job.todo[2] /\ Len(Tail(job.todo)) = Len(job.todo) - 1
        /\ Len(job.todo) > 2 => Tail(job.todo)[2] = job.todo[3]
    BY <2>1, <2>3, TailElements
  <2>6. SyncingMcp' BY <2>3, <2>4, <2>5, TailElements, <2>1 DEF SyncingMcp
  <2>7. It \in Servers /\ unsynced' = unsynced \cup {It} BY <1>4, <2>1, HeadItem DEF RecordMcp, McpOps
  <2> QED BY <2>6, <2>7
<1>5. CASE ~CompileMcp /\ ~RecordMcp
  <2>1. patch'.mcp = patch.mcp /\ mcp' = mcp
    <3>1. mcp' = mcp BY <1>5, Frames
    <3> QED BY <1>5, <3>1, BlockFrame
  <2>2. cut \cap Servers = {}
    <3>1. CASE cut' = cut BY <3>1
    <3>2. CASE CompileSkins BY <3>2, ContentAssumption DEF CompileSkins
    <3>3. CASE StepFails \/ Crash BY <3>3, CutHolds
    <3> QED BY <1>5, <3>1, <3>2, <3>3, Frames
  <2>3. CASE patch.mcp = On(mcp) BY <2>1, <2>3
  <2>4. CASE SyncingMcp /\ unsynced \cap Servers # {}
    <3>1. ~Idle BY <2>4 DEF SyncingMcp, TypeInv, JobOK, NoJob
    <3>2. Now.op \in {"record", "syncMcp"} BY <2>4, <3>1, HeadOp DEF SyncingMcp
    <3>3. ~StepFails /\ ~Crash BY <2>4, CutHolds
    <3>4. Outside BY <1>5, <3>1, <3>2, <3>3, Dispatch
    <3>5. job' = job /\ unsynced' = unsynced BY <3>4, OutsideFrame
    <3> QED BY <2>4, <3>5 DEF SyncingMcp
  <2> QED BY <2>2, <2>3, <2>4 DEF McpInv
<1> QED BY <1>3, <1>4, <1>5

\* The loader's MCP rows are the records that are on: every command that touches a
\* record compiles the rows again before it does anything else, and no other editor of
\* the file drops or adds one (mcp_uninstall: "the enabled records stay the source of
\* truth").  They part only when a command ends between the two, because the launcher
\* exits or the write after the record fails, and any later compilation mends that.
THEOREM RowsFollowRecords == Spec => []McpRowsAreRecords
<1>1. Init => McpInv BY DEF Init, McpInv, On
<1>2. Spec => [](TypeInv /\ McpInv) BY <1>1, InitOK, NextOK, McpStepKeeps, PTL DEF Spec
<1>3. TypeInv /\ McpInv => McpRowsAreRecords
  <2> SUFFICES ASSUME TypeInv, SyncingMcp PROVE Pending("syncMcp") BY DEF McpInv, McpRowsAreRecords
  <2>1. ~Idle BY DEF SyncingMcp, TypeInv, JobOK, NoJob
  <2> QED BY <2>1, TailElements DEF SyncingMcp, Pending
<1> QED BY <1>2, <1>3, PTL

-----------------------------------------------------------------------------
\* A server's install, and how it is rolled back.

Has(t, o) == \E i \in DOMAIN t : t[i].op = o

\* What is left of a rollback, and that an install ends with its probe.
RollBackOps == {"unrecord", "syncMcp", "rmMcpDir", "unmeta", "reconcile", "fail"}
RollsBack(t) ==
    \A i \in DOMAIN t : /\ t[i].op \in RollBackOps
                        /\ t[i].op = "unrecord" => i = 1
                        /\ t[i].op = "fail" => i = Len(t)
ProbesLast(t) == \A i \in DOMAIN t : t[i].op = "probe" => i = Len(t)

\* An install of a server that was there before remembers it until the probe, so it is
\* never rolled back; a rollback takes the server out of one file after the other.
ServerInv ==
    job.kind = "mcp" =>
        /\ job.item \in Servers
        /\ ProbesLast(job.todo)
        /\ job.item \in job.had => /\ mcp[job.item] # "absent"
                                   /\ ~Has(job.todo, "unrecord")
                                   /\ job.pre \/ Has(job.todo, "record")
        /\ Has(job.todo, "fail") =>
              /\ RollsBack(job.todo)
              /\ ~Has(job.todo, "unrecord") => mcp[job.item] = "absent"
              /\ Has(job.todo, "unrecord") \/ Has(job.todo, "syncMcp") \/ job.item \notin patch.mcp
              /\ Has(job.todo, "unmeta") \/ job.item \notin meta

LEMMA TailHas ==
    ASSUME TypeInv, ~Idle
    PROVE  /\ \A o : Has(Tail(job.todo), o) => Has(job.todo, o)
           /\ \A o : Has(job.todo, o) => Now.op = o \/ Has(Tail(job.todo), o)
           /\ ProbesLast(job.todo) => ProbesLast(Tail(job.todo))
           /\ RollsBack(job.todo) => RollsBack(Tail(job.todo)) /\ ~Has(Tail(job.todo), "unrecord")
           /\ Has(job.todo, Now.op)
<1> DEFINE T == Tail(job.todo)
           L == Len(job.todo)
<1>1. /\ L \in Nat \ {0} /\ DOMAIN job.todo = 1..L /\ Len(T) = L - 1 /\ DOMAIN T = 1..(L - 1)
      /\ \A i \in 1..(L - 1) : T[i] = job.todo[i + 1]
      /\ Now = job.todo[1]
  BY TailElements, HeadOp
<1>2. \A i \in 1..L : i # 1 => i - 1 \in 1..(L - 1) /\ T[i - 1] = job.todo[i] BY <1>1
<1>3. \A i \in 1..(L - 1) : i + 1 \in 1..L /\ i + 1 # 1 BY <1>1
<1> HIDE DEF T, L
<1>4. \A o : Has(T, o) => Has(job.todo, o) BY <1>1, <1>3 DEF Has
<1>5. \A o : Has(job.todo, o) => Now.op = o \/ Has(T, o) BY <1>1, <1>2 DEF Has
<1>6. ProbesLast(job.todo) => ProbesLast(T) BY <1>1, <1>3 DEF ProbesLast, L
<1>7. ASSUME RollsBack(job.todo) PROVE RollsBack(T) /\ ~Has(T, "unrecord")
  <2>1. ASSUME NEW i \in 1..(L - 1)
        PROVE  T[i].op \in RollBackOps /\ T[i].op # "unrecord" /\ (T[i].op = "fail" => i = L - 1)
    <3>1. i + 1 \in DOMAIN job.todo /\ i + 1 # 1 /\ T[i] = job.todo[i + 1] BY <1>1, <1>3
    <3>2. T[i].op = "fail" => i + 1 = L BY <1>7, <3>1 DEF RollsBack, L
    <3>3. T[i].op \in RollBackOps /\ T[i].op # "unrecord" BY <1>7, <3>1 DEF RollsBack
    <3> QED BY <1>1, <3>2, <3>3
  <2> QED BY <1>1, <2>1 DEF RollsBack, Has
<1>8. Has(job.todo, Now.op) BY <1>1 DEF Has
<1> QED BY <1>4, <1>5, <1>6, <1>7, <1>8 DEF T

\* The writes put in front of a list.
LEMMA ConcatHas ==
    ASSUME NEW S, NEW p \in Seq(S), NEW t \in Seq(S)
    PROVE  \A o : Has(p \o t, o) <=> Has(p, o) \/ Has(t, o)
<1> DEFINE u == p \o t
<1>1. /\ u \in Seq(S) /\ Len(u) = Len(p) + Len(t) /\ Len(p) \in Nat /\ Len(t) \in Nat
      /\ \A i \in 1..(Len(p) + Len(t)) : u[i] = IF i <= Len(p) THEN p[i] ELSE t[i - Len(p)]
  BY ConcatProperties, LenProperties
<1>2. DOMAIN u = 1..(Len(p) + Len(t)) /\ DOMAIN p = 1..Len(p) /\ DOMAIN t = 1..Len(t) BY <1>1, LenProperties
<1> HIDE DEF u
<1>3. ASSUME NEW i \in DOMAIN u PROVE (i \in DOMAIN p /\ u[i] = p[i]) \/ (i - Len(p) \in DOMAIN t /\ u[i] = t[i - Len(p)])
  BY <1>1, <1>2
<1>4. ASSUME NEW i \in DOMAIN p PROVE i \in DOMAIN u /\ u[i] = p[i] BY <1>1, <1>2
<1>5. ASSUME NEW i \in DOMAIN t PROVE Len(p) + i \in DOMAIN u /\ u[Len(p) + i] = t[i]
  <2>1. i \in 1..Len(t) /\ Len(p) + i \in 1..(Len(p) + Len(t)) /\ ~(Len(p) + i <= Len(p)) /\ (Len(p) + i) - Len(p) = i
    BY <1>1, <1>2
  <2> QED BY <1>1, <1>2, <2>1
<1>6. \A o : Has(u, o) => Has(p, o) \/ Has(t, o) BY <1>3 DEF Has
<1>7. \A o : Has(p, o) \/ Has(t, o) => Has(u, o) BY <1>4, <1>5 DEF Has
<1> QED BY <1>6, <1>7 DEF u

LEMMA ConcatProbes ==
    ASSUME NEW S, NEW p \in Seq(S), NEW t \in Seq(S), ~Has(p, "probe"), ProbesLast(t)
    PROVE  ProbesLast(p \o t)
<1> DEFINE u == p \o t
<1>1. /\ u \in Seq(S) /\ Len(u) = Len(p) + Len(t) /\ Len(p) \in Nat /\ Len(t) \in Nat
      /\ \A i \in 1..(Len(p) + Len(t)) : u[i] = IF i <= Len(p) THEN p[i] ELSE t[i - Len(p)]
  BY ConcatProperties, LenProperties
<1>2. DOMAIN u = 1..(Len(p) + Len(t)) /\ DOMAIN p = 1..Len(p) /\ DOMAIN t = 1..Len(t) BY <1>1, LenProperties
<1> HIDE DEF u
<1>3. ASSUME NEW i \in DOMAIN u, u[i].op = "probe" PROVE i = Len(u)
  <2>1. CASE i <= Len(p)
    <3>1. i \in DOMAIN p /\ u[i] = p[i] BY <1>1, <1>2, <2>1
    <3> QED BY <1>3, <3>1 DEF Has
  <2>2. CASE ~(i <= Len(p))
    <3> DEFINE j == i - Len(p)
    <3>1. j \in DOMAIN t /\ u[i] = t[j] /\ i = Len(p) + j BY <1>1, <1>2, <2>2
    <3> HIDE DEF j
    <3>2. j = Len(t) BY <1>3, <3>1 DEF ProbesLast
    <3> QED BY <1>1, <3>1, <3>2
  <2> QED BY <2>1, <2>2
<1> QED BY <1>3 DEF ProbesLast, u

\* The list a rollback starts with.
LEMMA RollBackList ==
    ASSUME NEW m \in Servers
    PROVE  LET t == Append(Discard(m), Op("fail", m))
           IN  /\ RollsBack(t) /\ ProbesLast(t) /\ Has(t, "unrecord") /\ Has(t, "unmeta") /\ t # <<>>
<1> DEFINE d == Discard(m)
           f == Op("fail", m)
           t == Append(d, f)
           C == Course("mcp", m)
<1>1. d \in Seq(C) /\ t \in Seq(C) BY DiscardOK, StartCourses
<1>2. /\ Len(d) = 5 /\ d[1].op = "unrecord" /\ d[2].op = "syncMcp" /\ d[3].op = "rmMcpDir" /\ d[4].op = "unmeta"
      /\ d[5].op = "reconcile" /\ f.op = "fail"
  BY DEF Discard
<1>3. f \in C BY DEF Course, TypedOps, OpSet, Ops, SkillOps, McpOps, PkgOps, McpCourse, Targets, Items
<1> HIDE DEF d, f, C
<1>4. Len(t) = Len(d) + 1 /\ (\A i \in 1..Len(d) : t[i] = d[i]) /\ t[Len(d) + 1] = f /\ t # <<>>
  BY <1>1, <1>3, AppendProperties
<1>5. DOMAIN t = 1..6 /\ Len(t) = 6
  <2>1. Len(t) = 6 BY <1>2, <1>4
  <2>2. DOMAIN t = 1..Len(t) BY <1>1, LenProperties
  <2> QED BY <2>1, <2>2
<1>6. /\ t[1].op = "unrecord" /\ t[2].op = "syncMcp" /\ t[3].op = "rmMcpDir" /\ t[4].op = "unmeta"
      /\ t[5].op = "reconcile" /\ t[6].op = "fail"
  BY <1>2, <1>4
<1> HIDE DEF t
<1>7. RollsBack(t) BY <1>5, <1>6 DEF RollsBack, RollBackOps
<1>8. ProbesLast(t) /\ Has(t, "unrecord") /\ Has(t, "unmeta") BY <1>5, <1>6 DEF ProbesLast, Has
<1> QED BY <1>4, <1>7, <1>8 DEF t, d, f

\* Which command a kind stands for.
LEMMA StartKinds ==
    ASSUME Start
    PROVE  /\ job'.kind = "skill" => \E s \in Skills : InstallSkill(s)
           /\ job'.kind = "skillUpdate" => \E s \in Skills : UpdateSkill(s)
           /\ job'.kind = "mcp" => \E m \in Servers : InstallMcp(m)
           /\ job'.kind = "plugin" => \E p \in Pkgs : \E at \in {"dir", "name"} : InstallPlugin(p, at)
<1>1. ASSUME NEW k, NEW x, NEW t, NEW rows, Begin(k, x, t, rows) PROVE job'.kind = k
  <2> DEFINE h == Recorded
  <2>1. job' = [NoJob EXCEPT !.kind = k, !.item = x, !.todo = t, !.rows = rows, !.had = h] BY <1>1 DEF Begin
  <2> HIDE DEF h
  <2> QED BY <2>1 DEF NoJob
<1>2. ASSUME NEW k, NEW x, NEW t, Enqueue(k, x, t) PROVE job'.kind = k BY <1>1, <1>2 DEF Enqueue
<1> DEFINE K == {"skill", "skillUpdate", "mcp", "plugin"}
<1>3. ASSUME NEW s \in Skills, UninstallSkill(s) PROVE job'.kind \notin K BY <1>2, <1>3 DEF UninstallSkill
<1>4. ASSUME NEW m \in Servers, UninstallMcp(m) PROVE job'.kind \notin K BY <1>2, <1>4 DEF UninstallMcp
<1>5. ASSUME NEW m \in Servers, HealthCheck(m) PROVE job'.kind \notin K BY <1>1, <1>5 DEF HealthCheck
<1>6. ASSUME NEW m \in Servers, NEW v \in {"on", "off"}, ToggleMcp(m, v) PROVE job'.kind \notin K
  <2>1. job'.kind = IF v = "on" THEN "mcpOn" ELSE "mcpOff" BY <1>2, <1>6 DEF ToggleMcp
  <2> QED BY <2>1
<1>7. ASSUME NEW m \in Servers, NEW n \in Servers, ImportMcp(m, n) PROVE job'.kind \notin K
  BY <1>2, <1>7 DEF ImportMcp
<1>8. ASSUME NEW p \in Pkgs, NEW at \in {"dir", "name"}, InstallRaw(p, at) PROVE job'.kind \notin K
  <2>1. job'.kind = "rawPlugin" BY <1>2, <1>8 DEF InstallRaw
  <2> QED BY <2>1
<1>9. ASSUME NEW p \in Pkgs, UninstallPlugin(p) \/ UpdatePlugin(p) PROVE job'.kind \notin K
  <2>1. job'.kind \in {"pluginRemove", "pluginUpdate"} BY <1>1, <1>2, <1>9 DEF UninstallPlugin, UpdatePlugin
  <2> QED BY <2>1
<1>10. ASSUME NEW p \in Pkgs, NEW v \in {"on", "off"}, TogglePlugin(p, v) PROVE job'.kind \notin K
  <2>1. job'.kind = IF v = "on" THEN "pluginOn" ELSE "pluginOff" BY <1>1, <1>10 DEF TogglePlugin
  <2> QED BY <2>1
<1>11. ASSUME NEW x \in Items, NEW y \in Items, ImportBundle(x, y) PROVE job'.kind \notin K
  <2>1. job'.kind = "bundle" BY <1>2, <1>11 DEF ImportBundle
  <2> QED BY <2>1
<1>12. ASSUME NEW s \in Skills PROVE (InstallSkill(s) => job'.kind = "skill") /\ (UpdateSkill(s) => job'.kind = "skillUpdate")
  BY <1>2 DEF InstallSkill, UpdateSkill
<1>13. ASSUME NEW m \in Servers, InstallMcp(m) PROVE job'.kind = "mcp" BY <1>2, <1>13 DEF InstallMcp
<1>14. ASSUME NEW p \in Pkgs, NEW at \in {"dir", "name"}, InstallPlugin(p, at) PROVE job'.kind = "plugin"
  BY <1>2, <1>14 DEF InstallPlugin
<1> QED BY <1>3, <1>4, <1>5, <1>6, <1>7, <1>8, <1>9, <1>10, <1>11, <1>12, <1>13, <1>14 DEF Start

LEMMA InstallMcpShape ==
    ASSUME NEW m \in Servers, InstallMcp(m)
    PROVE  /\ job'.kind = "mcp" /\ job'.item = m /\ job'.had = Recorded /\ job'.pre = FALSE
           /\ job'.todo = <<Op("fetch", m), Op("record", m), Op("syncMcp", m), Op("meta", m), Op("reconcile", m),
                             Op("probe", m)>>
<1> DEFINE t == <<Op("fetch", m), Op("record", m), Op("syncMcp", m), Op("meta", m), Op("reconcile", m),
                  Op("probe", m)>>
           h == Recorded
<1>1. job' = [NoJob EXCEPT !.kind = "mcp", !.item = m, !.todo = t, !.rows = {}, !.had = h]
  BY DEF InstallMcp, Enqueue, Begin
<1> HIDE DEF t, h
<1>2. job'.kind = "mcp" /\ job'.item = m /\ job'.had = h /\ job'.pre = FALSE /\ job'.todo = t BY <1>1 DEF NoJob
<1> QED BY <1>2 DEF t, h

\* Only a list of several commands can go on after a failure.
NoNext == job.kind \in {"mcp", "skill", "skillUpdate", "plugin", "health"}

LEMMA FailEnds ==
    ASSUME TypeInv, ~Idle, NoNext
    PROVE  /\ ~Pending("next")
           /\ \A r : Fail(r) => Ended(r)
<1> DEFINE C == Course(job.kind, job.item)
<1>1. job \in Job /\ job.todo \in Seq(C) BY DEF TypeInv, TypeOK, JobOK
<1>2. \A i \in DOMAIN job.todo : job.todo[i] \in C
  <2> HIDE DEF C
  <2> QED BY <1>1, LenProperties, ElementOfSeq
<1>3. \A o \in C : o.op # "next" BY DEF NoNext, Course, McpCourse, SkillCourse, PluginCourse
<1>4. ~Pending("next") BY <1>2, <1>3 DEF Pending
<1> QED BY <1>1, <1>4, FailMoves

\* A command that goes on takes the write off its list and nothing else.
LEMMA AdvanceForward ==
    ASSUME TypeInv, ~Idle, Advance, ~Idle'
    PROVE  job' = [job EXCEPT !.todo = Tail(@)] /\ job'.todo = Tail(job.todo)
<1>1. job \in Job BY HeadOp
<1>2. job' = [job EXCEPT !.todo = Tail(@)] BY <1>1, AdvanceMoves DEF Ended, Idle, NoJob
<1> QED BY <1>1, <1>2 DEF Job

LEMMA ServerStep == TypeInv /\ ServerInv /\ [Next]_vars => ServerInv'
<1> SUFFICES ASSUME TypeInv, ServerInv, [Next]_vars, job'.kind = "mcp" PROVE ServerInv'
  BY DEF ServerInv
<1> DEFINE m == job.item
           T == Tail(job.todo)
<1>0. ~Idle' BY DEF Idle
<1>1. CASE Start
  <2>1. PICK n \in Servers : InstallMcp(n) BY <1>1, StartKinds
  <2>2. /\ job'.item = n /\ job'.had = Recorded /\ mcp' = mcp
        /\ job'.todo = <<Op("fetch", n), Op("record", n), Op("syncMcp", n), Op("meta", n), Op("reconcile", n),
                          Op("probe", n)>>
    BY <1>1, <2>1, InstallMcpShape, StartFrame DEF manifest
  <2>3. n \in Recorded => mcp[n] # "absent"
    <3>1. deps \in SUBSET Pkgs BY DEF TypeInv, TypeOK
    <3> QED BY <3>1, ContentAssumption DEF Recorded
  <2>4. ProbesLast(job'.todo) /\ ~Has(job'.todo, "fail") /\ ~Has(job'.todo, "unrecord") /\ Has(job'.todo, "record")
    BY <2>2 DEF ProbesLast, Has
  <2> QED BY <2>2, <2>3, <2>4 DEF ServerInv
<1>2. CASE Outside
  <2>1. job' = job /\ mcp' = mcp /\ meta' = meta BY <1>2, OutsideFrame
  <2>2. patch'.mcp = patch.mcp
    <3>1. ~CompileMcp \/ ~Idle BY DEF CompileMcp, At
    <3>2. CASE Idle BY <1>0, <2>1, <3>2 DEF Idle
    <3>3. CASE CompileMcp /\ ~Idle
      <4>1. Now.op = "syncMcp" BY <3>3 DEF CompileMcp, At
      <4>2. FALSE
        <5>1. job' = NoJob \/ job'.todo = T
          BY <3>3, HeadOp, AdvanceMoves DEF CompileMcp, Ended, Job
        <5>2. Len(T) # Len(job.todo) BY <3>3, TailElements
        <5>3. job'.kind = job.kind /\ job'.todo = job.todo BY <2>1
        <5> HIDE DEF T
        <5> QED BY <5>1, <5>2, <5>3, <3>3 DEF Idle, NoJob
      <4> QED BY <4>2
    <3> QED BY <3>1, <3>2, <3>3, BlockFrame
  <2> QED BY <2>1, <2>2 DEF ServerInv
<1>3. CASE ~Idle /\ ~Outside
  <2>1. Kept BY <1>0, <1>3, JobMoves DEF Moves, Ended, Idle, NoJob
  <2>2. job.kind = "mcp" /\ job'.item = m /\ job'.had = job.had BY <2>1 DEF Kept
  <2>3. Now \in Course("mcp", m) /\ Now.op \in McpCourse /\ It = m BY <1>3, <2>2, HeadOp DEF Course, It
  <2>4. /\ m \in Servers /\ ProbesLast(job.todo)
        /\ m \in job.had => mcp[m] # "absent" /\ ~Has(job.todo, "unrecord") /\ (job.pre \/ Has(job.todo, "record"))
        /\ Has(job.todo, "fail") =>
              /\ RollsBack(job.todo)
              /\ ~Has(job.todo, "unrecord") => mcp[m] = "absent"
              /\ Has(job.todo, "unrecord") \/ Has(job.todo, "syncMcp") \/ m \notin patch.mcp
              /\ Has(job.todo, "unmeta") \/ m \notin meta
    BY <2>2 DEF ServerInv
  <2>5. job \in Job /\ mcp \in [Servers -> OnOff] /\ patch \in Patch /\ On(mcp) \in SUBSET Servers
    BY DEF TypeInv, TypeOK, On
  <2>6. ~Crash /\ ~Fail("failed") /\ ~StepFails
    <3>1. ~Crash BY <1>0 DEF Crash, Idle, NoJob
    <3>2. Fail("failed") => Ended("failed") BY <1>3, <2>2, FailEnds DEF NoNext
    <3>3. ~Fail("failed") BY <1>0, <3>2 DEF Ended, Idle, NoJob
    <3> QED BY <3>1, <3>3 DEF StepFails
  <2>7. RollsBack(job.todo) => Now.op \in RollBackOps BY <1>3, TailElements, HeadOp DEF RollsBack
  <2> HIDE DEF T
  <2>8. ASSUME job'.todo = T, job'.pre = job.pre, mcp' = mcp, Now.op \notin {"record", "unrecord"},
               Now.op = "syncMcp" => CompileMcp, Now.op # "syncMcp" => patch'.mcp = patch.mcp,
               Now.op \in {"meta", "unmeta"} => SetMetadata, Now.op \notin {"meta", "unmeta"} => meta' = meta
        PROVE  ServerInv'
    <3>1. /\ ProbesLast(T) /\ \A o : Has(T, o) => Has(job.todo, o)
          /\ \A o : Has(job.todo, o) => Now.op = o \/ Has(T, o)
          /\ RollsBack(job.todo) => RollsBack(T)
      BY <1>3, <2>4, TailHas DEF T
    <3>2. m \in job.had => mcp'[m] # "absent" /\ ~Has(T, "unrecord") /\ (job'.pre \/ Has(T, "record"))
      BY <2>4, <2>8, <3>1
    <3>3. ASSUME Has(T, "fail")
          PROVE  /\ RollsBack(T) /\ ~Has(T, "unrecord") => mcp'[m] = "absent"
                 /\ Has(T, "unrecord") \/ Has(T, "syncMcp") \/ m \notin patch'.mcp
                 /\ Has(T, "unmeta") \/ m \notin meta'
      <4>1. Has(job.todo, "fail") /\ RollsBack(job.todo) /\ RollsBack(T) BY <2>4, <3>1, <3>3
      <4>2. (~Has(job.todo, "unrecord") /\ mcp[m] = "absent") \/ Has(T, "unrecord") BY <2>4, <2>8, <3>1, <4>1
      <4>3. Has(T, "unrecord") \/ Has(T, "syncMcp") \/ m \notin patch'.mcp
        <5>1. CASE Now.op = "syncMcp"
          <6>1. patch' = SyncMcpPatch(patch, On(mcp)) BY <2>8, <5>1 DEF CompileMcp
          <6>2. patch'.mcp = On(mcp) BY <2>5, <6>1, SyncMcpKeeps
          <6>3. CASE Has(T, "unrecord") BY <6>3
          <6>4. CASE mcp[m] = "absent" BY <6>2, <6>4 DEF On
          <6> QED BY <4>2, <6>3, <6>4
        <5>2. CASE Now.op # "syncMcp" BY <2>4, <2>8, <3>1, <4>1, <5>2
        <5> QED BY <5>1, <5>2
      <4>4. Has(T, "unmeta") \/ m \notin meta'
        <5>1. Now.op # "meta" BY <2>7, <4>1 DEF RollBackOps
        <5>2. CASE Now.op = "unmeta" BY <2>3, <2>8, <5>2 DEF SetMetadata, At
        <5>3. CASE Now.op # "unmeta" BY <2>4, <2>8, <3>1, <4>1, <5>1, <5>3
        <5> QED BY <5>2, <5>3
      <4> QED BY <2>8, <4>1, <4>2, <4>3, <4>4
    <3> QED BY <2>2, <2>4, <2>8, <3>1, <3>2, <3>3 DEF ServerInv
  <2>9. Advance => job'.todo = T /\ job'.pre = job.pre
    <3>1. Advance => job' = [job EXCEPT !.todo = T] BY <1>0, <1>3, AdvanceForward DEF T
    <3> QED BY <2>5, <3>1 DEF Job
  <2>10. CASE Now.op = "fetch" /\ FetchMcp
    <3> DEFINE c == Op("clone", It)
               b == Op("build", It)
               C == Course("mcp", m)
    <3>1. c \in C /\ b \in C
      BY <2>3, <2>4 DEF Course, TypedOps, OpSet, Ops, SkillOps, McpOps, PkgOps, McpCourse, Targets, Items
    <3>0. \E cls \in {"remote", "registry", "source"} :
             \E t \in {Tail(job.todo), <<c, b>> \o Tail(job.todo)} : Continue([job EXCEPT !.cls = cls, !.todo = t])
      BY <2>5, <2>6, <2>10, FetchMcpMoves
    <3>2. PICK cls, t : t \in {T, <<c, b>> \o T} /\ Continue([job EXCEPT !.cls = cls, !.todo = t])
      BY <3>0 DEF T
    <3>3. job'.todo = t /\ job'.pre = job.pre
      <4> DEFINE j == [job EXCEPT !.cls = cls, !.todo = t]
      <4>1. j.kind = job.kind /\ j.item = job.item /\ j.had = job.had /\ j.todo = t /\ j.pre = job.pre BY <2>5 DEF Job
      <4>2. Continue(j) BY <3>2
      <4> HIDE DEF j
      <4>3. job' # NoJob BY <1>0 DEF Idle, NoJob
      <4>4. job' = j BY <4>1, <4>2, <4>3, ContinueMoves DEF Ended
      <4> QED BY <4>1, <4>4
    <3>4. T \in Seq(C) BY <1>3, <2>2, HeadOp DEF T
    <3>5. <<c, b>> \in Seq(C) /\ ~Has(<<c, b>>, "probe") /\ ~Has(<<c, b>>, "fail") /\ ~Has(<<c, b>>, "unrecord")
      <4>1. c.op = "clone" /\ b.op = "build" OBVIOUS
      <4> HIDE DEF c, b, C
      <4> QED BY <3>1, <4>1 DEF Has
    <3>6. /\ ProbesLast(T) /\ \A o : Has(T, o) => Has(job.todo, o)
          /\ \A o : Has(job.todo, o) => Now.op = o \/ Has(T, o)
      BY <1>3, <2>4, TailHas DEF T
    <3>7. ~Has(job.todo, "fail") BY <2>4, <2>7, <2>10 DEF RollBackOps
    <3>8. /\ ProbesLast(t) /\ ~Has(t, "fail") /\ (Has(t, "unrecord") => Has(job.todo, "unrecord"))
          /\ Has(job.todo, "record") => Has(t, "record")
      <4>1. CASE t = T BY <2>10, <3>6, <3>7, <4>1
      <4>2. CASE t = <<c, b>> \o T
        <5> HIDE DEF c, b, C
        <5>1. ProbesLast(<<c, b>> \o T) BY <3>4, <3>5, <3>6, ConcatProbes
        <5>2. \A o : Has(<<c, b>> \o T, o) <=> Has(<<c, b>>, o) \/ Has(T, o) BY <3>4, <3>5, ConcatHas
        <5> QED BY <2>10, <3>5, <3>6, <3>7, <4>2, <5>1, <5>2
      <4> QED BY <3>2, <4>1, <4>2
    <3>9. mcp' = mcp BY <2>10 DEF FetchMcp, manifest
    <3> QED BY <2>2, <2>4, <3>3, <3>8, <3>9 DEF ServerInv
  <2>11. CASE Now.op \in {"record", "unrecord", "setMcp"} /\ RecordMcp
    <3>1. Now.op \in {"record", "unrecord"} BY <2>3, <2>11 DEF McpCourse
    <3>2. job'.todo = T /\ job'.pre = (mcp[m] # "absent") BY <1>0, <1>3, <2>3, <2>11, RecordMoves DEF T
    <3>3. /\ ProbesLast(T) /\ \A o : Has(T, o) => Has(job.todo, o)
          /\ \A o : Has(job.todo, o) => Now.op = o \/ Has(T, o)
          /\ RollsBack(job.todo) => RollsBack(T) /\ ~Has(T, "unrecord")
          /\ Has(job.todo, Now.op)
      BY <1>3, <2>4, TailHas DEF T
    <3>4. patch' = patch /\ meta' = meta BY <2>11 DEF RecordMcp
    <3>5. CASE Now.op = "record"
      <4>1. mcp' = [mcp EXCEPT ![m] = "on"] BY <2>3, <2>11, <3>5 DEF RecordMcp, At
      <4>2. mcp'[m] = "on" BY <2>4, <2>5, <4>1
      <4>3. ~Has(job.todo, "fail") BY <2>4, <2>7, <3>5 DEF RollBackOps
      <4> QED BY <2>2, <2>4, <3>2, <3>3, <4>2, <4>3 DEF ServerInv
    <3>6. CASE Now.op = "unrecord"
      <4>1. mcp' = [mcp EXCEPT ![m] = "absent"] BY <2>3, <2>11, <3>6 DEF RecordMcp, At
      <4>2. mcp'[m] = "absent" BY <2>4, <2>5, <4>1
      <4>3. m \notin job.had BY <2>4, <3>3, <3>6
      <4>4. Has(T, "syncMcp")
        <5>1. 1 < Len(job.todo) /\ job.todo[2].op = "syncMcp" BY <1>3, <3>6, HeadOp DEF FollowedBy
        <5>2. 1 \in DOMAIN T /\ T[1] = job.todo[2] BY <1>3, <5>1, TailElements DEF T
        <5> QED BY <5>1, <5>2 DEF Has
      <4> QED BY <2>2, <2>4, <3>2, <3>3, <3>4, <3>6, <4>2, <4>3, <4>4 DEF ServerInv
    <3> QED BY <3>1, <3>5, <3>6
  <2>12. CASE Now.op = "probe" /\ (ProbeMcp \/ ProbeVerdict)
    <3>1. CASE ProbeMcp
      <4>1. job' = job /\ mcp' = mcp /\ meta' = meta /\ patch' = patch BY <3>1 DEF ProbeMcp, manifest
      <4> QED BY <4>1 DEF ServerInv
    <3>2. CASE ProbeVerdict
      <4>1. mcp' = mcp /\ meta' = meta /\ patch' = patch BY <3>2 DEF ProbeVerdict, manifest
      <4>2. CASE Advance BY <2>8, <2>9, <2>12, <4>1, <4>2
      <4>3. CASE GenuineFailure /\ Instead(Append(Discard(It), Op("fail", It)))
        <5> DEFINE t == Append(Discard(It), Op("fail", It))
        <5>1. RollsBack(t) /\ ProbesLast(t) /\ Has(t, "unrecord") /\ Has(t, "unmeta") /\ t # <<>>
          BY <2>3, <2>4, RollBackList
        <5>2. job' = [job EXCEPT !.todo = t] BY <2>5, <4>3, <5>1, InsteadMoves
        <5>3. job'.todo = t
          <6> HIDE DEF t
          <6> QED BY <2>5, <5>2 DEF Job
        <5>4. ~Has(job.todo, "record")
          <6>1. Len(job.todo) = 1 /\ DOMAIN job.todo = 1..Len(job.todo) /\ Now = job.todo[1]
            BY <1>3, <2>4, <2>12, TailElements, HeadOp DEF ProbesLast
          <6> QED BY <2>12, <6>1 DEF Has
        <5>5. m \notin job.had BY <2>4, <4>3, <5>4 DEF GenuineFailure
        <5> HIDE DEF t
        <5> QED BY <2>2, <2>4, <4>1, <5>1, <5>3, <5>5 DEF ServerInv
      <4> QED BY <2>2, <2>6, <3>2, <4>2, <4>3 DEF ProbeVerdict
    <3> QED BY <2>12, <3>1, <3>2
  <2>13. CASE \/ Now.op = "clone" /\ CloneMcp
              \/ Now.op = "build" /\ BuildMcp
              \/ Now.op = "syncMcp" /\ CompileMcp
              \/ Now.op = "rmMcpDir" /\ RemoveMcpDir
              \/ Now.op \in {"meta", "unmeta"} /\ SetMetadata
              \/ Now.op = "reconcile" /\ Reconcile
    <3>1. Advance BY <2>6, <2>13 DEF CloneMcp, BuildMcp, CompileMcp, RemoveMcpDir, SetMetadata, Reconcile
    <3>2. mcp' = mcp
      BY <2>13 DEF CloneMcp, BuildMcp, CompileMcp, RemoveMcpDir, SetMetadata, Reconcile, manifest
    <3>3. Now.op \notin {"meta", "unmeta"} => meta' = meta
      BY <2>13 DEF CloneMcp, BuildMcp, CompileMcp, RemoveMcpDir, SetMetadata, Reconcile
    <3>4. Now.op # "syncMcp" => patch'.mcp = patch.mcp
      <4>1. CompileMcp => Now.op = "syncMcp" BY DEF CompileMcp, At
      <4> QED BY <4>1, BlockFrame
    <3> QED BY <2>8, <2>9, <2>13, <3>1, <3>2, <3>3, <3>4
  <2>14. CASE Now.op \in {"next", "fail"} /\ Conclusion
    <3>1. Now.op = "fail" BY <2>3, <2>14 DEF McpCourse
    <3>2. Fail("rolledBack") BY <2>2, <2>14, <3>1 DEF Conclusion, At
    <3>3. Ended("rolledBack") BY <1>3, <2>2, <3>2, FailEnds DEF NoNext
    <3> QED BY <1>0, <3>3 DEF Ended, Idle, NoJob
  <2> QED BY <1>3, <2>3, <2>6, <2>10, <2>11, <2>12, <2>13, <2>14, Dispatch DEF McpCourse
<1> QED BY <1>1, <1>2, <1>3, IdleStep

LEMMA RollbackStep == TypeInv /\ ServerInv /\ RollbackLeavesNothing /\ [Next]_vars => RollbackLeavesNothing'
<1> SUFFICES ASSUME TypeInv, ServerInv, RollbackLeavesNothing, [Next]_vars, last'.res = "rolledBack"
             PROVE  mcp'[last'.item] = "absent" /\ last'.item \notin patch'.mcp /\ last'.item \notin meta'
  BY DEF RollbackLeavesNothing
<1>1. CASE Idle
  <2>1. ~Start
    <3>1. Start => last' = NoEnd BY StartFrame
    <3> QED BY <3>1 DEF NoEnd
  <2>2. last' = last /\ mcp' = mcp /\ meta' = meta BY <1>1, <2>1, IdleStep, OutsideFrame
  <2>3. patch'.mcp = patch.mcp
    <3>1. ~CompileMcp BY <1>1 DEF CompileMcp, At
    <3> QED BY <3>1, BlockFrame
  <2> QED BY <2>2, <2>3 DEF RollbackLeavesNothing
<1>2. CASE ~Idle
  <2>1. last = NoEnd BY <1>2 DEF TypeInv, JobOK
  <2>2. Ended("rolledBack") /\ Conclusion /\ Now.op = "fail" /\ job.kind = "mcp"
    BY <1>2, <2>1, JobMoves DEF Moves, Kept, Ended, NoEnd
  <2>3. last'.item = job.item BY <2>2 DEF Ended
  <2>4. UNCHANGED <<mcp, patch, meta>> BY <2>2 DEF Conclusion, manifest
  <2>5. Has(job.todo, "fail") BY <1>2, <2>2, TailHas
  <2>6. RollsBack(job.todo) BY <2>2, <2>5 DEF ServerInv
  <2>7. Len(job.todo) = 1 /\ DOMAIN job.todo = 1..Len(job.todo) /\ Now = job.todo[1]
    BY <1>2, <2>2, <2>6, TailElements, HeadOp DEF RollsBack
  <2>8. ~Has(job.todo, "unrecord") /\ ~Has(job.todo, "syncMcp") /\ ~Has(job.todo, "unmeta")
    BY <2>2, <2>7 DEF Has
  <2> QED BY <2>2, <2>3, <2>4, <2>5, <2>8 DEF ServerInv
<1> QED BY <1>1, <1>2

LEMMA ServerInvariant == Spec => [](TypeInv /\ ServerInv /\ RollbackLeavesNothing)
<1>1. Init => ServerInv /\ RollbackLeavesNothing
  BY DEF Init, ServerInv, RollbackLeavesNothing, NoJob, NoEnd
<1> QED BY <1>1, InitOK, NextOK, ServerStep, RollbackStep, PTL DEF Spec

\* An install that reports it was rolled back has left no record, no loader row and no
\* metadata of the server ("the install was rolled back and nothing was left installed",
\* mcp_install_job).
THEOREM RollbacksAreComplete == Spec => []RollbackLeavesNothing
BY ServerInvariant, PTL

\* A server's record goes only in the server's own removal, or in the rollback of an
\* install that found no record of it: the pre-existing flag mcp_install_job reads
\* before it writes the record still holds when the probe fails.
THEOREM OnlyAskedRemovals == Spec => RemovedOnlyIfAsked
<1> DEFINE Asked == \A m \in Servers :
                      mcp[m] # "absent" /\ mcp'[m] = "absent"
                         => /\ job.item = m
                            /\ job.kind = "mcpRemove" \/ (job.kind = "mcp" /\ m \notin job.had)
<1>1. ASSUME TypeInv, ServerInv, [Next]_vars
      PROVE  Asked
  <2> SUFFICES ASSUME NEW m \in Servers, mcp[m] # "absent", mcp'[m] = "absent"
               PROVE  /\ job.item = m
                      /\ job.kind = "mcpRemove" \/ (job.kind = "mcp" /\ m \notin job.had)
    OBVIOUS
  <2>1. mcp \in [Servers -> OnOff] BY <1>1 DEF TypeInv, TypeOK
  <2>2. RecordMcp /\ ~Idle BY <1>1, Frames DEF RecordMcp, At
  <2>3. Now.op = "setMcp" => Now.at # "absent" BY <1>1, <2>2, HeadItem
  <2>4. Now.op = "unrecord" /\ It = m BY <2>1, <2>2, <2>3 DEF RecordMcp, At
  <2>5. job.kind \in {"mcp", "mcpRemove"} /\ job.item = m
    BY <1>1, <2>2, <2>4, HeadOp DEF Course, It
  <2>6. Has(job.todo, "unrecord") BY <1>1, <2>2, <2>4, TailHas
  <2> QED BY <1>1, <2>5, <2>6 DEF ServerInv
<1> QED BY <1>1, ServerInvariant, PTL DEF Spec, RemovedOnlyIfAsked

-----------------------------------------------------------------------------
\* The skin rows.  A row without a record is about to be dropped by the command that
\* dropped the record, or that command failed or was cut off.
SyncingSkin ==
    /\ job.todo # <<>>
    /\ \/ job.todo[1].op = "syncSkin"
       \/ job.todo[1].op = "rmRows" /\ Len(job.todo) > 1 /\ job.todo[2].op = "syncSkin"

SkinInv ==
    \A p \in Pkgs : skins[p] = "absent" /\ p \in patch.skin => p \in cut \/ (p \in unsynced /\ SyncingSkin)

LEMMA SkinStep == TypeInv /\ SkinInv /\ [Next]_vars => SkinInv'
<1> SUFFICES ASSUME TypeInv, SkinInv, [Next]_vars, NEW p \in Pkgs,
                    skins'[p] = "absent", p \in patch'.skin, p \notin cut'
             PROVE  p \in unsynced' /\ SyncingSkin'
  BY DEF SkinInv
<1>1. TypeOK /\ skins \in [Pkgs -> OnOff] /\ patch \in Patch /\ job \in Job BY DEF TypeInv, TypeOK
<1>2. ~CompileSkins
  <2> SUFFICES ASSUME CompileSkins PROVE FALSE OBVIOUS
  <2>1. skins' = skins /\ SkinRows \in SUBSET Pkgs /\ p \notin SkinRows
    BY <1>1 DEF SkinRows, On, CompileSkins, manifest
  <2>2. CASE patch' = SyncSkinPatch(patch, SkinRows) BY <1>1, <2>1, <2>2, SyncSkinKeeps
  <2>3. CASE UNCHANGED patch /\ cut' = cut \cup unsynced BY <2>1, <2>3 DEF SkinInv
  <2> QED BY <2>2, <2>3 DEF CompileSkins
<1>3. patch'.skin = patch.skin BY <1>2, BlockFrame
<1>4. CASE skins[p] # "absent"
  <2>1. ~LandDisabled
    <3> SUFFICES ASSUME LandDisabled PROVE FALSE OBVIOUS
    <3>1. skins' = skins \/ skins' = [skins EXCEPT ![It] = "off"] BY DEF LandDisabled
    <3> QED BY <1>1, <1>4, <3>1
  <2>2. RecordSkin /\ ~Idle
    <3>1. skins' # skins BY <1>4
    <3> QED BY <2>1, <3>1, Frames DEF RecordSkin, At
  <2>3. Now.op = "dropSkin" /\ p \in unsynced' /\ Advance
    <3>1. Now.op = "setSkin" => Now.at \in {"on", "off"} BY <2>2, HeadItem
    <3>2. CASE At("setSkin") BY <1>1, <1>4, <2>2, <3>1, <3>2 DEF RecordSkin, At
    <3>3. CASE At("dropSkin") /\ ~At("setSkin")
      <4>1. PICK gone : /\ skins' = [q \in Pkgs |-> IF q \in gone THEN "absent" ELSE skins[q]]
                        /\ unsynced' = unsynced \cup gone
        BY <2>2, <3>3 DEF RecordSkin
      <4>2. p \in gone BY <1>4, <4>1
      <4> QED BY <2>2, <3>3, <4>1, <4>2 DEF RecordSkin, At
    <3> QED BY <2>2, <3>2, <3>3 DEF RecordSkin
  <2>4. Len(job.todo) > 2 /\ job.todo[2].op = "rmRows" /\ job.todo[3].op = "syncSkin"
    <3>1. Follows(job.todo) /\ Len(job.todo) \in Nat \ {0} /\ Now = job.todo[1] /\ FollowedBy(job.todo, 1)
      BY <2>2, HeadOp DEF TypeInv, JobOK
    <3>2. Then(job.todo, 1, "rmRows") BY <2>3, <3>1 DEF FollowedBy
    <3>3. 2 \in 1..Len(job.todo) /\ job.todo[2].op = "rmRows"
      BY <2>3, <3>1, <3>2 DEF Then
    <3>4. FollowedBy(job.todo, 2) BY <3>1, <3>3 DEF Follows
    <3>5. Then(job.todo, 2, "syncSkin") BY <3>3, <3>4 DEF FollowedBy
    <3> QED BY <3>1, <3>3, <3>5 DEF Then
  <2>5. Len(Tail(job.todo)) > 1 /\ Tail(job.todo)[1] = job.todo[2] /\ Tail(job.todo)[2] = job.todo[3]
        /\ Tail(job.todo) # <<>>
    BY <2>2, <2>4, TailElements
  <2>6. job' = [job EXCEPT !.todo = Tail(@)] BY <1>1, <2>3, <2>5, AdvanceMoves
  <2>7. job'.todo = Tail(job.todo) BY <1>1, <2>6 DEF Job
  <2> QED BY <2>3, <2>4, <2>5, <2>7 DEF SyncingSkin
<1>5. CASE skins[p] = "absent" /\ p \in cut
  <2>1. CompileMcp \/ StepFails \/ Crash BY <1>2, <1>5, Frames
  <2>2. ~StepFails /\ ~Crash BY <1>5, CutHolds
  <2>3. CompileMcp => cut' = cut \ Servers BY DEF CompileMcp
  <2> QED BY <1>5, <2>1, <2>2, <2>3, ContentAssumption
<1>6. CASE p \in unsynced /\ SyncingSkin
  <2>1. ~Idle BY <1>6 DEF SyncingSkin, Idle, TypeInv, JobOK, NoJob
  <2>2. Now = job.todo[1] /\ Len(job.todo) \in Nat \ {0} BY <2>1, HeadOp
  <2>3. ~StepFails /\ ~Crash BY <1>6, CutHolds
  <2>4. CASE Outside
    <3>1. job' = job /\ unsynced' = unsynced BY <2>4, OutsideFrame
    <3> QED BY <1>6, <3>1 DEF SyncingSkin
  <2>5. CASE ~Outside
    <3>1. Now.op \in {"syncSkin", "rmRows"} BY <1>6, <2>2 DEF SyncingSkin
    <3>2. Now.op = "rmRows" /\ RemoveRows BY <1>2, <2>1, <2>3, <2>5, <3>1, Dispatch
    <3>3. Len(job.todo) > 1 /\ job.todo[2].op = "syncSkin" BY <1>6, <2>2, <3>2 DEF SyncingSkin
    <3>4. Tail(job.todo)[1] = job.todo[2] /\ Tail(job.todo) # <<>> BY <2>1, <3>3, TailElements
    <3>5. job' = [job EXCEPT !.todo = Tail(@)] BY <1>1, <3>2, <3>4, AdvanceMoves DEF RemoveRows
    <3>6. job'.todo = Tail(job.todo) /\ unsynced' = unsynced BY <1>1, <3>2, <3>5 DEF Job, RemoveRows, history
    <3> QED BY <1>6, <3>3, <3>4, <3>6 DEF SyncingSkin
  <2> QED BY <2>4, <2>5
<1> QED BY <1>1, <1>3, <1>4, <1>5, <1>6 DEF SkinInv

-----------------------------------------------------------------------------
\* A package install.  What changes the package comes before the write that lands it,
\* and from then on its loader rows are off or about to be turned off.
PreOps == {"dropRoot", "resolve", "add", "gate", "dshRemove", "pruneNm"}

LandsLate(t) ==
    \A j \in DOMAIN t : t[j].op \in PreOps => /\ Has(t, "land")
                                            /\ \A i \in DOMAIN t : t[i].op = "land" => j < i

RowsLeft == IF Has(job.todo, "rowOff") THEN job.rows ELSE {}

PluginInv ==
    job.kind = "plugin" =>
        /\ job.item \in Pkgs /\ LandsLate(job.todo)
        /\ job.item \notin job.had =>
              /\ skins[job.item] # "on"
              /\ job.item \in patch.skin => job.item \in cut
              /\ Has(job.todo, "land") \/ InsertedRows(job.item) \subseteq Disables(patch) \cup RowsLeft

LEMMA TailLands ==
    ASSUME TypeInv, ~Idle, LandsLate(job.todo)
    PROVE  /\ LandsLate(Tail(job.todo))
           /\ Now.op \in PreOps => Has(Tail(job.todo), "land")
           /\ Now.op = "land" => \A o \in PreOps : ~Has(Tail(job.todo), o)
<1> DEFINE T == Tail(job.todo)
           n == Len(job.todo)
<1>1. /\ n \in Nat \ {0} /\ DOMAIN job.todo = 1..n /\ DOMAIN T = 1..(n - 1) /\ Now = job.todo[1]
      /\ \A i \in 1..(n - 1) : T[i] = job.todo[i + 1]
  BY TailElements, HeadOp
<1> HIDE DEF T, n
<1>2. ASSUME NEW j \in DOMAIN job.todo, job.todo[j].op \in PreOps
      PROVE  \E i \in DOMAIN job.todo : i > j /\ job.todo[i].op = "land"
  BY <1>1, <1>2 DEF LandsLate, Has
<1>3. ASSUME NEW j \in DOMAIN job.todo, job.todo[j].op \in PreOps PROVE Has(T, "land")
  <2>1. PICK i \in 1..n : i > j /\ job.todo[i].op = "land" BY <1>1, <1>2, <1>3
  <2>2. i - 1 \in 1..(n - 1) /\ T[i - 1] = job.todo[i] BY <1>1, <1>3, <2>1
  <2> QED BY <1>1, <2>1, <2>2 DEF Has
<1>4. ASSUME NEW j \in DOMAIN T, T[j].op \in PreOps, NEW i \in DOMAIN T, T[i].op = "land"
      PROVE  j < i
  <2>1. j + 1 \in 1..n /\ i + 1 \in 1..n /\ T[j] = job.todo[j + 1] /\ T[i] = job.todo[i + 1] BY <1>1, <1>4
  <2>2. j + 1 < i + 1 BY <1>1, <1>4, <2>1 DEF LandsLate
  <2> QED BY <1>1, <1>4, <2>2
<1>5. ASSUME NEW j \in DOMAIN T, T[j].op \in PreOps PROVE Has(T, "land")
  <2>1. j + 1 \in DOMAIN job.todo /\ T[j] = job.todo[j + 1] BY <1>1, <1>5
  <2> QED BY <1>3, <1>5, <2>1
<1>6. LandsLate(T) BY <1>4, <1>5 DEF LandsLate
<1>7. Now.op \in PreOps => Has(T, "land") BY <1>1, <1>3
<1>8. ASSUME Now.op = "land", NEW o \in PreOps, Has(T, o) PROVE FALSE
  <2>1. PICK j \in 1..(n - 1) : T[j].op = o BY <1>1, <1>8 DEF Has
  <2>2. j + 1 \in 1..n /\ 1 \in 1..n /\ job.todo[j + 1].op = o BY <1>1, <2>1
  <2>3. j + 1 < 1 BY <1>1, <1>8, <2>2 DEF LandsLate
  <2> QED BY <2>1, <2>3
<1> QED BY <1>6, <1>7, <1>8 DEF T

LEMMA ConcatLands ==
    ASSUME NEW S, NEW s \in Seq(S), NEW t \in Seq(S), ~Has(s, "land"), LandsLate(t), Has(t, "land")
    PROVE  LandsLate(s \o t) /\ Has(s \o t, "land")
<1> DEFINE u == s \o t
<1>1. /\ DOMAIN s = 1..Len(s) /\ DOMAIN t = 1..Len(t) /\ Len(s) \in Nat /\ Len(t) \in Nat
      /\ DOMAIN u = 1..(Len(s) + Len(t))
      /\ \A i \in 1..(Len(s) + Len(t)) : u[i] = IF i <= Len(s) THEN s[i] ELSE t[i - Len(s)]
  BY ConcatProperties, LenProperties
<1>2. Has(u, "land") BY ConcatHas
<1> HIDE DEF u
<1>3. ASSUME NEW j \in DOMAIN u, u[j].op \in PreOps, NEW i \in DOMAIN u, u[i].op = "land" PROVE j < i
  <2>1. i > Len(s)
    <3> SUFFICES ASSUME i <= Len(s) PROVE FALSE BY <1>1
    <3>1. i \in DOMAIN s /\ s[i].op = "land" BY <1>1, <1>3
    <3> QED BY <3>1 DEF Has
  <2>2. i - Len(s) \in DOMAIN t /\ t[i - Len(s)].op = "land" BY <1>1, <1>3, <2>1
  <2>3. CASE j <= Len(s) BY <1>1, <2>1, <2>3
  <2>4. CASE j > Len(s)
    <3>1. j - Len(s) \in DOMAIN t /\ t[j - Len(s)].op \in PreOps BY <1>1, <1>3, <2>4
    <3>2. j - Len(s) < i - Len(s) BY <2>2, <3>1 DEF LandsLate
    <3> QED BY <1>1, <3>2
  <2> QED BY <1>1, <2>3, <2>4
<1> QED BY <1>2, <1>3 DEF LandsLate, u

\* The list of a package install.
LEMMA InstallPluginShape ==
    ASSUME NEW p \in Pkgs, NEW at \in {"dir", "name"}, InstallPlugin(p, at)
    PROVE  /\ job'.kind = "plugin" /\ job'.item = p /\ job'.had = Recorded
           /\ LandsLate(job'.todo) /\ Has(job'.todo, "land")
<1> DEFINE C == Course("plugin", p)
           f == Fetched(p, at)
           a == <<OpAt("add", p, at), Op("land", p), Op("meta", p)>>
           r == Op("reconcile", p)
           t == Append(Add(p, at), r)
           root == IF p \in Themes /\ at = "dir" /\ Root[p] # {} THEN <<Op("dropRoot", p)>> ELSE <<>>
           w == root \o t
           h == Recorded
<1>1. /\ f \in Seq(C) /\ r \in C /\ a \in Seq(C) /\ f \o a = Add(p, at) /\ ~Has(f, "land")
      /\ LandsLate(a) /\ Has(a, "land")
  <2>1. f \in Seq(C) BY FetchedOK, StartCourses
  <2>2. /\ OpAt("add", p, at) \in C /\ Op("land", p) \in C /\ Op("meta", p) \in C /\ r \in C
    BY DEF Course, TypedOps, OpSet, Ops, SkillOps, McpOps, PkgOps, PluginCourse, Targets, Items
  <2>3. a \in Seq(C)
    <3> HIDE DEF C
    <3> QED BY <2>2
  <2>4. ~Has(f, "land") BY DEF Has, Fetched
  <2>5. LandsLate(a) /\ Has(a, "land") BY DEF LandsLate, Has, PreOps
  <2> QED BY <2>1, <2>2, <2>3, <2>4, <2>5 DEF Add
<1>2. r.op = "reconcile" OBVIOUS
<1>3. job' = [NoJob EXCEPT !.kind = "plugin", !.item = p, !.todo = w, !.rows = {}, !.had = h]
  BY DEF InstallPlugin, Enqueue, Begin
<1>0. root \in Seq(C) /\ ~Has(root, "land")
  <2> DEFINE d == Op("dropRoot", p)
  <2>1. d \in C /\ d.op # "land"
    BY DEF Course, TypedOps, OpSet, Ops, SkillOps, McpOps, PkgOps, PluginCourse, Targets, Items
  <2>2. root = <<d>> \/ root = <<>> OBVIOUS
  <2> HIDE DEF C, d, root
  <2>3. <<d>> \in Seq(C) /\ ~Has(<<d>>, "land") BY <2>1 DEF Has
  <2>4. <<>> \in Seq(C) /\ ~Has(<<>>, "land") BY DEF Has
  <2> QED BY <2>2, <2>3, <2>4
<1> HIDE DEF t, h, C, f, a, r, root, w
<1>4. job'.kind = "plugin" /\ job'.item = p /\ job'.had = h /\ job'.todo = w BY <1>3 DEF NoJob
<1>5. LandsLate(f \o a) /\ Has(f \o a, "land") /\ f \o a \in Seq(C)
  BY <1>1, ConcatLands, ConcatProperties
<1>6. LandsLate(t) /\ Has(t, "land") /\ t \in Seq(C)
  <2> DEFINE u == f \o a
  <2>0. u \in Seq(C) /\ LandsLate(u) /\ Has(u, "land") BY <1>5
  <2>1. t = Append(u, r) BY <1>1 DEF t
  <2> HIDE DEF u
  <2>2. /\ Len(u) \in Nat /\ DOMAIN u = 1..Len(u) /\ DOMAIN t = 1..(Len(u) + 1) /\ t[Len(u) + 1] = r
        /\ t \in Seq(C)
        /\ \A i \in 1..Len(u) : t[i] = u[i]
    BY <1>1, <2>0, <2>1, AppendProperties, LenProperties
  <2>3. Has(t, "land") BY <2>0, <2>2 DEF Has
  <2>4. ASSUME NEW j \in DOMAIN t, t[j].op \in PreOps, NEW i \in DOMAIN t, t[i].op = "land" PROVE j < i
    <3>1. j \in 1..Len(u) /\ i \in 1..Len(u) BY <1>2, <2>2, <2>4 DEF PreOps
    <3> QED BY <2>0, <2>2, <2>4, <3>1 DEF LandsLate
  <2> QED BY <2>2, <2>3, <2>4 DEF LandsLate
<1>7. LandsLate(w) /\ Has(w, "land") BY <1>0, <1>6, ConcatLands DEF w
<1> QED BY <1>4, <1>7 DEF h

LEMMA InsertedStays == nm' = nm => \A p : InsertedRows(p)' = InsertedRows(p)
BY DEF InsertedRows, parse_inserted_ids

LEMMA OutsideABusyJob ==
    ASSUME Outside, ~Idle
    PROVE  UNCHANGED <<job, last, skins, nm, patch, cut>>
BY OutsideFrame DEF Outside, profile_diagnostics, Launch, Stop, AuthorPublishes, vars, trees, history

\* What the writes after the landing do: a row is turned off, or the package's rows stay off.
LEMMA LandEffect ==
    ASSUME TypeInv, ~Idle, [Next]_vars, ~Outside, ~Crash, PluginInv, job.kind = "plugin",
           ~Fail("failed"), NEW x, x = job.item, x \notin job.had,
           Now.op \in {"rowOff", "syncSkin", "meta", "reconcile"}
    PROVE  /\ skins' = skins /\ nm' = nm /\ skins[x] # "on" /\ (x \in patch'.skin => x \in cut')
           /\ \/ /\ Advance
                 /\ \/ Has(Tail(job.todo), "land")
                    \/ InsertedRows(x) \subseteq
                          Disables(patch') \cup IF Has(Tail(job.todo), "rowOff") THEN job.rows ELSE {}
              \/ \E i \in job.rows : /\ patch' = DisableRows(patch, {i})
                                     /\ job' = [job EXCEPT !.rows = @ \ {i}]
                                     /\ Now.op = "rowOff"
<1> DEFINE T == Tail(job.todo)
           rest == IF Has(T, "rowOff") THEN job.rows ELSE {}
<1>1. /\ x \in Pkgs /\ skins[x] # "on" /\ (x \in patch.skin => x \in cut)
      /\ Has(job.todo, "land") \/ InsertedRows(x) \subseteq Disables(patch) \cup RowsLeft
  BY DEF PluginInv
<1>2. \/ Now.op = "rowOff" /\ SetRow
      \/ Now.op = "syncSkin" /\ CompileSkins
      \/ Now.op = "meta" /\ SetMetadata
      \/ Now.op = "reconcile" /\ Reconcile
  BY Dispatch DEF StepFails
<1>3. skins' = skins /\ nm' = nm
  BY <1>2 DEF SetRow, CompileSkins, SetMetadata, Reconcile, manifest, trees
<1>4. (\A o : Has(T, o) => Has(job.todo, o)) /\ (\A o : Has(job.todo, o) => Now.op = o \/ Has(T, o))
  BY TailHas
<1>5. TypeOK /\ patch \in Patch /\ job \in Job /\ skins \in [Pkgs -> OnOff] BY DEF TypeInv, TypeOK
<1>6. x \in patch'.skin => x \in cut'
  <2>1. CASE CompileSkins
    <3>1. SkinRows \in SUBSET Pkgs /\ x \notin SkinRows BY <1>1, <1>5 DEF SkinRows, On
    <3>2. patch' = SyncSkinPatch(patch, SkinRows) BY <2>1 DEF CompileSkins
    <3> QED BY <1>5, <3>1, <3>2, SyncSkinKeeps
  <2>2. CASE ~CompileSkins
    <3>1. patch'.skin = patch.skin BY <2>2, BlockFrame
    <3>2. cut' = cut BY <1>2, <2>2 DEF SetRow, SetMetadata, Reconcile, history
    <3> QED BY <1>1, <3>1, <3>2
  <2> QED BY <2>1, <2>2
<1>7. Has(T, "land") \/ InsertedRows(x) \subseteq Disables(patch) \cup RowsLeft BY <1>1, <1>4
<1>8. Now.op # "rowOff" => RowsLeft = rest BY <1>4 DEF RowsLeft
<1> HIDE DEF T, rest
<1>9. CASE Now.op = "rowOff" /\ SetRow
  <2>1. Has(job.todo, "rowOff") BY <1>9, TailHas
  <2>2. RowsLeft = job.rows BY <2>1 DEF RowsLeft
  <2>3. CASE job.rows = {} /\ Advance /\ patch' = patch
    <3>1. Has(T, "land") \/ InsertedRows(x) \subseteq Disables(patch') \cup rest BY <1>7, <2>2, <2>3
    <3> QED BY <1>1, <1>3, <1>6, <2>3, <3>1 DEF T, rest
  <2>4. CASE \E i \in job.rows : patch' = DisableRows(patch, {i}) /\ job' = [job EXCEPT !.rows = @ \ {i}]
    BY <1>1, <1>3, <1>6, <1>9, <2>4
  <2> QED BY <1>9, <2>3, <2>4 DEF SetRow
<1>10. CASE Now.op = "syncSkin" /\ CompileSkins
  <2>1. SkinRows \in SUBSET Pkgs BY <1>5 DEF SkinRows, On
  <2>2. patch' = SyncSkinPatch(patch, SkinRows) BY <1>10 DEF CompileSkins
  <2>3. patch'.rows = patch.rows BY <1>5, <2>1, <2>2, SyncSkinKeeps
  <2>4. Disables(patch') = Disables(patch) BY <2>3 DEF Disables
  <2>5. Has(T, "land") \/ InsertedRows(x) \subseteq Disables(patch') \cup rest BY <1>7, <1>8, <1>10, <2>4
  <2>6. Advance BY <1>10 DEF CompileSkins
  <2> QED BY <1>1, <1>3, <1>6, <2>5, <2>6 DEF T, rest
<1>11. CASE \/ Now.op = "meta" /\ SetMetadata
            \/ Now.op = "reconcile" /\ Reconcile
  <2>1. Disables(patch) \subseteq Disables(patch')
    <3>1. CASE SetMetadata BY <3>1 DEF SetMetadata
    <3>2. CASE Reconcile
      <4>1. PICK missed : patch' = Quarantine(patch, missed) BY <3>2 DEF Reconcile
      <4> QED BY <1>5, <4>1, QuarantineKeeps
    <3> QED BY <1>11, <3>1, <3>2
  <2>2. Has(T, "land") \/ InsertedRows(x) \subseteq Disables(patch') \cup rest BY <1>7, <1>8, <1>11, <2>1
  <2>3. Advance BY <1>11 DEF SetMetadata, Reconcile
  <2> QED BY <1>1, <1>3, <1>6, <2>2, <2>3 DEF T, rest
<1> QED BY <1>2, <1>9, <1>10, <1>11

\* A step of an install that changes the package has the landing still before it.
LEMMA PreLandStep ==
    ASSUME TypeInv, ~Idle, [Next]_vars, ~Outside, ~Crash, LandsLate(job.todo), job.kind = "plugin",
           job.item \in Pkgs, Now.op \in PreOps, Kept
    PROVE  /\ LandsLate(job'.todo) /\ Has(job'.todo, "land")
           /\ skins' = skins /\ patch' = patch /\ cut' = cut
<1> DEFINE T == Tail(job.todo)
           C == Course("plugin", job.item)
<1>1. LandsLate(T) /\ Has(T, "land") BY TailLands
<1>2. \/ Now.op = "resolve" /\ ResolveTarget
      \/ Now.op = "add" /\ AddPackage
      \/ Now.op = "gate" /\ LoadGate
      \/ Now.op = "dshRemove" /\ RemovePackage
      \/ Now.op = "pruneNm" /\ PrunePackage
      \/ Now.op = "dropRoot" /\ RemoveRoot
  BY Dispatch DEF PreOps, StepFails, Fallible
<1>3. skins' = skins /\ patch' = patch /\ cut' = cut
  BY <1>2 DEF ResolveTarget, AddPackage, LoadGate, RemovePackage, PrunePackage, RemoveRoot, manifest, history
<1>4. ~Idle' BY DEF Kept, Idle
<1>5. ~Fail("failed")
  <2>1. Fail("failed") => Ended("failed") BY FailEnds DEF NoNext
  <2> QED BY <1>4, <2>1 DEF Ended, Idle, NoJob
<1>6. Advance => job'.todo = T BY <1>4, AdvanceForward
<1>7. T \in Seq(C) /\ job \in Job BY HeadOp
<1>8. It = job.item BY HeadOp DEF Course, It
<1>9. ASSUME NEW s \in Seq(C), ~Has(s, "land"), Instead(s \o T)
      PROVE  LandsLate(job'.todo) /\ Has(job'.todo, "land")
  <2> DEFINE u == s \o T
  <2>1. LandsLate(u) /\ Has(u, "land")
    <3> HIDE DEF C, T
    <3> QED BY <1>1, <1>7, <1>9, ConcatLands
  <2>2. Instead(u) BY <1>9
  <2> HIDE DEF u
  <2>3. job' = NoJob \/ job' = [job EXCEPT !.todo = u] BY <1>7, <2>2, InsteadMoves DEF Ended
  <2>4. job'.todo = u BY <1>4, <1>7, <2>3 DEF Idle, NoJob, Job
  <2> QED BY <2>1, <2>4
<1>10. \A a \in {"add", "gate", "resolve", "pruneNm", "fail"} : Op(a, It) \in C
  BY <1>8 DEF Course, TypedOps, OpSet, Ops, SkillOps, McpOps, PkgOps, PluginCourse, Targets, Items
<1>11. OpAt("dshRemove", It, "try") \in C /\ OpAt("add", It, "dir") \in C
  BY <1>8 DEF Course, TypedOps, OpSet, Ops, SkillOps, McpOps, PkgOps, PluginCourse, Targets, Items
<1>12. CASE Now.op = "add" /\ AddPackage
  <2> DEFINE g == <<Op("gate", It)>>
             r == Append(Fetched(It, "dir"), OpAt("add", It, "dir"))
  <2>1. PICK gate \in {g, <<>>} : Instead(gate \o T) \/ Instead(r \o T)
    BY <1>5, <1>12 DEF AddPackage
  <2>2. g \in Seq(C) /\ ~Has(g, "land")
    <3> HIDE DEF C
    <3> QED BY <1>10 DEF Has
  <2>3. <<>> \in Seq(C) /\ ~Has(<<>>, "land") BY DEF Has
  <2>4. r \in Seq(C) /\ ~Has(r, "land")
    <3> DEFINE f == <<Op("resolve", It)>>
               a == OpAt("add", It, "dir")
    <3>1. f \in Seq(C) /\ Len(f) = 1 /\ f[1].op = "resolve"
      <4> HIDE DEF C
      <4> QED BY <1>10
    <3>2. a \in C /\ a.op = "add" /\ r = Append(f, a) BY <1>11 DEF Fetched
    <3> HIDE DEF C, f, a, r
    <3>3. r \in Seq(C) /\ Len(r) = Len(f) + 1 /\ r[Len(f) + 1] = a /\ \A i \in 1..Len(f) : r[i] = f[i]
      <4>1. f \in Seq(C) /\ a \in C BY <3>1, <3>2
      <4>2. /\ Append(f, a) \in Seq(C) /\ Len(Append(f, a)) = Len(f) + 1 /\ Append(f, a)[Len(f) + 1] = a
            /\ \A i \in 1..Len(f) : Append(f, a)[i] = f[i]
        BY <4>1, AppendProperties
      <4> QED BY <3>2, <4>2
    <3>4. DOMAIN r = 1..2 /\ r[1] = f[1] /\ r[2] = a
      <4>1. DOMAIN r = 1..Len(r) BY <3>3, LenProperties
      <4> QED BY <3>1, <3>3, <4>1
    <3>5. \A i \in 1..2 : i = 1 \/ i = 2 OBVIOUS
    <3>6. r[1].op = "resolve" /\ r[2].op = "add" BY <3>1, <3>2, <3>4
    <3> QED BY <3>3, <3>4, <3>5, <3>6 DEF Has
  <2> HIDE DEF C, T, g, r
  <2> QED BY <1>3, <1>9, <2>1, <2>2, <2>3, <2>4
<1>13. CASE Now.op = "gate" /\ LoadGate
  <2> DEFINE s == <<OpAt("dshRemove", It, "try"), Op("pruneNm", It), Op("fail", It)>>
  <2>1. Advance \/ Instead(s \o T) BY <1>13 DEF LoadGate
  <2>2. s \in Seq(C) /\ ~Has(s, "land")
    <3> HIDE DEF C
    <3> QED BY <1>10, <1>11 DEF Has
  <2> HIDE DEF C, T, s
  <2> QED BY <1>1, <1>3, <1>6, <1>9, <2>1, <2>2
<1>14. CASE \/ Now.op = "resolve" /\ ResolveTarget
            \/ Now.op = "dshRemove" /\ RemovePackage
            \/ Now.op = "pruneNm" /\ PrunePackage
            \/ Now.op = "dropRoot" /\ RemoveRoot
  <2>1. Advance BY <1>5, <1>14 DEF ResolveTarget, RemovePackage, PrunePackage, RemoveRoot
  <2> HIDE DEF T
  <2> QED BY <1>1, <1>3, <1>6, <2>1
<1> QED BY <1>2, <1>12, <1>13, <1>14

LEMMA PluginStep == TypeInv /\ SkinInv /\ PluginInv /\ [Next]_vars => PluginInv'
<1> SUFFICES ASSUME TypeInv, SkinInv, PluginInv, [Next]_vars, job'.kind = "plugin" PROVE PluginInv'
  BY DEF PluginInv
<1> DEFINE x == job.item
           T == Tail(job.todo)
<1>0. ~Idle' /\ TypeOK /\ job \in Job /\ patch \in Patch /\ skins \in [Pkgs -> OnOff]
  BY DEF Idle, TypeInv, TypeOK
<1>1. CASE Start
  <2>1. PICK p \in Pkgs : \E at \in {"dir", "name"} : InstallPlugin(p, at) BY <1>1, StartKinds
  <2>2. /\ job'.item = p /\ job'.had = Recorded /\ LandsLate(job'.todo) /\ Has(job'.todo, "land")
    BY <2>1, InstallPluginShape
  <2>3. skins' = skins /\ patch' = patch /\ cut' = cut /\ Idle BY <1>1, StartFrame DEF manifest, history
  <2>4. ~SyncingSkin BY <2>3 DEF SyncingSkin, TypeInv, JobOK, NoJob
  <2>5. p \notin Recorded => skins[p] = "absent" BY DEF Recorded
  <2>6. p \notin Recorded => skins'[p] # "on" /\ (p \in patch'.skin => p \in cut')
    BY <2>3, <2>4, <2>5 DEF SkinInv
  <2> QED BY <2>2, <2>6 DEF PluginInv
<1>2. CASE Outside /\ ~Idle
  <2>1. UNCHANGED <<job, skins, nm, patch, cut>> BY <1>2, OutsideABusyJob
  <2>2. InsertedRows(job.item)' = InsertedRows(job.item) BY <2>1 DEF InsertedRows, parse_inserted_ids
  <2> QED BY <2>1, <2>2 DEF PluginInv, RowsLeft
<1>3. CASE Outside /\ Idle
  <2>1. job' = job BY <1>3, OutsideFrame
  <2> QED BY <1>0, <1>3, <2>1 DEF Idle
<1>4. CASE ~Idle /\ ~Outside
  <2>1. Kept BY <1>0, <1>4, JobMoves DEF Moves, Ended, Idle, NoJob
  <2>2. job.kind = "plugin" /\ job'.item = x /\ job'.had = job.had BY <2>1 DEF Kept
  <2>3. Now \in Course("plugin", x) /\ Now.op \in PluginCourse /\ It = x BY <1>4, <2>2, HeadOp DEF Course, It
  <2>4. /\ x \in Pkgs /\ LandsLate(job.todo)
        /\ x \notin job.had =>
              /\ skins[x] # "on"
              /\ x \in patch.skin => x \in cut
              /\ Has(job.todo, "land") \/ InsertedRows(x) \subseteq Disables(patch) \cup RowsLeft
    BY <2>2 DEF PluginInv
  <2>5. ~Crash /\ ~Fail("failed")
    <3>1. ~Crash BY <1>0 DEF Crash, Idle, NoJob
    <3>2. Fail("failed") => Ended("failed") BY <1>4, <2>2, FailEnds DEF NoNext
    <3> QED BY <1>0, <3>1, <3>2 DEF Ended, Idle, NoJob
  <2>6. /\ LandsLate(T) /\ \A o : Has(T, o) => Has(job.todo, o)
        /\ \A o : Has(job.todo, o) => Now.op = o \/ Has(T, o)
        /\ Now.op = "land" => \A o \in PreOps : ~Has(T, o)
    BY <1>4, <2>4, TailHas, TailLands
  <2>7. CASE Now.op \in PreOps
    <3>1. LandsLate(job'.todo) /\ Has(job'.todo, "land") /\ skins' = skins /\ patch' = patch /\ cut' = cut
      BY <1>4, <2>1, <2>2, <2>4, <2>5, <2>7, PreLandStep
    <3> HIDE DEF T
    <3> QED BY <2>2, <2>4, <3>1 DEF PluginInv
  <2>8. CASE Now.op = "land"
    <3>1. LandDisabled BY <1>4, <2>5, <2>8, Dispatch DEF StepFails
    <3> DEFINE C == Course("plugin", x)
               off == <<Op("rowOff", It)>>
               sync == <<Op("syncSkin", It)>>
               rows == InsertedRows(It)
    <3>2. PICK s \in {off, sync, <<>>} :
             /\ job' = [job EXCEPT !.rows = rows, !.todo = s \o Tail(@)]
             /\ SkinHasBundle(It) => s = off
      <4> HIDE DEF off, sync
      <4>2. CASE SkinHasBundle(It) BY <3>1, <4>2 DEF LandDisabled, off, sync
      <4>3. CASE ~SkinHasBundle(It) /\ (It \in Themes /\ Now.at # "raw")
        BY <3>1, <4>3 DEF LandDisabled, off, sync
      <4>4. CASE ~SkinHasBundle(It) /\ ~(It \in Themes /\ Now.at # "raw")
        BY <3>1, <4>4 DEF LandDisabled, off, sync
      <4> QED BY <4>2, <4>3, <4>4
    <3>3. job'.rows = rows /\ job'.todo = s \o T
      <4> DEFINE u == s \o T
      <4>1. job' = [job EXCEPT !.rows = rows, !.todo = u] BY <3>2
      <4> HIDE DEF u, rows
      <4> QED BY <1>0, <4>1 DEF Job, u
    <3>4. /\ off \in Seq(C) /\ sync \in Seq(C) /\ <<>> \in Seq(C) /\ T \in Seq(C)
          /\ Has(off, "rowOff")
          /\ \A o \in PreOps : ~Has(off, o) /\ ~Has(sync, o) /\ ~Has(<<>>, o)
      <4>1. Op("rowOff", It) \in C /\ Op("syncSkin", It) \in C
        BY <2>3, <2>4 DEF Course, TypedOps, OpSet, Ops, SkillOps, McpOps, PkgOps, PluginCourse, Targets, Items
      <4>2. T \in Seq(C) BY <1>4, <2>2, HeadOp
      <4>3. \A o \in PreOps : o # "rowOff" /\ o # "syncSkin" BY DEF PreOps
      <4> HIDE DEF C
      <4>4. Has(off, "rowOff") BY DEF Has
      <4>5. \A o \in PreOps : ~Has(off, o) /\ ~Has(sync, o) /\ ~Has(<<>>, o) BY <4>3 DEF Has
      <4> QED BY <4>1, <4>2, <4>4, <4>5
    <3> HIDE DEF C, off, sync
    <3>5. \A o : Has(s \o T, o) <=> Has(s, o) \/ Has(T, o)
      <4>1. s \in Seq(C) /\ T \in Seq(C) BY <3>2, <3>4
      <4> HIDE DEF T
      <4> QED BY <4>1, ConcatHas
    <3>6. \A o \in PreOps : ~Has(job'.todo, o) BY <2>6, <2>8, <3>2, <3>3, <3>4, <3>5
    <3>7. LandsLate(job'.todo) BY <3>6 DEF LandsLate, Has
    <3>8. skins'[x] # "on" \/ x \in job.had BY <1>0, <2>3, <2>4, <3>1 DEF LandDisabled
    <3>9. patch' = patch /\ cut' = cut /\ nm' = nm BY <3>1 DEF LandDisabled, trees, history
    <3>10. InsertedRows(x)' = rows
      <4>1. \A p : InsertedRows(p)' = InsertedRows(p) BY <3>9, InsertedStays
      <4> QED BY <2>2, <2>3, <4>1, <3>9 DEF InsertedRows, parse_inserted_ids
    <3>11. rows \subseteq RowsLeft'
      <4>1. CASE SkinHasBundle(It)
        <5>1. Has(job'.todo, "rowOff") BY <3>2, <3>3, <3>4, <3>5, <4>1
        <5> QED BY <3>3, <5>1 DEF RowsLeft
      <4>2. CASE ~SkinHasBundle(It) BY <4>2 DEF SkinHasBundle, InsertedRows
      <4> QED BY <4>1, <4>2
    <3> HIDE DEF T, rows
    <3>12. InsertedRows(job.item)' \subseteq RowsLeft' BY <2>2, <3>9, <3>10, <3>11 DEF InsertedRows, parse_inserted_ids
    <3> QED BY <2>2, <2>4, <3>7, <3>8, <3>9, <3>12 DEF PluginInv
  <2>9. CASE Now.op \in {"rowOff", "syncSkin", "meta", "reconcile"}
    <3>0. ASSUME x \notin job.had
          PROVE  /\ skins' = skins /\ nm' = nm /\ skins[x] # "on" /\ (x \in patch'.skin => x \in cut')
                 /\ \/ /\ Advance
                       /\ \/ Has(T, "land")
                          \/ InsertedRows(x) \subseteq Disables(patch') \cup IF Has(T, "rowOff") THEN job.rows ELSE {}
                    \/ \E i \in job.rows : /\ patch' = DisableRows(patch, {i})
                                           /\ job' = [job EXCEPT !.rows = @ \ {i}]
                                           /\ Now.op = "rowOff"
      BY <1>4, <2>2, <2>5, <2>9, <3>0, LandEffect
    <3>1. CASE Advance
      <4>1. job' = [job EXCEPT !.todo = T] BY <1>0, <1>4, <3>1, AdvanceForward
      <4>2. job'.todo = T /\ job'.rows = job.rows
        <5> HIDE DEF T
        <5> QED BY <1>0, <4>1 DEF Job
      <4>3. ASSUME x \notin job.had,
                   Has(T, "land") \/ InsertedRows(x) \subseteq Disables(patch') \cup IF Has(T, "rowOff") THEN job.rows ELSE {}
            PROVE  Has(job'.todo, "land") \/ InsertedRows(job.item)' \subseteq Disables(patch') \cup RowsLeft'
        <5>1. InsertedRows(job.item)' = InsertedRows(x)
          BY <2>2, <3>0, <4>3 DEF InsertedRows, parse_inserted_ids
        <5> HIDE DEF T
        <5> QED BY <4>2, <4>3, <5>1 DEF RowsLeft
      <4>4. \A i \in job.rows : job' # [job EXCEPT !.rows = @ \ {i}]
        <5> SUFFICES ASSUME NEW i \in job.rows, job' = [job EXCEPT !.rows = @ \ {i}] PROVE FALSE OBVIOUS
        <5>1. job'.rows = job.rows \ {i} BY <1>0 DEF Job
        <5> QED BY <4>2, <5>1
      <4> HIDE DEF T
      <4> QED BY <2>2, <2>4, <2>6, <3>0, <4>2, <4>3, <4>4 DEF PluginInv
    <3>2. CASE ~Advance
      <4>1. CASE x \in job.had
        <5>1. \E i \in job.rows : job' = [job EXCEPT !.rows = @ \ {i}]
          BY <1>4, <2>5, <2>9, <3>2, Dispatch DEF SetRow, CompileSkins, SetMetadata, Reconcile, StepFails
        <5>2. job'.todo = job.todo BY <1>0, <5>1 DEF Job
        <5> QED BY <2>2, <2>4, <4>1, <5>2 DEF PluginInv
      <4>2. CASE x \notin job.had
        <5>1. PICK i \in job.rows : /\ patch' = DisableRows(patch, {i})
                                    /\ job' = [job EXCEPT !.rows = @ \ {i}]
                                    /\ Now.op = "rowOff"
          BY <3>0, <3>2, <4>2
        <5>2. job'.todo = job.todo /\ job'.rows = job.rows \ {i} BY <1>0, <5>1 DEF Job
        <5>3. {i} \in SUBSET Ids BY <1>0 DEF Job
        <5>4. Disables(patch') = Disables(patch) \cup {i} BY <1>0, <5>1, <5>3, DisableRowsKeeps
        <5>5. Has(job.todo, "rowOff") BY <1>4, <5>1, TailHas
        <5>6. RowsLeft = job.rows /\ RowsLeft' = job.rows \ {i} BY <5>2, <5>5 DEF RowsLeft
        <5>7. InsertedRows(job.item)' = InsertedRows(x) BY <2>2, <3>0, <4>2 DEF InsertedRows, parse_inserted_ids
        <5>8. Has(job'.todo, "land") \/ InsertedRows(job.item)' \subseteq Disables(patch') \cup RowsLeft'
          BY <2>4, <4>2, <5>2, <5>4, <5>6, <5>7
        <5> QED BY <2>2, <2>4, <3>0, <4>2, <5>2, <5>8 DEF PluginInv
      <4> QED BY <4>1, <4>2
    <3> QED BY <3>1, <3>2
  <2>10. CASE Now.op = "fail"
    <3>1. Fail("failed") BY <1>4, <2>2, <2>5, <2>10, Dispatch DEF Conclusion, At, StepFails, Fallible
    <3> QED BY <2>5, <3>1
  <2> QED BY <2>3, <2>7, <2>8, <2>9, <2>10 DEF PluginCourse, PreOps
<1> QED BY <1>1, <1>2, <1>3, <1>4, IdleStep

\* The end of the command, and what may happen before the next one.
LEMMA LandsOffStep == TypeInv /\ PluginInv /\ InstallLandsOff /\ [Next]_vars => InstallLandsOff'
<1> SUFFICES ASSUME TypeInv, PluginInv, InstallLandsOff, [Next]_vars,
                    NEW x, x = last'.item, last'.res = "ok", last'.kind = "plugin", x \notin last'.had
             PROVE  Mounted(x)' = {} /\ (x \in patch'.skin => x \in cut')
  BY DEF InstallLandsOff, Mounted, InsertedRows, parse_inserted_ids
<1>0. TypeOK /\ patch \in Patch /\ job \in Job BY DEF TypeInv, TypeOK
<1>1. CASE Idle
  <2>1. Outside
    <3>1. Start => last' = NoEnd BY StartFrame
    <3> QED BY <1>1, <3>1, IdleStep DEF NoEnd
  <2>2. last' = last /\ nm' = nm /\ deps' = deps /\ cut' = cut BY <2>1, OutsideFrame DEF trees, history
  <2>3. Mounted(x) = {} /\ (x \in patch.skin => x \in cut) BY <2>2 DEF InstallLandsOff
  <2>4. patch'.skin = patch.skin BY <1>1, BlockFrame DEF CompileSkins, At
  <2>5. InsertedRows(x)' = InsertedRows(x) BY <2>2 DEF InsertedRows, parse_inserted_ids
  <2>6. ASSUME x \in deps PROVE InsertedRows(x) \subseteq Disables(patch')
    <3>1. InsertedRows(x) \subseteq Disables(patch) BY <2>3, <2>6 DEF Mounted
    <3>2. CASE profile_diagnostics
      <4>1. patch' = RemoveRowBlocks(patch, Orphans) BY <3>2 DEF profile_diagnostics
      <4>2. Disables(patch') = Disables(patch) \ Orphans BY <1>0, <4>1, RemoveRowsKeeps
      <4>3. InsertedRows(x) \cap Orphans = {} BY <2>6 DEF Orphans, KnownRows
      <4> QED BY <3>1, <4>2, <4>3
    <3>3. CASE Launch
      <4>1. PICK missed : patch' = Quarantine(patch, missed) BY <3>3 DEF Launch
      <4> QED BY <1>0, <3>1, <4>1, QuarantineKeeps
    <3>4. CASE ~profile_diagnostics /\ ~Launch
      <4>1. patch' = patch BY <2>1, <3>4 DEF Outside, Stop, AuthorPublishes, vars
      <4> QED BY <3>1, <4>1
    <3> QED BY <3>2, <3>3, <3>4
  <2>7. Mounted(x)' = {} BY <2>2, <2>5, <2>6 DEF Mounted
  <2> QED BY <2>2, <2>3, <2>4, <2>7
<1>2. CASE ~Idle
  <2>1. last = NoEnd /\ ~Outside
    <3>1. last = NoEnd BY <1>2 DEF TypeInv, JobOK
    <3>2. Outside => last' = last BY OutsideFrame
    <3> QED BY <3>1, <3>2 DEF NoEnd
  <2>2. Ended("ok") /\ (Now.op = "fetchSkill" \/ Len(job.todo) = 1) /\ ~Crash
    <3>1. Moves /\ last'.res = "ok" BY <1>2, JobMoves
    <3>2. ~Crash BY <3>1 DEF Crash, NoEnd
    <3>3. ~Kept BY <2>1, <3>1 DEF Kept, NoEnd
    <3>4. \A r \in {"failed", "rolledBack"} : ~Ended(r) BY <3>1 DEF Ended
    <3> QED BY <3>1, <3>2, <3>3, <3>4 DEF Moves
  <2>3. job.kind = "plugin" /\ job.item = x /\ x \notin job.had /\ ~Kept
    BY <1>2, <2>2 DEF Ended, Kept, Idle, NoJob
  <2>0. ~Fail("failed")
    <3>1. Fail("failed") => Ended("failed") BY <1>2, <2>3, FailEnds DEF NoNext
    <3> QED BY <2>2, <3>1 DEF Ended
  <2>4. Now.op \in PluginCourse /\ Len(job.todo) = 1
    BY <1>2, <2>2, <2>3, HeadOp DEF Course, PluginCourse
  <2>5. \A o : ~Has(Tail(job.todo), o) BY <1>2, <2>4, TailElements DEF Has
  <2>6. Now.op \notin PreOps BY <1>2, <2>3, <2>5, TailLands DEF PluginInv
  <2>7. Now.op # "land" BY <1>2, <2>4, HeadOp DEF FollowedBy
  <2>8. Now.op # "fail"
    <3> SUFFICES ASSUME Now.op = "fail" PROVE FALSE OBVIOUS
    <3>1. Fail("failed") BY <1>2, <2>1, <2>2, <2>3, Dispatch DEF Conclusion, At, StepFails, Fallible
    <3> QED BY <2>0, <3>1
  <2>9. Now.op \in {"rowOff", "syncSkin", "meta", "reconcile"}
    BY <2>4, <2>6, <2>7, <2>8 DEF PluginCourse, PreOps
  <2>10. /\ skins' = skins /\ nm' = nm /\ (x \in patch'.skin => x \in cut')
         /\ InsertedRows(x) \subseteq Disables(patch')
    <3>1. \A i \in job.rows : job' # [job EXCEPT !.rows = @ \ {i}]
      <4> SUFFICES ASSUME NEW i \in job.rows, job' = [job EXCEPT !.rows = @ \ {i}] PROVE FALSE OBVIOUS
      <4>1. job'.kind = "plugin" BY <1>0, <2>3 DEF Job
      <4> QED BY <2>2, <4>1 DEF Ended, NoJob
    <3> QED BY <1>2, <2>0, <2>1, <2>2, <2>3, <2>5, <2>9, <3>1, LandEffect
  <2>11. InsertedRows(x)' = InsertedRows(x) BY <2>10 DEF InsertedRows, parse_inserted_ids
  <2>12. Mounted(x)' = {} BY <2>10, <2>11 DEF Mounted
  <2> QED BY <2>10, <2>12
<1> QED BY <1>1, <1>2

\* A first install that succeeded leaves the package installed but not enabled: none of its
\* loader rows is live and no row inserts it (land_install_disabled), also after launches
\* and repairs of the patch, unless a removal that failed or was cut off left its row behind.
THEOREM InstallsLandOff == Spec => []InstallLandsOff
<1>1. Init => SkinInv /\ PluginInv /\ InstallLandsOff
  <2> SUFFICES ASSUME Init PROVE SkinInv /\ PluginInv /\ InstallLandsOff OBVIOUS
  <2>1. patch.skin = {} BY DEF Init
  <2> QED BY <2>1 DEF Init, SkinInv, PluginInv, InstallLandsOff, NoJob, NoEnd
<1> QED BY <1>1, InitOK, NextOK, SkinStep, PluginStep, LandsOffStep, PTL DEF Spec

-----------------------------------------------------------------------------
\* Skill directories.  The writes to one stand at the head of the list and nowhere else,
\* so what FetchSkill fetched is still what they write.
InPlace(t) ==
    \A i \in DOMAIN t : /\ t[i].op = "rename" => i = 1
                        /\ t[i].op \in {"files", "prune"} => i = 1 \/ (i = 2 /\ t[1].op = "rename")

LEMMA PlainInPlace == \A t : Plain(t) => InPlace(t)
BY DEF Plain, InPlace, MiddleOps

LEMMA PlainConcat ==
    ASSUME NEW S, NEW s \in Seq(S), NEW t \in Seq(S), Plain(s), Plain(t)
    PROVE  Plain(s \o t)
<1> DEFINE u == s \o t
<1>1. /\ DOMAIN s = 1..Len(s) /\ DOMAIN t = 1..Len(t) /\ Len(s) \in Nat /\ Len(t) \in Nat
      /\ DOMAIN u = 1..(Len(s) + Len(t))
      /\ \A i \in 1..(Len(s) + Len(t)) : u[i] = IF i <= Len(s) THEN s[i] ELSE t[i - Len(s)]
  BY ConcatProperties, LenProperties
<1> HIDE DEF u
<1>2. ASSUME NEW i \in DOMAIN u PROVE u[i].op \notin MiddleOps
  <2>1. CASE i <= Len(s)
    <3>1. i \in DOMAIN s /\ u[i] = s[i] BY <1>1, <1>2, <2>1
    <3> QED BY <3>1 DEF Plain
  <2>2. CASE i > Len(s)
    <3>1. i - Len(s) \in DOMAIN t /\ u[i] = t[i - Len(s)] BY <1>1, <1>2, <2>2
    <3> QED BY <3>1 DEF Plain
  <2> QED BY <1>1, <1>2, <2>1, <2>2
<1> QED BY <1>2 DEF Plain, u

LEMMA PlainAppend ==
    ASSUME NEW S, NEW t \in Seq(S), NEW o \in S, Plain(t), o.op \notin MiddleOps
    PROVE  Plain(Append(t, o)) /\ Append(t, o) \in Seq(S)
<1> DEFINE u == Append(t, o)
<1>1. /\ u \in Seq(S) /\ Len(t) \in Nat /\ DOMAIN t = 1..Len(t) /\ DOMAIN u = 1..(Len(t) + 1) /\ u[Len(t) + 1] = o
      /\ \A i \in 1..Len(t) : u[i] = t[i]
  BY AppendProperties, LenProperties
<1> HIDE DEF u
<1>2. ASSUME NEW i \in DOMAIN u PROVE u[i].op \notin MiddleOps
  <2>1. i \in DOMAIN t \/ i = Len(t) + 1 BY <1>1, <1>2
  <2> QED BY <1>1, <2>1 DEF Plain
<1> QED BY <1>1, <1>2 DEF Plain, u

LEMMA PlainTail ==
    ASSUME TypeInv, ~Idle, InPlace(job.todo)
    PROVE  /\ InPlace(Tail(job.todo))
           /\ Now.op # "rename" => Plain(Tail(job.todo))
           /\ Now.op \notin MiddleOps => Plain(job.todo)
<1> DEFINE T == Tail(job.todo)
           n == Len(job.todo)
<1>1. /\ n \in Nat \ {0} /\ DOMAIN job.todo = 1..n /\ DOMAIN T = 1..(n - 1) /\ Now = job.todo[1]
      /\ \A i \in 1..(n - 1) : T[i] = job.todo[i + 1]
  BY TailElements, HeadOp
<1> HIDE DEF T, n
<1>2. ASSUME NEW i \in DOMAIN T
      PROVE  /\ T[i].op # "rename"
             /\ T[i].op \in {"files", "prune"} => i = 1 /\ Now.op = "rename"
  <2>1. i \in 1..(n - 1) /\ i + 1 \in 1..n /\ T[i] = job.todo[i + 1] BY <1>1, <1>2
  <2>2. /\ job.todo[i + 1].op = "rename" => i + 1 = 1
        /\ job.todo[i + 1].op \in {"files", "prune"} => i + 1 = 1 \/ (i + 1 = 2 /\ job.todo[1].op = "rename")
    BY <1>1, <2>1 DEF InPlace
  <2> QED BY <1>1, <2>1, <2>2
<1>3. InPlace(T) BY <1>2 DEF InPlace
<1>4. Now.op # "rename" => Plain(T) BY <1>2 DEF Plain, MiddleOps
<1>5. Now.op \notin MiddleOps => Plain(job.todo)
  <2> SUFFICES ASSUME Now.op \notin MiddleOps, NEW i \in DOMAIN job.todo PROVE job.todo[i].op \notin MiddleOps
    BY DEF Plain
  <2>1. CASE i = 1 BY <1>1, <2>1
  <2>2. CASE i # 1
    <3>1. i - 1 \in DOMAIN T /\ T[i - 1] = job.todo[i] BY <1>1, <2>2
    <3> QED BY <1>4, <3>1 DEF Plain, MiddleOps
  <2> QED BY <2>1, <2>2
<1> QED BY <1>3, <1>4, <1>5 DEF T

\* What follows the end of a failed item of a bundle.
LEMMA PlainFail ==
    ASSUME TypeInv, ~Idle, InPlace(job.todo), NEW r, Fail(r), ~Idle'
    PROVE  Plain(job'.todo)
<1>1. ~Finish(job, r) BY DEF Finish, Idle, NoJob
<1>2. PICK i \in DOMAIN job.todo :
         /\ NextItem(i) /\ Continue([job EXCEPT !.todo = SubSeq(@, i + 1, Len(@)), !.failed = TRUE])
  BY <1>1 DEF Fail
<1> DEFINE t == job.todo
           u == SubSeq(t, i + 1, Len(t))
           j == [job EXCEPT !.todo = u, !.failed = TRUE]
<1>3. job \in Job /\ t \in Seq(OpSet) /\ Len(t) \in Nat \ {0} /\ DOMAIN t = 1..Len(t)
  BY TailElements DEF TypeInv, TypeOK, Job
<1>4. job'.todo = u
  <2>1. Continue(j) /\ job' # NoJob BY <1>2 DEF Idle, NoJob
  <2> HIDE DEF u
  <2>2. j.kind = job.kind /\ j.item = job.item /\ j.had = job.had /\ j.todo = u BY <1>3 DEF Job
  <2> HIDE DEF j
  <2> QED BY <2>1, <2>2, ContinueMoves DEF Ended
<1>5. /\ u \in Seq(OpSet) /\ DOMAIN u = 1..(Len(t) - i)
      /\ \A k \in 1..(Len(t) - i) : u[k] = t[i + k]
  <2>0. \A k \in (i + 1)..Len(t) : t[k] \in OpSet BY <1>3, ElementOfSeq
  <2>1. /\ u \in Seq(OpSet) /\ Len(u) = IF i + 1 <= Len(t) THEN Len(t) - (i + 1) + 1 ELSE 0
        /\ \A k \in 1..(Len(t) - (i + 1) + 1) : u[k] = t[i + 1 + k - 1]
    BY <1>2, <1>3, <2>0, SubSeqProperties
  <2>2. DOMAIN u = 1..Len(u) BY <2>1, LenProperties
  <2> HIDE DEF u
  <2> QED BY <1>2, <1>3, <2>1, <2>2
<1> HIDE DEF u, t
<1>6. ASSUME NEW k \in DOMAIN u PROVE u[k].op \notin MiddleOps
  <2>1. k \in 1..(Len(t) - i) /\ i + k \in DOMAIN t /\ i + k > 1 /\ u[k] = t[i + k] /\ i \in Nat
    BY <1>2, <1>3, <1>5, <1>6 DEF t
  <2>2. CASE i = 1
    <3>1. t[1].op = "next" BY <1>2, <2>2 DEF NextItem, t
    <3> QED BY <2>1, <3>1 DEF InPlace, t, MiddleOps
  <2>3. CASE i # 1 BY <1>2, <1>3, <2>1, <2>3 DEF InPlace, t, MiddleOps
  <2> QED BY <2>2, <2>3
<1> QED BY <1>4, <1>6 DEF Plain

\* No other step puts a write of a skill directory on the list.
LEMMA PlainStep ==
    ASSUME TypeInv, ~Idle, InPlace(job.todo), [Next]_vars, ~Outside, ~Crash, ~Idle',
           Now.op \notin {"fetchSkill", "files", "rename"}
    PROVE  Plain(job'.todo)
<1> DEFINE T == Tail(job.todo)
<1>1. Plain(T) /\ T \in Seq(OpSet) /\ job \in Job BY PlainTail, HeadOp
<1>2. Advance => Plain(job'.todo) BY <1>1, AdvanceForward
<1>3. \A r : Fail(r) => Plain(job'.todo) BY PlainFail
<1>4. job'.todo = job.todo => Plain(job'.todo) \/ Now.op = "prune" BY PlainTail DEF MiddleOps
<1>5. ASSUME NEW u, Plain(u), Instead(u) PROVE Plain(job'.todo)
  <2>1. job' = NoJob \/ job' = [job EXCEPT !.todo = u] BY <1>1, <1>5, InsteadMoves DEF Ended
  <2>2. job'.todo = u BY <1>1, <2>1 DEF Idle, NoJob, Job
  <2> QED BY <1>5, <2>2
<1>6. ASSUME NEW s \in Seq(OpSet), Plain(s) PROVE Plain(s \o T)
  <2> HIDE DEF T
  <2> QED BY <1>1, <1>6, PlainConcat
<1>7. \A n \in {"clone", "build", "gate", "resolve", "add", "dshRemove", "pruneNm", "fail", "rowOff", "syncSkin"} :
         \A a \in Targets : OpAt(n, It, a) \in OpSet
  <2>1. It \in Items BY HeadItem
  <2> QED BY <2>1 DEF OpSet, Ops
<1>8. ASSUME NEW n \in {"gate", "rowOff", "syncSkin"} PROVE Plain(<<Op(n, It)>>) /\ <<Op(n, It)>> \in Seq(OpSet)
  <2> DEFINE o == Op(n, It)
  <2> SUFFICES Plain(<<o>>) /\ <<o>> \in Seq(OpSet) OBVIOUS
  <2>1. o \in OpSet /\ o.op \notin MiddleOps BY <1>7 DEF Targets, MiddleOps
  <2> HIDE DEF o
  <2> QED BY <2>1 DEF Plain
<1>9. Plain(<<>>) /\ <<>> \in Seq(OpSet) BY DEF Plain
<1>10. CASE FetchMcp
  <2> DEFINE c == Op("clone", It)
             b == Op("build", It)
  <2>1. c \in OpSet /\ b \in OpSet /\ c.op \notin MiddleOps /\ b.op \notin MiddleOps BY <1>7 DEF Targets, MiddleOps
  <2>2. <<c, b>> \in Seq(OpSet) /\ Plain(<<c, b>>)
    <3> HIDE DEF c, b
    <3> QED BY <2>1 DEF Plain
  <2>3. Plain(<<c, b>> \o T)
    <3> HIDE DEF c, b, T
    <3> QED BY <1>6, <2>2
  <2>4. CASE Fail("failed") BY <1>3, <2>4
  <2>5. ASSUME NEW cls, NEW t \in {T, <<c, b>> \o T}, Continue([job EXCEPT !.cls = cls, !.todo = t])
        PROVE  Plain(job'.todo)
    <3> DEFINE j == [job EXCEPT !.cls = cls, !.todo = t]
    <3>1. j.kind = job.kind /\ j.item = job.item /\ j.had = job.had /\ j.todo = t BY <1>1 DEF Job
    <3>2. Continue(j) /\ job' # NoJob BY <2>5 DEF Idle, NoJob
    <3> HIDE DEF j
    <3>3. job'.todo = t BY <3>1, <3>2, ContinueMoves DEF Ended
    <3> QED BY <1>1, <2>3, <2>5, <3>3
  <2> QED BY <1>1, <1>10, <2>4, <2>5, FetchMcpMoves
<1>11. CASE Now.op \in {"record", "unrecord", "setMcp"} /\ RecordMcp
  <2>1. job'.todo = T BY <1>11, RecordMoves
  <2> QED BY <1>1, <2>1
<1>12. CASE Now.op = "probe" /\ (ProbeMcp \/ ProbeVerdict)
  <2>1. CASE ProbeMcp BY <1>4, <1>12, <2>1 DEF ProbeMcp
  <2>2. CASE ProbeVerdict
    <3>1. ASSUME GenuineFailure, Instead(Append(Discard(It), Op("fail", It))) PROVE Plain(job'.todo)
      <4>1. It \in Servers BY <1>12, HeadItem DEF McpOps
      <4>2. Append(Discard(It), Op("fail", It)) \in Seq(StartCourse("mcp", It)) BY <4>1, DiscardOK
      <4>3. Plain(Append(Discard(It), Op("fail", It))) BY <4>2, StartCourses
      <4> QED BY <1>5, <3>1, <4>3
    <3> QED BY <1>2, <1>3, <2>2, <3>1 DEF ProbeVerdict
  <2> QED BY <1>12, <2>1, <2>2
<1>13. CASE Now.op = "rmDir" /\ RemoveSkillDir BY <1>2, <1>3, <1>4, <1>13 DEF RemoveSkillDir
<1>14. CASE AddPackage
  <2> DEFINE r == Append(<<Op("resolve", It)>>, OpAt("add", It, "dir"))
  <2>1. r \in Seq(OpSet) /\ Plain(r)
    <3> DEFINE a == OpAt("add", It, "dir")
               f == <<Op("resolve", It)>>
    <3>1. Op("resolve", It) \in OpSet /\ a \in OpSet /\ a.op \notin MiddleOps BY <1>7 DEF Targets, MiddleOps
    <3>2. f \in Seq(OpSet) BY <3>1
    <3>3. Plain(f) BY DEF Plain, MiddleOps
    <3> HIDE DEF a, f
    <3> QED BY <3>1, <3>2, <3>3, PlainAppend DEF a, f
  <2>2. \/ Instead(<<Op("gate", It)>> \o T) \/ Instead(<<>> \o T) \/ Fail("failed") \/ Instead(r \o T)
    BY <1>14 DEF AddPackage, Fetched
  <2>3. Plain(<<Op("gate", It)>> \o T) /\ Plain(<<>> \o T) /\ Plain(r \o T)
    <3> HIDE DEF r, T
    <3> QED BY <1>6, <1>8, <1>9, <2>1
  <2> HIDE DEF r, T
  <2> QED BY <1>3, <1>5, <2>2, <2>3
<1>15. CASE LoadGate
  <2> DEFINE s == <<OpAt("dshRemove", It, "try"), Op("pruneNm", It), Op("fail", It)>>
  <2>1. s \in Seq(OpSet) /\ Plain(s)
    <3>1. OpAt("dshRemove", It, "try") \in OpSet /\ Op("pruneNm", It) \in OpSet /\ Op("fail", It) \in OpSet
      BY <1>7 DEF Targets
    <3>2. s \in Seq(OpSet) BY <3>1
    <3>3. Plain(s) BY DEF Plain, MiddleOps
    <3> QED BY <3>2, <3>3
  <2>2. Advance \/ Instead(s \o T) BY <1>15 DEF LoadGate
  <2>3. Plain(s \o T)
    <3> HIDE DEF s, T
    <3> QED BY <1>6, <2>1
  <2> HIDE DEF s, T
  <2> QED BY <1>2, <1>5, <2>2, <2>3
<1>16. CASE LandDisabled
  <2> DEFINE rows == InsertedRows(It)
  <2>1. PICK s \in {<<Op("rowOff", It)>>, <<Op("syncSkin", It)>>, <<>>} :
           job' = [job EXCEPT !.rows = rows, !.todo = s \o Tail(@)]
    <3>1. CASE SkinHasBundle(It) BY <1>16, <3>1 DEF LandDisabled
    <3>2. CASE ~SkinHasBundle(It) /\ (It \in Themes /\ Now.at # "raw") BY <1>16, <3>2 DEF LandDisabled
    <3>3. CASE ~SkinHasBundle(It) /\ ~(It \in Themes /\ Now.at # "raw") BY <1>16, <3>3 DEF LandDisabled
    <3> QED BY <3>1, <3>2, <3>3
  <2>2. s \in Seq(OpSet) /\ Plain(s)
    <3> HIDE DEF Op
    <3> QED BY <1>8, <1>9, <2>1
  <2> DEFINE u == s \o T
  <2>3. Plain(u)
    <3> HIDE DEF T
    <3> QED BY <1>6, <2>2
  <2>4. job' = [job EXCEPT !.rows = rows, !.todo = u] BY <2>1
  <2> HIDE DEF u, rows
  <2>5. job'.todo = u BY <1>1, <2>4 DEF Job
  <2> QED BY <2>3, <2>5
<1>17. CASE Now.op \in {"rowOff", "rowOn"} /\ SetRow
  <2>1. ASSUME NEW i \in job.rows, job' = [job EXCEPT !.rows = @ \ {i}] PROVE job'.todo = job.todo
    BY <1>1, <2>1 DEF Job
  <2> QED BY <1>2, <1>4, <1>17, <2>1 DEF SetRow
<1>18. CASE \/ PruneStale \/ RecordSkill \/ CloneMcp \/ BuildMcp \/ CompileMcp \/ RemoveMcpDir
            \/ ResolveTarget \/ RemovePackage \/ RemoveRoot \/ PrunePackage \/ RemoveRows \/ RecordSkin
            \/ CompileSkins \/ UpdatePackage \/ SetMetadata \/ Reconcile \/ StepFails \/ Conclusion
  <2>1. \/ Advance \/ \E r : Fail(r)
    BY <1>18 DEF PruneStale, RecordSkill, CloneMcp, BuildMcp, CompileMcp, RemoveMcpDir, ResolveTarget, RemovePackage,
                 RemoveRoot, PrunePackage, RemoveRows, RecordSkin, CompileSkins, UpdatePackage, SetMetadata,
                 Reconcile, StepFails, Conclusion
  <2> QED BY <1>2, <1>3, <2>1
<1> QED BY <1>10, <1>11, <1>12, <1>13, <1>14, <1>15, <1>16, <1>17, <1>18, Dispatch

LEMMA PlainHead ==
    ASSUME NEW S, NEW t \in Seq(S), t # <<>>, Plain(t)
    PROVE  Head(t).op \notin MiddleOps /\ Plain(Tail(t)) /\ Tail(t) \in Seq(S)
<1>1. /\ Head(t) = t[1] /\ 1 \in DOMAIN t /\ Len(t) \in Nat \ {0} /\ DOMAIN t = 1..Len(t)
      /\ Tail(t) \in Seq(S) /\ Len(Tail(t)) = Len(t) - 1 /\ \A i \in 1..Len(Tail(t)) : Tail(t)[i] = t[i + 1]
      /\ DOMAIN Tail(t) = 1..Len(Tail(t))
  BY EmptySeq, HeadTailProperties, LenProperties
<1>2. ASSUME NEW i \in DOMAIN Tail(t) PROVE Tail(t)[i].op \notin MiddleOps
  <2>1. i + 1 \in DOMAIN t /\ Tail(t)[i] = t[i + 1] BY <1>1, <1>2
  <2> QED BY <2>1 DEF Plain
<1> QED BY <1>1, <1>2 DEF Plain

\* Only the first write may be one of a skill directory, and none renames a file.
OneInPlace(t) == \A i \in DOMAIN t : t[i].op \in MiddleOps => i = 1 /\ t[i].op # "rename"

LEMMA PushInPlace ==
    ASSUME NEW S, NEW t \in Seq(S), NEW o \in S
    PROVE  /\ <<o>> \o t \in Seq(S) /\ <<o>> \o t # <<>> /\ Head(<<o>> \o t) = o
           /\ Plain(t) => InPlace(<<o>> \o t)
           /\ Plain(t) /\ o.op # "rename" => OneInPlace(<<o>> \o t)
           /\ OneInPlace(t) /\ o.op = "rename" => InPlace(<<o>> \o t)
<1> DEFINE u == <<o>> \o t
<1>1. <<o>> \in Seq(S) /\ Len(<<o>>) = 1 /\ <<o>>[1] = o OBVIOUS
<1>2. /\ u \in Seq(S) /\ Len(u) = 1 + Len(t) /\ Len(t) \in Nat /\ u[1] = o
      /\ \A i \in 2..(1 + Len(t)) : u[i] = t[i - 1]
      /\ DOMAIN t = 1..Len(t)
  BY <1>1, ConcatProperties, LenProperties
<1>3. u # <<>> /\ DOMAIN u = 1..(1 + Len(t))
  <2> HIDE DEF u
  <2> QED BY <1>2, EmptySeq, LenProperties
<1>4. Head(u) = o
  <2> HIDE DEF u
  <2> QED BY <1>2, <1>3, HeadTailProperties
<1> HIDE DEF u
<1>5. ASSUME NEW i \in DOMAIN u PROVE i = 1 \/ (i - 1 \in DOMAIN t /\ u[i] = t[i - 1])
  BY <1>2, <1>3
<1>6. Plain(t) => InPlace(u) BY <1>5 DEF Plain, InPlace, MiddleOps
<1>7. Plain(t) /\ o.op # "rename" => OneInPlace(u) BY <1>2, <1>5 DEF Plain, OneInPlace
<1>8. OneInPlace(t) /\ o.op = "rename" => InPlace(u)
  <2> SUFFICES ASSUME OneInPlace(t), o.op = "rename", NEW i \in DOMAIN u
               PROVE  /\ u[i].op = "rename" => i = 1
                      /\ u[i].op \in {"files", "prune"} => i = 1 \/ (i = 2 /\ u[1].op = "rename")
    BY DEF InPlace
  <2>1. CASE i = 1 BY <2>1
  <2>2. CASE i - 1 \in DOMAIN t /\ u[i] = t[i - 1]
    <3>1. i \in Int BY <1>3
    <3>2. u[i].op \in MiddleOps => i - 1 = 1 /\ u[i].op # "rename" BY <2>2 DEF OneInPlace
    <3> QED BY <1>2, <3>1, <3>2 DEF MiddleOps
  <2> QED BY <1>5, <2>1, <2>2
<1> QED BY <1>2, <1>3, <1>4, <1>6, <1>7, <1>8 DEF u

\* What is known of a directory at each write to it: the files that have landed are of the
\* version fetched, and a first install has no SKILL.md yet.
Landed(s, files) == \A f \in files : disk[s][f] = job.ver

Fetched1 == job.ver \in Versions /\ job.bundle \in Offers(It, job.ver)
Unread == /\ It \notin rewritten => disk[It]["SKILL.md"] = 0
          /\ job.files \subseteq job.bundle

WritingAt(o) ==
    CASE o = "files" -> Fetched1 /\ Unread /\ Landed(It, job.bundle \ job.files)
      [] o = "rename" -> /\ Fetched1 /\ Unread
                         /\ Landed(It, job.bundle \ (job.files \cup {Now.at}))
                         /\ Now.at \in job.bundle \cup {"SKILL.md"}
                         /\ Now.at = "SKILL.md" => job.files = {}
      [] o = "prune" -> Fetched1 /\ Landed(It, job.bundle \cup {"SKILL.md"})
      [] OTHER -> TRUE

Writing == ~Idle => InPlace(job.todo) /\ WritingAt(Now.op)

LEMMA PlainWriting == TypeInv' /\ Plain(job'.todo) => Writing'
<1> SUFFICES ASSUME TypeInv', Plain(job'.todo), ~Idle' PROVE InPlace(job'.todo) /\ WritingAt(Now.op)'
  BY DEF Writing
<1>1. job'.todo \in Seq(OpSet) /\ job'.todo # <<>> BY DEF TypeInv, TypeOK, Job, JobOK
<1>2. Head(job'.todo).op \notin MiddleOps BY <1>1, PlainHead
<1>3. Now'.op \notin MiddleOps BY <1>2 DEF Now
<1> QED BY <1>3, PlainInPlace DEF WritingAt, MiddleOps

\* The fetch begins the writes.
LEMMA FetchWriting ==
    ASSUME TypeInv, TypeInv', ~Idle, ~Idle', Writing, FetchSkill
    PROVE  Writing'
<1> DEFINE T == Tail(job.todo)
           s == It
           o == Op("files", s)
<1>1. Now.op = "fetchSkill" /\ s \in Skills /\ InPlace(job.todo)
  BY HeadItem DEF FetchSkill, At, SkillOps, Writing
<1>2. Plain(T) /\ T \in Seq(OpSet) /\ job \in Job BY <1>1, PlainTail, HeadOp
<1>3. CASE Fail("failed") BY <1>1, <1>3, PlainFail, PlainWriting
<1>4. CASE Instead(Tail(Tail(job.todo)))
  <2> DEFINE u == Tail(Tail(job.todo))
  <2>1. T # <<>>
    <3>1. 1 < Len(job.todo) BY <1>1, HeadOp DEF FollowedBy, Then
    <3>2. T = <<>> <=> Len(job.todo) = 1 BY TailElements
    <3> QED BY <3>1, <3>2
  <2>2. Plain(u)
    <3> HIDE DEF T
    <3> QED BY <1>2, <2>1, PlainHead DEF T
  <2>3. Instead(u) BY <1>4
  <2> HIDE DEF u
  <2>4. job' = NoJob \/ job' = [job EXCEPT !.todo = u] BY <1>2, <2>3, InsteadMoves DEF Ended
  <2>5. job'.todo = u BY <1>2, <2>4 DEF Idle, NoJob, Job
  <2> QED BY <2>2, <2>5, PlainWriting
<1>5. ASSUME NEW v, v = upstream[s], NEW files \in Offers(s, v),
             job' = [job EXCEPT !.ver = v, !.bundle = files, !.files = files, !.todo = <<Op("files", s)>> \o Tail(@)],
             rewritten' = IF skill_disk_state(s) THEN rewritten \cup {s} ELSE rewritten
      PROVE  Writing'
  <2>1. v \in Versions /\ disk' = disk
    <3>1. disk' = disk BY DEF FetchSkill, trees
    <3>2. upstream \in [Skills -> Versions] BY DEF TypeInv, TypeOK
    <3> QED BY <1>1, <1>5, <3>1, <3>2
  <2> DEFINE u == <<o>> \o T
  <2>2. o \in OpSet
    <3>1. o.op = "files" /\ o.of = s /\ o.at = "-" OBVIOUS
    <3> QED BY <1>1 DEF OpSet, Ops, Items, Targets
  <2>3. Head(u) = o /\ InPlace(u)
    <3> HIDE DEF o, T
    <3> QED BY <1>2, <2>2, PushInPlace
  <2>4. job' = [job EXCEPT !.ver = v, !.bundle = files, !.files = files, !.todo = u] BY <1>5
  <2> HIDE DEF u
  <2>5. job'.ver = v /\ job'.bundle = files /\ job'.files = files /\ job'.todo = u BY <1>2, <2>4 DEF Job
  <2>6. Now' = o /\ It' = s BY <2>3, <2>5 DEF Now, It
  <2>7. Fetched1' BY <1>5, <2>1, <2>5, <2>6 DEF Fetched1, Offers
  <2>8. Unread' BY <1>5, <2>1, <2>5, <2>6 DEF Unread, skill_disk_state
  <2>9. Landed(It, job.bundle \ job.files)' BY <2>5 DEF Landed
  <2> QED BY <2>3, <2>5, <2>6, <2>7, <2>8, <2>9 DEF Writing, WritingAt
<1> QED BY <1>3, <1>4, <1>5 DEF FetchSkill

LEMMA FilesWriting ==
    ASSUME TypeInv, TypeInv', ~Idle, ~Idle', Writing, ReplaceFile
    PROVE  Writing'
<1> DEFINE T == Tail(job.todo)
           s == It
<1>1. /\ Now.op = "files" /\ s \in Skills /\ InPlace(job.todo) /\ Fetched1 /\ Unread
      /\ Landed(s, job.bundle \ job.files)
  BY HeadItem DEF ReplaceFile, At, SkillOps, Writing, WritingAt
<1>2. Plain(T) /\ T \in Seq(OpSet) /\ job \in Job /\ disk \in [Skills -> [AllFiles -> 0..2]] /\ job.todo \in Seq(OpSet)
  BY <1>1, PlainTail, HeadOp DEF TypeInv, TypeOK, Job
<1>3. OneInPlace(job.todo)
  <2>1. /\ Now = job.todo[1] /\ DOMAIN job.todo = 1..Len(job.todo)
    BY HeadOp, TailElements
  <2> QED BY <1>1, <2>1 DEF InPlace, OneInPlace, MiddleOps
<1>4. PICK f \in NextFile :
         /\ disk' = [disk EXCEPT ![It][f] = 0]
         /\ job' = [job EXCEPT !.files = @ \ {f},
                       !.todo = IF f = "SKILL.md"
                                THEN <<OpAt("rename", It, f), Op("prune", It)>> \o Tail(@)
                                ELSE <<OpAt("rename", It, f)>> \o @]
  BY DEF ReplaceFile
<1> DEFINE o == OpAt("rename", s, f)
           p == Op("prune", s)
           u == IF f = "SKILL.md" THEN <<o, p>> \o T ELSE <<o>> \o job.todo
<1>5. /\ f \in AllFiles /\ job.files \subseteq Files /\ job.bundle \subseteq Files /\ "SKILL.md" \notin Files
      /\ f = "SKILL.md" => job.files = {}
      /\ f # "SKILL.md" => f \in job.files
  BY <1>2, <1>4, ContentAssumption DEF NextFile, AllFiles, Job
<1>6. o \in OpSet /\ p \in OpSet /\ o.op = "rename" /\ p.op = "prune" /\ o.of = s /\ o.at = f
  BY <1>1, <1>5 DEF OpSet, Ops, Items, Targets, AllFiles
<1>7. Head(u) = o /\ InPlace(u)
  <2>1. <<o, p>> \o T = <<o>> \o (<<p>> \o T)
    <3> HIDE DEF o, p, T
    <3> QED BY <1>2, <1>6, PairConcat
  <2> HIDE DEF o, p, T
  <2>2. <<p>> \o T \in Seq(OpSet) /\ OneInPlace(<<p>> \o T) BY <1>2, <1>6, PushInPlace
  <2>3. Head(<<o>> \o (<<p>> \o T)) = o /\ InPlace(<<o>> \o (<<p>> \o T)) BY <1>6, <2>2, PushInPlace
  <2>4. Head(<<o>> \o job.todo) = o /\ InPlace(<<o>> \o job.todo) BY <1>2, <1>3, <1>6, PushInPlace
  <2> QED BY <2>1, <2>3, <2>4
<1>8. job' = [job EXCEPT !.files = @ \ {f}, !.todo = u] BY <1>4
<1> HIDE DEF u
<1>9. job'.ver = job.ver /\ job'.bundle = job.bundle /\ job'.files = job.files \ {f} /\ job'.todo = u
  BY <1>2, <1>8 DEF Job
<1>10. Now' = o /\ It' = s BY <1>6, <1>7, <1>9 DEF Now, It
<1>11. rewritten' = rewritten BY DEF ReplaceFile, history
<1>12. \A g \in AllFiles : disk'[s][g] = IF g = f THEN 0 ELSE disk[s][g] BY <1>1, <1>2, <1>4, <1>5
<1> HIDE DEF o, p, s
<1>13. Fetched1' BY <1>1, <1>9, <1>10 DEF Fetched1, Offers, s
<1>14. Unread'
  <2>1. "SKILL.md" \in AllFiles BY DEF AllFiles
  <2>2. s \notin rewritten => disk'[s]["SKILL.md"] = 0 BY <1>1, <1>12, <2>1 DEF Unread, s
  <2> QED BY <1>1, <1>9, <1>10, <1>11, <2>2 DEF Unread
<1>15. Landed(It, job.bundle \ (job.files \cup {Now.at}))'
  <2> SUFFICES ASSUME NEW g \in job.bundle \ ((job.files \ {f}) \cup {f}) PROVE disk'[s][g] = job.ver
    BY <1>6, <1>9, <1>10 DEF Landed
  <2>1. g \in AllFiles /\ g # f /\ g \in job.bundle \ job.files BY <1>5 DEF AllFiles
  <2> QED BY <1>1, <1>12, <2>1 DEF Landed
<1>16. /\ Now'.at \in job'.bundle \cup {"SKILL.md"}
       /\ Now'.at = "SKILL.md" => job'.files = {}
  BY <1>1, <1>5, <1>6, <1>9, <1>10 DEF Unread
<1> QED BY <1>6, <1>7, <1>9, <1>10, <1>13, <1>14, <1>15, <1>16 DEF Writing, WritingAt

LEMMA RenameWriting ==
    ASSUME TypeInv, TypeInv', ~Idle, ~Idle', Writing, RenameFile
    PROVE  Writing'
<1> DEFINE T == Tail(job.todo)
           s == It
           f == Now.at
<1>1. /\ Now.op = "rename" /\ s \in Skills /\ f \in AllFiles /\ InPlace(job.todo) /\ Fetched1 /\ Unread
      /\ Landed(s, job.bundle \ (job.files \cup {f}))
      /\ f \in job.bundle \cup {"SKILL.md"} /\ (f = "SKILL.md" => job.files = {})
  BY HeadItem DEF RenameFile, At, SkillOps, Writing, WritingAt
<1>2. T \in Seq(OpSet) /\ job \in Job /\ disk \in [Skills -> [AllFiles -> 0..2]] BY HeadOp DEF TypeInv, TypeOK
<1>3. Then(job.todo, 1, IF f = "SKILL.md" THEN "prune" ELSE "files") /\ Now = job.todo[1]
  BY <1>1, HeadOp DEF FollowedBy
<1>4. Head(T).op = (IF f = "SKILL.md" THEN "prune" ELSE "files") /\ Head(T).of = s
  <2>1. 1 < Len(job.todo) /\ job.todo[2].op = (IF f = "SKILL.md" THEN "prune" ELSE "files") /\ job.todo[2].of = s
    BY <1>3 DEF Then, It
  <2>2. T # <<>> /\ T[1] = job.todo[2] BY <2>1, TailElements
  <2> HIDE DEF T
  <2>3. Head(T) = T[1] BY <1>2, <2>2, HeadTailProperties
  <2> QED BY <2>1, <2>2, <2>3
<1>5. InPlace(T) BY <1>1, PlainTail
<1>6. job' = [job EXCEPT !.todo = Tail(@)] /\ job'.todo = T BY AdvanceForward DEF RenameFile
<1>7. job'.ver = job.ver /\ job'.bundle = job.bundle /\ job'.files = job.files BY <1>2, <1>6 DEF Job
<1>8. Now' = Head(T) /\ It' = s BY <1>4, <1>6 DEF Now, It
<1>9. rewritten' = rewritten /\ disk' = [disk EXCEPT ![s][f] = job.ver] BY DEF RenameFile, history
<1>10. \A g \in AllFiles : disk'[s][g] = IF g = f THEN job.ver ELSE disk[s][g] BY <1>1, <1>2, <1>9
<1>11. job.bundle \subseteq AllFiles /\ "SKILL.md" \in AllFiles /\ "SKILL.md" \notin job.bundle
  BY <1>2, ContentAssumption DEF Job, AllFiles
<1> HIDE DEF s, T, f
<1>12. Fetched1' BY <1>1, <1>7, <1>8 DEF Fetched1, Offers, s
<1>13. CASE f = "SKILL.md"
  <2>1. Landed(It, job.bundle \cup {"SKILL.md"})'
    <3> SUFFICES ASSUME NEW g \in job.bundle \cup {"SKILL.md"} PROVE disk'[s][g] = job.ver
      BY <1>7, <1>8 DEF Landed
    <3>1. g \in AllFiles /\ (g # f => g \in job.bundle \ (job.files \cup {f})) BY <1>1, <1>11, <1>13
    <3> QED BY <1>1, <1>10, <3>1 DEF Landed
  <2>2. Now'.op = "prune" /\ InPlace(job'.todo) BY <1>4, <1>5, <1>6, <1>8, <1>13
  <2>3. WritingAt(Now.op)' BY <1>12, <2>1, <2>2 DEF WritingAt
  <2> QED BY <2>2, <2>3 DEF Writing
<1>14. CASE f # "SKILL.md"
  <2>1. Landed(It, job.bundle \ job.files)'
    <3> SUFFICES ASSUME NEW g \in job.bundle \ job.files PROVE disk'[s][g] = job.ver
      BY <1>7, <1>8 DEF Landed
    <3>1. g \in AllFiles /\ (g # f => g \in job.bundle \ (job.files \cup {f})) BY <1>11
    <3> QED BY <1>1, <1>10, <3>1 DEF Landed
  <2>2. Unread'
    <3>1. s \notin rewritten => disk'[s]["SKILL.md"] = 0 BY <1>1, <1>10, <1>11, <1>14 DEF Unread, s
    <3> QED BY <1>1, <1>7, <1>8, <1>9, <3>1 DEF Unread
  <2>3. Now'.op = "files" /\ InPlace(job'.todo) BY <1>4, <1>5, <1>6, <1>8, <1>14
  <2>4. WritingAt(Now.op)' BY <1>12, <2>1, <2>2, <2>3 DEF WritingAt
  <2> QED BY <2>3, <2>4 DEF Writing
<1> QED BY <1>13, <1>14

LEMMA WritingStep == TypeInv /\ Writing /\ [Next]_vars => Writing'
<1> SUFFICES ASSUME TypeInv, Writing, [Next]_vars, ~Idle' PROVE Writing'
  BY DEF Writing
<1>0. TypeInv' BY NextOK
<1>1. CASE Start BY <1>0, <1>1, StartOK, PlainWriting
<1>2. CASE Outside
  <2>1. job' = job /\ disk' = disk /\ rewritten' = rewritten BY <1>2, OutsideFrame DEF trees, history
  <2> QED BY <2>1 DEF Writing, WritingAt, Idle, Now, It, Fetched1, Unread, Landed, Offers
<1>3. CASE ~Idle /\ ~Outside
  <2>1. ~Crash BY DEF Crash, Idle, NoJob
  <2>2. InPlace(job.todo) BY <1>3 DEF Writing
  <2>3. CASE Now.op \notin {"fetchSkill", "files", "rename"}
    BY <1>0, <1>3, <2>1, <2>2, <2>3, PlainStep, PlainWriting
  <2>4. CASE StepFails BY <1>0, <1>3, <2>2, <2>4, PlainFail, PlainWriting DEF StepFails
  <2>5. CASE Now.op = "fetchSkill" /\ ~StepFails BY <1>0, <1>3, <2>1, <2>5, Dispatch, FetchWriting
  <2>6. CASE Now.op = "files" /\ ~StepFails BY <1>0, <1>3, <2>1, <2>6, Dispatch, FilesWriting
  <2>7. CASE Now.op = "rename" /\ ~StepFails BY <1>0, <1>3, <2>1, <2>7, Dispatch, RenameWriting
  <2> QED BY <2>3, <2>4, <2>5, <2>6, <2>7
<1> QED BY <1>1, <1>2, <1>3, IdleStep

WholeDir(s) == \A f \in FilesOf[disk[s]["SKILL.md"]] : disk[s][f] = disk[s]["SKILL.md"]

LEMMA WholeStep == TypeInv /\ Writing /\ FirstInstallIsWhole /\ [Next]_vars => FirstInstallIsWhole'
<1> SUFFICES ASSUME TypeInv, Writing, FirstInstallIsWhole, [Next]_vars,
                    NEW s \in Skills, s \notin rewritten', s \notin Pinned, disk'[s]["SKILL.md"] # 0
             PROVE  WholeDir(s)'
  BY DEF FirstInstallIsWhole, skill_disk_state, WholeDir
<1>1. /\ job \in Job /\ disk \in [Skills -> [AllFiles -> 0..2]] /\ "SKILL.md" \in AllFiles
      /\ FilesOf \in [Versions -> SUBSET Files] /\ "SKILL.md" \notin Files /\ Files \subseteq AllFiles
  BY ContentAssumption DEF TypeInv, TypeOK, AllFiles
<1>2. \A r \in Skills \ (rewritten \cup Pinned) : disk[r]["SKILL.md"] # 0 => WholeDir(r)
  BY DEF FirstInstallIsWhole, skill_disk_state, WholeDir
<1>3. ASSUME disk'[s] = disk[s], s \notin rewritten PROVE WholeDir(s)'
  <2>1. WholeDir(s) BY <1>2, <1>3
  <2> QED BY <1>3, <2>1 DEF WholeDir
<1>4. CASE ReplaceFile
  <2>1. /\ ~Idle /\ Now.op = "files" /\ It \in Skills BY <1>4, HeadItem DEF ReplaceFile, At, SkillOps
  <2>2. Unread /\ rewritten' = rewritten BY <1>4, <2>1 DEF ReplaceFile, history, Writing, WritingAt
  <2>3. PICK f \in NextFile : disk' = [disk EXCEPT ![It][f] = 0] BY <1>4 DEF ReplaceFile
  <2>4. CASE It # s BY <1>1, <1>3, <2>1, <2>2, <2>3, <2>4
  <2>5. CASE It = s
    <3>1. disk[s]["SKILL.md"] = 0 BY <2>2, <2>5 DEF Unread
    <3>2. disk'[s]["SKILL.md"] = 0 BY <1>1, <2>3, <2>5, <3>1
    <3> QED BY <3>2
  <2> QED BY <2>4, <2>5
<1>5. CASE RenameFile
  <2> DEFINE f == Now.at
  <2>1. /\ ~Idle /\ Now.op = "rename" /\ It \in Skills /\ f \in AllFiles
    BY <1>5, HeadItem DEF RenameFile, At, SkillOps
  <2>2. /\ Fetched1 /\ Unread /\ rewritten' = rewritten
        /\ Landed(It, job.bundle \ (job.files \cup {f})) /\ (f = "SKILL.md" => job.files = {})
    BY <1>5, <2>1 DEF RenameFile, history, Writing, WritingAt
  <2>3. disk' = [disk EXCEPT ![It][f] = job.ver] BY <1>5 DEF RenameFile
  <2>4. CASE It # s BY <1>1, <1>3, <2>1, <2>2, <2>3, <2>4
  <2>5. CASE It = s /\ f # "SKILL.md"
    <3>1. disk[s]["SKILL.md"] = 0 BY <2>2, <2>5 DEF Unread
    <3>2. disk'[s]["SKILL.md"] = 0 BY <1>1, <2>1, <2>3, <2>5, <3>1
    <3> QED BY <3>2
  <2>6. CASE It = s /\ f = "SKILL.md"
    <3>1. job.ver \in Versions /\ job.bundle = FilesOf[job.ver] BY <2>2, <2>6 DEF Fetched1, Offers
    <3>2. disk'[s]["SKILL.md"] = job.ver BY <1>1, <2>1, <2>3, <2>6
    <3>3. ASSUME NEW g \in FilesOf[job.ver] PROVE disk'[s][g] = job.ver
      <4>1. g \in AllFiles /\ g # "SKILL.md" BY <1>1, <3>1
      <4>2. disk[s][g] = job.ver BY <2>2, <2>6, <3>1, <4>1 DEF Landed
      <4> QED BY <1>1, <2>1, <2>3, <2>6, <4>1, <4>2
    <3> QED BY <3>2, <3>3 DEF WholeDir
  <2> QED BY <2>4, <2>5, <2>6
<1>6. CASE PruneStale
  <2>1. /\ ~Idle /\ Now.op = "prune" /\ It \in Skills BY <1>6, HeadItem DEF PruneStale, At, SkillOps
  <2>2. Fetched1 /\ Landed(It, job.bundle \cup {"SKILL.md"}) BY <2>1 DEF Writing, WritingAt
  <2>3. /\ rewritten' = rewritten \ {It}
        /\ disk' = [disk EXCEPT ![It] = [f \in AllFiles |-> IF f \in job.bundle \cup {"SKILL.md"} THEN @[f] ELSE 0]]
    BY <1>6 DEF PruneStale
  <2>4. CASE It # s BY <1>1, <1>3, <2>1, <2>3, <2>4
  <2>5. CASE It = s
    <3>1. job.ver \in Versions /\ job.bundle = FilesOf[job.ver] BY <2>2, <2>5 DEF Fetched1, Offers
    <3>2. \A f \in job.bundle \cup {"SKILL.md"} : disk'[s][f] = job.ver
      <4> SUFFICES ASSUME NEW f \in job.bundle \cup {"SKILL.md"} PROVE disk'[s][f] = job.ver OBVIOUS
      <4>1. f \in AllFiles /\ disk[s][f] = job.ver BY <1>1, <2>2, <2>5, <3>1 DEF Landed
      <4> QED BY <1>1, <2>3, <2>5, <4>1
    <3> QED BY <3>1, <3>2 DEF WholeDir
  <2> QED BY <2>4, <2>5
<1>7. CASE RemoveSkillDir
  <2>1. /\ ~Idle /\ Now.op = "rmDir" /\ It \in Skills BY <1>7, HeadItem DEF RemoveSkillDir, At, SkillOps
  <2>2. CASE It # s BY <1>1, <1>3, <1>7, <2>1, <2>2 DEF RemoveSkillDir
  <2>3. CASE It = s
    <3>1. ASSUME NEW f \in AllFiles, disk' = [disk EXCEPT ![s][f] = 0],
                 rewritten' = IF skill_disk_state(s) THEN rewritten \cup {s} ELSE rewritten
          PROVE  WholeDir(s)'
      <4>1. disk[s]["SKILL.md"] = 0 BY <3>1 DEF skill_disk_state
      <4>2. disk'[s]["SKILL.md"] = 0 BY <1>1, <3>1, <4>1
      <4> QED BY <4>2
    <3>2. ASSUME \A f \in AllFiles : disk[s][f] = 0, disk' = disk PROVE WholeDir(s)'
      BY <1>1, <3>2
    <3>3. ASSUME disk' = disk, rewritten' = rewritten PROVE WholeDir(s)' BY <1>3, <3>3
    <3> QED BY <1>7, <2>3, <3>1, <3>2, <3>3 DEF RemoveSkillDir
  <2> QED BY <2>2, <2>3
<1>8. CASE ~ReplaceFile /\ ~RenameFile /\ ~PruneStale /\ ~RemoveSkillDir
  <2>1. disk' = disk /\ (rewritten' = rewritten \/ FetchSkill) BY <1>8, Frames
  <2>2. rewritten \subseteq rewritten' BY <2>1 DEF FetchSkill
  <2> QED BY <1>3, <2>1, <2>2
<1> QED BY <1>4, <1>5, <1>6, <1>7, <1>8

\* A skill directory that reads as installed holds every file its fetch brought, of the
\* version of its SKILL.md, whatever install, update or exit came before: SKILL.md is the
\* last to land (write_skill_bundle), so a first install that was cut off reads as absent.
THEOREM FirstInstallsAreWhole == Spec => []FirstInstallIsWhole
<1>1. Init => Writing /\ FirstInstallIsWhole
  <2> SUFFICES ASSUME Init PROVE Writing /\ FirstInstallIsWhole OBVIOUS
  <2>1. Writing BY DEF Init, Writing, Idle, NoJob
  <2>2. PICK legacy \in SUBSET (Skills \cap scope) :
           disk = [s \in Skills |-> [f \in AllFiles |->
                     IF s \in legacy /\ f \in FilesOf[1] \cup {"SKILL.md"} THEN 1 ELSE 0]]
    BY DEF Init
  <2>3. FilesOf[1] \subseteq AllFiles /\ "SKILL.md" \in AllFiles BY ContentAssumption DEF Versions, AllFiles
  <2>4. ASSUME NEW s \in Skills, disk[s]["SKILL.md"] # 0 PROVE WholeDir(s)
    <3>1. s \in legacy /\ disk[s]["SKILL.md"] = 1 BY <2>2, <2>3, <2>4
    <3>2. \A f \in FilesOf[1] : disk[s][f] = 1 BY <2>2, <2>3, <3>1
    <3> QED BY <3>1, <3>2 DEF WholeDir
  <2> QED BY <2>1, <2>4 DEF FirstInstallIsWhole, skill_disk_state, WholeDir
<1> QED BY <1>1, InitOK, NextOK, WritingStep, WholeStep, PTL DEF Spec

-----------------------------------------------------------------------------
\* A skill's install or update.  Its record is written once the directory is what the fetch
\* brought, and nothing but the record comes between.
Exact(s) == \E v \in Versions : \E files \in Offers(s, v) :
              BundleMatchesDisk(s, v, files) /\ skills[s] \in {0, v}

AfterRecord == {"recordSkill", "meta", "reconcile", "fail"}
RecordsFirst(t) == \A i, j \in DOMAIN t : t[i].op \in AfterRecord /\ t[j].op = "recordSkill" => j <= i

SkillInv ==
    job.kind \in {"skill", "skillUpdate"} =>
        /\ job.item \in Skills /\ RecordsFirst(job.todo)
        /\ Now.op = "recordSkill" => Fetched1 /\ BundleMatchesDisk(It, job.ver, job.bundle)
        /\ Has(job.todo, "recordSkill") \/ Has(job.todo, "fail") \/ Exact(job.item)

LEMMA RestRecords ==
    ASSUME NEW S, NEW t \in Seq(S), t # <<>>, RecordsFirst(t)
    PROVE  /\ RecordsFirst(Tail(t)) /\ Has(t, Head(t).op)
           /\ Head(t).op \in AfterRecord => ~Has(Tail(t), "recordSkill")
<1> DEFINE T == Tail(t)
           n == Len(t)
<1>1. /\ n \in Nat \ {0} /\ DOMAIN t = 1..n /\ DOMAIN T = 1..(n - 1) /\ Head(t) = t[1]
      /\ \A i \in 1..(n - 1) : T[i] = t[i + 1]
  <2>1. Len(t) \in Nat \ {0} /\ Head(t) = t[1] /\ Tail(t) \in Seq(S) /\ DOMAIN t = 1..Len(t)
    BY EmptySeq, HeadTailProperties, LenProperties
  <2>2. Len(T) = n - 1 /\ (\A i \in 1..Len(T) : T[i] = t[i + 1]) /\ DOMAIN T = 1..Len(T)
    BY <2>1, HeadTailProperties, LenProperties
  <2> QED BY <2>1, <2>2
<1> HIDE DEF T, n
<1>2. ASSUME NEW i \in DOMAIN T, NEW j \in DOMAIN T, T[i].op \in AfterRecord, T[j].op = "recordSkill"
      PROVE  j <= i
  <2>1. i + 1 \in 1..n /\ j + 1 \in 1..n /\ T[i] = t[i + 1] /\ T[j] = t[j + 1] BY <1>1, <1>2
  <2>2. j + 1 <= i + 1 BY <1>1, <1>2, <2>1 DEF RecordsFirst
  <2> QED BY <1>1, <1>2, <2>2
<1>3. ASSUME Head(t).op \in AfterRecord, NEW j \in DOMAIN T, T[j].op = "recordSkill" PROVE FALSE
  <2>1. 1 \in 1..n /\ j + 1 \in 1..n /\ t[j + 1].op = "recordSkill" BY <1>1, <1>3
  <2>2. j + 1 <= 1 BY <1>1, <1>3, <2>1 DEF RecordsFirst
  <2> QED BY <1>1, <1>3, <2>2
<1>4. Has(t, Head(t).op) BY <1>1 DEF Has
<1> QED BY <1>2, <1>3, <1>4 DEF RecordsFirst, Has, T

LEMMA TailRecords ==
    ASSUME TypeInv, ~Idle, RecordsFirst(job.todo)
    PROVE  /\ RecordsFirst(Tail(job.todo))
           /\ Now.op \in AfterRecord => ~Has(Tail(job.todo), "recordSkill")
<1>1. job.todo \in Seq(OpSet) /\ job.todo # <<>> BY DEF TypeInv, TypeOK, Job, JobOK
<1> QED BY <1>1, RestRecords DEF Now

LEMMA PushRecords ==
    ASSUME NEW S, NEW t \in Seq(S), NEW o \in S, RecordsFirst(t), o.op \notin AfterRecord
    PROVE  RecordsFirst(<<o>> \o t) /\ \A n : Has(t, n) => Has(<<o>> \o t, n)
<1> DEFINE u == <<o>> \o t
<1>1. <<o>> \in Seq(S) /\ Len(<<o>>) = 1 /\ <<o>>[1] = o OBVIOUS
<1>2. /\ u \in Seq(S) /\ Len(u) = 1 + Len(t) /\ Len(t) \in Nat /\ u[1] = o
      /\ \A i \in 2..(1 + Len(t)) : u[i] = t[i - 1]
      /\ DOMAIN t = 1..Len(t)
  BY <1>1, ConcatProperties, LenProperties
<1>3. DOMAIN u = 1..(1 + Len(t))
  <2> HIDE DEF u
  <2> QED BY <1>2, LenProperties
<1>4. \A n : Has(t, n) => Has(u, n) BY <1>1, ConcatHas
<1> HIDE DEF u
<1>5. ASSUME NEW i \in DOMAIN u, NEW j \in DOMAIN u, u[i].op \in AfterRecord, u[j].op = "recordSkill"
      PROVE  j <= i
  <2>1. "recordSkill" \in AfterRecord BY DEF AfterRecord
  <2>2. i # 1 /\ j # 1 BY <1>2, <1>5, <2>1
  <2>3. i - 1 \in DOMAIN t /\ j - 1 \in DOMAIN t /\ u[i] = t[i - 1] /\ u[j] = t[j - 1] BY <1>2, <1>3, <1>5, <2>2
  <2>4. j - 1 <= i - 1 BY <1>5, <2>3 DEF RecordsFirst
  <2> QED BY <1>3, <1>5, <2>4
<1> QED BY <1>4, <1>5 DEF RecordsFirst, u

LEMMA UpToDateIsExact ==
    ASSUME TypeInv, NEW s \in Skills, NEW files \in Offers(s, upstream[s]), UpToDate(s, upstream[s], files)
    PROVE  Exact(s)
<1>1. upstream[s] \in Versions BY DEF TypeInv, TypeOK
<1>2. skills[s] \in {0, upstream[s]} BY DEF UpToDate, Current
<1> QED BY <1>1, <1>2 DEF UpToDate, Exact

LEMMA ExactStays ==
    ASSUME UNCHANGED <<skills, disk, stray>> PROVE \A s : Exact(s) => Exact(s)'
BY DEF Exact, Offers, BundleMatchesDisk, Holds

LEMMA InstallSkillShape ==
    ASSUME NEW s \in Skills, InstallSkill(s) \/ UpdateSkill(s)
    PROVE  /\ job'.item = s /\ RecordsFirst(job'.todo)
           /\ Has(job'.todo, "recordSkill") \/ Has(job'.todo, "fail")
           /\ Now'.op # "recordSkill"
<1> DEFINE a == <<Op("fetchSkill", s), Op("recordSkill", s), Op("meta", s), Op("reconcile", s)>>
           b == <<Op("fail", s)>>
           c == <<Op("fetchSkill", s), Op("recordSkill", s), Op("reconcile", s)>>
           h == Recorded
<1>1. \E k : \E t \in {a, b, c} :
         job' = [NoJob EXCEPT !.kind = k, !.item = s, !.todo = t, !.rows = {}, !.had = h]
  <2>1. CASE InstallSkill(s) BY <2>1 DEF InstallSkill, Enqueue, Begin
  <2>2. CASE UpdateSkill(s) /\ skills[s] = -1 BY <2>2 DEF UpdateSkill, Enqueue, Begin
  <2>3. CASE UpdateSkill(s) /\ skills[s] # -1 BY <2>3 DEF UpdateSkill, Enqueue, Begin
  <2> QED BY <2>1, <2>2, <2>3
<1>2. /\ RecordsFirst(a) /\ RecordsFirst(b) /\ RecordsFirst(c)
      /\ Has(a, "recordSkill") /\ Has(b, "fail") /\ Has(c, "recordSkill")
  BY DEF RecordsFirst, Has, AfterRecord
<1>3. Head(a).op = "fetchSkill" /\ Head(b).op = "fail" /\ Head(c).op = "fetchSkill" OBVIOUS
<1> HIDE DEF a, b, c, h
<1>4. PICK k, t : t \in {a, b, c} /\ job' = [NoJob EXCEPT !.kind = k, !.item = s, !.todo = t, !.rows = {}, !.had = h]
  BY <1>1
<1>5. job'.item = s /\ job'.todo = t BY <1>4 DEF NoJob
<1> QED BY <1>2, <1>3, <1>4, <1>5 DEF Now

\* What each write of such a command leaves on disk and in the record.
LEMMA SkillEffect ==
    ASSUME TypeInv, ~Idle, Writing, SkillInv, [Next]_vars, ~Outside, ~Crash,
           job.kind \in {"skill", "skillUpdate"}, ~Fail("failed"), NEW x, x = job.item
    PROVE  /\ x \in Skills /\ It = x /\ Now.op \in SkillCourse \ {"fail"}
           /\ Now.op = "prune" => BundleMatchesDisk(x, job.ver, job.bundle)' /\ Fetched1
           /\ Now.op = "recordSkill" => Exact(x)'
           /\ Now.op \in {"meta", "reconcile"} =>
                 /\ ~Has(job.todo, "recordSkill") /\ UNCHANGED <<skills, disk, stray>>
                 /\ Has(job.todo, "fail") \/ Exact(x)'
           /\ Now.op \in {"prune", "recordSkill", "meta", "reconcile"} => Advance
<1>1. /\ x \in Skills /\ RecordsFirst(job.todo) /\ It = x /\ Now.op \in SkillCourse
      /\ Now.op = "recordSkill" => Fetched1 /\ BundleMatchesDisk(It, job.ver, job.bundle)
      /\ Has(job.todo, "recordSkill") \/ Has(job.todo, "fail") \/ Exact(x)
  BY HeadOp DEF SkillInv, Course, It
<1>2. /\ job \in Job /\ disk \in [Skills -> [AllFiles -> 0..2]] /\ skills \in [Skills -> SkillRecord]
      /\ job.bundle \subseteq AllFiles /\ "SKILL.md" \in AllFiles
  BY DEF TypeInv, TypeOK, Job, AllFiles
<1>3. ASSUME Now.op = "prune"
      PROVE  BundleMatchesDisk(x, job.ver, job.bundle)' /\ Fetched1 /\ Advance
  <2>1. PruneStale BY <1>3, Dispatch DEF StepFails
  <2>2. Fetched1 /\ Landed(x, job.bundle \cup {"SKILL.md"}) BY <1>1, <1>3 DEF Writing, WritingAt
  <2>3. /\ Advance /\ stray' = stray \ {x}
        /\ disk' = [disk EXCEPT ![x] = [f \in AllFiles |-> IF f \in job.bundle \cup {"SKILL.md"} THEN @[f] ELSE 0]]
    BY <1>1, <2>1 DEF PruneStale
  <2>4. disk'[x] = [f \in AllFiles |-> IF f \in job.bundle \cup {"SKILL.md"} THEN disk[x][f] ELSE 0]
    BY <1>1, <1>2, <2>3
  <2>5. disk'[x] = [f \in AllFiles |-> IF f \in job.bundle \cup {"SKILL.md"} THEN job.ver ELSE 0]
    BY <2>2, <2>4 DEF Landed
  <2>6. ASSUME NEW ver, NEW bundle, ver = job.ver, bundle = job.bundle
        PROVE  disk'[x] = [f \in AllFiles |-> IF f \in bundle \cup {"SKILL.md"} THEN ver ELSE 0] /\ x \notin stray'
    BY <2>3, <2>5, <2>6
  <2>7. job'.ver = job.ver /\ job'.bundle = job.bundle
    <3>1. Then(job.todo, 1, "recordSkill") BY <1>3, HeadOp DEF FollowedBy
    <3>2. Tail(job.todo) # <<>>
      <4>1. Tail(job.todo) = <<>> <=> Len(job.todo) = 1 BY TailElements
      <4> QED BY <3>1, <4>1 DEF Then
    <3>3. job' = [job EXCEPT !.todo = Tail(@)] BY <1>2, <2>3, <3>2, AdvanceMoves
    <3> QED BY <1>2, <3>3 DEF Job
  <2> QED BY <2>2, <2>3, <2>6, <2>7 DEF BundleMatchesDisk, Holds
<1>4. ASSUME Now.op = "recordSkill" PROVE Exact(x)' /\ Advance
  <2>1. RecordSkill BY <1>4, Dispatch DEF StepFails
  <2>2. skills' = [skills EXCEPT ![x] = job.ver] /\ Advance BY <1>1, <1>4, <2>1 DEF RecordSkill, At
  <2>3. skills'[x] = job.ver /\ disk' = disk /\ stray' = stray BY <1>1, <1>2, <2>1, <2>2 DEF RecordSkill, trees
  <2>4. job.ver \in Versions /\ job.bundle \in Offers(x, job.ver) /\ BundleMatchesDisk(x, job.ver, job.bundle)
    BY <1>1, <1>4 DEF Fetched1
  <2>5. Holds(x, job.ver, job.bundle) /\ x \notin stray BY <2>4 DEF BundleMatchesDisk
  <2>6. \E v \in Versions : \E files \in Offers(x, v) :
           /\ disk'[x] = [f \in AllFiles |-> IF f \in files \cup {"SKILL.md"} THEN v ELSE 0] /\ x \notin stray'
           /\ skills'[x] \in {0, v}
    BY <2>3, <2>4, <2>5 DEF Holds
  <2> QED BY <2>2, <2>6 DEF Exact, Offers, BundleMatchesDisk, Holds
<1>5. ASSUME Now.op \in {"meta", "reconcile"}
      PROVE  /\ ~Has(job.todo, "recordSkill") /\ UNCHANGED <<skills, disk, stray>> /\ Advance
             /\ Has(job.todo, "fail") \/ Exact(x)'
  <2>1. SetMetadata \/ Reconcile BY <1>5, Dispatch DEF StepFails
  <2>2. UNCHANGED <<skills, disk, stray>> /\ Advance BY <2>1 DEF SetMetadata, Reconcile, manifest, trees
  <2>3. ~Has(Tail(job.todo), "recordSkill") BY <1>1, <1>5, TailRecords DEF AfterRecord
  <2>4. ~Has(job.todo, "recordSkill") BY <1>5, <2>3, TailHas
  <2> QED BY <1>1, <2>2, <2>4, ExactStays
<1>6. Now.op # "fail" BY Dispatch DEF Conclusion, At, StepFails
<1> QED BY <1>1, <1>3, <1>4, <1>5, <1>6

LEMMA SkillInvStep == TypeInv /\ Writing /\ SkillInv /\ [Next]_vars => SkillInv'
<1> SUFFICES ASSUME TypeInv, Writing, SkillInv, [Next]_vars, job'.kind \in {"skill", "skillUpdate"}
             PROVE  SkillInv'
  BY DEF SkillInv
<1>0. ~Idle' /\ TypeInv' BY NextOK DEF Idle
<1>1. CASE Start
  <2>1. PICK s \in Skills : InstallSkill(s) \/ UpdateSkill(s) BY <1>1, StartKinds
  <2> QED BY <2>1, InstallSkillShape DEF SkillInv
<1>2. CASE Outside
  <2>1. job' = job /\ skills' = skills /\ disk' = disk /\ stray' = stray BY <1>2, OutsideFrame DEF trees
  <2>2. Exact(job.item) => Exact(job.item)' BY <2>1 DEF Exact, Offers, BundleMatchesDisk, Holds
  <2> QED BY <2>1, <2>2 DEF SkillInv, Now, It, Fetched1, Offers, BundleMatchesDisk, Holds
<1>3. CASE ~Idle /\ ~Outside
  <2> DEFINE T == Tail(job.todo)
  <2>1. PICK x : x = job.item OBVIOUS
  <2>2. Kept BY <1>0, <1>3, JobMoves DEF Moves, Ended, Idle, NoJob
  <2>3. job.kind \in {"skill", "skillUpdate"} /\ job'.item = x BY <2>1, <2>2 DEF Kept
  <2>4. ~Crash /\ ~Fail("failed")
    <3>1. ~Crash BY <1>0 DEF Crash, Idle, NoJob
    <3>2. Fail("failed") => Ended("failed") BY <1>3, <2>3, FailEnds DEF NoNext
    <3> QED BY <1>0, <3>1, <3>2 DEF Ended, Idle, NoJob
  <2>5. x \in Skills /\ It = x /\ Now.op \in SkillCourse \ {"fail"} /\ RecordsFirst(job.todo)
    BY <1>3, <2>1, <2>3, <2>4, SkillEffect DEF SkillInv
  <2>6. /\ job.todo \in Seq(OpSet) /\ job.todo # <<>> /\ job \in Job /\ Now = job.todo[1] /\ DOMAIN job.todo = 1..Len(job.todo)
        /\ T \in Seq(OpSet) /\ (T = <<>> <=> Len(job.todo) = 1) /\ (Len(job.todo) > 1 => T[1] = job.todo[2])
        /\ DOMAIN T = 1..(Len(job.todo) - 1) /\ Len(job.todo) \in Nat \ {0}
    <3>1. T = <<>> <=> Len(job.todo) = 1 BY <1>3, TailElements
    <3>2. job.todo \in Seq(OpSet) /\ job.todo # <<>> BY <1>3 DEF TypeInv, TypeOK, Job, JobOK
    <3> QED BY <1>3, <3>1, <3>2, HeadOp, TailElements
  <2>7. RecordsFirst(T) /\ (Now.op \in AfterRecord => ~Has(T, "recordSkill")) BY <1>3, <2>5, TailRecords
  <2>8. Now.op \in {"fetchSkill", "files", "prune"} =>
           /\ T # <<>> /\ T[1].op = "recordSkill" /\ T[1].of = x /\ Has(T, "recordSkill")
    <3>1. Now.op \in {"fetchSkill", "files", "prune"} => Then(job.todo, 1, "recordSkill")
      BY <1>3, <2>6, HeadOp DEF FollowedBy
    <3> HIDE DEF T
    <3> QED BY <2>5, <2>6, <3>1 DEF Then, It, Has
  <2>9. job'.todo # <<>> /\ job'.todo \in Seq(OpSet) BY <1>0 DEF TypeInv, TypeOK, Job, JobOK
  <2>10. ~Has(job'.todo, "recordSkill") => Now'.op # "recordSkill"
    <3> DEFINE u == job'.todo
    <3> HIDE DEF u
    <3>1. u \in Seq(OpSet) /\ u # <<>> BY <2>9 DEF u
    <3>2. 1 \in DOMAIN u /\ Head(u) = u[1] BY <3>1, EmptySeq, HeadTailProperties, LenProperties
    <3> QED BY <3>2 DEF Has, Now, u
  <2> HIDE DEF T
  <2>11. CASE Now.op = "fetchSkill"
    <3>1. FetchSkill BY <1>3, <2>4, <2>11, Dispatch DEF StepFails
    <3>2. skills' = skills /\ disk' = disk /\ stray' = stray BY <3>1 DEF FetchSkill, manifest, trees
    <3>3. PICK files \in Offers(x, upstream[x]) :
             IF UpToDate(x, upstream[x], files) THEN Instead(Tail(T))
             ELSE job' = [job EXCEPT !.ver = upstream[x], !.bundle = files, !.files = files,
                                     !.todo = <<Op("files", x)>> \o T]
      BY <2>4, <2>5, <3>1 DEF FetchSkill, T
    <3>4. CASE UpToDate(x, upstream[x], files)
      <4> DEFINE u == Tail(T)
      <4>1. Exact(x)' BY <2>5, <3>2, <3>3, <3>4, UpToDateIsExact, ExactStays
      <4>2. RecordsFirst(u) /\ ~Has(u, "recordSkill")
        <5>1. Head(T) = T[1] BY <2>6, <2>8, <2>11, HeadTailProperties
        <5>2. Head(T).op \in AfterRecord BY <2>8, <2>11, <5>1 DEF AfterRecord
        <5> QED BY <2>6, <2>7, <2>8, <2>11, <5>2, RestRecords
      <4>3. Instead(u) BY <3>3, <3>4
      <4> HIDE DEF u
      <4>4. job' = [job EXCEPT !.todo = u] BY <1>0, <2>6, <4>3, InsteadMoves DEF Ended, Idle, NoJob
      <4>5. job'.todo = u BY <2>6, <4>4 DEF Job
      <4> QED BY <2>3, <2>5, <2>10, <4>1, <4>2, <4>5 DEF SkillInv
    <3>5. CASE ~UpToDate(x, upstream[x], files)
      <4> DEFINE o == Op("files", x)
                 u == <<o>> \o T
      <4>1. o \in OpSet /\ o.op = "files" BY <2>5 DEF OpSet, Ops, Items, Targets
      <4>2. o.op \notin AfterRecord BY <4>1 DEF AfterRecord
      <4>3. Head(u) = o /\ RecordsFirst(u) /\ Has(u, "recordSkill")
        <5> HIDE DEF o
        <5> QED BY <2>6, <2>7, <2>8, <2>11, <4>1, <4>2, PushInPlace, PushRecords
      <4>4. job' = [job EXCEPT !.ver = upstream[x], !.bundle = files, !.files = files, !.todo = u] BY <3>3, <3>5
      <4> HIDE DEF o, u
      <4>5. job'.todo = u BY <2>6, <4>4 DEF Job
      <4>6. Now'.op = "files" BY <4>1, <4>3, <4>5 DEF Now
      <4> QED BY <2>3, <2>5, <4>3, <4>5, <4>6 DEF SkillInv
    <3> QED BY <3>4, <3>5
  <2>12. CASE Now.op = "files"
    <3>1. ReplaceFile BY <1>3, <2>4, <2>12, Dispatch DEF StepFails
    <3>2. PICK f \in NextFile :
             job' = [job EXCEPT !.files = @ \ {f},
                        !.todo = IF f = "SKILL.md"
                                 THEN <<OpAt("rename", x, f), Op("prune", x)>> \o T
                                 ELSE <<OpAt("rename", x, f)>> \o @]
      BY <2>5, <3>1 DEF ReplaceFile, T
    <3> DEFINE o == OpAt("rename", x, f)
               p == Op("prune", x)
               u == IF f = "SKILL.md" THEN <<o, p>> \o T ELSE <<o>> \o job.todo
    <3>3. f \in AllFiles
      <4>1. job.files \subseteq Files BY <2>6 DEF Job
      <4> QED BY <4>1 DEF NextFile, AllFiles
    <3>4. o \in OpSet /\ p \in OpSet /\ o.op = "rename" /\ p.op = "prune"
      BY <2>5, <3>3 DEF OpSet, Ops, Items, Targets
    <3>5. o.op \notin AfterRecord /\ p.op \notin AfterRecord BY <3>4 DEF AfterRecord
    <3>6. Head(u) = o /\ RecordsFirst(u) /\ Has(u, "recordSkill")
      <4>1. <<o, p>> \o T = <<o>> \o (<<p>> \o T)
        <5> HIDE DEF o, p
        <5> QED BY <2>6, <3>4, PairConcat
      <4>2. Has(job.todo, "recordSkill") BY <1>3, <2>8, <2>12, TailHas DEF T
      <4> HIDE DEF o, p
      <4>3. <<p>> \o T \in Seq(OpSet) /\ RecordsFirst(<<p>> \o T) /\ Has(<<p>> \o T, "recordSkill")
        BY <2>6, <2>7, <2>8, <2>12, <3>4, <3>5, PushInPlace, PushRecords
      <4>4. /\ Head(<<o>> \o (<<p>> \o T)) = o /\ RecordsFirst(<<o>> \o (<<p>> \o T))
            /\ Has(<<o>> \o (<<p>> \o T), "recordSkill")
        BY <3>4, <3>5, <4>3, PushInPlace, PushRecords
      <4>5. Head(<<o>> \o job.todo) = o /\ RecordsFirst(<<o>> \o job.todo) /\ Has(<<o>> \o job.todo, "recordSkill")
        BY <2>5, <2>6, <3>4, <3>5, <4>2, PushInPlace, PushRecords
      <4> QED BY <4>1, <4>4, <4>5
    <3>7. job' = [job EXCEPT !.files = @ \ {f}, !.todo = u] BY <3>2
    <3> HIDE DEF o, p, u
    <3>8. job'.todo = u BY <2>6, <3>7 DEF Job
    <3>9. Now'.op = "rename" BY <3>4, <3>6, <3>8 DEF Now
    <3> QED BY <2>3, <2>5, <3>6, <3>8, <3>9 DEF SkillInv
  <2>13. CASE Now.op = "rename"
    <3>1. RenameFile BY <1>3, <2>4, <2>13, Dispatch DEF StepFails
    <3>2. job'.todo = T BY <1>0, <1>3, <3>1, AdvanceForward DEF RenameFile, T
    <3>3. T # <<>> /\ T[1].op \in {"prune", "files"}
      <4>1. 1 < Len(job.todo) /\ job.todo[2].op \in {"prune", "files"}
        BY <1>3, <2>6, <2>13, HeadOp DEF FollowedBy, Then
      <4> QED BY <2>6, <4>1
    <3>4. Has(T, "recordSkill")
      <4>1. Follows(T) BY <1>3, HeadOp DEF T
      <4>2. Len(T) \in Nat \ {0} /\ DOMAIN T = 1..Len(T) BY <2>6, <3>3, EmptySeq, LenProperties
      <4>3. FollowedBy(T, 1) BY <4>1, <4>2 DEF Follows
      <4>4. Then(T, 1, "recordSkill") BY <3>3, <4>3 DEF FollowedBy
      <4> QED BY <4>2, <4>4 DEF Then, Has
    <3>5. Now'.op # "recordSkill"
      <4>1. Head(T) = T[1] BY <2>6, <3>3, HeadTailProperties
      <4> QED BY <3>2, <3>3, <4>1 DEF Now
    <3> QED BY <2>3, <2>5, <2>7, <3>2, <3>4, <3>5 DEF SkillInv
  <2>14. CASE Now.op = "prune"
    <3>1. BundleMatchesDisk(x, job.ver, job.bundle)' /\ Fetched1 /\ Advance
      BY <1>3, <2>1, <2>3, <2>4, <2>14, SkillEffect
    <3>2. job' = [job EXCEPT !.todo = Tail(@)] /\ job'.todo = T BY <1>0, <1>3, <3>1, AdvanceForward DEF T
    <3>3. job'.ver = job.ver /\ job'.bundle = job.bundle BY <2>6, <3>2 DEF Job
    <3>4. Head(T) = T[1] BY <2>6, <2>8, <2>14, HeadTailProperties
    <3>5. It' = x BY <2>8, <2>14, <3>2, <3>4 DEF It, Now
    <3>6. Fetched1' BY <2>5, <3>1, <3>3, <3>5 DEF Fetched1, Offers
    <3>7. BundleMatchesDisk(It, job.ver, job.bundle)' BY <3>1, <3>5 DEF BundleMatchesDisk, Holds
    <3> QED BY <2>3, <2>5, <2>7, <2>8, <2>14, <3>2, <3>6, <3>7 DEF SkillInv
  <2>15. CASE Now.op \in {"recordSkill", "meta", "reconcile"}
    <3>1. Advance /\ (Exact(x)' \/ (Has(job.todo, "fail") /\ Now.op # "recordSkill"))
      BY <1>3, <2>1, <2>3, <2>4, <2>15, SkillEffect
    <3>2. job'.todo = T BY <1>0, <1>3, <3>1, AdvanceForward DEF T
    <3>3. Has(job.todo, "fail") => Has(T, "fail") BY <1>3, <2>15, TailHas DEF T
    <3>4. ~Has(T, "recordSkill") BY <2>7, <2>15 DEF AfterRecord
    <3> QED BY <2>3, <2>5, <2>7, <2>10, <3>1, <3>2, <3>3, <3>4 DEF SkillInv
  <2> QED BY <2>5, <2>11, <2>12, <2>13, <2>14, <2>15 DEF SkillCourse
<1> QED BY <1>0, <1>1, <1>2, <1>3, IdleStep

\* The end of the command, and what may happen before the next one.
LEMMA SuccessStep == TypeInv /\ Writing /\ SkillInv /\ SuccessIsExact /\ [Next]_vars => SuccessIsExact'
<1> SUFFICES ASSUME TypeInv, Writing, SkillInv, SuccessIsExact, [Next]_vars,
                    NEW x, x = last'.item, last'.res = "ok", last'.kind \in {"skill", "skillUpdate"}
             PROVE  Exact(x)'
  BY DEF SuccessIsExact, Exact, Offers
<1>1. CASE Idle
  <2>1. Outside
    <3>1. Start => last' = NoEnd BY StartFrame
    <3> QED BY <1>1, <3>1, IdleStep DEF NoEnd
  <2>2. last' = last /\ skills' = skills /\ disk' = disk /\ stray' = stray BY <2>1, OutsideFrame DEF trees
  <2>3. Exact(x) BY <2>2 DEF SuccessIsExact, Exact
  <2> QED BY <2>2, <2>3, ExactStays
<1>2. CASE ~Idle
  <2>1. last = NoEnd /\ ~Outside
    <3>1. last = NoEnd BY <1>2 DEF TypeInv, JobOK
    <3>2. Outside => last' = last BY OutsideFrame
    <3> QED BY <3>1, <3>2 DEF NoEnd
  <2>2. Ended("ok") /\ (Now.op = "fetchSkill" \/ Len(job.todo) = 1) /\ ~Crash
    <3>1. Moves /\ last'.res = "ok" BY <1>2, JobMoves
    <3>2. ~Crash BY <3>1 DEF Crash, NoEnd
    <3>3. ~Kept BY <2>1, <3>1 DEF Kept, NoEnd
    <3>4. \A r \in {"failed", "rolledBack"} : ~Ended(r) BY <3>1 DEF Ended
    <3> QED BY <3>1, <3>2, <3>3, <3>4 DEF Moves
  <2>3. job.kind \in {"skill", "skillUpdate"} /\ job.item = x /\ ~Fail("failed")
    <3>1. job.kind \in {"skill", "skillUpdate"} /\ job.item = x BY <2>2 DEF Ended
    <3>2. Fail("failed") => Ended("failed") BY <1>2, <3>1, FailEnds DEF NoNext
    <3> QED BY <2>2, <3>1, <3>2 DEF Ended
  <2>4. x \in Skills /\ It = x /\ Now.op \in SkillCourse \ {"fail"}
    BY <1>2, <2>1, <2>2, <2>3, SkillEffect
  <2>5. CASE Now.op = "fetchSkill"
    <3>1. FetchSkill BY <1>2, <2>1, <2>2, <2>3, <2>5, Dispatch DEF StepFails
    <3>2. skills' = skills /\ disk' = disk /\ stray' = stray BY <3>1 DEF FetchSkill, manifest, trees
    <3> DEFINE u == <<Op("files", x)>> \o Tail(job.todo)
    <3>3. PICK files \in Offers(x, upstream[x]) :
             \/ UpToDate(x, upstream[x], files)
             \/ job' = [job EXCEPT !.ver = upstream[x], !.bundle = files, !.files = files, !.todo = u]
      BY <2>3, <2>4, <3>1 DEF FetchSkill
    <3> HIDE DEF u
    <3>4. job' # [job EXCEPT !.ver = upstream[x], !.bundle = files, !.files = files, !.todo = u]
      <4>1. job \in Job BY DEF TypeInv, TypeOK
      <4>2. job'.kind = "none" BY <2>2 DEF Ended, NoJob
      <4> QED BY <2>3, <4>1, <4>2 DEF Job
    <3> QED BY <2>4, <3>2, <3>3, <3>4, UpToDateIsExact, ExactStays
  <2>6. CASE Now.op # "fetchSkill"
    <3>1. Len(job.todo) = 1 BY <2>2, <2>6
    <3>2. Now.op \notin {"files", "rename", "prune"} BY <1>2, <3>1, HeadOp DEF FollowedBy, Then
    <3>3. ASSUME Has(job.todo, "fail") PROVE Now.op = "fail"
      BY <1>2, <3>1, <3>3, TailElements, HeadOp DEF Has
    <3>4. Now.op \in {"recordSkill", "meta", "reconcile"} BY <2>4, <2>6, <3>2 DEF SkillCourse
    <3> QED BY <1>2, <2>1, <2>2, <2>3, <3>3, <3>4, SkillEffect
  <2> QED BY <2>5, <2>6
<1> QED BY <1>1, <1>2

\* An install or update of a skill that reports success leaves in its directory exactly what
\* one fetch brings, SKILL.md and siblings of one version and no left-over, and the record
\* names that version (skill_install_job, skill_update_job), whatever was cut off before it.
THEOREM SuccessesAreExact == Spec => []SuccessIsExact
<1>1. Init => Writing /\ SkillInv /\ SuccessIsExact
  BY DEF Init, Writing, Idle, SkillInv, SuccessIsExact, NoJob, NoEnd
<1> QED BY <1>1, InitOK, NextOK, WritingStep, SkillInvStep, SuccessStep, PTL DEF Spec
=============================================================================
