----------------------- MODULE InstanceProfile_proofs ------------------------
(***************************************************************************)
(* A rescue point keeps a state that was known to boot, and a safe boot    *)
(* leaves the user's profile alone, for any set of packages and any number *)
(* of jobs, launches, rescue commands and deaths of the launcher.  The     *)
(* invariant says which steps each job goes through, who may be taking a   *)
(* snapshot when, and that the files a snapshot has copied are those of    *)
(* the profile, as long as nothing disturbed it.                           *)
(*                                                                         *)
(* The Library shows the profile between jobs: what its lists of rows are  *)
(* made of, what a rebuild makes of them, and which steps owe one.         *)
(***************************************************************************)
EXTENDS InstanceProfile, TLAPS

(* The steps of each kind of job.                                          *)
StepsOf(kind) ==
  CASE kind = "install" -> {"reserve", "check", "add", "land", "refresh", "rebuild"}
    [] kind = "uninstall" -> {"check", "remove", "unrow", "refresh", "rebuild"}
    [] kind = "toggle" -> {"check", "flip", "refresh", "rebuild"}
    [] kind = "allow" -> {"check", "reserve", "approve"}
    [] kind = "sync" -> {"refresh", "rebuild"}
    [] kind = "launch" -> {"switch", "prepare", "spawn", "wait", "verdict", "copy"}
    [] OTHER -> {"compose", "dump", "switch", "spawn", "wait", "verdict"}

OnPackages == {"install", "uninstall", "toggle", "allow"}

JobRec == [kind : Kinds, step : Steps, pkg : Pkgs \cup {"-"}]

JobFine(j) ==
  \/ j = NoJob
  \/ /\ j \in JobRec /\ j.step \in StepsOf(j.kind)
     /\ j.kind \in OnPackages => j.pkg \in Pkgs

Queue == Seq(FileNames \cup {"meta"})

Typed ==
  /\ JobFine(job) /\ live \in Combo /\ point \in Combo
  /\ cmd \in {"none", "mark", "restore"} /\ late \in {"none", "watch", "verdict", "copy"}
  /\ left \in [Writers -> Queue] /\ whole \in [Writers -> BOOLEAN]
  /\ meta \in BOOLEAN /\ known \in BOOLEAN /\ blurred \in BOOLEAN

-----------------------------------------------------------------------------
(* Who is at it: a boot under the gate has no late one beside it, and each *)
(* writer has files left only while it takes a snapshot.                   *)
BootsTakeTurns ==
  /\ job.step \in {"prepare", "spawn", "wait", "verdict", "copy"} => late = "none"
  /\ left["late"] # <<>> => late = "copy"
  /\ left["job"] # <<>> => job.step \in {"reserve", "copy"}
  /\ left["cmd"] # <<>> => cmd # "none"

(* A safe boot ends without a snapshot.                                    *)
SafeBootsCopyNothing ==
  /\ boot.safe \in BOOLEAN
  /\ job.step = "copy" \/ late = "copy" => ~boot.safe
  /\ job.step \in {"wait", "verdict"} => boot.safe = (job.kind = "safe")

Snapshot(w) == left[w] # <<>> /\ ~(w = "cmd" /\ cmd = "restore")
Restoring == cmd = "restore" /\ left["cmd"] # <<>>
Vouched(w) == Snapshot(w) /\ ~(w = "job" /\ job.step = "reserve")
Range_(q) == {q[i] : i \in DOMAIN q}

(* A snapshot copies files that are there, then the metadata.              *)
QueuesFine ==
  /\ \A w \in Writers : Snapshot(w) =>
       /\ left[w][Len(left[w])] = "meta"
       /\ \A i \in 1..(Len(left[w]) - 1) : left[w][i] \in FileNames /\ live[left[w][i]] # Absent
  /\ Restoring => \A i \in DOMAIN left["cmd"] : left["cmd"][i] \in FileNames /\ point[left["cmd"][i]] # Absent

(* No file of the profile ever goes away.                                  *)
FilesStay == \A f \in FileNames : point[f] # Absent => live[f] # Absent

(* What an undisturbed snapshot has copied is the state it vouches for.    *)
CopiesAreExact ==
  \A w \in Writers : Vouched(w) /\ whole[w] =>
    /\ live \in good
    /\ \A f \in FileNames : point[f] = live[f] \/ f \in Range_(left[w])

(* A reservation is made where no point was known, or changes nothing.     *)
ReservesNothingNew ==
  /\ known /\ ~blurred => meta
  /\ left["job"] # <<>> /\ job.step = "reserve" /\ known /\ ~blurred => point = live /\ point \in good

IInv == Typed /\ BootsTakeTurns /\ SafeBootsCopyNothing /\ QueuesFine /\ FilesStay
        /\ CopiesAreExact /\ ReservesNothingNew /\ KnownGoodKept

-----------------------------------------------------------------------------
(* The files a snapshot starts with: those that are there, all of them.    *)
LEMMA Joins ==
  ASSUME NEW a \in Seq(FileNames), NEW b \in Seq(FileNames)
  PROVE  a \o b \in Seq(FileNames) /\ Range_(a \o b) = Range_(a) \cup Range_(b)
<1>1. /\ a \o b \in Seq(FileNames) /\ Len(a \o b) = Len(a) + Len(b)
      /\ \A i \in 1..Len(a) : (a \o b)[i] = a[i]
      /\ \A i \in 1..Len(b) : (a \o b)[Len(a) + i] = b[i]
  OBVIOUS
<1>2. \A i \in 1..Len(a \o b) : i \in 1..Len(a) \/ (i - Len(a) \in 1..Len(b) /\ Len(a) + (i - Len(a)) = i)
  BY <1>1
<1>3. \A i \in 1..Len(b) : Len(a) + i \in 1..Len(a \o b)
  BY <1>1
<1>4. \A i \in 1..Len(a) : i \in 1..Len(a \o b)
  BY <1>1
<1>5. DOMAIN (a \o b) = 1..Len(a \o b) /\ DOMAIN a = 1..Len(a) /\ DOMAIN b = 1..Len(b)
  BY <1>1
<1>6. Range_(a \o b) \subseteq Range_(a) \cup Range_(b)
  BY <1>1, <1>2, <1>5 DEF Range_
<1>7. Range_(a) \subseteq Range_(a \o b) /\ Range_(b) \subseteq Range_(a \o b)
  BY <1>1, <1>3, <1>4, <1>5 DEF Range_
<1>8. QED
  BY <1>1, <1>6, <1>7

LEMMA PresentIs ==
  ASSUME NEW files \in Combo
  PROVE  Present(files) \in Seq(FileNames) /\ Range_(Present(files)) = {f \in FileNames : files[f] # Absent}
<1> DEFINE file(f) == IfPresent(files, f)
           two == file("package") \o file("patch")
<1>1. \A f \in FileNames : file(f) \in Seq(FileNames) /\ Range_(file(f)) = {g \in {f} : files[g] # Absent}
  BY DEF IfPresent, Range_
<1>2. "package" \in FileNames /\ "patch" \in FileNames /\ "builds" \in FileNames
  BY DEF FileNames
<1> HIDE DEF file
<1>3. two \in Seq(FileNames) /\ Range_(two) = Range_(file("package")) \cup Range_(file("patch"))
  BY <1>1, <1>2, Joins
<1> HIDE DEF two
<1>4. two \o file("builds") \in Seq(FileNames) /\ Range_(two \o file("builds")) = Range_(two) \cup Range_(file("builds"))
  BY <1>1, <1>2, <1>3, Joins
<1>5. Present(files) = two \o file("builds")
  BY DEF Present, two, file
<1>6. QED
  BY <1>1, <1>3, <1>4, <1>5 DEF FileNames

LEMMA SnapshotStarts ==
  ASSUME NEW files \in Combo, NEW q, q = Present(files) \o <<"meta">>
  PROVE  /\ q \in Queue /\ q # <<>> /\ q[Len(q)] = "meta"
         /\ \A i \in 1..(Len(q) - 1) : q[i] \in FileNames /\ files[q[i]] # Absent
         /\ \A f \in FileNames : files[f] # Absent => f \in Range_(q)
<1>1. PICK s \in Seq(FileNames) : /\ s = Present(files)
                                  /\ \A i \in DOMAIN s : files[s[i]] # Absent
                                  /\ \A f \in FileNames : files[f] # Absent => \E i \in DOMAIN s : s[i] = f
  BY PresentIs DEF Range_
<1>2. Len(q) = Len(s) + 1 /\ q[Len(s) + 1] = "meta" /\ \A i \in 1..Len(s) : q[i] = s[i]
  BY <1>1
<1>3. q \in Queue
  BY <1>1 DEF Queue
<1>4. q # <<>> /\ q[Len(q)] = "meta"
  BY <1>1, <1>2
<1>5. \A i \in 1..(Len(q) - 1) : q[i] \in FileNames /\ files[q[i]] # Absent
  BY <1>1, <1>2
<1>6. ASSUME NEW f \in FileNames, files[f] # Absent
      PROVE  f \in Range_(q)
  <2>1. PICK i \in DOMAIN s : s[i] = f
    BY <1>1, <1>6
  <2>2. i \in DOMAIN q /\ q[i] = f
    BY <1>1, <1>2, <1>3, <2>1 DEF Queue
  <2>3. QED
    BY <2>2 DEF Range_
<1>7. QED
  BY <1>3, <1>4, <1>5, <1>6

LEMMA TailOf ==
  ASSUME NEW q \in Queue, q # <<>>, q[Len(q)] = "meta", Head(q) # "meta",
         \A i \in 1..(Len(q) - 1) : q[i] \in FileNames /\ live[q[i]] # Absent
  PROVE  /\ Tail(q) \in Queue /\ Tail(q) # <<>> /\ Tail(q)[Len(Tail(q))] = "meta" /\ Head(q) \in FileNames
         /\ \A i \in 1..(Len(Tail(q)) - 1) : Tail(q)[i] \in FileNames /\ live[Tail(q)[i]] # Absent
         /\ \A f \in Range_(q) : f = Head(q) \/ f \in Range_(Tail(q))
         /\ live[Head(q)] # Absent
<1>1. Len(q) \in Nat /\ Len(q) > 1
  BY DEF Queue
<1>2. Head(q) = q[1] /\ Len(Tail(q)) = Len(q) - 1 /\ \A i \in 1..Len(Tail(q)) : Tail(q)[i] = q[i + 1]
  BY <1>1 DEF Queue
<1>3. Tail(q) \in Queue /\ DOMAIN q = 1..Len(q) /\ DOMAIN Tail(q) = 1..(Len(q) - 1)
  BY <1>1, <1>2 DEF Queue
<1>4. ASSUME NEW i \in DOMAIN q, i # 1
      PROVE  i - 1 \in DOMAIN Tail(q) /\ q[i] = Tail(q)[i - 1]
  <2>1. i \in Nat /\ i - 1 \in 1..(Len(q) - 1) /\ (i - 1) + 1 = i
    BY <1>1, <1>3, <1>4
  <2>2. QED
    BY <1>2, <1>3, <2>1
<1>5. \A f \in Range_(q) : f = Head(q) \/ f \in Range_(Tail(q))
  BY <1>2, <1>4 DEF Range_
<1>6. Tail(q) # <<>> /\ Tail(q)[Len(Tail(q))] = "meta"
  <2>1. Len(q) - 1 \in 1..Len(Tail(q)) /\ (Len(q) - 1) + 1 = Len(q) /\ Len(Tail(q)) # 0
    BY <1>1, <1>2
  <2>2. Tail(q)[Len(q) - 1] = q[Len(q)]
    BY <1>2, <2>1
  <2>3. Tail(q)[Len(Tail(q))] = "meta"
    BY <1>2, <2>2
  <2>4. Tail(q) # <<>>
    <3>1. Len(<<>>) = 0
      OBVIOUS
    <3>2. QED
      BY <2>1, <3>1
  <2>5. QED
    BY <2>3, <2>4
<1>7. \A i \in 1..(Len(Tail(q)) - 1) : Tail(q)[i] \in FileNames /\ live[Tail(q)[i]] # Absent
  <2>1. \A i \in 1..(Len(Tail(q)) - 1) : i \in 1..Len(Tail(q)) /\ i + 1 \in 1..(Len(q) - 1)
    BY <1>1, <1>2
  <2>2. QED
    BY <1>2, <2>1
<1>8. Head(q) \in FileNames /\ live[Head(q)] # Absent
  BY <1>1, <1>2
<1>9. QED
  BY <1>3, <1>5, <1>6, <1>7, <1>8

-----------------------------------------------------------------------------
(* How jobs go on.                                                         *)
LEMMA JobEnds ==
  ASSUME EndJob
  PROVE  JobFine(job)' /\ job'.step = "none"
BY DEF EndJob, JobFine, NoJob

LEMMA JobGoes ==
  ASSUME JobFine(job), job # NoJob, NEW step \in Steps, GoOn(step), step \in StepsOf(job.kind)
  PROVE  JobFine(job)' /\ job'.step = step /\ job'.kind = job.kind
BY DEF JobFine, JobRec, GoOn

LEMMA JobStarts ==
  ASSUME NEW kind \in Kinds, NEW p \in Pkgs \cup {"-"}, kind \in OnPackages => p \in Pkgs, run_instance_job(kind, p)
  PROVE  JobFine(job)' /\ job'.step = First[kind] /\ job'.step \in {"reserve", "check", "refresh", "switch", "compose"}
BY DEF run_instance_job, JobFine, JobRec, StepsOf, First, OnPackages, Kinds, Launches, Steps

LEMMA Idle ==
  ASSUME BootsTakeTurns, job.step \notin {"reserve", "copy"}
  PROVE  left["job"] = <<>>
BY DEF BootsTakeTurns

-----------------------------------------------------------------------------
(* What keeps the invariant: steps that only move a job or a boot on.      *)
LEMMA QuietKeeps ==
  ASSUME IInv, UNCHANGED <<live, point, left, cmd, meta, known, blurred, good, whole>>,
         JobFine(job)', late' \in {"none", "watch", "verdict", "copy"}, left["job"] # <<>> => job' = job,
         BootsTakeTurns', SafeBootsCopyNothing'
  PROVE  IInv'
<1>1. Typed'
  BY DEF IInv, Typed
<1>2. QueuesFine' /\ FilesStay'
  BY DEF IInv, QueuesFine, FilesStay, Snapshot, Restoring
<1>3. CopiesAreExact'
  BY DEF IInv, CopiesAreExact, Vouched, Snapshot
<1>4. ReservesNothingNew' /\ KnownGoodKept'
  BY DEF IInv, ReservesNothingNew, KnownGoodKept, Settled
<1>5. QED
  BY <1>1, <1>2, <1>3, <1>4 DEF IInv

(* A file of the profile is written.  No snapshot stays undisturbed, and   *)
(* nothing is being reserved.                                              *)
LEMMA WriteKeeps ==
  ASSUME IInv, UNCHANGED <<point, left, cmd, meta, known, blurred, good>>,
         live' \in Combo, \A f \in FileNames : live[f] # Absent => live'[f] # Absent,
         whole' \in [Writers -> BOOLEAN], \A w \in Writers : left[w] # <<>> /\ whole'[w] => whole[w] /\ live' = live,
         JobFine(job)', late' \in {"none", "watch", "verdict", "copy"}, left["job"] = <<>>,
         BootsTakeTurns', SafeBootsCopyNothing'
  PROVE  IInv'
<1>1. Typed'
  BY DEF IInv, Typed
<1>2. QueuesFine' /\ FilesStay'
  BY DEF IInv, QueuesFine, FilesStay, Snapshot, Restoring
<1>3. CopiesAreExact'
  BY DEF IInv, CopiesAreExact, Vouched, Snapshot
<1>4. ReservesNothingNew' /\ KnownGoodKept'
  BY DEF IInv, ReservesNothingNew, KnownGoodKept, Settled
<1>5. QED
  BY <1>1, <1>2, <1>3, <1>4 DEF IInv

LEMMA DisturbIs ==
  ASSUME IInv, NEW new, Disturb(new), live' = new
  PROVE  whole' \in [Writers -> BOOLEAN] /\ \A w \in Writers : whole'[w] => whole[w] /\ live' = live
BY DEF Disturb, IInv, Typed

(* A snapshot begins, with all its files yet to copy.                      *)
LEMMA SnapshotBegins ==
  ASSUME IInv, NEW w \in Writers, left[w] = <<>>, create_snapshot(w),
         UNCHANGED <<live, point, meta, known, blurred>>, good \subseteq good',
         JobFine(job)', cmd' \in {"none", "mark", "restore"}, late' \in {"none", "watch", "verdict", "copy"},
         whole' \in [Writers -> BOOLEAN], \A v \in Writers \ {w} : whole'[v] => whole[v],
         Restoring' => Restoring, \A v \in Writers \ {w} : Snapshot(v)' => Snapshot(v), Snapshot(w)',
         BootsTakeTurns', SafeBootsCopyNothing',
         w # "job" /\ left["job"] # <<>> => job' = job,
         IF w = "job" /\ job'.step = "reserve" THEN ~meta ELSE whole'[w] => live \in good'
  PROVE  IInv'
<1> DEFINE q == Present(live) \o <<"meta">>
<1>0. live \in Combo /\ left \in [Writers -> Queue] /\ left' = [left EXCEPT ![w] = q]
  BY DEF IInv, Typed, create_snapshot
<1>1. /\ q \in Queue /\ q # <<>> /\ q[Len(q)] = "meta"
      /\ \A i \in 1..(Len(q) - 1) : q[i] \in FileNames /\ live[q[i]] # Absent
      /\ \A f \in FileNames : live[f] # Absent => f \in Range_(q)
  BY <1>0, SnapshotStarts
<1> HIDE DEF q
<1>2. left'[w] = q /\ \A v \in Writers \ {w} : left'[v] = left[v]
  BY <1>0
<1>3. Typed'
  BY <1>0, <1>1 DEF IInv, Typed
<1>4. QueuesFine'
  <2>1. ASSUME NEW v \in Writers, Snapshot(v)'
        PROVE  /\ left'[v][Len(left'[v])] = "meta"
               /\ \A i \in 1..(Len(left'[v]) - 1) : left'[v][i] \in FileNames /\ live'[left'[v][i]] # Absent
    <3>1. CASE v = w
      BY <1>1, <1>2, <3>1
    <3>2. CASE v # w
      BY <1>2, <2>1, <3>2 DEF IInv, QueuesFine
    <3>3. QED
      BY <3>1, <3>2
  <2>2. Restoring' => left'["cmd"] = left["cmd"] /\ Restoring
    <3>1. Restoring' => w # "cmd"
      BY DEF Restoring, Snapshot
    <3>2. QED
      BY <1>2, <3>1 DEF Writers
  <2>3. QED
    BY <2>1, <2>2 DEF IInv, QueuesFine
<1>5. FilesStay'
  BY DEF IInv, FilesStay
<1>6. CopiesAreExact'
  <2>1. ASSUME NEW v \in Writers, Vouched(v)', whole'[v]
        PROVE  live' \in good' /\ \A f \in FileNames : point'[f] = live'[f] \/ f \in Range_(left'[v])
    <3>1. CASE v = w
      <4>1. live \in good'
        BY <2>1, <3>1 DEF Vouched
      <4>2. \A f \in FileNames : point[f] = live[f] \/ f \in Range_(q)
        BY <1>1 DEF IInv, FilesStay
      <4>3. QED
        BY <1>2, <3>1, <4>1, <4>2
    <3>2. CASE v # w
      <4>1. Snapshot(v) /\ whole[v] /\ left'[v] = left[v]
        BY <1>2, <2>1, <3>2 DEF Vouched
      <4>2. Vouched(v)
        BY <1>2, <2>1, <3>2, <4>1 DEF Vouched, Snapshot
      <4>3. QED
        BY <4>1, <4>2 DEF IInv, CopiesAreExact
    <3>3. QED
      BY <3>1, <3>2
  <2>2. QED
    BY <2>1 DEF CopiesAreExact
<1>7. ReservesNothingNew'
  BY <1>2 DEF IInv, ReservesNothingNew, Writers
<1>8. KnownGoodKept'
  BY <1>2 DEF KnownGoodKept, Settled, Snapshot
<1>9. QED
  BY <1>3, <1>4, <1>5, <1>6, <1>7, <1>8 DEF IInv

(* A file is copied.                                                       *)
LEMMA CopyKeeps ==
  ASSUME IInv, NEW w \in Writers, CopyFile(w)
  PROVE  IInv'
<1> DEFINE f == Head(left[w])
           q == Tail(left[w])
<1>0. /\ Snapshot(w) /\ left[w] \in Queue /\ left \in [Writers -> Queue] /\ f # "meta" /\ live \in Combo /\ point \in Combo
      /\ left' = [left EXCEPT ![w] = q] /\ point' = [point EXCEPT ![f] = live[f]]
      /\ UNCHANGED <<live, meta, job, cmd, boot, late, good, known, whole, blurred>>
  BY DEF CopyFile, Snapshot, IInv, Typed, profile, history
<1>1. /\ q \in Queue /\ q # <<>> /\ q[Len(q)] = "meta" /\ f \in FileNames
      /\ \A i \in 1..(Len(q) - 1) : q[i] \in FileNames /\ live[q[i]] # Absent
      /\ \A g \in Range_(left[w]) : g = f \/ g \in Range_(q)
      /\ live[f] # Absent
  <2>1. left[w] # <<>> /\ left[w][Len(left[w])] = "meta"
        /\ \A i \in 1..(Len(left[w]) - 1) : left[w][i] \in FileNames /\ live[left[w][i]] # Absent
    BY <1>0 DEF IInv, QueuesFine, Snapshot
  <2>2. QED
    BY <1>0, <2>1, TailOf
<1> HIDE DEF f, q
<1>2. /\ left'[w] = q /\ \A v \in Writers \ {w} : left'[v] = left[v]
      /\ point' \in Combo /\ point'[f] = live[f] /\ \A g \in FileNames \ {f} : point'[g] = point[g]
  BY <1>0, <1>1 DEF Combo
<1>3. \A v \in Writers : (left'[v] = <<>>) = (left[v] = <<>>)
  BY <1>0, <1>1, <1>2 DEF Snapshot
<1>4. Typed' /\ BootsTakeTurns' /\ SafeBootsCopyNothing'
  BY <1>0, <1>1, <1>2, <1>3 DEF IInv, Typed, BootsTakeTurns, SafeBootsCopyNothing, Writers
<1>5. FilesStay'
  BY <1>0, <1>1, <1>2 DEF IInv, FilesStay
<1>6. QueuesFine'
  <2>1. ASSUME NEW v \in Writers, Snapshot(v)'
        PROVE  /\ left'[v][Len(left'[v])] = "meta"
               /\ \A i \in 1..(Len(left'[v]) - 1) : left'[v][i] \in FileNames /\ live'[left'[v][i]] # Absent
    <3>1. CASE v = w
      BY <1>0, <1>1, <1>2, <3>1
    <3>2. CASE v # w
      BY <1>0, <1>2, <2>1, <3>2 DEF IInv, QueuesFine, Snapshot
    <3>3. QED
      BY <3>1, <3>2
  <2>2. Restoring' => Restoring /\ left'["cmd"] = left["cmd"]
    BY <1>0, <1>2, <1>3 DEF Restoring, Snapshot, Writers
  <2>3. QED
    BY <1>0, <1>1, <1>2, <2>1, <2>2 DEF IInv, QueuesFine
<1>7. CopiesAreExact'
  <2>1. ASSUME NEW v \in Writers, Vouched(v)', whole'[v]
        PROVE  live' \in good' /\ \A g \in FileNames : point'[g] = live'[g] \/ g \in Range_(left'[v])
    <3>1. Vouched(v) /\ whole[v]
      BY <1>0, <1>3, <2>1 DEF Vouched, Snapshot
    <3>2. live \in good /\ \A g \in FileNames : point[g] = live[g] \/ g \in Range_(left[v])
      BY <3>1 DEF IInv, CopiesAreExact
    <3>3. QED
      BY <1>0, <1>1, <1>2, <3>2
  <2>2. QED
    BY <2>1 DEF CopiesAreExact
<1>8. ReservesNothingNew'
  <2>1. ASSUME left'["job"] # <<>>, job.step = "reserve", known, ~blurred
        PROVE  point' = live /\ point' \in good
    <3>1. point = live /\ point \in good
      BY <1>3, <2>1 DEF IInv, ReservesNothingNew, Writers
    <3>2. point' = point
      BY <1>0, <1>1, <3>1 DEF Combo
    <3>3. QED
      BY <3>1, <3>2
  <2>2. QED
    BY <1>0, <2>1 DEF IInv, ReservesNothingNew
<1>9. KnownGoodKept'
  BY <1>0, <1>1, <1>2 DEF KnownGoodKept, Settled, Snapshot
<1>10. QED
  BY <1>4, <1>5, <1>6, <1>7, <1>8, <1>9 DEF IInv

(* A snapshot ends: with its metadata, or where a copy failed.             *)
LEMMA SnapshotEnds ==
  ASSUME IInv, NEW w \in Writers, Snapshot(w), left' = [left EXCEPT ![w] = <<>>],
         UNCHANGED <<live, point, good, whole, boot>>, meta' \in BOOLEAN, known' \in BOOLEAN, blurred' \in BOOLEAN,
         AfterSnapshot(w)
  PROVE  /\ Typed' /\ BootsTakeTurns' /\ SafeBootsCopyNothing' /\ QueuesFine' /\ FilesStay' /\ CopiesAreExact'
         /\ left'[w] = <<>> /\ \A v \in Writers \ {w} : left'[v] = left[v] /\ Snapshot(v)' = Snapshot(v)
         /\ left'["job"] # <<>> => job' = job
<1> USE DEF IInv
<1>0. left \in [Writers -> Queue] /\ \A v \in Writers \ {w} : left'[v] = left[v]
  BY DEF Typed
<1>1. left'[w] = <<>>
  BY <1>0
<1>2. left' \in [Writers -> Queue]
  BY <1>0 DEF Queue
<1>3. CASE w = "cmd"
  <2>1. cmd' = "none" /\ UNCHANGED <<job, slot, late>>
    BY <1>3 DEF AfterSnapshot
  <2>2. QED
    BY <1>0, <1>1, <1>2, <1>3, <2>1
       DEF Typed, BootsTakeTurns, SafeBootsCopyNothing, QueuesFine, FilesStay, CopiesAreExact, Vouched, Snapshot, Restoring, Writers
<1>4. CASE w = "late"
  <2>1. late' = "none" /\ UNCHANGED <<job, cmd>>
    BY <1>4 DEF AfterSnapshot
  <2>2. QED
    BY <1>0, <1>1, <1>2, <1>4, <2>1
       DEF Typed, BootsTakeTurns, SafeBootsCopyNothing, QueuesFine, FilesStay, CopiesAreExact, Vouched, Snapshot, Restoring, Writers
<1>5. CASE w = "job"
  <2>1. job.step \in {"reserve", "copy"}
    BY <1>5 DEF BootsTakeTurns, Snapshot
  <2>2. /\ UNCHANGED <<cmd, late>> /\ JobFine(job)' /\ job'.step \in {"none", "check", "approve"}
    <3>1. CASE job.step = "copy"
      BY <1>5, <3>1, JobEnds DEF AfterSnapshot, InStep
    <3>2. CASE job.step = "reserve"
      <4>1. GoOn(IF job.kind = "allow" THEN "approve" ELSE "check") /\ UNCHANGED <<cmd, late>>
        BY <1>5, <3>2 DEF AfterSnapshot, InStep, Reserved, Started
      <4>2. job # NoJob /\ job.kind \in {"install", "allow"}
        BY <3>2 DEF Typed, JobFine, JobRec, NoJob, StepsOf, Kinds, Launches
      <4>3. QED
        BY <4>1, <4>2, JobGoes DEF Typed, StepsOf, Steps
    <3>3. QED
      BY <2>1, <3>1, <3>2
  <2>3. QED
    BY <1>0, <1>1, <1>2, <1>5, <2>2
       DEF Typed, BootsTakeTurns, SafeBootsCopyNothing, QueuesFine, FilesStay, CopiesAreExact, Vouched, Snapshot, Restoring, Writers
<1>6. QED
  BY <1>3, <1>4, <1>5 DEF Writers

LEMMA FailKeeps ==
  ASSUME IInv, NEW w \in Writers, SnapshotFails(w)
  PROVE  IInv'
<1>1. /\ Snapshot(w) /\ left' = [left EXCEPT ![w] = <<>>] /\ blurred' /\ AfterSnapshot(w)
      /\ UNCHANGED <<live, point, good, whole, boot, meta, known>>
  BY DEF SnapshotFails, Snapshot, profile
<1>2. meta' \in BOOLEAN /\ known' \in BOOLEAN /\ blurred' \in BOOLEAN
  BY <1>1 DEF SnapshotFails, IInv, Typed
<1>3. Typed' /\ BootsTakeTurns' /\ SafeBootsCopyNothing' /\ QueuesFine' /\ FilesStay' /\ CopiesAreExact'
  BY <1>1, <1>2, SnapshotEnds
<1>4. ReservesNothingNew' /\ KnownGoodKept'
  BY <1>1 DEF ReservesNothingNew, KnownGoodKept
<1>5. QED
  BY <1>3, <1>4 DEF IInv

LEMMA MetaKeeps ==
  ASSUME IInv, NEW w \in Writers, write_meta(w)
  PROVE  IInv'
<1>0. "meta" \notin FileNames
  BY DEF FileNames
<1>1. /\ left[w] = <<"meta">> /\ left' = [left EXCEPT ![w] = <<>>] /\ meta' = TRUE /\ AfterSnapshot(w)
      /\ UNCHANGED <<live, point, good, whole, boot>>
      /\ IF w = "job" /\ InStep("reserve") THEN UNCHANGED <<known, blurred>>
         ELSE IF whole[w] THEN known' = TRUE /\ blurred' = (blurred /\ \E v \in Writers \ {w} : left[v] # <<>>)
         ELSE blurred' = TRUE /\ UNCHANGED known
  BY DEF write_meta, profile
<1>2. Snapshot(w)
  <2>1. ASSUME w = "cmd", cmd = "restore"
        PROVE  FALSE
    <3>1. Restoring /\ 1 \in DOMAIN left["cmd"] /\ left["cmd"][1] = "meta"
      BY <1>1, <2>1 DEF Restoring
    <3>2. QED
      BY <1>0, <3>1 DEF IInv, QueuesFine
  <2>2. QED
    BY <1>1, <2>1 DEF Snapshot
<1>3. meta' \in BOOLEAN /\ known' \in BOOLEAN /\ blurred' \in BOOLEAN
  BY <1>1 DEF IInv, Typed
<1>4. /\ Typed' /\ BootsTakeTurns' /\ SafeBootsCopyNothing' /\ QueuesFine' /\ FilesStay' /\ CopiesAreExact'
      /\ left'[w] = <<>> /\ \A v \in Writers \ {w} : left'[v] = left[v] /\ Snapshot(v)' = Snapshot(v)
      /\ left'["job"] # <<>> => job' = job
  BY <1>1, <1>2, <1>3, SnapshotEnds
<1>5. Vouched(w) /\ whole[w] => point = live /\ point \in good
  <2>1. SUFFICES ASSUME Vouched(w), whole[w]
                 PROVE  point = live /\ live \in good
    OBVIOUS
  <2>2. Range_(left[w]) = {"meta"}
    BY <1>1 DEF Range_
  <2>3. live \in good /\ \A f \in FileNames : point[f] = live[f]
    BY <1>0, <2>1, <2>2 DEF IInv, CopiesAreExact
  <2>4. QED
    BY <2>3 DEF IInv, Typed, Combo
<1>6. CASE w = "job" /\ InStep("reserve")
  <2>1. known /\ ~blurred => point \in good
    BY <1>1, <1>6 DEF InStep, IInv, ReservesNothingNew
  <2>2. KnownGoodKept'
    BY <1>1, <1>6, <2>1 DEF KnownGoodKept
  <2>3. ReservesNothingNew'
    BY <1>1, <1>4, <1>6 DEF ReservesNothingNew
  <2>4. QED
    BY <1>4, <2>2, <2>3 DEF IInv
<1>7. CASE ~(w = "job" /\ InStep("reserve"))
  <2>1. Vouched(w)
    BY <1>2, <1>7 DEF Vouched, InStep
  <2>2. blurred' \/ (point = live /\ point \in good)
    BY <1>1, <1>5, <1>7, <2>1
  <2>3. KnownGoodKept' /\ ReservesNothingNew'
    BY <1>1, <2>2 DEF KnownGoodKept, ReservesNothingNew
  <2>4. QED
    BY <1>4, <2>3 DEF IInv
<1>8. QED
  BY <1>6, <1>7

-----------------------------------------------------------------------------
(* Jobs.                                                                   *)
LEMMA StartKeeps ==
  ASSUME IInv, NEW kind \in Kinds, NEW p \in Pkgs \cup {"-"}, kind \in OnPackages => p \in Pkgs, run_instance_job(kind, p)
  PROVE  IInv'
<1>1. /\ job = NoJob /\ left["job"] = <<>> /\ JobFine(job)' /\ job'.step \in {"reserve", "check", "refresh", "switch", "compose"}
      /\ UNCHANGED <<live, point, left, cmd, meta, known, blurred, good, whole, late, boot>>
  BY JobStarts, Idle DEF run_instance_job, NoJob, history, profile, IInv
<1>2. BootsTakeTurns' /\ SafeBootsCopyNothing'
  BY <1>1 DEF IInv, BootsTakeTurns, SafeBootsCopyNothing
<1>3. QED
  BY <1>1, <1>2, QuietKeeps DEF IInv, Typed

LEMMA KindOfStep ==
  ASSUME JobFine(job), job.step # "none"
  PROVE  /\ job # NoJob /\ job \in JobRec /\ job.step \in StepsOf(job.kind)
         /\ job.step \in {"reserve", "check", "add", "land", "remove", "unrow", "flip", "approve"} => job.kind \in OnPackages /\ job.pkg \in Pkgs
         /\ job.step = "prepare" \/ job.step = "copy" => job.kind = "launch"
BY DEF JobFine, NoJob, JobRec, StepsOf, OnPackages, Kinds, Launches

(* A job that is not at a boot moves on, or ends.                          *)
LEMMA JobMoves ==
  ASSUME IInv, job.step \notin {"none", "reserve", "copy", "prepare", "spawn", "wait", "verdict"},
         EndJob \/ \E step \in StepsOf(job.kind) \cap (Steps \ {"prepare", "spawn", "wait", "verdict", "copy"}) : GoOn(step),
         UNCHANGED <<left, cmd, boot, late>>
  PROVE  left["job"] = <<>> /\ JobFine(job)' /\ BootsTakeTurns' /\ SafeBootsCopyNothing'
<1>1. left["job"] = <<>>
  BY Idle DEF IInv
<1>2. JobFine(job)' /\ job'.step \notin {"prepare", "spawn", "wait", "verdict", "copy"}
  BY JobEnds, JobGoes, KindOfStep DEF IInv, Typed
<1>3. QED
  BY <1>1, <1>2 DEF IInv, BootsTakeTurns, SafeBootsCopyNothing

LEMMA FilesTyped ==
  ASSUME live \in Combo
  PROVE  /\ Package \in SUBSET Pkgs /\ Patch \in SUBSET Pkgs
         /\ \A p, q \in SUBSET Pkgs : /\ [live EXCEPT !["package"] = p, !["patch"] = q] \in Combo
                                      /\ [live EXCEPT !["package"] = p] \in Combo /\ [live EXCEPT !["patch"] = q] \in Combo
                                      /\ [live EXCEPT !["builds"] = q] \in Combo
         /\ \A p \in SUBSET Pkgs : p # Absent
BY ProfileAssumption DEF Combo, Package, Patch, Absent, FileNames

LEMMA ChangeKeeps ==
  ASSUME IInv, NEW new \in Combo, \A f \in FileNames : live[f] # Absent => new[f] # Absent, live' = new, Disturb(new),
         UNCHANGED <<point, left, cmd, meta, known, blurred, good, boot, late>>,
         job.step \notin {"none", "reserve", "copy", "prepare", "spawn", "wait", "verdict"},
         EndJob \/ \E step \in StepsOf(job.kind) \cap (Steps \ {"prepare", "spawn", "wait", "verdict", "copy"}) : GoOn(step)
  PROVE  IInv'
<1>1. left["job"] = <<>> /\ JobFine(job)' /\ BootsTakeTurns' /\ SafeBootsCopyNothing'
  BY JobMoves
<1>2. whole' \in [Writers -> BOOLEAN] /\ \A w \in Writers : whole'[w] => whole[w] /\ live' = live
  BY DisturbIs
<1>3. late' \in {"none", "watch", "verdict", "copy"}
  BY DEF IInv, Typed
<1>4. QED
  BY <1>1, <1>2, <1>3, WriteKeeps

LEMMA QuarantinedIs ==
  ASSUME live \in Combo, NEW missed
  PROVE  /\ Quarantined(missed) \in Combo /\ \A f \in FileNames : live[f] # Absent => Quarantined(missed)[f] # Absent
         /\ Quarantined(missed)["package"] = live["package"]
<1>1. Patch \cup ((Package \cap Unbuilt) \ missed) \in SUBSET Pkgs
  BY FilesTyped
<1>2. QED
  BY <1>1, FilesTyped DEF Quarantined, Combo, FileNames

LEMMA MaterializedIs ==
  ASSUME live \in Combo
  PROVE  Materialized \in Combo /\ \A f \in FileNames : live[f] # Absent => Materialized[f] # Absent
<1>1. {} \in SUBSET Pkgs
  OBVIOUS
<1>2. QED
  BY <1>1, FilesTyped DEF Materialized, Combo

LEMMA JobKeeps ==
  ASSUME IInv, JobStep
  PROVE  IInv'
<1> USE DEF history, profile
<1>0. live \in Combo /\ JobFine(job) /\ late \in {"none", "watch", "verdict", "copy"}
  BY DEF IInv, Typed
<1>1. CASE ensure_not_running
  <2>1. job.step = "check" /\ job.kind \in OnPackages
    BY <1>0, <1>1, KindOfStep DEF ensure_not_running, InStep
  <2>2. PICK step \in {"add", "remove", "flip", "reserve"} : GoOn(step) /\ step \in StepsOf(job.kind)
    BY <1>0, <1>1, <2>1, KindOfStep DEF ensure_not_running, Started, OnPackages, StepsOf
  <2>3. UNCHANGED <<live, point, left, cmd, meta, known, blurred, good, whole, boot, late>>
    BY <1>1 DEF ensure_not_running
  <2>4. left["job"] = <<>> /\ JobFine(job)' /\ BootsTakeTurns' /\ SafeBootsCopyNothing'
    BY <2>1, <2>2, <2>3, JobMoves DEF Steps
  <2>5. QED
    BY <1>0, <2>3, <2>4, QuietKeeps
<1>2. CASE reserve_rescue_point
  <2>1. /\ job.step = "reserve" /\ left["job"] = <<>> /\ job.kind \in {"install", "allow"}
        /\ UNCHANGED <<live, point, cmd, meta, known, blurred, good, whole, boot, late>>
    BY <1>0, <1>2, KindOfStep DEF reserve_rescue_point, InStep, StepsOf, OnPackages
  <2>2. CASE Reserved /\ UNCHANGED left
    <3>1. PICK step \in {"approve", "check"} : GoOn(step) /\ step \in StepsOf(job.kind)
      BY <2>1, <2>2 DEF Reserved, Started, StepsOf
    <3>2. JobFine(job)' /\ job'.step = step
      BY <1>0, <2>1, <3>1, JobGoes, KindOfStep DEF Steps
    <3>3. BootsTakeTurns' /\ SafeBootsCopyNothing'
      BY <2>1, <2>2, <3>2 DEF IInv, BootsTakeTurns, SafeBootsCopyNothing
    <3>4. QED
      BY <1>0, <2>1, <2>2, <3>2, <3>3, QuietKeeps
  <2>3. CASE ~meta /\ create_snapshot("job") /\ UNCHANGED job
    <3>1. left' = [left EXCEPT !["job"] = Present(live) \o <<"meta">>] /\ left \in [Writers -> Queue]
      BY <2>3 DEF create_snapshot, IInv, Typed
    <3>2. left'["job"] # <<>> /\ \A v \in Writers \ {"job"} : left'[v] = left[v]
      BY <1>0, <3>1, SnapshotStarts DEF Writers
    <3>3. BootsTakeTurns' /\ SafeBootsCopyNothing' /\ JobFine(job)'
      BY <2>1, <2>3, <3>2 DEF IInv, Typed, BootsTakeTurns, SafeBootsCopyNothing, Writers
    <3>4. (Restoring' => Restoring) /\ (\A v \in Writers \ {"job"} : Snapshot(v)' => Snapshot(v)) /\ Snapshot("job")'
      BY <2>1, <3>2 DEF Restoring, Snapshot, Writers
    <3>5. QED
      BY <1>0, <2>1, <2>3, <3>3, <3>4, SnapshotBegins DEF IInv, Typed, Writers
  <2>4. QED
    BY <1>2, <2>2, <2>3 DEF reserve_rescue_point, snapshot_if_absent, snapshot_status
<1>3. CASE JobFails
  <2>1. UNCHANGED <<live, point, left, cmd, meta, known, blurred, good, whole, boot, late>> /\ EndJob
    BY <1>3 DEF JobFails
  <2>2. left["job"] = <<>> /\ JobFine(job)' /\ BootsTakeTurns' /\ SafeBootsCopyNothing'
    BY <1>3, <2>1, JobMoves DEF JobFails
  <2>3. QED
    BY <1>0, <2>1, <2>2, QuietKeeps
<1>4. CASE refresh_plugin_inventory_cache
  <2>1. UNCHANGED <<live, point, left, cmd, meta, known, blurred, good, whole, boot, late>> /\ (EndJob \/ GoOn("rebuild"))
    BY <1>4 DEF refresh_plugin_inventory_cache
  <2>2. job.step = "refresh" /\ "rebuild" \in StepsOf(job.kind)
    BY <1>0, <1>4, KindOfStep DEF refresh_plugin_inventory_cache, InStep, StepsOf
  <2>3. left["job"] = <<>> /\ JobFine(job)' /\ BootsTakeTurns' /\ SafeBootsCopyNothing'
    BY <2>1, <2>2, JobMoves DEF Steps
  <2>4. QED
    BY <1>0, <2>1, <2>3, QuietKeeps
<1>5. CASE rebuild_library_inventory_cache_from_disk
  <2>1. PICK missed \in SUBSET Unbuilt : live' = Quarantined(missed) /\ Disturb(Quarantined(missed))
    BY <1>5 DEF rebuild_library_inventory_cache_from_disk
  <2>2. QED
    BY <1>0, <1>5, <2>1, QuarantinedIs, ChangeKeeps DEF rebuild_library_inventory_cache_from_disk, InStep
<1>6. ASSUME NEW from \in {"add", "land", "remove", "unrow", "flip", "approve"}, NEW to \in {"land", "refresh", "unrow", "none"},
             NEW new \in Combo, \A f \in FileNames : live[f] # Absent => new[f] # Absent, Change(from, new, to),
             job.kind \in OnPackages => to \in StepsOf(job.kind) \cup {"none"}
      PROVE  IInv'
  <2>1. job.step = from /\ job.kind \in OnPackages
    BY <1>0, <1>6, KindOfStep DEF Change, InStep
  <2>2. EndJob \/ \E step \in StepsOf(job.kind) \cap (Steps \ {"prepare", "spawn", "wait", "verdict", "copy"}) : GoOn(step)
    BY <1>6, <2>1 DEF Change, Steps
  <2>3. UNCHANGED <<point, left, cmd, meta, known, blurred, good, boot, late>> /\ live' = new /\ Disturb(new)
    BY <1>6 DEF Change
  <2>4. QED
    BY <1>6, <2>1, <2>2, <2>3, ChangeKeeps
<1>7. job.step \in {"add", "land", "remove", "unrow", "flip", "approve"} => job.pkg \in Pkgs /\ job.step \in StepsOf(job.kind)
  BY <1>0, KindOfStep
<1>8. \A p, q \in SUBSET Pkgs :
        /\ \A f \in FileNames : live[f] # Absent => [live EXCEPT !["package"] = p, !["patch"] = q][f] # Absent
        /\ \A f \in FileNames : live[f] # Absent => [live EXCEPT !["package"] = p][f] # Absent
        /\ \A f \in FileNames : live[f] # Absent => [live EXCEPT !["patch"] = q][f] # Absent
        /\ \A f \in FileNames : live[f] # Absent => [live EXCEPT !["builds"] = q][f] # Absent
  BY <1>0, FilesTyped DEF Combo
<1>9. CASE PluginAdd
  <2> DEFINE q == Package \cup {job.pkg}
             new == [live EXCEPT !["package"] = q, !["patch"] = Patch]
  <2>1. Change("add", new, "land") /\ job.step = "add"
    BY <1>9 DEF PluginAdd, Change, InStep
  <2>2. q \in SUBSET Pkgs
    BY <1>0, <1>7, <2>1, FilesTyped
  <2>3. job.kind \in OnPackages => "land" \in StepsOf(job.kind)
    BY <1>7, <2>1 DEF StepsOf, OnPackages
  <2> HIDE DEF q
  <2>4. new \in Combo /\ \A f \in FileNames : live[f] # Absent => new[f] # Absent
    BY <1>0, <1>8, <2>2, FilesTyped
  <2> HIDE DEF new
  <2>5. QED
    BY <1>6, <2>1, <2>3, <2>4
<1>10. CASE land_install_disabled
  <2> DEFINE q == IF job.pkg \in Skins THEN Patch \ {job.pkg} ELSE Patch \cup {job.pkg}
             new == [live EXCEPT !["patch"] = q]
  <2>1. Change("land", new, "refresh") /\ job.step = "land"
    BY <1>10 DEF land_install_disabled, Change, InStep
  <2>2. q \in SUBSET Pkgs
    BY <1>0, <1>7, <2>1, FilesTyped
  <2>3. job.kind \in OnPackages => "refresh" \in StepsOf(job.kind)
    BY <1>7, <2>1 DEF StepsOf, OnPackages
  <2> HIDE DEF q
  <2>4. new \in Combo /\ \A f \in FileNames : live[f] # Absent => new[f] # Absent
    BY <1>0, <1>8, <2>2, FilesTyped
  <2> HIDE DEF new
  <2>5. QED
    BY <1>6, <2>1, <2>3, <2>4
<1>11. CASE PluginRemove
  <2> DEFINE q == Package \ {job.pkg}
             new == [live EXCEPT !["package"] = q]
  <2>1. Change("remove", new, "unrow") /\ job.step = "remove"
    BY <1>11 DEF PluginRemove, Change, InStep
  <2>2. q \in SUBSET Pkgs
    BY <1>0, <1>7, <2>1, FilesTyped
  <2>3. job.kind \in OnPackages => "unrow" \in StepsOf(job.kind)
    BY <1>7, <2>1 DEF StepsOf, OnPackages
  <2> HIDE DEF q
  <2>4. new \in Combo /\ \A f \in FileNames : live[f] # Absent => new[f] # Absent
    BY <1>0, <1>8, <2>2, FilesTyped
  <2> HIDE DEF new
  <2>5. QED
    BY <1>6, <2>1, <2>3, <2>4
<1>12. CASE remove_patch_rows
  <2> DEFINE q == Patch \ {job.pkg}
             new == [live EXCEPT !["patch"] = q]
  <2>1. Change("unrow", new, "refresh") /\ job.step = "unrow"
    BY <1>12 DEF remove_patch_rows, Change, InStep
  <2>2. q \in SUBSET Pkgs
    BY <1>0, <1>7, <2>1, FilesTyped
  <2>3. job.kind \in OnPackages => "refresh" \in StepsOf(job.kind)
    BY <1>7, <2>1 DEF StepsOf, OnPackages
  <2> HIDE DEF q
  <2>4. new \in Combo /\ \A f \in FileNames : live[f] # Absent => new[f] # Absent
    BY <1>0, <1>8, <2>2, FilesTyped
  <2> HIDE DEF new
  <2>5. QED
    BY <1>6, <2>1, <2>3, <2>4
<1>13. CASE plugin_toggle
  <2> DEFINE q == IF job.pkg \in Patch THEN Patch \ {job.pkg} ELSE Patch \cup {job.pkg}
             new == [live EXCEPT !["patch"] = q]
  <2>1. Change("flip", new, "refresh") /\ job.step = "flip"
    BY <1>13 DEF plugin_toggle, Change, InStep
  <2>2. q \in SUBSET Pkgs
    BY <1>0, <1>7, <2>1, FilesTyped
  <2>3. job.kind \in OnPackages => "refresh" \in StepsOf(job.kind)
    BY <1>7, <2>1 DEF StepsOf, OnPackages
  <2> HIDE DEF q
  <2>4. new \in Combo /\ \A f \in FileNames : live[f] # Absent => new[f] # Absent
    BY <1>0, <1>8, <2>2, FilesTyped
  <2> HIDE DEF new
  <2>5. QED
    BY <1>6, <2>1, <2>3, <2>4
<1>14. CASE plugin_allow_build
  <2> DEFINE q == insert_allow_build(live["builds"], job.pkg)
             new == [live EXCEPT !["builds"] = q]
  <2>1. Change("approve", new, "none") /\ job.step = "approve"
    BY <1>14 DEF plugin_allow_build, Change, InStep, add_allow_build
  <2>2. q \in SUBSET Pkgs
    BY <1>0, <1>7, <2>1, FilesTyped DEF insert_allow_build, Combo, FileNames
  <2> HIDE DEF q
  <2>3. new \in Combo /\ \A f \in FileNames : live[f] # Absent => new[f] # Absent
    BY <1>0, <1>8, <2>2, FilesTyped
  <2> HIDE DEF new
  <2>4. QED
    BY <1>6, <2>1, <2>3
<1>15. QED
  BY <1>1, <1>2, <1>3, <1>4, <1>5, <1>9, <1>10, <1>11, <1>12, <1>13, <1>14 DEF JobStep

-----------------------------------------------------------------------------
(* Launches, in time and late.                                             *)
LEMMA LaunchGoes ==
  ASSUME IInv, job.step \in {"switch", "prepare", "spawn", "wait"}, left["late"] = <<>>,
         \/ EndJob
         \/ /\ \E step \in {"prepare", "spawn", "wait", "verdict"} : GoOn(step) /\ step \in StepsOf(job.kind)
            /\ late' = "none"
            /\ job'.step \in {"wait", "verdict"} => boot'.safe = Started("safe"),
         late' \in {"none", "watch"}, boot'.safe \in BOOLEAN, UNCHANGED <<left, cmd>>
  PROVE  left["job"] = <<>> /\ JobFine(job)' /\ BootsTakeTurns' /\ SafeBootsCopyNothing'
<1>1. left["job"] = <<>> /\ JobFine(job) /\ job # NoJob /\ job.kind \in Kinds
  BY Idle, KindOfStep DEF IInv, Typed, JobRec
<1>2. CASE EndJob
  BY <1>1, <1>2, JobEnds DEF IInv, BootsTakeTurns, SafeBootsCopyNothing
<1>3. CASE ~EndJob
  <2>1. PICK step \in {"prepare", "spawn", "wait", "verdict"} : GoOn(step) /\ step \in StepsOf(job.kind)
    BY <1>3
  <2>2. JobFine(job)' /\ job'.step = step /\ job'.kind = job.kind
    BY <1>1, <2>1, JobGoes DEF Steps
  <2>3. QED
    BY <1>1, <1>3, <2>2 DEF IInv, BootsTakeTurns, SafeBootsCopyNothing, Started
<1>4. QED
  BY <1>2, <1>3

(* The verdict on a URL, in time ("job") or late.                          *)
LEMMA VerdictKeeps ==
  ASSUME IInv, NEW w \in {"job", "late"}, Verdict(w)
  PROVE  IInv'
<1> USE DEF history, profile
<1>0. /\ w \in Writers /\ live \in Combo /\ left \in [Writers -> Queue] /\ JobFine(job)
      /\ cmd \in {"none", "mark", "restore"} /\ late \in {"none", "watch", "verdict", "copy"} /\ whole \in [Writers -> BOOLEAN]
  BY DEF IInv, Typed, Writers
<1>1. UNCHANGED <<live, point, meta, cmd, boot, known, whole, blurred>>
  BY DEF Verdict
<1>2. IF w = "job" THEN job.step = "verdict" ELSE late = "verdict"
  BY DEF Verdict, InStep
<1>3. left["late"] = <<>> /\ (w = "job" => left["job"] = <<>> /\ late = "none")
  BY <1>2 DEF IInv, BootsTakeTurns
<1>4. w = "late" => job.step \notin {"prepare", "spawn", "wait", "verdict", "copy"}
  BY <1>2 DEF IInv, BootsTakeTurns
<1>5. CASE /\ UNCHANGED <<left, good>>
           /\ IF w = "job" THEN EndJob /\ UNCHANGED late ELSE late' = "none" /\ UNCHANGED job
  <2>1. JobFine(job)' /\ late' \in {"none", "watch", "verdict", "copy"} /\ (left["job"] # <<>> => job' = job)
    BY <1>0, <1>3, <1>5, JobEnds
  <2>2. BootsTakeTurns' /\ SafeBootsCopyNothing'
    <3>1. CASE w = "job"
      BY <1>1, <1>3, <1>5, <3>1, JobEnds DEF IInv, BootsTakeTurns, SafeBootsCopyNothing
    <3>2. CASE w = "late"
      BY <1>1, <1>3, <1>4, <1>5, <3>2 DEF IInv, BootsTakeTurns, SafeBootsCopyNothing
    <3>3. QED
      BY <3>1, <3>2
  <2>3. QED
    BY <1>1, <1>5, <2>1, <2>2, QuietKeeps
<1>6. CASE /\ ~boot.safe /\ create_snapshot(w) /\ good' = IF whole[w] THEN good \cup {live} ELSE good
           /\ IF w = "job" THEN GoOn("copy") /\ UNCHANGED late ELSE late' = "copy" /\ UNCHANGED job
  <2>1. left' = [left EXCEPT ![w] = Present(live) \o <<"meta">>]
    BY <1>6 DEF create_snapshot
  <2>2. left'[w] # <<>> /\ \A v \in Writers \ {w} : left'[v] = left[v]
    BY <1>0, <2>1, SnapshotStarts
  <2>3. JobFine(job)' /\ late' \in {"none", "watch", "verdict", "copy"} /\ BootsTakeTurns' /\ SafeBootsCopyNothing'
    <3>1. CASE w = "job"
      <4>1. job.kind = "launch" /\ job # NoJob
        BY <1>0, <1>2, <1>6, <3>1, KindOfStep DEF IInv, SafeBootsCopyNothing, JobRec, StepsOf, Kinds, Launches
      <4>2. JobFine(job)' /\ job'.step = "copy" /\ late' = "none"
        BY <1>0, <1>3, <1>6, <3>1, <4>1, JobGoes DEF StepsOf, Steps
      <4>3. QED
        BY <1>1, <1>3, <1>6, <2>2, <3>1, <4>2 DEF IInv, BootsTakeTurns, SafeBootsCopyNothing, Writers
    <3>2. CASE w = "late"
      BY <1>0, <1>1, <1>3, <1>4, <1>6, <2>2, <3>2 DEF IInv, BootsTakeTurns, SafeBootsCopyNothing, Writers
    <3>3. QED
      BY <3>1, <3>2
  <2>4. (Restoring' => Restoring) /\ (\A v \in Writers \ {w} : Snapshot(v)' => Snapshot(v)) /\ Snapshot(w)'
    BY <1>0, <1>1, <2>2 DEF Restoring, Snapshot, Writers
  <2>5. ~(w = "job" /\ job'.step = "reserve")
    BY <1>0, <1>2, <1>6, KindOfStep DEF GoOn, JobRec
  <2>6. good \subseteq good' /\ (whole'[w] => live \in good')
    BY <1>1, <1>6
  <2>7. left[w] = <<>> /\ (w # "job" /\ left["job"] # <<>> => job' = job) /\ create_snapshot(w)
    BY <1>3, <1>6
  <2>8. QED
    BY <1>0, <1>1, <2>3, <2>4, <2>5, <2>6, <2>7, SnapshotBegins
<1>7. QED
  BY <1>5, <1>6 DEF Verdict, finalize_ready

LEMMA LaunchKeeps ==
  ASSUME IInv, LaunchStep
  PROVE  IInv'
<1> USE DEF history, profile
<1>0. /\ live \in Combo /\ JobFine(job) /\ late \in {"none", "watch", "verdict", "copy"}
      /\ left \in [Writers -> Queue] /\ whole \in [Writers -> BOOLEAN] /\ boot.safe \in BOOLEAN
  BY DEF IInv, Typed, SafeBootsCopyNothing
<1>1. CASE write_safe_profile \/ do_safe_launch
  <2>1. /\ UNCHANGED <<live, point, left, cmd, meta, known, blurred, good, whole, boot, late>>
        /\ job.step \in {"compose", "dump"} /\ (EndJob \/ UNCHANGED job \/ \E step \in {"dump", "switch"} : GoOn(step))
    BY <1>1 DEF write_safe_profile, do_safe_launch, InStep
  <2>2. job.kind = "safe"
    BY <1>0, <2>1, KindOfStep DEF StepsOf, JobRec, Kinds, Launches
  <2>3. left["job"] = <<>> /\ JobFine(job)' /\ BootsTakeTurns' /\ SafeBootsCopyNothing'
    <3>1. CASE UNCHANGED job
      BY <1>0, <2>1, <3>1, Idle DEF IInv, BootsTakeTurns, SafeBootsCopyNothing
    <3>2. CASE ~UNCHANGED job
      BY <2>1, <2>2, <3>2, JobMoves DEF StepsOf, Steps
    <3>3. QED
      BY <3>1, <3>2
  <2>4. QED
    BY <1>0, <2>1, <2>3, QuietKeeps
<1>2. CASE Switch
  <2>1. /\ UNCHANGED <<live, point, left, cmd, meta, known, blurred, good, whole, boot>>
        /\ job.step = "switch" /\ late \in {"none", "watch"}
        /\ \/ EndJob /\ late' = late
           \/ late' = "none" /\ GoOn(IF job.kind = "launch" THEN "prepare" ELSE "spawn")
    BY <1>2 DEF Switch, InStep, SlotFree, Started
  <2>2. left["late"] = <<>>
    BY <2>1 DEF IInv, BootsTakeTurns
  <2>3. job.kind \in {"launch", "safe"} /\ job # NoJob
    BY <1>0, <2>1, KindOfStep DEF StepsOf, JobRec, Kinds, Launches
  <2>4. EndJob \/ \E step \in {"prepare", "spawn"} : GoOn(step) /\ step \in StepsOf(job.kind) /\ job'.step = step /\ late' = "none"
    BY <1>0, <2>1, <2>3, JobGoes DEF StepsOf, Steps
  <2>5. left["job"] = <<>> /\ JobFine(job)' /\ BootsTakeTurns' /\ SafeBootsCopyNothing'
    BY <1>0, <2>1, <2>2, <2>4, LaunchGoes
  <2>6. QED
    BY <1>0, <2>1, <2>5, QuietKeeps
<1>3. ASSUME job.step \in {"prepare", "spawn", "wait"}
      PROVE  late = "none" /\ left["late"] = <<>> /\ left["job"] = <<>> /\ job.kind \in {"launch", "safe"} /\ job # NoJob
  BY <1>0, <1>3, KindOfStep DEF IInv, BootsTakeTurns, StepsOf, JobRec, Kinds, Launches
<1>4. CASE Prepare
  <2>1. /\ UNCHANGED <<point, left, cmd, meta, known, blurred, good, boot, late>>
        /\ job.step = "prepare" /\ GoOn("spawn")
        /\ \E missed \in SUBSET Unbuilt : live' = Quarantined(missed) /\ Disturb(Quarantined(missed))
    BY <1>4 DEF Prepare, InStep
  <2>2. "spawn" \in StepsOf(job.kind) /\ job'.step = "spawn"
    BY <1>0, <1>3, <2>1, JobGoes DEF StepsOf, Steps
  <2>3. left["job"] = <<>> /\ JobFine(job)' /\ BootsTakeTurns' /\ SafeBootsCopyNothing'
    BY <1>0, <1>3, <2>1, <2>2, LaunchGoes
  <2>4. whole' \in [Writers -> BOOLEAN] /\ \A w \in Writers : whole'[w] => whole[w] /\ live' = live
    BY <2>1, DisturbIs
  <2>5. QED
    BY <1>0, <2>1, <2>3, <2>4, QuarantinedIs, WriteKeeps
<1>5. CASE Spawn
  <2>1. /\ UNCHANGED <<point, left, cmd, meta, known, blurred, good, late>>
        /\ job.step = "spawn" /\ GoOn("wait") /\ boot'.safe = Started("safe") /\ (live' = live \/ live' = Materialized)
        /\ whole' = [w \in Writers |-> w # "cmd" \/ (whole[w] /\ live' = live)]
    BY <1>5 DEF Spawn, InStep
  <2>2. "wait" \in StepsOf(job.kind) /\ job'.step = "wait"
    BY <1>0, <1>3, <2>1, JobGoes DEF StepsOf, Steps
  <2>3. left["job"] = <<>> /\ JobFine(job)' /\ BootsTakeTurns' /\ SafeBootsCopyNothing'
    BY <1>0, <1>3, <2>1, <2>2, LaunchGoes DEF Started
  <2>4. whole' \in [Writers -> BOOLEAN] /\ \A w \in Writers : left[w] # <<>> /\ whole'[w] => whole[w] /\ live' = live
    BY <1>0, <1>3, <2>1 DEF Writers
  <2>5. QED
    BY <1>0, <2>1, <2>3, <2>4, MaterializedIs, WriteKeeps
<1>6. CASE SpawnFails
  <2>1. UNCHANGED <<live, point, left, cmd, meta, known, blurred, good, whole, boot, late>> /\ EndJob /\ job.step = "spawn"
    BY <1>6 DEF SpawnFails, InStep
  <2>2. left["job"] = <<>> /\ JobFine(job)' /\ BootsTakeTurns' /\ SafeBootsCopyNothing'
    BY <1>0, <1>3, <2>1, LaunchGoes
  <2>3. QED
    BY <1>0, <2>1, <2>2, QuietKeeps
<1>7. CASE AwaitUrl
  <2>1. /\ UNCHANGED <<live, point, left, cmd, meta, known, blurred, good, whole, boot>> /\ job.step = "wait"
        /\ \/ GoOn("verdict") /\ late' = late
           \/ EndJob /\ late' \in {late, "watch"}
    BY <1>7 DEF AwaitUrl, InStep
  <2>2. boot'.safe = Started("safe")
    BY <1>0, <1>3, <2>1 DEF IInv, SafeBootsCopyNothing, Started
  <2>3. EndJob \/ (GoOn("verdict") /\ late' = "none")
    BY <1>3, <2>1
  <2>4. "verdict" \in StepsOf(job.kind) /\ late' \in {"none", "watch"}
    BY <1>3, <2>1 DEF StepsOf
  <2>5. left["job"] = <<>> /\ JobFine(job)' /\ BootsTakeTurns' /\ SafeBootsCopyNothing'
    BY <1>0, <1>3, <2>1, <2>2, <2>3, <2>4, LaunchGoes
  <2>6. QED
    BY <1>0, <1>3, <2>1, <2>4, <2>5, QuietKeeps
<1>8. QED
  BY <1>1, <1>2, <1>4, <1>5, <1>6, <1>7, VerdictKeeps DEF LaunchStep

-----------------------------------------------------------------------------
(* Steps that only touch the boot.                                         *)
LEMMA BootKeeps ==
  ASSUME IInv, LateUrl \/ Stopped
  PROVE  IInv'
<1>1. /\ UNCHANGED <<live, point, left, cmd, meta, known, blurred, good, whole, boot, job>>
      /\ late' \in {"none", "verdict"} /\ late \in {"none", "watch"}
      /\ late' = "verdict" => late = "watch"
  BY DEF LateUrl, Stopped, SlotFree, history, profile
<1>2. left["late"] = <<>>
  BY <1>1 DEF IInv, BootsTakeTurns
<1>3. BootsTakeTurns' /\ SafeBootsCopyNothing'
  BY <1>1, <1>2 DEF IInv, BootsTakeTurns, SafeBootsCopyNothing
<1>4. JobFine(job)' /\ late' \in {"none", "watch", "verdict", "copy"}
  BY <1>1 DEF IInv, Typed
<1>5. QED
  BY <1>1, <1>3, <1>4, QuietKeeps

-----------------------------------------------------------------------------
(* The rescue commands.                                                    *)
LEMMA MarkKeeps ==
  ASSUME IInv, rescue_create
  PROVE  IInv'
<1>0. live \in Combo /\ left \in [Writers -> Queue] /\ whole \in [Writers -> BOOLEAN] /\ "cmd" \in Writers
      /\ JobFine(job) /\ late \in {"none", "watch", "verdict", "copy"}
  BY DEF IInv, Typed, Writers
<1>1. /\ UNCHANGED <<live, point, meta, known, blurred, job, late, boot>> /\ cmd = "none" /\ cmd' = "mark"
      /\ create_snapshot("cmd") /\ good' = good \cup {live} /\ whole' = [whole EXCEPT !["cmd"] = TRUE]
  BY DEF rescue_create, profile
<1>2. left["cmd"] = <<>>
  BY <1>1 DEF IInv, BootsTakeTurns
<1>3. left' = [left EXCEPT !["cmd"] = Present(live) \o <<"meta">>]
  BY <1>1 DEF create_snapshot
<1>4. left'["cmd"] # <<>> /\ \A v \in Writers \ {"cmd"} : left'[v] = left[v]
  BY <1>0, <1>3, SnapshotStarts
<1>5. BootsTakeTurns' /\ SafeBootsCopyNothing'
  BY <1>1, <1>4 DEF IInv, BootsTakeTurns, SafeBootsCopyNothing, Writers
<1>6. ~Restoring' /\ (\A v \in Writers \ {"cmd"} : Snapshot(v)' => Snapshot(v)) /\ Snapshot("cmd")'
  BY <1>1, <1>4 DEF Restoring, Snapshot
<1>7. whole' \in [Writers -> BOOLEAN] /\ \A v \in Writers \ {"cmd"} : whole'[v] => whole[v]
  BY <1>0, <1>1
<1>8. cmd' \in {"none", "mark", "restore"} /\ good \subseteq good' /\ live \in good' /\ JobFine(job)'
      /\ late' \in {"none", "watch", "verdict", "copy"}
  BY <1>0, <1>1
<1>9. QED
  BY <1>0, <1>1, <1>2, <1>5, <1>6, <1>7, <1>8, SnapshotBegins

(* A restore begins: the point's files are to be copied back.              *)
LEMMA RestoreBegins ==
  ASSUME IInv, rescue_restore
  PROVE  IInv'
<1> DEFINE q == Present(point)
<1>0. point \in Combo /\ left \in [Writers -> Queue] /\ "cmd" \in Writers /\ "job" \in Writers /\ "late" \in Writers
  BY DEF IInv, Typed, Writers
<1>1. /\ UNCHANGED <<live, point, meta, known, blurred, good, whole, job, late, boot>> /\ cmd = "none" /\ cmd' = "restore"
      /\ left' = [left EXCEPT !["cmd"] = q]
  BY DEF rescue_restore, profile, history
<1>2. q \in Queue /\ \A i \in DOMAIN q : q[i] \in FileNames /\ point[q[i]] # Absent
  BY <1>0, PresentIs DEF Range_, Queue
<1> HIDE DEF q
<1>3. left'["cmd"] = q /\ \A v \in Writers \ {"cmd"} : left'[v] = left[v]
  BY <1>0, <1>1
<1>4. left' \in [Writers -> Queue]
  BY <1>0, <1>1, <1>2
<1>5. \A v \in Writers : Snapshot(v)' => Snapshot(v) /\ v # "cmd"
  BY <1>1, <1>3 DEF Snapshot
<1>6. Typed' /\ BootsTakeTurns' /\ SafeBootsCopyNothing'
  BY <1>0, <1>1, <1>3, <1>4 DEF IInv, Typed, BootsTakeTurns, SafeBootsCopyNothing
<1>7. QueuesFine' /\ FilesStay'
  BY <1>1, <1>2, <1>3, <1>5 DEF IInv, QueuesFine, FilesStay, Restoring
<1>8. CopiesAreExact'
  BY <1>1, <1>3, <1>5 DEF IInv, CopiesAreExact, Vouched
<1>9. left["cmd"] = <<>>
  BY <1>1 DEF IInv, BootsTakeTurns
<1>10. ReservesNothingNew' /\ KnownGoodKept'
  BY <1>0, <1>1, <1>3, <1>9 DEF IInv, ReservesNothingNew, KnownGoodKept, Settled
<1>11. QED
  BY <1>6, <1>7, <1>8, <1>10 DEF IInv

(* A file is copied back.  Where a point that vouches for its files is     *)
(* being reserved again, nothing changes.                                  *)
LEMMA FileComesBack ==
  ASSUME IInv, RestoreFile
  PROVE  IInv'
<1> DEFINE f == Head(left["cmd"])
           q == Tail(left["cmd"])
           new == [live EXCEPT ![f] = point[f]]
<1>0. /\ live \in Combo /\ point \in Combo /\ left \in [Writers -> Queue] /\ "cmd" \in Writers /\ "job" \in Writers
      /\ "late" \in Writers /\ left["cmd"] \in Queue
  BY DEF IInv, Typed, Writers
<1>1. /\ UNCHANGED <<point, meta, known, blurred, good, job, cmd, late, boot>> /\ cmd = "restore" /\ left["cmd"] # <<>>
      /\ live' = new /\ Disturb(new) /\ left' = [left EXCEPT !["cmd"] = q]
  BY DEF RestoreFile
<1>2. Restoring /\ \A i \in DOMAIN left["cmd"] : left["cmd"][i] \in FileNames /\ point[left["cmd"][i]] # Absent
  BY <1>1 DEF IInv, QueuesFine, Restoring
<1>3. /\ q \in Queue /\ f \in FileNames /\ point[f] # Absent
      /\ \A i \in DOMAIN q : q[i] \in FileNames /\ point[q[i]] # Absent
  <2>1. Len(left["cmd"]) \in Nat /\ Len(left["cmd"]) > 0 /\ DOMAIN left["cmd"] = 1..Len(left["cmd"])
    BY <1>0, <1>1 DEF Queue
  <2>2. f = left["cmd"][1] /\ q \in Queue /\ Len(q) = Len(left["cmd"]) - 1 /\ DOMAIN q = 1..Len(q)
        /\ \A i \in 1..Len(q) : q[i] = left["cmd"][i + 1]
    BY <1>0, <1>1, <2>1 DEF Queue
  <2>3. \A i \in DOMAIN q : i + 1 \in DOMAIN left["cmd"]
    BY <2>1, <2>2
  <2>4. 1 \in DOMAIN left["cmd"]
    BY <2>1
  <2>5. QED
    BY <1>2, <2>2, <2>3, <2>4
<1> HIDE DEF f, q
<1>4. /\ new \in Combo /\ new[f] = point[f] /\ \A g \in FileNames \ {f} : new[g] = live[g]
      /\ \A g \in FileNames : live[g] # Absent => new[g] # Absent
      /\ point = live => new = live
  BY <1>0, <1>3 DEF Combo
<1>5. whole' \in [Writers -> BOOLEAN] /\ \A w \in Writers : whole'[w] => whole[w] /\ live' = live
  BY <1>1, DisturbIs
<1> HIDE DEF new
<1>6. left'["cmd"] = q /\ (\A v \in Writers \ {"cmd"} : left'[v] = left[v]) /\ left' \in [Writers -> Queue]
  BY <1>0, <1>1, <1>3
<1>7. \A v \in Writers : Snapshot(v)' => Snapshot(v) /\ v # "cmd"
  BY <1>1, <1>6 DEF Snapshot
<1>8. Typed' /\ BootsTakeTurns' /\ SafeBootsCopyNothing'
  BY <1>0, <1>1, <1>4, <1>5, <1>6 DEF IInv, Typed, BootsTakeTurns, SafeBootsCopyNothing
<1>9. FilesStay' /\ QueuesFine'
  BY <1>1, <1>3, <1>4, <1>6, <1>7 DEF IInv, QueuesFine, FilesStay, Restoring
<1>10. CopiesAreExact'
  BY <1>1, <1>5, <1>6, <1>7 DEF IInv, CopiesAreExact, Vouched
<1>11. ReservesNothingNew'
  BY <1>0, <1>1, <1>4, <1>6 DEF IInv, ReservesNothingNew
<1>12. KnownGoodKept'
  <2>1. Settled' => Settled
    BY <1>1, <1>6 DEF Settled
  <2>2. QED
    BY <1>1, <2>1 DEF IInv, KnownGoodKept
<1>13. QED
  BY <1>8, <1>9, <1>10, <1>11, <1>12 DEF IInv

LEMMA RestoreStops ==
  ASSUME IInv, RestoreEnds
  PROVE  IInv'
<1>0. left \in [Writers -> Queue] /\ "cmd" \in Writers /\ "job" \in Writers /\ "late" \in Writers
  BY DEF IInv, Typed, Writers
<1>1. /\ UNCHANGED <<live, point, meta, known, blurred, good, whole, job, late, boot>> /\ cmd = "restore" /\ cmd' = "none"
      /\ left' = [left EXCEPT !["cmd"] = <<>>]
  BY DEF RestoreEnds, profile, history
<1>2. /\ left'["cmd"] = <<>> /\ \A v \in Writers \ {"cmd"} : left'[v] = left[v]
      /\ left' \in [Writers -> Queue]
  BY <1>0, <1>1 DEF Queue
<1>3. ~Restoring' /\ \A v \in Writers : Snapshot(v)' => Snapshot(v) /\ v # "cmd"
  BY <1>1, <1>2 DEF Snapshot, Restoring
<1>4. Typed' /\ BootsTakeTurns' /\ SafeBootsCopyNothing'
  BY <1>0, <1>1, <1>2 DEF IInv, Typed, BootsTakeTurns, SafeBootsCopyNothing
<1>5. QueuesFine' /\ FilesStay' /\ CopiesAreExact'
  BY <1>1, <1>2, <1>3 DEF IInv, QueuesFine, FilesStay, CopiesAreExact, Vouched
<1>6. Settled' => Settled
  BY <1>1, <1>2 DEF Settled
<1>7. ReservesNothingNew' /\ KnownGoodKept'
  BY <1>0, <1>1, <1>2, <1>6 DEF IInv, ReservesNothingNew, KnownGoodKept
<1>8. QED
  BY <1>4, <1>5, <1>7 DEF IInv

-----------------------------------------------------------------------------
(* The launcher dies.  A snapshot that is cut short blurs the point.       *)
LEMMA CrashKeeps ==
  ASSUME IInv, Crash
  PROVE  IInv'
<1>1. /\ UNCHANGED <<live, point, known, good, whole, boot>> /\ EndJob /\ cmd' = "none" /\ late' = "none"
      /\ left' = [w \in Writers |-> <<>>] /\ blurred' = (blurred \/ ~Settled)
      /\ meta' = meta \/ (meta' = FALSE /\ \E w \in Writers : left[w] = <<"meta">>)
  BY DEF Crash, profile
<1>2. JobFine(job)' /\ job'.step = "none"
  BY <1>1, JobEnds
<1>3. \A w \in Writers : left'[w] = <<>>
  BY <1>1
<1>4. left' \in [Writers -> Queue]
  BY <1>1 DEF Queue
<1>5. ~Restoring' /\ \A v \in Writers : ~Snapshot(v)'
  BY <1>3 DEF Snapshot, Restoring, Writers
<1>6. Typed'
  BY <1>1, <1>2, <1>4 DEF IInv, Typed
<1>7. BootsTakeTurns' /\ SafeBootsCopyNothing'
  BY <1>1, <1>2, <1>3 DEF IInv, BootsTakeTurns, SafeBootsCopyNothing, Writers
<1>8. QueuesFine' /\ FilesStay' /\ CopiesAreExact'
  BY <1>1, <1>5 DEF IInv, QueuesFine, FilesStay, CopiesAreExact, Vouched
<1>9. ASSUME NEW w \in Writers, left[w] = <<"meta">>
      PROVE  ~Settled
  <2>1. ASSUME w = "cmd", cmd = "restore"
        PROVE  FALSE
    <3>1. Restoring /\ 1 \in DOMAIN left["cmd"] /\ left["cmd"][1] = "meta"
      BY <1>9, <2>1 DEF Restoring
    <3>2. "meta" \notin FileNames
      BY DEF FileNames
    <3>3. QED
      BY <3>1, <3>2 DEF IInv, QueuesFine
  <2>2. left[w] # <<>>
    BY <1>9
  <2>3. QED
    BY <2>1, <2>2 DEF Settled
<1>10. ~blurred' => ~blurred /\ Settled /\ meta' = meta
  BY <1>1, <1>9 DEF IInv, Typed
<1>11. ReservesNothingNew'
  BY <1>1, <1>2, <1>10 DEF IInv, ReservesNothingNew
<1>12. KnownGoodKept'
  BY <1>1, <1>10 DEF IInv, KnownGoodKept
<1>13. QED
  BY <1>6, <1>7, <1>8, <1>11, <1>12 DEF IInv

-----------------------------------------------------------------------------
LEMMA IInvInit ==
  ASSUME Init
  PROVE  IInv
<1>1. /\ live = [f \in FileNames |-> Absent] /\ point = live /\ meta = FALSE /\ job = NoJob /\ cmd = "none"
      /\ left = [w \in Writers |-> <<>>] /\ boot = NoBoot /\ late = "none" /\ good = {} /\ known = FALSE
      /\ blurred = FALSE /\ whole = [w \in Writers |-> FALSE]
  BY DEF Init
<1>2. live \in Combo /\ point \in Combo
  BY <1>1 DEF Combo
<1>3. left \in [Writers -> Queue] /\ \A w \in Writers : left[w] = <<>>
  BY <1>1 DEF Queue
<1>4. ~Restoring /\ \A v \in Writers : ~Snapshot(v)
  BY <1>3 DEF Snapshot, Restoring, Writers
<1>5. Typed
  BY <1>1, <1>2, <1>3 DEF Typed, JobFine
<1>6. BootsTakeTurns /\ SafeBootsCopyNothing
  BY <1>1, <1>3 DEF BootsTakeTurns, SafeBootsCopyNothing, NoJob, NoBoot, Writers
<1>7. QueuesFine /\ FilesStay /\ CopiesAreExact
  BY <1>1, <1>4 DEF QueuesFine, FilesStay, CopiesAreExact, Vouched
<1>8. ReservesNothingNew /\ KnownGoodKept
  BY <1>1 DEF ReservesNothingNew, KnownGoodKept
<1>9. QED
  BY <1>5, <1>6, <1>7, <1>8 DEF IInv

LEMMA BeginKeeps ==
  ASSUME IInv, Begin \/ InventorySync
  PROVE  IInv'
<1>1. CASE \E p \in Pkgs \ Package : run_instance_job("install", p)
  BY <1>1, StartKeeps DEF Kinds, OnPackages
<1>2. CASE \E p \in Package, kind \in {"uninstall", "toggle", "allow"} : run_instance_job(kind, p)
  <2>1. Package \in SUBSET Pkgs
    BY FilesTyped DEF IInv, Typed
  <2>2. QED
    BY <1>2, <2>1, StartKeeps DEF Kinds, OnPackages
<1>3. CASE \E kind \in Launches : run_instance_job(kind, "-")
  BY <1>3, StartKeeps DEF Kinds, Launches, OnPackages
<1>4. CASE InventorySync
  BY <1>4, StartKeeps DEF Kinds, OnPackages, InventorySync
<1>5. QED
  BY <1>1, <1>2, <1>3, <1>4 DEF Begin

LEMMA IInvStep ==
  ASSUME IInv, [Next]_vars
  PROVE  IInv'
<1>1. CASE Begin \/ InventorySync
  BY <1>1, BeginKeeps
<1>2. CASE JobStep
  BY <1>2, JobKeeps
<1>3. CASE LaunchStep
  BY <1>3, LaunchKeeps
<1>4. CASE LateStep
  BY <1>4, BootKeeps, VerdictKeeps DEF LateStep
<1>5. CASE rescue_create \/ rescue_restore \/ RestoreFile \/ RestoreEnds
  BY <1>5, MarkKeeps, RestoreBegins, FileComesBack, RestoreStops
<1>6. CASE \E w \in Writers : CopyFile(w) \/ write_meta(w) \/ SnapshotFails(w)
  BY <1>6, CopyKeeps, MetaKeeps, FailKeeps
<1>7. CASE Stopped
  BY <1>7, BootKeeps
<1>8. CASE Crash
  BY <1>8, CrashKeeps
<1>9. CASE UNCHANGED vars
  <2>1. UNCHANGED <<live, point, left, cmd, meta, known, blurred, good, whole, job, late, boot>>
    BY <1>9 DEF vars, history, profile
  <2>2. BootsTakeTurns' /\ SafeBootsCopyNothing' /\ JobFine(job)' /\ late' \in {"none", "watch", "verdict", "copy"}
    BY <2>1 DEF IInv, Typed, BootsTakeTurns, SafeBootsCopyNothing
  <2>3. QED
    BY <2>1, <2>2, QuietKeeps
<1>10. QED
  BY <1>1, <1>2, <1>3, <1>4, <1>5, <1>6, <1>7, <1>8, <1>9 DEF Next

THEOREM ProfileInvariant == Spec => []IInv
<1>1. Init => IInv
  BY IInvInit
<1>2. IInv /\ [Next]_vars => IInv'
  BY IInvStep
<1>3. QED
  BY <1>1, <1>2, PTL DEF Spec

(* Once a boot or a mark captured a combination of files, the rescue point *)
(* is one that came up together or was marked, whatever is installed,      *)
(* restored and launched since, but for a snapshot that failed or was      *)
(* disturbed (rescue.rs, snapshot_if_absent and create_snapshot).          *)
THEOREM KnownGoodIsKept == Spec => []KnownGoodKept
<1>1. IInv => KnownGoodKept
  BY DEF IInv
<1>2. QED
  BY <1>1, ProfileInvariant, PTL

(* What a step of a safe boot may do: no job of that kind quarantines, and *)
(* none copies files.                                                      *)
LEMMA SafeBootKeeps ==
  ASSUME IInv, SafeBootStep
  PROVE  UNCHANGED <<profile, point, meta, cache>>
<1> USE DEF profile
<1>1. CASE LaunchStep /\ Started("safe")
  <2>1. job.step # "prepare"
    BY <1>1, KindOfStep DEF IInv, Typed, Started
  <2>2. CASE write_safe_profile \/ do_safe_launch \/ Switch \/ SpawnFails \/ AwaitUrl
    BY <2>2 DEF write_safe_profile, do_safe_launch, Switch, SpawnFails, AwaitUrl
  <2>3. CASE Spawn
    BY <1>1, <2>3 DEF Spawn
  <2>4. CASE Verdict("job")
    BY <2>4 DEF Verdict
  <2>5. QED
    BY <1>1, <2>1, <2>2, <2>3, <2>4 DEF LaunchStep, Prepare, InStep
<1>2. CASE boot.safe /\ LateStep
  BY <1>2 DEF LateStep, LateUrl, Verdict
<1>3. CASE boot.safe /\ CopyFile("late")
  BY <1>3 DEF CopyFile, IInv, BootsTakeTurns, SafeBootsCopyNothing
<1>4. CASE boot.safe /\ InStep("copy") /\ CopyFile("job")
  BY <1>4 DEF InStep, IInv, SafeBootsCopyNothing
<1>5. QED
  BY <1>1, <1>2, <1>3, <1>4 DEF SafeBootStep

(* Until it is up, in time or late, a safe boot writes no file of the      *)
(* user's profile, no rescue point and no Library (safe_boot.rs,           *)
(* commands/process.rs).                                                   *)
THEOREM SafeBootsLeaveTheProfile == Spec => SafeBootLeavesProfile
<1>1. IInv /\ [Next]_vars => [SafeBootStep => UNCHANGED <<profile, point, meta, cache>>]_vars
  BY SafeBootKeeps
<1>2. QED
  BY <1>1, ProfileInvariant, PTL DEF Spec, SafeBootLeavesProfile
-----------------------------------------------------------------------------
(* The Library.  What a list of its rows is made of: rows of the last scan *)
(* of the disk, and rows of a harness, which are on and named as it names  *)
(* them.                                                                   *)
RowsFine(rows) ==
  \A row \in rows : /\ row.source \in {"profile", "inventory"} /\ row.short \in BOOLEAN
                    /\ row.source = "inventory" => row.on = TRUE /\ row.short = (row.pkg \in Renamed)

(* A merge takes rows of either list, all those of the disk with it.       *)
LEMMA MergeTakes ==
  ASSUME NEW inventory, NEW disk, RowsFine(inventory), RowsFine(disk)
  PROVE  RowsFine(merge_plugin_sources(inventory, disk))
BY DEF RowsFine, merge_plugin_sources

LEMMA ScansFine ==
  ASSUME NEW package, NEW patch
  PROVE  RowsFine(installed_plugins(package, patch)) /\ RowsFine(plugin_inventory(package))
<1>1. ASSUME NEW row \in installed_plugins(package, patch)
      PROVE  row.source = "profile" /\ row.short = FALSE
  BY <1>1 DEF installed_plugins
<1>2. ASSUME NEW row \in plugin_inventory(package)
      PROVE  /\ row.source = "inventory" /\ row.short \in BOOLEAN
             /\ row.on = TRUE /\ row.short = (row.pkg \in Renamed)
  <2>1. PICK p \in package : row = [pkg |-> p, short |-> inventory_short_name(p), on |-> TRUE, source |-> "inventory"]
    BY <1>2 DEF plugin_inventory
  <2>2. row.source = "inventory" /\ row.on = TRUE /\ row.pkg = p /\ row.short = inventory_short_name(p)
    BY <2>1
  <2>3. inventory_short_name(p) = (p \in Renamed) /\ inventory_short_name(p) \in BOOLEAN
    BY DEF inventory_short_name
  <2>4. QED
    BY <2>2, <2>3
<1>3. QED
  BY <1>1, <1>2 DEF RowsFine

LEMMA ScanHasAll ==
  ASSUME NEW package, NEW patch, NEW p \in package
  PROVE  \E row \in installed_plugins(package, patch) : row.pkg = p
<1> DEFINE row == [pkg |-> p, short |-> FALSE, on |-> Enabled(p, patch), source |-> "profile"]
<1>1. row \in installed_plugins(package, patch)
  BY DEF installed_plugins
<1>2. row.pkg = p
  OBVIOUS
<1>3. QED
  BY <1>1, <1>2

(* After a rebuild the rows of the disk are those of the scan, and no row  *)
(* of the harness bears the name of a package that is there.               *)
LEMMA RebuiltIs ==
  ASSUME NEW rows, RowsFine(rows), NEW package, NEW patch
  PROVE  /\ RowsFine(Rebuilt(rows, package, patch))
         /\ ProfileRows(Rebuilt(rows, package, patch)) = installed_plugins(package, patch)
         /\ \A row \in Rebuilt(rows, package, patch) : row.source = "inventory" /\ ~row.short => row.pkg \notin package
<1> DEFINE running == rows \ ProfileRows(rows)
           disk == installed_plugins(package, patch)
           kept == {row \in running : ~\E item \in disk : Shadows(item, row)}
<1>1. RowsFine(running) /\ \A row \in running : row.source = "inventory"
  BY DEF RowsFine, ProfileRows
<1>2. RowsFine(disk) /\ \A item \in disk : item.source = "profile" /\ item.short = FALSE /\ item.pkg \in package
  BY ScansFine DEF installed_plugins
<1>3. \A p \in package : \E item \in disk : item.pkg = p
  BY ScanHasAll
<1> HIDE DEF running, disk
<1>4. \A row \in kept, item \in disk : ~SameName(item, row)
  BY <1>1, <1>2 DEF Shadows
<1>5. Rebuilt(rows, package, patch) = kept \cup disk
  BY <1>4 DEF Rebuilt, merge_plugin_sources, running, disk
<1>6. RowsFine(kept \cup disk)
  BY <1>1, <1>2 DEF RowsFine
<1>7. ProfileRows(kept \cup disk) = disk
  BY <1>1, <1>2 DEF ProfileRows
<1>8. \A row \in kept : ~row.short => row.pkg \notin package
  BY <1>1, <1>2, <1>3, <1>4 DEF SameName, RowsFine
<1>9. QED
  BY <1>2, <1>5, <1>6, <1>7, <1>8 DEF disk

(* What the Library shows of rows like those.                              *)
Shown(rows, records, package, patch) ==
  \E loaded \in SUBSET ((records \ package) \ Renamed) :
     library_inventory_detail(rows, records)
        = {[pkg |-> p, on |-> {Enabled(p, patch)}] : p \in package}
          \cup {[pkg |-> p, on |-> {}] : p \in (records \ package) \ loaded}
          \cup {[pkg |-> p, on |-> {TRUE}] : p \in loaded}

LEMMA LibraryIs ==
  ASSUME NEW rows, NEW records, NEW package, NEW patch, RowsFine(rows),
         ProfileRows(rows) = installed_plugins(package, patch),
         \A row \in rows : row.source = "inventory" /\ ~row.short => row.pkg \notin package
  PROVE  Shown(rows, records, package, patch)
<1> DEFINE named == {row \in rows : ~row.short}
           loaded == {p \in records \ package : \E row \in named : row.pkg = p}
<1>1. \A row \in rows : row.source = "profile" <=> row \in installed_plugins(package, patch)
  BY DEF ProfileRows
<1>2. \A row \in installed_plugins(package, patch) :
         row.pkg \in package /\ row.short = FALSE /\ row.on = Enabled(row.pkg, patch) /\ row \in rows
  BY DEF installed_plugins, ProfileRows
<1>3. \A p \in package : \E row \in installed_plugins(package, patch) : row.pkg = p
  BY ScanHasAll
<1>4. PackageRows(rows, records) = {[pkg |-> p, on |-> {Enabled(p, patch)}] : p \in package \ records}
  BY <1>2, <1>3 DEF PackageRows
<1>5. \A row \in named : /\ row.pkg \in package => row.on = Enabled(row.pkg, patch)
                         /\ row.pkg \notin package => row.on = TRUE /\ row.pkg \notin Renamed
  BY <1>1, <1>2 DEF RowsFine
<1>6. \A p \in package : \E row \in named : row.pkg = p
  BY <1>2, <1>3
<1>7. \A p : skin_inventory_plugin(p, rows) = {row.on : row \in {x \in named : x.pkg = p}}
  BY DEF skin_inventory_plugin
<1> HIDE DEF named
<1>8. \A p \in records \cap package : skin_inventory_plugin(p, rows) = {Enabled(p, patch)}
  <2>1. \A p \in package : /\ \E row \in named : row.pkg = p /\ row.on = Enabled(p, patch)
                           /\ \A row \in named : row.pkg = p => row.on = Enabled(p, patch)
    BY <1>5, <1>6
  <2>2. QED
    BY <1>7, <2>1
<1>9. \A p \in loaded : skin_inventory_plugin(p, rows) = {TRUE}
  <2>1. PICK yes : yes = TRUE
    OBVIOUS
  <2>2. \A p \in loaded : /\ \E row \in named : row.pkg = p /\ row.on = yes
                          /\ \A row \in named : row.pkg = p => row.on = yes
    BY <1>5, <2>1
  <2>3. \A p \in loaded : skin_inventory_plugin(p, rows) = {yes}
    BY <1>7, <2>2
  <2>4. QED
    BY <2>1, <2>3
<1>10. \A p \in (records \ package) \ loaded : skin_inventory_plugin(p, rows) = {}
  BY <1>7
<1>11. loaded \in SUBSET ((records \ package) \ Renamed)
  BY <1>5
<1> HIDE DEF loaded
<1>12. {[pkg |-> s, on |-> skin_inventory_plugin(s, rows)] : s \in records}
         = {[pkg |-> p, on |-> {Enabled(p, patch)}] : p \in records \cap package}
           \cup {[pkg |-> p, on |-> {}] : p \in (records \ package) \ loaded}
           \cup {[pkg |-> p, on |-> {TRUE}] : p \in loaded}
  BY <1>8, <1>9, <1>10, <1>11
<1>13. {[pkg |-> p, on |-> {Enabled(p, patch)}] : p \in package}
         = {[pkg |-> p, on |-> {Enabled(p, patch)}] : p \in package \ records}
           \cup {[pkg |-> p, on |-> {Enabled(p, patch)}] : p \in records \cap package}
  OBVIOUS
<1>14. library_inventory_detail(rows, records)
         = {[pkg |-> p, on |-> {Enabled(p, patch)}] : p \in package}
           \cup {[pkg |-> p, on |-> {}] : p \in (records \ package) \ loaded}
           \cup {[pkg |-> p, on |-> {TRUE}] : p \in loaded}
  BY <1>4, <1>12, <1>13 DEF library_inventory_detail
<1>15. QED
  BY <1>11, <1>14 DEF Shown

(* A job between its first change of the profile and its rebuild, which    *)
(* the Library does not show yet; a sync that cannot ask the harness has   *)
(* changed nothing.                                                        *)
Midway == job.step \in {"land", "unrow", "rebuild"} \/ (job.step = "refresh" /\ job.kind # "sync")

LibraryFine ==
  /\ RowsFine(cache.rows)
  /\ ~owed /\ ~Midway => cache.skins = skins /\ Shown(cache.rows, skins, Package, Patch)

SameView == UNCHANGED <<cache, skins>> /\ Package' = Package /\ Patch' = Patch

LEMMA ViewKeeps ==
  ASSUME LibraryFine, RowsFine(cache.rows)', ~owed' /\ ~Midway' => ~owed /\ ~Midway /\ SameView
  PROVE  LibraryFine'
<1>1. ASSUME ~owed', ~Midway'
      PROVE  cache'.skins = skins' /\ Shown(cache.rows, skins, Package, Patch)'
  <2>1. cache.skins = skins /\ Shown(cache.rows, skins, Package, Patch)
    BY <1>1 DEF LibraryFine
  <2>2. cache' = cache /\ skins' = skins /\ Package' = Package /\ Patch' = Patch
    BY <1>1 DEF SameView
  <2>3. library_inventory_detail(cache.rows, skins)' = library_inventory_detail(cache.rows, skins)
    BY <2>2 DEF library_inventory_detail, PackageRows, ProfileRows, skin_inventory_plugin
  <2>4. {[pkg |-> p, on |-> {Enabled(p, Patch)}] : p \in Package}' = {[pkg |-> p, on |-> {Enabled(p, Patch)}] : p \in Package}
    BY <2>2 DEF Enabled, Inserted, Disabled
  <2>5. Shown(cache.rows, skins, Package, Patch)'
    BY <2>1, <2>2, <2>3, <2>4 DEF Shown
  <2>6. QED
    BY <2>1, <2>2, <2>5
<1>2. QED
  BY <1>1 DEF LibraryFine

(* Steps that leave the profile and the cache alone.                       *)
LEMMA NothingShown ==
  ASSUME LibraryFine, ~Midway \/ UNCHANGED job, UNCHANGED <<live, skins, cache>>, owed => owed'
  PROVE  LibraryFine'
<1>1. RowsFine(cache.rows)'
  BY DEF LibraryFine, RowsFine
<1>2. SameView
  BY DEF SameView, Package, Patch
<1>3. UNCHANGED job => (Midway' <=> Midway)
  BY DEF Midway
<1>4. owed' \/ ~owed
  OBVIOUS
<1>5. QED
  BY <1>1, <1>2, <1>3, <1>4, ViewKeeps

(* A cache that could not be written has no rows, or those it had.         *)
LEMMA TornFine ==
  ASSUME LibraryFine, CacheFails
  PROVE  RowsFine(cache.rows)'
<1>1. CASE cache' = cache
  BY <1>1 DEF LibraryFine, RowsFine
<1>2. CASE cache' = NoCache
  BY <1>2 DEF NoCache, RowsFine
<1>3. QED
  BY <1>1, <1>2 DEF CacheFails

LEMMA JobShows ==
  ASSUME IInv, LibraryFine, JobStep
  PROVE  LibraryFine'
<1> USE DEF history, profile
<1>0. JobFine(job) /\ live \in Combo
  BY DEF IInv, Typed
<1>1. CASE ensure_not_running \/ reserve_rescue_point
  BY <1>1, NothingShown DEF ensure_not_running, reserve_rescue_point, InStep, Midway
<1>2. CASE JobFails
  <2>1. RowsFine(cache.rows)'
    BY <1>2 DEF JobFails, LibraryFine, RowsFine
  <2>2. SameView
    BY <1>2 DEF JobFails, SameView, Package, Patch
  <2>3. ~owed' => ~owed /\ ~Midway
    BY <1>2 DEF JobFails, Midway
  <2>4. QED
    BY <2>1, <2>2, <2>3, ViewKeeps
<1>3. CASE PluginAdd \/ PluginRemove \/ land_install_disabled \/ remove_patch_rows \/ plugin_toggle
  <2>1. PICK from \in {"add", "remove", "land", "unrow", "flip"}, to \in {"land", "unrow", "refresh"} :
           job.step = from /\ GoOn(to) /\ UNCHANGED cache
    BY <1>3 DEF PluginAdd, PluginRemove, land_install_disabled, remove_patch_rows, plugin_toggle, Change, InStep
  <2>2. job'.step = to /\ job'.kind = job.kind /\ job.kind # "sync"
    BY <1>0, <2>1, KindOfStep DEF GoOn, StepsOf, JobFine, JobRec, NoJob
  <2>3. Midway'
    BY <2>1, <2>2 DEF Midway
  <2>4. QED
    BY <2>1, <2>3, ViewKeeps DEF LibraryFine, RowsFine
<1>4. CASE plugin_allow_build
  <2>1. /\ job.step = "approve" /\ live' = add_allow_build(live, job.pkg)
        /\ UNCHANGED <<cache, skins, owed>>
    BY <1>4 DEF plugin_allow_build, Change, InStep
  <2>2. live'["package"] = live["package"] /\ live'["patch"] = live["patch"]
    BY <1>0, <2>1 DEF add_allow_build, Combo, FileNames
  <2>3. SameView /\ ~Midway /\ RowsFine(cache.rows)'
    BY <2>1, <2>2 DEF SameView, Package, Patch, Midway, LibraryFine, RowsFine
  <2>4. QED
    BY <2>1, <2>3, ViewKeeps
<1>5. CASE refresh_plugin_inventory_cache
  <2>1. CASE GoOn("rebuild") /\ UNCHANGED cache
    <3>1. Midway'
      BY <1>0, <1>5, <2>1 DEF refresh_plugin_inventory_cache, InStep, GoOn, Midway, JobFine, JobRec, NoJob
    <3>2. QED
      BY <2>1, <3>1, ViewKeeps DEF LibraryFine, RowsFine
  <2>2. CASE GoOn("rebuild") /\ cache' = [rows |-> Refreshed(cache.rows, boot.loaded), skins |-> skins]
    <3>1. Midway'
      BY <1>0, <1>5, <2>2 DEF refresh_plugin_inventory_cache, InStep, GoOn, Midway, JobFine, JobRec, NoJob
    <3>2. RowsFine(Refreshed(cache.rows, boot.loaded))
      BY ScansFine, MergeTakes DEF Refreshed, LibraryFine
    <3>3. RowsFine(cache.rows)'
      BY <2>2, <3>2 DEF RowsFine
    <3>4. QED
      BY <3>1, <3>3, ViewKeeps
  <2>3. CASE EndJob /\ CacheFails /\ owed' = (owed \/ ~Started("sync") \/ cache' # cache)
    <3>1. SameView \/ owed'
      BY <1>5, <2>3 DEF refresh_plugin_inventory_cache, SameView, Package, Patch
    <3>2. RowsFine(cache.rows)' /\ (~owed' => ~owed /\ ~Midway)
      BY <1>5, <2>3, TornFine DEF CacheFails, refresh_plugin_inventory_cache, SameView, Package, Patch, LibraryFine, RowsFine, Midway, InStep, Started
    <3>3. QED
      BY <3>1, <3>2, ViewKeeps
  <2>4. QED
    BY <1>5, <2>1, <2>2, <2>3 DEF refresh_plugin_inventory_cache
<1>6. CASE rebuild_library_inventory_cache_from_disk
  <2>1. PICK records, package, patch, rows :
           records = skins /\ package = Package' /\ patch = Patch' /\ rows = cache.rows
    OBVIOUS
  <2>2. /\ skins' = records
        /\ \/ cache' = [rows |-> Rebuilt(rows, package, patch), skins |-> records]
           \/ CacheFails /\ owed' = TRUE
    BY <1>6, <2>1 DEF rebuild_library_inventory_cache_from_disk
  <2>3. CASE CacheFails /\ owed' = TRUE
    BY <2>3, TornFine DEF CacheFails, LibraryFine, RowsFine
  <2>4. CASE cache' = [rows |-> Rebuilt(rows, package, patch), skins |-> records]
    <3>1. RowsFine(Rebuilt(rows, package, patch)) /\ Shown(Rebuilt(rows, package, patch), records, package, patch)
      BY <2>1, RebuiltIs, LibraryIs DEF LibraryFine
    <3>2. PICK rows1 : rows1 = Rebuilt(rows, package, patch)
      OBVIOUS
    <3>3. Shown(rows1, records, package, patch) /\ RowsFine(rows1)
      BY <3>1, <3>2
    <3>4. cache'.rows = rows1 /\ cache'.skins = records /\ skins' = records /\ Package' = package /\ Patch' = patch
      BY <2>1, <2>2, <2>4, <3>2
    <3>5. RowsFine(cache.rows)'
      BY <3>3, <3>4 DEF RowsFine
    <3>6. Shown(cache.rows, skins, Package, Patch)'
      <4>1. library_inventory_detail(cache.rows, skins)' = library_inventory_detail(rows1, records)
        BY <3>4 DEF library_inventory_detail, PackageRows, ProfileRows, skin_inventory_plugin
      <4>2. \A p : Enabled(p, Patch)' = Enabled(p, patch)
        BY <3>4 DEF Enabled, Inserted, Disabled
      <4>3. PICK loaded \in SUBSET ((records \ package) \ Renamed) :
               library_inventory_detail(rows1, records)
                  = {[pkg |-> p, on |-> {Enabled(p, patch)}] : p \in package}
                    \cup {[pkg |-> p, on |-> {}] : p \in (records \ package) \ loaded}
                    \cup {[pkg |-> p, on |-> {TRUE}] : p \in loaded}
        BY <3>3 DEF Shown
      <4>4. {[pkg |-> p, on |-> {Enabled(p, Patch)'}] : p \in package} = {[pkg |-> p, on |-> {Enabled(p, patch)}] : p \in package}
        BY <4>2
      <4>5. QED
        BY <3>4, <4>1, <4>3, <4>4 DEF Shown
    <3>7. QED
      BY <3>4, <3>5, <3>6 DEF LibraryFine
  <2>5. QED
    BY <2>2, <2>3, <2>4
<1>7. QED
  BY <1>1, <1>2, <1>3, <1>4, <1>5, <1>6 DEF JobStep

LEMMA LaunchShows ==
  ASSUME IInv, LibraryFine, LaunchStep
  PROVE  LibraryFine'
<1> USE DEF history, profile
<1>1. CASE write_safe_profile \/ do_safe_launch \/ Switch \/ SpawnFails \/ AwaitUrl \/ Verdict("job")
  BY <1>1, NothingShown DEF write_safe_profile, do_safe_launch, Switch, SpawnFails, AwaitUrl, Verdict, InStep, Midway
<1>2. CASE Prepare \/ Spawn
  <2>1. /\ job.step \in {"prepare", "spawn"} /\ UNCHANGED <<skins, cache>>
        /\ owed' = (owed \/ live' # live)
    BY <1>2 DEF Prepare, Spawn, InStep
  <2>2. RowsFine(cache.rows)' /\ (~owed' => ~owed /\ ~Midway /\ SameView)
    BY <2>1 DEF LibraryFine, RowsFine, Midway, SameView, Package, Patch
  <2>3. QED
    BY <2>2, ViewKeeps
<1>3. QED
  BY <1>1, <1>2 DEF LaunchStep

LEMMA LibraryStep ==
  ASSUME IInv, LibraryFine, [Next]_vars
  PROVE  LibraryFine'
<1> USE DEF history, profile
<1>1. CASE Begin \/ InventorySync
  <2>1. job = NoJob /\ UNCHANGED <<live, skins, cache, owed>>
    BY <1>1 DEF Begin, InventorySync, run_instance_job
  <2>2. QED
    BY <2>1, NothingShown DEF NoJob, Midway
<1>2. CASE LateStep
  BY <1>2, NothingShown DEF LateStep, LateUrl, Verdict, finalize_ready
<1>3. CASE rescue_create \/ rescue_restore \/ RestoreEnds \/ Stopped
  BY <1>3, NothingShown DEF rescue_create, rescue_restore, RestoreEnds, Stopped
<1>4. CASE RestoreFile
  <2>1. UNCHANGED <<skins, cache, job>> /\ owed' = (owed \/ live' # live)
    BY <1>4 DEF RestoreFile
  <2>2. RowsFine(cache.rows)' /\ (~owed' /\ ~Midway' => ~owed /\ ~Midway /\ SameView)
    BY <2>1 DEF LibraryFine, RowsFine, Midway, SameView, Package, Patch
  <2>3. QED
    BY <2>2, ViewKeeps
<1>5. ASSUME NEW w \in Writers, CopyFile(w) \/ write_meta(w) \/ SnapshotFails(w)
      PROVE  LibraryFine'
  <2>1. UNCHANGED <<live, skins, cache, owed>> /\ (CopyFile(w) => UNCHANGED job)
    BY <1>5 DEF CopyFile, write_meta, SnapshotFails
  <2>2. write_meta(w) \/ SnapshotFails(w) => left[w] # <<>> /\ AfterSnapshot(w)
    BY DEF write_meta, SnapshotFails
  <2>3. w # "job" => (AfterSnapshot(w) => UNCHANGED job)
    BY DEF AfterSnapshot, Writers
  <2>4. left["job"] # <<>> => ~Midway
    BY DEF IInv, BootsTakeTurns, Midway
  <2>5. QED
    BY <1>5, <2>1, <2>2, <2>3, <2>4, NothingShown
<1>6. CASE Crash
  <2>1. /\ cache' \in {cache, NoCache} /\ UNCHANGED <<live, skins>>
        /\ ~owed' => ~owed /\ ~Midway /\ cache' = cache
    BY <1>6 DEF Crash, Midway, InStep
  <2>2. RowsFine(cache.rows)'
    BY <2>1 DEF LibraryFine, RowsFine, NoCache
  <2>3. ~owed' => SameView
    BY <2>1 DEF SameView, Package, Patch
  <2>4. QED
    BY <2>1, <2>2, <2>3, ViewKeeps
<1>7. CASE UNCHANGED vars
  BY <1>7, NothingShown DEF vars
<1>8. QED
  BY <1>1, <1>2, <1>3, <1>4, <1>5, <1>6, <1>7, JobShows, LaunchShows DEF Next

LEMMA LibraryInit == Init => LibraryFine
<1> SUFFICES ASSUME Init
             PROVE  LibraryFine
  OBVIOUS
<1>1. cache.rows = {} /\ cache.skins = {} /\ skins = {} /\ Package = {}
  BY DEF Init, NoCache, Package, FileNames
<1>2. ProfileRows(cache.rows) = installed_plugins(Package, Patch)
  BY <1>1 DEF ProfileRows, installed_plugins
<1>3. RowsFine(cache.rows) /\ Shown(cache.rows, skins, Package, Patch)
  BY <1>1, <1>2, LibraryIs DEF RowsFine
<1>4. QED
  BY <1>1, <1>3 DEF LibraryFine

(* LibraryMatchesDisk: between jobs the Library shows the packages of the  *)
(* profile with the state the next boot gives them, and the skin records   *)
(* without a package, unless a change failed, was cut short or went past   *)
(* the gate since the last rebuild                                         *)
(* (commands/plugins.rs, rebuild_library_inventory_cache_from_disk).       *)
THEOREM LibraryShowsDisk == Spec => []LibraryMatchesDisk
<1>1. LibraryFine => LibraryMatchesDisk
  <2>1. job = NoJob => ~Midway
    BY DEF NoJob, Midway
  <2>2. QED
    BY <2>1 DEF LibraryFine, LibraryMatchesDisk, Shown
<1>2. QED
  BY <1>1, LibraryInit, LibraryStep, ProfileInvariant, PTL DEF Spec

-----------------------------------------------------------------------------
(* What the type invariant says besides Typed.                             *)
SafePlans == {NoSafe} \cup [tier : {"plugins", "minimal"}, bundles : SUBSET (Pkgs \cup Minimal), dropped : SUBSET Pkgs]

CacheFine == cache \in Cache /\ skins \subseteq Pkgs /\ boot \in [safe : BOOLEAN, loaded : SUBSET Pkgs]
SlotFine == safe \in SafePlans /\ slot \in {"empty", "booting", "up", "over"}
CountsFine ==
  /\ jobs \in 0..MaxJobs /\ cmds \in 0..MaxCommands /\ crashes \in 0..MaxCrashes
  /\ good \subseteq Combo /\ owed \in BOOLEAN

LEMMA PlansAre ==
  ASSUME NEW user \in SUBSET Pkgs, NEW tier \in {"plugins", "minimal"}
  PROVE  plan_bundles(user, tier) \in SafePlans
BY DEF plan_bundles, SafePlans

LEMMA RowsAre ==
  ASSUME NEW package \in SUBSET Pkgs, NEW patch
  PROVE  installed_plugins(package, patch) \subseteq InstalledPlugin /\ plugin_inventory(package) \subseteq InstalledPlugin
<1>1. \A p \in package : p \in Pkgs /\ Enabled(p, patch) \in BOOLEAN /\ inventory_short_name(p) \in BOOLEAN
  <2> SUFFICES ASSUME NEW p \in package
               PROVE  p \in Pkgs /\ Enabled(p, patch) \in BOOLEAN /\ inventory_short_name(p) \in BOOLEAN
    OBVIOUS
  <2>1. p \in Pkgs
    OBVIOUS
  <2>2. Enabled(p, patch) \in BOOLEAN
    BY Zenon DEF Enabled
  <2>3. inventory_short_name(p) \in BOOLEAN
    BY DEF inventory_short_name
  <2>4. QED
    BY <2>1, <2>2, <2>3
<1>2. installed_plugins(package, patch) \subseteq InstalledPlugin
  <2>1. \A p \in package : [pkg |-> p, short |-> FALSE, on |-> Enabled(p, patch), source |-> "profile"] \in InstalledPlugin
    <3> SUFFICES ASSUME NEW p \in package
                 PROVE  [pkg |-> p, short |-> FALSE, on |-> Enabled(p, patch), source |-> "profile"] \in InstalledPlugin
      OBVIOUS
    <3> DEFINE on == Enabled(p, patch)
    <3>1. p \in Pkgs /\ on \in BOOLEAN
      BY <1>1
    <3> HIDE DEF on
    <3>2. [pkg |-> p, short |-> FALSE, on |-> on, source |-> "profile"] \in InstalledPlugin
      BY <3>1 DEF InstalledPlugin
    <3>3. QED
      BY <3>2 DEF on
  <2>2. QED
    BY <2>1, Zenon DEF installed_plugins
<1>3. plugin_inventory(package) \subseteq InstalledPlugin
  <2>1. \A p \in package : [pkg |-> p, short |-> inventory_short_name(p), on |-> TRUE, source |-> "inventory"] \in InstalledPlugin
    <3> SUFFICES ASSUME NEW p \in package
                 PROVE  [pkg |-> p, short |-> inventory_short_name(p), on |-> TRUE, source |-> "inventory"] \in InstalledPlugin
      OBVIOUS
    <3> DEFINE short == inventory_short_name(p)
    <3>1. p \in Pkgs /\ short \in BOOLEAN
      BY <1>1
    <3> HIDE DEF short
    <3>2. [pkg |-> p, short |-> short, on |-> TRUE, source |-> "inventory"] \in InstalledPlugin
      BY <3>1 DEF InstalledPlugin
    <3>3. QED
      BY <3>2 DEF short
  <2>2. QED
    BY <2>1, Zenon DEF plugin_inventory
<1>4. QED
  BY <1>2, <1>3

LEMMA MergesAre ==
  ASSUME NEW a \in SUBSET InstalledPlugin, NEW b \in SUBSET InstalledPlugin
  PROVE  merge_plugin_sources(a, b) \subseteq InstalledPlugin
BY DEF merge_plugin_sources

LEMMA CacheTyped ==
  ASSUME IInv, CacheFine, [Next]_vars
  PROVE  CacheFine'
<1> USE DEF history, profile
<1>0. Package \in SUBSET Pkgs /\ JobFine(job)
  BY FilesTyped DEF IInv, Typed
<1>1. CASE PluginAdd \/ land_install_disabled \/ PluginRemove \/ remove_patch_rows \/ plugin_toggle \/ plugin_allow_build
  <2>1. UNCHANGED <<cache, boot>> /\ skins' \in {skins, skins \cup ({job.pkg} \cap Skins), skins \ {job.pkg}}
    BY <1>1 DEF PluginAdd, land_install_disabled, PluginRemove, remove_patch_rows, plugin_toggle, plugin_allow_build, Change
  <2>2. QED
    BY <2>1, ProfileAssumption DEF CacheFine
<1>2. CASE refresh_plugin_inventory_cache
  <2>1. UNCHANGED <<skins, boot>> /\ cache' \in {cache, NoCache, [rows |-> Refreshed(cache.rows, boot.loaded), skins |-> skins]}
    BY <1>2 DEF refresh_plugin_inventory_cache, CacheFails
  <2>2. Refreshed(cache.rows, boot.loaded) \subseteq InstalledPlugin
    BY RowsAre, MergesAre DEF CacheFine, Cache, Refreshed
  <2>3. QED
    BY <2>1, <2>2 DEF CacheFine, Cache, NoCache
<1>3. CASE rebuild_library_inventory_cache_from_disk
  <2>1. /\ UNCHANGED <<skins, boot>>
        /\ cache' \in {cache, NoCache, [rows |-> Rebuilt(cache.rows, Package', Patch'), skins |-> skins]}
    BY <1>3 DEF rebuild_library_inventory_cache_from_disk, CacheFails
  <2>2. Package' \subseteq Pkgs
    <3>1. PICK missed : live' = Quarantined(missed)
      BY <1>3 DEF rebuild_library_inventory_cache_from_disk
    <3>2. Package' = Package
      BY <1>0, <3>1, QuarantinedIs DEF Package, IInv, Typed
    <3>3. QED
      BY <1>0, <3>2
  <2>3. Rebuilt(cache.rows, Package', Patch') \subseteq InstalledPlugin
    BY <2>2, RowsAre, MergesAre DEF CacheFine, Cache, Rebuilt
  <2>4. QED
    BY <2>1, <2>3 DEF CacheFine, Cache, NoCache
<1>4. CASE Spawn
  BY <1>0, <1>4 DEF Spawn, CacheFine, Started
<1>5. CASE Crash
  BY <1>5 DEF Crash, CacheFine, NoCache, Cache
<1>6. CASE ensure_not_running \/ reserve_rescue_point \/ JobFails \/ Begin \/ InventorySync
  BY <1>6 DEF ensure_not_running, reserve_rescue_point, JobFails, Begin, InventorySync, run_instance_job, CacheFine
<1>7. CASE write_safe_profile \/ do_safe_launch \/ Switch \/ Prepare \/ SpawnFails \/ AwaitUrl
           \/ Verdict("job") \/ Verdict("late") \/ LateUrl \/ Stopped
  BY <1>7 DEF write_safe_profile, do_safe_launch, Switch, Prepare, SpawnFails, AwaitUrl, Verdict, LateUrl, Stopped, CacheFine
<1>8. CASE rescue_create \/ rescue_restore \/ RestoreFile \/ RestoreEnds
           \/ \E w \in Writers : CopyFile(w) \/ write_meta(w) \/ SnapshotFails(w)
  BY <1>8 DEF rescue_create, rescue_restore, RestoreFile, RestoreEnds, CopyFile, write_meta, SnapshotFails, CacheFine
<1>9. CASE UNCHANGED vars
  BY <1>9 DEF vars, CacheFine
<1>10. QED
  BY <1>1, <1>2, <1>3, <1>4, <1>5, <1>6, <1>7, <1>8, <1>9 DEF Next, JobStep, LaunchStep, LateStep

LEMMA SlotTyped ==
  ASSUME IInv, SlotFine, [Next]_vars
  PROVE  SlotFine'
<1> USE DEF history, profile
<1>0. Package \in SUBSET Pkgs
  BY FilesTyped DEF IInv, Typed
<1>1. CASE JobStep \/ Begin \/ InventorySync
  BY <1>1 DEF JobStep, ensure_not_running, reserve_rescue_point, PluginAdd, land_install_disabled, PluginRemove, remove_patch_rows,
       plugin_toggle, plugin_allow_build, JobFails, refresh_plugin_inventory_cache, rebuild_library_inventory_cache_from_disk,
       Change, Begin, InventorySync, run_instance_job, SlotFine
<1>2. CASE write_safe_profile \/ do_safe_launch
  <2>1. UNCHANGED slot /\ (safe' = safe \/ \E tier \in {"plugins", "minimal"} : safe' = plan_bundles(Package, tier))
    BY <1>2 DEF write_safe_profile, do_safe_launch, Narrower
  <2>2. QED
    BY <1>0, <2>1, PlansAre DEF SlotFine
<1>3. CASE Switch \/ Prepare \/ Spawn \/ SpawnFails \/ AwaitUrl \/ Stopped \/ Crash \/ LateUrl
  <2>1. safe' \in {safe, NoSafe} /\ slot' \in {slot, "empty", "booting", "over"}
    BY <1>3 DEF Switch, Prepare, Spawn, SpawnFails, AwaitUrl, Stopped, Crash, LateUrl, remove_safe_profile
  <2>2. QED
    BY <2>1 DEF SlotFine, SafePlans
<1>4. CASE Verdict("job") \/ Verdict("late")
  BY <1>4 DEF Verdict, finalize_ready, SlotFine
<1>5. CASE rescue_create \/ rescue_restore \/ RestoreFile \/ RestoreEnds \/ \E w \in Writers : CopyFile(w)
  BY <1>5 DEF rescue_create, rescue_restore, RestoreFile, RestoreEnds, CopyFile, SlotFine
<1>6. CASE \E w \in Writers : write_meta(w) \/ SnapshotFails(w)
  BY <1>6 DEF write_meta, SnapshotFails, AfterSnapshot, Writers, SlotFine
<1>7. CASE UNCHANGED vars
  BY <1>7 DEF vars, SlotFine
<1>8. QED
  BY <1>1, <1>2, <1>3, <1>4, <1>5, <1>6, <1>7 DEF Next, LaunchStep, LateStep

LEMMA CountsTyped ==
  ASSUME IInv, CountsFine, [Next]_vars
  PROVE  CountsFine'
<1> USE DEF history, profile, books
<1>0. live \in Combo
  BY DEF IInv, Typed
<1>1. CASE Begin \/ InventorySync
  <2>1. jobs < MaxJobs /\ jobs' = jobs + 1 /\ UNCHANGED <<cmds, crashes, good, owed>>
    BY <1>1 DEF Begin, InventorySync, run_instance_job
  <2>2. QED
    BY <2>1, ProfileAssumption DEF CountsFine
<1>2. CASE rescue_create \/ rescue_restore
  <2>1. cmds < MaxCommands /\ cmds' = cmds + 1 /\ UNCHANGED <<jobs, crashes, owed>> /\ good' \in {good, good \cup {live}}
    BY <1>2 DEF rescue_create, rescue_restore
  <2>2. QED
    BY <1>0, <2>1, ProfileAssumption DEF CountsFine
<1>3. CASE Crash
  <2>1. crashes < MaxCrashes /\ crashes' = crashes + 1 /\ UNCHANGED <<jobs, cmds, good>> /\ owed' \in BOOLEAN
    BY <1>3 DEF Crash
  <2>2. QED
    BY <2>1, ProfileAssumption DEF CountsFine
<1>4. CASE JobStep
  BY <1>4 DEF JobStep, ensure_not_running, reserve_rescue_point, PluginAdd, land_install_disabled, PluginRemove, remove_patch_rows,
       plugin_toggle, plugin_allow_build, JobFails, refresh_plugin_inventory_cache, rebuild_library_inventory_cache_from_disk,
       Change, CountsFine
<1>5. CASE write_safe_profile \/ do_safe_launch \/ Switch \/ Prepare \/ Spawn \/ SpawnFails \/ AwaitUrl \/ LateUrl \/ Stopped
  BY <1>5 DEF write_safe_profile, do_safe_launch, Switch, Prepare, Spawn, SpawnFails, AwaitUrl, LateUrl, Stopped, CountsFine
<1>6. CASE Verdict("job") \/ Verdict("late")
  <2>1. UNCHANGED <<jobs, cmds, crashes, owed>> /\ good' \in {good, good \cup {live}}
    BY <1>6 DEF Verdict, finalize_ready
  <2>2. QED
    BY <1>0, <2>1 DEF CountsFine
<1>7. CASE RestoreFile \/ RestoreEnds \/ \E w \in Writers : CopyFile(w) \/ write_meta(w) \/ SnapshotFails(w)
  BY <1>7 DEF RestoreFile, RestoreEnds, CopyFile, write_meta, SnapshotFails, CountsFine
<1>8. CASE UNCHANGED vars
  BY <1>8 DEF vars, CountsFine
<1>9. QED
  BY <1>1, <1>2, <1>3, <1>4, <1>5, <1>6, <1>7, <1>8 DEF Next, LaunchStep, LateStep

(* TypeOK: the files, the job, the child and the Library keep their types. *)
THEOREM ProfileTypeCorrect == Spec => []TypeOK
<1>1. Init => CacheFine /\ SlotFine /\ CountsFine
  <2>1. Init => CacheFine
    BY DEF Init, CacheFine, NoCache, Cache, NoBoot
  <2>2. Init => SlotFine
    <3>1. Init => safe = NoSafe /\ slot = "empty"
      BY DEF Init
    <3>2. NoSafe \in SafePlans
      BY Zenon DEF SafePlans
    <3>3. QED
      BY <3>1, <3>2 DEF SlotFine
  <2>3. Init => CountsFine
    <3>1. Init => jobs = 0 /\ cmds = 0 /\ crashes = 0 /\ good = {} /\ owed = FALSE
      BY DEF Init
    <3>2. 0 \in 0..MaxJobs /\ 0 \in 0..MaxCommands /\ 0 \in 0..MaxCrashes
      BY ProfileAssumption
    <3>3. QED
      BY <3>1, <3>2 DEF CountsFine
  <2>4. QED
    BY <2>1, <2>2, <2>3
<1>2. IInv /\ CacheFine /\ SlotFine /\ CountsFine => TypeOK
  <2> SUFFICES ASSUME IInv, CacheFine, SlotFine, CountsFine
               PROVE  TypeOK
    OBVIOUS
  <2>1. job \in [kind : Kinds, step : Steps, pkg : Pkgs \cup {"-"}] \cup {NoJob}
    BY DEF IInv, Typed, JobFine, JobRec
  <2>2. QED
    BY <2>1 DEF IInv, Typed, CacheFine, SlotFine, CountsFine, SafePlans, Queue, TypeOK
<1>3. QED
  BY <1>1, <1>2, ProfileInvariant, CacheTyped, SlotTyped, CountsTyped, PTL DEF Spec
=============================================================================
