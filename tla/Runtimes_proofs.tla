--------------------------- MODULE Runtimes_proofs ---------------------------
(***************************************************************************)
(* A launch runs a whole tree of one source, for every set of versions, of *)
(* sources and of commands beside each other.  The invariant says what a   *)
(* version that no command has touched holds, and how far the copy of a    *)
(* command that has a version to itself has come.                          *)
(***************************************************************************)
EXTENDS Runtimes, TLAPS

Thread == [op : Blocking \cup {"remove", "none"}, version : Versions \cup {0},
           step : {"none", "verify", "wipe", "check", "replace", "copy", "links", "done", "remove", "pointer"},
           source : Sources \cup {"none"}, left : SUBSET Parts, alone : BOOLEAN]

(* The steps of a command that has a tree to copy from.                    *)
Copying == {"wipe", "check", "replace", "copy", "links", "done"}

(* What holds of every command by itself.                                  *)
Fine(r) ==
  /\ r \in Thread
  /\ r.step = "none" => r = Idle
  /\ r.step # "none" => r.version \in Versions
  /\ r.step \in Copying => r.source \in Sources
  /\ r.left # {} => r.step = "copy"
  /\ \A p \in r.left : p # "links" /\ Tree(r.source)[p] = r.source

ThreadsFine == threads = [t \in Threads |-> threads[t]] /\ \A t \in Threads : Fine(threads[t])

(* A directory that is not there has no files.                             *)
GoneIsEmpty == \A v \in Versions : ~dir[v].there => dir[v].files = Missing

Dir == [there : BOOLEAN, files : [Parts -> Sources \cup {"none"}]]

DirFine == dir \in [Versions -> Dir] /\ GoneIsEmpty

BooksFine ==
  /\ active \in Versions \cup {0}
  /\ boot \in [from : {"none", "managed", "override", "bundled", "path"}, version : Versions \cup {0},
               whole : BOOLEAN, torn : BOOLEAN]
  /\ commands \in 0..MaxCommands /\ crashes \in 0..MaxCrashes /\ torn \subseteq Versions

Typed == ThreadsFine /\ DirFine /\ BooksFine

-----------------------------------------------------------------------------
(* Who has a version to itself shares it with nobody.                      *)
AloneIsAlone ==
  \A t, u \in Threads :
    threads[t].alone /\ threads[t].step # "none" /\ threads[t].version = threads[u].version => u = t

(* The files a command has copied by now: all but those left, and the links
   last of all.                                                            *)
Copied(r) ==
  [part \in Parts |-> IF part \in r.left \/ (part = "links" /\ r.step # "done") THEN "none" ELSE Tree(r.source)[part]]

CopyIsExact ==
  \A t \in Threads :
    threads[t].alone /\ threads[t].step \in {"copy", "links", "done"}
      => dir[threads[t].version].files = Copied(threads[t])

(* Untouched since its own import, or never filled.                        *)
UntouchedIsWhole == \A v \in Versions \ torn : dir[v].files = Missing \/ Whole(v)

IInv == Typed /\ AloneIsAlone /\ CopyIsExact /\ UntouchedIsWhole /\ BootsWholeRuntime

-----------------------------------------------------------------------------
LEMMA FineGoes ==
  ASSUME NEW r, Fine(r), r.step \notin {"none", "copy"},
         NEW s \in {"verify", "wipe", "check", "replace", "links", "done", "remove", "pointer"},
         s \in Copying => r.source \in Sources
  PROVE  Fine([r EXCEPT !.step = s])
BY DEF Fine, Thread, Copying, Idle, Parts, Blocking

LEMMA FineCopies ==
  ASSUME NEW r, Fine(r), r.step \in Copying, NEW left \in SUBSET (Parts \ {"links"}),
         \A p \in left : Tree(r.source)[p] = r.source,
         NEW s \in {"copy", "links"}, s = "links" => left = {}
  PROVE  Fine([r EXCEPT !.step = s, !.left = left])
BY DEF Fine, Thread, Copying, Idle, Parts, Blocking

LEMMA FineIdle == Fine(Idle)
BY RuntimesAssumption DEF Fine, Thread, Copying, Idle, Parts, Blocking

LEMMA FineAlone ==
  ASSUME NEW r, Fine(r), r.step # "none", NEW b \in BOOLEAN
  PROVE  Fine([r EXCEPT !.alone = b])
BY DEF Fine, Thread, Copying, Idle, Parts, Blocking

LEMMA ThreadsTyped ==
  ASSUME ThreadsFine
  PROVE  threads \in [Threads -> Thread]
BY DEF ThreadsFine, Fine

LEMMA ThreadsSet ==
  ASSUME ThreadsFine, NEW t \in Threads, NEW r, Fine(r), threads' = [threads EXCEPT ![t] = r]
  PROVE  ThreadsFine'
BY DEF ThreadsFine

LEMMA DirSet ==
  ASSUME DirFine, NEW v \in Versions, NEW d \in Dir, dir' = [dir EXCEPT ![v] = d], ~d.there => d.files = Missing
  PROVE  DirFine'
BY DEF DirFine, GoneIsEmpty

LEMMA Removes ==
  ASSUME DirFine, NEW v \in Versions, RemoveAll(v) \/ RemoveSome(v)
  PROVE  DirFine'
<1>1. CASE RemoveAll(v)
  BY <1>1, DirSet DEF RemoveAll, NoDir, Missing, Dir
<1>2. CASE RemoveSome(v)
  <2>1. PICK kept \in SUBSET Parts : dir' = [dir EXCEPT ![v].files = [p \in Parts |-> IF p \in kept THEN @[p] ELSE "none"]]
    BY <1>2 DEF RemoveSome
  <2> DEFINE files == [p \in Parts |-> IF p \in kept THEN dir[v].files[p] ELSE "none"]
             d == [dir[v] EXCEPT !.files = files]
  <2>2. files \in [Parts -> Sources \cup {"none"}]
    BY DEF DirFine, Dir
  <2>3. dir' = [dir EXCEPT ![v] = d]
    BY <2>1 DEF DirFine
  <2>4. d \in Dir /\ d.there
    BY <1>2, <2>2 DEF RemoveSome, DirFine, Dir
  <2>5. QED
    BY <2>3, <2>4, DirSet
<1>3. QED
  BY <1>1, <1>2

LEMMA Puts ==
  ASSUME DirFine, NEW v \in Versions, NEW part \in Parts, NEW source \in Sources, Put(v, part, source)
  PROVE  DirFine'
<1> DEFINE files == [dir[v].files EXCEPT ![part] = source]
           d == [dir[v] EXCEPT !.there = TRUE, !.files = files]
<1>1. files \in [Parts -> Sources \cup {"none"}]
  BY DEF DirFine, Dir
<1>2. dir' = [dir EXCEPT ![v] = d]
  BY DEF Put, DirFine, Dir
<1>3. d \in Dir /\ d.there
  BY <1>1 DEF DirFine, Dir
<1>4. QED
  BY <1>2, <1>3, DirSet

(* The files a copy has yet to bring in.                                   *)
LEMMA StartsCopy ==
  ASSUME ThreadsFine, NEW t \in Threads, threads[t].step \in Copying, StartCopy(t)
  PROVE  ThreadsFine'
<1> DEFINE left == {p \in Parts \ {"links"} : Tree(threads[t].source)[p] # "none"}
<1>1. threads' = [threads EXCEPT ![t] = [threads[t] EXCEPT !.step = "copy", !.left = left]]
  BY DEF StartCopy, ThreadsFine, Fine, Thread
<1>2. \A p \in left : Tree(threads[t].source)[p] = threads[t].source
  BY DEF Tree
<1>3. Fine([threads[t] EXCEPT !.step = "copy", !.left = left])
  BY <1>2, FineCopies DEF ThreadsFine
<1>4. QED
  BY <1>1, <1>3, ThreadsSet

LEMMA Goes ==
  ASSUME ThreadsFine, NEW t \in Threads, threads[t].step \notin {"none", "copy"},
         NEW s \in {"verify", "wipe", "check", "replace", "links", "done", "remove", "pointer"},
         s \in Copying => threads[t].source \in Sources, Go(t, s)
  PROVE  ThreadsFine'
<1>1. threads' = [threads EXCEPT ![t] = [threads[t] EXCEPT !.step = s]]
  BY DEF Go, ThreadsFine, Fine, Thread
<1>2. QED
  BY <1>1, FineGoes, ThreadsSet DEF ThreadsFine

LEMMA Ends ==
  ASSUME ThreadsFine, NEW t \in Threads, EndThread(t)
  PROVE  ThreadsFine'
BY FineIdle, ThreadsSet DEF EndThread

LEMMA Starts ==
  ASSUME ThreadsFine, NEW t \in Threads, NEW v \in Versions, NEW op \in Blocking \cup {"remove"},
         NEW source \in Sources \cup {"none"}, NEW step \in {"check", "verify", "remove"},
         step = "check" => source \in Sources, Start(t, op, v, source, step)
  PROVE  ThreadsFine'
<1> DEFINE new == [op |-> op, step |-> step, version |-> v, source |-> source, left |-> {}, alone |-> On(v) = {}]
<1>1. Fine(new)
  BY DEF Fine, Thread, Copying, Idle, Parts, Blocking
<1>2. \A u \in On(v) : threads[u].step # "none"
  BY RuntimesAssumption DEF On, ThreadsFine, Fine, Idle
<1>3. \A u \in On(v) : Fine([threads[u] EXCEPT !.alone = FALSE])
  BY <1>2, FineAlone DEF ThreadsFine, On
<1>4. QED
  BY <1>1, <1>3 DEF Start, ThreadsFine, On

-----------------------------------------------------------------------------
(* Every reachable state of the runtimes is well typed.                    *)
LEMMA InitTyped == Init => Typed
BY RuntimesAssumption, FineIdle DEF Init, Typed, ThreadsFine, DirFine, Dir, GoneIsEmpty, BooksFine, NoDir, Missing, NoBoot

LEMMA StepTyped ==
  ASSUME Typed, [Next]_vars
  PROVE  Typed'
<1> USE DEF Typed, counts
<1> DEFINE Worker(t) == threads[t].version \in Versions /\ threads[t].step \in Copying => threads[t].source \in Sources
<1>0. \A t \in Threads : /\ threads[t].step # "none" => threads[t].version \in Versions
                         /\ threads[t].step \in Copying => threads[t].source \in Sources
                         /\ threads[t].left \subseteq Parts \ {"links"}
                         /\ \A p \in threads[t].left : Tree(threads[t].source)[p] = threads[t].source
  BY DEF ThreadsFine, Fine, Thread
<1>1. ASSUME NEW t \in Threads, repair(t)
      PROVE  Typed'
  BY <1>0, <1>1, Goes, Ends DEF repair, At, Copying, DirFine, GoneIsEmpty, BooksFine, ThreadsFine, Fine, Thread
<1>2. ASSUME NEW t \in Threads, Wipe(t)
      PROVE  Typed'
  BY <1>0, <1>2, Goes, Removes DEF Wipe, At, Copying, BooksFine, Taint
<1>3. ASSUME NEW t \in Threads, install_from_source(t)
      PROVE  Typed'
  BY <1>0, <1>3, Goes, Ends, StartsCopy DEF install_from_source, At, Copying, DirFine, GoneIsEmpty, BooksFine
<1>4. ASSUME NEW t \in Threads, Replace(t)
      PROVE  Typed'
  BY <1>0, <1>4, Ends, StartsCopy, Removes DEF Replace, At, Copying, BooksFine, Taint
<1>5. ASSUME NEW t \in Threads, copy_tree(t)
      PROVE  Typed'
  <2>1. PICK part \in threads[t].left :
           /\ Put(threads[t].version, part, threads[t].source)
           /\ threads' = [threads EXCEPT ![t].left = @ \ {part}, ![t].step = IF threads[t].left = {part} THEN "links" ELSE "copy"]
    BY <1>5 DEF copy_tree
  <2>2. DirFine'
    BY <1>0, <1>5, <2>1, Puts DEF copy_tree, At, Copying
  <2> DEFINE s == IF threads[t].left = {part} THEN "links" ELSE "copy"
             r == [threads[t] EXCEPT !.step = s, !.left = threads[t].left \ {part}]
  <2>3. threads' = [threads EXCEPT ![t] = r]
    <3>1. threads \in [Threads -> Thread]
      BY ThreadsTyped
    <3>2. QED
      BY <2>1, <3>1 DEF Thread
  <2>4. Fine(r)
    BY <1>0, <1>5, FineCopies DEF copy_tree, At, Copying, ThreadsFine
  <2>5. ThreadsFine'
    BY <2>3, <2>4, ThreadsSet
  <2>6. QED
    BY <1>0, <1>5, <2>2, <2>5 DEF copy_tree, At, BooksFine, Taint
<1>6. ASSUME NEW t \in Threads, restore_junctions(t)
      PROVE  Typed'
  BY <1>0, <1>6, Goes, Ends, Puts DEF restore_junctions, At, Copying, Parts, DirFine, GoneIsEmpty, BooksFine, Taint
<1>7. ASSUME NEW t \in Threads, CopyFails(t)
      PROVE  Typed'
  BY <1>7, Ends DEF CopyFails, DirFine, GoneIsEmpty, BooksFine
<1>8. ASSUME NEW t \in Threads, FinishInstall(t)
      PROVE  Typed'
  BY <1>0, <1>8, Ends, Removes DEF FinishInstall, At, DirFine, GoneIsEmpty, BooksFine, Taint
<1>9. ASSUME NEW t \in Threads, remove(t)
      PROVE  Typed'
  BY <1>0, <1>9, Goes, Ends, Removes DEF remove, At, Copying, BooksFine, Taint
<1>10. ASSUME NEW t \in Threads, RemovePointer(t)
       PROVE  Typed'
  BY <1>10, Ends DEF RemovePointer, DirFine, GoneIsEmpty, BooksFine
<1>11. ASSUME NEW t \in Threads, NEW v \in Versions, NEW source \in Sources \cup {"none"},
              (runtime_install(t, v, source) /\ source \in Sources) \/ runtime_repair(t, v, source) \/ runtime_remove(t, v)
       PROVE  Typed'
  <2>1. ThreadsFine'
    BY <1>11, Starts DEF runtime_install, runtime_repair, runtime_remove, Blocking
  <2>2. QED
    BY <1>11, <2>1, RuntimesAssumption DEF runtime_install, runtime_repair, runtime_remove, Start, DirFine, GoneIsEmpty, BooksFine
<1>12. ASSUME NEW v \in Versions, set_active(v)
       PROVE  Typed'
  BY <1>12, RuntimesAssumption DEF set_active, ThreadsFine, DirFine, GoneIsEmpty, BooksFine
<1>13. CASE launch
  <2>1. resolve_version \subseteq Versions \cup {0}
    BY DEF resolve_version, pick_default_version, Listed, BooksFine
  <2>2. QED
    BY <1>13, <2>1 DEF launch, resolve_bin, Whole, bin_path, ThreadsFine, DirFine, GoneIsEmpty, BooksFine
<1>14. CASE Crash
  BY <1>14, FineIdle, RuntimesAssumption DEF Crash, NoBoot, ThreadsFine, DirFine, GoneIsEmpty, BooksFine
<1>15. CASE UNCHANGED vars
  BY <1>15 DEF vars, ThreadsFine, DirFine, GoneIsEmpty, BooksFine
<1>16. QED
  BY <1>1, <1>2, <1>3, <1>4, <1>5, <1>6, <1>7, <1>8, <1>9, <1>10, <1>11, <1>12, <1>13, <1>14, <1>15
     DEF Next, ThreadStep

(* Every reachable state of the runtimes is well typed.                    *)
THEOREM RuntimesTypeCorrect == Spec => []TypeOK
<1>1. Typed => TypeOK
  BY DEF Typed, ThreadsFine, Fine, Thread, DirFine, Dir, BooksFine, TypeOK
<1>2. Typed /\ [Next]_vars => Typed'
  BY StepTyped
<1>3. QED
  BY <1>1, <1>2, InitTyped, PTL DEF Spec

-----------------------------------------------------------------------------
(* A step that changes the files of one version at most, and leaves no one  *)
(* who has that version to himself but the one who takes it.               *)
LEMMA InitInductive == Init => IInv
BY InitTyped, RuntimesAssumption
   DEF Init, IInv, AloneIsAlone, CopyIsExact, UntouchedIsWhole, BootsWholeRuntime, Idle, NoDir, NoBoot

(* Commands end, or go on in the version that is theirs.                   *)
LEMMA StaysAlone ==
  ASSUME Typed, Typed', AloneIsAlone, NEW t \in Threads,
         \A u \in Threads \ {t} : threads'[u] = threads[u],
         threads'[t] = Idle \/ (threads'[t].version = threads[t].version /\ threads'[t].alone = threads[t].alone /\ threads[t].step # "none")
  PROVE  AloneIsAlone'
BY RuntimesAssumption DEF AloneIsAlone, Typed, ThreadsFine, Fine, Idle

(* What is done to a version does not concern who has another to himself.  *)
LEMMA OthersExact ==
  ASSUME Typed, AloneIsAlone, CopyIsExact, NEW t \in Threads, threads[t].step # "none",
         \A u \in Threads \ {t} : threads'[u] = threads[u],
         \A v \in Versions \ {threads[t].version} : dir'[v] = dir[v],
         threads'[t].alone /\ threads'[t].step \in {"copy", "links", "done"}
           => dir'[threads'[t].version].files = Copied(threads'[t])
  PROVE  CopyIsExact'
<1> SUFFICES ASSUME NEW u \in Threads, threads'[u].alone, threads'[u].step \in {"copy", "links", "done"}
             PROVE  dir'[threads'[u].version].files = Copied(threads'[u])
  BY DEF CopyIsExact
<1>1. CASE u = t
  BY <1>1
<1>2. CASE u # t
  <2>1. threads'[u] = threads[u] /\ threads[u].version \in Versions
    BY <1>2 DEF Typed, ThreadsFine, Fine
  <2>2. threads[u].version # threads[t].version
    BY <1>2, <2>1 DEF AloneIsAlone
  <2>3. QED
    BY <2>1, <2>2 DEF CopyIsExact
<1>3. QED
  BY <1>1, <1>2

(* Nor is a version that was not touched any the less whole.               *)
LEMMA TouchedOnly ==
  ASSUME UntouchedIsWhole, NEW v \in Versions, torn \cup {v} \subseteq torn',
         \A w \in Versions \ {v} : dir'[w] = dir[w]
  PROVE  UntouchedIsWhole'
BY DEF UntouchedIsWhole, Whole

LEMMA ChangesOnly ==
  ASSUME Typed, NEW v \in Versions,
         RemoveAll(v) \/ RemoveSome(v) \/ \E part \in Parts, source \in Sources : Put(v, part, source)
  PROVE  \A w \in Versions \ {v} : dir'[w] = dir[w]
BY DEF Typed, DirFine, RemoveAll, RemoveSome, Put

(* What one thread's step does to the others.                              *)
LEMMA OneSteps ==
  ASSUME Typed, NEW t \in Threads, NEW s, Go(t, s) \/ EndThread(t) \/ StartCopy(t)
  PROVE  \A u \in Threads \ {t} : threads'[u] = threads[u]
BY DEF Typed, ThreadsFine, Go, EndThread, StartCopy

LEMMA OneGoes ==
  ASSUME Typed, NEW t \in Threads, NEW s, Go(t, s)
  PROVE  threads'[t] = [threads[t] EXCEPT !.step = s]
BY DEF Typed, ThreadsFine, Fine, Thread, Go

LEMMA OneEnds ==
  ASSUME Typed, NEW t \in Threads, EndThread(t)
  PROVE  threads'[t] = Idle
BY DEF Typed, ThreadsFine, EndThread

-----------------------------------------------------------------------------
(* A step of a command that does not bring it to a copy of its own: it ends, *)
(* or goes on to a step that has copied nothing yet.                       *)
LEMMA NoCopyStep ==
  ASSUME IInv, Typed', NEW t \in Threads, threads[t].step # "none",
         EndThread(t) \/ \E s \in {"wipe", "check", "replace", "pointer"} : Go(t, s),
         (dir' = dir /\ torn' = torn) \/ ((RemoveAll(threads[t].version) \/ RemoveSome(threads[t].version)) /\ Taint(threads[t].version)),
         boot' = boot
  PROVE  IInv'
<1> USE DEF IInv
<1>0. threads[t].version \in Versions
  BY DEF Typed, ThreadsFine, Fine
<1>1. threads'[t] = Idle \/ \E s \in {"wipe", "check", "replace", "pointer"} : threads'[t] = [threads[t] EXCEPT !.step = s]
  BY OneGoes, OneEnds
<1>2. \A u \in Threads \ {t} : threads'[u] = threads[u]
  BY OneSteps
<1>3. \A w \in Versions \ {threads[t].version} : dir'[w] = dir[w]
  BY <1>0, ChangesOnly
<1>4. /\ threads'[t].step \notin {"copy", "links", "done"}
      /\ threads'[t] = Idle \/ (threads'[t].version = threads[t].version /\ threads'[t].alone = threads[t].alone)
  BY <1>1 DEF Idle, Typed, ThreadsFine, Fine, Thread
<1>5. AloneIsAlone' /\ CopyIsExact'
  BY <1>2, <1>3, <1>4, StaysAlone, OthersExact
<1>6. UntouchedIsWhole'
  BY <1>0, <1>3, TouchedOnly DEF Taint, UntouchedIsWhole, Whole
<1>7. QED
  BY <1>5, <1>6 DEF BootsWholeRuntime

(* A copy begins in a directory without files.                             *)
LEMMA CopyBegins ==
  ASSUME IInv, Typed', NEW t \in Threads, threads[t].step \in {"check", "replace"}, StartCopy(t),
         \A w \in Versions \ {threads[t].version} : dir'[w] = dir[w],
         dir'[threads[t].version].files = Missing,
         torn \subseteq torn', dir' = dir \/ threads[t].version \in torn', boot' = boot
  PROVE  IInv'
<1> USE DEF IInv
<1>0. threads[t].version \in Versions
  BY DEF Typed, ThreadsFine, Fine
<1> DEFINE left == {p \in Parts \ {"links"} : Tree(threads[t].source)[p] # "none"}
<1>1. threads'[t] = [threads[t] EXCEPT !.step = "copy", !.left = left]
  BY DEF StartCopy, Typed, ThreadsFine, Fine, Thread
<1>2. \A u \in Threads \ {t} : threads'[u] = threads[u]
  BY OneSteps
<1>3. threads'[t].version = threads[t].version /\ threads'[t].alone = threads[t].alone /\ threads'[t].step = "copy"
      /\ threads'[t].source = threads[t].source /\ threads'[t].left = left
  BY <1>1 DEF Typed, ThreadsFine, Fine, Thread
<1>4. Copied(threads'[t]) = Missing
  BY <1>3 DEF Copied, Missing, Parts, Tree
<1>5. AloneIsAlone' /\ CopyIsExact'
  BY <1>2, <1>3, <1>4, StaysAlone, OthersExact
<1>6. UntouchedIsWhole'
  BY <1>0, TouchedOnly DEF UntouchedIsWhole, Whole
<1>7. QED
  BY <1>5, <1>6 DEF BootsWholeRuntime

(* A file comes into the version of a command that copies.                 *)
LEMMA CopyGoesOn ==
  ASSUME IInv, Typed', NEW t \in Threads, copy_tree(t)
  PROVE  IInv'
<1> USE DEF IInv
<1>0. threads[t].version \in Versions /\ threads[t].source \in Sources /\ threads[t].left \subseteq Parts
      /\ "links" \notin threads[t].left /\ threads[t].step = "copy"
      /\ \A p \in threads[t].left : Tree(threads[t].source)[p] = threads[t].source
  BY DEF copy_tree, At, Typed, ThreadsFine, Fine, Thread, Copying
<1>1. PICK part \in threads[t].left :
         /\ Put(threads[t].version, part, threads[t].source)
         /\ threads' = [threads EXCEPT ![t].left = @ \ {part}, ![t].step = IF threads[t].left = {part} THEN "links" ELSE "copy"]
  BY DEF copy_tree
<1> DEFINE s == IF threads[t].left = {part} THEN "links" ELSE "copy"
<1> DEFINE r == [threads[t] EXCEPT !.step = s, !.left = threads[t].left \ {part}]
<1>2. threads'[t] = r
  <2>1. threads' = [threads EXCEPT ![t] = r]
    BY <1>1, ThreadsTyped DEF Typed, Thread
  <2>2. QED
    BY <2>1 DEF Typed, ThreadsFine
<1>3. \A u \in Threads \ {t} : threads'[u] = threads[u]
  BY <1>1 DEF Typed, ThreadsFine
<1>4. /\ threads'[t].version = threads[t].version /\ threads'[t].alone = threads[t].alone
      /\ threads'[t].source = threads[t].source /\ threads'[t].left = threads[t].left \ {part}
      /\ threads'[t].step \in {"copy", "links"}
  BY <1>2 DEF Typed, ThreadsFine, Fine, Thread
<1>5. \A w \in Versions \ {threads[t].version} : dir'[w] = dir[w]
  BY <1>0, <1>1, ChangesOnly
<1>6. dir'[threads[t].version].files = [dir[threads[t].version].files EXCEPT ![part] = threads[t].source]
  BY <1>0, <1>1 DEF Put, Typed, DirFine, Dir
<1>7. threads[t].alone => dir'[threads'[t].version].files = Copied(threads'[t])
  <2> SUFFICES ASSUME threads[t].alone
               PROVE  dir'[threads[t].version].files = Copied(threads'[t])
    BY <1>4
  <2>1. dir[threads[t].version].files = Copied(threads[t])
    BY <1>0 DEF CopyIsExact
  <2>2. Tree(threads[t].source)[part] = threads[t].source
    BY <1>0
  <2>3. QED
    BY <1>0, <1>4, <1>6, <2>1, <2>2 DEF Copied
<1>8. AloneIsAlone' /\ CopyIsExact'
  BY <1>0, <1>3, <1>4, <1>5, <1>7, StaysAlone, OthersExact
<1>9. UntouchedIsWhole'
  BY <1>0, <1>5, TouchedOnly DEF copy_tree, Taint
<1>10. QED
  BY <1>8, <1>9 DEF BootsWholeRuntime, copy_tree

(* The links come last, if at all.                                         *)
LEMMA LinksAreMade ==
  ASSUME IInv, Typed', NEW t \in Threads, restore_junctions(t)
  PROVE  IInv'
<1> USE DEF IInv
<1>0. threads[t].version \in Versions /\ threads[t].source \in Sources /\ threads[t].left = {} /\ threads[t].step = "links"
  BY DEF restore_junctions, At, Typed, ThreadsFine, Fine, Thread, Copying
<1>1. CASE dir[threads[t].version].files["links"] = "none"
  <2>1. Put(threads[t].version, "links", threads[t].source) /\ Go(t, "done")
    BY <1>1 DEF restore_junctions
  <2>2. threads'[t] = [threads[t] EXCEPT !.step = "done"]
    BY <2>1, OneGoes
  <2>3. /\ threads'[t].version = threads[t].version /\ threads'[t].alone = threads[t].alone
        /\ threads'[t].source = threads[t].source /\ threads'[t].left = {} /\ threads'[t].step = "done"
    BY <1>0, <2>2, ThreadsTyped DEF Typed, Thread
  <2>4. \A u \in Threads \ {t} : threads'[u] = threads[u]
    BY <2>1, OneSteps
  <2>5. \A w \in Versions \ {threads[t].version} : dir'[w] = dir[w]
    BY <1>0, <2>1, ChangesOnly DEF Parts
  <2>6. dir'[threads[t].version].files = [dir[threads[t].version].files EXCEPT !["links"] = threads[t].source]
    BY <1>0, <2>1 DEF Put, Typed, DirFine, Dir
  <2>7. threads[t].alone => dir'[threads'[t].version].files = Copied(threads'[t])
    <3> SUFFICES ASSUME threads[t].alone
                 PROVE  dir'[threads[t].version].files = Copied(threads'[t])
      BY <2>3
    <3>1. dir[threads[t].version].files = Copied(threads[t])
      BY <1>0 DEF CopyIsExact
    <3>2. QED
      BY <1>0, <2>3, <2>6, <3>1 DEF Copied, Tree
  <2>8. AloneIsAlone' /\ CopyIsExact'
    BY <1>0, <2>3, <2>4, <2>5, <2>7, StaysAlone, OthersExact
  <2>9. UntouchedIsWhole'
    BY <1>0, <2>5, TouchedOnly DEF restore_junctions, Taint
  <2>10. QED
    BY <2>8, <2>9 DEF BootsWholeRuntime, restore_junctions
<1>2. CASE dir[threads[t].version].files["links"] # "none"
  <2>1. EndThread(t) /\ dir' = dir /\ boot' = boot /\ torn' = torn \cup {threads[t].version}
    BY <1>2 DEF restore_junctions, Taint
  <2>2. AloneIsAlone' /\ CopyIsExact'
    BY <1>0, <2>1, OneEnds, OneSteps, StaysAlone, OthersExact DEF Idle
  <2>3. UntouchedIsWhole'
    BY <1>0, <2>1, TouchedOnly
  <2>4. QED
    BY <2>1, <2>2, <2>3 DEF BootsWholeRuntime
<1>3. QED
  BY <1>1, <1>2

(* An import that went through alone leaves the tree it copied.             *)
LEMMA InstallEnds ==
  ASSUME IInv, Typed', NEW t \in Threads, FinishInstall(t)
  PROVE  IInv'
<1> USE DEF IInv
<1>0. threads[t].version \in Versions /\ threads[t].source \in Sources /\ threads[t].left = {} /\ threads[t].step = "done"
      /\ EndThread(t) /\ boot' = boot
  BY DEF FinishInstall, At, Typed, ThreadsFine, Fine, Thread, Copying
<1>1. CASE bin_path(threads[t].version) /\ threads[t].alone
  <2>1. dir' = dir /\ torn' = torn \ {threads[t].version}
    BY <1>1 DEF FinishInstall
  <2>2. AloneIsAlone' /\ CopyIsExact'
    BY <1>0, <2>1, OneEnds, OneSteps, StaysAlone, OthersExact DEF Idle
  <2>3. dir[threads[t].version].files = Copied(threads[t])
    BY <1>0, <1>1 DEF CopyIsExact
  <2>4. Copied(threads[t]) = Tree(threads[t].source)
    BY <1>0 DEF Copied, Tree
  <2>5. Whole(threads[t].version)
    BY <1>0, <2>3, <2>4 DEF Whole
  <2>6. UntouchedIsWhole'
    BY <2>1, <2>5 DEF UntouchedIsWhole, Whole
  <2>7. QED
    BY <1>0, <2>2, <2>6 DEF BootsWholeRuntime
<1>2. CASE bin_path(threads[t].version) /\ ~threads[t].alone
  BY <1>0, <1>2, NoCopyStep DEF FinishInstall
<1>3. CASE ~bin_path(threads[t].version)
  BY <1>0, <1>3, NoCopyStep DEF FinishInstall
<1>4. QED
  BY <1>1, <1>2, <1>3

(* A command that starts has its version to itself, or nobody has.          *)
LEMMA CommandStarts ==
  ASSUME IInv, Typed', NEW t \in Threads, NEW op, NEW v \in Versions, NEW source,
         NEW step \in {"check", "verify", "remove"}, Start(t, op, v, source, step)
  PROVE  IInv'
<1> USE DEF IInv
<1>1. threads'[t] = [op |-> op, step |-> step, version |-> v, source |-> source, left |-> {}, alone |-> On(v) = {}]
  BY DEF Start
<1>2. \A u \in Threads \ {t} : threads'[u] = IF u \in On(v) THEN [threads[u] EXCEPT !.alone = FALSE] ELSE threads[u]
  BY DEF Start
<1>3. \A u \in Threads \ {t} :
        /\ threads'[u].version = threads[u].version /\ threads'[u].step = threads[u].step
        /\ threads'[u].alone => threads'[u] = threads[u] /\ threads[u].version # v
  <2> SUFFICES ASSUME NEW u \in Threads \ {t}
               PROVE  /\ threads'[u].version = threads[u].version /\ threads'[u].step = threads[u].step
                      /\ threads'[u].alone => threads'[u] = threads[u] /\ threads[u].version # v
    OBVIOUS
  <2>1. threads[u] \in Thread
    BY ThreadsTyped DEF Typed
  <2>2. CASE u \in On(v)
    BY <1>2, <2>1, <2>2 DEF Thread
  <2>3. CASE u \notin On(v)
    BY <1>2, <2>3 DEF On
  <2>4. QED
    BY <2>2, <2>3
<1>4. AloneIsAlone'
  <2> SUFFICES ASSUME NEW w \in Threads, NEW u \in Threads, threads'[w].alone, threads'[w].step # "none",
                      threads'[w].version = threads'[u].version
               PROVE  u = w
    BY DEF AloneIsAlone
  <2>1. CASE w = t
    <3>1. threads'[t].alone = (On(v) = {}) /\ threads'[t].version = v
      BY <1>1
    <3>2. \A x \in Threads : threads[x].version # v
      BY <2>1, <3>1 DEF On
    <3>3. QED
      BY <1>3, <2>1, <3>1, <3>2
  <2>2. CASE w # t /\ u = t
    BY <1>1, <1>3, <2>2
  <2>3. CASE w # t /\ u # t
    BY <1>3, <2>3 DEF AloneIsAlone
  <2>4. QED
    BY <2>1, <2>2, <2>3
<1>5. dir' = dir /\ torn' = torn /\ boot' = boot
  BY DEF Start
<1>6. CopyIsExact'
  BY <1>1, <1>3, <1>5 DEF CopyIsExact
<1>7. QED
  BY <1>4, <1>5, <1>6 DEF UntouchedIsWhole, Whole, BootsWholeRuntime

(* A launch finds a bin only where something was copied.                    *)
LEMMA LaunchIsWhole ==
  ASSUME IInv, Typed', launch
  PROVE  IInv'
<1> USE DEF IInv
<1>1. PICK outside \in Outside, newest \in resolve_version :
         LET from == resolve_bin(outside, newest)
             v == IF from = "managed" THEN newest ELSE 0
         IN  boot' = [from |-> from, version |-> v, whole |-> v = 0 \/ Whole(v), torn |-> v \in torn]
  BY DEF launch
<1>2. newest \in Versions \cup {0}
  BY DEF resolve_version, pick_default_version, Listed, Typed, BooksFine
<1>3. resolve_bin(outside, newest) = "managed" => newest # 0 /\ bin_path(newest)
  BY DEF resolve_bin
<1>4. resolve_bin(outside, newest) = "managed" => newest \in torn \/ Whole(newest)
  BY <1>2, <1>3 DEF UntouchedIsWhole, bin_path, Missing, Parts
<1>5. BootsWholeRuntime'
  BY <1>1, <1>4 DEF BootsWholeRuntime
<1>6. QED
  BY <1>5 DEF launch, AloneIsAlone, CopyIsExact, UntouchedIsWhole, Whole

-----------------------------------------------------------------------------
LEMMA StepInductive ==
  ASSUME IInv, [Next]_vars
  PROVE  IInv'
<1>0. Typed'
  BY StepTyped DEF IInv
<1> USE <1>0
<1>1. ASSUME NEW t \in Threads, repair(t)
      PROVE  IInv'
  BY <1>1, NoCopyStep DEF repair, At
<1>2. ASSUME NEW t \in Threads, Wipe(t)
      PROVE  IInv'
  BY <1>2, NoCopyStep DEF Wipe, At
<1>3. ASSUME NEW t \in Threads, install_from_source(t)
      PROVE  IInv'
  <2>1. CASE ~dir[threads[t].version].there /\ StartCopy(t)
    <3>1. threads[t].version \in Versions
      BY <1>3 DEF install_from_source, At, IInv, Typed, ThreadsFine, Fine
    <3>2. dir[threads[t].version].files = Missing
      BY <2>1, <3>1 DEF IInv, Typed, DirFine, GoneIsEmpty
    <3>3. QED
      BY <1>3, <2>1, <3>2, CopyBegins DEF install_from_source, At
  <2>2. CASE EndThread(t) \/ Go(t, "replace")
    BY <1>3, <2>2, NoCopyStep DEF install_from_source, At
  <2>3. QED
    BY <1>3, <2>1, <2>2 DEF install_from_source
<1>4. ASSUME NEW t \in Threads, Replace(t)
      PROVE  IInv'
  <2>0. threads[t].version \in Versions
    BY <1>4 DEF Replace, At, IInv, Typed, ThreadsFine, Fine
  <2>1. CASE RemoveAll(threads[t].version) /\ StartCopy(t)
    <3>1. dir'[threads[t].version].files = Missing
      BY <2>0, <2>1 DEF RemoveAll, NoDir, IInv, Typed, DirFine
    <3>2. \A w \in Versions \ {threads[t].version} : dir'[w] = dir[w]
      BY <2>0, <2>1, ChangesOnly DEF IInv
    <3>3. QED
      BY <1>4, <2>1, <3>1, <3>2, CopyBegins DEF Replace, At, Taint
  <2>2. CASE RemoveSome(threads[t].version) /\ EndThread(t)
    BY <1>4, <2>2, NoCopyStep DEF Replace, At
  <2>3. QED
    BY <1>4, <2>1, <2>2 DEF Replace
<1>5. ASSUME NEW t \in Threads, CopyFails(t)
      PROVE  IInv'
  BY <1>5, NoCopyStep DEF CopyFails
<1>6. ASSUME NEW t \in Threads, remove(t)
      PROVE  IInv'
  BY <1>6, NoCopyStep DEF remove, At
<1>7. ASSUME NEW t \in Threads, RemovePointer(t)
      PROVE  IInv'
  BY <1>7, NoCopyStep DEF RemovePointer, At
<1>8. ASSUME NEW t \in Threads, NEW v \in Versions, NEW source,
             runtime_install(t, v, source) \/ runtime_repair(t, v, source) \/ runtime_remove(t, v)
      PROVE  IInv'
  BY <1>8, CommandStarts DEF runtime_install, runtime_repair, runtime_remove
<1>9. ASSUME NEW v \in Versions, set_active(v)
      PROVE  IInv'
  BY <1>9 DEF set_active, IInv, AloneIsAlone, CopyIsExact, UntouchedIsWhole, Whole, BootsWholeRuntime
<1>10. CASE Crash
  BY <1>10, RuntimesAssumption
     DEF Crash, Idle, NoBoot, IInv, AloneIsAlone, CopyIsExact, UntouchedIsWhole, Whole, BootsWholeRuntime
<1>11. CASE UNCHANGED vars
  BY <1>11 DEF vars, IInv, AloneIsAlone, CopyIsExact, UntouchedIsWhole, Whole, BootsWholeRuntime
<1>12. QED
  BY <1>1, <1>2, <1>3, <1>4, <1>5, <1>6, <1>7, <1>8, <1>9, <1>10, <1>11,
     CopyGoesOn, LinksAreMade, InstallEnds, LaunchIsWhole
     DEF Next, ThreadStep

(* A managed runtime that a launch runs is a whole tree of one source, if the last
   import of its version went through with nobody else at it and nothing touched it
   since (install_from_source, resolve_version).                           *)
THEOREM LaunchesRunWholeRuntimes == Spec => []BootsWholeRuntime
<1>1. IInv => BootsWholeRuntime
  BY DEF IInv
<1>2. IInv /\ [Next]_vars => IInv'
  BY StepInductive
<1>3. QED
  BY <1>1, <1>2, InitInductive, PTL DEF Spec
=============================================================================
