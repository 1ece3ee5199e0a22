------------------------ MODULE FileProjectionProofs ------------------------
(* Theorems about FileProjection, for any Files, texts and workers and any *)
(* bounds.                                                                 *)
EXTENDS FileProjection, TLAPS

FileOf(w) == workers[w].file
Latest(w) == files[FileOf(w)].version = workers[w].version

\* What the last commit left is right, or that commit came too late.
Settled(f) == f \in overtaken \/ Right(f)

\* An intent is about the version it names; only a cascade makes it old.
Intended(f) ==
    /\ intents[f].version <= files[f].version
    /\ files[f].state # "gone" => intents[f].version = files[f].version
    /\ intents[f].version = files[f].version => intents[f].content = files[f].content
    /\ intents[f].version = files[f].version /\ intents[f].state = "done" => Settled(f)

\* A commit asked for by the version that is there has left the File settled.
Committed(c) ==
    /\ c.version <= files[c.file].version
    /\ c.version = files[c.file].version => Settled(c.file)

\* What a worker knows of the File, of the resource, and of what is done.
Known(w) ==
    /\ workers[w].version <= files[FileOf(w)].version
    /\ workers[w].looked <= files[FileOf(w)].version
    /\ Latest(w) => workers[w].content = files[FileOf(w)].content
Wants(w) ==
    /\ workers[w].pc \in {"look", "see", "match"} => workers[w].looked = workers[w].version
    /\ workers[w].pc = "recheck" => workers[w].content \in Texts
    /\ workers[w].pc \in {"create", "restore", "replace", "again"} =>
         workers[w].looked = workers[w].version /\ workers[w].content \in Texts
    /\ workers[w].pc = "delete" /\ workers[w].looked = files[FileOf(w)].version =>
         files[FileOf(w)].content \notin Texts
Saw(w) ==
    /\ workers[w].pc \in {"match", "recheck"} /\ Latest(w) =>
         Settled(FileOf(w)) \/ resources[FileOf(w)] = workers[w].seen
    /\ workers[w].pc \in {"complete", "again"} /\ Latest(w) => Settled(FileOf(w))

WorkerInv(w) == workers[w].pc # "idle" => Known(w) /\ Wants(w) /\ Saw(w)

ProjectionInv ==
    /\ TypeOK
    /\ \A f \in Files : Intended(f)
    /\ \A c \in commits : Committed(c)
    /\ \A w \in Workers : WorkerInv(w)

-----------------------------------------------------------------------------
LEMMA IdleTyped == Idle \in Worker /\ Nothing \in Snapshot
BY ProjectionConstants DEF Idle, Worker, Nothing, Snapshot

LEMMA WorkerTyped ==
    ASSUME TypeOK, NEW w \in Workers
    PROVE  workers[w] \in Worker /\ FileOf(w) \in Files
BY DEF TypeOK, Worker, FileOf

(* A change of one worker's record.                                        *)
LEMMA ToTyped ==
    ASSUME TypeOK, NEW w \in Workers, NEW r \in Worker, workers' = [workers EXCEPT ![w] = r]
    PROVE  /\ workers' \in [Workers -> Worker]
           /\ workers'[w] = r
           /\ \A x \in Workers \ {w} : workers'[x] = workers[x]
BY DEF TypeOK

(* A change of one File's intent.                                          *)
LEMMA OweTyped ==
    ASSUME TypeOK, NEW f \in Files, NEW i \in Intent, intents' = [intents EXCEPT ![f] = i]
    PROVE  /\ intents' \in [Files -> Intent]
           /\ intents'[f] = i
           /\ \A g \in Files \ {f} : intents'[g] = intents[g]
BY DEF TypeOK

LEMMA MutateEffect ==
    ASSUME TypeOK, NEW f \in Files, NEW c \in Contents \cup {Absent}, NEW s \in {"there", "gone"},
           Mutate(f, c, s)
    PROVE  /\ files' \in [Files -> File]
           /\ files'[f] = [content |-> c, version |-> files[f].version + 1, state |-> s]
           /\ files[f].version \in Nat
           /\ \A g \in Files \ {f} : files'[g] = files[g]
<1>1. files[f] \in File
  BY DEF TypeOK
<1>2. files[f].version + 1 \in 0..MaxVersion
  BY <1>1, ProjectionConstants DEF Mutate, File
<1>3. [content |-> c, version |-> files[f].version + 1, state |-> s] \in File
  BY <1>2 DEF File
<1> QED BY <1>1, <1>3 DEF Mutate, TypeOK, File

LEMMA OweEffect ==
    ASSUME TypeOK, NEW f \in Files, NEW c \in Contents \cup {Absent}, NEW s \in {"there", "gone"},
           Mutate(f, c, s), Owe(f, c)
    PROVE  /\ intents' \in [Files -> Intent]
           /\ intents'[f].version = files'[f].version /\ intents'[f].content = c
           /\ intents'[f].state = "pending"
           /\ \A g \in Files \ {f} : intents'[g] = intents[g]
<1> DEFINE i == [version |-> files'[f].version, content |-> c, state |-> "pending", attempts |-> 0, due |-> TRUE]
<1>1. i \in Intent
  <2>1. files'[f] \in File
    BY MutateEffect
  <2>2. files'[f].version \in 0..MaxVersion
    BY <2>1 DEF File
  <2> QED BY <2>2, ProjectionConstants DEF Intent
<1>2. intents' = [intents EXCEPT ![f] = i]
  BY DEF Owe
<1> HIDE DEF i
<1>3. /\ intents' \in [Files -> Intent] /\ intents'[f] = i
      /\ \A g \in Files \ {f} : intents'[g] = intents[g]
  BY <1>1, <1>2, OweTyped
<1> QED BY <1>3 DEF i

Pcs == {"idle", "look", "see", "match", "recheck", "again", "complete", "superseded", "failing"} \cup Stages

LEMMA ToEffect ==
    ASSUME TypeOK, NEW w \in Workers, NEW p \in Pcs, To(w, p)
    PROVE  /\ workers' \in [Workers -> Worker]
           /\ workers'[w] = [workers[w] EXCEPT !.pc = p]
           /\ \A x \in Workers \ {w} : workers'[x] = workers[x]
<1>1. [workers[w] EXCEPT !.pc = p] \in Worker
  BY WorkerTyped DEF Worker, Pcs
<1> QED BY <1>1, ToTyped DEF To

LEMMA FoundEffect ==
    ASSUME TypeOK, NEW w \in Workers, NEW p \in Pcs, Found(w, p)
    PROVE  /\ workers' \in [Workers -> Worker]
           /\ workers'[w] = [workers[w] EXCEPT !.pc = p, !.looked = files[FileOf(w)].version]
           /\ \A x \in Workers \ {w} : workers'[x] = workers[x]
<1> DEFINE n == files[FileOf(w)].version
<1>1. n \in 0..MaxVersion
  BY WorkerTyped DEF TypeOK, File
<1> HIDE DEF n
<1>2. [workers[w] EXCEPT !.pc = p, !.looked = n] \in Worker
  BY <1>1, WorkerTyped DEF Worker, Pcs
<1>3. workers' = [workers EXCEPT ![w] = [workers[w] EXCEPT !.pc = p, !.looked = n]]
  BY DEF Found, n, FileOf
<1>4. QED
  BY <1>2, <1>3, ToTyped DEF n

LEMMA SeenEffect ==
    ASSUME TypeOK, NEW w \in Workers, NEW p \in Pcs, NEW v \in Snapshot,
           workers' = [workers EXCEPT ![w].seen = v, ![w].pc = p]
    PROVE  /\ workers' \in [Workers -> Worker]
           /\ workers'[w] = [workers[w] EXCEPT !.seen = v, !.pc = p]
           /\ \A x \in Workers \ {w} : workers'[x] = workers[x]
<1>1. [workers[w] EXCEPT !.seen = v, !.pc = p] \in Worker
  BY WorkerTyped DEF Worker, Pcs
<1>2. workers' = [workers EXCEPT ![w] = [workers[w] EXCEPT !.seen = v, !.pc = p]]
  OBVIOUS
<1> QED BY <1>1, <1>2, ToTyped

-----------------------------------------------------------------------------
(* Steps that change neither a File nor a resource.                        *)
Quiet == UNCHANGED <<files, resources, overtaken, commits>>

LEMMA QuietStep ==
    ASSUME Quiet, NEW f
    PROVE  /\ Right(f)' = Right(f) /\ Settled(f)' = Settled(f)
           /\ UNCHANGED intents => Intended(f)' = Intended(f)
BY DEF Quiet, Settled, Right, Intended

LEMMA QuietCommits ==
    ASSUME Quiet, NEW c, Committed(c)
    PROVE  Committed(c)'
BY QuietStep DEF Quiet, Committed

LEMMA QuietWorker ==
    ASSUME Quiet, NEW w, workers'[w] = workers[w], WorkerInv(w)
    PROVE  WorkerInv(w)'
BY QuietStep DEF Quiet, WorkerInv, Known, Wants, Saw, FileOf, Latest

LEMMA QuietInv ==
    ASSUME ProjectionInv, Quiet, TypeOK',
           \A f \in Files : intents'[f] = intents[f] \/ Intended(f)',
           \A w \in Workers : workers'[w] = workers[w] \/ WorkerInv(w)'
    PROVE  ProjectionInv'
<1>1. \A f \in Files : Intended(f)'
  BY QuietStep DEF ProjectionInv, Intended, Quiet
<1>2. \A w \in Workers : WorkerInv(w)'
  BY QuietWorker DEF ProjectionInv
<1>3. \A c \in commits' : Committed(c)'
  BY QuietCommits DEF ProjectionInv, Quiet
<1> QED BY <1>1, <1>2, <1>3 DEF ProjectionInv

-----------------------------------------------------------------------------
(* The catalogue: what was true of an earlier version binds nobody.        *)
LEMMA MutationInv ==
    ASSUME ProjectionInv, NEW f \in Files, NEW c \in Contents \cup {Absent},
           NEW s \in {"there", "gone"}, Mutate(f, c, s),
           UNCHANGED <<resources, overtaken, commits, workers, faults, requeues>>,
           Owe(f, c) \/ (UNCHANGED intents /\ s = "gone")
    PROVE  ProjectionInv'
<1> USE DEF ProjectionInv
<1>1. /\ files' \in [Files -> File]
      /\ files'[f] = [content |-> c, version |-> files[f].version + 1, state |-> s]
      /\ files[f].version \in Nat
      /\ \A g \in Files \ {f} : files'[g] = files[g]
  BY MutateEffect
<1>2. /\ intents' \in [Files -> Intent]
      /\ \A g \in Files \ {f} : intents'[g] = intents[g]
  BY OweEffect DEF TypeOK
<1>3. TypeOK'
  BY <1>1, <1>2 DEF TypeOK
<1>4. \A g \in Files \ {f} : Settled(g)' = Settled(g)
  BY <1>1 DEF Settled, Right
<1>5. ASSUME NEW g \in Files PROVE Intended(g)'
  <2>1. CASE g # f
    BY <1>1, <1>2, <1>4, <2>1 DEF Intended
  <2>2. CASE g = f /\ Owe(f, c)
    <3>1. intents'[f].version = files'[f].version /\ intents'[f].content = c /\ intents'[f].state = "pending"
      BY <2>2, OweEffect
    <3> QED BY <1>1, <2>2, <3>1 DEF Intended
  <2>3. CASE g = f /\ UNCHANGED intents /\ s = "gone"
    <3>1. intents'[f].version \in Nat /\ intents'[f].version <= files[f].version
      BY <2>3 DEF Intended, TypeOK, Intent
    <3>2. files'[f].version = files[f].version + 1 /\ files'[f].state = "gone"
      BY <1>1, <2>3
    <3> QED BY <1>1, <2>3, <3>1, <3>2 DEF Intended
  <2> QED BY <2>1, <2>2, <2>3
<1>6. ASSUME NEW d \in commits' PROVE Committed(d)'
  <2>1. d \in commits /\ d.file \in Files /\ d.version \in Nat /\ Committed(d)
    BY DEF TypeOK, Commit
  <2>2. CASE d.file # f
    BY <1>1, <1>4, <2>1, <2>2 DEF Committed
  <2>3. CASE d.file = f
    BY <1>1, <2>1, <2>3 DEF Committed
  <2> QED BY <2>2, <2>3
<1>7. ASSUME NEW w \in Workers PROVE WorkerInv(w)'
  <2>1. /\ workers'[w] = workers[w] /\ FileOf(w) \in Files /\ FileOf(w)' = FileOf(w)
        /\ workers[w].version \in Nat /\ workers[w].looked \in Nat
    BY WorkerTyped DEF FileOf, Worker
  <2>2. CASE FileOf(w) # f
    BY <1>1, <1>4, <2>1, <2>2 DEF WorkerInv, Known, Wants, Saw, Latest
  <2>3. CASE FileOf(w) = f
    BY <1>1, <2>1, <2>3 DEF WorkerInv, Known, Wants, Saw, Latest
  <2> QED BY <2>2, <2>3
<1> QED BY <1>3, <1>5, <1>6, <1>7

LEMMA CatalogueInv ==
    ASSUME ProjectionInv, NEW f \in Files,
           \/ \E c \in Contents : Confirm(f, c) \/ Replace(f, c)
           \/ Delete(f) \/ DeleteCollection(f)
    PROVE  ProjectionInv'
BY MutationInv DEF Confirm, Replace, Delete, DeleteCollection

-----------------------------------------------------------------------------
(* Every commit leaves its resource settled, and touches no other.         *)
LEMMA WriteSettles ==
    ASSUME ProjectionInv, NEW w \in Workers, workers[w].pc \in Stages, Write(w),
           UNCHANGED files, NEW f \in Files, f = FileOf(w)
    PROVE  /\ resources' \in [Files -> Snapshot] /\ overtaken' \subseteq Files
           /\ commits' = commits \cup {Request(w)} /\ Request(w) \in Commit
           /\ Settled(f)'
           /\ \A g \in Files \ {f} : resources'[g] = resources[g] /\ Settled(g)' = Settled(g)
<1> DEFINE
           r == [life |-> IF workers[w].pc = "delete" THEN "deleted" ELSE "live",
                 content |-> IF workers[w].pc = "delete" THEN resources[f].content ELSE workers[w].content,
                 head |-> resources[f].head + 1]
<1>1. /\ f \in Files /\ workers[w] \in Worker /\ resources[f] \in Snapshot
      /\ Known(w) /\ Wants(w) /\ TypeOK
  BY WorkerTyped DEF ProjectionInv, WorkerInv, TypeOK, Stages
<1>2. r \in Snapshot
  BY <1>1 DEF Snapshot, Worker
<1>3. /\ resources' = [resources EXCEPT ![f] = r]
      /\ overtaken' = IF files[f].version # workers[w].looked THEN overtaken \cup {f} ELSE overtaken \ {f}
      /\ commits' = commits \cup {Request(w)}
  BY DEF Write, FileOf
<1>4. Request(w) \in Commit
  <2>1. Request(w) = [file |-> f, version |-> workers[w].version,
                      stage |-> workers[w].pc, expected |-> workers[w].seen.head]
    BY DEF Request, FileOf
  <2>2. workers[w].version \in 0..MaxVersion /\ workers[w].seen.head \in Nat
    BY <1>1 DEF Worker, Snapshot
  <2> QED BY <1>1, <2>1, <2>2 DEF Commit
<1>5. Settled(f)'
  <2>1. CASE files[f].version # workers[w].looked
    BY <1>3, <2>1 DEF Settled
  <2>2. CASE files[f].version = workers[w].looked /\ workers[w].pc = "delete"
    <3>1. files[f].content \notin Texts
      BY <1>1, <2>2 DEF Wants
    <3>2. resources'[f].life = "deleted"
      BY <1>1, <1>3, <2>2 DEF TypeOK
    <3> QED BY <3>1, <3>2 DEF Settled, Right
  <2>3. CASE files[f].version = workers[w].looked /\ workers[w].pc # "delete"
    <3>1. files[f].content = workers[w].content /\ workers[w].content \in Texts
      BY <1>1, <2>3 DEF Wants, Known, Latest, Stages
    <3>2. resources'[f].life = "live" /\ resources'[f].content = workers[w].content
      BY <1>1, <1>3, <2>3 DEF TypeOK
    <3> QED BY <3>1, <3>2 DEF Settled, Right
  <2> QED BY <2>1, <2>2, <2>3
<1>6. ASSUME NEW g \in Files \ {f} PROVE resources'[g] = resources[g] /\ Settled(g)' = Settled(g)
  <2>1. resources'[g] = resources[g] /\ (g \in overtaken' <=> g \in overtaken)
    BY <1>1, <1>3 DEF TypeOK
  <2> QED BY <2>1 DEF Settled, Right
<1>7. resources' \in [Files -> Snapshot] /\ overtaken' \subseteq Files
  BY <1>1, <1>2, <1>3 DEF TypeOK
<1> QED BY <1>3, <1>4, <1>5, <1>6, <1>7

(* So a commit disturbs nothing that is known of any File.                 *)
LEMMA WriteInv ==
    ASSUME ProjectionInv, NEW w \in Workers, workers[w].pc \in Stages, Write(w),
           UNCHANGED <<files, intents>>, TypeOK',
           \A x \in Workers \ {w} : workers'[x] = workers[x],
           WorkerInv(w)'
    PROVE  ProjectionInv'
<1> PICK f \in Files : f = FileOf(w)
  BY WorkerTyped DEF ProjectionInv
<1>1. /\ Settled(f)' /\ commits' = commits \cup {Request(w)}
      /\ \A g \in Files \ {f} : resources'[g] = resources[g] /\ Settled(g)' = Settled(g)
  BY WriteSettles
<1>2. \A g \in Files : Intended(g)'
  BY <1>1 DEF ProjectionInv, Intended
<1>3. ASSUME NEW c \in commits' PROVE Committed(c)'
  <2>1. CASE c = Request(w)
    <3>1. c.file = f /\ c.version = workers[w].version
      BY <2>1 DEF Request, FileOf
    <3>2. c.version <= files[f].version
      BY <3>1 DEF ProjectionInv, WorkerInv, Known, Stages
    <3> QED BY <1>1, <3>1, <3>2 DEF Committed
  <2>2. CASE c \in commits
    <3>1. c.file \in Files /\ Committed(c)
      BY <2>2 DEF ProjectionInv, TypeOK, Commit
    <3> QED BY <1>1, <3>1 DEF Committed
  <2> QED BY <1>1, <2>1, <2>2
<1>4. ASSUME NEW x \in Workers PROVE WorkerInv(x)'
  <2>1. CASE x = w
    BY <2>1
  <2>2. CASE x # w
    <3> PICK g \in Files : g = FileOf(x)
      BY WorkerTyped DEF ProjectionInv
    <3>1. workers'[x] = workers[x] /\ WorkerInv(x)
      BY <2>2 DEF ProjectionInv
    <3>2. FileOf(x)' = g /\ Latest(x)' = Latest(x)
      BY <3>1 DEF FileOf, Latest
    <3>3. Settled(g)' \/ (Settled(g)' = Settled(g) /\ resources'[g] = resources[g])
      BY <1>1
    <3>4. Saw(x) => Saw(x)'
      BY <3>1, <3>2, <3>3 DEF Saw
    <3>5. (Known(x) => Known(x)') /\ (Wants(x) => Wants(x)')
      BY <3>1, <3>2 DEF Known, Wants
    <3> QED BY <3>1, <3>4, <3>5 DEF WorkerInv
  <2> QED BY <2>1, <2>2
<1> QED BY <1>2, <1>3, <1>4 DEF ProjectionInv

-----------------------------------------------------------------------------
LEMMA ClaimInv ==
    ASSUME ProjectionInv, NEW w \in Workers, NEW f \in Files, Claim(w, f)
    PROVE  ProjectionInv'
<1> DEFINE i == [intents[f] EXCEPT !.attempts = @ + 1, !.due = FALSE]
           r == [pc |-> "look", file |-> f, version |-> intents[f].version, content |-> intents[f].content,
                 attempt |-> intents[f].attempts + 1, seen |-> Nothing, looked |-> intents[f].version]
<1>0. TypeOK /\ intents[f] \in Intent /\ files[f] \in File /\ Intended(f)
  BY DEF ProjectionInv, TypeOK
<1>1. intents[f].attempts + 1 \in 0..MaxRetries /\ MaxRetries \in Nat
  BY <1>0, ProjectionConstants DEF Claim, Intent
<1>2. i \in Intent /\ i.version = intents[f].version /\ i.content = intents[f].content /\ i.state = intents[f].state
  BY <1>0, <1>1 DEF Intent
<1>3. r \in Worker
  BY <1>0, <1>1, IdleTyped DEF Intent, Worker
<1>4. intents' = [intents EXCEPT ![f] = i] /\ workers' = [workers EXCEPT ![w] = r]
  BY <1>0 DEF Claim, TypeOK
<1>5. r.pc = "look" /\ r.file = f /\ r.version = intents[f].version /\ r.looked = r.version /\ r.content = intents[f].content
  OBVIOUS
<1>6. Quiet /\ UNCHANGED <<faults, requeues>>
  BY DEF Claim, Quiet
<1> HIDE DEF i, r
<1>7. /\ intents' \in [Files -> Intent] /\ intents'[f] = i
      /\ \A g \in Files \ {f} : intents'[g] = intents[g]
      /\ workers' \in [Workers -> Worker] /\ workers'[w] = r
      /\ \A x \in Workers \ {w} : workers'[x] = workers[x]
  BY <1>0, <1>2, <1>3, <1>4, ToTyped, OweTyped
<1>8. TypeOK'
  BY <1>0, <1>6, <1>7 DEF TypeOK, Quiet
<1>9. Intended(f)'
  <2>1. files' = files /\ Settled(f)' = Settled(f)
    BY <1>6, QuietStep DEF Quiet
  <2> QED BY <1>0, <1>2, <1>7, <2>1 DEF Intended
<1>10. WorkerInv(w)'
  <2>1. files' = files /\ FileOf(w)' = f
    BY <1>5, <1>6, <1>7 DEF Quiet, FileOf
  <2>2. Known(w)'
    BY <1>0, <1>5, <1>7, <2>1 DEF Known, Latest, Intended
  <2>3. Wants(w)' /\ Saw(w)'
    BY <1>5, <1>7, <2>1 DEF Wants, Saw
  <2> QED BY <2>2, <2>3 DEF WorkerInv
<1> QED BY <1>6, <1>7, <1>8, <1>9, <1>10, QuietInv

-----------------------------------------------------------------------------
(* A quiet step of one worker.                                             *)
LEMMA OneWorker ==
    ASSUME ProjectionInv, NEW w \in Workers, Quiet, UNCHANGED <<intents, faults, requeues>>,
           workers' \in [Workers -> Worker],
           \A x \in Workers \ {w} : workers'[x] = workers[x],
           WorkerInv(w)'
    PROVE  ProjectionInv'
<1>1. TypeOK'
  BY DEF ProjectionInv, TypeOK, Quiet
<1> QED BY <1>1, QuietInv

LEMMA LookInv ==
    ASSUME ProjectionInv, NEW w \in Workers, Look(w)
    PROVE  ProjectionInv'
<1>1. PICK p \in {"see", "superseded"} : To(w, p)
  BY DEF Look
<1>2. /\ workers' \in [Workers -> Worker] /\ workers'[w] = [workers[w] EXCEPT !.pc = p]
      /\ \A x \in Workers \ {w} : workers'[x] = workers[x]
  BY <1>1, ToEffect DEF ProjectionInv, Pcs
<1>3. /\ workers'[w].pc = p /\ workers'[w].file = workers[w].file /\ workers'[w].version = workers[w].version
      /\ workers'[w].content = workers[w].content /\ workers'[w].looked = workers[w].looked
  BY <1>2, WorkerTyped DEF Worker, ProjectionInv
<1>4. Quiet /\ UNCHANGED <<intents, faults, requeues>> /\ workers[w].pc = "look"
  BY DEF Look, Quiet
<1>5. files' = files /\ FileOf(w)' = FileOf(w)
  BY <1>3, <1>4 DEF Quiet, FileOf
<1>6. WorkerInv(w)'
  BY <1>3, <1>4, <1>5 DEF ProjectionInv, WorkerInv, Known, Wants, Saw, Latest
<1> QED BY <1>2, <1>4, <1>6, OneWorker

LEMMA SeeInv ==
    ASSUME ProjectionInv, NEW w \in Workers, See(w)
    PROVE  ProjectionInv'
<1> PICK f \in Files : f = FileOf(w)
  BY WorkerTyped DEF ProjectionInv
<1> DEFINE v == resources[f]
           p == IF workers[w].content = Absent THEN Absence(v) ELSE "match"
<1>1. v \in Snapshot /\ p \in {"delete", "complete", "match"} /\ p \in Pcs
  BY DEF ProjectionInv, TypeOK, Absence, Pcs, Stages
<1>2. workers' = [workers EXCEPT ![w].seen = v, ![w].pc = p]
  BY DEF See, FileOf
<1>3. Quiet /\ UNCHANGED <<intents, faults, requeues>> /\ workers[w].pc = "see"
  BY DEF See, Quiet
<1>4. p = "match" \/ (workers[w].content = Absent /\ (p = "complete" => resources[f].life # "live"))
  BY DEF Absence
<1> HIDE DEF p
<1>5. /\ workers' \in [Workers -> Worker] /\ workers'[w] = [workers[w] EXCEPT !.seen = v, !.pc = p]
      /\ \A x \in Workers \ {w} : workers'[x] = workers[x]
  BY <1>1, <1>2, SeenEffect DEF ProjectionInv
<1>6. /\ workers'[w].pc = p /\ workers'[w].file = workers[w].file /\ workers'[w].version = workers[w].version
      /\ workers'[w].content = workers[w].content /\ workers'[w].looked = workers[w].looked
      /\ workers'[w].seen = v
  BY <1>5, WorkerTyped DEF Worker, ProjectionInv
<1>7. files' = files /\ resources' = resources /\ FileOf(w)' = f
  BY <1>3, <1>6 DEF Quiet, FileOf
<1>8. Known(w) /\ Wants(w) /\ Latest(w)' = Latest(w)
  BY <1>3, <1>6, <1>7 DEF ProjectionInv, WorkerInv, Latest, FileOf
<1>9. Known(w)' /\ workers[w].looked = workers[w].version
  BY <1>3, <1>6, <1>7, <1>8 DEF Known, Wants
<1>10. Absent \notin Texts
  BY ProjectionConstants DEF Contents
<1>11. Wants(w)'
  BY <1>1, <1>4, <1>6, <1>7, <1>8, <1>9, <1>10 DEF Wants, Known, Latest
<1>12. Saw(w)'
  <2>1. CASE p = "match"
    BY <1>6, <1>7, <2>1 DEF Saw
  <2>2. CASE p = "delete"
    BY <1>6, <1>7, <2>2 DEF Saw
  <2>3. CASE p = "complete"
    <3>1. Latest(w) => Right(f)
      BY <1>4, <1>8, <1>10, <2>3 DEF Right, Known
    <3>2. Latest(w) => Settled(f)'
      BY <1>3, <3>1, QuietStep DEF Settled
    <3> QED BY <1>6, <1>7, <1>8, <2>3, <3>2 DEF Saw
  <2> QED BY <1>1, <2>1, <2>2, <2>3
<1>13. WorkerInv(w)'
  BY <1>9, <1>11, <1>12 DEF WorkerInv
<1> QED BY <1>3, <1>5, <1>13, OneWorker

LEMMA MatchInv ==
    ASSUME ProjectionInv, NEW w \in Workers, Match(w)
    PROVE  ProjectionInv'
<1> PICK f \in Files : f = FileOf(w)
  BY WorkerTyped DEF ProjectionInv
<1> DEFINE p == IF ~SourceMatches(w) THEN "failing"
                ELSE IF workers[w].content \notin Texts THEN Absence(workers[w].seen)
                ELSE "recheck"
<1>1. /\ p \in {"failing", "delete", "complete", "recheck"} /\ p \in Pcs
      /\ p = "recheck" => workers[w].content \in Texts
      /\ p \in {"delete", "complete"} => workers[w].content \notin Texts /\ workers[w].content = files[f].content
      /\ p = "complete" => workers[w].seen.life # "live"
  <2>1. CASE ~SourceMatches(w)
    BY <2>1 DEF Pcs
  <2>2. CASE SourceMatches(w) /\ workers[w].content \notin Texts
    <3>1. p = Absence(workers[w].seen)
      BY <2>2
    <3> HIDE DEF p
    <3> QED BY <2>2, <3>1 DEF Absence, SourceMatches, FileOf, Pcs, Stages
  <2>3. CASE SourceMatches(w) /\ workers[w].content \in Texts
    <3>1. p = "recheck"
      BY <2>3
    <3> HIDE DEF p
    <3> QED BY <2>3, <3>1 DEF Pcs
  <2> QED BY <2>1, <2>2, <2>3
<1>2. Found(w, p)
  BY DEF Match
<1>3. Quiet /\ UNCHANGED <<intents, faults, requeues>> /\ workers[w].pc = "match"
  BY DEF Match, Quiet
<1> HIDE DEF p
<1>4. /\ workers' \in [Workers -> Worker]
      /\ workers'[w] = [workers[w] EXCEPT !.pc = p, !.looked = files[f].version]
      /\ \A x \in Workers \ {w} : workers'[x] = workers[x]
  BY <1>1, <1>2, FoundEffect DEF ProjectionInv
<1>5. /\ workers'[w].pc = p /\ workers'[w].file = workers[w].file /\ workers'[w].version = workers[w].version
      /\ workers'[w].content = workers[w].content /\ workers'[w].looked = files[f].version
      /\ workers'[w].seen = workers[w].seen
  BY <1>4, WorkerTyped DEF Worker, ProjectionInv
<1>6. files' = files /\ resources' = resources /\ FileOf(w)' = f /\ files[f].version \in Nat
  BY <1>3, <1>5 DEF Quiet, FileOf, ProjectionInv, TypeOK, File
<1>7. Known(w) /\ Saw(w) /\ Latest(w)' = Latest(w)
  BY <1>3, <1>5, <1>6 DEF ProjectionInv, WorkerInv, Latest, FileOf
<1>8. Known(w)'
  BY <1>5, <1>6, <1>7 DEF Known
<1>9. Wants(w)'
  BY <1>1, <1>5, <1>6 DEF Wants
<1>10. Settled(f)' = Settled(f)
  BY <1>3, QuietStep
<1>11. Latest(w) => Settled(f) \/ resources[f] = workers[w].seen
  BY <1>3, <1>7 DEF Saw
<1>12. Saw(w)'
  <2>1. CASE p = "recheck"
    BY <1>5, <1>6, <1>7, <1>10, <1>11, <2>1 DEF Saw
  <2>2. CASE p = "complete"
    <3>1. resources[f] = workers[w].seen => Settled(f)
      BY <1>1, <2>2 DEF Settled, Right
    <3> QED BY <1>5, <1>6, <1>7, <1>10, <1>11, <2>2, <3>1 DEF Saw
  <2>3. CASE p \in {"failing", "delete"}
    BY <1>5, <2>3 DEF Saw
  <2> QED BY <1>1, <2>1, <2>2, <2>3
<1>13. WorkerInv(w)'
  BY <1>8, <1>9, <1>12 DEF WorkerInv
<1> QED BY <1>3, <1>4, <1>13, OneWorker

LEMMA RecheckInv ==
    ASSUME ProjectionInv, NEW w \in Workers, Recheck(w)
    PROVE  ProjectionInv'
<1> PICK f \in Files : f = FileOf(w)
  BY WorkerTyped DEF ProjectionInv
<1> DEFINE p == IF ~StillWanted(w) THEN "superseded"
                ELSE IF workers[w].seen.life = "none" THEN "create"
                ELSE IF workers[w].seen.life = "deleted" THEN "restore"
                ELSE Update(w, workers[w].seen)
<1>1. workers[w].seen.life \in {"none", "live", "deleted"}
  BY WorkerTyped DEF ProjectionInv, Worker, Snapshot
<1>2. /\ p \in {"superseded", "create", "restore", "complete", "replace"} /\ p \in Pcs
      /\ p # "superseded" => StillWanted(w)
      /\ p = "complete" => workers[w].seen.life = "live" /\ workers[w].seen.content = workers[w].content
  <2>1. CASE ~StillWanted(w)
    BY <2>1 DEF Pcs
  <2>2. CASE StillWanted(w) /\ workers[w].seen.life = "none"
    <3>1. p = "create"
      BY <2>2
    <3> HIDE DEF p
    <3> QED BY <2>2, <3>1 DEF Pcs, Stages
  <2>3. CASE StillWanted(w) /\ workers[w].seen.life = "deleted"
    <3>1. p = "restore"
      BY <2>3
    <3> HIDE DEF p
    <3> QED BY <2>3, <3>1 DEF Pcs, Stages
  <2>4. CASE StillWanted(w) /\ workers[w].seen.life = "live"
    <3>1. p = Update(w, workers[w].seen)
      BY <2>4
    <3> HIDE DEF p
    <3> QED BY <2>4, <3>1 DEF Update, Pcs, Stages
  <2> QED BY <1>1, <2>1, <2>2, <2>3, <2>4
<1>3. Found(w, p)
  BY DEF Recheck
<1>4. Quiet /\ UNCHANGED <<intents, faults, requeues>> /\ workers[w].pc = "recheck"
  BY DEF Recheck, Quiet
<1> HIDE DEF p
<1>5. /\ workers' \in [Workers -> Worker]
      /\ workers'[w] = [workers[w] EXCEPT !.pc = p, !.looked = files[f].version]
      /\ \A x \in Workers \ {w} : workers'[x] = workers[x]
  BY <1>2, <1>3, FoundEffect DEF ProjectionInv
<1>6. /\ workers'[w].pc = p /\ workers'[w].file = workers[w].file /\ workers'[w].version = workers[w].version
      /\ workers'[w].content = workers[w].content /\ workers'[w].looked = files[f].version
  BY <1>5, WorkerTyped DEF Worker, ProjectionInv
<1>7. files' = files /\ resources' = resources /\ FileOf(w)' = f /\ files[f].version \in Nat
  BY <1>4, <1>6 DEF Quiet, FileOf, ProjectionInv, TypeOK, File
<1>8. Known(w) /\ Saw(w) /\ Wants(w) /\ Latest(w)' = Latest(w)
  BY <1>4, <1>6, <1>7 DEF ProjectionInv, WorkerInv, Latest, FileOf
<1>9. StillWanted(w) => Latest(w) /\ files[f].content = workers[w].content
  BY DEF StillWanted, IsCurrent, SourceMatches, Latest, FileOf, ProjectionInv, Intended
<1>10. Known(w)'
  BY <1>6, <1>7, <1>8 DEF Known
<1>11. workers[w].content \in Texts
  BY <1>4, <1>8 DEF Wants
<1>12. Wants(w)'
  BY <1>2, <1>6, <1>7, <1>9, <1>11 DEF Wants, Latest
<1>13. Saw(w)'
  <2>1. CASE p = "complete"
    <3>1. Settled(f) \/ resources[f] = workers[w].seen
      BY <1>2, <1>4, <1>8, <1>9, <2>1 DEF Saw
    <3>2. resources[f] = workers[w].seen => Right(f)
      BY <1>2, <1>9, <1>11, <2>1 DEF Right
    <3>3. Settled(f)'
      BY <1>4, <3>1, <3>2, QuietStep DEF Settled
    <3> QED BY <1>6, <1>7, <2>1, <3>3 DEF Saw
  <2>2. CASE p # "complete"
    BY <1>2, <1>6, <2>2 DEF Saw
  <2> QED BY <2>1, <2>2
<1>14. WorkerInv(w)'
  BY <1>10, <1>12, <1>13 DEF WorkerInv
<1> QED BY <1>4, <1>5, <1>14, OneWorker

LEMMA SeeAgainInv ==
    ASSUME ProjectionInv, NEW w \in Workers, SeeAgain(w)
    PROVE  ProjectionInv'
<1> PICK f \in Files : f = FileOf(w)
  BY WorkerTyped DEF ProjectionInv
<1> DEFINE v == resources[f]  p == Update(w, v)
<1>1. v \in Snapshot /\ p \in {"complete", "replace"} /\ p \in Pcs
  BY DEF ProjectionInv, TypeOK, Update, Pcs, Stages
<1>2. workers' = [workers EXCEPT ![w].seen = v, ![w].pc = p]
  BY DEF SeeAgain, FileOf
<1>3. Quiet /\ UNCHANGED <<intents, faults, requeues>> /\ workers[w].pc = "again"
  BY DEF SeeAgain, Quiet
<1> HIDE DEF p
<1>4. /\ workers' \in [Workers -> Worker] /\ workers'[w] = [workers[w] EXCEPT !.seen = v, !.pc = p]
      /\ \A x \in Workers \ {w} : workers'[x] = workers[x]
  BY <1>1, <1>2, SeenEffect DEF ProjectionInv
<1>5. /\ workers'[w].pc = p /\ workers'[w].file = workers[w].file /\ workers'[w].version = workers[w].version
      /\ workers'[w].content = workers[w].content /\ workers'[w].looked = workers[w].looked
  BY <1>4, WorkerTyped DEF Worker, ProjectionInv
<1>6. files' = files /\ resources' = resources /\ FileOf(w)' = f
  BY <1>3, <1>5 DEF Quiet, FileOf
<1>7. Known(w) /\ Wants(w) /\ Saw(w) /\ Latest(w)' = Latest(w)
  BY <1>3, <1>5, <1>6 DEF ProjectionInv, WorkerInv, Latest, FileOf
<1>8. Settled(f)' = Settled(f)
  BY <1>3, QuietStep
<1>9. Known(w)' /\ Wants(w)' /\ Saw(w)'
  BY <1>1, <1>3, <1>5, <1>6, <1>7, <1>8 DEF Known, Wants, Saw
<1>10. WorkerInv(w)'
  BY <1>9 DEF WorkerInv
<1> QED BY <1>3, <1>4, <1>10, OneWorker

(* A commit, the answer to one that was made before, or a refusal.         *)
LEMMA PublishInv ==
    ASSUME ProjectionInv, NEW w \in Workers, Publish(w)
    PROVE  ProjectionInv'
<1> PICK f \in Files : f = FileOf(w)
  BY WorkerTyped DEF ProjectionInv
<1>1. workers[w].pc \in Stages /\ UNCHANGED <<files, intents, faults, requeues>>
  BY DEF Publish
<1>2. PICK p \in {"again", "complete", "failing"} :
        /\ To(w, p)
        /\ p = "again" => workers[w].pc = "restore"
        /\ \/ Write(w)
           \/ Used(w) = {Request(w)} /\ UNCHANGED <<resources, overtaken, commits>>
           \/ p = "failing" /\ UNCHANGED <<resources, overtaken, commits>>
  BY DEF Publish, Answered
<1>3. /\ workers' \in [Workers -> Worker] /\ workers'[w] = [workers[w] EXCEPT !.pc = p]
      /\ \A x \in Workers \ {w} : workers'[x] = workers[x]
  BY <1>2, ToEffect DEF ProjectionInv, Pcs
<1>4. /\ workers'[w].pc = p /\ workers'[w].file = workers[w].file /\ workers'[w].version = workers[w].version
      /\ workers'[w].content = workers[w].content /\ workers'[w].looked = workers[w].looked
  BY <1>3, WorkerTyped DEF Worker, ProjectionInv
<1>5. FileOf(w)' = f /\ files' = files
  BY <1>1, <1>4 DEF FileOf
<1>6. Known(w) /\ Wants(w) /\ Latest(w)' = Latest(w)
  BY <1>1, <1>4, <1>5 DEF ProjectionInv, WorkerInv, Latest, FileOf, Stages
<1>7. Known(w)' /\ Wants(w)'
  BY <1>2, <1>4, <1>5, <1>6 DEF Known, Wants
<1>8. CASE Write(w)
  <2>1. TypeOK' /\ Settled(f)'
    BY <1>1, <1>3, <1>8, WriteSettles DEF ProjectionInv, TypeOK
  <2>2. WorkerInv(w)'
    BY <1>2, <1>4, <1>5, <1>7, <2>1 DEF WorkerInv, Saw
  <2> QED BY <1>1, <1>3, <1>8, <2>1, <2>2, WriteInv
<1>9. CASE UNCHANGED <<resources, overtaken, commits>> /\ (p = "failing" \/ Used(w) = {Request(w)})
  <2>1. Quiet
    BY <1>1, <1>9 DEF Quiet
  <2>2. p # "failing" /\ Latest(w) => Settled(f)
    <3>1. Used(w) = {Request(w)} => Request(w) \in commits
      BY DEF Used
    <3>2. Request(w).file = f /\ Request(w).version = workers[w].version
      BY DEF Request, FileOf
    <3> QED BY <1>9, <3>1, <3>2 DEF ProjectionInv, Committed, Latest
  <2>3. Saw(w)'
    BY <1>2, <1>4, <1>5, <1>6, <2>1, <2>2, QuietStep DEF Saw
  <2>4. WorkerInv(w)'
    BY <1>7, <2>3 DEF WorkerInv
  <2> QED BY <1>1, <1>3, <2>1, <2>4, OneWorker
<1> QED BY <1>2, <1>8, <1>9

-----------------------------------------------------------------------------
(* A change of one File's intent that leaves its version and content.      *)
LEMMA IntentInv ==
    ASSUME ProjectionInv, Quiet, NEW f \in Files, NEW i \in Intent,
           intents' = [intents EXCEPT ![f] = i],
           i.version = intents[f].version, i.content = intents[f].content,
           i.state = "done" /\ i.version = files[f].version => Settled(f),
           workers' \in [Workers -> Worker], faults' \in 0..MaxFaults, requeues' \in 0..MaxRequeues,
           \A w \in Workers : workers'[w] = workers[w] \/ WorkerInv(w)'
    PROVE  ProjectionInv'
<1>1. /\ intents' \in [Files -> Intent] /\ intents'[f] = i
      /\ \A g \in Files \ {f} : intents'[g] = intents[g]
  BY OweTyped DEF ProjectionInv
<1>2. TypeOK'
  BY <1>1 DEF ProjectionInv, TypeOK, Quiet
<1>3. Intended(f)'
  <2>1. files' = files /\ Settled(f)' = Settled(f) /\ Intended(f)
    BY QuietStep DEF Quiet, ProjectionInv
  <2> QED BY <1>1, <2>1 DEF Intended
<1> QED BY <1>1, <1>2, <1>3, QuietInv

LEMMA LeaseInv ==
    ASSUME ProjectionInv, NEW f \in Files, Elapse(f) \/ Rescue(f) \/ Requeue(f)
    PROVE  ProjectionInv'
<1>1. intents[f] \in Intent /\ TypeOK /\ Intended(f)
  BY DEF ProjectionInv, TypeOK
<1>2. Quiet /\ UNCHANGED workers /\ faults' \in 0..MaxFaults /\ requeues' \in 0..MaxRequeues
  BY <1>1, ProjectionConstants DEF Elapse, Rescue, Requeue, Quiet, TypeOK
<1>3. CASE Elapse(f)
  <2> DEFINE i == [intents[f] EXCEPT !.due = TRUE]
  <2>1. intents' = [intents EXCEPT ![f] = i] /\ i.version = intents[f].version
        /\ i.content = intents[f].content /\ i.state = "pending" /\ i \in Intent
    BY <1>1, <1>3 DEF Elapse, Intent
  <2> HIDE DEF i
  <2> QED BY <1>1, <1>2, <2>1, IntentInv DEF TypeOK
<1>4. CASE Rescue(f)
  <2> DEFINE i == [intents[f] EXCEPT !.state = "abandoned"]
  <2>1. intents' = [intents EXCEPT ![f] = i] /\ i.version = intents[f].version
        /\ i.content = intents[f].content /\ i.state = "abandoned" /\ i \in Intent
    BY <1>1, <1>4 DEF Rescue, Intent
  <2> HIDE DEF i
  <2> QED BY <1>1, <1>2, <2>1, IntentInv DEF TypeOK
<1>5. CASE Requeue(f)
  <2> DEFINE i == [intents[f] EXCEPT !.state = "pending", !.attempts = 0, !.due = TRUE]
  <2>1. intents' = [intents EXCEPT ![f] = i] /\ i.version = intents[f].version
        /\ i.content = intents[f].content /\ i.state = "pending" /\ i \in Intent
    <3>1. 0 \in 0..MaxRetries
      BY ProjectionConstants
    <3>2. intents' = [intents EXCEPT ![f] = i]
      BY <1>5 DEF Requeue
    <3> QED BY <1>1, <3>1, <3>2 DEF Intent
  <2> HIDE DEF i
  <2> QED BY <1>1, <1>2, <2>1, IntentInv DEF TypeOK
<1> QED BY <1>3, <1>4, <1>5

(* The end of a pass: the intent is closed as done if it is still the      *)
(* worker's, and then what the worker saw is what was asked for.           *)
LEMMA EndInv ==
    ASSUME ProjectionInv, NEW w \in Workers, Complete(w) \/ Fail(w)
    PROVE  ProjectionInv'
<1> PICK f \in Files : f = FileOf(w)
  BY WorkerTyped DEF ProjectionInv
<1>1. /\ intents[f] \in Intent /\ TypeOK /\ Intended(f) /\ WorkerInv(w)
      /\ faults \in 0..MaxFaults /\ requeues \in 0..MaxRequeues
  BY DEF ProjectionInv, TypeOK
<1>2. Quiet /\ workers' = [workers EXCEPT ![w] = Idle] /\ UNCHANGED <<faults, requeues>>
  BY DEF Complete, Fail, Quiet
<1>3. /\ workers' \in [Workers -> Worker] /\ WorkerInv(w)'
      /\ \A x \in Workers \ {w} : workers'[x] = workers[x]
  BY <1>1, <1>2, IdleTyped, ToTyped DEF WorkerInv, Idle
<1>4. CASE UNCHANGED intents
  BY <1>2, <1>3, <1>4, OneWorker
<1>5. CASE Complete(w) /\ Own(w)
  <2> DEFINE s == IF workers[w].pc = "complete" THEN "done" ELSE "superseded"
             i == [intents[f] EXCEPT !.state = s, !.attempts = 0]
  <2>1. /\ intents' = [intents EXCEPT ![f] = i] /\ i \in Intent
        /\ i.version = intents[f].version /\ i.content = intents[f].content /\ i.state = s
    <3>1. 0 \in 0..MaxRetries
      BY ProjectionConstants
    <3>2. intents' = [intents EXCEPT ![f] = i]
      BY <1>5 DEF Complete, FileOf
    <3> QED BY <1>1, <3>1, <3>2 DEF Intent
  <2>2. s = "done" /\ intents[f].version = files[f].version => Settled(f)
    BY <1>1, <1>5 DEF Own, IsCurrent, WorkerInv, Saw, Latest, FileOf
  <2> HIDE DEF i
  <2> QED BY <1>1, <1>2, <1>3, <2>1, <2>2, IntentInv
<1>6. ASSUME NEW s \in {"pending", "abandoned"}, NEW d \in BOOLEAN,
             intents' = [intents EXCEPT ![f] = [intents[f] EXCEPT !.state = s, !.due = d]]
      PROVE  ProjectionInv'
  <2> DEFINE i == [intents[f] EXCEPT !.state = s, !.due = d]
  <2>1. i \in Intent /\ i.version = intents[f].version /\ i.content = intents[f].content /\ i.state = s
    BY <1>1 DEF Intent
  <2>2. intents' = [intents EXCEPT ![f] = i]
    BY <1>6
  <2> HIDE DEF i
  <2> QED BY <1>1, <1>2, <1>3, <2>1, <2>2, IntentInv
<1>7. CASE Fail(w) /\ Own(w)
  <2>1. intents[f].state = "pending"
    BY <1>7 DEF Own, IsCurrent, FileOf
  <2>2. CASE workers[w].attempt >= MaxRetries
    <3>1. intents' = [intents EXCEPT ![f] = [intents[f] EXCEPT !.state = "abandoned"]]
      BY <1>7, <2>2 DEF Fail, FileOf
    <3>2. [intents[f] EXCEPT !.state = "abandoned"]
            = [intents[f] EXCEPT !.state = "abandoned", !.due = intents[f].due]
      BY <1>1 DEF Intent
    <3> QED BY <1>1, <1>6, <3>1, <3>2 DEF Intent
  <2>3. CASE ~(workers[w].attempt >= MaxRetries)
    <3>1. intents' = [intents EXCEPT ![f] = [intents[f] EXCEPT !.due = FALSE]]
      BY <1>7, <2>3 DEF Fail, FileOf
    <3>2. [intents[f] EXCEPT !.due = FALSE]
            = [intents[f] EXCEPT !.state = "pending", !.due = FALSE]
      BY <1>1, <2>1 DEF Intent
    <3> QED BY <1>6, <3>1, <3>2
  <2> QED BY <2>2, <2>3
<1>8. CASE ~Own(w)
  BY <1>4, <1>8 DEF Complete, Fail
<1> QED BY <1>5, <1>7, <1>8

LEMMA LossInv ==
    ASSUME ProjectionInv, NEW w \in Workers, Break(w) \/ Crash(w)
    PROVE  ProjectionInv'
<1>0. TypeOK /\ WorkerInv(w) /\ workers[w] \in Worker
  BY WorkerTyped DEF ProjectionInv
<1>1. faults' \in 0..MaxFaults /\ requeues' = requeues /\ UNCHANGED <<files, intents>>
  BY <1>0, ProjectionConstants DEF Break, Crash, TypeOK
<1>2. CASE Crash(w)
  <2>1. workers' = [workers EXCEPT ![w] = Idle] /\ Quiet
    BY <1>2 DEF Crash, Quiet
  <2>2. /\ workers' \in [Workers -> Worker] /\ WorkerInv(w)'
        /\ \A x \in Workers \ {w} : workers'[x] = workers[x]
    BY <1>0, <2>1, IdleTyped, ToTyped DEF WorkerInv, Idle
  <2>3. TypeOK'
    BY <1>0, <1>1, <2>1, <2>2 DEF TypeOK, Quiet
  <2> QED BY <1>1, <2>1, <2>2, <2>3, QuietInv
<1>3. CASE Break(w)
  <2>1. To(w, "failing") /\ workers[w].pc # "idle"
    BY <1>3 DEF Break, Stages
  <2>2. /\ workers' \in [Workers -> Worker] /\ workers'[w] = [workers[w] EXCEPT !.pc = "failing"]
        /\ \A x \in Workers \ {w} : workers'[x] = workers[x]
    BY <1>0, <2>1, ToEffect DEF Pcs
  <2>3. /\ workers'[w].pc = "failing" /\ workers'[w].file = workers[w].file
        /\ workers'[w].version = workers[w].version /\ workers'[w].content = workers[w].content
        /\ workers'[w].looked = workers[w].looked
    BY <1>0, <2>2 DEF Worker
  <2>4. WorkerInv(w)'
    <3>1. Known(w) /\ files' = files
      BY <1>0, <1>1, <2>1 DEF WorkerInv
    <3>2. Known(w)'
      BY <2>3, <3>1 DEF Known, Latest, FileOf
    <3> QED BY <2>3, <3>2 DEF WorkerInv, Wants, Saw
  <2>5. CASE UNCHANGED <<resources, overtaken, commits>>
    <3>1. Quiet
      BY <1>1, <2>5 DEF Quiet
    <3>2. TypeOK'
      BY <1>0, <1>1, <2>2, <3>1 DEF TypeOK, Quiet
    <3> QED BY <1>1, <2>2, <2>4, <3>1, <3>2, QuietInv
  <2>6. CASE workers[w].pc \in Stages /\ Write(w)
    <3>1. PICK f \in Files : f = FileOf(w)
      BY <1>0, WorkerTyped
    <3>2. TypeOK'
      BY <1>0, <1>1, <2>2, <2>6, <3>1, WriteSettles DEF TypeOK
    <3> QED BY <1>1, <2>2, <2>4, <2>6, <3>2, WriteInv
  <2> QED BY <1>3, <2>5, <2>6 DEF Break
<1> QED BY <1>2, <1>3

-----------------------------------------------------------------------------
LEMMA InvInit == Init => ProjectionInv
<1> SUFFICES ASSUME Init PROVE ProjectionInv
  OBVIOUS
<1>1. TypeOK
  BY IdleTyped, ProjectionConstants DEF Init, TypeOK, File, Intent
<1>2. \A f \in Files : Intended(f)
  BY ProjectionConstants DEF Init, Intended
<1>3. \A w \in Workers : workers[w].pc = "idle"
  BY DEF Init, Idle
<1> QED BY <1>1, <1>2, <1>3 DEF ProjectionInv, WorkerInv, Init

LEMMA InvStep == ProjectionInv /\ [Next]_vars => ProjectionInv'
<1> SUFFICES ASSUME ProjectionInv, [Next]_vars PROVE ProjectionInv'
  OBVIOUS
<1>1. CASE UNCHANGED vars
  <2>1. Quiet /\ TypeOK' /\ UNCHANGED <<intents, workers>>
    BY <1>1 DEF vars, Quiet, ProjectionInv, TypeOK
  <2> QED BY <2>1, QuietInv
<1>2. ASSUME NEW f \in Files, NEW c \in Contents, Confirm(f, c) \/ Replace(f, c)
      PROVE  ProjectionInv'
  BY <1>2, CatalogueInv
<1>3. ASSUME NEW f \in Files,
             Delete(f) \/ DeleteCollection(f) \/ Elapse(f) \/ Rescue(f) \/ Requeue(f)
      PROVE  ProjectionInv'
  BY <1>3, CatalogueInv, LeaseInv
<1>4. ASSUME NEW f \in Files, NEW w \in Workers, Claim(w, f) PROVE ProjectionInv'
  BY <1>4, ClaimInv
<1>5. ASSUME NEW w \in Workers, Pass(w) PROVE ProjectionInv'
  BY <1>5, LookInv, SeeInv, MatchInv, RecheckInv, PublishInv, SeeAgainInv, EndInv DEF Pass
<1>6. ASSUME NEW w \in Workers, Break(w) \/ Crash(w) PROVE ProjectionInv'
  BY <1>6, LossInv
<1> QED BY <1>1, <1>2, <1>3, <1>4, <1>5, <1>6 DEF Next

(* The invariant, for any Files that follow one another at a path.         *)
THEOREM ProjectionInvariant == Spec => []ProjectionInv
BY InvInit, InvStep, PTL DEF Spec

(* An intent of native_file_projection.py that is closed as done was done, *)
(* with the two exceptions HealthTruthful names, for any number of         *)
(* versions, workers, failures and reopened intents.                       *)
THEOREM DoneIsTrue == Spec => []HealthTruthful
<1>1. ProjectionInv => HealthTruthful
  BY DEF ProjectionInv, Intended, Settled, HealthTruthful
<1> QED BY <1>1, ProjectionInvariant, PTL
=============================================================================
