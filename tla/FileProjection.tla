--------------------------- MODULE FileProjection ---------------------------
(***************************************************************************)
(* The searchable text of Files (native_file_projection.py).  A File lives *)
(* in the catalogue; its text is copied to a resource of the ledger by     *)
(* workers that read one row per File, the outbox.  A mutation of a File   *)
(* rewrites its row under a new intent id; a worker that still holds the   *)
(* old intent finds out only where it looks.  What one intent asks for may *)
(* take a restore and a replacement, each a commit of its own.             *)
(*                                                                         *)
(* The ledger's operations happen at one instant each (NativeLedger        *)
(* implements VersionedStore).  Nothing in the code renames a File or      *)
(* moves it, so the move of a resource is never taken and is left out.     *)
(* The object of a confirmed File has the bytes that were certified, or    *)
(* cannot be read.                                                         *)
(*                                                                         *)
(* A definition whose name ends in Slip belongs to no specification: it is *)
(* the form a plausible bug would give the definition that follows it.     *)
(***************************************************************************)
EXTENDS Integers, FiniteSets

CONSTANTS
    Files,       \* Files that have, one after the other, the same path
    Texts,       \* contents that are text
    Binary,      \* any other content
    Workers,
    MaxRetries,
    MaxVersion,  \* bound: mutations of one File
    MaxFaults,   \* bound: failed calls, lost answers, lost workers
    MaxRequeues, \* bound: times an operator reopens what was given up
    Cascades     \* whether a collection may be deleted with its Files

Absent == "absent"
Contents == Texts \cup {Binary}

ASSUME ProjectionConstants ==
    /\ Files # {}
    /\ Binary \notin Texts /\ Absent \notin Contents
    /\ MaxRetries \in Nat \ {0} /\ MaxVersion \in Nat /\ MaxFaults \in Nat
    /\ MaxRequeues \in Nat /\ Cascades \in BOOLEAN

VARIABLES
    files,     \* vault_files: the confirmed content and its generation
    intents,   \* native_file_projection_outbox
    resources, \* native_resources and their Heads
    overtaken, \* resources whose last commit came after a change its worker had not seen
    commits,   \* mutation ids used, with the Head each request expected
    workers,
    faults,
    requeues

vars == <<files, intents, resources, overtaken, commits, workers, faults, requeues>>

Stages == {"create", "restore", "replace", "delete"}
File == [content : Contents \cup {Absent}, version : 0..MaxVersion, state : {"new", "there", "gone"}]
Intent == [version : 0..MaxVersion, content : Contents \cup {Absent},
           state : {"none", "pending", "done", "superseded", "abandoned"}, attempts : 0..MaxRetries, due : BOOLEAN]

Snapshot == [life : {"none", "live", "deleted"}, content : Contents \cup {Absent}, head : Nat]
Commit == [file : Files, version : 0..MaxVersion, stage : Stages, expected : Nat]

\* Where a worker is, the intent it claimed, the resource it has read, and
\* the version of the File it has seen last, at first the one of the intent.
Worker == [pc : {"idle", "look", "see", "match", "recheck", "again", "complete", "superseded", "failing"} \cup Stages,
           file : Files, version : 0..MaxVersion, content : Contents \cup {Absent},
           attempt : 0..MaxRetries, seen : Snapshot, looked : 0..MaxVersion]

Nothing == [life |-> "none", content |-> Absent, head |-> 0]
Idle == [pc |-> "idle", file |-> CHOOSE f \in Files : TRUE, version |-> 0, content |-> Absent,
         attempt |-> 0, seen |-> Nothing, looked |-> 0]

Init ==
    /\ files = [f \in Files |-> [content |-> Absent, version |-> 0, state |-> "new"]]
    /\ intents = [f \in Files |-> [version |-> 0, content |-> Absent, state |-> "none",
                                   attempts |-> 0, due |-> FALSE]]
    /\ resources = [f \in Files |-> Nothing] /\ overtaken = {}
    /\ commits = {} /\ workers = [w \in Workers |-> Idle] /\ faults = 0 /\ requeues = 0

-----------------------------------------------------------------------------
(* The catalogue.  Each mutation owes the projection its result, but for   *)
(* the deletion of a collection with what is in it.                        *)
PathTaken(f) == \E g \in Files \ {f} : files[g].state = "there"

Owe(f, content) ==
    intents' = [intents EXCEPT ![f] = [version |-> files'[f].version, content |-> content,
                                       state |-> "pending", attempts |-> 0, due |-> TRUE]]

Mutate(f, content, state) ==
    /\ files[f].version < MaxVersion
    /\ files' = [files EXCEPT ![f] = [content |-> content, version |-> @.version + 1, state |-> state]]

Confirm(f, c) ==
    /\ files[f].state = "new" /\ ~PathTaken(f)
    /\ Mutate(f, c, "there")
    /\ Owe(f, c)
    /\ UNCHANGED <<resources, overtaken, commits, workers, faults, requeues>>

Replace(f, c) ==
    /\ files[f].state = "there"
    /\ Mutate(f, c, "there")
    /\ Owe(f, c)
    /\ UNCHANGED <<resources, overtaken, commits, workers, faults, requeues>>

Delete(f) ==
    /\ files[f].state = "there"
    /\ Mutate(f, Absent, "gone")
    /\ Owe(f, Absent)
    /\ UNCHANGED <<resources, overtaken, commits, workers, faults, requeues>>

DeleteCollection(f) ==
    /\ Cascades /\ files[f].state = "there"
    /\ Mutate(f, Absent, "gone")
    /\ UNCHANGED <<intents, resources, overtaken, commits, workers, faults, requeues>>

-----------------------------------------------------------------------------
(* One pass of a worker. *)
To(w, pc) == workers' = [workers EXCEPT ![w].pc = pc]

IsCurrent(w) ==
    LET f == workers[w].file
    IN  intents[f].version = workers[w].version /\ intents[f].state = "pending"

Claim(w, f) ==
    /\ workers[w].pc = "idle"
    /\ intents[f].state = "pending" /\ intents[f].due /\ intents[f].attempts < MaxRetries
    /\ intents' = [intents EXCEPT ![f].attempts = @ + 1, ![f].due = FALSE]
    /\ workers' = [workers EXCEPT ![w] =
         [pc |-> "look", file |-> f, version |-> intents[f].version, content |-> intents[f].content,
          attempt |-> intents[f].attempts + 1, seen |-> Nothing, looked |-> intents[f].version]]
    /\ UNCHANGED <<files, resources, overtaken, commits, faults, requeues>>

Look(w) ==
    /\ workers[w].pc = "look"
    /\ To(w, IF IsCurrent(w) THEN "see" ELSE "superseded")
    /\ UNCHANGED <<files, intents, resources, overtaken, commits, faults, requeues>>

\* A File without text has no live resource.
Absence(seen) == IF seen.life = "live" THEN "delete" ELSE "complete"

See(w) ==
    /\ workers[w].pc = "see"
    /\ LET seen == resources[workers[w].file]
       IN  workers' = [workers EXCEPT ![w].seen = seen,
                         ![w].pc = IF workers[w].content = Absent THEN Absence(seen) ELSE "match"]
    /\ UNCHANGED <<files, intents, resources, overtaken, commits, faults, requeues>>

\* The File has the bytes the intent names, under the key made of their hash.
SourceMatches(w) ==
    LET f == files[workers[w].file] IN f.state = "there" /\ f.content = workers[w].content

Found(w, pc) ==
    workers' = [workers EXCEPT ![w].pc = pc, ![w].looked = files[workers[w].file].version]

(* The File is compared with the intent, and its object is read.           *)
Match(w) ==
    /\ workers[w].pc = "match"
    /\ Found(w, IF ~SourceMatches(w) THEN "failing"
                ELSE IF workers[w].content \notin Texts THEN Absence(workers[w].seen)
                ELSE "recheck")
    /\ UNCHANGED <<files, intents, resources, overtaken, commits, faults, requeues>>

\* What the worker does next to a live resource.
Update(w, seen) == IF seen.content = workers[w].content THEN "complete" ELSE "replace"

\* After the download nothing is read again.
StillWantedSlip(w) == workers[w].looked = workers[w].version

StillWanted(w) == IsCurrent(w) /\ SourceMatches(w)

(* After the download both are read again, here at one instant; what comes *)
(* first depends on the resource as it was before.                         *)
Recheck(w) ==
    /\ workers[w].pc = "recheck"
    /\ Found(w, IF ~StillWanted(w) THEN "superseded"
                ELSE IF workers[w].seen.life = "none" THEN "create"
                ELSE IF workers[w].seen.life = "deleted" THEN "restore"
                ELSE Update(w, workers[w].seen))
    /\ UNCHANGED <<files, intents, resources, overtaken, commits, faults, requeues>>

-----------------------------------------------------------------------------
(* Commits to the ledger. *)
Used(w) ==
    {c \in commits : c.file = workers[w].file /\ c.version = workers[w].version
                                              /\ c.stage = workers[w].pc}
Request(w) ==
    [file |-> workers[w].file, version |-> workers[w].version,
     stage |-> workers[w].pc, expected |-> workers[w].seen.head]

\* The ledger refuses a request that does not fit, or takes another's path.
Fits(w) ==
    LET f == workers[w].file  stage == workers[w].pc
    IN  /\ resources[f].head = workers[w].seen.head
        /\ stage \in {"create", "restore"} => \A g \in Files : resources[g].life # "live"
        /\ CASE stage = "create"  -> resources[f].life = "none"
             [] stage = "restore" -> resources[f].life = "deleted"
             [] OTHER             -> resources[f].life = "live"

Write(w) ==
    LET f == workers[w].file
    IN  /\ Used(w) = {} /\ Fits(w)
        /\ resources' = [resources EXCEPT ![f] =
             [life |-> IF workers[w].pc = "delete" THEN "deleted" ELSE "live",
              content |-> IF workers[w].pc = "delete" THEN @.content ELSE workers[w].content,
              head |-> @.head + 1]]
        /\ overtaken' = IF files[f].version # workers[w].looked THEN overtaken \cup {f}
                                                                ELSE overtaken \ {f}
        /\ commits' = commits \cup {Request(w)}

Answered(w) == To(w, IF workers[w].pc = "restore" THEN "again" ELSE "complete")

Publish(w) ==
    /\ workers[w].pc \in Stages
    /\ \/ Write(w) /\ Answered(w)
       \/ Used(w) = {Request(w)} /\ Answered(w) /\ UNCHANGED <<resources, overtaken, commits>>
       \/ /\ Used(w) # {Request(w)} /\ (Used(w) # {} \/ ~Fits(w))
          /\ To(w, "failing")
          /\ UNCHANGED <<resources, overtaken, commits>>
    /\ UNCHANGED <<files, intents, faults, requeues>>

(* The restored resource is read again, for the Head to expect.            *)
SeeAgain(w) ==
    /\ workers[w].pc = "again"
    /\ LET seen == resources[workers[w].file]
       IN  workers' = [workers EXCEPT ![w].seen = seen, ![w].pc = Update(w, seen)]
    /\ UNCHANGED <<files, intents, resources, overtaken, commits, faults, requeues>>

-----------------------------------------------------------------------------
(* The end of a pass. *)
\* The row of the File is closed, whatever it asks for by now.
OwnSlip(w) == intents[workers[w].file].state = "pending"

Own(w) == IsCurrent(w)

Complete(w) ==
    /\ workers[w].pc \in {"complete", "superseded"}
    /\ workers' = [workers EXCEPT ![w] = Idle]
    /\ IF Own(w)
         THEN intents' = [intents EXCEPT ![workers[w].file].state =
                                           IF workers[w].pc = "complete" THEN "done" ELSE "superseded",
                                         ![workers[w].file].attempts = 0]
         ELSE UNCHANGED intents
    /\ UNCHANGED <<files, resources, overtaken, commits, faults, requeues>>

Fail(w) ==
    /\ workers[w].pc = "failing"
    /\ workers' = [workers EXCEPT ![w] = Idle]
    /\ intents' = CASE ~Own(w) -> intents
                    [] Own(w) /\ workers[w].attempt >= MaxRetries ->
                         [intents EXCEPT ![workers[w].file].state = "abandoned"]
                    [] OTHER -> [intents EXCEPT ![workers[w].file].due = FALSE]
    /\ UNCHANGED <<files, resources, overtaken, commits, faults, requeues>>

(* A statement or a download fails, or the answer to a commit is lost.     *)
Break(w) ==
    /\ faults < MaxFaults /\ faults' = faults + 1
    /\ \/ /\ workers[w].pc \notin {"idle", "complete", "superseded", "failing"}
          /\ UNCHANGED <<resources, overtaken, commits>>
       \/ workers[w].pc \in Stages /\ Write(w)
    /\ To(w, "failing")
    /\ UNCHANGED <<files, intents, requeues>>

(* The process dies, or its last statement never arrives.                  *)
Crash(w) ==
    /\ faults < MaxFaults /\ faults' = faults + 1
    /\ workers[w].pc # "idle"
    /\ workers' = [workers EXCEPT ![w] = Idle]
    /\ UNCHANGED <<files, intents, resources, overtaken, commits, requeues>>

(* A lease runs out, under a dead worker or a slow one; a delay passes.    *)
Elapse(f) ==
    /\ intents[f].state = "pending" /\ ~intents[f].due
    /\ intents' = [intents EXCEPT ![f].due = TRUE]
    /\ UNCHANGED <<files, resources, overtaken, commits, workers, faults, requeues>>

\* Waits for one attempt more than there will be.
SpentSlip(f) == intents[f].attempts > MaxRetries

Spent(f) == intents[f].attempts >= MaxRetries

(* queue_rescuer: the worker with the last attempt died.                   *)
Rescue(f) ==
    /\ intents[f].state = "pending" /\ intents[f].due /\ Spent(f)
    /\ intents' = [intents EXCEPT ![f].state = "abandoned"]
    /\ UNCHANGED <<files, resources, overtaken, commits, workers, faults, requeues>>

(* An operator reopens what was given up, under the same intent id.        *)
Requeue(f) ==
    /\ requeues < MaxRequeues /\ requeues' = requeues + 1
    /\ intents[f].state = "abandoned"
    /\ intents' = [intents EXCEPT ![f].state = "pending", ![f].attempts = 0, ![f].due = TRUE]
    /\ UNCHANGED <<files, resources, overtaken, commits, workers, faults>>

Pass(w) ==
    \/ Look(w) \/ See(w) \/ Match(w) \/ Recheck(w) \/ Publish(w)
    \/ SeeAgain(w) \/ Complete(w) \/ Fail(w)

Next ==
    \/ \E f \in Files :
         \/ Delete(f) \/ DeleteCollection(f) \/ Elapse(f) \/ Rescue(f) \/ Requeue(f)
         \/ \E c \in Contents : Confirm(f, c) \/ Replace(f, c)
         \/ \E w \in Workers : Claim(w, f)
    \/ \E w \in Workers : Pass(w) \/ Break(w) \/ Crash(w)

(* Workers go on, time passes, and the oldest row that is due is claimed   *)
(* first.  Nobody need change a File, fail, or reopen anything.            *)
Fairness ==
    /\ \A w \in Workers : WF_vars(Pass(w))
    /\ \A f \in Files :
         /\ SF_vars(\E w \in Workers : Claim(w, f))
         /\ WF_vars(Elapse(f)) /\ WF_vars(Rescue(f))

Spec == Init /\ [][Next]_vars /\ Fairness

-----------------------------------------------------------------------------
(* The values of each variable.                                            *)
TypeOK ==
    /\ files \in [Files -> File]
    /\ intents \in [Files -> Intent]
    /\ resources \in [Files -> Snapshot]
    /\ overtaken \subseteq Files
    /\ commits \subseteq Commit
    /\ workers \in [Workers -> Worker]
    /\ faults \in 0..MaxFaults
    /\ requeues \in 0..MaxRequeues

\* The projection is the text of the File, or there is none.
Right(f) ==
    IF files[f].content \in Texts
      THEN resources[f].life = "live" /\ resources[f].content = files[f].content
      ELSE resources[f].life # "live"

(* Every variable has its type; and an intent closed by what was done says *)
(* so truthfully, with two exceptions: a collection was deleted with the   *)
(* File, or the last commit came after the File had changed since its      *)
(* worker looked at it last.                                               *)
HealthTruthful ==
    TypeOK /\ \A f \in Files :
        /\ intents[f].state = "done"
        /\ intents[f].version = files[f].version
        /\ f \notin overtaken
        => Right(f)

(* Whatever a File goes through and whoever dies, what it is owed is done, *)
(* or given up for an operator to see.                                     *)
Settles == \A f \in Files : intents[f].state = "pending" ~> intents[f].state # "pending"

(* "A row written in the same transaction as each confirmed File mutation" *)
(* and "only an empty durable queue is actually healthy/fresh": with every *)
(* row closed as done, search has the text of every File and no other.     *)
FreshWhenDone ==
    (\A f \in Files : intents[f].state \notin {"pending", "abandoned"}) =>
        \A f \in Files : Right(f)
=============================================================================
