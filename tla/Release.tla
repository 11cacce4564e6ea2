------------------------------ MODULE Release ------------------------------
(***************************************************************************)
(* The release targets of magefile.go: ReleaseAll and Release build each   *)
(* platform's commands and then its archives, ReleaseBinAll and ReleaseBin *)
(* the commands only.  concurrentRun starts a job in a goroutine when it   *)
(* gets one of the slots of concurrencyQueue, and returns a promise of its *)
(* result; waitResults starts a goroutine per promise to receive it.       *)
(*                                                                         *)
(* The promise is an unbuffered channel, and a job gives its slot back     *)
(* only after its result was received.  So a platform that has to start    *)
(* two jobs before it waits for either can keep a slot while it needs      *)
(* another: see Starved.                                                   *)
(***************************************************************************)
EXTENDS Naturals, FiniteSets

CONSTANTS Platforms,       \* the platforms there are releases for
          Windows,         \* those that get a zip archive as well
          Cmds,            \* goCmds
          Env              \* values of CONCURRENCY that are tried

ArchiveNames == {"zip", "tarGz"}

ASSUME PlatformsAssumption == IsFiniteSet(Platforms) /\ Windows \subseteq Platforms
ASSUME CmdsAssumption ==
    /\ IsFiniteSet(Cmds)
    /\ Cmds # {}
    /\ Cmds \intersect ArchiveNames = {}
ASSUME EnvAssumption == Env \subseteq Nat

VARIABLES
    target,    \* "release" or "bin"
    chosen,    \* the platforms it is for: one, or all
    slots,     \* the length of concurrencyQueue
    conc,      \* its capacity
    pc,        \* where each platform is
    job,       \* where each of its jobs is
    made,      \* the binaries and archives that were made
    result     \* what the target came to

confVars == <<target, chosen, conc>>
vars == <<confVars, slots, pc, job, made, result>>

Jobs == Cmds \union ArchiveNames

\* Mutant: every platform gets both.
BothArchives(p) == ArchiveNames

Archives(p) == IF p \in Windows THEN ArchiveNames ELSE {"tarGz"}

\* `Ensure we always have at least 1 process'.
Concurrency(v) == IF v < 1 THEN 1 ELSE v

Init ==
    /\ target \in {"release", "bin"}
    /\ chosen \in {Platforms} \union {{p} : p \in Platforms}
    /\ conc \in {Concurrency(v) : v \in Env}
    /\ slots = 0
    /\ pc = [p \in Platforms |-> "todo"]
    /\ job = [p \in Platforms |-> [j \in Jobs |-> "none"]]
    /\ made = [p \in Platforms |-> {}]
    /\ result = "none"

PlatformGoto(p, from, to) == pc[p] = from /\ pc' = [pc EXCEPT ![p] = to]

JobGoto(p, j, from, to) ==
    /\ job[p][j] = from
    /\ job' = [job EXCEPT ![p][j] = to]

\* The jobs a platform starts, and then waits for, where it is.
JobsOf(p) == IF pc[p] \in {"build", "waitBuild"} THEN Cmds ELSE Archives(p)

-----------------------------------------------------------------------------

\* ReleaseBinAll calls doReleaseBin, which gets the slots, for one platform
\* after the other; ReleaseAll has a goroutine for each.
Begin(p) ==
    /\ p \in chosen
    /\ target = "bin" => \A q \in Platforms : pc[q] # "build"
    /\ PlatformGoto(p, "todo", "build")
    /\ UNCHANGED <<confVars, slots, job, made, result>>

\* waitResults, called when the last of its jobs has a slot: the promises have
\* goroutines to receive their results.
WaitResults(p) ==
    pc' = [pc EXCEPT ![p] = IF @ = "build" THEN "waitBuild" ELSE "waitArchive"]

\* concurrentRun: wait for a slot, start the job.  Which of a platform's jobs
\* comes first is of no importance.
Run(p, j) ==
    /\ pc[p] \in {"build", "archive"} /\ j \in JobsOf(p)
    /\ slots < conc
    /\ slots' = slots + 1
    /\ JobGoto(p, j, "none", "running")
    /\ IF \E i \in JobsOf(p) \ {j} : job[p][i] = "none"
         THEN UNCHANGED pc
         ELSE WaitResults(p)
    /\ UNCHANGED <<confVars, made, result>>

\* A job fails or makes what it is for.
JobEnds(p, j) ==
    /\ JobGoto(p, j, "running", "send")
    /\ made' \in {made, [made EXCEPT ![p] = @ \union {j}]}
    /\ UNCHANGED <<confVars, slots, pc, result>>

Receive(p, j) ==
    /\ pc[p] \in {"waitBuild", "waitArchive"} /\ j \in JobsOf(p)
    /\ JobGoto(p, j, "send", "release")
    /\ UNCHANGED <<confVars, slots, pc, made, result>>

\* Mutant: the slot is not given back.
FreeNothing(p, j) ==
    /\ JobGoto(p, j, "release", "ended")
    /\ UNCHANGED <<confVars, slots, pc, made, result>>

Free(p, j) ==
    /\ JobGoto(p, j, "release", "ended")
    /\ slots' = slots - 1
    /\ UNCHANGED <<confVars, pc, made, result>>

Received(p) == \A j \in JobsOf(p) : job[p][j] \in {"release", "ended"}

\* Mutant: the results are counted but their errors forgotten.
NoErrors(p) == TRUE

\* buildError.
Succeeded(p) == JobsOf(p) \subseteq made[p]

\* doRelease goes on to the archives when the binaries are all there.
BuildDone(p) ==
    /\ Received(p)
    /\ PlatformGoto(p, "waitBuild", IF ~Succeeded(p) THEN "failed"
                                    ELSE IF target = "bin" THEN "done"
                                    ELSE "archive")
    /\ UNCHANGED <<confVars, slots, job, made, result>>

ArchiveDone(p) ==
    /\ Received(p)
    /\ PlatformGoto(p, "waitArchive", IF Succeeded(p) THEN "done" ELSE "failed")
    /\ UNCHANGED <<confVars, slots, job, made, result>>

\* Mutant: the first error ends it.
FinishEarly ==
    /\ result = "none"
    /\ \/ \A p \in chosen : pc[p] = "done"
       \/ \E p \in chosen : pc[p] = "failed"
    /\ result' = IF \A p \in chosen : pc[p] = "done" THEN "ok" ELSE "failed"
    /\ UNCHANGED <<confVars, slots, pc, job, made>>

\* waitResults of the target itself, over its platforms.
Finish ==
    /\ result = "none"
    /\ \A p \in chosen : pc[p] \in {"done", "failed"}
    /\ result' = IF \A p \in chosen : pc[p] = "done" THEN "ok" ELSE "failed"
    /\ UNCHANGED <<confVars, slots, pc, job, made>>

-----------------------------------------------------------------------------

PlatformRuns(p) ==
    \/ Begin(p) \/ BuildDone(p) \/ ArchiveDone(p)
    \/ \E j \in Jobs : Run(p, j)

JobRuns(p, j) == JobEnds(p, j) \/ Receive(p, j) \/ Free(p, j)

Next ==
    \/ \E p \in Platforms :
         PlatformRuns(p) \/ \E j \in Jobs : JobRuns(p, j)
    \/ Finish

Spec == Init /\ [][Next]_vars

\* Goroutines that can run do, a job ends, and a slot that keeps being freed
\* comes to each that waits for it in the end.
Fairness ==
    /\ \A p \in Platforms :
         /\ SF_vars(PlatformRuns(p))
         /\ \A j \in Jobs : WF_vars(JobRuns(p, j))
    /\ WF_vars(Finish)

FairSpec == Spec /\ Fairness

-----------------------------------------------------------------------------

\* Every variable keeps its type; a slot is not given back twice.
TypeOK ==
    /\ target \in {"release", "bin"}
    /\ chosen \in SUBSET Platforms
    /\ conc \in Nat \ {0}
    /\ slots \in 0..conc
    /\ pc \in [Platforms -> {"todo", "build", "waitBuild", "archive",
                             "waitArchive", "done", "failed"}]
    /\ job \in [Platforms -> [Jobs -> {"none", "running", "send", "release", "ended"}]]
    /\ made \in [Platforms -> SUBSET Jobs]
    /\ result \in {"none", "ok", "failed"}

\* An archive has all the binaries: it is made of a directory that the jobs of
\* the same platform write to, and never after one of them failed.
ArchiveComplete ==
    \A p \in Platforms : made[p] \intersect ArchiveNames # {} => Cmds \subseteq made[p]

\* A target only succeeds with everything made that it is for.
ErrorsReported ==
    result = "ok" =>
        \A p \in chosen :
            /\ Cmds \subseteq made[p]
            /\ target = "release" => Archives(p) \subseteq made[p]

\* When a target returns, failed or not, no job of it still runs.
NothingRuns ==
    result # "none" =>
        \A p \in Platforms, j \in Jobs : job[p][j] \notin {"running", "send"}

\* The jobs that keep a slot until their result is received, while nobody does
\* as their platform still has to get another slot.
Waiting == {x \in Platforms \X Jobs :
              job[x[1]][x[2]] = "send" /\ pc[x[1]] \in {"build", "archive"}}

\* They keep all the slots: nothing will ever happen again.
Starved == Cardinality(Waiting) = conc

\* A target ends, or starves.
EndsOrStarves == <>(result # "none" \/ Starved)

\* With one command it takes as many platforms with two archives as there are
\* slots: a windows release alone when CONCURRENCY is 1, ReleaseAll when it is
\* no more than the number of windows platforms.
EnoughConcurrency ==
    Cardinality(Cmds) = 1 /\ conc > Cardinality(chosen \intersect Windows)
        => ~Starved

\* Nobody comes to the rescue: a starved target never returns.
StarvedForever == [][Starved => Starved' /\ UNCHANGED result]_vars

\* What can happen next, a disjunct for each action that has its turn.
CanMove ==
    \/ \E p \in chosen :
         pc[p] = "todo" /\ (target = "bin" => \A q \in Platforms : pc[q] # "build")
    \/ \E p \in Platforms :
         \/ /\ pc[p] \in {"build", "archive"}
            /\ slots < conc
            /\ \E j \in JobsOf(p) : job[p][j] = "none"
         \/ \E j \in Jobs : job[p][j] \in {"running", "release"}
         \/ /\ pc[p] \in {"waitBuild", "waitArchive"}
            /\ Received(p) \/ \E j \in JobsOf(p) : job[p][j] = "send"
    \/ result = "none" /\ \A p \in chosen : pc[p] \in {"done", "failed"}

\* A target that has not returned goes on unless it starves: there is no other
\* way for its goroutines to wait for each other.
OnlyStarvation == result = "none" => Starved \/ CanMove

\* The steps a platform, and a job, has before it.
PcRank == [todo |-> 0, build |-> 1, waitBuild |-> 2, archive |-> 3,
           waitArchive |-> 4, done |-> 5, failed |-> 5]
JobRank == [none |-> 0, running |-> 1, send |-> 2, release |-> 3, ended |-> 4]

PlatformSteps == {x \in Platforms \X (1..5) : PcRank[pc[x[1]]] < x[2]}
JobSteps == {x \in (Platforms \X Jobs) \X (1..4) :
               JobRank[job[x[1][1]][x[1][2]]] < x[2]}

StepsLeft ==
    Cardinality(PlatformSteps) + Cardinality(JobSteps)
        + (IF result = "none" THEN 1 ELSE 0)

\* Nothing is done twice: each step brings the target nearer to its end, or to
\* the point where it starves.
StepsCount == [][StepsLeft' < StepsLeft]_vars

-----------------------------------------------------------------------------
(* The inductive invariant that the proofs rest on.                        *)

\* The jobs that were started and have not given back their slot.
Holders == {x \in Platforms \X Jobs :
              job[x[1]][x[2]] \in {"running", "send", "release"}}

SlotsCounted == slots = Cardinality(Holders)

\* What a platform has made, and what of it may run, where it is.
PlatformState(p) ==
    /\ p \notin chosen => pc[p] = "todo"
    /\ \A j \in Jobs : job[p][j] \in {"none", "running"} => j \notin made[p]
    /\ \A j \in Jobs \ (Cmds \union Archives(p)) : job[p][j] = "none"
    /\ pc[p] = "todo" => \A j \in Jobs : job[p][j] = "none"
    /\ pc[p] \in {"build", "waitBuild"} =>
         \A j \in ArchiveNames : job[p][j] = "none"
    /\ pc[p] \in {"build", "archive"} => \E j \in JobsOf(p) : job[p][j] = "none"
    /\ pc[p] \in {"waitBuild", "waitArchive"} => \A j \in JobsOf(p) : job[p][j] # "none"
    /\ pc[p] \in {"archive", "waitArchive", "done", "failed"} =>
         \A j \in Cmds : job[p][j] \notin {"running", "send"}
    /\ pc[p] \in {"done", "failed"} =>
         \A j \in Jobs : job[p][j] \notin {"running", "send"}
    /\ pc[p] \in {"archive", "waitArchive", "done"} => Cmds \subseteq made[p]
    /\ pc[p] = "done" /\ target = "release" => Archives(p) \subseteq made[p]

ResultState ==
    /\ result # "none" => \A p \in chosen : pc[p] \in {"done", "failed"}
    /\ result = "ok" => \A p \in chosen : pc[p] = "done"

IInv ==
    /\ TypeOK
    /\ SlotsCounted
    /\ \A p \in Platforms : PlatformState(p)
    /\ ArchiveComplete
    /\ ResultState
=============================================================================
