--------------------------- MODULE ReleaseProofs ---------------------------
(***************************************************************************)
(* Proofs about Release for any finite sets of platforms and commands and  *)
(* any concurrency.  IInv says what of a platform may run and what it has  *)
(* made, by where it is, and counts the slots that are taken; a lemma for  *)
(* each of its conjuncts says that every step keeps it.                    *)
(***************************************************************************)
EXTENDS Release, FiniteSetTheorems, TLAPS

\* The jobs there are can be counted.
LEMMA JobsFinite ==
    ASSUME NEW S \in SUBSET (Platforms \X Jobs)
    PROVE  IsFiniteSet(S) /\ Cardinality(S) \in Nat
<1>1. IsFiniteSet({}) /\ IsFiniteSet({"zip"})
  BY FS_EmptySet, FS_Singleton
<1>2. IsFiniteSet({"zip"} \union {"tarGz"})
  BY <1>1, FS_AddElement
<1>3. ArchiveNames = {"zip"} \union {"tarGz"}
  BY DEF ArchiveNames
<1>4. IsFiniteSet(Jobs)
  BY <1>2, <1>3, CmdsAssumption, FS_Union DEF Jobs
<1>5. IsFiniteSet(Platforms \X Jobs)
  BY <1>4, PlatformsAssumption, FS_Product
<1> QED BY <1>5, FS_Subset, FS_CardinalityType

\* No slot is taken, and nothing has begun.
LEMMA InitIInv == Init => IInv
<1> SUFFICES ASSUME Init PROVE IInv
  OBVIOUS
<1>1. conc \in Nat \ {0}
  BY EnvAssumption DEF Init, Concurrency
<1>2. TypeOK
  BY <1>1 DEF Init, TypeOK
<1>3. Holders = {}
  BY DEF Init, Holders
<1>4. SlotsCounted
  BY <1>3, FS_EmptySet DEF Init, SlotsCounted
<1>5. ASSUME NEW p \in Platforms PROVE PlatformState(p)
  BY DEF Init, PlatformState, Jobs
<1>6. ArchiveComplete /\ ResultState
  BY DEF Init, ArchiveComplete, ResultState
<1> QED BY <1>2, <1>4, <1>5, <1>6 DEF IInv

-----------------------------------------------------------------------------
(* What a step changes.                                                    *)

\* The step of one job leaves the others alone.
LEMMA OneJob ==
    ASSUME TypeOK, NEW p \in Platforms, NEW j \in Jobs, NEW from, NEW to,
           JobGoto(p, j, from, to)
    PROVE  /\ job[p][j] = from
           /\ job'[p][j] = to
           /\ \A i \in Jobs \ {j} : job'[p][i] = job[p][i]
           /\ \A q \in Platforms \ {p} : job'[q] = job[q]
BY DEF TypeOK, JobGoto

\* A platform's state is about what it has and is, and nothing else.
LEMMA OtherPlatform ==
    ASSUME NEW q \in Platforms, PlatformState(q), UNCHANGED confVars,
           pc'[q] = pc[q], job'[q] = job[q], made'[q] = made[q]
    PROVE  PlatformState(q)'
BY DEF PlatformState, JobsOf, Archives, confVars

\* A slot is taken by a job that had none.
LEMMA HoldersGrow ==
    ASSUME IInv, NEW p \in Platforms, NEW j \in Jobs, JobGoto(p, j, "none", "running")
    PROVE  Cardinality(Holders') = Cardinality(Holders) + 1
<1>1. <<p, j>> \notin Holders
  BY OneJob DEF IInv, Holders
<1>2. Holders' = Holders \union {<<p, j>>}
  BY OneJob DEF IInv, Holders
<1>3. IsFiniteSet(Holders)
  BY JobsFinite DEF Holders
<1> QED BY <1>1, <1>2, <1>3, FS_AddElement

\* A job that ends gives its slot back.
LEMMA HoldersShrink ==
    ASSUME IInv, NEW p \in Platforms, NEW j \in Jobs, JobGoto(p, j, "release", "ended")
    PROVE  Cardinality(Holders') = Cardinality(Holders) - 1
<1>1. <<p, j>> \in Holders
  BY OneJob DEF IInv, Holders
<1>2. Holders' = Holders \ {<<p, j>>}
  BY OneJob DEF IInv, Holders
<1>3. IsFiniteSet(Holders)
  BY JobsFinite DEF Holders
<1> QED BY <1>1, <1>2, <1>3, FS_RemoveElement

\* Between the two it keeps it.
LEMMA HoldersStay ==
    ASSUME IInv, NEW p \in Platforms, NEW j \in Jobs,
           \/ JobGoto(p, j, "running", "send")
           \/ JobGoto(p, j, "send", "release")
    PROVE  Holders' = Holders
BY OneJob DEF IInv, Holders

-----------------------------------------------------------------------------
(* Every step keeps each conjunct.                                         *)

\* The slots that are taken are those of the jobs that have one.
LEMMA SlotsCountedKept == IInv /\ [Next]_vars => SlotsCounted'
<1> SUFFICES ASSUME IInv, [Next]_vars PROVE SlotsCounted'
  OBVIOUS
<1> USE DEF IInv, SlotsCounted
<1>1. CASE UNCHANGED <<job, slots>>
  BY <1>1 DEF Holders
<1>2. ASSUME NEW p \in Platforms, NEW j \in Jobs, Run(p, j) PROVE SlotsCounted'
  BY <1>2, HoldersGrow DEF Run
<1>3. ASSUME NEW p \in Platforms, NEW j \in Jobs, JobEnds(p, j) \/ Receive(p, j)
      PROVE  SlotsCounted'
  BY <1>3, HoldersStay DEF JobEnds, Receive
<1>4. ASSUME NEW p \in Platforms, NEW j \in Jobs, Free(p, j) PROVE SlotsCounted'
  BY <1>4, HoldersShrink DEF Free
<1> QED
  BY <1>1, <1>2, <1>3, <1>4
  DEF Next, PlatformRuns, JobRuns, Begin, BuildDone, ArchiveDone, Finish, vars

\* Types are kept: a slot is given back by a job that has one, so that there
\* was at least one taken.
LEMMA TypeOKKept == IInv /\ [Next]_vars => TypeOK'
<1> SUFFICES ASSUME IInv, [Next]_vars PROVE TypeOK'
  OBVIOUS
<1> USE DEF IInv
<1>1. slots \in Nat /\ conc \in Nat /\ slots <= conc
  BY DEF TypeOK
<1>2. CASE UNCHANGED vars
  BY <1>2 DEF TypeOK, vars, confVars
<1>3. ASSUME NEW p \in Platforms, NEW j \in Jobs, Run(p, j) PROVE TypeOK'
  BY <1>1, <1>3 DEF TypeOK, Run, JobGoto, WaitResults, confVars
<1>4. ASSUME NEW p \in Platforms, NEW j \in Jobs, JobEnds(p, j) \/ Receive(p, j)
      PROVE  TypeOK'
  <2>1. job' \in [Platforms -> [Jobs -> {"none", "running", "send", "release", "ended"}]]
    BY <1>4 DEF TypeOK, JobEnds, Receive, JobGoto
  <2>2. made' \in [Platforms -> SUBSET Jobs]
    BY <1>4 DEF TypeOK, JobEnds, Receive
  <2> QED BY <1>4, <2>1, <2>2 DEF TypeOK, JobEnds, Receive, confVars
<1>5. ASSUME NEW p \in Platforms, NEW j \in Jobs, Free(p, j) PROVE TypeOK'
  <2>1. SlotsCounted'
    BY <1>5, SlotsCountedKept DEF Next, JobRuns
  <2>2. Cardinality(Holders') \in Nat
    BY JobsFinite DEF Holders
  <2>3. slots' \in 0..conc'
    BY <1>1, <1>5, <2>1, <2>2 DEF SlotsCounted, Free, confVars
  <2> QED BY <1>5, <2>3 DEF TypeOK, Free, JobGoto, confVars
<1>6. ASSUME NEW p \in Platforms, Begin(p) \/ BuildDone(p) \/ ArchiveDone(p)
      PROVE  TypeOK'
  BY <1>6 DEF TypeOK, Begin, BuildDone, ArchiveDone, PlatformGoto, confVars
<1>7. CASE Finish
  BY <1>7 DEF TypeOK, Finish, confVars
<1> QED BY <1>2, <1>3, <1>4, <1>5, <1>6, <1>7 DEF Next, PlatformRuns, JobRuns

\* The platform that steps keeps its state, and so do the others.
LEMMA PlatformStateKept ==
    IInv /\ [Next]_vars => \A q \in Platforms : PlatformState(q)'
<1> SUFFICES ASSUME IInv, [Next]_vars, NEW q \in Platforms PROVE PlatformState(q)'
  OBVIOUS
<1> USE DEF IInv
<1>1. CASE /\ UNCHANGED confVars
           /\ pc'[q] = pc[q] /\ job'[q] = job[q] /\ made'[q] = made[q]
  BY <1>1, OtherPlatform
<1>2. ASSUME Begin(q) PROVE PlatformState(q)'
  <2>1. /\ pc[q] = "todo" /\ pc'[q] = "build" /\ q \in chosen
        /\ UNCHANGED <<confVars, job, made>>
    BY <1>2 DEF Begin, PlatformGoto, TypeOK
  <2> QED BY <2>1, CmdsAssumption DEF PlatformState, JobsOf, Jobs, Archives, confVars
<1>3. ASSUME NEW j \in Jobs, Run(q, j) PROVE PlatformState(q)'
  <2>1. /\ job[q][j] = "none" /\ job'[q][j] = "running"
        /\ \A i \in Jobs \ {j} : job'[q][i] = job[q][i]
        /\ UNCHANGED <<confVars, made>> /\ j \in JobsOf(q)
    BY <1>3, OneJob DEF Run
  <2>2. CASE pc[q] = "build" /\ pc'[q] = "waitBuild"
    <3>1. \A i \in JobsOf(q)' : job'[q][i] # "none"
      BY <1>3, <2>1, <2>2 DEF Run, JobsOf, Jobs, Archives, ArchiveNames
    <3> QED BY <2>1, <2>2, <3>1, CmdsAssumption DEF PlatformState, JobsOf, Jobs, Archives, ArchiveNames, confVars
  <2>3. CASE pc[q] = "archive" /\ pc'[q] = "waitArchive"
    <3>1. \A i \in JobsOf(q)' : job'[q][i] # "none"
      BY <1>3, <2>1, <2>3 DEF Run, JobsOf, Jobs, Archives, ArchiveNames
    <3> QED BY <2>1, <2>3, <3>1, CmdsAssumption DEF PlatformState, JobsOf, Jobs, Archives, ArchiveNames, confVars
  <2>4. CASE /\ pc[q] \in {"build", "archive"} /\ pc'[q] = pc[q]
             /\ \E i \in JobsOf(q) \ {j} : job[q][i] = "none"
    <3>1. \E i \in JobsOf(q)' : job'[q][i] = "none"
      BY <2>1, <2>4 DEF JobsOf, Jobs, Archives, ArchiveNames
    <3> QED BY <2>1, <2>4, <3>1, CmdsAssumption DEF PlatformState, JobsOf, Jobs, Archives, ArchiveNames, confVars
  <2> QED BY <1>3, <2>2, <2>3, <2>4 DEF Run, WaitResults, TypeOK
<1>4. ASSUME NEW j \in Jobs, JobEnds(q, j) PROVE PlatformState(q)'
  <2>1. /\ job[q][j] = "running" /\ job'[q][j] = "send"
        /\ \A i \in Jobs \ {j} : job'[q][i] = job[q][i]
        /\ UNCHANGED <<confVars, pc>>
    BY <1>4, OneJob DEF JobEnds
  <2>2. made[q] \subseteq made'[q] /\ made'[q] \subseteq made[q] \union {j}
    BY <1>4 DEF JobEnds, TypeOK
  <2> QED BY <2>1, <2>2 DEF PlatformState, JobsOf, Jobs, Archives, ArchiveNames, confVars
<1>5. ASSUME NEW j \in Jobs, Receive(q, j) \/ Free(q, j) PROVE PlatformState(q)'
  <2>1. /\ job[q][j] \in {"send", "release"} /\ job'[q][j] \in {"release", "ended"}
        /\ \A i \in Jobs \ {j} : job'[q][i] = job[q][i]
        /\ UNCHANGED <<confVars, pc, made>>
    BY <1>5, OneJob DEF Receive, Free
  <2> QED BY <2>1 DEF PlatformState, JobsOf, Jobs, Archives, ArchiveNames, confVars
<1>6. ASSUME BuildDone(q) PROVE PlatformState(q)'
  <2>1. /\ pc[q] = "waitBuild" /\ UNCHANGED <<confVars, job, made>>
        /\ \A j \in Cmds : job[q][j] \in {"release", "ended"}
    BY <1>6 DEF BuildDone, PlatformGoto, Received, JobsOf
  <2>2. \A j \in ArchiveNames : job[q][j] = "none"
    BY <2>1 DEF PlatformState
  <2>3. \A j \in Jobs : job[q][j] \notin {"running", "send"}
    BY <2>1, <2>2 DEF Jobs
  <2>4. \/ pc'[q] = "failed"
        \/ pc'[q] = "done" /\ target = "bin" /\ Cmds \subseteq made[q]
        \/ pc'[q] = "archive" /\ Cmds \subseteq made[q]
    BY <1>6, <2>1 DEF BuildDone, PlatformGoto, TypeOK, Succeeded, JobsOf
  <2> QED BY <2>1, <2>2, <2>3, <2>4 DEF PlatformState, JobsOf, Jobs, Archives, ArchiveNames, confVars
<1>7. ASSUME ArchiveDone(q) PROVE PlatformState(q)'
  <2>1. /\ pc[q] = "waitArchive" /\ UNCHANGED <<confVars, job, made>>
        /\ \A j \in Archives(q) : job[q][j] \in {"release", "ended"}
    BY <1>7 DEF ArchiveDone, PlatformGoto, Received, JobsOf
  <2>2. \A j \in Jobs : job[q][j] \notin {"running", "send"}
    BY <2>1 DEF PlatformState, Jobs
  <2>3. \/ pc'[q] = "failed"
        \/ pc'[q] = "done" /\ Archives(q) \subseteq made[q]
    BY <1>7, <2>1 DEF ArchiveDone, PlatformGoto, TypeOK, Succeeded, JobsOf
  <2> QED BY <2>1, <2>2, <2>3 DEF PlatformState, JobsOf, confVars, Archives, Jobs
<1>8. ASSUME NEW p \in Platforms, p # q, NEW j \in Jobs,
             \/ Begin(p) \/ BuildDone(p) \/ ArchiveDone(p) \/ Run(p, j)
             \/ JobEnds(p, j) \/ Receive(p, j) \/ Free(p, j)
      PROVE  /\ UNCHANGED confVars
             /\ pc'[q] = pc[q] /\ job'[q] = job[q] /\ made'[q] = made[q]
  BY <1>8 DEF Begin, BuildDone, ArchiveDone, Run, JobEnds, Receive, Free,
              PlatformGoto, JobGoto, WaitResults, TypeOK, confVars
<1>9. CASE Finish \/ UNCHANGED vars
  BY <1>1, <1>9 DEF Finish, vars
<1>10. ASSUME NEW p \in Platforms, PlatformRuns(p) \/ \E j \in Jobs : JobRuns(p, j)
       PROVE  PlatformState(q)'
  <2>1. CASE p = q
    BY <1>2, <1>3, <1>4, <1>5, <1>6, <1>7, <1>10, <2>1 DEF PlatformRuns, JobRuns
  <2>2. CASE p # q
    <3>1. "zip" \in Jobs
      BY DEF Jobs, ArchiveNames
    <3> QED BY <1>1, <1>8, <1>10, <2>2, <3>1 DEF PlatformRuns, JobRuns
  <2> QED BY <2>1, <2>2
<1> QED BY <1>9, <1>10 DEF Next

\* A job that makes an archive runs when the binaries are there, and nothing
\* that was made goes away.
LEMMA ArchiveCompleteKept == IInv /\ [Next]_vars => ArchiveComplete'
<1> SUFFICES ASSUME IInv, [Next]_vars, NEW q \in Platforms,
                    made'[q] \intersect ArchiveNames # {}
             PROVE  Cmds \subseteq made'[q]
  BY DEF ArchiveComplete
<1> USE DEF IInv
<1>1. CASE made'[q] = made[q]
  BY <1>1 DEF ArchiveComplete
<1>2. CASE made'[q] # made[q]
  <2>1. PICK j \in Jobs : JobEnds(q, j)
    BY <1>2 DEF Next, PlatformRuns, JobRuns, JobEnds, Begin, BuildDone, ArchiveDone,
                Run, Receive, Free, Finish, vars, TypeOK
  <2>2. job[q][j] = "running" /\ made'[q] = made[q] \union {j}
    BY <1>2, <2>1 DEF JobEnds, JobGoto, TypeOK
  <2>3. CASE j \in Cmds
    BY <2>2, <2>3, CmdsAssumption DEF ArchiveComplete
  <2>4. CASE j \in ArchiveNames
    <3>1. pc[q] \in {"archive", "waitArchive"}
      BY <2>2, <2>4 DEF PlatformState, TypeOK, Jobs
    <3> QED BY <2>2, <3>1 DEF PlatformState
  <2> QED BY <2>3, <2>4 DEF Jobs
<1> QED BY <1>1, <1>2

\* A platform that is done or has failed stays so, and the result is taken
\* when all of them are.
LEMMA ResultStateKept == IInv /\ [Next]_vars => ResultState'
<1> SUFFICES ASSUME IInv, [Next]_vars PROVE ResultState'
  OBVIOUS
<1> USE DEF IInv, ResultState
<1>1. CASE Finish
  BY <1>1 DEF Finish, confVars
<1>2. ASSUME ~Finish, NEW p \in Platforms, pc[p] \in {"done", "failed"}
      PROVE  pc'[p] = pc[p]
  BY <1>2 DEF Next, PlatformRuns, JobRuns, Begin, BuildDone, ArchiveDone, Run,
              JobEnds, Receive, Free, PlatformGoto, WaitResults, TypeOK, vars
<1>3. CASE ~Finish
  <2>1. UNCHANGED <<result, chosen>>
    BY <1>3 DEF Next, PlatformRuns, JobRuns, Begin, BuildDone, ArchiveDone, Run,
                JobEnds, Receive, Free, vars, confVars
  <2>2. \A p \in chosen : p \in Platforms
    BY DEF TypeOK
  <2> QED BY <1>2, <1>3, <2>1, <2>2
<1> QED BY <1>1, <1>3

-----------------------------------------------------------------------------

\* IInv is an invariant of the targets.
THEOREM Invariant == Spec => []IInv
<1>1. IInv /\ [Next]_vars => IInv'
  BY TypeOKKept, SlotsCountedKept, PlatformStateKept, ArchiveCompleteKept, ResultStateKept
  DEF IInv
<1> QED BY InitIInv, <1>1, PTL DEF Spec

\* Every variable keeps its type: no slot is given back twice, and there are
\* never more jobs than slots (magefile.go, concurrentRun).
THEOREM TypeCorrect == Spec => []TypeOK
<1>1. IInv => TypeOK
  BY DEF IInv
<1> QED BY <1>1, Invariant, PTL

\* doRelease archives a platform's directory only with all binaries in it.
THEOREM ArchivesComplete == Spec => []ArchiveComplete
<1>1. IInv => ArchiveComplete
  BY DEF IInv
<1> QED BY <1>1, Invariant, PTL

\* waitResults loses no error: a target that succeeds has made everything.
THEOREM ErrorsAreReported == Spec => []ErrorsReported
<1>1. IInv => ErrorsReported
  BY DEF IInv, TypeOK, PlatformState, ResultState, ErrorsReported
<1> QED BY <1>1, Invariant, PTL

\* waitResults waits for the rest when a job fails: none is left running when
\* a target returns.
THEOREM NothingStillRuns == Spec => []NothingRuns
<1>1. IInv => NothingRuns
  <2> SUFFICES ASSUME IInv, result # "none", NEW p \in Platforms, NEW j \in Jobs
               PROVE  job[p][j] \notin {"running", "send"}
    BY DEF NothingRuns
  <2>1. pc[p] \in {"todo", "done", "failed"}
    BY DEF IInv, ResultState, PlatformState
  <2> QED BY <2>1 DEF IInv, PlatformState
<1> QED BY <1>1, Invariant, PTL

-----------------------------------------------------------------------------
(* When there are slots enough.                                            *)

\* With one command, a job that waits for its platform is the first of the two
\* archives of a windows platform.
LEMMA WaitingIsArchive ==
    ASSUME IInv, Cardinality(Cmds) = 1, NEW x \in Waiting
    PROVE  /\ x[1] \in chosen \intersect Windows
           /\ x[2] \in ArchiveNames
           /\ \E i \in ArchiveNames : job[x[1]][i] = "none"
<1> DEFINE p == x[1]
           j == x[2]
<1>1. /\ p \in Platforms /\ j \in Jobs /\ x = <<p, j>>
      /\ job[p][j] = "send" /\ pc[p] \in {"build", "archive"}
  BY DEF Waiting
<1>2. PlatformState(p)
  BY <1>1 DEF IInv
<1>3. PICK i \in JobsOf(p) : job[p][i] = "none"
  BY <1>1, <1>2 DEF PlatformState
<1> HIDE DEF p, j
<1>4. pc[p] # "build"
  <2> SUFFICES ASSUME pc[p] = "build" PROVE FALSE
    OBVIOUS
  <2>1. PICK c : Cmds = {c}
    BY CmdsAssumption, FS_Singleton
  <2>2. i = c
    BY <1>3, <2>1 DEF JobsOf
  <2>3. j \notin ArchiveNames
    BY <1>1, <1>2 DEF PlatformState
  <2>4. j = c
    BY <1>1, <2>1, <2>3 DEF Jobs
  <2> QED BY <1>1, <1>3, <2>2, <2>4
<1>5. pc[p] = "archive"
  BY <1>1, <1>4
<1>6. j \in Archives(p) /\ i \in Archives(p) /\ i # j
  BY <1>1, <1>2, <1>3, <1>5 DEF PlatformState, JobsOf, Jobs
<1>7. p \in Windows /\ p \in chosen
  BY <1>2, <1>5, <1>6 DEF Archives, PlatformState
<1>8. Archives(p) \subseteq ArchiveNames
  BY DEF Archives, ArchiveNames
<1> QED BY <1>3, <1>6, <1>7, <1>8 DEF p, j

\* Release and ReleaseAll cannot starve while there are more slots than
\* windows platforms (goCmds being the one command of this repository).
THEOREM NeverStarves == Spec => []EnoughConcurrency
<1>1. IInv => EnoughConcurrency
  <2> SUFFICES ASSUME IInv, Cardinality(Cmds) = 1,
                      conc > Cardinality(chosen \intersect Windows), Starved
               PROVE  FALSE
    BY DEF EnoughConcurrency
  <2> DEFINE W == chosen \intersect Windows
             platformOf == [x \in Waiting |-> x[1]]
  <2>1. ASSUME NEW x \in Waiting, NEW y \in Waiting, x[1] = y[1] PROVE x = y
    <3>1. /\ job[x[1]][x[2]] = "send" /\ job[y[1]][y[2]] = "send"
          /\ x = <<x[1], x[2]>> /\ y = <<y[1], y[2]>>
      BY DEF Waiting
    <3>2. x[2] \in ArchiveNames /\ y[2] \in ArchiveNames
      BY WaitingIsArchive
    <3>3. PICK i \in ArchiveNames : job[x[1]][i] = "none"
      BY WaitingIsArchive
    <3>4. x[2] # i /\ y[2] # i
      BY <2>1, <3>1, <3>3
    <3>5. x[2] = y[2]
      BY <3>2, <3>3, <3>4 DEF ArchiveNames
    <3> QED BY <2>1, <3>1, <3>5
  <2>2. platformOf \in [Waiting -> W]
    BY WaitingIsArchive
  <2>3. platformOf \in Injection(Waiting, W)
    BY <2>1, <2>2 DEF Injection, IsInjective
  <2>4. IsFiniteSet(W)
    BY PlatformsAssumption, FS_Subset DEF IInv, TypeOK
  <2>5. Cardinality(Waiting) <= Cardinality(W)
    BY <2>3, <2>4, FS_Injection
  <2>6. Cardinality(Waiting) \in Nat /\ Cardinality(W) \in Nat
    BY <2>4, JobsFinite, FS_CardinalityType DEF Waiting
  <2> QED BY <2>5, <2>6 DEF Starved
<1> QED BY <1>1, Invariant, PTL

-----------------------------------------------------------------------------
(* When there are not.                                                     *)

\* A job that waits for its platform has a slot.
LEMMA WaitingHold ==
    ASSUME IInv
    PROVE  /\ Waiting \subseteq Holders
           /\ IsFiniteSet(Holders) /\ Cardinality(Holders) = slots
           /\ slots \in Nat /\ conc \in Nat \ {0} /\ slots <= conc
<1>1. Waiting \subseteq Holders
  BY DEF Waiting, Holders
<1>2. IsFiniteSet(Holders)
  BY JobsFinite DEF Holders
<1> QED BY <1>1, <1>2 DEF IInv, SlotsCounted, TypeOK

\* When they starve, they are all that have one.
LEMMA StarvedHold ==
    ASSUME IInv, Starved
    PROVE  /\ Waiting = Holders /\ slots = conc
           /\ \A p \in Platforms, j \in Jobs :
                /\ job[p][j] \in {"none", "send", "ended"}
                /\ job[p][j] = "send" => pc[p] \in {"build", "archive"}
<1>1. /\ IsFiniteSet(Waiting)
      /\ Cardinality(Waiting) <= Cardinality(Holders)
      /\ Cardinality(Waiting) = Cardinality(Holders) => Waiting = Holders
  BY WaitingHold, FS_Subset
<1>2. Waiting = Holders /\ slots = conc
  BY <1>1, WaitingHold DEF Starved
<1>3. ASSUME NEW p \in Platforms, NEW j \in Jobs,
             job[p][j] \in {"running", "send", "release"}
      PROVE  job[p][j] = "send" /\ pc[p] \in {"build", "archive"}
  <2>1. <<p, j>> \in Holders
    BY <1>3 DEF Holders
  <2>2. <<p, j>> \in Waiting
    BY <1>2, <2>1
  <2> QED BY <2>2 DEF Waiting
<1> QED BY <1>2, <1>3 DEF IInv, TypeOK

\* The jobs that wait when they starve wait for ever: their platforms get no
\* slot, and without all of its platforms the target does not end.
THEOREM StarvesForever == Spec => StarvedForever
<1>1. ASSUME IInv, [Next]_vars, Starved PROVE Starved' /\ UNCHANGED result
  <2>1. CASE UNCHANGED vars
    BY <1>1, <2>1 DEF vars, confVars, Starved, Waiting
  <2>2. ASSUME NEW p \in Platforms, NEW j \in Jobs,
               Run(p, j) \/ JobEnds(p, j) \/ Receive(p, j) \/ Free(p, j)
        PROVE  FALSE
    BY <1>1, <2>2, StarvedHold, WaitingHold
    DEF Run, JobEnds, Receive, Free, JobGoto
  <2>3. ASSUME NEW p \in Platforms, Begin(p) \/ BuildDone(p) \/ ArchiveDone(p)
        PROVE  Starved' /\ UNCHANGED result
    <3>1. \A j \in Jobs : job[p][j] # "send"
      BY <1>1, <2>3, StarvedHold DEF Begin, BuildDone, ArchiveDone, PlatformGoto,
         IInv, PlatformState
    <3>2. /\ UNCHANGED <<confVars, job, result>>
          /\ \A q \in Platforms \ {p} : pc'[q] = pc[q]
      BY <1>1, <2>3 DEF Begin, BuildDone, ArchiveDone, PlatformGoto, IInv, TypeOK
    <3>3. Waiting' = Waiting
      BY <3>1, <3>2 DEF Waiting
    <3> QED BY <1>1, <3>2, <3>3 DEF Starved, confVars
  <2>4. CASE Finish
    <3>1. Waiting # {}
      BY <1>1, WaitingHold, FS_EmptySet DEF Starved
    <3>2. PICK x \in Waiting : TRUE
      BY <3>1
    <3>3. x[1] \in Platforms /\ pc[x[1]] \in {"build", "archive"}
      BY <3>2 DEF Waiting
    <3>4. x[1] \in chosen
      BY <1>1, <3>3 DEF IInv, PlatformState
    <3> QED BY <2>4, <3>3, <3>4 DEF Finish
  <2> QED BY <1>1, <2>1, <2>2, <2>3, <2>4 DEF Next, PlatformRuns, JobRuns
<1> QED BY <1>1, Invariant, PTL DEF Spec, StarvedForever

\* A target whose goroutines all wait starves (concurrentRun, waitResults).
THEOREM StarvationOnly == Spec => []OnlyStarvation
<1>1. IInv => OnlyStarvation
  <2> SUFFICES ASSUME IInv, result = "none", ~CanMove PROVE Starved
    BY DEF OnlyStarvation
  <2>1. ASSUME NEW p \in Platforms, NEW j \in Jobs
        PROVE  job[p][j] \in {"none", "send", "ended"}
    BY DEF CanMove, IInv, TypeOK
  <2>2. ASSUME NEW p \in Platforms PROVE pc[p] \notin {"waitBuild", "waitArchive"}
    <3> SUFFICES ASSUME pc[p] \in {"waitBuild", "waitArchive"} PROVE FALSE
      OBVIOUS
    <3>1. PICK j \in JobsOf(p) : job[p][j] \notin {"send", "release", "ended"}
      BY DEF CanMove, Received
    <3>2. j \in Jobs
      BY <3>1 DEF JobsOf, Jobs, Archives, ArchiveNames
    <3>3. job[p][j] # "none"
      BY <3>1 DEF IInv, PlatformState
    <3> QED BY <2>1, <3>1, <3>2, <3>3
  <2>3. PICK p \in Platforms : pc[p] \in {"build", "archive"}
    <3>1. PICK q \in chosen : pc[q] \notin {"done", "failed"}
      BY DEF CanMove
    <3>2. q \in Platforms
      BY DEF IInv, TypeOK
    <3>3. CASE pc[q] = "todo"
      BY <3>1, <3>3 DEF CanMove
    <3> QED BY <2>2, <3>1, <3>2, <3>3 DEF IInv, TypeOK
  <2>4. slots = conc
    <3>1. \E j \in JobsOf(p) : job[p][j] = "none"
      BY <2>3 DEF IInv, PlatformState
    <3> QED BY <2>3, <3>1, WaitingHold DEF CanMove
  <2>5. ASSUME NEW x \in Holders PROVE x \in Waiting
    <3>1. x[1] \in Platforms /\ x[2] \in Jobs /\ job[x[1]][x[2]] = "send"
      BY <2>1 DEF Holders
    <3>2. pc[x[1]] \notin {"todo", "done", "failed"}
      BY <3>1 DEF IInv, PlatformState
    <3>3. pc[x[1]] \in {"build", "archive"}
      BY <2>2, <3>1, <3>2 DEF IInv, TypeOK
    <3> QED BY <3>1, <3>3 DEF Holders, Waiting
  <2>6. Waiting = Holders
    BY <2>5, WaitingHold
  <2> QED BY <2>4, <2>6, WaitingHold DEF Starved
<1> QED BY <1>1, Invariant, PTL

-----------------------------------------------------------------------------
(* Every step counts.                                                      *)

\* The ranks are few, and small.
LEMMA Ranks ==
    /\ PcRank["todo"] = 0 /\ PcRank["build"] = 1 /\ PcRank["waitBuild"] = 2
    /\ PcRank["archive"] = 3 /\ PcRank["waitArchive"] = 4
    /\ PcRank["done"] = 5 /\ PcRank["failed"] = 5
    /\ JobRank["none"] = 0 /\ JobRank["running"] = 1 /\ JobRank["send"] = 2
    /\ JobRank["release"] = 3 /\ JobRank["ended"] = 4
BY DEF PcRank, JobRank

\* There are finitely many steps before a target.
LEMMA StepsFinite ==
    /\ \A S \in SUBSET (Platforms \X (1..5)) : IsFiniteSet(S) /\ Cardinality(S) \in Nat
    /\ \A S \in SUBSET ((Platforms \X Jobs) \X (1..4)) :
         IsFiniteSet(S) /\ Cardinality(S) \in Nat
<1>1. IsFiniteSet(1..5) /\ IsFiniteSet(1..4)
  <2>1. \A S \in SUBSET Nat : (\A i \in S : i <= 5) => IsFiniteSet(S)
    BY FS_BoundedSetOfNaturals
  <2>2. 1..5 \in SUBSET Nat /\ \A i \in 1..5 : i <= 5
    OBVIOUS
  <2>3. 1..4 \in SUBSET Nat /\ \A i \in 1..4 : i <= 5
    OBVIOUS
  <2> QED BY <2>1, <2>2, <2>3
<1>2. IsFiniteSet(Platforms \X (1..5))
  BY <1>1, PlatformsAssumption, FS_Product
<1>3. IsFiniteSet(Platforms \X Jobs)
  BY JobsFinite
<1>4. IsFiniteSet((Platforms \X Jobs) \X (1..4))
  BY <1>1, <1>3, FS_Product
<1>5. ASSUME NEW S, NEW T, IsFiniteSet(T), S \in SUBSET T
      PROVE  IsFiniteSet(S) /\ Cardinality(S) \in Nat
  BY <1>5, FS_Subset, FS_CardinalityType
<1> QED BY <1>2, <1>4, <1>5

\* A platform that goes on has fewer before it.
LEMMA PlatformNearer ==
    ASSUME NEW p \in Platforms, PcRank[pc[p]] \in Nat, PcRank[pc'[p]] \in 1..5,
           PcRank[pc[p]] < PcRank[pc'[p]], \A q \in Platforms \ {p} : pc'[q] = pc[q]
    PROVE  Cardinality(PlatformSteps') < Cardinality(PlatformSteps)
<1> DEFINE x == <<p, PcRank[pc'[p]]>>
<1>1. PlatformSteps' \subseteq PlatformSteps
  BY DEF PlatformSteps
<1>2. x \in PlatformSteps /\ x \notin PlatformSteps'
  BY DEF PlatformSteps
<1>3. PlatformSteps \in SUBSET (Platforms \X (1..5)) /\ PlatformSteps' \in SUBSET (Platforms \X (1..5))
  BY DEF PlatformSteps
<1>4. /\ IsFiniteSet(PlatformSteps) /\ Cardinality(PlatformSteps) \in Nat
      /\ Cardinality(PlatformSteps') \in Nat
  BY <1>3, StepsFinite
<1>5. /\ Cardinality(PlatformSteps') <= Cardinality(PlatformSteps)
      /\ Cardinality(PlatformSteps') # Cardinality(PlatformSteps)
  BY <1>1, <1>2, <1>4, FS_Subset
<1> QED BY <1>4, <1>5

\* So has a job.
LEMMA JobNearer ==
    ASSUME NEW p \in Platforms, NEW j \in Jobs, JobRank[job[p][j]] \in Nat,
           JobRank[job'[p][j]] \in 1..4, JobRank[job[p][j]] < JobRank[job'[p][j]],
           \A i \in Jobs \ {j} : job'[p][i] = job[p][i],
           \A q \in Platforms \ {p} : job'[q] = job[q]
    PROVE  Cardinality(JobSteps') < Cardinality(JobSteps)
<1> DEFINE x == <<<<p, j>>, JobRank[job'[p][j]]>>
<1>1. JobSteps' \subseteq JobSteps
  BY DEF JobSteps
<1>2. x \in JobSteps /\ x \notin JobSteps'
  BY DEF JobSteps
<1>3. JobSteps \in SUBSET ((Platforms \X Jobs) \X (1..4)) /\ JobSteps' \in SUBSET ((Platforms \X Jobs) \X (1..4))
  BY DEF JobSteps
<1>4. /\ IsFiniteSet(JobSteps) /\ Cardinality(JobSteps) \in Nat
      /\ Cardinality(JobSteps') \in Nat
  BY <1>3, StepsFinite
<1>5. /\ Cardinality(JobSteps') <= Cardinality(JobSteps)
      /\ Cardinality(JobSteps') # Cardinality(JobSteps)
  BY <1>1, <1>2, <1>4, FS_Subset
<1> QED BY <1>4, <1>5

\* No step is done twice, for any platforms, commands and concurrency: a target
\* stops after finitely many, and StarvationOnly says where (magefile.go,
\* concurrentRun, waitResults).
THEOREM EveryStepCounts == Spec => StepsCount
<1> DEFINE P == Cardinality(PlatformSteps)
           J == Cardinality(JobSteps)
<1>1. ASSUME IInv, Next PROVE StepsLeft' < StepsLeft
  <2>1. P \in Nat /\ J \in Nat /\ P' \in Nat /\ J' \in Nat
    BY StepsFinite DEF PlatformSteps, JobSteps
  <2>2. UNCHANGED pc => P' = P
    BY DEF PlatformSteps
  <2>3. UNCHANGED job => J' = J
    BY DEF JobSteps
  <2>4. ASSUME NEW p \in Platforms, Begin(p) \/ BuildDone(p) \/ ArchiveDone(p)
        PROVE  P' < P /\ J' = J /\ UNCHANGED result
    BY <1>1, <2>3, <2>4, Ranks, PlatformNearer
    DEF Begin, BuildDone, ArchiveDone, PlatformGoto, IInv, TypeOK
  <2>5. ASSUME NEW p \in Platforms, NEW j \in Jobs,
               JobEnds(p, j) \/ Receive(p, j) \/ Free(p, j)
        PROVE  P' = P /\ J' < J /\ UNCHANGED result
    <3>1. \/ JobGoto(p, j, "running", "send") \/ JobGoto(p, j, "send", "release")
          \/ JobGoto(p, j, "release", "ended")
      BY <2>5 DEF JobEnds, Receive, Free
    <3>2. J' < J
      BY <1>1, <3>1, Ranks, OneJob, JobNearer DEF IInv
    <3> QED BY <2>2, <2>5, <3>2 DEF JobEnds, Receive, Free
  <2>6. ASSUME NEW p \in Platforms, NEW j \in Jobs, Run(p, j)
        PROVE  P' <= P /\ J' < J /\ UNCHANGED result
    <3>1. J' < J
      BY <1>1, <2>6, Ranks, OneJob, JobNearer DEF Run, IInv
    <3>2. CASE UNCHANGED pc
      BY <2>1, <2>2, <2>6, <3>1, <3>2 DEF Run
    <3>3. CASE WaitResults(p) /\ ~UNCHANGED pc
      <4>1. P' < P
        BY <1>1, <2>6, <3>3, Ranks, PlatformNearer DEF Run, WaitResults, IInv, TypeOK
      <4> QED BY <2>1, <2>6, <3>1, <4>1 DEF Run
    <3> QED BY <2>6, <3>2, <3>3 DEF Run
  <2>7. CASE Finish
    BY <2>1, <2>2, <2>3, <2>7 DEF Finish, StepsLeft
  <2> QED
    <3>1. \/ Finish
          \/ UNCHANGED result /\ P' <= P /\ J' <= J /\ (P' < P \/ J' < J)
      BY <1>1, <2>1, <2>4, <2>5, <2>6 DEF Next, PlatformRuns, JobRuns
    <3>2. StepsLeft = P + J + (IF result = "none" THEN 1 ELSE 0)
      BY DEF StepsLeft
    <3>3. StepsLeft' = P' + J' + (IF result' = "none" THEN 1 ELSE 0)
      BY DEF StepsLeft
    <3>4. CASE Finish
      BY <2>7, <3>4
    <3>5. CASE UNCHANGED result /\ P' <= P /\ J' <= J /\ (P' < P \/ J' < J)
      <4>1. result' = "none" <=> result = "none"
        BY <3>5
      <4>2. P' + J' < P + J
        BY <2>1, <3>5
      <4> QED BY <2>1, <3>2, <3>3, <4>1, <4>2
    <3> QED BY <3>1, <3>4, <3>5
<1>2. IInv /\ [Next]_vars => [StepsLeft' < StepsLeft]_vars
  BY <1>1
<1> QED BY <1>2, Invariant, PTL DEF Spec, StepsCount
=============================================================================
