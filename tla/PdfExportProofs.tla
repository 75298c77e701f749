--------------------------- MODULE PdfExportProofs ---------------------------
(* Theorems about PdfExport, for all sets of jobs and windows and any number *)
(* of sections: its types, and that it implements the safety part of         *)
(* ExportContract.                                                           *)
EXTENDS PdfExport, TLAPS

JobRecord == [owner : Owners \cup {NoOwner}, state : States, stage : Stages,
              section : 0..(Sections - 1), retry : 0..MaxChunkRetries,
              rendered : BOOLEAN, cancelled : BOOLEAN]

\* The stage of a run says whether its job is live.
StageInv ==
  \A j \in Jobs :
    /\ jobs[j].stage \in {"rendering", "clearing", "merging"} => jobs[j].state = "running"
    /\ jobs[j].state = "running" => jobs[j].stage \in {"rendering", "clearing", "merging"}

\* A live job is the one that its window is attached to.
AttachInv ==
  \A j \in Jobs :
    jobs[j].state \in Live => jobs[j].owner \in Owners /\ activeByOwner[jobs[j].owner] = j

\* Only a job that renders, and was not cancelled, has a hidden window.
WindowInv == \A j \in windows : jobs[j].stage = "rendering" /\ ~jobs[j].cancelled

PdfInv == PdfTypeOK /\ StageInv /\ AttachInv /\ WindowInv

USE PdfAssumption

\* Every step that changes one job record, and at most detaches its window and
\* removes its hidden window, keeps the invariant.
LEMMA OneJobMoves ==
  ASSUME PdfInv, NEW j \in Jobs, NEW job \in JobRecord,
         jobs' = [jobs EXCEPT ![j] = job],
         UNCHANGED <<shuttingDown, folder>>, documents' \subseteq Jobs,
         job.owner = jobs[j].owner,
         job.state \in Live => jobs[j].state \in Live,
         job.state = "running" <=> job.stage \in {"rendering", "clearing", "merging"},
         \/ UNCHANGED activeByOwner
         \/ /\ activeByOwner' = [activeByOwner EXCEPT ![jobs[j].owner] = NoJob]
            /\ jobs[j].state \in Live /\ job.state \notin Live,
         \/ windows' = windows \ {j}
         \/ windows' = windows /\ j \notin windows
         \/ windows' = windows \cup {j} /\ job.stage = "rendering" /\ ~job.cancelled
  PROVE  PdfInv'
<1> USE DEF PdfInv
<1>1. PdfTypeOK'
  <2>1. jobs' \in [Jobs -> JobRecord]
    BY DEF PdfTypeOK, JobRecord
  <2>2. activeByOwner' \in [Owners -> Jobs \cup {NoJob}]
    BY DEF PdfTypeOK
  <2> QED BY <2>1, <2>2 DEF PdfTypeOK, JobRecord
<1>2. jobs'[j] = job /\ \A i \in Jobs \ {j} : jobs'[i] = jobs[i]
  BY DEF PdfTypeOK
<1>3. StageInv'
  BY <1>2 DEF StageInv
<1>4. AttachInv'
  BY <1>2 DEF AttachInv, PdfTypeOK
<1>5. WindowInv'
  BY <1>2 DEF WindowInv, PdfTypeOK
<1> QED BY <1>1, <1>3, <1>4, <1>5

\* The end of a run.
LEMMA EndRunMoves ==
  ASSUME PdfInv, NEW j \in Jobs, jobs[j].state \in Live, NEW state \in Terminal,
         EndRun(j, state), UNCHANGED <<shuttingDown, folder>>, documents' \subseteq Jobs
  PROVE  PdfInv'
<1> DEFINE job == [jobs[j] EXCEPT !.state = state, !.stage = "over"]
<1>1. jobs[j] \in JobRecord
  BY DEF PdfInv, PdfTypeOK, JobRecord
<1>2. job \in JobRecord /\ job.state = state /\ job.stage = "over" /\ job.owner = jobs[j].owner
  BY <1>1 DEF JobRecord, States, Stages, Terminal
<1>3. jobs' = [jobs EXCEPT ![j] = job]
  BY DEF EndRun
<1>4. /\ activeByOwner' = [activeByOwner EXCEPT ![jobs[j].owner] = NoJob]
      /\ windows' = windows \ {j}
  BY DEF EndRun
<1>5. state \notin Live /\ state # "running"
  BY DEF Terminal, Live
<1> HIDE DEF job
<1> QED BY <1>2, <1>3, <1>4, <1>5, OneJobMoves

\* What a cancellation, the destruction of a window and a shutdown have in common.
LEMMA MarkedKeep ==
  ASSUME PdfInv, NEW S, MarkCancelled(S), UNCHANGED <<activeByOwner, folder, documents>>,
         shuttingDown' \in BOOLEAN
  PROVE  PdfInv'
<1>1. /\ jobs' \in [Jobs -> JobRecord]
      /\ \A j \in Jobs : /\ jobs'[j].state = jobs[j].state /\ jobs'[j].stage = jobs[j].stage
                         /\ jobs'[j].owner = jobs[j].owner
                         /\ jobs'[j].cancelled = (jobs[j].cancelled \/ j \in S)
  <2>1. jobs \in [Jobs -> JobRecord]
    BY DEF PdfInv, PdfTypeOK, JobRecord
  <2>2. ASSUME NEW j \in Jobs, NEW flag \in BOOLEAN
        PROVE  LET job == [jobs[j] EXCEPT !.cancelled = flag]
               IN  /\ job \in JobRecord /\ job.state = jobs[j].state /\ job.stage = jobs[j].stage
                   /\ job.owner = jobs[j].owner /\ job.cancelled = flag
    BY <2>1 DEF JobRecord
  <2>3. \A j \in Jobs : (jobs[j].cancelled \/ j \in S) \in BOOLEAN
    OBVIOUS
  <2>4. jobs' = [j \in Jobs |-> [jobs[j] EXCEPT !.cancelled = jobs[j].cancelled \/ j \in S]]
    BY DEF MarkCancelled
  <2>5. ASSUME NEW j \in Jobs
        PROVE  /\ jobs'[j] \in JobRecord
               /\ jobs'[j].state = jobs[j].state /\ jobs'[j].stage = jobs[j].stage
               /\ jobs'[j].owner = jobs[j].owner
               /\ jobs'[j].cancelled = (jobs[j].cancelled \/ j \in S)
    BY <2>2, <2>3, <2>4
  <2> QED BY <2>4, <2>5
<1>2. windows' = windows \ S
  BY DEF MarkCancelled
<1>3. PdfTypeOK'
  BY <1>1, <1>2 DEF PdfInv, PdfTypeOK, JobRecord
<1>4. StageInv' /\ AttachInv' /\ WindowInv'
  BY <1>1, <1>2 DEF PdfInv, PdfTypeOK, StageInv, AttachInv, WindowInv
<1> QED BY <1>3, <1>4 DEF PdfInv

\* A job of a run in progress is live.
LEMMA RunIsLive ==
  ASSUME PdfInv, NEW j \in Jobs,
         jobs[j].state = "queued" \/ jobs[j].stage \in {"rendering", "clearing", "merging"}
  PROVE  jobs[j].state \in Live
BY DEF PdfInv, StageInv, Live

\* A run that throws keeps the invariant.
LEMMA ThrowsMoves ==
  ASSUME PdfInv, NEW j \in Jobs, jobs[j].state \in Live, Throws(j)
  PROVE  PdfInv'
<1>1. PICK state \in Terminal : EndRun(j, state)
  BY DEF Throws, Terminal
<1>2. UNCHANGED <<shuttingDown, folder, documents>> /\ documents \subseteq Jobs
  BY DEF Throws, PdfInv, PdfTypeOK
<1> QED BY <1>1, <1>2, EndRunMoves

\* So does the opening of a hidden window, or its failure.
LEMMA OpenMoves ==
  ASSUME PdfInv, NEW j \in Jobs, jobs[j].state \in Live,
         NEW section \in 0..(Sections - 1), NEW retry \in 0..MaxChunkRetries,
         OpenSection(j, section, retry)
  PROVE  PdfInv'
<1> DEFINE job == [jobs[j] EXCEPT !.state = "running", !.stage = "rendering",
                                  !.section = section, !.retry = retry]
<1>1. CASE jobs[j].cancelled
  BY <1>1, ThrowsMoves DEF OpenSection
<1>2. CASE ~jobs[j].cancelled
  <2>1. jobs[j] \in JobRecord
    BY DEF PdfInv, PdfTypeOK, JobRecord
  <2>2. /\ job \in JobRecord /\ job.state = "running" /\ job.stage = "rendering"
        /\ job.owner = jobs[j].owner /\ job.cancelled = jobs[j].cancelled
    BY <2>1 DEF JobRecord, States, Stages, Live
  <2>3. jobs' = [jobs EXCEPT ![j] = job] /\ windows' = windows \cup {j}
    BY <1>2 DEF OpenSection
  <2>4. UNCHANGED <<activeByOwner, shuttingDown, folder>> /\ documents' \subseteq Jobs
    BY <1>2 DEF OpenSection, PdfInv, PdfTypeOK
  <2> HIDE DEF job
  <2> QED BY <1>2, <2>2, <2>3, <2>4, OneJobMoves
<1> QED BY <1>1, <1>2

\* A step of a run keeps the invariant.
LEMMA RunKeeps ==
  ASSUME PdfInv, NEW j \in Jobs, RunStep(j)
  PROVE  PdfInv'
<1> DEFINE job == jobs[j]
<1>0. job \in JobRecord /\ documents \subseteq Jobs
  BY DEF PdfInv, PdfTypeOK, JobRecord
<1>1. CASE RunBegins(j)
  <2>1. 0 \in 0..(Sections - 1) /\ 0 \in 0..MaxChunkRetries
    BY DEF MaxChunkRetries
  <2> QED BY <1>1, <2>1, RunIsLive, OpenMoves, ThrowsMoves DEF RunBegins
<1>2. ASSUME NEW rendered \in BOOLEAN, SectionAnswered(j, rendered) PROVE PdfInv'
  <2> DEFINE next == [job EXCEPT !.stage = "clearing", !.rendered = rendered]
  <2>1. next \in JobRecord /\ next.stage = "clearing" /\ next.state = job.state /\ next.owner = job.owner
    BY <1>0 DEF JobRecord, Stages
  <2>2. job.state = "running"
    BY <1>2 DEF SectionAnswered, PdfInv, StageInv
  <2>3. /\ jobs' = [jobs EXCEPT ![j] = next] /\ windows' = windows \ {j}
        /\ UNCHANGED <<activeByOwner, shuttingDown, folder, documents>>
    BY <1>2 DEF SectionAnswered
  <2> HIDE DEF next
  <2> QED BY <1>0, <2>1, <2>2, <2>3, OneJobMoves
<1>3. CASE SectionCleared(j)
  <2>1. job.stage = "clearing" /\ job.state = "running" /\ job.state \in Live
    BY <1>3, RunIsLive DEF SectionCleared, PdfInv, StageInv
  <2>2. CASE job.rendered /\ job.section + 1 < Sections /\ OpenSection(j, job.section + 1, 0)
    BY <1>0, <2>1, <2>2, OpenMoves DEF JobRecord, MaxChunkRetries
  <2>3. CASE ~job.rendered /\ job.retry < MaxChunkRetries /\ OpenSection(j, job.section, job.retry + 1)
    BY <1>0, <2>1, <2>3, OpenMoves DEF JobRecord, MaxChunkRetries
  <2>4. CASE Throws(j)
    BY <2>1, <2>4, ThrowsMoves
  <2>5. CASE /\ jobs' = [jobs EXCEPT ![j].stage = "merging"]
             /\ UNCHANGED <<activeByOwner, windows, shuttingDown, folder, documents>>
    <3> DEFINE next == [job EXCEPT !.stage = "merging"]
    <3>1. next \in JobRecord /\ next.stage = "merging" /\ next.state = job.state /\ next.owner = job.owner
      BY <1>0 DEF JobRecord, Stages
    <3>2. jobs' = [jobs EXCEPT ![j] = next]
      BY <2>5
    <3>3. j \notin windows
      BY <2>1 DEF PdfInv, WindowInv
    <3> HIDE DEF next
    <3> QED BY <1>0, <2>1, <2>5, <3>1, <3>2, <3>3, OneJobMoves
  <2> QED BY <1>3, <2>2, <2>3, <2>4, <2>5 DEF SectionCleared
<1>4. CASE Merged(j)
  <2>1. PICK state \in Terminal : EndRun(j, state) /\ documents' = documents \cup {j}
    BY <1>4 DEF Merged, Terminal
  <2>2. UNCHANGED <<shuttingDown, folder>> /\ job.state \in Live
    BY <1>4, RunIsLive DEF Merged
  <2> QED BY <1>0, <2>1, <2>2, EndRunMoves
<1>5. CASE MergeThrows(j)
  BY <1>5, RunIsLive, ThrowsMoves DEF MergeThrows
<1> QED BY <1>1, <1>2, <1>3, <1>4, <1>5 DEF RunStep

\* So does a step of the IPC handlers, of the timers and of the shell.
LEMMA StartKeeps ==
  ASSUME PdfInv, NEW j \in Jobs, NEW o \in Owners, Start(j, o)
  PROVE  PdfInv'
<1> DEFINE job == Job(o, "queued", "queued")
<1>1. /\ job \in JobRecord /\ job.owner = o /\ job.state = "queued" /\ job.stage = "queued"
      /\ job.cancelled = FALSE
  BY DEF Job, JobRecord, States, Stages, Live, MaxChunkRetries
<1>2. /\ jobs' = [jobs EXCEPT ![j] = job]
      /\ activeByOwner' = [activeByOwner EXCEPT ![o] = j]
      /\ UNCHANGED <<windows, shuttingDown, folder, documents>>
      /\ ~Attached(o) /\ jobs[j].state = "none"
  BY DEF Start
<1> HIDE DEF job
<1>3. jobs' \in [Jobs -> JobRecord] /\ activeByOwner' \in [Owners -> Jobs \cup {NoJob}]
  BY <1>1, <1>2 DEF PdfInv, PdfTypeOK, JobRecord
<1>4. PdfTypeOK'
  BY <1>2, <1>3 DEF PdfInv, PdfTypeOK, JobRecord
<1>5. jobs'[j] = job /\ \A i \in Jobs \ {j} : jobs'[i] = jobs[i]
  BY <1>2 DEF PdfInv, PdfTypeOK
<1>6. StageInv'
  BY <1>1, <1>5 DEF PdfInv, StageInv
<1>7. AttachInv'
  <2>1. \A i \in Jobs : jobs[i].state \in Live => jobs[i].owner # o
    BY <1>2 DEF PdfInv, AttachInv, Attached
  <2> QED BY <1>1, <1>2, <1>5, <2>1 DEF PdfInv, PdfTypeOK, AttachInv
<1>8. WindowInv'
  <2>1. j \notin windows
    BY <1>2 DEF PdfInv, WindowInv, StageInv
  <2> QED BY <1>2, <1>5, <2>1 DEF PdfInv, PdfTypeOK, WindowInv
<1> QED BY <1>4, <1>6, <1>7, <1>8 DEF PdfInv

\* And forgetting a job that has ended.
LEMMA ForgetKeeps ==
  ASSUME PdfInv, NEW j \in Jobs, ForgetJob(j)
  PROVE  PdfInv'
<1> DEFINE next == [jobs[j] EXCEPT !.state = "gone"]
<1>1. /\ next \in JobRecord /\ next.state = "gone" /\ next.stage = jobs[j].stage
      /\ next.owner = jobs[j].owner
  BY DEF PdfInv, PdfTypeOK, JobRecord, States
<1>2. /\ jobs[j].stage \notin {"rendering", "clearing", "merging"}
      /\ j \notin windows /\ documents \subseteq Jobs
  BY DEF ForgetJob, Terminal, PdfInv, StageInv, WindowInv, PdfTypeOK
<1>3. /\ jobs' = [jobs EXCEPT ![j] = next]
      /\ UNCHANGED <<activeByOwner, windows, shuttingDown, folder, documents>>
  BY DEF ForgetJob
<1>4. "gone" \notin Live
  BY DEF Live
<1> HIDE DEF next
<1> QED BY <1>1, <1>2, <1>3, <1>4, OneJobMoves

\* The invariant is inductive.
LEMMA PdfInvInit == PdfInit => PdfInv
<1> SUFFICES ASSUME PdfInit PROVE PdfInv
  OBVIOUS
<1>1. Job(NoOwner, "none", "queued") \in JobRecord
  BY DEF Job, JobRecord, States, Stages, MaxChunkRetries
<1>2. PdfTypeOK
  BY <1>1 DEF PdfInit, PdfTypeOK, JobRecord
<1>3. \A j \in Jobs : jobs[j].state = "none" /\ jobs[j].stage = "queued"
  BY DEF PdfInit, Job
<1> QED BY <1>2, <1>3 DEF PdfInit, PdfInv, StageInv, AttachInv, WindowInv, Live

\* Every step of the PDF manager keeps its invariant.
LEMMA PdfInvStep == PdfInv /\ [PdfNext]_pdfVars => PdfInv'
<1> SUFFICES ASSUME PdfInv, [PdfNext]_pdfVars PROVE PdfInv'
  OBVIOUS
<1>1. ASSUME NEW j \in Jobs, Cancel(j) PROVE PdfInv'
  BY <1>1, MarkedKeep DEF Cancel, PdfInv, PdfTypeOK
<1>2. ASSUME NEW o \in Owners, CancelOwner(o) PROVE PdfInv'
  BY <1>2, MarkedKeep DEF CancelOwner, PdfInv, PdfTypeOK
<1>3. CASE Shutdown
  BY <1>3, MarkedKeep DEF Shutdown
<1>4. CASE FolderChanges
  BY <1>4 DEF FolderChanges, managerVars, PdfInv, PdfTypeOK, StageInv, AttachInv, WindowInv
<1>5. CASE UNCHANGED pdfVars
  BY <1>5 DEF pdfVars, managerVars, PdfInv, PdfTypeOK, StageInv, AttachInv, WindowInv
<1> QED BY <1>1, <1>2, <1>3, <1>4, <1>5, RunKeeps, StartKeeps, ForgetKeeps DEF PdfNext

\* The type invariant of the PDF manager holds of all its behaviours.
THEOREM PdfTypeCorrect == PdfSafety => []PdfTypeOK
<1>1. PdfInv => PdfTypeOK
  BY DEF PdfInv
<1> QED BY <1>1, PdfInvInit, PdfInvStep, PTL DEF PdfSafety

-----------------------------------------------------------------------------
(* The refinement of ExportContract, action by action. *)

\* What a step that changes a job record means for the contract.
LEMMA ContractView ==
  ASSUME PdfInv, NEW j \in Jobs, NEW job, jobs' = [jobs EXCEPT ![j] = job]
  PROVE  LET kept == [i \in Jobs |-> IF jobs[i].state \in Live THEN "active" ELSE jobs[i].state]
         IN /\ [i \in Jobs |-> IF jobs'[i].state \in Live THEN "active" ELSE jobs'[i].state]
                 = [kept EXCEPT ![j] = IF job.state \in Live THEN "active" ELSE job.state]
            /\ [i \in Jobs |-> jobs'[i].owner]
                 = [[i \in Jobs |-> jobs[i].owner] EXCEPT ![j] = job.owner]
            /\ \A i \in Jobs \ {j} : jobs'[i] = jobs[i]
            /\ jobs'[j] = job
BY DEF PdfInv, PdfTypeOK

\* The end of a run is an end of the contract.
LEMMA EndRefines ==
  ASSUME PdfInv, NEW j \in Jobs, jobs[j].state \in Live, NEW state \in Terminal,
         EndRun(j, state)
  PROVE  Abstract!EndAs(j, state)
<1> DEFINE job == [jobs[j] EXCEPT !.state = state, !.stage = "over"]
<1>1. job.state = state /\ job.owner = jobs[j].owner /\ job.state \notin Live
  BY DEF PdfInv, PdfTypeOK, Terminal, Live
<1>2. jobs' = [jobs EXCEPT ![j] = job]
  BY DEF EndRun
<1> HIDE DEF job
<1>3. /\ [i \in Jobs |-> IF jobs'[i].state \in Live THEN "active" ELSE jobs'[i].state]
           = [[i \in Jobs |-> IF jobs[i].state \in Live THEN "active" ELSE jobs[i].state]
                EXCEPT ![j] = state]
      /\ [i \in Jobs |-> jobs'[i].owner] = [i \in Jobs |-> jobs[i].owner]
      /\ {i \in Jobs : jobs'[i].state \in Live /\ jobs'[i].cancelled}
           = {i \in Jobs : jobs[i].state \in Live /\ jobs[i].cancelled} \ {j}
  <2>1. \A i \in Jobs : jobs'[i] = IF i = j THEN job ELSE jobs[i]
    BY <1>2 DEF PdfInv, PdfTypeOK
  <2>2. [i \in Jobs |-> jobs'[i].owner] = [i \in Jobs |-> jobs[i].owner]
    BY <1>1, <2>1
  <2>3. {i \in Jobs : jobs'[i].state \in Live /\ jobs'[i].cancelled}
          = {i \in Jobs : jobs[i].state \in Live /\ jobs[i].cancelled} \ {j}
    BY <1>1, <1>2, <2>1
  <2> QED BY <1>1, <1>2, <2>2, <2>3, ContractView
<1> QED BY <1>3 DEF Abstract!EndAs

\* So is a run that throws.
LEMMA ThrowsRefines ==
  ASSUME PdfInv, NEW j \in Jobs, jobs[j].state \in Live, Throws(j)
  PROVE  Abstract!End(j)
<1>1. CASE jobs[j].cancelled
  <2>1. Abstract!EndAs(j, "cancelled") /\ UNCHANGED documents
    BY <1>1, EndRefines DEF Throws, Terminal
  <2> QED BY <1>1, <2>1 DEF Abstract!End, Abstract!GiveUp
<1>2. CASE ~jobs[j].cancelled
  <2>1. Abstract!EndAs(j, "failed") /\ UNCHANGED documents
    BY <1>2, EndRefines DEF Throws, Terminal
  <2> QED BY <1>2, <2>1 DEF Abstract!End, Abstract!Fail
<1> QED BY <1>1, <1>2

\* A step that keeps the state, the owner and the flag of every job is a stutter.
LEMMA SameJobsStutter ==
  ASSUME PdfInv, NEW j \in Jobs, NEW job, jobs' = [jobs EXCEPT ![j] = job],
         job.state \in Live <=> jobs[j].state \in Live,
         job.state = jobs[j].state \/ job.state \in Live,
         job.owner = jobs[j].owner, job.cancelled = jobs[j].cancelled,
         UNCHANGED documents
  PROVE  UNCHANGED Abstract!contractVars
<1>1. /\ [i \in Jobs |-> IF jobs'[i].state \in Live THEN "active" ELSE jobs'[i].state]
           = [i \in Jobs |-> IF jobs[i].state \in Live THEN "active" ELSE jobs[i].state]
      /\ [i \in Jobs |-> jobs'[i].owner] = [i \in Jobs |-> jobs[i].owner]
      /\ {i \in Jobs : jobs'[i].state \in Live /\ jobs'[i].cancelled}
           = {i \in Jobs : jobs[i].state \in Live /\ jobs[i].cancelled}
  BY ContractView
<1> QED BY <1>1 DEF Abstract!contractVars

\* Opening the next section ends the export or is invisible to the contract.
LEMMA OpenRefines ==
  ASSUME PdfInv, NEW j \in Jobs, jobs[j].state \in Live, NEW section, NEW retry,
         OpenSection(j, section, retry)
  PROVE  Abstract!End(j) \/ UNCHANGED Abstract!contractVars
<1> DEFINE job == [jobs[j] EXCEPT !.state = "running", !.stage = "rendering",
                                  !.section = section, !.retry = retry]
<1>1. CASE jobs[j].cancelled
  BY <1>1, ThrowsRefines DEF OpenSection
<1>2. CASE ~jobs[j].cancelled
  <2>1. job.state \in Live /\ job.owner = jobs[j].owner /\ job.cancelled = jobs[j].cancelled
    BY DEF PdfInv, PdfTypeOK, Live
  <2>2. jobs' = [jobs EXCEPT ![j] = job] /\ UNCHANGED documents
    BY <1>2 DEF OpenSection
  <2> HIDE DEF job
  <2> QED BY <2>1, <2>2, SameJobsStutter
<1> QED BY <1>1, <1>2

\* A step of a run ends the export, or the contract does not see it.
LEMMA RunRefines ==
  ASSUME PdfInv, NEW j \in Jobs, RunStep(j)
  PROVE  Abstract!End(j) \/ UNCHANGED Abstract!contractVars
<1>1. CASE RunBegins(j)
  BY <1>1, RunIsLive, OpenRefines, ThrowsRefines DEF RunBegins
<1>2. ASSUME NEW rendered \in BOOLEAN, SectionAnswered(j, rendered)
      PROVE  UNCHANGED Abstract!contractVars
  <2> DEFINE job == [jobs[j] EXCEPT !.stage = "clearing", !.rendered = rendered]
  <2>1. job.state = jobs[j].state /\ job.owner = jobs[j].owner /\ job.cancelled = jobs[j].cancelled
    BY DEF PdfInv, PdfTypeOK
  <2>2. jobs' = [jobs EXCEPT ![j] = job] /\ UNCHANGED documents
    BY <1>2 DEF SectionAnswered
  <2> HIDE DEF job
  <2> QED BY <2>1, <2>2, SameJobsStutter
<1>3. CASE SectionCleared(j)
  <2>1. jobs[j].state \in Live
    BY <1>3, RunIsLive DEF SectionCleared
  <2>2. CASE jobs' = [jobs EXCEPT ![j].stage = "merging"] /\ UNCHANGED documents
    <3> DEFINE job == [jobs[j] EXCEPT !.stage = "merging"]
    <3>1. job.state = jobs[j].state /\ job.owner = jobs[j].owner /\ job.cancelled = jobs[j].cancelled
      BY DEF PdfInv, PdfTypeOK
    <3>2. jobs' = [jobs EXCEPT ![j] = job]
      BY <2>2
    <3> HIDE DEF job
    <3> QED BY <2>2, <3>1, <3>2, SameJobsStutter
  <2> QED BY <1>3, <2>1, <2>2, OpenRefines, ThrowsRefines DEF SectionCleared
<1>4. CASE Merged(j)
  <2>1. /\ jobs[j].state \in Live /\ ~jobs[j].cancelled
        /\ documents' = documents \cup {j}
    BY <1>4, RunIsLive DEF Merged
  <2>2. Abstract!EndAs(j, "completed") \/ Abstract!EndAs(j, "failed")
    BY <1>4, <2>1, EndRefines DEF Merged, Terminal
  <2> QED BY <2>1, <2>2 DEF Abstract!End, Abstract!Complete, Abstract!Fail
<1>5. CASE MergeThrows(j)
  BY <1>5, RunIsLive, ThrowsRefines DEF MergeThrows
<1> QED BY <1>1, <1>2, <1>3, <1>4, <1>5 DEF RunStep

\* A request that is accepted finds no export of its window under way.
LEMMA StartRefines ==
  ASSUME PdfInv, NEW j \in Jobs, NEW o \in Owners, Start(j, o)
  PROVE  Abstract!Accept(j, o)
<1> DEFINE job == Job(o, "queued", "queued")
<1>1. job.state \in Live /\ job.owner = o /\ job.cancelled = FALSE
  BY DEF Job, Live
<1>2. jobs' = [jobs EXCEPT ![j] = job] /\ jobs[j].state = "none" /\ UNCHANGED documents
  BY DEF Start
<1> HIDE DEF job
<1>3. /\ [i \in Jobs |-> IF jobs'[i].state \in Live THEN "active" ELSE jobs'[i].state]
           = [[i \in Jobs |-> IF jobs[i].state \in Live THEN "active" ELSE jobs[i].state]
                EXCEPT ![j] = "active"]
      /\ [i \in Jobs |-> jobs'[i].owner] = [[i \in Jobs |-> jobs[i].owner] EXCEPT ![j] = o]
  BY <1>1, <1>2, ContractView
<1>4. {i \in Jobs : jobs'[i].state \in Live /\ jobs'[i].cancelled}
        = {i \in Jobs : jobs[i].state \in Live /\ jobs[i].cancelled}
  BY <1>1, <1>2, ContractView DEF Live
<1>5. Abstract!ActiveOf(o) = {}
  <2> SUFFICES ASSUME NEW i \in Jobs, jobs[i].owner = o,
                      (IF jobs[i].state \in Live THEN "active" ELSE jobs[i].state) = "active"
               PROVE  FALSE
    BY DEF Abstract!ActiveOf
  <2>1. jobs[i].state \in Live
    BY DEF PdfInv, PdfTypeOK, States, Terminal
  <2> QED BY <2>1 DEF Start, Attached, PdfInv, AttachInv
<1>6. (IF jobs[j].state \in Live THEN "active" ELSE jobs[j].state) = "none"
  BY <1>2 DEF Live
<1> QED BY <1>2, <1>3, <1>4, <1>5, <1>6 DEF Abstract!Accept

\* The flag withdraws the live ones of the jobs that it is set for.
LEMMA MarkedRefines ==
  ASSUME PdfInv, NEW S \in SUBSET Jobs, MarkCancelled(S), UNCHANGED documents
  PROVE  \E T \in SUBSET Jobs : Abstract!Withdraw(T)
<1> DEFINE T == {i \in S : jobs[i].state \in Live}
<1>1. \A i \in Jobs : /\ jobs'[i].state = jobs[i].state /\ jobs'[i].owner = jobs[i].owner
                      /\ jobs'[i].cancelled = (jobs[i].cancelled \/ i \in S)
  <2>1. jobs' = [i \in Jobs |-> [jobs[i] EXCEPT !.cancelled = jobs[i].cancelled \/ i \in S]]
    BY DEF MarkCancelled
  <2> QED BY <2>1 DEF PdfInv, PdfTypeOK
<1>2. /\ {i \in Jobs : jobs'[i].state \in Live /\ jobs'[i].cancelled}
           = {i \in Jobs : jobs[i].state \in Live /\ jobs[i].cancelled} \cup T
      /\ [i \in Jobs |-> IF jobs'[i].state \in Live THEN "active" ELSE jobs'[i].state]
           = [i \in Jobs |-> IF jobs[i].state \in Live THEN "active" ELSE jobs[i].state]
      /\ [i \in Jobs |-> jobs'[i].owner] = [i \in Jobs |-> jobs[i].owner]
  BY <1>1
<1>3. T \in SUBSET Jobs /\ \A i \in T : jobs[i].state \in Live
  OBVIOUS
<1> HIDE DEF T
<1> QED BY <1>2, <1>3 DEF Abstract!Withdraw

\* Forgetting a job is forgetting an export that has ended.
LEMMA ForgetRefines ==
  ASSUME PdfInv, NEW j \in Jobs, ForgetJob(j)
  PROVE  Abstract!Forget(j)
<1> DEFINE job == [jobs[j] EXCEPT !.state = "gone"]
<1>1. job.state = "gone" /\ job.owner = jobs[j].owner /\ "gone" \notin Live
  BY DEF PdfInv, PdfTypeOK, Live
<1>2. jobs' = [jobs EXCEPT ![j] = job] /\ jobs[j].state \in Terminal /\ UNCHANGED documents
  BY DEF ForgetJob
<1> HIDE DEF job
<1>3. jobs[j].state \notin Live /\ jobs[j].state \in Abstract!Ends
  BY <1>2 DEF Terminal, Live, Abstract!Ends
<1>4. /\ [i \in Jobs |-> IF jobs'[i].state \in Live THEN "active" ELSE jobs'[i].state]
           = [[i \in Jobs |-> IF jobs[i].state \in Live THEN "active" ELSE jobs[i].state]
                EXCEPT ![j] = "gone"]
      /\ [i \in Jobs |-> jobs'[i].owner] = [i \in Jobs |-> jobs[i].owner]
      /\ {i \in Jobs : jobs'[i].state \in Live /\ jobs'[i].cancelled}
           = {i \in Jobs : jobs[i].state \in Live /\ jobs[i].cancelled}
  <2>1. \A i \in Jobs : jobs'[i] = IF i = j THEN job ELSE jobs[i]
    BY <1>2 DEF PdfInv, PdfTypeOK
  <2>2. [i \in Jobs |-> jobs'[i].owner] = [i \in Jobs |-> jobs[i].owner]
    BY <1>1, <2>1
  <2>3. {i \in Jobs : jobs'[i].state \in Live /\ jobs'[i].cancelled}
          = {i \in Jobs : jobs[i].state \in Live /\ jobs[i].cancelled}
    BY <1>1, <1>2, <1>3, <2>1
  <2>4. [i \in Jobs |-> IF jobs'[i].state \in Live THEN "active" ELSE jobs'[i].state]
          = [[i \in Jobs |-> IF jobs[i].state \in Live THEN "active" ELSE jobs[i].state]
               EXCEPT ![j] = "gone"]
    BY <1>1, <2>1
  <2> QED BY <2>2, <2>3, <2>4
<1> QED BY <1>2, <1>3, <1>4 DEF Abstract!Forget

\* Every step is a step of the contract or a stutter.
LEMMA PdfStepRefines ==
  PdfInv /\ [PdfNext]_pdfVars => [Abstract!ContractNext]_Abstract!contractVars
<1> SUFFICES ASSUME PdfInv, [PdfNext]_pdfVars
             PROVE  Abstract!ContractNext \/ UNCHANGED Abstract!contractVars
  OBVIOUS
<1> USE DEF Abstract!ContractNext
<1>1. ASSUME NEW j \in Jobs, RunStep(j)
      PROVE  Abstract!ContractNext \/ UNCHANGED Abstract!contractVars
  BY <1>1, RunRefines
<1>2. ASSUME NEW j \in Jobs, NEW o \in Owners, Start(j, o) PROVE Abstract!ContractNext
  BY <1>2, StartRefines
<1>3. ASSUME NEW j \in Jobs, ForgetJob(j) PROVE Abstract!ContractNext
  BY <1>3, ForgetRefines
<1>4. ASSUME NEW S \in SUBSET Jobs, MarkCancelled(S), UNCHANGED documents
      PROVE  Abstract!ContractNext
  BY <1>4, MarkedRefines
<1>5. ASSUME NEW j \in Jobs, Cancel(j) PROVE Abstract!ContractNext
  BY <1>4, <1>5 DEF Cancel
<1>6. ASSUME NEW o \in Owners, CancelOwner(o) PROVE Abstract!ContractNext
  <2>1. activeByOwner[o] \in Jobs
    BY <1>6 DEF CancelOwner, PdfInv, PdfTypeOK
  <2> QED BY <1>4, <1>6, <2>1 DEF CancelOwner
<1>7. CASE Shutdown
  BY <1>4, <1>7 DEF Shutdown
<1>8. CASE FolderChanges \/ UNCHANGED pdfVars
  BY <1>8 DEF FolderChanges, managerVars, pdfVars, Abstract!contractVars
<1> QED BY <1>1, <1>2, <1>3, <1>5, <1>6, <1>7, <1>8 DEF PdfNext

\* The PDF manager implements the contract of local exports, whatever the
\* windows, the folder, the renderer and the shell do: one export per window at
\* a time, no document of an export that was withdrawn before its write, and
\* "completed" only with the document in place.
THEOREM PdfImplementsContract == PdfSafety => Abstract!ContractSafety
<1>1. PdfInit => Abstract!ContractInit
  BY DEF PdfInit, Job, Live, Abstract!ContractInit
<1> QED BY <1>1, PdfInvInit, PdfInvStep, PdfStepRefines, PTL DEF PdfSafety, Abstract!ContractSafety
=============================================================================
