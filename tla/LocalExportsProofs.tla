-------------------------- MODULE LocalExportsProofs --------------------------
(* Theorems about the Excel manager and about the two managers side by side, *)
(* for all sets of jobs and windows and any number of days and sections.     *)
EXTENDS LocalExports, TLAPS

JobRecord == [owner : Owners \cup {NoOwner}, state : States, built : 0..Days,
              cancelled : BOOLEAN]

\* A live job is the one that its window is attached to.
AttachInv ==
  \A j \in Jobs :
    jobs[j].state \in Live => jobs[j].owner \in Owners /\ activeByOwner[jobs[j].owner] = j

\* No day is built before the run begins.
QueuedInv == \A j \in Jobs : jobs[j].state = "queued" => jobs[j].built = 0

ExcelInv == ExcelTypeOK /\ AttachInv /\ QueuedInv

-----------------------------------------------------------------------------
(* The Excel manager *)

\* Every step that changes one job record, and at most detaches its window,
\* keeps the invariant.
LEMMA OneJobMoves ==
  ASSUME ExcelInv, NEW j \in Jobs, NEW job \in JobRecord,
         jobs' = [jobs EXCEPT ![j] = job],
         UNCHANGED <<shuttingDown, folder>>, documents' \subseteq Jobs,
         job.owner = jobs[j].owner,
         job.state # "queued",
         job.state \in Live => jobs[j].state \in Live,
         \/ UNCHANGED activeByOwner
         \/ /\ activeByOwner' = [activeByOwner EXCEPT ![jobs[j].owner] = NoJob]
            /\ jobs[j].state \in Live /\ job.state \notin Live
  PROVE  ExcelInv'
<1> USE ExcelAssumption DEF ExcelInv
<1>1. ExcelTypeOK'
  <2>1. jobs' \in [Jobs -> JobRecord]
    BY DEF ExcelTypeOK, JobRecord
  <2>2. activeByOwner' \in [Owners -> Jobs \cup {NoJob}]
    BY DEF ExcelTypeOK
  <2> QED BY <2>1, <2>2 DEF ExcelTypeOK, JobRecord
<1>2. jobs'[j] = job /\ \A i \in Jobs \ {j} : jobs'[i] = jobs[i]
  BY DEF ExcelTypeOK
<1>3. AttachInv'
  BY <1>2 DEF AttachInv, ExcelTypeOK
<1>4. QueuedInv'
  BY <1>2 DEF QueuedInv
<1> QED BY <1>1, <1>3, <1>4

\* The end of a run.
LEMMA EndRunMoves ==
  ASSUME ExcelInv, NEW j \in Jobs, jobs[j].state \in Live, NEW state \in Terminal,
         EndRun(j, state), documents' \subseteq Jobs
  PROVE  ExcelInv'
<1> DEFINE job == [jobs[j] EXCEPT !.state = state]
<1>1. jobs[j] \in JobRecord
  BY DEF ExcelInv, ExcelTypeOK, JobRecord
<1>2. job \in JobRecord /\ job.state = state /\ job.owner = jobs[j].owner
  BY <1>1 DEF JobRecord, States, Terminal
<1>3. /\ jobs' = [jobs EXCEPT ![j] = job]
      /\ activeByOwner' = [activeByOwner EXCEPT ![jobs[j].owner] = NoJob]
      /\ UNCHANGED <<shuttingDown, folder>>
  BY DEF EndRun
<1>4. state \notin Live /\ state # "queued"
  BY DEF Terminal, Live
<1> HIDE DEF job
<1> QED BY <1>2, <1>3, <1>4, OneJobMoves

\* What a cancellation, the destruction of a window and a shutdown have in common.
LEMMA MarkedJobs ==
  ASSUME ExcelInv, NEW S, MarkCancelled(S)
  PROVE  /\ jobs' \in [Jobs -> JobRecord]
         /\ \A j \in Jobs : /\ jobs'[j].state = jobs[j].state /\ jobs'[j].built = jobs[j].built
                            /\ jobs'[j].owner = jobs[j].owner
                            /\ jobs'[j].cancelled = (jobs[j].cancelled \/ j \in S)
<1>1. jobs \in [Jobs -> JobRecord]
  BY DEF ExcelInv, ExcelTypeOK, JobRecord
<1>2. ASSUME NEW j \in Jobs, NEW flag \in BOOLEAN
      PROVE  LET job == [jobs[j] EXCEPT !.cancelled = flag]
             IN  /\ job \in JobRecord /\ job.state = jobs[j].state /\ job.built = jobs[j].built
                 /\ job.owner = jobs[j].owner /\ job.cancelled = flag
  BY <1>1 DEF JobRecord
<1>3. \A j \in Jobs : (jobs[j].cancelled \/ j \in S) \in BOOLEAN
  OBVIOUS
<1>4. jobs' = [j \in Jobs |-> [jobs[j] EXCEPT !.cancelled = jobs[j].cancelled \/ j \in S]]
  BY DEF MarkCancelled
<1>5. ASSUME NEW j \in Jobs
      PROVE  /\ jobs'[j] \in JobRecord
             /\ jobs'[j].state = jobs[j].state /\ jobs'[j].built = jobs[j].built
             /\ jobs'[j].owner = jobs[j].owner
             /\ jobs'[j].cancelled = (jobs[j].cancelled \/ j \in S)
  BY <1>2, <1>3, <1>4
<1> QED BY <1>4, <1>5

\* Setting the cancel flag of jobs keeps the invariant.
LEMMA MarkedKeep ==
  ASSUME ExcelInv, NEW S, MarkCancelled(S), UNCHANGED <<activeByOwner, folder, documents>>,
         shuttingDown' \in BOOLEAN
  PROVE  ExcelInv'
BY MarkedJobs DEF ExcelInv, ExcelTypeOK, AttachInv, QueuedInv, JobRecord

\* So does a run that throws.
LEMMA ThrowsMoves ==
  ASSUME ExcelInv, NEW j \in Jobs, RunThrows(j)
  PROVE  ExcelInv'
<1>1. PICK state \in Terminal : EndRun(j, state)
  BY DEF RunThrows, Throws, Terminal
<1>2. jobs[j].state \in Live /\ UNCHANGED documents /\ documents \subseteq Jobs
  BY DEF RunThrows, Throws, ExcelInv, ExcelTypeOK
<1> QED BY <1>1, <1>2, EndRunMoves

\* A step of a run keeps the invariant.
LEMMA RunKeeps ==
  ASSUME ExcelInv, NEW j \in Jobs, RunStep(j)
  PROVE  ExcelInv'
<1>0. jobs[j] \in JobRecord /\ documents \subseteq Jobs
  BY DEF ExcelInv, ExcelTypeOK, JobRecord
<1>1. CASE BuildDay(j)
  <2> DEFINE job == [jobs[j] EXCEPT !.state = "running", !.built = @ + 1]
  <2>1. jobs[j].built \in 0..Days /\ jobs[j].built < Days
    <3>1. jobs[j].built \in 0..Days
      BY <1>0 DEF JobRecord
    <3>2. jobs[j].built = 0 \/ jobs[j].built < Days
      BY <1>1 DEF BuildDay, ExcelInv, QueuedInv
    <3> QED BY <3>1, <3>2, ExcelAssumption
  <2>2. job \in JobRecord /\ job.state = "running" /\ job.owner = jobs[j].owner
    <3>1. jobs[j].built + 1 \in 0..Days
      BY <2>1, ExcelAssumption
    <3> QED BY <1>0, <3>1 DEF JobRecord, States, Live
  <2>3. /\ jobs' = [jobs EXCEPT ![j] = job] /\ jobs[j].state \in Live
        /\ UNCHANGED <<activeByOwner, shuttingDown, folder, documents>>
    BY <1>1 DEF BuildDay, Live
  <2> HIDE DEF job
  <2> QED BY <1>0, <2>2, <2>3, OneJobMoves
<1>2. CASE Serialised(j)
  <2>1. PICK state \in Terminal : EndRun(j, state)
    BY <1>2 DEF Serialised, Terminal
  <2>2. documents' = documents \cup {j} /\ jobs[j].state \in Live
    BY <1>2 DEF Serialised, Live
  <2> QED BY <1>0, <2>1, <2>2, EndRunMoves
<1>3. CASE RunThrows(j)
  BY <1>3, ThrowsMoves
<1> QED BY <1>1, <1>2, <1>3 DEF RunStep

\* So does a step of the IPC handlers, of the timers and of the shell.
LEMMA StartKeeps ==
  ASSUME ExcelInv, NEW j \in Jobs, NEW o \in Owners, Start(j, o)
  PROVE  ExcelInv'
<1> DEFINE job == Job(o, "queued")
<1>1. job \in JobRecord /\ job.owner = o /\ job.state = "queued" /\ job.built = 0
  BY ExcelAssumption DEF Job, JobRecord, States, Live
<1>2. /\ jobs' = [jobs EXCEPT ![j] = job]
      /\ activeByOwner' = [activeByOwner EXCEPT ![o] = j]
      /\ UNCHANGED <<shuttingDown, folder, documents>>
      /\ ~Attached(o) /\ jobs[j].state = "none"
  BY DEF Start
<1> HIDE DEF job
<1>3. ExcelTypeOK'
  <2>1. jobs' \in [Jobs -> JobRecord]
    BY <1>1, <1>2 DEF ExcelInv, ExcelTypeOK, JobRecord
  <2>2. activeByOwner' \in [Owners -> Jobs \cup {NoJob}]
    BY <1>2 DEF ExcelInv, ExcelTypeOK
  <2> QED BY <1>2, <2>1, <2>2 DEF ExcelInv, ExcelTypeOK, JobRecord
<1>4. jobs'[j] = job /\ \A i \in Jobs \ {j} : jobs'[i] = jobs[i]
  BY <1>2 DEF ExcelInv, ExcelTypeOK
<1>5. AttachInv'
  <2>1. \A i \in Jobs : jobs[i].state \in Live => jobs[i].owner # o
    BY <1>2, ExcelAssumption DEF ExcelInv, AttachInv, Attached
  <2> QED BY <1>1, <1>2, <1>4, <2>1 DEF ExcelInv, ExcelTypeOK, AttachInv
<1>6. QueuedInv'
  BY <1>1, <1>4 DEF ExcelInv, QueuedInv
<1> QED BY <1>3, <1>5, <1>6 DEF ExcelInv

\* And forgetting a job that has ended.
LEMMA ForgetKeeps ==
  ASSUME ExcelInv, NEW j \in Jobs, ForgetJob(j)
  PROVE  ExcelInv'
<1> DEFINE job == [jobs[j] EXCEPT !.state = "gone"]
<1>1. /\ job \in JobRecord /\ job.state = "gone" /\ job.owner = jobs[j].owner
      /\ "gone" \notin Live /\ documents \subseteq Jobs
  BY DEF ExcelInv, ExcelTypeOK, JobRecord, States, Live
<1>2. /\ jobs' = [jobs EXCEPT ![j] = job]
      /\ UNCHANGED <<activeByOwner, shuttingDown, folder, documents>>
  BY DEF ForgetJob
<1> HIDE DEF job
<1> QED BY <1>1, <1>2, OneJobMoves

\* The invariant is inductive.
LEMMA ExcelInvInit == ExcelInit => ExcelInv
<1> SUFFICES ASSUME ExcelInit PROVE ExcelInv
  OBVIOUS
<1>1. Job(NoOwner, "none") \in JobRecord
  BY ExcelAssumption DEF Job, JobRecord, States
<1>2. \A j \in Jobs : jobs[j].state = "none"
  BY DEF ExcelInit, Job
<1> QED BY <1>1, <1>2 DEF ExcelInit, ExcelInv, ExcelTypeOK, JobRecord, AttachInv, QueuedInv, Live

\* Every step of the Excel manager keeps its invariant.
LEMMA ExcelInvStep == ExcelInv /\ [ExcelNext]_excelVars => ExcelInv'
<1> SUFFICES ASSUME ExcelInv, [ExcelNext]_excelVars PROVE ExcelInv'
  OBVIOUS
<1>0. shuttingDown \in BOOLEAN
  BY DEF ExcelInv, ExcelTypeOK
<1>1. ASSUME NEW j \in Jobs, Cancel(j) PROVE ExcelInv'
  BY <1>0, <1>1, MarkedKeep DEF Cancel
<1>2. ASSUME NEW o \in Owners, CancelOwner(o) PROVE ExcelInv'
  BY <1>0, <1>2, MarkedKeep DEF CancelOwner
<1>3. CASE Shutdown
  BY <1>3, MarkedKeep DEF Shutdown
<1>4. CASE FolderChanges \/ UNCHANGED excelVars
  BY <1>4 DEF FolderChanges, excelVars, ExcelInv, ExcelTypeOK, AttachInv, QueuedInv
<1> QED BY <1>1, <1>2, <1>3, <1>4, RunKeeps, StartKeeps, ForgetKeeps DEF ExcelNext

\* The end of a run is an end of the contract.
LEMMA EndRefines ==
  ASSUME ExcelInv, NEW j \in Jobs, jobs[j].state \in Live, NEW state \in Terminal,
         EndRun(j, state)
  PROVE  Abstract!EndAs(j, state)
<1> DEFINE job == [jobs[j] EXCEPT !.state = state]
<1>1. job.state = state /\ job.owner = jobs[j].owner /\ job.state \notin Live
  BY DEF ExcelInv, ExcelTypeOK, Terminal, Live
<1>2. jobs' = [jobs EXCEPT ![j] = job]
  BY DEF EndRun
<1> HIDE DEF job
<1>3. \A i \in Jobs : jobs'[i] = IF i = j THEN job ELSE jobs[i]
  BY <1>2 DEF ExcelInv, ExcelTypeOK
<1>4. [i \in Jobs |-> IF jobs'[i].state \in Live THEN "active" ELSE jobs'[i].state]
        = [[i \in Jobs |-> IF jobs[i].state \in Live THEN "active" ELSE jobs[i].state]
             EXCEPT ![j] = state]
  BY <1>1, <1>3
<1>5. [i \in Jobs |-> jobs'[i].owner] = [i \in Jobs |-> jobs[i].owner]
  BY <1>1, <1>3
<1>6. {i \in Jobs : jobs'[i].state \in Live /\ jobs'[i].cancelled}
        = {i \in Jobs : jobs[i].state \in Live /\ jobs[i].cancelled} \ {j}
  BY <1>1, <1>3
<1>7. (IF jobs[j].state \in Live THEN "active" ELSE jobs[j].state) = "active"
  OBVIOUS
<1> QED BY <1>4, <1>5, <1>6, <1>7 DEF Abstract!EndAs

\* A step of a run ends the export, or the contract does not see it.
LEMMA RunRefines ==
  ASSUME ExcelInv, NEW j \in Jobs, RunStep(j)
  PROVE  Abstract!End(j) \/ UNCHANGED Abstract!contractVars
<1>1. CASE BuildDay(j)
  <2> DEFINE job == [jobs[j] EXCEPT !.state = "running", !.built = @ + 1]
  <2>1. /\ job.state \in Live /\ job.owner = jobs[j].owner /\ job.cancelled = jobs[j].cancelled
        /\ jobs[j].state \in Live
    BY <1>1 DEF BuildDay, ExcelInv, ExcelTypeOK, Live
  <2>2. jobs' = [jobs EXCEPT ![j] = job] /\ UNCHANGED documents
    BY <1>1 DEF BuildDay
  <2> HIDE DEF job
  <2>3. \A i \in Jobs : jobs'[i] = IF i = j THEN job ELSE jobs[i]
    BY <2>2 DEF ExcelInv, ExcelTypeOK
  <2>4. [i \in Jobs |-> IF jobs'[i].state \in Live THEN "active" ELSE jobs'[i].state]
          = [i \in Jobs |-> IF jobs[i].state \in Live THEN "active" ELSE jobs[i].state]
    BY <2>1, <2>3
  <2>5. [i \in Jobs |-> jobs'[i].owner] = [i \in Jobs |-> jobs[i].owner]
    BY <2>1, <2>3
  <2>6. {i \in Jobs : jobs'[i].state \in Live /\ jobs'[i].cancelled}
          = {i \in Jobs : jobs[i].state \in Live /\ jobs[i].cancelled}
    BY <2>1, <2>3
  <2> QED BY <2>2, <2>4, <2>5, <2>6 DEF Abstract!contractVars
<1>2. CASE Serialised(j)
  <2>1. /\ jobs[j].state \in Live /\ ~jobs[j].cancelled
        /\ documents' = documents \cup {j}
    BY <1>2 DEF Serialised, Live
  <2>2. Abstract!EndAs(j, "completed") \/ Abstract!EndAs(j, "failed")
    BY <1>2, <2>1, EndRefines DEF Serialised, Terminal
  <2> QED BY <2>1, <2>2 DEF Abstract!End, Abstract!Complete, Abstract!Fail
<1>3. CASE RunThrows(j) /\ jobs[j].cancelled
  <2>1. jobs[j].state \in Live /\ Abstract!EndAs(j, "cancelled") /\ UNCHANGED documents
    BY <1>3, EndRefines DEF RunThrows, Throws, Terminal
  <2> QED BY <1>3, <2>1 DEF Abstract!End, Abstract!GiveUp
<1>4. CASE RunThrows(j) /\ ~jobs[j].cancelled
  <2>1. jobs[j].state \in Live /\ Abstract!EndAs(j, "failed") /\ UNCHANGED documents
    BY <1>4, EndRefines DEF RunThrows, Throws, Terminal
  <2> QED BY <1>4, <2>1 DEF Abstract!End, Abstract!Fail
<1> QED BY <1>1, <1>2, <1>3, <1>4 DEF RunStep

\* A request that is accepted finds no export of its window under way.
LEMMA StartRefines ==
  ASSUME ExcelInv, NEW j \in Jobs, NEW o \in Owners, Start(j, o)
  PROVE  Abstract!Accept(j, o)
<1> DEFINE job == Job(o, "queued")
<1>1. job.state \in Live /\ job.owner = o /\ job.cancelled = FALSE
  BY DEF Job, Live
<1>2. jobs' = [jobs EXCEPT ![j] = job] /\ jobs[j].state = "none" /\ UNCHANGED documents
  BY DEF Start
<1> HIDE DEF job
<1>3. \A i \in Jobs : jobs'[i] = IF i = j THEN job ELSE jobs[i]
  BY <1>2 DEF ExcelInv, ExcelTypeOK
<1>4. [i \in Jobs |-> IF jobs'[i].state \in Live THEN "active" ELSE jobs'[i].state]
        = [[i \in Jobs |-> IF jobs[i].state \in Live THEN "active" ELSE jobs[i].state]
             EXCEPT ![j] = "active"]
  BY <1>1, <1>3
<1>5. [i \in Jobs |-> jobs'[i].owner] = [[i \in Jobs |-> jobs[i].owner] EXCEPT ![j] = o]
  BY <1>1, <1>3
<1>6. {i \in Jobs : jobs'[i].state \in Live /\ jobs'[i].cancelled}
        = {i \in Jobs : jobs[i].state \in Live /\ jobs[i].cancelled}
  BY <1>1, <1>2, <1>3 DEF Live
<1>7. Abstract!ActiveOf(o) = {}
  <2> SUFFICES ASSUME NEW i \in Jobs, jobs[i].owner = o,
                      (IF jobs[i].state \in Live THEN "active" ELSE jobs[i].state) = "active"
               PROVE  FALSE
    BY DEF Abstract!ActiveOf
  <2>1. jobs[i].state \in Live
    BY DEF ExcelInv, ExcelTypeOK, States, Terminal
  <2> QED BY <2>1, ExcelAssumption DEF Start, Attached, ExcelInv, AttachInv
<1>8. (IF jobs[j].state \in Live THEN "active" ELSE jobs[j].state) = "none"
  BY <1>2 DEF Live
<1> QED BY <1>2, <1>4, <1>5, <1>6, <1>7, <1>8 DEF Abstract!Accept

\* The flag withdraws the live ones of the jobs that it is set for.
LEMMA MarkedRefines ==
  ASSUME ExcelInv, NEW S \in SUBSET Jobs, MarkCancelled(S), UNCHANGED documents
  PROVE  \E T \in SUBSET Jobs : Abstract!Withdraw(T)
<1> DEFINE T == {i \in S : jobs[i].state \in Live}
<1>0. \A i \in Jobs : /\ jobs'[i].state = jobs[i].state /\ jobs'[i].owner = jobs[i].owner
                      /\ jobs'[i].cancelled = (jobs[i].cancelled \/ i \in S)
  BY MarkedJobs
<1>1. /\ {i \in Jobs : jobs'[i].state \in Live /\ jobs'[i].cancelled}
           = {i \in Jobs : jobs[i].state \in Live /\ jobs[i].cancelled} \cup T
      /\ [i \in Jobs |-> IF jobs'[i].state \in Live THEN "active" ELSE jobs'[i].state]
           = [i \in Jobs |-> IF jobs[i].state \in Live THEN "active" ELSE jobs[i].state]
      /\ [i \in Jobs |-> jobs'[i].owner] = [i \in Jobs |-> jobs[i].owner]
  BY <1>0
<1>2. T \in SUBSET Jobs /\ \A i \in T : jobs[i].state \in Live
  OBVIOUS
<1> HIDE DEF T
<1> QED BY <1>1, <1>2 DEF Abstract!Withdraw

\* Forgetting a job is forgetting an export that has ended.
LEMMA ForgetRefines ==
  ASSUME ExcelInv, NEW j \in Jobs, ForgetJob(j)
  PROVE  Abstract!Forget(j)
<1> DEFINE job == [jobs[j] EXCEPT !.state = "gone"]
<1>1. job.state = "gone" /\ job.owner = jobs[j].owner /\ "gone" \notin Live
  BY DEF ExcelInv, ExcelTypeOK, Live
<1>2. jobs' = [jobs EXCEPT ![j] = job] /\ jobs[j].state \in Terminal /\ UNCHANGED documents
  BY DEF ForgetJob
<1> HIDE DEF job
<1>3. jobs[j].state \notin Live /\ jobs[j].state \in Abstract!Ends
  BY <1>2 DEF Terminal, Live, Abstract!Ends
<1>4. \A i \in Jobs : jobs'[i] = IF i = j THEN job ELSE jobs[i]
  BY <1>2 DEF ExcelInv, ExcelTypeOK
<1>5. [i \in Jobs |-> IF jobs'[i].state \in Live THEN "active" ELSE jobs'[i].state]
        = [[i \in Jobs |-> IF jobs[i].state \in Live THEN "active" ELSE jobs[i].state]
             EXCEPT ![j] = "gone"]
  BY <1>1, <1>4
<1>6. [i \in Jobs |-> jobs'[i].owner] = [i \in Jobs |-> jobs[i].owner]
  BY <1>1, <1>4
<1>7. {i \in Jobs : jobs'[i].state \in Live /\ jobs'[i].cancelled}
        = {i \in Jobs : jobs[i].state \in Live /\ jobs[i].cancelled}
  BY <1>1, <1>3, <1>4
<1> QED BY <1>2, <1>3, <1>5, <1>6, <1>7 DEF Abstract!Forget

\* Every step is a step of the contract or a stutter.
LEMMA ExcelStepRefines ==
  ExcelInv /\ [ExcelNext]_excelVars => [Abstract!ContractNext]_Abstract!contractVars
<1> SUFFICES ASSUME ExcelInv, [ExcelNext]_excelVars
             PROVE  Abstract!ContractNext \/ UNCHANGED Abstract!contractVars
  OBVIOUS
<1> USE DEF Abstract!ContractNext
<1>1. ASSUME NEW j \in Jobs, RunStep(j)
      PROVE  Abstract!ContractNext \/ UNCHANGED Abstract!contractVars
  BY <1>1, RunRefines
<1>2. ASSUME NEW j \in Jobs, NEW o \in Owners, Start(j, o) PROVE Abstract!ContractNext
  BY <1>2, StartRefines
<1>3. ASSUME NEW j \in Jobs, ForgetJob(j) PROVE Abstract!ContractNext
  BY <1>3, ForgetRefines
<1>4. ASSUME NEW S \in SUBSET Jobs, MarkCancelled(S), UNCHANGED documents
      PROVE  Abstract!ContractNext
  BY <1>4, MarkedRefines
<1>5. ASSUME NEW j \in Jobs, Cancel(j) PROVE Abstract!ContractNext
  BY <1>4, <1>5 DEF Cancel
<1>6. ASSUME NEW o \in Owners, CancelOwner(o) PROVE Abstract!ContractNext
  <2>1. activeByOwner[o] \in Jobs
    BY <1>6 DEF CancelOwner, ExcelInv, ExcelTypeOK
  <2> QED BY <1>4, <1>6, <2>1 DEF CancelOwner
<1>7. CASE Shutdown
  BY <1>4, <1>7 DEF Shutdown
<1>8. CASE FolderChanges \/ UNCHANGED excelVars
  BY <1>8 DEF FolderChanges, excelVars, Abstract!contractVars
<1> QED BY <1>1, <1>2, <1>3, <1>5, <1>6, <1>7, <1>8 DEF ExcelNext

\* The Excel manager implements the contract of local exports, however the
\* cancellations, closed windows and shutdowns fall between the days of the
\* workbook and its serialisation.
THEOREM ExcelImplementsContract == ExcelSafety => Abstract!ContractSafety
<1>1. ExcelInit => Abstract!ContractInit
  BY DEF ExcelInit, Job, Live, Abstract!ContractInit
<1> QED BY <1>1, ExcelInvInit, ExcelInvStep, ExcelStepRefines, PTL
        DEF ExcelSafety, Abstract!ContractSafety

-----------------------------------------------------------------------------
(* The two managers side by side *)

PdfFacts == INSTANCE PdfExportProofs WITH
              Jobs <- PdfJobs, jobs <- pdfJobs, activeByOwner <- pdfActive,
              documents <- pdfDocuments

\* What is proved of the PDF manager holds of its instance.
LEMMA SamePdfInit == Pdf!PdfInit <=> PdfFacts!PdfInit
BY DEF Pdf!PdfInit, Pdf!Job, PdfFacts!PdfInit, PdfFacts!Job

\* The two instances of PdfExport have the same steps.
LEMMA SamePdfNext ==
  [Pdf!PdfNext]_Pdf!pdfVars <=> [PdfFacts!PdfNext]_PdfFacts!pdfVars
<1> USE DEF Pdf!Live, PdfFacts!Live, Pdf!Terminal, PdfFacts!Terminal,
            Pdf!MaxChunkRetries, PdfFacts!MaxChunkRetries
<1>1. ASSUME NEW S PROVE Pdf!MarkCancelled(S) <=> PdfFacts!MarkCancelled(S)
  BY DEF Pdf!MarkCancelled, PdfFacts!MarkCancelled
<1>2. ASSUME NEW j \in PdfJobs PROVE Pdf!Throws(j) <=> PdfFacts!Throws(j)
  BY DEF Pdf!Throws, PdfFacts!Throws, Pdf!EndRun, PdfFacts!EndRun
<1>3. ASSUME NEW j \in PdfJobs, NEW section, NEW retry
      PROVE  Pdf!OpenSection(j, section, retry) <=> PdfFacts!OpenSection(j, section, retry)
  BY <1>2 DEF Pdf!OpenSection, PdfFacts!OpenSection
<1>4. ASSUME NEW j \in PdfJobs PROVE Pdf!RunStep(j) <=> PdfFacts!RunStep(j)
  <2>1. Pdf!RunBegins(j) <=> PdfFacts!RunBegins(j)
    BY <1>2, <1>3 DEF Pdf!RunBegins, PdfFacts!RunBegins
  <2>2. ASSUME NEW rendered \in BOOLEAN
        PROVE  Pdf!SectionAnswered(j, rendered) <=> PdfFacts!SectionAnswered(j, rendered)
    BY DEF Pdf!SectionAnswered, PdfFacts!SectionAnswered
  <2>3. Pdf!SectionCleared(j) <=> PdfFacts!SectionCleared(j)
    BY <1>2, <1>3 DEF Pdf!SectionCleared, PdfFacts!SectionCleared
  <2>4. Pdf!Merged(j) <=> PdfFacts!Merged(j)
    BY DEF Pdf!Merged, PdfFacts!Merged, Pdf!EndRun, PdfFacts!EndRun
  <2>5. Pdf!MergeThrows(j) <=> PdfFacts!MergeThrows(j)
    BY <1>2 DEF Pdf!MergeThrows, PdfFacts!MergeThrows
  <2> QED BY <2>1, <2>2, <2>3, <2>4, <2>5 DEF Pdf!RunStep, PdfFacts!RunStep
<1>5. ASSUME NEW j \in PdfJobs PROVE Pdf!Cancel(j) <=> PdfFacts!Cancel(j)
  BY <1>1 DEF Pdf!Cancel, PdfFacts!Cancel
<1>6. ASSUME NEW j \in PdfJobs PROVE Pdf!ForgetJob(j) <=> PdfFacts!ForgetJob(j)
  BY DEF Pdf!ForgetJob, PdfFacts!ForgetJob
<1>7. ASSUME NEW j \in PdfJobs, NEW o \in Owners PROVE Pdf!Start(j, o) <=> PdfFacts!Start(j, o)
  BY DEF Pdf!Start, PdfFacts!Start, Pdf!Attached, PdfFacts!Attached, Pdf!Job, PdfFacts!Job
<1>8. ASSUME NEW o \in Owners PROVE Pdf!CancelOwner(o) <=> PdfFacts!CancelOwner(o)
  BY <1>1 DEF Pdf!CancelOwner, PdfFacts!CancelOwner
<1>9. Pdf!Shutdown <=> PdfFacts!Shutdown
  BY <1>1 DEF Pdf!Shutdown, PdfFacts!Shutdown
<1>10. Pdf!FolderChanges <=> PdfFacts!FolderChanges
  BY DEF Pdf!FolderChanges, PdfFacts!FolderChanges, Pdf!managerVars, PdfFacts!managerVars
<1>11. Pdf!PdfNext <=> PdfFacts!PdfNext
  BY <1>4, <1>5, <1>6, <1>7, <1>8, <1>9, <1>10 DEF Pdf!PdfNext, PdfFacts!PdfNext
<1> QED BY <1>11 DEF Pdf!pdfVars, PdfFacts!pdfVars, Pdf!managerVars, PdfFacts!managerVars

\* Each manager takes steps of its own, or none.
LEMMA LocalSteps == [LocalNext]_localVars => [Pdf!PdfNext]_Pdf!pdfVars /\ [ExcelNext]_excelVars
<1> SUFFICES ASSUME [LocalNext]_localVars
             PROVE  [Pdf!PdfNext]_Pdf!pdfVars /\ [ExcelNext]_excelVars
  OBVIOUS
<1> USE DEF Pdf!pdfVars, Pdf!managerVars, excelVars, pdfOnly, excelOnly
<1>1. CASE PdfAlone
  <2>1. Pdf!PdfNext
    BY <1>1 DEF PdfAlone, Pdf!PdfNext
  <2>2. UNCHANGED <<shuttingDown, folder>>
    BY <1>1 DEF PdfAlone, Pdf!RunStep, Pdf!RunBegins, Pdf!SectionAnswered, Pdf!SectionCleared,
                Pdf!Merged, Pdf!MergeThrows, Pdf!Throws, Pdf!OpenSection, Pdf!Cancel,
                Pdf!ForgetJob, Pdf!Start
  <2> QED BY <1>1, <2>1, <2>2 DEF PdfAlone
<1>2. CASE ExcelAlone
  <2>1. ExcelNext
    BY <1>2 DEF ExcelAlone, ExcelNext
  <2>2. UNCHANGED <<shuttingDown, folder>>
    BY <1>2 DEF ExcelAlone, RunStep, BuildDay, Serialised, RunThrows, Throws, EndRun, Cancel,
                ForgetJob, Start
  <2> QED BY <1>2, <2>1, <2>2 DEF ExcelAlone
<1>3. ASSUME NEW o \in Owners, WindowDestroyed(o)
      PROVE  [Pdf!PdfNext]_Pdf!pdfVars /\ [ExcelNext]_excelVars
  BY <1>3 DEF WindowDestroyed, Pdf!PdfNext, ExcelNext
<1>4. CASE BothShutDown
  BY <1>4 DEF BothShutDown, Pdf!PdfNext, ExcelNext
<1>5. CASE SharedFolderChanges
  BY <1>5 DEF SharedFolderChanges, Pdf!PdfNext, ExcelNext
<1>6. CASE UNCHANGED localVars
  BY <1>6 DEF localVars
<1> QED BY <1>1, <1>2, <1>3, <1>4, <1>5, <1>6 DEF LocalNext

\* In one main process, with the shared folder, the shared shutdown and the
\* windows that both listen to, each manager behaves as it does alone.
THEOREM ManagersCompose == LocalSpec => Pdf!PdfSafety /\ ExcelSafety
<1>1. LocalInit => Pdf!PdfInit /\ ExcelInit
  BY DEF LocalInit
<1> QED BY <1>1, LocalSteps, PTL DEF LocalSpec, Pdf!PdfSafety, ExcelSafety

\* So the invariant of the PDF manager holds in the process of both.
LEMMA PdfInvAlways == Pdf!PdfSafety => []PdfFacts!PdfInv
<1>1. Sections \in Nat \ {0} /\ NoJob \notin PdfJobs /\ NoOwner \notin Owners
  BY LocalAssumption, ExcelAssumption
<1>2. PdfFacts!PdfInit => PdfFacts!PdfInv
  BY <1>1, PdfFacts!PdfInvInit
<1>3. PdfFacts!PdfInv /\ [PdfFacts!PdfNext]_PdfFacts!pdfVars => PdfFacts!PdfInv'
  BY <1>1, PdfFacts!PdfInvStep
<1> QED BY <1>2, <1>3, SamePdfInit, SamePdfNext, PTL DEF Pdf!PdfSafety

\* The types of both managers, together.
THEOREM LocalTypeCorrect == LocalSpec => []LocalTypeOK
<1>1. PdfFacts!PdfInv => Pdf!PdfTypeOK
  BY DEF PdfFacts!PdfInv, PdfFacts!PdfTypeOK, Pdf!PdfTypeOK, PdfFacts!States, Pdf!States,
         PdfFacts!Live, Pdf!Live, PdfFacts!Terminal, Pdf!Terminal, PdfFacts!Stages, Pdf!Stages,
         PdfFacts!MaxChunkRetries, Pdf!MaxChunkRetries
<1>2. ExcelInv => ExcelTypeOK
  BY DEF ExcelInv
<1>3. ExcelSafety => []ExcelInv
  BY ExcelInvInit, ExcelInvStep, PTL DEF ExcelSafety
<1> QED BY <1>1, <1>2, <1>3, ManagersCompose, PdfInvAlways, PTL DEF LocalTypeOK

\* The contract of the instance is the contract of the PDF manager.
LEMMA SameContract ==
  /\ PdfFacts!Abstract!ContractInit <=> Pdf!Abstract!ContractInit
  /\ [PdfFacts!Abstract!ContractNext]_PdfFacts!Abstract!contractVars
       <=> [Pdf!Abstract!ContractNext]_Pdf!Abstract!contractVars
<1> USE DEF PdfFacts!Live, Pdf!Live
<1>1. PdfFacts!Abstract!ContractInit <=> Pdf!Abstract!ContractInit
  BY DEF PdfFacts!Abstract!ContractInit, Pdf!Abstract!ContractInit
<1>2. ASSUME NEW j \in PdfJobs, NEW end
      PROVE  PdfFacts!Abstract!EndAs(j, end) <=> Pdf!Abstract!EndAs(j, end)
  BY DEF PdfFacts!Abstract!EndAs, Pdf!Abstract!EndAs
<1>3. ASSUME NEW j \in PdfJobs PROVE PdfFacts!Abstract!End(j) <=> Pdf!Abstract!End(j)
  BY <1>2 DEF PdfFacts!Abstract!End, Pdf!Abstract!End, PdfFacts!Abstract!Complete,
              Pdf!Abstract!Complete, PdfFacts!Abstract!Fail, Pdf!Abstract!Fail,
              PdfFacts!Abstract!GiveUp, Pdf!Abstract!GiveUp
<1>4. ASSUME NEW j \in PdfJobs PROVE PdfFacts!Abstract!Forget(j) <=> Pdf!Abstract!Forget(j)
  BY DEF PdfFacts!Abstract!Forget, Pdf!Abstract!Forget, PdfFacts!Abstract!Ends, Pdf!Abstract!Ends
<1>5. ASSUME NEW j \in PdfJobs, NEW o \in Owners
      PROVE  PdfFacts!Abstract!Accept(j, o) <=> Pdf!Abstract!Accept(j, o)
  BY DEF PdfFacts!Abstract!Accept, Pdf!Abstract!Accept, PdfFacts!Abstract!ActiveOf,
         Pdf!Abstract!ActiveOf
<1>6. ASSUME NEW S \in SUBSET PdfJobs
      PROVE  PdfFacts!Abstract!Withdraw(S) <=> Pdf!Abstract!Withdraw(S)
  BY DEF PdfFacts!Abstract!Withdraw, Pdf!Abstract!Withdraw
<1>7. PdfFacts!Abstract!ContractNext <=> Pdf!Abstract!ContractNext
  BY <1>3, <1>4, <1>5, <1>6 DEF PdfFacts!Abstract!ContractNext, Pdf!Abstract!ContractNext
<1>8. UNCHANGED PdfFacts!Abstract!contractVars <=> UNCHANGED Pdf!Abstract!contractVars
  BY DEF PdfFacts!Abstract!contractVars, Pdf!Abstract!contractVars
<1> QED BY <1>1, <1>7, <1>8

\* Both keep the safety part of the contract of local exports at once.
THEOREM LocalContracts ==
  LocalSpec => Pdf!Abstract!ContractSafety /\ Abstract!ContractSafety
<1>1. Sections \in Nat \ {0} /\ NoJob \notin PdfJobs /\ NoOwner \notin Owners
  BY LocalAssumption, ExcelAssumption
<1>2. PdfFacts!PdfSafety => PdfFacts!Abstract!ContractSafety
  BY <1>1, PdfFacts!PdfImplementsContract
<1>3. Pdf!PdfSafety => PdfFacts!PdfSafety
  BY SamePdfInit, SamePdfNext, PTL DEF Pdf!PdfSafety, PdfFacts!PdfSafety
<1>4. PdfFacts!Abstract!ContractSafety => Pdf!Abstract!ContractSafety
  BY SameContract, PTL DEF Pdf!Abstract!ContractSafety, PdfFacts!Abstract!ContractSafety
<1> QED BY <1>2, <1>3, <1>4, ManagersCompose, ExcelImplementsContract
=============================================================================
