-------------------------- MODULE DesktopShellProofs --------------------------
(* Theorems about DesktopShell, for all sets of main windows and exports and  *)
(* any number of sections.                                                    *)
EXTENDS DesktopShell, PdfExportProofs

USE PdfAssumption

\* An export that may still go on belongs to the main window: the exports of a
\* window that went, and all of them once the application quits, are withdrawn.
OrphansWithdrawn ==
  \A j \in Jobs : jobs[j].state \in Live => jobs[j].cancelled \/ jobs[j].owner = main
QuitWithdraws ==
  /\ app = "quitting" => shuttingDown
  /\ shuttingDown => \A j \in Jobs : jobs[j].state \in Live => jobs[j].cancelled

\* Without a window an application that still runs is one of macOS.
WindowlessIsDarwin == (main = NoOwner /\ app = "running") => darwin

ShellInv ==
  /\ ShellTypeOK /\ PdfInv
  /\ ServicesAreReachable
  /\ OrphansWithdrawn /\ QuitWithdraws /\ WindowlessIsDarwin

\* The last of the parts says what LastCloseIsSeen needs: a hidden window is one
\* of a live export that was not withdrawn.
LEMMA WindowsAreOfMain ==
  ASSUME PdfInv, OrphansWithdrawn, NEW j \in windows
  PROVE  main \in Owners /\ jobs[j].owner = main /\ activeByOwner[main] = j
<1>1. j \in Jobs /\ jobs[j].state \in Live /\ ~jobs[j].cancelled
  BY DEF PdfInv, PdfTypeOK, WindowInv, StageInv, Live
<1> QED BY <1>1 DEF PdfInv, AttachInv, OrphansWithdrawn

\* So at the close of the last main window no hidden window is left.
LEMMA InvImpliesSeen == ShellInv => LastCloseIsSeen
BY WindowsAreOfMain DEF ShellInv, LastCloseIsSeen, WindowlessIsDarwin

-----------------------------------------------------------------------------
(* The manager in the shell *)

\* A step adds no live export, leaves its window alone, and withdraws at most.
LiveKept ==
  \A j \in Jobs :
    jobs'[j].state \in Live =>
      /\ jobs[j].state \in Live /\ jobs'[j].owner = jobs[j].owner
      /\ jobs[j].cancelled => jobs'[j].cancelled

\* Every step of the manager is of that kind, but for the start of an export.
LEMMA OneJobKeepsLive ==
  ASSUME PdfInv, NEW j \in Jobs, NEW job, jobs' = [jobs EXCEPT ![j] = job],
         job.state \in Live =>
           jobs[j].state \in Live /\ job.owner = jobs[j].owner /\ job.cancelled = jobs[j].cancelled
  PROVE  LiveKept
BY DEF LiveKept, PdfInv, PdfTypeOK

\* A step of a run, and forgetting a job, revives none and tells no shutdown.
LEMMA RunKeepsLive ==
  ASSUME PdfInv, NEW j \in Jobs, RunStep(j) \/ ForgetJob(j)
  PROVE  LiveKept /\ UNCHANGED shuttingDown
<1> DEFINE Goal == LiveKept /\ UNCHANGED shuttingDown
<1>0. jobs[j] \in JobRecord
  BY DEF PdfInv, PdfTypeOK, JobRecord
<1>1. ASSUME NEW state \in Terminal, EndRun(j, state), UNCHANGED shuttingDown PROVE Goal
  <2> DEFINE job == [jobs[j] EXCEPT !.state = state, !.stage = "over"]
  <2>1. jobs' = [jobs EXCEPT ![j] = job]
    BY <1>1 DEF EndRun
  <2>2. job.state \notin Live
    BY <1>0 DEF JobRecord, Terminal, Live
  <2> HIDE DEF job
  <2> QED BY <1>1, <2>1, <2>2, OneJobKeepsLive
<1>2. CASE Throws(j)
  BY <1>1, <1>2 DEF Throws, Terminal
<1>3. ASSUME jobs[j].state \in Live, NEW section, NEW retry, OpenSection(j, section, retry)
      PROVE  Goal
  <2>1. CASE ~jobs[j].cancelled
    <3> DEFINE job == [jobs[j] EXCEPT !.state = "running", !.stage = "rendering",
                                      !.section = section, !.retry = retry]
    <3>1. jobs' = [jobs EXCEPT ![j] = job] /\ UNCHANGED shuttingDown
      BY <1>3, <2>1 DEF OpenSection
    <3>2. job.owner = jobs[j].owner /\ job.cancelled = jobs[j].cancelled
      BY <1>0 DEF JobRecord
    <3> HIDE DEF job
    <3> QED BY <1>3, <3>1, <3>2, OneJobKeepsLive
  <2> QED BY <1>2, <1>3, <2>1 DEF OpenSection
<1>4. CASE RunBegins(j)
  BY <1>2, <1>3, <1>4, RunIsLive DEF RunBegins
<1>5. ASSUME NEW rendered \in BOOLEAN, SectionAnswered(j, rendered) PROVE Goal
  <2> DEFINE job == [jobs[j] EXCEPT !.stage = "clearing", !.rendered = rendered]
  <2>1. jobs' = [jobs EXCEPT ![j] = job] /\ UNCHANGED shuttingDown
    BY <1>5 DEF SectionAnswered
  <2>2. job.state = jobs[j].state /\ job.owner = jobs[j].owner /\ job.cancelled = jobs[j].cancelled
    BY <1>0 DEF JobRecord
  <2> HIDE DEF job
  <2> QED BY <2>1, <2>2, OneJobKeepsLive
<1>6. CASE SectionCleared(j)
  <2>1. CASE jobs' = [jobs EXCEPT ![j].stage = "merging"] /\ UNCHANGED shuttingDown
    <3> DEFINE job == [jobs[j] EXCEPT !.stage = "merging"]
    <3>1. jobs' = [jobs EXCEPT ![j] = job]
      BY <2>1
    <3>2. job.state = jobs[j].state /\ job.owner = jobs[j].owner /\ job.cancelled = jobs[j].cancelled
      BY <1>0 DEF JobRecord
    <3> HIDE DEF job
    <3> QED BY <2>1, <3>1, <3>2, OneJobKeepsLive
  <2> QED BY <1>2, <1>3, <1>6, <2>1, RunIsLive DEF SectionCleared
<1>7. CASE Merged(j)
  BY <1>1, <1>7 DEF Merged, Terminal
<1>8. CASE MergeThrows(j)
  BY <1>2, <1>8 DEF MergeThrows
<1>9. CASE ForgetJob(j)
  <2> DEFINE job == [jobs[j] EXCEPT !.state = "gone"]
  <2>1. jobs' = [jobs EXCEPT ![j] = job] /\ UNCHANGED shuttingDown
    BY <1>9 DEF ForgetJob
  <2>2. job.state \notin Live
    BY <1>0 DEF JobRecord, Live
  <2> HIDE DEF job
  <2> QED BY <2>1, <2>2, OneJobKeepsLive
<1> QED BY <1>4, <1>5, <1>6, <1>7, <1>8, <1>9 DEF RunStep

\* Withdrawing sets the flag of the exports it names, and closes their windows.
LEMMA MarkedIsCancelled ==
  ASSUME PdfInv, NEW S, MarkCancelled(S)
  PROVE  /\ LiveKept /\ windows' = windows \ S
         /\ \A j \in Jobs : jobs'[j].state = jobs[j].state /\ (j \in S => jobs'[j].cancelled)
<1>1. \A j \in Jobs : jobs[j] \in JobRecord
  BY DEF PdfInv, PdfTypeOK, JobRecord
<1>2. jobs' = [j \in Jobs |-> [jobs[j] EXCEPT !.cancelled = jobs[j].cancelled \/ j \in S]]
  BY DEF MarkCancelled
<1>3. \A j \in Jobs : /\ jobs'[j].state = jobs[j].state /\ jobs'[j].owner = jobs[j].owner
                      /\ jobs'[j].cancelled = (jobs[j].cancelled \/ j \in S)
  BY <1>1, <1>2 DEF JobRecord
<1> QED BY <1>3 DEF LiveKept, MarkCancelled

\* An export that a request starts belongs to the window that asked.
LEMMA StartedIsOwned ==
  ASSUME PdfInv, NEW j \in Jobs, NEW o \in Owners, Start(j, o)
  PROVE  /\ ~shuttingDown /\ UNCHANGED shuttingDown
         /\ jobs'[j].owner = o /\ \A i \in Jobs \ {j} : jobs'[i] = jobs[i]
BY DEF Start, Job, PdfInv, PdfTypeOK

\* A step of the shell is one of the manager, or does not touch it.
LEMMA ShellStepIsPdfStep ==
  ASSUME ShellTypeOK, PdfInv, [ShellNext]_shellVars
  PROVE  [PdfNext]_pdfVars
<1> USE DEF PdfNext
<1>1. CASE Quit \/ CloseWindow
  BY <1>1 DEF Quit, BeforeQuit, CloseWindow, ShellTypeOK
<1>2. ASSUME NEW w \in Owners, StartupStep(w) PROVE [PdfNext]_pdfVars
  <2>1. CASE IntegrityChecked(w)
    BY <2>1 DEF IntegrityChecked, BeforeQuit
  <2>2. UNCHANGED pdfVars \/ IntegrityChecked(w)
    BY <1>2 DEF StartupStep, StartService, ServicesExpected, BothAnswered, StartupShown,
                InterfaceLoaded
  <2> QED BY <2>1, <2>2
<1>3. CASE Exporting
  BY <1>3 DEF Exporting, ShellTypeOK
<1>4. CASE \/ Exit \/ \E s \in Services : ServiceListens(s) \/ ServiceExits(s)
           \/ \E w \in Owners : Reopen(w) \/ \E s \in Services : PollEnds(w, s)
  BY <1>4 DEF Exit, PollEnds, ServiceListens, ServiceExits, Reopen
<1>5. CASE UNCHANGED shellVars
  BY <1>5 DEF shellVars
<1> QED BY <1>1, <1>2, <1>3, <1>4, <1>5 DEF ShellNext

-----------------------------------------------------------------------------
(* The windows, the services and the chain *)

Answers == [Owners -> [Services -> {"none", "yes", "no"}]]

\* A chain that goes on stays a chain, and the page on show a page of one.
LEMMA ChainLeaves ==
  ASSUME ShellTypeOK, NEW w \in Owners, NEW place \in Awaits \cup {"over"}, NEW shown \in Pages,
         Leaves(w, place, shown)
  PROVE  /\ start' \in [Owners -> Awaits \cup {"none", "over"}] /\ page' \in Pages \X Owners
         /\ app # "exited"
BY DEF ShellTypeOK, Leaves

\* What the startup chain of a window does to the state beside the manager.
ChainKeeps ==
  /\ start' \in [Owners -> Awaits \cup {"none", "over"}] /\ page' \in Pages \X Owners
  /\ reopens' \in BOOLEAN
  /\ main' = main /\ darwin' = darwin /\ app # "exited"
  /\ ready' = ready /\ alive' \subseteq Services /\ alive \subseteq alive'
  /\ owned' \subseteq alive' /\ told \subseteq told' /\ told' \subseteq Services
  /\ alive' \subseteq alive \cup owned'
  /\ owned \subseteq owned' \cup told' /\ blocked' \subseteq Services
  /\ answers' \in Answers

\* It goes on without touching the processes, or ends.
LEMMA ChainGoes ==
  ASSUME ShellTypeOK, NEW w \in Owners, NEW place \in Awaits, NEW shown \in Pages,
         GoTo(w, place, shown) \/ Returns(w, shown) \/ ChainThrows(w)
  PROVE  /\ start' \in [Owners -> Awaits \cup {"none", "over"}] /\ page' \in Pages \X Owners
         /\ reopens' \in BOOLEAN /\ app # "exited"
<1>1. "error" \in Pages
  BY DEF Pages
<1>2. reopens' \in BOOLEAN
  BY DEF GoTo, Returns, ChainThrows, ShellTypeOK
<1>3. \E place2 \in Awaits \cup {"over"}, shown2 \in Pages : Leaves(w, place2, shown2)
  BY <1>1 DEF GoTo, Returns, ChainThrows
<1> QED BY <1>2, <1>3, ChainLeaves

\* The registry and the signals follow every step of a chain.
LEMMA ChainStep ==
  ASSUME ShellTypeOK, NEW w \in Owners, StartupStep(w)
  PROVE  ChainKeeps
<1> DEFINE Goes ==
      /\ start' \in [Owners -> Awaits \cup {"none", "over"}] /\ page' \in Pages \X Owners
      /\ reopens' \in BOOLEAN /\ app # "exited"
<1>0. /\ {"backend", "frontend", "services", "failing", "asking", "opening", "loading"} \subseteq Awaits
      /\ {"startup", "loading", "interface", "failure", "error"} \subseteq Pages
  BY DEF Awaits, Pages
<1>a. ASSUME NEW place \in Awaits, NEW shown \in Pages,
             GoTo(w, place, shown) \/ Returns(w, shown) \/ ChainThrows(w)
      PROVE  Goes
  BY <1>a, ChainGoes
<1>1. CASE IntegrityChecked(w)
  <2>1. CASE GoTo(w, "backend", "startup") /\ SameApp /\ UNCHANGED processVars
    BY <2>1, <1>0, <1>a DEF SameApp, processVars, ShellTypeOK, ChainKeeps, Answers
  <2>2. CASE /\ GoTo(w, "over", "startup") /\ UNCHANGED main
             /\ BeforeQuit /\ UNCHANGED <<darwin, alive, ready, blocked, answers>>
    <3>1. Goes
      BY <2>2, <1>0, ChainLeaves DEF GoTo, ShellTypeOK
    <3> QED BY <2>2, <3>1 DEF BeforeQuit, TerminateAll, ShellTypeOK, ChainKeeps, Answers
  <2> QED BY <1>1, <2>1, <2>2 DEF IntegrityChecked
<1>2. ASSUME NEW s \in Services, NEW next \in {"frontend", "services"}, StartService(w, s, next)
      PROVE  ChainKeeps
  <2>1. Goes
    BY <1>2, <1>0, <1>a DEF StartService, NotStarted, Spawned, NoIdentifier
  <2> QED
    BY <1>2, <2>1 DEF StartService, NotStarted, Spawned, NoIdentifier, SameApp, processVars,
                      ShellTypeOK, ChainKeeps, Answers
<1>3. CASE ServicesExpected(w)
  <2>1. Goes
    <3>1. CASE GoTo(w, "failing", "startup")
      BY <3>1, <1>0, <1>a
    <3>2. CASE /\ app # "exited" /\ start' = [start EXCEPT ![w] = "asking"]
               /\ UNCHANGED <<page, reopens>>
      BY <3>2, <1>0 DEF ShellTypeOK
    <3> QED BY <1>3, <3>1, <3>2 DEF ServicesExpected
  <2> QED BY <1>3, <2>1 DEF ServicesExpected, SameApp, processVars, ShellTypeOK, ChainKeeps, Answers
<1>4. CASE BothAnswered(w)
  <2>1. Goes
    BY <1>4, <1>0, <1>a DEF BothAnswered
  <2> QED BY <1>4, <2>1 DEF BothAnswered, Unasked, SameApp, ShellTypeOK, ChainKeeps, Answers
<1>5. CASE StartupShown(w) \/ InterfaceLoaded(w)
  <2>1. Goes
    BY <1>5, <1>0, <1>a DEF StartupShown, InterfaceLoaded
  <2> QED BY <1>5, <2>1 DEF StartupShown, InterfaceLoaded, SameApp, processVars, ShellTypeOK,
                            ChainKeeps, Answers
<1>6. "backend" \in Services /\ "frontend" \in Services
  BY DEF Services
<1> QED BY <1>1, <1>2, <1>3, <1>4, <1>5, <1>6 DEF StartupStep

\* Every step keeps the types of the shell, if the manager's are kept.
LEMMA ShellTypeStep ==
  ASSUME ShellTypeOK, PdfInv', [ShellNext]_shellVars
  PROVE  ShellTypeOK'
<1> SUFFICES /\ start' \in [Owners -> Awaits \cup {"none", "over"}] /\ page' \in Pages \X Owners
             /\ main' \in Owners \cup {NoOwner}
             /\ app' \in {"running", "quitting", "exited"}
             /\ darwin' \in BOOLEAN /\ reopens' \in BOOLEAN
             /\ ready' \subseteq alive' /\ alive' \subseteq Services /\ owned' \subseteq alive'
             /\ told' \subseteq Services /\ blocked' \subseteq Services
             /\ answers' \in Answers
  BY DEF ShellTypeOK, PdfInv, Answers
<1> USE DEF ShellTypeOK, Answers
<1>1. CASE Quit
  BY <1>1 DEF Quit, BeforeQuit, TerminateAll
<1>2. CASE CloseWindow
  BY <1>2 DEF CloseWindow, TerminateAll
<1>3. CASE Exit
  BY <1>3 DEF Exit, processVars
<1>4. ASSUME NEW w \in Owners, StartupStep(w) PROVE ShellTypeOK'
  <2>1. app' \in {"running", "quitting", "exited"}
    BY <1>4 DEF StartupStep, IntegrityChecked, BeforeQuit, StartService, ServicesExpected,
                BothAnswered, StartupShown, InterfaceLoaded, SameApp
  <2>2. ChainKeeps
    BY <1>4, ChainStep
  <2> QED BY <2>1, <2>2 DEF ChainKeeps, PdfInv
<1>5. ASSUME NEW w \in Owners, NEW s \in Services, PollEnds(w, s) PROVE ShellTypeOK'
  <2>1. answers' \in Answers
    <3>1. PICK found \in {"yes", "no"} :
            answers' = [answers EXCEPT ![w] = [answers[w] EXCEPT ![s] = found]]
      BY <1>5 DEF PollEnds
    <3>2. [answers[w] EXCEPT ![s] = found] \in [Services -> {"none", "yes", "no"}]
      <4>1. answers[w] \in [Services -> {"none", "yes", "no"}]
        OBVIOUS
      <4> QED BY <4>1
    <3> QED BY <3>1, <3>2
  <2> QED BY <1>5, <2>1 DEF PollEnds, SameApp, PdfInv
<1>6. ASSUME NEW w \in Owners, Reopen(w) PROVE ShellTypeOK'
  BY <1>6 DEF Reopen, processVars, Awaits, Pages, PdfInv
<1>7. ASSUME NEW s \in Services, ServiceListens(s) PROVE ShellTypeOK'
  BY <1>7 DEF ServiceListens, PdfInv
<1>8. ASSUME NEW s \in Services, ServiceExits(s) PROVE ShellTypeOK'
  BY <1>8 DEF ServiceExits, PdfInv
<1>9. CASE Exporting
  BY <1>9 DEF Exporting, processVars
<1>10. CASE UNCHANGED shellVars
  BY <1>10 DEF shellVars, processVars
<1> QED
  BY <1>1, <1>2, <1>3, <1>4, <1>5, <1>6, <1>7, <1>8, <1>9, <1>10 DEF ShellNext

\* A service is told to end before it is taken from the registry, or it is gone.
LEMMA ReachableStep ==
  ASSUME ShellTypeOK, ServicesAreReachable, [ShellNext]_shellVars
  PROVE  ServicesAreReachable'
<1> USE DEF ServicesAreReachable
<1>1. CASE Quit
  BY <1>1 DEF Quit, BeforeQuit, TerminateAll
<1>2. CASE CloseWindow
  BY <1>2 DEF CloseWindow, TerminateAll
<1>3. CASE Exit
  BY <1>3 DEF Exit
<1>4. ASSUME NEW w \in Owners, StartupStep(w) PROVE ServicesAreReachable'
  BY <1>4, ChainStep DEF ChainKeeps
<1>5. ASSUME NEW s \in Services,
             ServiceListens(s) \/ ServiceExits(s) \/ \E w \in Owners : PollEnds(w, s)
      PROVE  ServicesAreReachable'
  BY <1>5 DEF PollEnds, SameApp, ServiceListens, ServiceExits
<1>6. CASE Exporting \/ UNCHANGED shellVars \/ \E w \in Owners : Reopen(w)
  BY <1>6 DEF Exporting, Reopen, shellVars, processVars
<1> QED BY <1>1, <1>2, <1>3, <1>4, <1>5, <1>6 DEF ShellNext

-----------------------------------------------------------------------------
(* The exports of windows that went *)

JobsInv == OrphansWithdrawn /\ QuitWithdraws /\ WindowlessIsDarwin

\* A shutdown withdraws every live export.
LEMMA ShutdownWithdraws ==
  ASSUME PdfInv, Shutdown
  PROVE  shuttingDown' /\ \A j \in Jobs : jobs'[j].state \in Live => jobs'[j].cancelled
<1> DEFINE S == {j \in Jobs : jobs[j].state \notin {"none", "gone"}}
<1>1. MarkCancelled(S) /\ shuttingDown'
  BY DEF Shutdown
<1>2. \A j \in Jobs : jobs[j].state \in Live => j \in S
  BY DEF Live
<1> HIDE DEF S
<1> QED BY <1>1, <1>2, MarkedIsCancelled

\* before-quit withdraws every export that is under way.
LEMMA QuitJobs ==
  ASSUME ShellInv, BeforeQuit, UNCHANGED <<main, darwin>>
  PROVE  JobsInv'
<1>1. shuttingDown' /\ \A j \in Jobs : jobs'[j].state \in Live => jobs'[j].cancelled
  BY ShutdownWithdraws DEF BeforeQuit, ShellInv
<1>2. app' \in {"exited", "quitting"}
  BY DEF BeforeQuit
<1> QED BY <1>1, <1>2 DEF JobsInv, OrphansWithdrawn, QuitWithdraws, WindowlessIsDarwin

\* The close of a window withdraws the one export that it may have, and leaves
\* no hidden window.
LEMMA CloseJobs ==
  ASSUME ShellInv, CloseWindow
  PROVE  JobsInv'
<1>0. main \in Owners /\ app = "running" /\ main' = NoOwner /\ UNCHANGED shuttingDown
  BY DEF CloseWindow, CancelOwner, ShellInv, ShellTypeOK, pdfVars, managerVars
<1>1. /\ LiveKept /\ windows' = {}
      /\ \A j \in Jobs : jobs'[j].state \in Live => jobs'[j].cancelled
  <2>1. CASE activeByOwner[main] # NoJob
    <3>1. MarkCancelled({activeByOwner[main]})
      BY <2>1 DEF CloseWindow, CancelOwner
    <3>2. /\ LiveKept /\ windows' = windows \ {activeByOwner[main]}
          /\ \A j \in Jobs : j = activeByOwner[main] => jobs'[j].cancelled
      BY <3>1, MarkedIsCancelled DEF ShellInv
    <3>3. windows' = {}
      BY <3>2, WindowsAreOfMain DEF ShellInv
    <3>4. ASSUME NEW j \in Jobs, jobs'[j].state \in Live PROVE jobs'[j].cancelled
      <4>1. jobs[j].state \in Live /\ (jobs[j].cancelled => jobs'[j].cancelled)
        BY <3>2, <3>4 DEF LiveKept
      <4>2. jobs[j].owner = main => j = activeByOwner[main]
        BY <4>1 DEF ShellInv, PdfInv, AttachInv
      <4> QED BY <3>2, <4>1, <4>2 DEF ShellInv, OrphansWithdrawn
    <3> QED BY <3>2, <3>3, <3>4
  <2>2. CASE activeByOwner[main] = NoJob
    <3>1. UNCHANGED <<jobs, windows>>
      BY <2>2 DEF CloseWindow, pdfVars, managerVars
    <3>2. windows = {}
      BY <2>2, WindowsAreOfMain DEF ShellInv, PdfInv, PdfTypeOK
    <3>3. \A j \in Jobs : jobs[j].state \in Live => jobs[j].owner # main
      BY <2>2 DEF ShellInv, PdfInv, AttachInv
    <3> QED BY <3>1, <3>2, <3>3 DEF LiveKept, ShellInv, OrphansWithdrawn
  <2> QED BY <2>1, <2>2
<1>2. app' = (IF ~darwin THEN "exited" ELSE app) /\ darwin' = darwin
  BY <1>1 DEF CloseWindow
<1> QED BY <1>0, <1>1, <1>2 DEF JobsInv, OrphansWithdrawn, QuitWithdraws, WindowlessIsDarwin

\* A step of the manager behind the interface.
LEMMA ExportJobs ==
  ASSUME ShellInv, Exporting
  PROVE  JobsInv'
<1>0. UNCHANGED <<main, app, darwin>>
  BY DEF Exporting
<1>1. ASSUME LiveKept, UNCHANGED shuttingDown PROVE JobsInv'
  BY <1>0, <1>1
  DEF LiveKept, JobsInv, ShellInv, OrphansWithdrawn, QuitWithdraws, WindowlessIsDarwin
<1>2. ASSUME NEW j \in Jobs, main # NoOwner, Start(j, main) PROVE JobsInv'
  <2>1. /\ ~shuttingDown /\ UNCHANGED shuttingDown
        /\ jobs'[j].owner = main /\ \A i \in Jobs \ {j} : jobs'[i] = jobs[i]
    BY <1>2, StartedIsOwned DEF ShellInv, ShellTypeOK
  <2> QED
    BY <1>0, <2>1 DEF JobsInv, ShellInv, OrphansWithdrawn, QuitWithdraws, WindowlessIsDarwin
<1>3. ASSUME NEW j \in Jobs, Cancel(j) PROVE JobsInv'
  BY <1>1, <1>3, MarkedIsCancelled DEF Cancel, ShellInv
<1>4. ASSUME NEW j \in Jobs, RunStep(j) \/ ForgetJob(j) PROVE JobsInv'
  BY <1>1, <1>4, RunKeepsLive DEF ShellInv
<1>5. CASE FolderChanges
  BY <1>1, <1>5 DEF FolderChanges, managerVars, LiveKept
<1> QED BY <1>2, <1>3, <1>4, <1>5 DEF Exporting

\* Every step keeps the three parts about them.
LEMMA JobsStep ==
  ASSUME ShellInv, [ShellNext]_shellVars
  PROVE  JobsInv'
<1> USE DEF JobsInv, OrphansWithdrawn, QuitWithdraws, WindowlessIsDarwin
<1>1. CASE Quit
  BY <1>1, QuitJobs DEF Quit
<1>2. CASE Exit
  <2>1. /\ UNCHANGED <<jobs, shuttingDown>> /\ app' = "exited" /\ app = "quitting"
    BY <1>2 DEF Exit, pdfVars, managerVars
  <2> QED BY <2>1 DEF ShellInv
<1>3. ASSUME NEW w \in Owners, StartupStep(w) PROVE JobsInv'
  <2>1. CASE UNCHANGED <<main, app, darwin, jobs, shuttingDown>>
    BY <2>1 DEF ShellInv
  <2>2. CASE IntegrityChecked(w) /\ BeforeQuit
    BY <2>2, QuitJobs DEF IntegrityChecked, SameApp
  <2> QED
    BY <1>3, <2>1, <2>2
    DEF StartupStep, IntegrityChecked, StartService, ServicesExpected, BothAnswered, StartupShown,
        InterfaceLoaded, SameApp, pdfVars, managerVars
<1>4. ASSUME NEW w \in Owners, Reopen(w) PROVE JobsInv'
  <2>1. UNCHANGED <<jobs, shuttingDown, app, darwin>> /\ main = NoOwner /\ app = "running" /\ darwin
    BY <1>4 DEF Reopen, pdfVars, managerVars
  <2>2. \A j \in Jobs : jobs[j].state \in Live => jobs[j].owner # NoOwner
    BY DEF ShellInv, PdfInv, AttachInv
  <2> QED BY <2>1, <2>2 DEF ShellInv
<1>5. ASSUME UNCHANGED <<main, app, darwin, jobs, shuttingDown>> PROVE JobsInv'
  BY <1>5 DEF ShellInv
<1>6. CASE \/ \E s \in Services : ServiceListens(s) \/ ServiceExits(s)
           \/ \E w \in Owners, s \in Services : PollEnds(w, s)
           \/ UNCHANGED shellVars
  BY <1>5, <1>6 DEF PollEnds, ServiceListens, ServiceExits, SameApp, shellVars, pdfVars, managerVars
<1> HIDE DEF JobsInv
<1> QED BY <1>1, <1>2, <1>3, <1>4, <1>6, CloseJobs, ExportJobs DEF ShellNext

\* The invariant is inductive.
LEMMA ShellInvInit == ShellInit => ShellInv
<1> SUFFICES ASSUME ShellInit PROVE ShellInv
  OBVIOUS
<1>1. PdfInv /\ PdfTypeOK
  BY PdfInvInit DEF ShellInit, PdfInv
<1>2. ShellTypeOK
  BY <1>1 DEF ShellInit, ShellTypeOK, Unasked, Awaits, Pages
<1>3. \A j \in Jobs : jobs[j].state \notin Live
  BY DEF ShellInit, PdfInit, Job, Live
<1>4. shuttingDown = FALSE
  BY DEF ShellInit, PdfInit
<1> QED
  BY <1>1, <1>2, <1>3, <1>4
  DEF ShellInv, ShellInit, ServicesAreReachable, OrphansWithdrawn, QuitWithdraws, WindowlessIsDarwin

\* Every step of the shell keeps the invariant, and is a step of the manager or
\* leaves it alone.
LEMMA ShellInvStep == ShellInv /\ [ShellNext]_shellVars => ShellInv' /\ [PdfNext]_pdfVars
<1> SUFFICES ASSUME ShellInv, [ShellNext]_shellVars PROVE ShellInv' /\ [PdfNext]_pdfVars
  OBVIOUS
<1>1. ShellTypeOK /\ PdfInv /\ ServicesAreReachable
  BY DEF ShellInv
<1>2. [PdfNext]_pdfVars
  BY <1>1, ShellStepIsPdfStep
<1>3. PdfInv'
  BY <1>1, <1>2, PdfInvStep
<1>4. ShellTypeOK' /\ ServicesAreReachable'
  BY <1>1, <1>3, ShellTypeStep, ReachableStep
<1>5. JobsInv'
  BY JobsStep
<1> QED BY <1>2, <1>3, <1>4, <1>5 DEF ShellInv, JobsInv

-----------------------------------------------------------------------------
(* The theorems *)

\* The invariant of the shell with its exports, behind the theorems below.
THEOREM ShellInvariant == ShellSpec => []ShellInv
BY ShellInvInit, ShellInvStep, PTL DEF ShellSpec

\* The state of the shell and of the manager keeps its shape.
THEOREM ShellTypeCorrect == ShellSpec => []ShellTypeOK
<1>1. ShellInv => ShellTypeOK
  BY DEF ShellInv
<1> QED BY <1>1, ShellInvariant, PTL

\* Quitting and the close of the last window reach every service that runs,
\* wherever the startup chain is.
THEOREM ServicesStayReachable == ShellSpec => []ServicesAreReachable
<1>1. ShellInv => ServicesAreReachable
  BY DEF ShellInv
<1> QED BY <1>1, ShellInvariant, PTL

\* No hidden window of an export keeps "window-all-closed" from firing.
THEOREM LastCloseSeen == ShellSpec => []LastCloseIsSeen
BY InvImpliesSeen, ShellInvariant, PTL

\* What the shell and the windows do with the manager is within what the
\* manager was proved correct for: it keeps its contract in the application.
THEOREM ShellKeepsContract == ShellSpec => PdfSafety /\ Abstract!ContractSafety
<1>1. ShellInit => PdfInit
  BY DEF ShellInit
<1>2. ShellSpec => PdfSafety
  BY <1>1, ShellInvInit, ShellInvStep, PTL DEF ShellSpec, PdfSafety
<1> QED BY <1>2, PdfImplementsContract
=============================================================================
