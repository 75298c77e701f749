---------------------------- MODULE DesktopShell ----------------------------
(***************************************************************************)
(* The Electron main process (desktop/main.js, process-ownership.js): the  *)
(* chain of awaits that opens the window, checks the bundle, spawns the    *)
(* two services, waits for them and loads the interface; the registry of   *)
(* the spawned processes; and the handlers that end it all.  Between two   *)
(* awaits of the chain the user may close the window or quit, a service    *)
(* may exit, and, once the interface is there, the PDF manager works: its  *)
(* hidden windows are windows of the same application, and the event that  *)
(* stops the services fires when the last window of any kind is gone.      *)
(* Every main window has a chain of its own, which nothing stops: that of  *)
(* a closed window goes on, in the window of then.                         *)
(*                                                                         *)
(* The bound: Owners, the main windows that are ever opened.               *)
(***************************************************************************)
EXTENDS PdfExport

VARIABLES
  start,    \* where the chain of each main window is
  page,     \* what was last loaded into the window on show, and whose chain did
  main,     \* the main window, or NoOwner
  app,      \* "running"; "quitting" until its windows are closed; "exited"
  darwin,   \* on macOS the application outlives its last window
  reopens,  \* is the handler of "activate" registered
  alive,    \* the spawned processes that run
  ready,    \* those of them that answer requests
  owned,    \* the registry of owned processes
  told,     \* the processes that were told to end
  blocked,  \* serviceStartBlocked
  answers   \* what waitForService found, by chain and service

processVars == <<alive, ready, owned, told, blocked, answers>>
shellVars == <<start, page, main, app, darwin, reopens, processVars, pdfVars>>

Services == {"backend", "frontend"}
Awaits == {"integrity", "backend", "frontend", "services", "failing",
           "asking", "opening", "loading"}
Pages == {"startup", "loading", "interface", "failure", "error"}
Unasked == [s \in Services |-> "none"]

\* A new window; which of those that never were is all the same.
NewWindow(w, opened) == w = CHOOSE v \in Owners : v \notin opened

ShellInit ==
  /\ PdfInit
  /\ main \in Owners /\ NewWindow(main, {}) /\ app = "running"
  /\ start = [w \in Owners |-> IF w = main THEN "integrity" ELSE "none"]
  /\ page = <<"startup", main>>
  /\ darwin \in BOOLEAN /\ reopens = FALSE
  /\ alive = {} /\ ready = {} /\ owned = {} /\ told = {} /\ blocked = {}
  /\ answers = [w \in Owners |-> Unasked]

(***************************************************************************)
(* Ending.                                                                 *)
(***************************************************************************)

TerminateAll == told' = told \cup owned /\ owned' = {}

\* app.quit() and the quit command: "before-quit", then the windows are
\* closed one by one; without a window the application is gone at once.
BeforeQuit ==
  /\ Shutdown
  /\ TerminateAll
  /\ app' = IF main' = NoOwner THEN "exited" ELSE "quitting"

Quit ==
  /\ app = "running"
  /\ UNCHANGED main
  /\ BeforeQuit
  /\ UNCHANGED <<start, page, darwin, reopens, alive, ready, blocked, answers>>

\* Its exports are withdrawn first; "window-all-closed" only fires when no
\* hidden window is left.
CloseWindow ==
  /\ app = "running" /\ main # NoOwner
  /\ main' = NoOwner
  /\ IF activeByOwner[main] # NoJob THEN CancelOwner(main) ELSE UNCHANGED pdfVars
  /\ IF windows' = {} THEN TerminateAll ELSE UNCHANGED <<told, owned>>
  /\ app' = IF windows' = {} /\ ~darwin THEN "exited" ELSE app
  /\ UNCHANGED <<start, page, darwin, reopens, alive, ready, blocked, answers>>

\* The windows of a quitting application are closed.
Exit ==
  /\ app = "quitting"
  /\ app' = "exited" /\ main' = NoOwner
  /\ UNCHANGED <<start, page, darwin, reopens, processVars, pdfVars>>

(***************************************************************************)
(* The startup chain of window w.  It shows its pages in the window of the *)
(* moment and awaits them; the startup page takes no window or an          *)
(* interrupted load in its stride, the others do not: what is thrown ends  *)
(* the chain and reaches the handler of unhandled rejections, which shows  *)
(* an error page if there is a window.                                     *)
(***************************************************************************)

Leaves(w, place, shown) ==
  /\ app # "exited"
  /\ start' = [start EXCEPT ![w] = place]
  /\ page' = IF main = NoOwner THEN page ELSE <<shown, w>>

GoTo(w, place, shown) == Leaves(w, place, shown) /\ UNCHANGED reopens

\* The first chain then registers the handler of "activate".
Returns(w, shown) == Leaves(w, "over", shown) /\ reopens' = TRUE

ChainThrows(w) == GoTo(w, "over", "error")

SameApp == UNCHANGED <<main, app, darwin>>

IntegrityChecked(w) ==
  /\ start[w] = "integrity"
  /\ \/ GoTo(w, "backend", "startup") /\ SameApp /\ UNCHANGED <<processVars, pdfVars>>
     \* the dialog of a failed check quits
     \/ /\ app = "running"
        /\ GoTo(w, "over", "startup")
        /\ UNCHANGED main
        /\ BeforeQuit
        /\ UNCHANGED <<darwin, alive, ready, blocked, answers>>

\* Its port is taken, its executable missing, or it cannot be spawned.
NotStarted(w, s, next) ==
  /\ GoTo(w, next, "startup")
  /\ blocked' = blocked \cup {s}
  /\ UNCHANGED <<alive, ready, owned, told, answers>>

\* A variant: the process is not put into the registry.
SpawnedUnregistered(w, s, next) ==
  /\ GoTo(w, next, "startup")
  /\ alive' = alive \cup {s}
  /\ UNCHANGED <<ready, owned, told, blocked, answers>>

Spawned(w, s, next) ==
  /\ GoTo(w, next, "startup")
  /\ alive' = alive \cup {s} /\ owned' = owned \cup {s}
  /\ UNCHANGED <<ready, told, blocked, answers>>

\* The spawn fails later: there is no process identifier to register.
NoIdentifier(w) == ChainThrows(w) /\ UNCHANGED processVars

StartService(w, s, next) ==
  /\ start[w] = s
  /\ NotStarted(w, s, next) \/ Spawned(w, s, next) \/ NoIdentifier(w)
  /\ SameApp /\ UNCHANGED pdfVars

\* loadFrontendWhenReady up to its questions, which show no page.
ServicesExpected(w) ==
  /\ start[w] = "services"
  /\ IF blocked # {}
     THEN GoTo(w, "failing", "startup")
     ELSE /\ app # "exited"
          /\ start' = [start EXCEPT ![w] = "asking"]
          /\ UNCHANGED <<page, reopens>>
  /\ SameApp /\ UNCHANGED <<processVars, pdfVars>>

Polling(w, s) == start[w] = "asking" /\ app # "exited" /\ answers[w][s] = "none"

\* A variant: the poll of a service has no deadline.
PollEndsOnAnswer(w, s) ==
  /\ Polling(w, s)
  /\ s \in ready \ blocked /\ answers' = [answers EXCEPT ![w][s] = "yes"]
  /\ SameApp
  /\ UNCHANGED <<start, page, reopens, alive, ready, owned, told, blocked, pdfVars>>

\* One of the two polls ends: the service answers, is blocked, or is given up.
PollEnds(w, s) ==
  /\ Polling(w, s)
  /\ \/ s \in ready \ blocked /\ answers' = [answers EXCEPT ![w][s] = "yes"]
     \/ s \notin ready \ blocked /\ answers' = [answers EXCEPT ![w][s] = "no"]
  /\ SameApp
  /\ UNCHANGED <<start, page, reopens, alive, ready, owned, told, blocked, pdfVars>>

BothAnswered(w) ==
  /\ start[w] = "asking" /\ \A s \in Services : answers[w][s] # "none"
  /\ GoTo(w, IF \A s \in Services : answers[w][s] = "yes" THEN "opening" ELSE "failing",
          "startup")
  /\ answers' = [answers EXCEPT ![w] = Unasked]
  /\ SameApp /\ UNCHANGED <<alive, ready, owned, told, blocked, pdfVars>>

\* The startup page is there; the failure page, or the interface, comes next.
StartupShown(w) ==
  /\ \/ start[w] \in {"opening", "failing"} /\ main = NoOwner /\ ChainThrows(w)
     \/ start[w] = "opening" /\ main # NoOwner /\ GoTo(w, "loading", "loading")
     \/ start[w] = "failing" /\ main # NoOwner /\ Returns(w, "failure")
  /\ SameApp /\ UNCHANGED <<processVars, pdfVars>>

\* The load of the interface ends: with it, without an answer, without its
\* window, or interrupted by the page of another chain.
InterfaceLoaded(w) ==
  /\ start[w] = "loading"
  /\ IF main # NoOwner /\ page = <<"loading", w>> /\ "frontend" \in ready
     THEN Returns(w, "interface") ELSE ChainThrows(w)
  /\ SameApp /\ UNCHANGED <<processVars, pdfVars>>

StartupStep(w) ==
  \/ IntegrityChecked(w)
  \/ StartService(w, "backend", "frontend") \/ StartService(w, "frontend", "services")
  \/ ServicesExpected(w) \/ BothAnswered(w) \/ StartupShown(w) \/ InterfaceLoaded(w)

\* "activate" on macOS opens a window and waits for the services again, beside
\* a chain that may still wait for them; it starts none.
Reopen(w) ==
  /\ app = "running" /\ darwin /\ reopens /\ main = NoOwner /\ windows = {}
  /\ start[w] = "none" /\ NewWindow(w, {v \in Owners : start[v] # "none"})
  /\ main' = w
  /\ start' = [start EXCEPT ![w] = "services"]
  /\ page' = <<"startup", w>>
  /\ UNCHANGED <<app, darwin, reopens, processVars, pdfVars>>

(***************************************************************************)
(* The services, and the PDF manager behind the interface.                 *)
(***************************************************************************)

ServiceListens(s) ==
  /\ s \in alive \ ready
  /\ ready' = ready \cup {s}
  /\ UNCHANGED <<start, page, main, app, darwin, reopens, alive, owned, told, blocked,
                 answers, pdfVars>>

\* A variant: an exit leaves the registry as it is.
ServiceStaysRegistered(s) ==
  /\ s \in alive
  /\ alive' = alive \ {s} /\ ready' = ready \ {s}
  /\ UNCHANGED <<start, page, main, app, darwin, reopens, owned, told, blocked, answers,
                 pdfVars>>

\* By itself or because it was told; a bad exit code blocks its poll.
ServiceExits(s) ==
  /\ s \in alive
  /\ alive' = alive \ {s} /\ ready' = ready \ {s} /\ owned' = owned \ {s}
  /\ blocked' \in IF app = "exited" THEN {blocked} ELSE {blocked, blocked \cup {s}}
  /\ UNCHANGED <<start, page, main, app, darwin, reopens, told, answers, pdfVars>>

Exporting ==
  /\ app # "exited"
  /\ \/ \E j \in Jobs : \/ page[1] = "interface" /\ main # NoOwner /\ Start(j, main)
                        \/ jobs[j].owner = main /\ Cancel(j)
                        \/ RunStep(j) \/ ForgetJob(j)
     \/ FolderChanges
  /\ UNCHANGED <<start, page, main, app, darwin, reopens, processVars>>

ShellNext ==
  \/ Quit \/ CloseWindow \/ Exit
  \/ \E w \in Owners : \/ StartupStep(w) \/ Reopen(w)
                        \/ \E s \in Services : PollEnds(w, s)
  \/ \E s \in Services : ServiceListens(s) \/ ServiceExits(s)
  \/ Exporting

\* The pages of the chain are local, and its polls give up in a minute.
ShellSpec ==
  /\ ShellInit /\ [][ShellNext]_shellVars
  /\ \A w \in Owners : WF_shellVars(StartupStep(w))
  /\ \A w \in Owners, s \in Services : WF_shellVars(PollEnds(w, s))

(***************************************************************************)
(* Properties.                                                             *)
(***************************************************************************)

\* The type invariant of the shell's state.
ShellTypeOK ==
  /\ PdfTypeOK
  /\ start \in [Owners -> Awaits \cup {"none", "over"}] /\ page \in Pages \X Owners
  /\ main \in Owners \cup {NoOwner}
  /\ app \in {"running", "quitting", "exited"}
  /\ darwin \in BOOLEAN /\ reopens \in BOOLEAN
  /\ ready \subseteq alive /\ alive \subseteq Services /\ owned \subseteq alive
  /\ told \subseteq Services /\ blocked \subseteq Services
  /\ answers \in [Owners -> [Services -> {"none", "yes", "no"}]]

\* As long as the application lives, a service that was not told to end is
\* in the registry, so that closing the last window or quitting reaches it.
ServicesAreReachable ==
  app # "exited" => alive \subseteq owned \cup told

\* The close of the last main window is always seen as the close of the
\* last window: no hidden window of an export stands in its way, so the
\* services end and, where the platform wants it, the application quits.
LastCloseIsSeen ==
  main = NoOwner => /\ windows = {}
                    /\ app = "running" => darwin

\* A window never stays on the startup page, whatever the chains of windows
\* before it load into it: it comes to the interface or to a page that says
\* why not, or it is closed.
StartupEnds ==
  (main # NoOwner /\ page[1] \in {"startup", "loading"})
    ~> (page[1] \notin {"startup", "loading"} \/ main = NoOwner \/ app # "running")
=============================================================================
