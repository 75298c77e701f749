---------------------------- MODULE LocalExports ----------------------------
(***************************************************************************)
(* The two export managers side by side in one main process, as main.js    *)
(* wires them: they share the output folder, a window that is destroyed    *)
(* withdraws its exports from both, and "before-quit" shuts both down.  A  *)
(* publish asks the one after the other; nothing keeps two windows, or a   *)
(* reloaded page, from using both at once.                                 *)
(***************************************************************************)
EXTENDS ExcelExport

CONSTANTS PdfJobs, Sections

ASSUME LocalAssumption == Sections \in Nat \ {0} /\ NoJob \notin PdfJobs

VARIABLES pdfJobs, pdfActive, windows, pdfDocuments

pdfOnly == <<pdfJobs, pdfActive, windows, pdfDocuments>>
excelOnly == <<jobs, activeByOwner, documents>>
localVars == <<pdfOnly, excelOnly, shuttingDown, folder>>

Pdf == INSTANCE PdfExport WITH
         Jobs <- PdfJobs, jobs <- pdfJobs, activeByOwner <- pdfActive,
         documents <- pdfDocuments

LocalInit == Pdf!PdfInit /\ ExcelInit

PdfAlone ==
  /\ \E j \in PdfJobs : \/ Pdf!RunStep(j) \/ Pdf!Cancel(j) \/ Pdf!ForgetJob(j)
                        \/ \E o \in Owners : Pdf!Start(j, o)
  /\ UNCHANGED excelOnly

ExcelAlone ==
  /\ \E j \in Jobs : \/ RunStep(j) \/ Cancel(j) \/ ForgetJob(j)
                     \/ \E o \in Owners : Start(j, o)
  /\ UNCHANGED pdfOnly

\* The "destroyed" listeners of both kinds of exports.
WindowDestroyed(o) ==
  /\ pdfActive[o] # NoJob \/ activeByOwner[o] # NoJob
  /\ IF pdfActive[o] # NoJob THEN Pdf!CancelOwner(o) ELSE UNCHANGED <<pdfOnly, shuttingDown, folder>>
  /\ IF activeByOwner[o] # NoJob THEN CancelOwner(o) ELSE UNCHANGED excelVars

BothShutDown == Pdf!Shutdown /\ Shutdown

SharedFolderChanges == Pdf!FolderChanges /\ FolderChanges

LocalNext ==
  \/ PdfAlone \/ ExcelAlone
  \/ \E o \in Owners : WindowDestroyed(o)
  \/ BothShutDown \/ SharedFolderChanges

LocalSpec ==
  /\ LocalInit /\ [][LocalNext]_localVars
  /\ \A j \in PdfJobs : WF_localVars(Pdf!RunStep(j) /\ UNCHANGED excelOnly)
  /\ \A j \in Jobs : WF_localVars(RunStep(j) /\ UNCHANGED pdfOnly)

(***************************************************************************)
(* Properties.                                                             *)
(***************************************************************************)

\* The type invariants of both managers.
LocalTypeOK == Pdf!PdfTypeOK /\ ExcelTypeOK

\* With the other manager at work in the same process, a PDF export keeps
\* the contract: withdrawn means no document, completed means a document,
\* one live export per window, and every accepted export ends.
PdfContract == Pdf!PdfKeepsContract

\* The same promise of the Excel exports.
ExcelContract == ExcelKeepsContract
=============================================================================
