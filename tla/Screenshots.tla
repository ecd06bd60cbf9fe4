------------------------------ MODULE Screenshots ------------------------------
(***************************************************************************)
(* Screenshots for clients on D-Bus: org.gnome.Shell.Screenshot            *)
(* (compositor/kiosk-shell-screenshot-service.c) over KioskScreenshot      *)
(* (compositor/kiosk-screenshot.c). A call creates its file, the           *)
(* compositor paints, a thread writes the picture, and the main loop       *)
(* answers the call and makes room for the next. There is one              *)
(* KioskScreenshot: the thread finds its stream and its picture there.     *)
(***************************************************************************)
EXTENDS Naturals

CONSTANTS Calls,         \* the D-Bus calls made
          Files,         \* the file names they give
          None           \* no stream, no picture, no user data

ASSUME NoneIsNothing == None \notin Calls /\ None \notin Files
ASSUME CallsAreNoContents == Calls \cap {"absent", "empty", "broken"} = {}

\* A picture is named by the call that painted it. Otherwise a file is "absent", "empty"
\* as it was created, or "broken" when writing stopped half-way.
Contents == {"absent", "empty", "broken"} \cup Calls

VARIABLES
  up,           \* the compositor runs: it has not dereferenced NULL
  disk,         \* what each file holds
  call,         \* each call: where it stands, its file, the answer it got
  shot,         \* KioskScreenshot: stream and image (datetime comes with image)
  tasks,        \* write_screenshot_thread: what came of it so far
  reports       \* errors to be delivered from an idle callback

shotVars == <<up, disk, call, shot, tasks, reports>>

ShotTypeOK ==
  /\ up \in BOOLEAN
  /\ disk \in [Files -> Contents]
  /\ call \in [Calls -> [state  : {"unsent", "waiting", "answered"},
                         file   : Files \cup {None},
                         answer : {"none", "success", "failure", "error"}]]
  /\ shot \in [stream : Files \cup {None}, image : Calls \cup {None}]
  /\ tasks \in [Calls -> {"none", "running", "written", "failed"}]
  /\ reports \subseteq [kind : {"refused", "uncaptured"}, call : Calls, data : Calls \cup {None}]

ShotInit ==
  /\ up = TRUE
  /\ disk = [f \in Files |-> "absent"]
  /\ call = [c \in Calls |-> [state |-> "unsent", file |-> None, answer |-> "none"]]
  /\ shot = [stream |-> None, image |-> None]
  /\ tasks = [c \in Calls |-> "none"]
  /\ reports = {}

Answer(c, answer) ==
  call' = [call EXCEPT ![c].state = "answered", ![c].answer = answer]

-----------------------------------------------------------------------------
(* KioskScreenshot.                                                        *)

Busy == shot.stream # None

\* Refuse hands data to the caller's callback, in a task that is answered from an
\* idle callback; it leaves the file the caller created as it is.
Refuse(c, data) ==
  /\ reports' = reports \cup {[kind |-> "refused", call |-> c, data |-> data]}
  /\ UNCHANGED <<shot, tasks>>

\* A picture or, when painting the stage fails, none; the thread starts regardless.
\* (Between two screenshots image is NULL.)
CaptureStage(c, f) ==
  /\ \E image \in {c, shot.image} : shot' = [stream |-> f, image |-> image]
  /\ tasks' = [tasks EXCEPT ![c] = "running"]
  /\ UNCHANGED reports

\* Mutated: says nothing when the window cannot be captured.
CaptureWindowQuietly(c, f) ==
  \/ /\ shot' = [stream |-> f, image |-> c]
     /\ tasks' = [tasks EXCEPT ![c] = "running"]
     /\ UNCHANGED reports
  \/ /\ shot' = [shot EXCEPT !.stream = f]
     /\ UNCHANGED <<tasks, reports>>

\* A window that cannot be captured is an error without a thread.
CaptureWindow(c, f) ==
  \/ /\ shot' = [stream |-> f, image |-> c]
     /\ tasks' = [tasks EXCEPT ![c] = "running"]
     /\ UNCHANGED reports
  \/ /\ shot' = [shot EXCEPT !.stream = f]
     /\ reports' = reports \cup {[kind |-> "uncaptured", call |-> c, data |-> c]}
     /\ UNCHANGED tasks

Screenshot(c, f) == IF Busy THEN Refuse(c, c) ELSE CaptureStage(c, f)

\* Mutated: takes another picture while the first is being written.
ScreenshotAreaAnyway(c, f) == CaptureStage(c, f)

\* The refusal of an area or a window carries NULL instead of the caller's data.
ScreenshotArea(c, f) == IF Busy THEN Refuse(c, None) ELSE CaptureStage(c, f)

\* Without a focus window it is refused as if another screenshot were being taken.
ScreenshotWindow(c, f) ==
  \/ Refuse(c, None)
  \/ ~Busy /\ CaptureWindow(c, f)

-----------------------------------------------------------------------------
(* The service.                                                            *)

\* A handler checks access, which depends on the unsafe-mode of the moment, creates
\* the file, which must not exist, and takes the screenshot. Either of the first two
\* may fail, and FlashArea, SelectArea and InteractiveScreenshot always do.
RefuseCall(c) ==
  /\ up /\ call[c].state = "unsent"
  /\ Answer(c, "error")
  /\ UNCHANGED <<up, disk, shot, tasks, reports>>

CreateFile(c, f) ==
  /\ up /\ call[c].state = "unsent"
  /\ disk[f] = "absent"
  /\ disk' = [disk EXCEPT ![f] = "empty"]
  /\ call' = [call EXCEPT ![c].state = "waiting", ![c].file = f]
  /\ UNCHANGED up

HandleScreenshot(c, f)       == CreateFile(c, f) /\ Screenshot(c, f)
HandleScreenshotArea(c, f)   == CreateFile(c, f) /\ ScreenshotArea(c, f)
HandleScreenshotWindow(c, f) == CreateFile(c, f) /\ ScreenshotWindow(c, f)

\* Reads the stream and the picture of the KioskScreenshot, not of its own call.
\* Without a picture it dereferences NULL.
WriteScreenshotThread(c) ==
  /\ up /\ tasks[c] = "running"
  /\ IF shot.image = None
     THEN up' = FALSE /\ UNCHANGED <<disk, tasks>>
     ELSE /\ \E outcome \in {"written", "failed"} :
               /\ tasks' = [tasks EXCEPT ![c] = outcome]
               /\ disk' = [disk EXCEPT ![shot.stream] =
                             IF outcome = "written" THEN shot.image ELSE "broken"]
          /\ UNCHANGED up
  /\ UNCHANGED <<call, shot, reports>>

\* on_screenshot_written drops the error it may find, so that the caller's callback
\* finds none, answers TRUE whatever happened, and room is made for the next.
Written(c) ==
  /\ Answer(c, "success")
  /\ shot' = [stream |-> None, image |-> None]

OnScreenshotWritten(c) ==
  /\ up /\ tasks[c] \in {"written", "failed"}
  /\ Written(c)
  /\ tasks' = [tasks EXCEPT ![c] = "none"]
  /\ UNCHANGED <<up, disk, reports>>

\* A refusal answers FALSE, or dereferences the data it was not given.
DeliverReport(r) ==
  /\ up /\ r \in reports
  /\ reports' = reports \ {r}
  /\ IF r.kind = "uncaptured"
     THEN Written(r.call) /\ UNCHANGED up
     ELSE IF r.data = None
     THEN up' = FALSE /\ UNCHANGED <<call, shot>>
     ELSE Answer(r.call, "failure") /\ UNCHANGED <<up, shot>>
  /\ UNCHANGED <<disk, tasks>>

-----------------------------------------------------------------------------
ShotStep ==
  \/ \E c \in Calls : WriteScreenshotThread(c) \/ OnScreenshotWritten(c)
  \/ \E r \in reports : DeliverReport(r)

\* Threads run and the main loop turns.
ShotFairness ==
  /\ \A c \in Calls : WF_shotVars(WriteScreenshotThread(c)) /\ WF_shotVars(OnScreenshotWritten(c))
  /\ WF_shotVars(\E r \in reports : DeliverReport(r))
=============================================================================
