----------------------------- MODULE ShellServices -----------------------------
(***************************************************************************)
(* The two services the compositor offers under names of GNOME Shell to    *)
(* the same clients: accelerators and screenshots. A client that leaves    *)
(* the bus leaves its accelerators and its screenshots behind.             *)
(***************************************************************************)
EXTENDS Accelerators, Screenshots

CONSTANT Caller          \* the client that makes each screenshot call

ASSUME CallerIsClient == Caller \in [Calls -> Clients]

vars == <<accelVars, shotVars>>

TypeOK == AccelTypeOK /\ ShotTypeOK

Init == AccelInit /\ ShotInit

Accelerate == up /\ AccelNext /\ UNCHANGED shotVars

Call(c) ==
  /\ MayCall(Caller[c])
  /\ \/ RefuseCall(c)
     \/ \E f \in Files : \/ HandleScreenshot(c, f)
                         \/ HandleScreenshotArea(c, f)
                         \/ HandleScreenshotWindow(c, f)
  /\ UNCHANGED accelVars

Next ==
  \/ Accelerate
  \/ \E c \in Calls : Call(c)
  \/ ShotStep /\ UNCHANGED accelVars

\* Neither clients nor the person at the screen owe anybody a step: what is fair
\* is the main loop, for what it has queued, the bus, and the threads.
Fairness ==
  /\ ShotFairness
  /\ \A c \in Clients : WF_vars(up /\ OnClientVanished(c) /\ UNCHANGED shotVars)

Spec == Init /\ [][Next]_vars
FairSpec == Spec /\ Fairness

-----------------------------------------------------------------------------
(* Properties.                                                             *)

\* The two tables and the watches go together, across lists of keys, calls that
\* were on their way when their client left, and clients that ask for what another
\* one has: mutter keeps a key for one action, every action has a client, and that
\* client is watched until it is known to have gone (watch_client).
GrabsAccounted ==
  /\ DOMAIN bound = DOMAIN grabber
  /\ \A a, b \in DOMAIN bound : bound[a] = bound[b] => a = b
  /\ \A a \in DOMAIN grabber : grabber[a] \in watched \/ presence[grabber[a]] = "noticed"

\* What a client has grabbed no other client takes from it, with whatever ids it
\* sends, and no step but a call of its own while the client has not been noticed to
\* have gone: not a refused grab, not another client's leaving, nor a list of ids that
\* holds one of its own among others (ungrab_accelerator_for_client). Of a client that
\* has gone nothing is asked: its grabs may be taken off, as the log of
\* on_client_vanished says they are, although that function takes off none.
UngrabbedBy(c) ==
  \/ \E a \in ActionIds : UngrabAccelerator(c, a)
  \/ \E a, b \in ActionIds : UngrabAccelerators(c, a, b)

GrabsLast ==
  [][\A a \in DOMAIN bound \ DOMAIN bound' :
       /\ \A c \in Clients : UngrabbedBy(c) => c = grabber[a]
       /\ UngrabbedBy(grabber[a]) \/ presence'[grabber[a]] = "noticed"]_vars

\* Whatever order calls, threads and idle callbacks come in, a file holds its own
\* call's picture and is not touched after the answer, although the thread takes
\* stream and picture from the one KioskScreenshot (PictureFiles says it in full).
Writer == [f \in Files |->
  IF \E c \in Calls : call[c].state = "waiting" /\ call[c].file = f
  THEN CHOOSE c \in Calls : call[c].state = "waiting" /\ call[c].file = f
  ELSE None]

Pictures == INSTANCE PictureFiles WITH content <- disk, writer <- Writer

WritesItsFileOnce == Pictures!Spec

\* A call that got as far as its file is answered, whether it is refused, fails or
\* succeeds, and none, however it ends, keeps the next from being taken, unless the
\* compositor is brought down (on_screenshot_written and g_task_report_new_error, in
\* kiosk-screenshot.c).
AnsweredInTheEnd ==
  /\ \A c \in Calls : call[c].state = "waiting" ~> call[c].state = "answered" \/ ~up
  /\ []<>(~Busy \/ ~up)

\* "success: whether the screenshot was captured"
\* (dbus-interfaces/org.gnome.Shell.Screenshot.xml).
SuccessMeansCaptured ==
  \A c \in Calls : call[c].answer = "success" => disk[call[c].file] = c
=============================================================================
