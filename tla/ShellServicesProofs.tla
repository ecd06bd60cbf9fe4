-------------------------- MODULE ShellServicesProofs --------------------------
(***************************************************************************)
(* What holds of accelerators and screenshots for any clients, keys, calls *)
(* and files. The accelerators' tables need nothing but their types and    *)
(* the property. That the files come to what PictureFiles promises needs   *)
(* to know what the one KioskScreenshot holds while a call is served: the  *)
(* stream and the picture in it are those of the one call that has a       *)
(* thread, or of the one whose window could not be captured.               *)
(***************************************************************************)
EXTENDS ShellServices, TLAPS

-----------------------------------------------------------------------------
(* Accelerators: GrabsAccounted and the types, of tables t.                *)

Good(t) ==
  /\ t = [bound |-> t.bound, last |-> t.last, grabber |-> t.grabber, watched |-> t.watched]
  /\ t.last \in 0..MaxGrabs
  /\ DOMAIN t.bound \subseteq 1..t.last
  /\ \A a \in DOMAIN t.bound : t.bound[a] \in Keys
  /\ DOMAIN t.grabber = DOMAIN t.bound
  /\ \A a \in DOMAIN t.grabber : t.grabber[a] \in Clients
  /\ t.watched \subseteq Clients
  /\ \A a, b \in DOMAIN t.bound : t.bound[a] = t.bound[b] => a = b
  /\ \A a \in DOMAIN t.grabber : t.grabber[a] \in t.watched \/ presence[t.grabber[a]] = "noticed"

AccelInv ==
  /\ presence \in [Clients -> {"connected", "left", "noticed"}]
  /\ Good(Tables)

LEMMA PartsOfAccelInv == AccelInv <=> AccelTypeOK /\ GrabsAccounted
  BY DEF AccelInv, Good, Tables, AccelTypeOK, GrabsAccounted

LEMMA GrabGood ==
  ASSUME NEW t, Good(t), NEW key \in Keys, NEW c \in Clients
  PROVE  /\ Good(GrabForClient(t, key, c))
         /\ DOMAIN t.bound \subseteq DOMAIN GrabForClient(t, key, c).bound
<1>1. CASE ~MetaGrants(t, key)
  BY <1>1 DEF GrabForClient
<1>2. CASE MetaGrants(t, key)
  <2> DEFINE u == GrabForClient(t, key, c)
             n == t.last + 1
  <2>1. u = [bound |-> With(t.bound, n, key), last |-> n,
             grabber |-> With(t.grabber, n, c), watched |-> t.watched \cup {c}]
    BY <1>2 DEF GrabForClient
  <2>2. /\ n \in 1..MaxGrabs /\ n \notin DOMAIN t.bound
        /\ DOMAIN t.bound \cup {n} \subseteq 1..n
        /\ \A a \in DOMAIN t.bound : t.bound[a] # key
    BY <1>2, MaxGrabsNat DEF MetaGrants, Good
  <2>3. /\ u.bound = [x \in DOMAIN t.bound \cup {n} |-> IF x = n THEN key ELSE t.bound[x]]
        /\ u.grabber = [x \in DOMAIN t.bound \cup {n} |-> IF x = n THEN c ELSE t.grabber[x]]
        /\ u.last = n /\ u.watched = t.watched \cup {c}
    BY <2>1 DEF With, Good
  <2>4. u.last \in 0..MaxGrabs /\ u.watched \subseteq Clients
    BY <2>2, <2>3 DEF Good
  <2>5. u = [bound |-> u.bound, last |-> u.last, grabber |-> u.grabber, watched |-> u.watched]
    BY <2>1
  <2> HIDE DEF u, n
  <2>6. /\ DOMAIN u.bound = DOMAIN t.bound \cup {n} /\ DOMAIN u.grabber = DOMAIN u.bound
        /\ u.bound[n] = key /\ u.grabber[n] = c
        /\ \A a \in DOMAIN t.bound : u.bound[a] = t.bound[a] /\ u.grabber[a] = t.grabber[a]
    BY <2>2, <2>3
  <2>7. \A a, b \in DOMAIN u.bound : u.bound[a] = u.bound[b] => a = b
    BY <2>2, <2>6 DEF Good
  <2>8. Good(u)
    BY <2>2, <2>3, <2>4, <2>5, <2>6, <2>7 DEF Good
  <2> QED BY <2>6, <2>8 DEF u
<1> QED BY <1>1, <1>2

\* Besides: what is taken away is the client's own.
LEMMA UngrabGood ==
  ASSUME NEW t, Good(t), NEW action, NEW c \in Clients
  PROVE  LET u == UngrabForClient(t, action, c)
         IN  /\ Good(u)
             /\ \A a \in DOMAIN t.bound : a \in DOMAIN u.bound \/ t.grabber[a] = c
             /\ \A a \in DOMAIN u.bound : a \in DOMAIN t.bound /\ u.grabber[a] = t.grabber[a]
<1> DEFINE u == UngrabForClient(t, action, c)
           Mine == action \in DOMAIN t.grabber /\ t.grabber[action] = c /\ MetaUngrabs(t, action)
<1>1. CASE ~Mine
  <2>1. u = t
    BY <1>1 DEF UngrabForClient
  <2> HIDE DEF u
  <2>2. Good(u)
    BY <2>1
  <2> QED BY <2>1, <2>2 DEF Good, u
<1>2. CASE Mine
  <2>1. u = [t EXCEPT !.bound = Without(t.bound, action), !.grabber = Without(t.grabber, action)]
    BY <1>2 DEF UngrabForClient
  <2>2. u = [bound |-> Without(t.bound, action), last |-> t.last,
             grabber |-> Without(t.grabber, action), watched |-> t.watched]
    <3>1. t = [bound |-> t.bound, last |-> t.last, grabber |-> t.grabber, watched |-> t.watched]
      BY DEF Good
    <3> HIDE DEF u
    <3> QED BY <2>1, <3>1
  <2>3. /\ u.bound = [x \in DOMAIN t.bound \ {action} |-> t.bound[x]]
        /\ u.grabber = [x \in DOMAIN t.bound \ {action} |-> t.grabber[x]]
        /\ u.last = t.last /\ u.watched = t.watched
    BY <2>2 DEF Without, Good
  <2>4. u = [bound |-> u.bound, last |-> u.last, grabber |-> u.grabber, watched |-> u.watched]
    BY <2>2
  <2> HIDE DEF u
  <2>5. Good(u)
    BY <2>3, <2>4 DEF Good
  <2> QED BY <1>2, <2>3, <2>5 DEF u
<1> QED BY <1>1, <1>2

LEMMA SetTablesGood ==
  ASSUME NEW t, Good(t), SetTables(t), AccelInv, UNCHANGED presence
  PROVE  AccelInv'
<1>1. Tables' = t
  BY DEF SetTables, Tables, Good
<1> QED BY <1>1 DEF AccelInv, Good

\* The tables after an ungrabbing call of c.
LEMMA UngrabbedTables ==
  ASSUME AccelInv, NEW c \in Clients, UngrabbedBy(c)
  PROVE  /\ AccelInv'
         /\ \A a \in DOMAIN bound \ DOMAIN bound' : grabber[a] = c
<1>1. Good(Tables) /\ Tables.bound = bound /\ Tables.grabber = grabber
  BY DEF AccelInv, Tables
<1>2. ASSUME NEW a \in ActionIds, UngrabAccelerator(c, a)
      PROVE  AccelInv' /\ \A k \in DOMAIN bound \ DOMAIN bound' : grabber[k] = c
  <2> DEFINE t == UngrabForClient(Tables, a, c)
  <2>1. Good(t) /\ \A k \in DOMAIN bound : k \in DOMAIN t.bound \/ grabber[k] = c
    BY <1>1, UngrabGood
  <2>2. SetTables(t) /\ UNCHANGED presence
    BY <1>2 DEF UngrabAccelerator
  <2> HIDE DEF t
  <2>3. bound' = t.bound
    BY <2>2 DEF SetTables
  <2> QED BY <2>1, <2>2, <2>3, SetTablesGood
<1>3. ASSUME NEW a \in ActionIds, NEW b \in ActionIds, UngrabAccelerators(c, a, b)
      PROVE  AccelInv' /\ \A k \in DOMAIN bound \ DOMAIN bound' : grabber[k] = c
  <2> DEFINE s == UngrabForClient(Tables, a, c)
             t == UngrabForClient(s, b, c)
  <2>1. /\ Good(s)
        /\ \A k \in DOMAIN bound : k \in DOMAIN s.bound \/ grabber[k] = c
        /\ \A k \in DOMAIN s.bound : s.grabber[k] = grabber[k]
    BY <1>1, UngrabGood
  <2>2. SetTables(t) /\ UNCHANGED presence
    BY <1>3 DEF UngrabAccelerators
  <2> HIDE DEF s
  <2>3. Good(t) /\ \A k \in DOMAIN s.bound : k \in DOMAIN t.bound \/ s.grabber[k] = c
    BY <2>1, UngrabGood
  <2> HIDE DEF t
  <2>4. bound' = t.bound
    BY <2>2 DEF SetTables
  <2> QED BY <2>1, <2>2, <2>3, <2>4, SetTablesGood
<1> QED BY <1>2, <1>3 DEF UngrabbedBy

\* Every other step of the accelerators leaves every grab where it is.
LEMMA AccelKept ==
  ASSUME AccelInv, AccelNext
  PROVE  /\ AccelInv'
         /\ (\E c \in Clients : UngrabbedBy(c)) \/ DOMAIN bound \subseteq DOMAIN bound'
<1>1. Good(Tables) /\ Tables.bound = bound
  BY DEF AccelInv, Tables
<1>2. ASSUME NEW c \in Clients, NEW key \in Keys, GrabAccelerator(c, key)
      PROVE  AccelInv' /\ DOMAIN bound \subseteq DOMAIN bound'
  <2> DEFINE t == GrabForClient(Tables, key, c)
  <2>1. Good(t) /\ DOMAIN bound \subseteq DOMAIN t.bound
    BY <1>1, GrabGood
  <2>2. SetTables(t) /\ UNCHANGED presence
    BY <1>2 DEF GrabAccelerator
  <2> HIDE DEF t
  <2>3. bound' = t.bound
    BY <2>2 DEF SetTables
  <2> QED BY <2>1, <2>2, <2>3, SetTablesGood
<1>3. ASSUME NEW c \in Clients, NEW key1 \in Keys, NEW key2 \in Keys,
             GrabAccelerators(c, key1, key2)
      PROVE  AccelInv' /\ DOMAIN bound \subseteq DOMAIN bound'
  <2> DEFINE s == GrabForClient(Tables, key1, c)
             t == GrabForClient(s, key2, c)
  <2>1. Good(s) /\ DOMAIN bound \subseteq DOMAIN s.bound
    BY <1>1, GrabGood
  <2>2. SetTables(t) /\ UNCHANGED presence
    BY <1>3 DEF GrabAccelerators
  <2> HIDE DEF s
  <2>3. Good(t) /\ DOMAIN s.bound \subseteq DOMAIN t.bound
    BY <2>1, GrabGood
  <2> HIDE DEF t
  <2>4. bound' = t.bound
    BY <2>2 DEF SetTables
  <2> QED BY <2>1, <2>2, <2>3, <2>4, SetTablesGood
<1>4. ASSUME NEW c \in Clients, UngrabbedBy(c) PROVE AccelInv'
  BY <1>4, UngrabbedTables
<1>5. ASSUME NEW c \in Clients, ClientLeaves(c)
      PROVE  AccelInv' /\ DOMAIN bound \subseteq DOMAIN bound'
  <2>1. Tables' = Tables /\ bound' = bound
    BY <1>5 DEF ClientLeaves, Tables
  <2>2. /\ presence' \in [Clients -> {"connected", "left", "noticed"}]
        /\ \A d \in Clients : presence[d] = "noticed" => presence'[d] = "noticed"
    BY <1>5 DEF ClientLeaves, AccelInv
  <2>3. Good(Tables)'
    BY <1>1, <2>1, <2>2 DEF Good
  <2> QED BY <2>1, <2>2, <2>3 DEF AccelInv
<1>6. ASSUME NEW c \in Clients, OnClientVanished(c)
      PROVE  AccelInv' /\ DOMAIN bound \subseteq DOMAIN bound'
  <2>1. /\ presence' \in [Clients -> {"connected", "left", "noticed"}]
        /\ presence'[c] = "noticed"
        /\ \A d \in Clients : presence[d] = "noticed" => presence'[d] = "noticed"
    BY <1>6 DEF OnClientVanished, AccelInv
  <2>2. /\ bound' = bound /\ grabber' = grabber /\ lastAction' = lastAction
        /\ watched' = watched \ {c}
    BY <1>6 DEF OnClientVanished
  <2>3. Good(Tables)'
    BY <1>1, <2>1, <2>2 DEF Good, Tables
  <2> QED BY <2>1, <2>2, <2>3 DEF AccelInv
<1> QED BY <1>2, <1>3, <1>4, <1>5, <1>6 DEF AccelNext, UngrabbedBy

-----------------------------------------------------------------------------
(* Screenshots: what the one KioskScreenshot has to do with the calls.     *)

Waiting(c) == call[c].state = "waiting"
FileOf(c) == call[c].file

\* A waiting call has a file of its own, which stays empty until its thread has run.
FilesOwned ==
  /\ \A c \in Calls : Waiting(c) => FileOf(c) \in Files /\ disk[FileOf(c)] # "absent"
  /\ \A c, d \in Calls : Waiting(c) /\ Waiting(d) /\ FileOf(c) = FileOf(d) => c = d
  /\ \A c \in Calls : Waiting(c) /\ tasks[c] \in {"none", "running"} => disk[FileOf(c)] = "empty"

\* The call that has a thread has the KioskScreenshot.
TasksHold ==
  \A c \in Calls : tasks[c] # "none" =>
    /\ Waiting(c)
    /\ shot.stream = FileOf(c)
    /\ shot.image \in {c, None}

ReportsHold ==
  \A r \in reports :
    /\ Waiting(r.call) /\ tasks[r.call] = "none"
    /\ r.kind = "uncaptured" => shot.stream = FileOf(r.call)
    /\ \A s \in reports : s.call = r.call => s = r

ShotInv ==
  /\ ShotTypeOK
  /\ FilesOwned
  /\ TasksHold
  /\ ReportsHold
  /\ shot.stream = None => shot.image = None

LEMMA CallRecord ==
  ASSUME ShotTypeOK, NEW c \in Calls
  PROVE  call[c] = [state |-> call[c].state, file |-> call[c].file, answer |-> call[c].answer]
  BY DEF ShotTypeOK

LEMMA AnswerTypes ==
  ASSUME ShotTypeOK, NEW c \in Calls, NEW answer \in {"success", "failure", "error"}, Answer(c, answer)
  PROVE  /\ call'[c] = [state |-> "answered", file |-> call[c].file, answer |-> answer]
         /\ \A d \in Calls : d # c => call'[d] = call[d]
         /\ call' \in [Calls -> [state  : {"unsent", "waiting", "answered"},
                                 file   : Files \cup {None},
                                 answer : {"none", "success", "failure", "error"}]]
<1>1. call' = [call EXCEPT ![c] = [call[c] EXCEPT !.state = "answered", !.answer = answer]]
  BY DEF Answer, ShotTypeOK
<1>2. [call[c] EXCEPT !.state = "answered", !.answer = answer]
        = [state |-> "answered", file |-> call[c].file, answer |-> answer]
  <2> DEFINE k == call[c]
  <2>1. k = [state |-> k.state, file |-> k.file, answer |-> k.answer]
    BY CallRecord
  <2> DEFINE u == [k EXCEPT !.state = "answered", !.answer = answer]
  <2>2. u = [k EXCEPT !.state = "answered", !.answer = answer]
    OBVIOUS
  <2> HIDE DEF k, u
  <2>3. u = [state |-> "answered", file |-> k.file, answer |-> answer]
    BY <2>1, <2>2
  <2> QED BY <2>3 DEF u, k
<1>3. call[c].file \in Files \cup {None}
  BY DEF ShotTypeOK
<1> QED BY <1>1, <1>2, <1>3 DEF ShotTypeOK

\* The call is not waiting any more, and no other call is disturbed.
LEMMA AnswerStops ==
  ASSUME ShotTypeOK, NEW c \in Calls, NEW answer \in {"success", "failure", "error"}, Answer(c, answer)
  PROVE  /\ call'[c].state = "answered"
         /\ \A d \in Calls : d # c => call'[d] = call[d]
<1>1. call'[c] = [state |-> "answered", file |-> call[c].file, answer |-> answer]
  BY AnswerTypes
<1>2. \A d \in Calls : d # c => call'[d] = call[d]
  BY AnswerTypes
<1> QED BY <1>1, <1>2

\* A call is refused before it has a file.
LEMMA RefusedCalls ==
  ASSUME ShotInv, NEW c \in Calls, RefuseCall(c)
  PROVE  ShotInv'
<1>1. /\ call[c].state = "unsent" /\ Answer(c, "error")
      /\ UNCHANGED <<up, disk, shot, tasks, reports>>
  BY DEF RefuseCall
<1>2. /\ call'[c].state = "answered"
      /\ \A d \in Calls : d # c => call'[d] = call[d]
      /\ ShotTypeOK'
  <2>1. /\ call'[c] = [state |-> "answered", file |-> call[c].file, answer |-> "error"]
        /\ \A d \in Calls : d # c => call'[d] = call[d]
        /\ call' \in [Calls -> [state  : {"unsent", "waiting", "answered"},
                                file   : Files \cup {None},
                                answer : {"none", "success", "failure", "error"}]]
    BY <1>1, AnswerTypes DEF ShotInv
  <2> QED BY <1>1, <2>1 DEF ShotInv, ShotTypeOK
<1>3. \A d \in Calls : /\ Waiting(d)' <=> Waiting(d)
                       /\ Waiting(d) => FileOf(d)' = FileOf(d)
  BY <1>1, <1>2 DEF Waiting, FileOf
<1>4. FilesOwned' /\ TasksHold'
  BY <1>1, <1>3 DEF ShotInv, FilesOwned, TasksHold
<1>5. ReportsHold'
  <2>1. \A r \in reports : r.call \in Calls
    BY DEF ShotInv, ShotTypeOK
  <2> QED BY <1>1, <1>3, <2>1 DEF ShotInv, ReportsHold
<1> QED BY <1>1, <1>2, <1>4, <1>5 DEF ShotInv

\* A call that was sent has neither thread nor report yet.
LEMMA UnsentCalls ==
  ASSUME ShotInv, NEW c \in Calls, call[c].state = "unsent"
  PROVE  tasks[c] = "none" /\ \A r \in reports : r.call # c
  BY DEF ShotInv, TasksHold, ReportsHold, Waiting

\* What a new file makes of the calls and of the files.
LEMMA CreatedFiles ==
  ASSUME ShotInv, NEW c \in Calls, NEW f \in Files, CreateFile(c, f)
  PROVE  /\ up' \in BOOLEAN /\ disk' \in [Files -> Contents]
         /\ call' \in [Calls -> [state  : {"unsent", "waiting", "answered"},
                                 file   : Files \cup {None},
                                 answer : {"none", "success", "failure", "error"}]]
         /\ Waiting(c)' /\ FileOf(c)' = f
         /\ \A d \in Calls : d # c => call'[d] = call[d]
         /\ disk'[f] = "empty" /\ \A g \in Files : g # f => disk'[g] = disk[g]
         /\ \A d \in Calls : Waiting(d) => FileOf(d) # f
<1>1. call' = [call EXCEPT ![c] = [call[c] EXCEPT !.state = "waiting", !.file = f]]
  BY DEF CreateFile, ShotInv, ShotTypeOK
<1>2. [call[c] EXCEPT !.state = "waiting", !.file = f]
        = [state |-> "waiting", file |-> f, answer |-> call[c].answer]
  <2> DEFINE k == call[c]
  <2>1. k = [state |-> k.state, file |-> k.file, answer |-> k.answer]
    BY CallRecord DEF ShotInv
  <2> DEFINE u == [k EXCEPT !.state = "waiting", !.file = f]
  <2>2. u = [k EXCEPT !.state = "waiting", !.file = f]
    OBVIOUS
  <2> HIDE DEF k, u
  <2>3. u = [state |-> "waiting", file |-> f, answer |-> k.answer]
    BY <2>1, <2>2
  <2> QED BY <2>3 DEF u, k
<1>3. call[c].answer \in {"none", "success", "failure", "error"}
  BY DEF ShotInv, ShotTypeOK
<1>4. disk' = [disk EXCEPT ![f] = "empty"] /\ up' = up /\ disk[f] = "absent"
  BY DEF CreateFile
<1>5. \A d \in Calls : Waiting(d) => FileOf(d) # f
  BY <1>4 DEF ShotInv, FilesOwned
<1> QED BY <1>1, <1>2, <1>3, <1>4, <1>5 DEF ShotInv, ShotTypeOK, Contents, Waiting, FileOf

\* The three outcomes of asking the KioskScreenshot.
TakesIt(c, f) ==
  /\ ~Busy
  /\ \E image \in {c, None} : shot' = [stream |-> f, image |-> image]
  /\ tasks' = [tasks EXCEPT ![c] = "running"]
  /\ UNCHANGED reports

FailsToCapture(c, f) ==
  /\ ~Busy
  /\ shot' = [shot EXCEPT !.stream = f]
  /\ reports' = reports \cup {[kind |-> "uncaptured", call |-> c, data |-> c]}
  /\ UNCHANGED tasks

LEMMA HandlersOutcomes ==
  ASSUME ShotInv, NEW c \in Calls, NEW f \in Files,
         HandleScreenshot(c, f) \/ HandleScreenshotArea(c, f) \/ HandleScreenshotWindow(c, f)
  PROVE  /\ CreateFile(c, f)
         /\ \/ TakesIt(c, f)
            \/ FailsToCapture(c, f)
            \/ Refuse(c, c)
            \/ Refuse(c, None)
  BY DEF HandleScreenshot, HandleScreenshotArea, HandleScreenshotWindow, Screenshot,
         ScreenshotArea, ScreenshotWindow, CaptureStage, CaptureWindow, TakesIt,
         FailsToCapture, Busy, ShotInv

\* Nobody else has anything to do with an idle KioskScreenshot.
LEMMA IdleShot ==
  ASSUME ShotInv, ~Busy
  PROVE  /\ \A d \in Calls : tasks[d] = "none"
         /\ \A r \in reports : r.kind # "uncaptured"
         /\ shot.image = None
<1>1. \A d \in Calls : Waiting(d) => FileOf(d) # None
  BY NoneIsNothing DEF ShotInv, FilesOwned
<1>2. shot.stream = None /\ shot.image = None
  BY DEF Busy, ShotInv
<1>3. \A d \in Calls : tasks[d] = "none"
  BY <1>1, <1>2 DEF ShotInv, TasksHold
<1>4. \A r \in reports : r.call \in Calls
  BY DEF ShotInv, ShotTypeOK
<1>5. \A r \in reports : r.kind # "uncaptured"
  BY <1>1, <1>2, <1>4 DEF ShotInv, ReportsHold
<1> QED BY <1>2, <1>3, <1>5

LEMMA HandledCalls ==
  ASSUME ShotInv, NEW c \in Calls, NEW f \in Files, call[c].state = "unsent",
         HandleScreenshot(c, f) \/ HandleScreenshotArea(c, f) \/ HandleScreenshotWindow(c, f)
  PROVE  ShotInv'
<1>1. CreateFile(c, f)
  BY HandlersOutcomes
<1>2. /\ up' \in BOOLEAN /\ disk' \in [Files -> Contents]
      /\ call' \in [Calls -> [state  : {"unsent", "waiting", "answered"},
                              file   : Files \cup {None},
                              answer : {"none", "success", "failure", "error"}]]
      /\ Waiting(c)' /\ FileOf(c)' = f
      /\ disk'[f] = "empty" /\ \A g \in Files : g # f => disk'[g] = disk[g]
      /\ \A d \in Calls : Waiting(d) => FileOf(d) # f
  BY <1>1, CreatedFiles
<1>3. \A d \in Calls : d # c => (Waiting(d)' <=> Waiting(d)) /\ FileOf(d)' = FileOf(d)
  BY <1>1, CreatedFiles DEF Waiting, FileOf
<1>4. tasks[c] = "none" /\ (\A r \in reports : r.call # c) /\ ~Waiting(c)
  BY UnsentCalls DEF Waiting
<1>5. \A r \in reports : r.call \in Calls
  BY DEF ShotInv, ShotTypeOK
<1>6. \A d \in Calls : /\ Waiting(d)' => FileOf(d)' \in Files /\ disk'[FileOf(d)'] # "absent"
                       /\ d # c /\ Waiting(d)' => disk'[FileOf(d)'] = disk[FileOf(d)]
  BY <1>2, <1>3 DEF ShotInv, FilesOwned
<1>7. \A d, e \in Calls : Waiting(d)' /\ Waiting(e)' /\ FileOf(d)' = FileOf(e)' => d = e
  BY <1>2, <1>3 DEF ShotInv, FilesOwned
<1>8. ASSUME tasks' = tasks \/ tasks' = [tasks EXCEPT ![c] = "running"]
      PROVE  FilesOwned' /\ \A d \in Calls : d # c => tasks'[d] = tasks[d]
  <2>1. \A d \in Calls : d # c => tasks'[d] = tasks[d]
    BY <1>8 DEF ShotInv, ShotTypeOK
  <2>2. \A d \in Calls : Waiting(d)' /\ tasks'[d] \in {"none", "running"}
                         => disk'[FileOf(d)'] = "empty"
    BY <2>1, <1>2, <1>3, <1>6 DEF ShotInv, FilesOwned
  <2> QED BY <1>6, <1>7, <2>1, <2>2 DEF FilesOwned
<1>9. CASE TakesIt(c, f)
  <2>1. PICK image \in {c, None} : shot' = [stream |-> f, image |-> image]
    BY <1>9 DEF TakesIt
  <2>2. tasks' = [tasks EXCEPT ![c] = "running"] /\ reports' = reports
    BY <1>9 DEF TakesIt
  <2>3. /\ \A d \in Calls : tasks[d] = "none"
        /\ \A r \in reports : r.kind # "uncaptured"
    BY <1>9, IdleShot DEF TakesIt
  <2>4. ShotTypeOK'
    BY <1>2, <2>1, <2>2 DEF ShotInv, ShotTypeOK
  <2>5. TasksHold'
    BY <1>2, <2>1, <2>2, <2>3 DEF ShotInv, ShotTypeOK, TasksHold
  <2>6. ReportsHold'
    <3>1. tasks \in [Calls -> {"none", "running", "written", "failed"}]
      BY DEF ShotInv, ShotTypeOK
    <3>2. ASSUME NEW r \in reports PROVE Waiting(r.call)' /\ tasks'[r.call] = "none"
      BY <1>3, <1>4, <1>5, <2>2, <3>1 DEF ShotInv, ReportsHold
    <3> QED BY <2>2, <2>3, <3>2 DEF ShotInv, ReportsHold
  <2>7. shot'.stream # None
    BY <2>1, NoneIsNothing
  <2> QED BY <1>8, <2>2, <2>4, <2>5, <2>6, <2>7 DEF ShotInv
<1>10. ASSUME NEW r, r.call = c, reports' = reports \cup {r}, UNCHANGED tasks,
              r \in [kind : {"refused", "uncaptured"}, call : Calls, data : Calls \cup {None}],
              \/ shot' = shot /\ r.kind = "refused"
              \/ ~Busy /\ shot' = [shot EXCEPT !.stream = f]
       PROVE  ShotInv'
  <2>1. shot'.image = shot.image /\ shot' \in [stream : Files \cup {None}, image : Calls \cup {None}]
    BY <1>10 DEF ShotInv, ShotTypeOK
  <2>2. ShotTypeOK'
    BY <1>2, <1>10, <2>1 DEF ShotInv, ShotTypeOK
  <2>3. FilesOwned'
    BY <1>8, <1>10
  <2>4. TasksHold'
    <3>1. CASE shot' = shot
      BY <1>3, <1>4, <1>10, <3>1 DEF ShotInv, TasksHold
    <3>2. CASE ~Busy
      BY <1>10, <3>2, IdleShot DEF TasksHold
    <3> QED BY <1>10, <3>1, <3>2
  <2>5. ASSUME NEW s \in reports
        PROVE  /\ Waiting(s.call)' /\ tasks'[s.call] = "none"
               /\ s.kind = "uncaptured" => shot'.stream = FileOf(s.call)'
               /\ \A q \in reports' : q.call = s.call => q = s
    <3>1. s.call \in Calls /\ s.call # c
      BY <1>4, <1>5
    <3>2. CASE shot' = shot
      BY <1>3, <1>4, <1>10, <3>1, <3>2 DEF ShotInv, ReportsHold
    <3>3. CASE ~Busy
      <4>1. s.kind # "uncaptured"
        BY <3>3, IdleShot
      <4> QED BY <1>3, <1>4, <1>10, <3>1, <4>1 DEF ShotInv, ReportsHold
    <3> QED BY <1>10, <3>2, <3>3
  <2>6. r.kind = "uncaptured" => shot'.stream = f
    BY <1>10 DEF ShotInv, ShotTypeOK
  <2>7. \A q \in reports' : q.call = c => q = r
    BY <1>4, <1>10
  <2>8. ReportsHold'
    BY <1>2, <1>4, <1>10, <2>5, <2>6, <2>7 DEF ReportsHold
  <2>9. shot'.stream = None => shot'.image = None
    <3>1. CASE shot' = shot
      BY <3>1 DEF ShotInv
    <3>2. CASE ~Busy
      BY <2>1, <3>2, IdleShot
    <3> QED BY <1>10, <3>1, <3>2
  <2> QED BY <2>2, <2>3, <2>4, <2>8, <2>9 DEF ShotInv
<1>11. CASE FailsToCapture(c, f)
  BY <1>10, <1>11 DEF FailsToCapture
<1>12. ASSUME NEW data \in {c, None}, Refuse(c, data) PROVE ShotInv'
  <2> DEFINE r == [kind |-> "refused", call |-> c, data |-> data]
  <2>1. /\ r \in [kind : {"refused", "uncaptured"}, call : Calls, data : Calls \cup {None}]
        /\ r.call = c /\ r.kind = "refused"
    OBVIOUS
  <2>2. reports' = reports \cup {r} /\ UNCHANGED tasks /\ shot' = shot
    BY <1>12 DEF Refuse
  <2> HIDE DEF r
  <2> QED BY <1>10, <2>1, <2>2
<1> QED BY <1>9, <1>11, <1>12, HandlersOutcomes

\* The thread of a call is the only one, and writes that call's picture in its file.
LEMMA WrittenFiles ==
  ASSUME ShotInv, NEW c \in Calls, WriteScreenshotThread(c)
  PROVE  /\ ShotInv' /\ call' = call
         /\ \/ disk' = disk
            \/ /\ Waiting(c) /\ tasks[c] = "running"
               /\ disk' = [disk EXCEPT ![FileOf(c)] = c] \/ disk' = [disk EXCEPT ![FileOf(c)] = "broken"]
<1>1. /\ Waiting(c) /\ shot.stream = FileOf(c) /\ shot.image \in {c, None} /\ FileOf(c) \in Files
      /\ tasks[c] = "running"
  BY DEF WriteScreenshotThread, ShotInv, TasksHold, FilesOwned
<1>2. UNCHANGED <<call, shot, reports>>
  BY DEF WriteScreenshotThread
<1>3. CASE shot.image = None
  <2>1. up' = FALSE /\ disk' = disk /\ tasks' = tasks
    BY <1>3 DEF WriteScreenshotThread
  <2>2. ShotTypeOK'
    BY <1>2, <2>1 DEF ShotInv, ShotTypeOK
  <2>3. FilesOwned' /\ TasksHold' /\ ReportsHold'
    BY <1>2, <2>1 DEF ShotInv, FilesOwned, TasksHold, ReportsHold, Waiting, FileOf
  <2> QED BY <1>2, <2>1, <2>2, <2>3 DEF ShotInv
<1>4. CASE shot.image # None
  <2>1. PICK outcome \in {"written", "failed"} :
          /\ tasks' = [tasks EXCEPT ![c] = outcome]
          /\ disk' = [disk EXCEPT ![shot.stream] =
                        IF outcome = "written" THEN shot.image ELSE "broken"]
    BY <1>4 DEF WriteScreenshotThread
  <2> DEFINE picture == IF outcome = "written" THEN c ELSE "broken"
  <2>2. disk' = [disk EXCEPT ![FileOf(c)] = picture] /\ picture \in Calls \cup {"broken"}
    BY <1>1, <1>4, <2>1
  <2>3. up' = up
    BY <1>4 DEF WriteScreenshotThread
  <2>4. picture \in {c, "broken"}
    OBVIOUS
  <2>5. picture # "absent"
    BY CallsAreNoContents
  <2> HIDE DEF picture
  <2>6. ShotTypeOK'
    <3>1. disk' \in [Files -> Contents]
      BY <2>2 DEF ShotInv, ShotTypeOK, Contents
    <3>2. tasks' \in [Calls -> {"none", "running", "written", "failed"}]
      BY <2>1 DEF ShotInv, ShotTypeOK
    <3> QED BY <1>2, <2>3, <3>1, <3>2 DEF ShotInv, ShotTypeOK
  <2>7. \A d \in Calls : tasks'[d] = IF d = c THEN outcome ELSE tasks[d]
    BY <2>1 DEF ShotInv, ShotTypeOK
  <2>8. \A d \in Calls : Waiting(d) => disk'[FileOf(d)] = IF d = c THEN picture ELSE disk[FileOf(d)]
    BY <1>1, <2>2 DEF ShotInv, ShotTypeOK, FilesOwned
  <2>9. FilesOwned'
    BY <1>2, <2>1, <2>5, <2>7, <2>8 DEF ShotInv, FilesOwned, Waiting, FileOf
  <2>10. TasksHold'
    BY <1>1, <1>2, <2>7 DEF ShotInv, TasksHold, Waiting, FileOf
  <2>11. ReportsHold'
    <3>1. \A r \in reports : r.call \in Calls /\ r.call # c
      BY <1>1 DEF ShotInv, ShotTypeOK, ReportsHold
    <3> QED BY <1>2, <2>7, <3>1 DEF ShotInv, ReportsHold, Waiting, FileOf
  <2> QED BY <1>1, <1>2, <2>2, <2>4, <2>6, <2>9, <2>10, <2>11 DEF ShotInv
<1> QED BY <1>3, <1>4

\* Answering a call that holds the KioskScreenshot leaves nothing of it behind.
LEMMA AnsweredCalls ==
  ASSUME ShotInv, NEW c \in Calls, Waiting(c),
         NEW answer \in {"success", "failure", "error"}, Answer(c, answer),
         tasks' \in [Calls -> {"none", "running", "written", "failed"}], tasks'[c] = "none",
         \A d \in Calls : d # c => tasks'[d] = tasks[d],
         reports' \subseteq reports, \A r \in reports' : r.call # c,
         \/ shot' = shot /\ tasks[c] = "none"
         \/ shot.stream = FileOf(c) /\ shot' = [stream |-> None, image |-> None],
         UNCHANGED <<up, disk>>
  PROVE  ShotInv'
<1>1. /\ call'[c].state = "answered"
      /\ \A d \in Calls : d # c => call'[d] = call[d]
      /\ call' \in [Calls -> [state  : {"unsent", "waiting", "answered"},
                              file   : Files \cup {None},
                              answer : {"none", "success", "failure", "error"}]]
  <2>1. /\ call'[c] = [state |-> "answered", file |-> call[c].file, answer |-> answer]
        /\ \A d \in Calls : d # c => call'[d] = call[d]
        /\ call' \in [Calls -> [state  : {"unsent", "waiting", "answered"},
                                file   : Files \cup {None},
                                answer : {"none", "success", "failure", "error"}]]
    BY AnswerTypes DEF ShotInv
  <2> QED BY <2>1
<1>2. \A d \in Calls : /\ Waiting(d)' <=> Waiting(d) /\ d # c
                       /\ Waiting(d)' => FileOf(d)' = FileOf(d)
  BY <1>1 DEF Waiting, FileOf
<1>3. ShotTypeOK'
  BY <1>1 DEF ShotInv, ShotTypeOK
<1>4. FilesOwned'
  BY <1>2 DEF ShotInv, FilesOwned
<1>5. shot' # shot => \A d \in Calls : Waiting(d) /\ d # c => shot.stream # FileOf(d)
  BY DEF ShotInv, FilesOwned
<1>6. TasksHold'
  BY <1>2, <1>5 DEF ShotInv, TasksHold
<1>7. ReportsHold'
  <2>1. \A r \in reports' : r \in reports /\ r.call \in Calls /\ r.call # c
    BY DEF ShotInv, ShotTypeOK
  <2> QED BY <1>2, <1>5, <2>1 DEF ShotInv, ReportsHold
<1> QED BY <1>3, <1>4, <1>6, <1>7 DEF ShotInv

LEMMA WrittenCalls ==
  ASSUME ShotInv, NEW c \in Calls, OnScreenshotWritten(c)
  PROVE  ShotInv' /\ Waiting(c) /\ Answer(c, "success") /\ disk' = disk
<1>1. /\ Waiting(c) /\ shot.stream = FileOf(c)
      /\ Answer(c, "success") /\ shot' = [stream |-> None, image |-> None]
      /\ tasks' = [tasks EXCEPT ![c] = "none"] /\ UNCHANGED <<up, disk, reports>>
      /\ tasks[c] # "none"
  BY DEF OnScreenshotWritten, Written, ShotInv, TasksHold
<1>2. /\ tasks' \in [Calls -> {"none", "running", "written", "failed"}] /\ tasks'[c] = "none"
      /\ \A d \in Calls : d # c => tasks'[d] = tasks[d]
  BY <1>1 DEF ShotInv, ShotTypeOK
<1>3. \A r \in reports' : r.call # c
  BY <1>1 DEF ShotInv, ReportsHold
<1>4. \A r \in reports' : r \in reports
  BY <1>1
<1> QED BY <1>1, <1>2, <1>3, <1>4, AnsweredCalls

LEMMA DeliveredReports ==
  ASSUME ShotInv, NEW r \in reports, DeliverReport(r)
  PROVE  /\ ShotInv' /\ disk' = disk
         /\ \/ call' = call
            \/ \E c \in Calls, answer \in {"success", "failure"} : Waiting(c) /\ Answer(c, answer)
<1>1. /\ r.call \in Calls /\ Waiting(r.call) /\ tasks[r.call] = "none"
      /\ r.kind \in {"refused", "uncaptured"}
      /\ r.kind = "uncaptured" => shot.stream = FileOf(r.call)
      /\ \A s \in reports \ {r} : s.call # r.call
  BY DEF ShotInv, ShotTypeOK, ReportsHold
<1>2. reports' = reports \ {r} /\ disk' = disk /\ tasks' = tasks
  BY DEF DeliverReport
<1>3. /\ tasks' \in [Calls -> {"none", "running", "written", "failed"}] /\ tasks'[r.call] = "none"
      /\ \A d \in Calls : d # r.call => tasks'[d] = tasks[d]
      /\ reports' \subseteq reports /\ \A s \in reports' : s.call # r.call
  BY <1>1, <1>2 DEF ShotInv, ShotTypeOK
<1>4. CASE r.kind = "uncaptured"
  <2>1. /\ Answer(r.call, "success") /\ shot' = [stream |-> None, image |-> None]
        /\ up' = up
    BY <1>4 DEF DeliverReport, Written
  <2>2. ShotInv'
    BY <1>1, <1>2, <1>3, <1>4, <2>1, AnsweredCalls
  <2> QED BY <1>1, <1>2, <2>1, <2>2
<1>5. CASE r.kind # "uncaptured" /\ r.data # None
  <2>1. Answer(r.call, "failure") /\ shot' = shot /\ up' = up
    BY <1>5 DEF DeliverReport
  <2>2. ShotInv'
    BY <1>1, <1>2, <1>3, <2>1, AnsweredCalls
  <2> QED BY <1>1, <1>2, <2>1, <2>2
<1>6. CASE r.kind # "uncaptured" /\ r.data = None
  <2>1. up' = FALSE /\ call' = call /\ shot' = shot
    BY <1>6 DEF DeliverReport
  <2>2. ShotTypeOK'
    BY <1>2, <2>1 DEF ShotInv, ShotTypeOK
  <2>3. FilesOwned' /\ TasksHold'
    BY <1>2, <2>1 DEF ShotInv, FilesOwned, TasksHold, Waiting, FileOf
  <2>4. ReportsHold'
    BY <1>2, <2>1 DEF ShotInv, ReportsHold, Waiting, FileOf
  <2> QED BY <1>2, <2>1, <2>2, <2>3, <2>4 DEF ShotInv
<1> QED BY <1>4, <1>5, <1>6

-----------------------------------------------------------------------------
(* Both services.                                                          *)

IInv == AccelInv /\ ShotInv

LEMMA ShotUnchanged == ShotInv /\ UNCHANGED shotVars => ShotInv'
<1> SUFFICES ASSUME ShotInv, UNCHANGED shotVars PROVE ShotInv'
  OBVIOUS
<1>1. ShotTypeOK'
  BY DEF ShotInv, ShotTypeOK, shotVars
<1>2. FilesOwned' /\ TasksHold' /\ ReportsHold'
  BY DEF ShotInv, FilesOwned, TasksHold, ReportsHold, Waiting, FileOf, shotVars
<1> QED BY <1>1, <1>2 DEF ShotInv, shotVars

LEMMA AccelUnchanged == AccelInv /\ UNCHANGED accelVars => AccelInv'
  BY DEF AccelInv, Good, Tables, accelVars

LEMMA InitInvariant == Init => IInv
<1> SUFFICES ASSUME Init PROVE IInv
  OBVIOUS
<1>1. AccelInv
  BY MaxGrabsNat DEF Init, AccelInit, AccelInv, Good, Tables
<1>2. ShotTypeOK
  BY DEF Init, ShotInit, ShotTypeOK, Contents
<1>3. FilesOwned /\ TasksHold /\ ReportsHold
  BY DEF Init, ShotInit, FilesOwned, TasksHold, ReportsHold, Waiting
<1> QED BY <1>1, <1>2, <1>3 DEF IInv, ShotInv, Init, ShotInit

LEMMA NextInvariant == IInv /\ [Next]_vars => IInv'
<1> SUFFICES ASSUME IInv, [Next]_vars PROVE IInv'
  OBVIOUS
<1>1. CASE Accelerate
  BY <1>1, AccelKept, ShotUnchanged DEF Accelerate, IInv
<1>2. ASSUME NEW c \in Calls, Call(c) PROVE IInv'
  <2>1. AccelInv'
    BY <1>2, AccelUnchanged DEF Call, IInv
  <2>2. ASSUME RefuseCall(c) PROVE ShotInv'
    BY <2>2, RefusedCalls DEF IInv
  <2>3. ASSUME NEW f \in Files,
               \/ HandleScreenshot(c, f) \/ HandleScreenshotArea(c, f)
               \/ HandleScreenshotWindow(c, f)
        PROVE  ShotInv'
    <3>1. call[c].state = "unsent"
      BY <2>3 DEF HandleScreenshot, HandleScreenshotArea, HandleScreenshotWindow, CreateFile
    <3> QED BY <2>3, <3>1, HandledCalls DEF IInv
  <2> QED BY <1>2, <2>1, <2>2, <2>3 DEF Call, IInv
<1>3. CASE ShotStep /\ UNCHANGED accelVars
  BY <1>3, WrittenFiles, WrittenCalls, DeliveredReports, AccelUnchanged DEF ShotStep, IInv
<1>4. CASE UNCHANGED vars
  BY <1>4, ShotUnchanged, AccelUnchanged DEF vars, IInv
<1> QED BY <1>1, <1>2, <1>3, <1>4 DEF Next

\* The invariant of both services holds in every state, for any clients, keys, calls
\* and files.
THEOREM ServicesInvariant == Spec => []IInv
  BY InitInvariant, NextInvariant, PTL DEF Spec

\* Every variable of both services has its type in every state.
THEOREM TypeCorrect == Spec => []TypeOK
<1>1. IInv => TypeOK
  BY PartsOfAccelInv DEF IInv, ShotInv, TypeOK
<1> QED BY <1>1, ServicesInvariant, PTL

\* Mutter's grabs, the table of clients and the watches agree in every state, after
\* any lists of keys and ids (grab_accelerator_for_client).
THEOREM GrabsAlwaysAccounted == Spec => []GrabsAccounted
<1>1. IInv => GrabsAccounted
  BY PartsOfAccelInv DEF IInv
<1> QED BY <1>1, ServicesInvariant, PTL

\* A grab goes by a call of the client that holds it, or when that client has been
\* noticed to have gone, and no call of another client takes it
\* (ungrab_accelerator_for_client, on_client_vanished).
THEOREM GrabsLastUntilUngrabbed == Spec => GrabsLast
<1> DEFINE Own == \A a \in DOMAIN bound \ DOMAIN bound' :
                    /\ \A c \in Clients : UngrabbedBy(c) => c = grabber[a]
                    /\ UngrabbedBy(grabber[a]) \/ presence'[grabber[a]] = "noticed"
<1>1. IInv /\ [Next]_vars => [Own]_vars
  <2> SUFFICES ASSUME IInv, [Next]_vars, vars' # vars PROVE Own
    OBVIOUS
  <2>1. (\E c \in Clients : UngrabbedBy(c)) \/ DOMAIN bound \subseteq DOMAIN bound'
    <3>1. CASE Accelerate
      BY <3>1, AccelKept DEF Accelerate, IInv
    <3>2. CASE UNCHANGED accelVars
      BY <3>2 DEF accelVars
    <3> QED BY <3>1, <3>2 DEF Next, Call
  <2>2. ASSUME NEW a \in DOMAIN bound \ DOMAIN bound'
        PROVE  /\ \A c \in Clients : UngrabbedBy(c) => c = grabber[a]
               /\ UngrabbedBy(grabber[a])
    <3>1. \A d \in Clients : UngrabbedBy(d) => d = grabber[a]
      BY <2>2, UngrabbedTables DEF IInv
    <3>2. PICK d \in Clients : UngrabbedBy(d)
      BY <2>1, <2>2
    <3>3. d = grabber[a]
      BY <3>1, <3>2
    <3> QED BY <3>1, <3>2, <3>3
  <2> QED BY <2>2
<1> QED BY <1>1, ServicesInvariant, PTL DEF Spec, GrabsLast

-----------------------------------------------------------------------------
(* The files come to what PictureFiles promises.                           *)

\* Writer, of any calls.
WriterAmong(k) == [f \in Files |->
  IF \E c \in Calls : k[c].state = "waiting" /\ k[c].file = f
  THEN CHOOSE c \in Calls : k[c].state = "waiting" /\ k[c].file = f
  ELSE None]

LEMMA WriterIsAmong == Writer = WriterAmong(call)
  BY DEF Writer, WriterAmong

LEMMA WriterIsAmongPrime == Writer' = WriterAmong(call')
  BY DEF Writer, WriterAmong

LEMMA WriterOfFile ==
  ASSUME NEW k, NEW f \in Files,
         \A c, d \in Calls : /\ k[c].state = "waiting" /\ k[d].state = "waiting"
                             /\ k[c].file = k[d].file
                             => c = d
  PROVE  /\ \A c \in Calls : k[c].state = "waiting" /\ k[c].file = f => WriterAmong(k)[f] = c
         /\ (\A c \in Calls : ~(k[c].state = "waiting" /\ k[c].file = f)) => WriterAmong(k)[f] = None
  BY DEF WriterAmong

\* The call that writes a file, now and in the next state.
LEMMA Writers ==
  ASSUME ShotInv, NEW f \in Files
  PROVE  /\ \A c \in Calls : Waiting(c) /\ FileOf(c) = f => Writer[f] = c
         /\ (\A c \in Calls : ~(Waiting(c) /\ FileOf(c) = f)) => Writer[f] = None
  BY WriterOfFile, WriterIsAmong DEF ShotInv, FilesOwned, Waiting, FileOf

LEMMA WritersPrime ==
  ASSUME ShotInv', NEW f \in Files
  PROVE  /\ \A c \in Calls : Waiting(c)' /\ FileOf(c)' = f => Writer'[f] = c
         /\ (\A c \in Calls : ~(Waiting(c)' /\ FileOf(c)' = f)) => Writer'[f] = None
<1>1. \A c, d \in Calls : /\ call'[c].state = "waiting" /\ call'[d].state = "waiting"
                          /\ call'[c].file = call'[d].file
                          => c = d
  BY DEF ShotInv, FilesOwned, Waiting, FileOf
<1> QED BY <1>1, WriterOfFile, WriterIsAmongPrime DEF Waiting, FileOf

\* Calls that neither start nor stop waiting leave the writers as they are.
LEMMA SameWriters ==
  ASSUME ShotInv, ShotInv',
         \A d \in Calls : /\ Waiting(d)' <=> Waiting(d)
                          /\ Waiting(d) => FileOf(d)' = FileOf(d)
  PROVE  Writer' = Writer
<1>1. ASSUME NEW f \in Files PROVE Writer'[f] = Writer[f]
  <2>1. CASE \E c \in Calls : Waiting(c) /\ FileOf(c) = f
    BY <2>1, Writers, WritersPrime DEF Waiting, FileOf
  <2>2. CASE \A c \in Calls : ~(Waiting(c) /\ FileOf(c) = f)
    <3>1. Writer[f] = None
      BY <2>2, Writers
    <3>2. \A c \in Calls : ~(Waiting(c)' /\ FileOf(c)' = f)
      BY <2>2 DEF Waiting, FileOf
    <3>3. Writer'[f] = None
      BY <3>2, WritersPrime
    <3> QED BY <3>1, <3>3
  <2> QED BY <2>1, <2>2
<1>2. Writer' = [f \in Files |-> Writer'[f]] /\ Writer = [f \in Files |-> Writer[f]]
  BY WriterIsAmong, WriterIsAmongPrime DEF WriterAmong
<1> QED BY <1>1, <1>2

\* One call that starts or stops waiting changes the writer of its file only.
LEMMA ChangedWriter ==
  ASSUME ShotInv, ShotInv', NEW c \in Calls, NEW f \in Files, NEW now,
         \A d \in Calls \ {c} : /\ Waiting(d)' <=> Waiting(d)
                                /\ Waiting(d) => FileOf(d)' = FileOf(d),
         \A d \in Calls : d # c /\ Waiting(d) => FileOf(d) # f,
         Waiting(c) => FileOf(c) = f,
         \/ Waiting(c)' /\ FileOf(c)' = f /\ now = c
         \/ ~Waiting(c)' /\ now = None
  PROVE  Writer' = [Writer EXCEPT ![f] = now]
<1>1. Writer'[f] = now
  <2>1. CASE Waiting(c)'
    BY <2>1, WritersPrime
  <2>2. CASE ~Waiting(c)'
    <3>1. \A d \in Calls : ~(Waiting(d)' /\ FileOf(d)' = f)
      BY <2>2 DEF Waiting, FileOf
    <3> QED BY <2>2, <3>1, WritersPrime
  <2> QED BY <2>1, <2>2
<1>2. ASSUME NEW g \in Files, g # f PROVE Writer'[g] = Writer[g]
  <2>1. CASE \E d \in Calls : Waiting(d) /\ FileOf(d) = g
    <3>1. PICK d \in Calls : Waiting(d) /\ FileOf(d) = g
      BY <2>1
    <3>2. d # c
      BY <1>2, <3>1
    <3>3. Waiting(d)' /\ FileOf(d)' = g
      BY <3>1, <3>2 DEF Waiting, FileOf
    <3>4. Writer[g] = d
      BY <3>1, Writers
    <3>5. Writer'[g] = d
      BY <3>3, WritersPrime
    <3> QED BY <3>4, <3>5
  <2>2. CASE \A d \in Calls : ~(Waiting(d) /\ FileOf(d) = g)
    <3>1. \A d \in Calls : ~(Waiting(d)' /\ FileOf(d)' = g)
      BY <1>2, <2>2 DEF Waiting, FileOf
    <3>2. Writer[g] = None
      BY <2>2, Writers
    <3>3. Writer'[g] = None
      BY <3>1, WritersPrime
    <3> QED BY <3>2, <3>3
  <2> QED BY <2>1, <2>2
<1>3. Writer' = [g \in Files |-> Writer'[g]] /\ Writer = [g \in Files |-> Writer[g]]
  BY WriterIsAmong, WriterIsAmongPrime DEF WriterAmong
<1>4. Writer' = [g \in Files |-> IF g = f THEN now ELSE Writer[g]]
  BY <1>1, <1>2, <1>3
<1> QED BY <1>3, <1>4

LEMMA InitRefines == Init => Pictures!Init
<1> SUFFICES ASSUME Init PROVE Pictures!Init
  OBVIOUS
<1>1. \A c \in Calls : call[c].state = "unsent"
  BY DEF Init, ShotInit
<1>2. Writer = [f \in Files |-> None]
  BY <1>1 DEF Writer
<1> QED BY <1>2 DEF Init, ShotInit, Pictures!Init

\* A call that creates its file opens it.
LEMMA HandlersRefine ==
  ASSUME ShotInv, ShotInv', NEW c \in Calls, NEW f \in Files, CreateFile(c, f)
  PROVE  Pictures!Open(c, f)
<1>1. /\ disk[f] = "absent" /\ disk' = [disk EXCEPT ![f] = "empty"] /\ ~Waiting(c)
  BY DEF CreateFile, Waiting
<1>2. /\ Waiting(c)' /\ FileOf(c)' = f
      /\ \A d \in Calls : d # c => call'[d] = call[d]
      /\ \A d \in Calls : Waiting(d) => FileOf(d) # f
  BY CreatedFiles
<1>3. \A d \in Calls \ {c} : (Waiting(d)' <=> Waiting(d)) /\ (Waiting(d) => FileOf(d)' = FileOf(d))
  BY <1>2 DEF Waiting, FileOf
<1>4. Writer' = [Writer EXCEPT ![f] = c]
  BY <1>1, <1>2, <1>3, ChangedWriter
<1>5. ASSUME NEW g \in Files PROVE Writer[g] # c
  <2>1. CASE \E d \in Calls : Waiting(d) /\ FileOf(d) = g
    <3>1. PICK d \in Calls : Waiting(d) /\ FileOf(d) = g
      BY <2>1
    <3>2. Writer[g] = d
      BY <3>1, Writers
    <3> QED BY <1>1, <3>1, <3>2
  <2>2. CASE \A d \in Calls : ~(Waiting(d) /\ FileOf(d) = g)
    BY <2>2, Writers, NoneIsNothing
  <2> QED BY <2>1, <2>2
<1> QED BY <1>1, <1>4, <1>5 DEF Pictures!Open

\* A thread fills the file of the one call that has not got its picture.
LEMMA ThreadsRefine ==
  ASSUME ShotInv, NEW c \in Calls, Waiting(c), tasks[c] = "running", call' = call,
         disk' = [disk EXCEPT ![FileOf(c)] = c] \/ disk' = [disk EXCEPT ![FileOf(c)] = "broken"]
  PROVE  Pictures!Fill(FileOf(c))
<1>1. FileOf(c) \in Files
  BY DEF ShotInv, FilesOwned
<1>2. Writer[FileOf(c)] = c /\ c # None
  BY <1>1, Writers, NoneIsNothing
<1>3. ASSUME NEW g \in Files, Writer[g] # None PROVE disk[g] = "empty"
  <2>1. PICK d \in Calls : Waiting(d) /\ FileOf(d) = g
    BY <1>3, Writers
  <2>2. CASE tasks[d] \in {"none", "running"}
    BY <2>1, <2>2 DEF ShotInv, FilesOwned
  <2>3. CASE tasks[d] \notin {"none", "running"}
    <3>1. shot.stream = FileOf(c) /\ shot.stream = FileOf(d)
      BY <2>3 DEF ShotInv, TasksHold
    <3>2. d = c
      BY <2>1, <3>1 DEF ShotInv, FilesOwned
    <3> QED BY <2>3, <3>2
  <2> QED BY <2>2, <2>3
<1>4. Writer' = Writer
  BY WriterIsAmong, WriterIsAmongPrime
<1>5. \E end \in {Writer[FileOf(c)], "broken"} : disk' = [disk EXCEPT ![FileOf(c)] = end]
  BY <1>2
<1> QED BY <1>2, <1>3, <1>4, <1>5 DEF Pictures!Fill

\* An answer closes the file of the call, and touches none.
LEMMA AnswersRefine ==
  ASSUME ShotInv, ShotInv', NEW c \in Calls, Waiting(c), disk' = disk,
         NEW answer \in {"success", "failure", "error"}, Answer(c, answer)
  PROVE  Pictures!Close(FileOf(c))
<1>1. FileOf(c) \in Files
  BY DEF ShotInv, FilesOwned
<1>2. Writer[FileOf(c)] # None
  BY <1>1, Writers, NoneIsNothing
<1>3. ~Waiting(c)' /\ \A d \in Calls : d # c => call'[d] = call[d]
  BY AnswerStops DEF Waiting, ShotInv
<1>4. \A d \in Calls \ {c} : (Waiting(d)' <=> Waiting(d)) /\ (Waiting(d) => FileOf(d)' = FileOf(d))
  BY <1>3 DEF Waiting, FileOf
<1>5. \A d \in Calls : d # c /\ Waiting(d) => FileOf(d) # FileOf(c)
  BY DEF ShotInv, FilesOwned
<1>6. Writer' = [Writer EXCEPT ![FileOf(c)] = None]
  <2> DEFINE f == FileOf(c)
  <2>1. f \in Files /\ (Waiting(c) => FileOf(c) = f)
        /\ \A d \in Calls : d # c /\ Waiting(d) => FileOf(d) # f
    BY <1>1, <1>5
  <2> HIDE DEF f
  <2>2. Writer' = [Writer EXCEPT ![f] = None]
    BY <1>3, <1>4, <2>1, ChangedWriter
  <2> QED BY <2>2 DEF f
<1> QED BY <1>2, <1>6 DEF Pictures!Close

\* Whatever order threads and answers come in, the files are written as PictureFiles
\* promises (write_screenshot_thread, on_screenshot_written).
THEOREM FilesAreWrittenOnce == Spec => WritesItsFileOnce
<1>1. ASSUME IInv, IInv', [Next]_vars PROVE [Pictures!Next]_(Pictures!vars)
  <2> USE <1>1 DEF IInv
  <2>1. ASSUME call' = call, disk' = disk PROVE UNCHANGED Pictures!vars
    BY <2>1, WriterIsAmong, WriterIsAmongPrime DEF Pictures!vars
  <2>2. CASE Accelerate \/ UNCHANGED vars
    BY <2>1, <2>2 DEF Accelerate, vars, shotVars
  <2>3. ASSUME NEW c \in Calls, RefuseCall(c) PROVE UNCHANGED Pictures!vars
    <3>1. call[c].state = "unsent" /\ Answer(c, "error") /\ disk' = disk
      BY <2>3 DEF RefuseCall
    <3>2. ~Waiting(c) /\ ~Waiting(c)' /\ \A d \in Calls : d # c => call'[d] = call[d]
      BY <3>1, AnswerStops DEF ShotInv, Waiting
    <3>3. Writer' = Writer
      <4>1. \A d \in Calls : /\ Waiting(d)' <=> Waiting(d)
                             /\ Waiting(d) => FileOf(d)' = FileOf(d)
        BY <3>2 DEF Waiting, FileOf
      <4> QED BY <4>1, SameWriters
    <3> QED BY <3>1, <3>3 DEF Pictures!vars
  <2>4. ASSUME NEW c \in Calls, NEW f \in Files, CreateFile(c, f) PROVE Pictures!Next
    BY <2>4, HandlersRefine DEF Pictures!Next
  <2>5. ASSUME NEW c \in Calls, Call(c) PROVE [Pictures!Next]_(Pictures!vars)
    BY <2>3, <2>4, <2>5 DEF Call, HandleScreenshot, HandleScreenshotArea, HandleScreenshotWindow
  <2>6. \A c \in Calls : Waiting(c) => FileOf(c) \in Files
    BY DEF ShotInv, FilesOwned
  <2>7. ASSUME NEW c \in Calls, WriteScreenshotThread(c) PROVE [Pictures!Next]_(Pictures!vars)
    BY <2>1, <2>6, <2>7, WrittenFiles, ThreadsRefine DEF Pictures!Next
  <2>8. ASSUME NEW c \in Calls, OnScreenshotWritten(c) PROVE Pictures!Next
    BY <2>6, <2>8, WrittenCalls, AnswersRefine DEF Pictures!Next
  <2>9. ASSUME NEW r \in reports, DeliverReport(r) PROVE [Pictures!Next]_(Pictures!vars)
    BY <2>1, <2>6, <2>9, DeliveredReports, AnswersRefine DEF Pictures!Next
  <2> QED BY <1>1, <2>2, <2>5, <2>7, <2>8, <2>9 DEF Next, ShotStep
<1> QED BY <1>1, InitRefines, ServicesInvariant, PTL DEF Spec, WritesItsFileOnce, Pictures!Spec
=============================================================================
