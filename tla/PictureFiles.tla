----------------------------- MODULE PictureFiles -----------------------------
(***************************************************************************)
(* What a client may rely on of the file it names in a screenshot call:    *)
(* the file is created for that call, holds nothing but that call's        *)
(* picture or what was written of it, and is left alone once the call has  *)
(* been answered; and one picture is written at a time.                    *)
(***************************************************************************)
CONSTANTS Calls, Files, None

VARIABLES content,       \* what each file holds
          writer         \* the unanswered call a file was created for

vars == <<content, writer>>

Init ==
  /\ content = [f \in Files |-> "absent"]
  /\ writer = [f \in Files |-> None]

Open(c, f) ==
  /\ content[f] = "absent"
  /\ \A g \in Files : writer[g] # c
  /\ content' = [content EXCEPT ![f] = "empty"]
  /\ writer' = [writer EXCEPT ![f] = c]

\* Filled once, and only when no other unanswered call has its picture already.
Fill(f) ==
  /\ writer[f] # None
  /\ \A g \in Files : writer[g] # None => content[g] = "empty"
  /\ \E end \in {writer[f], "broken"} : content' = [content EXCEPT ![f] = end]
  /\ UNCHANGED writer

Close(f) ==
  /\ writer[f] # None
  /\ writer' = [writer EXCEPT ![f] = None]
  /\ UNCHANGED content

Next == \E f \in Files : (\E c \in Calls : Open(c, f)) \/ Fill(f) \/ Close(f)

Spec == Init /\ [][Next]_vars
=============================================================================
