----------------------------- MODULE Accelerators -----------------------------
(***************************************************************************)
(* Accelerators that clients grab through org.gnome.Shell                  *)
(* (compositor/kiosk-shell-service.c): a table of the client each grab     *)
(* belongs to and a watch on the bus name of every client that has grabbed *)
(* something, beside mutter's own table of the grabs in effect.            *)
(***************************************************************************)
EXTENDS Naturals

CONSTANTS Clients,       \* unique bus names, never used again by another client
          Keys,          \* the accelerators they ask for
          MaxGrabs       \* bound: the grabs mutter grants in all

ASSUME MaxGrabsNat == MaxGrabs \in Nat

VARIABLES
  presence,     \* "connected"; "left" the bus, its last calls maybe still on
                \* their way; "noticed": the compositor has been told
  bound,        \* mutter: the key of each action it keeps from applications
  lastAction,   \* mutter: the last dynamic action id given out
  grabber,      \* grabbed_accelerators: the client of each action
  watched       \* client_bus_watch_ids

accelVars == <<presence, bound, lastAction, grabber, watched>>

ActionIds == 1..MaxGrabs

AccelTypeOK ==
  /\ presence \in [Clients -> {"connected", "left", "noticed"}]
  /\ lastAction \in 0..MaxGrabs
  /\ DOMAIN bound \subseteq 1..lastAction
  /\ \A a \in DOMAIN bound : bound[a] \in Keys
  /\ DOMAIN grabber \subseteq 1..lastAction
  /\ \A a \in DOMAIN grabber : grabber[a] \in Clients
  /\ watched \subseteq Clients

AccelInit ==
  /\ presence = [c \in Clients |-> "connected"]
  /\ bound = [a \in {} |-> 0]
  /\ lastAction = 0
  /\ grabber = [a \in {} |-> 0]
  /\ watched = {}

\* The tables as one value, for the loops that go through a list of grabs.
Tables == [bound |-> bound, last |-> lastAction, grabber |-> grabber, watched |-> watched]

SetTables(t) ==
  /\ bound' = t.bound
  /\ lastAction' = t.last
  /\ grabber' = t.grabber
  /\ watched' = t.watched

With(f, a, value) == [x \in DOMAIN f \cup {a} |-> IF x = a THEN value ELSE f[x]]
Without(f, a) == [x \in DOMAIN f \ {a} |-> f[x]]

\* External: meta_display_grab_accelerator and meta_display_ungrab_accelerator. A
\* key that is grabbed is not granted again, an action id is not given out twice.
MetaGrants(t, key) == t.last < MaxGrabs /\ \A a \in DOMAIN t.bound : t.bound[a] # key
MetaUngrabs(t, action) == action \in DOMAIN t.bound

\* Mutated: watches a client only for a key that was never granted before.
GrabForClientUnwatched(t, key, client) ==
  LET action == t.last + 1
  IN  IF MetaGrants(t, key)
      THEN [bound   |-> With(t.bound, action, key),
            last    |-> action,
            grabber |-> With(t.grabber, action, client),
            watched |-> IF action = 1 THEN t.watched \cup {client} ELSE t.watched]
      ELSE t

\* Mutated: takes 0, mutter's refusal, for an action.
GrabForClientUnchecked(t, key, client) ==
  LET granted == MetaGrants(t, key)
      action  == IF granted THEN t.last + 1 ELSE 0
  IN  [bound   |-> IF granted THEN With(t.bound, action, key) ELSE t.bound,
       last    |-> IF granted THEN action ELSE t.last,
       grabber |-> With(t.grabber, action, client),
       watched |-> t.watched \cup {client}]

GrabForClient(t, key, client) ==
  LET action == t.last + 1
  IN  IF MetaGrants(t, key)
      THEN [bound   |-> With(t.bound, action, key),
            last    |-> action,
            grabber |-> With(t.grabber, action, client),
            watched |-> t.watched \cup {client}]
      ELSE t

\* Mutated: whoever asks.
UngrabForClientUnchecked(t, action, client) ==
  IF action \in DOMAIN t.grabber /\ MetaUngrabs(t, action)
  THEN [t EXCEPT !.bound = Without(t.bound, action), !.grabber = Without(t.grabber, action)]
  ELSE t

\* A client that vanished keeps what it grabbed, and its action ids are of no use
\* to another.
UngrabForClient(t, action, client) ==
  IF action \in DOMAIN t.grabber /\ t.grabber[action] = client /\ MetaUngrabs(t, action)
  THEN [t EXCEPT !.bound = Without(t.bound, action), !.grabber = Without(t.grabber, action)]
  ELSE t

-----------------------------------------------------------------------------
(* The calls. A list of keys or of ids has two entries here: a longer one  *)
(* takes the same step once more for each. A failed entry stops nothing.   *)

\* The bus delivers in order: after the notice that a client has gone there are
\* no more calls of it.
MayCall(client) == presence[client] # "noticed"

GrabAccelerator(c, key) ==
  /\ MayCall(c)
  /\ SetTables(GrabForClient(Tables, key, c))
  /\ UNCHANGED presence

GrabAccelerators(c, key1, key2) ==
  /\ MayCall(c)
  /\ SetTables(GrabForClient(GrabForClient(Tables, key1, c), key2, c))
  /\ UNCHANGED presence

\* Any id may be sent, granted or not.
UngrabAccelerator(c, action) ==
  /\ MayCall(c)
  /\ SetTables(UngrabForClient(Tables, action, c))
  /\ UNCHANGED presence

UngrabAccelerators(c, action1, action2) ==
  /\ MayCall(c)
  /\ SetTables(UngrabForClient(UngrabForClient(Tables, action1, c), action2, c))
  /\ UNCHANGED presence

ClientLeaves(c) ==
  /\ presence[c] = "connected"
  /\ presence' = [presence EXCEPT ![c] = "left"]
  /\ UNCHANGED <<bound, lastAction, grabber, watched>>

\* The loop over the grabs only logs: mutter keeps them.
OnClientVanished(c) ==
  /\ c \in watched /\ presence[c] = "left"
  /\ presence' = [presence EXCEPT ![c] = "noticed"]
  /\ watched' = watched \ {c}
  /\ UNCHANGED <<bound, lastAction, grabber>>

AccelNext ==
  \E c \in Clients :
    \/ \E key \in Keys : GrabAccelerator(c, key)
    \/ \E key1, key2 \in Keys : GrabAccelerators(c, key1, key2)
    \/ \E a \in ActionIds : UngrabAccelerator(c, a)
    \/ \E a1, a2 \in ActionIds : UngrabAccelerators(c, a1, a2)
    \/ ClientLeaves(c)
    \/ OnClientVanished(c)
=============================================================================
