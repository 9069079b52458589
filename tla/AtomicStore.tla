---------------------------- MODULE AtomicStore ----------------------------
(***************************************************************************)
(* What a SessionStore promises: one session at a time, replaced as a      *)
(* whole by Save and read as a whole by Load; a crash loses no saved       *)
(* session.  FileSessionStore (module SessionFile) implements it.          *)
(***************************************************************************)
CONSTANTS
  Sessions,   \* the sessions that are saved
  Loaders,    \* goroutines that load
  Nothing,    \* no session
  Failed      \* a Load that found out nothing

VARIABLES
  value,      \* the session in the store, or Nothing
  last        \* last[l]: what l's last Load found

vars == <<value, last>>

Init ==
  /\ value = Nothing
  /\ last = [l \in Loaders |-> Nothing]

Save(s) ==
  /\ value' = s
  /\ UNCHANGED last

Load(l) ==
  /\ last' = [last EXCEPT ![l] = value]
  /\ UNCHANGED value

LoadFails(l) ==
  /\ last' = [last EXCEPT ![l] = Failed]
  /\ UNCHANGED value

Crash(gone) ==
  /\ last' = [l \in Loaders |-> IF l \in gone THEN Nothing ELSE last[l]]
  /\ UNCHANGED value

Next ==
  \/ \E s \in Sessions : Save(s)
  \/ \E l \in Loaders : Load(l) \/ LoadFails(l)
  \/ \E gone \in SUBSET Loaders : Crash(gone)

Spec == Init /\ [][Next]_vars

=============================================================================
