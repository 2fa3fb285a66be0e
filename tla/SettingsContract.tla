--------------------------- MODULE SettingsContract ---------------------------
(***************************************************************************)
(* What the settings pages keep, for an administrator who uses them one at *)
(* a time: a request changes the settings from what they are, in one step. *)
(* While it is saved nobody can read them, and a save that does not end    *)
(* well loses them, the old and the new ones.  Lost settings stay lost.    *)
(* ConfigStore implements it as long as no two handlers run at the same    *)
(* time.                                                                   *)
(***************************************************************************)
EXTENDS Settings

VARIABLES
  settings, \* {root}, or {} once they are lost
  saving,   \* they are being saved
  login     \* the password hash the last login was compared with

Init ==
  /\ \E root \in settings : root \in Root /\ settings = {root}
  /\ saving = FALSE
  /\ login = NoPassword

Change ==
  /\ ~saving /\ saving' = TRUE
  /\ \E root \in settings : \E req \in Requests(root, {}) :
       ~Refused(req, root) /\ settings' = {Effect(req, root)}
  /\ UNCHANGED login

Saved ==
  /\ saving /\ saving' = FALSE
  /\ UNCHANGED <<settings, login>>

Lost ==
  /\ saving /\ saving' = FALSE
  /\ settings' = {}
  /\ UNCHANGED login

Login ==
  /\ \/ \E root \in settings : ~saving /\ login' = root.password
     \/ (saving \/ settings = {}) /\ login' = NoPassword
  /\ UNCHANGED <<settings, saving>>

Next == Change \/ Saved \/ Lost \/ Login

Spec == Init /\ [][Next]_<<settings, saving, login>>

=============================================================================
