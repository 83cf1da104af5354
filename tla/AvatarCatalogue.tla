--------------------------- MODULE AvatarCatalogue ---------------------------
(***************************************************************************)
(* What the service promises of its avatars, without requests, processes,  *)
(* messages or failures.  A file is stored before its avatar is listed; an *)
(* avatar is listed once, under one owner, as a picture that can be served *)
(* or as a failed upload, and that never changes; a listed avatar may be   *)
(* removed, for good; no file is ever touched again.                       *)
(***************************************************************************)
CONSTANTS Ids, Users

VARIABLES entry,  \* what is known of each avatar
          files   \* the avatars whose file is stored

vars == <<entry, files>>

Unlisted == [state |-> "unlisted"]

Listed == [state: {"ready", "failed"}, owner: Users, removed: BOOLEAN]

Init == entry = [i \in Ids |-> Unlisted] /\ files = {}

Store(i) ==
  /\ entry[i] = Unlisted
  /\ files' = files \cup {i}
  /\ UNCHANGED entry

List(i, u, state) ==
  /\ entry[i] = Unlisted
  /\ state = "ready" => i \in files
  /\ entry' = [entry EXCEPT ![i] = [state |-> state, owner |-> u, removed |-> FALSE]]
  /\ UNCHANGED files

Remove(i) ==
  /\ entry[i] # Unlisted
  /\ ~entry[i].removed
  /\ entry' = [entry EXCEPT ![i].removed = TRUE]
  /\ UNCHANGED files

Next == \E i \in Ids : \/ Store(i)
                       \/ \E u \in Users, s \in {"ready", "failed"} : List(i, u, s)
                       \/ Remove(i)

Spec == Init /\ [][Next]_vars

=============================================================================
