------------------------------- MODULE Gallery -------------------------------
(***************************************************************************)
(* What the clients of the API may rely on, without headers, publishers    *)
(* and repositories: a collection of avatars that is told from its answers.*)
(* 201 adds an avatar that is ready; it never changes; 204 removes it for  *)
(* good.  What is shown is there, and the list of a user shows all of it.  *)
(***************************************************************************)
CONSTANTS Ids,      \* the names of avatars
          Subjects  \* those who may have avatars

VARIABLES held,   \* the avatars there are, by name
          used,   \* the names that were given
          code,   \* the code of the last answer
          shows   \* the avatars the last answer shows

vars == <<held, used, code, shows>>

Init == DOMAIN held = {} /\ used = {} /\ code = 200 /\ shows = {}

(* From now on there are the avatars of S, and the old ones are as before. *)
Becomes(S) == /\ DOMAIN held' = S
              /\ \A i \in S \cap DOMAIN held : held'[i] = held[i]

Accept(i) ==
  /\ i \notin used
  /\ code' = 201 /\ shows' = {i}
  /\ used' = used \cup {i}
  /\ Becomes(DOMAIN held \cup {i})
  /\ held'[i].status = "ready" /\ held'[i].url

(* An upload that goes wrong has used a name up, and may have left an      *)
(* avatar behind.                                                          *)
Spoil(i) ==
  /\ i \notin used
  /\ code' \in {400, 500} /\ shows' = {}
  /\ used' = used \cup {i}
  /\ Becomes(DOMAIN held) \/ Becomes(DOMAIN held \cup {i})

(* A removal whose confirmation is lost is answered 500.                   *)
Remove(i) ==
  /\ i \in DOMAIN held
  /\ code' \in {204, 500} /\ shows' = {}
  /\ Becomes(DOMAIN held \ {i})
  /\ UNCHANGED used

Show(i) ==
  /\ i \in DOMAIN held
  /\ code' \in {200, 307} /\ shows' = {i}
  /\ UNCHANGED <<held, used>>

List(u) ==
  /\ code' = 200 /\ shows' = {i \in DOMAIN held : held[i].owner = u}
  /\ UNCHANGED <<held, used>>

(* Nothing to show, or nothing the client may see or do.                   *)
TurnAway ==
  /\ code' \in {307, 400, 401, 403, 404, 429, 500} /\ shows' = {}
  /\ UNCHANGED <<held, used>>

Next == \/ TurnAway
        \/ \E i \in Ids : Accept(i) \/ Spoil(i) \/ Remove(i) \/ Show(i)
        \/ \E u \in Subjects : List(u)

Spec == Init /\ [][Next]_vars

=============================================================================
