---------------------------- MODULE Repositories ----------------------------
(***************************************************************************)
(* The two implementations of repository.AvatarRepository side by side:    *)
(* the table of Postgres, in which Delete only marks a row, and the map    *)
(* that env "test" gets instead.  Every operation is applied to both.      *)
(*                                                                         *)
(* An avatar is named by the order of creation, which is also the order    *)
(* of created_at.                                                          *)
(***************************************************************************)
EXTENDS Naturals, FiniteSets

CONSTANTS MaxUploads,  \* bound on the avatars made
          Users        \* the users

ASSUME UploadsAssumption == MaxUploads \in Nat

Ids == 1..MaxUploads

VARIABLES
  rows,   \* the table: the row of each avatar, or NoRow
  map     \* the map: a function of the avatars it holds

repoVars == <<rows, map>>

(* domain.Avatar, as far as an answer tells: url is whether OriginalURL is *)
(* that of a file or empty.                                                *)
Entity == [owner: Users, status: {"ready", "failed"}, url: BOOLEAN]

NoRow == [status |-> "none"]

RepositoriesTypeOK ==
  /\ rows \in [Ids -> [avatar: Entity, deleted: BOOLEAN] \cup {NoRow}]
  /\ DOMAIN map \subseteq Ids
  /\ \A i \in DOMAIN map : map[i] \in Entity

RepositoriesInit == /\ rows = [i \in Ids |-> NoRow]
                    /\ map = [i \in {} |-> NoRow]

-----------------------------------------------------------------------------

(* Mutant: statements without "deleted_at IS NULL".                        *)
ListedDeleted == {i \in Ids : rows[i] # NoRow}

(* The rows GetByID and GetByUserID select, and Delete marks.              *)
Listed == {i \in Ids : rows[i] # NoRow /\ ~rows[i].deleted}

Selected == [i \in Listed |-> rows[i].avatar]

(* What a repository answers from.                                         *)
Held(repo) == IF repo = "postgres" THEN Selected ELSE map

(* The INSERT goes wrong if content_type has more than 100 characters, or  *)
(* if the call fails ("error"); "lost" is an error after it was applied.   *)
Inserted(fits, db) == fits /\ db # "error"

Create(i, avatar, fits, db) ==
  /\ rows' = IF Inserted(fits, db)
             THEN [rows EXCEPT ![i] = [avatar |-> avatar, deleted |-> FALSE]] ELSE rows
  /\ map' = [j \in DOMAIN map \cup {i} |-> IF j = i THEN avatar ELSE map[j]]

(* Mutant: Delete of the map returns without a delete.                     *)
DeleteKept(i, by, db) ==
  /\ rows' = IF "postgres" \in by /\ i \in Listed /\ db # "error"
             THEN [rows EXCEPT ![i].deleted = TRUE] ELSE rows
  /\ UNCHANGED map

(* Delete, called by the services over the repositories of a set.  Both    *)
(* say ErrNotFound of what is not there.                                   *)
Delete(i, by, db) ==
  /\ rows' = IF "postgres" \in by /\ i \in Listed /\ db # "error"
             THEN [rows EXCEPT ![i].deleted = TRUE] ELSE rows
  /\ map' = IF "memory" \in by THEN [j \in DOMAIN map \ {i} |-> map[j]] ELSE map

=============================================================================
