----------------------------- MODULE Processing -----------------------------
(***************************************************************************)
(* What the workers together are for, without messages, channels and       *)
(* crashes: every avatar that is asked for gets its thumbnails and then    *)
(* its status, and is asked for until it has them or is deleted.           *)
(***************************************************************************)
CONSTANTS Ids,    \* the avatars
          Sizes   \* the sizes of the thumbnails

VARIABLES table,     \* their rows
          pictures,  \* the thumbnails there are
          work       \* the avatars that are asked for

vars == <<table, pictures, work>>

Complete(i) == table[i].kind = "picture" => {i} \X Sizes \subseteq pictures

Done(i) == table[i].deleted \/ table[i].status = "ready"

Init == /\ work = Ids
        /\ \A i \in Ids : table[i].status = "ready" => Complete(i)

Make(i, s) ==
  /\ table[i].kind = "picture"
  /\ pictures' = pictures \cup {<<i, s>>}
  /\ UNCHANGED <<table, work>>

(* The status is all that changes of a row, be it deleted meanwhile.  Of a *)
(* file that cannot be decoded it never becomes ready.                     *)
Finish(i) ==
  /\ table[i].kind # "opaque"
  /\ Complete(i)
  /\ table' = [table EXCEPT ![i].status = "ready"]
  /\ work' = work \/ work' = work \ {i}
  /\ UNCHANGED pictures

Settle(i) ==
  /\ Done(i)
  /\ work' = work \ {i}
  /\ UNCHANGED <<table, pictures>>

Remove(i) ==
  /\ ~table[i].deleted
  /\ table' = [table EXCEPT ![i].deleted = TRUE]
  /\ UNCHANGED <<pictures, work>>

Next == \E i \in Ids : \/ \E s \in Sizes : Make(i, s)
                       \/ Finish(i) \/ Settle(i) \/ Remove(i)

Spec == Init /\ [][Next]_vars

=============================================================================
