-------------------------- MODULE AvatarApiProofs --------------------------
(***************************************************************************)
(* Theorems about AvatarApi, for any users, any number of uploads and any  *)
(* number of calls that fail.                                              *)
(***************************************************************************)
EXTENDS AvatarApi, WellFoundedInduction, TLAPS

(* No avatar has a row, or a place in the map, before it is made.          *)
Unmade == \A i \in Ids : i > made => rows[i] = NoRow /\ i \notin DOMAIN map

MapIsFunction == map = [i \in DOMAIN map |-> map[i]]

(* While the repositories are told the same they hold the same.            *)
Mirrored == faithful => Selected = map

(* What a user uploaded last comes first among what is listed.             *)
FreshFirst ==
  \A u \in Users : fresh[u] # 0 =>
    /\ fresh[u] \in OfUser(Selected, u) /\ Selected[fresh[u]].url
    /\ \A j \in OfUser(Selected, u) : j <= fresh[u]

(* The answers of the two repositories agree (see SameAnswers).            *)
Agree(a, o) ==
  a["postgres"].code # 500 =>
    /\ a["postgres"].code = a["memory"].code
    /\ o # "user" => a["postgres"] = a["memory"]
    /\ (a["postgres"].to = "default") <=> (a["memory"].to = "default")

StoresInv == Unmade /\ MapIsFunction /\ Mirrored /\ FreshFirst

-----------------------------------------------------------------------------
(* What the operators make of well-typed arguments.                        *)

LEMMA PlainType ==
  ASSUME NEW code \in {200, 201, 204, 307, 400, 401, 403, 404, 429, 500}
  PROVE  Plain(code) \in Answer
BY DEF Plain, Answer

LEMMA PlainCode ==
  ASSUME NEW code
  PROVE  Plain(code).code = code /\ Plain(code).shows = {}
BY DEF Plain

LEMMA CalledKeeps ==
  ASSUME mishaps \in 0..MaxMishaps, NEW out, Called(out)
  PROVE  mishaps' \in 0..MaxMishaps /\ mishaps <= mishaps' /\ (out # "ok" => mishaps' > 0)
         /\ (mishaps' = mishaps => out = "ok")
BY MishapsAssumption DEF Called

LEMMA HeldType ==
  ASSUME RepositoriesTypeOK, NEW r \in Repos
  PROVE  /\ DOMAIN Held(r) \subseteq Ids
         /\ \A i \in DOMAIN Held(r) : Held(r)[i] \in Entity
<1>1. CASE r = "postgres"
  <2>1. \A i \in Ids : rows[i] # NoRow => rows[i].avatar \in Entity
    BY DEF RepositoriesTypeOK
  <2>2. \A i \in Listed : i \in Ids /\ rows[i] # NoRow  BY DEF Listed
  <2> QED  BY <1>1, <2>1, <2>2 DEF Held, Selected
<1>2. CASE r = "memory"  BY <1>2 DEF Held, RepositoriesTypeOK
<1> QED  BY <1>1, <1>2 DEF Repos

LEMMA UserAnswersType ==
  ASSUME RepositoriesTypeOK, NEW r \in Repos, NEW u, NEW a \in UserAnswers(r, u)
  PROVE  a \in Answer /\ a.code \in {307, 400}
<1>1. First(r, u) \subseteq Ids  BY HeldType DEF First, OfUser
<1>2. \A i : Location(Held(r), i) \in {"file", "empty"}  BY DEF Location
<1>3. Plain(400) \in Answer  BY PlainType
<1>4. [code |-> 307, to |-> "default", shows |-> {}] \in Answer  BY DEF Answer
<1>5. \A i \in First(r, u) :
        [code |-> 307, to |-> Location(Held(r), i), shows |-> {i}] \in Answer
  BY <1>1, <1>2, ZenonT(60) DEF Answer
<1>6. \/ a = Plain(400) \/ a = [code |-> 307, to |-> "default", shows |-> {}]
      \/ \E i \in First(r, u) :
           a = [code |-> 307, to |-> Location(Held(r), i), shows |-> {i}]
  BY DEF UserAnswers
<1>7. CASE a = Plain(400)  BY <1>3, <1>7 DEF Plain
<1>8. CASE a = [code |-> 307, to |-> "default", shows |-> {}]  BY <1>4, <1>8
<1>9. CASE \E i \in First(r, u) :
             a = [code |-> 307, to |-> Location(Held(r), i), shows |-> {i}]
  BY <1>5, <1>9
<1> QED  BY <1>6, <1>7, <1>8, <1>9

-----------------------------------------------------------------------------
(* The requests that store nothing: what they answer, and what they leave. *)

LEMMA NothingStoredKeeps ==
  ASSUME StoresInv, NothingStored
  PROVE  StoresInv'
BY DEF NothingStored, repoVars, StoresInv, Unmade, MapIsFunction, Mirrored, FreshFirst, Selected,
       Listed, OfUser

LEMMA NothingStoredType ==
  ASSUME RepositoriesTypeOK, NothingStored
  PROVE  RepositoriesTypeOK'
BY DEF NothingStored, repoVars, RepositoriesTypeOK

-----------------------------------------------------------------------------
(* What the operations of the table do to what it lists.                   *)

(* An INSERT that is applied adds one avatar, and changes no other.        *)
LEMMA CreateSelected ==
  ASSUME RepositoriesTypeOK, NEW i \in Ids, rows[i] = NoRow, NEW avatar \in Entity,
         NEW fits, NEW db, Create(i, avatar, fits, db)
  PROVE  Selected' = IF Inserted(fits, db)
                     THEN [j \in Listed \cup {i} |-> IF j = i THEN avatar ELSE Selected[j]]
                     ELSE Selected
<1> DEFINE kept == Inserted(fits, db)
<1>1. rows' = IF kept THEN [rows EXCEPT ![i] = [avatar |-> avatar, deleted |-> FALSE]] ELSE rows
  BY DEF Create
<1>2. rows \in [Ids -> [avatar: Entity, deleted: BOOLEAN] \cup {NoRow}]
  BY DEF RepositoriesTypeOK
<1>3. [avatar |-> avatar, deleted |-> FALSE] # NoRow  BY DEF NoRow
<1> HIDE DEF kept
<1>4. CASE kept
  <2>1. rows'[i] = [avatar |-> avatar, deleted |-> FALSE] /\ \A j \in Ids : j # i => rows'[j] = rows[j]
    BY <1>1, <1>2, <1>4
  <2>2. rows'[i].avatar = avatar /\ ~rows'[i].deleted  BY <2>1
  <2>3. Listed' = Listed \cup {i}  BY <1>3, <2>1, <2>2 DEF Listed
  <2>4. \A j \in Listed : j # i /\ rows'[j] = rows[j]  BY <2>1 DEF Listed
  <2>5. Selected' = [j \in Listed \cup {i} |-> IF j = i THEN avatar ELSE Selected[j]]
    BY <2>2, <2>3, <2>4 DEF Selected
  <2> QED  BY <1>4, <2>5 DEF kept
<1>5. CASE ~kept
  <2>1. rows' = rows  BY <1>1, <1>5
  <2> QED  BY <1>5, <2>1 DEF kept, Selected, Listed
<1> QED  BY <1>4, <1>5

(* An UPDATE that is applied takes one avatar away, and changes no other.  *)
LEMMA DeleteSelected ==
  ASSUME RepositoriesTypeOK, NEW i \in PathId, NEW by, NEW db, Delete(i, by, db)
  PROVE  LET gone == "postgres" \in by /\ i \in Listed /\ db # "error"
         IN  /\ gone => Selected' = [j \in Listed \ {i} |-> Selected[j]]
             /\ ~gone => Selected' = Selected
<1> DEFINE gone == "postgres" \in by /\ i \in Listed /\ db # "error"
<1>1. rows' = IF gone THEN [rows EXCEPT ![i].deleted = TRUE] ELSE rows
  BY DEF Delete
<1>2. rows \in [Ids -> [avatar: Entity, deleted: BOOLEAN] \cup {NoRow}]
  BY DEF RepositoriesTypeOK
<1>3. gone => i \in Ids /\ rows[i] # NoRow  BY DEF Listed
<1> HIDE DEF gone
<1>4. CASE gone
  <2>1. rows[i] \in [avatar: Entity, deleted: BOOLEAN]  BY <1>2, <1>3, <1>4
  <2>2. rows'[i] = [rows[i] EXCEPT !.deleted = TRUE] /\ \A j \in Ids : j # i => rows'[j] = rows[j]
    BY <1>1, <1>2, <1>3, <1>4
  <2>3. rows'[i].deleted  BY <2>1, <2>2
  <2>4. Listed' = Listed \ {i}  BY <2>2, <2>3 DEF Listed
  <2>5. \A j \in Listed \ {i} : rows'[j] = rows[j]  BY <2>2 DEF Listed
  <2>6. Selected' = [j \in Listed \ {i} |-> Selected[j]]  BY <2>4, <2>5 DEF Selected
  <2> QED  BY <1>4, <2>6 DEF gone
<1>5. CASE ~gone
  <2>1. rows' = rows  BY <1>1, <1>5
  <2> QED  BY <1>5, <2>1 DEF gone, Selected, Listed
<1> QED  BY <1>4, <1>5

-----------------------------------------------------------------------------
(* What the steps do to the stores.                                        *)

(* An upload that gets to the service adds its row and its entry to the    *)
(* map, or one of them, or none.                                           *)
LEMMA UploadStores ==
  ASSUME TypeOK, StoresInv, NEW u \in Users, NEW f \in Form, NEW s \in Outcomes, NEW d \in Outcomes,
         Upload(u, f, s, d)
  PROVE  RepositoriesTypeOK' /\ made' \in 0..MaxUploads /\ StoresInv'
<1> DEFINE i      == made + 1
           saved  == s = "ok"
           avatar == [owner |-> u, status |-> IF saved THEN "ready" ELSE "failed", url |-> saved]
           fits   == f.type = "short"
           kept   == Inserted(fits, d)
           full   == saved /\ fits /\ d = "ok"
<1>1. /\ i \in Ids /\ made' = i /\ made \in Nat /\ made' \in 0..MaxUploads
      /\ rows[i] = NoRow /\ i \notin DOMAIN map
  BY UploadsAssumption DEF Upload, TypeOK, Ids, StoresInv, Unmade
<1>2. avatar \in Entity  BY DEF Entity
<1>0. Create(i, avatar, fits, d)  BY DEF Upload
<1>3. /\ rows' = IF kept THEN [rows EXCEPT ![i] = [avatar |-> avatar, deleted |-> FALSE]] ELSE rows
      /\ map' = [j \in DOMAIN map \cup {i} |-> IF j = i THEN avatar ELSE map[j]]
      /\ faithful' = (faithful /\ fits /\ d = "ok")
      /\ fresh' = IF full /\ publisher = "open" THEN [fresh EXCEPT ![u] = i]
                  ELSE IF kept THEN [fresh EXCEPT ![u] = 0] ELSE fresh
  <2>1. /\ Create(i, avatar, fits, d)
        /\ faithful' = (faithful /\ fits /\ d = "ok")
        /\ fresh' = IF full /\ publisher = "open" THEN [fresh EXCEPT ![u] = i]
                    ELSE IF kept THEN [fresh EXCEPT ![u] = 0] ELSE fresh
    BY DEF Upload, Repos
  <2> QED  BY <2>1 DEF Create
<1>4. full => kept /\ avatar.url  BY DEF Inserted
<1>5. avatar.owner = u  OBVIOUS
<1>6. fits /\ d = "ok" => kept  BY DEF Inserted
<1> HIDE DEF avatar, kept, full, i, fits
<1>7. rows \in [Ids -> [avatar: Entity, deleted: BOOLEAN] \cup {NoRow}]
  BY DEF TypeOK, RepositoriesTypeOK
<1>8. kept => [avatar |-> avatar, deleted |-> FALSE] # NoRow
  BY DEF NoRow
<1>9. RepositoriesTypeOK'
  <2>1. rows' \in [Ids -> [avatar: Entity, deleted: BOOLEAN] \cup {NoRow}]
    BY <1>1, <1>2, <1>3, <1>7
  <2>2. DOMAIN map' \subseteq Ids /\ \A j \in DOMAIN map' : map'[j] \in Entity
    BY <1>1, <1>2, <1>3 DEF TypeOK, RepositoriesTypeOK
  <2> QED  BY <2>1, <2>2 DEF RepositoriesTypeOK
<1>10. Unmade'
  <2>1. \A j \in Ids : j > i => rows'[j] = rows[j] /\ (j \in DOMAIN map' => j \in DOMAIN map)
    BY <1>1, <1>3, <1>7 DEF Ids
  <2>2. \A j \in Ids : j > i => j > made  BY <1>1 DEF Ids, i
  <2> QED  BY <1>1, <2>1, <2>2 DEF StoresInv, Unmade
<1>11. MapIsFunction'
  BY <1>3 DEF MapIsFunction
<1>12. Selected' = IF kept THEN [j \in Listed \cup {i} |-> IF j = i THEN avatar ELSE Selected[j]]
                   ELSE Selected
  BY <1>0, <1>1, <1>2, CreateSelected DEF TypeOK, kept
<1>13. Mirrored'
  <2> SUFFICES ASSUME faithful'  PROVE Selected' = map'  BY DEF Mirrored
  <2>1. Selected = map /\ kept  BY <1>3, <1>6 DEF StoresInv, Mirrored
  <2>2. DOMAIN map = Listed  BY <2>1 DEF Selected
  <2> QED  BY <1>3, <1>12, <2>1, <2>2
<1>14. FreshFirst'
  <2> SUFFICES ASSUME NEW v \in Users, fresh'[v] # 0
               PROVE  /\ fresh'[v] \in OfUser(Selected', v) /\ Selected'[fresh'[v]].url
                      /\ \A j \in OfUser(Selected', v) : j <= fresh'[v]
    BY DEF FreshFirst
  <2>1. /\ fresh \in [Users -> Ids \cup {0}] /\ DOMAIN Selected = Listed
        /\ \A j \in Listed : j \in Ids /\ j # i
    BY <1>1 DEF TypeOK, Selected, Listed
  <2>2. CASE ~kept  BY <1>3, <1>4, <1>12, <2>2 DEF StoresInv, FreshFirst
  <2>3. CASE kept
    <3>1. /\ DOMAIN Selected' = Listed \cup {i} /\ Selected'[i] = avatar
          /\ \A j \in Listed : Selected'[j] = Selected[j]
      BY <1>12, <2>1, <2>3
    <3>2. CASE v = u
      <4>1. full /\ fresh'[v] = i  BY <1>3, <2>1, <2>3, <3>2
      <4>2. \A j \in Listed : j <= i
        BY <1>1 DEF StoresInv, Unmade, Listed, i, Ids
      <4>3. i <= i  BY <1>1 DEF Ids
      <4> QED  BY <1>4, <1>5, <3>1, <3>2, <4>1, <4>2, <4>3 DEF OfUser
    <3>3. CASE v # u
      <4>1. fresh'[v] = fresh[v]  BY <1>3, <2>1, <3>3
      <4>2. OfUser(Selected', v) = OfUser(Selected, v)
        BY <1>5, <2>1, <3>1, <3>3 DEF OfUser
      <4>3. fresh[v] \in OfUser(Selected, v)  BY <4>1 DEF StoresInv, FreshFirst
      <4>4. Selected'[fresh[v]] = Selected[fresh[v]]  BY <2>1, <3>1, <4>3 DEF OfUser
      <4> QED  BY <4>1, <4>2, <4>3, <4>4 DEF StoresInv, FreshFirst
    <3> QED  BY <3>2, <3>3
  <2> QED  BY <2>2, <2>3
<1> QED  BY <1>1, <1>9, <1>10, <1>11, <1>13, <1>14 DEF StoresInv

(* A deletion takes an avatar from both, from one, or from none.           *)
LEMMA DeleteStores ==
  ASSUME TypeOK, StoresInv, NEW h \in Header, NEW i \in PathId, NEW u, NEW fault \in Faults,
         DeleteAvatar(h, i, u, fault)
  PROVE  RepositoriesTypeOK' /\ StoresInv'
<1> DEFINE check == [r \in Repos |-> DeleteCheck(Held(r), h, i, u)]
           by    == DeletingBy(check, fault)
           gone  == "postgres" \in by /\ i \in Listed /\ fault # "error"
<1>1. \A r \in by : i \in DOMAIN Held(r)
  BY DEF DeletingBy, DeleteCheck
<1>2. /\ by = {} => UNCHANGED repoVars
      /\ by # {} => Delete(i, by, fault)
      /\ fresh' = [v \in Users |->
           IF fresh[v] = i /\ "postgres" \in by /\ fault # "error" THEN 0 ELSE fresh[v]]
      /\ faithful' = (faithful /\ fault = "ok")
      /\ made' = made
  BY DEF DeleteAvatar
<1>3. Selected = map /\ fault = "ok" => by = {} \/ by = Repos
  <2> SUFFICES ASSUME Selected = map, fault = "ok"  PROVE by = {} \/ by = Repos  OBVIOUS
  <2>1. \A r \in Repos : Held(r) = map  BY DEF Held
  <2>2. \A r \in Repos : check[r] = DeleteCheck(map, h, i, u)  BY <2>1
  <2> HIDE DEF check
  <2> QED  BY <2>2 DEF DeletingBy, Repos
<1>4. "postgres" \in by => i \in Listed
  BY <1>1 DEF Held, Selected
<1> HIDE DEF by
<1>5. rows \in [Ids -> [avatar: Entity, deleted: BOOLEAN] \cup {NoRow}]
  BY DEF TypeOK, RepositoriesTypeOK
<1>6. rows' = IF gone THEN [rows EXCEPT ![i].deleted = TRUE] ELSE rows
  BY <1>2 DEF Delete, repoVars
<1>7. map' = IF "memory" \in by THEN [j \in DOMAIN map \ {i} |-> map[j]] ELSE map
  BY <1>2 DEF Delete, repoVars
<1>8. /\ \A j \in Ids : (gone => j # i) => rows'[j] = rows[j]
      /\ gone => /\ i \in Ids /\ rows[i] # NoRow /\ rows'[i] # NoRow /\ rows'[i].deleted
                 /\ rows'[i] \in [avatar: Entity, deleted: BOOLEAN]
  <2>1. CASE ~gone  BY <1>6, <2>1
  <2>2. CASE gone
    <3>1. i \in Ids /\ rows[i] # NoRow  BY <2>2 DEF Listed
    <3>2. rows[i] \in [avatar: Entity, deleted: BOOLEAN]  BY <1>5, <3>1
    <3>3. rows'[i] = [rows[i] EXCEPT !.deleted = TRUE]  BY <1>5, <1>6, <2>2, <3>1
    <3>4. rows'[i] \in [avatar: Entity, deleted: BOOLEAN] /\ rows'[i].deleted
      BY <3>2, <3>3
    <3>5. rows'[i] # NoRow  BY <3>4 DEF NoRow
    <3> QED  BY <1>5, <1>6, <2>2, <3>1, <3>4, <3>5
  <2> QED  BY <2>1, <2>2
<1>9. RepositoriesTypeOK'
  <2>1. rows' \in [Ids -> [avatar: Entity, deleted: BOOLEAN] \cup {NoRow}]
    BY <1>5, <1>6, <1>8
  <2>2. DOMAIN map' \subseteq Ids /\ \A j \in DOMAIN map' : map'[j] \in Entity
    BY <1>7 DEF TypeOK, RepositoriesTypeOK
  <2> QED  BY <2>1, <2>2 DEF RepositoriesTypeOK
<1>10. Unmade'  BY <1>2, <1>7, <1>8 DEF StoresInv, Unmade
<1>11. MapIsFunction'  BY <1>7 DEF MapIsFunction, StoresInv
<1>12. Selected' = IF gone THEN [j \in Listed \ {i} |-> Selected[j]] ELSE Selected
  <2>1. CASE by = {}
    <3>1. rows' = rows /\ ~gone  BY <1>2, <2>1 DEF repoVars
    <3> QED  BY <3>1 DEF Selected, Listed
  <2>2. CASE by # {}
    <3>1. Delete(i, by, fault) /\ RepositoriesTypeOK  BY <1>2, <2>2 DEF TypeOK
    <3>2. ASSUME NEW b, Delete(i, b, fault)
          PROVE  LET g == "postgres" \in b /\ i \in Listed /\ fault # "error"
                 IN  /\ g => Selected' = [j \in Listed \ {i} |-> Selected[j]]
                     /\ ~g => Selected' = Selected
      BY <3>1, <3>2, DeleteSelected
    <3> QED  BY <3>1, <3>2
  <2> QED  BY <2>1, <2>2
<1>13. Mirrored'
  <2> SUFFICES ASSUME faithful'  PROVE Selected' = map'  BY DEF Mirrored
  <2>1. Selected = map /\ fault = "ok"  BY <1>2 DEF StoresInv, Mirrored
  <2>2. CASE by = {}  BY <1>7, <1>12, <2>1, <2>2
  <2>3. CASE by = Repos
    <3>1. gone /\ "memory" \in by  BY <1>4, <2>1, <2>3 DEF Repos
    <3>2. DOMAIN map = Listed  BY <2>1 DEF Selected
    <3> QED  BY <1>7, <1>12, <2>1, <3>1, <3>2
  <2> QED  BY <1>3, <2>1, <2>2, <2>3
<1>14. FreshFirst'
  <2> SUFFICES ASSUME NEW v \in Users, fresh'[v] # 0
               PROVE  /\ fresh'[v] \in OfUser(Selected', v) /\ Selected'[fresh'[v]].url
                      /\ \A j \in OfUser(Selected', v) : j <= fresh'[v]
    BY DEF FreshFirst
  <2>1. fresh'[v] = fresh[v] /\ (gone => fresh[v] # i)  BY <1>2
  <2>2. /\ fresh[v] \in OfUser(Selected, v) /\ Selected[fresh[v]].url
        /\ \A j \in OfUser(Selected, v) : j <= fresh[v]
    BY <2>1 DEF StoresInv, FreshFirst
  <2>3. CASE gone
    <3>1. /\ DOMAIN Selected = Listed /\ DOMAIN Selected' = Listed \ {i}
          /\ \A j \in Listed \ {i} : Selected'[j] = Selected[j]
      BY <1>12, <2>3 DEF Selected
    <3> QED  BY <2>1, <2>2, <2>3, <3>1 DEF OfUser
  <2>4. CASE ~gone  BY <1>12, <2>1, <2>2, <2>4
  <2> QED  BY <2>3, <2>4
<1> QED  BY <1>9, <1>10, <1>11, <1>13, <1>14 DEF StoresInv

-----------------------------------------------------------------------------
(* What the steps answer.                                                  *)

Ops == {"none", "limited", "upload", "list", "get", "metadata", "delete", "user"}

AnswersOK ==
  /\ op \in Ops /\ answer \in [Repos -> Answer]
  /\ OnlyListedCodes
  /\ faithful => Agree(answer, op)

(* A set of natural numbers has a least one, and one of ids a greatest.    *)
LEMMA Least ==
  ASSUME NEW T, T \subseteq Nat, T # {}
  PROVE  \E x \in T : \A y \in T : x <= y
<1>1. PICK x \in T : \A y \in T : ~ (<<y, x>> \in OpToRel(<, Nat))
  BY NatLessThanWellFounded, WFMin
<1>2. \A y \in T : ~(y < x)
  BY <1>1 DEF OpToRel
<1> QED  BY <1>2

LEMMA Greatest ==
  ASSUME NEW S, S \subseteq Ids, S # {}
  PROVE  \E x \in S : \A y \in S : y <= x
<1> DEFINE T == {MaxUploads - y : y \in S}
<1>1. T \subseteq Nat /\ T # {}  BY UploadsAssumption DEF Ids
<1>2. PICK n \in T : \A m \in T : n <= m  BY <1>1, Least
<1>3. PICK x \in S : n = MaxUploads - x  BY <1>2
<1>4. ASSUME NEW y \in S  PROVE y <= x
  <2>1. MaxUploads - x <= MaxUploads - y  BY <1>2, <1>3
  <2>2. x \in Nat /\ y \in Nat /\ MaxUploads \in Nat  BY UploadsAssumption DEF Ids
  <2> QED  BY <2>1, <2>2
<1> QED  BY <1>4

(* An answer of the middleware, to both alike.                             *)
LEMMA BothAnswer ==
  ASSUME NEW code, NEW name, Respond(name, Both(Plain(code))),
         \/ name = "limited" /\ code = 429
         \/ name = "list" /\ code = 401
         \/ name = "upload" /\ code \in {400, 401}
         \/ name = "upload" /\ code = 500 /\ mishaps' > 0
  PROVE  AnswersOK'
<1>1. /\ op' = name /\ answer' = [r \in Repos |-> Plain(code)]
      /\ answer' \in [Repos -> Answer]
  BY PlainType DEF Respond, Both
<1>2. \A r \in Repos : answer'[r].code = code  BY <1>1 DEF Plain
<1>3. OnlyListedCodes'
  BY <1>1, <1>2 DEF OnlyListedCodes, Documented, UploadCodes, ListCodes
<1>4. Agree(answer', op')  BY <1>1 DEF Agree, Repos
<1> QED  BY <1>1, <1>3, <1>4 DEF AnswersOK, Ops

(* An answer of the GET requests, if it is a documented one and the        *)
(* repositories agree on it.                                               *)
LEMMA ReadAnswers ==
  ASSUME TypeOK, NEW name, NEW ans \in [Repos -> Answer], NEW db \in Outcomes, Read(name, ans, db),
         \A r \in Repos : \/ name = "list" /\ ans[r].code \in ListCodes
                          \/ name = "get" /\ ans[r].code \in GetCodes
                          \/ name = "metadata" /\ ans[r].code \in MetadataCodes
                          \/ name = "user" /\ ans[r].code \in UserCodes,
         faithful => Agree(ans, name)
  PROVE  AnswersOK'
<1>1. /\ op' = name /\ faithful' = faithful
      /\ answer' = [r \in Repos |-> IF r = "postgres" /\ db = "error" THEN Plain(500) ELSE ans[r]]
  BY DEF Read, Respond, NothingStored
<1>2. db = "error" => mishaps' > 0  BY CalledKeeps DEF Read, TypeOK
<1>3. answer' \in [Repos -> Answer]  BY <1>1, PlainType
<1>4. \A r \in Repos : answer'[r].code = ans[r].code \/ (answer'[r].code = 500 /\ mishaps' > 0)
  BY <1>1, <1>2 DEF Plain
<1>5. OnlyListedCodes'
  BY <1>1, <1>4
  DEF OnlyListedCodes, Documented, UserCodes, ListCodes, GetCodes, MetadataCodes, Repos
<1>6. faithful' => Agree(answer', op')
  <2>1. CASE db = "error"  BY <1>1, <2>1 DEF Agree, Plain, Repos
  <2>2. CASE db # "error"
    <3>1. answer'["postgres"] = ans["postgres"] /\ answer'["memory"] = ans["memory"]
      BY <1>1, <2>2 DEF Repos
    <3> QED  BY <1>1, <3>1 DEF Agree
  <2> QED  BY <2>1, <2>2
<1>7. name \in Ops  BY DEF Ops, Repos
<1> QED  BY <1>1, <1>3, <1>5, <1>6, <1>7 DEF AnswersOK

LEMMA GetAnswers ==
  ASSUME TypeOK, StoresInv, NEW i \in PathId, NEW original \in BOOLEAN, NEW db \in Outcomes,
         GetAvatar(i, original, db)
  PROVE  AnswersOK'
<1> DEFINE ans == [r \in Repos |-> GetAnswer(Held(r), i, original)]
<1>1. ASSUME NEW r \in Repos
      PROVE  GetAnswer(Held(r), i, original) \in Answer
             /\ GetAnswer(Held(r), i, original).code \in GetCodes
  <2>1. Plain(400) \in Answer /\ Plain(404) \in Answer  BY PlainType
  <2>2. i \in Ids \cup {0}  BY DEF PathId
  <2>3. Location(Held(r), i) \in {"file", "empty"}  BY DEF Location
  <2>4. CASE i = 0
    <3>1. GetAnswer(Held(r), i, original) = Plain(400)  BY <2>4 DEF GetAnswer
    <3> QED  BY <2>1, <3>1, PlainCode DEF GetCodes
  <2>5. CASE i # 0 /\ i \notin DOMAIN Held(r)
    <3>1. GetAnswer(Held(r), i, original) = Plain(404)  BY <2>5 DEF GetAnswer
    <3> QED  BY <2>1, <3>1, PlainCode DEF GetCodes
  <2>6. CASE i # 0 /\ i \in DOMAIN Held(r)
    <3> DEFINE a == [code |-> 307, to |-> IF original THEN Location(Held(r), i) ELSE "thumbnail",
                     shows |-> {i}]
    <3>1. a \in Answer /\ a.code = 307  BY <2>2, <2>3, <2>6 DEF Answer
    <3>2. GetAnswer(Held(r), i, original) = a  BY <2>6 DEF GetAnswer
    <3> QED  BY <3>1, <3>2 DEF GetCodes
  <2> QED  BY <2>4, <2>5, <2>6
<1>2. ans \in [Repos -> Answer] /\ \A r \in Repos : ans[r].code \in GetCodes  BY <1>1
<1>3. faithful => Agree(ans, "get")
  <2>1. faithful => Held("postgres") = Held("memory")  BY DEF StoresInv, Mirrored, Held
  <2>2. faithful => ans["postgres"] = ans["memory"]  BY <2>1 DEF Repos
  <2> QED  BY <2>2 DEF Agree
<1> HIDE DEF ans
<1>4. Read("get", ans, db)  BY DEF GetAvatar, ans
<1> QED  BY <1>2, <1>3, <1>4, ReadAnswers

LEMMA MetadataAnswers ==
  ASSUME TypeOK, StoresInv, NEW i \in PathId, NEW db \in Outcomes, GetAvatarMetadata(i, db)
  PROVE  AnswersOK'
<1> DEFINE ans == [r \in Repos |-> MetadataAnswer(Held(r), i)]
<1>1. ASSUME NEW r \in Repos
      PROVE  MetadataAnswer(Held(r), i) \in Answer
             /\ MetadataAnswer(Held(r), i).code \in MetadataCodes
  <2>1. Plain(400) \in Answer /\ Plain(404) \in Answer  BY PlainType
  <2>2. i \in Ids \cup {0}  BY DEF PathId
  <2>3. CASE i = 0
    <3>1. MetadataAnswer(Held(r), i) = Plain(400)  BY <2>3 DEF MetadataAnswer
    <3> QED  BY <2>1, <3>1, PlainCode DEF MetadataCodes
  <2>4. CASE i # 0 /\ i \notin DOMAIN Held(r)
    <3>1. MetadataAnswer(Held(r), i) = Plain(404)  BY <2>4 DEF MetadataAnswer
    <3> QED  BY <2>1, <3>1, PlainCode DEF MetadataCodes
  <2>5. CASE i # 0 /\ i \in DOMAIN Held(r)
    <3> DEFINE a == [code |-> 200, to |-> "", shows |-> {i}]
    <3>1. a \in Answer /\ a.code = 200  BY <2>2, <2>5 DEF Answer
    <3>2. MetadataAnswer(Held(r), i) = a  BY <2>5 DEF MetadataAnswer
    <3> HIDE DEF a
    <3> QED  BY <3>1, <3>2 DEF MetadataCodes
  <2> QED  BY <2>3, <2>4, <2>5
<1>2. ans \in [Repos -> Answer] /\ \A r \in Repos : ans[r].code \in MetadataCodes  BY <1>1
<1>3. faithful => Agree(ans, "metadata")
  <2>1. faithful => Held("postgres") = Held("memory")  BY DEF StoresInv, Mirrored, Held
  <2>2. faithful => ans["postgres"] = ans["memory"]  BY <2>1 DEF Repos
  <2> QED  BY <2>2 DEF Agree
<1> HIDE DEF ans
<1>4. Read("metadata", ans, db)  BY DEF GetAvatarMetadata, ans
<1> QED  BY <1>2, <1>3, <1>4, ReadAnswers

LEMMA ListAnswers ==
  ASSUME TypeOK, StoresInv, NEW h \in Header, NEW u, NEW db \in Outcomes,
         GetUserAvatars(h, u, db)
  PROVE  AnswersOK'
<1> DEFINE ans == [r \in Repos |-> ListAnswer(Held(r), u)]
<1>1. CASE Unauthorized(h)
  BY <1>1, BothAnswer DEF GetUserAvatars
<1>2. CASE ~Unauthorized(h)
  <2>1. ASSUME NEW r \in Repos
        PROVE  ListAnswer(Held(r), u) \in Answer /\ ListAnswer(Held(r), u).code \in ListCodes
    <3>1. CASE u \in {"missing", "notUuid"}
      <4>1. ListAnswer(Held(r), u) = Plain(400)  BY <3>1 DEF ListAnswer
      <4>2. Plain(400) \in Answer  BY PlainType
      <4> QED  BY <4>1, <4>2, PlainCode DEF ListCodes
    <3>2. CASE u \notin {"missing", "notUuid"}
      <4> DEFINE a == [code |-> 200, to |-> "", shows |-> OfUser(Held(r), u)]
      <4>1. a \in Answer /\ a.code = 200
        <5>1. RepositoriesTypeOK  BY DEF TypeOK
        <5>2. OfUser(Held(r), u) \subseteq Ids  BY <5>1, HeldType DEF OfUser
        <5> QED  BY <5>2 DEF Answer
      <4>2. ListAnswer(Held(r), u) = a  BY <3>2 DEF ListAnswer
      <4> HIDE DEF a
      <4> QED  BY <4>1, <4>2 DEF ListCodes
    <3> QED  BY <3>1, <3>2
  <2>2. ans \in [Repos -> Answer] /\ \A r \in Repos : ans[r].code \in ListCodes  BY <2>1
  <2>3. faithful => Agree(ans, "list")
    <3>1. faithful => Held("postgres") = Held("memory")  BY DEF StoresInv, Mirrored, Held
    <3>2. faithful => ans["postgres"] = ans["memory"]  BY <3>1 DEF Repos
    <3> QED  BY <3>2 DEF Agree
  <2> HIDE DEF ans
  <2>4. Read("list", ans, db)  BY <1>2 DEF GetUserAvatars, ans
  <2> QED  BY <2>2, <2>3, <2>4, ReadAnswers
<1> QED  BY <1>1, <1>2

LEMMA UserAvatarAnswers ==
  ASSUME TypeOK, StoresInv, NEW u, NEW db \in Outcomes, GetUserAvatar(u, db)
  PROVE  AnswersOK'
<1>0. RepositoriesTypeOK  BY DEF TypeOK
<1>1. PICK a \in [Repos -> UserAnswers("postgres", u) \cup UserAnswers("memory", u)] :
        (\A r \in Repos : a[r] \in UserAnswers(r, u)) /\ Read("user", a, db)
  BY DEF GetUserAvatar
<1>2. a \in [Repos -> Answer] /\ \A r \in Repos : a[r].code \in UserCodes
  BY <1>0, <1>1, UserAnswersType DEF UserCodes, Repos
<1>3. faithful => Agree(a, "user")
  <2> SUFFICES ASSUME faithful  PROVE Agree(a, "user")  OBVIOUS
  <2> DEFINE S == OfUser(Selected, u)
  <2>1. Selected = map  BY DEF StoresInv, Mirrored
  <2>2. S \subseteq Ids  BY DEF OfUser, Selected, Listed
  <2>3. First("memory", u) = S  BY <2>1 DEF First, Held
  <2>4. First("postgres", u) = {i \in S : \A j \in S : j <= i}  BY DEF First, Held
  <2> HIDE DEF S
  <2>5. First("postgres", u) = {} <=> S = {}
    <3>1. CASE S = {}  BY <2>4, <3>1
    <3>2. CASE S # {}
      <4>1. PICK x \in S : \A y \in S : y <= x  BY <2>2, <3>2, Greatest
      <4> QED  BY <2>4, <3>2, <4>1
    <3> QED  BY <3>1, <3>2
  <2>6. \A r \in Repos : \A i : Location(Held(r), i) # "default"  BY DEF Location
  <2>7. a["postgres"] \in UserAnswers("postgres", u) /\ a["memory"] \in UserAnswers("memory", u)
    BY <1>1 DEF Repos
  <2>8. CASE u = "notUuid"  BY <2>7, <2>8, ZenonT(60) DEF UserAnswers, Agree, Plain
  <2>9. CASE u # "notUuid" /\ S = {}  BY <2>3, <2>5, <2>7, <2>9 DEF UserAnswers, Agree
  <2>10. CASE u # "notUuid" /\ S # {}
    <3>1. \A r \in Repos : a[r].code = 307 /\ a[r].to # "default"
      <4> SUFFICES ASSUME NEW r \in Repos  PROVE a[r].code = 307 /\ a[r].to # "default"  OBVIOUS
      <4>1. First(r, u) # {}  BY <2>3, <2>5, <2>10 DEF Repos
      <4>2. PICK i \in First(r, u) :
              a[r] = [code |-> 307, to |-> Location(Held(r), i), shows |-> {i}]
        BY <1>1, <2>10, <4>1 DEF UserAnswers
      <4> QED  BY <2>6, <4>2
    <3> QED  BY <3>1 DEF Agree, Repos
  <2> QED  BY <2>8, <2>9, <2>10
<1> QED  BY <1>1, <1>2, <1>3, ReadAnswers

LEMMA UploadAnswers ==
  ASSUME TypeOK, NEW u \in Users, NEW f \in Form, NEW s \in Outcomes, NEW d \in Outcomes,
         Upload(u, f, s, d)
  PROVE  AnswersOK'
<1> DEFINE fits   == f.type = "short"
           stored == [r \in Repos |-> s = "ok" /\ (r = "postgres" => fits /\ d = "ok")]
           i      == made + 1
<1>1. /\ op' = "upload" /\ answer' = [r \in Repos |-> UploadAnswer(i, stored[r])]
      /\ faithful' = (faithful /\ fits /\ d = "ok") /\ publisher' = publisher
      /\ i \in Ids
  BY UploadsAssumption DEF Upload, Respond, TypeOK, Ids
<1>2. ASSUME NEW r \in Repos
      PROVE  /\ UploadAnswer(i, stored[r]) \in Answer
             /\ \/ UploadAnswer(i, stored[r]).code \in UploadCodes
                \/ UploadAnswer(i, stored[r]).code = 500 /\ publisher = "nil"
  <2> DEFINE a == [code |-> 201, to |-> "", shows |-> {i}]
  <2>1. Plain(400) \in Answer /\ Plain(500) \in Answer  BY PlainType
  <2>2. a \in Answer /\ a.code = 201  BY <1>1 DEF Answer
  <2> HIDE DEF stored
  <2>3. \/ UploadAnswer(i, stored[r]) = Plain(400)
        \/ UploadAnswer(i, stored[r]) = Plain(500) /\ publisher = "nil"
        \/ UploadAnswer(i, stored[r]) = a
    BY ZenonT(60) DEF UploadAnswer
  <2> HIDE DEF a, i
  <2> QED  BY <2>1, <2>2, <2>3, PlainCode DEF UploadCodes
<1>3. faithful' => stored["postgres"] = stored["memory"]  BY <1>1 DEF Repos
<1> HIDE DEF stored, i, fits
<1>4. answer' \in [Repos -> Answer]  BY <1>1, <1>2
<1>5. OnlyListedCodes'  BY <1>1, <1>2 DEF OnlyListedCodes, Documented
<1>6. faithful' => Agree(answer', op')
  <2>1. answer'["postgres"] = UploadAnswer(i, stored["postgres"])
        /\ answer'["memory"] = UploadAnswer(i, stored["memory"])
    BY <1>1 DEF Repos
  <2>2. faithful' => answer'["postgres"] = answer'["memory"]  BY <1>3, <2>1
  <2> QED  BY <2>2 DEF Agree
<1> QED  BY <1>1, <1>4, <1>5, <1>6 DEF AnswersOK, Ops

LEMMA DeleteAnswers ==
  ASSUME TypeOK, StoresInv, NEW h \in Header, NEW i \in PathId, NEW u, NEW fault \in Faults,
         DeleteAvatar(h, i, u, fault)
  PROVE  AnswersOK'
<1> DEFINE check == [r \in Repos |-> DeleteCheck(Held(r), h, i, u)]
<1>1. /\ op' = "delete" /\ publisher' = publisher /\ faithful' = (faithful /\ fault = "ok")
      /\ answer' = [r \in Repos |-> IF \/ r = "postgres" /\ fault # "ok"
                                       \/ check[r] = 204 /\ publisher = "nil"
                                    THEN Plain(500) ELSE Plain(check[r])]
      /\ Called(fault)
  BY DEF DeleteAvatar, Respond
<1>2. fault # "ok" => mishaps' > 0  BY <1>1, CalledKeeps DEF TypeOK
<1>3. \A r \in Repos : check[r] \in DeleteCodes  BY DEF DeleteCheck, DeleteCodes
<1>4. faithful' => check["postgres"] = check["memory"]
  <2>1. faithful => Held("postgres") = Held("memory")  BY DEF StoresInv, Mirrored, Held
  <2> QED  BY <1>1, <2>1 DEF Repos
<1> HIDE DEF check
<1>5. \A r \in Repos : \/ answer'[r] = Plain(check[r])
                       \/ answer'[r] = Plain(500) /\ (mishaps' > 0 \/ publisher' = "nil")
  BY <1>1, <1>2
<1>6. \A r \in Repos : Plain(check[r]) \in Answer
  BY <1>3, PlainType DEF DeleteCodes
<1>7. Plain(500) \in Answer  BY PlainType
<1>8. answer' \in [Repos -> Answer]  BY <1>1, <1>6, <1>7
<1>9. \A r \in Repos : \/ answer'[r].code \in DeleteCodes
                       \/ answer'[r].code = 500 /\ (mishaps' > 0 \/ publisher' = "nil")
  BY <1>3, <1>5, PlainCode
<1>10. OnlyListedCodes'  BY <1>1, <1>9 DEF OnlyListedCodes, Documented
<1>11. faithful' => Agree(answer', op')
  <2> SUFFICES ASSUME faithful'  PROVE Agree(answer', op')  OBVIOUS
  <2>1. answer'["postgres"] = answer'["memory"]  BY <1>1, <1>4 DEF Repos
  <2> QED  BY <2>1 DEF Agree
<1> QED  BY <1>1, <1>8, <1>10, <1>11 DEF AnswersOK, Ops

-----------------------------------------------------------------------------
(* The invariant: types, what is stored, and what is answered.             *)

Inv == TypeOK /\ StoresInv /\ AnswersOK

LEMMA InitInv == Init => Inv
<1> SUFFICES ASSUME Init  PROVE Inv  OBVIOUS
<1>1. rows = [i \in Ids |-> NoRow] /\ map = [i \in {} |-> NoRow]
  BY DEF Init, RepositoriesInit
<1>2. Listed = {} /\ Selected = map  BY <1>1 DEF Listed, Selected
<1>3. answer = [r \in Repos |-> Plain(200)] /\ Plain(200) \in Answer
  BY PlainType DEF Init, Both
<1>4. answer \in [Repos -> Answer] /\ answer["postgres"] = answer["memory"]
  BY <1>3 DEF Repos
<1>5. TypeOK
  BY <1>1, <1>4, UploadsAssumption, MishapsAssumption DEF TypeOK, RepositoriesTypeOK, Init
<1>6. StoresInv
  BY <1>1, <1>2 DEF StoresInv, Unmade, MapIsFunction, Mirrored, FreshFirst, Init
<1>7. AnswersOK
  BY <1>4 DEF AnswersOK, OnlyListedCodes, Agree, Ops, Init
<1> QED  BY <1>5, <1>6, <1>7 DEF Inv

LEMMA StepInv == Inv /\ [Next]_vars => Inv'
<1> SUFFICES ASSUME Inv, [Next]_vars  PROVE Inv'  OBVIOUS
<1>0. /\ TypeOK /\ StoresInv /\ AnswersOK /\ RepositoriesTypeOK
      /\ made \in 0..MaxUploads /\ publisher \in {"nil", "open"} /\ faithful \in BOOLEAN
      /\ fresh \in [Users -> Ids \cup {0}] /\ mishaps \in 0..MaxMishaps
      /\ files \subseteq Ids
  BY DEF Inv, TypeOK
<1> DEFINE
      StoresOK == RepositoriesTypeOK' /\ made' \in 0..MaxUploads /\ StoresInv'
      RestOK   == /\ publisher' \in {"nil", "open"} /\ faithful' \in BOOLEAN
                  /\ fresh' \in [Users -> Ids \cup {0}] /\ mishaps' \in 0..MaxMishaps
                  /\ files' \subseteq Ids
<1>1. ASSUME StoresOK, RestOK, AnswersOK'  PROVE Inv'
  BY <1>1 DEF Inv, TypeOK, AnswersOK, Ops
<1>2. ASSUME NothingStored
      PROVE  /\ StoresOK /\ faithful' \in BOOLEAN
             /\ fresh' \in [Users -> Ids \cup {0}] /\ files' \subseteq Ids
  <2>1. made' = made /\ faithful' = faithful /\ fresh' = fresh /\ files' = files
    BY <1>2 DEF NothingStored
  <2> QED  BY <1>0, <1>2, <2>1, NothingStoredKeeps, NothingStoredType
<1>3. ASSUME NEW name, NEW ans, NEW db, Read(name, ans, db)  PROVE StoresOK /\ RestOK
  <2>1. NothingStored /\ publisher' = publisher /\ Called(db)  BY <1>3 DEF Read
  <2>2. mishaps' \in 0..MaxMishaps  BY <1>0, <2>1, CalledKeeps
  <2> QED  BY <1>0, <1>2, <2>1, <2>2
<1> HIDE DEF StoresOK
<1>4. CASE TooMany
  <2>1. NothingStored /\ publisher' = publisher /\ mishaps' = mishaps  BY <1>4 DEF TooMany
  <2>2. AnswersOK'  BY <1>4, BothAnswer DEF TooMany
  <2> QED  BY <1>0, <1>1, <1>2, <2>1, <2>2
<1>5. ASSUME NEW h \in Header, NEW f \in Form, UploadRefused(h, f)  PROVE Inv'
  <2>1. NothingStored /\ publisher' = publisher /\ mishaps' = mishaps
    BY <1>5 DEF UploadRefused
  <2>2. \E code \in {400, 401} : Respond("upload", Both(Plain(code)))
    BY <1>5 DEF UploadRefused
  <2>3. AnswersOK'  BY <2>2, BothAnswer
  <2> QED  BY <1>0, <1>1, <1>2, <2>1, <2>3
<1>6. ASSUME NEW h \in Header, NEW f \in Form, UploadUnread(h, f)  PROVE Inv'
  <2>1. NothingStored /\ publisher' = publisher /\ Called("error")  BY <1>6 DEF UploadUnread
  <2>2. mishaps' \in 0..MaxMishaps /\ mishaps' > 0  BY <1>0, <2>1, CalledKeeps
  <2>3. AnswersOK'  BY <1>6, <2>2, BothAnswer DEF UploadUnread
  <2> QED  BY <1>0, <1>1, <1>2, <2>1, <2>2, <2>3
<1>7. ASSUME NEW u \in Users, NEW f \in Form, NEW s \in Outcomes, NEW d \in Outcomes,
             Upload(u, f, s, d)
      PROVE  Inv'
  <2>1. StoresOK  BY <1>0, <1>7, UploadStores DEF StoresOK
  <2>2. AnswersOK'  BY <1>0, <1>7, UploadAnswers
  <2>3. publisher' = publisher /\ Called(IF s = "ok" THEN d ELSE s)  BY <1>7 DEF Upload
  <2>4. mishaps' \in 0..MaxMishaps  BY <1>0, <2>3, CalledKeeps
  <2>5. made + 1 \in Ids  BY <1>0, <1>7, UploadsAssumption DEF Upload, Ids
  <2>6. fresh' \in {[fresh EXCEPT ![u] = made + 1], [fresh EXCEPT ![u] = 0], fresh}
    BY <1>7 DEF Upload
  <2>7. fresh' \in [Users -> Ids \cup {0}]  BY <1>0, <2>5, <2>6
  <2>8. faithful' \in BOOLEAN  BY <1>7 DEF Upload
  <2>9. files' \subseteq Ids  BY <1>0, <1>7, <2>5 DEF Upload
  <2> QED  BY <1>0, <1>1, <2>1, <2>2, <2>3, <2>4, <2>7, <2>8, <2>9
<1>8. ASSUME NEW i \in PathId, NEW d \in Outcomes, GetAvatarMetadata(i, d)  PROVE Inv'
  <2>1. AnswersOK'  BY <1>0, <1>8, MetadataAnswers
  <2>2. StoresOK /\ RestOK  BY <1>3, <1>8 DEF GetAvatarMetadata
  <2> QED  BY <1>1, <2>1, <2>2
<1>9. ASSUME NEW i \in PathId, NEW d \in Outcomes, NEW original \in BOOLEAN,
             GetAvatar(i, original, d)
      PROVE  Inv'
  <2>1. AnswersOK'  BY <1>0, <1>9, GetAnswers
  <2>2. StoresOK /\ RestOK  BY <1>3, <1>9 DEF GetAvatar
  <2> QED  BY <1>1, <2>1, <2>2
<1>10. ASSUME NEW u, NEW d \in Outcomes, GetUserAvatar(u, d)  PROVE Inv'
  <2>1. AnswersOK'  BY <1>0, <1>10, UserAvatarAnswers
  <2>2. StoresOK /\ RestOK  BY <1>3, <1>10 DEF GetUserAvatar
  <2> QED  BY <1>1, <2>1, <2>2
<1>11. ASSUME NEW h \in Header, NEW u, NEW d \in Outcomes, GetUserAvatars(h, u, d)  PROVE Inv'
  <2>1. AnswersOK'  BY <1>0, <1>11, ListAnswers
  <2>2. CASE Unauthorized(h)
    <3>1. NothingStored /\ publisher' = publisher /\ mishaps' = mishaps
      BY <1>11, <2>2 DEF GetUserAvatars
    <3> QED  BY <1>0, <1>1, <1>2, <2>1, <3>1
  <2>3. CASE ~Unauthorized(h)
    <3>1. StoresOK /\ RestOK  BY <1>3, <1>11, <2>3 DEF GetUserAvatars
    <3> QED  BY <1>1, <2>1, <3>1
  <2> QED  BY <2>2, <2>3
<1>12. ASSUME NEW h \in Header, NEW i \in PathId, NEW u, NEW fault \in Faults,
              DeleteAvatar(h, i, u, fault)
       PROVE  Inv'
  <2>1. AnswersOK'  BY <1>0, <1>12, DeleteAnswers
  <2>2. /\ made' = made /\ files' = files /\ publisher' = publisher
        /\ Called(fault)
    BY <1>12 DEF DeleteAvatar
  <2>3. StoresOK  BY <1>0, <1>12, <2>2, DeleteStores DEF StoresOK
  <2>4. mishaps' \in 0..MaxMishaps  BY <1>0, <2>2, CalledKeeps
  <2>5. fresh' \in [Users -> Ids \cup {0}]
    <3>1. PICK by : fresh' = [v \in Users |->
            IF fresh[v] = i /\ "postgres" \in by /\ fault # "error" THEN 0 ELSE fresh[v]]
      BY <1>12 DEF DeleteAvatar
    <3> QED  BY <1>0, <3>1
  <2>6. faithful' \in BOOLEAN  BY <1>12 DEF DeleteAvatar
  <2> QED  BY <1>0, <1>1, <2>1, <2>2, <2>3, <2>4, <2>5, <2>6
<1>13. CASE UNCHANGED vars
  <2>1. NothingStored /\ UNCHANGED <<publisher, op, answer, mishaps>>
    BY <1>13 DEF vars, NothingStored
  <2>2. AnswersOK'
    BY <1>0, <2>1 DEF NothingStored, AnswersOK, OnlyListedCodes, Documented, Agree
  <2> QED  BY <1>0, <1>1, <1>2, <2>1, <2>2
<1> QED
  BY <1>4, <1>5, <1>6, <1>7, <1>8, <1>9, <1>10, <1>11, <1>12, <1>13 DEF Next

LEMMA Invariance == Spec => []Inv
BY InitInv, StepInv, PTL DEF Spec

-----------------------------------------------------------------------------

(* The variables keep their types.                                         *)
THEOREM TypeCorrect == Spec => []TypeOK
<1>1. Inv => TypeOK  BY DEF Inv
<1> QED  BY <1>1, Invariance, PTL

(* Whatever a client asks for and whatever fails, the answer is one that   *)
(* docs.go lists, a 429, a 401 of the list, or a 500 for a call that       *)
(* failed or a missing publisher.                                          *)
THEOREM ApiIsDocumented == Spec => []OnlyListedCodes
<1>1. Inv => OnlyListedCodes  BY DEF Inv, AnswersOK
<1> QED  BY <1>1, Invariance, PTL

(* As long as both are told the same, the map of env "test" holds and      *)
(* answers what the table does.                                            *)
THEOREM RepositoriesAgree == Spec => []SameAnswers
<1>1. Inv => SameAnswers
  BY DEF Inv, StoresInv, Mirrored, AnswersOK, Agree, SameAnswers
<1> QED  BY <1>1, Invariance, PTL

(* The avatar a user was last told 201 of is the one others are shown.     *)
THEOREM UploadIsShown == Spec => []FreshIsShown
<1>1. Inv => FreshIsShown
  <2> SUFFICES ASSUME Inv, NEW u \in Users, fresh[u] # 0
               PROVE  UserAnswers("postgres", u)
                        = {[code |-> 307, to |-> "file", shows |-> {fresh[u]}]}
    BY DEF FreshIsShown
  <2> DEFINE S == OfUser(Selected, u)
  <2>1. fresh[u] \in S /\ Selected[fresh[u]].url /\ \A j \in S : j <= fresh[u]
    BY DEF Inv, StoresInv, FreshFirst
  <2>2. S \subseteq Ids  BY DEF OfUser, Selected, Listed
  <2>3. First("postgres", u) = {i \in S : \A j \in S : j <= i}  BY DEF First, Held
  <2> HIDE DEF S
  <2>4. \A i \in S : fresh[u] <= i /\ i <= fresh[u] => i = fresh[u]
    <3>1. \A i, j \in Ids : j <= i /\ i <= j => i = j  BY UploadsAssumption DEF Ids
    <3> QED  BY <2>1, <2>2, <3>1
  <2>5. First("postgres", u) = {fresh[u]}
    <3>1. \A i \in First("postgres", u) : i = fresh[u]  BY <2>1, <2>3, <2>4
    <3>2. fresh[u] \in First("postgres", u)  BY <2>1, <2>3
    <3> QED  BY <3>1, <3>2
  <2>6. u # "notUuid"  BY UsersAssumption DEF Nobody
  <2>7. Location(Held("postgres"), fresh[u]) = "file"  BY <2>1 DEF Location, Held
  <2>8. UserAnswers("postgres", u)
          = {[code |-> 307, to |-> Location(Held("postgres"), i), shows |-> {i}] :
             i \in First("postgres", u)}
    BY <2>5, <2>6 DEF UserAnswers
  <2> QED  BY <2>5, <2>7, <2>8
<1> QED  BY <1>1, Invariance, PTL

(* A refused request has changed no row and no entry of the map, and, if   *)
(* it was refused before NewAvatar, no file, provided that no call failed  *)
(* and there is a publisher.                                               *)
THEOREM RefusalsAreClean == Spec => RefusalLeavesNoRow
<1> DEFINE Clean == mishaps' = mishaps /\ publisher = "open" =>
                      /\ answer'["postgres"].code >= 400 => UNCHANGED rows
                      /\ answer'["memory"].code >= 400 => UNCHANGED map
                      /\ answer'["postgres"].code >= 400 /\ made' = made => UNCHANGED files
<1>1. ASSUME Inv, [Next]_vars  PROVE [Clean]_vars
  <2> SUFFICES ASSUME mishaps' = mishaps, publisher = "open"
               PROVE  /\ answer'["postgres"].code >= 400 => UNCHANGED rows
                      /\ answer'["memory"].code >= 400 => UNCHANGED map
                      /\ answer'["postgres"].code >= 400 /\ made' = made => UNCHANGED files
    OBVIOUS
  <2>0. TypeOK /\ mishaps \in 0..MaxMishaps  BY <1>1 DEF Inv, TypeOK
  <2>1. CASE UNCHANGED <<rows, map, files>>  BY <2>1
  <2>2. ASSUME NEW u \in Users, NEW f \in Form, NEW s \in Outcomes, NEW d \in Outcomes,
               Upload(u, f, s, d)
        PROVE  /\ answer'["postgres"].code >= 400 => UNCHANGED rows
               /\ answer'["memory"].code >= 400 => UNCHANGED map
               /\ answer'["postgres"].code >= 400 /\ made' = made => UNCHANGED files
    <3> DEFINE fits   == f.type = "short"
               stored == [r \in Repos |-> s = "ok" /\ (r = "postgres" => fits /\ d = "ok")]
               i      == made + 1
    <3>1. s = "ok" /\ d = "ok"
      <4>1. Called(IF s = "ok" THEN d ELSE s)  BY <2>2 DEF Upload
      <4> QED  BY <2>0, <4>1, CalledKeeps
    <3>2. answer' = [r \in Repos |-> UploadAnswer(i, stored[r])]
      BY <2>2 DEF Upload, Respond
    <3>3. answer'["memory"].code = 201 /\ (fits => answer'["postgres"].code = 201)
      BY <3>1, <3>2 DEF UploadAnswer, Repos
    <3>4. ~fits => rows' = rows
      BY <2>2 DEF Upload, Create, Inserted
    <3>5. made' # made  BY <2>0, <2>2 DEF Upload, TypeOK
    <3> QED  BY <3>3, <3>4, <3>5
  <2>3. ASSUME NEW h \in Header, NEW i \in PathId, NEW u, NEW fault \in Faults,
               DeleteAvatar(h, i, u, fault)
        PROVE  /\ answer'["postgres"].code >= 400 => UNCHANGED rows
               /\ answer'["memory"].code >= 400 => UNCHANGED map
               /\ answer'["postgres"].code >= 400 /\ made' = made => UNCHANGED files
    <3> DEFINE check == [r \in Repos |-> DeleteCheck(Held(r), h, i, u)]
               by    == DeletingBy(check, fault)
    <3>1. fault = "ok"
      <4>1. Called(fault)  BY <2>3 DEF DeleteAvatar
      <4> QED  BY <2>0, <4>1, CalledKeeps
    <3>2. \A r \in Repos : answer'[r] = Plain(check[r])
      BY <2>3, <3>1 DEF DeleteAvatar, Respond
    <3>3. \A r \in Repos : answer'[r].code >= 400 => r \notin by
      BY <3>2, PlainCode DEF DeletingBy
    <3>4. IF by = {} THEN UNCHANGED repoVars ELSE Delete(i, by, fault)
      BY <2>3 DEF DeleteAvatar
    <3> HIDE DEF by
    <3>5. ("postgres" \notin by => rows' = rows) /\ ("memory" \notin by => map' = map)
      BY <3>4 DEF Delete, repoVars
    <3>6. files' = files  BY <2>3 DEF DeleteAvatar
    <3> QED  BY <3>3, <3>5, <3>6 DEF Repos
  <2>4. CASE NothingStored  BY <2>1, <2>4 DEF NothingStored, repoVars
  <2>5. CASE UNCHANGED vars  BY <2>1, <2>5 DEF vars, repoVars
  <2> QED
    BY <1>1, <2>2, <2>3, <2>4, <2>5
    DEF Next, TooMany, UploadRefused, UploadUnread, GetAvatarMetadata, GetAvatar, GetUserAvatar,
        GetUserAvatars, Read
<1> QED  BY <1>1, Invariance, PTL DEF Spec, RefusalLeavesNoRow

-----------------------------------------------------------------------------
(* Gallery is implemented.  What a step does with one repository is told   *)
(* from the avatars H it held, the G it holds, the numbers m and n of      *)
(* avatars made before and after, and the answer a.                        *)

Changed(H, G, S) == DOMAIN G = S /\ \A j \in S \cap DOMAIN H : G[j] = H[j]

Taken(H, G, m, n, a) ==
  \E i \in Ids :
    /\ i \notin 1..m /\ 1..n = 1..m \cup {i}
    /\ \/ /\ Changed(H, G, DOMAIN H \cup {i})
          /\ G[i].status = "ready" /\ G[i].url
          /\ a.code = 201 /\ a.shows = {i}
       \/ /\ Changed(H, G, DOMAIN H) \/ Changed(H, G, DOMAIN H \cup {i})
          /\ a.code \in {400, 500} /\ a.shows = {}

Dropped(H, G, m, n, a) ==
  /\ \E i \in Ids : i \in DOMAIN H /\ Changed(H, G, DOMAIN H \ {i})
  /\ n = m /\ a.code \in {204, 500} /\ a.shows = {}

Tells(H, a) ==
  \/ \E i \in Ids : i \in DOMAIN H /\ a.code \in {200, 307} /\ a.shows = {i}
  \/ \E u \in Subjects : a.code = 200 /\ a.shows = {i \in DOMAIN H : H[i].owner = u}
  \/ a.code \in {307, 400, 401, 403, 404, 429, 500} /\ a.shows = {}

Moves(H, G, m, n, a) == \/ Taken(H, G, m, n, a)
                        \/ Dropped(H, G, m, n, a)
                        \/ G = H /\ n = m /\ Tells(H, a)

(* An error shows nothing.                                                 *)
LEMMA ErrorTells ==
  ASSUME NEW H, NEW code \in {400, 401, 403, 404, 429, 500}
  PROVE  Tells(H, Plain(code))
BY DEF Tells, Plain

(* What is answered while nothing is stored.                               *)
LEMMA StillMoves ==
  ASSUME NothingStored, NEW r \in Repos, Tells(Held(r), answer'[r])
  PROVE  Moves(Held(r), Held(r)', made, made', answer'[r])
<1>1. rows' = rows /\ map' = map /\ made' = made  BY DEF NothingStored, repoVars
<1>2. Held(r)' = Held(r)  BY <1>1 DEF Held, Selected, Listed
<1> QED  BY <1>1, <1>2 DEF Moves

LEMMA ReadMoves ==
  ASSUME NEW name, NEW ans, NEW db, Read(name, ans, db), NEW r \in Repos,
         Tells(Held(r), ans[r])
  PROVE  Moves(Held(r), Held(r)', made, made', answer'[r])
<1>1. NothingStored /\ (answer'[r] = Plain(500) \/ answer'[r] = ans[r])
  BY DEF Read, Respond
<1>2. Tells(Held(r), answer'[r])  BY <1>1, ErrorTells
<1> QED  BY <1>1, <1>2, StillMoves

LEMMA BothMoves ==
  ASSUME NothingStored, NEW name, NEW code \in {400, 401, 429, 500},
         Respond(name, Both(Plain(code))), NEW r \in Repos
  PROVE  Moves(Held(r), Held(r)', made, made', answer'[r])
<1>1. answer'[r] = Plain(code)  BY DEF Respond, Both
<1>2. Tells(Held(r), answer'[r])  BY <1>1, ErrorTells
<1> QED  BY <1>2, StillMoves

(* The GET requests.                                                       *)
LEMMA GetsMove ==
  ASSUME TypeOK, NEW d, NEW r \in Repos,
         \/ \E i \in PathId : \/ GetAvatarMetadata(i, d)
                             \/ \E original \in BOOLEAN : GetAvatar(i, original, d)
         \/ \E u \in Headers : \/ GetUserAvatar(u, d)
                              \/ \E h \in Header : GetUserAvatars(h, u, d)
  PROVE  Moves(Held(r), Held(r)', made, made', answer'[r])
<1>1. \A H : Tells(H, Plain(400)) /\ Tells(H, Plain(404))  BY ErrorTells
<1>2. DOMAIN Held(r) \subseteq Ids  BY HeldType DEF TypeOK
<1>3. ASSUME NEW i \in PathId, GetAvatarMetadata(i, d)
      PROVE  Moves(Held(r), Held(r)', made, made', answer'[r])
  <2> DEFINE ans == [s \in Repos |-> MetadataAnswer(Held(s), i)]
  <2>1. Read("metadata", ans, d)  BY <1>3 DEF GetAvatarMetadata
  <2> DEFINE m == MetadataAnswer(Held(r), i)
             a == [code |-> 200, to |-> "", shows |-> {i}]
  <2>2. \/ m = Plain(400) \/ m = Plain(404)
        \/ i \in DOMAIN Held(r) /\ m.code = 200 /\ m.shows = {i}
    <3>1. CASE i = 0  BY <3>1 DEF MetadataAnswer
    <3>2. CASE i # 0 /\ i \notin DOMAIN Held(r)  BY <3>2 DEF MetadataAnswer
    <3>3. CASE i # 0 /\ i \in DOMAIN Held(r)
      <4>1. m = a  BY <3>3 DEF MetadataAnswer
      <4>2. a.code = 200 /\ a.shows = {i}  OBVIOUS
      <4> HIDE DEF m, a
      <4> QED  BY <3>3, <4>1, <4>2
    <3> HIDE DEF m
    <3> QED  BY <3>1, <3>2, <3>3
  <2> HIDE DEF m
  <2>3. Tells(Held(r), m)  BY <1>1, <1>2, <2>2 DEF Tells
  <2>4. Tells(Held(r), ans[r])  BY <2>3 DEF m
  <2> HIDE DEF ans
  <2> QED  BY <2>1, <2>4, ReadMoves
<1>4. ASSUME NEW i \in PathId, NEW original \in BOOLEAN, GetAvatar(i, original, d)
      PROVE  Moves(Held(r), Held(r)', made, made', answer'[r])
  <2> DEFINE ans == [s \in Repos |-> GetAnswer(Held(s), i, original)]
  <2>1. Read("get", ans, d)  BY <1>4 DEF GetAvatar
  <2>2. \A to : \/ Tells(Held(r), [code |-> 307, to |-> to, shows |-> {i}])
               \/ i \notin DOMAIN Held(r)
    BY <1>2 DEF Tells
  <2>3. Tells(Held(r), ans[r])  BY <1>1, <2>2 DEF GetAnswer
  <2> HIDE DEF ans
  <2> QED  BY <2>1, <2>3, ReadMoves
<1>5. ASSUME NEW u \in Headers, GetUserAvatar(u, d)
      PROVE  Moves(Held(r), Held(r)', made, made', answer'[r])
  <2>1. PICK a : (\A s \in Repos : a[s] \in UserAnswers(s, u)) /\ Read("user", a, d)
    BY <1>5 DEF GetUserAvatar
  <2>2. \A i, to : \/ Tells(Held(r), [code |-> 307, to |-> to, shows |-> {i}])
                  \/ i \notin DOMAIN Held(r)
    BY <1>2 DEF Tells
  <2>3. First(r, u) \subseteq DOMAIN Held(r)  BY DEF First, OfUser
  <2>4. Tells(Held(r), [code |-> 307, to |-> "default", shows |-> {}])  BY DEF Tells
  <2>5. a[r] \in UserAnswers(r, u)  BY <2>1
  <2>6. \A i \in First(r, u) :
          Tells(Held(r), [code |-> 307, to |-> Location(Held(r), i), shows |-> {i}])
    BY <2>2, <2>3
  <2> DEFINE b == a[r]
             one(i) == [code |-> 307, to |-> Location(Held(r), i), shows |-> {i}]
             default == [code |-> 307, to |-> "default", shows |-> {}]
  <2>7. b = Plain(400) \/ b = default \/ \E i \in First(r, u) : b = one(i)
    BY <2>5 DEF UserAnswers
  <2>8. Tells(Held(r), default) /\ \A i \in First(r, u) : Tells(Held(r), one(i))
    BY <2>4, <2>6
  <2> HIDE DEF b, one, default
  <2>9. Tells(Held(r), b)  BY <1>1, <2>7, <2>8
  <2>10. Tells(Held(r), a[r])  BY <2>9 DEF b
  <2> QED  BY <2>1, <2>10, ReadMoves
<1>6. ASSUME NEW h \in Header, NEW u \in Headers, GetUserAvatars(h, u, d)
      PROVE  Moves(Held(r), Held(r)', made, made', answer'[r])
  <2>1. CASE Unauthorized(h)
    BY <1>6, <2>1, BothMoves DEF GetUserAvatars
  <2>2. CASE ~Unauthorized(h)
    <3> DEFINE ans == [s \in Repos |-> ListAnswer(Held(s), u)]
    <3>1. Read("list", ans, d)  BY <1>6, <2>2 DEF GetUserAvatars
    <3> DEFINE l == ListAnswer(Held(r), u)
               a == [code |-> 200, to |-> "", shows |-> OfUser(Held(r), u)]
    <3>2. \/ l = Plain(400)
          \/ u \in Subjects /\ l.code = 200 /\ l.shows = OfUser(Held(r), u)
      <4>1. l = Plain(400) \/ (u \notin {"missing", "notUuid"} /\ l = a)
        BY Zenon DEF ListAnswer
      <4>2. a.code = 200 /\ a.shows = OfUser(Held(r), u)  OBVIOUS
      <4>3. u \notin {"missing", "notUuid"} => u \in Subjects  BY DEF Headers, Subjects
      <4> HIDE DEF l, a
      <4> QED  BY <4>1, <4>2, <4>3
    <3> HIDE DEF l
    <3>3. Tells(Held(r), l)  BY <1>1, <3>2 DEF Tells, OfUser
    <3>4. Tells(Held(r), ans[r])  BY <3>3 DEF l
    <3> HIDE DEF ans
    <3> QED  BY <3>1, <3>4, ReadMoves
  <2> QED  BY <2>1, <2>2
<1> QED  BY <1>3, <1>4, <1>5, <1>6

LEMMA UploadMoves ==
  ASSUME TypeOK, StoresInv, NEW u \in Users, NEW f \in Form, NEW s \in Outcomes, NEW d \in Outcomes,
         Upload(u, f, s, d), NEW r \in Repos
  PROVE  Moves(Held(r), Held(r)', made, made', answer'[r])
<1> DEFINE i      == made + 1
           saved  == s = "ok"
           avatar == [owner |-> u, status |-> IF saved THEN "ready" ELSE "failed", url |-> saved]
           fits   == f.type = "short"
           kept   == r = "postgres" => Inserted(fits, d)
           stored == [t \in Repos |-> saved /\ (t = "postgres" => fits /\ d = "ok")]
<1>1. /\ i \in Ids /\ i \notin 1..made /\ 1..made' = 1..made \cup {i}
      /\ rows[i] = NoRow /\ i \notin DOMAIN map
  BY UploadsAssumption DEF Upload, TypeOK, Ids, StoresInv, Unmade
<1>2. /\ Create(i, avatar, fits, d)
      /\ answer' = [t \in Repos |-> UploadAnswer(i, stored[t])]
  BY DEF Upload, Respond
<1>3. avatar \in Entity /\ (saved => avatar.status = "ready" /\ avatar.url)  BY DEF Entity
<1>4. stored[r] => saved /\ kept  BY DEF Inserted
<1>5. \/ stored[r] /\ answer'[r].code = 201 /\ answer'[r].shows = {i}
      \/ answer'[r].code \in {400, 500} /\ answer'[r].shows = {}
  <2> DEFINE b == stored[r]
             a == [code |-> 201, to |-> "", shows |-> {i}]
  <2>1. answer'[r] = UploadAnswer(i, b)  BY <1>2
  <2>2. a.code = 201 /\ a.shows = {i}  OBVIOUS
  <2> HIDE DEF b, i
  <2>3. CASE ~b
    <3>1. answer'[r] = Plain(400)  BY <2>1, <2>3 DEF UploadAnswer
    <3> QED  BY <3>1, PlainCode
  <2>4. CASE b /\ publisher = "nil"
    <3>1. answer'[r] = Plain(500)  BY <2>1, <2>4 DEF UploadAnswer
    <3> QED  BY <3>1, PlainCode
  <2>5. CASE b /\ publisher # "nil"
    <3>1. answer'[r] = a  BY <2>1, <2>5 DEF UploadAnswer
    <3> HIDE DEF a
    <3> QED  BY <2>2, <2>5, <3>1 DEF b
  <2> QED  BY <2>3, <2>4, <2>5
<1>6. i \notin DOMAIN Held(r)  BY <1>1 DEF Held, Selected, Listed
<1> HIDE DEF i, avatar, fits, stored
<1>7. Held(r)' = IF kept THEN [j \in DOMAIN Held(r) \cup {i} |-> IF j = i THEN avatar ELSE Held(r)[j]]
                 ELSE Held(r)
  <2>1. CASE r = "postgres"
    <3>1. RepositoriesTypeOK  BY DEF TypeOK
    <3>2. Selected' = IF Inserted(fits, d)
                      THEN [j \in Listed \cup {i} |-> IF j = i THEN avatar ELSE Selected[j]]
                      ELSE Selected
      BY <1>1, <1>2, <1>3, <3>1, CreateSelected
    <3>3. DOMAIN Selected = Listed  BY DEF Selected
    <3> QED  BY <2>1, <3>2, <3>3 DEF Held
  <2>2. CASE r = "memory"  BY <1>2, <2>2 DEF Held, Create
  <2> QED  BY <2>1, <2>2 DEF Repos
<1> HIDE DEF kept
<1>8. \/ ~kept /\ Changed(Held(r), Held(r)', DOMAIN Held(r))
      \/ kept /\ Changed(Held(r), Held(r)', DOMAIN Held(r) \cup {i}) /\ Held(r)'[i] = avatar
  BY <1>6, <1>7 DEF Changed
<1>9. Taken(Held(r), Held(r)', made, made', answer'[r])
  <2>1. CASE stored[r] /\ answer'[r].code = 201 /\ answer'[r].shows = {i}
    <3>1. /\ saved /\ Changed(Held(r), Held(r)', DOMAIN Held(r) \cup {i})
          /\ Held(r)'[i].status = "ready" /\ Held(r)'[i].url
      BY <1>3, <1>4, <1>8, <2>1
    <3> QED  BY <1>1, <2>1, <3>1 DEF Taken
  <2>2. CASE answer'[r].code \in {400, 500} /\ answer'[r].shows = {}
    BY <1>1, <1>8, <2>2 DEF Taken
  <2> QED  BY <1>5, <2>1, <2>2
<1> QED  BY <1>9 DEF Moves

LEMMA DeleteMoves ==
  ASSUME TypeOK, NEW h \in Header, NEW i \in PathId, NEW u, NEW fault \in Faults,
         DeleteAvatar(h, i, u, fault), NEW r \in Repos
  PROVE  Moves(Held(r), Held(r)', made, made', answer'[r])
<1> DEFINE check == [t \in Repos |-> DeleteCheck(Held(t), h, i, u)]
           by    == DeletingBy(check, fault)
           gone  == r \in by /\ (r = "postgres" => fault # "error")
<1>1. /\ IF by = {} THEN UNCHANGED repoVars ELSE Delete(i, by, fault)
      /\ answer' = [t \in Repos |-> IF \/ t = "postgres" /\ fault # "ok"
                                       \/ check[t] = 204 /\ publisher = "nil"
                                    THEN Plain(500) ELSE Plain(check[t])]
      /\ made' = made
  BY DEF DeleteAvatar, Respond
<1>2. check[r] \in {204, 400, 401, 403, 404} /\ (check[r] = 204 => i \in DOMAIN Held(r))
  BY DEF DeleteCheck
<1>3. r \in by => check[r] = 204  BY DEF DeletingBy
<1>4. check[r] = 204 /\ ~gone => answer'[r] = Plain(500)
  BY <1>1, <1>2 DEF DeletingBy, TypeOK
<1>5. answer'[r] = Plain(500) \/ answer'[r] = Plain(check[r])  BY <1>1
<1>6. DOMAIN Held(r) \subseteq Ids  BY HeldType DEF TypeOK
<1> HIDE DEF check, by
<1>7. Held(r)' = IF gone THEN [j \in DOMAIN Held(r) \ {i} |-> Held(r)[j]] ELSE Held(r)
  <2>1. CASE by = {}
    <3>1. rows' = rows /\ map' = map  BY <1>1, <2>1 DEF repoVars
    <3> QED  BY <2>1, <3>1 DEF Held, Selected, Listed
  <2>2. CASE by # {} /\ r = "postgres"
    <3>1. Delete(i, by, fault) /\ RepositoriesTypeOK  BY <1>1, <2>2 DEF TypeOK
    <3>2. ASSUME NEW b, Delete(i, b, fault)
          PROVE  LET g == "postgres" \in b /\ i \in Listed /\ fault # "error"
                 IN  /\ g => Selected' = [j \in Listed \ {i} |-> Selected[j]]
                     /\ ~g => Selected' = Selected
      BY <3>1, <3>2, DeleteSelected
    <3>3. DOMAIN Selected = Listed  BY DEF Selected
    <3>4. "postgres" \in by => i \in Listed  BY <1>2, <1>3, <2>2, <3>3 DEF Held
    <3>5. Selected' = IF gone THEN [j \in Listed \ {i} |-> Selected[j]] ELSE Selected
      BY <2>2, <3>1, <3>2, <3>4
    <3> QED  BY <2>2, <3>3, <3>5 DEF Held
  <2>3. CASE by # {} /\ r = "memory"  BY <1>1, <2>3 DEF Held, Delete
  <2> QED  BY <2>1, <2>2, <2>3 DEF Repos
<1>8. CASE gone
  <2>1. Changed(Held(r), Held(r)', DOMAIN Held(r) \ {i})  BY <1>7, <1>8 DEF Changed
  <2>2. answer'[r].code \in {204, 500} /\ answer'[r].shows = {}
    BY <1>3, <1>5, <1>8, PlainCode
  <2> QED  BY <1>1, <1>2, <1>3, <1>6, <1>8, <2>1, <2>2 DEF Moves, Dropped
<1>9. CASE ~gone
  <2>1. Held(r)' = Held(r)  BY <1>7, <1>9
  <2>2. answer'[r] = Plain(500) \/ (check[r] \in {400, 401, 403, 404} /\ answer'[r] = Plain(check[r]))
    BY <1>2, <1>4, <1>5, <1>9
  <2>3. Tells(Held(r), answer'[r])  BY <2>2, ErrorTells
  <2> QED  BY <1>1, <2>1, <2>3 DEF Moves
<1> QED  BY <1>8, <1>9

(* Every step, for either repository.                                      *)
LEMMA NextMoves ==
  ASSUME Inv, Next, NEW r \in Repos
  PROVE  Moves(Held(r), Held(r)', made, made', answer'[r])
<1>0. TypeOK /\ StoresInv  BY DEF Inv
<1>1. CASE TooMany  BY <1>1, BothMoves DEF TooMany
<1>2. ASSUME NEW h \in Header, NEW f \in Form, UploadRefused(h, f) \/ UploadUnread(h, f)
      PROVE  Moves(Held(r), Held(r)', made, made', answer'[r])
  <2>1. NothingStored /\ \E code \in {400, 401, 500} : Respond("upload", Both(Plain(code)))
    BY <1>2 DEF UploadRefused, UploadUnread
  <2> QED  BY <2>1, BothMoves
<1>3. ASSUME NEW u \in Users, NEW f \in Form, NEW s \in Outcomes, NEW d \in Outcomes,
             Upload(u, f, s, d)
      PROVE  Moves(Held(r), Held(r)', made, made', answer'[r])
  BY <1>0, <1>3, UploadMoves
<1>4. ASSUME NEW d \in Outcomes,
             \/ \E i \in PathId : \/ GetAvatarMetadata(i, d)
                                 \/ \E original \in BOOLEAN : GetAvatar(i, original, d)
             \/ \E u \in Headers : \/ GetUserAvatar(u, d)
                                  \/ \E h \in Header : GetUserAvatars(h, u, d)
      PROVE  Moves(Held(r), Held(r)', made, made', answer'[r])
  BY <1>0, <1>4, GetsMove
<1>5. ASSUME NEW h \in Header, NEW i \in PathId, NEW u \in Headers, NEW fault \in Faults,
             DeleteAvatar(h, i, u, fault)
      PROVE  Moves(Held(r), Held(r)', made, made', answer'[r])
  BY <1>0, <1>5, DeleteMoves
<1> QED  BY <1>1, <1>2, <1>3, <1>4, <1>5 DEF Next

(* In the service as deployed, an avatar lives as its answers say.         *)
THEOREM TableIsGallery == Spec => TableImplementsGallery
<1>1. Init => OfTable!Init
  <2> SUFFICES ASSUME Init  PROVE OfTable!Init  OBVIOUS
  <2>1. DOMAIN Selected = {}  BY DEF Init, RepositoriesInit, Selected, Listed
  <2>2. answer["postgres"].code = 200 /\ answer["postgres"].shows = {}
    BY DEF Init, Both, Plain, Repos
  <2>3. 1..made = {}  BY DEF Init
  <2> QED  BY <2>1, <2>2, <2>3 DEF OfTable!Init
<1>2. ASSUME Inv, [Next]_vars  PROVE [OfTable!Next]_OfTable!vars
  <2>1. CASE Next
    <3> DEFINE a == answer'["postgres"]
    <3>1. Moves(Selected, Selected', made, made', a)
      <4>1. Moves(Held("postgres"), Held("postgres")', made, made', a)
        BY <1>2, <2>1, NextMoves DEF Repos
      <4> QED  BY <4>1 DEF Held
    <3>2. CASE Taken(Selected, Selected', made, made', a)
      BY <3>2 DEF Taken, Changed, OfTable!Next, OfTable!Accept, OfTable!Spoil, OfTable!Becomes
    <3>3. CASE Dropped(Selected, Selected', made, made', a)
      BY <3>3 DEF Dropped, Changed, OfTable!Next, OfTable!Remove, OfTable!Becomes
    <3>4. CASE Selected' = Selected /\ made' = made /\ Tells(Selected, a)
      BY <3>4 DEF Tells, OfTable!Next, OfTable!Show, OfTable!List, OfTable!TurnAway
    <3> QED  BY <3>1, <3>2, <3>3, <3>4 DEF Moves
  <2>2. CASE UNCHANGED vars  BY <2>2 DEF vars, repoVars, OfTable!vars, Selected, Listed
  <2> QED  BY <1>2, <2>1, <2>2
<1> QED  BY <1>1, <1>2, Invariance, PTL DEF Spec, TableImplementsGallery, OfTable!Spec

(* And so it does in env "test".                                           *)
THEOREM MapIsGallery == Spec => MapImplementsGallery
<1>1. Init => OfMap!Init
  <2> SUFFICES ASSUME Init  PROVE OfMap!Init  OBVIOUS
  <2>1. DOMAIN map = {}  BY DEF Init, RepositoriesInit
  <2>2. answer["memory"].code = 200 /\ answer["memory"].shows = {}
    BY DEF Init, Both, Plain, Repos
  <2>3. 1..made = {}  BY DEF Init
  <2> QED  BY <2>1, <2>2, <2>3 DEF OfMap!Init
<1>2. ASSUME Inv, [Next]_vars  PROVE [OfMap!Next]_OfMap!vars
  <2>1. CASE Next
    <3> DEFINE a == answer'["memory"]
    <3>1. Moves(map, map', made, made', a)
      <4>1. Moves(Held("memory"), Held("memory")', made, made', a)
        BY <1>2, <2>1, NextMoves DEF Repos
      <4> QED  BY <4>1 DEF Held
    <3>2. CASE Taken(map, map', made, made', a)
      BY <3>2 DEF Taken, Changed, OfMap!Next, OfMap!Accept, OfMap!Spoil, OfMap!Becomes
    <3>3. CASE Dropped(map, map', made, made', a)
      BY <3>3 DEF Dropped, Changed, OfMap!Next, OfMap!Remove, OfMap!Becomes
    <3>4. CASE map' = map /\ made' = made /\ Tells(map, a)
      BY <3>4 DEF Tells, OfMap!Next, OfMap!Show, OfMap!List, OfMap!TurnAway
    <3> QED  BY <3>1, <3>2, <3>3, <3>4 DEF Moves
  <2>2. CASE UNCHANGED vars  BY <2>2 DEF vars, repoVars, OfMap!vars
  <2> QED  BY <1>2, <2>1, <2>2
<1> QED  BY <1>1, <1>2, Invariance, PTL DEF Spec, MapImplementsGallery, OfMap!Spec

=============================================================================
