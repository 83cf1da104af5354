----------------------------- MODULE AvatarApi -----------------------------
(***************************************************************************)
(* The HTTP API of one replica: every route of /api/v1 with its handler,   *)
(* from the middleware to the status code, over both repositories.  The    *)
(* limiter lets one handler run at a time (see RateLimiter), so a request  *)
(* is one step; what several replicas do to each other is in AvatarSystem. *)
(***************************************************************************)
EXTENDS Repositories, Integers

CONSTANT MaxMishaps    \* bound on the requests that have a call fail

ASSUME MishapsAssumption == MaxMishaps \in Nat

(* The headers below that name nobody.                                     *)
Nobody == {"missing", "unprefixed", "invalid", "blank", "notUuid", "nilUuid"}

ASSUME UsersAssumption == Users \cap Nobody = {}

VARIABLES
  files,      \* the avatars whose uploaded file is in the bucket
  made,       \* how many avatars NewAvatar has made
  publisher,  \* of the process: "nil" or "open"
  op,         \* the route of the last request
  answer,     \* how it was answered, by repository in use
  fresh,      \* history: the last avatar of each user, if it was answered 201
  faithful,   \* history: the two repositories were told the same
  mishaps     \* how many requests had a call that failed

vars == <<repoVars, files, made, publisher, op, answer, fresh, faithful, mishaps>>

Repos == {"postgres", "memory"}

(* Who a request says it is from: the subject of a valid token, or of the  *)
(* X-User-ID header.  "notUuid" does not parse, "nilUuid" is all zeros.    *)
Subjects == Users \cup {"notUuid", "nilUuid"}

(* What becomes of the Authorization header in JWTAuth.  An "invalid"      *)
(* token has another signature or method, or is past its expiry; "blank"   *)
(* is a valid one without a user_id.                                       *)
Header == Nobody \cup Users

(* The form of an upload: the magic bytes are looked at (an empty file has *)
(* none), the declared type is stored, and too "long" for the column or not*)
Form == [file: BOOLEAN, size: {"fits", "over"},
         magic: {"allowed", "other"}, type: {"short", "long"}]

(* The id in the path, 0 for one that is no uuid.                          *)
PathId == Ids \cup {0}

Answer == [code: {200, 201, 204, 307, 400, 401, 403, 404, 429, 500},
           to: {"", "default", "file", "empty", "thumbnail"},
           shows: SUBSET Ids]

Plain(code) == [code |-> code, to |-> "", shows |-> {}]
Both(a) == [r \in Repos |-> a]

TypeOK ==
  /\ RepositoriesTypeOK
  /\ files \subseteq Ids
  /\ made \in 0..MaxUploads
  /\ publisher \in {"nil", "open"}
  /\ op \in {"none", "limited", "upload", "list", "get", "metadata", "delete", "user"}
  /\ answer \in [Repos -> Answer]
  /\ fresh \in [Users -> Ids \cup {0}]
  /\ faithful \in BOOLEAN
  /\ mishaps \in 0..MaxMishaps

Init ==
  /\ RepositoriesInit
  /\ files = {}
  /\ made = 0
  /\ publisher \in {"nil", "open"}
  /\ op = "none"
  /\ answer = Both(Plain(200))
  /\ fresh = [u \in Users |-> 0]
  /\ faithful = TRUE
  /\ mishaps = 0

-----------------------------------------------------------------------------
(* The way through the middleware                                          *)

Respond(name, a) == op' = name /\ answer' = a

NothingStored == UNCHANGED <<repoVars, files, made, fresh, faithful>>

TooMany ==
  /\ Respond("limited", Both(Plain(429)))
  /\ NothingStored
  /\ UNCHANGED <<publisher, mishaps>>

(* A call to Postgres or MinIO goes "ok", or wrong: "lost" if it was       *)
(* applied and its reply lost.                                             *)
Called(out) == \/ out = "ok" /\ UNCHANGED mishaps
               \/ out # "ok" /\ mishaps < MaxMishaps /\ mishaps' = mishaps + 1

Unauthorized(h) == h \in {"missing", "unprefixed", "invalid"}

-----------------------------------------------------------------------------
(* POST /api/v1/avatars                                                    *)

(* JWTAuth and the handler want a user, then there has to be a file; the   *)
(* service refuses the user uuid.Nil, more than 10 MB, and magic bytes it  *)
(* does not know.                                                          *)
Unfit(u, f) == \/ u \in {"notUuid", "nilUuid"}
               \/ ~f.file \/ f.size = "over" \/ f.magic = "other"

UploadRefused(h, f) ==
  LET unknown == Unauthorized(h) \/ h = "blank"
  IN
  /\ unknown \/ Unfit(h, f)
  /\ Respond("upload", Both(Plain(IF unknown THEN 401 ELSE 400)))
  /\ NothingStored
  /\ UNCHANGED <<publisher, mishaps>>

(* FormFile has parsed the form, and Open of its file fails.               *)
UploadUnread(h, f) ==
  /\ h \in Subjects \ {"notUuid"} /\ f.file
  /\ Called("error")
  /\ Respond("upload", Both(Plain(500)))
  /\ NothingStored
  /\ UNCHANGED publisher

(* The answer when the service has stored the file and the row, or has     *)
(* not: every error of it is 400, and a nil publisher panics, which        *)
(* Recovery answers.                                                       *)
UploadAnswer(i, stored) ==
  IF ~stored THEN Plain(400)
  ELSE IF publisher = "nil" THEN Plain(500)
  ELSE [code |-> 201, to |-> "", shows |-> {i}]

(* Save or Create may fail, or both.  After a failed Save the row says so, *)
(* and an error of Create is discarded; after a failed Create, and after   *)
(* one the column refuses, the file stays where it is.                     *)
Upload(u, f, storage, db) ==
  LET i      == made + 1
      saved  == storage = "ok"
      avatar == [owner |-> u, status |-> IF saved THEN "ready" ELSE "failed", url |-> saved]
      fits   == f.type = "short"
      stored == [r \in Repos |-> saved /\ (r = "postgres" => fits /\ db = "ok")]
  IN
  /\ ~Unfit(u, f)
  /\ made < MaxUploads
  /\ made' = i
  /\ Called(IF saved THEN db ELSE storage)
  /\ files' = IF storage = "error" THEN files ELSE files \cup {i}
  /\ Create(i, avatar, fits, db)
  /\ Respond("upload", [r \in Repos |-> UploadAnswer(i, stored[r])])
  /\ fresh' = IF stored["postgres"] /\ publisher = "open" THEN [fresh EXCEPT ![u] = i]
              ELSE IF Inserted(fits, db) THEN [fresh EXCEPT ![u] = 0] ELSE fresh
  /\ faithful' = (faithful /\ fits /\ db = "ok")
  /\ UNCHANGED publisher

-----------------------------------------------------------------------------
(* The GET requests                                                        *)

(* A read of the table may fail, and is then answered 500; it is not made  *)
(* for what is refused before.  A map does not fail.                       *)
Read(name, ans, db) ==
  /\ db \in {"ok", "error"}
  /\ db = "error" => ans["postgres"].code # 400
  /\ Called(db)
  /\ Respond(name, [r \in Repos |->
       IF r = "postgres" /\ db = "error" THEN Plain(500) ELSE ans[r]])
  /\ NothingStored
  /\ UNCHANGED publisher

Location(S, i) == IF S[i].url THEN "file" ELSE "empty"

(* Mutant: ErrNotFound is not told from other errors.                      *)
GetAnswerNotTold(S, i, original) ==
  IF i = 0 THEN Plain(400)
  ELSE IF i \notin DOMAIN S THEN Plain(500)
  ELSE [code |-> 307, to |-> IF original THEN Location(S, i) ELSE "thumbnail", shows |-> {i}]

(* Mutant: 302 for 307.                                                    *)
GetAnswerFound(S, i, original) ==
  IF i = 0 THEN Plain(400)
  ELSE IF i \notin DOMAIN S THEN Plain(404)
  ELSE [code |-> 302, to |-> IF original THEN Location(S, i) ELSE "thumbnail", shows |-> {i}]

(* GET /api/v1/avatars/{id}: another size is a place in the bucket where   *)
(* a thumbnail would be.                                                   *)
GetAnswer(S, i, original) ==
  IF i = 0 THEN Plain(400)
  ELSE IF i \notin DOMAIN S THEN Plain(404)
  ELSE [code |-> 307, to |-> IF original THEN Location(S, i) ELSE "thumbnail", shows |-> {i}]

GetAvatar(i, original, db) ==
  Read("get", [r \in Repos |-> GetAnswer(Held(r), i, original)], db)

MetadataAnswer(S, i) ==
  IF i = 0 THEN Plain(400)
  ELSE IF i \notin DOMAIN S THEN Plain(404)
  ELSE [code |-> 200, to |-> "", shows |-> {i}]

GetAvatarMetadata(i, db) == Read("metadata", [r \in Repos |-> MetadataAnswer(Held(r), i)], db)

OfUser(S, u) == {i \in DOMAIN S : S[i].owner = u}

(* GET /api/v1/avatars?user_id=, with any valid token.  "missing": no      *)
(* user_id.                                                                *)
ListAnswer(S, u) ==
  IF u \in {"missing", "notUuid"} THEN Plain(400)
  ELSE [code |-> 200, to |-> "", shows |-> OfUser(S, u)]

GetUserAvatars(h, u, db) ==
  \/ /\ Unauthorized(h)
     /\ Respond("list", Both(Plain(401)))
     /\ NothingStored
     /\ UNCHANGED <<publisher, mishaps>>
  \/ /\ ~Unauthorized(h)
     /\ Read("list", [r \in Repos |-> ListAnswer(Held(r), u)], db)

(* Mutant: ORDER BY created_at, without DESC.                              *)
FirstOldest(repo, u) ==
  LET S == Held(repo) IN
  {i \in OfUser(S, u) : repo = "postgres" => \A j \in OfUser(S, u) : i <= j}

(* The avatar GetByUserID lists first: the newest, or, of a map, any.      *)
First(repo, u) ==
  LET S == Held(repo) IN
  {i \in OfUser(S, u) : repo = "postgres" => \A j \in OfUser(S, u) : j <= i}

UserAnswers(repo, u) ==
  IF u = "notUuid" THEN {Plain(400)}
  ELSE IF First(repo, u) = {} THEN {[code |-> 307, to |-> "default", shows |-> {}]}
  ELSE {[code |-> 307, to |-> Location(Held(repo), i), shows |-> {i}] : i \in First(repo, u)}

(* GET /api/v1/users/{user_id}/avatar                                      *)
GetUserAvatar(u, db) ==
  \E a \in [Repos -> UserAnswers("postgres", u) \cup UserAnswers("memory", u)] :
    /\ \A r \in Repos : a[r] \in UserAnswers(r, u)
    /\ Read("user", a, db)

-----------------------------------------------------------------------------
(* DELETE /api/v1/avatars/{id}                                             *)

(* The handler up to its call of the service, which 204 stands for.  Who   *)
(* asks is what X-User-ID says.                                            *)
DeleteCheck(S, h, i, u) ==
  IF Unauthorized(h) THEN 401
  ELSE IF i = 0 THEN 400
  ELSE IF u = "missing" THEN 401
  ELSE IF u = "notUuid" THEN 400
  ELSE IF i \notin DOMAIN S THEN 404
  ELSE IF S[i].owner # u THEN 403
  ELSE 204

(* A fault is one of the two reads of the row, or of the UPDATE.           *)
Faults == {"ok", "read", "error", "lost"}

(* Whether a fault can happen: the statement is got to.                    *)
Possible(fault, check) ==
  CASE fault = "ok"   -> TRUE
    [] fault = "read" -> check \in {204, 403, 404}
    [] OTHER          -> check = 204 /\ publisher = "open"

(* Mutant: the answer is written, but without a return.                    *)
DeletingByAll(check, fault) == IF check["postgres"] \in {204, 403} THEN Repos ELSE {}

(* The repositories whose Delete is called: the event is published first,  *)
(* and that panics with a nil publisher.                                   *)
DeletingBy(check, fault) ==
  {r \in Repos : /\ check[r] = 204 /\ publisher = "open"
                 /\ r = "postgres" => fault # "read"}

DeleteAvatar(h, i, u, fault) ==
  LET check == [r \in Repos |-> DeleteCheck(Held(r), h, i, u)]
      by    == DeletingBy(check, fault)
  IN
  /\ Possible(fault, check["postgres"])
  /\ Called(fault)
  /\ Respond("delete", [r \in Repos |->
       IF \/ r = "postgres" /\ fault # "ok"
          \/ check[r] = 204 /\ publisher = "nil"
       THEN Plain(500) ELSE Plain(check[r])])
  /\ IF by = {} THEN UNCHANGED repoVars ELSE Delete(i, by, fault)
  /\ fresh' = [v \in Users |->
       IF fresh[v] = i /\ "postgres" \in by /\ fault # "error" THEN 0 ELSE fresh[v]]
  /\ faithful' = (faithful /\ fault = "ok")
  /\ UNCHANGED <<files, made, publisher>>

-----------------------------------------------------------------------------

Outcomes == {"ok", "error", "lost"}
Headers == {"missing", "notUuid", "nilUuid"} \cup Users

Next ==
  \/ TooMany
  \/ \E h \in Header, f \in Form : UploadRefused(h, f) \/ UploadUnread(h, f)
  \/ \E u \in Users, f \in Form, s, d \in Outcomes : Upload(u, f, s, d)
  \/ \E i \in PathId, d \in Outcomes :
       GetAvatarMetadata(i, d) \/ \E original \in BOOLEAN : GetAvatar(i, original, d)
  \/ \E u \in Headers, d \in Outcomes :
       GetUserAvatar(u, d) \/ \E h \in Header : GetUserAvatars(h, u, d)
  \/ \E h \in Header, i \in PathId, u \in Headers, fault \in Faults :
       DeleteAvatar(h, i, u, fault)

Spec == Init /\ [][Next]_vars

-----------------------------------------------------------------------------
(* What docs.go says each route may answer                                 *)

ListCodes     == {200, 400}
UploadCodes   == {201, 400, 401, 413}
GetCodes      == {307, 400, 404}
DeleteCodes   == {204, 400, 401, 403, 404}
MetadataCodes == {200, 400, 404}
UserCodes     == {307, 400}

Documented ==
  CASE op = "list"     -> ListCodes
    [] op = "upload"   -> UploadCodes
    [] op = "get"      -> GetCodes
    [] op = "delete"   -> DeleteCodes
    [] op = "metadata" -> MetadataCodes
    [] op = "user"     -> UserCodes
    [] OTHER           -> {}

-----------------------------------------------------------------------------

(* Clients get no codes but those the documents list for the route, with   *)
(* either repository, except for three: 429 anywhere, 401 of the list      *)
(* without a token, and 500, which takes a call that failed or a server    *)
(* without RabbitMQ.  Of a listed code that is never given it says         *)
(* nothing: 413 is listed for a file that is too large, which is answered  *)
(* 400, like every error of the service.                                   *)
OnlyListedCodes ==
  \A r \in Repos :
    \/ op = "none"
    \/ answer[r].code \in Documented
    \/ op = "limited" /\ answer[r].code = 429
    \/ op = "list" /\ answer[r].code = 401
    \/ answer[r].code = 500 /\ (mishaps > 0 \/ publisher = "nil")

(* Env "test" answers as the deployed service does: as long as the calls   *)
(* to Postgres go well and content types fit the column, the map holds     *)
(* what the table lists, and every answer is the same, except that of a    *)
(* user's avatars any may come first.                                      *)
SameAnswers ==
  faithful =>
    /\ Selected = map
    /\ answer["postgres"].code # 500 =>
         /\ answer["postgres"].code = answer["memory"].code
         /\ op # "user" => answer["postgres"] = answer["memory"]
         /\ (answer["postgres"].to = "default") <=> (answer["memory"].to = "default")

(* A request that is refused, though nothing failed, has changed no row    *)
(* and no entry of the map, if the server has its publisher; and one that  *)
(* was refused before NewAvatar no file.  An upload the column refuses     *)
(* leaves its file in the bucket, with no row that names it.               *)
RefusalLeavesNoRow ==
  [][mishaps' = mishaps /\ publisher = "open" =>
       /\ answer'["postgres"].code >= 400 => UNCHANGED rows
       /\ answer'["memory"].code >= 400 => UNCHANGED map
       /\ answer'["postgres"].code >= 400 /\ made' = made => UNCHANGED files]_vars

(* What a user uploaded last, and was told 201 of, is what others are      *)
(* shown of the user, until it is deleted or another upload gets a row.    *)
FreshIsShown ==
  \A u \in Users : fresh[u] # 0 =>
    UserAnswers("postgres", u) = {[code |-> 307, to |-> "file", shows |-> {fresh[u]}]}

-----------------------------------------------------------------------------
(* Over either repository, the API implements Gallery.                     *)

OfTable == INSTANCE Gallery
             WITH held <- Selected, used <- 1..made,
                  code <- answer["postgres"].code, shows <- answer["postgres"].shows

OfMap == INSTANCE Gallery
           WITH held <- map, used <- 1..made,
                code <- answer["memory"].code, shows <- answer["memory"].shows

(* Whatever fails and whoever asks: what 201 and 204 say is done, what is  *)
(* shown exists, no avatar changes, none comes back from deletion, and no  *)
(* other answer has done anything; except for a 500 or 400 of an upload or *)
(* a deletion that went wrong half way.                                    *)
TableImplementsGallery == OfTable!Spec

MapImplementsGallery == OfMap!Spec

=============================================================================
