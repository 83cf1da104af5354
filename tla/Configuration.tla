--------------------------- MODULE Configuration ---------------------------
(***************************************************************************)
(* config.New: the flags, defaults, then the JSON file of -c, then the     *)
(* environment with what .env adds to it, then Validate.  A value is known *)
(* by where it comes from and by what Validate and ParseDuration can tell  *)
(* of its text.                                                            *)
(***************************************************************************)
EXTENDS Naturals

CONSTANTS Fields,    \* the settings a run looks at
          EnvFields  \* those of them that have an environment variable

ASSUME FieldsAssumption == EnvFields \subseteq Fields

(* "weak": not empty, but shorter than 32 characters and no duration.      *)
Texts == {"empty", "weak", "good"}

Value == [from: {"default", "json", "dotenv", "env"}, text: Texts]

(* What a source says of the fields: "unset" not to mention one, and, in   *)
(* a JSON file, "mistyped" for a value of a type the field does not have   *)
(* (as "10s" for shutdown_timeout, which is a number of nanoseconds).      *)
Environment == [EnvFields -> Texts \cup {"unset"}]

JSONFile == [Fields -> Texts \cup {"unset", "mistyped"}] \cup {[broken |-> TRUE]}

(* "bad": flags that flag.Parse does not know, or -h.                      *)
Sources == [flags: {"good", "bad"},
            json: JSONFile, dotenv: Environment, env: Environment]

-----------------------------------------------------------------------------

Defaults == [f \in Fields |-> [from |-> "default", text |-> "good"]]

(* No -c, or a file that cannot be read or is no JSON: only a warning, and *)
(* nothing is taken from it.  Of a file with a mistyped value the others   *)
(* are taken: Unmarshal goes on, and its error is a warning too.           *)
WithJSON(cfg, json) ==
  [f \in Fields |->
     IF f \in DOMAIN json /\ json[f] \in Texts
     THEN [from |-> "json", text |-> json[f]] ELSE cfg[f]]

(* Mutant: godotenv.Overload for godotenv.Load.                            *)
DotEnvOverloads(dotenv, env) ==
  [f \in EnvFields |->
     IF dotenv[f] # "unset" THEN [from |-> "dotenv", text |-> dotenv[f]]
                            ELSE [from |-> "env", text |-> env[f]]]

(* godotenv.Load sets the variables that are not set: one that is set and  *)
(* empty stays empty.                                                      *)
WithDotEnv(dotenv, env) ==
  [f \in EnvFields |->
     IF env[f] = "unset" THEN [from |-> "dotenv", text |-> dotenv[f]]
                         ELSE [from |-> "env", text |-> env[f]]]

(* overwriteFromEnv takes what is not empty.                               *)
Speaks(f, environ) == f \in EnvFields /\ environ[f].text \notin {"unset", "empty"}

Overwritten(cfg, environ) ==
  [f \in Fields |-> IF Speaks(f, environ) THEN environ[f] ELSE cfg[f]]

(* JWT_ACCESS_TTL is the one variable that has to parse.                   *)
Unparsable(environ) == /\ Speaks("ttl", environ)
                       /\ environ["ttl"].text = "weak"

Loaded(s) == Overwritten(WithJSON(Defaults, s.json), WithDotEnv(s.dotenv, s.env))

Required == {"port", "dsn", "endpoint", "bucket", "broker", "secret"}

Validate(cfg) ==
  /\ \A f \in Required \cap Fields : cfg[f].text # "empty"
  /\ "secret" \in Fields => cfg["secret"].text = "good"

(* New returns a configuration, and no error.  With flags it cannot parse  *)
(* it does not return: flag.CommandLine is an ExitOnError set, and the     *)
(* warning after Parse is never written.                                   *)
Accepted(s) == /\ s.flags = "good"
               /\ ~Unparsable(WithDotEnv(s.dotenv, s.env))
               /\ Validate(Loaded(s))

-----------------------------------------------------------------------------

Rank(from) == CASE from = "default" -> 0 [] from = "json" -> 1
                [] from = "dotenv" -> 2  [] from = "env" -> 3

(* The places a field may be set, with what they say of it.                *)
Offers(s, f) ==
  {[from |-> "default", text |-> "good"]}
  \cup {v \in Value : v.from = "json" /\ f \in DOMAIN s.json /\ s.json[f] = v.text}
  \cup {v \in Value : /\ f \in EnvFields /\ v.text # "empty"
                      /\ \/ v.from = "dotenv" /\ s.dotenv[f] = v.text
                         \/ v.from = "env" /\ s.env[f] = v.text}

(* Of the places that offer a value the environment comes first, then      *)
(* .env, then the file, then the default, whatever else is set or broken;  *)
(* with one exception: a variable set to nothing hides the .env file.      *)
HighestWins(s) ==
  \A f \in Fields :
    LET heard == {v \in Offers(s, f) :
                    ~(v.from = "dotenv" /\ s.env[f] = "empty")}
    IN /\ Loaded(s)[f] \in heard
       /\ \A v \in heard : Rank(v.from) <= Rank(Loaded(s)[f].from)

=============================================================================
