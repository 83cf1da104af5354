------------------------------- MODULE MCLife -------------------------------
(* ProcessLife, with Configuration, on a small instance.                   *)
EXTENDS ProcessLife

Silent == [f \in EnvFields |-> "unset"]

(* A deployment that sets the secret in three places, and is accepted in   *)
(* spite of a file with a duration written as a string.                    *)
Mixed == [flags  |-> "good",
          json   |-> [secret |-> "weak", ttl |-> "good", shutdown |-> "mistyped"],
          dotenv |-> [Silent EXCEPT !["secret"] = "weak"],
          env    |-> [Silent EXCEPT !["secret"] = "good"]]

(* Every way to set the secret, the rest left alone.                       *)
Files == {[broken |-> TRUE]}
           \cup {[f \in Fields |-> IF f = "secret" THEN t ELSE "unset"] :
                   t \in Texts \cup {"unset", "mistyped"}}
Environs == {[Silent EXCEPT !["secret"] = t] : t \in Texts \cup {"unset"}}

(* Those that are refused, two more for a TTL that does not parse and for  *)
(* bad flags.                                                              *)
Deployments ==
  {Mixed, [Mixed EXCEPT !.env["ttl"] = "weak"], [Mixed EXCEPT !.flags = "bad"]}
    \cup {s \in [flags: {"good"}, json: Files, dotenv: Environs, env: Environs] : ~Accepted(s)}
=============================================================================
