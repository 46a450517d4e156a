----------------------------- MODULE MCEmitter -----------------------------
(* Instances of Emitter for TLC.                                           *)
EXTENDS Emitter, TLC

CONSTANTS r1, r2

Token     == <<1, 2>>
Bearer(token) == [scheme |-> "bearer", token |-> token]
GoodAuth  == Bearer(Token)
Shorter   == Bearer(<<1>>)
Longer    == Bearer(<<1, 2, 1>>)

Key(id)   == [id |-> id, base64 |-> TRUE, pem |-> FALSE]
BadKey    == [id |-> "bad", base64 |-> FALSE, pem |-> FALSE]

Payload(fields, value) == [f \in fields |-> value]

Delivery(verifier, secret, payload) ==
  [target |-> "http", verifier |-> verifier, secret |-> secret, header_name |-> "X-Sig",
   header_value |-> "", payload |-> payload]

Template(version) ==
  Delivery("HMAC_BASED", Key(version), Payload({"event", "ref"}, version))
    @@ [valid |-> TRUE]

Bad == [Template("bad") EXCEPT !.valid = FALSE]

File(names, t) == [n \in names |-> t]

\* No file, two versions of a good one, and one with an entry that is no Template.
SomeFiles == {None, File({"hook"}, Template("v1")), File({"hook"}, Template("v2")),
              File({"hook"}, Template("v1")) @@ File({"broken"}, Bad)}

Call(endpoint, auth) ==
  [endpoint |-> endpoint, authorization |-> auth, name |-> "hook",
   payload |-> Payload({"event"}, "mine"),
   delivery |-> Delivery("HMAC_BASED", Key("k"), Payload({"event"}, "mine"))
                  @@ [timestamp |-> "None"]]

SomeRequests ==
  {Call("healthz", None), Call("templates", GoodAuth), Call("fire", GoodAuth),
   Call("fire", Shorter), Call("fire-named", GoodAuth), Call("fire-named", Longer),
   Call("templates", None), Call("scenario", GoodAuth)}
  \cup {[Call("fire", GoodAuth) EXCEPT !.delivery.verifier = "CUSTOM"],
        [Call("fire", GoodAuth) EXCEPT !.delivery.secret = BadKey],
        [Call("fire", GoodAuth) EXCEPT !.delivery.verifier = "STRIPE",
                                       !.delivery.target = "not a URL"]}
=============================================================================
