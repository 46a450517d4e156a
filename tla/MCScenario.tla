----------------------------- MODULE MCScenario -----------------------------
(* Instances of Scenario for TLC.                                          *)
EXTENDS Scenario, FiniteSets

CONSTANTS c1, c2, s1, s2

Token     == <<1, 2>>
Bearer(t) == [scheme |-> "bearer", token |-> t]
GoodAuth  == Bearer(Token)

B64  == [id |-> s1, base64 |-> TRUE,  pem |-> FALSE]
Text == [id |-> s1, base64 |-> FALSE, pem |-> FALSE]
Pem  == [id |-> s2, base64 |-> FALSE, pem |-> TRUE]

NoHeaders == [h \in {} |-> ""]
XSig      == [h \in {"X-Sig"} |-> "v"]
XOther    == [h \in {"X-Other"} |-> "v"]
Both      == [h \in {"X-Sig", "X-Other"} |-> "v"]
Typed     == [h \in {"X-Sig", "Content-Type"} |-> "application/json"]

Request(auth, verifier, secret, matches, payload, headers, verified, timeout) ==
  [authorization |-> auth, verifier |-> verifier, secret |-> secret,
   matches |-> matches, payload |-> payload, config_headers |-> headers,
   url_verified |-> verified, timeout |-> timeout]

Plain(verifier) ==
  Request(GoodAuth, verifier, None, {"event"}, None, NoHeaders, FALSE, "ahead")

\* An event that is accepted and one that is refused; both calls of a pair may
\* use the same secret, and wait for the same field.
FewRequests ==
  {[Plain("HMAC_BASED") EXCEPT !.secret = B64],
   [Plain("HEADER_BASED") EXCEPT !.config_headers = Both]}

\* Every verifier with the fields that matter to it, right and wrong.
ManyRequests ==
  {[Plain(v) EXCEPT !.authorization = a] :
      v \in {"HMAC_BASED", "CUSTOM"},
      a \in {None, GoodAuth, Bearer(<<1>>), Bearer(<<1, 2, 3>>), Bearer(<<2, 1>>),
             [scheme |-> "basic", token |-> Token]}}
  \cup {[Plain(v) EXCEPT !.secret = s] :
      v \in {"HMAC_BASED", "SIGNATURE_BASED", "TWITTER", "SENDGRID"},
      s \in {None, B64, Text, Pem}}
  \cup {[Plain("HEADER_BASED") EXCEPT !.config_headers = h] :
      h \in {NoHeaders, XSig, XOther, Both, Typed}}
  \cup {[Plain("SLACK_BASED") EXCEPT !.url_verified = b, !.payload = p] :
      b \in BOOLEAN, p \in {None, {"event", "challenge"}}}
  \cup {[Plain("STRIPE") EXCEPT !.matches = m, !.payload = p] :
      m \in {{"event"}, {"event", "api_version"}, {"event", "api_version", "dollar"}},
      p \in {None, {}, {"event", "api_version"}}}
  \cup {[Plain("SIGNATURE_BASED") EXCEPT !.matches = m, !.payload = p] :
      m \in {{"event"}, {"event", "nested"}, {"dollar"}},
      p \in {None, {}, {"event", "nested"}}}
  \cup {[Plain("HMAC_BASED") EXCEPT !.timeout = "passed"]}
=============================================================================
