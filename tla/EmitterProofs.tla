---------------------------- MODULE EmitterProofs ----------------------------
(***************************************************************************)
(* Theorems about Emitter, for any calls, requests, config files and size  *)
(* of the thread pool.                                                     *)
(*                                                                         *)
(* A message may reach the target long after its call was answered, or the *)
(* process has died.  What is known of it by then has to be carried from   *)
(* the Post on: Traced does so for the call's right to send, Once for the  *)
(* number of messages and Refusal for the calls that sent none.            *)
(***************************************************************************)
EXTENDS Emitter, TLAPS, SequenceTheorems

\* Some trace of the call's event, sent, under way or delivered.
OnWire(r) == \E m \in wire : m.from = r

Trace(r) == sent[r] # None \/ OnWire(r) \/ deliveries[r] > 0

\* A process has the templates of the file it read, and one that is down has no calls.
OwnTemplates ==
  /\ serving => /\ Loadable(loaded)
                /\ templates = IF loaded = None THEN NoTemplates ELSE loaded
  /\ ~ serving => Live = {}

Open(q) == q.endpoint \in {"healthz", "verifiers"}

\* What a call is entitled to where it is, and by its answer.
Admitted(r) ==
  /\ pc[r] = "admitted" => RequireToken(req[r].authorization)
  /\ pc[r] = "posting"  => Fires(req[r]) /\ RequireToken(req[r].authorization)
  /\ pc[r] = "running"  => ~ Fires(req[r]) /\ RequireToken(req[r].authorization)
  /\ pc[r] # "answered" => answer[r] = None
  /\ answer[r] # None /\ ~ Open(req[r]) /\ answer[r].http # 401
       => RequireToken(req[r].authorization)
  /\ pc[r] # "idle" => req[r] \in Requests

\* Only an admitted call leaves a trace, and only from its Post on.
Traced(r) ==
  Trace(r) => /\ pc[r] \in {"posting", "answered", "dropped"}
              /\ Fires(req[r]) /\ RequireToken(req[r].authorization)

\* One event per call, in one place.
Once(r) ==
  /\ deliveries[r] \in {0, 1}
  /\ OnWire(r) => deliveries[r] = 0
  /\ \A m, n \in wire : m.from = r /\ n.from = r => m = n
  /\ reply[r] # None => deliveries[r] = 1

\* A call that is told it was refused left no trace.
Refusal(r) == Told(r) = "refused" => deliveries[r] = 0 /\ ~ OnWire(r)

CallInv == \A r \in Callers : Admitted(r) /\ Traced(r) /\ Once(r) /\ Refusal(r)

Shape == DOMAIN sent = Callers /\ DOMAIN answer = Callers /\ DOMAIN reply = Callers

IInv == TypeOK /\ Shape /\ OwnTemplates /\ CallInv /\ SentAsConfigured

-----------------------------------------------------------------------------
(* What a signer makes of a delivery.                                      *)

\* Two strings are equal to _consteq exactly when they are.
LEMMA ConsteqIsEquality ==
  ASSUME NEW S, NEW a \in Seq(S), NEW b \in Seq(S)
  PROVE  Consteq(a, b) <=> a = b
<1>1. Consteq(a, b) => a = b
  <2>1. SUFFICES ASSUME Consteq(a, b) PROVE a = b
    OBVIOUS
  <2>2. Len(a) = Len(b) /\ DOMAIN a = 1 .. Len(a) /\ DOMAIN b = 1 .. Len(b)
    BY <2>1, LenProperties DEF Consteq
  <2>3. \A i \in 1 .. Len(a) : a[i] = b[i]
    BY <2>1, <2>2 DEF Consteq
  <2>4. QED
    BY <2>2, <2>3, SeqEqual
<1>2. a = b => Consteq(a, b)
  BY DEF Consteq
<1>3. QED
  BY <1>1, <1>2

LEMMA MacFields ==
  ASSUME NEW scheme, NEW key, NEW body, NEW ts
  PROVE  /\ Mac(scheme, key, body, ts).scheme = scheme
         /\ Mac(scheme, key, body, ts).key = key
         /\ Mac(scheme, key, body, ts).body = body
  BY DEF Mac

LEMMA HeadersHold ==
  ASSUME NEW names, NEW value, NEW h \in DOMAIN Headers(names, value).headers
  PROVE  Headers(names, value).headers[h] = value
  BY DEF Headers

LEMMA StampedHold ==
  ASSUME NEW stampName, NEW macName, NEW mac,
         NEW h \in DOMAIN Stamped(stampName, macName, mac).headers
  PROVE  \/ Stamped(stampName, macName, mac).headers[h] = mac
         \/ Stamped(stampName, macName, mac).headers[h].scheme = "stamp"
<1>1. Mac("stamp", "", {}, mac.ts).scheme = "stamp"
  BY DEF Mac
<1>2. QED
  BY <1>1 DEF Stamped

\* A header is a literal, a timestamp, or made from the secret over the payload.
LEMMA SignsThePayload ==
  ASSUME NEW d, NEW s, s = Signing(d), NEW h \in DOMAIN s.headers
  PROVE  \/ s.headers[h].scheme \in {"literal", "stamp"}
         \/ /\ s.headers[h].key = d.secret.id
            /\ s.headers[h].body = d.payload
<1> DEFINE ctx == SigningContext(d.secret, d.payload, d.header_name, d.header_value, d.timestamp)
<1>1. ctx.secret = d.secret /\ ctx.body = d.payload
  BY DEF SigningContext
<1>2. s = Sign(d.verifier, ctx)
  BY DEF Signing
<1> HIDE DEF ctx
<1>3. CASE d.verifier = "HMAC_BASED"
  <2>1. s = HmacBased(ctx)
    BY <1>2, <1>3, Zenon DEF Sign
  <2>2. QED
    BY <1>1, <2>1 DEF HmacBased, Headers, Raises, Mac
<1>4. CASE d.verifier = "SIGNATURE_BASED"
  <2>1. s = SignatureBased(ctx)
    BY <1>2, <1>4, Zenon DEF Sign
  <2>2. QED
    BY <1>1, <2>1 DEF SignatureBased, Headers, Mac
<1>5. CASE d.verifier = "HEADER_BASED"
  <2>1. s = HeaderBased(ctx)
    BY <1>2, <1>5, Zenon DEF Sign
  <2>2. QED
    BY <1>1, <2>1 DEF HeaderBased, Headers, Literal, Mac
<1>6. CASE d.verifier = "SLACK_BASED"
  <2>1. s = SlackBased(ctx)
    BY <1>2, <1>6, Zenon DEF Sign
  <2>2. PICK ts : s = Stamped("X-Slack-Request-Timestamp", "X-Slack-Signature",
                              Mac("v0=hex", d.secret.id, d.payload, ts))
    BY <1>1, <2>1 DEF SlackBased
  <2>3. QED
    BY <2>2, StampedHold, MacFields
<1>7. CASE d.verifier = "STRIPE"
  <2>1. s = Stripe(ctx)
    BY <1>2, <1>7, Zenon DEF Sign
  <2>2. PICK scheme, ts :
          s = Headers({"Stripe-Signature"}, Mac(scheme, ctx.secret.id, ctx.body, ts))
    BY <2>1, Zenon DEF Stripe
  <2>3. s = Headers({"Stripe-Signature"}, Mac(scheme, d.secret.id, d.payload, ts))
    BY <1>1, <2>2
  <2>4. s.headers[h] = Mac(scheme, d.secret.id, d.payload, ts)
    BY <2>3, HeadersHold
  <2>5. QED
    BY <2>4, MacFields
<1>8. CASE d.verifier = "TWITTER"
  <2>1. s = Twitter(ctx)
    BY <1>2, <1>8, Zenon DEF Sign
  <2>2. QED
    BY <1>1, <2>1 DEF Twitter, Headers, Mac
<1>9. CASE d.verifier = "SENDGRID"
  <2>1. s = Sendgrid(ctx)
    BY <1>2, <1>9, Zenon DEF Sign
  <2>2. CASE CryptographyInstalled /\ ctx.secret.pem
    <3>1. PICK ts : s = Stamped("X-Twilio-Email-Event-Webhook-Timestamp",
                                "X-Twilio-Email-Event-Webhook-Signature",
                                Mac("ecdsa", d.secret.id, d.payload, ts))
      BY <1>1, <2>1, <2>2 DEF Sendgrid
    <3>2. QED
      BY <3>1, StampedHold, MacFields
  <2>3. CASE ~ (CryptographyInstalled /\ ctx.secret.pem)
    BY <2>1, <2>3 DEF Sendgrid, Raises
  <2>4. QED
    BY <2>2, <2>3
<1>10. CASE d.verifier \notin Verifiers
  BY <1>2, <1>10 DEF Sign, Raises, Verifiers
<1>11. QED
  BY <1>3, <1>4, <1>5, <1>6, <1>7, <1>8, <1>9, <1>10 DEF Verifiers

\* The message of a named template is that template, filled in.
LEMMA MessageFits ==
  ASSUME NEW r, NEW q, NEW f \in Files, f # None, templates = f,
         q.endpoint = "fire-named", q.name \in DOMAIN f
  PROVE  FitsTemplate(Message(r, FireRequest(q)), q, f)
<1> DEFINE t == f[q.name]
           d == FireRequest(q)
           m == Message(r, d)
<1>1. {"target", "secret", "payload"} \subseteq DOMAIN t
  BY FilesHoldTemplates
<1>2. d = Override([timestamp |-> "None"], [t EXCEPT !.payload = Body(t, q.payload)])
  BY DEF FireRequest
<1>3. d.target = t.target /\ d.secret = t.secret /\ d.payload = Body(t, q.payload)
  BY <1>1, <1>2 DEF Override
<1>4. m.target = d.target /\ m.body = d.payload
  BY DEF Message
<1> HIDE DEF d
<1>5. \A h \in Signatures(m) : m.headers[h].key = d.secret.id /\ m.headers[h].body = d.payload
  <2>1. SUFFICES ASSUME NEW h \in Signatures(m)
                 PROVE  m.headers[h].key = d.secret.id /\ m.headers[h].body = d.payload
    OBVIOUS
  <2>2. m.headers = Override([x \in {"Content-Type"} |-> Literal("application/json")],
                         Signing(d).headers)
    BY DEF Message
  <2>3. h \in DOMAIN Signing(d).headers /\ m.headers[h] = Signing(d).headers[h]
    BY <2>1, <2>2 DEF Signatures, Literal, Mac, Override
  <2>4. QED
    BY <2>1, <2>3, SignsThePayload DEF Signatures
<1>6. \A field \in DOMAIN m.body :
        m.body[field] = IF field \in DOMAIN q.payload THEN q.payload[field] ELSE t.payload[field]
  BY <1>3, <1>4 DEF Body, Override
<1>7. QED
  BY <1>3, <1>4, <1>5, <1>6 DEF FitsTemplate, d

-----------------------------------------------------------------------------
(* The inductive invariant, action by action.                              *)

CallKnown(r) == Admitted(r) /\ Traced(r) /\ Once(r) /\ Refusal(r)

\* What is known of a call stays so while the call, its messages and the target's
\* answer to it are left alone.
LEMMA CallKept ==
  ASSUME NEW r \in Callers, CallKnown(r),
         pc'[r] = pc[r], req'[r] = req[r], sent'[r] = sent[r], answer'[r] = answer[r],
         deliveries'[r] = deliveries[r], reply'[r] = reply[r],
         \A m : m.from = r => (m \in wire' <=> m \in wire)
  PROVE  CallKnown(r)'
<1>1. OnWire(r)' <=> OnWire(r)
  BY DEF OnWire
<1>2. Admitted(r)' /\ Traced(r)'
  BY <1>1 DEF CallKnown, Admitted, Traced, Trace
<1>3. Once(r)'
  BY <1>1 DEF CallKnown, Once
<1>4. Told(r)' = Told(r)
  BY DEF Told
<1>5. Refusal(r)'
  BY <1>1, <1>4 DEF CallKnown, Refusal
<1>6. QED
  BY <1>2, <1>3, <1>5 DEF CallKnown

\* The templates and the configured messages, while the process and the POSTs are
\* left alone.
LEMMA ProcessKept ==
  ASSUME OwnTemplates, SentAsConfigured, UNCHANGED <<processVars, sent>>,
         Live' \subseteq Live,
         \A r \in Callers : pc'[r] = "posting" => pc[r] = "posting" /\ req'[r] = req[r]
  PROVE  OwnTemplates' /\ SentAsConfigured'
<1>1. OwnTemplates'
  BY DEF OwnTemplates, processVars
<1>2. SentAsConfigured'
  BY DEF SentAsConfigured, processVars
<1>3. QED
  BY <1>1, <1>2

LEMMA InitIInv == Init => IInv
<1>1. SUFFICES ASSUME Init PROVE IInv
  OBVIOUS
<1>2. TypeOK /\ Shape
  BY <1>1 DEF Init, TypeOK, Shape
<1>3. OwnTemplates /\ SentAsConfigured
  BY <1>1 DEF Init, OwnTemplates, SentAsConfigured, Live
<1>4. ASSUME NEW r \in Callers PROVE CallKnown(r)
  BY <1>1, <1>4 DEF Init, CallKnown, Admitted, Traced, Trace, OnWire, Once, Refusal, Told
<1>5. QED
  BY <1>2, <1>3, <1>4 DEF IInv, CallInv, CallKnown

LEMMA BootKeeps == ASSUME IInv, Boot PROVE IInv'
<1>1. TypeOK' /\ Shape'
  BY DEF Boot, callVars, targetVars, IInv, TypeOK, Shape
<1>2. \A r \in Callers : pc[r] # "posting"
  BY DEF Boot, IInv, OwnTemplates, Live
<1>3. OwnTemplates' /\ SentAsConfigured'
  BY <1>2 DEF Boot, callVars, OwnTemplates, SentAsConfigured
<1>4. ASSUME NEW r \in Callers PROVE CallKnown(r)'
  BY <1>4, CallKept DEF Boot, callVars, targetVars, IInv, CallInv, CallKnown
<1>5. QED
  BY <1>1, <1>3, <1>4 DEF IInv, CallInv, CallKnown
LEMMA CrashKeeps == ASSUME IInv, Crash PROVE IInv'
<1>1. /\ UNCHANGED <<file, req, sent, answer, targetVars>>
      /\ \A r \in Callers : pc'[r] = IF r \in Live THEN "dropped" ELSE pc[r]
  BY DEF Crash
<1>2. \A r \in Callers : pc'[r] \notin {"received", "admitted", "posting", "running"}
  BY <1>1 DEF Live
<1>3. TypeOK' /\ Shape'
  <2>1. pc' \in [Callers -> {"idle", "received", "admitted", "posting", "running",
                             "answered", "dropped"}]
    BY DEF Crash, IInv, TypeOK
  <2>2. /\ serving' \in BOOLEAN /\ loaded' = None
        /\ UNCHANGED <<file, req, sent, answer, wire, deliveries, reply>>
    BY DEF Crash, targetVars
  <2>3. QED
    BY <2>1, <2>2 DEF IInv, TypeOK, Shape
<1>4. OwnTemplates' /\ SentAsConfigured'
  BY <1>2 DEF Crash, OwnTemplates, SentAsConfigured, Live
<1>5. ASSUME NEW r \in Callers PROVE CallKnown(r)'
  <2>1. CallKnown(r)
    BY DEF IInv, CallInv, CallKnown
  <2>2. CASE r \notin Live
    BY <1>1, <2>1, <2>2, CallKept DEF targetVars
  <2>3. CASE r \in Live
    <3>1. pc'[r] = "dropped" /\ Told(r)' = "unknown"
      BY <1>1, <2>3 DEF Told
    <3>2. Trace(r)' <=> Trace(r)
      BY <1>1 DEF Trace, OnWire, targetVars
    <3>3. QED
      BY <1>1, <2>1, <2>3, <3>1, <3>2
      DEF Live, CallKnown, Admitted, Open, Traced, Once, OnWire, Refusal, targetVars
  <2>4. QED
    BY <2>2, <2>3
<1>6. QED
  BY <1>3, <1>4, <1>5 DEF IInv, CallInv, CallKnown

LEMMA EditKeeps == ASSUME IInv, NEW f \in Files, Edit(f) PROVE IInv'
<1>1. TypeOK' /\ Shape'
  BY DEF Edit, processVars, callVars, targetVars, IInv, TypeOK, Shape
<1>2. OwnTemplates' /\ SentAsConfigured'
  <2>1. UNCHANGED <<processVars, sent, pc, req>> /\ Live' = Live
    BY DEF Edit, callVars, Live
  <2>2. QED
    BY <2>1, ProcessKept DEF IInv
<1>3. ASSUME NEW r \in Callers PROVE CallKnown(r)'
  BY <1>3, CallKept DEF Edit, callVars, targetVars, IInv, CallInv, CallKnown
<1>4. QED
  BY <1>1, <1>2, <1>3 DEF IInv, CallInv, CallKnown

\* A step of call r leaves the other calls alone.
LEMMA OthersKept ==
  ASSUME IInv, NEW r \in Callers, CallKnown(r)',
         \A c \in Callers \ {r} :
           /\ pc'[c] = pc[c] /\ req'[c] = req[c] /\ sent'[c] = sent[c]
           /\ answer'[c] = answer[c] /\ deliveries'[c] = deliveries[c] /\ reply'[c] = reply[c],
         \A m : m.from # r => (m \in wire' <=> m \in wire)
  PROVE  CallInv'
<1>1. ASSUME NEW c \in Callers \ {r} PROVE CallKnown(c)'
  BY <1>1, CallKept DEF IInv, CallInv, CallKnown
<1>2. QED
  BY <1>1 DEF CallInv, CallKnown

LEMMA ArriveKeeps == ASSUME IInv, NEW r \in Callers, NEW q \in Requests, Arrive(r, q) PROVE IInv'
<1>1. TypeOK' /\ Shape'
  BY DEF Arrive, processVars, targetVars, IInv, TypeOK, Shape
<1>2. /\ pc' = [pc EXCEPT ![r] = "received"] /\ req' = [req EXCEPT ![r] = q]
      /\ pc[r] = "idle" /\ serving
      /\ UNCHANGED <<file, processVars, sent, answer, targetVars>>
  BY DEF Arrive
<1>3. /\ pc'[r] = "received" /\ req'[r] = q
      /\ \A c \in Callers \ {r} : pc'[c] = pc[c] /\ req'[c] = req[c]
  BY <1>2 DEF IInv, TypeOK
<1>4. OwnTemplates' /\ SentAsConfigured'
  BY <1>2, <1>3 DEF IInv, OwnTemplates, SentAsConfigured, processVars
<1>5. CallKnown(r)'
  <2>1. ~ Trace(r) /\ CallKnown(r)
    BY <1>2 DEF IInv, CallInv, CallKnown, Traced
  <2>2. ~ Trace(r)' /\ Told(r)' = "nothing"
    BY <1>2, <1>3, <2>1 DEF Trace, OnWire, Told, targetVars
  <2>3. QED
    BY <1>2, <1>3, <2>1, <2>2
    DEF CallKnown, Admitted, Open, Traced, Once, OnWire, Refusal, targetVars
<1>6. CallInv'
  BY <1>2, <1>3, <1>5, OthersKept DEF targetVars
<1>7. QED
  BY <1>1, <1>4, <1>6 DEF IInv
\* The end of a call, whatever it is told, provided that a refused one left no trace.
LEMMA AnswerKeeps ==
  ASSUME IInv, NEW r \in Callers,
         NEW http \in {200, 400, 401, 404, 500, 502}, NEW status \in {None, "2xx", "4xx"},
         NEW listing, Answer(r, http, status, listing),
         UNCHANGED <<file, processVars, req, sent, targetVars>>,
         pc[r] \in {"received", "admitted", "posting", "running"},
         Fires(req[r]) /\ http \notin {200, 502} => ~ Trace(r),
         ~ Open(req[r]) /\ http # 401 => RequireToken(req[r].authorization)
  PROVE  IInv'
<1>1. /\ pc' = [pc EXCEPT ![r] = "answered"]
      /\ answer' = [answer EXCEPT ![r] = [http |-> http, status |-> status, listing |-> listing]]
  BY DEF Answer
<1>2. pc'[r] = "answered" /\ \A c \in Callers \ {r} : pc'[c] = pc[c]
  BY <1>1 DEF IInv, TypeOK
<1>3. /\ answer'[r].http = http /\ answer'[r].status = status
      /\ \A c \in Callers \ {r} : answer'[c] = answer[c]
  BY <1>1 DEF IInv, Shape
<1>4. TypeOK' /\ Shape'
  <2>1. pc' \in [Callers -> {"idle", "received", "admitted", "posting", "running",
                             "answered", "dropped"}]
    BY <1>1 DEF IInv, TypeOK
  <2>2. DOMAIN answer' = Callers
    BY <1>1 DEF IInv, Shape
  <2>3. QED
    BY <1>3, <2>1, <2>2 DEF processVars, targetVars, IInv, TypeOK, Shape
<1>5. OwnTemplates' /\ SentAsConfigured'
  <2>1. Live' \subseteq Live
    BY <1>2 DEF Live
  <2>2. QED
    BY <1>2, <2>1, ProcessKept DEF IInv
<1>6. CallKnown(r)'
  <2>1. CallKnown(r) /\ (Trace(r)' <=> Trace(r)) /\ (OnWire(r)' <=> OnWire(r))
    BY DEF IInv, CallInv, CallKnown, Trace, OnWire, targetVars
  <2>2. Told(r)' = "refused" => deliveries[r] = 0 /\ ~ OnWire(r)
    <3>1. Told(r)' = "refused" => Fires(req[r]) /\ http \notin {200, 502}
      BY <1>2, <1>3 DEF Told, Meaning
    <3>2. ~ Trace(r) => deliveries[r] = 0 /\ ~ OnWire(r)
      BY DEF Trace, IInv, TypeOK
    <3>3. QED
      BY <3>1, <3>2
  <2>3. QED
    BY <1>2, <1>3, <2>1, <2>2
    DEF CallKnown, Admitted, Open, Traced, Once, Refusal, targetVars
<1>7. CallInv'
  BY <1>2, <1>3, <1>6, OthersKept DEF targetVars
<1>8. QED
  BY <1>4, <1>5, <1>7 DEF IInv

\* A call that goes on to its next place, without a message.
LEMMA OnwardKeeps ==
  ASSUME IInv, NEW r \in Callers, NEW next \in {"admitted", "running"},
         pc' = [pc EXCEPT ![r] = next],
         UNCHANGED <<file, processVars, req, sent, answer, targetVars>>,
         pc[r] \in {"received", "admitted"},
         ~ Trace(r),
         next = "admitted" => RequireToken(req[r].authorization),
         next = "running" => ~ Fires(req[r]) /\ RequireToken(req[r].authorization)
  PROVE  IInv'
<1>1. pc'[r] = next /\ \A c \in Callers \ {r} : pc'[c] = pc[c]
  BY DEF IInv, TypeOK
<1>2. TypeOK' /\ Shape'
  BY DEF processVars, targetVars, IInv, TypeOK, Shape
<1>3. OwnTemplates' /\ SentAsConfigured'
  <2>1. Live' \subseteq Live
    BY <1>1 DEF Live
  <2>2. QED
    BY <1>1, <2>1, ProcessKept DEF IInv
<1>4. CallKnown(r)'
  <2>1. CallKnown(r) /\ ~ Trace(r)' /\ Told(r)' = "nothing"
    BY <1>1 DEF IInv, CallInv, CallKnown, Trace, OnWire, Told, targetVars
  <2>2. QED
    BY <1>1, <2>1 DEF CallKnown, Admitted, Traced, Once, OnWire, Refusal, targetVars
<1>5. CallInv'
  BY <1>1, <1>4, OthersKept DEF targetVars
<1>6. QED
  BY <1>2, <1>3, <1>5 DEF IInv
\* A call that has not sent yet left no trace.
LEMMA NoTraceYet ==
  ASSUME IInv, NEW r \in Callers, pc[r] \notin {"posting", "answered", "dropped"}
  PROVE  ~ Trace(r)
  BY DEF IInv, CallInv, Traced

LEMMA GateKeeps == ASSUME IInv, NEW r \in Callers, Gate(r) PROVE IInv'
<1>1. pc[r] = "received" /\ ~ Trace(r)
  BY NoTraceYet DEF Gate
<1>2. CASE Answer(r, 401, None, NoTemplates)
  BY <1>1, <1>2, AnswerKeeps DEF Gate
<1>3. CASE RequireToken(req[r].authorization) /\ pc' = [pc EXCEPT ![r] = "admitted"]
           /\ UNCHANGED answer
  BY <1>1, <1>3, OnwardKeeps DEF Gate
<1>4. QED
  BY <1>2, <1>3 DEF Gate

LEMMA ReadyTo ==
  ASSUME IInv, NEW r \in Callers, Ready(r)
  PROVE  /\ pc[r] \in {"received", "admitted"} /\ ~ Trace(r)
         /\ Fires(req[r]) \/ req[r].endpoint \in {"templates", "scenario"}
              => RequireToken(req[r].authorization)
<1>1. pc[r] \in {"received", "admitted"}
  BY DEF Ready
<1>2. Fires(req[r]) \/ req[r].endpoint \in {"templates", "scenario"} => pc[r] = "admitted"
  BY DEF Ready, Protected, Fires
<1>3. QED
  BY <1>1, <1>2, NoTraceYet DEF IInv, CallInv, Admitted

LEMMA InformKeeps == ASSUME IInv, NEW r \in Callers, Inform(r) PROVE IInv'
<1>1. /\ pc[r] \in {"received", "admitted"} /\ ~ Trace(r)
      /\ ~ Open(req[r]) => RequireToken(req[r].authorization)
  BY ReadyTo DEF Inform, Open
<1>2. QED
  BY <1>1, AnswerKeeps DEF Inform

LEMMA RunScenarioKeeps == ASSUME IInv, NEW r \in Callers, RunScenario(r) PROVE IInv'
  BY ReadyTo, OnwardKeeps DEF RunScenario, Fires

LEMMA EndScenarioKeeps == ASSUME IInv, NEW r \in Callers, EndScenario(r) PROVE IInv'
<1>1. PICK http \in {200, 400, 500} : Answer(r, http, None, NoTemplates)
  BY DEF EndScenario
<1>2. ~ Fires(req[r]) /\ RequireToken(req[r].authorization)
  BY DEF EndScenario, IInv, CallInv, Admitted
<1>3. QED
  BY <1>1, <1>2, AnswerKeeps DEF EndScenario

LEMMA RejectKeeps == ASSUME IInv, NEW r \in Callers, Reject(r) PROVE IInv'
<1>1. Ready(r) /\ UNCHANGED <<file, processVars, req, sent, targetVars>>
  BY DEF Reject
<1>2. \/ Answer(r, 404, None, NoTemplates)
      \/ Answer(r, 400, None, NoTemplates)
      \/ Answer(r, 500, None, NoTemplates)
  BY Zenon DEF Reject
<1>3. Fires(req[r])
  BY DEF Reject
<1>4. QED
  BY <1>1, <1>2, <1>3, ReadyTo, AnswerKeeps

LEMMA RespondKeeps == ASSUME IInv, NEW r \in Callers, Respond(r) PROVE IInv'
<1>1. reply[r] \in {None, "2xx", "4xx"} /\ RequireToken(req[r].authorization)
  BY DEF IInv, TypeOK, CallInv, Admitted, Respond
<1>2. QED
  BY <1>1, AnswerKeeps DEF Respond

LEMMA FailKeeps == ASSUME IInv, NEW r \in Callers, Fail(r) PROVE IInv'
<1>1. RequireToken(req[r].authorization)
  BY DEF IInv, CallInv, Admitted, Fail
<1>2. QED
  BY <1>1, AnswerKeeps DEF Fail

LEMMA PostKeeps == ASSUME IInv, NEW r \in Callers, Post(r) PROVE IInv'
<1> DEFINE m == Message(r, FireRequest(req[r]))
<1>1. /\ pc' = [pc EXCEPT ![r] = "posting"] /\ sent' = [sent EXCEPT ![r] = m]
      /\ wire' = wire \cup {m}
      /\ UNCHANGED <<file, processVars, req, answer, deliveries, reply>>
      /\ Ready(r) /\ Fires(req[r]) /\ Known(req[r])
  BY DEF Post
<1>2. m.from = r
  BY DEF Message
<1>3. /\ pc[r] \in {"received", "admitted"} /\ ~ Trace(r)
      /\ RequireToken(req[r].authorization)
  BY <1>1, ReadyTo
<1>4. req[r].endpoint = "fire-named"
        => (FitsTemplate(m, req[r], loaded) /\ loaded # None /\ Loadable(loaded))
  <2>1. SUFFICES ASSUME req[r].endpoint = "fire-named"
                 PROVE  FitsTemplate(m, req[r], loaded) /\ loaded # None /\ Loadable(loaded)
    OBVIOUS
  <2>2. serving
    BY <1>3 DEF IInv, OwnTemplates, Live
  <2>3. req[r].name \in DOMAIN templates
    BY <1>1, <2>1 DEF Known
  <2>4. loaded # None /\ templates = loaded /\ Loadable(loaded)
    BY <2>2, <2>3 DEF IInv, OwnTemplates, NoTemplates
  <2>5. loaded \in Files
    BY <2>4 DEF IInv, TypeOK
  <2>6. QED
    BY <2>1, <2>3, <2>4, <2>5, MessageFits
<1> HIDE DEF m
<1>5. /\ pc'[r] = "posting" /\ sent'[r] = m
      /\ \A c \in Callers \ {r} : pc'[c] = pc[c] /\ sent'[c] = sent[c]
  BY <1>1 DEF IInv, TypeOK, Shape
<1>6. TypeOK' /\ Shape'
  <2>1. pc' \in [Callers -> {"idle", "received", "admitted", "posting", "running",
                             "answered", "dropped"}]
    BY <1>1 DEF IInv, TypeOK
  <2>2. DOMAIN sent' = Callers
    BY <1>1 DEF IInv, Shape
  <2>3. QED
    BY <1>1, <1>2, <1>5, <2>1, <2>2 DEF processVars, IInv, TypeOK, Shape
<1>7. OwnTemplates'
  BY <1>1, <1>3, <1>5 DEF IInv, OwnTemplates, Live, processVars
<1>8. SentAsConfigured'
  BY <1>1, <1>4, <1>5 DEF IInv, SentAsConfigured, Loadable, processVars
<1>9. CallKnown(r)'
  <2>1. CallKnown(r) /\ deliveries[r] = 0 /\ \A n \in wire : n.from # r
    BY <1>3 DEF IInv, TypeOK, CallInv, CallKnown, Trace, OnWire
  <2>2. Admitted(r)' /\ Traced(r)'
    BY <1>1, <1>3, <1>5, <2>1 DEF CallKnown, Admitted, Traced, Open
  <2>3. Once(r)'
    BY <1>1, <2>1 DEF CallKnown, Once
  <2>4. Refusal(r)'
    BY <1>5 DEF Refusal, Told
  <2>5. QED
    BY <2>2, <2>3, <2>4 DEF CallKnown
<1>10. CallInv'
  BY <1>1, <1>2, <1>5, <1>9, OthersKept
<1>11. QED
  BY <1>6, <1>7, <1>8, <1>10 DEF IInv
\* What leaves the wire leaves nothing else of its call there.
LEMMA Leaves ==
  ASSUME IInv, NEW m \in wire, wire' = wire \ {m}
  PROVE  m.from \in Callers /\ ~ OnWire(m.from)' /\ Trace(m.from) /\ deliveries[m.from] = 0
<1>1. m.from \in Callers /\ Once(m.from) /\ OnWire(m.from)
  BY DEF IInv, TypeOK, CallInv, OnWire
<1>2. QED
  BY <1>1 DEF Once, OnWire, Trace

LEMMA ReachKeeps == ASSUME IInv, NEW m \in wire, Reach(m) PROVE IInv'
<1> DEFINE r == m.from
<1>1. r \in Callers /\ ~ OnWire(r)' /\ Trace(r) /\ OnWire(r) /\ deliveries[r] = 0
  BY Leaves DEF Reach, OnWire
<1>2. /\ wire' = wire \ {m} /\ deliveries' = [deliveries EXCEPT ![r] = @ + 1]
      /\ UNCHANGED <<file, processVars, callVars>>
  BY DEF Reach
<1>3. PICK status \in {"2xx", "4xx"} : reply' = [reply EXCEPT ![r] = status]
  BY DEF Reach
<1> HIDE DEF r
<1>4. /\ deliveries'[r] = 1
      /\ \A c \in Callers \ {r} : deliveries'[c] = deliveries[c] /\ reply'[c] = reply[c]
  BY <1>1, <1>2, <1>3 DEF IInv, TypeOK, Shape
<1>5. TypeOK' /\ Shape'
  <2>1. deliveries' \in [Callers -> Nat]
    BY <1>1, <1>2 DEF IInv, TypeOK
  <2>2. DOMAIN reply' = Callers /\ reply'[r] = status
    BY <1>1, <1>3 DEF IInv, Shape
  <2>3. QED
    BY <1>2, <1>4, <2>1, <2>2 DEF processVars, callVars, IInv, TypeOK, Shape
<1>6. OwnTemplates' /\ SentAsConfigured'
  <2>1. Live' = Live
    BY <1>2 DEF Live, callVars
  <2>2. QED
    BY <1>2, <2>1, ProcessKept DEF IInv, callVars
<1>7. CallKnown(r)'
  <2>1. CallKnown(r) /\ Told(r)' = Told(r)
    BY <1>1, <1>2 DEF IInv, CallInv, CallKnown, Told, callVars
  <2>2. Admitted(r)' /\ Traced(r)'
    BY <1>1, <1>2, <2>1 DEF CallKnown, Admitted, Traced, callVars
  <2>3. Once(r)'
    BY <1>1, <1>2, <1>4 DEF Once, OnWire
  <2>4. Refusal(r)'
    BY <1>1, <2>1 DEF CallKnown, Refusal
  <2>5. QED
    BY <2>2, <2>3, <2>4 DEF CallKnown
<1>8. CallInv'
  BY <1>1, <1>2, <1>4, <1>7, OthersKept DEF callVars, r
<1>9. QED
  BY <1>5, <1>6, <1>8 DEF IInv

LEMMA VanishKeeps == ASSUME IInv, NEW m \in wire, Vanish(m) PROVE IInv'
<1> DEFINE r == m.from
<1>1. r \in Callers /\ ~ OnWire(r)' /\ Trace(r)
  BY Leaves DEF Vanish
<1>2. wire' = wire \ {m} /\ UNCHANGED <<file, processVars, callVars, deliveries, reply>>
  BY DEF Vanish
<1>3. TypeOK' /\ Shape'
  BY <1>2 DEF processVars, callVars, IInv, TypeOK, Shape
<1>4. OwnTemplates' /\ SentAsConfigured'
  <2>1. Live' = Live
    BY <1>2 DEF Live, callVars
  <2>2. QED
    BY <1>2, <2>1, ProcessKept DEF IInv, callVars
<1>5. CallKnown(r)'
  <2>1. CallKnown(r) /\ Told(r)' = Told(r)
    BY <1>1, <1>2 DEF IInv, CallInv, CallKnown, Told, callVars
  <2>2. QED
    BY <1>1, <1>2, <2>1
    DEF CallKnown, Admitted, Traced, Once, OnWire, Refusal, callVars
<1>6. CallInv'
  BY <1>1, <1>2, <1>5, OthersKept DEF callVars
<1>7. QED
  BY <1>3, <1>4, <1>6 DEF IInv
LEMMA StutterKeeps == ASSUME IInv, UNCHANGED vars PROVE IInv'
<1>1. UNCHANGED <<file, processVars, callVars, targetVars>> /\ Live' = Live
  BY DEF vars, callVars, Live
<1>2. TypeOK' /\ Shape'
  BY <1>1 DEF processVars, callVars, targetVars, IInv, TypeOK, Shape
<1>3. OwnTemplates' /\ SentAsConfigured'
  BY <1>1, ProcessKept DEF IInv, callVars
<1>4. ASSUME NEW r \in Callers PROVE CallKnown(r)'
  BY <1>1, <1>4, CallKept DEF callVars, targetVars, IInv, CallInv, CallKnown
<1>5. QED
  BY <1>2, <1>3, <1>4 DEF IInv, CallInv, CallKnown

LEMMA NextKeeps == ASSUME IInv, Next PROVE IInv'
<1>1. CASE Boot \/ Crash \/ \E f \in Files : Edit(f)
  BY <1>1, BootKeeps, CrashKeeps, EditKeeps
<1>2. ASSUME NEW r \in Callers, Step(r) PROVE IInv'
  BY <1>2, GateKeeps, InformKeeps, RunScenarioKeeps, EndScenarioKeeps, RejectKeeps,
     PostKeeps, RespondKeeps, FailKeeps DEF Step
<1>3. ASSUME NEW r \in Callers, NEW q \in Requests, Arrive(r, q) PROVE IInv'
  BY <1>3, ArriveKeeps
<1>4. ASSUME NEW m \in wire, Reach(m) \/ Vanish(m) PROVE IInv'
  BY <1>4, ReachKeeps, VanishKeeps
<1>5. QED
  BY <1>1, <1>2, <1>3, <1>4 DEF Next

-----------------------------------------------------------------------------
(* Theorems.                                                               *)

\* Every step of the process, of a call, of the operator and of the network keeps
\* what is known of each call's right to send, of its one message and of its answer.
THEOREM Invariance == Spec => []IInv
<1>1. Init => IInv
  BY InitIInv
<1>2. IInv /\ [Next]_vars => IInv'
  BY NextKeeps, StutterKeeps
<1>3. QED
  BY <1>1, <1>2, PTL DEF Spec

\* The variables keep their types: an answer has one of the documented codes, and a
\* message is that of the call that sent it.
THEOREM Typed == Spec => []TypeOK
  BY Invariance, PTL DEF IInv

\* The gate lets through whoever bears the token, whatever its characters.
LEMMA GateIsToken ==
  ASSUME NEW q \in Requests
  PROVE  RequireToken(q.authorization) <=> Bears(q.authorization)
<1>1. CASE EmitterToken = None
  BY <1>1 DEF RequireToken, Bears
<1>2. CASE EmitterToken # None /\ q.authorization # None
  <2>1. q.authorization.token \in Seq(Nat) /\ EmitterToken \in Seq(Nat)
    BY <1>2, TokensAreStrings
  <2>2. Consteq(q.authorization.token, EmitterToken) <=> q.authorization.token = EmitterToken
    BY <2>1, ConsteqIsEquality
  <2>3. QED
    BY <1>2, <2>2 DEF RequireToken, Bears
<1>3. CASE EmitterToken # None /\ q.authorization = None
  BY <1>3 DEF RequireToken, Bears
<1>4. QED
  BY <1>1, <1>2, <1>3

\* Nothing that reaches the target, however late, comes from a call without the token,
\* and no such call is told anything of what the gate protects.
THEOREM OnlyAdmittedCallsReach == Spec => []OnlyAdmittedReach
<1>1. IInv => OnlyAdmittedReach
  <2>1. SUFFICES ASSUME IInv, NEW r \in Callers
                 PROVE  /\ deliveries[r] > 0 \/ sent[r] # None
                             => Fires(req[r]) /\ Bears(req[r].authorization)
                        /\ answer[r] # None /\ req[r].endpoint \notin {"healthz", "verifiers"}
                             => Bears(req[r].authorization) \/ answer[r].http = 401
    BY DEF OnlyAdmittedReach
  <2>2. CallKnown(r)
    BY <2>1 DEF IInv, CallInv, CallKnown
  <2>3. deliveries[r] > 0 \/ sent[r] # None
          => Fires(req[r]) /\ RequireToken(req[r].authorization) /\ req[r] \in Requests
    BY <2>2 DEF CallKnown, Traced, Trace, Admitted
  <2>4. answer[r] # None => req[r] \in Requests
    BY <2>2 DEF CallKnown, Admitted
  <2>5. answer[r] # None /\ ~ Open(req[r])
          => RequireToken(req[r].authorization) \/ answer[r].http = 401
    BY <2>2 DEF CallKnown, Admitted
  <2>6. QED
    BY <2>3, <2>4, <2>5, GateIsToken DEF Open
<1>2. QED
  BY <1>1, Invariance, PTL

\* A POST of a named template is that template of the file the running process read,
\* with the call's fields over it, and signed over the very body that is sent.
THEOREM PostsAreAsConfigured == Spec => []SentAsConfigured
  BY Invariance, PTL DEF IInv

-----------------------------------------------------------------------------
(* Emitter implements FireService.                                         *)

AllTold == [r \in Callers |-> Told(r)]

LEMMA NothingTold ==
  ASSUME \A r \in Callers : Told(r)' = Told(r), UNCHANGED deliveries
  PROVE  UNCHANGED <<deliveries, AllTold>>
  BY DEF AllTold

LEMMA ToldOne ==
  ASSUME NEW r \in Callers, NEW v, Told(r)' = v,
         \A c \in Callers \ {r} : Told(c)' = Told(c)
  PROVE  AllTold' = [AllTold EXCEPT ![r] = v]
<1>1. AllTold' = [c \in Callers |-> IF c = r THEN v ELSE Told(c)]
  BY Zenon DEF AllTold
<1>2. [AllTold EXCEPT ![r] = v] = [c \in Callers |-> IF c = r THEN v ELSE Told(c)]
  BY DEF AllTold
<1>3. QED
  BY <1>1, <1>2

\* An answer tells its caller, and no other, what FireService allows.
LEMMA AnswerTells ==
  ASSUME IInv, NEW r \in Callers,
         NEW http \in {200, 400, 401, 404, 500, 502}, NEW status, NEW listing,
         Answer(r, http, status, listing), UNCHANGED <<req, deliveries>>,
         pc[r] \in {"received", "admitted", "posting", "running"},
         Fires(req[r]) /\ http = 200 => deliveries[r] = 1,
         Fires(req[r]) /\ http \notin {200, 502} => ~ Trace(r)
  PROVE  Promise!Next \/ UNCHANGED <<deliveries, AllTold>>
<1>1. Told(r) = "nothing" /\ Told(r)' = Meaning(req[r], http)
  <2>1. pc'[r] = "answered" /\ answer'[r].http = http
    BY DEF Answer, IInv, TypeOK, Shape
  <2>2. QED
    BY <2>1 DEF Told
<1>2. \A c \in Callers \ {r} : Told(c)' = Told(c)
  <2>1. ASSUME NEW c \in Callers \ {r} PROVE pc'[c] = pc[c] /\ answer'[c] = answer[c]
    BY DEF Answer, IInv, TypeOK, Shape
  <2>2. QED
    BY <2>1 DEF Told
<1>3. CASE ~ Fires(req[r])
  BY <1>1, <1>2, <1>3, NothingTold DEF Meaning
<1>4. CASE Fires(req[r]) /\ http = 200
  <2>1. AllTold' = [AllTold EXCEPT ![r] = "fired"]
    BY <1>1, <1>2, <1>4, ToldOne DEF Meaning
  <2>2. Promise!Fired(r)
    BY <1>4, <2>1 DEF Promise!Fired, AllTold
  <2>3. QED
    BY <1>1, <2>2 DEF Promise!Next, Promise!Tell
<1>5. CASE Fires(req[r]) /\ http \notin {200, 502}
  <2>1. AllTold' = [AllTold EXCEPT ![r] = "refused"]
    BY <1>1, <1>2, <1>5, ToldOne DEF Meaning
  <2>2. deliveries[r] = 0
    BY <1>5 DEF Trace, IInv, TypeOK
  <2>3. Promise!Refused(r)
    BY <2>1, <2>2 DEF Promise!Refused, AllTold
  <2>4. QED
    BY <1>1, <2>3 DEF Promise!Next, Promise!Tell
<1>6. CASE Fires(req[r]) /\ http = 502
  <2> DEFINE S == {r}
  <2>1. \A c \in Callers : Told(c)' = IF c \in S THEN "unknown" ELSE Told(c)
    BY <1>1, <1>2, <1>6 DEF Meaning
  <2>2. S \in SUBSET {c \in Callers : Told(c) = "nothing"}
    BY <1>1
  <2> HIDE DEF S
  <2>3. Promise!Unknown
    BY <2>1, <2>2 DEF Promise!Unknown
  <2>4. QED
    BY <2>3 DEF Promise!Next, Promise!Tell
<1>7. QED
  BY <1>3, <1>4, <1>5, <1>6
\* The target gets an event once, and none of a call that was refused.
LEMMA ReachDelivers == ASSUME IInv, NEW m \in wire, Reach(m) PROVE Promise!Next
<1> DEFINE r == m.from
<1>1. r \in Callers /\ OnWire(r) /\ deliveries[r] = 0
  BY Leaves DEF Reach, OnWire
<1>2. Told(r) # "refused"
  BY <1>1 DEF IInv, CallInv, Refusal
<1>3. deliveries' = [deliveries EXCEPT ![r] = 1]
  BY <1>1 DEF Reach, IInv, TypeOK
<1>4. UNCHANGED AllTold
  BY DEF Reach, callVars, AllTold, Told
<1> HIDE DEF r
<1>5. Promise!Deliver(r)
  BY <1>1, <1>2, <1>3, <1>4 DEF Promise!Deliver, AllTold
<1>6. QED
  BY <1>1, <1>5 DEF Promise!Next

\* Calls that lose their connection know nothing of their event.
LEMMA CrashTells == ASSUME IInv, Crash PROVE Promise!Next
<1>1. \A r \in Callers : Told(r)' = IF r \in Live THEN "unknown" ELSE Told(r)
  BY DEF Crash, Told, Live
<1>2. Live \in SUBSET {r \in Callers : Told(r) = "nothing"}
  BY DEF Live, Told
<1>3. UNCHANGED deliveries
  BY DEF Crash, targetVars
<1>4. Promise!Unknown
  BY <1>1, <1>2 DEF Promise!Unknown
<1>5. QED
  BY <1>3, <1>4 DEF Promise!Next, Promise!Tell

\* A call that goes on, or arrives, is told nothing yet.
LEMMA OnwardTells ==
  ASSUME IInv, NEW r \in Callers, NEW next, pc' = [pc EXCEPT ![r] = next],
         {pc[r], next} \cap {"answered", "dropped"} = {},
         \A c \in Callers \ {r} : req'[c] = req[c], UNCHANGED <<answer, deliveries>>
  PROVE  UNCHANGED <<deliveries, AllTold>>
<1>1. pc'[r] = next /\ \A c \in Callers \ {r} : pc'[c] = pc[c]
  BY DEF IInv, TypeOK
<1>2. \A c \in Callers : Told(c)' = Told(c)
  BY <1>1 DEF Told
<1>3. QED
  BY <1>2, NothingTold

LEMMA StepTells ==
  ASSUME IInv, NEW r \in Callers, Step(r)
  PROVE  Promise!Next \/ UNCHANGED <<deliveries, AllTold>>
<1>1. CASE Gate(r)
  <2>1. pc[r] = "received" /\ ~ Trace(r) /\ UNCHANGED <<req, deliveries>>
    BY <1>1, NoTraceYet DEF Gate, targetVars
  <2>2. CASE Answer(r, 401, None, NoTemplates)
    BY <2>1, <2>2, AnswerTells
  <2>3. CASE pc' = [pc EXCEPT ![r] = "admitted"] /\ UNCHANGED answer
    BY <2>1, <2>3, OnwardTells
  <2>4. QED
    BY <1>1, <2>2, <2>3 DEF Gate
<1>2. CASE Inform(r)
  <2>1. ~ Fires(req[r]) /\ UNCHANGED <<req, deliveries>>
    BY <1>2 DEF Inform, Fires, targetVars
  <2>2. QED
    BY <1>2, <2>1, ReadyTo, AnswerTells DEF Inform
<1>3. CASE RunScenario(r)
  <2>1. UNCHANGED <<req, answer, deliveries>> /\ pc' = [pc EXCEPT ![r] = "running"]
    BY <1>3 DEF RunScenario, targetVars
  <2>2. QED
    BY <1>3, <2>1, ReadyTo, OnwardTells DEF RunScenario
<1>4. CASE EndScenario(r)
  <2>1. PICK http \in {200, 400, 500} : Answer(r, http, None, NoTemplates)
    BY <1>4 DEF EndScenario
  <2>2. ~ Fires(req[r]) /\ pc[r] = "running" /\ UNCHANGED <<req, deliveries>>
    BY <1>4 DEF EndScenario, IInv, CallInv, Admitted, targetVars
  <2>3. QED
    BY <2>1, <2>2, AnswerTells
<1>5. CASE Reject(r)
  <2>1. Ready(r) /\ UNCHANGED <<req, deliveries>>
    BY <1>5 DEF Reject, targetVars
  <2>2. \/ Answer(r, 404, None, NoTemplates)
        \/ Answer(r, 400, None, NoTemplates)
        \/ Answer(r, 500, None, NoTemplates)
    BY <1>5, Zenon DEF Reject
  <2>3. QED
    BY <2>1, <2>2, ReadyTo, AnswerTells
<1>6. CASE Post(r)
  <2>1. UNCHANGED <<req, answer, deliveries>> /\ pc' = [pc EXCEPT ![r] = "posting"] /\ Ready(r)
    BY <1>6 DEF Post
  <2>2. QED
    BY <2>1, ReadyTo, OnwardTells
<1>7. CASE Respond(r)
  <2>1. deliveries[r] = 1
    BY <1>7 DEF Respond, IInv, CallInv, Once
  <2>2. Answer(r, 200, reply[r], NoTemplates) /\ pc[r] = "posting" /\ UNCHANGED <<req, deliveries>>
    BY <1>7 DEF Respond, targetVars
  <2>3. QED
    BY <2>1, <2>2, AnswerTells
<1>8. CASE Fail(r)
  BY <1>8, AnswerTells DEF Fail, targetVars
<1>9. QED
  BY <1>1, <1>2, <1>3, <1>4, <1>5, <1>6, <1>7, <1>8 DEF Step

\* A caller of /fire or /fire-named is told "fired" only of an event the target got,
\* "refused" only of one it will never get, and the target gets no event twice, in
\* spite of crashes, restarts, lost messages and late ones.
THEOREM EmitterKeepsFirePromise == Spec => KeepsFirePromise
<1>1. Init => Promise!Init
  BY DEF Init, Promise!Init, Told
<1>2. IInv /\ [Next]_vars => [Promise!Next]_<<deliveries, AllTold>>
  <2>1. SUFFICES ASSUME IInv, [Next]_vars
                 PROVE  Promise!Next \/ UNCHANGED <<deliveries, AllTold>>
    OBVIOUS
  <2>2. CASE Boot \/ (\E f \in Files : Edit(f)) \/ (\E m \in wire : Vanish(m)) \/ UNCHANGED vars
    <3>1. UNCHANGED <<pc, req, answer, deliveries>>
      BY <2>2 DEF Boot, Edit, Vanish, vars, callVars, targetVars
    <3>2. \A r \in Callers : Told(r)' = Told(r)
      BY <3>1 DEF Told
    <3>3. QED
      BY <3>1, <3>2, NothingTold
  <2>3. CASE Crash \/ \E m \in wire : Reach(m)
    BY <2>1, <2>3, CrashTells, ReachDelivers
  <2>4. ASSUME NEW r \in Callers, NEW q \in Requests, Arrive(r, q)
        PROVE  UNCHANGED <<deliveries, AllTold>>
    <3>1. /\ pc' = [pc EXCEPT ![r] = "received"] /\ pc[r] = "idle"
          /\ UNCHANGED <<answer, deliveries>>
          /\ \A c \in Callers \ {r} : req'[c] = req[c]
      BY <2>1, <2>4 DEF Arrive, targetVars, IInv, TypeOK
    <3>2. QED
      BY <2>1, <3>1, OnwardTells
  <2>5. QED
    BY <2>1, <2>2, <2>3, <2>4, StepTells DEF Next
<1>3. QED
  BY <1>1, <1>2, Invariance, PTL DEF Spec, KeepsFirePromise, Promise!Spec, AllTold
=============================================================================
