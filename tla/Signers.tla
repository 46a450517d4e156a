------------------------------ MODULE Signers ------------------------------
(***************************************************************************)
(* The seven signing schemes of signers.py.  Cryptography is symbolic: a   *)
(* MAC is the record of what went into it, so that two are equal exactly   *)
(* when they were made by the same scheme, from the same key, over the     *)
(* same body and timestamp.                                                *)
(*                                                                         *)
(* A secret is [id, base64, pem]: which key it holds, whether b64decode    *)
(* accepts its text and whether it is a PEM private key.  A body is any    *)
(* value.  A timestamp is a string; "None" is the absent one.              *)
(***************************************************************************)

CONSTANT CryptographyInstalled   \* the optional dependency of SENDGRID

ASSUME CryptographyChoice == CryptographyInstalled \in BOOLEAN

Verifiers == {"HMAC_BASED", "SIGNATURE_BASED", "HEADER_BASED", "SLACK_BASED",
              "STRIPE", "TWITTER", "SENDGRID"}

SigningContext(secret, body, name, value, ts) ==
  [secret |-> secret, body |-> body, header_name |-> name,
   header_value |-> value, timestamp |-> ts]

Ts(ctx) == IF ctx.timestamp = "None" THEN "now" ELSE ctx.timestamp

-----------------------------------------------------------------------------
(* Header values: a MAC, a literal or a timestamp.                         *)

Mac(scheme, key, body, ts) ==
  [scheme |-> scheme, key |-> key, body |-> body, ts |-> ts]
Literal(value) == Mac("literal", value, {}, "None")

Headers(names, value) == [result |-> "signed", headers |-> [h \in names |-> value]]
Raises(exception)     == [result |-> exception, headers |-> [h \in {} |-> Literal("")]]

Stamped(stampName, macName, mac) ==
  [result  |-> "signed",
   headers |-> [h \in {stampName, macName} |->
                  IF h = macName THEN mac ELSE Mac("stamp", "", {}, mac.ts)]]

-----------------------------------------------------------------------------
(* One operator per scheme.  The scheme's name carries what the code       *)
(* renders: prefix, base64 or hex, and whether the key was decoded first.  *)

HmacBased(ctx) ==
  IF ctx.secret.base64
  THEN Headers({ctx.header_name}, Mac("base64", ctx.secret.id, ctx.body, "None"))
  ELSE Raises("binascii.Error")

SignatureBased(ctx) ==
  Headers({ctx.header_name}, Mac("sha256=hex", ctx.secret.id, ctx.body, "None"))

HeaderBased(ctx) == Headers({ctx.header_name}, Literal(ctx.header_value))

SlackBased(ctx) ==
  Stamped("X-Slack-Request-Timestamp", "X-Slack-Signature",
          Mac("v0=hex", ctx.secret.id, ctx.body, Ts(ctx)))

Stripe(ctx) ==
  Headers({"Stripe-Signature"}, Mac("t,v1=hex", ctx.secret.id, ctx.body, Ts(ctx)))

Twitter(ctx) ==
  Headers({"x-twitter-webhooks-signature"},
          Mac("sha256=base64", ctx.secret.id, ctx.body, "None"))

Sendgrid(ctx) ==
  IF CryptographyInstalled /\ ctx.secret.pem
  THEN Stamped("X-Twilio-Email-Event-Webhook-Timestamp",
               "X-Twilio-Email-Event-Webhook-Signature",
               Mac("ecdsa", ctx.secret.id, ctx.body, Ts(ctx)))
  ELSE Raises(IF CryptographyInstalled THEN "ValueError" ELSE "RuntimeError")

Sign(verifier, ctx) ==
  CASE verifier = "HMAC_BASED"      -> HmacBased(ctx)
    [] verifier = "SIGNATURE_BASED" -> SignatureBased(ctx)
    [] verifier = "HEADER_BASED"    -> HeaderBased(ctx)
    [] verifier = "SLACK_BASED"     -> SlackBased(ctx)
    [] verifier = "STRIPE"          -> Stripe(ctx)
    [] verifier = "TWITTER"         -> Twitter(ctx)
    [] verifier = "SENDGRID"        -> Sendgrid(ctx)
    [] OTHER                        -> Raises("KeyError")
=============================================================================
