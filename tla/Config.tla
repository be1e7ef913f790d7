------------------------------- MODULE Config -------------------------------
(***************************************************************************)
(* What the operator sets and what the server makes of it: the package     *)
(* internal/config, and the conditions under which main.go builds a part   *)
(* of the server and its constructor accepts.                              *)
(*                                                                         *)
(* A configuration is the set of the keys that have a value.  The session  *)
(* secret counts as given only if it is long enough, the option            *)
(* allow_any_authenticated only if it is true.  A variable of the          *)
(* environment wins over the file; none is set to a worse value.           *)
(***************************************************************************)

CONSTANT Named   \* keys that the file names, whether it gives them a value or not

\* Parts of the server that are built only if they are configured.
Gateways == {"wechat", "alipay", "stripe"}
Parts == Gateways \cup {"oidc"}

\* Each list names alternatives, one of which must be given.
Companions(part) ==
    CASE part = "wechat" -> {{"wechat.mch_id"}, {"wechat.mch_api_v3_key"}, {"wechat.mch_serial_no"},
                             {"wechat.mch_private_key_path", "wechat.mch_private_key_pem"}}
      [] part = "alipay" -> {{"alipay.private_key_path", "alipay.private_key_pem"},
                             {"alipay.public_key_path", "alipay.public_key_pem"}}
      [] part = "stripe" -> {{"stripe.webhook_secret"}}
      [] part = "oidc"   -> {{"oidc.client_id"}, {"oidc.client_secret"}, {"oidc.redirect_url"},
                             {"oidc.session_secret"},
                             {"oidc.allowed_emails", "oidc.allow_any_authenticated"}}

Trigger == [wechat |-> "wechat.app_id", alipay |-> "alipay.app_id",
            stripe |-> "stripe.secret_key", oidc |-> "oidc.issuer_url"]

KeysOf(part) == {Trigger[part]} \cup UNION Companions(part)

\* Where a gateway sends its notifications; Stripe is told elsewhere.
NotifyUrl == [wechat |-> "wechat.notify_url", alipay |-> "alipay.notify_url"]

Keys ==
    {"server.addr", "db.url", "wechat.notify_url", "alipay.notify_url"}
        \cup UNION {KeysOf(part) : part \in Parts}

(***************************************************************************)
(* Load.  The environment is looked up for the keys bound one by one, for  *)
(* those with a default and for those that the file names.  The list of    *)
(* bound keys lacks allow_any_authenticated.                               *)
(***************************************************************************)
Defaults == {"server.addr"}
Bound == Keys \ {"oidc.allow_any_authenticated"}

Load(file, env) == Defaults \cup file \cup (env \cap (Bound \cup Named))

\* The merchant id of WeChat is not asked for.
Complete_NoMerchant(part, given) ==
    Trigger[part] \in given =>
        \A any \in Companions(part) \ {{"wechat.mch_id"}} : any \cap given # {}

\* One of the two keys of Alipay is enough.
Complete_OneKey(part, given) ==
    Trigger[part] \in given =>
        IF part = "alipay" THEN UNION Companions(part) \cap given # {}
        ELSE \A any \in Companions(part) : any \cap given # {}

Complete(part, given) ==
    Trigger[part] \in given => \A any \in Companions(part) : any \cap given # {}

Validate(given) ==
    /\ {"server.addr", "db.url"} \subseteq given
    /\ \A part \in Parts : Complete(part, given)

(***************************************************************************)
(* main.go asks for two of the WeChat keys before it builds that gateway.  *)
(***************************************************************************)
Wanted(part, given) ==
    /\ Trigger[part] \in given
    /\ part = "wechat" => "wechat.mch_id" \in given

(***************************************************************************)
(* The constructors.  Without one of these settings the constructor, or    *)
(* the SDK that it calls, returns an error.                                *)
(***************************************************************************)
NewWeChatGateway(given) ==
    /\ {"wechat.mch_serial_no", "wechat.mch_api_v3_key"} \subseteq given
    /\ "wechat.mch_private_key_pem" \in given \/ "wechat.mch_private_key_path" \in given

NewAlipayGateway(given) ==
    /\ "alipay.private_key_pem" \in given \/ "alipay.private_key_path" \in given
    /\ "alipay.public_key_pem" \in given \/ "alipay.public_key_path" \in given

NewStripeGateway(given) == "stripe.secret_key" \in given

NewOIDCAuth(given) ==
    /\ {"oidc.issuer_url", "oidc.client_id", "oidc.client_secret", "oidc.redirect_url",
        "oidc.session_secret"} \subseteq given
    /\ "oidc.allowed_emails" \in given \/ "oidc.allow_any_authenticated" \in given

Builds(part, given) ==
    CASE part = "wechat" -> NewWeChatGateway(given)
      [] part = "alipay" -> NewAlipayGateway(given)
      [] part = "stripe" -> NewStripeGateway(given)
      [] part = "oidc"   -> NewOIDCAuth(given)

=============================================================================
