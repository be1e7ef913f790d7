---------------------------- MODULE MCDeployment ----------------------------
(***************************************************************************)
(* Deployment with all parts but WeChat configured, which lacks two keys.  *)
(* The operator may give those, and take away a key of each other part.    *)
(***************************************************************************)
EXTENDS Deployment

\* The same UUID with its hyphens and without.
FewIds == {[text |-> "long", hyphens |-> "uuid"], [text |-> "long", hyphens |-> "none"]}

AllButWechat ==
    {"db.url", "alipay.app_id", "alipay.private_key_pem", "alipay.public_key_pem",
     "alipay.notify_url", "stripe.secret_key", "stripe.webhook_secret",
     "wechat.mch_serial_no", "wechat.mch_api_v3_key", "wechat.mch_private_key_pem",
     "oidc.issuer_url", "oidc.client_id", "oidc.client_secret", "oidc.redirect_url",
     "oidc.session_secret", "oidc.allow_any_authenticated"}

=============================================================================
