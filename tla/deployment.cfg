SPECIFICATION Spec
CONSTANTS
    Named = {}
    Texts = {"long"}
    LongTexts = {"long"}
    Width = 10
    Ids <- FewIds
    Amounts = {100, 105}
    First <- AllButWechat
    Editable = {"wechat.app_id", "wechat.mch_id", "alipay.notify_url", "stripe.secret_key",
        "oidc.allow_any_authenticated", "stripe.webhook_secret", "alipay.public_key_pem"}
    MaxUpsets = 2
INVARIANTS
    TypeOK
    AmountsSurvive
    ValidatedIsComplete
    ServesWhatIsConfigured
    PaidInFull
PROPERTIES
    CapturesRecorded
CHECK_DEADLOCK FALSE
