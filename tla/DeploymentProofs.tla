-------------------------- MODULE DeploymentProofs --------------------------
(***************************************************************************)
(* What Deployment promises, for every configuration, number of edits and  *)
(* crashes, and set of orders and amounts, and for integers of every       *)
(* width.                                                                  *)
(***************************************************************************)
EXTENDS Deployment, WireProofs

-----------------------------------------------------------------------------
(***************************************************************************)
(* The boot.  Up to where the process is, it has built exactly the         *)
(* gateways that main.go wants, and what it was started with is valid.     *)
(***************************************************************************)
Tried(pc) ==
    CASE pc = "alipay" -> {"wechat"}
      [] pc = "stripe" -> {"wechat", "alipay"}
      [] pc \in {"oidc", "up"} -> Gateways
      [] OTHER -> {}

BootIsSound ==
    /\ process.pc # "down" => Validate(process.given)
    /\ process.gateways = {c \in Tried(process.pc) : Wanted(c, process.given)}

ProcessTypeOK ==
    process \in [pc : {"down", "up"} \cup DOMAIN After, given : SUBSET Keys,
                 gateways : SUBSET Gateways]

\* Validate and main.go ask for the same, and Validate for all that a
\* constructor needs.
LEMMA ValidIsEnough ==
    ASSUME NEW given, Validate(given), NEW part \in Parts
    PROVE  /\ Wanted(part, given) <=> Trigger[part] \in given
           /\ Wanted(part, given) => Builds(part, given)
           /\ part = "stripe" /\ Wanted(part, given) => "stripe.webhook_secret" \in given
<1>1. Complete(part, given)
  BY DEF Validate
<1>2. CASE part = "wechat"
  <2>1. Trigger[part] = "wechat.app_id"
    BY <1>2 DEF Trigger
  <2>2. Companions(part) =
          {{"wechat.mch_id"}, {"wechat.mch_api_v3_key"}, {"wechat.mch_serial_no"},
           {"wechat.mch_private_key_path", "wechat.mch_private_key_pem"}}
    BY <1>2 DEF Companions
  <2>3. Trigger[part] \in given =>
          /\ "wechat.mch_id" \in given /\ "wechat.mch_api_v3_key" \in given
          /\ "wechat.mch_serial_no" \in given
          /\ "wechat.mch_private_key_path" \in given \/ "wechat.mch_private_key_pem" \in given
    BY <1>1, <2>2 DEF Complete
  <2> QED BY <1>2, <2>1, <2>3 DEF Wanted, Builds, NewWeChatGateway
<1>3. CASE part = "alipay"
  <2>1. Companions(part) = {{"alipay.private_key_path", "alipay.private_key_pem"},
                            {"alipay.public_key_path", "alipay.public_key_pem"}}
    BY <1>3 DEF Companions
  <2>2. Trigger[part] \in given =>
          /\ "alipay.private_key_path" \in given \/ "alipay.private_key_pem" \in given
          /\ "alipay.public_key_path" \in given \/ "alipay.public_key_pem" \in given
    BY <1>1, <2>1 DEF Complete
  <2> QED BY <1>3, <2>2 DEF Wanted, Builds, NewAlipayGateway
<1>4. CASE part = "stripe"
  <2>1. Trigger[part] = "stripe.secret_key" /\ Companions(part) = {{"stripe.webhook_secret"}}
    BY <1>4 DEF Trigger, Companions
  <2>2. Trigger[part] \in given => "stripe.webhook_secret" \in given
    BY <1>1, <2>1 DEF Complete
  <2> QED BY <1>4, <2>1, <2>2 DEF Wanted, Builds, NewStripeGateway
<1>5. CASE part = "oidc"
  <2>1. Trigger[part] = "oidc.issuer_url"
    BY <1>5 DEF Trigger
  <2>2. Companions(part) =
          {{"oidc.client_id"}, {"oidc.client_secret"}, {"oidc.redirect_url"},
           {"oidc.session_secret"}, {"oidc.allowed_emails", "oidc.allow_any_authenticated"}}
    BY <1>5 DEF Companions
  <2>3. Trigger[part] \in given =>
          /\ "oidc.client_id" \in given /\ "oidc.client_secret" \in given
          /\ "oidc.redirect_url" \in given /\ "oidc.session_secret" \in given
          /\ "oidc.allowed_emails" \in given \/ "oidc.allow_any_authenticated" \in given
    BY <1>1, <2>2 DEF Complete
  <2> QED BY <1>5, <2>1, <2>3 DEF Wanted, Builds, NewOIDCAuth
<1> QED BY <1>2, <1>3, <1>4, <1>5 DEF Parts, Gateways

LEMMA LoadTyped ==
    ASSUME file \subseteq Keys, env \subseteq Keys
    PROVE  Load(file, env) \subseteq Keys
  BY DEF Load, Defaults, Bound, Keys

LEMMA BootStepKeeps ==
    ASSUME ProcessTypeOK, BootIsSound, file \subseteq Keys, env \subseteq Keys, BootStep
    PROVE  ProcessTypeOK' /\ BootIsSound'
<1>1. CASE Start
  <2>1. process' = [pc |-> "store", given |-> Load(file, env), gateways |-> {}]
    BY <1>1 DEF Start
  <2>2. process'.pc = "store" /\ process'.given = Load(file, env) /\ process'.gateways = {}
    BY <2>1
  <2>3. ProcessTypeOK'
    BY <2>1, LoadTyped DEF ProcessTypeOK, After
  <2> QED BY <1>1, <2>2, <2>3 DEF Start, BootIsSound, Tried
<1>2. CASE OpenStore
  <2>1. process' = [process EXCEPT !.pc = "wechat"] /\ process.pc = "store"
    BY <1>2 DEF OpenStore, After
  <2>2. /\ process'.pc = "wechat" /\ process'.given = process.given
        /\ process'.gateways = process.gateways
    BY <2>1 DEF ProcessTypeOK
  <2>3. ProcessTypeOK'
    BY <2>1 DEF ProcessTypeOK, After
  <2> QED BY <2>1, <2>2, <2>3 DEF BootIsSound, Tried
<1>3. ASSUME NEW part \in Parts, Build(part)
      PROVE  ProcessTypeOK' /\ BootIsSound'
  <2> DEFINE given == process.given
  <2>1. process.pc = part /\ Validate(given)
    BY <1>3 DEF Build, BootIsSound, Parts, Gateways
  <2>2. Wanted(part, given) => Builds(part, given)
    BY <2>1, ValidIsEnough
  <2>3. /\ process'.pc = After[part] /\ process'.given = given
        /\ process'.gateways = process.gateways \cup
             (IF Wanted(part, given) THEN {part} \cap Gateways ELSE {})
    <3>1. CASE Wanted(part, given)
      <4>1. process' = [process EXCEPT !.pc = After[part],
                                       !.gateways = @ \cup ({part} \cap Gateways)]
        BY <1>3, <2>2, <3>1 DEF Build
      <4> QED BY <3>1, <4>1 DEF ProcessTypeOK
    <3>2. CASE ~Wanted(part, given)
      <4>1. process' = [process EXCEPT !.pc = After[part]]
        BY <1>3, <3>2 DEF Build
      <4> QED BY <3>2, <4>1 DEF ProcessTypeOK
    <3> QED BY <3>1, <3>2
  <2>4. Tried(After[part]) = Tried(part) \cup ({part} \cap Gateways)
    <3>1. CASE part = "wechat"
      BY <3>1 DEF Tried, After, Gateways
    <3>2. CASE part = "alipay"
      BY <3>2 DEF Tried, After, Gateways
    <3>3. CASE part = "stripe"
      BY <3>3 DEF Tried, After, Gateways
    <3>4. CASE part = "oidc"
      BY <3>4 DEF Tried, After, Gateways
    <3> QED BY <3>1, <3>2, <3>3, <3>4 DEF Parts, Gateways
  <2>5. After[part] \in {"up"} \cup DOMAIN After
    BY DEF After, Parts, Gateways
  <2>6. ProcessTypeOK'
    <3>1. process' \in [pc : {"down", "up"} \cup DOMAIN After, given : SUBSET Keys,
                        gateways : SUBSET Gateways]
      BY <1>3, <2>2, <2>5 DEF Build, ProcessTypeOK
    <3> QED BY <3>1 DEF ProcessTypeOK
  <2> QED BY <2>1, <2>3, <2>4, <2>6 DEF BootIsSound
<1> QED BY <1>1, <1>2, <1>3 DEF BootStep

-----------------------------------------------------------------------------
(***************************************************************************)
(* The trades.  What is open at a gateway belongs to a row, and what was   *)
(* captured was opened.                                                    *)
(***************************************************************************)
RestTypeOK ==
    /\ file \subseteq Keys /\ env \subseteq Keys
    /\ rows \in [Ids -> {NoRow} \cup Row]
    /\ trades \subseteq Trade /\ captures \subseteq Capture
    /\ upsets \in 0..MaxUpsets

\* Alipay takes the text for some amount, if only for the one that was meant.
LEMMA MeaningTyped ==
    ASSUME NEW c, NEW fen \in Amounts
    PROVE  Understood(c, fen) \in 1..MaxInt
<1>1. fen \in 1..MaxInt
  BY DeploymentAssumption
<1>2. FormatAmount(fen) \in Notations(fen)
  BY DEF FormatAmount, Notations
<1>3. \E n \in 1..MaxInt : FormatAmount(fen) \in Notations(n)
  BY <1>1, <1>2
<1>4. (CHOOSE n \in 1..MaxInt : FormatAmount(fen) \in Notations(n)) \in 1..MaxInt
  BY <1>3
<1>5. Meaning[fen] \in 1..MaxInt
  BY <1>4 DEF Meaning
<1> QED BY <1>1, <1>5 DEF Understood

LEMMA OpenedTyped ==
    ASSUME NEW o \in Ids, NEW c \in Gateways, NEW a \in Amounts
    PROVE  Opened(o, c, a) \in Trade
<1>1. OutTradeNo(o) \in Texts
  BY DeploymentAssumption DEF OutTradeNo, OrderId
<1>2. Understood(c, a) \in 1..MaxInt
  BY MeaningTyped
<1> DEFINE notifies == c \in DOMAIN NotifyUrl => NotifyUrl[c] \in process.given
<1>3. notifies \in BOOLEAN
  OBVIOUS
<1>4. Opened(o, c, a) = [channel |-> c, no |-> OutTradeNo(o), amount |-> Understood(c, a),
                         notifies |-> notifies, for |-> o]
  BY DEF Opened
<1> HIDE DEF notifies
<1> QED BY <1>1, <1>2, <1>3, <1>4 DEF Trade

LEMMA PaidTyped ==
    ASSUME NEW t \in Trade, NEW a \in Amounts
    PROVE  /\ [t EXCEPT !.amount = a] \in Capture
           /\ [t EXCEPT !.amount = a].no = t.no
  BY DeploymentAssumption DEF Trade, Capture

\* The four kinds of step that do not boot the process.
Serving ==
    \/ \E o \in Ids, c \in Gateways, a \in Amounts : CreatePayment(o, c, a)
    \/ \E t \in trades, a \in Amounts : Pay(t, a)
    \/ \E n \in captures : Notify(n)

\* A row that is pending becomes paid and keeps the rest.
LEMMA NotifyEffect ==
    ASSUME RestTypeOK, NEW n \in captures, Notify(n)
    PROVE  LET o == UuidFromCompact(n.no)
           IN  /\ o \in Ids /\ rows[o] \in Row /\ rows'[o] \in Row
               /\ rows'[o].amount = rows[o].amount /\ rows'[o].channel = rows[o].channel
               /\ rows[o].amount \in Told(n) /\ n.channel \in process.gateways
               /\ n.channel = "stripe" => rows[o].channel = "stripe"
               /\ \A p \in Ids \ {o} : rows'[p] = rows[p]
               /\ rows' \in [Ids -> {NoRow} \cup Row]
<1> DEFINE o == UuidFromCompact(n.no)
           row == [rows[o] EXCEPT !.status = "paid"]
<1>1. /\ o \in Ids /\ rows[o].status = "pending" /\ rows[o].amount \in Told(n)
      /\ n.channel \in process.gateways /\ rows' = [rows EXCEPT ![o] = row]
      /\ n.channel = "stripe" => rows[o].channel = "stripe"
  BY DEF Notify, Serves
<1> HIDE DEF o
<1>2. rows[o] \in {NoRow} \cup Row /\ NoRow.status = "none"
  BY <1>1 DEF RestTypeOK, NoRow
<1>3. rows[o] \in Row
  BY <1>1, <1>2
<1>4. row \in Row /\ row.amount = rows[o].amount /\ row.channel = rows[o].channel
  BY <1>3 DEF Row
<1> HIDE DEF row
<1>5. /\ rows'[o] = row /\ \A p \in Ids \ {o} : rows'[p] = rows[p]
      /\ rows' \in [Ids -> {NoRow} \cup Row]
  BY <1>1, <1>4 DEF RestTypeOK
<1> QED BY <1>1, <1>3, <1>4, <1>5 DEF o

LEMMA CreateEffect ==
    ASSUME RestTypeOK, NEW o \in Ids, NEW c \in Gateways, NEW a \in Amounts,
           CreatePayment(o, c, a)
    PROVE  /\ rows[o] = NoRow /\ rows'[o] \in Row
           /\ rows'[o].amount = a /\ rows'[o].channel = c /\ rows'[o].status = "pending"
           /\ \A p \in Ids \ {o} : rows'[p] = rows[p]
           /\ rows' \in [Ids -> {NoRow} \cup Row]
           /\ trades' \subseteq trades \cup {Opened(o, c, a)}
           /\ c \in process.gateways
<1> DEFINE row == [status |-> "pending", channel |-> c, amount |-> a]
<1>1. row \in Row /\ row.amount = a /\ row.channel = c /\ row.status = "pending"
  BY DEF Row
<1>2. rows[o] = NoRow /\ rows' = [rows EXCEPT ![o] = row] /\ c \in process.gateways
  BY DEF CreatePayment, Serves
<1>3. trades' \subseteq trades \cup {Opened(o, c, a)}
  BY DEF CreatePayment
<1> HIDE DEF row
<1> QED BY <1>1, <1>2, <1>3 DEF RestTypeOK

LEMMA ServingTyped ==
    ASSUME RestTypeOK, Serving
    PROVE  RestTypeOK' /\ UNCHANGED process
<1>1. ASSUME NEW o \in Ids, NEW c \in Gateways, NEW a \in Amounts, CreatePayment(o, c, a)
      PROVE  RestTypeOK' /\ UNCHANGED process
  <2>1. /\ rows' \in [Ids -> {NoRow} \cup Row]
        /\ trades' \subseteq trades \cup {Opened(o, c, a)}
    BY <1>1, CreateEffect
  <2>2. UNCHANGED <<file, env, process, captures, upsets>>
    BY <1>1 DEF CreatePayment
  <2> QED BY <2>1, <2>2, OpenedTyped DEF RestTypeOK
<1>2. ASSUME NEW t \in trades, NEW a \in Amounts, Pay(t, a)
      PROVE  RestTypeOK' /\ UNCHANGED process
  <2>1. [t EXCEPT !.amount = a] \in Capture
    BY PaidTyped DEF RestTypeOK
  <2> QED BY <1>2, <2>1 DEF Pay, RestTypeOK
<1>3. ASSUME NEW n \in captures, Notify(n)
      PROVE  RestTypeOK' /\ UNCHANGED process
  BY <1>3, NotifyEffect DEF Notify, RestTypeOK
<1> QED BY <1>1, <1>2, <1>3 DEF Serving

Inv == ProcessTypeOK /\ RestTypeOK /\ BootIsSound

LEMMA BootInvariant ==
    /\ Init => Inv
    /\ Inv /\ [Next]_vars => Inv'
<1>1. ASSUME Init
      PROVE  Inv
  <2>1. process = [pc |-> "down", given |-> {}, gateways |-> {}]
    BY <1>1 DEF Init, Down
  <2>2. ProcessTypeOK /\ BootIsSound
    BY <2>1 DEF ProcessTypeOK, BootIsSound, Tried
  <2>3. RestTypeOK
    BY <1>1, DeploymentAssumption DEF Init, RestTypeOK
  <2> QED BY <2>2, <2>3 DEF Inv
<1>2. ASSUME Inv, [Next]_vars
      PROVE  Inv'
  <2>1. CASE BootStep
    <3>1. UNCHANGED <<file, env, rows, trades, captures, upsets>>
      BY <2>1 DEF BootStep, Start, OpenStore, Build
    <3> QED BY <1>2, <2>1, <3>1, BootStepKeeps DEF Inv, RestTypeOK
  <2>2. CASE Die
    <3>1. process' = [pc |-> "down", given |-> {}, gateways |-> {}]
      BY <2>2 DEF Die, Down
    <3>2. ProcessTypeOK' /\ BootIsSound'
      BY <3>1 DEF ProcessTypeOK, BootIsSound, Tried
    <3>3. RestTypeOK'
      BY <1>2, <2>2, DeploymentAssumption DEF Die, Upset, Inv, RestTypeOK
    <3> QED BY <3>2, <3>3 DEF Inv
  <2>3. ASSUME NEW k \in Editable, Edit(k)
        PROVE  Inv'
    <3>1. Toggle(k, file) \subseteq Keys /\ Toggle(k, env) \subseteq Keys
      BY <1>2, DeploymentAssumption DEF Inv, RestTypeOK, Toggle
    <3>2. UNCHANGED process /\ RestTypeOK'
      BY <1>2, <2>3, <3>1, DeploymentAssumption DEF Edit, Upset, Inv, RestTypeOK
    <3> QED BY <1>2, <3>2 DEF Inv, ProcessTypeOK, BootIsSound
  <2>4. CASE Serving
    BY <1>2, <2>4, ServingTyped DEF Inv, ProcessTypeOK, BootIsSound
  <2>5. CASE UNCHANGED vars
    BY <1>2, <2>5 DEF vars, Inv, ProcessTypeOK, RestTypeOK, BootIsSound
  <2> QED BY <1>2, <2>1, <2>2, <2>3, <2>4, <2>5 DEF Next, Serving
<1> QED BY <1>1, <1>2

LEMMA AlwaysInv == Spec => []Inv
  BY BootInvariant, PTL DEF Spec

\* Whatever the configuration, the edits and the crashes, every variable keeps
\* its type: in particular a process is started only with keys it knows, and a
\* row is never left half written.
THEOREM DeploymentTypeCorrect == Spec => []TypeOK
<1>1. Inv => TypeOK
  BY DEF Inv, ProcessTypeOK, RestTypeOK, TypeOK
<1> QED BY <1>1, AlwaysInv, PTL

\* What config.Validate accepts is all that the constructors of main.go need: no
\* boot is stopped half way for want of a setting, whatever the operator has put
\* in the file and in the environment.
THEOREM ValidatedBootsComplete == Spec => []ValidatedIsComplete
<1>1. Inv => ValidatedIsComplete
  <2>1. ASSUME Inv, NEW part \in Parts, process.pc = part, Wanted(part, process.given)
        PROVE  Builds(part, process.given)
    <3>1. Validate(process.given)
      BY <2>1 DEF Inv, BootIsSound, Parts, Gateways
    <3> QED BY <2>1, <3>1, ValidIsEnough
  <2>2. ASSUME Inv, "stripe" \in process.gateways
        PROVE  "stripe.webhook_secret" \in process.given
    <3>1. "stripe" \in Tried(process.pc) /\ Wanted("stripe", process.given)
      BY <2>2 DEF Inv, BootIsSound
    <3>2. Validate(process.given)
      BY <2>2, <3>1 DEF Inv, BootIsSound, Tried
    <3> QED BY <3>1, <3>2, ValidIsEnough DEF Parts, Gateways
  <2> QED BY <2>1, <2>2 DEF ValidatedIsComplete
<1> QED BY <1>1, AlwaysInv, PTL

\* A process that is up serves the gateways whose first key it was given, and
\* those only: the second key that main.go asks for leaves out no WeChat.
THEOREM ConfiguredIsServed == Spec => []ServesWhatIsConfigured
<1>1. ASSUME Inv, process.pc = "up"
      PROVE  process.gateways = {c \in Gateways : Trigger[c] \in process.given}
  <2>1. Validate(process.given) /\ Tried(process.pc) = Gateways
    BY <1>1 DEF Inv, BootIsSound, Tried
  <2>2. \A c \in Gateways : Wanted(c, process.given) <=> Trigger[c] \in process.given
    BY <2>1, ValidIsEnough DEF Parts
  <2> QED BY <1>1, <2>1, <2>2 DEF Inv, BootIsSound
<1>2. Inv => ServesWhatIsConfigured
  BY <1>1 DEF ServesWhatIsConfigured
<1> QED BY <1>2, AlwaysInv, PTL

-----------------------------------------------------------------------------
(***************************************************************************)
(* The money.  Trades and captures belong to rows, a trade asks for the    *)
(* amount of its row, and a paid row has a capture of its amount.  So what *)
(* is captured under the number of a single row was meant for it.          *)
(***************************************************************************)
BelongsTo(t) ==
    /\ rows[t.for] \in Row
    /\ t.no = OutTradeNo(t.for) /\ t.channel = rows[t.for].channel

Tally ==
    /\ \A t \in trades : BelongsTo(t) /\ t.amount = rows[t.for].amount
    /\ \A n \in captures : BelongsTo(n)
    /\ PaidInFull

\* The text that is sent to Alipay means the amount that was meant.
LEMMA MeansItself ==
    ASSUME NEW c, NEW fen \in Amounts
    PROVE  Understood(c, fen) = fen
<1>1. fen \in 1..MaxInt /\ FormatAmount(fen) \in Notations(fen)
  BY DeploymentAssumption, AmountsRoundTrip DEF RoundTrips
<1> DEFINE Means(n) == FormatAmount(fen) \in Notations(n)
<1>2. ASSUME NEW n \in 1..MaxInt, Means(n)
      PROVE  n = fen
  <2>1. ParseYuanToFen(FormatAmount(fen)) = n
    BY <1>2, AmountsRoundTrip DEF RoundTrips
  <2>2. ParseYuanToFen(FormatAmount(fen)) = fen
    BY <1>1, AmountsRoundTrip DEF RoundTrips
  <2> QED BY <2>1, <2>2
<1>3. \E n \in 1..MaxInt : Means(n)
  BY <1>1
<1> HIDE DEF Means
<1>4. (CHOOSE n \in 1..MaxInt : Means(n)) = fen
  BY <1>2, <1>3
<1>5. Meaning[fen] = fen
  BY <1>4 DEF Meaning, Means
<1> QED BY <1>5 DEF Understood

\* A notification is read as the amount that was captured.
LEMMA ToldIsCaptured ==
    ASSUME NEW n \in Capture
    PROVE  Told(n) \subseteq {n.amount}
<1>1. n.amount \in Amounts /\ n.amount \in 1..MaxInt
  BY DeploymentAssumption DEF Capture
<1>2. \A yuan \in Notations(n.amount) : ParseYuanToFen(yuan) = n.amount
  BY <1>1, AmountsRoundTrip DEF RoundTrips
<1>3. Readings[n.amount] \subseteq {n.amount}
  BY <1>1, <1>2 DEF Readings
<1> QED BY <1>3 DEF Told

LEMMA BelongingKept ==
    ASSUME NEW t, BelongsTo(t), rows'[t.for] \in Row,
           rows'[t.for].channel = rows[t.for].channel
    PROVE  BelongsTo(t)'
  BY DEF BelongsTo

\* Under the number of an order that no other on record shares, nothing but its
\* own money is captured.
LEMMA AloneIsOwn ==
    ASSUME RestTypeOK, NEW n \in captures, BelongsTo(n),
           NEW o \in Ids, o = UuidFromCompact(n.no), Alone(o)
    PROVE  n.for = o /\ n.channel = rows[o].channel
<1>1. n.for \in Ids /\ n.no = n.for.text /\ rows[n.for] # NoRow
  <2>1. n.for \in Ids
    BY DEF RestTypeOK, Capture, Trade
  <2>2. NoRow \notin Row
    BY DEF NoRow, Row
  <2> QED BY <2>1, <2>2 DEF BelongsTo, OutTradeNo
<1>2. o.text = n.no
  BY DEF UuidFromCompact
<1>3. n.for = o
  BY <1>1, <1>2 DEF Alone
<1> QED BY <1>3 DEF BelongsTo

LEMMA TallyKept ==
    ASSUME RestTypeOK, Tally, [Next]_vars
    PROVE  Tally'
<1>1. CASE UNCHANGED <<rows, trades, captures>>
  BY <1>1 DEF Tally, PaidInFull, Alone, BelongsTo
<1>2. ASSUME NEW o \in Ids, NEW c \in Gateways, NEW a \in Amounts, CreatePayment(o, c, a)
      PROVE  Tally'
  <2>1. /\ rows[o] = NoRow /\ rows'[o] \in Row
        /\ rows'[o].amount = a /\ rows'[o].channel = c /\ rows'[o].status = "pending"
        /\ \A p \in Ids \ {o} : rows'[p] = rows[p]
        /\ trades' \subseteq trades \cup {Opened(o, c, a)}
    BY <1>2, CreateEffect
  <2>2. captures' = captures
    BY <1>2 DEF CreatePayment
  <2>3. NoRow \notin Row
    BY DEF NoRow, Row
  <2>4. ASSUME NEW t \in trades \cup captures
        PROVE  t.for \in Ids \ {o} /\ BelongsTo(t)'
    <3>1. BelongsTo(t) /\ t.for \in Ids
      BY <2>4 DEF Tally, RestTypeOK, Capture, Trade
    <3>2. t.for # o /\ rows[t.for] \in Row
      BY <2>1, <2>3, <3>1 DEF BelongsTo
    <3>3. rows'[t.for] = rows[t.for]
      BY <2>1, <3>1, <3>2
    <3> QED BY <3>1, <3>2, <3>3, BelongingKept
  <2>5. PICK opened : opened = Opened(o, c, a)
    OBVIOUS
  <2>6. /\ opened.for = o /\ opened.amount = a /\ BelongsTo(opened)'
        /\ trades' \subseteq trades \cup {opened}
    <3>1. /\ opened.for = o /\ opened.amount = a
          /\ opened.no = OutTradeNo(o) /\ opened.channel = c
      BY <2>5, MeansItself DEF Opened
    <3>2. BelongsTo(opened)'
      BY <2>1, <3>1 DEF BelongsTo
    <3> QED BY <2>1, <2>5, <3>1, <3>2
  <2>7. \A t \in trades' : BelongsTo(t)' /\ t.amount = rows'[t.for].amount
    <3>1. ASSUME NEW t \in trades
          PROVE  t.amount = rows'[t.for].amount
      BY <2>1, <2>4 DEF Tally
    <3> QED BY <2>1, <2>4, <2>6, <3>1
  <2>8. ASSUME NEW p \in Ids, rows'[p].status = "paid"
        PROVE  \E n \in captures' :
                 /\ UuidFromCompact(n.no) = p /\ n.amount = rows'[p].amount
                 /\ n.channel = "stripe" => rows'[p].channel = "stripe"
                 /\ Alone(p)' => n.for = p /\ n.channel = rows'[p].channel
    <3>1. p # o /\ rows'[p] = rows[p]
      BY <2>1, <2>8
    <3>2. Alone(p)' => Alone(p)
      BY <2>1, <2>3 DEF Alone
    <3> QED BY <2>2, <2>8, <3>1, <3>2 DEF Tally, PaidInFull
  <2>9. PaidInFull'
    BY <2>8 DEF PaidInFull
  <2> QED BY <2>2, <2>4, <2>7, <2>9 DEF Tally
<1>3. ASSUME NEW t \in trades, NEW a \in Amounts, Pay(t, a)
      PROVE  Tally'
  <2> DEFINE n == [t EXCEPT !.amount = a]
  <2>1. t \in Trade /\ BelongsTo(t)
    BY DEF Tally, RestTypeOK
  <2>2. n.for = t.for /\ n.no = t.no /\ n.channel = t.channel
    BY <2>1 DEF Trade
  <2>3. captures' = captures \cup {n} /\ UNCHANGED <<rows, trades>>
    BY <1>3 DEF Pay
  <2> HIDE DEF n
  <2>4. BelongsTo(n)'
    BY <2>1, <2>2, <2>3 DEF BelongsTo
  <2>5. \A m \in captures' : BelongsTo(m)'
    BY <2>3, <2>4 DEF Tally, BelongsTo
  <2>6. \A m \in trades' : BelongsTo(m)' /\ m.amount = rows'[m.for].amount
    BY <2>3 DEF Tally, BelongsTo
  <2>7. PaidInFull'
    BY <2>3 DEF Tally, PaidInFull, Alone
  <2> QED BY <2>5, <2>6, <2>7 DEF Tally
<1>4. ASSUME NEW n \in captures, Notify(n)
      PROVE  Tally'
  <2> DEFINE o == UuidFromCompact(n.no)
  <2>1. /\ o \in Ids /\ rows[o] \in Row /\ rows'[o] \in Row
        /\ rows'[o].amount = rows[o].amount /\ rows'[o].channel = rows[o].channel
        /\ rows[o].amount \in Told(n)
        /\ n.channel = "stripe" => rows[o].channel = "stripe"
        /\ \A p \in Ids \ {o} : rows'[p] = rows[p]
    BY <1>4, NotifyEffect
  <2>2. trades' = trades /\ captures' = captures
    BY <1>4 DEF Notify
  <2>3. rows'[o].amount = n.amount
    BY <1>4, <2>1, ToldIsCaptured DEF RestTypeOK
  <2>4. o = UuidFromCompact(n.no)
    OBVIOUS
  <2> HIDE DEF o
  <2>5. ASSUME NEW p \in Ids, rows[p] \in Row
        PROVE  /\ rows'[p] \in Row /\ rows'[p].amount = rows[p].amount
               /\ rows'[p].channel = rows[p].channel
    <3>1. CASE p = o
      BY <2>1, <3>1
    <3>2. CASE p # o
      <4>1. rows'[p] = rows[p]
        BY <2>1, <3>2
      <4> QED BY <2>5, <4>1
    <3> QED BY <3>1, <3>2
  <2>6. ASSUME NEW t \in trades \cup captures
        PROVE  /\ rows[t.for] \in Row /\ t.for \in Ids
               /\ rows'[t.for].amount = rows[t.for].amount /\ BelongsTo(t)'
    <3>1. BelongsTo(t) /\ t.for \in Ids
      BY <2>6 DEF Tally, RestTypeOK, Capture, Trade
    <3>2. rows[t.for] \in Row
      BY <3>1 DEF BelongsTo
    <3> QED BY <2>5, <3>1, <3>2, BelongingKept
  <2>7. \A t \in trades' : BelongsTo(t)' /\ t.amount = rows'[t.for].amount
    BY <2>2, <2>6 DEF Tally
  <2>8. \A m \in captures' : BelongsTo(m)'
    BY <2>2, <2>6
  <2>9. ASSUME NEW p \in Ids
        PROVE  Alone(p)' => Alone(p)
    <3>1. \A x \in Ids : rows[x] # NoRow => rows'[x] # NoRow
      <4>1. NoRow \notin Row
        BY DEF NoRow, Row
      <4> QED BY <2>5, <4>1 DEF RestTypeOK
    <3> QED BY <3>1 DEF Alone
  <2>10. ASSUME NEW p \in Ids, rows'[p].status = "paid"
         PROVE  \E m \in captures' :
                  /\ UuidFromCompact(m.no) = p /\ m.amount = rows'[p].amount
                  /\ m.channel = "stripe" => rows'[p].channel = "stripe"
                  /\ Alone(p)' => m.for = p /\ m.channel = rows'[p].channel
    <3>1. CASE p = o
      <4>1. Alone(o)' => n.for = o /\ n.channel = rows[o].channel
        BY <2>1, <2>4, <2>9, AloneIsOwn DEF Tally
      <4> QED BY <2>1, <2>2, <2>3, <2>4, <3>1, <4>1
    <3>2. CASE p # o
      <4>1. rows'[p] = rows[p]
        BY <2>1, <3>2
      <4> QED BY <2>2, <2>9, <2>10, <4>1 DEF Tally, PaidInFull
    <3> QED BY <3>1, <3>2
  <2>11. PaidInFull'
    BY <2>10 DEF PaidInFull
  <2> QED BY <2>7, <2>8, <2>11 DEF Tally
<1>5. ASSUME BootStep \/ Die \/ (\E k \in Editable : Edit(k)) \/ UNCHANGED vars
      PROVE  UNCHANGED <<rows, trades, captures>>
  BY <1>5 DEF BootStep, Start, OpenStore, Build, Die, Edit, vars
<1> QED BY <1>1, <1>2, <1>3, <1>4, <1>5 DEF Next

LEMMA AlwaysTally == Spec => []Tally
<1>1. Init => Tally
  BY DEF Init, Tally, PaidInFull, NoRow
<1>2. Inv /\ Tally /\ [Next]_vars => Tally'
  BY TallyKept DEF Inv
<1> QED BY <1>1, <1>2, AlwaysInv, PTL DEF Spec

\* No order is ever paid with less or more than its amount, whatever is captured
\* and however the amount is written in the notification.
THEOREM OrdersArePaidInFull == Spec => []PaidInFull
<1>1. Tally => PaidInFull
  BY DEF Tally
<1> QED BY <1>1, AlwaysTally, PTL

\* Every trade asks the payer for the amount of its row, whichever gateway it is
\* opened at, and whichever amount is asked for is read back as it.
THEOREM TradesAskForTheAmount == Spec => []AmountsSurvive
<1>1. Tally => AmountsSurvive
  BY AmountsRoundTrip DEF Tally, AmountsSurvive
<1> QED BY <1>1, AlwaysTally, PTL

=============================================================================
