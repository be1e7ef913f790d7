---------------------------- MODULE TenantAdmin ----------------------------
(***************************************************************************)
(* The tenants table under the admin API (internal/server/admin_handler.go *)
(* over internal/store/tenants.go), and the requests that authenticate     *)
(* against it (internal/server/auth.go).  A handler runs one or two        *)
(* statements, each in a transaction of its own, and answers; operators    *)
(* work at the same time, and so do tenants.                               *)
(*                                                                         *)
(* What a column holds is kept as the call that wrote it: a generated      *)
(* secret is named by the call that generated it, and so is any other      *)
(* value.  First stands for what the table held before the first call.     *)
(*                                                                         *)
(* A request that is refused before its first statement (400, 401 for a    *)
(* malformed header) touches nothing and is left out; so is a PATCH whose  *)
(* value has a type that the driver refuses, and the list of tenants.      *)
(***************************************************************************)
EXTENDS Naturals

CONSTANTS
    Calls,       \* calls of the admin API, each made once
    Attempts,    \* requests that authenticate as a tenant, each made once
    Ids,         \* ids the database hands out
    Names,
    Standing,    \* Standing[i]: the name of the tenant i that exists at the start
    Paying,      \* tenants that own payments
    Bodies,      \* bodies of PATCH: values of "true", "false", "text" and "null"
    First, None,
    MaxUpsets    \* bound on failed statements and crashes

\* The keys of a body that reach UpdateTenant.
updateAllowedFields == {"callback_url", "callback_secret", "description", "is_active"}
Columns == updateAllowedFields \cup {"secret_hash"}

ASSUME TenantAdminAssumption ==
    /\ First \notin Calls /\ None \notin Ids \cup Names
    /\ DOMAIN Standing \subseteq Ids
    /\ \A i \in DOMAIN Standing : Standing[i] \in Names
    /\ \A b \in Bodies : DOMAIN b \subseteq updateAllowedFields \cup {"name"}
    /\ MaxUpsets \in Nat

VARIABLES
    tenants,     \* tenants[i]: the row with id i
    call,        \* call[c]: the goroutine that serves c, and what it answered
    attempt,     \* attempt[a]: tenantAuthMiddleware serving a
    upsets

vars == <<tenants, call, attempt, upsets>>

Writers == Calls \cup {First}
Row == [state : {"present"}, name : Names, columns : [Columns -> Writers]]
Unused == [state |-> "unused"]
Deleted == [state |-> "deleted"]

Answers == {"none", "200", "201", "204", "404", "409", "500", "lost"}
NotRead == [k \in Columns |-> First]
NoCall == [at |-> "idle"]
\* read is the row that the handler has read; before is history: the calls
\* that had been answered when this one was made.
Call == [at : {"insert", "find", "rotate", "update", "select", "delete", "done"},
         kind : {"create", "rotate", "patch", "delete", "get"},
         id : Ids \cup {None}, name : Names \cup {None}, body : Bodies \cup {None},
         read : [Columns -> Writers], before : SUBSET Calls, answer : Answers]
NoAttempt == [at |-> "idle"]
Attempt == [at : {"lookup", "verify", "admitted", "refused", "lost"}, id : Ids,
            secret : Writers, found : Writers, before : SUBSET Calls]

TypeOK ==
    /\ tenants \in [Ids -> Row \cup {Unused, Deleted}]
    /\ call \in [Calls -> Call \cup {NoCall}]
    /\ attempt \in [Attempts -> Attempt \cup {NoAttempt}]
    /\ upsets \in 0..MaxUpsets

Present(i) == tenants[i].state = "present"
Known(i) == tenants[i].state # "unused"
Answered == {c \in Calls : call[c].at = "done" /\ call[c].answer # "lost"}

Init ==
    /\ tenants = [i \in Ids |-> IF i \in DOMAIN Standing
                                THEN [state |-> "present", name |-> Standing[i],
                                      columns |-> [k \in Columns |-> First]]
                                ELSE Unused]
    /\ call = [c \in Calls |-> NoCall]
    /\ attempt = [a \in Attempts |-> NoAttempt]
    /\ upsets = MaxUpsets

-----------------------------------------------------------------------------
(***************************************************************************)
(* Calls of the admin API.                                                 *)
(***************************************************************************)
Upset == upsets > 0 /\ upsets' = upsets - 1
Calm == UNCHANGED upsets

Begin(c, kind, at, i, n, b) ==
    /\ call[c].at = "idle"
    /\ call' = [call EXCEPT ![c] =
                  [at |-> at, kind |-> kind, id |-> i, name |-> n, body |-> b,
                   read |-> NotRead, before |-> Answered, answer |-> "none"]]
    /\ UNCHANGED <<tenants, attempt, upsets>>

\* An operator uses the ids of tenants that there are, or were.
BeginCall(c) ==
    \/ \E n \in Names : Begin(c, "create", "insert", None, n, None)
    \/ \E i \in Ids :
          /\ Known(i)
          /\ \/ Begin(c, "rotate", "find", i, None, None)
             \/ \E b \in Bodies : Begin(c, "patch", "update", i, None, b)
             \/ Begin(c, "delete", "delete", i, None, None)
             \/ Begin(c, "get", "select", i, None, None)

Goes(c, at) == call' = [call EXCEPT ![c].at = at]
Answer(c, a) == call' = [call EXCEPT ![c].at = "done", ![c].answer = a]

\* A statement whose error the handler sees may have taken effect all the same,
\* and the answer to one that did may be lost.
Fails(c, statement) ==
    /\ Upset
    /\ statement \/ UNCHANGED tenants
    /\ Answer(c, "500") \/ Answer(c, "lost")

Taken(n) == \E i \in Ids : Present(i) /\ tenants[i].name = n

InsertTenant(i, n, c) ==
    tenants' = [tenants EXCEPT ![i] = [state |-> "present", name |-> n,
                                       columns |-> [k \in Columns |-> c]]]

\* The insert updates the row that has the name, and then reports the conflict.
CreateTenant_Upsert(c) ==
    LET n == call[c].name
    IN  /\ call[c].at = "insert"
        /\ IF Taken(n)
           THEN /\ tenants' = [i \in Ids |->
                      IF Present(i) /\ tenants[i].name = n
                      THEN [tenants[i] EXCEPT !.columns["secret_hash"] = c] ELSE tenants[i]]
                /\ Answer(c, "409")
           ELSE \E i \in Ids :
                  /\ tenants[i] = Unused /\ InsertTenant(i, n, c)
                  /\ call' = [call EXCEPT ![c].at = "done", ![c].answer = "201", ![c].id = i]
        /\ Calm
        /\ UNCHANGED attempt

\* handleCreateTenant: generate and hash a secret, INSERT, answer 201 with it.
CreateTenant(c) ==
    LET n == call[c].name
    IN  /\ call[c].at = "insert"
        /\ \/ Calm /\ Taken(n) /\ Answer(c, "409") /\ UNCHANGED tenants
           \/ /\ Calm /\ ~ Taken(n)
              /\ \E i \in Ids :
                   /\ tenants[i] = Unused /\ InsertTenant(i, n, c)
                   /\ call' = [call EXCEPT ![c].at = "done", ![c].answer = "201", ![c].id = i]
           \/ \E i \in Ids :
                Fails(c, ~ Taken(n) /\ tenants[i] = Unused /\ InsertTenant(i, n, c))
        /\ UNCHANGED attempt

\* handleRotateTenantSecret: GetTenantByID first; an error is answered 404 too.
FindTenant(c) ==
    /\ call[c].at = "find"
    /\ \/ /\ Calm /\ Present(call[c].id)
          /\ call' = [call EXCEPT ![c].at = "rotate",
                                  ![c].read = tenants[call[c].id].columns]
       \/ Calm /\ ~ Present(call[c].id) /\ Answer(c, "404")
       \/ Upset /\ Answer(c, "404")
    /\ UNCHANGED <<tenants, attempt>>

\* An upsert: a tenant that is gone comes back, without its name.
SetColumns_Upsert(i, ks, c) ==
    tenants' = [tenants EXCEPT ![i] =
                  [state |-> "present", name |-> IF Present(i) THEN @.name ELSE None,
                   columns |-> [k \in Columns |->
                      IF k \in ks \/ ~ Present(i) THEN c ELSE tenants[i].columns[k]]]]

\* UPDATE tenants SET ... WHERE id = i; it is no error if there is no such row.
SetColumns(i, ks, c) ==
    IF Present(i)
    THEN tenants' = [tenants EXCEPT ![i].columns =
                       [k \in Columns |-> IF k \in ks THEN c ELSE @[k]]]
    ELSE UNCHANGED tenants

\* The row that was read is written back with the new secret in it.
RotateTenantSecret_WholeRow(c) ==
    LET i == call[c].id
    IN  /\ call[c].at = "rotate"
        /\ IF Present(i)
           THEN tenants' = [tenants EXCEPT ![i].columns =
                              [call[c].read EXCEPT !["secret_hash"] = c]]
           ELSE UNCHANGED tenants
        /\ Calm /\ Answer(c, "200")
        /\ UNCHANGED attempt

\* Then the new hash is stored, and the secret answered, row or no row.
RotateTenantSecret(c) ==
    /\ call[c].at = "rotate"
    /\ \/ Calm /\ SetColumns(call[c].id, {"secret_hash"}, c) /\ Answer(c, "200")
       \/ Fails(c, SetColumns(call[c].id, {"secret_hash"}, c))
    /\ UNCHANGED attempt

\* The keys of the body that handleUpdateTenant lets through.
Filtered(b) == DOMAIN b \cap updateAllowedFields

\* A null is refused where a row would get it, and the whole statement with it.
HasNull(b) == \E k \in Filtered(b) : b[k] = "null"

\* The handler answers with the row that it read before the update.
UpdateTenant_ReadsFirst(c) ==
    LET i == call[c].id
    IN  /\ call[c].at = "update" /\ Present(i) /\ ~ HasNull(call[c].body)
        /\ SetColumns(i, Filtered(call[c].body), c)
        /\ call' = [call EXCEPT ![c].at = "done", ![c].answer = "200",
                                ![c].read = tenants[i].columns]
        /\ Calm
        /\ UNCHANGED attempt

\* handleUpdateTenant: first the UPDATE, of the columns that the body names.
UpdateTenant(c) ==
    LET i == call[c].id   b == call[c].body   refused == Present(i) /\ HasNull(b)
    IN  /\ call[c].at = "update"
        /\ \/ Calm /\ refused /\ Answer(c, "500") /\ UNCHANGED tenants
           \/ Calm /\ ~ refused /\ SetColumns(i, Filtered(b), c) /\ Goes(c, "select")
           \/ Filtered(b) # {} /\ Fails(c, ~ refused /\ SetColumns(i, Filtered(b), c))
        /\ UNCHANGED attempt

\* Then the row is read for the answer; handleGetTenant does only this.
SelectTenant(c) ==
    /\ call[c].at = "select"
    /\ \/ /\ Calm /\ Present(call[c].id)
          /\ call' = [call EXCEPT ![c].at = "done", ![c].answer = "200",
                                  ![c].read = tenants[call[c].id].columns]
       \/ Calm /\ ~ Present(call[c].id) /\ Answer(c, "404")
       \/ Upset /\ Answer(c, "500")
    /\ UNCHANGED <<tenants, attempt>>

\* handleDeleteTenant.  The foreign key keeps a tenant that owns payments; a
\* tenant that is gone already is answered 204 too.
DeleteTenant(c) ==
    LET i == call[c].id   gone == tenants' = [tenants EXCEPT ![i] = Deleted]
    IN  /\ call[c].at = "delete"
        /\ \/ Calm /\ Present(i) /\ i \in Paying /\ Answer(c, "409") /\ UNCHANGED tenants
           \/ Calm /\ Present(i) /\ i \notin Paying /\ gone /\ Answer(c, "204")
           \/ Calm /\ ~ Present(i) /\ Answer(c, "204") /\ UNCHANGED tenants
           \/ Fails(c, Present(i) /\ i \notin Paying /\ gone)
        /\ UNCHANGED attempt

CallStep(c) ==
    \/ BeginCall(c) \/ CreateTenant(c) \/ FindTenant(c) \/ RotateTenantSecret(c)
    \/ UpdateTenant(c) \/ SelectTenant(c) \/ DeleteTenant(c)

-----------------------------------------------------------------------------
(***************************************************************************)
(* tenantAuthMiddleware.                                                   *)
(***************************************************************************)
\* The secret is the first one or one that an operator was shown.
Authenticate(a, i, s) ==
    /\ attempt[a].at = "idle" /\ Known(i)
    /\ s = First \/ (s \in Calls /\ call[s].at = "done" /\ call[s].answer \in {"200", "201"})
    /\ attempt' = [attempt EXCEPT ![a] =
                     [at |-> "lookup", id |-> i, secret |-> s, found |-> First,
                      before |-> Answered]]
    /\ UNCHANGED <<tenants, call, upsets>>

\* is_active, as the call w left it.
ActiveBy(w) ==
    w # First /\ call[w].kind = "patch" => call[w].body["is_active"] = "true"

\* is_active is not looked at.
LookupTenant_Inactive(a) ==
    LET i == attempt[a].id
    IN  /\ attempt[a].at = "lookup"
        /\ attempt' = IF Present(i)
                      THEN [attempt EXCEPT ![a].at = "verify",
                                           ![a].found = tenants[i].columns["secret_hash"]]
                      ELSE [attempt EXCEPT ![a].at = "refused"]
        /\ Calm /\ UNCHANGED <<tenants, call>>

\* GetTenantByID; no tenant, an inactive one and an error are all answered 401.
LookupTenant(a) ==
    LET i == attempt[a].id
        valid == Present(i) /\ ActiveBy(tenants[i].columns["is_active"])
    IN  /\ attempt[a].at = "lookup"
        /\ \/ /\ Calm /\ valid
              /\ attempt' = [attempt EXCEPT ![a].at = "verify",
                                            ![a].found = tenants[i].columns["secret_hash"]]
           \/ ((Calm /\ ~ valid) \/ Upset) /\ attempt' = [attempt EXCEPT ![a].at = "refused"]
        /\ UNCHANGED <<tenants, call>>

\* VerifySecret compares with the hash that was read; the row is not read again.
VerifySecret(a) ==
    /\ attempt[a].at = "verify"
    /\ attempt' = [attempt EXCEPT ![a].at = IF attempt[a].found = attempt[a].secret
                                            THEN "admitted" ELSE "refused"]
    /\ UNCHANGED <<tenants, call, upsets>>

AttemptStep(a) ==
    \/ \E i \in Ids, s \in Writers : Authenticate(a, i, s)
    \/ LookupTenant(a) \/ VerifySecret(a)

\* The process dies, and what it was doing gets no answer.
Crash ==
    /\ Upset
    /\ call' = [c \in Calls |-> IF call[c].at \in {"idle", "done"} THEN call[c]
                                ELSE [call[c] EXCEPT !.at = "done", !.answer = "lost"]]
    /\ attempt' = [a \in Attempts |-> IF attempt[a].at \in {"lookup", "verify"}
                                      THEN [attempt[a] EXCEPT !.at = "lost"]
                                      ELSE attempt[a]]
    /\ UNCHANGED tenants

Next ==
    \/ \E c \in Calls : CallStep(c)
    \/ \E a \in Attempts : AttemptStep(a)
    \/ Crash

Spec == Init /\ [][Next]_vars

-----------------------------------------------------------------------------
(***************************************************************************)
(* What operators and tenants may rely on.  A call is later than another   *)
(* if it had not been answered when the other was made: it follows it, or  *)
(* runs at the same time.                                                  *)
(***************************************************************************)
Done(c, kind, answers) ==
    call[c].at = "done" /\ call[c].kind = kind /\ call[c].answer \in answers

\* The columns that an answered call c has set on its tenant.
Writes(c) ==
    IF Done(c, "create", {"201"}) THEN Columns
    ELSE IF Done(c, "rotate", {"200"}) THEN {"secret_hash"}
    ELSE IF Done(c, "patch", {"200"}) THEN Filtered(call[c].body)
    ELSE {}

Later(w, c) == w \in Calls /\ w \notin call[c].before

\* What was answered stays: a column that a call has set keeps its value until
\* a later call sets it, and a tenant that was created is there until a later
\* call deletes it.  Nothing that a handler read before it wrote comes back, in
\* particular not the active flag or the secret under a rotation or a PATCH
\* that ran at the same time.
AckedWritesStay ==
    \A c \in Calls : \A k \in (IF call[c].at = "done" THEN Writes(c) ELSE {}) :
        LET i == call[c].id
        IN  IF Present(i)
            THEN tenants[i].columns[k] = c \/ Later(tenants[i].columns[k], c)
            ELSE \E d \in Calls : /\ call[d].at # "idle" /\ call[d].kind = "delete"
                                  /\ call[d].id = i /\ Later(d, c)

\* A tenant that is shown is shown as it was when the call was made, or later:
\* no column is older than what a call answered before had set, nor than what
\* the call itself has set.
ShownIsFresh ==
    \A c \in Calls :
        call[c].at = "done" /\ call[c].answer = "200" /\ call[c].kind \in {"patch", "get"} =>
            \A d \in call[c].before \cup {c} :
                call[d].id = call[c].id =>
                    \A k \in Writes(d) :
                        call[c].read[k] = d \/ Later(call[c].read[k], d)

\* The stored secret was shown to an operator; a tenant is locked out, with a
\* secret that nobody has seen, only by a failed statement or a crash.
SecretIsKnown ==
    \A i \in Ids :
        Present(i) /\ tenants[i].columns["secret_hash"] # First =>
            LET w == tenants[i].columns["secret_hash"]
            IN  \/ Done(w, "create", {"201"}) \/ Done(w, "rotate", {"200"})
                \/ call[w].answer \in {"500", "lost"} /\ upsets < MaxUpsets

\* What ends the access of a tenant i with a secret s, once d is answered: a
\* rotation that began after s was made, deactivation unless a later call
\* activates i again, and deletion.
Activates(e, i) ==
    /\ call[e].at # "idle" /\ call[e].kind = "patch" /\ call[e].id = i
    /\ "is_active" \in DOMAIN call[e].body /\ call[e].body["is_active"] = "true"

Revokes(d, i, s) ==
    /\ call[d].id = i
    /\ \/ Done(d, "rotate", {"200"}) /\ s # d /\ ~ Later(s, d)
       \/ Done(d, "delete", {"204"})
       \/ /\ Done(d, "patch", {"200"}) /\ "is_active" \in DOMAIN call[d].body
          /\ call[d].body["is_active"] = "false"
          /\ \A e \in Calls : Activates(e, i) => ~ Later(e, d)

\* A request that begins after an operator was told that the access is ended is
\* refused, although it is checked against a copy of the row.
RevokedIsRefused ==
    \A a \in Attempts :
        attempt[a].at = "admitted" =>
            \A d \in attempt[a].before : ~ Revokes(d, attempt[a].id, attempt[a].secret)

=============================================================================
