------------------------- MODULE TenantAdminProofs -------------------------
(***************************************************************************)
(* What operators and tenants may rely on, for every number of calls,      *)
(* requests, tenants and upsets.                                           *)
(***************************************************************************)
EXTENDS TenantAdmin, TLAPS

Begun(c) == call[c].at # "idle"

\* What a call has answered stays answered, and what a call may know when it
\* begins is only what has been answered.
History ==
    /\ \A c \in Calls : Begun(c) => call[c].before \subseteq Answered
    /\ \A a \in Attempts : attempt[a].at # "idle" => attempt[a].before \subseteq Answered

\* Where a call can be, and with what in hand.
Shape(c) ==
    LET r == call[c]
    IN  r.at # "idle" =>
          /\ r.at # "done" => r.answer = "none"
          /\ r.kind = "create" => r.at \in {"insert", "done"}
          /\ r.at = "insert" => r.id = None /\ r.name \in Names
          /\ r.kind = "rotate" => r.at \in {"find", "rotate", "done"}
          /\ r.kind = "patch" => r.at \in {"update", "select", "done"} /\ r.body \in Bodies
          /\ r.kind = "delete" => r.at \in {"delete", "done"}
          /\ r.kind = "get" => r.at \in {"select", "done"}
          /\ r.kind # "create" \/ r.answer = "201" => r.id \in Ids /\ Known(r.id)
          /\ r.answer = "201" => r.kind = "create"

\* Who can have written a column.
Wrote(w, i, k) ==
    LET r == call[w]
    IN  \/ r.kind = "create" /\ r.at = "done" /\ r.answer = "201" /\ r.id = i
        \/ /\ r.kind = "create" /\ r.at = "done" /\ r.answer \in {"500", "lost"}
           /\ upsets < MaxUpsets
        \/ /\ r.kind = "rotate" /\ r.at = "done" /\ r.id = i /\ k = "secret_hash"
           /\ r.answer = "200" \/ (r.answer \in {"500", "lost"} /\ upsets < MaxUpsets)
        \/ /\ r.kind = "patch" /\ r.at \in {"select", "done"} /\ r.id = i
           /\ k \in Filtered(r.body)

WritersGood ==
    \A i \in Ids : Present(i) =>
        \A k \in Columns :
            LET w == tenants[i].columns[k] IN w # First => w \in Calls /\ Wrote(w, i, k)

\* The columns that a call has set, from the statement on.
Sets(c) ==
    IF ~ Begun(c) THEN {}
    ELSE IF call[c].at = "select" /\ call[c].kind = "patch" THEN Filtered(call[c].body)
    ELSE IF call[c].at = "done" THEN Writes(c) ELSE {}

\* Such a column holds what c wrote, or what a later rotation or PATCH wrote.
HeldBy(w, c) == w = c \/ (Later(w, c) /\ call[w].kind # "create")

DeletedLater(c) ==
    \E d \in Calls : /\ Begun(d) /\ call[d].kind = "delete"
                     /\ call[d].id = call[c].id /\ Later(d, c)

WriteKept(c) ==
    \A k \in Sets(c) :
        IF Present(call[c].id)
        THEN HeldBy(tenants[call[c].id].columns[k], c)
        ELSE call[c].at = "done" => DeletedLater(c)

\* A rotation has found its tenant.
FoundStays(c) == call[c].at = "rotate" => Present(call[c].id) \/ DeletedLater(c)

DeletedStays ==
    \A c \in Calls : Begun(c) /\ Done(c, "delete", {"204"}) => ~ Present(call[c].id)

\* The hash f that a request has read for tenant i, and that it could go on,
\* compared with what d had been answered when the request began.
Judged(d, i, f) ==
    call[d].id = i =>
      /\ ~ Done(d, "delete", {"204"})
      /\ Done(d, "rotate", {"200"}) => f = d \/ Later(f, d)
      /\ Done(d, "patch", {"200"}) /\ "is_active" \in DOMAIN call[d].body
           /\ call[d].body["is_active"] = "false"
         => \E e \in Calls : Activates(e, i) /\ Later(e, d)

FoundGood(a) ==
    LET r == attempt[a]
    IN  r.at \in {"verify", "admitted"} =>
          /\ r.at = "admitted" => r.found = r.secret
          /\ \A d \in r.before : Judged(d, r.id, r.found)

IInv ==
    /\ TypeOK
    /\ History
    /\ \A c \in Calls : Shape(c)
    /\ WritersGood
    /\ \A c \in Calls : WriteKept(c) /\ FoundStays(c)
    /\ ShownIsFresh
    /\ DeletedStays
    /\ \A a \in Attempts : FoundGood(a)

-----------------------------------------------------------------------------
(***************************************************************************)
(* Records.                                                                *)
(***************************************************************************)
States == {"insert", "find", "rotate", "update", "select", "delete", "done"}

LEMMA Idle ==
    /\ NoCall.at = "idle" /\ NoCall \notin Call
    /\ NoAttempt.at = "idle" /\ NoAttempt \notin Attempt
    /\ \A r \in Call : r.at # "idle"
    /\ \A r \in Attempt : r.at # "idle"
BY DEF NoCall, Call, NoAttempt, Attempt

LEMMA Rows ==
    /\ Unused.state = "unused" /\ Deleted.state = "deleted"
    /\ Unused \notin Row /\ Deleted \notin Row
    /\ \A r \in Row : /\ r.state = "present" /\ r.name \in Names
                       /\ r.columns \in [Columns -> Writers]
BY DEF Unused, Deleted, Row

LEMMA CallFields ==
    ASSUME NEW r, r \in Call
    PROVE  /\ r.at \in States /\ r.kind \in {"create", "rotate", "patch", "delete", "get"}
           /\ r.id \in Ids \cup {None} /\ r.name \in Names \cup {None}
           /\ r.body \in Bodies \cup {None} /\ r.read \in [Columns -> Writers]
           /\ r.before \in SUBSET Calls /\ r.answer \in Answers
BY DEF Call, States

\* The new state of a call that moves on.
Kept(n, r) ==
    n.kind = r.kind /\ n.name = r.name /\ n.body = r.body /\ n.before = r.before

Gone(r, at) == [r EXCEPT !.at = at]
Ended(r, answer) == [r EXCEPT !.at = "done", !.answer = answer]
Created(r, id) == [r EXCEPT !.at = "done", !.answer = "201", !.id = id]
Found(r, read) == [r EXCEPT !.at = "rotate", !.read = read]
Shown(r, read) == [r EXCEPT !.at = "done", !.answer = "200", !.read = read]

LEMMA GoneFields ==
    ASSUME NEW r, r \in Call, NEW at \in States
    PROVE  /\ Gone(r, at) \in Call /\ Kept(Gone(r, at), r)
           /\ Gone(r, at).at = at /\ Gone(r, at).answer = r.answer
           /\ Gone(r, at).id = r.id /\ Gone(r, at).read = r.read
BY DEF Call, States, Kept, Gone, Answers

LEMMA EndedFields ==
    ASSUME NEW r, r \in Call, NEW answer \in Answers
    PROVE  /\ Ended(r, answer) \in Call /\ Kept(Ended(r, answer), r)
           /\ Ended(r, answer).at = "done" /\ Ended(r, answer).answer = answer
           /\ Ended(r, answer).id = r.id /\ Ended(r, answer).read = r.read
BY DEF Call, States, Kept, Ended, Answers

LEMMA CreatedFields ==
    ASSUME NEW r, r \in Call, NEW id \in Ids
    PROVE  /\ Created(r, id) \in Call /\ Kept(Created(r, id), r)
           /\ Created(r, id).at = "done" /\ Created(r, id).answer = "201"
           /\ Created(r, id).id = id /\ Created(r, id).read = r.read
BY DEF Call, States, Kept, Created, Answers

LEMMA FoundFields ==
    ASSUME NEW r, r \in Call, NEW read \in [Columns -> Writers]
    PROVE  /\ Found(r, read) \in Call /\ Kept(Found(r, read), r)
           /\ Found(r, read).at = "rotate" /\ Found(r, read).answer = r.answer
           /\ Found(r, read).id = r.id /\ Found(r, read).read = read
BY DEF Call, States, Kept, Found, Answers

LEMMA ShownFields ==
    ASSUME NEW r, r \in Call, NEW read \in [Columns -> Writers]
    PROVE  /\ Shown(r, read) \in Call /\ Kept(Shown(r, read), r)
           /\ Shown(r, read).at = "done" /\ Shown(r, read).answer = "200"
           /\ Shown(r, read).id = r.id /\ Shown(r, read).read = read
BY DEF Call, States, Kept, Shown, Answers

-----------------------------------------------------------------------------
(***************************************************************************)
(* What a step does to the calls.                                          *)
(***************************************************************************)
\* c moves to at and answers answer, and is otherwise what it was.
Step(c, at, answer, id, read) ==
    /\ call \in [Calls -> Call \cup {NoCall}] /\ call' \in [Calls -> Call \cup {NoCall}]
    /\ call[c] \in Call /\ call'[c] \in Call
    /\ \A x \in Calls \ {c} : call'[x] = call[x]
    /\ call'[c].at = at /\ call'[c].answer = answer
    /\ call'[c].id = id /\ call'[c].read = read
    /\ Kept(call'[c], call[c])

LEMMA CallTyped ==
    ASSUME TypeOK, NEW c \in Calls, Begun(c)
    PROVE  call[c] \in Call
BY Idle DEF TypeOK, Begun

LEMMA StepIs ==
    ASSUME TypeOK, NEW c \in Calls, Begun(c), NEW n, n \in Call,
           Kept(n, call[c]), call' = [call EXCEPT ![c] = n]
    PROVE  Step(c, n.at, n.answer, n.id, n.read)
BY CallTyped DEF Step, TypeOK

LEMMA AnswerStep ==
    ASSUME TypeOK, NEW c \in Calls, Begun(c), NEW a \in Answers, Answer(c, a)
    PROVE  Step(c, "done", a, call[c].id, call[c].read)
<1> DEFINE n == Ended(call[c], a)
<1>1. call[c] \in Call
  BY CallTyped
<1>2. call' = [call EXCEPT ![c] = n]
  BY DEF Answer, TypeOK, Ended
<1>3. /\ n \in Call /\ Kept(n, call[c])
      /\ n.at = "done" /\ n.answer = a
      /\ n.id = call[c].id /\ n.read = call[c].read
  BY <1>1, EndedFields
<1> HIDE DEF n
<1> QED BY <1>2, <1>3, StepIs

LEMMA GoesStep ==
    ASSUME TypeOK, NEW c \in Calls, Begun(c), NEW at \in States, Goes(c, at)
    PROVE  Step(c, at, call[c].answer, call[c].id, call[c].read)
<1> DEFINE n == Gone(call[c], at)
<1>1. call[c] \in Call
  BY CallTyped
<1>2. call' = [call EXCEPT ![c] = n]
  BY DEF Goes, TypeOK, Gone
<1>3. /\ n \in Call /\ Kept(n, call[c])
      /\ n.at = at /\ n.answer = call[c].answer
      /\ n.id = call[c].id /\ n.read = call[c].read
  BY <1>1, GoneFields
<1> HIDE DEF n
<1> QED BY <1>2, <1>3, StepIs

LEMMA CreatedStep ==
    ASSUME TypeOK, NEW c \in Calls, Begun(c), NEW i \in Ids,
           call' = [call EXCEPT ![c] = Created(call[c], i)]
    PROVE  Step(c, "done", "201", i, call[c].read)
<1> DEFINE n == Created(call[c], i)
<1>1. call[c] \in Call
  BY CallTyped
<1>2. call' = [call EXCEPT ![c] = n]
  OBVIOUS
<1>3. /\ n \in Call /\ Kept(n, call[c])
      /\ n.at = "done" /\ n.answer = "201"
      /\ n.id = i /\ n.read = call[c].read
  BY <1>1, CreatedFields
<1> HIDE DEF n
<1>4. Step(c, n.at, n.answer, n.id, n.read)
  BY <1>2, <1>3, StepIs
<1> QED BY <1>3, <1>4

LEMMA FoundStep ==
    ASSUME TypeOK, NEW c \in Calls, Begun(c), NEW read \in [Columns -> Writers],
           call' = [call EXCEPT ![c] = Found(call[c], read)]
    PROVE  Step(c, "rotate", call[c].answer, call[c].id, read)
<1> DEFINE n == Found(call[c], read)
<1>1. call[c] \in Call
  BY CallTyped
<1>2. call' = [call EXCEPT ![c] = n]
  OBVIOUS
<1>3. /\ n \in Call /\ Kept(n, call[c])
      /\ n.at = "rotate" /\ n.answer = call[c].answer
      /\ n.id = call[c].id /\ n.read = read
  BY <1>1, FoundFields
<1> HIDE DEF n
<1> QED BY <1>2, <1>3, StepIs

LEMMA ShownStep ==
    ASSUME TypeOK, NEW c \in Calls, Begun(c), NEW read \in [Columns -> Writers],
           call' = [call EXCEPT ![c] = Shown(call[c], read)]
    PROVE  Step(c, "done", "200", call[c].id, read)
<1> DEFINE n == Shown(call[c], read)
<1>1. call[c] \in Call
  BY CallTyped
<1>2. call' = [call EXCEPT ![c] = n]
  OBVIOUS
<1>3. /\ n \in Call /\ Kept(n, call[c])
      /\ n.at = "done" /\ n.answer = "200"
      /\ n.id = call[c].id /\ n.read = read
  BY <1>1, ShownFields
<1> HIDE DEF n
<1> QED BY <1>2, <1>3, StepIs

-----------------------------------------------------------------------------
(***************************************************************************)
(* What a step does to the table.                                          *)
(***************************************************************************)
Table == tenants' \in [Ids -> Row \cup {Unused, Deleted}]

Set(i, ks, c) ==
    /\ Table
    /\ \A j \in Ids : tenants'[j].state = tenants[j].state
    /\ \A j \in Ids \ {i} : tenants'[j] = tenants[j]
    /\ Present(i) => \A k \in Columns :
          tenants'[i].columns[k] = IF k \in ks THEN c ELSE tenants[i].columns[k]

Insert(i, c) ==
    /\ Table /\ i \in Ids /\ tenants[i] = Unused
    /\ \A j \in Ids \ {i} : tenants'[j] = tenants[j]
    /\ tenants'[i].state = "present"
    /\ \A k \in Columns : tenants'[i].columns[k] = c

Delete(i) ==
    /\ Table /\ i \in Ids /\ Present(i)
    /\ \A j \in Ids \ {i} : tenants'[j] = tenants[j]
    /\ tenants'[i] = Deleted

LEMMA PresentRow ==
    ASSUME TypeOK, NEW i \in Ids, Present(i)
    PROVE  /\ tenants[i] \in Row
           /\ tenants[i].columns \in [Columns -> Writers]
BY Rows DEF TypeOK, Present

LEMMA SetEffect ==
    ASSUME TypeOK, NEW i \in Ids, NEW ks, NEW c \in Calls, SetColumns(i, ks, c)
    PROVE  Set(i, ks, c)
<1>1. CASE ~ Present(i)
  BY <1>1 DEF SetColumns, Set, TypeOK, Table
<1>2. CASE Present(i)
  <2> DEFINE cols == [k \in Columns |-> IF k \in ks THEN c ELSE tenants[i].columns[k]]
             row == [tenants[i] EXCEPT !.columns = cols]
  <2>1. tenants[i] \in Row /\ tenants[i].columns \in [Columns -> Writers]
    BY <1>2, PresentRow
  <2>2. cols \in [Columns -> Writers]
    BY <2>1 DEF Writers
  <2>3. row \in Row /\ row.columns = cols /\ row.state = tenants[i].state
    BY <2>1, <2>2 DEF Row
  <2>4. tenants' = [tenants EXCEPT ![i] = row]
    BY <1>2 DEF SetColumns, TypeOK
  <2>5. \A k \in Columns : cols[k] = IF k \in ks THEN c ELSE tenants[i].columns[k]
    OBVIOUS
  <2> HIDE DEF cols, row
  <2> QED BY <2>3, <2>4, <2>5 DEF Set, TypeOK, Table
<1> QED BY <1>1, <1>2

LEMMA InsertEffect ==
    ASSUME TypeOK, NEW i \in Ids, NEW n \in Names, NEW c \in Calls, tenants[i] = Unused,
           InsertTenant(i, n, c)
    PROVE  Insert(i, c)
<1> DEFINE cols == [k \in Columns |-> c]
           row == [state |-> "present", name |-> n, columns |-> cols]
<1>1. cols \in [Columns -> Writers] /\ \A k \in Columns : cols[k] = c
  BY DEF Writers
<1>2. row.columns = cols /\ row.state = "present"
  OBVIOUS
<1>3. row \in Row
  <2> HIDE DEF cols
  <2> QED BY <1>1 DEF Row
<1>4. tenants' = [tenants EXCEPT ![i] = row]
  BY DEF InsertTenant
<1> HIDE DEF cols, row
<1> QED BY <1>1, <1>2, <1>3, <1>4 DEF Insert, TypeOK, Table

LEMMA DeleteEffect ==
    ASSUME TypeOK, NEW i \in Ids, Present(i), tenants' = [tenants EXCEPT ![i] = Deleted]
    PROVE  Delete(i)
BY DEF Delete, TypeOK, Table

-----------------------------------------------------------------------------
(***************************************************************************)
(* The steps of a call, by what they do.                                   *)
(***************************************************************************)
Broken(c) ==
    /\ upsets' < MaxUpsets
    /\ \/ Step(c, "done", "500", call[c].id, call[c].read)
       \/ Step(c, "done", "lost", call[c].id, call[c].read)

\* c ends and has done nothing.
Quiet(c) ==
    /\ UNCHANGED tenants
    /\ \/ \E a \in {"404", "409", "500", "lost"} :
              Step(c, "done", a, call[c].id, call[c].read)
       \/ /\ Step(c, "done", "204", call[c].id, call[c].read)
          /\ call[c].kind = "delete" /\ ~ Present(call[c].id)

Inserts(c) ==
    /\ call[c].kind = "create" /\ call[c].at = "insert"
    /\ \E i \in Ids : Insert(i, c) /\ (Step(c, "done", "201", i, call[c].read) \/ Broken(c))

Finds(c) ==
    /\ UNCHANGED tenants
    /\ call[c].kind = "rotate" /\ Present(call[c].id)
    /\ \E read \in [Columns -> Writers] : Step(c, "rotate", call[c].answer, call[c].id, read)

Rotates(c) ==
    /\ call[c].kind = "rotate" /\ call[c].at = "rotate"
    /\ Set(call[c].id, {"secret_hash"}, c)
    /\ Step(c, "done", "200", call[c].id, call[c].read) \/ Broken(c)

Updates(c) ==
    /\ call[c].kind = "patch" /\ call[c].at = "update"
    /\ Set(call[c].id, Filtered(call[c].body), c)
    /\ Step(c, "select", call[c].answer, call[c].id, call[c].read) \/ Broken(c)

Shows(c) ==
    /\ UNCHANGED tenants
    /\ call[c].kind \in {"patch", "get"} /\ call[c].at = "select" /\ Present(call[c].id)
    /\ Step(c, "done", "200", call[c].id, tenants[call[c].id].columns)

Deletes(c) ==
    /\ call[c].kind = "delete" /\ call[c].at = "delete"
    /\ Delete(call[c].id)
    /\ Step(c, "done", "204", call[c].id, call[c].read) \/ Broken(c)

Moves(c) ==
    /\ Begun(c) /\ call[c].at # "done" /\ call[c].answer = "none"
    /\ upsets' \in 0..MaxUpsets /\ upsets' <= upsets /\ UNCHANGED attempt
    /\ \/ Quiet(c) \/ Inserts(c) \/ Finds(c) \/ Rotates(c) \/ Updates(c) \/ Shows(c)
       \/ Deletes(c)

LEMMA Upsetting ==
    ASSUME TypeOK, Upset \/ Calm
    PROVE  /\ upsets' \in 0..MaxUpsets /\ upsets' <= upsets
           /\ Upset => upsets' < MaxUpsets
BY TenantAdminAssumption DEF TypeOK, Upset, Calm

LEMMA FailsStep ==
    ASSUME TypeOK, NEW c \in Calls, Begun(c), NEW statement, Fails(c, statement)
    PROVE  Broken(c) /\ (statement \/ UNCHANGED tenants)
<1>1. Upset /\ upsets' < MaxUpsets
  BY Upsetting DEF Fails
<1>2. CASE Answer(c, "500")
  BY <1>1, <1>2, AnswerStep DEF Fails, Broken, Answers
<1>3. CASE Answer(c, "lost")
  BY <1>1, <1>3, AnswerStep DEF Fails, Broken, Answers
<1> QED BY <1>2, <1>3 DEF Fails

LEMMA BrokenQuiet ==
    ASSUME NEW c \in Calls, Broken(c), UNCHANGED tenants
    PROVE  Quiet(c)
BY DEF Broken, Quiet

\* What is known of a call that an action finds at work.
LEMMA AtWork ==
    ASSUME TypeOK, NEW c \in Calls, Shape(c),
           call[c].at \in {"insert", "find", "rotate", "update", "select", "delete"}
    PROVE  /\ Begun(c) /\ call[c].at # "done" /\ call[c].answer = "none" /\ call[c] \in Call
           /\ call[c].at = "insert" =>
                call[c].kind = "create" /\ call[c].id = None /\ call[c].name \in Names
           /\ call[c].at \in {"find", "rotate"} => call[c].kind = "rotate"
           /\ call[c].at = "update" => call[c].kind = "patch"
           /\ call[c].at = "select" => call[c].kind \in {"patch", "get"}
           /\ call[c].at = "delete" => call[c].kind = "delete"
           /\ call[c].at # "insert" => call[c].id \in Ids
<1>1. Begun(c) /\ call[c] \in Call
  BY CallTyped DEF Begun
<1> QED BY <1>1, CallFields DEF Shape, Begun

LEMMA CreateMoves ==
    ASSUME TypeOK, NEW c \in Calls, Shape(c), CreateTenant(c)
    PROVE  Moves(c)
<1>0. /\ Begun(c) /\ call[c].at = "insert" /\ call[c].answer = "none" /\ call[c].kind = "create"
      /\ call[c].name \in Names
  BY AtWork DEF CreateTenant
<1>1. CASE Calm /\ Taken(call[c].name) /\ Answer(c, "409") /\ UNCHANGED tenants
  <2>1. Step(c, "done", "409", call[c].id, call[c].read)
    BY <1>0, <1>1, AnswerStep DEF Answers
  <2> QED BY <1>0, <1>1, <2>1, Upsetting DEF Moves, Quiet, CreateTenant
<1>2. ASSUME NEW i \in Ids, Calm, tenants[i] = Unused, InsertTenant(i, call[c].name, c),
             call' = [call EXCEPT ![c].at = "done", ![c].answer = "201", ![c].id = i]
      PROVE  Moves(c)
  <2>1. call' = [call EXCEPT ![c] = Created(call[c], i)]
    BY <1>2 DEF Created, TypeOK
  <2>2. Step(c, "done", "201", i, call[c].read)
    BY <1>0, <2>1, CreatedStep
  <2>3. Insert(i, c)
    BY <1>0, <1>2, InsertEffect
  <2>4. UNCHANGED attempt
    BY DEF CreateTenant
  <2>5. Inserts(c)
    BY <1>0, <2>2, <2>3 DEF Inserts
  <2> QED BY <1>0, <1>2, <2>4, <2>5, Upsetting DEF Moves
<1>3. ASSUME NEW i \in Ids,
             Fails(c, ~ Taken(call[c].name) /\ tenants[i] = Unused
                      /\ InsertTenant(i, call[c].name, c))
      PROVE  Moves(c)
  <2>1. Broken(c) /\ (Insert(i, c) \/ UNCHANGED tenants)
    BY <1>0, <1>3, FailsStep, InsertEffect
  <2>2. Inserts(c) \/ Quiet(c)
    BY <1>0, <2>1, BrokenQuiet DEF Inserts
  <2> QED BY <1>0, <1>3, <2>2, Upsetting DEF Moves, Fails, CreateTenant
<1> QED BY <1>1, <1>2, <1>3 DEF CreateTenant

LEMMA FindMoves ==
    ASSUME TypeOK, NEW c \in Calls, Shape(c), FindTenant(c)
    PROVE  Moves(c)
<1>0. /\ Begun(c) /\ call[c].at = "find" /\ call[c].answer = "none" /\ call[c].kind = "rotate"
      /\ call[c].id \in Ids
  BY AtWork DEF FindTenant
<1>1. ASSUME Answer(c, "404") PROVE Quiet(c)
  BY <1>0, <1>1, AnswerStep DEF Answers, Quiet, FindTenant
<1>2. ASSUME Present(call[c].id),
             call' = [call EXCEPT ![c].at = "rotate", ![c].read = tenants[call[c].id].columns]
      PROVE  Finds(c)
  <2> DEFINE read == tenants[call[c].id].columns
  <2>1. read \in [Columns -> Writers]
    BY <1>0, <1>2, PresentRow
  <2>2. call' = [call EXCEPT ![c] = Found(call[c], read)]
    BY <1>2 DEF Found, TypeOK
  <2> HIDE DEF read
  <2>3. Step(c, "rotate", call[c].answer, call[c].id, read)
    BY <1>0, <2>1, <2>2, FoundStep
  <2> QED BY <1>0, <1>2, <2>1, <2>3 DEF Finds, FindTenant
<1>3. (Upset \/ Calm) /\ (Quiet(c) \/ Finds(c)) /\ UNCHANGED attempt
  BY <1>1, <1>2 DEF FindTenant
<1> QED BY <1>0, <1>3, Upsetting DEF Moves

LEMMA RotateMoves ==
    ASSUME TypeOK, NEW c \in Calls, Shape(c), RotateTenantSecret(c)
    PROVE  Moves(c)
<1>0. /\ Begun(c) /\ call[c].at = "rotate" /\ call[c].answer = "none" /\ call[c].kind = "rotate"
      /\ call[c].id \in Ids
  BY AtWork DEF RotateTenantSecret
<1>1. CASE Calm /\ SetColumns(call[c].id, {"secret_hash"}, c) /\ Answer(c, "200")
  <2>1. Step(c, "done", "200", call[c].id, call[c].read)
    BY <1>0, <1>1, AnswerStep DEF Answers
  <2>2. Set(call[c].id, {"secret_hash"}, c)
    BY <1>0, <1>1, SetEffect
  <2> QED BY <1>0, <1>1, <2>1, <2>2, Upsetting DEF Moves, Rotates, RotateTenantSecret
<1>2. CASE Fails(c, SetColumns(call[c].id, {"secret_hash"}, c))
  <2>1. Broken(c) /\ (Set(call[c].id, {"secret_hash"}, c) \/ UNCHANGED tenants)
    BY <1>0, <1>2, FailsStep, SetEffect
  <2>2. Rotates(c) \/ Quiet(c)
    BY <1>0, <2>1, BrokenQuiet DEF Rotates
  <2> QED BY <1>0, <1>2, <2>2, Upsetting DEF Moves, Fails, RotateTenantSecret
<1> QED BY <1>1, <1>2 DEF RotateTenantSecret

LEMMA UpdateMoves ==
    ASSUME TypeOK, NEW c \in Calls, Shape(c), UpdateTenant(c)
    PROVE  Moves(c)
<1> DEFINE ks == Filtered(call[c].body)
<1>0. /\ Begun(c) /\ call[c].at = "update" /\ call[c].answer = "none" /\ call[c].kind = "patch"
      /\ call[c].id \in Ids
  BY AtWork DEF UpdateTenant
<1>1. CASE Calm /\ Answer(c, "500") /\ UNCHANGED tenants
  <2>1. Step(c, "done", "500", call[c].id, call[c].read)
    BY <1>0, <1>1, AnswerStep DEF Answers
  <2> QED BY <1>0, <1>1, <2>1, Upsetting DEF Moves, Quiet, UpdateTenant
<1>2. CASE Calm /\ SetColumns(call[c].id, ks, c) /\ Goes(c, "select")
  <2>1. Step(c, "select", call[c].answer, call[c].id, call[c].read)
    BY <1>0, <1>2, GoesStep DEF States
  <2>2. Set(call[c].id, ks, c)
    BY <1>0, <1>2, SetEffect
  <2> QED BY <1>0, <1>2, <2>1, <2>2, Upsetting DEF Moves, Updates, UpdateTenant
<1>3. ASSUME NEW refused, Fails(c, ~ refused /\ SetColumns(call[c].id, ks, c))
      PROVE  Moves(c)
  <2>1. Broken(c) /\ (Set(call[c].id, ks, c) \/ UNCHANGED tenants)
    BY <1>0, <1>3, FailsStep, SetEffect
  <2>2. Updates(c) \/ Quiet(c)
    BY <1>0, <2>1, BrokenQuiet DEF Updates
  <2> QED BY <1>0, <1>3, <2>2, Upsetting DEF Moves, Fails, UpdateTenant
<1> QED BY <1>1, <1>2, <1>3 DEF UpdateTenant

LEMMA SelectMoves ==
    ASSUME TypeOK, NEW c \in Calls, Shape(c), SelectTenant(c)
    PROVE  Moves(c)
<1>0. /\ Begun(c) /\ call[c].at = "select" /\ call[c].answer = "none"
      /\ call[c].kind \in {"patch", "get"} /\ call[c].id \in Ids
  BY AtWork DEF SelectTenant
<1>1. ASSUME Answer(c, "404") \/ Answer(c, "500") PROVE Quiet(c)
  <2>1. UNCHANGED tenants
    BY DEF SelectTenant
  <2>2. CASE Answer(c, "404")
    BY <1>0, <2>1, <2>2, AnswerStep DEF Answers, Quiet
  <2>3. CASE Answer(c, "500")
    BY <1>0, <2>1, <2>3, AnswerStep DEF Answers, Quiet
  <2> QED BY <1>1, <2>2, <2>3
<1>2. ASSUME Present(call[c].id),
             call' = [call EXCEPT ![c].at = "done", ![c].answer = "200",
                                  ![c].read = tenants[call[c].id].columns]
      PROVE  Shows(c)
  <2> DEFINE read == tenants[call[c].id].columns
  <2>1. read \in [Columns -> Writers]
    BY <1>0, <1>2, PresentRow
  <2>2. call' = [call EXCEPT ![c] = Shown(call[c], read)]
    BY <1>2 DEF Shown, TypeOK
  <2>3. Step(c, "done", "200", call[c].id, read)
    <3> HIDE DEF read
    <3> QED BY <1>0, <2>1, <2>2, ShownStep
  <2> QED BY <1>0, <1>2, <2>3 DEF Shows, SelectTenant
<1>3. (Upset \/ Calm) /\ (Quiet(c) \/ Shows(c)) /\ UNCHANGED attempt
  BY <1>1, <1>2 DEF SelectTenant
<1> QED BY <1>0, <1>3, Upsetting DEF Moves

LEMMA DeleteMoves ==
    ASSUME TypeOK, NEW c \in Calls, Shape(c), DeleteTenant(c)
    PROVE  Moves(c)
<1> DEFINE i == call[c].id
           gone == tenants' = [tenants EXCEPT ![i] = Deleted]
<1>0. /\ Begun(c) /\ call[c].at = "delete" /\ call[c].answer = "none" /\ call[c].kind = "delete"
      /\ i \in Ids
  BY AtWork DEF DeleteTenant
<1>1. CASE Calm /\ Answer(c, "409") /\ UNCHANGED tenants
  <2>1. Step(c, "done", "409", i, call[c].read)
    BY <1>0, <1>1, AnswerStep DEF Answers
  <2> QED BY <1>0, <1>1, <2>1, Upsetting DEF Moves, Quiet, DeleteTenant
<1>2. CASE Calm /\ Present(i) /\ gone /\ Answer(c, "204")
  <2>1. Step(c, "done", "204", i, call[c].read)
    BY <1>0, <1>2, AnswerStep DEF Answers
  <2>2. Delete(i)
    BY <1>0, <1>2, DeleteEffect
  <2> QED BY <1>0, <1>2, <2>1, <2>2, Upsetting DEF Moves, Deletes, DeleteTenant
<1>3. CASE Calm /\ ~ Present(i) /\ Answer(c, "204") /\ UNCHANGED tenants
  <2>1. Step(c, "done", "204", i, call[c].read)
    BY <1>0, <1>3, AnswerStep DEF Answers
  <2> QED BY <1>0, <1>3, <2>1, Upsetting DEF Moves, Quiet, DeleteTenant
<1>4. CASE Fails(c, Present(i) /\ i \notin Paying /\ gone)
  <2>1. Broken(c) /\ (Delete(i) \/ UNCHANGED tenants)
    BY <1>0, <1>4, FailsStep, DeleteEffect
  <2>2. Deletes(c) \/ Quiet(c)
    BY <1>0, <2>1, BrokenQuiet DEF Deletes
  <2> QED BY <1>0, <1>4, <2>2, Upsetting DEF Moves, Fails, DeleteTenant
<1> QED BY <1>1, <1>2, <1>3, <1>4 DEF DeleteTenant

-----------------------------------------------------------------------------
(***************************************************************************)
(* The other steps.                                                        *)
(***************************************************************************)
Begins(c) ==
    LET n == call'[c]
    IN  /\ ~ Begun(c) /\ UNCHANGED <<tenants, attempt, upsets>>
        /\ call' \in [Calls -> Call \cup {NoCall}] /\ n \in Call
        /\ \A x \in Calls \ {c} : call'[x] = call[x]
        /\ n.before = Answered /\ n.answer = "none"
        /\ \/ n.kind = "create" /\ n.at = "insert" /\ n.id = None /\ n.name \in Names
           \/ /\ n.id \in Ids /\ Known(n.id)
              /\ \/ n.kind = "rotate" /\ n.at = "find"
                 \/ n.kind = "patch" /\ n.at = "update" /\ n.body \in Bodies
                 \/ n.kind = "delete" /\ n.at = "delete"
                 \/ n.kind = "get" /\ n.at = "select"

Fresh(kind, at, i, n, b) ==
    [at |-> at, kind |-> kind, id |-> i, name |-> n, body |-> b,
     read |-> NotRead, before |-> Answered, answer |-> "none"]

LEMMA FreshFields ==
    ASSUME NEW kind \in {"create", "rotate", "patch", "delete", "get"}, NEW at \in States,
           NEW i \in Ids \cup {None}, NEW n \in Names \cup {None}, NEW b \in Bodies \cup {None}
    PROVE  LET f == Fresh(kind, at, i, n, b)
           IN  /\ f \in Call /\ f.at = at /\ f.kind = kind /\ f.id = i /\ f.name = n
               /\ f.body = b /\ f.before = Answered /\ f.answer = "none"
<1>1. NotRead \in [Columns -> Writers]
  BY DEF NotRead, Writers
<1>2. Answered \in SUBSET Calls
  BY DEF Answered
<1> HIDE DEF NotRead, Answered
<1> QED BY <1>1, <1>2 DEF Fresh, Call, States, Answers

LEMMA BeginBegins ==
    ASSUME TypeOK, NEW c \in Calls,
           NEW kind \in {"create", "rotate", "patch", "delete", "get"}, NEW at \in States,
           NEW i \in Ids \cup {None}, NEW n \in Names \cup {None}, NEW b \in Bodies \cup {None},
           Begin(c, kind, at, i, n, b)
    PROVE  LET f == call'[c]
           IN  /\ ~ Begun(c) /\ UNCHANGED <<tenants, attempt, upsets>>
               /\ call' \in [Calls -> Call \cup {NoCall}] /\ f \in Call
               /\ \A x \in Calls \ {c} : call'[x] = call[x]
               /\ f.at = at /\ f.kind = kind /\ f.id = i /\ f.name = n
               /\ f.body = b /\ f.before = Answered /\ f.answer = "none"
<1> DEFINE f == Fresh(kind, at, i, n, b)
<1>1. call' = [call EXCEPT ![c] = f] /\ ~ Begun(c) /\ UNCHANGED <<tenants, attempt, upsets>>
  BY DEF Begin, Fresh, Begun
<1>2. /\ f \in Call /\ f.at = at /\ f.kind = kind /\ f.id = i /\ f.name = n
      /\ f.body = b /\ f.before = Answered /\ f.answer = "none"
  BY FreshFields
<1> HIDE DEF f
<1> QED BY <1>1, <1>2 DEF TypeOK

LEMMA BeginCallBegins ==
    ASSUME TypeOK, NEW c \in Calls, BeginCall(c)
    PROVE  Begins(c)
<1>1. ASSUME NEW n \in Names, Begin(c, "create", "insert", None, n, None)
      PROVE  Begins(c)
  BY <1>1, BeginBegins DEF Begins, States
<1>2. ASSUME NEW i \in Ids, Known(i), Begin(c, "rotate", "find", i, None, None)
      PROVE  Begins(c)
  BY <1>2, BeginBegins DEF Begins, States
<1>3. ASSUME NEW i \in Ids, Known(i), NEW b \in Bodies,
             Begin(c, "patch", "update", i, None, b)
      PROVE  Begins(c)
  BY <1>3, BeginBegins DEF Begins, States
<1>4. ASSUME NEW i \in Ids, Known(i), Begin(c, "delete", "delete", i, None, None)
      PROVE  Begins(c)
  BY <1>4, BeginBegins DEF Begins, States
<1>5. ASSUME NEW i \in Ids, Known(i), Begin(c, "get", "select", i, None, None)
      PROVE  Begins(c)
  BY <1>5, BeginBegins DEF Begins, States
<1> QED BY <1>1, <1>2, <1>3, <1>4, <1>5 DEF BeginCall

\* What was under way is lost.
Crashes ==
    /\ UNCHANGED tenants /\ upsets' < MaxUpsets /\ upsets' <= upsets /\ upsets' \in 0..MaxUpsets
    /\ call' \in [Calls -> Call \cup {NoCall}]
    /\ \A c \in Calls :
          IF call[c].at \in {"idle", "done"} THEN call'[c] = call[c]
          ELSE /\ call'[c].at = "done" /\ call'[c].answer = "lost"
               /\ call'[c].id = call[c].id /\ Kept(call'[c], call[c])

LEMMA CrashCrashes ==
    ASSUME TypeOK, Crash
    PROVE  Crashes
<1>1. ASSUME NEW c \in Calls
      PROVE  /\ call'[c] \in Call \cup {NoCall}
             /\ IF call[c].at \in {"idle", "done"} THEN call'[c] = call[c]
                ELSE /\ call'[c].at = "done" /\ call'[c].answer = "lost"
                     /\ call'[c].id = call[c].id /\ Kept(call'[c], call[c])
  <2>1. CASE call[c].at \in {"idle", "done"}
    BY <2>1 DEF Crash, TypeOK
  <2>2. CASE call[c].at \notin {"idle", "done"}
    <3>1. call[c] \in Call
      BY <2>2, CallTyped DEF Begun
    <3>2. call'[c] = Ended(call[c], "lost")
      BY <2>2 DEF Crash, Ended
    <3> QED BY <2>2, <3>1, <3>2, EndedFields DEF Answers
  <2> QED BY <2>1, <2>2
<1>2. call' \in [Calls -> Call \cup {NoCall}]
  <2>1. DOMAIN call' = Calls /\ call' = [c \in Calls |-> call'[c]]
    BY DEF Crash
  <2> QED BY <1>1, <2>1
<1> QED BY <1>1, <1>2, Upsetting DEF Crashes, Crash

AttemptMoves(a) ==
    LET r == attempt[a]   n == attempt'[a]
    IN  /\ UNCHANGED <<tenants, call>> /\ upsets' \in 0..MaxUpsets /\ upsets' <= upsets
        /\ attempt' \in [Attempts -> Attempt \cup {NoAttempt}]
        /\ \A x \in Attempts \ {a} : attempt'[x] = attempt[x]
        /\ \/ n.at = "lookup" /\ n.before = Answered
           \/ r.at = "lookup" /\ n.at = "refused" /\ n.before = r.before
           \/ /\ r.at = "lookup" /\ n.at = "verify" /\ n.id = r.id /\ n.before = r.before
              /\ r.id \in Ids /\ Present(r.id)
              /\ ActiveBy(tenants[r.id].columns["is_active"])
              /\ n.found = tenants[r.id].columns["secret_hash"]
           \/ /\ r.at = "verify" /\ n.at \in {"admitted", "refused"} /\ n.before = r.before
              /\ n.id = r.id /\ n.found = r.found /\ n.secret = r.secret
              /\ n.at = "admitted" => r.found = r.secret

AttemptAt(r, at) == [r EXCEPT !.at = at]
AttemptFound(r, found) == [r EXCEPT !.at = "verify", !.found = found]
AttemptNew(i, s) ==
    [at |-> "lookup", id |-> i, secret |-> s, found |-> First, before |-> Answered]

LEMMA AttemptFields ==
    ASSUME NEW r, r \in Attempt, NEW at \in {"admitted", "refused", "lost"}
    PROVE  LET n == AttemptAt(r, at)
           IN  /\ n \in Attempt /\ n.at = at /\ n.id = r.id /\ n.secret = r.secret
               /\ n.found = r.found /\ n.before = r.before
BY DEF Attempt, AttemptAt

LEMMA AttemptFoundFields ==
    ASSUME NEW r, r \in Attempt, NEW found \in Writers
    PROVE  LET n == AttemptFound(r, found)
           IN  /\ n \in Attempt /\ n.at = "verify" /\ n.id = r.id /\ n.secret = r.secret
               /\ n.found = found /\ n.before = r.before
BY DEF Attempt, AttemptFound

LEMMA AttemptNewFields ==
    ASSUME NEW i \in Ids, NEW s \in Writers
    PROVE  LET n == AttemptNew(i, s)
           IN  n \in Attempt /\ n.at = "lookup" /\ n.before = Answered
<1>1. Answered \in SUBSET Calls /\ First \in Writers
  BY DEF Answered, Writers
<1> HIDE DEF Answered
<1> QED BY <1>1 DEF Attempt, AttemptNew

LEMMA AttemptStepMoves ==
    ASSUME TypeOK, NEW a \in Attempts, AttemptStep(a)
    PROVE  AttemptMoves(a)
<1>1. ASSUME NEW i \in Ids, NEW s \in Writers, Authenticate(a, i, s)
      PROVE  AttemptMoves(a)
  <2> DEFINE n == AttemptNew(i, s)
  <2>1. attempt' = [attempt EXCEPT ![a] = n] /\ UNCHANGED <<tenants, call, upsets>>
    BY <1>1 DEF Authenticate, AttemptNew
  <2>2. n \in Attempt /\ n.at = "lookup" /\ n.before = Answered
    BY AttemptNewFields
  <2> HIDE DEF n
  <2> QED BY <2>1, <2>2, TenantAdminAssumption DEF TypeOK, AttemptMoves
<1>2. CASE LookupTenant(a)
  <2> DEFINE i == attempt[a].id
             found == tenants[i].columns["secret_hash"]
  <2>1. /\ attempt[a] \in Attempt /\ i \in Ids /\ attempt[a].at = "lookup"
        /\ UNCHANGED <<tenants, call>> /\ (Upset \/ Calm)
    <3>1. attempt[a] \in Attempt
      BY <1>2, Idle DEF LookupTenant, TypeOK
    <3> QED BY <1>2, <3>1 DEF LookupTenant, Attempt
  <2>2. CASE attempt' = [attempt EXCEPT ![a].at = "refused"]
    <3> DEFINE n == AttemptAt(attempt[a], "refused")
    <3>1. attempt' = [attempt EXCEPT ![a] = n]
      BY <2>2 DEF AttemptAt, TypeOK
    <3>2. n \in Attempt /\ n.at = "refused" /\ n.before = attempt[a].before
      BY <2>1, AttemptFields
    <3> HIDE DEF n
    <3> QED BY <2>1, <3>1, <3>2, Upsetting DEF TypeOK, AttemptMoves
  <2>3. CASE /\ Present(i) /\ ActiveBy(tenants[i].columns["is_active"])
             /\ attempt' = [attempt EXCEPT ![a].at = "verify", ![a].found = found]
    <3> DEFINE n == AttemptFound(attempt[a], found)
    <3>1. attempt' = [attempt EXCEPT ![a] = n]
      BY <2>3 DEF AttemptFound, TypeOK
    <3>2. found \in Writers
      BY <2>1, <2>3, PresentRow DEF Columns
    <3>3. /\ n \in Attempt /\ n.at = "verify" /\ n.id = i /\ n.before = attempt[a].before
          /\ n.found = found
      BY <2>1, <3>2, AttemptFoundFields
    <3> HIDE DEF n
    <3>4. /\ attempt' \in [Attempts -> Attempt \cup {NoAttempt}] /\ attempt'[a] = n
          /\ \A x \in Attempts \ {a} : attempt'[x] = attempt[x]
      BY <3>1, <3>3 DEF TypeOK
    <3>5. Present(i) /\ ActiveBy(tenants[i].columns["is_active"])
      BY <2>3
    <3> QED BY <2>1, <3>3, <3>4, <3>5, Upsetting DEF AttemptMoves
  <2> QED BY <1>2, <2>2, <2>3 DEF LookupTenant
<1>3. CASE VerifySecret(a)
  <2>1. attempt[a] \in Attempt /\ attempt[a].at = "verify" /\ UNCHANGED <<tenants, call, upsets>>
    BY <1>3, Idle DEF VerifySecret, TypeOK
  <2>2. PICK at \in {"admitted", "refused"} :
          /\ attempt' = [attempt EXCEPT ![a].at = at]
          /\ at = "admitted" => attempt[a].found = attempt[a].secret
    BY <1>3 DEF VerifySecret
  <2> DEFINE n == AttemptAt(attempt[a], at)
  <2>3. attempt' = [attempt EXCEPT ![a] = n]
    BY <2>2 DEF AttemptAt, TypeOK
  <2>4. /\ n \in Attempt /\ n.at = at /\ n.id = attempt[a].id /\ n.secret = attempt[a].secret
        /\ n.found = attempt[a].found /\ n.before = attempt[a].before
    BY <2>1, AttemptFields
  <2> HIDE DEF n
  <2>5. /\ attempt' \in [Attempts -> Attempt \cup {NoAttempt}] /\ attempt'[a] = n
        /\ \A x \in Attempts \ {a} : attempt'[x] = attempt[x]
    BY <2>3, <2>4 DEF TypeOK
  <2> QED BY <2>1, <2>2, <2>4, <2>5, TenantAdminAssumption DEF TypeOK, AttemptMoves
<1> QED BY <1>1, <1>2, <1>3 DEF AttemptStep

LEMMA CrashAttempts ==
    ASSUME TypeOK, Crash
    PROVE  /\ attempt' \in [Attempts -> Attempt \cup {NoAttempt}]
           /\ \A a \in Attempts :
                 \/ attempt'[a] = attempt[a]
                 \/ /\ attempt[a].at \in {"lookup", "verify"} /\ attempt'[a].at = "lost"
                    /\ attempt'[a].before = attempt[a].before
<1>1. ASSUME NEW a \in Attempts
      PROVE  /\ attempt'[a] \in Attempt \cup {NoAttempt}
             /\ \/ attempt'[a] = attempt[a]
                \/ /\ attempt[a].at \in {"lookup", "verify"} /\ attempt'[a].at = "lost"
                   /\ attempt'[a].before = attempt[a].before
  <2>1. CASE attempt[a].at \in {"lookup", "verify"}
    <3>1. attempt[a] \in Attempt
      BY <2>1, Idle DEF TypeOK
    <3>2. attempt'[a] = AttemptAt(attempt[a], "lost")
      BY <2>1 DEF Crash, AttemptAt
    <3> QED BY <2>1, <3>1, <3>2, AttemptFields
  <2>2. CASE attempt[a].at \notin {"lookup", "verify"}
    BY <2>2 DEF Crash, TypeOK
  <2> QED BY <2>1, <2>2
<1>2. attempt' = [a \in Attempts |-> attempt'[a]]
  BY DEF Crash
<1> QED BY <1>1, <1>2

CrashesAll ==
    /\ Crashes
    /\ attempt' \in [Attempts -> Attempt \cup {NoAttempt}]
    /\ \A a \in Attempts :
          \/ attempt'[a] = attempt[a]
          \/ /\ attempt[a].at \in {"lookup", "verify"} /\ attempt'[a].at = "lost"
             /\ attempt'[a].before = attempt[a].before

LEMMA NextCases ==
    ASSUME TypeOK, \A c \in Calls : Shape(c), [Next]_vars
    PROVE  \/ \E c \in Calls : Begins(c)
           \/ \E c \in Calls : Moves(c)
           \/ \E a \in Attempts : AttemptMoves(a)
           \/ CrashesAll
           \/ UNCHANGED vars
<1>1. ASSUME NEW c \in Calls, CallStep(c)
      PROVE  Begins(c) \/ Moves(c)
  BY <1>1, BeginCallBegins, CreateMoves, FindMoves, RotateMoves, UpdateMoves, SelectMoves,
     DeleteMoves DEF CallStep
<1>2. Crash => CrashesAll
  BY CrashCrashes, CrashAttempts DEF CrashesAll
<1> QED BY <1>1, <1>2, AttemptStepMoves DEF Next

-----------------------------------------------------------------------------
(***************************************************************************)
(* What every step keeps.                                                  *)
(***************************************************************************)
CallStays(c) ==
    Begun(c) =>
        /\ Begun(c)' /\ Kept(call'[c], call[c])
        /\ call[c].id \in Ids => call'[c].id = call[c].id
        /\ call[c].at = "done" => call'[c] = call[c]

IdStays(i) == Known(i) => Known(i)' /\ (~ Present(i) => ~ Present(i)')

Stays ==
    /\ \A c \in Calls : CallStays(c)
    /\ \A i \in Ids : IdStays(i)
    /\ upsets' <= upsets

\* A call moves out of where it is, and nothing else does.
LEMMA MovesCall ==
    ASSUME TypeOK, \A x \in Calls : Shape(x), NEW c \in Calls, Moves(c)
    PROVE  /\ call' \in [Calls -> Call \cup {NoCall}] /\ call[c] \in Call /\ call'[c] \in Call
           /\ \A x \in Calls \ {c} : call'[x] = call[x]
           /\ Kept(call'[c], call[c])
           /\ call[c].id \in Ids => call'[c].id = call[c].id
<1>1. \E at, answer, id, read : /\ Step(c, at, answer, id, read)
                                /\ call[c].id \in Ids => id = call[c].id
  <2>1. call[c].at = "insert" => call[c].id = None
    BY DEF Shape, Moves, Begun
  <2>2. call[c].id = None => call[c].id \notin Ids
    BY TenantAdminAssumption
  <2> QED BY <2>1, <2>2 DEF Moves, Quiet, Inserts, Finds, Rotates, Updates, Shows, Deletes, Broken
<1> QED BY <1>1 DEF Step

LEMMA MovesTable ==
    ASSUME TypeOK, \A x \in Calls : Shape(x), NEW c \in Calls, Moves(c)
    PROVE  Table /\ \A i \in Ids : IdStays(i)
<1>1. CASE UNCHANGED tenants
  BY <1>1 DEF Table, TypeOK, IdStays, Known, Present
<1>2. ASSUME NEW i \in Ids, NEW ks, Set(i, ks, c)
      PROVE  Table /\ \A j \in Ids : IdStays(j)
  BY <1>2 DEF Set, IdStays, Known, Present
<1>3. ASSUME NEW i \in Ids, Insert(i, c)
      PROVE  Table /\ \A j \in Ids : IdStays(j)
  BY <1>3, Rows DEF Insert, IdStays, Known, Present
<1>4. ASSUME NEW i \in Ids, Delete(i)
      PROVE  Table /\ \A j \in Ids : IdStays(j)
  BY <1>4, Rows DEF Delete, IdStays, Known, Present
<1>5. call[c].kind # "create" => call[c].id \in Ids
  BY DEF Shape, Moves, Begun
<1> QED
  BY <1>1, <1>2, <1>3, <1>4, <1>5
     DEF Moves, Quiet, Inserts, Finds, Rotates, Updates, Shows, Deletes

LEMMA StepStays ==
    ASSUME TypeOK, \A c \in Calls : Shape(c), [Next]_vars
    PROVE  TypeOK' /\ Stays
<1> USE TenantAdminAssumption
<1>0. upsets \in 0..MaxUpsets
  BY DEF TypeOK
<1>1. ASSUME NEW c \in Calls, Begins(c)
      PROVE  TypeOK' /\ Stays
  <2>1. ASSUME NEW x \in Calls PROVE CallStays(x)
    BY <1>1 DEF Begins, CallStays, Begun, Kept
  <2> QED BY <1>0, <1>1, <2>1 DEF Begins, TypeOK, Stays, IdStays, Known, Present
<1>2. ASSUME NEW c \in Calls, Moves(c)
      PROVE  TypeOK' /\ Stays
  <2>1. ASSUME NEW x \in Calls PROVE CallStays(x)
    <3>1. CASE x = c
      BY <1>2, <3>1, MovesCall, Idle DEF CallStays, Moves, Begun
    <3>2. CASE x # c
      BY <1>2, <3>2, MovesCall DEF CallStays, Begun, Kept
    <3> QED BY <3>1, <3>2
  <2> QED BY <1>2, <2>1, MovesCall, MovesTable DEF Moves, TypeOK, Stays, Table
<1>3. ASSUME NEW a \in Attempts, AttemptMoves(a)
      PROVE  TypeOK' /\ Stays
  BY <1>3 DEF AttemptMoves, TypeOK, Stays, CallStays, IdStays, Known, Present, Begun, Kept
<1>4. CASE CrashesAll
  <2>1. ASSUME NEW x \in Calls PROVE CallStays(x)
    BY <1>4 DEF CrashesAll, Crashes, CallStays, Begun, Kept
  <2> QED BY <1>4, <2>1 DEF CrashesAll, Crashes, TypeOK, Stays, IdStays, Known, Present
<1>5. CASE UNCHANGED vars
  BY <1>0, <1>5 DEF vars, TypeOK, Stays, CallStays, IdStays, Known, Present, Begun, Kept
<1> QED BY <1>1, <1>2, <1>3, <1>4, <1>5, NextCases

-----------------------------------------------------------------------------
(***************************************************************************)
(* The history, the calls and the writers.                                 *)
(***************************************************************************)
LEMMA AnsweredStays ==
    ASSUME Stays
    PROVE  Answered \subseteq Answered'
BY DEF Stays, CallStays, Answered, Begun

LEMMA Unbegun ==
    ASSUME TypeOK, \A x \in Calls : Shape(x), [Next]_vars, NEW c \in Calls, ~ Begun(c)
    PROVE  Begins(c) \/ call'[c] = call[c]
<1>1. ASSUME NEW x \in Calls, Begins(x) PROVE Begins(c) \/ call'[c] = call[c]
  BY <1>1 DEF Begins
<1>2. ASSUME NEW x \in Calls, Moves(x) PROVE call'[c] = call[c]
  BY <1>2, MovesCall DEF Moves
<1>3. ASSUME NEW a \in Attempts, AttemptMoves(a) PROVE call'[c] = call[c]
  BY <1>3 DEF AttemptMoves
<1>4. CrashesAll => call'[c] = call[c]
  BY DEF CrashesAll, Crashes, Begun
<1>5. UNCHANGED vars => call'[c] = call[c]
  BY DEF vars
<1> QED BY <1>1, <1>2, <1>3, <1>4, <1>5, NextCases

LEMMA StepHistory ==
    ASSUME IInv, [Next]_vars, Stays
    PROVE  History'
<1> USE DEF IInv
<1>1. ASSUME NEW c \in Calls, Begun(c)' PROVE call'[c].before \subseteq Answered'
  <2>1. CASE Begun(c)
    BY <2>1, AnsweredStays DEF History, Stays, CallStays, Kept
  <2>2. CASE ~ Begun(c)
    BY <1>1, <2>2, AnsweredStays, Unbegun DEF Begins, Begun
  <2> QED BY <2>1, <2>2
<1>2. ASSUME NEW a \in Attempts, attempt'[a].at # "idle"
      PROVE  attempt'[a].before \subseteq Answered'
  <2>1. CASE attempt'[a] = attempt[a]
    BY <1>2, <2>1, AnsweredStays DEF History
  <2>2. ASSUME NEW x \in Attempts, AttemptMoves(x), attempt'[a] # attempt[a]
        PROVE  attempt'[a].before \subseteq Answered'
    <3>1. x = a
      BY <2>2 DEF AttemptMoves
    <3> QED BY <2>2, <3>1, AnsweredStays DEF AttemptMoves, History
  <2>3. CASE CrashesAll
    BY <2>1, <2>3, AnsweredStays DEF CrashesAll, History
  <2> QED BY <2>1, <2>2, <2>3, NextCases DEF Begins, Moves, vars
<1> QED BY <1>1, <1>2 DEF History

LEMMA StepShape ==
    ASSUME IInv, [Next]_vars, Stays, NEW c \in Calls
    PROVE  Shape(c)'
<1> USE DEF IInv
<1>1. CASE call'[c] = call[c]
  BY <1>1 DEF Shape, Stays, IdStays, Begun
<1>2. ASSUME Begins(c)
      PROVE  Shape(c)'
  BY <1>2, TenantAdminAssumption DEF Begins, Shape, Known
<1>3. ASSUME Moves(c)
      PROVE  Shape(c)'
  <2>0. Shape(c) /\ Begun(c) /\ call[c].at # "done" /\ call[c].answer = "none" /\ Kept(call'[c], call[c])
    BY <1>3, MovesCall DEF Moves
  <2>1. ASSUME NEW a \in {"404", "409", "500", "lost", "204"},
               Step(c, "done", a, call[c].id, call[c].read)
        PROVE  Shape(c)'
    BY <2>0, <2>1 DEF Step, Shape, Kept, Stays, IdStays, Begun
  <2>2. CASE Quiet(c)
    BY <2>1, <2>2 DEF Quiet
  <2>3. CASE Inserts(c)
    <3>1. PICK i \in Ids : Insert(i, c) /\ (Step(c, "done", "201", i, call[c].read) \/ Broken(c))
      BY <2>3 DEF Inserts
    <3>2. CASE Step(c, "done", "201", i, call[c].read)
      BY <2>0, <2>3, <3>1, <3>2 DEF Inserts, Insert, Step, Shape, Kept, Known, Begun
    <3>3. CASE Broken(c)
      BY <2>1, <3>3 DEF Broken
    <3> QED BY <3>1, <3>2, <3>3
  <2>4. CASE Finds(c)
    BY <2>0, <2>4 DEF Finds, Step, Shape, Kept, Stays, IdStays, Begun
  <2>5. CASE Rotates(c)
    <3>1. CASE Broken(c)
      BY <2>1, <3>1 DEF Broken
    <3>2. CASE Step(c, "done", "200", call[c].id, call[c].read)
      BY <2>0, <2>5, <3>2 DEF Rotates, Step, Shape, Kept, Stays, IdStays, Begun
    <3> QED BY <2>5, <3>1, <3>2 DEF Rotates
  <2>6. CASE Updates(c)
    <3>1. CASE Broken(c)
      BY <2>1, <3>1 DEF Broken
    <3>2. CASE Step(c, "select", call[c].answer, call[c].id, call[c].read)
      BY <2>0, <2>6, <3>2 DEF Updates, Step, Shape, Kept, Stays, IdStays, Begun
    <3> QED BY <2>6, <3>1, <3>2 DEF Updates
  <2>7. CASE Shows(c)
    BY <2>0, <2>7 DEF Shows, Step, Shape, Kept, Stays, IdStays, Begun
  <2>8. CASE Deletes(c)
    BY <2>1, <2>8 DEF Deletes, Broken
  <2> QED BY <1>3, <2>2, <2>3, <2>4, <2>5, <2>6, <2>7, <2>8 DEF Moves
<1>4. CASE CrashesAll
  <2>1. CASE call[c].at \in {"idle", "done"}
    BY <1>1, <1>4, <2>1 DEF CrashesAll, Crashes
  <2>2. CASE call[c].at \notin {"idle", "done"}
    BY <1>4, <2>2 DEF CrashesAll, Crashes, Shape, Kept, Stays, IdStays, Begun
  <2> QED BY <2>1, <2>2
<1>5. ASSUME NEW x \in Calls, x # c, Begins(x) \/ Moves(x)
      PROVE  Shape(c)'
  BY <1>1, <1>5, MovesCall DEF Begins
<1> QED BY <1>1, <1>2, <1>3, <1>4, <1>5, NextCases DEF AttemptMoves, vars

\* A call is what it was, begins, moves, or is lost.
LEMMA CallCases ==
    ASSUME TypeOK, \A x \in Calls : Shape(x), [Next]_vars, NEW c \in Calls
    PROVE  \/ call'[c] = call[c]
           \/ Begins(c)
           \/ Moves(c)
           \/ CrashesAll /\ Begun(c) /\ call[c].at # "done"
<1>1. ASSUME NEW x \in Calls, x # c, Begins(x) \/ Moves(x)
      PROVE  call'[c] = call[c]
  BY <1>1, MovesCall DEF Begins
<1>2. CrashesAll => call'[c] = call[c] \/ (Begun(c) /\ call[c].at # "done")
  BY DEF CrashesAll, Crashes, Begun
<1> QED BY <1>1, <1>2, NextCases DEF AttemptMoves, vars

LEMMA StepDeleted ==
    ASSUME IInv, [Next]_vars, Stays
    PROVE  DeletedStays'
<1> USE DEF IInv
<1> SUFFICES ASSUME NEW c \in Calls, Begun(c)', Done(c, "delete", {"204"})'
             PROVE  ~ Present(call[c].id)'
  BY DEF DeletedStays
<1>1. CASE call'[c] = call[c]
  BY <1>1 DEF DeletedStays, Done, Begun, Stays, IdStays, Shape
<1>2. CASE Begins(c)
  BY <1>2 DEF Begins, Done
<1>3. CASE Moves(c)
  <2>1. Shape(c) /\ Begun(c) /\ Kept(call'[c], call[c]) /\ call[c].kind = "delete"
    BY <1>3, MovesCall DEF Moves, Done, Kept
  <2>2. call[c].id \in Ids /\ call'[c].id = call[c].id
    BY <1>3, <2>1, MovesCall DEF Shape, Begun
  <2>3. CASE Deletes(c)
    BY <2>2, <2>3, Rows DEF Deletes, Delete, Present
  <2>4. CASE Quiet(c)
    BY <2>2, <2>4 DEF Quiet, Done, Step, Present
  <2> QED
    BY <1>3, <2>1, <2>3, <2>4 DEF Moves, Inserts, Finds, Rotates, Updates, Shows
<1>4. CASE CrashesAll /\ Begun(c) /\ call[c].at # "done"
  BY <1>4 DEF CrashesAll, Crashes, Done, Begun
<1> QED BY <1>1, <1>2, <1>3, <1>4, CallCases

-----------------------------------------------------------------------------
(***************************************************************************)
(* Writers.                                                                *)
(***************************************************************************)
LEMMA WroteBegun ==
    ASSUME NEW w \in Calls, NEW i \in Ids, NEW k \in Columns, Wrote(w, i, k)
    PROVE  Begun(w) /\ call[w].at \in {"select", "done"}
BY DEF Wrote, Begun

LEMMA WroteStays ==
    ASSUME IInv, [Next]_vars, Stays, NEW w \in Calls, NEW i \in Ids, NEW k \in Columns,
           Wrote(w, i, k)
    PROVE  Wrote(w, i, k)'
<1> USE DEF IInv
<1>0. /\ Begun(w) /\ CallStays(w) /\ Shape(w)
      /\ upsets' <= upsets /\ upsets \in Nat /\ upsets' \in Nat /\ MaxUpsets \in Nat
  BY WroteBegun, StepStays, TenantAdminAssumption DEF Stays, TypeOK
<1>1. CASE call[w].at = "done"
  <2>1. call'[w] = call[w] /\ (upsets < MaxUpsets => upsets' < MaxUpsets)
    BY <1>0, <1>1 DEF CallStays
  <2> QED BY <2>1 DEF Wrote, Filtered
<1>2. CASE call[w].at = "select"
  <2>1. /\ call[w].kind = "patch" /\ call[w].id = i /\ k \in Filtered(call[w].body)
    BY <1>0, <1>2 DEF Wrote, Shape, Begun
  <2>2. /\ call'[w].kind = "patch" /\ call'[w].id = i /\ call'[w].body = call[w].body
    BY <1>0, <2>1 DEF CallStays, Kept
  <2>3. call'[w].at \in {"select", "done"}
    <3>1. CASE Moves(w)
      BY <1>2, <2>1, <3>1
         DEF Moves, Quiet, Inserts, Finds, Rotates, Updates, Shows, Deletes, Broken, Step
    <3>2. CASE CrashesAll
      BY <1>2, <3>2 DEF CrashesAll, Crashes
    <3> QED BY <1>0, <1>2, <3>1, <3>2, CallCases DEF Begins
  <2> QED BY <2>1, <2>2, <2>3 DEF Wrote, Filtered
<1> QED BY <1>1, <1>2, WroteBegun

\* What can have happened to a column in a step.
Rewritten(i, k) ==
    \E x \in Calls :
        /\ Moves(x) /\ tenants'[i].columns[k] = x
        /\ \/ call[x].kind = "create" /\ tenants[i] = Unused
           \/ call[x].kind \in {"rotate", "patch"} /\ call[x].id = i /\ Present(i)
        /\ Wrote(x, i, k)'

LEMMA ColumnStep ==
    ASSUME IInv, [Next]_vars, Stays, NEW i \in Ids, NEW k \in Columns, Present(i)'
    PROVE  (Present(i) /\ tenants'[i].columns[k] = tenants[i].columns[k]) \/ Rewritten(i, k)
<1> USE DEF IInv
<1>1. CASE UNCHANGED tenants
  BY <1>1 DEF Present
<1>2. ASSUME NEW c \in Calls, Moves(c)
      PROVE  (Present(i) /\ tenants'[i].columns[k] = tenants[i].columns[k]) \/ Rewritten(i, k)
  <2>0. /\ Kept(call'[c], call[c]) /\ (call[c].id \in Ids => call'[c].id = call[c].id)
        /\ Begun(c) /\ (call[c].kind # "create" => call[c].id \in Ids)
    BY <1>2, MovesCall DEF Shape, Begun, Moves
  <2>1. CASE Inserts(c)
    <3>1. PICK j \in Ids : Insert(j, c) /\ (Step(c, "done", "201", j, call[c].read) \/ Broken(c))
      BY <2>1 DEF Inserts
    <3>2. CASE i # j
      BY <3>1, <3>2 DEF Insert, Present
    <3>3. CASE i = j
      <4>1. tenants'[i].columns[k] = c /\ tenants[i] = Unused /\ call'[c].kind = "create"
        BY <2>0, <2>1, <3>1, <3>3 DEF Insert, Inserts, Kept
      <4>2. Wrote(c, i, k)'
        BY <3>1, <3>3, <4>1 DEF Wrote, Step, Broken
      <4> QED BY <1>2, <2>1, <4>1, <4>2 DEF Rewritten, Inserts
    <3> QED BY <3>2, <3>3
  <2>2. CASE Rotates(c)
    <3>1. CASE call[c].id # i \/ k # "secret_hash"
      BY <2>0, <2>2, <3>1 DEF Rotates, Set, Present
    <3>2. CASE call[c].id = i /\ k = "secret_hash"
      <4>1. tenants'[i].columns[k] = c /\ Present(i)
        BY <2>2, <3>2 DEF Rotates, Set, Present
      <4>2. Wrote(c, i, k)'
        BY <2>0, <2>2, <3>2 DEF Rotates, Wrote, Step, Broken, Kept
      <4> QED BY <1>2, <2>2, <3>2, <4>1, <4>2 DEF Rewritten, Rotates
    <3> QED BY <3>1, <3>2
  <2>3. CASE Updates(c)
    <3>1. CASE call[c].id # i \/ k \notin Filtered(call[c].body)
      BY <2>0, <2>3, <3>1 DEF Updates, Set, Present
    <3>2. CASE call[c].id = i /\ k \in Filtered(call[c].body)
      <4>1. tenants'[i].columns[k] = c /\ Present(i)
        BY <2>3, <3>2 DEF Updates, Set, Present
      <4>2. Wrote(c, i, k)'
        <5>1. call'[c].at \in {"select", "done"} /\ call'[c].id = i
          BY <2>0, <2>3, <3>2 DEF Updates, Step, Broken
        <5>2. call'[c].kind = "patch" /\ k \in Filtered(call'[c].body)
          BY <2>0, <2>3, <3>2 DEF Updates, Kept
        <5> QED BY <5>1, <5>2 DEF Wrote, Filtered
      <4> QED BY <1>2, <2>3, <3>2, <4>1, <4>2 DEF Rewritten, Updates
    <3> QED BY <3>1, <3>2
  <2>4. CASE Deletes(c)
    BY <2>4, Rows DEF Deletes, Delete, Present
  <2> QED BY <1>1, <1>2, <2>1, <2>2, <2>3, <2>4 DEF Moves, Quiet, Finds, Shows
<1> QED
  BY <1>1, <1>2, NextCases DEF Begins, AttemptMoves, CrashesAll, Crashes, vars

LEMMA StepWriters ==
    ASSUME IInv, [Next]_vars, Stays
    PROVE  WritersGood'
<1>1. ASSUME NEW i \in Ids, Present(i)', NEW k \in Columns, tenants'[i].columns[k] # First
      PROVE  \E x \in Calls : tenants'[i].columns[k] = x /\ Wrote(x, i, k)'
  <2>1. CASE Present(i) /\ tenants'[i].columns[k] = tenants[i].columns[k]
    <3>1. PICK x \in Calls : x = tenants[i].columns[k] /\ Wrote(x, i, k)
      BY <1>1, <2>1 DEF IInv, WritersGood
    <3> QED BY <2>1, <3>1, WroteStays
  <2>2. CASE Rewritten(i, k)
    BY <2>2 DEF Rewritten
  <2> QED BY <1>1, <2>1, <2>2, ColumnStep
<1>2. ASSUME NEW i \in Ids, Present(i)', NEW k \in Columns, tenants'[i].columns[k] # First
      PROVE  (tenants[i].columns[k] \in Calls /\ Wrote(tenants[i].columns[k], i, k))'
  BY <1>1, <1>2 DEF Wrote
<1> QED BY <1>2 DEF WritersGood

-----------------------------------------------------------------------------
(***************************************************************************)
(* What has been set stays.                                                *)
(***************************************************************************)
LEMMA SetsKnown ==
    ASSUME IInv, NEW c \in Calls, NEW k \in Sets(c)
    PROVE  /\ Begun(c) /\ call[c].id \in Ids /\ Known(call[c].id) /\ k \in Columns
           /\ call[c].at \in {"select", "done"}
<1>1. Shape(c)
  BY DEF IInv
<1>2. Begun(c) /\ call[c].at \in {"select", "done"}
  BY DEF Sets
<1>3. k \in Columns /\ (call[c].kind # "create" \/ call[c].answer = "201")
  BY DEF Sets, Writes, Done, Filtered, Columns
<1> QED BY <1>1, <1>2, <1>3 DEF Shape, Begun

LEMMA LaterStays ==
    ASSUME Stays, NEW c \in Calls, Begun(c), NEW w
    PROVE  Later(w, c)' <=> Later(w, c)
BY DEF Stays, CallStays, Kept, Later

\* A call at work had not been answered when another began.
LEMMA MovesLater ==
    ASSUME IInv, NEW x \in Calls, Moves(x), NEW c \in Calls, Begun(c)
    PROVE  Later(x, c)
BY DEF IInv, History, Answered, Moves, Later

LEMMA DeletedLaterStays ==
    ASSUME Stays, TypeOK, \A x \in Calls : Shape(x), NEW c \in Calls, Begun(c),
           call[c].id \in Ids, DeletedLater(c)
    PROVE  DeletedLater(c)'
<1>1. PICK d \in Calls : /\ Begun(d) /\ call[d].kind = "delete"
                        /\ call[d].id = call[c].id /\ Later(d, c)
  BY DEF DeletedLater
<1>2. Begun(d)' /\ call'[d].kind = "delete" /\ call'[d].id = call'[c].id
  BY <1>1 DEF Stays, CallStays, Kept
<1>3. Later(d, c)'
  BY <1>1, LaterStays
<1> QED BY <1>2, <1>3 DEF DeletedLater

\* Only DELETE takes a tenant away.
LEMMA GoneStep ==
    ASSUME IInv, [Next]_vars, Stays, NEW c \in Calls, Begun(c), call[c].id \in Ids,
           Present(call[c].id), ~ Present(call[c].id)'
    PROVE  DeletedLater(c)'
<1> DEFINE i == call[c].id
<1>0. call'[c].id = i
  BY DEF Stays, CallStays
<1>1. \E x \in Calls : Moves(x) /\ call[x].kind = "delete" /\ call[x].id = i
  <2>1. UNCHANGED tenants => FALSE
    BY <1>0 DEF Present
  <2>2. PICK x \in Calls : Moves(x)
    BY <2>1, NextCases DEF IInv, Begins, AttemptMoves, CrashesAll, Crashes, vars
  <2>3. ~ Inserts(x)
    BY <1>0, Rows DEF Inserts, Insert, Present
  <2>4. ~ Rotates(x) /\ ~ Updates(x)
    BY <1>0 DEF Rotates, Updates, Set, Present
  <2>5. Deletes(x)
    BY <2>1, <2>2, <2>3, <2>4 DEF Moves, Quiet, Finds, Shows
  <2>6. call[x].id = i
    BY <1>0, <2>5 DEF Deletes, Delete, Present
  <2> QED BY <2>2, <2>5, <2>6 DEF Deletes
<1>2. PICK x \in Calls : Moves(x) /\ call[x].kind = "delete" /\ call[x].id = i
  BY <1>1
<1>3. Begun(x)' /\ call'[x].kind = "delete" /\ call'[x].id = i
  BY <1>2 DEF Stays, CallStays, Kept, Moves
<1>4. Later(x, c)'
  BY <1>2, MovesLater, LaterStays
<1> QED BY <1>0, <1>3, <1>4 DEF DeletedLater

LEMMA HeldStays ==
    ASSUME IInv, [Next]_vars, Stays, NEW c \in Calls, NEW k \in Sets(c), Present(call[c].id)'
    PROVE  \E w : tenants'[call[c].id].columns[k] = w /\ HeldBy(w, c)'
<1> DEFINE i == call[c].id
<1>0. Begun(c) /\ i \in Ids /\ Known(i) /\ k \in Columns /\ call'[c].id = i
  BY SetsKnown DEF Stays, CallStays
<1>1. CASE Present(i) /\ tenants'[i].columns[k] = tenants[i].columns[k]
  <2>0. PICK w : w = tenants[i].columns[k]
    OBVIOUS
  <2>1. HeldBy(w, c)
    BY <1>1, <2>0 DEF IInv, WriteKept
  <2>2. CASE w = c
    BY <1>1, <2>0, <2>2 DEF HeldBy
  <2>3. CASE Later(w, c) /\ call[w].kind # "create"
    <3>1. w \in Calls /\ w # First
      BY <2>3, TenantAdminAssumption DEF Later
    <3>2. Begun(w)
      BY <1>0, <1>1, <2>0, <3>1, WroteBegun DEF IInv, WritersGood
    <3>3. call'[w].kind = call[w].kind
      BY <3>1, <3>2 DEF Stays, CallStays, Kept
    <3>4. Later(w, c)'
      BY <1>0, <2>3, LaterStays
    <3> QED BY <1>1, <2>0, <2>3, <3>3, <3>4 DEF HeldBy
  <2> QED BY <2>1, <2>2, <2>3 DEF HeldBy
<1>2. CASE Rewritten(i, k)
  <2>1. PICK x \in Calls : /\ Moves(x) /\ tenants'[i].columns[k] = x
                          /\ call[x].kind \in {"rotate", "patch"}
    BY <1>0, <1>2, Rows DEF Rewritten, Known
  <2>2. call'[x].kind = call[x].kind
    BY <2>1 DEF Moves, Stays, CallStays, Kept
  <2>3. Later(x, c)'
    BY <1>0, <2>1, MovesLater, LaterStays
  <2> QED BY <2>1, <2>2, <2>3 DEF HeldBy
<1> QED
  <2>1. Present(i)'
    BY <1>0 DEF Present
  <2> QED BY <1>0, <1>1, <1>2, <2>1, ColumnStep

LEMMA SameSets ==
    ASSUME IInv, [Next]_vars, Stays, NEW c \in Calls, Begun(c),
           \A k \in Sets(c)' : k \in Sets(c) /\ (Present(call[c].id) \/ call[c].at = "done")
    PROVE  WriteKept(c)'
<1> SUFFICES ASSUME NEW k \in Sets(c)'
             PROVE  IF Present(call[c].id)'
                    THEN \E w : tenants'[call'[c].id].columns[k] = w /\ HeldBy(w, c)'
                    ELSE DeletedLater(c)'
  BY DEF WriteKept, HeldBy, Later
<1>0. /\ k \in Sets(c) /\ call[c].id \in Ids /\ call'[c].id = call[c].id
      /\ Present(call[c].id) \/ call[c].at = "done"
  BY SetsKnown DEF Stays, CallStays
<1>1. CASE Present(call[c].id)'
  BY <1>0, <1>1, HeldStays
<1>2. CASE ~ Present(call[c].id)' /\ Present(call[c].id)
  BY <1>0, <1>2, GoneStep
<1>3. CASE ~ Present(call[c].id)' /\ ~ Present(call[c].id)
  <2>1. DeletedLater(c)
    BY <1>0, <1>3 DEF IInv, WriteKept
  <2> QED BY <1>0, <1>3, <2>1, DeletedLaterStays DEF IInv
<1> QED BY <1>1, <1>2, <1>3

LEMMA StepFoundStays ==
    ASSUME IInv, [Next]_vars, Stays, NEW c \in Calls
    PROVE  FoundStays(c)'
<1> SUFFICES ASSUME call'[c].at = "rotate"
             PROVE  Present(call[c].id)' \/ DeletedLater(c)'
  BY DEF FoundStays
<1>1. /\ Begun(c) /\ call[c].kind = "rotate"
      /\ (call[c].at = "rotate" /\ call'[c] = call[c]) \/ Finds(c)
  <2>1. CASE call'[c] = call[c]
    BY <2>1, AtWork DEF IInv
  <2>2. CASE Begins(c)
    BY <2>2 DEF Begins
  <2>3. CASE Moves(c)
    <3>1. ~ Broken(c)
      BY DEF Broken, Step
    <3>2. ~ Quiet(c) /\ ~ Shows(c)
      BY DEF Quiet, Shows, Step
    <3>3. ~ Inserts(c)
      BY <3>1 DEF Inserts, Step
    <3>4. ~ Rotates(c) /\ ~ Deletes(c) /\ ~ Updates(c)
      BY <3>1 DEF Rotates, Deletes, Updates, Step
    <3>5. Finds(c) /\ Begun(c)
      BY <2>3, <3>2, <3>3, <3>4 DEF Moves
    <3> QED BY <3>5 DEF Finds
  <2>4. CASE CrashesAll /\ Begun(c) /\ call[c].at # "done"
    BY <2>4 DEF CrashesAll, Crashes, Begun
  <2> QED BY <2>1, <2>2, <2>3, <2>4, CallCases DEF IInv
<1>2. call[c].id \in Ids /\ call'[c].id = call[c].id
  BY <1>1 DEF IInv, Shape, Begun, Stays, CallStays
<1>3. Present(call[c].id) \/ DeletedLater(c)
  BY <1>1 DEF IInv, FoundStays, Finds
<1>4. CASE DeletedLater(c)
  BY <1>1, <1>2, <1>4, DeletedLaterStays DEF IInv
<1>5. CASE Present(call[c].id)
  BY <1>1, <1>2, <1>5, GoneStep
<1> QED BY <1>3, <1>4, <1>5

LEMMA StepWriteKept ==
    ASSUME IInv, [Next]_vars, Stays, NEW c \in Calls
    PROVE  WriteKept(c)'
<1>1. CASE call'[c] = call[c] /\ Begun(c)
  <2>1. \A k \in Sets(c)' : k \in Sets(c)
    BY <1>1 DEF Sets, Begun, Writes, Done, Filtered
  <2>2. CASE call[c].at = "done"
    BY <1>1, <2>1, <2>2, SameSets
  <2>3. CASE call[c].at # "done"
    <3> SUFFICES ASSUME NEW k \in Sets(c)', Present(call[c].id)'
                 PROVE  \E w : tenants'[call'[c].id].columns[k] = w /\ HeldBy(w, c)'
      BY <1>1, <2>3 DEF WriteKept, HeldBy, Later
    <3> QED BY <1>1, <2>1, HeldStays
  <2> QED BY <2>2, <2>3
<1>2. ASSUME Sets(c)' = {}
      PROVE  WriteKept(c)'
  BY <1>2 DEF WriteKept
<1>3. CASE Begins(c)
  <2>1. Sets(c)' = {}
    BY <1>3 DEF Begins, Sets, Begun
  <2> QED BY <1>2, <2>1
<1>4. CASE CrashesAll /\ Begun(c) /\ call[c].at # "done"
  <2>1. Sets(c)' = {}
    BY <1>4 DEF CrashesAll, Crashes, Sets, Writes, Done, Begun
  <2> QED BY <1>2, <2>1
<1>5. CASE Moves(c)
  <2>0. /\ Begun(c) /\ Shape(c) /\ Kept(call'[c], call[c]) /\ call[c].at # "done"
        /\ call[c].id \in Ids => call'[c].id = call[c].id
    BY <1>5, MovesCall DEF IInv, Moves
  <2>1. CASE Quiet(c)
    <3>1. Sets(c)' = {}
      BY <2>1 DEF Quiet, Step, Sets, Writes, Done
    <3> QED BY <1>2, <3>1
  <2>2. CASE Broken(c)
    <3>1. Sets(c)' = {}
      BY <2>2 DEF Broken, Step, Sets, Writes, Done
    <3> QED BY <1>2, <3>1
  <2>3. CASE Inserts(c)
    <3>1. PICK i \in Ids : Insert(i, c) /\ (Step(c, "done", "201", i, call[c].read) \/ Broken(c))
      BY <2>3 DEF Inserts
    <3>2. CASE Step(c, "done", "201", i, call[c].read)
      <4>1. call'[c].id = i /\ Present(i)' /\ Sets(c)' \subseteq Columns
        BY <3>1, <3>2 DEF Step, Insert, Present, Sets, Writes, Done, Filtered, Columns
      <4> QED BY <3>1, <4>1 DEF WriteKept, HeldBy, Insert
    <3> QED BY <2>2, <3>1, <3>2
  <2>4. CASE Finds(c)
    <3>1. Sets(c)' = {}
      BY <2>4 DEF Finds, Step, Sets
    <3> QED BY <1>2, <3>1
  <2>5. CASE Rotates(c) /\ ~ Broken(c)
    <3>1. /\ Step(c, "done", "200", call[c].id, call[c].read) /\ call[c].id \in Ids
          /\ call'[c].id = call[c].id /\ call'[c].kind = "rotate"
      BY <2>0, <2>5 DEF Rotates, Shape, Begun, Kept
    <3>2. Sets(c)' \subseteq {"secret_hash"}
      BY <3>1 DEF Step, Sets, Writes, Done
    <3>3. CASE Present(call[c].id)
      <4>1. Present(call[c].id)' /\ tenants'[call[c].id].columns["secret_hash"] = c
        BY <2>5, <3>1, <3>3 DEF Rotates, Set, Present, Columns
      <4> QED BY <3>1, <3>2, <4>1 DEF WriteKept, HeldBy
    <3>4. CASE ~ Present(call[c].id)
      <4>1. DeletedLater(c)'
        BY <2>0, <2>5, <3>1, <3>4, DeletedLaterStays DEF IInv, FoundStays, Rotates
      <4>2. ~ Present(call[c].id)'
        BY <2>5, <3>1, <3>4 DEF Rotates, Set, Present
      <4> QED BY <4>1, <4>2 DEF WriteKept
    <3> QED BY <3>3, <3>4
  <2>6. CASE Updates(c) /\ ~ Broken(c)
    <3>1. /\ Step(c, "select", call[c].answer, call[c].id, call[c].read) /\ call[c].id \in Ids
          /\ call'[c].id = call[c].id /\ call'[c].kind = "patch" /\ call'[c].body = call[c].body
      BY <2>0, <2>6 DEF Updates, Shape, Begun, Kept
    <3>2. Sets(c)' \subseteq Filtered(call[c].body) /\ call'[c].at = "select"
      BY <3>1 DEF Step, Sets, Filtered
    <3>3. CASE Present(call[c].id)
      <4>1. /\ Present(call[c].id)'
            /\ \A k \in Filtered(call[c].body) : tenants'[call[c].id].columns[k] = c
        BY <2>6, <3>1, <3>3 DEF Updates, Set, Present, Filtered, Columns
      <4> QED BY <3>1, <3>2, <4>1 DEF WriteKept, HeldBy
    <3>4. CASE ~ Present(call[c].id)
      <4>1. ~ Present(call[c].id)'
        BY <2>6, <3>1, <3>4 DEF Updates, Set, Present
      <4> QED BY <3>2, <4>1 DEF WriteKept
    <3> QED BY <3>3, <3>4
  <2>7. CASE Shows(c)
    <3>1. \A k \in Sets(c)' : k \in Sets(c)
      BY <2>0, <2>7 DEF Shows, Step, Kept, Sets, Begun, Writes, Done, Filtered
    <3> QED BY <2>0, <2>7, <3>1, SameSets DEF Shows
  <2>8. CASE Deletes(c)
    <3>1. Sets(c)' = {}
      BY <2>0, <2>8 DEF Deletes, Step, Kept, Sets, Writes, Done, Broken
    <3> QED BY <1>2, <3>1
  <2> QED
    BY <1>5, <2>1, <2>2, <2>3, <2>4, <2>5, <2>6, <2>7, <2>8 DEF Moves
<1>6. CASE call'[c] = call[c] /\ ~ Begun(c)
  <2>1. Sets(c)' = {}
    BY <1>6 DEF Sets, Begun
  <2> QED BY <1>2, <2>1
<1> QED BY <1>1, <1>3, <1>4, <1>5, <1>6, CallCases DEF IInv

-----------------------------------------------------------------------------
(***************************************************************************)
(* What operators are shown, and which requests are admitted.              *)
(***************************************************************************)
\* A call that has been answered is what it was.
LEMMA AnsweredSame ==
    ASSUME IInv, Stays, NEW d \in Calls, Begun(d), call[d].at = "done"
    PROVE  call'[d] = call[d] /\ Writes(d)' = Writes(d) /\ Writes(d) = Sets(d)
<1>1. call'[d] = call[d]
  BY DEF Stays, CallStays
<1> QED BY <1>1 DEF Writes, Done, Filtered, Sets

LEMMA StepShown ==
    ASSUME IInv, [Next]_vars, Stays
    PROVE  ShownIsFresh'
<1>1. ASSUME NEW c \in Calls, call'[c] = call[c], call[c].at = "done", call[c].answer = "200",
             call[c].kind \in {"patch", "get"},
             NEW d \in call[c].before \cup {c}, call[d].id = call[c].id, NEW k \in Writes(d)
      PROVE  call'[c].read[k] = d \/ Later(call[c].read[k], d)'
  <2>1. d \in Calls /\ Begun(d)
    BY <1>1 DEF IInv, History, Answered, Begun
  <2>2. PICK w : w = call[c].read[k]
    OBVIOUS
  <2>3. w = d \/ Later(w, d)
    BY <1>1, <2>2 DEF IInv, ShownIsFresh
  <2>4. Later(w, d)' <=> Later(w, d)
    BY <2>1, LaterStays
  <2>5. Later(w, d)' <=> Later(call[c].read[k], d)'
    BY <1>1, <2>2 DEF Later
  <2> QED BY <1>1, <2>2, <2>3, <2>4, <2>5
<1>2. ASSUME NEW c \in Calls, Shows(c), Moves(c),
             NEW d \in call[c].before \cup {c}, call[d].id = call[c].id, NEW k \in Sets(d)
      PROVE  call'[c].read[k] = d \/ Later(call[c].read[k], d)'
  <2>1. d \in Calls /\ Begun(d)
    BY <1>2, SetsKnown DEF IInv, History, Answered, Moves
  <2>2. call'[c].read = tenants[call[c].id].columns
    BY <1>2 DEF Shows, Step
  <2>3. PICK w : w = tenants[call[c].id].columns[k]
    OBVIOUS
  <2>4. w = d \/ Later(w, d)
    BY <1>2, <2>1, <2>3 DEF IInv, WriteKept, HeldBy, Shows
  <2>5. Later(w, d)' <=> Later(w, d)
    BY <2>1, LaterStays
  <2>6. Later(w, d)' <=> Later(call[c].read[k], d)'
    BY <2>2, <2>3 DEF Later
  <2> QED BY <2>2, <2>3, <2>4, <2>5, <2>6
<1> SUFFICES ASSUME NEW c \in Calls, call'[c].at = "done", call'[c].answer = "200",
                    call'[c].kind \in {"patch", "get"},
                    NEW d \in call'[c].before \cup {c}, call'[d].id = call'[c].id,
                    NEW k \in Writes(d)'
             PROVE  call'[c].read[k] = d \/ Later(call[c].read[k], d)'
  BY DEF ShownIsFresh
<1>3. \A x \in Calls : Begun(x) => \A y \in call[x].before :
         y \in Calls /\ Begun(y) /\ call[y].at = "done"
  BY DEF IInv, History, Answered, Begun
<1>4. CASE call'[c] = call[c]
  <2>1. Begun(c)
    BY <1>4 DEF Begun
  <2>2. d \in Calls /\ Begun(d) /\ call[d].at = "done"
    BY <1>3, <1>4, <2>1
  <2> QED BY <1>1, <1>4, <2>2, AnsweredSame
<1>5. CASE Moves(c)
  <2>1. Begun(c) /\ Kept(call'[c], call[c]) /\ call[c].at # "done"
    BY <1>5, MovesCall DEF IInv, Moves
  <2>2. ~ Broken(c) /\ ~ Quiet(c) /\ ~ Finds(c)
    BY DEF Broken, Quiet, Finds, Step
  <2>3. ~ Inserts(c) /\ ~ Rotates(c) /\ ~ Deletes(c) /\ ~ Updates(c)
    BY <2>1, <2>2 DEF Inserts, Rotates, Deletes, Updates, Step, Kept
  <2>4. Shows(c)
    BY <1>5, <2>2, <2>3 DEF Moves
  <2>5. call'[c].id = call[c].id /\ d \in call[c].before \cup {c}
    BY <2>1, <2>4 DEF Shows, Step, Kept
  <2>6. CASE d = c
    <3>1. k \in Sets(c)
      BY <2>1, <2>4, <2>6 DEF Shows, Kept, Writes, Done, Sets, Filtered
    <3> QED BY <1>2, <1>5, <2>4, <2>6, <3>1
  <2>7. CASE d # c
    <3>1. d \in call[c].before /\ d \in Calls /\ Begun(d) /\ call[d].at = "done"
      BY <1>3, <2>1, <2>5, <2>7
    <3>2. k \in Sets(d) /\ call[d].id = call[c].id
      BY <2>5, <3>1, AnsweredSame
    <3> QED BY <1>2, <1>5, <2>4, <3>1, <3>2
  <2> QED BY <2>6, <2>7
<1>6. ~ Begins(c) /\ (CrashesAll => call'[c] = call[c])
  BY DEF Begins, CrashesAll, Crashes
<1> QED BY <1>4, <1>5, <1>6, CallCases DEF IInv

LEMMA ActivatesStays ==
    ASSUME Stays, NEW e \in Calls, NEW i \in Ids, Activates(e, i)
    PROVE  Activates(e, i)'
BY DEF Stays, CallStays, Kept, Activates, Begun

LEMMA JudgedStays ==
    ASSUME IInv, Stays, NEW d \in Calls, Begun(d), call[d].at = "done", NEW i \in Ids, NEW f,
           Judged(d, i, f)
    PROVE  Judged(d, i, f)'
<1>1. call'[d] = call[d]
  BY AnsweredSame
<1>2. \A w : Later(w, d)' <=> Later(w, d)
  BY LaterStays
<1>3. \A e \in Calls : Activates(e, i) => Activates(e, i)'
  BY ActivatesStays
<1>4. \A k, as : Done(d, k, as)' <=> Done(d, k, as)
  BY <1>1 DEF Done
<1> QED BY <1>1, <1>2, <1>3, <1>4 DEF Judged

LEMMA JudgedNow ==
    ASSUME IInv, NEW d \in Answered, NEW i \in Ids, Present(i),
           ActiveBy(tenants[i].columns["is_active"])
    PROVE  Judged(d, i, tenants[i].columns["secret_hash"])
<1> SUFFICES ASSUME call[d].id = i
             PROVE  /\ ~ Done(d, "delete", {"204"})
                    /\ Done(d, "rotate", {"200"}) =>
                         HeldBy(tenants[i].columns["secret_hash"], d)
                    /\ Done(d, "patch", {"200"}) /\ "is_active" \in DOMAIN call[d].body
                         /\ call[d].body["is_active"] = "false"
                       => \E e \in Calls : Activates(e, i) /\ Later(e, d)
  BY DEF Judged, HeldBy
<1>0. d \in Calls /\ Begun(d) /\ call[d].at = "done"
  BY DEF Answered, Begun
<1>1. ~ Done(d, "delete", {"204"})
  BY <1>0 DEF IInv, DeletedStays
<1>2. \A k \in Sets(d) : HeldBy(tenants[i].columns[k], d)
  BY <1>0 DEF IInv, WriteKept
<1>3. ASSUME Done(d, "rotate", {"200"})
      PROVE  HeldBy(tenants[i].columns["secret_hash"], d)
  <2>1. "secret_hash" \in Sets(d)
    BY <1>0, <1>3 DEF Sets, Writes, Done
  <2> QED BY <1>2, <2>1
<1>4. ASSUME Done(d, "patch", {"200"}), "is_active" \in DOMAIN call[d].body,
             call[d].body["is_active"] = "false"
      PROVE  \E e \in Calls : Activates(e, i) /\ Later(e, d)
  <2>1. PICK w : w = tenants[i].columns["is_active"]
    OBVIOUS
  <2>2. "is_active" \in Sets(d) /\ "is_active" \in Columns
    BY <1>0, <1>4 DEF Sets, Writes, Done, Filtered, updateAllowedFields, Columns
  <2>3. w # d
    BY <1>0, <1>4, <2>1, TenantAdminAssumption DEF ActiveBy, Done
  <2>4. Later(w, d) /\ call[w].kind # "create" /\ w \in Calls /\ w # First
    BY <1>2, <2>1, <2>2, <2>3, TenantAdminAssumption DEF HeldBy, Later
  <2>5. Wrote(w, i, "is_active")
    BY <2>1, <2>2, <2>4 DEF IInv, WritersGood
  <2>6. Activates(w, i)
    BY <2>1, <2>4, <2>5 DEF Wrote, ActiveBy, Activates, Filtered
  <2> QED BY <2>4, <2>6
<1> QED BY <1>1, <1>3, <1>4

LEMMA StepFound ==
    ASSUME IInv, [Next]_vars, Stays, NEW a \in Attempts
    PROVE  FoundGood(a)'
<1> SUFFICES ASSUME attempt'[a].at \in {"verify", "admitted"}
             PROVE  /\ attempt'[a].at = "admitted" => attempt'[a].found = attempt'[a].secret
                    /\ \A d \in attempt'[a].before : Judged(d, attempt[a].id, attempt[a].found)'
  BY DEF FoundGood
<1>1. attempt[a].at # "idle" =>
        \A d \in attempt[a].before : d \in Answered /\ d \in Calls /\ Begun(d) /\ call[d].at = "done"
  BY DEF IInv, History, Answered, Begun
<1>2. attempt[a].at # "idle" => attempt[a].id \in Ids
  BY Idle DEF IInv, TypeOK, Attempt
<1>3. ASSUME NEW i \in Ids, NEW f, NEW d \in Answered, Judged(d, i, f),
             attempt'[a].id = i, attempt'[a].found = f
      PROVE  Judged(d, attempt[a].id, attempt[a].found)'
  <2>1. Judged(d, i, f)'
    BY <1>3, JudgedStays DEF Answered, Begun
  <2> QED BY <1>3, <2>1 DEF Judged
<1>4. ASSUME attempt[a].at \in {"verify", "admitted"}, attempt'[a].id = attempt[a].id,
             attempt'[a].found = attempt[a].found, attempt'[a].before = attempt[a].before
      PROVE  \A d \in attempt'[a].before : Judged(d, attempt[a].id, attempt[a].found)'
  <2> SUFFICES ASSUME NEW d \in attempt[a].before
               PROVE  Judged(d, attempt[a].id, attempt[a].found)'
    BY <1>4
  <2>1. Judged(d, attempt[a].id, attempt[a].found)
    BY <1>4 DEF IInv, FoundGood
  <2>2. d \in Answered /\ attempt[a].id \in Ids
    BY <1>1, <1>2, <1>4
  <2> QED BY <1>3, <1>4, <2>1, <2>2
<1>5. CASE attempt'[a] = attempt[a]
  BY <1>4, <1>5 DEF IInv, FoundGood
<1>6. ASSUME AttemptMoves(a)
      PROVE  /\ attempt'[a].at = "admitted" => attempt'[a].found = attempt'[a].secret
             /\ \A d \in attempt'[a].before : Judged(d, attempt[a].id, attempt[a].found)'
  <2>1. CASE attempt[a].at = "verify"
    BY <1>4, <1>6, <2>1 DEF AttemptMoves
  <2>2. CASE attempt[a].at # "verify"
    <3>1. /\ attempt'[a].at = "verify" /\ attempt'[a].id = attempt[a].id
          /\ attempt[a].at = "lookup" /\ attempt'[a].before = attempt[a].before
          /\ Present(attempt[a].id) /\ ActiveBy(tenants[attempt[a].id].columns["is_active"])
          /\ attempt'[a].found = tenants[attempt[a].id].columns["secret_hash"]
      BY <1>6, <2>2 DEF AttemptMoves
    <3>2. ASSUME NEW d \in attempt[a].before
          PROVE  Judged(d, attempt[a].id, attempt[a].found)'
      <4>1. d \in Answered /\ attempt[a].id \in Ids
        BY <1>1, <1>2, <3>1, <3>2
      <4>2. Judged(d, attempt[a].id, tenants[attempt[a].id].columns["secret_hash"])
        BY <3>1, <4>1, JudgedNow
      <4> QED BY <1>3, <3>1, <4>1, <4>2
    <3> QED BY <3>1, <3>2
  <2> QED BY <2>1, <2>2
<1>7. ASSUME NEW x \in Attempts, x # a, AttemptMoves(x)
      PROVE  attempt'[a] = attempt[a]
  BY <1>7 DEF AttemptMoves
<1>8. CrashesAll => attempt'[a] = attempt[a]
  BY DEF CrashesAll
<1> QED BY <1>5, <1>6, <1>7, <1>8, NextCases DEF IInv, Begins, Moves, vars

-----------------------------------------------------------------------------
LEMMA InitIInv == Init => IInv
<1> SUFFICES ASSUME Init PROVE IInv
  OBVIOUS
<1> USE TenantAdminAssumption
<1>1. (\A c \in Calls : ~ Begun(c)) /\ (\A a \in Attempts : attempt[a].at = "idle")
  BY Idle DEF Init, Begun
<1>2. ASSUME NEW i \in Ids
      PROVE  /\ tenants[i] \in Row \cup {Unused, Deleted}
             /\ Present(i) => \A k \in Columns : tenants[i].columns[k] = First
  <2>1. CASE i \in DOMAIN Standing
    <3> DEFINE cols == [k \in Columns |-> First]
               row == [state |-> "present", name |-> Standing[i], columns |-> cols]
    <3>1. cols \in [Columns -> Writers] /\ \A k \in Columns : cols[k] = First
      BY DEF Writers
    <3>2. tenants[i] = row /\ row.columns = cols
      BY <2>1 DEF Init
    <3>3. row \in Row
      <4> HIDE DEF cols
      <4> QED BY <2>1, <3>1 DEF Row
    <3> HIDE DEF cols, row
    <3> QED BY <3>1, <3>2, <3>3
  <2>2. CASE i \notin DOMAIN Standing
    BY <2>2, Rows DEF Init, Present
  <2> QED BY <2>1, <2>2
<1>3. TypeOK
  BY <1>2 DEF Init, TypeOK
<1>4. WritersGood
  BY <1>2 DEF WritersGood
<1>5. \A c \in Calls : Shape(c) /\ WriteKept(c) /\ FoundStays(c)
  BY <1>1 DEF Begun, Shape, WriteKept, FoundStays, Sets
<1>6. History /\ ShownIsFresh /\ DeletedStays /\ \A a \in Attempts : FoundGood(a)
  BY <1>1 DEF Begun, History, ShownIsFresh, DeletedStays, FoundGood
<1> QED BY <1>3, <1>4, <1>5, <1>6 DEF IInv

LEMMA StepIInv == IInv /\ [Next]_vars => IInv'
<1> SUFFICES ASSUME IInv, [Next]_vars PROVE IInv'
  OBVIOUS
<1>1. TypeOK' /\ Stays
  BY StepStays DEF IInv
<1>2. History' /\ WritersGood' /\ ShownIsFresh' /\ DeletedStays'
  BY <1>1, StepHistory, StepWriters, StepShown, StepDeleted
<1>3. \A c \in Calls : Shape(c)' /\ WriteKept(c)' /\ FoundStays(c)'
  BY <1>1, StepShape, StepWriteKept, StepFoundStays
<1>4. \A a \in Attempts : FoundGood(a)'
  BY <1>1, StepFound
<1> QED BY <1>1, <1>2, <1>3, <1>4 DEF IInv

\* IInv holds in every state that is reached: who wrote each column, and that
\* what a call wrote or read is not older than what was answered before.
THEOREM TenantAdminInvariant == Spec => []IInv
<1>1. IInv /\ UNCHANGED vars => IInv'
  BY StepIInv
<1> QED BY InitIInv, StepIInv, <1>1, PTL DEF Spec

\* The rows, the calls and the requests have their types, also when calls of
\* PATCH, rotation and DELETE race for one tenant.
THEOREM TenantAdminTypeCorrect == Spec => []TypeOK
<1>1. IInv => TypeOK
  BY DEF IInv
<1> QED BY TenantAdminInvariant, <1>1, PTL

LEMMA AckedInv == IInv => AckedWritesStay
<1> SUFFICES ASSUME IInv, NEW c \in Calls, call[c].at = "done", NEW k \in Writes(c)
             PROVE  IF Present(call[c].id)
                    THEN HeldBy(tenants[call[c].id].columns[k], c)
                    ELSE DeletedLater(c)
  BY DEF AckedWritesStay, HeldBy, DeletedLater, Begun
<1>1. k \in Sets(c)
  BY DEF Sets, Begun
<1> QED BY <1>1 DEF IInv, WriteKept

\* What an operator was told has been set stays set until a later call sets it
\* (UpdateTenant and RotateTenantSecret write only their own columns).
THEOREM AcknowledgedWritesStay == Spec => []AckedWritesStay
BY TenantAdminInvariant, AckedInv, PTL

\* The tenant that handleUpdateTenant and handleGetTenant answer with shows at
\* least what was answered before the call began.
THEOREM AnswersAreFresh == Spec => []ShownIsFresh
<1>1. IInv => ShownIsFresh
  BY DEF IInv
<1> QED BY TenantAdminInvariant, <1>1, PTL

LEMMA SecretInv == IInv => SecretIsKnown
<1> SUFFICES ASSUME IInv, NEW i \in Ids, Present(i), tenants[i].columns["secret_hash"] # First
             PROVE  LET w == tenants[i].columns["secret_hash"]
                    IN  \/ Done(w, "create", {"201"}) \/ Done(w, "rotate", {"200"})
                        \/ call[w].answer \in {"500", "lost"} /\ upsets < MaxUpsets
  BY DEF SecretIsKnown
<1>1. Wrote(tenants[i].columns["secret_hash"], i, "secret_hash")
  BY DEF IInv, WritersGood, Columns
<1>2. ~ \E b : "secret_hash" \in Filtered(b)
  BY DEF Filtered, updateAllowedFields
<1> QED BY <1>1, <1>2 DEF Wrote, Done

\* The stored hash is of a secret that an operator has been shown, unless a
\* statement failed or an answer was lost.
THEOREM StoredSecretIsKnown == Spec => []SecretIsKnown
BY TenantAdminInvariant, SecretInv, PTL

LEMMA RefusedInv == IInv => RevokedIsRefused
<1> SUFFICES ASSUME IInv, NEW a \in Attempts, attempt[a].at = "admitted",
                    NEW d \in attempt[a].before, Revokes(d, attempt[a].id, attempt[a].secret)
             PROVE  FALSE
  BY DEF RevokedIsRefused
<1>1. Judged(d, attempt[a].id, attempt[a].found) /\ attempt[a].found = attempt[a].secret
  BY DEF IInv, FoundGood
<1> QED BY <1>1 DEF Judged, Revokes

\* A request that begins after a rotation, a deactivation or a deletion has been
\* answered is not admitted by tenantAuthMiddleware with what that has ended.
THEOREM RevokedAccessIsRefused == Spec => []RevokedIsRefused
BY TenantAdminInvariant, RefusedInv, PTL

=============================================================================
