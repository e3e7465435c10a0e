---- MODULE IdempotentRequests_proofs ----
(***************************************************************************)
(* For any number of keys, calls and payloads: a key that nothing disturbs *)
(* is served once and gives one answer, and a payment is made once however *)
(* its key is disturbed.                                                   *)
(***************************************************************************)
EXTENDS IdempotentRequests, FiniteSetTheorems, TLAPS

Served == {"handle", "gateway", "respond", "finish", "set"}
Serving(c, k) == call[c].key = k /\ call[c].pc \in Served

\* The call that created the record of k is the only one past SET NX, works on
\* the payload whose hash the record holds, and has at each step done what the
\* row count and the answers say.
Owns(c, k) ==
    /\ record[k] # None /\ record[k].status = "IN_PROGRESS"
    /\ call[c].body = record[k].hash
    /\ call[c].pc # "handle" => call[c].response.body = call[c].body
    /\ call[c].pc = "handle" => rows[k] = 0
    /\ call[c].pc \in {"handle", "gateway", "respond"} => answered[k] = {}
    /\ call[c].pc \in {"finish", "set"} =>
          answered[k] = {call[c].response} /\ call[c].response.code # "5xx"
    /\ call[c].pc = "set" => call[c].hash = record[k].hash

\* A key that has not expired, failed or lost its instance.
ServedOnce(k) ==
    /\ rows[k] <= 1
    /\ \A x, y \in answered[k] : x = y
    /\ \A c \in Calls : ~(call[c].key = k /\ call[c].pc = "delete")
    /\ \A c \in Calls : Serving(c, k) => Owns(c, k)
    /\ \A c, d \in Calls : (Serving(c, k) /\ Serving(d, k)) => c = d
    /\ record[k] = None => rows[k] = 0 /\ answered[k] = {}
    /\ (record[k] # None /\ record[k].status # "IN_PROGRESS") =>
          /\ record[k].status = "COMPLETED"
          /\ record[k].response \in answered[k]
          /\ record[k].response.body = record[k].hash
    /\ \A x \in replayed[k] : \E y \in answered[k] : x.answer = Json(y) /\ x.to = y.body

KeyInv == \A k \in Keys \ unsettled : ServedOnce(k)

\* A payment's row is the first and only one under its key, and every call and
\* answer that succeeded names it.
PaymentInv ==
    \A k \in PaymentKeys :
        /\ rows[k] <= 1
        /\ \A c \in Calls :
              (call[c].key = k /\ call[c].response # None
                  /\ (call[c].pc = "gateway" \/ call[c].response.code = "2xx"))
                  => call[c].response.row = 1
        /\ \A x \in answered[k] : x.code = "2xx" => x.row = 1
----------------------------------------------------------------------------
\* A call at any step but idle works under a key, on a payload, and past its
\* handler with a response.
LEMMA AtStep ==
    ASSUME TypeOK, NEW c \in Calls, call[c].pc # "idle"
    PROVE  /\ call[c] \in CallRecord
           /\ call[c].key \in Keys /\ call[c].body \in Bodies
           /\ call[c].pc \in {"gateway", "respond", "finish", "set"}
                => call[c].response \in Responses
BY DEF TypeOK, CallRecord, NoCall, Steps

\* The text of a response is a response, of the same code, row and payload.
LEMMA JsonType ==
    ASSUME NEW x \in Responses
    PROVE  /\ Json(x) \in Responses
           /\ Json(x).code = x.code /\ Json(x).row = x.row /\ Json(x).body = x.body
BY DEF Json, Responses

\* What TypeOK says of the calls, and of one of them.
CallOK(r) ==
    /\ r \in CallRecord \cup {NoCall}
    /\ r.pc \in {"gateway", "respond", "finish", "set"} => r.response # None
    /\ r.pc = "set" => r.hash # None
CallsOK ==
    /\ call \in [Calls -> CallRecord \cup {NoCall}]
    /\ \A c \in Calls : CallOK(call[c])

\* The calls keep their types when the one that acts does.
LEMMA CallMoves ==
    ASSUME TypeOK, NEW c \in Calls, NEW r, CallOK(r), call' = [call EXCEPT ![c] = r]
    PROVE  CallsOK'
BY DEF TypeOK, CallsOK, CallOK

\* Every step keeps every variable in its type.
LEMMA TypeStep == TypeOK /\ [Next]_vars => TypeOK'
<1> SUFFICES ASSUME TypeOK, [Next]_vars PROVE TypeOK'
  OBVIOUS
<1> USE RowAssumption
<1>n. CallOK(NoCall)
  BY NoneAssumption DEF CallOK, NoCall
<1>1. ASSUME NEW c \in Calls, NEW k \in Keys, NEW b \in Bodies, FindKey(c, k, b)
      PROVE  TypeOK'
  <2>0. replayed' \in [Keys -> SUBSET Replays]
    <3>1. CASE Replay(k, b) /\ record[k] # None /\ record[k].status = "COMPLETED"
      <4>1. PICK x : x = record[k].response
        OBVIOUS
      <4>2. record[k] \in Record
        BY <3>1 DEF TypeOK
      <4>3. CASE x \in Responses
        <5>1. Json(x) \in Responses
          BY <4>3, JsonType
        <5>2. [to |-> b, answer |-> Json(x)] \in Replays
          BY <5>1 DEF Replays
        <5> QED BY <3>1, <4>1, <5>2 DEF Replay, TypeOK
      <4>4. x # None
        BY <3>1, <4>1 DEF TypeOK
      <4> QED BY <4>1, <4>2, <4>3, <4>4 DEF Record
    <3>2. CASE UNCHANGED replayed
      BY <3>2 DEF TypeOK
    <3> QED BY <1>1, <3>1, <3>2 DEF FindKey
  <2> DEFINE r(pc) == [NoCall EXCEPT !.pc = pc, !.key = k, !.body = b]
  <2>1. CallOK(r("create")) /\ CallOK(r("delete"))
    BY DEF CallOK, CallRecord, NoCall, Steps
  <2>2. CASE \E pc \in {"create", "delete"} : call' = [call EXCEPT ![c] = r(pc)]
    <3>1. CallsOK'
      BY <2>1, <2>2, CallMoves
    <3>2. QED
      BY <1>1, <2>0, <3>1 DEF FindKey, TypeOK, CallsOK, CallOK
  <2>3. CASE UNCHANGED call
    BY <1>1, <2>0, <2>3 DEF FindKey, TypeOK
  <2>4. QED
    BY <1>1, <2>2, <2>3 DEF FindKey, Continues
<1>2. ASSUME NEW c \in Calls, Serves(c) PROVE TypeOK'
  <2> DEFINE To(pc) == [call[c] EXCEPT !.pc = pc]
             With(pc, x) == [call[c] EXCEPT !.pc = pc, !.response = x]
             Found(h) == [call[c] EXCEPT !.pc = "set", !.hash = h]
  <2>a. call[c].pc # "idle"
    BY <1>2 DEF Serves, DeleteKey, CreateKey, Book, InitiatePayment, Gateway, HandlerFails,
       Respond, UpdateReads, UpdateWrites, At
  <2>b. call[c] \in CallRecord /\ call[c].key \in Keys /\ call[c].body \in Bodies
    BY <2>a, AtStep
  <2>c. CallOK(To("create")) /\ CallOK(To("handle"))
    BY <2>b DEF CallOK, CallRecord, Steps
  <2>e. \A x \in Responses :
           CallOK(With("gateway", x)) /\ CallOK(With("respond", x)) /\ CallOK(With("finish", x))
    BY <2>b, NoneAssumption DEF CallOK, CallRecord, Steps
  <2>f. call[c].response # None => \A h \in Bodies : CallOK(Found(h))
    BY <2>b, NoneAssumption DEF CallOK, CallRecord, Steps
  <2>g. \A code \in Codes, n \in 0..MaxRows : Result(c, code, n) \in Responses
    BY <2>b DEF Result, Responses
  <2>h. \A pc, x : Holds(c, pc, x) => call' = [call EXCEPT ![c] = With(pc, x)]
    BY DEF Holds, TypeOK
  <2>i. {"2xx", "4xx", "5xx"} \subseteq Codes /\ {0, 1} \subseteq 0..MaxRows
    BY DEF Codes
  <2>1. CASE DeleteKey(c)
    <3>1. CallsOK'
      BY <2>1, <2>c, CallMoves DEF DeleteKey, Goto
    <3>2. QED
      BY <2>1, <2>b, <3>1 DEF DeleteKey, Put, TypeOK, CallsOK, CallOK
  <2>2. CASE CreateKey(c)
    <3>1. InProgress(call[c].body) \in Record
      BY <2>b DEF InProgress, Record, Statuses
    <3>2. CallsOK'
      BY <2>2, <2>c, <1>n, CallMoves DEF CreateKey, Goto, Ends
    <3>3. record' \in [Keys -> Record \cup {None}]
      BY <2>2, <2>b, <3>1 DEF CreateKey, Put, TypeOK
    <3>4. \A k \in Keys : (record'[k] # None /\ record'[k].status # "IN_PROGRESS")
                              => record'[k].response # None
      BY <2>2, <2>b DEF CreateKey, Put, InProgress, TypeOK
    <3>5. QED
      BY <2>2, <3>2, <3>3, <3>4 DEF CreateKey, TypeOK, CallsOK, CallOK
  <2>3. CASE Book(c)
    <3>1. rows' \in [Keys -> 0..MaxRows]
      BY <2>3, <2>b DEF Book, TypeOK
    <3>2. PICK x \in Responses : call' = [call EXCEPT ![c] = With("respond", x)]
      <4>1. rows'[call[c].key] \in 0..MaxRows
        BY <2>b, <3>1
      <4>2. CASE Holds(c, "respond", Result(c, "2xx", rows'[call[c].key]))
        BY <2>g, <2>h, <2>i, <4>1, <4>2
      <4>3. CASE Holds(c, "respond", Result(c, "4xx", 0))
        BY <2>g, <2>h, <2>i, <4>3
      <4>4. QED
        BY <2>3, <4>2, <4>3 DEF Book
    <3>3. CallsOK'
      BY <3>2, <2>e, CallMoves
    <3>4. QED
      BY <2>3, <3>1, <3>3 DEF Book, TypeOK, CallsOK, CallOK
  <2>4. CASE InitiatePayment(c)
    <3>1. rows' \in [Keys -> 0..MaxRows]
      BY <2>4, <2>b DEF InitiatePayment, TypeOK
    <3>2. PICK x \in Responses, pc \in {"gateway", "respond"} :
             call' = [call EXCEPT ![c] = With(pc, x)]
      <4>1. CASE Holds(c, "gateway", Result(c, "5xx", 1))
        BY <2>g, <2>h, <2>i, <4>1
      <4>2. CASE Holds(c, "respond", Result(c, "4xx", 0))
        BY <2>g, <2>h, <2>i, <4>2
      <4>3. QED
        BY <2>4, <4>1, <4>2 DEF InitiatePayment
    <3>3. CallsOK'
      BY <3>2, <2>e, CallMoves
    <3>4. QED
      BY <2>4, <3>1, <3>3 DEF InitiatePayment, TypeOK, CallsOK, CallOK
  <2>5. CASE Gateway(c)
    <3>1. PICK code \in Codes :
             call' = [call EXCEPT ![c] = With("respond", [call[c].response EXCEPT !.code = code])]
      BY <2>5 DEF Gateway, Holds, Codes
    <3>2. [call[c].response EXCEPT !.code = code] \in Responses
      BY <2>5, AtStep DEF Gateway, At, Responses
    <3>3. CallsOK'
      BY <3>1, <3>2, <2>e, CallMoves
    <3>4. QED
      BY <2>5, <3>3 DEF Gateway, TypeOK, CallsOK, CallOK
  <2>6. CASE HandlerFails(c)
    <3>1. CallsOK'
      <4>1. Result(c, "5xx", 0) \in Responses
        BY <2>g, <2>i
      <4>2. call' = [call EXCEPT ![c] = With("respond", Result(c, "5xx", 0))]
        BY <2>6, <2>h DEF HandlerFails
      <4>3. QED
        BY <2>e, <4>1, <4>2, CallMoves
    <3>2. QED
      BY <2>6, <3>1 DEF HandlerFails, TypeOK, CallsOK, CallOK
  <2>7. CASE Respond(c)
    <3>1. call[c].response \in Responses /\ call[c].response # None
      BY <2>7, AtStep DEF Respond, At, TypeOK
    <3>0. Json(call[c].response) \in Responses
      BY <3>1, JsonType
    <3>2. CallsOK'
      <4>1. PICK x \in Responses : x = Json(call[c].response)
        BY <3>0
      <4>2. call' = [call EXCEPT ![c] = With("finish", x)]
        BY <2>7, <2>h, <4>1 DEF Respond
      <4>3. CallOK(With("finish", x))
        BY <2>e
      <4>4. QED
        BY <4>2, <4>3, CallMoves
    <3>3. answered' \in [Keys -> SUBSET Responses] /\ unsettled' \subseteq Keys
      BY <2>7, <2>b, <3>0 DEF Respond, TypeOK
    <3>4. QED
      BY <2>7, <3>2, <3>3 DEF Respond, TypeOK, CallsOK, CallOK
  <2>8. CASE UpdateReads(c)
    <3>1. call[c].response # None
      BY <2>8 DEF UpdateReads, At, TypeOK
    <3>2. record[call[c].key] # None => record[call[c].key].hash \in Bodies
      BY <2>b DEF TypeOK, Record
    <3>3. CallsOK'
      <4>1. CASE Ends(c)
        BY <4>1, <1>n, CallMoves DEF Ends
      <4>2. CASE record[call[c].key] # None
                 /\ call' = [call EXCEPT ![c] = Found(record[call[c].key].hash)]
        BY <4>2, <2>f, <3>1, <3>2, CallMoves
      <4>3. QED
        BY <2>8, <4>1, <4>2 DEF UpdateReads
    <3>4. QED
      BY <2>8, <2>b, <3>3 DEF UpdateReads, TypeOK, CallsOK, CallOK
  <2>9. CASE UpdateWrites(c)
    <3>1. [status |-> StatusFor(call[c].response.code), hash |-> call[c].hash,
           response |-> call[c].response] \in Record
      BY <2>9, <2>b, AtStep
      DEF UpdateWrites, At, StatusFor, TypeOK, CallRecord, Record, Statuses
    <3>2. CallsOK'
      BY <2>9, <1>n, CallMoves DEF UpdateWrites, Ends
    <3>3. record' \in [Keys -> Record \cup {None}]
      BY <2>9, <2>b, <3>1 DEF UpdateWrites, Put, TypeOK
    <3>4. call[c].response # None
      BY <2>9 DEF UpdateWrites, At, TypeOK
    <3>5. \A k \in Keys : (record'[k] # None /\ record'[k].status # "IN_PROGRESS")
                              => record'[k].response # None
      BY <2>9, <2>b, <3>4 DEF UpdateWrites, Put, TypeOK
    <3>6. QED
      BY <2>9, <3>2, <3>3, <3>5 DEF UpdateWrites, TypeOK, CallsOK, CallOK
  <2>10. QED
    BY <1>2, <2>1, <2>2, <2>3, <2>4, <2>5, <2>6, <2>7, <2>8, <2>9 DEF Serves
<1>3. ASSUME NEW c \in Calls, Crash(c) PROVE TypeOK'
  <2>1. call[c].key \in Keys
    BY <1>3 DEF Crash, TypeOK, CallRecord
  <2>2. CallsOK'
    BY <1>3, <1>n, CallMoves DEF Crash, Ends
  <2>3. QED
    BY <1>3, <2>1, <2>2 DEF Crash, TypeOK, CallsOK, CallOK
<1>4. ASSUME NEW k \in Keys, KeyExpires(k) PROVE TypeOK'
  BY <1>4 DEF KeyExpires, Put, TypeOK
<1>5. CASE UNCHANGED vars
  BY <1>5 DEF vars, TypeOK
<1>6. QED
  BY <1>1, <1>2, <1>3, <1>4, <1>5 DEF Next

\* The types hold of every number of calls, keys and payloads.
THEOREM TypeCorrect == Spec => []TypeOK
<1>1. Init => TypeOK
  BY RowAssumption DEF Init, TypeOK, NoCall
<1>2. QED
  BY <1>1, TypeStep, PTL DEF Spec
----------------------------------------------------------------------------
\* A row of a payment's key is its first, whatever expires, fails or dies.
LEMMA PaymentStep == TypeOK /\ PaymentInv /\ [Next]_vars => PaymentInv'
<1> SUFFICES ASSUME TypeOK, PaymentInv, [Next]_vars PROVE PaymentInv'
  OBVIOUS
<1> USE DEF PaymentInv, PaymentKeys
<1>1. ASSUME NEW c \in Calls, NEW k \in Keys, NEW b \in Bodies, FindKey(c, k, b)
      PROVE  PaymentInv'
  <2>1. call'[c] = call[c] \/ call'[c].response = None
    BY <1>1 DEF FindKey, Continues, TypeOK, NoCall
  <2>2. \A d \in Calls \ {c} : call'[d] = call[d]
    BY <1>1 DEF FindKey, Continues, TypeOK
  <2>3. UNCHANGED <<route, rows, answered>>
    BY <1>1 DEF FindKey
  <2>4. QED
    BY <2>1, <2>2, <2>3
<1>2. ASSUME NEW c \in Calls, Serves(c) PROVE PaymentInv'
  <2>1. CASE DeleteKey(c)
    BY <2>1, AtStep DEF DeleteKey, At, Goto, TypeOK, CallRecord
  <2>2. CASE CreateKey(c)
    BY <2>2, AtStep DEF CreateKey, At, Goto, Ends, NoCall, TypeOK, CallRecord
  <2>3. CASE Book(c)
    BY <2>3, AtStep DEF Book, At, Holds, Result, TypeOK, CallRecord, PaymentKeys
  <2>4. CASE InitiatePayment(c)
    BY <2>4, AtStep DEF InitiatePayment, At, Holds, Result, TypeOK, CallRecord
  <2>5. CASE Gateway(c)
    BY <2>5, AtStep, NoneAssumption DEF Gateway, At, Holds, TypeOK, CallRecord, Responses
  <2>6. CASE HandlerFails(c)
    BY <2>6, AtStep DEF HandlerFails, At, Holds, Result, TypeOK, CallRecord
  <2>7. CASE Respond(c)
    BY <2>7, AtStep, NoneAssumption, JsonType DEF Respond, At, Holds, TypeOK, CallRecord
  <2>8. CASE UpdateReads(c)
    BY <2>8, AtStep DEF UpdateReads, At, Ends, NoCall, TypeOK, CallRecord
  <2>9. CASE UpdateWrites(c)
    BY <2>9, AtStep DEF UpdateWrites, At, Ends, NoCall, TypeOK, CallRecord
  <2>10. QED
    BY <1>2, <2>1, <2>2, <2>3, <2>4, <2>5, <2>6, <2>7, <2>8, <2>9 DEF Serves
<1>3. ASSUME NEW c \in Calls, Crash(c) PROVE PaymentInv'
  BY <1>3 DEF Crash, Ends, NoCall, TypeOK
<1>4. ASSUME NEW k \in Keys, KeyExpires(k) PROVE PaymentInv'
  BY <1>4 DEF KeyExpires
<1>5. CASE UNCHANGED vars
  BY <1>5 DEF vars
<1>6. QED
  BY <1>1, <1>2, <1>3, <1>4, <1>5 DEF Next

\* No payment exists at the start.
LEMMA PaymentStart == Init => PaymentInv
<1> SUFFICES ASSUME Init PROVE PaymentInv
  OBVIOUS
<1>1. \A k \in Keys : rows[k] = 0 /\ answered[k] = {}
  BY DEF Init
<1>2. \A c \in Calls : call[c].response = None
  BY DEF Init, NoCall
<1>3. QED
  BY <1>1, <1>2 DEF PaymentInv, PaymentKeys

\* Two successful answers to the initiation of a payment name the same
\* payment, whatever expired, failed or died between them.
THEOREM OnePaymentAnswered == Spec => []SamePayment
<1>1. PaymentInv => SamePayment
  BY DEF PaymentInv, SamePayment
<1>2. QED
  BY <1>1, PaymentStart, TypeCorrect, PaymentStep, PTL DEF Spec
----------------------------------------------------------------------------
\* Of one key that is settled after a step: it was settled before, and the
\* step served a call of another key, or this one.
LEMMA StaysSettled == TypeOK /\ [Next]_vars => unsettled \subseteq unsettled'
BY DEF Next, Serves, FindKey, DeleteKey, CreateKey, Book, InitiatePayment, Gateway,
   HandlerFails, Respond, UpdateReads, UpdateWrites, Crash, KeyExpires, vars

\* A call of another key leaves all that ServedOnce says of k.
LEMMA OtherKey ==
    ASSUME TypeOK, NEW k \in Keys, ServedOnce(k), NEW c \in Calls,
           record'[k] = record[k], rows'[k] = rows[k], answered'[k] = answered[k],
           replayed'[k] = replayed[k],
           \A d \in Calls \ {c} : call'[d] = call[d],
           call'[c].key = k => call'[c].pc \notin Served \cup {"delete"}
    PROVE  ServedOnce(k)'
BY DEF ServedOnce, Serving, Owns

\* The step of one call.
LEMMA OwnKey ==
    ASSUME TypeOK, NEW c \in Calls, NEW k \in Keys, ServedOnce(k), k \notin unsettled',
           Serves(c), call[c].key = k
    PROVE  ServedOnce(k)'
<1>0. UNCHANGED replayed
  BY DEF Serves, DeleteKey, CreateKey, Book, InitiatePayment, Gateway, HandlerFails,
     Respond, UpdateReads, UpdateWrites
<1>1. /\ call[c] \in CallRecord /\ call[c].pc # "idle" /\ call[c].body \in Bodies
      /\ \A d \in Calls \ {c} : call'[d] = call[d]
  BY AtStep DEF Serves, DeleteKey, CreateKey, Book, InitiatePayment, Gateway, HandlerFails,
     Respond, UpdateReads, UpdateWrites, At, Goto, Ends, Holds, TypeOK
<1>2. call[c].pc # "delete"
  BY DEF ServedOnce
<1>3. CASE CreateKey(c) /\ record[k] = None
  <2>1. /\ record'[k] = InProgress(call[c].body)
        /\ call'[c] = [call[c] EXCEPT !.pc = "handle"]
        /\ rows' = rows /\ answered' = answered
    BY <1>3, <1>1 DEF CreateKey, Put, Goto, TypeOK
  <2>2. \A d \in Calls : ~Serving(d, k)
    BY <1>3 DEF ServedOnce, Owns
  <2>3. rows[k] = 0 /\ answered[k] = {}
    BY <1>3 DEF ServedOnce
  <2>4. InProgress(call[c].body) # None
    <3>1. InProgress(call[c].body) \in Record
      BY <1>1 DEF InProgress, Record, Statuses
    <3>2. QED
      BY <3>1, NoneAssumption
  <2>5. call'[c].pc = "handle" /\ call'[c].body = call[c].body /\ call'[c].key = k
    BY <1>1, <2>1 DEF CallRecord
  <2>6. record'[k].status = "IN_PROGRESS" /\ record'[k].hash = call[c].body
    BY <2>1 DEF InProgress
  <2>7. \A d \in Calls \ {c} : ~Serving(d, k)' /\ ~(call'[d].key = k /\ call'[d].pc = "delete")
    BY <1>1, <2>2 DEF ServedOnce, Serving
  <2>8. Owns(c, k)'
    BY <2>1, <2>3, <2>4, <2>5, <2>6 DEF Owns
  <2>9. QED
    BY <1>0, <2>1, <2>3, <2>4, <2>5, <2>6, <2>7, <2>8 DEF ServedOnce, Serving
<1>4. CASE CreateKey(c) /\ record[k] # None
  <2>1. call'[c] = NoCall /\ UNCHANGED <<record, rows, answered>>
    BY <1>4 DEF CreateKey, Ends, TypeOK
  <2>2. QED
    BY <1>0, <1>1, <2>1, OtherKey DEF NoCall, Served
<1>5. CASE Book(c) \/ InitiatePayment(c) \/ HandlerFails(c)
  <2>1. Serving(c, k) /\ rows[k] = 0 /\ answered[k] = {}
    BY <1>5 DEF ServedOnce, Serving, Served, Owns, Book, InitiatePayment, HandlerFails, At
  <2>2. \A d \in Calls \ {c} : ~Serving(d, k)
    BY <2>1 DEF ServedOnce
  <2>3. /\ UNCHANGED <<record, answered>>
        /\ rows'[k] <= 1
    BY <1>5, <2>1 DEF Book, InitiatePayment, HandlerFails, TypeOK
  <2>4. /\ call'[c].pc \in {"gateway", "respond"} /\ call'[c].key = k
        /\ call'[c].body = call[c].body /\ call'[c].response.body = call[c].body
    BY <1>1, <1>5 DEF Book, InitiatePayment, HandlerFails, Holds, Result, TypeOK, CallRecord
  <2>5. QED
    BY <1>0, <1>1, <2>1, <2>2, <2>3, <2>4 DEF ServedOnce, Serving, Owns, Served
<1>6. CASE Gateway(c)
  <2>1. Serving(c, k)
    BY <1>6 DEF Serving, Served, Gateway, At
  <2>2. UNCHANGED <<record, rows, answered>>
    BY <1>6 DEF Gateway
  <2>3. /\ call'[c].pc = "respond" /\ call'[c].key = k
        /\ call'[c].body = call[c].body /\ call'[c].response.body = call[c].response.body
    BY <1>1, <1>6, AtStep DEF Gateway, Holds, At, TypeOK, CallRecord, Responses
  <2>4. QED
    BY <1>0, <1>1, <1>6, <2>1, <2>2, <2>3 DEF ServedOnce, Serving, Owns, Served, Gateway, At
<1>7. CASE Respond(c)
  <2>1. Serving(c, k) /\ answered[k] = {}
    BY <1>7 DEF ServedOnce, Serving, Served, Owns, Respond, At
  <2>2. /\ UNCHANGED <<record, rows>> /\ call[c].response.code # "5xx"
        /\ answered'[k] = {Json(call[c].response)}
    BY <1>7, <2>1 DEF Respond, TypeOK
  <2>3. /\ call'[c] = [call[c] EXCEPT !.pc = "finish", !.response = Json(call[c].response)]
    BY <1>7 DEF Respond, Holds, TypeOK
  <2>4. /\ call'[c].pc = "finish" /\ call'[c].key = k
        /\ call'[c].body = call[c].body /\ call'[c].response = Json(call[c].response)
    BY <1>1, <2>3 DEF CallRecord
  <2>5. call[c].response \in Responses
    BY <1>7, AtStep DEF Respond, At
  <2>6. /\ call'[c].response.body = call[c].response.body
        /\ call'[c].response.code # "5xx" /\ replayed'[k] = {}
    BY <1>0, <2>1, <2>2, <2>4, <2>5, JsonType DEF ServedOnce
  <2>7. QED
    BY <1>1, <1>7, <2>1, <2>2, <2>4, <2>6 DEF ServedOnce, Serving, Owns, Served, Respond, At
<1>8. CASE UpdateReads(c)
  <2>1. Serving(c, k) /\ UNCHANGED <<record, rows, answered>>
    BY <1>8 DEF Serving, Served, UpdateReads, At
  <2>2. call' = [call EXCEPT ![c].pc = "set", ![c].hash = record[k].hash]
    BY <1>8, <1>1 DEF UpdateReads, TypeOK
  <2>3. /\ call'[c].pc = "set" /\ call'[c].key = k /\ call'[c].hash = record[k].hash
        /\ call'[c].body = call[c].body /\ call'[c].response = call[c].response
    BY <1>1, <2>2 DEF TypeOK, CallRecord
  <2>4. QED
    BY <1>0, <1>1, <1>8, <2>1, <2>3 DEF ServedOnce, Serving, Owns, Served, UpdateReads, At
<1>9. CASE UpdateWrites(c)
  <2>1. Serving(c, k) /\ UNCHANGED <<rows, answered>> /\ call'[c] = NoCall
    BY <1>9 DEF Serving, Served, UpdateWrites, At, Ends, TypeOK
  <2>2. \A d \in Calls \ {c} : ~Serving(d, k)
    BY <2>1 DEF ServedOnce
  <2>3. /\ answered[k] = {call[c].response} /\ call[c].response.code # "5xx"
        /\ call[c].hash = record[k].hash /\ call[c].body = record[k].hash
        /\ call[c].response.body = call[c].body
    BY <1>9, <2>1 DEF ServedOnce, Owns, UpdateWrites, At
  <2>4. record'[k] = [status |-> "COMPLETED", hash |-> call[c].hash,
                      response |-> call[c].response]
    BY <1>9, <2>3 DEF UpdateWrites, Put, StatusFor, TypeOK
  <2>5. record'[k] # None
    <3>1. record'[k] \in Record
      BY <1>9, <2>4, AtStep DEF UpdateWrites, At, TypeOK, CallRecord, Record, Statuses
    <3>2. QED
      BY <3>1, NoneAssumption
  <2>6. QED
    BY <1>0, <1>1, <2>1, <2>2, <2>3, <2>4, <2>5 DEF ServedOnce, Serving, Owns, Served, NoCall
<1>10. QED
  BY <1>2, <1>3, <1>4, <1>5, <1>6, <1>7, <1>8, <1>9 DEF Serves, DeleteKey, At

\* Every step leaves a settled key served once.
LEMMA KeyStep == TypeOK /\ KeyInv /\ [Next]_vars => KeyInv'
<1> SUFFICES ASSUME TypeOK, KeyInv, [Next]_vars, NEW k \in Keys, k \notin unsettled'
             PROVE  ServedOnce(k)'
  BY DEF KeyInv
<1>1. k \notin unsettled /\ ServedOnce(k)
  BY StaysSettled DEF KeyInv
<1>2. ASSUME NEW c \in Calls, NEW j \in Keys, NEW b \in Bodies, FindKey(c, j, b)
      PROVE  ServedOnce(k)'
  <2>1. /\ UNCHANGED <<record, rows, answered>>
        /\ \A d \in Calls \ {c} : call'[d] = call[d]
        /\ call[c] = NoCall
    BY <1>2 DEF FindKey, Continues, TypeOK
  <2>2. CASE UNCHANGED <<call, replayed>>
    BY <1>1, <2>1, <2>2, OtherKey DEF NoCall, Served
  <2>5. CASE /\ record[j] # None /\ record[j].status = "COMPLETED" /\ record[j].hash = b
             /\ Replay(j, b) /\ UNCHANGED call
    <3>1. CASE j # k
      <4>1. replayed'[k] = replayed[k]
        BY <2>5, <3>1 DEF Replay, TypeOK
      <4> QED BY <1>1, <2>1, <2>5, <4>1, OtherKey DEF NoCall, Served
    <3>2. CASE j = k
      <4>1. PICK y : y = record[k].response
        OBVIOUS
      <4>2. PICK x : x = [to |-> b, answer |-> Json(y)]
        OBVIOUS
      <4>3. x.to = b /\ x.answer = Json(y)
        BY <4>2
      <4>4. y \in answered[k] /\ y.body = b
        BY <1>1, <2>5, <3>2, <4>1 DEF ServedOnce
      <4>5. replayed'[k] = replayed[k] \cup {x}
        BY <1>1, <2>5, <3>2, <4>1, <4>2 DEF Replay, TypeOK
      <4>6. \A z \in replayed'[k] : \E a \in answered[k] : z.answer = Json(a) /\ z.to = a.body
        BY <1>1, <4>3, <4>4, <4>5 DEF ServedOnce
      <4> QED BY <1>1, <2>1, <2>5, <4>6 DEF ServedOnce, Serving, Owns
    <3> QED BY <3>1, <3>2
  <2>3. CASE Continues(c, j, b, "create") /\ UNCHANGED replayed
    <3>1. call'[c].pc = "create"
      BY <2>3 DEF Continues, TypeOK, NoCall
    <3>2. QED
      BY <1>1, <2>1, <2>3, <3>1, OtherKey DEF Served
  <2>4. CASE /\ Continues(c, j, b, "delete") /\ UNCHANGED replayed
             /\ record[j] # None /\ record[j].status = "FAILED"
    <3>1. j # k
      BY <1>1, <2>4 DEF ServedOnce
    <3>2. call'[c].key = j
      BY <2>4 DEF Continues, TypeOK, NoCall
    <3>3. QED
      BY <1>1, <2>1, <2>4, <3>1, <3>2, OtherKey
  <2>6. QED
    BY <1>2, <2>2, <2>3, <2>4, <2>5 DEF FindKey
<1>3. ASSUME NEW c \in Calls, Serves(c) PROVE ServedOnce(k)'
  <2>1. CASE call[c].key = k
    BY <1>1, <1>3, <2>1, OwnKey
  <2>2. CASE call[c].key # k
    <3>1. call[c] \in CallRecord /\ call[c].key \in Keys
      BY <1>3, AtStep DEF Serves, DeleteKey, CreateKey, Book, InitiatePayment, Gateway,
         HandlerFails, Respond, UpdateReads, UpdateWrites, At
    <3>2. /\ record'[k] = record[k] /\ rows'[k] = rows[k] /\ answered'[k] = answered[k]
          /\ replayed'[k] = replayed[k]
      BY <1>3, <2>2, <3>1 DEF Serves, DeleteKey, CreateKey, Book, InitiatePayment, Gateway,
         HandlerFails, Respond, UpdateReads, UpdateWrites, Put, TypeOK
    <3>3. \A d \in Calls \ {c} : call'[d] = call[d]
      BY <1>3 DEF Serves, DeleteKey, CreateKey, Book, InitiatePayment, Gateway,
         HandlerFails, Respond, UpdateReads, UpdateWrites, Goto, Ends, Holds, TypeOK
    <3>4. call'[c] = NoCall \/ call'[c].key = call[c].key
      BY <1>3, <3>1 DEF Serves, DeleteKey, CreateKey, Book, InitiatePayment, Gateway,
         HandlerFails, Respond, UpdateReads, UpdateWrites, Goto, Ends, Holds, TypeOK,
         CallRecord
    <3>5. QED
      BY <1>1, <2>2, <3>2, <3>3, <3>4, OtherKey DEF NoCall, Served
  <2>3. QED
    BY <2>1, <2>2
<1>4. ASSUME NEW c \in Calls, Crash(c) PROVE ServedOnce(k)'
  <2>1. /\ UNCHANGED <<record, rows, answered, replayed>> /\ call'[c] = NoCall
        /\ \A d \in Calls \ {c} : call'[d] = call[d]
    BY <1>4 DEF Crash, Ends, TypeOK
  <2>2. QED
    BY <1>1, <2>1, OtherKey DEF NoCall, Served
<1>5. ASSUME NEW j \in Keys, KeyExpires(j) PROVE ServedOnce(k)'
  <2>1. j # k
    BY <1>5 DEF KeyExpires
  <2>2. record'[k] = record[k] /\ UNCHANGED <<rows, call, answered, replayed>>
    BY <1>5, <2>1 DEF KeyExpires, Put, TypeOK
  <2>3. QED
    BY <1>1, <2>2 DEF ServedOnce, Serving, Owns
<1>6. CASE UNCHANGED vars
  BY <1>1, <1>6 DEF vars, ServedOnce, Serving, Owns
<1>7. QED
  BY <1>2, <1>3, <1>4, <1>5, <1>6 DEF Next

\* The invariant behind both theorems on keys.
LEMMA KeyInvHolds == Spec => []KeyInv
<1>1. Init => KeyInv
  <2> SUFFICES ASSUME Init, NEW k \in Keys PROVE ServedOnce(k)
    BY DEF KeyInv
  <2>1. rows[k] = 0 /\ answered[k] = {} /\ replayed[k] = {} /\ record[k] = None
    BY DEF Init
  <2>2. \A c \in Calls : call[c].pc = "idle"
    BY DEF Init, NoCall
  <2>3. QED
    BY <2>1, <2>2 DEF ServedOnce, Serving, Served
<1>2. QED
  BY <1>1, TypeCorrect, KeyStep, PTL DEF Spec

\* One row per key, for every number of calls and keys: of a payment always,
\* of a booking while its key is settled.
THEOREM ServedAtMostOnce == Spec => []DoneOnce
<1>1. KeyInv /\ PaymentInv => DoneOnce
  BY DEF KeyInv, ServedOnce, PaymentInv, DoneOnce
<1>2. QED
  BY <1>1, PaymentStart, TypeCorrect, PaymentStep, KeyInvHolds, PTL DEF Spec

\* The first answer of a settled key is its only one, is the one Redis holds,
\* and is all that a repeated call is given, as text of that text, and only for
\* the payload it was made for.
THEOREM FirstAnswerIsKept == Spec => []FirstAnswerStands
<1>1. ASSUME KeyInv, NEW k \in Keys \ unsettled PROVE Cardinality(answered[k]) <= 1
  <2>1. ServedOnce(k)
    BY <1>1 DEF KeyInv
  <2>2. CASE answered[k] = {}
    BY <2>2, FS_EmptySet
  <2>3. CASE answered[k] # {}
    <3>0. \A x, y \in answered[k] : x = y
      BY <2>1 DEF ServedOnce
    <3>1. PICK x : answered[k] = {x}
      BY <2>3, <3>0
    <3>2. QED
      BY <3>1, FS_Singleton
  <2>4. QED
    BY <2>2, <2>3
<1>2. KeyInv => FirstAnswerStands
  BY <1>1 DEF KeyInv, ServedOnce, FirstAnswerStands
<1>3. QED
  BY <1>2, KeyInvHolds, PTL
====
