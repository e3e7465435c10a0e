---- MODULE IdempotentRequests ----
(***************************************************************************)
(* The Idempotency-Key middleware around the two routes that use it: the   *)
(* public booking and the initiation of a payment.  A client sends a call  *)
(* with a key and may repeat it at any time, also while the first is still *)
(* being served.  The record of the key is in Redis, the row the handler   *)
(* creates in PostgreSQL, and nothing makes the two change together.       *)
(***************************************************************************)
EXTENDS Naturals, FiniteSets

CONSTANTS
    Keys,    \* a scope (method, path, center) with a client's key
    Calls,   \* calls being served at the same time
    Bodies,  \* payloads, told apart by getRequestHash
    MaxRows, \* bound: rows made under one key
    None

ASSUME RowAssumption == MaxRows \in Nat \ {0}

VARIABLES
    route,    \* route[k]: the path in the scope of k, never changes
    record,   \* record[k]: what Redis holds under k, or None
    rows,     \* rows[k]: how many rows handlers have created under k
    call,     \* call[c]: what the call being served holds
    answered, \* answered[k]: the lasting answers (no 5xx) of handlers under k
    replayed, \* replayed[k]: what calls were given from the record, as long as
              \* k is not unsettled (history)
    unsettled \* keys that expired, failed or lost their instance (history)

vars == <<route, record, rows, call, answered, replayed, unsettled>>
----------------------------------------------------------------------------
Codes == {"2xx", "4xx", "5xx"}
Statuses == {"IN_PROGRESS", "COMPLETED", "FAILED"}

\* What a handler answers: its class, the row it made, the payload it served,
\* and how many times it has been turned into JSON text by now.
Responses == [code : Codes, row : 0..MaxRows, body : Bodies, layers : Nat]
Replays == [to : Bodies, answer : Responses]
Record == [status : Statuses, hash : Bodies, response : Responses \cup {None}]
ASSUME NoneAssumption == None \notin Bodies \cup Record \cup Responses

Steps == {"delete", "create", "handle", "gateway", "respond", "finish", "set"}

NoCall == [pc |-> "idle", key |-> None, body |-> None, response |-> None, hash |-> None]
CallRecord ==
    [pc : Steps, key : Keys, body : Bodies, response : Responses \cup {None},
     hash : Bodies \cup {None}]

PaymentKeys == {k \in Keys : route[k] = "payment"}

Init ==
    /\ route \in [Keys -> {"booking", "payment"}]
    /\ record = [k \in Keys |-> None]
    /\ rows = [k \in Keys |-> 0]
    /\ call = [c \in Calls |-> NoCall]
    /\ answered = [k \in Keys |-> {}]
    /\ replayed = [k \in Keys |-> {}]
    /\ unsettled = {}

At(c, pc) == call[c].pc = pc
Goto(c, pc) == call' = [call EXCEPT ![c].pc = pc]
Ends(c) == call' = [call EXCEPT ![c] = NoCall]
Put(k, v) == record' = [record EXCEPT ![k] = v]
Result(c, code, row) == [code |-> code, row |-> row, body |-> call[c].body, layers |-> 0]

\* res.json makes text of whatever it is given, of text too.
Json(response) == [response EXCEPT !.layers = @ + 1]
----------------------------------------------------------------------------
(* Before the handler.                                                     *)

Continues(c, k, b, pc) ==
    call' = [call EXCEPT ![c] = [NoCall EXCEPT !.pc = pc, !.key = k, !.body = b]]

\* The stored response goes out through res.json.
Replay(k, b) ==
    IF k \in unsettled THEN UNCHANGED replayed
    ELSE replayed' = [replayed EXCEPT
             ![k] = @ \cup {[to |-> b, answer |-> Json(record[k].response)]}]

\* Mutant: the payload of a repeated call is not compared.
FindKey_AnyPayload(c, k, b) ==
    /\ call[c] = NoCall
    /\ \/ record[k] = None /\ Continues(c, k, b, "create") /\ UNCHANGED replayed
       \/ /\ record[k] # None /\ record[k].status = "FAILED"
          /\ Continues(c, k, b, "delete") /\ UNCHANGED replayed
       \/ /\ record[k] # None /\ record[k].status = "COMPLETED"
          /\ Replay(k, b) /\ UNCHANGED call
       \/ /\ record[k] # None /\ record[k].status = "IN_PROGRESS"
          /\ UNCHANGED <<call, replayed>>
    /\ UNCHANGED <<route, record, rows, answered, unsettled>>

\* A call finds no record and goes on, a FAILED one and drops it, or is
\* answered here: by the stored response, or 409 when its payload differs or
\* another call is in progress.
FindKey(c, k, b) ==
    /\ call[c] = NoCall
    /\ \/ record[k] = None /\ Continues(c, k, b, "create") /\ UNCHANGED replayed
       \/ /\ record[k] # None /\ record[k].status = "FAILED"
          /\ Continues(c, k, b, "delete") /\ UNCHANGED replayed
       \/ /\ record[k] # None /\ record[k].status = "COMPLETED" /\ record[k].hash = b
          /\ Replay(k, b) /\ UNCHANGED call
       \/ /\ record[k] # None
          /\ \/ record[k].status = "IN_PROGRESS"
             \/ record[k].status = "COMPLETED" /\ record[k].hash # b
          /\ UNCHANGED <<call, replayed>>
    /\ UNCHANGED <<route, record, rows, answered, unsettled>>

\* DEL takes no notice of what the key holds by now.
DeleteKey(c) ==
    /\ At(c, "delete") /\ Goto(c, "create")
    /\ Put(call[c].key, None)
    /\ UNCHANGED <<route, rows, answered, replayed, unsettled>>

InProgress(b) == [status |-> "IN_PROGRESS", hash |-> b, response |-> None]

\* Mutant: SET without NX.
CreateKey_Overwrites(c) ==
    /\ At(c, "create") /\ Goto(c, "handle")
    /\ Put(call[c].key, InProgress(call[c].body))
    /\ UNCHANGED <<route, rows, answered, replayed, unsettled>>

\* SET NX: of several calls one creates the record; the others are told 409.
CreateKey(c) ==
    /\ At(c, "create")
    /\ \/ /\ record[call[c].key] = None
          /\ Put(call[c].key, InProgress(call[c].body))
          /\ Goto(c, "handle")
       \/ /\ record[call[c].key] # None
          /\ Ends(c) /\ UNCHANGED record
    /\ UNCHANGED <<route, rows, answered, replayed, unsettled>>
----------------------------------------------------------------------------
(* The handler.                                                            *)

Holds(c, pc, response) ==
    call' = [call EXCEPT ![c].pc = pc, ![c].response = response]

\* A booking's transaction inserts a row, or refuses (slot taken, shift, OTP).
Book(c) ==
    /\ At(c, "handle") /\ call[c].key \notin PaymentKeys
    /\ \/ /\ rows[call[c].key] < MaxRows
          /\ rows' = [rows EXCEPT ![call[c].key] = @ + 1]
          /\ Holds(c, "respond", Result(c, "2xx", rows'[call[c].key]))
       \/ Holds(c, "respond", Result(c, "4xx", 0)) /\ UNCHANGED rows
    /\ UNCHANGED <<route, record, answered, replayed, unsettled>>

\* Mutant: the payment row does not carry the key.
InitiatePayment_NoUnique(c) ==
    /\ At(c, "handle") /\ call[c].key \in PaymentKeys
    /\ rows[call[c].key] < MaxRows
    /\ rows' = [rows EXCEPT ![call[c].key] = @ + 1]
    /\ Holds(c, "gateway", Result(c, "5xx", rows'[call[c].key]))
    /\ UNCHANGED <<route, record, answered, replayed, unsettled>>

\* Payment rows carry the key, and (gamingCenterId, idempotencyKey) is unique:
\* a second row is refused, which the error handler answers with 409, as is
\* the initiation for a paid reservation.
InitiatePayment(c) ==
    /\ At(c, "handle") /\ call[c].key \in PaymentKeys
    /\ \/ /\ rows[call[c].key] = 0
          /\ rows' = [rows EXCEPT ![call[c].key] = 1]
          /\ Holds(c, "gateway", Result(c, "5xx", 1))
       \/ Holds(c, "respond", Result(c, "4xx", 0)) /\ UNCHANGED rows
    /\ UNCHANGED <<route, record, answered, replayed, unsettled>>

\* The provider answers with an authority, which is stored in the row, or
\* the call fails: 502 or 500, and the row stays.
Gateway(c) ==
    /\ At(c, "gateway")
    /\ \E code \in {"2xx", "5xx"} : Holds(c, "respond", [call[c].response EXCEPT !.code = code])
    /\ UNCHANGED <<route, record, rows, answered, replayed, unsettled>>

\* An unexpected error: 500.  Before the commit there is no row.
HandlerFails(c) ==
    /\ At(c, "handle")
    /\ Holds(c, "respond", Result(c, "5xx", 0))
    /\ UNCHANGED <<route, record, rows, answered, replayed, unsettled>>

\* The client has its answer before the record knows of it.  Both res.json and
\* res.send are wrapped to keep what they are given, and Express's own json
\* ends in this.send: what is kept, for the record, is the text that is sent.
Respond(c) ==
    LET k == call[c].key
        text == Json(call[c].response)
    IN
    /\ At(c, "respond") /\ Holds(c, "finish", text)
    /\ IF call[c].response.code = "5xx"
       THEN unsettled' = unsettled \cup {k} /\ UNCHANGED answered
       ELSE /\ answered' = [answered EXCEPT ![k] = @ \cup {text}]
            /\ UNCHANGED unsettled
    /\ UNCHANGED <<route, record, rows, replayed>>
----------------------------------------------------------------------------
(* The 'finish' listener: updateKey is a GET and then a SET of what it got  *)
(* with status and response replaced, which leaves the hash.               *)

\* Mutant: the record is written again without its hash.
UpdateReads_DropsHash(c) ==
    /\ At(c, "finish") /\ record[call[c].key] # None
    /\ Goto(c, "set")
    /\ UNCHANGED <<route, record, rows, answered, replayed, unsettled>>

\* Redis may fail here, and the key may be gone: both are only logged.
UpdateReads(c) ==
    LET k == call[c].key IN
    /\ At(c, "finish")
    /\ \/ /\ record[k] # None
          /\ call' = [call EXCEPT ![c].pc = "set", ![c].hash = record[k].hash]
          /\ UNCHANGED unsettled
       \/ Ends(c) /\ unsettled' = unsettled \cup {k}
    /\ UNCHANGED <<route, record, rows, answered, replayed>>

\* Mutant: client errors are left for another try like server errors.
StatusFor_ClientErrorFails(code) == IF code = "2xx" THEN "COMPLETED" ELSE "FAILED"

StatusFor(code) == IF code = "5xx" THEN "FAILED" ELSE "COMPLETED"

UpdateWrites(c) ==
    /\ At(c, "set") /\ Ends(c)
    /\ Put(call[c].key, [status |-> StatusFor(call[c].response.code),
                         hash |-> call[c].hash, response |-> call[c].response])
    /\ UNCHANGED <<route, rows, answered, replayed, unsettled>>
----------------------------------------------------------------------------
\* The instance dies while serving c.
Crash(c) ==
    /\ call[c] # NoCall /\ Ends(c)
    /\ unsettled' = unsettled \cup {call[c].key}
    /\ UNCHANGED <<route, record, rows, answered, replayed>>

\* Mutant: only settled records have a time to live.
KeyExpires_OnlySettled(k) ==
    /\ record[k] # None /\ record[k].status # "IN_PROGRESS"
    /\ Put(k, None)
    /\ unsettled' = unsettled \cup {k}
    /\ UNCHANGED <<route, rows, call, answered, replayed>>

\* 24 hours after its creation a record is gone, in whatever status.
KeyExpires(k) ==
    /\ record[k] # None /\ Put(k, None)
    /\ unsettled' = unsettled \cup {k}
    /\ UNCHANGED <<route, rows, call, answered, replayed>>

Serves(c) ==
    \/ DeleteKey(c) \/ CreateKey(c)
    \/ Book(c) \/ InitiatePayment(c) \/ Gateway(c) \/ HandlerFails(c)
    \/ Respond(c) \/ UpdateReads(c) \/ UpdateWrites(c)

Next ==
    \/ \E c \in Calls, k \in Keys, b \in Bodies : FindKey(c, k, b)
    \/ \E c \in Calls : Serves(c) \/ Crash(c)
    \/ \E k \in Keys : KeyExpires(k)

Spec == Init /\ [][Next]_vars

\* A call goes on, and Redis drops a record when its time is over.
FairSpec ==
    /\ Spec
    /\ \A c \in Calls : WF_vars(Serves(c))
    /\ \A k \in Keys : WF_vars(KeyExpires(k))
----------------------------------------------------------------------------
\* Types: a call past its insert holds a response, one at SET a hash, and so
\* does a record that is not in progress.
TypeOK ==
    /\ route \in [Keys -> {"booking", "payment"}]
    /\ record \in [Keys -> Record \cup {None}]
    /\ \A k \in Keys : (record[k] # None /\ record[k].status # "IN_PROGRESS")
                            => record[k].response # None
    /\ rows \in [Keys -> 0..MaxRows]
    /\ call \in [Calls -> CallRecord \cup {NoCall}]
    /\ \A c \in Calls :
        /\ call[c].pc \in {"gateway", "respond", "finish", "set"} => call[c].response # None
        /\ call[c].pc = "set" => call[c].hash # None
    /\ answered \in [Keys -> SUBSET Responses]
    /\ replayed \in [Keys -> SUBSET Replays]
    /\ unsettled \subseteq Keys

\* One row per key, however often and at whatever moment the call is repeated:
\* a payment in every case, as its row carries the key; a booking as long as
\* the key has not expired, failed or lost its instance.
DoneOnce ==
    \A k \in Keys : (k \in PaymentKeys \/ k \notin unsettled) => rows[k] <= 1

\* As long as the key is undisturbed there is a single answer, and a repeated
\* call is given that answer and no other, made JSON text once more, and only
\* to the payload it was made for (idempotency.ts:72-95, 145-178).  So it is
\* not "the same response", or "the stored response", byte for byte, that
\* idempotency.ts:169 and docs/api/booking-contract.md:159 speak of.
FirstAnswerStands ==
    \A k \in Keys \ unsettled :
        /\ Cardinality(answered[k]) <= 1
        /\ (record[k] # None /\ record[k].status # "IN_PROGRESS") =>
              record[k].status = "COMPLETED" /\ record[k].response \in answered[k]
        /\ \A x \in replayed[k] : \E y \in answered[k] :
              x.answer = Json(y) /\ x.to = y.body

\* Two successful answers under a payment's key name the same payment, after
\* expiry, failures and crashes too.
SamePayment ==
    \A k \in PaymentKeys : \A x, y \in answered[k] :
        (x.code = "2xx" /\ y.code = "2xx") => x.row = y.row

\* A client is not locked out: whatever happens to the instance that created
\* the record, its key does not answer "in progress" for ever.
ProgressEnds ==
    \A k \in Keys :
        (record[k] # None /\ record[k].status = "IN_PROGRESS")
            ~> (record[k] = None \/ record[k].status # "IN_PROGRESS")
====
