---- MODULE Accounts ----
(***************************************************************************)
(* Logins, the customer list and bookings over the same accounts.          *)
(***************************************************************************)
EXTENDS AuthOps, CustomerOps

Init ==
    /\ user \in [Phones -> {FALSE, None}]
    /\ account = [p \in Phones |-> None]
    /\ profile = [p \in Phones |-> None]
    /\ dropped = {}
    /\ booking = [b \in Bookings |-> None]
    /\ code = [p \in Phones |-> <<>>]
    /\ session = [s \in SessionIds |-> None]
    /\ access = [s \in SessionIds |-> None]
    /\ call = [c \in Calls |-> NoCall]

\* The instance dies, or a statement fails: what is done stays done.
Crash(c) == call[c] # NoCall /\ Ends(c) /\ UNCHANGED <<user, customerVars, authVars>>

Serves(c) ==
    \/ AuthArrives(c) \/ AuthProceeds(c)
    \/ CustomerArrives(c) \/ CustomerProceeds(c)

Time ==
    \/ \E p \in Phones, i \in 1..MaxCodes : CodeAges(p, i)
    \/ \E s \in SessionIds : AccessExpires(s) \/ SessionExpires(s)

Next ==
    \/ \E c \in Calls : Serves(c) \/ Crash(c)
    \/ \E p \in Phones : RequestUserOtp(p) \/ RequestCustomerOtp(p)
    \/ Time

Spec == Init /\ [][Next]_vars
----------------------------------------------------------------------------
\* Types; a token names a session that is there, a call the code, session or
\* profile it is about to change and the actor it opens a session for.
TypeOK ==
    /\ user \in [Phones -> BOOLEAN \cup {None}]
    /\ account \in [Phones -> BOOLEAN \cup {None}]
    /\ profile \in [Phones -> ProfileIds \cup {None}]
    /\ dropped \subseteq ProfileIds
    /\ booking \in [Bookings -> ProfileIds \cup {None}]
    /\ code \in [Phones -> Seq(CodeStates)]
    /\ session \in [SessionIds -> SessionRows \cup {None}]
    /\ access \in [SessionIds -> {"valid", "expired", None}]
    /\ \A s \in SessionIds : access[s] # None => session[s] # None
    /\ call \in [Calls -> CallRecord \cup {NoCall}]
    /\ \A c \in Calls :
        /\ call[c].pc \in {"consumeUser", "consumeCustomer"} =>
              call[c].item \in DOMAIN code[call[c].phone]
        /\ At(c, "open") => call[c].actor \in Actors
        /\ call[c].pc \in {"issue", "revoke"} =>
              call[c].item \in SessionIds /\ session[call[c].item] # None
        /\ At(c, "profileDelete") => call[c].item \in ProfileIds

\* A session that was not opened with a password rests on a code of that very
\* phone which was consumed before, whatever other logins, verifications and
\* expiries came in between.
SessionHasCode ==
    \A s \in SessionIds :
        (session[s] # None /\ session[s].actor.via = "code") =>
            \E i \in DOMAIN code[session[s].actor.phone] :
                code[session[s].actor.phone][i] \notin Unused

\* Whoever is logged in as a customer has a verified account, also when staff
\* enter the same phone, or a booking creates it, in the middle of the login.
CustomerIsVerified ==
    \A s \in SessionIds :
        (session[s] # None /\ session[s].actor.kind = "CUSTOMER") =>
            account[session[s].actor.phone] = TRUE

\* A booking's profile is there, and the profile's account with it: a delete
\* in the customer list cannot slip between the snapshot of a booking and its
\* commit, nor after it.
NoOrphans ==
    \A b \in Bookings : booking[b] # None =>
        \E p \in Phones : profile[p] = booking[b] /\ account[p] # None
====
