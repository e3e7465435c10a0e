---- MODULE AuthOps ----
(***************************************************************************)
(* The auth service: codes, logins, refresh and logout.  Each await is a   *)
(* step of its own; none of the flows runs in a transaction.               *)
(***************************************************************************)
EXTENDS AccountData

SendsCode(p) ==
    /\ Len(code[p]) < MaxCodes
    /\ code' = [code EXCEPT ![p] = Append(@, "sent")]
    /\ UNCHANGED <<user, customerVars, session, access, call>>

\* Staff get a code only if a user has the phone; a customer always does.
RequestUserOtp(p) == user[p] # None /\ SendsCode(p)
RequestCustomerOtp(p) == SendsCode(p)

\* Both verifications: the caller's code must be the recent one of its phone.
VerifyOtp(c, p, i) ==
    /\ IsRecentOtp(p, i)
    /\ BeginsWith(c, p, "consumeUser", i) \/ BeginsWith(c, p, "consumeCustomer", i)
    /\ UNCHANGED <<user, customerVars, authVars>>

\* Mutant: the code is used without being marked.
ConsumeOtp_Unmarked(c) ==
    /\ \/ At(c, "consumeUser") /\ Goto(c, "markUsers")
       \/ At(c, "consumeCustomer") /\ Goto(c, "findCustomer")
    /\ UNCHANGED <<code, user, customerVars, session, access>>

\* The UPDATE sets consumedAt, whatever became of the row since it was read.
ConsumeOtp(c) ==
    /\ \/ At(c, "consumeUser") /\ Goto(c, "markUsers")
       \/ At(c, "consumeCustomer") /\ Goto(c, "findCustomer")
    /\ code' = [code EXCEPT ![call[c].phone][call[c].item] = "fresh"]
    /\ UNCHANGED <<user, customerVars, session, access>>

MarkUserPhoneVerified(c) ==
    LET p == call[c].phone IN
    /\ At(c, "markUsers") /\ Ends(c)
    /\ user' = IF user[p] = None THEN user ELSE [user EXCEPT ![p] = TRUE]
    /\ UNCHANGED <<customerVars, authVars>>

\* Finds the account of the phone, marks it if it is there and not verified,
\* and goes on to the next step of the flow otherwise.
FindsAccount(c, step, absent, unverified, verified) ==
    LET a == account[call[c].phone] IN
    /\ At(c, step)
    /\ Goto(c, CASE a = None -> absent
                 [] a # None /\ ~a -> unverified
                 [] a # None /\ a -> verified)
    /\ UNCHANGED <<user, customerVars, authVars>>

MarksAccount(c, step, next) ==
    /\ At(c, step) /\ Goto(c, next)
    /\ account' = [account EXCEPT ![call[c].phone] = TRUE]
    /\ UNCHANGED <<user, profile, dropped, booking, authVars>>

\* The rest of verifyCustomerOtp, after which the controller logs in.
FindCustomer(c) == FindsAccount(c, "findCustomer", "loginFind", "markVerified", "loginFind")
MarkCustomer(c) == MarksAccount(c, "markVerified", "loginFind")

OpensAs(c, kind, via) ==
    call' = [call EXCEPT ![c].pc = "open",
                         ![c].actor = [kind |-> kind, phone |-> call[c].phone, via |-> via]]

\* Mutant: an account that is there is logged in as it is.
LoginCustomerFind_AnyAccount(c) ==
    /\ At(c, "loginFind") /\ UNCHANGED <<user, customerVars, authVars>>
    /\ IF account[call[c].phone] = None THEN Goto(c, "createAccount")
       ELSE OpensAs(c, "CUSTOMER", "code")

\* loginCustomer: an account is created, or marked, or used as it is.
LoginCustomerFind(c) ==
    LET a == account[call[c].phone] IN
    /\ At(c, "loginFind") /\ UNCHANGED <<user, customerVars, authVars>>
    /\ \/ a = None /\ Goto(c, "createAccount")
       \/ a # None /\ ~a /\ Goto(c, "loginMark")
       \/ a # None /\ a /\ OpensAs(c, "CUSTOMER", "code")

\* The phone is unique: if someone else created the account since, the login
\* fails and the consumed code is lost.
CreateCustomer(c) ==
    LET p == call[c].phone IN
    /\ At(c, "createAccount")
    /\ IF account[p] = None
       THEN /\ account' = [account EXCEPT ![p] = TRUE]
            /\ OpensAs(c, "CUSTOMER", "code")
       ELSE Ends(c) /\ UNCHANGED account
    /\ UNCHANGED <<user, profile, dropped, booking, authVars>>

LoginMark(c) ==
    /\ At(c, "loginMark") /\ OpensAs(c, "CUSTOMER", "code")
    /\ account' = [account EXCEPT ![call[c].phone] = TRUE]
    /\ UNCHANGED <<user, profile, dropped, booking, authVars>>

\* A user who verified a code within the window picks a center.
LoginUserWithOtp(c, p) ==
    /\ RecentConsumedOtp(p)
    /\ Begins(c, p, "findUser")
    /\ UNCHANGED <<user, customerVars, authVars>>

\* Mutant: the user that was found is not passed on.
FindUser_Anonymous(c) ==
    /\ At(c, "findUser")
    /\ IF user[call[c].phone] = None THEN Ends(c) ELSE Goto(c, "open")
    /\ UNCHANGED <<user, customerVars, authVars>>

FindUser(c) ==
    /\ At(c, "findUser")
    /\ IF user[call[c].phone] = None THEN Ends(c) ELSE OpensAs(c, "USER", "code")
    /\ UNCHANGED <<user, customerVars, authVars>>

\* The password is compared between the read and the new session.
LoginUser(c, p) ==
    /\ user[p] # None /\ call[c] = NoCall
    /\ call' = [call EXCEPT ![c] = [NoCall EXCEPT !.pc = "open", !.phone = p,
                    !.actor = [kind |-> "USER", phone |-> p, via |-> "password"]]]
    /\ UNCHANGED <<user, customerVars, authVars>>

\* The session row, then the access token that names it.
CreateAndSaveSession(c, s) ==
    /\ At(c, "open") /\ session[s] = None /\ Ends(c)
    /\ session' = [session EXCEPT
                      ![s] = [actor |-> call[c].actor, revoked |-> FALSE, expired |-> FALSE]]
    /\ access' = [access EXCEPT ![s] = "valid"]
    /\ UNCHANGED <<user, customerVars, code>>

\* A refresh token opens nothing once its session is revoked; found expired,
\* the session is revoked.
RefreshAuthToken(c, s) ==
    /\ session[s] # None /\ ~session[s].revoked
    /\ BeginsWith(c, session[s].actor.phone,
                  IF session[s].expired THEN "revoke" ELSE "issue", s)
    /\ UNCHANGED <<user, customerVars, authVars>>

\* The token is signed after the read, when a logout may have come between.
IssueToken(c) ==
    /\ At(c, "issue") /\ Ends(c)
    /\ access' = [access EXCEPT ![call[c].item] = "valid"]
    /\ UNCHANGED <<user, customerVars, code, session>>

\* authMiddleware: the token verifies and its user or account is there.
Authenticated(s) ==
    /\ access[s] = "valid"
    /\ LET a == session[s].actor IN
       IF a.kind = "USER" THEN user[a.phone] # None ELSE account[a.phone] # None

Logout(c, s) ==
    /\ Authenticated(s)
    /\ BeginsWith(c, session[s].actor.phone, "revoke", s)
    /\ UNCHANGED <<user, customerVars, authVars>>

RevokeSession(c) ==
    /\ At(c, "revoke") /\ Ends(c)
    /\ session' = [session EXCEPT ![call[c].item].revoked = TRUE]
    /\ UNCHANGED <<user, customerVars, code, access>>
----------------------------------------------------------------------------
(* Time passes: for a code, an access token, a session (7 days).           *)

CodeAges(p, i) ==
    /\ i \in DOMAIN code[p] /\ code[p][i] \in {"sent", "fresh"}
    /\ code' = [code EXCEPT ![p][i] = IF @ = "sent" THEN "expired" ELSE "old"]
    /\ UNCHANGED <<user, customerVars, session, access, call>>

AccessExpires(s) ==
    /\ access[s] = "valid" /\ access' = [access EXCEPT ![s] = "expired"]
    /\ UNCHANGED <<user, customerVars, code, session, call>>

SessionExpires(s) ==
    /\ session[s] # None /\ ~session[s].expired /\ access[s] = "expired"
    /\ session' = [session EXCEPT ![s].expired = TRUE]
    /\ UNCHANGED <<user, customerVars, code, access, call>>
----------------------------------------------------------------------------
\* The routes under /auth that start a flow of several awaits.
AuthArrives(c) ==
    \/ \E p \in Phones :
          \/ \E i \in 1..MaxCodes : VerifyOtp(c, p, i)
          \/ LoginUserWithOtp(c, p) \/ LoginUser(c, p)
    \/ \E s \in SessionIds : RefreshAuthToken(c, s) \/ Logout(c, s)

\* The flows go on; a customer's verification ends in a login.
AuthProceeds(c) ==
    \/ ConsumeOtp(c) \/ MarkUserPhoneVerified(c)
    \/ FindCustomer(c) \/ MarkCustomer(c)
    \/ LoginCustomerFind(c) \/ CreateCustomer(c) \/ LoginMark(c)
    \/ FindUser(c) \/ IssueToken(c) \/ RevokeSession(c)
    \/ \E s \in SessionIds : CreateAndSaveSession(c, s)
====
